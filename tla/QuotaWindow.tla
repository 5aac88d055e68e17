---------------------------- MODULE QuotaWindow -----------------------------
(***************************************************************************)
(* The request quota of one HTTP rule, as the proxy enforces it: a mutex   *)
(* around a fixed-window counter, shared by the clones of CelilyHandler    *)
(* that serve connections concurrently (celily-lib/src/network/handler.rs).*)
(*                                                                         *)
(* `now` is the wall clock in Unix seconds. A request locks the counter,   *)
(* then reads the clock, then counts: the receiver of `try_take` is        *)
(* evaluated before its arguments, so the reading is taken under the lock. *)
(***************************************************************************)
EXTENDS Naturals

CONSTANTS
  Handlers,       \* the clones of the handler, one per connection
  MaxRequests,    \* QuotaConfig.max_requests
  WindowSecs,     \* QuotaConfig.window.as_secs(): 0 for a sub-second window
  MaxTime,        \* bound on the wall clock
  MaxSetBacks,    \* bound on the times the wall clock is set back
  NoHandler       \* the lock is free

ASSUME QuotaAssumption ==
  /\ MaxRequests \in Nat
  /\ WindowSecs \in Nat
  /\ MaxTime \in Nat
  /\ MaxSetBacks \in Nat
  /\ NoHandler \notin Handlers

VARIABLES
  now,      \* the wall clock, in seconds
  pc,       \* handler |-> "idle", "clock" (lock held) or "take"
  lock,     \* the holder of the rule's mutex
  reading,  \* handler |-> the clock value it read
  index,    \* QuotaWindow.index
  count,    \* QuotaWindow.count
  setBacks, \* history: times the clock was set back
  descents, \* history: times the index moved to an earlier window
  granted,  \* history: window |-> requests admitted in it
  verdict   \* history: what the latest request was told

vars == <<now, pc, lock, reading, index, count, setBacks, descents, granted,
          verdict>>
history == <<setBacks, descents, granted, verdict>>

Time == 0 .. MaxTime

\* Seconds per window: a window below one second counts as one second.
WindowLen == IF WindowSecs = 0 THEN 1 ELSE WindowSecs

WindowOf(t) == t \div WindowLen

Windows == Time   \* every window index is below MaxTime, as WindowLen >= 1

TypeOK ==
  /\ now \in Time
  /\ pc \in [Handlers -> {"idle", "clock", "take"}]
  /\ lock \in Handlers \cup {NoHandler}
  /\ reading \in [Handlers -> Time]
  /\ index \in Windows
  /\ count \in Nat
  /\ setBacks \in 0 .. MaxSetBacks
  /\ descents \in Nat
  /\ granted \in [Windows -> Nat]
  /\ verdict \in {"none", "admitted", "refused"}

Init ==
  /\ now \in Time
  /\ pc = [h \in Handlers |-> "idle"]
  /\ lock = NoHandler
  /\ reading = [h \in Handlers |-> 0]
  /\ index = 0
  /\ count = 0
  /\ setBacks = 0
  /\ descents = 0
  /\ granted = [w \in Windows |-> 0]
  /\ verdict = "none"

\* Mutant of Lock: the quotas are not behind a mutex.
LockUnguarded(h) ==
  /\ pc[h] = "idle"
  /\ lock' = h
  /\ pc' = [pc EXCEPT ![h] = "clock"]
  /\ UNCHANGED <<now, reading, index, count, history>>

\* handle_request reaches the quota of the matched rule and takes the mutex.
Lock(h) ==
  /\ pc[h] = "idle"
  /\ lock = NoHandler
  /\ lock' = h
  /\ pc' = [pc EXCEPT ![h] = "clock"]
  /\ UNCHANGED <<now, reading, index, count, history>>

\* unix_now_secs(), an argument of try_take.
ReadClock(h) ==
  /\ pc[h] = "clock"
  /\ reading' = [reading EXCEPT ![h] = now]
  /\ pc' = [pc EXCEPT ![h] = "take"]
  /\ UNCHANGED <<now, lock, index, count, history>>

\* Mutants of CountIn: the count is never reset; only a later window resets it.
CountKept(w) == count
CountForward(w) == IF w > index THEN 0 ELSE count

\* The count a request in window w starts from: a new window resets it.
CountIn(w) == IF w # index THEN 0 ELSE count

\* try_take, then the lock guard goes out of scope. The request is admitted
\* or answered 429; either way the handler is ready for its next request.
TryTake(h) ==
  LET w == WindowOf(reading[h]) IN
  /\ pc[h] = "take"
  /\ index' = w
  /\ descents' = IF w < index THEN descents + 1 ELSE descents
  /\ \/ /\ CountIn(w) < MaxRequests
        /\ count' = CountIn(w) + 1
        /\ granted' = [granted EXCEPT ![w] = @ + 1]
        /\ verdict' = "admitted"
     \/ /\ CountIn(w) >= MaxRequests
        /\ count' = CountIn(w)
        /\ verdict' = "refused"
        /\ UNCHANGED granted
  /\ lock' = NoHandler
  /\ pc' = [pc EXCEPT ![h] = "idle"]
  /\ UNCHANGED <<now, reading, setBacks>>

Tick == /\ now < MaxTime
        /\ now' = now + 1
        /\ UNCHANGED <<pc, lock, reading, index, count, history>>

\* The clock is set back, by any amount (SystemTime is not monotonic).
SetBack(t) == /\ setBacks < MaxSetBacks
              /\ t < now
              /\ now' = t
              /\ setBacks' = setBacks + 1
              /\ UNCHANGED <<pc, lock, reading, index, count, descents, granted,
                             verdict>>

Next == \/ \E h \in Handlers : Lock(h) \/ ReadClock(h) \/ TryTake(h)
        \/ Tick
        \/ \E t \in Time : SetBack(t)

Spec == Init /\ [][Next]_vars

-----------------------------------------------------------------------------

\* Who holds the mutex is past Lock and not yet done with TryTake.
MutexInv == \A h \in Handlers : pc[h] # "idle" <=> lock = h

\* 1 if time t lies in a window before w.
Lag(t, w) == IF WindowOf(t) < w THEN 1 ELSE 0

\* Every descent of the index was paid for by a set-back of the clock, and
\* so is every descent that is already due: the one a reading taken but not
\* counted yet will cause, and the one the next reading will.
DescentsPaid ==
  /\ (\A h \in Handlers : pc[h] # "take") =>
        descents + Lag(now, index) <= setBacks
  /\ \A h \in Handlers : pc[h] = "take" =>
        descents + Lag(reading[h], index) + Lag(now, WindowOf(reading[h]))
          <= setBacks

\* What a window may have been granted since the last descent.
SinceDescent(w) ==
  IF w < index THEN MaxRequests ELSE IF w = index THEN count ELSE 0

Accounted ==
  /\ count <= MaxRequests
  /\ count <= granted[index]
  /\ \A w \in Windows : granted[w] <= MaxRequests * descents + SinceDescent(w)

\* The inductive invariant behind QuotaBound.
QuotaInv == TypeOK /\ MutexInv /\ DescentsPaid /\ Accounted

-----------------------------------------------------------------------------

\* However the handlers interleave and wherever the clock ticks, a window
\* never admits more than max_requests, and every time the clock is set back
\* costs at most one more allowance: try_take resets the count whenever the
\* index differs, an earlier window included (QuotaWindow::try_take under the
\* mutex of CelilyHandler.quotas).
QuotaBound == \A w \in Windows : granted[w] <= MaxRequests * (1 + setBacks)

RQ == INSTANCE RequestQuota WITH window <- index, returns <- descents

\* The mutex and the counter implement the promised quota: windows succeed
\* one another except for one return per set-back of the clock, no window is
\* overfilled, and a 429 is sent only when the window is full.
ImplementsQuota == RQ!ASpec
=============================================================================
