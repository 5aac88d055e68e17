-------------------------- MODULE QuotaWindowProofs -------------------------
(***************************************************************************)
(* Proof of the quota bound for any number of handlers, any quota, any     *)
(* window and any number of clock set-backs.                               *)
(***************************************************************************)
EXTENDS QuotaWindow, TLAPS

LEMMA WindowLenPositive == WindowLen \in Nat \ {0}
  BY QuotaAssumption DEF WindowLen

\* A window index never exceeds the time it was computed from.
LEMMA WindowOfTime ==
  ASSUME NEW t \in Nat
  PROVE  WindowOf(t) \in Nat /\ WindowOf(t) <= t
  BY WindowLenPositive DEF WindowOf

\* Later times lie in later windows.
LEMMA WindowOfMonotone ==
  ASSUME NEW t \in Nat, NEW u \in Nat, t <= u
  PROVE  WindowOf(t) <= WindowOf(u)
  BY WindowLenPositive DEF WindowOf

LEMMA ProductMonotone ==
  ASSUME NEW m \in Nat, NEW a \in Nat, NEW b \in Nat, a <= b
  PROVE  m * a <= m * b
  OBVIOUS

LEMMA BelowAllowance ==
  ASSUME NEW g \in Nat, NEW p \in Nat, NEW c \in Nat, NEW m \in Nat,
         c <= m, g + 1 <= p + c
  PROVE  g < p + m
  OBVIOUS

LEMMA ProductStep ==
  ASSUME NEW m \in Nat, NEW a \in Nat
  PROVE  m * (a + 1) = m * a + m /\ m * (1 + a) = m * a + m /\ m * a \in Nat
  OBVIOUS

-----------------------------------------------------------------------------

LEMMA InitQuotaInv == Init => QuotaInv
<1> SUFFICES ASSUME Init PROVE QuotaInv
  OBVIOUS
<1> USE QuotaAssumption
<1>1. TypeOK
  BY DEF Init, TypeOK, Time, Windows
<1>2. MutexInv
  BY DEF Init, MutexInv
<1>3. WindowOf(now) \in Nat
  BY WindowOfTime DEF Init, Time
<1>4. DescentsPaid
  BY <1>3 DEF Init, DescentsPaid, Lag
<1>5. Accounted
  BY DEF Init, Accounted, SinceDescent, Windows, Time
<1>6. QED
  BY <1>1, <1>2, <1>4, <1>5 DEF QuotaInv

\* What the type invariant says of the windows of the clock and of a reading.
LEMMA WindowsTyped ==
  ASSUME TypeOK
  PROVE  /\ index \in Nat
         /\ WindowOf(now) \in Nat
         /\ \A h \in Handlers : /\ reading[h] \in Nat
                                /\ WindowOf(reading[h]) \in Windows
                                /\ WindowOf(reading[h]) \in Nat
<1> USE QuotaAssumption
<1>1. index \in Nat /\ now \in Nat /\ \A h \in Handlers : reading[h] \in 0 .. MaxTime
  BY DEF TypeOK, Time, Windows
<1>2. QED
  BY <1>1, WindowOfTime DEF Windows, Time

LEMMA LockStep ==
  ASSUME QuotaInv, NEW h \in Handlers, Lock(h)
  PROVE  QuotaInv'
<1> USE DEF QuotaInv
<1>1. TypeOK'
  BY DEF TypeOK, Lock, history
<1>2. MutexInv'
  BY QuotaAssumption DEF TypeOK, MutexInv, Lock
<1>3. \A k \in Handlers : pc'[k] # "take" <=> pc[k] # "take"
  BY DEF TypeOK, Lock
<1>4. DescentsPaid'
  BY <1>3 DEF DescentsPaid, Lag, Lock, history, WindowOf
<1>5. Accounted'
  BY DEF Accounted, SinceDescent, Lock, history
<1>6. QED
  BY <1>1, <1>2, <1>4, <1>5

\* The reading is the present, so counting it costs no more than the lag the
\* clock already has; and no other reading is pending, by the mutex.
LEMMA ReadClockStep ==
  ASSUME QuotaInv, NEW h \in Handlers, ReadClock(h)
  PROVE  QuotaInv'
<1> USE DEF QuotaInv
<1>1. TypeOK'
  BY DEF TypeOK, ReadClock, history
<1>2. MutexInv'
  BY DEF TypeOK, MutexInv, ReadClock
<1>3. \A k \in Handlers : pc[k] # "take"
  BY DEF MutexInv, ReadClock, TypeOK
<1>4. \A k \in Handlers : pc'[k] = "take" => k = h
  BY <1>3 DEF TypeOK, ReadClock
<1>5. reading'[h] = now /\ now' = now /\ index' = index
      /\ descents' = descents /\ setBacks' = setBacks
  BY DEF TypeOK, ReadClock, history
<1>6. pc'[h] = "take"
  BY DEF TypeOK, ReadClock
<1>7. descents + Lag(now, index) <= setBacks
  BY <1>3 DEF DescentsPaid
<1>8. DescentsPaid'
  BY <1>4, <1>5, <1>6, <1>7, WindowsTyped DEF DescentsPaid, Lag, TypeOK, WindowOf
<1>9. Accounted'
  BY DEF Accounted, SinceDescent, ReadClock, history
<1>10. QED
  BY <1>1, <1>2, <1>8, <1>9

\* A tick brings the clock to the same window or a later one.
LEMMA TickStep ==
  ASSUME QuotaInv, Tick
  PROVE  QuotaInv'
<1> USE DEF QuotaInv
<1>1. TypeOK'
  BY QuotaAssumption DEF TypeOK, Tick, history, Time
<1>2. MutexInv'
  BY DEF MutexInv, Tick
<1>3. WindowOf(now) <= WindowOf(now')
  BY WindowOfMonotone, QuotaAssumption DEF Tick, TypeOK, Time
<1>4. WindowOf(now') \in Nat
  BY <1>1, WindowOfTime, QuotaAssumption DEF TypeOK, Time
<1>5. DescentsPaid'
  <2>1. \A w \in Nat : Lag(now', w) <= Lag(now, w)
                       /\ Lag(now', w) \in Nat /\ Lag(now, w) \in Nat
    BY <1>3, <1>4, WindowsTyped DEF Lag
  <2>2. Lag(now', index) <= Lag(now, index) /\ Lag(now', index) \in Nat
        /\ Lag(now, index) \in Nat
    BY <2>1, WindowsTyped
  <2>3. ASSUME NEW h \in Handlers
        PROVE  /\ Lag(now', WindowOf(reading[h])) <= Lag(now, WindowOf(reading[h]))
               /\ Lag(now', WindowOf(reading[h])) \in Nat
               /\ Lag(now, WindowOf(reading[h])) \in Nat
               /\ Lag(reading[h], index) \in Nat
    BY <2>1, WindowsTyped DEF Lag
  <2>4. /\ pc' = pc /\ reading' = reading /\ index' = index
        /\ descents' = descents /\ setBacks' = setBacks
    BY DEF Tick, history
  <2>5. descents \in Nat /\ setBacks \in Nat
    BY QuotaAssumption DEF TypeOK
  <2>6. (\A h \in Handlers : pc[h] # "take")
          => descents + Lag(now', index) <= setBacks
    BY <2>2, <2>5 DEF DescentsPaid
  <2>7. \A h \in Handlers : pc[h] = "take" =>
          descents + Lag(reading[h], index) + Lag(now', WindowOf(reading[h])) <= setBacks
    BY <2>3, <2>5 DEF DescentsPaid
  <2>8. QED
    BY <2>4, <2>6, <2>7 DEF DescentsPaid, Lag, WindowOf
<1>6. Accounted'
  BY DEF Accounted, SinceDescent, Tick, history
<1>7. QED
  BY <1>1, <1>2, <1>5, <1>6

\* A set-back adds at most one lag, and pays for it.
LEMMA SetBackStep ==
  ASSUME QuotaInv, NEW t \in Time, SetBack(t)
  PROVE  QuotaInv'
<1> USE DEF QuotaInv
<1>1. TypeOK'
  BY QuotaAssumption DEF TypeOK, SetBack
<1>2. MutexInv'
  BY DEF MutexInv, SetBack
<1>3. DescentsPaid'
  <2>1. \A u, w : Lag(u, w) \in {0, 1}
    BY DEF Lag
  <2>2. /\ pc' = pc /\ reading' = reading /\ index' = index
        /\ descents' = descents /\ setBacks' = setBacks + 1
    BY DEF SetBack
  <2>3. descents \in Nat /\ setBacks \in Nat
    BY QuotaAssumption DEF TypeOK
  <2>4. (\A h \in Handlers : pc[h] # "take")
          => descents + Lag(now', index) <= setBacks + 1
    BY <2>1, <2>3 DEF DescentsPaid
  <2>5. \A h \in Handlers : pc[h] = "take" =>
          descents + Lag(reading[h], index) + Lag(now', WindowOf(reading[h]))
            <= setBacks + 1
    BY <2>1, <2>3 DEF DescentsPaid
  <2>6. QED
    BY <2>2, <2>4, <2>5 DEF DescentsPaid, Lag, WindowOf
<1>4. Accounted'
  BY DEF Accounted, SinceDescent, SetBack
<1>5. QED
  BY <1>1, <1>2, <1>3, <1>4

\* Counting a request moves the index to the window of the reading. If that
\* is an earlier window the descent has been paid for, and every window may
\* be granted one more allowance; otherwise the count carries on or starts
\* afresh in a window nothing was granted in since the last descent.
LEMMA TryTakeStep ==
  ASSUME QuotaInv, NEW h \in Handlers, TryTake(h)
  PROVE  QuotaInv'
<1> DEFINE w == WindowOf(reading[h])
<1> USE DEF QuotaInv
<1>1. /\ w \in Windows /\ w \in Nat /\ index \in Nat /\ index \in Windows
      /\ count \in Nat /\ descents \in Nat /\ setBacks \in Nat
      /\ MaxRequests \in Nat /\ granted \in [Windows -> Nat]
      /\ Windows \subseteq Nat
  BY WindowsTyped, QuotaAssumption DEF TypeOK, Windows, Time
<1>2. /\ index' = w /\ now' = now /\ reading' = reading /\ setBacks' = setBacks
      /\ descents' = IF w < index THEN descents + 1 ELSE descents
      /\ pc' = [pc EXCEPT ![h] = "idle"] /\ lock' = NoHandler
  BY DEF TryTake
<1>3. \/ /\ CountIn(w) < MaxRequests
         /\ count' = CountIn(w) + 1
         /\ granted' = [granted EXCEPT ![w] = @ + 1]
         /\ verdict' = "admitted"
      \/ /\ CountIn(w) >= MaxRequests
         /\ count' = CountIn(w)
         /\ granted' = granted
         /\ verdict' = "refused"
  BY DEF TryTake
<1>4. CountIn(w) \in Nat /\ CountIn(w) <= MaxRequests
  BY <1>1 DEF CountIn, Accounted
<1> HIDE DEF w
<1>5. TypeOK'
  BY <1>1, <1>2, <1>3, <1>4 DEF TypeOK
<1>6. pc[h] = "take" /\ \A k \in Handlers : k # h => pc[k] = "idle"
  BY DEF TryTake, MutexInv
<1>7. \A k \in Handlers : pc'[k] = "idle"
  BY <1>2, <1>6 DEF TypeOK
<1>8. MutexInv'
  BY <1>2, <1>7, QuotaAssumption DEF MutexInv
<1>9. DescentsPaid'
  <2>1. descents + Lag(reading[h], index) + Lag(now, w) <= setBacks
    BY <1>6 DEF DescentsPaid, w
  <2>2. descents' = descents + Lag(reading[h], index)
    BY <1>1, <1>2 DEF Lag, w
  <2>3. descents' + Lag(now, w) <= setBacks
    BY <2>1, <2>2
  <2>4. QED
    BY <1>2, <1>7, <2>3 DEF DescentsPaid, Lag, WindowOf
<1>10. Accounted'
  <2>1. count' \in Nat /\ count' <= MaxRequests
    BY <1>1, <1>3, <1>4
  <2>12. count' <= granted'[index']
    <3>1. granted[w] \in Nat /\ granted'[w] = granted[w] + (count' - CountIn(w))
      BY <1>1, <1>3, <1>4
    <3>2. CountIn(w) <= granted[w]
      BY <1>1, <3>1 DEF CountIn, Accounted
    <3>3. QED
      BY <1>1, <1>2, <1>4, <2>1, <3>1, <3>2
  <2>2. SUFFICES ASSUME NEW v \in Windows
                 PROVE  granted'[v] <= MaxRequests * descents' + SinceDescent(v)'
    BY <2>1, <2>12 DEF Accounted, Windows, Time
  <2>3. /\ v \in Nat /\ granted[v] \in Nat
        /\ granted[v] <= MaxRequests * descents + SinceDescent(v)
    BY <1>1 DEF Accounted
  <2>4. SinceDescent(v)' = IF v < w THEN MaxRequests ELSE IF v = w THEN count' ELSE 0
    BY <1>2 DEF SinceDescent
  <2>5. granted'[v] = IF v = w THEN granted[v] + (count' - CountIn(w)) ELSE granted[v]
    BY <1>1, <1>3, <1>4
  <2>6. MaxRequests * (descents + 1) = MaxRequests * descents + MaxRequests
        /\ MaxRequests * descents \in Nat
    BY <1>1, ProductStep
  <2>7. count' - CountIn(w) >= 0 /\ count' - CountIn(w) <= count'
    BY <1>3, <1>4, <1>1
  <2> DEFINE p == MaxRequests * descents
  <2>8. CASE w < index
    <3>1. granted[v] <= p + MaxRequests
      BY <1>1, <2>3, <2>6 DEF SinceDescent, Accounted
    <3>2. MaxRequests * descents' = p + MaxRequests
      BY <1>2, <2>6, <2>8
    <3> HIDE DEF p
    <3>3. QED
      BY <1>1, <1>4, <2>1, <2>3, <2>4, <2>5, <2>6, <2>7, <3>1, <3>2 DEF p
  <2>9. CASE w = index
    <3>1. CountIn(w) = count /\ descents' = descents
      BY <1>1, <1>2, <2>9 DEF CountIn
    <3> HIDE DEF p
    <3>2. QED
      BY <1>1, <1>4, <2>1, <2>3, <2>4, <2>5, <2>6, <2>9, <3>1 DEF p, SinceDescent
  <2>10. CASE w > index
    <3>1. CountIn(w) = 0 /\ descents' = descents
      BY <1>1, <1>2, <2>10 DEF CountIn
    <3>2. SinceDescent(v) <= IF v < w THEN MaxRequests ELSE 0
      BY <1>1, <2>10 DEF SinceDescent, Accounted
    <3> HIDE DEF p
    <3>3. SinceDescent(v) \in Nat
      BY <1>1 DEF SinceDescent
    <3>4. QED
      BY <1>1, <2>1, <2>3, <2>4, <2>5, <2>6, <3>1, <3>2, <3>3 DEF p
  <2>11. QED
    BY <1>1, <2>8, <2>9, <2>10
<1>11. QED
  BY <1>5, <1>8, <1>9, <1>10

\* The invariant is inductive.
LEMMA NextQuotaInv == QuotaInv /\ [Next]_vars => QuotaInv'
<1> SUFFICES ASSUME QuotaInv, [Next]_vars PROVE QuotaInv'
  OBVIOUS
<1>1. CASE UNCHANGED vars
  BY <1>1 DEF QuotaInv, TypeOK, MutexInv, DescentsPaid, Accounted, SinceDescent,
              Lag, WindowOf, vars
<1>2. CASE Next
  BY <1>2, LockStep, ReadClockStep, TryTakeStep, TickStep, SetBackStep DEF Next
<1>3. QED
  BY <1>1, <1>2

\* The quota of a rule is a shared counter in the code; whatever the number
\* of connections, QuotaInv holds of it in every reachable state.
THEOREM QuotaInvariant == Spec => []QuotaInv
  BY InitQuotaInv, NextQuotaInv, PTL DEF Spec

LEMMA InvImpliesBound == QuotaInv => QuotaBound
<1> SUFFICES ASSUME QuotaInv, NEW w \in Windows
             PROVE  granted[w] <= MaxRequests * (1 + setBacks)
  BY DEF QuotaBound
<1>1. /\ MaxRequests \in Nat /\ descents \in Nat /\ setBacks \in Nat /\ count \in Nat
      /\ index \in Nat /\ w \in Nat /\ granted[w] \in Nat
  BY QuotaAssumption DEF QuotaInv, TypeOK, Windows, Time
<1>2. granted[w] <= MaxRequests * descents + MaxRequests
  <2>1. SinceDescent(w) <= MaxRequests /\ SinceDescent(w) \in Nat
    BY <1>1 DEF SinceDescent, QuotaInv, Accounted
  <2>2. QED
    BY <1>1, <2>1, ProductStep DEF QuotaInv, Accounted
<1>3. descents <= setBacks
  <2>1. \A t, v : Lag(t, v) \in {0, 1}
    BY DEF Lag
  <2>2. QED
    BY <1>1, <2>1 DEF QuotaInv, DescentsPaid
<1>4. QED
  BY <1>1, <1>2, <1>3, ProductMonotone, ProductStep

\* No window is ever granted more than max_requests, plus one allowance per
\* set-back of the clock, for any number of connections and any quota.
THEOREM QuotaBounded == Spec => []QuotaBound
  BY QuotaInvariant, InvImpliesBound, PTL
-----------------------------------------------------------------------------

LEMMA InitRefines == Init => RQ!AInit
  BY DEF Init, RQ!AInit

\* A reading that is about to be counted moves the quota as promised: it lies
\* in an earlier window only if a set-back is left to pay for it.
LEMMA CountingEnters ==
  ASSUME QuotaInv, NEW h \in Handlers, TryTake(h)
  PROVE  RQ!Enter(WindowOf(reading[h]))
<1> DEFINE w == WindowOf(reading[h])
<1>1. /\ w \in Nat /\ index \in Nat /\ descents \in Nat /\ setBacks \in Nat
      /\ pc[h] = "take" /\ index' = w
      /\ descents' = IF w < index THEN descents + 1 ELSE descents
  BY WindowsTyped DEF QuotaInv, TypeOK, TryTake, Windows, Time
<1>2. ASSUME w < index
      PROVE  descents < setBacks
  <2>1. Lag(reading[h], index) = 1 /\ Lag(now, w) \in {0, 1}
    BY <1>2 DEF Lag
  <2>2. descents + Lag(reading[h], index) + Lag(now, w) <= setBacks
    BY <1>1 DEF QuotaInv, DescentsPaid
  <2>3. QED
    BY <1>1, <2>1, <2>2
<1>3. QED
  BY <1>1, <1>2 DEF RQ!Enter

\* Counting a request and setting the clock back are steps of the promise;
\* every other step is invisible.
LEMMA StepRefines ==
  ASSUME QuotaInv, QuotaInv', [Next]_vars
  PROVE  [RQ!ANext]_(RQ!quotaVars)
<1>1. CASE UNCHANGED vars
  BY <1>1 DEF vars, RQ!quotaVars
<1>2. ASSUME NEW h \in Handlers, Lock(h) \/ ReadClock(h)
      PROVE  UNCHANGED RQ!quotaVars
  BY <1>2 DEF Lock, ReadClock, history, RQ!quotaVars
<1>3. CASE Tick
  BY <1>3 DEF Tick, history, RQ!quotaVars
<1>4. ASSUME NEW t \in Time, SetBack(t)
      PROVE  RQ!ANext
  BY <1>4 DEF SetBack, RQ!ANext, RQ!ClockSetBack
<1>5. ASSUME NEW h \in Handlers, TryTake(h)
      PROVE  RQ!ANext
  <2> DEFINE w == WindowOf(reading[h])
  <2>1. index' = w /\ setBacks' = setBacks
    BY <1>5 DEF TryTake
  <2>2. /\ w \in Windows /\ w \in Nat /\ index \in Nat /\ count \in Nat
        /\ granted \in [Windows -> Nat] /\ granted[w] \in Nat
        /\ MaxRequests \in Nat /\ descents' \in Nat
    BY <1>5, WindowsTyped, QuotaAssumption DEF QuotaInv, TypeOK, TryTake
  <2>3. RQ!Enter(w)
    BY <1>5, CountingEnters
  <2>4. CASE CountIn(w) < MaxRequests /\ granted' = [granted EXCEPT ![w] = @ + 1]
             /\ verdict' = "admitted"
    <3>1. \A v \in Windows :
            granted'[v] <= MaxRequests * descents' +
              (IF v < index' THEN MaxRequests ELSE IF v = index' THEN count' ELSE 0)
      BY DEF QuotaInv, Accounted, SinceDescent, Windows, Time
    <3>2. granted'[w] <= MaxRequests * descents' + count'
          /\ count' <= MaxRequests /\ count' \in Nat
      BY <2>1, <2>2, <3>1 DEF QuotaInv, Accounted, TypeOK
    <3>3. granted'[w] = granted[w] + 1
      BY <2>2, <2>4
    <3>4. MaxRequests * (1 + descents') = MaxRequests * descents' + MaxRequests
          /\ MaxRequests * descents' \in Nat
      BY <2>2, ProductStep
    <3>5. granted[w] < MaxRequests * (1 + descents')
      BY <2>2, <3>2, <3>3, <3>4, BelowAllowance
    <3>6. QED
      BY <2>1, <2>2, <2>3, <2>4, <3>5 DEF RQ!ANext, RQ!Admit
  <2>5. CASE CountIn(w) >= MaxRequests /\ granted' = granted /\ verdict' = "refused"
    <3>1. granted[w] >= MaxRequests
      BY <2>2, <2>5 DEF CountIn, QuotaInv, Accounted
    <3>2. QED
      BY <2>1, <2>2, <2>3, <2>5, <3>1 DEF RQ!ANext, RQ!Refuse
  <2>6. QED
    BY <1>5, <2>4, <2>5 DEF TryTake
<1>6. QED
  BY <1>1, <1>2, <1>3, <1>4, <1>5 DEF Next

\* The handlers' shared counter implements the promised quota, for any number
\* of handlers, any quota and a clock that may be set back.
THEOREM QuotaRefinement == Spec => ImplementsQuota
<1>1. QuotaInv /\ QuotaInv' /\ [Next]_vars => [RQ!ANext]_(RQ!quotaVars)
  BY StepRefines
<1>2. QED
  BY <1>1, QuotaInvariant, InitRefines, PTL DEF Spec, ImplementsQuota, RQ!ASpec
=============================================================================
