---------------------------- MODULE ProxyStartup -----------------------------
(***************************************************************************)
(* ProxelarGuard::start once both proxies are spawned: wait_until_ready    *)
(* polls the HTTP proxy's port, while the two tasks load, bind, serve and  *)
(* may stop at any time (celily-lib/src/network/proxelar.rs). Lifecycle    *)
(* has this as the one step WaitUntilReady.                                *)
(*                                                                         *)
(* Time is counted in rounds of the loop's 50 ms pause. The proxies        *)
(* themselves are outside the repository; the port may already be taken,   *)
(* on the wildcard address, by a process of the host.                      *)
(***************************************************************************)
EXTENDS Naturals

CONSTANT
  Deadline    \* STARTUP_TIMEOUT, in pauses: 200 in the code

ASSUME StartupAssumption == Deadline \in Nat

VARIABLES
  portTaken, \* does another process listen on the HTTP proxy's port?
  task,      \* proxy |-> its task
  at,        \* where wait_until_ready is
  elapsed,   \* pauses so far
  missed     \* history: proxies that had stopped when a connection was accepted

vars == <<portTaken, task, at, elapsed, missed>>

Proxy == {"http", "dns"}

TypeOK ==
  /\ portTaken \in BOOLEAN
  /\ task \in [Proxy -> {"loading", "serving", "stopped", "aborted"}]
  /\ at \in {"check", "connect", "recheck", "sleep", "failed", "ready", "error"}
  /\ elapsed \in 0 .. Deadline
  /\ missed \subseteq Proxy

Init ==
  /\ portTaken \in BOOLEAN
  /\ task = [p \in Proxy |-> "loading"]
  /\ at = "check"
  /\ elapsed = 0
  /\ missed = {}

Stopped == {p \in Proxy : task[p] = "stopped"}

-----------------------------------------------------------------------------
\* The tasks, on other threads

Serve(p) ==
  /\ task[p] = "loading"
  /\ p = "http" => ~portTaken      \* bind fails on a port that is taken
  /\ task' = [task EXCEPT ![p] = "serving"]
  /\ UNCHANGED <<portTaken, at, elapsed, missed>>

Stop(p) ==
  /\ task[p] \in {"loading", "serving"}
  /\ task' = [task EXCEPT ![p] = "stopped"]
  /\ UNCHANGED <<portTaken, at, elapsed, missed>>

-----------------------------------------------------------------------------
\* wait_until_ready

\* check_tasks at the top of the loop, and again after a connection.
CheckTasks(from, to) ==
  /\ at = from
  /\ at' = IF Stopped = {} THEN to ELSE "failed"
  /\ UNCHANGED <<portTaken, task, elapsed, missed>>

Check == CheckTasks("check", "connect")

\* Mutant of Recheck: a connection is enough.
RecheckSkipped ==
  at = "recheck" /\ at' = "ready" /\ UNCHANGED <<portTaken, task, elapsed, missed>>

Recheck == CheckTasks("recheck", "ready")

Accepted ==
  /\ at' = "recheck"
  /\ missed' = Stopped
  /\ UNCHANGED <<portTaken, task, elapsed>>

\* A connection is refused while nobody listens. Once the deadline has
\* passed it times out, as may one that is never answered.
Connect ==
  /\ at = "connect"
  /\ \/ task["http"] = "serving" /\ Accepted
     \/ portTaken /\ Accepted      \* by whoever has the port
     \/ /\ task["http"] # "serving" /\ ~portTaken
        /\ elapsed < Deadline
        /\ at' = "sleep"
        /\ UNCHANGED <<portTaken, task, elapsed, missed>>
     \/ at' = "failed" /\ UNCHANGED <<portTaken, task, elapsed, missed>>

\* Mutant of Sleep: every pause restarts the timeout.
SleepRestarts ==
  /\ at = "sleep"
  /\ at' = "check"
  /\ UNCHANGED <<portTaken, task, elapsed, missed>>

Sleep ==
  /\ at = "sleep"
  /\ elapsed' = elapsed + 1
  /\ at' = "check"
  /\ UNCHANGED <<portTaken, task, missed>>

\* The error drops the guard, which aborts both tasks.
Fail ==
  /\ at = "failed"
  /\ at' = "error"
  /\ task' = [p \in Proxy |-> IF task[p] = "stopped" THEN "stopped" ELSE "aborted"]
  /\ UNCHANGED <<portTaken, elapsed, missed>>

Wait == Check \/ Connect \/ Recheck \/ Sleep \/ Fail

Done == at \in {"ready", "error"} /\ UNCHANGED vars

Next == (\E p \in Proxy : Serve(p) \/ Stop(p)) \/ Wait \/ Done

Spec == Init /\ [][Next]_vars
-----------------------------------------------------------------------------

\* The inductive invariant behind StopIsNoticed: the deadline bounds the
\* pauses, and a task that has stopped stays stopped until the guard falls.
StartupInv ==
  /\ TypeOK
  /\ at = "sleep" => elapsed < Deadline
  /\ at = "recheck" => missed \subseteq Stopped
  /\ at = "ready" => missed = {}

\* A proxy that had stopped when the connection was accepted, by itself or
\* because its port was taken, is noticed: the start fails (the second
\* check_tasks of wait_until_ready).
StopIsNoticed == at = "ready" => missed = {}
=============================================================================
