------------------------------ MODULE Lifecycle ------------------------------
(***************************************************************************)
(* Runs of celily from `prepared.init()` to the last guard: the instance   *)
(* is created, its network isolation and its devices are set up            *)
(* concurrently, it is attached, started and provisioned, the user's       *)
(* commands run, and everything is torn down (celily-lib/src/instance,     *)
(* celily/src/main.rs). Runs share the daemon, and may share an instance   *)
(* name. A run can be killed at any point, and an instance can disappear:  *)
(* an ephemeral one is deleted when it powers off, and the user can delete *)
(* any.                                                                    *)
(***************************************************************************)
EXTENDS Isolation

CONSTANTS
  NDevices,      \* commands of the devices branch: mounts, devices, description
  MaxAttempts,   \* polls of systemctl is-system-running: 60 in the code
  Kills,         \* may a run be killed?
  Vanish         \* whose instance may disappear: "any", or only that of a
                 \* run that is over ("ended")

ASSUME LifecycleAssumption ==
  /\ NDevices \in Nat
  /\ MaxAttempts \in Nat \ {0}
  /\ Kills \in BOOLEAN
  /\ Vanish \in {"any", "ended"}

VARIABLES
  pc,       \* run |-> where it is
  devices,  \* run |-> device commands done
  polls,    \* run |-> readiness polls done
  order     \* run |-> the order its guards fall in, once unwinding

vars == <<daemon, inputs, guards, isolation, pc, devices, polls, order>>

PC == {"create",                        \* Prepared
       "setup", "attach",               \* Instance::init after create
       "start", "poll",                 \* Initialized::start
       "cert", "trust", "chown",
       "running",                       \* pre_run scripts and the command
       "unwind", "exited",              \* guards fall; celily has exited
       "killed"}                        \* the process is gone, nothing fell

TypeOK ==
  /\ DaemonTypeOK
  /\ GuardsTypeOK
  /\ IsolationTypeOK
  /\ pc \in [Runs -> PC]
  /\ devices \in [Runs -> 0 .. NDevices]
  /\ polls \in [Runs -> 0 .. MaxAttempts]
  /\ order \in [Runs -> {StateOrder, InitLocalsOrder}]

Init ==
  /\ DaemonInit
  /\ GuardsInit
  /\ IsolationInit
  /\ pc = [r \in Runs |-> "create"]
  /\ devices = [r \in Runs |-> 0]
  /\ polls = [r \in Runs |-> 0]
  /\ order = [r \in Runs |-> StateOrder]

Goto(r, from, to) == pc[r] = from /\ pc' = [pc EXCEPT ![r] = to]

Unwind(r, from, o) ==
  /\ Goto(r, from, "unwind")
  /\ order' = [order EXCEPT ![r] = o]

-----------------------------------------------------------------------------
\* Instance::init

\* Mutant of Create: the guard is made before the instance is.
CreateGuardFirst(r) ==
  /\ Acquire(r, "instance")
  /\ \/ /\ Goto(r, "create", "setup")
        /\ InitInstance(r, name[r])
        /\ iso' = [iso EXCEPT ![r] = "network"]
        /\ pending' = [pending EXCEPT ![r] = {"devices"}]
        /\ UNCHANGED order
     \/ Unwind(r, "create", InitLocalsOrder) /\ UNCHANGED <<daemon, iso, pending>>
  /\ UNCHANGED <<inputs, host, broken, failed, devices, polls>>

\* The guard exists only once create has succeeded: a run that could not
\* create its instance owns nothing.
Create(r) ==
  \/ /\ Goto(r, "create", "setup")
     /\ InitInstance(r, name[r])
     /\ Acquire(r, "instance")
     /\ iso' = [iso EXCEPT ![r] = "network"]
     /\ pending' = [pending EXCEPT ![r] = {"devices"}]
     /\ UNCHANGED <<inputs, host, broken, failed, devices, polls, order>>
  \/ /\ Goto(r, "create", "exited")
     /\ UNCHANGED <<daemon, inputs, guards, isolation, devices, polls, order>>

SetupIsolation(r) ==
  /\ pc[r] = "setup"
  /\ IsolationStep(r)
  /\ UNCHANGED <<inputs, pc, devices, polls, order>>

\* The devices branch: disk devices, extra devices, the description.
AddDevice(r) ==
  /\ pc[r] = "setup"
  /\ \/ /\ "devices" \in pending[r]
        /\ Exists(name[r])
        /\ devices[r] < NDevices
        /\ devices' = [devices EXCEPT ![r] = @ + 1]
        /\ UNCHANGED <<daemon, guards, isolation>>
     \/ /\ devices[r] = NDevices
        /\ "devices" \in pending[r]
        /\ Finish(r, "devices")
        /\ UNCHANGED <<daemon, guards, iso, failed, devices>>
     \/ devices[r] < NDevices /\ FailBranch(r, "devices") /\ UNCHANGED devices
  /\ UNCHANGED <<inputs, pc, polls, order>>

\* Mutant of Joined: only the result of the devices branch is looked at.
JoinedUnchecked(r) ==
  /\ iso[r] \in {"ok", "err"}
  /\ "devices" \notin pending[r]
  /\ IF "devices" \notin failed[r]
       THEN Goto(r, "setup", "attach") /\ UNCHANGED order
       ELSE Unwind(r, "setup", InitLocalsOrder)
  /\ UNCHANGED <<daemon, inputs, guards, isolation, devices, polls>>

\* join! returns once both futures have finished, whatever their results.
Joined(r) ==
  /\ iso[r] \in {"ok", "err"}
  /\ "devices" \notin pending[r]
  /\ IF iso[r] = "ok" /\ "devices" \notin failed[r]
       THEN Goto(r, "setup", "attach") /\ UNCHANGED order
       ELSE Unwind(r, "setup", InitLocalsOrder)
  /\ UNCHANGED <<daemon, inputs, guards, isolation, devices, polls>>

\* Mutant of Attach: an instance that cannot be attached is started anyway.
AttachUnchecked(r) ==
  /\ Goto(r, "attach", "start")
  /\ AddNic(name[r], r) \/ UNCHANGED daemon
  /\ UNCHANGED <<inputs, guards, isolation, devices, polls, order>>

Attach(r) ==
  /\ \/ Goto(r, "attach", "start") /\ AddNic(name[r], r) /\ UNCHANGED order
     \/ Unwind(r, "attach", InitLocalsOrder) /\ UNCHANGED daemon
  /\ UNCHANGED <<inputs, guards, isolation, devices, polls>>

-----------------------------------------------------------------------------
\* Initialized::start

Start(r) ==
  /\ \/ Goto(r, "start", "poll") /\ StartInstance(name[r]) /\ UNCHANGED order
     \/ Unwind(r, "start", StateOrder) /\ UNCHANGED daemon
  /\ UNCHANGED <<inputs, guards, isolation, devices, polls>>

\* Mutant of Poll: attempts are not bounded.
PollUnbounded(r) ==
  /\ \/ Goto(r, "poll", "cert") /\ inst[name[r]].up /\ UNCHANGED polls
     \/ /\ pc[r] = "poll"
        /\ polls' = [polls EXCEPT ![r] = (@ + 1) % MaxAttempts]
        /\ UNCHANGED pc
  /\ UNCHANGED <<daemon, inputs, guards, isolation, devices, order>>

\* Only the answer "running" ends the loop early; any other answer, or no
\* answer, costs one of the attempts.
Poll(r) ==
  /\ \/ /\ Goto(r, "poll", "cert")
        /\ polls[r] < MaxAttempts
        /\ inst[name[r]].up
        /\ UNCHANGED <<polls, order>>
     \/ /\ pc[r] = "poll"
        /\ polls[r] < MaxAttempts
        /\ polls' = [polls EXCEPT ![r] = @ + 1]
        /\ UNCHANGED <<pc, order>>
     \/ /\ polls[r] = MaxAttempts
        /\ Unwind(r, "poll", StateOrder)
        /\ UNCHANGED polls
  /\ UNCHANGED <<daemon, inputs, guards, isolation, devices>>

\* Push the CA certificate, rebuild the trust store, chown mount parents.
Provision(r) ==
  /\ \/ /\ Goto(r, "cert", "trust") \/ Goto(r, "trust", "chown")
             \/ Goto(r, "chown", "running")
        /\ inst[name[r]].up
        /\ UNCHANGED order
     \/ \E step \in {"cert", "trust", "chown"} : Unwind(r, step, StateOrder)
  /\ UNCHANGED <<daemon, inputs, guards, isolation, devices, polls>>

-----------------------------------------------------------------------------
\* main: the commands end, or fail, and `running` is dropped

Leave(r) ==
  /\ Unwind(r, "running", StateOrder)
  /\ UNCHANGED <<daemon, inputs, guards, isolation, devices, polls>>

\* Mutant of Teardown: celily exits once the host is clean.
TeardownWaits(r) ==
  /\ \/ /\ pc[r] = "unwind"
        /\ \E g \in Guard : Falls(r, order[r], g) /\ DropGuard(r, g)
        /\ UNCHANGED pc
     \/ /\ held[r] = {} /\ host[r] = {}
        /\ Goto(r, "unwind", "exited")
        /\ UNCHANGED <<daemon, guards>>
  /\ UNCHANGED <<inputs, isolation, devices, polls, order>>

Teardown(r) ==
  /\ \/ /\ pc[r] = "unwind"
        /\ \E g \in Guard : Falls(r, order[r], g) /\ DropGuard(r, g)
        /\ UNCHANGED pc
     \/ /\ held[r] = {}
        /\ Goto(r, "unwind", "exited")
        /\ UNCHANGED <<daemon, guards>>
  /\ UNCHANGED <<inputs, isolation, devices, polls, order>>

Ended(r) == pc[r] \in {"exited", "killed"}

\* celily does not handle signals.
Kill(r) ==
  /\ Kills
  /\ ~Ended(r)
  /\ pc' = [pc EXCEPT ![r] = "killed"]
  /\ Abandon(r)
  /\ UNCHANGED <<inputs, isolation, devices, polls, order>>

\* The instance of name n powers off and is deleted, or the user deletes it.
Disappear(n) ==
  /\ Exists(n)
  /\ Vanish = "any" \/ Ended(inst[n].owner)
  /\ DeleteInstance(n)
  /\ UNCHANGED <<inputs, guards, isolation, pc, devices, polls, order>>

\* What a run does of itself; the user's commands decide when it leaves.
Step(r) ==
  \/ Create(r) \/ SetupIsolation(r) \/ AddDevice(r) \/ Joined(r) \/ Attach(r)
  \/ Start(r) \/ Poll(r) \/ Provision(r) \/ Teardown(r)

Finished == (\A r \in Runs : Ended(r)) /\ UNCHANGED vars

Next ==
  \/ \E r \in Runs : Step(r) \/ Leave(r) \/ Kill(r)
  \/ \E n \in Names : Disappear(n)
  \/ Finished

Spec == Init /\ [][Next]_vars

FairSpec == Spec /\ \A r \in Runs : WF_vars(Step(r))
-----------------------------------------------------------------------------

\* An instance that has a NIC has it on a bridge that is completely closed:
\* default reject, the ACL applied with all its rules, DNS filtered. It holds
\* while runs set up, fail, unwind, are killed or keep their instance, and
\* whoever deletes instances in between (create_bridge before
\* attach_to_bridge, and the order guards fall in).
NicIsConfined == \A n \in Names : inst[n].nic # NoRun => Secured(inst[n].nic)

\* An instance runs only on its own run's closed bridge, for as long as it
\* runs, a killed or finished run included.
UpIsConfined ==
  \A n \in Names : inst[n].up => /\ inst[n].nic = inst[n].owner
                                 /\ Secured(inst[n].owner)

\* What init and start have built of the network by each stage of setup.
BridgeReady(r) ==
  \/ iso[r] \in {"secrets", "caDir", "caCert", "spawn", "probe"}
  \/ iso[r] = "ok" /\ pc[r] \in {"setup", "attach"}

BridgeBuilt(r) ==
  /\ iso[r] \in {"subnet", "createAcl", "configure"} => "bridge" \in net[r]
  /\ iso[r] = "configure" =>
       /\ "acl" \in net[r]
       /\ "dnsmasq" \in pending[r] \cup failed[r] \cup net[r]
       /\ "rules" \in pending[r] \cup failed[r] \/ rules[r] = NRules
  /\ iso[r] = "reject" =>
       {"bridge", "acl", "dnsmasq"} \subseteq net[r] /\ rules[r] = NRules
  /\ iso[r] = "apply" => NetPart \ {"applied"} \subseteq net[r] /\ rules[r] = NRules
  /\ BridgeReady(r) => Secured(r)

\* Where setup can be for each state of the run.
StagesAgree(r) ==
  /\ pc[r] = "create" => iso[r] = "off"
  /\ pc[r] \in PC \ {"create", "setup", "unwind", "exited", "killed"} => iso[r] = "ok"
  /\ pc[r] \in {"unwind", "exited"} => iso[r] \in {"off", "ok", "err"}
  /\ pending[r] \cap {"rules", "dnsmasq"} # {} => iso[r] = "configure"

\* The inductive invariant behind NicIsConfined.
NetInv ==
  /\ TypeOK
  /\ \A r \in Runs : BridgeBuilt(r) /\ StagesAgree(r)
  /\ NicIsConfined

\* A guard on an instance means the run owns it; a started run's instance is
\* on the run's bridge.
Owns(r) ==
  /\ "instance" \in held[r] => inst[name[r]].owner = r
  /\ pc[r] \in {"setup", "attach", "start", "poll", "cert", "trust", "chown", "running"}
       => "instance" \in held[r]
  /\ pc[r] \in {"start", "poll", "cert", "trust", "chown", "running"}
       => inst[name[r]].nic = r
  /\ pc[r] \in {"create", "exited", "killed"} => held[r] = {}

NicIsOwn ==
  \A n \in Names : /\ inst[n].nic \in {NoRun, inst[n].owner}
                   /\ inst[n].up => Exists(n) /\ inst[n].nic = inst[n].owner

\* The inductive invariant behind UpIsConfined and DeletesOnlyOwn, when no
\* instance disappears under a live run.
OwnerInv == NetInv /\ (\A r \in Runs : Owns(r)) /\ NicIsOwn

\* Everything of a run is guarded. Before attach_to_bridge, and when the locals
\* of init unwind, no NIC is on the run's bridge; the ACL is applied by the last
\* step of create_bridge only; and what the daemon and the host have of the run
\* has a guard, as long as no deletion failed by itself.
Unattached(r) ==
  \/ pc[r] \in {"create", "setup", "attach"}
  \/ pc[r] = "unwind" /\ order[r] = InitLocalsOrder

NotApplied(r) ==
  iso[r] \in {"off", "network", "subnet", "createAcl", "configure", "reject", "apply",
             "failBridge"}

Guarded(r) ==
  /\ pc[r] \in {"create", "exited"} => held[r] = {}
  /\ pc[r] \in {"setup", "attach", "start", "poll", "cert", "trust", "chown", "running"}
       => "instance" \in held[r]
  /\ Unattached(r) => \A n \in Names : inst[n].nic # r
  /\ \A n \in Names : r \in {inst[n].owner, inst[n].nic} => n = name[r]
  /\ net[r] \subseteq {"acl"} \/ "bridge" \in net[r]
  /\ NotApplied(r) => "applied" \notin net[r]
  /\ ~keep[r] /\ r \notin broken /\ pc[r] # "killed" =>
       /\ "instance" \in held[r] \/ \A n \in Names : r \notin {inst[n].owner, inst[n].nic}
       /\ net[r] \cap {"bridge", "acl"} \subseteq held[r]
       /\ host[r] \subseteq held[r]

\* The inductive invariant behind NoLeak, whoever deletes instances.
LeakInv ==
  /\ NetInv
  /\ \A r \in Runs : Guarded(r)
  /\ \A n \in Names : Exists(n) \/ inst[n] = Absent

\* A run that has exited without --keep leaves nothing behind, on the daemon
\* or on the host, unless a deletion failed by itself: no order in which the
\* guards fall makes the daemon refuse a deletion for good.
NoLeak ==
  \A r \in Runs : pc[r] = "exited" /\ ~keep[r] /\ r \notin broken =>
    /\ net[r] = {}
    /\ host[r] = {}
    /\ \A n \in Names : inst[n].owner # r

\* The sandbox of a run: its instance is the one it owns.
Mine(r) == inst[name[r]].owner = r

BoxOf(r) ==
  IF Mine(r) THEN IF inst[name[r]].up THEN "up" ELSE "down"
  ELSE IF pc[r] = "create" THEN "unmade" ELSE "gone"

WallsOf(r) == IF net[r] = {} THEN "none" ELSE IF Secured(r) THEN "closed" ELSE "open"

OverOf(r) ==
  IF pc[r] = "killed" THEN "killed"
  ELSE IF pc[r] # "exited" THEN "no"
  ELSE IF keep[r] \/ r \in broken THEN "left" ELSE "clean"

SB == INSTANCE Sandbox WITH
  box <- [r \in Runs |-> BoxOf(r)],
  walls <- [r \in Runs |-> WallsOf(r)],
  over <- [r \in Runs |-> OverOf(r)]

\* Each run is a sandbox: its instance is made once, starts behind closed walls
\* only, nobody changes them while it is up, and a run that ends cleanly has
\* left nothing (Instance::init, Initialized::start and the order of guards).
ImplementsSandbox == SB!SSpec

\* A run never deletes the instance of another run, not even one of the same
\* name that made its own creation fail (guard.rs deletes by name).
DeletesOnlyOwn ==
  [][\A r \in Runs, n \in Names :
       "instance" \in held[r] \ held'[r] /\ Exists(n) /\ ~Exists(n)'
         => inst[n].owner = r]_vars

\* Every launch settles: a run reaches its commands, exits, or is killed. No
\* failure, and no instance that never reports "running", keeps it waiting.
LaunchSettles ==
  \A r \in Runs : pc[r] = "create" ~> pc[r] \in {"running", "exited", "killed"}

\* Unwinding ends, whatever deletions fail.
UnwindEnds == \A r \in Runs : pc[r] = "unwind" ~> Ended(r)
=============================================================================
