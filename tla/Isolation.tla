------------------------------ MODULE Isolation ------------------------------
(***************************************************************************)
(* NetworkIsolation::setup and all it calls: create_bridge builds the      *)
(* bridge and its ACL, the auth secrets are resolved, and ProxelarGuard    *)
(* starts the HTTP and DNS proxies on the gateway. Every step may fail;    *)
(* what was built by then is torn down by the guards, in the order Rust    *)
(* drops them, before the error is returned.                               *)
(*                                                                         *)
(* One step is one command or one await. `tokio::join!` in create_bridge   *)
(* runs add_rules and set_raw_dnsmasq concurrently and waits for both,     *)
(* even when one has failed: `pending` holds what still runs, `failed`     *)
(* what has failed.                                                        *)
(***************************************************************************)
EXTENDS Guards

VARIABLES
  iso,      \* run |-> where its setup is
  pending,  \* run |-> branches of a join! that have not finished
  failed    \* run |-> branches that finished with an error

isolation == <<iso, pending, failed>>

Branch == {"rules", "dnsmasq",   \* the join! in create_bridge
           "devices"}            \* with setup itself, the join! in init

IsoState == {"off",
             \* create_bridge
             "network", "subnet", "createAcl", "configure", "reject", "apply",
             \* setup, then ProxelarGuard::start
             "secrets", "caDir", "caCert", "spawn", "probe",
             \* an error on its way out, and the two results of setup
             "failBridge", "failSetup", "ok", "err"}

IsolationTypeOK ==
  /\ iso \in [Runs -> IsoState]
  /\ pending \in [Runs -> SUBSET Branch]
  /\ failed \in [Runs -> SUBSET Branch]

IsolationInit ==
  /\ iso = [r \in Runs |-> "off"]
  /\ pending = [r \in Runs |-> {}]
  /\ failed = [r \in Runs |-> {}]

IsoGoto(r, from, to) == iso[r] = from /\ iso' = [iso EXCEPT ![r] = to]

Acquire(r, g) == held' = [held EXCEPT ![r] = @ \cup {g}]

\* Nothing happened but the error.
NoEffect == UNCHANGED <<daemon, guards, pending, failed>>

-----------------------------------------------------------------------------
\* create_bridge

CreateBridge(r) ==
  \/ /\ IsoGoto(r, "network", "subnet")
     /\ CreateNetwork(r)
     /\ Acquire(r, "bridge")
     /\ UNCHANGED <<host, broken, pending, failed>>
  \/ IsoGoto(r, "network", "err") /\ NoEffect

GetSubnet(r) ==
  /\ IsoGoto(r, "subnet", "createAcl") \/ IsoGoto(r, "subnet", "failBridge")
  /\ NoEffect

\* Mutant of CreateAcl: the ACL has no guard.
CreateAclUnguarded(r) ==
  \/ /\ IsoGoto(r, "createAcl", "configure")
     /\ CreateNetworkAcl(r)
     /\ pending' = [pending EXCEPT ![r] = @ \cup {"rules", "dnsmasq"}]
     /\ UNCHANGED <<guards, failed>>
  \/ IsoGoto(r, "createAcl", "failBridge") /\ NoEffect

CreateAcl(r) ==
  \/ /\ IsoGoto(r, "createAcl", "configure")
     /\ CreateNetworkAcl(r)
     /\ Acquire(r, "acl")
     /\ pending' = [pending EXCEPT ![r] = @ \cup {"rules", "dnsmasq"}]
     /\ UNCHANGED <<host, broken, failed>>
  \/ IsoGoto(r, "createAcl", "failBridge") /\ NoEffect

Finish(r, branch) == pending' = [pending EXCEPT ![r] = @ \ {branch}]

FailBranch(r, branch) ==
  /\ branch \in pending[r]
  /\ Finish(r, branch)
  /\ failed' = [failed EXCEPT ![r] = @ \cup {branch}]
  /\ UNCHANGED <<daemon, guards, iso>>

\* add_rules: one command per rule, in order, up to the first that fails.
AddRule(r) ==
  \/ /\ "rules" \in pending[r]
     /\ AddAclRule(r)
     /\ IF rules'[r] = NRules THEN Finish(r, "rules") ELSE UNCHANGED pending
     /\ UNCHANGED <<guards, iso, failed>>
  \/ FailBranch(r, "rules")

SetDnsmasq(r) ==
  \/ /\ "dnsmasq" \in pending[r]
     /\ SetNetworkDnsmasq(r)
     /\ Finish(r, "dnsmasq")
     /\ UNCHANGED <<guards, iso, failed>>
  \/ FailBranch(r, "dnsmasq")

\* Mutant of BridgeConfigured: the results of the join! are dropped.
ConfiguredUnchecked(r) ==
  /\ pending[r] \cap {"rules", "dnsmasq"} = {}
  /\ IsoGoto(r, "configure", "reject")
  /\ NoEffect

\* Both branches are done; the first error, if any, is returned.
BridgeConfigured(r) ==
  /\ pending[r] \cap {"rules", "dnsmasq"} = {}
  /\ IF failed[r] \cap {"rules", "dnsmasq"} = {}
       THEN IsoGoto(r, "configure", "reject")
       ELSE IsoGoto(r, "configure", "failBridge")
  /\ NoEffect

SetDefaultReject(r) ==
  \/ /\ IsoGoto(r, "reject", "apply")
     /\ SetEgressReject(r)
     /\ UNCHANGED <<guards, pending, failed>>
  \/ IsoGoto(r, "reject", "failBridge") /\ NoEffect

AttachAcl(r) ==
  \/ /\ IsoGoto(r, "apply", "secrets")
     /\ ApplyAcl(r)
     /\ UNCHANGED <<guards, pending, failed>>
  \/ IsoGoto(r, "apply", "failBridge") /\ NoEffect

-----------------------------------------------------------------------------
\* setup, once the bridge is there

\* Each unique secret is resolved once; no provider is an error too.
ResolveSecrets(r) ==
  /\ IsoGoto(r, "secrets", "caDir") \/ IsoGoto(r, "secrets", "failSetup")
  /\ NoEffect

\* A name server and XDG_RUNTIME_DIR are found, and the directory is created.
CreateCaDir(r) ==
  \/ /\ IsoGoto(r, "caDir", "caCert")
     /\ host' = [host EXCEPT ![r] = @ \cup {"ca"}]
     /\ Acquire(r, "ca")
     /\ UNCHANGED <<daemon, broken, pending, failed>>
  \/ IsoGoto(r, "caDir", "failSetup") /\ NoEffect

GenerateCa(r) ==
  /\ IsoGoto(r, "caCert", "spawn") \/ IsoGoto(r, "caCert", "failSetup")
  /\ NoEffect

SpawnProxies(r) ==
  /\ IsoGoto(r, "spawn", "probe")
  /\ host' = [host EXCEPT ![r] = @ \cup {"proxy"}]
  /\ Acquire(r, "proxy")
  /\ UNCHANGED <<daemon, broken, pending, failed>>

\* wait_until_ready: the HTTP proxy accepts, a task has stopped, or the
\* deadline has passed.
WaitUntilReady(r) ==
  /\ IsoGoto(r, "probe", "ok") \/ IsoGoto(r, "probe", "failSetup")
  /\ NoEffect

\* An error in create_bridge drops its locals; one later drops those of
\* ProxelarGuard::start and then setup's bridge guard.
FailOrder(r) ==
  IF iso[r] = "failBridge" THEN BridgeLocalsOrder ELSE IsolationOrder

UnwindIsolation(r) ==
  /\ iso[r] \in {"failBridge", "failSetup"}
  /\ \/ /\ \E g \in Guard : Falls(r, FailOrder(r), g) /\ DropGuard(r, g)
        /\ UNCHANGED isolation
     \/ /\ HeldOf(r, FailOrder(r)) = {}
        /\ iso' = [iso EXCEPT ![r] = "err"]
        /\ NoEffect

IsolationStep(r) ==
  \/ CreateBridge(r) \/ GetSubnet(r) \/ CreateAcl(r) \/ AddRule(r)
  \/ SetDnsmasq(r) \/ BridgeConfigured(r) \/ SetDefaultReject(r) \/ AttachAcl(r)
  \/ ResolveSecrets(r) \/ CreateCaDir(r) \/ GenerateCa(r) \/ SpawnProxies(r)
  \/ WaitUntilReady(r) \/ UnwindIsolation(r)
=============================================================================
