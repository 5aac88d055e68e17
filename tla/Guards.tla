------------------------------- MODULE Guards --------------------------------
(***************************************************************************)
(* The RAII guards a run holds, and what dropping each one does            *)
(* (celily-lib/src/instance/guard.rs, backend/lxd/{acl,bridge,network}.rs, *)
(* network/{mod,proxelar}.rs, util.rs).                                    *)
(*                                                                         *)
(* `held[r]` is the set of guards run r holds. Rust fixes the order they   *)
(* fall in: locals in reverse order of declaration, fields in order. The   *)
(* orders that occur are sequences below.                                  *)
(***************************************************************************)
EXTENDS LxdDaemon, Sequences

VARIABLES
  name,     \* run |-> the name of its instance (--name, or generated)
  keep,     \* run |-> --keep
  held,     \* run |-> guards it holds
  host,     \* run |-> what it has on the host: its proxies, its CA directory
  broken    \* history: runs one of whose deletions failed by itself

guards == <<held, host, broken>>
inputs == <<name, keep>>

Guard == {"instance",   \* InstanceGuard
          "proxy",      \* ProxelarGuard: aborts the proxy tasks
          "ca",         \* CleanupDir of the CA, a field of ProxelarGuard
          "bridge",     \* LxdBridge
          "acl"}        \* NetworkAcl

HostPart == {"proxy", "ca"}

GuardsTypeOK ==
  /\ name \in [Runs -> Names]
  /\ keep \in [Runs -> BOOLEAN]
  /\ held \in [Runs -> SUBSET Guard]
  /\ host \in [Runs -> SUBSET HostPart]
  /\ broken \subseteq Runs

GuardsInit ==
  /\ name \in [Runs -> Names]
  /\ keep \in [Runs -> BOOLEAN]
  /\ held = [r \in Runs |-> {}]
  /\ host = [r \in Runs |-> {}]
  /\ broken = {}

\* Mutant of BridgeGuardOrder: the ACL falls first, while the bridge uses it.
AclFirstOrder == <<"acl", "bridge">>

\* LxdBridgeGuard declares `bridge`, then `acl`.
BridgeGuardOrder == <<"bridge", "acl">>

\* NetworkIsolation declares `proxy`, then `bridge_guard`; ProxelarGuard::drop
\* aborts the tasks before the fields, and so the CA directory, go.
IsolationOrder == <<"proxy", "ca">> \o BridgeGuardOrder

\* Mutant of StateOrder: `isolation` is declared before `guard`.
NetworkFirstOrder == IsolationOrder \o <<"instance">>

\* Initialized and Running declare `guard` before `isolation`.
StateOrder == <<"instance">> \o IsolationOrder

\* Instance::init fails: its locals fall, latest first, and `guard` is older
\* than the result of NetworkIsolation::setup.
InitLocalsOrder == IsolationOrder \o <<"instance">>

\* create_bridge fails: `acl` is younger than `bridge`.
BridgeLocalsOrder == <<"acl", "bridge">>

HeldOf(r, order) == {order[i] : i \in DOMAIN order} \cap held[r]

\* The next guard of r to fall is g.
Falls(r, order, g) ==
  \E i \in DOMAIN order :
    /\ order[i] = g
    /\ g \in held[r]
    /\ \A j \in 1 .. i - 1 : order[j] \notin held[r]

-----------------------------------------------------------------------------

\* A deletion that did not happen is only logged: the daemon refused it, or
\* the command failed by itself.
Undeleted(r, deletable) ==
  /\ UNCHANGED daemon
  /\ broken' = IF deletable THEN broken \cup {r} ELSE broken

DropInstance(r) ==
  \/ keep[r] /\ UNCHANGED <<daemon, broken>>
  \/ ~keep[r] /\ DeleteInstance(name[r]) /\ UNCHANGED broken
  \/ ~keep[r] /\ Undeleted(r, InstanceDeletable(name[r]))

DropBridge(r) ==
  \/ keep[r] /\ UNCHANGED <<daemon, broken>>
  \/ ~keep[r] /\ DeleteNetwork(r) /\ UNCHANGED broken
  \/ ~keep[r] /\ Undeleted(r, NetworkDeletable(r))

DropAcl(r) ==
  \/ keep[r] /\ UNCHANGED <<daemon, broken>>
  \/ ~keep[r] /\ DeleteAcl(r) /\ UNCHANGED broken
  \/ ~keep[r] /\ Undeleted(r, AclDeletable(r))

\* The tasks are aborted, never waited for.
DropProxy(r) ==
  /\ host' = [host EXCEPT ![r] = @ \ {"proxy"}]
  /\ UNCHANGED <<daemon, broken>>

DropCa(r) ==
  /\ \/ host' = [host EXCEPT ![r] = @ \ {"ca"}] /\ UNCHANGED broken
     \/ broken' = broken \cup {r} /\ UNCHANGED host
  /\ UNCHANGED daemon

DropGuard(r, g) ==
  /\ held' = [held EXCEPT ![r] = @ \ {g}]
  /\ \/ g = "instance" /\ DropInstance(r) /\ UNCHANGED host
     \/ g = "bridge" /\ DropBridge(r) /\ UNCHANGED host
     \/ g = "acl" /\ DropAcl(r) /\ UNCHANGED host
     \/ g = "proxy" /\ DropProxy(r)
     \/ g = "ca" /\ DropCa(r)

\* The process dies without unwinding: the proxies die with it, everything
\* else stays.
Abandon(r) ==
  /\ held' = [held EXCEPT ![r] = {}]
  /\ host' = [host EXCEPT ![r] = @ \ {"proxy"}]
  /\ UNCHANGED <<daemon, broken>>
=============================================================================
