------------------------------ MODULE LxdDaemon ------------------------------
(***************************************************************************)
(* What celily's `lxc` commands do to the daemon's state: one operator per *)
(* command of celily-lib/src/backend/lxd that changes it. Instances live   *)
(* under user-visible names, which two runs may share; a bridge and its    *)
(* ACL carry a name no other run has, so they are indexed by the run that  *)
(* asked for them.                                                         *)
(*                                                                         *)
(* The daemon itself is outside the repository. What is assumed of it: a   *)
(* name is taken once, a command on something that is not there fails, a   *)
(* failing command changes nothing, and a bridge a NIC is attached to, or  *)
(* an ACL a bridge applies, is in use and cannot be deleted.               *)
(***************************************************************************)
EXTENDS Naturals

CONSTANTS
  Runs,     \* invocations of celily
  Names,    \* instance names
  NRules,   \* ACL rules of a bridge: proxy, DNS (UDP, TCP), one per TCP entry
  NoRun     \* not a run

ASSUME DaemonAssumption == NRules \in Nat \ {0} /\ NoRun \notin Runs

VARIABLES
  inst,    \* name |-> the instance of that name
  net,     \* run |-> what exists of its bridge and ACL
  rules    \* run |-> rules in its ACL

daemon == <<inst, net, rules>>

Instance == [owner : Runs \cup {NoRun},   \* the run that created it
             up    : BOOLEAN,             \* started
             nic   : Runs \cup {NoRun}]   \* the run whose bridge eth0 is on

Absent == [owner |-> NoRun, up |-> FALSE, nic |-> NoRun]

NetPart == {"bridge",    \* lxc network create
            "dnsmasq",   \* raw.dnsmasq set: names resolve through the DNS proxy
            "reject",    \* security.acls.default.egress.action=reject
            "applied",   \* security.acls names the ACL
            "acl"}       \* lxc network acl create

DaemonTypeOK ==
  /\ inst \in [Names -> Instance]
  /\ net \in [Runs -> SUBSET NetPart]
  /\ rules \in [Runs -> 0 .. NRules]

DaemonInit ==
  /\ inst = [n \in Names |-> Absent]
  /\ net = [r \in Runs |-> {}]
  /\ rules = [r \in Runs |-> 0]

Exists(n) == inst[n].owner # NoRun

\* Nothing leaves the bridge of r but what its ACL, with all its rules, lets
\* through, and names resolve through the DNS proxy only.
Secured(r) == net[r] = NetPart /\ rules[r] = NRules

-----------------------------------------------------------------------------
\* Instances

InitInstance(r, n) ==
  /\ ~Exists(n)
  /\ inst' = [inst EXCEPT ![n] = [Absent EXCEPT !.owner = r]]
  /\ UNCHANGED <<net, rules>>

AddNic(n, r) ==
  /\ Exists(n)
  /\ inst[n].nic = NoRun
  /\ "bridge" \in net[r]
  /\ inst' = [inst EXCEPT ![n].nic = r]
  /\ UNCHANGED <<net, rules>>

StartInstance(n) ==
  /\ Exists(n)
  /\ ~inst[n].up
  /\ inst' = [inst EXCEPT ![n].up = TRUE]
  /\ UNCHANGED <<net, rules>>

InstanceDeletable(n) == Exists(n)

DeleteInstance(n) ==
  /\ InstanceDeletable(n)
  /\ inst' = [inst EXCEPT ![n] = Absent]
  /\ UNCHANGED <<net, rules>>

-----------------------------------------------------------------------------
\* Bridges and ACLs

\* A command that adds `part` to the network of r and needs `needed` there.
Configure(r, part, needed) ==
  /\ needed \subseteq net[r]
  /\ part \notin net[r]
  /\ net' = [net EXCEPT ![r] = @ \cup {part}]
  /\ UNCHANGED <<inst, rules>>

CreateNetwork(r)    == Configure(r, "bridge", {})
SetNetworkDnsmasq(r) == Configure(r, "dnsmasq", {"bridge"})
SetEgressReject(r)  == Configure(r, "reject", {"bridge"})
CreateNetworkAcl(r) == Configure(r, "acl", {})
ApplyAcl(r)         == Configure(r, "applied", {"bridge", "acl"})

AddAclRule(r) ==
  /\ "acl" \in net[r]
  /\ rules[r] < NRules
  /\ rules' = [rules EXCEPT ![r] = @ + 1]
  /\ UNCHANGED <<inst, net>>

NetworkDeletable(r) == "bridge" \in net[r] /\ \A n \in Names : inst[n].nic # r

DeleteNetwork(r) ==
  /\ NetworkDeletable(r)
  /\ net' = [net EXCEPT ![r] = @ \cap {"acl"}]
  /\ UNCHANGED <<inst, rules>>

AclDeletable(r) == "acl" \in net[r] /\ "applied" \notin net[r]

DeleteAcl(r) ==
  /\ AclDeletable(r)
  /\ net' = [net EXCEPT ![r] = @ \ {"acl"}]
  /\ rules' = [rules EXCEPT ![r] = 0]
  /\ UNCHANGED inst
=============================================================================
