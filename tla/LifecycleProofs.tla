--------------------------- MODULE LifecycleProofs ---------------------------
(***************************************************************************)
(* Proofs about Lifecycle, for any number of runs, names, ACL rules,       *)
(* device commands and readiness polls.                                    *)
(*                                                                         *)
(* Part 1: an instance's NIC is only ever on a bridge that is completely   *)
(* closed, whoever deletes instances. Part 2, when no instance disappears  *)
(* under a live run: a run's instance runs on that run's closed bridge     *)
(* only, and a run deletes no instance but its own. Part 3: everything of  *)
(* a run has a guard, and the guards fall in an order in which the daemon  *)
(* refuses no deletion: a run that ends by itself leaves nothing. Part 4:  *)
(* every run implements Sandbox, when no instance disappears under it.     *)
(***************************************************************************)
EXTENDS Lifecycle, TLAPS

-----------------------------------------------------------------------------
\* What a daemon command of run r can do, as far as confinement goes.

NetOnly(r) == \A q \in Runs \ {r} : net'[q] = net[q] /\ rules'[q] = rules[q]

NoNewNic == \A n \in Names : inst'[n].nic \in {NoRun, inst[n].nic}

UsedStaySecured ==
  \A b \in Runs : Secured(b) /\ (\E n \in Names : inst[n].nic = b) => Secured(b)'

Gentle(r) == DaemonTypeOK' /\ NetOnly(r) /\ NoNewNic /\ UsedStaySecured

LEMMA GentleConfined ==
  ASSUME DaemonTypeOK, NicIsConfined, NEW r \in Runs, Gentle(r)
  PROVE  NicIsConfined'
<1> SUFFICES ASSUME NEW n \in Names, inst'[n].nic # NoRun
             PROVE  net'[inst'[n].nic] = NetPart /\ rules'[inst'[n].nic] = NRules
  BY DEF NicIsConfined, Secured
<1>1. inst'[n].nic = inst[n].nic /\ inst[n].nic \in Runs
  BY DEF Gentle, NoNewNic, DaemonTypeOK, Instance
<1>2. Secured(inst[n].nic)
  BY <1>1 DEF NicIsConfined
<1>3. net'[inst[n].nic] = NetPart /\ rules'[inst[n].nic] = NRules
  BY <1>1, <1>2 DEF Gentle, UsedStaySecured, Secured
<1>4. QED
  BY <1>1, <1>3

LEMMA QuietGentle ==
  ASSUME DaemonTypeOK, NEW r \in Runs, UNCHANGED daemon
  PROVE  Gentle(r)
  BY DEF daemon, Gentle, NetOnly, NoNewNic, UsedStaySecured, DaemonTypeOK, Secured

LEMMA InstanceOpsGentle ==
  ASSUME DaemonTypeOK, NEW r \in Runs, NEW n \in Names,
         InitInstance(r, n) \/ StartInstance(n) \/ DeleteInstance(n)
  PROVE  Gentle(r)
<1>1. DaemonTypeOK'
  <2>1. Absent \in Instance
    BY DEF Absent, Instance
  <2>2. [Absent EXCEPT !.owner = r] \in Instance
    BY DEF Absent, Instance
  <2>3. inst' \in [Names -> Instance]
    <3>1. CASE InitInstance(r, n)
      BY <2>2, <3>1 DEF InitInstance, DaemonTypeOK
    <3>2. CASE StartInstance(n)
      <4>1. [inst[n] EXCEPT !.up = TRUE] \in Instance
        BY DEF DaemonTypeOK, Instance
      <4>2. QED
        BY <3>2, <4>1 DEF StartInstance, DaemonTypeOK
    <3>3. CASE DeleteInstance(n)
      BY <2>1, <3>3 DEF DeleteInstance, DaemonTypeOK
    <3>4. QED
      BY <3>1, <3>2, <3>3
  <2>4. QED
    BY <2>3 DEF DaemonTypeOK, InitInstance, StartInstance, DeleteInstance
<1>2. net' = net /\ rules' = rules
  BY DEF InitInstance, StartInstance, DeleteInstance
<1>3. NoNewNic
  BY DEF DaemonTypeOK, Instance, Absent, InitInstance, StartInstance, DeleteInstance,
         NoNewNic
<1>4. QED
  BY <1>1, <1>2, <1>3 DEF Gentle, NetOnly, UsedStaySecured, Secured

\* A closed bridge has every part and every rule: no command adds to it.
LEMMA ConfigureGentle ==
  ASSUME DaemonTypeOK, NEW r \in Runs, NEW part \in NetPart, NEW needed,
         Configure(r, part, needed)
  PROVE  Gentle(r)
<1>1. DaemonTypeOK'
  BY DEF DaemonTypeOK, Configure
<1>2. ~Secured(r)
  BY DEF Configure, Secured
<1>3. NetOnly(r) /\ inst' = inst /\ rules' = rules
  BY DEF DaemonTypeOK, Configure, NetOnly
<1>4. UsedStaySecured
  BY <1>2, <1>3 DEF UsedStaySecured, NetOnly, Secured, DaemonTypeOK, Instance
<1>5. QED
  BY <1>1, <1>3, <1>4 DEF Gentle, NoNewNic

LEMMA AddRuleGentle ==
  ASSUME DaemonTypeOK, NEW r \in Runs, AddAclRule(r)
  PROVE  Gentle(r)
<1>1. DaemonTypeOK'
  BY DaemonAssumption DEF DaemonTypeOK, AddAclRule
<1>2. ~Secured(r)
  BY DaemonAssumption DEF AddAclRule, Secured, DaemonTypeOK
<1>3. NetOnly(r) /\ inst' = inst /\ net' = net
  BY DEF DaemonTypeOK, AddAclRule, NetOnly
<1>4. UsedStaySecured
  BY <1>2, <1>3 DEF UsedStaySecured, NetOnly, Secured, DaemonTypeOK, Instance
<1>5. QED
  BY <1>1, <1>3, <1>4 DEF Gentle, NoNewNic

\* A bridge in use is not deleted, nor the ACL of a closed bridge.
LEMMA NetDeletesGentle ==
  ASSUME DaemonTypeOK, NEW r \in Runs, DeleteNetwork(r) \/ DeleteAcl(r)
  PROVE  Gentle(r)
<1>1. DaemonTypeOK'
  BY DaemonAssumption DEF DaemonTypeOK, DeleteNetwork, DeleteAcl
<1>2. NetOnly(r) /\ inst' = inst
  BY DEF DaemonTypeOK, DeleteNetwork, DeleteAcl, NetOnly
<1>3. ~Secured(r) \/ \A n \in Names : inst[n].nic # r
  BY DEF DeleteNetwork, NetworkDeletable, DeleteAcl, AclDeletable, Secured, NetPart
<1>4. UsedStaySecured
  BY <1>2, <1>3 DEF UsedStaySecured, NetOnly, Secured, DaemonTypeOK, Instance
<1>5. QED
  BY <1>1, <1>2, <1>4 DEF Gentle, NoNewNic

\* Dropping a guard never opens a bridge that is in use.
LEMMA DropGuardGentle ==
  ASSUME DaemonTypeOK, GuardsTypeOK, NEW r \in Runs, NEW g \in Guard,
         DropGuard(r, g)
  PROVE  Gentle(r) /\ held' \in [Runs -> SUBSET Guard]
         /\ host' \in [Runs -> SUBSET HostPart] /\ broken' \subseteq Runs
<1>1. \/ DeleteInstance(name[r]) \/ DeleteNetwork(r) \/ DeleteAcl(r)
      \/ UNCHANGED daemon
  BY DEF DropGuard, DropInstance, DropBridge, DropAcl, DropProxy, DropCa, Undeleted
<1>2. name[r] \in Names
  BY DEF GuardsTypeOK
<1>3. Gentle(r)
  BY <1>1, <1>2, InstanceOpsGentle, NetDeletesGentle, QuietGentle
<1>4. held' \in [Runs -> SUBSET Guard]
  BY DEF DropGuard, GuardsTypeOK
<1>5. host' = host \/ host' = [host EXCEPT ![r] = @ \ {"proxy"}]
      \/ host' = [host EXCEPT ![r] = @ \ {"ca"}]
  BY DEF DropGuard, DropProxy, DropCa
<1>6. broken' = broken \/ broken' = broken \cup {r}
  BY DEF DropGuard, DropInstance, DropBridge, DropAcl, DropProxy, DropCa, Undeleted
<1>7. QED
  BY <1>3, <1>4, <1>5, <1>6 DEF GuardsTypeOK

-----------------------------------------------------------------------------
\* A step of run r leaves the setup of every other run alone.

LocalOnly(r) ==
  \A q \in Runs \ {r} : /\ pc'[q] = pc[q] /\ iso'[q] = iso[q]
                        /\ pending'[q] = pending[q] /\ failed'[q] = failed[q]

LEMMA NetInvStep ==
  ASSUME NetInv, NEW r \in Runs, Gentle(r), LocalOnly(r), TypeOK',
         BridgeBuilt(r)', StagesAgree(r)'
  PROVE  NetInv'
<1>1. ASSUME NEW q \in Runs, q # r
      PROVE  BridgeBuilt(q)' /\ StagesAgree(q)'
  <2>1. /\ pc'[q] = pc[q] /\ iso'[q] = iso[q] /\ pending'[q] = pending[q]
        /\ failed'[q] = failed[q] /\ net'[q] = net[q] /\ rules'[q] = rules[q]
    BY <1>1 DEF Gentle, NetOnly, LocalOnly
  <2>2. BridgeBuilt(q) /\ StagesAgree(q)
    BY DEF NetInv
  <2>3. BridgeBuilt(q)'
    BY <2>1, <2>2 DEF BridgeBuilt, BridgeReady, Secured
  <2>4. StagesAgree(q)'
    BY <2>1, <2>2 DEF StagesAgree
  <2>5. QED
    BY <2>3, <2>4
<1>2. NicIsConfined'
  BY GentleConfined DEF NetInv, TypeOK
<1>3. QED
  BY <1>1, <1>2 DEF NetInv

\* What is to be shown of a step of setup.
SetupKeeps(r) ==
  /\ Gentle(r)
  /\ GuardsTypeOK'
  /\ IsolationTypeOK'
  /\ LocalOnly(r)
  /\ BridgeBuilt(r)'
  /\ StagesAgree(r)'

SettingUp(r) ==
  NetInv /\ pc[r] = "setup" /\ UNCHANGED <<inputs, pc, devices, polls, order>>

\* A step of setup whose only effect is where setup is next.
LEMMA MoveKeeps ==
  ASSUME NEW r \in Runs, SettingUp(r), NEW to \in IsoState,
         iso' = [iso EXCEPT ![r] = to], NoEffect,
         pending[r] \cap {"rules", "dnsmasq"} = {} \/ to = "configure",
         BridgeBuilt(r)'
  PROVE  SetupKeeps(r)
<1>1. Gentle(r)
  BY QuietGentle DEF SettingUp, NetInv, TypeOK, NoEffect
<1>2. GuardsTypeOK' /\ IsolationTypeOK' /\ LocalOnly(r)
  BY DEF SettingUp, NetInv, TypeOK, GuardsTypeOK, IsolationTypeOK, NoEffect, guards,
         inputs, LocalOnly
<1>3. StagesAgree(r)'
  BY DEF SettingUp, NetInv, TypeOK, IsolationTypeOK, StagesAgree, NoEffect
<1>4. QED
  BY <1>1, <1>2, <1>3 DEF SetupKeeps

\* A step of setup that fails, with nothing of a join! left to finish.
LEMMA FailKeeps ==
  ASSUME NEW r \in Runs, SettingUp(r), NEW from, NEW to \in {"failBridge", "failSetup", "err"},
         IsoGoto(r, from, to), NoEffect,
         pending[r] \cap {"rules", "dnsmasq"} = {}
  PROVE  SetupKeeps(r)
<1>1. iso' = [iso EXCEPT ![r] = to] /\ to \in IsoState /\ iso'[r] = to
  BY DEF IsoGoto, IsoState, SettingUp, NetInv, TypeOK, IsolationTypeOK
<1>2. BridgeBuilt(r)'
  BY <1>1 DEF BridgeBuilt, BridgeReady, SettingUp
<1>3. QED
  BY <1>1, <1>2, MoveKeeps

LEMMA Idle ==
  ASSUME NEW r \in Runs, NetInv, iso[r] # "configure"
  PROVE  pending[r] \cap {"rules", "dnsmasq"} = {}
  BY DEF NetInv, StagesAgree

LEMMA CreateBridgeKeeps ==
  ASSUME NEW r \in Runs, SettingUp(r), CreateBridge(r)
  PROVE  SetupKeeps(r)
<1>1. CASE IsoGoto(r, "network", "err") /\ NoEffect
  <2>1. pending[r] \cap {"rules", "dnsmasq"} = {}
    BY <1>1, Idle DEF IsoGoto, SettingUp
  <2>2. QED
    BY <1>1, <2>1, FailKeeps
<1>2. CASE /\ IsoGoto(r, "network", "subnet")
           /\ CreateNetwork(r)
           /\ Acquire(r, "bridge")
           /\ UNCHANGED <<host, broken, pending, failed>>
  <2>1. Gentle(r)
    BY <1>2, ConfigureGentle DEF CreateNetwork, NetPart, SettingUp, NetInv, TypeOK
  <2>2. GuardsTypeOK' /\ IsolationTypeOK' /\ LocalOnly(r)
    BY <1>2 DEF SettingUp, NetInv, TypeOK, GuardsTypeOK, IsolationTypeOK, inputs,
                LocalOnly, Acquire, Guard, IsoGoto, IsoState
  <2>3. iso'[r] = "subnet" /\ "bridge" \in net'[r]
    BY <1>2 DEF IsoGoto, CreateNetwork, Configure, SettingUp, NetInv, TypeOK,
                DaemonTypeOK, IsolationTypeOK
  <2>4. pending'[r] \cap {"rules", "dnsmasq"} = {}
    BY <1>2, Idle DEF IsoGoto, SettingUp
  <2>5. BridgeBuilt(r)' /\ StagesAgree(r)'
    BY <2>3, <2>4 DEF BridgeBuilt, BridgeReady, StagesAgree, SettingUp
  <2>6. QED
    BY <2>1, <2>2, <2>5 DEF SetupKeeps
<1>3. QED
  BY <1>1, <1>2 DEF CreateBridge

LEMMA GetSubnetKeeps ==
  ASSUME NEW r \in Runs, SettingUp(r), GetSubnet(r)
  PROVE  SetupKeeps(r)
<1>1. pending[r] \cap {"rules", "dnsmasq"} = {}
  BY Idle DEF IsoGoto, SettingUp, GetSubnet
<1>2. CASE IsoGoto(r, "subnet", "createAcl")
  <2>1. iso'[r] = "createAcl" /\ net' = net
    BY <1>2 DEF GetSubnet, NoEffect, daemon, IsoGoto, SettingUp, NetInv, TypeOK,
                IsolationTypeOK
  <2>2. BridgeBuilt(r)'
    BY <1>2, <2>1 DEF BridgeBuilt, BridgeReady, SettingUp, NetInv, IsoGoto
  <2>3. QED
    BY <1>1, <1>2, <2>2, MoveKeeps DEF GetSubnet, IsoGoto, IsoState
<1>3. CASE IsoGoto(r, "subnet", "failBridge")
  BY <1>1, <1>3, FailKeeps DEF GetSubnet
<1>4. QED
  BY <1>2, <1>3 DEF GetSubnet

LEMMA CreateAclKeeps ==
  ASSUME NEW r \in Runs, SettingUp(r), CreateAcl(r)
  PROVE  SetupKeeps(r)
<1>1. CASE IsoGoto(r, "createAcl", "failBridge") /\ NoEffect
  <2>1. pending[r] \cap {"rules", "dnsmasq"} = {}
    BY <1>1, Idle DEF IsoGoto, SettingUp
  <2>2. QED
    BY <1>1, <2>1, FailKeeps
<1>2. CASE /\ IsoGoto(r, "createAcl", "configure")
           /\ CreateNetworkAcl(r)
           /\ Acquire(r, "acl")
           /\ pending' = [pending EXCEPT ![r] = @ \cup {"rules", "dnsmasq"}]
           /\ UNCHANGED <<host, broken, failed>>
  <2>1. Gentle(r)
    BY <1>2, ConfigureGentle DEF CreateNetworkAcl, NetPart, SettingUp, NetInv, TypeOK
  <2>2. GuardsTypeOK' /\ IsolationTypeOK' /\ LocalOnly(r)
    BY <1>2 DEF SettingUp, NetInv, TypeOK, GuardsTypeOK, IsolationTypeOK, inputs,
                LocalOnly, Acquire, Guard, IsoGoto, IsoState, Branch
  <2>3. /\ iso'[r] = "configure" /\ {"bridge", "acl"} \subseteq net'[r]
        /\ {"rules", "dnsmasq"} \subseteq pending'[r]
    BY <1>2 DEF IsoGoto, CreateNetworkAcl, Configure, SettingUp, NetInv, TypeOK,
                DaemonTypeOK, IsolationTypeOK, BridgeBuilt
  <2>4. BridgeBuilt(r)' /\ StagesAgree(r)'
    BY <2>3 DEF BridgeBuilt, BridgeReady, StagesAgree, SettingUp, PC
  <2>5. QED
    BY <2>1, <2>2, <2>4 DEF SetupKeeps
<1>3. QED
  BY <1>1, <1>2 DEF CreateAcl

LEMMA FailBranchKeeps ==
  ASSUME NEW r \in Runs, SettingUp(r), NEW b \in Branch, FailBranch(r, b)
  PROVE  SetupKeeps(r)
<1>1. Gentle(r)
  BY QuietGentle DEF SettingUp, NetInv, TypeOK, FailBranch
<1>2. GuardsTypeOK' /\ IsolationTypeOK' /\ LocalOnly(r)
  BY DEF SettingUp, NetInv, TypeOK, GuardsTypeOK, IsolationTypeOK, inputs, guards,
         LocalOnly, FailBranch, Finish
<1>3. /\ pending'[r] = pending[r] \ {b} /\ failed'[r] = failed[r] \cup {b}
      /\ iso' = iso /\ net' = net /\ rules' = rules /\ pc' = pc
  BY DEF FailBranch, Finish, daemon, SettingUp, NetInv, TypeOK, IsolationTypeOK
<1>4. BridgeBuilt(r)' /\ StagesAgree(r)'
  BY <1>3 DEF SettingUp, NetInv, BridgeBuilt, BridgeReady, StagesAgree, Secured
<1>5. QED
  BY <1>1, <1>2, <1>4 DEF SetupKeeps

LEMMA AddRuleKeeps ==
  ASSUME NEW r \in Runs, SettingUp(r), AddRule(r)
  PROVE  SetupKeeps(r)
<1>1. CASE FailBranch(r, "rules")
  BY <1>1, FailBranchKeeps DEF Branch
<1>2. CASE /\ "rules" \in pending[r]
           /\ AddAclRule(r)
           /\ IF rules'[r] = NRules THEN Finish(r, "rules") ELSE UNCHANGED pending
           /\ UNCHANGED <<guards, iso, failed>>
  <2>1. Gentle(r)
    BY <1>2, AddRuleGentle DEF SettingUp, NetInv, TypeOK
  <2>2. GuardsTypeOK' /\ IsolationTypeOK' /\ LocalOnly(r)
    BY <1>2 DEF SettingUp, NetInv, TypeOK, GuardsTypeOK, IsolationTypeOK, inputs, guards,
                LocalOnly, Finish
  <2>3. iso[r] = "configure"
    BY <1>2 DEF SettingUp, NetInv, StagesAgree
  <2>4. /\ iso' = iso /\ net' = net /\ pc' = pc /\ failed' = failed
        /\ "dnsmasq" \in pending'[r] <=> "dnsmasq" \in pending[r]
        /\ "rules" \in pending'[r] \/ rules'[r] = NRules
    BY <1>2 DEF SettingUp, AddAclRule, guards, Finish, NetInv, TypeOK, IsolationTypeOK
  <2>5. BridgeBuilt(r)' /\ StagesAgree(r)'
    BY <2>3, <2>4 DEF SettingUp, NetInv, BridgeBuilt, BridgeReady, StagesAgree
  <2>6. QED
    BY <2>1, <2>2, <2>5 DEF SetupKeeps
<1>3. QED
  BY <1>1, <1>2 DEF AddRule

LEMMA SetDnsmasqKeeps ==
  ASSUME NEW r \in Runs, SettingUp(r), SetDnsmasq(r)
  PROVE  SetupKeeps(r)
<1>1. CASE FailBranch(r, "dnsmasq")
  BY <1>1, FailBranchKeeps DEF Branch
<1>2. CASE /\ "dnsmasq" \in pending[r]
           /\ SetNetworkDnsmasq(r)
           /\ Finish(r, "dnsmasq")
           /\ UNCHANGED <<guards, iso, failed>>
  <2>1. Gentle(r)
    BY <1>2, ConfigureGentle DEF SetNetworkDnsmasq, NetPart, SettingUp, NetInv, TypeOK
  <2>2. GuardsTypeOK' /\ IsolationTypeOK' /\ LocalOnly(r)
    BY <1>2 DEF SettingUp, NetInv, TypeOK, GuardsTypeOK, IsolationTypeOK, inputs, guards,
                LocalOnly, Finish
  <2>3. iso[r] = "configure"
    BY <1>2 DEF SettingUp, NetInv, StagesAgree
  <2>4. /\ iso' = iso /\ net'[r] = net[r] \cup {"dnsmasq"} /\ pc' = pc
        /\ failed' = failed /\ rules' = rules /\ pending'[r] = pending[r] \ {"dnsmasq"}
    BY <1>2 DEF SettingUp, SetNetworkDnsmasq, Configure, guards, Finish, NetInv, TypeOK,
                IsolationTypeOK, DaemonTypeOK
  <2>5. BridgeBuilt(r)' /\ StagesAgree(r)'
    BY <2>3, <2>4 DEF SettingUp, NetInv, BridgeBuilt, BridgeReady, StagesAgree
  <2>6. QED
    BY <2>1, <2>2, <2>5 DEF SetupKeeps
<1>3. QED
  BY <1>1, <1>2 DEF SetDnsmasq

\* Only if both branches of the join! succeeded does create_bridge go on.
LEMMA BridgeConfiguredKeeps ==
  ASSUME NEW r \in Runs, SettingUp(r), BridgeConfigured(r)
  PROVE  SetupKeeps(r)
<1>1. pending[r] \cap {"rules", "dnsmasq"} = {}
  BY DEF BridgeConfigured
<1>2. CASE failed[r] \cap {"rules", "dnsmasq"} = {}
  <2>1. IsoGoto(r, "configure", "reject") /\ NoEffect
    BY <1>2 DEF BridgeConfigured
  <2>2. {"bridge", "acl", "dnsmasq"} \subseteq net[r] /\ rules[r] = NRules
    BY <1>1, <1>2, <2>1 DEF SettingUp, NetInv, BridgeBuilt, IsoGoto
  <2>3. iso'[r] = "reject" /\ net' = net /\ rules' = rules
    BY <2>1 DEF IsoGoto, NoEffect, daemon, SettingUp, NetInv, TypeOK, IsolationTypeOK
  <2>4. BridgeBuilt(r)'
    BY <2>2, <2>3 DEF BridgeBuilt, BridgeReady
  <2>5. QED
    BY <1>1, <2>1, <2>4, MoveKeeps DEF IsoGoto, IsoState
<1>3. CASE failed[r] \cap {"rules", "dnsmasq"} # {}
  BY <1>1, <1>3, FailKeeps DEF BridgeConfigured
<1>4. QED
  BY <1>2, <1>3

LEMMA SetDefaultRejectKeeps ==
  ASSUME NEW r \in Runs, SettingUp(r), SetDefaultReject(r)
  PROVE  SetupKeeps(r)
<1>1. iso[r] = "reject" /\ pending[r] \cap {"rules", "dnsmasq"} = {}
  BY Idle DEF SetDefaultReject, IsoGoto, SettingUp
<1>2. CASE IsoGoto(r, "reject", "failBridge") /\ NoEffect
  BY <1>1, <1>2, FailKeeps
<1>3. CASE /\ IsoGoto(r, "reject", "apply")
           /\ SetEgressReject(r)
           /\ UNCHANGED <<guards, pending, failed>>
  <2>1. Gentle(r)
    BY <1>3, ConfigureGentle DEF SetEgressReject, NetPart, SettingUp, NetInv, TypeOK
  <2>2. GuardsTypeOK' /\ IsolationTypeOK' /\ LocalOnly(r)
    BY <1>3 DEF SettingUp, NetInv, TypeOK, GuardsTypeOK, IsolationTypeOK, inputs, guards,
                LocalOnly, IsoGoto, IsoState
  <2>3. /\ iso'[r] = "apply" /\ net'[r] = net[r] \cup {"reject"} /\ rules' = rules
        /\ pc' = pc /\ pending' = pending
    BY <1>3 DEF IsoGoto, SetEgressReject, Configure, SettingUp, NetInv, TypeOK,
                DaemonTypeOK, IsolationTypeOK
  <2>4. BridgeBuilt(r)' /\ StagesAgree(r)'
    BY <1>1, <2>3 DEF BridgeBuilt, BridgeReady, StagesAgree, SettingUp, NetInv, NetPart
  <2>5. QED
    BY <2>1, <2>2, <2>4 DEF SetupKeeps
<1>4. QED
  BY <1>2, <1>3 DEF SetDefaultReject

\* Applying the ACL is what closes the bridge.
LEMMA AttachAclKeeps ==
  ASSUME NEW r \in Runs, SettingUp(r), AttachAcl(r)
  PROVE  SetupKeeps(r)
<1>1. iso[r] = "apply" /\ pending[r] \cap {"rules", "dnsmasq"} = {}
  BY Idle DEF AttachAcl, IsoGoto, SettingUp
<1>2. CASE IsoGoto(r, "apply", "failBridge") /\ NoEffect
  BY <1>1, <1>2, FailKeeps
<1>3. CASE /\ IsoGoto(r, "apply", "secrets")
           /\ ApplyAcl(r)
           /\ UNCHANGED <<guards, pending, failed>>
  <2>1. Gentle(r)
    BY <1>3, ConfigureGentle DEF ApplyAcl, NetPart, SettingUp, NetInv, TypeOK
  <2>2. GuardsTypeOK' /\ IsolationTypeOK' /\ LocalOnly(r)
    BY <1>3 DEF SettingUp, NetInv, TypeOK, GuardsTypeOK, IsolationTypeOK, inputs, guards,
                LocalOnly, IsoGoto, IsoState
  <2>3. /\ iso'[r] = "secrets" /\ net'[r] = net[r] \cup {"applied"} /\ rules' = rules
        /\ pc' = pc /\ pending' = pending
    BY <1>3 DEF IsoGoto, ApplyAcl, Configure, SettingUp, NetInv, TypeOK,
                DaemonTypeOK, IsolationTypeOK
  <2>4. net'[r] = NetPart /\ rules'[r] = NRules
    BY <1>1, <2>3 DEF BridgeBuilt, SettingUp, NetInv, TypeOK, DaemonTypeOK, NetPart
  <2>5. BridgeBuilt(r)' /\ StagesAgree(r)'
    BY <1>1, <2>3, <2>4 DEF BridgeBuilt, BridgeReady, StagesAgree, SettingUp, Secured
  <2>6. QED
    BY <2>1, <2>2, <2>5 DEF SetupKeeps
<1>4. QED
  BY <1>2, <1>3 DEF AttachAcl

\* The steps between the closed bridge and setup's result.
LEMMA AfterBridgeKeeps ==
  ASSUME NEW r \in Runs, SettingUp(r),
         NEW from \in {"secrets", "caDir", "caCert", "spawn", "probe"},
         NEW to \in {"caDir", "caCert", "spawn", "probe", "ok"},
         IsoGoto(r, from, to), UNCHANGED <<daemon, broken, pending, failed>>,
         held' \in [Runs -> SUBSET Guard], host' \in [Runs -> SUBSET HostPart]
  PROVE  SetupKeeps(r)
<1>1. Gentle(r)
  BY QuietGentle DEF SettingUp, NetInv, TypeOK
<1>2. GuardsTypeOK' /\ IsolationTypeOK' /\ LocalOnly(r)
  BY DEF SettingUp, NetInv, TypeOK, GuardsTypeOK, IsolationTypeOK, inputs, LocalOnly,
         IsoGoto, IsoState
<1>3. Secured(r)
  BY DEF SettingUp, NetInv, BridgeBuilt, BridgeReady, IsoGoto
<1>4. iso'[r] = to /\ net' = net /\ rules' = rules
  BY DEF IsoGoto, daemon, SettingUp, NetInv, TypeOK, IsolationTypeOK
<1>5. pending'[r] \cap {"rules", "dnsmasq"} = {}
  BY Idle DEF IsoGoto, SettingUp
<1>6. BridgeBuilt(r)'
  BY <1>3, <1>4 DEF BridgeBuilt, Secured
<1>7. StagesAgree(r)'
  BY <1>4, <1>5 DEF SettingUp, StagesAgree
<1>8. QED
  BY <1>1, <1>2, <1>6, <1>7 DEF SetupKeeps

LEMMA HostStepsKeep ==
  ASSUME NEW r \in Runs, SettingUp(r),
         ResolveSecrets(r) \/ CreateCaDir(r) \/ GenerateCa(r) \/ SpawnProxies(r)
           \/ WaitUntilReady(r)
  PROVE  SetupKeeps(r)
<1>1. /\ held \in [Runs -> SUBSET Guard] /\ host \in [Runs -> SUBSET HostPart]
  BY DEF SettingUp, NetInv, TypeOK, GuardsTypeOK
<1>2. iso[r] # "configure"
  BY DEF ResolveSecrets, CreateCaDir, GenerateCa, SpawnProxies, WaitUntilReady, IsoGoto
<1>3. pending[r] \cap {"rules", "dnsmasq"} = {}
  BY <1>2, Idle DEF SettingUp
<1>4. CASE iso'[r] = "failSetup"
  <2>1. \E from : IsoGoto(r, from, "failSetup") /\ NoEffect
    BY <1>4 DEF ResolveSecrets, CreateCaDir, GenerateCa, SpawnProxies, WaitUntilReady,
                IsoGoto, SettingUp, NetInv, TypeOK, IsolationTypeOK
  <2>2. QED
    BY <2>1, <1>3, FailKeeps
<1>5. CASE iso'[r] # "failSetup"
  <2>1. \E from \in {"secrets", "caDir", "caCert", "spawn", "probe"},
           to \in {"caDir", "caCert", "spawn", "probe", "ok"} :
             IsoGoto(r, from, to) /\ UNCHANGED <<daemon, broken, pending, failed>>
    BY <1>5 DEF ResolveSecrets, CreateCaDir, GenerateCa, SpawnProxies, WaitUntilReady,
                IsoGoto, NoEffect, guards, SettingUp, NetInv, TypeOK, IsolationTypeOK
  <2>2. held' \in [Runs -> SUBSET Guard] /\ host' \in [Runs -> SUBSET HostPart]
    BY <1>1 DEF ResolveSecrets, CreateCaDir, GenerateCa, SpawnProxies, WaitUntilReady,
                NoEffect, guards, Acquire, Guard, HostPart
  <2>3. QED
    BY <2>1, <2>2, AfterBridgeKeeps
<1>6. QED
  BY <1>4, <1>5

\* A failed setup needs nothing of its bridge any more.
LEMMA UnwindIsolationKeeps ==
  ASSUME NEW r \in Runs, SettingUp(r), UnwindIsolation(r)
  PROVE  SetupKeeps(r)
<1>1. pending[r] \cap {"rules", "dnsmasq"} = {}
  BY Idle DEF UnwindIsolation, SettingUp
<1>2. CASE iso' = [iso EXCEPT ![r] = "err"] /\ NoEffect
  <2>1. IsoGoto(r, iso[r], "err")
    BY <1>2 DEF IsoGoto
  <2>2. QED
    BY <1>1, <1>2, <2>1, FailKeeps
<1>3. CASE /\ \E g \in Guard : Falls(r, FailOrder(r), g) /\ DropGuard(r, g)
           /\ UNCHANGED isolation
  <2>1. PICK g \in Guard : DropGuard(r, g)
    BY <1>3
  <2>2. /\ Gentle(r) /\ held' \in [Runs -> SUBSET Guard]
        /\ host' \in [Runs -> SUBSET HostPart] /\ broken' \subseteq Runs
    BY <2>1, DropGuardGentle DEF SettingUp, NetInv, TypeOK
  <2>3. GuardsTypeOK' /\ IsolationTypeOK' /\ LocalOnly(r)
    BY <1>3, <2>2 DEF SettingUp, NetInv, TypeOK, GuardsTypeOK, IsolationTypeOK, inputs,
                isolation, LocalOnly
  <2>4. iso'[r] \in {"failBridge", "failSetup"} /\ pending' = pending /\ pc'[r] = "setup"
    BY <1>3 DEF UnwindIsolation, isolation, SettingUp
  <2>5. BridgeBuilt(r)' /\ StagesAgree(r)'
    BY <1>1, <2>4 DEF BridgeBuilt, BridgeReady, StagesAgree, SettingUp
  <2>6. QED
    BY <2>2, <2>3, <2>5 DEF SetupKeeps
<1>4. QED
  BY <1>2, <1>3 DEF UnwindIsolation

LEMMA SetupKept ==
  ASSUME NetInv, NEW r \in Runs, SetupIsolation(r)
  PROVE  SetupKeeps(r)
<1>1. SettingUp(r)
  BY DEF SetupIsolation, SettingUp
<1>2. QED
  BY <1>1, CreateBridgeKeeps, GetSubnetKeeps, CreateAclKeeps, AddRuleKeeps,
     SetDnsmasqKeeps, BridgeConfiguredKeeps, SetDefaultRejectKeeps, AttachAclKeeps,
     HostStepsKeep, UnwindIsolationKeeps DEF SetupIsolation, IsolationStep

LEMMA SetupStep ==
  ASSUME NetInv, NEW r \in Runs, SetupIsolation(r)
  PROVE  NetInv'
<1>1. SetupKeeps(r)
  BY SetupKept
<1>2. TypeOK'
  BY <1>1 DEF SetupIsolation, SetupKeeps, Gentle, NetInv, TypeOK
<1>3. QED
  BY <1>1, <1>2, NetInvStep DEF SetupKeeps

-----------------------------------------------------------------------------
\* The steps of a run outside setup.

\* A step that leaves the network of its run alone, and after which the run
\* relies on nothing setup has not already built.
LEMMA CalmStep ==
  ASSUME NetInv, NEW r \in Runs, Gentle(r), LocalOnly(r), TypeOK', StagesAgree(r)',
         net'[r] = net[r], rules'[r] = rules[r], iso' = iso,
         pending[r] \cap {"rules", "dnsmasq"} = pending'[r] \cap {"rules", "dnsmasq"},
         failed[r] \cap {"rules", "dnsmasq"} = failed'[r] \cap {"rules", "dnsmasq"},
         pc'[r] \in {"setup", "attach"} => pc[r] \in {"setup", "attach"}
  PROVE  NetInv'
<1>1. BridgeBuilt(r)'
  BY DEF NetInv, BridgeBuilt, BridgeReady, Secured
<1>2. QED
  BY <1>1, NetInvStep

LEMMA CreateStep ==
  ASSUME NetInv, NEW r \in Runs, Create(r)
  PROVE  NetInv'
<1>1. TypeOK /\ name[r] \in Names /\ pc[r] = "create" /\ iso[r] = "off"
      /\ pending[r] \cap {"rules", "dnsmasq"} = {}
  BY Idle DEF NetInv, TypeOK, GuardsTypeOK, Create, Goto, StagesAgree
<1>2. Gentle(r)
  BY <1>1, InstanceOpsGentle, QuietGentle DEF Create, TypeOK
<1>3. GuardsTypeOK' /\ IsolationTypeOK' /\ LocalOnly(r)
  BY <1>1 DEF Create, Goto, Acquire, TypeOK, GuardsTypeOK, IsolationTypeOK, inputs,
              guards, isolation, LocalOnly, Guard, IsoState, Branch
<1>4. TypeOK'
  BY <1>1, <1>2, <1>3 DEF TypeOK, Gentle, Create, Goto, PC
<1>5. \/ pc'[r] = "setup" /\ iso'[r] = "network" /\ pending'[r] = {"devices"}
      \/ pc'[r] = "exited" /\ iso'[r] = "off" /\ pending'[r] = pending[r]
  BY <1>1 DEF Create, Goto, TypeOK, IsolationTypeOK, isolation
<1>6. BridgeBuilt(r)' /\ StagesAgree(r)'
  BY <1>1, <1>5 DEF BridgeBuilt, BridgeReady, StagesAgree, PC
<1>7. QED
  BY <1>2, <1>3, <1>4, <1>6, NetInvStep

LEMMA AddDeviceStep ==
  ASSUME NetInv, NEW r \in Runs, AddDevice(r)
  PROVE  NetInv'
<1>1. TypeOK /\ pc[r] = "setup" /\ devices[r] \in 0 .. NDevices /\ NDevices \in Nat
  BY LifecycleAssumption DEF NetInv, TypeOK, AddDevice
<1>2. UNCHANGED daemon /\ UNCHANGED guards /\ iso' = iso /\ pc' = pc
  BY DEF AddDevice, FailBranch, isolation
<1>3. Gentle(r)
  BY <1>1, <1>2, QuietGentle DEF TypeOK
<1>4. devices' \in [Runs -> 0 .. NDevices]
  BY <1>1 DEF AddDevice, TypeOK
<1>5. /\ pending' = pending \/ pending' = [pending EXCEPT ![r] = @ \ {"devices"}]
      /\ failed' = failed \/ failed' = [failed EXCEPT ![r] = @ \cup {"devices"}]
  BY DEF AddDevice, FailBranch, Finish, isolation
<1>6. IsolationTypeOK' /\ GuardsTypeOK' /\ LocalOnly(r)
  BY <1>1, <1>2, <1>5 DEF TypeOK, IsolationTypeOK, GuardsTypeOK, guards, inputs, Branch,
                          LocalOnly, AddDevice
<1>7. TypeOK'
  BY <1>1, <1>2, <1>3, <1>4, <1>6 DEF TypeOK, Gentle, AddDevice
<1>8. /\ pending[r] \cap {"rules", "dnsmasq"} = pending'[r] \cap {"rules", "dnsmasq"}
      /\ failed[r] \cap {"rules", "dnsmasq"} = failed'[r] \cap {"rules", "dnsmasq"}
  BY <1>1, <1>5 DEF TypeOK, IsolationTypeOK
<1>9. StagesAgree(r)'
  BY <1>2, <1>8 DEF NetInv, StagesAgree
<1>10. QED
  BY <1>1, <1>2, <1>3, <1>6, <1>7, <1>8, <1>9, CalmStep DEF daemon

\* A step that changes pc, and the daemon at most by a gentle command.
LEMMA PcStep ==
  ASSUME NetInv, NEW r \in Runs, Gentle(r), net' = net, rules' = rules,
         UNCHANGED <<inputs, isolation>>, GuardsTypeOK',
         NEW to \in PC, pc' = [pc EXCEPT ![r] = to],
         devices' \in [Runs -> 0 .. NDevices], polls' \in [Runs -> 0 .. MaxAttempts],
         order' \in [Runs -> {StateOrder, InitLocalsOrder}],
         to \in {"setup", "attach"} => pc[r] \in {"setup", "attach"},
         StagesAgree(r)'
  PROVE  NetInv'
<1>1. TypeOK'
  BY DEF NetInv, TypeOK, Gentle, IsolationTypeOK, isolation
<1>2. LocalOnly(r) /\ pc'[r] = to
  BY DEF LocalOnly, isolation, NetInv, TypeOK
<1>3. QED
  BY <1>1, <1>2, CalmStep DEF isolation

LEMMA JoinedStep ==
  ASSUME NetInv, NEW r \in Runs, Joined(r)
  PROVE  NetInv'
<1>1. TypeOK /\ UNCHANGED daemon /\ pc[r] = "setup" /\ iso[r] \in {"ok", "err"}
  BY DEF NetInv, Joined, Goto, Unwind
<1>2. Gentle(r)
  BY <1>1, QuietGentle DEF TypeOK
<1>3. PICK to \in {"attach", "unwind"} :
         pc' = [pc EXCEPT ![r] = to] /\ (to = "attach" => iso[r] = "ok")
  BY DEF Joined, Goto, Unwind
<1>4. order' \in [Runs -> {StateOrder, InitLocalsOrder}]
  BY <1>1 DEF Joined, Unwind, TypeOK
<1>5. StagesAgree(r)'
  BY <1>1, <1>3 DEF NetInv, StagesAgree, PC, Joined, isolation, TypeOK
<1>6. GuardsTypeOK'
  BY <1>1 DEF TypeOK, GuardsTypeOK, Joined, guards, inputs
<1>7. to \in PC /\ net' = net /\ rules' = rules /\ devices' = devices /\ polls' = polls
  BY <1>1, <1>3 DEF PC, daemon, Joined
<1>8. QED
  BY <1>1, <1>2, <1>3, <1>4, <1>5, <1>6, <1>7, PcStep DEF Joined, TypeOK

\* The instance gets its NIC on a bridge setup has closed.
LEMMA AttachStep ==
  ASSUME NetInv, NEW r \in Runs, Attach(r)
  PROVE  NetInv'
<1>1. TypeOK /\ pc[r] = "attach" /\ iso[r] = "ok" /\ name[r] \in Names
  BY DEF NetInv, Attach, Goto, Unwind, StagesAgree, PC, TypeOK, GuardsTypeOK
<1>2. Secured(r)
  BY <1>1 DEF NetInv, BridgeBuilt, BridgeReady
<1>3. GuardsTypeOK' /\ devices' = devices /\ polls' = polls /\ net' = net /\ rules' = rules
  BY <1>1 DEF TypeOK, GuardsTypeOK, Attach, guards, inputs, AddNic, daemon
<1>4. order' \in [Runs -> {StateOrder, InitLocalsOrder}]
  BY <1>1 DEF Attach, Unwind, TypeOK
<1>5. CASE Unwind(r, "attach", InitLocalsOrder) /\ UNCHANGED daemon
  <2>1. Gentle(r)
    BY <1>1, <1>5, QuietGentle DEF TypeOK
  <2>2. StagesAgree(r)'
    BY <1>1, <1>5 DEF NetInv, StagesAgree, Unwind, Goto, PC, Attach, isolation, TypeOK
  <2>3. QED
    BY <1>1, <1>3, <1>4, <1>5, <2>1, <2>2, PcStep DEF Unwind, Goto, PC, Attach, TypeOK
<1>6. CASE Goto(r, "attach", "start") /\ AddNic(name[r], r)
  <2>1. [inst[name[r]] EXCEPT !.nic = r] \in Instance
    BY <1>1 DEF TypeOK, DaemonTypeOK, Instance
  <2>2. DaemonTypeOK'
    BY <1>1, <1>3, <1>6, <2>1 DEF AddNic, TypeOK, DaemonTypeOK
  <2>3. TypeOK'
    BY <1>1, <1>3, <1>4, <1>6, <2>2 DEF Goto, PC, TypeOK, Attach, IsolationTypeOK, isolation
  <2>4. \A n \in Names : inst'[n].nic \in {inst[n].nic, r}
    BY <1>1, <1>6 DEF AddNic, TypeOK, DaemonTypeOK, Instance
  <2>5. NicIsConfined'
    BY <1>2, <1>3, <2>4 DEF NicIsConfined, Secured, NetInv
  <2>6. ASSUME NEW q \in Runs
        PROVE  BridgeBuilt(q)' /\ StagesAgree(q)'
    <3>1. /\ iso' = iso /\ pending' = pending /\ failed' = failed
          /\ pc'[q] = IF q = r THEN "start" ELSE pc[q]
      BY <1>1, <1>6 DEF Attach, isolation, Goto, TypeOK
    <3>2. BridgeBuilt(q)'
      BY <1>1, <1>3, <3>1 DEF NetInv, BridgeBuilt, BridgeReady, Secured
    <3>3. StagesAgree(q)'
      BY <1>1, <3>1 DEF NetInv, StagesAgree, PC
    <3>4. QED
      BY <3>2, <3>3
  <2>7. QED
    BY <2>3, <2>5, <2>6 DEF NetInv
<1>7. QED
  BY <1>5, <1>6 DEF Attach

\* Starting, polling and provisioning: the daemon starts the instance at most.
LEMMA LaunchStep ==
  ASSUME NetInv, NEW r \in Runs, Start(r) \/ Poll(r) \/ Provision(r) \/ Leave(r)
  PROVE  NetInv'
<1>1. TypeOK /\ name[r] \in Names /\ polls[r] \in 0 .. MaxAttempts /\ MaxAttempts \in Nat
      /\ pc \in [Runs -> PC]
  BY LifecycleAssumption DEF NetInv, TypeOK, GuardsTypeOK
<1>2. UNCHANGED <<inputs, guards, isolation>> /\ devices' = devices
  BY DEF Start, Poll, Provision, Leave
<1>3. UNCHANGED daemon \/ StartInstance(name[r])
  BY DEF Start, Poll, Provision, Leave
<1>4. Gentle(r) /\ net' = net /\ rules' = rules
  BY <1>1, <1>3, InstanceOpsGentle, QuietGentle DEF TypeOK, StartInstance, daemon
<1>5. polls' \in [Runs -> 0 .. MaxAttempts]
  BY <1>1 DEF Start, Poll, Provision, Leave, TypeOK
<1>6. order' \in [Runs -> {StateOrder, InitLocalsOrder}]
  BY <1>1 DEF Start, Poll, Provision, Leave, Unwind, TypeOK
<1>7. pc[r] \in PC \ {"create", "setup", "attach", "unwind", "exited", "killed"}
  BY DEF Start, Poll, Provision, Leave, Unwind, Goto, PC
<1>8. PICK to \in PC \ {"create", "setup", "attach", "exited", "killed"} :
         pc' = [pc EXCEPT ![r] = to]
  <2>1. pc' = pc => pc' = [pc EXCEPT ![r] = pc[r]]
    BY <1>1
  <2>2. QED
    BY <1>7, <2>1 DEF Start, Poll, Provision, Leave, Unwind, Goto, PC
<1>9. iso[r] = "ok" /\ pending[r] \cap {"rules", "dnsmasq"} = {}
  BY <1>7, Idle DEF NetInv, StagesAgree
<1>10. StagesAgree(r)'
  BY <1>1, <1>2, <1>8, <1>9 DEF StagesAgree, isolation
<1>11. GuardsTypeOK'
  BY <1>1, <1>2 DEF TypeOK, GuardsTypeOK, guards, inputs
<1>12. QED
  BY <1>1, <1>2, <1>4, <1>5, <1>6, <1>8, <1>10, <1>11, PcStep DEF TypeOK

\* Once a run unwinds it relies on its network no more.
LEMMA TeardownStep ==
  ASSUME NetInv, NEW r \in Runs, Teardown(r)
  PROVE  NetInv'
<1>1. TypeOK /\ pc[r] = "unwind" /\ iso[r] \in {"off", "ok", "err"}
      /\ pending[r] \cap {"rules", "dnsmasq"} = {}
  BY Idle DEF NetInv, Teardown, Goto, StagesAgree
<1>2. UNCHANGED <<inputs, isolation, devices, polls, order>>
  BY DEF Teardown
<1>3. CASE \E g \in Guard : DropGuard(r, g) /\ pc' = pc
  <2>1. PICK g \in Guard : DropGuard(r, g)
    BY <1>3
  <2>2. /\ Gentle(r) /\ held' \in [Runs -> SUBSET Guard]
        /\ host' \in [Runs -> SUBSET HostPart] /\ broken' \subseteq Runs
    BY <1>1, <2>1, DropGuardGentle DEF TypeOK
  <2>3. TypeOK'
    BY <1>1, <1>2, <1>3, <2>2 DEF TypeOK, GuardsTypeOK, IsolationTypeOK, Gentle, inputs,
                                  isolation
  <2>4. BridgeBuilt(r)' /\ StagesAgree(r)' /\ LocalOnly(r)
    BY <1>1, <1>2, <1>3 DEF BridgeBuilt, BridgeReady, StagesAgree, LocalOnly, isolation, PC
  <2>5. QED
    BY <2>2, <2>3, <2>4, NetInvStep
<1>4. CASE Goto(r, "unwind", "exited") /\ UNCHANGED <<daemon, guards>>
  <2>1. Gentle(r)
    BY <1>1, <1>4, QuietGentle DEF TypeOK
  <2>2. StagesAgree(r)' /\ GuardsTypeOK'
    BY <1>1, <1>2, <1>4 DEF StagesAgree, Goto, isolation, PC, TypeOK, GuardsTypeOK, guards,
                            inputs
  <2>3. QED
    BY <1>1, <1>2, <1>4, <2>1, <2>2, PcStep DEF Goto, PC, TypeOK, daemon
<1>5. QED
  BY <1>3, <1>4 DEF Teardown

\* A killed run leaves its network as it is, closed or half built.
LEMMA KillStep ==
  ASSUME NetInv, NEW r \in Runs, Kill(r)
  PROVE  NetInv'
<1>1. TypeOK /\ Gentle(r)
  BY QuietGentle DEF NetInv, Kill, Abandon, TypeOK
<1>2. GuardsTypeOK'
  BY <1>1 DEF TypeOK, GuardsTypeOK, Kill, Abandon, inputs
<1>3. StagesAgree(r)'
  BY <1>1 DEF NetInv, StagesAgree, Kill, isolation, TypeOK, PC
<1>4. net' = net /\ rules' = rules
  BY DEF Kill, Abandon, daemon
<1>5. QED
  BY <1>1, <1>2, <1>3, <1>4, PcStep DEF Kill, PC, TypeOK

LEMMA DisappearStep ==
  ASSUME NetInv, NEW n \in Names, Disappear(n)
  PROVE  NetInv'
<1>1. TypeOK /\ DeleteInstance(n)
  BY DEF NetInv, Disappear
<1>2. UNCHANGED <<inputs, guards, isolation, pc, devices, polls, order, net, rules>>
  BY DEF Disappear, DeleteInstance
<1>3. DaemonTypeOK' /\ \A m \in Names : inst'[m].nic \in {NoRun, inst[m].nic}
  <2>1. Absent \in Instance /\ Absent.nic = NoRun
    BY DEF Absent, Instance
  <2>2. QED
    BY <1>1, <1>2, <2>1 DEF TypeOK, DaemonTypeOK, DeleteInstance
<1>4. TypeOK'
  BY <1>1, <1>2, <1>3 DEF TypeOK, GuardsTypeOK, IsolationTypeOK, guards, inputs, isolation
<1>5. NicIsConfined'
  BY <1>2, <1>3 DEF NetInv, NicIsConfined, Secured
<1>6. ASSUME NEW q \in Runs
      PROVE  BridgeBuilt(q)' /\ StagesAgree(q)'
  BY <1>2 DEF NetInv, BridgeBuilt, BridgeReady, Secured, StagesAgree, isolation
<1>7. QED
  BY <1>4, <1>5, <1>6 DEF NetInv

LEMMA IdleStep ==
  ASSUME NetInv, UNCHANGED vars
  PROVE  NetInv'
<1>1. UNCHANGED <<inst, net, rules, name, keep, held, host, broken, iso, pending, failed,
                  pc, devices, polls, order>>
  BY DEF vars, daemon, inputs, guards, isolation
<1>2. TypeOK'
  BY <1>1 DEF NetInv, TypeOK, DaemonTypeOK, GuardsTypeOK, IsolationTypeOK
<1>3. NicIsConfined'
  BY <1>1 DEF NetInv, NicIsConfined, Secured
<1>4. ASSUME NEW q \in Runs
      PROVE  BridgeBuilt(q)' /\ StagesAgree(q)'
  BY <1>1 DEF NetInv, BridgeBuilt, BridgeReady, Secured, StagesAgree
<1>5. QED
  BY <1>2, <1>3, <1>4 DEF NetInv

LEMMA InitNetInv == Init => NetInv
<1> SUFFICES ASSUME Init PROVE NetInv
  OBVIOUS
<1>1. TypeOK
  <2>1. DaemonTypeOK
    BY DaemonAssumption DEF Init, DaemonInit, DaemonTypeOK, Absent, Instance
  <2>2. GuardsTypeOK /\ IsolationTypeOK
    BY DEF Init, GuardsInit, GuardsTypeOK, IsolationInit, IsolationTypeOK, IsoState
  <2>3. QED
    BY <2>1, <2>2, LifecycleAssumption DEF Init, TypeOK, PC
<1>2. NicIsConfined
  BY DEF Init, DaemonInit, NicIsConfined, Absent
<1>3. ASSUME NEW q \in Runs
      PROVE  BridgeBuilt(q) /\ StagesAgree(q)
  BY DEF Init, IsolationInit, BridgeBuilt, BridgeReady, StagesAgree, PC
<1>4. QED
  BY <1>1, <1>2, <1>3 DEF NetInv

LEMMA NextNetInv == NetInv /\ [Next]_vars => NetInv'
<1> SUFFICES ASSUME NetInv, [Next]_vars PROVE NetInv'
  OBVIOUS
<1>1. ASSUME NEW r \in Runs, Step(r) \/ Leave(r) \/ Kill(r)
      PROVE  NetInv'
  BY <1>1, CreateStep, SetupStep, AddDeviceStep, JoinedStep, AttachStep, LaunchStep,
     TeardownStep, KillStep DEF Step
<1>2. QED
  BY <1>1, DisappearStep, IdleStep DEF Next, Finished

\* In every reachable state every variable has its type, each stage of setup
\* has built what the next one relies on, and NicIsConfined holds: for any
\* number of runs, whoever kills them and whoever deletes instances.
THEOREM NetworkInvariant == Spec => []NetInv
  BY InitNetInv, NextNetInv, PTL DEF Spec

\* An instance's NIC is only ever on a bridge that is completely closed.
THEOREM NicConfined == Spec => []NicIsConfined
<1>1. NetInv => NicIsConfined
  BY DEF NetInv
<1>2. QED
  BY <1>1, NetworkInvariant, PTL

-----------------------------------------------------------------------------
\* Part 2: who owns what, while no instance disappears under a live run.

OwnInv == (\A r \in Runs : Owns(r)) /\ NicIsOwn

\* Run r has touched at most its own instance, or taken a free name.
MineOrFree(r) == inst[name[r]].owner \in {r, NoRun}

InstOnly(r) == \A n \in Names \ {name[r]} : inst'[n] = inst[n]

\* What run r does to its own instance is nothing to another run's.
LEMMA OthersOwn ==
  ASSUME TypeOK, OwnInv, NEW r \in Runs, MineOrFree(r) \/ inst' = inst, InstOnly(r),
         name' = name, NEW q \in Runs \ {r}, held'[q] = held[q], pc'[q] = pc[q]
  PROVE  Owns(q)'
<1>1. Owns(q) /\ name[q] \in Names /\ q # NoRun
  BY DaemonAssumption DEF OwnInv, TypeOK, GuardsTypeOK
<1>2. CASE "instance" \in held[q]
  <2>1. inst[name[q]].owner = q
    BY <1>1, <1>2 DEF Owns
  <2>2. inst'[name[q]] = inst[name[q]]
    BY <1>1, <2>1 DEF InstOnly, MineOrFree
  <2>3. QED
    BY <1>1, <2>2 DEF Owns
<1>3. CASE "instance" \notin held[q]
  BY <1>1, <1>3 DEF Owns
<1>4. QED
  BY <1>2, <1>3

LEMMA OwnStep ==
  ASSUME TypeOK, OwnInv, NEW r \in Runs, MineOrFree(r) \/ inst' = inst, InstOnly(r),
         name' = name,
         \A q \in Runs \ {r} : held'[q] = held[q] /\ pc'[q] = pc[q],
         Owns(r)',
         /\ inst'[name[r]].nic \in {NoRun, inst'[name[r]].owner}
         /\ inst'[name[r]].up => /\ inst'[name[r]].owner # NoRun
                                 /\ inst'[name[r]].nic = inst'[name[r]].owner
  PROVE  OwnInv'
<1>1. \A q \in Runs : Owns(q)'
  BY OthersOwn
<1>2. NicIsOwn'
  BY DEF OwnInv, NicIsOwn, InstOnly, Exists
<1>3. QED
  BY <1>1, <1>2 DEF OwnInv

\* A step of r that leaves the instances alone.
LEMMA OwnKept ==
  ASSUME TypeOK, OwnInv, NEW r \in Runs, inst' = inst, name' = name,
         \A q \in Runs \ {r} : held'[q] = held[q] /\ pc'[q] = pc[q],
         Owns(r)'
  PROVE  OwnInv'
<1>1. \A q \in Runs : Owns(q)'
  BY OthersOwn DEF InstOnly
<1>2. QED
  BY <1>1 DEF OwnInv, NicIsOwn, Exists

\* No error in setup drops the instance's guard.
LEMMA SetupDropsNoInstance ==
  ASSUME NEW r \in Runs, NEW g, Falls(r, FailOrder(r), g)
  PROVE  g # "instance"
  BY DEF Falls, FailOrder, BridgeLocalsOrder, IsolationOrder, BridgeGuardOrder

LEMMA CreateOwn ==
  ASSUME NetInv, OwnInv, NEW r \in Runs, Create(r)
  PROVE  OwnInv'
<1>1. /\ TypeOK /\ name[r] \in Names /\ Owns(r) /\ pc[r] = "create" /\ held[r] = {}
      /\ name' = name /\ r # NoRun
  BY DaemonAssumption DEF NetInv, TypeOK, GuardsTypeOK, OwnInv, Owns, Create, Goto, inputs
<1>2. \A q \in Runs \ {r} : held'[q] = held[q] /\ pc'[q] = pc[q]
  BY <1>1 DEF Create, Goto, Acquire, guards, TypeOK, GuardsTypeOK
<1>3. CASE Goto(r, "create", "exited") /\ UNCHANGED <<daemon, guards>>
  <2>1. pc'[r] = "exited" /\ held' = held /\ inst' = inst
    BY <1>1, <1>3 DEF Goto, daemon, guards, TypeOK
  <2>2. QED
    BY <1>1, <1>2, <2>1, OwnKept DEF Owns
<1>4. CASE Goto(r, "create", "setup") /\ InitInstance(r, name[r]) /\ Acquire(r, "instance")
  <2>1. pc'[r] = "setup" /\ held'[r] = {"instance"}
    BY <1>1, <1>4 DEF Goto, Acquire, TypeOK, GuardsTypeOK
  <2>2. /\ inst'[name[r]] = [owner |-> r, up |-> FALSE, nic |-> NoRun]
        /\ InstOnly(r) /\ MineOrFree(r)
    BY <1>1, <1>4 DEF InitInstance, Absent, InstOnly, MineOrFree, Exists, TypeOK, DaemonTypeOK
  <2>3. QED
    BY <1>1, <1>2, <2>1, <2>2, OwnStep DEF Owns
<1>5. QED
  BY <1>3, <1>4 DEF Create

\* Setup touches no instance, and no instance guard.
LEMMA SetupTouches ==
  ASSUME NEW r \in Runs, SetupIsolation(r)
  PROVE  inst' = inst /\ (held' = held \/ \E g \in Guard \ {"instance"} :
                                            \/ held' = [held EXCEPT ![r] = @ \ {g}]
                                            \/ held' = [held EXCEPT ![r] = @ \cup {g}])
<1>1. CASE UnwindIsolation(r)
  <2>1. ASSUME NEW g \in Guard, Falls(r, FailOrder(r), g), DropGuard(r, g)
        PROVE  inst' = inst /\ held' = [held EXCEPT ![r] = @ \ {g}] /\ g # "instance"
    <3>1. g # "instance"
      BY <2>1, SetupDropsNoInstance
    <3>2. QED
      BY <2>1, <3>1 DEF DropGuard, DropBridge, DropAcl, DropProxy, DropCa, Undeleted,
                        DeleteNetwork, DeleteAcl, daemon
  <2>2. QED
    BY <1>1, <2>1 DEF UnwindIsolation, NoEffect, daemon, guards
<1>2. CASE CreateBridge(r) \/ CreateAcl(r) \/ CreateCaDir(r) \/ SpawnProxies(r)
  BY <1>2 DEF CreateBridge, CreateAcl, CreateCaDir, SpawnProxies, Acquire, Guard, NoEffect,
              daemon, guards, CreateNetwork, CreateNetworkAcl, Configure
<1>3. CASE \/ GetSubnet(r) \/ AddRule(r) \/ SetDnsmasq(r) \/ BridgeConfigured(r)
           \/ SetDefaultReject(r) \/ AttachAcl(r) \/ ResolveSecrets(r) \/ GenerateCa(r)
           \/ WaitUntilReady(r)
  BY <1>3 DEF GetSubnet, AddRule, SetDnsmasq, BridgeConfigured, SetDefaultReject, AttachAcl,
              ResolveSecrets, GenerateCa, WaitUntilReady, NoEffect, FailBranch, daemon,
              guards, AddAclRule, SetNetworkDnsmasq, SetEgressReject, ApplyAcl, Configure
<1>4. QED
  BY <1>1, <1>2, <1>3 DEF SetupIsolation, IsolationStep

LEMMA SetupOwn ==
  ASSUME NetInv, OwnInv, NEW r \in Runs, SetupIsolation(r)
  PROVE  OwnInv'
<1>1. /\ TypeOK /\ Owns(r) /\ pc[r] = "setup" /\ pc' = pc /\ name' = name
  BY DEF NetInv, OwnInv, SetupIsolation, inputs
<1>2. inst' = inst /\ (held' = held \/ \E g \in Guard \ {"instance"} :
                                          \/ held' = [held EXCEPT ![r] = @ \ {g}]
                                          \/ held' = [held EXCEPT ![r] = @ \cup {g}])
  BY SetupTouches
<1>3. /\ \A q \in Runs \ {r} : held'[q] = held[q]
      /\ "instance" \in held'[r] <=> "instance" \in held[r]
  BY <1>1, <1>2 DEF TypeOK, GuardsTypeOK
<1>4. Owns(r)'
  BY <1>1, <1>2, <1>3 DEF Owns
<1>5. QED
  BY <1>1, <1>2, <1>3, <1>4, OwnKept

\* Steps that only move the run on.
LEMMA MoveOwn ==
  ASSUME NetInv, OwnInv, NEW r \in Runs,
         \/ AddDevice(r) \/ Joined(r) \/ Poll(r) \/ Provision(r) \/ Leave(r)
  PROVE  OwnInv'
<1>1. TypeOK /\ Owns(r) /\ pc \in [Runs -> PC]
  BY DEF NetInv, OwnInv, TypeOK
<1>2. name' = name /\ held' = held /\ inst' = inst
  BY DEF AddDevice, Joined, Poll, Provision, Leave, FailBranch, inputs, guards, daemon
<1>3. \A q \in Runs \ {r} : pc'[q] = pc[q]
  BY <1>1 DEF AddDevice, Joined, Poll, Provision, Leave, Goto, Unwind
<1>4. Owns(r)'
  <2>1. \/ pc'[r] = pc[r]
        \/ pc[r] = "setup" /\ pc'[r] = "attach"
        \/ pc[r] = "poll" /\ pc'[r] = "cert"
        \/ pc[r] = "cert" /\ pc'[r] = "trust"
        \/ pc[r] = "trust" /\ pc'[r] = "chown"
        \/ pc[r] = "chown" /\ pc'[r] = "running"
        \/ pc'[r] = "unwind"
    BY <1>1 DEF AddDevice, Joined, Poll, Provision, Leave, Goto, Unwind
  <2>2. QED
    BY <1>1, <1>2, <2>1 DEF Owns
<1>5. QED
  BY <1>1, <1>2, <1>3, <1>4, OwnKept

LEMMA AttachOwn ==
  ASSUME NetInv, OwnInv, NEW r \in Runs, Attach(r)
  PROVE  OwnInv'
<1>1. /\ TypeOK /\ Owns(r) /\ NicIsOwn /\ name[r] \in Names /\ pc[r] = "attach"
      /\ "instance" \in held[r] /\ inst[name[r]].owner = r
  BY DEF NetInv, OwnInv, TypeOK, GuardsTypeOK, Attach, Goto, Unwind, Owns
<1>2. name' = name /\ held' = held /\ \A q \in Runs \ {r} : pc'[q] = pc[q]
  BY <1>1 DEF Attach, inputs, guards, Goto, Unwind, TypeOK
<1>3. CASE Goto(r, "attach", "start") /\ AddNic(name[r], r)
  <2>1. /\ inst'[name[r]].nic = r /\ inst'[name[r]].owner = r /\ InstOnly(r)
        /\ r # NoRun
    BY <1>1, <1>3, DaemonAssumption DEF AddNic, InstOnly, TypeOK, DaemonTypeOK, Instance
  <2>2. pc'[r] = "start"
    BY <1>1, <1>3 DEF Goto, TypeOK
  <2>3. QED
    BY <1>1, <1>2, <2>1, <2>2, OwnStep DEF Owns, MineOrFree
<1>4. CASE Unwind(r, "attach", InitLocalsOrder) /\ UNCHANGED daemon
  <2>1. inst' = inst /\ pc'[r] = "unwind"
    BY <1>1, <1>4 DEF Unwind, Goto, TypeOK, daemon
  <2>2. QED
    BY <1>1, <1>2, <2>1, OwnKept DEF Owns
<1>5. QED
  BY <1>3, <1>4 DEF Attach

LEMMA StartOwn ==
  ASSUME NetInv, OwnInv, NEW r \in Runs, Start(r)
  PROVE  OwnInv'
<1>1. /\ TypeOK /\ Owns(r) /\ NicIsOwn /\ name[r] \in Names /\ pc[r] = "start"
      /\ "instance" \in held[r] /\ inst[name[r]].owner = r /\ inst[name[r]].nic = r
  BY DEF NetInv, OwnInv, TypeOK, GuardsTypeOK, Start, Goto, Unwind, Owns
<1>2. name' = name /\ held' = held /\ \A q \in Runs \ {r} : pc'[q] = pc[q]
  BY <1>1 DEF Start, inputs, guards, Goto, Unwind, TypeOK
<1>3. CASE Goto(r, "start", "poll") /\ StartInstance(name[r])
  <2>1. /\ inst'[name[r]].nic = r /\ inst'[name[r]].owner = r /\ InstOnly(r)
        /\ r # NoRun
    BY <1>1, <1>3, DaemonAssumption DEF StartInstance, InstOnly, TypeOK, DaemonTypeOK, Instance
  <2>2. pc'[r] = "poll"
    BY <1>1, <1>3 DEF Goto, TypeOK
  <2>3. QED
    BY <1>1, <1>2, <2>1, <2>2, OwnStep DEF Owns, MineOrFree
<1>4. CASE Unwind(r, "start", StateOrder) /\ UNCHANGED daemon
  <2>1. inst' = inst /\ pc'[r] = "unwind"
    BY <1>1, <1>4 DEF Unwind, Goto, TypeOK, daemon
  <2>2. QED
    BY <1>1, <1>2, <2>1, OwnKept DEF Owns
<1>5. QED
  BY <1>3, <1>4 DEF Start

\* The instance guard deletes by name, and the name is still the run's own.
LEMMA TeardownOwn ==
  ASSUME NetInv, OwnInv, NEW r \in Runs, Teardown(r)
  PROVE  OwnInv'
<1>1. /\ TypeOK /\ Owns(r) /\ NicIsOwn /\ name[r] \in Names /\ name' = name
      /\ pc[r] = "unwind" /\ inst[name[r]] \in Instance
  BY DEF NetInv, OwnInv, TypeOK, GuardsTypeOK, DaemonTypeOK, Teardown, inputs, Goto
<1>2. CASE \E g \in Guard : Falls(r, order[r], g) /\ DropGuard(r, g) /\ pc' = pc
  <2>1. PICK g \in Guard : Falls(r, order[r], g) /\ DropGuard(r, g) /\ pc' = pc
    BY <1>2
  <2>2. /\ held' = [held EXCEPT ![r] = @ \ {g}] /\ g \in held[r]
        /\ \A q \in Runs \ {r} : held'[q] = held[q] /\ pc'[q] = pc[q]
    BY <1>1, <2>1 DEF DropGuard, Falls, TypeOK, GuardsTypeOK
  <2>3. held'[r] = held[r] \ {g}
    BY <1>1, <2>2 DEF TypeOK, GuardsTypeOK
  <2>4. CASE inst' = inst
    <3>1. Owns(r)'
      BY <1>1, <2>1, <2>3, <2>4 DEF Owns
    <3>2. QED
      BY <1>1, <2>2, <2>4, <3>1, OwnKept
  <2>5. CASE inst' # inst
    <3>1. g = "instance" /\ DeleteInstance(name[r])
      BY <2>1, <2>5 DEF DropGuard, DropInstance, DropBridge, DropAcl, DropProxy, DropCa,
                        Undeleted, DeleteNetwork, DeleteAcl, daemon
    <3>2. /\ inst'[name[r]] = [owner |-> NoRun, up |-> FALSE, nic |-> NoRun]
          /\ InstOnly(r) /\ MineOrFree(r)
      BY <1>1, <2>2, <3>1 DEF DeleteInstance, Absent, InstOnly, MineOrFree, Owns, TypeOK,
                              DaemonTypeOK
    <3>3. Owns(r)'
      BY <1>1, <2>1, <2>3, <3>1 DEF Owns
    <3>4. QED
      BY <1>1, <2>2, <3>2, <3>3, OwnStep
  <2>6. QED
    BY <2>4, <2>5
<1>3. CASE held[r] = {} /\ Goto(r, "unwind", "exited") /\ UNCHANGED <<daemon, guards>>
  <2>1. /\ inst' = inst /\ held' = held /\ pc'[r] = "exited"
        /\ \A q \in Runs \ {r} : pc'[q] = pc[q]
    BY <1>1, <1>3 DEF Goto, TypeOK, daemon, guards
  <2>2. QED
    BY <1>1, <1>3, <2>1, OwnKept DEF Owns
<1>4. QED
  BY <1>2, <1>3 DEF Teardown

LEMMA KillOwn ==
  ASSUME NetInv, OwnInv, NEW r \in Runs, Kill(r)
  PROVE  OwnInv'
<1>1. /\ TypeOK /\ name' = name /\ inst' = inst /\ held'[r] = {} /\ pc'[r] = "killed"
      /\ \A q \in Runs \ {r} : held'[q] = held[q] /\ pc'[q] = pc[q]
  BY DEF NetInv, TypeOK, GuardsTypeOK, Kill, Abandon, inputs, daemon
<1>2. QED
  BY <1>1, OwnKept DEF Owns, OwnInv

\* An instance that disappears was that of a run that holds no guard any more.
LEMMA DisappearOwn ==
  ASSUME Vanish = "ended", NetInv, OwnInv, NEW n \in Names, Disappear(n)
  PROVE  OwnInv'
<1>1. /\ TypeOK /\ NicIsOwn /\ Exists(n) /\ Ended(inst[n].owner) /\ DeleteInstance(n)
      /\ inst[n].owner \in Runs
  BY DEF NetInv, OwnInv, Disappear, Exists, TypeOK, DaemonTypeOK, Instance
<1>2. name' = name /\ held' = held /\ pc' = pc
  BY DEF Disappear, inputs, guards
<1>3. \A q \in Runs : Owns(q)'
  <2>1. SUFFICES ASSUME NEW q \in Runs PROVE Owns(q)'
    OBVIOUS
  <2>2. Owns(q) /\ Owns(inst[n].owner)
    BY <1>1 DEF OwnInv
  <2>3. CASE "instance" \in held[q]
    <3>1. inst[name[q]].owner = q /\ held[inst[n].owner] = {}
      BY <1>1, <2>2, <2>3 DEF Owns, Ended
    <3>2. name[q] # n
      BY <2>3, <3>1
    <3>3. inst'[name[q]] = inst[name[q]]
      BY <1>1, <3>2 DEF DeleteInstance, TypeOK, DaemonTypeOK, GuardsTypeOK
    <3>4. QED
      BY <1>2, <2>2, <3>3 DEF Owns
  <2>4. CASE "instance" \notin held[q]
    BY <1>2, <2>2, <2>4 DEF Owns
  <2>5. QED
    BY <2>3, <2>4
<1>4. NicIsOwn'
  BY <1>1 DEF NicIsOwn, DeleteInstance, Absent, Exists, TypeOK, DaemonTypeOK
<1>5. QED
  BY <1>3, <1>4 DEF OwnInv

LEMMA InitOwnInv == Init => OwnInv
<1> SUFFICES ASSUME Init PROVE OwnInv
  OBVIOUS
<1>1. /\ \A r \in Runs : pc[r] = "create" /\ held[r] = {}
      /\ \A n \in Names : inst[n].nic = NoRun /\ inst[n].owner = NoRun /\ ~inst[n].up
  BY DEF Init, GuardsInit, DaemonInit, Absent
<1>2. QED
  BY <1>1 DEF OwnInv, Owns, NicIsOwn

LEMMA NextOwnInv ==
  ASSUME Vanish = "ended"
  PROVE  NetInv /\ OwnInv /\ [Next]_vars => OwnInv'
<1> SUFFICES ASSUME NetInv, OwnInv, [Next]_vars PROVE OwnInv'
  OBVIOUS
<1>1. ASSUME NEW r \in Runs, Step(r) \/ Leave(r) \/ Kill(r)
      PROVE  OwnInv'
  BY <1>1, CreateOwn, SetupOwn, MoveOwn, AttachOwn, StartOwn, TeardownOwn, KillOwn
     DEF Step
<1>2. CASE UNCHANGED vars
  BY <1>2 DEF vars, daemon, inputs, guards, OwnInv, Owns, NicIsOwn, Exists
<1>3. QED
  BY <1>1, <1>2, DisappearOwn DEF Next, Finished

\* If no instance disappears under a live run, a guard on an instance means
\* that the run still owns it, and a NIC is on the owner's bridge.
THEOREM OwnerInvariant ==
  ASSUME Vanish = "ended"
  PROVE  Spec => []OwnerInv
<1>1. OwnerInv <=> NetInv /\ OwnInv
  BY DEF OwnerInv, OwnInv
<1>2. QED
  BY <1>1, NetworkInvariant, InitOwnInv, NextOwnInv, PTL DEF Spec

\* Then an instance runs on the closed bridge of its own run and no other.
THEOREM UpConfined ==
  ASSUME Vanish = "ended"
  PROVE  Spec => []UpIsConfined
<1>1. OwnerInv => UpIsConfined
  BY DEF OwnerInv, NetInv, NicIsConfined, NicIsOwn, Exists, UpIsConfined
<1>2. QED
  BY <1>1, OwnerInvariant, PTL

\* And a run deletes no instance but its own, although runs may share a name.
THEOREM DeletesOwn ==
  ASSUME Vanish = "ended"
  PROVE  Spec => DeletesOnlyOwn
<1> DEFINE A == \A r \in Runs, n \in Names :
                  "instance" \in held[r] \ held'[r] /\ Exists(n) /\ ~Exists(n)'
                    => inst[n].owner = r
<1>1. OwnerInv /\ [Next]_vars => A
  <2> SUFFICES ASSUME OwnerInv, [Next]_vars, NEW r \in Runs, NEW n \in Names,
                      "instance" \in held[r] \ held'[r], Exists(n), ~Exists(n)'
               PROVE  inst[n].owner = r
    OBVIOUS
  <2>1. TypeOK /\ Owns(r) /\ inst' # inst /\ held' # held
    BY DEF OwnerInv, NetInv, Exists
  <2>2. inst[name[r]].owner = r
    BY <2>1 DEF Owns
  <2>3. ASSUME NEW q \in Runs, Step(q) \/ Leave(q) \/ Kill(q)
        PROVE  n = name[r]
    <3>1. Teardown(q)
      BY <2>1, <2>3, SetupTouches DEF TypeOK, GuardsTypeOK, Step, Leave, Kill, Abandon,
           daemon, guards, Create, Acquire, Goto, AddDevice, FailBranch, Joined, Attach,
           Start, Poll, Provision
    <3>2. PICK g \in Guard : DropGuard(q, g)
      BY <2>1, <3>1 DEF Teardown, daemon
    <3>3. q = r /\ g = "instance"
      BY <2>1, <3>2 DEF DropGuard, TypeOK, GuardsTypeOK
    <3>4. QED
      BY <2>1, <3>2, <3>3 DEF DropGuard, DropInstance, Undeleted, DeleteInstance, daemon, Exists,
                              TypeOK, DaemonTypeOK
  <2>4. ASSUME NEW m \in Names, Disappear(m)
        PROVE  FALSE
    BY <2>1, <2>4 DEF Disappear, guards
  <2>5. QED
    BY <2>1, <2>2, <2>3, <2>4 DEF Next, Finished, vars, daemon
<1>2. QED
  BY <1>1, OwnerInvariant, PTL DEF Spec, DeletesOnlyOwn

-----------------------------------------------------------------------------
\* Part 3: what a run leaves behind.

\* What Guarded(q) says of the daemon can only get less.
Less(q) ==
  /\ \A n \in Names : /\ inst'[n].nic = q => inst[n].nic = q
                      /\ inst'[n].owner = q => inst[n].owner = q
  /\ net'[q] = net[q]

\* A step of another run.
Frame(q) ==
  /\ Less(q)
  /\ name' = name /\ keep' = keep
  /\ pc'[q] = pc[q] /\ iso'[q] = iso[q] /\ order'[q] = order[q]
  /\ held'[q] = held[q] /\ host'[q] = host[q]
  /\ q \in broken' <=> q \in broken

Framed(r) == \A q \in Runs \ {r} : Frame(q)

\* No instance, nothing of an instance.
Shaped == \A n \in Names : Exists(n) \/ inst[n] = Absent

LEMMA FrameKeeps ==
  ASSUME NEW q \in Runs, Guarded(q), Frame(q)
  PROVE  Guarded(q)'
<1>1. \A n \in Names : q \in {inst'[n].owner, inst'[n].nic} => q \in {inst[n].owner, inst[n].nic}
  BY DEF Frame, Less
<1>2. /\ Unattached(q)' <=> Unattached(q)
      /\ NotApplied(q)' <=> NotApplied(q)
  BY DEF Frame, Unattached, NotApplied
<1>3. (Unattached(q) => \A n \in Names : inst[n].nic # q)'
  BY <1>2 DEF Guarded, Frame, Less
<1>4. (\A n \in Names : q \in {inst[n].owner, inst[n].nic} => n = name[q])'
  BY <1>1 DEF Guarded, Frame
<1>5. /\ (pc[q] \in {"create", "exited"} => held[q] = {})'
      /\ (pc[q] \in {"setup", "attach", "start", "poll", "cert", "trust", "chown", "running"}
            => "instance" \in held[q])'
      /\ (net[q] \subseteq {"acl"} \/ "bridge" \in net[q])'
      /\ (NotApplied(q) => "applied" \notin net[q])'
  BY <1>2 DEF Guarded, Frame, Less
<1>6. (~keep[q] /\ q \notin broken /\ pc[q] # "killed" =>
         /\ "instance" \in held[q] \/ \A n \in Names : q \notin {inst[n].owner, inst[n].nic}
         /\ net[q] \cap {"bridge", "acl"} \subseteq held[q]
         /\ host[q] \subseteq held[q])'
  BY <1>1 DEF Guarded, Frame, Less
<1>7. QED
  BY <1>3, <1>4, <1>5, <1>6 DEF Guarded

\* So a step of r has to be looked at for r only.
LEMMA LeakStep ==
  ASSUME LeakInv, NetInv', NEW r \in Runs, Framed(r), Guarded(r)', Shaped'
  PROVE  LeakInv'
<1>1. \A q \in Runs : Guarded(q)'
  BY FrameKeeps DEF LeakInv, Framed
<1>2. QED
  BY <1>1 DEF LeakInv, Shaped

-----------------------------------------------------------------------------
\* What a step of r changes of others: nothing.

\* The parts of a frame that a step outside the daemon leaves alone.
LEMMA FramedByLess ==
  ASSUME TypeOK, NEW r \in Runs, \A q \in Runs \ {r} : Less(q),
         UNCHANGED inputs,
         NEW p \in PC, pc' = [pc EXCEPT ![r] = p],
         \A q \in Runs \ {r} : /\ iso'[q] = iso[q] /\ order'[q] = order[q]
                               /\ held'[q] = held[q] /\ host'[q] = host[q]
                               /\ q \in broken' <=> q \in broken
  PROVE  Framed(r)
  BY DEF Framed, Frame, inputs, TypeOK

\* A command of r on its own network, or none.
LEMMA NetLess ==
  ASSUME TypeOK, NEW r \in Runs, inst' = inst, NEW new, net' = [net EXCEPT ![r] = new]
  PROVE  \A q \in Runs \ {r} : Less(q)
  BY DEF Less, TypeOK, DaemonTypeOK

\* A command of r on an instance: others are not named by what it writes.
LEMMA InstLess ==
  ASSUME TypeOK, NEW r \in Runs, NEW n \in Names, net' = net,
         \/ InitInstance(r, n) \/ AddNic(n, r) \/ StartInstance(n) \/ DeleteInstance(n)
  PROVE  \A q \in Runs \ {r} : Less(q)
<1>1. \A m \in Names : /\ inst'[m].owner \in {inst[m].owner, r, NoRun}
                       /\ inst'[m].nic \in {inst[m].nic, r, NoRun}
  BY DEF InitInstance, AddNic, StartInstance, DeleteInstance, Absent, TypeOK, DaemonTypeOK,
         Instance
<1>2. QED
  BY <1>1, DaemonAssumption DEF Less

LEMMA InstShaped ==
  ASSUME TypeOK, Shaped, NEW r \in Runs, NEW n \in Names,
         \/ InitInstance(r, n) \/ AddNic(n, r) \/ StartInstance(n) \/ DeleteInstance(n)
  PROVE  Shaped'
<1>1. \A m \in Names \ {n} : inst'[m] = inst[m]
  BY DEF InitInstance, AddNic, StartInstance, DeleteInstance, TypeOK, DaemonTypeOK
<1>2. \/ inst'[n] = Absent
      \/ inst'[n].owner \in {r, inst[n].owner} /\ inst[n].owner # NoRun
      \/ inst'[n].owner = r
  BY DEF InitInstance, AddNic, StartInstance, DeleteInstance, TypeOK, DaemonTypeOK, Exists,
         Absent, Instance
<1>3. QED
  BY <1>1, <1>2, DaemonAssumption DEF Shaped, Exists

-----------------------------------------------------------------------------
\* A guard falls: the daemon deletes what it is asked to, or the deletion
\* failed by itself.

\* The guard may fall now: the bridge once no NIC is on it, the ACL once no
\* bridge applies it.
InTurn(r, g) ==
  /\ g \in held[r]
  /\ g = "bridge" => "instance" \notin held[r] \/ Unattached(r)
  /\ g = "acl" => "bridge" \notin held[r] \/ NotApplied(r)

Falling(r, g) ==
  /\ LeakInv
  /\ DropGuard(r, g)
  /\ InTurn(r, g)
  /\ pc[r] = "unwind" \/ (pc[r] = "setup" /\ g # "instance")
  /\ UNCHANGED <<inputs, isolation, pc, devices, polls, order>>

Whole(r) == ~keep[r] /\ r \notin broken /\ pc[r] # "killed"

\* A fall leaves what is held, and so Guarded, to be looked at in its last part.
LEMMA FallShape ==
  ASSUME NEW r \in Runs, NEW g \in Guard, Falling(r, g)
  PROVE  /\ held'[r] = held[r] \ {g}
         /\ \A q \in Runs \ {r} : held'[q] = held[q]
         /\ TypeOK /\ pc' = pc /\ iso' = iso /\ order' = order /\ name' = name /\ keep' = keep
         /\ Unattached(r)' <=> Unattached(r)
         /\ NotApplied(r)' <=> NotApplied(r)
         /\ Guarded(r) /\ Shaped
  BY DEF Falling, DropGuard, LeakInv, NetInv, TypeOK, GuardsTypeOK, inputs, isolation,
         Unattached, NotApplied, Shaped

\* What the daemon and the host have of r is guarded.
Covered(r) ==
  /\ "instance" \in held[r] \/ \A n \in Names : r \notin {inst[n].owner, inst[n].nic}
  /\ net[r] \cap {"bridge", "acl"} \subseteq held[r]
  /\ host[r] \subseteq held[r]

\* What is left to show of a fall is that nothing is without its guard.
LEMMA FallKeeps ==
  ASSUME NEW r \in Runs, NEW g \in Guard, Guarded(r),
         pc[r] = "unwind" \/ (pc[r] = "setup" /\ g # "instance"),
         held'[r] = held[r] \ {g}, pc' = pc, name' = name, keep' = keep,
         Unattached(r)' <=> Unattached(r), NotApplied(r)' <=> NotApplied(r),
         \A n \in Names : /\ inst'[n].nic = r => inst[n].nic = r
                          /\ inst'[n].owner = r => inst[n].owner = r,
         net'[r] \in {net[r], net[r] \cap {"acl"}, net[r] \ {"acl"}},
         Whole(r)' => Covered(r)'
  PROVE  Guarded(r)'
<1>1. /\ (pc[r] \in {"create", "exited"} => held[r] = {})'
      /\ (pc[r] \in {"setup", "attach", "start", "poll", "cert", "trust", "chown", "running"}
            => "instance" \in held[r])'
  BY DEF Guarded
<1>2. /\ (Unattached(r) => \A n \in Names : inst[n].nic # r)'
      /\ (\A n \in Names : r \in {inst[n].owner, inst[n].nic} => n = name[r])'
  BY DEF Guarded
<1>3. (net[r] \subseteq {"acl"} \/ "bridge" \in net[r])'
  BY DEF Guarded
<1>4. (NotApplied(r) => "applied" \notin net[r])'
  BY DEF Guarded
<1>5. (~keep[r] /\ r \notin broken /\ pc[r] # "killed" =>
         /\ "instance" \in held[r] \/ \A n \in Names : r \notin {inst[n].owner, inst[n].nic}
         /\ net[r] \cap {"bridge", "acl"} \subseteq held[r]
         /\ host[r] \subseteq held[r])'
  BY DEF Whole, Covered
<1>6. QED
  BY <1>1, <1>2, <1>3, <1>4, <1>5 DEF Guarded

LEMMA InstanceFalls ==
  ASSUME NEW r \in Runs, Falling(r, "instance")
  PROVE  Framed(r) /\ Guarded(r)' /\ Shaped'
<1>1. "instance" \in Guard
  BY DEF Guard
<1>2. /\ held'[r] = held[r] \ {"instance"} /\ \A q \in Runs \ {r} : held'[q] = held[q]
      /\ TypeOK /\ pc' = pc /\ iso' = iso /\ order' = order /\ name' = name /\ keep' = keep
      /\ Unattached(r)' <=> Unattached(r)
      /\ NotApplied(r)' <=> NotApplied(r)
      /\ Guarded(r) /\ Shaped
  BY <1>1, FallShape
<1>3. /\ pc[r] = "unwind" /\ name[r] \in Names /\ inst \in [Names -> Instance]
      /\ host' = host /\ net' = net
  BY <1>2 DEF Falling, DropGuard, DropInstance, DeleteInstance, Undeleted, daemon, TypeOK,
              GuardsTypeOK, DaemonTypeOK
<1>4. CASE keep[r] /\ UNCHANGED <<daemon, broken>>
  <2>1. inst' = inst /\ broken' = broken
    BY <1>4 DEF daemon
  <2>2. Framed(r)
    BY <1>2, <1>3, <2>1 DEF Framed, Frame, Less
  <2>3. Guarded(r)'
    BY <1>1, <1>2, <1>3, <1>4, <2>1, FallKeeps DEF Whole
  <2>4. QED
    BY <1>2, <2>1, <2>2, <2>3 DEF Shaped, Exists
<1>5. CASE ~keep[r] /\ DeleteInstance(name[r]) /\ broken' = broken
  <2>1. (\A q \in Runs \ {r} : Less(q)) /\ Shaped'
    BY <1>2, <1>3, <1>5, InstLess, InstShaped
  <2>2. Framed(r)
    BY <1>2, <1>3, <1>5, <2>1 DEF Framed, Frame
  <2>3. \A n \in Names : r \notin {inst'[n].owner, inst'[n].nic}
    BY <1>2, <1>3, <1>5, DaemonAssumption DEF Guarded, DeleteInstance, Absent
  <2>4. Whole(r)' => Covered(r)'
    BY <1>2, <1>3, <1>5, <2>3 DEF Whole, Covered, Guarded, HostPart, GuardsTypeOK, TypeOK
  <2>5. Guarded(r)'
    BY <1>1, <1>2, <1>3, <2>3, <2>4, FallKeeps
  <2>6. QED
    BY <2>1, <2>2, <2>5
<1>6. CASE ~keep[r] /\ Undeleted(r, InstanceDeletable(name[r]))
  <2>1. inst' = inst /\ \A q \in Runs \ {r} : q \in broken' <=> q \in broken
    BY <1>6 DEF Undeleted, daemon
  <2>2. Framed(r)
    BY <1>2, <1>3, <2>1 DEF Framed, Frame, Less
  <2>3. r \in broken' \/ \A n \in Names : r \notin {inst[n].owner, inst[n].nic}
    <3>1. CASE Exists(name[r])
      BY <1>6, <3>1 DEF Undeleted, InstanceDeletable
    <3>2. CASE ~Exists(name[r])
      BY <1>2, <1>3, <3>2, DaemonAssumption DEF Shaped, Absent, Guarded
    <3>3. QED
      BY <3>1, <3>2
  <2>4. broken' = broken \/ broken' = broken \cup {r}
    BY <1>6 DEF Undeleted
  <2>5. Whole(r)' => Covered(r)'
    BY <1>2, <1>3, <2>1, <2>3, <2>4 DEF Whole, Covered, Guarded, HostPart, GuardsTypeOK, TypeOK
  <2>6. Guarded(r)'
    BY <1>1, <1>2, <1>3, <2>1, <2>5, FallKeeps
  <2>7. QED
    BY <1>2, <2>1, <2>2, <2>6 DEF Shaped, Exists
<1>7. QED
  BY <1>4, <1>5, <1>6 DEF Falling, DropGuard, DropInstance

LEMMA BridgeFalls ==
  ASSUME NEW r \in Runs, Falling(r, "bridge")
  PROVE  Framed(r) /\ Guarded(r)' /\ Shaped'
<1>1. "bridge" \in Guard
  BY DEF Guard
<1>2. /\ held'[r] = held[r] \ {"bridge"} /\ \A q \in Runs \ {r} : held'[q] = held[q]
      /\ TypeOK /\ pc' = pc /\ iso' = iso /\ order' = order /\ name' = name /\ keep' = keep
      /\ Unattached(r)' <=> Unattached(r)
      /\ NotApplied(r)' <=> NotApplied(r)
      /\ Guarded(r) /\ Shaped
  BY <1>1, FallShape
<1>3. inst' = inst /\ host' = host /\ pc[r] \in {"setup", "unwind"}
      /\ (pc[r] = "setup" => "instance" \in held[r])
  BY <1>2 DEF Falling, DropGuard, DropBridge, DeleteNetwork, Undeleted, daemon, Guarded
<1>4. /\ broken' = broken \/ broken' = broken \cup {r}
      /\ net' = net \/ net' = [net EXCEPT ![r] = @ \cap {"acl"}]
      /\ Whole(r)' => net'[r] \subseteq {"acl"}
  <2>1. CASE keep[r] /\ UNCHANGED <<daemon, broken>>
    BY <1>2, <2>1 DEF Whole, daemon
  <2>2. CASE ~keep[r] /\ DeleteNetwork(r) /\ broken' = broken
    BY <1>2, <2>2 DEF DeleteNetwork, TypeOK, DaemonTypeOK
  <2>3. CASE ~keep[r] /\ Undeleted(r, NetworkDeletable(r))
    <3>1. Whole(r)' => Whole(r) /\ ~NetworkDeletable(r)
      BY <1>2, <2>3 DEF Undeleted, Whole
    <3>2. Whole(r) => \A n \in Names : inst[n].nic # r
      BY <1>2 DEF Falling, InTurn, Guarded, Whole
    <3>3. Whole(r)' => net[r] \subseteq {"acl"}
      BY <1>2, <3>1, <3>2 DEF NetworkDeletable, Guarded
    <3>4. QED
      BY <2>3, <3>3 DEF Undeleted, daemon
  <2>4. QED
    BY <2>1, <2>2, <2>3 DEF Falling, DropGuard, DropBridge
<1>5. /\ net'[r] = net[r] \/ net'[r] = net[r] \cap {"acl"}
      /\ \A q \in Runs \ {r} : net'[q] = net[q]
  BY <1>2, <1>4 DEF TypeOK, DaemonTypeOK
<1>6. Framed(r) /\ Shaped'
  BY <1>2, <1>3, <1>4, <1>5 DEF Framed, Frame, Less, Shaped, Exists
<1>7. Whole(r)' => Covered(r)'
  BY <1>1, <1>2, <1>3, <1>4, <1>5 DEF Whole, Covered, Guarded, HostPart, GuardsTypeOK, TypeOK
<1>8. Guarded(r)'
  BY <1>1, <1>2, <1>3, <1>5, <1>7, FallKeeps DEF Falling
<1>9. QED
  BY <1>6, <1>8

LEMMA AclFalls ==
  ASSUME NEW r \in Runs, Falling(r, "acl")
  PROVE  Framed(r) /\ Guarded(r)' /\ Shaped'
<1>1. "acl" \in Guard
  BY DEF Guard
<1>2. /\ held'[r] = held[r] \ {"acl"} /\ \A q \in Runs \ {r} : held'[q] = held[q]
      /\ TypeOK /\ pc' = pc /\ iso' = iso /\ order' = order /\ name' = name /\ keep' = keep
      /\ Unattached(r)' <=> Unattached(r)
      /\ NotApplied(r)' <=> NotApplied(r)
      /\ Guarded(r) /\ Shaped
  BY <1>1, FallShape
<1>3. inst' = inst /\ host' = host /\ pc[r] \in {"setup", "unwind"}
      /\ (pc[r] = "setup" => "instance" \in held[r])
  BY <1>2 DEF Falling, DropGuard, DropAcl, DeleteAcl, Undeleted, daemon, Guarded
<1>4. /\ broken' = broken \/ broken' = broken \cup {r}
      /\ net' = net \/ net' = [net EXCEPT ![r] = @ \ {"acl"}]
      /\ Whole(r)' => "acl" \notin net'[r]
  <2>1. CASE keep[r] /\ UNCHANGED <<daemon, broken>>
    BY <1>2, <2>1 DEF Whole, daemon
  <2>2. CASE ~keep[r] /\ DeleteAcl(r) /\ broken' = broken
    BY <1>2, <2>2 DEF DeleteAcl, TypeOK, DaemonTypeOK
  <2>3. CASE ~keep[r] /\ Undeleted(r, AclDeletable(r))
    <3>1. Whole(r)' => Whole(r) /\ ~AclDeletable(r)
      BY <1>2, <2>3 DEF Undeleted, Whole
    <3>2. Whole(r) => "applied" \notin net[r]
      BY <1>2 DEF Falling, InTurn, Guarded, Whole
    <3>3. Whole(r)' => "acl" \notin net[r]
      BY <1>2, <3>1, <3>2 DEF AclDeletable
    <3>4. QED
      BY <2>3, <3>3 DEF Undeleted, daemon
  <2>4. QED
    BY <2>1, <2>2, <2>3 DEF Falling, DropGuard, DropAcl
<1>5. /\ net'[r] = net[r] \/ net'[r] = net[r] \ {"acl"}
      /\ \A q \in Runs \ {r} : net'[q] = net[q]
  BY <1>2, <1>4 DEF TypeOK, DaemonTypeOK
<1>6. Framed(r) /\ Shaped'
  BY <1>2, <1>3, <1>4, <1>5 DEF Framed, Frame, Less, Shaped, Exists
<1>7. Whole(r)' => Covered(r)'
  BY <1>1, <1>2, <1>3, <1>4, <1>5 DEF Whole, Covered, Guarded, HostPart, GuardsTypeOK, TypeOK
<1>8. Guarded(r)'
  BY <1>1, <1>2, <1>3, <1>5, <1>7, FallKeeps DEF Falling
<1>9. QED
  BY <1>6, <1>8

\* The proxies are aborted, and the CA directory is removed or its removal
\* failed by itself.
LEMMA HostFalls ==
  ASSUME NEW r \in Runs, NEW g \in HostPart, Falling(r, g)
  PROVE  Framed(r) /\ Guarded(r)' /\ Shaped'
<1>1. g \in Guard /\ g \notin {"instance", "bridge", "acl"}
  BY DEF Guard, HostPart
<1>2. /\ held'[r] = held[r] \ {g} /\ \A q \in Runs \ {r} : held'[q] = held[q]
      /\ TypeOK /\ pc' = pc /\ iso' = iso /\ order' = order /\ name' = name /\ keep' = keep
      /\ Unattached(r)' <=> Unattached(r)
      /\ NotApplied(r)' <=> NotApplied(r)
      /\ Guarded(r) /\ Shaped
  BY <1>1, FallShape
<1>3. /\ inst' = inst /\ net' = net /\ pc[r] \in {"setup", "unwind"}
      /\ pc[r] = "setup" => "instance" \in held[r]
      /\ broken' = broken \/ broken' = broken \cup {r}
      /\ \/ host' = [host EXCEPT ![r] = @ \ {g}]
         \/ host' = host /\ r \in broken'
  BY <1>1, <1>2 DEF Falling, DropGuard, DropProxy, DropCa, daemon, Guarded
<1>4. /\ \A q \in Runs \ {r} : host'[q] = host[q]
      /\ host'[r] = host[r] \ {g} \/ r \in broken'
  BY <1>2, <1>3 DEF TypeOK, GuardsTypeOK
<1>5. Framed(r) /\ Shaped'
  BY <1>2, <1>3, <1>4 DEF Framed, Frame, Less, Shaped, Exists
<1>6. Whole(r)' => Covered(r)'
  BY <1>1, <1>2, <1>3, <1>4 DEF Whole, Covered, Guarded
<1>7. Guarded(r)'
  BY <1>1, <1>2, <1>3, <1>6, FallKeeps DEF Falling
<1>8. QED
  BY <1>5, <1>7

LEMMA GuardFalls ==
  ASSUME NEW r \in Runs, NEW g \in Guard, Falling(r, g)
  PROVE  Framed(r) /\ Guarded(r)' /\ Shaped'
  BY InstanceFalls, BridgeFalls, AclFalls, HostFalls DEF Guard, HostPart

-----------------------------------------------------------------------------
\* Every step keeps LeakInv.

\* What is to be shown of a step of r.
LeakKept(r) == Framed(r) /\ Guarded(r)' /\ Shaped'

\* A step that changes neither the daemon nor a guard.
LEMMA QuietLeak ==
  ASSUME LeakInv, NEW r \in Runs, UNCHANGED <<daemon, guards, inputs>>,
         NEW p \in PC, pc' = [pc EXCEPT ![r] = p],
         \A q \in Runs \ {r} : iso'[q] = iso[q] /\ order'[q] = order[q],
         Unattached(r)' => Unattached(r),
         NotApplied(r)' => NotApplied(r),
         p \in {"create", "exited"} => held[r] = {},
         p \in {"setup", "attach", "start", "poll", "cert", "trust", "chown", "running"}
           => "instance" \in held[r],
         pc[r] = "killed" => p = "killed"
  PROVE  LeakKept(r)
<1>1. TypeOK /\ Guarded(r) /\ Shaped
  BY DEF LeakInv, NetInv, Shaped
<1>2. inst' = inst /\ net' = net /\ held' = held /\ host' = host /\ broken' = broken
  BY DEF daemon, guards
<1>3. Framed(r)
  BY <1>1, <1>2, FramedByLess DEF Less
<1>4. pc'[r] = p /\ name' = name /\ keep' = keep
  BY <1>1 DEF TypeOK, inputs
<1>5. Guarded(r)'
  BY <1>1, <1>2, <1>4 DEF Guarded
<1>6. QED
  BY <1>1, <1>2, <1>3, <1>5 DEF LeakKept, Shaped, Exists

LEMMA CreateLeak ==
  ASSUME LeakInv, NEW r \in Runs, Create(r)
  PROVE  LeakKept(r)
<1>1. /\ TypeOK /\ Guarded(r) /\ Shaped /\ pc[r] = "create" /\ held[r] = {}
      /\ iso[r] = "off" /\ name[r] \in Names /\ r # NoRun
  BY DaemonAssumption DEF LeakInv, NetInv, Shaped, Guarded, Create, Goto, StagesAgree,
                          TypeOK, GuardsTypeOK
<1>2. CASE Goto(r, "create", "exited") /\ UNCHANGED <<daemon, guards, isolation, order>>
  BY <1>1, <1>2, QuietLeak DEF Create, Goto, isolation, PC, Unattached, NotApplied, TypeOK
<1>3. CASE /\ Goto(r, "create", "setup")
           /\ InitInstance(r, name[r])
           /\ Acquire(r, "instance")
           /\ iso' = [iso EXCEPT ![r] = "network"]
           /\ UNCHANGED <<inputs, host, broken, order>>
  <2>1. /\ pc'[r] = "setup" /\ iso'[r] = "network" /\ held'[r] = {"instance"} /\ net' = net
        /\ host' = host /\ name' = name /\ keep' = keep /\ broken' = broken
    BY <1>1, <1>3 DEF Goto, Acquire, InitInstance, inputs, TypeOK, GuardsTypeOK, IsolationTypeOK
  <2>2. (\A q \in Runs \ {r} : Less(q)) /\ Shaped'
    BY <1>1, <1>3, <2>1, InstLess, InstShaped
  <2>3. Framed(r)
    BY <1>1, <1>3, <2>2, FramedByLess
       DEF Goto, PC, Acquire, TypeOK, GuardsTypeOK, IsolationTypeOK
  <2>4. \A n \in Names : inst'[n].nic # r /\ (inst'[n].owner = r => n = name[r])
    BY <1>1, <1>3 DEF InitInstance, Guarded, Unattached, Absent, TypeOK, DaemonTypeOK
  <2>5. NotApplied(r)' /\ "applied" \notin net'[r]
    BY <1>1, <2>1 DEF NotApplied, Guarded
  <2>6. Guarded(r)'
    BY <1>1, <2>1, <2>4, <2>5 DEF Guarded
  <2>7. QED
    BY <2>2, <2>3, <2>6 DEF LeakKept
<1>4. QED
  BY <1>2, <1>3 DEF Create

LEMMA OrdersDiffer == StateOrder # InitLocalsOrder
  BY DEF StateOrder, InitLocalsOrder, IsolationOrder, BridgeGuardOrder

\* Steps that only move the run on, or into unwinding.
LEMMA MoveLeak ==
  ASSUME LeakInv, NEW r \in Runs,
         \/ AddDevice(r) \/ Joined(r) \/ Poll(r) \/ Provision(r) \/ Leave(r)
         \/ Attach(r) /\ UNCHANGED daemon
         \/ Start(r) /\ UNCHANGED daemon
  PROVE  LeakKept(r)
<1>1. TypeOK /\ Guarded(r) /\ pc \in [Runs -> PC] /\ order \in [Runs -> {StateOrder, InitLocalsOrder}]
  BY DEF LeakInv, NetInv, TypeOK
<1>2. UNCHANGED <<daemon, guards, inputs>> /\ iso' = iso
  BY DEF AddDevice, FailBranch, Joined, Poll, Provision, Leave, Attach, Start, isolation
<1>3. \/ pc' = pc /\ order' = order
      \/ \E p \in {"attach", "start", "poll", "cert", "trust", "chown", "running"} :
           /\ pc' = [pc EXCEPT ![r] = p] /\ order' = order
           /\ pc[r] \in {"setup", "attach", "start", "poll", "cert", "trust", "chown"}
           /\ p = "attach" => pc[r] = "setup"
      \/ /\ pc' = [pc EXCEPT ![r] = "unwind"]
         /\ \/ order' = [order EXCEPT ![r] = InitLocalsOrder] /\ pc[r] \in {"setup", "attach"}
            \/ order' = [order EXCEPT ![r] = StateOrder] /\ pc[r] # "killed"
  BY DEF AddDevice, Joined, Poll, Provision, Leave, Attach, Start, Goto, Unwind
<1>4. (NotApplied(r)' => NotApplied(r)) /\ \A q \in Runs \ {r} : iso'[q] = iso[q]
  BY <1>2 DEF NotApplied
<1>5. CASE pc' = pc /\ order' = order
  <2>1. pc' = [pc EXCEPT ![r] = pc[r]] /\ pc[r] \in PC
    BY <1>1, <1>5
  <2>2. Unattached(r)' <=> Unattached(r)
    BY <1>5 DEF Unattached
  <2>3. QED
    BY <1>1, <1>2, <1>4, <1>5, <2>1, <2>2, QuietLeak DEF Guarded
<1>6. CASE \E p \in {"attach", "start", "poll", "cert", "trust", "chown", "running"} :
             /\ pc' = [pc EXCEPT ![r] = p] /\ order' = order
             /\ pc[r] \in {"setup", "attach", "start", "poll", "cert", "trust", "chown"}
             /\ p = "attach" => pc[r] = "setup"
  <2>1. PICK p \in {"attach", "start", "poll", "cert", "trust", "chown", "running"} :
          /\ pc' = [pc EXCEPT ![r] = p] /\ order' = order
          /\ pc[r] \in {"setup", "attach", "start", "poll", "cert", "trust", "chown"}
          /\ p = "attach" => pc[r] = "setup"
    BY <1>6
  <2>2. (Unattached(r)' => Unattached(r)) /\ p \in PC /\ "instance" \in held[r]
    BY <1>1, <2>1 DEF Unattached, PC, Guarded
  <2>3. QED
    BY <1>2, <1>4, <2>1, <2>2, QuietLeak
<1>7. CASE /\ pc' = [pc EXCEPT ![r] = "unwind"]
           /\ \/ order' = [order EXCEPT ![r] = InitLocalsOrder] /\ pc[r] \in {"setup", "attach"}
              \/ order' = [order EXCEPT ![r] = StateOrder] /\ pc[r] # "killed"
  <2>1. "unwind" \in PC /\ pc[r] # "killed" /\ \A q \in Runs \ {r} : order'[q] = order[q]
    BY <1>1, <1>7 DEF PC
  <2>2. Unattached(r)' => Unattached(r)
    BY <1>1, <1>7, OrdersDiffer DEF Unattached
  <2>3. QED
    BY <1>2, <1>4, <1>7, <2>1, <2>2, QuietLeak
<1>8. QED
  BY <1>3, <1>5, <1>6, <1>7

\* The instance's guard is held when it gets its NIC, and when it starts.
LEMMA LaunchLeak ==
  ASSUME LeakInv, NEW r \in Runs,
         \/ Attach(r) /\ AddNic(name[r], r) /\ Goto(r, "attach", "start")
         \/ Start(r) /\ StartInstance(name[r]) /\ Goto(r, "start", "poll")
  PROVE  LeakKept(r)
<1>1. /\ TypeOK /\ Guarded(r) /\ Shaped /\ name[r] \in Names /\ r # NoRun
      /\ "instance" \in held[r] /\ pc[r] \in {"attach", "start"} /\ iso[r] = "ok"
  BY DaemonAssumption DEF LeakInv, NetInv, Shaped, Guarded, StagesAgree, Goto, PC, TypeOK,
                          GuardsTypeOK
<1>2. /\ net' = net /\ held' = held /\ host' = host /\ broken' = broken /\ iso' = iso
      /\ name' = name /\ keep' = keep /\ UNCHANGED inputs
      /\ \A q \in Runs \ {r} : order'[q] = order[q]
  BY <1>1 DEF Attach, Start, AddNic, StartInstance, guards, isolation, inputs, Unwind, Goto, TypeOK
<1>3. PICK p \in {"start", "poll"} : pc' = [pc EXCEPT ![r] = p]
  BY DEF Goto
<1>4. (\A q \in Runs \ {r} : Less(q)) /\ Shaped'
  BY <1>1, <1>2, InstLess, InstShaped
<1>5. Framed(r)
  BY <1>1, <1>2, <1>3, <1>4, FramedByLess DEF PC
<1>6. \A n \in Names : r \in {inst'[n].owner, inst'[n].nic} =>
                          n = name[r] \/ r \in {inst[n].owner, inst[n].nic}
  BY <1>1 DEF AddNic, StartInstance, TypeOK, DaemonTypeOK, Instance
<1>7. pc'[r] = p /\ ~Unattached(r)' /\ ~NotApplied(r)'
  BY <1>1, <1>2, <1>3 DEF TypeOK, Unattached, NotApplied
<1>8. Guarded(r)'
  BY <1>1, <1>2, <1>6, <1>7 DEF Guarded
<1>9. QED
  BY <1>4, <1>5, <1>8 DEF LeakKept

\* A step of setup leaves the instances alone.
LEMMA SetupLeak ==
  ASSUME LeakInv, NEW r \in Runs, pc[r] = "setup", UNCHANGED <<inputs, pc, order>>,
         inst' = inst, broken' = broken,
         \A q \in Runs \ {r} : /\ iso'[q] = iso[q] /\ net'[q] = net[q]
                               /\ held'[q] = held[q] /\ host'[q] = host[q],
         "instance" \in held'[r],
         net'[r] \subseteq {"acl"} \/ "bridge" \in net'[r],
         NotApplied(r)' => "applied" \notin net'[r],
         Whole(r) => net'[r] \cap {"bridge", "acl"} \subseteq held'[r] /\ host'[r] \subseteq held'[r]
  PROVE  LeakKept(r)
<1>1. TypeOK /\ Guarded(r) /\ Shaped
  BY DEF LeakInv, NetInv, Shaped
<1>2. pc' = [pc EXCEPT ![r] = "setup"] /\ "setup" \in PC /\ name' = name /\ keep' = keep
  BY <1>1 DEF TypeOK, PC, inputs
<1>3. Framed(r)
  BY <1>1, <1>2, FramedByLess DEF Less
<1>4. \A n \in Names : inst[n].nic # r
  BY <1>1 DEF Guarded, Unattached
<1>5. Guarded(r)'
  BY <1>1, <1>2, <1>4 DEF Guarded, Whole
<1>6. QED
  BY <1>1, <1>3, <1>5 DEF LeakKept, Shaped, Exists

\* Steps of setup that touch neither the network nor a guard.
LEMMA IdleSetupLeak ==
  ASSUME LeakInv, NEW r \in Runs, SetupIsolation(r), UNCHANGED <<inst, net, guards>>
  PROVE  LeakKept(r)
<1>1. TypeOK /\ Guarded(r) /\ pc[r] = "setup" /\ UNCHANGED <<inputs, pc, order>>
  BY DEF LeakInv, NetInv, SetupIsolation
<1>2. (\A q \in Runs \ {r} : iso'[q] = iso[q]) /\ (NotApplied(r)' => NotApplied(r))
  BY <1>1 DEF SetupIsolation, IsolationStep, CreateBridge, GetSubnet, CreateAcl, AddRule,
              SetDnsmasq, BridgeConfigured, SetDefaultReject, AttachAcl, ResolveSecrets,
              CreateCaDir, GenerateCa, SpawnProxies, WaitUntilReady, UnwindIsolation,
              FailBranch, IsoGoto, isolation, NotApplied, TypeOK, IsolationTypeOK
<1>3. QED
  BY <1>1, <1>2, SetupLeak DEF guards, Guarded, Whole

\* Steps of setup that add `part` to the network: with its guard, if it has one.
LEMMA NetSetupLeak ==
  ASSUME LeakInv, NEW r \in Runs, SetupIsolation(r),
         CreateBridge(r) \/ CreateAcl(r) \/ SetDnsmasq(r) \/ SetDefaultReject(r) \/ AttachAcl(r),
         net' # net
  PROVE  LeakKept(r)
<1>1. /\ TypeOK /\ Guarded(r) /\ pc[r] = "setup" /\ UNCHANGED <<inputs, pc, order>>
      /\ "instance" \in held[r]
  BY DEF LeakInv, NetInv, SetupIsolation, Guarded
<1>2. PICK part \in NetPart :
        /\ net' = [net EXCEPT ![r] = @ \cup {part}]
        /\ part \in {"bridge", "acl"} \/ "bridge" \in net[r]
        /\ held' = IF part \in {"bridge", "acl"} THEN [held EXCEPT ![r] = @ \cup {part}] ELSE held
        /\ part = "applied" => iso' = [iso EXCEPT ![r] = "secrets"]
  BY DEF CreateBridge, CreateAcl, SetDnsmasq, SetDefaultReject, AttachAcl, CreateNetwork,
         CreateNetworkAcl, SetNetworkDnsmasq, SetEgressReject, ApplyAcl, Configure, Acquire,
         FailBranch, NoEffect, daemon, guards, NetPart, IsoGoto
<1>3. inst' = inst /\ host' = host /\ broken' = broken
  BY DEF CreateBridge, CreateAcl, SetDnsmasq, SetDefaultReject, AttachAcl, CreateNetwork,
         CreateNetworkAcl, SetNetworkDnsmasq, SetEgressReject, ApplyAcl, Configure,
         FailBranch, NoEffect, daemon, guards
<1>4. (\A q \in Runs \ {r} : iso'[q] = iso[q]) /\ (NotApplied(r)' => NotApplied(r))
  BY <1>1 DEF CreateBridge, CreateAcl, SetDnsmasq, SetDefaultReject, AttachAcl, FailBranch,
              IsoGoto, NotApplied, TypeOK, IsolationTypeOK
<1>5. /\ net'[r] = net[r] \cup {part} /\ \A q \in Runs \ {r} : net'[q] = net[q]
      /\ held[r] \subseteq held'[r] /\ \A q \in Runs \ {r} : held'[q] = held[q]
      /\ part \in {"bridge", "acl"} => part \in held'[r]
  BY <1>1, <1>2 DEF TypeOK, DaemonTypeOK, GuardsTypeOK
<1>6. net'[r] \subseteq {"acl"} \/ "bridge" \in net'[r]
  BY <1>1, <1>2, <1>5 DEF Guarded
<1>7. NotApplied(r)' => "applied" \notin net'[r]
  <2>1. CASE part = "applied"
    BY <1>1, <1>2, <2>1 DEF NotApplied, TypeOK, IsolationTypeOK
  <2>2. CASE part # "applied"
    BY <1>1, <1>4, <1>5, <2>2 DEF Guarded
  <2>3. QED
    BY <2>1, <2>2
<1>8. Whole(r) => net'[r] \cap {"bridge", "acl"} \subseteq held'[r] /\ host'[r] \subseteq held'[r]
  BY <1>1, <1>3, <1>5 DEF Guarded, Whole
<1>9. QED
  BY <1>1, <1>3, <1>4, <1>5, <1>6, <1>7, <1>8, SetupLeak

\* Steps of setup that put something on the host: with its guard.
LEMMA HostSetupLeak ==
  ASSUME LeakInv, NEW r \in Runs, SetupIsolation(r),
         CreateCaDir(r) \/ SpawnProxies(r), host' # host
  PROVE  LeakKept(r)
<1>1. /\ TypeOK /\ Guarded(r) /\ pc[r] = "setup" /\ UNCHANGED <<inputs, pc, order>>
      /\ "instance" \in held[r]
  BY DEF LeakInv, NetInv, SetupIsolation, Guarded
<1>2. PICK part \in HostPart :
        /\ host' = [host EXCEPT ![r] = @ \cup {part}]
        /\ held' = [held EXCEPT ![r] = @ \cup {part}]
  BY DEF CreateCaDir, SpawnProxies, Acquire, NoEffect, guards, HostPart
<1>3. /\ inst' = inst /\ net' = net /\ broken' = broken
      /\ (\A q \in Runs \ {r} : iso'[q] = iso[q]) /\ ~NotApplied(r)'
  BY <1>1 DEF CreateCaDir, SpawnProxies, NoEffect, daemon, guards, IsoGoto, NotApplied,
              TypeOK, IsolationTypeOK
<1>4. /\ held'[r] = held[r] \cup {part} /\ host'[r] = host[r] \cup {part}
      /\ \A q \in Runs \ {r} : held'[q] = held[q] /\ host'[q] = host[q]
  BY <1>1, <1>2 DEF TypeOK, GuardsTypeOK
<1>5. QED
  BY <1>1, <1>3, <1>4, SetupLeak DEF Guarded, Whole

\* The orders in which guards fall are ones the daemon can follow.
LEMMA SetupFallsInTurn ==
  ASSUME LeakInv, NEW r \in Runs, pc[r] = "setup", iso[r] \in {"failBridge", "failSetup"},
         NEW g \in Guard, Falls(r, FailOrder(r), g)
  PROVE  InTurn(r, g)
<1>1. g \in held[r] /\ Unattached(r)
  BY DEF Falls, Unattached
<1>2. g = "acl" => "bridge" \notin held[r] \/ NotApplied(r)
  <2>1. CASE iso[r] = "failBridge"
    BY <2>1 DEF NotApplied
  <2>2. CASE iso[r] # "failBridge"
    BY <2>2 DEF Falls, FailOrder, IsolationOrder, BridgeGuardOrder
  <2>3. QED
    BY <2>1, <2>2
<1>3. QED
  BY <1>1, <1>2 DEF InTurn

LEMMA TeardownFallsInTurn ==
  ASSUME LeakInv, NEW r \in Runs, pc[r] = "unwind",
         NEW g \in Guard, Falls(r, order[r], g)
  PROVE  InTurn(r, g)
<1>1. g \in held[r] /\ order[r] \in {StateOrder, InitLocalsOrder}
  BY DEF Falls, LeakInv, NetInv, TypeOK
<1>2. CASE order[r] = StateOrder
  <2>1. g = "bridge" => "instance" \notin held[r]
    BY <1>2 DEF Falls, StateOrder, IsolationOrder, BridgeGuardOrder
  <2>2. g = "acl" => "bridge" \notin held[r]
    BY <1>2 DEF Falls, StateOrder, IsolationOrder, BridgeGuardOrder
  <2>3. QED
    BY <1>1, <2>1, <2>2 DEF InTurn
<1>3. CASE order[r] = InitLocalsOrder
  <2>1. Unattached(r)
    BY <1>3 DEF Unattached
  <2>2. g = "acl" => "bridge" \notin held[r]
    BY <1>3 DEF Falls, InitLocalsOrder, IsolationOrder, BridgeGuardOrder
  <2>3. QED
    BY <1>1, <2>1, <2>2 DEF InTurn
<1>4. QED
  BY <1>1, <1>2, <1>3

LEMMA UnwindSetupLeak ==
  ASSUME LeakInv, NEW r \in Runs, SetupIsolation(r), UnwindIsolation(r)
  PROVE  LeakKept(r)
<1>1. pc[r] = "setup" /\ UNCHANGED <<inputs, pc, devices, polls, order>>
  BY DEF SetupIsolation
<1>2. CASE NoEffect
  BY <1>2, IdleSetupLeak DEF NoEffect, daemon
<1>3. CASE /\ \E g \in Guard : Falls(r, FailOrder(r), g) /\ DropGuard(r, g)
           /\ UNCHANGED isolation
  <2>1. PICK g \in Guard : Falls(r, FailOrder(r), g) /\ DropGuard(r, g)
    BY <1>3
  <2>2. InTurn(r, g) /\ g # "instance"
    BY <1>1, <2>1, SetupFallsInTurn, SetupDropsNoInstance DEF UnwindIsolation
  <2>3. Falling(r, g)
    BY <1>1, <1>3, <2>1, <2>2 DEF Falling
  <2>4. QED
    BY <2>3, GuardFalls DEF LeakKept
<1>4. QED
  BY <1>2, <1>3 DEF UnwindIsolation

LEMMA SetupIsolationLeak ==
  ASSUME LeakInv, NEW r \in Runs, SetupIsolation(r)
  PROVE  LeakKept(r)
<1>1. CASE CreateBridge(r) \/ CreateAcl(r) \/ SetDnsmasq(r) \/ SetDefaultReject(r) \/ AttachAcl(r)
  <2>1. CASE net' # net
    BY <1>1, <2>1, NetSetupLeak
  <2>2. CASE net' = net
    <3>1. ASSUME NEW part \in {"bridge", "dnsmasq", "reject", "applied", "acl"},
                 NEW needed, Configure(r, part, needed)
          PROVE  FALSE
      BY <2>2, <3>1 DEF Configure, LeakInv, NetInv, TypeOK, DaemonTypeOK
    <3>2. UNCHANGED <<inst, net, guards>>
      BY <1>1, <3>1 DEF CreateBridge, CreateAcl, SetDnsmasq, SetDefaultReject, AttachAcl,
            CreateNetwork, CreateNetworkAcl, SetNetworkDnsmasq, SetEgressReject, ApplyAcl,
            FailBranch, NoEffect, daemon, guards
    <3>3. QED
      BY <3>2, IdleSetupLeak
  <2>3. QED
    BY <2>1, <2>2
<1>2. CASE CreateCaDir(r) \/ SpawnProxies(r)
  <2>1. CASE host' # host
    BY <1>2, <2>1, HostSetupLeak
  <2>2. CASE host' = host
    <3>1. /\ TypeOK /\ Guarded(r) /\ pc[r] = "setup" /\ UNCHANGED <<inputs, pc, order>>
          /\ "instance" \in held[r]
      BY DEF LeakInv, NetInv, SetupIsolation, Guarded
    <3>2. /\ inst' = inst /\ net' = net /\ broken' = broken
          /\ (\A q \in Runs \ {r} : iso'[q] = iso[q]) /\ ~NotApplied(r)'
          /\ held[r] \subseteq held'[r] /\ \A q \in Runs \ {r} : held'[q] = held[q]
      BY <1>2, <3>1 DEF CreateCaDir, SpawnProxies, NoEffect, daemon, guards, IsoGoto,
                        NotApplied, Acquire, TypeOK, IsolationTypeOK, GuardsTypeOK
    <3>3. QED
      BY <2>2, <3>1, <3>2, SetupLeak DEF Guarded, Whole
  <2>3. QED
    BY <2>1, <2>2
<1>3. CASE \/ GetSubnet(r) \/ AddRule(r) \/ BridgeConfigured(r) \/ ResolveSecrets(r)
           \/ GenerateCa(r) \/ WaitUntilReady(r)
  <2>1. UNCHANGED <<inst, net, guards>>
    BY <1>3 DEF GetSubnet, AddRule, BridgeConfigured, ResolveSecrets, GenerateCa,
                WaitUntilReady, NoEffect, FailBranch, AddAclRule, daemon
  <2>2. QED
    BY <2>1, IdleSetupLeak
<1>4. QED
  BY <1>1, <1>2, <1>3, UnwindSetupLeak DEF SetupIsolation, IsolationStep

LEMMA TeardownLeak ==
  ASSUME LeakInv, NEW r \in Runs, Teardown(r)
  PROVE  LeakKept(r)
<1>1. TypeOK /\ pc[r] = "unwind" /\ UNCHANGED <<inputs, isolation, devices, polls, order>>
  BY DEF LeakInv, NetInv, Teardown, Goto
<1>2. CASE (\E g \in Guard : Falls(r, order[r], g) /\ DropGuard(r, g)) /\ UNCHANGED pc
  <2>1. PICK g \in Guard : Falls(r, order[r], g) /\ DropGuard(r, g)
    BY <1>2
  <2>2. Falling(r, g)
    BY <1>1, <1>2, <2>1, TeardownFallsInTurn DEF Falling
  <2>3. QED
    BY <2>2, GuardFalls DEF LeakKept
<1>3. CASE held[r] = {} /\ Goto(r, "unwind", "exited") /\ UNCHANGED <<daemon, guards>>
  <2>1. "exited" \in PC /\ pc' = [pc EXCEPT ![r] = "exited"] /\ pc'[r] = "exited"
    BY <1>1, <1>3 DEF Goto, PC, TypeOK
  <2>2. ~Unattached(r)' /\ (NotApplied(r)' <=> NotApplied(r))
    BY <1>1, <2>1 DEF Unattached, NotApplied, isolation
  <2>3. QED
    BY <1>1, <1>3, <2>1, <2>2, QuietLeak DEF isolation
<1>4. QED
  BY <1>2, <1>3 DEF Teardown

LEMMA KillLeak ==
  ASSUME LeakInv, NEW r \in Runs, Kill(r)
  PROVE  LeakKept(r)
<1>1. TypeOK /\ Guarded(r) /\ Shaped
  BY DEF LeakInv, NetInv, Shaped
<1>2. /\ pc' = [pc EXCEPT ![r] = "killed"] /\ "killed" \in PC /\ pc'[r] = "killed"
      /\ inst' = inst /\ net' = net /\ broken' = broken /\ iso' = iso /\ order' = order
      /\ name' = name /\ keep' = keep /\ UNCHANGED inputs
      /\ \A q \in Runs \ {r} : held'[q] = held[q] /\ host'[q] = host[q]
  BY <1>1 DEF Kill, Abandon, PC, daemon, inputs, isolation, TypeOK, GuardsTypeOK
<1>3. Framed(r)
  BY <1>1, <1>2, FramedByLess DEF Less
<1>4. ~Unattached(r)' /\ (NotApplied(r)' <=> NotApplied(r))
  BY <1>2 DEF Unattached, NotApplied
<1>5. Guarded(r)'
  BY <1>1, <1>2, <1>4 DEF Guarded
<1>6. QED
  BY <1>1, <1>2, <1>3, <1>5 DEF LeakKept, Shaped, Exists

\* An instance that is deleted takes its NIC with it.
LEMMA DisappearLeak ==
  ASSUME LeakInv, NetInv', NEW n \in Names, Disappear(n)
  PROVE  LeakInv'
<1>1. TypeOK /\ Shaped /\ DeleteInstance(n)
  BY DEF LeakInv, NetInv, Shaped, Disappear
<1>2. \A m \in Names : inst'[m] = IF m = n THEN Absent ELSE inst[m]
  BY <1>1 DEF DeleteInstance, TypeOK, DaemonTypeOK
<1>3. ASSUME NEW q \in Runs
      PROVE  Guarded(q)'
  <2>1. Less(q)
    BY <1>1, <1>2, DaemonAssumption DEF Less, Absent, DeleteInstance
  <2>2. Frame(q)
    BY <2>1 DEF Frame, Disappear, inputs, guards, isolation
  <2>3. QED
    BY <2>2, FrameKeeps DEF LeakInv
<1>4. Shaped'
  BY <1>1, <1>2 DEF Shaped, Exists
<1>5. QED
  BY <1>3, <1>4 DEF LeakInv, Shaped

LEMMA InitLeakInv == Init => LeakInv
<1> SUFFICES ASSUME Init PROVE LeakInv
  OBVIOUS
<1>1. NetInv
  BY InitNetInv
<1>2. \A n \in Names : inst[n] = Absent
  BY DEF Init, DaemonInit
<1>3. ASSUME NEW r \in Runs
      PROVE  Guarded(r)
  <2>1. pc[r] = "create" /\ held[r] = {} /\ host[r] = {} /\ net[r] = {}
    BY DEF Init, DaemonInit, GuardsInit
  <2>2. QED
    BY <1>2, <2>1, DaemonAssumption DEF Guarded, Absent
<1>4. QED
  BY <1>1, <1>2, <1>3 DEF LeakInv

LEMMA NextLeakInv == LeakInv /\ [Next]_vars => LeakInv'
<1> SUFFICES ASSUME LeakInv, [Next]_vars PROVE LeakInv'
  OBVIOUS
<1>1. NetInv'
  BY NextNetInv DEF LeakInv
<1>2. ASSUME NEW r \in Runs, Step(r) \/ Leave(r) \/ Kill(r)
      PROVE  LeakInv'
  <2>1. Attach(r) => \/ UNCHANGED daemon
                     \/ AddNic(name[r], r) /\ Goto(r, "attach", "start")
    BY DEF Attach
  <2>2. Start(r) => \/ UNCHANGED daemon
                    \/ StartInstance(name[r]) /\ Goto(r, "start", "poll")
    BY DEF Start
  <2>3. LeakKept(r)
    BY <1>2, <2>1, <2>2, CreateLeak, SetupIsolationLeak, MoveLeak, LaunchLeak, TeardownLeak,
       KillLeak DEF Step
  <2>4. QED
    BY <1>1, <2>3, LeakStep DEF LeakKept
<1>3. CASE UNCHANGED vars
  <2>1. \A q \in Runs : Frame(q)
    BY <1>3 DEF Frame, Less, vars, daemon, inputs, guards, isolation
  <2>2. \A q \in Runs : Guarded(q)'
    BY <2>1, FrameKeeps DEF LeakInv
  <2>3. QED
    BY <1>1, <1>3, <2>2 DEF LeakInv, vars, daemon, Exists
<1>4. QED
  BY <1>1, <1>2, <1>3, DisappearLeak DEF Next, Finished

LEMMA LeakFree == LeakInv => NoLeak
<1> SUFFICES ASSUME LeakInv, NEW r \in Runs, pc[r] = "exited", ~keep[r], r \notin broken
             PROVE  net[r] = {} /\ host[r] = {} /\ \A n \in Names : inst[n].owner # r
  BY DEF NoLeak
<1>1. Guarded(r) /\ held[r] = {}
  BY DEF LeakInv, Guarded
<1>2. QED
  BY <1>1 DEF Guarded

\* In every reachable state what the daemon and the host have of a run has a
\* guard, unless the run was killed, keeps its instance, or a deletion failed by
\* itself: for any number of runs, whoever kills them and deletes instances.
THEOREM LeakInvariant == Spec => []LeakInv
  BY InitLeakInv, NextLeakInv, PTL DEF Spec

\* So a run that has exited has left nothing behind: no bridge, no ACL, no
\* instance, no proxy and no CA directory.
THEOREM NothingLeaks == Spec => []NoLeak
  BY LeakFree, LeakInvariant, PTL

-----------------------------------------------------------------------------
\* Part 4: every run is a sandbox, while no instance disappears under a live
\* run.

RefInv == OwnerInv /\ LeakInv

\* What a step may be of the sandbox of r.
Shown(r) ==
  \/ BoxOf(r)' = BoxOf(r) /\ WallsOf(r)' = WallsOf(r) /\ OverOf(r)' = OverOf(r)
  \/ /\ OverOf(r) = "no" /\ BoxOf(r) = "unmade" /\ BoxOf(r)' = "down"
     /\ WallsOf(r)' = WallsOf(r) /\ OverOf(r)' = OverOf(r)
  \/ /\ OverOf(r) = "no" /\ BoxOf(r) # "up"
     /\ BoxOf(r)' = BoxOf(r) /\ OverOf(r)' = OverOf(r)
  \/ /\ OverOf(r) = "no" /\ BoxOf(r) = "down" /\ WallsOf(r) = "closed" /\ BoxOf(r)' = "up"
     /\ WallsOf(r)' = WallsOf(r) /\ OverOf(r)' = OverOf(r)
  \/ /\ BoxOf(r) \in {"down", "up"} /\ BoxOf(r)' = "gone"
     /\ WallsOf(r)' = WallsOf(r) /\ OverOf(r)' = OverOf(r)
  \/ /\ OverOf(r) = "no" /\ OverOf(r)' # "no"
     /\ BoxOf(r)' = IF BoxOf(r) = "unmade" THEN "gone" ELSE BoxOf(r)
     /\ OverOf(r)' = "clean" => BoxOf(r)' = "gone" /\ WallsOf(r) = "none"
     /\ WallsOf(r)' = WallsOf(r)

Unseen(q) == BoxOf(q)' = BoxOf(q) /\ WallsOf(q)' = WallsOf(q) /\ OverOf(q)' = OverOf(q)

LEMMA ShownIsStep ==
  ASSUME NEW r \in Runs, \A q \in Runs \ {r} : Unseen(q), Shown(r)
  PROVE  [SB!SNext]_(SB!sandboxVars)
<1> DEFINE b == [q \in Runs |-> BoxOf(q)]
           w == [q \in Runs |-> WallsOf(q)]
           o == [q \in Runs |-> OverOf(q)]
<1>1. /\ b' = [b EXCEPT ![r] = BoxOf(r)']
      /\ w' = [w EXCEPT ![r] = WallsOf(r)']
      /\ o' = [o EXCEPT ![r] = OverOf(r)']
  BY DEF Unseen
<1>2. /\ BoxOf(r)' = BoxOf(r) => b' = b
      /\ WallsOf(r)' = WallsOf(r) => w' = w
      /\ OverOf(r)' = OverOf(r) => o' = o
  BY DEF Unseen
<1>3. b[r] = BoxOf(r) /\ w[r] = WallsOf(r) /\ o[r] = OverOf(r) /\ b'[r] = BoxOf(r)'
  OBVIOUS
<1>4. WallsOf(r)' \in SB!Walls /\ OverOf(r)' \in SB!Over
  BY DEF WallsOf, OverOf, SB!Walls, SB!Over
<1> HIDE DEF b, w, o
<1>5. \/ b' = b /\ w' = w /\ o' = o
      \/ SB!Make(r) \/ SB!Rebuild(r) \/ SB!Raise(r) \/ SB!Remove(r) \/ SB!End(r)
  BY <1>1, <1>2, <1>3, <1>4 DEF Shown, SB!Make, SB!Rebuild, SB!Raise, SB!Remove, SB!End, b, w, o
<1>6. QED
  BY <1>5 DEF SB!SNext, SB!sandboxVars, b, w, o

\* Another run sees nothing of a step of r: at most r's own instance changes, or
\* a free name is taken or freed.
LEMMA OthersUnseen ==
  ASSUME TypeOK, NEW r \in Runs, NEW q \in Runs \ {r}, UNCHANGED inputs,
         \A n \in Names : \/ inst'[n] = inst[n]
                          \/ inst[n].owner \in {r, NoRun} /\ inst'[n].owner \in {r, NoRun},
         pc'[q] = pc[q], net'[q] = net[q], rules'[q] = rules[q],
         q \in broken' <=> q \in broken
  PROVE  Unseen(q)
<1>1. name[q] \in Names /\ name' = name /\ keep' = keep /\ q # NoRun
  BY DaemonAssumption DEF TypeOK, GuardsTypeOK, inputs
<1>2. Mine(q)' <=> Mine(q)
  BY <1>1 DEF Mine
<1>3. Mine(q) => inst'[name[q]] = inst[name[q]]
  BY <1>1 DEF Mine
<1>4. BoxOf(q)' = BoxOf(q)
  BY <1>1, <1>2, <1>3 DEF BoxOf
<1>5. WallsOf(q)' = WallsOf(q) /\ OverOf(q)' = OverOf(q)
  BY <1>1 DEF WallsOf, Secured, OverOf
<1>6. QED
  BY <1>4, <1>5 DEF Unseen

\* What a step of r is, seen from outside.
Seen(r) == Shown(r) /\ \A q \in Runs \ {r} : Unseen(q)

\* What is known of r before any of its steps.
LEMMA RefFacts ==
  ASSUME RefInv, NEW r \in Runs
  PROVE  /\ TypeOK /\ Owns(r) /\ Guarded(r) /\ NicIsOwn /\ BridgeBuilt(r)
         /\ name[r] \in Names /\ r # NoRun
         /\ BoxOf(r) = "up" => inst[name[r]].nic = r /\ Secured(r)
<1>1. /\ TypeOK /\ Owns(r) /\ Guarded(r) /\ NicIsOwn /\ BridgeBuilt(r) /\ NicIsConfined
      /\ name[r] \in Names /\ r # NoRun
  BY DaemonAssumption DEF RefInv, OwnerInv, NetInv, LeakInv, TypeOK, GuardsTypeOK
<1>2. ASSUME BoxOf(r) = "up"
      PROVE  inst[name[r]].nic = r /\ Secured(r)
  <2>1. inst[name[r]].owner = r /\ inst[name[r]].up
    BY <1>2 DEF BoxOf, Mine
  <2>2. inst[name[r]].nic = r
    BY <1>1, <2>1 DEF NicIsOwn
  <2>3. QED
    BY <1>1, <2>2 DEF NicIsConfined
<1>3. QED
  BY <1>1, <1>2

LEMMA CreateSeen ==
  ASSUME RefInv, NEW r \in Runs, Create(r)
  PROVE  Seen(r)
<1>1. /\ TypeOK /\ name[r] \in Names /\ r # NoRun /\ pc[r] = "create"
      /\ UNCHANGED inputs /\ name' = name /\ keep' = keep
  BY RefFacts DEF Create, Goto, inputs
<1>2. /\ broken' = broken /\ net' = net /\ rules' = rules
      /\ \A q \in Runs \ {r} : pc'[q] = pc[q]
  BY <1>1 DEF Create, Goto, InitInstance, guards, daemon, TypeOK
<1>3. \A n \in Names : \/ inst'[n] = inst[n]
                       \/ inst[n].owner \in {r, NoRun} /\ inst'[n].owner \in {r, NoRun}
  BY <1>1 DEF Create, InitInstance, Exists, Absent, daemon, TypeOK, DaemonTypeOK
<1>4. \A q \in Runs \ {r} : Unseen(q)
  BY <1>1, <1>2, <1>3, OthersUnseen
<1>5. WallsOf(r)' = WallsOf(r) /\ OverOf(r) = "no"
  BY <1>1, <1>2 DEF WallsOf, Secured, OverOf
<1>6. CASE Goto(r, "create", "setup") /\ InitInstance(r, name[r])
  <2>1. BoxOf(r) = "unmade"
    BY <1>1, <1>6 DEF BoxOf, Mine, InitInstance, Exists
  <2>2. BoxOf(r)' = "down"
    BY <1>1, <1>6 DEF BoxOf, Mine, InitInstance, Absent, TypeOK, DaemonTypeOK
  <2>3. OverOf(r)' = "no"
    BY <1>1, <1>6 DEF OverOf, Goto, TypeOK
  <2>4. QED
    BY <1>4, <1>5, <2>1, <2>2, <2>3 DEF Seen, Shown
<1>7. CASE Goto(r, "create", "exited") /\ UNCHANGED <<daemon, guards>>
  <2>1. pc'[r] = "exited" /\ inst' = inst
    BY <1>1, <1>7 DEF Goto, TypeOK, daemon
  <2>2. BoxOf(r)' = IF BoxOf(r) = "unmade" THEN "gone" ELSE BoxOf(r)
    BY <1>1, <2>1 DEF BoxOf, Mine
  <2>3. OverOf(r)' # "no" /\ (OverOf(r)' = "clean" => BoxOf(r)' = "gone" /\ WallsOf(r) = "none")
    <3>1. ~keep[r] /\ r \notin broken => net[r] = {} /\ inst[name[r]].owner # r
      BY <1>1, RefFacts DEF Guarded
    <3>2. QED
      BY <1>1, <1>2, <2>1, <3>1 DEF OverOf, BoxOf, Mine, WallsOf
  <2>4. QED
    BY <1>4, <1>5, <2>2, <2>3 DEF Seen, Shown
<1>8. QED
  BY <1>6, <1>7 DEF Create

\* The network changes, or nothing does, while the instance is not up.
LEMMA RebuildSeen ==
  ASSUME RefInv, NEW r \in Runs, inst' = inst, UNCHANGED <<inputs, pc>>,
         pc[r] \in {"setup", "unwind"},
         \A q \in Runs \ {r} : /\ net'[q] = net[q] /\ rules'[q] = rules[q]
                               /\ q \in broken' <=> q \in broken,
         BoxOf(r) # "up" \/ (net' = net /\ rules' = rules)
  PROVE  Seen(r)
<1>1. TypeOK /\ name' = name /\ keep' = keep
  BY RefFacts DEF inputs
<1>2. \A q \in Runs \ {r} : Unseen(q)
  BY <1>1, OthersUnseen
<1>3. BoxOf(r)' = BoxOf(r) /\ OverOf(r)' = "no" /\ OverOf(r) = "no"
  BY <1>1 DEF BoxOf, Mine, OverOf
<1>4. net' = net /\ rules' = rules => WallsOf(r)' = WallsOf(r)
  BY DEF WallsOf, Secured
<1>5. QED
  BY <1>2, <1>3, <1>4 DEF Seen, Shown

LEMMA SetupSeen ==
  ASSUME RefInv, NEW r \in Runs, SetupIsolation(r)
  PROVE  Seen(r)
<1>1. pc[r] = "setup" /\ inst' = inst /\ UNCHANGED <<inputs, pc>>
  BY SetupTouches DEF SetupIsolation
<1>2. BoxOf(r) # "up"
  BY <1>1, RefFacts DEF Guarded, Unattached
<1>3. SetupKeeps(r)
  BY SetupKept DEF RefInv, OwnerInv
<1>4. \A q \in Runs \ {r} : q \in broken' <=> q \in broken
  BY SetupIsolationLeak DEF RefInv, LeakKept, Framed, Frame
<1>5. QED
  BY <1>1, <1>2, <1>3, <1>4, RebuildSeen DEF SetupKeeps, Gentle, NetOnly

\* Steps that no other run, and nobody outside, sees.
LEMMA MoveSeen ==
  ASSUME RefInv, NEW r \in Runs,
         \/ AddDevice(r) \/ Joined(r) \/ Poll(r) \/ Provision(r) \/ Leave(r)
         \/ Attach(r)
         \/ Start(r) /\ UNCHANGED daemon
  PROVE  Seen(r)
<1>1. /\ TypeOK /\ Owns(r) /\ name[r] \in Names /\ r # NoRun /\ pc \in [Runs -> PC]
  BY RefFacts DEF TypeOK
<1>2. UNCHANGED inputs /\ name' = name /\ keep' = keep /\ broken' = broken
      /\ net' = net /\ rules' = rules
  BY DEF AddDevice, FailBranch, Joined, Poll, Provision, Leave, Attach, Start, AddNic, inputs,
         guards, daemon
<1>3. /\ \A q \in Runs \ {r} : pc'[q] = pc[q]
      /\ pc[r] \notin {"create", "exited", "killed"}
      /\ pc'[r] \notin {"create", "exited", "killed"}
  BY <1>1 DEF AddDevice, Joined, Poll, Provision, Leave, Attach, Start, Goto, Unwind
<1>4. inst' = inst \/ (Attach(r) /\ AddNic(name[r], r))
  BY DEF AddDevice, FailBranch, Joined, Poll, Provision, Leave, Attach, Start, daemon
<1>5. /\ \A n \in Names : \/ inst'[n] = inst[n]
                          \/ inst[n].owner \in {r, NoRun} /\ inst'[n].owner \in {r, NoRun}
      /\ inst'[name[r]].owner = inst[name[r]].owner /\ inst'[name[r]].up = inst[name[r]].up
  <2>1. CASE Attach(r) /\ AddNic(name[r], r)
    <3>1. inst[name[r]].owner = r
      BY <1>1, <2>1 DEF Owns, Attach, Goto, Unwind
    <3>2. QED
      BY <1>1, <2>1, <3>1 DEF AddNic, TypeOK, DaemonTypeOK, Instance
  <2>2. QED
    BY <1>4, <2>1
<1>6. \A q \in Runs \ {r} : Unseen(q)
  BY <1>1, <1>2, <1>3, <1>5, OthersUnseen
<1>7. BoxOf(r)' = BoxOf(r) /\ WallsOf(r)' = WallsOf(r) /\ OverOf(r)' = OverOf(r)
  BY <1>2, <1>3, <1>5 DEF BoxOf, Mine, WallsOf, Secured, OverOf
<1>8. QED
  BY <1>6, <1>7 DEF Seen, Shown

\* The instance starts behind closed walls.
LEMMA StartSeen ==
  ASSUME RefInv, NEW r \in Runs, Start(r), StartInstance(name[r]), Goto(r, "start", "poll")
  PROVE  Seen(r)
<1>1. /\ TypeOK /\ name[r] \in Names /\ r # NoRun /\ pc[r] = "start"
      /\ inst[name[r]].owner = r /\ inst[name[r]].nic = r /\ ~inst[name[r]].up
      /\ Secured(r)
  BY RefFacts DEF Owns, Goto, StartInstance, RefInv, OwnerInv, NetInv, NicIsConfined
<1>2. /\ UNCHANGED inputs /\ name' = name /\ keep' = keep /\ broken' = broken
      /\ net' = net /\ rules' = rules /\ pc'[r] = "poll"
      /\ \A q \in Runs \ {r} : pc'[q] = pc[q]
  BY <1>1 DEF Start, StartInstance, guards, inputs, Goto, TypeOK
<1>3. /\ \A n \in Names : \/ inst'[n] = inst[n]
                          \/ inst[n].owner \in {r, NoRun} /\ inst'[n].owner \in {r, NoRun}
      /\ inst'[name[r]].owner = r /\ inst'[name[r]].up
  BY <1>1 DEF StartInstance, TypeOK, DaemonTypeOK, Instance
<1>4. \A q \in Runs \ {r} : Unseen(q)
  BY <1>1, <1>2, <1>3, OthersUnseen
<1>5. BoxOf(r) = "down" /\ BoxOf(r)' = "up" /\ OverOf(r) = "no" /\ OverOf(r)' = "no"
  BY <1>1, <1>2, <1>3 DEF BoxOf, Mine, OverOf
<1>6. WallsOf(r) = "closed" /\ WallsOf(r)' = "closed"
  BY <1>1, <1>2 DEF WallsOf, Secured, NetPart
<1>7. QED
  BY <1>4, <1>5, <1>6 DEF Seen, Shown

\* The instance is removed; what is left of the network changes once the
\* instance is not up; and the run ends.
LEMMA TeardownSeen ==
  ASSUME RefInv, NEW r \in Runs, Teardown(r)
  PROVE  Seen(r)
<1>1. /\ TypeOK /\ Owns(r) /\ name[r] \in Names /\ r # NoRun /\ pc[r] = "unwind"
      /\ UNCHANGED inputs /\ name' = name /\ keep' = keep
  BY RefFacts DEF Teardown, Goto, inputs
<1>2. CASE (\E g \in Guard : Falls(r, order[r], g) /\ DropGuard(r, g)) /\ UNCHANGED pc
  <2>1. PICK g \in Guard : Falls(r, order[r], g) /\ DropGuard(r, g)
    BY <1>2
  <2>2. Gentle(r)
    BY <1>1, <2>1, DropGuardGentle DEF TypeOK
  <2>3. \A q \in Runs \ {r} : q \in broken' <=> q \in broken
    BY TeardownLeak DEF RefInv, LeakKept, Framed, Frame
  <2>4. CASE inst' = inst
    <3>1. BoxOf(r) # "up" \/ (net' = net /\ rules' = rules)
      <4>1. CASE BoxOf(r) = "up"
        <5>1. inst[name[r]].nic = r /\ net[r] = NetPart
          BY <4>1, RefFacts DEF Secured
        <5>2. ~DeleteNetwork(r) /\ ~DeleteAcl(r)
          BY <1>1, <5>1 DEF DeleteNetwork, NetworkDeletable, DeleteAcl, AclDeletable, NetPart
        <5>3. QED
          BY <2>1, <5>2 DEF DropGuard, DropInstance, DeleteInstance, DropBridge, DropAcl,
                            DropProxy, DropCa, Undeleted, daemon
      <4>2. QED
        BY <4>1
    <3>2. QED
      BY <1>1, <1>2, <2>2, <2>3, <2>4, <3>1, RebuildSeen DEF Gentle, NetOnly
  <2>5. CASE inst' # inst
    <3>1. g = "instance" /\ DeleteInstance(name[r]) /\ broken' = broken
      BY <2>1, <2>5 DEF DropGuard, DropInstance, DropBridge, DropAcl, DropProxy, DropCa,
                        Undeleted, DeleteNetwork, DeleteAcl, daemon
    <3>2. inst[name[r]].owner = r
      BY <1>1, <2>1, <3>1 DEF Owns, Falls
    <3>3. /\ \A n \in Names : \/ inst'[n] = inst[n]
                              \/ inst[n].owner \in {r, NoRun} /\ inst'[n].owner \in {r, NoRun}
          /\ inst'[name[r]].owner = NoRun /\ net' = net /\ rules' = rules
      BY <1>1, <3>1, <3>2 DEF DeleteInstance, Absent, TypeOK, DaemonTypeOK
    <3>4. \A q \in Runs \ {r} : Unseen(q)
      BY <1>1, <1>2, <3>1, <3>3, OthersUnseen
    <3>5. BoxOf(r) \in {"down", "up"} /\ BoxOf(r)' = "gone"
      BY <1>1, <1>2, <3>2, <3>3 DEF BoxOf, Mine
    <3>6. WallsOf(r)' = WallsOf(r) /\ OverOf(r)' = OverOf(r)
      BY <1>1, <1>2, <3>3 DEF WallsOf, Secured, OverOf
    <3>7. QED
      BY <3>4, <3>5, <3>6 DEF Seen, Shown
  <2>6. QED
    BY <2>4, <2>5
<1>3. CASE held[r] = {} /\ Goto(r, "unwind", "exited") /\ UNCHANGED <<daemon, guards>>
  <2>1. /\ inst' = inst /\ net' = net /\ rules' = rules /\ broken' = broken /\ pc'[r] = "exited"
        /\ \A q \in Runs \ {r} : pc'[q] = pc[q]
    BY <1>1, <1>3 DEF Goto, TypeOK, daemon, guards
  <2>2. \A q \in Runs \ {r} : Unseen(q)
    BY <1>1, <2>1, OthersUnseen
  <2>3. ~keep[r] /\ r \notin broken => net[r] = {} /\ inst[name[r]].owner # r
    BY <1>1, <1>3, RefFacts DEF Guarded
  <2>4. /\ BoxOf(r) # "unmade" /\ BoxOf(r)' = BoxOf(r) /\ WallsOf(r)' = WallsOf(r)
        /\ OverOf(r) = "no" /\ OverOf(r)' # "no"
    BY <1>1, <2>1 DEF BoxOf, Mine, WallsOf, Secured, OverOf
  <2>5. OverOf(r)' = "clean" => BoxOf(r)' = "gone" /\ WallsOf(r) = "none"
    BY <1>1, <2>1, <2>3 DEF BoxOf, Mine, WallsOf, OverOf
  <2>6. QED
    BY <2>2, <2>4, <2>5 DEF Seen, Shown
<1>4. QED
  BY <1>2, <1>3 DEF Teardown

LEMMA KillSeen ==
  ASSUME RefInv, NEW r \in Runs, Kill(r)
  PROVE  Seen(r)
<1>1. /\ TypeOK /\ UNCHANGED inputs /\ name' = name /\ keep' = keep
      /\ pc[r] \notin {"exited", "killed"} /\ pc'[r] = "killed"
      /\ \A q \in Runs \ {r} : pc'[q] = pc[q]
      /\ inst' = inst /\ net' = net /\ rules' = rules /\ broken' = broken
  BY RefFacts DEF Kill, Ended, Abandon, inputs, daemon, TypeOK
<1>2. \A q \in Runs \ {r} : Unseen(q)
  BY <1>1, OthersUnseen
<1>3. /\ BoxOf(r)' = IF BoxOf(r) = "unmade" THEN "gone" ELSE BoxOf(r)
      /\ WallsOf(r)' = WallsOf(r) /\ OverOf(r) = "no" /\ OverOf(r)' = "killed"
  BY <1>1 DEF BoxOf, Mine, WallsOf, Secured, OverOf
<1>4. QED
  BY <1>2, <1>3 DEF Seen, Shown

\* An instance that disappears is removed from the sandbox of its owner.
LEMMA DisappearSeen ==
  ASSUME Vanish = "ended", RefInv, NEW n \in Names, Disappear(n)
  PROVE  \E r \in Runs : Seen(r)
<1>1. PICK r \in Runs : /\ inst[n].owner = r /\ pc[r] \in {"exited", "killed"}
                        /\ DeleteInstance(n)
  BY DEF Disappear, Exists, Ended, RefInv, OwnerInv, NetInv, TypeOK, DaemonTypeOK, Instance
<1>2. TypeOK /\ n = name[r] /\ r # NoRun
  BY <1>1, RefFacts DEF Guarded
<1>3. /\ UNCHANGED inputs /\ name' = name /\ keep' = keep /\ pc' = pc /\ broken' = broken
      /\ net' = net /\ rules' = rules
  BY <1>1 DEF Disappear, DeleteInstance, inputs, guards
<1>4. \A m \in Names : inst'[m] = IF m = n THEN Absent ELSE inst[m]
  BY <1>1, <1>2 DEF DeleteInstance, TypeOK, DaemonTypeOK
<1>5. \A m \in Names : \/ inst'[m] = inst[m]
                       \/ inst[m].owner \in {r, NoRun} /\ inst'[m].owner \in {r, NoRun}
  BY <1>1, <1>4 DEF Absent
<1>6. \A q \in Runs \ {r} : Unseen(q)
  BY <1>1, <1>2, <1>3, <1>5, OthersUnseen
<1>7. BoxOf(r) \in {"down", "up"} /\ BoxOf(r)' = "gone"
  BY <1>1, <1>2, <1>3, <1>4 DEF BoxOf, Mine, Absent
<1>8. WallsOf(r)' = WallsOf(r) /\ OverOf(r)' = OverOf(r)
  BY <1>3 DEF WallsOf, Secured, OverOf
<1>9. Seen(r)
  BY <1>6, <1>7, <1>8 DEF Seen, Shown
<1>10. QED
  BY <1>9

LEMMA InitSandbox == Init => SB!SInit
<1> SUFFICES ASSUME Init PROVE SB!SInit
  OBVIOUS
<1>1. ASSUME NEW r \in Runs
      PROVE  BoxOf(r) = "unmade" /\ WallsOf(r) = "none" /\ OverOf(r) = "no"
  <2>1. pc[r] = "create" /\ net[r] = {} /\ name[r] \in Names /\ r # NoRun
    BY DaemonAssumption DEF Init, DaemonInit, GuardsInit
  <2>2. inst[name[r]].owner # r
    BY <2>1 DEF Init, DaemonInit, Absent
  <2>3. QED
    BY <2>1, <2>2 DEF BoxOf, Mine, WallsOf, OverOf
<1>2. QED
  BY <1>1 DEF SB!SInit

LEMMA NextSandbox ==
  ASSUME Vanish = "ended"
  PROVE  RefInv /\ [Next]_vars => [SB!SNext]_(SB!sandboxVars)
<1> SUFFICES ASSUME RefInv, [Next]_vars PROVE [SB!SNext]_(SB!sandboxVars)
  OBVIOUS
<1>1. ASSUME NEW r \in Runs, Step(r) \/ Leave(r) \/ Kill(r)
      PROVE  Seen(r)
  <2>1. CASE AddDevice(r) \/ Joined(r) \/ Poll(r) \/ Provision(r) \/ Leave(r) \/ Attach(r)
    BY <2>1, MoveSeen
  <2>2. CASE Start(r)
    <3>1. CASE UNCHANGED daemon
      BY <2>2, <3>1, MoveSeen
    <3>2. CASE Goto(r, "start", "poll") /\ StartInstance(name[r])
      BY <2>2, <3>2, StartSeen
    <3>3. QED
      BY <2>2, <3>1, <3>2 DEF Start
  <2>3. CASE Create(r) \/ SetupIsolation(r) \/ Teardown(r) \/ Kill(r)
    BY <2>3, CreateSeen, SetupSeen, TeardownSeen, KillSeen
  <2>4. QED
    BY <1>1, <2>1, <2>2, <2>3 DEF Step
<1>2. ASSUME NEW r \in Runs, Seen(r)
      PROVE  [SB!SNext]_(SB!sandboxVars)
  BY <1>2, ShownIsStep DEF Seen
<1>3. CASE UNCHANGED vars
  BY <1>3 DEF SB!sandboxVars, vars, daemon, inputs, guards, BoxOf, Mine, WallsOf, Secured, OverOf
<1>4. QED
  BY <1>1, <1>2, <1>3, DisappearSeen DEF Next, Finished

\* Every run is a sandbox in the sense of Sandbox, for any number of runs and
\* names, as long as no instance disappears under a live run.
THEOREM SandboxImplemented ==
  ASSUME Vanish = "ended"
  PROVE  Spec => ImplementsSandbox
<1>1. RefInv /\ [Next]_vars => [SB!SNext]_(SB!sandboxVars)
  BY NextSandbox
<1>2. Spec => []RefInv
  BY OwnerInvariant, LeakInvariant, PTL DEF RefInv
<1>3. QED
  BY <1>1, <1>2, InitSandbox, PTL DEF Spec, ImplementsSandbox, SB!SSpec

\* What a sandbox is makes it safe: an instance that is up has closed walls.
THEOREM SandboxNeverExposed == ImplementsSandbox => []SB!NeverExposed
<1>1. SB!SInit => SB!NeverExposed
  BY DEF SB!SInit, SB!NeverExposed
<1>2. SB!NeverExposed /\ [SB!SNext]_(SB!sandboxVars) => SB!NeverExposed'
  <2> DEFINE b == [q \in Runs |-> BoxOf(q)]
             w == [q \in Runs |-> WallsOf(q)]
  <2>1. SUFFICES ASSUME \A q \in Runs : b[q] = "up" => w[q] = "closed",
                        [SB!SNext]_(SB!sandboxVars)
                 PROVE  \A q \in Runs : b'[q] = "up" => w'[q] = "closed"
    BY DEF SB!NeverExposed
  <2>2. CASE SB!SNext
    <3>1. PICK r \in Runs : SB!Make(r) \/ SB!Rebuild(r) \/ SB!Raise(r) \/ SB!Remove(r) \/ SB!End(r)
      BY <2>2 DEF SB!SNext
    <3>2. \/ w' = w /\ \A q \in Runs : b'[q] = "up" => b[q] = "up" \/ w[q] = "closed"
          \/ b' = b /\ b[r] # "up" /\ \E x \in SB!Walls : w' = [w EXCEPT ![r] = x]
      BY <3>1 DEF SB!Make, SB!Rebuild, SB!Raise, SB!Remove, SB!End
    <3>3. \A q \in Runs \ {r} : w' # w => w'[q] = w[q]
      BY <3>2
    <3>4. QED
      BY <2>1, <3>2, <3>3
  <2>3. CASE UNCHANGED SB!sandboxVars
    BY <2>1, <2>3 DEF SB!sandboxVars
  <2>4. QED
    BY <2>1, <2>2, <2>3
<1>3. QED
  BY <1>1, <1>2, PTL DEF ImplementsSandbox, SB!SSpec
=============================================================================
