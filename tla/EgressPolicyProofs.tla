------------------------- MODULE EgressPolicyProofs --------------------------
(***************************************************************************)
(* Proofs about EgressPolicy, for any rules, requests, packets and names:  *)
(* nothing leaves but by a rule of the configuration, the quota of a rule  *)
(* bounds what belongs to it, a secret goes with its rule's requests, a    *)
(* launch is refused only for a rule of no use, and the clients served are *)
(* those of the bridge's subnet. The proxies' startup comes first: start   *)
(* never succeeds past a proxy that had stopped.                           *)
(***************************************************************************)
EXTENDS EgressPolicy, RequestPathProofs

-----------------------------------------------------------------------------
\* The proxies' startup, for any timeout

LEMMA InitStartup == Init => StartupInv
  BY StartupAssumption DEF Init, StartupInv, TypeOK, Stopped, Proxy

LEMMA TaskStep ==
  ASSUME StartupInv, NEW p \in Proxy, Serve(p) \/ Stop(p)
  PROVE  StartupInv'
<1>1. /\ UNCHANGED <<portTaken, at, elapsed, missed>>
      /\ task' \in [Proxy -> {"loading", "serving", "stopped", "aborted"}]
      /\ Stopped \subseteq Stopped'
  BY DEF Serve, Stop, StartupInv, TypeOK, Stopped
<1>2. QED
  BY <1>1 DEF StartupInv, TypeOK

LEMMA WaitStep == ASSUME StartupInv, Wait PROVE StartupInv'
<1>1. CASE Check \/ Recheck
  BY <1>1 DEF Check, Recheck, CheckTasks, StartupInv, TypeOK, Stopped
<1>2. CASE Connect
  BY <1>2 DEF Connect, Accepted, StartupInv, TypeOK, Stopped
<1>3. CASE Sleep
  BY <1>3, StartupAssumption DEF Sleep, StartupInv, TypeOK
<1>4. CASE Fail
  BY <1>4 DEF Fail, StartupInv, TypeOK
<1>5. QED
  BY <1>1, <1>2, <1>3, <1>4 DEF Wait

\* The pauses are bounded, and what stopped before the connection is still
\* stopped when the tasks are looked at again.
THEOREM StartupInvariant == Spec => []StartupInv
<1>1. StartupInv /\ [Next]_vars => StartupInv'
  <2>1. ASSUME StartupInv, UNCHANGED vars PROVE StartupInv'
    BY <2>1 DEF vars, StartupInv, TypeOK, Stopped
  <2>2. QED
    BY <2>1, TaskStep, WaitStep DEF Next, Done
<1>2. QED
  BY <1>1, InitStartup, PTL DEF Spec

\* Start does not succeed if a proxy had stopped when its connection was
\* accepted.
THEOREM StopNoticed == Spec => []StopIsNoticed
<1>1. StartupInv => StopIsNoticed
  BY DEF StartupInv, StopIsNoticed
<1>2. QED
  BY <1>1, StartupInvariant, PTL

-----------------------------------------------------------------------------
\* The rules

\* The library's rule matches what the manual says of the file's rule.
LEMMA MatchesAsRead ==
  ASSUME NEW rule \in HttpRule \cup TcpRule, NEW r, r.scheme \in HttpType
  PROVE  RuleMatches(IntoLibrary(rule), r) <=> Reading(rule, r)
<1>1. CASE rule.type \in HttpType
  <2>1. rule \in HttpRule
    BY <1>1 DEF HttpType, TcpRule
  <2> DEFINE lib == IntoLibrary(rule)
  <2>2. /\ lib.type = rule.type /\ lib.host = rule.host
        /\ lib.path_prefixes = rule.path_prefixes /\ lib.methods = rule.methods
        /\ lib.ports = IF rule.ports = None THEN {DefaultPort(rule.type)} ELSE rule.ports
    BY <1>1, <2>1 DEF IntoLibrary, HttpRule
  <2> HIDE DEF lib
  <2>3. RuleMatches(lib, r) <=> Reading(rule, r)
    BY <2>2 DEF RuleMatches, Reading
  <2>4. QED
    BY <2>3 DEF lib
<1>2. CASE rule.type \notin HttpType
  BY <1>2 DEF IntoLibrary, RuleMatches, Reading
<1>3. QED
  BY <1>1, <1>2

\* Once the rules are converted, the handler's first match is the rule a
\* request belongs to.
LEMMA PositionIsOwner ==
  ASSUME RulesInv, stage = "up", NEW r, r.scheme \in HttpType
  PROVE  /\ Position(r) = Owner(r)
         /\ \A i \in Owner(r) : i \in DOMAIN rules /\ setup.allow[i].type \in HttpType
         /\ \A i, j \in Owner(r) : i = j
<1>1. /\ setup.allow \in Seq(HttpRule \cup TcpRule)
      /\ rules = [i \in DOMAIN setup.allow |-> IntoLibrary(setup.allow[i])]
  BY EgressAssumption DEF RulesInv, Configured
<1>2. DOMAIN rules = DOMAIN setup.allow /\ DOMAIN rules = 1 .. Len(setup.allow)
      /\ Len(setup.allow) \in Nat
  BY <1>1
<1>3. \A i \in DOMAIN rules : RuleMatches(rules[i], r) <=> Reading(setup.allow[i], r)
  BY <1>1, <1>2, MatchesAsRead
<1>4. \A i \in DOMAIN rules : \A j \in 1 .. i - 1 : j \in DOMAIN rules
  BY <1>2
<1>5. Position(r) = Owner(r)
  BY <1>2, <1>3, <1>4 DEF Position, Owner
<1>6. \A i \in Owner(r) : i \in DOMAIN rules /\ setup.allow[i].type \in HttpType
  BY <1>2 DEF Owner, Reading
<1>7. ASSUME NEW i \in Owner(r), NEW j \in Owner(r)
      PROVE  i = j
  <2>1. i \in Nat /\ j \in Nat /\ i >= 1 /\ j >= 1
    BY <1>2 DEF Owner
  <2>2. ~(j \in 1 .. i - 1) /\ ~(i \in 1 .. j - 1)
    BY DEF Owner
  <2>3. QED
    BY <2>1, <2>2
<1>8. QED
  BY <1>5, <1>6, <1>7

-----------------------------------------------------------------------------

LEMMA InitPolicy == EgressInit => RulesInv
  BY DEF EgressInit, RulesInv, Configured, QuotaKept, SentByRule, Happened

LEMMA ConvertStep == ASSUME RulesInv, Convert PROVE RulesInv'
<1>1. setup' = setup /\ out' = out /\ out = None /\ setup \in Setups
  BY DEF Convert, RulesInv, Configured
<1>2. setup.allow \in Seq(HttpRule \cup TcpRule)
  BY <1>1, EgressAssumption
<1>3. Configured'
  BY <1>1, <1>2 DEF Convert, RulesInv, Configured
<1>4. QuotaKept'
  <2>1. CASE stage' = "bridge"
    <3>1. \A i \in DOMAIN rules' : used'[i] = 0 /\ served'[i] = 0
      BY <2>1 DEF Convert
    <3>2. \A i \in DOMAIN rules' :
            setup.allow[i].type \in HttpType => setup.allow[i].quota \in Nat \cup {None}
      BY <1>2, <2>1 DEF Convert, HttpRule, TcpRule, HttpType
    <3>3. QED
      BY <1>1, <3>1, <3>2 DEF QuotaKept
  <2>2. CASE stage' = "refused"
    BY <1>1, <2>2 DEF Convert, RulesInv, Configured, QuotaKept
  <2>3. QED
    BY <2>1, <2>2 DEF Convert
<1>5. SentByRule'
  BY <1>1 DEF SentByRule, Happened
<1>6. QED
  BY <1>3, <1>4, <1>5 DEF RulesInv

LEMMA SetUpStep == ASSUME RulesInv, SetUp PROVE RulesInv'
<1>1. UNCHANGED <<setup, rules, used, out, served>> /\ out = None
  BY DEF SetUp, traffic, RulesInv, Configured
<1>2. BuildRules' = BuildRules /\ NeededSecrets' = NeededSecrets
  BY <1>1 DEF BuildRules, AllowTcp, RulesOf, NeededSecrets
<1>3. Configured'
  BY <1>1, <1>2 DEF SetUp, RulesInv, Configured, DnsmasqConfig
<1>4. QuotaKept' /\ SentByRule'
  BY <1>1 DEF RulesInv, QuotaKept, SentByRule, Happened
<1>5. QED
  BY <1>3, <1>4 DEF RulesInv

\* What changes neither the policy nor the counts, and what has left is
\* allowed, preserves the invariant.
LEMMA QuietStep ==
  ASSUME RulesInv, UNCHANGED policy, UNCHANGED <<used, served>>,
         stage = "up" \/ out' = None, SentByRule'
  PROVE  RulesInv'
<1>1. UNCHANGED <<setup, stage, rules, acl, dnsmasq, secrets, used, served>>
  BY DEF policy
<1>2. BuildRules' = BuildRules /\ NeededSecrets' = NeededSecrets
  BY <1>1 DEF BuildRules, AllowTcp, RulesOf, NeededSecrets
<1>3. Configured'
  BY <1>1, <1>2 DEF RulesInv, Configured, DnsmasqConfig
<1>4. QuotaKept'
  BY <1>1 DEF RulesInv, QuotaKept
<1>5. QED
  BY <1>3, <1>4 DEF RulesInv

\* The rules and the secrets being the same, an event stays allowed.
LEMMA EventKept ==
  ASSUME RulesInv, UNCHANGED policy, out' = out
  PROVE  SentByRule'
<1>1. UNCHANGED <<setup, secrets, out>>
  BY DEF policy
<1> DEFINE RequestByRule ==
             /\ out.request \in Request
             /\ \E i \in Allowed(HttpType) \cap Owner(out.request) :
                  \E headers \in WithStatic(out.request.headers, setup.allow[i].headers) :
                    out.headers = WithAuth(headers, setup.allow[i].auth)
<1>2. /\ Owner(out.request)' = Owner(out.request)
      /\ \A headers, auth : WithAuth(headers, auth)' = WithAuth(headers, auth)
  BY <1>1 DEF Owner, Reading, WithAuth
<1>3. Happened("forward") => RequestByRule
  BY DEF RulesInv, SentByRule
<1>4. (Happened("forward") => RequestByRule)'
  BY <1>1, <1>2, <1>3 DEF Happened, Allowed
<1>5. (Happened("packet") => PacketAllowed(out.packet))'
  BY <1>1 DEF RulesInv, SentByRule, Happened, PacketAllowed, Allowed
<1>6. (Happened("resolve") => NameAllowed(out.name))'
  BY <1>1 DEF RulesInv, SentByRule, Happened, NameAllowed, Allowed
<1>7. QED
  BY <1>4, <1>5, <1>6 DEF SentByRule

LEMMA ProxiesStep == ASSUME RulesInv, Proxies PROVE RulesInv'
  BY QuietStep, EventKept DEF Proxies, traffic

LEMMA SettleStep == ASSUME RulesInv, Settle PROVE RulesInv'
  BY QuietStep DEF Settle, SentByRule, Happened

LEMMA TunnelStep == ASSUME RulesInv, NEW p, Tunnel(p) PROVE RulesInv'
<1>1. SentByRule'
  BY DEF Tunnel, Event, SentByRule, Happened
<1>2. QED
  BY <1>1, QuietStep DEF Tunnel, Event, Quiet

\* A packet the ACL lets through is for the gateway's two ports or for a rule.
LEMMA AclIsRules ==
  ASSUME RulesInv, stage = "up", NEW p, AclAllows(p)
  PROVE  PacketAllowed(p)
<1>1. PICK e \in BuildRules : /\ p.protocol = e.protocol /\ p.destination = e.destination
                              /\ e.destination_port = {} \/ p.port \in e.destination_port
  BY DEF RulesInv, Configured, AclAllows
<1>2. CASE e \in {AclRule("tcp", "gateway", {ProxyPort}), AclRule("udp", "gateway", {DnsPort}),
                  AclRule("tcp", "gateway", {DnsPort})}
  BY <1>1, <1>2 DEF AclRule, PacketAllowed
<1>3. CASE \E t \in AllowTcp : e = AclRule("tcp", t.host, t.ports)
  <2>1. PICK r \in RulesOf({"tcp"}) : r.ports # {} /\ e = AclRule("tcp", r.host, r.ports)
    BY <1>3 DEF AllowTcp
  <2>2. PICK i \in DOMAIN rules : rules[i].type = "tcp" /\ r = rules[i]
    BY <2>1 DEF RulesOf
  <2>3. /\ setup.allow \in Seq(HttpRule \cup TcpRule)
        /\ rules = [k \in DOMAIN setup.allow |-> IntoLibrary(setup.allow[k])]
    BY EgressAssumption DEF RulesInv, Configured
  <2>4. i \in DOMAIN setup.allow /\ setup.allow[i] \in HttpRule \cup TcpRule
        /\ rules[i] = IntoLibrary(setup.allow[i])
    BY <2>2, <2>3
  <2>5. setup.allow[i].type = "tcp" /\ rules[i] = setup.allow[i]
    BY <2>2, <2>4 DEF IntoLibrary, HttpRule, TcpRule, HttpType
  <2>6. p.protocol = "tcp" /\ p.destination = r.host /\ p.port \in r.ports
    BY <1>1, <2>1 DEF AclRule
  <2>7. QED
    BY <2>2, <2>4, <2>5, <2>6 DEF PacketAllowed, Allowed
<1>4. QED
  BY <1>1, <1>2, <1>3 DEF BuildRules

LEMMA SendStep == ASSUME RulesInv, NEW p, Send(p) PROVE RulesInv'
<1>1. UNCHANGED <<policy, used, served>> /\ stage = "up" /\ setup' = setup
  BY DEF Send, Quiet, Event, policy
<1>2. SentByRule'
  <2>1. CASE AclAllows(p)
    <3>1. out' = [event |-> "packet", packet |-> p]
      BY <2>1 DEF Send, Event
    <3>2. PacketAllowed(p)'
      BY <1>1, <2>1, AclIsRules DEF PacketAllowed, Allowed
    <3>3. QED
      BY <3>1, <3>2 DEF SentByRule, Happened
  <2>2. CASE ~AclAllows(p)
    BY <2>2 DEF Send, Event, SentByRule, Happened
  <2>3. QED
    BY <2>1, <2>2
<1>3. QED
  BY <1>1, <1>2, QuietStep

LEMMA LookupStep == ASSUME RulesInv, NEW q, Lookup(q) PROVE RulesInv'
<1>1. UNCHANGED <<policy, used, served>> /\ stage = "up" /\ setup' = setup
  BY DEF Lookup, Quiet, Event, policy
<1>2. "no-resolv" \in dnsmasq
  BY <1>1 DEF RulesInv, Configured, DnsmasqConfig
<1>3. SentByRule'
  <2>1. CASE out' = [event |-> "resolve", name |-> q] /\ Lower[q] \in AllowedNames
    <3>1. /\ setup.allow \in Seq(HttpRule \cup TcpRule)
          /\ rules = [k \in DOMAIN setup.allow |-> IntoLibrary(setup.allow[k])]
      BY <1>1, EgressAssumption DEF RulesInv, Configured
    <3>2. PICK i \in DOMAIN rules : rules[i].type \in HttpType /\ Lower[q] = Lower[rules[i].host]
      BY <2>1 DEF AllowedNames, RulesOf
    <3>3. setup.allow[i] \in HttpRule \cup TcpRule /\ rules[i] = IntoLibrary(setup.allow[i])
          /\ i \in DOMAIN setup.allow
      BY <3>1, <3>2
    <3>4. setup.allow[i].type \in HttpType /\ setup.allow[i].host = rules[i].host
      BY <3>2, <3>3 DEF IntoLibrary, HttpRule, TcpRule, HttpType
    <3>5. NameAllowed(q)'
      BY <1>1, <3>2, <3>3, <3>4 DEF NameAllowed, Allowed
    <3>6. QED
      BY <2>1, <3>5 DEF SentByRule, Happened
  <2>2. CASE out' = [event |-> "nxdomain", name |-> q]
    BY <2>2 DEF SentByRule, Happened
  <2>3. CASE out' = [event |-> "no answer", name |-> q]
    BY <2>3 DEF SentByRule, Happened
  <2>4. QED
    BY <1>2, <2>1, <2>2, <2>3 DEF Lookup, Event
<1>4. QED
  BY <1>1, <1>3, QuietStep

LEMMA NewWindowStep ==
  ASSUME RulesInv, NEW i \in DOMAIN rules, NewWindow(i)
  PROVE  RulesInv'
<1>1. /\ UNCHANGED <<setup, stage, rules, acl, dnsmasq, secrets, out>>
      /\ stage = "up" /\ out = None
  BY DEF NewWindow, Quiet, policy
<1>2. BuildRules' = BuildRules /\ NeededSecrets' = NeededSecrets
  BY <1>1 DEF BuildRules, AllowTcp, RulesOf, NeededSecrets
<1>3. used \in [DOMAIN rules -> Nat] /\ served \in [DOMAIN rules -> Nat]
  BY <1>1 DEF RulesInv, Configured
<1>4. used' \in [DOMAIN rules -> Nat] /\ served' \in [DOMAIN rules -> Nat]
  BY <1>3 DEF NewWindow
<1>5. Configured'
  BY <1>1, <1>2, <1>4 DEF RulesInv, Configured, DnsmasqConfig
<1>6. QuotaKept'
  <2>1. SUFFICES ASSUME NEW k \in DOMAIN rules, setup.allow[k].type \in HttpType,
                        setup.allow[k].quota # None
                 PROVE  served'[k] = used'[k] /\ used'[k] <= setup.allow[k].quota
    BY <1>1 DEF QuotaKept
  <2>2. served[k] = used[k] /\ used[k] <= setup.allow[k].quota
    BY <2>1 DEF RulesInv, QuotaKept
  <2>3. setup.allow[k].quota \in Nat
    <3>1. /\ setup.allow \in Seq(HttpRule \cup TcpRule)
          /\ k \in DOMAIN setup.allow
      BY <1>1, EgressAssumption DEF RulesInv, Configured
    <3>2. QED
      BY <2>1, <3>1 DEF HttpRule, TcpRule, HttpType
  <2>4. QED
    BY <1>3, <2>2, <2>3 DEF NewWindow
<1>7. SentByRule'
  BY <1>1 DEF SentByRule, Happened
<1>8. QED
  BY <1>5, <1>6, <1>7 DEF RulesInv

LEMMA OverStep == ASSUME RulesInv, UNCHANGED egressVars PROVE RulesInv'
<1>1. UNCHANGED <<setup, out>> /\ UNCHANGED policy /\ UNCHANGED <<used, served>>
  BY DEF egressVars, policy, traffic
<1>2. SentByRule'
  BY <1>1, EventKept
<1>3. stage = "up" \/ out' = None
  BY <1>1 DEF RulesInv, Configured
<1>4. QED
  BY <1>1, <1>2, <1>3, QuietStep

\* A request is answered by one rule, its owner: a refusal counts nothing, a
\* forward counts one for that rule.
LEMMA HandleStep ==
  ASSUME RulesInv, NEW r \in Request, Handle(r)
  PROVE  RulesInv'
<1>1. /\ UNCHANGED policy /\ UNCHANGED <<setup, stage, rules, acl, dnsmasq, secrets>>
      /\ stage = "up" /\ out = None
  BY DEF Handle, Quiet, policy
<1>2. CASE \E why : Reject(r, why)
  <2>1. SentByRule'
    BY <1>2 DEF Reject, SentByRule, Happened
  <2>2. QED
    BY <1>1, <1>2, <2>1, QuietStep DEF Reject
<1>3. CASE Refusal(r) = "none" /\ \E i \in Position(r) : Forward(r, i)
  <2>1. r.scheme \in HttpType
    BY <1>3 DEF Refusal
  <2>2. PICK i \in Owner(r) : Forward(r, i)
    BY <1>1, <1>3, <2>1, PositionIsOwner
  <2>3. i \in DOMAIN rules /\ setup.allow[i].type \in HttpType /\ \A k \in Owner(r) : k = i
    BY <1>1, <2>1, <2>2, PositionIsOwner
  <2>4. /\ setup.allow \in Seq(HttpRule \cup TcpRule)
        /\ rules = [k \in DOMAIN setup.allow |-> IntoLibrary(setup.allow[k])]
        /\ used \in [DOMAIN rules -> Nat] /\ served \in [DOMAIN rules -> Nat]
    BY <1>1, EgressAssumption DEF RulesInv, Configured
  <2>5. \A k \in DOMAIN rules : setup.allow[k].type \in HttpType =>
          /\ setup.allow[k] \in HttpRule
          /\ rules[k].quota = setup.allow[k].quota
          /\ setup.allow[k].quota \in Nat \cup {None}
    BY <2>4 DEF IntoLibrary, HttpRule, TcpRule, HttpType
  <2>6. /\ used' \in [DOMAIN rules -> Nat] /\ served' \in [DOMAIN rules -> Nat]
    <3>1. used' = used \/ used' = [used EXCEPT ![i] = @ + 1]
      BY <2>2 DEF Forward
    <3>2. served' = [k \in DOMAIN rules |->
                       IF k \in Owner(r) /\ setup.allow[k].quota # None
                         THEN served[k] + 1 ELSE served[k]]
      BY <2>2, <2>4 DEF Forward
    <3>3. \A k \in DOMAIN rules : used[k] \in Nat /\ served[k] \in Nat
      BY <2>4
    <3>4. used' \in [DOMAIN rules -> Nat]
      BY <2>4, <3>1
    <3>5. served' \in [DOMAIN rules -> Nat]
      BY <3>2, <3>3
    <3>6. QED
      BY <3>4, <3>5
  <2>7. Configured'
    <3>1. BuildRules' = BuildRules /\ NeededSecrets' = NeededSecrets
      BY <1>1 DEF BuildRules, AllowTcp, RulesOf, NeededSecrets
    <3>2. QED
      BY <1>1, <2>6, <3>1 DEF RulesInv, Configured, DnsmasqConfig
  <2>8. QuotaKept'
    <3>1. SUFFICES ASSUME NEW k \in DOMAIN rules, setup.allow[k].type \in HttpType,
                          setup.allow[k].quota # None
                   PROVE  served'[k] = used'[k] /\ used'[k] <= setup.allow[k].quota
      BY <1>1 DEF QuotaKept
    <3>2. /\ served[k] = used[k] /\ used[k] <= setup.allow[k].quota
          /\ setup.allow[k].quota \in Nat /\ rules[k].quota = setup.allow[k].quota
      BY <2>5, <3>1 DEF RulesInv, QuotaKept
    <3>3. CASE k = i
      <4>1. rules[i].quota # None /\ used[i] < rules[i].quota
        BY <2>2, <3>1, <3>2, <3>3 DEF Forward
      <4>2. used'[k] = used[k] + 1 /\ served'[k] = served[k] + 1
        BY <2>2, <2>3, <2>4, <3>1, <3>3, <4>1 DEF Forward
      <4>3. QED
        BY <2>4, <3>2, <3>3, <4>1, <4>2
    <3>4. CASE k # i
      <4>1. used'[k] = used[k] /\ served'[k] = served[k]
        BY <2>2, <2>3, <2>4, <3>4 DEF Forward
      <4>2. QED
        BY <3>2, <4>1
    <3>5. QED
      BY <3>3, <3>4
  <2>9. SentByRule'
    <3>1. rules[i].headers = setup.allow[i].headers /\ rules[i].auth = setup.allow[i].auth
      BY <2>3, <2>4, <2>5 DEF IntoLibrary, HttpRule
    <3>2. PICK headers \in WithStatic(r.headers, setup.allow[i].headers) :
            out' = [event |-> "forward", request |-> r,
                    headers |-> WithAuth(headers, setup.allow[i].auth)]
      BY <2>2, <3>1 DEF Forward
    <3>3. /\ out'.event = "forward" /\ out'.request = r
          /\ out'.headers = WithAuth(headers, setup.allow[i].auth)
      BY <3>2
    <3>4. /\ Owner(out.request)' = Owner(r) /\ i \in Allowed(HttpType)'
          /\ \A auth : WithAuth(headers, auth)' = WithAuth(headers, auth)
      <4>1. Owner(r)' = Owner(r) /\ Owner(out.request)' = Owner(r)'
        BY <1>1, <3>3 DEF Owner
      <4>2. i \in Allowed(HttpType)'
        BY <1>1, <2>2, <2>3 DEF Owner, Allowed
      <4>3. \A auth : WithAuth(headers, auth)' = WithAuth(headers, auth)
        BY <1>1 DEF WithAuth
      <4>4. QED
        BY <4>1, <4>2, <4>3
    <3>5. (out.headers = WithAuth(headers, setup.allow[i].auth))'
      BY <1>1, <3>3, <3>4
    <3>6. (i \in Allowed(HttpType) \cap Owner(out.request))'
      BY <2>2, <3>4
    <3>7. QED
      BY <1>1, <3>2, <3>3, <3>5, <3>6 DEF SentByRule, Happened
  <2>10. QED
    BY <2>7, <2>8, <2>9 DEF RulesInv
<1>4. QED
  BY <1>2, <1>3 DEF Handle

-----------------------------------------------------------------------------

LEMMA PolicyStep == ASSUME RulesInv, [EgressNext]_egressVars PROVE RulesInv'
  BY ConvertStep, SetUpStep, ProxiesStep, HandleStep, TunnelStep, SendStep, LookupStep,
     NewWindowStep, SettleStep, OverStep DEF EgressNext, Traffic, Over

LEMMA RulesInvariant == EgressSpec => []RulesInv
  BY InitPolicy, PolicyStep, PTL DEF EgressSpec

\* What is answered by address stays so: a request is refused as "not a
\* client" exactly when its address is none of the bridge's.
LEMMA AddressStep ==
  ASSUME RulesInv, ServedByAddress, [EgressNext]_egressVars
  PROVE  ServedByAddress'
<1>1. CASE \E r \in Request : Handle(r)
  <2>1. PICK r \in Request : Handle(r)
    BY <1>1
  <2>2. setup' = setup
    BY <2>1 DEF Handle, Quiet, policy
  <2> DEFINE has == HasInstance(Parse(setup.cidr), r.client)
  <2>3. has' = has
    BY <2>2 DEF HasInstance, Parse, Mask, Bit
  <2>4. Refusal(r) = "not a client" <=> ~has
    BY DEF Refusal
  <2> HIDE DEF has
  <2>5. CASE \E why : Reject(r, why) /\ (why = "not a client" <=> ~has)
    <3>1. PICK why : Reject(r, why) /\ (why = "not a client" <=> ~has)
      BY <2>5
    <3>2. out'.event = "reject" /\ out'.request = r /\ out'.why = why
      BY <3>1 DEF Reject
    <3>3. QED
      BY <2>2, <2>3, <3>1, <3>2 DEF ServedByAddress, Happened, has
  <2>6. CASE Refusal(r) = "none" /\ \E i \in Position(r) : Forward(r, i)
    <3>1. out'.event = "forward" /\ out'.request = r
      BY <2>6 DEF Forward
    <3>2. has
      BY <2>4, <2>6
    <3>3. QED
      BY <2>2, <2>3, <3>1, <3>2 DEF ServedByAddress, Happened, has
  <2>7. QED
    <3>1. "quota" # "not a client" /\ "none" # "not a client"
      OBVIOUS
    <3>2. QED
      BY <2>1, <2>4, <2>5, <2>6, <3>1 DEF Handle
<1>2. CASE ~\E r \in Request : Handle(r)
  <2>1. setup' = setup
    BY <1>2 DEF EgressNext, Convert, SetUp, Proxies, Traffic, Tunnel, Send, Lookup, NewWindow,
                Settle, Over, Quiet, egressVars, policy
  <2>2. out' = out \/ out' = None \/ out'.event \notin {"forward", "reject"}
    <3>1. ASSUME NEW e, Event(e), e.event \notin {"forward", "reject"}
          PROVE  out'.event \notin {"forward", "reject"}
      BY <3>1 DEF Event
    <3>2. CASE \E p \in Packet : Tunnel(p) \/ Send(p)
      <4>1. PICK p \in Packet, event \in {"drop", "packet"} : Event([event |-> event, packet |-> p])
        BY <3>2 DEF Tunnel, Send
      <4>2. QED
        BY <3>1, <4>1
    <3>3. CASE \E q \in Query : Lookup(q)
      <4>1. PICK q \in Query, event \in {"resolve", "nxdomain", "no answer"} :
              Event([event |-> event, name |-> q])
        BY <3>3 DEF Lookup
      <4>2. QED
        BY <3>1, <4>1
    <3>4. CASE Convert \/ SetUp \/ Proxies \/ Over \/ UNCHANGED egressVars
      BY <3>4 DEF Convert, SetUp, Proxies, Over, egressVars, traffic
    <3>5. CASE Settle \/ \E i \in DOMAIN rules : NewWindow(i)
      BY <3>5 DEF Settle, NewWindow
    <3>6. QED
      BY <1>2, <3>2, <3>3, <3>4, <3>5 DEF EgressNext, Traffic
  <2>3. CASE out' = out
    BY <2>1, <2>3 DEF ServedByAddress, Happened, HasInstance, Parse, Mask, Bit
  <2>4. CASE out' = None \/ out'.event \notin {"forward", "reject"}
    BY <2>4 DEF ServedByAddress, Happened
  <2>5. QED
    BY <2>2, <2>3, <2>4
<1>3. QED
  BY <1>1, <1>2

\* The policy of a run: its rules are those of the file, its ACL and its
\* dnsmasq are set up for them, its counts are what has gone out, and what
\* was answered was answered by the client's address.
THEOREM PolicyInvariant == EgressSpec => []PolicyInv
<1>1. EgressInit => ServedByAddress
  BY DEF EgressInit, ServedByAddress, Happened
<1>2. RulesInv /\ ServedByAddress /\ [EgressNext]_egressVars => ServedByAddress'
  BY AddressStep
<1>3. RulesInv /\ ServedByAddress => PolicyInv
  BY DEF PolicyInv
<1>4. QED
  BY <1>1, <1>2, <1>3, RulesInvariant, PTL DEF EgressSpec

\* No request gets past the quota of the rule it belongs to by another rule
\* (the first match of HttpRulesHandler::handle_request is final).
THEOREM QuotaOwned == EgressSpec => []NoSecondChance
<1>1. RulesInv => NoSecondChance
  <2>1. SUFFICES ASSUME RulesInv, NEW i \in DOMAIN rules,
                        setup.allow[i].type \in HttpType, setup.allow[i].quota # None
                 PROVE  served[i] <= setup.allow[i].quota
    BY DEF NoSecondChance
  <2>2. QED
    BY <2>1 DEF RulesInv, QuotaKept
<1>2. QED
  BY <1>1, RulesInvariant, PTL

\* Nothing but the configured egress leaves the instance: a request is on a
\* path that the rule's prefix holds, by PrefixHolds.
THEOREM EgressConfigured == EgressSpec => []OnlyConfiguredEgress
<1>1. RulesInv => OnlyConfiguredEgress
  <2>1. SUFFICES ASSUME RulesInv, Happened("forward")
                 PROVE  \E i \in Allowed(HttpType) : Permits(setup.allow[i], out.request)
    BY DEF RulesInv, SentByRule, OnlyConfiguredEgress
  <2>2. PICK i \in Allowed(HttpType) : Reading(setup.allow[i], out.request)
    BY <2>1 DEF RulesInv, SentByRule, Owner
  <2>3. out.request \in Request /\ setup \in Setups
        /\ i \in DOMAIN setup.allow /\ setup.allow[i].type \in HttpType
    BY <2>1, <2>2 DEF RulesInv, SentByRule, Configured, Allowed
  <2>4. setup.allow[i].path_prefixes # None =>
          \E prefix \in setup.allow[i].path_prefixes : HeldByPrefix(out.request.path, prefix)
    <3>1. SUFFICES ASSUME setup.allow[i].path_prefixes # None
                   PROVE  \E prefix \in setup.allow[i].path_prefixes :
                            HeldByPrefix(out.request.path, prefix)
      OBVIOUS
    <3>2. PICK prefix \in setup.allow[i].path_prefixes : PathAllowed(out.request.path, prefix)
      BY <2>2, <3>1 DEF Reading
    <3>3. prefix \in Path
      <4>1. setup.allow[i] \in HttpRule
        BY <2>3, EgressAssumption DEF TcpRule, HttpType
      <4>2. setup.allow[i].path_prefixes \in SUBSET Path
        BY <3>1, <4>1 DEF HttpRule
      <4>3. QED
        BY <4>2
    <3>4. out.request.path \in Path
      BY <2>3, RequestAssumption
    <3>5. QED
      BY <3>2, <3>3, <3>4, PrefixHolds
  <2>5. QED
    BY <2>2, <2>4 DEF Permits, Reading
<1>2. QED
  BY <1>1, RulesInvariant, PTL

-----------------------------------------------------------------------------

\* What the invariant says of a request that is out: it has one owner, and the
\* headers of this rule.
LEMMA SentByOwner ==
  ASSUME RulesInv, Happened("forward")
  PROVE  /\ stage = "up" /\ out.request \in Request
         /\ \E i \in DOMAIN setup.allow :
              /\ setup.allow[i] \in HttpRule /\ Owner(out.request) = {i}
              /\ \E headers \in WithStatic(out.request.headers, setup.allow[i].headers) :
                   out.headers = WithAuth(headers, setup.allow[i].auth)
<1>1. stage = "up" /\ setup.allow \in Seq(HttpRule \cup TcpRule)
  BY EgressAssumption DEF RulesInv, Configured, Happened
<1>2. PICK i \in Allowed(HttpType) \cap Owner(out.request) :
        \E headers \in WithStatic(out.request.headers, setup.allow[i].headers) :
          out.headers = WithAuth(headers, setup.allow[i].auth)
  BY DEF RulesInv, SentByRule
<1>3. i \in DOMAIN setup.allow /\ setup.allow[i].type \in HttpType
      /\ Reading(setup.allow[i], out.request)
  BY <1>2 DEF Allowed, Owner
<1>4. setup.allow[i] \in HttpRule
  BY <1>1, <1>3 DEF TcpRule, HttpType
<1>5. out.request.scheme \in HttpType
  BY <1>3 DEF Reading
<1>6. Owner(out.request) = {i}
  BY <1>1, <1>2, <1>5, PositionIsOwner
<1>7. out.request \in Request
  BY DEF RulesInv, SentByRule
<1>8. QED
  BY <1>1, <1>2, <1>3, <1>4, <1>6, <1>7

\* The secrets that are resolved are those of the configuration's rules.
LEMMA SecretsOfRules ==
  ASSUME RulesInv, stage = "up"
  PROVE  DOMAIN secrets = {setup.allow[i].auth.secret :
                             i \in {j \in Allowed(HttpType) : setup.allow[j].auth # None}}
<1>1. /\ setup.allow \in Seq(HttpRule \cup TcpRule)
      /\ rules = [i \in DOMAIN setup.allow |-> IntoLibrary(setup.allow[i])]
      /\ DOMAIN secrets = NeededSecrets
  BY EgressAssumption DEF RulesInv, Configured
<1>2. ASSUME NEW i \in DOMAIN setup.allow
      PROVE  /\ rules[i].type = setup.allow[i].type
             /\ setup.allow[i].type \in HttpType => rules[i].auth = setup.allow[i].auth
  BY <1>1 DEF IntoLibrary, HttpRule, TcpRule, HttpType
<1>3. DOMAIN rules = DOMAIN setup.allow
  BY <1>1
<1>4. ASSUME NEW v
      PROVE  v \in NeededSecrets <=>
               \E i \in DOMAIN setup.allow : /\ setup.allow[i].type \in HttpType
                                             /\ setup.allow[i].auth # None
                                             /\ v = setup.allow[i].auth.secret
  <2>1. v \in NeededSecrets <=>
          \E i \in DOMAIN rules : /\ rules[i].type \in HttpType /\ rules[i].auth # None
                                  /\ v = rules[i].auth.secret
    BY DEF NeededSecrets, RulesOf
  <2>2. QED
    BY <1>2, <1>3, <2>1
<1>5. QED
  BY <1>1, <1>4 DEF Allowed

\* Every header has, after the static ones, the client's value or one of the
\* static values.
LEMMA StaticOrClient ==
  ASSUME NEW headers, NEW entries, NEW h \in WithStatic(headers, entries)
  PROVE  /\ h \in [DOMAIN headers -> {h[n] : n \in DOMAIN headers}]
         /\ \A n \in DOMAIN headers : h[n] = headers[n] \/ \E e \in entries : h[n] = e.value
<1> DEFINE Set(n) == {e.value : e \in {x \in entries : Lower[x.name] = n /\ x.printable}}
           After(n) == IF Set(n) = {} THEN {headers[n]} ELSE Set(n)
<1>1. /\ h \in [DOMAIN headers -> UNION {After(n) : n \in DOMAIN headers}]
      /\ \A n \in DOMAIN headers : h[n] \in After(n)
  BY DEF WithStatic
<1>2. \A n \in DOMAIN headers : h[n] = headers[n] \/ \E e \in entries : h[n] = e.value
  BY <1>1
<1>3. QED
  BY <1>1, <1>2

\* A secret leaves only with the requests of a rule it is configured for, in
\* that rule's header, and with all of them, given that no client and no
\* static header has a secret for its value.
THEOREM SecretsStay ==
  ASSUME SecretsUnknown
  PROVE  EgressSpec => []SecretsToTheirRule
<1>1. ASSUME RulesInv PROVE SecretsToTheirRule
  <2>1. SUFFICES ASSUME Happened("forward") PROVE SecretsToTheirRule
    BY DEF SecretsToTheirRule
  <2> DEFINE r == out.request
             Bears(n) == out.headers[n] \in DOMAIN secrets
  <2>2. /\ stage = "up" /\ r \in Request /\ setup \in Setups
    BY <1>1, <2>1, SentByOwner DEF RulesInv, Configured
  <2>3. PICK i \in DOMAIN setup.allow :
          /\ setup.allow[i] \in HttpRule /\ Owner(r) = {i}
          /\ \E headers \in WithStatic(r.headers, setup.allow[i].headers) :
               out.headers = WithAuth(headers, setup.allow[i].auth)
    BY <1>1, <2>1, SentByOwner
  <2>4. PICK h \in WithStatic(r.headers, setup.allow[i].headers) :
          out.headers = WithAuth(h, setup.allow[i].auth)
    BY <2>3
  <2> DEFINE rule == setup.allow[i]
  <2>5. /\ DOMAIN h = DOMAIN r.headers
        /\ h = [n \in DOMAIN r.headers |-> h[n]]
        /\ \A n \in DOMAIN h : h[n] \notin DOMAIN secrets
    <3>1. /\ DOMAIN h = DOMAIN r.headers /\ h = [n \in DOMAIN r.headers |-> h[n]]
          /\ \A n \in DOMAIN h : h[n] = r.headers[n] \/ \E e \in rule.headers : h[n] = e.value
      BY StaticOrClient
    <3>2. rule.type \in HttpType
      BY <2>3 DEF HttpRule, HttpType
    <3>3. ASSUME NEW v, v \in DOMAIN secrets
          PROVE  /\ \A e \in rule.headers : e.value # v
                 /\ \A n \in DOMAIN r.headers : r.headers[n] # v
      <4>1. PICK j \in DOMAIN setup.allow : /\ setup.allow[j].type \in HttpType
                                            /\ setup.allow[j].auth # None
                                            /\ v = setup.allow[j].auth.secret
        BY <1>1, <2>2, <3>3, SecretsOfRules DEF Allowed
      <4>2. QED
        BY <2>2, <2>3, <3>2, <4>1, SecretsUnknown DEF SecretsUnknown
    <3>4. QED
      BY <3>1, <3>3
  <2>6. CASE rule.auth # None /\ secrets[rule.auth.secret]
    <3>1. out.headers = [h EXCEPT ![Lower[rule.auth.header]] = rule.auth.secret]
      BY <2>4, <2>6 DEF WithAuth
    <3>2. Lower[rule.auth.header] \in DOMAIN h
      BY <2>2, <2>3, <2>5, <2>6, RequestAssumption
    <3>3. rule.auth.secret \in DOMAIN secrets
      BY <1>1, <2>2, <2>3, <2>6, SecretsOfRules, ZenonT(60) DEF Allowed, HttpRule, HttpType
    <3>4. /\ DOMAIN out.headers = DOMAIN h
          /\ out.headers[Lower[rule.auth.header]] = rule.auth.secret
          /\ \A n \in DOMAIN h : n # Lower[rule.auth.header] => ~Bears(n)
      BY <2>5, <3>1, <3>2
    <3>5. QED
      BY <2>3, <2>6, <3>3, <3>4 DEF SecretsToTheirRule
  <2>7. CASE ~(rule.auth # None /\ secrets[rule.auth.secret])
    <3>1. out.headers = h
      BY <2>4, <2>7 DEF WithAuth
    <3>2. QED
      BY <2>3, <2>5, <2>7, <3>1 DEF SecretsToTheirRule
  <2>8. QED
    BY <2>6, <2>7
<1>2. QED
  BY <1>1, RulesInvariant, PTL

-----------------------------------------------------------------------------

\* A rule that ConfigHttpRule::into_library refuses would have matched no
\* request, or had none to give.
LEMMA RefusedIsDead ==
  ASSUME NEW s \in Setups, NEW i \in DOMAIN s.allow, ~Valid(s.allow[i]),
         NEW r \in Request, r.host # None
  PROVE  \/ s.allow[i].quota = 0
         \/ ~RuleMatches(IntoLibrary(s.allow[i]), r)
<1> DEFINE rule == s.allow[i]
           lib == IntoLibrary(rule)
<1>1. rule \in HttpRule
  BY EgressAssumption DEF Valid, TcpRule, HttpType
<1>2. /\ lib.host = rule.host /\ lib.path_prefixes = rule.path_prefixes
      /\ lib.methods = rule.methods
      /\ rule.ports # None => lib.ports = rule.ports
  BY <1>1 DEF IntoLibrary, HttpRule
<1> HIDE DEF lib
<1>3. {} # None
  BY EgressAssumption
<1>4. CASE rule.path_prefixes = {} \/ rule.methods = {} \/ rule.ports = {}
  <2>1. ~RuleMatches(lib, r)
    BY <1>2, <1>3, <1>4 DEF RuleMatches
  <2>2. QED
    BY <2>1 DEF lib
<1>5. CASE HasColon(rule.host) /\ ~EndsInBracket(rule.host)
  <2>1. Lower[rule.host] # Lower[r.host]
    BY <1>5, RequestAssumption DEF HasColon, EndsInBracket
  <2>2. ~RuleMatches(lib, r)
    BY <1>2, <2>1 DEF RuleMatches
  <2>3. QED
    BY <2>2 DEF lib
<1>6. QED
  BY <1>4, <1>5 DEF Valid

\* A launch is refused for a rule that was of no use, never for one that a
\* request could have had.
THEOREM OnlyDeadRefused == EgressSpec => []RefusesOnlyDead
<1>1. RulesInv => RefusesOnlyDead
  <2>1. SUFFICES ASSUME RulesInv, stage = "refused" PROVE RefusesOnlyDead
    BY DEF RefusesOnlyDead
  <2>2. PICK i \in DOMAIN setup.allow : ~Valid(setup.allow[i])
    BY <2>1 DEF RulesInv, Configured
  <2>3. \A r \in Request : r.host # None =>
          setup.allow[i].quota = 0 \/ ~RuleMatches(IntoLibrary(setup.allow[i]), r)
    BY <2>1, <2>2, RefusedIsDead DEF RulesInv, Configured
  <2>4. QED
    BY <2>2, <2>3 DEF RefusesOnlyDead
<1>2. QED
  BY <1>1, RulesInvariant, PTL

-----------------------------------------------------------------------------
\* The subnet of the bridge: what its mask says by bits is what the numbers
\* of the addresses say by order.

\* PowerOfTwo is what its definition says.
LEMMA Powers ==
  /\ PowerOfTwo[0] = 1
  /\ \A n \in Nat : PowerOfTwo[n] \in Nat \ {0} /\ PowerOfTwo[n + 1] = 2 * PowerOfTwo[n]
<1> DEFINE step == [x \in Nat \X Nat |-> 2 * x[2]]
           Upto(n, g) == Recursive(g, 0, n, Nat, 1, step)
           G(n) == CHOOSE g : Upto(n, g)
           f == [n \in Nat |-> G(n)[n]]
           Body(g) == [n \in Nat |-> IF n = 0 THEN 1 ELSE 2 * g[n - 1]]
           P == PowerOfTwo
<1>1. \A n, v \in Nat : step[<<n, v>>] = 2 * v
  OBVIOUS
<1>2. step \in [Nat \X Nat -> Nat]
  OBVIOUS
<1> HIDE DEF step
<1>3. \A n \in Nat : \E g : Upto(n, g)
  BY <1>2, Recursion
<1>4. ASSUME NEW n \in Nat
      PROVE  /\ G(n) \in [0 .. n -> Nat]
             /\ G(n)[0] = 1
             /\ \A i \in 1 .. n : G(n)[i] = 2 * G(n)[i - 1]
  <2>1. Upto(n, G(n))
    BY <1>3
  <2> HIDE DEF G
  <2>2. /\ G(n) \in [0 .. n -> Nat]
        /\ \A i \in 0 .. n : G(n)[i] = IF i = 0 THEN 1 ELSE step[<<i, G(n)[i - 1]>>]
    BY <2>1 DEF Recursive
  <2>3. \A i \in 1 .. n : i \in 0 .. n /\ i # 0 /\ i \in Nat /\ i - 1 \in 0 .. n
    OBVIOUS
  <2>4. 0 \in 0 .. n
    OBVIOUS
  <2>5. QED
    BY <1>1, <2>2, <2>3, <2>4
<1> HIDE DEF G
<1>5. ASSUME NEW n \in Nat \ {0}
      PROVE  G(n)[n - 1] = G(n - 1)[n - 1]
  <2> DEFINE m == n - 1
             u == G(n)
             v == G(m)
  <2>1. m \in Nat /\ n \in Nat /\ 0 <= m /\ 0 \in Nat
    OBVIOUS
  <2>2. u[0] = 1 /\ \A i \in 1 .. n : u[i] = 2 * u[i - 1]
    BY <1>4
  <2>3. v[0] = 1 /\ \A i \in 1 .. m : v[i] = 2 * v[i - 1]
    BY <1>4, <2>1
  <2>4. \A i \in 0 .. m : i # 0 => i \in 1 .. m /\ i \in 1 .. n
    BY <2>1
  <2> HIDE DEF m, u, v
  <2>5. GoAlike(u, v, 0, m)
    BY <2>2, <2>3, <2>4 DEF GoAlike
  <2>6. u[m] = v[m]
    BY <2>1, <2>5, OneFunction
  <2>7. QED
    BY <2>6 DEF m, u, v
<1>6. f = Body(f)
  <2>1. f[0] = 1
    BY <1>4
  <2>2. ASSUME NEW n \in Nat, n # 0
        PROVE  f[n] = 2 * f[n - 1]
    <3>1. n - 1 \in Nat /\ n \in 1 .. n /\ n \in Nat \ {0}
      BY <2>2
    <3>2. G(n)[n] = 2 * G(n)[n - 1]
      BY <1>4, <3>1
    <3>3. QED
      BY <1>5, <3>1, <3>2
  <2>3. f = [n \in Nat |-> f[n]]
    OBVIOUS
  <2> HIDE DEF f
  <2>4. QED
    BY <2>1, <2>2, <2>3
<1>7. P = Body(P)
  BY <1>6 DEF PowerOfTwo
<1> HIDE DEF P
<1>8. P[0] = 1 /\ \A n \in Nat : P[n + 1] = 2 * P[n]
  <2>1. \A n \in Nat : n + 1 \in Nat /\ n + 1 # 0 /\ (n + 1) - 1 = n
    OBVIOUS
  <2>2. QED
    BY <1>7, <2>1
<1>9. ASSUME NEW N \in Nat
      PROVE  P[N] \in Nat \ {0}
  <2> DEFINE Good == {n \in Nat : P[n] \in Nat \ {0}}
  <2>1. 0 \in Good /\ \A n \in Good : n + 1 \in Good
    BY <1>8
  <2>2. Good \in SUBSET Nat /\ N \in 0 .. N
    OBVIOUS
  <2> HIDE DEF Good
  <2>3. 0 .. N \subseteq Good
    BY <2>1, <2>2, Counting
  <2>4. QED
    BY <2>2, <2>3 DEF Good
<1>10. QED
  BY <1>8, <1>9 DEF P

\* What the lower bits of an address come to.
Lows(f, addr) ==
  /\ f \in [0 .. Width -> Nat]
  /\ f[0] = 0
  /\ \A n \in 1 .. Width :
       f[n] = IF addr[n - 1] THEN f[n - 1] + PowerOfTwo[n - 1] ELSE f[n - 1]
  /\ Number(addr) = f[Width]

LEMMA LowsExist ==
  ASSUME NEW addr \in Address
  PROVE  \E f : Lows(f, addr)
<1> DEFINE step == [x \in Nat \X Nat |->
                      IF x[1] \in 1 .. Width /\ addr[x[1] - 1]
                        THEN x[2] + PowerOfTwo[x[1] - 1] ELSE x[2]]
           Body(g) == [n \in 0 .. Width |->
                         IF n = 0 THEN 0
                                  ELSE IF addr[n - 1] THEN g[n - 1] + PowerOfTwo[n - 1] ELSE g[n - 1]]
           low == CHOOSE g : g = Body(g)
<1>1. Width \in Nat /\ \A n \in 1 .. Width : n \in Nat /\ n - 1 \in Nat
  BY EgressAssumption
<1>2. \A n \in 1 .. Width, v \in Nat :
        step[<<n, v>>] = IF addr[n - 1] THEN v + PowerOfTwo[n - 1] ELSE v
  BY <1>1
<1>3. step \in [Nat \X Nat -> Nat]
  <2>1. \A n \in 1 .. Width : PowerOfTwo[n - 1] \in Nat
    BY <1>1, Powers
  <2>2. QED
    BY <2>1
<1> HIDE DEF step
<1>4. PICK f : Recursive(f, 0, Width, Nat, 0, step)
  BY <1>1, <1>3, Recursion
<1>5. /\ f \in [0 .. Width -> Nat] /\ f[0] = 0
      /\ \A n \in 1 .. Width :
           f[n] = IF addr[n - 1] THEN f[n - 1] + PowerOfTwo[n - 1] ELSE f[n - 1]
  <2>1. 0 \in 0 .. Width /\ \A n \in 1 .. Width : n \in 0 .. Width /\ n # 0 /\ n - 1 \in 0 .. Width
    BY <1>1
  <2>2. /\ f \in [0 .. Width -> Nat]
        /\ \A n \in 0 .. Width : f[n] = IF n = 0 THEN 0 ELSE step[<<n, f[n - 1]>>]
    BY <1>4 DEF Recursive
  <2>3. QED
    BY <1>2, <2>1, <2>2
<1>6. \A n \in 0 .. Width : n # 0 => n \in 1 .. Width
  BY <1>1
<1>7. f = Body(f)
  <2>1. f = [n \in 0 .. Width |-> f[n]]
    BY <1>5
  <2>2. QED
    BY <1>5, <1>6, <2>1
<1>8. low = Body(low)
  BY <1>7
<1>9. Number(addr) = low[Width]
  BY DEF Number
<1> HIDE DEF low
<1>10. \A n \in 0 .. Width :
         low[n] = IF n = 0 THEN 0
                  ELSE IF addr[n - 1] THEN low[n - 1] + PowerOfTwo[n - 1] ELSE low[n - 1]
  BY <1>8
<1>11. low[Width] = f[Width]
  <2>1. GoAlike(low, f, 0, Width)
    <3>1. low[0] = f[0]
      BY <1>1, <1>5, <1>10
    <3>2. QED
      BY <1>5, <1>6, <1>10, <3>1 DEF GoAlike
  <2>2. QED
    BY <1>1, <2>1, OneFunction
<1>12. QED
  BY <1>5, <1>9, <1>11 DEF Lows

\* An address is in a network iff its bits from the host part on are the
\* network's: as far as bit n, and for all of them.
Compared(f, g, addr, network, host, n) ==
  /\ f[n] < PowerOfTwo[n]
  /\ n <= host => g[n] = 0
  /\ n >= host =>
       /\ g[n] + PowerOfTwo[host] <= PowerOfTwo[n]
       /\ IF \A b \in host .. n - 1 : addr[b] = network[b]
            THEN g[n] <= f[n] /\ f[n] < g[n] + PowerOfTwo[host]
            ELSE f[n] < g[n] \/ f[n] >= g[n] + PowerOfTwo[host]

LEMMA ComparedNext ==
  ASSUME NEW addr \in Address, NEW network \in Address, NEW host \in 0 .. Width,
         \A b \in Bit : b < host => ~network[b],
         NEW f, NEW g, Lows(f, addr), Lows(g, network),
         NEW n \in 0 .. Width - 1, Compared(f, g, addr, network, host, n)
  PROVE  Compared(f, g, addr, network, host, n + 1)
<1> DEFINE P == PowerOfTwo[n]
           H == PowerOfTwo[host]
           x == f[n]
           y == g[n]
<1>1. /\ n \in Nat /\ n \in Bit /\ n + 1 \in 1 .. Width /\ (n + 1) - 1 = n /\ host \in Nat
      /\ n \in 0 .. Width /\ Width \in Nat
  BY EgressAssumption DEF Bit
<1>2. P \in Nat /\ H \in Nat /\ x \in Nat /\ y \in Nat /\ PowerOfTwo[n + 1] = 2 * P
  BY <1>1, Powers DEF Lows
<1>3. /\ f[n + 1] = IF addr[n] THEN x + P ELSE x
      /\ g[n + 1] = IF network[n] THEN y + P ELSE y
  BY <1>1 DEF Lows
<1>4. addr[n] \in BOOLEAN /\ network[n] \in BOOLEAN
  BY <1>1 DEF Address
<1>5. x < P
  BY DEF Compared
<1> DEFINE agree == \A b \in host .. n - 1 : addr[b] = network[b]
           agreed == \A b \in host .. (n + 1) - 1 : addr[b] = network[b]
<1>6. n >= host => (agreed <=> agree /\ addr[n] = network[n])
  <2>1. n >= host => \A b : b \in host .. (n + 1) - 1 <=> b \in host .. n - 1 \/ b = n
    BY <1>1
  <2>2. QED
    BY <2>1
<1>7. n < host => y = 0 /\ ~network[n]
  BY <1>1 DEF Compared
<1>8. n >= host => /\ y + H <= P
                   /\ agree => y <= x /\ x < y + H
                   /\ ~agree => x < y \/ x >= y + H
  BY DEF Compared
<1>9. n + 1 = host => H = 2 * P /\ agreed
  BY <1>1, <1>2
<1> HIDE DEF P, H, x, y, agree, agreed
<1>10. f[n + 1] < 2 * P
  BY <1>2, <1>3, <1>5
<1>11. CASE n < host
  <2>1. g[n + 1] = 0
    BY <1>3, <1>7, <1>11
  <2>2. n + 1 >= host => n + 1 = host
    BY <1>1, <1>11
  <2>3. f[n + 1] \in Nat
    BY <1>2, <1>3
  <2>4. n + 1 >= host => /\ g[n + 1] + H <= 2 * P
                         /\ agreed
                         /\ g[n + 1] <= f[n + 1] /\ f[n + 1] < g[n + 1] + H
    BY <1>2, <1>9, <1>10, <2>1, <2>2, <2>3
  <2>5. QED
    BY <1>2, <1>10, <2>1, <2>4 DEF Compared, P, H, agreed
<1>12. CASE n >= host
  <2>1. ~(n + 1 <= host)
    BY <1>1, <1>12
  <2>2. g[n + 1] + H <= 2 * P
    BY <1>2, <1>3, <1>8, <1>12
  <2>3. agreed => g[n + 1] <= f[n + 1] /\ f[n + 1] < g[n + 1] + H
    BY <1>2, <1>3, <1>6, <1>8, <1>12
  <2>4. ~agreed => f[n + 1] < g[n + 1] \/ f[n + 1] >= g[n + 1] + H
    <3>1. CASE addr[n] = network[n]
      BY <1>2, <1>3, <1>6, <1>8, <1>12, <3>1
    <3>2. CASE addr[n] /\ ~network[n]
      BY <1>2, <1>3, <1>8, <1>12, <3>2
    <3>3. CASE ~addr[n] /\ network[n]
      BY <1>2, <1>3, <1>5, <3>3
    <3>4. QED
      BY <1>4, <3>1, <3>2, <3>3
  <2>5. QED
    BY <1>2, <1>10, <2>1, <2>2, <2>3, <2>4 DEF Compared, P, H, agreed
<1>13. QED
  BY <1>1, <1>11, <1>12

\* The bits of the mask and the interval of numbers name the same addresses.
LEMMA MaskIsInterval ==
  ASSUME NEW addr \in Address, NEW gateway \in Address, NEW host \in 0 .. Width,
         NEW network, network = [b \in Bit |-> b >= host /\ gateway[b]]
  PROVE  (\A b \in Bit : b >= host => addr[b] = gateway[b])
           <=> /\ Number(network) <= Number(addr)
               /\ Number(addr) < Number(network) + PowerOfTwo[host]
<1>1. /\ network \in Address
      /\ \A b \in Bit : b < host => ~network[b]
      /\ \A b \in Bit : b >= host => network[b] = gateway[b]
  <2>1. \A b \in Bit : b \in Nat /\ gateway[b] \in BOOLEAN
    BY EgressAssumption DEF Bit, Address
  <2>2. network \in Address
    BY <2>1 DEF Address
  <2>3. host \in Nat
    BY EgressAssumption
  <2>4. ASSUME NEW b \in Bit, b < host PROVE ~network[b]
    <3>1. ~(b >= host)
      BY <2>1, <2>3, <2>4
    <3>2. QED
      BY <3>1
  <2>5. ASSUME NEW b \in Bit, b >= host PROVE network[b] = gateway[b]
    <3>1. network[b] = (b >= host /\ gateway[b])
      OBVIOUS
    <3>2. gateway[b] \in BOOLEAN
      BY <2>1
    <3>3. QED
      BY <2>5, <3>1, <3>2
  <2>6. QED
    BY <2>2, <2>4, <2>5
<1>2. PICK f : Lows(f, addr)
  BY LowsExist
<1>3. PICK g : Lows(g, network)
  BY <1>1, LowsExist
<1> DEFINE Good == {n \in 0 .. Width : Compared(f, g, addr, network, host, n)}
<1>4. Width \in Nat /\ host \in Nat
  BY EgressAssumption
<1>5. 0 \in Good
  <2>1. f[0] = 0 /\ g[0] = 0 /\ PowerOfTwo[0] = 1 /\ 0 \in 0 .. Width
    BY <1>2, <1>3, <1>4, Powers DEF Lows
  <2>2. 0 >= host => host = 0
    BY <1>4
  <2>3. host = 0 => \A b \in host .. 0 - 1 : FALSE
    OBVIOUS
  <2>4. QED
    BY <2>1, <2>2, <2>3 DEF Compared
<1>6. ASSUME NEW n \in Good, n < Width
      PROVE  n + 1 \in Good
  <2>1. n \in 0 .. Width - 1 /\ n + 1 \in 0 .. Width /\ Compared(f, g, addr, network, host, n)
    BY <1>4, <1>6
  <2>2. Compared(f, g, addr, network, host, n + 1)
    BY <1>1, <1>2, <1>3, <2>1, ComparedNext
  <2>3. QED
    BY <2>1, <2>2
<1>7. Width \in Good
  <2>1. Good \in SUBSET Nat /\ Width \in 0 .. Width
    BY <1>4
  <2> HIDE DEF Good
  <2>2. QED
    BY <1>4, <1>5, <1>6, <2>1, Counting
<1>8. (\A b \in Bit : b >= host => addr[b] = gateway[b])
        <=> \A b \in host .. Width - 1 : addr[b] = network[b]
  <2>1. \A b : b \in host .. Width - 1 <=> b \in Bit /\ b >= host
    BY <1>4 DEF Bit
  <2>2. QED
    BY <1>1, <2>1
<1>9. /\ Number(addr) = f[Width] /\ Number(network) = g[Width]
      /\ f[Width] \in Nat /\ g[Width] \in Nat /\ PowerOfTwo[host] \in Nat
  <2>1. Width \in 0 .. Width
    BY <1>4
  <2>2. PowerOfTwo[host] \in Nat
    BY <1>4, Powers
  <2>3. QED
    BY <1>2, <1>3, <2>1, <2>2 DEF Lows
<1>10. Width >= host /\ Compared(f, g, addr, network, host, Width)
  BY <1>4, <1>7
<1>11. IF \A b \in host .. Width - 1 : addr[b] = network[b]
         THEN g[Width] <= f[Width] /\ f[Width] < g[Width] + PowerOfTwo[host]
         ELSE f[Width] < g[Width] \/ f[Width] >= g[Width] + PowerOfTwo[host]
  BY <1>10 DEF Compared
<1>12. QED
  BY <1>8, <1>9, <1>11

\* BridgeSubnet::has_instance, which masks bits, and the subnet as an interval
\* of addresses agree, for every prefix length that parses.
LEMMA InstanceIsOnBridge ==
  ASSUME NEW ip \in [family : {"v4", "mapped", "v6"}, addr : Address], setup \in Setups,
         Parse(setup.cidr) # None
  PROVE  HasInstance(Parse(setup.cidr), ip) <=> OnBridge(ip)
<1> DEFINE cidr == setup.cidr
           host == Width - cidr.prefix_len
           network == [b \in Bit |-> b >= host /\ cidr.gateway[b]]
<1>1. cidr.gateway \in Address /\ cidr.prefix_len \in Nat /\ Width \in Nat
  BY EgressAssumption
<1>2. Parse(cidr) = cidr /\ cidr.prefix_len <= Width
  BY DEF Parse
<1>3. host \in 0 .. Width
  BY <1>1, <1>2
<1>4. ip.addr \in Address /\ (ip.family # "v6" <=> ip.family \in {"v4", "mapped"})
  OBVIOUS
<1>5. \A b \in Bit : Mask(cidr.prefix_len)[b] <=> b >= host
  <2>1. \A b \in Bit : host < Width \/ ~(b >= host)
    BY <1>1, <1>3 DEF Bit
  <2>2. QED
    BY <2>1 DEF Mask
<1>6. (\A b \in Bit : b >= host => ip.addr[b] = cidr.gateway[b])
        <=> /\ Number(network) <= Number(ip.addr)
            /\ Number(ip.addr) < Number(network) + PowerOfTwo[host]
  <2> HIDE DEF host
  <2>1. QED
    BY <1>1, <1>3, <1>4, MaskIsInterval
<1>7. HasInstance(cidr, ip) <=> /\ ip.family # "v6" /\ ip.addr # cidr.gateway
                               /\ \A b \in Bit : b >= host => ip.addr[b] = cidr.gateway[b]
  BY <1>4, <1>5 DEF HasInstance
<1>8. QED
  BY <1>2, <1>6, <1>7 DEF OnBridge

\* The proxy serves the addresses of the bridge's subnet and no others, for
\* every prefix length from 0 to the width of an address.
THEOREM InstanceServed == EgressSpec => []ServedIsInstance
<1>1. PolicyInv => ServedIsInstance
  <2>1. SUFFICES ASSUME PolicyInv, Happened("forward") \/ Happened("reject")
                 PROVE  HasInstance(Parse(setup.cidr), out.request.client)
                          <=> OnBridge(out.request.client)
    BY DEF PolicyInv, ServedByAddress, ServedIsInstance
  <2>2. setup \in Setups /\ Parse(setup.cidr) # None /\ out.request \in Request
    BY <2>1 DEF PolicyInv, RulesInv, Configured, SentByRule, ServedByAddress, Happened
  <2>3. QED
    BY <2>2, RequestAssumption, InstanceIsOnBridge
<1>2. QED
  BY <1>1, PolicyInvariant, PTL

-----------------------------------------------------------------------------

\* To the proxies the rest of a run is stuttering: a run of celily implements
\* ProxyStartup, whose invariant therefore holds of it.
THEOREM RunImplementsStartup == EgressSpec => Spec
<1>1. EgressInit => Init
  BY DEF EgressInit
<1>2. [EgressNext]_egressVars => [Next]_vars
  <2>1. SUFFICES ASSUME EgressNext, ~Next PROVE UNCHANGED vars
    BY DEF egressVars
  <2>2. QED
    BY <2>1 DEF EgressNext, Convert, SetUp, Proxies, Traffic, Handle, Tunnel, Send, Lookup,
                NewWindow, Settle, Over, Quiet, egressVars
<1>3. QED
  BY <1>1, <1>2, PTL DEF EgressSpec, Spec

\* A run of celily does not take a start for done when a proxy had stopped
\* before its connection was accepted.
THEOREM RunNoticesStop == EgressSpec => []StopIsNoticed
  BY RunImplementsStartup, StopNoticed, PTL

=============================================================================
