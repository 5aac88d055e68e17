---------------------------- MODULE EgressPolicy -----------------------------
(***************************************************************************)
(* What the instance can send out: the rules of [[network.allow]], from    *)
(* the configuration file to the three places that enforce them. HTTP(S)   *)
(* rules are enforced by the proxy's handler and their names by the DNS    *)
(* proxy's, TCP rules by the ACL of the bridge (celily/src/config/         *)
(* network.rs; network/rule.rs, params.rs, handler.rs, dns_handler.rs and  *)
(* backend/lxd/acl.rs of celily-lib).                                      *)
(*                                                                         *)
(* The proxies start as in ProxyStartup, and may still stop afterwards.    *)
(* Lists whose order does not matter are sets, and so are the patterns of  *)
(* a request that the code compares without case, in `Lower`. Windows of   *)
(* time are QuotaWindow's subject: here a window ends at any moment.       *)
(***************************************************************************)
EXTENDS ProxyStartup, RequestPath

CONSTANTS
  Setups,    \* the launches considered: [allow, cidr, provider]
  Request,   \* HTTP requests, as proxelar hands them to the handler
  Packet,    \* what the instance sends without the proxy
  Query,     \* names it looks up
  Width,     \* bits of an IPv4 address: 32
  Lower,     \* name |-> the name in lower case, for hosts, headers and methods
  WithColon, \* names with a colon in them
  Bracketed, \* names that end in a bracket
  None       \* Option::None

Bit == 0 .. Width - 1
Address == [Bit -> BOOLEAN]     \* least significant bit first

\* A rule as the configuration file has it, defaults left out.
HttpRule == [type          : {"http", "https"},
             host          : DOMAIN Lower,
             ports         : (SUBSET Nat) \cup {None},
             path_prefixes : (SUBSET Path) \cup {None},
             auth          : [secret : STRING, header : DOMAIN Lower] \cup {None},
             headers       : SUBSET [name : DOMAIN Lower, value : STRING, printable : BOOLEAN],
             methods       : (SUBSET DOMAIN Lower) \cup {None},
             quota         : Nat \cup {None}]

TcpRule == [type : {"tcp"}, host : STRING, ports : SUBSET Nat]

ASSUME EgressAssumption ==
  /\ Width \in Nat \ {0}
  /\ \A s \in Setups :
       /\ s.allow \in Seq(HttpRule \cup TcpRule)
       /\ s.cidr \in [gateway : Address, prefix_len : Nat]
  /\ None \notin Nat /\ None # {}

\* The headers of a request have a place for every header a rule may set, and
\* the host in a URI has no colon but within brackets.
ASSUME RequestAssumption ==
  \A r \in Request :
    /\ r.client \in [family : {"v4", "mapped", "v6"}, addr : Address]
    /\ r.path \in Path
    /\ \A s \in Setups : \A i \in DOMAIN s.allow :
         s.allow[i] \in HttpRule /\ s.allow[i].auth # None =>
           Lower[s.allow[i].auth.header] \in DOMAIN r.headers
    /\ r.host # None =>
         \A host \in WithColon \ Bracketed : Lower[host] # Lower[r.host]

VARIABLES
  setup,    \* what this run of celily is configured with
  stage,    \* "config", "bridge", "up", or how the run failed
  rules,    \* the library's rules, in order
  acl,      \* rules of the egress ACL
  dnsmasq,  \* directives of the bridge's dnsmasq
  secrets,  \* resolved secret |-> can it be a header value?
  used,     \* rule |-> requests counted in its quota's current window
  out,      \* the latest event on the instance's network
  served    \* history: rule |-> requests of its window that went out

policy == <<setup, stage, rules, acl, dnsmasq, secrets>>
traffic == <<used, out, served>>
egressVars == <<vars, policy, traffic>>

-----------------------------------------------------------------------------
\* BridgeSubnet

Parse(cidr) == IF cidr.prefix_len <= Width THEN cidr ELSE None

\* Mutant of Mask: << takes the shift modulo the width.
MaskWrapped(prefix_len) == [b \in Bit |-> b >= (Width - prefix_len) % Width]

\* u32::MAX.checked_shl(32 - prefix_len), 0 when every bit is shifted out.
Mask(prefix_len) ==
  LET shift == Width - prefix_len
  IN  IF shift < Width THEN [b \in Bit |-> b >= shift] ELSE [b \in Bit |-> FALSE]

\* An IPv4 address may come mapped into IPv6.
HasInstance(subnet, ip) ==
  /\ ip.family \in {"v4", "mapped"}
  /\ ip.addr # subnet.gateway
  /\ \A b \in Bit : Mask(subnet.prefix_len)[b] => ip.addr[b] = subnet.gateway[b]

-----------------------------------------------------------------------------
\* The rules of the configuration, and the library's

HttpType == {"http", "https"}

DefaultPort(scheme) == IF scheme = "http" THEN 80 ELSE 443

DefaultMethods == {"GET", "HEAD"}

HasColon(host) == host \in WithColon
EndsInBracket(host) == host \in Bracketed

\* ConfigHttpRule::into_library fails on lists that read as "none", on a host
\* with a port and on a quota of no requests.
Valid(rule) ==
  rule.type \in HttpType =>
    /\ {} \notin {rule.path_prefixes, rule.methods, rule.ports}
    /\ HasColon(rule.host) => EndsInBracket(rule.host)
    /\ rule.quota # 0

IntoLibrary(rule) ==
  IF rule.type \in HttpType /\ rule.ports = None
    THEN [rule EXCEPT !.ports = {DefaultPort(rule.type)}]
    ELSE rule

RulesOf(type) == {rules[i] : i \in {j \in DOMAIN rules : rules[j].type \in type}}

-----------------------------------------------------------------------------
\* The ACL of the bridge

ProxyPort == 34975
DnsPort == 53

\* Mutant of AllowTcp: a rule without ports is passed on.
AllowTcpAll == {[host |-> r.host, ports |-> r.ports] : r \in RulesOf({"tcp"})}

\* NetworkParams::to_create_bridge_params leaves out a rule without ports.
AllowTcp == {[host |-> r.host, ports |-> r.ports] : r \in {t \in RulesOf({"tcp"}) : t.ports # {}}}

AclRule(protocol, destination, ports) ==
  [protocol |-> protocol, destination |-> destination, destination_port |-> ports]

BuildRules ==
  {AclRule("tcp", "gateway", {ProxyPort}),
   AclRule("udp", "gateway", {DnsPort}),
   AclRule("tcp", "gateway", {DnsPort})}
  \cup {AclRule("tcp", t.host, t.ports) : t \in AllowTcp}

\* LXD: what no rule allows is rejected (Isolation has the default action of
\* the bridge), and a rule without a port filter is for any port.
AclAllows(p) ==
  \E e \in acl :
    /\ p.protocol = e.protocol
    /\ p.destination = e.destination
    /\ e.destination_port = {} \/ p.port \in e.destination_port

-----------------------------------------------------------------------------
\* The names: the DNS proxy and the dnsmasq in front of it

\* An address in brackets is not a DNS name.
AllowedNames == {Lower[r.host] : r \in {h \in RulesOf(HttpType) : ~EndsInBracket(h.host)}}

\* Mutant of DnsmasqConfig: the host's resolvers are kept.
DnsmasqWithHost == {"no-poll", "cache-size=0", "server"}

DnsmasqConfig == {"no-resolv", "no-poll", "cache-size=0", "server"}

-----------------------------------------------------------------------------
\* rule_matches

Port(r) == IF r.port = None THEN DefaultPort(r.scheme) ELSE r.port

\* Mutant of RuleMatches: an empty list of prefixes restricts nothing.
RuleMatchesEmpty(rule, r) ==
  /\ rule.type = r.scheme
  /\ Lower[r.host] = Lower[rule.host]
  /\ Port(r) \in rule.ports
  /\ \/ rule.path_prefixes \in {None, {}}
     \/ \E prefix \in rule.path_prefixes : PathAllowed(r.path, prefix)
  /\ Lower[r.method] \in
       {Lower[m] : m \in IF rule.methods = None THEN DefaultMethods ELSE rule.methods}

RuleMatches(rule, r) ==
  /\ rule.type = r.scheme
  /\ Lower[r.host] = Lower[rule.host]
  /\ Port(r) \in rule.ports
  /\ \/ rule.path_prefixes = None
     \/ \E prefix \in rule.path_prefixes : PathAllowed(r.path, prefix)
  /\ Lower[r.method] \in
       {Lower[m] : m \in IF rule.methods = None THEN DefaultMethods ELSE rule.methods}

\* Mutant of Position: a rule whose quota is used up is passed over.
PositionWithRoom(r) ==
  {i \in DOMAIN rules :
     /\ RuleMatches(rules[i], r) /\ rules[i].quota # used[i]
     /\ \A j \in 1 .. i - 1 : ~(RuleMatches(rules[j], r) /\ rules[j].quota # used[j])}

\* The first rule that matches, if any does.
Position(r) ==
  {i \in DOMAIN rules :
     RuleMatches(rules[i], r) /\ \A j \in 1 .. i - 1 : ~RuleMatches(rules[j], r)}

-----------------------------------------------------------------------------
\* The headers of a forwarded request

\* The static headers are the entries of a HashMap, set in any order: when two
\* names differ in case only, either value stays.
WithStatic(headers, entries) ==
  LET Set(n) == {e.value : e \in {x \in entries : Lower[x.name] = n /\ x.printable}}
      After(n) == IF Set(n) = {} THEN {headers[n]} ELSE Set(n)
  IN  {h \in [DOMAIN headers -> UNION {After(n) : n \in DOMAIN headers}] :
         \A n \in DOMAIN headers : h[n] \in After(n)}

\* Mutant of WithAuth: what is there already is kept.
WithAuthKept(headers, auth) ==
  IF auth # None /\ secrets[auth.secret] /\ headers[Lower[auth.header]] = None
    THEN [headers EXCEPT ![Lower[auth.header]] = auth.secret]
    ELSE headers

\* The secret replaces what the client and the static headers put there,
\* unless it cannot be a header value.
WithAuth(headers, auth) ==
  IF auth # None /\ secrets[auth.secret]
    THEN [headers EXCEPT ![Lower[auth.header]] = auth.secret]
    ELSE headers

-----------------------------------------------------------------------------
\* A run of celily up to its proxies

EgressInit ==
  /\ Init
  /\ setup \in Setups
  /\ stage = "config"
  /\ rules = <<>>
  /\ acl = {} /\ dnsmasq = {} /\ secrets = <<>>
  /\ used = <<>> /\ served = <<>>
  /\ out = None

\* Mutant of Convert: a rule that does not convert is left out with a warning.
ConvertLenient ==
  LET allow == SelectSeq(setup.allow, Valid) IN
  /\ stage = "config"
  /\ rules' = [i \in DOMAIN allow |-> IntoLibrary(allow[i])]
  /\ stage' = "bridge"
  /\ used' = [i \in DOMAIN allow |-> 0]
  /\ served' = used'
  /\ UNCHANGED <<vars, setup, acl, dnsmasq, secrets, out>>

\* resolve_context converts every rule, or fails.
Convert ==
  /\ stage = "config"
  /\ \/ /\ \A i \in DOMAIN setup.allow : Valid(setup.allow[i])
        /\ rules' = [i \in DOMAIN setup.allow |-> IntoLibrary(setup.allow[i])]
        /\ stage' = "bridge"
        /\ used' = [i \in DOMAIN setup.allow |-> 0]
        /\ served' = used'
     \/ /\ \E i \in DOMAIN setup.allow : ~Valid(setup.allow[i])
        /\ stage' = "refused"
        /\ UNCHANGED <<rules, used, served>>
  /\ UNCHANGED <<vars, setup, acl, dnsmasq, secrets, out>>

NeededSecrets == {r.auth.secret : r \in {h \in RulesOf(HttpType) : h.auth # None}}

\* NetworkIsolation::setup, of which Isolation has every step: the bridge, its
\* subnet and its ACL, then the secrets. Any of it may fail; it must fail
\* without a subnet, or with a secret to resolve and no provider for it.
SetUp ==
  /\ stage = "bridge"
  /\ \/ /\ Parse(setup.cidr) # None
        /\ NeededSecrets # {} => setup.provider
        /\ acl' = BuildRules
        /\ dnsmasq' = DnsmasqConfig
        /\ secrets' \in [NeededSecrets -> BOOLEAN]
        /\ stage' = "up"
     \/ stage' = "failed" /\ UNCHANGED <<acl, dnsmasq, secrets>>
  /\ UNCHANGED <<vars, setup, rules, traffic>>

\* The proxies start, and may stop.
Proxies == stage = "up" /\ Next /\ UNCHANGED <<policy, traffic>>

-----------------------------------------------------------------------------
\* Traffic, once the start has returned and an instance runs on the bridge

Quiet == stage = "up" /\ at = "ready" /\ out = None /\ UNCHANGED <<vars, policy>>

Reject(r, why) ==
  /\ out' = [event |-> "reject", request |-> r, why |-> why]
  /\ UNCHANGED <<used, served>>

\* The early returns of handle_request, in their order.
Refusal(r) ==
  IF ~HasInstance(Parse(setup.cidr), r.client) THEN "not a client"
  ELSE IF r.host = None THEN "no host"
  ELSE IF r.scheme \notin HttpType THEN "scheme"
  ELSE IF r.override THEN "method override"
  ELSE IF Position(r) = {} THEN "policy"
  ELSE "none"

\* History: the rule of the configuration a request belongs to, which is the
\* first that the manual says it matches. There may be none.
Reading(rule, r) ==
  /\ rule.type = r.scheme
  /\ Lower[rule.host] = Lower[r.host]
  /\ IF rule.ports = None THEN Port(r) = DefaultPort(rule.type) ELSE Port(r) \in rule.ports
  /\ rule.path_prefixes # None =>
       \E prefix \in rule.path_prefixes : PathAllowed(r.path, prefix)
  /\ IF rule.methods = None
       THEN Lower[r.method] \in {Lower[m] : m \in DefaultMethods}
       ELSE \E m \in rule.methods : Lower[m] = Lower[r.method]

Owner(r) ==
  {i \in DOMAIN setup.allow :
     /\ Reading(setup.allow[i], r)
     /\ \A j \in 1 .. i - 1 : ~Reading(setup.allow[j], r)}

\* The request is counted against the quota of the rule, if it has one, gets
\* the rule's headers and goes out.
Forward(r, i) ==
  LET rule == rules[i] IN
  /\ rule.quota # None => used[i] < rule.quota
  /\ used' = IF rule.quota = None THEN used ELSE [used EXCEPT ![i] = @ + 1]
  /\ served' = [k \in DOMAIN served |->
                  IF k \in Owner(r) /\ setup.allow[k].quota # None THEN served[k] + 1
                                                                 ELSE served[k]]
  /\ \E headers \in WithStatic(r.headers, rule.headers) :
       out' = [event |-> "forward", request |-> r, headers |-> WithAuth(headers, rule.auth)]

Handle(r) ==
  /\ Quiet
  /\ task["http"] = "serving"
  /\ \/ Refusal(r) # "none" /\ Reject(r, Refusal(r))
     \/ Refusal(r) = "none" /\ \E i \in Position(r) :
          \/ Forward(r, i)
          \/ rules[i].quota # None /\ used[i] >= rules[i].quota /\ Reject(r, "quota")

Event(e) == out' = e /\ UNCHANGED <<used, served>>

\* handle_tunnel closes every tunnel.
Tunnel(p) ==
  Quiet /\ task["http"] = "serving" /\ Event([event |-> "drop", packet |-> p])

\* A packet past the proxy meets the ACL.
Send(p) ==
  /\ Quiet
  /\ Event([event |-> IF AclAllows(p) THEN "packet" ELSE "drop", packet |-> p])

\* A look-up goes to dnsmasq, which asks the servers of its directives: the
\* DNS proxy, and the host's resolvers unless no-resolv is set. handle_query
\* answers NXDOMAIN or forwards; no answer comes from a proxy that is down.
Lookup(q) ==
  /\ Quiet
  /\ AclAllows([protocol |-> "udp", destination |-> "gateway", port |-> DnsPort])
  /\ \/ /\ "server" \in dnsmasq /\ task["dns"] = "serving"
        /\ Event([event |-> IF Lower[q] \in AllowedNames THEN "resolve" ELSE "nxdomain",
                  name |-> q])
     \/ "no-resolv" \notin dnsmasq /\ Event([event |-> "resolve", name |-> q])
     \/ task["dns"] # "serving" /\ Event([event |-> "no answer", name |-> q])

Settle == out # None /\ out' = None /\ UNCHANGED <<vars, policy, used, served>>

\* A window of the rule's quota ends.
NewWindow(i) ==
  /\ Quiet
  /\ used[i] > 0
  /\ used' = [used EXCEPT ![i] = 0]
  /\ served' = [served EXCEPT ![i] = 0]
  /\ UNCHANGED out

Traffic ==
  \/ \E r \in Request : Handle(r)
  \/ \E p \in Packet : Tunnel(p) \/ Send(p)
  \/ \E q \in Query : Lookup(q)
  \/ \E i \in DOMAIN rules : NewWindow(i)
  \/ Settle

Over == stage \in {"refused", "failed"} /\ UNCHANGED egressVars

EgressNext == Convert \/ SetUp \/ Proxies \/ Traffic \/ Over

EgressSpec == EgressInit /\ [][EgressNext]_egressVars

\* celily's own steps: it runs them without waiting for anybody. The proxies
\* may hang.
Starting == Convert \/ SetUp \/ (stage = "up" /\ Wait /\ UNCHANGED <<policy, traffic>>)

FairEgressSpec == EgressSpec /\ WF_egressVars(Starting)
-----------------------------------------------------------------------------

Happened(event) == out # None /\ out.event = event

\* The rules of the run are those of the file, every one converted; the ACL
\* and dnsmasq are set up for exactly these rules.
Configured ==
  /\ setup \in Setups
  /\ stage \in {"config", "bridge", "up", "refused", "failed"}
  /\ stage \in {"config", "refused"} => rules = <<>>
  /\ stage = "refused" => \E i \in DOMAIN setup.allow : ~Valid(setup.allow[i])
  /\ stage \in {"bridge", "up", "failed"} =>
       /\ \A i \in DOMAIN setup.allow : Valid(setup.allow[i])
       /\ rules = [i \in DOMAIN setup.allow |-> IntoLibrary(setup.allow[i])]
       /\ used \in [DOMAIN rules -> Nat] /\ served \in [DOMAIN rules -> Nat]
  /\ stage = "up" =>
       /\ Parse(setup.cidr) # None
       /\ acl = BuildRules /\ dnsmasq = DnsmasqConfig
       /\ DOMAIN secrets = NeededSecrets
  /\ stage # "up" => out = None

\* What a quota has counted is what went out in its window.
QuotaKept ==
  \A i \in DOMAIN rules :
    LET rule == setup.allow[i]
    IN  rule.type \in HttpType /\ rule.quota # None =>
          served[i] = used[i] /\ used[i] <= rule.quota

\* The rules of the configuration with one of these types.
Allowed(type) == {i \in DOMAIN setup.allow : setup.allow[i].type \in type}

PacketAllowed(p) ==
  \/ p.destination = "gateway" /\ p.port \in {ProxyPort, DnsPort}
  \/ \E i \in Allowed({"tcp"}) :
       /\ p.protocol = "tcp"
       /\ p.destination = setup.allow[i].host
       /\ p.port \in setup.allow[i].ports

NameAllowed(q) == \E i \in Allowed(HttpType) : Lower[setup.allow[i].host] = Lower[q]

\* What has left belongs to a rule, and a request has the headers of its rule.
SentByRule ==
  /\ Happened("forward") =>
       /\ out.request \in Request
       /\ \E i \in Allowed(HttpType) \cap Owner(out.request) :
            \E headers \in WithStatic(out.request.headers, setup.allow[i].headers) :
              out.headers = WithAuth(headers, setup.allow[i].auth)
  /\ Happened("packet") => PacketAllowed(out.packet)
  /\ Happened("resolve") => NameAllowed(out.name)

\* What has been answered was answered by the address of the client.
ServedByAddress ==
  /\ Happened("forward") => HasInstance(Parse(setup.cidr), out.request.client)
  /\ Happened("reject") =>
       /\ out.request \in Request
       /\ out.why = "not a client" <=> ~HasInstance(Parse(setup.cidr), out.request.client)

RulesInv == Configured /\ QuotaKept /\ SentByRule

\* The inductive invariant behind OnlyConfiguredEgress, SecretsToTheirRule,
\* NoSecondChance, RefusesOnlyDead and ServedIsInstance.
PolicyInv == RulesInv /\ ServedByAddress

Permits(rule, r) ==
  /\ rule.type = r.scheme
  /\ Lower[rule.host] = Lower[r.host]
  /\ IF rule.ports = None THEN Port(r) = DefaultPort(rule.type) ELSE Port(r) \in rule.ports
  /\ rule.path_prefixes # None => \E prefix \in rule.path_prefixes : HeldByPrefix(r.path, prefix)
  /\ Lower[r.method] \in
       {Lower[m] : m \in IF rule.methods = None THEN DefaultMethods ELSE rule.methods}

\* The proxy, the ACL and the DNS proxy let out what a rule of the file
\* permits and nothing else, also when a proxy has stopped: a request on a
\* path that no server resolves outside the rule's prefixes, a packet to a
\* TCP rule's port, the host name of an HTTP rule.
OnlyConfiguredEgress ==
  /\ Happened("forward") => \E i \in Allowed(HttpType) : Permits(setup.allow[i], out.request)
  /\ Happened("packet") => PacketAllowed(out.packet)
  /\ Happened("resolve") => NameAllowed(out.name)

\* No client and no static header has a secret for its value: what a secret is
\* only the provider knows.
SecretsUnknown ==
  \A s \in Setups :
    LET Http == {s.allow[i] : i \in {j \in DOMAIN s.allow : s.allow[j].type \in HttpType}}
        Secret == {q.auth.secret : q \in {h \in Http : h.auth # None}}
    IN  /\ \A q \in Http : \A e \in q.headers : e.value \notin Secret
        /\ \A r \in Request : \A n \in DOMAIN r.headers : r.headers[n] \notin Secret

\* A secret goes out with a request only if the request belongs to a rule with
\* this secret, and then in the header of that rule, whatever the client and
\* the static headers put there; every request of the rule has it, unless the
\* secret cannot be a header value.
SecretsToTheirRule ==
  Happened("forward") =>
    LET auths == {setup.allow[i].auth : i \in Owner(out.request)} \ {None}
        Bears(n) == out.headers[n] \in DOMAIN secrets
    IN  /\ \A n \in DOMAIN out.headers : Bears(n) =>
              \E a \in auths : n = Lower[a.header] /\ out.headers[n] = a.secret
        /\ \A a \in auths : secrets[a.secret] => Bears(Lower[a.header])

\* The quota of a rule bounds the requests that belong to it, whichever rule
\* would let them out: a request that finds its rule's quota used up does not
\* fall through to a later rule.
NoSecondChance ==
  \A i \in DOMAIN rules :
    LET rule == setup.allow[i]
    IN  rule.type \in HttpType /\ rule.quota # None => served[i] <= rule.quota

\* A launch is refused only for a rule that no request could have used, had it
\* been accepted (the checks of ConfigHttpRule::into_library).
RefusesOnlyDead ==
  stage = "refused" =>
    \E i \in DOMAIN setup.allow :
      /\ ~Valid(setup.allow[i])
      /\ \/ setup.allow[i].quota = 0
         \/ \A r \in Request : r.host # None => ~RuleMatches(IntoLibrary(setup.allow[i]), r)

PowerOfTwo[n \in Nat] == IF n = 0 THEN 1 ELSE 2 * PowerOfTwo[n - 1]

\* The number an address is, to say by order what the mask says by bits.
Number(addr) ==
  LET low[n \in 0 .. Width] ==
        IF n = 0 THEN 0
                 ELSE IF addr[n - 1] THEN low[n - 1] + PowerOfTwo[n - 1] ELSE low[n - 1]
  IN  low[Width]

\* The subnet of the bridge: 2 ^ host addresses from the network's on.
OnBridge(ip) ==
  LET host    == Width - setup.cidr.prefix_len
      network == [b \in Bit |-> b >= host /\ setup.cidr.gateway[b]]
  IN  /\ ip.family # "v6"
      /\ ip.addr # setup.cidr.gateway
      /\ Number(network) <= Number(ip.addr)
      /\ Number(ip.addr) < Number(network) + PowerOfTwo[host]

\* The proxy serves the addresses of the bridge's subnet but the gateway, for
\* every prefix length from 0 to the width of an address, and no others.
ServedIsInstance ==
  /\ Happened("forward") => OnBridge(out.request.client)
  /\ Happened("reject") =>
       (out.why = "not a client" <=> ~OnBridge(out.request.client))

\* The launch is refused, fails or ends in proxies that run; it does not hang.
SetupEnds == <>(stage \in {"refused", "failed"} \/ at \in {"ready", "error"})
=============================================================================
