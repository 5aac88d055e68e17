--------------------------- MODULE MCEgressPolicy ----------------------------
(***************************************************************************)
(* A finite instance of EgressPolicy: three-bit addresses, two hosts, and  *)
(* rules that overlap, repeat, are invalid or cannot match.                *)
(***************************************************************************)
EXTENDS EgressPolicy, TLC

CONSTANT NoneValue

MCWidth == 3

MCLower ==
  LET same == {"api", "docs", "[::1]", "api:8443", "evil", "authorization", "x-team",
               "get", "post", "head"}
  IN  [n \in same |-> n]
      @@ [API |-> "api", GET |-> "get", POST |-> "post", HEAD |-> "head"]
      @@ ("X-Team" :> "x-team") @@ ("Authorization" :> "authorization")

MCWithColon == {"api:8443", "[::1]"}
MCBracketed == {"[::1]"}

\* Least significant bit first.
Addr(n) == [b \in 0 .. MCWidth - 1 |-> (n \div 2 ^ b) % 2 = 1]

Root == <<"/", "x">>

Http(type, host, ports, prefixes, auth, headers, methods, quota) ==
  [type |-> type, host |-> host, ports |-> ports, path_prefixes |-> prefixes,
   auth |-> auth, headers |-> headers, methods |-> methods, quota |-> quota]

Header(name, value) == [name |-> name, value |-> value, printable |-> TRUE]

N == NoneValue
Key == [secret |-> "key", header |-> "Authorization"]
Token == [secret |-> "token", header |-> "x-team"]
Team == {Header("X-Team", "one"), Header("x-team", "two")}
Basic == {Header("authorization", "basic"),
          [name |-> "x-team", value |-> "line break", printable |-> FALSE]}

Live == {Http("https", "api",  N,      N,      Key,   {},    N,        N),
         Http("https", "API",  N,      {Root}, N,     Team,  {"post"}, N),
         Http("https", "api",  {8443}, N,      Key,   Basic, N,        1),
         Http("https", "api",  N,      {Root}, Token, {},    N,        2),
         Http("http",  "api",  N,      N,      Token, Team,  N,        N),
         Http("http",  "docs", {80, 8443}, N,  N,     {},    {"GET", "POST"}, 1),
         [type |-> "tcp", host |-> "peer", ports |-> {22}],
         [type |-> "tcp", host |-> "peer", ports |-> {}]}

Dead == {Http("https", "api", {}, N,  N, {}, N,  N),
         Http("https", "api", N,  {}, N, {}, N,  N),
         Http("https", "api", N,  N,  N, {}, {}, N),
         Http("https", "api:8443", {8443}, N, N, {}, N, N),
         Http("https", "api", N,  N,  N, {}, N,  0)}

Odd == Http("http", "[::1]", N, N, N, {}, N, N)

Lists == {<<>>, <<Odd>>} \cup {<<a>> : a \in Live \cup Dead}
         \cup {<<a, b>> : a, b \in {l \in Live : l.ports # {}}}
         \cup {<<a, b>> : a \in Dead, b \in Live}

Launch(allow, gateway, len, provider) ==
  [allow |-> allow, provider |-> provider,
   cidr |-> [gateway |-> Addr(gateway), prefix_len |-> len]]

Open == Http("https", "api", N, N, N, {}, N, N)

MCSetups ==
  {Launch(l, 1, 1, TRUE) : l \in Lists}
  \cup {Launch(<<Open>>, g, len, FALSE) : g \in {1, 6}, len \in 0 .. MCWidth + 1}
  \cup {Launch(<<a>>, 1, 1, FALSE) : a \in Live}

Client(family, n) == [family |-> family, addr |-> Addr(n)]

Req(client, host, scheme, port, path, method, auth, override) ==
  [client |-> client, host |-> host, scheme |-> scheme, port |-> port, path |-> path,
   method |-> method, override |-> override,
   headers |-> [n \in {"authorization", "x-team"} |-> IF n = "authorization" THEN auth ELSE N]]

MCEscapes == [p2e |-> ".", p2f |-> "/", p5c |-> "\\", p3b |-> ";", p25 |-> "%"]

Paths == {Root, Root \o <<"/", "x">>, Root \o <<"x">>, Root \o <<"/", ".", "%", "p2e">>}

MCRequest ==
  {Req(Client("v4", 2), "api", s, port, path, m, N, FALSE) :
     s \in {"http", "https"}, port \in {N, 80, 8443}, path \in Paths, m \in {"GET", "POST"}}
  \cup {Req(Client("v4", 2), h, s, port, Root, "GET", "client", FALSE) :
     h \in {"API", "docs"}, s \in {"http", "https"}, port \in {N, 80, 8443}}
  \cup {Req(Client("v4", n), "api", "https", N, Root, "GET", N, FALSE) : n \in 0 .. 7}
  \cup {Req(Client(f, n), "api", "https", N, Root, "GET", N, FALSE) : f \in {"mapped", "v6"}, n \in {1, 3}}
  \cup {Req(Client("v4", 2), "[::1]", "http", N, Root, "head", N, FALSE),
        Req(Client("v4", 2), N, "http", N, Root, "GET", N, FALSE),
        Req(Client("v4", 2), "api", "ftp", N, Root, "GET", N, FALSE),
        Req(Client("v4", 2), "api", "https", N, Root, "GET", N, TRUE)}

MCPacket ==
  [protocol : {"tcp", "udp"}, destination : {"gateway", "peer", "other"},
   port : {22, 53, 443, ProxyPort}]

MCQuery == {"api", "API", "docs", "[::1]", "evil"}

\* The hypothesis of SecretsStay, in EgressPolicyProofs.
ASSUME SecretsUnknown
=============================================================================
