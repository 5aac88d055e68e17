-------------------------- MODULE MountPolicyProofs --------------------------
(***************************************************************************)
(* Proofs about MountPolicy, for any places, layouts, allowlists, mounts   *)
(* and number of symlinks: nothing forbidden is ever mounted, because no   *)
(* sandbox can touch the way to what is forbidden; and what a socket       *)
(* connection reaches is the socket that was checked.                      *)
(***************************************************************************)
EXTENDS MountPolicy, WellFoundedInduction, TLAPS

-----------------------------------------------------------------------------
\* Prefixes

LEMMA PrefixPointwise ==
  ASSUME NEW s \in Path, NEW t \in Path
  PROVE  Under(t, s) <=> Len(s) <= Len(t) /\ \A i \in 1 .. Len(s) : s[i] = t[i]
  BY DEF Under, IsPrefix, Path

LEMMA UnderTransitive ==
  ASSUME NEW s \in Path, NEW t \in Path, NEW u \in Path, Under(s, t), Under(t, u)
  PROVE  Under(s, u)
<1>1. Len(s) \in Nat /\ Len(t) \in Nat /\ Len(u) \in Nat
  BY DEF Path
<1>2. QED
  BY <1>1, PrefixPointwise

\* Two places above the same one, of the same depth, are the same.
LEMMA SameDepth ==
  ASSUME NEW s \in Path, NEW t \in Path, NEW u \in Path, Under(u, s), Under(u, t),
         Len(s) = Len(t)
  PROVE  s = t
<1>1. \A i \in 1 .. Len(s) : s[i] = t[i]
  BY PrefixPointwise
<1>2. QED
  BY <1>1 DEF Path

LEMMA Ancestor ==
  ASSUME NEW p \in Path, NEW i \in DOMAIN p
  PROVE  SubSeq(p, 1, i) \in Path /\ Under(p, SubSeq(p, 1, i))
<1> DEFINE s == SubSeq(p, 1, i)
<1>1. /\ i \in 1 .. Len(p) /\ Len(p) \in Nat
      /\ s \in Path /\ Len(s) = i /\ \A j \in 1 .. i : s[j] = p[j]
  BY DEF Path
<1> HIDE DEF s
<1>2. Under(p, s)
  BY <1>1, PrefixPointwise
<1>3. QED
  BY <1>1, <1>2 DEF s

-----------------------------------------------------------------------------
\* Resolution

\* A path without turns leads to where it says.
LEMMA Plain ==
  ASSUME NEW links, NEW q, Turns(links, q) = {}
  PROVE  Resolve(links, q) = IF q \in Places THEN q ELSE NoPath
<1>1. FollowOne(links, q) = q
  BY DEF FollowOne
<1>2. QED
  BY <1>1 DEF Resolve, FollowTwo

LEMMA Canonicalized ==
  ASSUME NEW p, CanonicalizeInHome(p) # NoPath
  PROVE  CanonicalizeInHome(p) \in Places /\ Turns(link, CanonicalizeInHome(p)) = {}
  BY DEF CanonicalizeInHome, Canonicalize, Resolve

\* Where a forbidden directory is.
At(links, d) == IF d \in DOMAIN links THEN links[d] ELSE d

LEMMA Paths ==
  /\ {Home, Config, Local, Share} \subseteq Path /\ ForbiddenDirs \subseteq Path
  /\ Len(Home) \in Nat /\ Len(Config) \in Nat
  /\ Len(Local) = Len(Home) + 1 /\ Len(Share) = Len(Home) + 2
<1>1. {Home, Config, Local, Share} \subseteq Path /\ ForbiddenDirs \subseteq Path
  BY MountAssumption
<1>2. Len(Local) = Len(Home) + 1
  BY <1>1 DEF Local, Path
<1>3. Len(Share) = Len(Local) + 1
  BY <1>1 DEF Share, Path
<1>4. QED
  BY <1>1, <1>2, <1>3 DEF Path

LEMMA ForbiddenPath ==
  ASSUME NEW d \in ForbiddenDirs
  PROVE  /\ d \in Path /\ Len(d) \in DOMAIN d /\ d[Len(d)] # ".." /\ SubSeq(d, 1, Len(d)) = d
         /\ ~Slashed(d)
<1>1. PICK c \in Path, x \in {"celily", "ssh", "keyrings"} : d = c \o <<x>>
  BY Paths DEF ForbiddenDirs
<1>2. d \in Path /\ Len(c) \in Nat
  <2>1. d \in Path
    BY Paths
  <2>2. Len(c) \in Nat
    BY <1>1 DEF Path
  <2>3. QED
    BY <2>1, <2>2
<1>3. Len(d) = Len(c) + 1 /\ d[Len(d)] = x
  BY <1>1, <1>2 DEF Path
<1>4. SubSeq(d, 1, Len(d)) = d
  BY <1>2 DEF Path
<1>5. ~Slashed(d)
  BY <1>1, <1>3 DEF Slashed, Last
<1>6. QED
  BY <1>1, <1>2, <1>3, <1>4, <1>5 DEF Path

LEMMA DirectResolves ==
  ASSUME NEW links, NEW d \in ForbiddenDirs, Direct(links, d)
  PROVE  Resolve(links, d) = At(links, d) /\ At(links, d) \in Places
<1>1. CASE d \notin DOMAIN links
  <2>1. Turns(links, d) = {}
    BY <1>1, ForbiddenPath DEF Direct, Turns
  <2>2. QED
    BY <1>1, <2>1, Plain DEF Direct, At
<1>2. CASE d \in DOMAIN links
  <2>1. Turns(links, d) = {Len(d)}
    BY <1>2, ForbiddenPath DEF Direct, Turns
  <2>2. links[d] \in Path
    BY <1>2, MountAssumption DEF Direct
  <2>3. FollowOne(links, d) = links[d]
    <3>1. FollowOne(links, d) = links[d] \o SubSeq(d, Len(d) + 1, Len(d))
      <4>1. NextTurn(links, d) = Len(d)
        BY <2>1, ForbiddenPath DEF NextTurn, Path
      <4>2. QED
        BY <2>1, <4>1, ForbiddenPath DEF FollowOne
    <3>2. SubSeq(d, Len(d) + 1, Len(d)) = <<>>
      BY ForbiddenPath DEF Path
    <3>3. QED
      BY <2>2, <3>1, <3>2 DEF Path
  <2>4. FollowOne(links, links[d]) = links[d] /\ Turns(links, links[d]) = {}
    BY <1>2 DEF Direct, FollowOne
  <2>5. QED
    BY <1>2, <2>3, <2>4 DEF Resolve, FollowTwo, Direct, At
<1>3. QED
  BY <1>1, <1>2

-----------------------------------------------------------------------------
\* The inductive invariant

\* The links do what the owner has them do at p.
AsLaidOut(p) ==
  /\ p \in DOMAIN link <=> p \in DOMAIN layout
  /\ p \in DOMAIN link => link[p] = layout[p]

\* Symlinks differ from the layout only below places that may be mounted.
LinkInv ==
  /\ layout \in Layouts
  /\ \A q \in DOMAIN link : q \in Path \ {<<>>} /\ Front(q) \in Places
  /\ \A p \in Path : AsLaidOut(p) \/ Exposed(p)

\* The mounts that are checked, and those that LXD has made, may be made.
SourceInv ==
  /\ mounts \in Seq([source : Path, rw : BOOLEAN])
  /\ checked \in 0 .. Len(mounts)
  /\ pc \in {"idle", "allow"} => checked = 0
  /\ pc \in {"create", "up"} => checked = Len(mounts)
  /\ pc = "mounts" =>
       /\ {Home, Config, Local, Share} \subseteq policy.forbidden.exact
       /\ \A d \in ForbiddenDirs : Meant(d) \in policy.forbidden.subtree
  /\ pc \in {"mounts", "create"} =>
       \A k \in 1 .. checked : MayMount(mounts[k].source) /\ Turns(link, mounts[k].source) = {}
  /\ pc # "up" => attached = {}
  /\ \A m \in attached : MayMount(m.place)

\* The socket is where no sandbox of the session can put a symlink.
SocketInv ==
  /\ pc = "create" /\ socket # NoPath =>
       /\ socket \in Places /\ Turns(link, socket) = {}
       /\ \A k \in DOMAIN mounts : mounts[k].rw => ~Under(socket, mounts[k].source)
  /\ pc = "up" /\ socket # NoPath =>
       /\ socket \in Places /\ Turns(link, socket) = {}
       /\ \A m \in attached : m.rw => ~Under(socket, m.place)
  /\ pc # "up" => reached = {}
  /\ reached \subseteq {socket}

MountInv ==
  /\ pc \in {"idle", "allow", "mounts", "create", "up"}
  /\ LinkInv /\ SourceInv /\ SocketInv

-----------------------------------------------------------------------------
\* The way to what is forbidden

LEMMA MeantAt ==
  ASSUME LinkInv, NEW d \in ForbiddenDirs
  PROVE  Direct(layout, d) /\ Meant(d) = At(layout, d) /\ Meant(d) \in Places
<1>1. Direct(layout, d)
  BY OwnerAssumption DEF LinkInv
<1>2. Meant(d) = Resolve(layout, d)
  BY ForbiddenPath DEF Meant, Canonicalize
<1>3. QED
  BY <1>1, <1>2, DirectResolves

\* A place on the way to a forbidden directory, at or below the home
\* directory, is the forbidden one or one that is not to be mounted itself.
LEMMA OnTheWay ==
  ASSUME NEW d \in ForbiddenDirs, NEW m \in Path, Under(d, m), Under(m, Home)
  PROVE  m \in {Home, Config, Local, Share, d}
<1>1. /\ d \in Path /\ Home \in Path /\ Config \in Path /\ Len(m) \in Nat
      /\ Len(Home) \in Nat /\ Len(Config) \in Nat
  BY MountAssumption DEF Path
<1>2. /\ Len(Home) <= Len(m) /\ Len(m) <= Len(d)
  BY <1>1, PrefixPointwise
<1>3. Len(m) = Len(d) => m = d
  <2>1. Under(d, d)
    BY <1>1, PrefixPointwise
  <2>2. QED
    BY <1>1, <2>1, SameDepth
<1>4. Len(m) = Len(Home) => m = Home
  <2>1. Under(m, m)
    BY PrefixPointwise
  <2>2. QED
    BY <1>1, <2>1, SameDepth
<1>5. CASE d = Home \o <<"ssh">>
  <2>1. Len(d) = Len(Home) + 1
    BY <1>1, <1>5 DEF Path
  <2>2. QED
    BY <1>1, <1>2, <1>3, <1>4, <2>1
<1>6. CASE d = Config \o <<"celily">>
  <2>1. Len(d) = Len(Config) + 1 /\ \A i \in 1 .. Len(Config) : d[i] = Config[i]
    BY <1>1, <1>6 DEF Path
  <2>2. CASE Len(m) <= Len(Config)
    <3>1. \A i \in 1 .. Len(m) : m[i] = d[i]
      BY <1>1, PrefixPointwise
    <3>2. \A i \in 1 .. Len(m) : m[i] = Config[i]
      BY <1>1, <2>1, <2>2, <3>1
    <3>3. Under(Config, m)
      BY <1>1, <2>2, <3>2, PrefixPointwise
    <3>4. Len(Config) <= Len(Home) + 1
      BY <1>1, <3>3, UnderTransitive, MountAssumption
    <3>5. Len(m) = Len(Config) => m = Config
      <4>1. Under(Config, Config)
        BY <1>1, PrefixPointwise
      <4>2. QED
        BY <1>1, <3>3, <4>1, SameDepth
    <3>6. QED
      BY <1>1, <1>2, <1>4, <2>2, <3>4, <3>5
  <2>3. QED
    BY <1>1, <1>2, <1>3, <2>1, <2>2
<1>7. CASE d = Share \o <<"keyrings">>
  <2>1. Len(d) = Len(Home) + 3 /\ \A i \in 1 .. Len(Share) : d[i] = Share[i]
    BY <1>1, <1>7, Paths DEF Path
  <2>2. \A i \in 1 .. Len(Local) : Share[i] = Local[i]
    BY Paths DEF Share, Path
  <2>3. Under(d, Share) /\ Under(d, Local)
    <3>1. \A i \in 1 .. Len(Local) : d[i] = Local[i]
      BY <2>1, <2>2, Paths
    <3>2. Len(Local) <= Len(d) /\ Len(Share) <= Len(d)
      BY <1>1, <2>1, Paths
    <3>3. QED
      BY <1>1, <2>1, <3>1, <3>2, Paths, PrefixPointwise
  <2>4. Len(m) = Len(Share) => m = Share
    BY <1>1, <2>3, Paths, SameDepth
  <2>5. Len(m) = Len(Local) => m = Local
    BY <1>1, <2>3, Paths, SameDepth
  <2>6. QED
    BY <1>1, <1>2, <1>3, <1>4, <2>1, <2>4, <2>5, Paths
<1>8. QED
  BY <1>5, <1>6, <1>7 DEF ForbiddenDirs

\* No sandbox can put or remove a symlink on the way to a forbidden directory:
\* what holds the way may not be mounted.
LEMMA WayIsSafe ==
  ASSUME LinkInv, NEW d \in ForbiddenDirs, NEW p \in Path,
         Under(d, p) \/ Under(Meant(d), p)
  PROVE  AsLaidOut(p)
<1> SUFFICES ASSUME Exposed(p) PROVE FALSE
  BY DEF LinkInv
<1>1. PICK m \in Places : MayMount(m) /\ m # p /\ Under(p, m)
  BY DEF Exposed
<1>2. m \in Path /\ d \in Path /\ Meant(d) \in Path
  BY MeantAt, MountAssumption
<1>3. CASE Under(Meant(d), p)
  BY <1>1, <1>2, <1>3, UnderTransitive DEF MayMount
<1>4. CASE Under(d, p)
  <2>1. Under(d, m)
    BY <1>1, <1>2, <1>4, UnderTransitive
  <2>2. m = d
    BY <1>1, <1>2, <2>1, OnTheWay DEF MayMount
  <2>3. Len(p) = Len(d)
    <3>1. Len(p) \in Nat /\ Len(d) \in Nat /\ Len(p) <= Len(d) /\ Len(d) <= Len(p)
      BY <1>1, <1>2, <1>4, <2>2, PrefixPointwise DEF Path
    <3>2. QED
      BY <3>1
  <2>4. Under(d, d)
    BY <1>2, PrefixPointwise
  <2>5. QED
    BY <1>1, <1>2, <1>4, <2>2, <2>3, <2>4, SameDepth
<1>5. QED
  BY <1>3, <1>4

\* Where links and layout agree above p, they turn at the same components.
LEMMA SameTurns ==
  ASSUME NEW p \in Path, \A q \in Path : Under(p, q) => AsLaidOut(q)
  PROVE  Turns(link, p) = Turns(layout, p)
<1>1. \A i \in DOMAIN p : AsLaidOut(SubSeq(p, 1, i))
  BY Ancestor
<1>2. QED
  BY <1>1 DEF Turns, AsLaidOut

\* The forbidden directories are always where the owner has them.
LEMMA ForbiddenStays ==
  ASSUME LinkInv, NEW d \in ForbiddenDirs
  PROVE  Resolve(link, d) = Meant(d)
<1>1. d \in Path /\ Meant(d) \in Path /\ Under(d, d)
  BY MeantAt, MountAssumption, PrefixPointwise
<1>2. Turns(link, d) = Turns(layout, d) /\ Turns(link, Meant(d)) = Turns(layout, Meant(d))
  BY <1>1, WayIsSafe, SameTurns
<1>3. AsLaidOut(d)
  BY <1>1, WayIsSafe
<1>4. Direct(link, d) /\ At(link, d) = At(layout, d)
  BY <1>2, <1>3, MeantAt DEF Direct, AsLaidOut, At
<1>5. QED
  BY <1>4, MeantAt, DirectResolves

\* Nor what is on the way: that is where its name says.
LEMMA WayStays ==
  ASSUME LinkInv
  PROVE  UnderForbidden(Local) = {Local} /\ UnderForbidden(Share) = {Share}
<1> DEFINE d == Share \o <<"keyrings">>
<1>1. /\ d \in ForbiddenDirs /\ d \in Path /\ d # <<>> /\ Front(d) = Share
      /\ Len(d) \in Nat /\ Len(d) = Len(Share) + 1
  <2>1. d \in ForbiddenDirs /\ d \in Path
    BY Paths DEF ForbiddenDirs
  <2>2. Len(d) = Len(Share) + 1
    BY Paths DEF Path
  <2>3. Front(d) = Share
    BY <2>1, <2>2, Paths DEF Front, Path
  <2>4. d # <<>> /\ Len(d) \in Nat
    BY <2>1, <2>2, Paths DEF Path
  <2>5. QED
    BY <2>1, <2>2, <2>3, <2>4
<1> HIDE DEF d
<1>2. Front(Share) = Local /\ Share # <<>>
  BY Paths DEF Share, Front, Path
<1>3. Share \in Places /\ Local \in Places
  <2>1. d \in Places \/ d \in DOMAIN layout
    BY <1>1, MeantAt DEF Direct
  <2>2. Share \in Places
    <3>1. d \in Places => Front(d) \in Places
      BY <1>1, MountAssumption
    <3>2. d \in DOMAIN layout => Front(d) \in Places
      BY OwnerAssumption DEF LinkInv
    <3>3. QED
      BY <1>1, <2>1, <3>1, <3>2
  <2>3. QED
    BY <1>2, <2>2, Paths, MountAssumption DEF Path
<1>4. ASSUME NEW p \in {Local, Share}
      PROVE  Turns(link, p) = {}
  <2>1. /\ p \in Path /\ Len(p) < Len(d) /\ \A i \in DOMAIN p : i \in DOMAIN d /\ i < Len(d) /\ p[i] = d[i]
    BY <1>1, <1>2, Paths DEF Front, Path
  <2>2. ASSUME NEW i \in DOMAIN p
        PROVE  SubSeq(p, 1, i) \notin DOMAIN link /\ p[i] # ".."
    <3>1. SubSeq(p, 1, i) = SubSeq(d, 1, i)
      BY <1>1, <2>1 DEF Path
    <3>2. AsLaidOut(SubSeq(d, 1, i))
      BY <1>1, <2>1, Ancestor, WayIsSafe
    <3>3. i \notin Turns(layout, d)
      <4>1. i \in Nat /\ i < Len(d)
        BY <2>1 DEF Path
      <4>2. i # Len(d)
        BY <1>1, <4>1
      <4>3. QED
        BY <1>1, <4>2, MeantAt DEF Direct
    <3>4. QED
      BY <2>1, <3>1, <3>2, <3>3 DEF Turns, AsLaidOut
  <2>3. QED
    BY <2>2 DEF Turns
<1>5. QED
  BY <1>3, <1>4, Plain, MountAssumption DEF UnderForbidden

-----------------------------------------------------------------------------
\* Resolution, of any path

\* A set of numbers has a least one.
LEMMA Least ==
  ASSUME NEW T \in SUBSET Nat, T # {}
  PROVE  \E x \in T : \A y \in T : x <= y
<1> DEFINE R == OpToRel(<, Nat)
<1>1. PICK x \in T : \A y \in T : ~(<<y, x>> \in R)
  <2>1. IsWellFoundedOn(R, Nat)
    BY NatLessThanWellFounded
  <2> HIDE DEF R
  <2>2. QED
    BY <2>1, WFMin
<1>2. ASSUME NEW y \in T PROVE x <= y
  <2>1. <<y, x>> \in Nat \X Nat /\ <<y, x>>[1] = y /\ <<y, x>>[2] = x
    OBVIOUS
  <2>2. ~(y < x)
    BY <1>1, <2>1 DEF OpToRel
  <2>3. QED
    BY <2>2
<1>3. QED
  BY <1>2

LEMMA Part ==
  ASSUME NEW c \in Path, NEW m \in Nat, NEW n \in 0 .. Len(c)
  PROVE  /\ SubSeq(c, m + 1, n) \in Path
         /\ Len(SubSeq(c, m + 1, n)) = IF m <= n THEN n - m ELSE 0
         /\ \A i \in 1 .. n - m : SubSeq(c, m + 1, n)[i] = c[m + i]
  BY DEF Path

LEMMA Start ==
  ASSUME NEW c \in Path, NEW n \in 0 .. Len(c)
  PROVE  /\ SubSeq(c, 1, n) \in Path /\ Len(SubSeq(c, 1, n)) = n
         /\ \A i \in 1 .. n : SubSeq(c, 1, n)[i] = c[i]
  BY DEF Path

LEMMA Joined ==
  ASSUME NEW a \in Path, NEW t \in Path
  PROVE  /\ a \o t \in Path /\ Len(a \o t) = Len(a) + Len(t)
         /\ Len(a) \in Nat /\ Len(t) \in Nat
         /\ \A i \in 1 .. Len(a) : (a \o t)[i] = a[i]
         /\ \A i \in 1 .. Len(t) : (a \o t)[Len(a) + i] = t[i]
  BY DEF Path

LEMMA Fronts ==
  ASSUME NEW q \in Path, q # <<>>
  PROVE  /\ Len(q) \in Nat \ {0} /\ Front(q) = SubSeq(q, 1, Len(q) - 1)
         /\ Front(q) \in Path /\ Len(Front(q)) = Len(q) - 1
         /\ \A i \in 1 .. Len(q) - 1 : Front(q)[i] = q[i]
<1>1. Len(q) \in Nat \ {0} /\ Len(q) - 1 \in 0 .. Len(q)
  BY DEF Path
<1>2. QED
  BY <1>1, Start DEF Front

LEMMA SamePath ==
  ASSUME NEW s \in Path, NEW t \in Path, Len(s) = Len(t), \A i \in 1 .. Len(s) : s[i] = t[i]
  PROVE  s = t
  BY DEF Path

\* Two paths that start alike have the same starts.
LEMMA SameStart ==
  ASSUME NEW s \in Path, NEW t \in Path, NEW n \in Nat, n <= Len(s), n <= Len(t),
         \A i \in 1 .. n : s[i] = t[i]
  PROVE  SubSeq(s, 1, n) = SubSeq(t, 1, n)
<1>1. n \in 0 .. Len(s) /\ n \in 0 .. Len(t)
  BY DEF Path
<1>2. QED
  BY <1>1, Start, SamePath

LEMMA PlainStart ==
  ASSUME NEW links, NEW c \in Path, NEW s \in Path, Len(s) <= Len(c),
         \A i \in 1 .. Len(s) : s[i] = c[i] /\ i \notin Turns(links, c)
  PROVE  Turns(links, s) = {}
<1> SUFFICES ASSUME NEW i \in DOMAIN s
             PROVE  s[i] # ".." /\ SubSeq(s, 1, i) \notin DOMAIN links
  BY DEF Turns
<1>1. /\ Len(s) \in Nat /\ Len(c) \in Nat /\ i \in 1 .. Len(s) /\ i \in DOMAIN c
      /\ i \in Nat /\ i <= Len(s) /\ i <= Len(c)
  BY DEF Path
<1>2. \A j \in 1 .. i : s[j] = c[j]
  BY <1>1
<1>3. SubSeq(s, 1, i) = SubSeq(c, 1, i)
  BY <1>1, <1>2, SameStart
<1>4. QED
  BY <1>1, <1>3 DEF Turns

\* The first turn of a path, after b, at x.
LEMMA FirstTurn ==
  ASSUME NEW links, NEW b \in Path, NEW x \in STRING, NEW t \in Path, Turns(links, b) = {},
         x = ".." \/ Append(b, x) \in DOMAIN links
  PROVE  FollowOne(links, Append(b, x) \o t) =
           (IF x = ".." THEN SubSeq(b, 1, Len(b) - 1) ELSE links[Append(b, x)]) \o t
<1> DEFINE q == Append(b, x)
           c == q \o t
           i == Len(b) + 1
<1>1. /\ q \in Path /\ Len(q) = i /\ Len(b) \in Nat /\ q[i] = x
      /\ \A j \in 1 .. Len(b) : q[j] = b[j]
  BY DEF Path
<1>2. /\ c \in Path /\ Len(c) = i + Len(t) /\ Len(t) \in Nat
      /\ \A j \in 1 .. i : c[j] = q[j]
      /\ \A j \in 1 .. Len(t) : c[i + j] = t[j]
  <2> HIDE DEF q
  <2>1. /\ c \in Path /\ Len(c) = Len(q) + Len(t) /\ Len(t) \in Nat
        /\ \A j \in 1 .. Len(q) : c[j] = q[j]
        /\ \A j \in 1 .. Len(t) : c[Len(q) + j] = t[j]
    BY <1>1, Joined
  <2>2. QED
    BY <1>1, <2>1
<1> HIDE DEF q, c
<1>3. SubSeq(c, 1, i) = q
  <2>1. i \in 0 .. Len(c)
    BY <1>1, <1>2
  <2>2. /\ SubSeq(c, 1, i) \in Path /\ Len(SubSeq(c, 1, i)) = Len(q)
        /\ \A j \in 1 .. Len(q) : SubSeq(c, 1, i)[j] = q[j]
    BY <1>1, <1>2, <2>1, Start
  <2>3. QED
    BY <1>1, <2>2, SamePath
<1>4. SubSeq(c, i + 1, Len(c)) = t
  <2>1. Len(c) \in 0 .. Len(c) /\ i \in Nat
    BY <1>1, <1>2
  <2>2. /\ SubSeq(c, i + 1, Len(c)) \in Path /\ Len(SubSeq(c, i + 1, Len(c))) = Len(t)
        /\ \A j \in 1 .. Len(t) : SubSeq(c, i + 1, Len(c))[j] = c[i + j]
    <3>1. i <= Len(c) /\ Len(c) - i = Len(t) /\ i \in Nat
      BY <1>1, <1>2
    <3>2. /\ SubSeq(c, i + 1, Len(c)) \in Path
          /\ Len(SubSeq(c, i + 1, Len(c))) = IF i <= Len(c) THEN Len(c) - i ELSE 0
          /\ \A j \in 1 .. Len(c) - i : SubSeq(c, i + 1, Len(c))[j] = c[i + j]
      BY <1>2, <2>1, Part
    <3>3. QED
      BY <3>1, <3>2
  <2>3. QED
    BY <1>2, <2>2, SamePath
<1>5. i \in Turns(links, c)
  <2>1. i \in DOMAIN c /\ c[i] = x
    BY <1>1, <1>2 DEF Path
  <2>2. QED
    BY <1>3, <2>1 DEF Turns, q
<1>6. ASSUME NEW j \in Turns(links, c)
      PROVE  i <= j
  <2>1. j \in 1 .. Len(c)
    BY <1>2 DEF Turns, Path
  <2>2. SUFFICES ASSUME j <= Len(b) PROVE FALSE
    BY <1>1, <2>1
  <2>3. j \in DOMAIN b /\ c[j] = b[j] /\ j <= Len(c)
    BY <1>1, <1>2, <2>1, <2>2 DEF Path
  <2>4. SubSeq(c, 1, j) = SubSeq(b, 1, j)
    <3>1. \A h \in 1 .. j : c[h] = b[h]
      BY <1>1, <1>2, <2>1, <2>2
    <3>2. QED
      BY <1>1, <1>2, <2>1, <2>2, <3>1, SameStart
  <2>5. j \in Turns(links, b)
    BY <2>3, <2>4 DEF Turns
  <2>6. QED
    BY <2>5
<1>7. NextTurn(links, c) = i
  <2>1. \A h \in Turns(links, c) : h \in Nat
    BY <1>2 DEF Turns, Path
  <2>2. QED
    BY <1>1, <1>5, <1>6, <2>1 DEF NextTurn
<1>8. x = ".." => SubSeq(c, 1, i - 2) = SubSeq(b, 1, Len(b) - 1)
  <2>1. CASE Len(b) = 0
    BY <2>1, <1>1, <1>2 DEF Path
  <2>2. CASE Len(b) > 0
    <3>1. i - 2 = Len(b) - 1 /\ i - 2 \in Nat /\ i - 2 <= Len(b) /\ i - 2 <= Len(c)
      BY <1>1, <1>2, <2>2
    <3>2. \A j \in 1 .. i - 2 : c[j] = b[j]
      BY <1>1, <1>2
    <3>3. SubSeq(c, 1, i - 2) = SubSeq(b, 1, i - 2)
      BY <1>2, <3>1, <3>2, SameStart
    <3>4. QED
      BY <3>1, <3>3
  <2>3. QED
    BY <1>1, <2>1, <2>2
<1>9. c[i] = x
  BY <1>1, <1>2
<1>10. FollowOne(links, c) =
         (IF x = ".." THEN SubSeq(b, 1, Len(b) - 1) ELSE links[q]) \o t
  <2> HIDE DEF i
  <2>1. Turns(links, c) # {}
    BY <1>5
  <2>2. FollowOne(links, c) =
          IF c[i] = ".." THEN SubSeq(c, 1, i - 2) \o SubSeq(c, i + 1, Len(c))
                         ELSE links[SubSeq(c, 1, i)] \o SubSeq(c, i + 1, Len(c))
    BY <1>7, <2>1 DEF FollowOne
  <2>3. QED
    BY <1>3, <1>4, <1>8, <1>9, <2>2
<1>11. QED
  BY <1>10 DEF c, q

\* What k turns make of p.
Follow(links, k, p) ==
  IF k = 0 THEN p ELSE
  IF k = 1 THEN FollowOne(links, p) ELSE
  IF k = 2 THEN FollowTwo(links, p) ELSE
  IF k = 3 THEN FollowOne(links, FollowTwo(links, p)) ELSE
  IF k = 4 THEN FollowTwo(links, FollowTwo(links, p)) ELSE
  IF k = 5 THEN FollowOne(links, FollowTwo(links, FollowTwo(links, p)))
           ELSE FollowTwo(links, FollowTwo(links, FollowTwo(links, p)))

LEMMA FollowNext ==
  ASSUME NEW links, NEW p, NEW k \in 0 .. 5
  PROVE  Follow(links, k + 1, p) = FollowOne(links, Follow(links, k, p))
  BY DEF Follow, FollowTwo

LEMMA FollowStays ==
  ASSUME NEW links, NEW p, NEW k \in 0 .. 6, Turns(links, Follow(links, k, p)) = {}
  PROVE  Resolve(links, p) = IF Follow(links, k, p) \in Places THEN Follow(links, k, p) ELSE NoPath
<1> DEFINE b == Follow(links, k, p)
           F(j) == Follow(links, j, p)
<1>1. FollowOne(links, b) = b
  BY DEF FollowOne
<1>2. \A j \in 0 .. 5 : F(j) = b => F(j + 1) = b
  BY <1>1, FollowNext
<1>3. F(k) = b
  OBVIOUS
<1> HIDE DEF b, F
<1>4. F(6) = b
  BY <1>2, <1>3
<1>5. Resolve(links, p) = IF b \in Places /\ Turns(links, b) = {} THEN b ELSE NoPath
  BY <1>4 DEF F, Follow, Resolve
<1>6. QED
  BY <1>5 DEF b

-----------------------------------------------------------------------------
\* Where a path leads now, and where it is meant to

\* What may be touched is in a directory below the home directory.
LEMMA ExposedInHome ==
  ASSUME NEW q \in Path, q # <<>>, Exposed(q), Front(q) \in Path
  PROVE  Under(Front(q), Home)
<1>1. PICK m \in Places : MayMount(m) /\ m # q /\ Under(q, m)
  BY DEF Exposed
<1>2. m \in Path /\ Home \in Path /\ Under(m, Home)
  BY <1>1, Paths, MountAssumption DEF MayMount
<1>3. /\ Len(m) \in Nat /\ Len(q) \in Nat /\ Len(Front(q)) = Len(q) - 1
      /\ \A i \in 1 .. Len(q) - 1 : Front(q)[i] = q[i]
  BY <1>2, Fronts DEF Path
<1>4. Len(m) <= Len(q) /\ \A i \in 1 .. Len(m) : m[i] = q[i]
  BY <1>1, <1>2, PrefixPointwise
<1>5. Len(m) # Len(q)
  BY <1>1, <1>2, <1>4, SamePath
<1>6. Under(Front(q), m)
  BY <1>2, <1>3, <1>4, <1>5, PrefixPointwise
<1>7. QED
  BY <1>2, <1>6, UnderTransitive

\* No sandbox touches the way to a place outside of the home directory.
LEMMA OutsideStays ==
  ASSUME LinkInv, NEW t, LeadsOutside(layout, t)
  PROVE  t \in Path /\ Turns(link, t) = {}
<1>1. ASSUME NEW q \in Path, Under(t, q)
      PROVE  AsLaidOut(q)
  <2> SUFFICES ASSUME Exposed(q) PROVE FALSE
    BY DEF LinkInv
  <2>1. PICK m \in Places : MayMount(m) /\ m # q /\ Under(q, m)
    BY DEF Exposed
  <2>2. m \in Path /\ t \in Path /\ Home \in Path /\ Under(m, Home) /\ m # Home
    BY <2>1, Paths, MountAssumption DEF MayMount, LeadsOutside
  <2>3. Under(t, m) /\ Under(t, Home)
    BY <1>1, <2>1, <2>2, UnderTransitive
  <2>4. t = Home
    BY <2>3 DEF LeadsOutside
  <2>5. Len(m) = Len(Home)
    <3>1. Len(m) \in Nat /\ Len(Home) \in Nat /\ Len(m) <= Len(Home) /\ Len(Home) <= Len(m)
      BY <2>2, <2>3, <2>4, PrefixPointwise DEF Path
    <3>2. QED
      BY <3>1
  <2>6. m = Home
    BY <2>2, <2>3, <2>4, <2>5, SameDepth
  <2>7. QED
    BY <2>2, <2>6
<1>2. t \in Path /\ Turns(layout, t) = {}
  BY DEF LeadsOutside
<1>3. QED
  BY <1>1, <1>2, SameTurns

Links == {link, layout}

\* p goes through a symlink in the home directory.
Crosses(links, p) ==
  \E n \in 1 .. Len(p) :
    /\ IsSymlink(links, SubSeq(p, 1, n))
    /\ Under(Resolve(links, SubSeq(p, 1, n - 1)), Home)

\* After k turns of p, the same for both: n components of p have become a, which
\* has no turns, and what comes after them is as in p.
Stage(k, p) ==
  \E n \in 0 .. Len(p), a \in Path :
    /\ \A l \in Links : Turns(l, a) = {}
    /\ \A m \in n .. Len(p) : \A l \in Links :
         Follow(l, k, SubSeq(p, 1, m)) = a \o SubSeq(p, n + 1, m)

LEMMA FirstStage ==
  ASSUME NEW p \in Path
  PROVE  Stage(0, p)
<1>1. /\ <<>> \in Path /\ \A l : Turns(l, <<>>) = {}
      /\ 0 \in 0 .. Len(p)
  BY DEF Turns, Path
<1>2. \A m \in 0 .. Len(p) : \A l \in Links :
        Follow(l, 0, SubSeq(p, 1, m)) = <<>> \o SubSeq(p, 0 + 1, m)
  <2>1. \A m \in 0 .. Len(p) : SubSeq(p, 1, m) \in Path
    BY Start
  <2>2. QED
    BY <2>1 DEF Follow, Path
<1>3. QED
  BY <1>1, <1>2 DEF Stage

\* What lies between.
LEMMA Between ==
  ASSUME NEW p \in Path, NEW a \in Path, NEW n \in 0 .. Len(p), NEW m \in n .. Len(p)
  PROVE  /\ SubSeq(p, n + 1, m) \in Path /\ a \o SubSeq(p, n + 1, m) \in Path
         /\ Len(a) \in Nat /\ Len(p) \in Nat /\ n \in Nat /\ m \in Nat
         /\ Len(a \o SubSeq(p, n + 1, m)) = Len(a) + (m - n)
         /\ \A i \in 1 .. Len(a) : (a \o SubSeq(p, n + 1, m))[i] = a[i]
         /\ \A i \in 1 .. m - n : (a \o SubSeq(p, n + 1, m))[Len(a) + i] = p[n + i]
<1>1. n \in Nat /\ m \in 0 .. Len(p) /\ n <= m /\ Len(p) \in Nat /\ m \in Nat
  BY DEF Path
<1> DEFINE t == SubSeq(p, n + 1, m)
<1>2. t \in Path /\ Len(t) = m - n /\ \A i \in 1 .. m - n : t[i] = p[n + i]
  BY <1>1, Part
<1> HIDE DEF t
<1>3. /\ a \o t \in Path /\ Len(a \o t) = Len(a) + (m - n) /\ Len(a) \in Nat
      /\ \A i \in 1 .. Len(a) : (a \o t)[i] = a[i]
      /\ \A i \in 1 .. m - n : (a \o t)[Len(a) + i] = t[i]
  <2>1. /\ a \o t \in Path /\ Len(a \o t) = Len(a) + Len(t) /\ Len(a) \in Nat
        /\ \A i \in 1 .. Len(a) : (a \o t)[i] = a[i]
        /\ \A i \in 1 .. Len(t) : (a \o t)[Len(a) + i] = t[i]
    BY <1>2, Joined
  <2>2. QED
    BY <1>2, <2>1
<1>4. QED
  BY <1>1, <1>2, <1>3 DEF t

\* The next stage: what turns next was there for the owner too, or p goes
\* through a symlink in the home directory.
LEMMA NextStage ==
  ASSUME LinkInv, NEW p \in Path, NEW k \in 0 .. 5, Stage(k, p),
         ~Crosses(link, p), ~Crosses(layout, p)
  PROVE  Stage(k + 1, p)
<1>1. PICK n \in 0 .. Len(p), a \in Path :
        /\ \A l \in Links : Turns(l, a) = {}
        /\ \A m \in n .. Len(p) : \A l \in Links :
             Follow(l, k, SubSeq(p, 1, m)) = a \o SubSeq(p, n + 1, m)
  BY DEF Stage
<1> DEFINE Way(m) == a \o SubSeq(p, n + 1, m)
           c == Way(Len(p))
           T == UNION {Turns(l, c) : l \in Links}
<1>2. /\ n \in Nat /\ Len(p) \in Nat /\ n <= Len(p) /\ Len(a) \in Nat
      /\ c \in Path /\ Len(c) = Len(a) + (Len(p) - n)
      /\ \A i \in 1 .. Len(a) : c[i] = a[i]
      /\ \A i \in 1 .. Len(p) - n : c[Len(a) + i] = p[n + i]
  <2>1. Len(p) \in n .. Len(p) /\ n \in Nat /\ n <= Len(p)
    BY DEF Path
  <2>2. QED
    BY <2>1, Between
<1>3. ASSUME NEW m \in n .. Len(p)
      PROVE  /\ Way(m) \in Path /\ Len(Way(m)) = Len(a) + (m - n) /\ Len(Way(m)) <= Len(c)
             /\ m \in Nat /\ n <= m /\ m <= Len(p)
             /\ \A i \in 1 .. Len(Way(m)) : Way(m)[i] = c[i]
  <2>1. /\ Way(m) \in Path /\ Len(Way(m)) = Len(a) + (m - n) /\ m \in Nat
        /\ \A i \in 1 .. Len(a) : Way(m)[i] = a[i]
        /\ \A i \in 1 .. m - n : Way(m)[Len(a) + i] = p[n + i]
    BY Between
  <2> HIDE DEF Way
  <2>2. n <= m /\ m <= Len(p)
    BY <1>2
  <2>3. ASSUME NEW i \in 1 .. Len(Way(m))
        PROVE  Way(m)[i] = c[i]
    <3>1. CASE i <= Len(a)
      BY <1>2, <2>1, <3>1
    <3>2. CASE i > Len(a)
      <4>1. i - Len(a) \in 1 .. m - n /\ i - Len(a) \in 1 .. Len(p) - n /\ Len(a) + (i - Len(a)) = i
        BY <1>2, <2>1, <2>2, <3>2
      <4>2. QED
        BY <1>2, <2>1, <4>1
    <3>3. QED
      BY <1>2, <2>1, <3>1, <3>2
  <2>4. QED
    BY <1>2, <2>1, <2>2, <2>3
<1> HIDE DEF Way, c
<1>4. \A m \in n .. Len(p) : \A l \in Links :
        Follow(l, k + 1, SubSeq(p, 1, m)) = FollowOne(l, Way(m))
  <2>1. ASSUME NEW m \in n .. Len(p), NEW l \in Links
        PROVE  Follow(l, k + 1, SubSeq(p, 1, m)) = FollowOne(l, Way(m))
    <3>1. Follow(l, k, SubSeq(p, 1, m)) = Way(m)
      BY <1>1 DEF Way
    <3>2. QED
      BY <3>1, FollowNext
  <2>2. QED
    BY <2>1
<1>5. CASE T = {}
  <2>1. ASSUME NEW m \in n .. Len(p), NEW l \in Links
        PROVE  FollowOne(l, Way(m)) = Way(m)
    <3>1. Turns(l, c) = {}
      BY <1>5
    <3>2. Turns(l, Way(m)) = {}
      BY <1>2, <1>3, <3>1, PlainStart
    <3>3. QED
      BY <3>2 DEF FollowOne
  <2>2. \A m \in n .. Len(p) : \A l \in Links :
          Follow(l, k + 1, SubSeq(p, 1, m)) = a \o SubSeq(p, n + 1, m)
    BY <1>4, <2>1 DEF Way
  <2>3. QED
    BY <1>1, <2>2 DEF Stage
<1>6. CASE T # {}
  <2>1. T \subseteq 1 .. Len(c) /\ T \subseteq Nat
    BY <1>2 DEF Turns, Path
  <2>2. PICK i \in T : \A j \in T : i <= j
    BY <1>6, <2>1, Least
  <2>3. i \in Nat /\ i \in 1 .. Len(c)
    BY <2>1
  <2>4. i > Len(a)
    <3> SUFFICES ASSUME i <= Len(a) PROVE FALSE
      BY <1>2, <2>3
    <3>1. PICK l \in Links : i \in Turns(l, c)
      OBVIOUS
    <3>2. SubSeq(c, 1, i) = SubSeq(a, 1, i)
      <4>1. i <= Len(c) /\ \A j \in 1 .. i : c[j] = a[j]
        BY <1>2, <2>3
      <4>2. QED
        BY <1>2, <2>3, <4>1, SameStart
    <3>3. i \in DOMAIN a /\ c[i] = a[i]
      BY <1>2, <2>3 DEF Path
    <3>4. i \in Turns(l, a)
      BY <3>1, <3>2, <3>3 DEF Turns
    <3>5. QED
      BY <1>1, <3>4
  <2> DEFINE h == n + (i - Len(a))
             x == p[h]
             b == Way(h - 1)
             q == Append(b, x)
  <2>5. /\ h \in Nat /\ h > n /\ h <= Len(p) /\ h - 1 \in n .. Len(p) /\ h \in n .. Len(p)
        /\ h \in 1 .. Len(p) /\ x \in STRING /\ x = c[i]
        /\ b \in Path /\ Len(b) = i - 1 /\ \A j \in 1 .. i - 1 : b[j] = c[j]
    <3>1. /\ h \in Nat /\ h > n /\ h <= Len(p) /\ h - 1 \in n .. Len(p) /\ h \in n .. Len(p)
          /\ h \in 1 .. Len(p)
      BY <1>2, <2>3, <2>4
    <3>2. x \in STRING
      BY <3>1 DEF Path
    <3>3. x = c[i]
      <4>1. i - Len(a) \in 1 .. Len(p) - n /\ Len(a) + (i - Len(a)) = i
        BY <1>2, <2>3, <2>4
      <4>2. QED
        BY <1>2, <4>1
    <3>4. b \in Path /\ Len(b) = i - 1 /\ \A j \in 1 .. i - 1 : b[j] = c[j]
      <4>1. /\ Way(h - 1) \in Path /\ Len(Way(h - 1)) = Len(a) + ((h - 1) - n)
            /\ \A j \in 1 .. Len(Way(h - 1)) : Way(h - 1)[j] = c[j]
        BY <1>3, <3>1
      <4>2. Len(a) + ((h - 1) - n) = i - 1
        BY <1>2, <2>3
      <4>3. QED
        BY <4>1, <4>2
    <3>5. QED
      BY <3>1, <3>2, <3>3, <3>4
  <2> HIDE DEF h, x, b
  <2>6. \A l \in Links : Turns(l, b) = {}
    <3>1. \A l \in Links : \A j \in 1 .. i - 1 : j \notin Turns(l, c)
      BY <2>2, <2>3
    <3>2. Len(b) <= Len(c)
      BY <1>2, <2>3, <2>5
    <3>3. QED
      BY <1>2, <2>5, <3>1, <3>2, PlainStart
  <2>7. /\ q \in Path /\ q # <<>> /\ Len(q) = i /\ q[i] = x /\ \A j \in 1 .. i - 1 : q[j] = b[j]
        /\ Front(q) = b
    <3>1. q \in Path /\ Len(q) = i /\ q[i] = x /\ \A j \in 1 .. i - 1 : q[j] = b[j]
      BY <2>3, <2>5 DEF Path
    <3> HIDE DEF q
    <3>2. q # <<>>
      BY <2>3, <3>1
    <3>3. Front(q) \in Path /\ Len(Front(q)) = i - 1 /\ \A j \in 1 .. i - 1 : Front(q)[j] = q[j]
      BY <3>1, <3>2, Fronts
    <3>4. Front(q) = b
      BY <2>5, <3>1, <3>3, SamePath
    <3>5. QED
      BY <3>1, <3>2, <3>4
  <2> HIDE DEF q
  <2>8. SubSeq(c, 1, i) = q
    <3>1. i \in 0 .. Len(c)
      BY <2>3
    <3>2. /\ SubSeq(c, 1, i) \in Path /\ Len(SubSeq(c, 1, i)) = i
          /\ \A j \in 1 .. i : SubSeq(c, 1, i)[j] = c[j]
      BY <1>2, <3>1, Start
    <3>3. \A j \in 1 .. i : q[j] = c[j]
      BY <2>3, <2>5, <2>7
    <3>4. QED
      BY <2>7, <3>2, <3>3, SamePath
  <2>9. x = ".." \/ \E l \in Links : q \in DOMAIN l
    BY <2>2, <2>5, <2>8 DEF Turns
  \* The symlink at q is the owner's.
  <2>10. ASSUME x # "..", NEW l \in Links, q \in DOMAIN l
         PROVE  /\ \A r \in Links : q \in DOMAIN r /\ r[q] = layout[q]
                /\ layout[q] \in Path /\ \A r \in Links : Turns(r, layout[q]) = {}
    <3>1. b \in Places
      BY <2>7, <2>10, OwnerAssumption DEF LinkInv, Links
    <3>2. Follow(l, k, SubSeq(p, 1, h - 1)) = b
      BY <1>1, <2>5 DEF Way, b
    <3>3. Resolve(l, SubSeq(p, 1, h - 1)) = b
      BY <2>6, <3>1, <3>2, FollowStays
    <3>4. IsSymlink(l, SubSeq(p, 1, h))
      <4> DEFINE s == SubSeq(p, 1, h)
      <4>1. s \in Path /\ Len(s) = h /\ s[h] = x /\ s # <<>>
        <5>1. h \in 0 .. Len(p) /\ h \in 1 .. h
          BY <1>2, <2>5
        <5>2. s \in Path /\ Len(s) = h /\ s[h] = p[h]
          BY <5>1, Start
        <5>3. s # <<>>
          BY <5>1, <5>2
        <5>4. QED
          BY <5>2, <5>3 DEF x
      <4>2. Front(s) = SubSeq(p, 1, h - 1)
        <5>1. h - 1 \in Nat /\ h - 1 <= Len(s) /\ h - 1 <= Len(p) /\ \A j \in 1 .. h - 1 : s[j] = p[j]
          BY <2>5, <4>1, Start
        <5> HIDE DEF s
        <5>2. SubSeq(s, 1, h - 1) = SubSeq(p, 1, h - 1)
          BY <4>1, <5>1, SameStart
        <5>3. QED
          BY <4>1, <5>2, Fronts
      <4>3. Last(s) = x
        BY <4>1 DEF Last
      <4> HIDE DEF s
      <4>4. IsSymlink(l, s)
        BY <2>10, <3>1, <3>3, <4>1, <4>2, <4>3, MountAssumption DEF IsSymlink, q
      <4>5. QED
        BY <4>4 DEF s
    <3>5. ~Under(b, Home)
      BY <2>5, <3>3, <3>4 DEF Crosses, Links
    <3>6. ~Exposed(q)
      BY <2>5, <2>7, <3>5, ExposedInHome
    <3>7. AsLaidOut(q)
      BY <2>7, <3>6 DEF LinkInv
    <3>8. q \in DOMAIN layout /\ q \in DOMAIN link /\ link[q] = layout[q]
      BY <2>10, <3>7 DEF AsLaidOut, Links
    <3>9. LeadsOutside(layout, layout[q])
      BY <2>7, <3>5, <3>8, OwnerAssumption DEF LinkInv
    <3>10. QED
      BY <3>8, <3>9, OutsideStays DEF Links, LeadsOutside
  <2> DEFINE e == IF x = ".." THEN SubSeq(b, 1, Len(b) - 1) ELSE layout[q]
  <2>11. e \in Path /\ \A l \in Links : Turns(l, e) = {}
    <3>1. CASE x = ".."
      <4>1. CASE Len(b) = 0
        <5>1. e = <<>>
          BY <2>5, <3>1, <4>1 DEF Path
        <5>2. <<>> \in Path /\ \A l : Turns(l, <<>>) = {}
          BY DEF Turns, Path
        <5> HIDE DEF e
        <5>3. QED
          BY <5>1, <5>2
      <4>2. CASE Len(b) # 0
        <5>1. Len(b) - 1 \in 0 .. Len(b) /\ Len(b) - 1 <= Len(b) /\ Len(b) \in Nat
          BY <2>3, <2>5, <4>2
        <5>2. e \in Path /\ Len(e) = Len(b) - 1 /\ \A j \in 1 .. Len(b) - 1 : e[j] = b[j]
          BY <2>5, <3>1, <5>1, Start
        <5> HIDE DEF e
        <5>3. \A l \in Links : Turns(l, e) = {}
          BY <2>5, <2>6, <5>1, <5>2, PlainStart
        <5>4. QED
          BY <5>2, <5>3
      <4>3. QED
        BY <4>1, <4>2
    <3>2. CASE x # ".."
      BY <2>9, <2>10, <3>2
    <3>3. QED
      BY <3>1, <3>2
  <2>12. ASSUME NEW m \in h .. Len(p), NEW l \in Links
         PROVE  FollowOne(l, Way(m)) = e \o SubSeq(p, h + 1, m)
    <3> DEFINE t == SubSeq(p, h + 1, m)
    <3>1. h \in 0 .. Len(p) /\ m \in n .. Len(p)
      BY <1>2, <2>5
    <3>2. /\ t \in Path /\ q \o t \in Path /\ Len(q \o t) = i + (m - h)
          /\ \A j \in 1 .. i : (q \o t)[j] = q[j]
          /\ \A j \in 1 .. m - h : (q \o t)[i + j] = p[h + j]
      BY <2>7, <3>1, Between
    <3>3. Way(m) = q \o t
      <4>1. /\ Way(m) \in Path /\ Len(Way(m)) = Len(a) + (m - n)
            /\ Len(Way(m)) <= Len(c) /\ \A j \in 1 .. Len(Way(m)) : Way(m)[j] = c[j]
            /\ m \in Nat /\ m <= Len(p)
        BY <1>3, <3>1
      <4>2. Len(Way(m)) = Len(q \o t)
        BY <1>2, <2>3, <2>5, <3>2, <4>1 DEF h
      <4> HIDE DEF t
      <4>3. ASSUME NEW j \in 1 .. Len(q \o t)
            PROVE  (q \o t)[j] = c[j]
        <5>1. CASE j <= i
          BY <2>3, <2>5, <2>7, <3>2, <5>1
        <5>2. CASE j > i
          <6>1. /\ j - i \in 1 .. m - h /\ i + (j - i) = j
                /\ j - Len(a) \in 1 .. Len(p) - n /\ Len(a) + (j - Len(a)) = j
                /\ h + (j - i) = n + (j - Len(a))
            <7>1. /\ i \in Int /\ n \in Int /\ Len(a) \in Int /\ Len(p) \in Int
                  /\ m \in Int /\ m <= Len(p) /\ Len(a) < i
              BY <1>2, <2>3, <2>4, <4>1
            <7>2. h = n + (i - Len(a))
              BY DEF h
            <7>3. j \in Int /\ j <= i + (m - h) /\ j > i
              BY <3>2, <5>2
            <7>4. QED
              BY <7>1, <7>2, <7>3
          <6>2. (q \o t)[i + (j - i)] = p[h + (j - i)]
            BY <3>2, <6>1
          <6>3. c[Len(a) + (j - Len(a))] = p[n + (j - Len(a))]
            BY <1>2, <6>1
          <6>4. QED
            BY <6>1, <6>2, <6>3
        <5>3. i \in Int /\ j \in Int
          BY <2>3, <3>2
        <5>4. QED
          BY <5>1, <5>2, <5>3
      <4>4. QED
        BY <3>2, <4>1, <4>2, <4>3, SamePath
    <3> HIDE DEF t
    <3>4. x = ".." \/ q \in DOMAIN l
      BY <2>9, <2>10
    <3>5. FollowOne(l, q \o t) = (IF x = ".." THEN SubSeq(b, 1, Len(b) - 1) ELSE l[q]) \o t
      <4> HIDE DEF t
      <4>1. Turns(l, b) = {} /\ (x = ".." \/ Append(b, x) \in DOMAIN l)
        BY <2>6, <3>4 DEF q
      <4>2. FollowOne(l, Append(b, x) \o t) =
              (IF x = ".." THEN SubSeq(b, 1, Len(b) - 1) ELSE l[Append(b, x)]) \o t
        <5>1. b \in Path /\ x \in STRING /\ t \in Path
          BY <2>5, <3>2
        <5>2. QED
          BY <4>1, <5>1, FirstTurn, ZenonT(180)
      <4>3. QED
        BY <4>2 DEF q
    <3>6. x # ".." => l[q] = layout[q]
      BY <2>9, <2>10
    <3>7. QED
      BY <3>3, <3>5, <3>6 DEF t
  <2> HIDE DEF e
  <2>13. h \in 0 .. Len(p) /\ \A m \in h .. Len(p) : m \in n .. Len(p)
    BY <1>2, <2>5
  <2>14. \A m \in h .. Len(p) : \A l \in Links :
           Follow(l, k + 1, SubSeq(p, 1, m)) = e \o SubSeq(p, h + 1, m)
    BY <1>4, <2>12, <2>13
  <2>15. QED
    BY <2>11, <2>13, <2>14 DEF Stage
<1>7. QED
  BY <1>5, <1>6

\* A path that goes through no symlink in the home directory leads to where the
\* owner means it to.
LEMMA LeadsAsMeant ==
  ASSUME LinkInv, NEW p \in Path, ~Crosses(link, p), ~Crosses(layout, p),
         Resolve(link, p) # NoPath, Resolve(layout, p) # NoPath
  PROVE  Resolve(link, p) = Resolve(layout, p)
<1>1. Stage(6, p)
  <2>1. Stage(0 + 1, p)
    BY FirstStage, NextStage
  <2>2. Stage(1 + 1, p)
    BY <2>1, NextStage
  <2>3. Stage(2 + 1, p)
    BY <2>2, NextStage
  <2>4. Stage(3 + 1, p)
    BY <2>3, NextStage
  <2>5. Stage(4 + 1, p)
    BY <2>4, NextStage
  <2>6. Stage(5 + 1, p)
    BY <2>5, NextStage
  <2>7. QED
    BY <2>6
<1>2. Follow(link, 6, p) = Follow(layout, 6, p)
  <2>1. PICK n \in 0 .. Len(p), a \in Path :
          \A m \in n .. Len(p) : \A l \in Links :
            Follow(l, 6, SubSeq(p, 1, m)) = a \o SubSeq(p, n + 1, m)
    BY <1>1 DEF Stage
  <2>2. Len(p) \in n .. Len(p) /\ SubSeq(p, 1, Len(p)) = p
    BY DEF Path
  <2>3. QED
    BY <2>1, <2>2 DEF Links
<1>3. QED
  BY <1>2 DEF Follow, Resolve

-----------------------------------------------------------------------------
\* The steps that leave the links alone

LEMMA LinksKept ==
  ASSUME LinkInv, UNCHANGED <<layout, link>>
  PROVE  LinkInv' /\ (\A d : Meant(d)' = Meant(d)) /\ (\A m : MayMount(m)' <=> MayMount(m))
<1>1. \A d : Meant(d)' = Meant(d)
  BY DEF Meant
<1>2. \A m : MayMount(m)' <=> MayMount(m)
  BY <1>1 DEF MayMount
<1>3. \A p : (AsLaidOut(p)' <=> AsLaidOut(p)) /\ (Exposed(p)' <=> Exposed(p))
  BY <1>2 DEF AsLaidOut, Exposed
<1>4. LinkInv'
  BY <1>3 DEF LinkInv
<1>5. QED
  BY <1>1, <1>2, <1>4

LEMMA InitMount == Init => MountInv
<1> SUFFICES ASSUME Init PROVE MountInv
  OBVIOUS
<1>1. LinkInv
  BY OwnerAssumption DEF Init, LinkInv, AsLaidOut
<1>2. SourceInv /\ SocketInv
  BY DEF Init, SourceInv, SocketInv
<1>3. QED
  BY <1>1, <1>2 DEF Init, MountInv

LEMMA ExitStep == ASSUME MountInv, Exit PROVE MountInv'
<1>1. LinkInv'
  BY LinksKept DEF MountInv, Exit, config
<1>2. SourceInv' /\ SocketInv'
  BY DEF Exit, SourceInv, SocketInv
<1>3. QED
  BY <1>1, <1>2 DEF Exit, MountInv

LEMMA LaunchStep == ASSUME MountInv, Launch PROVE MountInv'
<1>1. /\ UNCHANGED <<layout, link, checked, attached, reached>>
      /\ pc = "idle" /\ pc' = "allow" /\ checked = 0 /\ attached = {} /\ reached = {}
  BY DEF Launch, config, use, MountInv, SourceInv, SocketInv
<1>2. mounts' \in Seq([source : Path, rw : BOOLEAN])
  <2>a. PICK asked \in BOOLEAN, rw \in BOOLEAN, n \in 0 .. MaxMounts :
          \E o \in [1 .. n -> [source : Written, rw : BOOLEAN]] :
            mounts' = ProjectMount(worktree', asked, rw) \o o
    BY DEF Launch
  <2>1. PICK others \in [1 .. n -> [source : Written, rw : BOOLEAN]] :
          mounts' = ProjectMount(worktree', asked, rw) \o others
    BY <2>a
  <2> DEFINE M == [source : Path, rw : BOOLEAN]
  <2>2. others \in Seq(M)
    <3>1. n \in Nat
      BY MountAssumption
    <3>2. [source : Written, rw : BOOLEAN] \subseteq M
      BY MountAssumption
    <3>3. others \in [1 .. n -> M]
      BY <3>2
    <3> HIDE DEF M
    <3>4. QED
      BY <3>1, <3>3
  <2>3. ProjectMount(worktree', asked, rw) \in Seq(M)
    <3>1. Project \in Path /\ worktree' \in BOOLEAN
      BY MountAssumption DEF Launch
    <3>2. [source |-> Project, rw |-> ~worktree' /\ rw] \in M
      BY <3>1
    <3> HIDE DEF M
    <3>3. <<[source |-> Project, rw |-> ~worktree' /\ rw]>> \in Seq(M)
      BY <3>2
    <3>4. QED
      BY <3>3 DEF ProjectMount
  <2> HIDE DEF M
  <2>4. mounts' \in Seq(M)
    BY <2>1, <2>2, <2>3
  <2>5. QED
    BY <2>4 DEF M
<1>3. checked' \in 0 .. Len(mounts')
  BY <1>1, <1>2
<1>4. QED
  BY <1>1, <1>2, <1>3, LinksKept DEF MountInv, SourceInv, SocketInv

\* The forbidden list of a session has the directories the owner means.
LEMMA AllowStep == ASSUME MountInv, ReadAllowlists PROVE MountInv'
<1>1. CASE Exit
  BY <1>1, ExitStep
<1>2. CASE ~Exit
  <2>1. /\ UNCHANGED <<layout, link, mounts, checked, attached, reached>>
        /\ pc = "allow" /\ pc' = "mounts" /\ checked = 0 /\ attached = {} /\ reached = {}
        /\ policy'.forbidden = ForbiddenMounts
    BY <1>2 DEF ReadAllowlists, config, use, MountInv, SourceInv, SocketInv
  <2>2. ASSUME NEW d \in ForbiddenDirs
        PROVE  Meant(d) \in ForbiddenMounts.subtree
    <3>1. Resolve(link, d) = Meant(d)
      BY ForbiddenStays DEF MountInv
    <3>2. Meant(d) # NoPath
      BY MeantAt, MountAssumption DEF MountInv
    <3>3. QED
      BY <3>1, <3>2 DEF ForbiddenMounts, UnderForbidden
  <2>3. {Home, Config, Local, Share} \subseteq ForbiddenMounts.exact
    BY WayStays DEF ForbiddenMounts, MountInv
  <2>4. QED
    BY <2>1, <2>2, <2>3, LinksKept DEF MountInv, SourceInv, SocketInv
<1>3. QED
  BY <1>1, <1>2

LEMMA CheckMountStep == ASSUME MountInv, CheckMount PROVE MountInv'
<1> DEFINE k == checked + 1
           place == CanonicalizeInHome(mounts[k].source)
<1>1. CASE Exit
  BY <1>1, ExitStep
<1>2. CASE ~Exit
  <2>1. /\ UNCHANGED <<layout, link, pc, policy, attached, reached, socket>>
        /\ pc = "mounts" /\ checked < Len(mounts) /\ MountAllowed(place)
        /\ mounts' = [mounts EXCEPT ![k].source = place] /\ checked' = k
    BY <1>2 DEF CheckMount, config, use
  <2>2. place \in Places /\ Turns(link, place) = {}
    BY <2>1, Canonicalized DEF MountAllowed
  <2> HIDE DEF place
  <2>3. /\ mounts \in Seq([source : Path, rw : BOOLEAN]) /\ checked \in 0 .. Len(mounts)
        /\ Len(mounts) \in Nat
    BY DEF MountInv, SourceInv
  <2>4. k \in 1 .. Len(mounts) /\ place \in Path
    BY <2>1, <2>2, <2>3, MountAssumption
  <2>5. /\ mounts' \in Seq([source : Path, rw : BOOLEAN]) /\ Len(mounts') = Len(mounts)
        /\ mounts'[k].source = place
        /\ \A j \in 1 .. checked : mounts'[j] = mounts[j]
    <3> DEFINE M == [source : Path, rw : BOOLEAN]
               r == [mounts[k] EXCEPT !.source = place]
    <3>1. mounts \in Seq(M) /\ \A j \in 1 .. checked : j \in 1 .. Len(mounts) /\ j # k
      BY <2>3
    <3> HIDE DEF M
    <3>2. mounts[k] \in M
      BY <2>4, <3>1
    <3>3. r \in M /\ r.source = place
      BY <2>4, <3>2 DEF M
    <3>4. mounts' = [mounts EXCEPT ![k] = r]
      BY <2>1
    <3> HIDE DEF r
    <3>5. mounts' \in Seq(M) /\ Len(mounts') = Len(mounts) /\ mounts'[k] = r
      BY <2>4, <3>1, <3>3, <3>4
    <3>6. \A j \in 1 .. checked : mounts'[j] = mounts[j]
      BY <3>1, <3>4
    <3>7. QED
      BY <3>3, <3>5, <3>6 DEF M
  <2>6. MayMount(place)
    BY <2>1, <2>2 DEF MountAllowed, Passes, MountInv, SourceInv, MayMount
  <2>7. \A j \in 1 .. k : MayMount(mounts'[j].source) /\ Turns(link, mounts'[j].source) = {}
    <3>1. \A j \in 1 .. checked :
            MayMount(mounts[j].source) /\ Turns(link, mounts[j].source) = {}
      BY <2>1 DEF MountInv, SourceInv
    <3>2. \A j \in 1 .. k : j = k \/ j \in 1 .. checked
      BY <2>3
    <3>3. QED
      BY <2>2, <2>5, <2>6, <3>1, <3>2
  <2>8. LinkInv' /\ (\A d : Meant(d)' = Meant(d)) /\ (\A m : MayMount(m)' <=> MayMount(m))
    BY <2>1, LinksKept DEF MountInv
  <2>9. SourceInv'
    <3>1. \A j \in 1 .. checked' :
            MayMount(mounts'[j].source) /\ Turns(link', mounts'[j].source) = {}
      BY <2>1, <2>7
    <3>2. \A j \in 1 .. checked' : MayMount(mounts[j].source)'
      BY <2>8, <3>1
    <3>3. checked' \in 0 .. Len(mounts')
      BY <2>1, <2>4, <2>5, <2>3
    <3>4. pc = "mounts" /\ attached = {}
      BY <2>1 DEF MountInv, SourceInv
    <3>5. /\ {Home, Config, Local, Share} \subseteq policy'.forbidden.exact
          /\ \A d \in ForbiddenDirs : Meant(d)' \in policy'.forbidden.subtree
      BY <2>1, <2>8 DEF MountInv, SourceInv
    <3>6. QED
      BY <2>1, <2>5, <3>1, <3>2, <3>3, <3>4, <3>5 DEF SourceInv
  <2>10. SocketInv'
    BY <2>1 DEF MountInv, SocketInv
  <2>11. QED
    BY <2>1, <2>8, <2>9, <2>10 DEF MountInv
<1>3. QED
  BY <1>1, <1>2

LEMMA SocketStep == ASSUME MountInv, CheckSocket \/ NoSocket PROVE MountInv'
<1>1. CASE Exit
  BY <1>1, ExitStep
<1>2. CASE ~Exit
  <2>1. /\ UNCHANGED <<layout, link, mounts, checked, policy, attached, reached>>
        /\ pc = "mounts" /\ pc' = "create" /\ checked = Len(mounts)
        /\ socket' = NoPath \/ (\E s : socket' = CanonicalizeInHome(s) /\ SocketAllowed(socket'))
    BY <1>2 DEF CheckSocket, NoSocket, config, asks, use
  <2>2. socket' # NoPath =>
          /\ socket' \in Places /\ Turns(link, socket') = {}
          /\ \A k \in DOMAIN mounts : mounts[k].rw => ~Under(socket', mounts[k].source)
    BY <2>1, Canonicalized DEF SocketAllowed, OutOfReach
  <2>3. LinkInv' /\ (\A d : Meant(d)' = Meant(d)) /\ (\A m : MayMount(m)' <=> MayMount(m))
    BY <2>1, LinksKept DEF MountInv
  <2>4. SourceInv'
    BY <2>1, <2>3 DEF MountInv, SourceInv
  <2>5. SocketInv'
    BY <2>1, <2>2 DEF MountInv, SocketInv
  <2>6. QED
    BY <2>1, <2>3, <2>4, <2>5 DEF MountInv
<1>3. QED
  BY <1>1, <1>2

\* What LXD mounts is what was checked: nothing has moved since.
LEMMA CreateStep == ASSUME MountInv, Create PROVE MountInv'
<1>1. /\ UNCHANGED <<layout, link, mounts, checked, policy, socket, reached>>
      /\ pc = "create" /\ pc' = "up" /\ checked = Len(mounts)
      /\ attached' = {[place |-> Resolve(link, mounts[k].source), rw |-> mounts[k].rw] :
                        k \in DOMAIN mounts}
  BY DEF Create, config, asks, MountInv, SourceInv
<1>2. mounts \in Seq([source : Path, rw : BOOLEAN]) /\ DOMAIN mounts = 1 .. checked
  BY <1>1 DEF MountInv, SourceInv
<1>3. ASSUME NEW k \in DOMAIN mounts
      PROVE  MayMount(mounts[k].source) /\ Resolve(link, mounts[k].source) = mounts[k].source
  BY <1>1, <1>2, Plain DEF MountInv, SourceInv, MayMount
<1>4. \A m \in attached' :
        \E k \in DOMAIN mounts : m.place = mounts[k].source /\ m.rw = mounts[k].rw
  BY <1>1, <1>3
<1>5. LinkInv' /\ (\A d : Meant(d)' = Meant(d)) /\ (\A m : MayMount(m)' <=> MayMount(m))
  BY <1>1, LinksKept DEF MountInv
<1>6. SourceInv'
  BY <1>1, <1>3, <1>4, <1>5 DEF MountInv, SourceInv
<1>7. SocketInv'
  BY <1>1, <1>4 DEF MountInv, SocketInv
<1>8. QED
  BY <1>1, <1>5, <1>6, <1>7 DEF MountInv

\* A connection reaches the socket, for there is no turn on its path.
LEMMA ConnectStep == ASSUME MountInv, Connect PROVE MountInv'
<1>1. /\ UNCHANGED <<layout, link, pc, mounts, checked, policy, socket, attached>>
      /\ pc = "up" /\ socket # NoPath /\ reached' = reached \cup {Resolve(link, socket)}
  BY DEF Connect, config, asks
<1>2. Resolve(link, socket) = socket
  BY <1>1, Plain DEF MountInv, SocketInv
<1>3. LinkInv' /\ (\A d : Meant(d)' = Meant(d)) /\ (\A m : MayMount(m)' <=> MayMount(m))
  BY <1>1, LinksKept DEF MountInv
<1>4. SourceInv'
  BY <1>1, <1>3 DEF MountInv, SourceInv
<1>5. SocketInv'
  BY <1>1, <1>2 DEF MountInv, SocketInv
<1>6. QED
  BY <1>1, <1>3, <1>4, <1>5 DEF MountInv

-----------------------------------------------------------------------------
\* What a sandbox does to the links

\* A step leaves p the link it was, or no link.
SameLink(p) ==
  /\ p \in DOMAIN link' <=> p \in DOMAIN link
  /\ p \in DOMAIN link => link'[p] = link[p]

\* A sandbox that changes one link changes nothing but what it may touch, and
\* nothing on the path of its socket, which no read-write mount holds.
LEMMA LinkChanged ==
  ASSUME MountInv, UNCHANGED <<config, pc, asks, use>>, NEW place \in Path, Writable(place),
         \A q \in DOMAIN link' : q \in Path \ {<<>>} /\ Front(q) \in Places,
         \A p : p # place => SameLink(p)
  PROVE  MountInv'
<1>1. /\ UNCHANGED <<layout, pc, mounts, checked, policy, socket, attached, reached>>
      /\ pc = "up" /\ checked = Len(mounts)
  BY DEF config, asks, use, Writable, MountInv, SourceInv
<1>2. PICK m \in attached : m.rw /\ m.place # place /\ Under(place, m.place)
  BY DEF Writable
<1>3. MayMount(m.place) /\ m.place \in Path
  BY MountAssumption DEF MountInv, SourceInv, MayMount
<1>4. Exposed(place)
  BY <1>2, <1>3 DEF Exposed, MayMount
<1>5. (\A d : Meant(d)' = Meant(d)) /\ (\A n : MayMount(n)' <=> MayMount(n))
  <2>1. \A d : Meant(d)' = Meant(d)
    BY <1>1 DEF Meant
  <2>2. QED
    BY <2>1 DEF MayMount
<1>6. \A p : Exposed(p)' <=> Exposed(p)
  BY <1>5 DEF Exposed
<1>7. LinkInv'
  <2>1. ASSUME NEW p, p # place, AsLaidOut(p)
        PROVE  AsLaidOut(p)'
    <3>1. p \in DOMAIN link' <=> p \in DOMAIN layout'
      BY <1>1, <2>1 DEF AsLaidOut, SameLink
    <3>2. p \in DOMAIN link' => link'[p] = layout'[p]
      BY <1>1, <2>1 DEF AsLaidOut, SameLink
    <3>3. QED
      BY <3>1, <3>2 DEF AsLaidOut
  <2>2. QED
    BY <1>1, <1>4, <1>6, <2>1 DEF MountInv, LinkInv
<1>8. SourceInv'
  BY <1>1, <1>5 DEF MountInv, SourceInv
<1>9. ASSUME socket # NoPath
      PROVE  Turns(link', socket) = {}
  <2>1. socket \in Path /\ Turns(link, socket) = {} /\ ~Under(socket, m.place)
    BY <1>1, <1>2, <1>9, MountAssumption DEF MountInv, SocketInv
  <2>2. ASSUME NEW i \in DOMAIN socket
        PROVE  SubSeq(socket, 1, i) \notin DOMAIN link' /\ socket[i] # ".."
    <3>1. SubSeq(socket, 1, i) # place
      BY <1>2, <1>3, <2>1, Ancestor, UnderTransitive
    <3>2. SubSeq(socket, 1, i) \notin DOMAIN link /\ socket[i] # ".."
      BY <2>1 DEF Turns
    <3>3. QED
      BY <3>1, <3>2 DEF SameLink
  <2>3. QED
    BY <2>2 DEF Turns
<1>10. SocketInv'
  BY <1>1, <1>9 DEF MountInv, SocketInv
<1>11. QED
  BY <1>1, <1>7, <1>8, <1>10 DEF MountInv

LEMMA PlantStep == ASSUME MountInv, Plant PROVE MountInv'
<1>1. PICK place \in Places \ {<<>>}, target \in Targets :
        /\ Writable(place)
        /\ link' = [p \in DOMAIN link \cup {place} |-> IF p = place THEN target ELSE link[p]]
  BY DEF Plant
<1>2. /\ place \in Path \ {<<>>} /\ Front(place) \in Places
      /\ UNCHANGED <<config, pc, asks, use>>
  BY MountAssumption DEF Plant
<1>3. /\ DOMAIN link' = DOMAIN link \cup {place}
      /\ \A p : p # place => SameLink(p)
  BY <1>1 DEF SameLink
<1>4. \A q \in DOMAIN link' : q \in Path \ {<<>>} /\ Front(q) \in Places
  BY <1>2, <1>3 DEF MountInv, LinkInv
<1>5. QED
  BY <1>1, <1>2, <1>3, <1>4, LinkChanged

LEMMA RestoreStep == ASSUME MountInv, Restore PROVE MountInv'
<1>1. PICK place \in DOMAIN link :
        Writable(place) /\ link' = [p \in DOMAIN link \ {place} |-> link[p]]
  BY DEF Restore
<1>2. place \in Path /\ UNCHANGED <<config, pc, asks, use>>
  BY DEF Restore, MountInv, LinkInv
<1>3. /\ DOMAIN link' = DOMAIN link \ {place}
      /\ \A p : p # place => SameLink(p)
  BY <1>1 DEF SameLink
<1>4. \A q \in DOMAIN link' : q \in Path \ {<<>>} /\ Front(q) \in Places
  BY <1>3 DEF MountInv, LinkInv
<1>5. QED
  BY <1>1, <1>2, <1>3, <1>4, LinkChanged

LEMMA NextMount == ASSUME MountInv, [Next]_vars PROVE MountInv'
<1>1. CASE Next
  BY <1>1, LaunchStep, AllowStep, CheckMountStep, SocketStep, CreateStep, ExitStep,
     ConnectStep, PlantStep, RestoreStep DEF Next, End
<1>2. CASE UNCHANGED vars
  <2>1. UNCHANGED <<layout, link, pc, mounts, checked, policy, socket, attached, reached>>
    BY <1>2 DEF vars, config, asks, use
  <2>2. LinkInv' /\ (\A d : Meant(d)' = Meant(d)) /\ (\A m : MayMount(m)' <=> MayMount(m))
    BY <2>1, LinksKept DEF MountInv
  <2>3. SourceInv' /\ SocketInv'
    BY <2>1, <2>2 DEF MountInv, SourceInv, SocketInv
  <2>4. QED
    BY <2>1, <2>2, <2>3 DEF MountInv
<1>3. QED
  BY <1>1, <1>2

-----------------------------------------------------------------------------
\* What is listed, and what is asked for

\* The entries of the allowlists.
Entries == allowed.dirs \cup allowed.files

AsMeant == {Meant(p) : p \in Entries}

\* What may be mounted: what MountsAsListed says, place by place.
Attachable == AsMeant \cup {d \in Dirs : \E p \in allowed.dirs : MayBeFollowed(p)}

\* Where the proxied socket may be; a directory is no socket.
SocketPlaces == {Meant(s) : s \in WrittenSockets} \cup Dirs \cup {NoPath}

\* Once a session has passed its allowlists, the walk finds no symlink of the
\* owner's in an entry; and what is in use is where the owner means an entry,
\* or a socket, to lead, but for the slash.
ListInv ==
  /\ allowed \in Allowlists
  /\ pc \in {"mounts", "create", "up"} \/ link # layout =>
       \A p \in Entries : ~ThroughSymlink(layout, p)
  /\ pc = "mounts" => policy.dirs \subseteq Attachable /\ policy.files \subseteq AsMeant \cup Dirs
  /\ pc \in {"mounts", "create"} =>
       \A k \in 1 .. checked : mounts[k].source \in Attachable
  /\ \A m \in attached : m.place \in Attachable
  /\ pc \in {"allow", "mounts"} => socket \in WrittenSockets \cup {NoPath}
  /\ pc \in {"create", "up"} => socket \in SocketPlaces
  /\ reached \subseteq Sockets

LEMMA InitList == Init => ListInv
<1> SUFFICES ASSUME Init PROVE ListInv
  OBVIOUS
<1>1. /\ allowed \in Allowlists /\ pc = "idle" /\ link = layout
      /\ attached = {} /\ reached = {}
  BY DEF Init
<1>2. QED
  BY <1>1 DEF ListInv

LEMMA EntryLeads ==
  ASSUME LinkInv, ListInv, NEW p \in Entries
  PROVE  /\ p \in Path /\ Meant(p) # NoPath
         /\ Slashed(p) => Resolve(layout, Front(Front(p))) # NoPath
  BY ListsAssumption DEF LinkInv, ListInv, Entries, Meant

\* A path and what is left of it without its last two components.
LEMMA Slash ==
  ASSUME NEW p \in Path, Slashed(p)
  PROVE  /\ Front(p) \in Path /\ Front(p) # <<>> /\ Front(Front(p)) \in Path
         /\ Len(p) \in Nat /\ Len(p) > 1
         /\ Len(Front(p)) = Len(p) - 1 /\ Len(Front(Front(p))) = Len(p) - 2
         /\ \A n \in 0 .. Len(p) - 1 : SubSeq(Front(p), 1, n) = SubSeq(p, 1, n)
         /\ \A n \in 0 .. Len(p) - 2 : SubSeq(Front(Front(p)), 1, n) = SubSeq(p, 1, n)
         /\ SubSeq(p, 1, Len(p) - 1) = Front(p) /\ SubSeq(p, 1, Len(p) - 2) = Front(Front(p))
<1> DEFINE f == Front(p)
           g == Front(f)
<1>1. Len(p) \in Nat /\ Len(p) > 1 /\ p # <<>>
  <2>1. Len(p) \in Nat
    BY DEF Path
  <2>2. Len(p) > 1
    BY DEF Slashed
  <2>3. QED
    BY <2>1, <2>2
<1>2. f \in Path /\ Len(f) = Len(p) - 1 /\ \A i \in 1 .. Len(p) - 1 : f[i] = p[i]
  BY <1>1, Fronts
<1> HIDE DEF f
<1>3. f # <<>>
  BY <1>1, <1>2
<1>4. g \in Path /\ Len(g) = Len(p) - 2 /\ \A i \in 1 .. Len(p) - 2 : g[i] = f[i]
  <2>1. g \in Path /\ Len(g) = Len(f) - 1 /\ \A i \in 1 .. Len(f) - 1 : g[i] = f[i]
    BY <1>2, <1>3, Fronts
  <2> HIDE DEF g
  <2>2. QED
    BY <1>1, <1>2, <2>1
<1> HIDE DEF g
<1>5. ASSUME NEW n \in 0 .. Len(p) - 1
      PROVE  SubSeq(f, 1, n) = SubSeq(p, 1, n)
  BY <1>1, <1>2, SameStart
<1>6. ASSUME NEW n \in 0 .. Len(p) - 2
      PROVE  SubSeq(g, 1, n) = SubSeq(p, 1, n)
  <2>1. \A i \in 1 .. n : g[i] = p[i]
    BY <1>1, <1>2, <1>4
  <2>2. n \in Nat /\ n <= Len(g) /\ n <= Len(p)
    BY <1>1, <1>4
  <2>3. QED
    BY <1>4, <2>1, <2>2, SameStart
<1>7. SubSeq(f, 1, Len(f)) = f /\ SubSeq(g, 1, Len(g)) = g
  BY <1>2, <1>4 DEF Path
<1>8. /\ Len(p) - 1 \in 0 .. Len(p) - 1 /\ Len(p) - 2 \in 0 .. Len(p) - 2
  BY <1>1
<1>9. SubSeq(p, 1, Len(p) - 1) = f /\ SubSeq(p, 1, Len(p) - 2) = g
  BY <1>2, <1>4, <1>5, <1>6, <1>7, <1>8
<1>10. QED
  BY <1>1, <1>2, <1>3, <1>4, <1>5, <1>6, <1>9 DEF f, g

\* With a slash at the end of p, the walk sees what its parent goes through; the
\* last name is what it does not see.
LEMMA LastName ==
  ASSUME NEW links, NEW p \in Path, Slashed(p), ~ThroughSymlink(links, p)
  PROVE  /\ ~Crosses(links, Front(Front(p)))
         /\ Crosses(links, Front(p)) =>
              IsSymlink(links, Front(p)) /\ Under(Resolve(links, Front(Front(p))), Home)
<1> DEFINE f == Front(p)
           g == Front(f)
           Turn(q, n) == /\ IsSymlink(links, SubSeq(q, 1, n))
                         /\ Under(Resolve(links, SubSeq(q, 1, n - 1)), Home)
<1>1. /\ Len(p) \in Nat /\ Len(p) > 1 /\ Len(f) = Len(p) - 1 /\ Len(g) = Len(p) - 2
      /\ \A n \in 0 .. Len(p) - 1 : SubSeq(f, 1, n) = SubSeq(p, 1, n)
      /\ \A n \in 0 .. Len(p) - 2 : SubSeq(g, 1, n) = SubSeq(p, 1, n)
      /\ SubSeq(p, 1, Len(p) - 1) = f /\ SubSeq(p, 1, Len(p) - 2) = g
  BY Slash
<1>2. \A n \in 1 .. Len(p) - 2 : ~Turn(p, n)
  BY DEF ThroughSymlink, Ancestors
<1> HIDE DEF f, g
<1>3. ASSUME NEW n \in 1 .. Len(p) - 2
      PROVE  ~Turn(f, n) /\ ~Turn(g, n)
  <2>1. n \in 0 .. Len(p) - 1 /\ n - 1 \in 0 .. Len(p) - 1 /\ n \in 0 .. Len(p) - 2 /\ n - 1 \in 0 .. Len(p) - 2
    BY <1>1
  <2>2. /\ SubSeq(f, 1, n) = SubSeq(p, 1, n) /\ SubSeq(f, 1, n - 1) = SubSeq(p, 1, n - 1)
        /\ SubSeq(g, 1, n) = SubSeq(p, 1, n) /\ SubSeq(g, 1, n - 1) = SubSeq(p, 1, n - 1)
    BY <1>1, <2>1
  <2>3. QED
    BY <1>2, <2>2
<1>4. ~Crosses(links, g)
  BY <1>1, <1>3 DEF Crosses
<1>5. ASSUME Crosses(links, f)
      PROVE  IsSymlink(links, f) /\ Under(Resolve(links, g), Home)
  <2>1. PICK n \in 1 .. Len(f) : Turn(f, n)
    BY <1>5 DEF Crosses
  <2>2. n = Len(p) - 1 /\ n \in 0 .. Len(p) - 1 /\ n - 1 \in 0 .. Len(p) - 1 /\ n - 1 = Len(p) - 2
    BY <1>1, <1>3, <2>1
  <2>3. SubSeq(f, 1, n) = f /\ SubSeq(f, 1, n - 1) = g
    BY <1>1, <2>2
  <2>4. QED
    BY <2>1, <2>3
<1>6. QED
  BY <1>4, <1>5 DEF f, g

\* What canonicalize_in_home returns is what the owner means, of a path in which
\* its walk finds none of the owner's symlinks in the home directory, unless that
\* path ends in a slash and a sandbox may have replaced its last name.
LEMMA CanonicalAsMeant ==
  ASSUME LinkInv, NEW p \in Path, CanonicalizeInHome(p) # NoPath,
         Meant(p) # NoPath, ~ThroughSymlink(layout, p),
         Slashed(p) => Resolve(layout, Front(Front(p))) # NoPath
  PROVE  \/ CanonicalizeInHome(p) = Meant(p)
         \/ MayBeFollowed(p) /\ CanonicalizeInHome(p) \in Dirs
<1>1. ~ThroughSymlink(link, p) /\ CanonicalizeInHome(p) = Canonicalize(link, p)
  BY DEF CanonicalizeInHome
<1>2. CASE ~Slashed(p)
  <2>1. ~Crosses(link, p) /\ ~Crosses(layout, p)
    BY <1>1, <1>2 DEF ThroughSymlink, Ancestors, Crosses
  <2>2. Canonicalize(link, p) = Resolve(link, p) /\ Meant(p) = Resolve(layout, p)
    BY <1>2 DEF Canonicalize, Meant
  <2>3. QED
    BY <1>1, <2>1, <2>2, LeadsAsMeant
<1>3. CASE Slashed(p)
  <2> DEFINE f    == Front(p)
             g    == Front(f)
             dir  == Resolve(layout, g)
             last == Append(dir, Last(f))
  <2>1. /\ f \in Path /\ g \in Path /\ dir # NoPath
        /\ Canonicalize(link, p) = Resolve(link, f) /\ Resolve(link, f) \in Dirs
        /\ Meant(p) = Resolve(layout, f) /\ Resolve(layout, f) \in Dirs
    BY <1>1, <1>3, Slash DEF Canonicalize, Meant
  <2>2. /\ ~Crosses(link, g) /\ ~Crosses(layout, g)
        /\ Crosses(link, f) => IsSymlink(link, f) /\ Under(Resolve(link, g), Home)
        /\ Crosses(layout, f) => IsSymlink(layout, f) /\ Under(dir, Home)
    BY <1>1, <1>3, LastName
  <2>3. Under(dir, Home) /\ (last \in DOMAIN layout \/ Exposed(last)) => MayBeFollowed(p)
    BY <1>3 DEF MayBeFollowed
  <2> HIDE DEF f
  <2>4. CASE Crosses(layout, f)
    <3>1. last \in DOMAIN layout
      BY <2>2, <2>4 DEF IsSymlink
    <3>2. QED
      BY <1>1, <2>1, <2>2, <2>3, <2>4, <3>1
  <2>5. CASE Crosses(link, f)
    <3>1. Resolve(link, g) # NoPath /\ Append(Resolve(link, g), Last(f)) \in DOMAIN link
      BY <2>2, <2>5 DEF IsSymlink
    <3>2. Resolve(link, g) = dir
      BY <2>1, <2>2, <3>1, LeadsAsMeant
    <3>3. last \in DOMAIN layout \/ Exposed(last)
      BY <3>1, <3>2 DEF LinkInv, AsLaidOut
    <3>4. QED
      BY <1>1, <2>1, <2>2, <2>3, <2>5, <3>2, <3>3
  <2>6. CASE ~Crosses(link, f) /\ ~Crosses(layout, f)
    <3>1. Resolve(link, f) # NoPath /\ Resolve(layout, f) # NoPath
      BY <2>1, MountAssumption DEF Places
    <3>2. Resolve(link, f) = Resolve(layout, f)
      BY <2>1, <2>6, <3>1, LeadsAsMeant
    <3>3. QED
      BY <1>1, <2>1, <3>2
  <2>7. QED
    BY <2>4, <2>5, <2>6
<1>4. QED
  BY <1>2, <1>3

LEMMA ListKept ==
  ASSUME UNCHANGED config
  PROVE  /\ Entries' = Entries /\ Attachable' = Attachable /\ SocketPlaces' = SocketPlaces
         /\ (AsMeant \cup Dirs)' = AsMeant \cup Dirs
<1>1. UNCHANGED <<layout, allowed>>
  BY DEF config
<1>2. \A p : Meant(p)' = Meant(p)
  BY <1>1 DEF Meant
<1>3. Entries' = Entries /\ AsMeant' = AsMeant /\ SocketPlaces' = SocketPlaces
  BY <1>1, <1>2 DEF Entries, AsMeant, SocketPlaces
<1>4. \A p : MayBeFollowed(p)' <=> MayBeFollowed(p)
  <2>1. \A m : MayMount(m)' <=> MayMount(m)
    BY <1>2 DEF MayMount
  <2>2. \A q : Exposed(q)' <=> Exposed(q)
    BY <2>1 DEF Exposed
  <2>3. QED
    BY <1>1, <2>2 DEF MayBeFollowed
<1>5. Attachable' = Attachable
  BY <1>1, <1>3, <1>4 DEF Attachable
<1>6. QED
  BY <1>3, <1>5

LEMMA ListExit == ASSUME MountInv, ListInv, Exit PROVE ListInv'
<1>1. /\ UNCHANGED <<layout, allowed, link>> /\ UNCHANGED config
      /\ pc' = "idle" /\ attached' = {} /\ reached' = {}
  BY DEF Exit, config
<1>2. Entries' = Entries
  BY <1>1, ListKept
<1>3. QED
  BY <1>1, <1>2 DEF ListInv

LEMMA ListAllow == ASSUME MountInv, ListInv, ReadAllowlists PROVE ListInv'
<1>1. CASE Exit
  BY <1>1, ListExit
<1>2. CASE ~Exit
  <2> DEFINE dirs == Canonical(allowed.dirs)
             files == Canonical(allowed.files)
  <2>1. /\ UNCHANGED <<layout, allowed, link, checked, mounts, socket, attached, reached>>
        /\ UNCHANGED config /\ pc = "allow" /\ pc' = "mounts" /\ checked = 0
        /\ NoPath \notin dirs \cup files /\ policy'.dirs = dirs /\ policy'.files = files
    BY <1>2 DEF ReadAllowlists, config, use, MountInv, SourceInv
  <2>2. /\ \A p \in Entries : Canonicalize(link, p) # NoPath =>
              CanonicalizeInHome(p) \in dirs \cup files
        /\ \A x \in dirs :  \E p \in allowed.dirs  : x = CanonicalizeInHome(p)
        /\ \A x \in files : \E p \in allowed.files : x = CanonicalizeInHome(p)
    BY DEF Canonical, Listed, Entries
  <2> HIDE DEF dirs, files
  <2>3. ASSUME NEW p \in Entries
        PROVE  ~ThroughSymlink(layout, p)
    <3>1. CASE link = layout
      <4>1. CanonicalizeInHome(p) # NoPath
        BY <2>1, <2>2, <3>1, EntryLeads DEF MountInv, Meant
      <4>2. QED
        BY <3>1, <4>1 DEF CanonicalizeInHome
    <3>2. CASE link # layout
      BY <3>2 DEF ListInv
    <3>3. QED
      BY <3>1, <3>2
  <2>4. ASSUME NEW p \in Entries, CanonicalizeInHome(p) # NoPath
        PROVE  \/ CanonicalizeInHome(p) \in AsMeant
               \/ MayBeFollowed(p) /\ CanonicalizeInHome(p) \in Dirs
    BY <2>3, <2>4, EntryLeads, CanonicalAsMeant DEF MountInv, AsMeant
  <2>5. dirs \subseteq Attachable
    <3> SUFFICES ASSUME NEW x \in dirs PROVE x \in Attachable
      OBVIOUS
    <3>1. PICK p \in allowed.dirs : x = CanonicalizeInHome(p)
      BY <2>2
    <3>2. p \in Entries /\ x # NoPath
      BY <2>1 DEF Entries
    <3>3. QED
      BY <2>4, <3>1, <3>2 DEF Attachable
  <2>6. files \subseteq AsMeant \cup Dirs
    <3> SUFFICES ASSUME NEW x \in files PROVE x \in AsMeant \cup Dirs
      OBVIOUS
    <3>1. PICK p \in allowed.files : x = CanonicalizeInHome(p)
      BY <2>2
    <3>2. p \in Entries /\ x # NoPath
      BY <2>1 DEF Entries
    <3>3. QED
      BY <2>4, <3>1, <3>2
  <2>7. Entries' = Entries /\ Attachable' = Attachable /\ (AsMeant \cup Dirs)' = AsMeant \cup Dirs
    BY <2>1, ListKept
  <2>8. QED
    BY <2>1, <2>3, <2>5, <2>6, <2>7 DEF ListInv, MountInv, SourceInv
<1>3. QED
  BY <1>1, <1>2

LEMMA ListMount == ASSUME MountInv, ListInv, CheckMount PROVE ListInv'
<1> DEFINE k == checked + 1
           place == CanonicalizeInHome(mounts[k].source)
           M == Attachable
<1>1. CASE Exit
  BY <1>1, ListExit
<1>2. CASE ~Exit
  <2>1. /\ UNCHANGED <<layout, allowed, link, pc, policy, socket, attached, reached>>
        /\ UNCHANGED config /\ pc = "mounts" /\ checked < Len(mounts) /\ MountAllowed(place)
        /\ mounts' = [mounts EXCEPT ![k].source = place] /\ checked' = k
    BY <1>2 DEF CheckMount, config, use
  <2>2. place \in M
    BY <2>1, MountAssumption DEF MountAllowed, ListInv, Attachable
  <2> HIDE DEF place, M
  <2>3. /\ mounts \in Seq([source : Path, rw : BOOLEAN]) /\ checked \in 0 .. Len(mounts)
        /\ Len(mounts) \in Nat
    BY DEF MountInv, SourceInv
  <2>4. k \in DOMAIN mounts /\ mounts[k] \in [source : Path, rw : BOOLEAN]
    <3> DEFINE R == [source : Path, rw : BOOLEAN]
    <3>1. k \in 1 .. Len(mounts)
      BY <2>1, <2>3
    <3>2. mounts \in Seq(R)
      BY <2>3
    <3> HIDE DEF R, k
    <3>3. k \in DOMAIN mounts /\ mounts[k] \in R
      BY <3>1, <3>2
    <3>4. QED
      BY <3>3 DEF R
  <2>5. mounts'[k].source = place
    <3>1. mounts'[k] = [mounts[k] EXCEPT !.source = place]
      BY <2>1, <2>4
    <3>2. QED
      BY <2>4, <3>1
  <2>6. \A j \in 1 .. checked : mounts'[j] = mounts[j] /\ mounts[j].source \in M
    <3>1. \A j \in 1 .. checked : j # k /\ j \in DOMAIN mounts
      BY <2>3
    <3>2. QED
      BY <2>1, <3>1 DEF ListInv, M
  <2>7. \A j \in 1 .. checked' : mounts'[j].source \in M
    <3>1. \A j \in 1 .. checked' : j = k \/ j \in 1 .. checked
      BY <2>1, <2>3
    <3>2. QED
      BY <2>2, <2>5, <2>6, <3>1
  <2>8. Entries' = Entries /\ Attachable' = M /\ (AsMeant \cup Dirs)' = AsMeant \cup Dirs
    BY <2>1, ListKept DEF M
  <2>9. QED
    BY <2>1, <2>7, <2>8 DEF ListInv, M
<1>3. QED
  BY <1>1, <1>2

LEMMA ListSocket == ASSUME MountInv, ListInv, CheckSocket \/ NoSocket PROVE ListInv'
<1>1. CASE Exit
  BY <1>1, ListExit
<1>2. CASE ~Exit
  <2>1. /\ UNCHANGED <<layout, allowed, link, checked, mounts, attached, reached>>
        /\ UNCHANGED config /\ pc = "mounts" /\ pc' = "create"
        /\ \/ socket' = NoPath
           \/ socket # NoPath /\ socket' = CanonicalizeInHome(socket) /\ socket' # NoPath
    BY <1>2 DEF CheckSocket, NoSocket, SocketAllowed, config, asks, use
  <2>2. socket' \in SocketPlaces
    <3> SUFFICES ASSUME socket' # NoPath PROVE socket' \in SocketPlaces
      BY DEF SocketPlaces
    <3>1. socket \in WrittenSockets /\ CanonicalizeInHome(socket) # NoPath
      BY <2>1 DEF ListInv
    <3>2. CASE Slashed(socket)
      <4>1. CanonicalizeInHome(socket) \in Dirs
        BY <3>1, <3>2 DEF CanonicalizeInHome, Canonicalize
      <4>2. QED
        BY <2>1, <4>1 DEF SocketPlaces
    <3>3. CASE ~Slashed(socket)
      <4>1. socket \in Path /\ Meant(socket) # NoPath /\ ~ThroughSymlink(layout, socket)
        BY <3>1, <3>3, ListsAssumption DEF MountInv, LinkInv, Meant, Canonicalize
      <4>2. CanonicalizeInHome(socket) = Meant(socket)
        BY <3>1, <3>3, <4>1, CanonicalAsMeant DEF MountInv, MayBeFollowed
      <4>3. QED
        BY <2>1, <3>1, <4>2 DEF SocketPlaces
    <3>4. QED
      BY <3>2, <3>3
  <2>3. Entries' = Entries /\ Attachable' = Attachable /\ SocketPlaces' = SocketPlaces
    BY <2>1, ListKept
  <2>4. QED
    BY <2>1, <2>2, <2>3 DEF ListInv
<1>3. QED
  BY <1>1, <1>2

LEMMA ListCreate == ASSUME MountInv, ListInv, Create PROVE ListInv'
<1>1. /\ UNCHANGED <<layout, allowed, link, mounts, checked, socket, reached>>
      /\ UNCHANGED config /\ pc = "create" /\ pc' = "up" /\ checked = Len(mounts)
      /\ attached' = {[place |-> Resolve(link, mounts[k].source), rw |-> mounts[k].rw] :
                        k \in DOMAIN mounts}
  BY DEF Create, config, asks, MountInv, SourceInv
<1>2. mounts \in Seq([source : Path, rw : BOOLEAN]) /\ DOMAIN mounts = 1 .. checked
  BY <1>1 DEF MountInv, SourceInv
<1>3. ASSUME NEW k \in DOMAIN mounts
      PROVE  Resolve(link, mounts[k].source) \in Attachable
  <2>1. Resolve(link, mounts[k].source) = mounts[k].source
    BY <1>1, <1>2, Plain DEF MountInv, SourceInv, MayMount
  <2>2. QED
    BY <1>1, <1>2, <2>1 DEF ListInv
<1>4. \A m \in attached' : m.place \in Attachable
  BY <1>1, <1>3
<1>5. Entries' = Entries /\ Attachable' = Attachable /\ SocketPlaces' = SocketPlaces
  BY <1>1, ListKept
<1>6. QED
  BY <1>1, <1>4, <1>5 DEF ListInv

LEMMA NextList == ASSUME MountInv, ListInv, [Next]_vars PROVE ListInv'
<1>1. CASE Launch
  <2>1. /\ UNCHANGED <<layout, allowed, link, attached, reached>> /\ UNCHANGED config
        /\ pc' = "allow" /\ attached = {} /\ socket' \in WrittenSockets \cup {NoPath}
    BY <1>1 DEF Launch, config, use, MountInv, SourceInv
  <2>2. Entries' = Entries
    BY <2>1, ListKept
  <2>3. QED
    BY <2>1, <2>2 DEF ListInv
<1>2. CASE Connect
  <2>1. /\ UNCHANGED <<layout, allowed, link, pc, mounts, checked, policy, socket, attached>>
        /\ UNCHANGED config
        /\ pc = "up" /\ reached' = reached \cup {Resolve(link, socket)}
        /\ Resolve(link, socket) \in Sockets
    BY <1>2 DEF Connect, config, asks
  <2>3. Entries' = Entries /\ Attachable' = Attachable /\ SocketPlaces' = SocketPlaces
    BY <2>1, ListKept
  <2>4. QED
    BY <2>1, <2>3 DEF ListInv
<1>3. CASE Plant \/ Restore
  <2>1. /\ UNCHANGED <<layout, allowed, pc, socket, attached, reached>> /\ UNCHANGED config
        /\ pc = "up"
    BY <1>3 DEF Plant, Restore, Writable, config, asks, use
  <2>2. Entries' = Entries /\ Attachable' = Attachable /\ SocketPlaces' = SocketPlaces
    BY <2>1, ListKept
  <2>3. QED
    BY <2>1, <2>2 DEF ListInv
<1>4. CASE UNCHANGED vars
  <2>1. /\ UNCHANGED <<layout, allowed, link, pc, mounts, checked, policy, socket, attached, reached>>
        /\ UNCHANGED config
    BY <1>4 DEF vars, config, asks, use
  <2>2. /\ Entries' = Entries /\ Attachable' = Attachable /\ SocketPlaces' = SocketPlaces
        /\ (AsMeant \cup Dirs)' = AsMeant \cup Dirs
    BY <2>1, ListKept
  <2>3. QED
    BY <2>1, <2>2 DEF ListInv
<1>5. QED
  BY <1>1, <1>2, <1>3, <1>4, ListExit, ListAllow, ListMount, ListSocket, ListCreate
     DEF Next, End

-----------------------------------------------------------------------------
\* The theorems

\* In every session, what is mounted passed the checks as the owner means them,
\* and the symlinks of sandboxes are below what may be mounted.
THEOREM MountInvariant == Spec => []MountInv
<1>1. Init => MountInv
  BY InitMount
<1>2. MountInv /\ [Next]_vars => MountInv'
  BY NextMount
<1>3. QED
  BY <1>1, <1>2, PTL DEF Spec

\* No mount of any session holds, or lies in, a directory that is never to be
\* mounted, wherever the owner keeps it and whatever symlinks the sandboxes
\* before it have left (Forbidden, resolve_context).
THEOREM NeverForbidden == Spec => []NothingForbidden
<1>1. MountInv => NothingForbidden
  BY DEF MountInv, SourceInv, MayMount, NothingForbidden
<1>2. QED
  BY <1>1, MountInvariant, PTL

\* And that is what the owner lists, where the owner means it to be.
THEOREM ListInvariant == Spec => [](MountInv /\ ListInv)
<1>1. Init => MountInv /\ ListInv
  BY InitMount, InitList
<1>2. MountInv /\ ListInv /\ [Next]_vars => (MountInv /\ ListInv)'
  BY NextMount, NextList
<1>3. QED
  BY <1>1, <1>2, PTL DEF Spec

\* Every mount of every session is what the owner lists, where the owner has
\* put it, whatever symlinks the sandboxes before it have left, or a directory
\* when the owner lists one with a slash at its end whose last name is a symlink
\* or can be replaced by a sandbox (canonicalize_in_home).
THEOREM MountsListed == Spec => []MountsAsListed
<1>1. ListInv => MountsAsListed
  BY DEF ListInv, MountsAsListed, Attachable, AsMeant, Entries
<1>2. QED
  BY <1>1, ListInvariant, PTL

\* The connections of a session reach the socket that was checked, where the
\* owner has put it, and no other, whatever symlinks its sandbox plants or those
\* before it have left (validate_proxy_connect).
THEOREM SocketStays == Spec => []SocketSettled
<1>1. ASSUME MountInv, ListInv
      PROVE  SocketSettled
  <2> SUFFICES ASSUME NEW x \in reached PROVE x = socket /\ x \in {Meant(s) : s \in WrittenSockets}
    BY DEF SocketSettled
  <2>1. x = socket /\ pc = "up" /\ x \in Sockets
    BY <1>1 DEF MountInv, SocketInv, ListInv
  <2>2. x \notin Dirs /\ x # NoPath
    BY <2>1, MountAssumption DEF Places
  <2>3. x \in SocketPlaces
    BY <1>1, <2>1 DEF ListInv
  <2>4. QED
    BY <2>1, <2>2, <2>3 DEF SocketPlaces
<1>2. QED
  BY <1>1, ListInvariant, PTL

=============================================================================
