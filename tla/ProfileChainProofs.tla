------------------------- MODULE ProfileChainProofs --------------------------
(***************************************************************************)
(* Theorems about ProfileChain, for any set of names, any [inherit] table  *)
(* and any [profiles] table.                                               *)
(***************************************************************************)
EXTENDS ProfileChain, TLAPS

LEMMA InitChain == Init => ChainInv
  BY ProfileAssumption
     DEF Init, ChainInv, TypeOK, SelectInv, SelectsDeepest, Matches, WalkInv, MergeInv,
         ChildWins, Members

-----------------------------------------------------------------------------
\* What the actions before the walk, and those that only change pc, keep.

LEMMA LoadDefaultChain == ChainInv /\ LoadDefault => ChainInv'
  <1> SUFFICES ASSUME ChainInv, LoadDefault PROVE ChainInv'
      OBVIOUS
  <1> USE ProfileAssumption DEF LoadDefault, Goto, table, walk, merged
  <1>1. TypeOK'
        BY DEF ChainInv, TypeOK
  <1>2. SelectInv'
        BY DEF ChainInv, TypeOK, SelectInv, SelectsDeepest, Matches
  <1>3. WalkInv'
        BY DEF ChainInv, TypeOK, SelectInv, WalkInv, Members, Started, Leaf, OnLine, Closed
  <1>4. MergeInv'
        BY DEF ChainInv, MergeInv, ChildWins, Nearest
  <1> QED BY <1>1, <1>2, <1>3, <1>4 DEF ChainInv

LEMMA ReadTableChain == ChainInv /\ ReadTable => ChainInv'
  <1> SUFFICES ASSUME ChainInv, ReadTable PROVE ChainInv'
      OBVIOUS
  <1> USE ProfileAssumption DEF ReadTable, StartWalk, table, walk, merged
  <1>1. TypeOK'
        BY DEF ChainInv, TypeOK
  <1>2. SelectInv'
    <2>1. /\ best' = NoEntry /\ chain' = <<>> /\ visited' = {} /\ asked' = asked
          /\ left' = 0
          BY DEF ChainInv, SelectInv
    <2>2. pc' \in {"scan", "walk", "refused"} /\ (pc' = "scan" => asked = ByDirectory)
          BY DEF ChainInv, TypeOK
    <2>3. pc' = "walk" => asked # ByDirectory
          OBVIOUS
    <2>4. SelectsDeepest'
      <3>1. asked = ByDirectory /\ pc' # "refused" => todo' = Entries
            BY DEF ChainInv, SelectInv
      <3> QED BY <2>1, <3>1 DEF SelectsDeepest
    <2> QED BY <2>1, <2>2, <2>3, <2>4 DEF SelectInv
  <1>3. WalkInv'
    <2>1. visited = {} /\ chain = <<>> /\ visited' = {} /\ chain' = <<>>
          BY DEF ChainInv, SelectInv
    <2>2. visited' = Members'
          BY <2>1 DEF Members
    <2>3. pc' # "merge" /\ pc' # "done"
          BY DEF ChainInv, TypeOK
    <2>4. CASE pc' = "walk"
      <3>1. Leaf' = asked /\ current' = asked /\ asked \in Valid /\ Started'
            BY <2>4 DEF ChainInv, TypeOK, Leaf, Started
      <3>2. OnLine(current)'
            BY <3>1 DEF OnLine
      <3> QED BY <2>1, <2>2, <2>3, <3>1, <3>2 DEF WalkInv
    <2>5. CASE pc' # "walk"
          BY <2>1, <2>2, <2>3, <2>5 DEF WalkInv
    <2> QED BY <2>4, <2>5
  <1>4. MergeInv'
        BY DEF ChainInv, TypeOK, MergeInv, ChildWins, Nearest
  <1> QED BY <1>1, <1>2, <1>3, <1>4 DEF ChainInv

LEMMA ConsiderChain == \A e \in Entries : ChainInv /\ Consider(e) => ChainInv'
  <1> SUFFICES ASSUME NEW e \in Entries, ChainInv, Consider(e) PROVE ChainInv'
      OBVIOUS
  <1> USE ProfileAssumption DEF Consider, Deeper, table, walk, merged
  <1>1. TypeOK'
        BY DEF ChainInv, TypeOK
  <1>2. SelectInv'
    <2>1. depth \in [Entries -> Nat] /\ best \in Entries \cup {NoEntry}
          BY DEF ChainInv, TypeOK
    <2>2. SelectsDeepest'
          BY <2>1 DEF ChainInv, SelectInv, SelectsDeepest, Matches
    <2> QED BY <2>2 DEF ChainInv, TypeOK, SelectInv
  <1>3. WalkInv'
        BY DEF ChainInv, SelectInv, WalkInv, Members
  <1>4. MergeInv'
        BY DEF ChainInv, MergeInv, ChildWins, Nearest
  <1> QED BY <1>1, <1>2, <1>3, <1>4 DEF ChainInv

LEMMA SelectChain == ChainInv /\ Select => ChainInv'
  <1> SUFFICES ASSUME ChainInv, Select PROVE ChainInv'
      OBVIOUS
  <1> USE ProfileAssumption DEF Select, StartWalk, table, walk, merged
  <1>1. TypeOK'
        BY DEF ChainInv, TypeOK
  <1>2. SelectInv'
        BY DEF ChainInv, TypeOK, SelectInv, SelectsDeepest, Matches
  <1>3. WalkInv'
    <2>1. visited = {} /\ chain = <<>> /\ visited' = {} /\ chain' = <<>>
          BY DEF ChainInv, SelectInv
    <2>2. visited' = Members'
          BY <2>1 DEF Members
    <2>3. pc' # "merge"
          BY DEF ChainInv, TypeOK
    <2>4. CASE pc' = "walk"
      <3>1. best # NoEntry /\ asked = ByDirectory
            BY <2>4 DEF ChainInv, SelectInv
      <3>2. Leaf' = name[best] /\ current' = Leaf' /\ current' \in Valid /\ Started'
            BY <2>4, <3>1 DEF Leaf, Started
      <3>3. OnLine(current)'
            BY <3>2 DEF OnLine
      <3> QED BY <2>1, <2>2, <2>3, <2>4, <3>2, <3>3 DEF WalkInv
    <2>5. CASE pc' # "walk"
          BY <2>1, <2>2, <2>3, <2>5 DEF WalkInv
    <2> QED BY <2>4, <2>5
  <1>4. MergeInv'
        BY DEF ChainInv, MergeInv, ChildWins, Nearest
  <1> QED BY <1>1, <1>2, <1>3, <1>4 DEF ChainInv

-----------------------------------------------------------------------------
\* The walk

\* Append adds one member, and keeps the members apart if it is a new one.
LEMMA AppendMembers ==
  ASSUME NEW T, NEW s \in Seq(T), NEW x \in T
  PROVE  /\ Append(s, x) \in Seq(T)
         /\ Len(Append(s, x)) = Len(s) + 1
         /\ Append(s, x) # <<>>
         /\ {Append(s, x)[i] : i \in DOMAIN Append(s, x)} = {s[i] : i \in DOMAIN s} \cup {x}
         /\ (/\ x \notin {s[i] : i \in DOMAIN s}
             /\ \A i, j \in DOMAIN s : s[i] = s[j] => i = j) =>
              \A i, j \in DOMAIN Append(s, x) : Append(s, x)[i] = Append(s, x)[j] => i = j
  <1> DEFINE t == Append(s, x)
  <1>1. /\ t \in Seq(T) /\ Len(t) = Len(s) + 1
        /\ DOMAIN t = 1 .. Len(s) + 1 /\ DOMAIN s = 1 .. Len(s) /\ Len(s) \in Nat
        /\ \A i \in 1 .. Len(s) : t[i] = s[i]
        /\ t[Len(s) + 1] = x
        OBVIOUS
  <1>2. t # <<>>
        BY <1>1
  <1>3. {t[i] : i \in DOMAIN t} = {s[i] : i \in DOMAIN s} \cup {x}
        BY <1>1
  <1>4. ASSUME x \notin {s[i] : i \in DOMAIN s},
               \A i, j \in DOMAIN s : s[i] = s[j] => i = j
        PROVE  \A i, j \in DOMAIN t : t[i] = t[j] => i = j
        BY <1>1, <1>4
  <1> QED BY <1>1, <1>2, <1>3, <1>4

LEMMA WalkChain == ChainInv /\ Walk => ChainInv'
  <1> SUFFICES ASSUME ChainInv, Walk PROVE ChainInv'
      OBVIOUS
  <1> USE ProfileAssumption DEF table
  <1>0. /\ pc = "walk" /\ current \in Valid /\ current \in Names /\ chain \in Seq(Names)
        /\ inherit[current] \in Names \cup {NoProfile}
        /\ UNCHANGED <<asked, table, todo, best, value, list, setters>>
        BY DEF Walk, ChainInv, TypeOK, WalkInv
  <1>1. CASE current \in visited
    <2>1. pc' = "refused" /\ UNCHANGED <<walk, left>>
          BY <1>1 DEF Walk, Visit
    <2>2. TypeOK'
          BY <1>0, <2>1 DEF ChainInv, TypeOK, walk
    <2>3. SelectInv'
          BY <1>0, <2>1 DEF ChainInv, SelectInv, SelectsDeepest, Matches, walk
    <2>4. WalkInv'
          BY <1>0, <2>1
             DEF ChainInv, WalkInv, Members, Started, Leaf, OnLine, Closed, walk
    <2>5. MergeInv'
          BY <1>0, <2>1 DEF MergeInv, ChildWins
    <2> QED BY <2>2, <2>3, <2>4, <2>5 DEF ChainInv
  <1>2. CASE current \notin visited
    <2>1. /\ visited' = visited \cup {current} /\ chain' = Append(chain, current)
          /\ pc' \in {"merge", "refused", "walk"}
          /\ pc' = "merge" => Parent(current) = NoProfile /\ left' = Len(chain) + 1
          /\ pc' # "merge" => left' = left
          /\ pc' = "walk" => current' = Parent(current) /\ current' \in Valid
          /\ current' \in {current, Parent(current)} /\ current' \in Names
          BY <1>0, <1>2 DEF Walk, Visit, Parent, walk
    <2>2. /\ chain' \in Seq(Names) /\ Len(chain') = Len(chain) + 1 /\ chain' # <<>>
          /\ Members' = Members \cup {current}
          /\ visited = Members
          /\ \A i, j \in DOMAIN chain' : chain'[i] = chain'[j] => i = j
      <3>1. visited = Members /\ \A i, j \in DOMAIN chain : chain[i] = chain[j] => i = j
            BY DEF ChainInv, WalkInv
      <3> QED BY <1>0, <1>2, <2>1, <3>1, AppendMembers DEF Members
    <2>3. TypeOK'
          BY <1>0, <2>1, <2>2 DEF ChainInv, TypeOK
    <2>4. SelectInv'
          BY <1>0, <2>1 DEF ChainInv, SelectInv, SelectsDeepest, Matches
    <2>5. WalkInv'
      <3>1. Leaf' = Leaf /\ Started' = Started /\ inherit' = inherit
            BY <1>0 DEF Leaf, Started
      <3>2. /\ Started /\ Leaf \in Names /\ visited \subseteq Valid
            /\ \A p \in visited : OnLine(p)
            /\ OnLine(current) /\ Leaf \in visited \cup {current}
            /\ \A p \in visited : inherit[p] \in visited \cup {current}
            BY <1>0 DEF ChainInv, WalkInv
      <3>3. \A p : OnLine(p)' <=> OnLine(p)
            BY <3>1 DEF OnLine, Closed
      <3>4. visited' = Members'
            BY <2>1, <2>2
      <3>5. /\ Started' /\ Leaf' \in Names /\ visited' \subseteq Valid
            /\ \A p \in visited' : OnLine(p)'
            BY <1>0, <2>1, <3>1, <3>2, <3>3
      <3>6. ASSUME pc' = "walk"
            PROVE  /\ current' \in Valid /\ OnLine(current)'
                   /\ Leaf' \in visited' \cup {current'}
                   /\ \A p \in visited' : inherit'[p] \in visited' \cup {current'}
        <4>1. current' = inherit[current] /\ current' \in Valid /\ current' # NoProfile
              BY <2>1, <3>6 DEF Parent
        <4>2. OnLine(current')
              BY <3>2, <4>1 DEF OnLine, Closed
        <4>3. OnLine(current)'
              BY <3>1, <4>2 DEF OnLine, Closed
        <4> QED BY <2>1, <3>1, <3>2, <4>1, <4>3
      <3>7. ASSUME pc' = "merge"
            PROVE  /\ Leaf' \in visited' /\ Closed(visited)'
                   /\ \E p \in visited' : inherit'[p] = NoProfile
            BY <2>1, <3>1, <3>2, <3>7 DEF Closed, Parent
      <3>8. pc' # "done"
            BY <2>1
      <3> QED BY <2>2, <3>4, <3>5, <3>6, <3>7, <3>8 DEF WalkInv
    <2>6. MergeInv'
      <3>1. list' = <<>> /\ setters' = {} /\ value' = NoProfile
            BY <1>0 DEF ChainInv, MergeInv
      <3>2. pc' = "merge" => left' = Len(chain') /\ Len(chain') \in Nat
            BY <2>1, <2>2
      <3>3. ChildWins'
            BY <3>1, <3>2 DEF ChildWins, Nearest
      <3> QED BY <3>1, <3>2, <3>3 DEF MergeInv
    <2> QED BY <2>3, <2>4, <2>5, <2>6 DEF ChainInv
  <1> QED BY <1>1, <1>2

-----------------------------------------------------------------------------
\* The merge

LEMMA LoadFailsChain == ChainInv /\ LoadFails => ChainInv'
  <1> SUFFICES ASSUME ChainInv, LoadFails PROVE ChainInv'
      OBVIOUS
  <1> USE DEF LoadFails, table, walk, merged
  <1>1. TypeOK'
        BY DEF ChainInv, TypeOK
  <1>2. SelectInv'
        BY DEF ChainInv, SelectInv, SelectsDeepest, Matches
  <1>3. WalkInv'
        BY DEF ChainInv, WalkInv, Members, Started, Leaf, OnLine, Closed
  <1>4. MergeInv'
        BY DEF MergeInv, ChildWins
  <1> QED BY <1>1, <1>2, <1>3, <1>4 DEF ChainInv

LEMMA MergeNextChain == ChainInv /\ MergeNext => ChainInv'
  <1> SUFFICES ASSUME ChainInv, MergeNext PROVE ChainInv'
      OBVIOUS
  <1> USE DEF table, walk
  <1> DEFINE p == chain[left]
  <1>1. PICK sets \in BOOLEAN :
          /\ value' = IF sets THEN p ELSE value
          /\ list' = Append(list, p)
          /\ setters' = IF sets THEN setters \cup {p} ELSE setters
        BY DEF MergeNext, MergeProfile
  <1>2. /\ pc = "merge" /\ left > 0 /\ left' = left - 1
        /\ UNCHANGED <<asked, table, pc, todo, best, walk>>
        BY DEF MergeNext
  <1>3. /\ chain \in Seq(Names) /\ Len(chain) \in Nat /\ DOMAIN chain = 1 .. Len(chain)
        /\ left \in 1 .. Len(chain) /\ p \in Names /\ left' \in 0 .. Len(chain)
        /\ list \in Seq(Names) /\ setters \subseteq Names
        BY <1>2 DEF ChainInv, TypeOK, MergeInv
  <1>4. \A i, j \in DOMAIN chain : chain[i] = chain[j] => i = j
        BY DEF ChainInv, WalkInv
  <1>5. \A i \in 1 .. left : chain[i] \notin setters
        BY <1>2 DEF ChainInv, MergeInv
  <1>6. /\ \A i \in DOMAIN chain : Nearest(i) => value = chain[i]
        /\ setters = {} => value = NoProfile
        /\ Len(list) = Len(chain) - left
        /\ \A i \in DOMAIN list : list[i] = chain[Len(chain) + 1 - i]
        BY <1>2 DEF ChainInv, MergeInv, ChildWins
  <1>7. TypeOK'
        BY <1>1, <1>2, <1>3 DEF ChainInv, TypeOK
  <1>8. SelectInv'
        BY <1>2 DEF ChainInv, SelectInv, SelectsDeepest, Matches
  <1>9. WalkInv'
        BY <1>2 DEF ChainInv, WalkInv, Members, Started, Leaf, OnLine, Closed
  <1>10. \A i \in DOMAIN chain : Nearest(i)' => value' = chain[i]
    <2> SUFFICES ASSUME NEW i \in DOMAIN chain, Nearest(i)' PROVE value' = chain[i]
        OBVIOUS
    <2>1. chain[i] \in setters' /\ \A j \in 1 .. i - 1 : chain[j] \notin setters'
          BY <1>2 DEF Nearest
    <2>2. CASE sets
      <3>1. i <= left
            BY <1>1, <1>3, <2>1, <2>2
      <3>2. chain[i] = p
            BY <1>1, <1>3, <1>5, <2>1, <2>2, <3>1
      <3> QED BY <1>1, <2>2, <3>2
    <2>3. CASE ~sets
          BY <1>1, <1>6, <2>1, <2>3 DEF Nearest
    <2> QED BY <2>2, <2>3
  <1>11. /\ Len(list') = Len(chain) - left'
         /\ \A i \in DOMAIN list' : list'[i] = chain[Len(chain) + 1 - i]
    <2>1. /\ Len(list') = Len(list) + 1 /\ DOMAIN list' = 1 .. Len(list) + 1
          /\ DOMAIN list = 1 .. Len(list) /\ Len(list) \in Nat
          /\ \A i \in 1 .. Len(list) : list'[i] = list[i]
          /\ list'[Len(list) + 1] = p
          BY <1>1, <1>3
    <2>2. Len(chain) + 1 - (Len(list) + 1) = left
          BY <1>3, <1>6
    <2> QED BY <1>2, <1>3, <1>6, <2>1, <2>2, SMTT(30)
  <1>12. ChildWins'
         BY <1>1, <1>2, <1>6, <1>10, <1>11 DEF ChildWins
  <1>13. \A i \in 1 .. left' : chain[i] \notin setters'
         BY <1>1, <1>2, <1>3, <1>4, <1>5
  <1>14. MergeInv'
         BY <1>2, <1>3, <1>12, <1>13 DEF MergeInv
  <1> QED BY <1>7, <1>8, <1>9, <1>14 DEF ChainInv

LEMMA MergedChain == ChainInv /\ Merged => ChainInv'
  <1> SUFFICES ASSUME ChainInv, Merged PROVE ChainInv'
      OBVIOUS
  <1> USE DEF Merged, Goto, table, walk, merged
  <1>1. TypeOK'
        BY DEF ChainInv, TypeOK
  <1>2. SelectInv'
        BY DEF ChainInv, SelectInv, SelectsDeepest, Matches
  <1>3. WalkInv'
        BY DEF ChainInv, WalkInv, Members, Started, Leaf, OnLine, Closed
  <1>4. MergeInv'
        BY DEF MergeInv, ChildWins
  <1> QED BY <1>1, <1>2, <1>3, <1>4 DEF ChainInv

-----------------------------------------------------------------------------

LEMMA StepChain == ChainInv /\ [Next]_vars => ChainInv'
  <1> SUFFICES ASSUME ChainInv, [Next]_vars PROVE ChainInv'
      OBVIOUS
  <1>1. CASE UNCHANGED vars
    <2> USE <1>1 DEF vars, table, walk, merged
    <2>1. TypeOK'
          BY DEF ChainInv, TypeOK
    <2>2. SelectInv'
          BY DEF ChainInv, SelectInv, SelectsDeepest, Matches
    <2>3. WalkInv'
          BY DEF ChainInv, WalkInv, Members, Started, Leaf, OnLine, Closed
    <2>4. MergeInv'
          BY DEF ChainInv, MergeInv, ChildWins, Nearest
    <2> QED BY <2>1, <2>2, <2>3, <2>4 DEF ChainInv
  <1>2. CASE Next
        BY <1>2, LoadDefaultChain, ReadTableChain, ConsiderChain, SelectChain, WalkChain,
           LoadFailsChain, MergeNextChain, MergedChain DEF Next
  <1> QED BY <1>1, <1>2

\* The inductive invariant holds of every load.
THEOREM ChainInvariant == Spec => []ChainInv
  <1>1. Init => ChainInv
        BY InitChain
  <1>2. ChainInv /\ [Next]_vars => ChainInv'
        BY StepChain
  <1> QED BY <1>1, <1>2, PTL DEF Spec

\* load_for_dir selects the deepest matching entry in any order.
THEOREM DeepestSelected == Spec => []SelectsDeepest
  <1>1. ChainInv => SelectsDeepest
        BY DEF ChainInv, SelectInv
  <1> QED BY <1>1, ChainInvariant, PTL

\* The merge of merge_with_profile gives the child's value and the root's
\* elements first.
THEOREM ChildOverrides == Spec => []ChildWins
  <1>1. ChainInv => ChildWins
        BY DEF ChainInv, MergeInv
  <1> QED BY <1>1, ChainInvariant, PTL

\* What merge_with_profile merges is the line of inheritance, whole and sound.
THEOREM LineageMerged == Spec => []MergesLineage
  <1>1. ChainInv => MergesLineage
    <2> SUFFICES ASSUME ChainInv, pc = "merge" \/ (pc = "done" /\ chain # <<>>)
                 PROVE  /\ Started /\ Sound(Leaf)
                        /\ {chain[i] : i \in DOMAIN chain} = Lineage(Leaf)
        BY DEF MergesLineage
    <2>1. /\ Started /\ visited \subseteq Valid /\ visited \subseteq Names
          /\ \A p \in visited : OnLine(p)
          /\ Leaf \in visited /\ Closed(visited) /\ visited = Members
          /\ \E p \in visited : inherit[p] = NoProfile
          BY ProfileAssumption DEF ChainInv, WalkInv
    <2>2. visited = Lineage(Leaf)
          BY <2>1 DEF Lineage, OnLine
    <2> QED BY <2>1, <2>2 DEF Sound, Members
  <1> QED BY <1>1, ChainInvariant, PTL

\* The walk of merge_with_profile refuses a profile only if its line of
\* inheritance has no root or an invalid name.
THEOREM OnlyUnsoundRefused == Spec => RefusesOnlyUnsound
  <1>1. ChainInv /\ [Next]_vars => [pc = "walk" /\ pc' = "refused" => ~Sound(Leaf)]_vars
    <2> SUFFICES ASSUME ChainInv, Next, pc = "walk", pc' = "refused", Sound(Leaf) PROVE FALSE
        OBVIOUS
    <2>1. Walk
          BY DEF Next, LoadDefault, ReadTable, Consider, Select, LoadFails, MergeNext, Merged, Goto
    <2>2. /\ current \in Valid /\ OnLine(current) /\ Leaf \in visited \cup {current}
          /\ \A p \in visited : inherit[p] \in visited \cup {current}
          /\ visited \cup {current} \subseteq Names
          BY ProfileAssumption DEF ChainInv, WalkInv
    <2>3. PICK q \in Lineage(Leaf) : inherit[q] = NoProfile
          BY DEF Sound
    <2>4. current \in visited \/ Parent(current) = current \/ Parent(current) \in Names \ Valid
          BY <2>1 DEF Walk, Visit
    <2>5. CASE current \in visited \/ Parent(current) = current
      <3>1. \A p \in visited \cup {current} : inherit[p] \in visited \cup {current}
            BY <2>2, <2>5 DEF Parent
      <3>2. Closed(visited \cup {current})
            BY <3>1 DEF Closed
      <3>3. q \in visited \cup {current}
            BY <2>2, <3>2 DEF Lineage
      <3> QED BY <2>2, <2>3, <3>1, <3>3, ProfileAssumption
    <2>6. CASE Parent(current) \in Names \ Valid
      <3>1. OnLine(inherit[current])
            BY <2>2, <2>6, ProfileAssumption DEF OnLine, Closed, Parent
      <3>2. inherit[current] \in Lineage(Leaf)
            BY <2>6, <3>1 DEF OnLine, Lineage, Parent
      <3> QED BY <2>6, <3>2 DEF Sound, Parent
    <2> QED BY <2>4, <2>5, <2>6
  <1> QED BY <1>1, ChainInvariant, PTL DEF Spec, RefusesOnlyUnsound
=============================================================================
