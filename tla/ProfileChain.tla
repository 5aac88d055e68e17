---------------------------- MODULE ProfileChain -----------------------------
(***************************************************************************)
(* Which configuration a run gets (celily/src/config/mod.rs and, for the   *)
(* choice between the three ways to load it, celily/src/main.rs): the      *)
(* profile that the working directory selects in profiles.toml, the walk   *)
(* up its [inherit] table, and the merge of the profiles met, root first,  *)
(* over the default.                                                       *)
(*                                                                         *)
(* Files are read while the program runs: what profiles.toml holds is      *)
(* chosen when it is read, and whether a profile can be loaded, and what   *)
(* it sets, when its turn comes. Two kinds of keys are told apart: one     *)
(* that a later file overrides (an option, or one key of a map), and one   *)
(* that it extends (a list).                                               *)
(***************************************************************************)
EXTENDS Naturals, Sequences

CONSTANTS
  Names,       \* profile names
  Valid,       \* those is_valid_profile_name accepts
  NoProfile,   \* no entry in [inherit]; on the command line, --no-profile
  ByDirectory, \* the command line names no profile
  Entries,     \* the entries of [profiles]
  NoEntry,     \* none of them
  MaxDepth     \* bound on the depth of the working directory

ASSUME ProfileAssumption ==
  /\ Valid \subseteq Names
  /\ NoProfile \notin Names /\ ByDirectory \notin Names
  /\ NoProfile # ByDirectory
  /\ NoEntry \notin Entries
  /\ MaxDepth \in Nat

VARIABLES
  asked,    \* a profile (--profile), NoProfile or ByDirectory
  inherit,  \* profile |-> its parent, as profiles.toml was read
  depth,    \* entry |-> components of its directory if the working directory
            \* is under it; 0 if it is not, or cannot be canonicalized
  name,     \* entry |-> its profile
  pc,       \* "default", "table", "scan", "walk", "merge", "done", "refused"
  todo,     \* entries not looked at yet: a HashMap has no order
  best,     \* best_match
  current,  \* the profile the walk is at
  visited,  \* profiles it has been at
  chain,    \* the same, from the leaf up
  left,     \* profiles of the chain that are not merged yet
  value,    \* whose value an option has: a profile's, or NoProfile's, the default's
  list,     \* whose elements a list has, in order; the default's come first
  setters   \* history: merged profiles whose file sets the option

table    == <<inherit, depth, name>>
walk     == <<current, visited, chain>>
merged   == <<left, value, list, setters>>
vars     == <<asked, table, pc, todo, best, walk, merged>>

TypeOK ==
  /\ asked \in Names \cup {NoProfile, ByDirectory}
  /\ inherit \in [Names -> Names \cup {NoProfile}]
  /\ depth \in [Entries -> 0 .. MaxDepth]
  /\ name \in [Entries -> Names \cup {NoProfile}]
  /\ pc \in {"default", "table", "scan", "walk", "merge", "done", "refused"}
  /\ todo \subseteq Entries
  /\ best \in Entries \cup {NoEntry}
  /\ current \in Names \cup {NoProfile}
  /\ visited \subseteq Names
  /\ chain \in Seq(Names)
  /\ left \in Nat
  /\ value \in Names \cup {NoProfile}
  /\ list \in Seq(Names)
  /\ setters \subseteq Names

\* An unread table is as good as an empty one.
Init ==
  /\ asked \in Names \cup {NoProfile, ByDirectory}
  /\ inherit = [p \in Names |-> NoProfile]
  /\ depth = [e \in Entries |-> 0]
  /\ name = [e \in Entries |-> NoProfile]
  /\ pc = "default"
  /\ todo = Entries /\ best = NoEntry
  /\ current = NoProfile /\ visited = {} /\ chain = <<>>
  /\ left = 0 /\ value = NoProfile /\ list = <<>> /\ setters = {}

Goto(from, to) == pc = from /\ pc' = to

-----------------------------------------------------------------------------
\* Selection

\* load_default: the file may be missing, unreadable, writable by others or
\* without a distro.
LoadDefault ==
  /\ \/ asked = NoProfile /\ Goto("default", "done")
     \/ asked # NoProfile /\ Goto("default", "table")
     \/ Goto("default", "refused")
  /\ UNCHANGED <<asked, table, todo, best, walk, merged>>

\* Mutant of StartWalk: the name is not checked.
StartUnchecked(p) == pc' = "walk" /\ current' = p

\* merge_with_profile starts: the profile's own name is checked first.
StartWalk(p) ==
  IF p \in Valid THEN pc' = "walk" /\ current' = p
                 ELSE pc' = "refused" /\ UNCHANGED current

\* load_profiles_toml, and canonicalize before it for a directory. Only names
\* that are reached matter, and invalid ones are not.
ReadTable ==
  /\ pc = "table"
  /\ \/ /\ inherit' \in {t \in [Names -> Names \cup {NoProfile}] :
                           \A p \in Names \ Valid : t[p] = NoProfile}
        /\ \/ /\ asked = ByDirectory
              /\ depth' \in [Entries -> 0 .. MaxDepth]
              /\ name' \in [Entries -> Names]
              /\ pc' = "scan" /\ UNCHANGED current
           \/ /\ asked # ByDirectory
              /\ StartWalk(asked)
              /\ UNCHANGED <<depth, name>>
     \/ pc' = "refused" /\ UNCHANGED <<table, current>>
  /\ UNCHANGED <<asked, todo, best, visited, chain, merged>>

\* An entry the loop does not skip, whose directory is above the working one.
Matches(e) == name[e] \in Valid /\ depth[e] > 0

\* Mutants of Deeper: the last match wins; invalid entries compete.
LastWins(e) == Matches(e)

EvenInvalid(e) == depth[e] > 0 /\ (best = NoEntry \/ depth[e] > depth[best])

Deeper(e) == Matches(e) /\ (best = NoEntry \/ depth[e] > depth[best])

Consider(e) ==
  /\ pc = "scan" /\ e \in todo
  /\ todo' = todo \ {e}
  /\ best' = IF Deeper(e) THEN e ELSE best
  /\ UNCHANGED <<asked, table, pc, walk, merged>>

Select ==
  /\ pc = "scan" /\ todo = {}
  /\ IF best = NoEntry THEN pc' = "done" /\ UNCHANGED current
                       ELSE StartWalk(name[best])
  /\ UNCHANGED <<asked, table, todo, best, visited, chain, merged>>

-----------------------------------------------------------------------------
\* The walk up the [inherit] table: one iteration of merge_with_profile's loop

Parent(p) == inherit[p]

\* Mutants of Visit: a profile met before does not stop the walk; an invalid
\* parent is ignored; the parent counts as met when its child is.
VisitLoops ==
  /\ visited' = visited \cup {current}
  /\ chain' = IF current \in visited THEN chain ELSE Append(chain, current)
  /\ IF Parent(current) = NoProfile
       THEN pc' = "merge" /\ left' = Len(chain') /\ UNCHANGED current
       ELSE pc' = "walk" /\ current' = Parent(current) /\ UNCHANGED left

VisitIgnoresInvalid ==
  IF current \in visited
    THEN pc' = "refused" /\ UNCHANGED <<walk, left>>
    ELSE /\ visited' = visited \cup {current}
         /\ chain' = Append(chain, current)
         /\ IF Parent(current) \notin Valid
              THEN pc' = "merge" /\ left' = Len(chain) + 1 /\ UNCHANGED current
              ELSE pc' = "walk" /\ current' = Parent(current) /\ UNCHANGED left

VisitMarksParent ==
  IF current \in visited
    THEN pc' = "refused" /\ UNCHANGED <<walk, left>>
    ELSE /\ visited' = visited \cup {current, Parent(current)}
         /\ chain' = Append(chain, current)
         /\ IF Parent(current) = NoProfile
              THEN pc' = "merge" /\ left' = Len(chain) + 1 /\ UNCHANGED current
              ELSE pc' = "walk" /\ current' = Parent(current) /\ UNCHANGED left

Visit ==
  IF current \in visited
    THEN pc' = "refused" /\ UNCHANGED <<walk, left>>
    ELSE /\ visited' = visited \cup {current}
         /\ chain' = Append(chain, current)
         /\ CASE Parent(current) = NoProfile ->
                   pc' = "merge" /\ left' = Len(chain) + 1 /\ UNCHANGED current
              [] Parent(current) = current \/ Parent(current) \in Names \ Valid ->
                   pc' = "refused" /\ UNCHANGED <<current, left>>
              [] OTHER ->
                   pc' = "walk" /\ current' = Parent(current) /\ UNCHANGED left

Walk ==
  /\ pc = "walk" /\ Visit
  /\ UNCHANGED <<asked, table, todo, best, value, list, setters>>

-----------------------------------------------------------------------------
\* The merge

\* load_file: the profile may be missing, unreadable, writable by others or
\* malformed.
LoadFails ==
  /\ pc = "merge" /\ left > 0 /\ pc' = "refused"
  /\ UNCHANGED <<asked, table, todo, best, walk, merged>>

\* Mutants of MergeProfile: the first value stays; a file's list comes before
\* what it inherits.
MergeKeepsFirst(p, sets) ==
  /\ value' = IF sets /\ value = NoProfile THEN p ELSE value
  /\ list' = Append(list, p)

MergePrepends(p, sets) ==
  /\ value' = IF sets THEN p ELSE value
  /\ list' = <<p>> \o list

\* overwrite_some and hashmap::overwrite; vec::append.
MergeProfile(p, sets) ==
  /\ value' = IF sets THEN p ELSE value
  /\ list' = Append(list, p)

MergeNext ==
  /\ pc = "merge" /\ left > 0
  /\ \E sets \in BOOLEAN :
       /\ MergeProfile(chain[left], sets)
       /\ setters' = IF sets THEN setters \cup {chain[left]} ELSE setters
  /\ left' = left - 1
  /\ UNCHANGED <<asked, table, pc, todo, best, walk>>

Merged ==
  /\ left = 0 /\ Goto("merge", "done")
  /\ UNCHANGED <<asked, table, todo, best, walk, merged>>

-----------------------------------------------------------------------------

Next ==
  \/ LoadDefault \/ ReadTable
  \/ \E e \in Entries : Consider(e)
  \/ Select \/ Walk
  \/ LoadFails \/ MergeNext \/ Merged

Spec == Init /\ [][Next]_vars

\* The program does nothing else meanwhile, and every call returns.
FairSpec == Spec /\ WF_vars(Next)

-----------------------------------------------------------------------------
\* What is promised

\* The profile the run starts from.
Leaf == IF asked = ByDirectory THEN name[best] ELSE asked

Started == asked \in Names \/ (asked = ByDirectory /\ best # NoEntry)

\* p and everything it inherits from, however the table is walked: the least
\* set that holds p and the parents of its members.
Closed(S) == \A p \in S : inherit[p] = NoProfile \/ inherit[p] \in S

Lineage(p) == {q \in Names : \A S \in SUBSET Names : p \in S /\ Closed(S) => q \in S}

\* A line of inheritance that can be merged: it has a root, so no cycle, and
\* every name in it is a valid one.
Sound(p) ==
  /\ \E q \in Lineage(p) : inherit[q] = NoProfile
  /\ Lineage(p) \subseteq Valid

\* The working directory gets the profile of the deepest directory it is
\* under, in whatever order the table is read, and none only if no valid entry
\* matches ("longest prefix wins", load_for_dir).
SelectsDeepest ==
  /\ best # NoEntry => Matches(best)
  /\ \A e \in Entries : Matches(e) =>
       \/ e \in todo \/ asked # ByDirectory \/ pc = "refused"
       \/ best # NoEntry /\ depth[e] <= depth[best]

\* What is merged is the whole line of inheritance of the profile asked for or
\* selected, and a line without a root or with an invalid name is never
\* merged (the loop of merge_with_profile).
MergesLineage ==
  (pc = "merge" \/ (pc = "done" /\ chain # <<>>)) =>
    /\ Started /\ Sound(Leaf)
    /\ {chain[i] : i \in DOMAIN chain} = Lineage(Leaf)

\* A sound line of inheritance is never refused: what is refused during the
\* walk has a cycle or an invalid name.
RefusesOnlyUnsound ==
  [][pc = "walk" /\ pc' = "refused" => ~Sound(Leaf)]_vars

\* Of the files merged so far, the one nearest to the profile that sets an
\* option gives its value; the lists follow one another from the root down,
\* each once ("child values override parents", "default first, then parent
\* profiles, then the profile").
Nearest(i) ==
  /\ chain[i] \in setters
  /\ \A j \in 1 .. i - 1 : chain[j] \notin setters

ChildWins ==
  pc = "merge" =>
    /\ \A i \in DOMAIN chain : Nearest(i) => value = chain[i]
    /\ setters = {} => value = NoProfile
    /\ Len(list) = Len(chain) - left
    /\ \A i \in DOMAIN list : list[i] = chain[Len(chain) + 1 - i]

\* The inductive invariant. Selection: nothing is selected before the table is
\* read, and every entry is looked at before the walk.
SelectInv ==
  /\ SelectsDeepest
  /\ pc \in {"default", "table"} => best = NoEntry /\ todo = Entries
  /\ pc \in {"default", "table", "scan"} => chain = <<>> /\ visited = {} /\ left = 0
  /\ asked = ByDirectory => pc \in {"default", "table", "scan", "refused"} \/ todo = {}
  /\ asked # ByDirectory => best = NoEntry /\ pc # "scan"

\* The walk: it is somewhere on the line of inheritance, and what it has left
\* behind is closed but for where it is.
Members == {chain[i] : i \in DOMAIN chain}

OnLine(p) == \A S \in SUBSET Names : Leaf \in S /\ Closed(S) => p \in S

WalkInv ==
  /\ visited = Members
  /\ \A i, j \in DOMAIN chain : chain[i] = chain[j] => i = j
  /\ pc \in {"walk", "merge"} \/ chain # <<>> =>
       /\ Started /\ Leaf \in Names
       /\ visited \subseteq Valid
       /\ \A p \in visited : OnLine(p)
  /\ pc = "walk" =>
       /\ current \in Valid /\ OnLine(current)
       /\ Leaf \in visited \cup {current}
       /\ \A p \in visited : inherit[p] \in visited \cup {current}
  /\ pc = "merge" \/ (pc = "done" /\ chain # <<>>) =>
       /\ Leaf \in visited /\ Closed(visited)
       /\ \E p \in visited : inherit[p] = NoProfile

MergeInv ==
  /\ ChildWins
  /\ pc \in {"default", "table", "scan", "walk"} =>
       list = <<>> /\ setters = {} /\ value = NoProfile
  /\ pc = "merge" =>
       /\ left \in 0 .. Len(chain)
       /\ \A i \in 1 .. left : chain[i] \notin setters

ChainInv == TypeOK /\ SelectInv /\ WalkInv /\ MergeInv

\* Loading ends, on a cyclic table too (the visited set of merge_with_profile).
LoadingEnds == <>(pc \in {"done", "refused"})
=============================================================================
