-------------------------- MODULE PathPrefixProofs ---------------------------
(***************************************************************************)
(* Proofs of what PathPrefix claims of every path it visits, for any table *)
(* of escapes, any symbols, any prefixes and any length: the visited path  *)
(* is a path, and the lemmas of RequestPathProofs hold for every one.      *)
(***************************************************************************)
EXTENDS PathPrefix, RequestPathProofs

PathInv == path \in Path

LEMMA PathInvariant == Spec => []PathInv
<1>1. Init => PathInv
  BY PathAssumption DEF Init, PathInv
<1>2. PathInv /\ [Next]_path => PathInv'
  <2>1. SUFFICES ASSUME PathInv, [Next]_path PROVE PathInv'
    OBVIOUS
  <2>2. CASE \E s \in Symbols : path' = Append(path, s)
    <3>1. PICK s \in Symbols : path' = Append(path, s)
      BY <2>2
    <3>2. s \in STRING
      BY PathAssumption
    <3>3. QED
      BY <2>1, <3>1, <3>2, JoinConcat DEF PathInv
  <2>3. CASE path' = path
    BY <2>1, <2>3 DEF PathInv
  <2>4. QED
    BY <2>1, <2>2, <2>3 DEF Next
<1>3. QED
  BY <1>1, <1>2, PTL DEF Spec

\* No server resolves a path that a rule lets through outside the rule's
\* prefix: PrefixHolds, for the visited path and every prefix of the rules.
THEOREM StaysUnderPrefixAlways == Spec => []StaysUnderPrefix
<1>1. PathInv => StaysUnderPrefix
  <2>1. SUFFICES ASSUME PathInv, NEW prefix \in RulePrefixes, PathAllowed(path, prefix)
                 PROVE  HeldByPrefix(path, prefix)
    BY DEF StaysUnderPrefix
  <2>2. prefix \in Path
    BY PathAssumption
  <2>3. QED
    BY <2>1, <2>2, PrefixHolds DEF PathInv
<1>2. QED
  BY <1>1, PathInvariant, PTL

\* may_escape_prefix refuses nothing more than it has to: what it refuses
\* keeps an escape after decoding, or has a dot segment for a server that
\* decodes once, splits at both slashes and drops parameters.
THEOREM RefusedForAReasonAlways == Spec => []RefusedForAReason
<1>1. PathInv => RefusedForAReason
  <2>1. SUFFICES ASSUME PathInv, NEW prefix \in RulePrefixes, PathHasPrefix(path, prefix),
                        ~PathAllowed(path, prefix), ~Contains(Decode(path), "%")
                 PROVE  \E server \in Server :
                          \E s \in Range(ReadSegments(path, server)) : s \in DotSegment
    BY DEF RefusedForAReason
  <2>2. MayEscapePrefix(path)
    BY <2>1 DEF PathAllowed
  <2>3. QED
    BY <2>1, <2>2, RefusedFor DEF PathInv
<1>2. QED
  BY <1>1, PathInvariant, PTL
=============================================================================
