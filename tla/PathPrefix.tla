----------------------------- MODULE PathPrefix ------------------------------
(***************************************************************************)
(* The paths a rule with path_prefixes lets through, against how servers   *)
(* read them. Every path up to a length is visited, one symbol per step.   *)
(***************************************************************************)
EXTENDS RequestPath

CONSTANTS
  Symbols,        \* what paths are made of
  Start,          \* how every path starts
  RulePrefixes,   \* path_prefixes of the rules
  MaxLen          \* bound on the length of a path, in symbols

ASSUME PathAssumption ==
  /\ Symbols \subseteq STRING /\ Start \in Path /\ RulePrefixes \subseteq Path
  /\ MaxLen \in Nat /\ Len(Start) <= MaxLen

VARIABLE path       \* the path of the request's URI

Init == path = Start

Next ==
  \/ Len(path) < MaxLen /\ \E s \in Symbols : path' = Append(path, s)
  \/ Len(path) = MaxLen /\ UNCHANGED path

Spec == Init /\ [][Next]_path

-----------------------------------------------------------------------------

\* No server resolves a path that a rule lets through outside the rule's
\* prefix, however it decodes, splits and cuts both (may_escape_prefix).
StaysUnderPrefix ==
  \A prefix \in RulePrefixes : PathAllowed(path, prefix) => HeldByPrefix(path, prefix)

\* Nothing more is refused than has to be: a path under the prefix is let
\* through unless escapes are left in it after decoding it once, or some
\* server finds a dot segment in it.
RefusedForAReason ==
  \A prefix \in RulePrefixes :
    PathHasPrefix(path, prefix) /\ ~PathAllowed(path, prefix) =>
      \/ Contains(Decode(path), "%")
      \/ \E server \in Server : \E s \in Range(ReadSegments(path, server)) : s \in DotSegment
=============================================================================
