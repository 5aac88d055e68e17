----------------------------- MODULE RequestPath -----------------------------
(***************************************************************************)
(* path_prefixes of an HTTP rule: which request paths the rule lets        *)
(* through (path_has_prefix, may_escape_prefix and percent_decode of       *)
(* celily-lib/src/network/handler.rs), and how the server behind it may    *)
(* read them. Whether a server decodes percent escapes, once or twice,     *)
(* before or after splitting, takes `\` for a separator, and drops path    *)
(* parameters, is not for celily to know: the rule must hold for all.      *)
(*                                                                         *)
(* A path is a sequence of symbols: characters, and two hexadecimal digits *)
(* are one symbol, so that "%" and a digit pair are one escape.            *)
(***************************************************************************)
EXTENDS Naturals, SequencesExt

CONSTANT Escapes    \* digit pair |-> the character it escapes

Path == Seq(STRING)

Pair == DOMAIN Escapes

Special == {".", "/", "\\", ";", "%"}

ASSUME EscapesAssumption ==
  Escapes \in [Pair -> STRING] /\ Pair \subseteq STRING \ Special

-----------------------------------------------------------------------------
\* percent_decode: every valid escape once, everything else kept.

EscapeAt(p, i) == p[i] = "%" /\ i < Len(p) /\ p[i + 1] \in Pair

DecodeAt(p, i) ==
  CASE EscapeAt(p, i) -> <<Escapes[p[i + 1]]>>
    [] i > 1 /\ EscapeAt(p, i - 1) -> <<>>
    [] OTHER -> <<p[i]>>

Decode(p) == FlattenSeq([i \in DOMAIN p |-> DecodeAt(p, i)])

-----------------------------------------------------------------------------
\* may_escape_prefix

DotSegment == {<<".">>, <<".", ".">>}

\* What ends before position i, a separator's or the one after the last.
SegmentBefore(p, separators, i) ==
  SubSeq(p, 1 + Max({0} \cup {j \in 1 .. i - 1 : p[j] \in separators}), i - 1)

\* What lies between separators.
Segments(p, separators) ==
  FlattenSeq([i \in 1 .. Len(p) + 1 |->
                IF i = Len(p) + 1 \/ p[i] \in separators
                  THEN << SegmentBefore(p, separators, i) >> ELSE <<>>])

WithoutParams(segment) == Segments(segment, {";"})[1]

\* Mutants of MayEscapePrefix: what is escaped twice is not looked for; dots
\* anywhere are taken for a dot segment.
EscapeOneDecode(p) ==
  \E segment \in Range(Segments(Decode(p), {"/", "\\"})) :
    WithoutParams(segment) \in DotSegment

EscapeAnyDots(p) ==
  \/ Contains(Decode(p), "%")
  \/ \E segment \in Range(Segments(Decode(p), {"/", "\\"})) :
       IsPrefix(<<".">>, segment)

MayEscapePrefix(p) ==
  \/ Contains(Decode(p), "%")
  \/ \E segment \in Range(Segments(Decode(p), {"/", "\\"})) :
       WithoutParams(segment) \in DotSegment

-----------------------------------------------------------------------------
\* path_has_prefix, and the path condition of rule_matches

PathHasPrefix(p, prefix) ==
  /\ IsPrefix(prefix, p)
  /\ \/ p = prefix
     \/ p[Len(prefix) + 1] = "/"
     \/ prefix # <<>> /\ Last(prefix) = "/"

PathAllowed(p, prefix) == PathHasPrefix(p, prefix) /\ ~MayEscapePrefix(p)

-----------------------------------------------------------------------------
\* How a server may read a path

Server == [decodes     : 0 .. 2,      \* times it decodes
           splitsFirst : BOOLEAN,     \* into segments before it decodes
           separators  : {{"/"}, {"/", "\\"}},
           params      : BOOLEAN]     \* does it drop path parameters?

DecodeTimes(p, n) == CASE n = 0 -> p [] n = 1 -> Decode(p) [] n = 2 -> Decode(Decode(p))

ReadSegments(p, server) ==
  LET pieces == IF server.splitsFirst
                  THEN Segments(p, server.separators)
                  ELSE Segments(DecodeTimes(p, server.decodes), server.separators)
      Piece(s) == IF server.params THEN WithoutParams(s) ELSE s
  IN  [k \in DOMAIN pieces |->
         IF server.splitsFirst THEN DecodeTimes(Piece(pieces[k]), server.decodes)
                               ELSE Piece(pieces[k])]

\* Where a segment leads from a place: "." stays and ".." goes up, not above
\* the root.
Enter(place, segment) ==
  CASE segment = <<".">> -> place
    [] segment = <<".", ".">> -> IF place = <<>> THEN <<>> ELSE Front(place)
    [] OTHER -> Append(place, segment)

\* The place that a path leads to; its first segment is before the root.
PlaceOf(segments) ==
  LET after[n \in 1 .. Len(segments)] ==
        IF n = 1 THEN <<>> ELSE Enter(after[n - 1], segments[n])
  IN  after[Len(segments)]

\* The place that a prefix names: "/x/" and "/x" name the same.
PlaceNamed(segments) ==
  LET place == PlaceOf(segments)
  IN  IF place # <<>> /\ Last(place) = <<>> THEN Front(place) ELSE place

\* Whatever a server makes of a path and of the prefix, the prefix holds it.
HeldByPrefix(p, prefix) ==
  \A server \in Server :
    IsPrefix(PlaceNamed(ReadSegments(prefix, server)), PlaceOf(ReadSegments(p, server)))
=============================================================================
