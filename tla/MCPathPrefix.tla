---------------------------- MODULE MCPathPrefix -----------------------------
(***************************************************************************)
(* A finite instance of PathPrefix: an escape for each character that the  *)
(* code tells apart, and prefixes that servers read in different ways.     *)
(***************************************************************************)
EXTENDS PathPrefix

MCEscapes == [p2e |-> ".", p2f |-> "/", p5c |-> "\\", p3b |-> ";", p25 |-> "%"]

\* "x" is any other character.
MCSymbols == Special \cup {"x"} \cup DOMAIN MCEscapes

MCStart == <<"/", "x">>

MCRulePrefixes ==
  {MCStart, MCStart \o <<"/">>, MCStart \o <<"/", "x">>, MCStart \o <<"%", "p2f">>,
   MCStart \o <<"\\", "x">>, MCStart \o <<";">>}
=============================================================================
