------------------------------- MODULE Sandbox --------------------------------
(***************************************************************************)
(* What celily promises of a sandbox, whatever fails and whoever kills it: *)
(* an instance that is made once, comes up behind closed walls only, never *)
(* sees them change while it is up, not even after its run is gone, and of *)
(* which nothing is left when the run ends by itself and was not to leave  *)
(* anything. Lifecycle implements it.                                      *)
(***************************************************************************)
CONSTANT Runs

VARIABLES
  box,     \* run |-> its instance
  walls,   \* run |-> its network
  over     \* run |-> has it ended, and how?

sandboxVars == <<box, walls, over>>

Box == {"unmade", "down", "up", "gone"}

Walls == {"none",     \* there is no network
          "open",     \* one that is not, or no longer, closed
          "closed"}   \* default reject, every rule applied, DNS filtered

Over == {"no", "killed",
         "clean",     \* ended by itself, with everything deleted
         "left"}      \* ended with --keep, or after a deletion that failed

SInit ==
  /\ box = [r \in Runs |-> "unmade"]
  /\ walls = [r \in Runs |-> "none"]
  /\ over = [r \in Runs |-> "no"]

Make(r) ==
  /\ over[r] = "no" /\ box[r] = "unmade"
  /\ box' = [box EXCEPT ![r] = "down"]
  /\ UNCHANGED <<walls, over>>

\* The run builds its network, or takes it down, while the instance is not up.
Rebuild(r) ==
  /\ over[r] = "no" /\ box[r] # "up"
  /\ \E w \in Walls : walls' = [walls EXCEPT ![r] = w]
  /\ UNCHANGED <<box, over>>

Raise(r) ==
  /\ over[r] = "no" /\ box[r] = "down" /\ walls[r] = "closed"
  /\ box' = [box EXCEPT ![r] = "up"]
  /\ UNCHANGED <<walls, over>>

\* Deleted by the run, or by anybody once the run is over.
Remove(r) ==
  /\ box[r] \in {"down", "up"}
  /\ box' = [box EXCEPT ![r] = "gone"]
  /\ UNCHANGED <<walls, over>>

End(r) ==
  /\ over[r] = "no"
  /\ box' = [box EXCEPT ![r] = IF @ = "unmade" THEN "gone" ELSE @]
  /\ \E how \in Over \ {"no"} :
       /\ how = "clean" => box'[r] = "gone" /\ walls[r] = "none"
       /\ over' = [over EXCEPT ![r] = how]
  /\ UNCHANGED walls

SNext == \E r \in Runs : Make(r) \/ Rebuild(r) \/ Raise(r) \/ Remove(r) \/ End(r)

SSpec == SInit /\ [][SNext]_sandboxVars
-----------------------------------------------------------------------------

\* No instance is up but behind closed walls, of a run that has ended either.
NeverExposed == \A r \in Runs : box[r] = "up" => walls[r] = "closed"
=============================================================================
