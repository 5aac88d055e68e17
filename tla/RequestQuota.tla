---------------------------- MODULE RequestQuota ----------------------------
(***************************************************************************)
(* What a rule's request quota promises, with no lock, no clock and no     *)
(* counter: windows succeed one another, in each window at most            *)
(* MaxRequests requests are admitted, and a request is turned away only    *)
(* when its window is full. The clock may be set back; the quota may then  *)
(* return once to an earlier window, which costs one more allowance.       *)
(***************************************************************************)
EXTENDS Naturals

CONSTANTS
  Windows,      \* the indices of the windows, a set of naturals with 0
  MaxRequests   \* requests admitted per window, a natural

VARIABLES
  window,   \* the window of the latest request
  setBacks, \* times the clock was set back
  returns,  \* times the quota returned to an earlier window
  granted,  \* window |-> requests admitted in it
  verdict   \* what the latest request was told

quotaVars == <<window, setBacks, returns, granted, verdict>>

AInit ==
  /\ window = 0
  /\ setBacks = 0
  /\ returns = 0
  /\ granted = [w \in Windows |-> 0]
  /\ verdict = "none"

\* The quota moves on to window w, or returns to it if a set-back is left.
Enter(w) ==
  /\ window' = w
  /\ \/ w >= window /\ returns' = returns
     \/ w < window /\ returns < setBacks /\ returns' = returns + 1

Admit(w) ==
  /\ Enter(w)
  /\ granted[w] < MaxRequests * (1 + returns')
  /\ granted' = [granted EXCEPT ![w] = @ + 1]
  /\ verdict' = "admitted"
  /\ UNCHANGED setBacks

Refuse(w) ==
  /\ Enter(w)
  /\ granted[w] >= MaxRequests
  /\ verdict' = "refused"
  /\ UNCHANGED <<granted, setBacks>>

ClockSetBack ==
  /\ setBacks' = setBacks + 1
  /\ UNCHANGED <<window, returns, granted, verdict>>

ANext == ClockSetBack \/ \E w \in Windows : Admit(w) \/ Refuse(w)

ASpec == AInit /\ [][ANext]_quotaVars
=============================================================================
