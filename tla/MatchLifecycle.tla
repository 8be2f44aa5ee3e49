---------------------------- MODULE MatchLifecycle ----------------------------
(***************************************************************************)
(* What one match promises its players, without reports, deadlines and     *)
(* penalties: the result is decided once, the decision may stand open for  *)
(* approval, what becomes final is what was decided, and after that only   *)
(* an admin can put another result in its place. MatchFlow implements it.  *)
(***************************************************************************)
CONSTANTS Results, None

VARIABLES
  phase,        (* "open", "approval" or "final"                           *)
  decided,      (* the result that was decided, or None                    *)
  result        (* the result that stands, or None before it is final      *)

vars == <<phase, decided, result>>

TypeOK ==
  /\ phase \in {"open", "approval", "final"}
  /\ decided \in Results \cup {None}
  /\ result \in Results \cup {None}

Init ==
  /\ phase = "open"
  /\ decided = None
  /\ result = None

Propose(r) ==
  /\ phase = "open"
  /\ phase' = "approval"
  /\ decided' = r
  /\ UNCHANGED result

DecideUnanimously(r) ==
  /\ phase = "open"
  /\ phase' = "final"
  /\ decided' = r
  /\ result' = r

Settle ==
  /\ phase = "approval"
  /\ phase' = "final"
  /\ result' = decided
  /\ UNCHANGED decided

Overrule(r) ==
  /\ phase = "final"
  /\ result' = r
  /\ UNCHANGED <<phase, decided>>

Next ==
  \/ \E r \in Results : Propose(r) \/ DecideUnanimously(r) \/ Overrule(r)
  \/ Settle

Spec == Init /\ [][Next]_vars

\* Every match gets a final result.
Concludes == <>(phase = "final")
=============================================================================
