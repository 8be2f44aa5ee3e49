----------------------------- MODULE AtLeastOnce ------------------------------
(***************************************************************************)
(* What the outbox promises to those who put notices into it: a notice is  *)
(* shown only after it was accepted and before it is closed, and it counts *)
(* as delivered only if it was shown. How often it is shown is left open.  *)
(* OutboxDelivery implements it.                                           *)
(***************************************************************************)
EXTENDS Naturals

CONSTANTS Notices

VARIABLES
  accepted,     (* the notices that were handed over                       *)
  delivered,    (* those that count as shown                               *)
  dropped,      (* those that were given up                                *)
  shown         (* how often each was shown                                *)

vars == <<accepted, delivered, dropped, shown>>

Open == accepted \ (delivered \cup dropped)

Init ==
  /\ accepted = {} /\ delivered = {} /\ dropped = {}
  /\ shown = [n \in Notices |-> 0]

Accept(S) ==
  /\ S \subseteq Notices
  /\ accepted' = accepted \cup S
  /\ UNCHANGED <<delivered, dropped, shown>>

Show(n) ==
  /\ n \in Open
  /\ shown' = [shown EXCEPT ![n] = @ + 1]
  /\ UNCHANGED <<accepted, delivered, dropped>>

Confirm(n) ==
  /\ n \in Open
  /\ shown[n] > 0
  /\ delivered' = delivered \cup {n}
  /\ UNCHANGED <<accepted, dropped, shown>>

GiveUp(n) ==
  /\ n \in Open
  /\ dropped' = dropped \cup {n}
  /\ UNCHANGED <<accepted, delivered, shown>>

Next ==
  \/ \E S \in SUBSET Notices : Accept(S)
  \/ \E n \in Notices : Show(n) \/ Confirm(n) \/ GiveUp(n)

Spec == Init /\ [][Next]_vars

\* A notice that was accepted is not forgotten.
Settles(n) == n \in accepted ~> n \in delivered \cup dropped
=============================================================================
