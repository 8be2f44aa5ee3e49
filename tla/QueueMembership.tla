---------------------------- MODULE QueueMembership ---------------------------
(***************************************************************************)
(* What the matchmaking queue promises, without rows, deadlines, reminders *)
(* and locks: a player holds at most one ticket, for one queue class; a    *)
(* ticket is given up, replaced or used up in one group of BatchSize       *)
(* players of the same class, and is never seen again after that.          *)
(* MatchQueue implements it.                                               *)
(***************************************************************************)
EXTENDS Naturals, FiniteSets

CONSTANTS Players, Classes, BatchSize

VARIABLES
  holds,        (* the ticket of every player who is in the queue          *)
  issued,       (* the number of tickets given out so far                  *)
  groups        (* the groups that were formed, as sets of tickets         *)

vars == <<holds, issued, groups>>

Ticket == [number : Nat, class : Classes]

TypeOK ==
  /\ DOMAIN holds \subseteq Players
  /\ \A p \in DOMAIN holds : holds[p] \in Ticket
  /\ issued \in Nat

InQueue == DOMAIN holds
Without(S) == [p \in InQueue \ S |-> holds[p]]
TicketsOf(S) == {holds[p].number : p \in S}

Init ==
  /\ holds = [p \in {} |-> 0]
  /\ issued = 0
  /\ groups = {}

Enter(player, class) ==
  /\ issued' = issued + 1
  /\ holds' = [p \in InQueue \cup {player} |->
                 IF p = player THEN [number |-> issued', class |-> class]
                 ELSE holds[p]]
  /\ UNCHANGED groups

Exit(S) ==
  /\ S \subseteq InQueue /\ S # {}
  /\ holds' = Without(S)
  /\ UNCHANGED <<issued, groups>>

Form(S, class) ==
  /\ S \subseteq InQueue /\ Cardinality(S) = BatchSize
  /\ \A p \in S : holds[p].class = class
  /\ holds' = Without(S)
  /\ groups' = groups \cup {TicketsOf(S)}
  /\ UNCHANGED issued

Next ==
  \/ \E p \in Players, c \in Classes : Enter(p, c)
  \/ \E S \in SUBSET Players : Exit(S)
  \/ \E S \in SUBSET Players, c \in Classes : Form(S, c)

Spec == Init /\ [][Next]_vars
=============================================================================
