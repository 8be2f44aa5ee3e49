------------------------------ MODULE MCMatchFlow -----------------------------
(***************************************************************************)
(* Small instances of MatchFlow.                                           *)
(***************************************************************************)
EXTENDS MatchFlow, TLC

CONSTANTS a1, a2, b1, b2, s1, s2

OnePenalty == {<<a1, "no_report">>}
NoPenalty == {}

\* The two spectators may do exactly the same.
Seats == Permutations({s1, s2})
=============================================================================
