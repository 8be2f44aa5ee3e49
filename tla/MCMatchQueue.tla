----------------------------- MODULE MCMatchQueue -----------------------------
(***************************************************************************)
(* Small instances of MatchQueue.                                          *)
(***************************************************************************)
EXTENDS MatchQueue, TLC

CONSTANTS p1, p2, p3, p4, c1, c2

\* Both players may join class c1; only p2 is also let into c2.
MCEligible == {<<p1, c1>>, <<p2, c1>>, <<p2, c2>>}

AllEligible == Players \X Classes

\* With one class, everybody may do the same.
MCAlike == Permutations(Players)
=============================================================================
