----------------------------- MODULE MCInfoThreads -----------------------------
EXTENDS InfoThreads, TLC

\* The handlers are alike: which of them handles an interaction does not matter.
Symmetry == Permutations(Interactions)
=============================================================================
