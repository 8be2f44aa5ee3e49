---------------------------- MODULE MCRatingLedger ----------------------------
(***************************************************************************)
(* Small instances of RatingLedger.                                        *)
(***************************************************************************)
EXTENDS RatingLedger

\* One player plays them all, so that a correction of any match holds a lock
\* that every finalization needs.
Star == <<<<1, 2>>, <<1, 3>>, <<2, 1>>>>

\* The last match shares no player with the first one.
Chain == <<<<1, 2>>, <<2, 3>>, <<3, 4>>>>
=============================================================================
