------------------------------ MODULE MCManagedUi ------------------------------
(***************************************************************************)
(* Small instances of ManagedUi.                                           *)
(***************************************************************************)
EXTENDS ManagedUi, TLC

CONSTANTS register_panel, info_channel

RegisterAndInfo == <<register_panel, info_channel>>

Symmetry == Permutations(Admins)
=============================================================================
