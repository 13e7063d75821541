----------------------------- MODULE MCDatabase ------------------------------
(***************************************************************************)
(* Model checking Database.                                                *)
(***************************************************************************)
EXTENDS Database, TLC

Symmetry == Permutations(Jobs) \cup Permutations(Handles)
=============================================================================
