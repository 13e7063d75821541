----------------------------- MODULE MCAdmission -----------------------------
(***************************************************************************)
(* Model checking Admission.                                               *)
(***************************************************************************)
EXTENDS Admission, TLC

\* Clients and connections are only compared for equality.
Symmetry == Permutations(Clients) \cup Permutations(Conns)
=============================================================================
