------------------------------- MODULE MCRelay -------------------------------
(***************************************************************************)
(* Model checking Relay.                                                   *)
(***************************************************************************)
EXTENDS Relay

Symmetry == Permutations(Conns) \cup Permutations(Pipes)
=============================================================================
