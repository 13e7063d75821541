---------------------------- MODULE MCConnection -----------------------------
(***************************************************************************)
(* Model checking Connection.  No symmetry: HandshakeEnds and the          *)
(* refinement of LoginGate are checked together with the invariants.       *)
(***************************************************************************)
EXTENDS Connection
=============================================================================
