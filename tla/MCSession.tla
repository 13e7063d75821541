------------------------------ MODULE MCSession ------------------------------
(***************************************************************************)
(* Model checking Session, and Config with it.                             *)
(***************************************************************************)
EXTENDS Session
=============================================================================
