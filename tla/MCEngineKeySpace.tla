-------------------------- MODULE MCEngineKeySpace --------------------------
(***************************************************************************)
(* The instances of MCEngine, for the refinement.                          *)
(***************************************************************************)
EXTENDS MCEngine, EngineKeySpace
=============================================================================
