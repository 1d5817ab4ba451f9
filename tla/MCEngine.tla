------------------------------ MODULE MCEngine ------------------------------
(***************************************************************************)
(* Parses of one thread, nested and in succession.                         *)
(***************************************************************************)
EXTENDS EngineProperties, TLC

Interchangeable == Permutations(Parses)
=============================================================================
