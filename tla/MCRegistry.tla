----------------------------- MODULE MCRegistry ------------------------------
(* Instances of Registry for TLC: two requests at a time on a few rows.      *)
(* Handlers differ in nothing but their names.                               *)
EXTENDS Registry, TLC

HandlerSymmetry == Permutations(Handler)
==============================================================================
