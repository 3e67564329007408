---------------------------- MODULE MCAccountSync ----------------------------
(* Instances of AccountSync for TLC.  Syncs differ in nothing but their      *)
(* names; the permutations are used where no liveness is checked.            *)
EXTENDS AccountSync, TLC

SyncSymmetry == Permutations(Sync)
==============================================================================
