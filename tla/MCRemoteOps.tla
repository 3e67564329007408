----------------------------- MODULE MCRemoteOps -----------------------------
(* Instances of RemoteOps for TLC; the requests are interchangeable.         *)
EXTENDS RemoteOps, TLC

RequestSymmetry == Permutations(Request)
==============================================================================
