----------------------------- MODULE MCWhmClient -----------------------------
(* Instances of WhmClient for TLC: one or more hosts of which h1 may cut     *)
(* connections in mid-response, several operations per host.                 *)
EXTENDS WhmClient

CONSTANTS c1, c2, c3, c4, h1, h2

MCKeyOf == [c \in Caller |-> IF c \in {c1, c2} THEN h1 ELSE h2]
MCOneKey == [c \in Caller |-> h1]
==============================================================================
