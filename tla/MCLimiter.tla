------------------------------ MODULE MCLimiter ------------------------------
(* Instances of Limiter for TLC: several invocations contend for the slots   *)
(* of one key, or of two.                                                    *)
EXTENDS Limiter, TLC

CONSTANTS c1, c2, c3, c4, c5, h1, h2

\* c1..c3 share h1; c4 and c5 share h2.
MCKeyOf == (c1 :> h1) @@ (c2 :> h1) @@ (c3 :> h1) @@ (c4 :> h2) @@ (c5 :> h2)

\* Five callers of one key, for two slots.
MCOneKey == [c \in Caller |-> h1]
==============================================================================
