---------------------------- MODULE FairSemaphore ----------------------------
(***************************************************************************)
(* What a keyed concurrency limiter promises to its callers: for each key  *)
(* a counting semaphore with Capacity slots, served first come first       *)
(* served.  A caller that finds a free slot takes it, any other caller     *)
(* waits in line, and a slot that is given back passes straight to the     *)
(* head of the line.  No code corresponds to this module: it is the        *)
(* abstract specification module Limiter is shown to implement.            *)
(***************************************************************************)
EXTENDS Naturals, Sequences, FiniteSets

CONSTANTS Caller, Key, KeyOf, Capacity

VARIABLES holders,  \* key -> the callers that own a slot
          waiting   \* key -> the callers in line, oldest first

semVars == <<holders, waiting>>

Outside(c) ==
  /\ c \notin holders[KeyOf[c]]
  /\ \A i \in DOMAIN waiting[KeyOf[c]] : waiting[KeyOf[c]][i] # c

Init ==
  /\ holders = [k \in Key |-> {}]
  /\ waiting = [k \in Key |-> <<>>]

\* A free slot is taken at once, and only when nobody is in line for it.
Take(c) ==
  /\ Outside(c)
  /\ Cardinality(holders[KeyOf[c]]) < Capacity
  /\ waiting[KeyOf[c]] = <<>>
  /\ holders' = [holders EXCEPT ![KeyOf[c]] = @ \cup {c}]
  /\ UNCHANGED waiting

Wait(c) ==
  /\ Outside(c)
  /\ Cardinality(holders[KeyOf[c]]) = Capacity
  /\ waiting' = [waiting EXCEPT ![KeyOf[c]] = Append(@, c)]
  /\ UNCHANGED holders

\* The slot goes to the head of the line, or becomes free when nobody waits.
Leave(c) ==
  /\ c \in holders[KeyOf[c]]
  /\ \/ /\ waiting[KeyOf[c]] = <<>>
        /\ holders' = [holders EXCEPT ![KeyOf[c]] = @ \ {c}]
        /\ UNCHANGED waiting
     \/ /\ waiting[KeyOf[c]] # <<>>
        /\ holders' = [holders EXCEPT
             ![KeyOf[c]] = (@ \ {c}) \cup {Head(waiting[KeyOf[c]])}]
        /\ waiting' = [waiting EXCEPT ![KeyOf[c]] = Tail(@)]

Next == \E c \in Caller : Take(c) \/ Wait(c) \/ Leave(c)

Spec == Init /\ [][Next]_semVars
==============================================================================
