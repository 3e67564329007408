-------------------------- MODULE ReferenceMonitor --------------------------
(***************************************************************************)
(* What the chain of guards in front of the handlers promises.  Whether    *)
(* the platform vouches for a caller, and whether the caller has been      *)
(* granted what it asks for, is settled when its request arrives.  A       *)
(* caller that is vouched for is recognised and no other one is; only then *)
(* does it learn anything but that it is a stranger, and only with the     *)
(* grant does it reach a handler.  A caller that is recognised can still   *)
(* be refused (the tenant is not configured, the body is not valid).       *)
(***************************************************************************)
CONSTANT Caller

VARIABLES
  vouched,  \* caller -> the platform vouches for it
  granted,  \* caller -> it has the permission for its request
  verdict   \* caller -> none, pending, stranger, known, admitted or closed

Move(c, from, to) == verdict[c] = from /\ verdict' = [verdict EXCEPT ![c] = to]

Settle(c) ==
  /\ \E b \in BOOLEAN : vouched' = [vouched EXCEPT ![c] = b]
  /\ \E b \in BOOLEAN : granted' = [granted EXCEPT ![c] = b]

Arrive(c) == Move(c, "none", "pending") /\ Settle(c)

\* Answered at the door, before there is anything to decide on.
TurnAway(c) == Move(c, "none", "closed") /\ Settle(c)

Recognise(c) == vouched[c] /\ Move(c, "pending", "known") /\ UNCHANGED <<vouched, granted>>

Reject(c) == ~vouched[c] /\ Move(c, "pending", "stranger") /\ UNCHANGED <<vouched, granted>>

Admit(c) == granted[c] /\ Move(c, "known", "admitted") /\ UNCHANGED <<vouched, granted>>

\* Refused, or answered by its handler.
Close(c) ==
  /\ Move(c, "known", "closed") \/ Move(c, "admitted", "closed")
  /\ UNCHANGED <<vouched, granted>>

Leave(c) ==
  /\ Move(c, "stranger", "none") \/ Move(c, "closed", "none")
  /\ vouched' = [vouched EXCEPT ![c] = FALSE]
  /\ granted' = [granted EXCEPT ![c] = FALSE]

Init ==
  /\ vouched = [c \in Caller |-> FALSE]
  /\ granted = [c \in Caller |-> FALSE]
  /\ verdict = [c \in Caller |-> "none"]

\* The process is started again.
Vanish ==
  /\ vouched' = [c \in Caller |-> FALSE]
  /\ granted' = [c \in Caller |-> FALSE]
  /\ verdict' = [c \in Caller |-> "none"]

Next ==
  \/ \E c \in Caller :
       \/ Arrive(c) \/ TurnAway(c) \/ Recognise(c) \/ Reject(c)
       \/ Admit(c) \/ Close(c) \/ Leave(c)
  \/ Vanish

Spec == Init /\ [][Next]_<<vouched, granted, verdict>>
==============================================================================
