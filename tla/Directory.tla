------------------------------ MODULE Directory ------------------------------
(***************************************************************************)
(* What a table of named, soft-deleted rows promises its users: an entry   *)
(* is added, renamed and removed in single steps, no two entries present   *)
(* have the same name, and an entry removed stays removed and keeps the    *)
(* name it had.  Module Registry implements it twice, for servers and for  *)
(* tokens.                                                                 *)
(***************************************************************************)
CONSTANTS Id, Name

VARIABLES state,  \* id -> "free" (no such row), "live" or "deleted"
          name    \* id -> name, once the row exists

dirVars == <<state, name>>

NotInUse(n, id) == \A other \in Id \ {id} : ~(state[other] = "live" /\ name[other] = n)

Init == state = [id \in Id |-> "free"]

Add(id, n) ==
  /\ state[id] = "free"
  /\ NotInUse(n, id)
  /\ state' = [state EXCEPT ![id] = "live"]
  /\ name' = [name EXCEPT ![id] = n]

Rename(id, n) ==
  /\ state[id] = "live"
  /\ NotInUse(n, id)
  /\ name' = [name EXCEPT ![id] = n]
  /\ UNCHANGED state

Remove(id) ==
  /\ state[id] = "live"
  /\ state' = [state EXCEPT ![id] = "deleted"]
  /\ UNCHANGED name

Next == \E id \in Id : Remove(id) \/ \E n \in Name : Add(id, n) \/ Rename(id, n)

Spec == Init /\ [][Next]_dirVars
==============================================================================
