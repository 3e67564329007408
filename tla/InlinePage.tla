----------------------------- MODULE InlinePage ------------------------------
(***************************************************************************)
(* The page at /ui in use: its script holds no state but what it has put   *)
(* on the screen, loads the table of servers again after some of its       *)
(* calls, and puts every answer on the screen when it comes in, in         *)
(* whatever order.                                                         *)
(***************************************************************************)
EXTENDS Pages, Integers, FiniteSetsExt, Bags, Sequences

CONSTANT MaxCalls  \* bound: calls that change something

ASSUME CallsAssumption == MaxCalls \in Nat

VARIABLES
  newest,  \* version of the list of servers at the backend
  loads,   \* bag of the loads under way: what each has read, or Unread
  table,   \* rows are on the screen, not an error or nothing
  told,    \* newest version of which the person has had news: rows or an error
  calls    \* calls, in the order they were started

inlineVars == <<newest, loads, table, told, calls>>

Unread == -1

inlineInit ==
  /\ newest = 0
  /\ loads = SetToBag({Unread})
  /\ table = FALSE /\ told = 0
  /\ calls = <<>>

(***************************************************************************)
(* Faulty variants, for the mutation runs.                                 *)
(***************************************************************************)
\* The button is enabled again when the call has succeeded only.
FreedOnSuccess(c, ok) == [c EXCEPT !.stage = "over", !.ok = ok, !.disabled = @ /\ ~ok]

(***************************************************************************)
(* Loads.                                                                  *)
(***************************************************************************)
loadServers == loads' = loads (+) SetToBag({Unread})

Arrived(v) == loads' = loads (-) SetToBag({v})

ReadServers ==
  /\ BagIn(Unread, loads)
  /\ loads' = (loads (-) SetToBag({Unread})) (+) SetToBag({newest})
  /\ UNCHANGED <<newest, table, told, calls>>

\* New rows have new buttons; those of the calls under way are gone.
Redraw == calls' = [i \in DOMAIN calls |-> [calls[i] EXCEPT !.disabled = FALSE]]

ShowServers(v) ==
  /\ v # Unread
  /\ Arrived(v)
  /\ table' = TRUE /\ told' = Max({told, v})
  /\ Redraw
  /\ UNCHANGED newest

ShowError(v) ==
  /\ Arrived(v)
  /\ table' = FALSE /\ told' = newest
  /\ Redraw
  /\ UNCHANGED newest

(***************************************************************************)
(* Calls.                                                                  *)
(***************************************************************************)
\* The form to add a server is always there, the buttons of a row only when
\* there are rows.
Click(a) ==
  /\ Len(calls) < MaxCalls
  /\ a # AddServer => table
  /\ \A i \in DOMAIN calls : ~(calls[i].action = a /\ calls[i].disabled)
  /\ calls' = Append(calls, [action |-> a, stage |-> "sent", version |-> 0, ok |-> FALSE,
                             disabled |-> a \in Disabling])
  /\ UNCHANGED <<newest, loads, table, told>>

\* The backend carries it out; a sync, too, writes the status in the table.
Carry(i) ==
  /\ calls[i].stage = "sent"
  /\ newest' = newest + 1
  /\ calls' = [calls EXCEPT ![i].stage = "made", ![i].version = newest + 1]
  /\ UNCHANGED <<loads, table, told>>

\* The last step of a call's chain, after its error has been caught.
Ended(c, ok) == [c EXCEPT !.stage = "over", !.ok = ok, !.disabled = FALSE]

Confirm(i) ==
  /\ calls[i].stage = "made"
  /\ calls' = [calls EXCEPT ![i] = Ended(@, TRUE)]
  /\ IF calls[i].action.reloads # {} THEN loadServers ELSE UNCHANGED loads
  /\ UNCHANGED <<newest, table, told>>

\* Refused, or its answer was lost or is not JSON: a toast.
Complain(i) ==
  /\ calls[i].stage # "over"
  /\ calls' = [calls EXCEPT ![i] = Ended(@, FALSE)]
  /\ UNCHANGED <<newest, loads, table, told>>

End(i) == Confirm(i) \/ Complain(i)

inlineNext ==
  \/ ReadServers
  \/ \E v \in BagToSet(loads) : ShowServers(v) \/ ShowError(v)
  \/ \E a \in InlineActions : Click(a)
  \/ \E i \in DOMAIN calls : Carry(i) \/ End(i)

\* The browser ends every call, with an answer or an error; where the backend
\* never answers (module WhmClient), it is the gateway in between that does.
inlineFairness ==
  \A i \in 1 .. MaxCalls : WF_inlineVars(i \in DOMAIN calls /\ End(i))

(***************************************************************************)
(* Properties.                                                             *)
(***************************************************************************)
\* When no load is under way, the person has had news of every confirmed
\* change but a sync's: rows that hold it, or an error, were on the screen,
\* even if an older answer that came in later has taken their place.
EveryChangeReloaded ==
  loads = EmptyBag =>
    \A i \in DOMAIN calls :
      calls[i].ok /\ calls[i].action # SyncServer => told >= calls[i].version

\* A button that has been disabled is enabled again, whatever becomes of its
\* call and of the table.
ButtonsFreed ==
  \A i \in 1 .. MaxCalls :
    i \in DOMAIN calls /\ calls[i].disabled ~> i \in DOMAIN calls /\ ~calls[i].disabled
==============================================================================
