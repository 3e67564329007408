------------------------------- MODULE Console -------------------------------
(***************************************************************************)
(* The React frontend in use: one person opens pages, the pages run their  *)
(* queries through the query cache, the controls start mutations, and each *)
(* mutation has some queries fetched again.                                *)
(*                                                                         *)
(* The cache is react-query's (version 5, default options: nothing in it   *)
(* counts as fresh), modelled from how the hooks use it.  What a query     *)
(* answers is told by its version: the number of the last change that      *)
(* concerns it.                                                            *)
(***************************************************************************)
EXTENDS Pages, Integers, FiniteSetsExt, Sequences

CONSTANTS
  Granted,     \* sets of permissions the host may inject for the session
  MaxActs      \* bound: links followed and mutations started by the person

ASSUME ActsAssumption == MaxActs \in Nat

VARIABLES
  granted,   \* permissions of the session
  page,      \* the page that is open
  typed,     \* it was reached from an address typed in
  opened,    \* pages opened so far by the person
  changed,   \* query -> version the backend would answer with
  data,      \* query -> version in the cache
  failed,    \* query -> its last fetch has failed
  fetch,     \* query -> none, sent, or read and on the way back
  read,      \* query -> version read by the backend
  ops,       \* mutations, in the order they were started
  held,      \* those pending whose component has stayed on the screen
  seen       \* query -> own change last confirmed while it was on the screen

sessionVars == <<granted, page, typed, opened>>
cacheVars == <<data, failed, fetch, read, seen>>
vars == <<granted, page, typed, opened, changed, data, failed, fetch, read, ops, held, seen>>

Version == 0 .. MaxActs
NoData == -1
has(permission) == Permits(granted, permission)
Loaded(k) == data[k] # NoData /\ ~failed[k]

(***************************************************************************)
(* The query cache.                                                        *)
(***************************************************************************)
\* The queries with an observer on page p, given the data and failures there
\* are.  A page runs its query before it looks at the permission; a panel is
\* there once its page has loaded.
Ready(q, d, f) == q # None => d[q] # NoData /\ ~f[q]
Parts(p, d, f) ==
  {p} \cup IF has(PartOf(p).view) /\ Ready(PartOf(p).query, d, f) THEN PartOf(p).inside ELSE {}
Active(p, d, f) == {PartOf(x).query : x \in Parts(p, d, f)} \ {None}

Mounted == Parts(page, data, failed)

\* A fetch under way is joined, when a query is mounted or when it has no data
\* yet; an invalidated query with data drops it and starts another.
Joins(k, d) == fetch[k] # "none" /\ d[k] = NoData

\* The fetches after those of `mounted' have found an observer and those of
\* `again' have been invalidated.
Fetching(mounted, again, d) ==
  [k \in QueryKey |->
     IF (k \in again /\ ~Joins(k, d)) \/ (k \in mounted /\ fetch[k] = "none")
     THEN "sent" ELSE fetch[k]]

\* A query without data forgets its error when it is fetched.
Failures(f, d, started) == [k \in QueryKey |-> f[k] /\ ~(k \in started /\ d[k] = NoData)]

\* Queries of the page p that has just been opened.
Show(p) ==
  LET mounted == Active(p, data, failed)
  IN /\ page' = p
     /\ held' = {}
     /\ fetch' = Fetching(mounted, {}, data)
     /\ failed' = Failures(failed, data, mounted)

\* The panels an answer brings up run their queries anew; those it takes away
\* forget the mutations started there.
Render(k, d, f) ==
  LET mounted == Active(page, d, f) \ Active(page, data, failed)
  IN /\ data' = d
     /\ fetch' = [Fetching(mounted, {}, d) EXCEPT ![k] = "none"]
     /\ failed' = Failures(f, d, mounted)
     /\ read' = [read EXCEPT ![k] = 0]
     /\ held' = {i \in held :
          \E p \in Parts(page, d, f) : ops[i].control \in PartOf(p).controls}

(***************************************************************************)
(* Pages.                                                                  *)
(***************************************************************************)
Init ==
  /\ granted \in Granted
  /\ page \in DOMAIN hostingControlRoutes
  /\ typed = TRUE
  /\ opened = 0
  /\ changed = [k \in QueryKey |-> 0]
  /\ data = [k \in QueryKey |-> NoData]
  /\ failed = [k \in QueryKey |-> FALSE]
  /\ fetch = [k \in QueryKey |-> IF k = PartOf(page).query THEN "sent" ELSE "none"]
  /\ read = [k \in QueryKey |-> 0]
  /\ ops = <<>> /\ held = {}
  /\ seen = [k \in QueryKey |-> 0]

\* The navigation is on every page.
NavLink == \E l \in HostingControlLayout :
  has(l.permission) /\ l.to # page /\ Show(l.to) /\ typed' = FALSE

PageLink == \E l \in PartOf(page).links :
  /\ has(PartOf(page).view) /\ has(l.permission)
  /\ l.needs # "nothing" => data[PartOf(page).query] # NoData
  /\ l.needs = "loaded" => Ready(PartOf(page).query, data, failed)
  /\ Show(l.to)
  /\ UNCHANGED typed

Navigate ==
  /\ opened + Len(ops) < MaxActs
  /\ opened' = opened + 1
  /\ NavLink \/ PageLink
  /\ UNCHANGED <<granted, changed, data, read, ops, seen>>

(***************************************************************************)
(* Queries.                                                                *)
(***************************************************************************)
\* The backend reads what it answers with; it checks the permission itself.
Answer(k) ==
  /\ fetch[k] = "sent"
  /\ \E route \in ServesRoute(Query[k]) : has(route.permission)
  /\ fetch' = [fetch EXCEPT ![k] = "read"]
  /\ read' = [read EXCEPT ![k] = changed[k]]
  /\ UNCHANGED <<sessionVars, changed, data, failed, ops, held, seen>>

Receive(k) ==
  /\ fetch[k] = "read"
  /\ Render(k, [data EXCEPT ![k] = read[k]], [failed EXCEPT ![k] = FALSE])
  /\ UNCHANGED <<sessionVars, changed, ops, seen>>

\* Faulty variant: the client swallows the error.
FetchSwallowed(k) ==
  /\ fetch[k] # "none"
  /\ Render(k, data, failed)
  /\ UNCHANGED <<sessionVars, changed, ops, seen>>

FetchFails(k) ==
  /\ fetch[k] # "none"
  /\ Render(k, data, [failed EXCEPT ![k] = TRUE])
  /\ UNCHANGED <<sessionVars, changed, ops, seen>>

(***************************************************************************)
(* Mutations.                                                              *)
(***************************************************************************)
\* What a page owes the person who has made a change there.  The number of
\* tokens, the status in the list, and a deleted server's own page are left as
\* they were.
Promised(call) ==
  CASE call \in {useCreateToken.call, useDeleteToken.call} -> {"tokens"}
    [] call = useTestConnection.call -> {"server"}
    [] call = useDeleteServer.call -> {"servers"}
    [] OTHER -> Affects(call)

\* A button is disabled while the mutation of its component is pending; a
\* component that is back on the screen knows nothing of it.
Disabled(c) == \E i \in held : ops[i].control = c

Mutate(p, c) ==
  /\ opened + Len(ops) < MaxActs
  /\ p \in Mounted /\ c \in PartOf(p).controls
  /\ has(PartOf(p).view) /\ Ready(PartOf(p).query, data, failed)
  /\ has(c.permission) /\ ~Disabled(c)
  /\ ops' = Append(ops, [control |-> c, stage |-> "sent", version |-> 0])
  /\ held' = held \cup {Len(ops) + 1}
  /\ UNCHANGED <<sessionVars, changed, cacheVars>>

IsOver(i) == ops' = [ops EXCEPT ![i].stage = "over"]

\* The backend carries it out; module RequestPipeline is about whether.
Perform(i) ==
  /\ ops[i].stage = "sent"
  /\ LET version == 1 + Cardinality({j \in DOMAIN ops : ops[j].version # 0})
     IN /\ ops' = [ops EXCEPT ![i].stage = "made", ![i].version = version]
        /\ changed' = [k \in QueryKey |->
             IF k \in Affects(ops[i].control.mutation.call) THEN version ELSE changed[k]]
  /\ UNCHANGED <<sessionVars, held, cacheVars>>

\* Refused, or the answer was lost: the page shows the error.
Unsuccessful(i) ==
  /\ ops[i].stage \in {"sent", "made"}
  /\ IsOver(i)
  /\ held' = held \ {i}
  /\ UNCHANGED <<sessionVars, changed, cacheVars>>

\* onSuccess of the hook, and then, if the component is still there, of the
\* page: the queries on the screen are fetched again, the others when they are
\* shown, and the person is led on.
Success(i) ==
  /\ ops[i].stage = "made"
  /\ IsOver(i)
  /\ LET o == ops[i]
         onScreen == Active(page, data, failed)
         again == onScreen \cap o.control.mutation.invalidates
         led == o.control.next # None /\ i \in held
         next == IF led THEN o.control.next ELSE page
         fetchAfter == Fetching({}, again, data)
         mounted == IF led THEN Active(next, data, failed) ELSE {}
     IN /\ page' = next
        /\ held' = IF led THEN {} ELSE held \ {i}
        /\ fetch' = [k \in QueryKey |->
             IF k \in mounted /\ fetchAfter[k] = "none" THEN "sent" ELSE fetchAfter[k]]
        /\ failed' = Failures(failed, data, again \cup mounted)
        /\ seen' = [k \in QueryKey |->
             IF k \in onScreen \cap Promised(o.control.mutation.call) /\ data[k] # NoData
             THEN Max({seen[k], o.version}) ELSE seen[k]]
  /\ UNCHANGED <<granted, typed, opened, changed, data, read>>

Next ==
  \/ Navigate
  \/ \E k \in QueryKey : Answer(k) \/ Receive(k) \/ FetchFails(k)
  \/ \E p \in Mounted : \E c \in PartOf(p).controls : Mutate(p, c)
  \/ \E i \in DOMAIN ops : Perform(i) \/ Unsuccessful(i) \/ Success(i)

(***************************************************************************)
(* Properties.                                                             *)
(***************************************************************************)
\* And a page never waits for a query that nobody runs.
ConsoleTypeOK ==
  /\ granted \in Granted
  /\ page \in DOMAIN hostingControlRoutes
  /\ typed \in BOOLEAN /\ opened \in Nat /\ opened + Len(ops) <= MaxActs
  /\ held \subseteq {i \in DOMAIN ops : ops[i].stage # "over"}
  /\ changed \in [QueryKey -> Version] /\ seen \in [QueryKey -> Version]
  /\ data \in [QueryKey -> Version \cup {NoData}]
  /\ failed \in [QueryKey -> BOOLEAN]
  /\ fetch \in [QueryKey -> {"none", "sent", "read"}]
  /\ read \in [QueryKey -> Version]
  /\ \A k \in QueryKey : k \in Active(page, data, failed) =>
       data[k] # NoData \/ failed[k] \/ fetch[k] # "none"

\* "presentation-only; the backend re-checks every call": the two agree.  What
\* a button starts is routed and permitted, and no link or button leads a
\* person who came by the navigation to a page that says Forbidden.
OfferedMeansAllowed ==
  /\ \A i \in DOMAIN ops :
       \E route \in ServesRoute(ops[i].control.mutation.call) : has(route.permission)
  /\ ~typed => PartOf(page).view = None \/ has(PartOf(page).view)

\* What is on the screen catches up with the person's own changes to it: a
\* query that was on the screen, with data, when the change was confirmed
\* shows it once nothing is under way, or an error; also when the person has
\* moved on and back, and when fetches from before the change were under way.
OwnChangesShown ==
  \A k \in Active(page, data, failed) :
    fetch[k] = "none" /\ Loaded(k) => data[k] >= seen[k]
==============================================================================
