----------------------------- MODULE AccountSync -----------------------------
(***************************************************************************)
(* The account cache of one server and the handlers that fill it or check  *)
(* the server: syncServer() of hosting-sync.service.ts (manual requests    *)
(* and the scheduled worker alike), refresh() of accounts.service.ts and   *)
(* testConnection() of servers.service.ts, over accounts.repository.ts.    *)
(*                                                                         *)
(* The handlers await every database statement and the call to WHM, and    *)
(* interleave at those points, in one process or in several (the worker    *)
(* runs in its own).  A step is one statement, or one answer of WHM, with  *)
(* the code up to the next await.  Meanwhile accounts come, change and go  *)
(* on the WHM side, and other requests delete the server or revoke its     *)
(* token (module Registry).                                                *)
(*                                                                         *)
(* Time is a counter that advances when something changes on the WHM side: *)
(* a `new Date()' taken between two changes tells no more than that.       *)
(***************************************************************************)
EXTENDS Naturals, FiniteSetsExt

CONSTANTS
  Sync, Refresh, Test,  \* handlers of the three kinds
  User,                 \* cPanel user names
  MaxClock,             \* bound: changes on the WHM side
  MaxRows,              \* bound: ids the database can give to account rows
  MaxBusy,              \* bound: handlers at work at a time
  Faults,               \* may statements or decrypting fail, or a process die?
  Removals              \* may the server be deleted, its token revoked?

Handler == Sync \cup Refresh \cup Test

ASSUME KindsAssumption ==
  Sync \cap Refresh = {} /\ Sync \cap Test = {} /\ Refresh \cap Test = {}
ASSUME BoundsAssumption == MaxClock \in Nat /\ MaxRows \in Nat /\ MaxBusy \in Nat
ASSUME FlagsAssumption == Faults \in BOOLEAN /\ Removals \in BOOLEAN

VARIABLES
  clock,    \* changes on the WHM side so far
  hist,     \* user -> times at which its account was created or changed
  present,  \* users that have an account on WHM now
  live,     \* server row: not deleted
  token,    \* an active WHM token is stored for the server
  status,   \* server row: status
  checked,  \* server row: lastCheckedAt
  rows,     \* account rows: [id, user, version, stamp (lastSyncedAt), by]
  step,     \* handler -> the statement or answer it awaits
  since,    \* handler -> checkedAt; for a refresh `now'
  todo,     \* handler -> accounts of WHM's answer the loop has not reached
  account,  \* handler -> the account it is at
  found,    \* handler -> id of the row findByUser has returned
  failed    \* handler -> the call to WHM has failed

whmVars == <<clock, hist, present>>
serverVars == <<live, token, status, checked>>
localVars == <<step, since, todo, account, found, failed>>
vars == <<clock, hist, present, live, token, status, checked, rows,
          step, since, todo, account, found, failed>>

Time == 0 .. MaxClock
Account == [user : User, version : Time]
Row == [id : 1 .. MaxRows, user : User, version : Time, stamp : Time,
        by : {"sync", "refresh"}]
NoAccount == [user |-> "none", version |-> 0]
NoRow == 0

Steps == {"idle", "findAccount", "findServer", "findToken", "whm", "receive",
          "findByUser", "upsert", "markUsed", "setActive", "setUnreachable", "audit"}

\* The version of an account is the time of its last change.
Current(u) == [user |-> u, version |-> Max(hist[u])]

SyncTypeOK ==
  /\ clock \in Time
  /\ hist \in [User -> SUBSET Time]
  /\ present \subseteq User
  /\ live \in BOOLEAN /\ token \in BOOLEAN
  /\ status \in {"INACTIVE", "ACTIVE", "UNREACHABLE"}
  /\ checked \in Time
  /\ rows \subseteq Row
  /\ step \in [Handler -> Steps]
  /\ since \in [Handler -> Time]
  /\ todo \in [Handler -> SUBSET Account]
  /\ account \in [Handler -> Account \cup {NoAccount}]
  /\ found \in [Handler -> 0 .. MaxRows]
  /\ failed \in [Handler -> BOOLEAN]

Init ==
  /\ clock = 0
  /\ present \in SUBSET User
  /\ hist = [u \in User |-> IF u \in present THEN {0} ELSE {}]
  /\ live = TRUE /\ token = TRUE
  /\ status = "INACTIVE" /\ checked = 0
  /\ rows = {}
  /\ step = [h \in Handler |-> "idle"]
  /\ since = [h \in Handler |-> 0]
  /\ todo = [h \in Handler |-> {}]
  /\ account = [h \in Handler |-> NoAccount]
  /\ found = [h \in Handler |-> NoRow]
  /\ failed = [h \in Handler |-> FALSE]

Await(h, what) == step' = [step EXCEPT ![h] = what]

\* The handler is over; what it held is gone.
Over(h) ==
  /\ Await(h, "idle")
  /\ since' = [since EXCEPT ![h] = 0]
  /\ todo' = [todo EXCEPT ![h] = {}]
  /\ account' = [account EXCEPT ![h] = NoAccount]
  /\ found' = [found EXCEPT ![h] = NoRow]
  /\ failed' = [failed EXCEPT ![h] = FALSE]

(***************************************************************************)
(* Faulty variants, for the mutation runs.                                 *)
(***************************************************************************)
\* The unique index on (tenantId, serverId, cpanelUser) is missing.
Unindexed(u) == FALSE

\* The row is stamped with the time it is written at.
WrittenStampedNow(h, id) ==
  [id |-> id, user |-> account[h].user, version |-> account[h].version,
   stamp |-> clock, by |-> IF h \in Sync THEN "sync" ELSE "refresh"]

\* The time is taken from a clock that is ahead.
ReceiveAhead(h) ==
  /\ step[h] = "receive"
  /\ since' = [since EXCEPT ![h] = clock + 1]
  /\ Await(h, "findByUser")
  /\ UNCHANGED <<todo, account, found, failed, whmVars, serverVars, rows>>

\* setStatus without `deletedAt: null' in its where clause.
SetStatusAny(h, s) ==
  /\ status' = s
  /\ checked' = since[h]
  /\ UNCHANGED <<live, token>>

\* The loop leaves the last account out.
NextButLast(h) == IF \E a, b \in todo[h] : a # b THEN todo[h] ELSE {}

(***************************************************************************)
(* The WHM side, and what other requests do to the server.                 *)
(***************************************************************************)
\* An account is created or changed on WHM.
Change(u) ==
  /\ clock < MaxClock
  /\ clock' = clock + 1
  /\ present' = present \cup {u}
  /\ hist' = [hist EXCEPT ![u] = @ \cup {clock + 1}]
  /\ UNCHANGED <<serverVars, rows, localVars>>

Terminate(u) ==
  /\ clock < MaxClock
  /\ u \in present
  /\ clock' = clock + 1
  /\ present' = present \ {u}
  /\ UNCHANGED <<hist, serverVars, rows, localVars>>

DeleteServer ==
  /\ Removals /\ live
  /\ live' = FALSE
  /\ UNCHANGED <<whmVars, token, status, checked, rows, localVars>>

RevokeToken ==
  /\ Removals /\ token
  /\ token' = FALSE
  /\ UNCHANGED <<whmVars, live, status, checked, rows, localVars>>

(***************************************************************************)
(* Up to the call.                                                         *)
(***************************************************************************)
Start(h) ==
  /\ step[h] = "idle"
  /\ Cardinality({g \in Handler : step[g] # "idle"}) < MaxBusy
  /\ Await(h, IF h \in Refresh THEN "findAccount" ELSE "findServer")
  /\ UNCHANGED <<since, todo, account, found, failed, whmVars, serverVars, rows>>

\* refresh(id): the row names the account WHM is asked about.
FindAccount(h) ==
  /\ step[h] = "findAccount"
  /\ \/ \E r \in rows :
          /\ account' = [account EXCEPT ![h] = [user |-> r.user, version |-> r.version]]
          /\ Await(h, "findServer")
          /\ UNCHANGED <<since, todo, found, failed>>
     \/ Over(h)
  /\ UNCHANGED <<whmVars, serverVars, rows>>

FindServer(h) ==
  /\ step[h] = "findServer"
  /\ \/ /\ live
        /\ Await(h, "findToken")
        /\ UNCHANGED <<since, todo, account, found, failed>>
     \/ ~live /\ Over(h)
  /\ UNCHANGED <<whmVars, serverVars, rows>>

\* The key the token was encrypted with is not the one there is.  Only a test
\* decrypts in its guarded part, and takes it for a server out of reach.
DecryptFails(h) ==
  \/ h \notin Test /\ Over(h)
  \/ /\ h \in Test
     /\ since' = [since EXCEPT ![h] = clock]
     /\ Await(h, "setUnreachable")
     /\ UNCHANGED <<todo, account, found, failed>>

\* With a token, checkedAt is taken and WHM is called.  Without one the
\* request fails; a sync leaves a FAILURE audit row first.
FindToken(h) ==
  /\ step[h] = "findToken"
  /\ \/ /\ token
        /\ since' = [since EXCEPT ![h] = IF h \in Refresh THEN 0 ELSE clock]
        /\ Await(h, "whm")
        /\ UNCHANGED <<todo, account, found, failed>>
     \/ token /\ Faults /\ DecryptFails(h)
     \/ /\ ~token /\ h \in Sync
        /\ Await(h, "audit")
        /\ UNCHANGED <<since, todo, account, found, failed>>
     \/ ~token /\ h \notin Sync /\ Over(h)
  /\ UNCHANGED <<whmVars, serverVars, rows>>

(***************************************************************************)
(* The call: WHM answers with what it has at that moment.                  *)
(***************************************************************************)
AnswerList(h) ==
  /\ step[h] = "whm" /\ h \in Sync
  /\ todo' = [todo EXCEPT ![h] = {Current(u) : u \in present}]
  /\ Await(h, "findByUser")
  /\ UNCHANGED <<since, account, found, failed, whmVars, serverVars, rows>>

\* accountsummary of one account; null when it is not there.  The answer names
\* the account it was asked for (module TenantSync has records without a name).
AnswerSummary(h) ==
  /\ step[h] = "whm" /\ h \in Refresh
  /\ LET u == account[h].user
     IN \/ /\ u \in present
           /\ todo' = [todo EXCEPT ![h] = {Current(u)}]
           /\ Await(h, "receive")
           /\ account' = [account EXCEPT ![h] = NoAccount]
           /\ UNCHANGED <<since, found, failed>>
        \/ u \notin present /\ Over(h)
  /\ UNCHANGED <<whmVars, serverVars, rows>>

\* A refresh takes the time when the answer has come in.
Receive(h) ==
  /\ step[h] = "receive"
  /\ since' = [since EXCEPT ![h] = clock]
  /\ Await(h, "findByUser")
  /\ UNCHANGED <<todo, account, found, failed, whmVars, serverVars, rows>>

AnswerVersion(h) ==
  /\ step[h] = "whm" /\ h \in Test
  /\ Await(h, "markUsed")
  /\ UNCHANGED <<since, todo, account, found, failed, whmVars, serverVars, rows>>

\* The call fails in the end (module WhmClient).  A refresh passes the error
\* on, the other two record it.
CallFails(h) ==
  /\ step[h] = "whm"
  /\ \/ h \in Refresh /\ Over(h)
     \/ /\ h \notin Refresh
        /\ failed' = [failed EXCEPT ![h] = TRUE]
        /\ Await(h, "setUnreachable")
        /\ UNCHANGED <<since, todo, account, found>>
  /\ UNCHANGED <<whmVars, serverVars, rows>>

(***************************************************************************)
(* After the call.                                                         *)
(***************************************************************************)
\* The accounts upsertMany has still to go through.
Remaining(h) == todo[h]

RowsFor(u) == {r.id : r \in {x \in rows : x.user = u}}

\* What the unique index refuses a second row for.
Indexed(u) == \E r \in rows : r.user = u

\* upsertOne: findByUser, for the next account; none is left when the loop ends.
FindByUser(h) ==
  /\ step[h] = "findByUser"
  /\ \/ \E a \in Remaining(h) :
          /\ todo' = [todo EXCEPT ![h] = @ \ {a}]
          /\ account' = [account EXCEPT ![h] = a]
          /\ \/ /\ RowsFor(a.user) = {}
                /\ found' = [found EXCEPT ![h] = NoRow]
             \/ \E id \in RowsFor(a.user) : found' = [found EXCEPT ![h] = id]
          /\ Await(h, "upsert")
          /\ UNCHANGED <<since, failed>>
     \/ /\ Remaining(h) = {}
        /\ todo' = [todo EXCEPT ![h] = {}]
        /\ Await(h, "markUsed")
        /\ UNCHANGED <<since, account, found, failed>>
  /\ UNCHANGED <<whmVars, serverVars, rows>>

\* What the handler would store for its account.
Written(h, id) ==
  [id |-> id, user |-> account[h].user, version |-> account[h].version,
   stamp |-> since[h], by |-> IF h \in Sync THEN "sync" ELSE "refresh"]

\* upsertOne returns to the loop.
Upserted(h) ==
  /\ Await(h, "findByUser")
  /\ account' = [account EXCEPT ![h] = NoAccount]
  /\ found' = [found EXCEPT ![h] = NoRow]
  /\ UNCHANGED <<since, todo, failed>>

\* An error in the part of the handler that is guarded by try: a sync and a
\* test record the server as unreachable, whatever the error.
Caught(h) ==
  IF h \in Refresh
  THEN Over(h)
  ELSE /\ Await(h, "setUnreachable")
       /\ todo' = [todo EXCEPT ![h] = {}]
       /\ account' = [account EXCEPT ![h] = NoAccount]
       /\ found' = [found EXCEPT ![h] = NoRow]
       /\ UNCHANGED <<since, failed>>

Overwritten(h) == {IF r.id = found[h] THEN Written(h, r.id) ELSE r : r \in rows}

\* upsertOne: the row found is overwritten; otherwise one is created, which
\* the index refuses if another handler has created one since.
Upsert(h) ==
  /\ step[h] = "upsert"
  /\ \/ /\ found[h] # NoRow
        /\ rows' = Overwritten(h)
        /\ Upserted(h)
     \/ /\ found[h] = NoRow /\ ~Indexed(account[h].user)
        /\ Cardinality(rows) < MaxRows
        /\ rows' = rows \cup {Written(h, Cardinality(rows) + 1)}
        /\ Upserted(h)
     \/ /\ found[h] = NoRow /\ Indexed(account[h].user)
        /\ Caught(h)
        /\ UNCHANGED rows
  /\ UNCHANGED <<whmVars, serverVars>>

\* The token's lastUsedAt is of no further interest.
MarkUsed(h) ==
  /\ step[h] = "markUsed"
  /\ Await(h, IF h \in Refresh THEN "audit" ELSE "setActive")
  /\ UNCHANGED <<since, todo, account, found, failed, whmVars, serverVars, rows>>

\* setStatus changes live rows only.
SetStatus(h, s) ==
  /\ IF live THEN status' = s /\ checked' = since[h]
             ELSE UNCHANGED <<status, checked>>
  /\ UNCHANGED <<live, token>>

RecordStatus(h) ==
  /\ \/ step[h] = "setActive" /\ SetStatus(h, "ACTIVE")
     \/ step[h] = "setUnreachable" /\ SetStatus(h, "UNREACHABLE")
  /\ Await(h, "audit")
  /\ since' = [since EXCEPT ![h] = 0]
  /\ failed' = [failed EXCEPT ![h] = FALSE]
  /\ UNCHANGED <<todo, account, found, whmVars, rows>>

Audit(h) ==
  /\ step[h] = "audit"
  /\ Over(h)
  /\ UNCHANGED <<whmVars, serverVars, rows>>

\* A statement fails: before it has changed anything, or, for those that end
\* by reading the row again, after.  In the guarded part the error is caught;
\* setStatus in the guarded part of a sync belongs to it, that of a test does not.
StatementFails(h) ==
  /\ Faults
  /\ step[h] \notin {"idle", "whm", "receive"}
  /\ \/ UNCHANGED <<serverVars, rows>>
     \/ step[h] = "upsert" /\ found[h] # NoRow /\ rows' = Overwritten(h)
        /\ UNCHANGED serverVars
     \/ step[h] = "setActive" /\ SetStatus(h, "ACTIVE") /\ UNCHANGED rows
     \/ step[h] = "setUnreachable" /\ SetStatus(h, "UNREACHABLE") /\ UNCHANGED rows
  /\ IF \/ step[h] \in {"findByUser", "upsert", "markUsed"}
        \/ step[h] = "setActive" /\ h \in Sync
     THEN Caught(h) ELSE Over(h)
  /\ UNCHANGED whmVars

\* The process dies; a request is not taken up again.
Crash(h) ==
  /\ Faults
  /\ step[h] # "idle"
  /\ Over(h)
  /\ UNCHANGED <<whmVars, serverVars, rows>>

Work(h) ==
  \/ FindAccount(h) \/ FindServer(h) \/ FindToken(h) \/ Receive(h) \/ FindByUser(h)
  \/ Upsert(h) \/ MarkUsed(h) \/ RecordStatus(h) \/ Audit(h)

Call(h) == AnswerList(h) \/ AnswerSummary(h) \/ AnswerVersion(h) \/ CallFails(h)

Next ==
  \/ \E h \in Handler : Start(h) \/ Work(h) \/ Call(h) \/ StatementFails(h) \/ Crash(h)
  \/ \E u \in User : Change(u) \/ Terminate(u)
  \/ DeleteServer \/ RevokeToken

Spec == Init /\ [][Next]_vars

\* Handlers go on; the worker's schedule starts syncs again and again; a call
\* ends; and WHM is not out of reach for good.
Fairness ==
  \A h \in Handler : /\ WF_vars(Work(h))
                     /\ WF_vars(Call(h))
                     /\ h \in Sync => WF_vars(Start(h)) /\ SF_vars(AnswerList(h))

FairSpec == Spec /\ Fairness

(***************************************************************************)
(* Properties.                                                             *)
(***************************************************************************)
\* "re-syncing upserts, never duplicates": however syncs and refreshes
\* overlap, an account has one row.
NoDuplicateAccounts ==
  \A r1, r2 \in rows : r1.user = r2.user => r1 = r2

\* A row written by a sync is no older than its lastSyncedAt says: it holds
\* every change made up to that time, even if an overlapping sync that began
\* earlier has overwritten it.
FreshAsStamped ==
  \A r \in rows : r.by = "sync" =>
    \A t \in hist[r.user] : t <= r.stamp => t <= r.version

\* A server is recorded as unreachable only because a call to WHM has failed,
\* not because a statement of the handler was refused.
UnreachableMeansNoAnswer ==
  \A h \in Handler : step[h] = "setUnreachable" => failed[h]

\* Once a server is deleted, a check or sync still under way leaves its row
\* alone.
DeletedServerUntouched ==
  [][~live => ~live' /\ UNCHANGED <<status, checked>>]_vars

\* When WHM no longer changes, the cache has the accounts it has, and their
\* last version, for good: overlapping syncs may fail each other or put an
\* older version back, but not for ever.
EventuallyMirrored ==
  <>[](\A u \in present : \E r \in rows : r.user = u /\ r.version = Current(u).version)
==============================================================================
