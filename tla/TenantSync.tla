------------------------------ MODULE TenantSync -----------------------------
(***************************************************************************)
(* The scheduled job: the platform starts workers/sync.worker.ts for a     *)
(* tenant, in a process of its own, and again before an earlier run has    *)
(* ended if that takes long.  A run opens a database client, goes through  *)
(* the tenant's servers one by one (syncTenant), and disposes of the       *)
(* client.  Servers come and go meanwhile.                                 *)
(*                                                                         *)
(* What happens while one server is synced is in module AccountSync; here  *)
(* it is one step, with its outcome.  A server is called by the place it   *)
(* has in the order of creation.                                           *)
(***************************************************************************)
EXTENDS Naturals, FiniteSetsExt, Sequences, SequencesExt

CONSTANTS
  Run,        \* runs of the job
  MaxServers, \* bound: servers the tenant ever has
  Take,       \* servers a run goes through at most (1000 in the code)
  User,       \* names of cPanel users
  Answers     \* what listaccts may answer: sequences of raw records

Server == 1 .. MaxServers
Absent == "absent"
\* A raw record, by the two fields its name is taken from.
Raw == [user : User \cup {Absent}, username : User \cup {Absent}]
Unknown == "unknown"

ASSUME ServersAssumption == MaxServers \in Nat /\ Take \in Nat \ {0}
ASSUME NamesAssumption == Absent \notin User /\ Unknown \notin User
ASSUME AnswersAssumption == Answers \subseteq Seq(Raw)

VARIABLES
  created,  \* servers created so far
  live,     \* servers not deleted
  rows,     \* server -> names of its account rows
  stage,    \* run -> where it is
  client,   \* run -> its database client
  listed,   \* run -> servers listed
  todo,     \* run -> servers still to be synced
  got,      \* run -> server -> <<answer it has stored in full>>, or NoAnswer
  summary,  \* run -> the counts so far
  exit      \* run -> exit code of the process

tenantVars == <<created, live, rows>>
runVars == <<stage, client, listed, todo, got, summary, exit>>
vars == <<created, live, rows, stage, client, listed, todo, got, summary, exit>>

NoAnswer == <<>>
NoExit == 99
Zero == [servers |-> 0, accounts |-> 0, failedServers |-> 0]
\* "stuck": dispose() has thrown, and nobody knows whether it is closed.
Clients == {"none", "open", "closed", "stuck"}
Stages == {"idle", "building", "listing", "syncing", "disposing", "failing", "over"}

Init ==
  /\ created = 0 /\ live = {}
  /\ rows = [s \in Server |-> {}]
  /\ stage = [r \in Run |-> "idle"]
  /\ client = [r \in Run |-> "none"]
  /\ listed = [r \in Run |-> {}]
  /\ todo = [r \in Run |-> {}]
  /\ got = [r \in Run |-> [s \in Server |-> NoAnswer]]
  /\ summary = [r \in Run |-> Zero]
  /\ exit = [r \in Run |-> NoExit]

(***************************************************************************)
(* Parsing.                                                                *)
(***************************************************************************)
\* Faulty variant: `username' is not looked at.
UserOnly(raw) == IF raw.user # Absent THEN raw.user ELSE Unknown

parseWhmAccount(raw) ==
  IF raw.user # Absent THEN raw.user
  ELSE IF raw.username # Absent THEN raw.username
  ELSE Unknown

\* Several accounts without a name share one row.
RowsOf(answer) == {parseWhmAccount(answer[i]) : i \in DOMAIN answer}

(***************************************************************************)
(* Faulty variants of actions, for the mutation runs.                      *)
(***************************************************************************)
\* The client is disposed of after the try block, not in a finally.
EscapeUndisposed(r) ==
  /\ stage' = [stage EXCEPT ![r] = "over"] /\ exit' = [exit EXCEPT ![r] = 1]
  /\ UNCHANGED client

\* The try block is around the loop.
FailedWholly(r, s) ==
  /\ todo' = [todo EXCEPT ![r] = {}]
  /\ summary' = [summary EXCEPT ![r].failedServers = @ + 1]

\* The loop tries a server that has failed again.
FailedTriedAgain(r, s) == UNCHANGED <<todo, summary>>

(***************************************************************************)
(* Other requests.                                                         *)
(***************************************************************************)
CreateServer ==
  /\ created < MaxServers
  /\ created' = created + 1
  /\ live' = live \cup {created + 1}
  /\ UNCHANGED <<rows, runVars>>

DeleteServer(s) ==
  /\ s \in live
  /\ live' = live \ {s}
  /\ UNCHANGED <<created, rows, runVars>>

(***************************************************************************)
(* runSync.                                                                *)
(***************************************************************************)
Ends(r, code) ==
  /\ stage' = [stage EXCEPT ![r] = "over"]
  /\ exit' = [exit EXCEPT ![r] = code]

\* An error inside the try block.
Escape(r) == stage' = [stage EXCEPT ![r] = "failing"] /\ UNCHANGED <<exit, client>>

\* Without a tenant's id the run throws before it has built anything.
Start(r) ==
  /\ stage[r] = "idle"
  /\ \/ stage' = [stage EXCEPT ![r] = "building"] /\ UNCHANGED exit
     \/ Ends(r, 1)
  /\ UNCHANGED <<tenantVars, client, listed, todo, got, summary>>

\* createContainer: the environment may be refused.
createContainer(r) ==
  /\ stage[r] = "building"
  /\ \/ /\ client' = [client EXCEPT ![r] = "open"]
        /\ stage' = [stage EXCEPT ![r] = "listing"]
        /\ UNCHANGED exit
     \/ Ends(r, 1) /\ UNCHANGED client
  /\ UNCHANGED <<tenantVars, listed, todo, got, summary>>

\* The newest servers come first, and no more than Take of them.
Listed == {s \in live : Cardinality({t \in live : t > s}) < Take}

List(r) ==
  /\ stage[r] = "listing"
  /\ \/ /\ listed' = [listed EXCEPT ![r] = Listed]
        /\ todo' = [todo EXCEPT ![r] = Listed]
        /\ summary' = [summary EXCEPT ![r].servers = Cardinality(Listed)]
        /\ stage' = [stage EXCEPT ![r] = "syncing"]
        /\ UNCHANGED <<exit, client>>
     \/ Escape(r) /\ UNCHANGED <<listed, todo, summary>>
  /\ UNCHANGED <<tenantVars, got>>

\* catch: the server is counted and the loop goes on.
Failed(r, s) ==
  /\ todo' = [todo EXCEPT ![r] = @ \ {s}]
  /\ summary' = [summary EXCEPT ![r].failedServers = @ + 1]

\* syncServer.  One that fails on the way may have stored a part; a server
\* deleted since it was listed is not found.
SyncServer(r) ==
  /\ stage[r] = "syncing" /\ todo[r] # {}
  /\ LET s == Max(todo[r])
     IN \/ /\ s \in live
           /\ \E a \in Answers :
                /\ rows' = [rows EXCEPT ![s] = @ \cup RowsOf(a)]
                /\ got' = [got EXCEPT ![r][s] = <<a>>]
                /\ summary' = [summary EXCEPT ![r].accounts = @ + Len(a)]
           /\ todo' = [todo EXCEPT ![r] = @ \ {s}]
        \/ /\ s \in live
           /\ \E a \in Answers : \E n \in 0 .. Len(a) :
                rows' = [rows EXCEPT ![s] = @ \cup RowsOf(SubSeq(a, 1, n))]
           /\ Failed(r, s)
           /\ UNCHANGED got
        \/ /\ s \notin live
           /\ Failed(r, s)
           /\ UNCHANGED <<rows, got>>
  /\ UNCHANGED <<created, live, stage, client, listed, exit>>

Return(r) ==
  /\ stage[r] = "syncing" /\ todo[r] = {}
  /\ stage' = [stage EXCEPT ![r] = "disposing"]
  /\ UNCHANGED <<tenantVars, client, listed, todo, got, summary, exit>>

\* finally: the client is disposed of whatever has happened; where that fails,
\* its error is what the run ends with.
Dispose(r) ==
  /\ stage[r] \in {"disposing", "failing"}
  /\ \E ok \in BOOLEAN :
       /\ client' = [client EXCEPT ![r] = IF ok THEN "closed" ELSE "stuck"]
       /\ Ends(r, IF ok /\ stage[r] = "disposing" THEN 0 ELSE 1)
  /\ UNCHANGED <<tenantVars, listed, todo, got, summary>>

Work(r) == createContainer(r) \/ List(r) \/ SyncServer(r) \/ Return(r) \/ Dispose(r)

Next ==
  \/ CreateServer
  \/ \E s \in Server : DeleteServer(s)
  \/ \E r \in Run : Start(r) \/ Work(r)

Spec == Init /\ [][Next]_vars

\* Promises are run, and every call to WHM ends (module WhmClient on where it
\* does not: such a run never ends).
FairSpec == Spec /\ \A r \in Run : WF_vars(Work(r))

(***************************************************************************)
(* Properties.                                                             *)
(***************************************************************************)
Stored(r) == {s \in Server : got[r][s] # NoAnswer}

\* The records in the answers a run has stored in full.
Records(r) == UNION {{s} \X DOMAIN got[r][s][1] : s \in Stored(r)}

TenantSyncTypeOK ==
  /\ created \in 0 .. MaxServers /\ live \subseteq 1 .. created
  /\ rows \in [Server -> SUBSET (User \cup {Unknown})]
  /\ stage \in [Run -> Stages] /\ client \in [Run -> Clients]
  /\ listed \in [Run -> SUBSET Server] /\ todo \in [Run -> SUBSET Server]
  /\ got \in [Run -> [Server -> {NoAnswer} \cup {<<a>> : a \in Answers}]]
  /\ summary \in [Run -> [servers : Nat, accounts : Nat, failedServers : Nat]]
  /\ exit \in [Run -> {0, 1, NoExit}]

\* A server that fails keeps no other from being synced, and none is lost: a
\* run that exits with 0 has stored the answers of all servers it listed but
\* of those it counts as failed, and counts the accounts in them.
SummaryAddsUp ==
  \A r \in Run : exit[r] = 0 =>
    /\ summary[r].servers = Cardinality(listed[r])
    /\ Stored(r) \subseteq listed[r]
    /\ summary[r].failedServers = Cardinality(listed[r] \ Stored(r))
    /\ summary[r].accounts = Cardinality(Records(r))

\* Whatever records without a name come with it, in whichever field it is, an
\* account with a name has its row, for good.
NamedAccountsKept ==
  \A r \in Run : \A s \in Stored(r) : \A raw \in Range(got[r][s][1]) :
    LET names == {raw.user, raw.username} \cap User
    IN names # {} => names \cap rows[s] # {}

\* A run that has made a client disposes of it on every path before its process
\* is left, and does not report success unless the client was closed.
ClientReleased ==
  \A r \in Run : stage[r] = "over" =>
    client[r] # "open" /\ (exit[r] = 0 => client[r] = "closed")

\* A run that has started ends, while servers come and go and other runs work
\* on the same ones.
RunEnds == \A r \in Run : stage[r] = "building" ~> stage[r] = "over"
==============================================================================
