--------------------------- MODULE TenantSyncProofs ---------------------------
(***************************************************************************)
(* What module TenantSync promises for any number of runs, servers and     *)
(* answers: its type invariant, that no process is left without disposing  *)
(* of its client, that accounts with a name keep their row, and that the   *)
(* summary of a run that ends well adds up.                                *)
(*                                                                         *)
(* The invariant behind it: a client is open between createContainer and   *)
(* the finally block only, and the rows of a server hold all that any run  *)
(* has stored of it, since nothing in the job removes rows.  The summary   *)
(* has an invariant of its own, Tallied, on top of that one.               *)
(***************************************************************************)
EXTENDS TenantSync, FiniteSetTheorems, WellFoundedInduction, TLAPS

OpenInside ==
  \A r \in Run :
    /\ stage[r] \in {"idle", "building", "over"} => client[r] # "open"
    /\ exit[r] = 0 => client[r] = "closed" /\ stage[r] = "over"

StoredKept ==
  \A r \in Run : \A s \in Server : got[r][s] # NoAnswer =>
    RowsOf(got[r][s][1]) \subseteq rows[s]

IInv == TenantSyncTypeOK /\ OpenInside /\ StoredKept

LEMMA ParsedTyped ==
  ASSUME NEW a \in Seq(Raw)
  PROVE  RowsOf(a) \subseteq User \cup {Unknown}
<1>1. \A i \in DOMAIN a : a[i] \in Raw
  OBVIOUS
<1> QED
  BY <1>1 DEF RowsOf, parseWhmAccount, Raw

\* A record with a name in either field is filed under it.
LEMMA ParsedName ==
  ASSUME NEW raw \in Raw, {raw.user, raw.username} \cap User # {}
  PROVE  parseWhmAccount(raw) \in {raw.user, raw.username} \cap User
  BY NamesAssumption DEF parseWhmAccount, Raw

LEMMA ListedIsFinite ==
  ASSUME TenantSyncTypeOK
  PROVE  Listed \subseteq Server /\ IsFiniteSet(Listed) /\ Cardinality(Listed) \in Nat
<1>1. Listed \subseteq 1 .. MaxServers
  <2>1. created \in Nat /\ created <= MaxServers /\ MaxServers \in Nat
    BY ServersAssumption DEF TenantSyncTypeOK
  <2>2. \A s \in live : s \in 1 .. created
    BY DEF TenantSyncTypeOK
  <2>3. \A s \in live : s \in 1 .. MaxServers
    BY <2>1, <2>2
  <2> QED
    BY <2>3 DEF Listed
<1>2. IsFiniteSet(1 .. MaxServers)
  BY ServersAssumption, FS_Interval
<1> QED
  BY <1>1, <1>2, FS_Subset, FS_CardinalityType DEF Server

Counts == [servers : Nat, accounts : Nat, failedServers : Nat]

LEMMA CountsAre ==
  ASSUME TenantSyncTypeOK, NEW r \in Run
  PROVE  /\ summary \in [Run -> Counts]
         /\ summary[r].accounts \in Nat /\ summary[r].failedServers \in Nat
  BY DEF TenantSyncTypeOK, Counts

\* A count that is set stays a count.
LEMMA CountSet ==
  ASSUME TenantSyncTypeOK, NEW r \in Run, NEW n \in Nat
  PROVE  /\ [summary EXCEPT ![r].servers = n] \in [Run -> Counts]
         /\ [summary EXCEPT ![r].accounts = n] \in [Run -> Counts]
         /\ [summary EXCEPT ![r].failedServers = n] \in [Run -> Counts]
<1>1. summary \in [Run -> Counts]
  BY DEF TenantSyncTypeOK, Counts
<1>2. /\ [summary[r] EXCEPT !.servers = n] \in Counts
      /\ [summary[r] EXCEPT !.accounts = n] \in Counts
      /\ [summary[r] EXCEPT !.failedServers = n] \in Counts
  BY <1>1 DEF Counts
<1> QED
  BY <1>1, <1>2

LEMMA FailedTyped ==
  ASSUME TenantSyncTypeOK, NEW r \in Run, NEW s, Failed(r, s)
  PROVE  summary' \in [Run -> Counts]
<1>1. summary[r].failedServers + 1 \in Nat
  BY CountsAre
<1> QED
  BY <1>1, CountSet DEF Failed

LEMMA Facts ==
  ASSUME IInv
  PROVE  /\ TenantSyncTypeOK /\ OpenInside /\ StoredKept
         /\ created \in Nat /\ MaxServers \in Nat
  BY ServersAssumption DEF IInv, TenantSyncTypeOK

\* A step that neither stores an answer nor touches rows.
LEMMA Unstored ==
  ASSUME IInv, TenantSyncTypeOK', OpenInside', UNCHANGED <<rows, got>>
  PROVE  IInv'
  BY DEF IInv, StoredKept

LEMMA OthersStep ==
  ASSUME IInv, CreateServer \/ \E s \in Server : DeleteServer(s)
  PROVE  IInv'
<1> USE DEF CreateServer, DeleteServer, runVars
<1>1. TenantSyncTypeOK'
  <2>1. created' \in 0 .. MaxServers /\ live' \subseteq 1 .. created'
    BY Facts DEF TenantSyncTypeOK
  <2> QED
    BY <2>1, Facts DEF TenantSyncTypeOK
<1> QED
  BY <1>1, Facts, Unstored DEF OpenInside

LEMMA StartStep ==
  ASSUME IInv, NEW r \in Run, Start(r) PROVE IInv'
<1> USE DEF Start, Ends, tenantVars
<1>1. TenantSyncTypeOK'
  BY Facts DEF TenantSyncTypeOK, Stages, Clients
<1>2. OpenInside'
  BY Facts DEF TenantSyncTypeOK, OpenInside, NoExit
<1> QED
  BY <1>1, <1>2, Unstored

LEMMA createContainerStep ==
  ASSUME IInv, NEW r \in Run, createContainer(r) PROVE IInv'
<1> USE DEF createContainer, Ends, tenantVars
<1>1. TenantSyncTypeOK'
  BY Facts DEF TenantSyncTypeOK, Stages, Clients
<1>2. OpenInside'
  BY Facts DEF TenantSyncTypeOK, OpenInside, NoExit
<1> QED
  BY <1>1, <1>2, Unstored

LEMMA ListStep ==
  ASSUME IInv, NEW r \in Run, List(r) PROVE IInv'
<1> USE DEF List, Escape, tenantVars
<1>1. TenantSyncTypeOK'
  <2>1. listed' \in [Run -> SUBSET Server] /\ todo' \in [Run -> SUBSET Server]
    BY Facts, ListedIsFinite DEF TenantSyncTypeOK
  <2>2. summary' \in [Run -> Counts]
    <3>1. CASE summary' = [summary EXCEPT ![r].servers = Cardinality(Listed)]
      BY <3>1, Facts, ListedIsFinite, CountSet
    <3>2. CASE UNCHANGED summary
      BY <3>2, Facts, CountsAre
    <3> QED
      BY <3>1, <3>2
  <2> QED
    BY <2>1, <2>2, Facts DEF TenantSyncTypeOK, Stages, Clients, Counts
<1>2. OpenInside'
  BY Facts DEF TenantSyncTypeOK, OpenInside, NoExit
<1> QED
  BY <1>1, <1>2, Unstored

\* One server: with an answer stored in full, with a part of one, or without.
LEMMA SyncServerStep ==
  ASSUME IInv, NEW r \in Run, SyncServer(r) PROVE IInv'
<1> DEFINE s == Max(todo[r])
<1>0. /\ stage[r] = "syncing" /\ todo[r] # {}
      /\ UNCHANGED <<created, live, stage, client, listed, exit>>
  BY DEF SyncServer
<1>1. OpenInside'
  BY <1>0, Facts DEF OpenInside
<1>2. todo' \in [Run -> SUBSET Server]
  BY Facts DEF SyncServer, Failed, TenantSyncTypeOK
<1>3. CASE /\ s \in live
           /\ \E a \in Answers :
                /\ rows' = [rows EXCEPT ![s] = @ \cup RowsOf(a)]
                /\ got' = [got EXCEPT ![r][s] = <<a>>]
                /\ summary' = [summary EXCEPT ![r].accounts = @ + Len(a)]
  <2>1. PICK a \in Answers :
          /\ rows' = [rows EXCEPT ![s] = @ \cup RowsOf(a)]
          /\ got' = [got EXCEPT ![r][s] = <<a>>]
          /\ summary' = [summary EXCEPT ![r].accounts = @ + Len(a)]
    BY <1>3
  <2>2. a \in Seq(Raw) /\ Len(a) \in Nat /\ RowsOf(a) \subseteq User \cup {Unknown}
    BY AnswersAssumption, ParsedTyped
  <2>3. s \in Server
    BY <1>3, Facts DEF TenantSyncTypeOK, Server
  <2> HIDE DEF s
  <2>4. rows' \in [Server -> SUBSET (User \cup {Unknown})]
    BY <2>1, <2>2, <2>3, Facts DEF TenantSyncTypeOK
  <2>5. got' \in [Run -> [Server -> {NoAnswer} \cup {<<b>> : b \in Answers}]]
    BY <2>1, <2>3, Facts DEF TenantSyncTypeOK
  <2>6. summary' \in [Run -> Counts]
    <3>1. summary[r].accounts + Len(a) \in Nat
      BY <2>2, Facts, CountsAre
    <3> QED
      BY <2>1, <3>1, Facts, CountSet
  <2>7. TenantSyncTypeOK'
    BY <1>0, <1>2, <2>4, <2>5, <2>6, Facts DEF TenantSyncTypeOK, Counts
  <2>8. StoredKept'
    <3> SUFFICES ASSUME NEW p \in Run, NEW t \in Server, got'[p][t] # NoAnswer
                 PROVE  RowsOf(got'[p][t][1]) \subseteq rows'[t]
      BY DEF StoredKept
    <3>1. rows[t] \subseteq rows'[t]
      BY <2>1, <2>3, Facts DEF TenantSyncTypeOK
    <3>2. CASE p = r /\ t = s
      <4>1. got'[p][t] = <<a>>
        BY <2>1, <2>3, <3>2, Facts DEF TenantSyncTypeOK
      <4>2. RowsOf(a) \subseteq rows'[t]
        BY <2>1, <2>3, <3>2, Facts DEF TenantSyncTypeOK
      <4> QED
        BY <4>1, <4>2
    <3>3. CASE ~(p = r /\ t = s)
      <4>1. got'[p][t] = got[p][t]
        BY <2>1, <2>3, <3>3, Facts DEF TenantSyncTypeOK
      <4> QED
        BY <3>1, <4>1, Facts DEF StoredKept
    <3> QED
      BY <3>2, <3>3
  <2> QED
    BY <1>1, <2>7, <2>8 DEF IInv
<1>4. CASE /\ s \in live
           /\ \E a \in Answers : \E n \in 0 .. Len(a) :
                rows' = [rows EXCEPT ![s] = @ \cup RowsOf(SubSeq(a, 1, n))]
           /\ Failed(r, s)
           /\ UNCHANGED got
  <2>0. PICK a \in Answers : \E n \in 0 .. Len(a) :
          rows' = [rows EXCEPT ![s] = @ \cup RowsOf(SubSeq(a, 1, n))]
    BY <1>4
  <2>1. PICK n \in 0 .. Len(a) :
          rows' = [rows EXCEPT ![s] = @ \cup RowsOf(SubSeq(a, 1, n))]
    BY <2>0
  <2>2. SubSeq(a, 1, n) \in Seq(Raw)
    BY AnswersAssumption
  <2>3. RowsOf(SubSeq(a, 1, n)) \subseteq User \cup {Unknown}
    BY <2>2, ParsedTyped
  <2> HIDE DEF s
  <2>4. /\ rows' \in [Server -> SUBSET (User \cup {Unknown})]
        /\ \A t \in Server : rows[t] \subseteq rows'[t]
    BY <2>1, <2>3, Facts DEF TenantSyncTypeOK
  <2>5. summary' \in [Run -> Counts]
    BY <1>4, Facts, FailedTyped
  <2>6. TenantSyncTypeOK'
    BY <1>0, <1>2, <1>4, <2>4, <2>5, Facts DEF TenantSyncTypeOK, Counts
  <2>7. StoredKept'
    BY <1>4, <2>4, Facts DEF StoredKept
  <2> QED
    BY <1>1, <2>6, <2>7 DEF IInv
<1>5. CASE Failed(r, s) /\ UNCHANGED <<rows, got>>
  <2>1. summary' \in [Run -> Counts]
    BY <1>5, Facts, FailedTyped
  <2>2. TenantSyncTypeOK'
    BY <1>0, <1>2, <1>5, <2>1, Facts DEF TenantSyncTypeOK, Counts
  <2> QED
    BY <1>1, <1>5, <2>2, Unstored
<1> QED
  BY <1>3, <1>4, <1>5 DEF SyncServer

LEMMA EndStep ==
  ASSUME IInv, NEW r \in Run, Return(r) \/ Dispose(r) PROVE IInv'
<1> USE DEF Return, Dispose, Ends, tenantVars
<1>1. TenantSyncTypeOK'
  BY Facts DEF TenantSyncTypeOK, Stages, Clients
<1>2. OpenInside'
  BY Facts DEF TenantSyncTypeOK, OpenInside, NoExit
<1> QED
  BY <1>1, <1>2, Unstored

LEMMA Initially == Init => IInv
<1> SUFFICES ASSUME Init PROVE IInv
  OBVIOUS
<1>1. TenantSyncTypeOK
  BY ServersAssumption DEF Init, TenantSyncTypeOK, Stages, Clients, Zero
<1>2. OpenInside /\ StoredKept
  BY DEF Init, OpenInside, StoredKept, NoExit
<1> QED
  BY <1>1, <1>2 DEF IInv

LEMMA Inductive == IInv /\ [Next]_vars => IInv'
<1> SUFFICES ASSUME IInv, [Next]_vars PROVE IInv'
  OBVIOUS
<1>1. ASSUME NEW r \in Run, Start(r) \/ Work(r) PROVE IInv'
  BY <1>1, StartStep, createContainerStep, ListStep, SyncServerStep, EndStep DEF Work
<1>2. CASE CreateServer \/ \E s \in Server : DeleteServer(s)
  BY <1>2, OthersStep
<1>3. CASE UNCHANGED vars
  BY <1>3 DEF IInv, TenantSyncTypeOK, OpenInside, StoredKept, vars
<1> QED
  BY <1>1, <1>2, <1>3 DEF Next

\* The inductive invariant holds throughout.
THEOREM Invariant == Spec => []IInv
  BY Initially, Inductive, PTL DEF Spec

\* The variables of TenantSync keep their types.
THEOREM TypesKept == Spec => []TenantSyncTypeOK
<1>1. IInv => TenantSyncTypeOK
  BY DEF IInv
<1> QED
  BY <1>1, Invariant, PTL

\* Whatever runSync throws, and wherever, it does not leave before dispose() has
\* been called for the client it has made, and exits with 0 only when that
\* client was closed.
THEOREM ClientAlwaysReleased == Spec => []ClientReleased
<1>1. IInv => ClientReleased
  BY DEF IInv, OpenInside, ClientReleased
<1> QED
  BY <1>1, Invariant, PTL

\* An account parseWhmAccount finds a name for has its row, however many
\* records without a name share theirs.
THEOREM NamedAlwaysKept == Spec => []NamedAccountsKept
<1>1. ASSUME IInv PROVE NamedAccountsKept
  <2> SUFFICES ASSUME NEW r \in Run, NEW s \in Stored(r), NEW raw \in Range(got[r][s][1]),
                      {raw.user, raw.username} \cap User # {}
               PROVE  {raw.user, raw.username} \cap User \cap rows[s] # {}
    BY DEF NamedAccountsKept
  <2>1. s \in Server /\ got[r][s] # NoAnswer
    BY DEF Stored
  <2>2. PICK a \in Answers : got[r][s] = <<a>>
    BY <1>1, <2>1 DEF IInv, TenantSyncTypeOK
  <2>3. PICK i \in DOMAIN a : a[i] = raw
    BY <2>2 DEF Range
  <2>4. raw \in Raw
    BY <2>3, AnswersAssumption
  <2>5. parseWhmAccount(raw) \in RowsOf(a)
    BY <2>3 DEF RowsOf
  <2>6. parseWhmAccount(raw) \in rows[s]
    <3>1. RowsOf(got[r][s][1]) \subseteq rows[s]
      BY <1>1, <2>1 DEF IInv, StoredKept
    <3>2. got[r][s][1] = a
      BY <2>2
    <3> QED
      BY <2>5, <3>1, <3>2
  <2> QED
    BY <2>4, <2>6, ParsedName
<1>2. IInv => NamedAccountsKept
  BY <1>1
<1> QED
  BY <1>2, Invariant, PTL

(***************************************************************************)
(* The summary.  Its counts stand for sets at every moment of a run: what  *)
(* is listed is stored, failed or still to be done, and each server is     *)
(* left in one of these.                                                   *)
(***************************************************************************)
Tally(r) ==
  /\ summary[r].servers = Cardinality(listed[r])
  /\ todo[r] \subseteq listed[r] /\ Stored(r) \subseteq listed[r] \ todo[r]
  /\ summary[r].failedServers = Cardinality((listed[r] \ todo[r]) \ Stored(r))
  /\ IsFiniteSet(Records(r)) /\ summary[r].accounts = Cardinality(Records(r))

\* Nothing is listed before its time, and nothing is left to do at the end.
InTime(r) ==
  /\ stage[r] \in {"idle", "building", "listing"} => listed[r] = {}
  /\ stage[r] = "disposing" => todo[r] = {}
  /\ exit[r] = 0 => stage[r] = "over" /\ todo[r] = {}

Tallied == \A r \in Run : Tally(r) /\ InTime(r)

\* The least-number principle, by way of the well-founded order on the naturals.
LEMMA LeastNat ==
  ASSUME NEW T, T \subseteq Nat, T # {}
  PROVE  \E m \in T : \A n \in T : m <= n
<1> DEFINE R == OpToRel(<, Nat)
<1>1. IsWellFoundedOn(R, Nat)
  BY NatLessThanWellFounded
<1>2. \A x, y \in Nat : x < y => <<x, y>> \in R
  BY DEF OpToRel
<1> HIDE DEF R
<1>3. PICK m \in T : \A n \in T : <<n, m>> \notin R
  BY <1>1, WFMin
<1>4. ASSUME NEW n \in T PROVE m <= n
  <2>1. m \in Nat /\ n \in Nat /\ ~(n < m)
    BY <1>2, <1>3
  <2> QED
    BY <2>1
<1> QED
  BY <1>3, <1>4

\* The server syncTenant takes next is one of those still to be done.
LEMMA MaxIsIn ==
  ASSUME NEW S \in SUBSET Server, S # {}
  PROVE  Max(S) \in S
<1> DEFINE T == {n \in Nat : \A x \in S : x <= n}
<1>0. S \subseteq 1 .. MaxServers /\ MaxServers \in Nat
  BY ServersAssumption DEF Server
<1>1. PICK m \in T : \A n \in T : m <= n
  <2>1. MaxServers \in T
    BY <1>0
  <2> HIDE DEF T
  <2>2. T \subseteq Nat
    BY DEF T
  <2> QED
    BY <2>1, <2>2, LeastNat
<1>2. m \in S
  <2> SUFFICES ASSUME m \notin S PROVE FALSE
    OBVIOUS
  <2>1. \A x \in S : x \in Nat /\ x <= m - 1 /\ x >= 1
    BY <1>0
  <2>2. m - 1 \in T
    <3>1. PICK x \in S : TRUE
      OBVIOUS
    <3> QED
      BY <1>1, <2>1, <3>1
  <2> QED
    BY <1>1, <2>2
<1> QED
  BY <1>0, <1>1, <1>2 DEF Max

LEMMA ServersFinite ==
  ASSUME NEW S \in SUBSET Server
  PROVE  IsFiniteSet(S) /\ Cardinality(S) \in Nat
<1>1. IsFiniteSet(Server)
  <2>1. 1 \in Int /\ MaxServers \in Int
    BY ServersAssumption
  <2> QED
    BY <2>1, FS_Interval DEF Server
<1>2. IsFiniteSet(S)
  BY <1>1, FS_Subset
<1> QED
  BY <1>2, FS_CardinalityType

\* The records of one answer, as many as it is long.
LEMMA RecordsOfOne ==
  ASSUME NEW s, NEW a \in Seq(Raw)
  PROVE  /\ IsFiniteSet({s} \X DOMAIN a)
         /\ Cardinality({s} \X DOMAIN a) = Len(a)
<1>1. DOMAIN a = 1 .. Len(a) /\ Len(a) \in Nat
  OBVIOUS
<1>2. IsFiniteSet(DOMAIN a) /\ Cardinality(DOMAIN a) = Len(a)
  <2>1. /\ IsFiniteSet(1 .. Len(a))
        /\ Cardinality(1 .. Len(a)) = IF 1 > Len(a) THEN 0 ELSE Len(a) - 1 + 1
    BY <1>1, FS_Interval
  <2> QED
    BY <1>1, <2>1
<1>3. IsFiniteSet({s}) /\ Cardinality({s}) = 1
  BY FS_Singleton
<1>4. /\ IsFiniteSet({s} \X DOMAIN a)
      /\ Cardinality({s} \X DOMAIN a) = Cardinality({s}) * Cardinality(DOMAIN a)
  BY <1>2, <1>3, FS_Product
<1>5. 1 * Len(a) = Len(a)
  <2>1. \A n \in Nat : 1 * n = n
    OBVIOUS
  <2> QED
    BY <1>1, <2>1, Zenon
<1> QED
  BY <1>2, <1>3, <1>4, <1>5

\* Another run's counts, and those of a step that has no part in them.
LEMMA SameTally ==
  ASSUME NEW r \in Run, Tally(r), listed'[r] = listed[r], todo'[r] = todo[r],
         got'[r] = got[r], summary'[r] = summary[r]
  PROVE  Tally(r)'
  BY DEF Tally, Stored, Records

\* The steps that touch neither the list nor what has been stored of it.
LEMMA OtherTallies ==
  ASSUME Tallied, UNCHANGED <<listed, todo, got, summary>>,
         \A r \in Run : InTime(r)'
  PROVE  Tallied'
  BY SameTally DEF Tallied

LEMMA ListTallies ==
  ASSUME IInv, Tallied, NEW r \in Run, List(r)
  PROVE  Tallied'
<1>1. Tally(r) /\ InTime(r) /\ stage[r] = "listing"
  BY DEF Tallied, List
<1>2. listed[r] = {} /\ todo[r] = {} /\ Stored(r) = {} /\ exit[r] # 0
  BY <1>1 DEF Tally, InTime
<1>3. ASSUME NEW p \in Run, p # r PROVE Tally(p)' /\ InTime(p)'
  <2>1. Tally(p) /\ InTime(p)
    BY DEF Tallied
  <2>2. /\ listed'[p] = listed[p] /\ todo'[p] = todo[p] /\ got'[p] = got[p]
        /\ summary'[p] = summary[p] /\ stage'[p] = stage[p] /\ exit'[p] = exit[p]
    BY <1>3, Facts DEF List, Escape, TenantSyncTypeOK
  <2> QED
    BY <2>1, <2>2, SameTally DEF InTime
<1>4. CASE /\ listed' = [listed EXCEPT ![r] = Listed]
           /\ todo' = [todo EXCEPT ![r] = Listed]
           /\ summary' = [summary EXCEPT ![r].servers = Cardinality(Listed)]
           /\ stage' = [stage EXCEPT ![r] = "syncing"]
           /\ UNCHANGED <<exit, client, got>>
  <2>1. /\ listed'[r] = Listed /\ todo'[r] = Listed /\ got' = got
        /\ stage'[r] = "syncing" /\ exit'[r] = exit[r]
    BY <1>4, Facts DEF TenantSyncTypeOK
  <2>2. /\ summary'[r].servers = Cardinality(Listed)
        /\ summary'[r].failedServers = summary[r].failedServers
        /\ summary'[r].accounts = summary[r].accounts
    BY <1>4, Facts, CountsAre DEF Counts
  <2>3. Stored(r)' = {} /\ Records(r)' = Records(r)
    BY <1>2, <2>1 DEF Stored, Records
  <2>4. (listed'[r] \ todo'[r]) \ Stored(r)' = (listed[r] \ todo[r]) \ Stored(r)
    BY <1>2, <2>1, <2>3
  <2>5. Tally(r)'
    BY <1>1, <2>1, <2>2, <2>3, <2>4 DEF Tally
  <2>6. InTime(r)'
    BY <1>2, <2>1 DEF InTime
  <2> QED
    BY <1>3, <2>5, <2>6 DEF Tallied
<1>5. CASE Escape(r) /\ UNCHANGED <<listed, todo, summary, got>>
  <2>1. stage'[r] = "failing" /\ exit'[r] = exit[r]
    BY <1>5, Facts DEF Escape, TenantSyncTypeOK
  <2>2. Tally(r)' /\ InTime(r)'
    BY <1>1, <1>2, <1>5, <2>1, SameTally DEF InTime
  <2> QED
    BY <1>3, <2>2 DEF Tallied
<1> QED
  BY <1>4, <1>5 DEF List

\* The server an answer is stored of leaves the list, with its records.
LEMMA StoredTally ==
  ASSUME IInv, NEW r \in Run, Tally(r), NEW s \in todo[r], NEW a \in Seq(Raw),
         listed'[r] = listed[r], todo'[r] = todo[r] \ {s},
         got'[r] = [got[r] EXCEPT ![s] = <<a>>],
         summary'[r].servers = summary[r].servers,
         summary'[r].failedServers = summary[r].failedServers,
         summary'[r].accounts = summary[r].accounts + Len(a)
  PROVE  Tally(r)'
<1>0. /\ todo[r] \subseteq listed[r] /\ Stored(r) \subseteq listed[r] \ todo[r]
      /\ s \in Server /\ s \notin Stored(r)
  BY Facts DEF Tally, TenantSyncTypeOK
<1>1. /\ got'[r][s] = <<a>> /\ got'[r][s] # NoAnswer
      /\ \A t \in Server \ {s} : got'[r][t] = got[r][t]
  BY <1>0, Facts DEF TenantSyncTypeOK, NoAnswer
<1>2. Stored(r)' = Stored(r) \cup {s}
  BY <1>0, <1>1 DEF Stored
<1>3. (listed'[r] \ todo'[r]) \ Stored(r)' = (listed[r] \ todo[r]) \ Stored(r)
  BY <1>0, <1>2
<1>4. Records(r)' = Records(r) \cup ({s} \X DOMAIN a)
  <2>1. \A t \in Stored(r) : got'[r][t] = got[r][t]
    BY <1>0, <1>1 DEF Stored
  <2>2. Records(r)' = UNION {{t} \X DOMAIN got'[r][t][1] : t \in Stored(r) \cup {s}}
    BY <1>2 DEF Records
  <2>3. got'[r][s][1] = a
    BY <1>1
  <2> QED
    BY <2>1, <2>2, <2>3 DEF Records
<1>5. Records(r) \cap ({s} \X DOMAIN a) = {}
  BY <1>0 DEF Records
<1>6. IsFiniteSet(Records(r)) /\ summary[r].accounts = Cardinality(Records(r))
  BY DEF Tally
<1>7. /\ IsFiniteSet({s} \X DOMAIN a)
      /\ Cardinality({s} \X DOMAIN a) = Len(a)
  BY RecordsOfOne
<1> DEFINE One == {s} \X DOMAIN a
<1>8. /\ IsFiniteSet(Records(r)')
      /\ Cardinality(Records(r)') = Cardinality(Records(r)) + Len(a)
  <2> HIDE DEF One
  <2>1. /\ IsFiniteSet(Records(r)) /\ IsFiniteSet(One) /\ Cardinality(One) = Len(a)
        /\ Records(r) \cap One = {} /\ Records(r)' = Records(r) \cup One
    BY <1>4, <1>5, <1>6, <1>7 DEF One
  <2>2. /\ IsFiniteSet(Records(r) \cup One)
        /\ Cardinality(Records(r) \cup One) =
             Cardinality(Records(r)) + Cardinality(One) - Cardinality(Records(r) \cap One)
    BY <2>1, FS_Union
  <2>3. Cardinality(Records(r) \cap One) = 0
    BY <2>1, FS_EmptySet
  <2>4. Cardinality(Records(r)) \in Nat /\ Len(a) \in Nat
    BY <1>6, FS_CardinalityType
  <2> QED
    BY <2>1, <2>2, <2>3, <2>4
<1>9. todo'[r] \subseteq listed'[r] /\ Stored(r)' \subseteq listed'[r] \ todo'[r]
  BY <1>0, <1>2
<1> QED
  BY <1>3, <1>6, <1>8, <1>9 DEF Tally

\* The server that fails leaves it too, and is counted.
LEMMA FailedTally ==
  ASSUME IInv, NEW r \in Run, Tally(r), NEW s \in todo[r], Failed(r, s),
         UNCHANGED <<listed, got>>
  PROVE  Tally(r)'
<1>1. /\ todo'[r] = todo[r] \ {s}
      /\ summary'[r].failedServers = summary[r].failedServers + 1
      /\ summary'[r].servers = summary[r].servers
      /\ summary'[r].accounts = summary[r].accounts
  BY Facts, CountsAre DEF Failed, Counts, TenantSyncTypeOK
<1>2. Stored(r)' = Stored(r) /\ Records(r)' = Records(r)
  BY DEF Stored, Records
<1>3. /\ todo[r] \subseteq listed[r] /\ Stored(r) \subseteq listed[r] \ todo[r]
      /\ listed[r] \subseteq Server
  BY Facts DEF Tally, TenantSyncTypeOK
<1> DEFINE Lost == (listed[r] \ todo[r]) \ Stored(r)
<1>4. (listed'[r] \ todo'[r]) \ Stored(r)' = Lost \cup {s}
  BY <1>1, <1>2, <1>3
<1>5. Cardinality(Lost \cup {s}) = Cardinality(Lost) + 1
  <2>1. IsFiniteSet(Lost) /\ s \notin Lost
    BY <1>3, ServersFinite
  <2> QED
    BY <2>1, FS_AddElement
<1>6. todo'[r] \subseteq listed'[r] /\ Stored(r)' \subseteq listed'[r] \ todo'[r]
  BY <1>1, <1>2, <1>3
<1> QED
  BY <1>1, <1>2, <1>4, <1>5, <1>6 DEF Tally

LEMMA SyncTallies ==
  ASSUME IInv, Tallied, NEW r \in Run, SyncServer(r)
  PROVE  Tallied'
<1> DEFINE s == Max(todo[r])
<1>0. /\ Tally(r) /\ InTime(r)
      /\ stage[r] = "syncing" /\ todo[r] # {}
      /\ UNCHANGED <<created, live, stage, client, listed, exit>>
  BY DEF Tallied, SyncServer
<1>1. s \in todo[r] /\ s \in Server
  BY <1>0, MaxIsIn, Facts DEF TenantSyncTypeOK
<1>2. InTime(r)'
  BY <1>0 DEF InTime
<1>3. ASSUME NEW p \in Run, p # r PROVE Tally(p)' /\ InTime(p)'
  <2>1. Tally(p) /\ InTime(p)
    BY DEF Tallied
  <2>2. /\ todo'[p] = todo[p] /\ got'[p] = got[p] /\ summary'[p] = summary[p]
    BY <1>3, Facts DEF SyncServer, Failed, TenantSyncTypeOK
  <2> QED
    BY <1>0, <2>1, <2>2, SameTally DEF InTime
<1>4. Tally(r)'
  <2>1. CASE /\ \E a \in Answers :
                  /\ got' = [got EXCEPT ![r][s] = <<a>>]
                  /\ summary' = [summary EXCEPT ![r].accounts = @ + Len(a)]
             /\ todo' = [todo EXCEPT ![r] = @ \ {s}]
    <3>1. PICK a \in Answers :
            /\ got' = [got EXCEPT ![r][s] = <<a>>]
            /\ summary' = [summary EXCEPT ![r].accounts = @ + Len(a)]
      BY <2>1
    <3> HIDE DEF s
    <3>2. a \in Seq(Raw)
      BY AnswersAssumption
    <3>3. /\ todo'[r] = todo[r] \ {s} /\ listed'[r] = listed[r]
          /\ got'[r] = [got[r] EXCEPT ![s] = <<a>>]
      BY <1>0, <2>1, <3>1, Facts DEF TenantSyncTypeOK
    <3>4. /\ summary'[r].servers = summary[r].servers
          /\ summary'[r].failedServers = summary[r].failedServers
          /\ summary'[r].accounts = summary[r].accounts + Len(a)
      BY <3>1, Facts, CountsAre DEF Counts
    <3> QED
      BY <1>0, <1>1, <3>2, <3>3, <3>4, StoredTally
  <2>2. CASE Failed(r, s) /\ UNCHANGED got
    <3> HIDE DEF s
    <3> QED
      BY <1>0, <1>1, <2>2, FailedTally
  <2> QED
    BY <2>1, <2>2 DEF SyncServer
<1> QED
  BY <1>2, <1>3, <1>4 DEF Tallied

LEMMA TalliedFirst == Init => Tallied
<1> SUFFICES ASSUME Init, NEW r \in Run PROVE Tally(r) /\ InTime(r)
  BY DEF Tallied
<1>1. listed[r] = {} /\ todo[r] = {} /\ Stored(r) = {} /\ summary[r] = Zero
  BY DEF Init, Stored
<1>2. Records(r) = {}
  BY <1>1 DEF Records
<1>3. IsFiniteSet({}) /\ Cardinality({}) = 0
  BY FS_EmptySet
<1>4. Tally(r)
  <2>1. (listed[r] \ todo[r]) \ Stored(r) = {}
    BY <1>1
  <2> QED
    BY <1>1, <1>2, <1>3, <2>1 DEF Tally, Zero
<1>5. InTime(r)
  BY <1>1 DEF Init, InTime, NoExit
<1> QED
  BY <1>4, <1>5

LEMMA TalliedNext == IInv /\ Tallied /\ [Next]_vars => Tallied'
<1> SUFFICES ASSUME IInv, Tallied, [Next]_vars PROVE Tallied'
  OBVIOUS
<1>0. \A p \in Run : InTime(p)
  BY DEF Tallied
<1>1. ASSUME NEW r \in Run, Start(r) \/ createContainer(r) \/ Return(r) \/ Dispose(r)
      PROVE  Tallied'
  <2>1. UNCHANGED <<listed, todo, got, summary>>
    BY <1>1 DEF Start, createContainer, Return, Dispose
  <2>2. stage[r] \in {"idle", "building"} => todo[r] = {} /\ listed[r] = {}
    BY DEF Tallied, Tally, InTime
  <2>3. \A p \in Run : InTime(p)'
    BY <1>0, <1>1, <2>1, <2>2, Facts
       DEF Start, createContainer, Return, Dispose, Ends, InTime, TenantSyncTypeOK
  <2> QED
    BY <2>1, <2>3, OtherTallies
<1>2. CASE CreateServer \/ \E s \in Server : DeleteServer(s)
  BY <1>0, <1>2, OtherTallies DEF CreateServer, DeleteServer, runVars, InTime
<1>3. CASE UNCHANGED vars
  BY <1>0, <1>3, OtherTallies DEF vars, InTime
<1> QED
  BY <1>1, <1>2, <1>3, ListTallies, SyncTallies DEF Next, Work

\* A run that exits with 0 accounts for every server it has listed: the ones
\* it does not count as failed it has stored, with as many accounts as it says.
THEOREM SummaryAlwaysAddsUp == Spec => []SummaryAddsUp
<1>1. ASSUME Tallied, NEW r \in Run, exit[r] = 0
      PROVE  /\ summary[r].servers = Cardinality(listed[r])
             /\ Stored(r) \subseteq listed[r]
             /\ summary[r].failedServers = Cardinality(listed[r] \ Stored(r))
             /\ summary[r].accounts = Cardinality(Records(r))
  <2>1. Tally(r) /\ todo[r] = {}
    BY <1>1 DEF Tallied, InTime
  <2>2. (listed[r] \ todo[r]) \ Stored(r) = listed[r] \ Stored(r)
    BY <2>1
  <2> QED
    BY <2>1, <2>2 DEF Tally
<1>2. Tallied => SummaryAddsUp
  BY <1>1 DEF SummaryAddsUp
<1> QED
  BY <1>2, TalliedFirst, TalliedNext, Invariant, PTL DEF Spec
==============================================================================
