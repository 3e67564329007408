-------------------------- MODULE AccountSyncProofs --------------------------
(***************************************************************************)
(* What module AccountSync promises whatever the number of handlers, users *)
(* and changes: its type invariant, one row per account, no row older than *)
(* it says, and that a deleted server is left alone.                       *)
(*                                                                         *)
(* The invariant that carries the proof: rows keep their id and user, so   *)
(* the row a handler has found is still there when it writes, for the same *)
(* user; ids are given in order, so a new one is free; and what a sync has *)
(* still in hand holds every change up to the time it will stamp it with,  *)
(* because time stands still for a change that has not happened yet.       *)
(***************************************************************************)
EXTENDS AccountSync, FiniteSetTheorems, TLAPS

\* Ids are given in order, and neither an id nor a user occurs twice.
RowsSound ==
  /\ IsFiniteSet(rows)
  /\ \A r \in rows : r.id <= Cardinality(rows)
  /\ \A r1, r2 \in rows : r1.id = r2.id => r1 = r2
  /\ NoDuplicateAccounts

\* The row a handler has found is there, for the account it is at.
FoundHolds ==
  \A h \in Handler : found[h] # NoRow =>
    \E r \in rows : r.id = found[h] /\ r.user = account[h].user

InHand ==
  \A h \in Handler :
    /\ step[h] = "upsert" => account[h] \in Account
    /\ found[h] # NoRow => step[h] = "upsert"
    /\ step[h] = "receive" => h \notin Sync

\* An account that is there has a last change.
History ==
  \A u \in User :
    /\ hist[u] \subseteq 0 .. clock
    /\ u \in present => \E t \in hist[u] : \A s \in hist[u] : t >= s

StampsPast ==
  /\ \A h \in Handler : since[h] <= clock
  /\ \A r \in rows : r.stamp <= clock

HoldsUpTo(a, time) == \A t \in hist[a.user] : t <= time => t <= a.version

FreshInHand ==
  \A h \in Sync :
    /\ step[h] \in {"findByUser", "upsert"} => \A a \in todo[h] : HoldsUpTo(a, since[h])
    /\ step[h] = "upsert" => HoldsUpTo(account[h], since[h])

IInv ==
  /\ SyncTypeOK /\ RowsSound /\ FoundHolds /\ InHand
  /\ History /\ StampsPast /\ FreshInHand /\ FreshAsStamped

(***************************************************************************)
(* Lemmas about the operators.                                             *)
(***************************************************************************)
\* The last change of an account that is there holds all the others.
LEMMA CurrentIsLast ==
  ASSUME SyncTypeOK, History, NEW u \in present
  PROVE  /\ Current(u) \in Account
         /\ Current(u).user = u
         /\ \A t \in hist[u] : t <= Current(u).version
<1>1. u \in User /\ hist[u] \subseteq Time
  BY DEF SyncTypeOK
<1>2. PICK t \in hist[u] : \A s \in hist[u] : t >= s
  BY <1>1 DEF History
<1>3. Max(hist[u]) \in hist[u] /\ \A s \in hist[u] : Max(hist[u]) >= s
  BY <1>2 DEF Max
<1>4. \A s \in hist[u] : s \in Nat
  BY <1>1, BoundsAssumption DEF Time
<1> QED
  BY <1>1, <1>3, <1>4 DEF Current, Account

LEMMA WrittenTyped ==
  ASSUME SyncTypeOK, NEW h \in Handler, account[h] \in Account, NEW id \in 1 .. MaxRows
  PROVE  /\ Written(h, id) \in Row
         /\ Written(h, id).id = id /\ Written(h, id).user = account[h].user
         /\ Written(h, id).version = account[h].version /\ Written(h, id).stamp = since[h]
         /\ Written(h, id).by = "sync" <=> h \in Sync
<1>1. since[h] \in Time /\ account[h].user \in User /\ account[h].version \in Time
  BY DEF SyncTypeOK, Account
<1> QED
  BY <1>1 DEF Written, Row

\* Overwriting the row that was found changes neither ids nor users.
LEMMA OverwritingKeeps ==
  ASSUME SyncTypeOK, RowsSound, FoundHolds, NEW h \in Handler,
         account[h] \in Account, found[h] # NoRow
  PROVE  /\ Overwritten(h) \subseteq Row
         /\ IsFiniteSet(Overwritten(h))
         /\ Cardinality(Overwritten(h)) = Cardinality(rows)
         /\ \A n \in Overwritten(h) : n \in rows \/ n = Written(h, found[h])
         /\ \A n \in Overwritten(h) : \E r \in rows : r.id = n.id /\ r.user = n.user
         /\ \A r \in rows : \E n \in Overwritten(h) : r.id = n.id /\ r.user = n.user
         /\ \A n1, n2 \in Overwritten(h) : n1.id = n2.id \/ n1.user = n2.user => n1 = n2
<1>1. PICK r0 \in rows : r0.id = found[h] /\ r0.user = account[h].user
  BY DEF FoundHolds
<1>2. rows \subseteq Row /\ r0 \in Row /\ found[h] \in 1 .. MaxRows
  BY <1>1 DEF SyncTypeOK, Row
<1> DEFINE w == Written(h, found[h])
<1>3. w \in Row /\ w.id = r0.id /\ w.user = r0.user
  BY <1>1, <1>2, WrittenTyped
<1>4. \A r \in rows : r.id = found[h] <=> r = r0
  BY <1>1 DEF RowsSound
<1>5. Overwritten(h) = (rows \ {r0}) \cup {w}
  <2>1. \A r \in rows : (IF r.id = found[h] THEN Written(h, r.id) ELSE r)
                          = IF r = r0 THEN w ELSE r
    BY <1>1, <1>4
  <2> HIDE DEF w
  <2> QED
    BY <1>1, <2>1 DEF Overwritten
<1>6. w \notin rows \ {r0}
  BY <1>1, <1>3, <1>4
<1>7. /\ IsFiniteSet((rows \ {r0}) \cup {w})
      /\ Cardinality((rows \ {r0}) \cup {w}) = Cardinality(rows)
  <2>1. IsFiniteSet(rows) /\ Cardinality(rows) \in Nat
    BY FS_CardinalityType DEF RowsSound
  <2>2. IsFiniteSet(rows \ {r0}) /\ Cardinality(rows \ {r0}) = Cardinality(rows) - 1
    BY <1>1, <2>1, FS_RemoveElement
  <2>3. /\ IsFiniteSet((rows \ {r0}) \cup {w})
        /\ Cardinality((rows \ {r0}) \cup {w}) = Cardinality(rows \ {r0}) + 1
    BY <1>6, <2>2, FS_AddElement
  <2> QED
    BY <2>1, <2>2, <2>3
<1>8. \A n1, n2 \in Overwritten(h) : n1.id = n2.id \/ n1.user = n2.user => n1 = n2
  BY <1>1, <1>3, <1>5 DEF RowsSound, NoDuplicateAccounts
<1> HIDE DEF w
<1>9. \A r \in rows : \E n \in Overwritten(h) : r.id = n.id /\ r.user = n.user
  BY <1>1, <1>3, <1>5
<1>10. \A n \in Overwritten(h) : \E r \in rows : r.id = n.id /\ r.user = n.user
  BY <1>1, <1>3, <1>5
<1> QED
  BY <1>2, <1>3, <1>5, <1>7, <1>8, <1>9, <1>10 DEF w

\* What the locals of the handlers promise, as far as rows and changes are as
\* they are.
LocalsTyped ==
  /\ step \in [Handler -> Steps]
  /\ since \in [Handler -> Time]
  /\ todo \in [Handler -> SUBSET Account]
  /\ account \in [Handler -> Account \cup {NoAccount}]
  /\ found \in [Handler -> 0 .. MaxRows]
  /\ failed \in [Handler -> BOOLEAN]

LocalsSound(h) ==
  /\ found[h] # NoRow =>
       step[h] = "upsert" /\ \E r \in rows : r.id = found[h] /\ r.user = account[h].user
  /\ step[h] = "upsert" => account[h] \in Account
  /\ step[h] = "receive" => h \notin Sync
  /\ since[h] <= clock
  /\ h \in Sync /\ step[h] \in {"findByUser", "upsert"} =>
       \A a \in todo[h] : HoldsUpTo(a, since[h])
  /\ h \in Sync /\ step[h] = "upsert" => HoldsUpTo(account[h], since[h])

Locals == LocalsTyped /\ \A h \in Handler : LocalsSound(h)

\* The same of the rows, and of the changes.
Rows ==
  /\ rows \subseteq Row /\ RowsSound /\ FreshAsStamped
  /\ \A r \in rows : r.stamp <= clock

ServerTyped ==
  live \in BOOLEAN /\ token \in BOOLEAN
  /\ status \in {"INACTIVE", "ACTIVE", "UNREACHABLE"} /\ checked \in Time

Changes ==
  clock \in Time /\ hist \in [User -> SUBSET Time] /\ present \subseteq User /\ History

LEMMA Parts == IInv <=> Locals /\ Rows /\ ServerTyped /\ Changes
<1>1. SyncTypeOK <=> LocalsTyped /\ ServerTyped /\ rows \subseteq Row
                       /\ clock \in Time /\ hist \in [User -> SUBSET Time] /\ present \subseteq User
  BY DEF SyncTypeOK, LocalsTyped, ServerTyped
<1>2. Sync \subseteq Handler
  BY DEF Handler
<1>3. FoundHolds /\ InHand /\ FreshInHand /\ (\A h \in Handler : since[h] <= clock)
        <=> \A h \in Handler : LocalsSound(h)
  BY <1>2 DEF FoundHolds, InHand, FreshInHand, LocalsSound
<1> QED
  BY <1>1, <1>3 DEF IInv, Locals, Rows, Changes, StampsPast

\* Rows that were there still are, under the same id and for the same user.
Kept == \A r \in rows : \E n \in rows' : r.id = n.id /\ r.user = n.user

LEMMA UnchangedRows ==
  ASSUME Rows, UNCHANGED <<clock, hist, rows>>
  PROVE  Rows' /\ Kept
  BY DEF Rows, RowsSound, NoDuplicateAccounts, FreshAsStamped, Kept

LEMMA OverwrittenRows ==
  ASSUME IInv, NEW h \in Handler, step[h] = "upsert", found[h] # NoRow,
         rows' = Overwritten(h), UNCHANGED <<clock, hist>>
  PROVE  Rows' /\ Kept
<1>1. account[h] \in Account /\ SyncTypeOK /\ RowsSound /\ FoundHolds
  BY DEF IInv, InHand
<1>2. /\ Overwritten(h) \subseteq Row /\ IsFiniteSet(Overwritten(h))
      /\ Cardinality(Overwritten(h)) = Cardinality(rows)
      /\ \A n \in Overwritten(h) : n \in rows \/ n = Written(h, found[h])
      /\ \A n \in Overwritten(h) : \E r \in rows : r.id = n.id /\ r.user = n.user
      /\ \A r \in rows : \E n \in Overwritten(h) : r.id = n.id /\ r.user = n.user
      /\ \A n1, n2 \in Overwritten(h) : n1.id = n2.id \/ n1.user = n2.user => n1 = n2
  BY <1>1, OverwritingKeeps
<1>3. found[h] \in 1 .. MaxRows
  BY <1>1, BoundsAssumption DEF SyncTypeOK, NoRow
<1> DEFINE w == Written(h, found[h])
<1>4. /\ w.user = account[h].user /\ w.version = account[h].version
      /\ w.stamp = since[h] /\ (w.by = "sync" <=> h \in Sync)
  BY <1>1, <1>3, WrittenTyped
<1>5. h \in Sync => HoldsUpTo(account[h], since[h])
  BY DEF IInv, FreshInHand
<1>6. since[h] <= clock
  BY DEF IInv, StampsPast
<1> HIDE DEF w
<1>7. RowsSound'
  BY <1>1, <1>2 DEF RowsSound, NoDuplicateAccounts
<1>8. FreshAsStamped'
  <2> SUFFICES ASSUME NEW r \in rows', r.by = "sync", NEW t \in hist[r.user], t <= r.stamp
               PROVE  t <= r.version
    BY DEF FreshAsStamped
  <2>1. CASE r \in rows
    BY <2>1 DEF IInv, FreshAsStamped
  <2>2. CASE r = w
    BY <2>2, <1>4, <1>5 DEF HoldsUpTo
  <2> QED
    BY <1>2, <2>1, <2>2 DEF w
<1>9. \A r \in rows' : r.stamp <= clock'
  BY <1>2, <1>4, <1>6 DEF IInv, StampsPast, w
<1> QED
  BY <1>2, <1>7, <1>8, <1>9 DEF Rows, Kept

LEMMA CreatedRows ==
  ASSUME IInv, NEW h \in Handler, step[h] = "upsert", ~Indexed(account[h].user),
         Cardinality(rows) < MaxRows,
         rows' = rows \cup {Written(h, Cardinality(rows) + 1)}, UNCHANGED <<clock, hist>>
  PROVE  Rows' /\ Kept
<1>1. account[h] \in Account /\ SyncTypeOK /\ RowsSound
  BY DEF IInv, InHand
<1>2. Cardinality(rows) \in Nat
  BY <1>1, FS_CardinalityType DEF RowsSound
<1> DEFINE id == Cardinality(rows) + 1
           w == Written(h, id)
<1>3. id \in 1 .. MaxRows
  BY <1>2, BoundsAssumption
<1>4. /\ w \in Row /\ w.id = id /\ w.user = account[h].user /\ w.version = account[h].version
      /\ w.stamp = since[h] /\ (w.by = "sync" <=> h \in Sync)
  <2> HIDE DEF id
  <2> QED
    BY <1>1, <1>3, WrittenTyped
<1>5. \A r \in rows : r.id # w.id /\ r.user # w.user
  <2>1. \A r \in rows : r.id \in Nat /\ r.id <= Cardinality(rows)
    BY <1>1 DEF RowsSound, SyncTypeOK, Row
  <2> QED
    BY <1>2, <1>4, <2>1 DEF Indexed
<1>6. w \notin rows
  BY <1>5
<1>7. h \in Sync => HoldsUpTo(account[h], since[h])
  BY DEF IInv, FreshInHand
<1>8. since[h] <= clock
  BY DEF IInv, StampsPast
<1> HIDE DEF w
<1>9. RowsSound'
  <2>1. IsFiniteSet(rows') /\ Cardinality(rows') = Cardinality(rows) + 1
    BY <1>1, <1>6, FS_AddElement DEF RowsSound, w
  <2>2. \A r \in rows' : r.id <= Cardinality(rows')
    <3>1. \A r \in rows : r.id \in Nat /\ r.id <= Cardinality(rows)
      BY <1>1 DEF RowsSound, SyncTypeOK, Row
    <3> QED
      BY <1>2, <1>4, <2>1, <3>1 DEF w
  <2>3. \A r1, r2 \in rows' : r1.id = r2.id \/ r1.user = r2.user => r1 = r2
    BY <1>1, <1>5 DEF RowsSound, NoDuplicateAccounts, w
  <2> QED
    BY <2>1, <2>2, <2>3 DEF RowsSound, NoDuplicateAccounts
<1>10. FreshAsStamped'
  <2> SUFFICES ASSUME NEW r \in rows', r.by = "sync", NEW t \in hist[r.user], t <= r.stamp
               PROVE  t <= r.version
    BY DEF FreshAsStamped
  <2>1. CASE r \in rows
    BY <2>1 DEF IInv, FreshAsStamped
  <2>2. CASE r = w
    BY <2>2, <1>4, <1>7 DEF HoldsUpTo
  <2> QED
    BY <2>1, <2>2 DEF w
<1>11. (\A r \in rows' : r.stamp <= clock') /\ rows' \subseteq Row
  BY <1>1, <1>4, <1>8 DEF IInv, StampsPast, SyncTypeOK, w
<1> QED
  BY <1>9, <1>10, <1>11 DEF Rows, Kept

(***************************************************************************)
(* The steps of one handler.                                               *)
(***************************************************************************)
\* The other handlers do not notice.
LEMMA OneHandler ==
  ASSUME Locals, LocalsTyped', Kept, UNCHANGED <<clock, hist>>,
         NEW h \in Handler, LocalsSound(h)',
         \A g \in Handler : g # h =>
           /\ step'[g] = step[g] /\ since'[g] = since[g] /\ todo'[g] = todo[g]
           /\ account'[g] = account[g] /\ found'[g] = found[g]
  PROVE  Locals'
<1> SUFFICES ASSUME NEW g \in Handler, g # h PROVE LocalsSound(g)'
  BY DEF Locals
<1>1. LocalsSound(g)
  BY DEF Locals
<1>2. \A r \in rows : \E n \in rows' : n.id = r.id /\ n.user = r.user
  BY DEF Kept
<1> QED
  BY <1>1, <1>2 DEF LocalsSound, HoldsUpTo

LEMMA OverLocals ==
  ASSUME Locals, clock \in Nat, Kept, UNCHANGED <<clock, hist>>, NEW h \in Handler, Over(h)
  PROVE  Locals'
<1>1. LocalsTyped'
  BY BoundsAssumption DEF Locals, LocalsTyped, Over, Await, Steps, Time, NoRow
<1>2. LocalsSound(h)'
  BY DEF Locals, LocalsTyped, LocalsSound, Over, Await
<1> QED
  BY <1>1, <1>2, OneHandler DEF Locals, LocalsTyped, Over, Await

LEMMA CaughtLocals ==
  ASSUME Locals, clock \in Nat, Kept, UNCHANGED <<clock, hist>>, NEW h \in Handler, Caught(h)
  PROVE  Locals'
<1>1. CASE h \in Refresh
  BY <1>1, OverLocals DEF Caught
<1>2. CASE h \notin Refresh
  <2>1. LocalsTyped'
    BY <1>2, BoundsAssumption DEF Locals, LocalsTyped, Caught, Await, Steps, NoRow
  <2>2. LocalsSound(h)'
    BY <1>2 DEF Locals, LocalsTyped, LocalsSound, Caught, Await
  <2> QED
    BY <1>2, <2>1, <2>2, OneHandler DEF Locals, LocalsTyped, Caught, Await
<1> QED
  BY <1>1, <1>2

LEMMA UpsertedLocals ==
  ASSUME Locals, Kept, UNCHANGED <<clock, hist>>, NEW h \in Handler,
         step[h] = "upsert", Upserted(h)
  PROVE  Locals'
<1>1. LocalsTyped'
  BY BoundsAssumption DEF Locals, LocalsTyped, Upserted, Await, Steps, NoRow
<1>2. LocalsSound(h)'
  BY DEF Locals, LocalsTyped, LocalsSound, HoldsUpTo, Upserted, Await
<1> QED
  BY <1>1, <1>2, OneHandler DEF Locals, LocalsTyped, Upserted, Await

\* A step that touches neither rows nor changes needs its own locals checked only.
LEMMA LocalStep ==
  ASSUME IInv, Locals', ServerTyped', UNCHANGED <<whmVars, rows>>
  PROVE  IInv'
<1>1. Rows' /\ Changes'
  BY Parts, UnchangedRows DEF Changes, History, whmVars
<1> QED
  BY <1>1, Parts, PTL

LEMMA Facts ==
  ASSUME IInv
  PROVE  /\ Locals /\ Rows /\ ServerTyped /\ Changes
         /\ clock \in Nat /\ clock \in Time
         /\ UNCHANGED rows => Kept
  BY Parts, BoundsAssumption DEF Changes, Time, Kept

LEMMA OverStep ==
  ASSUME IInv, NEW h \in Handler, Over(h), ServerTyped', UNCHANGED <<whmVars, rows>>
  PROVE  IInv'
  BY Facts, OverLocals, LocalStep DEF whmVars

LEMMA CaughtStep ==
  ASSUME IInv, NEW h \in Handler, Caught(h), ServerTyped', UNCHANGED <<whmVars, rows>>
  PROVE  IInv'
  BY Facts, CaughtLocals, LocalStep DEF whmVars

LEMMA OwnStep ==
  ASSUME IInv, NEW h \in Handler, LocalsTyped', LocalsSound(h)', ServerTyped',
         UNCHANGED <<whmVars, rows>>,
         \A g \in Handler : g # h =>
           /\ step'[g] = step[g] /\ since'[g] = since[g] /\ todo'[g] = todo[g]
           /\ account'[g] = account[g] /\ found'[g] = found[g]
  PROVE  IInv'
  BY Facts, OneHandler, LocalStep DEF whmVars

\* The rows have been written, the handler goes on.
LEMMA WritingStep ==
  ASSUME IInv, Locals', Rows', UNCHANGED whmVars, ServerTyped'
  PROVE  IInv'
<1>1. Changes'
  BY Facts DEF Changes, History, whmVars
<1> QED
  BY <1>1, Parts, PTL

(***************************************************************************)
(* The actions.                                                            *)
(***************************************************************************)
LEMMA StartStep ==
  ASSUME IInv, NEW h \in Handler, Start(h) PROVE IInv'
<1> USE DEF Start, Await, Locals, LocalsTyped, serverVars
<1>1. LocalsTyped'
  BY Facts DEF Steps
<1>2. LocalsSound(h)'
  BY Facts DEF LocalsSound, whmVars
<1> QED
  BY <1>1, <1>2, Facts, OwnStep DEF ServerTyped

LEMMA FindAccountStep ==
  ASSUME IInv, NEW h \in Handler, FindAccount(h) PROVE IInv'
<1> USE DEF FindAccount, Locals, LocalsTyped, serverVars
<1>1. ServerTyped'
  BY Facts DEF ServerTyped
<1>2. CASE \E r \in rows :
             /\ account' = [account EXCEPT ![h] = [user |-> r.user, version |-> r.version]]
             /\ Await(h, "findServer")
             /\ UNCHANGED <<since, todo, found, failed>>
  <2>1. PICK r \in rows :
          /\ account' = [account EXCEPT ![h] = [user |-> r.user, version |-> r.version]]
          /\ Await(h, "findServer")
          /\ UNCHANGED <<since, todo, found, failed>>
    BY <1>2
  <2>2. [user |-> r.user, version |-> r.version] \in Account
    BY Facts DEF Rows, Row, Account
  <2>3. LocalsTyped'
    BY <2>1, <2>2, Facts DEF Steps, Await
  <2>4. LocalsSound(h)'
    BY <2>1, Facts DEF LocalsSound, Await, whmVars
  <2> QED
    BY <1>1, <2>1, <2>3, <2>4, Facts, OwnStep DEF Await
<1>3. CASE Over(h)
  BY <1>1, <1>3, OverStep
<1> QED
  BY <1>2, <1>3

LEMMA FindServerStep ==
  ASSUME IInv, NEW h \in Handler, FindServer(h) PROVE IInv'
<1> USE DEF FindServer, Locals, LocalsTyped, serverVars
<1>1. ServerTyped'
  BY Facts DEF ServerTyped
<1>2. CASE Await(h, "findToken") /\ UNCHANGED <<since, todo, account, found, failed>>
  <2>1. LocalsTyped'
    BY <1>2, Facts DEF Steps, Await
  <2>2. LocalsSound(h)'
    BY <1>2, Facts DEF LocalsSound, Await, whmVars
  <2> QED
    BY <1>1, <1>2, <2>1, <2>2, Facts, OwnStep DEF Await
<1>3. CASE Over(h)
  BY <1>1, <1>3, OverStep
<1> QED
  BY <1>2, <1>3

LEMMA FindTokenStep ==
  ASSUME IInv, NEW h \in Handler, FindToken(h) PROVE IInv'
<1> USE DEF FindToken, Locals, LocalsTyped, serverVars
<1>1. ServerTyped'
  BY Facts DEF ServerTyped
<1>2. CASE /\ since' = [since EXCEPT ![h] = IF h \in Refresh THEN 0 ELSE clock]
           /\ Await(h, "whm")
           /\ UNCHANGED <<todo, account, found, failed>>
  <2>1. LocalsTyped'
    BY <1>2, Facts, BoundsAssumption DEF Steps, Await, Time
  <2>2. LocalsSound(h)'
    BY <1>2, Facts DEF LocalsSound, Await, whmVars
  <2> QED
    BY <1>1, <1>2, <2>1, <2>2, Facts, OwnStep DEF Await
<1>3. CASE Await(h, "audit") /\ UNCHANGED <<since, todo, account, found, failed>>
  <2>1. LocalsTyped'
    BY <1>3, Facts DEF Steps, Await
  <2>2. LocalsSound(h)'
    BY <1>3, Facts DEF LocalsSound, Await, whmVars
  <2> QED
    BY <1>1, <1>3, <2>1, <2>2, Facts, OwnStep DEF Await
<1>4. CASE Over(h)
  BY <1>1, <1>4, OverStep
<1>5. CASE /\ since' = [since EXCEPT ![h] = clock]
           /\ Await(h, "setUnreachable")
           /\ UNCHANGED <<todo, account, found, failed>>
  <2>1. LocalsTyped'
    BY <1>5, Facts, BoundsAssumption DEF Steps, Await, Time
  <2>2. LocalsSound(h)'
    BY <1>5, Facts DEF LocalsSound, Await, whmVars
  <2> QED
    BY <1>1, <1>5, <2>1, <2>2, Facts, OwnStep DEF Await
<1> QED
  BY <1>2, <1>3, <1>4, <1>5 DEF DecryptFails

LEMMA AnswerListStep ==
  ASSUME IInv, NEW h \in Handler, AnswerList(h) PROVE IInv'
<1> USE DEF AnswerList, Locals, LocalsTyped, serverVars
<1> DEFINE answer == {Current(u) : u \in present}
<1>1. SyncTypeOK /\ History
  BY DEF IInv
<1>2. \A a \in answer : a \in Account /\ \A t \in hist[a.user] : t <= a.version
  BY <1>1, CurrentIsLast
<1>3. todo' = [todo EXCEPT ![h] = answer]
  OBVIOUS
<1> HIDE DEF answer
<1>4. LocalsTyped'
  BY <1>2, <1>3, Facts DEF Steps, Await
<1>5. LocalsSound(h)'
  BY <1>2, <1>3, Facts DEF LocalsSound, HoldsUpTo, Await, whmVars
<1> QED
  BY <1>3, <1>4, <1>5, Facts, OwnStep DEF Await, ServerTyped

LEMMA AnswerSummaryStep ==
  ASSUME IInv, NEW h \in Handler, AnswerSummary(h) PROVE IInv'
<1> USE DEF AnswerSummary, Locals, LocalsTyped, serverVars
<1>1. ServerTyped'
  BY Facts DEF ServerTyped
<1> DEFINE u == account[h].user
<1>2. CASE /\ u \in present
           /\ todo' = [todo EXCEPT ![h] = {Current(u)}]
           /\ Await(h, "receive")
           /\ account' = [account EXCEPT ![h] = NoAccount]
           /\ UNCHANGED <<since, found, failed>>
  <2>1. Current(u) \in Account
    BY <1>2, CurrentIsLast DEF IInv
  <2>2. LocalsTyped'
    BY <1>2, <2>1, Facts DEF Steps, Await
  <2>3. LocalsSound(h)'
    BY <1>2, Facts, KindsAssumption DEF LocalsSound, Await, whmVars
  <2> QED
    BY <1>1, <1>2, <2>2, <2>3, Facts, OwnStep DEF Await
<1>3. CASE Over(h)
  BY <1>1, <1>3, OverStep
<1> QED
  BY <1>2, <1>3

LEMMA ReceiveStep ==
  ASSUME IInv, NEW h \in Handler, Receive(h) PROVE IInv'
<1> USE DEF Receive, Locals, LocalsTyped, serverVars
<1>1. LocalsTyped'
  BY Facts DEF Steps, Await
<1>2. LocalsSound(h)'
  BY Facts DEF LocalsSound, Await, whmVars
<1> QED
  BY <1>1, <1>2, Facts, OwnStep DEF Await, ServerTyped

LEMMA AnswerVersionStep ==
  ASSUME IInv, NEW h \in Handler, AnswerVersion(h) PROVE IInv'
<1> USE DEF AnswerVersion, Locals, LocalsTyped, serverVars
<1>1. LocalsTyped'
  BY Facts DEF Steps, Await
<1>2. LocalsSound(h)'
  BY Facts DEF LocalsSound, Await, whmVars
<1> QED
  BY <1>1, <1>2, Facts, OwnStep DEF Await, ServerTyped

LEMMA CallFailsStep ==
  ASSUME IInv, NEW h \in Handler, CallFails(h) PROVE IInv'
<1> USE DEF CallFails, Locals, LocalsTyped, serverVars
<1>1. ServerTyped'
  BY Facts DEF ServerTyped
<1>2. CASE /\ failed' = [failed EXCEPT ![h] = TRUE]
           /\ Await(h, "setUnreachable")
           /\ UNCHANGED <<since, todo, account, found>>
  <2>1. LocalsTyped'
    BY <1>2, Facts DEF Steps, Await
  <2>2. LocalsSound(h)'
    BY <1>2, Facts DEF LocalsSound, Await, whmVars
  <2> QED
    BY <1>1, <1>2, <2>1, <2>2, Facts, OwnStep DEF Await
<1>3. CASE Over(h)
  BY <1>1, <1>3, OverStep
<1> QED
  BY <1>2, <1>3

LEMMA FindByUserStep ==
  ASSUME IInv, NEW h \in Handler, FindByUser(h) PROVE IInv'
<1> USE DEF FindByUser, Locals, LocalsTyped, serverVars
<1>1. ServerTyped'
  BY Facts DEF ServerTyped
<1>2. CASE \E a \in Remaining(h) :
             /\ todo' = [todo EXCEPT ![h] = @ \ {a}]
             /\ account' = [account EXCEPT ![h] = a]
             /\ \/ /\ RowsFor(a.user) = {}
                   /\ found' = [found EXCEPT ![h] = NoRow]
                \/ \E id \in RowsFor(a.user) : found' = [found EXCEPT ![h] = id]
             /\ Await(h, "upsert")
             /\ UNCHANGED <<since, failed>>
  <2>1. PICK a \in todo[h] :
          /\ todo' = [todo EXCEPT ![h] = @ \ {a}]
          /\ account' = [account EXCEPT ![h] = a]
          /\ \/ found' = [found EXCEPT ![h] = NoRow]
             \/ \E id \in RowsFor(a.user) : found' = [found EXCEPT ![h] = id]
          /\ Await(h, "upsert")
          /\ UNCHANGED <<since, failed>>
    BY <1>2 DEF Remaining
  <2>2. PICK id : /\ found' = [found EXCEPT ![h] = id]
                  /\ id = NoRow \/ \E r \in rows : r.id = id /\ r.user = a.user
    BY <2>1 DEF RowsFor
  <2>3. a \in Account /\ id \in 0 .. MaxRows
    BY <2>2, Facts, BoundsAssumption DEF Rows, Row, NoRow
  <2>4. LocalsTyped'
    BY <2>1, <2>2, <2>3, Facts DEF Steps, Await
  <2>5. h \in Sync => HoldsUpTo(a, since[h]) /\ \A b \in todo[h] : HoldsUpTo(b, since[h])
    BY <2>1, Facts DEF LocalsSound
  <2>6. /\ found'[h] = id /\ account'[h] = a /\ step'[h] = "upsert"
        /\ todo'[h] \subseteq todo[h] /\ since'[h] = since[h]
    BY <2>1, <2>2, Facts DEF Await
  <2>7. LocalsSound(h)'
    BY <2>2, <2>3, <2>5, <2>6, Facts DEF LocalsSound, HoldsUpTo, whmVars
  <2> QED
    BY <1>1, <2>1, <2>2, <2>4, <2>7, Facts, OwnStep DEF Await
<1>3. CASE /\ Remaining(h) = {}
           /\ todo' = [todo EXCEPT ![h] = {}]
           /\ Await(h, "markUsed")
           /\ UNCHANGED <<since, account, found, failed>>
  <2>1. LocalsTyped'
    BY <1>3, Facts DEF Steps, Await
  <2>2. LocalsSound(h)'
    BY <1>3, Facts DEF LocalsSound, Await, whmVars
  <2> QED
    BY <1>1, <1>3, <2>1, <2>2, Facts, OwnStep DEF Await
<1> QED
  BY <1>2, <1>3

LEMMA UpsertStep ==
  ASSUME IInv, NEW h \in Handler, Upsert(h) PROVE IInv'
<1> USE DEF Upsert
<1>1. ServerTyped'
  BY Facts DEF ServerTyped, serverVars
<1>2. CASE found[h] # NoRow /\ rows' = Overwritten(h) /\ Upserted(h)
  <2>1. Rows' /\ Kept
    BY <1>2, OverwrittenRows DEF whmVars
  <2>2. Locals'
    BY <1>2, <2>1, Facts, UpsertedLocals DEF whmVars
  <2> QED
    BY <1>1, <2>1, <2>2, WritingStep
<1>3. CASE /\ found[h] = NoRow /\ ~Indexed(account[h].user)
           /\ Cardinality(rows) < MaxRows
           /\ rows' = rows \cup {Written(h, Cardinality(rows) + 1)}
           /\ Upserted(h)
  <2>1. Rows' /\ Kept
    BY <1>3, CreatedRows DEF whmVars
  <2>2. Locals'
    BY <1>3, <2>1, Facts, UpsertedLocals DEF whmVars
  <2> QED
    BY <1>1, <2>1, <2>2, WritingStep
<1>4. CASE Caught(h) /\ UNCHANGED rows
  BY <1>1, <1>4, CaughtStep
<1> QED
  BY <1>2, <1>3, <1>4

LEMMA MarkUsedStep ==
  ASSUME IInv, NEW h \in Handler, MarkUsed(h) PROVE IInv'
<1> USE DEF MarkUsed, Locals, LocalsTyped, serverVars
<1>1. LocalsTyped'
  BY Facts DEF Steps, Await
<1>2. LocalsSound(h)'
  BY Facts DEF LocalsSound, Await, whmVars
<1> QED
  BY <1>1, <1>2, Facts, OwnStep DEF Await, ServerTyped

LEMMA StatusTyped ==
  ASSUME IInv, NEW h \in Handler, NEW s \in {"ACTIVE", "UNREACHABLE"}, SetStatus(h, s)
  PROVE  ServerTyped'
  BY Facts DEF SetStatus, ServerTyped, Locals, LocalsTyped

LEMMA RecordStatusStep ==
  ASSUME IInv, NEW h \in Handler, RecordStatus(h) PROVE IInv'
<1> USE DEF RecordStatus, Locals, LocalsTyped
<1>1. ServerTyped'
  BY StatusTyped
<1>2. LocalsTyped'
  BY Facts, BoundsAssumption DEF Steps, Await, Time
<1>3. LocalsSound(h)'
  BY Facts DEF LocalsSound, Await, whmVars
<1> QED
  BY <1>1, <1>2, <1>3, Facts, OwnStep DEF Await

LEMMA StatementFailsStep ==
  ASSUME IInv, NEW h \in Handler, StatementFails(h) PROVE IInv'
<1> USE DEF StatementFails
<1>1. ServerTyped'
  <2>1. CASE UNCHANGED serverVars
    BY <2>1, Facts DEF ServerTyped, serverVars
  <2>2. CASE SetStatus(h, "ACTIVE") \/ SetStatus(h, "UNREACHABLE")
    BY <2>2, StatusTyped
  <2> QED
    BY <2>1, <2>2
<1>2. Rows' /\ Kept
  <2>1. CASE UNCHANGED rows
    BY <2>1, Facts, UnchangedRows DEF whmVars
  <2>2. CASE step[h] = "upsert" /\ found[h] # NoRow /\ rows' = Overwritten(h)
    BY <2>2, OverwrittenRows DEF whmVars
  <2> QED
    BY <2>1, <2>2
<1>3. Locals'
  <2>1. CASE Over(h)
    BY <1>2, <2>1, Facts, OverLocals DEF whmVars
  <2>2. CASE Caught(h)
    BY <1>2, <2>2, Facts, CaughtLocals DEF whmVars
  <2> QED
    BY <2>1, <2>2
<1> QED
  BY <1>1, <1>2, <1>3, WritingStep

LEMMA EndingStep ==
  ASSUME IInv, NEW h \in Handler, Audit(h) \/ Crash(h) PROVE IInv'
<1>1. Over(h) /\ UNCHANGED <<whmVars, serverVars, rows>>
  BY DEF Audit, Crash
<1>2. ServerTyped'
  BY <1>1, Facts DEF ServerTyped, serverVars
<1> QED
  BY <1>1, <1>2, OverStep

\* Something changes on the WHM side: later than any time in hand or stamped.
LEMMA WhmStep ==
  ASSUME IInv, NEW u \in User, Change(u) \/ Terminate(u) PROVE IInv'
<1>1. /\ clock' = clock + 1 /\ clock + 1 \in Time
      /\ UNCHANGED <<serverVars, rows, localVars>>
  BY Facts, BoundsAssumption DEF Change, Terminate, Time
<1>2. /\ hist' \in [User -> SUBSET Time]
      /\ \A v \in User : hist'[v] \subseteq hist[v] \cup {clock + 1}
      /\ present' \subseteq User
  BY <1>1, Facts DEF Change, Terminate, Changes
<1>3. History'
  <2> SUFFICES ASSUME NEW v \in User
               PROVE  /\ hist'[v] \subseteq 0 .. clock'
                      /\ v \in present' => \E t \in hist'[v] : \A s \in hist'[v] : t >= s
    BY DEF History
  <2>1. \A s \in hist[v] : s \in Nat /\ s <= clock
    BY Facts DEF Changes, History
  <2>2. hist'[v] \subseteq 0 .. clock'
    BY <1>1, <1>2, <2>1, Facts
  <2>3. CASE Change(u) /\ v = u
    <3>1. hist'[v] = hist[v] \cup {clock + 1}
      BY <2>3, Facts DEF Change, Changes
    <3>2. \A s \in hist'[v] : clock + 1 >= s
      BY <2>1, <3>1, Facts
    <3> QED
      BY <2>2, <3>1, <3>2
  <2>4. CASE ~(Change(u) /\ v = u)
    <3>1. hist'[v] = hist[v] /\ (v \in present' => v \in present)
      BY <2>4, Facts DEF Change, Terminate, Changes
    <3> QED
      BY <2>2, <3>1, Facts DEF Changes, History
  <2> QED
    BY <2>3, <2>4
<1>4. Changes'
  BY <1>1, <1>2, <1>3 DEF Changes
<1>5. ServerTyped'
  BY <1>1, Facts DEF ServerTyped, serverVars
<1>6. \A v \in User, time \in 0 .. clock, w \in Nat :
        (\A t \in hist[v] : t <= time => t <= w) => (\A t \in hist'[v] : t <= time => t <= w)
  BY <1>2, Facts
<1>7. Rows'
  <2>1. \A r \in rows : r.user \in User /\ r.version \in Nat /\ r.stamp \in 0 .. clock
    BY Facts, BoundsAssumption DEF Rows, Row, Time
  <2>2. FreshAsStamped'
    BY <1>1, <1>6, <2>1, Facts DEF FreshAsStamped, Rows
  <2>3. \A r \in rows : r.stamp <= clock'
    BY <1>1, <2>1, Facts
  <2> QED
    BY <1>1, <2>2, <2>3, Facts DEF Rows, RowsSound, NoDuplicateAccounts
<1>8. Locals'
  <2>1. \A h \in Handler : since[h] \in 0 .. clock
    BY Facts DEF Locals, LocalsTyped, LocalsSound, Time
  <2>2. LocalsTyped'
    BY <1>1, Facts DEF Locals, LocalsTyped, localVars
  <2>3. ASSUME NEW a \in Account, NEW h \in Handler, HoldsUpTo(a, since[h])
        PROVE  HoldsUpTo(a, since[h])'
    BY <1>1, <1>6, <2>1, <2>3, BoundsAssumption DEF HoldsUpTo, Account, Time, localVars
  <2>4. ASSUME NEW h \in Handler PROVE LocalsSound(h)'
    <3>1. /\ todo[h] \subseteq Account /\ LocalsSound(h) /\ since[h] <= clock + 1
          /\ UNCHANGED <<rows, step, since, todo, account, found>>
      BY <1>1, <2>1, Facts DEF Locals, LocalsTyped, localVars
    <3>2. \A a \in todo[h] : HoldsUpTo(a, since[h]) => HoldsUpTo(a, since[h])'
      BY <2>3, <3>1
    <3>3. account[h] \in Account =>
            (HoldsUpTo(account[h], since[h]) => HoldsUpTo(account[h], since[h])')
      BY <2>3, <3>1
    <3> QED
      BY <1>1, <3>1, <3>2, <3>3 DEF LocalsSound
  <2> QED
    BY <2>2, <2>4 DEF Locals
<1> QED
  BY <1>4, <1>5, <1>7, <1>8, Parts, PTL

LEMMA RemovalStep ==
  ASSUME IInv, DeleteServer \/ RevokeToken PROVE IInv'
<1>1. UNCHANGED <<whmVars, status, checked, rows, localVars>>
  BY DEF DeleteServer, RevokeToken
<1>2. ServerTyped'
  BY Facts DEF DeleteServer, RevokeToken, ServerTyped
<1>3. Locals'
  BY <1>1, Facts DEF Locals, LocalsTyped, LocalsSound, HoldsUpTo, whmVars, localVars
<1> QED
  BY <1>1, <1>2, <1>3, LocalStep

(***************************************************************************)
(* The theorems.                                                           *)
(***************************************************************************)
LEMMA Initially == Init => IInv
<1> SUFFICES ASSUME Init PROVE IInv
  OBVIOUS
<1>1. SyncTypeOK
  BY BoundsAssumption DEF Init, SyncTypeOK, Steps, Time, NoRow
<1>2. RowsSound /\ FreshAsStamped
  BY FS_EmptySet DEF Init, RowsSound, NoDuplicateAccounts, FreshAsStamped
<1>3. FoundHolds /\ InHand
  BY DEF Init, FoundHolds, InHand
<1>4. History
  BY DEF Init, History
<1>5. StampsPast /\ FreshInHand
  BY DEF Init, StampsPast, FreshInHand, Handler
<1> QED
  BY <1>1, <1>2, <1>3, <1>4, <1>5 DEF IInv

LEMMA Inductive == IInv /\ [Next]_vars => IInv'
<1> SUFFICES ASSUME IInv, [Next]_vars PROVE IInv'
  OBVIOUS
<1>1. ASSUME NEW h \in Handler,
             Start(h) \/ Work(h) \/ Call(h) \/ StatementFails(h) \/ Crash(h)
      PROVE  IInv'
  BY <1>1, StartStep, FindAccountStep, FindServerStep, FindTokenStep, ReceiveStep,
     FindByUserStep, UpsertStep, MarkUsedStep, RecordStatusStep, EndingStep,
     AnswerListStep, AnswerSummaryStep, AnswerVersionStep, CallFailsStep,
     StatementFailsStep DEF Work, Call
<1>2. ASSUME NEW u \in User, Change(u) \/ Terminate(u) PROVE IInv'
  BY <1>2, WhmStep
<1>3. CASE DeleteServer \/ RevokeToken
  BY <1>3, RemovalStep
<1>4. CASE UNCHANGED vars
  <2>1. Locals'
    BY <1>4, Facts DEF Locals, LocalsTyped, LocalsSound, HoldsUpTo, vars
  <2>2. ServerTyped'
    BY <1>4, Facts DEF ServerTyped, vars
  <2> QED
    BY <1>4, <2>1, <2>2, LocalStep DEF vars, whmVars
<1> QED
  BY <1>1, <1>2, <1>3, <1>4 DEF Next

\* The inductive invariant holds throughout.
THEOREM Invariant == Spec => []IInv
  BY Initially, Inductive, PTL DEF Spec

\* The variables of AccountSync keep their types, whatever fails.
THEOREM TypesKept == Spec => []SyncTypeOK
<1>1. IInv => SyncTypeOK
  BY DEF IInv
<1> QED
  BY <1>1, Invariant, PTL

\* However many syncs and refreshes overlap, upsertOne's read-then-write and the
\* unique index leave one row per account.
THEOREM OneRowPerAccount == Spec => []NoDuplicateAccounts
<1>1. IInv => NoDuplicateAccounts
  BY DEF IInv, RowsSound
<1> QED
  BY <1>1, Invariant, PTL

\* A row a sync has written holds every change up to its lastSyncedAt, because
\* checkedAt is taken before WHM is asked.
THEOREM NoOlderThanStamped == Spec => []FreshAsStamped
<1>1. IInv => FreshAsStamped
  BY DEF IInv
<1> QED
  BY <1>1, Invariant, PTL

\* What a check or sync still under way writes leaves a deleted server's row
\* alone.
THEOREM DeletedLeftAlone == Spec => DeletedServerUntouched
<1>1. [Next]_vars => [~live => ~live' /\ UNCHANGED <<status, checked>>]_vars
  <2> SUFFICES ASSUME Next, ~live PROVE ~live' /\ UNCHANGED <<status, checked>>
    OBVIOUS
  <2>1. ASSUME NEW h \in Handler,
               Start(h) \/ Work(h) \/ Call(h) \/ StatementFails(h) \/ Crash(h)
        PROVE  ~live' /\ UNCHANGED <<status, checked>>
    <3>1. UNCHANGED serverVars \/ \E s \in {"ACTIVE", "UNREACHABLE"} : SetStatus(h, s)
      BY <2>1 DEF Start, Work, Call, StatementFails, Crash, FindAccount, FindServer,
         FindToken, DecryptFails, Receive, FindByUser, Upsert, MarkUsed, RecordStatus, Audit,
         AnswerList, AnswerSummary, AnswerVersion, CallFails
    <3> QED
      BY <3>1 DEF serverVars, SetStatus
  <2> QED
    BY <2>1 DEF Next, Change, Terminate, DeleteServer, RevokeToken, serverVars
<1> QED
  BY <1>1, PTL DEF Spec, DeletedServerUntouched
==============================================================================
