---------------------------- MODULE RegistryProofs ---------------------------
(***************************************************************************)
(* What the two tables promise whatever the number of rows, names and      *)
(* requests in progress, and however their statements interleave.          *)
(*                                                                         *)
(* The look-ups that precede an insert or a rename play no part in the     *)
(* proofs: what they saw may be out of date.  What carries them is         *)
(* Indexed, the unique indexes over all rows, the deleted ones included,   *)
(* and, for the audit rows, Paced: what a request has done by the time it  *)
(* is at a statement.                                                      *)
(***************************************************************************)
EXTENDS Registry, TLAPS

\* A request has the fields its operation calls for.
Shaped(r) ==
  /\ r.op \in {"server.create", "server.update", "server.delete",
                "token.create", "token.update", "token.delete"}
  /\ r.op = "server.create" => r.name \in Name
  /\ r.op = "server.update" => r.server \in ServerId /\ r.name \in Name \cup {Keep}
  /\ r.op = "server.delete" => r.server \in ServerId
  /\ r.op = "token.create" => r.server \in ServerId /\ r.label \in Label
  /\ r.op = "token.update" => /\ r.token \in TokenId /\ r.label \in Label \cup {Keep}
                              /\ r.active \in BOOLEAN \cup {Keep}
  /\ r.op = "token.delete" => r.token \in TokenId

\* A handler at a statement serves an operation that has this statement.
Placed ==
  \A h \in Handler :
    /\ next[h] # "none" => Shaped(req[h])
    /\ next[h] = "findByName" =>
         \/ req[h].op = "server.create"
         \/ req[h].op = "server.update" /\ req[h].name # Keep
    /\ next[h] = "insertServer" => req[h].op = "server.create"
    /\ next[h] \in {"updateServer", "rereadServer", "countTokens"} =>
         req[h].op = "server.update"
    /\ next[h] = "deleteServer" => req[h].op = "server.delete"
    /\ next[h] \in {"findServer", "findByLabel", "insertToken"} =>
         req[h].op = "token.create"
    /\ next[h] \in {"findToken", "updateToken", "rereadToken"} =>
         req[h].op = "token.update"
    /\ next[h] = "deleteToken" => req[h].op = "token.delete"

\* The unique indexes hold for every row there is.
Indexed ==
  /\ \A s1, s2 \in ServerId :
       sState[s1] # "free" /\ sState[s2] # "free" /\ sName[s1] = sName[s2] => s1 = s2
  /\ \A t1, t2 \in TokenId :
       tState[t1] # "free" /\ tState[t2] # "free" /\ tKey[t1] = tKey[t2] => t1 = t2

\* Before its write a request has neither written nor logged, after it it has
\* written, after the audit it has logged; it replies when it is over.
Paced ==
  \A h \in Handler :
    /\ next[h] # "none" => reply[h] = "none"
    /\ next[h] \in {"rereadServer", "rereadToken", "audit"} => wrote[h] /\ ~logged[h]
    /\ next[h] = "countTokens" => wrote[h] /\ logged[h]
    /\ next[h] \notin {"none", "rereadServer", "rereadToken", "audit", "countTokens"} =>
         ~wrote[h] /\ ~logged[h]

IInv ==
  /\ RegistryTypeOK /\ Placed /\ Indexed
  /\ DeletedTokensInactive /\ Paced /\ AuditTruthful

LEMMA RequestShape ==
  ASSUME NEW r \in Requests
  PROVE  Shaped(r)
BY DEF Requests, AllRequests, Shaped

LEMMA Initial == Init => IInv
<1> SUFFICES ASSUME Init PROVE IInv
  OBVIOUS
<1>1. (CHOOSE n \in Name : TRUE) \in Name
  BY NamesAssumption
<1>2. (CHOOSE k \in TokenKey : TRUE) \in TokenKey
  <2>1. PICK s \in ServerId, l \in Label : TRUE
    BY NamesAssumption
  <2>2. <<s, l>> \in TokenKey
    BY <2>1 DEF TokenKey
  <2> QED
    BY <2>2
<1> QED
  BY <1>1, <1>2 DEF Init, IInv, RegistryTypeOK, RowState, Statements, Placed, Indexed,
    DeletedTokensInactive, Paced, AuditTruthful

LEMMA Inductive == IInv /\ [Next]_vars => IInv'
<1> SUFFICES ASSUME IInv, [Next]_vars
             PROVE  IInv'
  OBVIOUS
<1> USE DEF IInv, RegistryTypeOK, RowState, Statements, rowVars
<1>1. ASSUME NEW h \in Handler, NEW r \in Requests, Begin(h, r)
      PROVE  IInv'
  <2> USE RequestShape
  <2>1. RegistryTypeOK'
    BY <1>1 DEF Begin, FirstStatement, Placed, Shaped, NoRequest
  <2>2. Placed'
    BY <1>1 DEF Begin, FirstStatement, Placed, Shaped
  <2>3. Indexed'
    BY <1>1 DEF Begin, FirstStatement, Indexed, Placed, Shaped
  <2>4. DeletedTokensInactive'
    BY <1>1 DEF Begin, FirstStatement, DeletedTokensInactive, Placed, Shaped
  <2>5. Paced'
    <3>1. FirstStatement(r) \in {"findByName", "updateServer", "deleteServer",
                                 "findServer", "findToken", "deleteToken"}
      BY DEF FirstStatement, Shaped
    <3> QED
      BY <1>1, <3>1 DEF Begin, Paced
  <2>6. AuditTruthful'
    BY <1>1 DEF Begin, FirstStatement, Paced, AuditTruthful
  <2> QED
    BY <2>1, <2>2, <2>3, <2>4, <2>5, <2>6
<1>2. ASSUME NEW h \in Handler, FindByName(h)
      PROVE  IInv'
  <2>1. RegistryTypeOK'
    BY <1>2 DEF FindByName, Goto, Finish, Placed, Shaped, NoRequest
  <2>2. Placed'
    BY <1>2 DEF FindByName, Goto, Finish, Placed, Shaped
  <2>3. Indexed'
    BY <1>2 DEF FindByName, Goto, Finish, Indexed, Placed, Shaped
  <2>4. DeletedTokensInactive'
    BY <1>2 DEF FindByName, Goto, Finish, DeletedTokensInactive, Placed, Shaped
  <2>5. Paced'
    BY <1>2 DEF FindByName, Goto, Finish, Paced
  <2>6. AuditTruthful'
    BY <1>2 DEF FindByName, Goto, Finish, Paced, AuditTruthful
  <2> QED
    BY <2>1, <2>2, <2>3, <2>4, <2>5, <2>6
<1>3. ASSUME NEW h \in Handler, InsertServer(h)
      PROVE  IInv'
  <2>1. RegistryTypeOK'
    <3>1. sState' \in [ServerId -> RowState] /\ sName' \in [ServerId -> Name]
          /\ UNCHANGED <<tState, tKey, tActive>>
      BY <1>3 DEF InsertServer, Placed, Shaped
    <3>2. /\ next' \in [Handler -> Statements \cup {"none"}]
          /\ req' \in [Handler -> Requests \cup {NoRequest}]
          /\ wrote' \in [Handler -> BOOLEAN] /\ logged' \in [Handler -> BOOLEAN]
          /\ reply' \in [Handler -> {"none", "OK", "CONFLICT", "NOT_FOUND", "INTERNAL"}]
      BY <1>3 DEF InsertServer, Wrote, Finish
    <3> QED
      BY <3>1, <3>2
  <2>2. Placed'
    BY <1>3 DEF InsertServer, Wrote, Finish, NameIndexed, Placed, Shaped
  <2>3. Indexed'
    BY <1>3 DEF InsertServer, Wrote, Finish, NameIndexed, Indexed, Placed, Shaped
  <2>4. DeletedTokensInactive'
    BY <1>3 DEF InsertServer, Wrote, Finish, NameIndexed, DeletedTokensInactive, Placed, Shaped
  <2>5. Paced'
    BY <1>3 DEF InsertServer, Wrote, Finish, NameIndexed, Paced
  <2>6. AuditTruthful'
    BY <1>3 DEF InsertServer, Wrote, Finish, NameIndexed, Paced, AuditTruthful
  <2> QED
    BY <2>1, <2>2, <2>3, <2>4, <2>5, <2>6
<1>4. ASSUME NEW h \in Handler, UpdateServer(h)
      PROVE  IInv'
  <2>1. RegistryTypeOK'
    <3>1. sState' \in [ServerId -> RowState] /\ sName' \in [ServerId -> Name]
          /\ UNCHANGED <<tState, tKey, tActive>>
      BY <1>4 DEF UpdateServer, PatchedName, Placed, Shaped
    <3>2. /\ next' \in [Handler -> Statements \cup {"none"}]
          /\ req' \in [Handler -> Requests \cup {NoRequest}]
          /\ wrote' \in [Handler -> BOOLEAN] /\ logged' \in [Handler -> BOOLEAN]
          /\ reply' \in [Handler -> {"none", "OK", "CONFLICT", "NOT_FOUND", "INTERNAL"}]
      BY <1>4 DEF UpdateServer, Wrote, Finish
    <3> QED
      BY <3>1, <3>2
  <2>2. Placed'
    BY <1>4 DEF UpdateServer, Wrote, Finish, NameIndexed, PatchedName, ServerMatches, Placed, Shaped
  <2>3. Indexed'
    BY <1>4 DEF UpdateServer, Wrote, Finish, NameIndexed, PatchedName, ServerMatches, Indexed, Placed, Shaped
  <2>4. DeletedTokensInactive'
    BY <1>4 DEF UpdateServer, Wrote, Finish, NameIndexed, PatchedName, ServerMatches, DeletedTokensInactive, Placed, Shaped
  <2>5. Paced'
    BY <1>4 DEF UpdateServer, Wrote, Finish, NameIndexed, PatchedName, ServerMatches, Paced
  <2>6. AuditTruthful'
    BY <1>4 DEF UpdateServer, Wrote, Finish, NameIndexed, PatchedName, ServerMatches, Paced, AuditTruthful
  <2> QED
    BY <2>1, <2>2, <2>3, <2>4, <2>5, <2>6
<1>5. ASSUME NEW h \in Handler, RereadServer(h)
      PROVE  IInv'
  <2>1. RegistryTypeOK'
    BY <1>5 DEF RereadServer, Goto, Finish, Placed, Shaped, NoRequest
  <2>2. Placed'
    BY <1>5 DEF RereadServer, Goto, Finish, Placed, Shaped
  <2>3. Indexed'
    BY <1>5 DEF RereadServer, Goto, Finish, Indexed, Placed, Shaped
  <2>4. DeletedTokensInactive'
    BY <1>5 DEF RereadServer, Goto, Finish, DeletedTokensInactive, Placed, Shaped
  <2>5. Paced'
    BY <1>5 DEF RereadServer, Goto, Finish, Paced
  <2>6. AuditTruthful'
    BY <1>5 DEF RereadServer, Goto, Finish, Paced, AuditTruthful
  <2> QED
    BY <2>1, <2>2, <2>3, <2>4, <2>5, <2>6
<1>6. ASSUME NEW h \in Handler, DeleteServer(h)
      PROVE  IInv'
  <2>1. RegistryTypeOK'
    BY <1>6 DEF DeleteServer, AfterDelete, Wrote, Finish, ServerMatches, Placed, Shaped, NoRequest
  <2>2. Placed'
    BY <1>6 DEF DeleteServer, AfterDelete, Wrote, Finish, ServerMatches, Placed, Shaped
  <2>3. Indexed'
    BY <1>6 DEF DeleteServer, AfterDelete, Wrote, Finish, ServerMatches, Indexed, Placed, Shaped
  <2>4. DeletedTokensInactive'
    BY <1>6 DEF DeleteServer, AfterDelete, Wrote, Finish, ServerMatches, DeletedTokensInactive, Placed, Shaped
  <2>5. Paced'
    BY <1>6 DEF DeleteServer, AfterDelete, Wrote, Finish, ServerMatches, Paced
  <2>6. AuditTruthful'
    BY <1>6 DEF DeleteServer, AfterDelete, Wrote, Finish, ServerMatches, Paced, AuditTruthful
  <2> QED
    BY <2>1, <2>2, <2>3, <2>4, <2>5, <2>6
<1>7. ASSUME NEW h \in Handler, FindServer(h)
      PROVE  IInv'
  <2>1. RegistryTypeOK'
    BY <1>7 DEF FindServer, Goto, Finish, Placed, Shaped, NoRequest
  <2>2. Placed'
    BY <1>7 DEF FindServer, Goto, Finish, Placed, Shaped
  <2>3. Indexed'
    BY <1>7 DEF FindServer, Goto, Finish, Indexed, Placed, Shaped
  <2>4. DeletedTokensInactive'
    BY <1>7 DEF FindServer, Goto, Finish, DeletedTokensInactive, Placed, Shaped
  <2>5. Paced'
    BY <1>7 DEF FindServer, Goto, Finish, Paced
  <2>6. AuditTruthful'
    BY <1>7 DEF FindServer, Goto, Finish, Paced, AuditTruthful
  <2> QED
    BY <2>1, <2>2, <2>3, <2>4, <2>5, <2>6
<1>8. ASSUME NEW h \in Handler, FindByLabel(h)
      PROVE  IInv'
  <2>1. RegistryTypeOK'
    BY <1>8 DEF FindByLabel, Goto, Finish, Placed, Shaped, NoRequest
  <2>2. Placed'
    BY <1>8 DEF FindByLabel, Goto, Finish, Placed, Shaped
  <2>3. Indexed'
    BY <1>8 DEF FindByLabel, Goto, Finish, Indexed, Placed, Shaped
  <2>4. DeletedTokensInactive'
    BY <1>8 DEF FindByLabel, Goto, Finish, DeletedTokensInactive, Placed, Shaped
  <2>5. Paced'
    BY <1>8 DEF FindByLabel, Goto, Finish, Paced
  <2>6. AuditTruthful'
    BY <1>8 DEF FindByLabel, Goto, Finish, Paced, AuditTruthful
  <2> QED
    BY <2>1, <2>2, <2>3, <2>4, <2>5, <2>6
<1>9. ASSUME NEW h \in Handler, InsertToken(h)
      PROVE  IInv'
  <2>0. <<req[h].server, req[h].label>> \in TokenKey
    BY <1>9 DEF InsertToken, TokenKey, Placed, Shaped
  <2>1. RegistryTypeOK'
    <3>1. tState' \in [TokenId -> RowState] /\ tKey' \in [TokenId -> TokenKey]
          /\ tActive' \in [TokenId -> BOOLEAN] /\ UNCHANGED <<sState, sName>>
      BY <1>9, <2>0 DEF InsertToken, Placed
    <3>2. /\ next' \in [Handler -> Statements \cup {"none"}]
          /\ req' \in [Handler -> Requests \cup {NoRequest}]
          /\ wrote' \in [Handler -> BOOLEAN] /\ logged' \in [Handler -> BOOLEAN]
          /\ reply' \in [Handler -> {"none", "OK", "CONFLICT", "NOT_FOUND", "INTERNAL"}]
      BY <1>9 DEF InsertToken, Wrote, Finish
    <3> QED
      BY <3>1, <3>2
  <2>2. Placed'
    BY <1>9 DEF InsertToken, Wrote, Finish, KeyIndexed, TokenKey, Placed, Shaped
  <2>3. Indexed'
    <3>1. CASE UNCHANGED rowVars
      BY <3>1 DEF Indexed
    <3>2. CASE ~UNCHANGED rowVars
      <4> DEFINE k == <<req[h].server, req[h].label>>
      <4>1. PICK t \in TokenId : /\ tState[t] = "free" /\ ~KeyIndexed(k, t)
                                /\ tState' = [tState EXCEPT ![t] = "live"]
                                /\ tKey' = [tKey EXCEPT ![t] = k]
        BY <1>9, <3>2 DEF InsertToken
      <4>2. UNCHANGED <<sState, sName>>
        BY <1>9, <3>2 DEF InsertToken
      <4> HIDE DEF k
      <4> QED
        BY <4>1, <4>2 DEF KeyIndexed, Indexed
    <3> QED
      BY <3>1, <3>2
  <2>4. DeletedTokensInactive'
    BY <1>9 DEF InsertToken, Wrote, Finish, KeyIndexed, TokenKey, DeletedTokensInactive, Placed, Shaped
  <2>5. Paced'
    BY <1>9 DEF InsertToken, Wrote, Finish, KeyIndexed, TokenKey, Paced
  <2>6. AuditTruthful'
    BY <1>9 DEF InsertToken, Wrote, Finish, KeyIndexed, TokenKey, Paced, AuditTruthful
  <2> QED
    BY <2>1, <2>2, <2>3, <2>4, <2>5, <2>6
<1>10. ASSUME NEW h \in Handler, FindToken(h)
       PROVE  IInv'
  <2>1. RegistryTypeOK'
    BY <1>10 DEF FindToken, Goto, Finish, Placed, Shaped, NoRequest
  <2>2. Placed'
    BY <1>10 DEF FindToken, Goto, Finish, Placed, Shaped
  <2>3. Indexed'
    BY <1>10 DEF FindToken, Goto, Finish, Indexed, Placed, Shaped
  <2>4. DeletedTokensInactive'
    BY <1>10 DEF FindToken, Goto, Finish, DeletedTokensInactive, Placed, Shaped
  <2>5. Paced'
    BY <1>10 DEF FindToken, Goto, Finish, Paced
  <2>6. AuditTruthful'
    BY <1>10 DEF FindToken, Goto, Finish, Paced, AuditTruthful
  <2> QED
    BY <2>1, <2>2, <2>3, <2>4, <2>5, <2>6
<1>11. ASSUME NEW h \in Handler, UpdateToken(h)
       PROVE  IInv'
  <2>0. PatchedKey(h) \in TokenKey /\ PatchedActive(h) \in BOOLEAN /\ req[h].token \in TokenId
    BY <1>11 DEF UpdateToken, PatchedKey, PatchedActive, TokenKey, Placed, Shaped
  <2>1. RegistryTypeOK'
    <3>1. tState' \in [TokenId -> RowState] /\ tKey' \in [TokenId -> TokenKey]
          /\ tActive' \in [TokenId -> BOOLEAN] /\ UNCHANGED <<sState, sName>>
      BY <1>11, <2>0 DEF UpdateToken, Placed, Shaped
    <3>2. /\ next' \in [Handler -> Statements \cup {"none"}]
          /\ req' \in [Handler -> Requests \cup {NoRequest}]
          /\ wrote' \in [Handler -> BOOLEAN] /\ logged' \in [Handler -> BOOLEAN]
          /\ reply' \in [Handler -> {"none", "OK", "CONFLICT", "NOT_FOUND", "INTERNAL"}]
      BY <1>11 DEF UpdateToken, Wrote, Finish
    <3> QED
      BY <3>1, <3>2
  <2>2. Placed'
    BY <1>11 DEF UpdateToken, Wrote, Finish, KeyIndexed, PatchedKey, PatchedActive, TokenMatches, TokenKey, Placed, Shaped
  <2>3. Indexed'
    <3>1. CASE UNCHANGED rowVars
      BY <3>1 DEF Indexed
    <3>2. CASE ~UNCHANGED rowVars
      <4>1. /\ tState[req[h].token] = "live"
            /\ ~KeyIndexed(PatchedKey(h), req[h].token)
            /\ tKey' = [tKey EXCEPT ![req[h].token] = PatchedKey(h)]
            /\ UNCHANGED <<sState, sName, tState>>
        BY <1>11, <3>2 DEF UpdateToken, TokenMatches
      <4> QED
        BY <2>0, <4>1 DEF KeyIndexed, Indexed
    <3> QED
      BY <3>1, <3>2
  <2>4. DeletedTokensInactive'
    BY <1>11 DEF UpdateToken, Wrote, Finish, KeyIndexed, PatchedKey, PatchedActive, TokenMatches, TokenKey, DeletedTokensInactive, Placed, Shaped
  <2>5. Paced'
    BY <1>11 DEF UpdateToken, Wrote, Finish, KeyIndexed, PatchedKey, PatchedActive, TokenMatches, TokenKey, Paced
  <2>6. AuditTruthful'
    BY <1>11 DEF UpdateToken, Wrote, Finish, KeyIndexed, PatchedKey, PatchedActive, TokenMatches, TokenKey, Paced, AuditTruthful
  <2> QED
    BY <2>1, <2>2, <2>3, <2>4, <2>5, <2>6
<1>12. ASSUME NEW h \in Handler, RereadToken(h)
       PROVE  IInv'
  <2>1. RegistryTypeOK'
    BY <1>12 DEF RereadToken, Goto, Finish, Placed, Shaped, NoRequest
  <2>2. Placed'
    BY <1>12 DEF RereadToken, Goto, Finish, Placed, Shaped
  <2>3. Indexed'
    BY <1>12 DEF RereadToken, Goto, Finish, Indexed, Placed, Shaped
  <2>4. DeletedTokensInactive'
    BY <1>12 DEF RereadToken, Goto, Finish, DeletedTokensInactive, Placed, Shaped
  <2>5. Paced'
    BY <1>12 DEF RereadToken, Goto, Finish, Paced
  <2>6. AuditTruthful'
    BY <1>12 DEF RereadToken, Goto, Finish, Paced, AuditTruthful
  <2> QED
    BY <2>1, <2>2, <2>3, <2>4, <2>5, <2>6
<1>13. ASSUME NEW h \in Handler, DeleteToken(h)
       PROVE  IInv'
  <2>1. RegistryTypeOK'
    BY <1>13 DEF DeleteToken, AfterDelete, Wrote, Finish, TokenMatches, Placed, Shaped, NoRequest
  <2>2. Placed'
    BY <1>13 DEF DeleteToken, AfterDelete, Wrote, Finish, TokenMatches, Placed, Shaped
  <2>3. Indexed'
    BY <1>13 DEF DeleteToken, AfterDelete, Wrote, Finish, TokenMatches, Indexed, Placed, Shaped
  <2>4. DeletedTokensInactive'
    BY <1>13 DEF DeleteToken, AfterDelete, Wrote, Finish, TokenMatches, DeletedTokensInactive, Placed, Shaped
  <2>5. Paced'
    BY <1>13 DEF DeleteToken, AfterDelete, Wrote, Finish, TokenMatches, Paced
  <2>6. AuditTruthful'
    BY <1>13 DEF DeleteToken, AfterDelete, Wrote, Finish, TokenMatches, Paced, AuditTruthful
  <2> QED
    BY <2>1, <2>2, <2>3, <2>4, <2>5, <2>6
<1>14. ASSUME NEW h \in Handler, Audit(h)
       PROVE  IInv'
  <2>1. RegistryTypeOK'
    BY <1>14 DEF Audit, Placed, Shaped, NoRequest
  <2>2. Placed'
    BY <1>14 DEF Audit, Placed, Shaped
  <2>3. Indexed'
    BY <1>14 DEF Audit, Indexed, Placed, Shaped
  <2>4. DeletedTokensInactive'
    BY <1>14 DEF Audit, DeletedTokensInactive, Placed, Shaped
  <2>5. Paced'
    BY <1>14 DEF Audit, Paced
  <2>6. AuditTruthful'
    BY <1>14 DEF Audit, Paced, AuditTruthful
  <2> QED
    BY <2>1, <2>2, <2>3, <2>4, <2>5, <2>6
<1>15. ASSUME NEW h \in Handler, CountTokens(h)
       PROVE  IInv'
  <2>1. RegistryTypeOK'
    BY <1>15 DEF CountTokens, Finish, Placed, Shaped, NoRequest
  <2>2. Placed'
    BY <1>15 DEF CountTokens, Finish, Placed, Shaped
  <2>3. Indexed'
    BY <1>15 DEF CountTokens, Finish, Indexed, Placed, Shaped
  <2>4. DeletedTokensInactive'
    BY <1>15 DEF CountTokens, Finish, DeletedTokensInactive, Placed, Shaped
  <2>5. Paced'
    BY <1>15 DEF CountTokens, Finish, Paced
  <2>6. AuditTruthful'
    BY <1>15 DEF CountTokens, Finish, Paced, AuditTruthful
  <2> QED
    BY <2>1, <2>2, <2>3, <2>4, <2>5, <2>6
<1>16. ASSUME NEW h \in Handler, Fail(h)
       PROVE  IInv'
  <2>1. RegistryTypeOK'
    BY <1>16 DEF Fail, Finish, Placed, Shaped, NoRequest
  <2>2. Placed'
    BY <1>16 DEF Fail, Finish, Placed, Shaped
  <2>3. Indexed'
    BY <1>16 DEF Fail, Finish, Indexed, Placed, Shaped
  <2>4. DeletedTokensInactive'
    BY <1>16 DEF Fail, Finish, DeletedTokensInactive, Placed, Shaped
  <2>5. Paced'
    BY <1>16 DEF Fail, Finish, Paced
  <2>6. AuditTruthful'
    BY <1>16 DEF Fail, Finish, Paced, AuditTruthful
  <2> QED
    BY <2>1, <2>2, <2>3, <2>4, <2>5, <2>6
<1>17. CASE UNCHANGED vars
  BY <1>17 DEF vars, Placed, Shaped, Indexed, DeletedTokensInactive, Paced, AuditTruthful
<1> QED
  BY <1>1, <1>2, <1>3, <1>4, <1>5, <1>6, <1>7, <1>8, <1>9, <1>10, <1>11, <1>12, <1>13, <1>14, <1>15, <1>16, <1>17
  DEF Next, Statement

LEMMA Invariant == Spec => []IInv
<1> QED
  BY Initial, Inductive, PTL DEF Spec

\* The columns of both tables and the state of every request keep their types.
THEOREM RegistryTypeCorrect == Spec => []RegistryTypeOK
<1>1. IInv => RegistryTypeOK
  BY DEF IInv
<1> QED
  BY <1>1, Invariant, PTL

\* Live servers have different names, live tokens of a server different labels.
THEOREM NamesStayUnique == Spec => []LiveNamesUnique
<1>1. IInv => LiveNamesUnique
  BY DEF IInv, Indexed, LiveNamesUnique
<1> QED
  BY <1>1, Invariant, PTL

\* A deleted token is never active again.
THEOREM TokensStayDead == Spec => []DeletedTokensInactive
<1>1. IInv => DeletedTokensInactive
  BY DEF IInv
<1> QED
  BY <1>1, Invariant, PTL

\* No audit row without a change, no success without an audit row.
THEOREM AuditIsTruthful == Spec => []AuditTruthful
<1>1. IInv => AuditTruthful
  BY DEF IInv
<1> QED
  BY <1>1, Invariant, PTL

(***************************************************************************)
(* The tables as directories.                                              *)
(***************************************************************************)
ServerStep ==
  \/ UNCHANGED <<sState, sName>>
  \/ \E s \in ServerId :
       \/ ServerDirectory!Remove(s)
       \/ \E n \in Name : ServerDirectory!Add(s, n) \/ ServerDirectory!Rename(s, n)

TokenStep ==
  \/ UNCHANGED <<tState, tKey, tActive>>
  \/ \E t \in TokenId :
       /\ tState[t] # "deleted"
       /\ \A u \in TokenId \ {t} : tActive'[u] = tActive[u]
       /\ \/ TokenDirectory!Remove(t)
          \/ \E k \in TokenKey : TokenDirectory!Add(t, k) \/ TokenDirectory!Rename(t, k)

\* Every statement changes one row at most, and as a directory may change it.
LEMMA OneRowAtATime == IInv /\ [Next]_vars => ServerStep /\ TokenStep
<1> SUFFICES ASSUME IInv, [Next]_vars
             PROVE  ServerStep /\ TokenStep
  OBVIOUS
<1> USE DEF IInv, RegistryTypeOK, ServerStep, TokenStep
<1>1. CASE UNCHANGED rowVars
  BY <1>1 DEF rowVars
<1>2. ASSUME NEW h \in Handler, InsertServer(h), ~UNCHANGED rowVars
      PROVE  ServerStep /\ TokenStep
  <2>1. UNCHANGED <<tState, tKey, tActive>> /\ req[h].name \in Name
    BY <1>2 DEF InsertServer, Placed, Shaped
  <2>2. PICK s \in ServerId : /\ sState[s] = "free" /\ ~NameIndexed(req[h].name, s)
                              /\ sState' = [sState EXCEPT ![s] = "live"]
                              /\ sName' = [sName EXCEPT ![s] = req[h].name]
    BY <1>2 DEF InsertServer
  <2>3. ServerDirectory!Add(s, req[h].name)
    BY <2>2 DEF ServerDirectory!Add, ServerDirectory!NotInUse, NameIndexed
  <2> QED
    BY <2>1, <2>3
<1>3. ASSUME NEW h \in Handler, UpdateServer(h), ~UNCHANGED rowVars
      PROVE  ServerStep /\ TokenStep
  <2> DEFINE s == req[h].server
  <2>1. UNCHANGED <<tState, tKey, tActive>> /\ s \in ServerId /\ PatchedName(h) \in Name
    BY <1>3 DEF UpdateServer, PatchedName, Placed, Shaped
  <2>2. ServerDirectory!Rename(s, PatchedName(h))
    BY <1>3 DEF UpdateServer, ServerMatches, ServerDirectory!Rename,
      ServerDirectory!NotInUse, NameIndexed
  <2> QED
    BY <2>1, <2>2
<1>4. ASSUME NEW h \in Handler, DeleteServer(h), ~UNCHANGED rowVars
      PROVE  ServerStep /\ TokenStep
  <2>1. UNCHANGED <<tState, tKey, tActive>> /\ req[h].server \in ServerId
    BY <1>4 DEF DeleteServer, Placed, Shaped
  <2>2. ServerDirectory!Remove(req[h].server)
    BY <1>4 DEF DeleteServer, ServerMatches, rowVars, ServerDirectory!Remove
  <2> QED
    BY <2>1, <2>2
<1>5. ASSUME NEW h \in Handler, InsertToken(h), ~UNCHANGED rowVars
      PROVE  ServerStep /\ TokenStep
  <2> DEFINE k == <<req[h].server, req[h].label>>
  <2>1. UNCHANGED <<sState, sName>>
    BY <1>5 DEF InsertToken
  <2>2. k \in TokenKey
    BY <1>5 DEF InsertToken, TokenKey, Placed, Shaped
  <2>3. PICK t \in TokenId : /\ tState[t] = "free" /\ ~KeyIndexed(k, t)
                             /\ tState' = [tState EXCEPT ![t] = "live"]
                             /\ tKey' = [tKey EXCEPT ![t] = k]
                             /\ tActive' = [tActive EXCEPT ![t] = TRUE]
    BY <1>5 DEF InsertToken
  <2> HIDE DEF k
  <2>4. TokenDirectory!Add(t, k)
    BY <2>3 DEF TokenDirectory!Add, TokenDirectory!NotInUse, KeyIndexed
  <2> QED
    BY <2>1, <2>2, <2>3, <2>4
<1>6. ASSUME NEW h \in Handler, UpdateToken(h), ~UNCHANGED rowVars
      PROVE  ServerStep /\ TokenStep
  <2> DEFINE t == req[h].token
  <2>1. UNCHANGED <<sState, sName>> /\ t \in TokenId
    BY <1>6 DEF UpdateToken, Placed, Shaped
  <2>2. PatchedKey(h) \in TokenKey
    BY <1>6 DEF UpdateToken, PatchedKey, TokenKey, Placed, Shaped
  <2>3. /\ tState[t] = "live" /\ ~KeyIndexed(PatchedKey(h), t)
        /\ tKey' = [tKey EXCEPT ![t] = PatchedKey(h)]
        /\ tActive' = [tActive EXCEPT ![t] = PatchedActive(h)]
        /\ UNCHANGED tState
    BY <1>6 DEF UpdateToken, TokenMatches
  <2>4. TokenDirectory!Rename(t, PatchedKey(h))
    BY <2>3 DEF TokenDirectory!Rename, TokenDirectory!NotInUse, KeyIndexed
  <2> QED
    BY <2>1, <2>2, <2>3, <2>4
<1>7. ASSUME NEW h \in Handler, DeleteToken(h), ~UNCHANGED rowVars
      PROVE  ServerStep /\ TokenStep
  <2> DEFINE t == req[h].token
  <2>1. UNCHANGED <<sState, sName, tKey>> /\ t \in TokenId
    BY <1>7 DEF DeleteToken, Placed, Shaped
  <2>2. /\ tState[t] = "live"
        /\ tState' = [tState EXCEPT ![t] = "deleted"]
        /\ tActive' = [tActive EXCEPT ![t] = FALSE]
    BY <1>7 DEF DeleteToken, TokenMatches, rowVars
  <2>3. TokenDirectory!Remove(t)
    BY <2>1, <2>2 DEF TokenDirectory!Remove
  <2> QED
    BY <2>1, <2>2, <2>3
<1> QED
  BY <1>1, <1>2, <1>3, <1>4, <1>5, <1>6, <1>7
  DEF Next, Statement, Begin, FindByName, RereadServer, FindServer, FindByLabel, FindToken,
    RereadToken, Audit, CountTokens, Fail, vars, rowVars

\* A request that found a row live cannot change it once it is deleted.
THEOREM RowsFrozen == Spec => DeletedRowsFrozen
<1>1. IInv /\ [Next]_vars =>
        [/\ \A s \in ServerId : sState[s] = "deleted" =>
              sState'[s] = "deleted" /\ sName'[s] = sName[s]
         /\ \A t \in TokenId : tState[t] = "deleted" =>
              tState'[t] = "deleted" /\ tKey'[t] = tKey[t] /\ tActive'[t] = tActive[t]]_vars
  BY OneRowAtATime
  DEF IInv, RegistryTypeOK, ServerStep, TokenStep, ServerDirectory!Add,
    ServerDirectory!Rename, ServerDirectory!Remove, TokenDirectory!Add,
    TokenDirectory!Rename, TokenDirectory!Remove
<1> QED
  BY <1>1, Invariant, PTL DEF Spec, DeletedRowsFrozen

\* Requests that interleave at every statement change the tables as if each of
\* them did it in one step.
THEOREM RegistryImplements == Spec => ImplementsDirectories
<1>1. Init => ServerDirectory!Init /\ TokenDirectory!Init
  BY DEF Init, ServerDirectory!Init, TokenDirectory!Init
<1>2. IInv /\ [Next]_vars =>
        /\ [ServerDirectory!Next]_<<sState, sName>>
        /\ [TokenDirectory!Next]_<<tState, tKey>>
  BY OneRowAtATime
  DEF ServerStep, TokenStep, ServerDirectory!Next, TokenDirectory!Next
<1> QED
  BY <1>1, <1>2, Invariant, PTL
  DEF Spec, ImplementsDirectories, ServerDirectory!Spec, TokenDirectory!Spec,
    ServerDirectory!dirVars, TokenDirectory!dirVars
==============================================================================
