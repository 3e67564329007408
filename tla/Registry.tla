------------------------------ MODULE Registry -------------------------------
(***************************************************************************)
(* Server connections and their API tokens: servers.service.ts (create,    *)
(* update, remove), tokens.service.ts (create, update, remove) and the two *)
(* repositories, for one tenant; every query names the tenant, so tenants  *)
(* share nothing here.                                                     *)
(*                                                                         *)
(* A request handler awaits each of its database statements, and the       *)
(* statements of several handlers, of one process or of several,           *)
(* interleave.  A step of this module is one statement together with the   *)
(* code up to the next await.  Nothing runs in a transaction: what a       *)
(* handler has read may be out of date when it writes.                     *)
(*                                                                         *)
(* Deletes are soft: the row stays, and the unique indexes of the schema   *)
(* (tenantId, name) and (tenantId, serverId, label) go on counting it,     *)
(* whereas the repositories read rows with deletedAt null only.            *)
(***************************************************************************)
EXTENDS Naturals, FiniteSets

CONSTANTS
  Handler,   \* requests in progress at a time
  ServerId,  \* ids the database can give to server rows
  TokenId,   \* ids the database can give to token rows
  Name,      \* server names
  Label,     \* token labels
  Keep,      \* stands for a field the request body leaves out
  Ops,       \* the operations asked for: all of them in the program
  Faults     \* may statements fail, or the process die?

ASSUME KeepAssumption == Keep \notin Name /\ Keep \notin Label
ASSUME NamesAssumption == Name # {} /\ Label # {} /\ ServerId # {}
ASSUME FaultsAssumption == Faults \in BOOLEAN

VARIABLES
  sState,   \* server row: "free", "live" or "deleted" (deletedAt set)
  sName,    \* server row: name
  tState,   \* token row: "free", "live" or "deleted"
  tKey,     \* token row: <<serverId, label>>
  tActive,  \* token row: isActive
  next,     \* handler -> the statement it executes next
  req,      \* handler -> the request it serves
  wrote,    \* handler -> its request has changed a row
  logged,   \* handler -> its request has a SUCCESS audit row
  reply     \* handler -> outcome of its last request

rowVars == <<sState, sName, tState, tKey, tActive>>
vars == <<sState, sName, tState, tKey, tActive, next, req, wrote, logged, reply>>

RowState == {"free", "live", "deleted"}
TokenKey == ServerId \X Label

AllRequests ==
       [op : {"server.create"}, name : Name]
  \cup [op : {"server.update"}, server : ServerId, name : Name \cup {Keep}]
  \cup [op : {"server.delete"}, server : ServerId]
  \cup [op : {"token.create"}, server : ServerId, label : Label]
  \cup [op : {"token.update"}, token : TokenId, label : Label \cup {Keep},
        active : BOOLEAN \cup {Keep}]
  \cup [op : {"token.delete"}, token : TokenId]

Requests == {r \in AllRequests : r.op \in Ops}

Statements == {"findServer", "findByName", "findByLabel", "findToken",
               "insertServer", "updateServer", "rereadServer", "deleteServer",
               "insertToken", "updateToken", "rereadToken", "deleteToken", "audit",
               "countTokens"}

NoRequest == [op |-> "none"]

RegistryTypeOK ==
  /\ sState \in [ServerId -> RowState]
  /\ sName \in [ServerId -> Name]
  /\ tState \in [TokenId -> RowState]
  /\ tKey \in [TokenId -> TokenKey]
  /\ tActive \in [TokenId -> BOOLEAN]
  /\ next \in [Handler -> Statements \cup {"none"}]
  /\ req \in [Handler -> Requests \cup {NoRequest}]
  /\ wrote \in [Handler -> BOOLEAN]
  /\ logged \in [Handler -> BOOLEAN]
  /\ reply \in [Handler -> {"none", "OK", "CONFLICT", "NOT_FOUND", "INTERNAL"}]

\* The columns of a row that does not exist yet have no meaning.
Init ==
  /\ sState = [s \in ServerId |-> "free"]
  /\ sName = [s \in ServerId |-> CHOOSE n \in Name : TRUE]
  /\ tState = [t \in TokenId |-> "free"]
  /\ tKey = [t \in TokenId |-> CHOOSE k \in TokenKey : TRUE]
  /\ tActive = [t \in TokenId |-> FALSE]
  /\ next = [h \in Handler |-> "none"]
  /\ req = [h \in Handler |-> NoRequest]
  /\ wrote = [h \in Handler |-> FALSE]
  /\ logged = [h \in Handler |-> FALSE]
  /\ reply = [h \in Handler |-> "none"]

(***************************************************************************)
(* Faulty variants, for the mutation runs.                                 *)
(***************************************************************************)
\* `deletedAt: null' is left out of the where clauses.
AnyServer(s) == sState[s] # "free"
AnyToken(t) == tState[t] # "free"

\* No unique index: the look-ups are relied upon.
NoNameIndex(n, s) == FALSE
NoKeyIndex(k, t) == FALSE

\* The patch has the field even when the body leaves it out.
NameFromBody(h) == req[h].name

\* The handler does not look at the result of softDelete.
AfterDeleteUnchecked(h, deleted) ==
  /\ next' = [next EXCEPT ![h] = "audit"]
  /\ wrote' = [wrote EXCEPT ![h] = deleted]
  /\ UNCHANGED <<req, logged, reply>>

(***************************************************************************)
(* Rows.                                                                   *)
(***************************************************************************)
\* What `where: { id, tenantId, deletedAt: null }' matches.
ServerMatches(s) == sState[s] = "live"
TokenMatches(t) == tState[t] = "live"

LiveNamed(n) == {s \in ServerId : ServerMatches(s) /\ sName[s] = n}
LiveKeyed(k) == {t \in TokenId : TokenMatches(t) /\ tKey[t] = k}

\* What the unique indexes refuse: they count deleted rows as well.
NameIndexed(n, s) == \E o \in ServerId \ {s} : sState[o] # "free" /\ sName[o] = n
KeyIndexed(k, t) == \E o \in TokenId \ {t} : tState[o] # "free" /\ tKey[o] = k

\* The columns an update sets: those the body leaves out stay as they are.
PatchedName(h) == IF req[h].name = Keep THEN sName[req[h].server] ELSE req[h].name
PatchedKey(h) ==
  LET t == req[h].token
  IN IF req[h].label = Keep THEN tKey[t] ELSE <<tKey[t][1], req[h].label>>
PatchedActive(h) ==
  IF req[h].active = Keep THEN tActive[req[h].token] ELSE req[h].active

Goto(h, statement) ==
  /\ next' = [next EXCEPT ![h] = statement]
  /\ UNCHANGED <<req, wrote, logged, reply>>

Wrote(h, statement) ==
  /\ next' = [next EXCEPT ![h] = statement]
  /\ wrote' = [wrote EXCEPT ![h] = TRUE]
  /\ UNCHANGED <<req, logged, reply>>

\* The request is over; its handler is free for another one.
Finish(h, outcome) ==
  /\ next' = [next EXCEPT ![h] = "none"]
  /\ req' = [req EXCEPT ![h] = NoRequest]
  /\ reply' = [reply EXCEPT ![h] = outcome]
  /\ UNCHANGED <<wrote, logged>>

\* softDelete reports whether a row matched.
AfterDelete(h, deleted) == IF deleted THEN Wrote(h, "audit") ELSE Finish(h, "NOT_FOUND")

FirstStatement(r) ==
  CASE r.op = "server.create" -> "findByName"
    [] r.op = "server.update" -> IF r.name = Keep THEN "updateServer" ELSE "findByName"
    [] r.op = "server.delete" -> "deleteServer"
    [] r.op = "token.create"  -> "findServer"
    [] r.op = "token.update"  -> "findToken"
    [] r.op = "token.delete"  -> "deleteToken"

(***************************************************************************)
(* Requests.                                                               *)
(***************************************************************************)
\* Bound: an insert is only asked for when an id is left to give it.
RoomFor(r) ==
  LET asking == {h \in Handler : req[h].op = r.op}
  IN /\ r.op = "server.create" =>
          Cardinality(asking) < Cardinality({s \in ServerId : sState[s] = "free"})
     /\ r.op = "token.create" =>
          Cardinality(asking) < Cardinality({t \in TokenId : tState[t] = "free"})

Begin(h, r) ==
  /\ next[h] = "none"
  /\ RoomFor(r)
  /\ req' = [req EXCEPT ![h] = r]
  /\ next' = [next EXCEPT ![h] = FirstStatement(r)]
  /\ wrote' = [wrote EXCEPT ![h] = FALSE]
  /\ logged' = [logged EXCEPT ![h] = FALSE]
  /\ reply' = [reply EXCEPT ![h] = "none"]
  /\ UNCHANGED rowVars

\* create and update: another live server has the name?
FindByName(h) ==
  /\ next[h] = "findByName"
  /\ IF req[h].op = "server.create"
     THEN IF LiveNamed(req[h].name) # {} THEN Finish(h, "CONFLICT")
                                         ELSE Goto(h, "insertServer")
     ELSE IF LiveNamed(req[h].name) \ {req[h].server} # {} THEN Finish(h, "CONFLICT")
                                                           ELSE Goto(h, "updateServer")
  /\ UNCHANGED rowVars

\* An insert that breaks the index fails; the error reaches the client as a
\* generic internal error.
InsertServer(h) ==
  /\ next[h] = "insertServer"
  /\ \E s \in ServerId :
       /\ sState[s] = "free"
       /\ IF NameIndexed(req[h].name, s)
          THEN Finish(h, "INTERNAL") /\ UNCHANGED rowVars
          ELSE /\ sState' = [sState EXCEPT ![s] = "live"]
               /\ sName' = [sName EXCEPT ![s] = req[h].name]
               /\ Wrote(h, "audit")
               /\ UNCHANGED <<tState, tKey, tActive>>

UpdateServer(h) ==
  /\ next[h] = "updateServer"
  /\ LET s == req[h].server
         n == PatchedName(h)
     IN IF ~ServerMatches(s)
        THEN Finish(h, "NOT_FOUND") /\ UNCHANGED rowVars
        ELSE IF NameIndexed(n, s)
        THEN Finish(h, "INTERNAL") /\ UNCHANGED rowVars
        ELSE /\ sName' = [sName EXCEPT ![s] = n]
             /\ Wrote(h, "rereadServer")
             /\ UNCHANGED <<sState, tState, tKey, tActive>>

\* update() of the repository ends with findById: a row deleted meanwhile
\* counts as not found, although it has been changed.
RereadServer(h) ==
  /\ next[h] = "rereadServer"
  /\ IF ServerMatches(req[h].server) THEN Goto(h, "audit") ELSE Finish(h, "NOT_FOUND")
  /\ UNCHANGED rowVars

\* The server's tokens and accounts are left alone.
DeleteServer(h) ==
  /\ next[h] = "deleteServer"
  /\ LET s == req[h].server
     IN /\ sState' = IF ServerMatches(s) THEN [sState EXCEPT ![s] = "deleted"] ELSE sState
        /\ AfterDelete(h, ServerMatches(s))
  /\ UNCHANGED <<sName, tState, tKey, tActive>>

\* assertServerOwned.
FindServer(h) ==
  /\ next[h] = "findServer"
  /\ IF ServerMatches(req[h].server) THEN Goto(h, "findByLabel") ELSE Finish(h, "NOT_FOUND")
  /\ UNCHANGED rowVars

FindByLabel(h) ==
  /\ next[h] = "findByLabel"
  /\ IF LiveKeyed(<<req[h].server, req[h].label>>) # {}
     THEN Finish(h, "CONFLICT") ELSE Goto(h, "insertToken")
  /\ UNCHANGED rowVars

\* isActive defaults to true.
InsertToken(h) ==
  /\ next[h] = "insertToken"
  /\ LET k == <<req[h].server, req[h].label>>
     IN \E t \in TokenId :
          /\ tState[t] = "free"
          /\ IF KeyIndexed(k, t)
             THEN Finish(h, "INTERNAL") /\ UNCHANGED rowVars
             ELSE /\ tState' = [tState EXCEPT ![t] = "live"]
                  /\ tKey' = [tKey EXCEPT ![t] = k]
                  /\ tActive' = [tActive EXCEPT ![t] = TRUE]
                  /\ Wrote(h, "audit")
                  /\ UNCHANGED <<sState, sName>>

FindToken(h) ==
  /\ next[h] = "findToken"
  /\ IF TokenMatches(req[h].token) THEN Goto(h, "updateToken") ELSE Finish(h, "NOT_FOUND")
  /\ UNCHANGED rowVars

\* No look-up of the new label comes first; the server is not consulted.
UpdateToken(h) ==
  /\ next[h] = "updateToken"
  /\ LET t == req[h].token
         k == PatchedKey(h)
     IN IF ~TokenMatches(t)
        THEN Finish(h, "NOT_FOUND") /\ UNCHANGED rowVars
        ELSE IF KeyIndexed(k, t)
        THEN Finish(h, "INTERNAL") /\ UNCHANGED rowVars
        ELSE /\ tKey' = [tKey EXCEPT ![t] = k]
             /\ tActive' = [tActive EXCEPT ![t] = PatchedActive(h)]
             /\ Wrote(h, "rereadToken")
             /\ UNCHANGED <<sState, sName, tState>>

RereadToken(h) ==
  /\ next[h] = "rereadToken"
  /\ IF TokenMatches(req[h].token) THEN Goto(h, "audit") ELSE Finish(h, "NOT_FOUND")
  /\ UNCHANGED rowVars

DeleteToken(h) ==
  /\ next[h] = "deleteToken"
  /\ LET t == req[h].token
     IN /\ IF TokenMatches(t)
           THEN /\ tState' = [tState EXCEPT ![t] = "deleted"]
                /\ tActive' = [tActive EXCEPT ![t] = FALSE]
           ELSE UNCHANGED <<tState, tActive>>
        /\ AfterDelete(h, TokenMatches(t))
  /\ UNCHANGED <<sState, sName, tKey>>

\* writeAudit.  The reply to an update of a server awaits one more query.
Audit(h) ==
  /\ next[h] = "audit"
  /\ logged' = [logged EXCEPT ![h] = TRUE]
  /\ IF req[h].op = "server.update"
     THEN next' = [next EXCEPT ![h] = "countTokens"] /\ UNCHANGED <<req, reply>>
     ELSE /\ next' = [next EXCEPT ![h] = "none"]
          /\ req' = [req EXCEPT ![h] = NoRequest]
          /\ reply' = [reply EXCEPT ![h] = "OK"]
  /\ UNCHANGED wrote
  /\ UNCHANGED rowVars

CountTokens(h) ==
  /\ next[h] = "countTokens"
  /\ Finish(h, "OK")
  /\ UNCHANGED rowVars

\* The next statement fails, or the process dies before it.
Fail(h) ==
  /\ Faults
  /\ next[h] # "none"
  /\ Finish(h, "INTERNAL")
  /\ UNCHANGED rowVars

Statement(h) ==
  \/ FindByName(h) \/ InsertServer(h) \/ UpdateServer(h) \/ RereadServer(h)
  \/ DeleteServer(h) \/ FindServer(h) \/ FindByLabel(h) \/ InsertToken(h)
  \/ FindToken(h) \/ UpdateToken(h) \/ RereadToken(h) \/ DeleteToken(h)
  \/ Audit(h) \/ CountTokens(h)

Next ==
  \E h \in Handler : Statement(h) \/ Fail(h) \/ \E r \in Requests : Begin(h, r)

Spec == Init /\ [][Next]_vars

(***************************************************************************)
(* Properties.                                                             *)
(***************************************************************************)
\* Two live servers never share a name, nor two live tokens of a server a
\* label, however the look-up of one request and the insert or rename of
\* another interleave.
LiveNamesUnique ==
  /\ \A s1, s2 \in ServerId :
       sState[s1] = "live" /\ sState[s2] = "live" /\ sName[s1] = sName[s2] => s1 = s2
  /\ \A t1, t2 \in TokenId :
       tState[t1] = "live" /\ tState[t2] = "live" /\ tKey[t1] = tKey[t2] => t1 = t2

\* A deleted token is inactive for good: a request that found the token live
\* cannot bring it back after another one has deleted it.
DeletedTokensInactive ==
  \A t \in TokenId : tState[t] = "deleted" => ~tActive[t]

\* A row never changes once it is deleted.
DeletedRowsFrozen ==
  [][/\ \A s \in ServerId : sState[s] = "deleted" =>
          sState'[s] = "deleted" /\ sName'[s] = sName[s]
     /\ \A t \in TokenId : tState[t] = "deleted" =>
          tState'[t] = "deleted" /\ tKey'[t] = tKey[t] /\ tActive'[t] = tActive[t]]_vars

\* An audit row is never written for a change that was not made, and a client
\* is told of a success only when the change and its audit row are there, even
\* when requests race for a row, statements fail or the process dies; a request
\* refused as a conflict has changed nothing.  (One answered with NOT_FOUND may
\* have: see AuditComplete.)
AuditTruthful ==
  \A h \in Handler : /\ logged[h] => wrote[h]
                     /\ reply[h] = "OK" => logged[h]
                     /\ reply[h] = "CONFLICT" => ~wrote[h]

\* "Every server/token action writes ext_hosting_operation_logs": a request
\* that is over and has changed a row has left an audit row.  Even where no
\* statement fails, a rename that finds its row deleted when it reads it again
\* is answered with NOT_FOUND and leaves none.
AuditComplete == \A h \in Handler : next[h] = "none" /\ wrote[h] => logged[h]

\* The server table is a directory of names, the token table one of labels
\* per server: every request takes effect at one statement, atomically.
ServerDirectory == INSTANCE Directory WITH
  Id <- ServerId, Name <- Name, state <- sState, name <- sName
TokenDirectory == INSTANCE Directory WITH
  Id <- TokenId, Name <- TokenKey, state <- tState, name <- tKey

ImplementsDirectories == ServerDirectory!Spec /\ TokenDirectory!Spec
==============================================================================
