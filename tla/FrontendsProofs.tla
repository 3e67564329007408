--------------------------- MODULE FrontendsProofs ---------------------------
(***************************************************************************)
(* Theorems about module Frontends.  A person has one of the frontends     *)
(* only, so each of the three is proved about on its own, and a step of    *)
(* another one leaves its variables alone.                                 *)
(***************************************************************************)
EXTENDS Frontends, FiniteSetTheorems, TLAPS

(***************************************************************************)
(* The page at /ui.                                                        *)
(***************************************************************************)
CallType ==
  [action : InlineActions, stage : {"sent", "made", "over"}, version : Nat,
   ok : BOOLEAN, disabled : BOOLEAN]

InlineTypes ==
  /\ newest \in Nat /\ told \in 0 .. newest
  /\ IsABag(loads)
  /\ \A v \in DOMAIN loads : v = Unread \/ v \in 0 .. newest
  /\ calls \in Seq(CallType)

Carried == \A i \in DOMAIN calls :
  /\ calls[i].version <= newest
  /\ calls[i].ok => calls[i].stage = "over"

OnTheWay(version) == \E v \in DOMAIN loads : v = Unread \/ v >= version

Reported == \A i \in DOMAIN calls :
  calls[i].ok /\ calls[i].action # SyncServer =>
    told >= calls[i].version \/ OnTheWay(calls[i].version)

InlineInv == InlineTypes /\ Carried /\ Reported

LEMMA MaxOfTwo ==
  ASSUME NEW a \in Nat, NEW b \in Nat
  PROVE  Max({a, b}) \in {a, b} /\ Max({a, b}) >= a /\ Max({a, b}) >= b
<1>1. \E x \in {a, b} : \A y \in {a, b} : x >= y
  <2>1. CASE a >= b
    BY <2>1
  <2>2. CASE b >= a
    BY <2>2
  <2> QED
    BY <2>1, <2>2
<1> QED
  BY <1>1 DEF Max

LEMMA OneMore ==
  ASSUME NEW B, IsABag(B), NEW x
  PROVE  IsABag(B (+) SetToBag({x})) /\ DOMAIN (B (+) SetToBag({x})) = DOMAIN B \cup {x}
BY DEF IsABag, SetToBag, (+)

LEMMA OneLess ==
  ASSUME NEW B, IsABag(B), NEW x
  PROVE  /\ IsABag(B (-) SetToBag({x}))
         /\ DOMAIN (B (-) SetToBag({x})) \subseteq DOMAIN B
         /\ DOMAIN B \ {x} \subseteq DOMAIN (B (-) SetToBag({x}))
BY DEF IsABag, SetToBag, (-)
LEMMA CallFields ==
  ASSUME InlineInv, NEW i \in DOMAIN calls
  PROVE  /\ calls[i] \in CallType
         /\ calls[i].action \in InlineActions
         /\ calls[i].version \in 0 .. newest
         /\ calls[i].ok \in BOOLEAN /\ (calls[i].ok => calls[i].stage = "over")
<1>1. calls[i] \in CallType
  BY DEF InlineInv, InlineTypes
<1> QED
  BY <1>1 DEF CallType, InlineInv, InlineTypes, Carried

LEMMA ReadServersStep == ASSUME InlineInv, ReadServers PROVE InlineInv'
<1> DEFINE rest == loads (-) SetToBag({Unread})
<1>1. /\ IsABag(rest) /\ DOMAIN rest \subseteq DOMAIN loads
      /\ DOMAIN loads \ {Unread} \subseteq DOMAIN rest
  BY OneLess DEF InlineInv, InlineTypes
<1> HIDE DEF rest
<1>2. IsABag(loads') /\ DOMAIN loads' = DOMAIN rest \cup {newest}
  BY <1>1, OneMore DEF ReadServers, rest
<1>0. newest' = newest /\ told' = told /\ calls' = calls
  BY DEF ReadServers
<1>3. InlineTypes'
  <2>1. newest \in Nat /\ \A v \in DOMAIN loads : v = Unread \/ v \in 0 .. newest
    BY DEF InlineInv, InlineTypes
  <2>2. \A v \in DOMAIN loads' : v = Unread \/ v \in 0 .. newest'
    BY <1>0, <1>1, <1>2, <2>1
  <2> QED
    BY <1>0, <1>2, <2>2 DEF InlineInv, InlineTypes
<1>4. Carried'
  BY <1>0 DEF InlineInv, Carried
<1>5. \A version \in Nat : version <= newest /\ OnTheWay(version) => OnTheWay(version)'
  BY <1>1, <1>2 DEF OnTheWay, InlineInv, InlineTypes
<1>6. Reported'
  BY <1>0, <1>5, CallFields DEF InlineInv, Reported
<1> QED
  BY <1>3, <1>4, <1>6 DEF InlineInv

LEMMA RedrawKeeps ==
  ASSUME InlineInv, Redraw
  PROVE  /\ calls' \in Seq(CallType) /\ DOMAIN calls' = DOMAIN calls
         /\ \A i \in DOMAIN calls :
              /\ calls'[i].action = calls[i].action /\ calls'[i].version = calls[i].version
              /\ calls'[i].ok = calls[i].ok /\ calls'[i].stage = calls[i].stage
<1>1. calls \in Seq(CallType)
  BY DEF InlineInv, InlineTypes
<1>2. ASSUME NEW i \in DOMAIN calls
      PROVE  /\ calls'[i] \in CallType
             /\ calls'[i].action = calls[i].action /\ calls'[i].version = calls[i].version
             /\ calls'[i].ok = calls[i].ok /\ calls'[i].stage = calls[i].stage
  BY CallFields DEF Redraw, CallType
<1> QED
  BY <1>1, <1>2 DEF Redraw

LEMMA ShowServersStep ==
  ASSUME InlineInv, NEW v \in DOMAIN loads, ShowServers(v)
  PROVE  InlineInv'
<1>1. v \in 0 .. newest
  BY DEF ShowServers, InlineInv, InlineTypes
<1>2. told' \in 0 .. newest /\ told' >= told /\ told' >= v
  BY <1>1, MaxOfTwo DEF ShowServers, InlineInv, InlineTypes
<1>3. /\ IsABag(loads') /\ DOMAIN loads' \subseteq DOMAIN loads
      /\ DOMAIN loads \ {v} \subseteq DOMAIN loads'
  BY OneLess DEF ShowServers, Arrived, InlineInv, InlineTypes
<1>4. InlineTypes'
  BY <1>2, <1>3, RedrawKeeps DEF InlineInv, InlineTypes, ShowServers
<1>5. Carried'
  BY RedrawKeeps DEF InlineInv, Carried, ShowServers
<1>6. \A version \in Nat :
        OnTheWay(version) =>
          told' >= version \/ \E w \in DOMAIN loads' : w = Unread \/ w >= version
  BY <1>1, <1>2, <1>3 DEF OnTheWay, Unread, InlineInv, InlineTypes
<1>7. Reported'
  <2> SUFFICES ASSUME NEW i \in DOMAIN calls, calls[i].ok, calls[i].action # SyncServer
               PROVE  \/ told' >= calls[i].version
                      \/ \E w \in DOMAIN loads' : w = Unread \/ w >= calls[i].version
    BY RedrawKeeps DEF Reported, OnTheWay, ShowServers
  <2>1. calls[i].version \in Nat
    BY CallFields DEF InlineInv, InlineTypes
  <2>2. told >= calls[i].version \/ OnTheWay(calls[i].version)
    BY DEF InlineInv, Reported
  <2> QED
    BY <1>2, <1>6, <2>1, <2>2 DEF InlineInv, InlineTypes
<1> QED
  BY <1>4, <1>5, <1>7 DEF InlineInv

LEMMA ShowErrorStep ==
  ASSUME InlineInv, NEW v \in DOMAIN loads, ShowError(v)
  PROVE  InlineInv'
<1>1. IsABag(loads') /\ DOMAIN loads' \subseteq DOMAIN loads
  BY OneLess DEF ShowError, Arrived, InlineInv, InlineTypes
<1>2. InlineTypes'
  BY <1>1, RedrawKeeps DEF InlineInv, InlineTypes, ShowError
<1>3. Carried'
  BY RedrawKeeps DEF InlineInv, Carried, ShowError
<1>4. Reported'
  BY RedrawKeeps DEF InlineInv, InlineTypes, Carried, Reported, ShowError
<1> QED
  BY <1>2, <1>3, <1>4 DEF InlineInv

LEMMA ClickStep ==
  ASSUME InlineInv, NEW a \in InlineActions, Click(a)
  PROVE  InlineInv'
<1> DEFINE c == [action |-> a, stage |-> "sent", version |-> 0, ok |-> FALSE,
                 disabled |-> a \in Disabling]
<1>1. calls \in Seq(CallType) /\ c \in CallType
  BY DEF InlineInv, InlineTypes, CallType
<1> HIDE DEF c
<1>2. calls' = Append(calls, c)
  BY DEF Click, c
<1>3. InlineTypes'
  BY <1>1, <1>2 DEF InlineInv, InlineTypes, Click
<1>4. \A i \in DOMAIN calls' : calls'[i] = c \/ (i \in DOMAIN calls /\ calls'[i] = calls[i])
  BY <1>1, <1>2
<1>5. Carried' /\ Reported'
  BY <1>4 DEF c, InlineInv, InlineTypes, Carried, Reported, OnTheWay, Click
<1> QED
  BY <1>3, <1>5 DEF InlineInv

\* A step of one call: the others are what they were.
LEMMA OtherCalls ==
  ASSUME InlineInv, NEW i \in DOMAIN calls, NEW c \in CallType, calls' = [calls EXCEPT ![i] = c]
  PROVE  /\ calls' \in Seq(CallType) /\ DOMAIN calls' = DOMAIN calls
         /\ \A j \in DOMAIN calls : calls'[j] = IF j = i THEN c ELSE calls[j]
BY DEF InlineInv, InlineTypes

LEMMA CarryStep ==
  ASSUME InlineInv, NEW i \in DOMAIN calls, Carry(i)
  PROVE  InlineInv'
<1> DEFINE c == [calls[i] EXCEPT !.stage = "made", !.version = newest + 1]
<1>1. calls[i] \in CallType /\ newest \in Nat /\ ~calls[i].ok /\ newest' = newest + 1
  BY CallFields DEF InlineInv, InlineTypes, Carry
<1>2. c \in CallType
  <2> DEFINE made == [calls[i] EXCEPT !.stage = "made"]
  <2>1. made \in CallType
    BY <1>1 DEF CallType
  <2>2. [made EXCEPT !.version = newest + 1] \in CallType
    <3> HIDE DEF made
    <3> QED
      BY <1>1, <2>1 DEF CallType
  <2> QED
    BY <2>2
<1>a. calls' = [calls EXCEPT ![i] = c]
  <2>1. calls' = [calls EXCEPT ![i] = [@ EXCEPT !.stage = "made", !.version = newest + 1]]
    BY DEF Carry
  <2> QED
    BY <2>1
<1>3. ~c.ok /\ c.stage = "made" /\ c.version = newest + 1
  BY <1>1 DEF CallType
<1> HIDE DEF c
<1>4. /\ calls' \in Seq(CallType) /\ DOMAIN calls' = DOMAIN calls
      /\ \A j \in DOMAIN calls : calls'[j] = IF j = i THEN c ELSE calls[j]
  BY <1>2, <1>a, OtherCalls
<1>5. InlineTypes'
  BY <1>4 DEF InlineInv, InlineTypes, Carry
<1>6. Carried'
  BY <1>1, <1>3, <1>4, CallFields DEF Carried
<1>7. Reported'
  BY <1>3, <1>4 DEF InlineInv, Reported, OnTheWay, Carry
<1> QED
  BY <1>5, <1>6, <1>7 DEF InlineInv

LEMMA EndStep ==
  ASSUME InlineInv, NEW i \in DOMAIN calls, End(i)
  PROVE  InlineInv'
<1>1. PICK ok \in BOOLEAN :
        /\ calls' = [calls EXCEPT ![i] = Ended(@, ok)]
        /\ ok /\ calls[i].action # SyncServer => loads' = loads (+) SetToBag({Unread})
        /\ loads' = loads \/ loads' = loads (+) SetToBag({Unread})
        /\ UNCHANGED <<newest, told>>
  <2>1. \A a \in InlineActions : a # SyncServer => a.reloads # {}
    BY DEF InlineActions, AddServer, DeleteServer, TokenRows, Disabling, TestServer, Action
  <2>2. calls[i].action \in InlineActions
    BY CallFields
  <2> QED
    BY <2>1, <2>2 DEF End, Confirm, Complain, loadServers
<1> DEFINE c == Ended(calls[i], ok)
<1>2. calls[i] \in CallType
  BY DEF InlineInv, InlineTypes
<1>3. c \in CallType /\ calls' = [calls EXCEPT ![i] = c]
  BY <1>1, <1>2 DEF CallType, Ended
<1>4. /\ c.ok = ok /\ c.stage = "over"
      /\ c.version = calls[i].version /\ c.action = calls[i].action
  BY <1>2 DEF CallType, Ended
<1> HIDE DEF c
<1>5. /\ calls' \in Seq(CallType) /\ DOMAIN calls' = DOMAIN calls
      /\ \A j \in DOMAIN calls : calls'[j] = IF j = i THEN c ELSE calls[j]
  BY <1>3, OtherCalls
<1>6. /\ IsABag(loads') /\ DOMAIN loads \subseteq DOMAIN loads'
      /\ DOMAIN loads' \subseteq DOMAIN loads \cup {Unread}
      /\ ok /\ calls[i].action # SyncServer => Unread \in DOMAIN loads'
  <2>1. IsABag(loads)
    BY DEF InlineInv, InlineTypes
  <2>2. /\ IsABag(loads (+) SetToBag({Unread}))
        /\ DOMAIN (loads (+) SetToBag({Unread})) = DOMAIN loads \cup {Unread}
    BY <2>1, OneMore
  <2> QED
    BY <1>1, <2>1, <2>2
<1>7. InlineTypes'
  BY <1>1, <1>5, <1>6 DEF InlineInv, InlineTypes
<1>8. Carried'
  BY <1>1, <1>4, <1>5 DEF InlineInv, Carried
<1>9. Reported'
  BY <1>1, <1>4, <1>5, <1>6 DEF InlineInv, Reported, OnTheWay
<1> QED
  BY <1>7, <1>8, <1>9 DEF InlineInv

LEMMA InlineStep == InlineInv /\ [inlineNext]_inlineVars => InlineInv'
<1>1. ASSUME InlineInv, UNCHANGED inlineVars
      PROVE  InlineInv'
  BY <1>1 DEF inlineVars, InlineInv, InlineTypes, Carried, Reported, OnTheWay
<1> QED
  BY <1>1, ReadServersStep, ShowServersStep, ShowErrorStep, ClickStep, CarryStep, EndStep
     DEF inlineNext, BagToSet

\* However the answers of the page's loads come in, once no load is under way
\* the person has had news of every change that was confirmed (a sync's aside).
THEOREM ChangesReloaded == FrontendSpec => []EveryChangeReloaded
<1>1. FrontendInit => InlineInv
  <2> SUFFICES ASSUME inlineInit PROVE InlineInv
    BY DEF FrontendInit
  <2> QED
    BY DEF inlineInit, InlineInv, InlineTypes, Carried, Reported, IsABag, SetToBag
<1>2. InlineInv /\ [FrontendNext]_frontendVars => InlineInv'
  BY InlineStep DEF FrontendNext, frontendVars
<1>3. InlineInv => EveryChangeReloaded
  BY DEF InlineInv, Reported, OnTheWay, EveryChangeReloaded, EmptyBag, SetToBag
<1> QED
  BY <1>1, <1>2, <1>3, PTL DEF FrontendSpec

(***************************************************************************)
(* The React frontend: what its tables of pages and mutations say, read    *)
(* off once.                                                               *)
(***************************************************************************)
LEMMA Keys ==
  QueryKey = {"servers", "server", "tokens", "accounts", "emails", "domains", "databases"}
BY DEF QueryKey, Query

LEMMA PageNames ==
  DOMAIN hostingControlRoutes =
    {"servers", "newServer", "server", "editServer", "accounts", "emails", "domains",
     "databases", "metrics", "ftp", "deployments"}
BY DEF hostingControlRoutes

LEMMA PartsAre ==
  /\ PartOf("servers") = ServersListPage
  /\ PartOf("newServer") = ServerFormPage(FALSE)
  /\ PartOf("server") = ServerDetailPage
  /\ PartOf("editServer") = ServerFormPage(TRUE)
  /\ PartOf("accounts") = AccountsPage
  /\ PartOf("emails") = EmailPage
  /\ PartOf("domains") = DomainsPage
  /\ PartOf("databases") = DatabasesPage
  /\ PartOf("metrics") = PlaceholderPage
  /\ PartOf("ftp") = PlaceholderPage
  /\ PartOf("deployments") = PlaceholderPage
  /\ PartOf("testConnectionButton") = TestConnectionButton
  /\ PartOf("tokensPanel") = TokensPanel
BY DEF PartOf, hostingControlRoutes

LEMMA Panels == Part = DOMAIN hostingControlRoutes \cup {"testConnectionButton", "tokensPanel"}
BY DEF Part, ServerDetailPage, Page

\* The panels are on the server's page, which waits for the server.
LEMMA PartQueries ==
  ASSUME NEW p \in Part
  PROVE  /\ PartOf(p).query \in QueryKey \cup {None}
         /\ PartOf(p).inside # {} =>
              /\ p = "server" /\ PartOf(p).query = "server"
              /\ PartOf(p).inside = {"testConnectionButton", "tokensPanel"}
BY PartsAre, PageNames, Panels, Keys
   DEF Page, TestConnectionButton, ServersListPage, ServerFormPage, ServerDetailPage, AccountsPage, EmailPage,
       DomainsPage, DatabasesPage, PlaceholderPage, TokensPanel

Used ==
  {useCreateServer, useUpdateServer, useDeleteServer, useTestConnection, useCreateToken,
   useDeleteToken, useCreateEmail, useDeleteEmail, useTriggerAutoSsl, useCreateDatabase,
   useCreateDatabaseUser, useDeleteDatabase}

LEMMA MutationCalls ==
  /\ useCreateServer.call = <<"POST", "/servers">>
  /\ useUpdateServer.call = <<"PATCH", "/servers/:id">>
  /\ useDeleteServer.call = <<"DELETE", "/servers/:id">>
  /\ useTestConnection.call = <<"POST", "/servers/:id/test-connection">>
  /\ useCreateToken.call = <<"POST", "/servers/:id/tokens">>
  /\ useDeleteToken.call = <<"DELETE", "/tokens/:id">>
  /\ useCreateEmail.call = <<"POST", "/accounts/:id/email-accounts">>
  /\ useDeleteEmail.call = <<"DELETE", "/accounts/:id/email-accounts/:name">>
  /\ useTriggerAutoSsl.call = <<"POST", "/accounts/:id/domains/autossl">>
  /\ useCreateDatabase.call = <<"POST", "/accounts/:id/databases">>
  /\ useCreateDatabaseUser.call = <<"POST", "/accounts/:id/database-users">>
  /\ useDeleteDatabase.call = <<"DELETE", "/accounts/:id/databases/:name">>
BY DEF useCreateServer, useUpdateServer, useDeleteServer, useTestConnection, useCreateToken,
       useDeleteToken, useCreateEmail, useDeleteEmail, useTriggerAutoSsl, useCreateDatabase,
       useCreateDatabaseUser, useDeleteDatabase, Mutation

LEMMA MutationInvalidates ==
  /\ useCreateServer.invalidates = {"servers"}
  /\ useUpdateServer.invalidates = {"servers", "server"}
  /\ useDeleteServer.invalidates = {"servers"}
  /\ useTestConnection.invalidates = {"server"}
  /\ useCreateToken.invalidates = {"tokens"}
  /\ useDeleteToken.invalidates = {"tokens"}
  /\ useCreateEmail.invalidates = {"emails"}
  /\ useDeleteEmail.invalidates = {"emails"}
  /\ useTriggerAutoSsl.invalidates = {"domains"}
  /\ useCreateDatabase.invalidates = {"databases"}
  /\ useCreateDatabaseUser.invalidates = {"databases"}
  /\ useDeleteDatabase.invalidates = {"databases"}
BY DEF useCreateServer, useUpdateServer, useDeleteServer, useTestConnection, useCreateToken,
       useDeleteToken, useCreateEmail, useDeleteEmail, useTriggerAutoSsl, useCreateDatabase,
       useCreateDatabaseUser, useDeleteDatabase, Mutation

LEMMA ActionCalls ==
  /\ AddServer.call = <<"POST", "/servers">>
  /\ TestServer.call = <<"POST", "/servers/:id/test-connection">>
  /\ SyncServer.call = <<"POST", "/servers/:id/sync">>
  /\ DeleteServer.call = <<"DELETE", "/servers/:id">>
BY DEF AddServer, TestServer, SyncServer, DeleteServer, Action

LEMMA AffectsAre ==
  /\ Affects(useCreateServer.call) = {"servers"}
  /\ Affects(useUpdateServer.call) = {"servers", "server"}
  /\ Affects(useDeleteServer.call) = {"servers", "server", "tokens"}
  /\ Affects(useTestConnection.call) = {"servers", "server", "tokens"}
  /\ Affects(useCreateToken.call) = {"tokens", "servers", "server"}
  /\ Affects(useDeleteToken.call) = {"tokens", "servers", "server"}
  /\ Affects(useCreateEmail.call) = {"emails"}
  /\ Affects(useDeleteEmail.call) = {"emails"}
  /\ Affects(useTriggerAutoSsl.call) = {"domains"}
  /\ Affects(useCreateDatabase.call) = {"databases"}
  /\ Affects(useCreateDatabaseUser.call) = {"databases"}
  /\ Affects(useDeleteDatabase.call) = {"databases"}
BY MutationCalls, ActionCalls DEF Affects

LEMMA PromisedAre ==
  /\ Promised(useCreateServer.call) = {"servers"}
  /\ Promised(useUpdateServer.call) = {"servers", "server"}
  /\ Promised(useDeleteServer.call) = {"servers"}
  /\ Promised(useTestConnection.call) = {"server"}
  /\ Promised(useCreateToken.call) = {"tokens"}
  /\ Promised(useDeleteToken.call) = {"tokens"}
  /\ Promised(useCreateEmail.call) = {"emails"}
  /\ Promised(useDeleteEmail.call) = {"emails"}
  /\ Promised(useTriggerAutoSsl.call) = {"domains"}
  /\ Promised(useCreateDatabase.call) = {"databases"}
  /\ Promised(useCreateDatabaseUser.call) = {"databases"}
  /\ Promised(useDeleteDatabase.call) = {"databases"}
BY MutationCalls, AffectsAre DEF Promised

\* What a page owes is fetched again, and has been changed.
LEMMA Owed ==
  ASSUME NEW m \in Used
  PROVE  /\ Promised(m.call) \subseteq m.invalidates
         /\ Promised(m.call) \subseteq Affects(m.call)
         /\ Affects(m.call) \subseteq QueryKey
BY MutationInvalidates, PromisedAre, AffectsAre, Keys DEF Used

Serves(call, permission) == \E route \in ServesRoute(call) : route.permission = permission

LEMMA Routed ==
  ASSUME NEW method, NEW path, NEW permission, NEW parts, NEW status,
         Route(method, path, permission, parts, status) \in Routes
  PROVE  Serves(<<method, path>>, permission)
BY DEF Serves, ServesRoute, Route

LEMMA ServersServed ==
  /\ Serves(useCreateServer.call, "servers.create")
  /\ Serves(useUpdateServer.call, "servers.edit")
  /\ Serves(useDeleteServer.call, "servers.delete")
  /\ Serves(useTestConnection.call, "servers.test")
<1>1. /\ Route("POST", "/servers", "servers.create", {"body"}, ServersController.create) \in Routes
      /\ Route("PATCH", "/servers/:id", "servers.edit", {"params", "body"},
               ServersController.update) \in Routes
      /\ Route("DELETE", "/servers/:id", "servers.delete", {"params"}, ServersController.remove)
           \in Routes
      /\ Route("POST", "/servers/:id/test-connection", "servers.test", {"params"},
               ServersController.testConnection) \in Routes
  BY DEF Routes, ServersRoutes
<1> QED
  BY <1>1, Routed, MutationCalls

LEMMA TokensServed ==
  /\ Serves(useCreateToken.call, "tokens.create")
  /\ Serves(useDeleteToken.call, "tokens.delete")
<1>1. /\ Route("POST", "/servers/:id/tokens", "tokens.create", {"params", "body"},
               TokensController.create) \in Routes
      /\ Route("DELETE", "/tokens/:id", "tokens.delete", {"params"}, TokensController.remove)
           \in Routes
  BY DEF Routes, TokensRoutes
<1> QED
  BY <1>1, Routed, MutationCalls

LEMMA EmailServed ==
  /\ Serves(useCreateEmail.call, "email.manage")
  /\ Serves(useDeleteEmail.call, "email.manage")
<1>1. /\ Route("POST", "/accounts/:id/email-accounts", "email.manage", {"params", "body"},
               EmailController.create) \in Routes
      /\ Route("DELETE", "/accounts/:id/email-accounts/:name", "email.manage", {"params"},
               EmailController.remove) \in Routes
  BY DEF Routes, EmailRoutes
<1> QED
  BY <1>1, Routed, MutationCalls

LEMMA DomainsServed == Serves(useTriggerAutoSsl.call, "domains.manage")
<1>1. Route("POST", "/accounts/:id/domains/autossl", "domains.manage", {"params"},
            DomainsController.autoSsl) \in Routes
  BY DEF Routes, DomainsRoutes
<1> QED
  BY <1>1, Routed, MutationCalls

LEMMA DatabasesServed ==
  /\ Serves(useCreateDatabase.call, "databases.manage")
  /\ Serves(useCreateDatabaseUser.call, "databases.manage")
  /\ Serves(useDeleteDatabase.call, "databases.manage")
<1>1. /\ Route("POST", "/accounts/:id/databases", "databases.manage", {"params", "body"},
               DatabasesController.createDatabase) \in Routes
      /\ Route("POST", "/accounts/:id/database-users", "databases.manage", {"params", "body"},
               DatabasesController.createUser) \in Routes
      /\ Route("DELETE", "/accounts/:id/databases/:name", "databases.manage", {"params"},
               DatabasesController.deleteDatabase) \in Routes
  BY DEF Routes, DatabasesRoutes
<1> QED
  BY <1>1, Routed, MutationCalls

LEMMA ControlsAre ==
  /\ PartOf("newServer").controls = {Control("servers.create", useCreateServer, "server")}
  /\ PartOf("server").controls = {Control("servers.delete", useDeleteServer, "servers")}
  /\ PartOf("testConnectionButton").controls =
       {Control("servers.test", useTestConnection, None)}
  /\ PartOf("editServer").controls = {Control("servers.edit", useUpdateServer, "server")}
  /\ PartOf("emails").controls = {Control("email.manage", useCreateEmail, None),
                                  Control("email.manage", useDeleteEmail, None)}
  /\ PartOf("domains").controls = {Control("domains.manage", useTriggerAutoSsl, None)}
  /\ PartOf("databases").controls =
       {Control("databases.manage", m, None) :
          m \in {useCreateDatabase, useCreateDatabaseUser, useDeleteDatabase}}
  /\ PartOf("tokensPanel").controls = {Control("tokens.create", useCreateToken, None),
                                       Control("tokens.delete", useDeleteToken, None)}
  /\ \A p \in {"servers", "accounts", "metrics", "ftp", "deployments"} : PartOf(p).controls = {}
BY PartsAre DEF Page, ServersListPage, ServerFormPage, ServerDetailPage, AccountsPage, EmailPage,
                DomainsPage, DatabasesPage, PlaceholderPage, TestConnectionButton, TokensPanel

\* A control starts a call that is routed, with the permission the control is
\* shown for, and leads to a page.
LEMMA ControlFacts ==
  ASSUME NEW p \in Part, NEW c \in PartOf(p).controls
  PROVE  /\ c.mutation \in Used
         /\ Serves(c.mutation.call, c.permission)
         /\ c.next # None => c.next \in {"servers", "server"}
                             /\ p \in {"newServer", "server", "editServer"}
<1>1. CASE p \in {"newServer", "server", "editServer", "testConnectionButton"}
  BY <1>1, ControlsAre, ServersServed DEF Control, Used
<1>2. CASE p = "tokensPanel"
  BY <1>2, ControlsAre, TokensServed DEF Control, Used
<1>3. CASE p = "emails"
  BY <1>3, ControlsAre, EmailServed DEF Control, Used
<1>4. CASE p = "domains"
  BY <1>4, ControlsAre, DomainsServed DEF Control, Used
<1>5. CASE p = "databases"
  BY <1>5, ControlsAre, DatabasesServed DEF Control, Used
<1>6. CASE p \in {"servers", "accounts", "metrics", "ftp", "deployments"}
  BY <1>6, ControlsAre
<1> QED
  BY <1>1, <1>2, <1>3, <1>4, <1>5, <1>6, PageNames, Panels

LEMMA ViewsAre ==
  /\ PartOf("servers").view = "servers.view" /\ PartOf("server").view = "servers.view"
  /\ PartOf("newServer").view = "servers.create" /\ PartOf("editServer").view = "servers.edit"
  /\ PartOf("accounts").view = "accounts.view" /\ PartOf("emails").view = "email.view"
  /\ PartOf("domains").view = "domains.view" /\ PartOf("databases").view = "databases.view"
  /\ \A p \in {"metrics", "ftp", "deployments"} : PartOf(p).view = None
BY PartsAre DEF Page, ServersListPage, ServerFormPage, ServerDetailPage, AccountsPage, EmailPage,
                DomainsPage, DatabasesPage, PlaceholderPage

\* The forms are linked from the pages about servers only.
LEMMA LinksAre ==
  ASSUME NEW p \in DOMAIN hostingControlRoutes, NEW l \in PartOf(p).links
  PROVE  /\ l.to \in DOMAIN hostingControlRoutes
         /\ PartOf(l.to).view = l.permission
         /\ l.to \in {"newServer", "editServer"} => PartOf(p).view = "servers.view"
<1>1. CASE p \in {"servers", "server", "accounts"}
  BY <1>1, PartsAre, ViewsAre, PageNames
     DEF Page, ServersListPage, ServerDetailPage, AccountsPage, Link
<1>2. CASE p \notin {"servers", "server", "accounts"}
  BY <1>2, PartsAre, PageNames
     DEF Page, ServerFormPage, EmailPage, DomainsPage, DatabasesPage, PlaceholderPage
<1> QED
  BY <1>1, <1>2

LEMMA NavigationIs ==
  ASSUME NEW l \in HostingControlLayout
  PROVE  /\ l.to \in DOMAIN hostingControlRoutes \ {"newServer", "editServer"}
         /\ PartOf(l.to).view \in {None, l.permission}
BY ViewsAre, PageNames DEF HostingControlLayout, Link

(***************************************************************************)
(* The React frontend: the inductive invariant.                            *)
(***************************************************************************)
Controls == UNION {PartOf(p).controls : p \in Part}
OpType ==
  [control : Controls, stage : {"sent", "made", "over"}, version : Nat]

ConsoleTypes ==
  /\ granted \in Granted /\ typed \in BOOLEAN
  /\ page \in DOMAIN hostingControlRoutes
  /\ opened \in Nat
  /\ changed \in [QueryKey -> Nat] /\ seen \in [QueryKey -> Nat]
  /\ data \in [QueryKey -> Nat \cup {NoData}]
  /\ failed \in [QueryKey -> BOOLEAN]
  /\ fetch \in [QueryKey -> {"none", "sent", "read"}]
  /\ read \in [QueryKey -> Nat]
  /\ ops \in Seq(OpType)
  /\ held \subseteq {i \in DOMAIN ops : ops[i].stage # "over"}

Performed == {i \in DOMAIN ops : ops[i].version # 0}
Bounded == opened + Len(ops) <= MaxActs

\* Versions count the mutations performed; what a query holds, has read or
\* owes is no newer than the backend.
Numbered ==
  /\ \A i \in DOMAIN ops :
       /\ ops[i].stage = "sent" => ops[i].version = 0
       /\ \A k \in Affects(ops[i].control.mutation.call) : ops[i].version <= changed[k]
  /\ \A k \in QueryKey :
       /\ seen[k] <= changed[k] /\ read[k] <= changed[k] /\ data[k] <= changed[k]
       /\ changed[k] <= Cardinality(Performed)

Waited == \A k \in Active(page, data, failed) :
  data[k] # NoData \/ failed[k] \/ fetch[k] # "none"

\* On the screen or not: an answer under way that was read before the person's
\* last change has been dropped.
CaughtUp == \A k \in QueryKey :
  /\ fetch[k] = "none" /\ Loaded(k) => data[k] >= seen[k]
  /\ fetch[k] = "read" => read[k] >= seen[k]

\* A mutation was permitted, and one that is held is on the page.
OnPage(c) == \E p \in {page} \cup PartOf(page).inside : c \in PartOf(p).controls
Offered == \A i \in DOMAIN ops :
  /\ has(ops[i].control.permission)
  /\ i \in held => OnPage(ops[i].control)

\* The pages that lead to a server, once it is saved, were come to from one
\* that shows servers.
Reached == ~typed =>
  /\ PartOf(page).view = None \/ has(PartOf(page).view)
  /\ page \in {"newServer", "editServer"} => has("servers.view")

ConsoleInv ==
  ConsoleTypes /\ Bounded /\ Numbered /\ Waited /\ CaughtUp /\ Offered /\ Reached

(***************************************************************************)
(* What is on the screen.                                                  *)
(***************************************************************************)
LEMMA InsideIsPart ==
  ASSUME NEW p \in DOMAIN hostingControlRoutes
  PROVE  {p} \cup PartOf(p).inside \subseteq Part
BY PartQueries, Panels

LEMMA OnScreenAreKeys ==
  ASSUME NEW p \in DOMAIN hostingControlRoutes, NEW d, NEW f
  PROVE  Active(p, d, f) \subseteq QueryKey
<1>1. Parts(p, d, f) \subseteq Part
  BY InsideIsPart DEF Parts
<1> QED
  BY <1>1, PartQueries DEF Active

\* What is on the screen hangs on which queries have loaded, no more.
LEMMA SameScreen ==
  ASSUME NEW p \in DOMAIN hostingControlRoutes, NEW d1, NEW f1, NEW d2, NEW f2,
         \A k \in QueryKey : (d1[k] # NoData /\ ~f1[k]) <=> (d2[k] # NoData /\ ~f2[k])
  PROVE  Active(p, d1, f1) = Active(p, d2, f2)
<1>1. Ready(PartOf(p).query, d1, f1) <=> Ready(PartOf(p).query, d2, f2)
  BY PartQueries DEF Ready, Part
<1>2. Parts(p, d1, f1) = Parts(p, d2, f2)
  BY <1>1 DEF Parts
<1> QED
  BY <1>2 DEF Active

LEMMA FailureShowsLess ==
  ASSUME NEW p \in DOMAIN hostingControlRoutes, ConsoleTypes, NEW k \in QueryKey
  PROVE  Active(p, data, [failed EXCEPT ![k] = TRUE]) \subseteq Active(p, data, failed)
<1> DEFINE f == [failed EXCEPT ![k] = TRUE]
<1>1. Ready(PartOf(p).query, data, f) => Ready(PartOf(p).query, data, failed)
  BY PartQueries DEF Ready, Part, ConsoleTypes
<1> HIDE DEF f
<1>2. Parts(p, data, f) \subseteq Parts(p, data, failed)
  BY <1>1 DEF Parts
<1>3. Active(p, data, f) \subseteq Active(p, data, failed)
  BY <1>2 DEF Active
<1> QED
  BY <1>3 DEF f

LEMMA NextScreen ==
  ASSUME UNCHANGED granted
  PROVE  Active(page, data, failed)' = Active(page', data', failed')
BY DEF Active, Parts, has

\* A page is opened: its queries find an observer.
LEMMA Shown ==
  ASSUME ConsoleTypes, CaughtUp, NEW p \in DOMAIN hostingControlRoutes, Show(p),
         UNCHANGED <<granted, data, read, seen>>
  PROVE  /\ page' = p /\ held' = {}
         /\ fetch' \in [QueryKey -> {"none", "sent", "read"}]
         /\ failed' \in [QueryKey -> BOOLEAN]
         /\ Waited' /\ CaughtUp'
<1> DEFINE mounted == Active(p, data, failed)
<1>1. /\ page' = p /\ held' = {}
      /\ fetch' = Fetching(mounted, {}, data)
      /\ failed' = Failures(failed, data, mounted)
  BY DEF Show
<1> HIDE DEF mounted
<1>2. /\ fetch' \in [QueryKey -> {"none", "sent", "read"}]
      /\ \A k \in QueryKey :
           fetch'[k] = IF k \in mounted /\ fetch[k] = "none" THEN "sent" ELSE fetch[k]
  BY <1>1 DEF Fetching, ConsoleTypes
<1>3. /\ failed' \in [QueryKey -> BOOLEAN]
      /\ \A k \in QueryKey : failed'[k] <=> failed[k] /\ ~(k \in mounted /\ data[k] = NoData)
  BY <1>1 DEF Failures, ConsoleTypes
<1>4. Active(p, data, failed') = mounted
  BY <1>3, SameScreen DEF mounted
<1>5. Waited'
  <2>1. \A k \in mounted : fetch'[k] # "none"
    BY <1>2, OnScreenAreKeys DEF mounted
  <2> QED
    BY <1>1, <1>4, <2>1, NextScreen DEF Waited
<1>6. CaughtUp'
  BY <1>2, <1>3 DEF CaughtUp, Loaded
<1> QED
  BY <1>1, <1>2, <1>3, <1>5, <1>6

\* An answer or an error comes in.
LEMMA Rendered ==
  ASSUME ConsoleInv, NEW k \in QueryKey, fetch[k] # "none", Receive(k) \/ FetchFails(k)
  PROVE  /\ data' \in [QueryKey -> Nat \cup {NoData}] /\ failed' \in [QueryKey -> BOOLEAN]
         /\ fetch' \in [QueryKey -> {"none", "sent", "read"}] /\ read' \in [QueryKey -> Nat]
         /\ \A x \in QueryKey : data'[x] = IF x = k /\ Receive(k) THEN read[x] ELSE data[x]
         /\ \A x \in QueryKey : read'[x] = IF x = k THEN 0 ELSE read[x]
         /\ Waited' /\ CaughtUp'
<1>0. ConsoleTypes /\ Waited /\ CaughtUp
  BY DEF ConsoleInv
<1> DEFINE got == Receive(k)
<1> HIDE DEF got
<1>1. PICK d, f :
        /\ d \in [QueryKey -> Nat \cup {NoData}] /\ f \in [QueryKey -> BOOLEAN]
        /\ Render(k, d, f) /\ UNCHANGED <<granted, page, seen>>
        /\ \/ got /\ fetch[k] = "read"
              /\ d = [data EXCEPT ![k] = read[k]] /\ f = [failed EXCEPT ![k] = FALSE]
           \/ ~got /\ d = data /\ f = [failed EXCEPT ![k] = TRUE]
  <2>1. CASE Receive(k)
    <3>1. Render(k, [data EXCEPT ![k] = read[k]], [failed EXCEPT ![k] = FALSE])
      BY <2>1 DEF Receive
    <3>2. /\ [data EXCEPT ![k] = read[k]] \in [QueryKey -> Nat \cup {NoData}]
          /\ [failed EXCEPT ![k] = FALSE] \in [QueryKey -> BOOLEAN]
      BY <1>0 DEF ConsoleTypes
    <3>3. got /\ fetch[k] = "read" /\ UNCHANGED <<granted, page, seen>>
      BY <2>1 DEF Receive, sessionVars, got
    <3> QED
      BY <3>1, <3>2, <3>3
  <2>2. CASE ~Receive(k)
    <3>1. FetchFails(k)
      BY <2>2
    <3>2. Render(k, data, [failed EXCEPT ![k] = TRUE])
      BY <3>1 DEF FetchFails
    <3>3. /\ data \in [QueryKey -> Nat \cup {NoData}]
          /\ [failed EXCEPT ![k] = TRUE] \in [QueryKey -> BOOLEAN]
      BY <1>0 DEF ConsoleTypes
    <3>4. ~got /\ UNCHANGED <<granted, page, seen>>
      BY <2>2, <3>1 DEF FetchFails, sessionVars, got
    <3> QED
      BY <3>2, <3>3, <3>4
  <2> QED
    BY <2>1, <2>2
<1> DEFINE after == Active(page, d, f)
           mounted == after \ Active(page, data, failed)
<1>2. /\ data' = d /\ failed' = Failures(f, d, mounted)
      /\ fetch' = [Fetching(mounted, {}, d) EXCEPT ![k] = "none"]
      /\ read' = [read EXCEPT ![k] = 0]
  BY <1>1 DEF Render
<1>a. after \subseteq QueryKey
  BY <1>0, OnScreenAreKeys DEF ConsoleTypes
<1>b. k \in mounted => got
  <2>1. CASE ~got
    BY <1>0, <1>1, <2>1, FailureShowsLess DEF ConsoleTypes
  <2> QED
    BY <2>1
<1> HIDE DEF mounted
<1>3. /\ data' \in [QueryKey -> Nat \cup {NoData}] /\ read' \in [QueryKey -> Nat]
      /\ \A x \in QueryKey : data'[x] = IF x = k /\ got THEN read[x] ELSE data[x]
      /\ \A x \in QueryKey : read'[x] = IF x = k THEN 0 ELSE read[x]
  BY <1>0, <1>1, <1>2 DEF ConsoleTypes
<1>4. /\ fetch' \in [QueryKey -> {"none", "sent", "read"}]
      /\ \A x \in QueryKey :
           fetch'[x] = IF x = k THEN "none"
                       ELSE IF x \in mounted /\ fetch[x] = "none" THEN "sent" ELSE fetch[x]
  BY <1>0, <1>2 DEF Fetching, ConsoleTypes
<1>5. /\ failed' \in [QueryKey -> BOOLEAN]
      /\ \A x \in QueryKey : failed'[x] <=> f[x] /\ ~(x \in mounted /\ d[x] = NoData)
  BY <1>1, <1>2 DEF Failures
<1>6. \A x \in QueryKey : x # k => (f[x] <=> failed[x]) /\ d[x] = data[x]
  BY <1>0, <1>1 DEF ConsoleTypes
<1>7. /\ got => d[k] = read[k] /\ read[k] # NoData /\ read[k] >= seen[k] /\ ~f[k]
      /\ ~got => d[k] = data[k] /\ f[k]
  <2>1. read[k] \in Nat
    BY <1>0 DEF ConsoleTypes
  <2>2. got => read[k] >= seen[k]
    BY <1>0, <1>1 DEF CaughtUp
  <2> QED
    BY <1>0, <1>1, <2>1, <2>2 DEF ConsoleTypes, NoData
<1>8. CaughtUp'
  BY <1>0, <1>1, <1>2, <1>3, <1>4, <1>5, <1>6, <1>7 DEF CaughtUp, Loaded
<1>9. Waited'
  <2>1. Active(page, d, failed') = after
    <3>1. \A x \in QueryKey : (d[x] # NoData /\ ~failed'[x]) <=> (d[x] # NoData /\ ~f[x])
      BY <1>5
    <3>2. page \in DOMAIN hostingControlRoutes
      BY <1>0 DEF ConsoleTypes
    <3> QED
      BY <3>1, <3>2, SameScreen
  <2> HIDE DEF after
  <2> SUFFICES ASSUME NEW x \in after
               PROVE  d[x] # NoData \/ failed'[x] \/ fetch'[x] # "none"
    BY <1>1, <1>2, <2>1, NextScreen DEF Waited
  <2>2. CASE x = k
    BY <1>5, <1>7, <1>a, <1>b, <2>2
  <2>3. CASE x # k /\ x \in mounted
    BY <1>4, <1>a, <2>3
  <2>4. CASE x # k /\ x \notin mounted
    <3>1. data[x] # NoData \/ failed[x] \/ fetch[x] # "none"
      BY <1>0, <2>4 DEF mounted, Waited
    <3> QED
      BY <1>4, <1>5, <1>6, <1>a, <2>4, <3>1
  <2> QED
    BY <2>2, <2>3, <2>4
<1> QED
  BY <1>3, <1>4, <1>5, <1>8, <1>9 DEF got

(***************************************************************************)
(* The React frontend: the mutations started.                              *)
(***************************************************************************)
LEMMA CountsOfOps ==
  ASSUME ConsoleTypes, NEW S \in SUBSET DOMAIN ops
  PROVE  IsFiniteSet(S) /\ Cardinality(S) \in Nat /\ Cardinality(S) <= Len(ops)
<1>1. DOMAIN ops = 1 .. Len(ops) /\ Len(ops) \in Nat
  BY DEF ConsoleTypes
<1>2. IsFiniteSet(1 .. Len(ops)) /\ Cardinality(1 .. Len(ops)) = Len(ops)
  BY <1>1, FS_Interval
<1> QED
  BY <1>1, <1>2, FS_Subset, FS_CardinalityType

LEMMA OpFields ==
  ASSUME ConsoleInv, NEW i \in DOMAIN ops
  PROVE  /\ ops[i] \in OpType
         /\ ops[i].control \in Controls /\ ops[i].control.mutation \in Used
         /\ Serves(ops[i].control.mutation.call, ops[i].control.permission)
         /\ ops[i].version \in Nat
<1>1. ops[i] \in OpType
  BY DEF ConsoleInv, ConsoleTypes
<1>2. ops[i].control \in Controls /\ ops[i].version \in Nat
  BY <1>1 DEF OpType
<1> QED
  BY <1>1, <1>2, ControlFacts DEF Controls

\* A step of one mutation: the others are what they were.
LEMMA OtherOps ==
  ASSUME ConsoleInv, NEW i \in DOMAIN ops, NEW o \in OpType, ops' = [ops EXCEPT ![i] = o]
  PROVE  /\ ops' \in Seq(OpType) /\ DOMAIN ops' = DOMAIN ops /\ Len(ops') = Len(ops)
         /\ \A j \in DOMAIN ops : ops'[j] = IF j = i THEN o ELSE ops[j]
BY DEF ConsoleInv, ConsoleTypes

LEMMA Over ==
  ASSUME ConsoleInv, NEW i \in DOMAIN ops, ops[i].stage # "over", IsOver(i)
  PROVE  /\ ops' \in Seq(OpType) /\ DOMAIN ops' = DOMAIN ops /\ Len(ops') = Len(ops)
         /\ \A j \in DOMAIN ops :
              /\ ops'[j].control = ops[j].control
              /\ ops'[j].version = ops[j].version
              /\ ops'[j].stage = IF j = i THEN "over" ELSE ops[j].stage
         /\ Performed' = Performed
<1> DEFINE o == [ops[i] EXCEPT !.stage = "over"]
<1>1. ops[i] \in OpType
  BY OpFields
<1>2. /\ o \in OpType /\ o.control = ops[i].control
      /\ o.version = ops[i].version /\ o.stage = "over"
  BY <1>1 DEF OpType
<1>3. ops' = [ops EXCEPT ![i] = o]
  BY DEF IsOver
<1> HIDE DEF o
<1>4. /\ ops' \in Seq(OpType) /\ DOMAIN ops' = DOMAIN ops /\ Len(ops') = Len(ops)
      /\ \A j \in DOMAIN ops : ops'[j] = IF j = i THEN o ELSE ops[j]
  BY <1>2, <1>3, OtherOps
<1>5. Performed' = Performed
  BY <1>2, <1>4 DEF Performed
<1> QED
  BY <1>2, <1>4, <1>5

LEMMA ScreenKept ==
  ASSUME UNCHANGED <<granted, page, typed, data, failed, fetch, read, seen>>
  PROVE  (Waited => Waited') /\ (CaughtUp => CaughtUp') /\ (Reached => Reached')
<1>1. Waited => Waited'
  BY NextScreen DEF Waited
<1>2. CaughtUp => CaughtUp'
  BY DEF CaughtUp, Loaded
<1>3. Reached => Reached'
  BY DEF Reached, has
<1> QED
  BY <1>1, <1>2, <1>3

LEMMA NavigateStep == ASSUME ConsoleInv, Navigate PROVE ConsoleInv'
<1>0. ConsoleTypes /\ Bounded /\ Numbered /\ CaughtUp /\ Offered /\ Reached
  BY DEF ConsoleInv
<1>1. /\ opened + Len(ops) < MaxActs /\ opened' = opened + 1
      /\ UNCHANGED <<granted, changed, data, read, ops, seen>>
  BY DEF Navigate
<1>2. PICK p \in DOMAIN hostingControlRoutes :
        /\ Show(p) /\ typed' \in BOOLEAN
        /\ ~typed' =>
             /\ PartOf(p).view = None \/ has(PartOf(p).view)
             /\ p \in {"newServer", "editServer"} => has("servers.view")
  <2>1. CASE NavLink
    BY <2>1, NavigationIs DEF NavLink
  <2>2. CASE PageLink
    <3>1. PICK l \in PartOf(page).links :
            has(PartOf(page).view) /\ has(l.permission) /\ Show(l.to) /\ typed' = typed
      BY <2>2 DEF PageLink
    <3>2. /\ l.to \in DOMAIN hostingControlRoutes /\ PartOf(l.to).view = l.permission
          /\ l.to \in {"newServer", "editServer"} => PartOf(page).view = "servers.view"
      BY <1>0, LinksAre DEF ConsoleTypes
    <3> QED
      BY <1>0, <3>1, <3>2 DEF ConsoleTypes
  <2> QED
    BY <2>1, <2>2 DEF Navigate
<1>3. /\ page' = p /\ held' = {}
      /\ fetch' \in [QueryKey -> {"none", "sent", "read"}]
      /\ failed' \in [QueryKey -> BOOLEAN]
      /\ Waited' /\ CaughtUp'
  BY <1>0, <1>1, <1>2, Shown
<1>4. ConsoleTypes'
  BY <1>0, <1>1, <1>2, <1>3 DEF ConsoleTypes
<1>5. Performed' = Performed
  BY <1>1 DEF Performed
<1>6. Bounded'
  BY <1>0, <1>1, ActsAssumption DEF Bounded, ConsoleTypes
<1>7. Numbered'
  BY <1>0, <1>1, <1>5 DEF Numbered
<1>8. Offered'
  BY <1>0, <1>1, <1>3 DEF Offered, has
<1>9. Reached'
  BY <1>1, <1>2, <1>3 DEF Reached, has
<1> QED
  BY <1>3, <1>4, <1>6, <1>7, <1>8, <1>9 DEF ConsoleInv

\* A step of the cache: the person and the mutations are where they were.
LEMMA SessionKept ==
  ASSUME ConsoleInv, UNCHANGED <<sessionVars, changed, ops, seen>>, held' \subseteq held,
         \A k \in QueryKey : read'[k] <= changed[k] /\ data'[k] <= changed[k]
  PROVE  Bounded' /\ Numbered' /\ Offered' /\ Reached'
<1>1. /\ UNCHANGED <<granted, page, typed, opened, changed, ops, seen>>
      /\ Bounded /\ Numbered /\ Offered /\ Reached
  BY DEF sessionVars, ConsoleInv
<1>2. Performed' = Performed
  BY <1>1 DEF Performed
<1>3. Bounded'
  BY <1>1, <1>2 DEF Bounded
<1>4. Numbered'
  BY <1>1, <1>2 DEF Numbered
<1>5. Offered' /\ Reached'
  BY <1>1 DEF Offered, OnPage, Reached, has
<1> QED
  BY <1>3, <1>4, <1>5

LEMMA AnswerStep ==
  ASSUME ConsoleInv, NEW k \in QueryKey, Answer(k)
  PROVE  ConsoleInv'
<1>0. ConsoleTypes /\ Numbered /\ Waited /\ CaughtUp
  BY DEF ConsoleInv
<1>1. /\ UNCHANGED <<sessionVars, changed, data, failed, ops, held, seen>>
      /\ UNCHANGED <<granted, page, typed, opened>>
      /\ fetch' = [fetch EXCEPT ![k] = "read"] /\ read' = [read EXCEPT ![k] = changed[k]]
  BY DEF Answer, sessionVars
<1>2. ConsoleTypes'
  BY <1>0, <1>1 DEF ConsoleTypes
<1>3. \A x \in QueryKey :
        /\ fetch'[x] = IF x = k THEN "read" ELSE fetch[x]
        /\ read'[x] = IF x = k THEN changed[x] ELSE read[x]
  BY <1>0, <1>1 DEF ConsoleTypes
<1>4. Bounded' /\ Numbered' /\ Offered' /\ Reached'
  <2>1. \A x \in QueryKey : read'[x] <= changed[x] /\ data'[x] <= changed[x]
    BY <1>0, <1>1, <1>3 DEF Numbered, ConsoleTypes
  <2> QED
    BY <1>1, <2>1, SessionKept
<1>5. Waited'
  <2>1. Active(page, data, failed) \subseteq QueryKey
    BY <1>0, OnScreenAreKeys DEF ConsoleTypes
  <2>2. Active(page, data, failed)' = Active(page, data, failed)
    BY <1>1, NextScreen
  <2> QED
    BY <1>0, <1>1, <1>3, <2>1, <2>2 DEF Waited
<1>6. CaughtUp'
  BY <1>0, <1>1, <1>3 DEF CaughtUp, Loaded, Numbered
<1> QED
  BY <1>2, <1>4, <1>5, <1>6 DEF ConsoleInv

LEMMA RenderStep ==
  ASSUME ConsoleInv, NEW k \in QueryKey, Receive(k) \/ FetchFails(k)
  PROVE  ConsoleInv'
<1>0. ConsoleTypes /\ Numbered
  BY DEF ConsoleInv
<1>1. /\ UNCHANGED <<sessionVars, changed, ops, seen>>
      /\ UNCHANGED <<granted, page, typed, opened>>
      /\ fetch[k] # "none" /\ held' \subseteq held
  BY DEF Receive, FetchFails, Render, sessionVars
<1>2. /\ data' \in [QueryKey -> Nat \cup {NoData}] /\ failed' \in [QueryKey -> BOOLEAN]
      /\ fetch' \in [QueryKey -> {"none", "sent", "read"}] /\ read' \in [QueryKey -> Nat]
      /\ \A x \in QueryKey : data'[x] = IF x = k /\ Receive(k) THEN read[x] ELSE data[x]
      /\ \A x \in QueryKey : read'[x] = IF x = k THEN 0 ELSE read[x]
      /\ Waited' /\ CaughtUp'
  BY <1>1, Rendered
<1>3. ConsoleTypes'
  BY <1>0, <1>1, <1>2 DEF ConsoleTypes
<1>4. Bounded' /\ Numbered' /\ Offered' /\ Reached'
  <2>1. ASSUME NEW x \in QueryKey
        PROVE  read'[x] <= changed[x] /\ data'[x] <= changed[x]
    <3>1. changed[x] \in Nat /\ read[x] <= changed[x] /\ data[x] <= changed[x]
      BY <1>0 DEF Numbered, ConsoleTypes
    <3> QED
      BY <1>2, <3>1
  <2> QED
    BY <1>1, <2>1, SessionKept
<1> QED
  BY <1>2, <1>3, <1>4 DEF ConsoleInv

LEMMA MutateStep ==
  ASSUME ConsoleInv, NEW p \in Mounted, NEW c \in PartOf(p).controls, Mutate(p, c)
  PROVE  ConsoleInv'
<1>0. ConsoleTypes /\ Bounded /\ Numbered /\ Waited /\ CaughtUp /\ Offered /\ Reached
  BY DEF ConsoleInv
<1> DEFINE o == [control |-> c, stage |-> "sent", version |-> 0]
<1>1. /\ opened + Len(ops) < MaxActs /\ has(c.permission) /\ ops' = Append(ops, o)
      /\ held' = held \cup {Len(ops) + 1}
      /\ UNCHANGED <<granted, page, typed, opened, changed, data, failed, fetch, read, seen>>
  BY DEF Mutate, sessionVars, cacheVars
<1>2. OnPage(c) /\ c \in Controls
  <2>1. p \in {page} \cup PartOf(page).inside
    BY DEF Mounted, Parts
  <2>2. p \in Part
    BY <1>0, <2>1, InsideIsPart DEF ConsoleTypes
  <2> QED
    BY <2>1, <2>2 DEF OnPage, Controls
<1>3. o \in OpType /\ ops \in Seq(OpType)
  BY <1>0, <1>2 DEF OpType, ConsoleTypes
<1>4. o.control = c /\ o.stage = "sent" /\ o.version = 0
  OBVIOUS
<1> HIDE DEF o
<1>5. /\ ops' \in Seq(OpType) /\ Len(ops') = Len(ops) + 1
      /\ DOMAIN ops' = DOMAIN ops \cup {Len(ops) + 1}
      /\ Len(ops) + 1 \notin DOMAIN ops
      /\ \A i \in DOMAIN ops : ops'[i] = ops[i]
      /\ ops'[Len(ops) + 1] = o
  BY <1>1, <1>3
<1>6. Performed' = Performed
  BY <1>4, <1>5 DEF Performed
<1>7. ConsoleTypes'
  <2>1. held' \subseteq {i \in DOMAIN ops' : ops'[i].stage # "over"}
    BY <1>0, <1>1, <1>4, <1>5 DEF ConsoleTypes
  <2> QED
    BY <1>0, <1>1, <1>5, <2>1 DEF ConsoleTypes
<1>8. Bounded'
  BY <1>0, <1>1, <1>5, <1>6, ActsAssumption DEF Bounded, ConsoleTypes
<1>9. Numbered'
  <2>1. \A k \in Affects(c.mutation.call) : 0 <= changed[k]
    BY <1>0, <1>2, ControlFacts, Owed DEF Controls, ConsoleTypes
  <2> QED
    BY <1>0, <1>1, <1>4, <1>5, <1>6, <2>1 DEF Numbered
<1>10. Offered'
  BY <1>0, <1>1, <1>2, <1>4, <1>5 DEF Offered, OnPage, has, ConsoleTypes
<1> QED
  BY <1>0, <1>1, <1>7, <1>8, <1>9, <1>10, ScreenKept DEF ConsoleInv

LEMMA PerformStep ==
  ASSUME ConsoleInv, NEW i \in DOMAIN ops, Perform(i)
  PROVE  ConsoleInv'
<1>0. ConsoleTypes /\ Bounded /\ Numbered /\ Waited /\ CaughtUp /\ Offered /\ Reached
  BY DEF ConsoleInv
<1> DEFINE version == 1 + Cardinality(Performed)
           made == [ops[i] EXCEPT !.stage = "made"]
           o == [made EXCEPT !.version = version]
<1>1. /\ ops[i].stage = "sent" /\ ops' = [ops EXCEPT ![i] = o]
      /\ changed' = [k \in QueryKey |->
           IF k \in Affects(ops[i].control.mutation.call) THEN version ELSE changed[k]]
      /\ UNCHANGED <<granted, page, typed, opened, held, data, failed, fetch, read, seen>>
  BY DEF Perform, Performed, sessionVars, cacheVars
<1>2. /\ IsFiniteSet(Performed) /\ Cardinality(Performed) \in Nat
      /\ version \in Nat /\ version # 0 /\ Cardinality(Performed) <= version
  BY <1>0, CountsOfOps DEF Performed
<1> HIDE DEF version
<1>3. /\ made \in OpType /\ made.control = ops[i].control
      /\ made.stage = "made"
  BY OpFields DEF OpType
<1> HIDE DEF made
<1>4. /\ o \in OpType /\ o.control = ops[i].control
      /\ o.version = version /\ o.stage = "made"
  BY <1>2, <1>3 DEF OpType
<1> HIDE DEF o
<1>5. /\ ops' \in Seq(OpType) /\ DOMAIN ops' = DOMAIN ops /\ Len(ops') = Len(ops)
      /\ \A j \in DOMAIN ops : ops'[j] = IF j = i THEN o ELSE ops[j]
  BY <1>1, <1>4, OtherOps
<1>6. Performed' = Performed \cup {i} /\ i \notin Performed
  <2>1. ops[i].version = 0
    BY <1>0, <1>1 DEF Numbered
  <2> QED
    BY <1>2, <1>4, <1>5, <2>1 DEF Performed
<1>7. Cardinality(Performed') = version
  <2>1. Cardinality(Performed \cup {i}) = Cardinality(Performed) + 1
    BY <1>2, <1>6, FS_AddElement
  <2> QED
    BY <1>2, <1>6, <2>1 DEF version
<1>9. ASSUME NEW k \in QueryKey
      PROVE  /\ changed[k] <= changed'[k] /\ changed'[k] <= version
             /\ k \in Affects(ops[i].control.mutation.call) => changed'[k] = version
  <2>1. changed[k] \in Nat /\ changed[k] <= version
    BY <1>0, <1>2 DEF Numbered, ConsoleTypes
  <2> QED
    BY <1>1, <1>2, <2>1
<1>10. ConsoleTypes'
  BY <1>0, <1>1, <1>2, <1>4, <1>5 DEF ConsoleTypes
<1>11. Bounded'
  BY <1>0, <1>1, <1>5 DEF Bounded
<1>12. Numbered'
  <2>1. ASSUME NEW j \in DOMAIN ops
        PROVE  /\ ops'[j].stage = "sent" => ops'[j].version = 0
               /\ \A k \in Affects(ops'[j].control.mutation.call) : ops'[j].version <= changed'[k]
    <3>1. Affects(ops[j].control.mutation.call) \subseteq QueryKey
      BY OpFields, Owed
    <3>2. CASE j = i
      BY <1>2, <1>4, <1>5, <1>9, <3>1, <3>2
    <3>3. CASE j # i
      <4>1. ops'[j] = ops[j] /\ ops[j].version \in Nat
        BY <1>5, <3>3, OpFields
      <4>2. ASSUME NEW k \in Affects(ops[j].control.mutation.call)
            PROVE  ops[j].version <= changed'[k]
        <5>1. /\ k \in QueryKey /\ ops[j].version <= changed[k]
              /\ changed[k] \in Nat /\ changed'[k] \in Nat
          BY <1>0, <1>10, <3>1 DEF Numbered, ConsoleTypes
        <5> QED
          BY <1>9, <4>1, <5>1
      <4> QED
        BY <1>0, <4>1, <4>2 DEF Numbered
    <3> QED
      BY <3>2, <3>3
  <2>2. ASSUME NEW k \in QueryKey
        PROVE  /\ seen[k] <= changed'[k] /\ read[k] <= changed'[k] /\ data[k] <= changed'[k]
               /\ changed'[k] <= Cardinality(Performed')
    <3>1. /\ changed[k] \in Nat /\ changed'[k] \in Nat /\ seen[k] \in Nat /\ read[k] \in Nat
          /\ data[k] \in Nat \cup {NoData}
          /\ seen[k] <= changed[k] /\ read[k] <= changed[k] /\ data[k] <= changed[k]
      BY <1>0, <1>10 DEF Numbered, ConsoleTypes
    <3> QED
      BY <1>7, <1>9, <3>1 DEF NoData
  <2> QED
    BY <1>1, <1>5, <2>1, <2>2 DEF Numbered
<1>13. Offered'
  BY <1>0, <1>1, <1>4, <1>5 DEF Offered, OnPage, has
<1> QED
  BY <1>0, <1>1, <1>10, <1>11, <1>12, <1>13, ScreenKept DEF ConsoleInv

LEMMA UnsuccessfulStep ==
  ASSUME ConsoleInv, NEW i \in DOMAIN ops, Unsuccessful(i)
  PROVE  ConsoleInv'
<1>0. ConsoleTypes /\ Bounded /\ Numbered /\ Waited /\ CaughtUp /\ Offered /\ Reached
  BY DEF ConsoleInv
<1>1. /\ UNCHANGED <<granted, page, typed, opened, changed>> /\ held' = held \ {i}
      /\ UNCHANGED <<data, failed, fetch, read, seen>>
  BY DEF Unsuccessful, sessionVars, cacheVars
<1>2. /\ ops' \in Seq(OpType) /\ DOMAIN ops' = DOMAIN ops /\ Len(ops') = Len(ops)
      /\ \A j \in DOMAIN ops :
           /\ ops'[j].control = ops[j].control
           /\ ops'[j].version = ops[j].version
           /\ ops'[j].stage = IF j = i THEN "over" ELSE ops[j].stage
      /\ Performed' = Performed
  BY Over DEF Unsuccessful
<1>3. ConsoleTypes'
  BY <1>0, <1>1, <1>2 DEF ConsoleTypes
<1>4. Bounded'
  BY <1>0, <1>1, <1>2 DEF Bounded
<1>5. Numbered'
  BY <1>0, <1>1, <1>2 DEF Numbered
<1>6. Offered'
  BY <1>0, <1>1, <1>2 DEF Offered, OnPage, has
<1> QED
  BY <1>0, <1>1, <1>3, <1>4, <1>5, <1>6, ScreenKept DEF ConsoleInv

\* What a success does to the queries: those invalidated on the screen are
\* sent anew, and a page it leads to is shown.
LEMMA SuccessFetches ==
  ASSUME ConsoleInv, NEW i \in DOMAIN ops, Success(i)
  PROVE  LET o == ops[i]
             onScreen == Active(page, data, failed)
             again == onScreen \cap o.control.mutation.invalidates
             led == o.control.next # None /\ i \in held
             next == IF led THEN o.control.next ELSE page
             mounted == IF led THEN Active(next, data, failed) ELSE {}
         IN  /\ fetch' \in [QueryKey -> {"none", "sent", "read"}]
             /\ failed' \in [QueryKey -> BOOLEAN] /\ seen' \in [QueryKey -> Nat]
             /\ \A k \in QueryKey :
                  /\ fetch'[k] \in {"sent", fetch[k]}
                  /\ k \in again \cup mounted => fetch'[k] # "none"
                  /\ k \in again /\ data[k] # NoData => fetch'[k] = "sent"
                  /\ failed'[k] <=> failed[k] /\ ~(k \in again \cup mounted /\ data[k] = NoData)
                  /\ \/ seen'[k] = seen[k]
                     \/ /\ k \in onScreen \cap Promised(o.control.mutation.call)
                        /\ data[k] # NoData
                        /\ seen'[k] \in {seen[k], o.version}
<1> DEFINE o == ops[i]
           onScreen == Active(page, data, failed)
           again == onScreen \cap o.control.mutation.invalidates
           led == o.control.next # None /\ i \in held
           next == IF led THEN o.control.next ELSE page
           mounted == IF led THEN Active(next, data, failed) ELSE {}
           fetchAfter == Fetching({}, again, data)
<1>0. ConsoleTypes /\ o.version \in Nat
  BY OpFields DEF ConsoleInv
<1>1. /\ fetch' = [k \in QueryKey |->
             IF k \in mounted /\ fetchAfter[k] = "none" THEN "sent" ELSE fetchAfter[k]]
      /\ failed' = Failures(failed, data, again \cup mounted)
      /\ seen' = [k \in QueryKey |->
             IF k \in onScreen \cap Promised(o.control.mutation.call) /\ data[k] # NoData
             THEN Max({seen[k], o.version}) ELSE seen[k]]
  BY DEF Success
<1>2. \A k \in QueryKey :
        fetchAfter[k] = IF k \in again /\ ~(fetch[k] # "none" /\ data[k] = NoData)
                        THEN "sent" ELSE fetch[k]
  BY DEF Fetching, Joins
<1> HIDE DEF fetchAfter, mounted, led, next, again, onScreen, o
<1>3. /\ fetch' \in [QueryKey -> {"none", "sent", "read"}]
      /\ \A k \in QueryKey :
           /\ fetch'[k] \in {"sent", fetch[k]}
           /\ k \in again \cup mounted => fetch'[k] # "none"
           /\ k \in again /\ data[k] # NoData => fetch'[k] = "sent"
  BY <1>0, <1>1, <1>2 DEF ConsoleTypes
<1>4. /\ failed' \in [QueryKey -> BOOLEAN]
      /\ \A k \in QueryKey :
           failed'[k] <=> failed[k] /\ ~(k \in again \cup mounted /\ data[k] = NoData)
  BY <1>0, <1>1 DEF Failures, ConsoleTypes
<1>5. ASSUME NEW k \in QueryKey
      PROVE  /\ seen'[k] \in Nat
             /\ \/ seen'[k] = seen[k]
                \/ /\ k \in onScreen \cap Promised(o.control.mutation.call) /\ data[k] # NoData
                   /\ seen'[k] \in {seen[k], o.version}
  <2>1. seen[k] \in Nat
    BY <1>0 DEF ConsoleTypes
  <2>2. Max({seen[k], o.version}) \in {seen[k], o.version}
    BY <1>0, <2>1, MaxOfTwo
  <2> QED
    BY <1>0, <1>1, <2>1, <2>2
<1>6. seen' \in [QueryKey -> Nat]
  BY <1>1, <1>5
<1> QED
  BY <1>3, <1>4, <1>5, <1>6 DEF mounted, led, next, again, onScreen, o

LEMMA SuccessStep ==
  ASSUME ConsoleInv, NEW i \in DOMAIN ops, Success(i)
  PROVE  ConsoleInv'
<1> DEFINE o == ops[i]
           onScreen == Active(page, data, failed)
           again == onScreen \cap o.control.mutation.invalidates
           led == o.control.next # None /\ i \in held
           next == IF led THEN o.control.next ELSE page
           mounted == IF led THEN Active(next, data, failed) ELSE {}
<1>0. ConsoleTypes /\ Bounded /\ Numbered /\ Waited /\ CaughtUp /\ Offered /\ Reached
  BY DEF ConsoleInv
<1>1. /\ page' = next /\ held' = IF led THEN {} ELSE held \ {i}
      /\ UNCHANGED <<granted, typed, opened, changed, data, read>>
  BY DEF Success
<1>2. /\ ops' \in Seq(OpType) /\ DOMAIN ops' = DOMAIN ops /\ Len(ops') = Len(ops)
      /\ \A j \in DOMAIN ops :
           /\ ops'[j].control = ops[j].control
           /\ ops'[j].version = ops[j].version
           /\ ops'[j].stage = IF j = i THEN "over" ELSE ops[j].stage
      /\ Performed' = Performed
  BY Over DEF Success
<1>3. /\ fetch' \in [QueryKey -> {"none", "sent", "read"}]
      /\ failed' \in [QueryKey -> BOOLEAN] /\ seen' \in [QueryKey -> Nat]
      /\ \A k \in QueryKey :
           /\ fetch'[k] \in {"sent", fetch[k]}
           /\ k \in again \cup mounted => fetch'[k] # "none"
           /\ k \in again /\ data[k] # NoData => fetch'[k] = "sent"
           /\ failed'[k] <=> failed[k] /\ ~(k \in again \cup mounted /\ data[k] = NoData)
           /\ \/ seen'[k] = seen[k]
              \/ /\ k \in onScreen \cap Promised(o.control.mutation.call)
                 /\ data[k] # NoData
                 /\ seen'[k] \in {seen[k], o.version}
  BY SuccessFetches
<1>4. /\ Promised(o.control.mutation.call) \subseteq o.control.mutation.invalidates
      /\ Promised(o.control.mutation.call) \subseteq Affects(o.control.mutation.call)
  BY OpFields, Owed
\* A page led to shows servers, and was led to from one that has the right to.
<1>5. led => /\ next \in {"servers", "server"}
             /\ PartOf(next).view = "servers.view"
             /\ ~typed => has("servers.view")
  <2> SUFFICES ASSUME led
               PROVE  /\ o.control.next \in {"servers", "server"}
                      /\ page \in {"newServer", "server", "editServer"}
    BY <1>0, ViewsAre DEF Reached, None
  <2>1. PICK p \in {page} \cup PartOf(page).inside : o.control \in PartOf(p).controls
    BY <1>0 DEF Offered, OnPage
  <2>2. p \in Part
    BY <1>0, InsideIsPart DEF ConsoleTypes
  <2>3. o.control.next \in {"servers", "server"} /\ p \in {"newServer", "server", "editServer"}
    BY <2>1, <2>2, ControlFacts
  <2>4. PartOf(page).inside # {} =>
          PartOf(page).inside = {"testConnectionButton", "tokensPanel"}
    BY <1>0, PartQueries DEF Part, ConsoleTypes
  <2> QED
    BY <2>1, <2>3, <2>4
<1>6. next \in DOMAIN hostingControlRoutes
  BY <1>0, <1>5, PageNames DEF ConsoleTypes
<1>7. onScreen \subseteq QueryKey /\ mounted \subseteq QueryKey
  BY <1>0, <1>6, OnScreenAreKeys DEF ConsoleTypes
<1>8. Active(next, data, failed') = Active(next, data, failed)
  <2>1. \A k \in QueryKey : (data[k] # NoData /\ ~failed'[k]) <=> (data[k] # NoData /\ ~failed[k])
    BY <1>3
  <2> QED
    BY <1>6, <2>1, SameScreen
<1>9. led => mounted = Active(next, data, failed)
  OBVIOUS
<1>10. ~led => next = page
  OBVIOUS
<1>11. led => i \in held /\ o.control.next # None
  OBVIOUS
<1>12. again = onScreen \cap o.control.mutation.invalidates
  OBVIOUS
<1> HIDE DEF again, mounted, next, led
<1>13. ConsoleTypes'
  BY <1>0, <1>1, <1>2, <1>3, <1>6 DEF ConsoleTypes
<1>14. Bounded'
  BY <1>0, <1>1, <1>2 DEF Bounded
<1>15. Numbered'
  <2>1. ASSUME NEW k \in QueryKey
        PROVE  seen'[k] <= changed[k]
    BY <1>0, <1>3, <1>4 DEF Numbered
  <2> QED
    BY <1>0, <1>1, <1>2, <2>1 DEF Numbered
<1>16. Waited'
  <2> SUFFICES ASSUME NEW k \in Active(next, data, failed)
               PROVE  data[k] # NoData \/ failed'[k] \/ fetch'[k] # "none"
    BY <1>1, <1>8, NextScreen DEF Waited
  <2>1. CASE led
    BY <1>3, <1>7, <1>9, <2>1
  <2>2. CASE ~led
    <3>1. k \in QueryKey /\ (data[k] # NoData \/ failed[k] \/ fetch[k] # "none")
      BY <1>0, <1>7, <1>10, <2>2 DEF Waited
    <3> QED
      BY <1>3, <3>1
  <2> QED
    BY <2>1, <2>2
<1>17. CaughtUp'
  <2> SUFFICES ASSUME NEW k \in QueryKey
               PROVE  /\ fetch'[k] = "none" /\ data[k] # NoData /\ ~failed'[k] =>
                           data[k] >= seen'[k]
                      /\ fetch'[k] = "read" => read[k] >= seen'[k]
    BY <1>1 DEF CaughtUp, Loaded
  <2>1. seen'[k] # seen[k] => fetch'[k] = "sent"
    BY <1>3, <1>4, <1>12
  <2>2. data[k] # NoData => (failed'[k] <=> failed[k])
    BY <1>3
  <2>3. fetch'[k] \in {"sent", fetch[k]}
    BY <1>3
  <2>4. /\ fetch[k] = "none" /\ data[k] # NoData /\ ~failed[k] => data[k] >= seen[k]
        /\ fetch[k] = "read" => read[k] >= seen[k]
    BY <1>0 DEF CaughtUp, Loaded
  <2> QED
    BY <2>1, <2>2, <2>3, <2>4
<1>18. Offered'
  <2>1. ASSUME NEW j \in DOMAIN ops
        PROVE  /\ has(ops[j].control.permission)
               /\ j \in held' => page' = page /\ OnPage(ops[j].control)
    BY <1>0, <1>1, <1>10 DEF Offered
  <2> QED
    BY <1>1, <1>2, <2>1 DEF Offered, OnPage, has
<1>19. Reached'
  <2>1. CASE led
    BY <1>1, <1>5, <2>1 DEF Reached, has
  <2>2. CASE ~led
    BY <1>0, <1>1, <1>10, <2>2 DEF Reached, has
  <2> QED
    BY <2>1, <2>2
<1> QED
  BY <1>13, <1>14, <1>15, <1>16, <1>17, <1>18, <1>19 DEF ConsoleInv

LEMMA ConsoleStep == ConsoleInv /\ [Next]_vars => ConsoleInv'
<1>1. ASSUME ConsoleInv, UNCHANGED vars
      PROVE  ConsoleInv'
  <2>1. /\ UNCHANGED <<granted, page, typed, opened, changed, ops, held>>
        /\ UNCHANGED <<data, failed, fetch, read, seen>>
    BY <1>1 DEF vars
  <2>2. Performed' = Performed
    BY <2>1 DEF Performed
  <2>3. ConsoleTypes' /\ Bounded' /\ Numbered' /\ Offered'
    BY <1>1, <2>1, <2>2 DEF ConsoleInv, ConsoleTypes, Bounded, Numbered, Offered, OnPage, has
  <2> QED
    BY <1>1, <2>1, <2>3, ScreenKept DEF ConsoleInv
<1> QED
  BY <1>1, NavigateStep, AnswerStep, RenderStep, MutateStep, PerformStep, UnsuccessfulStep,
     SuccessStep DEF Next

LEMMA ConsoleStart == Init => ConsoleInv
<1> SUFFICES ASSUME Init PROVE ConsoleInv
  OBVIOUS
<1>1. ConsoleTypes
  BY DEF Init, ConsoleTypes, NoData
<1>2. Performed = {} /\ Len(ops) = 0 /\ DOMAIN ops = {}
  BY DEF Init, Performed
<1>3. Bounded /\ Numbered
  BY <1>2, FS_EmptySet, ActsAssumption DEF Init, Bounded, Numbered, NoData
<1>4. Waited
  <2>1. \A x \in Part : PartOf(x).inside # {} => PartOf(x).query = "server"
    BY PartQueries
  <2>2. Parts(page, data, failed) = {page}
    BY <2>1, Keys DEF Init, Parts, Ready, Part, None
  <2>3. \A k \in Active(page, data, failed) : k = PartOf(page).query /\ k \in QueryKey
    BY <1>1, <2>2, OnScreenAreKeys DEF Active, ConsoleTypes
  <2> QED
    BY <2>3 DEF Waited, Init
<1>5. CaughtUp /\ Offered /\ Reached
  BY <1>2 DEF Init, CaughtUp, Loaded, Offered, Reached
<1> QED
  BY <1>1, <1>3, <1>4, <1>5 DEF ConsoleInv

THEOREM ConsoleInvariant == FrontendSpec => []ConsoleInv
<1>1. FrontendInit => ConsoleInv
  BY ConsoleStart DEF FrontendInit
<1>2. ConsoleInv /\ [FrontendNext]_frontendVars => ConsoleInv'
  BY ConsoleStep DEF FrontendNext, frontendVars
<1> QED
  BY <1>1, <1>2, PTL DEF FrontendSpec

\* The state stays within its types, the versions and the pages opened within
\* what the person has done, and a page never waits for a query nobody runs.
THEOREM ConsoleTypeCorrect == FrontendSpec => []ConsoleTypeOK
<1>1. ConsoleInv => ConsoleTypeOK
  <2> SUFFICES ASSUME ConsoleInv PROVE ConsoleTypeOK
    OBVIOUS
  <2>0. ConsoleTypes /\ Bounded /\ Numbered /\ Waited
    BY DEF ConsoleInv
  <2>1. /\ Cardinality(Performed) \in Nat /\ Cardinality(Performed) <= Len(ops)
        /\ Len(ops) \in Nat
    BY <2>0, CountsOfOps DEF Performed, ConsoleTypes
  <2>3. ASSUME NEW k \in QueryKey
        PROVE  /\ changed[k] \in Version /\ seen[k] \in Version /\ read[k] \in Version
               /\ data[k] \in Version \cup {NoData}
    <3>1. /\ changed[k] \in Nat /\ seen[k] \in Nat /\ read[k] \in Nat
          /\ data[k] \in Nat \cup {NoData}
          /\ seen[k] <= changed[k] /\ read[k] <= changed[k] /\ data[k] <= changed[k]
          /\ changed[k] <= Len(ops) /\ opened \in Nat /\ opened + Len(ops) <= MaxActs
      BY <2>0, <2>1 DEF ConsoleTypes, Numbered, Bounded
    <3> QED
      BY <2>1, <3>1, ActsAssumption DEF Version, NoData
  <2>4. /\ changed \in [QueryKey -> Version] /\ seen \in [QueryKey -> Version]
        /\ data \in [QueryKey -> Version \cup {NoData}] /\ read \in [QueryKey -> Version]
    BY <2>0, <2>3 DEF ConsoleTypes
  <2> QED
    BY <2>0, <2>4 DEF ConsoleTypeOK, ConsoleTypes, Bounded, Waited
<1> QED
  BY <1>1, ConsoleInvariant, PTL

\* Every call a control has started is routed and permitted for the person, and
\* one who keeps to the links is not shown Forbidden, for every set of
\* permissions a session may have.
THEOREM OfferedIsAllowed == FrontendSpec => []OfferedMeansAllowed
<1>1. ConsoleInv => OfferedMeansAllowed
  <2> SUFFICES ASSUME ConsoleInv PROVE OfferedMeansAllowed
    OBVIOUS
  <2>1. ASSUME NEW i \in DOMAIN ops
        PROVE  \E route \in ServesRoute(ops[i].control.mutation.call) : has(route.permission)
    BY OpFields DEF Serves, ConsoleInv, Offered
  <2> QED
    BY <2>1 DEF ConsoleInv, Reached, OfferedMeansAllowed
<1> QED
  BY <1>1, ConsoleInvariant, PTL

\* A query that was on the screen, with data, when a person's own change was
\* confirmed does not go on showing what it showed before, whatever order
\* answers come in and wherever the person has been meanwhile.
THEOREM OwnChangesAreShown == FrontendSpec => []OwnChangesShown
<1>1. ConsoleInv => OwnChangesShown
  BY OnScreenAreKeys DEF ConsoleInv, ConsoleTypes, CaughtUp, OwnChangesShown
<1> QED
  BY <1>1, ConsoleInvariant, PTL
==============================================================================
