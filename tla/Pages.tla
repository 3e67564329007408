-------------------------------- MODULE Pages --------------------------------
(***************************************************************************)
(* What the two frontends show and offer: the pages and panels of the      *)
(* React frontend with the queries behind them and the controls on them,   *)
(* and the page in HTML the backend serves at /ui.  One server and one     *)
(* account stand for all of them.                                          *)
(***************************************************************************)
EXTENDS ApiRoutes

\* The queries, by the second part of their key, and the call behind each.
serversApiList == <<"GET", "/servers">>
Query == [
  servers |-> serversApiList, server |-> <<"GET", "/servers/:id">>,
  tokens |-> <<"GET", "/servers/:id/tokens">>, accounts |-> <<"GET", "/accounts">>,
  emails |-> <<"GET", "/accounts/:id/email-accounts">>,
  domains |-> <<"GET", "/accounts/:id/domains">>,
  databases |-> <<"GET", "/accounts/:id/databases">>]
QueryKey == DOMAIN Query

\* A mutation: its call, and the queries its hook invalidates on success.
Mutation(call, invalidates) == [call |-> call, invalidates |-> invalidates]

\* Faulty variant: the server's own page is left as it was.
useUpdateServerListOnly == Mutation(<<"PATCH", "/servers/:id">>, {"servers"})

useCreateServer == Mutation(<<"POST", "/servers">>, {"servers"})
useUpdateServer == Mutation(<<"PATCH", "/servers/:id">>, {"servers", "server"})
useDeleteServer == Mutation(<<"DELETE", "/servers/:id">>, {"servers"})
useTestConnection == Mutation(<<"POST", "/servers/:id/test-connection">>, {"server"})
useCreateToken == Mutation(<<"POST", "/servers/:id/tokens">>, {"tokens"})
useDeleteToken == Mutation(<<"DELETE", "/tokens/:id">>, {"tokens"})
useCreateEmail == Mutation(<<"POST", "/accounts/:id/email-accounts">>, {"emails"})
useDeleteEmail == Mutation(<<"DELETE", "/accounts/:id/email-accounts/:name">>, {"emails"})
useTriggerAutoSsl == Mutation(<<"POST", "/accounts/:id/domains/autossl">>, {"domains"})
useCreateDatabase == Mutation(<<"POST", "/accounts/:id/databases">>, {"databases"})
useCreateDatabaseUser == Mutation(<<"POST", "/accounts/:id/database-users">>, {"databases"})
useDeleteDatabase == Mutation(<<"DELETE", "/accounts/:id/databases/:name">>, {"databases"})
\* Not used by any page.
useUpdateToken == Mutation(<<"PATCH", "/tokens/:id">>, {"tokens"})
useSyncServer == Mutation(<<"POST", "/servers/:id/sync">>, {"accounts"})

(***************************************************************************)
(* A page, or a panel of its own within one: the permission it asks for    *)
(* first, the query it waits for (or none), the controls that start a      *)
(* mutation with the permission each is shown for and the page it leads to *)
(* on success, the links, and the panels inside.  A link is there with the *)
(* permission alone, as soon as there is something to list (an error may   *)
(* stand above it), or only when the page has loaded.                      *)
(***************************************************************************)
None == "none"
Control(permission, mutation, next) ==
  [permission |-> permission, mutation |-> mutation, next |-> next]
Link(permission, to, needs) == [permission |-> permission, to |-> to, needs |-> needs]
Page(view, query, controls, links, inside) ==
  [view |-> view, query |-> query, controls |-> controls, links |-> links, inside |-> inside]

ServersListPage ==
  Page("servers.view", "servers", {},
       {Link("servers.create", "newServer", "nothing"), Link("servers.view", "server", "data")}, {})

\* useServer runs before the permission is looked at, as every query does.
ServerDetailPage ==
  Page("servers.view", "server",
       {Control("servers.delete", useDeleteServer, "servers")},
       {Link("servers.edit", "editServer", "loaded")}, {"testConnectionButton", "tokensPanel"})

TestConnectionButton ==
  Page("servers.test", None, {Control("servers.test", useTestConnection, None)}, {}, {})

TokensPanel ==
  Page("tokens.view", "tokens",
       {Control("tokens.create", useCreateToken, None),
        Control("tokens.delete", useDeleteToken, None)}, {}, {})

ServerFormPage(editing) ==
  IF editing
  THEN Page("servers.edit", "server", {Control("servers.edit", useUpdateServer, "server")}, {}, {})
  ELSE Page("servers.create", None, {Control("servers.create", useCreateServer, "server")}, {}, {})

AccountsPage ==
  Page("accounts.view", "accounts", {},
       {Link("email.view", "emails", "data"), Link("domains.view", "domains", "data"),
        Link("databases.view", "databases", "data")}, {})

EmailPage ==
  Page("email.view", "emails",
       {Control("email.manage", useCreateEmail, None),
        Control("email.manage", useDeleteEmail, None)}, {}, {})

\* Faulty variant: the button is shown to everybody who sees the page.
DomainsPageOpen ==
  Page("domains.view", "domains", {Control("domains.view", useTriggerAutoSsl, None)}, {}, {})

DomainsPage ==
  Page("domains.view", "domains", {Control("domains.manage", useTriggerAutoSsl, None)}, {}, {})

DatabasesPage ==
  Page("databases.view", "databases",
       {Control("databases.manage", m, None) :
          m \in {useCreateDatabase, useCreateDatabaseUser, useDeleteDatabase}}, {}, {})

\* Placeholders: metrics, FTP, deployments.
PlaceholderPage == Page(None, None, {}, {}, {})

hostingControlRoutes == [
  servers |-> ServersListPage, newServer |-> ServerFormPage(FALSE),
  server |-> ServerDetailPage, editServer |-> ServerFormPage(TRUE),
  accounts |-> AccountsPage, emails |-> EmailPage, domains |-> DomainsPage,
  databases |-> DatabasesPage, metrics |-> PlaceholderPage, ftp |-> PlaceholderPage,
  deployments |-> PlaceholderPage]

\* The pages by their route, and the panels inside one of them.
Part == DOMAIN hostingControlRoutes \cup ServerDetailPage.inside
PartOf(p) ==
  CASE p = "testConnectionButton" -> TestConnectionButton
    [] p = "tokensPanel" -> TokensPanel
    [] OTHER -> hostingControlRoutes[p]

HostingControlLayout ==
  {Link("servers.view", "servers", "nothing"), Link("accounts.view", "accounts", "nothing"),
   Link("deployments.view", "deployments", "nothing")}

(***************************************************************************)
(* The page at /ui: it offers everything to everybody and loads the table  *)
(* of servers again after some of its calls.                               *)
(***************************************************************************)
Action(call, reloads) == [call |-> call, reloads |-> reloads]

\* Faulty variant: the count of tokens is left as it was.
TokenRowsNoReload == {Action(<<"POST", "/servers/:id/tokens">>, {"servers"}),
                      Action(<<"DELETE", "/tokens/:id">>, {})}

AddServer == Action(<<"POST", "/servers">>, {"servers"})
TokenRows == {Action(<<"POST", "/servers/:id/tokens">>, {"servers"}),
              Action(<<"DELETE", "/tokens/:id">>, {"servers"})}
TestServer == Action(<<"POST", "/servers/:id/test-connection">>, {"servers"})
SyncServer == Action(<<"POST", "/servers/:id/sync">>, {})
DeleteServer == Action(<<"DELETE", "/servers/:id">>, {"servers"})

\* Those whose button is disabled until they are over.
Disabling == {TestServer, SyncServer}
InlineActions == {AddServer, DeleteServer} \cup TokenRows \cup Disabling

(***************************************************************************)
(* The queries whose answer a successful call changes: what the services   *)
(* write, and what the lists count.                                        *)
(***************************************************************************)
Affects(call) ==
  CASE call = AddServer.call -> {"servers"}
    [] call = useUpdateServer.call -> {"servers", "server"}
    [] call \in {DeleteServer.call, TestServer.call} -> {"servers", "server", "tokens"}
    [] call \in {useCreateToken.call, useDeleteToken.call} -> {"tokens", "servers", "server"}
    [] call = SyncServer.call -> {"accounts", "servers", "server", "tokens"}
    [] call \in {useCreateEmail.call, useDeleteEmail.call} -> {"emails"}
    [] call = useTriggerAutoSsl.call -> {"domains"}
    [] OTHER -> {"databases"}
==============================================================================
