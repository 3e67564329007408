------------------------------ MODULE ApiRoutes ------------------------------
(***************************************************************************)
(* The HTTP interface of the extension: which requests it serves, what     *)
(* each of them asks for, and the status it is answered with when all goes *)
(* well.  Paths are patterns; the parameters in them are called :id and    *)
(* :name whatever the source calls them, as a router matches them by place. *)
(***************************************************************************)
EXTENDS Naturals

Permission == {
  "view", "admin",
  "servers.view", "servers.create", "servers.edit", "servers.delete", "servers.test",
  "tokens.view", "tokens.create", "tokens.edit", "tokens.delete",
  "accounts.view", "metrics.view", "email.view", "email.manage",
  "domains.view", "domains.manage", "databases.view", "databases.manage",
  "ftp.view", "ftp.manage", "deployments.view", "deployments.run", "deployments.rollback"}

\* Statuses of the errors the extension raises itself.
Errors == [
  validation |-> 422, unauthenticated |-> 401, forbidden |-> 403,
  tenantContextMissing |-> 401, notFound |-> 404, conflict |-> 409,
  notConfigured |-> 503, notImplemented |-> 501, internal |-> 500]

\* What a controller method replies with once its service call has succeeded.
ServersController == [list |-> 200, create |-> 201, getById |-> 200, update |-> 200,
                      remove |-> 204, testConnection |-> 200]
TokensController == [listForServer |-> 200, create |-> 201, getById |-> 200,
                     update |-> 200, remove |-> 204]
AccountsController == [list |-> 200, getById |-> 200, refresh |-> 200,
                       getMetrics |-> 200, syncServer |-> 200]
EmailController == [list |-> 200, create |-> 201, update |-> 200, remove |-> 204]
DomainsController == [list |-> 200, autoSsl |-> 200]
DatabasesController == [overview |-> 200, createDatabase |-> 201, createUser |-> 201,
                        assignUser |-> 200, deleteDatabase |-> 204, deleteUser |-> 204]
Stub == Errors.notImplemented

\* A route: the permission it asks for, the parts of the request it validates,
\* and the status of its handler.
Route(method, path, permission, parts, status) ==
  [call |-> <<method, path>>, permission |-> permission, parts |-> parts, status |-> status]

ServersRoutes == {
  Route("GET", "/servers", "servers.view", {"query"}, ServersController.list),
  Route("POST", "/servers", "servers.create", {"body"}, ServersController.create),
  Route("GET", "/servers/:id", "servers.view", {"params"}, ServersController.getById),
  Route("PATCH", "/servers/:id", "servers.edit", {"params", "body"}, ServersController.update),
  Route("DELETE", "/servers/:id", "servers.delete", {"params"}, ServersController.remove),
  Route("POST", "/servers/:id/test-connection", "servers.test", {"params"},
        ServersController.testConnection)}

TokensRoutes == {
  Route("GET", "/servers/:id/tokens", "tokens.view", {"params"}, TokensController.listForServer),
  Route("POST", "/servers/:id/tokens", "tokens.create", {"params", "body"},
        TokensController.create),
  Route("GET", "/tokens/:id", "tokens.view", {"params"}, TokensController.getById),
  Route("PATCH", "/tokens/:id", "tokens.edit", {"params", "body"}, TokensController.update),
  Route("DELETE", "/tokens/:id", "tokens.delete", {"params"}, TokensController.remove)}

AccountsRoutes == {
  Route("GET", "/accounts", "accounts.view", {"query"}, AccountsController.list),
  Route("GET", "/accounts/:id", "accounts.view", {"params"}, AccountsController.getById),
  Route("POST", "/accounts/:id/refresh", "accounts.view", {"params"}, AccountsController.refresh),
  Route("GET", "/accounts/:id/metrics", "metrics.view", {"params"}, AccountsController.getMetrics),
  Route("POST", "/servers/:id/sync", "accounts.view", {"params"}, AccountsController.syncServer),
  Route("GET", "/accounts/:id/ftp-accounts", "ftp.view", {"params"}, Stub),
  Route("POST", "/accounts/:id/deployments", "deployments.run", {"params"}, Stub),
  Route("GET", "/accounts/:id/deployments", "deployments.view", {"params"}, Stub)}

EmailRoutes == {
  Route("GET", "/accounts/:id/email-accounts", "email.view", {"params"}, EmailController.list),
  Route("POST", "/accounts/:id/email-accounts", "email.manage", {"params", "body"},
        EmailController.create),
  Route("PATCH", "/accounts/:id/email-accounts/:name", "email.manage", {"params", "body"},
        EmailController.update),
  Route("DELETE", "/accounts/:id/email-accounts/:name", "email.manage", {"params"},
        EmailController.remove)}

DomainsRoutes == {
  Route("GET", "/accounts/:id/domains", "domains.view", {"params"}, DomainsController.list),
  Route("POST", "/accounts/:id/domains/autossl", "domains.manage", {"params"},
        DomainsController.autoSsl)}

DatabasesRoutes == {
  Route("GET", "/accounts/:id/databases", "databases.view", {"params"},
        DatabasesController.overview),
  Route("POST", "/accounts/:id/databases", "databases.manage", {"params", "body"},
        DatabasesController.createDatabase),
  Route("POST", "/accounts/:id/database-users", "databases.manage", {"params", "body"},
        DatabasesController.createUser),
  Route("POST", "/accounts/:id/database-assignments", "databases.manage", {"params", "body"},
        DatabasesController.assignUser),
  Route("DELETE", "/accounts/:id/databases/:name", "databases.manage", {"params"},
        DatabasesController.deleteDatabase),
  Route("DELETE", "/accounts/:id/database-users/:name", "databases.manage", {"params"},
        DatabasesController.deleteUser)}

DeploymentsRoutes == {
  Route("GET", "/deployments/:id", "deployments.view", {"params"}, Stub),
  Route("POST", "/deployments/:id/rollback", "deployments.rollback", {"params"}, Stub)}

Routes == ServersRoutes \cup TokensRoutes \cup AccountsRoutes \cup EmailRoutes
          \cup DomainsRoutes \cup DatabasesRoutes \cup DeploymentsRoutes

ServesRoute(call) == {r \in Routes : r.call = call}

\* The guard of a route: its own permission, or the superuser's.
Permits(granted, permission) == permission \in granted \/ "admin" \in granted
==============================================================================
