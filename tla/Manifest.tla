------------------------------ MODULE Manifest -------------------------------
(***************************************************************************)
(* extension.manifest.json, from which the platform's dashboard draws its  *)
(* views and whose actions it offers as tools, and                         *)
(* scripts/validate-manifest.ts, which decides whether a manifest may be   *)
(* published.  A path is told by the call it stands for, without its query *)
(* string, and by where it is: under the prefix of the API, under another  *)
(* one that begins with the same letters, or elsewhere.                    *)
(***************************************************************************)
EXTENDS ApiRoutes

CONSTANT Manifests  \* manifests a developer may come up with

VARIABLES
  manifest,  \* the manifest that is validated
  verdict    \* none, valid, or invalid

manifestVars == <<manifest, verdict>>

\* One name stands for all that are not in the extension's namespace.
Name == Permission \cup {"foreign"}
Namespaced(name) == name # "foreign"

Place == {"own", "neighbour", "outside"}
\* startsWith(prefix): the prefix does not end in a slash.
UnderPrefix(place) == place \in {"own", "neighbour"}

(***************************************************************************)
(* The schema, as far as the checks after it look at it.  An action may    *)
(* ask for no permission.  Slug, table prefix and environment are checked  *)
(* on their own; they are kept as one verdict.                             *)
(***************************************************************************)
NoPermission == "none"
viewActionSchema ==
  [call : STRING \X STRING, place : Place, permission : Name \cup {NoPermission}]
detailSectionSchema ==
  [call : STRING \X STRING, place : Place, permission : Name, actions : SUBSET viewActionSchema]
viewSchema ==
  [call : STRING \X STRING, place : Place, permission : Name,
   actions : SUBSET viewActionSchema, sections : SUBSET detailSectionSchema]
manifestSchema ==
  [identityOk : BOOLEAN, envOk : BOOLEAN, apiPrefix : Place, permissions : SUBSET Name,
   requiredPermissions : SUBSET Name, views : SUBSET viewSchema, tools : SUBSET (STRING \X STRING)]

ASSUME ManifestsAssumption == Manifests \subseteq manifestSchema

(***************************************************************************)
(* The manifest of this repository.                                        *)
(***************************************************************************)
ViewAction(method, path, permission) ==
  [call |-> <<method, path>>, place |-> "own", permission |-> permission]
Section(path, permission, actions) ==
  [call |-> <<"GET", path>>, place |-> "own", permission |-> permission, actions |-> actions]

ServersView == [
  call |-> <<"GET", "/servers">>, place |-> "own", permission |-> "servers.view",
  actions |-> {
    ViewAction("POST", "/servers", NoPermission),
    ViewAction("POST", "/servers/:id/tokens", NoPermission),
    ViewAction("POST", "/servers/:id/test-connection", NoPermission),
    ViewAction("POST", "/servers/:id/sync", NoPermission),
    ViewAction("DELETE", "/servers/:id", NoPermission)},
  sections |-> {}]

\* Faulty variant, for the mutation runs: the deletion goes to the list.
EmailsSectionListDelete == Section("/accounts/:id/email-accounts", "email.view", {
  ViewAction("POST", "/accounts/:id/email-accounts", "email.manage"),
  ViewAction("DELETE", "/accounts/:id/email-accounts", "email.manage")})

EmailsSection == Section("/accounts/:id/email-accounts", "email.view", {
  ViewAction("POST", "/accounts/:id/email-accounts", "email.manage"),
  ViewAction("DELETE", "/accounts/:id/email-accounts/:name", "email.manage")})

AccountsView == [
  call |-> <<"GET", "/accounts">>, place |-> "own", permission |-> "accounts.view",
  actions |-> {ViewAction("POST", "/accounts/:id/refresh", NoPermission)},
  sections |-> {
    Section("/accounts/:id/metrics", "metrics.view", {}),
    EmailsSection,
    Section("/accounts/:id/domains", "domains.view", {
      ViewAction("POST", "/accounts/:id/domains/autossl", "domains.manage")}),
    Section("/accounts/:id/databases", "databases.view", {
      ViewAction("POST", "/accounts/:id/databases", "databases.manage"),
      ViewAction("POST", "/accounts/:id/database-users", "databases.manage"),
      ViewAction("DELETE", "/accounts/:id/databases/:name", "databases.manage")})}]

Tools == {
  <<"GET", "/servers">>, <<"POST", "/servers">>, <<"POST", "/servers/test">>,
  <<"POST", "/servers/delete">>, <<"POST", "/tokens/list">>, <<"POST", "/tokens">>,
  <<"POST", "/tokens/delete">>}

ExtensionManifest == [
  identityOk |-> TRUE, envOk |-> TRUE, apiPrefix |-> "own", permissions |-> Permission,
  requiredPermissions |-> {"view"}, views |-> {ServersView, AccountsView}, tools |-> Tools]

(***************************************************************************)
(* The checks.                                                             *)
(***************************************************************************)
CheckAction(m, action) ==
  /\ UnderPrefix(action.place)
  /\ action.permission # NoPermission => action.permission \in m.permissions

CheckSection(m, section) ==
  /\ section.permission \in m.permissions /\ UnderPrefix(section.place)
  /\ \A a \in section.actions : CheckAction(m, a)

CheckView(m, view) ==
  /\ view.permission \in m.permissions /\ UnderPrefix(view.place)
  /\ \A a \in view.actions : CheckAction(m, a)
  /\ \A s \in view.sections : CheckSection(m, s)

\* The tools are not in the schema: nothing looks at them.
validateManifest(m) ==
  /\ m.identityOk /\ m.envOk
  /\ UnderPrefix(m.apiPrefix)
  /\ \A name \in m.permissions : Namespaced(name)
  /\ m.requiredPermissions \subseteq m.permissions
  /\ \A view \in m.views : CheckView(m, view)

manifestInit == manifest \in Manifests /\ verdict = "none"

\* main: the exit status is what a build looks at.
manifestNext ==
  /\ verdict = "none"
  /\ verdict' = IF validateManifest(manifest) THEN "valid" ELSE "invalid"
  /\ UNCHANGED manifest

(***************************************************************************)
(* Properties.                                                             *)
(***************************************************************************)
\* Everything the dashboard would draw from the manifest, however deep.
Drawn(m) ==
  m.views
  \cup UNION {v.actions \cup v.sections \cup UNION {s.actions : s \in v.sections} : v \in m.views}

\* Manifest, routes and validation, written in three places, agree: the
\* repository's manifest is valid, whatever the dashboard draws from it is
\* served by a route, a permission it is drawn for is the one the route asks
\* for ("double-gated"), and each permission a route asks for can be granted.
ShippedManifestServed ==
  verdict # "none" /\ manifest = ExtensionManifest =>
    /\ verdict = "valid"
    /\ \A d \in Drawn(manifest) : \E route \in ServesRoute(d.call) :
         d.permission \in {route.permission, NoPermission}
    /\ \A route \in Routes : route.permission \in manifest.permissions

\* "data/action paths must live under the API": what a valid manifest draws
\* calls this extension and no other one, wherever in the manifest it stands.
ValidStaysUnderApi ==
  verdict = "valid" => manifest.apiPrefix = "own" /\ \A d \in Drawn(manifest) : d.place = "own"

\* A tool of a manifest that may be published can be used: it is served by a
\* route.
ToolsServed ==
  verdict = "valid" => \A call \in manifest.tools : ServesRoute(call) # {}
==============================================================================
