--------------------------- MODULE RequestPipeline ---------------------------
(***************************************************************************)
(* The way of a request through the extension: body parsers, tenant        *)
(* context, controllers built or looked up for the tenant's database and   *)
(* key, permission, validation, handler, reply.  Every step ends where the *)
(* code hands over to a promise; requests interleave there.                *)
(*                                                                         *)
(* The extension runs in the host's process, configured once from the      *)
(* environment, or in a container of its own (standalone.ts) where the     *)
(* gateway sends each tenant's database, key and secret along with every   *)
(* request.  A container may be started again at any time, and a tenant    *)
(* may be given another key.                                               *)
(*                                                                         *)
(* Of the data behind the services only what depends on this way is kept:  *)
(* per database and tenant, the key the current WHM token is encrypted     *)
(* with.                                                                   *)
(***************************************************************************)
EXTENDS ApiRoutes, Integers, Sequences

CONSTANTS
  Slot,          \* places for requests under way
  Tenant, Dsn,   \* tenants; database URLs
  Key,           \* encryption keys of 32 bytes
  Secret,        \* secrets that sign tenant tokens
  Requests,      \* slot -> requests that may come in there
  Environments,  \* environments a process may be started in
  Settings       \* what the gateway may send along for each tenant at first

Absent == "absent"
Empty == ""
ShortKey == "short"
Given(value) == value \notin {Absent, Empty}

Setting == [dsn : Dsn \cup {Absent, Empty}, key : Key \cup {Absent, Empty, ShortKey},
            secret : Secret \cup {Absent, Empty}]
Environment == [dsn : Dsn \cup {Absent, Empty}, key : Key \cup {Absent, Empty, ShortKey},
                secret : Secret \cup {Absent, Empty},
                mode : {Absent, "authenticated", "header", "other"}]
\* Form and content of x-ext-permissions (a JSON array, a comma list, or a
\* bracketed list that is not JSON), or of the host's array.
Grant == [form : {Absent, "json", "list", "unquoted"}, names : Seq(Permission)]
\* x-ext-token: who signed it, what it says, the seconds it has still to live.
Token == [shape : {Absent, "signed", "malformed"}, signer : Secret,
          tenant : Tenant, slug : STRING, ttl : Int]
Request == [call : STRING \X STRING, parsable : BOOLEAN,
            invalid : SUBSET {"params", "query", "body"},
            tenant : Tenant \cup {Absent, Empty}, slug : STRING,
            grant : Grant, token : Token]

ASSUME NamesAssumption ==
  {Absent, Empty, ShortKey} \cap (Tenant \cup Dsn \cup Key \cup Secret) = {}
ASSUME RequestsAssumption == Requests \in [Slot -> SUBSET Request]
ASSUME EnvironmentsAssumption == Environments \subseteq Environment /\ Settings \subseteq [Tenant -> Setting]

VARIABLES
  host,     \* "inProcess" or "standalone"
  env,      \* environment of the process
  setting,  \* tenant -> what the gateway sends along now
  rotated,  \* tenants that have been given another key
  stage,    \* slot -> what the request there waits for
  input,    \* slot -> the request and the settings sent along with it
  tenant,   \* slot -> req.tenant
  deps,     \* slot -> database and key behind req.appDeps
  answer,   \* slot -> status of the reply
  cache,    \* controllers of the factory: [at, deps]
  stored    \* tenant -> database -> key its token is encrypted with

bootVars == <<host, env>>
vars == <<host, env, setting, rotated, stage, input, tenant, deps, answer, cache, stored>>

NoTenant == [tenantId |-> Absent, permissions |-> {}]
NoDeps == [dsn |-> Absent, key |-> Absent]
NoStatus == 0
NoSetting == [dsn |-> Absent, key |-> Absent, secret |-> Absent]
NoInput == [tenant |-> Absent, setting |-> NoSetting]
Stages == {"idle", "context", "deps", "route", "service", "answered"}

(***************************************************************************)
(* Faulty variants, for the mutation runs.                                 *)
(***************************************************************************)
\* Controllers kept by database only.
KeptByDatabase(d) == <<d.dsn>>

\* Any signature will do.
SignedWithAny(token, secret) == token.shape = "signed"

(***************************************************************************)
(* Configuration.                                                          *)
(***************************************************************************)
\* loadEnv throws unless these hold; keys of another length are refused.
LoadEnv(e) ==
  /\ Given(e.dsn) /\ e.key \in Key
  /\ e.mode \in {Absent, "authenticated", "header"}
  /\ e.mode = "header" => Given(e.secret)

\* loadBootEnv never throws.
LoadBootEnv(e) == TRUE

\* The environment is asked only when the header is not there at all.
OrElse(header, value) == IF header # Absent THEN header ELSE value

(***************************************************************************)
(* Tenant context.                                                         *)
(***************************************************************************)
\* The container reads headers whatever the mode says.
SelectProvider ==
  IF host = "standalone" \/ env.mode = "header" THEN "header" ELSE "authenticated"

SecretFor(s) == IF Given(env.secret) THEN env.secret ELSE s.secret

VerifyToken(token, secret) == token.shape = "signed" /\ token.signer = secret

MaxTtl == 600

ResolveHeader(r, s) ==
  /\ Given(r.tenant)
  /\ r.token.shape # Absent /\ Given(SecretFor(s)) =>
       /\ VerifyToken(r.token, SecretFor(s))
       /\ r.token.tenant = r.tenant
       /\ r.slug # Empty => r.token.slug = r.slug
       /\ r.token.ttl \in 0 .. MaxTtl

ResolveAuthenticated(r) == Given(r.tenant)

\* A bracketed list that does not parse is split at its commas all the same:
\* the names next to the brackets are spoilt, the others count.
ReadPermissions(grant) ==
  CASE grant.form \in {"json", "list"} -> {grant.names[i] : i \in DOMAIN grant.names}
    [] grant.form = "unquoted" -> {grant.names[i] : i \in 2 .. Len(grant.names) - 1}
    [] grant.form = Absent -> {}

HostPermissions(grant) ==
  IF grant.form = "json" THEN {grant.names[i] : i \in DOMAIN grant.names} ELSE {}

Resolved(r, s) ==
  IF SelectProvider = "header" THEN ResolveHeader(r, s) ELSE ResolveAuthenticated(r)

ContextOf(r) ==
  [tenantId |-> r.tenant,
   permissions |-> IF SelectProvider = "header" THEN ReadPermissions(r.grant)
                                                ELSE HostPermissions(r.grant)]

(***************************************************************************)
(* Controllers.                                                            *)
(***************************************************************************)
\* The database and the key a request is to be served with.
Named(s) ==
  IF host = "standalone"
  THEN [dsn |-> OrElse(s.dsn, env.dsn), key |-> OrElse(s.key, env.key)]
  ELSE [dsn |-> env.dsn, key |-> env.key]

Configured(d) == Given(d.key) /\ Given(d.dsn)
CacheKey(d) == <<d.dsn, d.key>>
Cached(d) == {c \in cache : c.at = CacheKey(d)}

(***************************************************************************)
(* Services, as far as they handle stored tokens.                          *)
(***************************************************************************)
CreateToken == <<"POST", "/servers/:id/tokens">>
UpdateToken == <<"PATCH", "/tokens/:id">>
RemoveToken == <<"DELETE", "/tokens/:id">>
\* Calls that decrypt the token and do not catch what decrypt throws.
NeedsToken ==
  {r.call : r \in EmailRoutes \cup DomainsRoutes \cup DatabasesRoutes}
  \cup {<<"POST", "/accounts/:id/refresh">>, <<"POST", "/servers/:id/sync">>}

\* Two of the statuses services fail with stand for all of them (404, 409,
\* 422, 429, 500, 502): nothing on the way back tells them apart.
ServiceErrors == {Errors.notFound, Errors.internal}

(***************************************************************************)
(* Faulty variants of actions, for the mutation runs.                      *)
(***************************************************************************)
\* tenantContext goes on without attaching the context.
ResolveUnattached(q) ==
  /\ stage[q] = "context"
  /\ IF Resolved(input[q].request, input[q].setting)
     THEN stage' = [stage EXCEPT ![q] = "deps"] /\ UNCHANGED answer
     ELSE /\ stage' = [stage EXCEPT ![q] = "answered"]
          /\ answer' = [answer EXCEPT ![q] = 401]
  /\ UNCHANGED <<bootVars, setting, rotated, input, tenant, deps, cache, stored>>

\* validate before requirePermission, the rest of the route as it is.
ValidateFirst(q) ==
  LET r == input[q].request
      route == CHOOSE x \in Routes : x.call = r.call
      status == CASE r.call \notin {x.call : x \in Routes} -> 404
                  [] OTHER ->
                     CASE r.invalid \cap route.parts # {} -> Errors.validation
                       [] ~Permits(tenant[q].permissions, route.permission) -> Errors.forbidden
                       [] route.status = Stub -> Stub
                       [] OTHER -> NoStatus
  IN /\ stage[q] = "route"
     /\ answer' = [answer EXCEPT ![q] = status]
     /\ stage' = [stage EXCEPT ![q] = IF status = NoStatus THEN "service" ELSE "answered"]
     /\ UNCHANGED <<bootVars, setting, rotated, input, tenant, deps, cache, stored>>

(***************************************************************************)
(* Actions.                                                                *)
(***************************************************************************)
Init ==
  /\ host \in {"inProcess", "standalone"}
  /\ env \in {e \in Environments : IF host = "standalone" THEN LoadBootEnv(e) ELSE LoadEnv(e)}
  /\ setting \in Settings
  /\ rotated = {}
  /\ stage = [q \in Slot |-> "idle"]
  /\ input = [q \in Slot |-> NoInput]
  /\ tenant = [q \in Slot |-> NoTenant]
  /\ deps = [q \in Slot |-> NoDeps]
  /\ answer = [q \in Slot |-> NoStatus]
  /\ cache = {}
  /\ stored = [t \in Tenant |-> [d \in Dsn |-> Absent]]

\* The request goes on to its next stage, or is answered.
GoOn(q, next) == stage' = [stage EXCEPT ![q] = next] /\ UNCHANGED answer
Reply(q, status) ==
  /\ stage' = [stage EXCEPT ![q] = "answered"]
  /\ answer' = [answer EXCEPT ![q] = status]

\* An error the extension knows keeps its status, another one is a 500: also
\* the complaint of a body parser, which would be a 400.
ErrorHandler(q, status) ==
  Reply(q, IF status \in {401, 403, 404, 409, 422, 429, 501, 502, 503} THEN status
                                                                        ELSE Errors.internal)

Public == {<<"GET", "/health">>, <<"GET", "/ui">>}

\* createRouter: the parsers, then the pages that need no tenant.
Accept(q) ==
  /\ stage[q] = "idle"
  /\ \E r \in Requests[q] :
       /\ input' = [input EXCEPT ![q] =
            [request |-> r,
             setting |-> IF r.tenant \in Tenant THEN setting[r.tenant] ELSE NoSetting]]
       /\ IF ~r.parsable THEN ErrorHandler(q, 400)
          ELSE IF r.call \in Public THEN Reply(q, 200)
          ELSE GoOn(q, "context")
  /\ UNCHANGED <<bootVars, setting, rotated, tenant, deps, cache, stored>>

ResolveTenant(q) ==
  /\ stage[q] = "context"
  /\ LET i == input[q]
     IN IF Resolved(i.request, i.setting)
        THEN /\ tenant' = [tenant EXCEPT ![q] = ContextOf(i.request)]
             /\ GoOn(q, "deps")
        ELSE /\ ErrorHandler(q, Errors.unauthenticated)
             /\ UNCHANGED tenant
  /\ UNCHANGED <<bootVars, setting, rotated, input, deps, cache, stored>>

\* The factory: look up, or build and keep; nothing ever leaves the cache.
\* In the host's process there is one set, built at boot.
RequestDeps(q) ==
  /\ stage[q] = "deps"
  /\ LET d == Named(input[q].setting)
     IN \/ /\ host = "inProcess" \/ (Configured(d) /\ Cached(d) # {})
           /\ deps' = [deps EXCEPT ![q] =
                IF host = "inProcess" THEN d ELSE (CHOOSE c \in Cached(d) : TRUE).deps]
           /\ GoOn(q, "route")
           /\ UNCHANGED cache
        \/ /\ host = "standalone" /\ ~Configured(d)
           /\ ErrorHandler(q, Errors.notConfigured)
           /\ UNCHANGED <<deps, cache>>
        \/ /\ host = "standalone" /\ Configured(d) /\ Cached(d) = {}
           /\ IF d.key \in Key
              THEN /\ deps' = [deps EXCEPT ![q] = d]
                   /\ cache' = cache \cup {[at |-> CacheKey(d), deps |-> d]}
                   /\ GoOn(q, "route")
              ELSE /\ ErrorHandler(q, Errors.internal)
                   /\ UNCHANGED <<deps, cache>>
  /\ UNCHANGED <<bootVars, setting, rotated, input, tenant, stored>>

\* Express finds the route; its guards run in the order of the route files.
Dispatch(q) ==
  /\ stage[q] = "route"
  /\ LET r == input[q].request
     IN \/ /\ ServesRoute(r.call) = {}
           /\ Reply(q, 404)
        \/ \E route \in ServesRoute(r.call) :
             IF ~Permits(tenant[q].permissions, route.permission)
             THEN ErrorHandler(q, Errors.forbidden)
             ELSE IF r.invalid \cap route.parts # {}
             THEN ErrorHandler(q, Errors.validation)
             ELSE IF route.status = Stub
             THEN ErrorHandler(q, Stub)
             ELSE IF deps[q] = NoDeps
             THEN ErrorHandler(q, Errors.internal)
             ELSE GoOn(q, "service")
  /\ UNCHANGED <<bootVars, setting, rotated, input, tenant, deps, cache, stored>>

StoredKey(q) == stored[tenant[q].tenantId][deps[q].dsn]
Store(q, key) == stored' = [stored EXCEPT ![tenant[q].tenantId][deps[q].dsn] = key]

\* The keys the token may be encrypted with afterwards: an update encrypts it
\* anew only when a token comes with it.
KeysAfter(q) ==
  LET call == input[q].request.call
  IN CASE call = CreateToken -> {deps[q].key}
       [] call = UpdateToken -> {StoredKey(q), deps[q].key}
       [] call = RemoveToken -> {Absent}
       [] OTHER -> {StoredKey(q)}

\* decrypt: every process has the key id `default', so a key that has changed
\* shows only in the integrity check.
Readable(q) == StoredKey(q) = deps[q].key

\* The handler and its service; what they await inside is the business of the
\* other modules.
Serve(q) ==
  /\ stage[q] = "service"
  /\ LET call == input[q].request.call
     IN \/ /\ \E s \in ServiceErrors : ErrorHandler(q, s)
           /\ UNCHANGED stored
        \/ /\ call \in NeedsToken /\ ~Readable(q)
           /\ ErrorHandler(q, IF StoredKey(q) = Absent THEN Errors.validation
                                                       ELSE Errors.internal)
           /\ UNCHANGED stored
        \/ /\ call \in NeedsToken => Readable(q)
           /\ call \in {UpdateToken, RemoveToken} => StoredKey(q) # Absent
           /\ \E route \in ServesRoute(call) : Reply(q, route.status)
           /\ \E key \in KeysAfter(q) : Store(q, key)
  /\ UNCHANGED <<bootVars, setting, rotated, input, tenant, deps, cache>>

\* The reply has gone out; the place is free.
Clear(q) ==
  /\ input' = [input EXCEPT ![q] = NoInput]
  /\ tenant' = [tenant EXCEPT ![q] = NoTenant]
  /\ deps' = [deps EXCEPT ![q] = NoDeps]
  /\ answer' = [answer EXCEPT ![q] = NoStatus]

Done(q) ==
  /\ stage[q] = "answered"
  /\ stage' = [stage EXCEPT ![q] = "idle"]
  /\ Clear(q)
  /\ UNCHANGED <<bootVars, setting, rotated, cache, stored>>

\* The tenant is given another key (bound: once).
Rotate(t) ==
  /\ t \notin rotated
  /\ \E k \in Key \ {setting[t].key} : setting' = [setting EXCEPT ![t].key = k]
  /\ rotated' = rotated \cup {t}
  /\ UNCHANGED <<bootVars, stage, input, tenant, deps, answer, cache, stored>>

\* The process dies and is started again: what was under way is gone.
Restart ==
  /\ stage' = [q \in Slot |-> "idle"]
  /\ input' = [q \in Slot |-> NoInput]
  /\ tenant' = [q \in Slot |-> NoTenant]
  /\ deps' = [q \in Slot |-> NoDeps]
  /\ answer' = [q \in Slot |-> NoStatus]
  /\ cache' = {}
  /\ UNCHANGED <<bootVars, setting, rotated, stored>>

Handle(q) == ResolveTenant(q) \/ RequestDeps(q) \/ Dispatch(q) \/ Serve(q)

Next ==
  \/ \E q \in Slot : Accept(q) \/ Handle(q) \/ Done(q)
  \/ \E t \in Tenant : Rotate(t)
  \/ Restart

Spec == Init /\ [][Next]_vars

(***************************************************************************)
(* Properties.                                                             *)
(***************************************************************************)
PipelineTypeOK ==
  /\ host \in {"inProcess", "standalone"}
  /\ env \in Environment
  /\ host = "inProcess" => LoadEnv(env)
  /\ setting \in [Tenant -> Setting]
  /\ rotated \subseteq Tenant
  /\ stage \in [Slot -> Stages]
  /\ \A q \in Slot :
       /\ stage[q] # "idle" => /\ input[q].request \in Requests[q]
                               /\ input[q].setting \in Setting
       /\ stage[q] \in {"idle", "context"} => tenant[q] = NoTenant /\ deps[q] = NoDeps
       /\ stage[q] \in {"deps", "route", "service"} =>
            /\ tenant[q].tenantId \in Tenant
            /\ tenant[q].permissions \subseteq Permission
       /\ stage[q] \in {"route", "service"} => deps[q] \in [dsn : Dsn, key : Key]
       /\ stage[q] = "answered" <=> answer[q] # NoStatus
  /\ answer \in [Slot -> Nat]
  /\ \A c \in cache : c.deps \in [dsn : Dsn, key : Key]
  /\ stored \in [Tenant -> [Dsn -> Key \cup {Absent}]]

\* The tokens the platform may send along with requests of a tenant.
Issued(t, secret) ==
  [shape : {"signed"}, signer : {secret}, tenant : {t}, slug : STRING, ttl : 0 .. MaxTtl]

\* The platform vouches for a request: in header mode by a token for this very
\* tenant and slug, signed with a secret there is (docs/configuration.md:38);
\* in the host's process by the host's own login.
Vouched(i) ==
  LET r == i.request  secret == SecretFor(i.setting)
  IN /\ r.tenant \in Tenant
     /\ SelectProvider = "header" =>
          /\ Given(secret)
          /\ r.token \in Issued(r.tenant, secret)
          /\ r.slug # Empty => r.token.slug = r.slug

\* A permission of the route has been granted.
Granted(i) ==
  \E route \in ServesRoute(i.request.call), p \in DOMAIN i.request.grant.names :
    i.request.grant.names[p] \in {route.permission, "admin"}

\* The request comes the way docs/configuration.md has requests come: in header
\* mode with a token, good or bad, and there is a secret.  What the code does
\* with the others is SecretRequired's matter, not the monitor's.
AsDocumented(i) ==
  SelectProvider = "header" => i.request.token.shape # Absent /\ Given(SecretFor(i.setting))
Watched(q) == input[q] # NoInput /\ AsDocumented(input[q])

\* For every request that comes as documented, whatever other requests are under
\* way, the guards keep the reference monitor's promise: tenantContext
\* recognises the callers the platform vouches for and no other one, nobody
\* else learns more than a 401, and no handler runs for a request that lacks
\* the permission of its route, however the header is written.
Verdict(q) ==
  CASE stage[q] = "idle" -> "none"
    [] stage[q] = "context" -> "pending"
    [] stage[q] \in {"deps", "route"} -> "known"
    [] stage[q] = "service" -> "admitted"
    [] stage[q] = "answered" ->
         IF answer[q] = Errors.unauthenticated THEN "stranger" ELSE "closed"

vouched == [q \in Slot |-> Watched(q) /\ Vouched(input[q])]
granted == [q \in Slot |-> Watched(q) /\ Granted(input[q])]
verdict == [q \in Slot |-> IF Watched(q) THEN Verdict(q) ELSE "none"]

M == INSTANCE ReferenceMonitor WITH Caller <- Slot

ImplementsMonitor == M!Spec

\* "If EXT_PLATFORM_JWT_SECRET is not configured, header-mode requests fail with
\* 401": a header-mode request gets past tenantContext only where there is a
\* secret.  The code does not keep to it (MCRequestPipeline_trust.cfg): without
\* a token or a secret it trusts the headers.
SecretRequired ==
  \A q \in Slot : stage[q] \in {"deps", "route", "service"} /\ SelectProvider = "header" =>
    Given(SecretFor(input[q].setting))

\* What a reply gives away, whoever the caller is taken for: only one with the
\* permission of a route learns whether its request is valid, what there is, or
\* whether the operation exists at all.
Asked(q) ==
  stage[q] = "answered" /\ input[q].request.parsable /\ input[q].request.call \notin Public

RefusalsInOrder ==
  \A q \in Slot : Asked(q) =>
    \/ answer[q] \in {Errors.unauthenticated, Errors.notConfigured, Errors.forbidden,
                      Errors.internal}
    \/ answer[q] = 404 /\ ServesRoute(input[q].request.call) = {}
    \/ Granted(input[q])

\* A request works on the database and with the key that came along with it,
\* not with what an earlier request has left in the cache.
OwnAssembly ==
  \A q \in Slot : deps[q] # NoDeps => deps[q] = Named(input[q].setting)

\* A token that has been stored can be read until the tenant is given another
\* key: across tenants on one database, restarts and the fallback to the
\* environment.
ReadableUntilRotated ==
  \A q \in Slot : stage[q] = "service" /\ tenant[q].tenantId \notin rotated =>
    StoredKey(q) \in {Absent, deps[q].key}
==============================================================================
