------------------------- MODULE RequestPipelineProofs -------------------------
(***************************************************************************)
(* What module RequestPipeline promises for any number of tenants, keys,   *)
(* databases and requests at a time: its type invariant, that a request is *)
(* served with its own database and key, that a stored token stays         *)
(* readable until its tenant gets another key, the order of refusals, and  *)
(* that the guards implement the reference monitor.                        *)
(*                                                                         *)
(* The invariant behind it says what is known of one request at each stage *)
(* (Sound), that an entry of the cache is filed under its own database and *)
(* key, and that the tokens of a tenant whose key has not been changed are *)
(* encrypted with the key the gateway still sends along.                   *)
(***************************************************************************)
EXTENDS RequestPipeline, TLAPS

Pair == [dsn : Dsn, key : Key]
Context == [tenantId : Tenant, permissions : SUBSET Permission]
Incoming == [request : Request, setting : Setting]
Underway == {"context", "deps", "route", "service"}

Typed ==
  /\ setting \in [Tenant -> Setting]
  /\ rotated \subseteq Tenant
  /\ stage \in [Slot -> Stages]
  /\ input \in [Slot -> {NoInput} \cup Incoming]
  /\ tenant \in [Slot -> {NoTenant} \cup Context]
  /\ deps \in [Slot -> {NoDeps} \cup Pair]
  /\ answer \in [Slot -> Nat]
  /\ stored \in [Tenant -> [Dsn -> Key \cup {Absent}]]

Booted ==
  /\ host \in {"inProcess", "standalone"}
  /\ env \in Environment
  /\ host = "inProcess" => LoadEnv(env)

\* RefusalsInOrder, of one request.
Ordered(q) ==
  Asked(q) =>
    \/ answer[q] \in {Errors.unauthenticated, Errors.notConfigured, Errors.forbidden,
                      Errors.internal}
    \/ answer[q] = 404 /\ ServesRoute(input[q].request.call) = {}
    \/ Granted(input[q])

Permitted(q) ==
  \E route \in ServesRoute(input[q].request.call) :
    Permits(tenant[q].permissions, route.permission)

\* What is known of the request at q.
Sound(q) ==
  /\ stage[q] = "idle" <=> input[q] = NoInput
  /\ stage[q] # "idle" =>
       /\ input[q] \in Incoming /\ input[q].request \in Requests[q]
       /\ input[q].request.tenant \in Tenant \ rotated =>
            input[q].setting = setting[input[q].request.tenant]
  /\ stage[q] \in {"idle", "context"} => tenant[q] = NoTenant /\ deps[q] = NoDeps
  /\ stage[q] \in {"deps", "route", "service"} =>
       /\ Resolved(input[q].request, input[q].setting)
       /\ tenant[q] = ContextOf(input[q].request)
  /\ stage[q] \in {"route", "service"} => deps[q] # NoDeps
  /\ deps[q] # NoDeps => deps[q] = Named(input[q].setting)
  /\ stage[q] = "service" => Permitted(q)
  /\ stage[q] = "answered" <=> answer[q] # NoStatus
  /\ Ordered(q)

CacheSound == \A c \in cache : c.deps \in Pair /\ c.at = CacheKey(c.deps)

StoredSound ==
  \A t \in Tenant \ rotated, d \in Dsn : stored[t][d] \in {Absent, Named(setting[t]).key}

IInv == Booted /\ Typed /\ (\A q \in Slot : Sound(q)) /\ CacheSound /\ StoredSound

(***************************************************************************)
(* Lemmas about the operators.                                             *)
(***************************************************************************)
LEMMA StatusesTyped ==
  \A r \in Routes : r.status \in {200, 201, 204, 501} /\ r.permission \in Permission
<1>1. \A r \in ServersRoutes : r.status \in {200, 201, 204, 501} /\ r.permission \in Permission
  BY DEF ServersRoutes, Route, ServersController, Permission
<1>2. \A r \in TokensRoutes : r.status \in {200, 201, 204, 501} /\ r.permission \in Permission
  BY DEF TokensRoutes, Route, TokensController, Permission
<1>3. \A r \in AccountsRoutes : r.status \in {200, 201, 204, 501} /\ r.permission \in Permission
  BY DEF AccountsRoutes, Route, AccountsController, Permission, Stub, Errors
<1>4. \A r \in EmailRoutes : r.status \in {200, 201, 204, 501} /\ r.permission \in Permission
  BY DEF EmailRoutes, Route, EmailController, Permission
<1>5. \A r \in DomainsRoutes : r.status \in {200, 201, 204, 501} /\ r.permission \in Permission
  BY DEF DomainsRoutes, Route, DomainsController, Permission
<1>6. \A r \in DatabasesRoutes : r.status \in {200, 201, 204, 501} /\ r.permission \in Permission
  BY DEF DatabasesRoutes, Route, DatabasesController, Permission
<1>7. \A r \in DeploymentsRoutes :
        r.status \in {200, 201, 204, 501} /\ r.permission \in Permission
  BY DEF DeploymentsRoutes, Route, Permission, Stub, Errors
<1> HIDE DEF Permission
<1> QED
  BY <1>1, <1>2, <1>3, <1>4, <1>5, <1>6, <1>7 DEF Routes

ErrorStatuses == {401, 403, 404, 409, 422, 429, 500, 501, 502, 503}

LEMMA ErrorReplies ==
  ASSUME NEW q, NEW status \in ErrorStatuses \cup {400}, ErrorHandler(q, status)
  PROVE  \E s \in ErrorStatuses : Reply(q, s) /\ (status \in ErrorStatuses => s = status)
  BY DEF ErrorHandler, ErrorStatuses, Errors

\* A request that is resolved names a tenant.
LEMMA ResolvedIsTenant ==
  ASSUME NEW r \in Request, NEW s, Resolved(r, s)
  PROVE  r.tenant \in Tenant
  BY DEF Resolved, ResolveHeader, ResolveAuthenticated, Request, Given

\* What a context permits has been granted, however the list was written.
LEMMA PermittedIsGranted ==
  ASSUME NEW r \in Request, NEW i, i.request = r,
         NEW route \in ServesRoute(r.call),
         Permits(ContextOf(r).permissions, route.permission)
  PROVE  Granted(i)
<1>1. r.grant.names \in Seq(Permission)
  BY DEF Request, Grant
<1>2. ContextOf(r).permissions \subseteq {r.grant.names[p] : p \in DOMAIN r.grant.names}
  <2>1. 2 .. Len(r.grant.names) - 1 \subseteq DOMAIN r.grant.names
    BY <1>1
  <2>2. r.grant.form \in {Absent, "json", "list", "unquoted"}
    BY DEF Request, Grant
  <2>3. ReadPermissions(r.grant) \subseteq {r.grant.names[p] : p \in DOMAIN r.grant.names}
    BY <2>1, <2>2 DEF ReadPermissions, Absent
  <2>4. HostPermissions(r.grant) \subseteq {r.grant.names[p] : p \in DOMAIN r.grant.names}
    BY DEF HostPermissions
  <2> QED
    BY <2>3, <2>4 DEF ContextOf
<1>3. \E p \in DOMAIN r.grant.names : r.grant.names[p] \in {route.permission, "admin"}
  BY <1>2 DEF Permits
<1> QED
  BY <1>3 DEF Granted

LEMMA ContextTyped ==
  ASSUME NEW r \in Request, r.tenant \in Tenant
  PROVE  ContextOf(r) \in Context /\ ContextOf(r).tenantId = r.tenant
<1>1. r.grant.names \in Seq(Permission) /\ r.grant.form \in {Absent, "json", "list", "unquoted"}
  BY DEF Request, Grant
<1>2. \A p \in DOMAIN r.grant.names : r.grant.names[p] \in Permission
  BY <1>1
<1>3. 2 .. Len(r.grant.names) - 1 \subseteq DOMAIN r.grant.names
  BY <1>1
<1>4. ReadPermissions(r.grant) \in SUBSET Permission
  BY <1>1, <1>2, <1>3 DEF ReadPermissions, Absent
<1>5. HostPermissions(r.grant) \in SUBSET Permission
  BY <1>2 DEF HostPermissions
<1> QED
  BY <1>4, <1>5 DEF ContextOf, Context

\* In the host's process, and wherever the factory finds a database and a key
\* of the right length, controllers can be built.
LEMMA NamedTyped ==
  ASSUME Booted, NEW s \in Setting,
         host = "inProcess" \/ (Configured(Named(s)) /\ Named(s).key \in Key)
  PROVE  Named(s) \in Pair
<1>1. Named(s) = [dsn |-> Named(s).dsn, key |-> Named(s).key]
  BY DEF Named
<1>2. CASE host = "inProcess"
  BY <1>2 DEF Booted, LoadEnv, Environment, Named, Given, Pair
<1>3. CASE host # "inProcess"
  <2>1. Named(s).dsn \in Dsn \cup {Absent, Empty}
    BY DEF Booted, Setting, Environment, Named, OrElse
  <2> QED
    BY <1>1, <1>3, <2>1 DEF Configured, Given, Pair
<1> QED
  BY <1>2, <1>3

\* An entry that is found is the one that was asked for.
LEMMA CachedIsNamed ==
  ASSUME CacheSound, NEW d, d = [dsn |-> d.dsn, key |-> d.key], Cached(d) # {}
  PROVE  /\ (CHOOSE c \in Cached(d) : TRUE).deps = d
         /\ d \in Pair
<1> DEFINE c == CHOOSE e \in Cached(d) : TRUE
<1>1. c \in cache /\ c.at = CacheKey(d)
  BY DEF Cached
<1>2. c.deps \in Pair /\ c.at = CacheKey(c.deps)
  BY <1>1 DEF CacheSound
<1>3. c.deps.dsn = d.dsn /\ c.deps.key = d.key
  BY <1>1, <1>2 DEF CacheKey
<1> QED
  BY <1>2, <1>3 DEF Pair

(***************************************************************************)
(* Steps of one request.                                                   *)
(***************************************************************************)
LEMMA Facts ==
  ASSUME IInv
  PROVE  /\ Booted /\ Typed /\ CacheSound /\ StoredSound
         /\ \A q \in Slot : Sound(q)
  BY DEF IInv

LEMMA BootedStays == ASSUME Booted, UNCHANGED bootVars PROVE Booted'
  BY DEF Booted, bootVars, LoadEnv

\* What is known of a request does not depend on the others.
LEMMA OthersSound ==
  ASSUME NEW p \in Slot, Sound(p), UNCHANGED <<bootVars, setting, rotated>>,
         stage'[p] = stage[p], input'[p] = input[p], tenant'[p] = tenant[p],
         deps'[p] = deps[p], answer'[p] = answer[p]
  PROVE  Sound(p)'
  BY DEF Sound, Ordered, Asked, Granted, Permitted, Resolved, ResolveHeader,
     ResolveAuthenticated, ContextOf, Named, OrElse, SelectProvider, SecretFor, bootVars

\* One request goes a step further, the rest is as it was.
LEMMA OneStep ==
  ASSUME IInv, NEW q \in Slot, Typed', Sound(q)', UNCHANGED <<bootVars, setting, rotated>>,
         \A p \in Slot : p # q =>
           /\ stage'[p] = stage[p] /\ input'[p] = input[p] /\ tenant'[p] = tenant[p]
           /\ deps'[p] = deps[p] /\ answer'[p] = answer[p],
         CacheSound', StoredSound'
  PROVE  IInv'
  BY Facts, BootedStays, OthersSound DEF IInv

LEMMA CacheStays == ASSUME CacheSound, UNCHANGED cache PROVE CacheSound'
  BY DEF CacheSound

LEMMA StoredStays ==
  ASSUME StoredSound, UNCHANGED <<bootVars, setting, rotated, stored>> PROVE StoredSound'
  BY DEF StoredSound, Named, OrElse, bootVars

\* A request is answered.
LEMMA ReplyStep ==
  ASSUME IInv, NEW q \in Slot, stage[q] \in Underway,
         NEW s \in {200, 201, 204} \cup ErrorStatuses, Reply(q, s),
         UNCHANGED <<bootVars, setting, rotated, input, tenant, deps>>,
         CacheSound', StoredSound', stored' \in [Tenant -> [Dsn -> Key \cup {Absent}]],
         \/ s \in {Errors.unauthenticated, Errors.notConfigured, Errors.forbidden,
                   Errors.internal}
         \/ s = 404 /\ ServesRoute(input[q].request.call) = {}
         \/ Granted(input[q])
  PROVE  IInv'
<1>1. s \in Nat /\ s # 0
  BY DEF ErrorStatuses
<1>2. /\ stage' = [stage EXCEPT ![q] = "answered"]
      /\ answer' = [answer EXCEPT ![q] = s]
  BY DEF Reply
<1>3. Typed'
  BY <1>1, <1>2, Facts DEF Typed, Stages
<1>4. stage'[q] = "answered" /\ answer'[q] = s
  BY <1>2, Facts DEF Typed
<1>5. Ordered(q)'
  BY <1>4 DEF Ordered, Granted
<1>6. Sound(q)
  BY Facts
<1>7. Named(input[q].setting)' = Named(input[q].setting)
  BY DEF Named, OrElse, bootVars
<1>8. Sound(q)'
  BY <1>1, <1>4, <1>5, <1>6, <1>7 DEF Sound, Underway, NoStatus
<1> QED
  BY <1>2, <1>3, <1>8, Facts, OneStep DEF Typed

LEMMA GoOnStep ==
  ASSUME IInv, NEW q \in Slot, stage[q] \in Underway,
         NEW next \in Underway, GoOn(q, next), Typed', Sound(q)',
         UNCHANGED <<bootVars, setting, rotated, input, stored>>,
         \A p \in Slot : p # q => tenant'[p] = tenant[p] /\ deps'[p] = deps[p],
         CacheSound'
  PROVE  IInv'
<1>1. \A p \in Slot : p # q => stage'[p] = stage[p] /\ answer'[p] = answer[p]
  BY Facts DEF GoOn, Typed
<1> QED
  BY <1>1, Facts, StoredStays, OneStep

(***************************************************************************)
(* The actions.                                                            *)
(***************************************************************************)
LEMMA AcceptStep ==
  ASSUME IInv, NEW q \in Slot, Accept(q) PROVE IInv'
<1>1. PICK r \in Requests[q] :
        /\ input' = [input EXCEPT ![q] =
             [request |-> r,
              setting |-> IF r.tenant \in Tenant THEN setting[r.tenant] ELSE NoSetting]]
        /\ IF ~r.parsable THEN ErrorHandler(q, 400)
           ELSE IF r.call \in Public THEN Reply(q, 200)
           ELSE GoOn(q, "context")
  BY DEF Accept
<1> DEFINE i == [request |-> r,
                 setting |-> IF r.tenant \in Tenant THEN setting[r.tenant] ELSE NoSetting]
<1>2. r \in Request
  BY RequestsAssumption
<1>3. NoSetting \in Setting
  BY DEF NoSetting, Setting
<1>4. i \in Incoming
  BY <1>2, <1>3, Facts DEF Incoming, Typed
<1>5. i # NoInput
  <2>1. "request" \in DOMAIN i /\ "request" \notin DOMAIN NoInput
    BY DEF NoInput
  <2> QED
    BY <2>1
<1>6. i.request = r /\ (r.tenant \in Tenant => i.setting = setting[r.tenant])
  OBVIOUS
<1> HIDE DEF i
<1>7. /\ input' = [input EXCEPT ![q] = i] /\ input'[q] = i
      /\ UNCHANGED <<bootVars, setting, rotated, tenant, deps, cache, stored>>
      /\ stage[q] = "idle"
  BY <1>1, Facts DEF Accept, Typed, i
<1>8. tenant[q] = NoTenant /\ deps[q] = NoDeps /\ answer[q] = NoStatus
  BY <1>7, Facts DEF Sound
<1>9. CacheSound' /\ StoredSound'
  BY <1>7, Facts, CacheStays, StoredStays
<1>10. CASE \E s \in {200} \cup ErrorStatuses : Reply(q, s) /\ (~r.parsable \/ r.call \in Public)
  <2>1. PICK s \in {200} \cup ErrorStatuses :
          Reply(q, s) /\ (~r.parsable \/ r.call \in Public)
    BY <1>10
  <2>2. s \in Nat /\ s # 0
    BY DEF ErrorStatuses
  <2>3. Typed'
    BY <1>4, <1>7, <2>1, <2>2, Facts DEF Typed, Reply, Stages
  <2>4. stage'[q] = "answered" /\ answer'[q] = s
    BY <2>1, Facts DEF Reply, Typed
  <2>5. Sound(q)'
    BY <1>1, <1>4, <1>5, <1>6, <1>7, <1>8, <2>1, <2>2, <2>4
       DEF Sound, Ordered, Asked, NoStatus
  <2> QED
    BY <1>7, <1>9, <2>1, <2>3, <2>5, Facts, OneStep DEF Reply, Typed
<1>11. CASE GoOn(q, "context")
  <2>1. Typed'
    BY <1>4, <1>7, <1>11, Facts DEF Typed, GoOn, Stages
  <2>2. stage'[q] = "context" /\ answer'[q] = answer[q]
    BY <1>11, Facts DEF GoOn, Typed
  <2>3. Sound(q)'
    BY <1>1, <1>4, <1>5, <1>6, <1>7, <1>8, <2>2 DEF Sound, Ordered, Asked, NoStatus
  <2> QED
    BY <1>7, <1>9, <1>11, <2>1, <2>3, Facts, OneStep DEF GoOn, Typed
<1> QED
  BY <1>1, <1>10, <1>11, ErrorReplies DEF ErrorStatuses

LEMMA ResolveTenantStep ==
  ASSUME IInv, NEW q \in Slot, ResolveTenant(q) PROVE IInv'
<1> DEFINE i == input[q]
<1>1. /\ stage[q] = "context" /\ UNCHANGED <<bootVars, setting, rotated, input, deps, cache, stored>>
  BY DEF ResolveTenant
<1>2. i \in Incoming /\ i.request \in Request /\ Sound(q)
  BY <1>1, Facts DEF Sound, Incoming
<1>3. CacheSound'
  BY <1>1, Facts, CacheStays
<1>4. CASE Resolved(i.request, i.setting)
  <2>1. i.request.tenant \in Tenant
    BY <1>2, <1>4, ResolvedIsTenant
  <2>2. ContextOf(i.request) \in Context
    BY <1>2, <2>1, ContextTyped
  <2>3. tenant' = [tenant EXCEPT ![q] = ContextOf(i.request)] /\ GoOn(q, "deps")
    BY <1>4 DEF ResolveTenant
  <2>4. Typed'
    BY <1>1, <2>2, <2>3, Facts DEF Typed, GoOn, Stages
  <2>5. /\ stage'[q] = "deps" /\ answer'[q] = answer[q] /\ input'[q] = input[q]
        /\ tenant'[q] = ContextOf(i.request) /\ deps'[q] = deps[q]
        /\ \A p \in Slot : p # q => tenant'[p] = tenant[p] /\ deps'[p] = deps[p]
    BY <1>1, <2>3, Facts DEF GoOn, Typed
  <2>6. Resolved(i.request, i.setting)' /\ ContextOf(i.request)' = ContextOf(i.request)
    BY <1>1, <1>4 DEF Resolved, ResolveHeader, ResolveAuthenticated, ContextOf,
       SelectProvider, SecretFor, bootVars
  <2>7. Sound(q)'
    BY <1>1, <1>2, <2>5, <2>6 DEF Sound, Ordered, Asked
  <2> QED
    BY <1>1, <1>3, <2>3, <2>4, <2>5, <2>7, GoOnStep DEF Underway
<1>5. CASE ~Resolved(i.request, i.setting)
  <2>1. ErrorHandler(q, 401) /\ UNCHANGED tenant
    BY <1>5 DEF ResolveTenant, Errors
  <2>2. Reply(q, 401)
    BY <2>1, ErrorReplies DEF ErrorStatuses
  <2>3. StoredSound' /\ stored' \in [Tenant -> [Dsn -> Key \cup {Absent}]]
    BY <1>1, Facts, StoredStays DEF Typed
  <2> QED
    BY <1>1, <1>3, <2>1, <2>2, <2>3, ReplyStep DEF Errors, Underway, ErrorStatuses
<1> QED
  BY <1>4, <1>5

\* What is known of a request once its tenant has been resolved.
LEMMA PastContext ==
  ASSUME IInv, NEW q \in Slot, stage[q] \in {"deps", "route", "service"}
  PROVE  /\ Sound(q)
         /\ input[q].request \in Request /\ input[q].setting \in Setting
         /\ input[q].request.tenant \in Tenant
         /\ tenant[q] = ContextOf(input[q].request)
<1>1. Sound(q)
  BY Facts
<1>2. /\ input[q] \in Incoming /\ tenant[q] = ContextOf(input[q].request)
      /\ Resolved(input[q].request, input[q].setting)
  BY <1>1 DEF Sound
<1>3. input[q].request \in Request /\ input[q].setting \in Setting
  BY <1>2 DEF Incoming
<1> QED
  BY <1>1, <1>2, <1>3, ResolvedIsTenant

LEMMA RequestDepsStep ==
  ASSUME IInv, NEW q \in Slot, RequestDeps(q) PROVE IInv'
<1> DEFINE d == Named(input[q].setting)
<1>1. stage[q] = "deps" /\ UNCHANGED <<bootVars, setting, rotated, input, tenant, stored>>
  BY DEF RequestDeps
<1>2. Sound(q) /\ input[q].setting \in Setting
  BY <1>1, PastContext
<1>3. StoredSound' /\ stored' \in [Tenant -> [Dsn -> Key \cup {Absent}]]
  BY <1>1, Facts, StoredStays DEF Typed
<1>4. d = [dsn |-> d.dsn, key |-> d.key]
  BY DEF Named
<1>5. ASSUME d \in Pair, deps' = [deps EXCEPT ![q] = d], GoOn(q, "route"), CacheSound'
      PROVE  IInv'
  <2>1. Typed'
    BY <1>1, <1>5, Facts DEF Typed, GoOn, Stages
  <2>2. /\ stage'[q] = "route" /\ answer'[q] = answer[q] /\ deps'[q] = d
        /\ \A p \in Slot : p # q => tenant'[p] = tenant[p] /\ deps'[p] = deps[p]
    BY <1>1, <1>5, Facts DEF GoOn, Typed
  <2>3. d # NoDeps
    BY <1>5, NamesAssumption DEF Pair, NoDeps
  <2>4. Named(input[q].setting)' = d
    BY <1>1 DEF Named, OrElse, bootVars
  <2>5. /\ Resolved(input[q].request, input[q].setting)'
             = Resolved(input[q].request, input[q].setting)
        /\ ContextOf(input[q].request)' = ContextOf(input[q].request)
    BY <1>1 DEF Resolved, ResolveHeader, ResolveAuthenticated, ContextOf,
       SelectProvider, SecretFor, bootVars
  <2> HIDE DEF d
  <2>6. Sound(q)'
    BY <1>1, <1>2, <2>2, <2>3, <2>4, <2>5 DEF Sound, Ordered, Asked
  <2> QED
    BY <1>1, <1>5, <2>1, <2>2, <2>6, GoOnStep DEF Underway
<1>6. ASSUME NEW s \in {503, 500}, ErrorHandler(q, s), UNCHANGED <<deps, cache>>
      PROVE  IInv'
  <2>1. Reply(q, s)
    BY <1>6, ErrorReplies DEF ErrorStatuses
  <2>2. CacheSound'
    BY <1>6, Facts, CacheStays
  <2> QED
    BY <1>1, <1>2, <1>3, <1>6, <2>1, <2>2, ReplyStep DEF Errors, Underway, ErrorStatuses
<1>7. CASE /\ host = "inProcess" \/ (Configured(d) /\ Cached(d) # {})
           /\ deps' = [deps EXCEPT ![q] =
                IF host = "inProcess" THEN d ELSE (CHOOSE c \in Cached(d) : TRUE).deps]
           /\ GoOn(q, "route")
           /\ UNCHANGED cache
  <2>1. CacheSound'
    BY <1>7, Facts, CacheStays
  <2>2. CASE host = "inProcess"
    <3>1. d \in Pair
      BY <1>2, <2>2, Facts, NamedTyped
    <3> QED
      BY <1>5, <1>7, <2>1, <2>2, <3>1
  <2>3. CASE host # "inProcess"
    <3>1. Cached(d) # {}
      BY <1>7, <2>3
    <3> HIDE DEF d
    <3>2. (CHOOSE c \in Cached(d) : TRUE).deps = d /\ d \in Pair
      BY <1>4, <3>1, Facts, CachedIsNamed
    <3> QED
      BY <1>5, <1>7, <2>1, <2>3, <3>2
  <2> QED
    BY <2>2, <2>3
<1>8. CASE /\ host = "standalone" /\ ~Configured(d)
           /\ ErrorHandler(q, Errors.notConfigured)
           /\ UNCHANGED <<deps, cache>>
  BY <1>6, <1>8 DEF Errors
<1>9. CASE /\ host = "standalone" /\ Configured(d) /\ Cached(d) = {}
           /\ d.key \in Key
           /\ deps' = [deps EXCEPT ![q] = d]
           /\ cache' = cache \cup {[at |-> CacheKey(d), deps |-> d]}
           /\ GoOn(q, "route")
  <2>1. d \in Pair
    BY <1>2, <1>9, Facts, NamedTyped
  <2> HIDE DEF d
  <2>2. CacheSound'
    BY <1>9, <2>1, Facts DEF CacheSound, CacheKey
  <2> QED
    BY <1>5, <1>9, <2>1, <2>2
<1>10. CASE ErrorHandler(q, Errors.internal) /\ UNCHANGED <<deps, cache>>
  BY <1>6, <1>10 DEF Errors
<1> QED
  BY <1>7, <1>8, <1>9, <1>10 DEF RequestDeps

LEMMA DispatchStep ==
  ASSUME IInv, NEW q \in Slot, Dispatch(q) PROVE IInv'
<1>1. /\ stage[q] = "route"
      /\ UNCHANGED <<bootVars, setting, rotated, input, tenant, deps, cache, stored>>
  BY DEF Dispatch
<1>2. /\ Sound(q) /\ input[q].request \in Request
      /\ tenant[q] = ContextOf(input[q].request)
  BY <1>1, PastContext
<1>3. /\ CacheSound' /\ StoredSound' /\ stored' \in [Tenant -> [Dsn -> Key \cup {Absent}]]
      /\ UNCHANGED <<bootVars, setting, rotated, input, tenant, deps>>
  BY <1>1, Facts, CacheStays, StoredStays DEF Typed
<1>4. CASE ServesRoute(input[q].request.call) = {} /\ Reply(q, 404)
  BY <1>1, <1>2, <1>3, <1>4, ReplyStep DEF Underway, ErrorStatuses
<1>5. ASSUME NEW route \in ServesRoute(input[q].request.call),
             ~Permits(tenant[q].permissions, route.permission), ErrorHandler(q, 403)
      PROVE  IInv'
  <2>1. Reply(q, 403)
    BY <1>5, ErrorReplies DEF ErrorStatuses
  <2> QED
    BY <1>1, <1>2, <1>3, <2>1, ReplyStep DEF Errors, Underway, ErrorStatuses
<1>6. ASSUME NEW route \in ServesRoute(input[q].request.call),
             Permits(tenant[q].permissions, route.permission),
             NEW s \in {422, 501, 500}, ErrorHandler(q, s)
      PROVE  IInv'
  <2>1. Reply(q, s)
    BY <1>6, ErrorReplies DEF ErrorStatuses
  <2>2. Granted(input[q])
    BY <1>2, <1>6, PermittedIsGranted
  <2> QED
    BY <1>1, <1>2, <1>3, <2>1, <2>2, ReplyStep DEF Underway, ErrorStatuses
<1>7. ASSUME NEW route \in ServesRoute(input[q].request.call),
             Permits(tenant[q].permissions, route.permission), GoOn(q, "service")
      PROVE  IInv'
  <2>1. Typed'
    BY <1>1, <1>7, Facts DEF Typed, GoOn, Stages
  <2>2. stage'[q] = "service" /\ answer'[q] = answer[q]
    BY <1>7, Facts DEF GoOn, Typed
  <2>3. Permitted(q)'
    BY <1>1, <1>7 DEF Permitted
  <2>4. /\ Resolved(input[q].request, input[q].setting)'
             = Resolved(input[q].request, input[q].setting)
        /\ ContextOf(input[q].request)' = ContextOf(input[q].request)
        /\ Named(input[q].setting)' = Named(input[q].setting)
    BY <1>1 DEF Resolved, ResolveHeader, ResolveAuthenticated, ContextOf,
       SelectProvider, SecretFor, Named, OrElse, bootVars
  <2>5. Sound(q)'
    BY <1>1, <1>2, <2>2, <2>3, <2>4 DEF Sound, Ordered, Asked
  <2> QED
    BY <1>1, <1>3, <1>7, <2>1, <2>5, GoOnStep DEF Underway
<1> QED
  BY <1>4, <1>5, <1>6, <1>7 DEF Dispatch, Errors, Stub

LEMMA ServeStep ==
  ASSUME IInv, NEW q \in Slot, Serve(q) PROVE IInv'
<1> DEFINE call == input[q].request.call
           t == input[q].request.tenant
<1>1. /\ stage[q] = "service"
      /\ UNCHANGED <<bootVars, setting, rotated, input, tenant, deps, cache>>
  BY DEF Serve
<1>2. /\ Sound(q) /\ input[q].request \in Request
      /\ t \in Tenant /\ tenant[q] = ContextOf(input[q].request)
  BY <1>1, PastContext
<1>3. CacheSound'
  BY <1>1, Facts, CacheStays
<1>4. Granted(input[q])
  BY <1>1, <1>2, PermittedIsGranted DEF Sound, Permitted
<1>5. tenant[q].tenantId = t
  BY <1>2, ContextTyped
<1>6. deps[q] \in Pair /\ deps[q] = Named(input[q].setting)
  BY <1>1, <1>2, Facts DEF Sound, Typed
<1>7. ASSUME UNCHANGED stored
      PROVE  StoredSound' /\ stored' \in [Tenant -> [Dsn -> Key \cup {Absent}]]
  BY <1>1, <1>7, Facts, StoredStays DEF Typed
<1>8. ASSUME NEW s \in {422, 500, 404}, ErrorHandler(q, s), UNCHANGED stored PROVE IInv'
  <2>1. Reply(q, s)
    BY <1>8, ErrorReplies DEF ErrorStatuses
  <2> QED
    BY <1>1, <1>2, <1>3, <1>4, <1>7, <1>8, <2>1, ReplyStep DEF Underway, ErrorStatuses
<1>9. CASE \E s \in ServiceErrors : ErrorHandler(q, s) /\ UNCHANGED stored
  BY <1>8, <1>9 DEF ServiceErrors, Errors
<1>10. CASE /\ ErrorHandler(q, IF StoredKey(q) = Absent THEN Errors.validation
                                                        ELSE Errors.internal)
            /\ UNCHANGED stored
  BY <1>8, <1>10 DEF Errors
<1>11. CASE /\ \E route \in ServesRoute(call) : Reply(q, route.status)
            /\ \E key \in KeysAfter(q) : Store(q, key)
  <2>1. PICK s \in {200, 201, 204} \cup ErrorStatuses : Reply(q, s)
    BY <1>11, StatusesTyped DEF ServesRoute, ErrorStatuses
  <2>2. PICK k \in {deps[q].key, StoredKey(q), Absent} : Store(q, k)
    BY <1>11 DEF KeysAfter
  <2>3. StoredSound' /\ stored' \in [Tenant -> [Dsn -> Key \cup {Absent}]]
    <3>1. /\ deps[q].dsn \in Dsn /\ stored \in [Tenant -> [Dsn -> Key \cup {Absent}]]
          /\ deps[q].key \in Key
      BY <1>6, Facts DEF Pair, Typed
    <3>2. k \in Key \cup {Absent}
      BY <1>2, <1>5, <2>2, <3>1 DEF StoredKey
    <3>3. stored' = [stored EXCEPT ![t][deps[q].dsn] = k]
      BY <1>5, <2>2 DEF Store
    <3>4. stored' \in [Tenant -> [Dsn -> Key \cup {Absent}]]
      BY <1>2, <3>1, <3>2, <3>3
    <3>5. ASSUME NEW u \in Tenant \ rotated, NEW e \in Dsn
          PROVE  stored'[u][e] \in {Absent, Named(setting[u]).key}
      <4>1. CASE u = t /\ e = deps[q].dsn
        <5>1. input[q].setting = setting[u]
          BY <1>1, <1>2, <4>1 DEF Sound
        <5>2. StoredKey(q) \in {Absent, Named(setting[u]).key}
          BY <1>5, <3>5, <4>1, Facts DEF StoredSound, StoredKey
        <5>3. k \in {Absent, Named(setting[u]).key}
          BY <1>6, <2>2, <5>1, <5>2
        <5>4. stored'[u][e] = k
          BY <1>2, <3>1, <3>3, <4>1
        <5> QED
          BY <5>3, <5>4
      <4>2. CASE ~(u = t /\ e = deps[q].dsn)
        <5>1. stored'[u][e] = stored[u][e]
          BY <1>2, <3>1, <3>3, <4>2
        <5> QED
          BY <5>1, Facts DEF StoredSound
      <4> QED
        BY <4>1, <4>2
    <3>6. \A u \in Tenant \ rotated : Named(setting[u])' = Named(setting[u])
      BY <1>1 DEF Named, OrElse, bootVars
    <3> QED
      BY <1>1, <3>4, <3>5, <3>6 DEF StoredSound
  <2> QED
    BY <1>1, <1>2, <1>3, <1>4, <2>1, <2>3, ReplyStep DEF Underway
<1> QED
  BY <1>9, <1>10, <1>11 DEF Serve

\* A place that is free knows nothing.
LEMMA FreeIsSound ==
  ASSUME NEW q, stage[q] = "idle", input[q] = NoInput, tenant[q] = NoTenant,
         deps[q] = NoDeps, answer[q] = NoStatus
  PROVE  Sound(q)
  BY DEF Sound, Ordered, Asked

LEMMA DoneStep ==
  ASSUME IInv, NEW q \in Slot, Done(q) PROVE IInv'
<1>1. /\ stage'[q] = "idle" /\ input'[q] = NoInput /\ tenant'[q] = NoTenant
      /\ deps'[q] = NoDeps /\ answer'[q] = NoStatus
      /\ UNCHANGED <<bootVars, setting, rotated, cache, stored>>
  BY Facts DEF Done, Clear, Typed
<1>2. Typed'
  BY <1>1, Facts DEF Done, Clear, Typed, Stages, NoStatus
<1>3. Sound(q)'
  BY <1>1 DEF Sound, Ordered, Asked
<1> QED
  BY <1>1, <1>2, <1>3, Facts, CacheStays, StoredStays, OneStep DEF Done, Clear, Typed

\* The gateway sends another key along from now on; what is under way has the
\* old one.
LEMMA RotateStep ==
  ASSUME IInv, NEW t \in Tenant, Rotate(t) PROVE IInv'
<1>1. PICK k \in Key \ {setting[t].key} : setting' = [setting EXCEPT ![t].key = k]
  BY DEF Rotate
<1>2. /\ rotated' = rotated \cup {t}
      /\ UNCHANGED <<bootVars, stage, input, tenant, deps, answer, cache, stored>>
  BY DEF Rotate
<1>3. /\ setting' \in [Tenant -> Setting]
      /\ \A u \in Tenant : u # t => setting'[u] = setting[u]
  <2>1. [setting[t] EXCEPT !.key = k] \in Setting
    BY Facts DEF Typed, Setting
  <2> QED
    BY <1>1, <2>1, Facts DEF Typed
<1>4. Typed'
  BY <1>2, <1>3, Facts DEF Typed
<1>5. ASSUME NEW q \in Slot PROVE Sound(q)'
  <2>1. Sound(q)
    BY Facts
  <2>2. /\ Resolved(input[q].request, input[q].setting)'
             = Resolved(input[q].request, input[q].setting)
        /\ ContextOf(input[q].request)' = ContextOf(input[q].request)
        /\ Named(input[q].setting)' = Named(input[q].setting)
    BY <1>2 DEF Resolved, ResolveHeader, ResolveAuthenticated, ContextOf,
       SelectProvider, SecretFor, Named, OrElse, bootVars
  <2>3. Ordered(q)' /\ (Permitted(q) => Permitted(q)')
    BY <1>2, <2>1 DEF Sound, Ordered, Asked, Granted, Permitted
  <2>4. stage[q] # "idle" /\ input[q].request.tenant \in Tenant \ rotated' =>
          input[q].setting = setting'[input[q].request.tenant]
    BY <1>2, <1>3, <2>1 DEF Sound
  <2> QED
    BY <1>2, <2>1, <2>2, <2>3, <2>4 DEF Sound
<1>6. StoredSound'
  <2> SUFFICES ASSUME NEW u \in Tenant \ rotated', NEW e \in Dsn
               PROVE  stored[u][e] \in {Absent, Named(setting[u])'.key}
    BY <1>2 DEF StoredSound
  <2>1. u \notin rotated /\ setting'[u] = setting[u]
    BY <1>2, <1>3
  <2>2. Named(setting[u])' = Named(setting[u])
    BY <1>2, <2>1 DEF Named, OrElse, bootVars
  <2> QED
    BY <2>1, <2>2, Facts DEF StoredSound
<1> QED
  BY <1>2, <1>4, <1>5, <1>6, Facts, BootedStays, CacheStays DEF IInv

LEMMA RestartStep ==
  ASSUME IInv, Restart PROVE IInv'
<1>1. Typed'
  BY Facts DEF Restart, Typed, Stages, NoStatus
<1>2. \A q \in Slot : Sound(q)'
  BY DEF Restart, Sound, Ordered, Asked
<1>3. Booted' /\ StoredSound'
  BY Facts, BootedStays, StoredStays DEF Restart
<1>4. CacheSound'
  BY DEF Restart, CacheSound
<1> QED
  BY <1>1, <1>2, <1>3, <1>4 DEF IInv

(***************************************************************************)
(* The theorems about safety.                                              *)
(***************************************************************************)
LEMMA Initially == Init => IInv
<1> SUFFICES ASSUME Init PROVE IInv
  OBVIOUS
<1>1. Booted
  BY EnvironmentsAssumption DEF Init, Booted
<1>2. Typed
  BY EnvironmentsAssumption DEF Init, Typed, Stages, NoStatus
<1>3. \A q \in Slot : Sound(q)
  BY FreeIsSound DEF Init
<1>4. CacheSound /\ StoredSound
  BY DEF Init, CacheSound, StoredSound
<1> QED
  BY <1>1, <1>2, <1>3, <1>4 DEF IInv

LEMMA Inductive == IInv /\ [Next]_vars => IInv'
<1> SUFFICES ASSUME IInv, [Next]_vars PROVE IInv'
  OBVIOUS
<1>1. ASSUME NEW q \in Slot, Accept(q) \/ Handle(q) \/ Done(q) PROVE IInv'
  BY <1>1, AcceptStep, ResolveTenantStep, RequestDepsStep, DispatchStep, ServeStep, DoneStep
     DEF Handle
<1>2. ASSUME NEW t \in Tenant, Rotate(t) PROVE IInv'
  BY <1>2, RotateStep
<1>3. CASE Restart
  BY <1>3, RestartStep
<1>4. CASE UNCHANGED vars
  <2>1. Typed' /\ UNCHANGED <<bootVars, setting, rotated, cache, stored>>
    BY <1>4, Facts DEF Typed, vars, bootVars
  <2>2. \A q \in Slot : Sound(q)'
    BY <1>4, <2>1, Facts, OthersSound DEF vars
  <2> QED
    BY <2>1, <2>2, Facts, BootedStays, CacheStays, StoredStays DEF IInv
<1> QED
  BY <1>1, <1>2, <1>3, <1>4 DEF Next

\* The inductive invariant holds throughout.
THEOREM Invariant == Spec => []IInv
  BY Initially, Inductive, PTL DEF Spec

\* The variables of RequestPipeline keep their types; in particular the tenant
\* is set once tenantContext has passed, the dependencies once they are built.
THEOREM TypesKept == Spec => []PipelineTypeOK
<1>1. ASSUME IInv PROVE PipelineTypeOK
  <2>1. ASSUME NEW q \in Slot
        PROVE  /\ stage[q] # "idle" => /\ input[q].request \in Requests[q]
                                       /\ input[q].setting \in Setting
               /\ stage[q] \in {"idle", "context"} => tenant[q] = NoTenant /\ deps[q] = NoDeps
               /\ stage[q] \in {"deps", "route", "service"} =>
                    /\ tenant[q].tenantId \in Tenant
                    /\ tenant[q].permissions \subseteq Permission
               /\ stage[q] \in {"route", "service"} => deps[q] \in [dsn : Dsn, key : Key]
               /\ stage[q] = "answered" <=> answer[q] # NoStatus
    <3>1. Sound(q) /\ deps[q] \in {NoDeps} \cup Pair
      BY <1>1, Facts DEF Typed
    <3>2. CASE stage[q] \in {"deps", "route", "service"}
      <4>1. tenant[q] \in Context
        BY <1>1, <3>2, PastContext, ContextTyped
      <4> QED
        BY <3>1, <3>2, <4>1 DEF Sound, Incoming, Context, Pair
    <3>3. CASE stage[q] \notin {"deps", "route", "service"}
      BY <3>1, <3>3 DEF Sound, Incoming
    <3> QED
      BY <3>2, <3>3
  <2>2. \A c \in cache : c.deps \in [dsn : Dsn, key : Key]
    BY <1>1, Facts DEF CacheSound, Pair
  <2> QED
    BY <1>1, <2>1, <2>2, Facts DEF PipelineTypeOK, Booted, Typed
<1>2. IInv => PipelineTypeOK
  BY <1>1
<1> QED
  BY <1>2, Invariant, PTL

\* The factory's cache hands a request the controllers of its own database and
\* key, whatever came before and however often keys change.
THEOREM ServedByOwnAssembly == Spec => []OwnAssembly
<1>1. IInv => OwnAssembly
  BY DEF IInv, Sound, OwnAssembly
<1> QED
  BY <1>1, Invariant, PTL

\* encrypt and decrypt use the same key until the tenant is given another one.
THEOREM TokensStayReadable == Spec => []ReadableUntilRotated
<1>1. ASSUME IInv PROVE ReadableUntilRotated
  <2> SUFFICES ASSUME NEW q \in Slot, stage[q] = "service", tenant[q].tenantId \notin rotated
               PROVE  StoredKey(q) \in {Absent, deps[q].key}
    BY DEF ReadableUntilRotated
  <2>1. /\ Sound(q) /\ input[q].request.tenant \in Tenant
        /\ tenant[q].tenantId = input[q].request.tenant
    BY <1>1, PastContext, ContextTyped
  <2>2. deps[q] = Named(input[q].setting) /\ deps[q].dsn \in Dsn
    BY <1>1, <2>1, Facts DEF Sound, Typed, Pair
  <2>3. input[q].setting = setting[tenant[q].tenantId]
    BY <2>1 DEF Sound
  <2> QED
    BY <1>1, <2>1, <2>2, <2>3, Facts DEF StoredKey, StoredSound
<1>2. IInv => ReadableUntilRotated
  BY <1>1
<1> QED
  BY <1>2, Invariant, PTL

\* Permission, validation and stub answer in this order: a reply gives away
\* nothing of a route to a caller that lacks its permission.
THEOREM RefusedInOrder == Spec => []RefusalsInOrder
<1>1. IInv => RefusalsInOrder
  BY DEF IInv, Sound, Ordered, RefusalsInOrder
<1> QED
  BY <1>1, Invariant, PTL

(***************************************************************************)
(* The reference monitor, for the requests that come as documented; the    *)
(* others are none of its callers, and their steps stutter.                *)
(***************************************************************************)
\* Of these, tenantContext lets exactly the ones through that are vouched for.
LEMMA ResolvedIsVouched ==
  ASSUME IInv, NEW q \in Slot, stage[q] # "idle", AsDocumented(input[q])
  PROVE  Resolved(input[q].request, input[q].setting) <=> Vouched(input[q])
<1> DEFINE r == input[q].request
           s == input[q].setting
<1>1. input[q] # NoInput /\ r \in Requests[q] /\ r \in Request
  BY Facts DEF Sound, Incoming
<1>2. /\ r.token \in Token
      /\ SelectProvider = "header" => r.token.shape # Absent /\ Given(SecretFor(s))
  BY <1>1 DEF AsDocumented, Request
<1>3. Given(r.tenant) <=> r.tenant \in Tenant
  BY <1>1, NamesAssumption DEF Request, Given
<1>4. r.token \in Issued(r.tenant, SecretFor(s)) <=>
        /\ VerifyToken(r.token, SecretFor(s)) /\ r.token.tenant = r.tenant
        /\ r.token.ttl \in 0 .. MaxTtl
  <2>1. r.token = [shape |-> r.token.shape, signer |-> r.token.signer,
                   tenant |-> r.token.tenant, slug |-> r.token.slug, ttl |-> r.token.ttl]
        /\ r.token.slug \in STRING
    BY <1>2 DEF Token
  <2> QED
    BY <2>1 DEF Issued, VerifyToken
<1> QED
  BY <1>2, <1>3, <1>4 DEF Resolved, ResolveHeader, ResolveAuthenticated, Vouched

\* What is to be settled about a request depends on it, on what is sent along
\* with it and on how the process was started.
LEMMA SettledStays ==
  ASSUME NEW p \in Slot, input'[p] = input[p], UNCHANGED bootVars
  PROVE  /\ Watched(p)' = Watched(p)
         /\ Vouched(input[p])' = Vouched(input[p])
         /\ Granted(input[p])' = Granted(input[p])
  BY DEF Watched, AsDocumented, Vouched, Granted, SelectProvider, SecretFor, bootVars

\* The monitor sees nothing of a step that leaves requests and verdicts alone.
LEMMA Unseen ==
  ASSUME UNCHANGED <<input, bootVars>>,
         \A p \in Slot : Watched(p) => Verdict(p)' = Verdict(p)
  PROVE  UNCHANGED <<vouched, granted, verdict>>
<1>1. \A p \in Slot : /\ Watched(p)' = Watched(p)
                      /\ Vouched(input[p])' = Vouched(input[p])
                      /\ Granted(input[p])' = Granted(input[p])
  BY SettledStays
<1> QED
  BY <1>1 DEF vouched, granted, verdict

\* How the verdict on one request moves while it is handled.
LEMMA VerdictMoves ==
  ASSUME NEW q \in Slot, Watched(q), UNCHANGED <<input, bootVars>>,
         \A p \in Slot : p # q => Verdict(p)' = Verdict(p)
  PROVE  /\ UNCHANGED <<vouched, granted>>
         /\ verdict[q] = Verdict(q) /\ verdict' = [verdict EXCEPT ![q] = Verdict(q)']
<1>1. \A p \in Slot : /\ Watched(p)' = Watched(p)
                      /\ Vouched(input[p])' = Vouched(input[p])
                      /\ Granted(input[p])' = Granted(input[p])
  BY SettledStays
<1> QED
  BY <1>1 DEF vouched, granted, verdict

LEMMA HandleKeepsPromise ==
  ASSUME IInv, NEW q \in Slot, Handle(q), Watched(q)
  PROVE  [M!Next]_<<vouched, granted, verdict>>
<1>1. /\ stage[q] \in Underway /\ UNCHANGED <<input, bootVars>>
      /\ \A p \in Slot : p # q => stage'[p] = stage[p] /\ answer'[p] = answer[p]
  BY Facts DEF Handle, ResolveTenant, RequestDeps, Dispatch, Serve, Underway, GoOn, Reply,
     ErrorHandler, Typed
<1>2. /\ UNCHANGED <<vouched, granted>>
      /\ verdict[q] = Verdict(q) /\ verdict' = [verdict EXCEPT ![q] = Verdict(q)']
  BY <1>1, VerdictMoves DEF Verdict
<1>3. /\ input[q] # NoInput /\ input[q].request \in Request
      /\ vouched[q] <=> Vouched(input[q])
      /\ granted[q] <=> Granted(input[q])
  <2>1. input[q] # NoInput /\ input[q].request \in Request
    BY <1>1, Facts DEF Sound, Incoming, Underway
  <2> QED
    BY <2>1 DEF vouched, granted
<1>4. CASE ResolveTenant(q)
  <2>1. Resolved(input[q].request, input[q].setting) <=> vouched[q]
    BY <1>1, <1>3, ResolvedIsVouched DEF Underway, Watched
  <2>2. Verdict(q) = "pending"
    BY <1>4 DEF ResolveTenant, Verdict
  <2>3. IF vouched[q] THEN stage'[q] = "deps"
                      ELSE stage'[q] = "answered" /\ answer'[q] = 401
    BY <1>4, <2>1, Facts DEF ResolveTenant, GoOn, ErrorHandler, Reply, Errors, Typed
  <2>4. Verdict(q)' = IF vouched[q] THEN "known" ELSE "stranger"
    BY <2>3 DEF Verdict, Errors
  <2> QED
    BY <1>2, <2>2, <2>4 DEF M!Next, M!Recognise, M!Reject, M!Move
<1>5. ASSUME NEW s \in {200, 201, 204} \cup (ErrorStatuses \ {401}), Reply(q, s),
             Verdict(q) \in {"known", "admitted"}
      PROVE  [M!Next]_<<vouched, granted, verdict>>
  <2>1. stage'[q] = "answered" /\ answer'[q] = s
    BY <1>5, Facts DEF Reply, Typed
  <2>2. Verdict(q)' = "closed"
    BY <2>1 DEF Verdict, Errors, ErrorStatuses
  <2> QED
    BY <1>2, <1>5, <2>2 DEF M!Next, M!Close, M!Move
<1>6. CASE RequestDeps(q)
  <2>1. Verdict(q) = "known"
    BY <1>6 DEF RequestDeps, Verdict
  <2>2. CASE GoOn(q, "route")
    <3>1. Verdict(q)' = "known"
      BY <2>2, Facts DEF GoOn, Verdict, Typed
    <3> QED
      BY <1>2, <2>1, <3>1 DEF verdict
  <2>3. CASE \E s \in {500, 503} : ErrorHandler(q, s)
    BY <1>5, <2>1, <2>3, ErrorReplies DEF ErrorStatuses
  <2> QED
    BY <1>6, <2>2, <2>3 DEF RequestDeps, Errors
<1>7. CASE Dispatch(q)
  <2>1. Verdict(q) = "known"
    BY <1>7 DEF Dispatch, Verdict
  <2>2. CASE GoOn(q, "service")
    <3>1. Verdict(q)' = "admitted"
      BY <2>2, Facts DEF GoOn, Verdict, Typed
    <3>2. \E route \in ServesRoute(input[q].request.call) :
            Permits(tenant[q].permissions, route.permission)
      BY <1>7, <2>2, Facts DEF Dispatch, GoOn, Reply, ErrorHandler, Typed
    <3>3. tenant[q] = ContextOf(input[q].request)
      BY <1>7, PastContext DEF Dispatch
    <3>4. granted[q]
      BY <1>3, <3>2, <3>3, PermittedIsGranted
    <3> QED
      BY <1>2, <2>1, <3>1, <3>4 DEF M!Next, M!Admit, M!Move
  <2>3. CASE \E s \in {403, 422, 501, 500} : ErrorHandler(q, s)
    BY <1>5, <2>1, <2>3, ErrorReplies DEF ErrorStatuses
  <2>4. CASE Reply(q, 404)
    BY <1>5, <2>1, <2>4 DEF ErrorStatuses
  <2> QED
    BY <1>7, <2>2, <2>3, <2>4 DEF Dispatch, Errors, Stub
<1>8. CASE Serve(q)
  <2>1. Verdict(q) = "admitted"
    BY <1>8 DEF Serve, Verdict
  <2>2. CASE \E s \in {404, 422, 500} : ErrorHandler(q, s)
    BY <1>5, <2>1, <2>2, ErrorReplies DEF ErrorStatuses
  <2>3. CASE \E route \in ServesRoute(input[q].request.call) : Reply(q, route.status)
    BY <1>5, <2>1, <2>3, StatusesTyped DEF ServesRoute, ErrorStatuses
  <2> QED
    BY <1>8, <2>2, <2>3 DEF Serve, ServiceErrors, Errors
<1> QED
  BY <1>4, <1>6, <1>7, <1>8 DEF Handle

LEMMA MonitorStep ==
  ASSUME IInv, Next
  PROVE  [M!Next]_<<vouched, granted, verdict>>
<1>1. ASSUME NEW q \in Slot, Accept(q) \/ Done(q)
      PROVE  [M!Next]_<<vouched, granted, verdict>>
  <2>1. /\ UNCHANGED bootVars
        /\ \A p \in Slot : p # q =>
             stage'[p] = stage[p] /\ input'[p] = input[p] /\ answer'[p] = answer[p]
    BY <1>1, Facts DEF Accept, Done, Clear, GoOn, Reply, ErrorHandler, Typed
  <2>2. \A p \in Slot : p # q =>
          /\ Watched(p)' = Watched(p) /\ Verdict(p)' = Verdict(p)
          /\ Vouched(input[p])' = Vouched(input[p]) /\ Granted(input[p])' = Granted(input[p])
    BY <2>1, SettledStays DEF Verdict
  <2> DEFINE w == Watched(q)'
             b == w /\ Vouched(input[q])'
             g == w /\ Granted(input[q])'
             v == IF w THEN Verdict(q)' ELSE "none"
  <2>3. /\ vouched' = [vouched EXCEPT ![q] = b] /\ granted' = [granted EXCEPT ![q] = g]
        /\ verdict' = [verdict EXCEPT ![q] = v]
        /\ b \in BOOLEAN /\ g \in BOOLEAN
    BY <2>1, <2>2 DEF vouched, granted, verdict
  <2>4. CASE Accept(q)
    <3>1. input[q] = NoInput
      BY <2>4, Facts DEF Accept, Sound
    <3>2. ~Watched(q) /\ vouched[q] = FALSE /\ granted[q] = FALSE /\ verdict[q] = "none"
      BY <3>1 DEF Watched, vouched, granted, verdict
    <3>3. \/ stage'[q] = "context"
          \/ stage'[q] = "answered" /\ answer'[q] \in {200, 500}
      BY <2>4, Facts DEF Accept, GoOn, Reply, ErrorHandler, Typed, Errors
    <3>4. Verdict(q)' \in {"pending", "closed"}
      BY <3>3 DEF Verdict, Errors
    <3>5. CASE w
      <4>1. v \in {"pending", "closed"}
        BY <3>4, <3>5
      <4> HIDE DEF b, g, v
      <4> QED
        BY <2>3, <3>2, <4>1 DEF M!Next, M!Arrive, M!TurnAway, M!Move, M!Settle
    <3>6. CASE ~w
      <4>1. b = FALSE /\ g = FALSE /\ v = "none"
        BY <3>6
      <4> HIDE DEF b, g, v
      <4> QED
        BY <2>3, <3>2, <4>1 DEF vouched, granted, verdict
    <3> QED
      BY <3>5, <3>6
  <2>5. CASE Done(q)
    <3>1. Verdict(q) \in {"stranger", "closed"}
      BY <2>5 DEF Done, Verdict
    <3>2. ~w /\ b = FALSE /\ g = FALSE /\ v = "none"
      BY <2>5, Facts DEF Done, Clear, Typed, Watched
    <3>3. CASE Watched(q)
      <4>1. verdict[q] \in {"stranger", "closed"}
        BY <3>1, <3>3 DEF verdict
      <4> HIDE DEF b, g, v, w
      <4> QED
        BY <2>3, <3>2, <4>1 DEF M!Next, M!Leave, M!Move
    <3>4. CASE ~Watched(q)
      <4>1. vouched[q] = FALSE /\ granted[q] = FALSE /\ verdict[q] = "none"
        BY <3>4 DEF vouched, granted, verdict
      <4> HIDE DEF b, g, v, w
      <4> QED
        BY <2>3, <3>2, <4>1 DEF vouched, granted, verdict
    <3> QED
      BY <3>3, <3>4
  <2> QED
    BY <1>1, <2>4, <2>5
<1>2. ASSUME NEW q \in Slot, Handle(q) PROVE [M!Next]_<<vouched, granted, verdict>>
  <2>1. CASE Watched(q)
    BY <1>2, <2>1, HandleKeepsPromise
  <2>2. CASE ~Watched(q)
    <3>1. /\ UNCHANGED <<input, bootVars>>
          /\ \A p \in Slot : p # q => stage'[p] = stage[p] /\ answer'[p] = answer[p]
      BY <1>2, Facts DEF Handle, ResolveTenant, RequestDeps, Dispatch, Serve, GoOn, Reply,
         ErrorHandler, Typed
    <3> QED
      BY <2>2, <3>1, Unseen DEF Verdict
  <2> QED
    BY <2>1, <2>2
<1>3. ASSUME NEW t \in Tenant, Rotate(t) PROVE [M!Next]_<<vouched, granted, verdict>>
  BY <1>3, Unseen DEF Rotate, Verdict
<1>4. CASE Restart
  <2>1. \A p \in Slot : input'[p] = NoInput
    BY <1>4 DEF Restart
  <2>2. /\ verdict' = [p \in Slot |-> "none"] /\ vouched' = [p \in Slot |-> FALSE]
        /\ granted' = [p \in Slot |-> FALSE]
    BY <2>1 DEF Watched, vouched, granted, verdict
  <2> QED
    BY <2>2 DEF M!Next, M!Vanish
<1> QED
  BY <1>1, <1>2, <1>3, <1>4 DEF Next

\* The guards implement the reference monitor: of the requests that come as
\* documented, tenantContext recognises exactly those the platform vouches for,
\* and a handler runs only for one whose route its caller has been granted,
\* whatever requests of other kinds are under way.
THEOREM GuardsImplementMonitor == Spec => ImplementsMonitor
<1>1. Init => M!Init
  BY DEF Init, M!Init, Watched, vouched, granted, verdict
<1>2. IInv /\ [Next]_vars => [M!Next]_<<vouched, granted, verdict>>
  <2>1. ASSUME UNCHANGED vars PROVE UNCHANGED <<vouched, granted, verdict>>
    BY <2>1, Unseen DEF vars, bootVars, Verdict
  <2> QED
    BY <2>1, MonitorStep
<1> QED
  BY <1>1, <1>2, Invariant, PTL DEF Spec, ImplementsMonitor, M!Spec
==============================================================================
