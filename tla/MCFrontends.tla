----------------------------- MODULE MCFrontends -----------------------------
(* An instance of Frontends for TLC.  The roles: a superuser, one who looks  *)
(* only, one who manages servers and tokens, and one who may create servers  *)
(* without seeing them.                                                      *)
EXTENDS Frontends, TLC

Looks == {p \in Permission : \E r \in Routes : r.call[1] = "GET" /\ r.permission = p}
Manages == {p \in Permission : \E r \in ServersRoutes \cup TokensRoutes : r.permission = p}

MCGranted == {{"admin"}, Looks, Manages, {"servers.create", "accounts.view", "email.view"}}

\* A sound manifest, and those that depart from it in one or two places.
Act(p, place) == [ViewAction("GET", "/accounts", p) EXCEPT !.place = place]
Acts == {{}} \cup {{Act(p, place)} : p \in {"view", "foreign", NoPermission}, place \in Place}
Sections == {{}} \cup {{[Section("/accounts", p, a) EXCEPT !.place = place]} :
                         p \in {"view", "foreign"}, place \in Place, a \in Acts}

Bare == [identityOk |-> TRUE, envOk |-> TRUE, apiPrefix |-> "own", permissions |-> {"view"},
         requiredPermissions |-> {"view"}, views |-> {}, tools |-> {}]

MCManifests ==
  {ExtensionManifest}
  \cup {[Bare EXCEPT !.views = {[call |-> <<"GET", "/accounts">>, permission |-> p,
                                 place |-> place, actions |-> a, sections |-> {}]}] :
          p \in {"view", "foreign"}, place \in Place, a \in Acts}
  \cup {[Bare EXCEPT !.views = {[AccountsView EXCEPT !.permission = "view", !.sections = s,
                                                     !.actions = {}]}] : s \in Sections}
  \cup {[Bare EXCEPT !.permissions = p, !.requiredPermissions = r] :
          p \in {{"view"}, {"foreign"}, {"view", "foreign"}}, r \in SUBSET {"view", "admin"}}
  \cup {[Bare EXCEPT !.identityOk = i, !.envOk = e, !.apiPrefix = place] :
          i \in BOOLEAN, e \in BOOLEAN, place \in Place}
==============================================================================
