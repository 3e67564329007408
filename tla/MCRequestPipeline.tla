-------------------------- MODULE MCRequestPipeline --------------------------
(* An instance of RequestPipeline for TLC.  One place takes requests of      *)
(* every kind there is a guard for, the other the plain requests of a second *)
(* tenant that shares database and cache with the first.                     *)
EXTENDS RequestPipeline, TLC

NoToken == [shape |-> Absent, signer |-> "x1", tenant |-> "t1", slug |-> "s", ttl |-> 0]
Signed == [NoToken EXCEPT !.shape = "signed", !.ttl = 600]

Tokens == {NoToken, Signed,
           [Signed EXCEPT !.signer = "x2"], [Signed EXCEPT !.tenant = "t2"],
           [Signed EXCEPT !.slug = "other"], [Signed EXCEPT !.ttl = -1],
           [Signed EXCEPT !.ttl = 601], [Signed EXCEPT !.shape = "malformed"]}

Nothing == [form |-> Absent, names |-> <<>>]
All == [form |-> "json", names |-> <<"admin">>]
Listed == [form |-> "list", names |-> <<"accounts.view", "servers.view">>]
Grants == {Nothing, All, Listed,
           [form |-> "unquoted", names |-> <<"servers.view", "accounts.view", "tokens.view">>]}

Plain(call, t) ==
  [call |-> call, parsable |-> TRUE, invalid |-> {}, tenant |-> t, slug |-> "s",
   grant |-> All, token |-> NoToken]

Sync == <<"POST", "/servers/:id/sync">>

\* One thing at a time is out of the ordinary.
Wide ==
  {Plain(c, "t1") : c \in {CreateToken, UpdateToken, RemoveToken,
                           <<"GET", "/accounts/:id/ftp-accounts">>, <<"GET", "/health">>,
                           <<"POST", "/tokens/list">>}}
  \cup {[Plain(Sync, "t1") EXCEPT !.token = k] : k \in Tokens}
  \cup {[Plain(Sync, "t1") EXCEPT !.grant = g, !.invalid = v] :
          g \in Grants \ {All, Listed}, v \in {{}, {"params"}}}
  \cup {[Plain(Sync, "t1") EXCEPT !.grant = Listed]}
  \cup {[Plain(Sync, "t1") EXCEPT !.invalid = {"params"}]}
  \cup {[Plain(Sync, "t1") EXCEPT !.tenant = t] : t \in {Absent, Empty}}
  \cup {[Plain(Sync, "t1") EXCEPT !.parsable = FALSE]}
  \cup {[Plain(Sync, "t1") EXCEPT !.slug = Empty, !.token = [Signed EXCEPT !.slug = "other"]]}

MCRequests ==
  [q1 |-> Wide, q2 |-> {Plain(<<"GET", "/accounts">>, "t2"), Plain(CreateToken, "t2")}]

Bare == [dsn |-> Absent, key |-> Absent, secret |-> Empty, mode |-> "other"]
MCEnvironments ==
  {Bare, [dsn |-> "d1", key |-> "k1", secret |-> "x1", mode |-> "header"],
   [dsn |-> "d1", key |-> "k2", secret |-> Absent, mode |-> Absent]}

Own == [dsn |-> "d1", key |-> "k1", secret |-> "x1"]
Partial == [dsn |-> Absent, key |-> ShortKey, secret |-> Empty]
MCSettings == {[t1 |-> Own, t2 |-> Own], [t1 |-> Partial, t2 |-> Own]}
==============================================================================
