---------------------------- MODULE MCTenantSync -----------------------------
(* An instance of TenantSync for TLC: answers with names   *)
(* in one field or the other, and with two accounts that have none.          *)
EXTENDS TenantSync

Named(u) == [user |-> u, username |-> Absent]
NamedElsewhere(u) == [user |-> Absent, username |-> u]
Nameless == [user |-> Absent, username |-> Absent]

MCAnswers == {<<NamedElsewhere("u1"), Nameless, Nameless>>, <<Named("u2")>>}
==============================================================================
