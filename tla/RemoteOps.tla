------------------------------ MODULE RemoteOps ------------------------------
(***************************************************************************)
(* Requests that change something on a cPanel account: email.service.ts,   *)
(* databases.service.ts and triggerAutoSsl() of domains.service.ts, over   *)
(* uapi() of cpanel-api.client.ts and call() of whm-api.client.ts.         *)
(*                                                                         *)
(* A request resolves the credentials of the account, sends its commands   *)
(* one after the other, writes one audit row and replies.  The commands    *)
(* are not idempotent and carry no identity, and call() repeats them after *)
(* a timeout, a network error or a 5xx: what an attempt that seems to have *)
(* failed has done, or may still do, on the server is not known to it.     *)
(*                                                                         *)
(* The wire holds the attempts that have not reached cPanel.  cPanel and   *)
(* the network are external: an attempt is carried out at most once, at    *)
(* any time after it was sent, or never.                                   *)
(***************************************************************************)
EXTENDS Naturals, Sequences, FiniteSets

CONSTANTS
  Request,     \* requests; each is served once
  Object,      \* mailboxes, databases and database users of the account
  MaxRetries,  \* config.maxRetries
  Outages,     \* may attempts, or their answers, be lost or late?
  Faults       \* may credentials, an answer, the audit row or the list fail?

ASSUME RetriesAssumption == MaxRetries \in Nat
ASSUME FlagsAssumption == Outages \in BOOLEAN /\ Faults \in BOOLEAN

VARIABLES
  exists,   \* cPanel: the objects there are
  wire,     \* attempts under way to cPanel: [by, nth, attempt]
  applied,  \* request -> which of its commands have taken effect on cPanel
  step,     \* request -> what its handler awaits
  req,      \* request -> object and commands
  nth,      \* request -> the command it is at
  attempt,  \* request -> retry(): additional attempts at that command
  answer,   \* request -> what cPanel has answered to the current attempt
  logged,   \* request -> its SUCCESS audit row is written
  reply     \* request -> what the client has been told

cpanelVars == <<exists, wire, applied>>
vars == <<exists, wire, applied, step, req, nth, attempt, answer, logged, reply>>

\* The fields of an email update, in the order update() looks at them.
Setting == {"password", "quota", "suspended"}
Rank == [s \in Setting |-> CASE s = "password" -> 1 [] s = "quota" -> 2 [] s = "suspended" -> 3]

Single == {<<c>> : c \in {"create", "delete", "drop", "assign", "autossl"}}
Update == {s \in UNION {[1 .. n -> Setting] : n \in 1 .. 3} :
             \A i, j \in DOMAIN s : i < j => Rank[s[i]] < Rank[s[j]]}

\* To drop a database, the request has to carry confirm=true.
Order ==
  [object : Object, commands : Single \cup Update, confirm : {TRUE}]
  \cup [object : Object, commands : {<<"drop">>}, confirm : {FALSE}]
NoOrder == [object |-> "none", commands |-> <<>>, confirm |-> FALSE]

Last(h) == Len(req[h].commands)
IsUpdate(h) == req[h].commands \in Update

\* The attempt the handler waits for.
Sent(h, i, a) == [by |-> h, nth |-> i, attempt |-> a]

Steps == {"new", "resolve", "answer", "backoff", "audit", "list", "over"}

RemoteTypeOK ==
  /\ exists \subseteq Object
  /\ wire \subseteq [by : Request, nth : 1 .. 3, attempt : 0 .. MaxRetries]
  /\ applied \in [Request -> SUBSET (1 .. 3)]
  /\ step \in [Request -> Steps]
  /\ req \in [Request -> Order \cup {NoOrder}]
  /\ nth \in [Request -> 1 .. 3]
  /\ attempt \in [Request -> 0 .. MaxRetries]
  /\ answer \in [Request -> {"none", "done", "refused"}]
  /\ logged \in [Request -> BOOLEAN]
  /\ reply \in [Request -> {"none", "OK", "REFUSED", "WHM_UNREACHABLE", "FAILED"}]

Init ==
  /\ exists \in SUBSET Object
  /\ wire = {}
  /\ applied = [h \in Request |-> {}]
  /\ step = [h \in Request |-> "new"]
  /\ req = [h \in Request |-> NoOrder]
  /\ nth = [h \in Request |-> 1]
  /\ attempt = [h \in Request |-> 0]
  /\ answer = [h \in Request |-> "none"]
  /\ logged = [h \in Request |-> FALSE]
  /\ reply = [h \in Request |-> "none"]

Await(h, what) == step' = [step EXCEPT ![h] = what]

Over(h, outcome) ==
  /\ Await(h, "over")
  /\ reply' = [reply EXCEPT ![h] = outcome]

\* The i-th command of the request leaves for cPanel, for the a-th time.
Send(h, i, a) ==
  /\ Await(h, "answer")
  /\ wire' = wire \cup {Sent(h, i, a)}
  /\ nth' = [nth EXCEPT ![h] = i]
  /\ attempt' = [attempt EXCEPT ![h] = a]
  /\ answer' = [answer EXCEPT ![h] = "none"]

(***************************************************************************)
(* Faulty variants, for the mutation runs.                                 *)
(***************************************************************************)
\* uapi() does not look at result.status.
AcceptsAnything(h) == answer[h] # "none"

\* The next command is sent without waiting for the answer to this one.
AcceptsEarly(h) == answer[h] # "refused"

\* The counter of attempts is advanced once more than it is checked.
MayRetryOnceMore(h) == attempt[h] <= MaxRetries

(***************************************************************************)
(* cPanel and the network.                                                 *)
(***************************************************************************)
\* cPanel refuses to create what exists and to touch what does not.
Admits(command, o) ==
  CASE command = "create"  -> o \notin exists
    [] command = "autossl" -> TRUE
    [] OTHER               -> o \in exists

\* The handler still waits for this attempt.
Awaited(w) ==
  step[w.by] = "answer" /\ nth[w.by] = w.nth /\ attempt[w.by] = w.attempt

Answered(w, a) ==
  answer' = IF Awaited(w) THEN [answer EXCEPT ![w.by] = a] ELSE answer

\* An attempt arrives, in time or late, and is carried out or refused.  With
\* faults it may be refused for any other reason (a limit, the token), and the
\* answer to one that was carried out may be unreadable.
Execute(w) ==
  /\ w \in wire
  /\ wire' = wire \ {w}
  /\ LET o == req[w.by].object
         command == req[w.by].commands[w.nth]
     IN \/ /\ Admits(command, o)
           /\ exists' = CASE command = "create"             -> exists \cup {o}
                          [] command \in {"delete", "drop"} -> exists \ {o}
                          [] OTHER                          -> exists
           /\ applied' = [applied EXCEPT ![w.by] = @ \cup {w.nth}]
           /\ \/ Answered(w, "done")
              \/ Faults /\ Answered(w, "refused")
        \/ /\ ~Admits(command, o) \/ Faults
           /\ Answered(w, "refused")
           /\ UNCHANGED <<exists, applied>>
  /\ UNCHANGED <<step, req, nth, attempt, logged, reply>>

Lose(w) ==
  /\ Outages
  /\ w \in wire
  /\ wire' = wire \ {w}
  /\ UNCHANGED <<exists, applied, step, req, nth, attempt, answer, logged, reply>>

(***************************************************************************)
(* The handler.                                                            *)
(***************************************************************************)
Begin(h, r) ==
  /\ step[h] = "new"
  /\ req' = [req EXCEPT ![h] = r]
  /\ IF r.confirm THEN Await(h, "resolve") /\ UNCHANGED reply
                  ELSE Over(h, "FAILED")
  /\ UNCHANGED <<cpanelVars, nth, attempt, answer, logged>>

\* resolve(): account, server and token are read; one may be missing.
Resolve(h) ==
  /\ step[h] = "resolve"
  /\ \/ Send(h, 1, 0) /\ UNCHANGED <<reply>>
     \/ /\ Faults
        /\ Over(h, "FAILED")
        /\ UNCHANGED <<wire, nth, attempt, answer>>
  /\ UNCHANGED <<exists, applied, req, logged>>

\* uapi() takes an answer for a success when result.status is 1.
Accepts(h) == answer[h] = "done"

Proceed(h) ==
  /\ step[h] = "answer"
  /\ Accepts(h)
  /\ IF nth[h] < Last(h)
     THEN Send(h, nth[h] + 1, 0)
     ELSE Await(h, "audit") /\ UNCHANGED <<wire, nth, attempt, answer>>
  /\ UNCHANGED <<exists, applied, req, logged, reply>>

Refused(h) ==
  /\ step[h] = "answer"
  /\ answer[h] = "refused" /\ ~Accepts(h)
  /\ Over(h, "REFUSED")
  /\ UNCHANGED <<cpanelVars, req, nth, attempt, answer, logged>>

\* isRetryable, with attempts left.
MayRetry(h) == attempt[h] < MaxRetries

\* The attempt fails for the handler, whatever it does or has done on cPanel.
TimeOut(h) ==
  /\ Outages
  /\ step[h] = "answer"
  /\ IF MayRetry(h) THEN Await(h, "backoff") /\ UNCHANGED reply
                    ELSE Over(h, "WHM_UNREACHABLE")
  /\ UNCHANGED <<cpanelVars, req, nth, attempt, answer, logged>>

Retry(h) ==
  /\ step[h] = "backoff"
  /\ Send(h, nth[h], attempt[h] + 1)
  /\ UNCHANGED <<exists, applied, req, logged, reply>>

\* An email update then lists the mailboxes for its reply.
Audit(h) ==
  /\ step[h] = "audit"
  /\ logged' = [logged EXCEPT ![h] = TRUE]
  /\ IF IsUpdate(h) THEN Await(h, "list") /\ UNCHANGED reply ELSE Over(h, "OK")
  /\ UNCHANGED <<cpanelVars, req, nth, attempt, answer>>

List(h) ==
  /\ step[h] = "list"
  /\ Over(h, "OK")
  /\ UNCHANGED <<cpanelVars, req, nth, attempt, answer, logged>>

\* The audit row cannot be written, or the list fails.
Fail(h) ==
  /\ Faults
  /\ step[h] \in {"audit", "list"}
  /\ Over(h, "FAILED")
  /\ UNCHANGED <<cpanelVars, req, nth, attempt, answer, logged>>

Handle(h) ==
  \/ Resolve(h) \/ Proceed(h) \/ Refused(h) \/ TimeOut(h) \/ Retry(h)
  \/ Audit(h) \/ List(h) \/ Fail(h)

Next ==
  \/ \E h \in Request : Handle(h) \/ \E r \in Order : Begin(h, r)
  \/ \E w \in wire : Execute(w) \/ Lose(w)

Spec == Init /\ [][Next]_vars

(***************************************************************************)
(* Properties.                                                             *)
(***************************************************************************)
\* A client is told of a success, and a success is audited, only when every
\* command of the request has taken effect on cPanel, however attempts and
\* answers were lost, delayed or repeated.
OkMeansDone ==
  \A h \in Request :
    /\ reply[h] = "OK" => logged[h]
    /\ logged[h] => applied[h] = 1 .. Last(h)

\* The fields of an update are changed one after the other: a field that took
\* effect was preceded by all those update() looks at first, so that a failed
\* update leaves the mailbox with a prefix of the changes.
FieldsInOrder ==
  \A h \in Request : \A i \in applied[h] : 1 .. i \subseteq applied[h]

\* "Full audit trail of every ... email / domain / database action": a request
\* that is over and has changed something on cPanel has left an audit row.  Even
\* where nothing is lost and nothing fails, an update whose mailbox is deleted
\* between two of its fields leaves none.
RemoteAuditComplete ==
  \A h \in Request : step[h] = "over" /\ applied[h] # {} => logged[h]
==============================================================================
