------------------------------ MODULE WhmClient ------------------------------
(***************************************************************************)
(* call() of src/src/backend/services/whm-api.client.ts: one operation on  *)
(* a WHM host, run under the per-host limiter (module Limiter, the key is  *)
(* the hostname), made of up to maxRetries + 1 HTTP attempts with a        *)
(* backoff between them (retry() of http-retry.ts), each on the Node       *)
(* transport createNodeHttpClient().                                       *)
(*                                                                         *)
(* The transport settles its promise in two places only: the response's    *)
(* `end' resolves it and the request's `error' rejects it.  A peer that    *)
(* closes the connection after the response has started, and before it is  *)
(* complete, causes neither: Node then reports on the response object,     *)
(* which has no listener for it.  Such an attempt never settles (CutShort).*)
(* CutHosts is the set of hosts whose connections may be cut like this.    *)
(*                                                                         *)
(* A response, the error of a request and the end of a backoff are event-  *)
(* loop turns of their own.                                                *)
(***************************************************************************)
EXTENDS Limiter

CONSTANTS
  MaxRetries,  \* config.maxRetries
  CutHosts     \* hosts that may close a connection in mid-response

ASSUME RetriesAssumption == MaxRetries \in Nat
ASSUME CutAssumption     == CutHosts \subseteq Key

VARIABLES
  phase,    \* of the operation that owns a slot: what its retry loop awaits
  attempt,  \* retry(): the additional attempts made so far
  answer    \* what call() returned or threw, until the caller calls again

callVars == <<phase, attempt, answer>>
clientVars == <<active, queue, wakeups, pc, phase, attempt, answer>>

\* What an attempt comes to: attempt() turns the first four into a
\* RetryableError, the others are responses retry() hands back, or an error of
\* another kind (the request cannot be made), which it rethrows at once.
Retryable == {"TIMEOUT", "NETWORK", "RATE_LIMITED", "SERVER"}
Responses == {"result 1", "result 0", "result 0, token", "401", "404", "not JSON",
              "JSON null", "not made"}

\* mapRetryFailure() and the checks on the response.
CodeOf(outcome) ==
  CASE outcome \in {"TIMEOUT", "NETWORK"}       -> "WHM_UNREACHABLE"
    [] outcome = "RATE_LIMITED"                 -> "RATE_LIMITED"
    [] outcome \in {"401", "result 0, token"}   -> "WHM_AUTH_FAILED"
    [] outcome = "result 1"                     -> "OK"
    [] outcome = "JSON null"                    -> "TypeError"
    [] OTHER                                    -> "WHM_API_ERROR"

Codes == {CodeOf(o) : o \in Retryable \cup Responses}

ClientTypeOK ==
  /\ TypeOK
  /\ phase \in [Caller -> {"none", "sent", "backoff", "cut"}]
  /\ attempt \in [Caller -> 0 .. MaxRetries]
  /\ answer \in [Caller -> Codes \cup {"none"}]
  /\ \A c \in Caller : pc[c] = "running" <=> phase[c] # "none"
  /\ \A c \in Caller : phase[c] = "backoff" => attempt[c] < MaxRetries

ClientInit ==
  /\ Init
  /\ phase = [c \in Caller |-> "none"]
  /\ attempt = [c \in Caller |-> 0]
  /\ answer = [c \in Caller |-> "none"]

(***************************************************************************)
(* Faulty variants, for the mutation runs.                                 *)
(***************************************************************************)
\* One attempt too few.
GiveUpEarly(c, outcome) ==
  outcome \in Retryable /\ attempt[c] + 1 >= MaxRetries

\* The attempt counter is not advanced: the loop may run for ever.
RetryUncounted(c) ==
  /\ TurnMayStart
  /\ phase[c] = "backoff"
  /\ phase' = [phase EXCEPT ![c] = "sent"]
  /\ UNCHANGED <<active, queue, wakeups, pc, attempt, answer>>

\* The slot is given back for the time of the sleep, and nobody is woken.
BackOffUnslotted(c, outcome) ==
  /\ TurnMayStart
  /\ phase[c] = "sent"
  /\ outcome \in Retryable /\ attempt[c] < MaxRetries
  /\ phase' = [phase EXCEPT ![c] = "backoff"]
  /\ active' = [active EXCEPT ![KeyOf[c]] = @ - 1]
  /\ UNCHANGED <<queue, wakeups, pc, attempt, answer>>

\* A woken operation sends nothing.
ProceedSilently(c) ==
  /\ Resume(c)
  /\ UNCHANGED callVars

(***************************************************************************)
(* The client.                                                             *)
(***************************************************************************)
\* call() up to limiter.run: the first attempt is sent at once when the host
\* has a free slot.
Begin(c) ==
  /\ Enter(c) \/ Enqueue(c)
  /\ phase' = [phase EXCEPT ![c] = IF pc'[c] = "running" THEN "sent" ELSE "none"]
  /\ attempt' = [attempt EXCEPT ![c] = 0]
  /\ answer' = [answer EXCEPT ![c] = "none"]

\* A parked operation gets its slot and sends its first attempt.
Proceed(c) ==
  /\ Resume(c)
  /\ phase' = [phase EXCEPT ![c] = "sent"]
  /\ UNCHANGED <<attempt, answer>>

\* retry() rethrows: no attempt is left.
Exhausted(c, outcome) ==
  outcome \in Retryable /\ attempt[c] >= MaxRetries

\* The attempt settles and call() is over: the slot is released and the
\* caller gets its answer.
Conclude(c, outcome) ==
  /\ phase[c] = "sent"
  /\ outcome \in Responses \/ Exhausted(c, outcome)
  /\ Settle(c)
  /\ phase' = [phase EXCEPT ![c] = "none"]
  /\ answer' = [answer EXCEPT ![c] = CodeOf(outcome)]
  /\ UNCHANGED attempt

\* The attempt failed and another is due: the operation sleeps, slot in hand.
BackOff(c, outcome) ==
  /\ TurnMayStart
  /\ phase[c] = "sent"
  /\ outcome \in Retryable /\ ~Exhausted(c, outcome)
  /\ phase' = [phase EXCEPT ![c] = "backoff"]
  /\ UNCHANGED <<active, queue, wakeups, pc, attempt, answer>>

\* The sleep is over: the next attempt is sent.
Retry(c) ==
  /\ TurnMayStart
  /\ phase[c] = "backoff"
  /\ attempt' = [attempt EXCEPT ![c] = @ + 1]
  /\ phase' = [phase EXCEPT ![c] = "sent"]
  /\ UNCHANGED <<active, queue, wakeups, pc, answer>>

\* The peer closes the connection in mid-response: neither `end' nor `error'.
CutShort(c) ==
  /\ TurnMayStart
  /\ phase[c] = "sent"
  /\ KeyOf[c] \in CutHosts
  /\ phase' = [phase EXCEPT ![c] = "cut"]
  /\ UNCHANGED <<active, queue, wakeups, pc, attempt, answer>>

Outcome(c) == \E o \in Retryable \cup Responses : Conclude(c, o) \/ BackOff(c, o)

ClientNext ==
  \E c \in Caller : Begin(c) \/ Proceed(c) \/ Outcome(c) \/ Retry(c) \/ CutShort(c)

ClientSpec == ClientInit /\ [][ClientNext]_clientVars

\* Microtasks are drained, sleeps end, and an attempt comes to something: the
\* socket timeout sees to a silent peer.  Strongly, because none of these runs
\* while a drain is under way.
ClientFairness ==
  \A c \in Caller : /\ WF_clientVars(Proceed(c))
                    /\ SF_clientVars(Outcome(c))
                    /\ SF_clientVars(Retry(c))

FairClientSpec == ClientSpec /\ ClientFairness

(***************************************************************************)
(* Properties.                                                             *)
(***************************************************************************)
\* "avoid hammering a single host": a host never has more than maxConcurrent
\* operations past their first request and before their answer, those that
\* sleep between two attempts included.
HostNotHammered ==
  \A k \in Key :
    Cardinality({c \in Caller : KeyOf[c] = k /\ phase[c] # "none"}) <= MaxConcurrent

\* An operation fails as unreachable or rate limited only when all of its
\* maxRetries + 1 attempts have failed.
GivesUpOnlyWhenExhausted ==
  [][\A c \in Caller :
       answer'[c] # answer[c] /\ answer'[c] \in {"WHM_UNREACHABLE", "RATE_LIMITED"}
       => attempt[c] = MaxRetries]_clientVars

\* Operations on a host that does not cut connections are answered, whatever
\* happens to the operations on the other hosts: hosts do not share slots, and
\* the retry loop ends.
SoundHostsAnswer ==
  \A c \in Caller : KeyOf[c] \notin CutHosts =>
    (pc[c] # "idle" ~> pc[c] = "idle")

\* Every operation is answered in the end.
EveryCallAnswered ==
  \A c \in Caller : pc[c] # "idle" ~> pc[c] = "idle"

\* The client drives the limiter as module Limiter describes it: sleeping,
\* failing and cut operations included, it takes and gives back slots through
\* acquire() and release() only.
UsesLimiter == Spec
==============================================================================
