--------------------------- MODULE WhmClientProofs ---------------------------
(***************************************************************************)
(* Theorems about module WhmClient.  A step of the client is a step of the *)
(* limiter or leaves the limiter alone, so what LimiterProofs proves of    *)
(* the limiter holds of the client; that an operation has a phase exactly  *)
(* while it owns a slot carries the cap over to requests.                  *)
(***************************************************************************)
EXTENDS WhmClient, LimiterProofs

LEMMA ClientStep ==
  ASSUME NEW c \in Caller,
         Begin(c) \/ Proceed(c) \/ Outcome(c) \/ Retry(c) \/ CutShort(c)
  PROVE  \/ Enter(c) \/ Enqueue(c) \/ Resume(c) \/ Settle(c)
         \/ UNCHANGED vars
BY DEF Begin, Proceed, Outcome, Conclude, BackOff, Retry, CutShort, vars

\* Whatever happens to its requests, the client takes and gives back slots
\* through acquire() and release() only.
THEOREM ClientUsesLimiter == ClientSpec => UsesLimiter
<1>1. ClientInit => Init
  BY DEF ClientInit
<1>2. [ClientNext]_clientVars => [Next]_vars
  <2>1. UNCHANGED clientVars => UNCHANGED vars
    BY DEF clientVars, vars
  <2> QED
    BY <2>1, ClientStep DEF ClientNext, Next
<1> QED
  BY <1>1, <1>2, PTL DEF ClientSpec, Spec, UsesLimiter

\* The state stays within its types, and an operation has an attempt, a sleep
\* or a cut connection exactly while it owns a slot.
THEOREM ClientTypeCorrect == ClientSpec => []ClientTypeOK
<1> USE KeyOfAssumption, RetriesAssumption
<1>1. ClientInit => ClientTypeOK
  BY DEF ClientInit, ClientTypeOK, Init, TypeOK, PC, Codes
<1>2. ClientTypeOK /\ IInv /\ [ClientNext]_clientVars => ClientTypeOK'
  <2> SUFFICES ASSUME ClientTypeOK, IInv, [ClientNext]_clientVars
               PROVE  ClientTypeOK'
    OBVIOUS
  <2>1. CASE UNCHANGED clientVars
    BY <2>1 DEF clientVars, ClientTypeOK, TypeOK
  <2>2. ASSUME NEW c \in Caller,
               Begin(c) \/ Proceed(c) \/ Outcome(c) \/ Retry(c) \/ CutShort(c)
        PROVE  ClientTypeOK'
    <3>0. TypeOK'
      <4>1. UNCHANGED vars => TypeOK'
        BY DEF vars, ClientTypeOK, TypeOK
      <4> QED
        BY <2>2, <4>1, ClientStep, TypeStep DEF ClientTypeOK
    <3>1. CASE Begin(c)
      <4>1. /\ pc[c] = "idle"
            /\ pc' = [pc EXCEPT ![c] = "running"] \/ pc' = [pc EXCEPT ![c] = "queued"]
        BY <3>1 DEF Begin, Enter, Enqueue
      <4>2. /\ \A d \in Caller : d # c => pc'[d] = pc[d] /\ phase'[d] = phase[d]
            /\ pc'[c] = "running" <=> phase'[c] # "none"
            /\ phase'[c] \in {"none", "sent"}
        BY <3>1, <4>1 DEF Begin, ClientTypeOK, TypeOK
      <4>3. phase' \in [Caller -> {"none", "sent", "backoff", "cut"}]
        BY <3>1 DEF Begin, ClientTypeOK
      <4>4. /\ attempt' \in [Caller -> 0 .. MaxRetries]
            /\ answer' \in [Caller -> Codes \cup {"none"}]
            /\ \A d \in Caller : d # c => attempt'[d] = attempt[d]
        BY <3>1 DEF Begin, ClientTypeOK
      <4> QED
        BY <3>0, <4>2, <4>3, <4>4 DEF ClientTypeOK
    <3>2. CASE Proceed(c)
      BY <3>0, <3>2 DEF Proceed, Resume, ClientTypeOK, TypeOK
    <3>3. ASSUME NEW o \in Retryable \cup Responses, Conclude(c, o)
          PROVE  ClientTypeOK'
      <4>1. answer' \in [Caller -> Codes \cup {"none"}]
        BY <3>3 DEF Conclude, ClientTypeOK, Codes
      <4>2. \A d \in Caller : pc'[d] = "running" <=> pc[d] = "running" /\ d # c
        <5>1. c \in Running(KeyOf[c]) /\ Running(KeyOf[c])' = Running(KeyOf[c]) \ {c}
          BY <3>3, SettleEffect DEF Conclude
        <5>2. \A k \in Key : k # KeyOf[c] => Running(k)' = Running(k)
          BY <3>3, SettleEffect DEF Conclude
        <5> QED
          BY <5>1, <5>2 DEF Running
      <4> QED
        BY <3>0, <3>3, <4>1, <4>2 DEF Conclude, ClientTypeOK
    <3>4. ASSUME NEW o \in Retryable \cup Responses, BackOff(c, o)
          PROVE  ClientTypeOK'
      BY <3>0, <3>4 DEF BackOff, Exhausted, ClientTypeOK, TypeOK
    <3>5. CASE Retry(c)
      BY <3>0, <3>5 DEF Retry, ClientTypeOK, TypeOK
    <3>6. CASE CutShort(c)
      BY <3>0, <3>6 DEF CutShort, ClientTypeOK, TypeOK
    <3> QED
      BY <2>2, <3>1, <3>2, <3>3, <3>4, <3>5, <3>6 DEF Outcome
  <2> QED
    BY <2>1, <2>2 DEF ClientNext
<1> QED
  BY <1>1, <1>2, ClientUsesLimiter, Inductive, PTL DEF ClientSpec, UsesLimiter, IInv

\* No host ever has more than maxConcurrent operations between their first
\* request and their answer, however many attempts they make.
THEOREM HostCapHolds ==
  ASSUME TurnBased
  PROVE  ClientSpec => []HostNotHammered
<1>1. ClientTypeOK /\ ConcurrencyCap => HostNotHammered
  <2> SUFFICES ASSUME ClientTypeOK, ConcurrencyCap, NEW k \in Key
               PROVE  Cardinality({c \in Caller : KeyOf[c] = k /\ phase[c] # "none"})
                        <= MaxConcurrent
    BY DEF HostNotHammered
  <2>1. {c \in Caller : KeyOf[c] = k /\ phase[c] # "none"} = Running(k)
    BY DEF ClientTypeOK, Running
  <2> QED
    BY <2>1 DEF ConcurrencyCap
<1>2. Spec => []ConcurrencyCap
  BY CapHolds
<1> QED
  BY <1>1, <1>2, ClientUsesLimiter, ClientTypeCorrect, PTL DEF UsesLimiter

\* Only an exchange that has failed is reported as one.
LEMMA GaveUp ==
  ASSUME NEW o \in Retryable \cup Responses, CodeOf(o) \in {"WHM_UNREACHABLE", "RATE_LIMITED"}
  PROVE  o \notin Responses
BY DEF CodeOf, Responses, Retryable

\* A failure of the connection, or to be let through, is reported only when the
\* last of maxRetries + 1 attempts has met with it: no retry is skipped and none
\* is lost while the operation sleeps between two attempts.
THEOREM GivesUpWhenExhausted == ClientSpec => GivesUpOnlyWhenExhausted
<1> DEFINE Rule ==
      \A c \in Caller :
        answer'[c] # answer[c] /\ answer'[c] \in {"WHM_UNREACHABLE", "RATE_LIMITED"}
        => attempt[c] = MaxRetries
<1>1. ClientTypeOK /\ [ClientNext]_clientVars => [Rule]_clientVars
  <2> SUFFICES ASSUME ClientTypeOK, NEW d \in Caller,
                      Begin(d) \/ Proceed(d) \/ Outcome(d) \/ Retry(d) \/ CutShort(d)
               PROVE  Rule
    BY DEF ClientNext
  <2>1. CASE Begin(d)
    <3>1. \A c \in Caller : answer'[c] \in {answer[c], "none"}
      BY <2>1 DEF Begin, ClientTypeOK
    <3> QED
      BY <3>1
  <2>2. CASE Proceed(d) \/ Retry(d) \/ CutShort(d)
    BY <2>2 DEF Proceed, Retry, CutShort
  <2>3. ASSUME NEW o \in Retryable \cup Responses, Conclude(d, o)
        PROVE  Rule
    <3>1. \A c \in Caller : answer'[c] # answer[c] => c = d /\ answer'[c] = CodeOf(o)
      BY <2>3 DEF Conclude, ClientTypeOK
    <3>2. CodeOf(o) \in {"WHM_UNREACHABLE", "RATE_LIMITED"} => attempt[d] >= MaxRetries
      BY <2>3, GaveUp DEF Conclude, Exhausted
    <3>3. attempt[d] \in 0 .. MaxRetries
      BY DEF ClientTypeOK
    <3> QED
      BY <3>1, <3>2, <3>3, RetriesAssumption
  <2>4. ASSUME NEW o \in Retryable \cup Responses, BackOff(d, o)
        PROVE  Rule
    BY <2>4 DEF BackOff
  <2> QED
    BY <2>1, <2>2, <2>3, <2>4 DEF Outcome
<1> QED
  BY <1>1, ClientTypeCorrect, PTL DEF ClientSpec, GivesUpOnlyWhenExhausted
==============================================================================
