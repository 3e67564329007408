---------------------------- MODULE LimiterProofs ----------------------------
(***************************************************************************)
(* Theorems about module Limiter, for any number of callers, keys and      *)
(* slots.                                                                  *)
(*                                                                         *)
(* The argument rests on Holders(k), the callers that run plus those woken *)
(* but not yet counted: release() with a parked caller replaces one holder *)
(* by another, so only Enter adds a holder and only a release with nobody  *)
(* parked removes one.  The counter `active' leaves woken callers out, and *)
(* agrees with the number of holders exactly when no wake-up is pending;   *)
(* turn discipline makes sure that this is so whenever acquire() reads it. *)
(***************************************************************************)
EXTENDS Limiter, TLAPS, FiniteSetTheorems, SequenceTheorems

\* Who is where: parked callers are in the array of their key, woken ones
\* among the wake-ups, each once.
WellPlaced ==
  /\ \A k \in Key : \A i \in DOMAIN queue[k] :
        KeyOf[queue[k][i]] = k /\ pc[queue[k][i]] = "queued"
  /\ \A k \in Key : \A i, j \in DOMAIN queue[k] :
        queue[k][i] = queue[k][j] => i = j
  /\ \A i \in DOMAIN wakeups : pc[wakeups[i]] = "woken"
  /\ \A i, j \in DOMAIN wakeups : wakeups[i] = wakeups[j] => i = j
  /\ \A c \in Caller : pc[c] = "woken" => \E i \in DOMAIN wakeups : wakeups[i] = c

\* Under turn discipline a key never has more holders than slots.
HoldersCapped ==
  TurnBased => \A k \in Key : Cardinality(Holders(k)) <= MaxConcurrent

IInv ==
  /\ TypeOK
  /\ WellPlaced
  /\ CountsRunning
  /\ NoIdleSlotWhileQueued
  /\ HoldersCapped

------------------------------------------------------------------------------
(* Type correctness *)

LEMMA TypeStep ==
  ASSUME TypeOK, NEW c \in Caller, Enter(c) \/ Enqueue(c) \/ Resume(c) \/ Settle(c)
  PROVE  TypeOK'
<1> USE KeyOfAssumption
<1>1. CASE Enter(c)
  BY <1>1 DEF Enter, TypeOK, PC
<1>2. CASE Enqueue(c)
  BY <1>2 DEF Enqueue, TypeOK, PC
<1>3. CASE Resume(c)
  BY <1>3 DEF Resume, TypeOK, PC
<1>4. CASE Settle(c)
  <2> DEFINE k == KeyOf[c]
  <2>1. active' \in [Key -> Nat]
    BY <1>4 DEF Settle, TypeOK
  <2>2. CASE queue[k] = <<>>
    BY <1>4, <2>1, <2>2 DEF Settle, TypeOK, PC
  <2>3. CASE queue[k] # <<>>
    <3>1. k \in Key /\ queue[k] \in Seq(Caller)
      BY DEF TypeOK
    <3>2. Head(queue[k]) \in Caller /\ Tail(queue[k]) \in Seq(Caller)
      BY <2>3, <3>1
    <3>3. /\ queue' = [queue EXCEPT ![k] = Tail(@)]
          /\ wakeups' = Append(wakeups, Head(queue[k]))
          /\ pc' = [pc EXCEPT ![c] = "idle", ![Head(queue[k])] = "woken"]
      BY <1>4, <2>3 DEF Settle
    <3>4. queue' \in [Key -> Seq(Caller)]
      BY <3>2, <3>3 DEF TypeOK
    <3>5. wakeups' \in Seq(Caller)
      BY <3>2, <3>3 DEF TypeOK
    <3>6. pc' \in [Caller -> PC]
      BY <3>2, <3>3 DEF TypeOK, PC
    <3> QED
      BY <2>1, <3>4, <3>5, <3>6 DEF TypeOK
  <2> QED
    BY <2>2, <2>3
<1> QED
  BY <1>1, <1>2, <1>3, <1>4

\* The state stays within its types: in particular the counters are natural
\* numbers after any sequence of calls, completions and wake-ups.
THEOREM TypeCorrect == Spec => []TypeOK
<1>1. Init => TypeOK
  BY KeyOfAssumption DEF Init, TypeOK, PC
<1>2. TypeOK /\ [Next]_vars => TypeOK'
  <2>1. TypeOK /\ UNCHANGED vars => TypeOK'
    BY DEF TypeOK, vars
  <2> QED
    BY <2>1, TypeStep DEF Next
<1> QED
  BY <1>1, <1>2, PTL DEF Spec

------------------------------------------------------------------------------
(* What each action does to Running and Holders *)

LEMMA HoldersFinite ==
  ASSUME NEW k \in Key
  PROVE  /\ IsFiniteSet(Running(k)) /\ IsFiniteSet(Holders(k))
         /\ Cardinality(Running(k)) \in Nat /\ Cardinality(Holders(k)) \in Nat
         /\ Cardinality(Running(k)) <= Cardinality(Holders(k))
<1>1. IsFiniteSet(Holders(k))
  <2>1. Holders(k) \in SUBSET Caller
    BY DEF Holders
  <2> QED
    BY <2>1, CallerAssumption, FS_Subset
<1>2. Running(k) \in SUBSET Holders(k)
  BY DEF Running, Holders
<1> QED
  BY <1>1, <1>2, FS_Subset, FS_CardinalityType

\* While no wake-up is pending, the counter is the number of holders.
LEMMA DrainedHolders ==
  ASSUME TypeOK, WellPlaced, wakeups = <<>>, NEW k \in Key
  PROVE  Holders(k) = Running(k)
BY DEF WellPlaced, Holders, Running

LEMMA EnterEffect ==
  ASSUME IInv, NEW c \in Caller, Enter(c), NEW k \in Key
  PROVE  /\ k # KeyOf[c] => Running(k)' = Running(k) /\ Holders(k)' = Holders(k)
         /\ k = KeyOf[c] => /\ Running(k)' = Running(k) \cup {c}
                            /\ Holders(k)' = Holders(k) \cup {c}
                            /\ c \notin Holders(k) /\ c \notin Running(k)
BY DEF Enter, Running, Holders, IInv, TypeOK

LEMMA ResumeEffect ==
  ASSUME IInv, NEW c \in Caller, Resume(c), NEW k \in Key
  PROVE  /\ k # KeyOf[c] => Running(k)' = Running(k)
         /\ k = KeyOf[c] => Running(k)' = Running(k) \cup {c} /\ c \notin Running(k)
         /\ Holders(k)' = Holders(k)
<1>1. pc[c] = "woken"
  BY DEF Resume, IInv, TypeOK, WellPlaced
<1> QED
  BY <1>1 DEF Resume, Running, Holders, IInv, TypeOK

LEMMA HeadIsQueued ==
  ASSUME IInv, NEW k \in Key, queue[k] # <<>>
  PROVE  /\ Head(queue[k]) \in Caller
         /\ KeyOf[Head(queue[k])] = k
         /\ pc[Head(queue[k])] = "queued"
<1>1. queue[k] \in Seq(Caller) /\ Head(queue[k]) = queue[k][1] /\ 1 \in DOMAIN queue[k]
  BY DEF IInv, TypeOK
<1> QED
  BY <1>1 DEF IInv, WellPlaced, TypeOK

LEMMA SettleEffect ==
  ASSUME IInv, NEW c \in Caller, Settle(c), NEW k \in Key
  PROVE  /\ k # KeyOf[c] => Running(k)' = Running(k) /\ Holders(k)' = Holders(k)
         /\ k = KeyOf[c] => Running(k)' = Running(k) \ {c} /\ c \in Running(k)
         /\ k = KeyOf[c] /\ queue[k] = <<>> => Holders(k)' = Holders(k) \ {c}
         /\ k = KeyOf[c] /\ queue[k] # <<>> =>
              /\ Holders(k)' = (Holders(k) \ {c}) \cup {Head(queue[k])}
              /\ Head(queue[k]) \notin Holders(k)
<1>1. CASE queue[KeyOf[c]] = <<>>
  BY <1>1 DEF Settle, Running, Holders, IInv, TypeOK
<1>2. CASE queue[KeyOf[c]] # <<>>
  <2> DEFINE h == Head(queue[KeyOf[c]])
  <2>1. h \in Caller /\ KeyOf[h] = KeyOf[c] /\ pc[h] = "queued"
    BY <1>2, HeadIsQueued, KeyOfAssumption
  <2>2. pc' = [pc EXCEPT ![c] = "idle", ![h] = "woken"] /\ pc[c] = "running"
    BY <1>2 DEF Settle
  <2> HIDE DEF h
  <2>3. \A d \in Caller : pc'[d] = IF d = h THEN "woken" ELSE IF d = c THEN "idle" ELSE pc[d]
    BY <2>1, <2>2 DEF IInv, TypeOK
  <2>4. h # c
    BY <2>1, <2>2
  <2>5. k = KeyOf[c] => Head(queue[k]) = h
    BY DEF h
  <2>6. /\ k # KeyOf[c] => Running(k)' = Running(k) /\ Holders(k)' = Holders(k)
        /\ k = KeyOf[c] => Running(k)' = Running(k) \ {c} /\ c \in Running(k)
    <3>1. pc[c] = "running"
      BY <2>2
    <3>2. \A d \in Caller : d # c => (pc'[d] = "running" <=> pc[d] = "running")
      BY <2>1, <2>3
    <3>3. pc'[c] = "idle"
      BY <2>3, <2>4
    <3>4. \A d \in Caller : KeyOf[d] # KeyOf[c] => pc'[d] = pc[d]
      BY <2>1, <2>3
    <3> QED
      BY <3>1, <3>2, <3>3, <3>4 DEF Running, Holders
  <2>7. k = KeyOf[c] => Holders(k)' = (Holders(k) \ {c}) \cup {h} /\ h \notin Holders(k)
    <3>1. pc'[h] = "woken" /\ pc'[c] = "idle"
      BY <2>1, <2>3, <2>4
    <3>2. \A d \in Caller : d # c /\ d # h => pc'[d] = pc[d]
      BY <2>3
    <3> QED
      BY <2>1, <3>1, <3>2 DEF Holders
  <2> QED
    BY <1>2, <2>5, <2>6, <2>7
<1> QED
  BY <1>1, <1>2

------------------------------------------------------------------------------
(* Positions in a sequence after push() and shift() *)

LEMMA Pushed ==
  ASSUME NEW S, NEW s \in Seq(S), NEW e \in S
  PROVE  /\ Len(s) \in Nat /\ DOMAIN s = 1 .. Len(s)
         /\ DOMAIN Append(s, e) = 1 .. Len(s) + 1
         /\ \A i \in DOMAIN s : Append(s, e)[i] = s[i]
         /\ Append(s, e)[Len(s) + 1] = e
OBVIOUS

LEMMA Shifted ==
  ASSUME NEW S, NEW s \in Seq(S), s # <<>>
  PROVE  /\ Len(s) \in Nat /\ Len(s) > 0 /\ DOMAIN s = 1 .. Len(s)
         /\ Head(s) = s[1]
         /\ DOMAIN Tail(s) = 1 .. Len(s) - 1
         /\ \A i \in DOMAIN Tail(s) : Tail(s)[i] = s[i + 1]
OBVIOUS

------------------------------------------------------------------------------
(* The inductive invariant *)

LEMMA InitIInv == Init => IInv
<1> SUFFICES ASSUME Init PROVE IInv
  OBVIOUS
<1> USE KeyOfAssumption
<1>1. TypeOK
  BY DEF Init, TypeOK, PC
<1>2. WellPlaced
  BY DEF Init, WellPlaced
<1>3. \A k \in Key : Running(k) = {} /\ Holders(k) = {}
  BY DEF Init, Running, Holders
<1>4. CountsRunning /\ HoldersCapped
  <2>1. \A k \in Key : Cardinality(Running(k)) = 0 /\ Cardinality(Holders(k)) = 0
    BY <1>3, FS_EmptySet
  <2> QED
    BY <2>1, MaxAssumption DEF Init, CountsRunning, HoldersCapped
<1>5. NoIdleSlotWhileQueued
  BY DEF Init, NoIdleSlotWhileQueued
<1> QED
  BY <1>1, <1>2, <1>4, <1>5 DEF IInv

LEMMA WellPlacedStep ==
  ASSUME IInv, NEW c \in Caller, Enter(c) \/ Enqueue(c) \/ Resume(c) \/ Settle(c)
  PROVE  WellPlaced'
<1> USE KeyOfAssumption
<1>0. TypeOK /\ WellPlaced
  BY DEF IInv
<1>1. CASE Enter(c)
  BY <1>0, <1>1 DEF Enter, TypeOK, WellPlaced
<1>2. CASE Enqueue(c)
  <2> DEFINE k0 == KeyOf[c]
  <2>1. k0 \in Key /\ queue[k0] \in Seq(Caller) /\ pc[c] = "idle"
    BY <1>0, <1>2 DEF Enqueue, TypeOK
  <2>2. /\ wakeups' = wakeups
        /\ \A d \in Caller : pc'[d] = IF d = c THEN "queued" ELSE pc[d]
        /\ \A k \in Key : queue'[k] = IF k = k0 THEN Append(queue[k0], c) ELSE queue[k]
    BY <1>0, <1>2 DEF Enqueue, TypeOK
  <2>3. ASSUME NEW k \in Key
        PROVE  /\ \A i \in DOMAIN queue'[k] :
                     KeyOf[queue'[k][i]] = k /\ pc'[queue'[k][i]] = "queued"
               /\ \A i, j \in DOMAIN queue'[k] : queue'[k][i] = queue'[k][j] => i = j
    <3>1. queue[k] \in Seq(Caller)
      BY <1>0 DEF TypeOK
    <3>2. \A i \in DOMAIN queue[k] : queue[k][i] \in Caller /\ queue[k][i] # c
      BY <1>0, <2>1, <3>1 DEF WellPlaced
    <3>3. CASE k # k0
      BY <1>0, <2>2, <3>2, <3>3 DEF WellPlaced
    <3>4. CASE k = k0
      <4>0. queue'[k] = Append(queue[k], c)
        BY <2>2, <3>4
      <4>1. /\ DOMAIN queue'[k] = 1 .. Len(queue[k]) + 1
            /\ DOMAIN queue[k] = 1 .. Len(queue[k])
            /\ \A i \in DOMAIN queue[k] : queue'[k][i] = queue[k][i]
            /\ queue'[k][Len(queue[k]) + 1] = c
            /\ Len(queue[k]) \in Nat
        BY <3>1, <4>0, Pushed
      <4>2. \A i \in DOMAIN queue[k] : KeyOf[queue[k][i]] = k /\ pc[queue[k][i]] = "queued"
        BY <1>0 DEF WellPlaced
      <4>3. \A i, j \in DOMAIN queue[k] : queue[k][i] = queue[k][j] => i = j
        BY <1>0 DEF WellPlaced
      <4>4. ASSUME NEW i \in DOMAIN queue'[k]
            PROVE  KeyOf[queue'[k][i]] = k /\ pc'[queue'[k][i]] = "queued"
        BY <2>2, <3>2, <3>4, <4>1, <4>2, <4>4
      <4>5. ASSUME NEW i \in DOMAIN queue'[k], NEW j \in DOMAIN queue'[k],
                   queue'[k][i] = queue'[k][j]
            PROVE  i = j
        BY <3>2, <4>1, <4>3, <4>5
      <4> QED
        BY <4>4, <4>5
    <3> QED
      BY <3>3, <3>4
  <2>4. /\ \A i \in DOMAIN wakeups : pc'[wakeups[i]] = "woken"
        /\ \A d \in Caller : pc'[d] = "woken" => pc[d] = "woken"
    BY <1>0, <2>1, <2>2 DEF WellPlaced, TypeOK
  <2> QED
    BY <1>0, <2>2, <2>3, <2>4 DEF WellPlaced
<1>3. CASE Resume(c)
  <2>1. /\ wakeups \in Seq(Caller) /\ wakeups # <<>> /\ wakeups[1] = c
        /\ wakeups' = Tail(wakeups) /\ queue' = queue
        /\ \A d \in Caller : pc'[d] = IF d = c THEN "running" ELSE pc[d]
    BY <1>0, <1>3 DEF Resume, TypeOK
  <2>2. /\ Len(wakeups) \in Nat /\ Len(wakeups) > 0
        /\ DOMAIN wakeups = 1 .. Len(wakeups)
        /\ DOMAIN wakeups' = 1 .. Len(wakeups) - 1
        /\ \A i \in DOMAIN wakeups' : wakeups'[i] = wakeups[i + 1]
        /\ \A i \in DOMAIN wakeups : wakeups[i] \in Caller
    BY <2>1
  <2>3. pc[c] = "woken"
    BY <1>0, <2>1, <2>2 DEF WellPlaced
  <2>4. \A k \in Key : \A i \in DOMAIN queue[k] : queue[k][i] \in Caller /\ queue[k][i] # c
    BY <1>0, <2>3 DEF WellPlaced, TypeOK
  <2>5. \A i \in DOMAIN wakeups' : wakeups'[i] # c /\ pc'[wakeups'[i]] = "woken"
    BY <1>0, <2>1, <2>2 DEF WellPlaced
  <2>6. \A i, j \in DOMAIN wakeups' : wakeups'[i] = wakeups'[j] => i = j
    BY <1>0, <2>2 DEF WellPlaced
  <2>7. ASSUME NEW d \in Caller, pc'[d] = "woken"
        PROVE  \E i \in DOMAIN wakeups' : wakeups'[i] = d
    <3>1. d # c /\ pc[d] = "woken"
      BY <2>1, <2>7
    <3>2. PICK i \in DOMAIN wakeups : wakeups[i] = d
      BY <1>0, <3>1 DEF WellPlaced
    <3>3. i - 1 \in DOMAIN wakeups' /\ wakeups'[i - 1] = d
      BY <2>1, <2>2, <3>1, <3>2
    <3> QED
      BY <3>3
  <2>8. \A k \in Key : \A i \in DOMAIN queue[k] : pc'[queue[k][i]] = "queued"
    BY <1>0, <2>1, <2>4 DEF WellPlaced
  <2> QED
    BY <1>0, <2>1, <2>5, <2>6, <2>7, <2>8 DEF WellPlaced
<1>4. CASE Settle(c)
  <2> DEFINE k0 == KeyOf[c]
  <2>0. pc[c] = "running" /\ k0 \in Key /\ queue[k0] \in Seq(Caller)
    BY <1>0, <1>4 DEF Settle, TypeOK
  <2>1. CASE queue[k0] = <<>>
    <3>1. /\ queue' = queue /\ wakeups' = wakeups
          /\ \A d \in Caller : pc'[d] = IF d = c THEN "idle" ELSE pc[d]
      BY <1>0, <1>4, <2>1 DEF Settle, TypeOK
    <3>2. \A k \in Key : \A i \in DOMAIN queue[k] : queue[k][i] \in Caller /\ queue[k][i] # c
      BY <1>0, <2>0 DEF WellPlaced, TypeOK
    <3>3. \A i \in DOMAIN wakeups : wakeups[i] \in Caller /\ wakeups[i] # c
      BY <1>0, <2>0 DEF WellPlaced, TypeOK
    <3> QED
      BY <1>0, <3>1, <3>2, <3>3 DEF WellPlaced
  <2>2. CASE queue[k0] # <<>>
    <3> DEFINE h == Head(queue[k0])
    <3>1. /\ queue' = [queue EXCEPT ![k0] = Tail(@)]
          /\ wakeups' = Append(wakeups, h)
          /\ pc' = [pc EXCEPT ![c] = "idle", ![h] = "woken"]
      BY <1>4, <2>2 DEF Settle
    <3>2. h \in Caller /\ KeyOf[h] = k0 /\ pc[h] = "queued" /\ h = queue[k0][1]
      BY <2>0, <2>2, HeadIsQueued
    <3> HIDE DEF h
    <3>3. \A d \in Caller : pc'[d] = IF d = h THEN "woken" ELSE IF d = c THEN "idle" ELSE pc[d]
      BY <1>0, <3>1, <3>2 DEF TypeOK
    <3>4. ASSUME NEW k \in Key
          PROVE  /\ \A i \in DOMAIN queue'[k] :
                       KeyOf[queue'[k][i]] = k /\ pc'[queue'[k][i]] = "queued"
                 /\ \A i, j \in DOMAIN queue'[k] : queue'[k][i] = queue'[k][j] => i = j
      <4>1. /\ queue[k] \in Seq(Caller)
            /\ \A i \in DOMAIN queue[k] : /\ queue[k][i] \in Caller /\ queue[k][i] # c
                                         /\ KeyOf[queue[k][i]] = k
                                         /\ pc[queue[k][i]] = "queued"
        BY <1>0, <2>0 DEF WellPlaced, TypeOK
      <4>2. CASE k # k0
        <5>1. queue'[k] = queue[k]
          BY <1>0, <3>1, <4>2 DEF TypeOK
        <5>2. \A i \in DOMAIN queue[k] : queue[k][i] # h
          BY <3>2, <4>1, <4>2
        <5> QED
          BY <1>0, <3>3, <4>1, <5>1, <5>2 DEF WellPlaced
      <4>3. CASE k = k0
        <5>1. queue'[k] = Tail(queue[k])
          BY <1>0, <3>1, <4>3 DEF TypeOK
        <5>2. /\ Len(queue[k]) \in Nat /\ Len(queue[k]) > 0
              /\ DOMAIN queue[k] = 1 .. Len(queue[k])
              /\ DOMAIN queue'[k] = 1 .. Len(queue[k]) - 1
              /\ \A i \in DOMAIN queue'[k] : queue'[k][i] = queue[k][i + 1]
              /\ \A i \in DOMAIN queue'[k] : i + 1 \in DOMAIN queue[k] /\ i \in Int
          BY <2>2, <4>1, <4>3, <5>1, Shifted
        <5>3. \A i \in DOMAIN queue'[k] : queue'[k][i] # h
          BY <1>0, <3>2, <4>3, <5>2 DEF WellPlaced
        <5>4. \A i, j \in DOMAIN queue[k] : queue[k][i] = queue[k][j] => i = j
          BY <1>0 DEF WellPlaced
        <5>5. ASSUME NEW i \in DOMAIN queue'[k]
              PROVE  KeyOf[queue'[k][i]] = k /\ pc'[queue'[k][i]] = "queued"
          <6>1. i + 1 \in DOMAIN queue[k] /\ queue'[k][i] = queue[k][i + 1] /\ queue'[k][i] # h
            BY <5>2, <5>3, <5>5
          <6> QED
            BY <3>3, <4>1, <6>1
        <5>6. ASSUME NEW i \in DOMAIN queue'[k], NEW j \in DOMAIN queue'[k],
                     queue'[k][i] = queue'[k][j]
              PROVE  i = j
          BY <5>2, <5>4, <5>6
        <5> QED
          BY <5>5, <5>6
      <4> QED
        BY <4>2, <4>3
    <3>5. /\ wakeups \in Seq(Caller) /\ Len(wakeups) \in Nat
          /\ DOMAIN wakeups = 1 .. Len(wakeups)
          /\ DOMAIN wakeups' = 1 .. Len(wakeups) + 1
          /\ \A i \in DOMAIN wakeups : wakeups'[i] = wakeups[i]
          /\ wakeups'[Len(wakeups) + 1] = h
      BY <1>0, <3>1 DEF TypeOK
    <3>6. \A i \in DOMAIN wakeups :
            wakeups[i] \in Caller /\ wakeups[i] # c /\ wakeups[i] # h /\ pc[wakeups[i]] = "woken"
      BY <1>0, <2>0, <3>2, <3>5 DEF WellPlaced
    <3>7. /\ \A i \in DOMAIN wakeups' : pc'[wakeups'[i]] = "woken"
          /\ \A i, j \in DOMAIN wakeups' : wakeups'[i] = wakeups'[j] => i = j
      BY <1>0, <3>2, <3>3, <3>5, <3>6 DEF WellPlaced
    <3>8. ASSUME NEW d \in Caller, pc'[d] = "woken"
          PROVE  \E i \in DOMAIN wakeups' : wakeups'[i] = d
      <4>1. CASE d = h
        BY <3>5, <4>1
      <4>2. CASE d # h
        <5>1. pc[d] = "woken"
          BY <3>3, <3>8, <4>2
        <5>2. PICK i \in DOMAIN wakeups : wakeups[i] = d
          BY <1>0, <5>1 DEF WellPlaced
        <5> QED
          BY <3>5, <5>2
      <4> QED
        BY <4>1, <4>2
    <3> QED
      BY <3>4, <3>7, <3>8 DEF WellPlaced
  <2> QED
    BY <2>1, <2>2
<1> QED
  BY <1>1, <1>2, <1>3, <1>4

LEMMA CountsRunningStep ==
  ASSUME IInv, NEW c \in Caller, Enter(c) \/ Enqueue(c) \/ Resume(c) \/ Settle(c)
  PROVE  CountsRunning'
<1> USE KeyOfAssumption
<1> SUFFICES ASSUME NEW k \in Key PROVE active'[k] = Cardinality(Running(k)')
  BY DEF CountsRunning, Running
<1>0. /\ active \in [Key -> Nat] /\ active[k] = Cardinality(Running(k))
      /\ IsFiniteSet(Running(k)) /\ KeyOf[c] \in Key
  BY HoldersFinite DEF IInv, TypeOK, CountsRunning
<1>1. CASE Enter(c)
  <2>1. active'[k] = IF k = KeyOf[c] THEN active[k] + 1 ELSE active[k]
    BY <1>0, <1>1 DEF Enter
  <2> QED
    BY <1>0, <1>1, <2>1, EnterEffect, FS_AddElement
<1>2. CASE Enqueue(c)
  <2>1. active' = active /\ Running(k)' = Running(k)
    BY <1>2 DEF Enqueue, Running, IInv, TypeOK
  <2> QED
    BY <1>0, <2>1
<1>3. CASE Resume(c)
  <2>1. active'[k] = IF k = KeyOf[c] THEN active[k] + 1 ELSE active[k]
    BY <1>0, <1>3 DEF Resume
  <2> QED
    BY <1>0, <1>3, <2>1, ResumeEffect, FS_AddElement
<1>4. CASE Settle(c)
  <2>1. active'[k] = IF k = KeyOf[c] THEN (IF active[k] = 0 THEN 0 ELSE active[k] - 1)
                                     ELSE active[k]
    BY <1>0, <1>4 DEF Settle
  <2>2. CASE k # KeyOf[c]
    BY <1>0, <1>4, <2>1, <2>2, SettleEffect
  <2>3. CASE k = KeyOf[c]
    <3>1. c \in Running(k) /\ Running(k)' = Running(k) \ {c}
      BY <1>4, <2>3, SettleEffect
    <3>2. Cardinality(Running(k)') = Cardinality(Running(k)) - 1
      BY <1>0, <3>1, FS_RemoveElement
    <3>3. Cardinality(Running(k)) # 0
      BY <1>0, <3>1, FS_EmptySet
    <3> QED
      BY <1>0, <2>1, <2>3, <3>2, <3>3
  <2> QED
    BY <2>2, <2>3
<1> QED
  BY <1>1, <1>2, <1>3, <1>4

\* A release with a parked caller leaves the number of holders as it is.
LEMMA HandOver ==
  ASSUME IInv, NEW c \in Caller, Settle(c), queue[KeyOf[c]] # <<>>
  PROVE  Cardinality(Holders(KeyOf[c])') = Cardinality(Holders(KeyOf[c]))
<1> DEFINE k == KeyOf[c]
           H == Holders(k)
           h == Head(queue[k])
<1>1. k \in Key /\ IsFiniteSet(H) /\ Cardinality(H) \in Nat
  BY KeyOfAssumption, HoldersFinite
<1>2. Holders(k)' = (H \ {c}) \cup {h} /\ h \notin H
  BY <1>1, SettleEffect
<1>3. c \in H
  BY DEF Settle, Holders
<1> HIDE DEF H, h
<1>4. IsFiniteSet(H \ {c}) /\ Cardinality(H \ {c}) = Cardinality(H) - 1
  BY <1>1, <1>3, FS_RemoveElement
<1>5. h \notin H \ {c}
  BY <1>2
<1>6. Cardinality((H \ {c}) \cup {h}) = Cardinality(H \ {c}) + 1
  BY <1>4, <1>5, FS_AddElement
<1> QED
  BY <1>1, <1>2, <1>4, <1>6 DEF H

LEMMA NoIdleSlotStep ==
  ASSUME IInv, NEW c \in Caller, Enter(c) \/ Enqueue(c) \/ Resume(c) \/ Settle(c)
  PROVE  NoIdleSlotWhileQueued'
<1> USE KeyOfAssumption, MaxAssumption
<1> SUFFICES ASSUME NEW k \in Key, queue'[k] # <<>>
             PROVE  Cardinality(Holders(k)') >= MaxConcurrent
  BY DEF NoIdleSlotWhileQueued, Holders
<1>0. /\ IsFiniteSet(Holders(k)) /\ Cardinality(Holders(k)) \in Nat /\ KeyOf[c] \in Key
      /\ queue \in [Key -> Seq(Caller)]
      /\ queue[k] # <<>> => Cardinality(Holders(k)) >= MaxConcurrent
  BY HoldersFinite DEF IInv, TypeOK, NoIdleSlotWhileQueued
<1>1. CASE Enter(c)
  <2>1. queue'[k] = queue[k]
    BY <1>1 DEF Enter
  <2>2. Holders(k)' = Holders(k) \/ Holders(k)' = Holders(k) \cup {c}
    BY <1>1, EnterEffect
  <2>3. Cardinality(Holders(k) \cup {c}) \in
          {Cardinality(Holders(k)), Cardinality(Holders(k)) + 1}
    BY <1>0, FS_AddElement
  <2>4. Cardinality(Holders(k)') \in {Cardinality(Holders(k)), Cardinality(Holders(k)) + 1}
    BY <2>2, <2>3
  <2> QED
    BY <1>0, <2>1, <2>4
<1>2. CASE Enqueue(c)
  <2>1. Holders(k)' = Holders(k)
    BY <1>2 DEF Enqueue, Holders, IInv, TypeOK
  <2>2. CASE k # KeyOf[c]
    BY <1>0, <1>2, <2>1, <2>2 DEF Enqueue
  <2>3. CASE k = KeyOf[c]
    <3>1. /\ active[k] >= MaxConcurrent /\ active[k] = Cardinality(Running(k))
          /\ Cardinality(Running(k)) <= Cardinality(Holders(k))
          /\ Cardinality(Running(k)) \in Nat
      BY <1>2, <2>3, HoldersFinite DEF Enqueue, IInv, CountsRunning
    <3> QED
      BY <1>0, <2>1, <3>1
  <2> QED
    BY <2>2, <2>3
<1>3. CASE Resume(c)
  <2>1. queue'[k] = queue[k]
    BY <1>3 DEF Resume
  <2> QED
    BY <1>0, <1>3, <2>1, ResumeEffect
<1>4. CASE Settle(c)
  <2>1. CASE k # KeyOf[c]
    <3>1. queue'[k] = queue[k]
      BY <1>0, <1>4, <2>1 DEF Settle
    <3> QED
      BY <1>0, <1>4, <2>1, <3>1, SettleEffect
  <2>2. CASE k = KeyOf[c]
    <3>1. queue[k] # <<>>
      BY <1>4, <2>2 DEF Settle
    <3> QED
      BY <1>0, <1>4, <2>2, <3>1, HandOver
  <2> QED
    BY <2>1, <2>2
<1> QED
  BY <1>1, <1>2, <1>3, <1>4

LEMMA HoldersCappedStep ==
  ASSUME IInv, NEW c \in Caller, Enter(c) \/ Enqueue(c) \/ Resume(c) \/ Settle(c)
  PROVE  HoldersCapped'
<1> USE KeyOfAssumption, MaxAssumption
<1> SUFFICES ASSUME TurnBased, NEW k \in Key
             PROVE  Cardinality(Holders(k)') <= MaxConcurrent
  BY DEF HoldersCapped, Holders
<1>0. /\ IsFiniteSet(Holders(k)) /\ Cardinality(Holders(k)) \in Nat /\ KeyOf[c] \in Key
      /\ Cardinality(Holders(k)) <= MaxConcurrent
  BY HoldersFinite DEF IInv, HoldersCapped
<1>1. CASE Enter(c)
  <2>1. CASE k # KeyOf[c]
    BY <1>0, <1>1, <2>1, EnterEffect
  <2>2. CASE k = KeyOf[c]
    <3>1. wakeups = <<>> /\ active[k] < MaxConcurrent
      BY <1>1, <2>2 DEF Enter, TurnMayStart
    <3>2. Cardinality(Holders(k)) < MaxConcurrent
      BY <3>1, DrainedHolders DEF IInv, CountsRunning
    <3>3. Cardinality(Holders(k)') = Cardinality(Holders(k)) + 1
      BY <1>0, <1>1, <2>2, EnterEffect, FS_AddElement
    <3> QED
      BY <1>0, <3>2, <3>3
  <2> QED
    BY <2>1, <2>2
<1>2. CASE Enqueue(c)
  <2>1. Holders(k)' = Holders(k)
    BY <1>2 DEF Enqueue, Holders, IInv, TypeOK
  <2> QED
    BY <1>0, <2>1
<1>3. CASE Resume(c)
  BY <1>0, <1>3, ResumeEffect
<1>4. CASE Settle(c)
  <2>1. CASE k # KeyOf[c]
    BY <1>0, <1>4, <2>1, SettleEffect
  <2>2. CASE k = KeyOf[c] /\ queue[k] = <<>>
    <3>1. Holders(k)' \in SUBSET Holders(k)
      BY <1>4, <2>2, SettleEffect
    <3>2. Cardinality(Holders(k)') <= Cardinality(Holders(k)) /\ IsFiniteSet(Holders(k)')
      BY <1>0, <3>1, FS_Subset
    <3> QED
      BY <1>0, <3>2, FS_CardinalityType
  <2>3. CASE k = KeyOf[c] /\ queue[k] # <<>>
    BY <1>0, <1>4, <2>3, HandOver
  <2> QED
    BY <2>1, <2>2, <2>3
<1> QED
  BY <1>1, <1>2, <1>3, <1>4

LEMMA Inductive == Spec => []IInv
<1>1. Init => IInv
  BY InitIInv
<1>2. IInv /\ [Next]_vars => IInv'
  <2> SUFFICES ASSUME IInv, [Next]_vars PROVE IInv'
    OBVIOUS
  <2>1. CASE UNCHANGED vars
    BY <2>1 DEF vars, IInv, TypeOK, WellPlaced, CountsRunning, NoIdleSlotWhileQueued,
                HoldersCapped, Running, Holders
  <2>2. CASE Next
    <3>1. PICK c \in Caller : Enter(c) \/ Enqueue(c) \/ Resume(c) \/ Settle(c)
      BY <2>2 DEF Next
    <3>2. WellPlaced' /\ CountsRunning' /\ NoIdleSlotWhileQueued' /\ HoldersCapped'
      BY <3>1, WellPlacedStep, CountsRunningStep, NoIdleSlotStep, HoldersCappedStep
    <3>3. TypeOK'
      BY <3>1, TypeStep DEF IInv
    <3> QED
      BY <3>2, <3>3 DEF IInv
  <2> QED
    BY <2>1, <2>2
<1> QED
  BY <1>1, <1>2, PTL DEF Spec

------------------------------------------------------------------------------
(* The properties *)

\* The slot counter of a key is the number of its operations under way, over
\* any sequence of calls, completions and wake-ups: no slot leaks.
THEOREM CounterNeverDrifts == Spec => []CountsRunning
<1>1. IInv => CountsRunning
  BY DEF IInv
<1> QED
  BY <1>1, Inductive, PTL

\* No caller is ever parked beside a free slot: no wake-up is lost, whatever
\* the scheduling.
THEOREM NoLostWakeup == Spec => []NoIdleSlotWhileQueued
<1>1. IInv => NoIdleSlotWhileQueued
  BY DEF IInv
<1> QED
  BY <1>1, Inductive, PTL

\* The limiter keeps its cap as long as event-loop turns do not overlap.
THEOREM CapHolds ==
  ASSUME TurnBased
  PROVE  Spec => []ConcurrencyCap
<1>1. IInv => ConcurrencyCap
  <2> SUFFICES ASSUME IInv, NEW k \in Key
               PROVE  Cardinality(Running(k)) <= MaxConcurrent
    BY DEF ConcurrencyCap
  <2>1. Cardinality(Holders(k)) <= MaxConcurrent
    BY DEF IInv, HoldersCapped
  <2> QED
    BY <2>1, HoldersFinite, MaxAssumption
<1> QED
  BY <1>1, Inductive, PTL

LEMMA SameCardinality == \A S : Semaphore!Cardinality(S) = Cardinality(S)
BY DEF Semaphore!Cardinality, Cardinality

\* Seen through Holders, the limiter is a first come, first served semaphore:
\* a free slot goes to a newcomer only when nobody is parked, and a slot given
\* back goes to the caller parked longest.
THEOREM Implements ==
  ASSUME TurnBased
  PROVE  Spec => ImplementsSemaphore
<1> USE KeyOfAssumption, MaxAssumption
<1> DEFINE H == [k \in Key |-> Holders(k)]
<1>1. Init => Semaphore!Init
  <2>1. Init => \A k \in Key : Holders(k) = {}
    BY DEF Init, Holders
  <2> QED
    BY <2>1 DEF Init, Semaphore!Init
<1>2. IInv /\ [Next]_vars => [Semaphore!Next]_(Semaphore!semVars)
  <2> SUFFICES ASSUME IInv, [Next]_vars
               PROVE  [Semaphore!Next]_(Semaphore!semVars)
    OBVIOUS
  <2>1. CASE UNCHANGED vars
    BY <2>1 DEF vars, Semaphore!semVars, Holders
  <2>2. ASSUME NEW c \in Caller, Enter(c)
        PROVE  Semaphore!Take(c)
    <3> DEFINE k0 == KeyOf[c]
    <3>1. /\ k0 \in Key /\ pc[c] = "idle" /\ wakeups = <<>> /\ queue' = queue
          /\ active[k0] < MaxConcurrent
      BY <2>2 DEF Enter, TurnMayStart
    <3>2. c \notin Holders(k0) /\ \A i \in DOMAIN queue[k0] : queue[k0][i] # c
      BY <3>1 DEF Holders, IInv, WellPlaced
    <3>3. Cardinality(Holders(k0)) < MaxConcurrent
      BY <3>1, DrainedHolders DEF IInv, CountsRunning
    <3>4. queue[k0] = <<>>
      BY <3>1, <3>3, HoldersFinite DEF IInv, NoIdleSlotWhileQueued
    <3>5. H' = [H EXCEPT ![k0] = @ \cup {c}]
      <4>1. \A k \in Key : Holders(k)' = IF k = k0 THEN Holders(k) \cup {c} ELSE Holders(k)
        BY <2>2, EnterEffect
      <4>2. H' = [k \in Key |-> Holders(k)']
        OBVIOUS
      <4> QED
        BY <4>1, <4>2
    <3> QED
      BY <3>1, <3>2, <3>3, <3>4, <3>5, SameCardinality
         DEF Semaphore!Take, Semaphore!Outside
  <2>3. ASSUME NEW c \in Caller, Enqueue(c)
        PROVE  Semaphore!Wait(c)
    <3> DEFINE k0 == KeyOf[c]
    <3>1. /\ k0 \in Key /\ pc[c] = "idle" /\ wakeups = <<>>
          /\ active[k0] >= MaxConcurrent /\ active[k0] \in Nat
          /\ queue' = [queue EXCEPT ![k0] = Append(@, c)]
      BY <2>3 DEF Enqueue, TurnMayStart, IInv, TypeOK
    <3>2. c \notin Holders(k0) /\ \A i \in DOMAIN queue[k0] : queue[k0][i] # c
      BY <3>1 DEF Holders, IInv, WellPlaced
    <3>3. Cardinality(Holders(k0)) = MaxConcurrent
      <4>1. Cardinality(Holders(k0)) = active[k0]
        BY <3>1, DrainedHolders DEF IInv, CountsRunning
      <4>2. Cardinality(Holders(k0)) <= MaxConcurrent
        BY <3>1 DEF IInv, HoldersCapped
      <4> QED
        BY <3>1, <4>1, <4>2
    <3>4. H' = H
      BY <2>3 DEF Enqueue, Holders, IInv, TypeOK
    <3> QED
      BY <3>1, <3>2, <3>3, <3>4, SameCardinality DEF Semaphore!Wait, Semaphore!Outside
  <2>4. ASSUME NEW c \in Caller, Resume(c)
        PROVE  UNCHANGED Semaphore!semVars
    <3>1. \A k \in Key : Holders(k)' = Holders(k)
      BY <2>4, ResumeEffect
    <3>2. queue' = queue
      BY <2>4 DEF Resume
    <3> QED
      BY <3>1, <3>2 DEF Semaphore!semVars
  <2>5. ASSUME NEW c \in Caller, Settle(c)
        PROVE  Semaphore!Leave(c)
    <3> DEFINE k0 == KeyOf[c]
    <3>1. k0 \in Key /\ pc[c] = "running" /\ c \in Holders(k0)
      BY <2>5 DEF Settle, Holders
    <3>2. H' = [k \in Key |-> Holders(k)']
      OBVIOUS
    <3>3. \A k \in Key : k # k0 => Holders(k)' = Holders(k)
      BY <2>5, SettleEffect
    <3>4. CASE queue[k0] = <<>>
      <4>1. Holders(k0)' = Holders(k0) \ {c}
        BY <2>5, <3>1, <3>4, SettleEffect
      <4>2. H' = [H EXCEPT ![k0] = @ \ {c}]
        BY <3>2, <3>3, <4>1
      <4>3. queue' = queue
        BY <2>5, <3>4 DEF Settle
      <4> QED
        BY <3>1, <3>4, <4>2, <4>3 DEF Semaphore!Leave
    <3>5. CASE queue[k0] # <<>>
      <4>1. Holders(k0)' = (Holders(k0) \ {c}) \cup {Head(queue[k0])}
        BY <2>5, <3>1, <3>5, SettleEffect
      <4>2. H' = [H EXCEPT ![k0] = (@ \ {c}) \cup {Head(queue[k0])}]
        BY <3>2, <3>3, <4>1
      <4>3. queue' = [queue EXCEPT ![k0] = Tail(@)]
        BY <2>5, <3>5 DEF Settle
      <4> QED
        BY <3>1, <3>5, <4>2, <4>3 DEF Semaphore!Leave
    <3> QED
      BY <3>4, <3>5
  <2> QED
    BY <2>1, <2>2, <2>3, <2>4, <2>5 DEF Next, Semaphore!Next
<1> QED
  BY <1>1, <1>2, Inductive, PTL DEF Spec, ImplementsSemaphore, Semaphore!Spec
==============================================================================
