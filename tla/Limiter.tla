------------------------------- MODULE Limiter -------------------------------
(***************************************************************************)
(* KeyedConcurrencyLimiter of src/src/backend/utils/http-retry.ts: at most *)
(* maxConcurrent operations per key (a WHM hostname) at a time, the others *)
(* parked in a FIFO array of promise resolvers.                            *)
(*                                                                         *)
(* JavaScript runs one piece of code at a time, so a step of this module   *)
(* is one piece of code that runs without an await.  acquire() has two of  *)
(* them: the part before the await, and, for a caller that had to wait,    *)
(* the part after it.  release() only resolves the waiter's promise: the   *)
(* waiter's second part is a microtask, appended to `wakeups', that runs   *)
(* later.  Slots are counted in that second part (line 62), so between the *)
(* two `active' is too low by one and a newcomer may find room.            *)
(*                                                                         *)
(* TurnBased says who may run in that window.  TRUE: every newcomer and    *)
(* every completion is an event-loop turn of its own, and microtasks are   *)
(* drained between turns.  FALSE: several of them share one drain, as when *)
(* callers await one promise or complete without I/O.                      *)
(***************************************************************************)
EXTENDS Naturals, Sequences, FiniteSets

CONSTANTS
  Caller,         \* invocations of run(); one finished may be invoked again
  Key,            \* the keys of the two maps
  KeyOf,          \* the key argument of an invocation
  MaxConcurrent,  \* constructor argument
  TurnBased       \* see above

ASSUME CallerAssumption == IsFiniteSet(Caller)
ASSUME KeyOfAssumption  == KeyOf \in [Caller -> Key]
ASSUME MaxAssumption    == MaxConcurrent \in Nat \ {0}
ASSUME TurnAssumption   == TurnBased \in BOOLEAN

VARIABLES
  active,   \* the map `active': key -> slots in use
  queue,    \* the map `queues': key -> parked callers, oldest first
  wakeups,  \* microtasks of woken callers, in the order they will run
  pc        \* caller -> how far its run() has come

vars == <<active, queue, wakeups, pc>>

PC == {"idle", "queued", "woken", "running"}

Running(k) == {c \in Caller : KeyOf[c] = k /\ pc[c] = "running"}

\* A woken caller owns the slot its predecessor gave back.
Holders(k) == {c \in Caller : KeyOf[c] = k /\ pc[c] \in {"woken", "running"}}

TypeOK ==
  /\ active \in [Key -> Nat]
  /\ queue \in [Key -> Seq(Caller)]
  /\ wakeups \in Seq(Caller)
  /\ pc \in [Caller -> PC]

Init ==
  /\ active = [k \in Key |-> 0]
  /\ queue = [k \in Key |-> <<>>]
  /\ wakeups = <<>>
  /\ pc = [c \in Caller |-> "idle"]

\* A new event-loop turn starts once the microtasks are drained.
TurnMayStart == TurnBased => wakeups = <<>>

(***************************************************************************)
(* Faulty variants of the actions below: what a slip in the code would do. *)
(* The mutation runs put them in the place of the real ones.               *)
(***************************************************************************)
\* The room check lets one caller too many in.
EnterOffByOne(c) ==
  /\ pc[c] = "idle"
  /\ TurnMayStart
  /\ active[KeyOf[c]] <= MaxConcurrent
  /\ active' = [active EXCEPT ![KeyOf[c]] = @ + 1]
  /\ pc' = [pc EXCEPT ![c] = "running"]
  /\ UNCHANGED <<queue, wakeups>>

\* A newcomer is parked although the key has room: nobody will wake it.
EnqueueTooEarly(c) ==
  /\ pc[c] = "idle"
  /\ TurnMayStart
  /\ active[KeyOf[c]] + 1 >= MaxConcurrent
  /\ queue' = [queue EXCEPT ![KeyOf[c]] = Append(@, c)]
  /\ pc' = [pc EXCEPT ![c] = "queued"]
  /\ UNCHANGED <<active, wakeups>>

\* release() counts the slot of the caller it wakes as given back too.
SettleTwiceCounted(c) ==
  /\ pc[c] = "running"
  /\ TurnMayStart
  /\ LET k == KeyOf[c]
     IN /\ active' = [active EXCEPT ![k] = @ - (IF queue[k] = <<>> THEN 1 ELSE 2)]
        /\ \/ /\ queue[k] = <<>>
              /\ pc' = [pc EXCEPT ![c] = "idle"]
              /\ UNCHANGED <<queue, wakeups>>
           \/ /\ queue[k] # <<>>
              /\ queue' = [queue EXCEPT ![k] = Tail(@)]
              /\ wakeups' = Append(wakeups, Head(queue[k]))
              /\ pc' = [pc EXCEPT ![c] = "idle", ![Head(queue[k])] = "woken"]

\* release() wakes a waiter only when the key falls idle.
SettleWakingFromIdle(c) ==
  /\ pc[c] = "running"
  /\ TurnMayStart
  /\ LET k == KeyOf[c]
     IN /\ active' = [active EXCEPT ![k] = IF @ = 0 THEN 0 ELSE @ - 1]
        /\ \/ /\ queue[k] = <<>> \/ active[k] > 1
              /\ pc' = [pc EXCEPT ![c] = "idle"]
              /\ UNCHANGED <<queue, wakeups>>
           \/ /\ queue[k] # <<>> /\ active[k] <= 1
              /\ queue' = [queue EXCEPT ![k] = Tail(@)]
              /\ wakeups' = Append(wakeups, Head(queue[k]))
              /\ pc' = [pc EXCEPT ![c] = "idle", ![Head(queue[k])] = "woken"]

\* pop() in the place of shift(): the newest waiter is woken first.
SettleWakingNewest(c) ==
  /\ pc[c] = "running"
  /\ TurnMayStart
  /\ LET k    == KeyOf[c]
         last == Len(queue[k])
     IN /\ active' = [active EXCEPT ![k] = IF @ = 0 THEN 0 ELSE @ - 1]
        /\ \/ /\ queue[k] = <<>>
              /\ pc' = [pc EXCEPT ![c] = "idle"]
              /\ UNCHANGED <<queue, wakeups>>
           \/ /\ queue[k] # <<>>
              /\ queue' = [queue EXCEPT ![k] = SubSeq(@, 1, last - 1)]
              /\ wakeups' = Append(wakeups, queue[k][last])
              /\ pc' = [pc EXCEPT ![c] = "idle", ![queue[k][last]] = "woken"]

\* A woken caller does not count itself.
ResumeUncounted(c) ==
  /\ wakeups # <<>>
  /\ c = Head(wakeups)
  /\ wakeups' = Tail(wakeups)
  /\ pc' = [pc EXCEPT ![c] = "running"]
  /\ UNCHANGED <<active, queue>>

(***************************************************************************)
(* The limiter.                                                            *)
(***************************************************************************)
\* acquire() with room: the slot is counted before any await.
Enter(c) ==
  /\ pc[c] = "idle"
  /\ TurnMayStart
  /\ active[KeyOf[c]] < MaxConcurrent
  /\ active' = [active EXCEPT ![KeyOf[c]] = @ + 1]
  /\ pc' = [pc EXCEPT ![c] = "running"]
  /\ UNCHANGED <<queue, wakeups>>

\* acquire() without room: the resolver is pushed on the key's array.
Enqueue(c) ==
  /\ pc[c] = "idle"
  /\ TurnMayStart
  /\ active[KeyOf[c]] >= MaxConcurrent
  /\ queue' = [queue EXCEPT ![KeyOf[c]] = Append(@, c)]
  /\ pc' = [pc EXCEPT ![c] = "queued"]
  /\ UNCHANGED <<active, wakeups>>

\* The rest of acquire() in a woken caller: it counts itself, then runs fn.
Resume(c) ==
  /\ wakeups # <<>>
  /\ c = Head(wakeups)
  /\ wakeups' = Tail(wakeups)
  /\ active' = [active EXCEPT ![KeyOf[c]] = @ + 1]
  /\ pc' = [pc EXCEPT ![c] = "running"]
  /\ UNCHANGED queue

\* fn settled, with a value or an error: the finally block gives the slot
\* back and wakes the oldest parked caller of the key.
Settle(c) ==
  /\ pc[c] = "running"
  /\ TurnMayStart
  /\ LET k == KeyOf[c]
     IN /\ active' = [active EXCEPT ![k] = IF @ = 0 THEN 0 ELSE @ - 1]
        /\ \/ /\ queue[k] = <<>>
              /\ pc' = [pc EXCEPT ![c] = "idle"]
              /\ UNCHANGED <<queue, wakeups>>
           \/ /\ queue[k] # <<>>
              /\ queue' = [queue EXCEPT ![k] = Tail(@)]
              /\ wakeups' = Append(wakeups, Head(queue[k]))
              /\ pc' = [pc EXCEPT ![c] = "idle", ![Head(queue[k])] = "woken"]

Next == \E c \in Caller : Enter(c) \/ Enqueue(c) \/ Resume(c) \/ Settle(c)

Spec == Init /\ [][Next]_vars

\* Microtasks are always drained.  Every fn settles; strongly, because a
\* completion cannot run while a drain is under way.
Fairness ==
  /\ \A c \in Caller : WF_vars(Resume(c))
  /\ \A c \in Caller : SF_vars(Settle(c))

FairSpec == Spec /\ Fairness

(***************************************************************************)
(* Properties.                                                             *)
(***************************************************************************)
\* "Caps concurrent operations per key": no more than maxConcurrent
\* operations of a key are between the start and the end of fn.
ConcurrencyCap == \A k \in Key : Cardinality(Running(k)) <= MaxConcurrent

\* The limiter never parks a caller beside a free slot: while the array of a
\* key is not empty, all slots of the key are owned, so some completion is
\* still to come that will shift the array.  A wake-up lost, or a caller
\* parked too early, would leave it parked for ever.
NoIdleSlotWhileQueued ==
  \A k \in Key : queue[k] # <<>> => Cardinality(Holders(k)) >= MaxConcurrent

\* The counter never drifts: it is the number of operations that run, so no
\* slot is lost or invented over any sequence of completions and wake-ups.
CountsRunning == \A k \in Key : active[k] = Cardinality(Running(k))

\* Every parked caller is served, provided that every fn settles.
EveryWaiterServed ==
  \A c \in Caller : pc[c] = "queued" ~> pc[c] = "running"

\* The limiter is a first come, first served semaphore per key: nobody barges
\* past a parked caller, not even in the window between release() and the
\* wake-up.  The slot passes to a waiter when release() shifts the array.
Semaphore == INSTANCE FairSemaphore WITH
  Capacity <- MaxConcurrent,
  holders  <- [k \in Key |-> Holders(k)],
  waiting  <- queue

ImplementsSemaphore == Semaphore!Spec
==============================================================================
