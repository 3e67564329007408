--------------------------- MODULE RemoteOpsProofs ---------------------------
(***************************************************************************)
(* What module RemoteOps promises whatever the number of requests, objects *)
(* and retries: its type invariant, that a success is told and audited     *)
(* only when everything has been done, and that an update changes a prefix *)
(* of its fields.                                                          *)
(*                                                                         *)
(* The invariant that carries the proof says how far a request has come on *)
(* cPanel: all commands before the one its handler is at have taken        *)
(* effect, none after it has, and what is still on the wire is not ahead   *)
(* of the handler either.                                                  *)
(***************************************************************************)
EXTENDS RemoteOps, TLAPS

Unsent(h) == step[h] \in {"new", "resolve"}

\* Nothing has happened before the credentials are resolved.
NothingYet ==
  \A h \in Request :
    /\ Unsent(h) => /\ applied[h] = {} /\ ~logged[h]
                    /\ nth[h] = 1 /\ answer[h] = "none"
    /\ step[h] # "new" => req[h] \in Order

\* cPanel is where the handler is: at the command it awaits, or just past it.
InStep ==
  \A h \in Request : ~Unsent(h) =>
    /\ nth[h] <= Last(h)
    /\ applied[h] \subseteq 1 .. nth[h]
    /\ 1 .. (nth[h] - 1) \subseteq applied[h]
    /\ answer[h] = "done" => nth[h] \in applied[h]

WireBehind == \A w \in wire : ~Unsent(w.by) /\ w.nth <= nth[w.by]

AllDone ==
  \A h \in Request :
    step[h] \in {"audit", "list"} \/ logged[h] => applied[h] = 1 .. Last(h)

ToldAfterLogged ==
  \A h \in Request : step[h] = "list" \/ reply[h] = "OK" => logged[h]

AttemptsLeft == \A h \in Request : step[h] = "backoff" => attempt[h] < MaxRetries

IInv ==
  /\ RemoteTypeOK /\ NothingYet /\ InStep /\ WireBehind
  /\ AllDone /\ ToldAfterLogged /\ AttemptsLeft

\* An order has one to three commands.
LEMMA OrderLength ==
  ASSUME NEW r \in Order
  PROVE  Len(r.commands) \in 1 .. 3 /\ r.object \in Object
<1>1. r.commands \in Single \cup Update /\ r.object \in Object
  BY DEF Order, Single
<1>2. CASE r.commands \in Single
  <2>1. PICK c : r.commands = <<c>>
    BY <1>2 DEF Single
  <2> QED
    BY <1>1, <2>1
<1>3. CASE r.commands \in Update
  <2>1. PICK n \in 1 .. 3 : r.commands \in [1 .. n -> Setting]
    BY <1>3 DEF Update
  <2>2. Len(r.commands) = n
    BY <2>1
  <2> QED
    BY <1>1, <2>2
<1> QED
  BY <1>1, <1>2, <1>3

\* Commands and their numbers: the bounds of the type invariant.
LEMMA LastBound ==
  ASSUME NEW h \in Request, req[h] \in Order
  PROVE  Last(h) \in 1 .. 3
BY OrderLength DEF Last

LEMMA Initial == Init => IInv
BY RetriesAssumption DEF Init, IInv, RemoteTypeOK, NothingYet, InStep, WireBehind,
  AllDone, ToldAfterLogged, AttemptsLeft, Unsent, Steps

LEMMA Inductive == IInv /\ [Next]_vars => IInv'
<1> SUFFICES ASSUME IInv, [Next]_vars
             PROVE  IInv'
  OBVIOUS
<1> USE RetriesAssumption, LastBound
<1> USE DEF IInv, RemoteTypeOK, Steps, cpanelVars, Await, Over, Sent, Unsent
<1>1. ASSUME NEW h \in Request, NEW r \in Order, Begin(h, r)
      PROVE  IInv'
  <2>1. RemoteTypeOK'
    BY <1>1, OrderLength DEF Begin, NothingYet, InStep, WireBehind, AttemptsLeft
  <2>2. NothingYet'
    BY <1>1 DEF Begin, NothingYet, WireBehind
  <2>3. InStep'
    <3>1. /\ applied[h] = {} /\ nth[h] = 1 /\ answer[h] = "none"
          /\ UNCHANGED <<applied, nth, answer>>
      BY <1>1 DEF Begin, NothingYet
    <3>2. /\ \A g \in Request \ {h} : step'[g] = step[g] /\ req'[g] = req[g]
          /\ req'[h] = r /\ Len(r.commands) \in 1 .. 3
      BY <1>1, OrderLength DEF Begin
    <3>3. 1 .. (1 - 1) = {}
      OBVIOUS
    <3> SUFFICES ASSUME NEW g \in Request, ~Unsent(g)'
                 PROVE  /\ nth[g] <= Len(req'[g].commands)
                        /\ applied[g] \subseteq 1 .. nth[g]
                        /\ 1 .. (nth[g] - 1) \subseteq applied[g]
                        /\ answer[g] = "done" => nth[g] \in applied[g]
      BY <3>1 DEF InStep, Last
    <3>4. CASE g = h
      <4>1. nth[g] = 1 /\ req'[g] = r /\ applied[g] = {} /\ answer[g] = "none"
        BY <3>1, <3>2, <3>4
      <4>2. nth[g] - 1 = 0 /\ 1 .. 0 = {}
        BY <4>1
      <4>3. 1 .. (nth[g] - 1) = {}
        BY <4>2, Zenon
      <4>4. 1 <= Len(r.commands)
        <5>1. Len(r.commands) \in 1 .. 3
          BY OrderLength, Zenon
        <5> HIDE DEF IInv, RemoteTypeOK
        <5> QED
          BY ONLY <5>1
      <4>5. nth[g] <= Len(req'[g].commands)
        BY <4>1, <4>4, Zenon
      <4> QED
        BY <4>1, <4>3, <4>5
    <3>5. CASE g # h
      BY <3>2, <3>5 DEF InStep, Last
    <3> QED
      BY <3>4, <3>5
  <2>4. WireBehind'
    BY <1>1 DEF Begin, WireBehind
  <2>5. AllDone'
    BY <1>1 DEF Begin, NothingYet, InStep, WireBehind, AllDone, Last
  <2>6. ToldAfterLogged'
    BY <1>1 DEF Begin, NothingYet, ToldAfterLogged
  <2>7. AttemptsLeft'
    BY <1>1 DEF Begin, AttemptsLeft
  <2> QED
    BY <2>1, <2>2, <2>3, <2>4, <2>5, <2>6, <2>7
<1>2. ASSUME NEW h \in Request, Resolve(h)
      PROVE  IInv'
  <2>1. RemoteTypeOK'
    BY <1>2, OrderLength DEF Resolve, Send, NothingYet, InStep, WireBehind, AttemptsLeft
  <2>2. NothingYet'
    BY <1>2 DEF Resolve, Send, NothingYet, WireBehind
  <2>0. /\ step[h] = "resolve" /\ UNCHANGED <<applied, req>>
        /\ nth' = nth /\ answer' = answer
        /\ step' \in {[step EXCEPT ![h] = "answer"], [step EXCEPT ![h] = "over"]}
    <3>1. nth[h] = 1 /\ answer[h] = "none" /\ step[h] = "resolve"
      BY <1>2 DEF Resolve, NothingYet
    <3> QED
      BY <1>2, <3>1 DEF Resolve, Send
  <2>8. applied[h] = {} /\ nth[h] = 1 /\ answer[h] = "none" /\ Last(h) \in 1 .. 3
    BY <2>0 DEF NothingYet
  <2>3. InStep'
    <3> SUFFICES ASSUME NEW g \in Request, ~Unsent(g)'
                 PROVE  /\ nth[g] <= Last(g)
                        /\ applied[g] \subseteq 1 .. nth[g]
                        /\ 1 .. (nth[g] - 1) \subseteq applied[g]
                        /\ answer[g] = "done" => nth[g] \in applied[g]
      BY <2>0 DEF InStep, Last
    <3>1. CASE g = h
      <4>1. 1 .. (1 - 1) = {}
        OBVIOUS
      <4> QED
        BY <2>8, <3>1, <4>1
    <3>2. CASE g # h
      BY <2>0, <3>2 DEF InStep
    <3> QED
      BY <3>1, <3>2
  <2>4. WireBehind'
    BY <1>2 DEF Resolve, Send, WireBehind
  <2>5. AllDone'
    BY <1>2 DEF Resolve, Send, NothingYet, InStep, WireBehind, AllDone, Last
  <2>6. ToldAfterLogged'
    BY <1>2 DEF Resolve, Send, NothingYet, ToldAfterLogged
  <2>7. AttemptsLeft'
    BY <1>2 DEF Resolve, Send, AttemptsLeft
  <2> QED
    BY <2>1, <2>2, <2>3, <2>4, <2>5, <2>6, <2>7
<1>3. ASSUME NEW h \in Request, Proceed(h)
      PROVE  IInv'
  <2>0. 1 .. nth[h] \subseteq applied[h] /\ applied[h] \subseteq 1 .. nth[h]
        /\ nth[h] <= Last(h) /\ req[h] \in Order /\ nth[h] \in 1 .. 3
        /\ step[h] = "answer" /\ Last(h) \in 1 .. 3
    BY <1>3 DEF Proceed, Accepts, NothingYet, InStep
  <2>1. RemoteTypeOK'
    <3>1. CASE nth[h] < Last(h)
      <4>1. nth[h] + 1 \in 1 .. 3 /\ 0 \in 0 .. MaxRetries
        BY <2>0, <3>1
      <4> QED
        BY <1>3, <3>1, <4>1 DEF Proceed, Send
    <3>2. CASE nth[h] = Last(h)
      BY <1>3, <3>2 DEF Proceed
    <3> QED
      BY <2>0, <3>1, <3>2
  <2>2. NothingYet'
    BY <1>3 DEF Proceed, Accepts, Send, NothingYet, WireBehind
  <2>3. InStep'
    <3>1. UNCHANGED <<applied, req>>
      BY <1>3 DEF Proceed
    <3>2. CASE nth[h] < Last(h)
      <4>1. /\ nth' = [nth EXCEPT ![h] = nth[h] + 1]
            /\ answer' = [answer EXCEPT ![h] = "none"]
            /\ step' = [step EXCEPT ![h] = "answer"]
        BY <1>3, <3>2 DEF Proceed, Send
      <4>2. nth[h] + 1 <= Last(h) /\ applied[h] \subseteq 1 .. (nth[h] + 1)
        BY <2>0, <3>2
      <4>3. 1 .. ((nth[h] + 1) - 1) \subseteq applied[h]
        BY <2>0
      <4> QED
        BY <2>0, <3>1, <4>1, <4>2, <4>3 DEF InStep, Last
    <3>3. CASE nth[h] = Last(h)
      BY <1>3, <2>0, <3>3 DEF Proceed, InStep, Last
    <3> QED
      BY <2>0, <3>2, <3>3
  <2>4. WireBehind'
    BY <1>3 DEF Proceed, Accepts, Send, WireBehind
  <2>5. AllDone'
    <3>1. CASE nth[h] < Last(h)
      BY <1>3, <2>0, <3>1 DEF Proceed, Send, AllDone, Last
    <3>2. CASE nth[h] = Last(h)
      <4>1. applied[h] = 1 .. Last(h)
        BY <2>0, <3>2
      <4> QED
        BY <1>3, <2>0, <3>2, <4>1 DEF Proceed, AllDone, Last
    <3> QED
      BY <2>0, <3>1, <3>2
  <2>6. ToldAfterLogged'
    BY <1>3 DEF Proceed, Accepts, Send, NothingYet, ToldAfterLogged
  <2>7. AttemptsLeft'
    BY <1>3 DEF Proceed, Accepts, Send, AttemptsLeft
  <2> QED
    BY <2>1, <2>2, <2>3, <2>4, <2>5, <2>6, <2>7
<1>4. ASSUME NEW h \in Request, Refused(h)
      PROVE  IInv'
  <2>1. RemoteTypeOK'
    BY <1>4, OrderLength DEF Refused, NothingYet, InStep, WireBehind, AttemptsLeft
  <2>2. NothingYet'
    BY <1>4 DEF Refused, NothingYet, WireBehind
  <2>3. InStep'
    BY <1>4 DEF Refused, NothingYet, InStep, WireBehind, Last
  <2>4. WireBehind'
    BY <1>4 DEF Refused, WireBehind
  <2>5. AllDone'
    BY <1>4 DEF Refused, NothingYet, InStep, WireBehind, AllDone, Last
  <2>6. ToldAfterLogged'
    BY <1>4 DEF Refused, NothingYet, ToldAfterLogged
  <2>7. AttemptsLeft'
    BY <1>4 DEF Refused, AttemptsLeft
  <2> QED
    BY <2>1, <2>2, <2>3, <2>4, <2>5, <2>6, <2>7
<1>5. ASSUME NEW h \in Request, TimeOut(h)
      PROVE  IInv'
  <2>1. RemoteTypeOK'
    BY <1>5, OrderLength DEF TimeOut, MayRetry, NothingYet, InStep, WireBehind, AttemptsLeft
  <2>2. NothingYet'
    BY <1>5 DEF TimeOut, MayRetry, NothingYet, WireBehind
  <2>3. InStep'
    BY <1>5 DEF TimeOut, MayRetry, NothingYet, InStep, WireBehind, Last
  <2>4. WireBehind'
    BY <1>5 DEF TimeOut, MayRetry, WireBehind
  <2>5. AllDone'
    BY <1>5 DEF TimeOut, MayRetry, NothingYet, InStep, WireBehind, AllDone, Last
  <2>6. ToldAfterLogged'
    BY <1>5 DEF TimeOut, MayRetry, NothingYet, ToldAfterLogged
  <2>7. AttemptsLeft'
    BY <1>5 DEF TimeOut, MayRetry, AttemptsLeft
  <2> QED
    BY <2>1, <2>2, <2>3, <2>4, <2>5, <2>6, <2>7
<1>6. ASSUME NEW h \in Request, Retry(h)
      PROVE  IInv'
  <2>1. RemoteTypeOK'
    BY <1>6, OrderLength DEF Retry, Send, NothingYet, InStep, WireBehind, AttemptsLeft
  <2>2. NothingYet'
    BY <1>6 DEF Retry, Send, NothingYet, WireBehind
  <2>3. InStep'
    BY <1>6 DEF Retry, Send, NothingYet, InStep, WireBehind, Last
  <2>4. WireBehind'
    BY <1>6 DEF Retry, Send, WireBehind
  <2>5. AllDone'
    BY <1>6 DEF Retry, Send, NothingYet, InStep, WireBehind, AllDone, Last
  <2>6. ToldAfterLogged'
    BY <1>6 DEF Retry, Send, NothingYet, ToldAfterLogged
  <2>7. AttemptsLeft'
    BY <1>6 DEF Retry, Send, AttemptsLeft
  <2> QED
    BY <2>1, <2>2, <2>3, <2>4, <2>5, <2>6, <2>7
<1>7. ASSUME NEW h \in Request, Audit(h)
      PROVE  IInv'
  <2>1. RemoteTypeOK'
    BY <1>7, OrderLength DEF Audit, NothingYet, InStep, WireBehind, AttemptsLeft
  <2>2. NothingYet'
    BY <1>7 DEF Audit, NothingYet, WireBehind
  <2>3. InStep'
    BY <1>7 DEF Audit, NothingYet, InStep, WireBehind, Last
  <2>4. WireBehind'
    BY <1>7 DEF Audit, WireBehind
  <2>5. AllDone'
    BY <1>7 DEF Audit, NothingYet, InStep, WireBehind, AllDone, Last
  <2>6. ToldAfterLogged'
    BY <1>7 DEF Audit, NothingYet, ToldAfterLogged
  <2>7. AttemptsLeft'
    BY <1>7 DEF Audit, AttemptsLeft
  <2> QED
    BY <2>1, <2>2, <2>3, <2>4, <2>5, <2>6, <2>7
<1>8. ASSUME NEW h \in Request, List(h) \/ Fail(h)
      PROVE  IInv'
  <2>1. RemoteTypeOK'
    BY <1>8, OrderLength DEF List, Fail, NothingYet, InStep, WireBehind, AttemptsLeft
  <2>2. NothingYet'
    BY <1>8 DEF List, Fail, NothingYet, WireBehind
  <2>3. InStep'
    BY <1>8 DEF List, Fail, NothingYet, InStep, WireBehind, Last
  <2>4. WireBehind'
    BY <1>8 DEF List, Fail, WireBehind
  <2>5. AllDone'
    BY <1>8 DEF List, Fail, NothingYet, InStep, WireBehind, AllDone, Last
  <2>6. ToldAfterLogged'
    BY <1>8 DEF List, Fail, NothingYet, ToldAfterLogged
  <2>7. AttemptsLeft'
    BY <1>8 DEF List, Fail, AttemptsLeft
  <2> QED
    BY <2>1, <2>2, <2>3, <2>4, <2>5, <2>6, <2>7
<1>9. ASSUME NEW w \in wire, Execute(w)
      PROVE  IInv'
  <2>1. RemoteTypeOK'
    BY <1>9, OrderLength DEF Execute, Answered, Awaited, NothingYet, InStep, WireBehind, AttemptsLeft
  <2>2. NothingYet'
    BY <1>9 DEF Execute, Answered, Awaited, NothingYet, WireBehind
  <2>0. /\ w.by \in Request /\ w.nth \in 1 .. nth[w.by] /\ ~Unsent(w.by)
        /\ req' = req /\ nth' = nth /\ step' = step /\ logged' = logged
    BY <1>9 DEF Execute, WireBehind
  <2>8. \/ applied' = applied
        \/ applied' = [applied EXCEPT ![w.by] = @ \cup {w.nth}]
    BY <1>9 DEF Execute
  <2>3. InStep'
    <3> SUFFICES ASSUME NEW h \in Request, ~Unsent(h)
                 PROVE  /\ nth[h] <= Last(h)
                        /\ applied'[h] \subseteq 1 .. nth[h]
                        /\ 1 .. (nth[h] - 1) \subseteq applied'[h]
                        /\ answer'[h] = "done" => nth[h] \in applied'[h]
      BY <2>0 DEF InStep, Last
    <3>1. /\ nth[h] <= Last(h)
          /\ applied[h] \subseteq applied'[h]
          /\ applied'[h] \subseteq 1 .. nth[h]
      BY <2>0, <2>8 DEF InStep
    <3>2. answer'[h] = "done" => nth[h] \in applied'[h]
      BY <1>9, <2>0 DEF Execute, Answered, Awaited, InStep
    <3> QED
      BY <3>1, <3>2 DEF InStep
  <2>4. WireBehind'
    BY <1>9 DEF Execute, Answered, Awaited, WireBehind
  <2>5. AllDone'
    <3> SUFFICES ASSUME NEW h \in Request, step[h] \in {"audit", "list"} \/ logged[h]
                 PROVE  applied'[h] = 1 .. Last(h)
      BY <2>0 DEF AllDone, Last
    <3>1. applied[h] = 1 .. Last(h) /\ nth[h] <= Last(h)
      BY DEF NothingYet, InStep, AllDone
    <3>2. Last(h) \in 1 .. 3 /\ nth[h] \in 1 .. 3
      BY DEF NothingYet
    <3>3. CASE h = w.by
      <4>1. w.nth \in 1 .. Last(h)
        BY <2>0, <3>1, <3>2, <3>3
      <4>2. applied[h] \cup {w.nth} = applied[h]
        BY <3>1, <4>1
      <4>3. applied' = applied \/ applied'[h] = applied[h] \cup {w.nth}
        BY <2>0, <2>8, <3>3
      <4> QED
        BY <3>1, <4>2, <4>3
    <3>4. CASE h # w.by
      BY <2>0, <2>8, <3>1, <3>4
    <3> QED
      BY <3>3, <3>4
  <2>6. ToldAfterLogged'
    BY <1>9 DEF Execute, Answered, Awaited, NothingYet, ToldAfterLogged
  <2>7. AttemptsLeft'
    BY <1>9 DEF Execute, Answered, Awaited, AttemptsLeft
  <2> QED
    BY <2>1, <2>2, <2>3, <2>4, <2>5, <2>6, <2>7
<1>10. ASSUME NEW w \in wire, Lose(w)
       PROVE  IInv'
  <2>1. RemoteTypeOK'
    BY <1>10, OrderLength DEF Lose, NothingYet, InStep, WireBehind, AttemptsLeft
  <2>2. NothingYet'
    BY <1>10 DEF Lose, NothingYet, WireBehind
  <2>3. InStep'
    BY <1>10 DEF Lose, NothingYet, InStep, WireBehind, Last
  <2>4. WireBehind'
    BY <1>10 DEF Lose, WireBehind
  <2>5. AllDone'
    BY <1>10 DEF Lose, NothingYet, InStep, WireBehind, AllDone, Last
  <2>6. ToldAfterLogged'
    BY <1>10 DEF Lose, NothingYet, ToldAfterLogged
  <2>7. AttemptsLeft'
    BY <1>10 DEF Lose, AttemptsLeft
  <2> QED
    BY <2>1, <2>2, <2>3, <2>4, <2>5, <2>6, <2>7
<1>11. CASE UNCHANGED vars
  BY <1>11 DEF vars, NothingYet, InStep, WireBehind, AllDone, ToldAfterLogged,
  AttemptsLeft, Last
<1> QED
  BY <1>1, <1>2, <1>3, <1>4, <1>5, <1>6, <1>7, <1>8, <1>9, <1>10, <1>11
  DEF Next, Handle

LEMMA Invariant == Spec => []IInv
<1>1. Init => IInv
  BY Initial
<1>2. IInv /\ [Next]_vars => IInv'
  BY Inductive
<1> QED
  BY <1>1, <1>2, PTL DEF Spec

\* The variables keep their types, whatever attempts are still under way.
THEOREM RemoteTypeCorrect == Spec => []RemoteTypeOK
<1>1. IInv => RemoteTypeOK
  BY DEF IInv
<1> QED
  BY <1>1, Invariant, PTL

\* A success told or audited means that cPanel has carried out every command of
\* the request: uapi() and call() never take a lost or refused command for done.
THEOREM OkIsDone == Spec => []OkMeansDone
<1>1. IInv => OkMeansDone
  BY DEF IInv, AllDone, ToldAfterLogged, OkMeansDone
<1> QED
  BY <1>1, Invariant, PTL

\* EmailService.update() changes fields in its order, and stops at the first
\* that is refused or cannot be reached.
THEOREM PrefixApplied == Spec => []FieldsInOrder
<1>1. IInv => FieldsInOrder
  BY DEF IInv, RemoteTypeOK, NothingYet, InStep, Unsent, FieldsInOrder
<1> QED
  BY <1>1, Invariant, PTL
==============================================================================
