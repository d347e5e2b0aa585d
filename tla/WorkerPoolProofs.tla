-------------------------- MODULE WorkerPoolProofs --------------------------
(* Proofs of the safety properties of WorkerPool, that it implements        *)
(* TaskPool, and of AuditTrail, which uses it.                              *)
EXTENDS AuditTrail, FiniteSetTheorems, SequenceTheorems, TLAPS

\* A worker holds a task exactly while it runs one, the channel is closed
\* exactly when Shutdown was called, and Shutdown has returned only if every
\* worker is gone.
Bookkeeping ==
  /\ \A w \in Workers : task[w] # NoTask <=> At(w, "run")
  /\ closed <=> caller # "none"
  /\ caller = "returned" => \A w \in Workers : At(w, "exited")

Inv == TypeOK /\ NoLostWakeup /\ OnePlace /\ Bookkeeping

-----------------------------------------------------------------------------
LEMMA InitInv == Init => Inv
<1> SUFFICES ASSUME Init PROVE Inv
  OBVIOUS
<1>1. Len(tasks) = 0 /\ tasks \in Seq(Tasks) /\ DOMAIN tasks = {}
  BY DEF Init
<1>2. Held = {} /\ Queued = {} /\ Parked = {}
  BY <1>1 DEF Init, Held, Queued, Parked, At
<1>3. TypeOK
  <2>1. Len(tasks) <= BufferSize
    BY <1>1, BufferSizeAssumption
  <2>2. /\ worker \in [Workers -> {"select", "parked", "run", "exited"}]
        /\ task \in [Workers -> Tasks \cup {NoTask}]
    BY DEF Init
  <2> QED BY <1>1, <2>1, <2>2 DEF Init, TypeOK
<1>4. OnePlace
  BY <1>1, <1>2 DEF Init, OnePlace
<1> QED BY <1>2, <1>3, <1>4 DEF Init, Inv, NoLostWakeup, Bookkeeping, At

\* A task that is dropped changes nothing.
LEMMA StutterInv ==
  ASSUME Inv, UNCHANGED vars
  PROVE  Inv'
<1>1. UNCHANGED <<tasks, closed, worker, task, caller>>
  BY DEF vars
<1>2. TypeOK'
  BY <1>1 DEF Inv, TypeOK
<1>3. Held' = Held /\ Queued' = Queued /\ Parked' = Parked
  BY <1>1 DEF Held, Queued, Parked, At
<1>4. OnePlace'
  BY <1>1, <1>3 DEF Inv, OnePlace
<1>5. NoLostWakeup' /\ Bookkeeping'
  BY <1>1, <1>3 DEF Inv, NoLostWakeup, Bookkeeping, At
<1> QED BY <1>2, <1>4, <1>5 DEF Inv

\* Submit: the new task is in one place because it was nowhere.
LEMMA SubmitInv ==
  ASSUME Inv, NEW t \in Tasks, Submit(t)
  PROVE  Inv'
<1> USE DEF At
<1>0. t # NoTask
  BY TasksAssumption
<1>1. ASSUME NEW w \in Parked, worker' = [worker EXCEPT ![w] = "run"],
             task' = [task EXCEPT ![w] = t], UNCHANGED <<tasks, closed, caller>>
      PROVE  Inv'
  <2>0. w \in Workers /\ worker[w] = "parked" /\ task[w] = NoTask
    BY DEF Parked, Inv, Bookkeeping
  <2>1. TypeOK'
    BY <1>1, <2>0 DEF Inv, TypeOK
  <2>2. NoLostWakeup'
    BY <1>1, <2>0 DEF Inv, NoLostWakeup, TypeOK, Parked
  <2>3. OnePlace'
    <3>1. t \notin Queued \cup Held
      BY DEF Submit
    <3>2. \A v \in Workers : task'[v] = IF v = w THEN t ELSE task[v]
      BY <1>1, <2>0 DEF Inv, TypeOK
    <3>3. \A v \in Workers : task[v] # t
      BY <3>1, <1>0 DEF Held
    <3>4. Queued' = Queued /\ Held' \subseteq Held \cup {t}
      BY <1>1, <3>2 DEF Queued, Held
    <3> QED BY <1>1, <3>1, <3>2, <3>3, <3>4 DEF Inv, OnePlace
  <2>4. Bookkeeping'
    BY <1>0, <1>1, <2>0 DEF Inv, Bookkeeping, TypeOK
  <2> QED BY <2>1, <2>2, <2>3, <2>4 DEF Inv
<1>2. ASSUME Parked = {}, ~Full, tasks' = Append(tasks, t),
             UNCHANGED <<worker, task, closed, caller>>
      PROVE  Inv'
  <2>1. TypeOK'
    <3>1. tasks' \in Seq(Tasks) /\ Len(tasks') = Len(tasks) + 1
      BY <1>2 DEF Inv, TypeOK
    <3>2. Len(tasks) < BufferSize
      BY <1>2, BufferSizeAssumption DEF Full, Inv, TypeOK
    <3> QED BY <1>2, <3>1, <3>2, BufferSizeAssumption DEF Inv, TypeOK
  <2>2. NoLostWakeup'
    BY <1>2 DEF NoLostWakeup, Parked
  <2>3. OnePlace'
    <3>1. t \notin Queued \cup Held
      BY DEF Submit
    <3>2. /\ DOMAIN tasks = 1..Len(tasks) /\ Len(tasks) \in Nat
          /\ DOMAIN tasks' = 1..(Len(tasks) + 1)
          /\ \A i \in DOMAIN tasks : tasks'[i] = tasks[i]
          /\ tasks'[Len(tasks) + 1] = t
      BY <1>2 DEF Inv, TypeOK
    <3>3. \A i \in DOMAIN tasks : tasks[i] # t
      BY <3>1 DEF Queued
    <3>4. \A i, j \in DOMAIN tasks' : tasks'[i] = tasks'[j] => i = j
      BY <3>2, <3>3 DEF Inv, OnePlace
    <3>5. Queued' \subseteq Queued \cup {t}
      BY <3>2 DEF Queued
    <3>6. Held' = Held
      BY <1>2 DEF Held
    <3> QED BY <1>2, <3>1, <3>4, <3>5, <3>6 DEF Inv, OnePlace
  <2>4. Bookkeeping'
    BY <1>2 DEF Inv, Bookkeeping
  <2> QED BY <2>1, <2>2, <2>3, <2>4 DEF Inv
<1>3. ASSUME UNCHANGED vars PROVE Inv'
  BY <1>3, StutterInv
<1> QED BY <1>1, <1>2, <1>3 DEF Submit, vars

\* What taking the head of the buffer leaves in it.
LEMMA TailFacts ==
  ASSUME Inv, tasks # <<>>
  PROVE  /\ Tail(tasks) \in Seq(Tasks) /\ Len(Tail(tasks)) = Len(tasks) - 1
         /\ Head(tasks) \in Queued /\ Head(tasks) \in Tasks
         /\ {Tail(tasks)[i] : i \in DOMAIN Tail(tasks)} = Queued \ {Head(tasks)}
         /\ \A i, j \in DOMAIN Tail(tasks) : Tail(tasks)[i] = Tail(tasks)[j] => i = j
<1>1. /\ tasks \in Seq(Tasks) /\ Len(tasks) \in Nat \ {0}
      /\ DOMAIN tasks = 1..Len(tasks) /\ Head(tasks) = tasks[1]
  BY DEF Inv, TypeOK
<1>2. /\ Tail(tasks) \in Seq(Tasks) /\ Len(Tail(tasks)) = Len(tasks) - 1
      /\ DOMAIN Tail(tasks) = 1..(Len(tasks) - 1)
      /\ \A i \in 1..(Len(tasks) - 1) : Tail(tasks)[i] = tasks[i + 1]
  <2>1. /\ Tail(tasks) \in Seq(Tasks) /\ Len(Tail(tasks)) = Len(tasks) - 1
        /\ \A i \in 1..Len(Tail(tasks)) : Tail(tasks)[i] = tasks[i + 1]
    BY <1>1, HeadTailProperties
  <2>2. DOMAIN Tail(tasks) = 1..Len(Tail(tasks))
    BY <2>1, LenProperties
  <2> QED BY <2>1, <2>2
<1>3. \A i, j \in 1..Len(tasks) : tasks[i] = tasks[j] => i = j
  BY <1>1 DEF Inv, OnePlace
<1>4. {Tail(tasks)[i] : i \in DOMAIN Tail(tasks)} = Queued \ {Head(tasks)}
  <2>1. ASSUME NEW i \in DOMAIN Tail(tasks)
        PROVE  Tail(tasks)[i] \in Queued \ {Head(tasks)}
    <3>1. i + 1 \in 1..Len(tasks) /\ i + 1 # 1 /\ Tail(tasks)[i] = tasks[i + 1]
      BY <1>1, <1>2
    <3>2. 1 \in 1..Len(tasks)
      BY <1>1
    <3> QED BY <1>1, <1>3, <3>1, <3>2 DEF Queued
  <2>2. ASSUME NEW x \in Queued \ {Head(tasks)}
        PROVE  \E i \in DOMAIN Tail(tasks) : x = Tail(tasks)[i]
    <3>1. PICK k \in 1..Len(tasks) : x = tasks[k]
      BY <1>1 DEF Queued
    <3>2. k # 1
      BY <1>1, <3>1
    <3>3. k - 1 \in 1..(Len(tasks) - 1) /\ (k - 1) + 1 = k
      BY <1>1, <3>2
    <3> QED BY <1>2, <3>1, <3>3
  <2> QED BY <2>1, <2>2
<1>5. \A i, j \in DOMAIN Tail(tasks) : Tail(tasks)[i] = Tail(tasks)[j] => i = j
  BY <1>1, <1>2, <1>3
<1>6. Head(tasks) \in Queued /\ Head(tasks) \in Tasks
  BY <1>1 DEF Queued
<1> QED BY <1>2, <1>4, <1>5, <1>6

LEMMA ReceiveInv ==
  ASSUME Inv, NEW w \in Workers, Receive(w)
  PROVE  Inv'
<1> USE DEF At
<1> DEFINE t == Head(tasks)
<1>0. /\ task' = [task EXCEPT ![w] = t] /\ worker' = [worker EXCEPT ![w] = "run"]
      /\ worker[w] = "select" /\ task[w] = NoTask /\ UNCHANGED <<closed, caller>>
      /\ tasks # <<>> /\ tasks' = Tail(tasks)
  BY DEF Receive, Inv, Bookkeeping
<1>1. t \in Tasks /\ t \in Queued /\ t # NoTask
  BY <1>0, TailFacts, TasksAssumption
<1>2. Queued' = Queued \ {t}
  BY <1>0, TailFacts DEF Queued
<1>3. tasks' \in Seq(Tasks) /\ Len(tasks') = Len(tasks) - 1
  BY <1>0, TailFacts
<1>4. \A i, j \in DOMAIN tasks' : tasks'[i] = tasks'[j] => i = j
  BY <1>0, TailFacts
<1> HIDE DEF t
<1>5. TypeOK'
  <2>1. Len(tasks') <= BufferSize
    BY <1>3, BufferSizeAssumption DEF Inv, TypeOK
  <2> QED BY <1>0, <1>1, <1>3, <2>1 DEF Inv, TypeOK
<1>6. NoLostWakeup'
  BY <1>0 DEF Inv, NoLostWakeup, TypeOK, Parked
<1>7. \A v \in Workers : task'[v] = IF v = w THEN t ELSE task[v]
  BY <1>0 DEF Inv, TypeOK
<1>8. OnePlace'
  <2>1. \A v \in Workers : task[v] # t
    BY <1>1 DEF Inv, OnePlace, Held
  <2>2. Held' \subseteq Held \cup {t}
    BY <1>7 DEF Held
  <2> QED BY <1>2, <1>4, <1>7, <2>1, <2>2 DEF Inv, OnePlace
<1>9. Bookkeeping'
  BY <1>0, <1>1, <1>7 DEF Inv, Bookkeeping, TypeOK
<1> QED BY <1>5, <1>6, <1>8, <1>9 DEF Inv

LEMMA FinishInv ==
  ASSUME Inv, NEW w \in Workers, Finish(w)
  PROVE  Inv'
<1> USE DEF At
<1>0. /\ task' = [task EXCEPT ![w] = NoTask]
      /\ worker' = [worker EXCEPT ![w] = "select"]
      /\ worker[w] = "run" /\ UNCHANGED <<tasks, closed, caller>>
  BY DEF Finish
<1>1. TypeOK'
  BY <1>0 DEF Inv, TypeOK
<1>2. NoLostWakeup'
  BY <1>0 DEF Inv, NoLostWakeup, TypeOK, Parked
<1>3. \A v \in Workers : task'[v] = IF v = w THEN NoTask ELSE task[v]
  BY <1>0 DEF Inv, TypeOK
<1>4. OnePlace'
  <2>1. Held' \subseteq Held /\ Queued' = Queued
    BY <1>0, <1>3 DEF Held, Queued
  <2> QED BY <1>0, <1>3, <2>1 DEF Inv, OnePlace
<1>5. Bookkeeping'
  BY <1>0, <1>3 DEF Inv, Bookkeeping, TypeOK
<1> QED BY <1>1, <1>2, <1>4, <1>5 DEF Inv

\* Steps that move no task: Exit, Park, Shutdown and Wait.
LEMMA IdleInv ==
  ASSUME Inv, UNCHANGED <<tasks, task>>, TypeOK', NoLostWakeup', Bookkeeping'
  PROVE  Inv'
<1>1. Held' = Held /\ Queued' = Queued
  BY DEF Held, Queued
<1> QED BY <1>1 DEF Inv, OnePlace

LEMMA ControlInv ==
  ASSUME Inv, (\E w \in Workers : Exit(w) \/ Park(w)) \/ Shutdown \/ Wait
  PROVE  Inv'
<1> USE DEF At
<1>1. ASSUME NEW w \in Workers, Exit(w) PROVE Inv'
  <2>1. TypeOK'
    BY <1>1 DEF Exit, Inv, TypeOK
  <2>2. NoLostWakeup' /\ Bookkeeping'
    BY <1>1 DEF Exit, Inv, TypeOK, NoLostWakeup, Bookkeeping, Parked
  <2> QED BY <1>1, <2>1, <2>2, IdleInv DEF Exit
<1>2. ASSUME NEW w \in Workers, Park(w) PROVE Inv'
  <2>1. TypeOK'
    BY <1>2 DEF Park, Inv, TypeOK
  <2>2. NoLostWakeup' /\ Bookkeeping'
    BY <1>2 DEF Park, Inv, TypeOK, NoLostWakeup, Bookkeeping, Parked
  <2> QED BY <1>2, <2>1, <2>2, IdleInv DEF Park
<1>3. CASE Shutdown
  <2>1. TypeOK'
    BY <1>3 DEF Shutdown, Inv, TypeOK
  <2>2. NoLostWakeup' /\ Bookkeeping'
    BY <1>3 DEF Shutdown, Inv, TypeOK, NoLostWakeup, Bookkeeping, Parked
  <2> QED BY <1>3, <2>1, <2>2, IdleInv DEF Shutdown
<1>4. CASE Wait
  <2>1. TypeOK'
    BY <1>4 DEF Wait, Inv, TypeOK
  <2>2. NoLostWakeup' /\ Bookkeeping'
    BY <1>4 DEF Wait, Inv, TypeOK, NoLostWakeup, Bookkeeping, Parked
  <2> QED BY <1>4, <2>1, <2>2, IdleInv DEF Wait
<1> QED BY <1>1, <1>2, <1>3, <1>4

\* One case per action.
LEMMA StepInv == Inv /\ [Next]_vars => Inv'
BY SubmitInv, ReceiveInv, FinishInv, ControlInv, StutterInv DEF Next

THEOREM SpecInv == Spec => []Inv
BY InitInv, StepInv, PTL DEF Spec

-----------------------------------------------------------------------------
\* The pool's variables keep their types and the buffer its size.
THEOREM SpecTypeOK == Spec => []TypeOK
<1>1. Inv => TypeOK
  BY DEF Inv
<1> QED BY <1>1, SpecInv, PTL

\* No interleaving of Submit, Shutdown and the workers loses a wake-up, for any
\* number of workers and any buffer.
THEOREM SpecNoLostWakeup == Spec => []NoLostWakeup
<1>1. Inv => NoLostWakeup
  BY DEF Inv
<1> QED BY <1>1, SpecInv, PTL

\* No task is run by two workers, or runs and waits.
THEOREM SpecOnePlace == Spec => []OnePlace
<1>1. Inv => OnePlace
  BY DEF Inv
<1> QED BY <1>1, SpecInv, PTL
-----------------------------------------------------------------------------
(* The refinement of TaskPool.                                              *)

\* TaskPool and this module extend FiniteSets each for itself.
LEMMA SameCardinality ==
  ASSUME NEW S
  PROVE  Abstract!Cardinality(S) = Cardinality(S)
BY DEF Abstract!Cardinality, Cardinality

\* The tasks in the buffer are no more than its length.
LEMMA QueuedSmall ==
  ASSUME Inv
  PROVE  Cardinality(Queued) \in Nat /\ Cardinality(Queued) <= Len(tasks)
<1> DEFINE f == [x \in Queued |-> CHOOSE i \in DOMAIN tasks : tasks[i] = x]
<1>1. DOMAIN tasks = 1..Len(tasks) /\ Len(tasks) \in Nat
  BY LenProperties DEF Inv, TypeOK
<1>2. \A x \in Queued : f[x] \in 1..Len(tasks) /\ tasks[f[x]] = x
  BY <1>1 DEF Queued
<1> HIDE DEF f
<1>3. f \in Injection(Queued, 1..Len(tasks))
  <2>1. f = [x \in Queued |-> f[x]]
    BY DEF f
  <2> QED BY <1>2, <2>1 DEF Injection, IsInjective
<1>4. IsFiniteSet(1..Len(tasks)) /\ Cardinality(1..Len(tasks)) = Len(tasks)
  <2>1. 1 \in Int /\ Len(tasks) \in Int
    BY <1>1
  <2>2. /\ IsFiniteSet(1..Len(tasks))
        /\ Cardinality(1..Len(tasks)) = IF 1 > Len(tasks) THEN 0 ELSE Len(tasks) - 1 + 1
    BY <2>1, FS_Interval
  <2> QED BY <1>1, <2>2
<1> QED BY <1>3, <1>4, FS_Injection, FS_CardinalityType

\* A worker without a task leaves room for one more task to run.
LEMMA HeldSmall ==
  ASSUME Inv, NEW w \in Workers, task[w] = NoTask
  PROVE  Cardinality(Held) < Cardinality(Workers)
<1> DEFINE Others == Workers \ {w}
           f == [x \in Held |-> CHOOSE v \in Workers : task[v] = x]
<1>1. \A x \in Held : f[x] \in Others /\ task[f[x]] = x
  BY DEF Held
<1>2. f = [x \in Held |-> f[x]]
  OBVIOUS
<1>3. IsFiniteSet(Others) /\ Cardinality(Others) = Cardinality(Workers) - 1
  BY WorkersAssumption, FS_RemoveElement
<1> HIDE DEF f, Others
<1>4. f \in Injection(Held, Others)
  BY <1>1, <1>2 DEF Injection, IsInjective
<1> QED BY <1>3, <1>4, WorkersAssumption, FS_Injection, FS_CardinalityType

LEMMA InitAbstract == Init => Abstract!Init
<1> SUFFICES ASSUME Init PROVE Abstract!Init
  OBVIOUS
<1>1. Queued = {} /\ Held = {}
  BY DEF Init, Queued, Held
<1> QED BY <1>1 DEF Init, Abstract!Init

\* A submission that is not dropped is Accept.
LEMMA SubmitAbstract ==
  ASSUME Inv, NEW t \in Tasks, Submit(t)
  PROVE  Abstract!Accept(t) \/ UNCHANGED vars
<1> USE DEF At
<1>1. ASSUME NEW w \in Parked, worker' = [worker EXCEPT ![w] = "run"],
             task' = [task EXCEPT ![w] = t], UNCHANGED <<tasks, closed, caller>>
      PROVE  Abstract!Accept(t)
  <2>0. w \in Workers /\ task[w] = NoTask /\ caller = "none"
    BY DEF Parked, Inv, Bookkeeping, NoLostWakeup
  <2>1. Cardinality(Held) < Cardinality(Workers)
    BY <2>0, HeldSmall
  <2>2. \A v \in Workers : task'[v] = IF v = w THEN t ELSE task[v]
    BY <1>1, <2>0 DEF Inv, TypeOK
  <2>3. Held' = Held \cup {t}
    BY <2>0, <2>2, TasksAssumption DEF Held
  <2>4. Queued' = Queued /\ t \notin Queued \cup Held
    BY <1>1 DEF Queued, Submit
  <2> QED BY <1>1, <2>0, <2>1, <2>3, <2>4, SameCardinality DEF Abstract!Accept
<1>2. ASSUME Parked = {}, ~Full, tasks' = Append(tasks, t),
             UNCHANGED <<worker, task, closed, caller>>
      PROVE  Abstract!Accept(t)
  <2>1. Cardinality(Queued) < BufferSize
    <3>1. Len(tasks) \in Nat /\ Len(tasks) <= BufferSize /\ Len(tasks) # BufferSize
      BY <1>2, LenProperties DEF Inv, TypeOK, Full
    <3> QED BY <3>1, QueuedSmall, BufferSizeAssumption
  <2>2. Queued' = Queued \cup {t}
    <3>1. /\ DOMAIN tasks = 1..Len(tasks) /\ Len(tasks) \in Nat
          /\ DOMAIN tasks' = 1..(Len(tasks) + 1)
          /\ \A i \in DOMAIN tasks : tasks'[i] = tasks[i]
          /\ tasks'[Len(tasks) + 1] = t
      BY <1>2 DEF Inv, TypeOK
    <3>2. DOMAIN tasks' = DOMAIN tasks \cup {Len(tasks) + 1}
      BY <3>1
    <3> QED BY <3>1, <3>2 DEF Queued
  <2>3. Held' = Held /\ t \notin Queued \cup Held
    BY <1>2 DEF Held, Submit
  <2> QED BY <1>2, <2>1, <2>2, <2>3, SameCardinality DEF Abstract!Accept
<1> QED BY <1>1, <1>2 DEF Submit, vars

\* Taking a task from the buffer is Begin.
LEMMA ReceiveAbstract ==
  ASSUME Inv, NEW w \in Workers, Receive(w)
  PROVE  \E t \in Tasks : Abstract!Begin(t)
<1> USE DEF At
<1> DEFINE t == Head(tasks)
<1>0. /\ task' = [task EXCEPT ![w] = t] /\ worker[w] = "select" /\ task[w] = NoTask
      /\ UNCHANGED <<closed, caller>> /\ tasks # <<>> /\ tasks' = Tail(tasks)
  BY DEF Receive, Inv, Bookkeeping
<1>1. t \in Tasks /\ t \in Queued /\ t # NoTask
  BY <1>0, TailFacts, TasksAssumption
<1>2. Queued' = Queued \ {t}
  BY <1>0, TailFacts DEF Queued
<1> HIDE DEF t
<1>3. caller # "returned"
  BY <1>0 DEF Inv, Bookkeeping
<1>4. Cardinality(Held) < Cardinality(Workers)
  BY <1>0, HeldSmall
<1>5. \A v \in Workers : task'[v] = IF v = w THEN t ELSE task[v]
  BY <1>0 DEF Inv, TypeOK
<1>6. Held' = Held \cup {t}
  BY <1>0, <1>1, <1>5 DEF Held
<1> QED BY <1>0, <1>1, <1>2, <1>3, <1>4, <1>6, SameCardinality DEF Abstract!Begin

\* The end of a task is End.
LEMMA FinishAbstract ==
  ASSUME Inv, NEW w \in Workers, Finish(w)
  PROVE  \E t \in Tasks : Abstract!End(t)
<1> USE DEF At
<1>0. /\ task' = [task EXCEPT ![w] = NoTask] /\ worker[w] = "run"
      /\ UNCHANGED <<tasks, closed, caller>>
  BY DEF Finish
<1>1. task[w] \in Tasks /\ task[w] \in Held
  BY <1>0 DEF Inv, Bookkeeping, TypeOK, Held
<1>2. \A v \in Workers : task'[v] = IF v = w THEN NoTask ELSE task[v]
  BY <1>0 DEF Inv, TypeOK
<1>3. \A v \in Workers : v # w => task[v] # task[w]
  BY <1>1 DEF Inv, OnePlace, Held
<1>4. Held' = Held \ {task[w]}
  BY <1>1, <1>2, <1>3 DEF Held
<1>5. Queued' = Queued
  BY <1>0 DEF Queued
<1> QED BY <1>0, <1>1, <1>4, <1>5 DEF Abstract!End

\* Exits and parking change nothing that a user sees; Shutdown is Close, and its
\* return is Stop.
LEMMA ControlAbstract ==
  ASSUME Inv, (\E w \in Workers : Exit(w) \/ Park(w)) \/ Shutdown \/ Wait
  PROVE  [Abstract!Next]_(Abstract!vars)
<1> USE DEF At
<1>1. UNCHANGED <<tasks, task>>
  BY DEF Exit, Park, Shutdown, Wait
<1>2. Queued' = Queued /\ Held' = Held
  BY <1>1 DEF Queued, Held
<1>3. CASE \E w \in Workers : Exit(w) \/ Park(w)
  <2>1. UNCHANGED <<closed, caller>>
    BY <1>3 DEF Exit, Park
  <2> QED BY <1>2, <2>1 DEF Abstract!vars
<1>4. CASE Shutdown
  <2>1. Abstract!Close
    BY <1>2, <1>4 DEF Shutdown, Inv, Bookkeeping, TypeOK, Abstract!Close
  <2> QED BY <2>1 DEF Abstract!Next
<1>5. CASE Wait
  <2>1. closed /\ caller # "returned" /\ caller' = "returned" /\ closed' = closed
    BY <1>5 DEF Wait, Inv, Bookkeeping
  <2>2. Held = {}
    BY <1>5 DEF Wait, Inv, Bookkeeping, Held
  <2>3. Abstract!Stop
    BY <1>2, <2>1, <2>2 DEF Abstract!Stop
  <2> QED BY <2>3 DEF Abstract!Next
<1> QED BY <1>3, <1>4, <1>5

LEMMA StutterAbstract ==
  ASSUME UNCHANGED vars
  PROVE  UNCHANGED Abstract!vars
<1>1. UNCHANGED <<tasks, task, closed, caller>>
  BY DEF vars
<1>2. Queued' = Queued /\ Held' = Held
  BY <1>1 DEF Queued, Held
<1> QED BY <1>1, <1>2 DEF Abstract!vars

LEMMA StepAbstract == Inv /\ [Next]_vars => [Abstract!Next]_(Abstract!vars)
<1> SUFFICES ASSUME Inv, [Next]_vars PROVE [Abstract!Next]_(Abstract!vars)
  OBVIOUS
<1>1. ASSUME NEW t \in Tasks, Submit(t) PROVE [Abstract!Next]_(Abstract!vars)
  BY <1>1, SubmitAbstract, StutterAbstract DEF Abstract!Next
<1>2. ASSUME NEW w \in Workers, Receive(w) PROVE [Abstract!Next]_(Abstract!vars)
  BY <1>2, ReceiveAbstract DEF Abstract!Next
<1>3. ASSUME NEW w \in Workers, Finish(w) PROVE [Abstract!Next]_(Abstract!vars)
  BY <1>3, FinishAbstract DEF Abstract!Next
<1>4. CASE (\E w \in Workers : Exit(w) \/ Park(w)) \/ Shutdown \/ Wait
  BY <1>4, ControlAbstract
<1>5. CASE UNCHANGED vars
  BY <1>5, StutterAbstract
<1> QED BY <1>1, <1>2, <1>3, <1>4, <1>5 DEF Next

\* Channel, select, wake-ups and WaitGroup together implement the task pool: for
\* any number of workers and any buffer, every behaviour of worker.go is one of
\* TaskPool.
THEOREM SpecImplements == Spec => Implements
BY InitAbstract, StepAbstract, SpecInv, PTL DEF Spec, Implements, Abstract!Spec

-----------------------------------------------------------------------------
(* AuditTrail.                                                              *)

\* ActivityLogger and main only take steps the pool has, or none of its.
LEMMA AuditStep == [AuditNext]_auditVars => [Next]_vars
<1> SUFFICES ASSUME [AuditNext]_auditVars PROVE [Next]_vars
  OBVIOUS
<1>1. CASE UNCHANGED auditVars
  BY <1>1 DEF auditVars
<1>2. ASSUME NEW t \in Tasks, Arrive(t) \/ Handle(t) \/ HangUp(t) \/ Panic(t) \/ Log(t)
      PROVE  [Next]_vars
  BY <1>2 DEF Arrive, Handle, HangUp, Panic, Log, Next
<1>3. CASE PoolStep
  BY <1>3 DEF PoolStep, Next
<1>4. ASSUME NEW w \in Workers, Acquire(w) \/ Store(w) \/ Return(w)
      PROVE  [Next]_vars
  BY <1>4 DEF Acquire, Store, Return, Next
<1>5. CASE Signal \/ Drained \/ Exited \/ TimeOut \/ Crash
  BY <1>5 DEF Signal, Drained, Exited, TimeOut, Crash
<1> QED BY <1>1, <1>2, <1>3, <1>4, <1>5 DEF AuditNext

\* The composition uses the pool as its specification says.
THEOREM AuditUsesPool == AuditSpec => Spec
<1>1. AuditInit => Init
  BY DEF AuditInit
<1> QED BY <1>1, AuditStep, PTL DEF AuditSpec, Spec

THEOREM AuditImplements == AuditSpec => Implements
BY AuditUsesPool, SpecImplements

\* No interleaving of requests, workers and Shutdown loses a wake-up.
THEOREM AuditNoLostWakeup == AuditSpec => []NoLostWakeup
BY AuditUsesPool, SpecNoLostWakeup

\* The server has no request left once main closes the database, and main ends
\* only when every connection is back.
Ending ==
  /\ process \in {"closing", "exited"} => \A t \in Tasks : request[t] = "idle"
  /\ process = "exited" => conns = {}

\* A request is not logged before: its connection has no record in the pool.
Fresh == \A t \in Tasks : request[t] # "idle" => t \notin Queued \cup Held

AuditInv == Inv /\ AuditTypeOK /\ Accounted /\ Ending /\ Fresh

LEMMA AuditInitInv == AuditInit => AuditInv
<1> SUFFICES ASSUME AuditInit PROVE AuditInv
  OBVIOUS
<1>1. Inv /\ Queued = {} /\ Held = {}
  BY InitInv DEF AuditInit, Init, Queued, Held
<1>2. AuditTypeOK
  BY <1>1 DEF AuditInit, AuditTypeOK, Inv
<1> QED BY <1>1, <1>2 DEF AuditInit, AuditInv, Accounted, Ending, Fresh

\* Steps of the server and of main: the pool is left alone.
LEMMA ServerInv ==
  ASSUME AuditInv, UNCHANGED vars, AuditTypeOK',
         \A t \in Tasks : record'[t] # record[t] => t \notin Queued \cup Held /\ record'[t] # "pending",
         Ending',
         \A t \in Tasks : request'[t] # "idle" => request[t] # "idle" \/ t \notin Queued \cup Held
  PROVE  AuditInv'
<1>1. Inv'
  BY StutterInv DEF AuditInv
<1>2. Queued' = Queued /\ Held' = Held
  BY DEF vars, Queued, Held
<1>3. Queued \subseteq Tasks
  BY LenProperties DEF AuditInv, Inv, TypeOK, Queued
<1>4. Accounted'
  BY <1>2, <1>3 DEF AuditInv, Accounted
<1>5. Fresh'
  BY <1>2 DEF AuditInv, Fresh
<1> QED BY <1>1, <1>4, <1>5 DEF AuditInv

LEMMA ServerStepInv ==
  ASSUME AuditInv,
         \/ UNCHANGED auditVars
         \/ \E t \in Tasks : Arrive(t) \/ Handle(t) \/ HangUp(t) \/ Panic(t)
         \/ \E w \in Workers : Acquire(w)
         \/ Signal \/ Drained \/ Exited \/ TimeOut \/ Crash
  PROVE  AuditInv'
<1>1. UNCHANGED vars
  BY DEF auditVars, Arrive, Handle, HangUp, Panic, Acquire, Signal, Drained, Exited, TimeOut, Crash
<1>2. TypeOK'
  BY <1>1 DEF vars, TypeOK, AuditInv, Inv
<1>3. CASE UNCHANGED trailVars
  BY <1>1, <1>2, <1>3, ServerInv DEF trailVars, AuditInv, AuditTypeOK, Ending
<1>4. ASSUME NEW t \in Tasks, Arrive(t) PROVE AuditInv'
  <2>1. AuditTypeOK'
    BY <1>2, <1>4 DEF Arrive, AuditInv, AuditTypeOK
  <2>2. Ending'
    BY <1>4 DEF Arrive, AuditInv, Ending
  <2>3. \A s \in Tasks : /\ record'[s] # record[s] => s = t /\ record'[s] = "none"
                         /\ request'[s] # "idle" => request[s] # "idle" \/ s = t
    BY <1>4 DEF Arrive, AuditInv, AuditTypeOK
  <2> QED BY <1>1, <1>4, <2>1, <2>2, <2>3, ServerInv DEF Arrive
<1>5. ASSUME NEW t \in Tasks, Handle(t) \/ HangUp(t) \/ Panic(t) PROVE AuditInv'
  <2>1. AuditTypeOK'
    BY <1>2, <1>5 DEF Handle, HangUp, Panic, AuditInv, AuditTypeOK
  <2>2. Ending'
    BY <1>5 DEF Handle, HangUp, Panic, AuditInv, Ending
  <2>3. \A s \in Tasks : request'[s] # "idle" => request[s] # "idle"
    BY <1>5 DEF Handle, HangUp, Panic, AuditInv, AuditTypeOK
  <2> QED BY <1>1, <1>5, <2>1, <2>2, <2>3, ServerInv DEF Handle, HangUp, Panic
<1>6. ASSUME NEW w \in Workers, Acquire(w) PROVE AuditInv'
  <2>1. AuditTypeOK' /\ Ending'
    BY <1>2, <1>6 DEF Acquire, AuditInv, AuditTypeOK, Ending
  <2> QED BY <1>1, <1>6, <2>1, ServerInv DEF Acquire
<1>7. CASE Signal \/ Drained \/ Exited \/ TimeOut \/ Crash
  <2>1. AuditTypeOK'
    BY <1>2, <1>7 DEF Signal, Drained, Exited, TimeOut, Crash, AuditInv, AuditTypeOK
  <2>2. Ending'
    BY <1>7 DEF Signal, Drained, Exited, TimeOut, Crash, AuditInv, Ending
  <2> QED BY <1>1, <1>7, <2>1, <2>2, ServerInv DEF Signal, Drained, Exited, TimeOut, Crash
<1> QED BY <1>3, <1>4, <1>5, <1>6, <1>7 DEF auditVars

\* What a submission does to the places a task can be in.
LEMMA SubmitPlaces ==
  ASSUME Inv, NEW t \in Tasks, Submit(t)
  PROVE  /\ Queued \subseteq Queued' /\ Queued' \subseteq Queued \cup {t}
         /\ Held \subseteq Held' /\ Held' \subseteq Held \cup {t}
<1> USE DEF At
<1>1. ASSUME NEW w \in Parked, task' = [task EXCEPT ![w] = t], UNCHANGED tasks
      PROVE  Queued' = Queued /\ Held' \subseteq Held \cup {t} /\ Held \subseteq Held'
  <2>0. w \in Workers /\ task[w] = NoTask
    BY DEF Parked, Inv, Bookkeeping
  <2>1. \A v \in Workers : task'[v] = IF v = w THEN t ELSE task[v]
    BY <1>1, <2>0 DEF Inv, TypeOK
  <2>2. Held \subseteq Held'
    <3> SUFFICES ASSUME NEW x \in Held PROVE x \in Held'
      OBVIOUS
    <3>1. PICK v \in Workers : task[v] = x /\ x # NoTask
      BY DEF Held
    <3>2. task'[v] = x
      BY <2>0, <2>1, <3>1
    <3> QED BY <3>1, <3>2 DEF Held
  <2> QED BY <1>1, <2>1, <2>2 DEF Queued, Held
<1>2. ASSUME tasks' = Append(tasks, t), UNCHANGED task
      PROVE  Queued' = Queued \cup {t} /\ Held' = Held
  <2>1. /\ DOMAIN tasks = 1..Len(tasks) /\ Len(tasks) \in Nat
        /\ DOMAIN tasks' = 1..(Len(tasks) + 1)
        /\ \A i \in DOMAIN tasks : tasks'[i] = tasks[i]
        /\ tasks'[Len(tasks) + 1] = t
    BY <1>2 DEF Inv, TypeOK
  <2>2. DOMAIN tasks' = DOMAIN tasks \cup {Len(tasks) + 1}
    BY <2>1
  <2> QED BY <1>2, <2>1, <2>2 DEF Queued, Held
<1>3. CASE UNCHANGED <<tasks, task>>
  BY <1>3 DEF Queued, Held
<1> QED BY <1>1, <1>2, <1>3 DEF Submit

LEMMA LogInv ==
  ASSUME AuditInv, NEW t \in Tasks, Log(t)
  PROVE  AuditInv'
<1>1. Inv' /\ Submit(t)
  BY SubmitInv DEF Log, AuditInv
<1>2. /\ Queued \subseteq Queued' /\ Queued' \subseteq Queued \cup {t}
      /\ Held \subseteq Held' /\ Held' \subseteq Held \cup {t}
      /\ t \notin Queued \cup Held
  BY <1>1, SubmitPlaces DEF AuditInv, Submit
<1>3. \A s \in Tasks : /\ s # t => record'[s] = record[s] /\ request'[s] = request[s]
                       /\ s = t => request'[s] = "idle"
                       /\ s = t /\ s \in Queued' \cup Held' => record'[s] = "pending"
                       /\ s = t /\ s \notin Queued' \cup Held' => record'[s] = "dropped"
  BY DEF Log, AuditInv, AuditTypeOK
<1>4. AuditTypeOK'
  BY <1>1 DEF Log, AuditInv, AuditTypeOK, Inv
<1>5. Queued' \subseteq Tasks /\ Queued' \cap Held' = {}
  BY <1>1, LenProperties DEF Inv, TypeOK, Queued, OnePlace
<1>6. Accounted'
  <2>1. \A s \in Tasks : record'[s] = "pending" => s \in Queued' \cup Held'
    BY <1>2, <1>3 DEF AuditInv, Accounted
  <2>2. ASSUME NEW s \in Queued' PROVE record'[s] = "pending" /\ s \notin Held'
    <3>1. CASE s = t
      BY <1>3, <1>5, <3>1
    <3>2. CASE s # t
      BY <1>2, <1>3, <1>5, <3>2 DEF AuditInv, Accounted
    <3> QED BY <3>1, <3>2
  <2> QED BY <2>1, <2>2 DEF Accounted
<1>7. Ending'
  BY <1>3 DEF Log, AuditInv, Ending
<1>8. Fresh'
  BY <1>2, <1>3 DEF AuditInv, Fresh
<1> QED BY <1>1, <1>4, <1>6, <1>7, <1>8 DEF AuditInv

\* Taking a task from the buffer moves it to a worker.
LEMMA ReceivePlaces ==
  ASSUME Inv, NEW w \in Workers, Receive(w)
  PROVE  Queued' \subseteq Queued /\ Queued' \cup Held' = Queued \cup Held
<1>1. /\ task' = [task EXCEPT ![w] = Head(tasks)] /\ task[w] = NoTask
      /\ tasks # <<>> /\ tasks' = Tail(tasks)
  BY DEF Receive, Inv, Bookkeeping, At
<1>2. Head(tasks) \in Queued /\ Head(tasks) # NoTask /\ Queued' = Queued \ {Head(tasks)}
  <2>1. /\ Head(tasks) \in Queued /\ Head(tasks) \in Tasks
        /\ {Tail(tasks)[i] : i \in DOMAIN Tail(tasks)} = Queued \ {Head(tasks)}
    BY <1>1, TailFacts
  <2> QED BY <1>1, <2>1, TasksAssumption DEF Queued
<1>3. \A v \in Workers : task'[v] = IF v = w THEN Head(tasks) ELSE task[v]
  BY <1>1 DEF Inv, TypeOK
<1>4. Held' = Held \cup {Head(tasks)}
  BY <1>1, <1>2, <1>3 DEF Held
<1> QED BY <1>2, <1>4

LEMMA PoolInv ==
  ASSUME AuditInv, PoolStep
  PROVE  AuditInv'
<1>1. Inv'
  BY ReceiveInv, ControlInv DEF PoolStep, AuditInv
<1>2. Queued' \subseteq Queued /\ Queued' \cup Held' = Queued \cup Held
  <2>1. ASSUME NEW w \in Workers, Receive(w)
        PROVE  Queued' \subseteq Queued /\ Queued' \cup Held' = Queued \cup Held
    BY <2>1, ReceivePlaces DEF AuditInv
  <2>2. CASE UNCHANGED <<tasks, task>>
    BY <2>2 DEF Queued, Held
  <2> QED BY <2>1, <2>2 DEF PoolStep, Exit, Park, Shutdown, Wait
<1>3. UNCHANGED <<process, request, record, conns>>
  BY DEF PoolStep, trailVars
<1>4. AuditTypeOK'
  BY <1>1, <1>3 DEF AuditInv, AuditTypeOK, Inv
<1>5. Queued' \cap Held' = {}
  BY <1>1 DEF Inv, OnePlace
<1>6. Accounted' /\ Ending' /\ Fresh'
  BY <1>2, <1>3, <1>5 DEF AuditInv, Accounted, Ending, Fresh
<1> QED BY <1>1, <1>4, <1>6 DEF AuditInv

LEMMA StoreInv ==
  ASSUME AuditInv, NEW w \in Workers, Store(w)
  PROVE  AuditInv'
<1> DEFINE t == task[w]
<1>1. /\ UNCHANGED vars /\ UNCHANGED <<process, request, conns>>
      /\ record' = [record EXCEPT ![t] = "stored"] /\ t # NoTask
  BY DEF Store, Pending
<1>2. t \in Held /\ t \in Tasks
  BY <1>1 DEF Held, AuditInv, Inv, TypeOK
<1> HIDE DEF t
<1>3. Inv'
  BY <1>1, StutterInv DEF AuditInv
<1>4. Queued' = Queued /\ Held' = Held
  BY <1>1 DEF vars, Queued, Held
<1>5. \A s \in Tasks : record'[s] = IF s = t THEN "stored" ELSE record[s]
  BY <1>1 DEF AuditInv, AuditTypeOK
<1>6. AuditTypeOK'
  BY <1>1, <1>2, <1>3 DEF AuditInv, AuditTypeOK, Inv
<1>7. t \notin Queued /\ Queued \subseteq Tasks
  BY <1>2, LenProperties DEF AuditInv, Inv, OnePlace, TypeOK, Queued
<1>8. Accounted'
  BY <1>4, <1>5, <1>7 DEF AuditInv, Accounted
<1>9. Ending' /\ Fresh'
  BY <1>1, <1>4 DEF AuditInv, Ending, Fresh
<1> QED BY <1>3, <1>6, <1>8, <1>9 DEF AuditInv

LEMMA ReturnInv ==
  ASSUME AuditInv, NEW w \in Workers, Return(w)
  PROVE  AuditInv'
<1> DEFINE t == task[w]
<1>0. /\ task' = [task EXCEPT ![w] = NoTask] /\ UNCHANGED <<tasks, process, request>>
      /\ Lives /\ conns' = conns \ {w}
      /\ record' = IF Pending(w) THEN [record EXCEPT ![t] = "failed"] ELSE record
      /\ Finish(w) /\ At(w, "run")
  BY DEF Return, Finish
<1>1. t # NoTask /\ t \in Tasks /\ t \in Held
  BY <1>0 DEF AuditInv, Inv, TypeOK, Bookkeeping, Held
<1>2. record'[t] # "pending" /\ \A s \in Tasks : s # t => record'[s] = record[s]
  BY <1>0, <1>1 DEF AuditInv, AuditTypeOK, Pending
<1>3. Inv'
  BY <1>0, FinishInv DEF AuditInv
<1>4. Queued' = Queued /\ t \notin Queued /\ Queued \subseteq Tasks
  BY <1>0, <1>1, LenProperties DEF Queued, AuditInv, Inv, OnePlace, TypeOK
<1>5. \A v \in Workers : task'[v] = IF v = w THEN NoTask ELSE task[v]
  BY <1>0 DEF AuditInv, Inv, TypeOK
<1>6. Held' \subseteq Held /\ \A s \in Held : s # t => s \in Held'
  <2>1. Held' \subseteq Held
    BY <1>5 DEF Held
  <2>2. ASSUME NEW s \in Held, s # t PROVE s \in Held'
    <3>1. PICK v \in Workers : task[v] = s /\ s # NoTask
      BY DEF Held
    <3>2. v # w
      BY <2>2, <3>1
    <3>3. task'[v] = s
      BY <1>5, <3>1, <3>2
    <3> QED BY <3>1, <3>3 DEF Held
  <2> QED BY <2>1, <2>2
<1>7. AuditTypeOK'
  <2>1. record' \in [Tasks -> {"none", "pending", "stored", "failed", "dropped"}]
    BY <1>0, <1>1 DEF AuditInv, AuditTypeOK
  <2> QED BY <1>0, <1>3, <2>1 DEF AuditInv, AuditTypeOK, Inv
<1> HIDE DEF t
<1>8. Accounted'
  BY <1>2, <1>4, <1>6 DEF AuditInv, Accounted
<1>9. Ending' /\ Fresh'
  BY <1>0, <1>4, <1>6 DEF AuditInv, Ending, Fresh
<1> QED BY <1>3, <1>7, <1>8, <1>9 DEF AuditInv

\* One case per action.
LEMMA AuditStepInv == AuditInv /\ [AuditNext]_auditVars => AuditInv'
BY ServerStepInv, LogInv, PoolInv, StoreInv, ReturnInv DEF AuditNext

THEOREM AuditSpecInv == AuditSpec => []AuditInv
BY AuditInitInv, AuditStepInv, PTL DEF AuditSpec

-----------------------------------------------------------------------------
\* Type correctness of AuditTrail and its pool.
THEOREM AuditSpecTypeOK == AuditSpec => []AuditTypeOK
<1>1. AuditInv => AuditTypeOK
  BY DEF AuditInv
<1> QED BY <1>1, AuditSpecInv, PTL

\* No record that was submitted gets lost while the process lives.
THEOREM AuditAccounted == AuditSpec => []Accounted
<1>1. AuditInv => Accounted
  BY DEF AuditInv
<1> QED BY <1>1, AuditSpecInv, PTL

\* main closes the database only after the last request.
THEOREM AuditHandlersHaveDb == AuditSpec => []HandlersHaveDb
<1>1. AuditInv => HandlersHaveDb
  BY DEF AuditInv, Ending, HandlersHaveDb
<1> QED BY <1>1, AuditSpecInv, PTL

\* The tasks that workers hold are no more than the workers.
LEMMA HeldBounded ==
  ASSUME Inv
  PROVE  IsFiniteSet(Held) /\ Cardinality(Held) <= Cardinality(Workers)
<1> DEFINE f == [x \in Held |-> CHOOSE v \in Workers : task[v] = x]
<1>1. \A x \in Held : f[x] \in Workers /\ task[f[x]] = x
  BY DEF Held
<1>2. f = [x \in Held |-> f[x]]
  OBVIOUS
<1> HIDE DEF f
<1>3. f \in Injection(Held, Workers)
  BY <1>1, <1>2 DEF Injection, IsInjective
<1> QED BY <1>3, WorkersAssumption, FS_Injection, FS_CardinalityType

\* The buffer holds each task once: it has as many tasks as its length.
LEMMA QueuedCount ==
  ASSUME Inv
  PROVE  IsFiniteSet(Queued) /\ Cardinality(Queued) = Len(tasks)
<1> DEFINE f == [i \in 1..Len(tasks) |-> tasks[i]]
<1>1. DOMAIN tasks = 1..Len(tasks) /\ Len(tasks) \in Nat
  BY LenProperties DEF Inv, TypeOK
<1>2. f \in Bijection(1..Len(tasks), Queued)
  <2>1. f \in [1..Len(tasks) -> Queued]
    BY <1>1 DEF Queued
  <2>2. \A i, j \in 1..Len(tasks) : f[i] = f[j] => i = j
    BY <1>1 DEF Inv, OnePlace
  <2>3. \A x \in Queued : \E i \in 1..Len(tasks) : f[i] = x
    BY <1>1 DEF Queued
  <2> HIDE DEF f
  <2> QED BY <2>1, <2>2, <2>3 DEF Bijection, Injection, Surjection, IsInjective
<1>3. IsFiniteSet(1..Len(tasks)) /\ Cardinality(1..Len(tasks)) = Len(tasks)
  <2>1. 1 \in Int /\ Len(tasks) \in Int
    BY <1>1
  <2>2. /\ IsFiniteSet(1..Len(tasks))
        /\ Cardinality(1..Len(tasks)) = IF 1 > Len(tasks) THEN 0 ELSE Len(tasks) - 1 + 1
    BY <2>1, FS_Interval
  <2> QED BY <1>1, <2>2
<1> HIDE DEF f
<1>4. ExistsBijection(1..Len(tasks), Queued)
  BY <1>2 DEF ExistsBijection
<1> QED BY <1>3, <1>4, FS_Bijection

\* A graceful exit loses what waits in the pool and no more.
THEOREM AuditExitLoss == AuditSpec => []ExitLoss
<1>1. ASSUME AuditInv, process = "exited"
      PROVE  /\ \A t \in Lost : t \in Queued \/ \E w \in Workers \ conns : task[w] = t
             /\ Cardinality(Lost) <= BufferSize + Cardinality(Workers)
  <2>1. Lost \subseteq Queued \cup Held /\ conns = {}
    BY <1>1 DEF AuditInv, Accounted, Lost, Ending
  <2>2. /\ IsFiniteSet(Queued) /\ Cardinality(Queued) <= BufferSize
        /\ Cardinality(Queued) \in Nat
    BY <1>1, QueuedCount, FS_CardinalityType DEF AuditInv, Inv, TypeOK
  <2>3. /\ IsFiniteSet(Held) /\ Cardinality(Held) <= Cardinality(Workers)
        /\ Cardinality(Held) \in Nat
    BY <1>1, HeldBounded, FS_CardinalityType DEF AuditInv
  <2>4. IsFiniteSet(Queued \cap Held) /\ Cardinality(Queued \cap Held) \in Nat
    BY <2>2, FS_Subset, FS_CardinalityType
  <2>5. /\ IsFiniteSet(Queued \cup Held)
        /\ Cardinality(Queued \cup Held) <= Cardinality(Queued) + Cardinality(Held)
    <3>1. /\ IsFiniteSet(Queued \cup Held)
          /\ Cardinality(Queued \cup Held) =
               Cardinality(Queued) + Cardinality(Held) - Cardinality(Queued \cap Held)
      BY <2>2, <2>3, FS_Union
    <3> QED BY <2>2, <2>3, <2>4, <3>1
  <2>6. Cardinality(Lost) <= Cardinality(Queued \cup Held)
    BY <2>1, <2>5, FS_Subset
  <2>7. Cardinality(Lost) \in Nat /\ Cardinality(Queued \cup Held) \in Nat /\ Cardinality(Workers) \in Nat
    BY <2>1, <2>5, FS_Subset, FS_CardinalityType, WorkersAssumption
  <2>8. Cardinality(Lost) <= BufferSize + Cardinality(Workers)
    BY <2>2, <2>3, <2>5, <2>6, <2>7, BufferSizeAssumption
  <2> QED BY <2>1, <2>8 DEF Held
<1>2. AuditInv => ExitLoss
  BY <1>1 DEF ExitLoss
<1> QED BY <1>2, AuditSpecInv, PTL

\* A record is dropped only while the buffer is full of others.
THEOREM AuditDropsAreBacklog == AuditSpec => DropsAreBacklog
<1>1. ASSUME AuditInv, [AuditNext]_auditVars, NEW t \in Tasks,
             record'[t] = "dropped", record[t] # "dropped"
      PROVE  Cardinality(Lost \cap Queued) >= BufferSize
  <2>1. Log(t)
    <3>1. ~UNCHANGED record
      BY <1>1
    <3>2. \A s \in Tasks : ~(Handle(s) \/ HangUp(s) \/ Panic(s))
      BY <3>1 DEF Handle, HangUp, Panic
    <3>3. ~PoolStep /\ ~(Signal \/ Drained \/ Exited \/ TimeOut \/ Crash)
      BY <3>1 DEF PoolStep, trailVars, Signal, Drained, Exited, TimeOut, Crash
    <3>4. ASSUME NEW s \in Tasks, Arrive(s) PROVE FALSE
      BY <1>1, <3>4 DEF Arrive, AuditInv, AuditTypeOK
    <3>5. ASSUME NEW w \in Workers, Acquire(w) \/ Store(w) \/ Return(w) PROVE FALSE
      BY <1>1, <3>5 DEF Acquire, Store, Return, AuditInv, AuditTypeOK
    <3>6. ASSUME NEW s \in Tasks, Log(s) PROVE s = t
      BY <1>1, <3>6 DEF Log, AuditInv, AuditTypeOK
    <3> QED BY <1>1, <3>1, <3>2, <3>3, <3>4, <3>5, <3>6 DEF AuditNext, auditVars, trailVars
  <2>2. t \notin Queued' \cup Held'
    BY <1>1, <2>1 DEF Log, AuditInv, AuditTypeOK
  <2>3. Submit(t) /\ t # NoTask
    BY <2>1, TasksAssumption DEF Log
  <2>4. ASSUME NEW w \in Parked, task' = [task EXCEPT ![w] = t] PROVE FALSE
    <3>1. w \in Workers /\ task'[w] = t
      BY <1>1, <2>4 DEF Parked, AuditInv, Inv, TypeOK
    <3> QED BY <2>2, <2>3, <3>1 DEF Held
  <2>5. ASSUME tasks' = Append(tasks, t) PROVE FALSE
    <3>1. Len(tasks) + 1 \in DOMAIN tasks' /\ tasks'[Len(tasks) + 1] = t
      BY <1>1, <2>5, LenProperties DEF AuditInv, Inv, TypeOK
    <3> QED BY <2>2, <3>1 DEF Queued
  <2>6. Full
    BY <2>3, <2>4, <2>5 DEF Submit
  <2>7. Queued \subseteq Lost
    BY <1>1, LenProperties DEF AuditInv, Accounted, Lost, Inv, TypeOK, Queued
  <2>8. Lost \cap Queued = Queued
    BY <2>7
  <2>9. Cardinality(Queued) = BufferSize
    BY <1>1, <2>6, QueuedCount DEF AuditInv, Full
  <2> QED BY <2>8, <2>9, BufferSizeAssumption
<1>2. AuditInv /\ [AuditNext]_auditVars =>
        [\A t \in Tasks : record'[t] = "dropped" /\ record[t] # "dropped" =>
           Cardinality(Lost \cap Queued) >= BufferSize]_auditVars
  BY <1>1
<1> QED BY <1>2, AuditSpecInv, PTL DEF AuditSpec, DropsAreBacklog
=============================================================================
