--------------------------- MODULE LoadTestProofs ---------------------------
(***************************************************************************)
(* Proofs of the safety properties of LoadTest, for any number of workers:  *)
(* the WaitGroup counts the workers that run, which are workers of the       *)
(* scenario that main is at; and how many answers a worker can have got      *)
(* since its deadline, at each of its requests.                              *)
(***************************************************************************)
EXTENDS LoadTest, FiniteSetTheorems, TLAPS

\* The requests and loop tests of each worker function.
Places ==
  [warmup |-> {"loop", "call"}, health |-> {"loop", "call"},
   mixed |-> {"loop", "authorized", "login", "register", "token", "call", "session", "refresh"},
   admin |-> {"token", "register", "retry", "authorized", "create", "users", "roles"}]

\* The answers a worker has got at most since its deadline, where it can have one.
Spent ==
  [warmup |-> [call |-> 0, loop |-> 1], health |-> [call |-> 0, loop |-> 1],
   mixed |-> [login |-> 0, token |-> 1, register |-> 1, call |-> 2, loop |-> 2,
              session |-> 3, refresh |-> 4, authorized |-> 5],
   admin |-> [create |-> 0, users |-> 1, roles |-> 2, authorized |-> 3]]

Alive == {g \in Goroutines : pc[g] \notin {"new", "done"}}

Passed(s) == \E n \in DOMAIN Order : Order[n] = s /\ n < stage
Coming(s) == \E n \in DOMAIN Order : Order[n] = s /\ stage < n

\* Where a worker can be, and what it has got since its deadline there.
WorkerOK(s, w) ==
  /\ pc[<<s, w>>] \in Places[s] \cup {"new", "done"}
  /\ <<s, w>> \notin late => over[<<s, w>>] = 0
  /\ <<s, w>> \in late => pc[<<s, w>>] \in DOMAIN Spent[s] /\ over[<<s, w>>] <= Spent[s][pc[<<s, w>>]]

\* The workers of the scenarios main has passed have returned, those of the coming
\* ones are not started, and only what is passed is reported.
Staged ==
  \A s \in Scenarios :
    /\ Passed(s) => \A w \in Workers : pc[<<s, w>>] = "done"
    /\ Coming(s) => \A w \in Workers : pc[<<s, w>>] = "new"
    /\ summary[s] # -1 => Passed(s) /\ summary[s] = metrics[s]

Inv ==
  /\ TypeOK /\ Staged
  /\ wg = Cardinality(Alive)
  /\ \A s \in Scenarios, w \in Workers : WorkerOK(s, w)

-----------------------------------------------------------------------------
(* The tables.                                                              *)

LEMMA TheOrder ==
  /\ Scenarios = {"warmup", "health", "mixed", "admin"}
  /\ DOMAIN Order = 1..4 /\ Len(Order) = 4
  /\ \A m, n \in 1..4 : Order[m] = Order[n] => m = n
BY DEF Scenarios, Order

\* A scenario is passed, at its turn or to come, and one of them only.
LEMMA OneTurn ==
  ASSUME NEW s \in Scenarios, stage \in 1..5
  PROVE  /\ Passed(s) \/ Running(s) \/ Coming(s)
         /\ Running(s) => ~Passed(s) /\ ~Coming(s)
         /\ ~(Passed(s) /\ Coming(s))
<1>1. PICK n \in 1..4 : Order[n] = s /\ \A m \in 1..4 : Order[m] = s => m = n
  BY TheOrder DEF Scenarios
<1>2. QED
  BY <1>1, TheOrder DEF Passed, Running, Coming

\* What the two forms of rows in the tables say.
LEMMA OnIs ==
  ASSUME NEW at, NEW answers, NEW recorded, NEW next, NEW step \in On(at, answers, recorded, next)
  PROVE  step.at = at /\ step.next = next /\ step.answer \in answers
BY DEF On

Tests(step, at, next) ==
  /\ step.at = at
  /\ \/ step.answer = "in time" /\ step.next = next
     \/ step.answer = "late" /\ step.next = "done"

LEMMA LoopIs ==
  ASSUME NEW at, NEW next, NEW step \in Loop(at, next)
  PROVE  Tests(step, at, next)
<1>1. ASSUME step \in On(at, {"in time"}, FALSE, next)
      PROVE  step.at = at /\ step.next = next /\ step.answer \in {"in time"}
  BY <1>1, OnIs
<1>2. ASSUME step \in On(at, {"late"}, FALSE, "done")
      PROVE  step.at = at /\ step.next = "done" /\ step.answer \in {"late"}
  BY <1>2, OnIs, Zenon
<1>3. QED
  BY <1>1, <1>2 DEF Loop, Tests

\* The places that the rows of each table connect.
Leads(step, at, next) ==
  \E answers, recorded : step \in On(at, answers, recorded, next)

LEMMA Row ==
  ASSUME NEW step, NEW at, NEW next, Leads(step, at, next)
  PROVE  step.at = at /\ step.next = next
<1>1. PICK answers, recorded : step \in On(at, answers, recorded, next)
  BY Zenon DEF Leads
<1>2. QED
  BY <1>1 DEF On

LEMMA WarmupLeads ==
  ASSUME NEW step \in WarmupSteps \cup HealthSteps
  PROVE  \/ Tests(step, "loop", "call")
         \/ step.at = "call" /\ step.next = "loop"
<1>1. step \in Loop("loop", "call") \/ Leads(step, "call", "loop")
  BY Zenon DEF WarmupSteps, HealthSteps, Leads
<1>2. QED
  BY <1>1, Row, LoopIs

LEMMA MixedLeads ==
  ASSUME NEW step \in MixedSteps
  PROVE  \/ Tests(step, "loop", "login")
         \/ Tests(step, "authorized", "call")
         \/ step.at = "login" /\ step.next \in {"token", "register"}
         \/ step.at = "register" /\ step.next = "loop"
         \/ step.at = "token" /\ step.next \in {"call", "loop"}
         \/ step.at = "call" /\ step.next \in {"authorized", "session"}
         \/ step.at = "session" /\ step.next \in {"refresh", "authorized"}
         \/ step.at = "refresh" /\ step.next = "authorized"
<1>1. \/ step \in Loop("loop", "login") \/ step \in Loop("authorized", "call")
      \/ Leads(step, "login", "token") \/ Leads(step, "login", "register")
      \/ Leads(step, "register", "loop")
      \/ Leads(step, "token", "call") \/ Leads(step, "token", "loop")
      \/ Leads(step, "call", "authorized") \/ Leads(step, "call", "session")
      \/ Leads(step, "session", "refresh") \/ Leads(step, "session", "authorized")
      \/ Leads(step, "refresh", "authorized")
  BY Zenon DEF MixedSteps, Leads
<1>2. QED
  BY <1>1, Row, LoopIs

LEMMA AdminLeads ==
  ASSUME NEW step \in AdminSteps
  PROVE  \/ Tests(step, "authorized", "create")
         \/ step.at = "token" /\ step.next \in {"authorized", "register"}
         \/ step.at = "register" /\ step.next = "retry"
         \/ step.at = "retry" /\ step.next \in {"authorized", "done"}
         \/ step.at = "create" /\ step.next = "users"
         \/ step.at = "users" /\ step.next = "roles"
         \/ step.at = "roles" /\ step.next = "authorized"
<1>1. \/ step \in Loop("authorized", "create")
      \/ Leads(step, "token", "authorized") \/ Leads(step, "token", "register")
      \/ Leads(step, "register", "retry")
      \/ Leads(step, "retry", "authorized") \/ Leads(step, "retry", "done")
      \/ Leads(step, "create", "users")
      \/ Leads(step, "users", "roles")
      \/ Leads(step, "roles", "authorized")
  BY Zenon DEF AdminSteps, Leads
<1>2. QED
  BY <1>1, Row, LoopIs

\* A worker stays where its function is, and returns from a loop test when it is late.
LEMMA StepsLead ==
  ASSUME NEW s \in Scenarios, NEW step \in Steps[s]
  PROVE  /\ step.at \in Places[s] /\ step.next \in Places[s] \cup {"done"}
         /\ step.at \in Heads /\ step.answer = "late" => step.next = "done"
         /\ step.at \in Heads /\ step.answer = "in time" => step.next # "done"
<1>1. CASE s \in {"warmup", "health"}
  <2>1. step \in WarmupSteps \cup HealthSteps
    BY <1>1 DEF Steps
  <2>2. Places[s] = {"loop", "call"}
    BY <1>1 DEF Places
  <2>3. QED
    BY <2>1, <2>2, WarmupLeads DEF Heads, Tests
<1>2. CASE s = "mixed"
  <2>1. step \in MixedSteps
    BY <1>2 DEF Steps
  <2>2. Places[s] = {"loop", "authorized", "login", "register", "token", "call",
                    "session", "refresh"}
    BY <1>2 DEF Places
  <2>3. QED
    BY <2>1, <2>2, MixedLeads DEF Heads, Tests
<1>3. CASE s = "admin"
  <2>1. step \in AdminSteps
    BY <1>3 DEF Steps
  <2>2. Places[s] = {"token", "register", "retry", "authorized", "create", "users", "roles"}
    BY <1>3 DEF Places
  <2>3. QED
    BY <2>1, <2>2, AdminLeads DEF Heads, Tests
<1>4. QED
  BY <1>1, <1>2, <1>3, TheOrder

\* An answer after the deadline takes a worker to a place where it can have one more.
LEMMA StepsSpend ==
  ASSUME NEW s \in Scenarios, NEW step \in Steps[s],
         step.at \notin Heads, step.at \in DOMAIN Spent[s]
  PROVE  /\ step.next \in DOMAIN Spent[s]
         /\ Spent[s][step.at] \in Nat /\ Spent[s][step.next] \in Nat
         /\ Spent[s][step.at] + 1 <= Spent[s][step.next]
<1> USE DEF Heads, Spent
<1>1. CASE s \in {"warmup", "health"}
  <2>1. step \in WarmupSteps \cup HealthSteps
    BY <1>1 DEF Steps
  <2>2. step.at = "call" /\ step.next = "loop"
    BY <2>1, WarmupLeads DEF Tests
  <2>3. QED
    BY <1>1, <2>2
<1>2. CASE s = "mixed"
  <2>1. step \in MixedSteps
    BY <1>2 DEF Steps
  <2>2. ~Tests(step, "loop", "login") /\ ~Tests(step, "authorized", "call")
    BY DEF Tests
  <2>3. QED
    BY <1>2, <2>1, <2>2, MixedLeads
<1>3. CASE s = "admin"
  <2>1. step \in AdminSteps
    BY <1>3 DEF Steps
  <2>2. ~Tests(step, "authorized", "create")
    BY DEF Tests
  <2>3. QED
    BY <1>3, <2>1, <2>2, AdminLeads
<1>4. QED
  BY <1>1, <1>2, <1>3, TheOrder

\* Nowhere has it more than a round has answers.
LEMMA SpentAtMost ==
  ASSUME NEW s \in Scenarios, NEW at \in DOMAIN Spent[s]
  PROVE  Spent[s][at] \in 0..Rounds[s] /\ Rounds[s] \in Nat
<1>1. CASE s \in {"warmup", "health"}
  BY <1>1 DEF Spent, Rounds
<1>2. CASE s = "mixed"
  BY <1>2 DEF Spent, Rounds
<1>3. CASE s = "admin"
  BY <1>3 DEF Spent, Rounds
<1>4. QED
  BY <1>1, <1>2, <1>3, TheOrder

\* Places and their names.
LEMMA PlacesAre ==
  ASSUME NEW s \in Scenarios
  PROVE  /\ Places[s] \subseteq PCs \ {"new", "done"} /\ First[s] \in Places[s]
         /\ DOMAIN Spent[s] \subseteq Places[s]
         /\ s # "admin" => Places[s] \subseteq DOMAIN Spent[s]
         /\ Places[s] \ {"token", "register", "retry"} \subseteq DOMAIN Spent[s]
<1>1. CASE s \in {"warmup", "health"}
  BY <1>1 DEF Places, First, PCs, Heads, Spent
<1>2. CASE s = "mixed"
  BY <1>2 DEF Places, First, PCs, Heads, Spent
<1>3. CASE s = "admin"
  BY <1>3 DEF Places, First, PCs, Heads, Spent
<1>4. QED
  BY <1>1, <1>2, <1>3, TheOrder

\* The workers of one scenario are as many as there are workers, at most.
LEMMA OneScenario ==
  ASSUME NEW s, NEW A, A \subseteq {s} \X Workers
  PROVE  IsFiniteSet(A) /\ Cardinality(A) \in 0..Cardinality(Workers)
<1> DEFINE f == [g \in A |-> g[2]]
<1>1. f \in Injection(A, Workers)
  BY DEF Injection, IsInjective
<1> HIDE DEF f
<1>2. IsFiniteSet(A) /\ Cardinality(A) <= Cardinality(Workers)
  BY <1>1, WorkersAssumption, FS_Injection
<1>3. QED
  BY <1>2, WorkersAssumption, FS_CardinalityType

-----------------------------------------------------------------------------
(* The workers of the running scenario.                                     *)

\* A worker that has started and not returned belongs to the running scenario.
LEMMA Current ==
  ASSUME Inv, NEW s \in Scenarios, NEW w \in Workers, pc[<<s, w>>] \notin {"new", "done"}
  PROVE  Running(s)
<1>1. stage \in 1..5
  BY TheOrder DEF Inv, TypeOK
<1>2. QED
  BY <1>1, OneTurn DEF Inv, Staged

LEMMA AliveHere ==
  ASSUME Inv, NEW s \in Scenarios, Running(s)
  PROVE  Alive \subseteq {s} \X Workers
<1> SUFFICES ASSUME NEW g \in Alive PROVE g \in {s} \X Workers
  OBVIOUS
<1>1. PICK t \in Scenarios, w \in Workers : g = <<t, w>>
  BY DEF Alive, Goroutines
<1>2. Running(t)
  BY <1>1, Current DEF Alive
<1>3. QED
  BY <1>1, <1>2 DEF Running

\* What an action of one worker has to keep.
LEMMA OneWorker ==
  ASSUME Inv, NEW s \in Scenarios, NEW w \in Workers, NEW next \in PCs \ {"new"}, Running(s),
         pc' = [pc EXCEPT ![<<s, w>>] = next], UNCHANGED <<stage, stopped, summary>>,
         wg' = Cardinality(Alive'),
         metrics' \in [Scenarios -> 0..MaxCount],
         \A t \in Scenarios \ {s} : metrics'[t] = metrics[t],
         late' \subseteq Goroutines, over' \in [Goroutines -> Nat],
         \A g \in Goroutines \ {<<s, w>>} : (g \in late' <=> g \in late) /\ over'[g] = over[g],
         WorkerOK(s, w)'
  PROVE  Inv'
<1>1. pc \in [Goroutines -> PCs] /\ <<s, w>> \in Goroutines /\ stage \in 1..5
  BY TheOrder DEF Inv, TypeOK, Goroutines
<1>2. /\ pc' \in [Goroutines -> PCs] /\ pc'[<<s, w>>] = next
      /\ \A g \in Goroutines \ {<<s, w>>} : pc'[g] = pc[g]
  BY <1>1
<1>3. Alive' \subseteq {s} \X Workers
  <2>1. Alive' \subseteq Alive \cup {<<s, w>>}
    BY <1>2 DEF Alive
  <2>2. QED
    BY <2>1, AliveHere
<1>4. TypeOK'
  BY <1>2, <1>3, OneScenario DEF Inv, TypeOK
<1>5. ~Passed(s) /\ ~Coming(s)
  BY <1>1, OneTurn
<1>6. \A t \in Scenarios : /\ Passed(t)' <=> Passed(t)
                           /\ Coming(t)' <=> Coming(t)
  BY DEF Passed, Coming
<1>7. Staged'
  <2> SUFFICES ASSUME NEW t \in Scenarios
               PROVE  /\ Passed(t) => \A v \in Workers : pc'[<<t, v>>] = "done"
                      /\ Coming(t) => \A v \in Workers : pc'[<<t, v>>] = "new"
                      /\ summary'[t] # -1 => Passed(t) /\ summary'[t] = metrics'[t]
    BY <1>6 DEF Staged
  <2>1. /\ Passed(t) => \A v \in Workers : pc[<<t, v>>] = "done"
        /\ Coming(t) => \A v \in Workers : pc[<<t, v>>] = "new"
        /\ summary[t] # -1 => Passed(t) /\ summary[t] = metrics[t]
    BY DEF Inv, Staged
  <2>2. CASE t = s
    BY <2>1, <2>2, <1>5
  <2>3. CASE t # s
    <3>1. \A v \in Workers : pc'[<<t, v>>] = pc[<<t, v>>]
      BY <1>2, <2>3 DEF Goroutines
    <3>2. QED
      BY <2>1, <2>3, <3>1
  <2>4. QED
    BY <2>2, <2>3
<1>8. ASSUME NEW t \in Scenarios, NEW v \in Workers PROVE WorkerOK(t, v)'
  <2>1. CASE <<t, v>> = <<s, w>>
    BY <2>1
  <2>2. CASE <<t, v>> # <<s, w>>
    <3>1. <<t, v>> \in Goroutines \ {<<s, w>>}
      BY <2>2 DEF Goroutines
    <3>2. WorkerOK(t, v)
      BY DEF Inv
    <3>3. QED
      BY <3>1, <3>2, <1>2 DEF WorkerOK
  <2>3. QED
    BY <2>1, <2>2
<1>9. QED
  BY <1>4, <1>7, <1>8 DEF Inv

\* GoTo counts a worker that returns, and no other.
LEMMA Counted ==
  ASSUME Inv, NEW s \in Scenarios, NEW w \in Workers, NEW next \in PCs \ {"new"},
         pc[<<s, w>>] \notin {"new", "done"}, GoTo(s, w, next)
  PROVE  wg' = Cardinality(Alive')
<1>1. <<s, w>> \in Alive /\ pc \in [Goroutines -> PCs] /\ wg = Cardinality(Alive)
  BY DEF Alive, Goroutines, Inv, TypeOK
<1>2. IsFiniteSet(Alive)
  BY Current, AliveHere, OneScenario
<1>3. CASE next = "done"
  <2>1. Alive' = Alive \ {<<s, w>>}
    BY <1>1, <1>3 DEF Alive, GoTo
  <2>2. QED
    BY <1>1, <1>2, <1>3, <2>1, FS_RemoveElement DEF GoTo
<1>4. CASE next # "done"
  <2>1. Alive' = Alive
    BY <1>1, <1>4 DEF Alive, GoTo
  <2>2. QED
    BY <1>1, <1>4, <2>1 DEF GoTo
<1>5. QED
  BY <1>3, <1>4

-----------------------------------------------------------------------------
(* One lemma per action.                                                    *)

LEMMA InitInv == Init => Inv
<1> SUFFICES ASSUME Init PROVE Inv
  OBVIOUS
<1>1. stage = 1 /\ 1 \in 1..(Len(Order) + 1)
  BY TheOrder DEF Init
<1>2. Alive = {} /\ wg = Cardinality(Alive)
  <2>1. Alive = {}
    BY DEF Alive, Init
  <2>2. QED
    BY <2>1, FS_EmptySet DEF Init
<1>3. wg \in 0..Cardinality(Workers)
  BY WorkersAssumption, FS_CardinalityType DEF Init
<1>4. TypeOK
  <2>1. pc \in [Goroutines -> PCs] /\ late \subseteq Goroutines /\ stopped \in BOOLEAN
    BY DEF Init, PCs
  <2>2. /\ over \in [Goroutines -> Nat] /\ metrics \in [Scenarios -> 0..MaxCount]
        /\ summary \in [Scenarios -> -1..MaxCount]
    BY MaxCountAssumption DEF Init
  <2>3. QED
    BY <1>1, <1>3, <2>1, <2>2 DEF TypeOK
<1>5. \A s \in Scenarios : ~Passed(s)
  BY <1>1, TheOrder DEF Passed
<1>6. Staged
  BY <1>5 DEF Init, Staged, Goroutines
<1>7. ASSUME NEW s \in Scenarios, NEW w \in Workers PROVE WorkerOK(s, w)
  BY DEF Init, WorkerOK, Goroutines
<1>8. QED
  BY <1>2, <1>4, <1>6, <1>7 DEF Inv

\* Nothing of the workers depends on stopped.
LEMMA StopInv ==
  ASSUME Inv, Stop
  PROVE  Inv'
<1>1. TypeOK' /\ Staged' /\ Alive' = Alive /\ wg' = wg
  BY DEF Stop, Inv, TypeOK, Staged, Passed, Coming, Alive
<1>2. ASSUME NEW s \in Scenarios, NEW w \in Workers PROVE WorkerOK(s, w)'
  BY DEF Stop, Inv, WorkerOK
<1>3. QED
  BY <1>1, <1>2 DEF Inv

LEMMA UnchangedInv ==
  ASSUME Inv, UNCHANGED vars
  PROVE  Inv'
<1>1. TypeOK' /\ Staged' /\ Alive' = Alive /\ wg' = wg
  BY DEF vars, Inv, TypeOK, Staged, Passed, Coming, Alive
<1>2. ASSUME NEW s \in Scenarios, NEW w \in Workers PROVE WorkerOK(s, w)'
  BY DEF vars, Inv, WorkerOK
<1>3. QED
  BY <1>1, <1>2 DEF Inv

\* A worker starts before its deadline.
LEMMA SpawnInv ==
  ASSUME Inv, NEW s \in Scenarios, NEW w \in Workers, Spawn(s, w)
  PROVE  Inv'
<1>1. /\ <<s, w>> \in Goroutines /\ pc \in [Goroutines -> PCs] /\ pc[<<s, w>>] = "new"
      /\ wg = Cardinality(Alive) /\ Running(s)
  BY DEF Goroutines, Inv, TypeOK, Spawn
<1>2. First[s] \in Places[s] /\ First[s] \in PCs \ {"new", "done"}
  BY PlacesAre
<1>3. wg' = Cardinality(Alive')
  <2>1. Alive' = Alive \cup {<<s, w>>} /\ <<s, w>> \notin Alive
    BY <1>1, <1>2 DEF Alive, Spawn
  <2>2. IsFiniteSet(Alive)
    BY <1>1, AliveHere, OneScenario
  <2>3. QED
    BY <1>1, <2>1, <2>2, FS_AddElement DEF Spawn
<1>4. WorkerOK(s, w)'
  <2>1. <<s, w>> \notin late /\ over[<<s, w>>] = 0
    BY <1>1, PlacesAre DEF Inv, WorkerOK
  <2>2. QED
    BY <1>1, <1>2, <2>1 DEF WorkerOK, Spawn
<1>5. UNCHANGED <<stage, stopped, summary, metrics, late, over>>
  BY DEF Spawn
<1>6. QED
  BY <1>1, <1>2, <1>3, <1>4, <1>5, OneWorker DEF Inv, TypeOK, Spawn

\* The deadline comes at a place where no answer has been got since.
LEMMA DeadlineInv ==
  ASSUME Inv, NEW s \in Scenarios, NEW w \in Workers, Deadline(s, w)
  PROVE  Inv'
<1>1. /\ <<s, w>> \in Goroutines /\ pc \in [Goroutines -> PCs]
      /\ pc[<<s, w>>] \notin {"new", "done"} /\ <<s, w>> \notin late
  BY DEF Goroutines, Inv, TypeOK, Deadline
<1>2. WorkerOK(s, w)'
  <2>1. pc[<<s, w>>] \in DOMAIN Spent[s]
    BY <1>1, PlacesAre DEF Inv, WorkerOK, Deadline
  <2>2. Spent[s][pc[<<s, w>>]] \in 0..Rounds[s]
    BY <2>1, SpentAtMost
  <2>3. over[<<s, w>>] = 0 /\ pc[<<s, w>>] \in Places[s] \cup {"new", "done"}
    BY <1>1 DEF Inv, WorkerOK
  <2>4. UNCHANGED <<pc, over>> /\ <<s, w>> \in late'
    BY DEF Deadline
  <2>5. 0 <= Spent[s][pc[<<s, w>>]]
    BY <2>2, SpentAtMost, <2>1
  <2>6. QED
    BY <2>1, <2>3, <2>4, <2>5 DEF WorkerOK
<1>3. /\ pc' = [pc EXCEPT ![<<s, w>>] = pc[<<s, w>>]] /\ pc[<<s, w>>] \in PCs \ {"new"}
      /\ Running(s) /\ Alive' = Alive /\ wg' = wg /\ wg = Cardinality(Alive)
  BY <1>1, Current DEF Deadline, Alive, Inv
<1>4. UNCHANGED <<stage, stopped, summary, metrics, over>> /\ late' = late \cup {<<s, w>>}
  BY DEF Deadline
<1>5. QED
  BY <1>1, <1>2, <1>3, <1>4, OneWorker DEF Inv, TypeOK

\* A late worker returns from its loop test and its history is forgotten; one in time
\* starts its next round.
LEMMA CheckInv ==
  ASSUME Inv, NEW s \in Scenarios, NEW w \in Workers, Check(s, w)
  PROVE  Inv'
<1>1. /\ <<s, w>> \in Goroutines /\ pc \in [Goroutines -> PCs] /\ pc[<<s, w>>] \in Heads
      /\ late \subseteq Goroutines /\ over \in [Goroutines -> Nat]
      /\ UNCHANGED <<stage, stopped, metrics, summary>>
  BY DEF Goroutines, Inv, TypeOK, Check
<1>2. PICK step \in Steps[s] :
        /\ step.at = pc[<<s, w>>] /\ GoTo(s, w, step.next)
        /\ step.answer = "late" \/ (step.answer = "in time" /\ <<s, w>> \notin late)
        /\ IF step.next = "done"
           THEN late' = late \ {<<s, w>>} /\ over' = [over EXCEPT ![<<s, w>>] = 0]
           ELSE UNCHANGED <<late, over>>
  BY DEF Check
<1>3. /\ step.next \in Places[s] \cup {"done"} /\ Running(s) /\ pc[<<s, w>>] \notin {"new", "done"}
      /\ step.answer = "late" => step.next = "done"
  BY <1>1, <1>2, StepsLead, Current DEF Heads
<1>4. step.next \in PCs \ {"new"}
  BY <1>3, PlacesAre DEF PCs
<1>5. wg' = Cardinality(Alive') /\ pc' = [pc EXCEPT ![<<s, w>>] = step.next]
  BY <1>2, <1>3, <1>4, Counted DEF GoTo
<1>6. CASE step.next = "done"
  <2>1. late' = late \ {<<s, w>>} /\ over' = [over EXCEPT ![<<s, w>>] = 0]
    BY <1>2, <1>6
  <2>2. WorkerOK(s, w)'
    BY <1>1, <1>5, <1>6, <2>1 DEF WorkerOK
  <2>3. /\ late' \subseteq Goroutines /\ over' \in [Goroutines -> Nat]
        /\ \A g \in Goroutines \ {<<s, w>>} : (g \in late' <=> g \in late) /\ over'[g] = over[g]
    BY <1>1, <2>1
  <2>4. QED
    BY <1>1, <1>3, <1>4, <1>5, <2>2, <2>3, OneWorker DEF Inv, TypeOK
<1>7. CASE step.next # "done"
  <2>1. <<s, w>> \notin late /\ UNCHANGED <<late, over>>
    BY <1>2, <1>3, <1>7
  <2>2. over[<<s, w>>] = 0
    BY <2>1 DEF Inv, WorkerOK
  <2>3. WorkerOK(s, w)'
    BY <1>1, <1>3, <1>5, <2>1, <2>2 DEF WorkerOK
  <2>4. QED
    BY <1>1, <1>3, <1>4, <1>5, <2>1, <2>3, OneWorker DEF Inv, TypeOK
<1>8. QED
  BY <1>6, <1>7

\* An answer after the deadline is one of those that Spent counts.
LEMMA AnswerInv ==
  ASSUME Inv, NEW s \in Scenarios, NEW w \in Workers, Answer(s, w)
  PROVE  Inv'
<1>1. /\ <<s, w>> \in Goroutines /\ pc \in [Goroutines -> PCs]
      /\ late \subseteq Goroutines /\ over \in [Goroutines -> Nat]
      /\ UNCHANGED <<stage, stopped, late, summary>>
  BY DEF Goroutines, Inv, TypeOK, Answer
<1>2. PICK step \in Steps[s] :
        /\ step.at = pc[<<s, w>>] /\ step.at \notin Heads /\ GoTo(s, w, step.next)
        /\ IF step.recorded THEN Record(s) ELSE UNCHANGED metrics
  BY DEF Answer
<1>3. /\ step.at \in Places[s] /\ step.next \in Places[s] \cup {"done"}
      /\ pc[<<s, w>>] \notin {"new", "done"}
  BY <1>2, StepsLead, PlacesAre
<1>4. step.next \in PCs \ {"new"} /\ Running(s)
  BY <1>3, PlacesAre, Current DEF PCs
<1>5. wg' = Cardinality(Alive') /\ pc' = [pc EXCEPT ![<<s, w>>] = step.next]
  BY <1>2, <1>3, <1>4, Counted DEF GoTo
<1>6. metrics' \in [Scenarios -> 0..MaxCount] /\ \A t \in Scenarios \ {s} : metrics'[t] = metrics[t]
  <2>1. metrics \in [Scenarios -> 0..MaxCount] /\ metrics[s] \in 0..MaxCount
    BY DEF Inv, TypeOK
  <2>2. UpTo(MaxCount, metrics[s] + 1) \in 0..MaxCount
    BY <2>1, MaxCountAssumption DEF UpTo
  <2>3. CASE metrics' = [metrics EXCEPT ![s] = UpTo(MaxCount, metrics[s] + 1)]
    BY <2>1, <2>2, <2>3
  <2>4. CASE UNCHANGED metrics
    BY <2>1, <2>4
  <2>5. QED
    BY <1>2, <2>3, <2>4 DEF Record
<1>7. over' = IF <<s, w>> \in late
              THEN [over EXCEPT ![<<s, w>>] = UpTo(Rounds[s] + 1, over[<<s, w>>] + 1)] ELSE over
  BY DEF Answer
<1>8. Rounds[s] \in Nat
  BY TheOrder DEF Rounds
<1>9. /\ over' \in [Goroutines -> Nat]
      /\ \A g \in Goroutines \ {<<s, w>>} : over'[g] = over[g]
  <2>1. UpTo(Rounds[s] + 1, over[<<s, w>>] + 1) \in Nat
    BY <1>1, <1>8 DEF UpTo
  <2>2. QED
    BY <1>1, <1>7, <2>1
<1>10. WorkerOK(s, w)'
  <2>1. CASE <<s, w>> \in late
    <3>1. pc[<<s, w>>] \in DOMAIN Spent[s] /\ over[<<s, w>>] <= Spent[s][pc[<<s, w>>]]
      BY <2>1 DEF Inv, WorkerOK
    <3>2. /\ step.next \in DOMAIN Spent[s]
          /\ Spent[s][pc[<<s, w>>]] \in Nat /\ Spent[s][step.next] \in Nat
          /\ Spent[s][pc[<<s, w>>]] + 1 <= Spent[s][step.next]
      BY <1>2, <3>1, StepsSpend
    <3>3. over[<<s, w>>] + 1 <= Spent[s][step.next] /\ over[<<s, w>>] \in Nat
      BY <1>1, <3>1, <3>2
    <3>4. UpTo(Rounds[s] + 1, over[<<s, w>>] + 1) <= Spent[s][step.next]
      BY <3>2, <3>3, <1>8 DEF UpTo
    <3>5. /\ over'[<<s, w>>] <= Spent[s][step.next] /\ pc'[<<s, w>>] = step.next
          /\ <<s, w>> \in late'
      BY <1>1, <1>5, <1>7, <2>1, <3>4
    <3>6. QED
      BY <1>3, <3>2, <3>5 DEF WorkerOK
  <2>2. CASE <<s, w>> \notin late
    <3>1. over[<<s, w>>] = 0
      BY <2>2 DEF Inv, WorkerOK
    <3>2. QED
      BY <1>1, <1>3, <1>5, <1>7, <2>2, <3>1 DEF WorkerOK
  <2>3. QED
    BY <2>1, <2>2
<1>11. QED
  BY <1>1, <1>4, <1>5, <1>6, <1>9, <1>10, OneWorker

\* When wg.Wait returns every worker of the scenario has started and returned.
LEMMA SnapshotInv ==
  ASSUME Inv, NEW s \in Scenarios, Snapshot(s)
  PROVE  Inv'
<1>1. /\ Running(s) /\ AllStarted(s) /\ wg = 0 /\ stage' = stage + 1
      /\ summary' = [summary EXCEPT ![s] = metrics[s]]
      /\ UNCHANGED <<stopped, wg, pc, late, over, metrics>>
  BY DEF Snapshot
<1>2. stage \in 1..4 /\ Order[stage] = s
  BY <1>1, TheOrder DEF Running
<1>3. Alive = {}
  <2>1. IsFiniteSet(Alive) /\ Cardinality(Alive) = 0
    BY <1>1, AliveHere, OneScenario DEF Inv
  <2>2. QED
    BY <2>1, FS_EmptySet
<1>4. \A w \in Workers : pc[<<s, w>>] = "done"
  BY <1>1, <1>3 DEF Alive, Goroutines, AllStarted
<1>5. TypeOK'
  <2>1. stage' \in 1..5
    BY <1>1, <1>2
  <2>2. stage' \in 1..(Len(Order) + 1)
    BY <2>1, TheOrder
  <2>3. summary' \in [Scenarios -> -1..MaxCount]
    <3>1. metrics[s] \in -1..MaxCount
      BY MaxCountAssumption DEF Inv, TypeOK
    <3>2. QED
      BY <1>1, <3>1 DEF Inv, TypeOK
  <2>4. QED
    BY <1>1, <2>2, <2>3 DEF Inv, TypeOK
<1>6. Staged'
  <2> SUFFICES ASSUME NEW t \in Scenarios
               PROVE  /\ Passed(t)' => \A w \in Workers : pc[<<t, w>>] = "done"
                      /\ Coming(t)' => \A w \in Workers : pc[<<t, w>>] = "new"
                      /\ summary'[t] # -1 => Passed(t)' /\ summary'[t] = metrics[t]
    BY <1>1 DEF Staged
  <2>1. /\ Passed(t) => \A w \in Workers : pc[<<t, w>>] = "done"
        /\ Coming(t) => \A w \in Workers : pc[<<t, w>>] = "new"
        /\ summary[t] # -1 => Passed(t) /\ summary[t] = metrics[t]
    BY DEF Inv, Staged
  <2>2. /\ Passed(t)' <=> Passed(t) \/ t = s
        /\ Coming(t)' => Coming(t)
    BY <1>1, <1>2, TheOrder DEF Passed, Coming
  <2>3. CASE t = s
    <3>1. ~Coming(t)'
      BY <1>1, <1>2, <2>3, TheOrder DEF Coming
    <3>2. summary'[t] = metrics[t]
      BY <1>1, <2>3 DEF Inv, TypeOK
    <3>3. QED
      BY <1>4, <2>2, <2>3, <3>1, <3>2
  <2>4. CASE t # s
    <3>1. summary'[t] = summary[t]
      BY <1>1, <2>4 DEF Inv, TypeOK
    <3>2. QED
      BY <2>1, <2>2, <2>4, <3>1
  <2>5. QED
    BY <2>3, <2>4
<1>7. Alive' = Alive
  BY <1>1 DEF Alive
<1>8. ASSUME NEW t \in Scenarios, NEW w \in Workers PROVE WorkerOK(t, w)'
  BY <1>1 DEF Inv, WorkerOK
<1>9. QED
  BY <1>1, <1>5, <1>6, <1>7, <1>8 DEF Inv

LEMMA NextInv == Inv /\ [Next]_vars => Inv'
<1> SUFFICES ASSUME Inv, [Next]_vars PROVE Inv'
  OBVIOUS
<1>1. CASE Stop
  BY <1>1, StopInv
<1>2. ASSUME NEW s \in Scenarios, Snapshot(s) PROVE Inv'
  BY <1>2, SnapshotInv
<1>3. ASSUME NEW s \in Scenarios, NEW w \in Workers,
             Spawn(s, w) \/ Deadline(s, w) \/ Check(s, w) \/ Answer(s, w)
      PROVE  Inv'
  BY <1>3, SpawnInv, DeadlineInv, CheckInv, AnswerInv
<1>4. CASE UNCHANGED vars
  BY <1>4, UnchangedInv
<1>5. QED
  BY <1>1, <1>2, <1>3, <1>4 DEF Next

\* The WaitGroup, the stage of main, the places of the workers and their overruns
\* agree in every reachable state, for any number of workers.
THEOREM SpecInv == Spec => []Inv
BY InitInv, NextInv, PTL DEF Spec

-----------------------------------------------------------------------------
(* What follows.                                                            *)

\* The variables keep their types; the WaitGroup is never negative, so that no Done
\* panics, and never above the workers of one scenario.
THEOREM SpecTypeOK == Spec => []TypeOK
<1>1. Inv => TypeOK
  BY DEF Inv
<1>2. QED
  BY <1>1, SpecInv, PTL

\* A reported summary is the metrics of workers that have all returned, and stays so:
\* printSummary reads the status codes that nobody writes any more.
THEOREM SpecSummaryIsFinal == Spec => []SummaryIsFinal
<1>1. Inv => SummaryIsFinal
  BY DEF Inv, Staged, SummaryIsFinal
<1>2. QED
  BY <1>1, SpecInv, PTL

\* No worker gets more answers after its deadline than a round of its function has,
\* whatever the server answers.
THEOREM SpecOverrunBound == Spec => []OverrunBound
<1>1. Inv => OverrunBound
  <2> SUFFICES ASSUME Inv, NEW s \in Scenarios, NEW w \in Workers
               PROVE  over[<<s, w>>] <= Rounds[s]
    BY DEF OverrunBound
  <2>1. Rounds[s] \in Nat
    BY TheOrder DEF Rounds
  <2>2. over[<<s, w>>] \in Nat
    BY DEF Inv, TypeOK, Goroutines
  <2>3. CASE <<s, w>> \notin late
    BY <2>1, <2>3 DEF Inv, WorkerOK
  <2>4. CASE <<s, w>> \in late
    <3>1. pc[<<s, w>>] \in DOMAIN Spent[s] /\ over[<<s, w>>] <= Spent[s][pc[<<s, w>>]]
      BY <2>4 DEF Inv, WorkerOK
    <3>2. Spent[s][pc[<<s, w>>]] \in 0..Rounds[s]
      BY <3>1, SpentAtMost
    <3>3. QED
      BY <2>1, <2>2, <3>1, <3>2
  <2>5. QED
    BY <2>3, <2>4
<1>2. QED
  BY <1>1, SpecInv, PTL
=============================================================================
