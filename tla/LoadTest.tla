------------------------------ MODULE LoadTest ------------------------------
(***************************************************************************)
(* The load-test client (cmd/loadtest): four scenarios, one after another,  *)
(* each with its workers, which send requests until their time is up and    *)
(* record the answers in the metrics of the scenario.                       *)
(*                                                                          *)
(* An action is the answer to one request and what the worker does with it. *)
(* The server may answer anything, or nothing for the 30 s of the client's  *)
(* timeout.                                                                 *)
(***************************************************************************)
EXTENDS Integers, Sequences, FiniteSets

CONSTANTS
  Workers,   \* the concurrent workers of a scenario
  MaxCount   \* the counts of metrics saturate here

ASSUME WorkersAssumption == IsFiniteSet(Workers)
ASSUME MaxCountAssumption == MaxCount \in Nat

Order == <<"warmup", "health", "mixed", "admin">>
Scenarios == {Order[n] : n \in DOMAIN Order}
Goroutines == Scenarios \X Workers

VARIABLES
  stage,     \* the scenario that main runs, as an index of Order
  stopped,   \* the channel stop of warmup is closed
  wg,        \* the WaitGroup of the scenario
  pc,        \* the request or loop test each goroutine is at
  late,      \* the running goroutines whose time is up
  over,      \* history: the answers each of them has got since
  metrics,   \* the number of recorded answers of each scenario
  summary    \* the one reported, or -1

vars == <<stage, stopped, wg, pc, late, over, metrics, summary>>

-----------------------------------------------------------------------------
(* What the workers do: at a request, after an answer, they record it or    *)
(* not and go on.                                                           *)

On(at, answers, recorded, next) ==
  {[at |-> at, answer |-> a, recorded |-> recorded, next |-> next] : a \in answers}
\* A loop test: go on with the next request, or return.
Loop(at, next) == On(at, {"in time"}, FALSE, next) \cup On(at, {"late"}, FALSE, "done")

\* The status the worker hopes for, another one, or an error or timeout.
Do == {"wanted", "other", "error"}
GetToken == {"token", "no token"}
GetRefreshToken == {"refresh token", "no refresh token"}

WarmupSteps ==
  Loop("loop", "call")
  \cup On("call", Do \ {"error"}, TRUE, "loop") \cup On("call", {"error"}, FALSE, "loop")

HealthSteps == Loop("loop", "call") \cup On("call", Do, TRUE, "loop")

\* Mutant: without a token the login is repeated at once.
MixedStepsRetrying ==
  Loop("loop", "login") \cup Loop("authorized", "call")
  \cup On("login", {"wanted"}, TRUE, "token") \cup On("login", Do \ {"wanted"}, TRUE, "register")
  \cup On("register", Do, TRUE, "loop")
  \cup On("token", {"token"}, FALSE, "call") \cup On("token", {"no token"}, FALSE, "login")
  \cup On("call", Do, TRUE, "authorized") \cup On("call", Do, TRUE, "session")
  \cup On("session", {"refresh token"}, FALSE, "refresh")
  \cup On("session", {"no refresh token"}, FALSE, "authorized")
  \cup On("refresh", Do \ {"error"}, TRUE, "authorized")
  \cup On("refresh", {"error"}, FALSE, "authorized")

\* At "loop" the worker has no access token, at "authorized" it has one.  The login
\* of getRefreshToken ("session") and the refresh come after some of the calls only.
MixedSteps ==
  Loop("loop", "login") \cup Loop("authorized", "call")
  \cup On("login", {"wanted"}, TRUE, "token") \cup On("login", Do \ {"wanted"}, TRUE, "register")
  \cup On("register", Do, TRUE, "loop")
  \cup On("token", {"token"}, FALSE, "call") \cup On("token", {"no token"}, FALSE, "loop")
  \cup On("call", Do, TRUE, "authorized") \cup On("call", Do, TRUE, "session")
  \cup On("session", {"refresh token"}, FALSE, "refresh")
  \cup On("session", {"no refresh token"}, FALSE, "authorized")
  \cup On("refresh", Do \ {"error"}, TRUE, "authorized")
  \cup On("refresh", {"error"}, FALSE, "authorized")

\* Mutant: it tries to register until there is a token.
AdminStepsInsisting ==
  On("token", {"token"}, FALSE, "authorized") \cup On("token", {"no token"}, FALSE, "register")
  \cup On("register", Do, TRUE, "token")
  \cup Loop("authorized", "create")
  \cup On("create", Do, TRUE, "users") \cup On("users", Do, TRUE, "roles")
  \cup On("roles", Do, TRUE, "authorized")

AdminSteps ==
  On("token", {"token"}, FALSE, "authorized") \cup On("token", {"no token"}, FALSE, "register")
  \cup On("register", Do, TRUE, "retry")
  \cup On("retry", {"token"}, FALSE, "authorized") \cup On("retry", {"no token"}, FALSE, "done")
  \cup Loop("authorized", "create")
  \cup On("create", Do, TRUE, "users") \cup On("users", Do, TRUE, "roles")
  \cup On("roles", Do, TRUE, "authorized")

Steps == [warmup |-> WarmupSteps, health |-> HealthSteps, mixed |-> MixedSteps, admin |-> AdminSteps]
First == [warmup |-> "loop", health |-> "loop", mixed |-> "loop", admin |-> "token"]
Heads == {"loop", "authorized"}

-----------------------------------------------------------------------------
Init ==
  /\ stage = 1 /\ stopped = FALSE /\ wg = 0
  /\ pc = [g \in Goroutines |-> "new"]
  /\ late = {} /\ over = [g \in Goroutines |-> 0]
  /\ metrics = [s \in Scenarios |-> 0] /\ summary = [s \in Scenarios |-> -1]

Running(s) == stage \in DOMAIN Order /\ Order[stage] = s
AllStarted(s) == \A w \in Workers : pc[<<s, w>>] # "new"

\* Answers after the deadline are told apart up to one more than a round has.
Rounds == [warmup |-> 1, health |-> 1, mixed |-> 5, admin |-> 3]
UpTo(max, n) == IF n < max THEN n ELSE max

\* Mutant: without wg.Add.
SpawnUncounted(s, w) ==
  /\ Running(s) /\ pc[<<s, w>>] = "new"
  /\ pc' = [pc EXCEPT ![<<s, w>>] = First[s]]
  /\ UNCHANGED <<stage, stopped, wg, late, over, metrics, summary>>

\* wg.Add(1), then go.
Spawn(s, w) ==
  /\ Running(s) /\ pc[<<s, w>>] = "new"
  /\ wg' = wg + 1 /\ pc' = [pc EXCEPT ![<<s, w>>] = First[s]]
  /\ UNCHANGED <<stage, stopped, late, over, metrics, summary>>

\* warmup has slept through its duration, and closes stop.
Stop ==
  /\ Running("warmup") /\ AllStarted("warmup") /\ ~stopped
  /\ stopped' = TRUE
  /\ UNCHANGED <<stage, wg, pc, late, over, metrics, summary>>

\* The time of a worker is up; that of adminWorker runs from when it has a token.
Deadline(s, w) ==
  /\ pc[<<s, w>>] \notin {"new", "done"} /\ <<s, w>> \notin late
  /\ s = "admin" => pc[<<s, w>>] \notin {"token", "register", "retry"}
  /\ late' = late \cup {<<s, w>>}
  /\ UNCHANGED <<stage, stopped, wg, pc, over, metrics, summary>>

\* A worker goes on, and returns with the deferred wg.Done.
GoTo(s, w, next) ==
  /\ pc' = [pc EXCEPT ![<<s, w>>] = next]
  /\ wg' = IF next = "done" THEN wg - 1 ELSE wg

\* The head of a loop: time.Since(start) >= Duration, or in warmup a closed stop.
Check(s, w) ==
  LET expired == <<s, w>> \in late \/ (s = "warmup" /\ stopped) IN
  /\ pc[<<s, w>>] \in Heads
  /\ \E step \in Steps[s] :
       /\ step.at = pc[<<s, w>>] /\ step.answer = (IF expired THEN "late" ELSE "in time")
       /\ GoTo(s, w, step.next)
       /\ IF step.next = "done"
          THEN late' = late \ {<<s, w>>} /\ over' = [over EXCEPT ![<<s, w>>] = 0]
          ELSE UNCHANGED <<late, over>>
  /\ UNCHANGED <<stage, stopped, metrics, summary>>

Record(s) == metrics' = [metrics EXCEPT ![s] = UpTo(MaxCount, @ + 1)]

Answer(s, w) ==
  /\ \E step \in Steps[s] :
       /\ step.at = pc[<<s, w>>] /\ step.at \notin Heads
       /\ IF step.recorded THEN Record(s) ELSE UNCHANGED metrics
       /\ GoTo(s, w, step.next)
  /\ over' = IF <<s, w>> \in late THEN [over EXCEPT ![<<s, w>>] = UpTo(Rounds[s] + 1, @ + 1)] ELSE over
  /\ UNCHANGED <<stage, stopped, late, summary>>

\* Mutant: warmup does not wait for its workers.
SnapshotAfterStop(s) ==
  /\ Running(s) /\ AllStarted(s)
  /\ IF s = "warmup" THEN stopped ELSE wg = 0
  /\ summary' = [summary EXCEPT ![s] = metrics[s]] /\ stage' = stage + 1
  /\ UNCHANGED <<stopped, wg, pc, late, over, metrics>>

\* wg.Wait has returned: the summary is taken and printed, and main goes on.
Snapshot(s) ==
  /\ Running(s) /\ AllStarted(s) /\ wg = 0
  /\ s = "warmup" => stopped
  /\ summary' = [summary EXCEPT ![s] = metrics[s]] /\ stage' = stage + 1
  /\ UNCHANGED <<stopped, wg, pc, late, over, metrics>>

Next ==
  \/ Stop
  \/ \E s \in Scenarios : Snapshot(s)
  \/ \E s \in Scenarios, w \in Workers :
       Spawn(s, w) \/ Deadline(s, w) \/ Check(s, w) \/ Answer(s, w)

\* Goroutines run on, time passes, and http.Client.Timeout ends every request.
Fairness ==
  /\ WF_vars(Stop) /\ \A s \in Scenarios : WF_vars(Snapshot(s))
  /\ \A s \in Scenarios, w \in Workers :
       WF_vars(Spawn(s, w)) /\ WF_vars(Deadline(s, w)) /\ WF_vars(Check(s, w)) /\ WF_vars(Answer(s, w))

Spec == Init /\ [][Next]_vars
FairSpec == Spec /\ Fairness
-----------------------------------------------------------------------------
(* Properties.                                                              *)

PCs == Heads \cup {"new", "done", "call", "login", "register", "token", "session", "refresh",
                   "retry", "create", "users", "roles"}

\* The WaitGroup counts workers: below zero Done panics.
TypeOK ==
  /\ stage \in 1..(Len(Order) + 1) /\ stopped \in BOOLEAN
  /\ wg \in 0..Cardinality(Workers)
  /\ pc \in [Goroutines -> PCs] /\ late \subseteq Goroutines
  /\ over \in [Goroutines -> Nat]
  /\ metrics \in [Scenarios -> 0..MaxCount] /\ summary \in [Scenarios -> -1..MaxCount]

\* A summary is taken when all workers of its scenario have run and returned, so that
\* nothing is recorded after it: Snapshot hands out the map of status codes without a
\* copy, and printSummary reads it without the lock.
SummaryIsFinal ==
  \A s \in Scenarios : summary[s] # -1 =>
    summary[s] = metrics[s] /\ \A w \in Workers : pc[<<s, w>>] = "done"

\* After its time is up a worker gets one answer at most in warmup and healthWorker,
\* three in adminWorker and five in mixedWorker, where one round logs in twice, calls,
\* and logs in for a refresh; each can take the 30 s of the client's timeout.
OverrunBound == \A s \in Scenarios, w \in Workers : over[<<s, w>>] <= Rounds[s]

\* Whatever the server answers, or if it never does, the load test comes to its end.
LoadTestEnds == <>(stage > Len(Order))
=============================================================================
