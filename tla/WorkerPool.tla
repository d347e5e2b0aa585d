----------------------------- MODULE WorkerPool -----------------------------
(***************************************************************************)
(* The worker pool of internal/shared/utils/worker.go: numWorkers           *)
(* goroutines in a select on the buffered channel tasks and on the channel  *)
(* closed.  A worker that finds neither ready parks, and a send hands its   *)
(* task to a parked worker directly (Go's channels buffer a value only when *)
(* no receiver waits), so one action here is one channel operation.         *)
(*                                                                         *)
(* The pool's only user is ActivityLogger (internal/middleware/logger.go):  *)
(* each request, once handled, submits one task that INSERTs its audit      *)
(* record.  A member of Tasks is such a request; it is used again for a     *)
(* later request of the same connection.                                    *)
(***************************************************************************)
EXTENDS Naturals, Sequences, FiniteSets

CONSTANTS
  Tasks,       \* requests in progress; bounds the tasks alive at a time
  Workers,     \* NewWorkerPool(10, ...)
  BufferSize,  \* NewWorkerPool(..., 1000)
  NoTask

ASSUME TasksAssumption == IsFiniteSet(Tasks) /\ NoTask \notin Tasks
ASSUME WorkersAssumption == IsFiniteSet(Workers) /\ Workers # {}
ASSUME BufferSizeAssumption == BufferSize \in Nat

VARIABLES
  tasks,    \* the buffer of the channel
  closed,   \* whether the channel closed has been closed
  worker,   \* where each worker is
  task,     \* the task a worker has received
  caller    \* the goroutine that calls Shutdown: "none", "wait" or "returned"

vars == <<tasks, closed, worker, task, caller>>

At(w, l) == worker[w] = l
Parked == {w \in Workers : At(w, "parked")}
Queued == {tasks[i] : i \in DOMAIN tasks}
Held == {task[w] : w \in Workers} \ {NoTask}
\* Mutant: the channel has no buffer.
FullUnbuffered == TRUE
Full == Len(tasks) = BufferSize

\* NewWorkerPool: every goroutine is about to enter the select.
Init ==
  /\ tasks = <<>> /\ closed = FALSE
  /\ worker = [w \in Workers |-> "select"]
  /\ task = [w \in Workers |-> NoTask]
  /\ caller = "none"

-----------------------------------------------------------------------------
\* Mutant: the task is buffered whatever the buffer holds.
SubmitUnbounded(t) ==
  /\ t \notin Queued \cup Held
  /\ tasks' = Append(tasks, t)
  /\ UNCHANGED <<closed, worker, task, caller>>

\* Submit never blocks: a parked worker takes the task, else the buffer does,
\* else it is dropped.  It does not look at closed.
Submit(t) ==
  /\ t \notin Queued \cup Held
  /\ \/ /\ \E w \in Parked :
             /\ worker' = [worker EXCEPT ![w] = "run"]
             /\ task' = [task EXCEPT ![w] = t]
        /\ UNCHANGED tasks
     \/ /\ Parked = {} /\ ~Full
        /\ tasks' = Append(tasks, t) /\ UNCHANGED <<worker, task>>
     \/ /\ Parked = {} /\ Full
        /\ UNCHANGED <<tasks, worker, task>>
  /\ UNCHANGED <<closed, caller>>

\* The select finds the channel tasks ready.
Receive(w) ==
  /\ At(w, "select") /\ tasks # <<>>
  /\ task' = [task EXCEPT ![w] = Head(tasks)]
  /\ tasks' = Tail(tasks)
  /\ worker' = [worker EXCEPT ![w] = "run"]
  /\ UNCHANGED <<closed, caller>>

\* The select finds the channel closed ready; when both are, it picks either.
Exit(w) ==
  /\ At(w, "select") /\ closed
  /\ worker' = [worker EXCEPT ![w] = "exited"]
  /\ UNCHANGED <<tasks, closed, task, caller>>

\* The select finds neither ready.
Park(w) ==
  /\ At(w, "select") /\ tasks = <<>> /\ ~closed
  /\ worker' = [worker EXCEPT ![w] = "parked"]
  /\ UNCHANGED <<tasks, closed, task, caller>>

\* Mutant: the loop is missing, a worker runs one task.
FinishOnce(w) ==
  /\ At(w, "run")
  /\ task' = [task EXCEPT ![w] = NoTask]
  /\ worker' = [worker EXCEPT ![w] = "exited"]
  /\ UNCHANGED <<tasks, closed, caller>>

\* task() returns and the loop goes round.
Finish(w) ==
  /\ At(w, "run")
  /\ task' = [task EXCEPT ![w] = NoTask]
  /\ worker' = [worker EXCEPT ![w] = "select"]
  /\ UNCHANGED <<tasks, closed, caller>>

-----------------------------------------------------------------------------
\* Mutant: closed is a flag instead of a channel, which wakes no parked worker.
ShutdownSilently ==
  /\ caller = "none"
  /\ closed' = TRUE /\ caller' = "wait"
  /\ UNCHANGED <<tasks, worker, task>>

\* Shutdown: close(closed), which wakes the parked workers through their closed
\* case.  A second call would panic; the one caller makes one call.
Shutdown ==
  /\ caller = "none"
  /\ closed' = TRUE /\ caller' = "wait"
  /\ worker' = [w \in Workers |-> IF At(w, "parked") THEN "exited" ELSE worker[w]]
  /\ UNCHANGED <<tasks, task>>

\* Mutant: Shutdown returns without waiting for the workers.
WaitNot ==
  /\ caller = "wait"
  /\ caller' = "returned"
  /\ UNCHANGED <<tasks, closed, worker, task>>

\* wg.Wait() returns when every worker has called wg.Done().
Wait ==
  /\ caller = "wait" /\ \A w \in Workers : At(w, "exited")
  /\ caller' = "returned"
  /\ UNCHANGED <<tasks, closed, worker, task>>

Next ==
  \/ \E t \in Tasks : Submit(t)
  \/ \E w \in Workers : Receive(w) \/ Exit(w) \/ Park(w) \/ Finish(w)
  \/ Shutdown \/ Wait

Spec == Init /\ [][Next]_vars

-----------------------------------------------------------------------------
(* Properties.                                                              *)

TypeOK ==
  /\ tasks \in Seq(Tasks) /\ Len(tasks) <= BufferSize
  /\ closed \in BOOLEAN
  /\ worker \in [Workers -> {"select", "parked", "run", "exited"}]
  /\ task \in [Workers -> Tasks \cup {NoTask}]
  /\ caller \in {"none", "wait", "returned"}

\* A worker sleeps only while there is nothing to do and the pool is open: no
\* interleaving of Submit, Shutdown and the select loses a wake-up.
NoLostWakeup == Parked # {} => tasks = <<>> /\ ~closed

\* A submitted task is in one place at most: it is never run by two workers,
\* nor run and still waiting.
OnePlace ==
  /\ \A v, w \in Workers : task[v] = task[w] /\ task[v] # NoTask => v = w
  /\ \A i, j \in DOMAIN tasks : tasks[i] = tasks[j] => i = j
  /\ Held \cap Queued = {}

\* The pool does what TaskPool says.
Abstract == INSTANCE TaskPool WITH
  Limit <- Cardinality(Workers), Room <- BufferSize,
  waiting <- Queued, running <- Held, stopped <- caller = "returned"
Implements == Abstract!Spec
=============================================================================
