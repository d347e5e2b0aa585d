----------------------------- MODULE AuditTrail -----------------------------
(***************************************************************************)
(* The audit records of ActivityLogger (internal/middleware/logger.go) from *)
(* the request to the table activity_logs, and the end of the process that  *)
(* writes them (cmd/api/main.go).  A request whose handler has returned     *)
(* submits its INSERT to the worker pool; main waits for the requests in    *)
(* progress, not for the pool.                                              *)
(*                                                                         *)
(* Requests that Throttle or RateLimiter refuse do not reach ActivityLogger *)
(* and are left out.  main never calls the pool's Shutdown; it stays a step *)
(* here, so that what holds does not depend on it.                          *)
(***************************************************************************)
EXTENDS WorkerPool

VARIABLES
  process,  \* main: "serving", "draining", "closing", "exited" or "aborted"
  request,  \* what the connection of each task is doing
  record,   \* what has become of the record of its last request
  conns     \* workers whose INSERT holds a connection of pgxpool

trailVars == <<process, request, record, conns>>
auditVars == <<vars, trailVars>>

Lives == process \notin {"exited", "aborted"}
Pending(w) == task[w] # NoTask /\ record[task[w]] = "pending"

AuditInit ==
  /\ Init /\ process = "serving" /\ conns = {}
  /\ request = [t \in Tasks |-> "idle"] /\ record = [t \in Tasks |-> "none"]

-----------------------------------------------------------------------------
(* The server.                                                              *)

\* A connection is accepted, or a kept-alive one brings its next request.
Arrive(t) ==
  /\ process = "serving" /\ request[t] = "idle" /\ t \notin Queued \cup Held
  /\ request' = [request EXCEPT ![t] = "accepted"]
  /\ record' = [record EXCEPT ![t] = "none"]
  /\ UNCHANGED <<vars, process, conns>>

\* srv.Shutdown closes the listener; a connection accepted before may still
\* bring a request.
Handle(t) ==
  /\ process \in {"serving", "draining"} /\ request[t] = "accepted"
  /\ request' = [request EXCEPT ![t] = "handling"]
  /\ UNCHANGED <<vars, process, record, conns>>

\* The client hangs up, or sends nothing in time.
HangUp(t) ==
  /\ process \in {"serving", "draining"} /\ request[t] = "accepted"
  /\ request' = [request EXCEPT ![t] = "idle"]
  /\ UNCHANGED <<vars, process, record, conns>>

\* A handler panics: ActivityLogger has deferred nothing, the router has no
\* gin.Recovery, and net/http closes the connection.  The request ends unrecorded.
Panic(t) ==
  /\ process \in {"serving", "draining"} /\ request[t] = "handling"
  /\ request' = [request EXCEPT ![t] = "idle"]
  /\ UNCHANGED <<vars, process, record, conns>>

\* Mutant: the request ends before its record is submitted, which is left to a
\* goroutine of its own.
LogForgotten(t) ==
  /\ process \in {"serving", "draining"} /\ request[t] = "handling"
  /\ request' = [request EXCEPT ![t] = "idle"]
  /\ record' = [record EXCEPT ![t] = "pending"]
  /\ UNCHANGED <<vars, process, conns>>

\* c.Next() has returned: the record is submitted, and the reply ends.
Log(t) ==
  /\ process \in {"serving", "draining"} /\ request[t] = "handling"
  /\ Submit(t)
  /\ request' = [request EXCEPT ![t] = "idle"]
  /\ record' = [record EXCEPT ![t] =
       IF t \in Queued' \cup Held' THEN "pending" ELSE "dropped"]
  /\ UNCHANGED <<process, conns>>

-----------------------------------------------------------------------------
(* The worker's task: db.Exec with context.Background().                    *)

\* Steps of the pool that do not touch a record.
PoolStep ==
  /\ Lives /\ UNCHANGED trailVars
  /\ (\E w \in Workers : Receive(w) \/ Exit(w) \/ Park(w)) \/ Shutdown \/ Wait

\* A closed pool refuses.
Acquire(w) ==
  /\ process \in {"serving", "draining"} /\ At(w, "run") /\ w \notin conns
  /\ conns' = conns \cup {w}
  /\ UNCHANGED <<vars, process, request, record>>

\* PostgreSQL commits the INSERT, which an exit of the process does not prevent
\* once it has been sent.
Store(w) ==
  /\ w \in conns /\ Pending(w)
  /\ record' = [record EXCEPT ![task[w]] = "stored"]
  /\ UNCHANGED <<vars, process, request, conns>>

\* db.Exec returns: the INSERT is done, was refused, or its answer is lost; or
\* there was no connection to be had.  An error is logged.
Return(w) ==
  /\ Lives /\ Finish(w)
  /\ conns' = conns \ {w}
  /\ record' = IF Pending(w) THEN [record EXCEPT ![task[w]] = "failed"] ELSE record
  /\ UNCHANGED <<process, request>>

-----------------------------------------------------------------------------
(* main.                                                                    *)

\* <-quit; later signals stay in the channel.
Signal ==
  /\ process = "serving" /\ process' = "draining"
  /\ UNCHANGED <<vars, request, record, conns>>

\* Mutant: when srv.Shutdown times out, main returns like after a success.
DrainedAnyway ==
  /\ process = "draining" /\ process' = "closing"
  /\ UNCHANGED <<vars, request, record, conns>>

\* srv.Shutdown returns nil when no connection is in use; main returns and the
\* deferred calls run, last in, first out: Redis is closed, then db.Close()
\* refuses new connections.
Drained ==
  /\ process = "draining" /\ \A t \in Tasks : request[t] = "idle"
  /\ process' = "closing"
  /\ UNCHANGED <<vars, request, record, conns>>

\* Mutants: main waits for the workers of a pool that nobody has shut down; main
\* does not wait for the connections in use.
ExitedAfterPool ==
  /\ process = "closing" /\ conns = {} /\ \A w \in Workers : At(w, "exited")
  /\ process' = "exited"
  /\ UNCHANGED <<vars, request, record, conns>>
ExitedAtOnce ==
  /\ process = "closing" /\ process' = "exited"
  /\ UNCHANGED <<vars, request, record, conns>>

\* db.Close() returns when all connections are back, and the process ends.
Exited ==
  /\ process = "closing" /\ conns = {}
  /\ process' = "exited"
  /\ UNCHANGED <<vars, request, record, conns>>

\* The 30 s of srv.Shutdown are over: logger.Fatal ends the process at once.
TimeOut ==
  /\ process = "draining" /\ process' = "aborted"
  /\ UNCHANGED <<vars, request, record, conns>>

\* The listener fails (logger.Fatal), or the process is killed.
Crash ==
  /\ Lives /\ process' = "aborted"
  /\ UNCHANGED <<vars, request, record, conns>>

AuditNext ==
  \/ \E t \in Tasks : Arrive(t) \/ Handle(t) \/ HangUp(t) \/ Panic(t) \/ Log(t)
  \/ PoolStep
  \/ \E w \in Workers : Acquire(w) \/ Store(w) \/ Return(w)
  \/ Signal \/ Drained \/ Exited \/ TimeOut \/ Crash

AuditSpec == AuditInit /\ [][AuditNext]_auditVars

\* A worker runs on, db.Exec returns, with or without an error, and a select that
\* finds both channels ready again and again does not always pick the same one
\* (it picks uniformly at random, says the Go specification); wg.Wait() returns
\* when it can, the timer of srv.Shutdown fires and main runs on.  Nothing is
\* assumed of clients, signals, crashes or what the database does.
WorkerStep(w) ==
  \/ Return(w)
  \/ Lives /\ (Receive(w) \/ Exit(w) \/ Park(w)) /\ UNCHANGED trailVars
FairAuditSpec ==
  /\ AuditSpec /\ WF_auditVars(TimeOut) /\ WF_auditVars(Exited)
  /\ WF_auditVars(Lives /\ Wait /\ UNCHANGED trailVars)
  /\ \A w \in Workers :
       /\ WF_auditVars(WorkerStep(w))
       /\ SF_auditVars(Lives /\ Exit(w) /\ UNCHANGED trailVars)

-----------------------------------------------------------------------------
(* Properties.                                                              *)

AuditTypeOK ==
  /\ TypeOK
  /\ process \in {"serving", "draining", "closing", "exited", "aborted"}
  /\ request \in [Tasks -> {"idle", "accepted", "handling"}]
  /\ record \in [Tasks -> {"none", "pending", "stored", "failed", "dropped"}]
  /\ conns \subseteq Workers

\* A submitted record that is not settled is in the buffer or with a worker, and
\* what the buffer holds is not settled: ActivityLogger loses no record while the
\* process lives, and inserts none that is stored already.
Accounted ==
  /\ \A t \in Tasks : record[t] = "pending" => t \in Queued \cup Held
  /\ \A t \in Queued : record[t] = "pending" /\ t \notin Held

\* Records nobody will store once the process is gone.
Lost == {t \in Tasks : record[t] = "pending"}

\* A graceful exit (main.go:92) does not cut an INSERT that has its connection;
\* it loses what waits in the pool: BufferSize records, and one for each worker,
\* at most.
ExitLoss ==
  process = "exited" =>
    /\ \A t \in Lost : t \in Queued \/ \E w \in Workers \ conns : task[w] = t
    /\ Cardinality(Lost) <= BufferSize + Cardinality(Workers)

\* No handler meets a closed database: main closes it only when srv.Shutdown has
\* seen every request end.
HandlersHaveDb ==
  process \in {"closing", "exited"} => \A t \in Tasks : request[t] # "handling"

\* A record is dropped (the default case of Submit) only while BufferSize others
\* wait in the buffer; those that workers are running do not count.
DropsAreBacklog ==
  [][\A t \in Tasks : record'[t] = "dropped" /\ record[t] # "dropped" =>
       Cardinality(Lost \cap Queued) >= BufferSize]_auditVars

\* Every submitted record is settled, unless the process ends or the pool is shut
\* down first.
RecordsSettle ==
  \A t \in Tasks : record[t] = "pending" ~> record[t] # "pending" \/ closed \/ ~Lives

\* A caller of the pool's Shutdown is not kept waiting by records that keep coming.
ShutdownReturns == caller = "wait" ~> caller = "returned" \/ ~Lives

\* A signal ends the process: neither a handler nor a backlog of records holds
\* it up for ever.
DrainEnds == process = "draining" ~> ~Lives
=============================================================================
