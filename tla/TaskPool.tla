------------------------------ MODULE TaskPool ------------------------------
(***************************************************************************)
(* What a worker pool (internal/shared/utils/worker.go) promises its users, *)
(* whatever it is built from: a task that is accepted runs at most once, at  *)
(* most Limit tasks run at a time and at most Room wait, and once the pool   *)
(* has stopped nothing runs any more.  Each task can be submitted again      *)
(* when its previous submission has run.                                     *)
(***************************************************************************)
EXTENDS Naturals, FiniteSets

CONSTANTS Tasks, Limit, Room

VARIABLES
  waiting,  \* tasks accepted and not yet given to a worker
  running,  \* tasks given to a worker
  closed,   \* Shutdown was called
  stopped   \* Shutdown returned

vars == <<waiting, running, closed, stopped>>

Init == waiting = {} /\ running = {} /\ closed = FALSE /\ stopped = FALSE

\* A task is put aside, or given to a worker at once.
Accept(t) ==
  /\ t \notin waiting \cup running
  /\ \/ /\ Cardinality(waiting) < Room
        /\ waiting' = waiting \cup {t} /\ UNCHANGED running
     \/ /\ ~stopped /\ Cardinality(running) < Limit
        /\ running' = running \cup {t} /\ UNCHANGED waiting
  /\ UNCHANGED <<closed, stopped>>

Begin(t) ==
  /\ t \in waiting /\ ~stopped /\ Cardinality(running) < Limit
  /\ waiting' = waiting \ {t} /\ running' = running \cup {t}
  /\ UNCHANGED <<closed, stopped>>

End(t) ==
  /\ t \in running
  /\ running' = running \ {t}
  /\ UNCHANGED <<waiting, closed, stopped>>

Close == ~closed /\ closed' = TRUE /\ UNCHANGED <<waiting, running, stopped>>

\* Shutdown waits for the tasks that are running, not for those that wait.
Stop ==
  /\ closed /\ ~stopped /\ running = {}
  /\ stopped' = TRUE
  /\ UNCHANGED <<waiting, running, closed>>

Next == (\E t \in Tasks : Accept(t) \/ Begin(t) \/ End(t)) \/ Close \/ Stop

Spec == Init /\ [][Next]_vars
=============================================================================
