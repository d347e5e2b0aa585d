---------------------------- MODULE RateLimiter ----------------------------
(***************************************************************************)
(* The request limiter of internal/middleware/rate_limiter.go, for one key  *)
(* rate_limit:<ip>:<device> (different keys do not meet).  A request reads   *)
(* the counter with GET and, if it is below maxReqs, increments it and       *)
(* renews its TTL in one MULTI transaction; the requests of a client         *)
(* interleave between the two.  Time is discrete, and nothing is assumed of  *)
(* how long a request takes.                                                 *)
(***************************************************************************)
EXTENDS Naturals, FiniteSets

CONSTANTS
  Callers,    \* concurrent requests of the client
  MaxReqs,    \* RATE_LIMIT_REQUESTS
  Duration,   \* RATE_LIMIT_DURATION_SECONDS
  MaxErrors   \* bound on failed commands

ASSUME CallersAssumption == IsFiniteSet(Callers)
ASSUME LimitAssumption ==
  MaxReqs \in Nat \ {0} /\ Duration \in Nat \ {0} /\ MaxErrors \in Nat

VARIABLES
  count,   \* the counter; 0 when the key is absent
  ttl,     \* its time to live; 0 when it has none
  pc,      \* what each request is doing
  recent,  \* history: the increments of the last Duration ticks, <<count, age>>
  errors

limiterVars == <<count, ttl, pc, recent, errors>>

Is(h, l) == pc[h] = l
Enter(h, l) == pc' = [pc EXCEPT ![h] = l]
Failure == errors < MaxErrors /\ errors' = errors + 1

LimiterInit ==
  /\ count = 0 /\ ttl = 0
  /\ pc = [h \in Callers |-> "idle"]
  /\ recent = {} /\ errors = 0

-----------------------------------------------------------------------------
Begin(h) ==
  /\ Is(h, "idle") /\ Enter(h, "get")
  /\ UNCHANGED <<count, ttl, recent, errors>>

\* Mutant: a request is counted before the limit is looked at.
CountFirst(h) ==
  /\ Is(h, "get")
  /\ count' = IF count < MaxReqs THEN count + 1 ELSE count
  /\ ttl' = Duration /\ recent' = recent \cup {<<count', 0>>}
  /\ Enter(h, "idle")
  /\ UNCHANGED errors

\* GET; an absent key reads as 0.  At the limit the answer is 429, on any
\* other error than redis.Nil it is 500.
Get(h) ==
  /\ Is(h, "get")
  /\ \/ count >= MaxReqs /\ Enter(h, "idle") /\ UNCHANGED errors
     \/ count < MaxReqs /\ Enter(h, "incr") /\ UNCHANGED errors
     \/ Failure /\ Enter(h, "idle")
  /\ UNCHANGED <<count, ttl, recent>>

\* Mutants of the transaction: EXPIRE only for a new key, as for a fixed
\* window; an INCR that can happen without its EXPIRE.
CountFixed ==
  /\ count' = count + 1 /\ ttl' = IF count = 0 THEN Duration ELSE ttl
  /\ recent' = recent \cup {<<count + 1, 0>>}
CountSplit ==
  /\ count' = count + 1 /\ (ttl' = Duration \/ ttl' = ttl)
  /\ recent' = recent \cup {<<count + 1, 0>>}

\* MULTI; INCR; EXPIRE; EXEC.
Count ==
  /\ count' = count + 1 /\ ttl' = Duration
  /\ recent' = recent \cup {<<count + 1, 0>>}

\* The transaction of a request that found the counter below the limit; when it
\* fails (executed by Redis or not) the answer is 500.
IncrExpire(h) ==
  /\ Is(h, "incr")
  /\ Enter(h, "idle")
  /\ \/ Count /\ UNCHANGED errors
     \/ Count /\ Failure
     \/ Failure /\ UNCHANGED <<count, ttl, recent>>

\* Time passes: the key goes when its TTL runs out.
LimiterTick ==
  /\ ttl' = IF ttl > 0 THEN ttl - 1 ELSE 0
  /\ count' = IF ttl = 1 THEN 0 ELSE count
  /\ recent' = {<<e[1], e[2] + 1>> : e \in {d \in recent : d[2] + 1 < Duration}}
  /\ UNCHANGED <<pc, errors>>

LimiterNext ==
  \/ \E h \in Callers : Begin(h) \/ Get(h) \/ IncrExpire(h)
  \/ LimiterTick

LimiterSpec == LimiterInit /\ [][LimiterNext]_limiterVars

\* Time goes on, and so does a request that has arrived.
LimiterFairSpec ==
  /\ LimiterSpec /\ WF_limiterVars(LimiterTick)
  /\ \A h \in Callers : WF_limiterVars(Get(h) \/ IncrExpire(h))

-----------------------------------------------------------------------------
LimiterTypeOK ==
  /\ count \in Nat /\ ttl \in 0..Duration
  /\ pc \in [Callers -> {"idle", "get", "incr"}]
  /\ recent \subseteq (Nat \ {0}) \X (0..Duration - 1)
  /\ errors \in 0..MaxErrors

\* GET and INCR are separate, so requests that read the counter together can
\* all pass; but in any Duration consecutive ticks, wherever they start, no more
\* than one request per caller gets past the limit, because every counted
\* request renews the TTL and the counter only goes after a silent window.
WindowBound == Cardinality(recent) < MaxReqs + Cardinality(Callers)

\* A client that has not been counted for a whole window starts afresh: no
\* failure leaves a counter behind that never expires.
SilentClientPasses == recent = {} => count = 0

\* A client that is over the limit is let through again, even if it keeps
\* sending requests: rejected requests do not renew the TTL.
LimitEnds == count >= MaxReqs ~> count < MaxReqs

=============================================================================
