------------------------------ MODULE Throttle ------------------------------
(***************************************************************************)
(* The in-memory throttle of internal/middleware/throttler.go, for one key  *)
(* <ip>:<device> of the map clients (different keys do not meet): a token   *)
(* bucket made on demand, and the goroutine that removes it when the client *)
(* is idle.  A request uses the bucket it has loaded, be it still in the    *)
(* map or not.  Time is in seconds, as lastSeen is.                         *)
(*                                                                         *)
(* lastSeen is written without synchronisation, from a clock read before: a *)
(* slow request can set it back.  The code does not bound how long such a   *)
(* write takes; MaxLag stands for it.                                       *)
(***************************************************************************)
EXTENDS Naturals, FiniteSets

CONSTANTS
  Handlers,   \* concurrent requests of the client
  Buckets,    \* the limiters there can be at a time
  NoBucket,
  Burst,      \* THROTTLE_BURST
  Rate,       \* THROTTLE_RATE, tokens per second
  IdleLimit,  \* 600
  MaxLag      \* the longest time from reading the clock to storing lastSeen

ASSUME HandlersAssumption == IsFiniteSet(Handlers)
ASSUME BucketsAssumption == NoBucket \notin Buckets
ASSUME NumbersAssumption ==
  /\ Burst \in Nat /\ Rate \in Nat /\ IdleLimit \in Nat /\ MaxLag \in Nat
  /\ MaxLag <= IdleLimit

VARIABLES
  entry,   \* the bucket in the map, or NoBucket
  tokens,  \* of each bucket
  idle,    \* the seconds since its lastSeen, at most IdleLimit + 1
  pc,      \* what each handler is about to do
  using,   \* the bucket it has loaded, or NoBucket
  doomed,  \* the cleanup has found the entry idle and will delete it
  watch    \* history: what happened since some moment, Span seconds ago at most

vars == <<entry, tokens, idle, pc, using, doomed, watch>>

At(h, l) == pc[h] = l
Goto(h, l) == pc' = [pc EXCEPT ![h] = l]
Referred == {entry} \cup {using[h] : h \in Handlers}
\* The longest period PassBound speaks of.
Span == IdleLimit - MaxLag
Fresh == [time |-> 0, passed |-> 0, replaced |-> FALSE]

Init ==
  /\ entry = NoBucket /\ doomed = FALSE
  /\ tokens = [b \in Buckets |-> Burst] /\ idle = [b \in Buckets |-> 0]
  /\ pc = [h \in Handlers |-> "load"]
  /\ using = [h \in Handlers |-> NoBucket]
  /\ watch = Fresh

-----------------------------------------------------------------------------
\* A new limiter is full.
NewLimiter(b) ==
  /\ b \notin Referred
  /\ entry' = b
  /\ tokens' = [tokens EXCEPT ![b] = Burst]
  /\ \E lag \in 0..MaxLag : idle' = [idle EXCEPT ![b] = lag]

\* Mutant: Store for LoadOrStore.
StoreAlways(h) ==
  /\ At(h, "load") /\ Goto(h, "touch")
  /\ \E b \in Buckets : NewLimiter(b) /\ using' = [using EXCEPT ![h] = b]
  /\ UNCHANGED <<doomed, watch>>

\* clients.LoadOrStore is atomic.
LoadOrStore(h) ==
  /\ At(h, "load") /\ Goto(h, "touch")
  /\ \/ /\ entry # NoBucket /\ using' = [using EXCEPT ![h] = entry]
        /\ UNCHANGED <<entry, tokens, idle>>
     \/ /\ entry = NoBucket
        /\ \E b \in Buckets : NewLimiter(b) /\ using' = [using EXCEPT ![h] = b]
  /\ UNCHANGED <<doomed, watch>>

\* entry.lastSeen = time.Now().Unix(), which nothing orders with the cleanup or with
\* other requests.
Touch(h) ==
  /\ At(h, "touch") /\ Goto(h, "allow")
  /\ \E lag \in 0..MaxLag : idle' = [idle EXCEPT ![using[h]] = lag]
  /\ UNCHANGED <<entry, tokens, using, doomed, watch>>

\* limiter.Allow(): the request goes on, or is answered 429.
Allow(h) ==
  LET b == using[h] IN
  /\ At(h, "allow") /\ Goto(h, "load")
  /\ using' = [using EXCEPT ![h] = NoBucket]
  /\ \/ /\ tokens[b] > 0
        /\ tokens' = [tokens EXCEPT ![b] = @ - 1]
        /\ watch' = [watch EXCEPT !.passed = @ + 1]
     \/ tokens[b] = 0 /\ UNCHANGED <<tokens, watch>>
  /\ UNCHANGED <<entry, idle, doomed>>

\* The cleanup, once a minute: it reads the clock and lastSeen, here at any time
\* and at once (a request in between only makes it find the entry less idle).
FindIdle ==
  /\ ~doomed /\ entry # NoBucket /\ idle[entry] > IdleLimit
  /\ doomed' = TRUE
  /\ UNCHANGED <<entry, tokens, idle, pc, using, watch>>

\* clients.Delete, whatever has happened to the entry since.
Delete ==
  /\ doomed /\ doomed' = FALSE
  /\ entry' = NoBucket
  /\ watch' = [watch EXCEPT !.replaced = TRUE]
  /\ UNCHANGED <<tokens, idle, pc, using>>

\* What Allow finds a second later (it adds the elapsed time's tokens lazily).
Refill(n) == IF n + Rate > Burst THEN Burst ELSE n + Rate

Tick ==
  /\ tokens' = [b \in Buckets |-> Refill(tokens[b])]
  /\ idle' = [b \in Buckets |-> IF idle[b] > IdleLimit THEN idle[b] ELSE idle[b] + 1]
  /\ watch' = IF watch.time < Span THEN [watch EXCEPT !.time = @ + 1] ELSE Fresh
  /\ UNCHANGED <<entry, pc, using, doomed>>

\* The history may begin at any moment.
Watch ==
  /\ watch' = Fresh
  /\ UNCHANGED <<entry, tokens, idle, pc, using, doomed>>

Next ==
  \/ \E h \in Handlers : LoadOrStore(h) \/ Touch(h) \/ Allow(h)
  \/ FindIdle \/ Delete \/ Tick \/ Watch

Spec == Init /\ [][Next]_vars

-----------------------------------------------------------------------------
TypeOK ==
  /\ entry \in Buckets \cup {NoBucket} /\ doomed \in BOOLEAN
  /\ tokens \in [Buckets -> 0..Burst] /\ idle \in [Buckets -> 0..IdleLimit + 1]
  /\ pc \in [Handlers -> {"load", "touch", "allow"}]
  /\ using \in [Handlers -> Buckets \cup {NoBucket}]
  /\ watch \in [time : 0..Span, passed : Nat, replaced : BOOLEAN]

\* In any period of up to Span seconds the throttle lets through no more than
\* the bucket holds and is refilled with, and one more for each request that still
\* uses a bucket the cleanup had removed.  If the cleanup removes the bucket within
\* the period, which it does at most once although it deletes without looking again,
\* a second full bucket can be had.
Allowance ==
  Burst + Rate * watch.time + Cardinality(Handlers)
  + (IF watch.replaced THEN Burst + Cardinality(Handlers) ELSE 0)
PassBound == watch.passed <= Allowance
=============================================================================
