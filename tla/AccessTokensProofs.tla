------------------------- MODULE AccessTokensProofs -------------------------
(***************************************************************************)
(* Proofs about AccessTokens, for any number of tokens and requests and any *)
(* lifetimes.  Inv bounds every expiry in the cache by the time at which    *)
(* the request that made the entry arrived, and that time by the token's    *)
(* exp claim and by its revocation.                                         *)
(***************************************************************************)
EXTENDS AccessTokens, FiniteSetTheorems, TLAPS

\* Whatever is in the cache, in Redis or in a request is an issued token.
OnlyIssued ==
  /\ cached \subseteq issued /\ blacklist \subseteq issued
  /\ \A h \in Handlers : ~At(h, "idle") => req[h].tok \in issued

\* A request in progress is at most MaxLag old; past Verify, its token was
\* valid when it arrived.
Timely ==
  \A h \in Handlers : ~At(h, "idle") =>
    /\ req[h].start <= now /\ now <= req[h].start + MaxLag
    /\ req[h].pc \in {"check", "put"} => req[h].start < exp[req[h].tok] + Leeway

\* A cache entry ends within CacheTTL of now and was made in time.
EntriesBounded ==
  \A t \in cached :
    /\ cacheUntil[t] <= now + CacheTTL
    /\ cacheUntil[t] < exp[t] + Leeway + MaxLag + CacheTTL

\* Before its exp, a revoked token is in the cache, or past the blacklist check
\* of a request, only thanks to a request that arrived before the revocation.
RevokedBounded ==
  \A t \in blacklist \ failedOpen : now < exp[t] =>
    /\ t \in cached => cacheUntil[t] <= revokedAt[t] + MaxLag + CacheTTL
    /\ \A h \in Handlers : At(h, "put") /\ req[h].tok = t => req[h].start <= revokedAt[t]

Inv == TypeOK /\ OnlyIssued /\ Timely /\ EntriesBounded /\ RevokedBounded

-----------------------------------------------------------------------------
LEMMA InitInv == Init => Inv
BY TimesAssumption
DEF Init, Inv, TypeOK, OnlyIssued, Timely, EntriesBounded, RevokedBounded,
    Idle, Requests, PCs, At

\* A new token is in no cache, no request and not in Redis.
LEMMA IssueInv ==
  ASSUME Inv, NEW t \in Tokens, Issue(t)
  PROVE  Inv'
<1>1. /\ t \notin issued /\ issued' = issued \cup {t}
      /\ exp' = [exp EXCEPT ![t] = now + AccessTTL]
      /\ UNCHANGED <<now, cached, cacheUntil, blacklist, revokedAt, req, failedOpen, faults>>
  BY DEF Issue, cache, redis, Inv, TypeOK
<1>2. TypeOK' /\ OnlyIssued'
  BY <1>1, TimesAssumption DEF Inv, TypeOK, OnlyIssued, At
<1>3. \A u \in issued : exp'[u] = exp[u]
  BY <1>1 DEF Inv, TypeOK
<1>4. Timely' /\ EntriesBounded' /\ RevokedBounded'
  BY <1>1, <1>3
  DEF Inv, OnlyIssued, Timely, EntriesBounded, RevokedBounded, At
<1>5. QED
  BY <1>2, <1>4 DEF Inv

LEMMA ArriveInv ==
  ASSUME Inv, NEW h \in Handlers, NEW t \in Tokens, NEW logout \in BOOLEAN,
         Arrive(h, t, logout)
  PROVE  Inv'
<1>1. /\ req' = [req EXCEPT ![h] = [pc |-> "get", tok |-> t, logout |-> logout, start |-> now]]
      /\ t \in issued
      /\ UNCHANGED <<now, issued, exp, cached, cacheUntil, blacklist, revokedAt,
                     failedOpen, faults>>
  BY DEF Arrive, cache, redis
<1>2. /\ req'[h].pc = "get" /\ req'[h].tok = t /\ req'[h].start = now
      /\ \A k \in Handlers \ {h} : req'[k] = req[k]
      /\ req' \in [Handlers -> Requests]
  BY <1>1 DEF Inv, TypeOK, Requests, PCs
<1>3. TypeOK' /\ OnlyIssued'
  BY <1>1, <1>2 DEF Inv, TypeOK, OnlyIssued, At
<1>4. Timely'
  BY <1>1, <1>2, TimesAssumption DEF Inv, TypeOK, Timely, At
<1>5. EntriesBounded' /\ RevokedBounded'
  BY <1>1, <1>2 DEF Inv, EntriesBounded, RevokedBounded, At
<1>6. QED
  BY <1>3, <1>4, <1>5 DEF Inv

\* A step of h moves it on with the same token, or ends its request.
Moves(h) ==
  /\ req' \in [Handlers -> Requests]
  /\ \A k \in Handlers \ {h} : req'[k] = req[k]
  /\ req'[h].pc = "idle" \/ (req'[h].tok = req[h].tok /\ req'[h].start = req[h].start)

LEMMA GotoMoves ==
  ASSUME Inv, NEW h \in Handlers, NEW pc \in PCs, Goto(h, pc)
  PROVE  Moves(h) /\ req'[h].pc = pc
BY DEF Inv, TypeOK, Goto, Moves, Requests

LEMMA ReturnMoves ==
  ASSUME Inv, NEW h \in Handlers, Return(h)
  PROVE  Moves(h) /\ req'[h].pc = "idle"
BY DEF Inv, TypeOK, Return, Moves, Requests, Idle, PCs

LEMMA AcceptMoves ==
  ASSUME Inv, NEW h \in Handlers, Accept(h)
  PROVE  Moves(h) /\ req'[h].pc \in {"idle", "revoke"}
BY GotoMoves, ReturnMoves DEF Accept, PCs

LEMMA FaultBounded ==
  ASSUME Inv, Fault
  PROVE  faults' \in 0..MaxFaults
BY TimesAssumption DEF Inv, TypeOK, Fault

\* Steps of h that leave the cache as it is or shrink it, and do not revoke.
LEMMA QuietStepInv ==
  ASSUME Inv, NEW h \in Handlers, Moves(h), ~At(h, "idle"),
         UNCHANGED <<now, issued, exp, cacheUntil, blacklist, revokedAt>>,
         cached' \subseteq cached, faults' \in 0..MaxFaults,
         failedOpen' \subseteq Tokens, failedOpen \subseteq failedOpen',
         req'[h].pc \in {"check", "put"} => req[h].start < exp[req[h].tok] + Leeway,
         req'[h].pc = "put" =>
           req[h].tok \notin blacklist \ failedOpen' \/ now >= exp[req[h].tok]
  PROVE  Inv'
<1>1. TypeOK' /\ OnlyIssued'
  BY DEF Inv, TypeOK, OnlyIssued, Moves, At
<1>2. Timely'
  BY DEF Inv, Timely, Moves, At
<1>3. EntriesBounded'
  BY DEF Inv, EntriesBounded
<1>4. RevokedBounded'
  <2> SUFFICES ASSUME NEW t \in blacklist \ failedOpen', now < exp[t]
               PROVE  /\ t \in cached' => cacheUntil[t] <= revokedAt[t] + MaxLag + CacheTTL
                      /\ \A k \in Handlers : req'[k].pc = "put" /\ req'[k].tok = t
                           => req'[k].start <= revokedAt[t]
    BY DEF RevokedBounded, At
  <2>1. /\ t \in cached => cacheUntil[t] <= revokedAt[t] + MaxLag + CacheTTL
        /\ \A k \in Handlers : req[k].pc = "put" /\ req[k].tok = t
             => req[k].start <= revokedAt[t]
    BY DEF Inv, RevokedBounded, At
  <2>2. ~(req'[h].pc = "put" /\ req'[h].tok = t)
    BY DEF Moves, Inv, TypeOK
  <2>3. QED
    BY <2>1, <2>2 DEF Moves
<1>5. QED
  BY <1>1, <1>2, <1>3, <1>4 DEF Inv

\* The entry a request makes ends within MaxLag + CacheTTL of its arrival.
LEMMA CachePutInv ==
  ASSUME Inv, NEW h \in Handlers, CachePut(h)
  PROVE  Inv'
<1> DEFINE t == req[h].tok
           s == req[h].start
<1>0. req[h].pc = "put"
  BY DEF CachePut, At
<1>1. /\ Moves(h) /\ req'[h].pc \in {"idle", "revoke"}
      /\ UNCHANGED <<now, issued, exp, blacklist, revokedAt, failedOpen, faults>>
  BY AcceptMoves DEF CachePut, redis
<1>2. /\ t \in Tokens /\ t \in issued /\ s \in Nat
      /\ s <= now /\ now <= s + MaxLag /\ s < exp[t] + Leeway
  <2>1. req[h] \in Requests
    BY DEF Inv, TypeOK
  <2>2. req[h].pc = "put"
    BY DEF CachePut, At
  <2>3. QED
    BY <2>1, <2>2 DEF Inv, TypeOK, OnlyIssued, Timely, At, Requests
<1>3. cached' \subseteq cached \cup {t}
  BY DEF CachePut, KeptFor
<1>4. cacheUntil' = [cacheUntil EXCEPT ![t] = now + CacheTTL] /\ now + CacheTTL \in Nat
  BY TimesAssumption DEF CachePut, Inv, TypeOK
<1>5. /\ cacheUntil' \in [Tokens -> Nat] /\ cacheUntil'[t] = now + CacheTTL
      /\ \A u \in Tokens \ {t} : cacheUntil'[u] = cacheUntil[u]
  BY <1>2, <1>4 DEF Inv, TypeOK
<1>6. now \in Nat /\ exp[t] \in Nat /\ revokedAt[t] \in Nat
  BY <1>2 DEF Inv, TypeOK
<1>7. t \in blacklist \ failedOpen /\ now < exp[t] => s <= revokedAt[t]
  BY DEF CachePut, Inv, RevokedBounded, At
<1>8. /\ cached \subseteq Tokens /\ cached \subseteq issued /\ issued \subseteq Tokens
      /\ blacklist \subseteq Tokens
  BY DEF Inv, TypeOK, OnlyIssued
<1> HIDE DEF t, s
<1>9. TypeOK'
  BY <1>1, <1>2, <1>3, <1>5, <1>8 DEF Inv, TypeOK, Moves
<1>10. OnlyIssued'
  BY <1>1, <1>2, <1>3, <1>8, <1>0 DEF Inv, OnlyIssued, Moves, At
<1>11. Timely'
  BY <1>0, <1>1 DEF Inv, Timely, Moves, At
<1>12. EntriesBounded'
  <2> SUFFICES ASSUME NEW u \in cached'
               PROVE  /\ cacheUntil'[u] <= now + CacheTTL
                      /\ cacheUntil'[u] < exp[u] + Leeway + MaxLag + CacheTTL
    BY <1>1 DEF EntriesBounded
  <2>1. CASE u = t
    BY <2>1, <1>2, <1>5, <1>6, TimesAssumption
  <2>2. CASE u # t
    BY <2>2, <1>3, <1>5, <1>8 DEF Inv, EntriesBounded
  <2>3. QED
    BY <2>1, <2>2
<1>13. RevokedBounded'
  <2> SUFFICES ASSUME NEW u \in blacklist \ failedOpen, now < exp[u]
               PROVE  /\ u \in cached' => cacheUntil'[u] <= revokedAt[u] + MaxLag + CacheTTL
                      /\ \A k \in Handlers : req'[k].pc = "put" /\ req'[k].tok = u
                           => req'[k].start <= revokedAt[u]
    BY <1>1 DEF RevokedBounded, At
  <2>1. CASE u = t
    BY <2>1, <1>1, <1>2, <1>5, <1>6, <1>7, TimesAssumption
    DEF Moves, Inv, RevokedBounded, At
  <2>2. CASE u # t
    BY <2>2, <1>1, <1>3, <1>5, <1>8 DEF Moves, Inv, RevokedBounded, At
  <2>3. QED
    BY <2>1, <2>2
<1>14. QED
  BY <1>9, <1>10, <1>11, <1>12, <1>13 DEF Inv

\* At its revocation a token is cached and checked at most as of now.
LEMMA RevokeInv ==
  ASSUME Inv, NEW h \in Handlers, Revoke(h)
  PROVE  Inv'
<1>1. /\ Moves(h) /\ req'[h].pc = "idle" /\ ~At(h, "idle")
      /\ UNCHANGED <<now, issued, exp, cached, cacheUntil, failedOpen>>
      /\ faults' \in 0..MaxFaults
  BY ReturnMoves, FaultBounded DEF Revoke, cache, redis, At, Inv, TypeOK
<1>2. CASE UNCHANGED redis
  BY <1>1, <1>2, QuietStepInv DEF redis, Inv, TypeOK
<1>3. CASE /\ now < exp[req[h].tok]
           /\ blacklist' = blacklist \cup {req[h].tok}
           /\ revokedAt' = IF req[h].tok \in blacklist THEN revokedAt
                           ELSE [revokedAt EXCEPT ![req[h].tok] = now]
  <2> DEFINE t == req[h].tok
  <2>1. t \in issued /\ t \in Tokens /\ now \in Nat
    BY <1>1 DEF Inv, OnlyIssued, TypeOK
  <2>2. /\ revokedAt' \in [Tokens -> Nat]
        /\ \A u \in blacklist : revokedAt'[u] = revokedAt[u]
        /\ t \notin blacklist => revokedAt'[t] = now
    BY <1>3, <2>1 DEF Inv, TypeOK
  <2>3. TypeOK' /\ OnlyIssued'
    BY <1>1, <1>3, <2>1, <2>2 DEF Inv, TypeOK, OnlyIssued, Moves, At
  <2>4. Timely' /\ EntriesBounded'
    BY <1>1 DEF Inv, Timely, EntriesBounded, Moves, At
  <2>5. RevokedBounded'
    <3> SUFFICES ASSUME NEW u \in blacklist' \ failedOpen, now < exp[u]
                 PROVE  /\ u \in cached => cacheUntil[u] <= revokedAt'[u] + MaxLag + CacheTTL
                        /\ \A k \in Handlers : req'[k].pc = "put" /\ req'[k].tok = u
                             => req'[k].start <= revokedAt'[u]
      BY <1>1 DEF RevokedBounded, At
    <3>1. CASE u \in blacklist
      BY <1>1, <2>2, <3>1 DEF Moves, Inv, RevokedBounded, At
    <3>2. CASE u \notin blacklist
      <4>1. u = t /\ revokedAt'[u] = now
        BY <1>3, <2>2, <3>2
      <4>2. u \in cached => cacheUntil[u] <= now + CacheTTL /\ cacheUntil[u] \in Nat
        BY DEF Inv, EntriesBounded, TypeOK
      <4>3. \A k \in Handlers : req'[k].pc = "put" => req'[k].start <= now
        BY <1>1 DEF Moves, Inv, Timely, At
      <4>4. QED
        BY <2>1, <4>1, <4>2, <4>3, TimesAssumption
    <3>3. QED
      BY <3>1, <3>2
  <2>6. QED
    BY <2>3, <2>4, <2>5 DEF Inv
<1>4. QED
  BY <1>2, <1>3 DEF Revoke

\* Every step of a request.
LEMMA StepInv ==
  ASSUME Inv, NEW h \in Handlers, Step(h)
  PROVE  Inv'
<1>0. faults \in 0..MaxFaults /\ req[h] \in Requests /\ failedOpen \subseteq Tokens
  BY DEF Inv, TypeOK
<1>1. CASE CacheGet(h)
  <2>1. /\ Moves(h) /\ req'[h].pc \in {"idle", "revoke", "delete", "verify"}
        /\ ~At(h, "idle")
    BY <1>1, AcceptMoves, GotoMoves DEF CacheGet, PCs, At
  <2>2. QED
    BY <1>0, <1>1, <2>1, QuietStepInv DEF CacheGet, cache, redis
<1>2. CASE CacheDelete(h)
  <2>1. Moves(h) /\ req'[h].pc = "verify" /\ ~At(h, "idle")
    BY <1>2, GotoMoves DEF CacheDelete, PCs, At
  <2>2. QED
    BY <1>0, <1>2, <2>1, QuietStepInv DEF CacheDelete, redis
<1>3. CASE Verify(h)
  <2>1. Moves(h) /\ req'[h].pc \in {"idle", "check"} /\ req[h].pc = "verify"
    BY <1>3, GotoMoves, ReturnMoves DEF Verify, PCs, At
  <2>2. req'[h].pc = "check" => req[h].start < exp[req[h].tok] + Leeway
    <3>1. CASE Return(h)
      BY <3>1, ReturnMoves
    <3>2. CASE Valid(req[h].tok)
      <4>1. /\ req[h].start <= now /\ req[h].start \in Nat /\ now \in Nat
            /\ exp[req[h].tok] \in Nat
        BY <1>0, <2>1 DEF Inv, Timely, TypeOK, OnlyIssued, At, Requests
      <4>2. QED
        BY <3>2, <4>1, TimesAssumption DEF Valid
    <3>3. QED
      BY <1>3, <3>1, <3>2 DEF Verify
  <2>3. QED
    BY <1>0, <1>3, <2>1, <2>2, QuietStepInv DEF Verify, cache, redis, At
<1>4. CASE CheckBlacklist(h)
  <2>1. Moves(h) /\ req'[h].pc \in {"idle", "put"} /\ req[h].pc = "check"
    BY <1>4, GotoMoves, ReturnMoves DEF CheckBlacklist, PCs, At
  <2>2. req[h].start < exp[req[h].tok] + Leeway
    BY <2>1 DEF Inv, Timely, At
  <2>3. /\ req[h].tok \in Tokens /\ now \in Nat /\ exp[req[h].tok] \in Nat
        /\ faults' \in 0..MaxFaults
    BY <1>0, <1>4, <2>1, FaultBounded DEF CheckBlacklist, Inv, TypeOK, OnlyIssued, At
  <2>4. failedOpen' \subseteq Tokens /\ failedOpen \subseteq failedOpen'
    BY <1>0, <1>4, <2>3 DEF CheckBlacklist
  <2>5. req'[h].pc = "put" =>
          req[h].tok \notin blacklist \ failedOpen' \/ now >= exp[req[h].tok]
    <3>1. CASE Return(h)
      BY <3>1, ReturnMoves
    <3>2. CASE ~Blacklisted(req[h].tok)
      BY <2>3, <3>2 DEF Blacklisted
    <3>3. CASE failedOpen' = failedOpen \cup {req[h].tok}
      BY <3>3
    <3>4. QED
      BY <1>4, <3>1, <3>2, <3>3 DEF CheckBlacklist
  <2>6. QED
    BY <1>4, <2>1, <2>2, <2>3, <2>4, <2>5, QuietStepInv
    DEF CheckBlacklist, cache, redis, At
<1>5. CASE CachePut(h)
  BY <1>5, CachePutInv
<1>6. CASE Revoke(h)
  BY <1>6, RevokeInv
<1>7. QED
  BY <1>1, <1>2, <1>3, <1>4, <1>5, <1>6 DEF Step

\* The cache may lose any entries, and all requests may vanish.
LEMMA LoseInv ==
  ASSUME Inv, cached' \subseteq cached, req' = req \/ req' = [h \in Handlers |-> Idle],
         faults' \in 0..MaxFaults,
         UNCHANGED <<now, issued, exp, cacheUntil, blacklist, revokedAt, failedOpen>>
  PROVE  Inv'
<1>1. req' \in [Handlers -> Requests]
  <2>1. Idle \in Requests
    BY DEF Idle, Requests, PCs
  <2>2. QED
    BY <2>1 DEF Inv, TypeOK
<1>2. \A h \in Handlers : req'[h].pc = "idle" \/ req'[h] = req[h]
  BY DEF Idle
<1>3. TypeOK' /\ OnlyIssued'
  <2>1. TypeOK'
    BY <1>1 DEF Inv, TypeOK
  <2>2. ASSUME NEW h \in Handlers, req'[h].pc # "idle" PROVE req'[h].tok \in issued
    BY <1>2, <2>2 DEF Inv, OnlyIssued, At
  <2>3. QED
    BY <2>1, <2>2 DEF Inv, OnlyIssued, At
<1>4. Timely'
  BY <1>2 DEF Inv, Timely, At
<1>5. EntriesBounded'
  BY DEF Inv, EntriesBounded
<1>6. RevokedBounded'
  <2> SUFFICES ASSUME NEW t \in blacklist \ failedOpen, now < exp[t]
               PROVE  /\ t \in cached' => cacheUntil[t] <= revokedAt[t] + MaxLag + CacheTTL
                      /\ \A k \in Handlers : req'[k].pc = "put" /\ req'[k].tok = t
                           => req'[k].start <= revokedAt[t]
    BY DEF RevokedBounded, At
  <2>1. QED
    BY <1>2 DEF Inv, RevokedBounded, At
<1>7. QED
  BY <1>3, <1>4, <1>5, <1>6 DEF Inv

\* Requests that can get older, entries and revocations all stay within bounds.
LEMMA TickInv ==
  ASSUME Inv, Tick
  PROVE  Inv'
<1>1. /\ now' = now + 1 /\ now' \in 0..MaxTime /\ now \in Nat
      /\ UNCHANGED <<issued, exp, cached, cacheUntil, blacklist, revokedAt, req,
                     failedOpen, faults>>
  BY TimesAssumption DEF Tick, cache, redis, Inv, TypeOK
<1>2. TypeOK' /\ OnlyIssued'
  BY <1>1 DEF Inv, TypeOK, OnlyIssued, At
<1>3. Timely'
  <2> SUFFICES ASSUME NEW h \in Handlers, req[h].pc # "idle"
               PROVE  /\ req[h].start <= now + 1 /\ now + 1 <= req[h].start + MaxLag
                      /\ req[h].pc \in {"check", "put"} => req[h].start < exp[req[h].tok] + Leeway
    BY <1>1 DEF Timely, At
  <2>1. req[h].start \in Nat
    BY DEF Inv, TypeOK, Requests
  <2>2. QED
    BY <1>1, <2>1, TimesAssumption DEF Tick, Inv, Timely, At
<1>4. EntriesBounded'
  <2> SUFFICES ASSUME NEW t \in cached
               PROVE  /\ cacheUntil[t] <= now + 1 + CacheTTL
                      /\ cacheUntil[t] < exp[t] + Leeway + MaxLag + CacheTTL
    BY <1>1 DEF EntriesBounded
  <2>1. cacheUntil[t] \in Nat
    BY DEF Inv, TypeOK
  <2>2. QED
    BY <1>1, <2>1, TimesAssumption DEF Inv, EntriesBounded
<1>5. RevokedBounded'
  <2> SUFFICES ASSUME NEW t \in blacklist \ failedOpen, now + 1 < exp[t]
               PROVE  /\ t \in cached => cacheUntil[t] <= revokedAt[t] + MaxLag + CacheTTL
                      /\ \A h \in Handlers : req[h].pc = "put" /\ req[h].tok = t
                           => req[h].start <= revokedAt[t]
    BY <1>1 DEF RevokedBounded, At
  <2>1. now < exp[t]
    BY <1>1 DEF Inv, TypeOK
  <2>2. QED
    BY <2>1 DEF Inv, RevokedBounded, At
<1>6. QED
  BY <1>2, <1>3, <1>4, <1>5 DEF Inv

LEMMA NextInv == Inv /\ [Next]_vars => Inv'
<1> SUFFICES ASSUME Inv, [Next]_vars PROVE Inv'
  OBVIOUS
<1>1. ASSUME NEW t \in Tokens, Issue(t) PROVE Inv'
  BY <1>1, IssueInv
<1>2. ASSUME NEW h \in Handlers, NEW t \in Tokens, NEW logout \in BOOLEAN,
             Arrive(h, t, logout)
      PROVE  Inv'
  BY <1>2, ArriveInv
<1>3. ASSUME NEW h \in Handlers, Step(h) PROVE Inv'
  BY <1>3, StepInv
<1>4. CASE Sweep
  <2>1. cached' \subseteq cached /\ faults' \in 0..MaxFaults
    BY <1>4 DEF Sweep, Inv, TypeOK
  <2>2. QED
    BY <1>4, <2>1, LoseInv DEF Sweep, redis
<1>5. CASE Restart
  <2>1. faults' \in 0..MaxFaults
    BY <1>5, FaultBounded DEF Restart
  <2>2. QED
    BY <1>5, <2>1, LoseInv DEF Restart, redis
<1>6. CASE Tick
  BY <1>6, TickInv
<1>7. CASE UNCHANGED vars
  BY <1>7 DEF vars, cache, redis, Inv, TypeOK, OnlyIssued, Timely, EntriesBounded,
              RevokedBounded, At
<1>8. QED
  BY <1>1, <1>2, <1>3, <1>4, <1>5, <1>6, <1>7 DEF Next

LEMMA SpecInv == Spec => []Inv
<1>1. QED
  BY InitInv, NextInv, PTL DEF Spec

-----------------------------------------------------------------------------
(* The results.                                                             *)

\* The variables keep their types (TypeOK).
THEOREM SpecTypeOK == Spec => []TypeOK
<1>1. Inv => TypeOK
  BY DEF Inv
<1>2. QED
  BY <1>1, SpecInv, PTL

\* A revoked token is accepted no later than MaxLag + CacheTTL after its
\* revocation, as long as it has not expired and Redis answered (StaleBound).
THEOREM SpecStaleBound == Spec => []StaleBound
<1>1. Inv => StaleBound
  <2> SUFFICES ASSUME Inv, NEW t \in blacklist \ failedOpen, Acceptable(t), now < exp[t]
               PROVE  now <= revokedAt[t] + MaxLag + CacheTTL
    BY DEF StaleBound
  <2>1. t \in Tokens /\ revokedAt[t] \in Nat /\ now \in Nat
    BY DEF Inv, TypeOK
  <2>2. CASE Live(t)
    BY <2>1, <2>2, TimesAssumption DEF Live, Inv, RevokedBounded, TypeOK
  <2>3. ASSUME NEW h \in Handlers, At(h, "put"), req[h].tok = t
        PROVE  now <= revokedAt[t] + MaxLag + CacheTTL
    <3>1. /\ req[h].start <= revokedAt[t] /\ now <= req[h].start + MaxLag
          /\ req[h].start \in Nat
      BY <2>3 DEF Inv, RevokedBounded, Timely, At, TypeOK, Requests
    <3>2. QED
      BY <2>1, <3>1, TimesAssumption
  <2>4. QED
    BY <2>2, <2>3 DEF Acceptable
<1>2. QED
  BY <1>1, SpecInv, PTL

\* No token is accepted later than leeway, lag and cache TTL after its exp
\* claim (ExpiryBound).
THEOREM SpecExpiryBound == Spec => []ExpiryBound
<1>1. Inv => ExpiryBound
  <2> SUFFICES ASSUME Inv, NEW t \in Tokens, Acceptable(t)
               PROVE  now < exp[t] + Leeway + MaxLag + CacheTTL
    BY DEF ExpiryBound
  <2>1. exp[t] \in Nat /\ now \in Nat /\ cacheUntil[t] \in Nat
    BY DEF Inv, TypeOK
  <2>2. CASE Live(t)
    BY <2>1, <2>2, TimesAssumption DEF Live, Inv, EntriesBounded
  <2>3. ASSUME NEW h \in Handlers, At(h, "put"), req[h].tok = t
        PROVE  now < exp[t] + Leeway + MaxLag + CacheTTL
    <3>1. /\ req[h].start < exp[t] + Leeway /\ now <= req[h].start + MaxLag
          /\ req[h].start \in Nat
      BY <2>3 DEF Inv, Timely, At, TypeOK, Requests
    <3>2. QED
      BY <2>1, <3>1, TimesAssumption
  <2>4. QED
    BY <2>2, <2>3 DEF Acceptable
<1>2. QED
  BY <1>1, SpecInv, PTL

\* Set's insertion leaves at most maxSize entries when there were no more.
LEMMA CachePutBounded ==
  ASSUME Inv, CacheBounded, NEW h \in Handlers, CachePut(h)
  PROVE  CacheBounded'
<1> DEFINE t == req[h].tok
<1>1. PICK kept \in KeptFor : cached' = kept \cup {t}
  BY DEF CachePut
<1>2. IsFiniteSet(cached) /\ Cardinality(cached) \in Nat
  BY TokensAssumption, FS_Subset, FS_CardinalityType DEF Inv, TypeOK
<1>3. kept \subseteq cached /\ IsFiniteSet(kept) /\ Cardinality(kept) \in Nat
      /\ Cardinality(kept) + 1 <= CacheSize
  <2>1. CASE Cardinality(cached) >= CacheSize
    <3>1. PICK o \in cached : kept = cached \ {o}
      BY <1>1, <2>1 DEF KeptFor
    <3>2. IsFiniteSet(kept) /\ Cardinality(kept) = Cardinality(cached) - 1
      BY <1>2, <3>1, FS_RemoveElement
    <3>3. QED
      BY <1>2, <2>1, <3>1, <3>2, CacheSizeAssumption, FS_CardinalityType DEF CacheBounded
  <2>2. CASE ~(Cardinality(cached) >= CacheSize)
    BY <1>1, <1>2, <2>2, CacheSizeAssumption DEF KeptFor
  <2>3. QED
    BY <2>1, <2>2
<1>4. Cardinality(kept \cup {t}) = Cardinality(kept)
      \/ Cardinality(kept \cup {t}) = Cardinality(kept) + 1
  BY <1>3, FS_AddElement
<1>5. QED
  BY <1>1, <1>3, <1>4, CacheSizeAssumption DEF CacheBounded

\* The cache stays within its size (CacheBounded).
THEOREM SpecCacheBounded == Spec => []CacheBounded
<1>1. Init => CacheBounded
  BY FS_EmptySet, CacheSizeAssumption DEF Init, CacheBounded
<1>2. Inv /\ CacheBounded /\ [Next]_vars => CacheBounded'
  <2> SUFFICES ASSUME Inv, CacheBounded, [Next]_vars PROVE CacheBounded'
    OBVIOUS
  <2>1. CASE \E h \in Handlers : CachePut(h)
    BY <2>1, CachePutBounded
  <2>2. CASE ~\E h \in Handlers : CachePut(h)
    <3>1. cached' \subseteq cached
      BY <2>2 DEF Next, Step, Issue, Arrive, CacheGet, CacheDelete, Verify,
         CheckBlacklist, Revoke, Sweep, Restart, Tick, cache, vars
    <3>2. IsFiniteSet(cached) /\ Cardinality(cached) \in Nat
      BY TokensAssumption, FS_Subset, FS_CardinalityType DEF Inv, TypeOK
    <3>3. Cardinality(cached') \in Nat /\ Cardinality(cached') <= Cardinality(cached)
      BY <3>1, <3>2, FS_Subset, FS_CardinalityType
    <3>4. QED
      BY <3>2, <3>3, CacheSizeAssumption DEF CacheBounded
  <2>3. QED
    BY <2>1, <2>2
<1>3. QED
  BY <1>1, <1>2, SpecInv, PTL DEF Spec

\* A revoked token that no cache entry and no request vouches for is not
\* accepted again before its exp (DeadStaysDead).
THEOREM SpecDeadStaysDead == Spec => DeadStaysDead
<1> DEFINE Stays ==
      \A t \in Tokens :
        Dead(t) /\ t \notin failedOpen' => Dead(t)' \/ now' >= exp[t]
<1>1. Inv /\ [Next]_vars => [Stays]_vars
  <2> SUFFICES ASSUME Inv, Next, NEW t \in Tokens, Dead(t), t \notin failedOpen',
                      ~(now' >= exp[t])
               PROVE  Dead(t)'
    OBVIOUS
  <2>1. /\ t \in issued /\ t \in blacklist /\ now \in Nat /\ exp[t] \in Nat
        /\ ~Live(t) /\ \A h \in Handlers : ~(req[h].pc = "put" /\ req[h].tok = t)
    BY DEF Inv, TypeOK, OnlyIssued, Dead, Acceptable, At
  <2>2. ASSUME t \in blacklist', exp'[t] = exp[t], now' < exp[t], ~Live(t)',
               \A h \in Handlers : ~(req'[h].pc = "put" /\ req'[h].tok = t)
        PROVE  Dead(t)'
    BY <2>2 DEF Dead, Acceptable, At
  <2>3. ASSUME now' = now, cached' \subseteq cached, cacheUntil' = cacheUntil
        PROVE  ~Live(t)'
    BY <2>1, <2>3 DEF Live
  <2>4. ASSUME NEW s \in Tokens, Issue(s)
        PROVE  Dead(t)'
    <3>1. /\ s \notin issued /\ exp' = [exp EXCEPT ![s] = now + AccessTTL]
          /\ UNCHANGED <<now, cached, cacheUntil, blacklist, req>>
      BY <2>4 DEF Issue, cache, redis
    <3>2. exp'[t] = exp[t] /\ now' < exp[t]
      BY <2>1, <3>1 DEF Inv, TypeOK, Dead
    <3>3. QED
      BY <2>1, <2>2, <2>3, <3>1, <3>2
  <2>5. ASSUME NEW h \in Handlers, NEW s \in Tokens, NEW logout \in BOOLEAN,
               Arrive(h, s, logout)
        PROVE  Dead(t)'
    <3>1. UNCHANGED <<now, exp, cached, cacheUntil, blacklist>>
      BY <2>5 DEF Arrive, cache, redis
    <3>2. \A k \in Handlers : req'[k].pc = "put" => req'[k] = req[k]
      BY <2>5 DEF Arrive, Inv, TypeOK
    <3>3. QED
      BY <2>1, <2>2, <2>3, <3>1, <3>2
  <2>6. ASSUME NEW h \in Handlers, Step(h) PROVE Dead(t)'
    <3>1. now' = now /\ exp' = exp /\ t \in blacklist' /\ now' < exp[t]
      BY <2>1, <2>6 DEF Step, CacheGet, CacheDelete, Verify, CheckBlacklist, CachePut,
         Revoke, redis, Dead
    <3>2. ~Live(t)'
      <4>1. CASE CachePut(h)
        <5>1. req[h].tok # t /\ req[h].tok \in Tokens
          BY <2>1, <4>1 DEF CachePut, At, Inv, TypeOK, OnlyIssued
        <5>2. cached' \subseteq cached \cup {req[h].tok} /\ cacheUntil'[t] = cacheUntil[t]
          BY <4>1, <5>1 DEF CachePut, KeptFor, Inv, TypeOK
        <5>3. QED
          BY <2>1, <3>1, <5>1, <5>2 DEF Live
      <4>2. CASE ~CachePut(h)
        <5>1. cached' \subseteq cached /\ cacheUntil' = cacheUntil
          BY <2>6, <4>2 DEF Step, CacheGet, CacheDelete, Verify, CheckBlacklist,
             Revoke, cache
        <5>2. QED
          BY <2>3, <3>1, <5>1
      <4>3. QED
        BY <4>1, <4>2
    <3>3. \A k \in Handlers \ {h} : req'[k] = req[k]
      BY <2>6 DEF Step, CacheGet, CacheDelete, Verify, CheckBlacklist, CachePut, Revoke,
         Accept, Goto, Return, Inv, TypeOK
    <3>4. ~(req'[h].pc = "put" /\ req'[h].tok = t)
      <4>1. CASE CheckBlacklist(h)
        <5>1. req'[h].tok = req[h].tok \/ req'[h].pc = "idle"
          BY <4>1, GotoMoves, ReturnMoves DEF CheckBlacklist, Moves, PCs
        <5>2. CASE Return(h)
          BY <5>2, ReturnMoves
        <5>3. CASE ~Blacklisted(req[h].tok)
          BY <2>1, <5>1, <5>3 DEF Blacklisted, Dead
        <5>4. CASE failedOpen' = failedOpen \cup {req[h].tok}
          BY <5>1, <5>4
        <5>5. QED
          BY <4>1, <5>2, <5>3, <5>4 DEF CheckBlacklist
      <4>2. CASE CacheGet(h) \/ CachePut(h)
        BY <4>2, AcceptMoves, GotoMoves DEF CacheGet, CachePut, PCs
      <4>3. CASE CacheDelete(h) \/ Verify(h) \/ Revoke(h)
        BY <4>3, GotoMoves, ReturnMoves DEF CacheDelete, Verify, Revoke, PCs
      <4>4. QED
        BY <2>6, <4>1, <4>2, <4>3 DEF Step
    <3>5. QED
      BY <2>1, <2>2, <3>1, <3>2, <3>3, <3>4
  <2>7. CASE Sweep \/ Restart
    <3>1. /\ now' = now /\ exp' = exp /\ t \in blacklist' /\ now' < exp[t]
          /\ cached' \subseteq cached /\ cacheUntil' = cacheUntil
      BY <2>1, <2>7 DEF Sweep, Restart, redis, Dead
    <3>2. \A h \in Handlers : req'[h].pc = "idle" \/ req'[h] = req[h]
      BY <2>7 DEF Sweep, Restart, Idle
    <3>3. QED
      BY <2>1, <2>2, <2>3, <3>1, <3>2
  <2>8. CASE Tick
    <3>1. /\ now' = now + 1 /\ t \in blacklist'
          /\ UNCHANGED <<exp, cached, cacheUntil, req>>
      BY <2>1, <2>8 DEF Tick, cache, redis
    <3>2. now' < exp[t]
      BY <2>1, <3>1
    <3>3. ~Live(t)'
      BY <2>1, <3>1 DEF Live, Inv, TypeOK
    <3>4. QED
      BY <2>1, <2>2, <3>1, <3>2, <3>3
  <2>9. QED
    BY <2>4, <2>5, <2>6, <2>7, <2>8 DEF Next
<1>2. QED
  BY <1>1, SpecInv, PTL DEF Spec, DeadStaysDead
=============================================================================
