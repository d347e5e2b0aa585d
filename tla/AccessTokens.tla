---------------------------- MODULE AccessTokens ----------------------------
(***************************************************************************)
(* How an access token is accepted and revoked.  AuthRequired               *)
(* (internal/middleware/auth.go) looks in the in-memory TokenCache          *)
(* (internal/shared/utils/cache.go) and, on a miss, verifies the JWT, asks  *)
(* Redis for a blacklist entry and caches the claims.  Logout               *)
(* (auth_service.go) writes the blacklist entry, for as long as the token   *)
(* has to live; it runs behind AuthRequired.  Each action is one access to  *)
(* the cache (one critical section of its mutex), to Redis, or to the JWT.  *)
(*                                                                         *)
(* Time is discrete.  MaxLag is the assumption that a request gets through  *)
(* the middleware and the logout within MaxLag ticks of its arrival; the    *)
(* code itself bounds nothing between the blacklist check and the caching.  *)
(***************************************************************************)
EXTENDS Naturals, FiniteSets

CONSTANTS
  Tokens,     \* access tokens
  Handlers,   \* request goroutines
  AccessTTL,  \* life of an access token (JWT_ACCESS_EXPIRY_MIN)
  Leeway,     \* jwt.WithLeeway(30s)
  CacheTTL,   \* NewTokenCache(5*time.Minute, ...)
  CacheSize,  \* NewTokenCache(..., 100000)
  MaxLag,     \* longest time a request takes
  MaxTime,    \* bound on the clock
  LastIssue,  \* bound: no token is issued later
  MaxFaults,  \* bound on failed Redis calls and restarts
  NoToken

ASSUME TokensAssumption == IsFiniteSet(Tokens) /\ NoToken \notin Tokens
ASSUME TimesAssumption ==
  /\ AccessTTL \in Nat \ {0} /\ Leeway \in Nat /\ CacheTTL \in Nat
  /\ MaxLag \in Nat /\ MaxTime \in Nat /\ LastIssue \in Nat /\ MaxFaults \in Nat
ASSUME CacheSizeAssumption == CacheSize \in Nat \ {0}

VARIABLES
  now,
  issued,      \* tokens generated so far
  exp,         \* their exp claim
  cached,      \* keys of TokenCache.entries
  cacheUntil,  \* expiresAt of the entries
  blacklist,   \* tokens ever written to Redis under blacklist:
  req,         \* what each handler is doing
  revokedAt,   \* history: when a token was first blacklisted
  failedOpen,  \* history: tokens let through because Redis did not answer
  faults

cache == <<cached, cacheUntil>>
redis == <<blacklist, revokedAt>>
vars == <<now, issued, exp, cache, redis, req, failedOpen, faults>>

PCs == {"idle", "get", "delete", "verify", "check", "put", "revoke"}
Requests == [pc: PCs, tok: Tokens \cup {NoToken}, logout: BOOLEAN, start: Nat]
Idle == [pc |-> "idle", tok |-> NoToken, logout |-> FALSE, start |-> 0]

At(h, pc) == req[h].pc = pc
Goto(h, pc) == req' = [req EXCEPT ![h].pc = pc]
Return(h) == req' = [req EXCEPT ![h] = Idle]
Fault == faults < MaxFaults /\ faults' = faults + 1

\* The token is accepted and the request handled: Logout goes on to revoke.
Accept(h) == IF req[h].logout THEN Goto(h, "revoke") ELSE Return(h)

Init ==
  /\ now = 0
  /\ issued = {} /\ exp = [t \in Tokens |-> 0]
  /\ cached = {} /\ cacheUntil = [t \in Tokens |-> 0]
  /\ blacklist = {} /\ revokedAt = [t \in Tokens |-> 0]
  /\ req = [h \in Handlers |-> Idle]
  /\ failedOpen = {}
  /\ faults = 0

-----------------------------------------------------------------------------
(* Tokens.                                                                  *)

\* GenerateAccessToken, for a login or a refresh; a refresh leaves the access
\* token of the old pair alone.
Issue(t) ==
  /\ t \notin issued /\ now <= LastIssue
  /\ issued' = issued \cup {t}
  /\ exp' = [exp EXCEPT ![t] = now + AccessTTL]
  /\ UNCHANGED <<now, cache, redis, req, failedOpen, faults>>

\* ValidateAccessToken: the exp claim is checked with leeway.
Valid(t) == now < exp[t] + Leeway

\* EXISTS blacklist:<hash>: the entry was set to expire with the token.
Blacklisted(t) == t \in blacklist /\ now < exp[t]

-----------------------------------------------------------------------------
(* AuthRequired.                                                            *)

\* A request with bearer token t arrives.
Arrive(h, t, logout) ==
  /\ At(h, "idle") /\ t \in issued
  /\ req' = [req EXCEPT ![h] = [pc |-> "get", tok |-> t, logout |-> logout, start |-> now]]
  /\ UNCHANGED <<now, issued, exp, cache, redis, failedOpen, faults>>

\* An entry that has not reached its expiresAt.
Live(t) == t \in cached /\ now <= cacheUntil[t]

\* Mutant: a hit renews the entry, as a sliding expiration would.
CacheGetSliding(h) ==
  LET t == req[h].tok IN
  /\ At(h, "get")
  /\ \/ /\ Live(t) /\ Accept(h)
        /\ cacheUntil' = [cacheUntil EXCEPT ![t] = now + CacheTTL]
     \/ ~Live(t) /\ Goto(h, "verify") /\ UNCHANGED cacheUntil
  /\ UNCHANGED <<now, issued, exp, cached, redis, failedOpen, faults>>

\* TokenCache.Get under the read lock: a hit accepts the token with no further
\* check; an expired entry is deleted in a critical section of its own.
CacheGet(h) ==
  LET t == req[h].tok IN
  /\ At(h, "get")
  /\ \/ Live(t) /\ Accept(h)
     \/ t \in cached /\ ~Live(t) /\ Goto(h, "delete")
     \/ t \notin cached /\ Goto(h, "verify")
  /\ UNCHANGED <<now, issued, exp, cache, redis, failedOpen, faults>>

\* The delete of TokenCache.Get; the entry may be a fresh one by now.
CacheDelete(h) ==
  /\ At(h, "delete")
  /\ cached' = cached \ {req[h].tok}
  /\ Goto(h, "verify")
  /\ UNCHANGED <<now, issued, exp, cacheUntil, redis, failedOpen, faults>>

\* Mutants: exp is not looked at; the claims are cached before the blacklist
\* is consulted.
VerifySignatureOnly(h) ==
  /\ At(h, "verify")
  /\ Goto(h, "check")
  /\ UNCHANGED <<now, issued, exp, cache, redis, failedOpen, faults>>
VerifyAndCache(h) ==
  /\ At(h, "verify")
  /\ \/ /\ Valid(req[h].tok) /\ Goto(h, "check")
        /\ cached' = cached \cup {req[h].tok}
        /\ cacheUntil' = [cacheUntil EXCEPT ![req[h].tok] = now + CacheTTL]
     \/ ~Valid(req[h].tok) /\ Return(h) /\ UNCHANGED cache
  /\ UNCHANGED <<now, issued, exp, redis, failedOpen, faults>>

Verify(h) ==
  /\ At(h, "verify")
  /\ \/ Valid(req[h].tok) /\ Goto(h, "check")
     \/ ~Valid(req[h].tok) /\ Return(h)
  /\ UNCHANGED <<now, issued, exp, cache, redis, failedOpen, faults>>

\* EXISTS in Redis; an error counts as "not blacklisted".
CheckBlacklist(h) ==
  /\ At(h, "check")
  /\ \/ Blacklisted(req[h].tok) /\ Return(h) /\ UNCHANGED <<failedOpen, faults>>
     \/ ~Blacklisted(req[h].tok) /\ Goto(h, "put") /\ UNCHANGED <<failedOpen, faults>>
     \/ /\ Fault /\ Goto(h, "put")
        /\ failedOpen' = failedOpen \cup {req[h].tok}
  /\ UNCHANGED <<now, issued, exp, cache, redis>>

\* Mutant: room is made only once the cache has grown past its limit.
KeptForLate ==
  IF Cardinality(cached) > CacheSize
  THEN {cached \ {o} : o \in {k \in cached : \A j \in cached : cacheUntil[k] <= cacheUntil[j]}}
  ELSE {cached}

\* The entries that stay when Set inserts: in a full cache one of the entries
\* with the earliest expiresAt goes, even when the key is already present.
KeptFor ==
  IF Cardinality(cached) >= CacheSize
  THEN {cached \ {o} : o \in {k \in cached : \A j \in cached : cacheUntil[k] <= cacheUntil[j]}}
  ELSE {cached}

\* TokenCache.Set, one critical section, then c.Next().
CachePut(h) ==
  LET t == req[h].tok IN
  /\ At(h, "put")
  /\ \E kept \in KeptFor : cached' = kept \cup {t}
  /\ cacheUntil' = [cacheUntil EXCEPT ![t] = now + CacheTTL]
  /\ Accept(h)
  /\ UNCHANGED <<now, issued, exp, redis, failedOpen, faults>>

-----------------------------------------------------------------------------
\* AuthService.Logout: the token is validated again and blacklisted for the
\* rest of its life, if any; the error of SET is ignored and the reply is 200.
Revoke(h) ==
  LET t == req[h].tok IN
  /\ At(h, "revoke")
  /\ \/ /\ Valid(t) /\ now < exp[t]
        /\ blacklist' = blacklist \cup {t}
        /\ revokedAt' = IF t \in blacklist THEN revokedAt
                        ELSE [revokedAt EXCEPT ![t] = now]
        /\ UNCHANGED faults
     \/ ~(Valid(t) /\ now < exp[t]) /\ UNCHANGED <<redis, faults>>
     \/ Fault /\ UNCHANGED redis
  /\ Return(h)
  /\ UNCHANGED <<now, issued, exp, cache, failedOpen>>

\* The clean-up goroutine of NewTokenCache.
Sweep ==
  /\ cached' = {t \in cached : Live(t)}
  /\ UNCHANGED <<now, issued, exp, cacheUntil, redis, req, failedOpen, faults>>

\* The process restarts: its cache and its requests are gone, Redis is not.
Restart ==
  /\ Fault
  /\ cached' = {} /\ req' = [h \in Handlers |-> Idle]
  /\ UNCHANGED <<now, issued, exp, cacheUntil, redis, failedOpen>>

\* Time passes, though no request gets older than MaxLag.
Tick ==
  /\ now < MaxTime
  /\ \A h \in Handlers : At(h, "idle") \/ now < req[h].start + MaxLag
  /\ now' = now + 1
  /\ UNCHANGED <<issued, exp, cache, redis, req, failedOpen, faults>>

Step(h) ==
  \/ CacheGet(h) \/ CacheDelete(h) \/ Verify(h) \/ CheckBlacklist(h)
  \/ CachePut(h) \/ Revoke(h)

Next ==
  \/ \E t \in Tokens : Issue(t)
  \/ \E h \in Handlers :
       \/ \E t \in Tokens, logout \in BOOLEAN : Arrive(h, t, logout)
       \/ Step(h)
  \/ Sweep \/ Restart \/ Tick

Spec == Init /\ [][Next]_vars

-----------------------------------------------------------------------------
(* Properties.                                                              *)

TypeOK ==
  /\ now \in 0..MaxTime
  /\ issued \subseteq Tokens /\ exp \in [Tokens -> Nat]
  /\ cached \subseteq Tokens /\ cacheUntil \in [Tokens -> Nat]
  /\ blacklist \subseteq Tokens /\ revokedAt \in [Tokens -> Nat]
  /\ req \in [Handlers -> Requests]
  /\ failedOpen \subseteq Tokens
  /\ faults \in 0..MaxFaults

\* The token is accepted by the next request that presents it, or by one that
\* is past its blacklist check.
Acceptable(t) == Live(t) \/ \E h \in Handlers : At(h, "put") /\ req[h].tok = t

\* A cache hit skips the blacklist, so a revoked token stays usable for a
\* while; but a hit does not renew its entry, and only requests that were past
\* their check when the token was revoked can cache it again.  So it is usable
\* no later than MaxLag + CacheTTL after its revocation.
StaleBound ==
  \A t \in blacklist \ failedOpen :
    Acceptable(t) /\ now < exp[t] => now <= revokedAt[t] + MaxLag + CacheTTL

\* A cache hit skips the exp claim too: a token can outlive its exp, by the
\* leeway, one request's lag and the cache's TTL together and no more, whether
\* Redis works or not.
ExpiryBound ==
  \A t \in Tokens :
    Acceptable(t) => now < exp[t] + Leeway + MaxLag + CacheTTL

\* Once a revoked token has dropped out of the cache and out of the hands of
\* the requests in progress, no interleaving brings it back before its exp.
Dead(t) == t \in blacklist /\ now < exp[t] /\ ~Acceptable(t)
DeadStaysDead ==
  [][\A t \in Tokens :
       Dead(t) /\ t \notin failedOpen' => Dead(t)' \/ now' >= exp[t]]_vars

\* TokenCache never holds more than maxSize entries, though Get's delete and
\* the sweep interleave with Set.
CacheBounded == Cardinality(cached) <= CacheSize

-----------------------------------------------------------------------------
(* What the documentation says and the code does not do.                    *)

\* README: "JWT Blacklist: logged-out tokens blocked via Redis until expiry".
LoggedOutBlocked == \A t \in blacklist : now < exp[t] => ~Live(t)

=============================================================================
