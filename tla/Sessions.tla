------------------------------ MODULE Sessions ------------------------------
(***************************************************************************)
(* The refresh tokens and sessions kept by AuthService                      *)
(* (internal/modules/auth/service/auth_service.go).  A request handler      *)
(* (Register, Login, RefreshToken, Logout) is a goroutine that issues SQL   *)
(* statements one after the other on the pool, with no transaction around   *)
(* them: every statement commits on its own, so one action of this module   *)
(* is one statement, and the statements of concurrent requests interleave.  *)
(*                                                                         *)
(* A member of Tokens stands for a refresh token and for its SHA-256 hash,  *)
(* the UNIQUE key of both the refresh_tokens row and the sessions row.      *)
(* Statements can fail (a lost connection, a request context cancelled by   *)
(* its client) and the process can crash; MaxFaults bounds how often.       *)
(***************************************************************************)
EXTENDS Naturals, FiniteSets

CONSTANTS
  Users,        \* e-mail addresses, each naming at most one users row
  Registered,   \* the users that have a row at the start
  Tokens,       \* refresh tokens; bounds how many a behaviour can generate
  Handlers,     \* request goroutines
  MaxSessions,  \* cfg.MaxActiveSessions
  MaxFaults,    \* bound on failed statements and crashes
  NoUser, NoToken

ASSUME UsersAssumption  == Registered \subseteq Users /\ NoUser \notin Users
ASSUME TokensAssumption == IsFiniteSet(Tokens) /\ NoToken \notin Tokens
ASSUME HandlersAssumption == IsFiniteSet(Handlers)
\* config.Load falls back to 2 when the setting is not a positive number.
ASSUME MaxSessionsAssumption == MaxSessions \in Nat \ {0}
ASSUME MaxFaultsAssumption == MaxFaults \in Nat

VARIABLES
  users,          \* users rows
  refreshTokens,  \* refresh_tokens rows, by token_hash
  sessions,       \* sessions rows, by refresh_token_hash
  stamp,          \* sessions.last_accessed_at (DEFAULT now(), never updated)
  clock,          \* the database's now()
  owner,          \* the user a generated token belongs to
  parent,         \* the refresh token that was presented to obtain a token
  expired,        \* tokens whose expires_at has passed
  req,            \* what each handler is doing
  granted,        \* history: tokens sent to a client in a 200 reply
  loggedOut,      \* history: live tokens whose logout was answered with 200
  missed,         \* history: users whose last eviction failed
  dirty,          \* history: users a fault may have left an orphan token
  faults          \* number of faults so far

tables == <<users, refreshTokens, sessions, stamp, clock>>
issued == <<owner, parent>>
history == <<granted, loggedOut, missed, dirty>>
vars == <<tables, issued, expired, req, history, faults>>

-----------------------------------------------------------------------------
Ops == {"none", "login", "register", "refresh", "logout"}

PCs == {"idle", "find", "deleteExpired", "deleteSession", "deleteToken",
        "insertToken", "insertSession", "evict", "cleanup",
        "logoutSession", "logoutToken"}

\* alone: no other request of the user has overlapped this one and none of
\* its statements failed.  live: the token was a session when logout arrived.
Requests == [op: Ops, pc: PCs, user: Users \cup {NoUser},
             old: Tokens \cup {NoToken}, new: Tokens \cup {NoToken},
             alone: BOOLEAN, live: BOOLEAN]

Idle == [op |-> "none", pc |-> "idle", user |-> NoUser, old |-> NoToken,
         new |-> NoToken, alone |-> FALSE, live |-> FALSE]

At(h, pc) == req[h].pc = pc
Goto(h, pc) == req' = [req EXCEPT ![h].pc = pc]
Return(h) == req' = [req EXCEPT ![h] = Idle]

\* A statement of handler h fails and the handler carries on at pc.
FaultGoto(h, pc) == req' = [req EXCEPT ![h].pc = pc, ![h].alone = FALSE]
Fault == faults < MaxFaults /\ faults' = faults + 1

SessionsOf(u) == {t \in sessions : owner[t] = u}
TokensOf(u) == {t \in refreshTokens : owner[t] = u}

Init ==
  /\ users = Registered
  /\ refreshTokens = {} /\ sessions = {}
  /\ stamp = [t \in Tokens |-> 0] /\ clock = 0
  /\ owner = [t \in Tokens |-> NoUser]
  /\ parent = [t \in Tokens |-> NoToken]
  /\ expired = {}
  /\ req = [h \in Handlers |-> Idle]
  /\ granted = {} /\ loggedOut = {} /\ missed = {} /\ dirty = {}
  /\ faults = 0

-----------------------------------------------------------------------------
(* Requests arriving at the handlers of auth_handler.go.                    *)

\* A request r of user r.user starts on handler h; from here on neither it nor
\* a request of the same user in progress is alone.
Start(h, r) ==
  /\ At(h, "idle")
  /\ req' = [k \in Handlers |->
       IF k = h
       THEN [r EXCEPT !.alone = \A g \in Handlers : req[g].user # r.user]
       ELSE IF req[k].user = r.user THEN [req[k] EXCEPT !.alone = FALSE]
       ELSE req[k]]

\* Mutant: without the jti, tokens that a user is given within one second are equal.
GenerateRepeats(u, new, old) ==
  /\ owner[new] \in {NoUser, u}
  /\ owner' = [owner EXCEPT ![new] = u]
  /\ parent' = [parent EXCEPT ![new] = old]

\* GenerateRefreshToken: every token carries a new random jti, so the token a
\* request will store is one that no request has generated before.
Generate(u, new, old) ==
  /\ owner[new] = NoUser
  /\ owner' = [owner EXCEPT ![new] = u]
  /\ parent' = [parent EXCEPT ![new] = old]

\* Login of an existing user whose password was accepted.
Login(h, u, new) ==
  /\ u \in users
  /\ Start(h, [Idle EXCEPT !.op = "login", !.pc = "insertToken",
                           !.user = u, !.new = new])
  /\ Generate(u, new, NoToken)
  /\ UNCHANGED <<tables, expired, history, faults>>

\* Register: userRepo.Create fails on a taken e-mail (409, nothing changes).
Register(h, u, new) ==
  /\ u \notin users
  /\ users' = users \cup {u}
  /\ Start(h, [Idle EXCEPT !.op = "register", !.pc = "insertToken",
                           !.user = u, !.new = new])
  /\ Generate(u, new, NoToken)
  /\ UNCHANGED <<refreshTokens, sessions, stamp, clock, expired, history, faults>>

\* RefreshToken with a token some earlier reply handed out, in use or not.
Refresh(h, old, new) ==
  /\ old \in granted
  /\ Start(h, [Idle EXCEPT !.op = "refresh", !.pc = "find",
                           !.user = owner[old], !.old = old, !.new = new])
  /\ Generate(owner[old], new, old)
  /\ UNCHANGED <<tables, expired, history, faults>>

\* Logout with a refresh token in its body.
Logout(h, old) ==
  /\ old \in granted
  /\ Start(h, [Idle EXCEPT !.op = "logout", !.pc = "logoutSession",
                           !.user = owner[old], !.old = old,
                           !.live = old \in sessions])
  /\ UNCHANGED <<tables, issued, expired, history, faults>>

-----------------------------------------------------------------------------
(* The statements of RefreshToken.                                          *)

\* SELECT ... WHERE token_hash=$1, and the test of expires_at on its result.
Find(h) ==
  /\ At(h, "find")
  /\ \/ /\ req[h].old \in refreshTokens \ expired
        /\ Goto(h, "deleteSession") /\ UNCHANGED faults
     \/ /\ req[h].old \in refreshTokens \cap expired
        /\ Goto(h, "deleteExpired") /\ UNCHANGED faults
     \/ /\ req[h].old \notin refreshTokens
        /\ Return(h) /\ UNCHANGED faults
     \/ Return(h) /\ Fault
  /\ UNCHANGED <<tables, issued, expired, history>>

\* DELETE of the expired row; the request ends in an error either way.
DeleteExpired(h) ==
  /\ At(h, "deleteExpired")
  /\ \/ refreshTokens' = refreshTokens \ {req[h].old} /\ UNCHANGED faults
     \/ UNCHANGED refreshTokens /\ Fault
  /\ Return(h)
  /\ UNCHANGED <<users, sessions, stamp, clock, issued, expired, history>>

\* sessionRepo.DeleteByRefreshHash, its error ignored.
DeleteSession(h) ==
  /\ At(h, "deleteSession")
  /\ \/ /\ sessions' = sessions \ {req[h].old}
        /\ Goto(h, "deleteToken") /\ UNCHANGED faults
     \/ /\ UNCHANGED sessions
        /\ FaultGoto(h, "deleteToken") /\ Fault
  /\ UNCHANGED <<users, refreshTokens, stamp, clock, issued, expired, history>>

\* Mutant: the refresh token survives its own rotation.
DeleteTokenForgotten(h) ==
  /\ At(h, "deleteToken")
  /\ Goto(h, "insertToken")
  /\ UNCHANGED <<tables, issued, expired, history, faults>>

\* DELETE FROM refresh_tokens WHERE id=$1, its error ignored.  The result does
\* not say whether this request or a concurrent one removed the row.
DeleteToken(h) ==
  /\ At(h, "deleteToken")
  /\ \/ /\ refreshTokens' = refreshTokens \ {req[h].old}
        /\ Goto(h, "insertToken") /\ UNCHANGED <<dirty, faults>>
     \/ /\ UNCHANGED refreshTokens
        /\ FaultGoto(h, "insertToken") /\ Fault
        /\ dirty' = dirty \cup {req[h].user}
  /\ UNCHANGED <<users, sessions, stamp, clock, issued, expired,
                 granted, loggedOut, missed>>

-----------------------------------------------------------------------------
(* generateTokens and enforceSessionLimit.                                  *)

\* The INSERT casts the ip address to inet.  Login and RefreshToken pass
\* c.ClientIP(); Register passes "", which PostgreSQL rejects.
ValidInet(op) == op # "register"

\* INSERT INTO refresh_tokens; an error ends the request.  A fault may strike
\* before or after the row is stored (and stands for a failed FindByID too).
InsertToken(h) ==
  /\ At(h, "insertToken")
  /\ \/ /\ ValidInet(req[h].op)
        /\ refreshTokens' = refreshTokens \cup {req[h].new}
        /\ Goto(h, "insertSession") /\ UNCHANGED <<dirty, faults>>
     \/ /\ ~ValidInet(req[h].op)
        /\ Return(h) /\ UNCHANGED <<refreshTokens, dirty, faults>>
     \/ /\ Return(h) /\ Fault
        /\ UNCHANGED <<refreshTokens, dirty>>
     \/ /\ ValidInet(req[h].op)
        /\ Return(h) /\ Fault
        /\ refreshTokens' = refreshTokens \cup {req[h].new}
        /\ dirty' = dirty \cup {req[h].user}
  /\ UNCHANGED <<users, sessions, stamp, clock, issued, expired,
                 granted, loggedOut, missed>>

\* sessionRepo.Create; an error is logged and the request goes on.
InsertSession(h) ==
  /\ At(h, "insertSession")
  /\ \/ /\ sessions' = sessions \cup {req[h].new}
        /\ stamp' = [stamp EXCEPT ![req[h].new] = clock]
        /\ clock' = clock + 1
        /\ Goto(h, "evict") /\ UNCHANGED faults
     \/ /\ UNCHANGED <<sessions, stamp, clock>>
        /\ FaultGoto(h, "evict") /\ Fault
  /\ UNCHANGED <<users, refreshTokens, issued, expired, history>>

\* Slips in the LIMIT subquery, for mutation checks: one row too many, and
\* ORDER BY ... ASC.
NewestOffByOne(u) ==
  {keep \in SUBSET SessionsOf(u) :
     /\ Cardinality(keep) <= MaxSessions + 1
     /\ Cardinality(keep) <= MaxSessions => keep = SessionsOf(u)
     /\ \A k \in keep, d \in SessionsOf(u) \ keep : stamp[k] >= stamp[d]}
NewestAscending(u) ==
  {keep \in SUBSET SessionsOf(u) :
     /\ Cardinality(keep) <= MaxSessions
     /\ Cardinality(keep) < MaxSessions => keep = SessionsOf(u)
     /\ \A k \in keep, d \in SessionsOf(u) \ keep : stamp[k] <= stamp[d]}

\* SELECT id ... ORDER BY last_accessed_at DESC LIMIT $2: the sets of rows the
\* subquery may return.
Newest(u) ==
  {keep \in SUBSET SessionsOf(u) :
     /\ Cardinality(keep) <= MaxSessions
     /\ Cardinality(keep) < MaxSessions => keep = SessionsOf(u)
     /\ \A k \in keep, d \in SessionsOf(u) \ keep : stamp[k] >= stamp[d]}

\* DELETE FROM sessions of the user that are not among the newest.
Evict(h) ==
  LET u == req[h].user IN
  /\ At(h, "evict")
  /\ \/ /\ \E keep \in Newest(u) :
             sessions' = sessions \ (SessionsOf(u) \ keep)
        /\ missed' = missed \ {u}
        /\ Goto(h, "cleanup") /\ UNCHANGED faults
     \/ /\ UNCHANGED sessions
        /\ missed' = missed \cup {u}
        /\ FaultGoto(h, "cleanup") /\ Fault
  /\ UNCHANGED <<users, refreshTokens, stamp, clock, issued, expired,
                 granted, loggedOut, dirty>>

\* Slips in the WHERE clause, for mutation checks: the outer user_id=$1 left
\* out, and expires_at < now().
OrphansOfAnyone(u) == refreshTokens \ (SessionsOf(u) \cup expired)
OrphansExpired(u) == (TokensOf(u) \cap expired) \ SessionsOf(u)

\* The refresh tokens the second statement of enforceSessionLimit deletes:
\* not expired, and without a session.
Orphans(u) == TokensOf(u) \ (SessionsOf(u) \cup expired)

\* DELETE FROM refresh_tokens of the user's orphans, then the 200 reply.
Cleanup(h) ==
  LET u == req[h].user IN
  /\ At(h, "cleanup")
  /\ \/ /\ refreshTokens' = refreshTokens \ Orphans(u)
        /\ dirty' = dirty \ {u}
        /\ UNCHANGED faults
     \/ /\ UNCHANGED refreshTokens
        /\ dirty' = dirty \cup {u}
        /\ Fault
  /\ granted' = granted \cup {req[h].new}
  /\ Return(h)
  /\ UNCHANGED <<users, sessions, stamp, clock, issued, expired,
                 loggedOut, missed>>

-----------------------------------------------------------------------------
(* The statements of Logout, both with their errors ignored.                *)

LogoutSession(h) ==
  /\ At(h, "logoutSession")
  /\ \/ /\ sessions' = sessions \ {req[h].old}
        /\ Goto(h, "logoutToken") /\ UNCHANGED faults
     \/ /\ UNCHANGED sessions
        /\ FaultGoto(h, "logoutToken") /\ Fault
  /\ UNCHANGED <<users, refreshTokens, stamp, clock, issued, expired, history>>

LogoutToken(h) ==
  /\ At(h, "logoutToken")
  /\ \/ /\ refreshTokens' = refreshTokens \ {req[h].old}
        /\ UNCHANGED <<dirty, faults>>
     \/ /\ UNCHANGED refreshTokens
        /\ dirty' = dirty \cup {req[h].user}
        /\ Fault
  /\ loggedOut' = IF req[h].live THEN loggedOut \cup {req[h].old} ELSE loggedOut
  /\ Return(h)
  /\ UNCHANGED <<users, sessions, stamp, clock, issued, expired, granted, missed>>

-----------------------------------------------------------------------------
\* expires_at of a stored token passes.
Expire(t) ==
  /\ t \in refreshTokens \ expired
  /\ expired' = expired \cup {t}
  /\ UNCHANGED <<tables, issued, req, history, faults>>

UsersAt(pcs) == {req[h].user : h \in {k \in Handlers : req[k].pc \in pcs}}

\* The process dies: every handler is gone, what was committed stays.
Crash ==
  /\ \E h \in Handlers : ~At(h, "idle")
  /\ Fault
  /\ req' = [h \in Handlers |-> Idle]
  /\ missed' = missed \cup UsersAt({"evict"})
  /\ dirty' = dirty \cup UsersAt({"deleteToken", "insertSession", "evict",
                                  "cleanup", "logoutToken"})
  /\ UNCHANGED <<tables, issued, expired, granted, loggedOut>>

Arrive(h) ==
  \/ \E u \in Users, new \in Tokens : Login(h, u, new) \/ Register(h, u, new)
  \/ \E old, new \in Tokens : Refresh(h, old, new)
  \/ \E old \in Tokens : Logout(h, old)

Statement(h) ==
  \/ Find(h) \/ DeleteExpired(h) \/ DeleteSession(h) \/ DeleteToken(h)
  \/ InsertToken(h) \/ InsertSession(h) \/ Evict(h) \/ Cleanup(h)
  \/ LogoutSession(h) \/ LogoutToken(h)

Next ==
  \/ \E h \in Handlers : Arrive(h) \/ Statement(h)
  \/ \E t \in Tokens : Expire(t)
  \/ Crash

Spec == Init /\ [][Next]_vars

-----------------------------------------------------------------------------
(* Properties.                                                              *)

\* Every variable stays in its type; sessions have a time stamp in the past.
TypeOK ==
  /\ users \subseteq Users
  /\ refreshTokens \subseteq Tokens /\ sessions \subseteq Tokens
  /\ stamp \in [Tokens -> Nat] /\ clock \in Nat
  /\ owner \in [Tokens -> Users \cup {NoUser}]
  /\ parent \in [Tokens -> Tokens \cup {NoToken}]
  /\ expired \subseteq Tokens
  /\ req \in [Handlers -> Requests]
  /\ granted \subseteq Tokens /\ loggedOut \subseteq Tokens
  /\ missed \subseteq Users /\ dirty \subseteq Users
  /\ faults \in 0..MaxFaults

EvictingFor(u) == {h \in Handlers : At(h, "evict") /\ req[h].user = u}

\* enforceSessionLimit runs after the insert and outside a transaction, so a
\* user can exceed MaxSessions, but only by the number of requests between
\* their session INSERT and their eviction, or since an eviction that failed;
\* any number of concurrent logins leaves at most MaxSessions behind.
SessionLimit ==
  \A u \in Users \ missed :
    Cardinality(SessionsOf(u)) <=
      MaxSessions + Cardinality(EvictingFor(u))

\* The handlers that will remove token t, give it a session, or run the
\* orphan clean-up of its owner.
Tending(h, t) ==
  \/ req[h].new = t /\ At(h, "insertSession")
  \/ req[h].user = owner[t] /\ req[h].pc \in {"evict", "cleanup"}
  \/ req[h].old = t /\ req[h].pc \in {"deleteToken", "logoutToken"}

\* A usable refresh token whose session is gone (evicted, logged out, rotated
\* or never stored) can still be redeemed, because RefreshToken looks only at
\* refresh_tokens.  Such a token exists only while a request is on its way to
\* deal with it, or after a fault until the owner's next clean-up.
OrphansAccounted ==
  \A t \in refreshTokens \ (expired \cup sessions) :
    owner[t] \in dirty \/ \E h \in Handlers : Tending(h, t)

\* RefreshToken ignores the errors of its two DELETEs.  The clean-up at the
\* end of the same request makes up for one of them: if at most one fault ever
\* happened, a token that was exchanged for a new one is unusable by the time
\* the client has the new one, and stays so.
RotationRevokes ==
  faults <= 1 =>
    \A t \in granted : parent[t] \in refreshTokens => parent[t] \in expired

\* Login and RefreshToken answer with a refresh token that is stored and has a
\* session, whatever happened to this user before, as long as no other request
\* of the same user overlaps and no statement of this one fails.  (A clean-up
\* that overlaps can take the new token for an orphan and delete it.)
AloneReplyUsable ==
  [][\A h \in Handlers :
       req[h].alone /\ req[h].new \in granted' \ granted
         => req[h].new \in refreshTokens' \cap sessions']_vars

\* Evicting, rotating, cleaning up and logging out delete rows of one user
\* only, the one whose token the request acts for.
OnlyOwnRows ==
  [][\A t \in Tokens :
       (t \in refreshTokens \ refreshTokens' \/ t \in sessions \ sessions')
         => \E h \in Handlers : req[h].user = owner[t] /\ req'[h] # req[h]]_vars

-----------------------------------------------------------------------------
(* What the clients see of their refresh tokens (TokenLedger).              *)

\* What RefreshToken would find for a token that a reply handed out.
ClientView(t) ==
  CASE t \notin granted -> "new"
    [] t \in granted /\ t \in refreshTokens \ expired -> "usable"
    [] OTHER -> "dead"

\* The ledger: exchanges are reliable as long as at most one fault can happen.
Ledger == INSTANCE TokenLedger WITH
  state <- [t \in Tokens |-> ClientView(t)], Rotates <- MaxFaults <= 1

\* The statements of overlapping requests, with faults and crashes, give their
\* clients what TokenLedger says: a token that was handed out and became useless
\* never comes back, whatever request is still going to store or delete; a reply
\* hands out one token, for the user who asked, and nobody else's token changes.
Implements == Ledger!Spec

-----------------------------------------------------------------------------
(* What the documentation says and the code does not do.                    *)

\* README: logout "Revoke tokens, end session": once the logout of a live
\* session has been answered, no token obtained from it has a session.
LogoutEndsSession ==
  \A t \in Tokens : parent[t] \in loggedOut => t \notin sessions

=============================================================================
