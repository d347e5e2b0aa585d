--------------------------- MODULE SessionsProofs ---------------------------
(***************************************************************************)
(* Proofs about Sessions, for any users, tokens, handlers, session limit    *)
(* and number of faults.  WellFormed relates what a handler holds in its    *)
(* local variables to the tables; the session limit, the accounting of      *)
(* orphan tokens and the isolation of users rest on it.                     *)
(***************************************************************************)
EXTENDS Sessions, FiniteSetTheorems, TLAPS

\* Program points at which a handler holds the presented token, and those at
\* which it holds the token it has generated.
HoldsOld == {"find", "deleteExpired", "deleteSession", "deleteToken",
             "logoutSession", "logoutToken"}
HoldsNew == {"find", "deleteExpired", "deleteSession", "deleteToken",
             "insertToken", "insertSession", "evict", "cleanup"}

\* A busy handler acts for one user, and the tokens it holds are that user's.
HandlerOK(h) ==
  /\ req[h].pc = "idle" => req[h].user = NoUser
  /\ req[h].pc # "idle" => req[h].user \in Users
  /\ req[h].pc \in HoldsOld => req[h].old \in Tokens /\ owner[req[h].old] = req[h].user
  /\ req[h].pc \in HoldsNew => req[h].new \in Tokens /\ owner[req[h].new] = req[h].user

\* No row, and no token in a client's hands, is without an owner; so a token
\* that is generated now is none of them.
RowsOwned == \A t \in refreshTokens \cup sessions \cup granted : owner[t] \in Users

WellFormed == TypeOK /\ RowsOwned /\ \A h \in Handlers : HandlerOK(h)

-----------------------------------------------------------------------------
(* What the steps of a handler do to req.                                   *)

\* All that a step of h leaves alone: the other handlers, and of h itself
\* everything but pc and alone.
Moves(h, pc) ==
  /\ req' \in [Handlers -> Requests]
  /\ req'[h].pc = pc /\ req'[h].op = req[h].op /\ req'[h].user = req[h].user
  /\ req'[h].old = req[h].old /\ req'[h].new = req[h].new
  /\ \A k \in Handlers \ {h} : req'[k] = req[k]

\* Goto and FaultGoto move h to another statement.
LEMMA GotoMoves ==
  ASSUME NEW h \in Handlers, NEW pc \in PCs, req \in [Handlers -> Requests],
         Goto(h, pc) \/ FaultGoto(h, pc)
  PROVE  Moves(h, pc)
BY DEF Goto, FaultGoto, Moves, Requests

\* Return makes h idle.
LEMMA ReturnIdles ==
  ASSUME NEW h \in Handlers, req \in [Handlers -> Requests], Return(h)
  PROVE  /\ req' \in [Handlers -> Requests]
         /\ req'[h] = Idle
         /\ \A k \in Handlers \ {h} : req'[k] = req[k]
BY DEF Return, Idle, Requests, Ops, PCs

\* Start gives h the request r and at most marks the others as not alone.
LEMMA StartStarts ==
  ASSUME NEW h \in Handlers, NEW r \in Requests, req \in [Handlers -> Requests],
         Start(h, r)
  PROVE  /\ req' \in [Handlers -> Requests]
         /\ req[h].pc = "idle"
         /\ req'[h].pc = r.pc /\ req'[h].op = r.op /\ req'[h].user = r.user
         /\ req'[h].old = r.old /\ req'[h].new = r.new
         /\ \A k \in Handlers \ {h} :
              /\ req'[k].pc = req[k].pc /\ req'[k].op = req[k].op
              /\ req'[k].user = req[k].user
              /\ req'[k].old = req[k].old /\ req'[k].new = req[k].new
<1>1. ASSUME NEW k \in Handlers
      PROVE  req'[k] \in Requests
  BY DEF Start, Requests
<1>2. QED
  BY <1>1 DEF Start, At, Requests

-----------------------------------------------------------------------------
(* WellFormed is inductive.                                                 *)

LEMMA InitWellFormed == Init => WellFormed
BY UsersAssumption, MaxFaultsAssumption
DEF Init, WellFormed, TypeOK, RowsOwned, HandlerOK, HoldsOld, HoldsNew,
    Requests, Ops, PCs, Idle

\* A busy handler that moves on holds at the next statement what it held.
LEMMA MovesHandlersOK ==
  ASSUME WellFormed, NEW h \in Handlers, NEW pc \in PCs, Moves(h, pc), owner' = owner,
         req[h].pc # "idle", pc # "idle",
         pc \in HoldsOld => req[h].pc \in HoldsOld,
         pc \in HoldsNew => req[h].pc \in HoldsNew
  PROVE  \A k \in Handlers : HandlerOK(k)'
<1> SUFFICES ASSUME NEW k \in Handlers PROVE HandlerOK(k)'
  OBVIOUS
<1>1. HandlerOK(k) /\ HandlerOK(h)
  BY DEF WellFormed
<1>2. CASE k = h
  BY <1>1, <1>2 DEF Moves, HandlerOK
<1>3. CASE k # h
  BY <1>1, <1>3 DEF Moves, HandlerOK
<1>4. QED
  BY <1>2, <1>3

\* A handler that has returned holds nothing.
LEMMA ReturnHandlersOK ==
  ASSUME WellFormed, NEW h \in Handlers, Return(h), owner' = owner
  PROVE  \A k \in Handlers : HandlerOK(k)'
<1>1. /\ req'[h] = Idle
      /\ \A k \in Handlers \ {h} : req'[k] = req[k]
  BY ReturnIdles DEF WellFormed, TypeOK
<1> SUFFICES ASSUME NEW k \in Handlers PROVE HandlerOK(k)'
  OBVIOUS
<1>2. CASE k = h
  BY <1>1, <1>2 DEF Idle, HandlerOK, HoldsOld, HoldsNew
<1>3. CASE k # h
  BY <1>1, <1>3 DEF WellFormed, HandlerOK
<1>4. QED
  BY <1>2, <1>3

\* A token that has no owner yet is held by no handler and is in no table.
LEMMA GenerateKeepsOwners ==
  ASSUME WellFormed, NEW u \in Users, NEW new \in Tokens,
         NEW old \in Tokens \cup {NoToken}, Generate(u, new, old)
  PROVE  /\ owner' \in [Tokens -> Users \cup {NoUser}]
         /\ parent' \in [Tokens -> Tokens \cup {NoToken}]
         /\ owner'[new] = u
         /\ \A t \in Tokens : owner[t] \in Users => owner'[t] = owner[t]
         /\ new \notin refreshTokens \cup sessions \cup granted
BY UsersAssumption DEF WellFormed, TypeOK, RowsOwned, Generate

\* A request that starts on h: what r holds is r.user's, the others keep theirs.
LEMMA StartHandlersOK ==
  ASSUME WellFormed, NEW h \in Handlers, NEW r \in Requests, Start(h, r),
         r.pc # "idle", r.user \in Users,
         r.pc \in HoldsOld => r.old \in Tokens /\ owner'[r.old] = r.user,
         r.pc \in HoldsNew => r.new \in Tokens /\ owner'[r.new] = r.user,
         \A t \in Tokens : owner[t] \in Users => owner'[t] = owner[t]
  PROVE  \A k \in Handlers : HandlerOK(k)'
<1>1. /\ req'[h].pc = r.pc /\ req'[h].user = r.user
      /\ req'[h].old = r.old /\ req'[h].new = r.new
      /\ \A k \in Handlers \ {h} :
           /\ req'[k].pc = req[k].pc /\ req'[k].user = req[k].user
           /\ req'[k].old = req[k].old /\ req'[k].new = req[k].new
  BY StartStarts DEF WellFormed, TypeOK
<1> SUFFICES ASSUME NEW k \in Handlers PROVE HandlerOK(k)'
  OBVIOUS
<1>2. CASE k = h
  BY <1>1, <1>2 DEF HandlerOK
<1>3. CASE k # h
  <2>1. HandlerOK(k)
    BY DEF WellFormed
  <2>2. req[k].pc \in HoldsOld \cup HoldsNew => req[k].pc # "idle"
    BY DEF HoldsOld, HoldsNew
  <2>3. QED
    BY <1>1, <1>3, <2>1, <2>2 DEF HandlerOK
<1>4. QED
  BY <1>2, <1>3

LEMMA LoginWellFormed ==
  ASSUME WellFormed, NEW h \in Handlers, NEW u \in Users, NEW new \in Tokens,
         Login(h, u, new)
  PROVE  WellFormed'
<1> DEFINE r == [Idle EXCEPT !.op = "login", !.pc = "insertToken",
                             !.user = u, !.new = new]
<1>1. /\ r \in Requests
      /\ r.pc = "insertToken" /\ r.user = u /\ r.new = new /\ r.old = NoToken
  BY DEF Idle, Requests, Ops, PCs
<1>2. Start(h, r) /\ Generate(u, new, NoToken)
  BY DEF Login
<1> HIDE DEF r
<1>3. /\ owner' \in [Tokens -> Users \cup {NoUser}]
      /\ parent' \in [Tokens -> Tokens \cup {NoToken}]
      /\ owner'[new] = u
      /\ \A t \in Tokens : owner[t] \in Users => owner'[t] = owner[t]
  BY <1>2, GenerateKeepsOwners
<1>4. \A k \in Handlers : HandlerOK(k)'
  BY <1>1, <1>2, <1>3, StartHandlersOK DEF HoldsOld
<1>5. req' \in [Handlers -> Requests]
  BY <1>1, <1>2, StartStarts DEF WellFormed, TypeOK
<1>6. QED
  BY <1>3, <1>4, <1>5
  DEF WellFormed, TypeOK, RowsOwned, Login, tables, history

LEMMA RegisterWellFormed ==
  ASSUME WellFormed, NEW h \in Handlers, NEW u \in Users, NEW new \in Tokens,
         Register(h, u, new)
  PROVE  WellFormed'
<1> DEFINE r == [Idle EXCEPT !.op = "register", !.pc = "insertToken",
                             !.user = u, !.new = new]
<1>1. /\ r \in Requests
      /\ r.pc = "insertToken" /\ r.user = u /\ r.new = new /\ r.old = NoToken
  BY DEF Idle, Requests, Ops, PCs
<1>2. Start(h, r) /\ Generate(u, new, NoToken)
  BY DEF Register
<1> HIDE DEF r
<1>3. /\ owner' \in [Tokens -> Users \cup {NoUser}]
      /\ parent' \in [Tokens -> Tokens \cup {NoToken}]
      /\ owner'[new] = u
      /\ \A t \in Tokens : owner[t] \in Users => owner'[t] = owner[t]
  BY <1>2, GenerateKeepsOwners
<1>4. \A k \in Handlers : HandlerOK(k)'
  BY <1>1, <1>2, <1>3, StartHandlersOK DEF HoldsOld
<1>5. req' \in [Handlers -> Requests]
  BY <1>1, <1>2, StartStarts DEF WellFormed, TypeOK
<1>6. QED
  BY <1>3, <1>4, <1>5
  DEF WellFormed, TypeOK, RowsOwned, Register, history

LEMMA RefreshWellFormed ==
  ASSUME WellFormed, NEW h \in Handlers, NEW old \in Tokens, NEW new \in Tokens,
         Refresh(h, old, new)
  PROVE  WellFormed'
<1> DEFINE u == owner[old]
           r == [Idle EXCEPT !.op = "refresh", !.pc = "find",
                             !.user = u, !.old = old, !.new = new]
<1>0. u \in Users
  BY DEF Refresh, WellFormed, RowsOwned
<1>1. /\ r \in Requests
      /\ r.pc = "find" /\ r.user = u /\ r.new = new /\ r.old = old
  BY <1>0 DEF Idle, Requests, Ops, PCs
<1>2. Start(h, r) /\ Generate(u, new, old)
  BY DEF Refresh
<1> HIDE DEF r
<1>3. /\ owner' \in [Tokens -> Users \cup {NoUser}]
      /\ parent' \in [Tokens -> Tokens \cup {NoToken}]
      /\ owner'[new] = u
      /\ \A t \in Tokens : owner[t] \in Users => owner'[t] = owner[t]
  BY <1>0, <1>2, GenerateKeepsOwners
<1>4. \A k \in Handlers : HandlerOK(k)'
  BY <1>0, <1>1, <1>2, <1>3, StartHandlersOK DEF HoldsOld
<1>5. req' \in [Handlers -> Requests]
  BY <1>1, <1>2, StartStarts DEF WellFormed, TypeOK
<1>6. QED
  BY <1>3, <1>4, <1>5
  DEF WellFormed, TypeOK, RowsOwned, Refresh, tables, history

LEMMA LogoutWellFormed ==
  ASSUME WellFormed, NEW h \in Handlers, NEW old \in Tokens, Logout(h, old)
  PROVE  WellFormed'
<1> DEFINE u == owner[old]
           b == old \in sessions
           r == [Idle EXCEPT !.op = "logout", !.pc = "logoutSession",
                             !.user = u, !.old = old, !.live = b]
<1>0. u \in Users /\ b \in BOOLEAN
  BY DEF Logout, WellFormed, RowsOwned
<1>2. Start(h, r) /\ owner' = owner
  BY DEF Logout, issued
<1> HIDE DEF b
<1>1. /\ r \in Requests
      /\ r.pc = "logoutSession" /\ r.user = u /\ r.old = old
  BY <1>0 DEF Idle, Requests, Ops, PCs
<1> HIDE DEF r
<1>4. \A k \in Handlers : HandlerOK(k)'
  BY <1>0, <1>1, <1>2, StartHandlersOK DEF HoldsNew
<1>5. req' \in [Handlers -> Requests]
  BY <1>1, <1>2, StartStarts DEF WellFormed, TypeOK
<1>6. QED
  BY <1>4, <1>5
  DEF WellFormed, TypeOK, RowsOwned, Logout, tables, issued, history

\* A fault is counted up to MaxFaults.
LEMMA FaultBounded ==
  ASSUME faults \in 0..MaxFaults, Fault
  PROVE  faults' \in 0..MaxFaults
BY MaxFaultsAssumption DEF Fault

\* A statement of h either moves h on or ends the request; what h holds then
\* is well formed as before.
LEMMA StatementHandlersOK ==
  ASSUME WellFormed, NEW h \in Handlers, Statement(h)
  PROVE  /\ req' \in [Handlers -> Requests]
         /\ \A k \in Handlers : HandlerOK(k)'
         /\ owner' = owner /\ parent' = parent
<1>0. req \in [Handlers -> Requests]
  BY DEF WellFormed, TypeOK
<1>1. owner' = owner /\ parent' = parent
  BY DEF Statement, Find, DeleteExpired, DeleteSession, DeleteToken, InsertToken,
         InsertSession, Evict, Cleanup, LogoutSession, LogoutToken, issued
<1>2. ASSUME NEW pc \in PCs, Goto(h, pc) \/ FaultGoto(h, pc),
             req[h].pc # "idle", pc # "idle",
             pc \in HoldsOld => req[h].pc \in HoldsOld,
             pc \in HoldsNew => req[h].pc \in HoldsNew
      PROVE  /\ req' \in [Handlers -> Requests]
             /\ \A k \in Handlers : HandlerOK(k)'
  <2>1. Moves(h, pc)
    BY <1>0, <1>2, GotoMoves
  <2>2. QED
    BY <1>1, <1>2, <2>1, MovesHandlersOK DEF Moves
<1>3. ASSUME Return(h)
      PROVE  /\ req' \in [Handlers -> Requests]
             /\ \A k \in Handlers : HandlerOK(k)'
  BY <1>0, <1>1, <1>3, ReturnIdles, ReturnHandlersOK
<1> USE DEF At, HoldsOld, HoldsNew, PCs
<1>4. CASE Find(h)
  BY <1>1, <1>2, <1>3, <1>4 DEF Find
<1>5. CASE DeleteExpired(h)
  BY <1>1, <1>3, <1>5 DEF DeleteExpired
<1>6. CASE DeleteSession(h)
  BY <1>1, <1>2, <1>6 DEF DeleteSession
<1>7. CASE DeleteToken(h)
  BY <1>1, <1>2, <1>7 DEF DeleteToken
<1>8. CASE InsertToken(h)
  BY <1>1, <1>2, <1>3, <1>8 DEF InsertToken
<1>9. CASE InsertSession(h)
  BY <1>1, <1>2, <1>9 DEF InsertSession
<1>10. CASE Evict(h)
  BY <1>1, <1>2, <1>10 DEF Evict
<1>11. CASE Cleanup(h)
  BY <1>1, <1>3, <1>11 DEF Cleanup
<1>12. CASE LogoutSession(h)
  BY <1>1, <1>2, <1>12 DEF LogoutSession
<1>13. CASE LogoutToken(h)
  BY <1>1, <1>3, <1>13 DEF LogoutToken
<1>14. QED
  BY <1>4, <1>5, <1>6, <1>7, <1>8, <1>9, <1>10, <1>11, <1>12, <1>13 DEF Statement

\* Rows are inserted only for the token a handler holds.
LEMMA StatementWellFormed ==
  ASSUME WellFormed, NEW h \in Handlers, Statement(h)
  PROVE  WellFormed'
<1>1. /\ req' \in [Handlers -> Requests]
      /\ \A k \in Handlers : HandlerOK(k)'
      /\ owner' = owner /\ parent' = parent
  BY StatementHandlersOK
<1>2. HandlerOK(h)
  BY DEF WellFormed
<1>3. faults \in 0..MaxFaults
  BY DEF WellFormed, TypeOK
<1> SUFFICES RowsOwned' /\ TypeOK'
  BY <1>1 DEF WellFormed
<1> USE <1>1, <1>2, <1>3, FaultBounded
    DEF WellFormed, TypeOK, RowsOwned, HandlerOK, HoldsOld, HoldsNew, At, tables, history
<1>4. CASE Find(h)
  BY <1>4 DEF Find
<1>5. CASE DeleteExpired(h)
  BY <1>5 DEF DeleteExpired
<1>6. CASE DeleteSession(h)
  BY <1>6 DEF DeleteSession
<1>7. CASE DeleteToken(h)
  BY <1>7 DEF DeleteToken
<1>8. CASE InsertToken(h)
  BY <1>8 DEF InsertToken
<1>9. CASE InsertSession(h)
  BY <1>9 DEF InsertSession
<1>10. CASE Evict(h)
  BY <1>10 DEF Evict
<1>11. CASE Cleanup(h)
  BY <1>11 DEF Cleanup
<1>12. CASE LogoutSession(h)
  BY <1>12 DEF LogoutSession
<1>13. CASE LogoutToken(h)
  BY <1>13 DEF LogoutToken
<1>14. QED
  BY <1>4, <1>5, <1>6, <1>7, <1>8, <1>9, <1>10, <1>11, <1>12, <1>13 DEF Statement

\* The process dies: idle handlers are well formed, the rows stay owned.
LEMMA CrashWellFormed ==
  ASSUME WellFormed, Crash
  PROVE  WellFormed'
<1>1. req' = [h \in Handlers |-> Idle] /\ owner' = owner
  BY DEF Crash, issued
<1>2. req' \in [Handlers -> Requests]
  BY <1>1 DEF Idle, Requests, Ops, PCs
<1>3. ASSUME NEW h \in Handlers PROVE HandlerOK(h)'
  BY <1>1, UsersAssumption DEF Idle, HandlerOK, HoldsOld, HoldsNew
<1>4. ASSUME NEW pcs, "idle" \notin pcs PROVE UsersAt(pcs) \subseteq Users
  BY <1>4 DEF UsersAt, WellFormed, HandlerOK
<1>5. /\ UsersAt({"evict"}) \subseteq Users
      /\ UsersAt({"deleteToken", "insertSession", "evict", "cleanup",
                  "logoutToken"}) \subseteq Users
  BY <1>4
<1>6. faults' \in 0..MaxFaults
  BY FaultBounded DEF Crash, WellFormed, TypeOK
<1>7. QED
  BY <1>2, <1>3, <1>5, <1>6
  DEF Crash, WellFormed, TypeOK, RowsOwned, tables, issued

LEMMA NextWellFormed == WellFormed /\ [Next]_vars => WellFormed'
<1> SUFFICES ASSUME WellFormed, [Next]_vars PROVE WellFormed'
  OBVIOUS
<1>1. ASSUME NEW h \in Handlers, Arrive(h) PROVE WellFormed'
  BY <1>1, LoginWellFormed, RegisterWellFormed, RefreshWellFormed, LogoutWellFormed
  DEF Arrive
<1>2. ASSUME NEW h \in Handlers, Statement(h) PROVE WellFormed'
  BY <1>2, StatementWellFormed
<1>3. ASSUME NEW t \in Tokens, Expire(t) PROVE WellFormed'
  BY <1>3 DEF Expire, WellFormed, TypeOK, RowsOwned, HandlerOK, tables, issued, history
<1>4. CASE Crash
  BY <1>4, CrashWellFormed
<1>5. CASE UNCHANGED vars
  BY <1>5 DEF vars, tables, issued, history, WellFormed, TypeOK, RowsOwned, HandlerOK
<1>6. QED
  BY <1>1, <1>2, <1>3, <1>4, <1>5 DEF Next

\* In every behaviour the tables, the history and what the handlers hold in
\* their variables are well typed, every row has an owner, and a handler of
\* generateTokens, RefreshToken or Logout holds tokens of its user only.
THEOREM SpecWellFormed == Spec => []WellFormed
<1>1. Init => WellFormed
  BY InitWellFormed
<1>2. WellFormed /\ [Next]_vars => WellFormed'
  BY NextWellFormed
<1>3. QED
  BY <1>1, <1>2, PTL DEF Spec

\* The variables keep their types (TypeOK).
THEOREM SpecTypeOK == Spec => []TypeOK
<1>1. WellFormed => TypeOK
  BY DEF WellFormed
<1>2. QED
  BY <1>1, SpecWellFormed, PTL

-----------------------------------------------------------------------------
(* Isolation of users.                                                      *)

\* A row disappears only in a statement of a handler that acts for its owner.
LEMMA StatementOwnRows ==
  ASSUME WellFormed, NEW h \in Handlers, Statement(h), NEW t \in Tokens,
         t \in refreshTokens \ refreshTokens' \/ t \in sessions \ sessions'
  PROVE  req[h].user = owner[t] /\ req'[h] # req[h]
<1>1. HandlerOK(h) /\ req \in [Handlers -> Requests]
  BY DEF WellFormed, TypeOK
<1>2. req[h].pc # "idle"
  BY DEF Statement, Find, DeleteExpired, DeleteSession, DeleteToken, InsertToken,
         InsertSession, Evict, Cleanup, LogoutSession, LogoutToken, At
<1>3. ASSUME NEW pc \in PCs \ {req[h].pc}, Goto(h, pc) \/ FaultGoto(h, pc)
      PROVE  req'[h] # req[h]
  BY <1>1, <1>3, GotoMoves DEF Moves
<1>4. ASSUME Return(h) PROVE req'[h] # req[h]
  BY <1>1, <1>2, <1>4, ReturnIdles DEF Idle
<1> USE DEF At, HoldsOld, HoldsNew, PCs, HandlerOK, SessionsOf, TokensOf
<1>5. CASE Find(h)
  BY <1>5 DEF Find, tables
<1>6. CASE DeleteExpired(h)
  BY <1>1, <1>4, <1>6 DEF DeleteExpired
<1>7. CASE DeleteSession(h)
  BY <1>1, <1>3, <1>7 DEF DeleteSession
<1>8. CASE DeleteToken(h)
  BY <1>1, <1>3, <1>8 DEF DeleteToken
<1>9. CASE InsertToken(h)
  BY <1>9 DEF InsertToken
<1>10. CASE InsertSession(h)
  BY <1>10 DEF InsertSession
<1>11. CASE Evict(h)
  BY <1>3, <1>11 DEF Evict
<1>12. CASE Cleanup(h)
  BY <1>4, <1>12 DEF Cleanup, Orphans
<1>13. CASE LogoutSession(h)
  BY <1>1, <1>3, <1>13 DEF LogoutSession
<1>14. CASE LogoutToken(h)
  BY <1>1, <1>4, <1>14 DEF LogoutToken
<1>15. QED
  BY <1>5, <1>6, <1>7, <1>8, <1>9, <1>10, <1>11, <1>12, <1>13, <1>14 DEF Statement

\* Eviction, rotation, clean-up and logout delete rows of one user only, the
\* one the handler acts for (OnlyOwnRows).
THEOREM SpecOnlyOwnRows == Spec => OnlyOwnRows
<1> DEFINE Own ==
      \A t \in Tokens :
        (t \in refreshTokens \ refreshTokens' \/ t \in sessions \ sessions')
          => \E h \in Handlers : req[h].user = owner[t] /\ req'[h] # req[h]
<1>1. WellFormed /\ [Next]_vars => [Own]_vars
  <2> SUFFICES ASSUME WellFormed, Next, NEW t \in Tokens,
                      t \in refreshTokens \ refreshTokens' \/ t \in sessions \ sessions'
               PROVE  \E h \in Handlers : req[h].user = owner[t] /\ req'[h] # req[h]
    OBVIOUS
  <2>1. ASSUME NEW h \in Handlers, Arrive(h) PROVE FALSE
    BY <2>1 DEF Arrive, Login, Register, Refresh, Logout, tables
  <2>2. ASSUME NEW h \in Handlers, Statement(h)
        PROVE  req[h].user = owner[t] /\ req'[h] # req[h]
    BY <2>2, StatementOwnRows
  <2>3. ASSUME NEW s \in Tokens, Expire(s) PROVE FALSE
    BY <2>3 DEF Expire, tables
  <2>4. CASE Crash
    BY <2>4 DEF Crash, tables
  <2>5. QED
    BY <2>1, <2>2, <2>3, <2>4 DEF Next
<1>2. QED
  BY <1>1, SpecWellFormed, PTL DEF Spec, OnlyOwnRows

-----------------------------------------------------------------------------
(* The session limit.                                                       *)

Limit(u) == Cardinality(SessionsOf(u)) <= MaxSessions + Cardinality(EvictingFor(u))

LEMMA FiniteSides ==
  ASSUME WellFormed, NEW u
  PROVE  /\ IsFiniteSet(SessionsOf(u)) /\ Cardinality(SessionsOf(u)) \in Nat
         /\ IsFiniteSet(EvictingFor(u)) /\ Cardinality(EvictingFor(u)) \in Nat
<1>1. SessionsOf(u) \subseteq Tokens /\ EvictingFor(u) \subseteq Handlers
  BY DEF SessionsOf, EvictingFor, WellFormed, TypeOK
<1>2. QED
  BY <1>1, TokensAssumption, HandlersAssumption, FS_Subset, FS_CardinalityType

\* Fewer sessions and no fewer evictions to come keep a user within the limit.
LEMMA ShrinkKeepsLimit ==
  ASSUME WellFormed, WellFormed', NEW u, Limit(u),
         SessionsOf(u)' \subseteq SessionsOf(u),
         EvictingFor(u) \subseteq EvictingFor(u)'
  PROVE  Limit(u)'
<1>1. Cardinality(SessionsOf(u)') <= Cardinality(SessionsOf(u))
  BY FiniteSides, FS_Subset
<1>2. IsFiniteSet(EvictingFor(u)') /\ Cardinality(EvictingFor(u)') \in Nat
      /\ IsFiniteSet(SessionsOf(u)') /\ Cardinality(SessionsOf(u)') \in Nat
  <2>1. SessionsOf(u)' \subseteq Tokens /\ EvictingFor(u)' \subseteq Handlers
    BY DEF SessionsOf, EvictingFor, WellFormed, TypeOK
  <2>2. QED
    BY <2>1, TokensAssumption, HandlersAssumption, FS_Subset, FS_CardinalityType
<1>3. Cardinality(EvictingFor(u)) <= Cardinality(EvictingFor(u)')
  BY <1>2, FS_Subset
<1>4. QED
  BY <1>1, <1>2, <1>3, FiniteSides, MaxSessionsAssumption DEF Limit

\* An arriving request inserts no session and evicts nothing yet.
LEMMA ArriveLimit ==
  ASSUME WellFormed, WellFormed', NEW h \in Handlers, Arrive(h), NEW u, Limit(u)
  PROVE  Limit(u)'
<1>1. sessions' = sessions
  BY DEF Arrive, Login, Register, Refresh, Logout, tables
<1>2. \A t \in sessions : owner'[t] = owner[t]
  <2>1. ASSUME NEW v, NEW new \in Tokens, NEW old, Generate(v, new, old)
        PROVE  \A t \in sessions : owner'[t] = owner[t]
    BY <2>1, UsersAssumption DEF Generate, WellFormed, RowsOwned, TypeOK
  <2>2. owner' = owner \/ \E v, old : \E new \in Tokens : Generate(v, new, old)
    BY DEF Arrive, Login, Register, Refresh, Logout, issued
  <2>3. QED
    BY <2>1, <2>2
<1>3. \A k \in EvictingFor(u) : req'[k].pc = req[k].pc /\ req'[k].user = req[k].user
  <2>1. ASSUME NEW r, Start(h, r), NEW k \in EvictingFor(u)
        PROVE  req'[k].pc = req[k].pc /\ req'[k].user = req[k].user
    BY <2>1 DEF Start, EvictingFor, At, WellFormed, TypeOK, Requests
  <2>2. \E r : Start(h, r)
    BY DEF Arrive, Login, Register, Refresh, Logout
  <2>3. QED
    BY <2>1, <2>2
<1>4. SessionsOf(u)' \subseteq SessionsOf(u) /\ EvictingFor(u) \subseteq EvictingFor(u)'
  BY <1>1, <1>2, <1>3 DEF SessionsOf, EvictingFor, At
<1>5. QED
  BY <1>4, ShrinkKeepsLimit

\* The inserted session is paid for by the handler that will evict.
LEMMA InsertSessionLimit ==
  ASSUME WellFormed, WellFormed', NEW h \in Handlers, InsertSession(h), NEW u, Limit(u)
  PROVE  Limit(u)'
<1>1. HandlerOK(h) /\ req \in [Handlers -> Requests] /\ owner' = owner
      /\ At(h, "insertSession")
  BY DEF WellFormed, TypeOK, InsertSession, issued
<1>2. Moves(h, "evict")
  BY <1>1, GotoMoves DEF InsertSession, PCs
<1>3. sessions' \subseteq sessions \cup {req[h].new} /\ owner[req[h].new] = req[h].user
  BY <1>1 DEF InsertSession, HandlerOK, HoldsNew, At
<1>4. CASE req[h].user # u
  <2>1. SessionsOf(u)' \subseteq SessionsOf(u) /\ EvictingFor(u) \subseteq EvictingFor(u)'
    BY <1>1, <1>2, <1>3, <1>4 DEF SessionsOf, EvictingFor, Moves, At
  <2>2. QED
    BY <2>1, ShrinkKeepsLimit
<1>5. CASE req[h].user = u
  <2> DEFINE S == SessionsOf(u) \cup {req[h].new}
             E == EvictingFor(u) \cup {h}
  <2>1. SessionsOf(u)' \subseteq S /\ EvictingFor(u)' = E /\ h \notin EvictingFor(u)
    BY <1>1, <1>2, <1>3, <1>5 DEF SessionsOf, EvictingFor, Moves, At
  <2>2. IsFiniteSet(S) /\ Cardinality(S) \in Nat
        /\ Cardinality(S) <= Cardinality(SessionsOf(u)) + 1
    <3>1. IsFiniteSet(SessionsOf(u)) /\ Cardinality(SessionsOf(u)) \in Nat
      BY FiniteSides
    <3>2. /\ IsFiniteSet(S)
          /\ Cardinality(S) = Cardinality(SessionsOf(u))
             \/ Cardinality(S) = Cardinality(SessionsOf(u)) + 1
      BY <3>1, FS_AddElement
    <3> HIDE DEF S
    <3>3. QED
      BY <3>1, <3>2
  <2>3. Cardinality(E) = Cardinality(EvictingFor(u)) + 1
    BY <2>1, FiniteSides, FS_AddElement
  <2>4. Cardinality(SessionsOf(u)') \in Nat
        /\ Cardinality(SessionsOf(u)') <= Cardinality(S)
    BY <2>1, <2>2, FS_Subset, FS_CardinalityType
  <2> HIDE DEF S, E
  <2>5. QED
    BY <2>1, <2>2, <2>3, <2>4, FiniteSides, MaxSessionsAssumption DEF Limit
<1>6. QED
  BY <1>4, <1>5

\* A successful eviction leaves at most MaxSessions of the user's sessions.
LEMMA EvictLimit ==
  ASSUME WellFormed, WellFormed', NEW h \in Handlers, Evict(h), NEW u,
         u \notin missed', u \notin missed => Limit(u)
  PROVE  Limit(u)'
<1>1. req \in [Handlers -> Requests] /\ owner' = owner /\ At(h, "evict")
  BY DEF WellFormed, TypeOK, Evict, issued
<1>2. Moves(h, "cleanup")
  BY <1>1, GotoMoves DEF Evict, PCs
<1>3. CASE req[h].user # u
  <2>1. u \notin missed
    BY <1>3 DEF Evict
  <2>2. SessionsOf(u)' \subseteq SessionsOf(u) /\ EvictingFor(u) \subseteq EvictingFor(u)'
    BY <1>1, <1>2, <1>3 DEF Evict, SessionsOf, EvictingFor, Moves, At
  <2>3. QED
    BY <2>1, <2>2, ShrinkKeepsLimit
<1>4. CASE req[h].user = u
  <2>1. PICK keep \in Newest(u) : sessions' = sessions \ (SessionsOf(u) \ keep)
    BY <1>4 DEF Evict
  <2>2. SessionsOf(u)' = keep /\ Cardinality(keep) <= MaxSessions
    BY <1>1, <2>1 DEF Newest, SessionsOf
  <2>3. EvictingFor(u)' \subseteq Handlers
    BY DEF EvictingFor
  <2>4. Cardinality(EvictingFor(u)') \in Nat
    BY <2>3, HandlersAssumption, FS_Subset, FS_CardinalityType
  <2>5. keep \subseteq Tokens
    BY <2>1 DEF Newest, SessionsOf, WellFormed, TypeOK
  <2>6. Cardinality(keep) \in Nat
    BY <2>5, TokensAssumption, FS_Subset, FS_CardinalityType
  <2>7. QED
    BY <2>2, <2>4, <2>6, MaxSessionsAssumption DEF Limit
<1>5. QED
  BY <1>3, <1>4

\* Every other statement at most deletes sessions and is not an eviction.
LEMMA OtherStatementLimit ==
  ASSUME WellFormed, WellFormed', NEW h \in Handlers, NEW u, Limit(u),
         \/ Find(h) \/ DeleteExpired(h) \/ DeleteSession(h) \/ DeleteToken(h)
         \/ InsertToken(h) \/ Cleanup(h) \/ LogoutSession(h) \/ LogoutToken(h)
  PROVE  Limit(u)'
<1>1. sessions' \subseteq sessions /\ owner' = owner
  BY DEF Find, DeleteExpired, DeleteSession, DeleteToken, InsertToken, Cleanup,
         LogoutSession, LogoutToken, tables, issued
<1>2. req[h].pc # "evict" /\ \A k \in Handlers \ {h} : req'[k] = req[k]
  BY DEF Find, DeleteExpired, DeleteSession, DeleteToken, InsertToken, Cleanup,
         LogoutSession, LogoutToken, Goto, FaultGoto, Return, At, WellFormed, TypeOK
<1>3. SessionsOf(u)' \subseteq SessionsOf(u) /\ EvictingFor(u) \subseteq EvictingFor(u)'
  BY <1>1, <1>2 DEF SessionsOf, EvictingFor, At
<1>4. QED
  BY <1>3, ShrinkKeepsLimit

\* However requests, faults and crashes interleave, a user whose last eviction
\* did not fail has at most MaxSessions sessions, plus one for each request
\* that has yet to run its eviction (SessionLimit).
THEOREM SpecSessionLimit == Spec => []SessionLimit
<1>1. Init => SessionLimit
  <2> SUFFICES ASSUME Init, NEW u \in Users PROVE Limit(u)
    BY DEF SessionLimit, Limit
  <2>1. WellFormed /\ SessionsOf(u) = {}
    BY InitWellFormed DEF Init, SessionsOf
  <2>2. QED
    BY <2>1, FiniteSides, FS_EmptySet, MaxSessionsAssumption DEF Limit
<1>2. WellFormed /\ SessionLimit /\ [Next]_vars => SessionLimit'
  <2> SUFFICES ASSUME WellFormed, SessionLimit, [Next]_vars,
                      NEW u \in Users, u \notin missed'
               PROVE  Limit(u)'
    BY DEF SessionLimit, Limit
  <2>0. WellFormed' /\ (u \notin missed => Limit(u))
    BY NextWellFormed DEF SessionLimit, Limit
  <2>1. ASSUME NEW h \in Handlers, Arrive(h) PROVE Limit(u)'
    <3>1. missed' = missed
      BY <2>1 DEF Arrive, Login, Register, Refresh, Logout, history
    <3>2. QED
      BY <2>0, <2>1, <3>1, ArriveLimit
  <2>2. ASSUME NEW h \in Handlers, Statement(h) PROVE Limit(u)'
    <3>1. CASE InsertSession(h)
      <4>1. missed' = missed
        BY <3>1 DEF InsertSession, history
      <4>2. QED
        BY <2>0, <3>1, <4>1, InsertSessionLimit
    <3>2. CASE Evict(h)
      BY <2>0, <3>2, EvictLimit
    <3>3. CASE \/ Find(h) \/ DeleteExpired(h) \/ DeleteSession(h) \/ DeleteToken(h)
               \/ InsertToken(h) \/ Cleanup(h) \/ LogoutSession(h) \/ LogoutToken(h)
      <4>1. missed' = missed
        BY <3>3 DEF Find, DeleteExpired, DeleteSession, DeleteToken, InsertToken,
                    Cleanup, LogoutSession, LogoutToken, history
      <4>2. QED
        BY <2>0, <3>3, <4>1, OtherStatementLimit
    <3>4. QED
      BY <2>2, <3>1, <3>2, <3>3 DEF Statement
  <2>3. ASSUME NEW t \in Tokens, Expire(t) PROVE Limit(u)'
    <3>1. missed' = missed /\ SessionsOf(u)' = SessionsOf(u)
          /\ EvictingFor(u)' = EvictingFor(u)
      BY <2>3 DEF Expire, history, tables, issued, SessionsOf, EvictingFor, At
    <3>2. QED
      BY <2>0, <3>1 DEF Limit
  <2>4. CASE Crash
    <3>1. u \notin missed /\ EvictingFor(u) = {} /\ SessionsOf(u)' = SessionsOf(u)
      BY <2>4 DEF Crash, UsersAt, EvictingFor, At, SessionsOf, tables, issued
    <3>2. QED
      BY <2>0, <3>1, ShrinkKeepsLimit
  <2>5. CASE UNCHANGED vars
    <3>1. missed' = missed /\ SessionsOf(u)' = SessionsOf(u)
          /\ EvictingFor(u)' = EvictingFor(u)
      BY <2>5 DEF vars, history, tables, issued, SessionsOf, EvictingFor, At
    <3>2. QED
      BY <2>0, <3>1 DEF Limit
  <2>6. QED
    BY <2>1, <2>2, <2>3, <2>4, <2>5 DEF Next
<1>3. QED
  BY <1>1, <1>2, SpecWellFormed, PTL DEF Spec

-----------------------------------------------------------------------------
(* Orphan refresh tokens.                                                   *)

Usable == refreshTokens \ expired
Tended(t) == owner[t] \in dirty \/ \E h \in Handlers : Tending(h, t)

\* A token that had no session before is still accounted for after a step of h
\* if h was not the one tending it and no account of a fault was closed.
LEMMA OthersTend ==
  ASSUME NEW h \in Handlers, NEW t, owner' = owner, Tended(t), ~Tending(h, t),
         owner[t] \in dirty => owner[t] \in dirty',
         \A k \in Handlers \ {h} : req'[k] = req[k]
  PROVE  Tended(t)'
BY DEF Tended, Tending, At

\* A handler that is about to tend a token.
LEMMA HandlerTends ==
  ASSUME NEW h \in Handlers, NEW t, Tending(h, t)'
  PROVE  Tended(t)'
BY DEF Tended

\* Arriving requests leave the tables and the busy handlers as they are.
LEMMA ArriveTended ==
  ASSUME WellFormed, NEW h \in Handlers, Arrive(h), NEW t \in refreshTokens, Tended(t)
  PROVE  Tended(t)'
<1>1. dirty' = dirty
  BY DEF Arrive, Login, Register, Refresh, Logout, history
<1>2. owner'[t] = owner[t]
  <2>1. ASSUME NEW v, NEW new \in Tokens, NEW old, Generate(v, new, old)
        PROVE  owner'[t] = owner[t]
    BY <2>1, UsersAssumption DEF Generate, WellFormed, RowsOwned, TypeOK
  <2>2. owner' = owner \/ \E v, old : \E new \in Tokens : Generate(v, new, old)
    BY DEF Arrive, Login, Register, Refresh, Logout, issued
  <2>3. QED
    BY <2>1, <2>2
<1>3. ASSUME NEW k \in Handlers, Tending(k, t) PROVE Tending(k, t)'
  <2>1. ASSUME NEW r, Start(h, r)
        PROVE  /\ k # h /\ req'[k].pc = req[k].pc /\ req'[k].user = req[k].user
               /\ req'[k].old = req[k].old /\ req'[k].new = req[k].new
    BY <1>3, <2>1 DEF Start, Tending, At, WellFormed, TypeOK, Requests
  <2>2. \E r : Start(h, r)
    BY DEF Arrive, Login, Register, Refresh, Logout
  <2>3. QED
    BY <1>2, <1>3, <2>1, <2>2 DEF Tending, At
<1>4. QED
  BY <1>1, <1>2, <1>3 DEF Tended

\* Each statement of a request leaves every usable token without a session to
\* a handler or to the account of a fault.
LEMMA StatementTended ==
  ASSUME WellFormed, OrphansAccounted, NEW h \in Handlers, Statement(h),
         NEW t \in Usable' \ sessions'
  PROVE  Tended(t)'
<1>1. HandlerOK(h) /\ req \in [Handlers -> Requests]
  BY DEF WellFormed, TypeOK
<1>2. owner' = owner /\ expired' = expired
  BY StatementHandlersOK
  DEF Statement, Find, DeleteExpired, DeleteSession, DeleteToken, InsertToken,
      InsertSession, Evict, Cleanup, LogoutSession, LogoutToken
<1>3. \A k \in Handlers \ {h} : req'[k] = req[k]
  BY <1>1 DEF Statement, Find, DeleteExpired, DeleteSession, DeleteToken, InsertToken,
         InsertSession, Evict, Cleanup, LogoutSession, LogoutToken,
         Goto, FaultGoto, Return
<1>4. t \in Usable \ sessions => Tended(t)
  BY DEF OrphansAccounted, Usable, Tended
<1>5. ASSUME NEW pc \in PCs, Goto(h, pc) \/ FaultGoto(h, pc)
      PROVE  Moves(h, pc)
  BY <1>1, <1>5, GotoMoves
<1> USE DEF At, HandlerOK, HoldsOld, HoldsNew, PCs, Usable
<1>6. CASE Find(h)
  <2>1. ~Tending(h, t) /\ t \in Usable \ sessions /\ dirty' = dirty
    BY <1>6 DEF Find, Tending, tables, history
  <2>2. QED
    BY <1>2, <1>3, <1>4, <2>1, OthersTend
<1>7. CASE DeleteExpired(h)
  <2>1. ~Tending(h, t) /\ t \in Usable \ sessions /\ dirty' = dirty
    BY <1>7 DEF DeleteExpired, Tending, history
  <2>2. QED
    BY <1>2, <1>3, <1>4, <2>1, OthersTend
<1>8. CASE DeleteSession(h)
  <2>1. dirty' = dirty /\ t \in Usable /\ Moves(h, "deleteToken")
    BY <1>2, <1>5, <1>8 DEF DeleteSession, history
  <2>2. CASE t = req[h].old
    BY <2>1, <2>2, HandlerTends DEF Moves, Tending
  <2>3. CASE t # req[h].old
    <3>1. ~Tending(h, t) /\ t \notin sessions
      BY <1>8, <2>3 DEF DeleteSession, Tending
    <3>2. QED
      BY <1>2, <1>3, <1>4, <2>1, <3>1, OthersTend
  <2>4. QED
    BY <2>2, <2>3
<1>9. CASE DeleteToken(h)
  <2>1. t \in Usable \ sessions
    BY <1>2, <1>9 DEF DeleteToken
  <2>2. CASE t = req[h].old
    BY <1>1, <1>2, <1>9, <2>2 DEF DeleteToken, Tended
  <2>3. CASE t # req[h].old
    <3>1. ~Tending(h, t) /\ dirty \subseteq dirty'
      BY <1>9, <2>3 DEF DeleteToken, Tending
    <3>2. QED
      BY <1>2, <1>3, <1>4, <2>1, <3>1, OthersTend
  <2>4. QED
    BY <2>2, <2>3
<1>10. CASE InsertToken(h)
  <2>1. CASE t = req[h].new /\ t \notin refreshTokens
    <3>1. CASE owner[t] \in dirty'
      BY <1>2, <3>1 DEF Tended
    <3>2. CASE owner[t] \notin dirty'
      <4>1. Goto(h, "insertSession")
        BY <1>1, <1>10, <2>1, <3>2 DEF InsertToken
      <4>2. Moves(h, "insertSession")
        BY <1>5, <4>1
      <4>3. QED
        BY <2>1, <4>2, HandlerTends DEF Moves, Tending
    <3>3. QED
      BY <3>1, <3>2
  <2>2. CASE t # req[h].new \/ t \in refreshTokens
    <3>1. t \in Usable \ sessions /\ ~Tending(h, t) /\ dirty \subseteq dirty'
      BY <1>2, <1>10, <2>2 DEF InsertToken, Tending
    <3>2. QED
      BY <1>2, <1>3, <1>4, <3>1, OthersTend
  <2>3. QED
    BY <2>1, <2>2
<1>11. CASE InsertSession(h)
  <2>1. t \in Usable \ sessions /\ dirty' = dirty /\ Moves(h, "evict")
    BY <1>2, <1>5, <1>11 DEF InsertSession, history
  <2>2. CASE t = req[h].new
    BY <1>1, <1>2, <1>11, <2>1, <2>2, HandlerTends DEF InsertSession, Moves, Tending
  <2>3. CASE t # req[h].new
    <3>1. ~Tending(h, t)
      BY <1>11, <2>3 DEF InsertSession, Tending
    <3>2. QED
      BY <1>2, <1>3, <1>4, <2>1, <3>1, OthersTend
  <2>4. QED
    BY <2>2, <2>3
<1>12. CASE Evict(h)
  <2>1. t \in Usable /\ dirty' = dirty /\ Moves(h, "cleanup")
    BY <1>2, <1>5, <1>12 DEF Evict
  <2>2. CASE owner[t] = req[h].user
    BY <1>2, <2>1, <2>2, HandlerTends DEF Moves, Tending
  <2>3. CASE owner[t] # req[h].user
    <3>1. t \notin sessions
      BY <1>12, <2>3 DEF Evict, SessionsOf
    <3>2. ~Tending(h, t)
      BY <1>12, <2>3 DEF Evict, Tending
    <3>3. QED
      BY <1>2, <1>3, <1>4, <2>1, <3>1, <3>2, OthersTend
  <2>4. QED
    BY <2>2, <2>3
<1>13. CASE Cleanup(h)
  <2>1. t \in Usable \ sessions
    BY <1>2, <1>13 DEF Cleanup
  <2>2. CASE owner[t] = req[h].user
    <3>1. t \in Orphans(req[h].user)
      BY <2>1, <2>2 DEF Orphans, TokensOf, SessionsOf
    <3>2. owner[t] \in dirty'
      BY <1>13, <2>2, <3>1 DEF Cleanup
    <3>3. QED
      BY <1>2, <3>2 DEF Tended
  <2>3. CASE owner[t] # req[h].user
    <3>1. ~Tending(h, t) /\ (owner[t] \in dirty => owner[t] \in dirty')
      BY <1>13, <2>3 DEF Cleanup, Tending
    <3>2. QED
      BY <1>2, <1>3, <1>4, <2>1, <3>1, OthersTend
  <2>4. QED
    BY <2>2, <2>3
<1>14. CASE LogoutSession(h)
  <2>1. dirty' = dirty /\ t \in Usable /\ Moves(h, "logoutToken")
    BY <1>2, <1>5, <1>14 DEF LogoutSession, history
  <2>2. CASE t = req[h].old
    BY <2>1, <2>2, HandlerTends DEF Moves, Tending
  <2>3. CASE t # req[h].old
    <3>1. ~Tending(h, t) /\ t \notin sessions
      BY <1>14, <2>3 DEF LogoutSession, Tending
    <3>2. QED
      BY <1>2, <1>3, <1>4, <2>1, <3>1, OthersTend
  <2>4. QED
    BY <2>2, <2>3
<1>15. CASE LogoutToken(h)
  <2>1. t \in Usable \ sessions
    BY <1>2, <1>15 DEF LogoutToken
  <2>2. CASE t = req[h].old
    BY <1>1, <1>2, <1>15, <2>2 DEF LogoutToken, Tended
  <2>3. CASE t # req[h].old
    <3>1. ~Tending(h, t) /\ dirty \subseteq dirty'
      BY <1>15, <2>3 DEF LogoutToken, Tending
    <3>2. QED
      BY <1>2, <1>3, <1>4, <2>1, <3>1, OthersTend
  <2>4. QED
    BY <2>2, <2>3
<1>16. QED
  BY <1>6, <1>7, <1>8, <1>9, <1>10, <1>11, <1>12, <1>13, <1>14, <1>15 DEF Statement

\* A crash leaves to the account of faults what the handlers were tending.
LEMMA CrashTended ==
  ASSUME WellFormed, Crash, NEW t \in refreshTokens, Tended(t)
  PROVE  Tended(t)'
<1>1. owner' = owner
  BY DEF Crash, issued
<1>2. ASSUME NEW h \in Handlers, Tending(h, t)
      PROVE  owner[t] \in UsersAt({"deleteToken", "insertSession", "evict",
                                   "cleanup", "logoutToken"})
  BY <1>2 DEF WellFormed, HandlerOK, HoldsOld, HoldsNew, Tending, At, UsersAt
<1>3. owner[t] \in dirty'
  BY <1>2 DEF Crash, Tended
<1>4. QED
  BY <1>1, <1>3 DEF Tended

\* A refresh token that can be redeemed but has no session is always on some
\* handler's way to be dealt with, or was left by a fault (OrphansAccounted).
THEOREM SpecOrphansAccounted == Spec => []OrphansAccounted
<1>1. Init => OrphansAccounted
  BY DEF Init, OrphansAccounted
<1>2. WellFormed /\ OrphansAccounted /\ [Next]_vars => OrphansAccounted'
  <2> SUFFICES ASSUME WellFormed, OrphansAccounted, [Next]_vars,
                      NEW t \in Usable' \ sessions'
               PROVE  Tended(t)'
    BY DEF OrphansAccounted, Usable, Tended
  <2>0. t \in Usable \ sessions => Tended(t)
    BY DEF OrphansAccounted, Usable, Tended
  <2>1. ASSUME NEW h \in Handlers, Arrive(h) PROVE Tended(t)'
    <3>1. t \in Usable \ sessions
      BY <2>1 DEF Arrive, Login, Register, Refresh, Logout, tables, Usable
    <3>2. QED
      BY <2>0, <2>1, <3>1, ArriveTended DEF Usable
  <2>2. ASSUME NEW h \in Handlers, Statement(h) PROVE Tended(t)'
    BY <2>2, StatementTended
  <2>3. ASSUME NEW s \in Tokens, Expire(s) PROVE Tended(t)'
    BY <2>0, <2>3 DEF Expire, Usable, Tended, Tending, At, tables, issued, history
  <2>4. CASE Crash
    <3>1. t \in Usable \ sessions
      BY <2>4 DEF Crash, tables, Usable
    <3>2. QED
      BY <2>0, <2>4, <3>1, CrashTended DEF Usable
  <2>5. CASE UNCHANGED vars
    BY <2>0, <2>5 DEF vars, Usable, Tended, Tending, At, tables, issued, history
  <2>6. QED
    BY <2>1, <2>2, <2>3, <2>4, <2>5 DEF Next
<1>3. QED
  BY <1>1, <1>2, SpecWellFormed, PTL DEF Spec

-----------------------------------------------------------------------------
(* Where tokens come from.                                                  *)

\* A token that a handler is about to hand out is known to nobody else, and it
\* descends from the token that was presented, which some reply handed out.
Lineage(h) ==
  IF req[h].pc \in HoldsNew
  THEN /\ req[h].new \notin granted
       /\ parent[req[h].new] = req[h].old
       /\ req[h].old \in granted \cup {NoToken}
       /\ req[h].old # NoToken => owner[req[h].old] = req[h].user
       /\ \A k \in Handlers \ {h} : req[k].new # req[h].new
  ELSE req[h].new = NoToken

Lineages ==
  /\ \A t \in granted : parent[t] \in granted \cup {NoToken}
  /\ \A h \in Handlers : Lineage(h)

\* A statement of h leaves the other handlers and the tokens' origins alone; h
\* returns, or goes on for the same user with the same tokens.
LEMMA StatementReq ==
  ASSUME WellFormed, NEW h \in Handlers, Statement(h)
  PROVE  /\ owner' = owner /\ parent' = parent /\ expired' = expired
         /\ \A k \in Handlers \ {h} : req'[k] = req[k]
         /\ \/ req'[h] = Idle
            \/ /\ req'[h].user = req[h].user
               /\ req'[h].old = req[h].old /\ req'[h].new = req[h].new
               /\ req'[h].alone => req[h].alone
               /\ req'[h].pc \in HoldsNew <=> req[h].pc \in HoldsNew
<1>0. req \in [Handlers -> Requests]
  BY DEF WellFormed, TypeOK
<1>1. owner' = owner /\ parent' = parent /\ expired' = expired
  BY StatementHandlersOK
  DEF Statement, Find, DeleteExpired, DeleteSession, DeleteToken, InsertToken,
      InsertSession, Evict, Cleanup, LogoutSession, LogoutToken
<1> DEFINE Others == \A k \in Handlers \ {h} : req'[k] = req[k]
           Same == /\ req'[h].user = req[h].user
                   /\ req'[h].old = req[h].old /\ req'[h].new = req[h].new
                   /\ req'[h].alone => req[h].alone
                   /\ req'[h].pc \in HoldsNew <=> req[h].pc \in HoldsNew
<1>2. ASSUME NEW pc \in PCs, Goto(h, pc) \/ FaultGoto(h, pc),
             pc \in HoldsNew <=> req[h].pc \in HoldsNew
      PROVE  Others /\ Same
  BY <1>0, <1>2 DEF Goto, FaultGoto, Requests
<1>3. ASSUME Return(h) PROVE Others /\ req'[h] = Idle
  BY <1>0, <1>3, ReturnIdles
<1> SUFFICES Others /\ (req'[h] = Idle \/ Same)
  BY <1>1
<1> HIDE DEF Others, Same
<1> USE DEF At, HoldsNew, PCs
<1>4. CASE Find(h)
  BY <1>2, <1>3, <1>4 DEF Find
<1>5. CASE DeleteExpired(h)
  BY <1>3, <1>5 DEF DeleteExpired
<1>6. CASE DeleteSession(h)
  BY <1>2, <1>6 DEF DeleteSession
<1>7. CASE DeleteToken(h)
  BY <1>2, <1>7 DEF DeleteToken
<1>8. CASE InsertToken(h)
  BY <1>2, <1>3, <1>8 DEF InsertToken
<1>9. CASE InsertSession(h)
  BY <1>2, <1>9 DEF InsertSession
<1>10. CASE Evict(h)
  BY <1>2, <1>10 DEF Evict
<1>11. CASE Cleanup(h)
  BY <1>3, <1>11 DEF Cleanup
<1>12. CASE LogoutSession(h)
  BY <1>2, <1>12 DEF LogoutSession
<1>13. CASE LogoutToken(h)
  BY <1>3, <1>13 DEF LogoutToken
<1>14. QED
  BY <1>4, <1>5, <1>6, <1>7, <1>8, <1>9, <1>10, <1>11, <1>12, <1>13 DEF Statement

\* A token without an owner is neither in a client's hands nor in a handler's.
LEMMA UnownedUnknown ==
  ASSUME WellFormed, Lineages, NEW t \in Tokens, owner[t] = NoUser
  PROVE  t \notin granted /\ \A k \in Handlers : req[k].new # t
<1>1. t \notin granted
  BY UsersAssumption DEF WellFormed, RowsOwned
<1>2. ASSUME NEW k \in Handlers PROVE req[k].new # t
  <2>1. CASE req[k].pc \in HoldsNew
    BY <2>1, UsersAssumption DEF WellFormed, HandlerOK, HoldsNew
  <2>2. CASE req[k].pc \notin HoldsNew
    BY <2>2, TokensAssumption DEF Lineages, Lineage
  <2>3. QED
    BY <2>1, <2>2
<1>3. QED
  BY <1>1, <1>2

\* A request that generates a token takes one that nobody knows.
LEMMA GenerateLineage ==
  ASSUME WellFormed, Lineages, NEW h \in Handlers, NEW r \in Requests, Start(h, r),
         r.pc \in HoldsNew, r.new \in Tokens, r.user \in Users,
         r.old \in granted \cup {NoToken},
         r.old # NoToken => owner[r.old] = r.user,
         Generate(r.user, r.new, r.old), granted' = granted
  PROVE  Lineages'
<1>1. /\ req[h].pc = "idle"
      /\ req'[h].pc = r.pc /\ req'[h].user = r.user
      /\ req'[h].old = r.old /\ req'[h].new = r.new
      /\ \A k \in Handlers \ {h} :
           /\ req'[k].pc = req[k].pc /\ req'[k].user = req[k].user
           /\ req'[k].old = req[k].old /\ req'[k].new = req[k].new
  BY StartStarts DEF WellFormed, TypeOK
<1>2. r.new \notin granted /\ \A k \in Handlers : req[k].new # r.new
  BY UnownedUnknown DEF Generate
<1>3. /\ parent'[r.new] = r.old
      /\ \A t : t # r.new => parent'[t] = parent[t]
      /\ \A t \in granted : owner'[t] = owner[t]
  BY <1>2 DEF Generate, WellFormed, TypeOK
<1>4. \A t \in granted' : parent'[t] \in granted' \cup {NoToken}
  BY <1>2, <1>3 DEF Lineages
<1>5. Lineage(h)'
  BY <1>1, <1>2, <1>3 DEF Lineage
<1>6. ASSUME NEW k \in Handlers \ {h} PROVE Lineage(k)'
  <2>1. Lineage(k) /\ req[k].new # r.new
    BY <1>2 DEF Lineages
  <2>2. CASE req[k].pc \in HoldsNew
    BY <1>1, <1>3, <2>1, <2>2 DEF Lineage
  <2>3. CASE req[k].pc \notin HoldsNew
    BY <1>1, <2>1, <2>3 DEF Lineage
  <2>4. QED
    BY <2>2, <2>3
<1>7. QED
  BY <1>4, <1>5, <1>6 DEF Lineages

LEMMA ArriveLineage ==
  ASSUME WellFormed, Lineages, NEW h \in Handlers, Arrive(h)
  PROVE  Lineages'
<1>0. granted' = granted
  BY DEF Arrive, Login, Register, Refresh, Logout, history
<1>1. ASSUME NEW op \in Ops, NEW u \in Users, NEW new \in Tokens,
             Start(h, [Idle EXCEPT !.op = op, !.pc = "insertToken", !.user = u, !.new = new]),
             Generate(u, new, NoToken)
      PROVE  Lineages'
  <2> DEFINE r == [Idle EXCEPT !.op = op, !.pc = "insertToken", !.user = u, !.new = new]
  <2>1. r \in Requests /\ r.pc = "insertToken" /\ r.user = u /\ r.new = new /\ r.old = NoToken
    BY DEF Idle, Requests, PCs
  <2>2. Start(h, r)
    BY <1>1
  <2> HIDE DEF r
  <2>3. QED
    BY <1>0, <1>1, <2>1, <2>2, GenerateLineage DEF HoldsNew
<1>2. ASSUME NEW u \in Users, NEW new \in Tokens, Login(h, u, new) \/ Register(h, u, new)
      PROVE  Lineages'
  BY <1>1, <1>2 DEF Login, Register, Ops
<1>3. ASSUME NEW old \in Tokens, NEW new \in Tokens, Refresh(h, old, new)
      PROVE  Lineages'
  <2> DEFINE r == [Idle EXCEPT !.op = "refresh", !.pc = "find",
                               !.user = owner[old], !.old = old, !.new = new]
  <2>1. old \in granted /\ owner[old] \in Users
    BY <1>3 DEF Refresh, WellFormed, RowsOwned
  <2>2. r \in Requests /\ r.pc = "find" /\ r.user = owner[old] /\ r.new = new /\ r.old = old
    BY <2>1 DEF Idle, Requests, Ops, PCs
  <2>3. Start(h, r) /\ Generate(owner[old], new, old)
    BY <1>3 DEF Refresh
  <2> HIDE DEF r
  <2>4. QED
    BY <1>0, <2>1, <2>2, <2>3, GenerateLineage DEF HoldsNew
<1>4. ASSUME NEW old \in Tokens, Logout(h, old)
      PROVE  Lineages'
  <2> DEFINE b == old \in sessions
             r == [Idle EXCEPT !.op = "logout", !.pc = "logoutSession",
                               !.user = owner[old], !.old = old, !.live = b]
  <2>1. owner[old] \in Users /\ b \in BOOLEAN
    BY <1>4 DEF Logout, WellFormed, RowsOwned
  <2>2. Start(h, r) /\ owner' = owner /\ parent' = parent
    BY <1>4 DEF Logout, issued
  <2> HIDE DEF b
  <2>3. r \in Requests /\ r.pc = "logoutSession" /\ r.new = NoToken
    BY <2>1 DEF Idle, Requests, Ops, PCs
  <2> HIDE DEF r
  <2>4. /\ req'[h].pc = "logoutSession" /\ req'[h].new = NoToken
        /\ \A k \in Handlers \ {h} :
             /\ req'[k].pc = req[k].pc /\ req'[k].user = req[k].user
             /\ req'[k].old = req[k].old /\ req'[k].new = req[k].new
    BY <2>2, <2>3, StartStarts DEF WellFormed, TypeOK
  <2>5. ASSUME NEW k \in Handlers PROVE Lineage(k)'
    <3>1. CASE k = h
      BY <2>4, <3>1 DEF Lineage, HoldsNew
    <3>2. CASE k # h /\ req[k].pc \in HoldsNew
      <4>1. req[k].new \in Tokens
        BY <3>2 DEF WellFormed, HandlerOK
      <4>2. QED
        BY <1>0, <2>2, <2>4, <3>2, <4>1, TokensAssumption DEF Lineages, Lineage
    <3>3. CASE k # h /\ req[k].pc \notin HoldsNew
      BY <2>4, <3>3 DEF Lineages, Lineage
    <3>4. QED
      BY <3>1, <3>2, <3>3
  <2>6. QED
    BY <1>0, <2>2, <2>5 DEF Lineages
<1>5. QED
  BY <1>2, <1>3, <1>4 DEF Arrive

\* Only the end of a clean-up hands out a token, the one of its handler.
LEMMA StatementGrants ==
  ASSUME NEW h \in Handlers, Statement(h)
  PROVE  \/ granted' = granted
         \/ Cleanup(h) /\ granted' = granted \cup {req[h].new}
BY DEF Statement, Find, DeleteExpired, DeleteSession, DeleteToken, InsertToken,
       InsertSession, Evict, Cleanup, LogoutSession, LogoutToken, history

LEMMA StatementLineage ==
  ASSUME WellFormed, Lineages, NEW h \in Handlers, Statement(h)
  PROVE  Lineages'
<1>1. /\ owner' = owner /\ parent' = parent
      /\ \A k \in Handlers \ {h} : req'[k] = req[k]
      /\ \/ req'[h] = Idle
         \/ /\ req'[h].user = req[h].user
            /\ req'[h].old = req[h].old /\ req'[h].new = req[h].new
            /\ req'[h].pc \in HoldsNew <=> req[h].pc \in HoldsNew
  BY StatementReq
<1>2. \/ granted' = granted
      \/ /\ granted' = granted \cup {req[h].new} /\ req'[h] = Idle
         /\ req[h].pc = "cleanup"
  BY StatementGrants, ReturnIdles DEF Cleanup, WellFormed, TypeOK, At
<1>3. \A t \in granted' : parent'[t] \in granted' \cup {NoToken}
  BY <1>1, <1>2 DEF Lineages, Lineage, HoldsNew
<1>4. ASSUME NEW k \in Handlers PROVE Lineage(k)'
  <2>1. Lineage(k)
    BY DEF Lineages
  <2>2. CASE k = h
    <3>1. CASE req'[h] = Idle
      BY <2>2, <3>1 DEF Idle, Lineage, HoldsNew
    <3>2. CASE req'[h] # Idle
      BY <1>1, <1>2, <2>1, <2>2, <3>2 DEF Lineage
    <3>3. QED
      BY <3>1, <3>2
  <2>3. CASE k # h
    <3>1. CASE req[k].pc \notin HoldsNew
      BY <1>1, <2>1, <2>3, <3>1 DEF Lineage
    <3>2. CASE req[k].pc \in HoldsNew
      <4>1. req[k].new \in Tokens /\ req[k].new # req[h].new
        BY <2>1, <2>3, <3>2 DEF Lineage, WellFormed, HandlerOK
      <4>2. req'[h].new = req[h].new \/ req'[h].new = NoToken
        BY <1>1 DEF Idle
      <4>3. \A j \in Handlers \ {k} : req'[j].new # req[k].new
        BY <1>1, <2>1, <3>2, <4>1, <4>2, TokensAssumption DEF Lineage
      <4>4. QED
        BY <1>1, <1>2, <2>1, <2>3, <3>2, <4>1, <4>3 DEF Lineage
    <3>3. QED
      BY <3>1, <3>2
  <2>4. QED
    BY <2>2, <2>3
<1>5. QED
  BY <1>3, <1>4 DEF Lineages

LEMMA NextLineage == WellFormed /\ Lineages /\ [Next]_vars => Lineages'
<1> SUFFICES ASSUME WellFormed, Lineages, [Next]_vars PROVE Lineages'
  OBVIOUS
<1>1. ASSUME NEW h \in Handlers, Arrive(h) PROVE Lineages'
  BY <1>1, ArriveLineage
<1>2. ASSUME NEW h \in Handlers, Statement(h) PROVE Lineages'
  BY <1>2, StatementLineage
<1>3. ASSUME NEW t \in Tokens, Expire(t) PROVE Lineages'
  BY <1>3 DEF Expire, Lineages, Lineage, issued, history
<1>4. CASE Crash
  BY <1>4 DEF Crash, Idle, Lineages, Lineage, HoldsNew, issued
<1>5. CASE UNCHANGED vars
  BY <1>5 DEF vars, Lineages, Lineage, issued, history
<1>6. QED
  BY <1>1, <1>2, <1>3, <1>4, <1>5 DEF Next

\* In every behaviour the tokens in flight are distinct and unknown to clients, and
\* what a request exchanges is a token some earlier reply handed out.
THEOREM SpecLineages == Spec => []Lineages
<1>1. Init => Lineages
  BY DEF Init, Idle, Lineages, Lineage, HoldsNew
<1>2. QED
  BY <1>1, NextLineage, SpecWellFormed, PTL DEF Spec

-----------------------------------------------------------------------------
(* Rotation.                                                                *)

\* A token that was handed out never comes back to a table it is not in.
LEMMA GrantedNotInserted ==
  ASSUME WellFormed, Lineages, [Next]_vars, NEW t \in granted
  PROVE  /\ t \in refreshTokens' => t \in refreshTokens
         /\ t \in sessions' => t \in sessions
<1>1. ASSUME NEW h \in Handlers, Arrive(h)
      PROVE  refreshTokens' = refreshTokens /\ sessions' = sessions
  BY <1>1 DEF Arrive, Login, Register, Refresh, Logout, tables
<1>2. ASSUME NEW h \in Handlers, Statement(h)
      PROVE  /\ t \in refreshTokens' => t \in refreshTokens
             /\ t \in sessions' => t \in sessions
  <2>1. req[h].pc \in HoldsNew => t # req[h].new
    BY DEF Lineages, Lineage
  <2>2. QED
    BY <1>2, <2>1
    DEF Statement, Find, DeleteExpired, DeleteSession, DeleteToken, InsertToken,
        InsertSession, Evict, Cleanup, LogoutSession, LogoutToken, tables, At, HoldsNew
<1>3. ASSUME NEW s \in Tokens, Expire(s)
      PROVE  refreshTokens' = refreshTokens /\ sessions' = sessions
  BY <1>3 DEF Expire, tables
<1>4. CASE Crash
  BY <1>4 DEF Crash, tables
<1>5. CASE UNCHANGED vars
  BY <1>5 DEF vars, tables
<1>6. QED
  BY <1>1, <1>2, <1>3, <1>4, <1>5 DEF Next

\* The statements between the two DELETEs of a refresh and its reply.
Exchanging == {"insertToken", "insertSession", "evict", "cleanup"}

\* How far the exchange of a token has come: its session went first, and if its
\* row is still there, that took a fault, and a first fault has left it an orphan.
Rotating(h) ==
  /\ At(h, "deleteToken") /\ faults = 0 => req[h].old \notin sessions
  /\ req[h].pc \in Exchanging /\ req[h].old \in refreshTokens =>
       faults # 0 /\ (faults = 1 => req[h].old \notin sessions)

Rotated == RotationRevokes /\ \A h \in Handlers : Rotating(h)

\* Whatever happens elsewhere, an exchange stays where it is.
LEMMA RotatingStays ==
  ASSUME WellFormed, WellFormed', Lineages, [Next]_vars, NEW h \in Handlers, Rotating(h),
         req'[h].old = req[h].old, faults' \in {faults, faults + 1},
         req[h].pc \in HoldsNew,
         \/ req'[h].pc = req[h].pc
         \/ req[h].pc \in Exchanging /\ req'[h].pc \in Exchanging
  PROVE  Rotating(h)'
<1>1. req[h].old = NoToken \/ req[h].old \in granted
  BY DEF Lineages, Lineage
<1>2. /\ req[h].old \in refreshTokens' => req[h].old \in refreshTokens
      /\ req[h].old \in sessions' => req[h].old \in sessions
  BY <1>1, GrantedNotInserted, TokensAssumption DEF WellFormed, TypeOK
<1>3. faults \in Nat /\ (faults' = 0 => faults = 0)
      /\ (faults' = 1 /\ faults # 0 => faults = 1)
  BY MaxFaultsAssumption DEF WellFormed, TypeOK
<1>4. QED
  BY <1>2, <1>3 DEF Rotating, At, Exchanging

\* A request that is not in an exchange has nothing to rotate.
LEMMA RotatingElsewhere ==
  ASSUME NEW h \in Handlers, req[h].pc \notin Exchanging \cup {"deleteToken"}
  PROVE  Rotating(h)
BY DEF Rotating, At

\* The statements of a request itself.
LEMMA StatementRotating ==
  ASSUME WellFormed, WellFormed', Lineages, NEW h \in Handlers, Statement(h), Rotating(h)
  PROVE  Rotating(h)'
<1>0. req \in [Handlers -> Requests] /\ req' \in [Handlers -> Requests]
      /\ faults \in Nat /\ [Next]_vars
  BY MaxFaultsAssumption DEF WellFormed, TypeOK, Next
<1>1. ASSUME Return(h) PROVE Rotating(h)'
  BY <1>0, <1>1, ReturnIdles DEF Idle, Rotating, At, Exchanging
<1>2. ASSUME NEW pc \in PCs, Goto(h, pc) \/ FaultGoto(h, pc) PROVE Moves(h, pc)
  BY <1>0, <1>2, GotoMoves
<1>3. CASE Find(h)
  <2>1. ASSUME NEW pc \in {"deleteSession", "deleteExpired"}, Goto(h, pc)
        PROVE  Rotating(h)'
    BY <1>2, <2>1 DEF PCs, Moves, Rotating, At, Exchanging
  <2>2. QED
    BY <1>1, <1>3, <2>1 DEF Find
<1>4. CASE DeleteExpired(h)
  BY <1>1, <1>4 DEF DeleteExpired
<1>5. CASE DeleteSession(h)
  <2>1. Moves(h, "deleteToken")
    BY <1>2, <1>5 DEF DeleteSession, PCs
  <2>2. req[h].old \notin sessions' \/ faults' # 0
    BY <1>0, <1>5 DEF DeleteSession, Fault
  <2>3. QED
    BY <2>1, <2>2 DEF Moves, Rotating, At, Exchanging
<1>6. CASE DeleteToken(h)
  <2>1. Moves(h, "insertToken") /\ At(h, "deleteToken") /\ sessions' = sessions
    BY <1>2, <1>6 DEF DeleteToken, PCs
  <2>2. req[h].old \notin refreshTokens' \/ faults' = faults + 1
    BY <1>6 DEF DeleteToken, Fault
  <2>3. QED
    BY <1>0, <2>1, <2>2 DEF Moves, Rotating, At, Exchanging
<1>7. ASSUME NEW pc \in Exchanging, Goto(h, pc) \/ FaultGoto(h, pc),
             req[h].pc \in Exchanging, faults' \in {faults, faults + 1}
      PROVE  Rotating(h)'
  <2>1. Moves(h, pc)
    BY <1>2, <1>7 DEF PCs, Exchanging
  <2>2. QED
    BY <1>0, <1>7, <2>1, RotatingStays DEF Moves, Exchanging, HoldsNew
<1>8. CASE InsertToken(h)
  BY <1>1, <1>7, <1>8 DEF InsertToken, At, Exchanging
<1>9. CASE InsertSession(h)
  BY <1>7, <1>9 DEF InsertSession, Fault, At, Exchanging
<1>10. CASE Evict(h)
  BY <1>7, <1>10 DEF Evict, Fault, At, Exchanging
<1>11. CASE Cleanup(h)
  BY <1>1, <1>11 DEF Cleanup
<1>12. CASE LogoutSession(h)
  <2>1. Moves(h, "logoutToken")
    BY <1>2, <1>12 DEF LogoutSession, PCs
  <2>2. QED
    BY <2>1 DEF Moves, Rotating, At, Exchanging
<1>13. CASE LogoutToken(h)
  BY <1>1, <1>13 DEF LogoutToken
<1>14. QED
  BY <1>3, <1>4, <1>5, <1>6, <1>8, <1>9, <1>10, <1>11, <1>12, <1>13 DEF Statement

\* What was exchanged before stays unusable.
LEMMA OldRotations ==
  ASSUME WellFormed, WellFormed', Lineages, RotationRevokes, [Next]_vars,
         faults' <= 1, faults' \in {faults, faults + 1},
         expired \subseteq expired', NEW t \in granted,
         parent'[t] = parent[t], parent[t] \in refreshTokens'
  PROVE  parent[t] \in expired'
<1>1. parent[t] \in granted
  BY TokensAssumption DEF Lineages, WellFormed, TypeOK
<1>2. parent[t] \in refreshTokens
  BY <1>1, GrantedNotInserted
<1>3. faults <= 1
  BY MaxFaultsAssumption DEF WellFormed, TypeOK
<1>4. QED
  BY <1>2, <1>3 DEF RotationRevokes

\* The token a reply is about to hand out: what it was exchanged for is gone, or
\* the clean-up takes it.
LEMMA CleanupRotates ==
  ASSUME WellFormed, Lineages, NEW h \in Handlers, Cleanup(h), Rotating(h), faults' <= 1,
         parent[req[h].new] \in refreshTokens'
  PROVE  parent[req[h].new] \in expired'
<1> DEFINE old == req[h].old
<1>1. /\ parent[req[h].new] = old /\ At(h, "cleanup")
      /\ old \in granted \cup {NoToken}
      /\ old # NoToken => owner[old] = req[h].user
  BY DEF Cleanup, Lineages, Lineage, HoldsNew, At
<1>2. old \in refreshTokens /\ old \in refreshTokens' /\ expired' = expired
  BY <1>1 DEF Cleanup
<1>3. faults # 0 /\ (faults = 1 => old \notin sessions)
  BY <1>1, <1>2 DEF Rotating, Exchanging, At
<1>4. faults \in Nat
  BY MaxFaultsAssumption DEF WellFormed, TypeOK
<1>5. faults' = faults /\ refreshTokens' = refreshTokens \ Orphans(req[h].user)
  BY <1>3, <1>4 DEF Cleanup, Fault
<1>6. old \notin sessions
  BY <1>3, <1>4, <1>5
<1>7. owner[old] = req[h].user
  BY <1>1, <1>2, TokensAssumption DEF WellFormed, TypeOK
<1>8. QED
  BY <1>1, <1>2, <1>5, <1>6, <1>7 DEF Orphans, TokensOf, SessionsOf

LEMMA NextRotated == WellFormed /\ Lineages /\ Rotated /\ [Next]_vars => Rotated'
<1> SUFFICES ASSUME WellFormed, Lineages, Rotated, [Next]_vars PROVE Rotated'
  OBVIOUS
<1>0. WellFormed' /\ faults \in Nat
  BY NextWellFormed, MaxFaultsAssumption DEF WellFormed, TypeOK
<1>1. ASSUME expired \subseteq expired', faults' \in {faults, faults + 1},
             granted' = granted, \A t \in granted : parent'[t] = parent[t]
      PROVE  RotationRevokes'
  BY <1>0, <1>1, OldRotations DEF RotationRevokes, Rotated
<1>2. ASSUME NEW k \in Handlers, req'[k].pc = req[k].pc, req'[k].old = req[k].old,
             faults' \in {faults, faults + 1}
      PROVE  Rotating(k)'
  <2>0. Rotating(k)
    BY DEF Rotated
  <2>1. CASE req[k].pc \in HoldsNew
    BY <1>0, <1>2, <2>0, <2>1, RotatingStays
  <2>2. CASE req[k].pc \notin HoldsNew
    BY <1>2, <2>2 DEF Rotating, At, Exchanging, HoldsNew
  <2>3. QED
    BY <2>1, <2>2
<1>3. ASSUME NEW h \in Handlers, Arrive(h) PROVE Rotated'
  <2>1. /\ expired' = expired /\ faults' = faults /\ granted' = granted
        /\ refreshTokens' = refreshTokens
    BY <1>3 DEF Arrive, Login, Register, Refresh, Logout, tables, history
  <2>2. \A t \in granted : parent'[t] = parent[t]
    <3>1. ASSUME NEW v, NEW new \in Tokens, NEW old, Generate(v, new, old)
          PROVE  \A t \in granted : parent'[t] = parent[t]
      BY <3>1, UnownedUnknown DEF Generate, WellFormed, TypeOK
    <3>2. parent' = parent \/ \E v, old : \E new \in Tokens : Generate(v, new, old)
      BY <1>3 DEF Arrive, Login, Register, Refresh, Logout, issued
    <3>3. QED
      BY <3>1, <3>2
  <2>3. ASSUME NEW r \in Requests, Start(h, r),
               r.pc \in Exchanging \cup {"deleteToken"} => r.pc = "insertToken" /\ r.old = NoToken
        PROVE  \A k \in Handlers : Rotating(k)'
    <3>1. /\ req'[h].pc = r.pc /\ req'[h].old = r.old
          /\ \A k \in Handlers \ {h} : req'[k].pc = req[k].pc /\ req'[k].old = req[k].old
      BY <2>3, StartStarts DEF WellFormed, TypeOK
    <3>2. Rotating(h)'
      BY <2>1, <2>3, <3>1, TokensAssumption DEF Rotating, At, Exchanging, WellFormed, TypeOK
    <3>3. QED
      BY <1>2, <2>1, <3>1, <3>2
  <2>4. ASSUME NEW op \in Ops, NEW u \in Users, NEW new \in Tokens,
               Start(h, [Idle EXCEPT !.op = op, !.pc = "insertToken", !.user = u, !.new = new])
        PROVE  \A k \in Handlers : Rotating(k)'
    <3> DEFINE r == [Idle EXCEPT !.op = op, !.pc = "insertToken", !.user = u, !.new = new]
    <3>1. r \in Requests /\ r.pc = "insertToken" /\ r.old = NoToken
      BY DEF Idle, Requests, PCs
    <3>2. Start(h, r)
      BY <2>4
    <3> HIDE DEF r
    <3>3. QED
      BY <2>3, <3>1, <3>2
  <2>5. ASSUME NEW u \in Users, NEW new \in Tokens, Login(h, u, new) \/ Register(h, u, new)
        PROVE  \A k \in Handlers : Rotating(k)'
    BY <2>4, <2>5 DEF Login, Register, Ops
  <2>6. ASSUME NEW old \in Tokens, NEW new \in Tokens, Refresh(h, old, new)
        PROVE  \A k \in Handlers : Rotating(k)'
    <3> DEFINE r == [Idle EXCEPT !.op = "refresh", !.pc = "find",
                                 !.user = owner[old], !.old = old, !.new = new]
    <3>1. owner[old] \in Users
      BY <2>6 DEF Refresh, WellFormed, RowsOwned
    <3>2. r \in Requests /\ r.pc = "find"
      BY <3>1 DEF Idle, Requests, Ops, PCs
    <3>3. Start(h, r)
      BY <2>6 DEF Refresh
    <3> HIDE DEF r
    <3>4. QED
      BY <2>3, <3>2, <3>3 DEF Exchanging
  <2>7. ASSUME NEW old \in Tokens, Logout(h, old)
        PROVE  \A k \in Handlers : Rotating(k)'
    <3> DEFINE b == old \in sessions
               r == [Idle EXCEPT !.op = "logout", !.pc = "logoutSession",
                                 !.user = owner[old], !.old = old, !.live = b]
    <3>1. owner[old] \in Users /\ b \in BOOLEAN
      BY <2>7 DEF Logout, WellFormed, RowsOwned
    <3>2. Start(h, r)
      BY <2>7 DEF Logout
    <3> HIDE DEF b
    <3>3. r \in Requests /\ r.pc = "logoutSession"
      BY <3>1 DEF Idle, Requests, Ops, PCs
    <3> HIDE DEF r
    <3>4. QED
      BY <2>3, <3>2, <3>3 DEF Exchanging
  <2>8. QED
    BY <1>1, <1>3, <2>1, <2>2, <2>5, <2>6, <2>7 DEF Arrive, Rotated
<1>4. ASSUME NEW h \in Handlers, Statement(h) PROVE Rotated'
  <2>1. /\ parent' = parent /\ expired' = expired
        /\ \A k \in Handlers \ {h} : req'[k] = req[k]
    BY <1>4, StatementReq
  <2>2. faults' \in {faults, faults + 1}
    BY <1>4 DEF Statement, Find, DeleteExpired, DeleteSession, DeleteToken, InsertToken,
                InsertSession, Evict, Cleanup, LogoutSession, LogoutToken, Fault
  <2>3. \A k \in Handlers : Rotating(k)'
    BY <1>0, <1>2, <1>4, <2>1, <2>2, StatementRotating DEF Rotated
  <2>4. RotationRevokes'
    <3>1. CASE granted' = granted
      BY <1>1, <2>1, <2>2, <3>1
    <3>2. CASE Cleanup(h) /\ granted' = granted \cup {req[h].new}
      <4> SUFFICES ASSUME faults' <= 1, NEW t \in granted', parent[t] \in refreshTokens'
                   PROVE  parent[t] \in expired'
        BY <2>1 DEF RotationRevokes
      <4>1. CASE t \in granted
        BY <1>0, <2>1, <2>2, <4>1, OldRotations DEF Rotated
      <4>2. CASE t = req[h].new
        BY <3>2, <4>2, CleanupRotates DEF Rotated
      <4>3. QED
        BY <3>2, <4>1, <4>2
    <3>3. QED
      BY <1>4, <3>1, <3>2, StatementGrants
  <2>5. QED
    BY <2>3, <2>4 DEF Rotated
<1>5. ASSUME NEW t \in Tokens, Expire(t) PROVE Rotated'
  <2>1. req' = req /\ faults' = faults /\ granted' = granted /\ parent' = parent
        /\ expired \subseteq expired'
    BY <1>5 DEF Expire, issued, history
  <2>2. QED
    BY <1>1, <1>2, <2>1 DEF Rotated
<1>6. CASE Crash
  <2>1. /\ req' = [h \in Handlers |-> Idle] /\ faults' = faults + 1
        /\ granted' = granted /\ parent' = parent /\ expired' = expired
    BY <1>6 DEF Crash, issued, Fault
  <2>2. \A k \in Handlers : Rotating(k)'
    BY <2>1 DEF Idle, Rotating, At, Exchanging
  <2>3. QED
    BY <1>1, <2>1, <2>2 DEF Rotated
<1>7. CASE UNCHANGED vars
  BY <1>1, <1>2, <1>7 DEF vars, Rotated, issued, history
<1>8. QED
  BY <1>3, <1>4, <1>5, <1>6, <1>7 DEF Next

\* If at most one fault ever happened, a token that was exchanged for a new one is
\* unusable from when the client has the new one (RotationRevokes).
THEOREM SpecRotationRevokes == Spec => []RotationRevokes
<1>1. Init => Rotated
  BY DEF Init, Idle, Rotated, RotationRevokes, Rotating, At, Exchanging
<1>2. Rotated => RotationRevokes
  BY DEF Rotated
<1>3. QED
  BY <1>1, <1>2, NextRotated, SpecLineages, SpecWellFormed, PTL DEF Spec

-----------------------------------------------------------------------------
(* Requests that nobody overlaps.                                           *)

\* As long as a request is alone its user has no other, and what it has stored
\* is still there; when it evicts, its session is the newest of the user.
Undisturbed(h) ==
  req[h].alone =>
    /\ req[h].pc # "idle"
    /\ \A k \in Handlers \ {h} : req[k].user # req[h].user
    /\ req[h].pc \in {"insertSession", "evict", "cleanup"} => req[h].new \in refreshTokens
    /\ req[h].pc \in {"evict", "cleanup"} => req[h].new \in sessions
    /\ At(h, "evict") => \A t \in SessionsOf(req[h].user) \ {req[h].new} :
                           stamp[t] < stamp[req[h].new]

StampsPast == \A t \in sessions : stamp[t] < clock
Settled == StampsPast /\ \A h \in Handlers : Undisturbed(h)

\* A statement of h touches only rows of the user that h acts for.
LEMMA StatementIsolated ==
  ASSUME WellFormed, NEW h \in Handlers, Statement(h),
         NEW t \in Tokens, owner[t] # req[h].user
  PROVE  /\ t \in refreshTokens' <=> t \in refreshTokens
         /\ t \in sessions' <=> t \in sessions
         /\ stamp'[t] = stamp[t]
<1>1. /\ t \in refreshTokens => t \in refreshTokens'
      /\ t \in sessions => t \in sessions'
  BY StatementOwnRows
<1>2. req[h].pc \in HoldsNew => t # req[h].new
  BY DEF WellFormed, HandlerOK
<1>3. /\ t \in refreshTokens' => t \in refreshTokens
      /\ t \in sessions' => t \in sessions
  BY <1>2
  DEF Statement, Find, DeleteExpired, DeleteSession, DeleteToken, InsertToken,
      InsertSession, Evict, Cleanup, LogoutSession, LogoutToken, tables, At, HoldsNew
<1>4. stamp'[t] = stamp[t]
  BY <1>2
  DEF Statement, Find, DeleteExpired, DeleteSession, DeleteToken, InsertToken,
      InsertSession, Evict, Cleanup, LogoutSession, LogoutToken, tables, At, HoldsNew,
      WellFormed, TypeOK
<1>5. QED
  BY <1>1, <1>3, <1>4

\* The statements of others do not disturb a request that is alone.
LEMMA OthersUndisturbed ==
  ASSUME WellFormed, NEW h \in Handlers, Statement(h),
         NEW k \in Handlers \ {h}, Undisturbed(k)
  PROVE  Undisturbed(k)'
<1>1. /\ owner' = owner /\ \A j \in Handlers \ {h} : req'[j] = req[j]
      /\ req'[h].user \in {NoUser, req[h].user}
  BY StatementReq DEF Idle
<1> SUFFICES ASSUME req[k].alone PROVE Undisturbed(k)'
  BY <1>1 DEF Undisturbed
<1>2. /\ req[k].pc # "idle" /\ req[k].user \in Users /\ req[h].user # req[k].user
      /\ \A j \in Handlers \ {k} : req[j].user # req[k].user
  BY DEF Undisturbed, WellFormed, HandlerOK
<1>3. \A j \in Handlers \ {k} : req'[j].user # req'[k].user
  BY <1>1, <1>2, UsersAssumption
<1>4. req[k].pc \in HoldsNew => req[k].new \in Tokens /\ owner[req[k].new] = req[k].user
  BY DEF WellFormed, HandlerOK
<1>5. req[k].pc \in HoldsNew =>
        /\ req[k].new \in refreshTokens' <=> req[k].new \in refreshTokens
        /\ req[k].new \in sessions' <=> req[k].new \in sessions
        /\ stamp'[req[k].new] = stamp[req[k].new]
  BY <1>2, <1>4, StatementIsolated
<1>6. \A t \in SessionsOf(req[k].user)' : t \in SessionsOf(req[k].user) /\ stamp'[t] = stamp[t]
  <2>1. sessions' \subseteq Tokens
    BY StatementWellFormed DEF WellFormed, TypeOK
  <2>2. QED
    BY <1>1, <1>2, <2>1, StatementIsolated DEF SessionsOf
<1>7. req'[k] = req[k] /\ (req[k].pc \in HoldsNew => req[k].new \in Tokens)
  BY <1>1, <1>4
<1>8. ASSUME At(k, "evict"), NEW t \in SessionsOf(req[k].user)', t # req[k].new
      PROVE  stamp'[t] < stamp'[req[k].new]
  <2>1. t \in SessionsOf(req[k].user) \ {req[k].new} /\ stamp'[t] = stamp[t]
    BY <1>6, <1>8
  <2>2. stamp[t] < stamp[req[k].new]
    BY <1>8, <2>1 DEF Undisturbed
  <2>3. QED
    BY <1>5, <1>8, <2>1, <2>2 DEF At, HoldsNew
<1>9. QED
  BY <1>2, <1>3, <1>5, <1>7, <1>8 DEF Undisturbed, At, HoldsNew

\* The newest session of a user survives an eviction.
LEMMA NewestKept ==
  ASSUME NEW u, NEW new \in SessionsOf(u), NEW keep \in Newest(u), stamp \in [Tokens -> Nat],
         sessions \subseteq Tokens,
         \A t \in SessionsOf(u) \ {new} : stamp[t] < stamp[new]
  PROVE  new \in keep
<1>1. CASE keep = {}
  BY <1>1, FS_EmptySet, MaxSessionsAssumption DEF Newest
<1>2. CASE keep # {} /\ new \notin keep
  <2>1. PICK t \in keep : TRUE
    BY <1>2
  <2>2. t \in SessionsOf(u) \ {new} /\ new \in SessionsOf(u) \ keep
    BY <1>2, <2>1 DEF Newest
  <2>3. stamp[t] \in Nat /\ stamp[new] \in Nat
    BY <2>2 DEF SessionsOf
  <2>4. stamp[t] >= stamp[new] /\ stamp[t] < stamp[new]
    BY <2>1, <2>2 DEF Newest
  <2>5. QED
    BY <2>3, <2>4
<1>3. QED
  BY <1>1, <1>2

\* The statements of a request that is alone do what its reply will promise.
LEMMA OwnUndisturbed ==
  ASSUME WellFormed, StampsPast, NEW h \in Handlers, Statement(h), Undisturbed(h)
  PROVE  Undisturbed(h)'
<1>0. /\ req \in [Handlers -> Requests] /\ HandlerOK(h)
      /\ stamp \in [Tokens -> Nat] /\ clock \in Nat /\ sessions \subseteq Tokens
      /\ owner' = owner
  BY StatementReq DEF WellFormed, TypeOK
<1>1. ASSUME Return(h) PROVE Undisturbed(h)'
  BY <1>0, <1>1, ReturnIdles DEF Idle, Undisturbed
<1>2. ASSUME NEW pc \in PCs, FaultGoto(h, pc) PROVE Undisturbed(h)'
  BY <1>0, <1>2 DEF FaultGoto, Undisturbed, Requests
<1>3. ASSUME NEW pc \in PCs, Goto(h, pc)
      PROVE  /\ req'[h].pc = pc /\ req'[h].alone = req[h].alone
             /\ req'[h].user = req[h].user /\ req'[h].new = req[h].new
             /\ \A k \in Handlers \ {h} : req'[k] = req[k]
  BY <1>0, <1>3 DEF Goto, Requests
<1> DEFINE early == {"deleteExpired", "deleteSession", "deleteToken", "insertToken",
                     "logoutToken"}
<1>4. ASSUME NEW pc \in early, Goto(h, pc) PROVE Undisturbed(h)'
  <2>1. pc \in PCs
    BY DEF PCs
  <2>2. QED
    BY <1>3, <1>4, <2>1 DEF Undisturbed, At
<1> SUFFICES ASSUME req[h].alone,
                    \/ InsertToken(h) \/ InsertSession(h) \/ Evict(h)
             PROVE  Undisturbed(h)'
  <2>1. CASE ~req[h].alone
    <3>1. ~req'[h].alone
      BY <2>1, StatementReq DEF Idle
    <3>2. QED
      BY <3>1 DEF Undisturbed
  <2>2. CASE \/ Find(h) \/ DeleteExpired(h) \/ DeleteSession(h) \/ DeleteToken(h)
             \/ Cleanup(h) \/ LogoutSession(h) \/ LogoutToken(h)
    BY <1>1, <1>2, <1>4, <2>2
    DEF Find, DeleteExpired, DeleteSession, DeleteToken, Cleanup, LogoutSession,
        LogoutToken, PCs
  <2>3. QED
    BY <2>1, <2>2 DEF Statement
<1>5. \A k \in Handlers \ {h} : req[k].user # req[h].user
  BY DEF Undisturbed
<1>6. CASE InsertToken(h)
  <2>1. CASE /\ refreshTokens' = refreshTokens \cup {req[h].new}
             /\ Goto(h, "insertSession")
    BY <1>3, <1>5, <2>1 DEF Undisturbed, At, PCs
  <2>2. QED
    BY <1>1, <1>6, <2>1 DEF InsertToken
<1>7. CASE InsertSession(h)
  <2>1. CASE /\ sessions' = sessions \cup {req[h].new}
             /\ stamp' = [stamp EXCEPT ![req[h].new] = clock]
             /\ Goto(h, "evict")
    <3>1. req[h].new \in Tokens /\ req[h].new \in refreshTokens /\ At(h, "insertSession")
      BY <1>0, <1>7 DEF InsertSession, Undisturbed, HandlerOK, HoldsNew, At
    <3>2. refreshTokens' = refreshTokens
      BY <1>7 DEF InsertSession
    <3>3. \A t \in sessions' \ {req[h].new} : stamp'[t] < stamp'[req[h].new]
      BY <1>0, <2>1, <3>1 DEF StampsPast
    <3>4. req[h].new \in sessions'
      BY <2>1
    <3>5. QED
      BY <1>3, <1>5, <2>1, <3>1, <3>2, <3>3, <3>4 DEF Undisturbed, At, PCs, SessionsOf
  <2>2. QED
    BY <1>2, <1>7, <2>1 DEF InsertSession, PCs
<1>8. CASE Evict(h)
  <2>1. CASE Goto(h, "cleanup")
    <3>1. req[h].new \in SessionsOf(req[h].user) /\ req[h].new \in refreshTokens
      BY <1>0, <1>8 DEF Evict, Undisturbed, HandlerOK, HoldsNew, At, SessionsOf
    <3>2. \A t \in SessionsOf(req[h].user) \ {req[h].new} : stamp[t] < stamp[req[h].new]
      BY <1>8 DEF Evict, Undisturbed
    <3>3. \A keep \in Newest(req[h].user) : req[h].new \in keep
      BY <1>0, <3>1, <3>2, NewestKept
    <3>4. req[h].new \in sessions' /\ refreshTokens' = refreshTokens
      BY <1>8, <3>1, <3>3 DEF Evict, SessionsOf
    <3>5. QED
      BY <1>3, <1>5, <2>1, <3>1, <3>4 DEF Undisturbed, At, PCs
  <2>2. QED
    BY <1>2, <1>8, <2>1 DEF Evict, PCs
<1>9. QED
  BY <1>6, <1>7, <1>8

\* A request that starts is alone if its user had none, and the others of the
\* user are not any more.
LEMMA StartUndisturbed ==
  ASSUME WellFormed, \A k \in Handlers : Undisturbed(k),
         NEW h \in Handlers, NEW r \in Requests, Start(h, r),
         r.pc \notin {"idle", "insertSession", "evict", "cleanup"},
         refreshTokens' = refreshTokens, sessions' = sessions, stamp' = stamp,
         \A t \in sessions : owner'[t] = owner[t]
  PROVE  \A k \in Handlers : Undisturbed(k)'
<1>1. /\ req'[h] = [r EXCEPT !.alone = \A g \in Handlers : req[g].user # r.user]
      /\ \A k \in Handlers \ {h} :
           req'[k] = IF req[k].user = r.user THEN [req[k] EXCEPT !.alone = FALSE] ELSE req[k]
  BY DEF Start
<1>2. req'[h].pc = r.pc /\ req'[h].user = r.user
      /\ (req'[h].alone => \A g \in Handlers : req[g].user # r.user)
  BY <1>1 DEF Requests
<1>3. ASSUME NEW k \in Handlers \ {h}
      PROVE  /\ req'[k].user = req[k].user
             /\ req'[k].alone => req'[k] = req[k] /\ req[k].user # r.user
  <2>1. req[k] \in Requests
    BY DEF WellFormed, TypeOK
  <2>2. QED
    BY <1>1, <2>1 DEF Requests
<1>4. Undisturbed(h)'
  BY <1>2, <1>3 DEF Undisturbed, At
<1>5. ASSUME NEW k \in Handlers \ {h} PROVE Undisturbed(k)'
  <2> SUFFICES ASSUME req'[k].alone PROVE Undisturbed(k)'
    BY DEF Undisturbed
  <2>1. req'[k] = req[k] /\ req[k].user # r.user /\ Undisturbed(k)
    BY <1>3
  <2>2. \A j \in Handlers \ {k} : req'[j].user # req'[k].user
    BY <1>2, <1>3, <2>1 DEF Undisturbed
  <2>3. SessionsOf(req[k].user)' = SessionsOf(req[k].user)
    BY <2>1 DEF SessionsOf
  <2>4. QED
    BY <2>1, <2>2, <2>3 DEF Undisturbed, At
<1>6. QED
  BY <1>4, <1>5

LEMMA ArriveUndisturbed ==
  ASSUME WellFormed, \A k \in Handlers : Undisturbed(k), NEW h \in Handlers, Arrive(h)
  PROVE  \A k \in Handlers : Undisturbed(k)'
<1>1. refreshTokens' = refreshTokens /\ sessions' = sessions /\ stamp' = stamp
  BY DEF Arrive, Login, Register, Refresh, Logout, tables
<1>2. \A t \in sessions : owner'[t] = owner[t]
  <2>1. ASSUME NEW v, NEW new \in Tokens, NEW old, Generate(v, new, old)
        PROVE  \A t \in sessions : owner'[t] = owner[t]
    BY <2>1, UsersAssumption DEF Generate, WellFormed, RowsOwned, TypeOK
  <2>2. owner' = owner \/ \E v, old : \E new \in Tokens : Generate(v, new, old)
    BY DEF Arrive, Login, Register, Refresh, Logout, issued
  <2>3. QED
    BY <2>1, <2>2
<1>3. ASSUME NEW op \in Ops, NEW u \in Users, NEW new \in Tokens,
             Start(h, [Idle EXCEPT !.op = op, !.pc = "insertToken", !.user = u, !.new = new])
      PROVE  \A k \in Handlers : Undisturbed(k)'
  <2> DEFINE r == [Idle EXCEPT !.op = op, !.pc = "insertToken", !.user = u, !.new = new]
  <2>1. r \in Requests /\ r.pc = "insertToken"
    BY DEF Idle, Requests, PCs
  <2>2. Start(h, r)
    BY <1>3
  <2> HIDE DEF r
  <2>3. QED
    BY <1>1, <1>2, <2>1, <2>2, StartUndisturbed
<1>4. ASSUME NEW u \in Users, NEW new \in Tokens, Login(h, u, new) \/ Register(h, u, new)
      PROVE  \A k \in Handlers : Undisturbed(k)'
  BY <1>3, <1>4 DEF Login, Register, Ops
<1>5. ASSUME NEW old \in Tokens, NEW new \in Tokens, Refresh(h, old, new)
      PROVE  \A k \in Handlers : Undisturbed(k)'
  <2> DEFINE r == [Idle EXCEPT !.op = "refresh", !.pc = "find",
                               !.user = owner[old], !.old = old, !.new = new]
  <2>1. owner[old] \in Users
    BY <1>5 DEF Refresh, WellFormed, RowsOwned
  <2>2. r \in Requests /\ r.pc = "find"
    BY <2>1 DEF Idle, Requests, Ops, PCs
  <2>3. Start(h, r)
    BY <1>5 DEF Refresh
  <2> HIDE DEF r
  <2>4. QED
    BY <1>1, <1>2, <2>2, <2>3, StartUndisturbed
<1>6. ASSUME NEW old \in Tokens, Logout(h, old)
      PROVE  \A k \in Handlers : Undisturbed(k)'
  <2> DEFINE b == old \in sessions
             r == [Idle EXCEPT !.op = "logout", !.pc = "logoutSession",
                               !.user = owner[old], !.old = old, !.live = b]
  <2>1. owner[old] \in Users /\ b \in BOOLEAN
    BY <1>6 DEF Logout, WellFormed, RowsOwned
  <2>2. Start(h, r)
    BY <1>6 DEF Logout
  <2> HIDE DEF b
  <2>3. r \in Requests /\ r.pc = "logoutSession"
    BY <2>1 DEF Idle, Requests, Ops, PCs
  <2> HIDE DEF r
  <2>4. QED
    BY <1>1, <1>2, <2>2, <2>3, StartUndisturbed
<1>7. QED
  BY <1>4, <1>5, <1>6 DEF Arrive

LEMMA NextSettled == WellFormed /\ Settled /\ [Next]_vars => Settled'
<1> SUFFICES ASSUME WellFormed, Settled, [Next]_vars PROVE Settled'
  OBVIOUS
<1>0. /\ stamp \in [Tokens -> Nat] /\ clock \in Nat /\ sessions \subseteq Tokens
      /\ StampsPast /\ \A k \in Handlers : Undisturbed(k)
  BY DEF WellFormed, TypeOK, Settled
<1>1. ASSUME NEW h \in Handlers, Arrive(h) PROVE Settled'
  <2>1. StampsPast'
    BY <1>0, <1>1 DEF Arrive, Login, Register, Refresh, Logout, tables, StampsPast
  <2>2. QED
    BY <1>0, <1>1, <2>1, ArriveUndisturbed DEF Settled
<1>2. ASSUME NEW h \in Handlers, Statement(h) PROVE Settled'
  <2>1. \A k \in Handlers : Undisturbed(k)'
    BY <1>0, <1>2, OthersUndisturbed, OwnUndisturbed
  <2>2. StampsPast'
    <3>1. CASE InsertSession(h)
      <4>1. req[h].new \in Tokens
        BY <3>1 DEF InsertSession, At, WellFormed, HandlerOK, HoldsNew
      <4>2. QED
        BY <1>0, <3>1, <4>1 DEF InsertSession, StampsPast
    <3>2. CASE ~InsertSession(h)
      <4>1. sessions' \subseteq sessions /\ stamp' = stamp /\ clock' = clock
        BY <1>2, <3>2
        DEF Statement, Find, DeleteExpired, DeleteSession, DeleteToken, InsertToken,
            Evict, Cleanup, LogoutSession, LogoutToken, tables
      <4>2. QED
        BY <1>0, <4>1 DEF StampsPast
    <3>3. QED
      BY <3>1, <3>2
  <2>3. QED
    BY <2>1, <2>2 DEF Settled
<1>3. ASSUME NEW t \in Tokens, Expire(t) PROVE Settled'
  BY <1>3 DEF Expire, tables, issued, Settled, StampsPast, Undisturbed, At, SessionsOf
<1>4. CASE Crash
  <2>1. \A k \in Handlers : Undisturbed(k)'
    BY <1>4 DEF Crash, Idle, Undisturbed
  <2>2. QED
    BY <1>0, <1>4, <2>1 DEF Crash, tables, Settled, StampsPast
<1>5. CASE UNCHANGED vars
  BY <1>5 DEF vars, tables, issued, Settled, StampsPast, Undisturbed, At, SessionsOf
<1>6. QED
  BY <1>1, <1>2, <1>3, <1>4, <1>5 DEF Next

\* A login or refresh that no other request of its user overlaps, and none of whose
\* statements fails, answers with a refresh token that is stored and has a session,
\* whatever faults, crashes and overlaps went before (AloneReplyUsable).
THEOREM SpecAloneReplyUsable == Spec => AloneReplyUsable
<1> DEFINE Usably ==
      \A h \in Handlers :
        req[h].alone /\ req[h].new \in granted' \ granted
          => req[h].new \in refreshTokens' \cap sessions'
<1>1. WellFormed /\ Lineages /\ Settled /\ [Next]_vars => [Usably]_vars
  <2> SUFFICES ASSUME WellFormed, Lineages, Settled, Next, NEW h \in Handlers,
                      req[h].alone, req[h].new \in granted' \ granted
               PROVE  req[h].new \in refreshTokens' \cap sessions'
    OBVIOUS
  <2>1. ASSUME NEW k \in Handlers, Arrive(k) PROVE FALSE
    BY <2>1 DEF Arrive, Login, Register, Refresh, Logout, history
  <2>2. ASSUME NEW k \in Handlers, Statement(k)
        PROVE  req[h].new \in refreshTokens' \cap sessions'
    <3>1. Cleanup(k) /\ req[h].new = req[k].new
      BY <2>2, StatementGrants
    <3>2. req[k].pc \in HoldsNew
      BY <3>1 DEF Cleanup, At, HoldsNew
    <3>3. k = h
      BY <3>1, <3>2 DEF Lineages, Lineage
    <3>4. /\ req[h].new \in refreshTokens \cap sessions
          /\ owner[req[h].new] = req[h].user
      BY <3>1, <3>2, <3>3 DEF Cleanup, At, Settled, Undisturbed, WellFormed, HandlerOK
    <3>5. QED
      BY <3>1, <3>3, <3>4 DEF Cleanup, Orphans, SessionsOf
  <2>3. ASSUME NEW t \in Tokens, Expire(t) PROVE FALSE
    BY <2>3 DEF Expire, history
  <2>4. CASE Crash
    BY <2>4 DEF Crash
  <2>5. QED
    BY <2>1, <2>2, <2>3, <2>4 DEF Next
<1>2. Init => Settled
  BY DEF Init, Idle, Settled, StampsPast, Undisturbed
<1>3. QED
  BY <1>1, <1>2, NextSettled, SpecLineages, SpecWellFormed, PTL DEF Spec, AloneReplyUsable
-----------------------------------------------------------------------------
(* The refinement of TokenLedger.                                           *)

View == [t \in Tokens |-> ClientView(t)]

\* The tokens in the hands of clients that a step makes useless.
Gone == {t \in granted : t \in refreshTokens \ expired /\ t \notin refreshTokens' \ expired'}

LEMMA InitLedger == Init => Ledger!Init
BY DEF Init, Ledger!Init, ClientView

\* A client's token changes only by becoming useless.
LEMMA GoneDies ==
  ASSUME WellFormed, Lineages, [Next]_vars,
         expired \subseteq expired', granted \subseteq granted', NEW t \in granted
  PROVE  ClientView(t)' = IF t \in Gone THEN "dead" ELSE ClientView(t)
<1>1. t \in refreshTokens' => t \in refreshTokens
  BY GrantedNotInserted
<1>2. QED
  BY <1>1 DEF ClientView, Gone

\* What goes was usable, and belonged to the user the step is about.
LEMMA GoneUsable ==
  ASSUME WellFormed, NEW u \in Users, \A t \in Gone : owner[t] = u
  PROVE  Gone \in SUBSET Ledger!Usable(u)
BY DEF Gone, Ledger!Usable, ClientView, WellFormed, TypeOK

\* A request that arrives asks for a token, or for nothing.
LEMMA GenerateAsks ==
  ASSUME WellFormed, NEW u \in Users, NEW new \in Tokens, NEW old \in granted \cup {NoToken},
         old # NoToken => owner[old] = u, Generate(u, new, old),
         UNCHANGED <<refreshTokens, expired, granted>>
  PROVE  Ledger!Next
<1>1. View' = View
  BY DEF View, ClientView
<1>2. old \in Tokens \cup {NoToken}
  BY DEF WellFormed, TypeOK
<1>3. old # NoToken => old \in Tokens /\ View[old] # "new"
  BY <1>2 DEF View, ClientView
<1>4. Ledger!Ask(new, u, old)
  BY <1>1, <1>3 DEF Ledger!Ask, Generate, View
<1>5. QED
  BY <1>2, <1>4 DEF Ledger!Next

LEMMA ArriveAsks ==
  ASSUME WellFormed, NEW h \in Handlers, Arrive(h)
  PROVE  [Ledger!Next]_(Ledger!vars)
<1>1. ASSUME NEW u \in Users, NEW new \in Tokens, Login(h, u, new) \/ Register(h, u, new)
      PROVE  Ledger!Next
  BY <1>1, GenerateAsks DEF Login, Register, tables, history
<1>2. ASSUME NEW old \in Tokens, NEW new \in Tokens, Refresh(h, old, new)
      PROVE  Ledger!Next
  <2>1. old \in granted /\ owner[old] \in Users
    BY <1>2 DEF Refresh, WellFormed, RowsOwned
  <2>2. QED
    BY <1>2, <2>1, GenerateAsks DEF Refresh, tables, history
<1>3. ASSUME NEW old \in Tokens, Logout(h, old)
      PROVE  UNCHANGED Ledger!vars
  BY <1>3 DEF Logout, Ledger!vars, ClientView, tables, issued, history
<1>4. QED
  BY <1>1, <1>2, <1>3 DEF Arrive

\* A step that hands nothing out revokes tokens of one user at most.
LEMMA StepRevokes ==
  ASSUME WellFormed, Lineages, [Next]_vars, NEW u \in Users,
         UNCHANGED <<owner, parent, granted>>, expired \subseteq expired',
         \A t \in Gone : owner[t] = u
  PROVE  Ledger!Next
<1>1. View' = [t \in Tokens |-> IF t \in Gone THEN "dead" ELSE View[t]]
  <2>1. ASSUME NEW t \in Tokens
        PROVE  ClientView(t)' = IF t \in Gone THEN "dead" ELSE ClientView(t)
    <3>1. CASE t \in granted
      BY <3>1, GoneDies
    <3>2. CASE t \notin granted
      BY <3>2 DEF ClientView, Gone
    <3>3. QED
      BY <3>1, <3>2
  <2>2. QED
    BY <2>1 DEF View
<1>2. View' = Ledger!Without(Gone)
  BY <1>1 DEF Ledger!Without, View
<1>3. Ledger!Revoke(u)
  BY <1>2, GoneUsable DEF Ledger!Revoke, View
<1>4. QED
  BY <1>3 DEF Ledger!Next

\* The end of a clean-up hands out the token of its request, and with at most one
\* fault the token it was exchanged for is useless by then.
LEMMA CleanupHandsOut ==
  ASSUME WellFormed, Lineages, [Next]_vars, (WellFormed /\ RotationRevokes)',
         NEW h \in Handlers, Cleanup(h)
  PROVE  Ledger!Next
<1> DEFINE u == req[h].user
<1>0. PICK new \in Tokens : new = req[h].new
  BY DEF Cleanup, At, HoldsNew, WellFormed, HandlerOK
<1>1. /\ new \notin granted /\ owner[new] = u /\ u \in Users
      /\ parent[new] \in granted \cup {NoToken}
  BY <1>0 DEF Cleanup, At, HoldsNew, WellFormed, HandlerOK, Lineages, Lineage
<1>2. /\ UNCHANGED <<owner, parent, expired>> /\ granted' = granted \cup {new}
      /\ \A t \in refreshTokens \ refreshTokens' : owner[t] = u
  BY <1>0 DEF Cleanup, issued, Orphans, TokensOf
<1>3. \A t \in Gone : owner[t] = u
  BY <1>2 DEF Gone
<1>4. ClientView(new)' \in {"usable", "dead"}
  BY <1>2 DEF ClientView
<1>5. View' = [Ledger!Without(Gone) EXCEPT ![new] = ClientView(new)']
  <2>1. ASSUME NEW t \in Tokens \ {new}
        PROVE  ClientView(t)' = IF t \in Gone THEN "dead" ELSE ClientView(t)
    <3>1. CASE t \in granted
      BY <1>2, <3>1, GoneDies
    <3>2. CASE t \notin granted
      BY <1>2, <3>2 DEF ClientView, Gone
    <3>3. QED
      BY <3>1, <3>2
  <2>2. QED
    BY <1>1, <2>1 DEF View, Ledger!Without
<1>6. MaxFaults <= 1 /\ parent[new] # NoToken => View'[parent[new]] = "dead"
  <2> SUFFICES ASSUME MaxFaults <= 1, parent[new] # NoToken
               PROVE  View'[parent[new]] = "dead"
    OBVIOUS
  <2>1. parent[new] \in Tokens /\ parent[new] \in granted'
    BY <1>1, <1>2 DEF WellFormed, TypeOK
  <2>2. faults' <= 1
    BY MaxFaultsAssumption DEF WellFormed, TypeOK
  <2>3. parent[new] \in refreshTokens' => parent[new] \in expired'
    BY <1>2, <2>2 DEF RotationRevokes
  <2>4. QED
    BY <2>1, <2>3 DEF View, ClientView
<1>7. View[new] = "new"
  BY <1>1 DEF View, ClientView
<1> HIDE DEF u
<1>8. Ledger!HandOut(new, u)
  BY <1>1, <1>2, <1>3, <1>4, <1>5, <1>6, <1>7, GoneUsable DEF Ledger!HandOut, View
<1>9. QED
  BY <1>1, <1>8 DEF Ledger!Next

LEMMA StepLedger ==
  ASSUME WellFormed, Lineages, [Next]_vars, (WellFormed /\ RotationRevokes)'
  PROVE  [Ledger!Next]_(Ledger!vars)
<1>1. ASSUME NEW h \in Handlers, Arrive(h) PROVE [Ledger!Next]_(Ledger!vars)
  BY <1>1, ArriveAsks
<1>2. ASSUME NEW h \in Handlers, Statement(h) PROVE Ledger!Next
  <2>1. CASE Cleanup(h)
    BY <2>1, CleanupHandsOut
  <2>2. CASE ~Cleanup(h)
    <3>1. UNCHANGED <<owner, parent, expired, granted>>
      BY <1>2, <2>2, StatementReq, StatementGrants
    <3>2. \A t \in Gone : owner[t] = req[h].user
      BY <1>2, <3>1, StatementOwnRows DEF Gone, WellFormed, TypeOK
    <3>3. req[h].user \in Users
      BY <1>2 DEF Statement, Find, DeleteExpired, DeleteSession, DeleteToken, InsertToken,
         InsertSession, Evict, Cleanup, LogoutSession, LogoutToken, At, WellFormed, HandlerOK
    <3>4. QED
      BY <3>1, <3>2, <3>3, StepRevokes
  <2>3. QED
    BY <2>1, <2>2
<1>3. ASSUME NEW s \in Tokens, Expire(s) PROVE Ledger!Next
  <2>1. owner[s] \in Users
    BY <1>3 DEF Expire, WellFormed, RowsOwned
  <2>2. UNCHANGED <<refreshTokens, owner, parent, granted>> /\ expired' = expired \cup {s}
    BY <1>3 DEF Expire, tables, issued, history
  <2>3. \A t \in Gone : owner[t] = owner[s]
    BY <2>2 DEF Gone
  <2>4. QED
    BY <2>1, <2>2, <2>3, StepRevokes
<1>4. CASE Crash
  BY <1>4 DEF Crash, Ledger!vars, ClientView, tables, issued
<1>5. CASE UNCHANGED vars
  BY <1>5 DEF vars, Ledger!vars, ClientView, tables, issued, history
<1>6. QED
  BY <1>1, <1>2, <1>3, <1>4, <1>5 DEF Next

\* For any number of overlapping requests the statements of AuthService give the
\* clients what TokenLedger says: what became useless never comes back, and with at
\* most one fault a reply makes useless what was exchanged for it (Implements).
THEOREM SpecImplements == Spec => Implements
<1>1. Init => Ledger!Init
  BY InitLedger
<1>2. WellFormed /\ Lineages /\ [Next]_vars /\ (WellFormed /\ RotationRevokes)'
        => [Ledger!Next]_(Ledger!vars)
  BY StepLedger
<1>3. QED
  BY <1>1, <1>2, SpecWellFormed, SpecLineages, SpecRotationRevokes, PTL
  DEF Spec, Implements, Ledger!Spec
=============================================================================
