---------------------------- MODULE LoginLockout ----------------------------
(***************************************************************************)
(* The brute-force protection of AuthService.Login (auth_service.go): the   *)
(* Redis counter login_attempts:<email> and the key login_lockout:<email>,  *)
(* for one e-mail address (the keys of different addresses do not meet).    *)
(* Each action is one Redis command, or the password check; the commands of *)
(* concurrent logins interleave.  Every error of Redis is ignored by the    *)
(* code, so a failed command just does not happen; one whose reply is lost  *)
(* differs from a success only where the reply is used (EXISTS, INCR).      *)
(***************************************************************************)
EXTENDS Naturals, FiniteSets

CONSTANTS
  Handlers,   \* concurrent login requests
  Threshold,  \* failed attempts that lock the account (5)
  Window,     \* life of both keys (15 minutes)
  MaxLag,     \* longest time a login takes
  MaxCount,   \* bound on the counters, which stay there once they reach it
  MaxFaults   \* bound on failed commands and crashes

ASSUME HandlersAssumption == IsFiniteSet(Handlers)
ASSUME NumbersAssumption ==
  /\ Threshold \in Nat \ {0} /\ Window \in Nat \ {0}
  /\ MaxLag \in Nat /\ MaxFaults \in Nat
  /\ MaxCount \in Nat /\ MaxCount >= Threshold

VARIABLES
  attempts,     \* login_attempts:<email>; 0 when the key is absent
  attemptsTTL,  \* its time to live; 0 when the key has none
  lockTTL,      \* time to live of login_lockout:<email>; 0 when absent
  req,          \* what each handler is doing
  guesses,      \* history: failures counted since the account last opened
  excused,      \* history: a fault, or a login that cleared the lockout, may
                \* have left attempts at Threshold without a lockout
  faults

keys == <<attempts, attemptsTTL, lockTTL>>
vars == <<keys, req, guesses, excused, faults>>

PCs == {"idle", "check", "password", "incr", "expire", "lock",
        "delAttempts", "delLockout"}

\* count: what INCR returned.  age: ticks since the request arrived.
\* clean: no other failure has been counted since this login cleared the keys.
Requests == [pc: PCs, count: Nat, age: 0..MaxLag, clean: BOOLEAN]
Idle == [pc |-> "idle", count |-> 0, age |-> 0, clean |-> FALSE]

At(h, pc) == req[h].pc = pc
Goto(h, pc) == req' = [req EXCEPT ![h].pc = pc]
Return(h) == req' = [req EXCEPT ![h] = Idle]
Fault == faults < MaxFaults /\ faults' = faults + 1 /\ excused' = TRUE
NoFault == UNCHANGED <<faults, excused>>
Locked == lockTTL > 0
Inc(n) == IF n < MaxCount THEN n + 1 ELSE n

Init ==
  /\ attempts = 0 /\ attemptsTTL = 0 /\ lockTTL = 0
  /\ req = [h \in Handlers |-> Idle]
  /\ guesses = 0 /\ excused = FALSE /\ faults = 0

-----------------------------------------------------------------------------
Arrive(h) ==
  /\ At(h, "idle") /\ Goto(h, "check")
  /\ UNCHANGED <<keys, guesses, excused, faults>>

\* Mutant: an attempt on a locked account is recorded like any failure.
CheckAndRecord(h) ==
  /\ At(h, "check")
  /\ IF Locked THEN Goto(h, "incr") ELSE Goto(h, "password")
  /\ UNCHANGED <<keys, guesses, excused, faults>>

\* checkLoginAttempts: EXISTS; an error counts as "not locked".  The TTL it
\* reads for the message changes nothing.
CheckLoginAttempts(h) ==
  /\ At(h, "check")
  /\ \/ Locked /\ Return(h) /\ NoFault
     \/ ~Locked /\ Goto(h, "password") /\ NoFault
     \/ Fault /\ Goto(h, "password")
  /\ UNCHANGED <<keys, guesses>>

\* FindByEmail, IsActive, bcrypt.  An unknown address and a wrong password are
\* recorded; a disabled account is refused without a record.
Password(h) ==
  /\ At(h, "password")
  /\ Goto(h, "incr") \/ Goto(h, "delAttempts") \/ Return(h)
  /\ UNCHANGED <<keys, guesses, excused, faults>>

\* Counted(h, n): h's failure is counted, and h has n from INCR's reply.
Counted(h, n) ==
  /\ attempts' = Inc(attempts) /\ guesses' = Inc(guesses)
  /\ req' = [k \in Handlers |->
       IF k = h THEN [req[k] EXCEPT !.pc = "expire", !.count = n]
       ELSE [req[k] EXCEPT !.clean = FALSE]]

\* recordFailedAttempt: INCR keeps the key's TTL, and creates it without one.
\* On an error the count reads as 0, whether Redis ran the command or not.
Incr(h) ==
  /\ At(h, "incr")
  /\ \/ Counted(h, Inc(attempts)) /\ NoFault
     \/ Counted(h, 0) /\ Fault
     \/ /\ Fault /\ UNCHANGED <<attempts, guesses>>
        /\ req' = [req EXCEPT ![h].pc = "expire", ![h].count = 0]
  /\ UNCHANGED <<attemptsTTL, lockTTL>>

\* The lockout is due when the count this request was given has reached it.
\* Mutant: only the request that meets the threshold exactly locks.
DueExactly(h) == req[h].count = Threshold
Due(h) == req[h].count >= Threshold

\* EXPIRE: every failed attempt renews the window.
Expire(h) ==
  /\ At(h, "expire")
  /\ \/ /\ attemptsTTL' = IF attempts > 0 THEN Window ELSE attemptsTTL
        /\ NoFault
     \/ Fault /\ UNCHANGED attemptsTTL
  /\ IF Due(h) THEN Goto(h, "lock") ELSE Return(h)
  /\ UNCHANGED <<attempts, lockTTL, guesses>>

\* Mutant: the lockout is shorter than the counter's window.
LockShort(h) ==
  /\ At(h, "lock")
  /\ lockTTL' = Window - 1 /\ Return(h)
  /\ UNCHANGED <<attempts, attemptsTTL, guesses, excused, faults>>

\* SET login_lockout.
Lock(h) ==
  /\ At(h, "lock")
  /\ \/ lockTTL' = Window /\ NoFault
     \/ Fault /\ UNCHANGED lockTTL
  /\ Return(h)
  /\ UNCHANGED <<attempts, attemptsTTL, guesses>>

\* Login clears the counter after a correct password ...
DelAttempts(h) ==
  /\ At(h, "delAttempts")
  /\ \/ /\ attempts' = 0 /\ attemptsTTL' = 0 /\ guesses' = 0
        /\ excused' = FALSE /\ UNCHANGED faults
        /\ req' = [req EXCEPT ![h].pc = "delLockout", ![h].clean = TRUE]
     \/ /\ Fault /\ UNCHANGED <<attempts, attemptsTTL, guesses>>
        /\ Goto(h, "delLockout")
  /\ UNCHANGED lockTTL

\* ... and then the lockout, whoever set it, and goes on to generateTokens.
DelLockout(h) ==
  /\ At(h, "delLockout")
  /\ \/ /\ lockTTL' = 0 /\ guesses' = 0 /\ UNCHANGED faults
        /\ excused' = (excused \/ ~req[h].clean)
     \/ Fault /\ UNCHANGED <<lockTTL, guesses>>
  /\ Return(h)
  /\ UNCHANGED <<attempts, attemptsTTL>>

\* Time passes: keys with a TTL get older and go when it runs out.
Tick ==
  /\ \A h \in Handlers : At(h, "idle") \/ req[h].age < MaxLag
  /\ lockTTL' = IF Locked THEN lockTTL - 1 ELSE 0
  /\ attemptsTTL' = IF attemptsTTL > 0 THEN attemptsTTL - 1 ELSE 0
  /\ attempts' = IF attemptsTTL = 1 THEN 0 ELSE attempts
  /\ guesses' = IF attempts' = 0 \/ lockTTL = 1 THEN 0 ELSE guesses
  /\ excused' = (excused /\ attempts' > 0)
  /\ req' = [h \in Handlers |-> IF At(h, "idle") THEN req[h]
                                ELSE [req[h] EXCEPT !.age = req[h].age + 1]]
  /\ UNCHANGED faults

\* The process dies between two commands.
Crash ==
  /\ \E h \in Handlers : ~At(h, "idle")
  /\ Fault
  /\ req' = [h \in Handlers |-> Idle]
  /\ UNCHANGED <<keys, guesses>>

Step(h) ==
  \/ CheckLoginAttempts(h) \/ Password(h) \/ Incr(h) \/ Expire(h) \/ Lock(h)
  \/ DelAttempts(h) \/ DelLockout(h)

Next ==
  \/ \E h \in Handlers : Arrive(h) \/ Step(h)
  \/ Tick \/ Crash

Spec == Init /\ [][Next]_vars

\* Time goes on, and so does a request that has arrived.
FairSpec == Spec /\ WF_vars(Tick) /\ \A h \in Handlers : WF_vars(Step(h))

-----------------------------------------------------------------------------
TypeOK ==
  /\ attempts \in Nat /\ guesses \in Nat /\ attemptsTTL \in 0..Window /\ lockTTL \in 0..Window
  /\ req \in [Handlers -> Requests]
  /\ excused \in BOOLEAN /\ faults \in 0..MaxFaults

\* A request on its way to set the lockout.
Locking(h) == req[h].pc \in {"expire", "lock"} /\ Due(h)

\* A counter at the threshold means a locked account, or one that a request is
\* about to lock.  A request that was counted earlier can renew the counter's
\* window after the lockout was set, so the counter may outlive the lockout, but
\* by MaxLag at most; otherwise only a failed command, or a login with the
\* right password that cleared someone else's lockout, leaves it unlocked.
LockoutFollows ==
  attempts >= Threshold =>
    \/ Locked \/ excused
    \/ \E h \in Handlers : Locking(h)
    \/ attemptsTTL \in 1..MaxLag

\* Checking and counting are separate commands, so concurrent logins can all
\* pass the check; from when the account opens (its counter or its lockout
\* goes) to the next time, each of them gets one guess past the threshold.  A
\* crash, or a failed command, between the count and the lockout leaves a full
\* counter without one; it gives as many guesses again and no more, because the
\* next failure that is counted locks the account all the same.
GuessBound ==
  guesses <= Threshold - 1 + Cardinality(Handlers) * (1 + faults)

\* A locked account opens again by itself, even if someone keeps trying:
\* rejected attempts do not renew the lockout.
LockoutEnds == Locked ~> ~Locked
=============================================================================
