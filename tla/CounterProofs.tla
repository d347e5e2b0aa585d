--------------------------- MODULE CounterProofs ---------------------------
(* Proofs of the safety properties of LoginLockout and, below, of           *)
(* RateLimiter: the two counters of Redis with a time to live.              *)
EXTENDS LoginLockout, RateLimiter, FiniteSetTheorems, TLAPS

\* Only a login that has cleared the counter, with no failure counted since,
\* is clean.
CleanOK(h) == req[h].clean => At(h, "delLockout") /\ attempts = 0

\* A counter at the threshold that no request is about to turn into a lockout.
Settled == attempts >= Threshold /\ ~excused /\ \A h \in Handlers : ~Locking(h)

\* The counter has a TTL, unless the request that reached the threshold has
\* not given it one yet.
HasTTL == attempts >= Threshold /\ ~excused =>
  attemptsTTL > 0 \/ \E h \in Handlers : At(h, "expire") /\ Due(h)

\* The counter outlives the lockout by MaxLag at most, and a request that can
\* still renew the counter is older than the lockout.
Follows == Settled =>
  /\ attemptsTTL <= lockTTL + MaxLag
  /\ \A h \in Handlers : At(h, "expire") => Window <= lockTTL + req[h].age

\* Requests that have passed the check and not been counted; those on their
\* way to the lockout.
Guessing == {h \in Handlers : req[h].pc \in {"password", "incr"}}
LockingSet == {h \in Handlers : Locking(h)}

\* A guess past the threshold belongs to a request on its way to the lockout, or
\* to one that a fault has kept from setting it; once the account is locked only
\* those that have passed the check guess.
Forgiven == Cardinality(Handlers) * faults
Bounded ==
  /\ guesses <= attempts
  /\ Locked => guesses + Cardinality(Guessing)
                 <= Threshold - 1 + Cardinality(Handlers) + Forgiven
  /\ ~Locked => guesses <= Threshold - 1 + Cardinality(LockingSet) + Forgiven

-----------------------------------------------------------------------------
(* Types.                                                                   *)

LEMMA ReqFields ==
  ASSUME TypeOK, NEW h \in Handlers
  PROVE  /\ req[h].pc \in PCs /\ req[h].count \in Nat /\ req[h].age \in 0..MaxLag
         /\ req[h].clean \in BOOLEAN
BY DEF TypeOK, Requests

LEMMA Types ==
  ASSUME TypeOK
  PROVE  /\ Threshold \in Nat \ {0} /\ Window \in Nat \ {0} /\ MaxLag \in Nat
         /\ MaxCount \in Nat /\ MaxCount >= Threshold /\ MaxFaults \in Nat
         /\ attempts \in Nat /\ guesses \in Nat /\ attemptsTTL \in 0..Window
         /\ lockTTL \in 0..Window /\ excused \in BOOLEAN /\ faults \in 0..MaxFaults
         /\ req \in [Handlers -> Requests]
         /\ Inc(attempts) \in Nat /\ Inc(guesses) \in Nat
BY NumbersAssumption DEF TypeOK, Inc

LEMMA InitTypeOK == Init => TypeOK
<1> SUFFICES ASSUME Init PROVE TypeOK
  OBVIOUS
<1>1. Idle \in Requests
  BY NumbersAssumption DEF Idle, Requests, PCs
<1>2. 0 \in 0..Window /\ 0 \in 0..MaxFaults
  BY NumbersAssumption
<1> QED BY <1>1, <1>2 DEF Init, TypeOK

\* A request that goes on or returns keeps the type.
LEMMA MoveType ==
  ASSUME req \in [Handlers -> Requests], NEW h \in Handlers,
         (\E at \in PCs : Goto(h, at)) \/ Return(h)
  PROVE  req' \in [Handlers -> Requests]
<1>1. Idle \in Requests
  BY NumbersAssumption DEF Idle, Requests, PCs
<1>2. CASE Return(h)
  BY <1>1, <1>2 DEF Return
<1>3. ASSUME NEW at \in PCs, Goto(h, at) PROVE req' \in [Handlers -> Requests]
  BY <1>3 DEF Goto, Requests
<1> QED BY <1>2, <1>3

LEMMA FaultType ==
  ASSUME TypeOK, Fault \/ NoFault
  PROVE  faults' \in 0..MaxFaults /\ excused' \in BOOLEAN
<1>1. CASE Fault
  BY <1>1, Types DEF Fault
<1>2. CASE NoFault
  BY <1>2, Types DEF NoFault
<1> QED BY <1>1, <1>2

LEMMA StepType ==
  ASSUME TypeOK, NEW h \in Handlers, Arrive(h) \/ Step(h)
  PROVE  TypeOK'
<1> USE Types, FaultType DEF keys, NoFault
<1>p. {"check", "password", "incr", "expire", "lock", "delAttempts", "delLockout"} \subseteq PCs
  BY DEF PCs
<1>1. CASE Arrive(h)
  BY <1>1, <1>p, MoveType DEF Arrive, TypeOK
<1>2. CASE CheckLoginAttempts(h)
  BY <1>2, <1>p, MoveType DEF CheckLoginAttempts, TypeOK
<1>3. CASE Password(h)
  BY <1>3, <1>p, MoveType DEF Password, TypeOK
<1>4. CASE Incr(h)
  <2>1. ASSUME NEW n \in Nat, Counted(h, n) PROVE TypeOK'
    <3>1. req' \in [Handlers -> Requests]
      BY <1>p, <2>1 DEF Counted, Requests
    <3> QED BY <1>4, <2>1, <3>1 DEF Incr, Counted, TypeOK
  <2>2. CASE /\ Fault /\ UNCHANGED <<attempts, guesses>>
             /\ req' = [req EXCEPT ![h].pc = "expire", ![h].count = 0]
    BY <1>4, <1>p, <2>2 DEF Incr, TypeOK, Requests
  <2>3. Inc(attempts) \in Nat /\ 0 \in Nat
    OBVIOUS
  <2> QED BY <1>4, <2>1, <2>2, <2>3 DEF Incr
<1>5. CASE Expire(h)
  <2>1. req' \in [Handlers -> Requests]
    BY <1>5, <1>p, MoveType DEF Expire
  <2>2. attemptsTTL' \in 0..Window
    BY <1>5 DEF Expire
  <2> QED BY <1>5, <2>1, <2>2 DEF Expire, TypeOK
<1>6. CASE Lock(h)
  <2>1. req' \in [Handlers -> Requests]
    BY <1>6, <1>p, MoveType DEF Lock
  <2>2. lockTTL' \in 0..Window
    BY <1>6 DEF Lock
  <2> QED BY <1>6, <2>1, <2>2 DEF Lock, TypeOK
<1>7. CASE DelAttempts(h)
  <2>1. req' \in [Handlers -> Requests]
    BY <1>7, <1>p, MoveType DEF DelAttempts, Requests
  <2>2. attempts' \in Nat /\ guesses' \in Nat /\ attemptsTTL' \in 0..Window
        /\ faults' \in 0..MaxFaults /\ excused' \in BOOLEAN
    <3>1. CASE Fault
      BY <1>7, <3>1 DEF DelAttempts
    <3>2. CASE attempts' = 0 /\ attemptsTTL' = 0 /\ guesses' = 0 /\ excused' = FALSE /\ UNCHANGED faults
      <4>1. excused' \in BOOLEAN
        BY <3>2
      <4>2. attemptsTTL' \in 0..Window /\ faults' \in 0..MaxFaults
        BY <3>2
      <4> QED BY <3>2, <4>1, <4>2
    <3> QED BY <1>7, <3>1, <3>2 DEF DelAttempts
  <2> QED BY <1>7, <2>1, <2>2 DEF DelAttempts, TypeOK
<1>8. CASE DelLockout(h)
  <2>1. req' \in [Handlers -> Requests]
    BY <1>8, <1>p, MoveType DEF DelLockout
  <2>2. guesses' \in Nat /\ lockTTL' \in 0..Window
        /\ faults' \in 0..MaxFaults /\ excused' \in BOOLEAN
    <3>1. CASE Fault
      BY <1>8, <3>1 DEF DelLockout
    <3>2. CASE lockTTL' = 0 /\ guesses' = 0 /\ UNCHANGED faults /\ excused' = (excused \/ ~req[h].clean)
      <4>1. excused' \in BOOLEAN
        BY <3>2, ReqFields
      <4> QED BY <3>2, <4>1
    <3> QED BY <1>8, <3>1, <3>2 DEF DelLockout
  <2> QED BY <1>8, <2>1, <2>2 DEF DelLockout, TypeOK
<1> QED BY <1>1, <1>2, <1>3, <1>4, <1>5, <1>6, <1>7, <1>8 DEF Step

LEMMA OtherType ==
  ASSUME TypeOK, Tick \/ Crash
  PROVE  TypeOK'
<1>1. CASE Tick
  <2>1. attempts' \in Nat /\ guesses' \in Nat /\ excused' \in BOOLEAN /\ faults' \in 0..MaxFaults
    BY <1>1, Types DEF Tick
  <2>2. attemptsTTL' \in 0..Window /\ lockTTL' \in 0..Window
    BY <1>1, Types DEF Tick, Locked
  <2>3. ASSUME NEW h \in Handlers PROVE req'[h] \in Requests
    <3>1. CASE At(h, "idle")
      BY <1>1, <3>1, Types DEF Tick
    <3>2. CASE ~At(h, "idle")
      <4>1. req[h].age + 1 \in 0..MaxLag
        BY <1>1, <3>2, Types, ReqFields DEF Tick
      <4> QED BY <1>1, <3>2, <4>1, Types DEF Tick, Requests
    <3> QED BY <3>1, <3>2
  <2>4. req' \in [Handlers -> Requests]
    BY <1>1, <2>3 DEF Tick
  <2> QED BY <2>1, <2>2, <2>4 DEF TypeOK
<1>2. CASE Crash
  <2>1. req' \in [Handlers -> Requests]
    BY <1>2, NumbersAssumption DEF Crash, Idle, Requests, PCs
  <2> QED BY <1>2, <2>1, FaultType DEF Crash, TypeOK, keys
<1> QED BY <1>1, <1>2

LEMMA NextTypeOK == TypeOK /\ [Next]_vars => TypeOK'
<1>1. TypeOK /\ UNCHANGED vars => TypeOK'
  BY DEF TypeOK, vars, keys
<1> QED BY <1>1, StepType, OtherType DEF Next

\* TypeOK.
THEOREM SpecTypeOK == Spec => []TypeOK
BY InitTypeOK, NextTypeOK, PTL DEF Spec

-----------------------------------------------------------------------------
(* The lockout follows the counter.                                         *)

FollowInv == TypeOK /\ (\A h \in Handlers : CleanOK(h)) /\ HasTTL /\ Follows

LEMMA Moved ==
  ASSUME TypeOK, NEW h \in Handlers
  PROVE  /\ \A at : Goto(h, at) =>
              /\ req'[h].pc = at /\ req'[h].count = req[h].count
              /\ req'[h].age = req[h].age /\ req'[h].clean = req[h].clean
              /\ \A k \in Handlers \ {h} : req'[k] = req[k]
         /\ Return(h) =>
              /\ req'[h].pc = "idle" /\ ~req'[h].clean
              /\ \A k \in Handlers \ {h} : req'[k] = req[k]
BY DEF Goto, Return, Idle, TypeOK, Requests

\* After a fault nothing is promised until the counter has gone.
LEMMA Excused ==
  ASSUME excused' = TRUE
  PROVE  HasTTL' /\ Follows'
BY DEF HasTTL, Follows, Settled

\* Nor is there a promise below the threshold.
LEMMA Below ==
  ASSUME ~(attempts' >= Threshold)
  PROVE  HasTTL' /\ Follows'
BY DEF HasTTL, Follows, Settled

\* A request that is not on its way to the lockout, before and after.
LEMMA Quiet ==
  ASSUME FollowInv, NEW h \in Handlers, UNCHANGED <<keys, excused>>,
         req[h].pc \notin {"expire", "lock"}, req'[h].pc \notin {"expire", "lock"},
         \A k \in Handlers \ {h} : req'[k] = req[k]
  PROVE  HasTTL' /\ Follows'
<1>1. HasTTL'
  BY DEF HasTTL, FollowInv, keys, At, Due
<1>2. \A k \in Handlers : Locking(k)' <=> Locking(k)
  BY DEF Locking, Due
<1>3. Settled' => Settled
  BY <1>2 DEF Settled, keys
<1>4. Follows'
  BY <1>3 DEF Follows, FollowInv, keys, At
<1> QED BY <1>1, <1>4

LEMMA StepFollow ==
  ASSUME FollowInv, NEW h \in Handlers, Arrive(h) \/ Step(h)
  PROVE  (\A k \in Handlers : CleanOK(k)') /\ HasTTL' /\ Follows'
<1>0. TypeOK /\ TypeOK' /\ HasTTL /\ Follows /\ \A k \in Handlers : CleanOK(k)
  BY StepType DEF FollowInv
<1>h. /\ req[h].count \in Nat /\ req[h].age \in 0..MaxLag /\ req[h].clean \in BOOLEAN
  BY <1>0, ReqFields
<1>f. Fault => excused' = TRUE
  BY DEF Fault
<1>1. CASE Arrive(h) \/ CheckLoginAttempts(h) \/ Password(h)
  <2>1. /\ UNCHANGED keys /\ req[h].pc \in {"idle", "check", "password"}
        /\ UNCHANGED excused \/ excused' = TRUE
        /\ \/ Return(h)
           \/ \E at \in {"check", "password", "incr", "delAttempts"} : Goto(h, at)
    BY <1>1, <1>f DEF Arrive, CheckLoginAttempts, Password, At, NoFault
  <2>2. /\ req'[h].pc \in {"idle", "check", "password", "incr", "delAttempts"}
        /\ req'[h].clean => req[h].clean
        /\ \A k \in Handlers \ {h} : req'[k] = req[k]
    BY <1>0, <2>1, Moved
  <2>3. \A k \in Handlers : CleanOK(k)'
    BY <1>0, <2>1, <2>2 DEF CleanOK, At, keys
  <2> QED BY <2>1, <2>2, <2>3, Quiet, Excused
<1>2. CASE Incr(h)
  <2>0. ~req[h].clean
    BY <1>0, <1>2 DEF Incr, CleanOK, At
  <2>4. ASSUME NEW n \in Nat, Counted(h, n)
        PROVE  /\ \A k \in Handlers : CleanOK(k)'
               /\ req'[h].pc = "expire" /\ req'[h].count = n
    <3>1. req'[h].pc = "expire" /\ req'[h].count = n /\ ~req'[h].clean
      BY <1>0, <2>0, <2>4 DEF Counted, TypeOK, Requests
    <3>2. \A k \in Handlers \ {h} : ~req'[k].clean
      BY <1>0, <2>4 DEF Counted, TypeOK, Requests
    <3> QED BY <3>1, <3>2 DEF CleanOK
  <2>1. CASE Counted(h, Inc(attempts))
    <3>1. req'[h].pc = "expire" /\ req'[h].count = attempts'
      BY <1>0, <2>1, <2>4, Types DEF Counted
    <3>3. \A k \in Handlers : CleanOK(k)'
      BY <1>0, <2>1, <2>4, Types
    <3>4. CASE attempts' >= Threshold
      <4>1. Due(h)' /\ At(h, "expire")'
        BY <3>1, <3>4 DEF Due, At
      <4> QED BY <3>1, <3>3, <4>1 DEF HasTTL, Follows, Settled, Locking
    <3> QED BY <3>3, <3>4, Below
  <2>2. CASE Fault /\ UNCHANGED attempts /\ req' = [req EXCEPT ![h].pc = "expire", ![h].count = 0]
    <3>1. req'[h].clean = req[h].clean /\ \A k \in Handlers \ {h} : req'[k] = req[k]
      BY <1>0, <2>2 DEF TypeOK, Requests
    <3>2. \A k \in Handlers : CleanOK(k)'
      BY <1>0, <2>0, <2>2, <3>1 DEF CleanOK, At
    <3> QED BY <2>2, <3>2, <1>f, Excused
  <2>3. CASE Counted(h, 0) /\ Fault
    BY <1>f, <2>3, <2>4, Excused
  <2> QED BY <1>2, <2>1, <2>2, <2>3 DEF Incr
<1>3. CASE Expire(h)
  <2>0. At(h, "expire") /\ UNCHANGED <<attempts, lockTTL>>
    BY <1>3 DEF Expire
  <2>1. /\ \A k \in Handlers \ {h} : req'[k] = req[k]
        /\ IF Due(h) THEN Locking(h)' ELSE req'[h].pc = "idle"
        /\ ~req'[h].clean
    <3>1. ~req[h].clean
      BY <1>0, <2>0 DEF CleanOK, At
    <3>2. CASE Due(h) /\ Goto(h, "lock")
      BY <1>0, <3>1, <3>2, Moved DEF Locking, Due
    <3>3. CASE ~Due(h) /\ Return(h)
      BY <1>0, <3>3, Moved
    <3> QED BY <1>3, <3>2, <3>3 DEF Expire
  <2>2. \A k \in Handlers : CleanOK(k)'
    BY <1>0, <2>0, <2>1 DEF CleanOK, At
  <2>3. CASE attempts >= Threshold /\ ~excused' /\ UNCHANGED excused
    <3>1. attemptsTTL' = Window
      BY <1>0, <1>3, <1>f, <2>3, Types DEF Expire
    <3>2. HasTTL'
      BY <1>0, <3>1, Types DEF HasTTL
    <3>3. Follows'
      <4>1. CASE Due(h)
        BY <2>1, <4>1 DEF Follows, Settled
      <4>2. CASE ~Due(h)
        <5>1. SUFFICES ASSUME Settled' PROVE Follows'
          BY DEF Follows
        <5>2. \A k \in Handlers : ~Locking(k)
          BY <2>0, <2>1, <4>2, <5>1 DEF Settled, Locking, At, Due
        <5>3. Settled
          BY <2>3, <5>2 DEF Settled
        <5>4. Window <= lockTTL + req[h].age
          BY <1>0, <2>0, <5>3 DEF Follows
        <5>5. attemptsTTL' <= lockTTL' + MaxLag
          BY <1>0, <1>h, <2>0, <3>1, <5>4, Types
        <5>6. \A k \in Handlers : At(k, "expire")' => Window <= lockTTL' + req'[k].age
          BY <1>0, <2>0, <2>1, <4>2, <5>3 DEF Follows, At
        <5> QED BY <5>5, <5>6 DEF Follows
      <4> QED BY <4>1, <4>2
    <3> QED BY <2>2, <3>2, <3>3
  <2>4. CASE ~(attempts >= Threshold)
    BY <2>0, <2>2, <2>4, Below
  <2>5. CASE excused' = TRUE
    BY <2>2, <2>5, Excused
  <2>6. UNCHANGED excused \/ excused' = TRUE
    BY <1>3, <1>f DEF Expire, NoFault
  <2> QED BY <1>0, <2>3, <2>4, <2>5, <2>6, Types
<1>4. CASE Lock(h)
  <2>0. At(h, "lock") /\ UNCHANGED <<attempts, attemptsTTL>>
    BY <1>4 DEF Lock
  <2>1. \A k \in Handlers \ {h} : req'[k] = req[k]
    BY <1>0, <1>4, Moved DEF Lock
  <2>2. ~req'[h].clean /\ req'[h].pc = "idle"
    BY <1>0, <1>4, Moved DEF Lock
  <2>3. \A k \in Handlers : CleanOK(k)'
    BY <1>0, <2>0, <2>1, <2>2 DEF CleanOK, At
  <2>4. CASE lockTTL' = Window /\ UNCHANGED excused
    <3>1. HasTTL'
      BY <1>0, <2>0, <2>1, <2>4 DEF HasTTL, At, Due
    <3>2. attemptsTTL' <= lockTTL' + MaxLag
      BY <1>0, <2>0, <2>4, Types
    <3>3. \A k \in Handlers : Window <= lockTTL' + req'[k].age
      <4>1. \A k \in Handlers : req'[k].age \in 0..MaxLag
        BY <1>0 DEF TypeOK, Requests
      <4> QED BY <1>0, <2>4, <4>1, Types
    <3> QED BY <2>3, <3>1, <3>2, <3>3 DEF Follows
  <2> QED BY <1>4, <1>f, <2>3, <2>4, Excused DEF Lock, NoFault
<1>5. CASE DelAttempts(h)
  <2>0. At(h, "delAttempts") /\ ~req[h].clean
    BY <1>0, <1>5 DEF DelAttempts, CleanOK, At
  <2>1. CASE attempts' = 0 /\ req' = [req EXCEPT ![h].pc = "delLockout", ![h].clean = TRUE]
    <3>1. req'[h].pc = "delLockout" /\ \A k \in Handlers \ {h} : req'[k] = req[k]
      BY <1>0, <2>1 DEF TypeOK, Requests
    <3>2. \A k \in Handlers : CleanOK(k)'
      BY <1>0, <2>1, <3>1 DEF CleanOK, At
    <3>3. ~(attempts' >= Threshold)
      BY <1>0, <2>1, Types
    <3> QED BY <3>2, <3>3, Below
  <2>2. CASE Fault /\ UNCHANGED attempts /\ Goto(h, "delLockout")
    <3>1. ~req'[h].clean /\ \A k \in Handlers \ {h} : req'[k] = req[k]
      BY <1>0, <2>0, <2>2, Moved
    <3>2. \A k \in Handlers : CleanOK(k)'
      BY <1>0, <2>2, <3>1 DEF CleanOK, At
    <3> QED BY <1>f, <2>2, <3>2, Excused
  <2> QED BY <1>5, <2>1, <2>2 DEF DelAttempts
<1>6. CASE DelLockout(h)
  <2>0. At(h, "delLockout") /\ UNCHANGED <<attempts, attemptsTTL>>
    BY <1>6 DEF DelLockout
  <2>1. ~req'[h].clean /\ \A k \in Handlers \ {h} : req'[k] = req[k]
    BY <1>0, <1>6, Moved DEF DelLockout
  <2>2. \A k \in Handlers : CleanOK(k)'
    BY <1>0, <2>0, <2>1 DEF CleanOK, At
  <2>3. CASE req[h].clean
    <3>1. ~(attempts' >= Threshold)
      BY <1>0, <2>0, <2>3, Types DEF CleanOK
    <3> QED BY <2>2, <3>1, Below
  <2>4. CASE ~req[h].clean
    <3>1. excused' = TRUE
      BY <1>6, <1>f, <2>4 DEF DelLockout
    <3> QED BY <2>2, <3>1, Excused
  <2> QED BY <2>3, <2>4
<1> QED BY <1>1, <1>2, <1>3, <1>4, <1>5, <1>6 DEF Step

LEMMA TickFollow ==
  ASSUME FollowInv, Tick
  PROVE  (\A k \in Handlers : CleanOK(k)') /\ HasTTL' /\ Follows'
<1>0. TypeOK /\ HasTTL /\ Follows /\ \A k \in Handlers : CleanOK(k)
  BY DEF FollowInv
<1>1. ASSUME NEW k \in Handlers
      PROVE  /\ req'[k].pc = req[k].pc /\ req'[k].count = req[k].count
             /\ req'[k].clean = req[k].clean
             /\ At(k, "expire") => req'[k].age = req[k].age + 1
             /\ req[k].age \in Nat
  BY <1>0, ReqFields DEF Tick, TypeOK, Requests, At
<1>2. \A k \in Handlers : CleanOK(k)'
  BY <1>0, <1>1 DEF CleanOK, Tick, At
<1>3. CASE attempts' >= Threshold /\ ~excused'
  <2>1. attempts' = attempts /\ attemptsTTL # 1 /\ ~excused
    BY <1>0, <1>3, Types DEF Tick
  <2>2. \A k \in Handlers : (Due(k)' <=> Due(k)) /\ (Locking(k)' <=> Locking(k))
    BY <1>1 DEF Due, Locking
  <2>3. HasTTL'
    <3>1. CASE attemptsTTL > 0
      BY <1>0, <2>1, <3>1, Types DEF Tick, HasTTL
    <3>2. CASE \E k \in Handlers : At(k, "expire") /\ Due(k)
      BY <1>1, <2>2, <3>2 DEF HasTTL, At
    <3> QED BY <1>0, <1>3, <2>1, <3>1, <3>2 DEF HasTTL
  <2>4. Follows'
    <3>1. SUFFICES ASSUME Settled' PROVE Follows'
      BY DEF Follows
    <3>2. Settled
      BY <1>3, <2>1, <2>2, <3>1 DEF Settled
    <3>3. attemptsTTL' <= lockTTL' + MaxLag
      BY <1>0, <3>2, Types DEF Follows, Tick, Locked
    <3>4. \A k \in Handlers : At(k, "expire")' => Window <= lockTTL' + req'[k].age
      BY <1>0, <1>1, <3>2, Types DEF Follows, Tick, Locked, At
    <3> QED BY <3>3, <3>4 DEF Follows
  <2> QED BY <1>2, <2>3, <2>4
<1> QED BY <1>2, <1>3, Below, Excused DEF HasTTL, Follows, Settled

LEMMA NextFollow == FollowInv /\ [Next]_vars => FollowInv'
<1> SUFFICES ASSUME FollowInv, [Next]_vars PROVE FollowInv'
  OBVIOUS
<1>1. TypeOK'
  BY NextTypeOK DEF FollowInv
<1>2. CASE Crash
  <2>1. \A k \in Handlers : CleanOK(k)'
    BY <1>2 DEF Crash, CleanOK, Idle
  <2>2. excused' = TRUE
    BY <1>2 DEF Crash, Fault
  <2> QED BY <1>1, <2>1, <2>2, Excused DEF FollowInv
<1>3. CASE UNCHANGED vars
  BY <1>1, <1>3 DEF vars, keys, FollowInv, CleanOK, HasTTL, Follows, Settled, Locking, Due, At
<1> QED BY <1>1, <1>2, <1>3, StepFollow, TickFollow DEF Next, FollowInv

LEMMA FollowInvariant == Spec => []FollowInv
<1>1. Init => FollowInv
  <2> SUFFICES ASSUME Init PROVE FollowInv
    OBVIOUS
  <2>1. ~(attempts >= Threshold)
    BY NumbersAssumption DEF Init
  <2> QED BY <2>1, InitTypeOK DEF Init, FollowInv, CleanOK, HasTTL, Follows, Settled, Idle
<1> QED BY <1>1, NextFollow, PTL DEF Spec

\* LockoutFollows: a full counter means a lockout, one about to be set, or the
\* MaxLag in which the counter can outlive it.
THEOREM SpecLockoutFollows == Spec => []LockoutFollows
<1>1. ASSUME FollowInv, attempts >= Threshold, ~Locked, ~excused,
             \A h \in Handlers : ~Locking(h)
      PROVE  attemptsTTL \in 1..MaxLag
  <2>1. attemptsTTL > 0
    BY <1>1 DEF FollowInv, HasTTL, Locking, At
  <2>2. attemptsTTL <= lockTTL + MaxLag /\ lockTTL = 0
    BY <1>1, Types DEF FollowInv, Follows, Settled, Locked
  <2> QED BY <1>1, <2>1, <2>2, Types DEF FollowInv
<1>2. FollowInv => LockoutFollows
  BY <1>1 DEF LockoutFollows
<1> QED BY <1>2, FollowInvariant, PTL

-----------------------------------------------------------------------------
(* The number of guesses.                                                   *)

LEMMA Sets ==
  /\ Cardinality(Handlers) \in Nat
  /\ Cardinality(Guessing) \in Nat /\ Cardinality(LockingSet) \in Nat
  /\ Cardinality(Guessing) <= Cardinality(Handlers)
  /\ Cardinality(LockingSet) + Cardinality(Guessing) <= Cardinality(Handlers)
<1>1. /\ IsFiniteSet(Guessing) /\ IsFiniteSet(LockingSet)
      /\ Cardinality(Guessing) <= Cardinality(Handlers)
  BY HandlersAssumption, FS_Subset DEF Guessing, LockingSet
<1>2. Guessing \cap LockingSet = {}
  BY DEF Guessing, LockingSet, Locking
<1>3. Cardinality(LockingSet \cup Guessing) <= Cardinality(Handlers)
  BY HandlersAssumption, FS_Subset DEF Guessing, LockingSet
<1>4. Cardinality(LockingSet \cup Guessing) =
        Cardinality(LockingSet) + Cardinality(Guessing) - Cardinality(LockingSet \cap Guessing)
  BY <1>1, FS_Union
<1>5. Cardinality(LockingSet \cap Guessing) = 0
  BY <1>2, FS_EmptySet
<1> QED BY <1>1, <1>3, <1>4, <1>5, HandlersAssumption, FS_CardinalityType

LEMMA SetsNext ==
  /\ Cardinality(Guessing') \in Nat /\ Cardinality(LockingSet') \in Nat
  /\ Cardinality(Guessing') <= Cardinality(Handlers)
BY HandlersAssumption, FS_Subset, FS_CardinalityType DEF Guessing, LockingSet

\* Each fault forgives as many guesses as there are handlers.
LEMMA ForgivenGrows ==
  ASSUME TypeOK
  PROVE  /\ Forgiven \in Nat
         /\ UNCHANGED faults => Forgiven' = Forgiven
         /\ Fault => Forgiven' = Forgiven + Cardinality(Handlers)
<1>1. faults \in Nat /\ Cardinality(Handlers) \in Nat
  BY Sets, NumbersAssumption DEF TypeOK
<1> QED BY <1>1 DEF Forgiven, Fault

\* The account has opened.
LEMMA Fresh ==
  ASSUME TypeOK', guesses' = 0
  PROVE  Bounded'
<1>1. faults' \in Nat /\ Cardinality(Handlers) \in Nat /\ attempts' \in Nat
  BY Sets, NumbersAssumption DEF TypeOK
<1>2. Forgiven' \in Nat
  BY <1>1 DEF Forgiven
<1> QED BY <1>1, <1>2, SetsNext, NumbersAssumption DEF Bounded

\* A fault that counts nothing, whoever gives up locking or passes the check.
LEMMA FaultBounded ==
  ASSUME TypeOK, Bounded, Fault, UNCHANGED guesses, attempts' = attempts, Locked' = Locked
  PROVE  Bounded'
BY Sets, SetsNext, Types, ForgivenGrows DEF Bounded

\* Nothing is counted, nobody passes a lockout and nobody gives up locking.
LEMMA Keep ==
  ASSUME TypeOK, Bounded, UNCHANGED guesses, attempts' = attempts, Locked' = Locked,
         UNCHANGED faults \/ Fault,
         Locked => Guessing' \subseteq Guessing, ~Locked => LockingSet \subseteq LockingSet'
  PROVE  Bounded'
<1>1. IsFiniteSet(Guessing) /\ IsFiniteSet(LockingSet')
  BY HandlersAssumption, FS_Subset DEF Guessing, LockingSet
<1>2. Locked => Cardinality(Guessing') <= Cardinality(Guessing)
  BY <1>1, FS_Subset
<1>3. ~Locked => Cardinality(LockingSet) <= Cardinality(LockingSet')
  BY <1>1, FS_Subset
<1>4. CASE UNCHANGED faults
  BY <1>2, <1>3, <1>4, Sets, SetsNext, Types, ForgivenGrows DEF Bounded
<1> QED BY <1>4, FaultBounded

LEMMA StepBounded ==
  ASSUME TypeOK, Bounded, NEW h \in Handlers, Arrive(h) \/ Step(h)
  PROVE  Bounded'
<1>0. TypeOK'
  BY StepType
<1>1. CASE Arrive(h) \/ CheckLoginAttempts(h) \/ Password(h)
  <2>1. UNCHANGED keys /\ UNCHANGED guesses /\ (UNCHANGED faults \/ Fault)
    BY <1>1 DEF Arrive, CheckLoginAttempts, Password, NoFault
  <2>2. /\ req[h].pc \in {"idle", "check", "password"}
        /\ \A k \in Handlers \ {h} : req'[k] = req[k]
        /\ Locked /\ ~Fault => (req'[h].pc \in {"password", "incr"} => req[h].pc = "password")
    BY <1>1, Moved DEF Arrive, CheckLoginAttempts, Password, At
  <2>3. LockingSet \subseteq LockingSet'
    BY <2>2 DEF LockingSet, Locking, Due
  <2>4. Locked /\ ~Fault => Guessing' \subseteq Guessing
    BY <2>2 DEF Guessing
  <2>5. Locked' = Locked /\ attempts' = attempts
    BY <2>1 DEF Locked, keys
  <2>6. CASE Fault
    BY <2>1, <2>5, <2>6, FaultBounded
  <2>7. CASE ~Fault
    BY <2>1, <2>3, <2>4, <2>5, <2>7, Keep
  <2> QED BY <2>6, <2>7
<1>2. CASE Incr(h)
  <2>0. At(h, "incr") /\ Locked' = Locked
    BY <1>2 DEF Incr, Locked
  <2>3. attempts' = Inc(attempts) /\ guesses' = Inc(guesses) =>
          guesses' <= attempts' /\ guesses' <= guesses + 1
    <3>1. guesses \in Nat /\ attempts \in Nat /\ MaxCount \in Nat /\ guesses <= attempts
      BY Types DEF Bounded
    <3>2. Inc(guesses) <= Inc(attempts) /\ Inc(guesses) <= guesses + 1
      BY <3>1 DEF Inc
    <3> QED BY <3>2
  <2>5. ASSUME NEW n \in Nat, Counted(h, n)
        PROVE  /\ req'[h].pc = "expire" /\ req'[h].count = n
               /\ \A k \in Handlers \ {h} : req'[k].pc = req[k].pc /\ req'[k].count = req[k].count
               /\ Cardinality(Guessing') = Cardinality(Guessing) - 1
    <3>1. /\ req'[h].pc = "expire" /\ req'[h].count = n
          /\ \A k \in Handlers \ {h} : req'[k].pc = req[k].pc /\ req'[k].count = req[k].count
      BY <2>5 DEF Counted, TypeOK, Requests
    <3>2. h \in Guessing /\ Guessing' = Guessing \ {h} /\ IsFiniteSet(Guessing)
      BY <2>0, <3>1, HandlersAssumption, FS_Subset DEF Guessing, At
    <3> QED BY <3>1, <3>2, FS_RemoveElement
  <2>1. CASE Counted(h, Inc(attempts)) /\ UNCHANGED faults
    <3>1. /\ req'[h].pc = "expire" /\ req'[h].count = attempts'
          /\ \A k \in Handlers \ {h} : req'[k].pc = req[k].pc /\ req'[k].count = req[k].count
      BY <2>1, <2>5, Types DEF Counted
    <3>2. guesses' <= attempts' /\ guesses' <= guesses + 1
      BY <2>1, <2>3 DEF Counted
    <3>3. Cardinality(Guessing') = Cardinality(Guessing) - 1
      BY <2>1, <2>5, Types
    <3>4. guesses' >= Threshold => Cardinality(LockingSet') = Cardinality(LockingSet) + 1
      <4>1. SUFFICES ASSUME guesses' >= Threshold
                     PROVE  Cardinality(LockingSet') = Cardinality(LockingSet) + 1
        OBVIOUS
      <4>2. Locking(h)' /\ ~Locking(h)
        BY <1>0, <2>0, <3>1, <3>2, <4>1, Types DEF Locking, Due, At, TypeOK
      <4>3. \A k \in Handlers \ {h} : Locking(k)' <=> Locking(k)
        BY <3>1 DEF Locking, Due
      <4>4. LockingSet' = LockingSet \cup {h} /\ h \notin LockingSet /\ IsFiniteSet(LockingSet)
        BY <4>2, <4>3, HandlersAssumption, FS_Subset DEF LockingSet
      <4> QED BY <4>4, FS_AddElement
    <3>5. /\ guesses \in Nat /\ guesses' \in Nat /\ Threshold \in Nat
          /\ Forgiven \in Nat /\ Forgiven' = Forgiven
      BY <1>0, <2>1, Types, ForgivenGrows DEF TypeOK
    <3>6. ASSUME Locked
          PROVE  guesses' + Cardinality(Guessing')
                   <= Threshold - 1 + Cardinality(Handlers) + Forgiven
      BY <3>2, <3>3, <3>5, <3>6, Sets DEF Bounded
    <3>7. ASSUME ~Locked
          PROVE  guesses' <= Threshold - 1 + Cardinality(LockingSet') + Forgiven
      <4>1. guesses <= Threshold - 1 + Cardinality(LockingSet) + Forgiven
        BY <3>7 DEF Bounded
      <4>2. CASE guesses' >= Threshold
        BY <3>2, <3>4, <3>5, <4>1, <4>2, Sets, SetsNext
      <4>3. CASE ~(guesses' >= Threshold)
        BY <3>5, <4>3, SetsNext
      <4> QED BY <4>2, <4>3
    <3> QED BY <2>0, <3>2, <3>5, <3>6, <3>7 DEF Bounded
  <2>2. CASE Fault /\ UNCHANGED <<attempts, guesses>>
    BY <2>0, <2>2, FaultBounded
  <2>4. CASE Counted(h, 0) /\ Fault
    <3>1. guesses' <= attempts' /\ guesses' <= guesses + 1
      BY <2>3, <2>4 DEF Counted
    <3>2. Cardinality(Guessing') = Cardinality(Guessing) - 1
      BY <2>4, <2>5
    <3>3. Cardinality(LockingSet) + 1 <= Cardinality(Handlers)
      BY <3>2, Sets, SetsNext
    <3>4. guesses \in Nat /\ guesses' \in Nat /\ Threshold \in Nat
      BY <1>0, Types DEF TypeOK
    <3> QED BY <2>0, <2>4, <3>1, <3>2, <3>3, <3>4, Sets, SetsNext, ForgivenGrows DEF Bounded
  <2> QED BY <1>2, <2>1, <2>2, <2>4 DEF Incr, NoFault
<1>3. CASE Expire(h)
  <2>1. /\ UNCHANGED guesses /\ attempts' = attempts /\ Locked' = Locked
        /\ UNCHANGED faults \/ Fault
    BY <1>3 DEF Expire, Locked, NoFault
  <2>2. /\ \A k \in Handlers \ {h} : req'[k] = req[k]
        /\ Locking(h) => Locking(h)'
        /\ req'[h].pc \notin {"password", "incr"}
    <3>1. CASE Due(h) /\ Goto(h, "lock")
      BY <3>1, Moved DEF Locking, Due
    <3>2. CASE ~Due(h) /\ Return(h)
      BY <3>2, Moved DEF Locking
    <3> QED BY <1>3, <3>1, <3>2 DEF Expire
  <2>3. Guessing' \subseteq Guessing /\ LockingSet \subseteq LockingSet'
    BY <2>2 DEF Guessing, LockingSet, Locking, Due
  <2> QED BY <2>1, <2>3, Keep
<1>4. CASE Lock(h)
  <2>1. At(h, "lock") /\ UNCHANGED guesses /\ attempts' = attempts
    BY <1>4 DEF Lock
  <2>2. CASE Fault /\ UNCHANGED lockTTL
    BY <2>1, <2>2, FaultBounded DEF Locked
  <2>3. CASE lockTTL' = Window /\ UNCHANGED faults
    <3>1. Locked'
      BY <2>3, Types DEF Locked
    <3>2. Guessing' = Guessing
      <4>1. req'[h].pc = "idle" /\ \A k \in Handlers \ {h} : req'[k] = req[k]
        BY <1>4, Moved DEF Lock
      <4> QED BY <2>1, <4>1 DEF Guessing, At
    <3> QED BY <2>1, <2>3, <3>1, <3>2, Sets, Types, ForgivenGrows DEF Bounded
  <2> QED BY <1>4, <2>2, <2>3 DEF Lock, NoFault
<1>5. CASE DelAttempts(h)
  <2>1. CASE guesses' = 0
    BY <1>0, <2>1, Fresh
  <2>2. CASE Fault /\ UNCHANGED <<attempts, guesses>>
    BY <1>5, <2>2, FaultBounded DEF DelAttempts, Locked
  <2> QED BY <1>5, <2>1, <2>2 DEF DelAttempts
<1>6. CASE DelLockout(h)
  <2>1. CASE guesses' = 0
    BY <1>0, <2>1, Fresh
  <2>2. CASE Fault /\ UNCHANGED <<attempts, lockTTL, guesses>>
    BY <2>2, FaultBounded DEF Locked
  <2> QED BY <1>6, <2>1, <2>2 DEF DelLockout
<1> QED BY <1>1, <1>2, <1>3, <1>4, <1>5, <1>6 DEF Step

LEMMA NextBounded == TypeOK /\ Bounded /\ [Next]_vars => Bounded'
<1> SUFFICES ASSUME TypeOK, Bounded, [Next]_vars PROVE Bounded'
  OBVIOUS
<1>0. TypeOK'
  BY NextTypeOK
<1>1. CASE Tick
  <2>1. CASE guesses' = 0
    BY <1>0, <2>1, Fresh
  <2>2. CASE guesses' # 0
    <3>1. UNCHANGED guesses /\ attempts' = attempts /\ lockTTL # 1 /\ attempts' # 0
      BY <1>1, <2>2, Types DEF Tick
    <3>2. Locked' = Locked
      BY <1>1, <3>1, Types DEF Tick, Locked
    <3>3. UNCHANGED faults
      BY <1>1 DEF Tick
    <3>4. \A k \in Handlers : req'[k].pc = req[k].pc /\ req'[k].count = req[k].count
      BY <1>1 DEF Tick, TypeOK, Requests
    <3>5. Guessing' = Guessing /\ LockingSet' = LockingSet
      BY <3>4 DEF Guessing, LockingSet, Locking, Due
    <3> QED BY <3>1, <3>2, <3>3, <3>5, Keep
  <2> QED BY <2>1, <2>2
<1>2. CASE Crash
  BY <1>2, FaultBounded DEF Crash, keys, Locked
<1>3. CASE UNCHANGED vars
  BY <1>3 DEF vars, keys, Bounded, Forgiven, Locked, Guessing, LockingSet, Locking, Due
<1> QED BY <1>1, <1>2, <1>3, StepBounded DEF Next

\* GuessBound: from one opening of the account to the next, each concurrent
\* login has at most one guess past the threshold, and once more for each fault.
THEOREM SpecGuessBound == Spec => []GuessBound
<1>1. Init => TypeOK /\ Bounded
  <2> SUFFICES ASSUME Init PROVE TypeOK /\ Bounded
    OBVIOUS
  <2>1. TypeOK
    BY InitTypeOK
  <2>2. Forgiven \in Nat
    BY <2>1, ForgivenGrows
  <2> QED BY <2>1, <2>2, Sets, NumbersAssumption DEF Init, Bounded
<1>2. TypeOK /\ Bounded => GuessBound
  <2> SUFFICES ASSUME TypeOK, Bounded PROVE GuessBound
    OBVIOUS
  <2>1. guesses <= Threshold - 1 + Cardinality(Handlers) + Forgiven
    BY Sets, Types, ForgivenGrows DEF Bounded
  <2>2. /\ faults \in Nat /\ Cardinality(Handlers) \in Nat
        /\ Threshold - 1 \in Int /\ guesses \in Nat
    BY Sets, NumbersAssumption DEF TypeOK
  <2>3. Cardinality(Handlers) * (1 + faults) = Cardinality(Handlers) + Cardinality(Handlers) * faults
    BY <2>2
  <2> QED BY <2>1, <2>2, <2>3 DEF Forgiven, GuessBound
<1> QED BY <1>1, <1>2, NextTypeOK, NextBounded, PTL DEF Spec

-----------------------------------------------------------------------------
(* The rate limiter, the other counter of Redis with a time to live.        *)

\* Requests that have read a counter below the limit.
Passing == {h \in Callers : Is(h, "incr")}

\* Each of them adds one to a counter that was below the limit when it read it.
CountBounded == count + Cardinality(Passing) < MaxReqs + Cardinality(Callers)

\* The increments of the last window are told apart by the value they left in
\* the counter; the last of them set the TTL, and none is older than that.
RecentCounted ==
  /\ \A e \in recent : e[1] \in 1..count /\ e[2] + ttl >= Duration
  /\ \A d, e \in recent : d[1] = e[1] => d = e
  /\ count > 0 => ttl > 0 /\ <<count, Duration - ttl>> \in recent
  /\ count = 0 => ttl = 0

LimiterInv == LimiterTypeOK /\ CountBounded /\ RecentCounted

-----------------------------------------------------------------------------
(* Cardinalities.                                                           *)

\* The requests between their GET and their MULTI are at most the handlers.
LEMMA PassingFinite ==
  /\ IsFiniteSet(Passing)
  /\ Cardinality(Passing) \in Nat /\ Cardinality(Callers) \in Nat
  /\ Cardinality(Passing) <= Cardinality(Callers)
BY CallersAssumption, FS_Subset, FS_CardinalityType DEF Passing

\* A set of pairs with distinct first components in 1..n has at most n members.
LEMMA DistinctFirst ==
  ASSUME NEW n \in Nat, NEW S,
         \A e \in S : e[1] \in 1..n,
         \A d, e \in S : d[1] = e[1] => d = e
  PROVE  IsFiniteSet(S) /\ Cardinality(S) <= n
<1> DEFINE f == [e \in S |-> e[1]]
<1>1. f \in Injection(S, 1..n)
  BY DEF Injection, IsInjective
<1>2. IsFiniteSet(1..n) /\ Cardinality(1..n) = n
  <2>1. 1 \in Int /\ n \in Int
    OBVIOUS
  <2>2. IsFiniteSet(1..n) /\ Cardinality(1..n) = IF 1 > n THEN 0 ELSE n - 1 + 1
    BY <2>1, FS_Interval
  <2> QED BY <2>2
<1> HIDE DEF f
<1> QED BY <1>1, <1>2, FS_Injection

-----------------------------------------------------------------------------
(* The inductive invariant.                                                 *)

LEMMA LimiterInitInv == LimiterInit => LimiterInv
<1> SUFFICES ASSUME LimiterInit PROVE LimiterInv
  OBVIOUS
<1>1. LimiterTypeOK
  BY LimitAssumption DEF LimiterInit, LimiterTypeOK
<1>2. CountBounded
  <2>1. Passing = {}
    BY DEF LimiterInit, Passing, Is
  <2>2. Cardinality(Passing) = 0
    BY <2>1, FS_EmptySet
  <2> QED BY <2>2, PassingFinite, LimitAssumption DEF LimiterInit, CountBounded
<1>3. RecentCounted
  BY DEF LimiterInit, RecentCounted
<1> QED BY <1>1, <1>2, <1>3 DEF LimiterInv

\* Arrivals, GETs and failed transactions leave the counter alone.
LEMMA CounterKept ==
  ASSUME UNCHANGED <<count, ttl, recent>>, RecentCounted
  PROVE  RecentCounted'
BY DEF RecentCounted

\* The transaction of a passing request.
LEMMA CountInv ==
  ASSUME LimiterInv, NEW h \in Callers, Is(h, "incr"), Enter(h, "idle"), Count,
         errors' \in 0..MaxErrors
  PROVE  LimiterInv'
<1>1. LimiterTypeOK'
  <2>1. recent' \subseteq (Nat \ {0}) \X (0..Duration - 1)
    BY LimitAssumption DEF LimiterInv, LimiterTypeOK, Count
  <2> QED BY <2>1, LimitAssumption DEF LimiterInv, LimiterTypeOK, Count, Enter
<1>2. CountBounded'
  <2>1. Passing' = Passing \ {h} /\ h \in Passing
    BY DEF Passing, Is, Enter, LimiterInv, LimiterTypeOK
  <2>2. Cardinality(Passing') = Cardinality(Passing) - 1
    BY <2>1, PassingFinite, FS_RemoveElement
  <2> QED BY <2>2, PassingFinite, LimitAssumption
            DEF LimiterInv, LimiterTypeOK, CountBounded, Count
<1>3. RecentCounted'
  <2>1. \A e \in recent' : e \in recent \/ e = <<count + 1, 0>>
    BY DEF Count
  <2>2. \A e \in recent : e[1] \in 1..count /\ e[2] \in Nat
    BY DEF LimiterInv, RecentCounted, LimiterTypeOK
  <2>3. count' = count + 1 /\ ttl' = Duration /\ count \in Nat /\ Duration \in Nat \ {0}
    BY LimitAssumption DEF Count, LimiterInv, LimiterTypeOK
  <2>4. <<count', Duration - ttl'>> \in recent'
    BY <2>3 DEF Count
  <2>5. \A d, e \in recent' : d[1] = e[1] => d = e
    BY <2>1, <2>2, <2>3 DEF LimiterInv, RecentCounted
  <2>6. \A e \in recent' : e[1] \in 1..count' /\ e[2] + ttl' >= Duration
    BY <2>1, <2>2, <2>3
  <2> QED BY <2>3, <2>4, <2>5, <2>6 DEF RecentCounted
<1> QED BY <1>1, <1>2, <1>3 DEF LimiterInv

\* A clock tick: the entry that set the TTL leaves the window when the key goes.
LEMMA TickInv ==
  ASSUME LimiterInv, LimiterTick
  PROVE  LimiterInv'
<1> DEFINE Older(e) == <<e[1], e[2] + 1>>
<1>1. recent' = {Older(e) : e \in {d \in recent : d[2] + 1 < Duration}}
  BY DEF LimiterTick
<1>2. \A e \in recent : e = <<e[1], e[2]>> /\ e[1] \in Nat \ {0} /\ e[2] \in 0..Duration - 1
  BY DEF LimiterInv, LimiterTypeOK
<1>3. \A e \in recent' : \E d \in recent :
         e = Older(d) /\ d[2] + 1 < Duration /\ e[1] = d[1] /\ e[2] = d[2] + 1
  BY <1>1
<1>4. LimiterTypeOK'
  <2>1. recent' \subseteq (Nat \ {0}) \X (0..Duration - 1)
    BY <1>1, <1>2, LimitAssumption
  <2> QED BY <2>1, LimitAssumption DEF LimiterInv, LimiterTypeOK, LimiterTick
<1>5. CountBounded'
  <2>1. Passing' = Passing /\ count' \in Nat /\ count' <= count
    BY DEF LimiterTick, Passing, Is, LimiterInv, LimiterTypeOK
  <2> QED BY <2>1, PassingFinite, LimitAssumption
            DEF LimiterInv, LimiterTypeOK, CountBounded
<1>6. RecentCounted'
  <2>1. CASE ttl <= 1
    <3>1. count' = 0 /\ ttl' = 0
      BY <2>1 DEF LimiterTick, LimiterInv, LimiterTypeOK, RecentCounted
    <3>2. \A e \in recent : ~(e[2] + 1 < Duration)
      <4> TAKE e \in recent
      <4>1. e[2] + ttl >= Duration /\ e[2] \in Nat
        BY <1>2 DEF LimiterInv, RecentCounted
      <4> QED BY <2>1, <4>1, LimitAssumption DEF LimiterInv, LimiterTypeOK
    <3>3. recent' = {}
      BY <3>2, <1>1
    <3> QED BY <3>1, <3>3 DEF RecentCounted
  <2>2. CASE ttl > 1
    <3>1. count' = count /\ ttl' = ttl - 1 /\ ttl \in Nat /\ ttl <= Duration /\ count > 0
      BY <2>2 DEF LimiterTick, LimiterInv, LimiterTypeOK, RecentCounted
    <3>2. \A e \in recent' : e[1] \in 1..count' /\ e[2] + ttl' >= Duration
      <4> TAKE e \in recent'
      <4>1. PICK d \in recent : e[1] = d[1] /\ e[2] = d[2] + 1
        BY <1>3
      <4>2. d[1] \in 1..count /\ d[2] + ttl >= Duration /\ d[2] \in Nat
        BY <1>2 DEF LimiterInv, RecentCounted
      <4> QED BY <3>1, <4>1, <4>2, LimitAssumption
    <3>3. \A d, e \in recent' : d[1] = e[1] => d = e
      BY <1>3 DEF LimiterInv, RecentCounted
    <3>4. <<count', Duration - ttl'>> \in recent'
      <4> DEFINE last == <<count, Duration - ttl>>
      <4>1. last \in recent
        BY <3>1 DEF LimiterInv, RecentCounted
      <4>2. last[1] = count /\ last[2] = Duration - ttl
        OBVIOUS
      <4>3. last[2] + 1 < Duration /\ last[2] + 1 = Duration - ttl'
        BY <4>2, <3>1, <2>2, LimitAssumption
      <4>4. Older(last) = <<count', Duration - ttl'>>
        BY <4>2, <4>3, <3>1
      <4> QED BY <1>1, <4>1, <4>3, <4>4
    <3> QED BY <2>2, <3>1, <3>2, <3>3, <3>4 DEF RecentCounted
  <2> QED BY <2>1, <2>2 DEF LimiterInv, LimiterTypeOK
<1> QED BY <1>4, <1>5, <1>6 DEF LimiterInv

\* One step per action.
LEMMA LimiterStepInv == LimiterInv /\ [LimiterNext]_limiterVars => LimiterInv'
<1> SUFFICES ASSUME LimiterInv, [LimiterNext]_limiterVars PROVE LimiterInv'
  OBVIOUS
<1>1. ASSUME NEW h \in Callers, Begin(h) PROVE LimiterInv'
  <2>1. LimiterTypeOK'
    BY <1>1 DEF Begin, Enter, LimiterInv, LimiterTypeOK
  <2>2. Passing' = Passing
    BY <1>1 DEF Begin, Enter, Passing, Is, LimiterInv, LimiterTypeOK
  <2>3. CountBounded'
    BY <1>1, <2>2 DEF Begin, CountBounded, LimiterInv
  <2>4. RecentCounted'
    BY <1>1, CounterKept DEF Begin, LimiterInv
  <2> QED BY <2>1, <2>3, <2>4 DEF LimiterInv
<1>2. ASSUME NEW h \in Callers, Get(h) PROVE LimiterInv'
  <2>1. LimiterTypeOK'
    BY <1>2, LimitAssumption DEF Get, Enter, Failure, LimiterInv, LimiterTypeOK
  <2>2. CountBounded'
    <3>1. CASE count < MaxReqs
      <4>1. Passing' \subseteq Callers
        BY DEF Passing
      <4>2. Cardinality(Passing') \in Nat /\ Cardinality(Passing') <= Cardinality(Callers)
        BY <4>1, CallersAssumption, FS_Subset, FS_CardinalityType
      <4> QED BY <3>1, <1>2, <4>2, PassingFinite, LimitAssumption
                DEF Get, CountBounded, LimiterInv, LimiterTypeOK
    <3>2. CASE ~(count < MaxReqs)
      <4>1. Passing' = Passing
        BY <3>2, <1>2 DEF Get, Enter, Passing, Is, LimiterInv, LimiterTypeOK
      <4> QED BY <4>1, <1>2 DEF Get, CountBounded, LimiterInv
    <3> QED BY <3>1, <3>2
  <2>3. RecentCounted'
    BY <1>2, CounterKept DEF Get, LimiterInv
  <2> QED BY <2>1, <2>2, <2>3 DEF LimiterInv
<1>3. ASSUME NEW h \in Callers, IncrExpire(h) PROVE LimiterInv'
  <2>1. errors' \in 0..MaxErrors
    BY <1>3, LimitAssumption DEF IncrExpire, Failure, LimiterInv, LimiterTypeOK
  <2>2. CASE Count
    BY <1>3, <2>1, <2>2, CountInv DEF IncrExpire
  <2>3. CASE UNCHANGED <<count, ttl, recent>>
    <3>1. LimiterTypeOK'
      BY <1>3, <2>1, <2>3 DEF IncrExpire, Enter, LimiterInv, LimiterTypeOK
    <3>2. Passing' \subseteq Passing
      BY <1>3 DEF IncrExpire, Enter, Passing, Is, LimiterInv, LimiterTypeOK
    <3>3. Cardinality(Passing') \in Nat /\ Cardinality(Passing') <= Cardinality(Passing)
      BY <3>2, PassingFinite, FS_Subset, FS_CardinalityType
    <3>4. CountBounded'
      BY <2>3, <3>3, PassingFinite, LimitAssumption DEF CountBounded, LimiterInv, LimiterTypeOK
    <3> QED BY <3>1, <3>4, <2>3, CounterKept DEF LimiterInv
  <2> QED BY <1>3, <2>2, <2>3 DEF IncrExpire
<1>4. CASE LimiterTick
  BY <1>4, TickInv
<1>5. CASE UNCHANGED limiterVars
  BY <1>5 DEF limiterVars, LimiterInv, LimiterTypeOK, CountBounded, RecentCounted, Passing, Is
<1> QED BY <1>1, <1>2, <1>3, <1>4, <1>5 DEF LimiterNext

\* The inductive invariant of the limiter holds of every behaviour.
THEOREM LimiterSpecInv == LimiterSpec => []LimiterInv
BY LimiterInitInv, LimiterStepInv, PTL DEF LimiterSpec

-----------------------------------------------------------------------------
\* The limiter's variables keep their types for all constants.
THEOREM LimiterSpecTypeOK == LimiterSpec => []LimiterTypeOK
<1>1. LimiterInv => LimiterTypeOK
  BY DEF LimiterInv
<1> QED BY <1>1, LimiterSpecInv, PTL

\* For any limit, window and number of concurrent requests, any window of time
\* has fewer than MaxReqs + Cardinality(Callers) counted requests.
THEOREM LimiterSpecWindowBound == LimiterSpec => []WindowBound
<1>1. LimiterInv => WindowBound
  <2> SUFFICES ASSUME LimiterInv PROVE WindowBound
    OBVIOUS
  <2>1. count \in Nat /\ count < MaxReqs + Cardinality(Callers)
    BY PassingFinite, LimitAssumption DEF LimiterInv, LimiterTypeOK, CountBounded
  <2>2. IsFiniteSet(recent) /\ Cardinality(recent) <= count
    BY <2>1, DistinctFirst DEF LimiterInv, RecentCounted
  <2> QED BY <2>1, <2>2, FS_CardinalityType, PassingFinite, LimitAssumption
            DEF WindowBound
<1> QED BY <1>1, LimiterSpecInv, PTL

\* After a silent window the key is gone, whatever failed before.
THEOREM LimiterSpecSilentClientPasses == LimiterSpec => []SilentClientPasses
<1>1. LimiterInv => SilentClientPasses
  BY DEF LimiterInv, LimiterTypeOK, RecentCounted, SilentClientPasses
<1> QED BY <1>1, LimiterSpecInv, PTL
=============================================================================
