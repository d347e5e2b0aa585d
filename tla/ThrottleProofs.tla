--------------------------- MODULE ThrottleProofs ---------------------------
(* Proofs of the safety properties of Throttle.                             *)
EXTENDS Throttle, FiniteSetTheorems, TLAPS

\* A request has a bucket from LoadOrStore to Allow.
UsingOK == \A h \in Handlers : At(h, "load") <=> using[h] = NoBucket

\* The cleanup deletes an entry that is there, and one that has been made since
\* the last deletion is not idle enough yet.
EntryOK ==
  /\ doomed => entry # NoBucket
  /\ watch.replaced /\ entry # NoBucket => idle[entry] <= watch.time + MaxLag /\ ~doomed

\* The requests that use a bucket which is no longer in the map.
Strays == {h \in Handlers : using[h] \notin {NoBucket, entry}}

\* What the bucket in the map holds; a new one is full.
Available == IF entry = NoBucket THEN Burst ELSE tokens[entry]

\* What has passed, what can still be taken from the bucket in the map, and one
\* for each request with a removed bucket.
Account == watch.passed + Available + Cardinality(Strays) <= Allowance

Inv == TypeOK /\ UsingOK /\ EntryOK /\ Account

-----------------------------------------------------------------------------
(* Cardinalities and numbers.                                               *)

LEMMA StraysFinite ==
  /\ IsFiniteSet(Strays)
  /\ Cardinality(Strays) \in Nat /\ Cardinality(Handlers) \in Nat
  /\ Cardinality(Strays) <= Cardinality(Handlers)
BY HandlersAssumption, FS_Subset, FS_CardinalityType DEF Strays

LEMMA SpanNat == Span \in Nat /\ Span + MaxLag = IdleLimit
BY NumbersAssumption DEF Span

LEMMA FreshType == Fresh \in [time : 0..Span, passed : Nat, replaced : BOOLEAN]
BY SpanNat DEF Fresh

\* The bucket in the map never holds more than the burst.
LEMMA AvailableBound == TypeOK => Available \in 0..Burst
BY NumbersAssumption DEF TypeOK, Available

\* A second adds the tokens of a second.
LEMMA RateTimes ==
  ASSUME NEW t \in Nat
  PROVE  Rate * t \in Nat /\ Rate * (t + 1) = Rate * t + Rate
BY NumbersAssumption

\* At the beginning of a period there is nothing to account for but the bucket and
\* the requests with removed ones.
LEMMA FreshAccount ==
  ASSUME Inv, watch' = Fresh, entry' = entry, using' = using,
         Available' \in 0..Burst
  PROVE  Account'
<1>1. Strays' = Strays
  BY DEF Strays
<1>2. watch'.passed = 0 /\ watch'.time = 0 /\ watch'.replaced = FALSE
  BY DEF Fresh
<1>3. Allowance' = Burst + Cardinality(Handlers)
  BY <1>2, NumbersAssumption, StraysFinite DEF Allowance
<1> QED BY <1>1, <1>2, <1>3, StraysFinite, NumbersAssumption DEF Account

-----------------------------------------------------------------------------
(* The inductive invariant.                                                 *)

LEMMA InitInv == Init => Inv
<1> SUFFICES ASSUME Init PROVE Inv
  OBVIOUS
<1>1. TypeOK
  <2>1. Burst \in 0..Burst /\ 0 \in 0..IdleLimit + 1
    BY NumbersAssumption
  <2>2. /\ tokens \in [Buckets -> 0..Burst] /\ idle \in [Buckets -> 0..IdleLimit + 1]
        /\ pc \in [Handlers -> {"load", "touch", "allow"}]
        /\ using \in [Handlers -> Buckets \cup {NoBucket}]
    BY <2>1 DEF Init
  <2> QED BY <2>2, FreshType DEF Init, TypeOK
<1>2. UsingOK
  BY DEF Init, UsingOK, At
<1>3. EntryOK
  BY DEF Init, EntryOK, Fresh
<1>4. Account
  <2>1. Strays = {}
    BY DEF Init, Strays
  <2>2. Cardinality(Strays) = 0
    BY <2>1, FS_EmptySet
  <2>3. Available = Burst /\ watch.passed = 0 /\ watch.time = 0 /\ ~watch.replaced
    BY DEF Init, Available, Fresh
  <2> QED BY <2>2, <2>3, StraysFinite, NumbersAssumption DEF Account, Allowance
<1> QED BY <1>1, <1>2, <1>3, <1>4 DEF Inv

\* A request with no bucket in the map finds or makes one, which is no stray's.
LEMMA LoadOrStoreInv ==
  ASSUME Inv, NEW h \in Handlers, LoadOrStore(h)
  PROVE  Inv'
<1> USE NumbersAssumption, BucketsAssumption
<1>0. TypeOK /\ UsingOK /\ EntryOK /\ Account /\ using[h] = NoBucket
  BY DEF Inv, UsingOK, LoadOrStore
<1>1. CASE entry # NoBucket
  <2>1. /\ entry' = entry /\ tokens' = tokens /\ idle' = idle
        /\ doomed' = doomed /\ watch' = watch
        /\ using' = [using EXCEPT ![h] = entry] /\ pc' = [pc EXCEPT ![h] = "touch"]
    BY <1>1 DEF LoadOrStore, Goto
  <2>2. TypeOK'
    BY <1>0, <2>1 DEF TypeOK
  <2>3. UsingOK'
    BY <1>0, <1>1, <2>1 DEF TypeOK, UsingOK, At
  <2>4. EntryOK'
    BY <1>0, <2>1 DEF EntryOK
  <2>5. Strays' = Strays
    BY <1>0, <2>1 DEF TypeOK, Strays
  <2>6. Account'
    BY <1>0, <2>1, <2>5 DEF Account, Available, Allowance
  <2> QED BY <2>2, <2>3, <2>4, <2>6 DEF Inv
<1>2. CASE entry = NoBucket
  <2>1. PICK b \in Buckets, lag \in 0..MaxLag :
          /\ b \notin Referred /\ entry' = b
          /\ tokens' = [tokens EXCEPT ![b] = Burst] /\ idle' = [idle EXCEPT ![b] = lag]
          /\ doomed' = doomed /\ watch' = watch
          /\ using' = [using EXCEPT ![h] = b] /\ pc' = [pc EXCEPT ![h] = "touch"]
    BY <1>2 DEF LoadOrStore, Goto, NewLimiter
  <2>2. TypeOK'
    BY <1>0, <2>1 DEF TypeOK
  <2>3. UsingOK'
    BY <1>0, <2>1 DEF TypeOK, UsingOK, At
  <2>4. EntryOK'
    BY <1>0, <1>2, <2>1, SpanNat DEF TypeOK, EntryOK
  <2>5. Strays' = Strays
    BY <1>0, <1>2, <2>1 DEF TypeOK, Strays, Referred
  <2>6. Available' = Available
    BY <1>0, <1>2, <2>1 DEF TypeOK, Available
  <2>7. Account'
    BY <1>0, <2>1, <2>5, <2>6 DEF Account, Allowance
  <2> QED BY <2>2, <2>3, <2>4, <2>7 DEF Inv
<1> QED BY <1>1, <1>2

LEMMA TouchInv ==
  ASSUME Inv, NEW h \in Handlers, Touch(h)
  PROVE  Inv'
<1> USE NumbersAssumption, BucketsAssumption
<1>0. TypeOK /\ UsingOK /\ EntryOK /\ Account /\ using[h] \in Buckets
  BY DEF Inv, TypeOK, UsingOK, Touch, At
<1>1. PICK lag \in 0..MaxLag :
        /\ idle' = [idle EXCEPT ![using[h]] = lag]
        /\ entry' = entry /\ tokens' = tokens /\ using' = using
        /\ doomed' = doomed /\ watch' = watch /\ pc' = [pc EXCEPT ![h] = "allow"]
  BY DEF Touch, Goto
<1>2. TypeOK'
  BY <1>0, <1>1 DEF TypeOK
<1>3. UsingOK'
  BY <1>0, <1>1 DEF TypeOK, UsingOK, At, Touch
<1>4. EntryOK'
  BY <1>0, <1>1 DEF TypeOK, EntryOK
<1>5. Account'
  BY <1>0, <1>1 DEF Account, Strays, Available, Allowance
<1> QED BY <1>2, <1>3, <1>4, <1>5 DEF Inv

\* A request takes a token from the bucket in the map, or it was a stray and is one
\* no longer.
LEMMA AllowInv ==
  ASSUME Inv, NEW h \in Handlers, Allow(h)
  PROVE  Inv'
<1> USE NumbersAssumption, BucketsAssumption
<1> DEFINE b == using[h]
<1>0. TypeOK /\ UsingOK /\ EntryOK /\ Account /\ b \in Buckets
  BY DEF Inv, TypeOK, UsingOK, Allow, At
<1>1. /\ using' = [using EXCEPT ![h] = NoBucket] /\ pc' = [pc EXCEPT ![h] = "load"]
      /\ entry' = entry /\ idle' = idle /\ doomed' = doomed
      /\ \/ /\ tokens[b] > 0 /\ tokens' = [tokens EXCEPT ![b] = @ - 1]
            /\ watch' = [watch EXCEPT !.passed = @ + 1]
         \/ tokens' = tokens /\ watch' = watch
  BY DEF Allow, Goto
<1>2. TypeOK'
  BY <1>0, <1>1 DEF TypeOK
<1>3. UsingOK'
  BY <1>0, <1>1 DEF TypeOK, UsingOK, At
<1>4. /\ watch'.time = watch.time /\ watch'.replaced = watch.replaced
      /\ watch'.passed \in {watch.passed, watch.passed + 1}
      /\ watch.passed \in Nat
  BY <1>0, <1>1 DEF TypeOK
<1>5. EntryOK'
  BY <1>0, <1>1, <1>4 DEF EntryOK
<1>6. Allowance' = Allowance
  BY <1>4 DEF Allowance
<1>7. Account'
  <2>1. CASE b = entry
    <3>1. Strays' = Strays
      BY <1>0, <1>1, <2>1 DEF TypeOK, Strays
    <3>2. watch'.passed + Available' = watch.passed + Available
      BY <1>0, <1>1, <2>1 DEF TypeOK, Available
    <3> QED BY <1>0, <1>6, <3>1, <3>2 DEF Account
  <2>2. CASE b # entry
    <3>1. h \in Strays /\ Strays' = Strays \ {h}
      BY <1>0, <1>1, <2>2 DEF TypeOK, Strays
    <3>2. Cardinality(Strays') = Cardinality(Strays) - 1
      BY <3>1, StraysFinite, FS_RemoveElement
    <3>3. Available' = Available /\ Available \in 0..Burst
      BY <1>0, <1>1, <2>2, AvailableBound DEF TypeOK, Available
    <3>4. Allowance \in Int
      BY <1>0, RateTimes, StraysFinite, SpanNat DEF TypeOK, Allowance
    <3> QED BY <1>0, <1>4, <1>6, <3>2, <3>3, <3>4, StraysFinite DEF Account
  <2> QED BY <2>1, <2>2
<1> QED BY <1>2, <1>3, <1>5, <1>7 DEF Inv

\* An entry made since the last deletion in the period is not idle for so long.
LEMMA FindIdleInv ==
  ASSUME Inv, FindIdle
  PROVE  Inv'
<1> USE NumbersAssumption, BucketsAssumption
<1>0. TypeOK /\ UsingOK /\ EntryOK /\ Account
  BY DEF Inv
<1>1. /\ entry # NoBucket /\ idle[entry] > IdleLimit /\ doomed' = TRUE
      /\ entry' = entry /\ tokens' = tokens /\ idle' = idle /\ pc' = pc
      /\ using' = using /\ watch' = watch
  BY DEF FindIdle
<1>2. TypeOK'
  BY <1>0, <1>1 DEF TypeOK, FindIdle
<1>3. UsingOK'
  BY <1>0, <1>1 DEF UsingOK, At
<1>4. ~watch.replaced
  BY <1>0, <1>1, SpanNat DEF TypeOK, EntryOK
<1>5. EntryOK'
  BY <1>1, <1>4 DEF EntryOK
<1>6. Account'
  BY <1>0, <1>1 DEF Account, Strays, Available, Allowance
<1> QED BY <1>2, <1>3, <1>5, <1>6 DEF Inv

\* The first deletion of the period makes room for a second bucket, and makes every
\* request with a bucket a stray.
LEMMA DeleteInv ==
  ASSUME Inv, Delete
  PROVE  Inv'
<1> USE NumbersAssumption, BucketsAssumption
<1>0. TypeOK /\ UsingOK /\ EntryOK /\ Account
  BY DEF Inv
<1>1. /\ doomed /\ doomed' = FALSE /\ entry' = NoBucket
      /\ watch' = [watch EXCEPT !.replaced = TRUE]
      /\ tokens' = tokens /\ idle' = idle /\ pc' = pc /\ using' = using
  BY DEF Delete
<1>2. TypeOK'
  BY <1>0, <1>1 DEF TypeOK
<1>3. UsingOK'
  BY <1>0, <1>1 DEF UsingOK, At
<1>4. EntryOK'
  BY <1>1 DEF EntryOK
<1>5. ~watch.replaced
  BY <1>0, <1>1 DEF EntryOK
<1>6. watch'.passed = watch.passed /\ watch'.time = watch.time /\ watch'.replaced
  BY <1>0, <1>1 DEF TypeOK
<1>7. Rate * watch.time \in Nat /\ watch.passed \in Nat
  BY <1>0, RateTimes, SpanNat DEF TypeOK
<1>8. watch.passed <= Burst + Rate * watch.time + Cardinality(Handlers)
  BY <1>0, <1>5, <1>7, AvailableBound, StraysFinite DEF Account, Allowance
<1>9. /\ IsFiniteSet(Strays')
      /\ Cardinality(Strays') \in Nat /\ Cardinality(Strays') <= Cardinality(Handlers)
  BY HandlersAssumption, FS_Subset, FS_CardinalityType DEF Strays
<1>10. Available' = Burst
  BY <1>1 DEF Available
<1>11. Account'
  BY <1>6, <1>7, <1>8, <1>9, <1>10, StraysFinite DEF Account, Allowance
<1> QED BY <1>2, <1>3, <1>4, <1>11 DEF Inv

\* A second adds Rate to the bucket, and to the allowance.
LEMMA TickInv ==
  ASSUME Inv, Tick
  PROVE  Inv'
<1> USE NumbersAssumption, BucketsAssumption
<1>0. TypeOK /\ UsingOK /\ EntryOK /\ Account
  BY DEF Inv
<1>1. /\ tokens' = [b \in Buckets |-> Refill(tokens[b])]
      /\ idle' = [b \in Buckets |-> IF idle[b] > IdleLimit THEN idle[b] ELSE idle[b] + 1]
      /\ entry' = entry /\ pc' = pc /\ using' = using /\ doomed' = doomed
  BY DEF Tick
<1>2. \A n \in 0..Burst : Refill(n) \in 0..Burst /\ Refill(n) <= n + Rate
  BY DEF Refill
<1>3. \/ watch.time < Span /\ watch' = [watch EXCEPT !.time = @ + 1]
      \/ watch' = Fresh
  BY DEF Tick
<1>4. TypeOK'
  <2>1. tokens' \in [Buckets -> 0..Burst]
    BY <1>0, <1>1, <1>2 DEF TypeOK
  <2>2. idle' \in [Buckets -> 0..IdleLimit + 1]
    BY <1>0, <1>1 DEF TypeOK
  <2>3. watch' \in [time : 0..Span, passed : Nat, replaced : BOOLEAN]
    <3>1. watch \in [time : 0..Span, passed : Nat, replaced : BOOLEAN]
      BY <1>0 DEF TypeOK
    <3>2. watch.time < Span => watch.time + 1 \in 0..Span
      BY <3>1, SpanNat
    <3> QED BY <1>3, <3>1, <3>2, FreshType
  <2> QED BY <1>0, <1>1, <2>1, <2>2, <2>3 DEF TypeOK
<1>5. UsingOK'
  BY <1>0, <1>1 DEF UsingOK, At
<1>6. CASE watch.time < Span /\ watch' = [watch EXCEPT !.time = @ + 1]
  <2>1. /\ watch'.time = watch.time + 1 /\ watch'.replaced = watch.replaced
        /\ watch'.passed = watch.passed
        /\ watch.time \in Nat /\ watch.passed \in Nat
    BY <1>0, <1>6, SpanNat DEF TypeOK
  <2>2. EntryOK'
    BY <1>0, <1>1, <2>1 DEF TypeOK, EntryOK
  <2>3. Available' <= Available + Rate /\ Available \in 0..Burst /\ Available' \in 0..Burst
    BY <1>0, <1>1, <1>2, <1>4, AvailableBound DEF TypeOK, Available
  <2>4. Strays' = Strays
    BY <1>1 DEF Strays
  <2>5. Allowance' = Allowance + Rate /\ Allowance \in Int
    <3>1. /\ Rate * watch.time \in Nat
          /\ Rate * (watch.time + 1) = Rate * watch.time + Rate
      BY <2>1, RateTimes
    <3>2. Rate * watch'.time = Rate * watch.time + Rate
      BY <2>1, <3>1
    <3> QED BY <2>1, <3>1, <3>2, StraysFinite DEF Allowance
  <2>6. Account'
    BY <1>0, <2>1, <2>3, <2>4, <2>5, StraysFinite DEF Account
  <2> QED BY <1>4, <1>5, <2>2, <2>6 DEF Inv
<1>7. CASE watch' = Fresh
  <2>1. EntryOK'
    BY <1>0, <1>1, <1>7 DEF EntryOK, Fresh
  <2>2. Available' \in 0..Burst
    BY <1>0, <1>1, <1>2 DEF TypeOK, Available
  <2>3. Account'
    BY <1>1, <1>7, <2>2, FreshAccount
  <2> QED BY <1>4, <1>5, <2>1, <2>3 DEF Inv
<1> QED BY <1>3, <1>6, <1>7

LEMMA WatchInv ==
  ASSUME Inv, Watch
  PROVE  Inv'
<1>0. TypeOK /\ UsingOK /\ EntryOK
  BY DEF Inv
<1>1. /\ watch' = Fresh /\ entry' = entry /\ tokens' = tokens /\ idle' = idle
      /\ pc' = pc /\ using' = using /\ doomed' = doomed
  BY DEF Watch
<1>2. TypeOK'
  BY <1>0, <1>1, SpanNat DEF TypeOK, Fresh
<1>3. UsingOK'
  BY <1>0, <1>1 DEF UsingOK, At
<1>4. EntryOK'
  BY <1>0, <1>1 DEF EntryOK, Fresh
<1>5. Available' \in 0..Burst
  BY <1>0, <1>1, AvailableBound DEF Available
<1>6. Account'
  BY <1>1, <1>5, FreshAccount
<1> QED BY <1>2, <1>3, <1>4, <1>6 DEF Inv

LEMMA NextInv == Inv /\ [Next]_vars => Inv'
<1> SUFFICES ASSUME Inv, [Next]_vars PROVE Inv'
  OBVIOUS
<1>1. CASE \E h \in Handlers : LoadOrStore(h) \/ Touch(h) \/ Allow(h)
  BY <1>1, LoadOrStoreInv, TouchInv, AllowInv
<1>2. CASE FindIdle
  BY <1>2, FindIdleInv
<1>3. CASE Delete
  BY <1>3, DeleteInv
<1>4. CASE Tick
  BY <1>4, TickInv
<1>5. CASE Watch
  BY <1>5, WatchInv
<1>6. CASE UNCHANGED vars
  BY <1>6 DEF vars, Inv, TypeOK, UsingOK, At, EntryOK, Account, Strays, Available, Allowance
<1> QED BY <1>1, <1>2, <1>3, <1>4, <1>5, <1>6 DEF Next

\* The accounts of throttler.go hold at every moment: see Inv.
THEOREM SpecInv == Spec => []Inv
BY InitInv, NextInv, PTL DEF Spec

-----------------------------------------------------------------------------
\* Types, for any burst, rate, idle limit, lag and number of requests.
THEOREM SpecTypeOK == Spec => []TypeOK
<1>1. Inv => TypeOK
  BY DEF Inv
<1> QED BY <1>1, SpecInv, PTL

\* Whatever the cleanup goroutine does to a bucket in use, what a client gets through
\* the throttle of throttler.go in any period is bounded.
THEOREM SpecPassBound == Spec => []PassBound
<1>1. Inv => PassBound
  <2> SUFFICES ASSUME Inv PROVE PassBound
    OBVIOUS
  <2>1. Available \in Nat /\ Cardinality(Strays) \in Nat
    BY AvailableBound, StraysFinite, NumbersAssumption DEF Inv
  <2>2. watch.passed \in Nat /\ Allowance \in Int
    BY RateTimes, StraysFinite, SpanNat, NumbersAssumption DEF Inv, TypeOK, Allowance
  <2> QED BY <2>1, <2>2 DEF Inv, Account, PassBound
<1> QED BY <1>1, SpecInv, PTL
=============================================================================
