----------------------------- MODULE RbacProofs -----------------------------
(* Proofs of the properties of Rbac, and that the statements of concurrent  *)
(* requests implement Assignments.                                          *)
EXTENDS Rbac, SequenceTheorems, TLAPS

-----------------------------------------------------------------------------
(* The inductive invariant, in parts.                                       *)

\* What a request holds at each point.
Owners == Users \cup Roles
Members(owner) == IF owner \in Users THEN Roles ELSE Permissions
TodoRows(h) == {<<req[h].target, req[h].todo[n]>> : n \in DOMAIN req[h].todo}

HoldsOK(h) ==
  /\ At(h, "idle") => req[h] = Idle
  /\ ~At(h, "replace") => req[h].mine = {}
  /\ ~At(h, "replace") /\ ~At(h, "remove") => req[h].seen = {} /\ req[h].gone = {}
  /\ At(h, "assign") => req[h].target \in Users /\ req[h].todo \in Seq(Roles)
  /\ At(h, "lock") \/ At(h, "remove") => req[h].target \in Roles \cup Permissions

\* The rows that a transaction has deleted or will are there for the others; the
\* ends of the rows it has inserted stay.
RowsOK(h) ==
  /\ req[h].seen \subseteq links /\ req[h].gone \subseteq links
  /\ req[h].seen = {} \/ req[h].gone = {}
  /\ \A l \in req[h].mine : Ends(l) \subseteq exist

\* Every row of the owner is on its way out or was written by others, and
\* every row asked for is inserted, still to be, or touched by others; one that the
\* request itself deletes is put back.
ReplaceOK(h) == At(h, "replace") =>
  /\ req[h].target \in Owners /\ req[h].todo \in Seq(Members(req[h].target))
  /\ req[h].seen \cup req[h].gone \cup req[h].asked \subseteq Of(req[h].target)
  /\ links \cap Of(req[h].target) \subseteq req[h].seen \cup req[h].gone \cup req[h].touched
  /\ req[h].mine \cup TodoRows(h) \subseteq req[h].asked
  /\ req[h].asked \subseteq req[h].mine \cup req[h].touched \cup TodoRows(h)
  /\ req[h].target \in Users => req[h].asked \subseteq req[h].mine \cup TodoRows(h)
  /\ (req[h].seen \cup req[h].gone) \cap req[h].asked \subseteq req[h].mine \cup TodoRows(h)

\* A removal takes all links of its row.
RemoveOK(h) == At(h, "remove") =>
  /\ links \cap Touching(req[h].target) \subseteq req[h].seen \cup req[h].gone
  /\ req[h].seen \cup req[h].gone \subseteq Touching(req[h].target)

HandlerOK(h) == HoldsOK(h) /\ RowsOK(h) /\ ReplaceOK(h) /\ RemoveOK(h)

\* No row is deleted by two, and nothing is linked to a row that is removed.
Apart(h, k) ==
  /\ req[h].gone \cap req[k].gone = {}
  /\ \A l \in req[h].mine, e \in Entities : Removing(k, e) => e \notin Ends(l)

Inv ==
  /\ TypeOK
  /\ \A h \in Handlers : HandlerOK(h)
  /\ \A h, k \in Handlers : h # k => Apart(h, k)

-----------------------------------------------------------------------------
(* How a request affects the others.                                        *)

\* The rows d are deleted and i inserted; the others notice.
Effect(h, d, i) ==
  /\ links' = (links \ d) \cup i
  /\ \A k \in Handlers \ {h} :
       /\ req'[k].pc = req[k].pc /\ req'[k].target = req[k].target
       /\ req'[k].todo = req[k].todo /\ req'[k].gone = req[k].gone
       /\ req'[k].mine = req[k].mine /\ req'[k].asked = req[k].asked
       /\ req'[k].seen = req[k].seen \ d
       /\ req'[k].touched = req[k].touched \cup Noticed(k, d \cup i)
       /\ At(k, "idle") => req'[k] = Idle

\* A request deletes only what it has taken, and links nothing that is removed.
LEMMA OthersOK ==
  ASSUME Inv, NEW h \in Handlers, NEW d \in SUBSET Links, NEW i \in SUBSET Links,
         d \subseteq req[h].gone, Effect(h, d, i),
         \A k \in Handlers \ {h}, e \in Entities, l \in i : Removing(k, e) => e \notin Ends(l),
         \A k \in Handlers \ {h} : \A l \in req[k].mine : Ends(l) \subseteq exist'
  PROVE  \A k \in Handlers \ {h} : HandlerOK(k)'
<1> TAKE k \in Handlers \ {h}
<1> USE DEF At
<1>0. /\ HandlerOK(k) /\ Apart(h, k) /\ req[k] \in Requests
      /\ req'[k].pc = req[k].pc /\ req'[k].target = req[k].target
      /\ req'[k].todo = req[k].todo /\ req'[k].gone = req[k].gone
      /\ req'[k].mine = req[k].mine /\ req'[k].asked = req[k].asked
      /\ req'[k].seen = req[k].seen \ d
      /\ req'[k].touched = req[k].touched \cup Noticed(k, d \cup i)
      /\ At(k, "idle") => req'[k] = Idle
      /\ links' = (links \ d) \cup i
  BY DEF Inv, TypeOK, Effect
<1>1. HoldsOK(k)'
  BY <1>0 DEF HandlerOK, HoldsOK
<1>2. RowsOK(k)'
  BY <1>0 DEF HandlerOK, RowsOK, Apart
<1>3. ReplaceOK(k)'
  <2> SUFFICES ASSUME At(k, "replace") PROVE ReplaceOK(k)'
    BY <1>0 DEF ReplaceOK
  <2>1. TodoRows(k)' = TodoRows(k)
    BY <1>0 DEF TodoRows
  <2>2. req'[k].touched = req[k].touched \cup ((d \cup i) \cap Of(req[k].target))
    BY <1>0 DEF Noticed
  <2>3. ReplaceOK(k)
    BY <1>0 DEF HandlerOK
  <2> QED BY <1>0, <2>1, <2>2, <2>3 DEF ReplaceOK
<1>4. RemoveOK(k)'
  <2> SUFFICES ASSUME At(k, "remove") PROVE RemoveOK(k)'
    BY <1>0 DEF RemoveOK
  <2>1. RemoveOK(k) /\ req[k].target \in Entities
    BY <1>0 DEF HandlerOK, HoldsOK, Entities
  <2>2. i \cap Touching(req[k].target) = {}
    BY <2>1 DEF Removing, Touching
  <2> QED BY <1>0, <2>1, <2>2 DEF RemoveOK
<1> QED BY <1>1, <1>2, <1>3, <1>4 DEF HandlerOK

\* The other requests stay apart, and so does one that holds nothing.
LEMMA OthersApart ==
  ASSUME Inv, NEW h \in Handlers, NEW d \in SUBSET Links, NEW i \in SUBSET Links,
         Effect(h, d, i), \A k \in Handlers \ {h} : Apart(h, k)' /\ Apart(k, h)'
  PROVE  \A k, m \in Handlers : k # m => Apart(k, m)'
<1> SUFFICES ASSUME NEW k \in Handlers, NEW m \in Handlers, k # m PROVE Apart(k, m)'
  OBVIOUS
<1>1. CASE k = h \/ m = h
  BY <1>1
<1>2. CASE k # h /\ m # h
  BY <1>2 DEF Inv, Apart, Effect, Removing, At
<1> QED BY <1>1, <1>2

LEMMA FreeApart ==
  ASSUME Inv, NEW h \in Handlers, NEW d \in SUBSET Links, NEW i \in SUBSET Links,
         Effect(h, d, i), req'[h].gone = {}, req'[h].mine = {}, req'[h].pc # "remove"
  PROVE  \A k, m \in Handlers : k # m => Apart(k, m)'
BY OthersApart DEF Apart, Removing, At

\* A request that ends.
LEMMA FinishEffect ==
  ASSUME Inv, NEW h \in Handlers, NEW d \in SUBSET Links, NEW i \in SUBSET Links,
         Finish(h, d, i), links' = (links \ d) \cup i
  PROVE  /\ Effect(h, d, i) /\ req'[h] = Idle
         /\ req' \in [Handlers -> Requests]
<1> USE DEF At
<1>1. req'[h] = Idle
  BY DEF Finish
<1>2. Idle \in Requests
  BY EmptySeq DEF Idle, Requests, PCs, Columns, Sources
<1>3. ASSUME NEW k \in Handlers \ {h}
      PROVE  /\ req'[k] = [req[k] EXCEPT !.seen = @ \ d, !.touched = @ \cup Noticed(k, d \cup i)]
             /\ req'[k] \in Requests
  <2>1. req'[k] = [req[k] EXCEPT !.seen = @ \ d, !.touched = @ \cup Noticed(k, d \cup i)]
    BY <1>3 DEF Finish
  <2>2. req[k] \in Requests /\ Noticed(k, d \cup i) \in SUBSET Links
    BY <1>3 DEF Inv, TypeOK, Noticed
  <2> QED BY <2>1, <2>2 DEF Requests
<1>4. ASSUME NEW k \in Handlers \ {h}, At(k, "idle") PROVE req'[k] = Idle
  <2>1. req[k] = Idle /\ Noticed(k, d \cup i) = {}
    BY <1>4 DEF Inv, HandlerOK, HoldsOK, Noticed
  <2>2. req[k].seen \ d = {} /\ req[k].touched \cup Noticed(k, d \cup i) = {}
    <3>1. Idle.seen = {} /\ Idle.touched = {}
      BY DEF Idle
    <3> QED BY <2>1, <3>1
  <2>3. req'[k] = [Idle EXCEPT !.seen = {}, !.touched = {}]
    BY <1>3, <2>1, <2>2
  <2> QED BY <2>3 DEF Idle
<1>5. Effect(h, d, i)
  <2> SUFFICES ASSUME NEW k \in Handlers \ {h}
      PROVE  /\ req'[k].pc = req[k].pc /\ req'[k].target = req[k].target
             /\ req'[k].todo = req[k].todo /\ req'[k].gone = req[k].gone
             /\ req'[k].mine = req[k].mine /\ req'[k].asked = req[k].asked
             /\ req'[k].seen = req[k].seen \ d
             /\ req'[k].touched = req[k].touched \cup Noticed(k, d \cup i)
    BY <1>4 DEF Effect
  <2>1. req[k] \in Requests
    BY DEF Inv, TypeOK
  <2> HIDE DEF At
  <2> QED BY <1>3, <2>1 DEF Requests
<1>6. req' \in [Handlers -> Requests]
  BY <1>1, <1>2, <1>3 DEF Finish
<1> QED BY <1>1, <1>5, <1>6

LEMMA IdleOK ==
  ASSUME NEW h \in Handlers, req'[h] = Idle
  PROVE  HandlerOK(h)'
BY DEF HandlerOK, HoldsOK, RowsOK, ReplaceOK, RemoveOK, Idle, At

\* The whole of Inv for a request that ends.
LEMMA FinishInv ==
  ASSUME Inv, NEW h \in Handlers, NEW d \in SUBSET Links, NEW i \in SUBSET Links,
         Finish(h, d, i), links' = (links \ d) \cup i, d \subseteq req[h].gone,
         \A k \in Handlers \ {h}, e \in Entities, l \in i : Removing(k, e) => e \notin Ends(l),
         \A k \in Handlers \ {h} : \A l \in req[k].mine : Ends(l) \subseteq exist',
         exist' \subseteq Entities, unused' \subseteq Entities, exist' \cap unused' = {},
         cols' \in [Permissions -> Columns]
  PROVE  Inv'
<1>1. Effect(h, d, i) /\ req'[h] = Idle /\ req' \in [Handlers -> Requests]
  BY FinishEffect
<1>2. \A k \in Handlers : HandlerOK(k)'
  BY <1>1, OthersOK, IdleOK
<1>3. \A k, m \in Handlers : k # m => Apart(k, m)'
  BY <1>1, FreeApart DEF Idle
<1>4. TypeOK'
  BY <1>1 DEF TypeOK, Inv
<1> QED BY <1>2, <1>3, <1>4 DEF Inv

\* A request that ends without changing a link.
LEMMA ReturnInv ==
  ASSUME Inv, NEW h \in Handlers, Return(h), UNCHANGED links,
         exist \subseteq exist',
         exist' \subseteq Entities, unused' \subseteq Entities, exist' \cap unused' = {},
         cols' \in [Permissions -> Columns]
  PROVE  Inv'
<1>1. links' = (links \ {}) \cup {} /\ Finish(h, {}, {})
  BY DEF Return
<1>2. \A k \in Handlers \ {h} : \A l \in req[k].mine : Ends(l) \subseteq exist'
  BY DEF Inv, HandlerOK, RowsOK
<1> QED BY <1>1, <1>2, FinishInv

\* A step inside a request that changes no link.
LEMMA InsideInv ==
  ASSUME Inv, NEW h \in Handlers, req' \in [Handlers -> Requests],
         \A k \in Handlers \ {h} : req'[k] = req[k],
         UNCHANGED <<links, cols>>, exist \subseteq exist',
         exist' \subseteq Entities, unused' \subseteq Entities, exist' \cap unused' = {},
         HandlerOK(h)',
         \A k \in Handlers \ {h} : Apart(h, k)' /\ Apart(k, h)'
  PROVE  Inv'
<1>1. Effect(h, {}, {})
  BY DEF Effect, Noticed, Inv, HandlerOK, HoldsOK
<1>2. \A k \in Handlers \ {h} : \A l \in req[k].mine : Ends(l) \subseteq exist'
  BY DEF Inv, HandlerOK, RowsOK
<1>3. \A k \in Handlers \ {h} : HandlerOK(k)'
  BY <1>1, <1>2, OthersOK
<1>4. \A k, m \in Handlers : k # m => Apart(k, m)'
  BY <1>1, OthersApart
<1>5. TypeOK'
  BY DEF TypeOK, Inv
<1> QED BY <1>3, <1>4, <1>5 DEF Inv

\* The same for a request that has neither deleted nor inserted a row.
LEMMA PrepareInv ==
  ASSUME Inv, NEW h \in Handlers, req' \in [Handlers -> Requests],
         \A k \in Handlers \ {h} : req'[k] = req[k],
         UNCHANGED <<links, cols>>, exist \subseteq exist',
         exist' \subseteq Entities, unused' \subseteq Entities, exist' \cap unused' = {},
         HandlerOK(h)',
         req'[h].gone = {}, req'[h].mine = {}, req'[h].pc # "remove"
  PROVE  Inv'
<1>1. \A k \in Handlers \ {h} : Apart(h, k)' /\ Apart(k, h)'
  BY DEF Apart, Removing, At
<1> QED BY <1>1, InsideInv

-----------------------------------------------------------------------------
(* One lemma per action.                                                    *)

LEMMA RequirePermissionInv ==
  ASSUME Inv, NEW h \in Handlers, RequirePermission(h)
  PROVE  Inv'
<1>1. /\ req[h] = Idle /\ req \in [Handlers -> Requests]
      /\ req' = [req EXCEPT ![h].pc = "handler"] /\ UNCHANGED tables
  BY DEF RequirePermission, Inv, TypeOK, HandlerOK, HoldsOK
<1>2. req'[h] = [Idle EXCEPT !.pc = "handler"] /\ \A k \in Handlers \ {h} : req'[k] = req[k]
  BY <1>1
<1>3. req' \in [Handlers -> Requests]
  <2> DEFINE r == [req[h] EXCEPT !.pc = "handler"]
  <2>1. req[h] \in Requests
    BY <1>1
  <2>2. r \in Requests
    BY <2>1 DEF Requests, PCs
  <2>3. req' = [req EXCEPT ![h] = r]
    BY <1>1
  <2> HIDE DEF r
  <2> QED BY <1>1, <2>2, <2>3
<1>4. /\ req'[h].pc = "handler" /\ req'[h].seen = {}
      /\ req'[h].gone = {} /\ req'[h].mine = {}
  BY <1>2 DEF Idle
<1>5. HandlerOK(h)'
  BY <1>4 DEF HandlerOK, HoldsOK, RowsOK, ReplaceOK, RemoveOK, At
<1> QED BY <1>1, <1>2, <1>3, <1>4, <1>5, PrepareInv DEF tables, Inv, TypeOK

LEMMA CreateRowInv ==
  ASSUME Inv, NEW h \in Handlers, CreateRow(h)
  PROVE  Inv'
<1>1. PICK e \in unused \ Users, c \in Columns :
        /\ exist' = exist \cup {e} /\ unused' = unused \ {e}
        /\ cols' = IF e \in Permissions THEN [cols EXCEPT ![e] = c] ELSE cols
  BY DEF CreateRow
<1>2. TypeOK
  BY DEF Inv
<1>3. cols' \in [Permissions -> Columns]
  BY <1>1, <1>2 DEF TypeOK
<1>4. /\ exist \subseteq exist' /\ exist' \subseteq Entities /\ unused' \subseteq Entities
      /\ exist' \cap unused' = {}
  BY <1>1, <1>2 DEF TypeOK
<1> QED BY <1>3, <1>4, ReturnInv DEF CreateRow

\* An update deletes and inserts no link; others learn that their row is stale.
LEMMA UpdateRowEffect ==
  ASSUME Inv, NEW h \in Handlers, UpdateRow(h)
  PROVE  Effect(h, {}, {}) /\ req'[h] = Idle /\ req' \in [Handlers -> Requests]
<1>1. req'[h] = Idle /\ UNCHANGED links
  BY DEF UpdateRow
<1>2. Idle \in Requests
  BY EmptySeq DEF Idle, Requests, PCs, Columns, Sources
<1>3. ASSUME NEW k \in Handlers \ {h}
      PROVE  /\ req'[k] = IF Overtakes(h, k) THEN [req[k] EXCEPT !.source = "stale"] ELSE req[k]
             /\ req[k] \in Requests /\ req'[k] \in Requests
  <2>1. req'[k] = IF Overtakes(h, k) THEN [req[k] EXCEPT !.source = "stale"] ELSE req[k]
    BY <1>3 DEF UpdateRow
  <2>2. req[k] \in Requests
    BY DEF Inv, TypeOK
  <2> QED BY <2>1, <2>2 DEF Requests, Sources
<1>4. ASSUME NEW k \in Handlers \ {h}
      PROVE  /\ req'[k].pc = req[k].pc /\ req'[k].target = req[k].target
             /\ req'[k].todo = req[k].todo /\ req'[k].gone = req[k].gone
             /\ req'[k].mine = req[k].mine /\ req'[k].asked = req[k].asked
             /\ req'[k].seen = req[k].seen /\ req'[k].touched = req[k].touched
             /\ At(k, "idle") => req'[k] = Idle
  <2>1. At(k, "idle") => req[k] = Idle /\ ~Overtakes(h, k)
    BY DEF Inv, HandlerOK, HoldsOK, Overtakes, At
  <2> QED BY <1>3, <2>1 DEF Requests
<1>5. Effect(h, {}, {})
  <2>1. ASSUME NEW k \in Handlers \ {h}
        PROVE  /\ req'[k].seen = req[k].seen \ {}
               /\ req'[k].touched = req[k].touched \cup Noticed(k, {} \cup {})
    <3>1. Noticed(k, {} \cup {}) = {}
      BY DEF Noticed
    <3> QED BY <1>4, <3>1
  <2> QED BY <1>1, <1>4, <2>1 DEF Effect
<1>6. req' \in [Handlers -> Requests]
  BY <1>1, <1>2, <1>3 DEF UpdateRow
<1> QED BY <1>1, <1>5, <1>6

LEMMA UpdateRowInv ==
  ASSUME Inv, NEW h \in Handlers, UpdateRow(h)
  PROVE  Inv'
<1>1. TypeOK /\ req[h].value \in Columns
  BY DEF Inv, TypeOK, Requests
<1>2. cols' \in [Permissions -> Columns] /\ UNCHANGED <<exist, unused, links>>
  BY <1>1 DEF TypeOK, UpdateRow
<1>3. Effect(h, {}, {}) /\ req'[h] = Idle /\ req' \in [Handlers -> Requests]
  BY UpdateRowEffect
<1>4. \A k \in Handlers \ {h} : \A l \in req[k].mine : Ends(l) \subseteq exist'
  BY <1>2 DEF Inv, HandlerOK, RowsOK
<1>5. \A k \in Handlers : HandlerOK(k)'
  BY <1>3, <1>4, OthersOK, IdleOK
<1>6. \A k, m \in Handlers : k # m => Apart(k, m)'
  BY <1>3, FreeApart DEF Idle
<1>7. TypeOK'
  BY <1>1, <1>2, <1>3 DEF TypeOK
<1> QED BY <1>5, <1>6, <1>7 DEF Inv

\* The end of a request that changes no table.
LEMMA EndInv ==
  ASSUME Inv, NEW h \in Handlers, Return(h), UNCHANGED tables
  PROVE  Inv'
BY ReturnInv DEF tables, Inv, TypeOK

LEMMA FindInv ==
  ASSUME Inv, NEW h \in Handlers, FindRow(h) \/ FindRole(h) \/ Delete(h)
  PROVE  Inv'
<1>1. /\ req[h].pc = "handler" /\ UNCHANGED tables
      /\ \E pc \in {"update", "lock"}, value \in Columns, source \in Sources,
            e \in Roles \cup Permissions :
           req' = [req EXCEPT ![h].pc = pc, ![h].target = e, ![h].value = value, ![h].source = source]
  <2>1. req[h] \in Requests /\ req \in [Handlers -> Requests]
    BY DEF Inv, TypeOK
  <2>2. CASE FindRow(h)
    <3>1. PICK p \in Permissions \cap exist, value \in Columns, source \in {"request", "row"} :
            req' = [req EXCEPT ![h].pc = "update", ![h].target = p,
                               ![h].value = value, ![h].source = source]
      BY <2>2 DEF FindRow
    <3> QED BY <2>2, <3>1 DEF FindRow, At, Sources
  <2>3. ASSUME NEW pc \in {"update", "lock"}, NEW e,
               req' = [req EXCEPT ![h].pc = pc, ![h].target = e]
        PROVE  req' = [req EXCEPT ![h].pc = pc, ![h].target = e, ![h].value = req[h].value,
                                  ![h].source = req[h].source]
    BY <2>1, <2>3 DEF Requests
  <2>4. req[h].value \in Columns /\ req[h].source \in Sources
    BY <2>1 DEF Requests
  <2>5. CASE FindRole(h)
    <3>1. PICK r \in Roles : req' = [req EXCEPT ![h].pc = "update", ![h].target = r]
      BY <2>5 DEF FindRole
    <3>2. req' = [req EXCEPT ![h].pc = "update", ![h].target = r, ![h].value = req[h].value,
                             ![h].source = req[h].source]
      BY <2>3, <3>1
    <3>3. req[h].pc = "handler" /\ UNCHANGED tables
      BY <2>5 DEF FindRole, At
    <3> QED BY <2>4, <3>2, <3>3
  <2>6. CASE Delete(h)
    <3>1. PICK e \in Roles \cup Permissions : req' = [req EXCEPT ![h].pc = "lock", ![h].target = e]
      BY <2>6 DEF Delete
    <3>2. req' = [req EXCEPT ![h].pc = "lock", ![h].target = e, ![h].value = req[h].value,
                             ![h].source = req[h].source]
      BY <2>3, <3>1
    <3>3. req[h].pc = "handler" /\ UNCHANGED tables
      BY <2>6 DEF Delete, At
    <3> QED BY <2>4, <3>2, <3>3
  <2> QED BY <2>2, <2>5, <2>6
<1>2. PICK pc \in {"update", "lock"}, value \in Columns, source \in Sources,
           e \in Roles \cup Permissions :
        req' = [req EXCEPT ![h].pc = pc, ![h].target = e, ![h].value = value, ![h].source = source]
  BY <1>1
<1>3. req[h] \in Requests /\ req \in [Handlers -> Requests] /\ HoldsOK(h)
  BY DEF Inv, TypeOK, HandlerOK
<1>4. /\ req'[h] = [req[h] EXCEPT !.pc = pc, !.target = e, !.value = value, !.source = source]
      /\ \A k \in Handlers \ {h} : req'[k] = req[k]
  BY <1>2, <1>3
<1>5. req' \in [Handlers -> Requests]
  BY <1>2, <1>3 DEF Requests, PCs, Entities
<1>6. /\ req'[h].pc = pc /\ req'[h].target = e /\ req'[h].seen = {}
      /\ req'[h].gone = {} /\ req'[h].mine = {}
  BY <1>1, <1>3, <1>4 DEF Requests, HoldsOK, At
<1>7. HandlerOK(h)'
  BY <1>6 DEF HandlerOK, HoldsOK, RowsOK, ReplaceOK, RemoveOK, At
<1> QED BY <1>1, <1>4, <1>5, <1>6, <1>7, PrepareInv DEF tables, Inv, TypeOK

LEMMA SeqSuperset ==
  ASSUME NEW S, NEW R, S \subseteq R, NEW s \in Seq(S)
  PROVE  s \in Seq(R)
OBVIOUS

LEMMA ListsOK ==
  ASSUME NEW owner, NEW list \in Lists(owner)
  PROVE  list \in Seq(Members(owner))
<1>1. PICK n \in 0..MaxListed : list \in [1..n -> Members(owner) \ unused]
  BY DEF Lists, Members
<1>2. n \in Nat
  BY IdsAssumption
<1> QED BY <1>1, <1>2

LEMMA CreateUserInv ==
  ASSUME Inv, NEW h \in Handlers, CreateUser(h)
  PROVE  Inv'
<1>1. PICK u \in unused \cap Users : \E list \in Lists(u) :
        /\ exist' = exist \cup {u} /\ unused' = unused \ {u}
        /\ req' = [req EXCEPT ![h].pc = "assign", ![h].target = u, ![h].todo = list]
  BY DEF CreateUser
<1>2. PICK list \in Lists(u) :
        req' = [req EXCEPT ![h].pc = "assign", ![h].target = u, ![h].todo = list]
  BY <1>1
<1>3. req[h] \in Requests /\ req \in [Handlers -> Requests] /\ HoldsOK(h) /\ TypeOK
  BY DEF Inv, TypeOK, HandlerOK
<1>4. list \in Seq(Roles)
  BY ListsOK DEF Members
<1>5. /\ req'[h] = [req[h] EXCEPT !.pc = "assign", !.target = u, !.todo = list]
      /\ \A k \in Handlers \ {h} : req'[k] = req[k]
  BY <1>2, <1>3
<1>6. list \in Seq(Roles \cup Permissions)
  BY <1>4
<1>7. req' \in [Handlers -> Requests]
  BY <1>2, <1>3, <1>6 DEF Requests, PCs, Entities
<1>8. /\ req'[h].pc = "assign" /\ req'[h].target = u /\ req'[h].todo = list
      /\ req'[h].seen = {} /\ req'[h].gone = {} /\ req'[h].mine = {}
  BY <1>3, <1>5 DEF Requests, HoldsOK, At, CreateUser
<1>9. HandlerOK(h)'
  BY <1>4, <1>8 DEF HandlerOK, HoldsOK, RowsOK, ReplaceOK, RemoveOK, At
<1>10. /\ exist \subseteq exist' /\ exist' \subseteq Entities /\ unused' \subseteq Entities
       /\ exist' \cap unused' = {}
  BY <1>1, <1>3 DEF TypeOK, Entities
<1> QED BY <1>5, <1>7, <1>8, <1>9, <1>10, PrepareInv DEF CreateUser

\* A row that is inserted has ends that nobody removes.
LEMMA RowFree ==
  ASSUME Inv, NEW h \in Handlers, Free(h), req[h].seen = {}, req[h].todo # <<>>, ~Present(h)
  PROVE  \A k \in Handlers \ {h}, e \in Ends(Row(h)) : ~Removing(k, e)
BY DEF Free, Waits

\* CreateUser adds a role to its user, or nothing.
LEMMA AssignRoleEffect ==
  ASSUME Inv, NEW h \in Handlers, AssignRole(h)
  PROVE  \E i \in SUBSET {Row(h)} :
           /\ i \subseteq Links
           /\ i # {} => ~Present(h) /\ Ends(Row(h)) \subseteq exist
           /\ Effect(h, {}, i) /\ req' \in [Handlers -> Requests] /\ HandlerOK(h)'
           /\ req'[h].pc = "assign" /\ req'[h].gone = {} /\ req'[h].mine = {}
<1> DEFINE added == IF ~Present(h) /\ Ends(Row(h)) \subseteq exist THEN {Row(h)} ELSE {}
<1>1. /\ At(h, "assign") /\ req[h].todo # <<>>
      /\ req[h] \in Requests /\ req \in [Handlers -> Requests]
      /\ req[h].target \in Users /\ req[h].todo \in Seq(Roles)
      /\ req[h].seen = {} /\ req[h].gone = {} /\ req[h].mine = {}
  BY DEF AssignRole, Inv, TypeOK, HandlerOK, HoldsOK, At
<1>2. Head(req[h].todo) \in Roles /\ Tail(req[h].todo) \in Seq(Roles)
  BY <1>1, HeadTailProperties
<1>3. Row(h) \in Links
  BY <1>1, <1>2 DEF Row, Links
<1>4. PICK i \in SUBSET {Row(h)} :
        /\ i # {} => ~Present(h) /\ Ends(Row(h)) \subseteq exist
        /\ links' = links \cup i
        /\ req' = [k \in Handlers |->
             IF k = h THEN [req[h] EXCEPT !.todo = Tail(@)]
             ELSE [req[k] EXCEPT !.touched = @ \cup Noticed(k, i)]]
  <2>1. CASE /\ links' = links \cup added
             /\ req' = [k \in Handlers |->
                  IF k = h THEN [req[h] EXCEPT !.todo = Tail(@)]
                  ELSE [req[k] EXCEPT !.touched = @ \cup Noticed(k, added)]]
    <3>1. added \in SUBSET {Row(h)} /\ (added # {} => ~Present(h) /\ Ends(Row(h)) \subseteq exist)
      OBVIOUS
    <3> HIDE DEF added
    <3> QED BY <2>1, <3>1
  <2>2. CASE UNCHANGED links /\ req' = [req EXCEPT ![h].todo = Tail(@)]
    <3>1. \A k \in Handlers : Noticed(k, {}) = {}
      BY DEF Noticed
    <3>2. \A k \in Handlers : [req[k] EXCEPT !.touched = @ \cup Noticed(k, {})] = req[k]
      BY <1>1, <3>1 DEF Requests
    <3>3. req' = [k \in Handlers |->
                   IF k = h THEN [req[h] EXCEPT !.todo = Tail(@)]
                   ELSE [req[k] EXCEPT !.touched = @ \cup Noticed(k, {})]]
      BY <1>1, <2>2, <3>2
    <3>4. links' = links \cup {}
      BY <2>2
    <3> QED BY <3>3, <3>4
  <2> QED BY <2>1, <2>2 DEF AssignRole
<1>5. i \in SUBSET Links /\ \A k \in Handlers : Noticed(k, i) \in SUBSET Links
  BY <1>3, <1>4 DEF Noticed
<1> HIDE DEF added
<1>6. /\ req'[h] = [req[h] EXCEPT !.todo = Tail(@)]
      /\ \A k \in Handlers \ {h} : req'[k] = [req[k] EXCEPT !.touched = @ \cup Noticed(k, i)]
  BY <1>4
<1>7. req' \in [Handlers -> Requests]
  <2>1. Tail(req[h].todo) \in Seq(Roles \cup Permissions)
    BY <1>2
  <2>2. req'[h] \in Requests
    BY <1>1, <1>6, <2>1 DEF Requests
  <2>3. ASSUME NEW k \in Handlers \ {h} PROVE req'[k] \in Requests
    <3>1. req[k] \in Requests /\ Noticed(k, i) \in SUBSET Links
      BY <1>1, <1>5
    <3>2. req'[k] = [req[k] EXCEPT !.touched = @ \cup Noticed(k, i)]
      BY <1>6
    <3> QED BY <3>1, <3>2 DEF Requests
  <2> QED BY <1>4, <2>2, <2>3
<1>8. Effect(h, {}, i)
  <2>1. ASSUME NEW k \in Handlers \ {h}, At(k, "idle") PROVE req'[k] = Idle
    <3>1. req[k] = Idle /\ Noticed(k, i) = {}
      BY <2>1 DEF Inv, HandlerOK, HoldsOK, Noticed, At
    <3>2. req'[k] = [Idle EXCEPT !.touched = @ \cup {}]
      BY <1>6, <3>1
    <3> QED BY <3>2 DEF Idle
  <2>2. \A k \in Handlers : req[k] \in Requests
    BY <1>1
  <2> QED BY <1>4, <1>6, <2>1, <2>2 DEF Effect, Requests
<1>9. /\ req'[h].pc = "assign" /\ req'[h].target = req[h].target
      /\ req'[h].todo = Tail(req[h].todo)
      /\ req'[h].seen = {} /\ req'[h].gone = {} /\ req'[h].mine = {}
  BY <1>1, <1>6 DEF Requests, At
<1>10. HandlerOK(h)'
  BY <1>1, <1>2, <1>9 DEF HandlerOK, HoldsOK, RowsOK, ReplaceOK, RemoveOK, At
<1> QED BY <1>4, <1>5, <1>7, <1>8, <1>9, <1>10

LEMMA AssignRoleInv ==
  ASSUME Inv, NEW h \in Handlers, AssignRole(h)
  PROVE  Inv'
<1>1. /\ Free(h) /\ UNCHANGED <<exist, unused, cols>> /\ req[h].seen = {} /\ req[h].todo # <<>>
  BY DEF AssignRole, Inv, HandlerOK, HoldsOK, At
<1>2. PICK i \in SUBSET {Row(h)} :
        /\ i \subseteq Links
        /\ i # {} => ~Present(h) /\ Ends(Row(h)) \subseteq exist
        /\ Effect(h, {}, i) /\ req' \in [Handlers -> Requests] /\ HandlerOK(h)'
        /\ req'[h].pc = "assign" /\ req'[h].gone = {} /\ req'[h].mine = {}
  BY AssignRoleEffect
<1>3. \A k \in Handlers \ {h}, e \in Entities, l \in i : Removing(k, e) => e \notin Ends(l)
  BY <1>1, <1>2, RowFree
<1>4. \A k \in Handlers \ {h} : HandlerOK(k)'
  BY <1>1, <1>2, <1>3, OthersOK DEF Inv, HandlerOK, RowsOK
<1>5. \A k, m \in Handlers : k # m => Apart(k, m)'
  BY <1>2, FreeApart
<1>6. TypeOK'
  BY <1>1, <1>2 DEF TypeOK, Inv, Effect
<1> QED BY <1>2, <1>4, <1>5, <1>6 DEF Inv

LEMMA BeginInv ==
  ASSUME Inv, NEW h \in Handlers, Begin(h)
  PROVE  Inv'
<1>1. PICK owner \in Owners \ unused : \E list \in Lists(owner) :
        req' = [req EXCEPT ![h] = [Idle EXCEPT
          !.pc = "replace", !.target = owner, !.todo = list, !.seen = links \cap Of(owner),
          !.asked = {<<owner, list[i]>> : i \in DOMAIN list}]]
  BY DEF Begin, Owners
<1>2. PICK list \in Lists(owner) :
        req' = [req EXCEPT ![h] = [Idle EXCEPT
          !.pc = "replace", !.target = owner, !.todo = list, !.seen = links \cap Of(owner),
          !.asked = {<<owner, list[i]>> : i \in DOMAIN list}]]
  BY <1>1
<1> DEFINE asked == {<<owner, list[i]>> : i \in DOMAIN list}
<1>3. /\ req \in [Handlers -> Requests] /\ UNCHANGED tables /\ TypeOK
  BY DEF Inv, TypeOK, Begin
<1>4. list \in Seq(Members(owner)) /\ list \in Seq(Roles \cup Permissions)
  <2>1. list \in Seq(Members(owner))
    BY ListsOK
  <2> QED BY <2>1 DEF Members
<1>5. asked \subseteq Of(owner) /\ Of(owner) \subseteq Links
  <2>1. \A i \in DOMAIN list : list[i] \in Members(owner)
    BY <1>4
  <2> QED BY <2>1 DEF Of, Links, Members, Owners
<1>6. /\ req'[h] = [Idle EXCEPT
           !.pc = "replace", !.target = owner, !.todo = list, !.seen = links \cap Of(owner),
           !.asked = asked]
      /\ \A k \in Handlers \ {h} : req'[k] = req[k]
  BY <1>2, <1>3
<1>7. /\ req'[h].pc = "replace" /\ req'[h].target = owner /\ req'[h].todo = list
      /\ req'[h].seen = links \cap Of(owner) /\ req'[h].asked = asked
      /\ req'[h].gone = {} /\ req'[h].mine = {} /\ req'[h].touched = {}
  BY <1>6 DEF Idle
<1>8. req' \in [Handlers -> Requests]
  <2>1. req'[h] \in Requests
    <3> HIDE DEF asked
    <3> QED BY <1>4, <1>5, <1>6 DEF Requests, PCs, Columns, Sources, Idle, Owners, Entities
  <2> QED BY <1>2, <1>3, <1>6, <2>1
<1>9. TodoRows(h)' = asked
  BY <1>7 DEF TodoRows
<1>10. ReplaceOK(h)'
  <2> HIDE DEF asked
  <2>1. links' = links
    BY <1>3 DEF tables
  <2> QED BY <1>4, <1>5, <1>7, <1>9, <2>1 DEF ReplaceOK, Owners
<1>11. HandlerOK(h)'
  BY <1>3, <1>7, <1>10 DEF HandlerOK, HoldsOK, RowsOK, RemoveOK, At, tables
<1> QED BY <1>3, <1>6, <1>7, <1>8, <1>11, PrepareInv DEF tables, TypeOK

LEMMA DeleteRowsInv ==
  ASSUME Inv, NEW h \in Handlers, DeleteRows(h)
  PROVE  Inv'
<1>1. /\ req[h].seen # {} /\ Free(h) /\ UNCHANGED tables
      /\ req' = [req EXCEPT ![h].seen = {}, ![h].gone = req[h].seen]
      /\ req \in [Handlers -> Requests] /\ HandlerOK(h) /\ TypeOK
  BY DEF DeleteRows, Inv, TypeOK
<1>2. /\ req'[h] = [req[h] EXCEPT !.seen = {}, !.gone = req[h].seen]
      /\ \A k \in Handlers \ {h} : req'[k] = req[k]
  BY <1>1
<1>3. /\ req'[h] \in Requests
      /\ req'[h].pc = req[h].pc /\ req'[h].target = req[h].target
      /\ req'[h].todo = req[h].todo /\ req'[h].asked = req[h].asked
      /\ req'[h].mine = req[h].mine /\ req'[h].touched = req[h].touched
      /\ req'[h].seen = {} /\ req'[h].gone = req[h].seen
  <2>1. req[h] \in Requests
    BY <1>1
  <2> QED BY <1>2, <2>1 DEF Requests
<1>4. req[h].gone = {} /\ (At(h, "replace") \/ At(h, "remove"))
  BY <1>1 DEF HandlerOK, HoldsOK, RowsOK
<1>5. TodoRows(h)' = TodoRows(h)
  BY <1>3 DEF TodoRows
<1>6. links' = links /\ exist' = exist
  BY <1>1 DEF tables
<1>7. HoldsOK(h)' /\ RowsOK(h)'
  BY <1>1, <1>3, <1>4, <1>6 DEF HandlerOK, HoldsOK, RowsOK, At
<1>8. ReplaceOK(h)'
  BY <1>1, <1>3, <1>4, <1>5, <1>6 DEF HandlerOK, ReplaceOK, At
<1>9. RemoveOK(h)'
  BY <1>1, <1>3, <1>4, <1>6 DEF HandlerOK, RemoveOK, At
<1>10. \A k \in Handlers \ {h} : Apart(h, k)' /\ Apart(k, h)'
  <2> SUFFICES ASSUME NEW k \in Handlers \ {h} PROVE Apart(h, k)' /\ Apart(k, h)'
    OBVIOUS
  <2>1. req[h].seen \cap req[k].gone = {}
    BY <1>1 DEF Free, Waits
  <2> QED BY <1>2, <1>3, <2>1 DEF Inv, Apart, Removing, At
<1>11. req' \in [Handlers -> Requests]
  BY <1>1, <1>2, <1>3
<1> QED BY <1>1, <1>2, <1>7, <1>8, <1>9, <1>10, <1>11, InsideInv DEF tables, TypeOK, HandlerOK

\* What an INSERT adds is the first row to do.
LEMMA TodoTail ==
  ASSUME NEW S, NEW todo \in Seq(S), todo # <<>>, NEW owner
  PROVE  {<<owner, todo[n]>> : n \in DOMAIN todo}
           = {<<owner, Tail(todo)[n]>> : n \in DOMAIN Tail(todo)} \cup {<<owner, Head(todo)>>}
<1>1. /\ Len(todo) \in Nat /\ Len(todo) > 0 /\ DOMAIN todo = 1..Len(todo)
      /\ DOMAIN Tail(todo) = 1..(Len(todo) - 1) /\ Head(todo) = todo[1]
      /\ \A n \in 1..(Len(todo) - 1) : Tail(todo)[n] = todo[n + 1]
  BY HeadTailProperties
<1>2. ASSUME NEW n \in DOMAIN todo
      PROVE  n = 1 \/ (n - 1 \in DOMAIN Tail(todo) /\ todo[n] = Tail(todo)[n - 1])
  BY <1>1
<1>3. \A n \in DOMAIN Tail(todo) : n + 1 \in DOMAIN todo /\ todo[n + 1] = Tail(todo)[n]
  BY <1>1
<1>4. 1 \in DOMAIN todo /\ todo[1] = Head(todo)
  BY <1>1
<1> DEFINE left == {<<owner, Tail(todo)[n]>> : n \in DOMAIN Tail(todo)}
           all == {<<owner, todo[n]>> : n \in DOMAIN todo}
<1>5. ASSUME NEW l \in all PROVE l \in left \cup {<<owner, Head(todo)>>}
  <2>1. PICK n \in DOMAIN todo : l = <<owner, todo[n]>>
    OBVIOUS
  <2>2. CASE n = 1
    BY <1>4, <2>1, <2>2
  <2>3. CASE n # 1
    <3>1. n - 1 \in DOMAIN Tail(todo) /\ l = <<owner, Tail(todo)[n - 1]>>
      BY <1>2, <2>1, <2>3
    <3> QED BY <3>1
  <2> QED BY <2>2, <2>3
<1>6. ASSUME NEW l \in left PROVE l \in all
  <2>1. PICK n \in DOMAIN Tail(todo) : l = <<owner, Tail(todo)[n]>>
    OBVIOUS
  <2>2. n + 1 \in DOMAIN todo /\ l = <<owner, todo[n + 1]>>
    BY <1>3, <2>1
  <2> QED BY <2>2
<1>7. <<owner, Head(todo)>> \in all
  BY <1>4
<1> QED
  <2> HIDE DEF left, all
  <2>1. all = left \cup {<<owner, Head(todo)>>}
    BY <1>5, <1>6, <1>7
  <2> QED BY <2>1 DEF left, all

LEMMA InsertInv ==
  ASSUME Inv, NEW h \in Handlers, Insert(h)
  PROVE  Inv'
<1> DEFINE row == Row(h)
<1>1. /\ req \in [Handlers -> Requests] /\ req[h] \in Requests /\ HandlerOK(h) /\ TypeOK
      /\ At(h, "replace") /\ req[h].seen = {} /\ req[h].todo # <<>> /\ Free(h)
      /\ UNCHANGED tables
  BY DEF Insert, Inv, TypeOK
<1>2. CASE Return(h)
  BY <1>1, <1>2, EndInv
<1>3. ASSUME NEW mine, mine = req[h].mine \cup {row} \/ mine = req[h].mine,
             row \in mine => row \in req[h].mine \/ (~Present(h) /\ Ends(row) \subseteq exist),
             row \notin mine => req[h].target \in Roles /\ Present(h),
             req' = [req EXCEPT ![h].todo = Tail(@), ![h].mine = mine]
      PROVE  Inv'
  <2>1. /\ req'[h] = [req[h] EXCEPT !.todo = Tail(@), !.mine = mine]
        /\ \A k \in Handlers \ {h} : req'[k] = req[k]
    BY <1>1, <1>3
  <2>2. /\ req[h].target \in Owners /\ req[h].todo \in Seq(Members(req[h].target))
        /\ ReplaceOK(h)
    BY <1>1 DEF HandlerOK, ReplaceOK
  <2>3. Tail(req[h].todo) \in Seq(Members(req[h].target))
    BY <1>1, <2>2, HeadTailProperties
  <2>4. TodoRows(h) = {<<req[h].target, Tail(req[h].todo)[n]>> : n \in DOMAIN Tail(req[h].todo)}
                        \cup {row}
    BY <1>1, <2>2, TodoTail DEF TodoRows, Row
  <2>5. mine \subseteq req[h].asked /\ row \in req[h].asked
    BY <1>1, <1>3, <2>4, <2>2 DEF ReplaceOK
  <2>6. mine \in SUBSET Links /\ row \in Links
    BY <1>1, <2>5 DEF Requests
  <2> HIDE DEF row
  <2>7. /\ req'[h].pc = "replace" /\ req'[h].target = req[h].target
        /\ req'[h].todo = Tail(req[h].todo) /\ req'[h].asked = req[h].asked
        /\ req'[h].mine = mine /\ req'[h].touched = req[h].touched
        /\ req'[h].seen = {} /\ req'[h].gone = req[h].gone
    BY <1>1, <2>1 DEF Requests, At
  <2>8. req' \in [Handlers -> Requests]
    <3>1. Tail(req[h].todo) \in Seq(Roles \cup Permissions)
      <4> DEFINE rest == Tail(req[h].todo)
      <4>1. Members(req[h].target) \subseteq Roles \cup Permissions
        BY DEF Members
      <4>2. rest \in Seq(Members(req[h].target))
        BY <2>3
      <4> HIDE DEF rest
      <4>3. rest \in Seq(Roles \cup Permissions)
        BY <4>1, <4>2, SeqSuperset
      <4> QED BY <4>3 DEF rest
    <3>2. req'[h] \in Requests
      BY <1>1, <2>1, <2>6, <3>1 DEF Requests
    <3> QED BY <1>1, <1>3, <2>1, <3>2
  <2>9. TodoRows(h)' \cup {row} = TodoRows(h)
    BY <2>4, <2>7 DEF TodoRows
  <2>10. links' = links /\ exist' = exist /\ cols' = cols /\ unused' = unused
    BY <1>1 DEF tables
  <2>11. HoldsOK(h)' /\ RemoveOK(h)'
    BY <2>7 DEF HoldsOK, RemoveOK, At
  <2>12. RowsOK(h)'
    BY <1>1, <1>3, <2>7, <2>10 DEF HandlerOK, RowsOK
  <2>13. row \in mine \cup req[h].touched
    <3> SUFFICES ASSUME row \notin mine PROVE row \in req[h].touched
      OBVIOUS
    <3>1. row \in links \ req[h].gone
      BY <1>3 DEF Present, row
    <3>2. row \in Of(req[h].target)
      BY <2>5, <1>1, <2>2 DEF ReplaceOK
    <3> QED BY <1>1, <2>2, <3>1, <3>2 DEF ReplaceOK
  <2>14. req[h].target \in Users => row \in mine
    BY <1>3, IdsAssumption
  <2>15. req[h].gone \cap req[h].asked \subseteq mine \cup TodoRows(h)'
    <3>1. row \in req[h].gone => row \in mine
      BY <1>3 DEF Present, row
    <3>2. req[h].gone \cap req[h].asked \subseteq req[h].mine \cup TodoRows(h)
      BY <1>1, <2>2 DEF ReplaceOK
    <3> QED BY <1>3, <2>9, <3>1, <3>2
  <2>17. ReplaceOK(h)'
    BY <1>1, <1>3, <2>2, <2>3, <2>5, <2>7, <2>9, <2>10, <2>13, <2>14, <2>15 DEF ReplaceOK
  <2>16. \A k \in Handlers \ {h} : Apart(h, k)' /\ Apart(k, h)'
    <3> SUFFICES ASSUME NEW k \in Handlers \ {h} PROVE Apart(h, k)' /\ Apart(k, h)'
      OBVIOUS
    <3>1. Apart(h, k) /\ Apart(k, h)
      BY DEF Inv
    <3>2. row \in mine => row \in req[h].mine \/ \A e \in Ends(row) : ~Removing(k, e)
      BY <1>1, <1>3, RowFree DEF row
    <3>3. \A l \in mine : l \in req[h].mine \/ l = row
      BY <1>3
    <3>4. \A e : ~Removing(h, e)' /\ (Removing(k, e)' <=> Removing(k, e))
      BY <2>1, <2>7 DEF Removing, At
    <3>5. req'[k].gone = req[k].gone /\ req'[k].mine = req[k].mine
      BY <2>1
    <3> QED BY <2>7, <3>1, <3>2, <3>3, <3>4, <3>5 DEF Apart
  <2> QED
    BY <1>1, <2>1, <2>8, <2>10, <2>11, <2>12, <2>16, <2>17, InsideInv DEF HandlerOK, TypeOK
<1>4. CASE Present(h) /\ req[h].target \in Roles /\ req' = [req EXCEPT ![h].todo = Tail(@)]
  <2>1. req' = [req EXCEPT ![h].todo = Tail(@), ![h].mine = req[h].mine]
    BY <1>1, <1>4 DEF Requests
  <2> QED BY <1>3, <1>4, <2>1
<1>5. CASE /\ ~Present(h) /\ Ends(row) \subseteq exist
           /\ req' = [req EXCEPT ![h].todo = Tail(@), ![h].mine = @ \cup {row}]
  BY <1>3, <1>5
<1> QED BY <1>2, <1>4, <1>5 DEF Insert

LEMMA CommitInv ==
  ASSUME Inv, NEW h \in Handlers, Commit(h)
  PROVE  Inv'
<1>1. /\ req[h] \in Requests /\ HandlerOK(h) /\ TypeOK
      /\ links' = (links \ req[h].gone) \cup req[h].mine
      /\ Finish(h, req[h].gone, req[h].mine)
      /\ UNCHANGED <<exist, unused, cols>>
  BY DEF Commit, Inv, TypeOK
<1>2. req[h].gone \in SUBSET Links /\ req[h].mine \in SUBSET Links
  BY <1>1 DEF Requests
<1>3. \A k \in Handlers \ {h}, e \in Entities, l \in req[h].mine :
        Removing(k, e) => e \notin Ends(l)
  BY DEF Inv, Apart
<1>4. \A k \in Handlers \ {h} : \A l \in req[k].mine : Ends(l) \subseteq exist'
  BY <1>1 DEF Inv, HandlerOK, RowsOK
<1> QED BY <1>1, <1>2, <1>3, <1>4, FinishInv DEF TypeOK

LEMMA LockRowInv ==
  ASSUME Inv, NEW h \in Handlers, LockRow(h)
  PROVE  Inv'
<1>1. /\ At(h, "lock") /\ Free(h) /\ UNCHANGED tables
      /\ req \in [Handlers -> Requests] /\ req[h] \in Requests /\ HoldsOK(h) /\ TypeOK
  BY DEF LockRow, Inv, TypeOK, HandlerOK
<1>2. CASE Return(h)
  BY <1>1, <1>2, EndInv
<1>3. CASE req' = [req EXCEPT ![h].pc = "remove", ![h].seen = links \cap Touching(req[h].target)]
  <2> DEFINE rows == links \cap Touching(req[h].target)
  <2>1. /\ req'[h] = [req[h] EXCEPT !.pc = "remove", !.seen = rows]
        /\ \A k \in Handlers \ {h} : req'[k] = req[k]
    BY <1>1, <1>3
  <2>2. rows \in SUBSET Links /\ rows \subseteq links /\ rows \subseteq Touching(req[h].target)
    BY <1>1 DEF TypeOK
  <2>3. links' = links /\ exist' = exist /\ cols' = cols /\ unused' = unused
    BY <1>1 DEF tables
  <2>4. links' \cap Touching(req[h].target) \subseteq rows
    BY <2>3
  <2> HIDE DEF rows
  <2>5. /\ req'[h] \in Requests
        /\ req'[h].pc = "remove" /\ req'[h].target = req[h].target
        /\ req'[h].seen = rows /\ req'[h].gone = {} /\ req'[h].mine = {}
    BY <1>1, <2>1, <2>2 DEF Requests, PCs, HoldsOK, At
  <2>6. HandlerOK(h)'
    BY <1>1, <2>2, <2>3, <2>4, <2>5 DEF HandlerOK, HoldsOK, RowsOK, ReplaceOK, RemoveOK, At
  <2>7. \A k \in Handlers \ {h} : Apart(h, k)' /\ Apart(k, h)'
    <3> SUFFICES ASSUME NEW k \in Handlers \ {h} PROVE Apart(h, k)' /\ Apart(k, h)'
      OBVIOUS
    <3>1. ~Sharing(k, req[h].target)
      BY <1>1 DEF Free, Waits
    <3> QED BY <2>1, <2>5, <3>1 DEF Apart, Removing, Sharing, At
  <2>8. req' \in [Handlers -> Requests]
    BY <1>1, <1>3, <2>1, <2>5
  <2> QED BY <1>1, <2>1, <2>3, <2>6, <2>7, <2>8, InsideInv DEF TypeOK
<1> QED BY <1>2, <1>3 DEF LockRow

LEMMA CascadeInv ==
  ASSUME Inv, NEW h \in Handlers, Cascade(h)
  PROVE  Inv'
<1>1. /\ req[h] \in Requests /\ HandlerOK(h) /\ TypeOK /\ At(h, "remove")
      /\ exist' = exist \ {req[h].target} /\ links' = links \ req[h].gone
      /\ Finish(h, req[h].gone, {})
      /\ UNCHANGED <<unused, cols>>
  BY DEF Cascade, Inv, TypeOK
<1>2. req[h].gone \in SUBSET Links /\ req[h].target \in Entities
  BY <1>1 DEF Requests, HandlerOK, HoldsOK, Entities
<1>3. ASSUME NEW k \in Handlers \ {h}, NEW l \in req[k].mine PROVE Ends(l) \subseteq exist'
  <2>1. Removing(h, req[h].target)
    BY <1>1 DEF Removing
  <2>2. req[h].target \notin Ends(l) /\ Ends(l) \subseteq exist
    BY <1>2, <2>1 DEF Inv, Apart, HandlerOK, RowsOK
  <2> QED BY <1>1, <2>2
<1>4. links' = (links \ req[h].gone) \cup {}
  BY <1>1
<1> QED BY <1>1, <1>2, <1>3, <1>4, FinishInv DEF TypeOK

-----------------------------------------------------------------------------
(* The invariant of the specification, and what follows from it.            *)

LEMMA InitInv == Init => Inv
<1> SUFFICES ASSUME Init PROVE Inv
  OBVIOUS
<1>1. \A h \in Handlers : req[h] = Idle
  BY DEF Init
<1>2. Idle \in Requests
  BY EmptySeq DEF Idle, Requests, PCs, Columns, Sources
<1>3. ASSUME NEW h \in Handlers PROVE HandlerOK(h)
  <2>1. /\ req[h] = Idle /\ req[h].pc = "idle" /\ req[h].seen = {} /\ req[h].gone = {}
        /\ req[h].mine = {}
    <3>1. /\ Idle.pc = "idle" /\ Idle.seen = {} /\ Idle.gone = {} /\ Idle.mine = {}
      BY DEF Idle
    <3> QED BY <1>1, <3>1
  <2> QED BY <2>1 DEF HandlerOK, HoldsOK, RowsOK, ReplaceOK, RemoveOK, At
<1>4. \A h, k \in Handlers : Apart(h, k)
  BY <1>1 DEF Apart, Idle, Removing, At
<1>5. TypeOK
  <2>1. PICK u \in Users, r \in Roles, p \in Permissions :
          /\ exist = {u, r, p} /\ unused = Entities \ {u, r, p}
          /\ links = {<<u, r>>, <<r, p>>}
    BY IdsAssumption DEF Init
  <2>2. req \in [Handlers -> Requests] /\ cols \in [Permissions -> Columns]
    BY <1>2 DEF Init, Columns
  <2> QED BY <2>1, <2>2 DEF TypeOK, Entities, Links
<1> QED BY <1>3, <1>4, <1>5 DEF Inv

LEMMA StepInv == Inv /\ [Next]_vars => Inv'
<1> SUFFICES ASSUME Inv, [Next]_vars PROVE Inv'
  OBVIOUS
<1>1. CASE UNCHANGED vars
  <2>1. UNCHANGED <<exist, unused, links, cols, req>>
    BY <1>1 DEF vars, tables
  <2> QED BY <2>1
        DEF Inv, TypeOK, HandlerOK, HoldsOK, RowsOK, ReplaceOK, RemoveOK, Apart, TodoRows, At, Removing
<1>2. ASSUME NEW h \in Handlers, RequirePermission(h) \/ Step(h) PROVE Inv'
  <2>1. CASE Answer(h) \/ Abort(h)
    BY <2>1, EndInv DEF Answer, Abort
  <2> QED BY <1>2, <2>1, RequirePermissionInv, CreateRowInv, CreateUserInv, AssignRoleInv, FindInv,
             UpdateRowInv, BeginInv, DeleteRowsInv, InsertInv, CommitInv, LockRowInv, CascadeInv
          DEF Step
<1> QED BY <1>1, <1>2 DEF Next

LEMMA SpecInv == Spec => []Inv
BY InitInv, StepInv, PTL DEF Spec

\* Every variable of the model keeps to the values the tables and requests have.
THEOREM SpecTypeOK == Spec => []TypeOK
<1>1. Inv => TypeOK
  BY DEF Inv
<1> QED BY <1>1, SpecInv, PTL

\* However a transaction ends, by COMMIT or by the deferred Rollback, none waits for
\* it afterwards.
THEOREM SpecWaitsForRunning == Spec => []WaitsForRunning
<1>1. ASSUME Inv PROVE WaitsForRunning
  <2> SUFFICES ASSUME NEW h \in Handlers, NEW k \in Handlers, Waits(h, k), At(k, "idle")
      PROVE  FALSE
    BY DEF WaitsForRunning
  <2>1. req[k] = Idle
    BY <1>1 DEF Inv, HandlerOK, HoldsOK
  <2>2. req[k].gone = {} /\ req[k].mine = {} /\ ~At(k, "remove")
    BY <2>1 DEF Idle, At
  <2> QED BY <2>2 DEF Waits, Removing, Sharing
<1> QED BY <1>1, SpecInv, PTL

\* The foreign keys: a link has both of its ends.
Linked == \A l \in links : Ends(l) \subseteq exist

LEMMA LinkedStep ==
  ASSUME Inv, Linked, NEW h \in Handlers, RequirePermission(h) \/ Step(h)
  PROVE  Linked'
<1>0. HandlerOK(h)
  BY DEF Inv
<1>1. CASE RequirePermission(h) \/ CreateRow(h) \/ CreateUser(h) \/ Answer(h) \/ FindRow(h)
           \/ FindRole(h) \/ UpdateRow(h) \/ Begin(h) \/ DeleteRows(h) \/ Insert(h)
           \/ Delete(h) \/ LockRow(h) \/ Abort(h)
  <2>1. links' = links /\ exist \subseteq exist'
    BY <1>1 DEF RequirePermission, CreateRow, CreateUser, Answer, FindRow, FindRole, UpdateRow,
                Begin, DeleteRows, Insert, Delete, LockRow, Abort, tables
  <2> QED BY <2>1 DEF Linked
<1>2. CASE AssignRole(h)
  <2>1. exist' = exist /\ \A l \in links' \ links : Ends(l) \subseteq exist
    BY <1>2 DEF AssignRole
  <2> QED BY <2>1 DEF Linked
<1>3. CASE Commit(h)
  <2>1. exist' = exist /\ \A l \in links' : l \in links \/ l \in req[h].mine
    BY <1>3 DEF Commit
  <2> QED BY <1>0, <2>1 DEF Linked, HandlerOK, RowsOK
<1>4. CASE Cascade(h)
  <2>1. /\ exist' = exist \ {req[h].target} /\ links' = links \ req[h].gone
        /\ links \cap Touching(req[h].target) \subseteq req[h].gone
    BY <1>0, <1>4 DEF Cascade, HandlerOK, RemoveOK
  <2>2. links \subseteq Links
    BY DEF Inv, TypeOK
  <2> QED BY <2>1, <2>2 DEF Linked, Touching
<1> QED BY <1>1, <1>2, <1>3, <1>4 DEF Step

LEMMA LinkedInvariant == Spec => []Linked
<1>1. ASSUME Init PROVE Linked
  <2>1. PICK u \in Users, r \in Roles, p \in Permissions :
          exist = {u, r, p} /\ links = {<<u, r>>, <<r, p>>}
    BY <1>1, IdsAssumption DEF Init
  <2> QED BY <2>1 DEF Linked, Ends
<1>2. Inv /\ Linked /\ [Next]_vars => Linked'
  <2> SUFFICES ASSUME Inv, Linked, [Next]_vars PROVE Linked'
    OBVIOUS
  <2>1. CASE UNCHANGED vars
    BY <2>1 DEF vars, tables, Linked
  <2>2. CASE Next
    BY <2>2, LinkedStep DEF Next
  <2> QED BY <2>1, <2>2
<1> QED BY <1>1, <1>2, SpecInv, PTL DEF Spec

\* What takes links away, and what changes columns.
LEMMA LinksTaken ==
  ASSUME Inv, NEW h \in Handlers, RequirePermission(h) \/ Step(h)
  PROVE  \/ links \subseteq links'
         \/ Commit(h) /\ links \ links' \subseteq req[h].gone \ req[h].mine
         \/ Cascade(h) /\ links \ links' \subseteq req[h].gone
<1>1. CASE RequirePermission(h) \/ CreateRow(h) \/ CreateUser(h) \/ Answer(h) \/ FindRow(h)
           \/ FindRole(h) \/ UpdateRow(h) \/ Begin(h) \/ DeleteRows(h) \/ Insert(h)
           \/ Delete(h) \/ LockRow(h) \/ Abort(h)
  BY <1>1 DEF RequirePermission, CreateRow, CreateUser, Answer, FindRow, FindRole, UpdateRow,
              Begin, DeleteRows, Insert, Delete, LockRow, Abort, tables
<1>2. CASE AssignRole(h)
  BY <1>2 DEF AssignRole
<1>3. CASE Commit(h)
  BY <1>3 DEF Commit
<1>4. CASE Cascade(h)
  BY <1>4 DEF Cascade
<1> QED BY <1>1, <1>2, <1>3, <1>4 DEF Step

LEMMA ColumnsTaken ==
  ASSUME Inv, NEW h \in Handlers, RequirePermission(h) \/ Step(h),
         NEW p \in Permissions, p \in exist, cols'[p] # cols[p]
  PROVE  UpdateRow(h) /\ req[h].target = p /\ cols'[p] = req[h].value
<1>1. cols \in [Permissions -> Columns] /\ exist \cap unused = {}
  BY DEF Inv, TypeOK
<1>2. CASE RequirePermission(h) \/ CreateUser(h) \/ AssignRole(h) \/ Answer(h) \/ FindRow(h)
           \/ FindRole(h) \/ Begin(h) \/ DeleteRows(h) \/ Insert(h) \/ Commit(h)
           \/ Delete(h) \/ LockRow(h) \/ Cascade(h) \/ Abort(h)
  BY <1>2 DEF RequirePermission, CreateUser, AssignRole, Answer, FindRow, FindRole,
              Begin, DeleteRows, Insert, Commit, Delete, LockRow, Cascade, Abort, tables
<1>3. CASE CreateRow(h)
  BY <1>1, <1>3 DEF CreateRow
<1>4. CASE UpdateRow(h)
  BY <1>1, <1>4 DEF UpdateRow
<1> QED BY <1>2, <1>3, <1>4 DEF Step

\* A request that ends leaves its handler idle.
LEMMA EndsIdle ==
  ASSUME NEW h \in Handlers, Commit(h) \/ Cascade(h) \/ UpdateRow(h)
  PROVE  req'[h].pc = "idle"
<1>1. req'[h] = Idle
  BY DEF Commit, Cascade, UpdateRow, Finish
<1> QED BY <1>1 DEF Idle

\* AccessTakenOnPurpose: a way to the admin API goes only in the step that ends a
\* request which asks for that.
THEOREM SpecAccessTakenOnPurpose == Spec => AccessTakenOnPurpose
<1>1. ASSUME Inv, Linked, [Next]_vars, NEW a \in Access \ Access'
      PROVE  \E h \in Handlers : TakesAway(h, a) /\ req'[h].pc = "idle"
  <2> DEFINE first == <<a[1], a[2]>>
             second == <<a[2], a[3]>>
  <2>1. /\ a \in Users \X Roles \X Permissions
        /\ first \in links /\ second \in links /\ cols[a[3]] = "manage admin"
    BY <1>1 DEF Access
  <2>2. ~(first \in links' /\ second \in links' /\ cols'[a[3]] = "manage admin")
    BY <1>1 DEF Access
  <2>3. a[3] \in Permissions /\ a[3] \in exist /\ first[2] = a[2] /\ second[1] = a[2]
        /\ first[1] = a[1] /\ second[2] = a[3]
    BY <1>1, <2>1 DEF Linked, Ends
  <2>4. ~UNCHANGED vars
    BY <2>1, <2>2 DEF vars, tables
  <2>5. PICK h \in Handlers : RequirePermission(h) \/ Step(h)
    BY <1>1, <2>4 DEF Next
  <2>6. HandlerOK(h)
    BY <1>1 DEF Inv
  <2>7. CASE cols'[a[3]] # cols[a[3]]
    <3>1. UpdateRow(h) /\ req[h].target = a[3] /\ cols'[a[3]] = req[h].value
      BY <1>1, <2>3, <2>5, <2>7, ColumnsTaken
    <3>2. TakesAway(h, a)
      BY <2>1, <2>7, <3>1 DEF TakesAway, UpdateRow
    <3> QED BY <3>1, <3>2, EndsIdle
  <2>8. ASSUME NEW l \in {first, second}, l \notin links', l \in links
        PROVE  TakesAway(h, a) /\ req'[h].pc = "idle"
    <3>1. CASE Commit(h) /\ links \ links' \subseteq req[h].gone \ req[h].mine
      <4>1. At(h, "replace") /\ req[h].seen = {} /\ req[h].todo = <<>>
        BY <3>1 DEF Commit
      <4>2. TodoRows(h) = {}
        BY <4>1 DEF TodoRows
      <4>3. l \in Of(req[h].target) /\ l \notin req[h].asked
        BY <2>6, <2>8, <3>1, <4>1, <4>2 DEF HandlerOK, ReplaceOK
      <4>4. TakesAway(h, a)
        BY <4>1, <4>3 DEF TakesAway
      <4> QED BY <3>1, <4>4, EndsIdle
    <3>2. CASE Cascade(h) /\ links \ links' \subseteq req[h].gone
      <4>1. At(h, "remove") /\ l \in Touching(req[h].target) /\ req[h].target \in Roles \cup Permissions
        BY <2>6, <2>8, <3>2 DEF Cascade, HandlerOK, RemoveOK, HoldsOK
      <4>2. req[h].target \in {a[1], a[2], a[3]}
        BY <2>3, <4>1 DEF Touching, Ends
      <4>3. req[h].target # a[1]
        BY <2>1, <4>1, IdsAssumption
      <4>4. TakesAway(h, a)
        BY <4>1, <4>2, <4>3 DEF TakesAway
      <4> QED BY <3>2, <4>4, EndsIdle
    <3> QED BY <1>1, <2>5, <2>8, <3>1, <3>2, LinksTaken
  <2> HIDE DEF first, second
  <2> QED BY <2>1, <2>2, <2>7, <2>8
<1>2. Inv /\ Linked /\ [Next]_vars =>
        [\A a \in Access \ Access' :
           \E h \in Handlers : TakesAway(h, a) /\ req'[h].pc = "idle"]_vars
  BY <1>1
<1> QED BY <1>2, SpecInv, LinkedInvariant, PTL DEF Spec, AccessTakenOnPurpose

-----------------------------------------------------------------------------
(* An update that was not given action and resource writes what it has read, *)
(* and that is what the row holds unless another update came in between.     *)

Kept(h) == At(h, "update") /\ req[h].target \in Permissions =>
  /\ req[h].target \notin unused
  /\ req[h].source = "row" /\ req[h].target \in exist => req[h].value = cols[req[h].target]

\* No step of one request changes what another will write, but an update makes it
\* stale.
LEMMA OthersUpdate ==
  ASSUME Inv, NEW h \in Handlers, RequirePermission(h) \/ Step(h),
         NEW k \in Handlers \ {h}, At(k, "update")'
  PROVE  /\ At(k, "update")
         /\ req'[k].target = req[k].target /\ req'[k].value = req[k].value
         /\ req'[k].source = IF UpdateRow(h) /\ Overtakes(h, k) THEN "stale" ELSE req[k].source
<1> USE DEF At
<1>1. req \in [Handlers -> Requests] /\ req[k] \in Requests
  BY DEF Inv, TypeOK
<1>2. CASE UpdateRow(h)
  <2>1. req'[k] = IF Overtakes(h, k) THEN [req[k] EXCEPT !.source = "stale"] ELSE req[k]
    BY <1>2 DEF UpdateRow
  <2> QED BY <1>1, <1>2, <2>1 DEF Requests
<1>3. ASSUME NEW seen, NEW touched, ~UpdateRow(h),
             req'[k] = [req[k] EXCEPT !.seen = seen, !.touched = touched]
      PROVE  /\ req'[k].pc = req[k].pc
             /\ req'[k].target = req[k].target /\ req'[k].value = req[k].value
             /\ req'[k].source = req[k].source
  BY <1>1, <1>3 DEF Requests
<1>4. ASSUME NEW d, NEW i, ~UpdateRow(h), Finish(h, d, i)
      PROVE  \E seen, touched : req'[k] = [req[k] EXCEPT !.seen = seen, !.touched = touched]
  <2>1. req'[k] = [req[k] EXCEPT !.seen = req[k].seen \ d, !.touched = req[k].touched \cup Noticed(k, d \cup i)]
    BY <1>4 DEF Finish
  <2> QED BY <2>1
<1>5. CASE ~UpdateRow(h) /\ \E d, i : Finish(h, d, i)
  BY <1>3, <1>4, <1>5
<1>6. CASE ~UpdateRow(h) /\ req'[k] = req[k]
  BY <1>6
<1>7. CASE ~UpdateRow(h) /\ AssignRole(h)
  <2>1. \/ req'[k] = req[k]
        \/ \E touched : req'[k] = [req[k] EXCEPT !.touched = touched]
    BY <1>1, <1>7 DEF AssignRole
  <2>2. ASSUME NEW touched, req'[k] = [req[k] EXCEPT !.touched = touched]
        PROVE  /\ req'[k].pc = req[k].pc
               /\ req'[k].target = req[k].target /\ req'[k].value = req[k].value
               /\ req'[k].source = req[k].source
    BY <1>1, <2>2 DEF Requests
  <2> QED BY <1>6, <1>7, <2>1, <2>2
<1>8. \/ UpdateRow(h) \/ AssignRole(h) \/ (\E d, i : Finish(h, d, i)) \/ req'[k] = req[k]
  <2>1. CASE CreateRow(h) \/ Answer(h) \/ Abort(h) \/ Commit(h) \/ Cascade(h)
    BY <2>1 DEF CreateRow, Answer, Abort, Commit, Cascade, Return
  <2>2. CASE Insert(h) \/ LockRow(h)
    BY <1>1, <2>2 DEF Insert, LockRow, Return
  <2>3. CASE RequirePermission(h) \/ CreateUser(h) \/ DeleteRows(h) \/ Delete(h)
    BY <1>1, <2>3 DEF RequirePermission, CreateUser, DeleteRows, Delete
  <2>4. CASE FindRow(h) \/ FindRole(h) \/ Begin(h)
    BY <1>1, <2>4 DEF FindRow, FindRole, Begin
  <2> QED BY <2>1, <2>2, <2>3, <2>4 DEF Step
<1> QED BY <1>2, <1>5, <1>6, <1>7, <1>8

\* A request comes to its UPDATE by its SELECT only.
LEMMA OwnUpdate ==
  ASSUME Inv, NEW h \in Handlers, RequirePermission(h) \/ Step(h), At(h, "update")'
  PROVE  FindRow(h) \/ FindRole(h)
<1> USE DEF At
<1>1. req \in [Handlers -> Requests] /\ req[h] \in Requests /\ HoldsOK(h)
  BY DEF Inv, TypeOK, HandlerOK
<1>2. req'[h] # Idle
  BY DEF Idle
<1>3. CASE CreateRow(h) \/ Answer(h) \/ Abort(h) \/ Commit(h) \/ Cascade(h) \/ UpdateRow(h)
  BY <1>2, <1>3 DEF CreateRow, Answer, Abort, Commit, Cascade, UpdateRow, Return, Finish
<1>4. CASE RequirePermission(h) \/ CreateUser(h) \/ Delete(h)
  <2>1. CASE RequirePermission(h)
    BY <1>1, <2>1 DEF RequirePermission, Requests
  <2>2. CASE CreateUser(h)
    <3>1. PICK u, list : req' = [req EXCEPT ![h].pc = "assign", ![h].target = u, ![h].todo = list]
      BY <2>2 DEF CreateUser
    <3> QED BY <1>1, <3>1 DEF Requests
  <2>3. CASE Delete(h)
    <3>1. PICK e : req' = [req EXCEPT ![h].pc = "lock", ![h].target = e]
      BY <2>3 DEF Delete
    <3> QED BY <1>1, <3>1 DEF Requests
  <2> QED BY <1>4, <2>1, <2>2, <2>3
<1>5. CASE Begin(h)
  BY <1>1, <1>5 DEF Begin, Idle
<1>6. CASE DeleteRows(h)
  BY <1>1, <1>6 DEF DeleteRows, Requests, HoldsOK
<1>7. CASE LockRow(h)
  BY <1>1, <1>2, <1>7 DEF LockRow, Requests, Return, Finish
<1>8. CASE Insert(h)
  BY <1>1, <1>2, <1>8 DEF Insert, Requests, Return, Finish
<1>9. CASE AssignRole(h)
  BY <1>1, <1>9 DEF AssignRole, Requests
<1> QED BY <1>3, <1>4, <1>5, <1>6, <1>7, <1>8, <1>9 DEF Step

\* What a step may do to the rows.
LEMMA RowsStep ==
  ASSUME Inv, NEW h \in Handlers, RequirePermission(h) \/ Step(h), NEW p \in Permissions, p \notin unused
  PROVE  /\ p \notin unused'
         /\ p \in exist' => p \in exist
         /\ cols'[p] = IF UpdateRow(h) /\ req[h].target = p /\ p \in exist THEN req[h].value ELSE cols[p]
<1>1. cols \in [Permissions -> Columns]
  BY DEF Inv, TypeOK
<1>2. CASE CreateRow(h)
  BY <1>1, <1>2 DEF CreateRow, UpdateRow, At
<1>3. CASE CreateUser(h)
  BY <1>3, IdsAssumption DEF CreateUser, UpdateRow, At
<1>4. CASE UpdateRow(h)
  BY <1>1, <1>4 DEF UpdateRow
<1>5. CASE Cascade(h)
  BY <1>5 DEF Cascade, UpdateRow, At
<1>6. CASE \/ RequirePermission(h) \/ Answer(h) \/ FindRow(h) \/ FindRole(h) \/ Begin(h)
           \/ Delete(h) \/ Abort(h) \/ DeleteRows(h) \/ Insert(h) \/ LockRow(h)
           \/ AssignRole(h) \/ Commit(h)
  <2>1. UNCHANGED <<exist, unused, cols>>
    BY <1>6 DEF RequirePermission, Answer, FindRow, FindRole, Begin, Delete, Abort, DeleteRows,
                Insert, LockRow, AssignRole, Commit, tables
  <2>2. CASE UpdateRow(h)
    BY <1>4, <2>2
  <2> QED BY <2>1, <2>2
<1> QED BY <1>2, <1>3, <1>4, <1>5, <1>6 DEF Step

LEMMA KeptStep ==
  ASSUME Inv, \A h \in Handlers : Kept(h), [Next]_vars
  PROVE  \A h \in Handlers : Kept(h)'
<1>1. CASE UNCHANGED vars
  BY <1>1 DEF vars, tables, Kept, At
<1>2. ASSUME NEW h \in Handlers, RequirePermission(h) \/ Step(h),
             NEW k \in Handlers, At(k, "update")', req'[k].target \in Permissions
      PROVE  /\ req'[k].target \notin unused'
             /\ req'[k].source = "row" /\ req'[k].target \in exist'
                  => req'[k].value = cols'[req'[k].target]
  <2>1. CASE k = h /\ FindRow(h)
    <3>1. PICK p \in Permissions \cap exist, value \in Columns, source \in {"request", "row"} :
            /\ source = "row" => value = cols[p]
            /\ req' = [req EXCEPT ![h].pc = "update", ![h].target = p,
                                  ![h].value = value, ![h].source = source]
      BY <2>1 DEF FindRow
    <3>2. req \in [Handlers -> Requests] /\ req[h] \in Requests /\ exist \cap unused = {}
      BY DEF Inv, TypeOK
    <3>3. req'[h].target = p /\ req'[h].value = value /\ req'[h].source = source
      BY <3>1, <3>2 DEF Requests
    <3> QED BY <2>1, <3>1, <3>2, <3>3 DEF FindRow, tables
  <2>2. CASE k = h /\ FindRole(h)
    <3>1. PICK r \in Roles : req' = [req EXCEPT ![h].pc = "update", ![h].target = r]
      BY <2>2 DEF FindRole
    <3>2. req \in [Handlers -> Requests] /\ req[h] \in Requests
      BY DEF Inv, TypeOK
    <3>3. req'[h].target = r
      BY <3>1, <3>2 DEF Requests
    <3> QED BY <1>2, <2>2, <3>3, IdsAssumption
  <2>3. CASE k # h
    <3>1. /\ At(k, "update") /\ req'[k].target = req[k].target /\ req'[k].value = req[k].value
          /\ req'[k].source = IF UpdateRow(h) /\ Overtakes(h, k) THEN "stale" ELSE req[k].source
      BY <1>2, <2>3, OthersUpdate
    <3>2. Kept(k) /\ req[k].target \in Permissions
      BY <1>2, <3>1
    <3>3. req[k].target \notin unused
      BY <3>1, <3>2 DEF Kept
    <3>4. /\ req[k].target \notin unused'
          /\ req[k].target \in exist' => req[k].target \in exist
          /\ cols'[req[k].target] =
               IF UpdateRow(h) /\ req[h].target = req[k].target /\ req[k].target \in exist
               THEN req[h].value ELSE cols[req[k].target]
      BY <1>2, <3>2, <3>3, RowsStep
    <3>5. CASE UpdateRow(h) /\ req[h].target = req[k].target
      BY <3>1, <3>4, <3>5 DEF Overtakes
    <3>6. CASE ~(UpdateRow(h) /\ req[h].target = req[k].target)
      BY <3>1, <3>2, <3>4, <3>6 DEF Kept, Overtakes
    <3> QED BY <3>5, <3>6
  <2> QED BY <1>2, <2>1, <2>2, <2>3, OwnUpdate
<1> QED BY <1>1, <1>2 DEF Next, Kept

\* An UpdatePermission that is not given action or resource leaves them alone, but for
\* those that another update has changed between its SELECT and its UPDATE.
THEOREM SpecOnlyAskedFor == Spec => OnlyAskedFor
<1> DEFINE AllKept == \A h \in Handlers : Kept(h)
<1>1. Init => AllKept
  <2>1. ASSUME Init, NEW h \in Handlers PROVE ~At(h, "update")
    BY <2>1 DEF Init, Idle, At
  <2> QED BY <2>1 DEF Kept
<1>2. Inv /\ AllKept /\ [Next]_vars => AllKept'
  BY KeptStep
<1>3. Inv /\ AllKept /\ [Next]_vars =>
        [\A p \in Permissions :
           (p \in exist /\ cols'[p] # cols[p]) => \E h \in Handlers : AskedFor(h, p)]_vars
  <2> SUFFICES ASSUME Inv, AllKept, Next, NEW p \in Permissions, p \in exist, cols'[p] # cols[p]
      PROVE  \E h \in Handlers : AskedFor(h, p)
    OBVIOUS
  <2>1. PICK h \in Handlers : RequirePermission(h) \/ Step(h)
    BY DEF Next
  <2>2. p \notin unused
    BY DEF Inv, TypeOK
  <2>3. /\ UpdateRow(h) /\ req[h].target = p
        /\ cols'[p] = req[h].value
    BY <2>1, <2>2, RowsStep
  <2>4. At(h, "update") /\ Kept(h) /\ req[h].source \in Sources
    BY <2>3 DEF UpdateRow, Inv, TypeOK, Requests
  <2>5. req[h].source # "row"
    BY <2>3, <2>4 DEF Kept
  <2> QED BY <2>3, <2>4, <2>5 DEF AskedFor, Sources
<1> QED BY <1>1, <1>2, <1>3, SpecInv, PTL DEF Spec, OnlyAskedFor

-----------------------------------------------------------------------------
(* Rbac implements Assignments.                                             *)

NoReplacement == [owner |-> Nothing, asked |-> {}, touched |-> {}]

LEMMA OfNothing == Promised!Of(Nothing) = {}
<1>1. \A l \in Promised!Links : l[1] \in Users \cup Roles
  BY DEF Promised!Links
<1> QED BY <1>1, IdsAssumption DEF Promised!Of

LEMMA PendingOther ==
  ASSUME NEW h \in Handlers, ~At(h, "replace")
  PROVE  Pending[h] = Promised!None /\ Pending[h].owner = Nothing
BY DEF Pending, Promised!None

\* What a request notices of the changes of another is what Assignments says.
LEMMA EffectDone ==
  ASSUME NEW h \in Handlers, NEW d \in SUBSET Links, NEW i \in SUBSET Links,
         Effect(h, d, i), ~At(h, "replace")'
  PROVE  Promised!Done(h, d \cup i)
<1> DEFINE done(k) == IF k = h THEN Promised!None
              ELSE [Pending[k] EXCEPT !.touched = @ \cup ((d \cup i) \cap Promised!Of(Pending[k].owner))]
<1>1. ASSUME NEW k \in Handlers PROVE Pending'[k] = done(k)
  <2>1. CASE k = h
    BY <2>1 DEF Pending, Promised!None
  <2>2. CASE k # h /\ At(k, "replace")
    <3>1. /\ Pending[k] = [owner |-> req[k].target, asked |-> req[k].asked, touched |-> req[k].touched]
      BY <2>2 DEF Pending
    <3>2. /\ At(k, "replace")' /\ req'[k].target = req[k].target /\ req'[k].asked = req[k].asked
          /\ req'[k].touched = req[k].touched \cup ((d \cup i) \cap Of(req[k].target))
      BY <2>2 DEF Effect, Noticed, At
    <3>3. Pending'[k] = [owner |-> req[k].target, asked |-> req[k].asked,
                         touched |-> req[k].touched \cup ((d \cup i) \cap Of(req[k].target))]
      BY <3>2 DEF Pending
    <3>4. Of(req[k].target) = Promised!Of(req[k].target)
      BY DEF Of, Promised!Of, Links, Promised!Links
    <3> QED BY <2>2, <3>1, <3>3, <3>4
  <2>3. CASE k # h /\ ~At(k, "replace")
    <3>1. Pending'[k] = NoReplacement /\ Pending[k] = NoReplacement
      BY <2>3 DEF Pending, NoReplacement, Effect, At
    <3>2. (d \cup i) \cap Promised!Of(Pending[k].owner) = {}
      BY <3>1, OfNothing DEF NoReplacement
    <3>3. done(k) = [NoReplacement EXCEPT !.touched = @ \cup {}]
      BY <2>3, <3>1, <3>2
    <3>4. NoReplacement.touched \cup {} = {}
      BY DEF NoReplacement
    <3>5. done(k) = NoReplacement
      BY <3>3, <3>4 DEF NoReplacement
    <3> QED BY <3>1, <3>5
  <2> QED BY <2>1, <2>2, <2>3
<1>2. Pending' = [k \in Handlers |-> done(k)]
  <2> HIDE DEF done
  <2> QED BY <1>1 DEF Pending
<1> QED BY <1>2 DEF Promised!Done

LEMMA FinishDone ==
  ASSUME Inv, NEW h \in Handlers, NEW d \in SUBSET Links, NEW i \in SUBSET Links,
         Finish(h, d, i), links' = (links \ d) \cup i
  PROVE  Promised!Done(h, d \cup i)
<1>1. Effect(h, d, i) /\ req'[h] = Idle
  BY FinishEffect
<1>2. ~At(h, "replace")'
  BY <1>1 DEF Idle, At
<1> QED BY <1>1, <1>2, EffectDone

\* A request that ends without effect abandons its replacement, if it has one.
LEMMA EndAbstract ==
  ASSUME NEW h \in Handlers, Effect(h, {}, {}), req'[h] = Idle, UNCHANGED <<exist, links>>
  PROVE  [Promised!Abandon(h)]_(Promised!vars)
<1>1. ~At(h, "replace")'
  BY DEF Idle, At
<1>2. Promised!Done(h, {} \cup {})
  BY <1>1, EffectDone
<1>3. Promised!Done(h, {})
  BY <1>2, {} \cup {} = {}
<1>4. CASE Pending[h] # Promised!None
  BY <1>3, <1>4 DEF Promised!Abandon
<1>5. CASE Pending[h] = Promised!None
  <2>2. ASSUME NEW k \in Handlers PROVE Pending'[k] = Pending[k]
    <3>1. CASE k = h
      BY <1>5, <3>1 DEF Pending, Promised!None, Idle, At
    <3>2. CASE k # h
      BY <3>2 DEF Pending, Effect, Noticed, At
    <3> QED BY <3>1, <3>2
  <2>3. Pending' = Pending
    BY <2>2 DEF Pending
  <2> QED BY <2>3 DEF Promised!vars
<1> QED BY <1>4, <1>5

\* A step inside a request that begins and ends no replacement.
LEMMA InsideAbstract ==
  ASSUME UNCHANGED <<exist, links>>,
         \A k \in Handlers :
           /\ At(k, "replace")' <=> At(k, "replace")
           /\ At(k, "replace") =>
                /\ req'[k].target = req[k].target /\ req'[k].asked = req[k].asked
                /\ req'[k].touched = req[k].touched
  PROVE  UNCHANGED Promised!vars
<1>1. \A k \in Handlers : Pending'[k] = Pending[k]
  BY DEF Pending
<1>2. Pending' = Pending
  BY <1>1 DEF Pending
<1> QED BY <1>2 DEF Promised!vars

\* The BEGIN of SetRoles or AssignPermissions begins a replacement.
LEMMA BeginAbstract ==
  ASSUME Inv, NEW h \in Handlers, Begin(h)
  PROVE  Promised!Begin(h)
<1>1. PICK owner \in Owners \ unused : \E list \in Lists(owner) :
        req' = [req EXCEPT ![h] = [Idle EXCEPT
          !.pc = "replace", !.target = owner, !.todo = list, !.seen = links \cap Of(owner),
          !.asked = {<<owner, list[i]>> : i \in DOMAIN list}]]
  BY DEF Begin, Owners
<1>2. PICK list \in Lists(owner) :
        req' = [req EXCEPT ![h] = [Idle EXCEPT
          !.pc = "replace", !.target = owner, !.todo = list, !.seen = links \cap Of(owner),
          !.asked = {<<owner, list[i]>> : i \in DOMAIN list}]]
  BY <1>1
<1> DEFINE asked == {<<owner, list[i]>> : i \in DOMAIN list}
<1>3. /\ req \in [Handlers -> Requests] /\ UNCHANGED <<exist, links>> /\ At(h, "handler")
  BY DEF Inv, TypeOK, Begin, tables
<1>4. asked \in SUBSET Promised!Of(owner)
  <2>1. list \in Seq(Members(owner))
    BY ListsOK
  <2>2. \A i \in DOMAIN list : list[i] \in Members(owner)
    BY <2>1
  <2> QED BY <2>2 DEF Promised!Of, Promised!Links, Members, Owners
<1>5. \A k \in Handlers \ {h} : req'[k] = req[k]
  BY <1>2, <1>3
<1>6. /\ req'[h].pc = "replace" /\ req'[h].target = owner
      /\ req'[h].asked = asked /\ req'[h].touched = {}
  <2>1. req'[h] = [Idle EXCEPT
          !.pc = "replace", !.target = owner, !.todo = list, !.seen = links \cap Of(owner),
          !.asked = asked]
    BY <1>2, <1>3
  <2> QED BY <2>1 DEF Idle
<1> HIDE DEF asked
<1>7. Pending' = [Pending EXCEPT ![h] = [owner |-> owner, asked |-> asked, touched |-> {}]]
  <2>1. Pending'[h] = [owner |-> owner, asked |-> asked, touched |-> {}]
    BY <1>6 DEF Pending, At
  <2>2. \A k \in Handlers \ {h} : Pending'[k] = Pending[k]
    BY <1>5 DEF Pending, At
  <2> QED BY <2>1, <2>2 DEF Pending
<1>8. Pending[h] = Promised!None
  BY <1>3, PendingOther DEF At
<1> QED BY <1>3, <1>4, <1>7, <1>8 DEF Promised!Begin, Owners

\* Its COMMIT is the replacement.
LEMMA CommitAbstract ==
  ASSUME Inv, NEW h \in Handlers, Commit(h)
  PROVE  Promised!Replace(h)
<1> DEFINE owner == req[h].target
           gone == req[h].gone
           mine == req[h].mine
           before == links \cap Promised!Of(owner)
           kept == before \ gone
<1>1. /\ req[h] \in Requests /\ HandlerOK(h) /\ At(h, "replace")
      /\ req[h].seen = {} /\ req[h].todo = <<>>
      /\ links' = (links \ gone) \cup mine /\ Finish(h, gone, mine) /\ exist' = exist
  BY DEF Commit, Inv, TypeOK
<1>2. gone \in SUBSET Links /\ mine \in SUBSET Links
  BY <1>1 DEF Requests
<1>3. Promised!Done(h, gone \cup mine)
  BY <1>1, <1>2, FinishDone
<1>4. TodoRows(h) = {}
  BY <1>1 DEF TodoRows
<1>5. Of(owner) = Promised!Of(owner)
  BY DEF Of, Promised!Of, Links, Promised!Links
<1>6. /\ owner \in Owners /\ gone \subseteq before
      /\ before \subseteq gone \cup req[h].touched
      /\ mine \subseteq req[h].asked
      /\ req[h].asked \subseteq mine \cup req[h].touched
      /\ owner \in Users => req[h].asked \subseteq mine
  BY <1>1, <1>4, <1>5 DEF HandlerOK, ReplaceOK, RowsOK
<1>7. \A l \in mine : Promised!Ends(l) \subseteq exist
  BY <1>1 DEF HandlerOK, RowsOK, Ends, Promised!Ends
<1>8. /\ Pending[h].owner = owner /\ Pending[h].asked = req[h].asked
      /\ Pending[h].touched = req[h].touched
  BY <1>1 DEF Pending
<1>9. owner # Nothing
  BY <1>6, IdsAssumption DEF Owners
<1>10. before \ kept = gone /\ kept \subseteq before \cap req[h].touched
  BY <1>6
<1>11. links' = (links \ (before \ kept)) \cup mine /\ Promised!Done(h, (before \ kept) \cup mine)
  BY <1>1, <1>3, <1>10
<1> HIDE DEF owner, gone, mine, before, kept
<1>12. /\ kept \in SUBSET (before \cap Pending[h].touched) /\ mine \in SUBSET Pending[h].asked
       /\ Pending[h].asked \ mine \subseteq Pending[h].touched
       /\ Pending[h].owner \in Users => mine = Pending[h].asked
  BY <1>6, <1>8, <1>10
<1>13. before = links \cap Promised!Of(Pending[h].owner)
  BY <1>8 DEF before
<1> QED BY <1>1, <1>7, <1>8, <1>9, <1>11, <1>12, <1>13 DEF Promised!Replace

\* A role or permission is removed with all its links.
LEMMA CascadeAbstract ==
  ASSUME Inv, NEW h \in Handlers, Cascade(h)
  PROVE  Promised!Remove(h)
<1> DEFINE e == req[h].target
           gone == req[h].gone
<1>1. /\ req[h] \in Requests /\ HandlerOK(h) /\ At(h, "remove") /\ req[h].seen = {}
      /\ exist' = exist \ {e} /\ links' = links \ gone /\ Finish(h, gone, {})
  BY DEF Cascade, Inv, TypeOK
<1>2. gone \in SUBSET Links /\ links' = (links \ gone) \cup {} /\ gone \cup {} = gone
  BY <1>1 DEF Requests
<1>3. Promised!Done(h, gone \cup {})
  BY <1>1, <1>2, FinishDone
<1>4. Touching(e) = Promised!Touching(e)
  BY DEF Touching, Promised!Touching, Links, Promised!Links, Ends, Promised!Ends
<1>5. e \in Roles \cup Permissions /\ gone = links \cap Promised!Touching(e)
  BY <1>1, <1>4 DEF HandlerOK, HoldsOK, RowsOK, RemoveOK
<1>6. Pending[h] = Promised!None
  BY <1>1, PendingOther DEF At
<1> HIDE DEF e, gone
<1>7. links' = links \ Promised!Touching(e)
  BY <1>1, <1>5
<1>8. Promised!Done(h, links \cap Promised!Touching(e))
  BY <1>2, <1>3, <1>5
<1> QED BY <1>1, <1>5, <1>6, <1>7, <1>8 DEF Promised!Remove

\* A new row.
LEMMA CreateAbstract ==
  ASSUME Inv, NEW h \in Handlers, CreateRow(h) \/ CreateUser(h)
  PROVE  Promised!Create(h)
<1>1. At(h, "handler") /\ UNCHANGED links /\ TypeOK
  BY DEF CreateRow, CreateUser, Inv
<1>2. Pending[h] = Promised!None
  BY <1>1, PendingOther DEF At
<1>3. \E e \in Promised!Entities : exist' = exist \cup {e}
  BY <1>1 DEF CreateRow, CreateUser, TypeOK, Promised!Entities, Entities
<1>4. Pending' = Pending
  <2>1. ASSUME NEW k \in Handlers PROVE Pending'[k] = Pending[k]
    <3>1. CASE CreateRow(h)
      <4>1. links' = (links \ {}) \cup {} /\ Finish(h, {}, {})
        BY <1>1, <3>1 DEF CreateRow, Return
      <4>2. Effect(h, {}, {}) /\ req'[h] = Idle
        BY <4>1, FinishEffect
      <4> QED BY <1>1, <4>2 DEF Pending, Effect, Noticed, Idle, At
    <3>2. CASE CreateUser(h)
      <4>1. PICK u, list : req' = [req EXCEPT ![h].pc = "assign", ![h].target = u, ![h].todo = list]
        BY <3>2 DEF CreateUser
      <4>2. CASE k = h
        <5>1. req'[h].pc = "assign"
          BY <1>1, <4>1 DEF TypeOK, Requests
        <5> QED BY <1>1, <4>2, <5>1 DEF Pending, At
      <4>3. CASE k # h
        <5>1. req'[k] = req[k]
          BY <1>1, <4>1, <4>3 DEF TypeOK
        <5> QED BY <5>1 DEF Pending, At
      <4> QED BY <4>2, <4>3
    <3> QED BY <3>1, <3>2
  <2> QED BY <2>1 DEF Pending
<1> QED BY <1>1, <1>2, <1>3, <1>4 DEF Promised!Create

\* A role of a new user is added on its own, or its error goes unnoticed.
LEMMA AssignRoleAbstract ==
  ASSUME Inv, NEW h \in Handlers, AssignRole(h)
  PROVE  [Promised!Add(h)]_(Promised!vars)
<1>1. At(h, "assign") /\ UNCHANGED exist
  BY DEF AssignRole
<1>2. PICK i \in SUBSET {Row(h)} :
        /\ i \subseteq Links
        /\ i # {} => ~Present(h) /\ Ends(Row(h)) \subseteq exist
        /\ Effect(h, {}, i) /\ req'[h].pc = "assign"
  BY AssignRoleEffect
<1>3. CASE i = {}
  <2>1. ASSUME NEW k \in Handlers \ {h}
        PROVE  /\ req'[k].pc = req[k].pc /\ req'[k].target = req[k].target
               /\ req'[k].asked = req[k].asked /\ req'[k].touched = req[k].touched
    BY <1>2, <1>3 DEF Effect, Noticed
  <2>2. links' = links
    BY <1>2, <1>3 DEF Effect
  <2> QED BY <1>1, <1>2, <2>1, <2>2, InsideAbstract DEF At
<1>4. CASE i = {Row(h)}
  <2>1. Promised!Done(h, {} \cup i)
    BY <1>2, EffectDone DEF At
  <2>2. Promised!Done(h, {Row(h)})
    BY <1>4, <2>1, {} \cup i = i
  <2>3. Row(h) \in Promised!Links /\ Promised!Ends(Row(h)) \subseteq exist
    BY <1>2, <1>4 DEF Links, Promised!Links, Ends, Promised!Ends
  <2>4. links' = links \cup {Row(h)}
    BY <1>2, <1>4 DEF Effect
  <2>5. Pending[h] = Promised!None
    BY <1>1, PendingOther DEF At
  <2> QED BY <1>1, <2>2, <2>3, <2>4, <2>5 DEF Promised!Add
<1> QED BY <1>2, <1>3, <1>4

\* The other steps inside a request change nothing that Assignments speaks of.
LEMMA QuietAbstract ==
  ASSUME Inv, NEW h \in Handlers,
         \/ RequirePermission(h) \/ FindRow(h) \/ FindRole(h) \/ Delete(h)
         \/ DeleteRows(h) \/ (Insert(h) /\ ~Return(h)) \/ (LockRow(h) /\ ~Return(h))
  PROVE  UNCHANGED Promised!vars
<1>1. req \in [Handlers -> Requests] /\ req[h] \in Requests
  BY DEF Inv, TypeOK
<1>2. UNCHANGED <<exist, links>>
  BY DEF RequirePermission, FindRow, FindRole, Delete, DeleteRows, Insert, LockRow, tables
<1>3. \A k \in Handlers \ {h} : req'[k] = req[k]
  BY <1>1 DEF RequirePermission, FindRow, FindRole, Delete, DeleteRows, Insert, LockRow
<1>4. CASE RequirePermission(h) \/ FindRow(h) \/ FindRole(h) \/ Delete(h) \/ (LockRow(h) /\ ~Return(h))
  <2>1. ~At(h, "replace")
    BY <1>4 DEF RequirePermission, FindRow, FindRole, Delete, LockRow, At
  <2>2. req'[h].pc \in {"handler", "update", "lock", "remove"}
    <3>1. CASE RequirePermission(h)
      BY <1>1, <3>1 DEF RequirePermission, Requests
    <3>2. CASE FindRow(h)
      <4>1. PICK p, value, source :
              req' = [req EXCEPT ![h].pc = "update", ![h].target = p,
                                 ![h].value = value, ![h].source = source]
        BY <3>2 DEF FindRow
      <4> QED BY <1>1, <4>1 DEF Requests
    <3>5. CASE FindRole(h)
      BY <1>1, <3>5 DEF FindRole, Requests
    <3>3. CASE Delete(h)
      BY <1>1, <3>3 DEF Delete, Requests
    <3>4. CASE LockRow(h) /\ ~Return(h)
      BY <1>1, <3>4 DEF LockRow, Requests
    <3> QED BY <1>4, <3>1, <3>2, <3>3, <3>4, <3>5
  <2> QED BY <1>2, <1>3, <2>1, <2>2, InsideAbstract DEF At
<1>5. CASE DeleteRows(h) \/ (Insert(h) /\ ~Return(h))
  <2>1. /\ req'[h].pc = req[h].pc /\ req'[h].target = req[h].target
        /\ req'[h].asked = req[h].asked /\ req'[h].touched = req[h].touched
    BY <1>1, <1>5 DEF DeleteRows, Insert, Requests
  <2> QED BY <1>2, <1>3, <2>1, InsideAbstract DEF At
<1> QED BY <1>4, <1>5

LEMMA InitAbstract == Init => Promised!Init
<1> SUFFICES ASSUME Init PROVE Promised!Init
  OBVIOUS
<1>1. TypeOK
  BY InitInv DEF Inv
<1>2. exist \in SUBSET Promised!Entities /\ links \in SUBSET Promised!Links
  BY <1>1 DEF TypeOK, Entities, Links, Promised!Entities, Promised!Links
<1>3. \A h \in Handlers : ~At(h, "replace")
  <2>1. Idle.pc = "idle"
    BY DEF Idle
  <2> QED BY <2>1 DEF Init, At
<1>4. Pending = [h \in Handlers |-> Promised!None]
  BY <1>3 DEF Pending, Promised!None
<1> QED BY <1>2, <1>4 DEF Promised!Init

LEMMA StepAbstract == Inv /\ [Next]_vars => [Promised!Next]_(Promised!vars)
<1> SUFFICES ASSUME Inv, [Next]_vars PROVE [Promised!Next]_(Promised!vars)
  OBVIOUS
<1>1. CASE UNCHANGED vars
  <2>1. UNCHANGED <<exist, links, req>>
    BY <1>1 DEF vars, tables
  <2> QED BY <2>1 DEF Promised!vars, Pending, At
<1>2. ASSUME NEW h \in Handlers, RequirePermission(h) \/ Step(h)
      PROVE  [Promised!Next]_(Promised!vars)
  <2>1. CASE \/ Answer(h) \/ Abort(h) \/ UpdateRow(h)
             \/ ((Insert(h) \/ LockRow(h)) /\ Return(h))
    <3>1. UNCHANGED <<exist, links>>
      BY <2>1 DEF Answer, Abort, UpdateRow, Insert, LockRow, tables
    <3>2. Effect(h, {}, {}) /\ req'[h] = Idle
      <4>1. CASE UpdateRow(h)
        BY <4>1, UpdateRowEffect
      <4>2. CASE Return(h)
        <5>1. Finish(h, {}, {}) /\ links' = (links \ {}) \cup {}
          BY <3>1, <4>2 DEF Return
        <5> QED BY <5>1, FinishEffect
      <4> QED BY <2>1, <4>1, <4>2 DEF Answer, Abort
    <3> QED BY <3>1, <3>2, EndAbstract DEF Promised!Next
  <2>2. CASE CreateRow(h) \/ CreateUser(h)
    BY <2>2, CreateAbstract DEF Promised!Next
  <2>3. CASE AssignRole(h)
    BY <2>3, AssignRoleAbstract DEF Promised!Next
  <2>4. CASE Begin(h)
    BY <2>4, BeginAbstract DEF Promised!Next
  <2>5. CASE Commit(h)
    BY <2>5, CommitAbstract DEF Promised!Next
  <2>6. CASE Cascade(h)
    BY <2>6, CascadeAbstract DEF Promised!Next
  <2>7. CASE \/ RequirePermission(h) \/ FindRow(h) \/ FindRole(h) \/ Delete(h)
             \/ DeleteRows(h) \/ (Insert(h) /\ ~Return(h)) \/ (LockRow(h) /\ ~Return(h))
    BY <2>7, QuietAbstract
  <2>8. CASE Insert(h)
    BY <2>1, <2>7, <2>8
  <2>9. CASE LockRow(h)
    BY <2>1, <2>7, <2>9
  <2>10. CASE Answer(h) \/ Abort(h) \/ UpdateRow(h)
    BY <2>1, <2>10
  <2>11. CASE RequirePermission(h) \/ FindRow(h) \/ FindRole(h) \/ Delete(h) \/ DeleteRows(h)
    BY <2>7, <2>11
  <2> QED BY <1>2, <2>2, <2>3, <2>4, <2>5, <2>6, <2>8, <2>9, <2>10, <2>11 DEF Step
<1> QED BY <1>1, <1>2 DEF Next

\* The statements of concurrent requests, with the locks and the READ COMMITTED
\* snapshots of PostgreSQL, change the links as Assignments says, for any numbers
\* of requests, users, roles and permissions and lists of any length.
THEOREM SpecImplements == Spec => Implements
BY InitAbstract, StepAbstract, SpecInv, PTL DEF Spec, Implements, Promised!Spec
=============================================================================
