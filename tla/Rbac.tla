-------------------------------- MODULE Rbac --------------------------------
(***************************************************************************)
(* The admin API (internal/modules/admin) and RequirePermission             *)
(* (middleware/rbac.go): users, roles, permissions and the links between    *)
(* them, changed by concurrent requests at READ COMMITTED.                  *)
(*                                                                          *)
(* An action is one SQL statement; a DELETE of several rows has one more,    *)
(* for its snapshot, and takes all of them when it can lock them all.  A    *)
(* statement that meets a row of an open transaction waits for it: its      *)
(* action is not enabled.                                                   *)
(***************************************************************************)
EXTENDS Naturals, Sequences

CONSTANTS
  Handlers,                   \* requests in progress at once
  Users, Roles, Permissions,  \* the ids there can be
  Nothing,                    \* no id
  MaxListed                   \* bound on the length of a request's list

ASSUME IdsAssumption ==
  /\ Users \cap Roles = {} /\ Users \cap Permissions = {} /\ Roles \cap Permissions = {}
  /\ Nothing \notin Users \cup Roles \cup Permissions
  /\ Users # {} /\ Roles # {} /\ Permissions # {}
  /\ MaxListed \in Nat

Entities == Users \cup Roles \cup Permissions

\* user_roles and role_permissions: <<owner, member>>.
Links == (Users \X Roles) \cup (Roles \X Permissions)
Of(owner) == {l \in Links : l[1] = owner}
Ends(l) == {l[1], l[2]}
Touching(e) == {l \in Links : e \in Ends(l)}

\* action and resource of a permission, as far as RequirePermission tells them
\* apart.
Columns == {"manage admin", "other"}

VARIABLES
  exist,   \* rows of users, roles and permissions
  unused,  \* ids that no row has had
  links,   \* rows of user_roles and role_permissions
  cols,    \* the columns of each permission
  req      \* what each handler is doing

tables == <<exist, unused, links, cols>>
vars == <<tables, req>>

\* target: the id the request is about.  A transaction: todo, the INSERTs left;
\* seen, the rows its DELETE has seen and not reached; gone and mine, the rows it
\* has deleted and inserted.  value: the columns UpdatePermission will write.
\* History: asked, the links the request asks for; touched, the links of the
\* target that others have written or removed since the DELETE began; source, where
\* value comes from: the request, or the row, which another update may have
\* changed since it was read.
Idle == [pc |-> "idle", target |-> Nothing, todo |-> <<>>, seen |-> {}, gone |-> {},
         mine |-> {}, value |-> "other", source |-> "request", asked |-> {}, touched |-> {}]

At(h, pc) == req[h].pc = pc
\* What the history of k records of these rows, written or removed by another.
Noticed(k, rows) == IF At(k, "replace") THEN rows \cap Of(req[k].target) ELSE {}

\* The request of h ends, having deleted and inserted these rows: an open DELETE
\* that has seen a deleted row skips it.
Finish(h, deleted, inserted) ==
  req' = [k \in Handlers |->
    IF k = h THEN Idle
    ELSE [req[k] EXCEPT
            !.seen = @ \ deleted,
            !.touched = @ \cup Noticed(k, deleted \cup inserted)]]
\* Mutant: without defer tx.Rollback.
ReturnHolding(h) == req' = [req EXCEPT ![h].pc = "idle", ![h].seen = {}, ![h].todo = <<>>]

\* It ends with no effect; an open transaction is rolled back.
Return(h) == Finish(h, {}, {})

-----------------------------------------------------------------------------
(* Locks.                                                                   *)

\* The transaction of a removal holds the row it will delete; one that inserts
\* links holds a share of the rows they refer to.
Removing(k, e) == At(k, "remove") /\ req[k].target = e
Sharing(k, e) == \E l \in req[k].mine : e \in Ends(l)

\* The row that the next INSERT of h adds, and whether it is there already.
Row(h) == <<req[h].target, Head(req[h].todo)>>
Present(h) == Row(h) \in (links \ req[h].gone) \cup req[h].mine

\* The statement of h waits for the transaction of k.  That an UPDATE of a row
\* whose UNIQUE name changes also waits for holders of a share of the row is left
\* out, which only allows more.
Waits(h, k) ==
  /\ k # h
  /\ \/ req[h].seen \cap req[k].gone # {}
     \/ /\ req[h].seen = {} /\ req[h].todo # <<>>
        /\ \/ Row(h) \in req[k].gone \cup req[k].mine
           \/ ~Present(h) /\ \E e \in Ends(Row(h)) : Removing(k, e)
     \/ At(h, "lock") /\ (Removing(k, req[h].target) \/ Sharing(k, req[h].target))
     \/ At(h, "update") /\ Removing(k, req[h].target)
Free(h) == \A k \in Handlers : ~Waits(h, k)

\* The lists of role_ids or permission_ids a request can carry.
Lists(owner) ==
  LET members == (IF owner \in Users THEN Roles ELSE Permissions) \ unused
  IN UNION {[1..n -> members] : n \in 0..MaxListed}

Init ==
  /\ LET u == CHOOSE u \in Users : TRUE
         r == CHOOSE r \in Roles : TRUE
         p == CHOOSE p \in Permissions : TRUE
     IN /\ exist = {u, r, p} /\ unused = Entities \ {u, r, p}
        /\ links = {<<u, r>>, <<r, p>>}
  /\ cols = [p \in Permissions |-> "manage admin"]
  /\ req = [h \in Handlers |-> Idle]

-----------------------------------------------------------------------------
(* RequirePermission, and requests that change one row.                     *)

\* The join of user_roles, role_permissions and permissions.
CanManage(u) ==
  \E r \in Roles, p \in Permissions :
    <<u, r>> \in links /\ <<r, p>> \in links /\ cols[p] = "manage admin"

\* A request passes the check; which one it is shows when it acts.
RequirePermission(h) ==
  /\ At(h, "idle")
  /\ \E u \in Users : CanManage(u)
  /\ req' = [req EXCEPT ![h].pc = "handler"]
  /\ UNCHANGED tables

\* CreateRole, CreatePermission.
CreateRow(h) ==
  /\ At(h, "handler")
  /\ \E e \in unused \ Users, c \in Columns :
       /\ exist' = exist \cup {e} /\ unused' = unused \ {e}
       /\ cols' = IF e \in Permissions THEN [cols EXCEPT ![e] = c] ELSE cols
  /\ Return(h)
  /\ UNCHANGED links

\* CreateUser: the INSERT of the user; its roles follow, each on its own.
CreateUser(h) ==
  /\ At(h, "handler")
  /\ \E u \in unused \cap Users : \E list \in Lists(u) :
       /\ exist' = exist \cup {u} /\ unused' = unused \ {u}
       /\ req' = [req EXCEPT ![h].pc = "assign", ![h].target = u, ![h].todo = list]
  /\ UNCHANGED <<links, cols>>

\* AssignRole: ON CONFLICT DO NOTHING, and its error is ignored.
AssignRole(h) ==
  LET row == Row(h)
      ok == ~Present(h) /\ Ends(row) \subseteq exist
      added == IF ok THEN {row} ELSE {}
  IN
  /\ At(h, "assign") /\ req[h].todo # <<>> /\ Free(h)
  /\ \/ /\ links' = links \cup added
        /\ req' = [k \in Handlers |->
             IF k = h THEN [req[h] EXCEPT !.todo = Tail(@)]
             ELSE [req[k] EXCEPT !.touched = @ \cup Noticed(k, added)]]
     \/ UNCHANGED links /\ req' = [req EXCEPT ![h].todo = Tail(@)]
  /\ UNCHANGED <<exist, unused, cols>>

Answer(h) ==
  /\ At(h, "assign") /\ req[h].todo = <<>>
  /\ Return(h)
  /\ UNCHANGED tables

\* Mutant: a column that is not given is emptied.
FindRowEmptied(h) ==
  /\ At(h, "handler")
  /\ \E p \in Permissions \cap exist, value \in Columns, source \in {"request", "row"} :
       /\ source = "row" => value = "other"
       /\ req' = [req EXCEPT ![h].pc = "update", ![h].target = p,
                             ![h].value = value, ![h].source = source]
  /\ UNCHANGED tables

\* UpdatePermission: all columns of the row are read, and written back with the
\* ones given in the request replaced; these can be any.
FindRow(h) ==
  /\ At(h, "handler")
  /\ \E p \in Permissions \cap exist, value \in Columns, source \in {"request", "row"} :
       /\ source = "row" => value = cols[p]
       /\ req' = [req EXCEPT ![h].pc = "update", ![h].target = p,
                             ![h].value = value, ![h].source = source]
  /\ UNCHANGED tables

\* UpdateRole does the same with columns that nothing here depends on.
FindRole(h) ==
  /\ At(h, "handler")
  /\ \E r \in Roles \cap exist :
       req' = [req EXCEPT ![h].pc = "update", ![h].target = r]
  /\ UNCHANGED tables

\* h writes the row between the SELECT and the UPDATE of k.
Overtakes(h, k) ==
  At(k, "update") /\ req[k].target = req[h].target /\ req[k].source = "row"

\* The UPDATE; if the row has been deleted it changes nothing, and the reply is 200.
UpdateRow(h) ==
  /\ At(h, "update") /\ Free(h)
  /\ cols' = IF req[h].target \in Permissions \cap exist THEN [cols EXCEPT ![req[h].target] = req[h].value]
             ELSE cols
  /\ req' = [k \in Handlers |->
       IF k = h THEN Idle
       ELSE IF Overtakes(h, k) THEN [req[k] EXCEPT !.source = "stale"] ELSE req[k]]
  /\ UNCHANGED <<exist, unused, links>>

-----------------------------------------------------------------------------
(* SetRoles of a user and AssignPermissions of a role.                      *)

\* Mutant: the DELETE runs outside the transaction (r.db.Exec for tx.Exec).
BeginOutside(h) ==
  /\ At(h, "handler")
  /\ \E owner \in (Users \cup Roles) \ unused : \E list \in Lists(owner) :
       /\ links' = links \ Of(owner)
       /\ req' = [req EXCEPT ![h] = [Idle EXCEPT
            !.pc = "replace", !.target = owner, !.todo = list,
            !.asked = {<<owner, list[i]>> : i \in DOMAIN list}]]
  /\ UNCHANGED <<exist, unused, cols>>

\* BEGIN, and the DELETE takes its snapshot.
Begin(h) ==
  /\ At(h, "handler")
  /\ \E owner \in (Users \cup Roles) \ unused : \E list \in Lists(owner) :
       req' = [req EXCEPT ![h] = [Idle EXCEPT
         !.pc = "replace", !.target = owner, !.todo = list,
         !.seen = links \cap Of(owner),
         !.asked = {<<owner, list[i]>> : i \in DOMAIN list}]]
  /\ UNCHANGED tables

\* The DELETE takes the rows it has seen.
DeleteRows(h) ==
  /\ req[h].seen # {} /\ Free(h)
  /\ req' = [req EXCEPT ![h].seen = {}, ![h].gone = req[h].seen]
  /\ UNCHANGED tables

\* Mutant: an INSERT that fails commits what has been done (defer tx.Commit).
InsertCommitting(h) ==
  LET row == Row(h)
      skip == Present(h) /\ req[h].target \in Roles
      ok == ~Present(h) /\ Ends(row) \subseteq exist
  IN
  /\ At(h, "replace") /\ req[h].seen = {} /\ req[h].todo # <<>> /\ Free(h)
  /\ \/ skip /\ req' = [req EXCEPT ![h].todo = Tail(@)] /\ UNCHANGED links
     \/ /\ ok /\ req' = [req EXCEPT ![h].todo = Tail(@), ![h].mine = @ \cup {row}]
        /\ UNCHANGED links
     \/ /\ ~skip /\ ~ok /\ links' = (links \ req[h].gone) \cup req[h].mine
        /\ Finish(h, req[h].gone, req[h].mine)
  /\ UNCHANGED <<exist, unused, cols>>

\* A row that is there already is an error in SetRoles, and is skipped by
\* AssignPermissions; a role or permission that is not is an error in both.
Insert(h) ==
  LET row == Row(h)
      skip == Present(h) /\ req[h].target \in Roles
      ok == ~Present(h) /\ Ends(row) \subseteq exist
  IN
  /\ At(h, "replace") /\ req[h].seen = {} /\ req[h].todo # <<>> /\ Free(h)
  /\ \/ skip /\ req' = [req EXCEPT ![h].todo = Tail(@)]
     \/ ok /\ req' = [req EXCEPT ![h].todo = Tail(@), ![h].mine = @ \cup {row}]
     \/ ~skip /\ ~ok /\ Return(h)
  /\ UNCHANGED tables

Commit(h) ==
  /\ At(h, "replace") /\ req[h].seen = {} /\ req[h].todo = <<>>
  /\ links' = (links \ req[h].gone) \cup req[h].mine
  /\ Finish(h, req[h].gone, req[h].mine)
  /\ UNCHANGED <<exist, unused, cols>>

-----------------------------------------------------------------------------
(* DeleteRole and DeletePermission: one DELETE that cascades to the links.  *)

Delete(h) ==
  /\ At(h, "handler")
  /\ \E e \in (Roles \cup Permissions) \ unused :
       req' = [req EXCEPT ![h].pc = "lock", ![h].target = e]
  /\ UNCHANGED tables

\* It takes the row, then the links; if there is no row there is nothing to do.
LockRow(h) ==
  /\ At(h, "lock") /\ Free(h)
  /\ IF req[h].target \in exist
     THEN req' = [req EXCEPT ![h].pc = "remove", ![h].seen = links \cap Touching(req[h].target)]
     ELSE Return(h)
  /\ UNCHANGED tables

Cascade(h) ==
  /\ At(h, "remove") /\ req[h].seen = {}
  /\ exist' = exist \ {req[h].target}
  /\ links' = links \ req[h].gone
  /\ Finish(h, req[h].gone, {})
  /\ UNCHANGED <<unused, cols>>

-----------------------------------------------------------------------------
\* A reply without a change, an error, a canceled context, a crash, or the choice
\* of PostgreSQL among transactions that wait for each other.  The locks that
\* PostgreSQL keeps until it notices that a client is gone are those of a request
\* that has not taken this step yet.
Abort(h) ==
  /\ ~At(h, "idle")
  /\ Return(h)
  /\ UNCHANGED tables

Step(h) ==
  \/ CreateRow(h) \/ CreateUser(h) \/ AssignRole(h) \/ Answer(h)
  \/ FindRow(h) \/ FindRole(h) \/ UpdateRow(h)
  \/ Begin(h) \/ DeleteRows(h) \/ Insert(h) \/ Commit(h)
  \/ Delete(h) \/ LockRow(h) \/ Cascade(h) \/ Abort(h)

Next == \E h \in Handlers : RequirePermission(h) \/ Step(h)

Spec == Init /\ [][Next]_vars
-----------------------------------------------------------------------------
(* Properties.                                                              *)

PCs == {"idle", "handler", "assign", "update", "replace", "lock", "remove"}
Sources == {"request", "row", "stale"}
Requests == [pc: PCs, target: Entities \cup {Nothing}, todo: Seq(Roles \cup Permissions),
             seen: SUBSET Links, gone: SUBSET Links, mine: SUBSET Links,
             value: Columns, source: Sources, asked: SUBSET Links, touched: SUBSET Links]

TypeOK ==
  /\ exist \subseteq Entities /\ unused \subseteq Entities
  /\ exist \cap unused = {}
  /\ links \subseteq Links
  /\ cols \in [Permissions -> Columns]
  /\ req \in [Handlers -> Requests]

\* The replacements in progress.
Pending == [h \in Handlers |->
  IF At(h, "replace")
  THEN [owner |-> req[h].target, asked |-> req[h].asked, touched |-> req[h].touched]
  ELSE [owner |-> Nothing, asked |-> {}, touched |-> {}]]

Promised == INSTANCE Assignments WITH
  Clients <- Handlers, assigned <- links, pending <- Pending

\* Links change as Assignments says: SetRoles and AssignPermissions take effect at
\* their commit, for all of their list at once, a role that is kept is never
\* missing in between, and a failing request changes nothing.  What they leave
\* differs from the list only by links that overlapping requests have written or
\* removed (two SetRoles at once can leave the roles of both), and no link
\* outlives its role or permission.
Implements == Promised!Spec

\* The ways to the admin API: a user, one of its roles, and a permission of the
\* role that RequirePermission accepts.
Access == {a \in Users \X Roles \X Permissions :
             /\ <<a[1], a[2]>> \in links /\ <<a[2], a[3]>> \in links
             /\ cols[a[3]] = "manage admin"}

\* What request h is about takes the way a away: a list without a link of it, the
\* deletion of its role or permission, or other columns for the permission.
TakesAway(h, a) ==
  \/ /\ At(h, "replace")
     /\ \E l \in {<<a[1], a[2]>>, <<a[2], a[3]>>} :
          l \in Of(req[h].target) /\ l \notin req[h].asked
  \/ At(h, "remove") /\ req[h].target \in {a[2], a[3]}
  \/ At(h, "update") /\ req[h].target = a[3] /\ req[h].value # "manage admin"

\* Access to the admin API, which nothing gives back when the last of it is gone,
\* is never lost by accident: not by a replacement that has emptied a list and then
\* fails, nor by two that overlap and keep the same role.  It goes only in the step
\* that ends a request which says so.  (Nothing keeps the last administrator from
\* sending that request.)
AccessTakenOnPurpose ==
  [][\A a \in Access \ Access' :
       \E h \in Handlers : TakesAway(h, a) /\ req'[h].pc = "idle"]_vars

\* The action and resource of a permission change only by a request that gives
\* them, or one that another update has overtaken between its SELECT and its UPDATE:
\* UpdatePermission then writes back what it has read and so undoes the other one,
\* although both are answered with 200.
AskedFor(h, p) ==
  /\ At(h, "update") /\ req[h].target = p
  /\ req[h].source \in {"request", "stale"}
OnlyAskedFor ==
  [][\A p \in Permissions :
       (p \in exist /\ cols'[p] # cols[p]) => \E h \in Handlers : AskedFor(h, p)]_vars

\* No request waits for one that has ended: whatever way a transaction ends, it
\* leaves no lock behind.
WaitsForRunning ==
  \A h, k \in Handlers : Waits(h, k) => ~At(k, "idle")
=============================================================================
