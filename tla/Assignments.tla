---------------------------- MODULE Assignments ----------------------------
(***************************************************************************)
(* What the admin API promises about roles of users and permissions of      *)
(* roles: a link <<owner, member>> says that a user has a role or a role a  *)
(* permission.  Replacing an owner's links takes effect at once, when it is *)
(* committed.  It leaves what was asked for, except for links that other    *)
(* requests have written or removed since it began.                         *)
(***************************************************************************)
CONSTANTS Clients, Users, Roles, Permissions, Nothing

VARIABLES
  exist,     \* the users, roles and permissions there are
  assigned,  \* the links
  pending    \* the replacement each client has begun

vars == <<exist, assigned, pending>>

Entities == Users \cup Roles \cup Permissions
Links == (Users \X Roles) \cup (Roles \X Permissions)
Of(owner) == {l \in Links : l[1] = owner}
Ends(l) == {l[1], l[2]}
Touching(e) == {l \in Links : e \in Ends(l)}

\* touched: the owner's links that others have written or removed since then.
None == [owner |-> Nothing, asked |-> {}, touched |-> {}]

\* Client c is done; the replacements of the others notice the changed links.
Done(c, changed) ==
  pending' = [d \in Clients |->
    IF d = c THEN None
    ELSE [pending[d] EXCEPT !.touched = @ \cup (changed \cap Of(pending[d].owner))]]

Init ==
  /\ exist \in SUBSET Entities /\ assigned \in SUBSET Links
  /\ pending = [c \in Clients |-> None]

Begin(c) ==
  /\ pending[c] = None
  /\ \E owner \in Users \cup Roles : \E asked \in SUBSET Of(owner) :
       pending' = [pending EXCEPT ![c] = [owner |-> owner, asked |-> asked, touched |-> {}]]
  /\ UNCHANGED <<exist, assigned>>

\* kept: links that others have added in the meantime; new: what this request
\* adds.  A user gets every role asked for; a permission that another request
\* has assigned in the meantime is left to that one.
Replace(c) ==
  LET owner == pending[c].owner
      asked == pending[c].asked
      touched == pending[c].touched
      before == assigned \cap Of(owner)
  IN
  /\ owner # Nothing
  /\ \E kept \in SUBSET (before \cap touched), new \in SUBSET asked :
       /\ asked \ new \subseteq touched
       /\ owner \in Users => new = asked
       /\ \A l \in new : Ends(l) \subseteq exist
       /\ assigned' = (assigned \ (before \ kept)) \cup new
       /\ Done(c, (before \ kept) \cup new)
  /\ UNCHANGED exist

\* The request failed, and has changed nothing.
Abandon(c) ==
  /\ pending[c] # None
  /\ Done(c, {})
  /\ UNCHANGED <<exist, assigned>>

\* A new user, role or permission; the roles of a new user come one by one.
Create(c) ==
  /\ pending[c] = None
  /\ \E e \in Entities : exist' = exist \cup {e}
  /\ UNCHANGED <<assigned, pending>>
Add(c) ==
  /\ pending[c] = None
  /\ \E l \in Links : /\ Ends(l) \subseteq exist
                       /\ assigned' = assigned \cup {l} /\ Done(c, {l})
  /\ UNCHANGED exist

\* A role or permission goes together with its links.
Remove(c) ==
  /\ pending[c] = None
  /\ \E e \in Roles \cup Permissions :
       /\ exist' = exist \ {e}
       /\ assigned' = assigned \ Touching(e)
       /\ Done(c, assigned \cap Touching(e))

Next == \E c \in Clients :
  Begin(c) \/ Replace(c) \/ Abandon(c) \/ Create(c) \/ Add(c) \/ Remove(c)

Spec == Init /\ [][Next]_vars
=============================================================================
