----------------------------- MODULE TokenLedger -----------------------------
(***************************************************************************)
(* What AuthService (internal/modules/auth/service/auth_service.go) promises *)
(* the holders of refresh tokens, whatever the tables and the interleaving   *)
(* of requests: a token is asked for once, with nothing or with an older     *)
(* token of the same user; it is handed out at most once; a token that can   *)
(* no longer be redeemed never can be again; what happens in one step        *)
(* concerns one user.  If the exchange of tokens is reliable (Rotates), a    *)
(* token is handed out only when the one it was exchanged for is useless.    *)
(* Two requests may exchange the same token: Ask may repeat for one parent.  *)
(***************************************************************************)
CONSTANTS Tokens, Users, NoUser, NoToken, Rotates

VARIABLES
  state,   \* of each token: "new" until it is handed out, "usable", "dead"
  owner,   \* the user a token was asked for
  parent   \* the token it was asked with

vars == <<state, owner, parent>>

Init ==
  /\ state = [t \in Tokens |-> "new"]
  /\ owner = [t \in Tokens |-> NoUser]
  /\ parent = [t \in Tokens |-> NoToken]

\* The tokens that user u can redeem.
Usable(u) == {t \in Tokens : state[t] = "usable" /\ owner[t] = u}

\* Token t is asked for by u, with the password or with p.
Ask(t, u, p) ==
  /\ owner[t] = NoUser
  /\ p # NoToken => p \in Tokens /\ state[p] # "new" /\ owner[p] = u
  /\ owner' = [owner EXCEPT ![t] = u]
  /\ parent' = [parent EXCEPT ![t] = p]
  /\ UNCHANGED state

\* The tokens in gone become useless.
Without(gone) == [t \in Tokens |-> IF t \in gone THEN "dead" ELSE state[t]]

\* Tokens of u are revoked, or expire.
Revoke(u) ==
  /\ \E gone \in SUBSET Usable(u) : state' = Without(gone)
  /\ UNCHANGED <<owner, parent>>

\* Token t is handed out to u, and others of u are revoked.  It may be useless
\* already (s is then "dead"): expired, or revoked by an overlapping request.
HandOut(t, u) ==
  /\ state[t] = "new" /\ owner[t] = u
  /\ \E gone \in SUBSET Usable(u), s \in {"usable", "dead"} :
       state' = [Without(gone) EXCEPT ![t] = s]
  /\ Rotates /\ parent[t] # NoToken => state'[parent[t]] = "dead"
  /\ UNCHANGED <<owner, parent>>

Next ==
  \/ \E t \in Tokens, u \in Users, p \in Tokens \cup {NoToken} : Ask(t, u, p)
  \/ \E u \in Users : Revoke(u)
  \/ \E t \in Tokens, u \in Users : HandOut(t, u)

Spec == Init /\ [][Next]_vars
=============================================================================
