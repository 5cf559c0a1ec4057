----------------------------- MODULE SessionChain -----------------------------
(***************************************************************************)
(* What rotation promises of refresh tokens, without calls and stages: a   *)
(* session is a chain of tokens of one account, each handed in once for    *)
(* the next, of which only the last can be good.                           *)
(*                                                                         *)
(* "shared" is the one way out of the promise: refresh() hands in a token  *)
(* by id, also one that was revoked since it was read.                     *)
(***************************************************************************)
CONSTANTS User, Token, NoUser, NoToken

VARIABLES
  owner,    \* per token, NoUser until there is one
  parent,   \* per token, the one it was handed out for, NoToken after a sign-in
  revoked,
  owed,     \* tokens handed in, for which the next one is still due
  shared    \* tokens handed in after they were revoked

vars == <<owner, parent, revoked, owed, shared>>

Issued == {t \in Token : owner[t] # NoUser}

Init ==
  /\ owner = [t \in Token |-> NoUser]
  /\ parent = [t \in Token |-> NoToken]
  /\ revoked = {} /\ owed = {} /\ shared = {}

Issue(t, u, p) ==
  /\ t \notin Issued
  /\ owner' = [owner EXCEPT ![t] = u]
  /\ parent' = [parent EXCEPT ![t] = p]
  /\ UNCHANGED <<revoked, shared>>

SignIn(t, u) == Issue(t, u, NoToken) /\ UNCHANGED owed

HandIn(t) ==
  /\ t \in Issued \ revoked
  /\ revoked' = revoked \cup {t}
  /\ owed' = owed \cup {t}
  /\ UNCHANGED <<owner, parent, shared>>

\* The next token, of the same account.
HandOut(k, t) ==
  /\ t \in owed
  /\ Issue(k, owner[t], t)
  /\ owed' = owed \ {t}

\* It never comes: the session is lost.
Lose(t) ==
  /\ t \in owed
  /\ owed' = owed \ {t}
  /\ UNCHANGED <<owner, parent, revoked, shared>>

End(gone) ==
  /\ revoked' = revoked \cup gone
  /\ UNCHANGED <<owner, parent, owed, shared>>

SignOut(t)    == t \in Issued /\ End({t})
SignOutAll(u) == End({t \in Token : owner[t] = u})

Share(t) ==
  /\ t \in Issued \cap revoked
  /\ shared' = shared \cup {t}
  /\ owed' = owed \ {t}
  /\ UNCHANGED <<owner, parent, revoked>>

HandOutShared(k, t) == t \in shared /\ Issue(k, owner[t], t) /\ UNCHANGED owed

Next ==
  \/ \E t \in Token, u \in User : SignIn(t, u)
  \/ \E t \in Token : HandIn(t) \/ Lose(t) \/ Share(t) \/ SignOut(t)
  \/ \E k, t \in Token : HandOut(k, t) \/ HandOutShared(k, t)
  \/ \E u \in User : SignOutAll(u)

Spec == Init /\ [][Next]_vars

-----------------------------------------------------------------------------
(* What follows from it *)

Successors(t) == {k \in Issued : parent[k] = t}

\* A good token is the last of its chain, and a chain has no branches.
OneGood ==
  \A t \in Token :
    /\ t \notin revoked => Successors(t) = {} /\ t \notin owed
    /\ t \notin shared => \A k, m \in Successors(t) : k = m

\* A session never changes hands.
OneOwner ==
  \A k \in Issued : parent[k] # NoToken =>
    parent[k] \in Issued /\ owner[parent[k]] = owner[k]

\* Every chain begins with a sign-in: no tokens follow from each other in a circle.
FromSignIn ==
  \A chain \in SUBSET Issued : chain # {} => \E t \in chain : parent[t] \notin chain

\* What makes them inductive.
ChainInv ==
  /\ owner \in [Token -> User \cup {NoUser}]
  /\ parent \in [Token -> Token \cup {NoToken}]
  /\ owed \cup shared \subseteq revoked /\ revoked \subseteq Issued
  /\ owed \cap shared = {}
  /\ \A t \in owed : Successors(t) = {}
  /\ OneGood /\ OneOwner /\ FromSignIn
=============================================================================
