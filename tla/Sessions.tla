------------------------------- MODULE Sessions -------------------------------
(***************************************************************************)
(* Accounts and refresh tokens (backend/src/modules/auth, users): sign-in, *)
(* refresh-token rotation with reuse detection, logout, and the updates an *)
(* administrator makes to accounts.                                        *)
(*                                                                         *)
(* Each call awaits the database between its read and its writes, so every *)
(* handler is a sequence of stages that other calls may come between.      *)
(***************************************************************************)
EXTENDS Naturals, FiniteSets

CONSTANTS
  User,         \* accounts that may exist
  Founder,      \* the seeded system administrators
  Token,        \* bound: refresh tokens that can be minted
  Request,      \* concurrent calls of the auth endpoints
  Updater,      \* concurrent PATCH /api/users/:id calls
  Patch,        \* bound: what these calls ask for
  MaxAbandons,  \* bound: calls that end at an arbitrary stage
  MaxUpdates,   \* bound: account updates
  NoUser, NoToken

Call == Request \cup Updater

ASSUME SessionsAssumption ==
  /\ Founder \subseteq User
  /\ MaxAbandons \in Nat /\ MaxUpdates \in Nat
  /\ Request \cap Updater = {}
  /\ NoUser \notin User /\ NoToken \notin Token

Role   == {"SYSTEM_ADMIN", "MEMBER"}   \* MEMBER: any of the other roles

\* What one PATCH asks of role and isActive, "kept" where it names neither; the
\* names of the person are left out.
Change == [role : Role \cup {"kept"}, isActive : {"yes", "no", "kept"}]
Kept   == [role |-> "kept", isActive |-> "kept"]

ASSUME PatchAssumption == Patch \subseteq Change \ {Kept}

VARIABLES
  account,   \* "none", "active" or "inactive" per user
  role,
  owner,     \* per token, NoUser until it is minted
  parent,    \* per token, the token it was exchanged for (NoToken after a login)
  revoked,   \* tokens with revokedAt set
  expired,   \* tokens past expiresAt
  stage, who, presented, \* per call: stage, account concerned, token presented
  change,    \* per updater: the fields to change
  ending,    \* updaters whose isDeactivating is true
  abandons, updates,        \* what is used up of the bounds
  raced,     \* history: tokens revoked by a rotation that found them revoked
  late,      \* history: tokens minted for an account that was inactive by then
  lapsed,    \* history: accounts deactivated by an update that had read them inactive
  behind,    \* history: updaters past their check, the administrators having
             \* changed since
  unseen     \* history: whether such an updater has taken an administrator away

accountVars == <<account, role>>
tokenVars   == <<owner, parent, revoked, expired>>
callVars    == <<stage, who, presented>>
updateVars  == <<change, ending>>
boundVars   == <<abandons, updates>>
historyVars == <<raced, late, lapsed, behind, unseen>>

vars == <<accountVars, tokenVars, callVars, updateVars, boundVars, historyVars>>

Stage == {"idle", "mint", "rotate", "revokeAll", "count", "commit"}

Minted       == {t \in Token : owner[t] # NoUser}
Live         == {t \in Minted : t \notin revoked \cup expired}
TokensOf(u)  == {t \in Token : owner[t] = u}
ActiveAdmins == {u \in User : account[u] = "active" /\ role[u] = "SYSTEM_ADMIN"}

Init ==
  /\ account = [u \in User |-> IF u \in Founder THEN "active" ELSE "none"]
  /\ role = [u \in User |-> IF u \in Founder THEN "SYSTEM_ADMIN" ELSE "MEMBER"]
  /\ owner = [t \in Token |-> NoUser]
  /\ parent = [t \in Token |-> NoToken]
  /\ revoked = {} /\ expired = {}
  /\ stage = [c \in Call |-> "idle"]
  /\ who = [c \in Call |-> NoUser]
  /\ presented = [c \in Call |-> NoToken]
  /\ change = [c \in Updater |-> Kept]
  /\ ending = {}
  /\ abandons = 0 /\ updates = 0
  /\ raced = {} /\ late = {} /\ lapsed = {}
  /\ behind = {} /\ unseen = FALSE

Begin(c, s, u, t) ==
  /\ stage[c] = "idle"
  /\ stage' = [stage EXCEPT ![c] = s]
  /\ who' = [who EXCEPT ![c] = u]
  /\ presented' = [presented EXCEPT ![c] = t]

Finish(c) ==
  /\ stage' = [stage EXCEPT ![c] = "idle"]
  /\ who' = [who EXCEPT ![c] = NoUser]
  /\ presented' = [presented EXCEPT ![c] = NoToken]

-----------------------------------------------------------------------------
(* auth.service.ts *)

\* register(): a READ_ONLY account, whatever role was asked for, then a session.
Register(c, u) ==
  /\ account[u] = "none"
  /\ updates < MaxUpdates
  /\ updates' = updates + 1
  /\ account' = [account EXCEPT ![u] = "active"]
  /\ role' = [role EXCEPT ![u] = "MEMBER"]
  /\ Begin(c, "mint", u, NoToken)
  /\ UNCHANGED <<tokenVars, updateVars, abandons, historyVars>>

\* login(): the right password of an account that is active now.
Login(c, u) ==
  /\ account[u] = "active"
  /\ Begin(c, "mint", u, NoToken)
  /\ UNCHANGED <<accountVars, tokenVars, updateVars, boundVars, historyVars>>

\* refresh() decides on the stored token it reads here. The account is not
\* asked whether it is still active.
Refresh(c, t) ==
  /\ t \in Minted \ expired
  /\ Begin(c, IF t \in revoked THEN "revokeAll" ELSE "rotate", owner[t], t)
  /\ UNCHANGED <<accountVars, tokenVars, updateVars, boundVars, historyVars>>

\* Mutation: the presented token is not revoked.
RotateWithoutRevoking(c) ==
  /\ stage[c] = "rotate"
  /\ stage' = [stage EXCEPT ![c] = "mint"]
  /\ UNCHANGED <<who, presented, accountVars, tokenVars, updateVars, boundVars,
                 historyVars>>

\* The update of revokedAt, by id, whatever happened to the token meanwhile.
Rotate(c) ==
  /\ stage[c] = "rotate"
  /\ revoked' = revoked \cup {presented[c]}
  /\ raced' = raced \cup ({presented[c]} \cap revoked)
  /\ stage' = [stage EXCEPT ![c] = "mint"]
  /\ UNCHANGED <<who, presented, accountVars, owner, parent, expired, updateVars,
                 boundVars, late, lapsed, behind, unseen>>

\* Mutation: the session is created once more, as by a retry whose first try landed.
MintAgain(c) ==
  /\ stage[c] = "mint"
  /\ \E t \in Token \ Minted :
       /\ owner' = [owner EXCEPT ![t] = who[c]]
       /\ parent' = [parent EXCEPT ![t] = presented[c]]
       /\ late' = late \cup {x \in {t} : account[who[c]] = "inactive"}
  /\ UNCHANGED <<accountVars, revoked, expired, callVars, updateVars, boundVars, raced,
                 lapsed, behind, unseen>>

\* createSession(): a fresh token, for the user as read at the start of the call.
Mint(c) ==
  /\ stage[c] = "mint"
  /\ \E t \in Token \ Minted :
       /\ owner' = [owner EXCEPT ![t] = who[c]]
       /\ parent' = [parent EXCEPT ![t] = presented[c]]
       /\ late' = late \cup {x \in {t} : account[who[c]] = "inactive"}
  /\ Finish(c)
  /\ UNCHANGED <<accountVars, revoked, expired, updateVars, boundVars, raced,
                 lapsed, behind, unseen>>

\* revokeAllForUser() after a reuse; REFRESH_TOKEN_REUSE_DETECTED and a 401 follow.
RevokeReused(c) ==
  /\ stage[c] = "revokeAll"
  /\ revoked' = revoked \cup TokensOf(who[c])
  /\ Finish(c)
  /\ UNCHANGED <<accountVars, owner, parent, expired, updateVars, boundVars,
                 historyVars>>

Logout(t) ==
  /\ t \in Minted \ revoked
  /\ revoked' = revoked \cup {t}
  /\ UNCHANGED <<accountVars, owner, parent, expired, callVars, updateVars,
                 boundVars, historyVars>>

LogoutAll(u) ==
  /\ account[u] # "none"
  /\ revoked' = revoked \cup TokensOf(u)
  /\ UNCHANGED <<accountVars, owner, parent, expired, callVars, updateVars,
                 boundVars, historyVars>>

Expire(t) ==
  /\ t \in Minted \ expired
  /\ expired' = expired \cup {t}
  /\ UNCHANGED <<accountVars, owner, parent, revoked, callVars, updateVars,
                 boundVars, historyVars>>

-----------------------------------------------------------------------------
(* users.service.ts *)

\* create() by an administrator: any role.
CreateUser(u, r) ==
  /\ account[u] = "none"
  /\ account' = [account EXCEPT ![u] = "active"]
  /\ role' = [role EXCEPT ![u] = r]
  /\ UNCHANGED <<tokenVars, callVars, updateVars, boundVars, historyVars>>

LosesAdmin(u, ch) ==
  role[u] = "SYSTEM_ADMIN" /\ (ch.role = "MEMBER" \/ ch.isActive = "no")

\* update() reads its target: the self checks, losesAdmin and isDeactivating are
\* all decided on this read. The actor's access token may be older than its role.
UpdateRead(c, actor, u, ch) ==
  /\ account[u] # "none" /\ account[actor] # "none"
  /\ actor = u => ch.role \in {"kept", role[u]} /\ ch.isActive # "no"
  /\ updates < MaxUpdates
  /\ updates' = updates + 1
  /\ Begin(c, IF LosesAdmin(u, ch) THEN "count" ELSE "commit", u, NoToken)
  /\ change' = [change EXCEPT ![c] = ch]
  /\ ending' = ending \cup {x \in {c} : ch.isActive = "no" /\ account[u] = "active"}
  /\ UNCHANGED <<accountVars, tokenVars, abandons, historyVars>>

EndUpdate(c) ==
  /\ change' = [change EXCEPT ![c] = Kept]
  /\ ending' = ending \ {c}
  /\ Finish(c)

\* Mutation: inactive administrators count as well.
CountAdminsOfAnyState(c) ==
  /\ stage[c] = "count"
  /\ \/ /\ \E u \in User \ {who[c]} : role[u] = "SYSTEM_ADMIN"
        /\ stage' = [stage EXCEPT ![c] = "commit"]
        /\ UNCHANGED <<who, presented, updateVars>>
     \/ /\ \A u \in User \ {who[c]} : role[u] # "SYSTEM_ADMIN"
        /\ EndUpdate(c)
  /\ UNCHANGED <<accountVars, tokenVars, boundVars, historyVars>>

\* Refused if no other active administrator remains.
CountAdmins(c) ==
  /\ stage[c] = "count"
  /\ \/ /\ ActiveAdmins \ {who[c]} # {}
        /\ stage' = [stage EXCEPT ![c] = "commit"]
        /\ UNCHANGED <<who, presented, updateVars>>
     \/ /\ ActiveAdmins \ {who[c]} = {}
        /\ EndUpdate(c)
  /\ UNCHANGED <<accountVars, tokenVars, boundVars, historyVars>>

\* Mutation: deactivation leaves the sessions alone.
CommitWithoutRevoking(c) ==
  LET u == who[c] IN
  /\ stage[c] = "commit"
  /\ account' = [account EXCEPT ![u] =
       CASE change[c].isActive = "no" -> "inactive"
         [] change[c].isActive = "yes" -> "active"
         [] OTHER -> @]
  /\ EndUpdate(c)
  /\ UNCHANGED <<role, tokenVars, boundVars, historyVars>>

\* The transaction: the row, and with isDeactivating its tokens. The audit row
\* and the ADMIN_ACTION event follow.
CommitUpdate(c) ==
  LET u == who[c]  ch == change[c] IN
  /\ stage[c] = "commit"
  /\ account' = [account EXCEPT ![u] = CASE ch.isActive = "no" -> "inactive"
                                         [] ch.isActive = "yes" -> "active"
                                         [] OTHER -> @]
  /\ role' = [role EXCEPT ![u] = IF ch.role = "kept" THEN @ ELSE ch.role]
  /\ revoked' = revoked \cup {t \in TokensOf(u) : c \in ending}
  /\ lapsed' = IF ch.isActive = "no" /\ account[u] # "inactive" /\ c \notin ending
               THEN lapsed \cup {u} ELSE lapsed \ {x \in {u} : c \in ending}
  /\ behind' = {d \in Updater \ {c} : \/ d \in behind
                                       \/ /\ stage[d] = "commit"
                                          /\ ActiveAdmins' # ActiveAdmins}
  /\ unseen' = (unseen \/ (c \in behind /\ ActiveAdmins \ ActiveAdmins' # {}))
  /\ EndUpdate(c)
  /\ UNCHANGED <<owner, parent, expired, boundVars, raced, late>>

\* The process dies, or an await rejects: nothing more of the call happens.
Abandon(c) ==
  /\ stage[c] # "idle"
  /\ abandons < MaxAbandons
  /\ abandons' = abandons + 1
  /\ change' = [d \in Updater |-> IF d = c THEN Kept ELSE change[d]]
  /\ ending' = ending \ {c} /\ behind' = behind \ {c}
  /\ Finish(c)
  /\ UNCHANGED <<accountVars, tokenVars, updates, raced, late, lapsed, unseen>>

-----------------------------------------------------------------------------

Next ==
  \/ \E c \in Request, u \in User : Register(c, u) \/ Login(c, u)
  \/ \E c \in Request, t \in Token : Refresh(c, t)
  \/ \E c \in Request : Rotate(c) \/ Mint(c) \/ RevokeReused(c)
  \/ \E t \in Token : Logout(t) \/ Expire(t)
  \/ \E u \in User : LogoutAll(u)
  \/ \E u \in User, r \in Role : CreateUser(u, r)
  \/ \E c \in Updater, a, u \in User, ch \in Patch : UpdateRead(c, a, u, ch)
  \/ \E c \in Updater : CountAdmins(c) \/ CommitUpdate(c)
  \/ \E c \in Call : Abandon(c)

Spec == Init /\ [][Next]_vars

-----------------------------------------------------------------------------
(* Properties *)

\* Accounts, tokens and calls stay within their types.
TypeOK ==
  /\ account \in [User -> {"none", "active", "inactive"}]
  /\ role \in [User -> Role]
  /\ owner \in [Token -> User \cup {NoUser}]
  /\ parent \in [Token -> Token \cup {NoToken}]
  /\ revoked \in SUBSET Token /\ expired \in SUBSET Token
  /\ stage \in [Call -> Stage]
  /\ who \in [Call -> User \cup {NoUser}]
  /\ \A c \in Call : stage[c] = "idle" <=> who[c] = NoUser
  /\ presented \in [Call -> Token \cup {NoToken}]
  /\ \A c \in Call : stage[c] \in {"rotate", "revokeAll"} => presented[c] \in Token
  /\ change \in [Updater -> Change]
  /\ ending \in SUBSET Updater
  /\ abandons \in Nat /\ updates \in Nat
  /\ raced \in SUBSET Token /\ late \in SUBSET Token
  /\ lapsed \in SUBSET User
  /\ behind \in SUBSET Updater /\ unseen \in BOOLEAN

Children(t) == {k \in Minted : parent[k] = t}
Minting(t)  == {c \in Request : stage[c] = "mint" /\ presented[c] = t}

\* A token is exchanged at most once, and reuse detection sees every second
\* presentation, unless two calls read it unrevoked: the rotation that comes
\* second overwrites a revocation without noticing.
OneExchange ==
  \A t \in Token \ raced :
    /\ \A k, m \in Children(t) : k = m
    /\ Children(t) # {} => Minting(t) = {}

\* A session is handed over, never copied: whatever crashes in between, a token
\* whose successor exists is revoked.
ExchangedIsRevoked == \A k \in Minted : parent[k] # NoToken => parent[k] \in revoked

\* Deactivating an account ends the sessions it has. What can be live afterwards
\* was minted by a call already past its read, or refreshed from such a session,
\* unless the update itself had read a stale account.
DeactivationEndsSessions ==
  \A u \in User \ lapsed : account[u] = "inactive" => TokensOf(u) \cap Live \subseteq late

\* An active administrator always remains, however account updates overlap, as
\* long as none takes an administrator away on a check made before the active
\* administrators last changed.
AdminRemains == Founder # {} /\ ~unseen => ActiveAdmins # {}

\* Successors that are due, of tokens handed in once.
Owed == {t \in Token \ raced : Minting(t) # {}}

Chain == INSTANCE SessionChain WITH owed <- Owed, shared <- raced

\* Sign-in, refresh, sign-out, reuse detection and deactivation together hand
\* sessions on as SessionChain has it: token by token within one account, wherever
\* calls overlap or end.
ImplementsChain == Chain!Spec

(* What makes OneExchange inductive *)

\* A token not yet revoked has no successor in the making either.
ExchangeInv ==
  \A t \in Token \ raced :
    /\ t \notin revoked => Children(t) = {} /\ Minting(t) = {}
    /\ \A k, m \in Children(t) : k = m
    /\ \A c, d \in Minting(t) : c = d
    /\ Children(t) = {} \/ Minting(t) = {}

HandoverInv ==
  /\ ExchangedIsRevoked
  /\ \A c \in Request : stage[c] = "mint" /\ presented[c] # NoToken
                          => presented[c] \in revoked

\* A call presents a token of the account it concerns; rotations overlap on tokens
\* that are revoked.
PresentedInv ==
  /\ raced \subseteq revoked /\ revoked \subseteq Minted
  /\ \A c \in Call : presented[c] # NoToken =>
       presented[c] \in Minted /\ owner[presented[c]] = who[c]

(* What the documentation claims and the code does not keep *)

\* "A deactivated user's existing session cannot refresh": no live token of an
\* inactive account is one that another token was exchanged for.
InactiveHasNoRefreshedSession ==
  \A t \in Live : account[owner[t]] = "inactive" => parent[t] = NoToken

\* "You cannot demote the last active SYSTEM_ADMIN": no update takes away the
\* only active administrator there is.
LastAdminStays == [][ActiveAdmins # {} => ActiveAdmins' # {}]_vars
=============================================================================
