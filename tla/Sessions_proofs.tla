--------------------------- MODULE Sessions_proofs ---------------------------
(***************************************************************************)
(* Proofs about Sessions, for any set of users, tokens and calls, and about *)
(* ClientSession, which is built on it, for any set of pages and callers.   *)
(***************************************************************************)
EXTENDS ClientSession, TLAPS

USE DEF accountVars, tokenVars, callVars, updateVars, boundVars, historyVars

-----------------------------------------------------------------------------
(* Type correctness *)

LEMMA TypeStep ==
  ASSUME TypeOK, [Next]_vars
  PROVE  TypeOK'
<1> USE SessionsAssumption
<1> USE DEF TypeOK, Role, Change, Kept, Stage, Call
<1>1. ASSUME NEW c \in Request, NEW u \in User, Register(c, u) PROVE TypeOK'
  BY <1>1 DEF Register, Begin
<1>2. ASSUME NEW c \in Request, NEW u \in User, Login(c, u) PROVE TypeOK'
  BY <1>2 DEF Login, Begin
<1>3. ASSUME NEW c \in Request, NEW t \in Token, Refresh(c, t) PROVE TypeOK'
  BY <1>3 DEF Refresh, Begin, Minted
<1>4. ASSUME NEW c \in Request, Rotate(c) PROVE TypeOK'
  BY <1>4 DEF Rotate
<1>5. ASSUME NEW c \in Request, Mint(c) PROVE TypeOK'
  BY <1>5 DEF Mint, Finish, Minted
<1>6. ASSUME NEW c \in Request, RevokeReused(c) PROVE TypeOK'
  BY <1>6 DEF RevokeReused, Finish, TokensOf
<1>7. ASSUME NEW t \in Token, Logout(t) PROVE TypeOK'
  BY <1>7 DEF Logout
<1>8. ASSUME NEW t \in Token, Expire(t) PROVE TypeOK'
  BY <1>8 DEF Expire
<1>9. ASSUME NEW u \in User, LogoutAll(u) PROVE TypeOK'
  BY <1>9 DEF LogoutAll, TokensOf
<1>10. ASSUME NEW u \in User, NEW r \in Role, CreateUser(u, r) PROVE TypeOK'
  BY <1>10 DEF CreateUser
<1>11. ASSUME NEW c \in Updater, NEW a \in User, NEW u \in User, NEW ch \in Change,
            UpdateRead(c, a, u, ch) PROVE TypeOK'
  BY <1>11 DEF UpdateRead, Begin
<1>12. ASSUME NEW c \in Updater, CountAdmins(c) PROVE TypeOK'
  BY <1>12 DEF CountAdmins, EndUpdate, Kept, Finish
<1>13. ASSUME NEW c \in Updater, CommitUpdate(c) PROVE TypeOK'
  BY <1>13 DEF CommitUpdate, EndUpdate, Kept, Finish, TokensOf
<1>14. ASSUME NEW c \in Call, Abandon(c) PROVE TypeOK'
  BY <1>14 DEF Abandon, Kept, Finish
<1>15. CASE UNCHANGED vars
  BY <1>15 DEF vars
<1> HIDE DEF TypeOK, Role, Change, Kept, Stage, Call
<1> QED
  BY <1>1, <1>2, <1>3, <1>4, <1>5, <1>6, <1>7, <1>8, <1>9, <1>10, <1>11,
     <1>12, <1>13, <1>14, <1>15, PatchAssumption DEF Next

LEMMA InitTyped == Init => TypeOK
<1> SUFFICES ASSUME Init PROVE TypeOK
  OBVIOUS
<1> QED
  BY SessionsAssumption DEF Init, TypeOK, Role, Change, Kept, Stage, Call

\* Accounts, tokens and calls stay within their types, whatever the handlers of
\* auth.service.ts and users.service.ts do together.
THEOREM TypeCorrect == Spec => []TypeOK
<1>1. Init => TypeOK
  BY InitTyped
<1> QED
  BY <1>1, TypeStep, PTL DEF Spec

-----------------------------------------------------------------------------
(* Rotation *)

LEMMA HandoverStep ==
  ASSUME TypeOK, HandoverInv, [Next]_vars
  PROVE  HandoverInv'
<1> USE SessionsAssumption
<1> USE DEF TypeOK, Role, Change, Kept, Stage, Call, HandoverInv, ExchangedIsRevoked, Minted
<1>1. ASSUME NEW c \in Request, NEW u \in User, Register(c, u) PROVE HandoverInv'
  BY <1>1 DEF Register, Begin
<1>2. ASSUME NEW c \in Request, NEW u \in User, Login(c, u) PROVE HandoverInv'
  BY <1>2 DEF Login, Begin
<1>3. ASSUME NEW c \in Request, NEW t \in Token, Refresh(c, t) PROVE HandoverInv'
  BY <1>3 DEF Refresh, Begin, Minted
<1>4. ASSUME NEW c \in Request, Rotate(c) PROVE HandoverInv'
  BY <1>4 DEF Rotate
<1>5. ASSUME NEW c \in Request, Mint(c) PROVE HandoverInv'
  BY <1>5 DEF Mint, Finish, Minted
<1>6. ASSUME NEW c \in Request, RevokeReused(c) PROVE HandoverInv'
  BY <1>6 DEF RevokeReused, Finish, TokensOf
<1>7. ASSUME NEW t \in Token, Logout(t) PROVE HandoverInv'
  BY <1>7 DEF Logout
<1>8. ASSUME NEW t \in Token, Expire(t) PROVE HandoverInv'
  BY <1>8 DEF Expire
<1>9. ASSUME NEW u \in User, LogoutAll(u) PROVE HandoverInv'
  BY <1>9 DEF LogoutAll, TokensOf
<1>10. ASSUME NEW u \in User, NEW r \in Role, CreateUser(u, r) PROVE HandoverInv'
  BY <1>10 DEF CreateUser
<1>11. ASSUME NEW c \in Updater, NEW a \in User, NEW u \in User, NEW ch \in Change,
            UpdateRead(c, a, u, ch) PROVE HandoverInv'
  BY <1>11 DEF UpdateRead, Begin
<1>12. ASSUME NEW c \in Updater, CountAdmins(c) PROVE HandoverInv'
  BY <1>12 DEF CountAdmins, EndUpdate, Kept, Finish
<1>13. ASSUME NEW c \in Updater, CommitUpdate(c) PROVE HandoverInv'
  BY <1>13 DEF CommitUpdate, EndUpdate, Kept, Finish, TokensOf
<1>14. ASSUME NEW c \in Call, Abandon(c) PROVE HandoverInv'
  BY <1>14 DEF Abandon, Kept, Finish
<1>15. CASE UNCHANGED vars
  BY <1>15 DEF vars
<1> HIDE DEF TypeOK, Role, Change, Kept, Stage, Call, HandoverInv, ExchangedIsRevoked, Minted
<1> QED
  BY <1>1, <1>2, <1>3, <1>4, <1>5, <1>6, <1>7, <1>8, <1>9, <1>10, <1>11,
     <1>12, <1>13, <1>14, <1>15, PatchAssumption DEF Next

LEMMA ExchangeStep ==
  ASSUME TypeOK, HandoverInv, ExchangeInv, [Next]_vars
  PROVE  ExchangeInv'
<1> USE SessionsAssumption
<1> USE DEF TypeOK, Role, Change, Kept, Stage, Call, ExchangeInv, HandoverInv, Children, Minting, Minted
<1>1. ASSUME NEW c \in Request, NEW u \in User, Register(c, u) PROVE ExchangeInv'
  BY <1>1 DEF Register, Begin
<1>2. ASSUME NEW c \in Request, NEW u \in User, Login(c, u) PROVE ExchangeInv'
  BY <1>2 DEF Login, Begin
<1>3. ASSUME NEW c \in Request, NEW t \in Token, Refresh(c, t) PROVE ExchangeInv'
  BY <1>3 DEF Refresh, Begin, Minted
<1>4. ASSUME NEW c \in Request, Rotate(c) PROVE ExchangeInv'
  BY <1>4 DEF Rotate
<1>5. ASSUME NEW c \in Request, Mint(c) PROVE ExchangeInv'
  BY <1>5 DEF Mint, Finish, Minted
<1>6. ASSUME NEW c \in Request, RevokeReused(c) PROVE ExchangeInv'
  BY <1>6 DEF RevokeReused, Finish, TokensOf
<1>7. ASSUME NEW t \in Token, Logout(t) PROVE ExchangeInv'
  BY <1>7 DEF Logout
<1>8. ASSUME NEW t \in Token, Expire(t) PROVE ExchangeInv'
  BY <1>8 DEF Expire
<1>9. ASSUME NEW u \in User, LogoutAll(u) PROVE ExchangeInv'
  BY <1>9 DEF LogoutAll, TokensOf
<1>10. ASSUME NEW u \in User, NEW r \in Role, CreateUser(u, r) PROVE ExchangeInv'
  BY <1>10 DEF CreateUser
<1>11. ASSUME NEW c \in Updater, NEW a \in User, NEW u \in User, NEW ch \in Change,
            UpdateRead(c, a, u, ch) PROVE ExchangeInv'
  BY <1>11 DEF UpdateRead, Begin
<1>12. ASSUME NEW c \in Updater, CountAdmins(c) PROVE ExchangeInv'
  BY <1>12 DEF CountAdmins, EndUpdate, Kept, Finish
<1>13. ASSUME NEW c \in Updater, CommitUpdate(c) PROVE ExchangeInv'
  BY <1>13 DEF CommitUpdate, EndUpdate, Kept, Finish, TokensOf
<1>14. ASSUME NEW c \in Call, Abandon(c) PROVE ExchangeInv'
  BY <1>14 DEF Abandon, Kept, Finish
<1>15. CASE UNCHANGED vars
  BY <1>15 DEF vars
<1> HIDE DEF TypeOK, Role, Change, Kept, Stage, Call, ExchangeInv, HandoverInv, Children, Minting, Minted
<1> QED
  BY <1>1, <1>2, <1>3, <1>4, <1>5, <1>6, <1>7, <1>8, <1>9, <1>10, <1>11,
     <1>12, <1>13, <1>14, <1>15, PatchAssumption DEF Next

\* A token whose successor exists is revoked, whatever crashes in between.
THEOREM SessionsAreHandedOver == Spec => []ExchangedIsRevoked
<1>1. Init => TypeOK /\ HandoverInv
  BY SessionsAssumption, InitTyped
  DEF Init, Call, HandoverInv, ExchangedIsRevoked, Minted
<1>2. HandoverInv => ExchangedIsRevoked
  BY DEF HandoverInv
<1> QED
  BY <1>1, <1>2, TypeStep, HandoverStep, PTL DEF Spec

\* A refresh token has at most one successor unless two refreshes of it, or a
\* refresh and a revocation, overlapped.
THEOREM TokensAreExchangedOnce == Spec => []OneExchange
<1>1. Init => TypeOK /\ HandoverInv /\ ExchangeInv
  BY SessionsAssumption, InitTyped
  DEF Init, Call, HandoverInv, ExchangedIsRevoked,
      ExchangeInv, Children, Minting, Minted
<1>2. ExchangeInv => OneExchange
  BY DEF ExchangeInv, OneExchange
<1> QED
  BY <1>1, <1>2, TypeStep, HandoverStep, ExchangeStep, PTL DEF Spec

-----------------------------------------------------------------------------
(* Sessions as chains *)

LEMMA PresentedStep ==
  ASSUME TypeOK, PresentedInv, [Next]_vars
  PROVE  PresentedInv'
<1> USE SessionsAssumption
<1> USE DEF TypeOK, Role, Change, Kept, Stage, Call, PresentedInv, Minted
<1>1. ASSUME NEW c \in Request, NEW u \in User, Register(c, u) PROVE PresentedInv'
  BY <1>1 DEF Register, Begin
<1>2. ASSUME NEW c \in Request, NEW u \in User, Login(c, u) PROVE PresentedInv'
  BY <1>2 DEF Login, Begin
<1>3. ASSUME NEW c \in Request, NEW t \in Token, Refresh(c, t) PROVE PresentedInv'
  BY <1>3 DEF Refresh, Begin
<1>4. ASSUME NEW c \in Request, Rotate(c) PROVE PresentedInv'
  BY <1>4 DEF Rotate
<1>5. ASSUME NEW c \in Request, Mint(c) PROVE PresentedInv'
  BY <1>5 DEF Mint, Finish
<1>6. ASSUME NEW c \in Request, RevokeReused(c) PROVE PresentedInv'
  BY <1>6 DEF RevokeReused, Finish, TokensOf
<1>7. ASSUME NEW t \in Token, Logout(t) PROVE PresentedInv'
  BY <1>7 DEF Logout
<1>8. ASSUME NEW t \in Token, Expire(t) PROVE PresentedInv'
  BY <1>8 DEF Expire
<1>9. ASSUME NEW u \in User, LogoutAll(u) PROVE PresentedInv'
  BY <1>9 DEF LogoutAll, TokensOf
<1>10. ASSUME NEW u \in User, NEW r \in Role, CreateUser(u, r) PROVE PresentedInv'
  BY <1>10 DEF CreateUser
<1>11. ASSUME NEW c \in Updater, NEW a \in User, NEW u \in User, NEW ch \in Change,
            UpdateRead(c, a, u, ch) PROVE PresentedInv'
  BY <1>11 DEF UpdateRead, Begin
<1>12. ASSUME NEW c \in Updater, CountAdmins(c) PROVE PresentedInv'
  BY <1>12 DEF CountAdmins, EndUpdate, Kept, Finish
<1>13. ASSUME NEW c \in Updater, CommitUpdate(c) PROVE PresentedInv'
  BY <1>13 DEF CommitUpdate, EndUpdate, Kept, Finish, TokensOf
<1>14. ASSUME NEW c \in Call, Abandon(c) PROVE PresentedInv'
  BY <1>14 DEF Abandon, Kept, Finish
<1>15. CASE UNCHANGED vars
  BY <1>15 DEF vars
<1> HIDE DEF TypeOK, Role, Change, Kept, Stage, Call, PresentedInv, Minted
<1> QED
  BY <1>1, <1>2, <1>3, <1>4, <1>5, <1>6, <1>7, <1>8, <1>9, <1>10, <1>11,
     <1>12, <1>13, <1>14, <1>15, PatchAssumption DEF Next

\* Calls that neither revoke, mint nor end while minting leave the chains alone.
LEMMA ChainsRest ==
  ASSUME UNCHANGED <<owner, parent, revoked, raced>>,
         \A t \in Token : Minting(t)' = Minting(t)
  PROVE  UNCHANGED Chain!vars
<1>1. Owed' = Owed
  BY DEF Owed
<1> QED
  BY <1>1 DEF Chain!vars

LEMMA ChainRotate ==
  ASSUME TypeOK, PresentedInv, NEW c \in Request, Rotate(c)
  PROVE  Chain!Next
<1> DEFINE p == presented[c]
<1>1. p \in Token /\ p # NoToken /\ p \in Minted
  BY SessionsAssumption DEF TypeOK, PresentedInv, Rotate, Call
<1>2. /\ revoked' = revoked \cup {p} /\ raced' = raced \cup ({p} \cap revoked)
      /\ UNCHANGED <<owner, parent>>
  BY DEF Rotate
<1>3. \A t \in Token : Minting(t)' = IF t = p THEN Minting(t) \cup {c} ELSE Minting(t)
  BY DEF Rotate, Minting, TypeOK, Call
<1> HIDE DEF p
<1>4. CASE p \in revoked
  <2>1. Owed' = Owed \ {p}
    <3>1. \A t \in Token : t \in Owed' <=> t \in Owed /\ t # p
      BY <1>2, <1>3, <1>4 DEF Owed
    <3> QED
      BY <3>1 DEF Owed
  <2>2. UNCHANGED revoked /\ raced' = raced \cup {p}
    BY <1>2, <1>4
  <2>3. Chain!Share(p)
    BY <1>1, <1>2, <1>4, <2>1, <2>2 DEF Chain!Share, Chain!Issued, Minted
  <2> QED
    BY <1>1, <2>3 DEF Chain!Next
<1>5. CASE p \notin revoked
  <2>1. Owed' = Owed \cup {p}
    <3>1. p \notin raced /\ raced' = raced
      BY <1>2, <1>5 DEF PresentedInv
    <3>2. \A t \in Token : t \in Owed' <=> t \in Owed \/ t = p
      BY <1>1, <1>3, <3>1 DEF Owed
    <3> QED
      BY <1>1, <3>2 DEF Owed
  <2>2. Chain!HandIn(p)
    BY <1>1, <1>2, <1>5, <2>1 DEF Chain!HandIn, Chain!Issued, Minted
  <2> QED
    BY <1>1, <2>2 DEF Chain!Next
<1> QED
  BY <1>4, <1>5

LEMMA ChainMint ==
  ASSUME TypeOK, PresentedInv, ExchangeInv, NEW c \in Request, Mint(c)
  PROVE  Chain!Next
<1> DEFINE p == presented[c]
           u == who[c]
<1>1. PICK k \in Token \ Minted :
         owner' = [owner EXCEPT ![k] = u] /\ parent' = [parent EXCEPT ![k] = p]
  BY DEF Mint
<1>2. stage[c] = "mint" /\ UNCHANGED <<revoked, raced>> /\ Finish(c)
  BY DEF Mint
<1>3. u \in User /\ p \in Token \cup {NoToken}
  BY <1>2 DEF TypeOK, Call
<1>4. \A t \in Token : Minting(t)' = IF t = p THEN Minting(t) \ {c} ELSE Minting(t)
  <2>1. \A d \in Request : stage'[d] = IF d = c THEN "idle" ELSE stage[d]
    BY <1>2 DEF Finish, TypeOK, Call
  <2>2. \A d \in Request : d # c => presented'[d] = presented[d]
    BY <1>2 DEF Finish, TypeOK, Call
  <2>3. ASSUME NEW t \in Token, NEW d \in Request
        PROVE  d \in Minting(t)' <=> d \in Minting(t) /\ (t = p => d # c)
    BY <1>2, <2>1, <2>2, <2>3 DEF Minting
  <2> QED
    BY <2>3 DEF Minting
<1>5. k \notin Chain!Issued
  BY <1>1 DEF Chain!Issued, Minted
<1>6. Chain!Issue(k, u, p)
  BY <1>1, <1>2, <1>5 DEF Chain!Issue
<1> HIDE DEF p
<1>7. CASE p = NoToken
  <2>1. \A t \in Token : Minting(t)' = Minting(t)
    BY <1>4, <1>7, SessionsAssumption
  <2>2. Owed' = Owed
    BY <1>2, <2>1 DEF Owed
  <2>3. Chain!SignIn(k, u)
    BY <1>6, <1>7, <2>2 DEF Chain!SignIn
  <2> QED
    BY <1>1, <1>3, <2>3 DEF Chain!Next
<1>8. CASE p \in Token
  <2>1. owner[p] = u
    BY <1>8, SessionsAssumption DEF PresentedInv, Call, p
  <2>2. CASE p \in raced
    <3>1. Owed' = Owed
      <4>1. \A t \in Token : t \in Owed' <=> t \in Owed
        BY <1>2, <1>4, <2>2 DEF Owed
      <4> QED
        BY <4>1 DEF Owed
    <3>2. Chain!HandOutShared(k, p)
      BY <1>6, <2>1, <2>2, <3>1 DEF Chain!HandOutShared
    <3> QED
      BY <1>1, <1>8, <3>2 DEF Chain!Next
  <2>3. CASE p \notin raced
    <3>1. c \in Minting(p)
      BY <1>2 DEF Minting, p
    <3>2. \A t \in Token : t = p => Minting(t)' = {}
      <4>1. \A d \in Minting(p) : d = c
        BY <1>8, <2>3, <3>1 DEF ExchangeInv
      <4> QED
        BY <1>4, <4>1
    <3>3. p \in Owed
      BY <1>8, <2>3, <3>1 DEF Owed
    <3>4. Owed' = Owed \ {p}
      <4>1. \A t \in Token : t \in Owed' <=> t \in Owed /\ t # p
        BY <1>2, <1>4, <3>2 DEF Owed
      <4> QED
        BY <4>1 DEF Owed
    <3>5. Chain!HandOut(k, p)
      BY <1>6, <2>1, <3>3, <3>4 DEF Chain!HandOut
    <3> QED
      BY <1>1, <1>8, <3>5 DEF Chain!Next
  <2> QED
    BY <2>2, <2>3
<1> QED
  BY <1>3, <1>7, <1>8

LEMMA ChainAbandon ==
  ASSUME TypeOK, PresentedInv, ExchangeInv, NEW c \in Call, Abandon(c)
  PROVE  [Chain!Next]_(Chain!vars)
<1> DEFINE p == presented[c]
<1>1. UNCHANGED <<owner, parent, revoked, raced>> /\ Finish(c)
  BY DEF Abandon
<1>2. \A t \in Token : Minting(t)' = Minting(t) \ {c}
  <2>1. \A d \in Request : stage'[d] = IF d = c THEN "idle" ELSE stage[d]
    BY <1>1 DEF Finish, TypeOK, Call
  <2>2. \A d \in Request : d # c => presented'[d] = presented[d]
    BY <1>1 DEF Finish, TypeOK, Call
  <2>3. ASSUME NEW t \in Token, NEW d \in Request
        PROVE  d \in Minting(t)' <=> d \in Minting(t) /\ d # c
    BY <2>1, <2>2, <2>3 DEF Minting
  <2> QED
    BY <2>3 DEF Minting
<1>3. CASE \E t \in Token \ raced : c \in Minting(t)
  <2> PICK t \in Token \ raced : c \in Minting(t)
    BY <1>3
  <2>1. Minting(t)' = {} /\ t \in Owed
    BY <1>2 DEF ExchangeInv, Owed
  <2>2. \A s \in Token : s # t => Minting(s)' = Minting(s)
    <3>1. \A s \in Token : s # t => c \notin Minting(s)
      BY DEF Minting
    <3> QED
      BY <1>2, <3>1
  <2>3. Owed' = Owed \ {t}
    <3>1. \A s \in Token : s \in Owed' <=> s \in Owed /\ s # t
      BY <1>1, <2>1, <2>2 DEF Owed
    <3> QED
      BY <3>1 DEF Owed
  <2>4. Chain!Lose(t)
    BY <1>1, <2>1, <2>3 DEF Chain!Lose
  <2> QED
    BY <2>4 DEF Chain!Next
<1>4. CASE \A t \in Token \ raced : c \notin Minting(t)
  <2>1. \A t \in Token \ raced : Minting(t)' = Minting(t)
    BY <1>2, <1>4
  <2>2. Owed' = Owed
    BY <1>1, <2>1 DEF Owed
  <2> QED
    BY <1>1, <2>2 DEF Chain!vars
<1> QED
  BY <1>3, <1>4

\* Each step of a call is one of a chain, or none.
LEMMA ChainStep ==
  ASSUME TypeOK, PresentedInv, ExchangeInv, [Next]_vars
  PROVE  [Chain!Next]_(Chain!vars)
<1> DEFINE Step == [Chain!Next]_(Chain!vars)
           Rest == \A t \in Token : Minting(t)' = Minting(t)
<1>a. ASSUME UNCHANGED <<owner, parent, revoked, raced>>, Rest PROVE Step
  BY <1>a, ChainsRest
<1>b. ASSUME NEW u, u \in User, UNCHANGED <<owner, parent, raced>>, Rest,
             revoked' = revoked \cup TokensOf(u)
      PROVE  Step
  <2>1. Owed' = Owed
    BY <1>b DEF Owed
  <2>2. Chain!SignOutAll(u)
    BY <1>b, <2>1 DEF Chain!SignOutAll, Chain!End, TokensOf
  <2> QED
    BY <1>b, <2>2 DEF Chain!Next
<1>1. ASSUME NEW c \in Request, NEW u \in User, Register(c, u) \/ Login(c, u)
      PROVE  Step
  <2>1. UNCHANGED <<owner, parent, revoked, raced>>
    BY <1>1 DEF Register, Login
  <2>2. Rest
    BY <1>1, SessionsAssumption DEF Register, Login, Begin, Minting, TypeOK, Call
  <2> QED
    BY <1>a, <2>1, <2>2
<1>2. ASSUME NEW c \in Request, NEW t \in Token, Refresh(c, t) PROVE Step
  <2>1. UNCHANGED <<owner, parent, revoked, raced>>
    BY <1>2 DEF Refresh
  <2>2. Rest
    BY <1>2 DEF Refresh, Begin, Minting, TypeOK, Call
  <2> QED
    BY <1>a, <2>1, <2>2
<1>3. ASSUME NEW c \in Request, Rotate(c) PROVE Step
  BY <1>3, ChainRotate
<1>4. ASSUME NEW c \in Request, Mint(c) PROVE Step
  BY <1>4, ChainMint
<1>5. ASSUME NEW c \in Request, RevokeReused(c) PROVE Step
  <2>1. who[c] \in User
    BY <1>5 DEF RevokeReused, TypeOK, Call
  <2>2. UNCHANGED <<owner, parent, raced>> /\ revoked' = revoked \cup TokensOf(who[c])
    BY <1>5 DEF RevokeReused
  <2>3. Rest
    BY <1>5 DEF RevokeReused, Finish, Minting, TypeOK, Call
  <2> QED
    BY <1>b, <2>1, <2>2, <2>3
<1>6. ASSUME NEW t \in Token, Logout(t) PROVE Step
  <2>1. Owed' = Owed
    BY <1>6 DEF Logout, Owed, Minting
  <2>2. Chain!SignOut(t)
    BY <1>6, <2>1 DEF Logout, Chain!SignOut, Chain!End, Chain!Issued, Minted
  <2> QED
    BY <2>2 DEF Chain!Next
<1>7. ASSUME NEW t \in Token, Expire(t) PROVE Step
  BY <1>7, <1>a DEF Expire, Minting
<1>8. ASSUME NEW u \in User, LogoutAll(u) PROVE Step
  BY <1>8, <1>b DEF LogoutAll, Minting
<1>9. ASSUME NEW u \in User, NEW r \in Role, CreateUser(u, r) PROVE Step
  BY <1>9, <1>a DEF CreateUser, Minting
<1>10. ASSUME NEW c \in Updater, NEW a \in User, NEW u \in User, NEW ch \in Change,
             UpdateRead(c, a, u, ch) PROVE Step
  <2>1. UNCHANGED <<owner, parent, revoked, raced>>
    BY <1>10 DEF UpdateRead
  <2>2. Rest
    BY <1>10, SessionsAssumption DEF UpdateRead, Begin, Minting, TypeOK, Call
  <2> QED
    BY <1>a, <2>1, <2>2
<1>11. ASSUME NEW c \in Updater, CountAdmins(c) PROVE Step
  <2>1. UNCHANGED <<owner, parent, revoked, raced>>
    BY <1>11 DEF CountAdmins
  <2>2. Rest
    BY <1>11, SessionsAssumption DEF CountAdmins, EndUpdate, Kept, Finish, Minting, TypeOK, Call
  <2> QED
    BY <1>a, <2>1, <2>2
<1>12. ASSUME NEW c \in Updater, CommitUpdate(c) PROVE Step
  <2>1. who[c] \in User
    BY <1>12 DEF CommitUpdate, EndUpdate, Finish, TypeOK, Call
  <2>2. UNCHANGED <<owner, parent, raced>>
    BY <1>12 DEF CommitUpdate, EndUpdate, Finish
  <2>3. Rest
    BY <1>12, SessionsAssumption DEF CommitUpdate, EndUpdate, Kept, Finish, Minting, TypeOK, Call
  <2>4. revoked' = revoked \cup TokensOf(who[c]) \/ revoked' = revoked
    BY <1>12 DEF CommitUpdate, EndUpdate, Finish
  <2> QED
    BY <1>a, <1>b, <2>1, <2>2, <2>3, <2>4
<1>13. ASSUME NEW c \in Call, Abandon(c) PROVE Step
  BY <1>13, ChainAbandon
<1>14. ASSUME UNCHANGED vars PROVE Step
  BY <1>14, <1>a DEF vars, Minting
<1> HIDE DEF Step, Rest
<1>15. Step
  BY <1>1, <1>2, <1>3, <1>4, <1>5, <1>6, <1>7, <1>8, <1>9, <1>10, <1>11, <1>12, <1>13,
     <1>14, PatchAssumption DEF Next
<1> QED
  BY <1>15 DEF Step

\* Wherever calls of auth.service.ts and users.service.ts overlap or end, sessions
\* are handed on as SessionChain has it, and what follows from it holds of them.
THEOREM SessionsAreChains == Spec => ImplementsChain
<1>1. Init => TypeOK /\ PresentedInv /\ HandoverInv /\ ExchangeInv
  BY SessionsAssumption, InitTyped
  DEF Init, Call, HandoverInv, ExchangedIsRevoked,
      ExchangeInv, PresentedInv, Children, Minting, Minted
<1>2. Init => Chain!Init
  BY SessionsAssumption DEF Init, Chain!Init, Owed, Minting, Call
<1> QED
  BY <1>1, <1>2, TypeStep, PresentedStep, HandoverStep, ExchangeStep, ChainStep, PTL
  DEF Spec, ImplementsChain, Chain!Spec

\* A token issued after p, or after a sign-in: nothing follows from it yet.
LEMMA IssueKeeps ==
  ASSUME Chain!ChainInv, NEW k \in Token, NEW u \in User, NEW p \in Token \cup {NoToken},
         Chain!Issue(k, u, p), p # NoToken => p \in Chain!Issued /\ u = owner[p]
  PROVE  /\ owner' \in [Token -> User \cup {NoUser}]
         /\ parent' \in [Token -> Token \cup {NoToken}]
         /\ Chain!Issued' = Chain!Issued \cup {k} /\ k \notin Chain!Issued
         /\ \A t \in Token : Chain!Successors(t)' =
              IF t = p THEN Chain!Successors(t) \cup {k} ELSE Chain!Successors(t)
         /\ Chain!Successors(k) = {} /\ k # p
         /\ Chain!OneOwner' /\ Chain!FromSignIn'
<1>1. /\ k \notin Chain!Issued
      /\ owner' = [owner EXCEPT ![k] = u] /\ parent' = [parent EXCEPT ![k] = p]
  BY DEF Chain!Issue
<1>2. /\ owner \in [Token -> User \cup {NoUser}]
      /\ parent \in [Token -> Token \cup {NoToken}]
  BY DEF Chain!ChainInv
<1>3. /\ owner' \in [Token -> User \cup {NoUser}]
      /\ parent' \in [Token -> Token \cup {NoToken}]
  BY <1>1, <1>2
<1>4. Chain!Issued' = Chain!Issued \cup {k}
  BY <1>1, <1>2, SessionsAssumption DEF Chain!Issued
<1>5. \A t \in Token : t # k => parent'[t] = parent[t] /\ owner'[t] = owner[t]
  BY <1>1, <1>2
<1>6. parent'[k] = p /\ owner'[k] = u /\ k # p
  BY <1>1, <1>2, SessionsAssumption
<1>7. Chain!Issued \subseteq Token
  BY DEF Chain!Issued
<1>8. \A t \in Token : Chain!Successors(t)' =
         IF t = p THEN Chain!Successors(t) \cup {k} ELSE Chain!Successors(t)
  BY <1>1, <1>4, <1>5, <1>6, <1>7 DEF Chain!Successors
<1>9. \A t \in Chain!Issued : parent[t] # NoToken =>
        parent[t] \in Chain!Issued /\ owner[parent[t]] = owner[t]
  BY DEF Chain!ChainInv, Chain!OneOwner
<1>10. Chain!Successors(k) = {}
  BY <1>1, <1>9, SessionsAssumption DEF Chain!Successors
<1>11. Chain!OneOwner'
  <2>1. ASSUME NEW t \in Chain!Issued \cup {k}, parent'[t] # NoToken
        PROVE  parent'[t] \in Chain!Issued \cup {k} /\ owner'[parent'[t]] = owner'[t]
    <3>1. CASE t = k
      BY <1>1, <1>5, <1>6, <1>7, <2>1, <3>1
    <3>2. CASE t # k
      BY <1>1, <1>5, <1>7, <1>9, <2>1, <3>2
    <3> QED
      BY <3>1, <3>2
  <2> QED
    BY <1>4, <2>1 DEF Chain!OneOwner
<1>12. Chain!FromSignIn'
  <2>1. ASSUME NEW chain \in SUBSET (Chain!Issued \cup {k}), chain # {}
        PROVE  \E t \in chain : parent'[t] \notin chain
    <3> DEFINE rest == chain \ {k}
    <3>1. CASE rest = {}
      BY <1>6, <2>1, <3>1
    <3>2. CASE rest # {}
      <4>1. PICK t \in rest : parent[t] \notin rest
        BY <2>1, <3>2 DEF Chain!ChainInv, Chain!FromSignIn
      <4>2. parent[t] # k
        BY <1>1, <1>9, <2>1, <4>1, SessionsAssumption
      <4>3. parent'[t] \notin chain
        BY <1>5, <1>7, <2>1, <4>1, <4>2
      <4> QED
        BY <4>1, <4>3
    <3> QED
      BY <3>1, <3>2
  <2> QED
    BY <1>4, <2>1 DEF Chain!FromSignIn
<1> QED
  BY <1>1, <1>3, <1>4, <1>6, <1>8, <1>10, <1>11, <1>12

\* The promises of a chain hold of whatever keeps to its steps.
LEMMA ChainKeeps ==
  ASSUME Chain!ChainInv, [Chain!Next]_(Chain!vars)
  PROVE  Chain!ChainInv'
<1> DEFINE Inv == Chain!ChainInv
<1>1. /\ owner \in [Token -> User \cup {NoUser}]
      /\ parent \in [Token -> Token \cup {NoToken}]
      /\ Owed \cup raced \subseteq revoked /\ revoked \subseteq Chain!Issued
      /\ Owed \cap raced = {} /\ Chain!Issued \subseteq Token
      /\ \A t \in Owed : Chain!Successors(t) = {}
      /\ \A t \in Token :
           /\ t \notin revoked => Chain!Successors(t) = {} /\ t \notin Owed
           /\ t \notin raced => \A k, m \in Chain!Successors(t) : k = m
  BY DEF Chain!ChainInv, Chain!OneGood, Chain!Issued
<1>2. ASSUME UNCHANGED <<owner, parent>>
      PROVE  /\ Chain!Issued' = Chain!Issued
             /\ \A t : Chain!Successors(t)' = Chain!Successors(t)
             /\ Chain!OneOwner' /\ Chain!FromSignIn'
  BY <1>2 DEF Chain!ChainInv, Chain!Issued, Chain!Successors, Chain!OneOwner,
     Chain!FromSignIn
<1>3. ASSUME NEW t \in Token, NEW u \in User, Chain!SignIn(t, u) PROVE Inv'
  <2>1. Chain!Issue(t, u, NoToken) /\ UNCHANGED <<Owed, revoked, raced>>
    BY <1>3 DEF Chain!SignIn, Chain!Issue
  <2> QED
    BY <1>1, <2>1, IssueKeeps, SessionsAssumption DEF Chain!ChainInv, Chain!OneGood
<1>4. ASSUME NEW t \in Token, Chain!HandIn(t) PROVE Inv'
  BY <1>1, <1>2, <1>4 DEF Chain!HandIn, Chain!ChainInv, Chain!OneGood
<1>5. ASSUME NEW t \in Token, Chain!Lose(t) PROVE Inv'
  BY <1>1, <1>2, <1>5 DEF Chain!Lose, Chain!ChainInv, Chain!OneGood
<1>6. ASSUME NEW t \in Token, Chain!Share(t) PROVE Inv'
  BY <1>1, <1>2, <1>6 DEF Chain!Share, Chain!ChainInv, Chain!OneGood
<1>7. ASSUME NEW t \in Token, Chain!SignOut(t) PROVE Inv'
  BY <1>1, <1>2, <1>7 DEF Chain!SignOut, Chain!End, Chain!ChainInv, Chain!OneGood
<1>8. ASSUME NEW k \in Token, NEW t \in Token,
             Chain!HandOut(k, t) \/ Chain!HandOutShared(k, t)
      PROVE  Inv'
  <2>1. /\ Chain!Issue(k, owner[t], t) /\ UNCHANGED <<revoked, raced>>
        /\ t \in Owed \cup raced
        /\ Owed' = IF t \in raced THEN Owed ELSE Owed \ {t}
    BY <1>1, <1>8 DEF Chain!HandOut, Chain!HandOutShared, Chain!Issue
  <2>2. t \in Chain!Issued /\ owner[t] \in User
    BY <1>1, <2>1 DEF Chain!Issued
  <2>3. /\ owner' \in [Token -> User \cup {NoUser}]
        /\ parent' \in [Token -> Token \cup {NoToken}]
        /\ Chain!Issued' = Chain!Issued \cup {k} /\ k \notin Chain!Issued
        /\ \A s \in Token : Chain!Successors(s)' =
             IF s = t THEN Chain!Successors(s) \cup {k} ELSE Chain!Successors(s)
        /\ Chain!OneOwner' /\ Chain!FromSignIn'
    BY <2>1, <2>2, IssueKeeps
  <2>4. \A s \in Owed' : s # t /\ s \in Owed
    BY <1>1, <2>1
  <2>5. \A s \in Owed' : Chain!Successors(s)' = {}
    BY <1>1, <2>3, <2>4
  <2>6. Chain!OneGood'
    BY <1>1, <2>1, <2>3, <2>4 DEF Chain!OneGood
  <2> QED
    BY <1>1, <2>1, <2>3, <2>4, <2>5, <2>6 DEF Chain!ChainInv
<1>9. ASSUME NEW u \in User, Chain!SignOutAll(u) PROVE Inv'
  <2>1. {t \in Token : owner[t] = u} \subseteq Chain!Issued
    BY <1>9, SessionsAssumption DEF Chain!Issued
  <2> QED
    BY <1>1, <1>2, <1>9, <2>1 DEF Chain!SignOutAll, Chain!End, Chain!ChainInv,
       Chain!OneGood
<1>10. ASSUME UNCHANGED Chain!vars PROVE Inv'
  BY <1>1, <1>2, <1>10 DEF Chain!vars, Chain!ChainInv, Chain!OneGood
<1> HIDE DEF Inv
<1>11. Inv'
  BY <1>3, <1>4, <1>5, <1>6, <1>7, <1>8, <1>9, <1>10 DEF Chain!Next
<1> QED
  BY <1>11 DEF Inv

\* A good token is the last of its chain; a chain has no branches but where two
\* calls handed in one token; all tokens of a chain are of the account that signed
\* in; and every chain begins with a sign-in.
THEOREM ChainsAreSound ==
  Spec => [](Chain!OneGood /\ Chain!OneOwner /\ Chain!FromSignIn)
<1>1. Chain!Init => Chain!ChainInv
  BY SessionsAssumption
  DEF Chain!Init, Chain!ChainInv, Chain!Issued, Chain!Successors, Chain!OneGood,
      Chain!OneOwner, Chain!FromSignIn
<1>2. Chain!ChainInv => Chain!OneGood /\ Chain!OneOwner /\ Chain!FromSignIn
  BY DEF Chain!ChainInv
<1> QED
  BY <1>1, <1>2, ChainKeeps, SessionsAreChains, PTL DEF ImplementsChain, Chain!Spec

-----------------------------------------------------------------------------
(* Deactivation *)

LEMMA DeactivationStep ==
  ASSUME TypeOK, DeactivationEndsSessions, [Next]_vars
  PROVE  DeactivationEndsSessions'
<1> USE SessionsAssumption
<1> USE DEF TypeOK, Role, Change, Kept, Stage, Call, DeactivationEndsSessions, TokensOf, Live, Minted
<1>1. ASSUME NEW c \in Request, NEW u \in User, Register(c, u) PROVE DeactivationEndsSessions'
  BY <1>1 DEF Register, Begin
<1>2. ASSUME NEW c \in Request, NEW u \in User, Login(c, u) PROVE DeactivationEndsSessions'
  BY <1>2 DEF Login, Begin
<1>3. ASSUME NEW c \in Request, NEW t \in Token, Refresh(c, t) PROVE DeactivationEndsSessions'
  BY <1>3 DEF Refresh, Begin, Minted
<1>4. ASSUME NEW c \in Request, Rotate(c) PROVE DeactivationEndsSessions'
  BY <1>4 DEF Rotate
<1>5. ASSUME NEW c \in Request, Mint(c) PROVE DeactivationEndsSessions'
  BY <1>5 DEF Mint, Finish, Minted
<1>6. ASSUME NEW c \in Request, RevokeReused(c) PROVE DeactivationEndsSessions'
  BY <1>6 DEF RevokeReused, Finish, TokensOf
<1>7. ASSUME NEW t \in Token, Logout(t) PROVE DeactivationEndsSessions'
  BY <1>7 DEF Logout
<1>8. ASSUME NEW t \in Token, Expire(t) PROVE DeactivationEndsSessions'
  BY <1>8 DEF Expire
<1>9. ASSUME NEW u \in User, LogoutAll(u) PROVE DeactivationEndsSessions'
  BY <1>9 DEF LogoutAll, TokensOf
<1>10. ASSUME NEW u \in User, NEW r \in Role, CreateUser(u, r) PROVE DeactivationEndsSessions'
  BY <1>10 DEF CreateUser
<1>11. ASSUME NEW c \in Updater, NEW a \in User, NEW u \in User, NEW ch \in Change,
            UpdateRead(c, a, u, ch) PROVE DeactivationEndsSessions'
  BY <1>11 DEF UpdateRead, Begin
<1>12. ASSUME NEW c \in Updater, CountAdmins(c) PROVE DeactivationEndsSessions'
  BY <1>12 DEF CountAdmins, EndUpdate, Kept, Finish
<1>13. ASSUME NEW c \in Updater, CommitUpdate(c) PROVE DeactivationEndsSessions'
  <2> SUFFICES ASSUME NEW u \in User, u \notin lapsed', account'[u] = "inactive",
                      NEW t \in Token, owner'[t] = u, owner'[t] # NoUser,
                      t \notin revoked', t \notin expired'
               PROVE  t \in late'
    OBVIOUS
  <2>1. who[c] \in User /\ owner' = owner /\ late' = late /\ expired' = expired
    BY <1>13 DEF CommitUpdate, EndUpdate, Finish
  <2>2. t \notin revoked /\ (c \in ending => owner[t] # who[c])
    BY <1>13, <2>1 DEF CommitUpdate, EndUpdate, Finish
  <2>3. u \notin lapsed /\ account[u] = "inactive"
    <3>1. CASE u # who[c]
      BY <1>13, <2>1, <3>1 DEF CommitUpdate, EndUpdate, Finish
    <3>2. CASE u = who[c]
      BY <1>13, <2>1, <2>2, <3>2 DEF CommitUpdate, EndUpdate, Finish
    <3> QED
      BY <3>1, <3>2
  <2> QED
    BY <2>1, <2>2, <2>3
<1>14. ASSUME NEW c \in Call, Abandon(c) PROVE DeactivationEndsSessions'
  BY <1>14 DEF Abandon, Kept, Finish
<1>15. CASE UNCHANGED vars
  BY <1>15 DEF vars
<1> HIDE DEF TypeOK, Role, Change, Kept, Stage, Call, DeactivationEndsSessions, TokensOf, Live, Minted
<1> QED
  BY <1>1, <1>2, <1>3, <1>4, <1>5, <1>6, <1>7, <1>8, <1>9, <1>10, <1>11,
     <1>12, <1>13, <1>14, <1>15, PatchAssumption DEF Next

\* The transaction of users.update leaves a deactivated account only sessions
\* that calls in flight mint afterwards, unless it had read the account stale.
THEOREM DeactivationIsFinal == Spec => []DeactivationEndsSessions
<1>1. Init => TypeOK /\ DeactivationEndsSessions
  BY SessionsAssumption, InitTyped
  DEF Init, Call, DeactivationEndsSessions, TokensOf, Live, Minted
<1> QED
  BY <1>1, TypeStep, DeactivationStep, PTL DEF Spec

-----------------------------------------------------------------------------
(* An administrator remains *)

\* An update that is about to take an active administrator's rights, on a check that
\* still describes the administrators, has seen another one; who is updated has an
\* account.
Removes(ch) == ch.role = "MEMBER" \/ ch.isActive = "no"

AdminInv ==
  /\ AdminRemains
  /\ \A c \in Updater :
       /\ who[c] # NoUser => account[who[c]] # "none"
       /\ stage[c] = "commit" /\ c \notin behind /\ Removes(change[c])
            /\ who[c] \in ActiveAdmins
          => ActiveAdmins \ {who[c]} # {}

\* A step of another handler: accounts are only added.
LEMMA AdminsGrow ==
  ASSUME TypeOK, AdminInv, unseen' = unseen,
         \A u \in User : account[u] # "none" => account'[u] = account[u] /\ role'[u] = role[u],
         \A c \in Updater :
           \/ /\ stage'[c] = stage[c] /\ who'[c] = who[c] /\ change'[c] = change[c]
              /\ c \in behind' <=> c \in behind
           \/ stage'[c] = "idle" /\ who'[c] = NoUser
  PROVE  AdminInv'
<1>1. ActiveAdmins \subseteq ActiveAdmins'
  BY DEF ActiveAdmins, TypeOK
<1>2. AdminRemains'
  BY <1>1 DEF AdminInv, AdminRemains
<1>3. ASSUME NEW c \in Updater, who'[c] # NoUser
      PROVE  /\ who[c] \in User /\ who'[c] = who[c] /\ stage'[c] = stage[c]
             /\ change'[c] = change[c] /\ (c \in behind' <=> c \in behind)
             /\ account[who[c]] # "none" /\ account'[who[c]] = account[who[c]]
             /\ role'[who[c]] = role[who[c]]
  <2>1. /\ who'[c] = who[c] /\ who[c] \in User /\ stage'[c] = stage[c]
        /\ change'[c] = change[c] /\ (c \in behind' <=> c \in behind)
    BY <1>3 DEF TypeOK, Call
  <2>2. account[who[c]] # "none"
    BY <1>3, <2>1 DEF AdminInv
  <2> QED
    BY <2>1, <2>2
<1>4. ASSUME NEW c \in Updater, stage'[c] = "commit", c \notin behind',
             Removes(change'[c]), who'[c] \in ActiveAdmins'
      PROVE  ActiveAdmins' \ {who'[c]} # {}
  <2>1. who'[c] # NoUser
    BY <1>4, SessionsAssumption DEF ActiveAdmins
  <2>2. /\ who'[c] = who[c] /\ stage[c] = "commit" /\ who[c] \in ActiveAdmins
        /\ Removes(change[c]) /\ c \notin behind
    BY <1>3, <1>4, <2>1 DEF ActiveAdmins
  <2>3. ActiveAdmins \ {who[c]} # {}
    BY <1>4, <2>2 DEF AdminInv
  <2> QED
    BY <1>1, <2>2, <2>3
<1> QED
  BY <1>2, <1>3, <1>4 DEF AdminInv, Removes

LEMMA AdminCommit ==
  ASSUME TypeOK, AdminInv, NEW c \in Updater, CommitUpdate(c)
  PROVE  AdminInv'
<1> DEFINE u == who[c]
<1>1. /\ u \in User /\ stage[c] = "commit" /\ change[c] \in Change
      /\ account[u] # "none"
  BY DEF CommitUpdate, TypeOK, Call, AdminInv
<1>2. /\ \A x \in User : x # u => account'[x] = account[x] /\ role'[x] = role[x]
      /\ account'[u] # "none"
  BY <1>1 DEF CommitUpdate, TypeOK
<1>3. ActiveAdmins \ {u} \subseteq ActiveAdmins'
  BY <1>2 DEF ActiveAdmins
<1>4. u \in ActiveAdmins /\ ~Removes(change[c]) => u \in ActiveAdmins'
  BY <1>1 DEF CommitUpdate, ActiveAdmins, TypeOK, Change, Role, Removes
<1>5. AdminRemains'
  <2> SUFFICES ASSUME Founder # {}, ~unseen' PROVE ActiveAdmins' # {}
    BY DEF AdminRemains
  <2>1. ~unseen /\ (c \in behind => ActiveAdmins \subseteq ActiveAdmins')
    BY DEF CommitUpdate
  <2>2. ActiveAdmins # {}
    BY <2>1 DEF AdminInv, AdminRemains
  <2>3. CASE ActiveAdmins \subseteq ActiveAdmins'
    BY <2>2, <2>3
  <2>4. CASE ~(ActiveAdmins \subseteq ActiveAdmins')
    <3>1. c \notin behind /\ u \in ActiveAdmins /\ Removes(change[c])
      BY <1>3, <1>4, <2>1, <2>4
    <3>2. ActiveAdmins \ {u} # {}
      BY <1>1, <3>1 DEF AdminInv
    <3> QED
      BY <1>3, <3>2
  <2> QED
    BY <2>3, <2>4
<1>6. ASSUME NEW d \in Updater, d # c
      PROVE  /\ who'[d] = who[d] /\ stage'[d] = stage[d] /\ change'[d] = change[d]
             /\ d \notin behind' /\ stage[d] = "commit"
                  => d \notin behind /\ ActiveAdmins' = ActiveAdmins
  BY <1>6 DEF CommitUpdate, EndUpdate, Finish, TypeOK, Call
<1>7. who'[c] = NoUser /\ stage'[c] = "idle"
  BY DEF CommitUpdate, EndUpdate, Finish, TypeOK, Call
<1>8. ASSUME NEW d \in Updater, who'[d] # NoUser
      PROVE  account'[who'[d]] # "none"
  <2>1. d # c /\ who'[d] = who[d] /\ who[d] \in User /\ account[who[d]] # "none"
    BY <1>6, <1>7, <1>8 DEF TypeOK, Call, AdminInv
  <2> QED
    BY <1>2, <2>1
<1>9. ASSUME NEW d \in Updater, stage'[d] = "commit", d \notin behind',
             Removes(change'[d]), who'[d] \in ActiveAdmins'
      PROVE  ActiveAdmins' \ {who'[d]} # {}
  <2>1. d # c
    BY <1>7, <1>9
  <2>2. /\ who'[d] = who[d] /\ stage[d] = "commit" /\ change'[d] = change[d]
        /\ d \notin behind /\ ActiveAdmins' = ActiveAdmins
    BY <1>6, <1>9, <2>1
  <2> QED
    BY <1>9, <2>2 DEF AdminInv
<1> QED
  BY <1>5, <1>8, <1>9 DEF AdminInv, Removes

LEMMA AdminStep ==
  ASSUME TypeOK, AdminInv, [Next]_vars
  PROVE  AdminInv'
<1>1. ASSUME NEW c \in Request, NEW u \in User, Register(c, u) PROVE AdminInv'
  <2>1. c \notin Updater
    BY SessionsAssumption
  <2> QED
    BY <1>1, <2>1, AdminsGrow DEF Register, Begin, TypeOK, Call
<1>2. ASSUME NEW c \in Request, NEW u \in User, Login(c, u) PROVE AdminInv'
  BY <1>2, AdminsGrow, SessionsAssumption DEF Login, Begin, TypeOK, Call
<1>3. ASSUME NEW c \in Request, NEW t \in Token, Refresh(c, t) PROVE AdminInv'
  BY <1>3, AdminsGrow, SessionsAssumption DEF Refresh, Begin, TypeOK, Call
<1>4. ASSUME NEW c \in Request, Rotate(c) \/ Mint(c) \/ RevokeReused(c) PROVE AdminInv'
  BY <1>4, AdminsGrow, SessionsAssumption
  DEF Rotate, Mint, RevokeReused, Finish, TypeOK, Call
<1>5. ASSUME NEW t \in Token, Logout(t) \/ Expire(t) PROVE AdminInv'
  BY <1>5, AdminsGrow DEF Logout, Expire
<1>6. ASSUME NEW u \in User, LogoutAll(u) PROVE AdminInv'
  BY <1>6, AdminsGrow DEF LogoutAll
<1>7. ASSUME NEW u \in User, NEW r \in Role, CreateUser(u, r) PROVE AdminInv'
  BY <1>7, AdminsGrow DEF CreateUser, TypeOK
<1>8. ASSUME NEW c \in Updater, NEW a \in User, NEW u \in User, NEW ch \in Change,
            UpdateRead(c, a, u, ch) PROVE AdminInv'
  <2>1. /\ ActiveAdmins' = ActiveAdmins /\ account' = account /\ account[u] # "none"
        /\ unseen' = unseen /\ behind' = behind
        /\ who'[c] = u /\ change'[c] = ch
        /\ \A d \in Updater : d # c => /\ who'[d] = who[d] /\ change'[d] = change[d]
                                       /\ stage'[d] = stage[d]
    BY <1>8 DEF UpdateRead, Begin, ActiveAdmins, TypeOK, Call
  <2>2. Removes(ch) /\ stage'[c] = "commit" => u \notin ActiveAdmins
    BY <1>8 DEF UpdateRead, Begin, LosesAdmin, Removes, ActiveAdmins, TypeOK, Call
  <2> QED
    BY <2>1, <2>2 DEF AdminInv, AdminRemains, Removes
<1>9. ASSUME NEW c \in Updater, CountAdmins(c) PROVE AdminInv'
  <2>1. /\ ActiveAdmins' = ActiveAdmins /\ account' = account
        /\ unseen' = unseen /\ behind' = behind
    BY <1>9 DEF CountAdmins, ActiveAdmins
  <2>2. CASE ActiveAdmins \ {who[c]} # {} /\ UNCHANGED <<who, change>>
             /\ stage' = [stage EXCEPT ![c] = "commit"]
    BY <2>1, <2>2 DEF AdminInv, AdminRemains, Removes, TypeOK, Call
  <2>3. CASE EndUpdate(c)
    BY <2>1, <2>3 DEF AdminInv, AdminRemains, Removes, EndUpdate, Finish, TypeOK, Call
  <2> QED
    BY <1>9, <2>2, <2>3 DEF CountAdmins
<1>10. ASSUME NEW c \in Updater, CommitUpdate(c) PROVE AdminInv'
  BY <1>10, AdminCommit
<1>11. ASSUME NEW c \in Call, Abandon(c) PROVE AdminInv'
  BY <1>11, AdminsGrow DEF Abandon, Finish, TypeOK, Call
<1>12. CASE UNCHANGED vars
  BY <1>12, AdminsGrow DEF vars
<1> QED
  BY <1>1, <1>2, <1>3, <1>4, <1>5, <1>6, <1>7, <1>8, <1>9, <1>10, <1>11, <1>12, PatchAssumption DEF Next

\* However account updates overlap, an active administrator remains, unless one was
\* taken away on a check made before the active administrators last changed.
THEOREM AnAdminRemains == Spec => []AdminRemains
<1>1. Init => TypeOK /\ AdminInv
  <2> SUFFICES ASSUME Init PROVE TypeOK /\ AdminInv
    OBVIOUS
  <2>1. TypeOK
    BY InitTyped
  <2>2. AdminRemains
    BY SessionsAssumption DEF Init, AdminRemains, ActiveAdmins
  <2> QED
    BY <2>1, <2>2 DEF Init, AdminInv, Call
<1>2. AdminInv => AdminRemains
  BY DEF AdminInv
<1> QED
  BY <1>1, <1>2, AdminStep, TypeStep, PTL DEF Spec
-----------------------------------------------------------------------------
(* The browser's side *)

USE DEF pageVars, callerVars, flightVars, networkVars, leaveVars, causeVars

\* Whatever pages do, the server takes a step of its own or none.
LEMMA ServerStep ==
  ASSUME [ClientNext]_clientVars
  PROVE  [Next]_vars
<1>1. ASSUME NEW p \in Page, OpenPage(p) PROVE [Next]_vars
  BY <1>1 DEF OpenPage, vars
<1>2. ASSUME NEW p \in Page, ClosePage(p) PROVE [Next]_vars
  BY <1>2 DEF ClosePage, vars
<1>3. ASSUME NEW p \in Page, SignIn(p) PROVE [Next]_vars
  BY <1>3 DEF SignIn, vars
<1>4. ASSUME NEW p \in Page, FailSignIn(p) PROVE [Next]_vars
  BY <1>4 DEF FailSignIn, vars
<1>5. ASSUME NEW q \in Caller, Send(q) PROVE [Next]_vars
  BY <1>5 DEF Send, vars
<1>6. ASSUME NEW q \in Caller, Answer(q) PROVE [Next]_vars
  BY <1>6 DEF Answer, vars
<1>7. ASSUME NEW q \in Caller, RefreshFirst(q) PROVE [Next]_vars
  BY <1>7 DEF RefreshFirst, vars
<1>8. ASSUME NEW q \in Caller, RefreshShared(q) PROVE [Next]_vars
  BY <1>8 DEF RefreshShared, vars
<1>9. ASSUME NEW q \in Caller, RefreshNothing(q) PROVE [Next]_vars
  BY <1>9 DEF RefreshNothing, vars
<1>10. ASSUME NEW p \in Page, TurnAway(p) PROVE [Next]_vars
  BY <1>10 DEF TurnAway, vars
<1>11. ASSUME NEW p \in Page, LoseRequest(p) PROVE [Next]_vars
  BY <1>11 DEF LoseRequest, vars
<1>12. ASSUME NEW p \in Page, NEW c \in Request, Arrive(p, c) PROVE [Next]_vars
  BY <1>12 DEF Arrive, Refresh, Minted, Next
<1>13. ASSUME NEW p \in Page, LoseAnswer(p) PROVE [Next]_vars
  BY <1>13 DEF LoseAnswer, vars
<1>14. ASSUME NEW p \in Page, ReceiveGrant(p) PROVE [Next]_vars
  BY <1>14 DEF ReceiveGrant, vars
<1>15. ASSUME NEW p \in Page, ReceiveRefusal(p) PROVE [Next]_vars
  BY <1>15 DEF ReceiveRefusal, vars
<1>16. ASSUME NEW p \in Page, ReceiveLoss(p) PROVE [Next]_vars
  BY <1>16 DEF ReceiveLoss, vars
<1>17. ASSUME NEW c \in Request, ServeRotate(c) PROVE [Next]_vars
  BY <1>17 DEF ServeRotate, Next
<1>18. ASSUME NEW c \in Request, ServeMint(c) PROVE [Next]_vars
  BY <1>18 DEF ServeMint, Next
<1>19. ASSUME NEW c \in Request, ServeReuse(c) PROVE [Next]_vars
  BY <1>19 DEF ServeReuse, Next
<1>20. ASSUME NEW c \in Request, Break(c) PROVE [Next]_vars
  BY <1>20 DEF Break, Next, Call
<1>21. ASSUME NEW c \in Request, NEW t \in Token, ArriveLate(t, c) PROVE [Next]_vars
  BY <1>21 DEF ArriveLate, Next
<1>22. ASSUME NEW p \in Page, SignOut(p) PROVE [Next]_vars
  BY <1>22 DEF SignOut, vars
<1>23. ASSUME NEW p \in Page, SignOutServed(p) PROVE [Next]_vars
  BY <1>23 DEF SignOutServed, Logout, Minted, Next
<1>24. ASSUME NEW p \in Page, SignedOut(p) PROVE [Next]_vars
  BY <1>24 DEF SignedOut, vars
<1>25. ASSUME NEW t \in Token, Age(t) PROVE [Next]_vars
  BY <1>25 DEF Age, vars
<1>26. ASSUME NEW c \in Request, NEW u \in User, SignInElsewhere(c, u) PROVE [Next]_vars
  BY <1>26 DEF SignInElsewhere, Next
<1>27. ASSUME NEW u \in User, SignOutElsewhere(u) PROVE [Next]_vars
  BY <1>27 DEF SignOutElsewhere, Next
<1>28. CASE UNCHANGED clientVars
BY <1>28 DEF clientVars
<1> QED
BY <1>1, <1>2, <1>3, <1>4, <1>5, <1>6, <1>7, <1>8, <1>9, <1>10, <1>11, <1>12, <1>13,
     <1>14, <1>15, <1>16, <1>17, <1>18, <1>19, <1>20, <1>21, <1>22, <1>23, <1>24, <1>25,
     <1>26, <1>27, <1>28 DEF ClientNext, Respond, Reach, Receive, Serve, Elsewhere

\* Nothing is minted or revoked twice.
LEMMA ServerGrows ==
  ASSUME TypeOK, [Next]_vars
  PROVE  /\ Minted \subseteq Minted' /\ revoked \subseteq revoked'
         /\ \A t \in Minted : parent'[t] = parent[t]
<1>1. CASE \E c \in Request : Mint(c)
  BY <1>1 DEF Mint, Minted, TypeOK
<1>2. CASE ~ \E c \in Request : Mint(c)
  <2>1. UNCHANGED <<owner, parent>> /\ revoked \subseteq revoked'
    BY <1>2 DEF Next, vars, Register, Login, Refresh, Rotate, RevokeReused, Logout, Expire,
       LogoutAll, CreateUser, UpdateRead, CountAdmins, CommitUpdate, Abandon
  <2> QED
    BY <2>1 DEF Minted
<1> QED
  BY <1>1, <1>2

LEMMA ClientTypeStep ==
  ASSUME ClientTypeOK, [ClientNext]_clientVars
  PROVE  ClientTypeOK'
<1> USE SessionsAssumption, ClientAssumption
<1>0. TypeOK' /\ Minted \subseteq Minted' /\ revoked \subseteq revoked'
  BY TypeStep, ServerStep, ServerGrows DEF ClientTypeOK
<1> USE DEF ClientTypeOK, Phase, Flight
<1>1. ASSUME NEW p \in Page, OpenPage(p) PROVE ClientTypeOK'
BY <1>1, <1>0 DEF OpenPage
<1>2. ASSUME NEW p \in Page, ClosePage(p) PROVE ClientTypeOK'
  <2>1. Exchanging(p) \cup Unarrived(p) \subseteq Token \cup {NoToken} /\ Unarrived(p) \subseteq Token
    BY DEF Exchanging, Unarrived, TypeOK
  <2> QED
    BY <1>2, <1>0, <2>1 DEF ClosePage, MayLose
<1>3. ASSUME NEW p \in Page, SignIn(p) PROVE ClientTypeOK'
BY <1>3, <1>0 DEF SignIn, Remember, Minted
<1>4. ASSUME NEW p \in Page, FailSignIn(p) PROVE ClientTypeOK'
BY <1>4, <1>0 DEF FailSignIn, Remember
<1>5. ASSUME NEW q \in Caller, Send(q) PROVE ClientTypeOK'
BY <1>5, <1>0 DEF Send, Move
<1>6. ASSUME NEW q \in Caller, Answer(q) PROVE ClientTypeOK'
BY <1>6, <1>0 DEF Answer, Settle, Move
<1>7. ASSUME NEW q \in Caller, RefreshFirst(q) PROVE ClientTypeOK'
BY <1>7, <1>0 DEF RefreshFirst, Unauthorized, Move
<1>8. ASSUME NEW q \in Caller, RefreshShared(q) PROVE ClientTypeOK'
BY <1>8, <1>0 DEF RefreshShared, Unauthorized, Move
<1>9. ASSUME NEW q \in Caller, RefreshNothing(q) PROVE ClientTypeOK'
BY <1>9, <1>0 DEF RefreshNothing, Unauthorized, Settle, Move, Remember
<1>10. ASSUME NEW p \in Page, TurnAway(p) PROVE ClientTypeOK'
BY <1>10, <1>0 DEF TurnAway
<1>11. ASSUME NEW p \in Page, LoseRequest(p) PROVE ClientTypeOK'
BY <1>11, <1>0 DEF LoseRequest, Unarrived, MayLose
<1>12. ASSUME NEW p \in Page, NEW c \in Request, Arrive(p, c) PROVE ClientTypeOK'
BY <1>12, <1>0 DEF Arrive, Refresh, Begin
<1>13. ASSUME NEW p \in Page, LoseAnswer(p) PROVE ClientTypeOK'
BY <1>13, <1>0 DEF LoseAnswer, MayLose
<1>14. ASSUME NEW p \in Page, ReceiveGrant(p) PROVE ClientTypeOK'
BY <1>14, <1>0 DEF ReceiveGrant, Remember, Release
<1>15. ASSUME NEW p \in Page, ReceiveRefusal(p) PROVE ClientTypeOK'
BY <1>15, <1>0 DEF ReceiveRefusal, Remember, Release
<1>16. ASSUME NEW p \in Page, ReceiveLoss(p) PROVE ClientTypeOK'
BY <1>16, <1>0 DEF ReceiveLoss, Release
<1>17. ASSUME NEW c \in Request, ServeRotate(c) PROVE ClientTypeOK'
BY <1>17, <1>0 DEF ServeRotate, Rotate, browserVars
<1>18. ASSUME NEW c \in Request, ServeMint(c) PROVE ClientTypeOK'
BY <1>18, <1>0 DEF ServeMint, Mint, Finish, Conclude
<1>19. ASSUME NEW c \in Request, ServeReuse(c) PROVE ClientTypeOK'
BY <1>19, <1>0 DEF ServeReuse, RevokeReused, Finish, Conclude, TokensOf
<1>20. ASSUME NEW c \in Request, Break(c) PROVE ClientTypeOK'
  <2>1. PICK result \in {"refused", "lost"} : Conclude(c, result, NoToken)
    BY <1>20 DEF Break
  <2>2. /\ flight' \in [Page -> Flight] /\ call' \in [Page -> Request \cup {NoCall}]
        /\ ticket' \in [Page -> Token \cup {NoToken}]
    BY <2>1 DEF Conclude
  <2>3. /\ \A p \in Page : call'[p] # NoCall <=> flight'[p] = "handled"
        /\ \A p \in Page : ticket'[p] # NoToken <=> flight'[p] \in {"sent", "handled", "granted"}
    BY <2>1 DEF Conclude
  <2>4. strayed' \in SUBSET (Token \cup {NoToken}) /\ losses' \in Nat
    BY <1>20 DEF Break, MayLose, TypeOK, Call
  <2> QED
    BY <1>20, <1>0, <2>2, <2>3, <2>4 DEF Break, Abandon
<1>21. ASSUME NEW c \in Request, NEW t \in Token, ArriveLate(t, c) PROVE ClientTypeOK'
BY <1>21, <1>0 DEF ArriveLate, Refresh, Begin
<1>22. ASSUME NEW p \in Page, SignOut(p) PROVE ClientTypeOK'
BY <1>22, <1>0 DEF SignOut
<1>23. ASSUME NEW p \in Page, SignOutServed(p) PROVE ClientTypeOK'
BY <1>23, <1>0 DEF SignOutServed, Logout
<1>24. ASSUME NEW p \in Page, SignedOut(p) PROVE ClientTypeOK'
BY <1>24, <1>0 DEF SignedOut, Remember, MayLose
<1>25. ASSUME NEW t \in Token, Age(t) PROVE ClientTypeOK'
BY <1>25, <1>0 DEF Age
<1>26. ASSUME NEW c \in Request, NEW u \in User, SignInElsewhere(c, u) PROVE ClientTypeOK'
BY <1>26, <1>0 DEF SignInElsewhere, Login, Begin, browserVars
<1>27. ASSUME NEW u \in User, SignOutElsewhere(u) PROVE ClientTypeOK'
BY <1>27, <1>0 DEF SignOutElsewhere, LogoutAll, TokensOf
<1>28. CASE UNCHANGED clientVars
BY <1>28, <1>0 DEF clientVars, browserVars, vars
<1> QED
BY <1>1, <1>2, <1>3, <1>4, <1>5, <1>6, <1>7, <1>8, <1>9, <1>10, <1>11, <1>12, <1>13,
     <1>14, <1>15, <1>16, <1>17, <1>18, <1>19, <1>20, <1>21, <1>22, <1>23, <1>24, <1>25,
     <1>26, <1>27, <1>28 DEF ClientNext, Respond, Reach, Receive, Serve, Elsewhere

\* What the pages of a browser do drives the server only through the calls that
\* Sessions has: all that is proved of Sessions holds with the pages around it.
THEOREM PagesDriveSessions == ClientSpec => Spec
<1>1. ClientInit => Init
  BY DEF ClientInit
<1>2. [ClientNext]_clientVars => [Next]_vars
  BY ServerStep
<1> QED
  BY <1>1, <1>2, PTL DEF ClientSpec, Spec

LEMMA ClientTypeInit == ClientInit => ClientTypeOK
<1> SUFFICES ASSUME ClientInit PROVE ClientTypeOK
  OBVIOUS
<1>1. TypeOK
  BY SessionsAssumption DEF ClientInit, Init, TypeOK, Role, Change, Kept, Stage, Call
<1> QED
  BY <1>1, ClientAssumption DEF ClientInit, ClientTypeOK, Phase, Flight

\* Pages, callers and refreshes stay within their types: a page waits for a server
\* call, and holds a ticket, exactly in the states of its refresh that say so.
THEOREM ClientTypeCorrect == ClientSpec => []ClientTypeOK
<1> QED
  BY ClientTypeInit, ClientTypeStep, PTL DEF ClientSpec

-----------------------------------------------------------------------------
(* Signing out *)

LEMMA LeaveStep ==
  ASSUME ClientTypeOK, LeaveInv, [ClientNext]_clientVars
  PROVE  LeaveInv'
<1> USE SessionsAssumption, ClientAssumption
<1>0. revoked \subseteq revoked'
  BY ServerStep, ServerGrows DEF ClientTypeOK
<1> USE DEF ClientTypeOK, LeaveInv, SignOutSticks
<1>1. ASSUME NEW p \in Page, OpenPage(p) PROVE LeaveInv'
BY <1>1, <1>0 DEF OpenPage
<1>2. ASSUME NEW p \in Page, ClosePage(p) PROVE LeaveInv'
BY <1>2, <1>0 DEF ClosePage, Exchanging, Unarrived, MayLose
<1>3. ASSUME NEW p \in Page, SignIn(p) PROVE LeaveInv'
BY <1>3, <1>0 DEF SignIn, Remember, Minted
<1>4. ASSUME NEW p \in Page, FailSignIn(p) PROVE LeaveInv'
BY <1>4, <1>0 DEF FailSignIn, Remember
<1>5. ASSUME NEW q \in Caller, Send(q) PROVE LeaveInv'
BY <1>5, <1>0 DEF Send, Move
<1>6. ASSUME NEW q \in Caller, Answer(q) PROVE LeaveInv'
BY <1>6, <1>0 DEF Answer, Settle, Move
<1>7. ASSUME NEW q \in Caller, RefreshFirst(q) PROVE LeaveInv'
BY <1>7, <1>0 DEF RefreshFirst, Unauthorized, Move
<1>8. ASSUME NEW q \in Caller, RefreshShared(q) PROVE LeaveInv'
BY <1>8, <1>0 DEF RefreshShared, Unauthorized, Move
<1>9. ASSUME NEW q \in Caller, RefreshNothing(q) PROVE LeaveInv'
BY <1>9, <1>0 DEF RefreshNothing, Unauthorized, Settle, Move, Remember
<1>10. ASSUME NEW p \in Page, TurnAway(p) PROVE LeaveInv'
BY <1>10, <1>0 DEF TurnAway
<1>11. ASSUME NEW p \in Page, LoseRequest(p) PROVE LeaveInv'
BY <1>11, <1>0 DEF LoseRequest, Unarrived, MayLose
<1>12. ASSUME NEW p \in Page, NEW c \in Request, Arrive(p, c) PROVE LeaveInv'
BY <1>12, <1>0 DEF Arrive, Refresh, Begin
<1>13. ASSUME NEW p \in Page, LoseAnswer(p) PROVE LeaveInv'
BY <1>13, <1>0 DEF LoseAnswer, MayLose
<1>14. ASSUME NEW p \in Page, ReceiveGrant(p) PROVE LeaveInv'
BY <1>14, <1>0 DEF ReceiveGrant, Remember, Release
<1>15. ASSUME NEW p \in Page, ReceiveRefusal(p) PROVE LeaveInv'
BY <1>15, <1>0 DEF ReceiveRefusal, Remember, Release
<1>16. ASSUME NEW p \in Page, ReceiveLoss(p) PROVE LeaveInv'
BY <1>16, <1>0 DEF ReceiveLoss, Release
<1>17. ASSUME NEW c \in Request, ServeRotate(c) PROVE LeaveInv'
BY <1>17, <1>0 DEF ServeRotate, Rotate, browserVars
<1>18. ASSUME NEW c \in Request, ServeMint(c) PROVE LeaveInv'
BY <1>18, <1>0 DEF ServeMint, Mint, Finish, Conclude
<1>19. ASSUME NEW c \in Request, ServeReuse(c) PROVE LeaveInv'
BY <1>19, <1>0 DEF ServeReuse, RevokeReused, Finish, Conclude, TokensOf
<1>20. ASSUME NEW c \in Request, Break(c) PROVE LeaveInv'
BY <1>20, <1>0 DEF Break, Abandon, Finish, Conclude, MayLose
<1>21. ASSUME NEW c \in Request, NEW t \in Token, ArriveLate(t, c) PROVE LeaveInv'
BY <1>21, <1>0 DEF ArriveLate, Refresh, Begin
<1>22. ASSUME NEW p \in Page, SignOut(p) PROVE LeaveInv'
BY <1>22, <1>0 DEF SignOut
<1>23. ASSUME NEW p \in Page, SignOutServed(p) PROVE LeaveInv'
BY <1>23, <1>0 DEF SignOutServed, Logout
<1>24. ASSUME NEW p \in Page, SignedOut(p) PROVE LeaveInv'
  <2>1. leaving[p] \in revoked' \cup unheard' /\ unheard \subseteq unheard'
    BY <1>24 DEF SignedOut, MayLose, vars
  <2>2. /\ UNCHANGED <<revoked, open, flight, hurried>>
        /\ store' = [store EXCEPT ![p] = NoToken]
        /\ leaving' = [leaving EXCEPT ![p] = NoToken]
        /\ ended' = [ended EXCEPT ![p] = leaving[p]]
        /\ leaving[p] # NoToken
    BY <1>24 DEF SignedOut, Remember, vars
  <2>3. SignOutSticks'
    BY <2>1, <2>2
  <2> QED
    BY <2>2, <2>3
<1>25. ASSUME NEW t \in Token, Age(t) PROVE LeaveInv'
BY <1>25, <1>0 DEF Age
<1>26. ASSUME NEW c \in Request, NEW u \in User, SignInElsewhere(c, u) PROVE LeaveInv'
BY <1>26, <1>0 DEF SignInElsewhere, Login, Begin, browserVars
<1>27. ASSUME NEW u \in User, SignOutElsewhere(u) PROVE LeaveInv'
BY <1>27, <1>0 DEF SignOutElsewhere, LogoutAll, TokensOf
<1>28. CASE UNCHANGED clientVars
BY <1>28, <1>0 DEF clientVars, browserVars, vars
<1> QED
BY <1>1, <1>2, <1>3, <1>4, <1>5, <1>6, <1>7, <1>8, <1>9, <1>10, <1>11, <1>12, <1>13,
     <1>14, <1>15, <1>16, <1>17, <1>18, <1>19, <1>20, <1>21, <1>22, <1>23, <1>24, <1>25,
     <1>26, <1>27, <1>28 DEF ClientNext, Respond, Reach, Receive, Serve, Elsewhere

\* A sign-out lasts, unless a refresh was in flight beside it: onSettled clears the
\* session whatever became of the request, and no waiting caller brings it back.
THEOREM SignOutIsFinal == ClientSpec => []SignOutSticks
<1>1. ClientInit => LeaveInv
  BY SessionsAssumption DEF ClientInit, LeaveInv, SignOutSticks
<1>2. LeaveInv => SignOutSticks
  BY DEF LeaveInv
<1> QED
  BY <1>1, <1>2, ClientTypeInit, ClientTypeStep, LeaveStep, PTL DEF ClientSpec

-----------------------------------------------------------------------------
(* The causes of an alarm *)

LEMMA LinkStep ==
  ASSUME ClientTypeOK, LinkInv, [ClientNext]_clientVars
  PROVE  LinkInv'
<1> USE SessionsAssumption, ClientAssumption
<1>0. ClientTypeOK' /\ Minted \subseteq Minted' /\ \A t \in Minted : parent'[t] = parent[t]
  BY ClientTypeStep, ServerStep, ServerGrows DEF ClientTypeOK
<1> USE DEF LinkInv, Granted
<1>1. ASSUME NEW p \in Page, OpenPage(p) PROVE LinkInv'
BY <1>1, <1>0 DEF OpenPage, ClientTypeOK, TypeOK, Call, Minted, vars
<1>2. ASSUME NEW p \in Page, ClosePage(p) PROVE LinkInv'
BY <1>2, <1>0 DEF ClosePage, Exchanging, Unarrived, MayLose, ClientTypeOK, TypeOK, Call,
     Minted, vars
<1>3. ASSUME NEW p \in Page, SignIn(p) PROVE LinkInv'
BY <1>3, <1>0 DEF SignIn, Remember, Minted, ClientTypeOK, TypeOK, Call, Minted, vars
<1>4. ASSUME NEW p \in Page, FailSignIn(p) PROVE LinkInv'
BY <1>4, <1>0 DEF FailSignIn, Remember, ClientTypeOK, TypeOK, Call, Minted, vars
<1>5. ASSUME NEW q \in Caller, Send(q) PROVE LinkInv'
BY <1>5, <1>0 DEF Send, Move, ClientTypeOK, TypeOK, Call, Minted, vars
<1>6. ASSUME NEW q \in Caller, Answer(q) PROVE LinkInv'
BY <1>6, <1>0 DEF Answer, Settle, Move, ClientTypeOK, TypeOK, Call, Minted, vars
<1>7. ASSUME NEW q \in Caller, RefreshFirst(q) PROVE LinkInv'
BY <1>7, <1>0 DEF RefreshFirst, Unauthorized, Move, ClientTypeOK, TypeOK, Call, Minted,
     vars
<1>8. ASSUME NEW q \in Caller, RefreshShared(q) PROVE LinkInv'
BY <1>8, <1>0 DEF RefreshShared, Unauthorized, Move, ClientTypeOK, TypeOK, Call, Minted,
     vars
<1>9. ASSUME NEW q \in Caller, RefreshNothing(q) PROVE LinkInv'
BY <1>9, <1>0 DEF RefreshNothing, Unauthorized, Settle, Move, Remember, ClientTypeOK,
     TypeOK, Call, Minted, vars
<1>10. ASSUME NEW p \in Page, TurnAway(p) PROVE LinkInv'
BY <1>10, <1>0 DEF TurnAway, ClientTypeOK, TypeOK, Call, Minted, vars
<1>11. ASSUME NEW p \in Page, LoseRequest(p) PROVE LinkInv'
BY <1>11, <1>0 DEF LoseRequest, Unarrived, MayLose, ClientTypeOK, TypeOK, Call, Minted,
     vars
<1>12. ASSUME NEW p \in Page, NEW c \in Request, Arrive(p, c) PROVE LinkInv'
BY <1>12, <1>0 DEF Arrive, Refresh, Begin, ClientTypeOK, TypeOK, Call, Minted, vars
<1>13. ASSUME NEW p \in Page, LoseAnswer(p) PROVE LinkInv'
BY <1>13, <1>0 DEF LoseAnswer, MayLose, ClientTypeOK, TypeOK, Call, Minted, vars
<1>14. ASSUME NEW p \in Page, ReceiveGrant(p) PROVE LinkInv'
BY <1>14, <1>0 DEF ReceiveGrant, Remember, Release, ClientTypeOK, TypeOK, Call, Minted,
     vars
<1>15. ASSUME NEW p \in Page, ReceiveRefusal(p) PROVE LinkInv'
BY <1>15, <1>0 DEF ReceiveRefusal, Remember, Release, ClientTypeOK, TypeOK, Call,
     Minted, vars
<1>16. ASSUME NEW p \in Page, ReceiveLoss(p) PROVE LinkInv'
BY <1>16, <1>0 DEF ReceiveLoss, Release, ClientTypeOK, TypeOK, Call, Minted, vars
<1>17. ASSUME NEW c \in Request, ServeRotate(c) PROVE LinkInv'
BY <1>17, <1>0 DEF ServeRotate, Rotate, browserVars, ClientTypeOK, TypeOK, Call, Minted,
     vars
<1>18. ASSUME NEW c \in Request, ServeMint(c) PROVE LinkInv'
BY <1>18, <1>0 DEF ServeMint, Mint, Finish, Conclude, ClientTypeOK, TypeOK, Call,
     Minted, vars
<1>19. ASSUME NEW c \in Request, ServeReuse(c) PROVE LinkInv'
BY <1>19, <1>0 DEF ServeReuse, RevokeReused, Finish, Conclude, TokensOf, ClientTypeOK,
     TypeOK, Call, Minted, vars
<1>20. ASSUME NEW c \in Request, Break(c) PROVE LinkInv'
BY <1>20, <1>0 DEF Break, Abandon, Finish, Conclude, MayLose, ClientTypeOK, TypeOK,
     Call, Minted, vars
<1>21. ASSUME NEW c \in Request, NEW t \in Token, ArriveLate(t, c) PROVE LinkInv'
BY <1>21, <1>0 DEF ArriveLate, Refresh, Begin, ClientTypeOK, TypeOK, Call, Minted, vars
<1>22. ASSUME NEW p \in Page, SignOut(p) PROVE LinkInv'
BY <1>22, <1>0 DEF SignOut, ClientTypeOK, TypeOK, Call, Minted, vars
<1>23. ASSUME NEW p \in Page, SignOutServed(p) PROVE LinkInv'
BY <1>23, <1>0 DEF SignOutServed, Logout, ClientTypeOK, TypeOK, Call, Minted, vars
<1>24. ASSUME NEW p \in Page, SignedOut(p) PROVE LinkInv'
BY <1>24, <1>0 DEF SignedOut, Remember, MayLose, ClientTypeOK, TypeOK, Call, Minted,
     vars
<1>25. ASSUME NEW t \in Token, Age(t) PROVE LinkInv'
BY <1>25, <1>0 DEF Age, ClientTypeOK, TypeOK, Call, Minted, vars
<1>26. ASSUME NEW c \in Request, NEW u \in User, SignInElsewhere(c, u) PROVE LinkInv'
BY <1>26, <1>0 DEF SignInElsewhere, Login, Begin, browserVars, ClientTypeOK, TypeOK,
     Call, Minted, vars
<1>27. ASSUME NEW u \in User, SignOutElsewhere(u) PROVE LinkInv'
BY <1>27, <1>0 DEF SignOutElsewhere, LogoutAll, TokensOf, ClientTypeOK, TypeOK, Call,
     Minted, vars
<1>28. CASE UNCHANGED clientVars
BY <1>28, <1>0 DEF clientVars, browserVars, vars, ClientTypeOK, TypeOK, Call, Minted,
     vars
<1> QED
BY <1>1, <1>2, <1>3, <1>4, <1>5, <1>6, <1>7, <1>8, <1>9, <1>10, <1>11, <1>12, <1>13,
     <1>14, <1>15, <1>16, <1>17, <1>18, <1>19, <1>20, <1>21, <1>22, <1>23, <1>24, <1>25,
     <1>26, <1>27, <1>28 DEF ClientNext, Respond, Reach, Receive, Serve, Elsewhere

LEMMA CauseStep ==
  ASSUME ClientTypeOK, LeaveInv, LinkInv, CauseInv, [ClientNext]_clientVars
  PROVE  CauseInv'
<1> USE SessionsAssumption, ClientAssumption
<1>0. ClientTypeOK' /\ Minted \subseteq Minted' /\ \A t \in Minted : parent'[t] = parent[t]
  BY ClientTypeStep, ServerStep, ServerGrows DEF ClientTypeOK
<1> USE DEF CauseInv, AlarmHasCause, Cause, Used, Swapping, Granted
<1>1. ASSUME NEW p \in Page, OpenPage(p) PROVE CauseInv'
BY <1>1, <1>0 DEF OpenPage, LinkInv, LeaveInv, ClientTypeOK, TypeOK, Call, Minted, vars
<1>2. ASSUME NEW p \in Page, ClosePage(p) PROVE CauseInv'
BY <1>2, <1>0 DEF ClosePage, Exchanging, Unarrived, MayLose, LinkInv, LeaveInv,
     ClientTypeOK, TypeOK, Call, Minted, vars
<1>3. ASSUME NEW p \in Page, SignIn(p) PROVE CauseInv'
BY <1>3, <1>0 DEF SignIn, Remember, Minted, LinkInv, LeaveInv, ClientTypeOK, TypeOK,
     Call, Minted, vars
<1>4. ASSUME NEW p \in Page, FailSignIn(p) PROVE CauseInv'
BY <1>4, <1>0 DEF FailSignIn, Remember, LinkInv, LeaveInv, ClientTypeOK, TypeOK, Call,
     Minted, vars
<1>5. ASSUME NEW q \in Caller, Send(q) PROVE CauseInv'
BY <1>5, <1>0 DEF Send, Move, LinkInv, LeaveInv, ClientTypeOK, TypeOK, Call, Minted,
     vars
<1>6. ASSUME NEW q \in Caller, Answer(q) PROVE CauseInv'
BY <1>6, <1>0 DEF Answer, Settle, Move, LinkInv, LeaveInv, ClientTypeOK, TypeOK, Call,
     Minted, vars
<1>7. ASSUME NEW q \in Caller, RefreshFirst(q) PROVE CauseInv'
BY <1>7, <1>0 DEF RefreshFirst, Unauthorized, Move, LinkInv, LeaveInv, ClientTypeOK,
     TypeOK, Call, Minted, vars
<1>8. ASSUME NEW q \in Caller, RefreshShared(q) PROVE CauseInv'
BY <1>8, <1>0 DEF RefreshShared, Unauthorized, Move, LinkInv, LeaveInv, ClientTypeOK,
     TypeOK, Call, Minted, vars
<1>9. ASSUME NEW q \in Caller, RefreshNothing(q) PROVE CauseInv'
BY <1>9, <1>0 DEF RefreshNothing, Unauthorized, Settle, Move, Remember, LinkInv,
     LeaveInv, ClientTypeOK, TypeOK, Call, Minted, vars
<1>10. ASSUME NEW p \in Page, TurnAway(p) PROVE CauseInv'
BY <1>10, <1>0 DEF TurnAway, LinkInv, LeaveInv, ClientTypeOK, TypeOK, Call, Minted, vars
<1>11. ASSUME NEW p \in Page, LoseRequest(p) PROVE CauseInv'
BY <1>11, <1>0 DEF LoseRequest, Unarrived, MayLose, LinkInv, LeaveInv, ClientTypeOK,
     TypeOK, Call, Minted, vars
<1>12. ASSUME NEW p \in Page, NEW c \in Request, Arrive(p, c) PROVE CauseInv'
BY <1>12, <1>0 DEF Arrive, Refresh, Begin, LinkInv, LeaveInv, ClientTypeOK, TypeOK,
     Call, Minted, vars
<1>13. ASSUME NEW p \in Page, LoseAnswer(p) PROVE CauseInv'
BY <1>13, <1>0 DEF LoseAnswer, MayLose, LinkInv, LeaveInv, ClientTypeOK, TypeOK, Call,
     Minted, vars
<1>14. ASSUME NEW p \in Page, ReceiveGrant(p) PROVE CauseInv'
BY <1>14, <1>0 DEF ReceiveGrant, Remember, Release, LinkInv, LeaveInv, ClientTypeOK,
     TypeOK, Call, Minted, vars
<1>15. ASSUME NEW p \in Page, ReceiveRefusal(p) PROVE CauseInv'
BY <1>15, <1>0 DEF ReceiveRefusal, Remember, Release, LinkInv, LeaveInv, ClientTypeOK,
     TypeOK, Call, Minted, vars
<1>16. ASSUME NEW p \in Page, ReceiveLoss(p) PROVE CauseInv'
BY <1>16, <1>0 DEF ReceiveLoss, Release, LinkInv, LeaveInv, ClientTypeOK, TypeOK, Call,
     Minted, vars
<1>17. ASSUME NEW c \in Request, ServeRotate(c) PROVE CauseInv'
BY <1>17, <1>0 DEF ServeRotate, Rotate, browserVars, LinkInv, LeaveInv, ClientTypeOK,
     TypeOK, Call, Minted, vars
<1>18. ASSUME NEW c \in Request, ServeMint(c) PROVE CauseInv'
BY <1>18, <1>0 DEF ServeMint, Mint, Finish, Conclude, LinkInv, LeaveInv, ClientTypeOK,
     TypeOK, Call, Minted, vars
<1>19. ASSUME NEW c \in Request, ServeReuse(c) PROVE CauseInv'
BY <1>19, <1>0 DEF ServeReuse, RevokeReused, Finish, Conclude, TokensOf, LinkInv,
     LeaveInv, ClientTypeOK, TypeOK, Call, Minted, vars
<1>20. ASSUME NEW c \in Request, Break(c) PROVE CauseInv'
BY <1>20, <1>0 DEF Break, Abandon, Finish, Conclude, MayLose, LinkInv, LeaveInv,
     ClientTypeOK, TypeOK, Call, Minted, vars
<1>21. ASSUME NEW c \in Request, NEW t \in Token, ArriveLate(t, c) PROVE CauseInv'
BY <1>21, <1>0 DEF ArriveLate, Refresh, Begin, LinkInv, LeaveInv, ClientTypeOK, TypeOK,
     Call, Minted, vars
<1>22. ASSUME NEW p \in Page, SignOut(p) PROVE CauseInv'
BY <1>22, <1>0 DEF SignOut, LinkInv, LeaveInv, ClientTypeOK, TypeOK, Call, Minted, vars
<1>23. ASSUME NEW p \in Page, SignOutServed(p) PROVE CauseInv'
BY <1>23, <1>0 DEF SignOutServed, Logout, LinkInv, LeaveInv, ClientTypeOK, TypeOK, Call,
     Minted, vars
<1>24. ASSUME NEW p \in Page, SignedOut(p) PROVE CauseInv'
BY <1>24, <1>0 DEF SignedOut, Remember, MayLose, LinkInv, LeaveInv, ClientTypeOK,
     TypeOK, Call, Minted, vars
<1>25. ASSUME NEW t \in Token, Age(t) PROVE CauseInv'
BY <1>25, <1>0 DEF Age, LinkInv, LeaveInv, ClientTypeOK, TypeOK, Call, Minted, vars
<1>26. ASSUME NEW c \in Request, NEW u \in User, SignInElsewhere(c, u) PROVE CauseInv'
BY <1>26, <1>0 DEF SignInElsewhere, Login, Begin, browserVars, LinkInv, LeaveInv,
     ClientTypeOK, TypeOK, Call, Minted, vars
<1>27. ASSUME NEW u \in User, SignOutElsewhere(u) PROVE CauseInv'
BY <1>27, <1>0 DEF SignOutElsewhere, LogoutAll, TokensOf, LinkInv, LeaveInv,
     ClientTypeOK, TypeOK, Call, Minted, vars
<1>28. CASE UNCHANGED clientVars
BY <1>28, <1>0 DEF clientVars, browserVars, vars, LinkInv, LeaveInv, ClientTypeOK,
     TypeOK, Call, Minted, vars
<1> QED
BY <1>1, <1>2, <1>3, <1>4, <1>5, <1>6, <1>7, <1>8, <1>9, <1>10, <1>11, <1>12, <1>13,
     <1>14, <1>15, <1>16, <1>17, <1>18, <1>19, <1>20, <1>21, <1>22, <1>23, <1>24, <1>25,
     <1>26, <1>27, <1>28 DEF ClientNext, Respond, Reach, Receive, Serve, Elsewhere

\* However many calls of however many pages meet expired access tokens, the refresh
\* that the calls of a page share raises no alarm of its own: a token presented
\* after its exchange was shared by pages, strayed, or was revoked by other means.
THEOREM AlarmsHaveCauses == ClientSpec => []AlarmHasCause
<1>1. ClientInit => LinkInv
  BY SessionsAssumption, ClientAssumption DEF ClientInit, Init, LinkInv, Granted, Minted, Call
<1>2. ClientInit => CauseInv
  BY SessionsAssumption, ClientAssumption
     DEF ClientInit, Init, CauseInv, AlarmHasCause, Cause, Used, Swapping, Granted, Call
<1>3. ClientInit => LeaveInv
  BY SessionsAssumption DEF ClientInit, LeaveInv, SignOutSticks
<1>4. CauseInv => AlarmHasCause
  BY DEF CauseInv
<1> QED
  BY <1>1, <1>2, <1>3, <1>4, ClientTypeInit, ClientTypeStep, LeaveStep, LinkStep,
     CauseStep, PTL DEF ClientSpec
=============================================================================
