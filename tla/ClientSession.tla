----------------------------- MODULE ClientSession -----------------------------
(***************************************************************************)
(* The browser's side of a session (frontend/src/api/client.ts, auth), set  *)
(* against the server of Sessions: pages that keep the session in memory    *)
(* and persist it in one localStorage, API calls that meet an expired       *)
(* access token, the refresh they share, and signing out.                   *)
(*                                                                         *)
(* A session is named by its refresh token; the access token that came with *)
(* it has expired when the token is in aged. Nothing but time ends an       *)
(* access token. All pages belong to one user in one browser.               *)
(***************************************************************************)
EXTENDS Sessions

CONSTANTS
  Page,       \* pages of the application open in the browser
  Caller,     \* concurrent apiFetch calls
  PageOf,     \* the page each of them belongs to
  MaxLosses,  \* bound: fetches that fail and pages that are closed
  MaxSignOuts,\* bound: clicks on "Sign out"
  NoCall

ASSUME ClientAssumption ==
  /\ PageOf \in [Caller -> Page]
  /\ NoCall \notin Request
  /\ MaxLosses \in Nat /\ MaxSignOuts \in Nat

VARIABLES
  open,     \* pages that are loaded
  store,    \* per page, the session in memory (NoToken: cleared)
  persisted,\* the session in localStorage
  phase,    \* per caller: stage of its apiFetch
  carried,  \* per caller: the session its request carries
  flight,   \* per page: state of the refreshPromise
  call,     \* per page: the server call its refresh is handled by
  ticket,   \* per page: the token presented, then the token granted
  leaving,  \* per page: the token its running sign-out presents
  ended,    \* history, per page: the token signed out with, until the next session
  aged, known, \* expired access tokens; tokens a page has received
  adrift,   \* tokens of refreshes nobody awaits, on their way to the server (two of
            \* one token count as one)
  losses, signOuts,   \* what is used up of the bounds
  shared,   \* history: tokens two pages had at once
  strayed,  \* history: tokens whose refresh was answered to nobody
  withdrawn,\* history: tokens revoked otherwise than by their exchange
  unheard,  \* history: tokens whose logout request was lost
  hurried   \* history: pages whose sign-out met a refresh in flight

pageVars   == <<open, store, persisted>>
callerVars == <<phase, carried>>
flightVars == <<flight, call, ticket>>
networkVars == <<adrift, losses, signOuts>>
leaveVars  == <<leaving, ended>>
causeVars  == <<shared, strayed, withdrawn, unheard, hurried>>
browserVars == <<pageVars, callerVars, flightVars, leaveVars, aged, known, networkVars,
                 causeVars>>
clientVars == <<vars, browserVars>>

Phase  == {"idle", "sent", "waiting", "replayed"}
Flight == {"none", "sent", "handled", "granted", "refused", "lost"}

ClientInit ==
  /\ Init
  /\ open = {}
  /\ store = [p \in Page |-> NoToken]
  /\ persisted = NoToken
  /\ phase = [q \in Caller |-> "idle"]
  /\ carried = [q \in Caller |-> NoToken]
  /\ flight = [p \in Page |-> "none"]
  /\ call = [p \in Page |-> NoCall]
  /\ ticket = [p \in Page |-> NoToken]
  /\ leaving = [p \in Page |-> NoToken] /\ ended = [p \in Page |-> NoToken]
  /\ aged = {} /\ known = {}
  /\ adrift = {} /\ losses = 0 /\ signOuts = 0
  /\ shared = {} /\ strayed = {} /\ withdrawn = {} /\ unheard = {} /\ hurried = {}

MayLose == losses < MaxLosses /\ losses' = losses + 1

-----------------------------------------------------------------------------
(* Pages *)

\* A page is loaded: the store hydrates from localStorage, once.
OpenPage(p) ==
  /\ p \notin open
  /\ open' = open \cup {p}
  /\ store' = [store EXCEPT ![p] = persisted]
  /\ shared' = shared \cup {t \in {persisted} \ {NoToken} : \E o \in open : store[o] = t}
  /\ UNCHANGED <<vars, persisted, callerVars, flightVars, leaveVars, aged, known,
                 networkVars, strayed, withdrawn, unheard, hurried>>

\* The token whose refresh page p waits for, until it has heard the answer.
Exchanging(p) ==
  CASE flight[p] = "handled" -> {ticket[p]}
    [] flight[p] = "granted" -> {parent[ticket[p]]}
    [] OTHER                 -> {}

\* The token of a refresh that page p has sent and no server has seen.
Unarrived(p) == {t \in {ticket[p]} : flight[p] = "sent"}

\* Closed or reloaded: memory and promises are gone, requests under way are not.
\* One that has not arrived yet may still do so.
ClosePage(p) ==
  /\ p \in open
  /\ MayLose
  /\ open' = open \ {p}
  /\ store' = [store EXCEPT ![p] = NoToken]
  /\ phase' = [q \in Caller |-> IF PageOf[q] = p THEN "idle" ELSE phase[q]]
  /\ carried' = [q \in Caller |-> IF PageOf[q] = p THEN NoToken ELSE carried[q]]
  /\ flight' = [flight EXCEPT ![p] = "none"]
  /\ call' = [call EXCEPT ![p] = NoCall]
  /\ ticket' = [ticket EXCEPT ![p] = NoToken]
  /\ leaving' = [leaving EXCEPT ![p] = NoToken]
  /\ ended' = [ended EXCEPT ![p] = NoToken]
  /\ adrift' = adrift \cup Unarrived(p)
  /\ strayed' = strayed \cup Exchanging(p) \cup Unarrived(p)
  /\ hurried' = hurried \ {p}
  /\ UNCHANGED <<vars, persisted, aged, known, signOuts, shared, withdrawn, unheard>>

\* setSession() and clearSession(): memory and localStorage.
Remember(p, t) ==
  /\ store' = [store EXCEPT ![p] = t]
  /\ persisted' = t

\* LoginPage: the session of a login() that some server call has created.
SignIn(p) ==
  /\ p \in open /\ store[p] = NoToken
  /\ \E t \in Minted \ known :
       /\ parent[t] = NoToken
       /\ Remember(p, t)
       /\ known' = known \cup {t}
  /\ hurried' = hurried \ {x \in {p} : leaving[p] = NoToken}
  /\ ended' = [ended EXCEPT ![p] = NoToken]
  /\ UNCHANGED <<vars, open, callerVars, flightVars, leaving, aged, networkVars,
                 shared, strayed, withdrawn, unheard>>

\* A wrong password is a 401 as well: there is nothing to refresh, and the session
\* is cleared, the one that other pages have persisted included.
FailSignIn(p) ==
  /\ p \in open /\ store[p] = NoToken /\ flight[p] = "none"
  /\ Remember(p, NoToken)
  /\ UNCHANGED <<vars, open, callerVars, flightVars, leaveVars, aged, known, networkVars,
                 causeVars>>

\* The access token's lifetime is over.
Age(t) ==
  /\ t \in known \ aged
  /\ aged' = aged \cup {t}
  /\ UNCHANGED <<vars, pageVars, callerVars, flightVars, leaveVars, known, networkVars,
                 causeVars>>

-----------------------------------------------------------------------------
(* apiFetch() *)

Move(q, next) == phase' = [phase EXCEPT ![q] = next]

\* performFetch() reads the access token of the moment. Pages without a session
\* show LoginPage and fetch nothing.
Send(q) == LET p == PageOf[q] IN
  /\ phase[q] = "idle"
  /\ store[p] # NoToken
  /\ Move(q, "sent")
  /\ carried' = [carried EXCEPT ![q] = store[p]]
  /\ UNCHANGED <<vars, pageVars, flightVars, leaveVars, aged, known, networkVars, causeVars>>

Settle(q) ==
  /\ Move(q, "idle")
  /\ carried' = [carried EXCEPT ![q] = NoToken]

\* Any answer but a 401 (the token may have expired since it was checked), a
\* rejected fetch, or any answer at all to a replay.
Answer(q) ==
  /\ phase[q] \in {"sent", "replayed"}
  /\ Settle(q)
  /\ UNCHANGED <<vars, pageVars, flightVars, leaveVars, aged, known, networkVars, causeVars>>

Unauthorized(q) == phase[q] = "sent" /\ carried[q] \in aged

\* Mutation: every 401 starts a refresh of its own.
RefreshEach(q) == LET p == PageOf[q] IN
  /\ Unauthorized(q)
  /\ store[p] # NoToken
  /\ flight' = [flight EXCEPT ![p] = "sent"]
  /\ call' = [call EXCEPT ![p] = NoCall]
  /\ ticket' = [ticket EXCEPT ![p] = store[p]]
  /\ Move(q, "waiting")
  /\ hurried' = hurried \cup {x \in {p} : leaving[p] # NoToken}
  /\ UNCHANGED <<vars, pageVars, carried, leaveVars, aged, known, networkVars, shared,
                 strayed, withdrawn, unheard>>

\* A 401 with no refresh in flight starts one, for the session of the moment.
RefreshFirst(q) == LET p == PageOf[q] IN
  /\ Unauthorized(q)
  /\ flight[p] = "none"
  /\ store[p] # NoToken
  /\ flight' = [flight EXCEPT ![p] = "sent"]
  /\ ticket' = [ticket EXCEPT ![p] = store[p]]
  /\ Move(q, "waiting")
  /\ hurried' = hurried \cup {x \in {p} : leaving[p] # NoToken}
  /\ UNCHANGED <<vars, pageVars, call, carried, leaveVars, aged, known, networkVars,
                 shared, strayed, withdrawn, unheard>>

\* Everyone else awaits the same promise.
RefreshShared(q) == LET p == PageOf[q] IN
  /\ Unauthorized(q)
  /\ flight[p] # "none"
  /\ Move(q, "waiting")
  /\ UNCHANGED <<vars, pageVars, flightVars, carried, leaveVars, aged, known,
                 networkVars, causeVars>>

\* No session left to refresh: cleared again, and the 401 stands.
RefreshNothing(q) == LET p == PageOf[q] IN
  /\ Unauthorized(q)
  /\ flight[p] = "none"
  /\ store[p] = NoToken
  /\ Remember(p, NoToken)
  /\ Settle(q)
  /\ UNCHANGED <<vars, open, flightVars, leaveVars, aged, known, networkVars, causeVars>>

-----------------------------------------------------------------------------
(* refreshSession() and the server *)

\* Tokens are a bound: the server takes up an exchange only if one is left for it.
Spare == Cardinality(Token \ Minted) > Cardinality({c \in Request : stage[c] \in {"rotate", "mint"}})

\* The request reaches authService.refresh().
Arrive(p, c) ==
  /\ flight[p] = "sent"
  /\ ticket[p] \in revoked \/ Spare
  /\ Refresh(c, ticket[p])
  /\ flight' = [flight EXCEPT ![p] = "handled"]
  /\ call' = [call EXCEPT ![p] = c]
  /\ UNCHANGED <<pageVars, callerVars, ticket, leaveVars, aged, known, networkVars, causeVars>>

\* A request arrives that the page has given up.
ArriveLate(t, c) ==
  /\ t \in adrift
  /\ t \in revoked \/ Spare
  /\ Refresh(c, t)
  /\ adrift' = adrift \ {t}
  /\ UNCHANGED <<pageVars, callerVars, flightVars, leaveVars, aged, known, losses,
                 signOuts, causeVars>>

\* It is turned away before: an expired token, a rate limit, an error.
TurnAway(p) ==
  /\ flight[p] = "sent"
  /\ flight' = [flight EXCEPT ![p] = "refused"]
  /\ ticket' = [ticket EXCEPT ![p] = NoToken]
  /\ UNCHANGED <<vars, pageVars, callerVars, call, leaveVars, aged, known, networkVars,
                 causeVars>>

\* The fetch rejects before the server has seen the request, which may be under way.
LoseRequest(p) ==
  /\ flight[p] = "sent"
  /\ MayLose
  /\ flight' = [flight EXCEPT ![p] = "lost"]
  /\ ticket' = [ticket EXCEPT ![p] = NoToken]
  /\ adrift' = adrift \cup Unarrived(p)
  /\ strayed' = strayed \cup Unarrived(p)
  /\ UNCHANGED <<vars, pageVars, callerVars, call, leaveVars, aged, known, signOuts,
                 shared, withdrawn, unheard, hurried>>

\* The fetch rejects although the server goes on with the call: whatever it
\* answers, nobody hears it.
LoseAnswer(p) ==
  /\ flight[p] = "handled"
  /\ MayLose
  /\ flight' = [flight EXCEPT ![p] = "lost"]
  /\ call' = [call EXCEPT ![p] = NoCall]
  /\ ticket' = [ticket EXCEPT ![p] = NoToken]
  /\ strayed' = strayed \cup {ticket[p]}
  /\ UNCHANGED <<vars, pageVars, callerVars, leaveVars, aged, known, adrift, signOuts,
                 shared, withdrawn, unheard, hurried>>

\* The call ends, and the page it was for gets the answer.
Conclude(c, result, granted) ==
  LET heard == {p \in Page : call[p] = c} IN
  /\ flight' = [p \in Page |-> IF p \in heard THEN result ELSE flight[p]]
  /\ call' = [p \in Page |-> IF p \in heard THEN NoCall ELSE call[p]]
  /\ ticket' = [p \in Page |-> IF p \in heard THEN granted ELSE ticket[p]]

\* A server call of this user does its next step.
ServeRotate(c) == Rotate(c) /\ UNCHANGED browserVars

ServeMint(c) ==
  /\ Mint(c)
  /\ \E t \in Token : owner[t] # owner'[t] /\ Conclude(c, "granted", t)
  /\ UNCHANGED <<pageVars, callerVars, leaveVars, aged, known, networkVars, causeVars>>

ServeReuse(c) ==
  /\ RevokeReused(c)
  /\ Conclude(c, "refused", NoToken)
  /\ withdrawn' = withdrawn \cup TokensOf(who[c])
  /\ UNCHANGED <<pageVars, callerVars, leaveVars, aged, known, networkVars, shared,
                 strayed, unheard, hurried>>

Serve(c) == ServeRotate(c) \/ ServeMint(c) \/ ServeReuse(c)

\* The process dies, or an await rejects: a 500, or no answer at all.
Break(c) ==
  /\ Abandon(c)
  /\ MayLose
  /\ \E result \in {"refused", "lost"} : Conclude(c, result, NoToken)
  /\ strayed' = strayed \cup ({presented[c]} \ {NoToken})
  /\ UNCHANGED <<pageVars, callerVars, leaveVars, aged, known, adrift, signOuts,
                 shared, withdrawn, unheard, hurried>>

\* The callers that waited for the refresh go on.
Release(p, next) ==
  LET held == {q \in Caller : PageOf[q] = p /\ phase[q] = "waiting"} IN
  /\ phase' = [q \in Caller |-> IF q \in held THEN next ELSE phase[q]]
  /\ carried' = [q \in Caller |-> IF q \notin held THEN carried[q]
                                   ELSE IF next = "replayed" THEN ticket[p] ELSE NoToken]

\* setSession(), and every waiting call is replayed once with the new token.
ReceiveGrant(p) ==
  /\ flight[p] = "granted"
  /\ Remember(p, ticket[p])
  /\ known' = known \cup {ticket[p]}
  /\ Release(p, "replayed")
  /\ flight' = [flight EXCEPT ![p] = "none"]
  /\ ticket' = [ticket EXCEPT ![p] = NoToken]
  /\ UNCHANGED <<vars, open, call, leaveVars, aged, networkVars, causeVars>>

\* Mutation: the settled promise of a refused refresh is kept.
KeepRefusal(p) ==
  /\ flight[p] = "refused"
  /\ store[p] # NoToken
  /\ Remember(p, NoToken)
  /\ Release(p, "idle")
  /\ UNCHANGED <<vars, open, flightVars, leaveVars, aged, known, networkVars, causeVars>>

\* Not ok: clearSession(), whatever the status, and the 401s stand.
ReceiveRefusal(p) ==
  /\ flight[p] = "refused"
  /\ Remember(p, NoToken)
  /\ Release(p, "idle")
  /\ flight' = [flight EXCEPT ![p] = "none"]
  /\ UNCHANGED <<vars, open, call, ticket, leaveVars, aged, known, networkVars, causeVars>>

\* The promise rejects; the session is left as it is.
ReceiveLoss(p) ==
  /\ flight[p] = "lost"
  /\ Release(p, "idle")
  /\ flight' = [flight EXCEPT ![p] = "none"]
  /\ UNCHANGED <<vars, pageVars, call, ticket, leaveVars, aged, known, networkVars,
                 causeVars>>

-----------------------------------------------------------------------------
(* Header: signing out *)

\* logout() with the token of the last render.
SignOut(p) ==
  /\ store[p] # NoToken /\ leaving[p] = NoToken
  /\ signOuts < MaxSignOuts
  /\ signOuts' = signOuts + 1
  /\ leaving' = [leaving EXCEPT ![p] = store[p]]
  /\ hurried' = hurried \cup {x \in {p} : flight[p] # "none"}
  /\ UNCHANGED <<vars, pageVars, callerVars, flightVars, ended, aged, known, adrift,
                 losses, shared, strayed, withdrawn, unheard>>

\* The server revokes it, if it is not revoked yet.
SignOutServed(p) ==
  /\ leaving[p] # NoToken
  /\ Logout(leaving[p])
  /\ withdrawn' = withdrawn \cup {leaving[p]}
  /\ UNCHANGED <<pageVars, callerVars, flightVars, leaveVars, aged, known, networkVars,
                 shared, strayed, unheard, hurried>>

\* Mutation: the store is left to the next 401.
LeftSignedIn(p) ==
  /\ leaving[p] # NoToken
  /\ leaving[p] \in revoked
  /\ leaving' = [leaving EXCEPT ![p] = NoToken]
  /\ ended' = [ended EXCEPT ![p] = leaving[p]]
  /\ UNCHANGED <<vars, pageVars, callerVars, flightVars, aged, known, networkVars,
                 causeVars>>

\* onSettled: the session is cleared whether or not the server heard of it.
SignedOut(p) ==
  /\ leaving[p] # NoToken
  /\ \/ leaving[p] \in revoked /\ UNCHANGED <<losses, unheard>>
     \/ MayLose /\ unheard' = unheard \cup {leaving[p]}
  /\ Remember(p, NoToken)
  /\ leaving' = [leaving EXCEPT ![p] = NoToken]
  /\ ended' = [ended EXCEPT ![p] = leaving[p]]
  /\ UNCHANGED <<vars, open, callerVars, flightVars, aged, known, adrift, signOuts, shared,
                 strayed, withdrawn, hurried>>

-----------------------------------------------------------------------------

\* What the user does on this login page and on other devices: sign in, or end
\* every session.
SignInElsewhere(c, u) == Spare /\ Login(c, u) /\ UNCHANGED browserVars

SignOutElsewhere(u) ==
  /\ LogoutAll(u)
  /\ signOuts < MaxSignOuts
  /\ signOuts' = signOuts + 1
  /\ withdrawn' = withdrawn \cup TokensOf(u)
  /\ UNCHANGED <<pageVars, callerVars, flightVars, leaveVars, aged, known, adrift,
                 losses, shared, strayed, unheard, hurried>>

Elsewhere == \E u \in User : SignOutElsewhere(u) \/ \E c \in Request : SignInElsewhere(c, u)

Respond(q) ==
  Answer(q) \/ RefreshFirst(q) \/ RefreshShared(q) \/ RefreshNothing(q)

Reach(p)   == TurnAway(p) \/ LoseRequest(p) \/ \E c \in Request : Arrive(p, c)
Receive(p) == ReceiveGrant(p) \/ ReceiveRefusal(p) \/ ReceiveLoss(p)

ClientNext ==
  \/ \E p \in Page : OpenPage(p) \/ ClosePage(p) \/ SignIn(p) \/ FailSignIn(p)
  \/ \E q \in Caller : Send(q) \/ Respond(q)
  \/ \E p \in Page : Reach(p) \/ LoseAnswer(p) \/ Receive(p)
  \/ \E c \in Request : Serve(c) \/ Break(c) \/ \E t \in Token : ArriveLate(t, c)
  \/ \E p \in Page : SignOut(p) \/ SignOutServed(p) \/ SignedOut(p)
  \/ \E t \in Token : Age(t)
  \/ Elsewhere

ClientSpec == ClientInit /\ [][ClientNext]_clientVars

\* Fetches end, in an answer or an error; server calls that have begun go on; and a
\* page whose promise has settled runs what was waiting for it.
ClientFairSpec ==
  /\ ClientSpec
  /\ \A q \in Caller : WF_clientVars(Respond(q))
  /\ \A p \in Page : WF_clientVars(Reach(p)) /\ WF_clientVars(Receive(p))
  /\ \A c \in Request : WF_clientVars(Serve(c))

-----------------------------------------------------------------------------
(* Properties *)

\* Pages, callers and refreshes stay within their types.
ClientTypeOK ==
  /\ TypeOK
  /\ open \in SUBSET Page
  /\ store \in [Page -> Token \cup {NoToken}] /\ persisted \in Token \cup {NoToken}
  /\ phase \in [Caller -> Phase]
  /\ carried \in [Caller -> Token \cup {NoToken}]
  /\ flight \in [Page -> Flight]
  /\ call \in [Page -> Request \cup {NoCall}]
  /\ \A p \in Page : call[p] # NoCall <=> flight[p] = "handled"
  /\ ticket \in [Page -> Token \cup {NoToken}]
  /\ \A p \in Page : ticket[p] # NoToken <=> flight[p] \in {"sent", "handled", "granted"}
  /\ leaving \in [Page -> Token \cup {NoToken}] /\ ended \in [Page -> Token \cup {NoToken}]
  /\ known \in SUBSET Token /\ aged \subseteq known
  /\ adrift \in SUBSET Token /\ losses \in Nat /\ signOuts \in Nat
  /\ shared \in SUBSET Token /\ strayed \in SUBSET (Token \cup {NoToken})
  /\ withdrawn \subseteq revoked /\ unheard \in SUBSET Token
  /\ hurried \in SUBSET Page

\* However many calls of a page meet the expired access token at once, the refresh
\* they share is not taken for a replay: what reuse detection reacts to is a token
\* two pages had, one whose exchange no page heard of, or one that was revoked by
\* other means than its exchange.
AlarmHasCause ==
  \A c \in Request : stage[c] = "revokeAll"
                       => presented[c] \in shared \cup strayed \cup withdrawn

\* A page that has signed out has no session, and the server revoked it unless the
\* request was lost, whatever its callers were waiting for; a refresh in flight
\* during the sign-out is the one thing that brings a session back.
SignOutSticks ==
  \A p \in Page : ended[p] # NoToken /\ p \notin hurried =>
    store[p] = NoToken /\ ended[p] \in revoked \cup unheard

\* Every call of apiFetch settles: no caller waits for a promise nobody settles.
CallersSettle ==
  \A q \in Caller : phase[q] # "idle" ~> phase[q] = "idle"

(* What makes SignOutSticks and AlarmHasCause inductive *)

\* A sign-out that was not hurried had no refresh beside it, and has none after it.
LeaveInv ==
  /\ SignOutSticks
  /\ \A p \in Page :
       /\ p \notin open => /\ store[p] = NoToken /\ flight[p] = "none"
                          /\ leaving[p] = NoToken /\ ended[p] = NoToken
       /\ flight[p] # "none" /\ (leaving[p] # NoToken \/ ended[p] # NoToken)
            => p \in hurried

Cause == shared \cup strayed \cup withdrawn

\* A page uses the token it stores, and the one its refresh has presented until it
\* has heard the answer.
Granted(p)  == flight[p] = "granted"
Used(p, t)  == \/ store[p] = t
               \/ ticket[p] = t /\ flight[p] \in {"sent", "handled"}
               \/ Granted(p) /\ parent[ticket[p]] = t

\* The server is past the revocation of t for a refresh page p waits for.
Swapping(p, t) == \/ flight[p] = "handled" /\ ticket[p] = t /\ stage[call[p]] = "mint"
                  \/ Granted(p) /\ parent[ticket[p]] = t

\* What pages and server calls know of each other's refresh.
LinkInv ==
  /\ known \subseteq Minted /\ adrift \subseteq strayed /\ strayed \subseteq Minted
  /\ \A p \in Page : store[p] \in known \cup {NoToken}
  /\ persisted \in known \cup {NoToken}
  /\ \A p \in Page : flight[p] \in {"sent", "handled"} => ticket[p] \in known
  /\ \A p \in Page : Granted(p) => ticket[p] \in Minted \ known /\ parent[ticket[p]] \in known
  /\ \A p, q \in Page : Granted(p) /\ Granted(q) /\ ticket[p] = ticket[q] => p = q
  /\ \A p \in Page : flight[p] = "handled" =>
       presented[call[p]] = ticket[p] /\ stage[call[p]] \in {"rotate", "mint", "revokeAll"}
  /\ \A p, q \in Page : flight[p] = "handled" /\ call[p] = call[q] => p = q
  /\ \A c \in Request : presented[c] # NoToken => presented[c] \in known \cup strayed

\* A token without a cause has one user, who stores it if it is persisted; and once
\* revoked, it is used only until the page has its successor.
CauseInv ==
  /\ AlarmHasCause
  /\ revoked \subseteq known \cup Cause
  /\ \A c \in Request : presented[c] \in Token \ Cause => \E p \in Page : call[p] = c
  /\ \A t \in Token \ Cause : \A p, q \in Page : Used(p, t) /\ Used(q, t) => p = q
  /\ \A p \in Page : persisted \in Token \ Cause /\ Used(p, persisted) => store[p] = persisted
  /\ \A t \in revoked \ Cause : \A p \in Page : Used(p, t) => Swapping(p, t)
  /\ persisted \in revoked \ Cause => \E p \in Page : store[p] = persisted

(* What the documentation claims and the code does not keep *)

\* A correctly behaving client never presents a token it has already exchanged.
NeverPresentsExchanged ==
  \A c \in Request : stage[c] = "revokeAll" => Children(presented[c]) = {}
=============================================================================
