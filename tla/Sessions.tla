----------------------------- MODULE Sessions -----------------------------
(***************************************************************************)
(* Signing in: AuthService with its refresh tokens, API clients that use   *)
(* it, and browser tabs with the auth store, the axios interceptors and    *)
(* the router guard, which share one localStorage.                         *)
(*                                                                         *)
(* A signed token is a function of the user and of the second in which it  *)
(* is signed, so a pair <<user, second>> stands for its text, and for the  *)
(* access token that is signed with it.  The clock counts seconds.         *)
(***************************************************************************)
EXTENDS Naturals, FiniteSets

CONSTANTS
    Users, Clients, Tabs, None,
    AccessLife, RefreshLife,  \* jwt.expiresIn, jwt.refreshExpiresIn
    MaxTime,    \* bound: seconds
    MaxCalls,   \* bound: calls to /auth
    MaxFaults   \* bound: failed statements and lost answers

ASSUME SessionsAssumption ==
    /\ Clients \cap Tabs = {} /\ None \notin Users \cup (Users \X Nat)
    /\ AccessLife \in Nat /\ RefreshLife \in Nat
    /\ MaxTime \in Nat /\ MaxCalls \in Nat /\ MaxFaults \in Nat

VARIABLES
    now,
    users,    \* rows of users: "none", "active" or "inactive"
    rows,     \* rows of refresh_tokens by text: "none", "valid" or "revoked"
    expires,  \* expiresAt of a row
    call,     \* the handler that runs for each client or tab
    held,     \* the refresh token a client got last
    tab,      \* the page of each tab, and isAuthenticated of its auth store
    poll,     \* the request of a tab that is in flight: its bearer token
    saved,    \* localStorage.tokens, of all tabs
    calls, faults,
    logins, doubled, revokers, unlucky   \* history, see the properties

Callers == Clients \cup Tabs
Texts   == Users \X (0..MaxTime)

server  == <<users, rows, expires>>
browser == <<tab, poll, saved>>
history == <<logins, doubled, revokers, unlucky>>
vars == <<now, server, call, held, browser, calls, faults, history>>

\* No handler runs.  A handler's user, the token it was given or has signed,
\* whether its token was Entitled at some moment, and whether the page that
\* sent the request is gone.
Idle == [op |-> "idle", at |-> "idle", user |-> None, text |-> None,
         entitled |-> FALSE, deaf |-> FALSE]
At(c, op, at) == call[c].op = op /\ call[c].at = at
Becomes(c, record) == call' = [call EXCEPT ![c] = record]
Goes(c, at) == Becomes(c, [call[c] EXCEPT !.at = at])

NoRequest == [sent |-> FALSE, token |-> None]

\* The dashboard, the events and the executions ask every half minute; the
\* rules and the sources ask on mounting, and the analytics page never does.
Views == {"polling", "still"}

\* JwtAuthGuard: a bearer token is there, its signature is good and it is live.
Verified(x) == x # None /\ now < x[2] + AccessLife

\* validateJwtPayload reads the user's row on every request.
ActiveUser(u) == users[u] = "active"

\* JwtStrategy
Accepted(x) == Verified(x) /\ ActiveUser(x[1])

\* expiresAt of a token that is stored now, apart from the one it was signed with.
Expiry == now + RefreshLife

\* A token with which a user may refresh, given the users' rows.
Entitled(x, of) == rows[x] = "valid" /\ now <= expires[x] /\ of[x[1]] = "active"

\* There may be a session of earlier in this second, opened by some client.
Init ==
    /\ now = 0
    /\ users \in [Users -> {"none", "active"}]
    /\ \E x \in {None} \cup {<<u, 0>> : u \in {v \in Users : users[v] = "active"}} :
          /\ rows = [y \in Texts |-> IF y = x THEN "valid" ELSE "none"]
          /\ expires = [y \in Texts |-> IF y = x THEN RefreshLife ELSE 0]
          /\ held \in [Clients -> {None, x}]
          /\ logins = IF x = None THEN 0 ELSE 1
    /\ call = [c \in Callers |-> Idle]
    /\ tab = [t \in Tabs |-> [page |-> "login", signed |-> FALSE]]
    /\ poll = [t \in Tabs |-> NoRequest] /\ saved = None
    /\ calls = 0 /\ faults = 0
    /\ doubled = 0 /\ revokers = [x \in Texts |-> {}] /\ unlucky = {}

Start(c, record) ==
    /\ call[c] = Idle /\ calls < MaxCalls /\ calls' = calls + 1
    /\ Becomes(c, record)

Tick ==
    /\ now < MaxTime /\ now' = now + 1
    /\ UNCHANGED <<server, call, held, browser, calls, faults, history>>

\* The database is changed by hand: no endpoint writes isActive.
SwitchUser(u) ==
    /\ users[u] # "none"
    /\ users' = [users EXCEPT ![u] = IF @ = "active" THEN "inactive" ELSE "active"]
    /\ call' = [c \in Callers |->
          IF At(c, "refresh", "find") /\ Entitled(call[c].text, users')
          THEN [call[c] EXCEPT !.entitled = TRUE] ELSE call[c]]
    /\ UNCHANGED <<now, rows, expires, held, browser, calls, faults, history>>

-----------------------------------------------------------------------------
(* AuthController and AuthService *)

Login(c, u) ==
    /\ c \in Tabs => tab[c].page = "login"
    /\ Start(c, [Idle EXCEPT !.op = "login", !.at = "find", !.user = u])
    /\ UNCHANGED <<now, server, held, browser, faults, history>>

Refresh(c, x) ==
    /\ \E b \in Clients : held[b] = x
    /\ Start(c, [Idle EXCEPT !.op = "refresh", !.at = "find", !.user = x[1], !.text = x,
                             !.entitled = Entitled(x, users)])
    /\ UNCHANGED <<now, server, held, browser, faults, history>>

\* logout needs a live access token, and then revokes whatever text it is given.
Logout(c, x) ==
    /\ held[c] # None /\ \E b \in Clients : held[b] = x
    /\ Start(c, Idle)
    /\ IF Accepted(held[c])
       THEN /\ rows' = [rows EXCEPT ![x] = IF @ = "none" THEN @ ELSE "revoked"]
            /\ revokers' = [revokers EXCEPT ![x] = @ \cup {"logout"}]
       ELSE UNCHANGED <<rows, revokers>>
    /\ UNCHANGED <<now, users, expires, held, browser, faults, logins, doubled, unlucky>>

Setup(c, u) ==
    /\ users[u] = "none"
    /\ Start(c, [Idle EXCEPT !.op = "setup", !.at = "create", !.user = u])
    /\ UNCHANGED <<now, server, held, browser, faults, history>>

\* createInitialAdmin after its look-up and the hashing: e-mails are unique.
CreateUser(c) ==
    /\ At(c, "setup", "create")
    /\ users' = [users EXCEPT ![call[c].user] = IF @ = "none" THEN "active" ELSE @]
    /\ Becomes(c, Idle)
    /\ UNCHANGED <<now, rows, expires, held, browser, calls, faults, history>>

\* validateUser; the password may be wrong.
FindUser(c) ==
    /\ At(c, "login", "find")
    /\ \E at \in {"sign", "refused"} :
          /\ at = "sign" => users[call[c].user] = "active"
          /\ Goes(c, at)
    /\ UNCHANGED <<now, server, held, browser, calls, faults, history>>

\* Mutant: the row only has to exist.
FindAnyToken(c) ==
    /\ At(c, "refresh", "find")
    /\ IF rows[call[c].text] # "none" THEN Goes(c, "revoke") ELSE Becomes(c, Idle)
    /\ UNCHANGED <<now, server, held, browser, calls, faults, history>>

\* refreshTokens: the row is there, not revoked, not expired, its user active.
FindToken(c) ==
    /\ At(c, "refresh", "find")
    /\ IF Entitled(call[c].text, users) THEN Goes(c, "revoke") ELSE Becomes(c, Idle)
    /\ UNCHANGED <<now, server, held, browser, calls, faults, history>>

\* Mutant: the new token is stored and the old one stays.
RevokeNothing(c) ==
    /\ At(c, "refresh", "revoke")
    /\ Goes(c, "sign")
    /\ UNCHANGED <<now, server, held, browser, calls, faults, history>>

\* Mutant: every token of the user is revoked.
RevokeAll(c) ==
    /\ At(c, "refresh", "revoke")
    /\ LET x == call[c].text
       IN  /\ rows' = [y \in Texts |-> IF y[1] = x[1] /\ rows[y] = "valid"
                                       THEN "revoked" ELSE rows[y]]
           /\ doubled' = IF rows[x] = "revoked" THEN doubled + 1 ELSE doubled
           /\ revokers' = [revokers EXCEPT ![x] = @ \cup {c}]
    /\ Goes(c, "sign")
    /\ UNCHANGED <<now, users, expires, held, browser, calls, faults, logins, unlucky>>

\* The update does not look at revoked again.
RevokeToken(c) ==
    /\ At(c, "refresh", "revoke")
    /\ LET x == call[c].text
       IN  /\ rows' = [rows EXCEPT ![x] = "revoked"]
           /\ doubled' = IF rows[x] = "revoked" THEN doubled + 1 ELSE doubled
           /\ revokers' = [revokers EXCEPT ![x] = @ \cup {c}]
    /\ Goes(c, "sign")
    /\ UNCHANGED <<now, users, expires, held, browser, calls, faults, logins, unlucky>>

\* generateTokens
SignTokens(c) ==
    /\ call[c].at = "sign"
    /\ Becomes(c, [call[c] EXCEPT !.at = "store", !.text = <<call[c].user, now>>])
    /\ UNCHANGED <<now, server, held, browser, calls, faults, history>>

\* The handler answers with a 500: the store of a tab gets to see it.
Break(c) == IF c \in Tabs THEN Goes(c, "error") ELSE Becomes(c, Idle)

\* The row of the new token.  Its text is unique: a second token signed for the
\* user in the same second is refused with a 500, after the old one was revoked.
StoreToken(c) ==
    /\ call[c].at = "store"
    /\ LET x == call[c].text
       IN  IF rows[x] = "none"
           THEN /\ rows' = [rows EXCEPT ![x] = "valid"]
                /\ expires' = [expires EXCEPT ![x] = Expiry]
                /\ logins' = IF call[c].op = "login" THEN logins + 1 ELSE logins
                /\ Goes(c, "answer")
                /\ UNCHANGED unlucky
           ELSE /\ Break(c)
                /\ unlucky' = unlucky \cup ({c} \cap Clients)
                /\ UNCHANGED <<rows, expires, logins>>
    /\ UNCHANGED <<now, users, held, browser, calls, faults, doubled, revokers>>

Answer(c) ==
    /\ c \in Clients /\ call[c].at \in {"answer", "refused"}
    /\ held' = IF call[c].at = "answer" THEN [held EXCEPT ![c] = call[c].text] ELSE held
    /\ unlucky' = IF call[c].at = "answer" THEN unlucky \ {c} ELSE unlucky
    /\ Becomes(c, Idle)
    /\ UNCHANGED <<now, server, browser, calls, faults, logins, doubled, revokers>>

\* A statement fails or the answer is lost.
Fail(c) ==
    /\ call[c] # Idle /\ call[c].at # "error"
    /\ faults < MaxFaults /\ faults' = faults + 1
    /\ unlucky' = unlucky \cup ({c} \cap Clients)
    /\ Break(c)
    /\ UNCHANGED <<now, server, held, browser, calls, logins, doubled, revokers>>

-----------------------------------------------------------------------------
(* The browser *)

\* logout of the store, after which the tab shows a page.
ForgetTokens(t, page) ==
    /\ tab' = [tab EXCEPT ![t] = [page |-> page, signed |-> FALSE]]
    /\ saved' = None

\* Mutant: the interceptor signs out and leaves the page where it is.
SignOutInPlace(t) == ForgetTokens(t, tab[t].page)

\* The response interceptor on a 401, whatever request it answers: the store
\* and localStorage forget the tokens, and the tab will load /login.
SignOut(t) == ForgetTokens(t, "leaving")

\* authStore.login and handleLogin: a wrong password is a 401 as well, and
\* reloads the page under its error message.
AnswerLogin(t) ==
    /\ call[t].at \in {"answer", "refused", "error"}
    /\ IF call[t].op # "login" \/ call[t].deaf \/ call[t].at = "error"
       THEN UNCHANGED <<tab, saved>>
       ELSE IF call[t].at = "refused" THEN SignOut(t)
       ELSE /\ tab' = [tab EXCEPT ![t] =
                 [page |-> IF @.page = "leaving" THEN @.page ELSE "polling",
                  signed |-> TRUE]]
            /\ saved' = call[t].text
    /\ Becomes(t, Idle)
    /\ UNCHANGED <<now, server, held, poll, calls, faults, history>>

\* The sidebar's links.  The router guard lets a tab with a token in its store
\* pass, live or not.
Navigate(t, page) ==
    /\ tab[t].page \in Views \ {page}
    /\ tab' = [tab EXCEPT ![t].page = IF tab[t].signed THEN page ELSE "login"]
    /\ UNCHANGED <<now, server, call, held, poll, saved, calls, faults, history>>

\* A view asks for its data, on mounting or by a click.  The request interceptor
\* takes the token from localStorage, not from the store.
Ask(t) ==
    /\ tab[t].page \in Views /\ ~poll[t].sent
    /\ poll' = [poll EXCEPT ![t] = [sent |-> TRUE, token |-> saved]]
    /\ UNCHANGED <<now, server, call, held, tab, saved, calls, faults, history>>

\* The timer of a view that has one.
Poll(t) == tab[t].page = "polling" /\ Ask(t)

AnswerPoll(t) ==
    /\ poll[t].sent
    /\ poll' = [poll EXCEPT ![t] = NoRequest]
    /\ IF Accepted(poll[t].token) THEN UNCHANGED <<tab, saved>> ELSE SignOut(t)
    /\ UNCHANGED <<now, server, call, held, calls, faults, history>>

LosePoll(t) ==
    /\ poll[t].sent
    /\ faults < MaxFaults /\ faults' = faults + 1
    /\ poll' = [poll EXCEPT ![t] = NoRequest]
    /\ UNCHANGED <<now, server, call, held, tab, saved, calls, history>>

\* handleLogout of the sidebar: no request, so the refresh token stays valid,
\* and no reload, so a poll in flight is still answered.
ClickLogout(t) ==
    /\ tab[t].page \in Views /\ ForgetTokens(t, "login")
    /\ UNCHANGED <<now, server, call, held, poll, calls, faults, history>>

\* A page load, by the interceptor or the user.  Nothing calls initAuth, so the
\* store is empty and the router guard goes to /login, saved tokens or not.
Load(t) ==
    /\ tab' = [tab EXCEPT ![t] = [page |-> "login", signed |-> FALSE]]
    /\ poll' = [poll EXCEPT ![t] = NoRequest]
    /\ call' = [call EXCEPT ![t] = IF @.op = "login" THEN [@ EXCEPT !.deaf = TRUE] ELSE @]
    /\ UNCHANGED <<now, server, held, saved, calls, faults, history>>

Leave(t)  == tab[t].page = "leaving" /\ Load(t)
Reload(t) == tab[t].page \in Views /\ Load(t)

-----------------------------------------------------------------------------
Handler(c) ==
    \/ CreateUser(c) \/ FindUser(c) \/ SignTokens(c) \/ StoreToken(c)
    \/ c \in Clients /\ (FindToken(c) \/ RevokeToken(c) \/ Answer(c))
    \/ c \in Tabs /\ AnswerLogin(c)

Client(c) ==
    \/ \E u \in Users : Login(c, u) \/ Setup(c, u)
    \/ \E x \in Texts : Refresh(c, x) \/ Logout(c, x)

Browser(t) ==
    \/ \E u \in Users : Login(t, u)
    \/ \E page \in Views : Navigate(t, page)
    \/ Ask(t) \/ AnswerPoll(t) \/ LosePoll(t) \/ ClickLogout(t) \/ Leave(t) \/ Reload(t)

Next ==
    \/ Tick
    \/ \E u \in Users : SwitchUser(u)
    \/ \E c \in Callers : Handler(c) \/ Fail(c)
    \/ \E c \in Clients : Client(c)
    \/ \E t \in Tabs : Browser(t)

Spec == Init /\ [][Next]_vars

\* The timer of a view that has one fires as long as the view is mounted, a
\* request that is not lost is answered, and a page load that was asked for
\* happens.  Nothing makes a view without a timer ask, or the user leave it.
FairSpec ==
    /\ Spec
    /\ \A t \in Tabs : WF_vars(Poll(t)) /\ WF_vars(AnswerPoll(t)) /\ WF_vars(Leave(t))

-----------------------------------------------------------------------------
(* Properties *)

\* A refresh replaces a token: more tokens are valid, or about to be, than
\* there were logins only by as many refreshes as came second, having found
\* the token valid before the first one revoked it.
TokensConserved ==
    Cardinality({x \in Texts : rows[x] = "valid"})
      + Cardinality({c \in Clients : At(c, "refresh", "sign") \/ At(c, "refresh", "store")}) <= logins + doubled

\* A client that did nothing wrong can go on: the token it got last is valid,
\* unless somebody logged it out, another client refreshed it, or its own
\* refresh broke off after revoking it, by a fault or because the new token had
\* the text of one signed in the same second.
HeldTokenIsValid ==
    \A c \in Clients : (held[c] # None /\ call[c] = Idle) =>
        \/ rows[held[c]] = "valid"
        \/ c \in unlucky
        \/ revokers[held[c]] \cap ({"logout"} \cup (Clients \ {c})) # {}

\* A refresh hands out a token only if, at some moment of the request, the old
\* one was valid and its user active: a logout or a deactivation stops every
\* refresh that starts after it, though not one that is under way.
RefreshWasEntitled ==
    \A c \in Clients :
        (call[c].op = "refresh" /\ call[c].at \in {"revoke", "sign", "store", "answer"}) => call[c].entitled

\* A tab on a view with a timer, without a token the server accepts, gets to the
\* login page, unless the user goes to a view without a timer, which may stay as
\* it is, or another tab signs in and lends it its token.
SignedOutTabLeaves ==
    \A t \in Tabs :
        (tab[t].page \in {"polling", "leaving"} /\ ~Accepted(saved)) ~>
            (tab[t].page \in {"login", "still"} \/ Accepted(saved))
=============================================================================
