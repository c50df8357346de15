--------------------------- MODULE SessionsProofs ---------------------------
(***************************************************************************)
(* Theorems about Sessions, for every set of users, clients and tabs and   *)
(* all lifetimes and bounds.                                               *)
(***************************************************************************)
EXTENDS Sessions, FiniteSetTheorems, TLAPS

Ops == {"idle", "login", "refresh", "setup"}
Ats == {"idle", "find", "sign", "refused", "revoke", "create", "store", "answer", "error"}

Handlers == [op : Ops, at : Ats, user : Users \cup {None}, text : Texts \cup {None},
             entitled : BOOLEAN, deaf : BOOLEAN]

Pages == {"login", "polling", "still", "leaving"}

TypeOK ==
    /\ now \in 0..MaxTime
    /\ users \in [Users -> {"none", "active", "inactive"}]
    /\ rows \in [Texts -> {"none", "valid", "revoked"}]
    /\ expires \in [Texts -> Nat]
    /\ call \in [Callers -> Handlers]
    /\ held \in [Clients -> Texts \cup {None}]
    /\ tab \in [Tabs -> [page : Pages, signed : BOOLEAN]]
    /\ poll \in [Tabs -> [sent : BOOLEAN, token : Texts \cup {None}]]
    /\ saved \in Texts \cup {None}
    /\ calls \in Nat /\ faults \in Nat /\ logins \in Nat /\ doubled \in Nat
    /\ revokers \in [Texts -> SUBSET (Clients \cup {"logout"})]
    /\ unlucky \subseteq Clients

\* A handler knows its user before it signs, and its token before it stores or
\* answers; a refresh is given a token that was stored.
CallOK(c) ==
    /\ c \in Tabs => call[c].op \in {"idle", "login"}
    /\ call[c].at = "refused" => call[c].op = "login"
    /\ call[c].at \in {"find", "create"} => call[c].user \in Users
    /\ call[c].at \in {"sign", "store"} =>
          /\ call[c].op \in {"login", "refresh"}
          /\ call[c].user \in Users /\ users[call[c].user] # "none"
    /\ (call[c].op = "refresh" /\ call[c].at \in {"find", "revoke"}) =>
          /\ call[c].text \in Texts /\ rows[call[c].text] # "none"
          /\ call[c].user = call[c].text[1]
    /\ call[c].at = "store" => call[c].text \in Texts /\ call[c].text[1] = call[c].user
    /\ call[c].at = "answer" => call[c].text \in Texts /\ rows[call[c].text] # "none"

\* Every stored token is of a user that exists, every token held is stored.
KnownInv ==
    /\ \A c \in Callers : CallOK(c)
    /\ \A x \in Texts : rows[x] # "none" => users[x[1]] # "none"
    /\ \A c \in Clients : held[c] # None => rows[held[c]] # "none"

\* A refresh that may go on, or went on, was entitled at some moment.
EntitledInv ==
    \A c \in Clients : call[c].op = "refresh" =>
        /\ call[c].at = "find" /\ Entitled(call[c].text, users) => call[c].entitled
        /\ call[c].at \in {"revoke", "sign", "store", "answer"} => call[c].entitled

\* The token is valid, or somebody else is to blame.
Good(c, x) ==
    \/ rows[x] = "valid"
    \/ revokers[x] \cap ({"logout"} \cup (Clients \ {c})) # {}

HeldInv ==
    \A c \in Clients :
        /\ call[c].at = "answer" => Good(c, call[c].text)
        /\ held[c] # None =>
              \/ Good(c, held[c])
              \/ c \in unlucky
              \/ call[c].op = "refresh" /\ call[c].at \in {"sign", "store", "answer"}

Valid    == {x \in Texts : rows[x] = "valid"}
Renewing == {c \in Clients : At(c, "refresh", "sign") \/ At(c, "refresh", "store")}

TokenInv == IsFiniteSet(Valid) /\ IsFiniteSet(Renewing) /\ TokensConserved

StateInv == KnownInv /\ EntitledInv /\ HeldInv /\ TokenInv

IInv == TypeOK /\ StateInv

-----------------------------------------------------------------------------
(* How handlers move *)

LEMMA CallTypes ==
  ASSUME TypeOK, NEW c \in Callers
  PROVE  /\ call[c] \in Handlers /\ call[c].op \in Ops /\ call[c].at \in Ats
         /\ call[c].user \in Users \cup {None} /\ call[c].text \in Texts \cup {None}
         /\ call[c].entitled \in BOOLEAN /\ call[c].deaf \in BOOLEAN
  BY DEF TypeOK, Handlers

LEMMA IdleFields ==
  /\ Idle.op = "idle" /\ Idle.at = "idle" /\ Idle.user = None /\ Idle.text = None
  /\ Idle.entitled = FALSE /\ Idle.deaf = FALSE /\ Idle \in Handlers
  BY DEF Idle, Handlers, Ops, Ats

\* One handler changes, the others stay.
LEMMA Moves ==
  ASSUME TypeOK, NEW c \in Callers, NEW record \in Handlers, Becomes(c, record)
  PROVE  /\ call' \in [Callers -> Handlers]
         /\ call'[c] = record
         /\ \A b \in Callers : b # c => call'[b] = call[b]
  BY DEF TypeOK, Becomes

\* A handler that goes on keeps all it knows.
LEMMA MovesOn ==
  ASSUME TypeOK, NEW c \in Callers, NEW at \in Ats, Goes(c, at)
  PROVE  /\ call' \in [Callers -> Handlers]
         /\ call'[c].at = at
         /\ call'[c].op = call[c].op /\ call'[c].user = call[c].user
         /\ call'[c].text = call[c].text /\ call'[c].entitled = call[c].entitled
         /\ \A b \in Callers : b # c => call'[b] = call[b]
<1> DEFINE r == [call[c] EXCEPT !.at = at]
<1>1. r \in Handlers /\ r.at = at /\ r.op = call[c].op /\ r.user = call[c].user
      /\ r.text = call[c].text /\ r.entitled = call[c].entitled
  BY CallTypes DEF Handlers
<1>2. Becomes(c, r)
  BY DEF Goes
<1> QED
  BY <1>1, <1>2, Moves

\* A handler that signs, whose text is that of its user and of this second.
LEMMA Signs ==
  ASSUME TypeOK, NEW c \in Callers, call[c].user \in Users, SignTokens(c)
  PROVE  /\ call' \in [Callers -> Handlers]
         /\ call'[c].at = "store"
         /\ call'[c].op = call[c].op /\ call'[c].user = call[c].user
         /\ call'[c].text = <<call[c].user, now>> /\ call'[c].text \in Texts
         /\ call'[c].entitled = call[c].entitled
         /\ \A b \in Callers : b # c => call'[b] = call[b]
<1> DEFINE r == [call[c] EXCEPT !.at = "store", !.text = <<call[c].user, now>>]
<1>1. <<call[c].user, now>> \in Texts
  BY DEF TypeOK, Texts
<1>2. r \in Handlers /\ r.at = "store" /\ r.op = call[c].op /\ r.user = call[c].user
      /\ r.text = <<call[c].user, now>> /\ r.entitled = call[c].entitled
  BY <1>1, CallTypes DEF Handlers, Ats
<1>3. Becomes(c, r)
  BY DEF SignTokens
<1> QED
  BY <1>1, <1>2, <1>3, Moves

\* A handler that starts was idle, and waits for its first statement.
LEMMA LoginStarts ==
  ASSUME TypeOK, NEW c \in Callers, NEW u \in Users, Login(c, u)
  PROVE  /\ call' \in [Callers -> Handlers]
         /\ call[c] = Idle
         /\ call'[c].op = "login" /\ call'[c].at = "find" /\ call'[c].user = u
         /\ \A b \in Callers : b # c => call'[b] = call[b]
<1> DEFINE r == [Idle EXCEPT !.op = "login", !.at = "find", !.user = u]
<1>1. r \in Handlers /\ r.op = "login" /\ r.at = "find" /\ r.user = u
  BY IdleFields DEF Handlers, Ops, Ats
<1>2. Becomes(c, r) /\ call[c] = Idle
  BY DEF Login, Start
<1> QED
  BY <1>1, <1>2, Moves

LEMMA SetupStarts ==
  ASSUME TypeOK, NEW c \in Callers, NEW u \in Users, Setup(c, u)
  PROVE  /\ call' \in [Callers -> Handlers]
         /\ call[c] = Idle
         /\ call'[c].op = "setup" /\ call'[c].at = "create" /\ call'[c].user = u
         /\ \A b \in Callers : b # c => call'[b] = call[b]
<1> DEFINE r == [Idle EXCEPT !.op = "setup", !.at = "create", !.user = u]
<1>1. r \in Handlers /\ r.op = "setup" /\ r.at = "create" /\ r.user = u
  BY IdleFields DEF Handlers, Ops, Ats
<1>2. Becomes(c, r) /\ call[c] = Idle
  BY DEF Setup, Start
<1> QED
  BY <1>1, <1>2, Moves

LEMMA RefreshStarts ==
  ASSUME TypeOK, NEW c \in Callers, NEW x \in Texts, Refresh(c, x)
  PROVE  /\ call' \in [Callers -> Handlers]
         /\ call[c] = Idle
         /\ call'[c].op = "refresh" /\ call'[c].at = "find" /\ call'[c].user = x[1]
         /\ call'[c].text = x /\ call'[c].entitled = Entitled(x, users)
         /\ \A b \in Callers : b # c => call'[b] = call[b]
<1> DEFINE e == Entitled(x, users)
           r == [Idle EXCEPT !.op = "refresh", !.at = "find", !.user = x[1], !.text = x,
                             !.entitled = e]
<1>1. e \in BOOLEAN
  BY DEF Entitled
<1>2. Becomes(c, r) /\ call[c] = Idle
  BY DEF Refresh, Start
<1>3. x[1] \in Users
  BY DEF Texts
<1>4. r \in Handlers /\ r.op = "refresh" /\ r.at = "find" /\ r.user = x[1]
      /\ r.text = x /\ r.entitled = e
  <2> HIDE DEF e
  <2> QED
    BY <1>1, <1>3, IdleFields DEF Handlers, Ops, Ats
<1> QED
  BY <1>2, <1>4, Moves

\* A handler that breaks off is idle, or shows its tab an error.
LEMMA Breaks ==
  ASSUME TypeOK, NEW c \in Callers, Break(c)
  PROVE  /\ call' \in [Callers -> Handlers]
         /\ call'[c] = Idle \/ (c \in Tabs /\ call'[c].at = "error" /\ call'[c].op = call[c].op)
         /\ \A b \in Callers : b # c => call'[b] = call[b]
  BY MovesOn, Moves, IdleFields DEF Break, Ats

\* Nothing but what a handler has seen of its token changes.
LEMMA Switches ==
  ASSUME TypeOK, NEW u \in Users, SwitchUser(u)
  PROVE  /\ call' \in [Callers -> Handlers]
         /\ \A c \in Callers :
               /\ call'[c].op = call[c].op /\ call'[c].at = call[c].at
               /\ call'[c].user = call[c].user /\ call'[c].text = call[c].text
               /\ call'[c] = Idle <=> call[c] = Idle
               /\ call[c].entitled => call'[c].entitled
               /\ At(c, "refresh", "find") /\ Entitled(call[c].text, users')
                     => call'[c].entitled
<1>1. ASSUME NEW c \in Callers
      PROVE  \/ call'[c] = call[c] /\ ~(At(c, "refresh", "find") /\ Entitled(call[c].text, users'))
             \/ /\ call'[c] = [call[c] EXCEPT !.entitled = TRUE]
                /\ call[c].at = "find"
  BY DEF SwitchUser, At
<1>2. \A c \in Callers :
         LET r == [call[c] EXCEPT !.entitled = TRUE]
         IN  /\ r \in Handlers /\ r.op = call[c].op /\ r.at = call[c].at
             /\ r.user = call[c].user /\ r.text = call[c].text /\ r.entitled = TRUE
  BY CallTypes DEF Handlers
<1>3. \A c \in Callers : call'[c] \in Handlers
  BY <1>1, <1>2, CallTypes
<1>4. call' \in [Callers -> Handlers]
  BY <1>3 DEF SwitchUser
<1>5. ASSUME NEW c \in Callers
      PROVE  /\ call'[c].op = call[c].op /\ call'[c].at = call[c].at
             /\ call'[c].user = call[c].user /\ call'[c].text = call[c].text
             /\ call'[c] = Idle <=> call[c] = Idle
             /\ call[c].entitled => call'[c].entitled
             /\ At(c, "refresh", "find") /\ Entitled(call[c].text, users')
                  => call'[c].entitled
  <2>1. CASE call'[c] = call[c] /\ ~(At(c, "refresh", "find") /\ Entitled(call[c].text, users'))
    BY <2>1
  <2>2. CASE call'[c] = [call[c] EXCEPT !.entitled = TRUE] /\ call[c].at = "find"
    BY <2>2, <1>2, IdleFields
  <2> QED
    BY <1>1, <2>1, <2>2
<1> QED
  BY <1>4, <1>5

\* A page load makes a tab deaf to the handler it waits for.
LEMMA Loads ==
  ASSUME TypeOK, NEW t \in Tabs, Load(t)
  PROVE  /\ call' \in [Callers -> Handlers]
         /\ \A c \in Callers :
               /\ call'[c].op = call[c].op /\ call'[c].at = call[c].at
               /\ call'[c].user = call[c].user /\ call'[c].text = call[c].text
               /\ call'[c].entitled = call[c].entitled
               /\ call'[c] = Idle <=> call[c] = Idle
<1>t. t \in Callers
  BY DEF Callers
<1>1. LET r == [call[t] EXCEPT !.deaf = TRUE]
      IN  /\ r \in Handlers /\ r.op = call[t].op /\ r.at = call[t].at
          /\ r.user = call[t].user /\ r.text = call[t].text /\ r.entitled = call[t].entitled
  BY <1>t, CallTypes DEF Handlers
<1>2. CASE call[t].op = "login"
  <2>1. Becomes(t, [call[t] EXCEPT !.deaf = TRUE])
    BY <1>2, <1>t DEF Load, Becomes, TypeOK
  <2> QED
    BY <2>1, <1>1, <1>2, <1>t, Moves, IdleFields
<1>3. CASE call[t].op # "login"
  <2>1. Becomes(t, call[t])
    BY <1>3, <1>t DEF Load, Becomes, TypeOK
  <2> QED
    BY <2>1, <1>t, Moves, CallTypes
<1> QED
  BY <1>2, <1>3

\* The handlers that an action of the service or of a tab leaves behind.
LEMMA CallTyped ==
  ASSUME TypeOK, KnownInv, [Next]_vars
  PROVE  call' \in [Callers -> Handlers]
<1>1. CASE UNCHANGED vars
  BY <1>1 DEF vars, TypeOK
<1>2. CASE Tick
  BY <1>2 DEF Tick, TypeOK
<1>3. ASSUME NEW u \in Users, SwitchUser(u)
      PROVE  call' \in [Callers -> Handlers]
  BY <1>3, Switches
<1>4. ASSUME NEW c \in Callers, Handler(c) \/ Fail(c)
      PROVE  call' \in [Callers -> Handlers]
  <2>a. \A at \in Ats : Goes(c, at) => call' \in [Callers -> Handlers]
    BY MovesOn
  <2>i. Becomes(c, Idle) => call' \in [Callers -> Handlers]
    BY Moves, IdleFields
  <2>b. Break(c) => call' \in [Callers -> Handlers]
    BY Breaks
  <2>1. CASE CreateUser(c)
    BY <2>1, <2>i DEF CreateUser
  <2>2. CASE FindUser(c)
    BY <2>2, <2>a DEF FindUser, Ats
  <2>3. CASE SignTokens(c)
    BY <2>3, Signs DEF SignTokens, KnownInv, CallOK
  <2>4. CASE StoreToken(c)
    BY <2>4, <2>a, <2>b DEF StoreToken, Ats
  <2>5. CASE FindToken(c)
    BY <2>5, <2>a, <2>i DEF FindToken, Ats
  <2>6. CASE RevokeToken(c)
    BY <2>6, <2>a DEF RevokeToken, Ats
  <2>7. CASE Answer(c)
    BY <2>7, <2>i DEF Answer
  <2>8. CASE AnswerLogin(c)
    BY <2>8, <2>i DEF AnswerLogin
  <2>9. CASE Fail(c)
    BY <2>9, <2>b DEF Fail
  <2> QED
    BY <1>4, <2>1, <2>2, <2>3, <2>4, <2>5, <2>6, <2>7, <2>8, <2>9 DEF Handler
<1>5. ASSUME NEW c \in Clients, Client(c)
      PROVE  call' \in [Callers -> Handlers]
  <2>t. c \in Callers
    BY DEF Callers
  <2>1. ASSUME NEW u \in Users, Login(c, u) \/ Setup(c, u)
        PROVE  call' \in [Callers -> Handlers]
    BY <2>t, <2>1, LoginStarts, SetupStarts
  <2>2. ASSUME NEW x \in Texts, Refresh(c, x)
        PROVE  call' \in [Callers -> Handlers]
    BY <2>t, <2>2, RefreshStarts
  <2>3. ASSUME NEW x \in Texts, Logout(c, x)
        PROVE  call' \in [Callers -> Handlers]
    BY <2>t, <2>3, Moves, IdleFields DEF Logout, Start
  <2> QED
    BY <1>5, <2>1, <2>2, <2>3 DEF Client
<1>6. ASSUME NEW t \in Tabs, Browser(t)
      PROVE  call' \in [Callers -> Handlers]
  <2>t. t \in Callers
    BY DEF Callers
  <2>1. ASSUME NEW u \in Users, Login(t, u)
        PROVE  call' \in [Callers -> Handlers]
    BY <2>t, <2>1, LoginStarts
  <2>2. CASE Ask(t) \/ AnswerPoll(t) \/ LosePoll(t) \/ ClickLogout(t)
    BY <2>2 DEF Ask, AnswerPoll, LosePoll, ClickLogout, TypeOK
  <2>4. ASSUME NEW page \in Views, Navigate(t, page)
        PROVE  call' \in [Callers -> Handlers]
    BY <2>4 DEF Navigate, TypeOK
  <2>3. CASE Leave(t) \/ Reload(t)
    BY <2>3, Loads DEF Leave, Reload
  <2> QED
    BY <1>6, <2>1, <2>2, <2>3, <2>4 DEF Browser
<1> QED
  BY <1>1, <1>2, <1>3, <1>4, <1>5, <1>6 DEF Next

-----------------------------------------------------------------------------
(* Types *)

\* What the service and its clients write has its type.
LEMMA ServiceTyped ==
  ASSUME TypeOK, KnownInv, NEW c \in Callers, Handler(c) \/ Fail(c)
  PROVE  TypeOK'
<1>c. call' \in [Callers -> Handlers]
  BY CallTyped DEF Next
<1>b. call[c].text \in Texts \cup {None} /\ call[c].user \in Users \cup {None}
  BY CallTypes
<1>1. CASE CreateUser(c)
  BY <1>1, <1>c DEF CreateUser, TypeOK, browser, history
<1>2. CASE FindUser(c) \/ SignTokens(c)
  BY <1>2, <1>c DEF FindUser, SignTokens, TypeOK, server, browser, history
<1>3. CASE StoreToken(c)
  <2>1. call[c].text \in Texts
    BY <1>3 DEF StoreToken, KnownInv, CallOK
  <2>2. Expiry \in Nat
    BY SessionsAssumption DEF TypeOK, Expiry
  <2>3. rows' \in [Texts -> {"none", "valid", "revoked"}] /\ expires' \in [Texts -> Nat]
    <3>1. \/ UNCHANGED <<rows, expires>>
          \/ /\ rows' = [rows EXCEPT ![call[c].text] = "valid"]
             /\ expires' = [expires EXCEPT ![call[c].text] = Expiry]
      BY <1>3 DEF StoreToken
    <3> QED
      BY <2>1, <2>2, <3>1 DEF TypeOK
  <2>4. logins' \in Nat /\ unlucky' \subseteq Clients
    BY <1>3 DEF StoreToken, TypeOK
  <2> QED
    BY <1>3, <1>c, <2>3, <2>4 DEF StoreToken, TypeOK, browser
<1>4. CASE c \in Clients /\ FindToken(c)
  BY <1>4, <1>c DEF FindToken, TypeOK, server, browser, history
<1>5. CASE c \in Clients /\ RevokeToken(c)
  <2>1. call[c].text \in Texts
    BY <1>5 DEF RevokeToken, KnownInv, CallOK, At
  <2>2. rows' \in [Texts -> {"none", "valid", "revoked"}] /\ doubled' \in Nat
    BY <1>5, <2>1 DEF RevokeToken, TypeOK
  <2>3. revokers' \in [Texts -> SUBSET (Clients \cup {"logout"})]
    BY <1>5, <2>1 DEF RevokeToken, TypeOK
  <2> QED
    BY <1>5, <1>c, <2>2, <2>3 DEF RevokeToken, TypeOK, browser
<1>6. CASE c \in Clients /\ Answer(c)
  BY <1>6, <1>b, <1>c DEF Answer, TypeOK, server, browser
<1>7. CASE c \in Tabs /\ AnswerLogin(c)
  <2>1. tab' \in [Tabs -> [page : Pages, signed : BOOLEAN]]
        /\ saved' \in Texts \cup {None}
    <3>1. CASE UNCHANGED <<tab, saved>>
      BY <3>1 DEF TypeOK
    <3>2. CASE SignOut(c)
      BY <3>2 DEF SignOut, ForgetTokens, TypeOK, Pages
    <3>3. CASE /\ tab' = [tab EXCEPT ![c] =
                     [page |-> IF @.page = "leaving" THEN @.page ELSE "polling",
                      signed |-> TRUE]]
               /\ saved' = call[c].text
      BY <1>7, <1>b, <3>3 DEF TypeOK, Pages
    <3> QED
      BY <1>7, <3>1, <3>2, <3>3 DEF AnswerLogin
  <2> QED
    BY <1>7, <1>c, <2>1 DEF AnswerLogin, TypeOK, server, history
<1>8. CASE Fail(c)
  <2>1. faults' \in Nat /\ unlucky' \subseteq Clients
    BY <1>8 DEF Fail, TypeOK
  <2> QED
    BY <1>8, <1>c, <2>1 DEF Fail, TypeOK, server, browser
<1> QED
  BY <1>1, <1>2, <1>3, <1>4, <1>5, <1>6, <1>7, <1>8 DEF Handler

\* What starts, the clock, the users' rows and the tabs keep their types.
LEMMA TypeStep ==
  ASSUME TypeOK, KnownInv, [Next]_vars
  PROVE  TypeOK'
<1>c. call' \in [Callers -> Handlers]
  BY CallTyped
<1>1. CASE UNCHANGED vars
  BY <1>1 DEF vars, TypeOK, server, browser, history
<1>2. CASE Tick
  BY <1>2, <1>c, SessionsAssumption DEF Tick, TypeOK, server, browser, history
<1>3. ASSUME NEW u \in Users, SwitchUser(u)
      PROVE  TypeOK'
  <2>1. users' \in [Users -> {"none", "active", "inactive"}]
    BY <1>3 DEF SwitchUser, TypeOK
  <2> QED
    BY <1>3, <1>c, <2>1 DEF SwitchUser, TypeOK, browser, history
<1>4. ASSUME NEW c \in Callers, Handler(c) \/ Fail(c)
      PROVE  TypeOK'
  BY <1>4, ServiceTyped
<1>5. ASSUME NEW c \in Callers, NEW u \in Users, Login(c, u) \/ Setup(c, u)
      PROVE  TypeOK'
  <2>1. calls' \in Nat
    BY <1>5 DEF Login, Setup, Start, TypeOK
  <2> QED
    BY <1>5, <1>c, <2>1 DEF Login, Setup, TypeOK, server, browser, history
<1>6. ASSUME NEW c \in Clients, NEW x \in Texts, Refresh(c, x)
      PROVE  TypeOK'
  <2>1. calls' \in Nat
    BY <1>6 DEF Refresh, Start, TypeOK
  <2> QED
    BY <1>6, <1>c, <2>1 DEF Refresh, TypeOK, server, browser, history
<1>7. ASSUME NEW c \in Clients, NEW x \in Texts, Logout(c, x)
      PROVE  TypeOK'
  <2>1. calls' \in Nat
    BY <1>7 DEF Logout, Start, TypeOK
  <2>2. rows' \in [Texts -> {"none", "valid", "revoked"}]
        /\ revokers' \in [Texts -> SUBSET (Clients \cup {"logout"})]
    <3>1. \/ UNCHANGED <<rows, revokers>>
          \/ /\ rows' = [rows EXCEPT ![x] = IF @ = "none" THEN @ ELSE "revoked"]
             /\ revokers' = [revokers EXCEPT ![x] = @ \cup {"logout"}]
      BY <1>7 DEF Logout
    <3>2. revokers[x] \cup {"logout"} \in SUBSET (Clients \cup {"logout"})
      BY DEF TypeOK
    <3> QED
      BY <3>1, <3>2 DEF TypeOK
  <2> QED
    BY <1>7, <1>c, <2>1, <2>2 DEF Logout, TypeOK, browser
<1>8. ASSUME NEW t \in Tabs, Ask(t) \/ AnswerPoll(t) \/ LosePoll(t) \/ ClickLogout(t)
                             \/ Leave(t) \/ Reload(t)
      PROVE  TypeOK'
  <2>1. poll' \in [Tabs -> [sent : BOOLEAN, token : Texts \cup {None}]]
    <3>1. NoRequest \in [sent : BOOLEAN, token : Texts \cup {None}]
          /\ [sent |-> TRUE, token |-> saved] \in [sent : BOOLEAN, token : Texts \cup {None}]
      BY DEF NoRequest, TypeOK
    <3>2. CASE Ask(t)
      BY <3>1, <3>2 DEF Ask, TypeOK
    <3>3. CASE AnswerPoll(t) \/ LosePoll(t) \/ Leave(t) \/ Reload(t)
      BY <3>1, <3>3 DEF AnswerPoll, LosePoll, Leave, Reload, Load, TypeOK
    <3>4. CASE ClickLogout(t)
      BY <3>4 DEF ClickLogout, TypeOK
    <3> QED
      BY <1>8, <3>1, <3>2, <3>3, <3>4
  <2>2. tab' \in [Tabs -> [page : Pages, signed : BOOLEAN]]
        /\ saved' \in Texts \cup {None}
    <3>1. ASSUME NEW page \in Pages, ForgetTokens(t, page)
          PROVE  tab' \in [Tabs -> [page : Pages, signed : BOOLEAN]] /\ saved' \in Texts \cup {None}
      BY <3>1 DEF ForgetTokens, TypeOK
    <3>2. CASE ClickLogout(t) \/ AnswerPoll(t)
      BY <3>1, <3>2 DEF ClickLogout, AnswerPoll, SignOut, TypeOK, Pages
    <3>3. CASE Leave(t) \/ Reload(t)
      <4>1. [page |-> "login", signed |-> FALSE] \in [page : Pages, signed : BOOLEAN]
        BY DEF Pages
      <4>2. tab' = [tab EXCEPT ![t] = [page |-> "login", signed |-> FALSE]] /\ saved' = saved
        BY <3>3 DEF Leave, Reload, Load
      <4> QED
        BY <4>1, <4>2 DEF TypeOK
    <3>4. CASE Ask(t) \/ LosePoll(t)
      BY <3>4 DEF Ask, LosePoll, TypeOK
    <3> QED
      BY <1>8, <3>2, <3>3, <3>4
  <2>3. faults' \in Nat
    BY <1>8 DEF Ask, AnswerPoll, LosePoll, ClickLogout, Leave, Reload, Load, TypeOK
  <2> QED
    BY <1>8, <1>c, <2>1, <2>2, <2>3
       DEF Ask, AnswerPoll, LosePoll, ClickLogout, Leave, Reload, Load, TypeOK, server, history
<1>9. ASSUME NEW t \in Tabs, NEW page \in Views, Navigate(t, page)
      PROVE  TypeOK'
  <2>1. tab' \in [Tabs -> [page : Pages, signed : BOOLEAN]]
    BY <1>9 DEF Navigate, TypeOK, Views, Pages
  <2> QED
    BY <1>9, <1>c, <2>1 DEF Navigate, TypeOK, server, history
<1> QED
  BY <1>1, <1>2, <1>3, <1>4, <1>5, <1>6, <1>7, <1>8, <1>9 DEF Next, Client, Browser, Callers

-----------------------------------------------------------------------------
(* Steps that no token and no handler notices *)

\* What the four parts read of a handler.
Same(c) ==
    /\ call'[c].op = call[c].op /\ call'[c].at = call[c].at
    /\ call'[c].user = call[c].user /\ call'[c].text = call[c].text
    /\ call'[c].entitled = call[c].entitled
    /\ call'[c] = Idle <=> call[c] = Idle

\* The clock only takes entitlements away; pages and requests are no part of this.
LEMMA Unnoticed ==
  ASSUME TypeOK, StateInv, TypeOK',
         UNCHANGED <<server, held, history>>, now' >= now, \A c \in Callers : Same(c)
  PROVE  StateInv'
<1>s. UNCHANGED <<users, rows, expires, held, logins, doubled, revokers, unlucky>>
  BY DEF server, history
<1>c. Clients \subseteq Callers /\ Tabs \subseteq Callers
  BY DEF Callers
<1>1. KnownInv'
  BY <1>s, <1>c DEF StateInv, KnownInv, CallOK, Same
<1>2. ASSUME NEW x \in Texts, Entitled(x, users)'
      PROVE  Entitled(x, users)
  <2>1. now \in Nat /\ now' \in Nat /\ expires[x] \in Nat
    BY SessionsAssumption DEF TypeOK
  <2> QED
    BY <1>2, <1>s, <2>1 DEF Entitled
<1>3. EntitledInv'
  <2>1. \A c \in Clients : call[c].op = "refresh" /\ call[c].at = "find" => call[c].text \in Texts
    BY <1>c DEF StateInv, KnownInv, CallOK
  <2> QED
    BY <1>s, <1>c, <1>2, <2>1 DEF StateInv, EntitledInv, Same
<1>4. HeldInv'
  BY <1>s, <1>c DEF StateInv, HeldInv, Good, Same
<1>5. Valid' = Valid /\ Renewing' = Renewing
  BY <1>s, <1>c DEF Valid, Renewing, At, Same
<1>6. TokenInv'
  BY <1>s, <1>5 DEF StateInv, TokenInv, TokensConserved, Valid, Renewing
<1> QED
  BY <1>1, <1>3, <1>4, <1>6 DEF StateInv

\* The clock, requests and answers that reach a tab, page loads.
LEMMA BrowserStep ==
  ASSUME TypeOK, StateInv, TypeOK',
         Tick \/ UNCHANGED vars
           \/ \E t \in Tabs : Ask(t) \/ AnswerPoll(t) \/ LosePoll(t) \/ ClickLogout(t)
                                \/ Leave(t) \/ Reload(t)
                                \/ \E page \in Views : Navigate(t, page)
  PROVE  StateInv'
<1>n. now \in Nat
  BY DEF TypeOK
<1>1. CASE Tick
  BY <1>1, <1>n, Unnoticed DEF Tick, Same
<1>2. CASE UNCHANGED vars
  BY <1>2, <1>n, Unnoticed DEF vars, Same
<1>3. ASSUME NEW t \in Tabs, Ask(t) \/ AnswerPoll(t) \/ LosePoll(t) \/ ClickLogout(t)
      PROVE  StateInv'
  <2>1. UNCHANGED <<server, held, history, now, call>>
    BY <1>3 DEF Ask, AnswerPoll, LosePoll, ClickLogout
  <2> QED
    BY <2>1, <1>n, Unnoticed DEF Same
<1>4. ASSUME NEW t \in Tabs, Load(t)
      PROVE  StateInv'
  <2>1. UNCHANGED <<server, held, history, now>> /\ \A c \in Callers : Same(c)
    BY <1>4, Loads DEF Load, Same
  <2> QED
    BY <2>1, <1>n, Unnoticed
<1>5. ASSUME NEW t \in Tabs, NEW page \in Views, Navigate(t, page)
      PROVE  StateInv'
  <2>1. UNCHANGED <<server, held, history, now, call>>
    BY <1>5 DEF Navigate
  <2> QED
    BY <2>1, <1>n, Unnoticed DEF Same
<1> QED
  BY <1>1, <1>2, <1>3, <1>4, <1>5 DEF Leave, Reload

-----------------------------------------------------------------------------
(* Counting tokens *)

\* Nothing new is valid or being renewed.
LEMMA FewerTokens ==
  ASSUME TypeOK, TokenInv, UNCHANGED <<logins, doubled>>,
         Valid' \subseteq Valid, Renewing' \subseteq Renewing
  PROVE  TokenInv'
<1>1. IsFiniteSet(Valid') /\ Cardinality(Valid') <= Cardinality(Valid)
  BY FS_Subset DEF TokenInv
<1>2. IsFiniteSet(Renewing') /\ Cardinality(Renewing') <= Cardinality(Renewing)
  BY FS_Subset DEF TokenInv
<1>3. /\ Cardinality(Valid) \in Nat /\ Cardinality(Renewing) \in Nat
      /\ Cardinality(Valid') \in Nat /\ Cardinality(Renewing') \in Nat
  BY <1>1, <1>2, FS_CardinalityType DEF TokenInv
<1>4. Cardinality(Valid) + Cardinality(Renewing) <= logins + doubled
  BY DEF TokenInv, TokensConserved, Valid, Renewing
<1>5. Cardinality(Valid') + Cardinality(Renewing') <= logins' + doubled'
  BY <1>1, <1>2, <1>3, <1>4 DEF TypeOK
<1> QED
  BY <1>1, <1>2, <1>5 DEF TokenInv, TokensConserved, Valid, Renewing

\* Steps that start or end a handler, or move it before it has revoked anything.
LEMMA TokensRest ==
  ASSUME TypeOK, TokenInv, NEW c \in Callers, UNCHANGED <<rows, logins, doubled>>,
         \A b \in Callers : b # c => call'[b] = call[b],
         At(c, "refresh", "sign")' \/ At(c, "refresh", "store")' => c \in Renewing
  PROVE  TokenInv'
<1>1. Valid' \subseteq Valid
  BY DEF Valid
<1>2. Renewing' \subseteq Renewing
  BY DEF Renewing, At, Callers
<1> QED
  BY <1>1, <1>2, FewerTokens

\* The old token goes, or somebody has taken it away before; a new one is due.
LEMMA RevokeCounts ==
  ASSUME TypeOK, KnownInv, TokenInv, NEW c \in Clients, RevokeToken(c)
  PROVE  TokenInv'
<1> DEFINE x == call[c].text
<1>t. c \in Callers /\ rows \in [Texts -> {"none", "valid", "revoked"}]
      /\ logins \in Nat /\ doubled \in Nat
  BY DEF Callers, TypeOK
<1>m. call'[c].at = "sign" /\ call'[c].op = "refresh"
      /\ \A b \in Callers : b # c => call'[b] = call[b]
  BY <1>t, MovesOn DEF RevokeToken, Ats, At
<1>a. call[c].at = "revoke" /\ x \in Texts /\ rows[x] # "none"
  BY <1>t DEF RevokeToken, At, KnownInv, CallOK
<1>1. Valid' = Valid \ {x}
  BY <1>t DEF Valid, RevokeToken
<1>2. Renewing' = Renewing \cup {c} /\ c \notin Renewing
  BY <1>m, <1>a DEF Renewing, At, Callers
<1>3. IsFiniteSet(Valid) /\ IsFiniteSet(Renewing)
  BY DEF TokenInv
<1>4. /\ IsFiniteSet(Valid') /\ Cardinality(Valid') \in Nat /\ Cardinality(Valid) \in Nat
      /\ Cardinality(Valid') = IF x \in Valid THEN Cardinality(Valid) - 1 ELSE Cardinality(Valid)
  BY <1>1, <1>3, FS_RemoveElement, FS_CardinalityType
<1>5. /\ IsFiniteSet(Renewing') /\ Cardinality(Renewing') = Cardinality(Renewing) + 1
      /\ Cardinality(Renewing) \in Nat
  BY <1>2, <1>3, FS_AddElement, FS_CardinalityType
<1>6. Cardinality(Valid) + Cardinality(Renewing) <= logins + doubled
  BY DEF TokenInv, TokensConserved, Valid, Renewing
<1>7. logins' = logins /\ doubled' = IF rows[x] = "revoked" THEN doubled + 1 ELSE doubled
  BY DEF RevokeToken
<1>8. x \in Valid \/ rows[x] = "revoked"
  BY <1>t, <1>a DEF Valid
<1>9. Cardinality(Valid') + Cardinality(Renewing') <= logins' + doubled'
  BY <1>t, <1>4, <1>5, <1>6, <1>7, <1>8 DEF Valid
<1> QED
  BY <1>4, <1>5, <1>9 DEF TokenInv, TokensConserved, Valid, Renewing

\* A stored token is that of a login, or the one a refresh owed.
LEMMA StoreCounts ==
  ASSUME TypeOK, KnownInv, TokenInv, NEW c \in Callers, StoreToken(c)
  PROVE  TokenInv'
<1> DEFINE x == call[c].text
<1>t. /\ rows \in [Texts -> {"none", "valid", "revoked"}] /\ logins \in Nat /\ doubled \in Nat
      /\ Clients \subseteq Callers
  BY DEF TypeOK, Callers
<1>a. /\ call[c].at = "store" /\ x \in Texts /\ call[c].op \in {"login", "refresh"}
      /\ c \in Tabs => call[c].op = "login"
  BY DEF StoreToken, KnownInv, CallOK
<1>f. IsFiniteSet(Valid) /\ IsFiniteSet(Renewing)
  BY DEF TokenInv
<1>e. Cardinality(Valid) + Cardinality(Renewing) <= logins + doubled
  BY DEF TokenInv, TokensConserved, Valid, Renewing
<1>1. CASE rows[x] # "none"
  <2>1. UNCHANGED <<rows, logins, doubled>> /\ Break(c)
    BY <1>1 DEF StoreToken
  <2>2. ~(At(c, "refresh", "sign")' \/ At(c, "refresh", "store")')
    BY <2>1, Breaks, IdleFields DEF At
  <2> QED
    BY <2>1, <2>2, Breaks, TokensRest
<1>2. CASE rows[x] = "none"
  <2>m. call'[c].at = "answer" /\ call'[c].op = call[c].op
        /\ \A b \in Callers : b # c => call'[b] = call[b]
    BY <1>2, MovesOn DEF StoreToken, Ats
  <2>1. Valid' = Valid \cup {x} /\ x \notin Valid
    BY <1>2, <1>t, <1>a DEF Valid, StoreToken
  <2>2. /\ IsFiniteSet(Valid') /\ Cardinality(Valid') = Cardinality(Valid) + 1
        /\ Cardinality(Valid) \in Nat
    BY <1>f, <2>1, FS_AddElement, FS_CardinalityType
  <2>3. CASE call[c].op = "login"
    <3>1. Renewing' \subseteq Renewing
      BY <1>t, <2>m, <2>3 DEF Renewing, At
    <3>2. /\ IsFiniteSet(Renewing') /\ Cardinality(Renewing') <= Cardinality(Renewing)
          /\ Cardinality(Renewing') \in Nat /\ Cardinality(Renewing) \in Nat
      BY <1>f, <3>1, FS_Subset, FS_CardinalityType
    <3>3. logins' = logins + 1 /\ doubled' = doubled
      BY <1>2, <2>3 DEF StoreToken
    <3>4. Cardinality(Valid') + Cardinality(Renewing') <= logins' + doubled'
      BY <1>t, <1>e, <2>2, <3>2, <3>3
    <3> QED
      BY <2>2, <3>2, <3>4 DEF TokenInv, TokensConserved, Valid, Renewing
  <2>4. CASE call[c].op = "refresh"
    <3>0. c \in Clients /\ c \in Renewing
      BY <1>a, <2>4 DEF Renewing, At, Callers
    <3>1. Renewing' = Renewing \ {c}
      BY <1>t, <2>m, <3>0 DEF Renewing, At
    <3>2. /\ IsFiniteSet(Renewing') /\ Cardinality(Renewing') = Cardinality(Renewing) - 1
          /\ Cardinality(Renewing) \in Nat
      BY <1>f, <3>0, <3>1, FS_RemoveElement, FS_CardinalityType
    <3>3. logins' = logins /\ doubled' = doubled
      BY <1>2, <2>4 DEF StoreToken
    <3>4. Cardinality(Valid') + Cardinality(Renewing') <= logins' + doubled'
      BY <1>t, <1>e, <2>2, <3>2, <3>3
    <3> QED
      BY <2>2, <3>2, <3>4 DEF TokenInv, TokensConserved, Valid, Renewing
  <2> QED
    BY <1>a, <2>3, <2>4
<1> QED
  BY <1>1, <1>2

-----------------------------------------------------------------------------
(* What starts *)

\* A caller that was idle and whose handler neither renews nor answers yet.
LEMMA StartStep ==
  ASSUME TypeOK, StateInv, TypeOK', NEW c \in Callers, UNCHANGED <<now, server, held, history>>,
         call[c] = Idle, \A b \in Callers : b # c => call'[b] = call[b],
         call'[c].at \in {"find", "create"}, CallOK(c)',
         call'[c].op = "refresh" /\ Entitled(call'[c].text, users) => call'[c].entitled
  PROVE  StateInv'
<1>s. UNCHANGED <<now, users, rows, expires, held, logins, doubled, revokers, unlucky>>
  BY DEF server, history
<1>c. Clients \subseteq Callers /\ Tabs \subseteq Callers
  BY DEF Callers
<1>1. KnownInv'
  BY <1>s DEF StateInv, KnownInv, CallOK
<1>2. EntitledInv'
  BY <1>s, <1>c DEF StateInv, EntitledInv, Entitled
<1>3. HeldInv'
  BY <1>s, <1>c, IdleFields DEF StateInv, HeldInv, Good
<1>4. TokenInv'
  BY <1>s, TokensRest DEF StateInv, At
<1> QED
  BY <1>1, <1>2, <1>3, <1>4 DEF StateInv

LEMMA RequestStep ==
  ASSUME TypeOK, StateInv, TypeOK', NEW c \in Callers,
         \/ \E u \in Users : Login(c, u) \/ (c \in Clients /\ Setup(c, u))
         \/ c \in Clients /\ \E x \in Texts : Refresh(c, x)
  PROVE  StateInv'
<1>1. ASSUME NEW u \in Users, Login(c, u)
      PROVE  StateInv'
  <2>1. UNCHANGED <<now, server, held, history>>
    BY <1>1 DEF Login
  <2>2. CallOK(c)'
    BY <1>1, LoginStarts DEF CallOK
  <2> QED
    BY <1>1, <2>1, <2>2, LoginStarts, StartStep
<1>2. ASSUME NEW u \in Users, c \in Clients, Setup(c, u)
      PROVE  StateInv'
  <2>1. UNCHANGED <<now, server, held, history>>
    BY <1>2 DEF Setup
  <2>2. CallOK(c)'
    BY <1>2, SetupStarts, SessionsAssumption DEF CallOK
  <2> QED
    BY <1>2, <2>1, <2>2, SetupStarts, StartStep
<1>3. ASSUME NEW x \in Texts, c \in Clients, Refresh(c, x)
      PROVE  StateInv'
  <2>1. UNCHANGED <<now, server, held, history>>
    BY <1>3 DEF Refresh
  <2>2. x # None /\ x[1] \in Users
    BY SessionsAssumption DEF Texts
  <2>3. rows[x] # "none"
    BY <1>3, <2>2 DEF Refresh, StateInv, KnownInv
  <2>4. CallOK(c)'
    BY <1>3, <2>1, <2>2, <2>3, RefreshStarts, SessionsAssumption DEF CallOK, server
  <2> QED
    BY <1>3, <2>1, <2>4, RefreshStarts, StartStep
<1> QED
  BY <1>1, <1>2, <1>3

\* A logout revokes what it is given, and that token has its revoker.
LEMMA LogoutStep ==
  ASSUME TypeOK, StateInv, TypeOK', NEW c \in Clients, NEW x \in Texts, Logout(c, x)
  PROVE  StateInv'
<1>c. c \in Callers /\ Clients \subseteq Callers
  BY DEF Callers
<1>m. call' = call
  BY <1>c DEF Logout, Start, Becomes, TypeOK
<1>s. UNCHANGED <<now, users, expires, held, logins, doubled, unlucky>>
  BY DEF Logout, browser
<1>1. CASE ~Accepted(held[c])
  <2>1. UNCHANGED <<server, held, history>>
    BY <1>1, <1>s DEF Logout, server, history
  <2> QED
    BY <1>m, <1>s, <2>1, Unnoticed DEF Same, TypeOK
<1>2. CASE Accepted(held[c])
  <2>r. /\ rows' = [rows EXCEPT ![x] = IF @ = "none" THEN @ ELSE "revoked"]
        /\ revokers' = [revokers EXCEPT ![x] = @ \cup {"logout"}]
    BY <1>2 DEF Logout
  <2>t. /\ rows \in [Texts -> {"none", "valid", "revoked"}]
        /\ revokers \in [Texts -> SUBSET (Clients \cup {"logout"})]
    BY DEF TypeOK
  <2>0. \A y \in Texts : /\ rows'[y] = "none" <=> rows[y] = "none"
                         /\ rows'[y] = "valid" => rows[y] = "valid"
                         /\ rows[y] = "valid" => rows'[y] = "valid" \/ "logout" \in revokers'[y]
                         /\ revokers[y] \subseteq revokers'[y]
    BY <2>r, <2>t
  <2>1. KnownInv'
    BY <1>m, <1>s, <2>0 DEF StateInv, KnownInv, CallOK, TypeOK
  <2>2. EntitledInv'
    BY <1>c, <1>m, <1>s, <2>0 DEF StateInv, EntitledInv, Entitled, KnownInv, CallOK
  <2>3. \A b \in Clients, y \in Texts : Good(b, y) => Good(b, y)'
    BY <2>0 DEF Good
  <2>4. HeldInv'
    BY <1>c, <1>m, <1>s, <2>3 DEF StateInv, HeldInv, KnownInv, CallOK, TypeOK
  <2>5. Valid' \subseteq Valid /\ Renewing' = Renewing
    BY <1>m, <2>0 DEF Valid, Renewing, At
  <2>6. TokenInv'
    BY <1>s, <2>5, FewerTokens DEF StateInv
  <2> QED
    BY <2>1, <2>2, <2>4, <2>6 DEF StateInv
<1> QED
  BY <1>1, <1>2

-----------------------------------------------------------------------------
(* Users come, and are switched off and on *)

\* A user that becomes active entitles the refreshes under way, which SwitchUser notes.
LEMMA SwitchStep ==
  ASSUME TypeOK, StateInv, TypeOK', NEW u \in Users, SwitchUser(u)
  PROVE  StateInv'
<1>c. Clients \subseteq Callers /\ Tabs \subseteq Callers
  BY DEF Callers
<1>s. UNCHANGED <<now, rows, expires, held, logins, doubled, revokers, unlucky>>
  BY DEF SwitchUser, browser, history
<1>u. \A v \in Users : users'[v] = "none" <=> users[v] = "none"
  BY DEF SwitchUser, TypeOK
<1>1. KnownInv'
  <2>1. \A x \in Texts : x[1] \in Users
    BY DEF Texts
  <2> QED
    BY <1>s, <1>c, <1>u, <2>1, Switches DEF StateInv, KnownInv, CallOK
<1>2. EntitledInv'
  BY <1>s, <1>c, Switches DEF StateInv, EntitledInv, Entitled, At
<1>3. HeldInv'
  BY <1>s, <1>c, Switches DEF StateInv, HeldInv, Good
<1>4. Valid' = Valid /\ Renewing' = Renewing
  BY <1>s, <1>c, Switches DEF Valid, Renewing, At
<1>5. TokenInv'
  BY <1>s, <1>4, FewerTokens DEF StateInv
<1> QED
  BY <1>1, <1>2, <1>3, <1>5 DEF StateInv

\* A new user has no token, so nobody becomes entitled.
LEMMA CreateStep ==
  ASSUME TypeOK, StateInv, TypeOK', NEW c \in Callers, CreateUser(c)
  PROVE  StateInv'
<1>c. Clients \subseteq Callers /\ Tabs \subseteq Callers
  BY DEF Callers
<1>s. UNCHANGED <<now, rows, expires, held, logins, doubled, revokers, unlucky>>
  BY DEF CreateUser, browser, history
<1>m. call'[c] = Idle /\ \A b \in Callers : b # c => call'[b] = call[b]
  BY Moves, IdleFields DEF CreateUser
<1>o. call[c].op = "setup"
  BY DEF CreateUser, At
<1>u. \A v \in Users : users[v] # "none" => users'[v] = users[v]
  BY DEF CreateUser, TypeOK
<1>x. \A x \in Texts : x[1] \in Users
  BY DEF Texts
<1>1. KnownInv'
  <2>1. \A b \in Callers : CallOK(b)'
    <3>1. CallOK(c)'
      BY <1>m, IdleFields DEF CallOK
    <3>2. ASSUME NEW b \in Callers, b # c
          PROVE  CallOK(b)'
      BY <1>s, <1>m, <1>u, <3>2 DEF StateInv, KnownInv, CallOK
    <3> QED
      BY <3>1, <3>2
  <2> QED
    BY <1>s, <1>u, <1>x, <2>1 DEF StateInv, KnownInv
<1>2. EntitledInv'
  <2>1. ASSUME NEW x \in Texts, Entitled(x, users)'
        PROVE  Entitled(x, users)
    BY <1>s, <1>u, <1>x, <2>1 DEF Entitled, StateInv, KnownInv
  <2>2. ASSUME NEW b \in Clients, b # c, call[b].op = "refresh", call[b].at = "find"
        PROVE  call[b].text \in Texts
    BY <1>c, <2>2 DEF StateInv, KnownInv, CallOK
  <2> QED
    BY <1>s, <1>c, <1>m, <2>1, <2>2, IdleFields DEF StateInv, EntitledInv
<1>3. HeldInv'
  BY <1>s, <1>c, <1>m, <1>o, IdleFields DEF StateInv, HeldInv, Good
<1>4. TokenInv'
  BY <1>s, <1>m, IdleFields, TokensRest DEF StateInv, At
<1> QED
  BY <1>1, <1>2, <1>3, <1>4 DEF StateInv

-----------------------------------------------------------------------------
(* Handlers of the service *)

\* A step that only moves the handler of c, perhaps out of luck.
LEMMA MoveStep ==
  ASSUME TypeOK, StateInv, TypeOK', NEW c \in Callers,
         UNCHANGED <<now, server, held, logins, doubled, revokers>>, unlucky \subseteq unlucky',
         \A b \in Callers : b # c => call'[b] = call[b],
         CallOK(c)',
         call'[c].op = "refresh" =>
            /\ call'[c].at # "find"
            /\ call'[c].at \in {"revoke", "sign", "store", "answer"} => call'[c].entitled,
         call'[c].at # "answer",
         c \in Clients /\ call[c].op = "refresh" /\ call[c].at \in {"sign", "store", "answer"} =>
            \/ c \in unlucky'
            \/ call'[c].op = "refresh" /\ call'[c].at \in {"sign", "store"},
         At(c, "refresh", "sign")' \/ At(c, "refresh", "store")' => c \in Renewing
  PROVE  StateInv'
<1>s. UNCHANGED <<users, rows, expires>>
  BY DEF server
<1>c. Clients \subseteq Callers /\ Tabs \subseteq Callers
  BY DEF Callers
<1>1. KnownInv'
  <2>1. ASSUME NEW b \in Callers, b # c
        PROVE  CallOK(b)'
    BY <1>s, <2>1 DEF StateInv, KnownInv, CallOK
  <2> QED
    BY <1>s, <2>1 DEF StateInv, KnownInv
<1>2. EntitledInv'
  BY <1>s, <1>c DEF StateInv, EntitledInv, Entitled
<1>3. HeldInv'
  BY <1>s, <1>c DEF StateInv, HeldInv, Good
<1>4. TokenInv'
  BY <1>s, TokensRest DEF StateInv
<1> QED
  BY <1>1, <1>2, <1>3, <1>4 DEF StateInv

LEMMA FindStep ==
  ASSUME TypeOK, StateInv, TypeOK', NEW c \in Callers,
         FindUser(c) \/ (c \in Clients /\ FindToken(c))
  PROVE  StateInv'
<1>c. c \in Tabs => c \notin Clients
  BY SessionsAssumption
<1>k. CallOK(c)
  BY DEF StateInv, KnownInv
<1>1. CASE FindUser(c)
  <2>1. UNCHANGED <<now, server, held, logins, doubled, revokers>> /\ unlucky \subseteq unlucky'
    BY <1>1 DEF FindUser, history
  <2>2. PICK at \in {"sign", "refused"} :
           /\ at = "sign" => users[call[c].user] = "active"
           /\ Goes(c, at)
    BY <1>1 DEF FindUser
  <2>3. call[c].op = "login" /\ call[c].at = "find"
    BY <1>1 DEF FindUser, At
  <2>4. /\ call'[c].op = "login" /\ call'[c].at = at /\ call'[c].user = call[c].user
        /\ \A b \in Callers : b # c => call'[b] = call[b]
    BY <2>2, <2>3, MovesOn DEF Ats
  <2>5. CallOK(c)'
    BY <1>k, <2>1, <2>2, <2>3, <2>4 DEF CallOK, server
  <2> QED
    BY <2>1, <2>3, <2>4, <2>5, MoveStep DEF At
<1>2. CASE c \in Clients /\ FindToken(c)
  <2>1. UNCHANGED <<now, server, held, logins, doubled, revokers>> /\ unlucky \subseteq unlucky'
    BY <1>2 DEF FindToken, history
  <2>3. call[c].op = "refresh" /\ call[c].at = "find"
    BY <1>2 DEF FindToken, At
  <2>4. CASE Entitled(call[c].text, users)
    <3>1. /\ call'[c].op = "refresh" /\ call'[c].at = "revoke" /\ call'[c].user = call[c].user
          /\ call'[c].text = call[c].text /\ call'[c].entitled = call[c].entitled
          /\ \A b \in Callers : b # c => call'[b] = call[b]
      BY <1>2, <2>3, <2>4, MovesOn DEF FindToken, Ats
    <3>2. call[c].entitled
      BY <1>2, <2>3, <2>4 DEF StateInv, EntitledInv
    <3>3. CallOK(c)'
      BY <1>c, <1>2, <1>k, <2>1, <2>3, <3>1 DEF CallOK, server
    <3> QED
      BY <2>1, <2>3, <3>1, <3>2, <3>3, MoveStep DEF At
  <2>5. CASE ~Entitled(call[c].text, users)
    <3>1. call'[c] = Idle /\ \A b \in Callers : b # c => call'[b] = call[b]
      BY <1>2, <2>5, Moves, IdleFields DEF FindToken
    <3>2. CallOK(c)'
      BY <3>1, IdleFields DEF CallOK
    <3> QED
      BY <2>1, <2>3, <3>1, <3>2, MoveStep, IdleFields DEF At
  <2> QED
    BY <2>4, <2>5
<1> QED
  BY <1>1, <1>2

LEMMA SignStep ==
  ASSUME TypeOK, StateInv, TypeOK', NEW c \in Callers, SignTokens(c)
  PROVE  StateInv'
<1>k. CallOK(c) /\ call[c].at = "sign"
  BY DEF StateInv, KnownInv, SignTokens
<1>1. UNCHANGED <<now, server, held, logins, doubled, revokers>> /\ unlucky \subseteq unlucky'
  BY DEF SignTokens, history
<1>2. /\ call'[c].op = call[c].op /\ call'[c].at = "store" /\ call'[c].user = call[c].user
      /\ call'[c].text = <<call[c].user, now>> /\ call'[c].text \in Texts
      /\ call'[c].entitled = call[c].entitled
      /\ \A b \in Callers : b # c => call'[b] = call[b]
  BY <1>k, Signs DEF CallOK
<1>3. CallOK(c)'
  BY <1>k, <1>1, <1>2 DEF CallOK, server
<1>4. c \in Tabs => call[c].op # "refresh"
  BY <1>k DEF CallOK
<1>5. c \in Clients /\ call[c].op = "refresh" => call[c].entitled /\ c \in Renewing
  BY <1>k DEF StateInv, EntitledInv, Renewing, At
<1> QED
  BY <1>k, <1>1, <1>2, <1>3, <1>4, <1>5, MoveStep DEF At, Callers

\* A fault, and the wrong turn of a tab's handler.
LEMMA FailStep ==
  ASSUME TypeOK, StateInv, TypeOK', NEW c \in Callers, Fail(c)
  PROVE  StateInv'
<1>k. CallOK(c)
  BY DEF StateInv, KnownInv
<1>1. /\ UNCHANGED <<now, server, held, logins, doubled, revokers>>
      /\ unlucky \subseteq unlucky'
      /\ c \in Clients => c \in unlucky'
  BY DEF Fail
<1>2. /\ \/ call'[c] = Idle
         \/ c \in Tabs /\ call'[c].at = "error" /\ call'[c].op = call[c].op
      /\ \A b \in Callers : b # c => call'[b] = call[b]
  BY Breaks DEF Fail
<1>3. CallOK(c)'
  BY <1>k, <1>2, IdleFields DEF CallOK
<1> QED
  BY <1>1, <1>2, <1>3, MoveStep, IdleFields DEF At

LEMMA AnswerLoginStep ==
  ASSUME TypeOK, StateInv, TypeOK', NEW c \in Tabs, AnswerLogin(c)
  PROVE  StateInv'
<1>c. c \in Callers /\ c \notin Clients
  BY SessionsAssumption DEF Callers
<1>1. UNCHANGED <<now, server, held, logins, doubled, revokers>> /\ unlucky \subseteq unlucky'
  BY DEF AnswerLogin, history
<1>2. call'[c] = Idle /\ \A b \in Callers : b # c => call'[b] = call[b]
  BY <1>c, Moves, IdleFields DEF AnswerLogin
<1>3. CallOK(c)'
  BY <1>2, IdleFields DEF CallOK
<1> QED
  BY <1>c, <1>1, <1>2, <1>3, MoveStep, IdleFields DEF At

\* The revoked token has its revoker for everybody but the handler that goes on.
LEMMA RevokeStep ==
  ASSUME TypeOK, StateInv, TypeOK', NEW c \in Clients, RevokeToken(c)
  PROVE  StateInv'
<1> DEFINE x == call[c].text
<1>c. c \in Callers /\ Clients \subseteq Callers /\ Tabs \subseteq Callers
  BY DEF Callers
<1>k. CallOK(c)
  BY <1>c DEF StateInv, KnownInv
<1>a. /\ call[c].op = "refresh" /\ call[c].at = "revoke"
      /\ x \in Texts /\ x[1] = call[c].user /\ x[1] \in Users /\ rows[x] # "none"
  BY <1>k DEF RevokeToken, At, CallOK, Texts
<1>s. UNCHANGED <<now, users, expires, held, logins, unlucky>>
  BY DEF RevokeToken, browser
<1>m. /\ call'[c].op = "refresh" /\ call'[c].at = "sign" /\ call'[c].user = call[c].user
      /\ call'[c].text = x /\ call'[c].entitled = call[c].entitled
      /\ \A b \in Callers : b # c => call'[b] = call[b]
  BY <1>a, <1>c, MovesOn DEF RevokeToken, Ats
<1>r. /\ rows' = [rows EXCEPT ![x] = "revoked"]
      /\ revokers' = [revokers EXCEPT ![x] = @ \cup {c}]
  BY DEF RevokeToken
<1>0. \A y \in Texts : /\ rows'[y] = "none" <=> rows[y] = "none"
                       /\ rows'[y] = "valid" => rows[y] = "valid"
                       /\ rows[y] = "valid" => rows'[y] = "valid" \/ c \in revokers'[y]
                       /\ revokers[y] \subseteq revokers'[y]
  BY <1>a, <1>r DEF TypeOK
<1>1. KnownInv'
  <2>1. users[call[c].user] # "none"
    BY <1>a DEF StateInv, KnownInv
  <2>2. CallOK(c)'
    BY <1>a, <1>k, <1>m, <1>s, <2>1, <1>c, SessionsAssumption DEF CallOK
  <2>3. ASSUME NEW b \in Callers, b # c
        PROVE  CallOK(b)'
    BY <1>0, <1>m, <1>s, <2>3 DEF StateInv, KnownInv, CallOK
  <2>4. \A b \in Clients : held[b] # None => held[b] \in Texts
    BY DEF TypeOK
  <2> QED
    BY <1>0, <1>s, <2>2, <2>3, <2>4 DEF StateInv, KnownInv
<1>2. EntitledInv'
  <2>1. ASSUME NEW b \in Clients, b # c, call[b].op = "refresh", call[b].at = "find"
        PROVE  call[b].text \in Texts
    BY <1>c, <2>1 DEF StateInv, KnownInv, CallOK
  <2>2. ASSUME NEW y \in Texts, Entitled(y, users)'
        PROVE  Entitled(y, users)
    BY <1>0, <1>s, <2>2 DEF Entitled
  <2>3. call[c].entitled
    BY <1>a DEF StateInv, EntitledInv
  <2> QED
    BY <1>c, <1>m, <2>1, <2>2, <2>3 DEF StateInv, EntitledInv
<1>3. HeldInv'
  <2>1. \A b \in Clients, y \in Texts : b # c /\ Good(b, y) => Good(b, y)'
    BY <1>0 DEF Good
  <2>2. ASSUME NEW b \in Clients, b # c
        PROVE  /\ call'[b].at = "answer" => Good(b, call[b].text)'
               /\ held'[b] # None =>
                     \/ Good(b, held[b])'
                     \/ b \in unlucky'
                     \/ call'[b].op = "refresh" /\ call'[b].at \in {"sign", "store", "answer"}
    <3>1. held[b] # None => held[b] \in Texts
      BY DEF TypeOK
    <3>2. call[b].at = "answer" => call[b].text \in Texts
      BY <1>c DEF StateInv, KnownInv, CallOK
    <3>3. call'[b] = call[b]
      BY <1>c, <1>m, <2>2
    <3>4. call'[b].at = "answer" => Good(b, call[b].text)'
      <4>1. call[b].at = "answer" => Good(b, call[b].text)
        BY DEF StateInv, HeldInv
      <4>2. call[b].at = "answer" => (Good(b, call[b].text))'
        BY <1>0, <2>2, <3>2, <3>3, <4>1 DEF Good
      <4> QED
        BY <3>3, <4>2
    <3>5. held[b] # None => \/ Good(b, held[b]) \/ b \in unlucky
                            \/ call[b].op = "refresh" /\ call[b].at \in {"sign", "store", "answer"}
      BY DEF StateInv, HeldInv
    <3>6. held[b] # None /\ Good(b, held[b]) => (Good(b, held[b]))'
      BY <1>s, <2>1, <2>2, <3>1
    <3> QED
      BY <1>s, <3>3, <3>4, <3>5, <3>6
  <2> QED
    BY <1>m, <2>2 DEF HeldInv
<1>4. TokenInv'
  BY RevokeCounts DEF StateInv
<1> QED
  BY <1>1, <1>2, <1>3, <1>4 DEF StateInv

\* The client has a token that is good, and its luck back.
LEMMA AnswerStep ==
  ASSUME TypeOK, StateInv, TypeOK', NEW c \in Clients, Answer(c)
  PROVE  StateInv'
<1>c. c \in Callers /\ Clients \subseteq Callers /\ Tabs \subseteq Callers
  BY DEF Callers
<1>k. CallOK(c)
  BY <1>c DEF StateInv, KnownInv
<1>s. UNCHANGED <<now, users, rows, expires, logins, doubled, revokers>>
  BY DEF Answer, server
<1>m. call'[c] = Idle /\ \A b \in Callers : b # c => call'[b] = call[b]
  BY <1>c, Moves, IdleFields DEF Answer
<1>i. CallOK(c)'
  BY <1>m, IdleFields DEF CallOK
<1>1. CASE call[c].at = "refused"
  <2>1. UNCHANGED <<server, held, unlucky>> /\ call[c].op = "login"
    BY <1>1, <1>k DEF Answer, CallOK
  <2> QED
    BY <1>c, <1>s, <1>m, <1>i, <2>1, MoveStep, IdleFields DEF At
<1>2. CASE call[c].at = "answer"
  <2>1. held' = [held EXCEPT ![c] = call[c].text] /\ unlucky' = unlucky \ {c}
    BY <1>2 DEF Answer
  <2>2. call[c].text \in Texts /\ rows[call[c].text] # "none" /\ Good(c, call[c].text)
    BY <1>2, <1>k DEF CallOK, StateInv, HeldInv
  <2>3. held'[c] = call[c].text /\ \A b \in Clients : b # c => held'[b] = held[b]
    BY <2>1 DEF TypeOK
  <2>4. KnownInv'
    <3>1. ASSUME NEW b \in Callers, b # c
          PROVE  CallOK(b)'
      BY <1>s, <1>m, <3>1 DEF StateInv, KnownInv, CallOK
    <3> QED
      BY <1>i, <1>s, <2>2, <2>3, <3>1 DEF StateInv, KnownInv
  <2>5. EntitledInv'
    BY <1>c, <1>s, <1>m, IdleFields DEF StateInv, EntitledInv, Entitled
  <2>6. HeldInv'
    BY <1>c, <1>s, <1>m, <2>1, <2>2, <2>3, IdleFields DEF StateInv, HeldInv, Good
  <2>7. TokenInv'
    BY <1>c, <1>s, <1>m, TokensRest, IdleFields DEF StateInv, At
  <2> QED
    BY <2>4, <2>5, <2>6, <2>7 DEF StateInv
<1> QED
  BY <1>1, <1>2 DEF Answer

\* A new row was of no use to anybody; a text that is there already is bad luck.
LEMMA StoreStep ==
  ASSUME TypeOK, StateInv, TypeOK', NEW c \in Callers, StoreToken(c)
  PROVE  StateInv'
<1> DEFINE x == call[c].text
<1>c. Clients \subseteq Callers /\ Tabs \subseteq Callers
  BY DEF Callers
<1>k. CallOK(c) /\ call[c].at = "store"
  BY DEF StateInv, KnownInv, StoreToken
<1>a. /\ x \in Texts /\ x[1] = call[c].user /\ users[call[c].user] # "none"
      /\ c \in Tabs => call[c].op = "login"
  BY <1>k DEF CallOK
<1>s. UNCHANGED <<now, users, held, doubled, revokers>>
  BY DEF StoreToken, browser
<1>t. TokenInv'
  BY StoreCounts DEF StateInv
<1>1. CASE rows[x] # "none"
  <2>1. /\ UNCHANGED <<rows, expires, logins>> /\ Break(c) /\ unlucky \subseteq unlucky'
        /\ c \in Clients => c \in unlucky'
    BY <1>1 DEF StoreToken
  <2>2. /\ \/ call'[c] = Idle
           \/ c \in Tabs /\ call'[c].at = "error" /\ call'[c].op = call[c].op
        /\ \A b \in Callers : b # c => call'[b] = call[b]
    BY <2>1, Breaks
  <2>3. CallOK(c)'
    BY <1>k, <2>2, IdleFields DEF CallOK
  <2>4. UNCHANGED server
    BY <1>s, <2>1 DEF server
  <2> QED
    BY <1>s, <1>a, <2>1, <2>2, <2>3, <2>4, MoveStep, IdleFields DEF At
<1>2. CASE rows[x] = "none"
  <2>r. /\ rows' = [rows EXCEPT ![x] = "valid"] /\ expires' = [expires EXCEPT ![x] = Expiry]
        /\ UNCHANGED unlucky
    BY <1>2 DEF StoreToken
  <2>m. /\ call'[c].op = call[c].op /\ call'[c].at = "answer" /\ call'[c].user = call[c].user
        /\ call'[c].text = x /\ call'[c].entitled = call[c].entitled
        /\ \A b \in Callers : b # c => call'[b] = call[b]
    BY <1>2, MovesOn DEF StoreToken, Ats
  <2>0. rows'[x] = "valid"
        /\ \A y \in Texts : y # x => rows'[y] = rows[y] /\ expires'[y] = expires[y]
    BY <1>a, <2>r DEF TypeOK
  <2>1. KnownInv'
    <3>1. CallOK(c)'
      BY <1>a, <1>k, <2>0, <2>m DEF CallOK
    <3>2. ASSUME NEW b \in Callers, b # c
          PROVE  CallOK(b)'
      BY <1>2, <1>s, <2>0, <2>m, <3>2 DEF StateInv, KnownInv, CallOK
    <3>3. \A b \in Clients : held[b] # None => held[b] \in Texts
      BY DEF TypeOK
    <3> QED
      BY <1>a, <1>s, <2>0, <3>1, <3>2, <3>3 DEF StateInv, KnownInv
  <2>2. EntitledInv'
    <3>1. ASSUME NEW b \in Clients, b # c
          PROVE  call[b].op = "refresh" /\ call[b].at = "find" =>
                    call[b].text \in Texts /\ call[b].text # x
      BY <1>c, <1>2 DEF StateInv, KnownInv, CallOK
    <3>2. ASSUME NEW y \in Texts, y # x, Entitled(y, users)'
          PROVE  Entitled(y, users)
      BY <1>s, <2>0, <3>2 DEF Entitled
    <3>3. c \in Clients /\ call[c].op = "refresh" => call[c].entitled
      BY <1>k DEF StateInv, EntitledInv
    <3> QED
      BY <1>c, <2>m, <3>1, <3>2, <3>3 DEF StateInv, EntitledInv
  <2>3. HeldInv'
    <3>1. \A b \in Clients : held[b] # None => held[b] \in Texts
      BY DEF TypeOK
    <3>2. \A b \in Clients : call[b].at = "answer" => call[b].text \in Texts
      BY <1>c DEF StateInv, KnownInv, CallOK
    <3>3. ASSUME NEW b \in Clients
          PROVE  call'[b].at = "answer" => Good(b, call[b].text)'
      <4>1. CASE b = c
        BY <2>0, <2>m, <4>1 DEF Good
      <4>2. CASE b # c
        BY <1>c, <1>s, <2>0, <2>m, <3>2, <4>2 DEF Good, StateInv, HeldInv
      <4> QED
        BY <4>1, <4>2
    <3>4. ASSUME NEW b \in Clients, held'[b] # None
          PROVE  \/ Good(b, held[b])'
                 \/ b \in unlucky'
                 \/ call'[b].op = "refresh" /\ call'[b].at \in {"sign", "store", "answer"}
      <4>1. \/ Good(b, held[b]) \/ b \in unlucky
            \/ call[b].op = "refresh" /\ call[b].at \in {"sign", "store", "answer"}
        BY <1>s, <3>4 DEF StateInv, HeldInv
      <4>2. call[b].op = "refresh" /\ call[b].at \in {"sign", "store", "answer"} =>
              call'[b].op = "refresh" /\ call'[b].at \in {"sign", "store", "answer"}
        BY <1>c, <2>m
      <4>3. Good(b, held[b]) => Good(b, held[b])'
        BY <1>s, <2>0, <3>1, <3>4 DEF Good
      <4> QED
        BY <2>r, <4>1, <4>2, <4>3
    <3> QED
      BY <3>3, <3>4 DEF HeldInv
  <2> QED
    BY <1>t, <2>1, <2>2, <2>3 DEF StateInv
<1> QED
  BY <1>1, <1>2

-----------------------------------------------------------------------------
(* The invariant *)

\* At first there is one valid token, of one login, or there is none.
LEMMA InitInv ==
  ASSUME Init
  PROVE  IInv
<1>c. \A c \in Callers : call[c] = Idle
  BY DEF Init
<1>x. PICK x \in {None} \cup {<<u, 0>> : u \in {v \in Users : users[v] = "active"}} :
         /\ rows = [y \in Texts |-> IF y = x THEN "valid" ELSE "none"]
         /\ expires = [y \in Texts |-> IF y = x THEN RefreshLife ELSE 0]
         /\ held \in [Clients -> {None, x}]
         /\ logins = IF x = None THEN 0 ELSE 1
  BY DEF Init
<1>n. None \notin Texts
  BY SessionsAssumption DEF Texts
<1>u. x # None => x \in Texts /\ users[x[1]] = "active"
  BY SessionsAssumption DEF Texts
<1>r. \A y \in Texts : rows[y] = IF y = x THEN "valid" ELSE "none"
  BY <1>x
<1>h. \A c \in Clients : held[c] # None => held[c] = x
  BY <1>x
<1>1. TypeOK
  <2>1. call \in [Callers -> Handlers]
    BY IdleFields DEF Init
  <2>2. NoRequest \in [sent : BOOLEAN, token : Texts \cup {None}]
    BY DEF NoRequest
  <2>3. [page |-> "login", signed |-> FALSE] \in [page : Pages, signed : BOOLEAN]
    BY DEF Pages
  <2>4. rows \in [Texts -> {"none", "valid", "revoked"}] /\ expires \in [Texts -> Nat]
    BY <1>x, SessionsAssumption
  <2>5. held \in [Clients -> Texts \cup {None}] /\ logins \in Nat
    BY <1>x, <1>u
  <2> QED
    BY <2>1, <2>2, <2>3, <2>4, <2>5, SessionsAssumption DEF Init, TypeOK
<1>2. KnownInv
  <2>1. \A c \in Callers : CallOK(c)
    BY <1>c, IdleFields DEF CallOK
  <2>2. \A c \in Clients : held[c] # None => rows[held[c]] # "none"
    BY <1>h, <1>r, <1>u
  <2>3. \A y \in Texts : rows[y] # "none" => users[y[1]] # "none"
    BY <1>n, <1>r, <1>u
  <2> QED
    BY <2>1, <2>2, <2>3 DEF KnownInv
<1>3. EntitledInv
  BY <1>c, IdleFields DEF EntitledInv, Callers
<1>4. HeldInv
  <2>1. \A c \in Clients : held[c] # None => Good(c, held[c])
    BY <1>h, <1>r, <1>u DEF Good
  <2> QED
    BY <1>c, <2>1, IdleFields DEF HeldInv, Callers
<1>5. TokenInv
  <2>1. Renewing = {}
    BY <1>c, IdleFields DEF Renewing, At, Callers
  <2>2. IsFiniteSet(Renewing) /\ Cardinality(Renewing) = 0
    BY <2>1, FS_EmptySet
  <2>3. doubled = 0
    BY DEF Init
  <2>4. IsFiniteSet(Valid) /\ Cardinality(Valid) = logins
    <3>1. CASE x = None
      <4>1. Valid = {}
        BY <1>n, <1>r, <3>1 DEF Valid
      <4> QED
        BY <1>x, <3>1, <4>1, FS_EmptySet
    <3>2. CASE x # None
      <4>1. Valid = {x}
        BY <1>r, <1>u, <3>2 DEF Valid
      <4> QED
        BY <1>x, <3>2, <4>1, FS_Singleton
    <3> QED
      BY <3>1, <3>2
  <2>5. logins \in Nat
    BY <1>x
  <2>6. Cardinality(Valid) + Cardinality(Renewing) <= logins + doubled
    BY <2>2, <2>3, <2>4, <2>5
  <2> QED
    BY <2>2, <2>4, <2>6 DEF TokenInv, TokensConserved, Valid, Renewing
<1> QED
  BY <1>1, <1>2, <1>3, <1>4, <1>5 DEF IInv, StateInv

LEMMA NextInv ==
  ASSUME IInv, [Next]_vars
  PROVE  IInv'
<1>i. TypeOK /\ StateInv /\ KnownInv
  BY DEF IInv, StateInv
<1>t. TypeOK'
  BY <1>i, TypeStep
<1>1. CASE Tick \/ UNCHANGED vars
  BY <1>i, <1>t, <1>1, BrowserStep DEF IInv
<1>2. ASSUME NEW u \in Users, SwitchUser(u)
      PROVE  IInv'
  BY <1>i, <1>t, <1>2, SwitchStep DEF IInv
<1>3. ASSUME NEW c \in Callers, Handler(c) \/ Fail(c)
      PROVE  IInv'
  <2>1. CASE CreateUser(c)
    BY <1>i, <1>t, <2>1, CreateStep DEF IInv
  <2>2. CASE FindUser(c) \/ (c \in Clients /\ FindToken(c))
    BY <1>i, <1>t, <2>2, FindStep DEF IInv
  <2>3. CASE SignTokens(c)
    BY <1>i, <1>t, <2>3, SignStep DEF IInv
  <2>4. CASE StoreToken(c)
    BY <1>i, <1>t, <2>4, StoreStep DEF IInv
  <2>5. CASE c \in Clients /\ RevokeToken(c)
    BY <1>i, <1>t, <2>5, RevokeStep DEF IInv
  <2>6. CASE c \in Clients /\ Answer(c)
    BY <1>i, <1>t, <2>6, AnswerStep DEF IInv
  <2>7. CASE c \in Tabs /\ AnswerLogin(c)
    BY <1>i, <1>t, <2>7, AnswerLoginStep DEF IInv
  <2>8. CASE Fail(c)
    BY <1>i, <1>t, <2>8, FailStep DEF IInv
  <2> QED
    BY <1>3, <2>1, <2>2, <2>3, <2>4, <2>5, <2>6, <2>7, <2>8 DEF Handler
<1>4. ASSUME NEW c \in Clients, Client(c)
      PROVE  IInv'
  <2>c. c \in Callers
    BY DEF Callers
  <2>1. ASSUME NEW x \in Texts, Logout(c, x)
        PROVE  IInv'
    BY <1>i, <1>t, <2>1, LogoutStep DEF IInv
  <2>2. CASE \/ \E u \in Users : Login(c, u) \/ Setup(c, u)
             \/ \E x \in Texts : Refresh(c, x)
    BY <1>i, <1>t, <2>c, <2>2, RequestStep DEF IInv
  <2> QED
    BY <1>4, <2>1, <2>2 DEF Client
<1>5. ASSUME NEW t \in Tabs, Browser(t)
      PROVE  IInv'
  <2>c. t \in Callers
    BY DEF Callers
  <2>1. CASE \E u \in Users : Login(t, u)
    BY <1>i, <1>t, <2>c, <2>1, RequestStep DEF IInv
  <2>2. CASE \/ Ask(t) \/ AnswerPoll(t) \/ LosePoll(t) \/ ClickLogout(t) \/ Leave(t) \/ Reload(t)
             \/ \E page \in Views : Navigate(t, page)
    BY <1>i, <1>t, <2>2, BrowserStep DEF IInv
  <2> QED
    BY <1>5, <2>1, <2>2 DEF Browser
<1> QED
  BY <1>1, <1>2, <1>3, <1>4, <1>5 DEF Next

\* Every state the service and its clients reach satisfies the invariant.
THEOREM SessionsInductive == Spec => []IInv
<1>1. Init => IInv
  BY InitInv
<1>2. IInv /\ [Next]_vars => IInv'
  BY NextInv
<1> QED
  BY <1>1, <1>2, PTL DEF Spec

\* Rows, handlers, tabs and history keep their types: a handler that signs and
\* stores knows a user, and a request in flight carries a token or nothing.
THEOREM SessionsTyped == Spec => []TypeOK
<1>1. IInv => TypeOK
  BY DEF IInv
<1> QED
  BY <1>1, SessionsInductive, PTL

\* Refreshing replaces tokens.  Whatever interleaving of refreshes, logins,
\* logouts and faults: no more tokens are valid or due than users logged in for,
\* but for the refreshes that had found a token valid and revoked it second.
THEOREM TokensAreConserved == Spec => []TokensConserved
<1>1. IInv => TokensConserved
  BY DEF IInv, StateInv, TokenInv
<1> QED
  BY <1>1, SessionsInductive, PTL

\* A client at rest whose token is not valid has somebody to blame: a logout,
\* another client, or a refresh of its own that broke off.
THEOREM HeldTokensAreValid == Spec => []HeldTokenIsValid
<1>1. ASSUME IInv
      PROVE  HeldTokenIsValid
  <2> SUFFICES ASSUME NEW c \in Clients, held[c] # None, call[c] = Idle
               PROVE  \/ rows[held[c]] = "valid"
                      \/ c \in unlucky
                      \/ revokers[held[c]] \cap ({"logout"} \cup (Clients \ {c})) # {}
    BY DEF HeldTokenIsValid
  <2> QED
    BY <1>1, IdleFields DEF IInv, StateInv, HeldInv, Good
<1> QED
  BY <1>1, SessionsInductive, PTL

\* Nobody refreshes with a token that was not valid, live and of an active user
\* at some moment of the request.
THEOREM RefreshesAreEntitled == Spec => []RefreshWasEntitled
<1>1. IInv => RefreshWasEntitled
  BY DEF IInv, StateInv, EntitledInv, RefreshWasEntitled
<1> QED
  BY <1>1, SessionsInductive, PTL
=============================================================================
