-------------------------- MODULE Administration --------------------------
(***************************************************************************)
(* Rules and sources under their administrators: RulesService,             *)
(* SourcesService and the API-key check of AuthService, with the rules     *)
(* page, its edit form, and the sources page whose dialog shows a new key. *)
(* Events arrive all the while with some key and are matched with rules.   *)
(*                                                                         *)
(* A handler's statements are steps of their own.  A statement may fail,   *)
(* and the answer of one that was applied may be lost (Fail).  An          *)
(* administrator has one call in flight; several administrators overlap.   *)
(***************************************************************************)
EXTENDS Naturals, FiniteSets

CONSTANTS
    Admins, Rules, Posts,
    Operators,   \* those of them who use the dialog of the sources page
    Defs,        \* what the edit form holds: name, type, priority, conditions, actions
    Seeded,      \* the number of sources that exist at the start
    Global, Absent, NoForm, NoKey,
    Keep,        \* a property that a PATCH of a rule does not send
    MaxKeys,     \* bound: keys ever generated
    MaxCalls,    \* bound: calls of the administrators
    MaxFaults    \* bound: failed statements and lost answers

ASSUME AdministrationAssumption ==
    /\ Operators \subseteq Admins /\ IsFiniteSet(Admins)
    /\ MaxKeys \in Nat /\ MaxCalls \in Nat /\ MaxFaults \in Nat
    /\ Seeded \in 0..MaxKeys
    /\ {Global, NoKey, Absent, Keep} \cap 1..MaxKeys = {}
    /\ Absent \notin [def : Defs, active : BOOLEAN, scope : (1..MaxKeys) \cup {Global}]
    /\ Absent \notin [active : BOOLEAN, key : 1..MaxKeys]
    /\ NoForm \notin [rule : Rules, def : Defs]

VARIABLES
    rules,      \* the rows of automation_rules: def, active, scope
    sources,    \* the rows of app_sources: active, and the key that was hashed
    call,       \* the handler that runs for each administrator
    list, form, \* the rules page: the rows it shows, and the open edit form
    dialog,     \* the sources page: is the dialog open, and createdSource
    timers,     \* its pending setTimeout(closeModal, 5000)
    post,       \* POST /events: key, sources it matches, rules that fire
    keys,       \* keys generated so far: 1..keys
    audits,     \* rows of audit_logs for each rule
    calls, faults,  \* bounds
    intended, changes, seen, lost, live  \* history, see the properties

pages == <<list, form, dialog, timers>>
history == <<intended, changes, seen, lost, live>>
vars == <<rules, sources, call, pages, post, keys, audits, calls, faults, history>>

Idle == [op |-> "idle"]
Keys == 1..MaxKeys

\* Identifiers are never used twice: a source is named by its first key.
Sources == Keys

Live(k, table) == \E s \in Sources :
    table[s] # Absent /\ table[s].active /\ table[s].key = k

\* History: has the key of a post been live since the post was sent?
Watch(table) ==
    live' = [q \in Posts |-> live[q] \/ (post[q].at # "idle" /\ Live(post[q].key, table))]

Goto(a, at) == call' = [call EXCEPT ![a] = [@ EXCEPT !.at = at]]

Start(a, c) ==
    /\ call[a] = Idle /\ calls < MaxCalls
    /\ calls' = calls + 1
    /\ call' = [call EXCEPT ![a] = c]

At(a, op, at) == call[a].op = op /\ call[a].at = at

Init ==
    /\ keys = Seeded
    /\ sources = [s \in Sources |->
                     IF s <= Seeded THEN [active |-> TRUE, key |-> s] ELSE Absent]
    /\ rules \in [Rules -> {Absent} \cup
          [def : Defs, active : {TRUE}, scope : (1..Seeded) \cup {Global}]]
    /\ call = [a \in Admins |-> Idle]
    /\ list = [a \in Admins |-> rules]
    /\ form = [a \in Admins |-> NoForm]
    /\ dialog = [a \in Admins |-> [open |-> FALSE, created |-> NoKey]]
    /\ timers = [a \in Admins |-> 0]
    /\ post = [q \in Posts |-> [at |-> "idle"]]
    /\ audits = [r \in Rules |-> 0]
    /\ calls = 0 /\ faults = 0
    /\ intended = [r \in Rules |-> IF rules[r] = Absent THEN Absent ELSE rules[r].scope]
    /\ changes = [r \in Rules |-> 0]
    /\ seen = 1..keys /\ lost = {} /\ live = [q \in Posts |-> FALSE]

-----------------------------------------------------------------------------
(* The rules page *)

\* listRules for the page's query, which has no filter: inactive rules too.
ListRules == rules

\* onMounted(loadRules), a reload by hand.
LoadRules(a) ==
    /\ list[a] # ListRules
    /\ list' = [list EXCEPT ![a] = ListRules]
    /\ UNCHANGED <<rules, sources, call, form, dialog, timers, post, keys, audits,
                   calls, faults, history>>

\* toggleRule asks for the opposite of the status on the card, not in the row.
ToggleRule(a, r) ==
    /\ list[a][r] # Absent
    /\ Start(a, [op |-> "toggle", at |-> "update", rule |-> r,
                 to |-> ~list[a][r].active])
    /\ UNCHANGED <<rules, sources, pages, post, keys, audits, faults, history>>

DeleteRule(a, r) ==
    /\ list[a][r] # Absent
    /\ Start(a, [op |-> "delete", at |-> "update", rule |-> r, to |-> FALSE])
    /\ UNCHANGED <<rules, sources, pages, post, keys, audits, faults, history>>

EditRule(a, r) ==
    /\ list[a][r] # Absent /\ form[a] = NoForm
    /\ form' = [form EXCEPT ![a] = [rule |-> r, def |-> list[a][r].def]]
    /\ UNCHANGED <<rules, sources, call, list, dialog, timers, post, keys, audits,
                   calls, faults, history>>

\* The dialog may be closed while its save is in flight.
CloseForm(a) ==
    /\ form[a] # NoForm
    /\ form' = [form EXCEPT ![a] = NoForm]
    /\ UNCHANGED <<rules, sources, call, list, dialog, timers, post, keys, audits,
                   calls, faults, history>>

\* handleSubmit of EditRuleModal sends every field of the form, changed or not.
SubmitForm(a, d) ==
    /\ form[a] # NoForm
    /\ form' = [form EXCEPT ![a] = [@ EXCEPT !.def = d]]
    /\ Start(a, [op |-> "save", at |-> "update", rule |-> form[a].rule, def |-> d,
                 to |-> Keep, scope |-> Keep])
    /\ UNCHANGED <<rules, sources, list, dialog, timers, post, keys, audits, faults,
                   history>>

\* PATCH /rules/:id by other means than the form: a status, a source (or null,
\* for every source), both or neither.  What else it may send, the form sends.
PatchRule(a, r, on, scope) ==
    /\ rules[r] # Absent
    /\ Start(a, [op |-> "patch", at |-> "update", rule |-> r, def |-> Keep,
                 to |-> on, scope |-> scope])
    /\ UNCHANGED <<rules, sources, pages, post, keys, audits, faults, history>>

\* handleSubmit of CreateRuleModal names no source; POST /rules may.
SubmitRule(a, r, d, on, scope) ==
    /\ rules[r] = Absent /\ \A b \in Admins : call[b].op = "create" => call[b].rule # r
    /\ Start(a, [op |-> "create", at |-> "update", rule |-> r, to |-> on,
                 def |-> d, scope |-> scope])
    /\ UNCHANGED <<rules, sources, pages, post, keys, audits, faults, history>>

-----------------------------------------------------------------------------
(* RulesService *)

\* createRule: the foreign key refuses a source that is gone.
StoreRule(a) ==
    /\ At(a, "create", "update")
    /\ LET c == call[a]
       IN  /\ c.scope # Global => sources[c.scope] # Absent
           /\ rules' = [rules EXCEPT ![c.rule] =
                            [def |-> c.def, active |-> c.to, scope |-> c.scope]]
           /\ intended' = [intended EXCEPT ![c.rule] = c.scope]
    /\ Goto(a, "answer")
    /\ UNCHANGED <<sources, pages, post, keys, audits, calls, faults, changes, seen,
                   lost, live>>

Sent(old, new) == IF new = Keep THEN old ELSE new

\* updateRule writes what was sent, the status included, and no audit row; the
\* row it answers with says no more of what was sent.
UpdateRule(a) ==
    /\ At(a, "save", "update") \/ At(a, "patch", "update")
    /\ LET c == call[a]
           old == rules[c.rule]
       IN  /\ c.scope \in Sources => sources[c.scope] # Absent
           /\ rules' = [rules EXCEPT ![c.rule] =
                 [def |-> Sent(old.def, c.def), active |-> Sent(old.active, c.to),
                  scope |-> Sent(old.scope, c.scope)]]
           /\ intended' = [intended EXCEPT ![c.rule] = Sent(@, c.scope)]
    /\ call' = [call EXCEPT ![a] = [@ EXCEPT !.at = "answer", !.to = Keep, !.scope = Keep]]
    /\ UNCHANGED <<sources, pages, post, keys, audits, calls, faults, changes, seen,
                   lost, live>>

\* Mutant: the status is flipped instead of set.
FlipRuleActive(a) ==
    /\ At(a, "toggle", "update") \/ At(a, "delete", "update")
    /\ LET r == call[a].rule
       IN  /\ rules' = [rules EXCEPT ![r] = [@ EXCEPT !.active = ~@]]
           /\ changes' = [changes EXCEPT ![r] = @ + 1]
    /\ Goto(a, "audit")
    /\ UNCHANGED <<sources, pages, post, keys, audits, calls, faults, intended, seen,
                   lost, live>>

\* setRuleActive, and the soft delete of deleteRule, whose look-up finds every
\* rule there ever was.
SetRuleActive(a) ==
    /\ At(a, "toggle", "update") \/ At(a, "delete", "update")
    /\ LET r == call[a].rule
       IN  /\ rules' = [rules EXCEPT ![r] = [@ EXCEPT !.active = call[a].to]]
           /\ changes' = [changes EXCEPT ![r] = @ + 1]
    /\ Goto(a, "audit")
    /\ UNCHANGED <<sources, pages, post, keys, audits, calls, faults, intended, seen,
                   lost, live>>

\* Mutant: the request is answered without waiting for the audit row.
SkipAudit(a) ==
    /\ At(a, "toggle", "audit") \/ At(a, "delete", "audit")
    /\ audits' \in {audits, [audits EXCEPT ![call[a].rule] = @ + 1]}
    /\ Goto(a, "answer")
    /\ UNCHANGED <<rules, sources, pages, post, keys, calls, faults, history>>

WriteAudit(a) ==
    /\ At(a, "toggle", "audit") \/ At(a, "delete", "audit")
    /\ audits' = [audits EXCEPT ![call[a].rule] = @ + 1]
    /\ Goto(a, "answer")
    /\ UNCHANGED <<rules, sources, pages, post, keys, calls, faults, history>>

\* The page reloads, and the reload may fail; a form that was closed meanwhile
\* is unmounted, so its `updated` reaches nobody, and no page sent a PATCH of
\* other means.
AnswerRules(a) ==
    /\ call[a].op \in {"toggle", "delete", "save", "patch", "create"}
    /\ call[a].at = "answer"
    /\ list' \in IF call[a].op = "patch" \/ (call[a].op = "save" /\ form[a] = NoForm)
                 THEN {list} ELSE {list, [list EXCEPT ![a] = ListRules]}
    /\ form' = IF call[a].op = "save" THEN [form EXCEPT ![a] = NoForm] ELSE form
    /\ call' = [call EXCEPT ![a] = Idle]
    /\ UNCHANGED <<rules, sources, dialog, timers, post, keys, audits, calls, faults,
                   history>>

-----------------------------------------------------------------------------
(* SourcesService and the sources page *)

\* Mutant: the key is not part of what the dialog shows.
DisplayNoKey(a, d) == dialog' = [dialog EXCEPT ![a] = d] /\ seen' = seen

Display(a, d) ==
    /\ dialog' = [dialog EXCEPT ![a] = d]
    /\ seen' = IF d.open THEN seen \cup ({d.created} \ {NoKey}) ELSE seen

\* The dialog opens on createdSource as it was left.
OpenDialog(a) ==
    /\ a \in Operators /\ ~dialog[a].open
    /\ Display(a, [open |-> TRUE, created |-> dialog[a].created])
    /\ UNCHANGED <<rules, sources, call, list, form, timers, post, keys, audits, calls,
                   faults, intended, changes, lost, live>>

\* closeModal, by the user or by the timer of any earlier creation.
CloseModal(a) ==
    /\ \/ dialog[a].open /\ timers' = timers
       \/ timers[a] > 0 /\ timers' = [timers EXCEPT ![a] = @ - 1]
    /\ lost' = IF dialog[a].open THEN lost
                ELSE lost \cup ({dialog[a].created} \ {NoKey})
    /\ Display(a, [open |-> FALSE, created |-> NoKey])
    /\ UNCHANGED <<rules, sources, call, list, form, post, keys, audits, calls, faults,
                   intended, changes, live>>

\* createSource of the page; generateApiKey makes a key nobody has.
SubmitSource(a) ==
    /\ dialog[a].open /\ dialog[a].created = NoKey
    /\ keys < MaxKeys /\ keys' = keys + 1
    /\ Start(a, [op |-> "createSource", at |-> "update", source |-> keys', key |-> keys'])
    /\ UNCHANGED <<rules, sources, pages, post, audits, faults, history>>

\* regenerateApiKey, deleteSource and setActive look the source up first.
FindSource(a, s, op, to) ==
    /\ sources[s] # Absent
    /\ IF op = "regenerate" THEN keys < MaxKeys /\ keys' = keys + 1 ELSE UNCHANGED keys
    /\ Start(a, [op |-> op, at |-> "update", source |-> s, key |-> keys', to |-> to])
    /\ UNCHANGED <<rules, sources, pages, post, audits, faults, history>>

StoreSource(a) ==
    /\ At(a, "createSource", "update")
    /\ sources' = [sources EXCEPT ![call[a].source] = [active |-> TRUE, key |-> call[a].key]]
    /\ Goto(a, "answer") /\ Watch(sources')
    /\ UNCHANGED <<rules, pages, post, keys, audits, calls, faults, intended, changes,
                   seen, lost>>

\* The row may be gone since it was found: the update then fails (Fail).
UpdateSource(a) ==
    /\ At(a, "regenerate", "update") \/ At(a, "setActive", "update")
    /\ LET c == call[a]
       IN  /\ sources[c.source] # Absent
           /\ sources' = [sources EXCEPT ![c.source] =
                 IF c.op = "regenerate" THEN [@ EXCEPT !.key = c.key]
                                        ELSE [@ EXCEPT !.active = c.to]]
    /\ Goto(a, "answer") /\ Watch(sources')
    /\ UNCHANGED <<rules, pages, post, keys, audits, calls, faults, intended, changes,
                   seen, lost>>

\* The sources that events name.  A foreign key protects them.
Named == {post[q].source : q \in {x \in Posts : post[x].at \in {"stored", "matched"}}}

\* deleteSource.  The relation of rules is optional: Prisma sets their sourceId
\* to null, and a rule of the deleted source becomes one of every source.
DeleteSource(a) ==
    /\ At(a, "deleteSource", "update")
    /\ LET s == call[a].source
       IN  /\ sources[s] # Absent /\ s \notin Named
           /\ sources' = [sources EXCEPT ![s] = Absent]
           /\ rules' = [r \in Rules |->
                 IF rules[r] # Absent /\ rules[r].scope = s
                 THEN [rules[r] EXCEPT !.scope = Global] ELSE rules[r]]
    /\ Goto(a, "answer") /\ Watch(sources')
    /\ UNCHANGED <<pages, post, keys, audits, calls, faults, intended, changes, seen,
                   lost>>

\* A regenerated key is in the body of the answer; a created one goes to
\* createdSource, and on the screen if the dialog is still open.
AnswerSource(a) ==
    /\ call[a].op \in {"createSource", "regenerate", "setActive", "deleteSource"}
    /\ call[a].at = "answer"
    /\ IF call[a].op = "createSource"
       THEN /\ Display(a, [open |-> dialog[a].open, created |-> call[a].key])
            /\ timers' = [timers EXCEPT ![a] = @ + 1]
       ELSE /\ seen' = IF call[a].op = "regenerate" THEN seen \cup {call[a].key} ELSE seen
            /\ UNCHANGED <<dialog, timers>>
    /\ call' = [call EXCEPT ![a] = Idle]
    /\ UNCHANGED <<rules, sources, list, form, post, keys, audits, calls, faults,
                   intended, changes, lost, live>>

\* A statement is refused by the database, or the process or the connection is
\* lost before the next one: whatever was applied stays, and nothing follows.
Fail(a) ==
    /\ call[a] # Idle
    /\ faults < MaxFaults /\ faults' = faults + 1
    /\ lost' = IF call[a].op \in {"createSource", "regenerate"}
               THEN lost \cup {call[a].key} ELSE lost
    /\ call' = [call EXCEPT ![a] = Idle]
    /\ UNCHANGED <<rules, sources, pages, post, keys, audits, calls, intended, changes,
                   seen, live>>

-----------------------------------------------------------------------------
(* POST /events with an API key *)

Send(q, k) ==
    /\ post[q].at = "idle" /\ k \in 1..keys
    /\ post' = [post EXCEPT ![q] = [at |-> "sent", key |-> k]]
    /\ live' = [live EXCEPT ![q] = Live(k, sources)]
    /\ UNCHANGED <<rules, sources, call, pages, keys, audits, calls, faults, intended,
                   changes, seen, lost>>

\* An error answers the request, and the same client may send another.
Refuse(q) ==
    /\ post' = [post EXCEPT ![q] = [at |-> "idle"]]
    /\ live' = [live EXCEPT ![q] = FALSE]

\* Mutant: inactive sources are read too.
ReadAllSources(q) ==
    /\ post[q].at = "sent"
    /\ post' = [post EXCEPT ![q] =
         [at |-> "read", key |-> @.key,
          owners |-> {s \in Sources : sources[s] # Absent /\ sources[s].key = @.key}]]
    /\ UNCHANGED <<rules, sources, call, pages, keys, audits, calls, faults, history>>

\* validateApiKey reads the active sources once; owners are those of them whose
\* hash the key will match.
ReadSources(q) ==
    /\ post[q].at = "sent"
    /\ post' = [post EXCEPT ![q] =
         [at |-> "read", key |-> @.key,
          owners |-> {s \in Sources : /\ sources[s] # Absent /\ sources[s].active
                                      /\ sources[s].key = @.key}]]
    /\ UNCHANGED <<rules, sources, call, pages, keys, audits, calls, faults, history>>

\* The slow comparisons, one after the other, of the hashes that were read.
ValidateApiKey(q) ==
    /\ post[q].at = "read"
    /\ IF post[q].owners = {} THEN Refuse(q)
       ELSE /\ post' = [post EXCEPT ![q] = [at |-> "known", key |-> @.key,
                                            source |-> CHOOSE s \in @.owners : TRUE]]
            /\ live' = live
    /\ UNCHANGED <<rules, sources, call, pages, keys, audits, calls, faults, intended,
                   changes, seen, lost>>

\* The source is not read again: it may be inactive, but it must still exist.
StoreEvent(q) ==
    /\ post[q].at = "known"
    /\ IF sources[post[q].source] = Absent THEN Refuse(q)
       ELSE /\ post' = [post EXCEPT ![q] = [at |-> "stored", key |-> @.key,
                                            source |-> @.source]]
            /\ live' = live
    /\ UNCHANGED <<rules, sources, call, pages, keys, audits, calls, faults, intended,
                   changes, seen, lost>>

\* Mutant: the condition on sourceId is forgotten.
FindAllRules(q) ==
    /\ post[q].at = "stored"
    /\ post' = [post EXCEPT ![q] =
         [at |-> "matched", key |-> @.key, source |-> @.source,
          fires |-> {r \in Rules : rules[r] # Absent /\ rules[r].active}]]
    /\ UNCHANGED <<rules, sources, call, pages, keys, audits, calls, faults, history>>

\* The query of findMatchingRules, for a type and payload that suit every rule.
FindMatchingRules(q) ==
    /\ post[q].at = "stored"
    /\ post' = [post EXCEPT ![q] =
         [at |-> "matched", key |-> @.key, source |-> @.source,
          fires |-> {r \in Rules : /\ rules[r] # Absent /\ rules[r].active
                                   /\ rules[r].scope \in {Global, @.source}}]]
    /\ UNCHANGED <<rules, sources, call, pages, keys, audits, calls, faults, history>>

-----------------------------------------------------------------------------
RulesPage(a) ==
    \/ LoadRules(a) \/ CloseForm(a)
    \/ \E r \in Rules : ToggleRule(a, r) \/ DeleteRule(a, r) \/ EditRule(a, r)
    \/ \E d \in Defs : SubmitForm(a, d)
    \/ \E r \in Rules, d \in Defs, on \in BOOLEAN, scope \in (1..keys) \cup {Global} :
          SubmitRule(a, r, d, on, scope)
    \/ \E r \in Rules, on \in BOOLEAN \cup {Keep},
          scope \in (1..keys) \cup {Global, Keep} : PatchRule(a, r, on, scope)

RulesHandlers(a) ==
    \/ StoreRule(a) \/ UpdateRule(a) \/ SetRuleActive(a) \/ WriteAudit(a) \/ AnswerRules(a)

\* toggleSource of the page sends {isActive} by PATCH, which UpdateSourceDto does
\* not know and the validation refuses: only the API reaches setActive.
SourcesPage(a) ==
    \/ OpenDialog(a) \/ CloseModal(a) \/ SubmitSource(a)
    \/ \E s \in Sources : \/ FindSource(a, s, "regenerate", TRUE)
                          \/ FindSource(a, s, "deleteSource", TRUE)
                          \/ \E to \in BOOLEAN : FindSource(a, s, "setActive", to)

SourcesHandlers(a) ==
    StoreSource(a) \/ UpdateSource(a) \/ DeleteSource(a) \/ AnswerSource(a)

Next ==
    \/ \E a \in Admins : \/ RulesPage(a) \/ RulesHandlers(a)
                         \/ SourcesPage(a) \/ SourcesHandlers(a) \/ Fail(a)
    \/ \E q \in Posts : \/ \E k \in Keys : Send(q, k)
                        \/ ReadSources(q) \/ ValidateApiKey(q) \/ StoreEvent(q) \/ FindMatchingRules(q)

Spec == Init /\ [][Next]_vars

-----------------------------------------------------------------------------
(* Types *)

\* Rows of the two tables; Absent stands for no row.
RuleRows   == [def : Defs, active : BOOLEAN, scope : Sources \cup {Global}]
SourceRows == [active : BOOLEAN, key : Keys]

\* The next statement of a handler.
Steps == {"update", "answer"}

\* The handlers, and what they hold in local variables.
Calls ==
    {Idle}
    \cup [op : {"toggle", "delete"}, at : Steps \cup {"audit"}, rule : Rules, to : BOOLEAN]
    \cup [op : {"save"}, at : Steps, rule : Rules, def : Defs, to : {Keep}, scope : {Keep}]
    \cup [op : {"patch"}, at : Steps, rule : Rules, def : {Keep},
          to : BOOLEAN \cup {Keep}, scope : Sources \cup {Global, Keep}]
    \cup [op : {"create"}, at : Steps, rule : Rules, to : BOOLEAN, def : Defs,
          scope : Sources \cup {Global}]
    \cup [op : {"createSource"}, at : Steps, source : Sources, key : Keys]
    \cup [op : {"regenerate", "setActive", "deleteSource"}, at : Steps,
          source : Sources, key : Keys, to : BOOLEAN]

\* A request with what it has learnt so far.
PostTypes ==
    {[at |-> "idle"]}
    \cup [at : {"sent"}, key : Keys]
    \cup [at : {"read"}, key : Keys, owners : SUBSET Sources]
    \cup [at : {"known", "stored"}, key : Keys, source : Sources]
    \cup [at : {"matched"}, key : Keys, source : Sources, fires : SUBSET Rules]

\* What listRules can return.
Tables == [Rules -> RuleRows \cup {Absent}]

\* The type of every variable.
TypeOK ==
    /\ rules \in Tables
    /\ sources \in [Sources -> SourceRows \cup {Absent}]
    /\ call \in [Admins -> Calls]
    /\ list \in [Admins -> Tables]
    /\ form \in [Admins -> [rule : Rules, def : Defs] \cup {NoForm}]
    /\ dialog \in [Admins -> [open : BOOLEAN, created : Keys \cup {NoKey}]]
    /\ timers \in [Admins -> Nat]
    /\ post \in [Posts -> PostTypes]
    /\ keys \in 0..MaxKeys
    /\ audits \in [Rules -> Nat] /\ changes \in [Rules -> Nat]
    /\ calls \in Nat /\ faults \in Nat
    /\ intended \in [Rules -> Sources \cup {Global, Absent}]
    /\ seen \subseteq Keys /\ lost \subseteq Keys
    /\ live \in [Posts -> BOOLEAN]

-----------------------------------------------------------------------------
(* Properties *)

\* A key that was replaced, or whose source was switched off or deleted, opens
\* nothing to a request that is sent afterwards: a request that was let in had
\* a live key at some moment of its own, though perhaps no longer when its key
\* had been compared or when the event is stored.
RevokedKeyRefused ==
    \A q \in Posts : post[q].at \in {"known", "stored", "matched"} => live[q]

\* At the moment an event is matched, a rule that was last given to one source,
\* by POST or by PATCH, fires on another source's event only if its own source
\* was deleted, which turned it into a rule of every source.
FiresInScope ==
    [][\A q \in Posts : (post[q].at = "stored" /\ post'[q].at = "matched") =>
          \A r \in post'[q].fires :
              \/ intended[r] \in {Global, post[q].source}
              \/ sources[intended[r]] = Absent]_vars

\* Every activation and deactivation by its own request, and every soft delete,
\* leaves its audit row, unless its handler is between the two statements or
\* broke off there, and there is never an audit row of a change that was not
\* made.  A PATCH that sends isActive writes none and is not counted.
ChangesAudited ==
    \A r \in Rules :
        /\ audits[r] <= changes[r]
        /\ changes[r] <= audits[r] + faults
              + Cardinality({a \in Admins : call[a] # Idle /\ call[a].at = "audit"
                                            /\ call[a].rule = r})

\* A rule goes on or off only by a call that asks for it: a click on a button
\* that said Activate, Deactivate or Delete, however stale the card was, or a
\* PATCH that sends isActive.  Saving the edit form of a rule that was deleted
\* meanwhile, or a PATCH of another property, does not revive it.
ToggleDoesWhatItSaid ==
    [][\A r \in Rules :
         (rules[r] # Absent /\ rules'[r].active # rules[r].active) =>
            \E a \in Admins : /\ call[a].op \in {"toggle", "delete", "patch"}
                              /\ call[a].rule = r /\ call[a].at = "update"
                              /\ call[a].to = rules'[r].active]_vars

\* The key a source answers to was on somebody's screen, or is on its way
\* there, unless its answer was lost or closeModal wiped it from a dialog that
\* was already closed: nobody can use the source, and nothing shows it again.
StoredKeyIsKnown ==
    \A s \in Sources : sources[s] # Absent =>
        \/ sources[s].key \in seen \cup lost \cup {dialog[a].created : a \in Admins}
        \/ \E a \in Admins : call[a] # Idle /\ call[a].at = "answer"
                             /\ call[a].op \in {"createSource", "regenerate"}
                             /\ call[a].key = sources[s].key
=============================================================================
