------------------------ MODULE AdministrationProofs ------------------------
(***************************************************************************)
(* Theorems about Administration, for any administrators, rules, sources,  *)
(* keys and posts, and any number of overlapping calls and failures.       *)
(***************************************************************************)
EXTENDS Administration, FiniteSetTheorems, TLAPS

\* Who is let in had a live key, and a key that is live now has been live.
AccessInv ==
    \A q \in Posts : post[q].at # "idle" =>
        /\ Live(post[q].key, sources) => live[q]
        /\ post[q].at \in {"known", "stored", "matched"} => live[q]
        /\ (post[q].at = "read" /\ post[q].owners # {}) => live[q]

\* Rows are never removed, and what the pages show or change is a row.
RowsInv ==
    /\ \A a \in Admins, r \in Rules : list[a][r] # Absent => rules[r] # Absent
    /\ \A a \in Admins : form[a] # NoForm => rules[form[a].rule] # Absent
    /\ \A a \in Admins :
          call[a].op \in {"toggle", "delete", "save", "patch"} => rules[call[a].rule] # Absent
    /\ \A a \in Admins : At(a, "create", "update") => rules[call[a].rule] = Absent
    /\ \A a, b \in Admins :
          (a # b /\ At(a, "create", "update") /\ At(b, "create", "update")) =>
              call[a].rule # call[b].rule

\* The source that is about to be created is new.
FreshInv ==
    /\ \A s \in Sources : sources[s] # Absent => s <= keys
    /\ \A r \in Rules : intended[r] \in Sources => intended[r] <= keys
    /\ \A a \in Admins : At(a, "createSource", "update") =>
          /\ call[a].source <= keys /\ sources[call[a].source] = Absent
          /\ \A r \in Rules : intended[r] # call[a].source
          /\ \A b \in Admins \ {a} : At(b, "createSource", "update") =>
                call[b].source # call[a].source

\* A source that is not there.
Gone(s) == s \in Sources /\ sources[s] = Absent

\* A rule has the scope it was last given, or had until its source was deleted.
ScopeInv ==
    \A r \in Rules : rules[r] # Absent =>
        \/ rules[r].scope = intended[r]
        \/ rules[r].scope = Global /\ Gone(intended[r])

\* A step of the request q.
PostStep(q) ==
    \/ \E k \in Keys : Send(q, k)
    \/ ReadSources(q) \/ ValidateApiKey(q) \/ StoreEvent(q) \/ FindMatchingRules(q)

-----------------------------------------------------------------------------
(* Who changes what *)

\* What the rules page never touches: it starts handlers, and the tables are theirs.
LEMMA RulesPageFrame ==
  ASSUME NEW a \in Admins, RulesPage(a)
  PROVE  UNCHANGED <<rules, sources, dialog, timers, post, keys, audits, faults, history>>
  BY DEF RulesPage, LoadRules, CloseForm, ToggleRule, DeleteRule, EditRule, SubmitForm,
         PatchRule, SubmitRule, pages, history

\* What the handlers of RulesService never touch.
LEMMA RulesHandlersFrame ==
  ASSUME NEW a \in Admins, RulesHandlers(a)
  PROVE  UNCHANGED <<sources, dialog, timers, post, keys, faults, seen, lost, live>>
  BY DEF RulesHandlers, StoreRule, UpdateRule, SetRuleActive, WriteAudit, AnswerRules,
         pages, history

\* What the sources page never touches.
LEMMA SourcesPageFrame ==
  ASSUME NEW a \in Admins, SourcesPage(a)
  PROVE  UNCHANGED <<rules, sources, list, form, post, audits, faults, intended, changes,
                     live>>
  BY DEF SourcesPage, OpenDialog, CloseModal, SubmitSource, FindSource, pages, history

\* What the handlers of SourcesService never touch; only a deletion changes rules.
LEMMA SourcesHandlersFrame ==
  ASSUME NEW a \in Admins, SourcesHandlers(a)
  PROVE  UNCHANGED <<list, form, post, keys, audits, faults, intended, changes, lost>>
  BY DEF SourcesHandlers, StoreSource, UpdateSource, DeleteSource, AnswerSource, Display,
         pages, history

\* A POST of an event changes nothing but itself.
LEMMA PostFrame ==
  ASSUME NEW q \in Posts, PostStep(q)
  PROVE  UNCHANGED <<rules, sources, call, pages, keys, audits, calls, faults, intended,
                     changes, seen, lost>>
  BY DEF PostStep, Send, ReadSources, ValidateApiKey, StoreEvent, Refuse, FindMatchingRules,
         history

\* Every step is a page's, a handler's, a failure, or a step of a post.
LEMMA NextCases ==
  ASSUME [Next]_vars
  PROVE  \/ \E a \in Admins : \/ RulesPage(a) \/ RulesHandlers(a) \/ SourcesPage(a)
                              \/ SourcesHandlers(a) \/ Fail(a)
         \/ \E q \in Posts : PostStep(q)
         \/ UNCHANGED vars
  BY DEF Next, PostStep

-----------------------------------------------------------------------------
(* Types *)

\* A handler that goes to its next statement keeps what it was called with.
LEMMA GotoKeeps ==
  ASSUME NEW c \in Calls, c # Idle, NEW at \in Steps \cup {"audit"},
         at = "audit" => c.op \in {"toggle", "delete"}
  PROVE  /\ [c EXCEPT !.at = at] \in Calls
         /\ [c EXCEPT !.at = at].op = c.op
         /\ [c EXCEPT !.at = at].at = at
         /\ c.op \in {"toggle", "delete", "save", "patch", "create"} =>
                [c EXCEPT !.at = at].rule = c.rule
         /\ c.op \in {"createSource", "regenerate", "setActive", "deleteSource"} =>
                /\ [c EXCEPT !.at = at].source = c.source
                /\ [c EXCEPT !.at = at].key = c.key
  BY DEF Calls, Idle, Steps

\* What each kind of handler carries.
LEMMA CallsAre ==
  ASSUME NEW c \in Calls
  PROVE  /\ c.op = "idle" <=> c = Idle
         /\ c.op \in {"toggle", "delete", "save", "patch", "create"} => c.rule \in Rules
         /\ c.op \in {"toggle", "delete", "create"} => c.to \in BOOLEAN
         /\ c.op = "create" => c.def \in Defs
         /\ c.op \in {"save", "patch"} =>
                /\ c.def \in Defs \cup {Keep} /\ c.to \in BOOLEAN \cup {Keep}
                /\ c.scope \in Sources \cup {Global, Keep}
         /\ c.op = "save" => c.to = Keep
         /\ c.op = "create" => c.scope \in Sources \cup {Global}
         /\ c.op \in {"createSource", "regenerate", "setActive", "deleteSource"} =>
                c.source \in Sources /\ c.key \in Keys
         /\ c.op \in {"regenerate", "setActive", "deleteSource"} => c.to \in BOOLEAN
  BY DEF Calls, Idle

\* What a post carries at each point.
LEMMA PostsAre ==
  ASSUME NEW p \in PostTypes
  PROVE  /\ p.at # "idle" => p.key \in Keys
         /\ p.at \in {"known", "stored", "matched"} => p.source \in Sources
         /\ p.at = "read" => p.owners \subseteq Sources
         /\ p.at = "matched" => p.fires \subseteq Rules
  BY DEF PostTypes

\* updateRule goes on to its answer.
LEMMA UpdateAnswers ==
  ASSUME TypeOK, NEW a \in Admins, UpdateRule(a)
  PROVE  /\ call[a].op \in {"save", "patch"} /\ call[a].at = "update"
         /\ call' \in [Admins -> Calls]
         /\ call'[a].op = call[a].op /\ call'[a].at = "answer"
         /\ call'[a].rule = call[a].rule
         /\ \A b \in Admins \ {a} : call'[b] = call[b]
<1> DEFINE after == [call[a] EXCEPT !.at = "answer", !.to = Keep, !.scope = Keep]
<1>1. call[a] \in Calls /\ call[a].op \in {"save", "patch"} /\ call[a].at = "update"
  BY DEF UpdateRule, At, TypeOK
<1>2. /\ after \in Calls /\ after.op = call[a].op /\ after.at = "answer"
      /\ after.rule = call[a].rule
  <2> DEFINE Saves == [op : {"save"}, at : Steps, rule : Rules, def : Defs, to : {Keep},
                       scope : {Keep}]
             Patches == [op : {"patch"}, at : Steps, rule : Rules, def : {Keep},
                         to : BOOLEAN \cup {Keep}, scope : Sources \cup {Global, Keep}]
  <2>1. Saves \subseteq Calls /\ Patches \subseteq Calls
    BY DEF Calls
  <2>2. call[a] \in Saves \/ call[a] \in Patches
    BY <1>1 DEF Calls, Idle
  <2>3. CASE call[a] \in Saves
    <3>1. /\ after \in Saves /\ after.op = call[a].op /\ after.at = "answer"
          /\ after.rule = call[a].rule
      BY <2>3 DEF Steps
    <3> QED
      BY <2>1, <3>1
  <2>4. CASE call[a] \in Patches
    <3>1. /\ after \in Patches /\ after.op = call[a].op /\ after.at = "answer"
          /\ after.rule = call[a].rule
      BY <2>4 DEF Steps
    <3> QED
      BY <2>1, <3>1
  <2> QED
    BY <2>2, <2>3, <2>4
<1>3. call' = [call EXCEPT ![a] = after]
  BY DEF UpdateRule
<1> HIDE DEF after
<1> QED
  BY <1>1, <1>2, <1>3 DEF TypeOK

\* What updateRule does to a rule that exists: each property that was sent, the
\* source's row being there, and nothing else.
LEMMA RuleUpdated ==
  ASSUME TypeOK, RowsInv, NEW a \in Admins, UpdateRule(a),
         NEW u, u = call[a].rule
  PROVE  /\ call[a] # Idle /\ call[a].op \in {"save", "patch"} /\ call[a].at = "update"
         /\ UNCHANGED <<list, form>>
         /\ u \in Rules /\ rules[u] \in RuleRows /\ rules'[u] \in RuleRows
         /\ rules'[u].active = Sent(rules[u].active, call[a].to)
         /\ rules'[u].scope = Sent(rules[u].scope, call[a].scope)
         /\ intended'[u] = Sent(intended[u], call[a].scope)
         /\ call[a].scope \in Sources \cup {Global, Keep}
         /\ call[a].scope \in Sources => sources[call[a].scope] # Absent
         /\ \A r \in Rules \ {u} : rules'[r] = rules[r] /\ intended'[r] = intended[r]
         /\ rules' \in Tables /\ intended' \in [Rules -> Sources \cup {Global, Absent}]
<1> DEFINE c == call[a]
           new == [def |-> Sent(rules[u].def, c.def), active |-> Sent(rules[u].active, c.to),
                   scope |-> Sent(rules[u].scope, c.scope)]
<1>1. c \in Calls /\ c.op \in {"save", "patch"} /\ c.at = "update"
  BY DEF UpdateRule, At, TypeOK
<1>2. /\ c # Idle /\ u \in Rules
      /\ c.def \in Defs \cup {Keep} /\ c.to \in BOOLEAN \cup {Keep}
      /\ c.scope \in Sources \cup {Global, Keep}
  BY <1>1, CallsAre
<1>3. rules[u] \in RuleRows
  BY <1>1, <1>2 DEF RowsInv, TypeOK, Tables
<1>4. new \in RuleRows
  BY <1>2, <1>3 DEF RuleRows, Sent
<1>5. /\ rules' = [rules EXCEPT ![u] = new]
      /\ intended' = [intended EXCEPT ![u] = Sent(intended[u], c.scope)]
      /\ c.scope \in Sources => sources[c.scope] # Absent
  BY <1>2 DEF UpdateRule, TypeOK
<1>6. rules'[u] = new /\ rules' \in Tables /\ \A r \in Rules \ {u} : rules'[r] = rules[r]
  BY <1>2, <1>4, <1>5 DEF TypeOK, Tables
<1>7. /\ intended'[u] = Sent(intended[u], c.scope)
      /\ intended' \in [Rules -> Sources \cup {Global, Absent}]
      /\ \A r \in Rules \ {u} : intended'[r] = intended[r]
  BY <1>2, <1>5 DEF TypeOK, Sent
<1>8. UNCHANGED <<list, form>>
  BY DEF UpdateRule, pages
<1>9. rules'[u].active = new.active /\ rules'[u].scope = new.scope /\ rules'[u] \in RuleRows
  BY <1>4, <1>6
<1>10. /\ new.active = Sent(rules[u].active, c.to)
       /\ new.scope = Sent(rules[u].scope, c.scope)
  OBVIOUS
<1> HIDE DEF new
<1> QED
  BY <1>1, <1>2, <1>3, <1>5, <1>6, <1>7, <1>8, <1>9, <1>10

\* What the rules page does; the sources it names have a key.
LEMMA RulesPageCases ==
  ASSUME TypeOK, NEW a \in Admins, RulesPage(a)
  PROVE  \/ LoadRules(a) \/ CloseForm(a)
         \/ \E r \in Rules : ToggleRule(a, r) \/ DeleteRule(a, r) \/ EditRule(a, r)
         \/ \E d \in Defs : SubmitForm(a, d)
         \/ \E r \in Rules, d \in Defs, on \in BOOLEAN, scope \in Sources \cup {Global} :
               SubmitRule(a, r, d, on, scope)
         \/ \E r \in Rules, on \in BOOLEAN \cup {Keep},
               scope \in Sources \cup {Global, Keep} : PatchRule(a, r, on, scope)
<1>1. 1..keys \subseteq Sources
  BY AdministrationAssumption DEF Sources, Keys, TypeOK
<1> QED
  BY <1>1 DEF RulesPage

\* The rules page keeps the types: what its cards and form hold came from rows.
LEMMA RulesPageType ==
  ASSUME TypeOK, RowsInv, NEW a \in Admins, RulesPage(a)
  PROVE  TypeOK'
<1> USE AdministrationAssumption DEF TypeOK
<1>0. UNCHANGED <<rules, sources, dialog, timers, post, keys, audits, faults, history>>
  BY RulesPageFrame
<1>1. CASE LoadRules(a)
  BY <1>0, <1>1 DEF LoadRules, ListRules, history
<1>2. CASE CloseForm(a)
  BY <1>0, <1>2 DEF CloseForm, history
<1>3. ASSUME NEW r \in Rules, ToggleRule(a, r)
      PROVE  TypeOK'
  <2>1. list[a][r] \in RuleRows
    BY <1>3 DEF ToggleRule, Tables
  <2>2. [op |-> "toggle", at |-> "update", rule |-> r, to |-> ~list[a][r].active] \in Calls
    BY <2>1 DEF Calls, RuleRows, Steps
  <2> QED
    BY <1>0, <1>3, <2>2 DEF ToggleRule, Start, pages, history
<1>4. ASSUME NEW r \in Rules, DeleteRule(a, r)
      PROVE  TypeOK'
  <2>2. [op |-> "delete", at |-> "update", rule |-> r, to |-> FALSE] \in Calls
    BY DEF Calls, Steps
  <2> QED
    BY <1>0, <1>4, <2>2 DEF DeleteRule, Start, pages, history
<1>5. ASSUME NEW r \in Rules, EditRule(a, r)
      PROVE  TypeOK'
  <2>1. list[a][r] \in RuleRows
    BY <1>5 DEF EditRule, Tables
  <2>2. [rule |-> r, def |-> list[a][r].def] \in [rule : Rules, def : Defs]
    BY <2>1 DEF RuleRows
  <2> QED
    BY <1>0, <1>5, <2>2 DEF EditRule, history
<1>6. ASSUME NEW d \in Defs, SubmitForm(a, d)
      PROVE  TypeOK'
  <2>1. form[a] \in [rule : Rules, def : Defs]
    BY <1>6 DEF SubmitForm
  <2>2. [form[a] EXCEPT !.def = d] \in [rule : Rules, def : Defs]
    BY <2>1
  <2>3. [op |-> "save", at |-> "update", rule |-> form[a].rule, def |-> d,
         to |-> Keep, scope |-> Keep] \in Calls
    BY <2>1 DEF Calls, Steps
  <2> QED
    BY <1>0, <1>6, <2>2, <2>3 DEF SubmitForm, Start, history
<1>7. ASSUME NEW r \in Rules, NEW d \in Defs, NEW on \in BOOLEAN,
             NEW scope \in Sources \cup {Global}, SubmitRule(a, r, d, on, scope)
      PROVE  TypeOK'
  <2>1. [op |-> "create", at |-> "update", rule |-> r, to |-> on, def |-> d,
         scope |-> scope] \in Calls
    BY DEF Calls, Steps
  <2> QED
    BY <1>0, <1>7, <2>1 DEF SubmitRule, Start, pages, history
<1>8. ASSUME NEW r \in Rules, NEW on \in BOOLEAN \cup {Keep},
             NEW scope \in Sources \cup {Global, Keep}, PatchRule(a, r, on, scope)
      PROVE  TypeOK'
  <2>1. [op |-> "patch", at |-> "update", rule |-> r, def |-> Keep, to |-> on,
         scope |-> scope] \in Calls
    BY DEF Calls, Steps
  <2> QED
    BY <1>0, <1>8, <2>1 DEF PatchRule, Start, pages, history
<1> HIDE DEF TypeOK
<1> QED
  BY <1>1, <1>2, <1>3, <1>4, <1>5, <1>6, <1>7, <1>8, RulesPageCases

\* The handlers of RulesService keep the types: an update finds a row to update.
LEMMA RulesHandlersType ==
  ASSUME TypeOK, RowsInv, NEW a \in Admins, RulesHandlers(a)
  PROVE  TypeOK'
<1> USE AdministrationAssumption DEF TypeOK
<1>0. UNCHANGED <<sources, dialog, timers, post, keys, faults, seen, lost, live>>
  BY RulesHandlersFrame
<1>c. call[a] \in Calls
  OBVIOUS
<1>g. ASSUME NEW at \in {"answer", "audit"}, call[a] # Idle, Goto(a, at),
             at = "audit" => call[a].op \in {"toggle", "delete"}
      PROVE  call' \in [Admins -> Calls]
  BY <1>c, <1>g, GotoKeeps DEF Goto, Steps
<1>1. CASE StoreRule(a)
  <2>1. call[a].op = "create" /\ call[a] # Idle
    BY <1>1, <1>c, CallsAre DEF StoreRule, At
  <2>2. [def |-> call[a].def, active |-> call[a].to, scope |-> call[a].scope] \in RuleRows
    BY <2>1, <1>c, CallsAre DEF RuleRows
  <2>3. call' \in [Admins -> Calls]
    BY <1>1, <2>1, <1>g DEF StoreRule
  <2>4. rules' \in Tables
    BY <1>1, <2>2 DEF StoreRule, Tables
  <2>5. intended' \in [Rules -> Sources \cup {Global, Absent}]
    BY <1>1, <2>1, <1>c, CallsAre DEF StoreRule
  <2> QED
    BY <1>0, <1>1, <2>3, <2>4, <2>5 DEF StoreRule, pages
<1>2. CASE UpdateRule(a)
  <2>1. /\ call' \in [Admins -> Calls] /\ rules' \in Tables
        /\ intended' \in [Rules -> Sources \cup {Global, Absent}]
    BY <1>2, RuleUpdated, UpdateAnswers
  <2> QED
    BY <1>0, <1>2, <2>1 DEF UpdateRule, pages
<1>3. CASE SetRuleActive(a)
  <2>1. call[a].op \in {"toggle", "delete"} /\ call[a] # Idle
    BY <1>3, <1>c, CallsAre DEF SetRuleActive, At
  <2>2. call[a].rule \in Rules /\ call[a].to \in BOOLEAN /\ rules[call[a].rule] \in RuleRows
    BY <2>1, <1>c, CallsAre DEF RowsInv, Tables
  <2>3. [rules[call[a].rule] EXCEPT !.active = call[a].to] \in RuleRows
    BY <2>2 DEF RuleRows
  <2>4. call' \in [Admins -> Calls]
    BY <1>3, <2>1, <1>g DEF SetRuleActive
  <2>5. rules' \in Tables
    BY <1>3, <2>3 DEF SetRuleActive, Tables
  <2>6. changes' \in [Rules -> Nat]
    BY <1>3, <2>2 DEF SetRuleActive
  <2> QED
    BY <1>0, <1>3, <2>4, <2>5, <2>6 DEF SetRuleActive, pages
<1>4. CASE WriteAudit(a)
  <2>1. call[a].op \in {"toggle", "delete"} /\ call[a] # Idle
    BY <1>4, <1>c, CallsAre DEF WriteAudit, At
  <2>2. call' \in [Admins -> Calls]
    BY <1>4, <2>1, <1>g DEF WriteAudit
  <2>3. audits' \in [Rules -> Nat]
    BY <1>4, <2>1, <1>c, CallsAre DEF WriteAudit
  <2> QED
    BY <1>0, <1>4, <2>2, <2>3 DEF WriteAudit, pages, history
<1>5. CASE AnswerRules(a)
  <2>1. call' \in [Admins -> Calls]
    BY <1>5 DEF AnswerRules, Calls
  <2>2. list' \in [Admins -> Tables]
    BY <1>5 DEF AnswerRules, ListRules
  <2>3. form' \in [Admins -> [rule : Rules, def : Defs] \cup {NoForm}]
    BY <1>5 DEF AnswerRules
  <2> QED
    BY <1>0, <1>5, <2>1, <2>2, <2>3 DEF AnswerRules, history
<1> QED
  BY <1>1, <1>2, <1>3, <1>4, <1>5 DEF RulesHandlers

\* The sources page keeps the types: a source that is found is no newer than its keys.
LEMMA SourcesPageType ==
  ASSUME TypeOK, FreshInv, NEW a \in Admins, SourcesPage(a)
  PROVE  TypeOK'
<1> USE AdministrationAssumption DEF TypeOK
<1>0. UNCHANGED <<rules, sources, list, form, post, audits, faults, intended, changes, live>>
  BY SourcesPageFrame
<1>1. CASE OpenDialog(a)
  <2>1. dialog[a] \in [open : BOOLEAN, created : Keys \cup {NoKey}]
    OBVIOUS
  <2>2. [open |-> TRUE, created |-> dialog[a].created]
           \in [open : BOOLEAN, created : Keys \cup {NoKey}]
    BY <2>1
  <2> QED
    BY <1>0, <1>1, <2>1, <2>2 DEF OpenDialog, Display
<1>2. CASE CloseModal(a)
  <2>1. dialog[a] \in [open : BOOLEAN, created : Keys \cup {NoKey}]
    OBVIOUS
  <2>2. timers' \in [Admins -> Nat]
    BY <1>2 DEF CloseModal
  <2>3. lost' \subseteq Keys
    BY <1>2, <2>1 DEF CloseModal
  <2> QED
    BY <1>0, <1>2, <2>1, <2>2, <2>3 DEF CloseModal, Display
<1>3. CASE SubmitSource(a)
  <2>1. keys' \in Keys
    BY <1>3 DEF SubmitSource, Keys
  <2>2. [op |-> "createSource", at |-> "update", source |-> keys', key |-> keys'] \in Calls
    BY <2>1 DEF Calls, Steps, Sources
  <2> QED
    BY <1>0, <1>3, <2>1, <2>2 DEF SubmitSource, Start, pages, history, Keys
<1>4. ASSUME NEW s \in Sources, NEW op \in {"regenerate", "deleteSource", "setActive"},
             NEW to \in BOOLEAN, FindSource(a, s, op, to)
      PROVE  TypeOK'
  <2>1. s <= keys
    BY <1>4 DEF FindSource, FreshInv
  <2>2. keys' \in Keys
    BY <1>4, <2>1 DEF FindSource, Sources, Keys
  <2>3. [op |-> op, at |-> "update", source |-> s, key |-> keys', to |-> to] \in Calls
    BY <2>2 DEF Calls, Steps
  <2> QED
    BY <1>0, <1>4, <2>2, <2>3 DEF FindSource, Start, pages, history, Keys
<1> QED
  BY <1>1, <1>2, <1>3, <1>4 DEF SourcesPage

\* The handlers of SourcesService keep the types.
LEMMA SourcesHandlersType ==
  ASSUME TypeOK, NEW a \in Admins, SourcesHandlers(a)
  PROVE  TypeOK'
<1> USE AdministrationAssumption DEF TypeOK
<1>0. UNCHANGED <<list, form, post, keys, audits, faults, intended, changes, lost>>
  BY SourcesHandlersFrame
<1>c. call[a] \in Calls
  OBVIOUS
<1>g. ASSUME call[a] # Idle, Goto(a, "answer")
      PROVE  call' \in [Admins -> Calls]
  BY <1>c, <1>g, GotoKeeps DEF Goto, Steps
<1>w. ASSUME Watch(sources')
      PROVE  live' \in [Posts -> BOOLEAN]
  BY <1>w DEF Watch, Live
<1>1. CASE StoreSource(a)
  <2>1. call[a].op = "createSource" /\ call[a] # Idle
    BY <1>1, <1>c, CallsAre DEF StoreSource, At
  <2>2. call[a].key \in Keys
    BY <2>1, <1>c, CallsAre
  <2>3. sources' \in [Sources -> SourceRows \cup {Absent}]
    BY <1>1, <2>2 DEF StoreSource, SourceRows
  <2> QED
    BY <1>0, <1>1, <1>g, <1>w, <2>1, <2>3 DEF StoreSource, pages
<1>2. CASE UpdateSource(a)
  <2>1. call[a].op \in {"regenerate", "setActive"} /\ call[a] # Idle
    BY <1>2, <1>c, CallsAre DEF UpdateSource, At
  <2>2. call[a].key \in Keys /\ call[a].to \in BOOLEAN /\ call[a].source \in Sources
    BY <2>1, <1>c, CallsAre
  <2>3. sources[call[a].source] \in SourceRows
    BY <1>2, <2>2 DEF UpdateSource
  <2>4. /\ [sources[call[a].source] EXCEPT !.key = call[a].key] \in SourceRows
        /\ [sources[call[a].source] EXCEPT !.active = call[a].to] \in SourceRows
    BY <2>2, <2>3 DEF SourceRows
  <2>5. sources' \in [Sources -> SourceRows \cup {Absent}]
    BY <1>2, <2>4 DEF UpdateSource
  <2> QED
    BY <1>0, <1>2, <1>g, <1>w, <2>1, <2>5 DEF UpdateSource, pages
<1>3. CASE DeleteSource(a)
  <2>1. call[a] # Idle
    BY <1>3, <1>c, CallsAre DEF DeleteSource, At
  <2>2. ASSUME NEW r \in Rules, rules[r] # Absent
        PROVE  [rules[r] EXCEPT !.scope = Global] \in RuleRows
    <3>1. rules[r] \in RuleRows
      BY <2>2 DEF Tables
    <3> QED
      BY <3>1 DEF RuleRows
  <2>3. rules' \in Tables
    BY <1>3, <2>2 DEF DeleteSource, Tables
  <2>4. sources' \in [Sources -> SourceRows \cup {Absent}]
    BY <1>3 DEF DeleteSource
  <2> QED
    BY <1>0, <1>3, <1>g, <1>w, <2>1, <2>3, <2>4 DEF DeleteSource, pages
<1>4. CASE AnswerSource(a)
  <2>1. call' \in [Admins -> Calls]
    BY <1>4 DEF AnswerSource, Calls
  <2>2. call[a].op \in {"createSource", "regenerate"} => call[a].key \in Keys
    BY <1>c, CallsAre
  <2>3. dialog[a] \in [open : BOOLEAN, created : Keys \cup {NoKey}]
    OBVIOUS
  <2>4. dialog' \in [Admins -> [open : BOOLEAN, created : Keys \cup {NoKey}]]
    <3>1. CASE call[a].op = "createSource"
      <4>1. [open |-> dialog[a].open, created |-> call[a].key]
               \in [open : BOOLEAN, created : Keys \cup {NoKey}]
        BY <2>2, <2>3, <3>1
      <4>2. dialog' = [dialog EXCEPT ![a] = [open |-> dialog[a].open,
                                             created |-> call[a].key]]
        BY <1>4, <3>1 DEF AnswerSource, Display
      <4> QED
        BY <4>1, <4>2
    <3>2. CASE call[a].op # "createSource"
      BY <1>4, <3>2 DEF AnswerSource
    <3> QED
      BY <3>1, <3>2
  <2>5. timers' \in [Admins -> Nat]
    BY <1>4 DEF AnswerSource
  <2>6. seen' \subseteq Keys
    BY <1>4, <2>2 DEF AnswerSource, Display
  <2> QED
    BY <1>0, <1>4, <2>1, <2>4, <2>5, <2>6 DEF AnswerSource
<1> QED
  BY <1>1, <1>2, <1>3, <1>4 DEF SourcesHandlers

\* A failure keeps the types.
LEMMA FailType ==
  ASSUME TypeOK, NEW a \in Admins, Fail(a)
  PROVE  TypeOK'
<1>1. call[a] \in Calls
  BY DEF TypeOK
<1>2. call' \in [Admins -> Calls]
  BY DEF TypeOK, Fail, Calls
<1>3. lost' \subseteq Keys
  BY <1>1, CallsAre DEF TypeOK, Fail
<1> QED
  BY <1>2, <1>3 DEF TypeOK, Fail, pages

\* A step of a post keeps the types.
LEMMA PostType ==
  ASSUME TypeOK, NEW q \in Posts, PostStep(q)
  PROVE  TypeOK'
<1>0. UNCHANGED <<rules, sources, call, pages, keys, audits, calls, faults, intended,
                  changes, seen, lost>>
  BY PostFrame
<1>1. post[q] \in PostTypes
  BY DEF TypeOK
<1>2. ASSUME NEW p \in PostTypes, post' = [post EXCEPT ![q] = p], live' \in [Posts -> BOOLEAN]
      PROVE  TypeOK'
  BY <1>0, <1>2 DEF TypeOK, pages
<1>r. ASSUME Refuse(q)
      PROVE  TypeOK'
  <2>1. [at |-> "idle"] \in PostTypes /\ live' \in [Posts -> BOOLEAN]
    BY <1>r DEF PostTypes, Refuse, TypeOK
  <2> QED
    BY <1>2, <1>r, <2>1 DEF Refuse
<1>3. ASSUME NEW k \in Keys, Send(q, k)
      PROVE  TypeOK'
  <2>1. [at |-> "sent", key |-> k] \in PostTypes
    BY DEF PostTypes
  <2>2. live' \in [Posts -> BOOLEAN]
    BY <1>3 DEF Send, TypeOK, Live
  <2> QED
    BY <1>2, <1>3, <2>1, <2>2 DEF Send
<1>4. CASE ValidateApiKey(q)
  <2> DEFINE owners == post[q].owners
  <2>1. live' \in [Posts -> BOOLEAN] /\ post[q].at = "read"
    BY <1>4 DEF ValidateApiKey, Refuse, TypeOK
  <2>2. post[q].key \in Keys /\ owners \subseteq Sources
    BY <1>1, <2>1, PostsAre
  <2>3. CASE owners = {}
    BY <1>2, <1>4, <1>r, <2>3 DEF ValidateApiKey
  <2>4. CASE owners # {}
    <3>1. [at |-> "known", key |-> post[q].key, source |-> CHOOSE s \in owners : TRUE]
             \in PostTypes
      BY <2>2, <2>4 DEF PostTypes
    <3> QED
      BY <1>2, <1>4, <2>1, <2>4, <3>1 DEF ValidateApiKey
  <2> QED
    BY <2>3, <2>4
<1>7. CASE ReadSources(q)
  <2>1. live' \in [Posts -> BOOLEAN] /\ post[q].at = "sent"
    BY <1>7 DEF ReadSources, TypeOK, history
  <2>2. [at |-> "read", key |-> post[q].key,
         owners |-> {s \in Sources : /\ sources[s] # Absent /\ sources[s].active
                                     /\ sources[s].key = post[q].key}] \in PostTypes
    BY <1>1, <2>1, PostsAre DEF PostTypes
  <2> QED
    BY <1>2, <1>7, <2>1, <2>2 DEF ReadSources
<1>5. CASE StoreEvent(q)
  <2>1. live' \in [Posts -> BOOLEAN] /\ post[q].at = "known"
    BY <1>5 DEF StoreEvent, Refuse, TypeOK
  <2>2. [at |-> "stored", key |-> post[q].key, source |-> post[q].source] \in PostTypes
    BY <1>1, <2>1, PostsAre DEF PostTypes
  <2> QED
    BY <1>2, <1>5, <1>r, <2>1, <2>2 DEF StoreEvent
<1>6. CASE FindMatchingRules(q)
  <2>1. live' \in [Posts -> BOOLEAN] /\ post[q].at = "stored"
    BY <1>6 DEF FindMatchingRules, TypeOK, history
  <2>2. [at |-> "matched", key |-> post[q].key, source |-> post[q].source,
         fires |-> {r \in Rules : /\ rules[r] # Absent /\ rules[r].active
                                  /\ rules[r].scope \in {Global, post[q].source}}]
           \in PostTypes
    BY <1>1, <2>1, PostsAre DEF PostTypes
  <2> QED
    BY <1>2, <1>6, <2>1, <2>2 DEF FindMatchingRules
<1> QED
  BY <1>3, <1>4, <1>5, <1>6, <1>7 DEF PostStep

\* Every step keeps the types, given that rows stay and new sources are new.
LEMMA TypeStep ==
  ASSUME TypeOK, RowsInv, FreshInv, [Next]_vars
  PROVE  TypeOK'
<1>1. CASE UNCHANGED vars
  BY <1>1 DEF TypeOK, vars, pages, history
<1> QED
  BY <1>1, NextCases, RulesPageType, RulesHandlersType, SourcesPageType,
     SourcesHandlersType, FailType, PostType

-----------------------------------------------------------------------------
(* Rows and new sources *)

\* The marker of a missing row is no row.
LEMMA AbsentIsNone == Absent \notin RuleRows /\ Absent \notin SourceRows
  BY AdministrationAssumption DEF RuleRows, SourceRows, Sources, Keys

\* An open edit form holds a rule and a definition.
LEMMA FormsAre ==
  ASSUME TypeOK, NEW b \in Admins, form[b] # NoForm
  PROVE  form[b].rule \in Rules /\ form[b].def \in Defs
<1>1. form[b] \in [rule : Rules, def : Defs]
  BY DEF TypeOK
<1> QED
  BY <1>1

\* The effect of Goto on all handlers: one moves on, the others stay.
LEMMA GotoEffect ==
  ASSUME TypeOK, NEW a \in Admins, call[a] # Idle, NEW at \in {"answer", "audit"}, Goto(a, at),
         at = "audit" => call[a].op \in {"toggle", "delete"}
  PROVE  /\ call'[a].op = call[a].op /\ call'[a].at = at
         /\ call[a].op \in {"toggle", "delete", "save", "patch", "create"} => call'[a].rule = call[a].rule
         /\ call[a].op \in {"createSource", "regenerate", "setActive", "deleteSource"} =>
                call'[a].source = call[a].source /\ call'[a].key = call[a].key
         /\ \A b \in Admins \ {a} : call'[b] = call[b]
<1>1. call[a] \in Calls /\ call'[a] = [call[a] EXCEPT !.at = at]
  BY DEF TypeOK, Goto
<1>2. at \in Steps \cup {"audit"}
  BY DEF Steps
<1> QED
  BY <1>1, <1>2, GotoKeeps DEF TypeOK, Goto

\* The rules page acts on rules that exist, and makes no two of one name.
LEMMA RulesPageRows ==
  ASSUME TypeOK, RowsInv, NEW a \in Admins, RulesPage(a)
  PROVE  RowsInv'
<1>0. rules' = rules
  BY RulesPageFrame
<1>f. \A b \in Admins : form[b] # NoForm => form[b].rule \in Rules
  BY FormsAre
<1>c. \A b \in Admins : call[b] \in Calls
  BY DEF TypeOK
<1>1. CASE LoadRules(a)
  BY <1>0, <1>1 DEF LoadRules, ListRules, RowsInv, TypeOK, At
<1>2. CASE CloseForm(a)
  BY <1>0, <1>2 DEF CloseForm, RowsInv, TypeOK, At
<1>3. ASSUME NEW r \in Rules, NEW op \in {"toggle", "delete"}, NEW to,
             list[a][r] # Absent, UNCHANGED <<list, form>>,
             call' = [call EXCEPT ![a] = [op |-> op, at |-> "update", rule |-> r, to |-> to]]
      PROVE  RowsInv'
  <2>1. call'[a].op = op /\ call'[a].rule = r
    BY <1>3 DEF TypeOK
  <2>2. \A b \in Admins \ {a} : call'[b] = call[b]
    BY <1>3 DEF TypeOK
  <2> QED
    BY <1>0, <1>3, <2>1, <2>2 DEF RowsInv, At
<1>4. ASSUME NEW r \in Rules, ToggleRule(a, r)
      PROVE  RowsInv'
  BY <1>3, <1>4 DEF ToggleRule, Start, pages
<1>5. ASSUME NEW r \in Rules, DeleteRule(a, r)
      PROVE  RowsInv'
  BY <1>3, <1>5 DEF DeleteRule, Start, pages
<1>6. ASSUME NEW r \in Rules, EditRule(a, r)
      PROVE  RowsInv'
  <2>1. form'[a].rule = r /\ \A b \in Admins \ {a} : form'[b] = form[b]
    BY <1>6 DEF EditRule, TypeOK
  <2> QED
    BY <1>0, <1>6, <2>1 DEF EditRule, RowsInv, At
<1>7. ASSUME NEW d \in Defs, SubmitForm(a, d)
      PROVE  RowsInv'
  <2>1. form[a] \in [rule : Rules, def : Defs]
    BY <1>7 DEF SubmitForm, TypeOK
  <2>2. form'[a].rule = form[a].rule /\ form[a] # NoForm
    BY <1>7, <2>1 DEF SubmitForm, TypeOK
  <2>3. call'[a].op = "save" /\ call'[a].rule = form[a].rule
    BY <1>7 DEF SubmitForm, Start, TypeOK
  <2>4. \A b \in Admins \ {a} : call'[b] = call[b] /\ form'[b] = form[b]
    BY <1>7 DEF SubmitForm, Start, TypeOK
  <2> QED
    BY <1>0, <1>7, <2>2, <2>3, <2>4 DEF SubmitForm, RowsInv, At
<1>8. ASSUME NEW r \in Rules, NEW d \in Defs, NEW on \in BOOLEAN,
             NEW scope \in Sources \cup {Global}, SubmitRule(a, r, d, on, scope)
      PROVE  RowsInv'
  <2>1. call'[a].op = "create" /\ call'[a].rule = r
    BY <1>8 DEF SubmitRule, Start, TypeOK
  <2>2. \A b \in Admins \ {a} : call'[b] = call[b]
    BY <1>8 DEF SubmitRule, Start, TypeOK
  <2> QED
    BY <1>0, <1>8, <2>1, <2>2 DEF SubmitRule, RowsInv, At, pages
<1>9. ASSUME NEW r \in Rules, NEW on \in BOOLEAN \cup {Keep},
             NEW scope \in Sources \cup {Global, Keep}, PatchRule(a, r, on, scope)
      PROVE  RowsInv'
  <2>1. call'[a].op = "patch" /\ call'[a].rule = r /\ rules[r] # Absent
    BY <1>9 DEF PatchRule, Start, TypeOK
  <2>2. \A b \in Admins \ {a} : call'[b] = call[b]
    BY <1>9 DEF PatchRule, Start, TypeOK
  <2> QED
    BY <1>0, <1>9, <2>1, <2>2 DEF PatchRule, RowsInv, At, pages
<1> QED
  BY <1>1, <1>2, <1>4, <1>5, <1>6, <1>7, <1>8, <1>9, RulesPageCases

\* A handler of RulesService leaves every row in place.
LEMMA RulesHandlersRows ==
  ASSUME TypeOK, RowsInv, NEW a \in Admins, RulesHandlers(a)
  PROVE  RowsInv'
<1>c. \A b \in Admins : call[b] \in Calls
  BY DEF TypeOK
<1>1. CASE StoreRule(a)
  <2>1. call[a].op = "create" /\ call[a].at = "update" /\ call[a] # Idle /\ call[a].rule \in Rules
    BY <1>1, <1>c, CallsAre DEF StoreRule, At
  <2>2. [def |-> call[a].def, active |-> call[a].to, scope |-> call[a].scope] \in RuleRows
    BY <2>1, <1>c, CallsAre DEF RuleRows
  <2>3. /\ rules'[call[a].rule] # Absent
        /\ \A r \in Rules \ {call[a].rule} : rules'[r] = rules[r]
    BY <1>1, <2>1, <2>2, AbsentIsNone DEF StoreRule, TypeOK, Tables
  <2>4. /\ call'[a].op = "create" /\ call'[a].at = "answer"
        /\ \A b \in Admins \ {a} : call'[b] = call[b]
    BY <1>1, <2>1, GotoEffect DEF StoreRule
  <2>5. list' = list /\ form' = form
    BY <1>1 DEF StoreRule, pages
  <2>6. \A b \in Admins \ {a} : At(b, "create", "update") =>
           call[b].rule \in Rules /\ call[b].rule # call[a].rule
    BY <2>1, <1>c, CallsAre DEF RowsInv, At
  <2>7. \A b \in Admins : form[b] # NoForm => form[b].rule \in Rules
    BY FormsAre
  <2> QED
    BY <1>c, <2>1, <2>3, <2>4, <2>5, <2>6, <2>7, CallsAre DEF RowsInv, At
<1>2. ASSUME call[a] # Idle, NEW at \in {"answer", "audit"}, Goto(a, at),
             at = "audit" => call[a].op \in {"toggle", "delete"},
             \A r \in Rules : rules'[r] = Absent <=> rules[r] = Absent,
             UNCHANGED <<list, form>>
      PROVE  RowsInv'
  <2>1. /\ call'[a].op = call[a].op /\ call'[a].at = at
        /\ call[a].op \in {"toggle", "delete", "save", "patch", "create"} => call'[a].rule = call[a].rule
        /\ \A b \in Admins \ {a} : call'[b] = call[b]
    BY <1>2, GotoEffect
  <2>2. \A b \in Admins : form[b] # NoForm => form[b].rule \in Rules
    BY FormsAre
  <2> QED
    BY <1>2, <1>c, <2>1, <2>2, CallsAre DEF RowsInv, At
<1>3. CASE UpdateRule(a)
  <2>1. /\ \A r \in Rules : rules'[r] = Absent <=> rules[r] = Absent
        /\ call[a].rule \in Rules /\ UNCHANGED <<list, form>>
    BY <1>3, RuleUpdated, AbsentIsNone
  <2>2. /\ call[a].op \in {"save", "patch"}
        /\ call'[a].op = call[a].op /\ call'[a].at = "answer" /\ call'[a].rule = call[a].rule
        /\ \A b \in Admins \ {a} : call'[b] = call[b]
    BY <1>3, UpdateAnswers
  <2>3. \A b \in Admins : form[b] # NoForm => form[b].rule \in Rules
    BY FormsAre
  <2> QED
    BY <1>c, <2>1, <2>2, <2>3, CallsAre DEF RowsInv, At
<1>4. CASE SetRuleActive(a)
  <2>1. call[a].op \in {"toggle", "delete"} /\ call[a] # Idle
    BY <1>4, <1>c, CallsAre DEF SetRuleActive, At
  <2>2. call[a].rule \in Rules /\ call[a].to \in BOOLEAN /\ rules[call[a].rule] \in RuleRows
    BY <2>1, <1>c, CallsAre DEF RowsInv, TypeOK, Tables
  <2>3. [rules[call[a].rule] EXCEPT !.active = call[a].to] \in RuleRows
    BY <2>2 DEF RuleRows
  <2>4. \A r \in Rules : rules'[r] = Absent <=> rules[r] = Absent
    BY <1>4, <2>2, <2>3, AbsentIsNone DEF SetRuleActive, TypeOK, Tables
  <2> QED
    BY <1>2, <1>4, <2>1, <2>4 DEF SetRuleActive, pages
<1>5. CASE WriteAudit(a)
  <2>1. call[a].op \in {"toggle", "delete"} /\ call[a] # Idle
    BY <1>5, <1>c, CallsAre DEF WriteAudit, At
  <2> QED
    BY <1>2, <1>5, <2>1 DEF WriteAudit, pages
<1>6. CASE AnswerRules(a)
  <2>1. rules' = rules /\ call'[a].op = "idle"
    BY <1>6 DEF AnswerRules, TypeOK, Idle
  <2>2. \A b \in Admins \ {a} : call'[b] = call[b] /\ list'[b] = list[b] /\ form'[b] = form[b]
    BY <1>6 DEF AnswerRules, TypeOK
  <2>3. list'[a] \in {list[a], rules} /\ form'[a] \in {form[a], NoForm}
    BY <1>6 DEF AnswerRules, TypeOK, ListRules
  <2> QED
    BY <2>1, <2>2, <2>3 DEF RowsInv, At
<1> QED
  BY <1>1, <1>3, <1>4, <1>5, <1>6 DEF RulesHandlers

\* Sources, their page and a failure leave the rows of rules in place.
LEMMA SourcesRows ==
  ASSUME TypeOK, RowsInv, NEW a \in Admins, SourcesPage(a) \/ SourcesHandlers(a) \/ Fail(a)
  PROVE  RowsInv'
<1>c. \A b \in Admins : call[b] \in Calls
  BY DEF TypeOK
<1>1. list' = list /\ form' = form
  BY SourcesPageFrame, SourcesHandlersFrame DEF Fail, pages
<1>2. \A r \in Rules : rules'[r] = Absent <=> rules[r] = Absent
  <2>1. CASE SourcesPage(a) \/ Fail(a)
    BY <2>1, SourcesPageFrame DEF Fail
  <2>2. CASE StoreSource(a) \/ UpdateSource(a) \/ AnswerSource(a)
    BY <2>2 DEF StoreSource, UpdateSource, AnswerSource
  <2>3. CASE DeleteSource(a)
    <3>1. ASSUME NEW r \in Rules, rules[r] # Absent
          PROVE  [rules[r] EXCEPT !.scope = Global] # Absent
      <4>1. rules[r] \in RuleRows
        BY <3>1 DEF TypeOK, Tables
      <4>2. [rules[r] EXCEPT !.scope = Global] \in RuleRows
        BY <4>1 DEF RuleRows
      <4> QED
        BY <4>2, AbsentIsNone
    <3> QED
      BY <2>3, <3>1 DEF DeleteSource
  <2> QED
    BY <2>1, <2>2, <2>3 DEF SourcesHandlers
<1>3. /\ call'[a] = call[a] \/ call'[a].op \notin {"toggle", "delete", "save", "patch", "create"}
      /\ \A b \in Admins \ {a} : call'[b] = call[b]
  <2>1. CASE OpenDialog(a) \/ CloseModal(a)
    BY <2>1 DEF OpenDialog, CloseModal
  <2>2. CASE SubmitSource(a)
    BY <2>2 DEF SubmitSource, Start, TypeOK
  <2>3. ASSUME NEW s \in Sources, NEW op \in {"regenerate", "deleteSource", "setActive"},
               NEW to \in BOOLEAN, FindSource(a, s, op, to)
        PROVE  /\ call'[a].op = op
               /\ \A b \in Admins \ {a} : call'[b] = call[b]
    BY <2>3 DEF FindSource, Start, TypeOK
  <2>4. CASE StoreSource(a) \/ UpdateSource(a) \/ DeleteSource(a)
    <3>1. /\ call[a].op \in {"createSource", "regenerate", "setActive", "deleteSource"}
          /\ Goto(a, "answer")
      BY <2>4 DEF StoreSource, UpdateSource, DeleteSource, At
    <3>2. call[a] # Idle
      BY <1>c, <3>1, CallsAre
    <3> QED
      BY <3>1, <3>2, GotoEffect
  <2>5. CASE AnswerSource(a) \/ Fail(a)
    BY <2>5 DEF AnswerSource, Fail, TypeOK, Idle
  <2> QED
    BY <2>1, <2>2, <2>3, <2>4, <2>5 DEF SourcesPage, SourcesHandlers
<1>4. \A b \in Admins : form[b] # NoForm => form[b].rule \in Rules
  BY FormsAre
<1> QED
  BY <1>c, <1>1, <1>2, <1>3, <1>4, CallsAre DEF RowsInv, At

\* Every step leaves the rows of rules in place.
LEMMA RowsStep ==
  ASSUME TypeOK, RowsInv, [Next]_vars
  PROVE  RowsInv'
<1>1. CASE UNCHANGED vars
  BY <1>1 DEF RowsInv, vars, pages, At
<1>2. ASSUME NEW q \in Posts, PostStep(q)
      PROVE  RowsInv'
  BY <1>2, PostFrame DEF RowsInv, pages, At
<1> QED
  BY <1>1, <1>2, NextCases, RulesPageRows, RulesHandlersRows, SourcesRows

\* The handlers of the rules page are none of SourcesService.
\* The page and the handlers of rules start and end no handler of a source.
LEMMA RulesCalls ==
  ASSUME TypeOK, NEW a \in Admins, RulesPage(a) \/ RulesHandlers(a) \/ Fail(a)
  PROVE  /\ call'[a] = call[a] \/ call'[a].op \in {"idle", "toggle", "delete", "save", "patch", "create"}
         /\ \A b \in Admins \ {a} : call'[b] = call[b]
<1>1. CASE LoadRules(a) \/ CloseForm(a) \/ \E r \in Rules : EditRule(a, r)
  BY <1>1 DEF LoadRules, CloseForm, EditRule
<1>2. CASE \E r \in Rules : ToggleRule(a, r)
  BY <1>2 DEF ToggleRule, Start, TypeOK
<1>3. CASE \E r \in Rules : DeleteRule(a, r)
  BY <1>3 DEF DeleteRule, Start, TypeOK
<1>4. CASE \E d \in Defs : SubmitForm(a, d)
  BY <1>4 DEF SubmitForm, Start, TypeOK
<1>5. ASSUME NEW r \in Rules, NEW d \in Defs, NEW on \in BOOLEAN,
             NEW scope \in Sources \cup {Global}, SubmitRule(a, r, d, on, scope)
      PROVE  /\ call'[a].op = "create"
             /\ \A b \in Admins \ {a} : call'[b] = call[b]
  BY <1>5 DEF SubmitRule, Start, TypeOK
<1>9. ASSUME NEW r \in Rules, NEW on \in BOOLEAN \cup {Keep},
             NEW scope \in Sources \cup {Global, Keep}, PatchRule(a, r, on, scope)
      PROVE  /\ call'[a].op = "patch"
             /\ \A b \in Admins \ {a} : call'[b] = call[b]
  BY <1>9 DEF PatchRule, Start, TypeOK
<1>6. ASSUME NEW at \in {"answer", "audit"}, Goto(a, at),
             call[a].op \in {"toggle", "delete", "save", "patch", "create"},
             at = "audit" => call[a].op \in {"toggle", "delete"}
      PROVE  /\ call'[a].op = call[a].op
             /\ \A b \in Admins \ {a} : call'[b] = call[b]
  <2>1. call[a] # Idle
    BY <1>6, CallsAre DEF TypeOK
  <2> QED
    BY <1>6, <2>1, GotoEffect
<1>7. CASE StoreRule(a) \/ SetRuleActive(a) \/ WriteAudit(a)
  <2>1. PICK at \in {"answer", "audit"} :
           /\ Goto(a, at) /\ call[a].op \in {"toggle", "delete", "save", "patch", "create"}
           /\ at = "audit" => call[a].op \in {"toggle", "delete"}
    BY <1>7 DEF StoreRule, SetRuleActive, WriteAudit, At
  <2> QED
    BY <1>6, <2>1
<1>u. CASE UpdateRule(a)
  BY <1>u, UpdateAnswers
<1>8. CASE AnswerRules(a) \/ Fail(a)
  BY <1>8 DEF AnswerRules, Fail, TypeOK, Idle
<1> QED
  BY <1>1, <1>2, <1>3, <1>4, <1>5, <1>7, <1>8, <1>9, <1>u, RulesPageCases
     DEF RulesHandlers

\* A step that creates no source leaves the ones to come new.
LEMMA FreshKept ==
  ASSUME TypeOK, FreshInv, NEW a \in Admins,
         call'[a] = call[a] \/ ~At(a, "createSource", "update")',
         \A b \in Admins \ {a} : call'[b] = call[b],
         keys' \in Nat, keys <= keys',
         \A s \in Sources : sources'[s] # Absent => sources[s] # Absent,
         UNCHANGED intended
  PROVE  FreshInv'
<1>1. \A b \in Admins : At(b, "createSource", "update") => call[b].source \in Sources
  BY CallsAre DEF TypeOK, At
<1>2. \A s \in Sources : s \in Nat
  BY AdministrationAssumption DEF Sources, Keys
<1>3. keys \in Nat
  BY AdministrationAssumption DEF TypeOK
<1> QED
  BY <1>1, <1>2, <1>3 DEF FreshInv, At

\* A rule that is given to a source that exists is given to none that is to come.
LEMMA FreshRescoped ==
  ASSUME TypeOK, FreshInv, NEW a \in Admins, ~At(a, "createSource", "update")',
         \A b \in Admins \ {a} : call'[b] = call[b],
         NEW r \in Rules, intended'[r] \in Sources \cup {Global},
         intended'[r] \in Sources => sources[intended'[r]] # Absent,
         \A x \in Rules \ {r} : intended'[x] = intended[x],
         UNCHANGED <<sources, keys>>
  PROVE  FreshInv'
<1>1. \A b \in Admins : At(b, "createSource", "update") => call[b].source \in Sources
  BY CallsAre DEF TypeOK, At
<1>2. Global \notin Sources
  BY AdministrationAssumption DEF Sources, Keys
<1>3. \A b \in Admins : At(b, "createSource", "update") => intended'[r] # call[b].source
  BY <1>1, <1>2 DEF FreshInv
<1>4. intended'[r] \in Sources => intended'[r] <= keys
  BY DEF FreshInv
<1> QED
  BY <1>1, <1>3, <1>4 DEF FreshInv, At

\* Every step leaves the sources that are still to be stored new.
LEMMA FreshStep ==
  ASSUME TypeOK, RowsInv, FreshInv, [Next]_vars
  PROVE  FreshInv'
<1>k. keys \in Nat /\ \A s \in Sources : s \in Nat
  BY AdministrationAssumption DEF Sources, Keys, TypeOK
<1>c. \A b \in Admins : call[b] \in Calls
  BY DEF TypeOK
<1>1. CASE UNCHANGED vars
  BY <1>1 DEF FreshInv, vars, history, At
<1>2. ASSUME NEW q \in Posts, PostStep(q)
      PROVE  FreshInv'
  BY <1>2, PostFrame DEF FreshInv, At
<1>3. ASSUME NEW a \in Admins, RulesPage(a) \/ Fail(a)
      PROVE  FreshInv'
  <2>1. UNCHANGED <<sources, keys, intended>>
    BY <1>3, RulesPageFrame DEF Fail, history
  <2> QED
    BY <1>3, <1>k, <2>1, RulesCalls, FreshKept DEF At
<1>4. ASSUME NEW a \in Admins, RulesHandlers(a)
      PROVE  FreshInv'
  <2>1. UNCHANGED <<sources, keys>>
    BY <1>4, RulesHandlersFrame
  <2>2. CASE StoreRule(a)
    <3>1. call[a].op = "create" /\ call[a].rule \in Rules /\ call[a].scope \in Sources \cup {Global}
      BY <1>c, <2>2, CallsAre DEF StoreRule, At
    <3>2. /\ intended'[call[a].rule] = call[a].scope
          /\ \A r \in Rules \ {call[a].rule} : intended'[r] = intended[r]
      BY <2>2, <3>1 DEF StoreRule, TypeOK
    <3>3. call[a].scope \in Sources => sources[call[a].scope] # Absent
      BY <2>2, AdministrationAssumption DEF StoreRule, Sources, Keys
    <3>4. /\ ~At(a, "createSource", "update")'
          /\ \A b \in Admins \ {a} : call'[b] = call[b]
      BY <1>4, <3>1, RulesCalls DEF At
    <3> QED
      BY <2>1, <3>1, <3>2, <3>3, <3>4, FreshRescoped
  <2>3. CASE UpdateRule(a) /\ call[a].scope # Keep
    <3>1. /\ ~At(a, "createSource", "update")'
          /\ \A b \in Admins \ {a} : call'[b] = call[b]
      BY <1>4, <2>3, RuleUpdated, RulesCalls DEF At
    <3>2. /\ call[a].rule \in Rules
          /\ intended'[call[a].rule] = call[a].scope
          /\ call[a].scope \in Sources \cup {Global}
          /\ call[a].scope \in Sources => sources[call[a].scope] # Absent
          /\ \A x \in Rules \ {call[a].rule} : intended'[x] = intended[x]
      BY <2>3, RuleUpdated DEF Sent
    <3> QED
      BY <2>1, <3>1, <3>2, FreshRescoped
  <2>4. CASE ~StoreRule(a) /\ ~(UpdateRule(a) /\ call[a].scope # Keep)
    <3>1. UNCHANGED intended
      <4>1. CASE UpdateRule(a)
        <5>1. \A r \in Rules : intended'[r] = intended[r]
          BY <2>4, <4>1, RuleUpdated DEF Sent
        <5>2. intended' \in [Rules -> Sources \cup {Global, Absent}]
          BY <4>1, RuleUpdated
        <5> QED
          BY <5>1, <5>2 DEF TypeOK
      <4> QED
        BY <1>4, <2>4, <4>1 DEF RulesHandlers, SetRuleActive, WriteAudit, AnswerRules, history
    <3> QED
      BY <1>4, <1>k, <2>1, <3>1, RulesCalls, FreshKept DEF At
  <2> QED
    BY <2>2, <2>3, <2>4
<1>5. ASSUME NEW a \in Admins, SourcesPage(a)
      PROVE  FreshInv'
  <2>1. UNCHANGED <<sources, intended>>
    BY <1>5, SourcesPageFrame
  <2>2. CASE OpenDialog(a) \/ CloseModal(a)
    <3>1. UNCHANGED <<call, keys>>
      BY <2>2 DEF OpenDialog, CloseModal
    <3> QED
      BY <1>k, <2>1, <3>1, FreshKept
  <2>3. CASE SubmitSource(a)
    <3>1. /\ keys' = keys + 1
          /\ call'[a].op = "createSource" /\ call'[a].source = keys'
          /\ \A b \in Admins \ {a} : call'[b] = call[b]
      BY <2>3 DEF SubmitSource, Start, TypeOK
    <3>2. \A b \in Admins : At(b, "createSource", "update") => call[b].source \in Sources
      BY <1>c, CallsAre DEF At
    <3>3. keys' \in Sources
      BY <1>k, <2>3, <3>1, AdministrationAssumption DEF SubmitSource, Sources, Keys
    <3>4. /\ sources[keys'] = Absent /\ \A r \in Rules : intended[r] # keys'
          /\ \A b \in Admins : At(b, "createSource", "update") => call[b].source # keys'
      BY <1>k, <3>1, <3>2, <3>3 DEF FreshInv
    <3>5. /\ \A s \in Sources : sources'[s] # Absent => s <= keys'
          /\ \A r \in Rules : intended'[r] \in Sources => intended'[r] <= keys'
      BY <1>k, <2>1, <3>1 DEF FreshInv
    <3>6. ASSUME NEW b \in Admins, At(b, "createSource", "update")'
          PROVE  /\ call'[b].source <= keys' /\ sources'[call'[b].source] = Absent
                 /\ \A r \in Rules : intended'[r] # call'[b].source
      <4>1. CASE b = a
        BY <1>k, <2>1, <3>1, <3>3, <3>4, <4>1
      <4>2. CASE b # a
        BY <1>k, <2>1, <3>1, <3>2, <3>6, <4>2 DEF FreshInv, At
      <4> QED
        BY <4>1, <4>2
    <3>7. ASSUME NEW b \in Admins, NEW d \in Admins \ {b},
                 At(b, "createSource", "update")', At(d, "createSource", "update")'
          PROVE  call'[d].source # call'[b].source
      BY <3>1, <3>4, <3>7 DEF FreshInv, At
    <3> QED
      BY <3>5, <3>6, <3>7 DEF FreshInv
  <2>4. ASSUME NEW s \in Sources, NEW op \in {"regenerate", "deleteSource", "setActive"},
               NEW to \in BOOLEAN, FindSource(a, s, op, to)
        PROVE  FreshInv'
    <3>1. /\ keys' \in Nat /\ keys <= keys'
          /\ call'[a].op = op
          /\ \A b \in Admins \ {a} : call'[b] = call[b]
      BY <1>k, <2>4 DEF FindSource, Start, TypeOK
    <3> QED
      BY <2>1, <3>1, FreshKept DEF At
  <2> QED
    BY <1>5, <2>2, <2>3, <2>4 DEF SourcesPage
<1>6. ASSUME NEW a \in Admins, SourcesHandlers(a)
      PROVE  FreshInv'
  <2>1. UNCHANGED <<keys, intended>>
    BY <1>6, SourcesHandlersFrame
  <2>2. CASE AnswerSource(a)
    <3>1. /\ call'[a].op = "idle" /\ UNCHANGED sources
          /\ \A b \in Admins \ {a} : call'[b] = call[b]
      BY <2>2 DEF AnswerSource, TypeOK, Idle
    <3> QED
      BY <1>k, <2>1, <3>1, FreshKept DEF At
  <2>3. CASE UpdateSource(a) \/ DeleteSource(a)
    <3>1. Goto(a, "answer") /\ call[a].op \in {"regenerate", "setActive", "deleteSource"}
      BY <2>3 DEF UpdateSource, DeleteSource, At
    <3>2. call'[a].op = call[a].op /\ \A b \in Admins \ {a} : call'[b] = call[b]
      BY <1>c, <3>1, GotoEffect, CallsAre
    <3>3. call[a].source \in Sources
      BY <1>c, <3>1, CallsAre
    <3>4. \A s \in Sources : sources'[s] # Absent => sources[s] # Absent
      BY <2>3, <3>3 DEF UpdateSource, DeleteSource, TypeOK
    <3> QED
      BY <1>k, <2>1, <3>1, <3>2, <3>4, FreshKept DEF At
  <2>4. CASE StoreSource(a)
    <3>1. Goto(a, "answer") /\ call[a].op = "createSource" /\ call[a].at = "update"
      BY <2>4 DEF StoreSource, At
    <3>2. call'[a].at = "answer" /\ \A b \in Admins \ {a} : call'[b] = call[b]
      BY <1>c, <3>1, GotoEffect, CallsAre
    <3>3. call[a].source \in Sources
      BY <1>c, <3>1, CallsAre
    <3>4. \A s \in Sources \ {call[a].source} : sources'[s] = sources[s]
      BY <2>4 DEF StoreSource, TypeOK
    <3>5. \A b \in Admins : At(b, "createSource", "update") => call[b].source \in Sources
      BY <1>c, CallsAre DEF At
    <3> QED
      BY <1>k, <2>1, <3>1, <3>2, <3>3, <3>4, <3>5 DEF FreshInv, At
  <2> QED
    BY <1>6, <2>2, <2>3, <2>4 DEF SourcesHandlers
<1> QED
  BY <1>1, <1>2, <1>3, <1>4, <1>5, <1>6, NextCases

-----------------------------------------------------------------------------
(* Keys that open *)

\* A step on the sources that is watched keeps who was let in entitled.
LEMMA AccessKept ==
  ASSUME TypeOK, AccessInv, post' = post, Watch(sources')
  PROVE  AccessInv'
<1>1. \A q \in Posts : live'[q] = (live[q] \/ (post[q].at # "idle" /\ Live(post[q].key, sources')))
  BY DEF Watch
<1>2. \A q \in Posts : Live(post[q].key, sources)' = Live(post[q].key, sources')
  BY DEF Live
<1> QED
  BY <1>1, <1>2 DEF AccessInv

\* Every step keeps whoever was let in entitled.
LEMMA AccessStep ==
  ASSUME TypeOK, AccessInv, [Next]_vars
  PROVE  AccessInv'
<1>0. ASSUME UNCHANGED <<sources, post, live>>
      PROVE  AccessInv'
  BY <1>0 DEF AccessInv, Live
<1>1. CASE UNCHANGED vars
  BY <1>0, <1>1 DEF vars, history
<1>2. ASSUME NEW a \in Admins, RulesPage(a) \/ RulesHandlers(a) \/ SourcesPage(a) \/ Fail(a)
      PROVE  AccessInv'
  BY <1>0, <1>2, RulesPageFrame, RulesHandlersFrame, SourcesPageFrame DEF Fail, history
<1>3. ASSUME NEW a \in Admins, SourcesHandlers(a)
      PROVE  AccessInv'
  <2>1. CASE AnswerSource(a)
    BY <1>0, <2>1 DEF AnswerSource
  <2>2. CASE StoreSource(a) \/ UpdateSource(a) \/ DeleteSource(a)
    BY <2>2, AccessKept DEF StoreSource, UpdateSource, DeleteSource
  <2> QED
    BY <1>3, <2>1, <2>2 DEF SourcesHandlers
<1>4. ASSUME NEW q \in Posts, PostStep(q)
      PROVE  AccessInv'
  <2>1. UNCHANGED sources
    BY <1>4, PostFrame
  <2>2. ASSUME NEW p \in PostTypes, post' = [post EXCEPT ![q] = p], live' = live,
               p.key = post[q].key, post[q].at # "idle",
               p.at \in {"known", "stored", "matched"} \/ (p.at = "read" /\ p.owners # {}) =>
                   live[q] \/ Live(post[q].key, sources)
        PROVE  AccessInv'
    <3>1. post'[q] = p /\ \A x \in Posts \ {q} : post'[x] = post[x]
      BY <2>2 DEF TypeOK
    <3>2. p.at \in {"known", "stored", "matched"} \/ (p.at = "read" /\ p.owners # {}) =>
             live[q]
      BY <2>2 DEF AccessInv
    <3>3. ASSUME NEW x \in Posts, post'[x].at # "idle"
          PROVE  /\ post[x].at # "idle" /\ post'[x].key = post[x].key
                 /\ post'[x].at \in {"known", "stored", "matched"} => live[x]
                 /\ (post'[x].at = "read" /\ post'[x].owners # {}) => live[x]
      <4>1. CASE x = q
        BY <2>2, <3>1, <3>2, <4>1
      <4>2. CASE x # q
        BY <3>1, <3>3, <4>2 DEF AccessInv
      <4> QED
        BY <4>1, <4>2
    <3>4. ASSUME NEW x \in Posts, post'[x].at # "idle", Live(post'[x].key, sources')
          PROVE  live'[x]
      BY <2>1, <2>2, <3>3, <3>4 DEF AccessInv
    <3>5. \A x \in Posts : Live(post[x].key, sources)' = Live(post'[x].key, sources')
      BY DEF Live
    <3> QED
      BY <2>2, <3>3, <3>4, <3>5 DEF AccessInv
  <2>3. ASSUME NEW k \in Keys, Send(q, k)
        PROVE  AccessInv'
    <3>1. /\ post'[q].at = "sent" /\ post'[q].key = k /\ live'[q] = Live(k, sources)
          /\ \A x \in Posts \ {q} : post'[x] = post[x] /\ live'[x] = live[x]
      BY <2>3 DEF Send, TypeOK
    <3>2. \A x \in Posts : Live(post[x].key, sources)' = Live(post'[x].key, sources)
      BY <2>1 DEF Live
    <3> QED
      BY <3>1, <3>2 DEF AccessInv
  <2>t. TypeOK'
    BY <1>4, PostType
  <2>6. CASE ReadSources(q)
    <3> DEFINE owners == {s \in Sources : /\ sources[s] # Absent /\ sources[s].active
                                          /\ sources[s].key = post[q].key}
    <3>1. live' = live /\ post[q].at = "sent"
      BY <2>6 DEF ReadSources, history
    <3>2. post'[q] \in PostTypes /\ post' = [post EXCEPT ![q] = post'[q]]
      BY <2>6, <2>t DEF ReadSources, TypeOK
    <3>3. post'[q].at = "read" /\ post'[q].key = post[q].key /\ post'[q].owners = owners
      BY <2>6 DEF ReadSources, TypeOK
    <3>4. owners # {} => Live(post[q].key, sources)
      BY DEF Live
    <3> QED
      BY <2>2, <3>1, <3>2, <3>3, <3>4
  <2>r. ASSUME Refuse(q)
        PROVE  AccessInv'
    <3>1. /\ post'[q].at = "idle"
          /\ \A x \in Posts \ {q} : post'[x] = post[x] /\ live'[x] = live[x]
      BY <2>r DEF Refuse, TypeOK
    <3> QED
      BY <2>1, <3>1 DEF AccessInv, Live
  <2>4. CASE ValidateApiKey(q) /\ post[q].owners # {}
    <3>1. live' = live /\ post[q].at = "read"
      BY <2>4 DEF ValidateApiKey
    <3>2. post'[q] \in PostTypes /\ post' = [post EXCEPT ![q] = post'[q]]
      BY <2>4, <2>t DEF ValidateApiKey, TypeOK
    <3>3. post'[q].key = post[q].key /\ post'[q].at = "known"
      BY <2>4 DEF ValidateApiKey, TypeOK
    <3>4. live[q]
      BY <2>4, <3>1 DEF AccessInv
    <3> QED
      BY <2>2, <3>1, <3>2, <3>3, <3>4
  <2>5. CASE FindMatchingRules(q) \/ (StoreEvent(q) /\ sources[post[q].source] # Absent)
    <3>1. live' = live /\ post[q].at \in {"known", "stored"}
      BY <2>5 DEF StoreEvent, FindMatchingRules, history
    <3>2. post'[q] \in PostTypes /\ post' = [post EXCEPT ![q] = post'[q]]
      BY <2>5, <2>t DEF StoreEvent, FindMatchingRules, TypeOK
    <3>3. post'[q].key = post[q].key
      BY <2>5 DEF StoreEvent, FindMatchingRules, TypeOK
    <3>4. live[q]
      BY <3>1 DEF AccessInv
    <3> QED
      BY <2>2, <3>1, <3>2, <3>3, <3>4
  <2> QED
    BY <1>4, <2>r, <2>3, <2>4, <2>5, <2>6 DEF PostStep, ValidateApiKey, StoreEvent
<1> QED
  BY <1>1, <1>2, <1>3, <1>4, NextCases

-----------------------------------------------------------------------------
(* Scopes *)

\* A step keeps the scopes when a rule gets the one it is given, or keeps its
\* own, or loses it with its source.
LEMMA ScopeKept ==
  ASSUME TypeOK, ScopeInv,
         \A r \in Rules : rules'[r] # Absent =>
            \/ rules'[r].scope = intended'[r]
            \/ /\ rules[r] # Absent /\ intended'[r] = intended[r]
               /\ Gone(intended[r]) => sources'[intended[r]] = Absent
               /\ \/ rules'[r].scope = rules[r].scope
                  \/ /\ rules'[r].scope = Global
                     /\ rules[r].scope \in Sources /\ sources'[rules[r].scope] = Absent
  PROVE  ScopeInv'
  BY AdministrationAssumption DEF ScopeInv, Gone, Sources, Keys

\* Every step keeps the scopes.
LEMMA ScopeStep ==
  ASSUME TypeOK, RowsInv, FreshInv, ScopeInv, [Next]_vars
  PROVE  ScopeInv'
<1>c. \A b \in Admins : call[b] \in Calls
  BY DEF TypeOK
<1>0. ASSUME UNCHANGED <<rules, sources, intended>>
      PROVE  ScopeInv'
  BY <1>0 DEF ScopeInv, Gone
<1>1. CASE UNCHANGED vars
  BY <1>0, <1>1 DEF vars, history
<1>2. ASSUME NEW a \in Admins, RulesPage(a) \/ SourcesPage(a) \/ Fail(a)
      PROVE  ScopeInv'
  BY <1>0, <1>2, RulesPageFrame, SourcesPageFrame DEF Fail, history
<1>3. ASSUME NEW a \in Admins, RulesHandlers(a)
      PROVE  ScopeInv'
  <2>1. UNCHANGED sources
    BY <1>3, RulesHandlersFrame
  <2>2. CASE StoreRule(a)
    <3>1. call[a].op = "create" /\ call[a].at = "update" /\ call[a].rule \in Rules
      BY <1>c, <2>2, CallsAre DEF StoreRule, At
    <3>3. /\ rules'[call[a].rule].scope = intended'[call[a].rule]
          /\ \A r \in Rules \ {call[a].rule} :
                rules'[r] = rules[r] /\ intended'[r] = intended[r]
      BY <2>2, <3>1 DEF StoreRule, TypeOK, Tables
    <3> QED
      BY <2>1, <3>1, <3>3, ScopeKept DEF Gone
  <2>3. CASE UpdateRule(a)
    <3>1. /\ call[a].rule \in Rules /\ rules[call[a].rule] # Absent
          /\ \/ rules'[call[a].rule].scope = intended'[call[a].rule]
             \/ /\ rules'[call[a].rule].scope = rules[call[a].rule].scope
                /\ intended'[call[a].rule] = intended[call[a].rule]
          /\ \A r \in Rules \ {call[a].rule} :
                rules'[r] = rules[r] /\ intended'[r] = intended[r]
      BY <2>3, RuleUpdated, AbsentIsNone DEF Sent
    <3> QED
      BY <2>1, <3>1, ScopeKept DEF Gone
  <2>5. CASE SetRuleActive(a)
    <3>1. call[a].op \in {"toggle", "delete"} /\ intended' = intended
      BY <2>5 DEF SetRuleActive, At
    <3>2. call[a].rule \in Rules /\ rules[call[a].rule] \in RuleRows
      BY <1>c, <3>1, CallsAre DEF RowsInv, TypeOK, Tables
    <3>3. [rules[call[a].rule] EXCEPT !.active = call[a].to].scope = rules[call[a].rule].scope
      BY <3>2 DEF RuleRows
    <3>4. /\ rules'[call[a].rule].scope = rules[call[a].rule].scope
          /\ \A r \in Rules \ {call[a].rule} : rules'[r] = rules[r]
      BY <2>5, <3>2, <3>3 DEF SetRuleActive, TypeOK, Tables
    <3> QED
      BY <2>1, <3>1, <3>2, <3>4, AbsentIsNone, ScopeKept DEF Gone
  <2>4. CASE WriteAudit(a) \/ AnswerRules(a)
    BY <1>0, <2>1, <2>4 DEF WriteAudit, AnswerRules, history
  <2> QED
    BY <1>3, <2>2, <2>3, <2>4, <2>5 DEF RulesHandlers
<1>4. ASSUME NEW a \in Admins, SourcesHandlers(a)
      PROVE  ScopeInv'
  <2>1. UNCHANGED intended
    BY <1>4, SourcesHandlersFrame
  <2>2. CASE AnswerSource(a)
    BY <1>0, <2>1, <2>2 DEF AnswerSource
  <2>3. CASE StoreSource(a)
    <3>1. call[a].op = "createSource" /\ call[a].at = "update" /\ rules' = rules
      BY <2>3 DEF StoreSource, At
    <3>2. \A r \in Rules : intended[r] # call[a].source
      BY <3>1 DEF FreshInv, At
    <3>3. \A s \in Sources \ {call[a].source} : sources'[s] = sources[s]
      BY <2>3 DEF StoreSource, TypeOK
    <3> QED
      BY <2>1, <3>1, <3>2, <3>3, ScopeKept DEF Gone
  <2>4. CASE UpdateSource(a)
    <3>1. rules' = rules /\ sources[call[a].source] # Absent
      BY <2>4 DEF UpdateSource
    <3>2. \A s \in Sources \ {call[a].source} : sources'[s] = sources[s]
      BY <2>4 DEF UpdateSource, TypeOK
    <3> QED
      BY <2>1, <3>1, <3>2, ScopeKept DEF Gone
  <2>5. CASE DeleteSource(a)
    <3>1. call[a].source \in Sources
      BY <1>c, <2>5, CallsAre DEF DeleteSource, At
    <3>2. \A s \in Sources : sources[s] = Absent => sources'[s] = Absent
      BY <2>5 DEF DeleteSource, TypeOK
    <3>3. sources'[call[a].source] = Absent
      BY <2>5, <3>1 DEF DeleteSource, TypeOK
    <3>4. ASSUME NEW r \in Rules, rules[r] # Absent
          PROVE  /\ rules'[r] # Absent
                 /\ \/ rules'[r].scope = rules[r].scope
                    \/ rules'[r].scope = Global /\ rules[r].scope = call[a].source
      <4>1. rules[r] \in RuleRows
        BY <3>4 DEF TypeOK, Tables
      <4>2. /\ [rules[r] EXCEPT !.scope = Global] \in RuleRows
            /\ [rules[r] EXCEPT !.scope = Global].scope = Global
        BY <4>1 DEF RuleRows
      <4> QED
        BY <2>5, <3>4, <4>2, AbsentIsNone DEF DeleteSource
    <3>5. \A r \in Rules : rules[r] = Absent => rules'[r] = Absent
      BY <2>5 DEF DeleteSource
    <3> QED
      BY <2>1, <3>1, <3>2, <3>3, <3>4, <3>5, ScopeKept DEF Gone
  <2> QED
    BY <1>4, <2>2, <2>3, <2>4, <2>5 DEF SourcesHandlers
<1>5. ASSUME NEW q \in Posts, PostStep(q)
      PROVE  ScopeInv'
  BY <1>0, <1>5, PostFrame
<1> QED
  BY <1>1, <1>2, <1>3, <1>4, <1>5, NextCases

\* The step that matches an event reads the scopes as they are.
LEMMA FiringStep ==
  ASSUME TypeOK, ScopeInv, [Next]_vars, NEW q \in Posts,
         post[q].at = "stored", post'[q].at = "matched", NEW r \in post'[q].fires
  PROVE  intended[r] \in {Global, post[q].source} \/ sources[intended[r]] = Absent
<1>1. PICK p \in Posts : PostStep(p)
  BY NextCases, RulesPageFrame, RulesHandlersFrame, SourcesPageFrame, SourcesHandlersFrame
     DEF Fail, vars
<1>2. p = q
  BY <1>1 DEF PostStep, Send, ReadSources, ValidateApiKey, StoreEvent, Refuse,
              FindMatchingRules, TypeOK
<1>3. FindMatchingRules(q)
  BY <1>1, <1>2 DEF PostStep, Send, ReadSources, ValidateApiKey, StoreEvent
<1>4. r \in Rules /\ rules[r] # Absent /\ rules[r].scope \in {Global, post[q].source}
  BY <1>3 DEF FindMatchingRules, TypeOK
<1> QED
  BY <1>4 DEF ScopeInv, Gone

-----------------------------------------------------------------------------
(* Keys that are shown *)

\* A handler that is about to answer with a key.
Answering(a) == call[a].at = "answer" /\ call[a].op \in {"createSource", "regenerate"}

\* What an open dialog holds has been seen, and it is empty before a new key.
DialogInv ==
    \A a \in Admins :
        /\ dialog[a].open => dialog[a].created \in seen \cup {NoKey}
        /\ call[a].op = "createSource" => dialog[a].created = NoKey

\* A page starts a handler only while its administrator has none.
LEMMA PageStarts ==
  ASSUME TypeOK, NEW a \in Admins, RulesPage(a) \/ SourcesPage(a), call' # call
  PROVE  /\ call[a] = Idle /\ call'[a] # Idle /\ call'[a].at = "update"
         /\ RulesPage(a) => call'[a].op \in {"toggle", "delete", "save", "patch", "create"}
         /\ \A b \in Admins \ {a} : call'[b] = call[b]
<1>1. ASSUME NEW c, Start(a, c), c.op # "idle", c.at = "update"
      PROVE  /\ call[a] = Idle /\ call'[a] # Idle /\ call'[a] = c
             /\ \A b \in Admins \ {a} : call'[b] = call[b]
  BY <1>1 DEF Start, TypeOK, Idle
<1>2. ASSUME RulesPage(a)
      PROVE  \E c : /\ Start(a, c) /\ c.at = "update"
                    /\ c.op \in {"toggle", "delete", "save", "patch", "create"}
  <2>1. ~LoadRules(a) /\ ~CloseForm(a) /\ \A r \in Rules : ~EditRule(a, r)
    BY DEF LoadRules, CloseForm, EditRule
  <2>2. ASSUME NEW r \in Rules, ToggleRule(a, r)
        PROVE  \E c : /\ Start(a, c) /\ c.at = "update"
                      /\ c.op \in {"toggle", "delete", "save", "patch", "create"}
    BY <2>2 DEF ToggleRule
  <2>3. ASSUME NEW r \in Rules, DeleteRule(a, r)
        PROVE  \E c : /\ Start(a, c) /\ c.at = "update"
                      /\ c.op \in {"toggle", "delete", "save", "patch", "create"}
    BY <2>3 DEF DeleteRule
  <2>4. ASSUME NEW d \in Defs, SubmitForm(a, d)
        PROVE  \E c : /\ Start(a, c) /\ c.at = "update"
                      /\ c.op \in {"toggle", "delete", "save", "patch", "create"}
    BY <2>4 DEF SubmitForm
  <2>5. ASSUME NEW r \in Rules, NEW d \in Defs, NEW on \in BOOLEAN,
               NEW scope \in Sources \cup {Global}, SubmitRule(a, r, d, on, scope)
        PROVE  \E c : /\ Start(a, c) /\ c.at = "update"
                      /\ c.op \in {"toggle", "delete", "save", "patch", "create"}
    BY <2>5 DEF SubmitRule
  <2>6. ASSUME NEW r \in Rules, NEW on \in BOOLEAN \cup {Keep},
               NEW scope \in Sources \cup {Global, Keep}, PatchRule(a, r, on, scope)
        PROVE  \E c : /\ Start(a, c) /\ c.at = "update"
                      /\ c.op \in {"toggle", "delete", "save", "patch", "create"}
    BY <2>6 DEF PatchRule
  <2> QED
    BY <1>2, <2>1, <2>2, <2>3, <2>4, <2>5, <2>6, RulesPageCases
<1>3. ASSUME SourcesPage(a)
      PROVE  \E c : /\ Start(a, c) /\ c.at = "update"
                    /\ c.op \in {"createSource", "regenerate", "deleteSource", "setActive"}
  <2>1. ~OpenDialog(a) /\ ~CloseModal(a)
    BY DEF OpenDialog, CloseModal
  <2>2. CASE SubmitSource(a)
    BY <2>2 DEF SubmitSource
  <2>3. ASSUME NEW s \in Sources, NEW op \in {"regenerate", "deleteSource", "setActive"},
               NEW to \in BOOLEAN, FindSource(a, s, op, to)
        PROVE  \E c : /\ Start(a, c) /\ c.at = "update"
                      /\ c.op \in {"createSource", "regenerate", "deleteSource", "setActive"}
    BY <2>3 DEF FindSource
  <2> QED
    BY <1>3, <2>1, <2>2, <2>3 DEF SourcesPage
<1>4. CASE RulesPage(a)
  <2>1. PICK c : /\ Start(a, c) /\ c.at = "update"
                 /\ c.op \in {"toggle", "delete", "save", "patch", "create"}
    BY <1>2, <1>4
  <2>2. c.op # "idle"
    BY <2>1
  <2> QED
    BY <1>1, <2>1, <2>2
<1>5. CASE SourcesPage(a) /\ ~RulesPage(a)
  <2>1. PICK c : /\ Start(a, c) /\ c.at = "update"
                 /\ c.op \in {"createSource", "regenerate", "deleteSource", "setActive"}
    BY <1>3, <1>5
  <2>2. c.op # "idle"
    BY <2>1
  <2> QED
    BY <1>1, <1>5, <2>1, <2>2
<1> QED
  BY <1>4, <1>5

\* What a step of one administrator must respect for the dialogs to stay honest.
LEMMA DialogKept ==
  ASSUME DialogInv, NEW a \in Admins, seen \subseteq seen',
         \A b \in Admins \ {a} : call'[b] = call[b] /\ dialog'[b] = dialog[b],
         dialog'[a].open => dialog'[a].created \in seen' \cup {NoKey},
         call'[a].op = "createSource" => dialog'[a].created = NoKey
  PROVE  DialogInv'
  BY DEF DialogInv

\* Every step keeps the dialogs honest.
LEMMA DialogStep ==
  ASSUME TypeOK, DialogInv, [Next]_vars
  PROVE  DialogInv'
<1>c. \A b \in Admins : call[b] \in Calls
  BY DEF TypeOK
<1>1. CASE UNCHANGED vars
  BY <1>1 DEF DialogInv, vars, pages, history
<1>2. ASSUME NEW a \in Admins, RulesPage(a) \/ RulesHandlers(a) \/ Fail(a)
      PROVE  DialogInv'
  <2>1. UNCHANGED <<dialog, seen>>
    BY <1>2, RulesPageFrame, RulesHandlersFrame DEF Fail, pages, history
  <2> QED
    BY <1>2, <2>1, RulesCalls, DialogKept DEF DialogInv
<1>3. ASSUME NEW a \in Admins, SourcesPage(a)
      PROVE  DialogInv'
  <2>1. CASE OpenDialog(a)
    <3>1. call' = call /\ dialog' = [dialog EXCEPT ![a] = [open |-> TRUE,
                                                           created |-> dialog[a].created]]
          /\ seen' = seen \cup ({dialog[a].created} \ {NoKey})
      BY <2>1 DEF OpenDialog, Display
    <3>2. /\ dialog'[a].created = dialog[a].created
          /\ \A b \in Admins \ {a} : dialog'[b] = dialog[b]
      BY <3>1 DEF TypeOK
    <3> QED
      BY <3>1, <3>2, DialogKept DEF DialogInv
  <2>2. CASE CloseModal(a)
    <3>1. /\ call' = call /\ seen' = seen
          /\ dialog' = [dialog EXCEPT ![a] = [open |-> FALSE, created |-> NoKey]]
      BY <2>2 DEF CloseModal, Display
    <3>2. dialog'[a] = [open |-> FALSE, created |-> NoKey]
          /\ \A b \in Admins \ {a} : dialog'[b] = dialog[b]
      BY <3>1 DEF TypeOK
    <3> QED
      BY <3>1, <3>2, DialogKept
  <2>3. CASE SubmitSource(a)
    <3>1. UNCHANGED <<dialog, seen>> /\ dialog[a].created = NoKey
      BY <2>3 DEF SubmitSource, pages, history
    <3>2. \A b \in Admins \ {a} : call'[b] = call[b]
      BY <1>3, PageStarts
    <3> QED
      BY <3>1, <3>2, DialogKept DEF DialogInv
  <2>4. ASSUME NEW s \in Sources, NEW op \in {"regenerate", "deleteSource", "setActive"},
               NEW to \in BOOLEAN, FindSource(a, s, op, to)
        PROVE  DialogInv'
    <3>1. UNCHANGED <<dialog, seen>> /\ call'[a].op = op
      BY <2>4 DEF FindSource, Start, TypeOK, pages, history
    <3>2. \A b \in Admins \ {a} : call'[b] = call[b]
      BY <1>3, PageStarts
    <3> QED
      BY <3>1, <3>2, DialogKept DEF DialogInv
  <2> QED
    BY <1>3, <2>1, <2>2, <2>3, <2>4 DEF SourcesPage
<1>4. ASSUME NEW a \in Admins, SourcesHandlers(a)
      PROVE  DialogInv'
  <2>1. CASE StoreSource(a) \/ UpdateSource(a) \/ DeleteSource(a)
    <3>1. UNCHANGED <<dialog, seen>> /\ Goto(a, "answer")
          /\ call[a].op \in {"createSource", "regenerate", "setActive", "deleteSource"}
      BY <2>1 DEF StoreSource, UpdateSource, DeleteSource, At, pages
    <3>2. call'[a].op = call[a].op /\ \A b \in Admins \ {a} : call'[b] = call[b]
      BY <1>c, <3>1, GotoEffect, CallsAre
    <3> QED
      BY <3>1, <3>2, DialogKept DEF DialogInv
  <2>2. CASE AnswerSource(a)
    <3>1. call'[a].op = "idle" /\ \A b \in Admins \ {a} : call'[b] = call[b]
      BY <2>2 DEF AnswerSource, TypeOK, Idle
    <3>2. CASE call[a].op = "createSource"
      <4>1. /\ dialog' = [dialog EXCEPT ![a] = [open |-> dialog[a].open,
                                                created |-> call[a].key]]
            /\ seen' = IF dialog[a].open THEN seen \cup ({call[a].key} \ {NoKey}) ELSE seen
        BY <2>2, <3>2 DEF AnswerSource, Display
      <4>2. /\ dialog'[a] = [open |-> dialog[a].open, created |-> call[a].key]
            /\ \A b \in Admins \ {a} : dialog'[b] = dialog[b]
        BY <4>1 DEF TypeOK
      <4> QED
        BY <3>1, <4>1, <4>2, DialogKept
    <3>3. CASE call[a].op # "createSource"
      <4>1. dialog' = dialog /\ seen \subseteq seen'
        BY <2>2, <3>3 DEF AnswerSource
      <4> QED
        BY <3>1, <4>1, DialogKept DEF DialogInv
    <3> QED
      BY <3>2, <3>3
  <2> QED
    BY <1>4, <2>1, <2>2 DEF SourcesHandlers
<1>5. ASSUME NEW q \in Posts, PostStep(q)
      PROVE  DialogInv'
  BY <1>5, PostFrame DEF DialogInv, pages
<1> QED
  BY <1>1, <1>2, <1>3, <1>4, <1>5, NextCases

\* A key that is known, or on its way to a screen.
Known(k) ==
    \/ k \in seen \cup lost
    \/ \E a \in Admins : dialog[a].created = k \/ (Answering(a) /\ call[a].key = k)

\* StoredKeyIsKnown, said of one key.
LEMMA KnownIs ==
  ASSUME StoredKeyIsKnown
  PROVE  \A s \in Sources : sources[s] # Absent => Known(sources[s].key)
  BY DEF StoredKeyIsKnown, Known, Answering


\* A known key stays known: it moves from handler to dialog to screen, or is lost.
LEMMA KnownStays ==
  ASSUME TypeOK, DialogInv, [Next]_vars, NEW k \in Keys, Known(k)
  PROVE  Known(k)'
<1>k. k # NoKey
  BY AdministrationAssumption DEF Keys
<1>c. \A b \in Admins : call[b] \in Calls
  BY DEF TypeOK
<1>1. CASE UNCHANGED vars
  BY <1>1 DEF Known, Answering, vars, pages, history
<1>2. ASSUME NEW a \in Admins, UNCHANGED <<dialog, seen, lost>>,
             \A b \in Admins \ {a} : call'[b] = call[b], ~Answering(a)
      PROVE  Known(k)'
  BY <1>2 DEF Known, Answering
<1>3. ASSUME NEW a \in Admins, RulesPage(a) \/ RulesHandlers(a)
      PROVE  Known(k)'
  <2>1. UNCHANGED <<dialog, seen, lost>>
    BY <1>3, RulesPageFrame, RulesHandlersFrame DEF history
  <2>2. \A b \in Admins \ {a} : call'[b] = call[b]
    BY <1>3, RulesCalls
  <2>3. CASE call' = call
    BY <2>1, <2>3 DEF Known, Answering
  <2>4. CASE call' # call
    <3>1. call[a].op \in {"idle", "toggle", "delete", "save", "patch", "create"}
      <4>1. CASE RulesPage(a)
        BY <2>4, <4>1, PageStarts DEF Idle
      <4>2. CASE RulesHandlers(a)
        BY <4>2 DEF RulesHandlers, StoreRule, UpdateRule, SetRuleActive, WriteAudit,
                    AnswerRules, At
      <4> QED
        BY <1>3, <4>1, <4>2
    <3> QED
      BY <1>2, <2>1, <2>2, <3>1 DEF Answering
  <2> QED
    BY <2>3, <2>4
<1>4. ASSUME NEW a \in Admins, SourcesPage(a)
      PROVE  Known(k)'
  <2>1. CASE OpenDialog(a)
    <3>1. /\ call' = call /\ lost' = lost /\ seen \subseteq seen'
          /\ \A b \in Admins : dialog'[b].created = dialog[b].created
      BY <2>1 DEF OpenDialog, Display, TypeOK
    <3> QED
      BY <3>1 DEF Known, Answering
  <2>2. CASE CloseModal(a)
    <3>1. /\ call' = call /\ seen' = seen /\ lost \subseteq lost'
          /\ \A b \in Admins \ {a} : dialog'[b] = dialog[b]
          /\ ~dialog[a].open => dialog[a].created \in lost' \cup {NoKey}
      BY <2>2 DEF CloseModal, Display, TypeOK
    <3>2. dialog[a].created \in seen' \cup lost' \cup {NoKey}
      BY <3>1 DEF DialogInv
    <3> QED
      BY <1>k, <3>1, <3>2 DEF Known, Answering
  <2>3. CASE ~OpenDialog(a) /\ ~CloseModal(a)
    <3>1. UNCHANGED <<dialog, seen, lost>>
      BY <1>4, <2>3 DEF SourcesPage, SubmitSource, FindSource, pages, history
    <3>2. CASE call' = call
      BY <3>1, <3>2 DEF Known, Answering
    <3>3. CASE call' # call
      <4>1. call[a] = Idle /\ \A b \in Admins \ {a} : call'[b] = call[b]
        BY <1>4, <3>3, PageStarts
      <4>2. ~Answering(a)
        BY <4>1 DEF Answering, Idle
      <4> QED
        BY <1>2, <3>1, <4>1, <4>2
    <3> QED
      BY <3>2, <3>3
  <2> QED
    BY <2>1, <2>2, <2>3
<1>5. ASSUME NEW a \in Admins, SourcesHandlers(a)
      PROVE  Known(k)'
  <2>1. lost' = lost
    BY <1>5, SourcesHandlersFrame
  <2>2. CASE StoreSource(a) \/ UpdateSource(a) \/ DeleteSource(a)
    <3>1. /\ UNCHANGED <<dialog, seen>> /\ Goto(a, "answer") /\ call[a].at = "update"
          /\ call[a].op \in {"createSource", "regenerate", "setActive", "deleteSource"}
      BY <2>2 DEF StoreSource, UpdateSource, DeleteSource, At, pages
    <3>2. \A b \in Admins \ {a} : call'[b] = call[b]
      BY <1>c, <3>1, GotoEffect, CallsAre
    <3> QED
      BY <1>2, <2>1, <3>1, <3>2 DEF Answering
  <2>3. CASE AnswerSource(a)
    <3>1. \A b \in Admins \ {a} : call'[b] = call[b]
      BY <2>3 DEF AnswerSource, TypeOK
    <3>2. CASE call[a].op = "createSource"
      <4>1. /\ seen \subseteq seen' /\ dialog'[a].created = call[a].key
            /\ \A b \in Admins \ {a} : dialog'[b] = dialog[b]
        BY <2>3, <3>2 DEF AnswerSource, Display, TypeOK
      <4>2. dialog[a].created = NoKey
        BY <3>2 DEF DialogInv
      <4> QED
        BY <1>k, <2>1, <3>1, <4>1, <4>2 DEF Known, Answering
    <3>3. CASE call[a].op # "createSource"
      <4>1. /\ dialog' = dialog /\ seen \subseteq seen'
            /\ call[a].op = "regenerate" => call[a].key \in seen'
        BY <2>3, <3>3 DEF AnswerSource
      <4> QED
        BY <2>1, <3>1, <3>3, <4>1 DEF Known, Answering
    <3> QED
      BY <3>2, <3>3
  <2> QED
    BY <1>5, <2>2, <2>3 DEF SourcesHandlers
<1>6. ASSUME NEW a \in Admins, Fail(a)
      PROVE  Known(k)'
  <2>1. /\ UNCHANGED <<dialog, seen>> /\ lost \subseteq lost'
        /\ call[a].op \in {"createSource", "regenerate"} => call[a].key \in lost'
        /\ \A b \in Admins \ {a} : call'[b] = call[b]
    BY <1>6 DEF Fail, TypeOK, pages
  <2> QED
    BY <2>1 DEF Known, Answering
<1>7. ASSUME NEW q \in Posts, PostStep(q)
      PROVE  Known(k)'
  BY <1>7, PostFrame DEF Known, Answering, pages
<1> QED
  BY <1>1, <1>3, <1>4, <1>5, <1>6, <1>7, NextCases

\* Every step keeps the stored keys known; a new one is stored on its way to an answer.
LEMMA KnownStep ==
  ASSUME TypeOK, TypeOK', DialogInv, StoredKeyIsKnown, [Next]_vars
  PROVE  StoredKeyIsKnown'
<1>c. \A b \in Admins : call[b] \in Calls
  BY DEF TypeOK
<1>0. ASSUME NEW s \in Sources, sources[s] # Absent, NEW k, k = sources[s].key
      PROVE  Known(k)'
  <2>1. k \in Keys
    BY <1>0 DEF TypeOK, SourceRows
  <2>2. Known(k)
    BY <1>0, KnownIs
  <2> QED
    BY <2>1, <2>2, KnownStays
<1>1. ASSUME NEW s \in Sources, sources'[s] # Absent, NEW k, k = sources'[s].key
      PROVE  Known(k)'
  <2>1. CASE UNCHANGED sources
    BY <1>0, <1>1, <2>1
  <2>2. ASSUME NEW a \in Admins, SourcesHandlers(a), sources' # sources
        PROVE  Known(k)'
    <3>g. ASSUME Goto(a, "answer"), call[a].op \in {"createSource", "regenerate"},
                 call[a].key = k
          PROVE  Known(k)'
      <4>1. call[a] # Idle
        BY <1>c, <3>g, CallsAre
      <4>2. call'[a].op = call[a].op /\ call'[a].at = "answer" /\ call'[a].key = call[a].key
        BY <3>g, <4>1, GotoEffect
      <4> QED
        BY <3>g, <4>2 DEF Known, Answering
    <3>1. CASE StoreSource(a)
      <4>1. /\ Goto(a, "answer") /\ call[a].op = "createSource"
            /\ sources' = [sources EXCEPT ![call[a].source] =
                              [active |-> TRUE, key |-> call[a].key]]
        BY <3>1 DEF StoreSource, At
      <4>2. CASE s = call[a].source
        BY <1>1, <3>g, <4>1, <4>2 DEF TypeOK
      <4>3. CASE s # call[a].source
        BY <1>0, <1>1, <4>1, <4>3 DEF TypeOK
      <4> QED
        BY <4>2, <4>3
    <3>2. CASE UpdateSource(a)
      <4>1. /\ Goto(a, "answer") /\ call[a].op \in {"regenerate", "setActive"}
            /\ sources[call[a].source] # Absent
        BY <3>2 DEF UpdateSource, At
      <4>2. CASE s # call[a].source
        <5>1. sources'[s] = sources[s]
          BY <3>2, <4>2 DEF UpdateSource, TypeOK
        <5> QED
          BY <1>0, <1>1, <5>1
      <4>3. CASE s = call[a].source
        <5>1. sources[s] \in SourceRows
          BY <4>1, <4>3 DEF TypeOK
        <5>2. \A x : /\ [sources[s] EXCEPT !.key = x].key = x
                     /\ [sources[s] EXCEPT !.active = x].key = sources[s].key
          BY <5>1 DEF SourceRows
        <5>3. CASE call[a].op = "regenerate"
          <6>1. sources'[s] = [sources[s] EXCEPT !.key = call[a].key]
            BY <3>2, <4>3, <5>3 DEF UpdateSource, TypeOK
          <6> QED
            BY <1>1, <3>g, <4>1, <5>2, <5>3, <6>1
        <5>4. CASE call[a].op # "regenerate"
          <6>1. sources'[s] = [sources[s] EXCEPT !.active = call[a].to]
            BY <3>2, <4>3, <5>4 DEF UpdateSource, TypeOK
          <6> QED
            BY <1>0, <1>1, <4>1, <4>3, <5>2, <6>1
        <5> QED
          BY <5>3, <5>4
      <4> QED
        BY <4>2, <4>3
    <3>3. CASE DeleteSource(a)
      <4>1. sources'[s] = sources[s]
        BY <1>1, <3>3 DEF DeleteSource, TypeOK
      <4> QED
        BY <1>0, <1>1, <4>1
    <3>4. ~AnswerSource(a)
      BY <2>2 DEF AnswerSource
    <3> QED
      BY <2>2, <3>1, <3>2, <3>3, <3>4 DEF SourcesHandlers
  <2>3. ASSUME NEW a \in Admins, RulesPage(a) \/ RulesHandlers(a) \/ SourcesPage(a) \/ Fail(a)
        PROVE  UNCHANGED sources
    BY <2>3, RulesPageFrame, RulesHandlersFrame, SourcesPageFrame DEF Fail
  <2>4. ASSUME NEW q \in Posts, PostStep(q)
        PROVE  UNCHANGED sources
    BY <2>4, PostFrame
  <2>5. UNCHANGED vars => UNCHANGED sources
    BY DEF vars
  <2> QED
    BY <2>1, <2>2, <2>3, <2>4, <2>5, NextCases
<1>2. (\A b \in Admins : Answering(b) => call[b] # Idle)'
  BY DEF Answering, Idle
<1> QED
  BY <1>1, <1>2 DEF StoredKeyIsKnown, Known, Answering

-----------------------------------------------------------------------------
(* The status of a rule and its audit rows *)

\* Only SetRuleActive and UpdateRule change the status of a rule, and to what was asked.
LEMMA ToggleStep ==
  ASSUME TypeOK, RowsInv, [Next]_vars,
         NEW r \in Rules, rules[r] # Absent, rules'[r].active # rules[r].active
  PROVE  \E a \in Admins : /\ call[a].op \in {"toggle", "delete", "patch"}
                           /\ call[a].rule = r /\ call[a].at = "update"
                           /\ call[a].to = rules'[r].active
<1>c. \A b \in Admins : call[b] \in Calls
  BY DEF TypeOK
<1>r. rules[r] \in RuleRows
  BY DEF TypeOK, Tables
<1>1. rules' # rules
  OBVIOUS
<1>2. PICK a \in Admins : RulesHandlers(a) \/ SourcesHandlers(a)
  <2>1. ASSUME NEW b \in Admins, RulesPage(b) \/ SourcesPage(b) \/ Fail(b)
        PROVE  rules' = rules
    BY <2>1, RulesPageFrame, SourcesPageFrame DEF Fail
  <2>2. ASSUME NEW q \in Posts, PostStep(q)
        PROVE  rules' = rules
    BY <2>2, PostFrame
  <2>3. UNCHANGED vars => rules' = rules
    BY DEF vars
  <2> QED
    BY <1>1, <2>1, <2>2, <2>3, NextCases
<1>3. CASE SetRuleActive(a)
  <2>1. /\ call[a].op \in {"toggle", "delete"} /\ call[a].at = "update"
        /\ rules' = [rules EXCEPT ![call[a].rule] = [@ EXCEPT !.active = call[a].to]]
    BY <1>3 DEF SetRuleActive, At
  <2>2. call[a].rule = r
    BY <2>1 DEF TypeOK, Tables
  <2>3. [rules[r] EXCEPT !.active = call[a].to].active = call[a].to
    BY <1>r DEF RuleRows
  <2>4. rules'[r].active = call[a].to
    BY <2>1, <2>2, <2>3 DEF TypeOK, Tables
  <2> QED
    BY <2>1, <2>2, <2>4
<1>4. CASE StoreRule(a)
  <2>1. rules[call[a].rule] = Absent
    BY <1>4 DEF StoreRule, RowsInv
  <2>2. rules'[r] = rules[r]
    BY <1>4, <2>1 DEF StoreRule, TypeOK, Tables
  <2> QED
    BY <2>2
<1>5. CASE UpdateRule(a)
  <2>1. /\ call[a].rule = r /\ call[a].at = "update" /\ call[a].op \in {"save", "patch"}
        /\ rules'[r].active = Sent(rules[r].active, call[a].to)
    BY <1>5, RuleUpdated
  <2>2. call[a].to = rules'[r].active /\ call[a].to # Keep
    BY <2>1 DEF Sent
  <2>3. call[a].op # "save"
    BY <1>c, <2>1, <2>2, CallsAre
  <2> QED
    BY <2>1, <2>2, <2>3
<1>6. CASE DeleteSource(a)
  <2>1. [rules[r] EXCEPT !.scope = Global].active = rules[r].active
    BY <1>r DEF RuleRows
  <2>2. rules'[r] \in {rules[r], [rules[r] EXCEPT !.scope = Global]}
    BY <1>6 DEF DeleteSource
  <2> QED
    BY <2>1, <2>2
<1>7. CASE WriteAudit(a) \/ AnswerRules(a) \/ StoreSource(a) \/ UpdateSource(a)
           \/ AnswerSource(a)
  BY <1>1, <1>7 DEF WriteAudit, AnswerRules, StoreSource, UpdateSource, AnswerSource
<1> QED
  BY <1>2, <1>3, <1>4, <1>5, <1>6, <1>7 DEF RulesHandlers, SourcesHandlers

\* Who is between the change of a rule and its audit row.
Pending(r) ==
    {a \in Admins : call[a] # Idle /\ call[a].at = "audit" /\ call[a].rule = r}

\* Every change has its audit row, a handler on its way to write it, or a
\* failure that stands for it.
AuditInv ==
    \A r \in Rules :
        /\ audits[r] + Cardinality(Pending(r)) <= changes[r]
        /\ changes[r] <= audits[r] + faults + Cardinality(Pending(r))

\* There are finitely many handlers before an audit row.
LEMMA PendingCounts ==
  ASSUME NEW r
  PROVE  IsFiniteSet(Pending(r)) /\ Cardinality(Pending(r)) \in Nat
<1>1. IsFiniteSet(Admins)
  BY AdministrationAssumption
<1>2. Pending(r) \subseteq Admins
  BY DEF Pending
<1> QED
  BY <1>1, <1>2, FS_Subset, FS_CardinalityType

\* One more handler before an audit row.
LEMMA PendingGrows ==
  ASSUME NEW r, NEW a \in Admins, a \notin Pending(r), a \in Pending(r)',
         \A b \in Admins \ {a} : call'[b] = call[b]
  PROVE  Cardinality(Pending(r)') = Cardinality(Pending(r)) + 1
<1>1. Pending(r)' = Pending(r) \cup {a}
  BY DEF Pending
<1> QED
  BY <1>1, PendingCounts, FS_AddElement

\* One handler less before an audit row.
LEMMA PendingShrinks ==
  ASSUME NEW r, NEW a \in Admins, a \in Pending(r), a \notin Pending(r)',
         \A b \in Admins \ {a} : call'[b] = call[b]
  PROVE  Cardinality(Pending(r)') = Cardinality(Pending(r)) - 1
<1>1. Pending(r)' = Pending(r) \ {a}
  BY DEF Pending
<1> QED
  BY <1>1, PendingCounts, FS_RemoveElement

\* A step that neither changes a status nor meets an audit row.
LEMMA AuditKept ==
  ASSUME AuditInv, UNCHANGED <<audits, changes, faults>>, NEW a \in Admins,
         \A b \in Admins \ {a} : call'[b] = call[b],
         \/ call'[a] = call[a]
         \/ /\ call[a] = Idle \/ call[a].at # "audit"
            /\ call'[a] = Idle \/ call'[a].at # "audit"
  PROVE  AuditInv'
<1>1. \A r \in Rules : Pending(r)' = Pending(r)
  BY DEF Pending, Idle
<1> QED
  BY <1>1 DEF AuditInv

\* Every step keeps the accounts of changes and audit rows.
LEMMA AuditStep ==
  ASSUME TypeOK, TypeOK', AuditInv, [Next]_vars
  PROVE  AuditInv'
<1>c. \A b \in Admins : call[b] \in Calls
  BY DEF TypeOK
<1>n. \A r \in Rules : /\ audits[r] \in Nat /\ changes[r] \in Nat /\ faults \in Nat
                       /\ audits'[r] \in Nat /\ changes'[r] \in Nat /\ faults' \in Nat
                       /\ Cardinality(Pending(r)) \in Nat
  BY PendingCounts DEF TypeOK
<1>1. CASE UNCHANGED vars
  BY <1>1 DEF AuditInv, Pending, vars, history
<1>2. ASSUME NEW a \in Admins, RulesPage(a) \/ SourcesPage(a)
      PROVE  AuditInv'
  <2>1. UNCHANGED <<audits, changes, faults>>
    BY <1>2, RulesPageFrame, SourcesPageFrame DEF history
  <2>2. CASE call' = call
    BY <1>2, <2>1, <2>2, AuditKept
  <2>3. CASE call' # call
    BY <1>2, <2>1, <2>3, PageStarts, AuditKept
  <2> QED
    BY <2>2, <2>3
<1>3. ASSUME NEW a \in Admins, SourcesHandlers(a)
      PROVE  AuditInv'
  <2>1. UNCHANGED <<audits, changes, faults>>
    BY <1>3, SourcesHandlersFrame
  <2>2. CASE StoreSource(a) \/ UpdateSource(a) \/ DeleteSource(a)
    <3>1. /\ Goto(a, "answer") /\ call[a].at = "update"
          /\ call[a].op \in {"createSource", "regenerate", "setActive", "deleteSource"}
      BY <2>2 DEF StoreSource, UpdateSource, DeleteSource, At
    <3>2. call'[a].at = "answer" /\ \A b \in Admins \ {a} : call'[b] = call[b]
      BY <1>c, <3>1, GotoEffect, CallsAre
    <3> QED
      BY <2>1, <3>1, <3>2, AuditKept
  <2>3. CASE AnswerSource(a)
    <3>1. /\ call[a].at = "answer" /\ call'[a] = Idle
          /\ \A b \in Admins \ {a} : call'[b] = call[b]
      BY <2>3 DEF AnswerSource, TypeOK
    <3> QED
      BY <2>1, <3>1, AuditKept
  <2> QED
    BY <1>3, <2>2, <2>3 DEF SourcesHandlers
<1>4. ASSUME NEW q \in Posts, PostStep(q)
      PROVE  AuditInv'
  BY <1>4, PostFrame DEF AuditInv, Pending
<1>5. ASSUME NEW a \in Admins, StoreRule(a) \/ UpdateRule(a)
      PROVE  AuditInv'
  <2>1. /\ UNCHANGED <<audits, changes, faults>> /\ call[a].at = "update"
        /\ StoreRule(a) => (Goto(a, "answer") /\ call[a].op = "create")
    BY <1>5 DEF StoreRule, UpdateRule, At, history
  <2>2. call'[a].at = "answer" /\ \A b \in Admins \ {a} : call'[b] = call[b]
    BY <1>5, <1>c, <2>1, GotoEffect, CallsAre, UpdateAnswers
  <2> QED
    BY <2>1, <2>2, AuditKept
<1>6. ASSUME NEW a \in Admins, AnswerRules(a)
      PROVE  AuditInv'
  <2>1. /\ UNCHANGED <<audits, changes, faults>> /\ call[a].at = "answer" /\ call'[a] = Idle
        /\ \A b \in Admins \ {a} : call'[b] = call[b]
    BY <1>6 DEF AnswerRules, TypeOK, history
  <2> QED
    BY <2>1, AuditKept
<1>7. ASSUME NEW a \in Admins, SetRuleActive(a)
      PROVE  AuditInv'
  <2>1. /\ UNCHANGED <<audits, faults>> /\ Goto(a, "audit") /\ call[a].at = "update"
        /\ call[a].op \in {"toggle", "delete"}
        /\ changes' = [changes EXCEPT ![call[a].rule] = @ + 1]
    BY <1>7 DEF SetRuleActive, At
  <2>2. call[a] # Idle
    BY <1>c, <2>1, CallsAre
  <2>3. /\ call'[a].at = "audit" /\ call'[a].rule = call[a].rule /\ call'[a].op = call[a].op
        /\ \A b \in Admins \ {a} : call'[b] = call[b]
    BY <2>1, <2>2, GotoEffect
  <2>4. call'[a] # Idle
    BY <2>1, <2>3 DEF Idle
  <2>5. call[a].rule \in Rules
    BY <1>c, <2>1, CallsAre
  <2>6. ASSUME NEW r \in Rules, r = call[a].rule
        PROVE  /\ changes'[r] = changes[r] + 1
               /\ Cardinality(Pending(r)') = Cardinality(Pending(r)) + 1
    <3>1. a \notin Pending(r) /\ a \in Pending(r)'
      BY <2>1, <2>3, <2>4, <2>6 DEF Pending, Idle
    <3>2. Cardinality(Pending(r)') = Cardinality(Pending(r)) + 1
      BY <2>3, <3>1, PendingGrows
    <3> QED
      BY <2>1, <2>6, <3>2 DEF TypeOK
  <2>7. ASSUME NEW r \in Rules, r # call[a].rule
        PROVE  changes'[r] = changes[r] /\ Pending(r)' = Pending(r)
    <3>1. changes'[r] = changes[r]
      BY <2>1, <2>7 DEF TypeOK
    <3>2. a \notin Pending(r) /\ a \notin Pending(r)'
      BY <2>1, <2>3, <2>7 DEF Pending
    <3>3. Pending(r)' = Pending(r)
      BY <2>3, <3>2 DEF Pending
    <3> QED
      BY <3>1, <3>3
  <2>8. ASSUME NEW r \in Rules
        PROVE  /\ audits'[r] + Cardinality(Pending(r)') <= changes'[r]
               /\ changes'[r] <= audits'[r] + faults' + Cardinality(Pending(r)')
    BY <1>n, <2>1, <2>6, <2>7 DEF AuditInv
  <2> QED
    BY <2>8 DEF AuditInv
<1>8. ASSUME NEW a \in Admins, WriteAudit(a)
      PROVE  AuditInv'
  <2>1. /\ UNCHANGED <<changes, faults>> /\ Goto(a, "answer") /\ call[a].at = "audit"
        /\ call[a].op \in {"toggle", "delete"}
        /\ audits' = [audits EXCEPT ![call[a].rule] = @ + 1]
    BY <1>8 DEF WriteAudit, At, history
  <2>2. call[a] # Idle
    BY <1>c, <2>1, CallsAre
  <2>3. call'[a].at = "answer" /\ \A b \in Admins \ {a} : call'[b] = call[b]
    BY <2>1, <2>2, GotoEffect
  <2>6. ASSUME NEW r \in Rules, r = call[a].rule
        PROVE  /\ audits'[r] = audits[r] + 1
               /\ Cardinality(Pending(r)') = Cardinality(Pending(r)) - 1
    <3>1. a \in Pending(r) /\ a \notin Pending(r)'
      BY <2>1, <2>2, <2>3, <2>6 DEF Pending
    <3>2. Cardinality(Pending(r)') = Cardinality(Pending(r)) - 1
      BY <2>3, <3>1, PendingShrinks
    <3> QED
      BY <2>1, <2>6, <3>2 DEF TypeOK
  <2>7. ASSUME NEW r \in Rules, r # call[a].rule
        PROVE  audits'[r] = audits[r] /\ Pending(r)' = Pending(r)
    <3>1. audits'[r] = audits[r]
      BY <2>1, <2>7 DEF TypeOK
    <3>2. a \notin Pending(r) /\ a \notin Pending(r)'
      BY <2>1, <2>3, <2>7 DEF Pending
    <3>3. Pending(r)' = Pending(r)
      BY <2>3, <3>2 DEF Pending
    <3> QED
      BY <3>1, <3>3
  <2>8. ASSUME NEW r \in Rules
        PROVE  /\ audits'[r] + Cardinality(Pending(r)') <= changes'[r]
               /\ changes'[r] <= audits'[r] + faults' + Cardinality(Pending(r)')
    BY <1>n, <2>1, <2>6, <2>7 DEF AuditInv
  <2> QED
    BY <2>8 DEF AuditInv
<1>9. ASSUME NEW a \in Admins, Fail(a)
      PROVE  AuditInv'
  <2>1. /\ UNCHANGED <<audits, changes>> /\ faults' = faults + 1 /\ call'[a] = Idle
        /\ \A b \in Admins \ {a} : call'[b] = call[b]
    BY <1>9 DEF Fail, TypeOK
  <2>2. ASSUME NEW r \in Rules
        PROVE  \/ Pending(r)' = Pending(r)
               \/ Cardinality(Pending(r)') = Cardinality(Pending(r)) - 1
    <3>1. CASE a \in Pending(r)
      <4>1. a \notin Pending(r)'
        BY <2>1 DEF Pending, Idle
      <4> QED
        BY <2>1, <3>1, <4>1, PendingShrinks
    <3>2. CASE a \notin Pending(r)
      BY <2>1, <3>2 DEF Pending, Idle
    <3> QED
      BY <3>1, <3>2
  <2>3. ASSUME NEW r \in Rules
        PROVE  /\ audits'[r] + Cardinality(Pending(r)') <= changes'[r]
               /\ changes'[r] <= audits'[r] + faults' + Cardinality(Pending(r)')
    BY <1>n, <2>1, <2>2 DEF AuditInv
  <2> QED
    BY <2>3 DEF AuditInv
<1> QED
  BY <1>1, <1>2, <1>3, <1>4, <1>5, <1>6, <1>7, <1>8, <1>9, NextCases DEF RulesHandlers

-----------------------------------------------------------------------------
(* The theorems *)

\* The inductive invariant: the properties and what their steps rest on.
Inv ==
    /\ TypeOK
    /\ RowsInv /\ FreshInv
    /\ AccessInv
    /\ ScopeInv
    /\ DialogInv /\ StoredKeyIsKnown
    /\ AuditInv

\* The invariant holds after seeding.
LEMMA InitInv == Init => Inv
<1> SUFFICES ASSUME Init PROVE Inv
  OBVIOUS
<1> USE AdministrationAssumption
<1>1. TypeOK
  <2>1. \A s \in Sources : s <= Seeded => [active |-> TRUE, key |-> s] \in SourceRows
    BY DEF SourceRows, Sources
  <2>2. sources \in [Sources -> SourceRows \cup {Absent}]
    BY <2>1 DEF Init
  <2>3. 1..Seeded \subseteq Sources /\ keys \in 0..MaxKeys /\ keys = Seeded
    BY DEF Init, Sources, Keys
  <2>4. rules \in Tables
    BY <2>3 DEF Init, Tables, RuleRows
  <2>5. intended \in [Rules -> Sources \cup {Global, Absent}]
    BY <2>4 DEF Init, Tables, RuleRows
  <2>6. call \in [Admins -> Calls]
    BY DEF Init, Calls
  <2>7. dialog \in [Admins -> [open : BOOLEAN, created : Keys \cup {NoKey}]]
    BY DEF Init
  <2>8. post \in [Posts -> PostTypes]
    BY DEF Init, PostTypes
  <2>9. seen \subseteq Keys /\ lost \subseteq Keys /\ live \in [Posts -> BOOLEAN]
    BY <2>3 DEF Init, Keys
  <2>10. /\ list \in [Admins -> Tables]
         /\ form \in [Admins -> [rule : Rules, def : Defs] \cup {NoForm}]
         /\ timers \in [Admins -> Nat] /\ audits \in [Rules -> Nat] /\ changes \in [Rules -> Nat]
         /\ calls \in Nat /\ faults \in Nat
    BY <2>4 DEF Init
  <2> QED
    BY <2>2, <2>3, <2>4, <2>5, <2>6, <2>7, <2>8, <2>9, <2>10 DEF TypeOK
<1>i. \A a \in Admins : call[a].op = "idle" /\ call[a] = Idle
  BY DEF Init, Idle
<1>2. RowsInv
  BY <1>i DEF Init, RowsInv, At
<1>3. FreshInv
  <2>1. \A s \in Sources : sources[s] # Absent => s <= keys
    BY DEF Init
  <2>2. \A r \in Rules : intended[r] \in Sources => intended[r] <= keys
    <3> SUFFICES ASSUME NEW r \in Rules, intended[r] \in Sources PROVE intended[r] <= keys
      OBVIOUS
    <3>1. rules[r] # Absent
      BY DEF Init, Sources, Keys
    <3>2. rules[r].scope \in (1..Seeded) \cup {Global}
      BY <3>1 DEF Init
    <3> QED
      BY <3>1, <3>2 DEF Init, Sources, Keys
  <2> QED
    BY <1>i, <2>1, <2>2 DEF FreshInv, At
<1>4. AccessInv
  BY DEF Init, AccessInv
<1>5. ScopeInv
  BY DEF Init, ScopeInv
<1>6. DialogInv
  BY <1>i DEF Init, DialogInv
<1>7. StoredKeyIsKnown
  <2>1. \A s \in Sources : sources[s] # Absent => sources[s].key \in seen
    BY DEF Init, Sources, Keys
  <2> QED
    BY <2>1 DEF StoredKeyIsKnown
<1>8. AuditInv
  <2>1. \A r \in Rules : Pending(r) = {}
    BY <1>i DEF Pending
  <2>2. \A r \in Rules : Cardinality(Pending(r)) = 0
    BY <2>1, FS_EmptySet
  <2>3. \A r \in Rules : audits[r] = 0 /\ changes[r] = 0
    BY DEF Init
  <2>4. faults = 0
    BY DEF Init
  <2> QED
    BY <2>2, <2>3, <2>4 DEF AuditInv
<1> QED
  BY <1>1, <1>2, <1>3, <1>4, <1>5, <1>6, <1>7, <1>8 DEF Inv

\* Every step keeps the invariant.
LEMMA NextInv == Inv /\ [Next]_vars => Inv'
<1> SUFFICES ASSUME Inv, [Next]_vars PROVE Inv'
  OBVIOUS
<1> USE DEF Inv
<1>1. TypeOK'
  BY TypeStep
<1>2. RowsInv'
  BY RowsStep
<1>3. FreshInv'
  BY FreshStep
<1>4. AccessInv'
  BY AccessStep
<1>5. ScopeInv'
  BY ScopeStep
<1>6. DialogInv'
  BY DialogStep
<1>7. StoredKeyIsKnown'
  BY <1>1, KnownStep
<1>8. AuditInv'
  BY <1>1, AuditStep
<1> QED
  BY <1>1, <1>2, <1>3, <1>4, <1>5, <1>6, <1>7, <1>8

\* The inductive invariant holds in every reachable state.
THEOREM Inductive == Spec => []Inv
  BY InitInv, NextInv, PTL DEF Spec

\* Every variable keeps its type.
THEOREM TypeCorrect == Spec => []TypeOK
  BY Inductive, PTL DEF Inv

\* validateApiKey lets nobody in with a key that was revoked before the request.
THEOREM AccessIsCurrent == Spec => []RevokedKeyRefused
<1>1. Inv => RevokedKeyRefused
  BY DEF Inv, AccessInv, RevokedKeyRefused
<1> QED
  BY <1>1, Inductive, PTL

\* findMatchingRules fires a rule on another source's event only after
\* deleteSource, however createRule and updateRule gave it its source.
THEOREM ScopeIsKept == Spec => FiresInScope
<1>1. Inv /\ [Next]_vars =>
         [\A q \in Posts : (post[q].at = "stored" /\ post'[q].at = "matched") =>
             \A r \in post'[q].fires :
                 \/ intended[r] \in {Global, post[q].source}
                 \/ sources[intended[r]] = Absent]_vars
  BY FiringStep DEF Inv
<1> QED
  BY <1>1, Inductive, PTL DEF Spec, FiresInScope

\* No stored key is unknown unless its answer or its dialog was lost.
THEOREM KeyIsKnown == Spec => []StoredKeyIsKnown
  BY Inductive, PTL DEF Inv

\* setRuleActive and deleteRule leave one audit row for every change of theirs,
\* failures aside; updateRule's own changes of a status are not among them.
THEOREM AuditIsKept == Spec => []ChangesAudited
<1>1. ASSUME Inv
      PROVE  ChangesAudited
  <2>1. ASSUME NEW r \in Rules
        PROVE  /\ audits[r] <= changes[r]
               /\ changes[r] <= audits[r] + faults + Cardinality(Pending(r))
    <3>1. Cardinality(Pending(r)) \in Nat /\ audits[r] \in Nat /\ changes[r] \in Nat
      BY <1>1, PendingCounts DEF Inv, TypeOK
    <3> QED
      BY <1>1, <3>1 DEF Inv, AuditInv
  <2> QED
    BY <2>1 DEF ChangesAudited, Pending
<1> QED
  BY <1>1, Inductive, PTL

\* A rule's status changes only to what a button said or a PATCH sent.
THEOREM StatusAsAsked == Spec => ToggleDoesWhatItSaid
<1>1. Inv /\ [Next]_vars =>
         [\A r \in Rules :
            (rules[r] # Absent /\ rules'[r].active # rules[r].active) =>
               \E a \in Admins : /\ call[a].op \in {"toggle", "delete", "patch"}
                                 /\ call[a].rule = r /\ call[a].at = "update"
                                 /\ call[a].to = rules'[r].active]_vars
  BY ToggleStep DEF Inv
<1> QED
  BY <1>1, Inductive, PTL DEF Spec, ToggleDoesWhatItSaid
=============================================================================
