---------------------------- MODULE RuleEngine ----------------------------
(***************************************************************************)
(* RuleEngineService and the three places that ask it: POST                *)
(* /rules/test/validate-conditions previews a condition, POST              *)
(* /rules/:id/test tries a stored rule, and findMatchingRules decides for  *)
(* an event.  One rule is stored; its conditions and the payloads come     *)
(* from the constants.                                                     *)
(*                                                                         *)
(* A condition is a record: kind "all" or "any" with subs, a sequence or   *)
(* NotArray; kind "not" with sub; kind "simple" with the properties it     *)
(* has; or any other kind, for a JSON value that is not an object.  A JSON *)
(* value is a record with a kind: "undefined", "null", "number", "text",   *)
(* "list" with items, "object" with members.  A field is the sequence of   *)
(* its parts, and the empty sequence stands for a field that is no text.   *)
(*                                                                         *)
(* A text that describes a condition is a sequence of tokens: the words of *)
(* the groups and the leaves.  The text of a leaf is the leaf itself,      *)
(* unless it can be read as something else: a field may be called          *)
(* `a == 1 AND b`, and a number or a list in its place leaves the text of  *)
(* a name.  LeafText then is what it reads as.                             *)
(*                                                                         *)
(* The recursions of the source are recursive functions: over the          *)
(* conditions, over those that validation accepts, and over the indices of *)
(* a sequence.                                                             *)
(***************************************************************************)
EXTENDS Integers, Sequences, FiniteSets, Functions

CONSTANTS
    Conditions, Payloads,   \* what users send
    Actions, Omitted,       \* the actions they send with a rule; none, in an update
    NotArray, NoRule, NoPayload, OwnText,
    Depth(_),               \* of the nesting of a condition
    TextOf(_), NumberOf(_), \* String(v); Number(v), a set that is empty for NaN
    Collate(_, _),          \* localeCompare of two texts
    Includes(_, _), StartsWith(_, _), EndsWith(_, _),
    Compiles(_), Matches(_, _), \* new RegExp(value), and its test of a text
    Element(_, _),          \* v[part], where part is no member of an object v
    LeafText(_)             \* `${field} ${operator} ${JSON.stringify(value)}`

VARIABLES
    rule,     \* the stored conditions, or NoRule
    text,     \* conditionText of the rule
    answer    \* of the last request or evaluation

vars == <<rule, text, answer>>

Operators == {"==", "!=", ">", "<", ">=", "<=", "contains", "in",
              "startsWith", "endsWith", "regex"}

Undefined == [kind |-> "undefined"]

\* The conditions directly within a condition.
Subs(c) ==
    CASE c.kind \in {"all", "any"} -> IF c.subs = NotArray THEN {} ELSE Range(c.subs)
      [] c.kind = "not" -> {c.sub}
      [] OTHER -> {}

Token(w) == [kind |-> "word", word |-> w]

\* What descriptions are made of.
Tokens == {c \in Conditions : c.kind = "simple"}
          \cup {Token(w) : w \in {"(", ")", "AND", "OR", "NOT ("}}

\* Conditions come as JSON, so each is a finite tree, and any part of one can be
\* sent alone.  String(undefined) is "undefined" and Number(undefined) is NaN.
ASSUME RuleEngineAssumption ==
    /\ \A c \in Conditions :
          /\ Depth(c) \in Nat
          /\ c.kind \in {"all", "any"} => (c.subs = NotArray \/ c.subs \in Seq(Conditions))
          /\ (c.kind = "simple" /\ "field" \in DOMAIN c) => c.field \in Seq(STRING)
          /\ c.kind = "simple" => LeafText(c) \in Seq(Tokens)
          /\ \A d \in Subs(c) : d \in Conditions /\ Depth(d) < Depth(c)
    /\ TextOf(Undefined) = "undefined"
    /\ NumberOf(Undefined) = {}

-----------------------------------------------------------------------------
(* validateConditionStructure *)

Valid[c \in Conditions] ==
    CASE c.kind \in {"all", "any"} ->
            /\ c.subs # NotArray
            /\ \A i \in DOMAIN c.subs : Valid[c.subs[i]]
      [] c.kind = "not" -> Valid[c.sub]
      [] c.kind = "simple" ->
            /\ {"field", "operator", "value"} \subseteq DOMAIN c
            /\ c.operator \in Operators
      [] OTHER -> FALSE

\* The conditions that are evaluated and described: all that get past validation.
Accepted == {c \in Conditions : Valid[c]}

ActionTypes == {"SEND_EMAIL", "CALL_WEBHOOK", "CREATE_NOTIFICATION"}

\* validateActions.  A value without a config that is an object has config "none".
ValidActions(actions) ==
    /\ actions \notin {NotArray, <<>>}
    /\ \A i \in DOMAIN actions :
          actions[i].type \in ActionTypes /\ actions[i].config = "object"

-----------------------------------------------------------------------------
(* Values *)

Nullish(v) == v.kind \in {"undefined", "null"}

\* A part that is no member of an object may still be found: an item of a list,
\* a character of a text, a length, what a prototype has.
GetFieldValue(payload, field) ==
    LET Member(v, part) ==
            CASE Nullish(v) -> Undefined
              [] v.kind = "object" /\ part \in DOMAIN v.members -> v.members[part]
              [] OTHER -> Element(v, part)
        value[n \in 0..Len(field)] ==
            IF n = 0 THEN payload ELSE Member(value[n - 1], field[n])
    IN  value[Len(field)]

\* Two parsed lists or objects are never identical, but their texts decide.
LooseEquals(a, b) ==
    IF Nullish(a) \/ Nullish(b) THEN Nullish(a) /\ Nullish(b)
    ELSE IF "number" \in {a.kind, b.kind}
    THEN NumberOf(a) # {} /\ NumberOf(a) = NumberOf(b)
    ELSE TextOf(a) = TextOf(b)

Compare(a, b) ==
    IF NumberOf(a) # {} /\ NumberOf(b) # {}
    THEN (CHOOSE m \in NumberOf(a) : TRUE) - (CHOOSE n \in NumberOf(b) : TRUE)
    ELSE Collate(TextOf(a), TextOf(b))

ContainsValue(v, value) ==
    CASE v.kind = "list"   -> \E x \in Range(v.items) : LooseEquals(x, value)
      [] v.kind = "text"   -> Includes(TextOf(v), TextOf(value))
      [] v.kind = "object" -> \E x \in Range(v.members) : LooseEquals(x, value)
      [] OTHER -> FALSE

InArray(v, value) ==
    IF value.kind = "list" THEN \E x \in Range(value.items) : LooseEquals(v, x)
    ELSE LooseEquals(v, value)

-----------------------------------------------------------------------------
(* Evaluation *)

SimpleResult(operator, v, value) ==
    CASE operator = "=="         -> LooseEquals(v, value)
      [] operator = "!="         -> ~LooseEquals(v, value)
      [] operator = ">"          -> Compare(v, value) > 0
      [] operator = "<"          -> Compare(v, value) < 0
      [] operator = ">="         -> Compare(v, value) >= 0
      [] operator = "<="         -> Compare(v, value) <= 0
      [] operator = "contains"   -> ContainsValue(v, value)
      [] operator = "in"         -> InArray(v, value)
      [] operator = "startsWith" -> StartsWith(TextOf(v), TextOf(value))
      [] operator = "endsWith"   -> EndsWith(TextOf(v), TextOf(value))
      [] operator = "regex"      -> Matches(value, TextOf(v))

\* split is called on the field, and RegExp on the value of a regex.
Raises(leaf) == leaf.field = <<>> \/ (leaf.operator = "regex" /\ ~Compiles(leaf.value))

\* The EvaluationResult of a leaf: it throws, or has a result and its message.
EvaluateSimpleCondition(leaf, payload) ==
    [throws |-> Raises(leaf),
     result |-> ~Raises(leaf) /\ SimpleResult(leaf.operator,
                                  GetFieldValue(payload, leaf.field), leaf.value),
     messages |-> {leaf}]

\* Mutant: `all` stops at the first condition that fails, as && would.
CombineLazily(kind, results) ==
    LET Reached(i) == kind = "all" => \A j \in 1..(i - 1) : results[j].result
        some == \E i \in DOMAIN results : results[i].result
    IN  [throws |-> \E i \in DOMAIN results : Reached(i) /\ results[i].throws,
         result |-> CASE kind = "all" -> \A i \in DOMAIN results : results[i].result
                      [] kind = "any" -> some
                      [] kind = "not" -> ~some,
         messages |-> UNION {results[i].messages : i \in DOMAIN results}]

\* Mutant: a group that one condition fulfils is fulfilled.
CombineAsAny(kind, results) ==
    LET some == \E i \in DOMAIN results : results[i].result
    IN  [throws |-> \E i \in DOMAIN results : results[i].throws,
         result |-> IF kind = "not" THEN ~some ELSE some,
         messages |-> UNION {results[i].messages : i \in DOMAIN results}]

\* The result of a group.  map evaluates every condition of it before every or
\* some looks at the results, so one that throws makes the group throw.
\* messages are those of the leaves, which extractDetails reaches: the order it
\* meets them in, and how often, decides nothing.
Combine(kind, results) ==
    LET some == \E i \in DOMAIN results : results[i].result
    IN  [throws |-> \E i \in DOMAIN results : results[i].throws,
         result |-> CASE kind = "all" -> \A i \in DOMAIN results : results[i].result
                      [] kind = "any" -> some
                      [] kind = "not" -> ~some,
         messages |-> UNION {results[i].messages : i \in DOMAIN results}]

EvaluateConditionInternal[c \in Accepted] ==
    [payload \in Payloads |->
        CASE c.kind = "simple" -> EvaluateSimpleCondition(c, payload)
          [] c.kind = "not" ->
                Combine("not", <<EvaluateConditionInternal[c.sub][payload]>>)
          [] OTHER -> Combine(c.kind, [i \in DOMAIN c.subs |->
                EvaluateConditionInternal[c.subs[i]][payload]])]

\* "throws", "match" or "no match".
EvaluateConditions(c, payload) ==
    LET r == EvaluateConditionInternal[c][payload]
    IN  IF r.throws THEN "throws" ELSE IF r.result THEN "match" ELSE "no match"

\* Mutant: the outcome of the condition goes to all its leaves.
DetailsOfWhole(c, payload) ==
    LET r == EvaluateConditionInternal[c][payload]
    IN  [matched |-> IF r.result THEN r.messages ELSE {},
         failed  |-> IF r.result THEN {} ELSE r.messages]

GetEvaluationDetails(c, payload) ==
    LET leaves == EvaluateConditionInternal[c][payload].messages
        Holds(leaf) == EvaluateSimpleCondition(leaf, payload).result
    IN  [matched |-> {leaf \in leaves : Holds(leaf)},
         failed  |-> {leaf \in leaves : ~Holds(leaf)}]

-----------------------------------------------------------------------------
(* Descriptions *)

Word(w) == <<Token(w)>>

\* Mutant: every group reads as a conjunction.
JoinedWithAnd(texts, w) ==
    LET from[i \in 1..(Len(texts) + 1)] ==
            IF i > Len(texts) THEN Word(")")
            ELSE (IF i = 1 THEN <<>> ELSE Word("AND")) \o (texts[i] \o from[i + 1])
    IN  Word("(") \o from[1]

Joined(texts, w) ==
    LET from[i \in 1..(Len(texts) + 1)] ==
            IF i > Len(texts) THEN Word(")")
            ELSE (IF i = 1 THEN <<>> ELSE Word(w)) \o (texts[i] \o from[i + 1])
    IN  Word("(") \o from[1]

GenerateConditionDescription[c \in Accepted] ==
    LET subs == [i \in DOMAIN c.subs |-> GenerateConditionDescription[c.subs[i]]]
    IN  CASE c.kind = "all" -> Joined(subs, "AND")
          [] c.kind = "any" -> Joined(subs, "OR")
          [] c.kind = "not" ->
                Word("NOT (") \o (GenerateConditionDescription[c.sub] \o Word(")"))
          [] OTHER -> LeafText(c)

-----------------------------------------------------------------------------
(* The callers *)

Init == rule = NoRule /\ text = <<>> /\ answer = [op |-> "none"]

\* RulesService.createRule: conditionText is the one given, or generated.
CreateRule(c, actions) ==
    /\ rule = NoRule
    /\ IF Valid[c] /\ ValidActions(actions)
       THEN /\ rule' = c
            /\ text' \in {<<OwnText>>, GenerateConditionDescription[c]}
            /\ answer' = [op |-> "stored"]
       ELSE answer' = [op |-> "refused"] /\ UNCHANGED <<rule, text>>

\* RulesService.updateRule with conditions: a text of the user's own does not
\* survive.
UpdateRule(c, actions) ==
    /\ rule # NoRule
    /\ IF Valid[c] /\ (actions # Omitted => ValidActions(actions))
       THEN /\ rule' = c
            /\ text' = GenerateConditionDescription[c]
            /\ answer' = [op |-> "stored"]
       ELSE answer' = [op |-> "refused"] /\ UNCHANGED <<rule, text>>

\* Mutant: an error of the evaluation leaves the condition valid.
ValidateStructure(c, payload) ==
    /\ rule = NoRule
    /\ answer' =
         LET evaluated == Valid[c] /\ payload # NoPayload
             o == IF evaluated THEN EvaluateConditions(c, payload) ELSE "none"
         IN  [op |-> "preview", conditions |-> c, payload |-> payload,
              valid |-> Valid[c], outcome |-> o]
    /\ UNCHANGED <<rule, text>>

\* RulesController.validateConditions: an error of the evaluation makes the
\* condition invalid, but only when a payload came with it.  It needs no rule
\* and is asked before one is stored, to keep the state graph small.
ValidateConditions(c, payload) ==
    /\ rule = NoRule
    /\ answer' =
         LET evaluated == Valid[c] /\ payload # NoPayload
             o == IF evaluated THEN EvaluateConditions(c, payload) ELSE "none"
         IN  [op |-> "preview", conditions |-> c, payload |-> payload,
              valid |-> Valid[c] /\ o # "throws", outcome |-> o]
    /\ UNCHANGED <<rule, text>>

\* RulesService.testRule evaluates twice, the second time for the details.
TestRule(payload) ==
    /\ rule # NoRule
    /\ answer' =
         LET o == EvaluateConditions(rule, payload)
         IN  IF o = "throws" THEN [op |-> "error", payload |-> payload]
             ELSE [op |-> "tested", payload |-> payload, outcome |-> o,
                   details |-> GetEvaluationDetails(rule, payload)]
    /\ UNCHANGED <<rule, text>>

\* findMatchingRules: a rule whose evaluation throws is skipped.
FindMatchingRules(payload) ==
    /\ rule # NoRule
    /\ answer' = [op |-> "event", payload |-> payload,
                  fires |-> EvaluateConditions(rule, payload) = "match"]
    /\ UNCHANGED <<rule, text>>

Next ==
    \/ \E c \in Conditions, a \in Actions : CreateRule(c, a)
    \/ \E c \in Conditions, a \in Actions \cup {Omitted} : UpdateRule(c, a)
    \/ \E c \in Conditions, p \in Payloads \cup {NoPayload} : ValidateConditions(c, p)
    \/ \E p \in Payloads : TestRule(p)
    \/ \E p \in Payloads : FindMatchingRules(p)

Spec == Init /\ [][Next]_vars

-----------------------------------------------------------------------------
(* Reference definitions, written without the evaluator *)

\* A condition and all that is within it.
Within[c \in Accepted] == {c} \cup UNION {Within[d] : d \in Subs(c)}

LeavesOf(c) == {d \in Within[c] : d.kind = "simple"}

HasEmptyGroup(c) == \E d \in Within[c] : d.kind \in {"all", "any"} /\ d.subs = <<>>

\* The disjunctive normal form of a condition (sign TRUE), or of its negation: a
\* set of clauses, each a set of leaves with a sign.  A clause of a conjunction
\* unites one clause of each member.
Clauses[c \in Accepted] == [sign \in BOOLEAN |->
    CASE c.kind = "simple" -> {{[leaf |-> c, sign |-> sign]}}
      [] c.kind = "not"    -> Clauses[c.sub][~sign]
      [] c.kind = (IF sign THEN "all" ELSE "any") ->
            LET Of(i) == Clauses[c.subs[i]][sign]
                picks == {p \in [DOMAIN c.subs -> UNION {Of(i) : i \in DOMAIN c.subs}] :
                            \A i \in DOMAIN c.subs : p[i] \in Of(i)}
            IN  {UNION Range(p) : p \in picks}
      [] OTHER -> UNION {Clauses[c.subs[i]][sign] : i \in DOMAIN c.subs}]

\* What an event does with a rule is what the normal form of the rule says of
\* the leaves: some clause holds, and no leaf at all throws.  An empty `all`
\* has one empty clause and fires on every event; an empty `any` never fires.
RuleFiresByItsClauses ==
    answer.op = "event" =>
        (answer.fires <=>
            /\ \A leaf \in LeavesOf(rule) : ~Raises(leaf)
            /\ \E clause \in Clauses[rule][TRUE] : \A lit \in clause :
                   EvaluateSimpleCondition(lit.leaf, answer.payload).result = lit.sign)

\* A rule that was accepted fails at an event exactly when it has, anywhere, a
\* pattern that does not compile or a field that is no text, although `any` or
\* a failing `all` would not need that leaf: validation looks at neither.
OneBadLeafSilencesTheRule ==
    answer.op \in {"tested", "error"} =>
        (answer.op = "error" <=> \E leaf \in LeavesOf(rule) : Raises(leaf))

\* The details that POST /rules/:id/test returns explain its result: the lists
\* part the leaves, and with them alone the normal form gives the same answer.
DetailsExplainTheResult ==
    answer.op = "tested" =>
        LET d == answer.details
        IN  /\ d.matched \cap d.failed = {}
            /\ answer.outcome = "match" <=>
                 \E clause \in Clauses[rule][TRUE] : \A lit \in clause :
                     lit.leaf \in IF lit.sign THEN d.matched ELSE d.failed

\* The preview foretells what events will do with the rule.  Valid, with a
\* payload: the condition can be stored, no event makes it throw, and it says
\* match exactly when an event with that payload lets the rule fire.  Invalid:
\* the condition is refused, or it throws whatever the event brings.
PreviewForetellsTheEvent ==
    (answer.op = "preview" /\ answer.payload # NoPayload) =>
        LET c == answer.conditions
        IN  /\ answer.valid <=> Valid[c] /\ \A leaf \in LeavesOf(c) : ~Raises(leaf)
            /\ answer.valid =>
                 (answer.outcome = "match" <=>
                    \E clause \in Clauses[c][TRUE] : \A lit \in clause :
                        EvaluateSimpleCondition(lit.leaf, answer.payload).result = lit.sign)

\* No leaf of the condition can be read as anything else than itself, and no
\* group of it is empty: "()" stands for `all` and for `any`.
Legible(c) ==
    /\ ~HasEmptyGroup(c)
    /\ \A leaf \in LeavesOf(c) : LeafText(leaf) = <<leaf>>

\* The generated conditionText tells what the rule does: two legible conditions
\* with the same text, words without a tree, fire on the same payloads.
SameTextSameMeaning ==
    (answer.op = "event" /\ text # <<OwnText>> /\ Legible(rule)) =>
        \A c \in Accepted :
            (GenerateConditionDescription[c] = text /\ Legible(c)) =>
                answer.fires = (EvaluateConditions(c, answer.payload) = "match")
=============================================================================
