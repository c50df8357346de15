---------------------------- MODULE MCRuleEngine ----------------------------
(* A small instance of RuleEngine for TLC, with the JavaScript conversions   *)
(* of the values it uses.                                                    *)
EXTENDS RuleEngine, TLC

Num(n)  == [kind |-> "number", num |-> n]
Text(s) == [kind |-> "text", txt |-> s]
List(s) == [kind |-> "list", items |-> s]
Obj(m)  == [kind |-> "object", members |-> m]
Null    == [kind |-> "null"]

MCTextOf(v) ==
    CASE v.kind = "undefined" -> "undefined"
      [] v.kind = "null"      -> "null"
      [] v.kind = "number"    -> ToString(v.num)
      [] v.kind = "text"      -> v.txt
      [] v.kind = "object"    -> "[object Object]"
      [] v = List(<<Num(5), Text("u")>>) -> "5,u"
      [] v = List(<<Num(5), Null>>) -> "5,"

NumberOfText(s) ==
    CASE s = "" -> {0} [] s = "5" -> {5} [] s = "10" -> {10} [] OTHER -> {}

MCNumberOf(v) ==
    CASE v.kind = "undefined" -> {}
      [] v.kind = "null"      -> {0}
      [] v.kind = "number"    -> {v.num}
      [] OTHER -> NumberOfText(MCTextOf(v))

\* The texts of the instance in the order of localeCompare.
Alphabet == <<"", "[object Object]", "(", "0", "10", "5", "5,", "5,u", "null", "u",
              "undefined">>

\* Items by their index, characters by their position.
MCElement(v, part) ==
    LET i == CASE part = "0" -> 1 [] part = "1" -> 2 [] OTHER -> 0
    IN  CASE v.kind = "list" /\ i \in DOMAIN v.items -> v.items[i]
          [] v.kind = "text" /\ i \in 1..Len(v.txt)  -> Text(SubSeq(v.txt, i, i))
          [] OTHER -> Undefined

MCCollate(s, t) ==
    LET At(x) == CHOOSE i \in DOMAIN Alphabet : Alphabet[i] = x IN At(s) - At(t)

MCStartsWith(s, t) == Len(t) <= Len(s) /\ SubSeq(s, 1, Len(t)) = t
MCEndsWith(s, t)   == Len(t) <= Len(s) /\ SubSeq(s, Len(s) - Len(t) + 1, Len(s)) = t
MCIncludes(s, t)   == \E i \in 1..(Len(s) - Len(t) + 1) : SubSeq(s, i, i + Len(t) - 1) = t

\* The patterns of the instance mean their own text, or do not compile.
MCCompiles(v)   == MCTextOf(v) # "("
MCMatches(v, s) == MCCompiles(v) /\ MCIncludes(s, MCTextOf(v))

MCPayloads ==
    {Obj("amount" :> Num(10)),
     Obj("amount" :> Text("5")),
     Obj("amount" :> Null),
     Obj("amount" :> List(<<Num(5), Text("u")>>)),
     Obj("user" :> Obj("name" :> Text("u")) @@ "amount" :> Num(5))}

Simple(field, operator, value) ==
    [kind |-> "simple", field |-> field, operator |-> operator, value |-> value]

MCActions ==
    LET Action(t, c) == [type |-> t, config |-> c]
    IN  {<<Action("CALL_WEBHOOK", "object"), Action("SEND_EMAIL", "object")>>, <<>>,
         <<Action("CALL_WEBHOOK", "none")>>, <<Action("MULTI_WEBHOOK", "object")>>}

\* Every operator on fields that are there, nested, within a list or a text, or
\* missing, as each is in some payload.
Leaves ==
    {Simple(f, o, v) : f \in {<<"amount">>, <<"user", "name">>, <<"amount", "0">>},
                       o \in Operators,
                       v \in {Num(5), Text("u"), Null, List(<<Num(5), Null>>)}}

Good == Simple(<<"amount">>, ">", Num(5))
Has  == Simple(<<"user", "name">>, "==", Text("u"))
Bad  == Simple(<<"amount">>, "regex", Text("("))
Odd  == Simple(<<>>, "==", Null)
Trap == Simple(<<"amount > 5 AND user", "name">>, "==", Text("u"))

\* Trap reads as two leaves; the field of Odd is the list ["amount"].
MCLeafText(leaf) ==
    CASE leaf = Trap -> <<Good, Token("AND"), Has>>
      [] leaf = Odd  -> <<Simple(<<"amount">>, "==", Null)>>
      [] OTHER       -> <<leaf>>

Group(kind, subs) == [kind |-> kind, subs |-> subs]
Not(c) == [kind |-> "not", sub |-> c]

Pairs(S) == {<<>>} \cup {<<x>> : x \in S} \cup {<<x, y>> : x \in S, y \in S}

Groups(S) == {Group(k, subs) : k \in {"all", "any"}, subs \in Pairs(S)}

Shallow == Groups({Good, Has, Bad, Odd}) \cup {Not(c) : c \in {Good, Bad}}
           \cup Groups({Trap})

Deep == Groups({Good, Not(Has), Group("any", <<Good, Has>>), Group("all", <<>>),
                Group("any", <<>>)})
        \cup {Not(c) : c \in Groups({Good, Has})}

Malformed ==
    {Simple(<<"amount">>, "~=", Null), Group("all", NotArray), Group("any", <<Good, [kind |-> "other"]>>),
     Not([kind |-> "other"]), [kind |-> "other"],
     [kind |-> "simple", field |-> <<"amount">>, operator |-> ">"],
     [kind |-> "simple", operator |-> ">", value |-> Null]}

\* Every part of a condition is a condition as well.
Parts ==
    {Good, Has, Bad, Odd, Trap, [kind |-> "other"], Not(Has), Group("any", <<Good, Has>>)}

MCConditions == Leaves \cup Shallow \cup Deep \cup Malformed \cup Parts

RECURSIVE MCDepth(_)
MCDepth(c) ==
    LET under == {MCDepth(d) : d \in Subs(c)}
    IN  IF under = {} THEN 0 ELSE 1 + CHOOSE n \in under : \A m \in under : m <= n
=============================================================================
