------------------------- MODULE RuleEngineProofs -------------------------
(***************************************************************************)
(* Theorems about RuleEngine, for every finite condition, every payload    *)
(* and whatever String, Number, localeCompare and RegExp return.           *)
(*                                                                         *)
(* The operators of the module are functions defined by recursion over the *)
(* conditions, and its properties compare one recursion with another.  So  *)
(* the module begins with induction and recursion over a set whose         *)
(* elements have a size, stated of sets and functions; each function of    *)
(* RuleEngine is then shown to obey its recursion (the lemmas named        *)
(* ...Unfolds), and two of them are compared by induction over conditions. *)
(* The invariant of the state machine is at the end of that.               *)
(***************************************************************************)
EXTENDS RuleEngine, SequenceTheorems, WellFoundedInduction, TLAPS

-----------------------------------------------------------------------------
(* Induction and recursion over sets of any kind *)

\* A set of natural numbers has a least element.
LEMMA LeastNat ==
    ASSUME NEW S \in SUBSET Nat, S # {}
    PROVE  \E n \in S : \A m \in S : n <= m
<1>1. IsWellFoundedOn(OpToRel(<,Nat), Nat)
  BY NatLessThanWellFounded
<1>2. \E n \in S : \A m \in S : ~ (<<m, n>> \in OpToRel(<,Nat))
  BY <1>1, WFMin
<1>3. \A m, n \in Nat : m < n => <<m, n>> \in OpToRel(<,Nat)
  BY DEF OpToRel
<1>4. PICK n \in S : \A m \in S : ~ (<<m, n>> \in OpToRel(<,Nat))
  BY <1>2
<1>5. \A m \in S : ~(m < n)
  <2> HIDE DEF OpToRel
  <2> QED BY <1>3, <1>4
<1> QED BY <1>5

\* Every element of D has smaller ones below it, and those are in D.
Smaller(D, below, size) == \A d \in D : \A e \in below[d] : e \in D /\ size[e] < size[d]

\* The step gives an element its value from the values below it.
Steps(step, D, below, T) == \A d \in D : \A g \in [below[d] -> T] : step[d][g] \in T

\* The values of f are those the step gives.
Follows(f, step, D, below, T) ==
    \A d \in D : \A g \in [below[d] -> T] :
        (\A e \in below[d] : g[e] = f[e]) => f[d] = step[d][g]

\* A set with every element whose smaller ones below it are in the set has all.
LEMMA Induction ==
    ASSUME NEW D, NEW size \in [D -> Nat], NEW below, Smaller(D, below, size),
           NEW S, \A d \in D : below[d] \subseteq S => d \in S
    PROVE D \subseteq S
<1> SUFFICES ASSUME D \ S # {} PROVE FALSE
  OBVIOUS
<1> DEFINE N == {size[d] : d \in D \ S}
<1>1. N \in SUBSET Nat /\ N # {}
  OBVIOUS
<1>2. PICK n \in N : \A m \in N : n <= m
  BY <1>1, LeastNat
<1>3. PICK d \in D \ S : n = size[d]
  BY <1>2
<1>4. below[d] \subseteq S
  <2> SUFFICES ASSUME NEW e \in below[d], e \notin S PROVE FALSE
    OBVIOUS
  <2>1. e \in D /\ size[e] < size[d] /\ size[e] \in Nat /\ size[d] \in Nat
    BY <1>3 DEF Smaller
  <2>2. n <= size[e]
    BY <2>1, <1>2
  <2> QED BY <2>1, <2>2, <1>3
<1> QED BY <1>3, <1>4

\* Where every element has smaller ones below it, a step that gives an element its
\* value from the values below it defines a function.  G is the graph of that
\* function: the least relation that the step does not lead out of.
LEMMA Recursion ==
    ASSUME NEW D, NEW size \in [D -> Nat], NEW below, Smaller(D, below, size),
           NEW T, NEW step, Steps(step, D, below, T)
    PROVE  \E f \in [D -> T] : Follows(f, step, D, below, T)
<1> DEFINE Closed(R) == \A d \in D : \A g \in [below[d] -> T] :
                (\A e \in below[d] : <<e, g[e]>> \in R) => <<d, step[d][g]>> \in R
           G == {x \in D \X T : \A R \in SUBSET (D \X T) : Closed(R) => x \in R}
           S == {d \in D : \E t \in T : \A u \in T : <<d, u>> \in G <=> u = t}
<1>1. Closed(G)
  BY DEF Steps
<1>2. \A R \in SUBSET (D \X T) : Closed(R) => G \subseteq R
  OBVIOUS
<1>3. G \in SUBSET (D \X T)
  OBVIOUS
<1> HIDE DEF G
<1>4. ASSUME NEW d \in D, below[d] \subseteq S
      PROVE  d \in S
  <2> DEFINE g == [e \in below[d] |-> CHOOSE t \in T : <<e, t>> \in G]
             t == step[d][g]
  <2>1. ASSUME NEW e \in below[d]
        PROVE  g[e] \in T /\ \A u \in T : <<e, u>> \in G <=> u = g[e]
    <3>1. PICK t1 \in T : \A u \in T : <<e, u>> \in G <=> u = t1
      BY <1>4
    <3>2. t1 = CHOOSE t2 \in T : <<e, t2>> \in G
      BY <3>1
    <3> QED BY <3>1, <3>2
  <2>2. g \in [below[d] -> T]
    BY <2>1
  <2>3. \A e \in below[d] : <<e, g[e]>> \in G
    BY <2>1
  <2>4. t \in T /\ <<d, t>> \in G
    BY <2>2, <2>3, <1>1 DEF Steps
  <2>5. ASSUME NEW u \in T, u # t
        PROVE  <<d, u>> \notin G
    <3> DEFINE R == G \ {<<d, u>>}
    <3>1. Closed(R)
      <4> SUFFICES ASSUME NEW c \in D, NEW h \in [below[c] -> T],
                          \A e \in below[c] : <<e, h[e]>> \in R
                   PROVE  <<c, step[c][h]>> \in R
        OBVIOUS
      <4>1. <<c, step[c][h]>> \in G
        BY <1>1
      <4>2. CASE c = d
        <5>1. \A e \in below[d] : h[e] = g[e]
          BY <2>1, <4>2
        <5>2. h = g
          BY <5>1, <4>2
        <5> QED BY <5>2, <4>1, <4>2, <2>5
      <4>3. CASE c # d
        BY <4>1, <4>3
      <4> QED BY <4>2, <4>3
    <3>2. R \in SUBSET (D \X T)
      BY <1>3
    <3> HIDE DEF R
    <3>3. <<d, u>> \in G => <<d, u>> \in R
      BY <3>1, <3>2, <1>2
    <3> QED BY <3>3 DEF R
  <2> QED BY <2>4, <2>5
<1>5. D \subseteq S
  <2> HIDE DEF S
  <2> QED BY <1>4, Induction
<1> DEFINE f == [d \in D |-> CHOOSE t \in T : <<d, t>> \in G]
<1>6. ASSUME NEW d \in D
      PROVE  f[d] \in T /\ \A u \in T : <<d, u>> \in G <=> u = f[d]
  <2>1. PICK t1 \in T : \A u \in T : <<d, u>> \in G <=> u = t1
    BY <1>5
  <2>2. t1 = CHOOSE t2 \in T : <<d, t2>> \in G
    BY <2>1
  <2> QED BY <2>1, <2>2
<1>7. ASSUME NEW d \in D, NEW g \in [below[d] -> T], \A e \in below[d] : g[e] = f[e]
      PROVE  f[d] = step[d][g]
  <2>1. \A e \in below[d] : <<e, g[e]>> \in G
    <3>1. \A e \in below[d] : e \in D /\ g[e] \in T /\ g[e] = f[e]
      BY <1>7 DEF Smaller
    <3> HIDE DEF f
    <3> QED BY <3>1, <1>6
  <2>2. step[d][g] \in T /\ <<d, step[d][g]>> \in G
    BY <2>1, <1>1 DEF Steps
  <2> QED BY <2>2, <1>6
<1> HIDE DEF f
<1>8. f \in [D -> T]
  BY <1>6 DEF f
<1> QED BY <1>7, <1>8 DEF Follows
-----------------------------------------------------------------------------
(* Conditions *)

PartsOf == [c \in Conditions |-> Subs(c)]
DepthOf == [c \in Conditions |-> Depth(c)]

\* A part of a condition is less deep than the condition.
LEMMA PartsAreSmaller ==
    /\ DepthOf \in [Conditions -> Nat]
    /\ Smaller(Conditions, PartsOf, DepthOf)
BY RuleEngineAssumption DEF Smaller, DepthOf, PartsOf

\* A set that has every condition whose parts it has, has them all.
LEMMA ConditionInduction ==
    ASSUME NEW S, \A c \in Conditions : Subs(c) \subseteq S => c \in S
    PROVE  Conditions \subseteq S
<1>1. \A c \in Conditions : PartsOf[c] \subseteq S => c \in S
  BY DEF PartsOf
<1> QED BY <1>1, PartsAreSmaller, Induction

\* The parts of a group, by their indices.
LEMMA SubsOfGroup ==
    ASSUME NEW c \in Conditions, c.kind \in {"all", "any"}, c.subs # NotArray
    PROVE  /\ c.subs \in Seq(Conditions)
           /\ Subs(c) = {c.subs[i] : i \in DOMAIN c.subs}
BY RuleEngineAssumption DEF Subs, Range

\* The one part of a negation.
LEMMA SubsOfNot ==
    ASSUME NEW c \in Conditions, c.kind = "not"
    PROVE  Subs(c) = {c.sub} /\ c.sub \in Conditions
BY RuleEngineAssumption DEF Subs

\* What validation says of a condition in terms of its parts.
ValidStep(c, g) ==
    CASE c.kind \in {"all", "any"} ->
            /\ c.subs # NotArray
            /\ \A i \in DOMAIN c.subs : g[c.subs[i]]
      [] c.kind = "not" -> g[c.sub]
      [] c.kind = "simple" ->
            /\ {"field", "operator", "value"} \subseteq DOMAIN c
            /\ c.operator \in Operators
      [] OTHER -> FALSE

\* Valid is a function into the truth values that obeys its recursion.
LEMMA ValidUnfolds ==
    Valid \in [Conditions -> BOOLEAN] /\ \A c \in Conditions : Valid[c] = ValidStep(c, Valid)
<1> DEFINE step == [c \in Conditions |-> [g \in [Subs(c) -> BOOLEAN] |-> ValidStep(c, g)]]
<1>1. \A c \in Conditions : PartsOf[c] = Subs(c) /\ Subs(c) \subseteq Conditions
  BY RuleEngineAssumption DEF PartsOf
<1>2. ASSUME NEW c \in Conditions, NEW g \in [Subs(c) -> BOOLEAN]
      PROVE  step[c][g] \in BOOLEAN
  <2>1. CASE c.kind \in {"all", "any"}
    BY <2>1 DEF ValidStep
  <2>2. CASE c.kind = "not"
    BY <2>2, SubsOfNot DEF ValidStep
  <2>3. CASE c.kind = "simple"
    BY <2>3 DEF ValidStep
  <2>4. CASE c.kind \notin {"all", "any", "not", "simple"}
    BY <2>4 DEF ValidStep
  <2> QED BY <2>1, <2>2, <2>3, <2>4
<1> HIDE DEF step
<1>3. Steps(step, Conditions, PartsOf, BOOLEAN)
  BY <1>1, <1>2 DEF Steps
<1>4. PICK f \in [Conditions -> BOOLEAN] : Follows(f, step, Conditions, PartsOf, BOOLEAN)
  BY <1>3, PartsAreSmaller, Recursion
<1>5. ASSUME NEW c \in Conditions
      PROVE  f[c] = ValidStep(c, f)
  <2> DEFINE g == [d \in Subs(c) |-> f[d]]
  <2>1. g \in [Subs(c) -> BOOLEAN]
    BY <1>1
  <2>2. f[c] = ValidStep(c, g)
    BY <1>4, <1>1, <2>1 DEF step, Follows
  <2>3. ValidStep(c, g) = ValidStep(c, f)
    <3>1. CASE c.kind \in {"all", "any"} /\ c.subs # NotArray
      <4>1. \A i \in DOMAIN c.subs : c.subs[i] \in Subs(c)
        BY <3>1, SubsOfGroup
      <4>2. \A i \in DOMAIN c.subs : g[c.subs[i]] = f[c.subs[i]]
        BY <4>1
      <4> HIDE DEF g
      <4> QED BY <3>1, <4>2 DEF ValidStep
    <3>2. CASE c.kind = "not"
      BY <3>2, SubsOfNot DEF ValidStep
    <3>3. CASE c.kind \in {"all", "any"} /\ c.subs = NotArray
      BY <3>3 DEF ValidStep
    <3>4. CASE c.kind \notin {"all", "any", "not"}
      BY <3>4 DEF ValidStep
    <3> QED BY <3>1, <3>2, <3>3, <3>4
  <2> QED BY <2>2, <2>3
<1>6. f = [c \in Conditions |-> ValidStep(c, f)]
  BY <1>5
<1>7. Valid = [c \in Conditions |-> ValidStep(c, Valid)]
  BY <1>6 DEF Valid, ValidStep
<1>8. \A c \in Conditions : Valid[c] = ValidStep(c, Valid)
  BY <1>7
<1> DEFINE S == {c \in Conditions : Valid[c] \in BOOLEAN}
<1>9. ASSUME NEW c \in Conditions, Subs(c) \subseteq S
      PROVE  c \in S
  <2>1. CASE c.kind \in {"all", "any"}
    BY <2>1, <1>8 DEF ValidStep
  <2>2. CASE c.kind = "not"
    BY <2>2, <1>8, <1>9, SubsOfNot DEF ValidStep
  <2>3. CASE c.kind = "simple"
    BY <2>3, <1>8 DEF ValidStep
  <2>4. CASE c.kind \notin {"all", "any", "not", "simple"}
    BY <2>4, <1>8 DEF ValidStep
  <2> QED BY <2>1, <2>2, <2>3, <2>4
<1>10. Conditions \subseteq S
  BY <1>9, ConditionInduction
<1>11. Valid \in [Conditions -> BOOLEAN]
  BY <1>7, <1>10
<1> QED BY <1>8, <1>11
-----------------------------------------------------------------------------
(* Accepted conditions *)

\* The members of a group that was accepted were accepted.
LEMMA AcceptedGroup ==
    ASSUME NEW c \in Accepted, c.kind \in {"all", "any"}
    PROVE  /\ c.subs \in Seq(Accepted)
           /\ Subs(c) = {c.subs[i] : i \in DOMAIN c.subs}
           /\ \A i \in DOMAIN c.subs : c.subs[i] \in Accepted /\ c.subs[i] \in Subs(c)
<1>1. c \in Conditions /\ ValidStep(c, Valid)
  BY ValidUnfolds DEF Accepted
<1>2. c.subs # NotArray /\ \A i \in DOMAIN c.subs : Valid[c.subs[i]]
  BY <1>1 DEF ValidStep
<1>3. c.subs \in Seq(Conditions) /\ Subs(c) = {c.subs[i] : i \in DOMAIN c.subs}
  BY <1>1, <1>2, SubsOfGroup
<1>4. \A i \in DOMAIN c.subs : c.subs[i] \in Accepted
  BY <1>2, <1>3 DEF Accepted
<1>5. c.subs \in Seq(Accepted)
  BY <1>3, <1>4
<1> QED BY <1>3, <1>4, <1>5

\* So was what an accepted negation negates.
LEMMA AcceptedNot ==
    ASSUME NEW c \in Accepted, c.kind = "not"
    PROVE  Subs(c) = {c.sub} /\ c.sub \in Accepted
<1>1. c \in Conditions /\ ValidStep(c, Valid)
  BY ValidUnfolds DEF Accepted
<1>2. Valid[c.sub]
  BY <1>1 DEF ValidStep
<1> QED BY <1>1, <1>2, SubsOfNot DEF Accepted

\* An accepted condition without parts is a leaf with an operator of the engine.
LEMMA AcceptedSimple ==
    ASSUME NEW c \in Accepted, c.kind \notin {"all", "any", "not"}
    PROVE  /\ c.kind = "simple" /\ Subs(c) = {}
           /\ c.field \in Seq(STRING) /\ c.operator \in Operators
<1>1. c \in Conditions /\ ValidStep(c, Valid)
  BY ValidUnfolds DEF Accepted
<1>2. c.kind = "simple" /\ "field" \in DOMAIN c /\ c.operator \in Operators
  BY <1>1 DEF ValidStep
<1> QED BY <1>1, <1>2, RuleEngineAssumption DEF Subs

\* Validation looks at every part: those of an accepted condition are accepted.
LEMMA AcceptedParts ==
    ASSUME NEW c \in Accepted
    PROVE  Subs(c) \subseteq Accepted
<1>1. CASE c.kind \in {"all", "any"}
  BY <1>1, AcceptedGroup
<1>2. CASE c.kind = "not"
  BY <1>2, AcceptedNot
<1>3. CASE c.kind \notin {"all", "any", "not"}
  BY <1>3, AcceptedSimple
<1> QED BY <1>1, <1>2, <1>3

\* Parts that were accepted are less deep.
LEMMA AcceptedAreSmaller ==
    /\ Accepted \subseteq Conditions
    /\ [c \in Accepted |-> Depth(c)] \in [Accepted -> Nat]
    /\ Smaller(Accepted, PartsOf, [c \in Accepted |-> Depth(c)])
    /\ \A c \in Accepted : PartsOf[c] = Subs(c)
<1>1. Accepted \subseteq Conditions
  BY DEF Accepted
<1> QED BY <1>1, AcceptedParts, RuleEngineAssumption DEF Smaller, PartsOf

\* A set that has every accepted condition whose parts it has, has them all.
LEMMA AcceptedInduction ==
    ASSUME NEW S, \A c \in Accepted : Subs(c) \subseteq S => c \in S
    PROVE  Accepted \subseteq S
<1>1. \A c \in Accepted : PartsOf[c] \subseteq S => c \in S
  BY AcceptedAreSmaller
<1> QED BY <1>1, AcceptedAreSmaller, Induction

\* The step leads from values of the parts to one of the condition.
StepsUp(step, T) == \A c \in Accepted : \A g \in [Subs(c) -> T] : step[c][g] \in T

\* f has at a condition what the step makes of its values at the parts.
Climbs(f, step, T) ==
    \A c \in Accepted : \E g \in [Subs(c) -> T] :
        (\A d \in Subs(c) : g[d] = f[d]) /\ f[c] = step[c][g]

\* Recursion over the accepted conditions: every such step has a function.
LEMMA AcceptedRecursion ==
    ASSUME NEW T, NEW step, StepsUp(step, T)
    PROVE  \E f \in [Accepted -> T] : Climbs(f, step, T)
<1>1. Steps(step, Accepted, PartsOf, T)
  BY AcceptedAreSmaller DEF Steps, StepsUp
<1>2. PICK f \in [Accepted -> T] : Follows(f, step, Accepted, PartsOf, T)
  BY <1>1, AcceptedAreSmaller, Recursion
<1>3. ASSUME NEW c \in Accepted
      PROVE  \E g \in [Subs(c) -> T] : (\A d \in Subs(c) : g[d] = f[d]) /\ f[c] = step[c][g]
  <2>1. PICK g : g = [d \in Subs(c) |-> f[d]]
    OBVIOUS
  <2>2. g \in [Subs(c) -> T] /\ \A d \in Subs(c) : g[d] = f[d]
    BY <2>1, AcceptedParts
  <2>3. f[c] = step[c][g]
    BY <1>2, <2>2, AcceptedAreSmaller DEF Follows
  <2> QED BY <2>2, <2>3
<1> QED BY <1>2, <1>3 DEF Climbs

-----------------------------------------------------------------------------
(* What is within a condition *)

WithinStep(c, g) == {c} \cup UNION {g[d] : d \in Subs(c)}

\* Within obeys its recursion, and stays among the accepted conditions.
LEMMA WithinUnfolds ==
    /\ Within \in [Accepted -> SUBSET Accepted]
    /\ \A c \in Accepted : Within[c] = {c} \cup UNION {Within[d] : d \in Subs(c)}
<1> DEFINE T == SUBSET Accepted
           step == [c \in Accepted |-> [g \in [Subs(c) -> T] |-> WithinStep(c, g)]]
<1>1. ASSUME NEW c \in Accepted, NEW g \in [Subs(c) -> T]
      PROVE  step[c][g] \in T
  <2>1. WithinStep(c, g) \subseteq Accepted
    BY AcceptedParts DEF WithinStep
  <2> QED BY <2>1
<1>2. ASSUME NEW c \in Accepted, NEW g, NEW h, \A d \in Subs(c) : g[d] = h[d]
      PROVE  WithinStep(c, g) = WithinStep(c, h)
  BY <1>2 DEF WithinStep
<1> HIDE DEF step
<1>3. StepsUp(step, T)
  BY <1>1 DEF StepsUp
<1> HIDE DEF T
<1>4. PICK f \in [Accepted -> T] : Climbs(f, step, T)
  BY <1>3, AcceptedRecursion
<1>5. ASSUME NEW c \in Accepted
      PROVE  f[c] = WithinStep(c, f)
  <2>1. PICK g \in [Subs(c) -> T] : (\A d \in Subs(c) : g[d] = f[d]) /\ f[c] = step[c][g]
    BY <1>4 DEF Climbs
  <2>2. f[c] = WithinStep(c, g)
    BY <2>1 DEF step
  <2> QED BY <1>2, <2>1, <2>2
<1>6. f = [c \in Accepted |-> WithinStep(c, f)]
  BY <1>5
<1>7. Within = [c \in Accepted |-> WithinStep(c, Within)]
  BY <1>6 DEF Within, WithinStep
<1>8. \A c \in Accepted : Within[c] = WithinStep(c, Within)
  BY <1>7
<1> DEFINE S == {c \in Accepted : Within[c] = f[c]}
<1>9. ASSUME NEW c \in Accepted, Subs(c) \subseteq S
      PROVE  c \in S
  BY <1>2, <1>5, <1>8, <1>9
<1>10. Accepted \subseteq S
  BY <1>9, AcceptedInduction
<1>11. Within = f
  BY <1>7, <1>10
<1> QED BY <1>8, <1>11 DEF T, WithinStep
-----------------------------------------------------------------------------
(* Evaluation *)

Results == [throws : BOOLEAN, result : BOOLEAN, messages : SUBSET Accepted]

\* A leaf throws, or has a result.
LEMMA SimpleIsResult ==
    ASSUME NEW leaf \in Accepted, NEW payload
    PROVE  EvaluateSimpleCondition(leaf, payload) \in Results
<1>1. Raises(leaf) \in BOOLEAN
  BY DEF Raises
<1>2. (~Raises(leaf) /\ SimpleResult(leaf.operator,
                           GetFieldValue(payload, leaf.field), leaf.value)) \in BOOLEAN
  OBVIOUS
<1>3. {leaf} \in SUBSET Accepted
  OBVIOUS
<1> QED BY <1>1, <1>2, <1>3 DEF EvaluateSimpleCondition, Results

\* A leaf throws as Raises says, and its message is its own.
LEMMA SimpleFields ==
    ASSUME NEW leaf, NEW payload
    PROVE  /\ EvaluateSimpleCondition(leaf, payload).throws = Raises(leaf)
           /\ EvaluateSimpleCondition(leaf, payload).messages = {leaf}
<1>1. PICK r : r = (~Raises(leaf) /\ SimpleResult(leaf.operator,
                           GetFieldValue(payload, leaf.field), leaf.value))
  OBVIOUS
<1>2. PICK t : t = Raises(leaf)
  OBVIOUS
<1>3. EvaluateSimpleCondition(leaf, payload) = [throws |-> t, result |-> r, messages |-> {leaf}]
  BY <1>1, <1>2 DEF EvaluateSimpleCondition
<1> QED BY <1>2, <1>3

\* What Combine makes of the results of the members.
LEMMA CombineResult ==
    ASSUME NEW kind \in {"all", "any", "not"}, NEW results,
           \A i \in DOMAIN results : results[i] \in Results
    PROVE  /\ Combine(kind, results) \in Results
           /\ Combine(kind, results).throws <=> \E i \in DOMAIN results : results[i].throws
           /\ kind = "all" =>
                (Combine(kind, results).result <=> \A i \in DOMAIN results : results[i].result)
           /\ kind = "any" =>
                (Combine(kind, results).result <=> \E i \in DOMAIN results : results[i].result)
           /\ kind = "not" =>
                (Combine(kind, results).result <=> ~ \E i \in DOMAIN results : results[i].result)
           /\ Combine(kind, results).messages =
                UNION {results[i].messages : i \in DOMAIN results}
<1>1. PICK t \in BOOLEAN : t = \E i \in DOMAIN results : results[i].throws
  OBVIOUS
<1>2. PICK r \in BOOLEAN :
         r = CASE kind = "all" -> \A i \in DOMAIN results : results[i].result
               [] kind = "any" -> \E i \in DOMAIN results : results[i].result
               [] kind = "not" -> ~ \E i \in DOMAIN results : results[i].result
  <2>1. CASE kind = "all"
    BY <2>1
  <2>2. CASE kind = "any"
    BY <2>2
  <2>3. CASE kind = "not"
    BY <2>3
  <2> QED BY <2>1, <2>2, <2>3
<1>3. PICK m \in SUBSET Accepted : m = UNION {results[i].messages : i \in DOMAIN results}
  BY DEF Results
<1>4. Combine(kind, results) = [throws |-> t, result |-> r, messages |-> m]
  BY <1>1, <1>2, <1>3 DEF Combine
<1>5. Combine(kind, results) \in Results
  BY <1>4 DEF Results
<1>6. Combine(kind, results).throws = t /\ Combine(kind, results).result = r
      /\ Combine(kind, results).messages = m
  BY <1>4
<1> HIDE DEF Combine
<1>7. kind = "all" => (r <=> \A i \in DOMAIN results : results[i].result)
  BY <1>2
<1>8. kind = "any" => (r <=> \E i \in DOMAIN results : results[i].result)
  BY <1>2
<1>9. kind = "not" => (r <=> ~ \E i \in DOMAIN results : results[i].result)
  BY <1>2
<1> QED BY <1>1, <1>3, <1>5, <1>6, <1>7, <1>8, <1>9

EvaluationStep(c, g) ==
    [payload \in Payloads |->
        CASE c.kind = "simple" -> EvaluateSimpleCondition(c, payload)
          [] c.kind = "not" -> Combine("not", <<g[c.sub][payload]>>)
          [] OTHER -> Combine(c.kind, [i \in DOMAIN c.subs |-> g[c.subs[i]][payload]])]

Evaluation == EvaluateConditionInternal

\* The evaluator has a result for every accepted condition and payload, and obeys
\* its recursion.
LEMMA EvaluationUnfolds ==
    /\ Evaluation \in [Accepted -> [Payloads -> Results]]
    /\ \A c \in Accepted : Evaluation[c] = EvaluationStep(c, Evaluation)
<1> DEFINE T == [Payloads -> Results]
           step == [c \in Accepted |-> [g \in [Subs(c) -> T] |-> EvaluationStep(c, g)]]
<1>1. ASSUME NEW c \in Accepted, NEW g \in [Subs(c) -> T]
      PROVE  step[c][g] \in T
  <2>1. ASSUME NEW payload \in Payloads
        PROVE  EvaluationStep(c, g)[payload] \in Results
    <3>1. CASE c.kind \in {"all", "any"}
      <4>1. PICK rs : rs = [i \in DOMAIN c.subs |-> g[c.subs[i]][payload]]
        OBVIOUS
      <4>2. \A i \in DOMAIN rs : rs[i] \in Results
        BY <3>1, <4>1, AcceptedGroup
      <4>3. EvaluationStep(c, g)[payload] = Combine(c.kind, rs)
        BY <3>1, <4>1 DEF EvaluationStep
      <4> QED BY <3>1, <4>2, <4>3, CombineResult
    <3>2. CASE c.kind = "not"
      <4>1. PICK rs : rs = <<g[c.sub][payload]>>
        OBVIOUS
      <4>2. \A i \in DOMAIN rs : rs[i] \in Results
        BY <3>2, <4>1, AcceptedNot
      <4>3. EvaluationStep(c, g)[payload] = Combine("not", rs)
        BY <3>2, <4>1 DEF EvaluationStep
      <4> QED BY <4>2, <4>3, CombineResult
    <3>3. CASE c.kind \notin {"all", "any", "not"}
      <4>1. c.kind = "simple"
        BY <3>3, AcceptedSimple
      <4>2. EvaluationStep(c, g)[payload] = EvaluateSimpleCondition(c, payload)
        BY <4>1 DEF EvaluationStep
      <4> QED BY <4>2, SimpleIsResult
    <3> QED BY <3>1, <3>2, <3>3
  <2>2. EvaluationStep(c, g) = [payload \in Payloads |-> EvaluationStep(c, g)[payload]]
    BY DEF EvaluationStep
  <2>3. EvaluationStep(c, g) \in T
    BY <2>1, <2>2
  <2> QED BY <2>3
<1>2. ASSUME NEW c \in Accepted, NEW g, NEW h, \A d \in Subs(c) : g[d] = h[d]
      PROVE  EvaluationStep(c, g) = EvaluationStep(c, h)
  <2>1. CASE c.kind \in {"all", "any"}
    <3>1. \A i \in DOMAIN c.subs : g[c.subs[i]] = h[c.subs[i]]
      BY <1>2, <2>1, AcceptedGroup
    <3> QED BY <2>1, <3>1 DEF EvaluationStep
  <2>2. CASE c.kind = "not"
    <3>1. g[c.sub] = h[c.sub]
      BY <1>2, <2>2, AcceptedNot
    <3> QED BY <2>2, <3>1 DEF EvaluationStep
  <2>3. CASE c.kind \notin {"all", "any", "not"}
    <3>1. c.kind = "simple"
      BY <2>3, AcceptedSimple
    <3> QED BY <3>1 DEF EvaluationStep
  <2> QED BY <2>1, <2>2, <2>3
<1> HIDE DEF step
<1>3. StepsUp(step, T)
  BY <1>1 DEF StepsUp
<1> HIDE DEF T
<1>4. PICK f \in [Accepted -> T] : Climbs(f, step, T)
  BY <1>3, AcceptedRecursion
<1>5. ASSUME NEW c \in Accepted
      PROVE  f[c] = EvaluationStep(c, f)
  <2>1. PICK g \in [Subs(c) -> T] : (\A d \in Subs(c) : g[d] = f[d]) /\ f[c] = step[c][g]
    BY <1>4 DEF Climbs
  <2>2. f[c] = EvaluationStep(c, g)
    BY <2>1 DEF step
  <2> QED BY <1>2, <2>1, <2>2
<1>6. f = [c \in Accepted |-> EvaluationStep(c, f)]
  BY <1>5
<1>7. Evaluation = [c \in Accepted |-> EvaluationStep(c, Evaluation)]
  BY <1>6 DEF Evaluation, EvaluateConditionInternal, EvaluationStep
<1>8. \A c \in Accepted : Evaluation[c] = EvaluationStep(c, Evaluation)
  BY <1>7
<1> DEFINE S == {c \in Accepted : Evaluation[c] = f[c]}
<1>9. ASSUME NEW c \in Accepted, Subs(c) \subseteq S
      PROVE  c \in S
  BY <1>2, <1>5, <1>8, <1>9
<1>10. Accepted \subseteq S
  BY <1>9, AcceptedInduction
<1>11. Evaluation = f
  BY <1>7, <1>10
<1> QED BY <1>8, <1>11 DEF T

\* What the result of a condition is, by its kind.
LEMMA EvaluationOfSimple ==
    ASSUME NEW c \in Accepted, c.kind \notin {"all", "any", "not"}, NEW p \in Payloads
    PROVE  Evaluation[c][p] = EvaluateSimpleCondition(c, p)
BY EvaluationUnfolds, AcceptedSimple DEF EvaluationStep

\* A negation turns the result over and nothing else.
LEMMA EvaluationOfNot ==
    ASSUME NEW c \in Accepted, c.kind = "not", NEW p \in Payloads
    PROVE  /\ Evaluation[c][p].throws = Evaluation[c.sub][p].throws
           /\ Evaluation[c][p].result = ~Evaluation[c.sub][p].result
           /\ Evaluation[c][p].messages = Evaluation[c.sub][p].messages
<1>1. PICK rs : rs = <<Evaluation[c.sub][p]>>
  OBVIOUS
<1>2. c.sub \in Accepted /\ Evaluation[c.sub][p] \in Results
  BY AcceptedNot, EvaluationUnfolds
<1>3. DOMAIN rs = {1} /\ rs[1] = Evaluation[c.sub][p]
  BY <1>1
<1>4. \A i \in DOMAIN rs : rs[i] \in Results
  BY <1>2, <1>3
<1>5. Evaluation[c][p] = Combine("not", rs)
  BY <1>1, EvaluationUnfolds DEF EvaluationStep
<1>6. /\ Evaluation[c][p] \in Results
      /\ Evaluation[c][p].throws <=> rs[1].throws
      /\ Evaluation[c][p].result <=> ~rs[1].result
      /\ Evaluation[c][p].messages = UNION {rs[i].messages : i \in {1}}
  BY <1>3, <1>4, <1>5, CombineResult
<1>7. UNION {rs[i].messages : i \in {1}} = rs[1].messages
  OBVIOUS
<1>8. /\ Evaluation[c][p].throws \in BOOLEAN /\ Evaluation[c][p].result \in BOOLEAN
      /\ rs[1].throws \in BOOLEAN /\ rs[1].result \in BOOLEAN
  BY <1>2, <1>3, <1>6 DEF Results
<1> QED BY <1>3, <1>6, <1>7, <1>8

\* A group throws when a member does, and combines the results as its kind says.
LEMMA EvaluationOfGroup ==
    ASSUME NEW c \in Accepted, c.kind \in {"all", "any"}, NEW p \in Payloads
    PROVE  /\ Evaluation[c][p].throws <=>
                \E i \in DOMAIN c.subs : Evaluation[c.subs[i]][p].throws
           /\ c.kind = "all" => (Evaluation[c][p].result <=>
                \A i \in DOMAIN c.subs : Evaluation[c.subs[i]][p].result)
           /\ c.kind = "any" => (Evaluation[c][p].result <=>
                \E i \in DOMAIN c.subs : Evaluation[c.subs[i]][p].result)
           /\ Evaluation[c][p].messages =
                UNION {Evaluation[c.subs[i]][p].messages : i \in DOMAIN c.subs}
<1>1. PICK rs : rs = [i \in DOMAIN c.subs |-> Evaluation[c.subs[i]][p]]
  OBVIOUS
<1>2. DOMAIN rs = DOMAIN c.subs /\ \A i \in DOMAIN c.subs : rs[i] = Evaluation[c.subs[i]][p]
  BY <1>1
<1>3. \A i \in DOMAIN rs : rs[i] \in Results
  BY <1>2, AcceptedGroup, EvaluationUnfolds
<1>4. Evaluation[c][p] = Combine(c.kind, rs)
  BY <1>1, EvaluationUnfolds DEF EvaluationStep
<1>5. /\ Evaluation[c][p].throws <=> \E i \in DOMAIN rs : rs[i].throws
      /\ c.kind = "all" => (Evaluation[c][p].result <=> \A i \in DOMAIN rs : rs[i].result)
      /\ c.kind = "any" => (Evaluation[c][p].result <=> \E i \in DOMAIN rs : rs[i].result)
      /\ Evaluation[c][p].messages = UNION {rs[i].messages : i \in DOMAIN rs}
  BY <1>3, <1>4, CombineResult
<1>6. /\ (\E i \in DOMAIN rs : rs[i].throws) <=>
            \E i \in DOMAIN c.subs : Evaluation[c.subs[i]][p].throws
      /\ (\A i \in DOMAIN rs : rs[i].result) <=>
            \A i \in DOMAIN c.subs : Evaluation[c.subs[i]][p].result
      /\ (\E i \in DOMAIN rs : rs[i].result) <=>
            \E i \in DOMAIN c.subs : Evaluation[c.subs[i]][p].result
  BY <1>2
<1>7. UNION {rs[i].messages : i \in DOMAIN rs} =
        UNION {Evaluation[c.subs[i]][p].messages : i \in DOMAIN c.subs}
  BY <1>2
<1> QED BY <1>5, <1>6, <1>7

\* The leaves within a condition, by its kind.
LEMMA LeavesByKind ==
    ASSUME NEW c \in Accepted
    PROVE  /\ LeavesOf(c) \subseteq Accepted
           /\ c.kind \in {"all", "any"} =>
                LeavesOf(c) = UNION {LeavesOf(c.subs[i]) : i \in DOMAIN c.subs}
           /\ c.kind = "not" => LeavesOf(c) = LeavesOf(c.sub)
           /\ c.kind \notin {"all", "any", "not"} => LeavesOf(c) = {c}
<1>1. Within[c] = {c} \cup UNION {Within[d] : d \in Subs(c)} /\ Within[c] \subseteq Accepted
  BY WithinUnfolds
<1>2. ASSUME c.kind \in {"all", "any"}
      PROVE  LeavesOf(c) = UNION {LeavesOf(c.subs[i]) : i \in DOMAIN c.subs}
  <2>1. UNION {Within[d] : d \in Subs(c)} = UNION {Within[c.subs[i]] : i \in DOMAIN c.subs}
    BY <1>2, AcceptedGroup
  <2>2. Within[c] = {c} \cup UNION {Within[c.subs[i]] : i \in DOMAIN c.subs}
    BY <1>1, <2>1
  <2> QED BY <1>2, <2>2 DEF LeavesOf
<1>3. c.kind = "not" => LeavesOf(c) = LeavesOf(c.sub)
  BY <1>1, AcceptedNot DEF LeavesOf
<1>4. c.kind \notin {"all", "any", "not"} => LeavesOf(c) = {c}
  BY <1>1, AcceptedSimple DEF LeavesOf
<1>5. LeavesOf(c) \subseteq Accepted
  BY <1>1 DEF LeavesOf
<1> QED BY <1>2, <1>3, <1>4, <1>5

\* Evaluation throws where some leaf does, and has the messages of all leaves.
LEMMA EvaluationReachesLeaves ==
    ASSUME NEW p \in Payloads, NEW c \in Accepted
    PROVE  /\ Evaluation[c][p].throws <=> \E leaf \in LeavesOf(c) : Raises(leaf)
           /\ Evaluation[c][p].messages = LeavesOf(c)
<1> DEFINE S == {d \in Accepted :
                    /\ Evaluation[d][p].throws <=> \E leaf \in LeavesOf(d) : Raises(leaf)
                    /\ Evaluation[d][p].messages = LeavesOf(d)}
<1>1. ASSUME NEW d \in Accepted, Subs(d) \subseteq S
      PROVE  d \in S
  <2>1. CASE d.kind \in {"all", "any"}
    <3>1. \A i \in DOMAIN d.subs :
             /\ Evaluation[d.subs[i]][p].throws <=> \E leaf \in LeavesOf(d.subs[i]) : Raises(leaf)
             /\ Evaluation[d.subs[i]][p].messages = LeavesOf(d.subs[i])
      BY <1>1, <2>1, AcceptedGroup
    <3> HIDE DEF S
    <3>2. LeavesOf(d) = UNION {LeavesOf(d.subs[i]) : i \in DOMAIN d.subs}
      BY <2>1, LeavesByKind
    <3>3. Evaluation[d][p].throws <=>
             \E i \in DOMAIN d.subs : Evaluation[d.subs[i]][p].throws
      BY <2>1, EvaluationOfGroup
    <3>4. Evaluation[d][p].throws <=> \E leaf \in LeavesOf(d) : Raises(leaf)
      BY <3>1, <3>2, <3>3
    <3>5. Evaluation[d][p].messages =
             UNION {Evaluation[d.subs[i]][p].messages : i \in DOMAIN d.subs}
      BY <2>1, EvaluationOfGroup
    <3>6. Evaluation[d][p].messages = LeavesOf(d)
      BY <3>1, <3>2, <3>5
    <3> QED BY <3>4, <3>6 DEF S
  <2>2. CASE d.kind = "not"
    <3>1. d.sub \in S
      BY <1>1, <2>2, AcceptedNot
    <3> QED BY <2>2, <3>1, EvaluationOfNot, LeavesByKind
  <2>3. CASE d.kind \notin {"all", "any", "not"}
    <3>1. Evaluation[d][p].throws = Raises(d) /\ Evaluation[d][p].messages = {d}
      BY <2>3, EvaluationOfSimple, SimpleFields
    <3> QED BY <2>3, <3>1, LeavesByKind
  <2> QED BY <2>1, <2>2, <2>3
<1>2. Accepted \subseteq S
  <2> HIDE DEF S
  <2> QED BY <1>1, AcceptedInduction
<1> QED BY <1>2

-----------------------------------------------------------------------------
(* The normal form *)

Literals == [leaf : Accepted, sign : BOOLEAN]

\* The clauses of a condition from those of its parts.
ClausesStep(c, g) == [sign \in BOOLEAN |->
    CASE c.kind = "simple" -> {{[leaf |-> c, sign |-> sign]}}
      [] c.kind = "not"    -> g[c.sub][~sign]
      [] c.kind = (IF sign THEN "all" ELSE "any") ->
            LET Of(i) == g[c.subs[i]][sign]
                picks == {p \in [DOMAIN c.subs -> UNION {Of(i) : i \in DOMAIN c.subs}] :
                            \A i \in DOMAIN c.subs : p[i] \in Of(i)}
            IN  {UNION Range(p) : p \in picks}
      [] OTHER -> UNION {g[c.subs[i]][sign] : i \in DOMAIN c.subs}]

\* The clauses of a conjunction: the unions of what a choice of clauses chooses.
Unions(I, of) ==
    {UNION {p[i] : i \in I} : p \in {q \in [I -> UNION {of[i] : i \in I}] :
                                        \A i \in I : q[i] \in of[i]}}

Conjoins(c, sign) == (c.kind = "all" /\ sign) \/ (c.kind = "any" /\ ~sign)
Disjoins(c, sign) == (c.kind = "any" /\ sign) \/ (c.kind = "all" /\ ~sign)

\* The four cases of the normal form.  An `all`, or a negated `any`:
LEMMA ClausesStepOfConjunction ==
    ASSUME NEW c, NEW g, NEW sign \in BOOLEAN, Conjoins(c, sign),
           NEW of, of = [i \in DOMAIN c.subs |-> g[c.subs[i]][sign]]
    PROVE  ClausesStep(c, g)[sign] = Unions(DOMAIN c.subs, of)
<1> DEFINE I == DOMAIN c.subs
           Q == {q \in [I -> UNION {of[i] : i \in I}] : \A i \in I : q[i] \in of[i]}
           P == {q \in [I -> UNION {g[c.subs[i]][sign] : i \in I}] :
                    \A i \in I : q[i] \in g[c.subs[i]][sign]}
<1>1. ClausesStep(c, g)[sign] = {UNION Range(p) : p \in P}
  BY DEF ClausesStep, Conjoins
<1>2. UNION {of[i] : i \in I} = UNION {g[c.subs[i]][sign] : i \in I}
  OBVIOUS
<1>3. P = Q
  BY <1>2
<1>4. \A p \in P : Range(p) = {p[i] : i \in I}
  BY DEF Range
<1> HIDE DEF P, Q
<1>5. {UNION Range(p) : p \in P} = {UNION {p[i] : i \in I} : p \in Q}
  BY <1>3, <1>4
<1> QED BY <1>1, <1>5 DEF Unions, Q

\* An `any`, or a negated `all`:
LEMMA ClausesStepOfDisjunction ==
    ASSUME NEW c, NEW g, NEW sign \in BOOLEAN, Disjoins(c, sign)
    PROVE  ClausesStep(c, g)[sign] = UNION {g[c.subs[i]][sign] : i \in DOMAIN c.subs}
BY DEF ClausesStep, Disjoins

\* A leaf:
LEMMA ClausesStepOfSimple ==
    ASSUME NEW c, NEW g, NEW sign \in BOOLEAN, c.kind = "simple"
    PROVE  ClausesStep(c, g)[sign] = {{[leaf |-> c, sign |-> sign]}}
BY DEF ClausesStep

\* A negation:
LEMMA ClausesStepOfNot ==
    ASSUME NEW c, NEW g, NEW sign \in BOOLEAN, c.kind = "not"
    PROVE  ClausesStep(c, g)[sign] = g[c.sub][~sign]
BY DEF ClausesStep

\* Unions of one set of each family are sets of the same elements.
LEMMA UnionsOfSets ==
    ASSUME NEW L, NEW I, NEW of, \A i \in I : of[i] \in SUBSET SUBSET L
    PROVE  Unions(I, of) \in SUBSET SUBSET L
BY DEF Unions

\* The normal form is a set of sets of literals, and obeys its recursion.
LEMMA ClausesUnfold ==
    /\ Clauses \in [Accepted -> [BOOLEAN -> SUBSET SUBSET Literals]]
    /\ \A c \in Accepted : Clauses[c] = ClausesStep(c, Clauses)
<1> DEFINE T == [BOOLEAN -> SUBSET SUBSET Literals]
           step == [c \in Accepted |-> [g \in [Subs(c) -> T] |-> ClausesStep(c, g)]]
<1>1. ASSUME NEW c \in Accepted, NEW g \in [Subs(c) -> T]
      PROVE  step[c][g] \in T
  <2>1. ASSUME NEW sign \in BOOLEAN
        PROVE  ClausesStep(c, g)[sign] \in SUBSET SUBSET Literals
    <3>1. CASE c.kind \in {"all", "any"}
      <4>1. \A i \in DOMAIN c.subs : g[c.subs[i]][sign] \in SUBSET SUBSET Literals
        BY <3>1, AcceptedGroup
      <4>2. CASE Conjoins(c, sign)
        <5>1. PICK of : of = [i \in DOMAIN c.subs |-> g[c.subs[i]][sign]]
          OBVIOUS
        <5>2. \A i \in DOMAIN c.subs : of[i] \in SUBSET SUBSET Literals
          BY <4>1, <5>1
        <5>3. ClausesStep(c, g)[sign] = Unions(DOMAIN c.subs, of)
          BY <4>2, <5>1, ClausesStepOfConjunction
        <5> QED BY <5>2, <5>3, UnionsOfSets
      <4>3. CASE Disjoins(c, sign)
        BY <4>1, <4>3, ClausesStepOfDisjunction
      <4> QED BY <3>1, <4>2, <4>3 DEF Conjoins, Disjoins
    <3>2. CASE c.kind = "not"
      <4>1. c.sub \in Subs(c) /\ (~sign) \in BOOLEAN
        BY <3>2, AcceptedNot
      <4>2. g[c.sub] \in [BOOLEAN -> SUBSET SUBSET Literals]
        BY <4>1
      <4>3. PICK s \in BOOLEAN : s = ~sign
        BY <4>1
      <4>4. ClausesStep(c, g)[sign] = g[c.sub][s]
        BY <3>2, <4>3, ClausesStepOfNot
      <4> QED BY <4>2, <4>4
    <3>3. CASE c.kind \notin {"all", "any", "not"}
      <4>1. c.kind = "simple"
        BY <3>3, AcceptedSimple
      <4>2. [leaf |-> c, sign |-> sign] \in Literals
        BY DEF Literals
      <4>3. ClausesStep(c, g)[sign] = {{[leaf |-> c, sign |-> sign]}}
        BY <4>1, ClausesStepOfSimple
      <4> QED BY <4>2, <4>3
    <3> QED BY <3>1, <3>2, <3>3
  <2>2. ClausesStep(c, g) = [sign \in BOOLEAN |-> ClausesStep(c, g)[sign]]
    BY DEF ClausesStep
  <2>3. ClausesStep(c, g) \in T
    BY <2>1, <2>2
  <2> QED BY <2>3
<1>2. ASSUME NEW c \in Accepted, NEW g, NEW h, \A d \in Subs(c) : g[d] = h[d]
      PROVE  ClausesStep(c, g) = ClausesStep(c, h)
  <2>1. ASSUME NEW sign \in BOOLEAN
        PROVE  ClausesStep(c, g)[sign] = ClausesStep(c, h)[sign]
    <3>1. CASE c.kind \in {"all", "any"}
      <4>1. \A i \in DOMAIN c.subs : g[c.subs[i]] = h[c.subs[i]]
        BY <1>2, <3>1, AcceptedGroup
      <4>2. CASE Conjoins(c, sign)
        <5>1. PICK of : of = [i \in DOMAIN c.subs |-> g[c.subs[i]][sign]]
          OBVIOUS
        <5>2. of = [i \in DOMAIN c.subs |-> h[c.subs[i]][sign]]
          BY <4>1, <5>1
        <5>3. ClausesStep(c, g)[sign] = Unions(DOMAIN c.subs, of)
          BY <4>2, <5>1, ClausesStepOfConjunction
        <5>4. ClausesStep(c, h)[sign] = Unions(DOMAIN c.subs, of)
          BY <4>2, <5>2, ClausesStepOfConjunction
        <5> QED BY <5>3, <5>4
      <4>3. CASE Disjoins(c, sign)
        <5>1. UNION {g[c.subs[i]][sign] : i \in DOMAIN c.subs} =
                 UNION {h[c.subs[i]][sign] : i \in DOMAIN c.subs}
          BY <4>1
        <5>2. ClausesStep(c, g)[sign] = UNION {g[c.subs[i]][sign] : i \in DOMAIN c.subs}
          BY <4>3, ClausesStepOfDisjunction
        <5>3. ClausesStep(c, h)[sign] = UNION {h[c.subs[i]][sign] : i \in DOMAIN c.subs}
          BY <4>3, ClausesStepOfDisjunction
        <5> QED BY <5>1, <5>2, <5>3
      <4> QED BY <3>1, <4>2, <4>3 DEF Conjoins, Disjoins
    <3>2. CASE c.kind = "not"
      <4>1. g[c.sub] = h[c.sub]
        BY <1>2, <3>2, AcceptedNot
      <4>2. ClausesStep(c, g)[sign] = g[c.sub][~sign]
        BY <3>2, ClausesStepOfNot
      <4>3. ClausesStep(c, h)[sign] = h[c.sub][~sign]
        BY <3>2, ClausesStepOfNot
      <4> QED BY <4>1, <4>2, <4>3
    <3>3. CASE c.kind \notin {"all", "any", "not"}
      <4>1. c.kind = "simple"
        BY <3>3, AcceptedSimple
      <4>2. ClausesStep(c, g)[sign] = {{[leaf |-> c, sign |-> sign]}}
        BY <4>1, ClausesStepOfSimple
      <4>3. ClausesStep(c, h)[sign] = {{[leaf |-> c, sign |-> sign]}}
        BY <4>1, ClausesStepOfSimple
      <4> QED BY <4>2, <4>3
    <3> QED BY <3>1, <3>2, <3>3
  <2>2. /\ ClausesStep(c, g) = [sign \in BOOLEAN |-> ClausesStep(c, g)[sign]]
        /\ ClausesStep(c, h) = [sign \in BOOLEAN |-> ClausesStep(c, h)[sign]]
    BY DEF ClausesStep
  <2> QED BY <2>1, <2>2
<1> HIDE DEF step
<1>3. StepsUp(step, T)
  BY <1>1 DEF StepsUp
<1> HIDE DEF T
<1>4. PICK f \in [Accepted -> T] : Climbs(f, step, T)
  BY <1>3, AcceptedRecursion
<1>5. ASSUME NEW c \in Accepted
      PROVE  f[c] = ClausesStep(c, f)
  <2>1. PICK g \in [Subs(c) -> T] : (\A d \in Subs(c) : g[d] = f[d]) /\ f[c] = step[c][g]
    BY <1>4 DEF Climbs
  <2>2. f[c] = ClausesStep(c, g)
    BY <2>1 DEF step
  <2> QED BY <1>2, <2>1, <2>2
<1>6. f = [c \in Accepted |-> ClausesStep(c, f)]
  BY <1>5
<1>7. Clauses = [c \in Accepted |-> ClausesStep(c, Clauses)]
  BY <1>6 DEF Clauses, ClausesStep
<1>8. \A c \in Accepted : Clauses[c] = ClausesStep(c, Clauses)
  BY <1>7
<1> DEFINE S == {c \in Accepted : Clauses[c] = f[c]}
<1>9. ASSUME NEW c \in Accepted, Subs(c) \subseteq S
      PROVE  c \in S
  BY <1>2, <1>5, <1>8, <1>9
<1>10. Accepted \subseteq S
  BY <1>9, AcceptedInduction
<1>11. Clauses = f
  BY <1>7, <1>10
<1> QED BY <1>8, <1>11 DEF T

\* A clause holds of a payload when each of its leaves has the result of its sign.
Holds(clause, p) ==
    \A lit \in clause : EvaluateSimpleCondition(lit.leaf, p).result = lit.sign

\* A choice of clauses that hold is there where every set has one that holds.
LEMMA UnionHolds ==
    ASSUME NEW I, NEW of, NEW p
    PROVE  (\E u \in Unions(I, of) : Holds(u, p)) <=>
              \A i \in I : \E u \in of[i] : Holds(u, p)
<1> DEFINE Q == {q \in [I -> UNION {of[i] : i \in I}] : \A i \in I : q[i] \in of[i]}
<1>1. ASSUME NEW u \in Unions(I, of), Holds(u, p), NEW i \in I
      PROVE  \E v \in of[i] : Holds(v, p)
  <2>1. PICK q \in Q : u = UNION {q[j] : j \in I}
    BY DEF Unions
  <2>2. q[i] \in of[i] /\ q[i] \subseteq u
    BY <2>1
  <2> QED BY <1>1, <2>2 DEF Holds
<1>2. ASSUME \A i \in I : \E v \in of[i] : Holds(v, p)
      PROVE  \E u \in Unions(I, of) : Holds(u, p)
  <2>1. PICK q : q = [i \in I |-> CHOOSE v \in of[i] : Holds(v, p)]
    OBVIOUS
  <2>2. \A i \in I : q[i] \in of[i] /\ Holds(q[i], p)
    BY <1>2, <2>1
  <2>3. q \in Q
    BY <2>1, <2>2
  <2>4. PICK u : u = UNION {q[i] : i \in I}
    OBVIOUS
  <2>5. u \in Unions(I, of)
    BY <2>3, <2>4 DEF Unions
  <2>6. Holds(u, p)
    <3> SUFFICES ASSUME NEW lit \in u
                 PROVE  EvaluateSimpleCondition(lit.leaf, p).result = lit.sign
      BY DEF Holds
    <3>1. PICK i \in I : lit \in q[i]
      BY <2>4
    <3> QED BY <2>2, <3>1 DEF Holds
  <2> QED BY <2>5, <2>6
<1> QED BY <1>1, <1>2

\* The clauses of a condition and a sign, by its kind.
LEMMA ClausesByKind ==
    ASSUME NEW c \in Accepted, NEW sign \in BOOLEAN
    PROVE  /\ c.kind \notin {"all", "any", "not"} =>
                Clauses[c][sign] = {{[leaf |-> c, sign |-> sign]}}
           /\ c.kind = "not" => Clauses[c][sign] = Clauses[c.sub][~sign]
           /\ Disjoins(c, sign) =>
                Clauses[c][sign] = UNION {Clauses[c.subs[i]][sign] : i \in DOMAIN c.subs}
           /\ Conjoins(c, sign) =>
                \E of : /\ of = [i \in DOMAIN c.subs |-> Clauses[c.subs[i]][sign]]
                        /\ Clauses[c][sign] = Unions(DOMAIN c.subs, of)
<1>1. Clauses[c] = ClausesStep(c, Clauses)
  BY ClausesUnfold
<1>2. c.kind \notin {"all", "any", "not"} => Clauses[c][sign] = {{[leaf |-> c, sign |-> sign]}}
  BY <1>1, AcceptedSimple, ClausesStepOfSimple
<1>3. c.kind = "not" => Clauses[c][sign] = Clauses[c.sub][~sign]
  BY <1>1, ClausesStepOfNot
<1>4. ASSUME Disjoins(c, sign)
      PROVE  Clauses[c][sign] = UNION {Clauses[c.subs[i]][sign] : i \in DOMAIN c.subs}
  <2>1. ClausesStep(c, Clauses)[sign] = UNION {Clauses[c.subs[i]][sign] : i \in DOMAIN c.subs}
    BY <1>4, ClausesStepOfDisjunction
  <2> QED BY <1>1, <2>1
<1>5. ASSUME Conjoins(c, sign)
      PROVE  \E of : /\ of = [i \in DOMAIN c.subs |-> Clauses[c.subs[i]][sign]]
                     /\ Clauses[c][sign] = Unions(DOMAIN c.subs, of)
  <2>1. PICK of : of = [i \in DOMAIN c.subs |-> Clauses[c.subs[i]][sign]]
    OBVIOUS
  <2>2. ClausesStep(c, Clauses)[sign] = Unions(DOMAIN c.subs, of)
    BY <1>5, <2>1, ClausesStepOfConjunction
  <2>3. Clauses[c][sign] = Unions(DOMAIN c.subs, of)
    BY <1>1, <2>2
  <2> QED BY <2>1, <2>3
<1> QED BY <1>2, <1>3, <1>4, <1>5

\* The normal form means what the evaluator computes: the result of a condition is
\* the sign exactly when a clause for that sign holds.
LEMMA NormalForm ==
    ASSUME NEW p \in Payloads, NEW c \in Accepted, NEW sign \in BOOLEAN
    PROVE  (\E clause \in Clauses[c][sign] : Holds(clause, p)) <=>
              Evaluation[c][p].result = sign
<1> DEFINE Means(d) == \A s \in BOOLEAN :
              (\E clause \in Clauses[d][s] : Holds(clause, p)) <=> Evaluation[d][p].result = s
           S == {d \in Accepted : Means(d)}
<1>1. ASSUME NEW d \in Accepted, Subs(d) \subseteq S
      PROVE  d \in S
  <2> SUFFICES ASSUME NEW s \in BOOLEAN
               PROVE  (\E clause \in Clauses[d][s] : Holds(clause, p)) <=>
                         Evaluation[d][p].result = s
    OBVIOUS
  <2>0. Evaluation[d][p].result \in BOOLEAN
    BY EvaluationUnfolds DEF Results
  <2>1. CASE d.kind \in {"all", "any"}
    <3>1. \A i \in DOMAIN d.subs :
             (\E clause \in Clauses[d.subs[i]][s] : Holds(clause, p)) <=>
                Evaluation[d.subs[i]][p].result = s
      BY <1>1, <2>1, AcceptedGroup
    <3>2. \A i \in DOMAIN d.subs : Evaluation[d.subs[i]][p].result \in BOOLEAN
      BY <2>1, AcceptedGroup, EvaluationUnfolds DEF Results
    <3> HIDE DEF S
    <3>3. CASE Conjoins(d, s)
      <4>1. PICK of : /\ of = [i \in DOMAIN d.subs |-> Clauses[d.subs[i]][s]]
                      /\ Clauses[d][s] = Unions(DOMAIN d.subs, of)
        BY <3>3, ClausesByKind
      <4>2. (\E clause \in Clauses[d][s] : Holds(clause, p)) <=>
               \A i \in DOMAIN d.subs : \E u \in of[i] : Holds(u, p)
        <5>1. (\E u \in Unions(DOMAIN d.subs, of) : Holds(u, p)) <=>
                 \A i \in DOMAIN d.subs : \E u \in of[i] : Holds(u, p)
          BY UnionHolds
        <5> QED BY <4>1, <5>1
      <4>3. (\E clause \in Clauses[d][s] : Holds(clause, p)) <=>
               \A i \in DOMAIN d.subs : Evaluation[d.subs[i]][p].result = s
        BY <3>1, <4>1, <4>2
      <4>4. Evaluation[d][p].result = s <=>
               \A i \in DOMAIN d.subs : Evaluation[d.subs[i]][p].result = s
        <5>1. CASE d.kind = "all" /\ s = TRUE
          BY <5>1, <3>2, <2>0, EvaluationOfGroup
        <5>2. CASE d.kind = "any" /\ s = FALSE
          BY <5>2, <3>2, <2>0, EvaluationOfGroup
        <5> QED BY <3>3, <5>1, <5>2 DEF Conjoins
      <4> QED BY <4>3, <4>4
    <3>4. CASE Disjoins(d, s)
      <4>1. Clauses[d][s] = UNION {Clauses[d.subs[i]][s] : i \in DOMAIN d.subs}
        BY <3>4, ClausesByKind
      <4>2. (\E clause \in Clauses[d][s] : Holds(clause, p)) <=>
               \E i \in DOMAIN d.subs : \E u \in Clauses[d.subs[i]][s] : Holds(u, p)
        BY <4>1
      <4>3. (\E clause \in Clauses[d][s] : Holds(clause, p)) <=>
               \E i \in DOMAIN d.subs : Evaluation[d.subs[i]][p].result = s
        BY <3>1, <4>2
      <4>4. Evaluation[d][p].result = s <=>
               \E i \in DOMAIN d.subs : Evaluation[d.subs[i]][p].result = s
        <5>1. CASE d.kind = "any" /\ s = TRUE
          BY <5>1, <3>2, <2>0, EvaluationOfGroup
        <5>2. CASE d.kind = "all" /\ s = FALSE
          BY <5>2, <3>2, <2>0, EvaluationOfGroup
        <5> QED BY <3>4, <5>1, <5>2 DEF Disjoins
      <4> QED BY <4>3, <4>4
    <3> QED BY <2>1, <3>3, <3>4 DEF Conjoins, Disjoins
  <2>2. CASE d.kind = "not"
    <3>1. d.sub \in Accepted /\ Means(d.sub)
      BY <1>1, <2>2, AcceptedNot
    <3>2. (\E clause \in Clauses[d.sub][~s] : Holds(clause, p)) <=>
             Evaluation[d.sub][p].result = (~s)
      <4>1. (~s) \in BOOLEAN
        OBVIOUS
      <4> QED BY <3>1, <4>1
    <3>3. Clauses[d][s] = Clauses[d.sub][~s]
      BY <2>2, ClausesByKind
    <3>4. Evaluation[d][p].result = ~Evaluation[d.sub][p].result
      BY <2>2, EvaluationOfNot
    <3>5. Evaluation[d.sub][p].result \in BOOLEAN
      BY <3>1, EvaluationUnfolds DEF Results
    <3>6. Evaluation[d.sub][p].result = (~s) <=> (~Evaluation[d.sub][p].result) = s
      BY <3>5
    <3> QED BY <3>2, <3>3, <3>4, <3>6
  <2>3. CASE d.kind \notin {"all", "any", "not"}
    <3>1. Evaluation[d][p] = EvaluateSimpleCondition(d, p)
      BY <2>3, EvaluationOfSimple
    <3>2. Clauses[d][s] = {{[leaf |-> d, sign |-> s]}}
      BY <2>3, ClausesByKind
    <3>3. Holds({[leaf |-> d, sign |-> s]}, p) <=> EvaluateSimpleCondition(d, p).result = s
      BY DEF Holds
    <3> QED BY <3>1, <3>2, <3>3
  <2> QED BY <2>1, <2>2, <2>3
<1>2. Accepted \subseteq S
  <2> HIDE DEF S
  <2> QED BY <1>1, AcceptedInduction
<1> QED BY <1>2

\* The leaves of a clause are leaves of the condition.
LEMMA LiteralsAreLeaves ==
    ASSUME NEW c \in Accepted, NEW sign \in BOOLEAN, NEW clause \in Clauses[c][sign],
           NEW lit \in clause
    PROVE  lit.leaf \in LeavesOf(c) /\ lit.sign \in BOOLEAN
<1> DEFINE S == {d \in Accepted : \A s \in BOOLEAN : \A u \in Clauses[d][s] : \A l \in u :
                    l.leaf \in LeavesOf(d) /\ l.sign \in BOOLEAN}
<1>1. ASSUME NEW d \in Accepted, Subs(d) \subseteq S
      PROVE  d \in S
  <2> SUFFICES ASSUME NEW s \in BOOLEAN, NEW u \in Clauses[d][s], NEW l \in u
               PROVE  l.leaf \in LeavesOf(d) /\ l.sign \in BOOLEAN
    OBVIOUS
  <2>1. CASE d.kind \in {"all", "any"}
    <3>1. \A i \in DOMAIN d.subs : d.subs[i] \in S
      BY <1>1, <2>1, AcceptedGroup
    <3>2. LeavesOf(d) = UNION {LeavesOf(d.subs[i]) : i \in DOMAIN d.subs}
      BY <2>1, LeavesByKind
    <3>3. \E i \in DOMAIN d.subs : \E v \in Clauses[d.subs[i]][s] : l \in v
      <4>1. CASE Conjoins(d, s)
        <5>1. PICK of : /\ of = [i \in DOMAIN d.subs |-> Clauses[d.subs[i]][s]]
                        /\ Clauses[d][s] = Unions(DOMAIN d.subs, of)
          BY <4>1, ClausesByKind
        <5>2. PICK q \in [DOMAIN d.subs -> UNION {of[i] : i \in DOMAIN d.subs}] :
                 /\ \A i \in DOMAIN d.subs : q[i] \in of[i]
                 /\ u = UNION {q[i] : i \in DOMAIN d.subs}
          BY <5>1 DEF Unions
        <5>3. PICK i \in DOMAIN d.subs : l \in q[i]
          BY <5>2
        <5>4. q[i] \in Clauses[d.subs[i]][s]
          BY <5>1, <5>2
        <5> QED BY <5>3, <5>4
      <4>2. CASE Disjoins(d, s)
        BY <4>2, ClausesByKind
      <4> QED BY <2>1, <4>1, <4>2 DEF Conjoins, Disjoins
    <3>4. PICK i \in DOMAIN d.subs : \E v \in Clauses[d.subs[i]][s] : l \in v
      BY <3>3
    <3>5. l.leaf \in LeavesOf(d.subs[i]) /\ l.sign \in BOOLEAN
      BY <3>1, <3>4
    <3> QED BY <3>2, <3>5
  <2>2. CASE d.kind = "not"
    <3>1. d.sub \in S
      BY <1>1, <2>2, AcceptedNot
    <3>2. u \in Clauses[d.sub][~s] /\ (~s) \in BOOLEAN
      BY <2>2, ClausesByKind
    <3>3. l.leaf \in LeavesOf(d.sub) /\ l.sign \in BOOLEAN
      BY <3>1, <3>2
    <3> QED BY <2>2, <3>3, LeavesByKind
  <2>3. CASE d.kind \notin {"all", "any", "not"}
    <3>1. l = [leaf |-> d, sign |-> s]
      BY <2>3, ClausesByKind
    <3> QED BY <2>3, <3>1, LeavesByKind
  <2> QED BY <2>1, <2>2, <2>3
<1>2. Accepted \subseteq S
  <2> HIDE DEF S
  <2> QED BY <1>1, AcceptedInduction
<1> QED BY <1>2

-----------------------------------------------------------------------------
(* The answers *)

\* The stored rule got past validation, and its text is its user's or its own.
RuleIsAccepted ==
    rule # NoRule =>
        rule \in Accepted /\ text \in {<<OwnText>>, GenerateConditionDescription[rule]}

\* The last answer is about the stored rule, or about what was to be previewed.
AnswerIsOfRule ==
    /\ answer.op = "preview" =>
          /\ answer.conditions \in Conditions
          /\ answer.payload # NoPayload =>
               /\ answer.payload \in Payloads
               /\ answer.valid <=>
                    /\ Valid[answer.conditions]
                    /\ EvaluateConditions(answer.conditions, answer.payload) # "throws"
               /\ answer.valid => answer.outcome =
                      EvaluateConditions(answer.conditions, answer.payload)
    /\ answer.op = "event" =>
          /\ rule # NoRule /\ answer.payload \in Payloads
          /\ answer.fires = (EvaluateConditions(rule, answer.payload) = "match")
    /\ answer.op \in {"tested", "error"} =>
          /\ rule # NoRule /\ answer.payload \in Payloads
          /\ answer.op = "error" <=> EvaluateConditions(rule, answer.payload) = "throws"
    /\ answer.op = "tested" =>
          /\ answer.outcome = EvaluateConditions(rule, answer.payload)
          /\ answer.details = GetEvaluationDetails(rule, answer.payload)

IInv == RuleIsAccepted /\ AnswerIsOfRule

\* No rule is stored and no answer given at first.
LEMMA InitIInv == Init => IInv
BY DEF Init, IInv, RuleIsAccepted, AnswerIsOfRule

\* What is stored has passed validation, with its text or the user's own.
LEMMA CreateRuleIInv ==
    ASSUME IInv, NEW c \in Conditions, NEW actions, CreateRule(c, actions)
    PROVE  IInv'
<1>1. CASE Valid[c] /\ ValidActions(actions)
  <2>1. rule' = c /\ c \in Accepted /\ answer' = [op |-> "stored"]
        /\ text' \in {<<OwnText>>, GenerateConditionDescription[c]}
    BY <1>1 DEF CreateRule, Accepted
  <2>2. RuleIsAccepted'
    BY <2>1 DEF RuleIsAccepted
  <2>3. AnswerIsOfRule'
    BY <2>1 DEF AnswerIsOfRule
  <2> QED BY <2>2, <2>3 DEF IInv
<1>2. CASE ~(Valid[c] /\ ValidActions(actions))
  <2>1. rule' = rule /\ text' = text /\ answer' = [op |-> "refused"]
    BY <1>2 DEF CreateRule
  <2> QED BY <2>1 DEF IInv, RuleIsAccepted, AnswerIsOfRule
<1> QED BY <1>1, <1>2

\* An update stores a condition that passed validation, and its text.
LEMMA UpdateRuleIInv ==
    ASSUME IInv, NEW c \in Conditions, NEW actions, UpdateRule(c, actions)
    PROVE  IInv'
<1>1. CASE Valid[c] /\ (actions # Omitted => ValidActions(actions))
  <2>1. rule' = c /\ c \in Accepted /\ answer' = [op |-> "stored"]
        /\ text' = GenerateConditionDescription[c]
    BY <1>1 DEF UpdateRule, Accepted
  <2>2. RuleIsAccepted'
    BY <2>1 DEF RuleIsAccepted
  <2>3. AnswerIsOfRule'
    BY <2>1 DEF AnswerIsOfRule
  <2> QED BY <2>2, <2>3 DEF IInv
<1>2. CASE ~(Valid[c] /\ (actions # Omitted => ValidActions(actions)))
  <2>1. rule' = rule /\ text' = text /\ answer' = [op |-> "refused"]
    BY <1>2 DEF UpdateRule
  <2> QED BY <2>1 DEF IInv, RuleIsAccepted, AnswerIsOfRule
<1> QED BY <1>1, <1>2

\* A preview touches no rule, and answers for the condition it was given.
LEMMA ValidateConditionsIInv ==
    ASSUME IInv, NEW c \in Conditions, NEW payload \in Payloads \cup {NoPayload},
           ValidateConditions(c, payload)
    PROVE  IInv'
<1>1. rule' = rule /\ text' = text
  BY DEF ValidateConditions
<1>2. PICK o : o = IF Valid[c] /\ payload # NoPayload
                   THEN EvaluateConditions(c, payload) ELSE "none"
  OBVIOUS
<1>3. PICK b : b = (Valid[c] /\ o # "throws")
  OBVIOUS
<1>4. answer' = [op |-> "preview", conditions |-> c, payload |-> payload,
                 valid |-> b, outcome |-> o]
  BY <1>2, <1>3 DEF ValidateConditions
<1>5. /\ answer'.op = "preview" /\ answer'.conditions = c /\ answer'.payload = payload
      /\ answer'.valid = b /\ answer'.outcome = o
  BY <1>4
<1>6. payload # NoPayload =>
        /\ payload \in Payloads
        /\ b <=> Valid[c] /\ EvaluateConditions(c, payload) # "throws"
        /\ b => o = EvaluateConditions(c, payload)
  BY <1>2, <1>3
<1>7. AnswerIsOfRule'
  BY <1>5, <1>6 DEF AnswerIsOfRule
<1> QED BY <1>1, <1>7 DEF IInv, RuleIsAccepted

\* A test answers with the outcome and details of the stored rule.
LEMMA TestRuleIInv ==
    ASSUME IInv, NEW payload \in Payloads, TestRule(payload)
    PROVE  IInv'
<1>1. rule' = rule /\ text' = text /\ rule # NoRule
  BY DEF TestRule
<1>2. RuleIsAccepted'
  BY <1>1 DEF IInv, RuleIsAccepted
<1>3. PICK o : o = EvaluateConditions(rule, payload)
  OBVIOUS
<1>4. PICK d : d = GetEvaluationDetails(rule, payload)
  OBVIOUS
<1>5. CASE o = "throws"
  <2>1. answer' = [op |-> "error", payload |-> payload]
    BY <1>3, <1>5 DEF TestRule
  <2> QED BY <1>1, <1>2, <1>3, <1>5, <2>1 DEF IInv, AnswerIsOfRule
<1>6. CASE o # "throws"
  <2>1. answer' = [op |-> "tested", payload |-> payload, outcome |-> o, details |-> d]
    BY <1>3, <1>4, <1>6 DEF TestRule
  <2>2. /\ answer'.op = "tested" /\ answer'.payload = payload
        /\ answer'.outcome = o /\ answer'.details = d
    BY <2>1
  <2> QED BY <1>1, <1>2, <1>3, <1>4, <1>6, <2>2 DEF IInv, AnswerIsOfRule
<1> QED BY <1>5, <1>6

\* An event fires the rule when its evaluation matches.
LEMMA FindMatchingRulesIInv ==
    ASSUME IInv, NEW payload \in Payloads, FindMatchingRules(payload)
    PROVE  IInv'
<1>1. rule' = rule /\ text' = text /\ rule # NoRule
  BY DEF FindMatchingRules
<1>2. RuleIsAccepted'
  BY <1>1 DEF IInv, RuleIsAccepted
<1>3. PICK b \in BOOLEAN : b = (EvaluateConditions(rule, payload) = "match")
  OBVIOUS
<1>4. answer' = [op |-> "event", payload |-> payload, fires |-> b]
  BY <1>3 DEF FindMatchingRules
<1>5. answer'.op = "event" /\ answer'.payload = payload /\ answer'.fires = b
  BY <1>4
<1> QED BY <1>1, <1>2, <1>3, <1>5 DEF IInv, AnswerIsOfRule

\* The inductive invariant: every answer is what the evaluator says of the rule
\* that is stored, and only what validation accepts is stored.
THEOREM AnswersAreOfTheRule == Spec => []IInv
<1>1. IInv /\ [Next]_vars => IInv'
  <2> SUFFICES ASSUME IInv, [Next]_vars PROVE IInv'
    OBVIOUS
  <2>1. ASSUME NEW c \in Conditions, NEW a, CreateRule(c, a) PROVE IInv'
    BY <2>1, CreateRuleIInv
  <2>2. ASSUME NEW c \in Conditions, NEW a, UpdateRule(c, a) PROVE IInv'
    BY <2>2, UpdateRuleIInv
  <2>3. ASSUME NEW c \in Conditions, NEW p \in Payloads \cup {NoPayload},
               ValidateConditions(c, p)
        PROVE  IInv'
    BY <2>3, ValidateConditionsIInv
  <2>4. ASSUME NEW p \in Payloads, TestRule(p) PROVE IInv'
    BY <2>4, TestRuleIInv
  <2>5. ASSUME NEW p \in Payloads, FindMatchingRules(p) PROVE IInv'
    BY <2>5, FindMatchingRulesIInv
  <2>6. CASE UNCHANGED vars
    BY <2>6 DEF vars, IInv, RuleIsAccepted, AnswerIsOfRule
  <2> QED BY <2>1, <2>2, <2>3, <2>4, <2>5, <2>6 DEF Next
<1> QED BY InitIInv, <1>1, PTL DEF Spec

-----------------------------------------------------------------------------
(* What the answers mean *)

\* The outcome in terms of the two fields of the result.
LEMMA OutcomeOfEvaluation ==
    ASSUME NEW c \in Accepted, NEW p \in Payloads
    PROVE  /\ EvaluateConditions(c, p) = "throws" <=> Evaluation[c][p].throws
           /\ EvaluateConditions(c, p) = "match" <=>
                ~Evaluation[c][p].throws /\ Evaluation[c][p].result
BY DEF EvaluateConditions, Evaluation

\* An event fires the rule exactly when no leaf of it throws and a clause of its
\* normal form holds.
LEMMA FiresByClauses ==
    ASSUME IInv
    PROVE  RuleFiresByItsClauses
<1> SUFFICES ASSUME answer.op = "event"
             PROVE  answer.fires <=>
                      /\ \A leaf \in LeavesOf(rule) : ~Raises(leaf)
                      /\ \E clause \in Clauses[rule][TRUE] : Holds(clause, answer.payload)
  BY DEF RuleFiresByItsClauses, Holds
<1>1. /\ rule \in Accepted /\ answer.payload \in Payloads
      /\ answer.fires = (EvaluateConditions(rule, answer.payload) = "match")
  BY DEF IInv, RuleIsAccepted, AnswerIsOfRule
<1>2. answer.fires <=> /\ ~Evaluation[rule][answer.payload].throws
                       /\ Evaluation[rule][answer.payload].result
  BY <1>1, OutcomeOfEvaluation
<1>3. Evaluation[rule][answer.payload].throws <=> \E leaf \in LeavesOf(rule) : Raises(leaf)
  BY <1>1, EvaluationReachesLeaves
<1>4. (\E clause \in Clauses[rule][TRUE] : Holds(clause, answer.payload)) <=>
         Evaluation[rule][answer.payload].result = TRUE
  BY <1>1, NormalForm
<1>5. Evaluation[rule][answer.payload].result \in BOOLEAN
  BY <1>1, EvaluationUnfolds DEF Results
<1> QED BY <1>2, <1>3, <1>4, <1>5

\* RuleFiresByItsClauses: findMatchingRules lets a rule fire exactly when no leaf
\* throws and a clause of its normal form holds, for every condition.
THEOREM RulesFireByTheirClauses == Spec => []RuleFiresByItsClauses
<1>1. IInv => RuleFiresByItsClauses
  BY FiresByClauses
<1> QED BY <1>1, AnswersAreOfTheRule, PTL

\* A tested rule fails exactly when one of its leaves throws, wherever it stands.
LEMMA BadLeafSilences ==
    ASSUME IInv
    PROVE  OneBadLeafSilencesTheRule
<1> SUFFICES ASSUME answer.op \in {"tested", "error"}
             PROVE  answer.op = "error" <=> \E leaf \in LeavesOf(rule) : Raises(leaf)
  BY DEF OneBadLeafSilencesTheRule
<1>1. /\ rule \in Accepted /\ answer.payload \in Payloads
      /\ answer.op = "error" <=> EvaluateConditions(rule, answer.payload) = "throws"
  BY DEF IInv, RuleIsAccepted, AnswerIsOfRule
<1>2. answer.op = "error" <=> Evaluation[rule][answer.payload].throws
  BY <1>1, OutcomeOfEvaluation
<1> QED BY <1>1, <1>2, EvaluationReachesLeaves

\* OneBadLeafSilencesTheRule: testRule fails exactly for a rule with a leaf that
\* throws, wherever it stands in the tree.
THEOREM ABadLeafSilencesTheRule == Spec => []OneBadLeafSilencesTheRule
<1>1. IInv => OneBadLeafSilencesTheRule
  BY BadLeafSilences
<1> QED BY <1>1, AnswersAreOfTheRule, PTL

\* The lists of matched and failed leaves decide the answer with the normal form.
LEMMA DetailsExplain ==
    ASSUME IInv
    PROVE  DetailsExplainTheResult
<1> SUFFICES ASSUME answer.op = "tested"
             PROVE  /\ answer.details.matched \cap answer.details.failed = {}
                    /\ answer.outcome = "match" <=>
                         \E clause \in Clauses[rule][TRUE] : \A lit \in clause :
                            lit.leaf \in IF lit.sign THEN answer.details.matched
                                                     ELSE answer.details.failed
  BY DEF DetailsExplainTheResult
<1>1. /\ rule \in Accepted /\ answer.payload \in Payloads /\ answer.op # "error"
      /\ answer.op = "error" <=> EvaluateConditions(rule, answer.payload) = "throws"
      /\ answer.outcome = EvaluateConditions(rule, answer.payload)
      /\ answer.details = GetEvaluationDetails(rule, answer.payload)
  BY DEF IInv, RuleIsAccepted, AnswerIsOfRule
<1> DEFINE p == answer.payload
           Leaves == LeavesOf(rule)
           Result(leaf) == EvaluateSimpleCondition(leaf, p).result
<1>2. Evaluation[rule][p].messages = Leaves
  BY <1>1, EvaluationReachesLeaves
<1>3. PICK m : m = {leaf \in Leaves : Result(leaf)}
  OBVIOUS
<1>4. PICK n : n = {leaf \in Leaves : ~Result(leaf)}
  OBVIOUS
<1>5. GetEvaluationDetails(rule, p) = [matched |-> m, failed |-> n]
  BY <1>2, <1>3, <1>4 DEF GetEvaluationDetails, Evaluation
<1>6. answer.details.matched = m /\ answer.details.failed = n
  BY <1>1, <1>5
<1>7. m \cap n = {}
  BY <1>3, <1>4
<1>8. \A leaf \in Leaves : Result(leaf) \in BOOLEAN
  <2> SUFFICES ASSUME NEW leaf \in Leaves PROVE Result(leaf) \in BOOLEAN
    OBVIOUS
  <2>1. leaf \in Accepted
    BY <1>1, LeavesByKind
  <2> QED BY <2>1, SimpleIsResult DEF Results
<1>9. ASSUME NEW clause \in Clauses[rule][TRUE]
      PROVE  Holds(clause, p) <=>
                \A lit \in clause : lit.leaf \in IF lit.sign THEN m ELSE n
  <2>1. \A lit \in clause : lit.leaf \in Leaves /\ lit.sign \in BOOLEAN
    BY <1>1, LiteralsAreLeaves
  <2>2. \A lit \in clause : Result(lit.leaf) \in BOOLEAN
    BY <2>1, <1>8
  <2>3. \A lit \in clause : Result(lit.leaf) = lit.sign <=>
            lit.leaf \in IF lit.sign THEN m ELSE n
    BY <2>1, <2>2, <1>3, <1>4
  <2> QED BY <2>3 DEF Holds
<1>10. (\E clause \in Clauses[rule][TRUE] : Holds(clause, p)) <=>
          Evaluation[rule][p].result = TRUE
  BY <1>1, NormalForm
<1>11. Evaluation[rule][p].result \in BOOLEAN
  BY <1>1, EvaluationUnfolds DEF Results
<1>12. answer.outcome = "match" <=> Evaluation[rule][p].result
  BY <1>1, OutcomeOfEvaluation
<1>13. answer.outcome = "match" <=> \E clause \in Clauses[rule][TRUE] : Holds(clause, p)
  BY <1>10, <1>11, <1>12
<1> HIDE DEF p, Leaves, Result
<1> QED BY <1>6, <1>7, <1>9, <1>13

\* DetailsExplainTheResult: the matched and failed leaves that testRule returns are
\* disjoint, and the normal form makes the same result of them.
THEOREM DetailsExplainEveryResult == Spec => []DetailsExplainTheResult
<1>1. IInv => DetailsExplainTheResult
  BY DetailsExplain
<1> QED BY <1>1, AnswersAreOfTheRule, PTL

\* A preview is valid, and says match, when an event would have it so.
LEMMA PreviewForetells ==
    ASSUME IInv
    PROVE  PreviewForetellsTheEvent
<1> DEFINE c == answer.conditions
           p == answer.payload
<1> SUFFICES ASSUME answer.op = "preview", p # NoPayload
             PROVE  /\ answer.valid <=> Valid[c] /\ \A leaf \in LeavesOf(c) : ~Raises(leaf)
                    /\ answer.valid =>
                         (answer.outcome = "match" <=>
                            \E clause \in Clauses[c][TRUE] : Holds(clause, p))
  BY DEF PreviewForetellsTheEvent, Holds
<1>1. /\ c \in Conditions /\ p \in Payloads
      /\ answer.valid <=> Valid[c] /\ EvaluateConditions(c, p) # "throws"
      /\ answer.valid => answer.outcome = EvaluateConditions(c, p)
  BY DEF IInv, AnswerIsOfRule
<1> HIDE DEF c, p
<1>2. CASE ~Valid[c]
  BY <1>1, <1>2
<1>3. CASE Valid[c]
  <2>1. c \in Accepted
    BY <1>1, <1>3 DEF Accepted
  <2>2. EvaluateConditions(c, p) = "throws" <=> \E leaf \in LeavesOf(c) : Raises(leaf)
    BY <1>1, <2>1, OutcomeOfEvaluation, EvaluationReachesLeaves
  <2>3. answer.valid <=> \A leaf \in LeavesOf(c) : ~Raises(leaf)
    BY <1>1, <1>3, <2>2
  <2>4. (\E clause \in Clauses[c][TRUE] : Holds(clause, p)) <=>
           Evaluation[c][p].result = TRUE
    BY <1>1, <2>1, NormalForm
  <2>5. Evaluation[c][p].result \in BOOLEAN
    BY <1>1, <2>1, EvaluationUnfolds DEF Results
  <2>6. ASSUME answer.valid
        PROVE  answer.outcome = "match" <=> Evaluation[c][p].result
    BY <1>1, <2>1, <2>6, OutcomeOfEvaluation
  <2> QED BY <1>3, <2>3, <2>4, <2>5, <2>6
<1> QED BY <1>2, <1>3

\* PreviewForetellsTheEvent: what the preview says with a payload is what an event
\* with that payload would do with the rule, for every condition.
THEOREM PreviewsForetell == Spec => []PreviewForetellsTheEvent
<1>1. IInv => PreviewForetellsTheEvent
  BY PreviewForetells
<1> QED BY <1>1, AnswersAreOfTheRule, PTL

-----------------------------------------------------------------------------
(* Descriptions *)

\* A set with 0 and every successor has all natural numbers.
LEMMA NatSetInduction ==
    ASSUME NEW S, 0 \in S, \A n \in Nat : n \in S => n + 1 \in S
    PROVE  Nat \subseteq S
<1> DEFINE size == [n \in Nat |-> n]
           below == [n \in Nat |-> IF n = 0 THEN {} ELSE {n - 1}]
<1>1. Smaller(Nat, below, size) /\ size \in [Nat -> Nat]
  BY DEF Smaller
<1>2. ASSUME NEW n \in Nat, below[n] \subseteq S
      PROVE  n \in S
  <2>1. CASE n = 0
    BY <2>1
  <2>2. CASE n # 0
    <3>1. n - 1 \in Nat /\ n - 1 \in S /\ n = (n - 1) + 1
      BY <1>2, <2>2
    <3> QED BY <3>1
  <2> QED BY <2>1, <2>2
<1> HIDE DEF size, below
<1> QED BY <1>1, <1>2, Induction

\* What comes before the i-th text of a group.
Lead(i, w) == IF i = 1 THEN <<>> ELSE Word(w)

\* from[i] is the text of a group from its i-th member to the closing parenthesis.
Reads(from, texts, w) ==
    /\ from \in [1..(Len(texts) + 1) -> Seq(Tokens)]
    /\ from[Len(texts) + 1] = Word(")")
    /\ \A i \in 1..Len(texts) : from[i] = Lead(i, w) \o (texts[i] \o from[i + 1])

\* A sequence of one element.
LEMMA SingleIsSeq ==
    ASSUME NEW S, NEW a \in S
    PROVE  <<a>> \in Seq(S) /\ Len(<<a>>) = 1 /\ <<a>>[1] = a
OBVIOUS

\* A word is a text of one token.
LEMMA WordIsText ==
    ASSUME NEW w \in {"(", ")", "AND", "OR", "NOT ("}
    PROVE  Word(w) = <<Token(w)>> /\ Token(w) \in Tokens /\ Word(w) \in Seq(Tokens)
<1>1. Word(w) = <<Token(w)>>
  BY DEF Word, Token
<1>2. Token(w) \in Tokens
  BY DEF Tokens
<1>3. <<Token(w)>> \in Seq(Tokens)
  BY <1>2, SingleIsSeq
<1>4. Word(w) \in Seq(Tokens)
  BY <1>1, <1>3
<1> QED BY <1>1, <1>2, <1>4

\* So is what comes before a member, unless it is nothing.
LEMMA LeadIsText ==
    ASSUME NEW i, NEW w \in {"AND", "OR"}
    PROVE  Lead(i, w) \in Seq(Tokens)
<1>1. CASE i = 1
  <2>1. Lead(i, w) = <<>>
    BY <1>1 DEF Lead
  <2>2. << >> \in Seq(Tokens)
    BY EmptySeq
  <2> QED BY <2>1, <2>2
<1>2. CASE i # 1
  <2>1. Lead(i, w) = Word(w)
    BY <1>2 DEF Lead
  <2>2. Word(w) \in Seq(Tokens)
    BY WordIsText
  <2> QED BY <2>1, <2>2
<1> QED BY <1>1, <1>2

\* The text of a group, read from left to right.
LEMMA JoinedReads ==
    ASSUME NEW texts \in Seq(Seq(Tokens)), NEW w \in {"AND", "OR"}
    PROVE  \E from : Reads(from, texts, w) /\ Joined(texts, w) = Word("(") \o from[1]
<1> DEFINE L == Len(texts)
           D == 1..(L + 1)
           T == Seq(Tokens)
           size == [i \in D |-> L + 1 - i]
           below == [i \in D |-> IF i > L THEN {} ELSE {i + 1}]
           next(i, g) == IF i > L THEN Word(")") ELSE Lead(i, w) \o (texts[i] \o g[i + 1])
           step == [i \in D |-> [g \in [below[i] -> T] |-> next(i, g)]]
<1>1. L \in Nat
  OBVIOUS
<1>2. size \in [D -> Nat] /\ Smaller(D, below, size)
  BY <1>1 DEF Smaller
<1>3. ASSUME NEW i \in D, NEW g \in [below[i] -> T]
      PROVE  step[i][g] \in T
  <2>1. CASE i > L
    BY <2>1, WordIsText
  <2>2. CASE ~(i > L)
    <3>1. i \in 1..L /\ g[i + 1] \in T
      BY <1>1, <2>2
    <3>2. texts[i] \in T
      BY <3>1
    <3>3. texts[i] \o g[i + 1] \in T
      BY <3>1, <3>2, ConcatProperties
    <3>4. Lead(i, w) \in T
      BY LeadIsText
    <3>5. Lead(i, w) \o (texts[i] \o g[i + 1]) \in T
      BY <3>3, <3>4, ConcatProperties
    <3> QED BY <2>2, <3>5
  <2> QED BY <2>1, <2>2
<1>4. Steps(step, D, below, T)
  <2> HIDE DEF step, D, below, T
  <2> QED BY <1>3 DEF Steps
<1>5. PICK f \in [D -> T] : Follows(f, step, D, below, T)
  <2> HIDE DEF step, D, below, T, size
  <2> QED BY <1>2, <1>4, Recursion
<1>6. ASSUME NEW i \in D
      PROVE  f[i] = next(i, f)
  <2>1. PICK g : g = [j \in below[i] |-> f[j]]
    OBVIOUS
  <2>2. g \in [below[i] -> T] /\ \A j \in below[i] : g[j] = f[j]
    BY <1>1, <2>1
  <2>3. f[i] = next(i, g)
    <3>1. f[i] = step[i][g]
      <4> HIDE DEF step, D, below, T
      <4> QED BY <1>5, <2>2 DEF Follows
    <3> QED BY <2>2, <3>1
  <2>4. next(i, g) = next(i, f)
    <3>1. CASE i > L
      BY <3>1
    <3>2. CASE ~(i > L)
      BY <1>1, <2>2, <3>2
    <3> QED BY <3>1, <3>2
  <2> QED BY <2>3, <2>4
<1>7. f = [i \in D |-> next(i, f)]
  <2> HIDE DEF next, D
  <2> QED BY <1>6
<1> DEFINE from == CHOOSE h : h = [i \in D |-> next(i, h)]
<1>8. from = [i \in D |-> next(i, from)]
  <2> HIDE DEF next, D
  <2> QED BY <1>7
<1>9. Joined(texts, w) = Word("(") \o from[1]
  BY DEF Joined, Lead
<1> HIDE DEF from
<1>10. \A i \in D : from[i] = next(i, from)
  <2> HIDE DEF next, D
  <2> QED BY <1>8
<1>11. from[L + 1] = Word(")")
  BY <1>1, <1>10
<1>12. ASSUME NEW i \in 1..L
       PROVE  from[i] = Lead(i, w) \o (texts[i] \o from[i + 1])
  <2>1. i \in D /\ ~(i > L)
    BY <1>1
  <2>2. from[i] = next(i, from)
    BY <1>10, <2>1
  <2> QED BY <2>1, <2>2
<1> DEFINE S == {k \in Nat : k <= L => from[L + 1 - k] \in T}
<1>13. 0 \in S
  <2>1. L + 1 - 0 = L + 1
    BY <1>1
  <2>2. Word(")") \in T
    BY WordIsText
  <2>3. from[L + 1 - 0] \in T
    BY <1>11, <2>1, <2>2
  <2> QED BY <2>3
<1>14. ASSUME NEW k \in Nat, k \in S
       PROVE  k + 1 \in S
  <2> SUFFICES ASSUME k + 1 <= L
               PROVE  from[L + 1 - (k + 1)] \in T
    OBVIOUS
  <2>1. PICK i : i = L - k
    OBVIOUS
  <2>2. i \in 1..L /\ L + 1 - (k + 1) = i /\ L + 1 - k = i + 1 /\ k <= L
    BY <1>1, <2>1
  <2>3. from[i + 1] \in T /\ texts[i] \in T
    BY <1>14, <2>2
  <2>4. texts[i] \o from[i + 1] \in T
    BY <2>3, ConcatProperties
  <2>5. Lead(i, w) \o (texts[i] \o from[i + 1]) \in T
    BY <2>4, LeadIsText, ConcatProperties
  <2>6. from[i] \in T
    BY <1>12, <2>2, <2>5
  <2> QED BY <2>2, <2>6
<1>15. Nat \subseteq S
  <2> HIDE DEF S
  <2> QED BY <1>13, <1>14, NatSetInduction
<1>16. ASSUME NEW i \in D
       PROVE  from[i] \in T
  <2>1. PICK k : k = L + 1 - i
    OBVIOUS
  <2>2. k \in Nat /\ k <= L /\ L + 1 - k = i
    BY <1>1, <2>1
  <2>3. k \in S
    BY <1>15, <2>2
  <2> QED BY <2>2, <2>3
<1>17. from \in [D -> T]
  <2> HIDE DEF next, D, T
  <2> QED BY <1>8, <1>16
<1> QED BY <1>9, <1>11, <1>12, <1>17 DEF Reads

\* The text of a group is one.
LEMMA JoinedIsText ==
    ASSUME NEW texts \in Seq(Seq(Tokens)), NEW w \in {"AND", "OR"}
    PROVE  Joined(texts, w) \in Seq(Tokens)
<1>1. PICK from : Reads(from, texts, w) /\ Joined(texts, w) = Word("(") \o from[1]
  BY JoinedReads
<1>2. Len(texts) \in Nat
  OBVIOUS
<1>3. from \in [1..(Len(texts) + 1) -> Seq(Tokens)]
  BY <1>1 DEF Reads
<1>4. 1 \in 1..(Len(texts) + 1)
  BY <1>2
<1>5. from[1] \in Seq(Tokens)
  BY <1>3, <1>4
<1>6. Word("(") \in Seq(Tokens)
  BY WordIsText
<1>7. Word("(") \o from[1] \in Seq(Tokens)
  BY <1>5, <1>6, ConcatProperties
<1> QED BY <1>1, <1>7

DescriptionStep(c, g) ==
    CASE c.kind = "all" -> Joined([i \in DOMAIN c.subs |-> g[c.subs[i]]], "AND")
      [] c.kind = "any" -> Joined([i \in DOMAIN c.subs |-> g[c.subs[i]]], "OR")
      [] c.kind = "not" -> Word("NOT (") \o (g[c.sub] \o Word(")"))
      [] OTHER -> LeafText(c)

Description == GenerateConditionDescription

\* Every accepted condition has a text, and texts obey their recursion.
LEMMA DescriptionUnfolds ==
    /\ Description \in [Accepted -> Seq(Tokens)]
    /\ \A c \in Accepted : Description[c] = DescriptionStep(c, Description)
<1> DEFINE T == Seq(Tokens)
           step == [c \in Accepted |-> [g \in [Subs(c) -> T] |-> DescriptionStep(c, g)]]
<1>1. ASSUME NEW c \in Accepted, NEW g \in [Subs(c) -> T]
      PROVE  step[c][g] \in T
  <2>1. CASE c.kind \in {"all", "any"}
    <3>1. PICK texts : texts = [i \in DOMAIN c.subs |-> g[c.subs[i]]]
      OBVIOUS
    <3>2. \A i \in DOMAIN c.subs : g[c.subs[i]] \in T
      BY <2>1, AcceptedGroup
    <3>3. DOMAIN c.subs = 1..Len(c.subs) /\ Len(c.subs) \in Nat
      BY <2>1, AcceptedGroup
    <3>4. texts \in Seq(T)
      BY <3>1, <3>2, <3>3
    <3>5. Joined(texts, "AND") \in T /\ Joined(texts, "OR") \in T
      BY <3>4, JoinedIsText
    <3> QED BY <2>1, <3>1, <3>5 DEF DescriptionStep
  <2>2. CASE c.kind = "not"
    <3>1. g[c.sub] \in T
      BY <2>2, AcceptedNot
    <3>2. g[c.sub] \o Word(")") \in T
      BY <3>1, WordIsText, ConcatProperties
    <3>3. Word("NOT (") \o (g[c.sub] \o Word(")")) \in T
      BY <3>2, WordIsText, ConcatProperties
    <3> QED BY <2>2, <3>3 DEF DescriptionStep
  <2>3. CASE c.kind \notin {"all", "any", "not"}
    <3>1. c \in Conditions /\ c.kind = "simple"
      BY <2>3, AcceptedSimple DEF Accepted
    <3>2. LeafText(c) \in T
      BY <3>1, RuleEngineAssumption
    <3> QED BY <2>3, <3>2 DEF DescriptionStep
  <2> QED BY <2>1, <2>2, <2>3
<1>2. ASSUME NEW c \in Accepted, NEW g, NEW h, \A d \in Subs(c) : g[d] = h[d]
      PROVE  DescriptionStep(c, g) = DescriptionStep(c, h)
  <2>1. CASE c.kind \in {"all", "any"}
    <3>1. \A i \in DOMAIN c.subs : g[c.subs[i]] = h[c.subs[i]]
      BY <1>2, <2>1, AcceptedGroup
    <3>2. [i \in DOMAIN c.subs |-> g[c.subs[i]]] = [i \in DOMAIN c.subs |-> h[c.subs[i]]]
      BY <3>1
    <3> QED BY <2>1, <3>2 DEF DescriptionStep
  <2>2. CASE c.kind = "not"
    <3>1. g[c.sub] = h[c.sub]
      BY <1>2, <2>2, AcceptedNot
    <3> QED BY <2>2, <3>1 DEF DescriptionStep
  <2>3. CASE c.kind \notin {"all", "any", "not"}
    BY <2>3 DEF DescriptionStep
  <2> QED BY <2>1, <2>2, <2>3
<1> HIDE DEF step
<1>3. StepsUp(step, T)
  BY <1>1 DEF StepsUp
<1> HIDE DEF T
<1>4. PICK f \in [Accepted -> T] : Climbs(f, step, T)
  BY <1>3, AcceptedRecursion
<1>5. ASSUME NEW c \in Accepted
      PROVE  f[c] = DescriptionStep(c, f)
  <2>1. PICK g \in [Subs(c) -> T] : (\A d \in Subs(c) : g[d] = f[d]) /\ f[c] = step[c][g]
    BY <1>4 DEF Climbs
  <2>2. f[c] = DescriptionStep(c, g)
    BY <2>1 DEF step
  <2> QED BY <1>2, <2>1, <2>2
<1>6. f = [c \in Accepted |-> DescriptionStep(c, f)]
  BY <1>5
<1>7. Description = [c \in Accepted |-> DescriptionStep(c, Description)]
  BY <1>6 DEF Description, GenerateConditionDescription, DescriptionStep
<1>8. \A c \in Accepted : Description[c] = DescriptionStep(c, Description)
  BY <1>7
<1> DEFINE S == {c \in Accepted : Description[c] = f[c]}
<1>9. ASSUME NEW c \in Accepted, Subs(c) \subseteq S
      PROVE  c \in S
  BY <1>2, <1>5, <1>8, <1>9
<1>10. Accepted \subseteq S
  BY <1>9, AcceptedInduction
<1>11. Description = f
  BY <1>7, <1>10
<1> QED BY <1>8, <1>11 DEF T

-----------------------------------------------------------------------------
(* Reading a description back *)

\* Equal texts begin with the same word and go on alike.
LEMMA SameHead ==
    ASSUME NEW S, NEW a \in S, NEW b \in S, NEW s \in Seq(S), NEW t \in Seq(S),
           <<a>> \o s = <<b>> \o t
    PROVE  a = b /\ s = t
<1>1. PICK u : u = <<a>>
  OBVIOUS
<1>2. PICK v : v = <<b>>
  OBVIOUS
<1>3. u \in Seq(S) /\ Len(u) = 1 /\ u[1] = a
  BY <1>1, SingleIsSeq
<1>4. v \in Seq(S) /\ Len(v) = 1 /\ v[1] = b
  BY <1>2, SingleIsSeq
<1>5. u \o s = v \o t
  BY <1>1, <1>2
<1>6. Len(s) \in Nat /\ Len(t) \in Nat
  OBVIOUS
<1>7. (u \o s)[1] = a
  BY <1>3, <1>6, ConcatProperties
<1>8. (v \o t)[1] = b
  BY <1>4, <1>6, ConcatProperties
<1>9. a = b
  BY <1>5, <1>7, <1>8
<1>10. u \o s = u \o t
  BY <1>1, <1>2, <1>5, <1>9
<1>11. s = t
  BY <1>3, <1>10, ConcatSimplifications
<1> QED BY <1>9, <1>11

\* After the same word, equal texts go on alike.
LEMMA SameTail ==
    ASSUME NEW a \in Tokens, NEW s \in Seq(Tokens), NEW t \in Seq(Tokens),
           <<a>> \o s = <<a>> \o t
    PROVE  s = t
BY SameHead

\* Texts can be put together in any order.
LEMMA TextsAssociate ==
    \A r, s, t \in Seq(Tokens) : (r \o s) \o t = r \o (s \o t)
BY ConcatAssociative

\* The word between the members of a group.
GroupWord(c) == IF c.kind = "all" THEN "AND" ELSE "OR"

\* The accepted conditions without an empty group or a leaf that could be read
\* as something else.
Solid == {c \in Accepted : Legible(c)}

\* The text of such a leaf is the leaf.
LEMMA DescriptionOfSimple ==
    ASSUME NEW c \in Solid, c.kind \notin {"all", "any", "not"}
    PROVE  Description[c] = <<c>>
<1>1. c \in Accepted /\ LeafText(c) = <<c>>
  BY LeavesByKind DEF Solid, Legible
<1>2. Description[c] = LeafText(c)
  BY <1>1, DescriptionUnfolds DEF DescriptionStep
<1> QED BY <1>1, <1>2

\* The text of a negation, and what follows it.
LEMMA DescriptionOfNot ==
    ASSUME NEW c \in Accepted, c.kind = "not", NEW s \in Seq(Tokens)
    PROVE  Description[c] \o s =
             <<Token("NOT (")>> \o (Description[c.sub] \o (<<Token(")")>> \o s))
<1> DEFINE T == Seq(Tokens)
<1>1. PICK open : open = <<Token("NOT (")>>
  OBVIOUS
<1>2. PICK close : close = <<Token(")")>>
  OBVIOUS
<1>3. open \in T /\ Word("NOT (") = open
  BY <1>1, WordIsText
<1>4. close \in T /\ Word(")") = close
  BY <1>2, WordIsText
<1>5. PICK text1 : text1 = Description[c.sub]
  OBVIOUS
<1>6. text1 \in T
  BY <1>5, AcceptedNot, DescriptionUnfolds
<1>7. Description[c] = open \o (text1 \o close)
  BY <1>3, <1>4, <1>5, DescriptionUnfolds DEF DescriptionStep
<1>8. text1 \o close \in T /\ close \o s \in T
  BY <1>4, <1>6, ConcatProperties
<1>9. (open \o (text1 \o close)) \o s = open \o ((text1 \o close) \o s)
  BY <1>3, <1>8, TextsAssociate
<1>10. (text1 \o close) \o s = text1 \o (close \o s)
  BY <1>4, <1>6, TextsAssociate
<1> QED BY <1>1, <1>2, <1>5, <1>7, <1>9, <1>10

\* from[i] is the text from the i-th member of the group c to its end, and s.
Rests(from, c, s) ==
    /\ from \in [1..(Len(c.subs) + 1) -> Seq(Tokens)]
    /\ from[Len(c.subs) + 1] = <<Token(")")>> \o s
    /\ \A i \in 1..Len(c.subs) :
          from[i] = Lead(i, GroupWord(c)) \o (Description[c.subs[i]] \o from[i + 1])

\* The text of a group, and what follows it.
LEMMA DescriptionOfGroup ==
    ASSUME NEW c \in Accepted, c.kind \in {"all", "any"}, NEW s \in Seq(Tokens)
    PROVE  \E from : Rests(from, c, s) /\ Description[c] \o s = <<Token("(")>> \o from[1]
<1> DEFINE T == Seq(Tokens)
<1>1. PICK w : w = GroupWord(c)
  OBVIOUS
<1>2. w \in {"AND", "OR"}
  BY <1>1 DEF GroupWord
<1>3. PICK texts : texts = [i \in DOMAIN c.subs |-> Description[c.subs[i]]]
  OBVIOUS
<1>4. PICK n : n = Len(c.subs)
  OBVIOUS
<1>5. n \in Nat /\ DOMAIN c.subs = 1..n
  BY <1>4, AcceptedGroup
<1>6. \A i \in 1..n : texts[i] = Description[c.subs[i]] /\ texts[i] \in T
  BY <1>3, <1>5, AcceptedGroup, DescriptionUnfolds
<1>7. texts \in Seq(T) /\ Len(texts) = n
  BY <1>3, <1>5, <1>6
<1>8. Description[c] = Joined(texts, w)
  BY <1>1, <1>3, DescriptionUnfolds DEF DescriptionStep, GroupWord
<1>9. PICK f : Reads(f, texts, w) /\ Joined(texts, w) = Word("(") \o f[1]
  BY <1>2, <1>7, JoinedReads
<1>10. /\ \A i \in 1..(n + 1) : f[i] \in T
       /\ f[n + 1] = Word(")")
       /\ \A i \in 1..n : f[i] = Lead(i, w) \o (texts[i] \o f[i + 1])
  BY <1>7, <1>9 DEF Reads
<1>11. PICK from : from = [i \in 1..(n + 1) |-> f[i] \o s]
  OBVIOUS
<1>12. \A i \in 1..(n + 1) : from[i] = f[i] \o s /\ from[i] \in T
  BY <1>10, <1>11, ConcatProperties
<1>13. from \in [1..(n + 1) -> T]
  <2> HIDE DEF T
  <2> QED BY <1>11, <1>12
<1>14. n + 1 \in 1..(n + 1) /\ 1 \in 1..(n + 1)
  BY <1>5
<1>15. from[n + 1] = <<Token(")")>> \o s
  <2>1. Word(")") = <<Token(")")>>
    BY WordIsText
  <2> QED BY <1>10, <1>12, <1>14, <2>1
<1>16. ASSUME NEW i \in 1..n
       PROVE  from[i] = Lead(i, w) \o (Description[c.subs[i]] \o from[i + 1])
  <2>1. i \in 1..(n + 1) /\ i + 1 \in 1..(n + 1)
    BY <1>5
  <2>2. PICK lead : lead = Lead(i, w)
    OBVIOUS
  <2>3. lead \in T
    BY <1>2, <2>2, LeadIsText
  <2>4. texts[i] \in T /\ f[i + 1] \in T
    BY <1>6, <1>10, <2>1
  <2>5. texts[i] \o f[i + 1] \in T
    BY <2>4, ConcatProperties
  <2>6. (lead \o (texts[i] \o f[i + 1])) \o s = lead \o ((texts[i] \o f[i + 1]) \o s)
    BY <2>3, <2>5, TextsAssociate
  <2>7. (texts[i] \o f[i + 1]) \o s = texts[i] \o (f[i + 1] \o s)
    BY <2>4, TextsAssociate
  <2>8. from[i] = f[i] \o s /\ from[i + 1] = f[i + 1] \o s
    BY <1>12, <2>1
  <2>9. f[i] = lead \o (texts[i] \o f[i + 1])
    BY <1>10, <2>2
  <2> QED BY <1>6, <2>2, <2>6, <2>7, <2>8, <2>9
<1>17. Rests(from, c, s)
  BY <1>1, <1>4, <1>13, <1>15, <1>16 DEF Rests
<1>18. Description[c] \o s = <<Token("(")>> \o from[1]
  <2>1. PICK open : open = <<Token("(")>>
    OBVIOUS
  <2>2. open \in T /\ Word("(") = open
    BY <2>1, WordIsText
  <2>3. f[1] \in T
    BY <1>10, <1>14
  <2>4. (open \o f[1]) \o s = open \o (f[1] \o s)
    BY <2>2, <2>3, TextsAssociate
  <2> QED BY <1>8, <1>9, <1>12, <1>14, <2>1, <2>2, <2>4
<1> QED BY <1>17, <1>18

\* The first word of a text.
Opening(c) ==
    CASE c.kind \in {"all", "any"} -> Token("(")
      [] c.kind = "not" -> Token("NOT (")
      [] OTHER -> c

\* Every text begins with its opening.
LEMMA TextOpens ==
    ASSUME NEW c \in Accepted, c \in Solid, NEW s \in Seq(Tokens)
    PROVE  /\ Opening(c) \in Tokens
           /\ \E r \in Seq(Tokens) : Description[c] \o s = <<Opening(c)>> \o r
<1>1. CASE c.kind \in {"all", "any"}
  <2>1. PICK from : Rests(from, c, s) /\ Description[c] \o s = <<Token("(")>> \o from[1]
    BY <1>1, DescriptionOfGroup
  <2>2. PICK n : n = Len(c.subs)
    OBVIOUS
  <2>3. 1 \in 1..(n + 1)
    BY <1>1, <2>2, AcceptedGroup
  <2>4. from \in [1..(n + 1) -> Seq(Tokens)]
    BY <2>1, <2>2 DEF Rests
  <2>5. from[1] \in Seq(Tokens)
    BY <2>3, <2>4
  <2>6. Opening(c) = Token("(") /\ Token("(") \in Tokens
    BY <1>1 DEF Opening, Tokens
  <2> QED BY <2>1, <2>5, <2>6
<1>2. CASE c.kind = "not"
  <2>1. <<Token(")")>> \in Seq(Tokens)
    BY WordIsText
  <2>2. <<Token(")")>> \o s \in Seq(Tokens)
    BY <2>1, ConcatProperties
  <2>3. Description[c.sub] \in Seq(Tokens)
    BY <1>2, AcceptedNot, DescriptionUnfolds
  <2>4. Description[c.sub] \o (<<Token(")")>> \o s) \in Seq(Tokens)
    BY <2>2, <2>3, ConcatProperties
  <2>5. Description[c] \o s =
          <<Token("NOT (")>> \o (Description[c.sub] \o (<<Token(")")>> \o s))
    BY <1>2, DescriptionOfNot
  <2>6. Opening(c) = Token("NOT (") /\ Token("NOT (") \in Tokens
    BY <1>2 DEF Opening, Tokens
  <2> QED BY <2>4, <2>5, <2>6
<1>3. CASE c.kind \notin {"all", "any", "not"}
  <2>1. Opening(c) = c /\ c \in Tokens
    BY <1>3, AcceptedSimple DEF Opening, Tokens, Accepted
  <2> QED BY <1>3, <2>1, DescriptionOfSimple
<1> QED BY <1>1, <1>2, <1>3

\* The kinds of a condition that its text tells apart.
IsGroup(c) == c.kind \in {"all", "any"}

\* A leaf, a negation and a group open differently, and a leaf with itself.
LEMMA OpeningTellsKind ==
    ASSUME NEW c \in Accepted, NEW d \in Accepted, Opening(c) = Opening(d)
    PROVE  /\ IsGroup(c) <=> IsGroup(d)
           /\ c.kind = "not" <=> d.kind = "not"
           /\ c.kind \notin {"all", "any", "not"} => c = d
<1>1. \A e \in Accepted : e.kind \notin {"all", "any", "not"} => e.kind = "simple"
  BY AcceptedSimple
<1>2. /\ Token("(").kind = "word" /\ Token("(").word = "("
      /\ Token("NOT (").kind = "word" /\ Token("NOT (").word = "NOT ("
  BY DEF Token
<1> QED BY <1>1, <1>2 DEF Opening, IsGroup

\* On every payload the two conditions throw, or hold, alike.
SameMeaning(c, d) ==
    \A p \in Payloads :
        /\ Evaluation[c][p].throws <=> Evaluation[d][p].throws
        /\ Evaluation[c][p].result <=> Evaluation[d][p].result

\* A text that begins with that of c, and with that of d, goes on alike after
\* both, and they mean the same.
ReadsAlike(c, d) ==
    \A s \in Seq(Tokens) : \A t \in Seq(Tokens) :
        Description[c] \o s = Description[d] \o t => SameMeaning(c, d) /\ s = t

ReadsUniquely(c) == \A d \in Solid : ReadsAlike(c, d)

\* The groups of a solid condition have members, and its parts are solid.
LEMMA SolidParts ==
    ASSUME NEW c \in Solid
    PROVE  Subs(c) \subseteq Solid /\ (IsGroup(c) => c.subs # <<>>)
<1>1. c \in Accepted /\ Within[c] = {c} \cup UNION {Within[d] : d \in Subs(c)}
  BY WithinUnfolds DEF Solid
<1>2. Subs(c) \subseteq Accepted
  BY <1>1, AcceptedParts
<1>3. \A d \in Within[c] : ~(d.kind \in {"all", "any"} /\ d.subs = <<>>)
  BY DEF Solid, Legible, HasEmptyGroup
<1>4. \A d \in Subs(c) : Within[d] \subseteq Within[c]
  BY <1>1
<1>5. \A d \in Subs(c) : ~HasEmptyGroup(d)
  BY <1>3, <1>4 DEF HasEmptyGroup
<1>6. IsGroup(c) => c.subs # <<>>
  BY <1>1, <1>3 DEF IsGroup
<1>7. \A d \in Subs(c) : LeavesOf(d) \subseteq LeavesOf(c)
  BY <1>4 DEF LeavesOf
<1>8. \A d \in Subs(c) : \A leaf \in LeavesOf(d) : LeafText(leaf) = <<leaf>>
  BY <1>7 DEF Solid, Legible
<1> QED BY <1>2, <1>5, <1>6, <1>8 DEF Solid, Legible

\* What a group's text is from its first member on, and from a later one on.
Opened(from, c, s) ==
    /\ \A i \in 1..(Len(c.subs) + 1) : from[i] \in Seq(Tokens)
    /\ \A i \in 1..Len(c.subs) : Description[c.subs[i]] \in Seq(Tokens)
    /\ \A i \in 1..Len(c.subs) :
          i = 1 => from[i] = Description[c.subs[i]] \o from[i + 1]
    /\ \A i \in 1..Len(c.subs) :
          i # 1 => from[i] = <<Token(GroupWord(c))>> \o
                                 (Description[c.subs[i]] \o from[i + 1])
    /\ from[Len(c.subs) + 1] = <<Token(")")>> \o s

\* The rests of a group are what Opened says.
LEMMA RestsUnfold ==
    ASSUME NEW c \in Accepted, IsGroup(c), NEW s \in Seq(Tokens), NEW from, Rests(from, c, s)
    PROVE  Opened(from, c, s)
<1>1. PICK n : n = Len(c.subs)
  OBVIOUS
<1>2. n \in Nat /\ DOMAIN c.subs = 1..n
  BY <1>1, AcceptedGroup DEF IsGroup
<1>3. from \in [1..(n + 1) -> Seq(Tokens)]
      /\ \A i \in 1..n :
            from[i] = Lead(i, GroupWord(c)) \o (Description[c.subs[i]] \o from[i + 1])
  BY <1>1 DEF Rests
<1>4. \A i \in 1..n : Description[c.subs[i]] \in Seq(Tokens)
  BY <1>2, AcceptedGroup, DescriptionUnfolds DEF IsGroup
<1>5. ASSUME NEW i \in 1..n
      PROVE  Description[c.subs[i]] \o from[i + 1] \in Seq(Tokens)
  <2>1. i + 1 \in 1..(n + 1)
    BY <1>2
  <2>2. from[i + 1] \in Seq(Tokens)
    BY <1>3, <2>1
  <2> QED BY <1>4, <2>2, ConcatProperties
<1>6. ASSUME NEW i \in 1..n, i = 1
      PROVE  from[i] = Description[c.subs[i]] \o from[i + 1]
  <2>1. PICK r : r = Description[c.subs[i]] \o from[i + 1]
    OBVIOUS
  <2>2. r \in Seq(Tokens)
    BY <1>5, <2>1
  <2>3. << >> \o r = r
    BY <2>2, ConcatEmptySeq
  <2>4. Lead(i, GroupWord(c)) = << >>
    BY <1>6 DEF Lead
  <2>5. from[i] = Lead(i, GroupWord(c)) \o r
    BY <1>3, <2>1
  <2> QED BY <2>1, <2>3, <2>4, <2>5
<1>7. ASSUME NEW i \in 1..n, i # 1
      PROVE  from[i] = <<Token(GroupWord(c))>> \o (Description[c.subs[i]] \o from[i + 1])
  <2>1. GroupWord(c) \in {"AND", "OR"}
    BY DEF GroupWord
  <2>2. Word(GroupWord(c)) = <<Token(GroupWord(c))>>
    BY <2>1, WordIsText
  <2>3. Lead(i, GroupWord(c)) = <<Token(GroupWord(c))>>
    BY <1>7, <2>2 DEF Lead
  <2> QED BY <1>3, <2>3
<1>8. \A i \in 1..(n + 1) : from[i] \in Seq(Tokens)
  BY <1>3
<1>9. from[n + 1] = <<Token(")")>> \o s
  BY <1>1 DEF Rests
<1> QED BY <1>1, <1>4, <1>6, <1>7, <1>8, <1>9 DEF Opened

\* The words of groups and the closing parenthesis differ.
LEMMA WordsDiffer ==
    ASSUME NEW c
    PROVE  /\ Token(GroupWord(c)) \in Tokens /\ Token(")") \in Tokens
           /\ Token(GroupWord(c)) # Token(")")
<1>1. GroupWord(c) \in {"AND", "OR"}
  BY DEF GroupWord
<1>2. Token(GroupWord(c)).word = GroupWord(c) /\ Token(")").word = ")"
  BY DEF Token
<1>3. Token(GroupWord(c)) \in Tokens /\ Token(")") \in Tokens
  BY <1>1, WordIsText
<1> QED BY <1>1, <1>2, <1>3

\* Two groups read alike up to their k-th members.
AlikeUpTo(k, c, d, from, rest) ==
    /\ k <= Len(d.subs)
    /\ from[k + 1] = rest[k + 1]
    /\ \A i \in 1..k : SameMeaning(c.subs[i], d.subs[i])
    /\ k > 1 => Token(GroupWord(c)) = Token(GroupWord(d))

\* Two equal texts of groups have equally many members, which mean the same.
LEMMA GroupsReadAlike ==
    ASSUME NEW c \in Solid, NEW d \in Solid, IsGroup(c), IsGroup(d),
           \A e \in Subs(c) : ReadsUniquely(e),
           NEW s \in Seq(Tokens), NEW t \in Seq(Tokens),
           NEW from, NEW rest, Rests(from, c, s), Rests(rest, d, t), from[1] = rest[1]
    PROVE  /\ Len(d.subs) = Len(c.subs) /\ AlikeUpTo(Len(c.subs), c, d, from, rest)
           /\ s = t
<1> DEFINE n == Len(c.subs)
           m == Len(d.subs)
           T == Seq(Tokens)
<1>1. c \in Accepted /\ d \in Accepted
  BY DEF Solid
<1>2. n \in Nat /\ DOMAIN c.subs = 1..n /\ n > 0
  BY <1>1, AcceptedGroup, SolidParts DEF IsGroup
<1>3. m \in Nat /\ DOMAIN d.subs = 1..m /\ m > 0
  BY <1>1, AcceptedGroup, SolidParts DEF IsGroup
<1>4. /\ \A i \in 1..(n + 1) : from[i] \in T
      /\ \A i \in 1..n : Description[c.subs[i]] \in T
      /\ \A i \in 1..n : i = 1 => from[i] = Description[c.subs[i]] \o from[i + 1]
      /\ \A i \in 1..n : i # 1 => from[i] =
            <<Token(GroupWord(c))>> \o (Description[c.subs[i]] \o from[i + 1])
      /\ from[n + 1] = <<Token(")")>> \o s
  <2>1. Opened(from, c, s)
    BY <1>1, RestsUnfold
  <2> QED BY <2>1 DEF Opened
<1>5. /\ \A i \in 1..(m + 1) : rest[i] \in T
      /\ \A i \in 1..m : Description[d.subs[i]] \in T
      /\ \A i \in 1..m : i = 1 => rest[i] = Description[d.subs[i]] \o rest[i + 1]
      /\ \A i \in 1..m : i # 1 => rest[i] =
            <<Token(GroupWord(d))>> \o (Description[d.subs[i]] \o rest[i + 1])
      /\ rest[m + 1] = <<Token(")")>> \o t
  <2>1. Opened(rest, d, t)
    BY <1>1, RestsUnfold
  <2> QED BY <2>1 DEF Opened
<1>6. ASSUME NEW i \in 1..n, NEW j \in 1..m
      PROVE  ReadsAlike(c.subs[i], d.subs[j])
  <2>1. c.subs[i] \in Subs(c)
    BY <1>1, <1>2, AcceptedGroup DEF IsGroup
  <2>2. d.subs[j] \in Solid
    BY <1>1, <1>3, AcceptedGroup, SolidParts DEF IsGroup
  <2>3. ReadsUniquely(c.subs[i])
    BY <2>1
  <2> QED BY <2>2, <2>3 DEF ReadsUniquely
<1> DEFINE S == {k \in Nat : k <= n => AlikeUpTo(k, c, d, from, rest)}
<1> HIDE DEF n, m, T
<1>7. 0 \in S
  <2>1. 0 + 1 = 1 /\ 1..0 = {} /\ 0 <= m
    BY <1>3
  <2>2. AlikeUpTo(0, c, d, from, rest)
    BY <2>1 DEF AlikeUpTo, m
  <2> QED BY <2>2
<1>8. ASSUME NEW k \in Nat, k \in S
      PROVE  k + 1 \in S
  <2> SUFFICES ASSUME k + 1 <= n
               PROVE  AlikeUpTo(k + 1, c, d, from, rest)
    OBVIOUS
  <2>1. PICK i : i = k + 1
    OBVIOUS
  <2>2. i \in 1..n /\ i + 1 \in 1..(n + 1) /\ k <= n
    BY <1>2, <2>1
  <2>3. /\ k <= m /\ from[i] = rest[i]
        /\ \A j \in 1..k : SameMeaning(c.subs[j], d.subs[j])
    BY <1>8, <2>1, <2>2 DEF AlikeUpTo, m
  <2>4. i \in 1..m /\ (i # 1 => Token(GroupWord(c)) = Token(GroupWord(d)))
        /\ Description[c.subs[i]] \o from[i + 1] = Description[d.subs[i]] \o rest[i + 1]
    <3>1. CASE i = 1
      <4>1. i \in 1..m
        BY <1>3, <3>1
      <4>2. from[i] = Description[c.subs[i]] \o from[i + 1]
        BY <1>4, <2>2, <3>1
      <4>3. rest[i] = Description[d.subs[i]] \o rest[i + 1]
        BY <1>5, <4>1, <3>1
      <4> QED BY <2>3, <3>1, <4>1, <4>2, <4>3
    <3>2. CASE i # 1
      <4>1. PICK r : r = Description[c.subs[i]] \o from[i + 1]
        OBVIOUS
      <4>2. r \in T
        <5>1. Description[c.subs[i]] \in T /\ from[i + 1] \in T
          BY <1>4, <2>2
        <5> QED BY <4>1, <5>1, ConcatProperties DEF T
      <4>3. from[i] = <<Token(GroupWord(c))>> \o r
        BY <1>4, <2>2, <3>2, <4>1
      <4>4. i # m + 1
        <5> SUFFICES ASSUME i = m + 1 PROVE FALSE
          OBVIOUS
        <5>1. <<Token(GroupWord(c))>> \o r = <<Token(")")>> \o t
          BY <1>5, <2>3, <4>3
        <5>2. Token(GroupWord(c)) = Token(")")
          BY <4>2, <5>1, WordsDiffer, SameHead DEF T
        <5> QED BY <5>2, WordsDiffer
      <4>5. i \in 1..m
        BY <1>3, <2>1, <2>3, <4>4
      <4>6. PICK q : q = Description[d.subs[i]] \o rest[i + 1]
        OBVIOUS
      <4>7. q \in T
        <5>1. i + 1 \in 1..(m + 1)
          BY <1>3, <4>5
        <5>2. Description[d.subs[i]] \in T /\ rest[i + 1] \in T
          BY <1>5, <4>5, <5>1
        <5> QED BY <4>6, <5>2, ConcatProperties DEF T
      <4>8. rest[i] = <<Token(GroupWord(d))>> \o q
        BY <1>5, <3>2, <4>5, <4>6
      <4>9. <<Token(GroupWord(c))>> \o r = <<Token(GroupWord(d))>> \o q
        BY <2>3, <4>3, <4>8
      <4>10. Token(GroupWord(c)) = Token(GroupWord(d)) /\ r = q
        BY <4>2, <4>7, <4>9, WordsDiffer, SameHead DEF T
      <4> QED BY <4>1, <4>5, <4>6, <4>10
    <3> QED BY <3>1, <3>2
  <2>5. from[i + 1] \in T /\ rest[i + 1] \in T
    <3>1. i + 1 \in 1..(m + 1)
      BY <1>3, <2>4
    <3> QED BY <1>4, <1>5, <2>2, <3>1
  <2>6. ReadsAlike(c.subs[i], d.subs[i])
    BY <1>6, <2>2, <2>4
  <2>7. SameMeaning(c.subs[i], d.subs[i]) /\ from[i + 1] = rest[i + 1]
    BY <2>4, <2>5, <2>6 DEF ReadsAlike, T
  <2>8. \A j \in 1..i : SameMeaning(c.subs[j], d.subs[j])
    <3>1. \A j \in 1..i : j \in 1..k \/ j = i
      BY <2>1
    <3> QED BY <2>3, <2>7, <3>1
  <2>9. i <= m /\ (i > 1 => i # 1)
    BY <1>3, <2>4
  <2> QED BY <2>1, <2>4, <2>7, <2>8, <2>9 DEF AlikeUpTo, m
<1>9. Nat \subseteq S
  <2> HIDE DEF S
  <2> QED BY <1>7, <1>8, NatSetInduction
<1>10. AlikeUpTo(n, c, d, from, rest)
  <2>1. n \in S /\ n <= n
    BY <1>2, <1>9
  <2> QED BY <2>1
<1>11. n <= m /\ from[n + 1] = rest[n + 1]
  BY <1>10 DEF AlikeUpTo, m
<1>12. n = m
  <2> SUFFICES ASSUME n + 1 <= m PROVE FALSE
    BY <1>2, <1>3, <1>11
  <2>1. PICK i : i = n + 1
    OBVIOUS
  <2>2. i \in 1..m /\ i # 1 /\ i + 1 \in 1..(m + 1)
    BY <1>2, <1>3, <2>1
  <2>3. PICK q : q = Description[d.subs[i]] \o rest[i + 1]
    OBVIOUS
  <2>4. q \in T
    <3>1. Description[d.subs[i]] \in T /\ rest[i + 1] \in T
      BY <1>5, <2>2
    <3> QED BY <2>3, <3>1, ConcatProperties DEF T
  <2>5. rest[i] = <<Token(GroupWord(d))>> \o q
    BY <1>5, <2>2, <2>3
  <2>6. <<Token(")")>> \o s = <<Token(GroupWord(d))>> \o q
    BY <1>4, <1>11, <2>1, <2>5
  <2>7. Token(")") = Token(GroupWord(d))
    BY <2>4, <2>6, WordsDiffer, SameHead DEF T
  <2> QED BY <2>7, WordsDiffer
<1>13. s = t
  <2>1. <<Token(")")>> \o s = <<Token(")")>> \o t
    BY <1>4, <1>5, <1>11, <1>12
  <2> QED BY <2>1, WordsDiffer, SameHead
<1> QED BY <1>10, <1>12, <1>13 DEF n, m

\* Groups of the same kind, or of one member, mean the same when the members do.
LEMMA GroupsMeanAlike ==
    ASSUME NEW c \in Accepted, NEW d \in Accepted, IsGroup(c), IsGroup(d),
           Len(d.subs) = Len(c.subs), c.kind = d.kind \/ Len(c.subs) = 1,
           \A i \in 1..Len(c.subs) : SameMeaning(c.subs[i], d.subs[i])
    PROVE  SameMeaning(c, d)
<1> SUFFICES ASSUME NEW p \in Payloads
             PROVE  /\ Evaluation[c][p].throws <=> Evaluation[d][p].throws
                    /\ Evaluation[c][p].result <=> Evaluation[d][p].result
  BY DEF SameMeaning
<1>1. PICK D : D = DOMAIN c.subs
  OBVIOUS
<1>2. D = 1..Len(c.subs) /\ D = DOMAIN d.subs /\ (Len(c.subs) = 1 => D = {1})
  BY <1>1, AcceptedGroup DEF IsGroup
<1>3. \A i \in D : /\ Evaluation[c.subs[i]][p].throws <=> Evaluation[d.subs[i]][p].throws
                   /\ Evaluation[c.subs[i]][p].result <=> Evaluation[d.subs[i]][p].result
  BY <1>2 DEF SameMeaning
<1>4. /\ Evaluation[c][p].throws <=> \E i \in D : Evaluation[c.subs[i]][p].throws
      /\ c.kind = "all" => (Evaluation[c][p].result <=>
            \A i \in D : Evaluation[c.subs[i]][p].result)
      /\ c.kind = "any" => (Evaluation[c][p].result <=>
            \E i \in D : Evaluation[c.subs[i]][p].result)
  BY <1>1, EvaluationOfGroup DEF IsGroup
<1>5. /\ Evaluation[d][p].throws <=> \E i \in D : Evaluation[d.subs[i]][p].throws
      /\ d.kind = "all" => (Evaluation[d][p].result <=>
            \A i \in D : Evaluation[d.subs[i]][p].result)
      /\ d.kind = "any" => (Evaluation[d][p].result <=>
            \E i \in D : Evaluation[d.subs[i]][p].result)
  BY <1>2, EvaluationOfGroup DEF IsGroup
<1>6. Evaluation[c][p].throws <=> Evaluation[d][p].throws
  BY <1>3, <1>4, <1>5
<1>7. CASE c.kind = d.kind
  BY <1>3, <1>4, <1>5, <1>6, <1>7 DEF IsGroup
<1>8. CASE D = {1}
  BY <1>3, <1>4, <1>5, <1>6, <1>8 DEF IsGroup
<1> QED BY <1>2, <1>7, <1>8

\* No text of a solid condition can be read as another one's with another meaning.
LEMMA UniqueReading ==
    ASSUME NEW c \in Accepted, c \in Solid
    PROVE  ReadsUniquely(c)
<1> DEFINE S == {e \in Accepted : e \in Solid => ReadsUniquely(e)}
<1>1. ASSUME NEW e \in Accepted, Subs(e) \subseteq S
      PROVE  e \in S
  <2> SUFFICES ASSUME e \in Solid, NEW d \in Solid,
                      NEW s \in Seq(Tokens), NEW t \in Seq(Tokens),
                      Description[e] \o s = Description[d] \o t
               PROVE  SameMeaning(e, d) /\ s = t
    BY DEF ReadsUniquely, ReadsAlike
  <2>1. d \in Accepted
    BY DEF Solid
  <2>2. \A f \in Subs(e) : ReadsUniquely(f)
    BY <1>1, SolidParts
  <2>3. Opening(e) = Opening(d)
    <3>1. PICK q \in Seq(Tokens) : Description[e] \o s = <<Opening(e)>> \o q
      BY TextOpens
    <3>2. PICK r \in Seq(Tokens) : Description[d] \o t = <<Opening(d)>> \o r
      BY <2>1, TextOpens
    <3>3. Opening(e) \in Tokens /\ Opening(d) \in Tokens
      BY <2>1, TextOpens
    <3>4. <<Opening(e)>> \o q = <<Opening(d)>> \o r
      BY <3>1, <3>2
    <3> QED BY <3>3, <3>4, SameHead
  <2>4. /\ IsGroup(e) <=> IsGroup(d)
        /\ e.kind = "not" <=> d.kind = "not"
        /\ e.kind \notin {"all", "any", "not"} => e = d
    BY <2>1, <2>3, OpeningTellsKind
  <2>5. CASE IsGroup(e)
    <3>1. PICK from : Rests(from, e, s) /\ Description[e] \o s = <<Token("(")>> \o from[1]
      BY <2>5, DescriptionOfGroup DEF IsGroup
    <3>2. PICK rest : Rests(rest, d, t) /\ Description[d] \o t = <<Token("(")>> \o rest[1]
      BY <2>1, <2>4, <2>5, DescriptionOfGroup DEF IsGroup
    <3>3. Len(e.subs) \in Nat /\ Len(d.subs) \in Nat
      BY <2>1, <2>4, <2>5, AcceptedGroup DEF IsGroup
    <3>4. 1 \in 1..(Len(e.subs) + 1) /\ 1 \in 1..(Len(d.subs) + 1)
      BY <3>3
    <3>5. from[1] \in Seq(Tokens) /\ rest[1] \in Seq(Tokens)
      BY <3>1, <3>2, <3>4 DEF Rests
    <3>6. <<Token("(")>> \o from[1] = <<Token("(")>> \o rest[1]
      BY <3>1, <3>2
    <3>7. Token("(") \in Tokens
      BY WordIsText
    <3>8. from[1] = rest[1]
      BY <3>5, <3>6, <3>7, SameTail
    <3>9. /\ Len(d.subs) = Len(e.subs) /\ AlikeUpTo(Len(e.subs), e, d, from, rest)
          /\ s = t
      BY <2>2, <2>4, <2>5, <3>1, <3>2, <3>8, GroupsReadAlike
    <3>10. /\ \A i \in 1..Len(e.subs) : SameMeaning(e.subs[i], d.subs[i])
           /\ Len(e.subs) > 1 => Token(GroupWord(e)) = Token(GroupWord(d))
      BY <3>9 DEF AlikeUpTo
    <3>11. e.kind = d.kind \/ Len(e.subs) = 1
      <4>1. e.subs # <<>> /\ Len(e.subs) > 0
        BY <2>5, AcceptedGroup, SolidParts DEF IsGroup
      <4>2. PICK n : n = Len(e.subs)
        OBVIOUS
      <4>3. CASE Len(e.subs) > 1
        <5>1. Token(GroupWord(e)).word = GroupWord(e) /\ Token(GroupWord(d)).word = GroupWord(d)
          BY DEF Token
        <5>2. GroupWord(e) = GroupWord(d)
          BY <3>10, <4>3, <5>1
        <5> QED BY <2>4, <2>5, <5>2 DEF GroupWord, IsGroup
      <4>4. CASE ~(Len(e.subs) > 1)
        <5>1. Len(e.subs) = 1
          <6>1. n \in Nat /\ n > 0 /\ ~(n > 1)
            BY <3>3, <4>1, <4>4, <4>2
          <6>2. n = 1
            BY <6>1
          <6> QED BY <4>2, <6>2
        <5> QED BY <5>1
      <4> QED BY <4>3, <4>4
    <3>12. SameMeaning(e, d)
      BY <2>1, <2>4, <2>5, <3>9, <3>10, <3>11, GroupsMeanAlike
    <3> QED BY <3>9, <3>12
  <2>6. CASE e.kind = "not"
    <3>1. PICK q : q = <<Token(")")>> \o s
      OBVIOUS
    <3>2. PICK r : r = <<Token(")")>> \o t
      OBVIOUS
    <3>3. Token(")") \in Tokens /\ Token("NOT (") \in Tokens /\ <<Token(")")>> \in Seq(Tokens)
      BY WordIsText
    <3>4. q \in Seq(Tokens) /\ r \in Seq(Tokens)
      BY <3>1, <3>2, <3>3, ConcatProperties
    <3>5. /\ Subs(e) = {e.sub} /\ e.sub \in Accepted
          /\ Subs(d) = {d.sub} /\ d.sub \in Accepted /\ d.sub \in Solid
      BY <2>1, <2>4, <2>6, AcceptedNot, SolidParts
    <3>6. PICK u : u = Description[e.sub] \o q
      OBVIOUS
    <3>7. PICK v : v = Description[d.sub] \o r
      OBVIOUS
    <3>8. u \in Seq(Tokens) /\ v \in Seq(Tokens)
      BY <3>4, <3>5, <3>6, <3>7, DescriptionUnfolds, ConcatProperties
    <3>9. Description[e] \o s = <<Token("NOT (")>> \o u
      BY <2>6, <3>1, <3>6, DescriptionOfNot
    <3>10. Description[d] \o t = <<Token("NOT (")>> \o v
      BY <2>1, <2>4, <2>6, <3>2, <3>7, DescriptionOfNot
    <3>11. <<Token("NOT (")>> \o u = <<Token("NOT (")>> \o v
      BY <3>9, <3>10
    <3>12. u = v
      BY <3>3, <3>8, <3>11, SameTail
    <3>13. ReadsAlike(e.sub, d.sub)
      BY <2>2, <3>5 DEF ReadsUniquely
    <3>14. SameMeaning(e.sub, d.sub) /\ q = r
      BY <3>4, <3>6, <3>7, <3>12, <3>13 DEF ReadsAlike
    <3>15. <<Token(")")>> \o s = <<Token(")")>> \o t
      BY <3>1, <3>2, <3>14
    <3>16. s = t
      <4>1. s \in Seq(Tokens) /\ t \in Seq(Tokens)
        OBVIOUS
      <4> QED
        BY <3>3, <3>15, <4>1, SameTail
    <3>17. SameMeaning(e, d)
      <4> SUFFICES ASSUME NEW p \in Payloads
                   PROVE  /\ Evaluation[e][p].throws <=> Evaluation[d][p].throws
                          /\ Evaluation[e][p].result <=> Evaluation[d][p].result
        BY DEF SameMeaning
      <4>1. /\ Evaluation[e][p].throws = Evaluation[e.sub][p].throws
            /\ Evaluation[e][p].result = ~Evaluation[e.sub][p].result
        BY <2>6, EvaluationOfNot
      <4>2. /\ Evaluation[d][p].throws = Evaluation[d.sub][p].throws
            /\ Evaluation[d][p].result = ~Evaluation[d.sub][p].result
        BY <2>1, <2>4, <2>6, EvaluationOfNot
      <4>3. /\ Evaluation[e.sub][p].throws <=> Evaluation[d.sub][p].throws
            /\ Evaluation[e.sub][p].result <=> Evaluation[d.sub][p].result
        BY <3>14 DEF SameMeaning
      <4> QED BY <4>1, <4>2, <4>3
    <3> QED BY <3>16, <3>17
  <2>7. CASE e.kind \notin {"all", "any", "not"}
    <3>1. e = d /\ e \in Tokens
      BY <2>4, <2>7, AcceptedSimple DEF Tokens, Accepted
    <3>2. Description[e] = <<e>>
      BY <2>7, DescriptionOfSimple
    <3>3. <<e>> \o s = <<e>> \o t
      BY <3>1, <3>2
    <3>4. s = t
      BY <3>1, <3>3, SameHead
    <3>5. SameMeaning(e, d)
      BY <3>1 DEF SameMeaning
    <3> QED BY <3>4, <3>5
  <2> QED BY <2>5, <2>6, <2>7 DEF IsGroup
<1>2. Accepted \subseteq S
  <2> HIDE DEF S
  <2> QED BY <1>1, AcceptedInduction
<1> QED BY <1>2

\* The stored text, when it was generated, is that of conditions which all fire
\* alike: as SameTextSameMeaning says.
LEMMA TextTellsMeaning ==
    ASSUME IInv
    PROVE  SameTextSameMeaning
<1> SUFFICES ASSUME answer.op = "event", text # <<OwnText>>, Legible(rule),
                    NEW c \in Accepted,
                    GenerateConditionDescription[c] = text, Legible(c)
             PROVE  answer.fires = (EvaluateConditions(c, answer.payload) = "match")
  BY DEF SameTextSameMeaning
<1>1. /\ rule \in Accepted /\ answer.payload \in Payloads
      /\ text = Description[rule]
      /\ answer.fires = (EvaluateConditions(rule, answer.payload) = "match")
  BY DEF IInv, RuleIsAccepted, AnswerIsOfRule, Description
<1>2. rule \in Solid /\ c \in Solid /\ Description[c] = Description[rule]
  BY <1>1 DEF Solid, Description
<1>3. ReadsAlike(c, rule)
  BY <1>2, UniqueReading DEF ReadsUniquely
<1>4. << >> \in Seq(Tokens)
  BY EmptySeq
<1>5. SameMeaning(c, rule)
  BY <1>2, <1>3, <1>4 DEF ReadsAlike
<1>6. /\ Evaluation[c][answer.payload].throws <=> Evaluation[rule][answer.payload].throws
      /\ Evaluation[c][answer.payload].result <=> Evaluation[rule][answer.payload].result
  BY <1>1, <1>5 DEF SameMeaning
<1>7. EvaluateConditions(c, answer.payload) = "match" <=>
        EvaluateConditions(rule, answer.payload) = "match"
  BY <1>1, <1>6, OutcomeOfEvaluation
<1> QED BY <1>1, <1>7

\* SameTextSameMeaning: a generated conditionText has one reading among legible
\* conditions, so those with the stored text fire on the same payloads as the stored rule.
THEOREM TextsTellTheMeaning == Spec => []SameTextSameMeaning
<1>1. IInv => SameTextSameMeaning
  BY TextTellsMeaning
<1> QED BY <1>1, AnswersAreOfTheRule, PTL
=============================================================================
