------------------------ MODULE FormValidationProofs ------------------------
(***************************************************************************)
(* Proofs about FormValidation, for every set of pages, inputs and values  *)
(* and any number of edits and failed requests.                            *)
(*                                                                         *)
(* First the adapters: what they make of the attributes of an input asks   *)
(* of it what the attributes declare, in whatever order the rules are put. *)
(* Then the count of requests and what the server has answered: Inv.  Last *)
(* what is shown, ShownInv, which rests on both.  The operators that stand *)
(* for the functions of the code compose; each has a lemma that it keeps   *)
(* the invariant, and the actions follow.                                  *)
(***************************************************************************)
EXTENDS FormValidation, FiniteSetTheorems, WellFoundedInduction, TLAPS

-----------------------------------------------------------------------------
(* Counting *)

\* A set that zero is in, and with each number the next one, has all of them.
LEMMA Counting ==
    ASSUME NEW n \in Nat, NEW S, 0 \in S,
           \A k \in 0 .. n - 1 : k \in S => k + 1 \in S
    PROVE  0 .. n \subseteq S
<1> DEFINE T == (0 .. n) \ S
           R == OpToRel(<, Nat)
<1> SUFFICES ASSUME T # {} PROVE FALSE
  OBVIOUS
<1>1. IsWellFoundedOn(R, Nat)
  BY NatLessThanWellFounded
<1>2. T \subseteq Nat
  OBVIOUS
<1> HIDE DEF R
<1>3. PICK x \in T : \A y \in T : ~ (<<y, x>> \in R)
  BY <1>1, <1>2, WFMin
<1>4. x \in 0 .. n /\ x # 0 /\ x - 1 \in 0 .. n - 1
  OBVIOUS
<1>5. x - 1 \notin S
  BY <1>4
<1>6. x - 1 \in T
  BY <1>4, <1>5
<1>7. x - 1 \in Nat /\ x \in Nat /\ x - 1 < x
  BY <1>4
<1>8. <<x - 1, x>> \in R
  BY <1>7, Zenon DEF R, OpToRel
<1> QED
  BY <1>3, <1>6, <1>8

-----------------------------------------------------------------------------
(* Rules *)

Rule(ruleName, param) == [rule |-> ruleName, param |-> param]

\* The rules of one input: one of a name.
OneOfAName(T) == \A r, s \in T : r.rule = s.rule => r = s

\* Setting a rule adds it, unless it is there.
LEMMA SetValues ==
    ASSUME NEW T, OneOfAName(T), NEW rs \in Seq(T), NEW n, NEW v, Rule(n, v) \in T
    PROVE  /\ setValidationValues(rs, n, v) \in Seq(T)
           /\ Range(setValidationValues(rs, n, v)) = Range(rs) \cup {Rule(n, v)}
<1> DEFINE r == Rule(n, v)
           qs == setValidationValues(rs, n, v)
<1>1. r.rule = n /\ [r EXCEPT !.param = v] = r
  BY DEF Rule
<1>2. CASE \E i \in DOMAIN rs : rs[i].rule = n
  <2>1. \A i \in DOMAIN rs : rs[i].rule = n => rs[i] = r
    BY <1>1 DEF OneOfAName
  <2>2. qs = [i \in DOMAIN rs |->
                IF rs[i].rule = n THEN [rs[i] EXCEPT !.param = v] ELSE rs[i]]
    BY <1>2 DEF setValidationValues
  <2>3. \A i \in DOMAIN rs : qs[i] = rs[i]
    BY <1>1, <2>1, <2>2
  <2>4. qs = rs
    BY <2>2, <2>3
  <2>5. r \in Range(rs)
    BY <1>2, <2>1 DEF Range
  <2> QED
    BY <2>4, <2>5
<1>3. CASE ~ \E i \in DOMAIN rs : rs[i].rule = n
  <2>1. qs = Append(rs, r) /\ r \in T
    BY <1>3 DEF setValidationValues, Rule
  <2> HIDE DEF r, qs
  <2>2. Append(rs, r) \in Seq(T)
    BY <2>1
  <2>3. /\ DOMAIN Append(rs, r) = 1 .. Len(rs) + 1 /\ DOMAIN rs = 1 .. Len(rs) /\ Len(rs) \in Nat
        /\ \A i \in 1 .. Len(rs) : Append(rs, r)[i] = rs[i]
        /\ Append(rs, r)[Len(rs) + 1] = r
    OBVIOUS
  <2>4. Range(Append(rs, r)) = Range(rs) \cup {r}
    <3>1. ASSUME NEW x \in Range(Append(rs, r)) PROVE x \in Range(rs) \cup {r}
      <4>1. PICK i \in 1 .. Len(rs) + 1 : x = Append(rs, r)[i]
        BY <2>3 DEF Range
      <4>2. i \in 1 .. Len(rs) \/ i = Len(rs) + 1
        BY <2>3
      <4> QED
        BY <2>3, <4>1, <4>2 DEF Range
    <3>2. ASSUME NEW x \in Range(rs) PROVE x \in Range(Append(rs, r))
      <4>1. PICK i \in 1 .. Len(rs) : x = rs[i]
        BY <2>3 DEF Range
      <4>2. i \in 1 .. Len(rs) + 1 /\ x = Append(rs, r)[i]
        BY <2>3, <4>1
      <4> QED
        BY <2>3, <4>2 DEF Range
    <3>3. r \in Range(Append(rs, r))
      <4>1. Len(rs) + 1 \in 1 .. Len(rs) + 1
        BY <2>3
      <4> QED
        BY <2>3, <4>1 DEF Range
    <3> QED
      BY <3>1, <3>2, <3>3
  <2> QED
    BY <2>1, <2>2, <2>4 DEF r, qs
<1> QED
  BY <1>2, <1>3

\* An input starts without rules.
LEMMA NoRules == \A T : <<>> \in Seq(T) /\ Range(<<>>) = {}
<1>1. DOMAIN <<>> = {}
  OBVIOUS
<1> QED
  BY <1>1 DEF Range

\* The rules that an adapter sets for its parameters.
Sets(a, f, given) ==
    CASE a.adapt = "bool"     -> {Rule(a.ruleNames[1], TRUE)}
      [] a.adapt = "single"   -> {Rule(a.ruleNames[1], given[a.params[1]])}
      [] a.adapt = "minmax"   ->
           IF {"min", "max"} \subseteq DOMAIN given
             THEN {Rule(a.ruleNames[3], <<given["min"], given["max"]>>)}
           ELSE IF "min" \in DOMAIN given THEN {Rule(a.ruleNames[1], given["min"])}
           ELSE IF "max" \in DOMAIN given THEN {Rule(a.ruleNames[2], given["max"])}
           ELSE {}
      [] a.adapt = "equalto"  ->
           {Rule("equalTo", CHOOSE e \in escapeAttributeValue(
                                appendModelPrefix(given["other"], getModelPrefix(f))) : TRUE)}
      [] a.adapt = "required" -> IF f \in Checkable THEN {} ELSE {Rule("required", TRUE)}
      [] a.adapt = "remote"   ->
           {Rule("remote", UNION {escapeAttributeValue(n) :
               n \in {appendModelPrefix(m, getModelPrefix(f)) : m \in splitAndTrim(given, f)}})}
      [] a.adapt = "password" ->
           {Rule(a.ruleNames[i], given[a.params[i]]) :
               i \in {j \in 1 .. 3 : a.params[j] \in DOMAIN given}}

Kinds == {"bool", "single", "minmax", "equalto", "required", "remote", "password"}

\* An adapter adds its rules to those that are there, unless they contradict it.
LEMMA AdaptAdds ==
    ASSUME NEW T, OneOfAName(T), NEW rs \in Seq(T), NEW a, NEW f, NEW given,
           a.adapt \in Kinds, Sets(a, f, given) \subseteq T
    PROVE  /\ Adapt(a, f, given, rs) \in Seq(T)
           /\ Range(Adapt(a, f, given, rs)) = Range(rs) \cup Sets(a, f, given)
<1>1. CASE a.adapt = "bool"
  <2> DEFINE yes == TRUE
  <2>1. Adapt(a, f, given, rs) = setValidationValues(rs, a.ruleNames[1], yes)
    BY <1>1 DEF Adapt
  <2>2. Sets(a, f, given) = {Rule(a.ruleNames[1], yes)}
    BY <1>1 DEF Sets
  <2> HIDE DEF yes
  <2>3. Rule(a.ruleNames[1], yes) \in T
    BY <2>2
  <2> QED
    BY <2>1, <2>2, <2>3, SetValues
<1>2. CASE a.adapt = "single"
  <2> DEFINE n == a.ruleNames[1]
             v == given[a.params[1]]
  <2>1. Adapt(a, f, given, rs) = setValidationValues(rs, n, v)
    BY <1>2 DEF Adapt, AdaptSingleVal
  <2>2. Sets(a, f, given) = {Rule(n, v)}
    BY <1>2 DEF Sets
  <2> HIDE DEF n, v
  <2>3. Rule(n, v) \in T
    BY <2>2
  <2> QED
    BY <2>1, <2>2, <2>3, SetValues
<1>3. CASE a.adapt = "minmax"
  <2>1. Adapt(a, f, given, rs) = AdaptMinMax(a, given, rs)
    BY <1>3 DEF Adapt
  <2>2. CASE {"min", "max"} \subseteq DOMAIN given
    <3> DEFINE v == <<given["min"], given["max"]>>
    <3>1. /\ Adapt(a, f, given, rs) = setValidationValues(rs, a.ruleNames[3], v)
          /\ Sets(a, f, given) = {Rule(a.ruleNames[3], v)}
      BY <1>3, <2>1, <2>2 DEF AdaptMinMax, Sets
    <3> HIDE DEF v
    <3>2. Rule(a.ruleNames[3], v) \in T
      BY <3>1
    <3> QED
      BY <3>1, <3>2, SetValues
  <2>3. CASE "min" \in DOMAIN given /\ "max" \notin DOMAIN given
    <3>1. /\ Adapt(a, f, given, rs) = setValidationValues(rs, a.ruleNames[1], given["min"])
          /\ Sets(a, f, given) = {Rule(a.ruleNames[1], given["min"])}
      BY <1>3, <2>1, <2>3 DEF AdaptMinMax, Sets
    <3> QED
      BY <3>1, SetValues
  <2>4. CASE "max" \in DOMAIN given /\ "min" \notin DOMAIN given
    <3>1. /\ Adapt(a, f, given, rs) = setValidationValues(rs, a.ruleNames[2], given["max"])
          /\ Sets(a, f, given) = {Rule(a.ruleNames[2], given["max"])}
      BY <1>3, <2>1, <2>4 DEF AdaptMinMax, Sets
    <3> QED
      BY <3>1, SetValues
  <2>5. CASE "max" \notin DOMAIN given /\ "min" \notin DOMAIN given
    <3>1. Adapt(a, f, given, rs) = rs /\ Sets(a, f, given) = {}
      BY <1>3, <2>1, <2>5 DEF AdaptMinMax, Sets
    <3> QED
      BY <3>1
  <2> QED
    BY <2>2, <2>3, <2>4, <2>5
<1>4. CASE a.adapt = "equalto"
  <2> DEFINE e == CHOOSE e \in escapeAttributeValue(
                      appendModelPrefix(given["other"], getModelPrefix(f))) : TRUE
  <2>1. Adapt(a, f, given, rs) = setValidationValues(rs, "equalTo", e)
    BY <1>4 DEF Adapt, AdaptEqualTo
  <2>2. Sets(a, f, given) = {Rule("equalTo", e)}
    BY <1>4 DEF Sets
  <2> HIDE DEF e
  <2>3. Rule("equalTo", e) \in T
    BY <2>2
  <2> QED
    BY <2>1, <2>2, <2>3, SetValues
<1>5. CASE a.adapt = "required"
  <2>1. Adapt(a, f, given, rs) = AdaptRequired(f, rs)
    BY <1>5 DEF Adapt
  <2>2. Sets(a, f, given) = IF f \in Checkable THEN {} ELSE {Rule("required", TRUE)}
    BY <1>5 DEF Sets
  <2>3. CASE f \in Checkable
    BY <2>1, <2>2, <2>3 DEF AdaptRequired
  <2>4. CASE f \notin Checkable
    <3> DEFINE yes == TRUE
    <3>1. /\ Adapt(a, f, given, rs) = setValidationValues(rs, "required", yes)
          /\ Sets(a, f, given) = {Rule("required", yes)}
      BY <2>1, <2>2, <2>4 DEF AdaptRequired
    <3> HIDE DEF yes
    <3>2. Rule("required", yes) \in T
      BY <3>1
    <3> QED
      BY <3>1, <3>2, SetValues
  <2> QED
    BY <2>3, <2>4
<1>6. CASE a.adapt = "remote"
  <2> DEFINE fs == UNION {escapeAttributeValue(n) :
               n \in {appendModelPrefix(m, getModelPrefix(f)) : m \in splitAndTrim(given, f)}}
  <2>1. Adapt(a, f, given, rs) = setValidationValues(rs, "remote", fs)
    BY <1>6 DEF Adapt, AdaptRemote
  <2>2. Sets(a, f, given) = {Rule("remote", fs)}
    BY <1>6 DEF Sets
  <2> HIDE DEF fs
  <2>3. Rule("remote", fs) \in T
    BY <2>2
  <2> QED
    BY <2>1, <2>2, <2>3, SetValues
<1>7. CASE a.adapt = "password"
  <2> DEFINE Some(i) == IF a.params[i] \in DOMAIN given
                          THEN {Rule(a.ruleNames[i], given[a.params[i]])} ELSE {}
             Set(qs, i) == IF a.params[i] \in DOMAIN given
                             THEN setValidationValues(qs, a.ruleNames[i], given[a.params[i]])
                             ELSE qs
  <2>1. Adapt(a, f, given, rs) = Set(Set(Set(rs, 1), 2), 3)
    BY <1>7 DEF Adapt, AdaptPassword
  <2>2. Sets(a, f, given) = {Rule(a.ruleNames[i], given[a.params[i]]) :
               i \in {j \in 1 .. 3 : a.params[j] \in DOMAIN given}}
    BY <1>7 DEF Sets
  <2>3. Sets(a, f, given) = Some(1) \cup Some(2) \cup Some(3)
    <3>1. 1 .. 3 = {1, 2, 3}
      OBVIOUS
    <3> QED
      BY <2>2, <3>1
  <2>4. \A i \in 1 .. 3 : Some(i) \subseteq T
    BY <2>2
  <2>5. ASSUME NEW qs \in Seq(T), NEW i \in 1 .. 3
        PROVE  Set(qs, i) \in Seq(T) /\ Range(Set(qs, i)) = Range(qs) \cup Some(i)
    <3> DEFINE n == a.ruleNames[i]
               v == given[a.params[i]]
    <3>1. CASE a.params[i] \in DOMAIN given
      <4>1. Set(qs, i) = setValidationValues(qs, n, v) /\ Some(i) = {Rule(n, v)}
        BY <3>1
      <4>2. Rule(n, v) \in T
        BY <2>4, <4>1
      <4> HIDE DEF n, v, Set, Some
      <4> QED
        BY <2>5, <4>1, <4>2, SetValues
    <3>2. CASE a.params[i] \notin DOMAIN given
      BY <2>5, <3>2
    <3> QED
      BY <3>1, <3>2
  <2> HIDE DEF Some, Set
  <2>6. Set(rs, 1) \in Seq(T) /\ Range(Set(rs, 1)) = Range(rs) \cup Some(1)
    BY <2>5
  <2>7. /\ Set(Set(rs, 1), 2) \in Seq(T)
        /\ Range(Set(Set(rs, 1), 2)) = Range(rs) \cup Some(1) \cup Some(2)
    BY <2>5, <2>6
  <2>8. /\ Set(Set(Set(rs, 1), 2), 3) \in Seq(T)
        /\ Range(Set(Set(Set(rs, 1), 2), 3)) = Range(rs) \cup Some(1) \cup Some(2) \cup Some(3)
    BY <2>5, <2>7
  <2> QED
    BY <2>1, <2>3, <2>8
<1> QED
  BY <1>1, <1>2, <1>3, <1>4, <1>5, <1>6, <1>7 DEF Kinds

\* The adapters, one by one.
LEMMA Registry ==
    /\ Len(adapters) = 17 /\ DOMAIN adapters = 1 .. 17
    /\ adapters[1] = add("extension", "single", <<"accept">>, <<"extension">>)
    /\ adapters[2] = add("regex", "single", <<"regex">>, <<"pattern">>)
    /\ adapters[3] = add("creditcard", "bool", <<"creditcard">>, <<>>)
    /\ adapters[4] = add("date", "bool", <<"date">>, <<>>)
    /\ adapters[5] = add("digits", "bool", <<"digits">>, <<>>)
    /\ adapters[6] = add("email", "bool", <<"email">>, <<>>)
    /\ adapters[7] = add("number", "bool", <<"number">>, <<>>)
    /\ adapters[8] = add("url", "bool", <<"url">>, <<>>)
    /\ adapters[9] = add("length", "minmax", <<"minlength", "maxlength", "rangelength">>, <<"min", "max">>)
    /\ adapters[10] = add("range", "minmax", <<"min", "max", "range">>, <<"min", "max">>)
    /\ adapters[11] = add("minlength", "minmax", <<"minlength", "undefined", "undefined">>, <<"min", "max">>)
    /\ adapters[12] = add("maxlength", "minmax", <<"minlength", "maxlength", "undefined">>, <<"min", "max">>)
    /\ adapters[13] = add("equalto", "equalto", <<"equalTo">>, <<"other">>)
    /\ adapters[14] = add("required", "required", <<"required">>, <<>>)
    /\ adapters[15] = add("remote", "remote", <<"remote">>, <<"additionalfields">>)
    /\ adapters[16] = add("password", "password", <<"minlength", "nonalphamin", "regex">>,
                          <<"min", "nonalphamin", "regex">>)
    /\ adapters[17] = add("fileextensions", "single", <<"extension">>, <<"extensions">>)
<1> HIDE DEF add
<1> QED
  BY DEF adapters, addBool, addSingleVal, addMinMax

Seventeen == {1, 2, 3, 4, 5, 6, 7, 8, 9, 10, 11, 12, 13, 14, 15, 16, 17}

\* The adapters one by one.
LEMMA SeventeenAdapters == 1 .. 17 = Seventeen
  BY DEF Seventeen

\* No adapter sets two rules of a name, or the one that parseElement adds.
LEMMA SetsNames ==
    ASSUME NEW k \in 1 .. 17, NEW f, NEW given
    PROVE  /\ adapters[k].adapt \in Kinds
           /\ OneOfAName(Sets(adapters[k], f, given))
           /\ \A r \in Sets(adapters[k], f, given) : r.rule # "__dummy__"
<1> DEFINE a == adapters[k]
<1>0. k \in Seventeen
  BY SeventeenAdapters
<1>1. ASSUME NEW n, NEW v, n # "__dummy__"
      PROVE  /\ OneOfAName({Rule(n, v)})
             /\ \A r \in {Rule(n, v)} : r.rule # "__dummy__"
  BY <1>1 DEF Rule, OneOfAName
<1>2. CASE k \in {3, 4, 5, 6, 7, 8}
  <2>1. /\ a.adapt = "bool"
        /\ a.ruleNames[1] \in {"creditcard", "date", "digits", "email", "number", "url"}
    BY <1>2, Registry DEF add
  <2> DEFINE yes == TRUE
  <2> HIDE DEF a
  <2>2. Sets(a, f, given) = {Rule(a.ruleNames[1], yes)}
    BY <2>1 DEF Sets
  <2> HIDE DEF yes
  <2> QED
    BY <1>1, <2>1, <2>2 DEF Kinds, a
<1>3. CASE k \in {1, 2, 17}
  <2>1. a.adapt = "single" /\ a.ruleNames[1] \in {"accept", "regex", "extension"}
    BY <1>3, Registry DEF add
  <2> HIDE DEF a
  <2> QED
    BY <2>1 DEF Kinds, Sets, Rule, OneOfAName, a
<1>4. CASE k \in {9, 10, 11, 12}
  <2>1. /\ a.adapt = "minmax"
        /\ a.ruleNames[1] # "__dummy__" /\ a.ruleNames[2] # "__dummy__"
        /\ a.ruleNames[3] # "__dummy__"
    BY <1>4, Registry DEF add
  <2> HIDE DEF a
  <2> QED
    BY <2>1 DEF Kinds, Sets, Rule, OneOfAName, a
<1>5. CASE k \in {13, 14, 15}
  <2> DEFINE yes == TRUE
             other == CHOOSE e \in escapeAttributeValue(
                          appendModelPrefix(given["other"], getModelPrefix(f))) : TRUE
             others == UNION {escapeAttributeValue(n) :
                n \in {appendModelPrefix(m, getModelPrefix(f)) : m \in splitAndTrim(given, f)}}
  <2>1. a.adapt \in {"equalto", "required", "remote"}
    BY <1>5, Registry DEF add
  <2> HIDE DEF a
  <2>2. \/ Sets(a, f, given) = {}
        \/ Sets(a, f, given) = {Rule("equalTo", other)}
        \/ Sets(a, f, given) = {Rule("required", yes)}
        \/ Sets(a, f, given) = {Rule("remote", others)}
    BY <2>1 DEF Sets
  <2> HIDE DEF yes, other, others
  <2>3. CASE Sets(a, f, given) = {}
    BY <2>1, <2>3 DEF Kinds, OneOfAName, a
  <2> QED
    BY <1>1, <2>1, <2>2, <2>3 DEF Kinds, a
<1>6. CASE k = 16
  <2>1. /\ a.adapt = "password"
        /\ a.ruleNames[1] = "minlength" /\ a.ruleNames[2] = "nonalphamin"
        /\ a.ruleNames[3] = "regex"
    BY <1>6, Registry DEF add
  <2>2. 1 .. 3 = {1, 2, 3}
    OBVIOUS
  <2> HIDE DEF a
  <2>3. Sets(a, f, given) = {Rule(a.ruleNames[i], given[a.params[i]]) :
               i \in {j \in {1, 2, 3} : a.params[j] \in DOMAIN given}}
    BY <2>1, <2>2 DEF Sets
  <2>4. \A r \in Sets(a, f, given) :
            \/ r = Rule("minlength", given[a.params[1]])
            \/ r = Rule("nonalphamin", given[a.params[2]])
            \/ r = Rule("regex", given[a.params[3]])
    BY <2>1, <2>3
  <2> QED
    BY <2>1, <2>4 DEF Kinds, Rule, OneOfAName, a
<1> QED
  BY <1>0, <1>2, <1>3, <1>4, <1>5, <1>6 DEF Seventeen

\* What the k-th adapter sets for an input with these attributes.
SetsOf(k, attributes, f) ==
    IF adapters[k].name \in DOMAIN attributes
      THEN Sets(adapters[k], f, attributes[adapters[k].name]) ELSE {}

Dummy == Rule("__dummy__", TRUE)

Made(attributes, f) == {Dummy} \cup UNION {SetsOf(k, attributes, f) : k \in 1 .. 17}

\* What an adapter sets by itself is what it sets after others.
LEMMA OwnRulesAreSets ==
    ASSUME NEW k \in 1 .. 17, NEW attributes, NEW f
    PROVE  OwnRules(adapters[k], attributes, f) = SetsOf(k, attributes, f)
<1>1. CASE adapters[k].name \in DOMAIN attributes
  <2> DEFINE given == attributes[adapters[k].name]
             T == Sets(adapters[k], f, given)
  <2>1. OneOfAName(T) /\ adapters[k].adapt \in Kinds
    BY SetsNames
  <2>2. <<>> \in Seq(T) /\ Range(<<>>) = {}
    BY NoRules
  <2>3. Range(Adapt(adapters[k], f, given, <<>>)) = Range(<<>>) \cup T
    <3>1. Sets(adapters[k], f, given) \subseteq T
      OBVIOUS
    <3>2. ASSUME NEW rs \in Seq(T)
          PROVE  Range(Adapt(adapters[k], f, given, rs)) = Range(rs) \cup Sets(adapters[k], f, given)
      <4> HIDE DEF T
      <4> QED
        BY <2>1, <3>1, AdaptAdds
    <3> QED
      BY <2>2, <3>2
  <2> QED
    BY <1>1, <2>2, <2>3 DEF OwnRules, AdaptIfPresent, SetsOf
<1>2. CASE adapters[k].name \notin DOMAIN attributes
  BY <1>2, NoRules DEF OwnRules, AdaptIfPresent, SetsOf
<1> QED
  BY <1>1, <1>2

\* Adapters that agree make one rule of a name.
LEMMA MadeOneOfAName ==
    ASSUME NEW attributes, NEW f, Agreeing(attributes, f)
    PROVE  OneOfAName(Made(attributes, f))
<1> SUFFICES ASSUME NEW r \in Made(attributes, f), NEW s \in Made(attributes, f),
                    r.rule = s.rule
             PROVE  r = s
  BY DEF OneOfAName
<1>1. ASSUME NEW k \in 1 .. 17, NEW q \in SetsOf(k, attributes, f)
      PROVE  q.rule # "__dummy__"
  BY <1>1, SetsNames DEF SetsOf
<1>2. Dummy.rule = "__dummy__"
  BY DEF Dummy, Rule
<1>3. CASE r = Dummy \/ s = Dummy
  BY <1>1, <1>2, <1>3 DEF Made
<1>4. CASE r # Dummy /\ s # Dummy
  <2>1. PICK k \in 1 .. 17 : r \in SetsOf(k, attributes, f)
    BY <1>4 DEF Made
  <2>2. PICK m \in 1 .. 17 : s \in SetsOf(m, attributes, f)
    BY <1>4 DEF Made
  <2>3. r \in OwnRules(adapters[k], attributes, f) /\ s \in OwnRules(adapters[m], attributes, f)
    BY <2>1, <2>2, OwnRulesAreSets
  <2>4. k \in DOMAIN adapters /\ m \in DOMAIN adapters
    BY Registry
  <2> QED
    BY <2>3, <2>4 DEF Agreeing
<1> QED
  BY <1>3, <1>4

\* The rules after k adapters, which the code keeps in options.rules.
After(k, attributes, f) ==
    LET after[j \in 0 .. 17] ==
            IF j = 0 THEN <<>> ELSE AdaptIfPresent(adapters[j], attributes, f, after[j - 1])
    IN  after[k]

\* Each adapter goes on from what those before it have made.
LEMMA AfterStep ==
    ASSUME NEW attributes, NEW f
    PROVE  /\ After(0, attributes, f) = <<>>
           /\ \A k \in 1 .. 17 : After(k, attributes, f)
                = AdaptIfPresent(adapters[k], attributes, f, After(k - 1, attributes, f))
           /\ Adapted(attributes, f) = After(17, attributes, f)
<1> DEFINE By(k, rs) == AdaptIfPresent(adapters[k], attributes, f, rs)
           IsAfter(g, n) == g = [j \in 0 .. n |-> IF j = 0 THEN <<>> ELSE By(j, g[j - 1])]
           S == {n \in 0 .. 17 : \E g : IsAfter(g, n)}
<1> HIDE DEF By
<1>1. 0 \in S
  <2> DEFINE g == [j \in 0 .. 0 |-> <<>>]
  <2>1. \A j \in 0 .. 0 : j = 0
    OBVIOUS
  <2>2. g = [j \in 0 .. 0 |-> IF j = 0 THEN <<>> ELSE By(j, g[j - 1])]
    <3> DEFINE e == <<>>
    <3>1. g = [j \in 0 .. 0 |-> e]
      OBVIOUS
    <3> HIDE DEF e, g
    <3>2. \A j \in 0 .. 0 : e = IF j = 0 THEN e ELSE By(j, g[j - 1])
      BY <2>1
    <3>3. g = [j \in 0 .. 0 |-> IF j = 0 THEN e ELSE By(j, g[j - 1])]
      BY <3>1, <3>2
    <3> QED
      BY <3>3 DEF e
  <2> HIDE DEF g
  <2>3. IsAfter(g, 0)
    BY <2>2
  <2> QED
    BY <2>3
<1>2. ASSUME NEW k \in 0 .. 17 - 1, k \in S PROVE k + 1 \in S
  <2>1. PICK g : g = [j \in 0 .. k |-> IF j = 0 THEN <<>> ELSE By(j, g[j - 1])]
    BY <1>2
  <2> DEFINE h == [j \in 0 .. k + 1 |-> IF j = k + 1 THEN By(j, g[k]) ELSE g[j]]
  <2>2. \A j \in 0 .. k + 1 : h[j] = IF j = 0 THEN <<>> ELSE By(j, h[j - 1])
    <3> SUFFICES ASSUME NEW j \in 0 .. k + 1
                 PROVE  h[j] = IF j = 0 THEN <<>> ELSE By(j, h[j - 1])
      OBVIOUS
    <3>1. CASE j = 0
      BY <2>1, <3>1
    <3>2. CASE j \in 1 .. k
      <4>1. j - 1 \in 0 .. k /\ j \in 0 .. k /\ j # 0 /\ j # k + 1 /\ j - 1 # k + 1
        BY <3>2
      <4>2. h[j] = g[j] /\ h[j - 1] = g[j - 1]
        BY <4>1
      <4>3. g[j] = By(j, g[j - 1])
        BY <2>1, <4>1
      <4> QED
        BY <4>1, <4>2, <4>3
    <3>3. CASE j = k + 1
      <4>1. h[j] = By(j, g[k]) /\ h[k] = g[k] /\ j - 1 = k /\ j # 0
        BY <3>3
      <4> QED
        BY <4>1
    <3> QED
      BY <3>1, <3>2, <3>3
  <2>3. h = [j \in 0 .. k + 1 |-> IF j = 0 THEN <<>> ELSE By(j, h[j - 1])]
    <3>1. h = [j \in 0 .. k + 1 |-> h[j]]
      OBVIOUS
    <3> HIDE DEF h
    <3> QED
      BY <2>2, <3>1
  <2> HIDE DEF h
  <2>4. IsAfter(h, k + 1)
    BY <2>3
  <2>5. k + 1 \in 0 .. 17
    OBVIOUS
  <2> QED
    BY <2>4, <2>5
<1>3. 17 \in S
  <2> HIDE DEF S
  <2>1. 0 .. 17 \subseteq S
    BY <1>1, <1>2, Counting
  <2> QED
    BY <2>1
<1> DEFINE after == CHOOSE g : IsAfter(g, 17)
<1>4. IsAfter(after, 17)
  BY <1>3
<1>5. \A k \in 0 .. 17 : After(k, attributes, f) = after[k]
  BY DEF After, By
<1>6. Adapted(attributes, f) = after[17]
  BY Registry DEF Adapted, By
<1> HIDE DEF after
<1>7. \A k \in 0 .. 17 : after[k] = IF k = 0 THEN <<>> ELSE By(k, after[k - 1])
  BY <1>4
<1>8. \A k \in 1 .. 17 : after[k] = By(k, after[k - 1])
  BY <1>7
<1>9. after[0] = <<>>
  BY <1>7
<1>10. \A k \in 1 .. 17 : k \in 0 .. 17 /\ k - 1 \in 0 .. 17
  OBVIOUS
<1> QED
  BY <1>5, <1>6, <1>8, <1>9, <1>10 DEF By

\* After n adapters an input has the rules of those n.
LEMMA AfterMakes ==
    ASSUME NEW attributes, NEW f, Agreeing(attributes, f), NEW n \in 0 .. 17
    PROVE  /\ After(n, attributes, f) \in Seq(Made(attributes, f))
           /\ Range(After(n, attributes, f)) = UNION {SetsOf(k, attributes, f) : k \in 1 .. n}
<1> DEFINE T == Made(attributes, f)
           Upto(k) == UNION {SetsOf(j, attributes, f) : j \in 1 .. k}
           A(k) == After(k, attributes, f)
           S == {k \in 0 .. 17 : A(k) \in Seq(T) /\ Range(A(k)) = Upto(k)}
<1>1. OneOfAName(T)
  BY MadeOneOfAName
<1>2. \A k \in 1 .. 17 : SetsOf(k, attributes, f) \subseteq T
  BY DEF Made
<1>3. Upto(0) = {} /\ \A k \in 1 .. 17 : Upto(k) = Upto(k - 1) \cup SetsOf(k, attributes, f)
  <2>1. 1 .. 0 = {}
    OBVIOUS
  <2>2. \A k \in 1 .. 17 : 1 .. k = (1 .. k - 1) \cup {k}
    OBVIOUS
  <2> QED
    BY <2>1, <2>2
<1>4. /\ A(0) = <<>>
      /\ \A k \in 1 .. 17 : A(k) = AdaptIfPresent(adapters[k], attributes, f, A(k - 1))
  BY AfterStep
<1> HIDE DEF T, Upto, A
<1>5. 0 \in S
  <2>1. A(0) \in Seq(T) /\ Range(A(0)) = Upto(0)
    BY <1>3, <1>4, NoRules
  <2> QED
    BY <2>1
<1>6. ASSUME NEW i \in 0 .. 17 - 1, i \in S PROVE i + 1 \in S
  <2> DEFINE k == i + 1
             a == adapters[k]
             given == attributes[a.name]
  <2>1. k \in 1 .. 17 /\ k - 1 = i
    OBVIOUS
  <2>2. A(i) \in Seq(T) /\ Range(A(i)) = Upto(i)
    BY <1>6
  <2>3. A(k) = AdaptIfPresent(a, attributes, f, A(i)) /\ Upto(k) = Upto(i) \cup SetsOf(k, attributes, f)
    BY <1>3, <1>4, <2>1
  <2> HIDE DEF k
  <2>4. CASE a.name \in DOMAIN attributes
    <3>1. SetsOf(k, attributes, f) = Sets(a, f, given) /\ A(k) = Adapt(a, f, given, A(i))
      BY <2>3, <2>4 DEF SetsOf, AdaptIfPresent
    <3>2. a.adapt \in Kinds
      BY <2>1, SetsNames
    <3>3. Sets(a, f, given) \subseteq T
      BY <1>2, <2>1, <3>1
    <3> HIDE DEF a, given
    <3>4. A(k) \in Seq(T) /\ Range(A(k)) = Range(A(i)) \cup Sets(a, f, given)
      BY <1>1, <2>2, <3>1, <3>2, <3>3, AdaptAdds
    <3>5. A(k) \in Seq(T) /\ Range(A(k)) = Upto(k)
      BY <2>2, <2>3, <3>1, <3>4
    <3> QED
      BY <2>1, <3>5 DEF k
  <2>5. CASE a.name \notin DOMAIN attributes
    <3>1. SetsOf(k, attributes, f) = {} /\ A(k) = A(i)
      BY <2>3, <2>5 DEF SetsOf, AdaptIfPresent
    <3>2. A(k) \in Seq(T) /\ Range(A(k)) = Upto(k)
      BY <2>2, <2>3, <3>1
    <3> QED
      BY <2>1, <3>2 DEF k
  <2> QED
    BY <2>4, <2>5
<1>7. 0 .. 17 \subseteq S
  <2> HIDE DEF S
  <2> QED
    BY <1>5, <1>6, Counting
<1> QED
  BY <1>7 DEF A, T, Upto

\* parseElement makes the rules of all adapters the input has attributes of, whatever
\* their order, and one that never fails.
LEMMA ParseElementMakes ==
    ASSUME NEW attributes, NEW f, Agreeing(attributes, f)
    PROVE  /\ parseElement(attributes, f) \in Seq(Made(attributes, f))
           /\ Range(parseElement(attributes, f)) = Made(attributes, f)
<1> DEFINE T == Made(attributes, f)
           yes == TRUE
           rs == After(17, attributes, f)
<1>1. rs \in Seq(T) /\ Range(rs) = UNION {SetsOf(k, attributes, f) : k \in 1 .. 17}
  BY AfterMakes
<1>2. parseElement(attributes, f) = setValidationValues(rs, "__dummy__", yes)
  BY AfterStep DEF parseElement
<1>3. Rule("__dummy__", yes) \in T /\ T = Range(rs) \cup {Rule("__dummy__", yes)}
  BY <1>1 DEF Made, Dummy
<1>4. OneOfAName(T)
  BY MadeOneOfAName
<1> HIDE DEF T, yes, rs
<1>5. /\ setValidationValues(rs, "__dummy__", yes) \in Seq(T)
      /\ Range(setValidationValues(rs, "__dummy__", yes)) = Range(rs) \cup {Rule("__dummy__", yes)}
  BY <1>1, <1>3, <1>4, SetValues
<1> QED
  BY <1>2, <1>3, <1>5 DEF T

-----------------------------------------------------------------------------
(* The order of rules *)

\* Removing one rule leaves the others in their order.
LEMMA RemoveAtLeaves ==
    ASSUME NEW T, NEW rs \in Seq(T), NEW i \in DOMAIN rs
    PROVE  /\ RemoveAt(rs, i) \in Seq(T)
           /\ Len(RemoveAt(rs, i)) = Len(rs) - 1
           /\ \A j \in 1 .. i - 1 : RemoveAt(rs, i)[j] = rs[j]
           /\ \A j \in i .. Len(rs) - 1 : RemoveAt(rs, i)[j] = rs[j + 1]
<1>1. i \in 1 .. Len(rs) /\ Len(rs) \in Nat
  OBVIOUS
<1> DEFINE p == SubSeq(rs, 1, i - 1)
           q == SubSeq(rs, i + 1, Len(rs))
<1>2. p \in Seq(T) /\ Len(p) = i - 1 /\ \A j \in 1 .. i - 1 : p[j] = rs[j]
  BY <1>1
<1>3. q \in Seq(T) /\ Len(q) = Len(rs) - i /\ \A j \in 1 .. Len(rs) - i : q[j] = rs[i + j]
  BY <1>1
<1>4. RemoveAt(rs, i) = p \o q
  BY DEF RemoveAt
<1> HIDE DEF p, q
<1>5. /\ p \o q \in Seq(T) /\ Len(p \o q) = Len(rs) - 1
      /\ \A j \in 1 .. i - 1 : (p \o q)[j] = p[j]
      /\ \A j \in i .. Len(rs) - 1 : (p \o q)[j] = q[j - (i - 1)]
  BY <1>1, <1>2, <1>3
<1>6. ASSUME NEW j \in i .. Len(rs) - 1 PROVE q[j - (i - 1)] = rs[j + 1]
  <2>1. j - (i - 1) \in 1 .. Len(rs) - i /\ i + (j - (i - 1)) = j + 1
    BY <1>1
  <2> QED
    BY <1>3, <2>1
<1> QED
  BY <1>2, <1>4, <1>5, <1>6

\* A rule that is moved is not lost, nor is another.
LEMMA Moved ==
    ASSUME NEW T, NEW rs \in Seq(T), NEW i \in DOMAIN rs
    PROVE  /\ <<rs[i]>> \o RemoveAt(rs, i) \in Seq(T)
           /\ RemoveAt(rs, i) \o <<rs[i]>> \in Seq(T)
           /\ Range(<<rs[i]>> \o RemoveAt(rs, i)) = Range(rs)
           /\ Range(RemoveAt(rs, i) \o <<rs[i]>>) = Range(rs)
<1> DEFINE x == rs[i]
           n == Len(rs)
           q == RemoveAt(rs, i)
           front == <<x>> \o q
           back == q \o <<x>>
<1>1. n \in Nat /\ i \in 1 .. n /\ x \in T /\ DOMAIN rs = 1 .. n
  OBVIOUS
<1>2. /\ q \in Seq(T) /\ Len(q) = n - 1
      /\ \A j \in 1 .. i - 1 : q[j] = rs[j]
      /\ \A j \in i .. n - 1 : q[j] = rs[j + 1]
  BY RemoveAtLeaves
<1> HIDE DEF q, x, n
<1>3. /\ front \in Seq(T) /\ Len(front) = n /\ DOMAIN front = 1 .. n
      /\ front[1] = x /\ \A j \in 1 .. n - 1 : front[j + 1] = q[j]
  BY <1>1, <1>2
<1>4. /\ back \in Seq(T) /\ Len(back) = n /\ DOMAIN back = 1 .. n
      /\ back[n] = x /\ \A j \in 1 .. n - 1 : back[j] = q[j]
  BY <1>1, <1>2
<1> HIDE DEF front, back
<1>5. Range(rs) = {x} \cup {q[j] : j \in 1 .. n - 1}
  <2>1. ASSUME NEW y \in Range(rs) PROVE y \in {x} \cup {q[j] : j \in 1 .. n - 1}
    <3>1. PICK j \in 1 .. n : y = rs[j]
      BY <1>1, <2>1 DEF Range
    <3>2. CASE j = i
      BY <3>1, <3>2 DEF x
    <3>3. CASE j < i
      <4>1. j \in 1 .. i - 1 /\ j \in 1 .. n - 1
        BY <1>1, <3>3
      <4> QED
        BY <1>2, <3>1, <4>1
    <3>4. CASE j > i
      <4>1. j - 1 \in i .. n - 1 /\ j - 1 \in 1 .. n - 1 /\ (j - 1) + 1 = j
        BY <1>1, <3>4
      <4>2. q[j - 1] = rs[j]
        BY <1>2, <4>1
      <4> QED
        BY <3>1, <4>1, <4>2
    <3> QED
      BY <1>1, <3>2, <3>3, <3>4
  <2>2. ASSUME NEW j \in 1 .. n - 1 PROVE q[j] \in Range(rs)
    <3>1. CASE j < i
      <4>1. j \in 1 .. i - 1 /\ j \in 1 .. n
        BY <1>1, <3>1
      <4> QED
        BY <1>1, <1>2, <4>1 DEF Range
    <3>2. CASE j >= i
      <4>1. j \in i .. n - 1 /\ j + 1 \in 1 .. n
        BY <1>1, <3>2
      <4> QED
        BY <1>1, <1>2, <4>1 DEF Range
    <3> QED
      BY <1>1, <3>1, <3>2
  <2>3. x \in Range(rs)
    BY <1>1 DEF Range, x
  <2> QED
    BY <2>1, <2>2, <2>3
<1>6. Range(front) = {x} \cup {q[j] : j \in 1 .. n - 1}
  <2>1. ASSUME NEW y \in Range(front) PROVE y \in {x} \cup {q[j] : j \in 1 .. n - 1}
    <3>1. PICK j \in 1 .. n : y = front[j]
      BY <1>3, <2>1 DEF Range
    <3>2. CASE j = 1
      BY <1>3, <3>1, <3>2
    <3>3. CASE j # 1
      <4>1. j - 1 \in 1 .. n - 1 /\ (j - 1) + 1 = j
        BY <1>1, <3>3
      <4>2. front[j] = q[j - 1]
        BY <1>3, <4>1
      <4> QED
        BY <3>1, <4>1, <4>2
    <3> QED
      BY <3>2, <3>3
  <2>2. ASSUME NEW j \in 1 .. n - 1 PROVE q[j] \in Range(front)
    <3>1. j + 1 \in 1 .. n
      BY <1>1
    <3> QED
      BY <1>3, <3>1 DEF Range
  <2>3. x \in Range(front)
    BY <1>1, <1>3 DEF Range
  <2> QED
    BY <2>1, <2>2, <2>3
<1>7. Range(back) = {x} \cup {q[j] : j \in 1 .. n - 1}
  <2>1. ASSUME NEW y \in Range(back) PROVE y \in {x} \cup {q[j] : j \in 1 .. n - 1}
    <3>1. PICK j \in 1 .. n : y = back[j]
      BY <1>4, <2>1 DEF Range
    <3>2. CASE j = n
      BY <1>4, <3>1, <3>2
    <3>3. CASE j # n
      <4>1. j \in 1 .. n - 1
        BY <1>1, <3>3
      <4> QED
        BY <1>4, <3>1, <4>1
    <3> QED
      BY <3>2, <3>3
  <2>2. ASSUME NEW j \in 1 .. n - 1 PROVE q[j] \in Range(back)
    <3>1. j \in 1 .. n
      BY <1>1
    <3> QED
      BY <1>4, <3>1 DEF Range
  <2>3. x \in Range(back)
    <3>1. n \in 1 .. n
      BY <1>1
    <3> QED
      BY <1>4, <3>1 DEF Range
  <2> QED
    BY <2>1, <2>2, <2>3
<1> QED
  BY <1>3, <1>4, <1>5, <1>6, <1>7 DEF front, back, x, q

\* Putting rules in order keeps them.
LEMMA InOrderKeeps ==
    ASSUME NEW T, NEW rs \in Seq(T)
    PROVE  InOrder(rs) \in Seq(T) /\ Range(InOrder(rs)) = Range(rs)
<1>1. ASSUME NEW qs \in Seq(T), NEW name
      PROVE  /\ ToFront(name, qs) \in Seq(T) /\ Range(ToFront(name, qs)) = Range(qs)
             /\ ToBack(name, qs) \in Seq(T) /\ Range(ToBack(name, qs)) = Range(qs)
  <2>1. CASE PlaceOf(name, qs) = {}
    BY <2>1 DEF ToFront, ToBack
  <2>2. CASE PlaceOf(name, qs) # {}
    <3> DEFINE i == CHOOSE i \in PlaceOf(name, qs) : TRUE
    <3>1. i \in DOMAIN qs
      BY <2>2 DEF PlaceOf
    <3>2. /\ ToFront(name, qs) = <<qs[i]>> \o RemoveAt(qs, i)
          /\ ToBack(name, qs) = RemoveAt(qs, i) \o <<qs[i]>>
      BY <2>2 DEF ToFront, ToBack
    <3> HIDE DEF i
    <3> QED
      BY <3>1, <3>2, Moved
  <2> QED
    BY <2>1, <2>2
<1> QED
  BY <1>1 DEF InOrder

-----------------------------------------------------------------------------
(* What the rules ask for *)

\* When each rule is met.
LEMMA MethodSays ==
    ASSUME NEW val, NEW f, NEW v
    PROVE  LET x == val[f]
               Says(name) == method(Rule(name, v), val, f) IN
           /\ Says("__dummy__") /\ Says("remote")
           /\ Says("required")    <=> x # Empty
           /\ Says("equalTo")     <=> x = val[v]
           /\ Says("nonalphamin") <=> nonalphamin(x, v)
           /\ Says("regex")       <=> x = Empty \/ regex(x, v)
           /\ Says("minlength")   <=> x = Empty \/ Facts[x].length >= v
           /\ Says("maxlength")   <=> x = Empty \/ Facts[x].length <= v
           /\ Says("rangelength") <=> x = Empty \/ Facts[x].length \in v[1] .. v[2]
           /\ Says("min")         <=> x = Empty \/ Facts[x].number >= v
           /\ Says("max")         <=> x = Empty \/ Facts[x].number <= v
           /\ Says("range")       <=> x = Empty \/ Facts[x].number \in v[1] .. v[2]
           /\ \A format \in {"date", "digits", "email", "number", "url"} :
                 Says(format) <=> x = Empty \/ format \in Facts[x].formats
<1> DEFINE x == val[f]
           Says(name) == method(Rule(name, v), val, f)
<1> USE DEF method, Rule, Insistent, optional
<1>1. Says("__dummy__") /\ Says("remote")
  OBVIOUS
<1>2. Says("required") <=> x # Empty
  OBVIOUS
<1>3. Says("equalTo") <=> x = val[v]
  OBVIOUS
<1>4. Says("nonalphamin") <=> nonalphamin(x, v)
  OBVIOUS
<1>5. Says("regex") <=> x = Empty \/ regex(x, v)
  OBVIOUS
<1>6. /\ Says("minlength") <=> x = Empty \/ Facts[x].length >= v
      /\ Says("maxlength") <=> x = Empty \/ Facts[x].length <= v
      /\ Says("rangelength") <=> x = Empty \/ Facts[x].length \in v[1] .. v[2]
  OBVIOUS
<1>7. /\ Says("min") <=> x = Empty \/ Facts[x].number >= v
      /\ Says("max") <=> x = Empty \/ Facts[x].number <= v
      /\ Says("range") <=> x = Empty \/ Facts[x].number \in v[1] .. v[2]
  OBVIOUS
<1>8. ASSUME NEW format \in {"date", "digits", "email", "number", "url"}
      PROVE  Says(format) <=> x = Empty \/ format \in Facts[x].formats
  OBVIOUS
<1> HIDE DEF method, Rule, Insistent, optional
<1> QED
  BY <1>1, <1>2, <1>3, <1>4, <1>5, <1>6, <1>7, <1>8

\* A pattern has to match the whole value.
LEMMA RegexIsWhole ==
    ASSUME NEW x \in Values, NEW pattern
    PROVE  regex(x, pattern) <=> Whole(x, pattern)
<1>1. CASE pattern \in DOMAIN Facts[x].match
  <2>1. /\ Facts[x].match[pattern] \in [index : Nat, length : Nat]
        /\ Facts[x].length \in Nat
    BY <1>1, FactsAssumption
  <2> QED
    BY <2>1 DEF regex, Whole
<1>2. CASE pattern \notin DOMAIN Facts[x].match
  BY <1>2 DEF regex, Whole
<1> QED
  BY <1>1, <1>2

\* A name is its prefix and its last segment.
LEMMA FrontAndLast ==
    ASSUME NEW T, NEW s \in Seq(T), Len(s) > 0
    PROVE  /\ Front(s) \in Seq(T)
           /\ s = Front(s) \o <<Last(s)>>
           /\ Len(s) = 2 => Tail(s) = <<s[2]>> /\ s[2] \in T
<1> DEFINE n == Len(s) - 1
           p == SubSeq(s, 1, n)
<1>1. n \in Nat /\ Len(s) = n + 1
  OBVIOUS
<1>2. ASSUME Len(s) = 2 PROVE Tail(s) = <<s[2]>> /\ s[2] \in T
  <2> DEFINE t == Tail(s)
             u == <<s[2]>>
  <2>1. s[2] \in T
    BY <1>2
  <2>2. t \in Seq(T) /\ Len(t) = 1 /\ t[1] = s[2]
    BY <1>2
  <2>3. u \in Seq(T) /\ Len(u) = 1 /\ u[1] = s[2]
    BY <2>1
  <2> HIDE DEF t, u
  <2>4. \A i \in 1 .. 1 : t[i] = u[i]
    BY <2>2, <2>3
  <2>5. t = u
    BY <2>2, <2>3, <2>4
  <2> QED
    BY <2>1, <2>5 DEF t, u
<1>3. Front(s) = p /\ Last(s) = s[n + 1]
  BY <1>1 DEF Front, Last
<1> HIDE DEF n
<1>4. p \in Seq(T) /\ Len(p) = n /\ \A i \in 1 .. n : p[i] = s[i]
  BY <1>1
<1>5. s = p \o <<s[n + 1]>>
  <2> DEFINE q == p \o <<s[n + 1]>>
  <2>1. s[n + 1] \in T
    BY <1>1
  <2>2. q \in Seq(T) /\ Len(q) = n + 1 /\ q[n + 1] = s[n + 1] /\ \A i \in 1 .. n : q[i] = p[i]
    BY <1>1, <1>4, <2>1
  <2> HIDE DEF q, p
  <2>3. \A i \in 1 .. n + 1 : q[i] = s[i]
    BY <1>1, <1>4, <2>2
  <2>4. q = s
    BY <1>1, <2>2, <2>3
  <2> QED
    BY <2>4 DEF q
<1> QED
  BY <1>2, <1>3, <1>4, <1>5

\* And the other way round.
LEMMA FrontAndLastOf ==
    ASSUME NEW T, NEW p \in Seq(T), NEW x \in T
    PROVE  Front(p \o <<x>>) = p /\ Last(p \o <<x>>) = x
<1> DEFINE s == p \o <<x>>
<1>1. s \in Seq(T) /\ Len(s) = Len(p) + 1 /\ s[Len(p) + 1] = x /\ Len(p) \in Nat
  OBVIOUS
<1>2. SubSeq(s, 1, Len(p)) = p
  BY <1>1
<1> QED
  BY <1>1, <1>2 DEF Front, Last

\* The field that an equalto attribute names is the one its rule compares with.
LEMMA OtherIsSibling ==
    ASSUME NEW f \in Fields, NEW name \in Seq(STRING), Len(name) > 0,
           name[1] = "*" => Len(name) = 2,
           appendModelPrefix(name, getModelPrefix(f)) \in Fields
    PROVE  Sibling(f, name) = appendModelPrefix(name, getModelPrefix(f))
<1> DEFINE g == appendModelPrefix(name, getModelPrefix(f))
<1> DEFINE T == STRING
<1>1. name \in Seq(T) /\ \A e \in Fields : e \in Seq(T) /\ Len(e) > 0
  BY FieldsAssumption
<1> HIDE DEF T
<1>2. CASE name[1] # "*"
  <2>1. g = name
    BY <1>2 DEF appendModelPrefix
  <2>2. Sibling(f, name) = CHOOSE e \in Fields : e = name
    BY <1>2 DEF Sibling
  <2> QED
    BY <2>1, <2>2
<1>3. CASE name[1] = "*"
  <2> DEFINE p == Front(f)
  <2>1. Tail(name) = <<name[2]>> /\ name[2] \in T
    BY <1>1, <1>3, FrontAndLast
  <2>2. p \in Seq(T)
    BY <1>1, FrontAndLast
  <2>3. g = p \o <<name[2]>>
    BY <1>3, <2>1 DEF appendModelPrefix, getModelPrefix
  <2>4. Front(g) = p /\ Last(g) = name[2]
    BY <2>1, <2>2, <2>3, FrontAndLastOf
  <2>5. ASSUME NEW e \in Fields, Front(e) = p, Last(e) = name[2]
        PROVE  e = g
    BY <1>1, <2>3, <2>5, FrontAndLast
  <2>6. Sibling(f, name) = CHOOSE e \in Fields : Front(e) = p /\ Last(e) = name[2]
    BY <1>3 DEF Sibling
  <2> HIDE DEF p, g
  <2>7. g \in Fields
    BY DEF g
  <2> QED
    BY <2>4, <2>5, <2>6, <2>7 DEF g
<1> QED
  BY <1>2, <1>3

\* The three rules of an adapter with bounds are about n.
AsksOf(n, a, given, val, f) ==
    LET x  == val[f]
        lo == given["min"]
        hi == given["max"]
    IN  /\ "min" \in DOMAIN given /\ "max" \notin DOMAIN given =>
               (method(Rule(a.ruleNames[1], lo), val, f) <=> x = Empty \/ n >= lo)
        /\ "max" \in DOMAIN given /\ "min" \notin DOMAIN given =>
               (method(Rule(a.ruleNames[2], hi), val, f) <=> x = Empty \/ n <= hi)
        /\ {"min", "max"} \subseteq DOMAIN given =>
               (method(Rule(a.ruleNames[3], <<lo, hi>>), val, f) <=> x = Empty \/ n \in lo .. hi)

\* Bounds: what addMinMax makes of them is what they mean.
LEMMA BoundsMean ==
    ASSUME NEW a, NEW given, NEW f, NEW val, NEW n \in Int,
           a.adapt = "minmax", AsksOf(n, a, given, val, f),
           \A bound \in {"min", "max"} \cap DOMAIN given : given[bound] \in Int
    PROVE  (\A r \in Sets(a, f, given) : method(r, val, f))
              <=> (val[f] = Empty \/ Within(n, given))
<1> DEFINE x == val[f]
           S == Sets(a, f, given)
<1> USE DEF AsksOf
<1>1. CASE {"min", "max"} \subseteq DOMAIN given
  <2> DEFINE lo == given["min"]
             hi == given["max"]
             r == Rule(a.ruleNames[3], <<lo, hi>>)
  <2>1. S = {r}
    BY <1>1 DEF Sets
  <2>2. lo \in Int /\ hi \in Int /\ (Within(n, given) <=> n >= lo /\ n <= hi)
    BY <1>1 DEF Within
  <2>3. method(r, val, f) <=> x = Empty \/ n \in lo .. hi
    BY <1>1
  <2> HIDE DEF lo, hi, r
  <2>4. n \in lo .. hi <=> n >= lo /\ n <= hi
    BY <2>2
  <2> QED
    BY <2>1, <2>2, <2>3, <2>4
<1>2. CASE "min" \in DOMAIN given /\ "max" \notin DOMAIN given
  <2>1. S = {Rule(a.ruleNames[1], given["min"])}
    BY <1>2 DEF Sets
  <2>2. Within(n, given) <=> n >= given["min"]
    BY <1>2 DEF Within
  <2> QED
    BY <1>2, <2>1, <2>2
<1>3. CASE "max" \in DOMAIN given /\ "min" \notin DOMAIN given
  <2>1. S = {Rule(a.ruleNames[2], given["max"])}
    BY <1>3 DEF Sets
  <2>2. Within(n, given) <=> n <= given["max"]
    BY <1>3 DEF Within
  <2> QED
    BY <1>3, <2>1, <2>2
<1>4. CASE "max" \notin DOMAIN given /\ "min" \notin DOMAIN given
  BY <1>4 DEF Sets, Within
<1> QED
  BY <1>1, <1>2, <1>3, <1>4

\* The rules that an adapter sets hold exactly if the input is what its attribute
\* declares.
LEMMA AdapterMeans ==
    ASSUME NEW k \in 1 .. 17, NEW f \in Fields, NEW given, NEW val \in [Fields -> Values],
           WellFormed(adapters[k].name, given, f),
           \A r \in Sets(adapters[k], f, given) : r.rule \in Methods
    PROVE  (\A r \in Sets(adapters[k], f, given) : method(r, val, f))
              <=> Means(adapters[k].name, given, val, f)
<1> DEFINE a == adapters[k]
           S == Sets(a, f, given)
           x == val[f]
<1>1. k \in Seventeen
  BY SeventeenAdapters
<1>2. x \in Values /\ Facts[x].length \in Int /\ Facts[x].number \in Int /\ Facts[x].nonword \in Nat
  BY FactsAssumption
<1>3. \A n, v : Rule(n, v).rule = n
  BY DEF Rule
<1>4. CASE k \in {3, 4, 5, 6, 7, 8}
  <2> DEFINE yes == TRUE
  <2>1. /\ a.adapt = "bool" /\ a.ruleNames[1] = a.name
        /\ a.name \in {"creditcard", "date", "digits", "email", "number", "url"}
    BY <1>4, Registry DEF add
  <2>2. S = {Rule(a.name, yes)}
    BY <2>1 DEF Sets
  <2> HIDE DEF yes
  <2>3. a.name \in {"date", "digits", "email", "number", "url"}
    BY <1>3, <2>1, <2>2 DEF Methods, Insistent
  <2>4. method(Rule(a.name, yes), val, f) <=> x = Empty \/ a.name \in Facts[x].formats
    BY <2>3, MethodSays
  <2>5. Means(a.name, given, val, f) <=> x = Empty \/ a.name \in Facts[x].formats
    BY <2>3 DEF Means
  <2> QED
    BY <2>2, <2>4, <2>5
<1>5. CASE k \in {1, 17}
  <2>1. a.adapt = "single" /\ a.ruleNames[1] \in {"accept", "extension"}
    BY <1>5, Registry DEF add
  <2>2. Rule(a.ruleNames[1], given[a.params[1]]) \in S
    BY <2>1 DEF Sets
  <2>3. a.ruleNames[1] \in Methods
    BY <1>3, <2>2
  <2> QED
    BY <2>1, <2>3 DEF Methods, Insistent
<1>6. CASE k = 2
  <2> DEFINE v == given["pattern"]
  <2>1. a.adapt = "single" /\ a.name = "regex" /\ a.ruleNames[1] = "regex" /\ a.params[1] = "pattern"
    BY <1>6, Registry DEF add
  <2>2. S = {Rule("regex", v)}
    BY <2>1 DEF Sets
  <2>3. Means(a.name, given, val, f) <=> x = Empty \/ Whole(x, v)
    BY <2>1 DEF Means
  <2> HIDE DEF v
  <2>4. method(Rule("regex", v), val, f) <=> x = Empty \/ regex(x, v)
    BY MethodSays
  <2>5. regex(x, v) <=> Whole(x, v)
    BY <1>2, RegexIsWhole
  <2> QED
    BY <2>2, <2>3, <2>4, <2>5
<1>7. CASE k = 9
  <2>1. /\ a.adapt = "minmax" /\ a.name = "length" /\ a.ruleNames[1] = "minlength"
        /\ a.ruleNames[2] = "maxlength" /\ a.ruleNames[3] = "rangelength"
    BY <1>7, Registry DEF add
  <2>2. \A bound \in {"min", "max"} \cap DOMAIN given : given[bound] \in Int
    BY <2>1 DEF WellFormed
  <2>3. Means(a.name, given, val, f) <=> x = Empty \/ Within(Facts[x].length, given)
    BY <2>1 DEF Means
  <2> DEFINE n == Facts[x].length
             lo == given["min"]
             hi == given["max"]
             both == <<lo, hi>>
  <2>4. n \in Int /\ both[1] = lo /\ both[2] = hi
    BY <1>2
  <2>5. /\ method(Rule("minlength", lo), val, f) <=> x = Empty \/ n >= lo
        /\ method(Rule("maxlength", hi), val, f) <=> x = Empty \/ n <= hi
    BY MethodSays
  <2>6. method(Rule("rangelength", both), val, f) <=> x = Empty \/ n \in lo .. hi
    <3> HIDE DEF both
    <3>1. method(Rule("rangelength", both), val, f) <=> x = Empty \/ n \in both[1] .. both[2]
      BY MethodSays
    <3> QED
      BY <2>4, <3>1
  <2> HIDE DEF n, a
  <2>7. AsksOf(n, a, given, val, f)
    BY <2>1, <2>5, <2>6 DEF AsksOf
  <2> QED
    BY <2>1, <2>2, <2>3, <2>4, <2>7, BoundsMean DEF n, a
<1>8. CASE k = 10
  <2>1. /\ a.adapt = "minmax" /\ a.name = "range" /\ a.ruleNames[1] = "min"
        /\ a.ruleNames[2] = "max" /\ a.ruleNames[3] = "range"
    BY <1>8, Registry DEF add
  <2>2. \A bound \in {"min", "max"} \cap DOMAIN given : given[bound] \in Int
    BY <2>1 DEF WellFormed
  <2>3. Means(a.name, given, val, f) <=> x = Empty \/ Within(Facts[x].number, given)
    BY <2>1 DEF Means
  <2> DEFINE n == Facts[x].number
             lo == given["min"]
             hi == given["max"]
             both == <<lo, hi>>
  <2>4. n \in Int /\ both[1] = lo /\ both[2] = hi
    BY <1>2
  <2>5. /\ method(Rule("min", lo), val, f) <=> x = Empty \/ n >= lo
        /\ method(Rule("max", hi), val, f) <=> x = Empty \/ n <= hi
    BY MethodSays
  <2>6. method(Rule("range", both), val, f) <=> x = Empty \/ n \in lo .. hi
    <3> HIDE DEF both
    <3>1. method(Rule("range", both), val, f) <=> x = Empty \/ n \in both[1] .. both[2]
      BY MethodSays
    <3> QED
      BY <2>4, <3>1
  <2> HIDE DEF n, a
  <2>7. AsksOf(n, a, given, val, f)
    BY <2>1, <2>5, <2>6 DEF AsksOf
  <2> QED
    BY <2>1, <2>2, <2>3, <2>4, <2>7, BoundsMean DEF n, a
<1>9. CASE k \in {11, 12}
  <2>1. /\ a.adapt = "minmax" /\ a.name \in {"minlength", "maxlength"}
        /\ a.ruleNames[1] = "minlength" /\ a.ruleNames[2] \in {"maxlength", "undefined"}
        /\ a.ruleNames[3] = "undefined"
    BY <1>9, Registry DEF add
  <2>2. \A bound \in {"min", "max"} \cap DOMAIN given : given[bound] \in Int
    BY <2>1 DEF WellFormed
  <2>3. Means(a.name, given, val, f) <=> x = Empty \/ Within(Facts[x].length, given)
    BY <2>1 DEF Means
  <2>4. "undefined" \notin Methods
    BY DEF Methods, Insistent
  <2>5. ~ ({"min", "max"} \subseteq DOMAIN given)
    <3>1. ASSUME {"min", "max"} \subseteq DOMAIN given
          PROVE  Rule("undefined", <<given["min"], given["max"]>>) \in S
      BY <2>1, <3>1 DEF Sets
    <3> QED
      BY <1>3, <2>4, <3>1
  <2>6. "max" \in DOMAIN given => a.ruleNames[2] = "maxlength"
    <3>1. ASSUME "max" \in DOMAIN given
          PROVE  Rule(a.ruleNames[2], given["max"]) \in S
      BY <2>1, <2>5, <3>1 DEF Sets
    <3> QED
      BY <1>3, <2>1, <2>4, <3>1
  <2> DEFINE n == Facts[x].length
             lo == given["min"]
             hi == given["max"]
  <2>7. /\ method(Rule("minlength", lo), val, f) <=> x = Empty \/ n >= lo
        /\ method(Rule("maxlength", hi), val, f) <=> x = Empty \/ n <= hi
    BY MethodSays
  <2>8. n \in Int
    BY <1>2
  <2> HIDE DEF n, a
  <2>9. AsksOf(n, a, given, val, f)
    BY <2>1, <2>5, <2>6, <2>7 DEF AsksOf
  <2> QED
    BY <2>1, <2>2, <2>3, <2>8, <2>9, BoundsMean DEF n, a
<1>10. CASE k = 13
  <2> DEFINE g == appendModelPrefix(given["other"], getModelPrefix(f))
             e == CHOOSE h \in escapeAttributeValue(g) : TRUE
  <2>1. a.adapt = "equalto" /\ a.name = "equalto"
    BY <1>10, Registry DEF add
  <2>2. S = {Rule("equalTo", e)}
    BY <2>1 DEF Sets
  <2>3. g \in Fields /\ Sibling(f, given["other"]) = g
    BY <2>1, OtherIsSibling DEF WellFormed
  <2>4. Means(a.name, given, val, f) <=> x = val[g]
    BY <2>1, <2>3 DEF Means
  <2> HIDE DEF g
  <2>5. e = g
    BY <2>3 DEF escapeAttributeValue
  <2> HIDE DEF e
  <2>6. method(Rule("equalTo", e), val, f) <=> x = val[e]
    BY MethodSays
  <2> QED
    BY <2>2, <2>4, <2>5, <2>6
<1>11. CASE k = 14
  <2> DEFINE yes == TRUE
  <2>1. a.adapt = "required" /\ a.name = "required"
    BY <1>11, Registry DEF add
  <2>2. S = IF f \in Checkable THEN {} ELSE {Rule("required", yes)}
    BY <2>1 DEF Sets
  <2>3. Means(a.name, given, val, f) <=> f \in Checkable \/ x # Empty
    BY <2>1 DEF Means
  <2> HIDE DEF yes
  <2>4. method(Rule("required", yes), val, f) <=> x # Empty
    BY MethodSays
  <2> QED
    BY <2>2, <2>3, <2>4
<1>12. CASE k = 15
  <2> DEFINE others == UNION {escapeAttributeValue(n) :
                n \in {appendModelPrefix(m, getModelPrefix(f)) : m \in splitAndTrim(given, f)}}
  <2>1. a.adapt = "remote" /\ a.name = "remote"
    BY <1>12, Registry DEF add
  <2>2. S = {Rule("remote", others)}
    BY <2>1 DEF Sets
  <2>3. Means(a.name, given, val, f)
    BY <2>1 DEF Means
  <2> HIDE DEF others
  <2>4. method(Rule("remote", others), val, f)
    BY MethodSays
  <2> QED
    BY <2>2, <2>3, <2>4
<1>13. CASE k = 16
  <2> DEFINE Given(p) == p \in DOMAIN given
             least == given["min"]
             some == given["nonalphamin"]
             pattern == given["regex"]
  <2>1. /\ a.adapt = "password" /\ a.name = "password"
        /\ a.ruleNames = <<"minlength", "nonalphamin", "regex">>
        /\ a.params = <<"min", "nonalphamin", "regex">>
    BY <1>13, Registry DEF add
  <2>2. \A r : r \in S <=> \/ Given("min") /\ r = Rule("minlength", least)
                           \/ Given("nonalphamin") /\ r = Rule("nonalphamin", some)
                           \/ Given("regex") /\ r = Rule("regex", pattern)
    <3>1. 1 .. 3 = {1, 2, 3}
      OBVIOUS
    <3>2. S = {Rule(a.ruleNames[i], given[a.params[i]]) :
               i \in {j \in {1, 2, 3} : a.params[j] \in DOMAIN given}}
      BY <2>1, <3>1 DEF Sets
    <3>3. /\ a.ruleNames[1] = "minlength" /\ a.ruleNames[2] = "nonalphamin" /\ a.ruleNames[3] = "regex"
          /\ a.params[1] = "min" /\ a.params[2] = "nonalphamin" /\ a.params[3] = "regex"
      BY <2>1
    <3> HIDE DEF S, a
    <3> QED
      BY <3>2, <3>3
  <2>3. Means(a.name, given, val, f) <=>
            /\ Given("min") => x = Empty \/ Facts[x].length >= least
            /\ Given("nonalphamin") => Facts[x].nonword >= some
            /\ Given("regex") => x = Empty \/ Whole(x, pattern)
    BY <2>1 DEF Means
  <2>4. Given("nonalphamin") => some \in Nat \ {0}
    BY <2>1 DEF WellFormed
  <2> HIDE DEF Given, least, some, pattern, S
  <2>5. /\ method(Rule("minlength", least), val, f) <=> x = Empty \/ Facts[x].length >= least
        /\ method(Rule("nonalphamin", some), val, f) <=> nonalphamin(x, some)
        /\ method(Rule("regex", pattern), val, f) <=> x = Empty \/ regex(x, pattern)
    BY MethodSays
  <2>6. Given("nonalphamin") => (nonalphamin(x, some) <=> Facts[x].nonword >= some)
    BY <1>2, <2>4 DEF nonalphamin
  <2>7. regex(x, pattern) <=> Whole(x, pattern)
    BY <1>2, RegexIsWhole
  <2> HIDE DEF x
  <2> QED
    BY <2>2, <2>3, <2>5, <2>6, <2>7 DEF S
<1> QED
  BY <1>1, <1>4, <1>5, <1>6, <1>7, <1>8, <1>9, <1>10, <1>11, <1>12, <1>13 DEF Seventeen

-----------------------------------------------------------------------------
(* The rules in force *)

\* What an input is checked for is what its attributes declare.
LEMMA MadeMeans ==
    ASSUME NEW p \in Pages, NEW f \in DOMAIN p.dataVal, NEW val \in [Fields -> Values]
    PROVE  (\A r \in Made(p.dataVal[f], f) : method(r, val, f)) <=> Declared(p.dataVal[f], val, f)
<1> DEFINE attributes == p.dataVal[f]
           given(k) == attributes[adapters[k].name]
           Has(k) == adapters[k].name \in DOMAIN attributes
<1>1. f \in Fields
  BY PagesAssumption
<1>2. /\ \A a \in DOMAIN attributes : /\ \E k \in 1 .. 17 : adapters[k].name = a
                                      /\ WellFormed(a, attributes[a], f)
      /\ Agreeing(attributes, f)
  BY DeclarationsAssumption, Registry
<1>3. \A r \in Made(attributes, f) : r.rule \in Methods
  <2>1. Range(parseElement(attributes, f)) = Made(attributes, f)
    BY <1>2, ParseElementMakes
  <2>2. \A i \in DOMAIN parseElement(attributes, f) : parseElement(attributes, f)[i].rule \in Methods
    BY MethodsAssumption
  <2> QED
    BY <2>1, <2>2 DEF Range
<1> HIDE DEF attributes
<1>4. ASSUME NEW k \in 1 .. 17, Has(k)
      PROVE  (\A r \in SetsOf(k, attributes, f) : method(r, val, f))
                <=> Means(adapters[k].name, given(k), val, f)
  <2>1. SetsOf(k, attributes, f) = Sets(adapters[k], f, given(k))
    BY <1>4 DEF SetsOf
  <2>2. \A r \in Sets(adapters[k], f, given(k)) : r.rule \in Methods
    BY <1>3, <2>1 DEF Made
  <2>3. WellFormed(adapters[k].name, given(k), f)
    BY <1>2, <1>4
  <2> HIDE DEF given
  <2> QED
    BY <1>1, <2>1, <2>2, <2>3, AdapterMeans
<1>5. method(Dummy, val, f)
  <2> DEFINE yes == TRUE
  <2> HIDE DEF yes
  <2>1. method(Rule("__dummy__", yes), val, f)
    BY MethodSays
  <2> QED
    BY <2>1 DEF Dummy, yes
<1>6. ASSUME \A r \in Made(attributes, f) : method(r, val, f)
      PROVE  Declared(attributes, val, f)
  <2> SUFFICES ASSUME NEW a \in DOMAIN attributes
               PROVE  Means(a, attributes[a], val, f)
    BY DEF Declared
  <2>1. PICK k \in 1 .. 17 : adapters[k].name = a
    BY <1>2
  <2>2. \A r \in SetsOf(k, attributes, f) : method(r, val, f)
    BY <1>6 DEF Made
  <2> QED
    BY <1>4, <2>1, <2>2
<1>7. ASSUME Declared(attributes, val, f), NEW r \in Made(attributes, f)
      PROVE  method(r, val, f)
  <2>1. CASE r = Dummy
    BY <1>5, <2>1
  <2>2. CASE r # Dummy
    <3>1. PICK k \in 1 .. 17 : r \in SetsOf(k, attributes, f)
      BY <2>2 DEF Made
    <3>2. Has(k)
      BY <3>1 DEF SetsOf
    <3>3. Means(adapters[k].name, given(k), val, f)
      BY <1>7, <3>2 DEF Declared
    <3> QED
      BY <1>4, <3>1, <3>2, <3>3
  <2> QED
    BY <2>1, <2>2
<1> QED
  BY <1>6, <1>7 DEF attributes

\* The rules in force are made of the attributes of the page that is shown.
RulesOfPage ==
    \A f \in Fields :
        settings[f] = <<>> \/ /\ f \in DOMAIN page.dataVal
                              /\ settings[f] = InOrder(parseElement(page.dataVal[f], f))

\* A check of an input finds a rule that fails exactly if the input is not what its
\* attributes declare; and with the rule that never fails, no check passes it by.
LEMMA FailingTells ==
    ASSUME page \in Pages, RulesOfPage, NEW f \in elements, NEW val \in [Fields -> Values]
    PROVE  /\ Failing(val, f) = {} <=> Declared(page.dataVal[f], val, f)
           /\ ~ DependencyMismatch(val, f)
<1> DEFINE attributes == page.dataVal[f]
           s == settings[f]
           T == Made(attributes, f)
<1>1. f \in Fields /\ s # <<>>
  BY DEF elements
<1>2. f \in DOMAIN page.dataVal /\ s = InOrder(parseElement(attributes, f))
  BY <1>1 DEF RulesOfPage
<1>3. Agreeing(attributes, f)
  BY <1>2, DeclarationsAssumption
<1>4. s \in Seq(T) /\ Range(s) = T
  BY <1>2, <1>3, ParseElementMakes, InOrderKeeps
<1>5. Failing(val, f) = {} <=> \A r \in T : method(r, val, f)
  <2>1. Failing(val, f) = {i \in DOMAIN s : ~ method(s[i], val, f)}
    BY DEF Failing
  <2> HIDE DEF s, T
  <2>2. T = {s[i] : i \in DOMAIN s}
    BY <1>4 DEF Range
  <2> QED
    BY <2>1, <2>2
<1>6. ~ DependencyMismatch(val, f)
  <2> SUFFICES ASSUME Len(s) = 1 PROVE s[1].rule \in Insistent
    BY <1>1 DEF DependencyMismatch
  <2>1. Dummy \in T /\ Dummy.rule \in Insistent
    BY DEF Made, Dummy, Rule, Insistent
  <2> HIDE DEF s, T
  <2>2. PICK i \in DOMAIN s : s[i] = Dummy
    BY <1>4, <2>1 DEF Range
  <2>3. i = 1
    BY <1>4, <2>2
  <2> QED
    BY <2>1, <2>2, <2>3
<1> QED
  BY <1>2, <1>5, <1>6, MadeMeans

-----------------------------------------------------------------------------
(* Requests and answers *)

\* The fields that wait are counted, and only they have requests under way.
Counted(v) ==
    /\ v.pendingRequest = Cardinality(v.pending)
    /\ \A f \in Fields : v.inflight[f] # None => f \in v.pending

\* What a field remembers of a check is the server's last answer, or what the
\* request under way will be about.
Remembered(v, vd) ==
    \A f \in Fields : v.previousValue[f].old # None =>
        IF f \in v.pending
          THEN v.inflight[f] # None =>
                 /\ v.inflight[f].live
                 /\ v.inflight[f].data = v.previousValue[f].old
          ELSE vd[f] = [data |-> v.previousValue[f].old, ok |-> v.previousValue[f].valid]

\* Without a validator there is nothing to check.
Held(v) == v.attached \/ elements = {}

Good(v, vd) == v \in Validator /\ Counted(v) /\ Remembered(v, vd) /\ Held(v)

Verdicts == [Fields -> [data : Data, ok : BOOLEAN] \cup {None}]

-----------------------------------------------------------------------------
\* What is sent for a check is data.
LEMMA OptionDataIsData ==
    ASSUME NEW val \in [Fields -> Values], NEW f \in Fields
    PROVE  OptionData(val, f) \in Data /\ OptionData(val, f) # None
<1> DEFINE D == {f} \cup (Fields \cap UNION {r.param : r \in RemoteRules(f)})
<1>1. D \in SUBSET Fields
  OBVIOUS
<1>2. \A g \in Fields : Sent(val, g) \in Values
  BY PagesAssumption DEF Sent
<1>3. OptionData(val, f) = [g \in D |-> Sent(val, g)]
  BY DEF OptionData
<1>4. OptionData(val, f) \in [D -> Values]
  BY <1>1, <1>2, <1>3
<1> QED
  BY <1>1, <1>4, NoneAssumption DEF Data

\* Handlers that leave requests and memories alone keep Good, if they keep types.
LEMMA GoodSame ==
    ASSUME NEW v, NEW w, NEW vd, Good(v, vd), w \in Validator,
           w.pending = v.pending, w.pendingRequest = v.pendingRequest,
           w.inflight = v.inflight, w.previousValue = v.previousValue,
           w.attached = v.attached
    PROVE  Good(w, vd)
  BY DEF Good, Counted, Remembered, Held

LEMMA ShowErrorsGood ==
    ASSUME NEW v, NEW vd, Good(v, vd)
    PROVE  /\ Good(showErrors(v), vd)
           /\ showErrors(v).errorMap = v.errorMap
<1> DEFINE w == showErrors(v)
<1>1. v \in Validator
  BY DEF Good
<1>2. w \in Validator
  BY <1>1 DEF showErrors, onError, onSuccess, Validator
<1>3. /\ w.pending = v.pending /\ w.pendingRequest = v.pendingRequest
      /\ w.inflight = v.inflight /\ w.previousValue = v.previousValue
      /\ w.attached = v.attached
      /\ w.errorMap = v.errorMap
  BY <1>1 DEF showErrors, onError, onSuccess, Validator
<1> QED
  BY <1>2, <1>3, GoodSame

LEMMA OnErrorsGood ==
    ASSUME NEW v, NEW vd, Good(v, vd)
    PROVE  /\ Good(onErrors(v), vd)
           /\ onErrors(v).errorMap = v.errorMap
<1> DEFINE w == onErrors(v)
<1>1. v \in Validator
  BY DEF Good
<1>2. w \in Validator
  BY <1>1 DEF onErrors, Validator
<1>3. /\ w.pending = v.pending /\ w.pendingRequest = v.pendingRequest
      /\ w.inflight = v.inflight /\ w.previousValue = v.previousValue
      /\ w.attached = v.attached
      /\ w.errorMap = v.errorMap
  BY <1>1 DEF onErrors, Validator
<1> QED
  BY <1>2, <1>3, GoodSame

-----------------------------------------------------------------------------
\* What is added to a set is counted once.
LEMMA AddedFields ==
    ASSUME NEW P, NEW A, IsFiniteSet(P), IsFiniteSet(A \ P)
    PROVE  Cardinality(P \cup A) = Cardinality(P) + Cardinality(A \ P)
<1>1. P \cup A = P \cup (A \ P) /\ P \cap (A \ P) = {}
  OBVIOUS
<1>2. Cardinality(P \cup (A \ P))
        = Cardinality(P) + Cardinality(A \ P) - Cardinality(P \cap (A \ P))
  BY FS_Union, IsFiniteSet(P), IsFiniteSet(A \ P)
<1>3. Cardinality({}) = 0 /\ Cardinality(P) \in Nat /\ Cardinality(A \ P) \in Nat
  BY FS_EmptySet, FS_CardinalityType
<1>4. Cardinality(P \cap (A \ P)) = 0
  BY <1>1, <1>3
<1>5. Cardinality(P \cup A) = Cardinality(P \cup (A \ P))
  BY <1>1, Zenon
<1> QED
  BY <1>2, <1>3, <1>4, <1>5

\* A check of some fields keeps Good: fields that did not wait yet are added to
\* the count, and what they remember is what their new request is about.
LEMMA CheckedGood ==
    ASSUME NEW v, NEW vd, NEW val \in [Fields -> Values], NEW S \in SUBSET Fields,
           Good(v, vd)
    PROVE  Good(Checked(v, val, S), vd)
<1> DEFINE w == Checked(v, val, S)
           asks == {f \in S : check(v, val, f) = "pending"}
           bad == {f \in S : check(v, val, f) = "bad"}
           good == {f \in S : check(v, val, f) = "good"}
           previous == [f \in Fields |->
              IF f \in asks THEN [v.previousValue[f] EXCEPT !.old = OptionData(val, f)]
                            ELSE v.previousValue[f]]
           sent == [f \in Fields |->
              IF f \in asks THEN [data |-> OptionData(val, f), live |-> TRUE]
                            ELSE v.inflight[f]]
           targets == [t \in Fields |->
              IF v.blurTarget[t] = None /\ Binding(val, S, t) # {}
                THEN CHOOSE f \in Binding(val, S, t) : TRUE ELSE v.blurTarget[t]]
           record == [v EXCEPT !.errorMap = bad, !.submitted = @ \cup bad,
                        !.successList = good, !.pending = @ \cup asks,
                        !.pendingRequest = v.pendingRequest + Cardinality(asks \ v.pending),
                        !.previousValue = previous, !.inflight = sent,
                        !.blurTarget = targets]
<1>1. v \in Validator /\ Counted(v) /\ Remembered(v, vd) /\ Held(v)
  BY DEF Good
<1>2. w = record
  BY DEF Checked, startRequest
<1>3. /\ asks \in SUBSET Fields /\ bad \in SUBSET Fields /\ good \in SUBSET Fields
      /\ IsFiniteSet(v.pending) /\ IsFiniteSet(asks \ v.pending)
      /\ v.pending \in SUBSET Fields /\ v.pendingRequest \in Nat
  <2>1. v.pending \in SUBSET Fields /\ v.pendingRequest \in Nat
    BY <1>1 DEF Validator
  <2> QED
    BY <2>1, PagesAssumption, FS_Subset
<1>4. Cardinality(asks \ v.pending) \in Nat
  BY <1>3, FS_CardinalityType
<1>5. Cardinality(v.pending \cup asks) = Cardinality(v.pending) + Cardinality(asks \ v.pending)
  BY <1>3, AddedFields
<1>6. previous \in [Fields -> [old : Data \cup {None}, valid : BOOLEAN]]
  <2>1. v.previousValue \in [Fields -> [old : Data \cup {None}, valid : BOOLEAN]]
    BY <1>1 DEF Validator
  <2> SUFFICES ASSUME NEW f \in Fields
               PROVE  previous[f] \in [old : Data \cup {None}, valid : BOOLEAN]
    OBVIOUS
  <2>2. v.previousValue[f] \in [old : Data \cup {None}, valid : BOOLEAN]
    BY <2>1
  <2> QED
    BY <2>2, OptionDataIsData
<1>7. sent \in [Fields -> Request \cup {None}]
  <2>1. v.inflight \in [Fields -> Request \cup {None}]
    BY <1>1 DEF Validator
  <2> QED
    BY <2>1, OptionDataIsData DEF Request
<1>8. targets \in [Fields -> Fields \cup {None}]
  <2>1. v.blurTarget \in [Fields -> Fields \cup {None}]
    BY <1>1 DEF Validator
  <2>2. \A t \in Fields : Binding(val, S, t) \in SUBSET Fields
    BY DEF Binding
  <2> QED
    BY <2>1, <2>2
<1> HIDE DEF asks, bad, good, previous, sent, targets
<1>9. w \in Validator
  <2>1. /\ v.submitted \cup bad \in SUBSET Fields
        /\ v.pending \cup asks \in SUBSET Fields
        /\ v.pendingRequest + Cardinality(asks \ v.pending) \in Nat
    BY <1>1, <1>3, <1>4 DEF Validator
  <2>2. w = [attached |-> v.attached, submitted |-> v.submitted \cup bad,
             invalid |-> v.invalid, errorMap |-> bad, successList |-> good,
             pending |-> v.pending \cup asks,
             pendingRequest |-> v.pendingRequest + Cardinality(asks \ v.pending),
             formSubmitted |-> v.formSubmitted, previousValue |-> previous,
             inflight |-> sent, blurTarget |-> targets,
             container |-> v.container, summary |-> v.summary]
    BY <1>1, <1>2 DEF Validator
  <2>3. /\ v.attached \in BOOLEAN /\ v.formSubmitted \in BOOLEAN
        /\ v.invalid \in [Fields -> {"absent", "true", "false"}]
        /\ v.container \in [Fields -> {"valid", "error"}]
        /\ v.summary \in SUBSET Fields
    BY <1>1 DEF Validator
  <2> HIDE DEF w, record
  <2> QED
    BY <1>3, <1>6, <1>7, <1>8, <2>1, <2>2, <2>3 DEF Validator
<1>10. /\ w.pending = v.pending \cup asks
       /\ w.pendingRequest = v.pendingRequest + Cardinality(asks \ v.pending)
       /\ w.inflight = sent
       /\ w.previousValue = previous
       /\ w.attached = v.attached
  BY <1>1, <1>2 DEF Validator
<1>11. Counted(w)
  <2>1. w.pendingRequest = Cardinality(w.pending)
    BY <1>1, <1>5, <1>10 DEF Counted
  <2>2. ASSUME NEW f \in Fields, w.inflight[f] # None PROVE f \in w.pending
    BY <1>1, <1>10, <2>2 DEF Counted, sent
  <2> QED
    BY <2>1, <2>2 DEF Counted
<1>12. Remembered(w, vd)
  <2> SUFFICES ASSUME NEW f \in Fields, w.previousValue[f].old # None
               PROVE  IF f \in w.pending
                        THEN w.inflight[f] # None =>
                               /\ w.inflight[f].live
                               /\ w.inflight[f].data = w.previousValue[f].old
                        ELSE vd[f] = [data |-> w.previousValue[f].old,
                                      ok |-> w.previousValue[f].valid]
    BY DEF Remembered
  <2>1. CASE f \in asks
    <3>1. w.inflight[f] = [data |-> OptionData(val, f), live |-> TRUE]
      BY <1>10, <2>1 DEF sent
    <3>2. w.previousValue[f].old = OptionData(val, f)
      <4>1. v.previousValue[f] \in [old : Data \cup {None}, valid : BOOLEAN]
        BY <1>1 DEF Validator
      <4> QED
        BY <1>10, <2>1, <4>1 DEF previous
    <3> QED
      BY <1>10, <2>1, <3>1, <3>2
  <2>2. CASE f \notin asks
    <3>1. w.inflight[f] = v.inflight[f] /\ w.previousValue[f] = v.previousValue[f]
      BY <1>10, <2>2 DEF sent, previous
    <3> QED
      BY <1>1, <1>10, <2>2, <3>1 DEF Remembered
  <2> QED
    BY <2>1, <2>2
<1>13. Held(w)
  BY <1>1, <1>10 DEF Held
<1> QED
  BY <1>9, <1>11, <1>12, <1>13 DEF Good

\* Which errors a check leaves behind.
LEMMA CheckedErrors ==
    ASSUME NEW v \in Validator, NEW val, NEW S \in SUBSET Fields
    PROVE  /\ Checked(v, val, S).errorMap = {f \in S : check(v, val, f) = "bad"}
           /\ Checked(v, val, S).pending
                = v.pending \cup {f \in S : check(v, val, f) = "pending"}
           /\ Checked(v, val, S).errorMap \in SUBSET Fields
  BY DEF Checked, Validator

-----------------------------------------------------------------------------
LEMMA ElementGood ==
    ASSUME NEW v, NEW vd, NEW val \in [Fields -> Values], NEW f \in Fields, Good(v, vd)
    PROVE  Good(element(v, val, f), vd)
<1> DEFINE w == Checked(v, val, {f})
           x == [w EXCEPT !.invalid[f] = IF f \in w.errorMap THEN "true" ELSE "false"]
<1>1. Good(w, vd)
  BY CheckedGood
<1>2. w \in Validator
  BY <1>1 DEF Good
<1> HIDE DEF w
<1>3. x \in Validator
  BY <1>2 DEF Validator
<1>4. /\ x.pending = w.pending /\ x.pendingRequest = w.pendingRequest
      /\ x.inflight = w.inflight /\ x.previousValue = w.previousValue
      /\ x.attached = w.attached
  BY <1>2 DEF Validator
<1>5. Good(x, vd)
  BY <1>1, <1>3, <1>4, GoodSame
<1> QED
  BY <1>5, ShowErrorsGood DEF element, w

\* A check of the form keeps Good, and tells of each input whether it is in error
\* or waits for an answer.
LEMMA FormGood ==
    ASSUME NEW v, NEW vd, NEW val \in [Fields -> Values], Good(v, vd)
    PROVE  /\ Good(form(v, val), vd)
           /\ form(v, val).errorMap = {f \in elements : check(v, val, f) = "bad"}
           /\ {f \in elements : check(v, val, f) = "pending"} \subseteq form(v, val).pending
<1> DEFINE w == Checked(v, val, elements)
           x == [w EXCEPT !.invalid = [f \in Fields |->
                   IF f \in w.errorMap THEN "true" ELSE "absent"]]
           y == IF x.errorMap = {} THEN x ELSE onErrors(x)
<1>1. elements \in SUBSET Fields
  BY DEF elements
<1>2. Good(w, vd)
  BY <1>1, CheckedGood
<1>3. w \in Validator
  BY <1>2 DEF Good
<1>4. /\ w.errorMap = {f \in elements : check(v, val, f) = "bad"}
      /\ {f \in elements : check(v, val, f) = "pending"} \subseteq w.pending
  BY <1>1, CheckedErrors DEF Good
<1> HIDE DEF w
<1>5. x \in Validator
  BY <1>3 DEF Validator
<1>6. /\ x.pending = w.pending /\ x.pendingRequest = w.pendingRequest
      /\ x.inflight = w.inflight /\ x.previousValue = w.previousValue
      /\ x.attached = w.attached
      /\ x.errorMap = w.errorMap
  BY <1>3 DEF Validator
<1>7. Good(x, vd)
  BY <1>2, <1>5, <1>6, GoodSame
<1> HIDE DEF x
<1>8. Good(y, vd) /\ y.errorMap = x.errorMap /\ y.pending = x.pending
  <2>1. onErrors(x).pending = x.pending
    BY <1>5 DEF onErrors, Validator
  <2> QED
    BY <1>7, <2>1, OnErrorsGood
<1> HIDE DEF y
<1>9. /\ Good(showErrors(y), vd) /\ showErrors(y).errorMap = y.errorMap
      /\ showErrors(y).pending = y.pending
  <2>1. showErrors(y).pending = y.pending
    BY <1>8 DEF showErrors, onError, onSuccess, Good, Validator
  <2> QED
    BY <1>8, <2>1, ShowErrorsGood
<1>10. form(v, val) = showErrors(y)
  BY DEF form, w, x, y
<1> QED
  BY <1>4, <1>6, <1>8, <1>9, <1>10

\* The rest of form() starts no request and ends none.
LEMMA FormPending ==
    ASSUME NEW v, NEW vd, NEW val \in [Fields -> Values], Good(v, vd)
    PROVE  form(v, val).pending = Checked(v, val, elements).pending
<1> DEFINE w == Checked(v, val, elements)
           x == [w EXCEPT !.invalid = [f \in Fields |->
                   IF f \in w.errorMap THEN "true" ELSE "absent"]]
           y == IF x.errorMap = {} THEN x ELSE onErrors(x)
<1>1. w \in Validator
  <2>1. elements \in SUBSET Fields
    BY DEF elements
  <2> QED
    BY <2>1, CheckedGood DEF Good
<1> HIDE DEF w
<1>2. x \in Validator /\ x.pending = w.pending
  BY <1>1 DEF Validator
<1> HIDE DEF x
<1>3. y \in Validator /\ y.pending = x.pending
  BY <1>2 DEF onErrors, Validator
<1> HIDE DEF y
<1>4. showErrors(y).pending = y.pending
  BY <1>3 DEF showErrors, onError, onSuccess, Validator
<1> QED
  BY <1>2, <1>3, <1>4 DEF form, w, x, y

LEMMA SubmitGood ==
    ASSUME NEW v, NEW vd, Good(v, vd)
    PROVE  Good(submit(v), vd)
<1>1. v \in Validator
  BY DEF Good
<1>2. submit(v) \in Validator
  BY <1>1 DEF submit, valid, Validator
<1>3. /\ submit(v).pending = v.pending /\ submit(v).pendingRequest = v.pendingRequest
      /\ submit(v).inflight = v.inflight /\ submit(v).previousValue = v.previousValue
      /\ submit(v).attached = v.attached
  BY <1>1 DEF submit, Validator
<1> QED
  BY <1>2, <1>3, GoodSame

\* Taking back the wish to submit disturbs nothing else.
LEMMA UnsubmittedGood ==
    ASSUME NEW v, NEW vd, Good(v, vd)
    PROVE  Good([v EXCEPT !.formSubmitted = FALSE], vd)
<1>1. v \in Validator
  BY DEF Good
<1>2. [v EXCEPT !.formSubmitted = FALSE] \in Validator
  BY <1>1 DEF Validator
<1> DEFINE w == [v EXCEPT !.formSubmitted = FALSE]
<1>3. /\ w.pending = v.pending /\ w.pendingRequest = v.pendingRequest
      /\ w.inflight = v.inflight /\ w.previousValue = v.previousValue
      /\ w.attached = v.attached
  BY <1>1 DEF Validator
<1> QED
  BY <1>2, <1>3, GoodSame

\* A form that the submit handler lets go has a server's verdict for the values of
\* every remote input as they are.
LEMMA HandleMeansAnswered ==
    ASSUME NEW v, NEW vd, NEW val \in [Fields -> Values], Good(v, vd),
           handle(form(v, val)), NEW f \in elements,
           RemoteRules(f) # {}, ~ optional(val, f)
    PROVE  vd[f] = [data |-> OptionData(val, f), ok |-> TRUE]
<1>1. f \in Fields
  BY DEF elements
<1>2. v \in Validator /\ form(v, val) \in Validator
  BY FormGood DEF Good
<1>3. form(v, val).pending = {}
  <2>1. IsFiniteSet(form(v, val).pending)
    BY <1>2, PagesAssumption, FS_Subset DEF Validator
  <2>2. Cardinality(form(v, val).pending) = 0
    BY FormGood DEF Good, Counted, handle
  <2> QED
    BY <2>1, <2>2, FS_EmptySet
<1>4. check(v, val, f) \notin {"bad", "pending"}
  BY <1>3, FormGood DEF handle, valid
<1>5. v.previousValue[f].old = OptionData(val, f) /\ v.previousValue[f].valid = TRUE
  <2>1. v.previousValue[f].valid \in BOOLEAN
    BY <1>1, <1>2 DEF Validator
  <2> QED
    BY <1>4, <2>1 DEF check
<1>6. f \notin v.pending
  <2>1. v.pending \subseteq form(v, val).pending
    <3>1. elements \in SUBSET Fields
      BY DEF elements
    <3>2. v.pending \subseteq Checked(v, val, elements).pending
      BY <1>2, <3>1, CheckedErrors
    <3>3. form(v, val).pending = Checked(v, val, elements).pending
      BY FormPending
    <3> QED
      BY <3>2, <3>3
  <2> QED
    BY <1>3, <2>1
<1> QED
  BY <1>1, <1>5, <1>6, OptionDataIsData DEF Good, Remembered

-----------------------------------------------------------------------------
\* What an answer decides.
Decided(vd, v, f, ok) == [vd EXCEPT ![f] = [data |-> v.inflight[f].data, ok |-> ok]]

\* The callback of an answer: one field less waits, and what the field remembers
\* is what the server has said of it; after a reset it remembers nothing.
LEMMA AnsweredGood ==
    ASSUME NEW v, NEW vd \in Verdicts, NEW f \in Fields, NEW ok \in BOOLEAN,
           Good(v, vd), v.inflight[f] # None
    PROVE  Good(Stopped(success(v, f, ok), f), Decided(vd, v, f, ok))
<1> DEFINE w == IF ok
               THEN [v EXCEPT !.errorMap = {}, !.successList = {f}, !.invalid[f] = "false"]
               ELSE [v EXCEPT !.errorMap = @ \cup {f}, !.successList = @ \ {f},
                              !.invalid[f] = "true"]
           x == showErrors(w)
           previous == [v.previousValue EXCEPT
                          ![f].valid = IF v.inflight[f].live THEN ok ELSE @]
           sent == [v.inflight EXCEPT ![f] = None]
           z == Stopped(success(v, f, ok), f)
           vd2 == Decided(vd, v, f, ok)
<1>1. v \in Validator /\ Counted(v) /\ Remembered(v, vd) /\ Held(v)
  BY DEF Good
<1>2. w \in Validator
  BY <1>1 DEF Validator
<1>3. /\ w.pending = v.pending /\ w.pendingRequest = v.pendingRequest
      /\ w.inflight = v.inflight /\ w.previousValue = v.previousValue
      /\ w.attached = v.attached
  BY <1>1 DEF Validator
<1>4. Good(w, vd)
  BY <1>2, <1>3, GoodSame
<1>5. x = [w EXCEPT !.container = [g \in Fields |->
             IF g \in w.successList THEN "valid"
             ELSE IF g \in w.errorMap THEN "error" ELSE w.container[g]]]
  BY <1>2 DEF showErrors, onError, onSuccess, Validator
<1>6. x \in Validator
  BY <1>4, ShowErrorsGood DEF Good
<1> HIDE DEF w
<1>7. /\ x.pending = v.pending /\ x.pendingRequest = v.pendingRequest
      /\ x.inflight = v.inflight /\ x.previousValue = v.previousValue
      /\ x.attached = v.attached
  BY <1>2, <1>3, <1>5 DEF Validator
<1>8. success(v, f, ok)
        = [x EXCEPT !.previousValue[f].valid = IF v.inflight[f].live THEN ok ELSE @,
                    !.inflight[f] = None]
  BY DEF success, w
<1> HIDE DEF x
<1>9. success(v, f, ok) = [x EXCEPT !.previousValue = previous, !.inflight = sent]
  BY <1>6, <1>7, <1>8 DEF Validator
<1>10. f \in v.pending
  BY <1>1 DEF Counted
<1>11. /\ v.pending \in SUBSET Fields /\ IsFiniteSet(v.pending)
       /\ v.pendingRequest \in Nat
  <2>1. v.pending \in SUBSET Fields /\ v.pendingRequest \in Nat
    BY <1>1 DEF Validator
  <2> QED
    BY <2>1, PagesAssumption, FS_Subset
<1>12. /\ Cardinality(v.pending \ {f}) = Cardinality(v.pending) - 1
       /\ Cardinality(v.pending \ {f}) \in Nat
       /\ v.pendingRequest = Cardinality(v.pending)
  <2>1. IsFiniteSet(v.pending \ {f})
    BY <1>11, FS_Subset
  <2> QED
    BY <1>1, <1>10, <1>11, <2>1, FS_RemoveElement, FS_CardinalityType DEF Counted
<1>13. v.pendingRequest # 0 /\ v.pendingRequest - 1 \in Nat
  BY <1>11, <1>12
<1>14. previous \in [Fields -> [old : Data \cup {None}, valid : BOOLEAN]]
  <2>1. v.previousValue \in [Fields -> [old : Data \cup {None}, valid : BOOLEAN]]
    BY <1>1 DEF Validator
  <2> QED
    BY <2>1
<1>15. sent \in [Fields -> Request \cup {None}]
  BY <1>1 DEF Validator
<1>16. \A g \in Fields : /\ previous[g] = IF g = f
                              THEN [old |-> v.previousValue[f].old,
                                    valid |-> IF v.inflight[f].live THEN ok
                                              ELSE v.previousValue[f].valid]
                              ELSE v.previousValue[g]
                         /\ sent[g] = IF g = f THEN None ELSE v.inflight[g]
  <2>1. /\ v.previousValue \in [Fields -> [old : Data \cup {None}, valid : BOOLEAN]]
        /\ v.inflight \in [Fields -> Request \cup {None}]
    BY <1>1 DEF Validator
  <2> QED
    BY <2>1
<1> HIDE DEF previous, sent
<1>17. z = [x EXCEPT !.previousValue = previous, !.inflight = sent,
                     !.pendingRequest = v.pendingRequest - 1, !.pending = v.pending \ {f}]
  BY <1>6, <1>7, <1>9, <1>13 DEF Stopped, Validator
<1> HIDE DEF z
<1>18. /\ z \in Validator
       /\ z.pending = v.pending \ {f} /\ z.pendingRequest = v.pendingRequest - 1
       /\ z.inflight = sent /\ z.previousValue = previous
       /\ z.attached = v.attached
  BY <1>6, <1>7, <1>11, <1>13, <1>14, <1>15, <1>17 DEF Validator
<1>19. Counted(z)
  <2>1. z.pendingRequest = Cardinality(z.pending)
    BY <1>12, <1>18
  <2>2. ASSUME NEW g \in Fields, z.inflight[g] # None PROVE g \in z.pending
    BY <1>1, <1>16, <1>18, <2>2 DEF Counted
  <2> QED
    BY <2>1, <2>2 DEF Counted
<1>20. Remembered(z, vd2)
  <2> SUFFICES ASSUME NEW g \in Fields, z.previousValue[g].old # None
               PROVE  IF g \in z.pending
                        THEN z.inflight[g] # None =>
                               /\ z.inflight[g].live
                               /\ z.inflight[g].data = z.previousValue[g].old
                        ELSE vd2[g] = [data |-> z.previousValue[g].old,
                                       ok |-> z.previousValue[g].valid]
    BY DEF Remembered
  <2>1. CASE g = f
    <3>1. vd2[f] = [data |-> v.inflight[f].data, ok |-> ok]
      BY DEF Decided, Verdicts
    <3>2. v.previousValue[f].old # None
      BY <1>16, <1>18, <2>1
    <3>3. v.inflight[f].live /\ v.inflight[f].data = v.previousValue[f].old
      BY <1>1, <1>10, <3>2 DEF Remembered
    <3>4. z.previousValue[f].old = v.previousValue[f].old /\ z.previousValue[f].valid = ok
      BY <1>16, <1>18, <3>3
    <3>5. f \notin z.pending
      BY <1>18
    <3> QED
      BY <2>1, <3>1, <3>3, <3>4, <3>5
  <2>2. CASE g # f
    <3>1. z.previousValue[g] = v.previousValue[g] /\ z.inflight[g] = v.inflight[g]
      BY <1>16, <1>18, <2>2
    <3>2. vd2[g] = vd[g] /\ (g \in z.pending <=> g \in v.pending)
      BY <1>18, <2>2 DEF Decided, Verdicts
    <3> QED
      BY <1>1, <3>1, <3>2 DEF Remembered
  <2> QED
    BY <2>1, <2>2
<1>21. Held(z)
  BY <1>1, <1>18 DEF Held
<1> QED
  BY <1>18, <1>19, <1>20, <1>21 DEF Good, z, vd2

\* What comes after the last answer keeps Good, and the form goes only if each of
\* its remote inputs has the server's consent to what it holds.
LEMMA StopGood ==
    ASSUME NEW v, NEW vd, NEW val \in [Fields -> Values], NEW ok \in BOOLEAN, Good(v, vd)
    PROVE  /\ Good(stopRequest(v, val, ok)[1], vd)
           /\ stopRequest(v, val, ok)[2] \in BOOLEAN
           /\ stopRequest(v, val, ok)[2] =>
                \A f \in elements : RemoteRules(f) # {} /\ ~ optional(val, f) =>
                    vd[f] = [data |-> OptionData(val, f), ok |-> TRUE]
<1> DEFINE x == form(v, val)
           again == form(x, val)
<1>1. Good(x, vd)
  BY FormGood
<1>2. Good(again, vd)
  BY <1>1, FormGood
<1>3. Good([onErrors(v) EXCEPT !.formSubmitted = FALSE], vd)
  BY OnErrorsGood, UnsubmittedGood
<1>4. Good([submit(again) EXCEPT !.formSubmitted = FALSE], vd)
  BY <1>2, SubmitGood, UnsubmittedGood
<1>5. handle(again) \in BOOLEAN
  BY DEF handle, valid
<1>6. handle(again) =>
        \A f \in elements : RemoteRules(f) # {} /\ ~ optional(val, f) =>
            vd[f] = [data |-> OptionData(val, f), ok |-> TRUE]
  BY <1>1, HandleMeansAnswered
<1> HIDE DEF x, again
<1>7. \/ stopRequest(v, val, ok) = <<v, FALSE>>
      \/ stopRequest(v, val, ok) = <<[onErrors(v) EXCEPT !.formSubmitted = FALSE], FALSE>>
      \/ stopRequest(v, val, ok) = <<x, FALSE>>
      \/ stopRequest(v, val, ok)
           = <<[submit(again) EXCEPT !.formSubmitted = FALSE], handle(again)>>
  BY DEF stopRequest, x, again
<1>8. CASE stopRequest(v, val, ok)[2] = FALSE /\ Good(stopRequest(v, val, ok)[1], vd)
  BY <1>8, Zenon
<1>9. CASE stopRequest(v, val, ok)
             = <<[submit(again) EXCEPT !.formSubmitted = FALSE], handle(again)>>
  <2>1. stopRequest(v, val, ok)[1] = [submit(again) EXCEPT !.formSubmitted = FALSE]
    BY <1>9
  <2>2. stopRequest(v, val, ok)[2] = handle(again)
    BY <1>9
  <2> QED
    BY <1>4, <1>5, <1>6, <2>1, <2>2, Zenon
<1>10. CASE stopRequest(v, val, ok) = <<v, FALSE>>
  <2>1. stopRequest(v, val, ok)[1] = v /\ stopRequest(v, val, ok)[2] = FALSE
    BY <1>10
  <2> QED
    BY <1>8, <2>1, Zenon
<1>11. CASE stopRequest(v, val, ok) = <<[onErrors(v) EXCEPT !.formSubmitted = FALSE], FALSE>>
  <2>1. /\ stopRequest(v, val, ok)[1] = [onErrors(v) EXCEPT !.formSubmitted = FALSE]
        /\ stopRequest(v, val, ok)[2] = FALSE
    BY <1>11
  <2> QED
    BY <1>3, <1>8, <2>1, Zenon
<1>12. CASE stopRequest(v, val, ok) = <<x, FALSE>>
  <2>1. stopRequest(v, val, ok)[1] = x /\ stopRequest(v, val, ok)[2] = FALSE
    BY <1>12
  <2> QED
    BY <1>1, <1>8, <2>1, Zenon
<1> QED
  BY <1>7, <1>9, <1>10, <1>11, <1>12, Zenon

\* A reset leaves requests counted, but what they bring will not be remembered.
LEMMA ResetGood ==
    ASSUME NEW v, NEW vd, Good(v, vd)
    PROVE  Good(onReset(v), vd)
<1> DEFINE previous == [f \in Fields |->
             IF f \in elements THEN [old |-> None, valid |-> TRUE] ELSE v.previousValue[f]]
           sent == [f \in Fields |->
             IF f \in elements /\ v.inflight[f] # None
               THEN [v.inflight[f] EXCEPT !.live = FALSE] ELSE v.inflight[f]]
           blank == [f \in Fields |-> "absent"]
           shown == [f \in Fields |-> "valid"]
           z == onReset(v)
<1>1. v \in Validator /\ Counted(v) /\ Remembered(v, vd) /\ Held(v)
  BY DEF Good
<1>2. previous \in [Fields -> [old : Data \cup {None}, valid : BOOLEAN]]
  BY <1>1 DEF Validator
<1>3. sent \in [Fields -> Request \cup {None}]
  <2> SUFFICES ASSUME NEW f \in Fields PROVE sent[f] \in Request \cup {None}
    OBVIOUS
  <2>1. v.inflight[f] \in Request \cup {None}
    BY <1>1 DEF Validator
  <2> QED
    BY <2>1 DEF Request
<1>4. z = [v EXCEPT !.invalid = blank, !.submitted = {}, !.errorMap = {},
             !.successList = {}, !.summary = {}, !.container = shown,
             !.previousValue = previous, !.inflight = sent]
  BY <1>1 DEF onReset, Validator
<1>5. blank \in [Fields -> {"absent", "true", "false"}] /\ shown \in [Fields -> {"valid", "error"}]
  OBVIOUS
<1>6. \A f \in Fields : /\ previous[f] = IF f \in elements THEN [old |-> None, valid |-> TRUE]
                                         ELSE v.previousValue[f]
                        /\ f \notin elements => sent[f] = v.inflight[f]
                        /\ v.inflight[f] = None => sent[f] = None
  OBVIOUS
<1> HIDE DEF previous, sent, blank, shown
<1>7. /\ z \in Validator
      /\ z.pending = v.pending /\ z.pendingRequest = v.pendingRequest
      /\ z.inflight = sent /\ z.previousValue = previous
      /\ z.attached = v.attached
  BY <1>1, <1>2, <1>3, <1>4, <1>5 DEF Validator
<1> HIDE DEF z
<1>8. Counted(z)
  BY <1>1, <1>6, <1>7 DEF Counted
<1>9. Remembered(z, vd)
  BY <1>1, <1>6, <1>7 DEF Remembered
<1>10. Held(z)
  BY <1>1, <1>7 DEF Held
<1> QED
  BY <1>7, <1>8, <1>9, <1>10 DEF Good, z

\* The handlers of an input's events check at most some fields.
LEMMA EventsGood ==
    ASSUME NEW v, NEW vd, NEW val \in [Fields -> Values], NEW f \in Fields, Good(v, vd)
    PROVE  /\ Good(onkeyup(v, val, f), vd)
           /\ Good(onclick(v, val, f), vd)
           /\ Good(onfocusout(v, val, f), vd)
<1>1. Good(element(v, val, f), vd)
  BY ElementGood
<1> DEFINE w == IF v.blurTarget[f] = None THEN v ELSE element(v, val, v.blurTarget[f])
<1>2. Good(w, vd)
  <2>1. v.blurTarget[f] \in Fields \cup {None}
    BY DEF Good, Validator
  <2> QED
    BY <2>1, ElementGood
<1> HIDE DEF w
<1>3. Good(element(w, val, f), vd)
  BY <1>2, ElementGood
<1> QED
  BY <1>1, <1>2, <1>3 DEF onkeyup, onclick, onfocusout, w

\* A failed request leaves its field waiting.
LEMMA FailedGood ==
    ASSUME NEW v, NEW vd, NEW f \in Fields, Good(v, vd)
    PROVE  Good([v EXCEPT !.inflight[f] = None], vd)
<1> DEFINE z == [v EXCEPT !.inflight[f] = None]
<1>1. v \in Validator /\ Counted(v) /\ Remembered(v, vd) /\ Held(v)
  BY DEF Good
<1>2. z \in Validator
  BY <1>1 DEF Validator
<1>3. /\ z.pending = v.pending /\ z.pendingRequest = v.pendingRequest
      /\ z.previousValue = v.previousValue /\ z.attached = v.attached
      /\ \A g \in Fields : z.inflight[g] = IF g = f THEN None ELSE v.inflight[g]
  BY <1>1 DEF Validator
<1> HIDE DEF z
<1>4. Counted(z) /\ Remembered(z, vd) /\ Held(z)
  BY <1>1, <1>3 DEF Counted, Remembered, Held
<1> QED
  BY <1>2, <1>4 DEF Good, z

-----------------------------------------------------------------------------
\* A page that has just loaded waits for nothing and remembers nothing; without
\* inputs there is no validator, and no input has rules.
LEMMA FreshGood ==
    ASSUME NEW p \in Pages, NEW vd
    PROVE  /\ Fresh(p.loaded) \in Validator
           /\ Counted(Fresh(p.loaded)) /\ Remembered(Fresh(p.loaded), vd)
           /\ \/ Fresh(p.loaded).attached
              \/ \A f \in Fields : Parsed(p, p.loaded)[f] = <<>>
<1> DEFINE z == Fresh(p.loaded)
<1>1. z \in Validator
  BY DEF Fresh, Validator
<1>2. Counted(z)
  BY FS_EmptySet DEF Counted, Fresh
<1>3. Remembered(z, vd)
  BY DEF Remembered, Fresh
<1>4. z.attached \/ \A f \in Fields : Parsed(p, p.loaded)[f] = <<>>
  <2>1. CASE p.loaded = {}
    BY <2>1 DEF Parsed
  <2>2. CASE p.loaded # {}
    BY <2>2 DEF Fresh
  <2> QED
    BY <2>1, <2>2
<1> QED
  BY <1>1, <1>2, <1>3, <1>4

\* The inductive invariant.  That the form has gone out rightly does not follow from
\* the state of the validator once it has, so it is a part of it.
Inv ==
    /\ TypeOK
    /\ Good(validator, verdict)
    /\ AcceptedAsAnswered

\* Good is about the rules in force.
LEMMA GoodKept ==
    ASSUME Good(validator', verdict'), settings' = settings
    PROVE  Good(validator, verdict)'
  BY DEF Good, Held, elements, Counted, Remembered

LEMMA NothingPosted ==
    ASSUME posted' = FALSE
    PROVE  AcceptedAsAnswered'
  BY DEF AcceptedAsAnswered

\* The form has been sent in this step: what has to hold of it, in terms of the state
\* before it.
LEMMA PostedAnswered ==
    ASSUME settings' = settings, value' = value,
           \A f \in elements : RemoteRules(f) # {} /\ ~ optional(value, f) =>
               verdict'[f] = [data |-> OptionData(value, f), ok |-> TRUE]
    PROVE  AcceptedAsAnswered'
<1>1. elements' = elements
  BY DEF elements
<1>2. \A f \in Fields : RemoteRules(f)' = RemoteRules(f)
  BY DEF RemoteRules
<1>3. \A f \in Fields : OptionData(value, f)' = OptionData(value, f)
  BY <1>2 DEF OptionData
<1>4. \A f \in Fields : optional(value, f)' = optional(value, f)
  BY DEF optional
<1>5. \A f \in elements : f \in Fields
  BY DEF elements
<1> QED
  BY <1>1, <1>2, <1>3, <1>4, <1>5 DEF AcceptedAsAnswered

LEMMA InitInv == Init => Inv
<1> SUFFICES ASSUME Init PROVE Inv
  OBVIOUS
<1>1. Good(validator, verdict)
  BY FreshGood DEF Init, Good, Held, elements
<1>2. TypeOK
  <2>1. validator \in Validator
    BY <1>1 DEF Good
  <2>2. DOMAIN options = Fields /\ DOMAIN settings = Fields
    BY DEF Init, Parsed
  <2>3. page \in Pages /\ present \subseteq Fields /\ value \in [Fields -> Values]
    <3>1. page.initial \in [Fields -> Values] /\ page.loaded \subseteq Fields
      BY PagesAssumption DEF Init
    <3> QED
      BY <3>1 DEF Init
  <2>4. verdict \in [Fields -> [data : Data, ok : BOOLEAN] \cup {None}]
    BY DEF Init
  <2>5. edits \in 0 .. MaxEdits /\ lost \in 0 .. MaxLost
    BY BoundsAssumption DEF Init
  <2> QED
    BY <2>1, <2>2, <2>3, <2>4, <2>5 DEF Init, TypeOK
<1>3. AcceptedAsAnswered
  BY DEF Init, AcceptedAsAnswered
<1> QED
  BY <1>1, <1>2, <1>3 DEF Inv

LEMMA LoadInv == Inv /\ Load => Inv'
<1> SUFFICES ASSUME Inv, Load PROVE Inv'
  OBVIOUS
<1>1. Good(validator, verdict)'
  BY FreshGood DEF Load, Good, Held, elements, Counted, Remembered
<1>2. TypeOK'
  <2>1. validator' \in Validator
    BY <1>1 DEF Good
  <2>2. DOMAIN options' = Fields /\ DOMAIN settings' = Fields
    BY DEF Load, Parsed
  <2>3. page' \in Pages /\ present' \subseteq Fields /\ value' \in [Fields -> Values]
    <3>1. page'.initial \in [Fields -> Values] /\ page'.loaded \subseteq Fields
      BY PagesAssumption DEF Load
    <3> QED
      BY <3>1 DEF Load
  <2>4. verdict' \in [Fields -> [data : Data, ok : BOOLEAN] \cup {None}]
    BY DEF Load
  <2>5. edits' \in 0 .. MaxEdits /\ lost' \in 0 .. MaxLost
    BY BoundsAssumption DEF Load
  <2> QED
    BY <2>1, <2>2, <2>3, <2>4, <2>5 DEF Load, TypeOK
<1>3. AcceptedAsAnswered'
  BY NothingPosted DEF Load
<1> QED
  BY <1>1, <1>2, <1>3 DEF Inv

LEMMA InsertInv == Inv /\ Insert => Inv'
<1> SUFFICES ASSUME Inv, Insert PROVE Inv'
  OBVIOUS
<1> DEFINE z == [validator EXCEPT !.attached = TRUE]
<1>1. validator \in Validator /\ Counted(validator) /\ Remembered(validator, verdict)
  BY DEF Inv, Good
<1>2. validator' = z /\ verdict' = verdict
  BY DEF Insert
<1>3. z \in Validator
  BY <1>1 DEF Validator
<1>4. /\ z.pending = validator.pending /\ z.pendingRequest = validator.pendingRequest
      /\ z.inflight = validator.inflight /\ z.previousValue = validator.previousValue
      /\ z.attached = TRUE
  BY <1>1 DEF Validator
<1> HIDE DEF z
<1>5. Good(validator, verdict)'
  BY <1>1, <1>2, <1>3, <1>4 DEF Good, Counted, Remembered, Held
<1>6. TypeOK'
  <2>1. present' \subseteq Fields
    BY PagesAssumption DEF Inv, TypeOK, Insert
  <2>2. DOMAIN options' = Fields /\ DOMAIN settings' = Fields
    BY DEF Inv, TypeOK, Insert, attachValidation
  <2> QED
    BY <1>2, <1>3, <2>1, <2>2 DEF Inv, TypeOK, Insert
<1>7. AcceptedAsAnswered'
  BY NothingPosted DEF Insert, Inv, TypeOK
<1> QED
  BY <1>5, <1>6, <1>7 DEF Inv

\* The other actions leave the page and the rules in force alone, and most of them
\* do not send the form.
LEMMA HandlerInv ==
    ASSUME Inv, Good(validator', verdict'), ~ posted, posted' \in BOOLEAN,
           UNCHANGED <<page, present, options, settings>>,
           value' \in [Fields -> Values], verdict' \in Verdicts, undisturbed' \in BOOLEAN,
           edits' \in 0 .. MaxEdits, lost' \in 0 .. MaxLost,
           posted' = TRUE => AcceptedAsAnswered'
    PROVE  Inv'
<1>1. TypeOK'
  BY DEF Inv, TypeOK, Verdicts, Good
<1>2. AcceptedAsAnswered'
  BY NothingPosted
<1>3. Good(validator, verdict)'
  BY GoodKept
<1> QED
  BY <1>1, <1>2, <1>3 DEF Inv

LEMMA EditTypes ==
    ASSUME Inv, NEW f \in Fields, NEW x \in Values, Edit(f, x)
    PROVE  /\ value' \in [Fields -> Values] /\ undisturbed' = FALSE
           /\ edits' \in 0 .. MaxEdits /\ lost' \in 0 .. MaxLost
           /\ verdict' = verdict /\ verdict' \in Verdicts
           /\ posted = FALSE /\ posted' = FALSE
           /\ UNCHANGED <<page, present, options, settings>>
  BY BoundsAssumption DEF Inv, TypeOK, Edit, Verdicts

LEMMA TypeInv ==
    ASSUME Inv, NEW f \in Fields, NEW x \in Values, Type(f, x) PROVE Inv'
<1>1. Edit(f, x)
  BY DEF Type
<1>2. Good(validator', verdict)
  <2>1. Good(validator, verdict) /\ value' \in [Fields -> Values]
    BY <1>1, EditTypes DEF Inv
  <2>2. /\ Good(onkeyup(validator, value', f), verdict)
        /\ Good(onclick(validator, value', f), verdict)
    BY <2>1, EventsGood
  <2> QED
    BY <2>1, <2>2 DEF Type
<1> QED
  BY <1>1, <1>2, EditTypes, HandlerInv

LEMMA FillInv ==
    ASSUME Inv, NEW f \in Fields, NEW x \in Values, Fill(f, x) PROVE Inv'
<1>1. Edit(f, x) /\ validator' = validator
  BY DEF Fill
<1>2. Good(validator', verdict)
  BY <1>1 DEF Inv
<1> QED
  BY <1>1, <1>2, EditTypes, HandlerInv

\* Handlers that neither change a value nor send the form.
LEMMA QuietInv ==
    ASSUME Inv, Good(validator', verdict), ~ posted, lost' \in 0 .. MaxLost,
           UNCHANGED <<page, present, value, options, settings, posted, verdict,
                       undisturbed, edits>>
    PROVE  Inv'
<1>1. /\ value' \in [Fields -> Values] /\ verdict' \in Verdicts
      /\ undisturbed' \in BOOLEAN /\ edits' \in 0 .. MaxEdits
      /\ posted = FALSE /\ posted' = FALSE
  BY DEF Inv, TypeOK, Verdicts
<1> QED
  BY <1>1, HandlerInv

LEMMA KeyInv == ASSUME Inv, NEW f \in Fields, Key(f) PROVE Inv'
<1>1. Good(validator', verdict)
  BY EventsGood DEF Inv, TypeOK, Key
<1> QED
  BY <1>1, QuietInv DEF Key, Inv, TypeOK

LEMMA LeaveInv == ASSUME Inv, NEW f \in Fields, Leave(f) PROVE Inv'
<1>1. Good(validator', verdict)
  BY EventsGood DEF Inv, TypeOK, Leave
<1> QED
  BY <1>1, QuietInv DEF Leave, Inv, TypeOK

LEMMA ValidateInv == ASSUME Inv, Validate PROVE Inv'
<1>1. Good(validator', verdict)
  BY FormGood DEF Inv, TypeOK, Validate
<1> QED
  BY <1>1, QuietInv DEF Validate, Inv, TypeOK

LEMMA FailInv == ASSUME Inv, NEW f \in Fields, Fail(f) PROVE Inv'
<1>1. Good(validator', verdict)
  BY FailedGood DEF Inv, Fail
<1>2. lost' \in 0 .. MaxLost
  BY BoundsAssumption DEF Inv, TypeOK, Fail
<1> QED
  BY <1>1, <1>2, QuietInv DEF Fail, Inv, TypeOK

LEMMA ResetInv == ASSUME Inv, Reset PROVE Inv'
<1>1. Good(validator', verdict')
  BY ResetGood DEF Inv, Reset
<1>2. value' \in [Fields -> Values]
  <2>1. page.initial \in [Fields -> Values]
    BY PagesAssumption DEF Inv, TypeOK
  <2> QED
    BY <2>1 DEF Reset
<1>3. /\ verdict' \in Verdicts /\ undisturbed' \in BOOLEAN
      /\ edits' \in 0 .. MaxEdits /\ lost' \in 0 .. MaxLost
      /\ posted = FALSE /\ posted' = FALSE
      /\ UNCHANGED <<page, present, options, settings>>
  BY DEF Inv, TypeOK, Reset, Verdicts
<1> QED
  BY <1>1, <1>2, <1>3, HandlerInv

\* A click on submit sends the form only with the server's consent.
LEMMA SubmitInv == ASSUME Inv, Submit PROVE Inv'
<1> DEFINE w == form(validator, value)
<1>1. value \in [Fields -> Values] /\ Good(validator, verdict)
  BY DEF Inv, TypeOK
<1>2. Good(w, verdict)
  BY <1>1, FormGood
<1>3. Good(submit(w), verdict)
  BY <1>2, SubmitGood
<1>4. Good(validator', verdict')
  BY <1>1, <1>3 DEF Submit
<1>5. posted' \in BOOLEAN
  BY DEF Submit, handle, valid
<1>6. ASSUME posted' = TRUE PROVE AcceptedAsAnswered'
  <2> SUFFICES ASSUME NEW f \in elements, RemoteRules(f) # {}, ~ optional(value, f)
               PROVE  verdict'[f] = [data |-> OptionData(value, f), ok |-> TRUE]
    BY PostedAnswered DEF Submit
  <2>1. validator.attached
    BY <1>1 DEF Good, Held
  <2>2. handle(w)
    BY <1>6, <2>1 DEF Submit
  <2>3. verdict[f] = [data |-> OptionData(value, f), ok |-> TRUE]
    BY <1>1, <2>2, HandleMeansAnswered
  <2> QED
    BY <2>3 DEF Submit
<1>7. /\ value' \in [Fields -> Values] /\ verdict' \in Verdicts
      /\ undisturbed' \in BOOLEAN /\ edits' \in 0 .. MaxEdits
      /\ lost' \in 0 .. MaxLost /\ ~ posted
      /\ UNCHANGED <<page, present, options, settings>>
  BY DEF Inv, TypeOK, Submit, Verdicts
<1> QED
  BY <1>4, <1>5, <1>6, <1>7, HandlerInv

\* So does the last answer.
LEMMA AnswerInv ==
    ASSUME Inv, NEW f \in Fields, NEW ok \in BOOLEAN, Answer(f, ok) PROVE Inv'
<1> DEFINE w == Stopped(success(validator, f, ok), f)
           done == stopRequest(w, value, ok)
<1>1. /\ value \in [Fields -> Values] /\ verdict \in Verdicts
      /\ Good(validator, verdict) /\ validator.inflight[f] # None
  BY DEF Inv, TypeOK, Answer, Verdicts
<1>2. verdict' = Decided(verdict, validator, f, ok)
  BY DEF Answer, Decided
<1>3. Good(w, verdict')
  BY <1>1, <1>2, AnsweredGood
<1>4. /\ Good(done[1], verdict') /\ done[2] \in BOOLEAN
      /\ done[2] => \A g \in elements : RemoteRules(g) # {} /\ ~ optional(value, g) =>
                       verdict'[g] = [data |-> OptionData(value, g), ok |-> TRUE]
  BY <1>1, <1>3, StopGood
<1>5. validator' = done[1] /\ posted' = done[2]
  BY DEF Answer
<1> HIDE DEF w, done
<1>6. ASSUME posted' = TRUE PROVE AcceptedAsAnswered'
  <2>1. \A g \in elements : RemoteRules(g) # {} /\ ~ optional(value, g) =>
            verdict'[g] = [data |-> OptionData(value, g), ok |-> TRUE]
    BY <1>4, <1>5, <1>6
  <2> QED
    BY <2>1, PostedAnswered DEF Answer
<1>7. verdict' \in Verdicts
  <2>1. validator.inflight[f] \in Request
    BY <1>1 DEF Good, Validator
  <2>2. validator.inflight[f].data \in Data
    BY <2>1 DEF Request
  <2> QED
    BY <1>1, <1>2, <2>2 DEF Verdicts, Decided
<1>8. /\ value' \in [Fields -> Values] /\ undisturbed' \in BOOLEAN
      /\ edits' \in 0 .. MaxEdits /\ lost' \in 0 .. MaxLost /\ ~ posted
      /\ UNCHANGED <<page, present, options, settings>>
  BY DEF Inv, TypeOK, Answer
<1> QED
  BY <1>4, <1>5, <1>6, <1>7, <1>8, HandlerInv

LEMMA NextInv == Inv /\ [Next]_vars => Inv'
<1> SUFFICES ASSUME Inv, [Next]_vars PROVE Inv'
  OBVIOUS
<1>1. CASE Load
  BY <1>1, LoadInv
<1>2. CASE Insert
  BY <1>2, InsertInv
<1>3. CASE Submit
  BY <1>3, SubmitInv
<1>4. CASE Validate
  BY <1>4, ValidateInv
<1>5. CASE Reset
  BY <1>5, ResetInv
<1>6. ASSUME NEW f \in Fields, Leave(f) \/ Key(f) \/ Fail(f) PROVE Inv'
  BY <1>6, LeaveInv, KeyInv, FailInv
<1>7. ASSUME NEW f \in Fields, NEW x \in Values, Type(f, x) \/ Fill(f, x) PROVE Inv'
  BY <1>7, TypeInv, FillInv
<1>8. ASSUME NEW f \in Fields, NEW ok \in BOOLEAN, Answer(f, ok) PROVE Inv'
  BY <1>8, AnswerInv
<1>9. CASE UNCHANGED vars
  <2>1. Good(validator, verdict)' /\ TypeOK'
    BY <1>9, GoodKept DEF vars, Inv, TypeOK
  <2>2. AcceptedAsAnswered'
    <3>1. CASE posted
      BY <1>9, <3>1, PostedAnswered DEF vars, Inv, AcceptedAsAnswered
    <3>2. CASE ~ posted
      BY <1>9, <3>2, NothingPosted DEF vars, Inv, TypeOK
    <3> QED
      BY <3>1, <3>2
  <2> QED
    BY <2>1, <2>2 DEF Inv
<1> QED
  BY <1>1, <1>2, <1>3, <1>4, <1>5, <1>6, <1>7, <1>8, <1>9 DEF Next

THEOREM Invariance == Spec => []Inv
  BY InitInv, NextInv, PTL DEF Spec

-----------------------------------------------------------------------------
\* The state of a form is what the validator's code takes it to be.
THEOREM FormTypes == Spec => []TypeOK
<1>1. Inv => TypeOK
  BY DEF Inv
<1> QED
  BY <1>1, Invariance, PTL

\* A form goes out only with the server's consent to what its remote inputs hold.
THEOREM AcceptedOnlyAsAnswered == Spec => []AcceptedAsAnswered
<1>1. Inv => AcceptedAsAnswered
  BY DEF Inv
<1> QED
  BY <1>1, Invariance, PTL

-----------------------------------------------------------------------------
(* What is shown *)

\* An input in force that no answer is awaited for shows an error if it is down as
\* invalid, and what the last check listed is shown.  Before there is a validator
\* nothing is shown.
Shown(v) ==
    /\ \A f \in elements \ v.pending : v.container[f] = "error" <=> v.invalid[f] = "true"
    /\ \A f \in v.errorMap : v.container[f] = "error" /\ v.invalid[f] = "true"
    /\ \A f \in v.successList : v.container[f] = "valid" /\ v.invalid[f] # "true"
    /\ ~ v.attached => /\ v.pending = {}
                       /\ \A f \in Fields : v.container[f] = "valid" /\ v.invalid[f] = "absent"

\* A verdict that is kept against a field is the server's; a request that a reset
\* has cut off leaves none.
Refused(v, vd) ==
    \A f \in Fields :
        /\ ~ v.previousValue[f].valid => vd[f] # None /\ ~ vd[f].ok
        /\ v.inflight[f] # None /\ ~ v.inflight[f].live => v.previousValue[f].valid

\* Errors that appear between v and w are errors of the values, or the server's.
Caused(v, w, val, vd) ==
    \A f \in Fields : w.container[f] = "error" /\ v.container[f] = "valid" =>
        ~ Declared(page.dataVal[f], val, f) \/ (vd[f] # None /\ ~ vd[f].ok)

\* Every field that waits has a request under way.
Awaited(v) == \A f \in v.pending : v.inflight[f] # None

\* What a handler may make of v, while no request fails.
Follows(v, w, val, vd) == Caused(v, w, val, vd) /\ (Awaited(v) => Awaited(w))

\* What a check of the fields in S makes of v.
Rechecked(v, w, val, S) ==
    /\ w.attached = v.attached
    /\ w.errorMap = {f \in S : check(v, val, f) = "bad"}
    /\ w.successList = {f \in S : check(v, val, f) = "good"}
    /\ w.pending = v.pending \cup {f \in S : check(v, val, f) = "pending"}
    /\ \A f \in Fields :
          /\ w.container[f] = IF f \in w.successList THEN "valid"
                              ELSE IF f \in w.errorMap THEN "error" ELSE v.container[f]
          /\ f \in w.errorMap => w.invalid[f] = "true"
          /\ f \in S \ w.errorMap => w.invalid[f] # "true"
          /\ f \in elements \ S => w.invalid[f] = v.invalid[f]
          /\ w.previousValue[f].valid = v.previousValue[f].valid
          /\ IF f \in S /\ check(v, val, f) = "pending"
               THEN w.inflight[f] # None /\ w.inflight[f].live
               ELSE w.inflight[f] = v.inflight[f]

\* What the check itself writes.
LEMMA CheckedFields ==
    ASSUME NEW v \in Validator, NEW val \in [Fields -> Values], NEW S \in SUBSET Fields
    PROVE  LET w == Checked(v, val, S) IN
           /\ w.attached = v.attached
           /\ w.errorMap = {f \in S : check(v, val, f) = "bad"}
           /\ w.successList = {f \in S : check(v, val, f) = "good"}
           /\ w.pending = v.pending \cup {f \in S : check(v, val, f) = "pending"}
           /\ w.container = v.container /\ w.invalid = v.invalid
           /\ \A f \in Fields :
                 /\ w.previousValue[f].valid = v.previousValue[f].valid
                 /\ IF f \in S /\ check(v, val, f) = "pending"
                      THEN w.inflight[f] # None /\ w.inflight[f].live
                      ELSE w.inflight[f] = v.inflight[f]
<1> DEFINE asks == {f \in S : check(v, val, f) = "pending"}
           w == Checked(v, val, S)
<1>1. /\ w.attached = v.attached
      /\ w.errorMap = {f \in S : check(v, val, f) = "bad"}
      /\ w.successList = {f \in S : check(v, val, f) = "good"}
      /\ w.pending = v.pending \cup asks
      /\ w.container = v.container /\ w.invalid = v.invalid
  BY DEF Checked, Validator
<1>2. ASSUME NEW f \in Fields
      PROVE  w.previousValue[f].valid = v.previousValue[f].valid
  <2>1. w.previousValue[f] = IF f \in asks
                               THEN [v.previousValue[f] EXCEPT !.old = OptionData(val, f)]
                               ELSE v.previousValue[f]
    BY DEF Checked, Validator
  <2>2. v.previousValue[f] \in [old : Data \cup {None}, valid : BOOLEAN]
    BY DEF Validator
  <2> QED
    BY <2>1, <2>2
<1>3. ASSUME NEW f \in Fields
      PROVE  IF f \in S /\ check(v, val, f) = "pending"
               THEN w.inflight[f] # None /\ w.inflight[f].live
               ELSE w.inflight[f] = v.inflight[f]
  <2> DEFINE request == [data |-> OptionData(val, f), live |-> TRUE]
  <2>1. w.inflight[f] = IF f \in asks THEN request ELSE v.inflight[f]
    BY DEF Checked, Validator
  <2>2. request # None /\ request.live
    <3>1. request \in Request
      BY OptionDataIsData DEF Request
    <3> QED
      BY <3>1, NoneAssumption
  <2> HIDE DEF request
  <2> QED
    BY <2>1, <2>2
<1> QED
  BY <1>1, <1>2, <1>3

\* Showing the errors of a check touches the containers of what it listed.
LEMMA ShowErrorsFields ==
    ASSUME NEW v \in Validator
    PROVE  /\ showErrors(v).attached = v.attached
           /\ showErrors(v).errorMap = v.errorMap /\ showErrors(v).successList = v.successList
           /\ showErrors(v).pending = v.pending /\ showErrors(v).invalid = v.invalid
           /\ showErrors(v).previousValue = v.previousValue
           /\ showErrors(v).inflight = v.inflight
           /\ \A f \in Fields :
                 showErrors(v).container[f] = IF f \in v.successList THEN "valid"
                    ELSE IF f \in v.errorMap THEN "error" ELSE v.container[f]
  BY DEF showErrors, onError, onSuccess, Validator

\* element checks one field and form all that have rules.
LEMMA ElementRechecks ==
    ASSUME NEW v, NEW vd, NEW val \in [Fields -> Values], NEW f \in Fields, Good(v, vd)
    PROVE  Rechecked(v, element(v, val, f), val, {f})
<1> DEFINE w == Checked(v, val, {f})
           x == [w EXCEPT !.invalid[f] = IF f \in w.errorMap THEN "true" ELSE "false"]
           y == showErrors(x)
<1>1. v \in Validator /\ w \in Validator
  BY CheckedGood DEF Good
<1>2. /\ w.attached = v.attached
      /\ w.errorMap = {g \in {f} : check(v, val, g) = "bad"}
      /\ w.successList = {g \in {f} : check(v, val, g) = "good"}
      /\ w.pending = v.pending \cup {g \in {f} : check(v, val, g) = "pending"}
      /\ w.container = v.container /\ w.invalid = v.invalid
      /\ \A g \in Fields :
            /\ w.previousValue[g].valid = v.previousValue[g].valid
            /\ IF g \in {f} /\ check(v, val, g) = "pending"
                 THEN w.inflight[g] # None /\ w.inflight[g].live
                 ELSE w.inflight[g] = v.inflight[g]
  BY <1>1, CheckedFields
<1> HIDE DEF w
<1>3. x \in Validator
  BY <1>1 DEF Validator
<1>4. /\ x.attached = w.attached /\ x.errorMap = w.errorMap
      /\ x.successList = w.successList /\ x.pending = w.pending
      /\ x.container = w.container /\ x.previousValue = w.previousValue
      /\ x.inflight = w.inflight
      /\ \A g \in Fields : x.invalid[g] =
            IF g = f THEN IF f \in w.errorMap THEN "true" ELSE "false" ELSE w.invalid[g]
  BY <1>1 DEF Validator
<1> HIDE DEF x
<1>5. /\ y.attached = x.attached
      /\ y.errorMap = x.errorMap /\ y.successList = x.successList
      /\ y.pending = x.pending /\ y.invalid = x.invalid
      /\ y.previousValue = x.previousValue /\ y.inflight = x.inflight
      /\ \A g \in Fields : y.container[g] = IF g \in x.successList THEN "valid"
            ELSE IF g \in x.errorMap THEN "error" ELSE x.container[g]
  BY <1>3, ShowErrorsFields
<1>6. element(v, val, f) = y
  BY DEF element, w, x
<1> HIDE DEF y
<1>7. Rechecked(v, y, val, {f})
  BY <1>2, <1>4, <1>5 DEF Rechecked, elements
<1> QED
  BY <1>6, <1>7

LEMMA FormRechecks ==
    ASSUME NEW v, NEW vd, NEW val \in [Fields -> Values], Good(v, vd)
    PROVE  Rechecked(v, form(v, val), val, elements)
<1> DEFINE w == Checked(v, val, elements)
           marks == [f \in Fields |-> IF f \in w.errorMap THEN "true" ELSE "absent"]
           x == [w EXCEPT !.invalid = marks]
           y == IF x.errorMap = {} THEN x ELSE onErrors(x)
           z == showErrors(y)
<1>1. elements \in SUBSET Fields
  BY DEF elements
<1>2. v \in Validator /\ w \in Validator
  BY <1>1, CheckedGood DEF Good
<1>3. /\ w.attached = v.attached
      /\ w.errorMap = {g \in elements : check(v, val, g) = "bad"}
      /\ w.successList = {g \in elements : check(v, val, g) = "good"}
      /\ w.pending = v.pending \cup {g \in elements : check(v, val, g) = "pending"}
      /\ w.container = v.container /\ w.invalid = v.invalid
      /\ \A g \in Fields :
            /\ w.previousValue[g].valid = v.previousValue[g].valid
            /\ IF g \in elements /\ check(v, val, g) = "pending"
                 THEN w.inflight[g] # None /\ w.inflight[g].live
                 ELSE w.inflight[g] = v.inflight[g]
  BY <1>1, <1>2, CheckedFields
<1>4. form(v, val) = z
  BY DEF form
<1> HIDE DEF w
<1>5. x \in Validator
  BY <1>2 DEF Validator
<1>6. /\ x.attached = w.attached /\ x.errorMap = w.errorMap
      /\ x.successList = w.successList /\ x.pending = w.pending
      /\ x.container = w.container /\ x.previousValue = w.previousValue
      /\ x.inflight = w.inflight
      /\ \A g \in Fields : x.invalid[g] = IF g \in w.errorMap THEN "true" ELSE "absent"
  BY <1>2 DEF Validator
<1> HIDE DEF x
<1>7. /\ y \in Validator
      /\ y.attached = x.attached /\ y.errorMap = x.errorMap
      /\ y.successList = x.successList /\ y.pending = x.pending
      /\ y.container = x.container /\ y.previousValue = x.previousValue
      /\ y.inflight = x.inflight /\ y.invalid = x.invalid
  BY <1>5 DEF onErrors, Validator
<1> HIDE DEF y
<1>8. /\ z.attached = y.attached
      /\ z.errorMap = y.errorMap /\ z.successList = y.successList
      /\ z.pending = y.pending /\ z.invalid = y.invalid
      /\ z.previousValue = y.previousValue /\ z.inflight = y.inflight
      /\ \A g \in Fields : z.container[g] = IF g \in y.successList THEN "valid"
            ELSE IF g \in y.errorMap THEN "error" ELSE y.container[g]
  BY <1>7, ShowErrorsFields
<1> HIDE DEF z
<1>9. Rechecked(v, z, val, elements)
  BY <1>3, <1>6, <1>7, <1>8 DEF Rechecked
<1> QED
  BY <1>4, <1>9
-----------------------------------------------------------------------------
\* What holds of the validator and the server's verdicts at all times.
Right(v, vd) == Good(v, vd) /\ Shown(v) /\ Refused(v, vd)

\* A check of an input with rules decides it, or asks; and what it finds wrong is
\* not as declared, or has been refused.
LEMMA CheckDecides ==
    ASSUME page \in Pages, RulesOfPage, NEW v, NEW vd, Right(v, vd),
           NEW val \in [Fields -> Values], NEW f \in Fields
    PROVE  /\ f \in elements => check(v, val, f) \in {"bad", "good", "pending"}
           /\ check(v, val, f) = "bad" =>
                ~ Declared(page.dataVal[f], val, f) \/ (vd[f] # None /\ ~ vd[f].ok)
           /\ f \in elements /\ check(v, val, f) # "bad" => Declared(page.dataVal[f], val, f)
<1>1. f \in elements => ~ DependencyMismatch(val, f)
  BY FailingTells
<1>2. Failing(val, f) # {} => f \in elements
  BY DEF Failing, elements
<1>3. f \in elements => (Failing(val, f) = {} <=> Declared(page.dataVal[f], val, f))
  BY FailingTells
<1>4. v.previousValue[f].valid \in BOOLEAN
  BY DEF Right, Good, Validator
<1>5. ~ v.previousValue[f].valid => vd[f] # None /\ ~ vd[f].ok
  BY DEF Right, Refused
<1>6. f \in elements => check(v, val, f) \in {"bad", "good", "pending"}
  BY <1>1 DEF check
<1>7. check(v, val, f) = "bad" => Failing(val, f) # {} \/ ~ v.previousValue[f].valid
  BY DEF check
<1>8. check(v, val, f) # "bad" => Failing(val, f) = {}
  BY DEF check
<1> QED
  BY <1>2, <1>3, <1>5, <1>6, <1>7, <1>8

\* A check leaves shown what is so, and what appears has a cause.
LEMMA RecheckedRight ==
    ASSUME page \in Pages, RulesOfPage, NEW v, NEW w, NEW vd, Right(v, vd), Good(w, vd),
           v.attached, NEW val \in [Fields -> Values], NEW S \in SUBSET Fields,
           Rechecked(v, w, val, S)
    PROVE  Right(w, vd) /\ w.attached /\ Follows(v, w, val, vd)
<1>1. /\ w.attached = v.attached
      /\ w.errorMap = {f \in S : check(v, val, f) = "bad"}
      /\ w.successList = {f \in S : check(v, val, f) = "good"}
      /\ w.pending = v.pending \cup {f \in S : check(v, val, f) = "pending"}
      /\ \A f \in Fields :
            /\ w.container[f] = IF f \in w.successList THEN "valid"
                                ELSE IF f \in w.errorMap THEN "error" ELSE v.container[f]
            /\ f \in w.errorMap => w.invalid[f] = "true"
            /\ f \in S \ w.errorMap => w.invalid[f] # "true"
            /\ f \in elements \ S => w.invalid[f] = v.invalid[f]
            /\ w.previousValue[f].valid = v.previousValue[f].valid
            /\ IF f \in S /\ check(v, val, f) = "pending"
                 THEN w.inflight[f] # None /\ w.inflight[f].live
                 ELSE w.inflight[f] = v.inflight[f]
  BY DEF Rechecked
<1>2. Shown(w)
  <2>1. \A f \in w.errorMap : f \notin w.successList /\ f \in Fields
    BY <1>1
  <2>2. \A f \in w.errorMap : w.container[f] = "error" /\ w.invalid[f] = "true"
    BY <1>1, <2>1
  <2>3. \A f \in w.successList : w.container[f] = "valid" /\ w.invalid[f] # "true"
    BY <1>1
  <2>4. ASSUME NEW f \in elements \ w.pending
        PROVE  w.container[f] = "error" <=> w.invalid[f] = "true"
    <3>1. f \in Fields
      BY DEF elements
    <3>2. CASE f \in S
      <4>1. check(v, val, f) \in {"bad", "good", "pending"}
        BY <3>1, CheckDecides
      <4>2. f \in w.errorMap \/ f \in w.successList
        BY <1>1, <3>2, <4>1, <2>4
      <4> QED
        BY <2>2, <2>3, <4>2
    <3>3. CASE f \notin S
      <4>1. f \in elements \ v.pending
        BY <1>1, <2>4
      <4>2. w.container[f] = v.container[f] /\ w.invalid[f] = v.invalid[f]
        BY <1>1, <3>1, <3>3
      <4> QED
        BY <4>1, <4>2 DEF Right, Shown
    <3> QED
      BY <3>2, <3>3
  <2> QED
    BY <1>1, <2>2, <2>3, <2>4 DEF Shown
<1>3. Refused(w, vd)
  BY <1>1 DEF Right, Refused
<1>4. Caused(v, w, val, vd)
  <2> SUFFICES ASSUME NEW f \in Fields, w.container[f] = "error", v.container[f] = "valid"
               PROVE  ~ Declared(page.dataVal[f], val, f) \/ (vd[f] # None /\ ~ vd[f].ok)
    BY DEF Caused
  <2>1. check(v, val, f) = "bad"
    BY <1>1
  <2> QED
    BY <2>1, CheckDecides
<1>5. ASSUME Awaited(v) PROVE Awaited(w)
  <2>1. v.pending \subseteq Fields
    BY DEF Right, Good, Validator
  <2> QED
    BY <1>1, <1>5, <2>1 DEF Awaited
<1> QED
  BY <1>1, <1>2, <1>3, <1>4, <1>5 DEF Right, Follows

\* The check of a field.
LEMMA ElementRight ==
    ASSUME page \in Pages, RulesOfPage, NEW v, NEW vd, Right(v, vd), v.attached,
           NEW val \in [Fields -> Values], NEW f \in Fields
    PROVE  /\ Right(element(v, val, f), vd) /\ element(v, val, f).attached
           /\ Follows(v, element(v, val, f), val, vd)
<1>1. Good(element(v, val, f), vd) /\ Rechecked(v, element(v, val, f), val, {f})
  BY ElementGood, ElementRechecks DEF Right
<1> QED
  BY <1>1, RecheckedRight

\* The check of the form; if it finds no error, all is as declared.
LEMMA FormRight ==
    ASSUME page \in Pages, RulesOfPage, NEW v, NEW vd, Right(v, vd), v.attached,
           NEW val \in [Fields -> Values]
    PROVE  /\ Right(form(v, val), vd) /\ form(v, val).attached
           /\ Follows(v, form(v, val), val, vd)
           /\ valid(form(v, val)) => \A f \in elements : Declared(page.dataVal[f], val, f)
<1>1. elements \in SUBSET Fields
  BY DEF elements
<1>2. Good(form(v, val), vd) /\ Rechecked(v, form(v, val), val, elements)
  BY FormGood, FormRechecks DEF Right
<1>3. ASSUME valid(form(v, val)), NEW f \in elements PROVE Declared(page.dataVal[f], val, f)
  <2>1. check(v, val, f) # "bad"
    BY <1>2, <1>3 DEF valid, Rechecked
  <2> QED
    BY <1>1, <2>1, CheckDecides
<1>4. /\ Right(form(v, val), vd) /\ form(v, val).attached
      /\ Follows(v, form(v, val), val, vd)
  BY <1>1, <1>2, RecheckedRight
<1> QED
  BY <1>3, <1>4

\* Handlers that leave what is shown and asked alone.
LEMMA SameRight ==
    ASSUME NEW v, NEW w, NEW vd, NEW val, Right(v, vd), Good(w, vd),
           w.container = v.container, w.invalid = v.invalid, w.errorMap = v.errorMap,
           w.successList = v.successList, w.pending = v.pending, w.attached = v.attached,
           w.previousValue = v.previousValue, w.inflight = v.inflight
    PROVE  Right(w, vd) /\ Follows(v, w, val, vd)
  BY DEF Right, Shown, Refused, Caused, Awaited, Follows

\* One thing after another.
LEMMA FollowsTogether ==
    ASSUME NEW u, NEW v, NEW w, NEW val, NEW vd, v \in Validator,
           Follows(u, v, val, vd), Follows(v, w, val, vd)
    PROVE  Follows(u, w, val, vd)
<1>1. \A f \in Fields : v.container[f] \in {"valid", "error"}
  BY DEF Validator
<1> QED
  BY <1>1 DEF Caused, Follows

\* Listing the errors, and wishing or no longer wishing to submit.
LEMMA ListedRight ==
    ASSUME NEW v, NEW vd, NEW val, Right(v, vd)
    PROVE  /\ Right([onErrors(v) EXCEPT !.formSubmitted = FALSE], vd)
           /\ Follows(v, [onErrors(v) EXCEPT !.formSubmitted = FALSE], val, vd)
<1> DEFINE x == onErrors(v)
           w == [x EXCEPT !.formSubmitted = FALSE]
<1>1. v \in Validator /\ x \in Validator
  BY OnErrorsGood DEF Right, Good
<1>2. /\ x.container = v.container /\ x.invalid = v.invalid /\ x.errorMap = v.errorMap
      /\ x.successList = v.successList /\ x.pending = v.pending /\ x.attached = v.attached
      /\ x.previousValue = v.previousValue /\ x.inflight = v.inflight
  BY <1>1 DEF onErrors, Validator
<1>3. Good(w, vd)
  BY OnErrorsGood, UnsubmittedGood DEF Right
<1> HIDE DEF x
<1>4. /\ w.container = x.container /\ w.invalid = x.invalid /\ w.errorMap = x.errorMap
      /\ w.successList = x.successList /\ w.pending = x.pending /\ w.attached = x.attached
      /\ w.previousValue = x.previousValue /\ w.inflight = x.inflight
  BY <1>1 DEF Validator
<1> HIDE DEF w
<1>5. Right(w, vd) /\ Follows(v, w, val, vd)
  BY <1>2, <1>3, <1>4, SameRight
<1> QED
  BY <1>5 DEF w, x

\* The submit handler shows nothing.
LEMMA SubmitRight ==
    ASSUME NEW v, NEW vd, NEW val, Right(v, vd)
    PROVE  /\ Right(submit(v), vd) /\ Follows(v, submit(v), val, vd)
           /\ Right([submit(v) EXCEPT !.formSubmitted = FALSE], vd)
           /\ Follows(v, [submit(v) EXCEPT !.formSubmitted = FALSE], val, vd)
<1> DEFINE x == submit(v)
           w == [x EXCEPT !.formSubmitted = FALSE]
<1>1. v \in Validator /\ x \in Validator
  BY SubmitGood DEF Right, Good
<1>2. /\ x.container = v.container /\ x.invalid = v.invalid /\ x.errorMap = v.errorMap
      /\ x.successList = v.successList /\ x.pending = v.pending /\ x.attached = v.attached
      /\ x.previousValue = v.previousValue /\ x.inflight = v.inflight
  BY <1>1 DEF submit, Validator
<1>3. Good(x, vd) /\ Good(w, vd)
  BY SubmitGood, UnsubmittedGood DEF Right
<1> HIDE DEF x
<1>4. /\ w.container = x.container /\ w.invalid = x.invalid /\ w.errorMap = x.errorMap
      /\ w.successList = x.successList /\ w.pending = x.pending /\ w.attached = x.attached
      /\ w.previousValue = x.previousValue /\ w.inflight = x.inflight
  BY <1>1 DEF Validator
<1> HIDE DEF w
<1>5. Right(x, vd) /\ Follows(v, x, val, vd)
  BY <1>2, <1>3, SameRight
<1>6. Right(w, vd) /\ Follows(v, w, val, vd)
  BY <1>2, <1>3, <1>4, SameRight
<1> QED
  BY <1>5, <1>6 DEF w, x
-----------------------------------------------------------------------------
\* The callback of an answer shows at its own field what the server says, and leaves
\* the others as they are: what they show they are listed for.
LEMMA AnsweredRight ==
    ASSUME NEW v, NEW vd \in Verdicts, NEW val, NEW f \in Fields, NEW ok \in BOOLEAN,
           Right(v, vd), v.inflight[f] # None
    PROVE  LET z == Stopped(success(v, f, ok), f)
               vd2 == Decided(vd, v, f, ok)
           IN  Right(z, vd2) /\ z.attached /\ Follows(v, z, val, vd2)
<1> DEFINE u == IF ok
               THEN [v EXCEPT !.errorMap = {}, !.successList = {f}, !.invalid[f] = "false"]
               ELSE [v EXCEPT !.errorMap = @ \cup {f}, !.successList = @ \ {f},
                              !.invalid[f] = "true"]
           x == showErrors(u)
           y == success(v, f, ok)
           z == Stopped(y, f)
           vd2 == Decided(vd, v, f, ok)
<1>1. /\ v \in Validator /\ f \in v.pending /\ v.attached
      /\ Shown(v) /\ Refused(v, vd)
  BY DEF Right, Good, Counted, Shown
<1>2. u \in Validator
  BY <1>1 DEF Validator
<1>3. /\ u.attached = v.attached /\ u.pending = v.pending
      /\ u.container = v.container
      /\ u.previousValue = v.previousValue /\ u.inflight = v.inflight
      /\ u.errorMap = IF ok THEN {} ELSE v.errorMap \cup {f}
      /\ u.successList = IF ok THEN {f} ELSE v.successList \ {f}
      /\ \A g \in Fields : u.invalid[g] =
            IF g = f THEN IF ok THEN "false" ELSE "true" ELSE v.invalid[g]
  BY <1>1 DEF Validator
<1> HIDE DEF u
<1>4. /\ x.attached = v.attached /\ x.pending = v.pending
      /\ x.previousValue = v.previousValue /\ x.inflight = v.inflight
      /\ x.errorMap = u.errorMap /\ x.successList = u.successList
      /\ x.invalid = u.invalid
      /\ \A g \in Fields : x.container[g] = IF g \in u.successList THEN "valid"
            ELSE IF g \in u.errorMap THEN "error" ELSE v.container[g]
  BY <1>2, <1>3, ShowErrorsFields
<1>5. x \in Validator
  BY <1>2 DEF showErrors, onError, onSuccess, Validator
<1>6. y = [x EXCEPT !.previousValue[f].valid = IF v.inflight[f].live THEN ok ELSE @,
                    !.inflight[f] = None]
  BY DEF success, u
<1> HIDE DEF x
<1>7. /\ y.attached = x.attached /\ y.pending = x.pending
      /\ y.errorMap = x.errorMap /\ y.successList = x.successList
      /\ y.invalid = x.invalid /\ y.container = x.container
      /\ \A g \in Fields : y.inflight[g] = IF g = f THEN None ELSE v.inflight[g]
  BY <1>4, <1>5, <1>6 DEF Validator
<1>8. \A g \in Fields : y.previousValue[g].valid =
         IF g = f /\ v.inflight[f].live THEN ok ELSE v.previousValue[g].valid
  <2>1. \A g \in Fields : v.previousValue[g] \in [old : Data \cup {None}, valid : BOOLEAN]
    BY <1>1 DEF Validator
  <2>2. v.previousValue \in [Fields -> [old : Data \cup {None}, valid : BOOLEAN]]
    BY <1>1 DEF Validator
  <2>3. y.previousValue = [v.previousValue EXCEPT ![f].valid =
                              IF v.inflight[f].live THEN ok ELSE @]
    BY <1>4, <1>5, <1>6 DEF Validator
  <2> QED
    BY <2>1, <2>2, <2>3
<1>9. /\ z.attached = y.attached /\ z.pending = y.pending \ {f}
      /\ z.errorMap = y.errorMap /\ z.successList = y.successList
      /\ z.invalid = y.invalid /\ z.container = y.container
      /\ z.previousValue = y.previousValue /\ z.inflight = y.inflight
  <2>1. {"attached", "pending", "errorMap", "successList", "invalid", "container",
         "previousValue", "inflight", "pendingRequest"} \subseteq DOMAIN y
    BY <1>5, <1>6 DEF Validator
  <2> HIDE DEF y
  <2> QED
    BY <2>1 DEF Stopped
<1>10. /\ vd2[f] = [data |-> v.inflight[f].data, ok |-> ok]
       /\ \A g \in Fields : g # f => vd2[g] = vd[g]
  BY DEF Decided, Verdicts
<1>11. vd2[f] # None
  <2>1. v.inflight[f] \in Request
    BY <1>1 DEF Validator
  <2>2. [data |-> v.inflight[f].data, ok |-> ok] \in [data : Data, ok : BOOLEAN]
    BY <2>1 DEF Request
  <2> QED
    BY <1>10, <2>2, NoneAssumption
<1>12. Good(z, vd2)
  BY AnsweredGood DEF Right
<1> HIDE DEF y, z, vd2
<1>13. \A g \in Fields : g # f => z.container[g] = v.container[g] /\ z.invalid[g] = v.invalid[g]
  BY <1>1, <1>3, <1>4, <1>7, <1>9 DEF Shown
<1>14. z.container[f] = IF ok THEN "valid" ELSE "error"
  BY <1>3, <1>4, <1>7, <1>9
<1>15. z.invalid[f] = IF ok THEN "false" ELSE "true"
  BY <1>3, <1>4, <1>7, <1>9
<1>16. /\ z.errorMap = IF ok THEN {} ELSE v.errorMap \cup {f}
       /\ z.successList = IF ok THEN {f} ELSE v.successList \ {f}
       /\ z.pending = v.pending \ {f} /\ z.attached
  BY <1>1, <1>3, <1>4, <1>7, <1>9
<1>17. Shown(z)
  <2>1. \A g \in elements : g \in Fields
    BY DEF elements
  <2>2. v.errorMap \subseteq Fields /\ v.successList \subseteq Fields
    BY <1>1 DEF Validator
  <2>3. ASSUME NEW g \in elements \ z.pending
        PROVE  z.container[g] = "error" <=> z.invalid[g] = "true"
    BY <1>1, <1>13, <1>14, <1>15, <1>16, <2>1 DEF Shown
  <2>4. ASSUME NEW g \in z.errorMap PROVE z.container[g] = "error" /\ z.invalid[g] = "true"
    BY <1>1, <1>13, <1>14, <1>15, <1>16, <2>2 DEF Shown
  <2>5. ASSUME NEW g \in z.successList PROVE z.container[g] = "valid" /\ z.invalid[g] # "true"
    BY <1>1, <1>13, <1>14, <1>15, <1>16, <2>2 DEF Shown
  <2> QED
    BY <1>16, <2>3, <2>4, <2>5 DEF Shown
<1>18. Refused(z, vd2)
  <2> SUFFICES ASSUME NEW g \in Fields
               PROVE  /\ ~ z.previousValue[g].valid => vd2[g] # None /\ ~ vd2[g].ok
                      /\ z.inflight[g] # None /\ ~ z.inflight[g].live => z.previousValue[g].valid
    BY DEF Refused
  <2>1. z.inflight[g] = IF g = f THEN None ELSE v.inflight[g]
    BY <1>7, <1>9
  <2>2. z.previousValue[g].valid =
          IF g = f /\ v.inflight[f].live THEN ok ELSE v.previousValue[g].valid
    BY <1>8, <1>9
  <2>3. CASE g = f
    <3>1. v.inflight[f].live \/ v.previousValue[f].valid
      BY <1>1 DEF Refused
    <3>2. vd2[f].ok = ok
      BY <1>10
    <3> QED
      BY <1>11, <2>1, <2>2, <2>3, <3>1, <3>2
  <2>4. CASE g # f
    BY <1>1, <1>10, <2>1, <2>2, <2>4 DEF Refused
  <2> QED
    BY <2>3, <2>4
<1>19. Caused(v, z, val, vd2)
  <2> SUFFICES ASSUME NEW g \in Fields, z.container[g] = "error", v.container[g] = "valid"
               PROVE  vd2[g] # None /\ ~ vd2[g].ok
    BY DEF Caused
  <2>1. g = f /\ ~ ok
    BY <1>13, <1>14
  <2> QED
    BY <1>10, <1>11, <2>1
<1>20. ASSUME Awaited(v) PROVE Awaited(z)
  <2>1. v.pending \subseteq Fields
    BY <1>1 DEF Validator
  <2>2. \A g \in Fields : g # f => z.inflight[g] = v.inflight[g]
    BY <1>7, <1>9
  <2> QED
    BY <1>16, <1>20, <2>1, <2>2 DEF Awaited
<1> QED
  BY <1>12, <1>16, <1>17, <1>18, <1>19, <1>20 DEF Right, Follows, y, z, vd2

\* What comes after the last answer.
LEMMA StopRight ==
    ASSUME page \in Pages, RulesOfPage, NEW v, NEW vd, Right(v, vd), v.attached,
           NEW val \in [Fields -> Values], NEW ok \in BOOLEAN
    PROVE  /\ Right(stopRequest(v, val, ok)[1], vd)
           /\ Follows(v, stopRequest(v, val, ok)[1], val, vd)
           /\ stopRequest(v, val, ok)[2] => \A f \in elements : Declared(page.dataVal[f], val, f)
<1> DEFINE x == form(v, val)
           again == form(x, val)
           listed == [onErrors(v) EXCEPT !.formSubmitted = FALSE]
           sent == [submit(again) EXCEPT !.formSubmitted = FALSE]
<1>1. Right(x, vd) /\ x.attached /\ Follows(v, x, val, vd)
  BY FormRight
<1>2. /\ Right(again, vd) /\ Follows(x, again, val, vd)
      /\ valid(again) => \A f \in elements : Declared(page.dataVal[f], val, f)
  BY <1>1, FormRight
<1>3. Right(listed, vd) /\ Follows(v, listed, val, vd)
  BY ListedRight
<1>4. Right(sent, vd) /\ Follows(again, sent, val, vd)
  BY <1>2, SubmitRight
<1>5. Follows(v, sent, val, vd)
  <2>1. x \in Validator /\ again \in Validator
    BY <1>1, <1>2 DEF Right, Good
  <2>2. Follows(v, again, val, vd)
    BY <1>1, <1>2, <2>1, FollowsTogether
  <2> QED
    BY <1>4, <2>1, <2>2, FollowsTogether
<1>6. Follows(v, v, val, vd)
  BY DEF Caused, Follows
<1>7. handle(again) => \A f \in elements : Declared(page.dataVal[f], val, f)
  BY <1>2 DEF handle
<1>8. \/ stopRequest(v, val, ok) = <<v, FALSE>>
      \/ stopRequest(v, val, ok) = <<listed, FALSE>>
      \/ stopRequest(v, val, ok) = <<x, FALSE>>
      \/ stopRequest(v, val, ok) = <<sent, handle(again)>>
  BY DEF stopRequest
<1> HIDE DEF x, again, listed, sent
<1>9. ASSUME NEW w, NEW go, stopRequest(v, val, ok) = <<w, go>>,
             Right(w, vd), Follows(v, w, val, vd),
             go => \A f \in elements : Declared(page.dataVal[f], val, f)
      PROVE  /\ Right(stopRequest(v, val, ok)[1], vd)
             /\ Follows(v, stopRequest(v, val, ok)[1], val, vd)
             /\ stopRequest(v, val, ok)[2] =>
                   \A f \in elements : Declared(page.dataVal[f], val, f)
  <2>1. stopRequest(v, val, ok)[1] = w /\ stopRequest(v, val, ok)[2] = go
    BY <1>9
  <2> QED
    BY <1>9, <2>1, Zenon
<1> QED
  BY <1>1, <1>3, <1>4, <1>5, <1>6, <1>7, <1>8, <1>9

\* After a reset nothing is shown and no verdict is kept.
LEMMA ResetRight ==
    ASSUME NEW v, NEW vd, NEW val, Right(v, vd)
    PROVE  Right(onReset(v), vd) /\ Follows(v, onReset(v), val, vd)
<1> DEFINE z == onReset(v)
<1>1. v \in Validator /\ Shown(v) /\ Refused(v, vd)
  BY DEF Right, Good
<1>2. /\ z.errorMap = {} /\ z.successList = {} /\ z.pending = v.pending
      /\ z.attached = v.attached
      /\ \A f \in Fields :
            /\ z.invalid[f] = "absent" /\ z.container[f] = "valid"
            /\ z.previousValue[f] = IF f \in elements THEN [old |-> None, valid |-> TRUE]
                                    ELSE v.previousValue[f]
            /\ f \notin elements => z.inflight[f] = v.inflight[f]
            /\ f \in elements => z.inflight[f] = IF v.inflight[f] # None
                 THEN [v.inflight[f] EXCEPT !.live = FALSE] ELSE v.inflight[f]
  BY <1>1 DEF onReset, Validator
<1>3. Good(z, vd)
  BY ResetGood DEF Right
<1> HIDE DEF z
<1>4. \A f \in elements : f \in Fields
  BY DEF elements
<1>5. Shown(z)
  BY <1>1, <1>2, <1>4 DEF Shown
<1>6. Refused(z, vd)
  <2> SUFFICES ASSUME NEW f \in Fields
               PROVE  /\ ~z.previousValue[f].valid => vd[f] # None /\ ~vd[f].ok
                      /\ z.inflight[f] # None /\ ~z.inflight[f].live
                         => z.previousValue[f].valid
    BY DEF Refused
  <2>1. CASE f \in elements
    <3>1. z.previousValue[f] = [old |-> None, valid |-> TRUE]
      BY <1>2, <2>1
    <3> QED
      BY <3>1
  <2>2. CASE f \notin elements
    <3>1. z.previousValue[f] = v.previousValue[f] /\ z.inflight[f] = v.inflight[f]
      BY <1>2, <2>2
    <3> QED
      BY <1>1, <3>1 DEF Refused
  <2> QED
    BY <2>1, <2>2
<1>7. Caused(v, z, val, vd)
  BY <1>2 DEF Caused
<1>8. ASSUME Awaited(v) PROVE Awaited(z)
  <2> SUFFICES ASSUME NEW f \in v.pending, f \in elements PROVE z.inflight[f] # None
    BY <1>1, <1>2, <1>8 DEF Awaited, Validator
  <2>1. f \in Fields /\ v.inflight[f] # None /\ v.inflight[f] \in Request
    BY <1>1, <1>4, <1>8 DEF Awaited, Validator
  <2>2. [v.inflight[f] EXCEPT !.live = FALSE] \in Request
    BY <2>1 DEF Request
  <2> QED
    BY <1>2, <2>1, <2>2, NoneAssumption
<1> QED
  BY <1>3, <1>5, <1>6, <1>7, <1>8 DEF Right, Follows, z

\* A request that fails shows nothing either.
LEMMA FailedRight ==
    ASSUME NEW v, NEW vd, NEW val, NEW f \in Fields, Right(v, vd)
    PROVE  /\ Right([v EXCEPT !.inflight[f] = None], vd)
           /\ Caused(v, [v EXCEPT !.inflight[f] = None], val, vd)
<1> DEFINE z == [v EXCEPT !.inflight[f] = None]
<1>1. v \in Validator /\ Shown(v) /\ Refused(v, vd)
  BY DEF Right, Good
<1>2. /\ z.errorMap = v.errorMap /\ z.successList = v.successList /\ z.pending = v.pending
      /\ z.attached = v.attached /\ z.invalid = v.invalid /\ z.container = v.container
      /\ z.previousValue = v.previousValue
      /\ \A g \in Fields : z.inflight[g] = IF g = f THEN None ELSE v.inflight[g]
  BY <1>1 DEF Validator
<1>3. Good(z, vd)
  BY FailedGood DEF Right
<1> HIDE DEF z
<1>4. Shown(z) /\ Refused(z, vd) /\ Caused(v, z, val, vd)
  BY <1>1, <1>2 DEF Shown, Refused, Caused
<1> QED
  BY <1>3, <1>4 DEF Right, z

\* The handlers of the events of an input.
LEMMA EventsRight ==
    ASSUME page \in Pages, RulesOfPage, NEW v, NEW vd, Right(v, vd), v.attached,
           NEW val \in [Fields -> Values], NEW f \in Fields
    PROVE  /\ Right(onkeyup(v, val, f), vd) /\ Follows(v, onkeyup(v, val, f), val, vd)
           /\ Right(onclick(v, val, f), vd) /\ Follows(v, onclick(v, val, f), val, vd)
           /\ Right(onfocusout(v, val, f), vd) /\ Follows(v, onfocusout(v, val, f), val, vd)
<1> DEFINE w == IF v.blurTarget[f] = None THEN v ELSE element(v, val, v.blurTarget[f])
           z == element(w, val, f)
<1>1. Follows(v, v, val, vd)
  BY DEF Caused, Follows
<1>2. Right(element(v, val, f), vd) /\ Follows(v, element(v, val, f), val, vd)
  BY ElementRight
<1>3. Right(w, vd) /\ w.attached /\ Follows(v, w, val, vd)
  <2>1. v.blurTarget[f] \in Fields \cup {None}
    BY DEF Right, Good, Validator
  <2>2. CASE v.blurTarget[f] = None
    BY <1>1, <2>2
  <2>3. CASE v.blurTarget[f] \in Fields
    BY <1>1, <2>3, ElementRight
  <2> QED
    BY <2>1, <2>2, <2>3
<1> HIDE DEF w
<1>4. Right(z, vd) /\ Follows(w, z, val, vd)
  BY <1>3, ElementRight
<1>5. Follows(v, z, val, vd)
  BY <1>3, <1>4, FollowsTogether DEF Right, Good
<1>6. onfocusout(v, val, f) \in {w, z}
  BY DEF onfocusout, w
<1> HIDE DEF z
<1> QED
  BY <1>1, <1>2, <1>3, <1>4, <1>5, <1>6 DEF onkeyup, onclick

\* A new page shows nothing.
LEMMA FreshRight ==
    ASSUME NEW inputs, NEW vd
    PROVE  Shown(Fresh(inputs)) /\ Refused(Fresh(inputs), vd)
  BY DEF Fresh, Shown, Refused, elements
-----------------------------------------------------------------------------
\* The options, too, are made of the page's attributes.
OptionsOfPage ==
    \A f \in Fields :
        options[f] = <<>> \/ /\ f \in DOMAIN page.dataVal
                             /\ options[f] = InOrder(parseElement(page.dataVal[f], f))

\* The inductive invariant of what is shown; Inv holds beside it.
ShownInv ==
    /\ RulesOfPage
    /\ OptionsOfPage
    /\ present \subseteq DOMAIN page.dataVal
    /\ Shown(validator)
    /\ Refused(validator, verdict)
    /\ lost = 0 => Awaited(validator)
    /\ AcceptedAsDeclared

\* What a step may show.
Cause == Caused(validator, validator', value', verdict')

\* What the two invariants say of the validator.
LEMMA InvIsRight == Inv /\ ShownInv => /\ Right(validator, verdict) /\ page \in Pages
                                       /\ value \in [Fields -> Values] /\ verdict \in Verdicts
  BY DEF Inv, ShownInv, Right, TypeOK, Verdicts

\* What a page makes of its inputs.
LEMMA ParsedOfPage ==
    ASSUME NEW p \in Pages, NEW inputs, inputs \subseteq DOMAIN p.dataVal, NEW f \in Fields
    PROVE  \/ Parsed(p, inputs)[f] = <<>>
           \/ /\ f \in DOMAIN p.dataVal
              /\ Parsed(p, inputs)[f] = InOrder(parseElement(p.dataVal[f], f))
  BY DEF Parsed

\* The handlers leave the page and its rules alone; most do not send the form.
LEMMA HandlerShown ==
    ASSUME Inv, ShownInv, Right(validator', verdict'),
           UNCHANGED <<page, present, options, settings>>,
           lost' = 0 => lost = 0 /\ (Awaited(validator) => Awaited(validator')),
           posted' => value' = value /\ \A f \in elements : Declared(page.dataVal[f], value, f)
    PROVE  ShownInv'
<1>1. elements' = elements
  BY DEF elements
<1>2. Shown(validator') /\ Refused(validator', verdict')
  BY DEF Right
<1>3. Shown(validator)' /\ Refused(validator, verdict)'
  BY <1>1, <1>2 DEF Shown, Refused
<1>4. RulesOfPage' /\ OptionsOfPage' /\ (present \subseteq DOMAIN page.dataVal)'
  BY DEF ShownInv, RulesOfPage, OptionsOfPage
<1>5. AcceptedAsDeclared'
  BY <1>1 DEF AcceptedAsDeclared
<1>6. (lost = 0 => Awaited(validator))'
  BY DEF ShownInv, Awaited
<1> QED
  BY <1>3, <1>4, <1>5, <1>6 DEF ShownInv

LEMMA InitShown == Init => ShownInv
<1> SUFFICES ASSUME Init PROVE ShownInv
  OBVIOUS
<1>1. page \in Pages /\ present = page.loaded /\ present \subseteq DOMAIN page.dataVal
  BY PagesAssumption DEF Init
<1>2. options = Parsed(page, present) /\ settings = Parsed(page, present)
  BY DEF Init
<1>3. RulesOfPage /\ OptionsOfPage
  BY <1>1, <1>2, ParsedOfPage DEF RulesOfPage, OptionsOfPage
<1>4. Shown(validator) /\ Refused(validator, verdict)
  BY FreshRight DEF Init
<1>5. AcceptedAsDeclared
  BY DEF Init, AcceptedAsDeclared
<1>6. Awaited(validator)
  BY DEF Init, Fresh, Awaited
<1> QED
  BY <1>1, <1>3, <1>4, <1>5, <1>6 DEF ShownInv

LEMMA LoadShown == ASSUME Load PROVE ShownInv' /\ Cause
<1>1. /\ page' \in Pages /\ present' = page'.loaded
      /\ present' \subseteq DOMAIN page'.dataVal
  BY PagesAssumption DEF Load
<1>2. options' = Parsed(page', present') /\ settings' = Parsed(page', present')
  BY DEF Load
<1>3. RulesOfPage' /\ OptionsOfPage'
  BY <1>1, <1>2, ParsedOfPage DEF RulesOfPage, OptionsOfPage
<1>4. validator' = Fresh(present')
  BY DEF Load
<1>5. Shown(validator)' /\ Refused(validator, verdict)'
  BY <1>4 DEF Fresh, Shown, Refused, elements
<1>6. AcceptedAsDeclared'
  BY DEF Load, AcceptedAsDeclared
<1>7. Cause
  BY <1>4 DEF Fresh, Cause, Caused
<1>8. Awaited(validator)'
  BY <1>4 DEF Fresh, Awaited
<1> QED
  BY <1>1, <1>3, <1>5, <1>6, <1>7, <1>8 DEF ShownInv

\* The rules may change only while there is no validator, and then nothing is shown.
LEMMA InsertShown == ASSUME Inv, ShownInv, Insert PROVE ShownInv' /\ Cause
<1> DEFINE z == [validator EXCEPT !.attached = TRUE]
<1>1. /\ page \in Pages /\ validator \in Validator
      /\ Shown(validator) /\ Refused(validator, verdict)
  BY InvIsRight DEF Right, Good, ShownInv
<1>2. /\ page' = page /\ present' = DOMAIN page.dataVal /\ verdict' = verdict
      /\ value' = value /\ posted' = FALSE
      /\ settings' = IF validator.attached THEN settings ELSE options'
      /\ validator' = z
      /\ \A f \in Fields : options'[f] = IF f \in present THEN options[f]
                                         ELSE Parsed(page, present')[f]
  BY DEF Insert, attachValidation, Inv, TypeOK
<1>3. OptionsOfPage'
  <2> SUFFICES ASSUME NEW f \in Fields
               PROVE  \/ options'[f] = <<>>
                      \/ /\ f \in DOMAIN page.dataVal
                         /\ options'[f] = InOrder(parseElement(page.dataVal[f], f))
    BY <1>2 DEF OptionsOfPage
  <2>1. CASE f \in present
    BY <1>2, <2>1 DEF ShownInv, OptionsOfPage
  <2>2. CASE f \notin present
    BY <1>1, <1>2, <2>2, ParsedOfPage
  <2> QED
    BY <2>1, <2>2
<1>4. RulesOfPage'
  <2>1. CASE validator.attached
    BY <1>2, <2>1 DEF ShownInv, RulesOfPage
  <2>2. CASE ~ validator.attached
    BY <1>2, <1>3, <2>2 DEF OptionsOfPage, RulesOfPage
  <2> QED
    BY <2>1, <2>2
<1>5. /\ z.attached /\ z.pending = validator.pending /\ z.container = validator.container
      /\ z.invalid = validator.invalid /\ z.errorMap = validator.errorMap
      /\ z.successList = validator.successList
      /\ z.previousValue = validator.previousValue /\ z.inflight = validator.inflight
  BY <1>1 DEF Validator
<1> HIDE DEF z
<1>6. Refused(validator, verdict)' /\ Cause
  BY <1>1, <1>2, <1>5 DEF Refused, Cause, Caused
<1>7. Shown(validator)'
  <2>1. CASE validator.attached
    <3>1. elements' = elements
      BY <1>2, <2>1 DEF elements
    <3> QED
      BY <1>1, <1>2, <1>5, <3>1 DEF Shown
  <2>2. CASE ~ validator.attached
    <3>1. \A f \in elements' : f \in Fields
      BY DEF elements
    <3> QED
      BY <1>1, <1>2, <1>5, <2>2, <3>1 DEF Shown
  <2> QED
    BY <2>1, <2>2
<1>8. AcceptedAsDeclared'
  BY <1>2 DEF AcceptedAsDeclared
<1>9. (lost = 0 => Awaited(validator))'
  BY <1>2, <1>5 DEF Insert, ShownInv, Awaited
<1> QED
  BY <1>2, <1>3, <1>4, <1>6, <1>7, <1>8, <1>9 DEF ShownInv

\* The handler of a key or a click checks the new value.
LEMMA TypeShown ==
    ASSUME Inv, ShownInv, NEW f \in Fields, NEW x \in Values, Type(f, x)
    PROVE  ShownInv' /\ Cause
<1>1. Edit(f, x)
  BY DEF Type
<1>2. /\ value' \in [Fields -> Values] /\ verdict' = verdict /\ posted' = FALSE
      /\ UNCHANGED <<page, present, options, settings, lost>>
  BY <1>1, EditTypes DEF Edit
<1>3. Right(validator', verdict') /\ Follows(validator, validator', value', verdict')
  <2>1. /\ page \in Pages /\ RulesOfPage /\ Right(validator, verdict)
    BY InvIsRight DEF ShownInv
  <2>2. CASE validator.attached
    <3>1. /\ Right(onkeyup(validator, value', f), verdict)
          /\ Follows(validator, onkeyup(validator, value', f), value', verdict)
          /\ Right(onclick(validator, value', f), verdict)
          /\ Follows(validator, onclick(validator, value', f), value', verdict)
      BY <1>2, <2>1, <2>2, EventsRight
    <3> QED
      BY <1>2, <2>2, <3>1 DEF Type
  <2>3. CASE ~ validator.attached
    BY <1>2, <2>1, <2>3 DEF Type, Follows, Caused
  <2> QED
    BY <2>2, <2>3
<1> QED
  BY <1>2, <1>3, HandlerShown DEF Follows, Cause

\* No handler runs for a value that the browser fills in.
LEMMA FillShown ==
    ASSUME Inv, ShownInv, NEW f \in Fields, NEW x \in Values, Fill(f, x)
    PROVE  ShownInv' /\ Cause
<1>1. Edit(f, x) /\ validator' = validator
  BY DEF Fill
<1>2. /\ verdict' = verdict /\ posted' = FALSE
      /\ UNCHANGED <<page, present, options, settings, lost>>
  BY <1>1, EditTypes DEF Edit
<1>3. Right(validator', verdict')
  BY <1>1, <1>2, InvIsRight
<1>4. Cause
  BY <1>1 DEF Cause, Caused
<1> QED
  BY <1>1, <1>2, <1>3, <1>4, HandlerShown

\* Handlers that neither change a value nor send the form.
LEMMA QuietShown ==
    ASSUME Inv, ShownInv, ~ posted, Right(validator', verdict),
           Caused(validator, validator', value, verdict),
           lost' = 0 => lost = 0 /\ Follows(validator, validator', value, verdict),
           UNCHANGED <<page, present, value, options, settings, posted, verdict>>
    PROVE  ShownInv' /\ Cause
  BY HandlerShown DEF Cause, Follows

LEMMA KeyShown == ASSUME Inv, ShownInv, NEW f \in Fields, Key(f) PROVE ShownInv' /\ Cause
<1>1. Right(validator', verdict) /\ Follows(validator, validator', value, verdict)
  BY InvIsRight, EventsRight DEF ShownInv, Key
<1> QED
  BY <1>1, QuietShown DEF Follows, Key

LEMMA LeaveShown == ASSUME Inv, ShownInv, NEW f \in Fields, Leave(f) PROVE ShownInv' /\ Cause
<1>1. Right(validator', verdict) /\ Follows(validator, validator', value, verdict)
  BY InvIsRight, EventsRight DEF ShownInv, Leave
<1> QED
  BY <1>1, QuietShown DEF Follows, Leave

LEMMA ValidateShown == ASSUME Inv, ShownInv, Validate PROVE ShownInv' /\ Cause
<1>1. Right(validator', verdict) /\ Follows(validator, validator', value, verdict)
  BY InvIsRight, FormRight DEF ShownInv, Validate
<1> QED
  BY <1>1, QuietShown DEF Follows, Validate

LEMMA FailShown == ASSUME Inv, ShownInv, NEW f \in Fields, Fail(f) PROVE ShownInv' /\ Cause
<1>1. Right(validator', verdict) /\ Caused(validator, validator', value, verdict)
  BY InvIsRight, FailedRight DEF Fail
<1>2. lost' # 0
  BY DEF Fail, Inv, TypeOK
<1> QED
  BY <1>1, <1>2, QuietShown DEF Fail

\* A reset sets all inputs back.
LEMMA ResetShown == ASSUME Inv, ShownInv, Reset PROVE ShownInv' /\ Cause
<1>1. Right(validator', verdict') /\ Follows(validator, validator', value', verdict')
  BY InvIsRight, ResetRight DEF Reset
<1> QED
  BY <1>1, HandlerShown DEF Reset, Follows, Cause

\* A form that goes out at once has been checked as it is.
LEMMA SubmitShown == ASSUME Inv, ShownInv, Submit PROVE ShownInv' /\ Cause
<1> DEFINE w == form(validator, value)
<1>1. /\ page \in Pages /\ RulesOfPage /\ Right(validator, verdict)
      /\ value \in [Fields -> Values] /\ Good(validator, verdict)
  BY InvIsRight DEF ShownInv, Inv
<1>2. UNCHANGED <<page, present, value, options, settings, verdict, lost>>
  BY DEF Submit
<1>3. CASE validator.attached
  <2>1. /\ Right(w, verdict) /\ Follows(validator, w, value, verdict)
        /\ valid(w) => \A f \in elements : Declared(page.dataVal[f], value, f)
    BY <1>1, <1>3, FormRight
  <2>2. validator' = submit(w) /\ posted' = handle(w)
    BY <1>3 DEF Submit
  <2> HIDE DEF w
  <2>3. Right(validator', verdict) /\ Follows(w, validator', value, verdict)
    BY <2>1, <2>2, SubmitRight
  <2>4. Follows(validator, validator', value, verdict)
    BY <2>1, <2>3, FollowsTogether DEF Right, Good
  <2>5. posted' => \A f \in elements : Declared(page.dataVal[f], value, f)
    BY <2>1, <2>2 DEF handle
  <2> QED
    BY <1>2, <2>3, <2>4, <2>5, HandlerShown DEF Follows, Cause
<1>4. CASE ~ validator.attached
  <2>1. elements = {}
    BY <1>1, <1>4 DEF Good, Held
  <2>2. validator' = validator
    BY <1>4 DEF Submit
  <2>3. Cause
    BY <2>2 DEF Cause, Caused
  <2> QED
    BY <1>1, <1>2, <2>1, <2>2, <2>3, HandlerShown
<1> QED
  BY <1>3, <1>4

\* So has one that goes out with the last answer.
LEMMA AnswerShown ==
    ASSUME Inv, ShownInv, NEW f \in Fields, NEW ok \in BOOLEAN, Answer(f, ok)
    PROVE  ShownInv' /\ Cause
<1> DEFINE w == Stopped(success(validator, f, ok), f)
           done == stopRequest(w, value, ok)
<1>1. /\ page \in Pages /\ RulesOfPage /\ Right(validator, verdict)
      /\ value \in [Fields -> Values] /\ verdict \in Verdicts
      /\ validator.inflight[f] # None
  BY InvIsRight DEF ShownInv, Answer
<1>2. verdict' = Decided(verdict, validator, f, ok)
  BY DEF Answer, Decided
<1>3. UNCHANGED <<page, present, value, options, settings, lost>>
  BY DEF Answer
<1>4. /\ Right(w, verdict') /\ w.attached /\ Follows(validator, w, value, verdict')
  BY <1>1, <1>2, AnsweredRight
<1>5. validator' = done[1] /\ posted' = done[2]
  BY DEF Answer
<1> HIDE DEF w
<1>6. /\ Right(done[1], verdict') /\ Follows(w, done[1], value, verdict')
      /\ done[2] => \A g \in elements : Declared(page.dataVal[g], value, g)
  BY <1>1, <1>4, StopRight
<1> HIDE DEF done
<1>7. Follows(validator, validator', value, verdict')
  BY <1>4, <1>5, <1>6, FollowsTogether DEF Right, Good
<1> QED
  BY <1>3, <1>5, <1>6, <1>7, HandlerShown DEF Follows, Cause

\* Every step keeps the invariant, and shows errors for a cause only.
LEMMA NextShown == Inv /\ ShownInv /\ [Next]_vars => ShownInv' /\ [Cause]_vars
<1> SUFFICES ASSUME Inv, ShownInv, [Next]_vars PROVE ShownInv' /\ [Cause]_vars
  OBVIOUS
<1>1. CASE Load
  BY <1>1, LoadShown
<1>2. CASE Insert
  BY <1>2, InsertShown
<1>3. CASE Submit
  BY <1>3, SubmitShown
<1>4. CASE Validate
  BY <1>4, ValidateShown
<1>5. CASE Reset
  BY <1>5, ResetShown
<1>6. ASSUME NEW f \in Fields, Leave(f) \/ Key(f) \/ Fail(f) PROVE ShownInv' /\ Cause
  BY <1>6, LeaveShown, KeyShown, FailShown
<1>7. ASSUME NEW f \in Fields, NEW x \in Values, Type(f, x) \/ Fill(f, x)
      PROVE  ShownInv' /\ Cause
  BY <1>7, TypeShown, FillShown
<1>8. ASSUME NEW f \in Fields, NEW ok \in BOOLEAN, Answer(f, ok) PROVE ShownInv' /\ Cause
  BY <1>8, AnswerShown
<1>9. CASE UNCHANGED vars
  <2>1. Right(validator', verdict')
    BY <1>9, InvIsRight DEF vars
  <2>2. posted' => \A f \in elements : Declared(page.dataVal[f], value, f)
    BY <1>9 DEF vars, ShownInv, AcceptedAsDeclared
  <2> QED
    BY <1>9, <2>1, <2>2, HandlerShown DEF vars
<1> QED
  BY <1>1, <1>2, <1>3, <1>4, <1>5, <1>6, <1>7, <1>8, <1>9 DEF Next

LEMMA ShownInvariance == Spec => []ShownInv
  BY Invariance, InitShown, NextShown, PTL DEF Spec

\* The count that holds a submission back is the number of fields that wait, whatever is
\* aborted or reset, and answers come for just these until a request fails.
THEOREM PendingStaysCounted == Spec => []PendingCounted
<1>1. Inv /\ ShownInv => PendingCounted
  BY DEF Inv, Good, Counted, ShownInv, Awaited, PendingCounted
<1> QED
  BY <1>1, Invariance, ShownInvariance, PTL

\* A form goes out only if every input in force is what its attributes declare.
THEOREM AcceptedOnlyAsDeclared == Spec => []AcceptedAsDeclared
<1>1. ShownInv => AcceptedAsDeclared
  BY DEF ShownInv
<1> QED
  BY <1>1, ShownInvariance, PTL

\* What an input shows is what the validator has it down for, unless an answer is awaited.
THEOREM ErrorsAreShown == Spec => []ErrorsShown
<1>1. ShownInv => ErrorsShown
  BY DEF ShownInv, Shown, ErrorsShown
<1> QED
  BY <1>1, ShownInvariance, PTL

\* An error appears only at an input that breaks what its attributes declare or that
\* the server has refused.
THEOREM ErrorsHaveCauses == Spec => ErrorsHaveACause
<1>1. Inv /\ ShownInv /\ [Next]_vars =>
        [\A f \in Fields :
           validator'.container[f] = "error" /\ validator.container[f] = "valid" =>
             \/ ~ Declared(page.dataVal[f], value', f)
             \/ verdict'[f] # None /\ ~ verdict'[f].ok]_vars
  BY NextShown DEF Cause, Caused
<1> QED
  BY <1>1, Invariance, ShownInvariance, PTL DEF Spec, ErrorsHaveACause
=============================================================================
