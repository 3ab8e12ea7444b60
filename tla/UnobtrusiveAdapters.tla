------------------------- MODULE UnobtrusiveAdapters -------------------------
(***************************************************************************)
(* The adapters of jquery.validate.unobtrusive.js, which turn the data-val *)
(* attributes of an input into rules of jQuery Validate, and the methods   *)
(* of jquery.validate.js that decide those rules.                          *)
(*                                                                         *)
(* An input goes by its name, a sequence of segments: <<"Input", "Email">> *)
(* is Input.Email.  What a value is made of is left out: Facts tells its   *)
(* length, its number of non-word characters, the number it reads as, the  *)
(* formats it has and, for a pattern, where the first match begins and how *)
(* long it is.  The wording of messages is left out too.                   *)
(***************************************************************************)
EXTENDS Integers, SequencesExt

CONSTANTS
    Fields,      \* the names of inputs
    Checkable,   \* the inputs that are check boxes
    Values,      \* what an input can hold
    Empty,       \* the empty value; also that of a box that is not ticked
    Ticked,      \* the value of a box that is
    Unchecked,   \* what the hidden companion of a box holds
    Facts,       \* [Values -> what the methods tell values apart by]
    Pages        \* pages: their inputs, with the data-val attributes of each

(***************************************************************************)
(* Names                                                                   *)
(***************************************************************************)

\* A name stands for itself in a selector, whatever characters it is made of.
escapeAttributeValue(name) == {f \in Fields : f = name}

getModelPrefix(name) == Front(name)

appendModelPrefix(name, prefix) ==
    IF name[1] = "*" THEN prefix \o Tail(name) ELSE name

(***************************************************************************)
(* Rules.  A JavaScript object keeps its properties in the order in which  *)
(* they were first set, and jQuery Validate tries them in that order.      *)
(***************************************************************************)

setValidationValues(rules, ruleName, value) ==
    IF \E i \in DOMAIN rules : rules[i].rule = ruleName
      THEN [i \in DOMAIN rules |->
              IF rules[i].rule = ruleName THEN [rules[i] EXCEPT !.param = value]
                                          ELSE rules[i]]
      ELSE Append(rules, [rule |-> ruleName, param |-> value])

(***************************************************************************)
(* The registry.  An adapter has a name, a way to adapt, and the names of  *)
(* the rules it sets and of the parameters it reads.                       *)
(***************************************************************************)

add(name, adapt, ruleNames, params) ==
    [name |-> name, adapt |-> adapt, ruleNames |-> ruleNames, params |-> params]

addBool(name) == add(name, "bool", <<name>>, <<>>)

addMinMax(name, minRule, maxRule, minMaxRule) ==
    add(name, "minmax", <<minRule, maxRule, minMaxRule>>, <<"min", "max">>)

addSingleVal(name, attribute, ruleName) ==
    add(name, "single", <<ruleName>>, <<attribute>>)

\* There is no method "extension" unless additional-methods.js is loaded, which
\* the page's scripts do not.
adapters ==
    << addSingleVal("extension", "extension", "accept"),
       addSingleVal("regex", "pattern", "regex"),
       addBool("creditcard"), addBool("date"), addBool("digits"),
       addBool("email"), addBool("number"), addBool("url"),
       addMinMax("length", "minlength", "maxlength", "rangelength"),
       addMinMax("range", "min", "max", "range"),
       addMinMax("minlength", "minlength", "undefined", "undefined"),
       addMinMax("maxlength", "minlength", "maxlength", "undefined"),
       add("equalto", "equalto", <<"equalTo">>, <<"other">>),
       add("required", "required", <<"required">>, <<>>),
       add("remote", "remote", <<"remote">>, <<"additionalfields">>),
       add("password", "password", <<"minlength", "nonalphamin", "regex">>,
           <<"min", "nonalphamin", "regex">>),
       addSingleVal("fileextensions", "extensions", "extension") >>

\* One rule, or one of three rules, of the adapter's parameters.
AdaptSingleVal(a, given, rules) ==
    setValidationValues(rules, a.ruleNames[1], given[a.params[1]])

AdaptMinMax(a, given, rules) ==
    IF {"min", "max"} \subseteq DOMAIN given
      THEN setValidationValues(rules, a.ruleNames[3], <<given["min"], given["max"]>>)
    ELSE IF "min" \in DOMAIN given
      THEN setValidationValues(rules, a.ruleNames[1], given["min"])
    ELSE IF "max" \in DOMAIN given
      THEN setValidationValues(rules, a.ruleNames[2], given["max"])
    ELSE rules

AdaptEqualTo(f, given, rules) ==
    LET fullOtherName == appendModelPrefix(given["other"], getModelPrefix(f))
    IN  setValidationValues(rules, "equalTo",
                            CHOOSE e \in escapeAttributeValue(fullOtherName) : TRUE)

\* Mutant: a check box must be checked where it is only required to be sent.
AdaptRequiredAlways(f, rules) == setValidationValues(rules, "required", TRUE)

AdaptRequired(f, rules) ==
    IF f \in Checkable THEN rules ELSE setValidationValues(rules, "required", TRUE)

\* The names whose values go with the request; by default the field's own.
splitAndTrim(given, f) ==
    IF "additionalfields" \in DOMAIN given THEN given["additionalfields"] ELSE {f}

AdaptRemote(f, given, rules) ==
    LET names == {appendModelPrefix(n, getModelPrefix(f)) : n \in splitAndTrim(given, f)}
    IN  setValidationValues(rules, "remote", UNION {escapeAttributeValue(n) : n \in names})

AdaptPassword(a, given, rules) ==
    LET Set(rs, i) == IF a.params[i] \in DOMAIN given
                        THEN setValidationValues(rs, a.ruleNames[i], given[a.params[i]])
                        ELSE rs
    IN  Set(Set(Set(rules, 1), 2), 3)

Adapt(a, f, given, rules) ==
    CASE a.adapt = "bool"     -> setValidationValues(rules, a.ruleNames[1], TRUE)
      [] a.adapt = "single"   -> AdaptSingleVal(a, given, rules)
      [] a.adapt = "minmax"   -> AdaptMinMax(a, given, rules)
      [] a.adapt = "equalto"  -> AdaptEqualTo(f, given, rules)
      [] a.adapt = "required" -> AdaptRequired(f, rules)
      [] a.adapt = "remote"   -> AdaptRemote(f, given, rules)
      [] a.adapt = "password" -> AdaptPassword(a, given, rules)

AdaptIfPresent(a, attributes, f, rules) ==
    IF a.name \in DOMAIN attributes THEN Adapt(a, f, attributes[a.name], rules) ELSE rules

\* The adapters adapt in the order of their registration.
Adapted(attributes, f) ==
    LET after[k \in 0 .. Len(adapters)] ==
            IF k = 0 THEN <<>> ELSE AdaptIfPresent(adapters[k], attributes, f, after[k - 1])
    IN  after[Len(adapters)]

\* What an adapter sets by itself.
OwnRules(a, attributes, f) == Range(AdaptIfPresent(a, attributes, f, <<>>))

\* Mutant: the rule that never fails is not added.
parseWithoutDummy(attributes, f) == Adapted(attributes, f)

\* attributes maps the adapters the input has an attribute of to the parameters
\* that are given (an empty parameter counts as none).
parseElement(attributes, f) ==
    setValidationValues(Adapted(attributes, f), "__dummy__", TRUE)

\* Where a rule stands, if it is there: at one place.
PlaceOf(name, rules) == {i \in DOMAIN rules : rules[i].rule = name}

ToFront(name, rules) ==
    IF PlaceOf(name, rules) = {} THEN rules
    ELSE LET i == CHOOSE i \in PlaceOf(name, rules) : TRUE
         IN  <<rules[i]>> \o RemoveAt(rules, i)

ToBack(name, rules) ==
    IF PlaceOf(name, rules) = {} THEN rules
    ELSE LET i == CHOOSE i \in PlaceOf(name, rules) : TRUE
         IN  RemoveAt(rules, i) \o <<rules[i]>>

\* jQuery Validate tries "required" first and "remote" last.
InOrder(rules) == ToBack("remote", ToFront("required", rules))

(***************************************************************************)
(* The methods.  A method that a field may leave empty says of an empty    *)
(* one that the rule does not apply, "dependency-mismatch".                *)
(***************************************************************************)

Insistent == {"required", "equalTo", "nonalphamin", "__dummy__"}

Methods ==
    Insistent \cup {"remote", "regex", "minlength", "maxlength", "rangelength", "min", "max",
                    "range", "date", "digits", "email", "number", "url"}

optional(value, f) == value[f] = Empty

\* Mutant: the pattern may match anywhere in the value.
RegexAnywhere(x, pattern) == pattern \in DOMAIN Facts[x].match

regex(x, pattern) ==
    /\ pattern \in DOMAIN Facts[x].match
    /\ Facts[x].match[pattern] = [index |-> 0, length |-> Facts[x].length]

\* Without a single match there is nothing to count: never true.
nonalphamin(x, least) == Facts[x].nonword > 0 /\ Facts[x].nonword >= least

\* A required value, a bound or a format; "remote" is decided by the server.
method(r, value, f) ==
    LET x == value[f] IN
    \/ r.rule \notin Insistent /\ optional(value, f)
    \/ CASE r.rule \in {"__dummy__", "remote"} -> TRUE
         [] r.rule = "required"    -> x # Empty
         [] r.rule = "equalTo"     -> x = value[r.param]
         [] r.rule = "nonalphamin" -> nonalphamin(x, r.param)
         [] r.rule = "regex"       -> regex(x, r.param)
         [] r.rule = "minlength"   -> Facts[x].length >= r.param
         [] r.rule = "maxlength"   -> Facts[x].length <= r.param
         [] r.rule = "rangelength" -> Facts[x].length \in r.param[1] .. r.param[2]
         [] r.rule = "min"         -> Facts[x].number >= r.param
         [] r.rule = "max"         -> Facts[x].number <= r.param
         [] r.rule = "range"       -> Facts[x].number \in r.param[1] .. r.param[2]
         [] OTHER                  -> r.rule \in Facts[x].formats

(***************************************************************************)
(* What the attributes of an input declare, said without adapters: what    *)
(* the attributes of the model class mean on the server.                   *)
(***************************************************************************)

Within(n, given) == /\ "min" \in DOMAIN given => n >= given["min"]
                    /\ "max" \in DOMAIN given => n <= given["max"]

Whole(x, pattern) == /\ pattern \in DOMAIN Facts[x].match
                     /\ Facts[x].match[pattern].index = 0
                     /\ Facts[x].match[pattern].length = Facts[x].length

\* The field an attribute refers to: of the same model, or by its full name.
Sibling(f, name) == CHOOSE g \in Fields :
    IF name[1] = "*" THEN Front(g) = Front(f) /\ Last(g) = name[2] ELSE g = name

Means(a, given, value, f) ==
    LET x == value[f] IN
    CASE a = "required" -> f \in Checkable \/ x # Empty
      [] a = "equalto"  -> x = value[Sibling(f, given["other"])]
      [] a \in {"length", "minlength", "maxlength"} -> x = Empty \/ Within(Facts[x].length, given)
      [] a = "range"    -> x = Empty \/ Within(Facts[x].number, given)
      [] a = "regex"    -> x = Empty \/ Whole(x, given["pattern"])
      [] a = "password" ->
           /\ "min" \in DOMAIN given => x = Empty \/ Facts[x].length >= given["min"]
           /\ "nonalphamin" \in DOMAIN given => Facts[x].nonword >= given["nonalphamin"]
           /\ "regex" \in DOMAIN given => x = Empty \/ Whole(x, given["regex"])
      [] a = "remote"   -> TRUE
      [] OTHER          -> x = Empty \/ a \in Facts[x].formats

Declared(attributes, value, f) ==
    \A a \in DOMAIN attributes : Means(a, attributes[a], value, f)

(***************************************************************************)
(* What the page is taken to give.                                         *)
(***************************************************************************)

ASSUME FieldsAssumption == \A f \in Fields : f \in Seq(STRING) /\ Len(f) > 0

ASSUME FactsAssumption ==
    \A x \in Values :
        /\ Facts[x].length \in Nat /\ Facts[x].nonword \in Nat /\ Facts[x].number \in Int
        /\ \A pattern \in DOMAIN Facts[x].match :
               Facts[x].match[pattern] \in [index : Nat, length : Nat]

\* Bounds are numbers, and what a password needs some of is not none; the other field
\* is there, by its full name or as "*." and a name.
WellFormed(a, given, f) ==
    /\ a \in {"length", "minlength", "maxlength", "range"} =>
           \A bound \in {"min", "max"} \cap DOMAIN given : given[bound] \in Int
    /\ a = "password" /\ "nonalphamin" \in DOMAIN given => given["nonalphamin"] \in Nat \ {0}
    /\ a = "equalto" =>
           /\ given["other"] \in Seq(STRING) /\ Len(given["other"]) > 0
           /\ given["other"][1] = "*" => Len(given["other"]) = 2
           /\ appendModelPrefix(given["other"], getModelPrefix(f)) \in Fields

\* Adapters that set the same rule agree: otherwise the last of them has its way.
Agreeing(attributes, f) ==
    \A k, m \in DOMAIN adapters :
        \A r \in OwnRules(adapters[k], attributes, f), s \in OwnRules(adapters[m], attributes, f) :
            r.rule = s.rule => r = s

ASSUME DeclarationsAssumption ==
    \A p \in Pages : \A f \in DOMAIN p.dataVal :
        /\ \A a \in DOMAIN p.dataVal[f] :
               /\ \E k \in DOMAIN adapters : adapters[k].name = a
               /\ WellFormed(a, p.dataVal[f][a], f)
        /\ Agreeing(p.dataVal[f], f)
=============================================================================
