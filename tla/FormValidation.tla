--------------------------- MODULE FormValidation ---------------------------
(***************************************************************************)
(* One form of a page under unobtrusive validation: the handlers that      *)
(* jquery.validate.unobtrusive.js and jquery.validate.js attach to it, the *)
(* remote checks they start and the answers that come back.                *)
(*                                                                         *)
(* The page loads, its inputs are parsed and the validator is attached;    *)
(* the user then types, leaves inputs, resets and submits while answers    *)
(* are on their way.  Handlers run to completion, one at a time.  They     *)
(* call one another, so each function of the code is an operator on the    *)
(* validator's fields, validator, here a record.                           *)
(*                                                                         *)
(* Every input has a name of its own and a message container.  Highlights, *)
(* labels and focus are layout and left out.                               *)
(***************************************************************************)
EXTENDS UnobtrusiveAdapters, FiniteSets

CONSTANTS
    None,        \* no value, no request
    MaxEdits,    \* bound: changes of values in the life of a page
    MaxLost      \* bound: requests that fail in the life of a page

VARIABLES
    page,        \* the page that is shown
    present,     \* its inputs that are in the document so far
    value,       \* what each input holds
    options,     \* per input, options.rules: what parse has made of it
    settings,    \* per input, settings.rules: what the validator goes by
    validator,   \* the validator of the form, its requests and what it shows
    posted,      \* the browser has sent the form
    verdict,     \* history: per input, the last answer of the server
    undisturbed, \* history: no input has changed since the last click on submit
    edits, lost  \* counters of the bounds

vars == <<page, present, value, options, settings, validator, posted,
          verdict, undisturbed, edits, lost>>

\* A value as it is sent: a box that is not checked sends its hidden companion.
Sent(val, g) == IF g \in Checkable /\ val[g] = Empty THEN Unchecked ELSE val[g]

Data == UNION {[D -> Values] : D \in SUBSET Fields}

Request == [data : Data, live : BOOLEAN]

Validator ==
    [attached : BOOLEAN,
     submitted : SUBSET Fields,
     invalid : [Fields -> {"absent", "true", "false"}],
     errorMap : SUBSET Fields,
     successList : SUBSET Fields,
     pending : SUBSET Fields,
     pendingRequest : Nat,
     formSubmitted : BOOLEAN,
     previousValue : [Fields -> [old : Data \cup {None}, valid : BOOLEAN]],
     inflight : [Fields -> Request \cup {None}],
     blurTarget : [Fields -> Fields \cup {None}],  \* whom to recheck on blur
     container : [Fields -> {"valid", "error"}],
     summary : SUBSET Fields]             \* whose messages the summary lists

\* The inputs of a page are fields, and so are the inputs it starts with.
ASSUME PagesAssumption ==
    /\ IsFiniteSet(Fields)
    /\ Unchecked \in Values
    /\ \A p \in Pages : /\ p.loaded \subseteq DOMAIN p.dataVal
                        /\ DOMAIN p.dataVal \subseteq Fields
                        /\ p.initial \in [Fields -> Values]

\* jquery.validate.js has a method for every rule: not so for a credit card or the
\* extension of a file, and not for a minlength attribute with a maximum.
ASSUME MethodsAssumption ==
    \A p \in Pages : \A f \in DOMAIN p.dataVal :
        \A i \in DOMAIN parseElement(p.dataVal[f], f) :
            parseElement(p.dataVal[f], f)[i].rule \in Methods

\* None is none of the values that it stands in for.
ASSUME NoneAssumption == None \notin Data \cup [data : Data, ok : BOOLEAN] \cup Request

ASSUME BoundsAssumption == MaxEdits \in Nat /\ MaxLost \in Nat

(***************************************************************************)
(* Checking                                                                *)
(***************************************************************************)

\* The inputs that have rules.
elements == {f \in Fields : settings[f] # <<>>}

Failing(val, f) == {i \in DOMAIN settings[f] : ~ method(settings[f][i], val, f)}

\* The rules that are tried: up to the first that fails.
Tried(val, f) ==
    {settings[f][i] : i \in {j \in DOMAIN settings[f] :
                               \A k \in Failing(val, f) : j <= k}}

RemoteRules(f) ==
    {r \in {settings[f][i] : i \in DOMAIN settings[f]} : r.rule = "remote"}

\* The value of the field and of those that go with it.
OptionData(val, f) ==
    [g \in {f} \cup (Fields \cap UNION {r.param : r \in RemoteRules(f)}) |-> Sent(val, g)]

\* A lone rule that an empty field need not follow says nothing of it.
DependencyMismatch(val, f) ==
    \/ settings[f] = <<>>
    \/ /\ Len(settings[f]) = 1
       /\ settings[f][1].rule \notin Insistent
       /\ optional(val, f)

\* Mutant: an answer that has not come yet, or is for another value, will do.
AnyAnswerWillDo(v, val, f) ==
    IF Failing(val, f) # {} THEN "bad"
    ELSE IF RemoteRules(f) # {} /\ ~ optional(val, f)
      THEN IF v.previousValue[f].old # None
             THEN IF v.previousValue[f].valid THEN "good" ELSE "bad"
             ELSE "pending"
    ELSE IF DependencyMismatch(val, f) THEN "none"
    ELSE "good"

\* What check says of a field: "none" leaves what is shown as it is.
check(v, val, f) ==
    IF Failing(val, f) # {} THEN "bad"
    ELSE IF RemoteRules(f) # {} /\ ~ optional(val, f)
      THEN IF v.previousValue[f].old = OptionData(val, f)
             THEN IF v.previousValue[f].valid THEN "good" ELSE "bad"
             ELSE "pending"
    ELSE IF DependencyMismatch(val, f) THEN "none"
    ELSE "good"

\* Mutant: every request is counted, also one that replaces another.
CountEveryRequest(v, S) == v.pendingRequest + Cardinality(S)

\* pendingRequest counts fields, not requests.
startRequest(v, S) == v.pendingRequest + Cardinality(S \ v.pending)

\* The first check of an equalTo rule makes the other field recheck this one.
Binding(val, S, t) ==
    {f \in S : \E r \in Tried(val, f) : r.rule = "equalTo" /\ r.param = t}

\* prepareForm or prepareElement, and the check of the fields in S.  A request
\* aborts the one before it for the same field.
Checked(v, val, S) ==
    LET result == [f \in S |-> check(v, val, f)]
        bad    == {f \in S : result[f] = "bad"}
        asks   == {f \in S : result[f] = "pending"}
    IN  [v EXCEPT
           !.errorMap = bad,
           !.submitted = @ \cup bad,
           !.successList = {f \in S : result[f] = "good"},
           !.pending = @ \cup asks,
           !.pendingRequest = startRequest(v, asks),
           !.previousValue = [f \in Fields |->
              IF f \in asks THEN [@[f] EXCEPT !.old = OptionData(val, f)] ELSE @[f]],
           !.inflight = [f \in Fields |->
              IF f \in asks THEN [data |-> OptionData(val, f), live |-> TRUE] ELSE @[f]],
           !.blurTarget = [t \in Fields |->
              IF @[t] = None /\ Binding(val, S, t) # {}
                THEN CHOOSE f \in Binding(val, S, t) : TRUE ELSE @[t]]]

\* The containers of the inputs in S get a message, or lose it.
onError(container, S) == [f \in Fields |-> IF f \in S THEN "error" ELSE container[f]]

onSuccess(container, S) == [f \in Fields |-> IF f \in S THEN "valid" ELSE container[f]]

\* defaultShowErrors: onError for each error, then onError and onSuccess for
\* each success.  A label is never found again, for onError takes the class off
\* it that errorsFor looks for; every time a new one goes into the container.
showErrors(v) ==
    [v EXCEPT !.container =
        onSuccess(onError(@, v.errorMap \cup v.successList), v.successList)]

\* invalid-form: the summary lists the errors there are.
onErrors(v) ==
    [v EXCEPT !.summary = IF v.errorMap = {} THEN @ ELSE v.errorMap]

element(v, val, f) ==
    LET w == Checked(v, val, {f})
    IN  showErrors([w EXCEPT !.invalid[f] = IF f \in w.errorMap THEN "true" ELSE "false"])

form(v, val) ==
    LET w == Checked(v, val, elements)
        x == [w EXCEPT !.invalid = [f \in Fields |->
                 IF f \in w.errorMap THEN "true" ELSE "absent"]]
    IN  showErrors(IF x.errorMap = {} THEN x ELSE onErrors(x))

valid(v) == v.errorMap = {}

(***************************************************************************)
(* The handlers                                                            *)
(***************************************************************************)

\* Mutant: a submission does not wait for remote checks.
SubmitAtOnce(w) == valid(w)

\* The submit handler, after form() has left w: whether it lets the form go, and
\* what it leaves behind.
handle(w) == valid(w) /\ w.pendingRequest = 0

submit(w) ==
    [w EXCEPT !.formSubmitted = @ \/ (valid(w) /\ w.pendingRequest > 0)]

\* Mutant: the response is kept as the verdict, also one that is a message (None).
KeepResponse(v, f, ok) ==
    [v EXCEPT !.errorMap = IF ok THEN {} ELSE @ \cup {f},
              !.successList = IF ok THEN {f} ELSE @ \ {f},
              !.previousValue[f].valid = IF ok THEN TRUE ELSE None,
              !.inflight[f] = None]

\* The callback of an answer, up to the call of stopRequest.  After a reset it
\* writes its verdict into an object that no input refers to any more.
success(v, f, ok) ==
    LET w == IF ok
               THEN [v EXCEPT !.errorMap = {}, !.successList = {f}, !.invalid[f] = "false"]
               ELSE [v EXCEPT !.errorMap = @ \cup {f}, !.successList = @ \ {f},
                              !.invalid[f] = "true"]
    IN  [showErrors(w) EXCEPT
           !.previousValue[f].valid = IF v.inflight[f].live THEN ok ELSE @,
           !.inflight[f] = None]

Stopped(v, f) ==
    [v EXCEPT !.pendingRequest = IF @ = 0 THEN 0 ELSE @ - 1, !.pending = @ \ {f}]

\* Mutant: the form that waited is checked but not submitted.
ForgetSubmission(w, val, ok) ==
    IF w.pendingRequest = 0 /\ w.formSubmitted
      THEN <<[form(w, val) EXCEPT !.formSubmitted = FALSE], FALSE>>
      ELSE <<w, FALSE>>

\* What stopRequest does once the request no longer counts.  A good answer that was
\* the last one checks the form again and submits it, which runs the submit handler
\* and with it form() once more.  The second component says whether the form goes.
stopRequest(w, val, ok) ==
    LET last  == w.pendingRequest = 0 /\ w.formSubmitted
        x     == form(w, val)
        again == form(x, val)
    IN  IF ~ last THEN <<w, FALSE>>
        ELSE IF ~ ok THEN <<[onErrors(w) EXCEPT !.formSubmitted = FALSE], FALSE>>
        ELSE IF ~ valid(x) THEN <<x, FALSE>>
        ELSE <<[submit(again) EXCEPT !.formSubmitted = FALSE], handle(again)>>

\* onReset and resetForm.  Requests under way, and a submission that waits for
\* them, are not touched.
onReset(v) ==
    [v EXCEPT
       !.invalid = [f \in Fields |-> "absent"], !.submitted = {},
       !.errorMap = {}, !.successList = {}, !.summary = {},
       !.container = [f \in Fields |-> "valid"],
       !.previousValue = [f \in Fields |->
           IF f \in elements THEN [old |-> None, valid |-> TRUE] ELSE @[f]],
       !.inflight = [f \in Fields |->
           IF f \in elements /\ @[f] # None THEN [@[f] EXCEPT !.live = FALSE] ELSE @[f]]]

onkeyup(v, val, f) ==
    IF f \in v.submitted \/ v.invalid[f] # "absent" THEN element(v, val, f) ELSE v

onclick(v, val, f) == IF f \in v.submitted THEN element(v, val, f) ELSE v

\* The handler of the equalTo method runs first, at the blur event.
onfocusout(v, val, f) ==
    LET w == IF v.blurTarget[f] = None THEN v ELSE element(v, val, v.blurTarget[f])
    IN  IF f \notin Checkable /\ (f \in w.submitted \/ ~ optional(val, f))
          THEN element(w, val, f) ELSE w

\* What parse makes of the inputs it is given.
Parsed(p, inputs) ==
    [f \in Fields |-> IF f \in inputs THEN InOrder(parseElement(p.dataVal[f], f)) ELSE <<>>]

(***************************************************************************)
(* Specification                                                           *)
(***************************************************************************)

\* A form without inputs to validate gets no validator.
Fresh(inputs) ==
    [attached |-> inputs # {}, submitted |-> {},
     invalid |-> [f \in Fields |-> "absent"], errorMap |-> {}, successList |-> {},
     pending |-> {}, pendingRequest |-> 0, formSubmitted |-> FALSE,
     previousValue |-> [f \in Fields |-> [old |-> None, valid |-> TRUE]],
     inflight |-> [f \in Fields |-> None],
     blurTarget |-> [f \in Fields |-> None],
     container |-> [f \in Fields |-> "valid"], summary |-> {}]

Init ==
    /\ page \in Pages
    /\ present = page.loaded
    /\ value = [f \in Fields |-> page.initial[f]]
    /\ options = Parsed(page, present)
    /\ settings = options
    /\ validator = Fresh(present)
    /\ posted = FALSE
    /\ verdict = [f \in Fields |-> None]
    /\ undisturbed = FALSE
    /\ edits = 0
    /\ lost = 0

\* The answer to a submission, or a reload, is a page from the start.
Load ==
    /\ posted
    /\ page' \in Pages
    /\ present' = page'.loaded
    /\ value' = [f \in Fields |-> page'.initial[f]]
    /\ options' = Parsed(page', present')
    /\ settings' = options'
    /\ validator' = Fresh(present')
    /\ posted' = FALSE
    /\ verdict' = [f \in Fields |-> None]
    /\ undisturbed' = FALSE
    /\ edits' = 0
    /\ lost' = 0

\* validate makes the settings a copy of the options, once: it returns the
\* validator that is there and drops what it is given.
attachValidation(old) == IF validator.attached THEN old ELSE options'

\* A script adds the rest of the page's inputs and parses them.
Insert ==
    /\ ~ posted
    /\ present # DOMAIN page.dataVal
    /\ present' = DOMAIN page.dataVal
    /\ options' = [f \in Fields |-> IF f \in present THEN options[f]
                                    ELSE Parsed(page, present')[f]]
    /\ settings' = attachValidation(settings)
    /\ validator' = [validator EXCEPT !.attached = TRUE]
    /\ UNCHANGED <<page, value, posted, verdict, undisturbed, edits, lost>>

Edit(f, x) ==
    /\ ~ posted
    /\ f \in present
    /\ x # value[f]
    /\ f \in Checkable => x \in {Empty, Ticked}
    /\ edits < MaxEdits
    /\ edits' = edits + 1
    /\ value' = [value EXCEPT ![f] = x]
    /\ undisturbed' = FALSE
    /\ UNCHANGED <<page, present, options, settings, posted, verdict, lost>>

Type(f, x) ==
    /\ Edit(f, x)
    /\ validator' = IF validator.attached
                      THEN IF f \in Checkable THEN onclick(validator, value', f)
                                              ELSE onkeyup(validator, value', f)
                      ELSE validator

\* A key that changes nothing, such as Enter.
Key(f) ==
    /\ ~ posted
    /\ validator.attached
    /\ f \in present
    /\ validator' = onkeyup(validator, value, f)
    /\ UNCHANGED <<page, present, value, options, settings, posted, verdict,
                   undisturbed, edits, lost>>

\* Filled in by the browser or pasted with the mouse: no key event.
Fill(f, x) ==
    /\ Edit(f, x)
    /\ f \notin Checkable
    /\ UNCHANGED validator

Leave(f) ==
    /\ ~ posted
    /\ validator.attached
    /\ f \in present
    /\ validator' = onfocusout(validator, value, f)
    /\ UNCHANGED <<page, present, value, options, settings, posted, verdict,
                   undisturbed, edits, lost>>

\* The submit button; without a validator nothing holds the form back.
Submit ==
    /\ ~ posted
    /\ IF validator.attached
         THEN LET w == form(validator, value)
              IN  validator' = submit(w) /\ posted' = handle(w)
         ELSE posted' = TRUE /\ UNCHANGED validator
    /\ undisturbed' = TRUE
    /\ UNCHANGED <<page, present, value, options, settings, verdict, edits, lost>>

\* The validate function that scripts call.
Validate ==
    /\ ~ posted
    /\ validator.attached
    /\ validator' = form(validator, value)
    /\ UNCHANGED <<page, present, value, options, settings, posted, verdict,
                   undisturbed, edits, lost>>

Reset ==
    /\ ~ posted
    /\ validator.attached
    /\ validator' = onReset(validator)
    /\ value' = [f \in Fields |-> page.initial[f]]
    /\ undisturbed' = FALSE
    /\ UNCHANGED <<page, present, options, settings, posted, verdict, edits, lost>>

\* The server's answer about the data it was sent, whatever it is.
Answer(f, ok) ==
    /\ ~ posted
    /\ validator.inflight[f] # None
    /\ LET done == stopRequest(Stopped(success(validator, f, ok), f), value, ok)
       IN  validator' = done[1] /\ posted' = done[2]
    /\ verdict' = [verdict EXCEPT ![f] = [data |-> validator.inflight[f].data, ok |-> ok]]
    /\ UNCHANGED <<page, present, value, options, settings, undisturbed, edits, lost>>

\* A request fails: there is no handler for that.
Fail(f) ==
    /\ ~ posted
    /\ validator.inflight[f] # None
    /\ lost < MaxLost
    /\ lost' = lost + 1
    /\ validator' = [validator EXCEPT !.inflight[f] = None]
    /\ UNCHANGED <<page, present, value, options, settings, posted, verdict, undisturbed, edits>>

Next ==
    \/ Load \/ Insert \/ Submit \/ Validate \/ Reset
    \/ \E f \in Fields :
          \/ Leave(f) \/ Key(f)
          \/ Fail(f)
          \/ \E x \in Values : Type(f, x) \/ Fill(f, x)
          \/ \E ok \in BOOLEAN : Answer(f, ok)

\* The server answers what it is asked; users do as they like.
Fairness == \A f \in Fields : WF_vars(\E ok \in BOOLEAN : Answer(f, ok))

Spec == Init /\ [][Next]_vars /\ Fairness

(***************************************************************************)
(* Properties                                                              *)
(***************************************************************************)

TypeOK ==
    /\ page \in Pages
    /\ present \subseteq Fields
    /\ value \in [Fields -> Values]
    /\ DOMAIN options = Fields
    /\ DOMAIN settings = Fields
    /\ validator \in Validator
    /\ posted \in BOOLEAN
    /\ verdict \in [Fields -> [data : Data, ok : BOOLEAN] \cup {None}]
    /\ undisturbed \in BOOLEAN
    /\ edits \in 0 .. MaxEdits
    /\ lost \in 0 .. MaxLost

\* The count that holds a submission back is the number of fields that wait for
\* an answer, and answers come for just these, aborted requests and resets
\* notwithstanding: for no other field, and until a request fails for every one, so
\* that no submission waits in vain.  (startRequest, stopRequest)
PendingCounted ==
    /\ validator.pendingRequest = Cardinality(validator.pending)
    /\ \A f \in Fields : validator.inflight[f] # None => f \in validator.pending
    /\ lost = 0 => \A f \in validator.pending : validator.inflight[f] # None

\* A form goes out only if every input in force is what its attributes declare.
\* (parseElement and the adapters, check, the submit handler)
AcceptedAsDeclared ==
    posted => \A f \in elements : Declared(page.dataVal[f], value, f)

\* A form goes out only after the server has accepted the values of its remote
\* inputs as they are now: not earlier values, not before a reset, and not a check
\* that has yet to be answered or whose request failed.  (remote, stopRequest)
AcceptedAsAnswered ==
    posted => \A f \in elements :
        RemoteRules(f) # {} /\ ~ optional(value, f) =>
            verdict[f] = [data |-> OptionData(value, f), ok |-> TRUE]

\* Unless an answer is awaited, an input in force shows an error exactly if the
\* validator has it down as invalid: a field that was emptied, a form that was
\* reset or checked as a whole, and a late answer included.  (showErrors, onError,
\* onSuccess, onReset)
ErrorsShown ==
    \A f \in elements \ validator.pending :
        validator.container[f] = "error" <=> validator.invalid[f] = "true"

\* An error appears only at an input that breaks what its attributes declare or
\* that the server refused: validation in the browser is no stricter than that of
\* the model.
ErrorsHaveACause ==
    [][\A f \in Fields :
         validator'.container[f] = "error" /\ validator.container[f] = "valid" =>
           \/ ~ Declared(page.dataVal[f], value', f)
           \/ verdict'[f] # None /\ ~ verdict'[f].ok]_vars

\* A submission that waits for the server is decided: it goes out, or the summary
\* lists an input that shows an error, unless an input changes meanwhile or a request
\* fails.  (submit handler, stopRequest)
SubmissionsDecided ==
    (validator.formSubmitted /\ validator.pendingRequest > 0 /\ undisturbed /\ lost = 0)
      ~> (\/ posted \/ ~ undisturbed \/ lost > 0
          \/ \E f \in validator.summary : validator.container[f] = "error")
=============================================================================
