----------------------------- MODULE Validation -----------------------------
(***************************************************************************)
(* One form of a portal page under jQuery Validate, as the unobtrusive     *)
(* library sets it up: the ready handler parses the inputs and attaches a  *)
(* validator; typing, leaving a field, hiding and showing inputs,          *)
(* submitting, resetting and the answers to remote checks drive it until   *)
(* the form is sent.                                                       *)
(*                                                                         *)
(* A value is empty, good, one that a local rule rejects ("bad") or one    *)
(* that only the server rejects ("taken").  A message is there or not: its *)
(* wording is left out, and so are focus and the classes of the inputs.    *)
(* Disabled inputs, which no browser sends, are left out too.              *)
(***************************************************************************)
EXTENDS Adapters

CONSTANTS
    Field, Input,       \* the inputs of the form: Field -> markup (Adapters)
    Values,             \* Field -> what may be typed into it
    Below,              \* Field -> the inputs after it in the page
    Late,               \* the inputs that a script adds after the ready event
    Hideable,           \* the inputs that scripts hide and show
    Box,                \* Field -> data-valmsg-for element: "none", "keep", "replace"
    HasSummary,         \* is there a data-valmsg-summary list?
    SkipAttach,         \* how these scripts call parseElement
    HasBypass,          \* a button of class cancel, or with formnovalidate?
    EditLimit, LostLimit

Value == {"empty", "good", "bad", "taken"}

ASSUME ValidationAssumption ==
    /\ IsFiniteSet(Field)
    /\ Late \subseteq Field /\ Hideable \subseteq Field /\ SkipAttach \subseteq BOOLEAN
    /\ \A f \in Field : Values[f] \subseteq Value /\ Below[f] \subseteq Field \ {f}
    /\ EditLimit \in Nat /\ LostLimit \in Nat
    /\ HasSummary \in BOOLEAN /\ HasBypass \in BOOLEAN

\* The input that equalTo compares with is there from the start, and no other
\* input is compared with it.
Repeats(f) == "equalto" \in DOMAIN Input[f].attrs

ASSUME RepeatAssumption ==
    \A f \in Field : Repeats(f) =>
        /\ ~Input[f].checkbox /\ Input[f].other \in Field \ Late
        /\ \A g \in Field \ {f} : Repeats(g) => Input[g].other # Input[f].other

VARIABLES
    value,      \* what each input holds
    hidden,     \* the inputs that are not visible
    options,    \* Field -> the rules parsed so far
    form,       \* the validator and what the page shows of it
    concealed,  \* history: the inputs that have ever been hidden
    edits, lost

vars == <<value, hidden, options, form, concealed, edits, lost>>

\* unchecked: sent without a check.  interrupted: the answer that was to decide
\* the click threw.
Outcome == {"none", "waiting", "refused", "sent", "unchecked", "interrupted"}
Query == [Field -> Value \cup {"unasked"}]
Nothing == [f \in Field |-> "unasked"]
NoRules == [f \in Field |-> {}]

(* attached: a validator exists, with rules; submitted, invalid: the keys   *)
(* of these two maps; errorMap, successList: of the last check; previous:   *)
(* the last remote question and its verdict; flight: the question under     *)
(* way, own unless a reset has detached previous from it; bound: the fields *)
(* that leaving their equalTo input checks again; outcome: of the last      *)
(* click on submit.                                                         *)
Fresh == [attached |-> FALSE, rules |-> NoRules,
          submitted |-> {}, invalid |-> {}, errorMap |-> {}, successList |-> {},
          previous |-> [f \in Field |-> [old |-> Nothing, valid |-> TRUE]],
          flight |-> [f \in Field |-> [query |-> Nothing, own |-> FALSE]],
          pending |-> {}, pendingRequest |-> 0, formSubmitted |-> FALSE, bound |-> {},
          box |-> [f \in Field |-> [error |-> FALSE, text |-> FALSE]],
          summary |-> [error |-> FALSE, list |-> {}],
          outcome |-> "none"]

----------------------------------------------------------------------------
(* The rules.                                                               *)
Ruled(s) == {f \in Field : s.rules[f] # {}}

\* What form() checks, and resetForm() clears: not the inputs out of sight.
Elements(s) == Ruled(s) \ hidden

\* The methods of jQuery Validate, and those that the unobtrusive library adds:
\* none for the rules accept, extension, creditcard and Undefined.
Methods == {"required", "email", "url", "date", "dateISO", "number", "digits",
            "minlength", "maxlength", "rangelength", "min", "max", "range", "step",
            "equalTo", "remote", "__dummy__", "regex", "nonalphamin"}

\* Empty is fine unless required, or with nonalphamin, which does not ask.
Satisfies(f, rule) ==
    /\ rule \in Methods
    /\ CASE rule = "required"    -> value[f] # "empty"
         [] rule = "nonalphamin" -> value[f] \in {"good", "taken"}
         [] rule = "equalTo"     -> value[f] = value[Input[f].other]
         [] rule \in {"__dummy__", "remote"} -> TRUE
         [] OTHER                -> value[f] # "bad"

Passes(rules, f) == \A rule \in rules : Satisfies(f, rule)

\* The rules that check looks at before a rule of f.
Before(f, rules) ==
    [r \in rules |-> {q \in rules : Place(Input[f], q) < Place(Input[f], r)}]

Earlier == [f \in Field |-> Before(f, Copied(Parse(Input[f])))]

\* check stops at the first rule that fails.
Reached(s, f, rule) ==
    rule \in s.rules[f] /\ Passes(s.rules[f] \cap Earlier[f][rule], f)

\* check calls the method of a rule that has none.
Throws(s, f) == \E rule \in s.rules[f] \ Methods : Reached(s, f, rule)

Thrown(s, fields) == {f \in fields : Throws(s, f)}

\* The exception leaves the loop over the fields: those below are not checked.
Tried(s, fields) == fields \ UNION {Below[f] : f \in Thrown(s, fields)}
Checked(s, fields) == Tried(s, fields) \ Thrown(s, fields)

\* What the remote rule of f sends, built when it is asked.
Question(f) ==
    [g \in Field |-> IF g \in Input[f].fields \cup {f} THEN value[g] ELSE "unasked"]

\* The server's answer.
Accepts(query) == \A f \in Field : query[f] # "taken"

AsksServer(s, f) == "remote" \in s.rules[f] /\ value[f] # "empty" /\ Passes(s.rules[f], f)

----------------------------------------------------------------------------
(* Checking: every function maps the form to the form.                      *)

\* startRequest: ajax aborts the previous request of the field.  (Variant: a
\* field already pending is counted again.)
StartRequestsVariant(s, asked) ==
    [s EXCEPT !.pending = @ \cup asked, !.pendingRequest = @ + Cardinality(asked)]

StartRequests(s, asked) ==
    [s EXCEPT !.pending = @ \cup asked,
              !.pendingRequest = @ + Cardinality(asked \ s.pending)]

\* (Variant: a field with a verdict is not asked about again.)
ToAskVariant(s, fields) ==
    {f \in fields : AsksServer(s, f) /\ s.previous[f].old = Nothing}

ToAsk(s, fields) == {f \in fields : AsksServer(s, f) /\ s.previous[f].old # Question(f)}

Wrong(s, fields) ==
    {f \in fields : \/ ~Passes(s.rules[f], f)
                    \/ /\ AsksServer(s, f)
                       /\ s.previous[f].old = Question(f)
                       /\ ~s.previous[f].valid}

\* What check leaves of the fields that it has tried and come to the end of.
Marked(s, tried, checked) ==
    LET asked == ToAsk(s, checked)
        wrong == Wrong(s, checked)
    IN  [StartRequests(s, asked) EXCEPT
            !.errorMap = wrong,
            !.successList = (checked \cap Ruled(s)) \ (asked \cup wrong),
            !.submitted = @ \cup wrong,
            !.bound = @ \cup {f \in tried : Reached(s, f, "equalTo")},
            !.previous = [f \in Field |-> IF f \in asked THEN [@[f] EXCEPT !.old = Question(f)]
                                          ELSE @[f]],
            !.flight = [f \in Field |-> IF f \in asked
                                        THEN [query |-> Question(f), own |-> TRUE] ELSE @[f]]]

\* prepareForm or prepareElement, then check on each field.  A field that has no
\* rules is right, and joins no list.
Check(s, fields) == Marked(s, Tried(s, fields), Checked(s, fields))

----------------------------------------------------------------------------
(* Showing.                                                                 *)

\* A message is placed or removed only if the element's text may be replaced.
OnError(f, box) == [error |-> TRUE, text |-> Box[f] = "replace" \/ box.text]
OnSuccess(f, box) == [error |-> FALSE, text |-> Box[f] # "replace" /\ box.text]

ShowErrors(s) ==
    [s EXCEPT !.box = [f \in Field |->
        IF Box[f] = "none" THEN @[f]
        ELSE IF f \in s.successList THEN OnSuccess(f, @[f])
        ELSE IF f \in s.errorMap THEN OnError(f, @[f])
        ELSE @[f]]]

\* invalid-form: the list is replaced when there is something to list.
OnErrors(s) ==
    IF HasSummary /\ s.errorMap # {}
    THEN [s EXCEPT !.summary = [error |-> TRUE, list |-> s.errorMap]]
    ELSE s

\* (Variant: announced before the errors of this check are known.)
FormVariant(s) ==
    LET c == Check(OnErrors(s), Elements(s))
    IN  IF Thrown(s, Elements(s)) # {} THEN c
        ELSE ShowErrors([c EXCEPT !.invalid = c.errorMap])

Form(s) ==
    LET c == Check(s, Elements(s))
    IN  IF Thrown(s, Elements(s)) # {} THEN c
        ELSE ShowErrors(OnErrors([c EXCEPT !.invalid = c.errorMap]))

\* element() of one input, with rules or without, unless it is out of sight.
Element(s, f) ==
    LET c == Check(s, {f})
    IN  IF f \in hidden THEN [s EXCEPT !.invalid = @ \ {f}]
        ELSE IF Throws(s, f) THEN c
        ELSE ShowErrors([c EXCEPT !.invalid = @ \cup {f}])

\* What the submit handler makes of a check of the form: refused, waiting for the
\* server, or sent.  An exception leaves it before it can hold the form back.
Decided(c, thrown) ==
    IF thrown # {} THEN [c EXCEPT !.outcome = "unchecked"]
    ELSE IF c.errorMap # {} THEN [c EXCEPT !.outcome = "refused"]
    ELSE IF c.pendingRequest # 0
         THEN [c EXCEPT !.formSubmitted = TRUE, !.outcome = "waiting"]
    ELSE [c EXCEPT !.outcome = "sent"]

Submitted(s) == Decided(Form(s), Thrown(s, Elements(s)))

\* The check that an accepting last answer makes, and the submit that it triggers
\* (which checks again, to the same effect).  If it throws, the click stays
\* undecided.
Resubmitted(d, thrown) ==
    IF thrown # {} THEN [d EXCEPT !.outcome = "interrupted"]
    ELSE IF d.errorMap # {} THEN [d EXCEPT !.outcome = "refused"]
    ELSE IF d.pendingRequest # 0 THEN d
    ELSE [d EXCEPT !.formSubmitted = FALSE, !.outcome = "sent"]

\* The last answer decides a waiting click: a refusal is announced here.
\* (Variant: only an accepting answer ends the wait.)
StopRequestVariant(s, f, valid) ==
    LET c == [s EXCEPT !.pendingRequest = IF @ > 0 THEN @ - 1 ELSE 0, !.pending = @ \ {f}]
    IN  IF c.pendingRequest # 0 \/ ~c.formSubmitted \/ ~valid THEN c
        ELSE Submitted([c EXCEPT !.formSubmitted = FALSE])

StopRequest(s, f, valid) ==
    LET c == [s EXCEPT !.pendingRequest = IF @ > 0 THEN @ - 1 ELSE 0, !.pending = @ \ {f}]
    IN  IF c.pendingRequest # 0 \/ ~c.formSubmitted THEN c
        ELSE IF ~valid
             THEN [OnErrors(c) EXCEPT !.formSubmitted = FALSE, !.outcome = "refused"]
        ELSE Resubmitted(Form(c), Thrown(c, Elements(c)))

----------------------------------------------------------------------------
outcome == form.outcome

Open == outcome \notin {"sent", "unchecked"}

\* A script has added the late input.
Present(f) == f \in Late => options[f] # {}

\* validate() makes the form's only validator, from the rules of the moment.
Attach(s, rules) ==
    IF s.attached THEN s
    ELSE [s EXCEPT !.attached = TRUE, !.rules = [f \in Field |-> Copied(rules[f])]]

\* The ready handler parses the document: it is part of loading the page.
AtReady ==
    [f \in Field |-> IF f \in Field \ Late /\ Parsed(Input[f]) THEN Parse(Input[f]) ELSE {}]

Loaded ==
    /\ value = [f \in Field |-> "empty"]
    /\ hidden \in SUBSET Hideable /\ concealed = hidden
    /\ options = AtReady
    /\ form = IF AtReady = NoRules THEN Fresh ELSE Attach(Fresh, AtReady)
    /\ edits = 0 /\ lost = 0

Init == Loaded

\* A script adds an input and calls parseElement on it.
ParseElement(f, skipAttach) ==
    /\ Open /\ f \in Late /\ options[f] = {}
    /\ options' = [options EXCEPT ![f] = Parse(Input[f])]
    /\ form' = IF skipAttach THEN form ELSE Attach(form, options')
    /\ UNCHANGED <<value, hidden, concealed, edits, lost>>

Edit(f, v) ==
    /\ Open /\ edits < EditLimit /\ v # value[f]
    /\ Present(f) /\ f \notin hidden
    /\ edits' = edits + 1
    /\ value' = [value EXCEPT ![f] = v]
    /\ UNCHANGED <<hidden, options, form, concealed, lost>>

\* A script of the page.  It counts as an edit.
Hide(f) ==
    /\ Open /\ edits < EditLimit /\ f \in Hideable \ hidden
    /\ edits' = edits + 1
    /\ hidden' = hidden \cup {f} /\ concealed' = concealed \cup {f}
    /\ UNCHANGED <<value, options, form, lost>>

Show(f) ==
    /\ Open /\ edits < EditLimit /\ f \in hidden
    /\ edits' = edits + 1
    /\ hidden' = hidden \ {f}
    /\ UNCHANGED <<value, options, form, concealed, lost>>

\* keyup, focusout or click: each checks the field only in these cases, whether
\* it has rules or not.
Touch(f) ==
    /\ Open /\ form.attached /\ Present(f) /\ f \notin hidden
    /\ \/ f \in form.submitted \cup form.invalid
       \/ ~Input[f].checkbox /\ value[f] # "empty"
    /\ form' = Element(form, f)
    /\ UNCHANGED <<value, hidden, options, concealed, edits, lost>>

\* The blur of the input that f repeats, once equalTo has been called for f.
Repeat(f) ==
    /\ Open /\ f \in form.bound /\ Input[f].other \notin hidden
    /\ form' = Element(form, f)
    /\ UNCHANGED <<value, hidden, options, concealed, edits, lost>>

Click ==
    /\ Open
    /\ form' = IF form.attached THEN Submitted(form)
               ELSE [form EXCEPT !.outcome = "unchecked"]
    /\ UNCHANGED <<value, hidden, options, concealed, edits, lost>>

\* cancelSubmit: a button that asks for no check.
Bypass ==
    /\ Open /\ HasBypass
    /\ form' = [form EXCEPT !.outcome = "unchecked"]
    /\ UNCHANGED <<value, hidden, options, concealed, edits, lost>>

\* success of the remote method: a valid field starts new lists, an invalid one
\* joins those of the last check.  (Variant: without leaving its successes.)
VerdictVariant(s, f, valid) ==
    [s EXCEPT !.invalid = @ \cup {f},
              !.errorMap = IF valid THEN {} ELSE @ \cup {f},
              !.successList = IF valid THEN {f} ELSE @]

Verdict(s, f, valid) ==
    [s EXCEPT !.invalid = @ \cup {f},
              !.errorMap = IF valid THEN {} ELSE @ \cup {f},
              !.successList = IF valid THEN {f} ELSE @ \ {f}]

\* A question is under way.
Due(f) == Open /\ form.flight[f].query # Nothing

\* The verdict shows as the field's last check, whatever the field holds now.
Answer(f) ==
    LET query == form.flight[f].query
        valid == Accepts(query)
        s == [form EXCEPT
                !.flight[f] = [query |-> Nothing, own |-> FALSE],
                !.previous[f].valid = IF form.flight[f].own THEN valid ELSE @]
    IN  /\ Due(f)
        /\ \E told \in {ShowErrors(Verdict(s, f, valid))} : form' = StopRequest(told, f, valid)
        /\ UNCHANGED <<value, hidden, options, concealed, edits, lost>>

\* The request fails: there is no handler, the field stays pending.
Lose(f) ==
    /\ Due(f) /\ lost < LostLimit
    /\ lost' = lost + 1
    /\ form' = [form EXCEPT !.flight[f] = [query |-> Nothing, own |-> FALSE]]
    /\ UNCHANGED <<value, hidden, options, concealed, edits>>

\* The verdicts of the inputs in sight are forgotten.
ResetForm(s) ==
    [s EXCEPT !.submitted = {}, !.invalid = {}, !.errorMap = {}, !.successList = {},
              !.previous = [f \in Field |-> IF f \in Elements(s) THEN Fresh.previous[f]
                                            ELSE @[f]],
              !.flight = [f \in Field |-> IF f \in Elements(s) THEN [@[f] EXCEPT !.own = FALSE]
                                          ELSE @[f]]]

\* onReset: resetForm, then the classes; the messages stay.  (Variant: the
\* classes stay too.)
ClearedVariant(s) == [ResetForm(s) EXCEPT !.outcome = "none"]

Cleared(s) ==
    [ResetForm(s) EXCEPT
        !.box = [f \in Field |-> [@[f] EXCEPT !.error = FALSE]],
        !.summary.error = FALSE,
        !.outcome = "none"]

\* The reset button: onReset, then the inputs take their first values.
Reset ==
    /\ Open
    /\ value' = [f \in Field |-> "empty"]
    /\ form' = IF form.attached THEN Cleared(form) ELSE form
    /\ UNCHANGED <<hidden, options, concealed, edits, lost>>

Next ==
    \/ \E f \in Field : \/ \E v \in Values[f] : Edit(f, v)
                        \/ \E skip \in SkipAttach : ParseElement(f, skip)
                        \/ Hide(f) \/ Show(f) \/ Touch(f) \/ Repeat(f)
                        \/ Answer(f) \/ Lose(f)
    \/ Click \/ Bypass \/ Reset

Spec == Init /\ [][Next]_vars

\* The server answers, unless the request is lost: WF_vars(Answer(f)), with the
\* condition that enables it spelled out.
FairSpec == Spec /\ \A f \in Field : []<>~Due(f) \/ []<><<Answer(f)>>_vars

----------------------------------------------------------------------------
(* Properties.                                                              *)

ValidationTypeOK ==
    /\ value \in [Field -> Value]
    /\ hidden \subseteq concealed /\ concealed \subseteq Hideable
    /\ DOMAIN options = Field
    /\ outcome \in Outcome
    /\ edits \in 0..EditLimit /\ lost \in 0..LostLimit
    /\ DOMAIN form.rules = Field
    /\ form.submitted \cup form.pending \cup form.bound \subseteq Ruled(form)
    /\ form.invalid \subseteq Field
    /\ form.errorMap \cap form.successList = {}
    /\ \A f \in Field : /\ form.previous[f].old \in Query /\ form.previous[f].valid \in BOOLEAN
                        /\ form.flight[f].query \in Query /\ form.flight[f].own \in BOOLEAN
                        /\ form.box[f] \in [error : BOOLEAN, text : BOOLEAN]
    /\ form.pendingRequest \in Nat /\ form.formSubmitted \in BOOLEAN
    /\ form.summary.error \in BOOLEAN /\ form.summary.list \subseteq Field

\* Whatever the order of edits, answers, aborted requests and resets, a form that
\* was checked leaves the browser only with values that the rules of its visible
\* inputs accept, and that the server has accepted where a rule asks it (remote's
\* cached verdict); and no rule among them is one that has no method.  (Hidden
\* inputs are not checked; a bypassing button, a form without a validator and a
\* check that throws send the form unchecked.)
SentIsValid ==
    outcome = "sent" =>
        \A f \in Elements(form) :
            /\ form.rules[f] \subseteq Methods
            /\ Passes(form.rules[f], f)
            /\ AsksServer(form, f) => Accepts(Question(f))

\* The count that holds a submit back is the number of pending fields: the
\* clamp in stopRequest ("sometimes synchronization fails") is never needed.
CountInStep == form.pendingRequest = Cardinality(form.pending)

\* A refused form says so: the summary lists a field, whether the click itself
\* or a late answer of the server refused it.
RefusalTold ==
    outcome = "refused" /\ HasSummary => form.summary.error /\ form.summary.list # {}

\* A field shown as wrong, and in sight all along, is one that the next keystroke
\* checks again, or whose answer is still to come or was lost.
ErrorIsLive ==
    \A f \in Field \ concealed :
        form.box[f].error => f \in form.submitted \cup form.invalid \cup form.pending

\* A click that waits for the server is decided, unless a request was lost; the
\* answer that decides it may run into a rule without a method (interrupted).
ClickSettles == outcome = "waiting" ~> outcome # "waiting" \/ lost > 0
=============================================================================
