------------------------- MODULE Validation_proofs -------------------------
(***************************************************************************)
(* What a form may send, and the count that holds it back: for any form,   *)
(* any markup, any number of edits and of lost answers.                    *)
(***************************************************************************)
EXTENDS Validation, FiniteSetTheorems, TLAPS

Keys == DOMAIN Fresh

Previous == [old : Query, valid : BOOLEAN]
Flight == [query : Query, own : BOOLEAN]

\* What each field's remote check looks like: nobody asks for a field that is not
\* pending, its cached verdict is the server's, and a question under way is the
\* cached one unless a reset has emptied the cache.
RemoteInv(s) ==
    \A f \in Field :
        /\ f \notin s.pending => s.flight[f].query = Nothing
        /\ f \notin s.pending /\ s.previous[f].old # Nothing /\ s.previous[f].valid
              => Accepts(s.previous[f].old)
        /\ s.flight[f].query # Nothing =>
              s.previous[f].old = IF s.flight[f].own THEN s.flight[f].query ELSE Nothing

FormInv(s) ==
    /\ DOMAIN s = Keys
    /\ s.pending \subseteq Field
    /\ s.pendingRequest = Cardinality(s.pending)
    /\ s.previous \in [Field -> Previous]
    /\ s.flight \in [Field -> Flight]
    /\ ~s.attached => s.rules = NoRules
    /\ RemoteInv(s)

\* A form that was sent is what SentIsValid says.
SentInv(s) ==
    s.outcome = "sent" =>
        \A f \in Elements(s) : /\ s.rules[f] \subseteq Methods
                               /\ Passes(s.rules[f], f)
                               /\ AsksServer(s, f) => Accepts(Question(f))

ValidationInv ==
    /\ value \in [Field -> Value]
    /\ FormInv(form)
    /\ SentInv(form)

\* The two forms agree on what FormInv is about.
Agree(s, t) ==
    /\ DOMAIN t = DOMAIN s
    /\ t.attached = s.attached /\ t.rules = s.rules
    /\ t.pending = s.pending /\ t.pendingRequest = s.pendingRequest
    /\ t.previous = s.previous /\ t.flight = s.flight

\* The keys of a form.
LEMMA KeysAre ==
    Keys = {"attached", "rules", "submitted", "invalid", "errorMap", "successList",
            "previous", "flight", "pending", "pendingRequest", "formSubmitted",
            "bound", "box", "summary", "outcome"}
BY DEF Keys, Fresh

LEMMA AgreeKeeps ==
    ASSUME NEW s, NEW t, FormInv(s), Agree(s, t)
    PROVE  FormInv(t)
BY DEF FormInv, Agree, RemoteInv

----------------------------------------------------------------------------
\* A question names the value of its own field, so it is one.
LEMMA Questions ==
    ASSUME value \in [Field -> Value], NEW f \in Field
    PROVE  Question(f) \in Query /\ Question(f) # Nothing
<1>1. Question(f) \in Query
  BY DEF Question, Query
<1>2. Question(f)[f] = value[f] /\ Nothing[f] = "unasked"
  BY DEF Question, Nothing
<1> QED
  BY <1>1, <1>2 DEF Value

\* The count follows the set of pending fields.
LEMMA CountAdds ==
    ASSUME NEW P \in SUBSET Field, NEW A \in SUBSET Field
    PROVE  Cardinality(P) + Cardinality(A \ P) = Cardinality(P \cup A)
<1>1. IsFiniteSet(P) /\ IsFiniteSet(A \ P)
  BY FS_Subset, ValidationAssumption
<1>2. Cardinality(P \cap (A \ P)) = 0
  <2>1. P \cap (A \ P) = {}
    OBVIOUS
  <2> QED
    BY <2>1, FS_EmptySet
<1>0. Cardinality(P \cup (A \ P)) = Cardinality(P \cup A)
  <2>1. P \cup (A \ P) = P \cup A
    OBVIOUS
  <2> QED
    BY <2>1
<1>3. Cardinality(P \cup (A \ P))
        = Cardinality(P) + Cardinality(A \ P) - Cardinality(P \cap (A \ P))
  BY <1>1, FS_Union
<1>4. Cardinality(P) \in Nat /\ Cardinality(A \ P) \in Nat
  BY <1>1, FS_CardinalityType
<1> QED
  BY <1>0, <1>2, <1>3, <1>4

LEMMA CountRemoves ==
    ASSUME NEW P \in SUBSET Field, NEW f \in P
    PROVE  /\ Cardinality(P) > 0
           /\ Cardinality(P \ {f}) = Cardinality(P) - 1
<1>1. IsFiniteSet(P)
  BY FS_Subset, ValidationAssumption
<1>2. Cardinality(P) \in Nat /\ Cardinality(P) # 0
  BY <1>1, FS_CardinalityType, FS_EmptySet
<1>3. Cardinality(P \ {f}) = IF f \in P THEN Cardinality(P) - 1 ELSE Cardinality(P)
  BY <1>1, FS_RemoveElement
<1> QED
  BY <1>2, <1>3

----------------------------------------------------------------------------
\* What a check does to a form, of the fields that it came to without throwing.
CheckResult(s, fields, c) ==
    /\ DOMAIN c = Keys
    /\ c.attached = s.attached /\ c.rules = s.rules
    /\ c.formSubmitted = s.formSubmitted /\ c.outcome = s.outcome
    /\ c.errorMap = Wrong(s, fields)
    /\ c.pending = s.pending \cup ToAsk(s, fields)
    /\ c.pendingRequest = s.pendingRequest + Cardinality(ToAsk(s, fields) \ s.pending)
    /\ c.previous = [f \in Field |->
          IF f \in ToAsk(s, fields) THEN [s.previous[f] EXCEPT !.old = Question(f)]
          ELSE s.previous[f]]
    /\ c.flight = [f \in Field |->
          IF f \in ToAsk(s, fields) THEN [query |-> Question(f), own |-> TRUE]
          ELSE s.flight[f]]

LEMMA CheckIs ==
    ASSUME NEW s, DOMAIN s = Keys, NEW fields
    PROVE  CheckResult(s, Checked(s, fields), Check(s, fields))
BY KeysAre DEF Check, Marked, StartRequests, CheckResult

LEMMA CheckKeeps ==
    ASSUME NEW s, FormInv(s), NEW fields \in SUBSET Field, value \in [Field -> Value]
    PROVE  FormInv(Check(s, fields))
<1> DEFINE c == Check(s, fields)
           asked == ToAsk(s, Checked(s, fields))
<1>0. asked \in SUBSET Field
  BY DEF ToAsk, Checked, Tried
<1>r. CheckResult(s, Checked(s, fields), c)
  BY CheckIs DEF FormInv
<1> HIDE DEF c, asked
<1>1. /\ DOMAIN c = Keys /\ c.pending = s.pending \cup asked
      /\ c.pendingRequest = s.pendingRequest + Cardinality(asked \ s.pending)
      /\ c.attached = s.attached /\ c.rules = s.rules
  BY <1>r DEF CheckResult, asked
<1>2. ASSUME NEW f \in Field, f \in asked
      PROVE  /\ c.previous[f] \in Previous /\ c.previous[f].old = Question(f)
             /\ c.flight[f] = [query |-> Question(f), own |-> TRUE]
  <2>1. /\ c.previous[f] = [s.previous[f] EXCEPT !.old = Question(f)]
        /\ c.flight[f] = [query |-> Question(f), own |-> TRUE]
    BY <1>2, <1>r DEF CheckResult, asked
  <2>2. s.previous[f] \in Previous
    BY DEF FormInv
  <2> QED
    BY <2>1, <2>2, Questions DEF Previous
<1>3. ASSUME NEW f \in Field, f \notin asked
      PROVE  c.previous[f] = s.previous[f] /\ c.flight[f] = s.flight[f]
  BY <1>3, <1>r DEF CheckResult, asked
<1>4. c.previous \in [Field -> Previous]
  <2>1. \A f \in Field : c.previous[f] \in Previous
    BY <1>2, <1>3 DEF FormInv
  <2>2. c.previous = [f \in Field |-> c.previous[f]]
    BY <1>r DEF CheckResult
  <2> QED
    BY <2>1, <2>2
<1>5. c.flight \in [Field -> Flight]
  <2>1. ASSUME NEW f \in Field PROVE c.flight[f] \in Flight
    <3>1. CASE f \in asked
      <4>1. c.flight[f] = [query |-> Question(f), own |-> TRUE]
        BY <1>2, <3>1
      <4>2. Question(f) \in Query
        BY Questions
      <4> QED
        BY <4>1, <4>2 DEF Flight
    <3>2. CASE f \notin asked
      BY <1>3, <3>2 DEF FormInv
    <3> QED
      BY <3>1, <3>2
  <2>2. c.flight = [f \in Field |-> c.flight[f]]
    BY <1>r DEF CheckResult
  <2> QED
    BY <2>1, <2>2
<1>6. RemoteInv(c)
  <2> SUFFICES ASSUME NEW f \in Field
               PROVE  /\ f \notin c.pending => c.flight[f].query = Nothing
                      /\ f \notin c.pending /\ c.previous[f].old # Nothing
                            /\ c.previous[f].valid => Accepts(c.previous[f].old)
                      /\ c.flight[f].query # Nothing =>
                            c.previous[f].old = IF c.flight[f].own
                                                THEN c.flight[f].query ELSE Nothing
    BY DEF RemoteInv
  <2>1. CASE f \in asked
    <3>1. f \in c.pending
      BY <1>1, <2>1
    <3>2. c.flight[f] = [query |-> Question(f), own |-> TRUE]
      BY <1>2, <2>1
    <3>3. c.flight[f].query = Question(f) /\ c.flight[f].own
      BY <3>2
    <3> QED
      BY <1>2, <2>1, <3>1, <3>3
  <2>2. CASE f \notin asked
    <3>1. f \in c.pending <=> f \in s.pending
      BY <1>1, <2>2
    <3>2. c.previous[f] = s.previous[f] /\ c.flight[f] = s.flight[f]
      BY <1>3, <2>2
    <3> QED
      BY <3>1, <3>2 DEF FormInv, RemoteInv
  <2> QED
    BY <2>1, <2>2
<1>7. c.pendingRequest = Cardinality(c.pending)
  <2>1. s.pending \in SUBSET Field /\ s.pendingRequest = Cardinality(s.pending)
    BY DEF FormInv
  <2>2. Cardinality(s.pending) + Cardinality(asked \ s.pending)
          = Cardinality(s.pending \cup asked)
    BY <1>0, <2>1, CountAdds
  <2> QED
    BY <1>1, <2>1, <2>2
<1> QED
  BY <1>0, <1>1, <1>4, <1>5, <1>6, <1>7 DEF FormInv, c

----------------------------------------------------------------------------
\* Showing messages leaves the checks alone.
LEMMA ShowErrorsAgrees ==
    ASSUME NEW s, DOMAIN s = Keys
    PROVE  /\ Agree(s, ShowErrors(s))
           /\ ShowErrors(s).errorMap = s.errorMap /\ ShowErrors(s).outcome = s.outcome
           /\ ShowErrors(s).formSubmitted = s.formSubmitted
BY KeysAre DEF ShowErrors, Agree

LEMMA OnErrorsAgrees ==
    ASSUME NEW s, DOMAIN s = Keys
    PROVE  /\ Agree(s, OnErrors(s))
           /\ OnErrors(s).errorMap = s.errorMap /\ OnErrors(s).outcome = s.outcome
           /\ OnErrors(s).formSubmitted = s.formSubmitted
BY KeysAre DEF OnErrors, Agree

\* A check of the whole form.
LEMMA FormKeeps ==
    ASSUME NEW s, FormInv(s), value \in [Field -> Value]
    PROVE  /\ FormInv(Form(s))
           /\ Agree(Check(s, Elements(s)), Form(s))
           /\ Form(s).errorMap = Wrong(s, Checked(s, Elements(s)))
           /\ Form(s).outcome = s.outcome
<1> DEFINE c == Check(s, Elements(s))
           d == [c EXCEPT !.invalid = c.errorMap]
<1>1. /\ FormInv(c) /\ DOMAIN c = Keys
      /\ c.errorMap = Wrong(s, Checked(s, Elements(s))) /\ c.outcome = s.outcome
  <2>1. Elements(s) \in SUBSET Field
    BY DEF Elements, Ruled
  <2> QED
    BY <2>1, CheckKeeps, CheckIs DEF FormInv, CheckResult
<1>t. Form(s) = IF Thrown(s, Elements(s)) # {} THEN c ELSE ShowErrors(OnErrors(d))
  BY DEF Form
<1> HIDE DEF c
<1>a. CASE Thrown(s, Elements(s)) # {}
  BY <1>1, <1>t, <1>a DEF Agree, c
<1>b. CASE Thrown(s, Elements(s)) = {}
  <2>2. Agree(c, d) /\ d.errorMap = c.errorMap /\ d.outcome = c.outcome
    BY <1>1, KeysAre DEF Agree
  <2>3. DOMAIN d = Keys
    BY <1>1, <2>2 DEF Agree
  <2>4. Form(s) = ShowErrors(OnErrors(d))
    BY <1>t, <1>b
  <2> HIDE DEF d
  <2>5. /\ Agree(d, OnErrors(d)) /\ OnErrors(d).errorMap = d.errorMap
        /\ OnErrors(d).outcome = d.outcome
    BY <2>3, OnErrorsAgrees
  <2>6. DOMAIN OnErrors(d) = Keys
    BY <2>3, <2>5 DEF Agree
  <2>7. /\ Agree(OnErrors(d), Form(s)) /\ Form(s).errorMap = OnErrors(d).errorMap
        /\ Form(s).outcome = OnErrors(d).outcome
    BY <2>4, <2>6, ShowErrorsAgrees
  <2>8. Agree(c, Form(s))
    BY <2>2, <2>5, <2>7 DEF Agree
  <2>9. FormInv(Form(s))
    BY <1>1, <2>8, AgreeKeeps
  <2> QED
    BY <1>1, <2>2, <2>5, <2>7, <2>8, <2>9 DEF c
<1> QED
  BY <1>a, <1>b

\* A form that was checked to the end, without errors and without pending checks,
\* may be sent: a field whose question is not the cached one would be pending now,
\* and a cached verdict of a field that is not pending is the server's.
LEMMA CheckedIsValid ==
    ASSUME NEW s, FormInv(s), value \in [Field -> Value],
           Thrown(s, Elements(s)) = {},
           Form(s).errorMap = {}, Form(s).pendingRequest = 0,
           NEW f \in Elements(s)
    PROVE  /\ s.rules[f] \subseteq Methods
           /\ Passes(s.rules[f], f)
           /\ AsksServer(s, f) => Accepts(Question(f))
<1> DEFINE asked == ToAsk(s, Elements(s))
<1>0. Checked(s, Elements(s)) = Elements(s)
  BY DEF Checked, Tried
<1>1. f \in Field /\ f \notin Wrong(s, Elements(s))
  BY <1>0, FormKeeps DEF Elements, Ruled
<1>2. /\ Form(s).pending = s.pending \cup asked /\ Form(s).pending \in SUBSET Field
      /\ Cardinality(Form(s).pending) = 0
  <2>1. FormInv(Form(s)) /\ Agree(Check(s, Elements(s)), Form(s))
    BY FormKeeps
  <2>2. CheckResult(s, Elements(s), Check(s, Elements(s)))
    BY <1>0, CheckIs DEF FormInv
  <2> QED
    BY <2>1, <2>2 DEF Agree, FormInv, CheckResult
<1>3. Form(s).pending = {}
  BY <1>2, FS_Subset, FS_EmptySet, ValidationAssumption
<1>4. Passes(s.rules[f], f)
  BY <1>1 DEF Wrong
<1>5. ASSUME AsksServer(s, f)
      PROVE  Accepts(Question(f))
  <2>1. f \notin asked /\ f \notin s.pending
    BY <1>2, <1>3
  <2>2. s.previous[f].old = Question(f)
    BY <1>5, <2>1 DEF ToAsk
  <2>3. s.previous[f].valid
    BY <1>1, <1>5, <2>2 DEF Wrong
  <2> QED
    BY <1>1, <2>1, <2>2, <2>3, Questions DEF FormInv, RemoteInv
<1>6. s.rules[f] \subseteq Methods
  BY <1>4 DEF Passes, Satisfies
<1> QED
  BY <1>4, <1>5, <1>6

\* Sending the form as it has been checked.
LEMMA SendKeeps ==
    ASSUME NEW s, FormInv(s), value \in [Field -> Value],
           Thrown(s, Elements(s)) = {},
           Form(s).errorMap = {}, Form(s).pendingRequest = 0,
           NEW t, Agree(Form(s), t)
    PROVE  SentInv(t)
<1>1. t.rules = s.rules
  <2>1. Agree(Check(s, Elements(s)), Form(s))
    BY FormKeeps
  <2>2. CheckResult(s, Checked(s, Elements(s)), Check(s, Elements(s)))
    BY CheckIs DEF FormInv
  <2> QED
    BY <2>1, <2>2 DEF Agree, CheckResult
<1>2. Elements(t) = Elements(s)
  BY <1>1 DEF Elements, Ruled
<1>3. \A f \in Elements(s) : AsksServer(t, f) = AsksServer(s, f)
  BY <1>1 DEF AsksServer
<1> QED
  BY <1>1, <1>2, <1>3, CheckedIsValid DEF SentInv

LEMMA SubmittedKeeps ==
    ASSUME NEW s, FormInv(s), value \in [Field -> Value]
    PROVE  FormInv(Submitted(s)) /\ SentInv(Submitted(s))
<1> DEFINE c == Form(s)
<1>1. FormInv(c) /\ DOMAIN c = Keys
  BY FormKeeps DEF FormInv
<1>d. CASE Thrown(s, Elements(s)) # {}
  <2>1. Submitted(s) = [c EXCEPT !.outcome = "unchecked"]
    BY <1>d DEF Submitted, Decided
  <2>2. Agree(c, Submitted(s)) /\ Submitted(s).outcome # "sent"
    BY <1>1, <2>1, KeysAre DEF Agree
  <2> QED
    BY <1>1, <2>2, AgreeKeeps DEF SentInv
<1>2. CASE Thrown(s, Elements(s)) = {} /\ c.errorMap # {}
  <2>1. Submitted(s) = [c EXCEPT !.outcome = "refused"]
    BY <1>2 DEF Submitted, Decided
  <2>2. Agree(c, Submitted(s)) /\ Submitted(s).outcome # "sent"
    BY <1>1, <2>1, KeysAre DEF Agree
  <2> QED
    BY <1>1, <2>2, AgreeKeeps DEF SentInv
<1>3. CASE Thrown(s, Elements(s)) = {} /\ c.errorMap = {} /\ c.pendingRequest # 0
  <2>1. Submitted(s) = [c EXCEPT !.formSubmitted = TRUE, !.outcome = "waiting"]
    BY <1>3 DEF Submitted, Decided
  <2>2. Agree(c, Submitted(s)) /\ Submitted(s).outcome # "sent"
    BY <1>1, <2>1, KeysAre DEF Agree
  <2> QED
    BY <1>1, <2>2, AgreeKeeps DEF SentInv
<1>4. CASE Thrown(s, Elements(s)) = {} /\ c.errorMap = {} /\ c.pendingRequest = 0
  <2>1. Submitted(s) = [c EXCEPT !.outcome = "sent"]
    BY <1>4 DEF Submitted, Decided
  <2>2. Agree(c, Submitted(s))
    BY <1>1, <2>1, KeysAre DEF Agree
  <2> QED
    BY <1>1, <1>4, <2>2, AgreeKeeps, SendKeeps
<1> QED
  BY <1>d, <1>2, <1>3, <1>4

\* The answer for a pending field, nothing of it being under way any more.
Stopped(s, f) ==
    [s EXCEPT !.pending = @ \ {f}, !.pendingRequest = Cardinality(s.pending \ {f})]

LEMMA StopRequestKeeps ==
    ASSUME NEW s, value \in [Field -> Value], NEW f \in Field, NEW valid,
           DOMAIN s = Keys, f \in s.pending, s.outcome # "sent",
           FormInv(Stopped(s, f)),
           s.pendingRequest = Cardinality(s.pending), s.pending \subseteq Field
    PROVE  FormInv(StopRequest(s, f, valid)) /\ SentInv(StopRequest(s, f, valid))
<1> DEFINE c == [s EXCEPT !.pendingRequest = IF @ > 0 THEN @ - 1 ELSE 0, !.pending = @ \ {f}]
           d == Form(c)
           t == StopRequest(s, f, valid)
<1>1. FormInv(c) /\ DOMAIN c = Keys /\ c.outcome # "sent"
  <2>1. s.pendingRequest > 0 /\ s.pendingRequest - 1 = Cardinality(s.pending \ {f})
    BY CountRemoves
  <2>2. c = Stopped(s, f)
    BY <2>1, KeysAre DEF Stopped
  <2>3. c.outcome = s.outcome /\ DOMAIN c = Keys
    BY KeysAre
  <2> QED
    BY <2>2, <2>3
<1>2. t = IF c.pendingRequest # 0 \/ ~c.formSubmitted THEN c
          ELSE IF ~valid
               THEN [OnErrors(c) EXCEPT !.formSubmitted = FALSE, !.outcome = "refused"]
          ELSE IF Thrown(c, Elements(c)) # {} THEN [d EXCEPT !.outcome = "interrupted"]
          ELSE IF d.errorMap # {} THEN [d EXCEPT !.outcome = "refused"]
          ELSE IF d.pendingRequest # 0 THEN d
          ELSE [d EXCEPT !.formSubmitted = FALSE, !.outcome = "sent"]
  BY DEF StopRequest, Resubmitted
<1> HIDE DEF c, t
<1>3. FormInv(d) /\ DOMAIN d = Keys /\ d.outcome # "sent"
  BY <1>1, FormKeeps DEF FormInv
<1>4. CASE t = c
  BY <1>1, <1>4 DEF SentInv, t
<1>5. CASE t = [OnErrors(c) EXCEPT !.formSubmitted = FALSE, !.outcome = "refused"]
  <2>1. FormInv(OnErrors(c)) /\ DOMAIN OnErrors(c) = Keys
    BY <1>1, OnErrorsAgrees, AgreeKeeps DEF Agree
  <2>2. Agree(OnErrors(c), t) /\ t.outcome # "sent"
    BY <1>5, <2>1, KeysAre DEF Agree
  <2> QED
    BY <2>1, <2>2, AgreeKeeps DEF SentInv, t
<1>6. CASE t = [d EXCEPT !.outcome = "refused"] \/ t = [d EXCEPT !.outcome = "interrupted"]
  <2>1. Agree(d, t) /\ t.outcome # "sent"
    BY <1>3, <1>6, KeysAre DEF Agree
  <2> QED
    BY <1>3, <2>1, AgreeKeeps DEF SentInv, t
<1>7. CASE t = d
  BY <1>3, <1>7 DEF SentInv, t
<1>8. CASE /\ t = [d EXCEPT !.formSubmitted = FALSE, !.outcome = "sent"]
           /\ Thrown(c, Elements(c)) = {} /\ d.errorMap = {} /\ d.pendingRequest = 0
  <2>1. Agree(d, t)
    BY <1>3, <1>8, KeysAre DEF Agree
  <2> QED
    BY <1>1, <1>3, <1>8, <2>1, AgreeKeeps, SendKeeps DEF t
<1> QED
  BY <1>2, <1>4, <1>5, <1>6, <1>7, <1>8

----------------------------------------------------------------------------
(* The actions. *)

\* SentInv of the next state, for a step that leaves the values alone.
LEMMA SentStays ==
    ASSUME value' = value, hidden' = hidden, SentInv(form')
    PROVE  SentInv(form)'
BY DEF SentInv, Elements, Ruled, AsksServer, Passes, Satisfies, Question, Accepts

LEMMA NotSent ==
    ASSUME form'.outcome # "sent"
    PROVE  SentInv(form)'
BY DEF SentInv

\* A step that changes nothing that FormInv is about, and sends nothing.
LEMMA AgreeStep ==
    ASSUME ValidationInv, value' \in [Field -> Value],
           Agree(form, form'), form'.outcome # "sent"
    PROVE  ValidationInv'
<1>1. FormInv(form')
  BY AgreeKeeps DEF ValidationInv
<1>2. FormInv(form)'
  BY <1>1 DEF FormInv, RemoteInv, Accepts
<1> QED
  BY <1>2, NotSent DEF ValidationInv

\* A new validator has nothing pending, whatever it enforces.
LEMMA AttachKeeps ==
    ASSUME NEW s, FormInv(s), NEW rules
    PROVE  FormInv(Attach(s, rules)) /\ Attach(s, rules).outcome = s.outcome
<1>1. CASE s.attached
  BY <1>1 DEF Attach
<1>2. CASE ~s.attached
  <2> DEFINE t == [s EXCEPT !.attached = TRUE,
                            !.rules = [f \in Field |-> Copied(rules[f])]]
  <2>1. DOMAIN s = Keys
    BY DEF FormInv
  <2>2. /\ DOMAIN t = Keys /\ t.attached /\ t.outcome = s.outcome
        /\ t.pending = s.pending /\ t.pendingRequest = s.pendingRequest
        /\ t.previous = s.previous /\ t.flight = s.flight
    BY <2>1, KeysAre
  <2>3. Attach(s, rules) = t
    BY <1>2 DEF Attach
  <2> HIDE DEF t
  <2>4. FormInv(t)
    BY <2>2 DEF FormInv, RemoteInv
  <2> QED
    BY <2>2, <2>3, <2>4
<1> QED
  BY <1>1, <1>2

LEMMA FreshInv == FormInv(Fresh)
<1>1. Nothing \in Query
  BY DEF Nothing, Query
<1>2. /\ Fresh.pending = {} /\ Fresh.pendingRequest = 0 /\ Fresh.rules = NoRules
      /\ Fresh.previous = [f \in Field |-> [old |-> Nothing, valid |-> TRUE]]
      /\ Fresh.flight = [f \in Field |-> [query |-> Nothing, own |-> FALSE]]
  BY DEF Fresh
<1>3. Fresh.previous \in [Field -> Previous] /\ Fresh.flight \in [Field -> Flight]
  BY <1>1, <1>2 DEF Previous, Flight
<1>4. Cardinality({}) = 0
  BY FS_EmptySet
<1>5. RemoteInv(Fresh)
  BY <1>2 DEF RemoteInv
<1> QED
  BY <1>2, <1>3, <1>4, <1>5 DEF FormInv, Keys

LEMMA ValidationStart == Init => ValidationInv
<1> SUFFICES ASSUME Init PROVE ValidationInv
  OBVIOUS
<1>1. value \in [Field -> Value]
  BY DEF Init, Loaded, Value
<1>2. form = Fresh \/ form = Attach(Fresh, AtReady)
  BY DEF Init, Loaded
<1>3. Fresh.outcome = "none"
  BY DEF Fresh
<1>4. FormInv(form) /\ form.outcome = "none"
  BY <1>2, <1>3, FreshInv, AttachKeeps
<1> QED
  BY <1>1, <1>4 DEF ValidationInv, SentInv

----------------------------------------------------------------------------
LEMMA ParseElementKeeps ==
    ASSUME ValidationInv, NEW f \in Field, NEW skip, ParseElement(f, skip)
    PROVE  ValidationInv'
<1>1. form' = form \/ form' = Attach(form, options')
  BY DEF ParseElement
<1>2. FormInv(form') /\ form'.outcome # "sent"
  BY <1>1, AttachKeeps DEF ParseElement, Open, outcome, ValidationInv
<1>3. FormInv(form)'
  BY <1>2 DEF FormInv, RemoteInv, Accepts
<1> QED
  BY <1>2, <1>3, NotSent DEF ValidationInv, ParseElement

LEMMA EditKeeps ==
    ASSUME ValidationInv, NEW f \in Field, NEW v \in Values[f], Edit(f, v)
    PROVE  ValidationInv'
<1>1. value' \in [Field -> Value]
  BY ValidationAssumption DEF Edit, ValidationInv
<1>2. form' = form /\ form'.outcome # "sent"
  BY DEF Edit, Open, outcome
<1> QED
  BY <1>1, <1>2, AgreeStep DEF Agree

LEMMA HideKeeps ==
    ASSUME ValidationInv, NEW f \in Field, Hide(f) \/ Show(f)
    PROVE  ValidationInv'
<1>1. value' = value /\ form' = form /\ form'.outcome # "sent"
  BY DEF Hide, Show, Open, outcome
<1> QED
  BY <1>1, AgreeStep DEF Agree, ValidationInv

\* Checking one input: an input out of sight only leaves the invalid map, and a
\* check that throws shows nothing.
LEMMA ElementAgrees ==
    ASSUME NEW s, FormInv(s), value \in [Field -> Value], NEW f \in Field
    PROVE  FormInv(Element(s, f)) /\ Element(s, f).outcome = s.outcome
<1> DEFINE c == Check(s, {f})
           d == [c EXCEPT !.invalid = @ \cup {f}]
           h == [s EXCEPT !.invalid = @ \ {f}]
<1>1. FormInv(c) /\ DOMAIN c = Keys /\ c.outcome = s.outcome /\ DOMAIN s = Keys
  <2>1. FormInv(c)
    <3>1. {f} \in SUBSET Field
      OBVIOUS
    <3> QED
      BY <3>1, CheckKeeps
  <2>2. DOMAIN s = Keys
    BY DEF FormInv
  <2>3. c.outcome = s.outcome
    BY <2>2, CheckIs DEF CheckResult
  <2> QED
    BY <2>1, <2>2, <2>3 DEF FormInv
<1>2. Element(s, f) = IF f \in hidden THEN h
                      ELSE IF Throws(s, f) THEN c ELSE ShowErrors(d)
  BY DEF Element
<1> HIDE DEF c
<1>3. Agree(c, d) /\ d.outcome = c.outcome /\ DOMAIN d = Keys
  BY <1>1, KeysAre DEF Agree
<1>4. Agree(s, h) /\ h.outcome = s.outcome
  BY <1>1, KeysAre DEF Agree
<1> HIDE DEF d, h
<1>5. Agree(d, ShowErrors(d)) /\ ShowErrors(d).outcome = d.outcome
  BY <1>3, ShowErrorsAgrees
<1>6. FormInv(h) /\ FormInv(d)
  BY <1>1, <1>3, <1>4, AgreeKeeps
<1>7. FormInv(ShowErrors(d))
  BY <1>5, <1>6, AgreeKeeps
<1> QED
  BY <1>1, <1>2, <1>3, <1>4, <1>5, <1>6, <1>7

LEMMA ElementKeeps ==
    ASSUME ValidationInv, NEW f \in Field, Touch(f) \/ Repeat(f)
    PROVE  ValidationInv'
<1>1. /\ value' = value /\ form.outcome # "sent" /\ form' = Element(form, f)
      /\ value \in [Field -> Value] /\ FormInv(form)
  BY DEF Touch, Repeat, Open, outcome, ValidationInv
<1>2. FormInv(Element(form, f)) /\ Element(form, f).outcome = form.outcome
  BY <1>1, ElementAgrees
<1>3. FormInv(form)'
  BY <1>1, <1>2 DEF FormInv, RemoteInv, Accepts
<1> QED
  BY <1>1, <1>2, <1>3, NotSent DEF ValidationInv

\* Without a validator, and by a bypassing button, the form goes unchecked.
LEMMA UncheckedKeeps ==
    ASSUME ValidationInv, value' = value,
           form' = [form EXCEPT !.outcome = "unchecked"]
    PROVE  ValidationInv'
<1>1. DOMAIN form = Keys
  BY DEF ValidationInv, FormInv
<1>2. Agree(form, form') /\ form'.outcome # "sent"
  BY <1>1, KeysAre DEF Agree
<1> QED
  BY <1>2, AgreeStep DEF ValidationInv

LEMMA ClickKeeps ==
    ASSUME ValidationInv, Click \/ Bypass
    PROVE  ValidationInv'
<1>1. CASE Click /\ form.attached
  <2>1. value' = value /\ hidden' = hidden /\ form' = Submitted(form)
    BY <1>1 DEF Click
  <2>2. FormInv(form') /\ SentInv(form')
    BY <2>1, SubmittedKeeps DEF ValidationInv
  <2>3. FormInv(form)'
    BY <2>2 DEF FormInv, RemoteInv, Accepts
  <2> QED
    BY <2>1, <2>2, <2>3, SentStays DEF ValidationInv
<1>2. CASE Bypass \/ (Click /\ ~form.attached)
  <2>1. value' = value /\ form' = [form EXCEPT !.outcome = "unchecked"]
    BY <1>2 DEF Click, Bypass
  <2> QED
    BY <2>1, UncheckedKeeps
<1> QED
  BY <1>1, <1>2

\* The field that is answered is no longer pending, and its cached verdict, if it
\* is still the one of this question, is the server's.
LEMMA AnswerKeeps ==
    ASSUME ValidationInv, NEW f \in Field, Answer(f)
    PROVE  ValidationInv'
<1> DEFINE query == form.flight[f].query
           valid == Accepts(query)
           s == [form EXCEPT
                    !.flight[f] = [query |-> Nothing, own |-> FALSE],
                    !.previous[f].valid = IF form.flight[f].own THEN valid ELSE @]
           v == Verdict(s, f, valid)
           t == ShowErrors(v)
           u == Stopped(t, f)
<1>1. /\ value' = value /\ hidden' = hidden
      /\ form.outcome # "sent" /\ query # Nothing
      /\ form' = StopRequest(t, f, valid)
  BY DEF Answer, Due, Open, outcome
<1>2. /\ FormInv(form) /\ DOMAIN form = Keys /\ valid \in BOOLEAN
      /\ form.previous \in [Field -> Previous] /\ form.flight \in [Field -> Flight]
      /\ value \in [Field -> Value]
  BY DEF ValidationInv, FormInv, Accepts
<1>3. /\ DOMAIN s = Keys /\ s.outcome = form.outcome
      /\ s.attached = form.attached /\ s.rules = form.rules
      /\ s.pending = form.pending /\ s.pendingRequest = form.pendingRequest
      /\ s.flight = [form.flight EXCEPT ![f] = [query |-> Nothing, own |-> FALSE]]
      /\ s.previous = [form.previous EXCEPT ![f].valid =
                           IF form.flight[f].own THEN valid ELSE @]
  BY <1>2, KeysAre
<1> HIDE DEF s
<1>4. Agree(s, v) /\ v.outcome = s.outcome /\ DOMAIN v = Keys
  BY <1>3, KeysAre DEF Agree, Verdict
<1> HIDE DEF v
<1>5. Agree(v, t) /\ t.outcome = v.outcome
  BY <1>4, ShowErrorsAgrees
<1>6. /\ DOMAIN t = Keys /\ t.outcome # "sent" /\ t.pending = form.pending
      /\ t.pendingRequest = form.pendingRequest
      /\ t.attached = form.attached /\ t.rules = form.rules
      /\ t.previous = s.previous /\ t.flight = s.flight
  BY <1>1, <1>3, <1>4, <1>5 DEF Agree
<1> HIDE DEF t
<1>7. f \in form.pending
  BY <1>1, <1>2 DEF FormInv, RemoteInv
<1>8. FormInv(u)
  <2>1. /\ DOMAIN u = Keys /\ u.pending = form.pending \ {f}
        /\ u.pendingRequest = Cardinality(form.pending \ {f})
        /\ u.attached = form.attached /\ u.rules = form.rules
        /\ u.previous = s.previous /\ u.flight = s.flight
    BY <1>6, KeysAre DEF Stopped
  <2> HIDE DEF u
  <2>2. s.flight \in [Field -> Flight] /\ s.flight[f] = [query |-> Nothing, own |-> FALSE]
    <3>1. [query |-> Nothing, own |-> FALSE] \in Flight
      BY DEF Nothing, Query, Flight
    <3> QED
      BY <1>2, <1>3, <3>1
  <2>3. /\ s.previous \in [Field -> Previous]
        /\ s.previous[f].old = form.previous[f].old
        /\ s.previous[f].valid = IF form.flight[f].own THEN valid ELSE form.previous[f].valid
    BY <1>2, <1>3 DEF Previous
  <2>4. ASSUME NEW g \in Field, g # f
        PROVE  s.flight[g] = form.flight[g] /\ s.previous[g] = form.previous[g]
    BY <1>2, <1>3, <2>4
  <2>5. form.previous[f].old = IF form.flight[f].own THEN query ELSE Nothing
    BY <1>1, <1>2 DEF FormInv, RemoteInv
  <2>6. s.previous[f].old # Nothing /\ s.previous[f].valid => Accepts(s.previous[f].old)
    BY <2>3, <2>5
  <2>7. RemoteInv(u)
    <3> SUFFICES ASSUME NEW g \in Field
                 PROVE  /\ g \notin u.pending => u.flight[g].query = Nothing
                        /\ g \notin u.pending /\ u.previous[g].old # Nothing
                              /\ u.previous[g].valid => Accepts(u.previous[g].old)
                        /\ u.flight[g].query # Nothing =>
                              u.previous[g].old = IF u.flight[g].own
                                                  THEN u.flight[g].query ELSE Nothing
      BY DEF RemoteInv
    <3>1. CASE g = f
      <4>1. u.flight[g].query = Nothing
        BY <2>1, <2>2, <3>1
      <4> QED
        BY <2>1, <2>6, <3>1, <4>1
    <3>2. CASE g # f
      <4>1. (g \in u.pending <=> g \in form.pending)
        BY <2>1, <3>2
      <4>2. u.flight[g] = form.flight[g] /\ u.previous[g] = form.previous[g]
        BY <2>1, <2>4, <3>2
      <4> QED
        BY <1>2, <4>1, <4>2 DEF FormInv, RemoteInv
    <3> QED
      BY <3>1, <3>2
  <2> QED
    BY <1>2, <2>1, <2>2, <2>3, <2>7 DEF FormInv
<1>9. FormInv(form') /\ SentInv(form')
  <2>1. /\ t.pendingRequest = Cardinality(t.pending) /\ t.pending \subseteq Field
        /\ f \in t.pending
    BY <1>2, <1>6, <1>7 DEF FormInv
  <2> HIDE DEF valid
  <2>2. /\ DOMAIN t = Keys /\ t.outcome # "sent" /\ value \in [Field -> Value]
    BY <1>2, <1>6
  <2>3. /\ FormInv(StopRequest(t, f, valid))
        /\ SentInv(StopRequest(t, f, valid))
    BY <1>8, <2>1, <2>2, StopRequestKeeps
  <2> QED
    BY <1>1, <2>3
<1>10. FormInv(form)'
  BY <1>9 DEF FormInv, RemoteInv, Accepts
<1> QED
  BY <1>1, <1>2, <1>9, <1>10, SentStays DEF ValidationInv

\* A field whose answer is lost stays pending: its verdict is not looked at.
LEMMA LoseKeeps ==
    ASSUME ValidationInv, NEW f \in Field, Lose(f)
    PROVE  ValidationInv'
<1>1. /\ FormInv(form) /\ DOMAIN form = Keys /\ form.outcome # "sent"
      /\ form.flight \in [Field -> Flight]
  BY DEF Lose, Due, Open, outcome, ValidationInv, FormInv
<1>2. /\ DOMAIN form' = Keys /\ form'.outcome = form.outcome
      /\ form'.attached = form.attached /\ form'.rules = form.rules
      /\ form'.pending = form.pending /\ form'.pendingRequest = form.pendingRequest
      /\ form'.previous = form.previous
      /\ form'.flight = [form.flight EXCEPT ![f] = [query |-> Nothing, own |-> FALSE]]
  BY <1>1, KeysAre DEF Lose
<1>3. [query |-> Nothing, own |-> FALSE] \in Flight
  BY DEF Nothing, Query, Flight
<1>4. form'.flight \in [Field -> Flight]
  BY <1>1, <1>2, <1>3
<1>5. \A g \in Field : form'.flight[g].query = Nothing \/ form'.flight[g] = form.flight[g]
  BY <1>1, <1>2
<1>6. RemoteInv(form')
  BY <1>1, <1>2, <1>5 DEF FormInv, RemoteInv
<1>7. FormInv(form)'
  BY <1>1, <1>2, <1>4, <1>6 DEF FormInv, RemoteInv, Accepts
<1> QED
  BY <1>1, <1>2, <1>7, NotSent DEF ValidationInv, Lose

\* A reset empties the cache of the inputs in sight, and no question under way
\* belongs to it any more.
LEMMA ClearedKeeps ==
    ASSUME NEW s, FormInv(s)
    PROVE  FormInv(Cleared(s)) /\ Cleared(s).outcome = "none"
<1> DEFINE t == Cleared(s)
<1>1. DOMAIN s = Keys /\ s.flight \in [Field -> Flight] /\ s.previous \in [Field -> Previous]
  BY DEF FormInv
<1>2. /\ DOMAIN t = Keys /\ t.outcome = "none"
      /\ t.attached = s.attached /\ t.rules = s.rules
      /\ t.pending = s.pending /\ t.pendingRequest = s.pendingRequest
      /\ t.previous = [f \in Field |-> IF f \in Elements(s) THEN Fresh.previous[f]
                                       ELSE s.previous[f]]
      /\ t.flight = [f \in Field |-> IF f \in Elements(s) THEN [s.flight[f] EXCEPT !.own = FALSE]
                                     ELSE s.flight[f]]
  <2> DEFINE r == ResetForm(s)
  <2>1. /\ DOMAIN r = Keys /\ r.attached = s.attached /\ r.rules = s.rules
        /\ r.pending = s.pending /\ r.pendingRequest = s.pendingRequest
        /\ r.previous = [f \in Field |-> IF f \in Elements(s) THEN Fresh.previous[f]
                                         ELSE s.previous[f]]
        /\ r.flight = [f \in Field |-> IF f \in Elements(s)
                                       THEN [s.flight[f] EXCEPT !.own = FALSE]
                                       ELSE s.flight[f]]
    BY <1>1, KeysAre DEF ResetForm
  <2> HIDE DEF r
  <2>2. /\ DOMAIN t = Keys /\ t.outcome = "none"
        /\ t.attached = r.attached /\ t.rules = r.rules
        /\ t.pending = r.pending /\ t.pendingRequest = r.pendingRequest
        /\ t.previous = r.previous /\ t.flight = r.flight
    BY <2>1, KeysAre DEF Cleared, r
  <2> QED
    BY <2>1, <2>2
<1> HIDE DEF t
<1>3. Fresh.previous \in [Field -> Previous]
  BY FreshInv DEF FormInv
<1>4. ASSUME NEW f \in Field, f \in Elements(s)
      PROVE  /\ t.flight[f] \in Flight /\ ~t.flight[f].own
             /\ t.flight[f].query = s.flight[f].query
             /\ t.previous[f] \in Previous /\ t.previous[f].old = Nothing
  <2>1. s.flight[f] \in Flight /\ t.flight[f] = [s.flight[f] EXCEPT !.own = FALSE]
    BY <1>1, <1>2, <1>4
  <2>2. t.previous[f] = Fresh.previous[f]
    BY <1>2, <1>4
  <2>3. t.previous[f] \in Previous
    BY <1>3, <2>2
  <2>4. t.previous[f].old = Nothing
    BY <2>2 DEF Fresh
  <2> QED
    BY <2>1, <2>3, <2>4 DEF Flight
<1>5. ASSUME NEW f \in Field, f \notin Elements(s)
      PROVE  t.flight[f] = s.flight[f] /\ t.previous[f] = s.previous[f]
  BY <1>2, <1>5
<1>6. t.flight \in [Field -> Flight] /\ t.previous \in [Field -> Previous]
  <2>1. \A f \in Field : t.flight[f] \in Flight /\ t.previous[f] \in Previous
    BY <1>1, <1>4, <1>5
  <2>2. /\ t.flight = [f \in Field |-> t.flight[f]]
        /\ t.previous = [f \in Field |-> t.previous[f]]
    BY <1>2
  <2> QED
    BY <2>1, <2>2
<1>7. RemoteInv(t)
  <2> SUFFICES ASSUME NEW f \in Field
               PROVE  /\ f \notin t.pending => t.flight[f].query = Nothing
                      /\ f \notin t.pending /\ t.previous[f].old # Nothing
                            /\ t.previous[f].valid => Accepts(t.previous[f].old)
                      /\ t.flight[f].query # Nothing =>
                            t.previous[f].old = IF t.flight[f].own
                                                THEN t.flight[f].query ELSE Nothing
    BY DEF RemoteInv
  <2>1. CASE f \in Elements(s)
    BY <1>2, <1>4, <2>1 DEF FormInv, RemoteInv
  <2>2. CASE f \notin Elements(s)
    BY <1>2, <1>5, <2>2 DEF FormInv, RemoteInv
  <2> QED
    BY <2>1, <2>2
<1>8. FormInv(t)
  BY <1>2, <1>6, <1>7 DEF FormInv
<1> QED
  BY <1>2, <1>8 DEF t

LEMMA ResetKeeps ==
    ASSUME ValidationInv, Reset
    PROVE  ValidationInv'
<1>1. value' \in [Field -> Value]
  BY DEF Reset, Value
<1>2. FormInv(form') /\ form'.outcome # "sent"
  BY ClearedKeeps DEF Reset, Open, outcome, ValidationInv
<1>3. FormInv(form)'
  BY <1>2 DEF FormInv, RemoteInv, Accepts
<1> QED
  BY <1>1, <1>2, <1>3, NotSent DEF ValidationInv

LEMMA ValidationStep == ValidationInv /\ [Next]_vars => ValidationInv'
<1> SUFFICES ASSUME ValidationInv, [Next]_vars PROVE ValidationInv'
  OBVIOUS
<1>1. CASE Next
  <2>1. ASSUME NEW f \in Field, \E v \in Values[f] : Edit(f, v) PROVE ValidationInv'
    BY <2>1, EditKeeps
  <2>2. ASSUME NEW f \in Field, \E skip \in SkipAttach : ParseElement(f, skip)
        PROVE  ValidationInv'
    BY <2>2, ParseElementKeeps
  <2>3. ASSUME NEW f \in Field, Hide(f) \/ Show(f) \/ Touch(f) \/ Repeat(f)
        PROVE  ValidationInv'
    BY <2>3, HideKeeps, ElementKeeps
  <2>4. ASSUME NEW f \in Field, Answer(f) \/ Lose(f) PROVE ValidationInv'
    BY <2>4, AnswerKeeps, LoseKeeps
  <2>5. ASSUME Click \/ Bypass \/ Reset PROVE ValidationInv'
    BY <2>5, ClickKeeps, ResetKeeps
  <2> QED
    BY <1>1, <2>1, <2>2, <2>3, <2>4, <2>5 DEF Next
<1>2. CASE UNCHANGED vars
  <2>1. value' = value /\ hidden' = hidden /\ form' = form
    BY <1>2 DEF vars
  <2> QED
    BY <2>1 DEF ValidationInv, FormInv, RemoteInv, SentInv, Elements, Ruled, AsksServer,
                Passes, Satisfies, Question, Accepts
<1> QED
  BY <1>1, <1>2

----------------------------------------------------------------------------
(* What the form shows of its checks. *)

\* The fields that the next keystroke checks again, or that wait for an answer.
Live(s) == s.submitted \cup s.invalid \cup s.pending

\* The lists and maps hold fields with rules, except for invalid, which element()
\* also fills for a field without; the errors of the last check, which a late
\* verdict and showing both start from, are of live fields, if these were never
\* hidden; a field without rules, or without an element for its message, shows
\* nothing; and a refusal is told.
ListsInv(s) ==
    /\ DOMAIN s = Keys
    /\ DOMAIN s.rules = Field
    /\ ~s.attached => s.rules = NoRules
    /\ s.submitted \cup s.pending \cup s.bound \subseteq Ruled(s)
    /\ s.invalid \subseteq Field
    /\ s.errorMap \subseteq Ruled(s) \cap (Live(s) \cup concealed)
    /\ s.errorMap \cap s.successList = {}
    /\ s.box \in [Field -> [error : BOOLEAN, text : BOOLEAN]]
    /\ \A f \in Field : Box[f] = "none" \/ f \notin Ruled(s) => ~s.box[f].error
    /\ s.summary \in [error : BOOLEAN, list : SUBSET Field]
    /\ s.formSubmitted \in BOOLEAN
    /\ s.outcome \in Outcome
    /\ s.outcome = "refused" /\ HasSummary => s.summary.error /\ s.summary.list # {}

ShownInv(s) ==
    /\ ListsInv(s)
    /\ \A f \in Field : s.box[f].error => f \in Live(s) \cup concealed

\* Everything in ValidationTypeOK that ValidationInv does not say, with what the
\* two properties of the page need to be inductive.
PageInv ==
    /\ hidden \subseteq concealed /\ concealed \subseteq Hideable
    /\ DOMAIN options = Field
    /\ edits \in 0..EditLimit /\ lost \in 0..LostLimit
    /\ ShownInv(form)

\* A form with the same checks and messages shows the same.
SameShown(s, t) ==
    /\ DOMAIN t = Keys
    /\ t.attached = s.attached /\ t.rules = s.rules
    /\ t.submitted = s.submitted /\ t.invalid = s.invalid /\ t.pending = s.pending
    /\ t.errorMap = s.errorMap /\ t.successList = s.successList /\ t.bound = s.bound
    /\ t.box = s.box /\ t.summary = s.summary

\* Only a decided click changes besides: and it is refused with the summary shown.
LEMMA SameShownKeeps ==
    ASSUME NEW s, NEW t, ShownInv(s), SameShown(s, t),
           t.formSubmitted \in BOOLEAN, t.outcome \in Outcome,
           t.outcome = "refused" /\ HasSummary => s.summary.error /\ s.summary.list # {}
    PROVE  ShownInv(t)
BY DEF ShownInv, ListsInv, SameShown, Live, Ruled

\* The summary lists the errors that a check has found.
LEMMA OnErrorsLists ==
    ASSUME NEW s, ListsInv(s)
    PROVE  /\ ListsInv(OnErrors(s))
           /\ OnErrors(s).box = s.box /\ OnErrors(s).errorMap = s.errorMap
           /\ OnErrors(s).successList = s.successList
           /\ OnErrors(s).outcome = s.outcome /\ OnErrors(s).formSubmitted = s.formSubmitted
           /\ Live(OnErrors(s)) = Live(s) /\ OnErrors(s).rules = s.rules
           /\ HasSummary /\ s.errorMap # {} =>
                 OnErrors(s).summary.error /\ OnErrors(s).summary.list # {}
<1> DEFINE t == OnErrors(s)
<1>0. DOMAIN s = Keys /\ s.errorMap \subseteq Field
  BY DEF ListsInv, Ruled
<1>1. CASE HasSummary /\ s.errorMap # {}
  <2>1. t = [s EXCEPT !.summary = [error |-> TRUE, list |-> s.errorMap]]
    BY <1>1 DEF OnErrors
  <2>2. /\ DOMAIN t = Keys /\ t.summary = [error |-> TRUE, list |-> s.errorMap]
        /\ t.attached = s.attached /\ t.rules = s.rules
        /\ t.submitted = s.submitted /\ t.invalid = s.invalid /\ t.pending = s.pending
        /\ t.errorMap = s.errorMap /\ t.successList = s.successList /\ t.box = s.box
        /\ t.bound = s.bound
        /\ t.formSubmitted = s.formSubmitted /\ t.outcome = s.outcome
    BY <1>0, <2>1, KeysAre
  <2> HIDE DEF t
  <2>4. t.summary \in [error : BOOLEAN, list : SUBSET Field] /\ t.summary.error
        /\ t.summary.list # {}
    BY <1>0, <1>1, <2>2
  <2>5. ListsInv(t) /\ Live(t) = Live(s)
    BY <2>2, <2>4 DEF ListsInv, Live, Ruled
  <2> QED
    BY <2>2, <2>4, <2>5 DEF t
<1>2. CASE ~(HasSummary /\ s.errorMap # {})
  <2>1. t = s
    BY <1>2 DEF OnErrors
  <2> QED
    BY <1>2, <2>1
<1> QED
  BY <1>1, <1>2

\* Showing leaves an error on live fields only, if every other error is of a field
\* that the check found right.
LEMMA ShowErrorsShows ==
    ASSUME NEW s, ListsInv(s),
           \A f \in Field : s.box[f].error => f \in Live(s) \cup concealed \cup s.successList
    PROVE  ShownInv(ShowErrors(s))
<1> DEFINE t == ShowErrors(s)
           Shown(f) == IF Box[f] = "none" THEN s.box[f]
                       ELSE IF f \in s.successList THEN OnSuccess(f, s.box[f])
                       ELSE IF f \in s.errorMap THEN OnError(f, s.box[f])
                       ELSE s.box[f]
<1>1. /\ DOMAIN t = Keys /\ t.box = [f \in Field |-> Shown(f)]
      /\ t.attached = s.attached /\ t.rules = s.rules
      /\ t.submitted = s.submitted /\ t.invalid = s.invalid /\ t.pending = s.pending
      /\ t.errorMap = s.errorMap /\ t.successList = s.successList
      /\ t.summary = s.summary /\ t.bound = s.bound
      /\ t.formSubmitted = s.formSubmitted /\ t.outcome = s.outcome
  BY KeysAre DEF ListsInv, ShowErrors
<1> HIDE DEF t
<1>2. ASSUME NEW f \in Field
      PROVE  /\ t.box[f] \in [error : BOOLEAN, text : BOOLEAN]
             /\ Box[f] = "none" \/ f \notin Ruled(s) => ~t.box[f].error
             /\ t.box[f].error => f \in Live(s) \cup concealed
  <2>1. /\ s.box[f] \in [error : BOOLEAN, text : BOOLEAN]
        /\ Box[f] = "none" \/ f \notin Ruled(s) => ~s.box[f].error
        /\ s.box[f].error => f \in Live(s) \cup concealed \cup s.successList
        /\ s.errorMap \subseteq Ruled(s) \cap (Live(s) \cup concealed)
    BY DEF ListsInv
  <2>2. t.box[f] = Shown(f)
    BY <1>1
  <2>3. /\ OnSuccess(f, s.box[f]) \in [error : BOOLEAN, text : BOOLEAN]
        /\ ~OnSuccess(f, s.box[f]).error
        /\ OnError(f, s.box[f]) \in [error : BOOLEAN, text : BOOLEAN]
    BY <2>1 DEF OnSuccess, OnError
  <2> QED
    BY <2>1, <2>2, <2>3
<1>3. t.box \in [Field -> [error : BOOLEAN, text : BOOLEAN]]
  BY <1>1, <1>2
<1>4. Live(t) = Live(s) /\ Ruled(t) = Ruled(s)
  BY <1>1 DEF Live, Ruled
<1>5. ListsInv(t)
  BY <1>1, <1>2, <1>3, <1>4 DEF ListsInv
<1> QED
  BY <1>2, <1>4, <1>5 DEF ShownInv, t

\* A check of some fields makes live the ones that it finds wrong or asks about.
LEMMA CheckShows ==
    ASSUME NEW s, ShownInv(s), NEW fields \in SUBSET Field
    PROVE  /\ ShownInv(Check(s, fields))
           /\ Check(s, fields).rules = s.rules
           /\ Check(s, fields).outcome = s.outcome
           /\ Check(s, fields).box = s.box
           /\ Checked(s, fields) \cap Ruled(s)
                 \subseteq Check(s, fields).errorMap \cup Check(s, fields).pending
                              \cup Check(s, fields).successList
<1> DEFINE c == Check(s, fields)
           checked == Checked(s, fields)
           asked == ToAsk(s, checked)
           wrong == Wrong(s, checked)
           blurs == {f \in Tried(s, fields) : Reached(s, f, "equalTo")}
<1>0. /\ DOMAIN s = Keys
      /\ asked \subseteq Ruled(s) /\ wrong \subseteq Ruled(s) /\ blurs \subseteq Ruled(s)
  <2>1. checked \subseteq Field /\ Tried(s, fields) \subseteq Field
    BY DEF Checked, Tried
  <2>2. asked \subseteq Ruled(s) /\ wrong \subseteq Ruled(s)
    BY <2>1 DEF ToAsk, Wrong, AsksServer, Passes, Ruled
  <2>3. blurs \subseteq Ruled(s)
    BY <2>1 DEF Reached, Ruled
  <2> QED
    BY <2>2, <2>3 DEF ShownInv, ListsInv
<1>1. /\ DOMAIN c = Keys
      /\ c.attached = s.attached /\ c.rules = s.rules
      /\ c.submitted = s.submitted \cup wrong
      /\ c.invalid = s.invalid
      /\ c.pending = s.pending \cup asked
      /\ c.errorMap = wrong
      /\ c.successList = (checked \cap Ruled(s)) \ (asked \cup wrong)
      /\ c.bound = s.bound \cup blurs
      /\ c.box = s.box /\ c.summary = s.summary
      /\ c.formSubmitted = s.formSubmitted /\ c.outcome = s.outcome
  BY <1>0, KeysAre DEF Check, Marked, StartRequests
<1> HIDE DEF c, checked, asked, wrong, blurs
<1>2. Live(c) = Live(s) \cup asked \cup wrong /\ Ruled(c) = Ruled(s)
  BY <1>1 DEF Live, Ruled
<1>3. /\ c.submitted \cup c.pending \cup c.bound \subseteq Ruled(c)
      /\ c.errorMap \subseteq Ruled(c) \cap (Live(c) \cup concealed)
      /\ c.errorMap \cap c.successList = {}
  BY <1>0, <1>1, <1>2 DEF ShownInv, ListsInv
<1>4. ListsInv(c)
  BY <1>1, <1>2, <1>3 DEF ShownInv, ListsInv
<1>5. \A f \in Field : c.box[f].error => f \in Live(c) \cup concealed
  BY <1>1, <1>2 DEF ShownInv
<1>6. checked \cap Ruled(s) \subseteq c.errorMap \cup c.pending \cup c.successList
  BY <1>1
<1> QED
  BY <1>1, <1>4, <1>5, <1>6 DEF ShownInv, c, checked

\* A check of the whole form starts a new map of invalid fields: a message whose
\* field leaves it is one of a field that is right now, or that is out of sight.
LEMMA FormShows ==
    ASSUME NEW s, ShownInv(s), hidden \subseteq concealed
    PROVE  /\ ShownInv(Form(s))
           /\ Form(s).outcome = s.outcome /\ Form(s).formSubmitted \in BOOLEAN
           /\ HasSummary /\ Thrown(s, Elements(s)) = {} /\ Form(s).errorMap # {} =>
                 Form(s).summary.error /\ Form(s).summary.list # {}
<1> DEFINE c == Check(s, Elements(s))
           d == [c EXCEPT !.invalid = c.errorMap]
           e == OnErrors(d)
<1>1. /\ ShownInv(c) /\ DOMAIN c = Keys
      /\ c.rules = s.rules /\ c.outcome = s.outcome
      /\ Checked(s, Elements(s)) \cap Ruled(s)
           \subseteq c.errorMap \cup c.pending \cup c.successList
  <2>1. Elements(s) \in SUBSET Field
    BY DEF Elements, Ruled
  <2> QED
    BY <2>1, CheckShows DEF ShownInv, ListsInv
<1>t. Form(s) = IF Thrown(s, Elements(s)) # {} THEN c ELSE ShowErrors(e)
  BY DEF Form
<1> HIDE DEF c
<1>2. /\ DOMAIN d = Keys /\ d.invalid = c.errorMap
      /\ d.attached = c.attached /\ d.rules = c.rules
      /\ d.submitted = c.submitted /\ d.pending = c.pending
      /\ d.errorMap = c.errorMap /\ d.successList = c.successList /\ d.bound = c.bound
      /\ d.box = c.box /\ d.summary = c.summary
      /\ d.formSubmitted = c.formSubmitted /\ d.outcome = c.outcome
  BY <1>1, KeysAre
<1>a. CASE Thrown(s, Elements(s)) # {}
  BY <1>1, <1>t, <1>a DEF ShownInv, ListsInv
<1>b. CASE Thrown(s, Elements(s)) = {}
  <2> HIDE DEF d
  <2>1. Form(s) = ShowErrors(e)
    BY <1>t, <1>b
  <2>2. Ruled(s) \ hidden \subseteq c.errorMap \cup c.pending \cup c.successList
    BY <1>1, <1>b DEF Checked, Tried, Elements
  <2>3. /\ c.errorMap \subseteq Live(d) /\ c.pending \subseteq Live(d)
        /\ Ruled(d) = Ruled(c) /\ Ruled(c) = Ruled(s)
    BY <1>1, <1>2 DEF Live, Ruled
  <2>4. ListsInv(d)
    <3>1. c.errorMap \subseteq Field
      BY <1>1 DEF ShownInv, ListsInv, Ruled
    <3> QED
      BY <1>1, <1>2, <2>3, <3>1 DEF ShownInv, ListsInv
  <2>5. \A f \in Field : d.box[f].error => f \in Live(d) \cup concealed \cup d.successList
    <3>1. \A f \in Field : c.box[f].error => f \in Ruled(s)
      BY <1>1, <2>3 DEF ShownInv, ListsInv
    <3> QED
      BY <1>2, <2>2, <2>3, <3>1
  <2>6. /\ ListsInv(e) /\ Live(e) = Live(d) /\ e.box = d.box
        /\ e.successList = d.successList /\ e.errorMap = d.errorMap
        /\ e.outcome = d.outcome
        /\ HasSummary /\ d.errorMap # {} => e.summary.error /\ e.summary.list # {}
    BY <2>4, OnErrorsLists
  <2> HIDE DEF e
  <2>7. ShownInv(ShowErrors(e))
    BY <2>5, <2>6, ShowErrorsShows
  <2>8. /\ ShowErrors(e).errorMap = e.errorMap /\ ShowErrors(e).outcome = e.outcome
        /\ ShowErrors(e).summary = e.summary
    BY <2>6, KeysAre DEF ShowErrors, ListsInv
  <2>9. Form(s).formSubmitted \in BOOLEAN
    BY <2>1, <2>7 DEF ShownInv, ListsInv
  <2> QED
    BY <1>1, <1>2, <2>1, <2>6, <2>7, <2>8, <2>9
<1> QED
  BY <1>a, <1>b

\* Deciding a form that has been checked.
LEMMA DecidedShows ==
    ASSUME NEW d, ShownInv(d), NEW o \in Outcome, NEW b \in BOOLEAN,
           o = "refused" /\ HasSummary => d.summary.error /\ d.summary.list # {}
    PROVE  ShownInv([d EXCEPT !.formSubmitted = b, !.outcome = o])
<1> DEFINE t == [d EXCEPT !.formSubmitted = b, !.outcome = o]
<1>1. SameShown(d, t) /\ t.formSubmitted = b /\ t.outcome = o
  BY KeysAre DEF ShownInv, ListsInv, SameShown
<1> HIDE DEF t
<1>2. ShownInv(t)
  BY <1>1, SameShownKeeps
<1> QED
  BY <1>2 DEF t

LEMMA SubmittedShows ==
    ASSUME NEW s, ShownInv(s), hidden \subseteq concealed
    PROVE  ShownInv(Submitted(s))
<1> DEFINE c == Form(s)
<1>1. /\ ShownInv(c) /\ c.formSubmitted \in BOOLEAN /\ DOMAIN c = Keys
      /\ HasSummary /\ Thrown(s, Elements(s)) = {} /\ c.errorMap # {} =>
            c.summary.error /\ c.summary.list # {}
  BY FormShows DEF ShownInv, ListsInv
<1>2. Submitted(s) = IF Thrown(s, Elements(s)) # {} THEN [c EXCEPT !.outcome = "unchecked"]
                     ELSE IF c.errorMap # {} THEN [c EXCEPT !.outcome = "refused"]
                     ELSE IF c.pendingRequest # 0
                          THEN [c EXCEPT !.formSubmitted = TRUE, !.outcome = "waiting"]
                     ELSE [c EXCEPT !.outcome = "sent"]
  BY DEF Submitted, Decided
<1> HIDE DEF c
<1>3. \A o \in Outcome : [c EXCEPT !.outcome = o]
                           = [c EXCEPT !.formSubmitted = c.formSubmitted, !.outcome = o]
  BY <1>1, KeysAre
<1>4. {"refused", "waiting", "sent", "unchecked"} \subseteq Outcome
  BY DEF Outcome
<1>5. CASE Thrown(s, Elements(s)) = {} /\ c.errorMap # {}
  <2>1. ShownInv([c EXCEPT !.formSubmitted = c.formSubmitted, !.outcome = "refused"])
    BY <1>1, <1>4, <1>5, DecidedShows
  <2> QED
    BY <1>2, <1>3, <1>4, <1>5, <2>1
<1>6. CASE Thrown(s, Elements(s)) = {} /\ c.errorMap = {} /\ c.pendingRequest # 0
  <2>1. ShownInv([c EXCEPT !.formSubmitted = TRUE, !.outcome = "waiting"])
    BY <1>1, <1>4, DecidedShows
  <2> QED
    BY <1>2, <1>6, <2>1
<1>7. CASE Thrown(s, Elements(s)) = {} /\ c.errorMap = {} /\ c.pendingRequest = 0
  <2>1. ShownInv([c EXCEPT !.formSubmitted = c.formSubmitted, !.outcome = "sent"])
    BY <1>1, <1>4, DecidedShows
  <2> QED
    BY <1>2, <1>3, <1>4, <1>7, <2>1
<1>8. CASE Thrown(s, Elements(s)) # {}
  <2>1. ShownInv([c EXCEPT !.formSubmitted = c.formSubmitted, !.outcome = "unchecked"])
    BY <1>1, <1>4, DecidedShows
  <2> QED
    BY <1>2, <1>3, <1>4, <1>8, <2>1
<1> QED
  BY <1>5, <1>6, <1>7, <1>8

\* The field that is answered has joined the invalid map before it stops waiting,
\* and a refusing answer has put it among the errors that the summary lists.
LEMMA StopRequestShows ==
    ASSUME NEW s, ShownInv(s), hidden \subseteq concealed,
           NEW f \in s.invalid, NEW valid \in BOOLEAN,
           ~valid => f \in s.errorMap
    PROVE  ShownInv(StopRequest(s, f, valid))
<1> DEFINE c == [s EXCEPT !.pendingRequest = IF @ > 0 THEN @ - 1 ELSE 0, !.pending = @ \ {f}]
           d == Form(c)
           e == OnErrors(c)
           t == StopRequest(s, f, valid)
<1>1. /\ DOMAIN c = Keys
      /\ c.attached = s.attached /\ c.rules = s.rules
      /\ c.submitted = s.submitted /\ c.invalid = s.invalid /\ c.pending = s.pending \ {f}
      /\ c.errorMap = s.errorMap /\ c.successList = s.successList /\ c.bound = s.bound
      /\ c.box = s.box /\ c.summary = s.summary
      /\ c.formSubmitted = s.formSubmitted /\ c.outcome = s.outcome
  BY KeysAre DEF ShownInv, ListsInv
<1>2. t = IF c.pendingRequest # 0 \/ ~c.formSubmitted THEN c
          ELSE IF ~valid THEN [e EXCEPT !.formSubmitted = FALSE, !.outcome = "refused"]
          ELSE IF Thrown(c, Elements(c)) # {} THEN [d EXCEPT !.outcome = "interrupted"]
          ELSE IF d.errorMap # {} THEN [d EXCEPT !.outcome = "refused"]
          ELSE IF d.pendingRequest # 0 THEN d
          ELSE [d EXCEPT !.formSubmitted = FALSE, !.outcome = "sent"]
  BY DEF StopRequest, Resubmitted
<1> SUFFICES ShownInv(t)
  OBVIOUS
<1> HIDE DEF c, t
<1>3. ShownInv(c)
  <2>1. Live(c) = Live(s) /\ Ruled(c) = Ruled(s)
    BY <1>1 DEF Live, Ruled
  <2> QED
    BY <1>1, <2>1 DEF ShownInv, ListsInv
<1>4. /\ ShownInv(d) /\ DOMAIN d = Keys /\ d.formSubmitted \in BOOLEAN
      /\ HasSummary /\ Thrown(c, Elements(c)) = {} /\ d.errorMap # {} =>
            d.summary.error /\ d.summary.list # {}
  BY <1>3, FormShows DEF ShownInv, ListsInv
<1>5. /\ ListsInv(e) /\ Live(e) = Live(c) /\ e.box = c.box
      /\ HasSummary /\ c.errorMap # {} => e.summary.error /\ e.summary.list # {}
  BY <1>3, OnErrorsLists DEF ShownInv
<1> HIDE DEF d, e
<1>6. {"refused", "waiting", "sent", "interrupted"} \subseteq Outcome
  BY DEF Outcome
<1>7. CASE ~valid /\ t = [e EXCEPT !.formSubmitted = FALSE, !.outcome = "refused"]
  <2>1. ShownInv(e)
    BY <1>3, <1>5 DEF ShownInv
  <2>2. HasSummary => e.summary.error /\ e.summary.list # {}
    BY <1>1, <1>5, <1>7
  <2>3. ShownInv([e EXCEPT !.formSubmitted = FALSE, !.outcome = "refused"])
    BY <1>6, <2>1, <2>2, DecidedShows
  <2> QED
    BY <1>6, <1>7, <2>3
<1>8. CASE /\ Thrown(c, Elements(c)) = {} /\ d.errorMap # {}
           /\ t = [d EXCEPT !.outcome = "refused"]
  <2>1. t = [d EXCEPT !.formSubmitted = d.formSubmitted, !.outcome = "refused"]
    BY <1>4, <1>8, KeysAre
  <2>2. ShownInv([d EXCEPT !.formSubmitted = d.formSubmitted, !.outcome = "refused"])
    BY <1>4, <1>6, <1>8, DecidedShows
  <2> QED
    BY <2>1, <2>2
<1>9. CASE t = [d EXCEPT !.formSubmitted = FALSE, !.outcome = "sent"]
  <2>1. ShownInv([d EXCEPT !.formSubmitted = FALSE, !.outcome = "sent"])
    BY <1>4, <1>6, DecidedShows
  <2> QED
    BY <1>9, <2>1
<1>10. CASE t = c \/ t = d
  BY <1>3, <1>4, <1>10
<1>11. CASE t = [d EXCEPT !.outcome = "interrupted"]
  <2>1. t = [d EXCEPT !.formSubmitted = d.formSubmitted, !.outcome = "interrupted"]
    BY <1>4, <1>11, KeysAre
  <2>2. ShownInv([d EXCEPT !.formSubmitted = d.formSubmitted, !.outcome = "interrupted"])
    BY <1>4, <1>6, DecidedShows
  <2> QED
    BY <2>1, <2>2
<1> QED
  BY <1>2, <1>7, <1>8, <1>9, <1>10, <1>11

----------------------------------------------------------------------------
(* The actions. *)

\* A validator that attaches has checked nothing yet.
LEMMA AttachShows ==
    ASSUME NEW s, ShownInv(s), NEW rules
    PROVE  ShownInv(Attach(s, rules))
<1>1. CASE s.attached
  BY <1>1 DEF Attach
<1>2. CASE ~s.attached
  <2> DEFINE t == [s EXCEPT !.attached = TRUE,
                            !.rules = [f \in Field |-> Copied(rules[f])]]
  <2>1. /\ DOMAIN s = Keys /\ s.submitted = {} /\ s.pending = {} /\ s.bound = {}
        /\ s.errorMap = {} /\ \A f \in Field : ~s.box[f].error
    BY <1>2 DEF ShownInv, ListsInv, Ruled, NoRules
  <2>2. /\ DOMAIN t = Keys /\ t.attached /\ DOMAIN t.rules = Field
        /\ t.submitted = s.submitted /\ t.invalid = s.invalid /\ t.pending = s.pending
        /\ t.errorMap = s.errorMap /\ t.successList = s.successList /\ t.bound = s.bound
        /\ t.box = s.box /\ t.summary = s.summary
        /\ t.formSubmitted = s.formSubmitted /\ t.outcome = s.outcome
    BY <2>1, KeysAre
  <2>3. Attach(s, rules) = t
    BY <1>2 DEF Attach
  <2> HIDE DEF t
  <2>4. ListsInv(t)
    BY <2>1, <2>2 DEF ShownInv, ListsInv
  <2> QED
    BY <2>1, <2>2, <2>3, <2>4 DEF ShownInv
<1> QED
  BY <1>1, <1>2

LEMMA FreshShown == ShownInv(Fresh)
<1>1. /\ ~Fresh.attached /\ Fresh.rules = NoRules
      /\ Fresh.submitted = {} /\ Fresh.invalid = {} /\ Fresh.pending = {}
      /\ Fresh.errorMap = {} /\ Fresh.successList = {} /\ Fresh.bound = {}
      /\ Fresh.box = [f \in Field |-> [error |-> FALSE, text |-> FALSE]]
      /\ Fresh.summary = [error |-> FALSE, list |-> {}]
      /\ Fresh.formSubmitted = FALSE /\ Fresh.outcome = "none"
  BY DEF Fresh
<1>2. Live(Fresh) = {} /\ DOMAIN Fresh.rules = Field /\ DOMAIN Fresh = Keys
  BY <1>1 DEF Live, NoRules, Keys
<1>3. /\ Fresh.box \in [Field -> [error : BOOLEAN, text : BOOLEAN]]
      /\ \A f \in Field : ~Fresh.box[f].error
      /\ Fresh.summary \in [error : BOOLEAN, list : SUBSET Field]
      /\ Fresh.outcome \in Outcome
  BY <1>1 DEF Outcome
<1> QED
  BY <1>1, <1>2, <1>3 DEF ShownInv, ListsInv

LEMMA PageStart == Init => PageInv
<1> SUFFICES ASSUME Init PROVE PageInv
  OBVIOUS
<1>1. /\ DOMAIN options = Field /\ edits \in 0..EditLimit /\ lost \in 0..LostLimit
      /\ hidden \subseteq concealed /\ concealed \subseteq Hideable
  BY ValidationAssumption DEF Init, Loaded, AtReady
<1>2. form = Fresh \/ form = Attach(Fresh, AtReady)
  BY DEF Init, Loaded
<1> QED
  BY <1>1, <1>2, FreshShown, AttachShows DEF PageInv

\* The next state, for a step whose new form shows what it should.
LEMMA PageStep ==
    ASSUME PageInv, ShownInv(form'), DOMAIN options' = Field,
           hidden' \subseteq concealed', concealed' \subseteq Hideable,
           concealed \subseteq concealed',
           edits' \in 0..EditLimit, lost' \in 0..LostLimit
    PROVE  PageInv'
<1>1. ShownInv(form)'
  BY DEF ShownInv, ListsInv, Live, Ruled
<1> QED
  BY <1>1 DEF PageInv

\* Checking one input: if it is out of sight it leaves the invalid map, and with
\* it the fields that are live; if its check throws nothing is shown.
LEMMA ElementShows ==
    ASSUME PageInv, NEW f \in Field, Touch(f) \/ Repeat(f)
    PROVE  PageInv'
<1> DEFINE c == Check(form, {f})
           d == [c EXCEPT !.invalid = @ \cup {f}]
           h == [form EXCEPT !.invalid = @ \ {f}]
<1>1. ShownInv(form) /\ DOMAIN form = Keys
  BY DEF PageInv, ShownInv, ListsInv
<1>2. ShownInv(c) /\ DOMAIN c = Keys
  <2>1. {f} \in SUBSET Field
    OBVIOUS
  <2>2. ShownInv(c)
    BY <1>1, <2>1, CheckShows
  <2> QED
    BY <2>2 DEF ShownInv, ListsInv
<1>3. form' = IF f \in hidden THEN h ELSE IF Throws(form, f) THEN c ELSE ShowErrors(d)
  BY DEF Touch, Repeat, Element
<1> HIDE DEF c
<1>4. /\ DOMAIN d = Keys /\ d.invalid = c.invalid \cup {f}
      /\ d.attached = c.attached /\ d.rules = c.rules
      /\ d.submitted = c.submitted /\ d.pending = c.pending
      /\ d.errorMap = c.errorMap /\ d.successList = c.successList /\ d.bound = c.bound
      /\ d.box = c.box /\ d.summary = c.summary
      /\ d.formSubmitted = c.formSubmitted /\ d.outcome = c.outcome
  BY <1>2, KeysAre
<1> HIDE DEF d
<1>5. Live(d) = Live(c) \cup {f} /\ Ruled(d) = Ruled(c)
  BY <1>4 DEF Live, Ruled
<1>6. ListsInv(d) /\ \A g \in Field : d.box[g].error => g \in Live(d) \cup concealed
  BY <1>2, <1>4, <1>5 DEF ShownInv, ListsInv
<1>7. ShownInv(ShowErrors(d))
  BY <1>6, ShowErrorsShows
<1>8. ASSUME f \in hidden
      PROVE  ShownInv(h)
  <2>1. /\ DOMAIN h = Keys /\ h.invalid = form.invalid \ {f}
        /\ h.attached = form.attached /\ h.rules = form.rules
        /\ h.submitted = form.submitted /\ h.pending = form.pending
        /\ h.errorMap = form.errorMap /\ h.successList = form.successList
        /\ h.bound = form.bound /\ h.box = form.box /\ h.summary = form.summary
        /\ h.formSubmitted = form.formSubmitted /\ h.outcome = form.outcome
    BY <1>1, KeysAre
  <2> HIDE DEF h
  <2>2. Ruled(h) = Ruled(form) /\ Live(form) \subseteq Live(h) \cup {f} /\ f \in concealed
    BY <1>8, <2>1 DEF Live, Ruled, PageInv
  <2>3. h.errorMap \subseteq Ruled(h) \cap (Live(h) \cup concealed)
    BY <1>1, <2>1, <2>2 DEF ShownInv, ListsInv
  <2>4. ListsInv(h)
    BY <1>1, <2>1, <2>2, <2>3 DEF ShownInv, ListsInv
  <2> QED
    BY <1>1, <2>1, <2>2, <2>4 DEF ShownInv
<1>9. ShownInv(form')
  BY <1>2, <1>3, <1>7, <1>8
<1> QED
  BY <1>9, PageStep DEF Touch, Repeat, PageInv

LEMMA AnswerShows ==
    ASSUME ValidationInv, PageInv, NEW f \in Field, Answer(f)
    PROVE  PageInv'
<1> DEFINE valid == Accepts(form.flight[f].query)
           s == [form EXCEPT
                    !.flight[f] = [query |-> Nothing, own |-> FALSE],
                    !.previous[f].valid = IF form.flight[f].own THEN valid ELSE @]
           v == Verdict(s, f, valid)
<1>1. /\ ShownInv(form) /\ DOMAIN form = Keys /\ f \in form.pending /\ valid \in BOOLEAN
      /\ form' = StopRequest(ShowErrors(v), f, valid)
  BY DEF PageInv, ShownInv, ListsInv, ValidationInv, FormInv, RemoteInv, Answer, Due, Accepts
<1> HIDE DEF valid
<1>2. SameShown(form, s) /\ s.formSubmitted = form.formSubmitted /\ s.outcome = form.outcome
  BY <1>1, KeysAre DEF SameShown
<1> HIDE DEF s
<1>3. ShownInv(s) /\ f \in s.pending /\ DOMAIN s = Keys
  BY <1>1, <1>2, SameShownKeeps DEF SameShown, ShownInv, ListsInv
<1>4. /\ DOMAIN v = Keys /\ v.invalid = s.invalid \cup {f}
      /\ v.errorMap = (IF valid THEN {} ELSE s.errorMap \cup {f})
      /\ v.successList = (IF valid THEN {f} ELSE s.successList \ {f})
      /\ v.attached = s.attached /\ v.rules = s.rules
      /\ v.submitted = s.submitted /\ v.pending = s.pending /\ v.bound = s.bound
      /\ v.box = s.box /\ v.summary = s.summary
      /\ v.formSubmitted = s.formSubmitted /\ v.outcome = s.outcome
  BY <1>3, KeysAre DEF Verdict
<1> HIDE DEF v
<1>5. Live(v) = Live(s) /\ Ruled(v) = Ruled(s) /\ f \in Live(s)
  BY <1>3, <1>4 DEF Live, Ruled
<1>6. ListsInv(v)
  BY <1>1, <1>3, <1>4, <1>5 DEF ShownInv, ListsInv
<1>7. \A g \in Field : v.box[g].error => g \in Live(v) \cup concealed
  BY <1>3, <1>4, <1>5 DEF ShownInv
<1>8. ShownInv(ShowErrors(v))
  BY <1>6, <1>7, ShowErrorsShows
<1>9. /\ ShowErrors(v).invalid = v.invalid /\ ShowErrors(v).errorMap = v.errorMap
  BY <1>4, KeysAre DEF ShowErrors
<1>10. ShownInv(form')
  <2>1. hidden \subseteq concealed
    BY DEF PageInv
  <2> QED
    BY <1>1, <1>4, <1>8, <1>9, <2>1, StopRequestShows
<1> QED
  BY <1>10, PageStep DEF Answer, PageInv

\* A reset empties the maps and takes the error class off every message element.
LEMMA ClearedShows ==
    ASSUME NEW s, ShownInv(s)
    PROVE  ShownInv(Cleared(s))
<1> DEFINE t == Cleared(s)
<1>1. /\ DOMAIN t = Keys
      /\ t.attached = s.attached /\ t.rules = s.rules
      /\ t.submitted = {} /\ t.invalid = {} /\ t.pending = s.pending
      /\ t.errorMap = {} /\ t.successList = {} /\ t.bound = s.bound
      /\ t.box = [f \in Field |-> [s.box[f] EXCEPT !.error = FALSE]]
      /\ t.summary = [s.summary EXCEPT !.error = FALSE]
      /\ t.formSubmitted = s.formSubmitted /\ t.outcome = "none"
  <2> DEFINE r == ResetForm(s)
  <2>1. /\ DOMAIN r = Keys
        /\ r.attached = s.attached /\ r.rules = s.rules
        /\ r.submitted = {} /\ r.invalid = {} /\ r.pending = s.pending
        /\ r.errorMap = {} /\ r.successList = {} /\ r.bound = s.bound
        /\ r.box = s.box /\ r.summary = s.summary /\ r.formSubmitted = s.formSubmitted
    BY KeysAre DEF ShownInv, ListsInv, ResetForm
  <2> HIDE DEF r
  <2>2. /\ DOMAIN t = Keys
        /\ t.attached = r.attached /\ t.rules = r.rules
        /\ t.submitted = r.submitted /\ t.invalid = r.invalid /\ t.pending = r.pending
        /\ t.errorMap = r.errorMap /\ t.successList = r.successList /\ t.bound = r.bound
        /\ t.box = [f \in Field |-> [r.box[f] EXCEPT !.error = FALSE]]
        /\ t.summary = [r.summary EXCEPT !.error = FALSE]
        /\ t.formSubmitted = r.formSubmitted /\ t.outcome = "none"
    BY <2>1, KeysAre DEF Cleared, r
  <2> QED
    BY <2>1, <2>2
<1> HIDE DEF t
<1>2. \A f \in Field : t.box[f] \in [error : BOOLEAN, text : BOOLEAN] /\ ~t.box[f].error
  <2> SUFFICES ASSUME NEW f \in Field
               PROVE  /\ t.box[f] \in [error : BOOLEAN, text : BOOLEAN]
                      /\ ~t.box[f].error
    OBVIOUS
  <2>1. s.box[f] \in [error : BOOLEAN, text : BOOLEAN]
    BY DEF ShownInv, ListsInv
  <2>2. t.box[f] = [s.box[f] EXCEPT !.error = FALSE]
    BY <1>1
  <2> QED
    BY <2>1, <2>2
<1>3. t.box \in [Field -> [error : BOOLEAN, text : BOOLEAN]]
  BY <1>1, <1>2
<1>4. t.summary \in [error : BOOLEAN, list : SUBSET Field]
  BY <1>1 DEF ShownInv, ListsInv
<1>5. Live(t) \subseteq Live(s) /\ Ruled(t) = Ruled(s)
  BY <1>1 DEF Live, Ruled
<1>6. ListsInv(t)
  BY <1>1, <1>2, <1>3, <1>4, <1>5 DEF ShownInv, ListsInv, Outcome
<1> QED
  BY <1>2, <1>6 DEF ShownInv, t

LEMMA OthersShow ==
    ASSUME PageInv, NEW f, NEW v, NEW skip,
           \/ Edit(f, v) \/ ParseElement(f, skip) \/ Hide(f) \/ Show(f) \/ Lose(f)
           \/ Click \/ Bypass \/ Reset
    PROVE  PageInv'
<1>1. ShownInv(form) /\ DOMAIN form = Keys /\ hidden \subseteq concealed
  BY DEF PageInv, ShownInv, ListsInv
<1>2. CASE Edit(f, v)
  <2>1. ShownInv(form') /\ edits' \in 0..EditLimit
    BY <1>1, <1>2, ValidationAssumption DEF Edit, PageInv
  <2> QED
    BY <1>2, <2>1, PageStep DEF Edit, PageInv
<1>3. CASE ParseElement(f, skip)
  <2>1. ShownInv(form')
    BY <1>1, <1>3, AttachShows DEF ParseElement
  <2> QED
    BY <1>3, <2>1, PageStep DEF ParseElement, PageInv
<1>4. CASE Lose(f)
  <2>1. /\ SameShown(form, form') /\ form'.outcome = form.outcome
        /\ form'.formSubmitted = form.formSubmitted
    BY <1>1, <1>4, KeysAre DEF Lose, SameShown
  <2>2. ShownInv(form')
    BY <1>1, <2>1, SameShownKeeps DEF ShownInv, ListsInv
  <2>3. lost' \in 0..LostLimit
    BY <1>4, ValidationAssumption DEF Lose, PageInv
  <2> QED
    BY <1>4, <2>2, <2>3, PageStep DEF Lose, PageInv
<1>5. CASE Click /\ form.attached
  BY <1>1, <1>5, SubmittedShows, PageStep DEF Click, PageInv
<1>6. CASE Bypass \/ (Click /\ ~form.attached)
  <2>1. form' = [form EXCEPT !.formSubmitted = form.formSubmitted, !.outcome = "unchecked"]
    BY <1>1, <1>6, KeysAre DEF Click, Bypass
  <2>2. form.formSubmitted \in BOOLEAN /\ "unchecked" \in Outcome
    BY <1>1 DEF Outcome, ShownInv, ListsInv
  <2>3. ShownInv([form EXCEPT !.formSubmitted = form.formSubmitted, !.outcome = "unchecked"])
    BY <1>1, <2>2, DecidedShows
  <2>4. ShownInv(form')
    BY <2>1, <2>3
  <2> QED
    BY <1>6, <2>4, PageStep DEF Click, Bypass, PageInv
<1>7. CASE Reset
  BY <1>1, <1>7, ClearedShows, PageStep DEF Reset, PageInv
<1>8. CASE Hide(f) \/ Show(f)
  <2>1. ShownInv(form') /\ edits' \in 0..EditLimit
    BY <1>1, <1>8, ValidationAssumption DEF Hide, Show, PageInv
  <2>2. /\ hidden' \subseteq concealed' /\ concealed' \subseteq Hideable
        /\ concealed \subseteq concealed'
    BY <1>8, ValidationAssumption DEF Hide, Show, PageInv
  <2> QED
    BY <1>8, <2>1, <2>2, PageStep DEF Hide, Show, PageInv
<1> QED
  BY <1>2, <1>3, <1>4, <1>5, <1>6, <1>7, <1>8

LEMMA PageKept == ValidationInv /\ PageInv /\ [Next]_vars => PageInv'
<1> SUFFICES ASSUME ValidationInv, PageInv, [Next]_vars PROVE PageInv'
  OBVIOUS
<1>1. CASE Next
  <2>1. ASSUME NEW f \in Field, \E v \in Values[f] : Edit(f, v) PROVE PageInv'
    BY <2>1, OthersShow
  <2>2. ASSUME NEW f \in Field, \E skip \in SkipAttach : ParseElement(f, skip)
        PROVE  PageInv'
    BY <2>2, OthersShow
  <2>3. ASSUME NEW f \in Field, Touch(f) \/ Repeat(f) \/ Answer(f) PROVE PageInv'
    BY <2>3, ElementShows, AnswerShows
  <2>4. ASSUME NEW f \in Field, Hide(f) \/ Show(f) \/ Lose(f) PROVE PageInv'
    BY <2>4, OthersShow
  <2>5. ASSUME Click \/ Bypass \/ Reset PROVE PageInv'
    BY <2>5, OthersShow
  <2> QED
    BY <1>1, <2>1, <2>2, <2>3, <2>4, <2>5 DEF Next
<1>2. CASE UNCHANGED vars
  <2>1. /\ options' = options /\ form' = form /\ edits' = edits /\ lost' = lost
        /\ hidden' = hidden /\ concealed' = concealed
    BY <1>2 DEF vars
  <2> QED
    BY <2>1 DEF PageInv, ShownInv, ListsInv, Live, Ruled
<1> QED
  BY <1>1, <1>2

----------------------------------------------------------------------------
\* A checked form is sent with accepted values only, and the count of pending checks is
\* the number of pending fields: for any form and any order of events.
LEMMA ValidationHolds == Spec => []ValidationInv
<1>1. Init => ValidationInv
  BY ValidationStart
<1>2. ValidationInv /\ [Next]_vars => ValidationInv'
  BY ValidationStep
<1> QED
  BY <1>1, <1>2, PTL DEF Spec

\* Whatever is edited, hidden, answered late, lost or reset, a form that form() let
\* go has only inputs in sight whose rules all have a method and accept what they
\* hold: no check is skipped because another one threw, and the cached verdict
\* that lets a field pass is the server's verdict on the values that are sent.
THEOREM OnlyValidIsSent == Spec => []SentIsValid
<1>1. ValidationInv => SentIsValid
  BY DEF ValidationInv, SentInv, SentIsValid, outcome
<1> QED
  BY <1>1, ValidationHolds, PTL

\* The count that holds a submit back never leaves the set it counts: stopRequest
\* never has to clamp it.
THEOREM CountIsExact == Spec => []CountInStep
<1>1. ValidationInv => CountInStep
  BY DEF ValidationInv, FormInv, CountInStep
<1> QED
  BY <1>1, ValidationHolds, PTL

\* What the page shows holds together with what its validator remembers.
LEMMA PageHolds == Spec => []PageInv
<1>1. Init => PageInv
  BY PageStart
<1>2. ValidationInv /\ PageInv /\ [Next]_vars => PageInv'
  BY PageKept
<1> QED
  BY <1>1, <1>2, ValidationHolds, PTL DEF Spec

\* The maps of a validator, typed: submitted and pending hold fields with rules,
\* invalid also those that element() was called for without any; a check's errors
\* are none of its successes, which a late verdict that joins them could break.
THEOREM ValidationTypes == Spec => []ValidationTypeOK
<1>1. ValidationInv /\ PageInv => ValidationTypeOK
  <2> SUFFICES ASSUME ValidationInv, PageInv PROVE ValidationTypeOK
    OBVIOUS
  <2>1. /\ FormInv(form) /\ ShownInv(form) /\ ListsInv(form) /\ value \in [Field -> Value]
    BY DEF ValidationInv, PageInv, ShownInv
  <2>2. ASSUME NEW f \in Field
        PROVE  /\ form.previous[f].old \in Query /\ form.previous[f].valid \in BOOLEAN
               /\ form.flight[f].query \in Query /\ form.flight[f].own \in BOOLEAN
               /\ form.box[f] \in [error : BOOLEAN, text : BOOLEAN]
    <3>1. form.previous[f] \in Previous /\ form.flight[f] \in Flight
      BY <2>1 DEF FormInv
    <3> QED
      BY <2>1, <3>1 DEF Previous, Flight, ListsInv
  <2>3. form.pendingRequest \in Nat
    BY <2>1, FS_Subset, FS_CardinalityType, ValidationAssumption DEF FormInv
  <2>4. /\ form.submitted \cup form.pending \cup form.bound \subseteq Ruled(form)
        /\ form.invalid \subseteq Field
        /\ form.errorMap \cap form.successList = {} /\ DOMAIN form.rules = Field
        /\ form.formSubmitted \in BOOLEAN /\ form.outcome \in Outcome
        /\ form.summary.error \in BOOLEAN /\ form.summary.list \subseteq Field
    BY <2>1 DEF ListsInv
  <2> QED
    BY <2>1, <2>2, <2>3, <2>4 DEF ValidationTypeOK, PageInv, outcome
<1> QED
  BY <1>1, ValidationHolds, PageHolds, PTL

\* Whether the click itself or a late answer refuses a form, the summary lists a
\* field: for any form with a summary.
THEOREM RefusalsTold == Spec => []RefusalTold
<1>1. PageInv => RefusalTold
  BY DEF PageInv, ShownInv, ListsInv, RefusalTold, outcome
<1> QED
  BY <1>1, PageHolds, PTL

\* No error message stays on a field that nothing will check again, as long as the
\* field is in sight: for any form, any edits, answers in any order, lost ones and
\* resets.
THEOREM ErrorsAreLive == Spec => []ErrorIsLive
<1>1. PageInv => ErrorIsLive
  BY DEF PageInv, ShownInv, Live, ErrorIsLive
<1> QED
  BY <1>1, PageHolds, PTL
=============================================================================
