---------------------------- MODULE Portal_proofs ----------------------------
(***************************************************************************)
(* What the portal tells its user is so: for any number of tabs, batches,  *)
(* clicks and failures, and whatever requests overtake each other.         *)
(***************************************************************************)
EXTENDS Portal, TLAPS

\* b was created, when the gateway's batches are B.
Exists(b, B) == b \in Batch /\ B[b] \notin {"none", "file"}

\* The message holds when A is what has happened.
Said(m, A) ==
    /\ m.text = "cancelled" => <<"cancel", m.about>> \in A
    /\ m.text = "retried" => <<"retry", m.about>> \in A
    /\ m.text = "notCancelled" =>
          \E how \in {"cancel", "finalize"} : <<how, m.about>> \in A

\* A batch that is closed was finalized or cancelled.
Recorded(B, A) ==
    \A b \in Batch :
        /\ B[b] = "completed" => <<"finalize", b>> \in A
        /\ B[b] = "cancelled" => <<"cancel", b>> \in A

PageOK(p, B, A) ==
    /\ p \in Page
    /\ p.auto => p.name \in {"list", "details"}
    /\ p.failed => p.name = "details"
    /\ p.name = "details" => Exists(p.batch, B)
    /\ p.toast # None => p.name = "details" /\ Said(p.toast.message, A)
    /\ \A b \in Batch :
          p.shown[b] = "open" => p.name \in {"list", "details"} /\ Exists(b, B)

\* The call is one of the steps of creating its batch.
Creates(c) == c.to = "create" /\ c.step \in {"upload", "api"}

CallOK(c, B, A) ==
    /\ c \in Call
    /\ c.cookie # None => Said(c.cookie, A)
    /\ c.step = "page" => c.to \in {"list", "details", "create"}
    /\ c.step = "load" => c.to = "retry"
    /\ c.step \in {"upload", "load", "api"} =>
          c.to \in {"create", "cancel", "retry"} /\ c.batch \in Batch
    /\ c.step = "upload" => c.to = "create" /\ B[c.batch] = "none"
    /\ Creates(c) /\ c.step = "api" => B[c.batch] = "file"
    /\ c.to \in {"cancel", "retry"} => c.from \in {"list", "details"}
    /\ c.to \in {"cancel", "retry", "details"} \/ c.from = "details" => Exists(c.batch, B)

\* Inductive: a message is true of the batch it is about, a page and a request
\* of a batch that exists, and a batch is created by one request at a time.
PortalInv ==
    /\ batch \in [Batch -> Status] /\ failed \in [Batch -> BOOLEAN]
    /\ started \in [Batch -> BOOLEAN] /\ Recorded(batch, happened)
    /\ jar \in Message \cup {None}
    /\ jar # None => Said(jar, happened)
    /\ page \in [Tab -> Page] /\ call \in [Tab -> Call]
    /\ \A t \in Tab : PageOK(page[t], batch, happened) /\ CallOK(call[t], batch, happened)
    /\ \A t, u \in Tab : t # u /\ Creates(call[t]) /\ Creates(call[u])
                            => call[t].batch # call[u].batch
    /\ clicks \in 0..ClickLimit /\ faults \in 0..FaultLimit

----------------------------------------------------------------------------
(* What the gateway does keeps what has been said.                          *)

\* Batches that exist go on existing, and what has happened stays so.
Keeps(B, C, A, D) ==
    /\ \A b \in Batch : Exists(b, B) => Exists(b, C)
    /\ A \subseteq D

LEMMA SaidKeeps ==
    ASSUME NEW B, NEW C, NEW A, NEW D, Keeps(B, C, A, D),
           NEW m \in Message, Said(m, A)
    PROVE  Said(m, D)
BY DEF Keeps, Said, Message

LEMMA PageKeeps ==
    ASSUME NEW B, NEW C, NEW A, NEW D, Keeps(B, C, A, D), NEW p, PageOK(p, B, A)
    PROVE  PageOK(p, C, D)
<1>1. p.toast # None => p.toast.message \in Message
  BY DEF PageOK, Page, Toast
<1>2. p.toast # None => Said(p.toast.message, D)
  BY <1>1, SaidKeeps DEF PageOK
<1>3. p.name = "details" => Exists(p.batch, C)
  BY DEF PageOK, Keeps, Exists
<1> QED
  BY <1>2, <1>3 DEF PageOK, Keeps

LEMMA CallKeeps ==
    ASSUME NEW B, NEW C, NEW A, NEW D, Keeps(B, C, A, D), NEW c, CallOK(c, B, A),
           Creates(c) => C[c.batch] = B[c.batch]
    PROVE  CallOK(c, C, D)
<1>1. c.cookie # None => c.cookie \in Message
  BY DEF CallOK, Call
<1>2. c.cookie # None => Said(c.cookie, D)
  BY <1>1, SaidKeeps DEF CallOK
<1>3. Exists(c.batch, B) => Exists(c.batch, C)
  BY DEF Keeps, Exists
<1>4. c.step = "upload" => Creates(c)
  BY DEF CallOK, Creates
<1> QED
  BY <1>2, <1>3, <1>4 DEF CallOK, Creates

\* A step of the gateway that disturbs no other tab's creation than t's.
Moves(t) ==
    /\ batch' \in [Batch -> Status] /\ failed' \in [Batch -> BOOLEAN]
    /\ started' \in [Batch -> BOOLEAN] /\ Recorded(batch', happened')
    /\ Keeps(batch, batch', happened, happened')
    /\ \A u \in Tab : u # t /\ Creates(call[u])
                         => batch'[call[u].batch] = batch[call[u].batch]

LEMMA StillMoves ==
    ASSUME PortalInv, NEW t, UNCHANGED server
    PROVE  Moves(t)
BY DEF Moves, Keeps, PortalInv, server

\* What the gateway makes of a call.
LEMMA HandledMoves ==
    ASSUME PortalInv, NEW t \in Tab, call[t].step \in {"upload", "api"}, Handled(call[t])
    PROVE  /\ Moves(t)
           /\ \A b \in Batch : b # call[t].batch => batch'[b] = batch[b]
           /\ Creates(call[t]) => batch'[call[t].batch] =
                  IF call[t].step = "upload" THEN "file" ELSE "open"
<1> DEFINE c == call[t]
<1>1. CallOK(c, batch, happened) /\ c.batch \in Batch
  BY DEF PortalInv, CallOK
<1>2. batch \in [Batch -> Status] /\ failed \in [Batch -> BOOLEAN]
  BY DEF PortalInv
<1>3. /\ \A b \in Batch : b # c.batch => batch'[b] = batch[b]
      /\ batch' \in [Batch -> Status] /\ failed' \in [Batch -> BOOLEAN]
  <2>1. /\ batch' = batch
           \/ \E s \in {batch[c.batch], "file", "open", "cancelled"} :
                 batch' = [batch EXCEPT ![c.batch] = s]
        /\ failed' = failed \/ failed' = [failed EXCEPT ![c.batch] = FALSE]
    BY DEF Handled
  <2> QED
    BY <1>1, <1>2, <2>1 DEF Status
<1>4. happened \subseteq happened' /\ started' \in [Batch -> BOOLEAN]
  BY DEF Handled, PortalInv
<1>5. Recorded(batch', happened')
  <2>1. batch'[c.batch] = "cancelled" =>
            batch[c.batch] = "cancelled" \/ <<"cancel", c.batch>> \in happened'
    BY <1>1, <1>2 DEF Handled
  <2>2. batch'[c.batch] = "completed" => batch[c.batch] = "completed"
    BY <1>1, <1>2 DEF Handled
  <2> QED
    BY <1>3, <1>4, <2>1, <2>2 DEF Recorded, PortalInv
<1>6. CASE Creates(c)
  <2>1. batch'[c.batch] = IF c.step = "upload" THEN "file" ELSE "open"
    BY <1>1, <1>2, <1>6 DEF Handled, Accepts, Creates
  <2>2. batch[c.batch] \in {"none", "file"}
    BY <1>1, <1>6 DEF CallOK, Creates
  <2>3. Keeps(batch, batch', happened, happened')
    BY <1>1, <1>3, <1>4, <2>2 DEF Keeps, Exists
  <2>4. \A u \in Tab : u # t /\ Creates(call[u]) => call[u].batch # c.batch
    BY <1>6 DEF PortalInv
  <2>5. \A u \in Tab : Creates(call[u]) => call[u].batch \in Batch
    BY DEF PortalInv, CallOK, Creates
  <2> QED
    BY <1>3, <1>4, <1>5, <2>1, <2>3, <2>4, <2>5 DEF Moves
<1>7. CASE ~Creates(c)
  <2>1. c.step = "api" /\ c.to \in {"cancel", "retry"}
    BY <1>1, <1>7 DEF CallOK, Creates
  <2>2. \/ batch'[c.batch] = batch[c.batch]
        \/ batch[c.batch] = "open" /\ batch'[c.batch] = "cancelled"
    <3>1. CASE ~Accepts(c)
      BY <3>1 DEF Handled
    <3>2. CASE c.to = "cancel" /\ Accepts(c)
      BY <1>1, <1>2, <2>1, <3>2 DEF Handled, Accepts
    <3>3. CASE c.to = "retry" /\ Accepts(c)
      <4>1. batch' = [batch EXCEPT ![c.batch] = batch[c.batch]]
        BY <2>1, <3>3 DEF Handled
      <4> QED
        BY <1>1, <1>2, <4>1
    <3> QED
      BY <2>1, <3>1, <3>2, <3>3
  <2>3. Exists(c.batch, batch)
    BY <1>1, <2>1 DEF CallOK
  <2>4. Keeps(batch, batch', happened, happened')
    BY <1>1, <1>3, <1>4, <2>2 DEF Keeps, Exists
  <2>5. \A u \in Tab : Creates(call[u]) =>
            call[u].batch \in Batch /\ batch[call[u].batch] \in {"none", "file"}
    BY DEF PortalInv, CallOK, Creates
  <2>6. \A u \in Tab : Creates(call[u]) => call[u].batch # c.batch
    BY <2>3, <2>5 DEF Exists
  <2> QED
    BY <1>3, <1>4, <1>5, <1>7, <2>4, <2>5, <2>6 DEF Moves
<1> QED
  BY <1>6, <1>7

\* The message of an answered cancel or retry is true once it is answered.
LEMMA ResultIsSaid ==
    ASSUME PortalInv, NEW t \in Tab, call[t].step = "api", call[t].to # "create",
           Handled(call[t])
    PROVE  /\ Result(call[t]) \in Text
           /\ Said([text |-> Result(call[t]), about |-> call[t].batch], happened')
<1> DEFINE c == call[t]
           m == [text |-> Result(c), about |-> c.batch]
<1>1. CallOK(c, batch, happened) /\ c.to \in {"cancel", "retry"} /\ Exists(c.batch, batch)
  BY DEF PortalInv, CallOK
<1>2. m.text = Result(c) /\ m.about = c.batch
  OBVIOUS
<1> HIDE DEF m
<1>3. CASE Accepts(c)
  <2>1. <<c.to, c.batch>> \in happened'
    BY <1>3 DEF Handled
  <2>2. Result(c) = IF c.to = "cancel" THEN "cancelled" ELSE "retried"
    BY <1>1, <1>3 DEF Result
  <2> QED
    BY <1>1, <1>2, <2>1, <2>2 DEF Said, Text, m
<1>4. CASE ~Accepts(c)
  <2>1. batch' = batch
    BY <1>4 DEF Handled
  <2>2. Result(c) = IF c.to = "cancel" THEN "notCancelled" ELSE "notRetried"
    BY <1>1, <1>4 DEF Result
  <2>3. c.to = "cancel" => batch[c.batch] \in {"completed", "cancelled"}
    BY <1>1, <1>4 DEF Accepts, Exists, PortalInv, Status
  <2>4. c.to = "cancel" => \E how \in {"cancel", "finalize"} : <<how, c.batch>> \in happened
    BY <1>1, <2>3 DEF PortalInv, Recorded, Exists
  <2>5. happened' = happened
    BY <1>4 DEF Handled
  <2> QED
    BY <1>1, <1>2, <2>2, <2>4, <2>5 DEF Said, Text, m
<1> QED
  BY <1>3, <1>4

----------------------------------------------------------------------------
(* Steps of one tab.                                                        *)

\* A step that leaves tab t with the page p and the request c.
LEMMA TabSteps ==
    ASSUME PortalInv, NEW t \in Tab, NEW p, NEW c, Moves(t),
           jar' \in Message \cup {None},
           jar' # None => Said(jar', happened'),
           page' = [page EXCEPT ![t] = p], PageOK(p, batch', happened'),
           call' = [call EXCEPT ![t] = c], CallOK(c, batch', happened'),
           Creates(c) => \A u \in Tab : u # t /\ Creates(call[u]) => call[u].batch # c.batch,
           clicks' \in 0..ClickLimit, faults' \in 0..FaultLimit
    PROVE  PortalInv'
<1>1. page' \in [Tab -> Page] /\ call' \in [Tab -> Call]
  BY DEF PortalInv, PageOK, CallOK
<1>2. page'[t] = p /\ call'[t] = c
  BY DEF PortalInv
<1>3. \A u \in Tab : u # t => page'[u] = page[u] /\ call'[u] = call[u]
  BY DEF PortalInv
<1>4. ASSUME NEW u \in Tab
      PROVE  PageOK(page'[u], batch', happened') /\ CallOK(call'[u], batch', happened')
  <2>1. CASE u = t
    BY <1>2, <2>1
  <2>2. CASE u # t
    <3>1. PageOK(page[u], batch, happened) /\ CallOK(call[u], batch, happened)
      BY DEF PortalInv
    <3>2. Keeps(batch, batch', happened, happened')
      BY DEF Moves
    <3>3. PageOK(page[u], batch', happened')
      BY <3>1, <3>2, PageKeeps
    <3>4. Creates(call[u]) => batch'[call[u].batch] = batch[call[u].batch]
      BY <2>2 DEF Moves
    <3>5. CallOK(call[u], batch', happened')
      BY <3>1, <3>2, <3>4, CallKeeps
    <3> QED
      BY <1>3, <2>2, <3>3, <3>5
  <2> QED
    BY <2>1, <2>2
<1>5. ASSUME NEW u \in Tab, NEW v \in Tab, u # v, Creates(call'[u]), Creates(call'[v])
      PROVE  call'[u].batch # call'[v].batch
  <2>1. CASE u # t /\ v # t
    BY <1>3, <1>5, <2>1 DEF PortalInv
  <2>2. CASE u = t \/ v = t
    BY <1>2, <1>3, <1>5, <2>2
  <2> QED
    BY <2>1, <2>2
<1> QED
  BY <1>1, <1>4, <1>5 DEF PortalInv, Moves

\* The jar is true of the new state when it has not changed.
LEMMA JarKeeps ==
    ASSUME PortalInv, NEW t, Moves(t)
    PROVE  jar # None => Said(jar, happened')
BY SaidKeeps DEF PortalInv, Moves

\* A new request that is all right, and creates nothing that is being created.
LEMMA Requested ==
    ASSUME PortalInv, NEW t \in Tab, NEW c, CallOK(c, batch, happened),
           Creates(c) => \A u \in Tab : call[u].batch # c.batch,
           Request(t, c), UNCHANGED <<jar, page>>,
           clicks' \in 0..ClickLimit, faults' \in 0..FaultLimit
    PROVE  PortalInv'
<1> DEFINE d == [c EXCEPT !.cookie = jar]
<1>1. jar' = jar /\ page' = page /\ call' = [call EXCEPT ![t] = d]
  BY DEF Request
<1>2. Moves(t) /\ (Creates(c) => batch'[c.batch] = batch[c.batch])
  <2>1. CASE UNCHANGED server
    BY <2>1, StillMoves DEF server
  <2>2. CASE call[t].step \in {"upload", "api"} /\ Handled(call[t])
    <3>1. /\ Moves(t)
          /\ \A b \in Batch : b # call[t].batch => batch'[b] = batch[b]
      BY <2>2, HandledMoves
    <3>2. Creates(c) => c.batch \in Batch /\ c.batch # call[t].batch
      BY DEF CallOK, Creates
    <3> QED
      BY <3>1, <3>2
  <2> QED
    BY <2>1, <2>2 DEF Request
<1>3. jar # None => Said(jar, happened')
  BY <1>2, JarKeeps
<1>4. CallOK(c, batch', happened')
  BY <1>2, CallKeeps DEF Moves
<1>5. /\ d \in Call /\ d.cookie = jar
      /\ d.to = c.to /\ d.batch = c.batch /\ d.from = c.from /\ d.step = c.step
  BY DEF CallOK, Call, PortalInv
<1> HIDE DEF d
<1>6. CallOK(d, batch', happened') /\ (Creates(d) <=> Creates(c))
  BY <1>3, <1>4, <1>5 DEF CallOK, Creates
<1>7. PageOK(page[t], batch', happened')
  BY <1>2, PageKeeps DEF PortalInv, Moves
<1>8. page' = [page EXCEPT ![t] = page[t]]
  BY <1>1 DEF PortalInv
<1>9. Creates(d) => \A u \in Tab : u # t /\ Creates(call[u]) => call[u].batch # d.batch
  BY <1>5, <1>6
<1>10. jar' \in Message \cup {None} /\ (jar' # None => Said(jar', happened'))
  BY <1>1, <1>3 DEF PortalInv
<1> QED
  BY <1>1, <1>2, <1>6, <1>7, <1>8, <1>9, <1>10, TabSteps

\* The request of a page.
LEMMA GetsAreOK ==
    ASSUME NEW name \in {"list", "details", "create"}, NEW b \in Batch \cup {None},
           name = "details" => Exists(b, batch)
    PROVE  CallOK(Get(name, b), batch, happened) /\ ~Creates(Get(name, b))
BY DEF CallOK, Creates, Get, Call

----------------------------------------------------------------------------
(* The actions.                                                             *)

LEMMA VisitKeeps == ASSUME PortalInv, NEW t \in Tab, Visit(t) PROVE PortalInv'
<1>1. PICK name \in {"list", "details", "create"}, b \in Batch :
          /\ name = "details" => batch[b] \notin {"none", "file"}
          /\ Request(t, Get(name, IF name = "details" THEN b ELSE None))
  BY DEF Visit
<1>2. PICK d \in Batch \cup {None} :
          (name = "details" => Exists(d, batch)) /\ Request(t, Get(name, d))
  BY <1>1 DEF Exists
<1>3. CallOK(Get(name, d), batch, happened) /\ ~Creates(Get(name, d))
  BY <1>2, GetsAreOK
<1>4. UNCHANGED <<jar, page>> /\ clicks' \in 0..ClickLimit /\ faults' \in 0..FaultLimit
  BY PortalAssumption DEF Visit, Click, PortalInv
<1> QED
  BY <1>2, <1>3, <1>4, Requested

LEMMA RefreshKeeps == ASSUME PortalInv, NEW t \in Tab, Refresh(t) PROVE PortalInv'
<1> DEFINE c == Get(page[t].name, page[t].batch)
<1>1. PageOK(page[t], batch, happened) /\ page[t].auto
  BY DEF Refresh, PortalInv
<1>2. /\ page[t].name \in {"list", "details", "create"}
      /\ page[t].batch \in Batch \cup {None}
      /\ page[t].name = "details" => Exists(page[t].batch, batch)
  BY <1>1 DEF PageOK, Page
<1>3. CallOK(c, batch, happened) /\ ~Creates(c)
  BY <1>2, GetsAreOK
<1>4. Request(t, c) /\ UNCHANGED <<jar, page, clicks, faults>>
  BY DEF Refresh
<1>5. clicks' \in 0..ClickLimit /\ faults' \in 0..FaultLimit
  BY <1>4 DEF PortalInv
<1> QED
  BY <1>3, <1>4, <1>5, Requested

\* A form is of a page that shows its batch.
LEMMA SubmitKeeps ==
    ASSUME PortalInv, NEW t \in Tab, NEW what \in {"create", "cancel", "retry"},
           NEW b \in Batch, Submit(t, what, b)
    PROVE  PortalInv'
<1> DEFINE c == [to |-> what, batch |-> b, from |-> page[t].name, cookie |-> None,
                 step |-> CASE what = "create" -> "upload"
                            [] what = "cancel" -> "api"
                            [] OTHER           -> "load"]
<1>1. /\ c.to = what /\ c.batch = b /\ c.from = page[t].name /\ c.cookie = None
      /\ c.step = IF what = "create" THEN "upload" ELSE IF what = "cancel" THEN "api" ELSE "load"
  OBVIOUS
<1>2. Request(t, c) /\ UNCHANGED <<jar, page, faults>> /\ clicks' \in 0..ClickLimit
  BY PortalAssumption DEF Submit, Click, PortalInv
<1>3. PageOK(page[t], batch, happened)
  BY DEF PortalInv
<1>4. c \in Call
  BY <1>3 DEF Call, PageOK, Page
<1> HIDE DEF c
<1>5. CASE what = "create"
  <2>1. /\ page[t].name = "create" /\ batch[b] = "none"
        /\ \A u \in Tab : call[u].batch # b
    BY <1>5 DEF Submit
  <2>2. CallOK(c, batch, happened)
    BY <1>1, <1>4, <1>5, <2>1 DEF CallOK, Creates
  <2>3. faults' \in 0..FaultLimit
    BY <1>2 DEF PortalInv
  <2> QED
    BY <1>1, <1>2, <2>1, <2>2, <2>3, Requested
<1>6. CASE what # "create"
  <2>1. page[t].name \in {"list", "details"} /\ Exists(b, batch)
    BY <1>3, <1>6 DEF Submit, PageOK, Exists
  <2>2. CallOK(c, batch, happened) /\ ~Creates(c)
    BY <1>1, <1>4, <1>6, <2>1 DEF CallOK, Creates
  <2>3. faults' \in 0..FaultLimit
    BY <1>2 DEF PortalInv
  <2> QED
    BY <1>2, <2>2, <2>3, Requested
<1> QED
  BY <1>5, <1>6

LEMMA ToastKeeps ==
    ASSUME PortalInv, NEW t \in Tab, Toggle(t) \/ HideToast(t)
    PROVE  PortalInv'
<1>1. PICK p : page' = [page EXCEPT ![t] = p] /\ PageOK(p, batch, happened)
  <2>1. PageOK(page[t], batch, happened) /\ page[t] \in Page
    BY DEF PortalInv, PageOK
  <2>2. CASE Toggle(t)
    <3> DEFINE p == [page[t] EXCEPT !.auto = ~@]
    <3>1. /\ p \in Page /\ p.name = page[t].name /\ p.batch = page[t].batch
          /\ p.shown = page[t].shown /\ p.failed = page[t].failed /\ p.toast = page[t].toast
      BY <2>1 DEF Page
    <3>2. page' = [page EXCEPT ![t] = p] /\ page[t].name \in {"list", "details"}
      BY <2>2 DEF Toggle
    <3> HIDE DEF p
    <3>3. PageOK(p, batch, happened)
      BY <2>1, <3>1, <3>2 DEF PageOK
    <3> QED
      BY <3>2, <3>3
  <2>3. CASE HideToast(t)
    <3> DEFINE p == [page[t] EXCEPT !.toast = None]
    <3>1. /\ p \in Page /\ p.name = page[t].name /\ p.batch = page[t].batch
          /\ p.shown = page[t].shown /\ p.failed = page[t].failed
          /\ p.auto = page[t].auto /\ p.toast = None
      BY <2>1 DEF Page
    <3>2. page' = [page EXCEPT ![t] = p]
      BY <2>3 DEF HideToast
    <3> HIDE DEF p
    <3>3. PageOK(p, batch, happened)
      BY <2>1, <3>1 DEF PageOK
    <3> QED
      BY <3>2, <3>3
  <2> QED
    BY <2>2, <2>3
<1>2. /\ UNCHANGED server /\ UNCHANGED <<jar, call, faults>>
      /\ clicks' \in 0..ClickLimit
  BY PortalAssumption DEF Toggle, HideToast, Click, PortalInv
<1>3. Moves(t)
  BY <1>2, StillMoves
<1>4. jar' \in Message \cup {None} /\ (jar' # None => Said(jar', happened'))
  BY <1>2, <1>3, JarKeeps DEF PortalInv
<1>5. PageOK(p, batch', happened') /\ CallOK(call[t], batch', happened')
  BY <1>1, <1>2 DEF server, PortalInv
<1>6. call' = [call EXCEPT ![t] = call[t]] /\ faults' \in 0..FaultLimit
  BY <1>2 DEF PortalInv
<1>7. Creates(call[t]) =>
          \A u \in Tab : u # t /\ Creates(call[u]) => call[u].batch # call[t].batch
  BY DEF PortalInv
<1> QED
  BY <1>1, <1>2, <1>3, <1>4, <1>5, <1>6, <1>7, TabSteps

\* What a response leaves in the jar is true if its own message is.
LEMMA JarsAreTrue ==
    ASSUME PortalInv, NEW t \in Tab, Moves(t), NEW m \in Message \cup {None},
           m # None => Said(m, happened')
    PROVE  LET left == JarAfter(call[t], m)
           IN  /\ left \in Message \cup {None}
               /\ left # None => Said(left, happened')
<1>1. jar # None => Said(jar, happened')
  BY JarKeeps
<1>2. jar \in Message \cup {None}
  BY DEF PortalInv
<1> QED
  BY <1>1, <1>2 DEF JarAfter

LEMMA Redirected ==
    ASSUME PortalInv, NEW t \in Tab, NEW text \in Text, Moves(t),
           call[t].from \in {"list", "details"},
           call[t].from = "details" =>
               /\ Exists(call[t].batch, batch')
               /\ Said([text |-> text, about |-> call[t].batch], happened'),
           Redirect(t, text), page' = page,
           clicks' \in 0..ClickLimit, faults' \in 0..FaultLimit
    PROVE  PortalInv'
<1> DEFINE c == call[t]
           message == IF c.from = "details" THEN [text |-> text, about |-> c.batch] ELSE None
           left == IF c.from = "details" THEN JarAfter(c, message) ELSE jar
           g == Get(c.from, IF c.from = "details" THEN c.batch ELSE None)
           d == [g EXCEPT !.cookie = left]
<1>1. jar' = left /\ call' = [call EXCEPT ![t] = d]
  BY DEF Redirect
<1>2. message \in Message \cup {None} /\ (message # None => Said(message, happened'))
  BY DEF Message, Exists
<1>3. left \in Message \cup {None} /\ (left # None => Said(left, happened'))
  <2>1. LET k == JarAfter(call[t], message)
        IN  /\ k \in Message \cup {None}
            /\ k # None => Said(k, happened')
    <3> HIDE DEF message
    <3> QED
      BY <1>2, JarsAreTrue
  <2>2. jar \in Message \cup {None} /\ (jar # None => Said(jar, happened'))
    BY JarKeeps DEF PortalInv
  <2> HIDE DEF message
  <2> QED
    BY <2>1, <2>2
<1> HIDE DEF left, message
<1>4. /\ d \in Call /\ d.to = c.from /\ d.from = c.from /\ d.step = "page" /\ d.cookie = left
      /\ c.from = "details" => d.batch = c.batch
  BY <1>3 DEF Get, Call, Exists
<1> HIDE DEF d
<1>5. CallOK(d, batch', happened') /\ ~Creates(d)
  BY <1>3, <1>4 DEF CallOK, Creates
<1>6. page' = [page EXCEPT ![t] = page[t]] /\ PageOK(page[t], batch', happened')
  BY PageKeeps DEF PortalInv, Moves
<1> QED
  BY <1>1, <1>3, <1>5, <1>6, TabSteps

\* The idle request and the jar as it was, after any step of the gateway.
LEMMA IdleIsOK == CallOK(Idle, batch', happened') /\ ~Creates(Idle)
BY DEF CallOK, Creates, Idle, Call

LEMMA LoadKeeps == ASSUME PortalInv, NEW t \in Tab, Load(t) PROVE PortalInv'
<1> DEFINE c == call[t]
           p == View(c)
<1>1. /\ c.step = "page" /\ page' = [page EXCEPT ![t] = p]
      /\ jar' = IF c.to = "details" THEN JarAfter(c, None) ELSE jar
      /\ call' = [call EXCEPT ![t] = Idle]
      /\ UNCHANGED server /\ UNCHANGED <<clicks, faults>>
  BY DEF Load
<1>2. CallOK(c, batch, happened) /\ batch \in [Batch -> Status] /\ failed \in [Batch -> BOOLEAN]
  BY DEF PortalInv
<1>3. Moves(t)
  BY <1>1, StillMoves
<1>4. jar' \in Message \cup {None} /\ (jar' # None => Said(jar', happened'))
  <2>1. LET k == JarAfter(call[t], None)
        IN  /\ k \in Message \cup {None}
            /\ k # None => Said(k, happened')
    BY <1>3, JarsAreTrue
  <2>2. jar \in Message \cup {None} /\ (jar # None => Said(jar, happened'))
    BY <1>3, JarKeeps DEF PortalInv
  <2> QED
    BY <1>1, <2>1, <2>2
<1>5. PageOK(p, batch, happened)
  <2>1. c.to \in {"list", "details", "create"} /\ c.batch \in Batch \cup {None}
    BY <1>1, <1>2 DEF CallOK, Call
  <2>2. c.to = "details" => Exists(c.batch, batch)
    BY <1>2 DEF CallOK
  <2>3. c.cookie # None => c.cookie \in Message /\ Said(c.cookie, happened)
    BY <1>2 DEF CallOK, Call
  <2>4. p.toast # None => c.to = "details" /\ p.toast \in Toast /\ p.toast.message = c.cookie
                          /\ c.cookie # None
    BY <2>3 DEF View, ShowInfoToast, ShowToast, Toast
  <2>5. /\ p.name = c.to /\ p.batch = c.batch
        /\ p.shown = IF c.to = "create" THEN [b \in Batch |-> "none"] ELSE batch
        /\ p.failed = (c.to = "details" /\ failed[c.batch])
        /\ p.auto \in BOOLEAN /\ (p.auto => c.to = "details")
    BY DEF View, AutoRefresh
  <2>6. p.failed \in BOOLEAN /\ p.shown \in [Batch -> Status]
    BY <1>2, <2>2, <2>5 DEF Exists, Status
  <2>7. p \in Page
    <3>1. p = [name |-> p.name, batch |-> p.batch, shown |-> p.shown, failed |-> p.failed,
               auto |-> p.auto, toast |-> p.toast]
      BY DEF View
    <3> HIDE DEF p
    <3>2. p.toast \in Toast \cup {None}
      BY <2>4
    <3> QED
      BY <2>1, <2>5, <2>6, <3>1, <3>2 DEF Page
  <2>8. \A b \in Batch : p.shown[b] = "open" => c.to # "create" /\ Exists(b, batch)
    BY <2>5 DEF Exists
  <2> HIDE DEF p
  <2> QED
    BY <2>1, <2>2, <2>3, <2>4, <2>5, <2>7, <2>8 DEF PageOK
<1>6. PageOK(p, batch', happened')
  BY <1>1, <1>5 DEF server
<1>7. clicks' \in 0..ClickLimit /\ faults' \in 0..FaultLimit
  BY <1>1 DEF PortalInv
<1> HIDE DEF p
<1> QED
  BY <1>1, <1>3, <1>4, <1>6, <1>7, IdleIsOK, TabSteps

LEMMA CheckRetryKeeps == ASSUME PortalInv, NEW t \in Tab, CheckRetry(t) PROVE PortalInv'
<1> DEFINE c == call[t]
<1>1. /\ c.step = "load" /\ UNCHANGED server /\ page' = page
      /\ clicks' \in 0..ClickLimit /\ faults' \in 0..FaultLimit
  BY DEF CheckRetry, PortalInv
<1>2. Moves(t)
  BY <1>1, StillMoves
<1>3. /\ CallOK(c, batch, happened) /\ c.to = "retry" /\ c.from \in {"list", "details"}
      /\ Exists(c.batch, batch) /\ c \in Call
  BY <1>1 DEF PortalInv, CallOK
<1>4. CASE failed[c.batch]
  <2> DEFINE d == [c EXCEPT !.step = "api"]
  <2>1. call' = [call EXCEPT ![t] = d] /\ jar' = jar
    BY <1>4 DEF CheckRetry
  <2>2. /\ d \in Call /\ d.to = c.to /\ d.batch = c.batch /\ d.from = c.from
        /\ d.cookie = c.cookie /\ d.step = "api"
    BY <1>3 DEF Call
  <2> HIDE DEF d
  <2>3. CallOK(d, batch, happened) /\ ~Creates(d)
    BY <1>3, <2>2 DEF CallOK, Creates, Exists
  <2>4. CallOK(d, batch', happened')
    BY <1>1, <2>3 DEF server
  <2>5. jar' \in Message \cup {None} /\ (jar' # None => Said(jar', happened'))
    BY <1>2, <2>1, JarKeeps DEF PortalInv
  <2>6. page' = [page EXCEPT ![t] = page[t]] /\ PageOK(page[t], batch', happened')
    BY <1>1, <1>2, PageKeeps DEF PortalInv, Moves
  <2> QED
    BY <1>1, <1>2, <2>1, <2>3, <2>4, <2>5, <2>6, TabSteps
<1>5. CASE ~failed[c.batch]
  <2>1. Redirect(t, "notRetried") /\ "notRetried" \in Text
    BY <1>5 DEF CheckRetry, Text
  <2>2. Said([text |-> "notRetried", about |-> c.batch], happened')
    BY DEF Said
  <2>3. Exists(c.batch, batch')
    BY <1>1, <1>3 DEF server
  <2> QED
    BY <1>1, <1>2, <1>3, <2>1, <2>2, <2>3, Redirected
<1> QED
  BY <1>4, <1>5

LEMMA AnswerKeeps == ASSUME PortalInv, NEW t \in Tab, ApiAnswers(t) PROVE PortalInv'
<1> DEFINE c == call[t]
<1>1. /\ c.step \in {"upload", "api"} /\ Handled(c) /\ page' = page
      /\ clicks' \in 0..ClickLimit /\ faults' \in 0..FaultLimit
  BY DEF ApiAnswers, PortalInv
<1>2. /\ Moves(t)
      /\ Creates(c) => batch'[c.batch] = IF c.step = "upload" THEN "file" ELSE "open"
  BY <1>1, HandledMoves
<1>3. CallOK(c, batch, happened) /\ c \in Call /\ c.batch \in Batch
  BY <1>1 DEF PortalInv, CallOK
<1>4. page' = [page EXCEPT ![t] = page[t]] /\ PageOK(page[t], batch', happened')
  BY <1>1, <1>2, PageKeeps DEF PortalInv, Moves
<1>5. jar \in Message \cup {None} /\ (jar # None => Said(jar, happened'))
  BY <1>2, JarKeeps DEF PortalInv
<1>6. CASE c.step = "upload" /\ call' = [call EXCEPT ![t].step = "api"] /\ UNCHANGED jar
  <2> DEFINE d == [c EXCEPT !.step = "api"]
  <2>1. call' = [call EXCEPT ![t] = d]
    BY <1>6
  <2>2. /\ d \in Call /\ d.to = c.to /\ d.batch = c.batch /\ d.from = c.from
        /\ d.cookie = c.cookie /\ d.step = "api"
    BY <1>3 DEF Call
  <2> HIDE DEF d
  <2>3. Creates(c) /\ Creates(d) /\ batch'[d.batch] = "file" /\ c.to = "create"
    BY <1>2, <1>3, <1>6, <2>2 DEF CallOK, Creates
  <2>4. d.cookie # None => Said(d.cookie, happened')
    BY <1>2, <1>3, <2>2, SaidKeeps DEF CallOK, Call, Moves
  <2>5. d.from = "details" => Exists(d.batch, batch')
    BY <1>2, <1>3, <2>2 DEF CallOK, Moves, Keeps
  <2>6. CallOK(d, batch', happened')
    BY <1>3, <2>2, <2>3, <2>4, <2>5 DEF CallOK
  <2>7. \A u \in Tab : u # t /\ Creates(call[u]) => call[u].batch # d.batch
    BY <2>2, <2>3 DEF PortalInv
  <2> QED
    BY <1>1, <1>2, <1>4, <1>5, <1>6, <2>1, <2>6, <2>7, TabSteps
<1>7. CASE /\ c.step = "api" /\ c.to = "create" /\ UNCHANGED jar
           /\ call' = [call EXCEPT ![t] = [Get("details", c.batch) EXCEPT !.cookie = jar]]
  <2> DEFINE d == [Get("details", c.batch) EXCEPT !.cookie = jar]
  <2>1. /\ d \in Call /\ d.to = "details" /\ d.batch = c.batch /\ d.from = "details"
        /\ d.cookie = jar /\ d.step = "page"
    BY <1>3, <1>5 DEF Get, Call
  <2>2. call' = [call EXCEPT ![t] = d]
    BY <1>7
  <2> HIDE DEF d
  <2>3. Exists(c.batch, batch')
    BY <1>2, <1>3, <1>7 DEF Creates, Exists
  <2>4. CallOK(d, batch', happened') /\ ~Creates(d)
    BY <1>5, <2>1, <2>3 DEF CallOK, Creates
  <2> QED
    BY <1>1, <1>2, <1>4, <1>5, <1>7, <2>2, <2>4, TabSteps
<1>8. CASE c.step = "api" /\ c.to # "create" /\ Redirect(t, Result(c))
  <2>1. /\ Result(c) \in Text
        /\ Said([text |-> Result(c), about |-> c.batch], happened')
    BY <1>1, <1>8, ResultIsSaid
  <2>2. c.from \in {"list", "details"} /\ Exists(c.batch, batch')
    BY <1>2, <1>3, <1>8 DEF CallOK, Moves, Keeps
  <2> QED
    BY <1>1, <1>2, <1>8, <2>1, <2>2, Redirected
<1> QED
  BY <1>6, <1>7, <1>8 DEF ApiAnswers

\* The error page, after any step of the gateway.
LEMMA FailureIsOK ==
    ASSUME PortalInv, NEW t \in Tab, Moves(t), Fails(t), call[t].batch \in Batch \cup {None},
           clicks' \in 0..ClickLimit, faults' \in 0..FaultLimit
    PROVE  PortalInv'
<1> DEFINE c == call[t]
           p == [page[t] EXCEPT !.name = IF c.to = "create" THEN "create" ELSE "error",
                      !.batch = c.batch, !.failed = FALSE, !.auto = FALSE,
                      !.shown = [b \in Batch |-> "none"], !.toast = None]
<1>1. page' = [page EXCEPT ![t] = p] /\ call' = [call EXCEPT ![t] = Idle] /\ jar' = jar
  BY DEF Fails
<1>2. page[t] \in Page
  BY DEF PortalInv
<1>3. /\ p \in Page /\ p.name \in {"create", "error"} /\ ~p.failed /\ ~p.auto
      /\ p.shown = [b \in Batch |-> "none"] /\ p.toast = None
  BY <1>2 DEF Page, Status
<1> HIDE DEF p
<1>4. PageOK(p, batch', happened')
  BY <1>3 DEF PageOK
<1>5. jar' \in Message \cup {None} /\ (jar' # None => Said(jar', happened'))
  BY <1>1, JarKeeps DEF PortalInv
<1> QED
  BY <1>1, <1>4, <1>5, IdleIsOK, TabSteps

LEMMA LoadFailureKeeps == ASSUME PortalInv, NEW t \in Tab, LoadFails(t) PROVE PortalInv'
<1>1. UNCHANGED server /\ Fails(t)
  BY DEF LoadFails
<1>2. clicks' \in 0..ClickLimit /\ faults' \in 0..FaultLimit
  BY PortalAssumption DEF LoadFails, PortalInv
<1>3. Moves(t)
  BY <1>1, StillMoves
<1>4. call[t].batch \in Batch \cup {None}
  BY DEF PortalInv, Call
<1> QED
  BY <1>1, <1>2, <1>3, <1>4, FailureIsOK

LEMMA FailureKeeps == ASSUME PortalInv, NEW t \in Tab, ApiFails(t) PROVE PortalInv'
<1> DEFINE c == call[t]
<1>1. /\ c.step \in {"upload", "api"} /\ UNCHANGED clicks /\ clicks' \in 0..ClickLimit
      /\ faults' \in 0..FaultLimit
  BY PortalAssumption DEF ApiFails, PortalInv
<1>2. CallOK(c, batch, happened) /\ c \in Call /\ c.batch \in Batch
  BY <1>1 DEF PortalInv, CallOK
<1>3. CASE (UNCHANGED server \/ Handled(c)) /\ Fails(t)
  <2>1. Moves(t)
    BY <1>1, <1>3, StillMoves, HandledMoves
  <2> QED
    BY <1>1, <1>2, <1>3, <2>1, FailureIsOK
<1>4. CASE c.to = "retry" /\ Redirect(t, "notRetried") /\ UNCHANGED <<server, page>>
  <2>1. UNCHANGED server /\ page' = page
    BY <1>4
  <2>2. Moves(t)
    BY <2>1, StillMoves
  <2>3. Said([text |-> "notRetried", about |-> c.batch], happened')
    BY DEF Said
  <2>4. "notRetried" \in Text /\ c.from \in {"list", "details"} /\ Exists(c.batch, batch')
    BY <1>2, <1>4, <2>1 DEF CallOK, Text, server
  <2> QED
    BY <1>1, <1>4, <2>1, <2>2, <2>3, <2>4, Redirected
<1> QED
  BY <1>3, <1>4 DEF ApiFails

\* A request fails, or a batch starts or completes, behind the portal's back.
LEMMA BatchKeeps ==
    ASSUME PortalInv, NEW b \in Batch, RequestFails(b) \/ Starts(b) \/ Completes(b)
    PROVE  PortalInv'
<1>1. UNCHANGED browser /\ happened \subseteq happened'
  BY DEF RequestFails, Starts, Completes
<1>2. /\ batch' \in [Batch -> Status] /\ failed' \in [Batch -> BOOLEAN]
      /\ started' \in [Batch -> BOOLEAN]
      /\ \A x \in Batch : batch'[x] = batch[x]
                            \/ /\ batch[x] \in {"open", "cancelled"}
                               /\ batch'[x] \in {"open", "completed"}
  BY DEF RequestFails, Starts, Completes, PortalInv, Status
<1>3. Keeps(batch, batch', happened, happened')
  BY <1>1, <1>2 DEF Keeps, Exists
<1>4. Recorded(batch', happened')
  <2>1. \A x \in Batch : batch'[x] = "completed" =>
            batch[x] = "completed" \/ <<"finalize", x>> \in happened'
    BY <1>2 DEF RequestFails, Starts, Completes, PortalInv
  <2> QED
    BY <1>1, <1>2, <2>1 DEF Recorded, PortalInv
<1>5. \A u \in Tab : PageOK(page[u], batch', happened')
  BY <1>3, PageKeeps DEF PortalInv
<1>6. ASSUME NEW u \in Tab
      PROVE  CallOK(call[u], batch', happened')
  <2>1. CallOK(call[u], batch, happened)
    BY DEF PortalInv
  <2>2. Creates(call[u]) => batch'[call[u].batch] = batch[call[u].batch]
    BY <1>2, <2>1 DEF CallOK, Creates
  <2> QED
    BY <1>3, <2>1, <2>2, CallKeeps
<1>7. jar # None => Said(jar, happened')
  BY <1>3, SaidKeeps DEF PortalInv
<1> QED
  BY <1>1, <1>2, <1>4, <1>5, <1>6, <1>7 DEF PortalInv, browser

----------------------------------------------------------------------------
(* The specification.                                                       *)

LEMMA PortalInit == Init => PortalInv
<1> SUFFICES ASSUME Init PROVE PortalInv
  OBVIOUS
<1>1. /\ batch = [b \in Batch |-> "none"] /\ failed = [b \in Batch |-> FALSE]
      /\ jar = None /\ clicks = 0 /\ faults = 0
      /\ batch \in [Batch -> Status] /\ failed \in [Batch -> BOOLEAN]
      /\ started \in [Batch -> BOOLEAN] /\ Recorded(batch, happened)
  BY DEF Init, Status, Recorded
<1>2. ASSUME NEW t \in Tab
      PROVE  PageOK(page[t], batch, happened) /\ page[t] \in Page
  <2>1. page[t] = [name |-> "list", batch |-> None, shown |-> batch,
                   failed |-> FALSE, auto |-> FALSE, toast |-> None]
    BY DEF Init
  <2> QED
    BY <1>1, <2>1 DEF PageOK, Page
<1>3. \A t \in Tab : call[t] = Idle
  BY DEF Init
<1>4. CallOK(Idle, batch, happened) /\ ~Creates(Idle) /\ Idle \in Call
  BY DEF CallOK, Creates, Idle, Call
<1>5. page \in [Tab -> Page] /\ call \in [Tab -> Call]
  <2>1. page = [t \in Tab |-> page[t]] /\ call = [t \in Tab |-> call[t]]
    BY DEF Init
  <2> QED
    BY <1>2, <1>3, <1>4, <2>1
<1> QED
  BY <1>1, <1>2, <1>3, <1>4, <1>5, PortalAssumption DEF PortalInv

LEMMA PortalNext == PortalInv /\ [Next]_vars => PortalInv'
<1> SUFFICES ASSUME PortalInv, [Next]_vars PROVE PortalInv'
  OBVIOUS
<1>1. CASE UNCHANGED vars
  BY <1>1 DEF PortalInv, vars
<1>2. CASE \E t \in Tab : \/ Visit(t) \/ Refresh(t) \/ Toggle(t) \/ HideToast(t)
                          \/ PortalStep(t) \/ LoadFails(t) \/ ApiFails(t)
  BY <1>2, VisitKeeps, RefreshKeeps, ToastKeeps, LoadKeeps, CheckRetryKeeps,
     AnswerKeeps, LoadFailureKeeps, FailureKeeps DEF PortalStep
<1>3. CASE \E t \in Tab, what \in {"create", "cancel", "retry"}, b \in Batch :
              Submit(t, what, b)
  BY <1>3, SubmitKeeps
<1>4. CASE \E b \in Batch : RequestFails(b) \/ Starts(b) \/ Completes(b)
  BY <1>4, BatchKeeps
<1> QED
  BY <1>1, <1>2, <1>3, <1>4 DEF Next

LEMMA PortalInvariant == Spec => []PortalInv
BY PortalInit, PortalNext, PTL DEF Spec

\* The pages and requests have their types, however the tabs' requests overtake
\* each other: only an open list or details page refreshes itself, only details
\* shows a toast, and details is asked for no batch that was not created.
THEOREM PortalTypes == Spec => []PortalTypeOK
<1>1. PortalInv => PortalTypeOK
  <2> SUFFICES ASSUME PortalInv PROVE PortalTypeOK
    OBVIOUS
  <2>1. \A t \in Tab : PageOK(page[t], batch, happened) /\ CallOK(call[t], batch, happened)
    BY DEF PortalInv
  <2>2. ASSUME NEW t \in Tab
        PROVE  /\ page[t].name \in {"list", "details", "create", "error"}
               /\ page[t].batch \in Batch \cup {None}
               /\ page[t].auto => page[t].name \in {"list", "details"}
               /\ page[t].toast \in Toast \cup {None}
               /\ page[t].toast # None => page[t].name = "details"
    BY <2>1 DEF PageOK, Page
  <2>3. ASSUME NEW t \in Tab
        PROVE  /\ call[t] \in Call
               /\ call[t].to = "details" => batch[call[t].batch] \notin {"none", "file"}
    BY <2>1 DEF CallOK, Exists
  <2> QED
    BY <2>2, <2>3 DEF PortalTypeOK, PortalInv
<1> QED
  BY <1>1, PortalInvariant, PTL

\* Whatever tab a message ends up on, and however late: a cancellation or a
\* retry that is confirmed was accepted by the gateway, and a batch whose
\* cancellation is said to come too late was finalized or cancelled before
\* (TempData, the Details handlers, showInfoToast).
THEOREM ToastsTrue == Spec => []ToastsAreTrue
<1>1. PortalInv => ToastsAreTrue
  <2> SUFFICES ASSUME PortalInv, NEW m \in Messages
               PROVE  Said(m, happened)
    BY DEF ToastsAreTrue, Said
  <2>1. CASE m = jar /\ m # None
    BY <2>1 DEF PortalInv
  <2>2. CASE \E t \in Tab : m = call[t].cookie /\ m # None
    BY <2>2 DEF PortalInv, CallOK
  <2>3. CASE \E t \in Tab : page[t].toast # None /\ m = page[t].toast.message
    BY <2>3 DEF PortalInv, PageOK
  <2> QED
    BY <2>1, <2>2, <2>3 DEF Messages
<1> QED
  BY <1>1, PortalInvariant, PTL
=============================================================================
