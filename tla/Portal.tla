------------------------------- MODULE Portal -------------------------------
(***************************************************************************)
(* The BatchPortal pages that change something, between a browser and the  *)
(* gateway: create a batch, cancel it, retry its failed request, and the   *)
(* details and list pages with their auto-refresh and toasts.  The message *)
(* of a handler travels in a TempData cookie, one jar for all the tabs.    *)
(*                                                                         *)
(* A gateway call is one step here (module Gateway has its round trips);   *)
(* it may fail, or be carried out and its reply lost.  A navigation drops  *)
(* the tab's request in flight, whose gateway call may still be carried    *)
(* out.  A batch stands with its one request that can fail.                *)
(***************************************************************************)
EXTENDS Naturals

CONSTANTS Tab, Batch, None, ClickLimit, FaultLimit

ASSUME PortalAssumption ==
    /\ ClickLimit \in Nat /\ FaultLimit \in Nat
    /\ None \notin Batch

VARIABLES
    batch,      \* Batch -> none, file (uploaded, no batch yet), or its status
    failed,     \* Batch -> does it have a Failed request?
    jar,        \* the TempData cookie: a message or None
    page,       \* Tab -> what the tab shows
    call,       \* Tab -> its request in flight
    clicks, faults,
    started,    \* Batch -> has the scheduler saved it as running?
    happened    \* history: what the gateway has accepted, and what was finalized

server == <<batch, failed, started, happened>>
vars == <<batch, failed, jar, page, call, clicks, faults, started, happened>>

Status == {"none", "file", "open", "completed", "cancelled"}
Text == {"cancelled", "notCancelled", "retried", "notRetried"}
Message == [text : Text, about : Batch]

Toast == [type : {"success", "error", "warning", "info"}, message : Message]

\* shown: the statuses on the page; failed: is there a Retry button?
Page == [name : {"list", "details", "create", "error"}, batch : Batch \cup {None},
         shown : [Batch -> Status], failed : BOOLEAN, auto : BOOLEAN,
         toast : Toast \cup {None}]

\* from: the page that holds the form; step: what the portal does next.
Call == [to : {"list", "details", "create", "cancel", "retry"}, batch : Batch \cup {None},
         from : {"list", "details", "create", "error"},
         step : {"idle", "page", "upload", "load", "api"}, cookie : Message \cup {None}]

Idle == [to |-> "list", batch |-> None, from |-> "list", step |-> "idle", cookie |-> None]

Init ==
    /\ batch = [b \in Batch |-> "none"] /\ failed = [b \in Batch |-> FALSE]
    /\ jar = None
    /\ page = [t \in Tab |-> [name |-> "list", batch |-> None, shown |-> batch,
                              failed |-> FALSE, auto |-> FALSE,
                              toast |-> None]]
    /\ call = [t \in Tab |-> Idle]
    /\ clicks = 0 /\ faults = 0
    /\ started = [b \in Batch |-> FALSE] /\ happened = {}

----------------------------------------------------------------------------
(* The gateway, as the portal sees it.                                      *)

\* POST cancel and retry refuse with 400 what is not in the right state.
Accepts(c) ==
    CASE c.to = "cancel" -> batch[c.batch] = "open"
      [] c.to = "retry"  -> failed[c.batch]
      [] OTHER           -> TRUE

\* The call is carried out, or refused without effect.
Handled(c) ==
    /\ batch' = IF ~Accepts(c) THEN batch ELSE [batch EXCEPT ![c.batch] =
                   CASE c.step = "upload"                   -> "file"
                     [] c.step = "api" /\ c.to = "create" -> "open"
                     [] c.step = "api" /\ c.to = "cancel" -> "cancelled"
                     [] OTHER                               -> @]
    /\ failed' = IF c.to = "retry" THEN [failed EXCEPT ![c.batch] = FALSE] ELSE failed
    /\ happened' = IF Accepts(c) THEN happened \cup {<<c.to, c.batch>>} ELSE happened
    /\ UNCHANGED started

browser == <<jar, page, call, clicks, faults>>

RequestFails(b) ==
    /\ batch[b] = "open" /\ ~failed[b]
    /\ failed' = [failed EXCEPT ![b] = TRUE]
    /\ UNCHANGED <<batch, started, happened, browser>>

\* The scheduler saves the batch as running from the copy its tick has loaded,
\* over a cancellation that came since: the batch is open again.
Starts(b) ==
    /\ batch[b] \in {"open", "cancelled"} /\ ~started[b]
    /\ batch' = [batch EXCEPT ![b] = "open"]
    /\ started' = [started EXCEPT ![b] = TRUE]
    /\ UNCHANGED <<failed, happened, browser>>

\* The finalizer, or the scheduler that misses the input file, saves completed
\* or failed over whatever the row has become.
Completes(b) ==
    /\ batch[b] \in {"open", "cancelled"}
    /\ batch' = [batch EXCEPT ![b] = "completed"]
    /\ happened' = happened \cup {<<"finalize", b>>}
    /\ UNCHANGED <<failed, started, browser>>

----------------------------------------------------------------------------
(* The browser.                                                             *)

InFlight(t) == call[t].step # "idle"

\* A new request of the tab: one in flight is dropped, its gateway call perhaps
\* carried out.  It carries the jar of the moment.
Request(t, c) ==
    /\ \/ UNCHANGED server
       \/ call[t].step \in {"upload", "api"} /\ Handled(call[t])
    /\ call' = [call EXCEPT ![t] = [c EXCEPT !.cookie = jar]]

Get(name, b) == [to |-> name, batch |-> b, from |-> name, step |-> "page", cookie |-> None]

Click == clicks < ClickLimit /\ clicks' = clicks + 1

\* A link, the address bar, or back: to any page of any batch there is.
Visit(t) ==
    /\ \E name \in {"list", "details", "create"}, b \in Batch :
          /\ name = "details" => batch[b] \notin {"none", "file"}
          /\ Request(t, Get(name, IF name = "details" THEN b ELSE None))
    /\ Click
    /\ UNCHANGED <<jar, page, faults>>

\* The forms: Cancel is offered for what the page shows as queued or running,
\* Retry for what it shows as failed.
Submit(t, what, b) ==
    /\ CASE what = "create" -> /\ page[t].name = "create"
                               /\ batch[b] = "none"
                               /\ \A u \in Tab : call[u].batch # b
         [] what = "cancel" -> /\ page[t].name = "list" \/ page[t].batch = b
                               /\ page[t].shown[b] = "open"
         [] OTHER           -> page[t].batch = b /\ page[t].failed
    /\ Request(t, [to |-> what, batch |-> b, from |-> page[t].name, cookie |-> None,
                   step |-> CASE what = "create" -> "upload"
                              [] what = "cancel" -> "api"
                              [] OTHER           -> "load"])
    /\ Click
    /\ UNCHANGED <<jar, page, faults>>

\* setInterval: every five seconds the page is asked for again, whatever the
\* tab is doing.  (Variant: not while the page shows a failed request.)
RefreshVariant(t) ==
    /\ page[t].auto /\ ~page[t].failed
    /\ Request(t, Get(page[t].name, page[t].batch))
    /\ UNCHANGED <<jar, page, clicks, faults>>

Refresh(t) ==
    /\ page[t].auto
    /\ Request(t, Get(page[t].name, page[t].batch))
    /\ UNCHANGED <<jar, page, clicks, faults>>

Toggle(t) ==
    /\ page[t].name \in {"list", "details"}
    /\ Click
    /\ page' = [page EXCEPT ![t].auto = ~@]
    /\ UNCHANGED <<server, jar, call, faults>>

\* site.js: the page's scripts show every message as an info toast, whose element
\* goes when it has been hidden.
ShowToast(message, type) == [type |-> type, message |-> message]
ShowInfoToast(message) == ShowToast(message, "info")

HideToast(t) ==
    /\ page[t].toast # None
    /\ page' = [page EXCEPT ![t].toast = None]
    /\ UNCHANGED <<server, jar, call, clicks, faults>>

----------------------------------------------------------------------------
(* The portal.                                                              *)

\* Details turns the refresh on while the batch is queued or running; the list
\* compares with "Queued" and "Running", which no batch's status ever is.
\* (Variant: on for whatever is not completed.)
AutoRefreshVariant(name, shown) == shown # "completed"

AutoRefresh(name, shown) == name = "details" /\ shown = "open"

\* OnGetAsync and the view: the details page reads the message and shows it.
View(c) ==
    [name |-> c.to, batch |-> c.batch,
     shown |-> IF c.to = "create" THEN [b \in Batch |-> "none"] ELSE batch,
     failed |-> c.to = "details" /\ failed[c.batch],
     auto |-> AutoRefresh(c.to, IF c.to = "details" THEN batch[c.batch] ELSE "none"),
     toast |-> IF c.to = "details" /\ c.cookie # None
               THEN ShowInfoToast(c.cookie) ELSE None]

\* TempData, as a response to a request of the details page leaves the jar: a
\* message of its own; otherwise the one it read is gone, whatever has taken
\* its place since.
JarAfter(c, message) ==
    IF message # None /\ (c.cookie = None \/ c.cookie.text # message.text) THEN message
    ELSE IF c.cookie # None THEN None
    ELSE jar

\* The browser shows the page it has asked for.
Load(t) ==
    LET c == call[t]
    IN  /\ c.step = "page"
        /\ page' = [page EXCEPT ![t] = View(c)]
        /\ jar' = IF c.to = "details" THEN JarAfter(c, None) ELSE jar
        /\ call' = [call EXCEPT ![t] = Idle]
        /\ UNCHANGED <<server, clicks, faults>>

\* RedirectToPage, from the details page with its message.
Redirect(t, text) ==
    LET c == call[t]
        message == IF c.from = "details" THEN [text |-> text, about |-> c.batch] ELSE None
        left == IF c.from = "details" THEN JarAfter(c, message) ELSE jar
    IN  /\ jar' = left
        /\ call' = [call EXCEPT ![t] =
               [Get(c.from, IF c.from = "details" THEN c.batch ELSE None) EXCEPT !.cookie = left]]

\* An exception of a handler: the error page.  Create catches it and shows
\* "Unable to create batch" on its own page; the jar stays as it is.
Fails(t) ==
    /\ page' = [page EXCEPT ![t] =
           [@ EXCEPT !.name = IF call[t].to = "create" THEN "create" ELSE "error",
                     !.batch = call[t].batch, !.failed = FALSE, !.auto = FALSE,
                     !.shown = [b \in Batch |-> "none"], !.toast = None]]
    /\ call' = [call EXCEPT ![t] = Idle]
    /\ jar' = jar

\* OnGetAsync of the list or of details throws (the database, the preview of the
\* output): the error page, which has no refresh and leaves the jar as it is.
LoadFails(t) ==
    /\ call[t].step = "page" /\ call[t].to # "create"
    /\ faults < FaultLimit /\ faults' = faults + 1
    /\ Fails(t)
    /\ UNCHANGED <<server, clicks>>

\* OnPostRetryRequestAsync looks first: a request no longer failed is refused.
CheckRetry(t) ==
    /\ call[t].step = "load"
    /\ IF failed[call[t].batch]
       THEN call' = [call EXCEPT ![t].step = "api"] /\ UNCHANGED jar
       ELSE Redirect(t, "notRetried")
    /\ UNCHANGED <<server, page, clicks, faults>>

\* The message after CancelBatchAsync or RetryRequestAsync.  (Variant: a
\* refusal is taken for a success.)
ResultVariant(c) == IF c.to = "cancel" THEN "cancelled" ELSE "retried"

Result(c) ==
    CASE c.to = "cancel" -> IF Accepts(c) THEN "cancelled" ELSE "notCancelled"
      [] OTHER           -> IF Accepts(c) THEN "retried" ELSE "notRetried"

\* The call is answered.
ApiAnswers(t) ==
    LET c == call[t]
    IN  /\ c.step \in {"upload", "api"}
        /\ Handled(c)
        /\ \/ /\ c.step = "upload"
              /\ call' = [call EXCEPT ![t].step = "api"]
              /\ UNCHANGED jar
           \/ /\ c.step = "api" /\ c.to = "create"
              /\ call' = [call EXCEPT ![t] = [Get("details", c.batch) EXCEPT !.cookie = jar]]
              /\ UNCHANGED jar
           \/ /\ c.step = "api" /\ c.to # "create"
              /\ Redirect(t, Result(c))
        /\ UNCHANGED <<page, clicks, faults>>

\* It fails: the gateway is down or answers 5xx (which RetryRequestAsync turns
\* into a refusal), or its reply is lost.
ApiFails(t) ==
    /\ call[t].step \in {"upload", "api"}
    /\ faults < FaultLimit /\ faults' = faults + 1
    /\ \/ (UNCHANGED server \/ Handled(call[t])) /\ Fails(t)
       \/ /\ call[t].to = "retry"
          /\ Redirect(t, "notRetried") /\ UNCHANGED <<server, page>>
    /\ UNCHANGED <<clicks>>

PortalStep(t) == Load(t) \/ CheckRetry(t) \/ ApiAnswers(t)

Next ==
    \/ \E t \in Tab :
          \/ Visit(t) \/ Refresh(t) \/ Toggle(t) \/ HideToast(t)
          \/ \E what \in {"create", "cancel", "retry"}, b \in Batch : Submit(t, what, b)
          \/ PortalStep(t) \/ LoadFails(t) \/ ApiFails(t)
    \/ \E b \in Batch : RequestFails(b) \/ Starts(b) \/ Completes(b)

Spec == Init /\ [][Next]_vars

\* The interval keeps firing; now and then a page comes within its five seconds.
FairSpec ==
    Spec /\ \A t \in Tab : WF_vars(Refresh(t)) /\ SF_vars(PortalStep(t))

----------------------------------------------------------------------------
(* Properties.                                                              *)

PortalTypeOK ==
    /\ batch \in [Batch -> Status] /\ failed \in [Batch -> BOOLEAN]
    /\ started \in [Batch -> BOOLEAN]
    /\ jar \in Message \cup {None}
    /\ \A t \in Tab :
          /\ page[t].name \in {"list", "details", "create", "error"}
          /\ page[t].batch \in Batch \cup {None}
          /\ page[t].auto => page[t].name \in {"list", "details"}
          /\ page[t].toast \in Toast \cup {None}
          /\ page[t].toast # None => page[t].name = "details"
          /\ call[t] \in Call
          /\ call[t].to = "details" /\ InFlight(t) => batch[call[t].batch] \notin {"none", "file"}
    /\ clicks \in 0..ClickLimit /\ faults \in 0..FaultLimit

Messages ==
    (({jar} \cup {call[t].cookie : t \in Tab}) \ {None})
    \cup {page[t].toast.message : t \in {u \in Tab : page[u].toast # None}}

\* Nothing is confirmed that the gateway has not accepted, and no cancellation
\* is said to come too late for a batch that was never finalized nor cancelled,
\* whatever tab and page the message ends up on, however late (Details handlers,
\* TempData, showInfoToast).  The batch may be open again by then: Starts.
ToastsAreTrue ==
    \A m \in Messages :
        /\ m.text = "cancelled" => <<"cancel", m.about>> \in happened
        /\ m.text = "retried" => <<"retry", m.about>> \in happened
        /\ m.text = "notCancelled" =>
              \E how \in {"cancel", "finalize"} : <<how, m.about>> \in happened

\* A details page left to refresh itself comes to show that its batch is
\* closed (the five second interval of Details.cshtml), unless the batch is
\* opened again or the page gives way to the error page, which stays.
Behind(t, b) ==
    /\ page[t].name = "details" /\ page[t].batch = b /\ page[t].auto
    /\ page[t].shown[b] = "open" /\ batch[b] # "open"

RefreshCatchesUp == \A t \in Tab, b \in Batch : Behind(t, b) ~> ~Behind(t, b)
=============================================================================
