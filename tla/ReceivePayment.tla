---------------------------- MODULE ReceivePayment ----------------------------
(***************************************************************************)
(* The Lightning pane of the receive screen (ReceivePaymentFragment.java).  *)
(* A request is made by a thread of AsyncTask's serial executor, which      *)
(* writes to the fields of the screen that the main thread writes too, and  *)
(* posts what is to be shown to the main thread; its image is drawn by a    *)
(* second task.  A request on display may be paid at any time, also after   *)
(* the screen, or the process, has gone.                                    *)
(*                                                                          *)
(* The screen is the first of three pages of HomeActivity.  When the third  *)
(* is shown the pager detaches it from the activity, and attaches the same  *)
(* object, with its fields and views, when the user comes back; its thread  *)
(* goes on meanwhile.                                                       *)
(*                                                                          *)
(* The preference that enables inbound payments is set.  Amounts paid and   *)
(* the expiry of requests are left out, and so is the on-chain pane.        *)
(***************************************************************************)
EXTENDS Integers, Sequences, FiniteSets

CONSTANTS Descriptions, DefaultDescription,  \* descriptions; that of the preferences
          Amounts, NoAmount,                 \* amounts; None
          Entries,                           \* what the user may enter in the dialog
          MaxRequests,                       \* bound on requests made
          MaxDeaths,                         \* bound on deaths of the process, and of the activity
          MaxFails,                          \* bound on failures of the node to answer
          MaxAways                           \* bound on detachments

ASSUME ReceiveAssumption ==
  /\ DefaultDescription \in Descriptions /\ NoAmount \in Amounts
  /\ Entries \subseteq [desc : Descriptions, amount : Amounts]
  /\ MaxRequests \in Nat /\ MaxDeaths \in Nat /\ MaxFails \in Nat /\ MaxAways \in Nat

VARIABLES
  \* the fields and views of the screen
  pane,       \* the payment type
  useDefault, \* lightningUseDefaultDescription
  form,       \* lightningDescription, lightningAmount
  request,    \* lightningPaymentRequest, lightningPaymentHash
  generating, \* isGeneratingLightningPR
  dialog,     \* the parameters dialog; "under" if a generation began below it
  text,       \* the request, or message, in the text view
  image,      \* the request in the image
  shown,      \* the description and amount in the views
  attached,   \* it has its activity
  heard,      \* it is the object that HomeActivity tells of changes of the channels
  \* the thread, and what is posted to the main thread
  queued,     \* a generation waits for the executor
  thread,     \* where the executor's thread is
  local,      \* its parameters
  mainQ,      \* runnables posted
  refreshDue, \* a ChannelUpdateEvent is on its way
  \* the rest of the process and of the world
  channels,   \* activeChannelsMap is not empty
  inbox,      \* the mailbox of NodeSupervisor
  rows,       \* the payment table
  made,       \* the requests that the node has made
  seen,       \* the requests that have been shown to somebody
  received,   \* the requests that have been paid to the node
  \* recorded for the properties
  wanted,     \* what was confirmed in the dialog for the request in preparation or on display
  raced,      \* the fields were written by two sides
  skipped,    \* a refresh came while a request was being made
  cut,        \* what a generation could not show for want of an activity
  forgotten,  \* requests whose row was deleted when the process was started, or never inserted
  lost,       \* requests whose payment was not yet recorded when the process died
  deaths, fails, aways

screenVars == <<pane, useDefault, form, request, generating, dialog, text, image, shown, attached, heard>>
threadVars == <<queued, thread, local, mainQ>>
nodeVars == <<inbox, rows, received, forgotten, lost>>
counters == <<deaths, fails, aways>>
ghosts == <<wanted, raced, skipped, cut>>
vars == <<screenVars, threadVars, nodeVars, counters, ghosts, refreshDue, channels, made, seen>>

Params == [desc : Descriptions, amount : Amounts]
Blank == [desc |-> DefaultDescription, amount |-> NoAmount]
Requests == 1 .. MaxRequests
None == 0
NoDescription == ""
NoRow == [status |-> "none", desc |-> NoDescription]

TypeOK ==
  /\ pane \in {"onchain", "lightning"} /\ useDefault \in BOOLEAN
  /\ form \in Params /\ request \in {None} \cup DOMAIN made /\ generating \in BOOLEAN
  /\ dialog \in {"closed", "open", "under"}
  /\ text \in [msg : {"", "wait", "error", "request"}, r : {None} \cup DOMAIN made]
  /\ image \in {None} \cup DOMAIN made /\ shown \in Params
  /\ queued \in BOOLEAN
  /\ thread \in {"idle", "amount", "node", "fields", "row", "rest", "post", "image", "failed"}
  /\ local \in Params
  /\ \A i \in DOMAIN mainQ : mainQ[i] \in [run : {"update", "image", "fail"}, r : {None} \cup DOMAIN made]
  /\ refreshDue \in BOOLEAN /\ channels \in BOOLEAN
  /\ \A i \in DOMAIN inbox : inbox[i] \in {None} \cup DOMAIN made
  /\ rows \in [Requests -> [status : {"none", "INIT", "PAID"}, desc : {NoDescription} \cup Descriptions]]
  /\ made \in Seq(Params) /\ Len(made) <= MaxRequests
  /\ received \subseteq seen /\ seen \subseteq DOMAIN made /\ forgotten \subseteq DOMAIN made
  /\ lost \subseteq received
  /\ wanted \subseteq Params /\ raced \in BOOLEAN /\ skipped \in BOOLEAN
  /\ cut \in {"", "update", "failure"} /\ attached \in BOOLEAN /\ heard \in BOOLEAN
  /\ deaths \in 0 .. MaxDeaths /\ fails \in 0 .. MaxFails /\ aways \in 0 .. MaxAways

ScreenInit ==
  /\ pane = "onchain" /\ useDefault = TRUE /\ form = Blank /\ request = None
  /\ generating = FALSE /\ dialog = "closed" /\ text = [msg |-> "", r |-> None] /\ image = None
  /\ shown = Blank /\ queued = FALSE /\ thread = "idle" /\ local = Blank /\ mainQ = <<>>
  /\ wanted = {} /\ raced = FALSE /\ skipped = FALSE /\ cut = ""

NewScreen ==
  /\ pane' = "onchain" /\ useDefault' = TRUE /\ form' = Blank /\ request' = None
  /\ generating' = FALSE /\ dialog' = "closed" /\ text' = [msg |-> "", r |-> None] /\ image' = None
  /\ shown' = Blank /\ queued' = FALSE /\ thread' = "idle" /\ local' = Blank /\ mainQ' = <<>>
  /\ wanted' = {} /\ raced' = FALSE /\ skipped' = FALSE /\ cut' = ""

Init ==
  /\ ScreenInit /\ attached = TRUE /\ heard = TRUE /\ refreshDue = FALSE /\ channels = FALSE
  /\ inbox = <<>> /\ rows = [r \in Requests |-> NoRow] /\ made = <<>> /\ seen = {} /\ received = {}
  /\ forgotten = {} /\ lost = {} /\ deaths = 0 /\ fails = 0 /\ aways = 0

------------------------------------------------------------------------------
(* The main thread. *)
FailPending == thread = "failed" \/ \E i \in DOMAIN mainQ : mainQ[i].run = "fail"

(* Called with f in the fields.  It does nothing if a generation is under
   way: one that has begun below the dialog then goes on, and its thread may
   or may not have read the fields before they got f. *)
generatePaymentRequest(f, use) ==
  IF generating
  THEN /\ form' = f /\ raced' = (raced \/ dialog = "under")
       /\ UNCHANGED <<generating, text, image, queued, cut>>
  ELSE /\ generating' = TRUE
       /\ form' = IF use THEN [f EXCEPT !.desc = DefaultDescription] ELSE f
       /\ text' = [msg |-> "wait", r |-> None] /\ image' = None
       /\ queued' = TRUE /\ raced' = FailPending /\ cut' = ""

(* Mutant: whether the request was paid is not looked up. *)
NeverPaid == FALSE

isCurrentPaymentRequestPaid == request # None /\ rows[request].status = "PAID"

Kept == <<nodeVars, counters, attached, heard, channels, made, seen>>

(* When the pane is picked, when the screen is resumed and when the channels
   have changed. *)
refreshLightningPaneState ==
  /\ IF channels /\ ~generating /\ (request = None \/ isCurrentPaymentRequestPaid)
     THEN /\ request' = None /\ shown' = Blank /\ wanted' = {}
          /\ generatePaymentRequest(Blank, useDefault)
          /\ dialog' = IF dialog = "open" THEN "under" ELSE dialog
     ELSE UNCHANGED <<request, form, generating, dialog, text, image, shown, queued, wanted, raced, cut>>
  /\ skipped' = (generating /\ (skipped \/ isCurrentPaymentRequestPaid))
  /\ UNCHANGED <<nodeVars, counters, channels, made, useDefault, thread, local, mainQ>>

PickLightning ==
  /\ attached /\ pane = "onchain" /\ dialog = "closed" /\ pane' = "lightning"
  /\ refreshLightningPaneState
  /\ UNCHANGED <<attached, heard, seen, refreshDue>>

PickOnchain ==
  /\ attached /\ pane = "lightning" /\ dialog = "closed" /\ pane' = "onchain"
  /\ UNCHANGED <<Kept, threadVars, ghosts, useDefault, form, request, generating, dialog,
                 text, image, shown, refreshDue>>

(* The user comes back to the application, or from the next page. *)
onResume ==
  /\ attached /\ pane = "lightning" /\ dialog = "closed"
  /\ refreshLightningPaneState
  /\ UNCHANGED <<attached, heard, seen, pane, refreshDue>>

(* HomeActivity.handleChannelUpdateEvent, also while the activity is paused.
   It drops the refresh of an object that is not added. *)
notifyChannelsUpdate ==
  /\ refreshDue /\ refreshDue' = FALSE
  /\ IF pane = "lightning" /\ attached /\ heard
     THEN refreshLightningPaneState
     ELSE UNCHANGED <<Kept, threadVars, ghosts, useDefault, form, request, generating, dialog,
                      text, image, shown>>
  /\ UNCHANGED <<attached, heard, seen, pane>>

(* HomePagerAdapter: the page two further on is shown.  After the activity has
   been restored from its saved state, getItem gives another object than the
   restored one when that one's page is needed again. *)
OnlyImages == \A i \in DOMAIN mainQ : mainQ[i].run = "image"

Detach ==
  /\ aways < MaxAways /\ aways' = aways + 1
  /\ attached /\ dialog = "closed" /\ attached' = FALSE /\ heard' = TRUE
  /\ IF heard
     THEN UNCHANGED <<threadVars, ghosts, pane, useDefault, form, request, generating, dialog,
                      text, image, shown>>
     ELSE OnlyImages /\ NewScreen
  /\ UNCHANGED <<nodeVars, deaths, fails, channels, made, seen, refreshDue>>

(* The page is needed again; what the main thread was to run before has been
   run.  The screen is as it was, and resumed. *)
Attach ==
  /\ ~attached /\ OnlyImages /\ attached' = TRUE
  /\ IF pane = "lightning" THEN refreshLightningPaneState
     ELSE UNCHANGED <<nodeVars, counters, channels, made, threadVars, ghosts, useDefault, form,
                      request, generating, dialog, text, image, shown>>
  /\ seen' = seen \cup ({image'} \ {None})
  /\ UNCHANGED <<pane, heard, refreshDue>>

(* Mutant: the button works while a request is being made. *)
EditAlways ==
  /\ attached /\ pane = "lightning" /\ text.msg # "" /\ dialog = "closed"
  /\ dialog' = "open"
  /\ UNCHANGED <<Kept, threadVars, ghosts, pane, useDefault, form, request, generating,
                 text, image, shown, refreshDue>>

EditRequest ==
  /\ attached /\ pane = "lightning" /\ text.msg # "" /\ dialog = "closed" /\ ~generating
  /\ dialog' = "open"
  /\ UNCHANGED <<Kept, threadVars, ghosts, pane, useDefault, form, request, generating,
                 text, image, shown, refreshDue>>

(* Mutant: the default description still comes first. *)
ConfirmKeepsDefault(p) ==
  /\ dialog # "closed" /\ dialog' = "closed"
  /\ generatePaymentRequest(p, useDefault)
  /\ wanted' = IF generating THEN wanted ELSE {p}
  /\ UNCHANGED <<Kept, pane, useDefault, request, shown, thread, local, mainQ, refreshDue, skipped>>

onConfirm(p) ==
  /\ dialog # "closed" /\ dialog' = "closed" /\ useDefault' = FALSE
  /\ generatePaymentRequest(p, FALSE)
  /\ wanted' = IF generating THEN wanted ELSE {p}
  /\ UNCHANGED <<Kept, pane, request, shown, thread, local, mainQ, refreshDue, skipped>>

(* The dialog is cancelled, or dismissed by onPause. *)
CloseDialog ==
  /\ dialog # "closed" /\ dialog' = "closed"
  /\ UNCHANGED <<Kept, threadVars, ghosts, pane, useDefault, form, request, generating,
                 text, image, shown, refreshDue>>

------------------------------------------------------------------------------
(* The runnables that the thread has posted.  The first two need the activity. *)
Runs(run) == mainQ # <<>> /\ Head(mainQ).run = run /\ mainQ' = Tail(mainQ)

(* The request becomes visible to whoever is to pay it. *)
ShowUpdate ==
  /\ attached /\ Runs("update")
  /\ text' = [msg |-> "request", r |-> Head(mainQ).r] /\ shown' = form
  /\ seen' = seen \cup {Head(mainQ).r}
  /\ UNCHANGED <<nodeVars, counters, ghosts, channels, made, refreshDue, queued, thread, local,
                 pane, useDefault, form, request, generating, dialog, image, attached, heard>>

failPaymentRequestFields ==
  /\ attached /\ Runs("fail")
  /\ text' = [msg |-> "error", r |-> None] /\ image' = None
  /\ request' = None /\ form' = Blank /\ shown' = Blank
  /\ UNCHANGED <<Kept, ghosts, refreshDue, queued, thread, local,
                 pane, useDefault, generating, dialog>>

(* Mutant: nothing is done without an image. *)
FinishNeedsImage ==
  /\ Runs("image")
  /\ IF Head(mainQ).r # None THEN generating' = FALSE /\ image' = Head(mainQ).r
                             ELSE UNCHANGED <<generating, image>>
  /\ seen' = IF attached THEN seen \cup ({image'} \ {None}) ELSE seen
  /\ UNCHANGED <<nodeVars, counters, ghosts, channels, made, refreshDue, queued, thread, local,
                 pane, useDefault, form, request, dialog, text, shown, attached, heard>>

processLightningQRCodeFinish ==
  /\ Runs("image")
  /\ generating' = FALSE /\ image' = IF Head(mainQ).r # None THEN Head(mainQ).r ELSE image
  /\ seen' = IF attached THEN seen \cup ({image'} \ {None}) ELSE seen
  /\ UNCHANGED <<nodeVars, counters, ghosts, channels, made, refreshDue, queued, thread, local,
                 pane, useDefault, form, request, dialog, text, shown, attached, heard>>

------------------------------------------------------------------------------
(* The thread.  A generation that waits for the executor begins once the
   last one has ended.  The description and the amount are read one after
   the other.  An exception, such as that for want of an activity, ends the
   generation. *)
Throw ==
  /\ thread' = "failed" /\ generating' = FALSE
  /\ UNCHANGED <<Kept, ghosts, refreshDue, local, mainQ,
                 pane, useDefault, form, request, dialog, text, image, shown>>

ReadDescription ==
  /\ queued /\ thread = "idle" /\ queued' = FALSE
  /\ IF attached THEN /\ thread' = "amount" /\ local' = [local EXCEPT !.desc = form.desc]
                      /\ UNCHANGED <<Kept, screenVars, ghosts, refreshDue, mainQ>>
                 ELSE Throw

ReadAmount ==
  /\ thread = "amount" /\ thread' = "node" /\ local' = [local EXCEPT !.amount = form.amount]
  /\ UNCHANGED <<Kept, screenVars, ghosts, refreshDue, queued, mainQ>>

(* The node answers, or does not within its twenty seconds, by which time the
   main thread has shown an earlier failure; beyond the bound on requests it
   does not. *)
NodeMakes ==
  /\ thread = "node" /\ Len(made) < MaxRequests
  /\ made' = Append(made, local) /\ thread' = "fields"
  /\ UNCHANGED <<screenVars, ghosts, nodeVars, counters, channels, seen, refreshDue, queued, local, mainQ>>

NodeFails ==
  /\ thread = "node" /\ ~FailPending /\ (fails < MaxFails \/ Len(made) = MaxRequests)
  /\ fails' = IF fails < MaxFails THEN fails + 1 ELSE fails
  /\ thread' = "failed" /\ generating' = FALSE
  /\ UNCHANGED <<nodeVars, deaths, aways, ghosts, channels, made, seen, refreshDue, queued, local, mainQ,
                 pane, useDefault, form, request, dialog, text, image, shown, attached, heard>>

(* Without an activity the failure is not shown, and the fields stay. *)
PostFailure ==
  /\ thread = "failed" /\ thread' = "idle" /\ local' = Blank
  /\ IF attached THEN mainQ' = Append(mainQ, [run |-> "fail", r |-> None]) /\ cut' = cut
                 ELSE cut' = "failure" /\ mainQ' = mainQ
  /\ UNCHANGED <<Kept, screenVars, wanted, raced, skipped, refreshDue, queued>>

(* The row is inserted, if there is an activity when this is looked at, and
   still when it is used, and the four fields are written one after the
   other; what the main thread may do in between is to write the last two. *)
WriteFields ==
  /\ thread' = "rest" /\ request' = Len(made) /\ form' = [form EXCEPT !.desc = local.desc]
  /\ UNCHANGED <<ghosts, counters, channels, made, seen, inbox, received, lost, refreshDue,
                 queued, local, mainQ,
                 pane, useDefault, generating, dialog, text, image, shown, attached, heard>>

SkipRow ==
  /\ thread = "fields"
  /\ IF attached THEN /\ thread' = "row"
                      /\ UNCHANGED <<Kept, screenVars, ghosts, refreshDue, queued, local, mainQ>>
                 ELSE /\ WriteFields
                      /\ rows' = rows /\ forgotten' = forgotten \cup {Len(made)}

SetFields ==
  /\ thread = "row"
  /\ IF attached THEN /\ WriteFields /\ forgotten' = forgotten
                      /\ rows' = [rows EXCEPT ![Len(made)] = [status |-> "INIT", desc |-> local.desc]]
                 ELSE Throw /\ queued' = queued

(* The update is posted on the same conditions. *)
SetAmount ==
  /\ thread = "rest" /\ form' = [form EXCEPT !.amount = local.amount]
  /\ IF attached THEN thread' = "post" /\ cut' = cut
                 ELSE thread' = "image" /\ cut' = "update"
  /\ UNCHANGED <<Kept, wanted, raced, skipped, refreshDue, queued, local, mainQ,
                 pane, useDefault, request, generating, dialog, text, image, shown>>

PostUpdate ==
  /\ thread = "post"
  /\ IF attached THEN /\ thread' = "image"
                      /\ mainQ' = Append(mainQ, [run |-> "update", r |-> Len(made)])
                      /\ UNCHANGED <<Kept, screenVars, ghosts, refreshDue, queued, local>>
                 ELSE Throw /\ queued' = queued

(* LightningQRCodeTask; no image if it cannot be drawn. *)
DrawImage ==
  /\ thread = "image" /\ thread' = "idle" /\ local' = Blank
  /\ \E r \in {None, Len(made)} : mainQ' = Append(mainQ, [run |-> "image", r |-> r])
  /\ UNCHANGED <<Kept, screenVars, ghosts, refreshDue, queued>>

ThreadStep ==
  \/ ReadDescription \/ ReadAmount \/ NodeMakes \/ NodeFails \/ PostFailure
  \/ SkipRow \/ SetFields \/ SetAmount \/ PostUpdate \/ DrawImage

------------------------------------------------------------------------------
(* The node and NodeSupervisor. *)

(* Somebody pays a request.  The signatures of the channel that paid follow
   the event. *)
NodeReceives(r) ==
  /\ channels /\ r \in seen \ received /\ received' = received \cup {r}
  /\ inbox' = inbox \o <<r, None>>
  /\ UNCHANGED <<screenVars, threadVars, counters, ghosts, refreshDue, channels, rows, made, seen,
                 forgotten, lost>>

(* Mutant: a payment without a row is ignored. *)
ReceivedIfKnown ==
  /\ inbox # <<>> /\ Head(inbox) # None /\ inbox' = Tail(inbox)
  /\ rows' = [rows EXCEPT ![Head(inbox)].status = IF @ = "none" THEN @ ELSE "PAID"]
  /\ UNCHANGED <<screenVars, threadVars, counters, ghosts, refreshDue, channels, made, seen, received,
                 forgotten, lost>>

(* A payment without a row gets one, which has no description. *)
PaymentReceived ==
  /\ inbox # <<>> /\ Head(inbox) # None /\ inbox' = Tail(inbox)
  /\ rows' = [rows EXCEPT ![Head(inbox)].status = "PAID"]
  /\ UNCHANGED <<screenVars, threadVars, counters, ghosts, refreshDue, channels, made, seen, received,
                 forgotten, lost>>

(* The channels' scheduler posts a ChannelUpdateEvent some time after a
   signature, or after any other change. *)
ChannelSignatureReceived ==
  /\ inbox # <<>> /\ Head(inbox) = None /\ inbox' = Tail(inbox) /\ refreshDue' = TRUE
  /\ UNCHANGED <<screenVars, threadVars, counters, ghosts, channels, made, seen, received, rows,
                 forgotten, lost>>

ChannelChanges ==
  /\ ~refreshDue /\ refreshDue' = TRUE /\ channels' = TRUE
  /\ UNCHANGED <<screenVars, threadVars, nodeVars, counters, ghosts, made, seen>>

(* The activity is destroyed and opened again, or restored by the system from
   the state it has saved, in which case the screen on display is not the one
   that HomeActivity has made for itself.  The thread of the old screen finds
   no activity, so that it inserts and shows nothing.  A runnable that it has
   posted already ends the process, as it needs the activity: Die. *)
Destroy ==
  /\ deaths < MaxDeaths /\ deaths' = deaths + 1
  /\ OnlyImages /\ NewScreen /\ attached' = TRUE /\ heard' \in BOOLEAN
  /\ UNCHANGED <<nodeVars, fails, aways, refreshDue, channels, made, seen>>

(* The process ends and is started again; App.checkupInit deletes the rows of
   the requests that have not been paid. *)
Restart ==
  /\ deaths' = IF deaths < MaxDeaths THEN deaths + 1 ELSE deaths
  /\ NewScreen /\ attached' = TRUE /\ heard' = TRUE
  /\ refreshDue' = FALSE /\ channels' = FALSE /\ inbox' = <<>>
  /\ lost' = lost \cup ({inbox[i] : i \in DOMAIN inbox} \ {None})
  /\ forgotten' = forgotten \cup {r \in Requests : rows[r].status = "INIT"}
  /\ rows' = [r \in Requests |-> IF rows[r].status = "INIT" THEN NoRow ELSE rows[r]]
  /\ UNCHANGED <<fails, aways, made, seen, received>>

Die == deaths < MaxDeaths /\ Restart

(* What needs the activity throws in the main thread. *)
MainThrows == ~attached /\ mainQ # <<>> /\ Head(mainQ).run # "image" /\ Restart

MainStep == ShowUpdate \/ processLightningQRCodeFinish \/ failPaymentRequestFields \/ MainThrows

Next ==
  \/ PickLightning \/ PickOnchain \/ onResume \/ Detach \/ Attach \/ notifyChannelsUpdate
  \/ EditRequest \/ CloseDialog \/ \E p \in Entries : onConfirm(p)
  \/ ThreadStep \/ MainStep
  \/ \E r \in Requests : NodeReceives(r)
  \/ PaymentReceived \/ ChannelSignatureReceived \/ ChannelChanges
  \/ Destroy \/ Die

(* The executor, the main thread and the actors go on. *)
Fairness ==
  /\ WF_vars(ThreadStep) /\ WF_vars(MainStep) /\ WF_vars(notifyChannelsUpdate)
  /\ WF_vars(PaymentReceived \/ ChannelSignatureReceived)

Spec == Init /\ [][Next]_vars /\ Fairness

------------------------------------------------------------------------------
(* What is on display belongs to one request.  The image is never that of
   another than the text: a request whose image is still being drawn is not
   overtaken; below a text that shows no request it is the image of one that
   could not be shown for want of an activity.  The description and the amount
   are those of the request, unless the dialog was confirmed over a generation
   that had begun below it, or a failure was shown late. *)
DisplayIsOneRequest ==
  /\ image # None => \/ text = [msg |-> "request", r |-> image]
                     \/ cut = "update" /\ text.msg # "request" /\ (raced \/ image = request)
  /\ text.msg = "request" /\ ~raced => shown = made[text.r]

(* What was confirmed in the dialog is what the request asks for, with the
   same exceptions, unless the generation failed where it could not show this
   and has left the request before it. *)
ConfirmedIsAsked ==
  request # None /\ ~generating /\ ~FailPending /\ ~raced /\ cut # "failure" =>
    \A p \in wanted : made[request] = p

(* A request that has been paid does not stay on a screen that is attached and
   told of changes, although refreshes are dropped while it is not: a refresh
   is on its way, unless it came while the request was still being drawn. *)
PaidIsReplaced ==
  /\ attached /\ heard /\ pane = "lightning" /\ channels
  /\ ~generating /\ request # None /\ rows[request].status = "PAID"
  => \/ refreshDue
     \/ skipped
     \/ \E i \in DOMAIN inbox : inbox[i] = None

(* A payment that was received is recorded as such, with the description of
   its request unless the process was restarted in between, or the request was
   made by a screen without an activity. *)
ReceivedIsRecorded ==
  \A r \in received \ lost :
    \/ \E i \in DOMAIN inbox : inbox[i] = r
    \/ rows[r].status = "PAID" /\ (r \in forgotten \/ rows[r].desc = made[r].desc)

(* Whoever opens the pane with a channel gets a request, or an error, or pages
   away: then the generation may end without showing either. *)
RequestAppears ==
  (pane = "lightning" /\ channels /\ attached /\ heard) ~>
    \/ pane = "onchain" \/ ~attached \/ cut # ""
    \/ ~generating /\ text.msg \in {"request", "error"}
==============================================================================
