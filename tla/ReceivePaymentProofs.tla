------------------------ MODULE ReceivePaymentProofs -------------------------
(***************************************************************************)
(* Theorems about ReceivePayment, for any descriptions, amounts and entries *)
(* of the dialog, and any number of requests, failures, detachments of the  *)
(* screen and deaths of the process.                                        *)
(***************************************************************************)
EXTENDS ReceivePayment, SequenceTheorems, TLAPS

------------------------------------------------------------------------------
(* The runnables that the thread posts. *)
Fl == [run |-> "fail", r |-> None]
Up(n) == [run |-> "update", r |-> n]
Im(n) == [run |-> "image", r |-> n]

(* The thread has taken up a generation; the last request is its own.  Its
   fields are not written yet; or its update was not posted. *)
Making == generating /\ ~queued
Fresh == thread \in {"fields", "row"}
HasMade == Making /\ (Fresh \/ thread \in {"rest", "post", "image", "idle"})
Unposted == cut = "update"
Last == Len(made)

Types ==
  /\ form \in Params /\ local \in Params
  /\ made \in Seq(Params) /\ Last <= MaxRequests
  /\ request \in 0 .. Last /\ image \in 0 .. Last
  /\ dialog \in {"closed", "open", "under"} /\ useDefault \in BOOLEAN
  /\ generating \in BOOLEAN /\ queued \in BOOLEAN /\ raced \in BOOLEAN

(* One generation at a time: where its thread is, and what it has posted.  A
   failure of the one before may still be in front; that of a thread which finds
   no activity is not posted behind it. *)
Stuck == thread = "failed" /\ mainQ = <<Fl>>

PhaseInv ==
  /\ queued => generating /\ ~Unposted
  /\ Stuck => ~attached
  /\ ~Making => \/ thread = "idle" /\ mainQ \in {<<>>, <<Fl>>}
                \/ thread = "failed" /\ ~Unposted /\ mainQ \in {<<>>, <<Fl>>}
  /\ Making => \/ /\ thread \in {"amount", "node", "fields", "row", "rest", "post"} /\ ~Unposted
                  /\ mainQ \in {<<>>, <<Fl>>}
               \/ thread = "image" /\ ~Unposted /\ mainQ \in {<<>>, <<Up(Last)>>, <<Fl, Up(Last)>>}
               \/ thread = "image" /\ Unposted /\ mainQ \in {<<>>, <<Fl>>}
               \/ /\ thread = "idle" /\ ~Unposted
                  /\ \E n \in {None, Last} :
                       mainQ \in {<<Im(n)>>, <<Up(Last), Im(n)>>, <<Fl, Up(Last), Im(n)>>}
               \/ /\ thread = "idle" /\ Unposted
                  /\ \E n \in {None, Last} : mainQ \in {<<Im(n)>>, <<Fl, Im(n)>>}
  /\ HasMade => Last # 0

(* Its request is in the text. *)
Updated == HasMade /\ ~Unposted /\ \/ thread = "image" /\ mainQ = <<>>
                                   \/ thread = "idle" /\ \E n \in {None, Last} : mainQ = <<Im(n)>>

DisplayInv ==
  /\ generating => image = None /\ dialog # "open"
  /\ image # None => \/ text = [msg |-> "request", r |-> image]
                     \/ Unposted /\ text.msg # "request" /\ (raced \/ image = request)
  /\ Updated => text = [msg |-> "request", r |-> Last]
  /\ generating /\ ~Updated => text.msg # "request"
  /\ text.msg = "request" => text.r \in 1 .. Last /\ (~raced => shown = made[text.r])

(* Unless two sides have written to the fields, they hold what the generation
   was begun with, the thread has read that and the request asks for it. *)
Calm == generating /\ ~raced

FormInv ==
  Calm => /\ thread # "failed" /\ (mainQ # <<>> => mainQ[1] # Fl)
          /\ \A p \in wanted : form = p
          /\ Making /\ thread = "amount" => local.desc = form.desc
          /\ Making /\ thread \in {"node", "fields", "row", "rest"} => local = form
          /\ HasMade => made[Last] = form
          /\ HasMade /\ ~Fresh => request = Last

ScreenInv == Types /\ PhaseInv /\ DisplayInv /\ FormInv /\ ConfirmedIsAsked

(* The rows. *)
Row == [status : {"none", "INIT", "PAID"}, desc : {NoDescription} \cup Descriptions]

RowTypes ==
  /\ rows \in [Requests -> Row]
  /\ seen \subseteq 1 .. Last /\ received \subseteq seen
  /\ inbox \in Seq(Nat) /\ \A i \in 1 .. Len(inbox) : inbox[i] = None \/ inbox[i] \in received

(* A request that was shown to somebody, or is about to be, has its row, unless
   it was deleted with the process or never inserted; and the row is not written
   again. *)
Recorded(r) == r \in forgotten \/ rows[r].desc = made[r].desc

RowsInv ==
  /\ \A r \in seen : Recorded(r)
  /\ image # None => Recorded(image)
  /\ HasMade /\ Fresh => made[Last] = local /\ Last \notin seen
  /\ HasMade /\ ~Fresh => Recorded(Last)

(* A payment is followed by signatures. *)
Signed == \A i \in 1 .. Len(inbox) : inbox[i] # None => i + 1 \in 1 .. Len(inbox) /\ inbox[i + 1] = None

(* Also while the next request is being made. *)
PaidInv ==
  attached /\ heard /\ pane = "lightning" /\ channels /\ request # None /\ rows[request].status = "PAID" =>
    \/ refreshDue
    \/ skipped
    \/ \E i \in 1 .. Len(inbox) : inbox[i] = None

RecordInv == RowTypes /\ RowsInv /\ Signed /\ PaidInv /\ ReceivedIsRecorded

------------------------------------------------------------------------------
(* The queue gets a third runnable. *)
LEMMA AppendThird ==
  ASSUME NEW a, NEW b, NEW c
  PROVE  Append(<<a, b>>, c) = <<a, b, c>>
<1> DEFINE S == {a, b, c}
<1>1. /\ <<a, b>> \in Seq(S) /\ <<a, b, c>> \in Seq(S) /\ c \in S
      /\ Len(<<a, b>>) = 2 /\ Len(<<a, b, c>>) = 3
  OBVIOUS
<1>2. /\ Append(<<a, b>>, c) \in Seq(S) /\ Len(Append(<<a, b>>, c)) = 3
      /\ Append(<<a, b>>, c)[1] = a /\ Append(<<a, b>>, c)[2] = b /\ Append(<<a, b>>, c)[3] = c
  BY <1>1, AppendProperties
<1>3. \A i \in 1 .. Len(Append(<<a, b>>, c)) : Append(<<a, b>>, c)[i] = <<a, b, c>>[i]
  <2>1. \A i \in 1 .. 3 : i = 1 \/ i = 2 \/ i = 3 OBVIOUS
  <2> QED BY <1>2, <2>1
<1>4. Len(Append(<<a, b>>, c)) = Len(<<a, b, c>>) BY <1>1, <1>2
<1> HIDE DEF S
<1> QED BY <1>1, <1>2, <1>3, <1>4, SeqEqual

(* Short queues. *)
LEMMA Queues ==
  ASSUME NEW a, NEW b, NEW c
  PROVE  /\ Head(<<a>>) = a /\ Head(<<a, b>>) = a /\ Head(<<a, b, c>>) = a
         /\ Tail(<<a>>) = <<>> /\ Tail(<<a, b>>) = <<b>> /\ Tail(<<a, b, c>>) = <<b, c>>
         /\ Append(<<>>, a) = <<a>> /\ Append(<<a>>, b) = <<a, b>> /\ Append(<<a, b>>, c) = <<a, b, c>>
         /\ <<a>>[1] = a /\ <<a, b>>[1] = a /\ <<a, b, c>>[1] = a
         /\ <<a>> # <<>> /\ <<a, b>> # <<>> /\ <<a, b, c>> # <<>>
         /\ DOMAIN <<a>> = {1} /\ DOMAIN <<a, b>> = {1, 2} /\ DOMAIN <<a, b, c>> = {1, 2, 3}
         /\ <<a, b>>[2] = b /\ <<a, b, c>>[2] = b /\ <<a, b, c>>[3] = c
         /\ DOMAIN <<>> = {}
<1>1. Head(<<a>>) = a /\ Head(<<a, b>>) = a /\ Head(<<a, b, c>>) = a OBVIOUS
<1>2. Tail(<<a>>) = <<>> OBVIOUS
<1>3. Tail(<<a, b>>) = <<b>> OBVIOUS
<1>4. Tail(<<a, b, c>>) = <<b, c>> OBVIOUS
<1>5. Append(<<>>, a) = <<a>> OBVIOUS
<1>6. Append(<<a>>, b) = <<a, b>>
  <2> DEFINE S == {a, b}
  <2>1. <<a>> \in Seq(S) /\ <<a, b>> \in Seq(S) /\ b \in S /\ Len(<<a>>) = 1 /\ Len(<<a, b>>) = 2 OBVIOUS
  <2>2. /\ Append(<<a>>, b) \in Seq(S) /\ Len(Append(<<a>>, b)) = 2
        /\ Append(<<a>>, b)[1] = a /\ Append(<<a>>, b)[2] = b
    BY <2>1, AppendProperties
  <2>3. \A i \in 1 .. Len(Append(<<a>>, b)) : Append(<<a>>, b)[i] = <<a, b>>[i]
    <3>1. \A i \in 1 .. 2 : i = 1 \/ i = 2 OBVIOUS
    <3> QED BY <2>2, <3>1
  <2>4. Len(Append(<<a>>, b)) = Len(<<a, b>>) BY <2>1, <2>2
  <2> HIDE DEF S
  <2> QED BY <2>1, <2>2, <2>3, <2>4, SeqEqual
<1>7. Append(<<a, b>>, c) = <<a, b, c>> BY AppendThird
<1>8. <<a>>[1] = a /\ <<a, b>>[1] = a /\ <<a, b, c>>[1] = a OBVIOUS
<1>9. <<a>> # <<>> /\ <<a, b>> # <<>> /\ <<a, b, c>> # <<>> OBVIOUS
<1>11. DOMAIN <<a>> = {1} OBVIOUS
<1>12. DOMAIN <<a, b>> = {1, 2} OBVIOUS
<1>13. DOMAIN <<a, b, c>> = {1, 2, 3} OBVIOUS
<1>14. <<a, b>>[2] = b /\ <<a, b, c>>[2] = b /\ <<a, b, c>>[3] = c OBVIOUS
<1>15. DOMAIN <<>> = {} OBVIOUS
<1> QED BY <1>1, <1>2, <1>3, <1>4, <1>5, <1>6, <1>7, <1>8, <1>9, <1>11, <1>12, <1>13, <1>14, <1>15

LEMMA Runnables ==
  ASSUME NEW n, NEW m
  PROVE  /\ Fl.run = "fail" /\ Up(n).run = "update" /\ Im(n).run = "image"
         /\ Up(n).r = n /\ Im(n).r = n
         /\ Fl # Up(n) /\ Fl # Im(n) /\ Up(n) # Im(m)
BY DEF Fl, Up, Im

(* What is at the head of the queue says in which of its states it is. *)
LEMMA HeadIs ==
  ASSUME PhaseInv, mainQ # <<>>
  PROVE  /\ Head(mainQ).run = "update" =>
              /\ HasMade /\ ~Unposted /\ thread \in {"image", "idle"} /\ Head(mainQ) = Up(Last)
              /\ \/ mainQ = <<Up(Last)>> /\ thread = "image"
                 \/ thread = "idle" /\ \E n \in {None, Last} : mainQ = <<Up(Last), Im(n)>>
         /\ Head(mainQ).run = "image" => HasMade /\ thread = "idle" /\ \E n \in {None, Last} : mainQ = <<Im(n)>>
         /\ Head(mainQ).run = "fail" =>
              /\ mainQ[1] = Fl
              /\ \/ mainQ = <<Fl>> /\ (Making => thread # "idle" /\ (thread = "image" => Unposted))
                 \/ mainQ = <<Fl, Up(Last)>> /\ thread = "image" /\ Making /\ ~Unposted
                 \/ /\ thread = "idle" /\ Making /\ ~Unposted
                    /\ \E n \in {None, Last} : mainQ = <<Fl, Up(Last), Im(n)>>
                 \/ thread = "idle" /\ Making /\ Unposted /\ \E n \in {None, Last} : mainQ = <<Fl, Im(n)>>
         /\ Head(mainQ).run \in {"update", "image", "fail"}
<1>1. CASE mainQ = <<Fl>> /\ (Making => thread # "idle" /\ (thread = "image" => Unposted))
  BY <1>1, Queues, Runnables
<1>2. CASE mainQ = <<Fl, Up(Last)>> /\ thread = "image" /\ Making /\ ~Unposted
  BY <1>2, Queues, Runnables
<1>3. ASSUME NEW n \in {None, Last}, mainQ = <<Fl, Up(Last), Im(n)>>, thread = "idle", Making, ~Unposted
      PROVE  Head(mainQ).run = "fail" /\ mainQ[1] = Fl
  BY <1>3, Queues, Runnables
<1>4. CASE mainQ = <<Up(Last)>> /\ thread = "image" /\ Making /\ ~Unposted
  BY <1>4, Queues, Runnables DEF HasMade
<1>5. ASSUME NEW n \in {None, Last}, mainQ = <<Up(Last), Im(n)>>, thread = "idle", Making
      PROVE  Head(mainQ) = Up(Last) /\ Up(Last).run = "update" /\ HasMade
  BY <1>5, Queues, Runnables DEF HasMade
<1>6. ASSUME NEW n \in {None, Last}, mainQ = <<Im(n)>>, thread = "idle", Making
      PROVE  Head(mainQ).run = "image" /\ HasMade
  BY <1>6, Queues, Runnables DEF HasMade
<1>7. ASSUME NEW n \in {None, Last}, mainQ = <<Fl, Im(n)>>, thread = "idle", Making, Unposted
      PROVE  Head(mainQ).run = "fail" /\ mainQ[1] = Fl
  BY <1>7, Queues, Runnables
<1>8. \/ mainQ = <<Fl>> /\ (Making => thread # "idle" /\ (thread = "image" => Unposted))
      \/ mainQ = <<Fl, Up(Last)>> /\ thread = "image" /\ Making /\ ~Unposted
      \/ \E n \in {None, Last} : mainQ = <<Fl, Up(Last), Im(n)>> /\ thread = "idle" /\ Making /\ ~Unposted
      \/ mainQ = <<Up(Last)>> /\ thread = "image" /\ Making /\ ~Unposted
      \/ \E n \in {None, Last} : mainQ = <<Up(Last), Im(n)>> /\ thread = "idle" /\ Making /\ ~Unposted
      \/ \E n \in {None, Last} : mainQ = <<Im(n)>> /\ thread = "idle" /\ Making
      \/ \E n \in {None, Last} : mainQ = <<Fl, Im(n)>> /\ thread = "idle" /\ Making /\ Unposted
  BY DEF PhaseInv
<1> QED BY <1>1, <1>2, <1>3, <1>4, <1>5, <1>6, <1>7, <1>8

(* A failure is pending if it is at the head. *)
LEMMA Failing ==
  ASSUME PhaseInv
  PROVE  /\ FailPending <=> thread = "failed" \/ (mainQ # <<>> /\ mainQ[1] = Fl)
         /\ OnlyImages => mainQ # <<Fl>>
<1>1. ASSUME mainQ = <<>> PROVE FailPending <=> thread = "failed"
  BY <1>1, Queues DEF FailPending
<1>2. ASSUME mainQ # <<>> PROVE FailPending <=> thread = "failed" \/ mainQ[1] = Fl
  <2>1. \/ mainQ = <<Fl>>
        \/ mainQ = <<Fl, Up(Last)>>
        \/ \E n \in {None, Last} : mainQ = <<Fl, Up(Last), Im(n)>>
        \/ \E n \in {None, Last} : mainQ = <<Fl, Im(n)>>
        \/ mainQ = <<Up(Last)>>
        \/ \E n \in {None, Last} : mainQ = <<Up(Last), Im(n)>>
        \/ \E n \in {None, Last} : mainQ = <<Im(n)>>
    BY <1>2 DEF PhaseInv
  <2>2. CASE mainQ = <<Fl>> BY <2>2, Queues, Runnables DEF FailPending
  <2>3. CASE mainQ = <<Fl, Up(Last)>> BY <2>3, Queues, Runnables DEF FailPending
  <2>4. ASSUME NEW n, mainQ = <<Fl, Up(Last), Im(n)>> PROVE FailPending /\ mainQ[1] = Fl
    BY <2>4, Queues, Runnables DEF FailPending
  <2>5. CASE mainQ = <<Up(Last)>> BY <2>5, Queues, Runnables DEF FailPending
  <2>6. ASSUME NEW n, mainQ = <<Up(Last), Im(n)>> PROVE (FailPending <=> thread = "failed") /\ mainQ[1] # Fl
    BY <2>6, Queues, Runnables DEF FailPending
  <2>7. ASSUME NEW n, mainQ = <<Im(n)>> PROVE (FailPending <=> thread = "failed") /\ mainQ[1] # Fl
    BY <2>7, Queues, Runnables DEF FailPending
  <2>8. ASSUME NEW n, mainQ = <<Fl, Im(n)>> PROVE FailPending /\ mainQ[1] = Fl
    BY <2>8, Queues, Runnables DEF FailPending
  <2> QED BY <1>2, <2>1, <2>2, <2>3, <2>4, <2>5, <2>6, <2>7, <2>8
<1>3. ASSUME OnlyImages, mainQ = <<Fl>> PROVE FALSE
  BY <1>3, Queues, Runnables DEF OnlyImages
<1> QED BY <1>1, <1>2, <1>3

------------------------------------------------------------------------------
(* The screen. *)

LEMMA ScreenFrame ==
  ASSUME ScreenInv, dialog' \in {"closed", "open", "under"}, generating => dialog' # "open", useDefault' = useDefault,
         attached' => attached \/ ~Stuck,
         UNCHANGED <<form, local, made, request, generating, queued, raced, thread, mainQ, image, text, shown, wanted,
                     cut>>
  PROVE  ScreenInv'
<1>1. Types' BY DEF ScreenInv, Types, Last
<1>2. /\ (Making' <=> Making) /\ (HasMade' <=> HasMade) /\ Last' = Last /\ (FailPending' <=> FailPending)
      /\ (Unposted' <=> Unposted) /\ (Fresh' <=> Fresh) /\ (Stuck' <=> Stuck)
  BY DEF Making, HasMade, Last, FailPending, Unposted, Fresh, Stuck
<1>3. PhaseInv' BY <1>2 DEF ScreenInv, PhaseInv
<1>4. Updated' <=> Updated BY <1>2 DEF Updated
<1>5. DisplayInv' BY <1>2, <1>4 DEF ScreenInv, DisplayInv
<1>6. FormInv' BY <1>2 DEF ScreenInv, FormInv, Calm
<1>7. ConfirmedIsAsked' BY <1>2 DEF ScreenInv, ConfirmedIsAsked
<1> QED BY <1>1, <1>3, <1>5, <1>6, <1>7 DEF ScreenInv

LEMMA NewScreenIsFine ==
  ASSUME ScreenInv, NewScreen, UNCHANGED made
  PROVE  ScreenInv'
<1>1. /\ form' = Blank /\ local' = Blank /\ request' = 0 /\ generating' = FALSE /\ queued' = FALSE /\ raced' = FALSE
      /\ thread' = "idle" /\ mainQ' = <<>> /\ image' = None /\ text'.msg = "" /\ dialog' = "closed"
  BY DEF NewScreen, None
<1>2. Blank \in Params BY ReceiveAssumption DEF Blank, Params
<1>3. Types'
  <2>1. Last \in Nat /\ Last' = Last BY DEF ScreenInv, Types, Last
  <2>2. dialog' \in {"closed", "open", "under"} /\ useDefault' \in BOOLEAN BY DEF NewScreen
  <2>3. made' \in Seq(Params) /\ Last' <= MaxRequests BY <2>1 DEF ScreenInv, Types
  <2>4. request' \in 0 .. Last' /\ image' \in 0 .. Last'
    <3>1. 0 \in 0 .. Last BY <2>1
    <3> QED BY <1>1, <2>1, <3>1 DEF None
  <2> QED BY <1>1, <1>2, <2>2, <2>3, <2>4 DEF Types
<1>4. ~Making' /\ ~HasMade' BY <1>1 DEF Making, HasMade
<1>5. PhaseInv' BY <1>1, <1>4 DEF PhaseInv, Stuck
<1>6. DisplayInv' BY <1>1, <1>4 DEF DisplayInv, Updated
<1>7. FormInv' BY <1>1 DEF FormInv, Calm
<1>8. ConfirmedIsAsked' BY <1>1 DEF ConfirmedIsAsked, None
<1> QED BY <1>3, <1>5, <1>6, <1>7, <1>8 DEF ScreenInv

(* A generation begins.  The fields hold what is wanted. *)
LEMMA BeginIsFine ==
  ASSUME ScreenInv, ~generating, NEW f \in Params, NEW use \in BOOLEAN, generatePaymentRequest(f, use),
         UNCHANGED <<made, thread, local, mainQ>>, dialog' \in {"closed", "under"}, useDefault' \in BOOLEAN,
         request' \in {None, request}, attached' => attached \/ ~Stuck,
         \A p \in wanted' : ~use /\ p = f
  PROVE  ScreenInv'
<1>1. /\ generating' = TRUE /\ queued' = TRUE /\ image' = None /\ text' = [msg |-> "wait", r |-> None] /\ cut' = ""
      /\ raced' = FailPending /\ form' = (IF use THEN [f EXCEPT !.desc = DefaultDescription] ELSE f)
  BY DEF generatePaymentRequest
<1>2. form' \in Params
  BY <1>1, ReceiveAssumption DEF Params
<1>3. raced' \in BOOLEAN BY <1>1 DEF FailPending
<1>4. Types'
  <2>1. Last \in Nat BY DEF ScreenInv, Types, Last
  <2>2. 0 \in 0 .. Last BY <2>1
  <2> QED BY <1>1, <1>2, <1>3, <2>2 DEF ScreenInv, Types, Last, None
<1>5. ~Making /\ ~Making' /\ ~HasMade' /\ ~Unposted' BY <1>1 DEF Making, HasMade, Unposted
<1>6. PhaseInv' BY <1>1, <1>5 DEF ScreenInv, PhaseInv, Stuck
<1>7. DisplayInv' BY <1>1, <1>5 DEF DisplayInv, Updated
<1>8. FormInv'
  <2> SUFFICES ASSUME ~raced' PROVE FormInv' BY DEF FormInv, Calm
  <2>1. thread # "failed" /\ (mainQ # <<>> => mainQ[1] # Fl)
    BY <1>1, Failing DEF ScreenInv
  <2>2. \A p \in wanted' : form' = p BY <1>1
  <2> QED BY <1>5, <2>1, <2>2 DEF FormInv
<1>9. ConfirmedIsAsked' BY <1>1 DEF ConfirmedIsAsked
<1> QED BY <1>4, <1>6, <1>7, <1>8, <1>9 DEF ScreenInv

LEMMA RefreshKeepsScreen ==
  ASSUME ScreenInv, refreshLightningPaneState, attached' => attached \/ ~Stuck
  PROVE  ScreenInv'
<1>1. CASE channels /\ ~generating /\ (request = None \/ isCurrentPaymentRequestPaid)
  <2>1. /\ ~generating /\ generatePaymentRequest(Blank, useDefault) /\ wanted' = {} /\ request' = None
        /\ UNCHANGED <<made, thread, local, mainQ>>
        /\ dialog' = (IF dialog = "open" THEN "under" ELSE dialog) /\ useDefault' = useDefault
    BY <1>1 DEF refreshLightningPaneState
  <2>2. Blank \in Params BY ReceiveAssumption DEF Blank, Params
  <2>3. dialog' \in {"closed", "under"} /\ useDefault \in BOOLEAN BY <2>1 DEF ScreenInv, Types
  <2>4. \A p \in wanted' : ~useDefault /\ p = Blank BY <2>1
  <2> QED BY <2>1, <2>2, <2>3, <2>4, BeginIsFine
<1>2. CASE ~(channels /\ ~generating /\ (request = None \/ isCurrentPaymentRequestPaid))
  <2>1. UNCHANGED <<form, local, made, request, generating, queued, raced, thread, mainQ, image, text, shown,
                    wanted, cut, dialog, useDefault>>
    BY <1>2 DEF refreshLightningPaneState
  <2>2. dialog' \in {"closed", "open", "under"} /\ (generating => dialog' # "open")
    BY <2>1 DEF ScreenInv, DisplayInv, Types
  <2> QED BY <2>1, <2>2, ScreenFrame
<1> QED BY <1>1, <1>2

LEMMA UserKeepsScreen ==
  ASSUME ScreenInv,
         PickLightning \/ PickOnchain \/ onResume \/ notifyChannelsUpdate \/ EditRequest \/ CloseDialog
  PROVE  ScreenInv'
<1>0. attached' = attached
  BY DEF PickLightning, PickOnchain, onResume, notifyChannelsUpdate, EditRequest, CloseDialog, Kept
<1>1. CASE refreshLightningPaneState
  BY <1>0, <1>1, RefreshKeepsScreen
<1>2. CASE ~refreshLightningPaneState
  <2>1. UNCHANGED <<form, local, made, request, generating, queued, raced, thread, mainQ, image, text, shown, wanted,
                    cut, useDefault>>
    BY <1>2 DEF PickLightning, PickOnchain, onResume, notifyChannelsUpdate, EditRequest, CloseDialog,
                Kept, threadVars, ghosts
  <2>2. dialog' \in {dialog, "closed"} \/ (dialog' = "open" /\ ~generating)
    BY <1>2 DEF PickLightning, PickOnchain, onResume, notifyChannelsUpdate, EditRequest, CloseDialog
  <2>3. dialog' \in {"closed", "open", "under"} /\ (generating => dialog' # "open")
    BY <2>2 DEF ScreenInv, DisplayInv, Types
  <2> QED BY <1>0, <2>1, <2>3, ScreenFrame
<1> QED BY <1>1, <1>2

(* The pager: the object goes on as it was, or another one takes its place. *)
LEMMA PagerKeepsScreen ==
  ASSUME ScreenInv, Detach \/ Attach
  PROVE  ScreenInv'
<1>1. CASE Detach
  <2>1. attached' = FALSE /\ made' = made BY <1>1 DEF Detach
  <2>2. CASE heard
    <3>1. UNCHANGED <<form, local, made, request, generating, queued, raced, thread, mainQ, image, text, shown, wanted,
                      cut, dialog, useDefault>>
      BY <1>1, <2>2 DEF Detach, threadVars, ghosts
    <3>2. dialog' \in {"closed", "open", "under"} /\ (generating => dialog' # "open")
      BY <3>1 DEF ScreenInv, DisplayInv, Types
    <3> QED BY <2>1, <3>1, <3>2, ScreenFrame
  <2>3. CASE ~heard
    <3>1. NewScreen BY <1>1, <2>3 DEF Detach
    <3> QED BY <2>1, <3>1, NewScreenIsFine
  <2> QED BY <2>2, <2>3
<1>2. CASE Attach
  <2>1. ~Stuck BY <1>2, Failing DEF Attach, ScreenInv, Stuck
  <2>2. CASE pane = "lightning"
    <3>1. refreshLightningPaneState BY <1>2, <2>2 DEF Attach
    <3> QED BY <2>1, <3>1, RefreshKeepsScreen
  <2>3. CASE pane # "lightning"
    <3>1. UNCHANGED <<form, local, made, request, generating, queued, raced, thread, mainQ, image, text, shown, wanted,
                      cut, dialog, useDefault>>
      BY <1>2, <2>3 DEF Attach, threadVars, ghosts
    <3>2. dialog' \in {"closed", "open", "under"} /\ (generating => dialog' # "open")
      BY <3>1 DEF ScreenInv, DisplayInv, Types
    <3> QED BY <2>1, <3>1, <3>2, ScreenFrame
  <2> QED BY <2>2, <2>3
<1> QED BY <1>1, <1>2

LEMMA ConfirmKeepsScreen ==
  ASSUME ScreenInv, NEW q \in Entries, onConfirm(q)
  PROVE  ScreenInv'
<1>0. q \in Params BY ReceiveAssumption DEF Params
<1>1. /\ dialog # "closed" /\ dialog' = "closed" /\ generatePaymentRequest(q, FALSE)
      /\ wanted' = (IF generating THEN wanted ELSE {q})
      /\ useDefault' = FALSE /\ UNCHANGED <<made, thread, local, mainQ, request, shown, attached>>
  BY DEF onConfirm, Kept
<1>2. CASE ~generating
  <2>1. \A p \in wanted' : ~FALSE /\ p = q BY <1>1, <1>2
  <2>2. dialog' \in {"closed", "under"} /\ useDefault' \in BOOLEAN /\ request' \in {None, request} BY <1>1
  <2> QED BY <1>0, <1>1, <1>2, <2>1, <2>2, BeginIsFine
<1>3. CASE generating
  <2>1. /\ form' = q /\ raced' = (raced \/ dialog = "under")
        /\ UNCHANGED <<generating, text, image, queued, cut>>
    BY <1>1, <1>3 DEF generatePaymentRequest
  <2>2. raced' \in BOOLEAN /\ (raced => raced') BY <2>1 DEF ScreenInv, Types
  <2>3. Types' BY <1>0, <1>1, <2>1, <2>2 DEF ScreenInv, Types, Last
  <2>4. /\ (Making' <=> Making) /\ (HasMade' <=> HasMade) /\ Last' = Last /\ (Unposted' <=> Unposted)
        /\ (Stuck' <=> Stuck)
    BY <1>1, <2>1 DEF Making, HasMade, Last, Fresh, Unposted, Stuck
  <2>5. PhaseInv' BY <1>1, <2>1, <2>4 DEF ScreenInv, PhaseInv
  <2>6. DisplayInv'
    <3>1. Updated' <=> Updated BY <1>1, <2>4 DEF Updated
    <3> QED BY <1>1, <2>1, <2>2, <2>4, <3>1 DEF ScreenInv, DisplayInv
  <2>7. ConfirmedIsAsked' BY <1>3, <2>1 DEF ConfirmedIsAsked
  <2> HIDE DEF FormInv
  <2>8. FormInv'
    <3>1. raced' BY <1>1, <1>3, <2>1 DEF ScreenInv, DisplayInv, Types
    <3> QED BY <1>1, <3>1 DEF FormInv, Calm
  <2> QED BY <2>3, <2>5, <2>6, <2>7, <2>8 DEF ScreenInv
<1> QED BY <1>2, <1>3

(* The runnables. *)
LEMMA UpdateKeepsScreen ==
  ASSUME ScreenInv, ShowUpdate
  PROVE  ScreenInv'
<1>1. /\ mainQ # <<>> /\ Head(mainQ).run = "update" /\ mainQ' = Tail(mainQ)
      /\ text' = [msg |-> "request", r |-> Head(mainQ).r] /\ shown' = form
      /\ UNCHANGED <<form, local, made, request, generating, queued, raced, thread, image, wanted, cut, attached,
                     dialog, useDefault>>
  BY DEF ShowUpdate, Runs, ghosts
<1>2. /\ HasMade /\ ~Unposted /\ thread \in {"image", "idle"} /\ Head(mainQ) = Up(Last)
      /\ \/ mainQ = <<Up(Last)>> /\ thread = "image"
         \/ thread = "idle" /\ \E n \in {None, Last} : mainQ = <<Up(Last), Im(n)>>
  BY <1>1, HeadIs DEF ScreenInv
<1>3. /\ (Making' <=> Making) /\ (HasMade' <=> HasMade) /\ Last' = Last /\ Making /\ ~Unposted' /\ ~Stuck'
      /\ ~Fresh /\ ~Fresh'
  BY <1>1, <1>2 DEF Making, HasMade, Last, Unposted, Stuck, Fresh
<1>4. Types' BY <1>1 DEF ScreenInv, Types, Last
<1>5. \/ mainQ' = <<>> /\ thread = "image"
      \/ thread = "idle" /\ \E n \in {None, Last} : mainQ' = <<Im(n)>>
  <2>1. Tail(<<Up(Last)>>) = <<>> BY Queues
  <2>2. ASSUME NEW n PROVE Tail(<<Up(Last), Im(n)>>) = <<Im(n)>> BY Queues
  <2> QED BY <1>1, <1>2, <2>1, <2>2
<1>6. PhaseInv' BY <1>1, <1>2, <1>3, <1>5 DEF ScreenInv, PhaseInv
<1>7. text' = [msg |-> "request", r |-> Last] BY <1>1, <1>2, Runnables
<1>8. Last \in 1 .. Last /\ (~raced => form = made[Last])
  <2>1. Last \in Nat /\ Last # 0 BY <1>2 DEF ScreenInv, Types, PhaseInv, Last
  <2>2. ~raced => form = made[Last] BY <1>2, <1>3 DEF ScreenInv, FormInv, Calm, Making
  <2> QED BY <2>1, <2>2
<1>9. DisplayInv'
  <2>1. image' = None /\ dialog' # "open" BY <1>1, <1>3 DEF ScreenInv, DisplayInv, Making
  <2>2. Updated' BY <1>1, <1>2, <1>3, <1>5 DEF Updated
  <2> QED BY <1>1, <1>3, <1>7, <1>8, <2>1, <2>2 DEF DisplayInv
<1>10. FormInv'
  <2>1. mainQ' # <<>> => mainQ'[1] # Fl BY <1>5, Queues, Runnables
  <2> QED BY <1>1, <1>3, <2>1 DEF ScreenInv, FormInv, Calm
<1>11. ConfirmedIsAsked' BY <1>1, <1>3 DEF ConfirmedIsAsked, Making
<1> QED BY <1>4, <1>6, <1>9, <1>10, <1>11 DEF ScreenInv

LEMMA FinishKeepsScreen ==
  ASSUME ScreenInv, processLightningQRCodeFinish
  PROVE  ScreenInv'
<1>1. /\ mainQ # <<>> /\ Head(mainQ).run = "image" /\ mainQ' = Tail(mainQ) /\ generating' = FALSE
      /\ image' = (IF Head(mainQ).r # None THEN Head(mainQ).r ELSE image)
      /\ UNCHANGED <<form, local, made, request, queued, raced, thread, text, shown, wanted, cut, attached,
                     dialog, useDefault>>
  BY DEF processLightningQRCodeFinish, Runs, ghosts
<1>2. HasMade /\ thread = "idle" /\ \E n \in {None, Last} : mainQ = <<Im(n)>>
  BY <1>1, HeadIs DEF ScreenInv
<1>3. /\ Making /\ ~Making' /\ ~HasMade' /\ Last' = Last /\ ~queued /\ ~Fresh /\ (Unposted' <=> Unposted)
  BY <1>1, <1>2 DEF Making, HasMade, Last, Fresh, Unposted
<1>8. Head(mainQ).r \in {None, Last} BY <1>2, Queues, Runnables
<1>4. Types'
  <2>1. Last \in Nat BY DEF ScreenInv, Types, Last
  <2>2. None \in 0 .. Last /\ Last \in 0 .. Last BY <2>1 DEF None
  <2> QED BY <1>1, <1>8, <2>2 DEF ScreenInv, Types, Last
<1>5. mainQ' = <<>> BY <1>1, <1>2, Queues
<1>6. PhaseInv' BY <1>1, <1>2, <1>3, <1>5, Queues DEF PhaseInv, Stuck
<1>7. IF Unposted THEN text.msg # "request" /\ (raced \/ request = Last)
                  ELSE text = [msg |-> "request", r |-> Last]
  <2>1. CASE Unposted
    <3>1. ~Updated BY <2>1 DEF Updated
    <3>2. text.msg # "request" BY <1>3, <3>1 DEF ScreenInv, DisplayInv, Making
    <3>3. raced \/ request = Last BY <1>2, <1>3 DEF ScreenInv, FormInv, Calm, Making
    <3> QED BY <2>1, <3>2, <3>3
  <2>2. CASE ~Unposted
    BY <1>2, <2>2 DEF ScreenInv, DisplayInv, Updated
  <2> QED BY <2>1, <2>2
<1>9. DisplayInv'
  <2>1. image = None BY <1>3 DEF ScreenInv, DisplayInv, Making
  <2>2. image' # None => \/ text' = [msg |-> "request", r |-> image']
                         \/ Unposted' /\ text'.msg # "request" /\ (raced' \/ image' = request')
    BY <1>1, <1>3, <1>7, <1>8, <2>1
  <2>3. text'.msg = "request" => text'.r \in 1 .. Last' /\ (~raced' => shown' = made'[text'.r])
    BY <1>1, <1>3 DEF ScreenInv, DisplayInv
  <2> QED BY <1>1, <1>3, <2>2, <2>3 DEF DisplayInv, Updated
<1>10. FormInv' BY <1>1 DEF FormInv, Calm
<1>11. ConfirmedIsAsked' BY <1>1, <1>2, <1>3 DEF ScreenInv, FormInv, Calm, ConfirmedIsAsked, Making
<1> QED BY <1>4, <1>6, <1>9, <1>10, <1>11 DEF ScreenInv

LEMMA FailKeepsScreen ==
  ASSUME ScreenInv, failPaymentRequestFields
  PROVE  ScreenInv'
<1>1. /\ mainQ # <<>> /\ Head(mainQ).run = "fail" /\ mainQ' = Tail(mainQ) /\ attached
      /\ text' = [msg |-> "error", r |-> None] /\ image' = None /\ request' = None /\ form' = Blank
      /\ UNCHANGED <<local, made, generating, queued, raced, thread, wanted, cut, attached, dialog, useDefault>>
  BY DEF failPaymentRequestFields, Runs, ghosts, Kept
<1>2. /\ mainQ[1] = Fl
      /\ \/ mainQ = <<Fl>> /\ (Making => thread # "idle" /\ (thread = "image" => Unposted))
         \/ mainQ = <<Fl, Up(Last)>> /\ thread = "image" /\ Making /\ ~Unposted
         \/ thread = "idle" /\ Making /\ ~Unposted /\ \E n \in {None, Last} : mainQ = <<Fl, Up(Last), Im(n)>>
         \/ thread = "idle" /\ Making /\ Unposted /\ \E n \in {None, Last} : mainQ = <<Fl, Im(n)>>
  BY <1>1, HeadIs DEF ScreenInv
<1>3. /\ (Making' <=> Making) /\ (HasMade' <=> HasMade) /\ Last' = Last /\ Last \in Nat
      /\ (Unposted' <=> Unposted)
  BY <1>1 DEF Making, HasMade, Last, ScreenInv, Types, Fresh, Unposted
<1>4. Types'
  <2>1. Blank \in Params BY ReceiveAssumption DEF Blank, Params
  <2>2. None \in 0 .. Last BY <1>3 DEF None
  <2> QED BY <1>1, <1>3, <2>1, <2>2 DEF ScreenInv, Types
<1>5. \/ mainQ' = <<>> /\ mainQ = <<Fl>> /\ (Making => thread # "idle" /\ (thread = "image" => Unposted))
      \/ mainQ' = <<Up(Last)>> /\ thread = "image" /\ Making /\ ~Unposted
      \/ thread = "idle" /\ Making /\ ~Unposted /\ \E n \in {None, Last} : mainQ' = <<Up(Last), Im(n)>>
      \/ thread = "idle" /\ Making /\ Unposted /\ \E n \in {None, Last} : mainQ' = <<Im(n)>>
  <2>1. Tail(<<Fl>>) = <<>> /\ Tail(<<Fl, Up(Last)>>) = <<Up(Last)>> BY Queues
  <2>2. ASSUME NEW n PROVE Tail(<<Fl, Up(Last), Im(n)>>) = <<Up(Last), Im(n)>> BY Queues
  <2>3. ASSUME NEW n PROVE Tail(<<Fl, Im(n)>>) = <<Im(n)>> BY Queues
  <2> QED BY <1>1, <1>2, <2>1, <2>2, <2>3
<1>6. PhaseInv'
  <2>1. ~Stuck'
    <3>1. <<>> # <<Fl>> /\ Up(Last) # Fl BY Queues, Runnables
    <3>2. <<Up(Last)>>[1] = Up(Last) /\ <<Fl>>[1] = Fl BY Queues
    <3> QED BY <1>1, <1>5, <3>1, <3>2 DEF Stuck
  <2>2. CASE mainQ = <<Fl>> /\ mainQ' = <<>> /\ (Making => thread # "idle" /\ (thread = "image" => Unposted))
    BY <1>1, <1>3, <2>1, <2>2 DEF ScreenInv, PhaseInv
  <2>3. CASE ~(mainQ = <<Fl>> /\ mainQ' = <<>>)
    BY <1>1, <1>3, <1>5, <2>1, <2>3 DEF ScreenInv, PhaseInv
  <2> QED BY <1>5, <2>2, <2>3
<1>7. ~Updated'
  <2>1. ASSUME NEW n, NEW m PROVE <<Up(Last), Im(n)>> # <<Im(m)>> BY Queues, Runnables
  <2>2. <<Up(Last)>> # <<>> BY Queues
  <2> QED BY <1>1, <1>3, <1>5, <2>1, <2>2 DEF Updated, HasMade
<1>8. DisplayInv' BY <1>1, <1>7 DEF ScreenInv, DisplayInv
<1>9. FormInv'
  <2>1. ~Calm BY <1>1, <1>2 DEF ScreenInv, FormInv
  <2> QED BY <1>1, <2>1 DEF FormInv, Calm
<1>10. ConfirmedIsAsked' BY <1>1 DEF ConfirmedIsAsked
<1> QED BY <1>4, <1>6, <1>8, <1>9, <1>10 DEF ScreenInv

(* The thread. *)
LEMMA ReadKeepsScreen ==
  ASSUME ScreenInv, (ReadDescription /\ attached) \/ ReadAmount
  PROVE  ScreenInv'
<1>1. /\ UNCHANGED <<form, made, request, generating, raced, mainQ, image, text, shown, wanted, cut, dialog, useDefault>>
      /\ \/ queued /\ thread = "idle" /\ queued' = FALSE /\ thread' = "amount" /\ local' = [local EXCEPT !.desc = form.desc]
         \/ thread = "amount" /\ thread' = "node" /\ local' = [local EXCEPT !.amount = form.amount] /\ queued' = queued
  BY DEF ReadDescription, ReadAmount, screenVars, ghosts, Kept
<1>2. /\ generating /\ Making' /\ ~HasMade' /\ Last' = Last /\ ~queued' /\ (thread = "amount" => Making)
      /\ ~Stuck' /\ ~Updated /\ ~Updated' /\ ~Unposted'
  BY <1>1 DEF Making, HasMade, Last, ScreenInv, PhaseInv, Fresh, Stuck, Updated, Unposted
<1>3. /\ local \in Params /\ form \in Params /\ local' \in Params
      /\ thread = "idle" => local'.desc = form.desc
      /\ thread = "amount" => local'.desc = local.desc /\ local'.amount = form.amount
  BY <1>1 DEF ScreenInv, Types, Params
<1>4. Types' BY <1>1, <1>2, <1>3 DEF ScreenInv, Types, Last
<1>5. mainQ \in {<<>>, <<Fl>>}
  <2>1. CASE thread = "amount" BY <1>2, <2>1 DEF ScreenInv, PhaseInv
  <2>2. CASE queued BY <1>1, <2>2 DEF ScreenInv, PhaseInv, Making
  <2> QED BY <1>1, <2>1, <2>2
<1>6. PhaseInv' BY <1>1, <1>2, <1>5 DEF PhaseInv
<1>7. DisplayInv'
  <2>1. Unposted' <=> Unposted BY <1>1 DEF Unposted
  <2> QED BY <1>1, <1>2, <2>1 DEF ScreenInv, DisplayInv
<1>8. FormInv'
  <2> SUFFICES ASSUME ~raced PROVE FormInv' BY <1>1 DEF FormInv, Calm
  <2>1. /\ mainQ # <<>> => mainQ[1] # Fl
        /\ \A p \in wanted : form = p
        /\ thread = "amount" => local.desc = form.desc
    BY <1>2 DEF ScreenInv, FormInv, Calm
  <2>2. thread = "amount" => local' = form BY <1>3, <2>1 DEF Params
  <2> QED BY <1>1, <1>2, <1>3, <2>1, <2>2 DEF FormInv
<1>9. ConfirmedIsAsked' BY <1>1, <1>2 DEF ConfirmedIsAsked
<1> QED BY <1>4, <1>6, <1>7, <1>8, <1>9 DEF ScreenInv

LEMMA MakeKeepsScreen ==
  ASSUME ScreenInv, NodeMakes
  PROVE  ScreenInv'
<1>1. /\ thread = "node" /\ Len(made) < MaxRequests /\ made' = Append(made, local) /\ thread' = "fields"
      /\ UNCHANGED <<form, local, request, generating, queued, raced, mainQ, image, text, shown, wanted, cut,
                     dialog, useDefault>>
  BY DEF NodeMakes, screenVars, ghosts
<1>2. /\ made' \in Seq(Params) /\ Last \in Nat /\ Last' = Last + 1 /\ made'[Last'] = local
      /\ \A i \in 1 .. Last : made'[i] = made[i]
  <2>1. made \in Seq(Params) /\ local \in Params BY DEF ScreenInv, Types
  <2> QED BY <1>1, <2>1, AppendProperties DEF Last
<1>3. /\ Making /\ Making' /\ HasMade' /\ ~HasMade /\ ~Updated /\ ~Updated' /\ ~Stuck' /\ Fresh'
      /\ (Unposted' <=> Unposted)
  BY <1>1 DEF Making, HasMade, ScreenInv, PhaseInv, Fresh, Updated, Stuck, Unposted
<1>4. Types'
  <2>1. Last' <= MaxRequests BY <1>1, <1>2, ReceiveAssumption DEF Last
  <2>2. request' \in 0 .. Last' /\ image' \in 0 .. Last' BY <1>1, <1>2 DEF ScreenInv, Types
  <2> QED BY <1>1, <1>2, <2>1, <2>2 DEF ScreenInv, Types
<1>5. PhaseInv'
  <2>1. mainQ \in {<<>>, <<Fl>>} /\ ~Unposted BY <1>1, <1>3 DEF ScreenInv, PhaseInv
  <2>2. Last' # 0 BY <1>2
  <2> QED BY <1>1, <1>3, <2>1, <2>2 DEF PhaseInv, Making
<1>6. DisplayInv'
  <2>2. text.msg = "request" => text.r \in 1 .. Last' /\ (~raced => shown = made'[text.r])
    BY <1>2 DEF ScreenInv, DisplayInv
  <2> QED BY <1>1, <1>3, <2>2 DEF ScreenInv, DisplayInv
<1>7. FormInv' BY <1>1, <1>2, <1>3 DEF ScreenInv, FormInv, Calm
<1>8. ConfirmedIsAsked' BY <1>1, <1>3 DEF ConfirmedIsAsked, Making
<1> QED BY <1>4, <1>5, <1>6, <1>7, <1>8 DEF ScreenInv

(* The node does not answer, or the thread wants its activity and has none. *)
LEMMA EndKeepsScreen ==
  ASSUME ScreenInv, thread' = "failed", generating' = FALSE, queued' = FALSE,
         ~Unposted, mainQ \in {<<>>, <<Fl>>}, mainQ = <<>> \/ ~attached,
         UNCHANGED <<form, local, made, request, raced, mainQ, image, text, shown, wanted, cut, attached,
                     dialog, useDefault>>
  PROVE  ScreenInv'
<1>1. ~Making' /\ ~HasMade' /\ Last' = Last /\ ~Unposted'
  BY DEF Making, HasMade, Last, Unposted
<1>2. Types' BY DEF ScreenInv, Types, Last
<1>3. PhaseInv'
  <2>1. Stuck' => ~attached' BY Queues DEF Stuck
  <2> QED BY <1>1, <2>1 DEF PhaseInv
<1>4. DisplayInv' BY <1>1 DEF ScreenInv, DisplayInv, Updated
<1>5. FormInv' BY DEF FormInv, Calm
<1>6. ConfirmedIsAsked' BY DEF ConfirmedIsAsked, FailPending
<1> QED BY <1>2, <1>3, <1>4, <1>5, <1>6 DEF ScreenInv

LEMMA FailureKeepsScreen ==
  ASSUME ScreenInv, \/ NodeFails
                    \/ ~attached /\ (ReadDescription \/ SetFields \/ PostUpdate)
  PROVE  ScreenInv'
<1>1. /\ thread' = "failed" /\ generating' = FALSE
      /\ \/ thread \in {"node", "row", "post"} /\ queued' = queued
         \/ thread = "idle" /\ queued /\ queued' = FALSE
      /\ UNCHANGED <<form, local, made, request, raced, mainQ, image, text, shown, wanted, cut, attached,
                     dialog, useDefault>>
  BY DEF NodeFails, ReadDescription, SetFields, PostUpdate, Throw, ghosts, Kept
<1>2. ~Unposted /\ mainQ \in {<<>>, <<Fl>>} /\ queued' = FALSE
  <2>1. CASE thread \in {"node", "row", "post"}
    <3>1. Making BY <2>1 DEF ScreenInv, PhaseInv
    <3> QED BY <1>1, <2>1, <3>1 DEF ScreenInv, PhaseInv, Making
  <2>2. CASE thread = "idle" /\ queued
    BY <1>1, <2>2 DEF ScreenInv, PhaseInv, Making
  <2> QED BY <1>1, <2>1, <2>2
<1>3. mainQ = <<>> \/ ~attached
  <2>1. CASE NodeFails
    <3>1. ~FailPending BY <2>1 DEF NodeFails
    <3> QED BY <1>2, <3>1, Failing, Queues DEF ScreenInv
  <2> QED BY <2>1
<1> QED BY <1>1, <1>2, <1>3, EndKeepsScreen

LEMMA PostFailureKeepsScreen ==
  ASSUME ScreenInv, PostFailure
  PROVE  ScreenInv'
<1>1. /\ thread = "failed" /\ thread' = "idle" /\ local' = Blank
      /\ IF attached THEN mainQ' = Append(mainQ, Fl) /\ cut' = cut ELSE cut' = "failure" /\ mainQ' = mainQ
      /\ UNCHANGED <<form, made, request, generating, queued, raced, image, text, shown, wanted, attached,
                     dialog, useDefault>>
  BY DEF PostFailure, screenVars, Fl, Kept
<1>2. /\ ~Making /\ ~Making' /\ ~HasMade' /\ Last' = Last /\ mainQ \in {<<>>, <<Fl>>} /\ ~Unposted /\ ~Unposted'
      /\ ~Stuck' /\ (attached => ~Stuck) /\ ~Updated /\ ~Updated'
  BY <1>1 DEF Making, HasMade, Last, ScreenInv, PhaseInv, Unposted, Stuck, Updated
<1>3. mainQ' \in {<<>>, <<Fl>>} /\ (attached => mainQ' = <<Fl>>)
  <2>1. attached => mainQ = <<>> BY <1>1, <1>2 DEF Stuck
  <2> QED BY <1>1, <1>2, <2>1, Queues
<1>4. Types'
  <2>1. Blank \in Params BY ReceiveAssumption DEF Blank, Params
  <2> QED BY <1>1, <2>1 DEF ScreenInv, Types, Last
<1>5. PhaseInv' BY <1>1, <1>2, <1>3 DEF ScreenInv, PhaseInv
<1>6. DisplayInv' BY <1>1, <1>2 DEF ScreenInv, DisplayInv
<1>7. FormInv'
  <2>1. ~Calm BY <1>1 DEF ScreenInv, FormInv
  <2> QED BY <1>1, <2>1 DEF FormInv, Calm
<1>8. ConfirmedIsAsked'
  <2>1. CASE attached
    <3>1. FailPending' BY <1>3, <2>1, Queues, Runnables DEF FailPending
    <3> QED BY <3>1 DEF ConfirmedIsAsked
  <2>2. CASE ~attached BY <1>1, <2>2 DEF ConfirmedIsAsked
  <2> QED BY <2>1, <2>2
<1> QED BY <1>4, <1>5, <1>6, <1>7, <1>8 DEF ScreenInv

(* The fields are written, with or without the row. *)
LEMMA FieldsKeepScreen ==
  ASSUME ScreenInv, Fresh, WriteFields
  PROVE  ScreenInv'
<1>1. /\ thread \in {"fields", "row"} /\ thread' = "rest" /\ request' = Last
      /\ form' = [form EXCEPT !.desc = local.desc]
      /\ UNCHANGED <<local, made, generating, queued, raced, mainQ, image, text, shown, wanted, cut,
                     dialog, useDefault>>
  BY DEF WriteFields, ghosts, Last, Fresh
<1>2. /\ Making /\ Making' /\ HasMade /\ HasMade' /\ Last' = Last /\ Last \in Nat /\ form' \in Params
      /\ mainQ \in {<<>>, <<Fl>>} /\ ~Unposted /\ ~Unposted' /\ ~Fresh'
  BY <1>1 DEF Making, HasMade, Last, ScreenInv, PhaseInv, Types, Params, Fresh, Unposted
<1>3. local = form => form' = form BY <1>1 DEF ScreenInv, Types, Params
<1>4. Types' BY <1>1, <1>2 DEF ScreenInv, Types
<1>5. PhaseInv' BY <1>1, <1>2 DEF ScreenInv, PhaseInv, Stuck
<1>6. ~Updated /\ ~Updated' BY <1>1 DEF Updated
<1>7. DisplayInv' BY <1>1, <1>2, <1>6 DEF ScreenInv, DisplayInv
<1>8. FormInv' BY <1>1, <1>2, <1>3 DEF ScreenInv, FormInv, Calm
<1>9. ConfirmedIsAsked' BY <1>1, <1>2 DEF ConfirmedIsAsked, Making
<1> QED BY <1>4, <1>5, <1>7, <1>8, <1>9 DEF ScreenInv

LEMMA SkipKeepsScreen ==
  ASSUME ScreenInv, SkipRow
  PROVE  ScreenInv'
<1>1. thread = "fields" BY DEF SkipRow
<1>2. CASE attached
  <2>1. /\ thread' = "row"
        /\ UNCHANGED <<form, local, made, request, generating, queued, raced, mainQ, image, text, shown, wanted, cut,
                       dialog, useDefault>>
    BY <1>2 DEF SkipRow, screenVars, ghosts, Kept
  <2>2. /\ Making /\ Making' /\ HasMade /\ HasMade' /\ Last' = Last /\ Fresh /\ Fresh' /\ ~Stuck'
        /\ (Unposted' <=> Unposted) /\ ~Updated /\ ~Updated'
    BY <1>1, <2>1 DEF Making, HasMade, Last, Fresh, Stuck, Unposted, Updated, ScreenInv, PhaseInv
  <2>3. Types' BY <2>1, <2>2 DEF ScreenInv, Types
  <2>4. PhaseInv' BY <1>1, <2>1, <2>2 DEF ScreenInv, PhaseInv
  <2>5. DisplayInv' BY <2>1, <2>2 DEF ScreenInv, DisplayInv
  <2>6. FormInv' BY <1>1, <2>1, <2>2 DEF ScreenInv, FormInv, Calm
  <2>7. ConfirmedIsAsked' BY <2>1, <2>2 DEF ConfirmedIsAsked, Making
  <2> QED BY <2>3, <2>4, <2>5, <2>6, <2>7 DEF ScreenInv
<1>3. CASE ~attached
  <2>1. WriteFields /\ Fresh BY <1>1, <1>3 DEF SkipRow, Fresh
  <2> QED BY <2>1, FieldsKeepScreen
<1> QED BY <1>2, <1>3

LEMMA RowKeepsScreen ==
  ASSUME ScreenInv, SetFields
  PROVE  ScreenInv'
<1>1. CASE attached
  <2>1. WriteFields /\ Fresh BY <1>1 DEF SetFields, Fresh
  <2> QED BY <2>1, FieldsKeepScreen
<1>2. CASE ~attached BY <1>2, FailureKeepsScreen
<1> QED BY <1>1, <1>2

LEMMA AmountKeepsScreen ==
  ASSUME ScreenInv, SetAmount
  PROVE  ScreenInv'
<1>1. /\ thread = "rest" /\ form' = [form EXCEPT !.amount = local.amount]
      /\ \/ thread' = "post" /\ cut' = cut
         \/ thread' = "image" /\ cut' = "update"
      /\ UNCHANGED <<local, made, request, generating, queued, raced, mainQ, image, text, shown, wanted,
                     dialog, useDefault>>
  BY DEF SetAmount, Kept
<1>2. /\ Making /\ Making' /\ HasMade /\ HasMade' /\ Last' = Last /\ form' \in Params /\ mainQ \in {<<>>, <<Fl>>}
      /\ ~Unposted /\ (thread' = "post" => ~Unposted') /\ (thread' = "image" => Unposted') /\ ~Stuck' /\ ~Fresh /\ ~Fresh'
  BY <1>1 DEF Making, HasMade, Last, ScreenInv, PhaseInv, Types, Params, Unposted, Stuck, Fresh
<1>3. local = form => form' = form BY <1>1 DEF ScreenInv, Types, Params
<1>4. ~Updated /\ ~Updated' BY <1>1, <1>2 DEF Updated
<1>5. Types' BY <1>1, <1>2 DEF ScreenInv, Types
<1>6. PhaseInv'
  <2>1. HasMade' => Last' # 0 BY <1>2 DEF ScreenInv, PhaseInv
  <2>2. ~queued' BY <1>2 DEF Making
  <2>3. CASE thread' = "post" BY <1>1, <1>2, <2>1, <2>2, <2>3 DEF PhaseInv
  <2>4. CASE thread' = "image" BY <1>1, <1>2, <2>1, <2>2, <2>4 DEF PhaseInv
  <2> QED BY <1>1, <2>3, <2>4
<1>7. DisplayInv'
  <2>1. image' = None BY <1>1, <1>2 DEF ScreenInv, DisplayInv, Making
  <2> QED BY <1>1, <1>2, <1>4, <2>1 DEF ScreenInv, DisplayInv, Making
<1>8. FormInv' BY <1>1, <1>2, <1>3 DEF ScreenInv, FormInv, Calm
<1>9. ConfirmedIsAsked' BY <1>1, <1>2 DEF ConfirmedIsAsked, Making
<1> QED BY <1>5, <1>6, <1>7, <1>8, <1>9 DEF ScreenInv

LEMMA PostKeepsScreen ==
  ASSUME ScreenInv, PostUpdate, attached
  PROVE  ScreenInv'
<1>1. /\ thread = "post" /\ thread' = "image" /\ mainQ' = Append(mainQ, Up(Last))
      /\ UNCHANGED <<form, local, made, request, generating, queued, raced, image, text, shown, wanted, cut,
                     dialog, useDefault>>
  BY DEF PostUpdate, ghosts, Kept, Last, Up, screenVars
<1>2. /\ Making /\ Making' /\ HasMade /\ HasMade' /\ Last' = Last /\ mainQ \in {<<>>, <<Fl>>}
      /\ ~Unposted /\ ~Unposted' /\ ~Fresh /\ ~Fresh' /\ ~Stuck'
  BY <1>1 DEF Making, HasMade, Last, ScreenInv, PhaseInv, Unposted, Fresh, Stuck
<1>4. /\ mainQ' = <<Up(Last)>> \/ mainQ' = <<Fl, Up(Last)>>
      /\ mainQ = <<>> => mainQ'[1] = Up(Last)
      /\ mainQ' # <<>>
  <2>1. Append(<<>>, Up(Last)) = <<Up(Last)>> /\ <<Up(Last)>>[1] = Up(Last) /\ <<Up(Last)>> # <<>> BY Queues
  <2>2. Append(<<Fl>>, Up(Last)) = <<Fl, Up(Last)>> /\ <<Fl, Up(Last)>> # <<>> BY ZenonT(40), Queues
  <2> QED BY <1>1, <1>2, <2>1, <2>2
<1>5. Types' BY <1>1, <1>2 DEF ScreenInv, Types
<1>6. PhaseInv' BY <1>1, <1>2, <1>4 DEF ScreenInv, PhaseInv
<1>7. DisplayInv'
  <2>1. ~Updated /\ ~Updated' BY <1>1, <1>4 DEF Updated
  <2> QED BY <1>1, <1>2, <2>1 DEF ScreenInv, DisplayInv
<1>8. FormInv'
  <2> SUFFICES ASSUME Calm PROVE FormInv' BY <1>1 DEF FormInv, Calm
  <2>1. mainQ = <<>> BY <1>2, Queues DEF ScreenInv, FormInv
  <2>2. mainQ'[1] # Fl BY <1>4, <2>1, Runnables
  <2> QED BY <1>1, <1>2, <2>2 DEF ScreenInv, FormInv
<1>9. ConfirmedIsAsked' BY <1>1, <1>2 DEF ConfirmedIsAsked, Making
<1> QED BY <1>5, <1>6, <1>7, <1>8, <1>9 DEF ScreenInv

LEMMA DrawKeepsScreen ==
  ASSUME ScreenInv, DrawImage
  PROVE  ScreenInv'
<1>1. /\ thread = "image" /\ thread' = "idle" /\ local' = Blank
      /\ UNCHANGED <<form, made, request, generating, queued, raced, image, text, shown, wanted, cut, dialog, useDefault>>
  BY DEF DrawImage, screenVars, ghosts, Kept
<1>2. PICK n \in {None, Last} : mainQ' = Append(mainQ, Im(n))
  BY DEF DrawImage, Last, Im
<1>3. /\ Making /\ Making' /\ HasMade /\ HasMade' /\ Last' = Last /\ ~Fresh /\ ~Fresh'
      /\ (Unposted' <=> Unposted)
      /\ mainQ \in IF Unposted THEN {<<>>, <<Fl>>} ELSE {<<>>, <<Up(Last)>>, <<Fl, Up(Last)>>}
  BY <1>1 DEF Making, HasMade, Last, ScreenInv, PhaseInv, Fresh, Unposted
<1>4. \/ mainQ = <<>> /\ mainQ' = <<Im(n)>>
      \/ ~Unposted /\ mainQ = <<Up(Last)>> /\ mainQ' = <<Up(Last), Im(n)>>
      \/ ~Unposted /\ mainQ = <<Fl, Up(Last)>> /\ mainQ' = <<Fl, Up(Last), Im(n)>>
      \/ Unposted /\ mainQ = <<Fl>> /\ mainQ' = <<Fl, Im(n)>>
  <2>1. Append(<<>>, Im(n)) = <<Im(n)>> BY Queues
  <2>2. Append(<<Up(Last)>>, Im(n)) = <<Up(Last), Im(n)>> BY ZenonT(40), Queues
  <2>3. Append(<<Fl, Up(Last)>>, Im(n)) = <<Fl, Up(Last), Im(n)>> BY AppendThird
  <2>4. Append(<<Fl>>, Im(n)) = <<Fl, Im(n)>> BY ZenonT(40), Queues
  <2> QED BY <1>2, <1>3, <2>1, <2>2, <2>3, <2>4
<1>5. Types'
  <2>1. Blank \in Params BY ReceiveAssumption DEF Blank, Params
  <2> QED BY <1>1, <1>3, <2>1 DEF ScreenInv, Types
<1>6. PhaseInv'
  <2>1. \/ ~Unposted /\ \E m \in {None, Last} : mainQ' \in {<<Im(m)>>, <<Up(Last), Im(m)>>, <<Fl, Up(Last), Im(m)>>}
        \/ Unposted /\ \E m \in {None, Last} : mainQ' \in {<<Im(m)>>, <<Fl, Im(m)>>}
    BY <1>4
  <2>2. ~Stuck' BY <1>1 DEF Stuck
  <2>3. ~queued' /\ (HasMade' => Last' # 0) BY <1>1, <1>3 DEF ScreenInv, PhaseInv, Making
  <2> QED BY <1>1, <1>3, <2>1, <2>2, <2>3 DEF PhaseInv
<1>7. Updated' <=> Updated
  <2>1. ASSUME NEW m, mainQ' = <<Im(m)>> PROVE mainQ = <<>>
    <3>1. mainQ'[1] = Im(m) BY <2>1, Queues
    <3> QED BY <1>4, <3>1, Queues, Runnables
  <2>2. Updated' => Updated BY <1>1, <1>3, <2>1 DEF Updated
  <2>3. Updated => mainQ = <<>> /\ ~Unposted BY <1>1 DEF Updated
  <2>4. <<Up(Last)>> # <<>> /\ <<Fl, Up(Last)>> # <<>> BY Queues
  <2>5. Updated => mainQ' = <<Im(n)>> BY <1>4, <2>3, <2>4
  <2>6. Updated => Updated' BY <1>1, <1>3, <2>3, <2>5 DEF Updated
  <2> QED BY <2>2, <2>6
<1>8. DisplayInv' BY <1>1, <1>3, <1>7 DEF ScreenInv, DisplayInv
<1>9. FormInv'
  <2> SUFFICES ASSUME Calm PROVE FormInv' BY <1>1 DEF FormInv, Calm
  <2>1. mainQ # <<Fl, Up(Last)>> /\ mainQ # <<Fl>> BY Queues DEF ScreenInv, FormInv
  <2>2. mainQ'[1] # Fl BY <1>4, <2>1, Queues, Runnables
  <2> QED BY <1>1, <1>3, <2>2 DEF ScreenInv, FormInv
<1>10. ConfirmedIsAsked' BY <1>1, <1>3 DEF ConfirmedIsAsked, Making
<1> QED BY <1>5, <1>6, <1>8, <1>9, <1>10 DEF ScreenInv

LEMMA ScreenInvStep ==
  ASSUME ScreenInv, [Next]_vars
  PROVE  ScreenInv'
<1>1. CASE ThreadStep
  <2>1. CASE attached
    BY <1>1, <2>1, ReadKeepsScreen, MakeKeepsScreen, FailureKeepsScreen, PostFailureKeepsScreen, SkipKeepsScreen,
       RowKeepsScreen, AmountKeepsScreen, PostKeepsScreen, DrawKeepsScreen DEF ThreadStep
  <2>2. CASE ~attached
    BY <1>1, <2>2, ReadKeepsScreen, MakeKeepsScreen, FailureKeepsScreen, PostFailureKeepsScreen, SkipKeepsScreen,
       AmountKeepsScreen, DrawKeepsScreen DEF ThreadStep
  <2> QED BY <2>1, <2>2
<1>2. CASE MainStep
  <2>1. CASE MainThrows BY <2>1, NewScreenIsFine DEF MainThrows, Restart
  <2> QED BY <1>2, <2>1, UpdateKeepsScreen, FinishKeepsScreen, FailKeepsScreen DEF MainStep
<1>3. CASE Destroy \/ Die
  BY <1>3, NewScreenIsFine DEF Destroy, Die, Restart
<1>4. CASE (\E r \in Requests : NodeReceives(r)) \/ PaymentReceived \/ ChannelSignatureReceived \/ ChannelChanges
           \/ UNCHANGED vars
  <2>1. UNCHANGED <<form, local, made, request, generating, queued, raced, thread, mainQ, image, text, shown, wanted,
                    cut, attached, dialog, useDefault>>
    BY <1>4 DEF NodeReceives, PaymentReceived, ChannelSignatureReceived, ChannelChanges, vars, screenVars,
                threadVars, ghosts
  <2>2. dialog \in {"closed", "open", "under"} /\ (generating => dialog # "open")
    BY DEF ScreenInv, DisplayInv, Types
  <2> QED BY <2>1, <2>2, ScreenFrame
<1>5. CASE PickLightning \/ PickOnchain \/ onResume \/ notifyChannelsUpdate \/ EditRequest \/ CloseDialog
  BY <1>5, UserKeepsScreen
<1>6. CASE Detach \/ Attach
  BY <1>6, PagerKeepsScreen
<1> QED BY <1>1, <1>2, <1>3, <1>4, <1>5, <1>6, ConfirmKeepsScreen DEF Next

LEMMA ScreenInvInit ==
  ASSUME Init
  PROVE  ScreenInv
<1>1. /\ form = Blank /\ local = Blank /\ request = 0 /\ generating = FALSE /\ queued = FALSE /\ raced = FALSE
      /\ thread = "idle" /\ mainQ = <<>> /\ image = 0 /\ text.msg = "" /\ dialog = "closed" /\ useDefault = TRUE
      /\ made = <<>>
  BY DEF Init, ScreenInit, None
<1>2. Blank \in Params BY ReceiveAssumption DEF Blank, Params
<1>3. <<>> \in Seq(Params) /\ Len(<<>>) = 0 OBVIOUS
<1>4. Last = 0 BY <1>1, <1>3 DEF Last
<1>5. Types
  <2>0. 0 <= MaxRequests /\ 0 \in 0 .. 0 BY ReceiveAssumption
  <2>1. Last <= MaxRequests /\ request \in 0 .. Last /\ image \in 0 .. Last BY <1>1, <1>4, <2>0
  <2> QED BY <1>1, <1>2, <1>3, <2>1 DEF Types
<1>6. ~Making /\ ~HasMade BY <1>1 DEF Making, HasMade
<1>7. PhaseInv BY <1>1, <1>6 DEF PhaseInv, Stuck
<1>8. DisplayInv BY <1>1, <1>6 DEF DisplayInv, Updated, None
<1>9. FormInv /\ ConfirmedIsAsked BY <1>1 DEF FormInv, Calm, ConfirmedIsAsked, None
<1> QED BY <1>5, <1>7, <1>8, <1>9 DEF ScreenInv

(* The image on the Lightning pane is never that of another request than the
   text, and the description and the amount are those of the request in the text,
   whatever the executor's thread, the runnables it posts, the dialog and the
   pager do in between: generatePaymentRequest is not entered again before the
   image of the last request has arrived.  A request whose update could not be
   posted leaves a text that shows none. *)
THEOREM DisplayIsAlwaysOneRequest == Spec => []DisplayIsOneRequest
<1>1. ScreenInv => DisplayIsOneRequest
  BY DEF ScreenInv, DisplayInv, DisplayIsOneRequest, Unposted
<1> QED BY <1>1, ScreenInvInit, ScreenInvStep, PTL DEF Spec

(* The request asks for what was confirmed in the dialog, whose fields the thread
   reads one after the other and writes again when the node has answered, unless
   its failure could not be shown to a screen without an activity. *)
THEOREM ConfirmedIsAlwaysAsked == Spec => []ConfirmedIsAsked
<1>1. ScreenInv => ConfirmedIsAsked
  BY DEF ScreenInv
<1> QED BY <1>1, ScreenInvInit, ScreenInvStep, PTL DEF Spec

------------------------------------------------------------------------------
(* The rows and the payments. *)

LEMMA TailOf ==
  ASSUME NEW s \in Seq(Nat), s # <<>>
  PROVE  /\ Tail(s) \in Seq(Nat) /\ Len(s) \in Nat /\ Len(s) # 0 /\ Len(Tail(s)) = Len(s) - 1
         /\ Head(s) = s[1] /\ \A i \in 1 .. Len(Tail(s)) : Tail(s)[i] = s[i + 1]
         /\ \A i \in 2 .. Len(s) : i - 1 \in 1 .. Len(Tail(s)) /\ Tail(s)[i - 1] = s[i]
<1>1. /\ Tail(s) \in Seq(Nat) /\ Len(s) \in Nat /\ Len(s) # 0 /\ Len(Tail(s)) = Len(s) - 1
      /\ Head(s) = s[1] /\ \A i \in 1 .. Len(Tail(s)) : Tail(s)[i] = s[i + 1]
  BY HeadTailProperties
<1>2. ASSUME NEW i \in 2 .. Len(s) PROVE i - 1 \in 1 .. Len(Tail(s)) /\ Tail(s)[i - 1] = s[i]
  <2>1. i - 1 \in 1 .. Len(Tail(s)) BY <1>1
  <2>2. (i - 1) + 1 = i OBVIOUS
  <2> QED BY <1>1, <2>1, <2>2
<1> QED BY <1>1, <1>2

LEMMA PaidFrame ==
  ASSUME PaidInv, UNCHANGED <<pane, channels, rows, refreshDue, skipped, inbox>>, request' \in {None, request},
         attached' /\ heard' => attached /\ heard
  PROVE  PaidInv'
BY DEF PaidInv

(* A step that leaves the table, the mailbox and the requests alone, and does
   not put the thread where it is to write the row. *)
LEMMA RecordFrame ==
  ASSUME RecordInv, UNCHANGED <<rows, inbox, received, forgotten, lost, seen, made>>, PaidInv',
         image' \in {None, image},
         HasMade' => \/ HasMade /\ ~Fresh /\ ~Fresh'
                     \/ HasMade /\ Fresh /\ Fresh' /\ local' = local
  PROVE  RecordInv'
<1>1. RowTypes' BY DEF RecordInv, RowTypes, Last
<1>2. RowsInv' BY DEF RecordInv, RowsInv, Recorded, Last
<1>3. Signed' BY DEF RecordInv, Signed
<1>4. ReceivedIsRecorded' BY DEF RecordInv, ReceivedIsRecorded
<1> QED BY <1>1, <1>2, <1>3, <1>4 DEF RecordInv

(* The same for a step that shows requests to somebody. *)
LEMMA SeenFrame ==
  ASSUME RecordInv, UNCHANGED <<rows, inbox, received, forgotten, lost, made>>, PaidInv',
         seen \subseteq seen', \A r \in seen' \ seen : r \in 1 .. Last /\ Recorded(r),
         image' # None => Recorded(image'),
         HasMade' => HasMade /\ ~Fresh /\ ~Fresh'
  PROVE  RecordInv'
<1>1. RowTypes' BY DEF RecordInv, RowTypes, Last
<1>2. RowsInv' BY DEF RecordInv, RowsInv, Recorded, Last
<1>3. Signed' BY DEF RecordInv, Signed
<1>4. ReceivedIsRecorded' BY DEF RecordInv, ReceivedIsRecorded
<1> QED BY <1>1, <1>2, <1>3, <1>4 DEF RecordInv

LEMMA RefreshIsPaid ==
  ASSUME ScreenInv, PaidInv, refreshLightningPaneState
  PROVE  /\ PaidInv' /\ image' \in {None, image}
         /\ HasMade' => UNCHANGED <<generating, queued, thread, local, image>>
<1>1. UNCHANGED <<rows, inbox, received, forgotten, lost, made, thread, local, channels>>
  BY DEF refreshLightningPaneState, nodeVars
<1>2. CASE channels /\ ~generating /\ (request = None \/ isCurrentPaymentRequestPaid)
  <2>1. /\ request' = None /\ image' = None /\ queued'
    BY <1>2 DEF refreshLightningPaneState, generatePaymentRequest
  <2> QED BY <2>1 DEF PaidInv, HasMade, Making
<1>3. CASE ~(channels /\ ~generating /\ (request = None \/ isCurrentPaymentRequestPaid))
  <2>1. UNCHANGED <<request, generating, queued, image>> BY <1>3 DEF refreshLightningPaneState
  <2>2. ASSUME ~channels PROVE PaidInv' BY <1>1, <2>2 DEF PaidInv
  <2>3. ASSUME ~isCurrentPaymentRequestPaid PROVE PaidInv'
    BY <1>1, <2>1, <2>3 DEF PaidInv, isCurrentPaymentRequestPaid
  <2>4. ASSUME generating, isCurrentPaymentRequestPaid PROVE PaidInv'
    <3>1. skipped' = TRUE BY <2>4 DEF refreshLightningPaneState, ScreenInv, Types
    <3> QED BY <3>1 DEF PaidInv
  <2>5. PaidInv' BY <1>3, <2>2, <2>3, <2>4
  <2> QED BY <1>1, <2>1, <2>5
<1> QED BY <1>2, <1>3

LEMMA RefreshKeepsRecord ==
  ASSUME ScreenInv, RecordInv, refreshLightningPaneState, seen' = seen
  PROVE  RecordInv'
<1>1. UNCHANGED <<rows, inbox, received, forgotten, lost, seen, made>>
  BY DEF refreshLightningPaneState, nodeVars
<1>2. /\ PaidInv' /\ image' \in {None, image}
      /\ HasMade' => UNCHANGED <<generating, queued, thread, local>>
  BY RefreshIsPaid DEF RecordInv
<1>3. HasMade' => HasMade /\ (Fresh' <=> Fresh) /\ local' = local BY <1>2 DEF HasMade, Making, Fresh
<1> QED BY <1>1, <1>2, <1>3, RecordFrame

LEMMA UserKeepsRecord ==
  ASSUME ScreenInv, RecordInv,
         \/ PickLightning \/ PickOnchain \/ onResume \/ notifyChannelsUpdate \/ EditRequest \/ CloseDialog
         \/ \E q \in Entries : onConfirm(q)
  PROVE  RecordInv'
<1>1. CASE PickLightning \/ onResume \/ (notifyChannelsUpdate /\ refreshLightningPaneState)
  <2>1. seen' = seen /\ refreshLightningPaneState
    BY <1>1 DEF PickLightning, onResume, notifyChannelsUpdate
  <2> QED BY <2>1, RefreshKeepsRecord
<1>2. CASE notifyChannelsUpdate /\ ~refreshLightningPaneState
  <2>1. /\ ~(pane = "lightning" /\ attached /\ heard) /\ UNCHANGED <<pane, attached, heard>>
        /\ UNCHANGED <<rows, inbox, received, forgotten, lost, seen, made, generating, queued, thread, local, image>>
    BY <1>2 DEF notifyChannelsUpdate, Kept, nodeVars, threadVars
  <2>2. PaidInv' BY <2>1 DEF PaidInv
  <2>3. (HasMade' <=> HasMade) /\ (Fresh' <=> Fresh) BY <2>1 DEF HasMade, Making, Fresh
  <2> QED BY <2>1, <2>2, <2>3, RecordFrame
<1>3. CASE PickOnchain
  <2>1. /\ pane' = "onchain"
        /\ UNCHANGED <<rows, inbox, received, forgotten, lost, seen, made, generating, queued, thread, local, image>>
    BY <1>3 DEF PickOnchain, Kept, nodeVars, threadVars
  <2>2. PaidInv' BY <2>1 DEF PaidInv
  <2>3. (HasMade' <=> HasMade) /\ (Fresh' <=> Fresh) BY <2>1 DEF HasMade, Making, Fresh
  <2> QED BY <2>1, <2>2, <2>3, RecordFrame
<1>4. CASE EditRequest \/ CloseDialog
  <2>1. UNCHANGED <<rows, inbox, received, forgotten, lost, seen, made, generating, queued, thread, local, image,
                    pane, channels, refreshDue, skipped, request, attached, heard>>
    BY <1>4 DEF EditRequest, CloseDialog, Kept, nodeVars, threadVars, ghosts
  <2>2. PaidInv' BY <2>1, PaidFrame DEF RecordInv
  <2>3. (HasMade' <=> HasMade) /\ (Fresh' <=> Fresh) BY <2>1 DEF HasMade, Making, Fresh
  <2> QED BY <2>1, <2>2, <2>3, RecordFrame
<1>5. ASSUME NEW q \in Entries, onConfirm(q) PROVE RecordInv'
  <2>1. /\ UNCHANGED <<rows, inbox, received, forgotten, lost, seen, made, thread, local,
                       pane, channels, refreshDue, skipped, request, attached, heard>>
        /\ queued' \/ UNCHANGED <<generating, queued>>
        /\ image' \in {None, image}
    BY <1>5 DEF onConfirm, generatePaymentRequest, Kept, nodeVars
  <2>2. PaidInv' BY <2>1, PaidFrame DEF RecordInv
  <2>3. HasMade' => HasMade /\ (Fresh' <=> Fresh) BY <2>1 DEF HasMade, Making, Fresh
  <2> QED BY <2>1, <2>2, <2>3, RecordFrame
<1> QED BY <1>1, <1>2, <1>3, <1>4, <1>5

(* What the image shows when the page is back has its row, as it had before. *)
LEMMA PagerKeepsRecord ==
  ASSUME ScreenInv, RecordInv, Detach \/ Attach
  PROVE  RecordInv'
<1>1. CASE Detach
  <2>1. /\ attached' = FALSE /\ UNCHANGED <<rows, inbox, received, forgotten, lost, seen, made>>
        /\ image' \in {None, image}
        /\ UNCHANGED <<generating, queued, thread, local>> \/ generating' = FALSE
    BY <1>1 DEF Detach, nodeVars, threadVars, NewScreen
  <2>2. PaidInv' BY <2>1 DEF PaidInv
  <2>3. HasMade' => HasMade /\ (Fresh' <=> Fresh) /\ local' = local BY <2>1 DEF HasMade, Making, Fresh
  <2> QED BY <2>1, <2>2, <2>3, RecordFrame
<1>2. CASE Attach
  <2>1. /\ UNCHANGED <<rows, inbox, received, forgotten, lost, made>> /\ seen' = seen \cup ({image'} \ {None})
    BY <1>2 DEF Attach, refreshLightningPaneState, nodeVars
  <2>2. /\ PaidInv' /\ image' \in {None, image}
        /\ HasMade' => UNCHANGED <<generating, queued, thread, local>>
    <3>1. CASE pane = "lightning"
      <4>1. refreshLightningPaneState BY <1>2, <3>1 DEF Attach
      <4> QED BY <4>1, RefreshIsPaid DEF RecordInv
    <3>2. CASE pane # "lightning"
      BY <1>2, <3>2 DEF Attach, threadVars, PaidInv
    <3> QED BY <3>1, <3>2
  <2>3. CASE image' = None
    <3>1. seen' = seen BY <2>1, <2>3
    <3>2. HasMade' => HasMade /\ (Fresh' <=> Fresh) /\ local' = local BY <2>2 DEF HasMade, Making, Fresh
    <3> QED BY <2>1, <2>2, <3>1, <3>2, RecordFrame
  <2>4. CASE image' # None
    <3>1. image' = image /\ image # None /\ image \in 1 .. Last /\ Recorded(image)
      <4>1. image' = image /\ image # None BY <2>2, <2>4
      <4>2. image \in 0 .. Last /\ Last \in Nat BY DEF ScreenInv, Types, Last
      <4> QED BY <4>1, <4>2 DEF RecordInv, RowsInv, None
    <3>2. ~HasMade' BY <2>2, <3>1 DEF HasMade, Making, ScreenInv, DisplayInv
    <3> QED BY <2>1, <2>2, <3>1, <3>2, SeenFrame
  <2> QED BY <2>3, <2>4
<1> QED BY <1>1, <1>2

LEMMA FinishKeepsRecord ==
  ASSUME ScreenInv, RecordInv, processLightningQRCodeFinish
  PROVE  RecordInv'
<1>1. /\ UNCHANGED <<rows, inbox, received, forgotten, lost, made, pane, channels, refreshDue, skipped, request,
                     attached, heard>>
      /\ mainQ # <<>> /\ Head(mainQ).run = "image" /\ generating' = FALSE
      /\ image' = (IF Head(mainQ).r # None THEN Head(mainQ).r ELSE image)
      /\ seen' \in {seen, seen \cup ({image'} \ {None})}
  BY DEF processLightningQRCodeFinish, Runs, nodeVars, ghosts
<1>2. HasMade /\ thread = "idle" /\ \E n \in {None, Last} : mainQ = <<Im(n)>>
  BY <1>1, HeadIs DEF ScreenInv
<1>3. Head(mainQ).r \in {None, Last} BY <1>2, Queues, Runnables
<1>4. image' # None => image' \in 1 .. Last /\ Recorded(image')
  <2>1. image = None BY <1>2 DEF HasMade, Making, ScreenInv, DisplayInv
  <2>2. Last \in Nat /\ Last # 0 BY <1>2 DEF ScreenInv, Types, PhaseInv, Last
  <2>3. Recorded(Last) BY <1>2 DEF RecordInv, RowsInv, Fresh
  <2> QED BY <1>1, <1>3, <2>1, <2>2, <2>3
<1>5. PaidInv' BY <1>1, PaidFrame DEF RecordInv
<1>6. ~HasMade' BY <1>1 DEF HasMade, Making
<1> QED BY <1>1, <1>4, <1>5, <1>6, SeenFrame

LEMMA RunnablesKeepRecord ==
  ASSUME ScreenInv, RecordInv, ShowUpdate \/ failPaymentRequestFields
  PROVE  RecordInv'
<1>1. CASE failPaymentRequestFields
  <2>1. /\ UNCHANGED <<rows, inbox, received, forgotten, lost, seen, made, thread, local, queued, generating,
                       pane, channels, refreshDue, skipped, attached, heard>>
        /\ request' = None /\ image' = None
    BY <1>1 DEF failPaymentRequestFields, Kept, nodeVars, ghosts
  <2>2. PaidInv' BY <2>1, PaidFrame DEF RecordInv
  <2>3. (HasMade' <=> HasMade) /\ (Fresh' <=> Fresh) BY <2>1 DEF HasMade, Making, Fresh
  <2> QED BY <2>1, <2>2, <2>3, RecordFrame
<1>2. CASE ShowUpdate
  <2>1. /\ UNCHANGED <<rows, inbox, received, forgotten, lost, made, thread, local, queued, generating, image,
                       pane, channels, refreshDue, skipped, request, attached, heard>>
        /\ mainQ # <<>> /\ Head(mainQ).run = "update" /\ seen' = seen \cup {Head(mainQ).r}
    BY <1>2 DEF ShowUpdate, Runs, nodeVars, ghosts
  <2>2. HasMade /\ thread \in {"image", "idle"} /\ Head(mainQ) = Up(Last) BY <2>1, HeadIs DEF ScreenInv
  <2>3. seen' = seen \cup {Last} /\ Last \in 1 .. Last
    <3>1. Last \in Nat /\ Last # 0 BY <2>2 DEF ScreenInv, Types, PhaseInv, Last
    <3> QED BY <2>1, <2>2, <3>1, Runnables
  <2>4. ~Fresh /\ ~Fresh' /\ Recorded(Last) BY <2>1, <2>2 DEF Fresh, RecordInv, RowsInv
  <2>5. image' # None => Recorded(image') BY <2>1 DEF RecordInv, RowsInv
  <2>6. PaidInv' BY <2>1, PaidFrame DEF RecordInv
  <2> QED BY <2>1, <2>2, <2>3, <2>4, <2>5, <2>6, SeenFrame
<1> QED BY <1>1, <1>2

(* The fields are written: the row of the last request is there, or it never
   will be. *)
LEMMA WriteKeepsRecord ==
  ASSUME ScreenInv, RecordInv, Fresh, WriteFields, PaidInv',
         \/ rows' = rows /\ forgotten' = forgotten \cup {Last}
         \/ rows' = [rows EXCEPT ![Last] = [status |-> "INIT", desc |-> local.desc]] /\ forgotten' = forgotten
  PROVE  RecordInv'
<1>1. /\ thread \in {"fields", "row"} /\ thread' = "rest"
      /\ UNCHANGED <<inbox, received, lost, seen, made, local, generating, queued, image>>
  BY DEF WriteFields, Fresh
<1>2. HasMade /\ HasMade' /\ Last' = Last /\ ~Fresh'
  BY <1>1 DEF ScreenInv, PhaseInv, HasMade, Making, Last, Fresh
<1>3. Last \in Requests /\ Last \notin seen /\ made[Last] = local /\ local \in Params /\ image = None
  <2>1. Last \in Nat /\ Last # 0 /\ Last <= MaxRequests BY <1>2 DEF ScreenInv, Types, PhaseInv, Last
  <2>2. Last \in Requests BY <2>1, ReceiveAssumption DEF Requests
  <2> QED BY <1>2, <2>2 DEF RecordInv, RowsInv, ScreenInv, Types, DisplayInv, HasMade, Making
<1>4. seen \subseteq Requests \ {Last} /\ received \subseteq Requests \ {Last}
  <2>1. Last \in Nat /\ Last <= MaxRequests BY DEF ScreenInv, Types, Last
  <2> QED BY <1>3, <2>1, ReceiveAssumption DEF RecordInv, RowTypes, Requests
<1>5. rows \in [Requests -> Row] /\ [status |-> "INIT", desc |-> local.desc] \in Row
  BY <1>3 DEF RecordInv, RowTypes, Row, Params
<1>6. /\ rows' \in [Requests -> Row] /\ \A r \in Requests \ {Last} : rows'[r] = rows[r]
      /\ Last \in forgotten' \/ rows'[Last].desc = local.desc
      /\ forgotten \subseteq forgotten'
  BY <1>3, <1>5
<1>7. RowTypes' BY <1>1, <1>2, <1>6 DEF RecordInv, RowTypes
<1>8. RowsInv'
  <2>1. \A r \in seen : Recorded(r)' BY <1>1, <1>4, <1>6 DEF RecordInv, RowsInv, Recorded
  <2>2. Recorded(Last)' BY <1>1, <1>2, <1>3, <1>6 DEF Recorded
  <2> QED BY <1>1, <1>2, <1>3, <2>1, <2>2 DEF RowsInv
<1>9. Signed' BY <1>1 DEF RecordInv, Signed
<1>10. ReceivedIsRecorded' BY <1>1, <1>4, <1>6 DEF RecordInv, ReceivedIsRecorded
<1> QED BY <1>7, <1>8, <1>9, <1>10 DEF RecordInv

LEMMA ThreadKeepsRecord ==
  ASSUME ScreenInv, RecordInv, ThreadStep
  PROVE  RecordInv'
<1>1. CASE ReadDescription \/ ReadAmount \/ NodeFails \/ PostFailure \/ SetAmount \/ PostUpdate \/ DrawImage
           \/ (SkipRow /\ attached) \/ (SetFields /\ ~attached)
  <2>1. UNCHANGED <<rows, inbox, received, forgotten, lost, seen, made, pane, channels, refreshDue, skipped, request,
                    attached, heard, image>>
    BY <1>1 DEF ReadDescription, ReadAmount, NodeFails, PostFailure, SetAmount, PostUpdate, DrawImage, SkipRow,
                SetFields, Throw, Kept, screenVars, nodeVars, ghosts
  <2>2. PaidInv' BY <2>1, PaidFrame DEF RecordInv
  <2>3. HasMade' => \/ HasMade /\ ~Fresh /\ ~Fresh'
                    \/ HasMade /\ Fresh /\ Fresh' /\ local' = local
    <3>1. CASE ReadDescription \/ ReadAmount \/ NodeFails
      BY <3>1 DEF ReadDescription, ReadAmount, NodeFails, Throw, HasMade, Making, Fresh
    <3>2. CASE PostFailure
      <4>1. thread = "failed" /\ UNCHANGED <<generating, queued>> BY <3>2 DEF PostFailure, screenVars
      <4>2. ~Making BY <4>1 DEF ScreenInv, PhaseInv
      <4> QED BY <4>1, <4>2 DEF HasMade, Making
    <3>3. CASE SetAmount \/ PostUpdate \/ DrawImage
      BY <3>3 DEF SetAmount, PostUpdate, DrawImage, Throw, HasMade, Making, screenVars, Fresh
    <3>4. CASE (SkipRow /\ attached) \/ (SetFields /\ ~attached)
      BY <3>4 DEF SkipRow, SetFields, Throw, HasMade, Making, screenVars, Fresh
    <3> QED BY <1>1, <3>1, <3>2, <3>3, <3>4
  <2> QED BY <2>1, <2>2, <2>3, RecordFrame
<1>2. CASE NodeMakes
  <2>1. /\ made' = Append(made, local) /\ thread' = "fields" /\ made \in Seq(Params) /\ local \in Params
        /\ thread = "node"
        /\ UNCHANGED <<rows, inbox, received, forgotten, lost, seen, local, pane, channels, refreshDue, skipped, request,
                       attached, heard, image, generating, queued>>
    BY <1>2 DEF NodeMakes, screenVars, nodeVars, ghosts, ScreenInv, Types
  <2>2. /\ Last \in Nat /\ Last' = Last + 1 /\ made'[Last'] = local /\ \A i \in 1 .. Last : made'[i] = made[i]
    BY <2>1, AppendProperties DEF Last
  <2>3. RowTypes'
    <3>1. 1 .. Last \subseteq 1 .. Last' BY <2>2
    <3> QED BY <2>1, <3>1 DEF RecordInv, RowTypes
  <2>4. RowsInv'
    <3>1. seen \subseteq 1 .. Last /\ Last' \notin seen BY <2>2 DEF RecordInv, RowTypes
    <3>2. \A r \in seen : made'[r] = made[r] BY <2>2, <3>1
    <3>3. image' = None
      <4>1. Making BY <2>1 DEF ScreenInv, PhaseInv
      <4> QED BY <2>1, <4>1 DEF Making, ScreenInv, DisplayInv
    <3>4. Fresh' BY <2>1 DEF Fresh
    <3> QED BY <2>1, <2>2, <3>1, <3>2, <3>3, <3>4 DEF RecordInv, RowsInv, Recorded
  <2>5. Signed' BY <2>1 DEF RecordInv, Signed
  <2>6. ReceivedIsRecorded'
    <3>1. \A r \in received : made'[r] = made[r] BY <2>2 DEF RecordInv, RowTypes
    <3> QED BY <2>1, <3>1 DEF RecordInv, ReceivedIsRecorded
  <2>7. PaidInv' BY <2>1, PaidFrame DEF RecordInv
  <2> QED BY <2>3, <2>4, <2>5, <2>6, <2>7 DEF RecordInv
<1>3. CASE SkipRow /\ ~attached
  <2>1. /\ WriteFields /\ Fresh /\ rows' = rows /\ forgotten' = forgotten \cup {Last} /\ attached' = FALSE
    BY <1>3 DEF SkipRow, WriteFields, Fresh, Last
  <2>2. PaidInv' BY <2>1 DEF PaidInv
  <2> QED BY <2>1, <2>2, WriteKeepsRecord
<1>4. CASE SetFields /\ attached
  <2>1. /\ WriteFields /\ Fresh /\ forgotten' = forgotten /\ request' = Last
        /\ rows' = [rows EXCEPT ![Last] = [status |-> "INIT", desc |-> local.desc]]
    BY <1>4 DEF SetFields, WriteFields, Fresh, Last
  <2>2. PaidInv'
    <3>1. Last \in Requests
      <4>1. HasMade BY <1>4 DEF SetFields, HasMade, Fresh, ScreenInv, PhaseInv
      <4>2. Last \in Nat /\ Last # 0 /\ Last <= MaxRequests BY <4>1 DEF ScreenInv, Types, PhaseInv, Last
      <4> QED BY <4>2, ReceiveAssumption DEF Requests
    <3>2. rows'[Last].status = "INIT" BY <2>1, <3>1 DEF RecordInv, RowTypes
    <3> QED BY <2>1, <3>2 DEF PaidInv
  <2> QED BY <2>1, <2>2, WriteKeepsRecord
<1> QED BY <1>1, <1>2, <1>3, <1>4 DEF ThreadStep

LEMMA PaymentKeepsRecord ==
  ASSUME ScreenInv, RecordInv, PaymentReceived
  PROVE  RecordInv'
<1>1. /\ inbox # <<>> /\ Head(inbox) # None /\ inbox' = Tail(inbox)
      /\ rows' = [rows EXCEPT ![Head(inbox)].status = "PAID"]
      /\ UNCHANGED <<received, forgotten, lost, seen, made, thread, local, generating, queued, image>>
  BY DEF PaymentReceived, threadVars, screenVars
<1>2. /\ inbox \in Seq(Nat) /\ Head(inbox) = inbox[1] /\ Len(inbox) \in Nat /\ 1 \in 1 .. Len(inbox)
      /\ inbox' \in Seq(Nat) /\ Len(inbox') = Len(inbox) - 1
      /\ \A i \in 1 .. Len(inbox') : inbox'[i] = inbox[i + 1]
      /\ \A i \in 2 .. Len(inbox) : i - 1 \in 1 .. Len(inbox') /\ inbox'[i - 1] = inbox[i]
  <2>1. inbox \in Seq(Nat) BY DEF RecordInv, RowTypes
  <2> QED BY <1>1, <2>1, TailOf
<1>3. PICK h : h = inbox[1] OBVIOUS
<1>4. h # None /\ h \in received /\ h \in seen /\ h \in Requests
  <2>1. h # None /\ h \in received BY <1>1, <1>2, <1>3 DEF RecordInv, RowTypes
  <2>2. 1 .. Last \subseteq Requests
    <3>1. Last \in Nat /\ Last <= MaxRequests BY DEF ScreenInv, Types, Last
    <3> QED BY <3>1, ReceiveAssumption DEF Requests
  <2> QED BY <2>1, <2>2 DEF RecordInv, RowTypes
<1>5. /\ rows' \in [Requests -> Row] /\ rows'[h].status = "PAID" /\ rows'[h].desc = rows[h].desc
      /\ \A r \in Requests \ {h} : rows'[r] = rows[r]
  <2>1. rows \in [Requests -> Row] /\ rows' = [rows EXCEPT ![h].status = "PAID"]
    BY <1>1, <1>2, <1>3 DEF RecordInv, RowTypes
  <2>2. [rows[h] EXCEPT !.status = "PAID"] \in Row BY <1>4, <2>1 DEF Row
  <2> QED BY <1>4, <2>1, <2>2 DEF Row
<1>6. \A r \in Requests : rows'[r].desc = rows[r].desc BY <1>5
<1>7. Last' = Last /\ (HasMade' <=> HasMade) /\ (Fresh' <=> Fresh) BY <1>1 DEF Last, HasMade, Making, Fresh
<1>8. RowTypes'
  <2>1. \A i \in 1 .. Len(inbox') : inbox'[i] = None \/ inbox'[i] \in received
    <3>1. \A i \in 1 .. Len(inbox') : i + 1 \in 1 .. Len(inbox) BY <1>2
    <3> QED BY <1>2, <3>1 DEF RecordInv, RowTypes
  <2> QED BY <1>1, <1>2, <1>5, <1>7, <2>1 DEF RecordInv, RowTypes
<1>9. RowsInv'
  <2>1. \A r \in 1 .. Last : r \in Requests
    <3>1. Last \in Nat /\ Last <= MaxRequests BY DEF ScreenInv, Types, Last
    <3> QED BY <3>1, ReceiveAssumption DEF Requests
  <2>2. \A r \in seen : r \in Requests BY <2>1 DEF RecordInv, RowTypes
  <2>3. HasMade => Last \in Requests
    <3>1. Last \in Nat /\ (HasMade => Last # 0) BY DEF ScreenInv, Types, PhaseInv, Last
    <3> QED BY <2>1, <3>1
  <2>4. image # None => image \in Requests
    <3>1. image \in 0 .. Last /\ Last \in Nat BY DEF ScreenInv, Types, Last
    <3>2. image # None => image \in 1 .. Last BY <3>1 DEF None
    <3> QED BY <2>1, <3>2
  <2> QED BY <1>1, <1>6, <1>7, <2>2, <2>3, <2>4 DEF RecordInv, RowsInv, Recorded
<1>10. Signed'
  <2> SUFFICES ASSUME NEW i \in 1 .. Len(inbox'), inbox'[i] # None
               PROVE  i + 1 \in 1 .. Len(inbox') /\ inbox'[i + 1] = None
    BY DEF Signed
  <2>1. i + 1 \in 1 .. Len(inbox) /\ inbox[i + 1] # None BY <1>2
  <2>2. (i + 1) + 1 \in 1 .. Len(inbox) /\ inbox[(i + 1) + 1] = None BY <2>1 DEF RecordInv, Signed
  <2>3. i + 1 \in 1 .. Len(inbox') BY <1>2, <2>2
  <2> QED BY <1>2, <2>2, <2>3
<1>11. PaidInv'
  <2>1. 2 \in 2 .. Len(inbox) /\ inbox[2] = None
    <3>1. 1 + 1 \in 1 .. Len(inbox) /\ inbox[1 + 1] = None BY <1>2, <1>3, <1>4 DEF RecordInv, Signed
    <3> QED BY <1>2, <3>1
  <2>2. 2 - 1 \in 1 .. Len(inbox') /\ inbox'[2 - 1] = None BY <1>2, <2>1
  <2> QED BY <2>2 DEF PaidInv
<1>12. ReceivedIsRecorded'
  <2>1. DOMAIN inbox = 1 .. Len(inbox) /\ DOMAIN inbox' = 1 .. Len(inbox') BY <1>2
  <2> SUFFICES ASSUME NEW r \in received \ lost
               PROVE  \/ \E i \in DOMAIN inbox' : inbox'[i] = r
                      \/ rows'[r].status = "PAID" /\ (r \in forgotten \/ rows'[r].desc = made[r].desc)
    BY <1>1 DEF ReceivedIsRecorded
  <2>2. CASE r = h
    BY <1>4, <1>5, <2>2 DEF RecordInv, RowsInv, Recorded
  <2>3. CASE r # h
    <3>1. ASSUME NEW i \in DOMAIN inbox, inbox[i] = r PROVE \E j \in DOMAIN inbox' : inbox'[j] = r
      <4>1. i \in 2 .. Len(inbox) BY <1>2, <1>3, <2>1, <2>3, <3>1
      <4> QED BY <1>2, <2>1, <3>1, <4>1
    <3>2. r \in Requests
      <4>1. Last \in Nat /\ Last <= MaxRequests BY DEF ScreenInv, Types, Last
      <4>2. r \in 1 .. Last BY DEF RecordInv, RowTypes
      <4> QED BY <4>1, <4>2, ReceiveAssumption DEF Requests
    <3>3. rows'[r] = rows[r] BY <1>5, <2>3, <3>2
    <3> QED BY <3>1, <3>3 DEF RecordInv, ReceivedIsRecorded
  <2> QED BY <2>2, <2>3
<1> QED BY <1>8, <1>9, <1>10, <1>11, <1>12 DEF RecordInv

LEMMA SignatureKeepsRecord ==
  ASSUME RecordInv, ChannelSignatureReceived
  PROVE  RecordInv'
<1>1. /\ inbox # <<>> /\ Head(inbox) = None /\ inbox' = Tail(inbox) /\ refreshDue' = TRUE
      /\ UNCHANGED <<rows, received, forgotten, lost, seen, made, thread, local, generating, queued, image>>
  BY DEF ChannelSignatureReceived, threadVars, screenVars
<1>2. /\ inbox \in Seq(Nat) /\ Head(inbox) = inbox[1] /\ Len(inbox) \in Nat
      /\ inbox' \in Seq(Nat) /\ Len(inbox') = Len(inbox) - 1
      /\ \A i \in 1 .. Len(inbox') : inbox'[i] = inbox[i + 1]
      /\ \A i \in 2 .. Len(inbox) : i - 1 \in 1 .. Len(inbox') /\ inbox'[i - 1] = inbox[i]
  <2>1. inbox \in Seq(Nat) BY DEF RecordInv, RowTypes
  <2> QED BY <1>1, <2>1, TailOf
<1>3. Last' = Last /\ (HasMade' <=> HasMade) /\ (Fresh' <=> Fresh) BY <1>1 DEF Last, HasMade, Making, Fresh
<1>4. RowTypes'
  <2>1. \A i \in 1 .. Len(inbox') : inbox'[i] = None \/ inbox'[i] \in received
    <3>1. \A i \in 1 .. Len(inbox') : i + 1 \in 1 .. Len(inbox) BY <1>2
    <3> QED BY <1>2, <3>1 DEF RecordInv, RowTypes
  <2> QED BY <1>1, <1>2, <1>3, <2>1 DEF RecordInv, RowTypes
<1>5. RowsInv' BY <1>1, <1>3 DEF RecordInv, RowsInv, Recorded
<1>6. Signed'
  <2> SUFFICES ASSUME NEW i \in 1 .. Len(inbox'), inbox'[i] # None
               PROVE  i + 1 \in 1 .. Len(inbox') /\ inbox'[i + 1] = None
    BY DEF Signed
  <2>1. i + 1 \in 1 .. Len(inbox) /\ inbox[i + 1] # None BY <1>2
  <2>2. (i + 1) + 1 \in 1 .. Len(inbox) /\ inbox[(i + 1) + 1] = None BY <2>1 DEF RecordInv, Signed
  <2>3. i + 1 \in 1 .. Len(inbox') BY <1>2, <2>2
  <2> QED BY <1>2, <2>2, <2>3
<1>7. PaidInv' BY <1>1 DEF PaidInv
<1>8. ReceivedIsRecorded'
  <2>1. DOMAIN inbox = 1 .. Len(inbox) /\ DOMAIN inbox' = 1 .. Len(inbox') BY <1>2
  <2> SUFFICES ASSUME NEW r \in received \ lost
               PROVE  \/ \E i \in DOMAIN inbox' : inbox'[i] = r
                      \/ rows'[r].status = "PAID" /\ (r \in forgotten \/ rows'[r].desc = made[r].desc)
    BY <1>1 DEF ReceivedIsRecorded
  <2>2. ASSUME NEW i \in DOMAIN inbox, inbox[i] = r PROVE \E j \in DOMAIN inbox' : inbox'[j] = r
    <3>1. r \in 1 .. Last BY DEF RecordInv, RowTypes
    <3>2. r # None BY <3>1 DEF None
    <3>3. i \in 2 .. Len(inbox) BY <1>1, <1>2, <2>1, <2>2, <3>2
    <3> QED BY <1>2, <2>1, <2>2, <3>3
  <2> QED BY <1>1, <2>2 DEF RecordInv, ReceivedIsRecorded
<1> QED BY <1>4, <1>5, <1>6, <1>7, <1>8 DEF RecordInv

LEMMA ReceiptKeepsRecord ==
  ASSUME RecordInv, ScreenInv, NEW r \in Requests, NodeReceives(r)
  PROVE  RecordInv'
<1>1. /\ r \in seen \ received /\ received' = received \cup {r} /\ inbox' = inbox \o <<r, None>>
      /\ UNCHANGED <<rows, forgotten, lost, seen, made, thread, local, generating, queued, image,
                     pane, channels, refreshDue, skipped, request, attached, heard>>
  BY DEF NodeReceives, threadVars, screenVars, ghosts
<1>2. /\ inbox \in Seq(Nat) /\ inbox' \in Seq(Nat) /\ Len(inbox) \in Nat /\ Len(inbox') = Len(inbox) + 2
      /\ \A i \in 1 .. Len(inbox) : inbox'[i] = inbox[i]
      /\ inbox'[Len(inbox) + 1] = r /\ inbox'[Len(inbox) + 2] = None
  <2>1. r \in Nat /\ None \in Nat BY DEF Requests, None
  <2>2. inbox \in Seq(Nat) /\ <<r, None>> \in Seq(Nat) /\ Len(<<r, None>>) = 2 /\ <<r, None>>[1] = r /\ <<r, None>>[2] = None
    BY <2>1 DEF RecordInv, RowTypes
  <2>3. /\ inbox' \in Seq(Nat) /\ Len(inbox') = Len(inbox) + 2 /\ Len(inbox) \in Nat
        /\ \A i \in 1 .. Len(inbox) + 2 : inbox'[i] = IF i <= Len(inbox) THEN inbox[i] ELSE <<r, None>>[i - Len(inbox)]
    BY <1>1, <2>2, ConcatProperties
  <2>4. \A i \in 1 .. Len(inbox) : inbox'[i] = inbox[i] BY <2>3
  <2>5. inbox'[Len(inbox) + 1] = <<r, None>>[1] BY <2>3
  <2>6. inbox'[Len(inbox) + 2] = <<r, None>>[2] BY <2>3
  <2> QED BY <2>2, <2>3, <2>4, <2>5, <2>6
<1>3. Last' = Last /\ (HasMade' <=> HasMade) /\ (Fresh' <=> Fresh) BY <1>1 DEF Last, HasMade, Making, Fresh
<1>4. \A i \in 1 .. Len(inbox') : i \in 1 .. Len(inbox) \/ i = Len(inbox) + 1 \/ i = Len(inbox) + 2
  BY <1>2
<1>5. RowTypes'
  <2>1. \A i \in 1 .. Len(inbox') : inbox'[i] = None \/ inbox'[i] \in received'
    BY <1>1, <1>2, <1>4 DEF RecordInv, RowTypes
  <2> QED BY <1>1, <1>2, <1>3, <2>1 DEF RecordInv, RowTypes
<1>6. RowsInv' BY <1>1, <1>3 DEF RecordInv, RowsInv, Recorded
<1>7. Signed'
  <2> SUFFICES ASSUME NEW i \in 1 .. Len(inbox'), inbox'[i] # None
               PROVE  i + 1 \in 1 .. Len(inbox') /\ inbox'[i + 1] = None
    BY DEF Signed
  <2>1. CASE i \in 1 .. Len(inbox)
    <3>1. i + 1 \in 1 .. Len(inbox) /\ inbox[i + 1] = None BY <1>2, <2>1 DEF RecordInv, Signed
    <3> QED BY <1>2, <3>1
  <2>2. CASE i = Len(inbox) + 1
    <3>1. i + 1 = Len(inbox) + 2 BY <1>2, <2>2
    <3>2. Len(inbox) + 2 \in 1 .. Len(inbox') BY <1>2
    <3> QED BY <1>2, <3>1, <3>2
  <2> QED BY <1>2, <1>4, <2>1, <2>2
<1>8. PaidInv'
  <2>1. Len(inbox) + 2 \in 1 .. Len(inbox') BY <1>2
  <2> QED BY <1>2, <2>1 DEF PaidInv
<1>9. ReceivedIsRecorded'
  <2>1. DOMAIN inbox = 1 .. Len(inbox) /\ DOMAIN inbox' = 1 .. Len(inbox') BY <1>2
  <2>2. \A i \in DOMAIN inbox : i \in DOMAIN inbox' /\ inbox'[i] = inbox[i] BY <1>2, <2>1
  <2>3. Len(inbox) + 1 \in DOMAIN inbox' BY <1>2, <2>1
  <2> SUFFICES ASSUME NEW p \in received' \ lost
               PROVE  \/ \E i \in DOMAIN inbox' : inbox'[i] = p
                      \/ rows[p].status = "PAID" /\ (p \in forgotten \/ rows[p].desc = made[p].desc)
    BY <1>1 DEF ReceivedIsRecorded
  <2>4. CASE p = r BY <1>2, <2>3, <2>4
  <2>5. CASE p # r
    <3>1. p \in received \ lost BY <1>1, <2>5
    <3>2. \/ \E i \in DOMAIN inbox : inbox[i] = p
          \/ rows[p].status = "PAID" /\ (p \in forgotten \/ rows[p].desc = made[p].desc)
      BY <3>1 DEF RecordInv, ReceivedIsRecorded
    <3> QED BY <2>2, <3>2
  <2> QED BY <2>4, <2>5
<1> QED BY <1>5, <1>6, <1>7, <1>8, <1>9 DEF RecordInv

LEMMA RestartKeepsRecord ==
  ASSUME ScreenInv, RecordInv, Restart
  PROVE  RecordInv'
<1>1. ~HasMade' /\ request' = None /\ image' = None /\ UNCHANGED <<made, seen, received>>
  BY DEF Restart, NewScreen, HasMade, Making
<1>2. PaidInv' BY <1>1 DEF PaidInv
<1>3. /\ inbox' = <<>> /\ lost' = lost \cup ({inbox[i] : i \in DOMAIN inbox} \ {None})
      /\ forgotten' = forgotten \cup {r \in Requests : rows[r].status = "INIT"}
      /\ rows' = [r \in Requests |-> IF rows[r].status = "INIT" THEN NoRow ELSE rows[r]]
  BY DEF Restart
<1>4. NoRow \in Row BY DEF NoRow, Row
<1>5. /\ rows' \in [Requests -> Row] /\ \A r \in Requests : rows[r].status # "INIT" => rows'[r] = rows[r]
  BY <1>3, <1>4 DEF RecordInv, RowTypes
<1>6. <<>> \in Seq(Nat) /\ Len(<<>>) = 0 OBVIOUS
<1>7. seen \subseteq Requests
  <2>1. Last \in Nat /\ Last <= MaxRequests BY DEF ScreenInv, Types, Last
  <2> QED BY <2>1, ReceiveAssumption DEF RecordInv, RowTypes, Requests
<1>8. RowTypes' BY <1>1, <1>3, <1>5, <1>6 DEF RecordInv, RowTypes, Last
<1>9. RowsInv'
  <2>1. \A r \in seen : Recorded(r)' BY <1>1, <1>3, <1>5, <1>7 DEF RecordInv, RowsInv, Recorded
  <2> QED BY <1>1, <2>1 DEF RowsInv
<1>10. Signed' BY <1>3, <1>6 DEF Signed
<1>11. ReceivedIsRecorded'
  <2> SUFFICES ASSUME NEW r \in received \ lost'
               PROVE  rows'[r].status = "PAID" /\ (r \in forgotten' \/ rows'[r].desc = made[r].desc)
    BY <1>1 DEF ReceivedIsRecorded
  <2>1. r \in 1 .. Last /\ r \in Requests BY <1>7 DEF RecordInv, RowTypes
  <2>2. r # None BY <2>1 DEF None
  <2>3. ~\E i \in DOMAIN inbox : inbox[i] = r BY <1>3, <2>2
  <2>4. rows[r].status = "PAID" /\ (r \in forgotten \/ rows[r].desc = made[r].desc)
    BY <1>3, <2>3 DEF RecordInv, ReceivedIsRecorded
  <2> QED BY <1>3, <1>5, <2>1, <2>4
<1> QED BY <1>2, <1>8, <1>9, <1>10, <1>11 DEF RecordInv

LEMMA DestroyKeepsRecord ==
  ASSUME RecordInv, Destroy
  PROVE  RecordInv'
<1>1. /\ ~HasMade' /\ request' = None /\ image' = None
      /\ UNCHANGED <<rows, inbox, received, forgotten, lost, seen, made>>
  BY DEF Destroy, NewScreen, HasMade, Making, nodeVars
<1>2. PaidInv' BY <1>1 DEF PaidInv
<1> QED BY <1>1, <1>2, RecordFrame

LEMMA RecordInvStep ==
  ASSUME ScreenInv, RecordInv, [Next]_vars
  PROVE  RecordInv'
<1>1. CASE ChannelChanges
  <2>1. /\ refreshDue' = TRUE
        /\ UNCHANGED <<rows, inbox, received, forgotten, lost, seen, made, generating, queued, thread, local, image>>
    BY <1>1 DEF ChannelChanges, screenVars, threadVars, nodeVars
  <2>2. PaidInv' BY <2>1 DEF PaidInv
  <2>3. (HasMade' <=> HasMade) /\ (Fresh' <=> Fresh) BY <2>1 DEF HasMade, Making, Fresh
  <2> QED BY <2>1, <2>2, <2>3, RecordFrame
<1>2. CASE UNCHANGED vars
  <2>1. UNCHANGED <<rows, inbox, received, forgotten, lost, seen, made, generating, queued, thread, local, image,
                    pane, channels, refreshDue, skipped, request, attached, heard>>
    BY <1>2 DEF vars, screenVars, threadVars, nodeVars, ghosts
  <2>2. PaidInv' BY <2>1, PaidFrame DEF RecordInv
  <2>3. (HasMade' <=> HasMade) /\ (Fresh' <=> Fresh) BY <2>1 DEF HasMade, Making, Fresh
  <2> QED BY <2>1, <2>2, <2>3, RecordFrame
<1>3. CASE MainStep
  BY <1>3, RestartKeepsRecord, FinishKeepsRecord, RunnablesKeepRecord DEF MainStep, MainThrows
<1>4. CASE Die
  BY <1>4, RestartKeepsRecord DEF Die
<1> QED BY <1>1, <1>2, <1>3, <1>4, UserKeepsRecord, PagerKeepsRecord, ThreadKeepsRecord, ReceiptKeepsRecord,
           PaymentKeepsRecord, SignatureKeepsRecord, DestroyKeepsRecord DEF Next

LEMMA RecordInvInit ==
  ASSUME Init
  PROVE  RecordInv
<1>1. /\ rows = [r \in Requests |-> NoRow] /\ inbox = <<>> /\ seen = {} /\ received = {} /\ request = None
      /\ generating = FALSE /\ image = None
  BY DEF Init, ScreenInit
<1>2. NoRow \in Row BY DEF NoRow, Row
<1>3. <<>> \in Seq(Nat) /\ Len(<<>>) = 0 OBVIOUS
<1>4. RowTypes BY <1>1, <1>2, <1>3 DEF RowTypes
<1>5. RowsInv BY <1>1 DEF RowsInv, HasMade, Making
<1>6. Signed BY <1>1, <1>3 DEF Signed
<1>7. PaidInv /\ ReceivedIsRecorded BY <1>1 DEF PaidInv, ReceivedIsRecorded
<1> QED BY <1>4, <1>5, <1>6, <1>7 DEF RecordInv

(* A payment that the node has received is in NodeSupervisor's mailbox or in the
   table as PAID, with the description of the request, whose row was inserted
   before it was shown; unless the process died with the event in the mailbox,
   App.checkupInit had deleted the row, or generatePaymentRequest found no
   activity and inserted none. *)
THEOREM ReceivedIsAlwaysRecorded == Spec => []ReceivedIsRecorded
<1>1. ScreenInv /\ RecordInv => ReceivedIsRecorded
  BY DEF RecordInv
<1>2. Init => ScreenInv /\ RecordInv
  BY ScreenInvInit, RecordInvInit
<1>3. ScreenInv /\ RecordInv /\ [Next]_vars => ScreenInv' /\ RecordInv'
  BY ScreenInvStep, RecordInvStep
<1> QED BY <1>1, <1>2, <1>3, PTL DEF Spec

(* A request that has been paid is replaced on a screen that is attached and told
   of changes, although HomeActivity drops refreshes while it is detached: it is
   refreshed when it is attached, and otherwise the signatures that follow the
   payment bring refreshLightningPaneState, which has not been missed unless it
   came while a request was being made. *)
THEOREM PaidIsAlwaysReplaced == Spec => []PaidIsReplaced
<1>1. ScreenInv /\ RecordInv => PaidIsReplaced
  <2> SUFFICES ASSUME RecordInv PROVE PaidIsReplaced OBVIOUS
  <2>1. DOMAIN inbox = 1 .. Len(inbox) BY DEF RecordInv, RowTypes
  <2> QED BY <2>1 DEF RecordInv, PaidInv, PaidIsReplaced
<1>2. Init => ScreenInv /\ RecordInv
  BY ScreenInvInit, RecordInvInit
<1>3. ScreenInv /\ RecordInv /\ [Next]_vars => ScreenInv' /\ RecordInv'
  BY ScreenInvStep, RecordInvStep
<1> QED BY <1>1, <1>2, <1>3, PTL DEF Spec
==============================================================================
