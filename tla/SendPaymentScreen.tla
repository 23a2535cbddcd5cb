------------------------- MODULE SendPaymentScreen -------------------------
(***************************************************************************)
(* One SendPaymentActivity screen, with its PIN dialog and its biometric   *)
(* prompt: how a tap on the send button becomes a payment handed to the    *)
(* node (a thread of sendLNPayment, see Payments) or to the on-chain       *)
(* wallet.                                                                 *)
(*                                                                         *)
(* Everything but the threads runs on the UI thread, so a callback is one  *)
(* step; what interleaves is the order in which clicks, delayed PIN        *)
(* confirmations, prompt results, lifecycle callbacks and the runnables    *)
(* posted by threads are handled.  Amounts, fees and wording are left out: *)
(* a check on them either passes or shows its error, and the check of the  *)
(* on-chain balance enables the form when it does.                         *)
(***************************************************************************)
EXTENDS Naturals, FiniteSets

CONSTANTS
  MaxAttempts,    \* bound on the accepted taps on the send button
  MaxConfirms     \* bound on the confirmations one PIN dialog has pending

ASSUME ScreenAssumption == MaxAttempts \in Nat /\ MaxConfirms \in Nat \ {0}

VARIABLES
  given,        \* what the text the screen was given turns out to be, and the PIN setting
  life,         \* the state of the activity
  reading,      \* readInvoiceIntent is running
  step,         \* the payment step that is displayed
  invoice,      \* what the invoice field holds
  clicks,       \* clicks on the send button not yet handled
  processing,   \* isProcessingPayment; every assignment is followed by toggleForm,
                \* so the form is enabled exactly when it is FALSE
  attempts,     \* accepted taps, each with the dialog and the closures made for it
  mPinDialog,   \* the attempt whose dialog the field mPinDialog holds, or 0
  prompt,       \* the attempt whose biometric prompt is displayed, or 0
  threads,      \* running threads of sendLNPayment
  interrupted,  \* the screen was paused, or a prompt has ended without an answer
  hurried       \* the user has acted while a confirmation of a PIN was pending

vars == <<given, life, reading, step, invoice, clicks, processing, attempts, mPinDialog, prompt,
          threads, interrupted, hurried>>

Kinds == {"lightning", "onchain"}

\* pin is what mPinValue of the dialog holds: less than six digits, or six.
Attempt == [kind : Kinds, shown : BOOLEAN, pin : {"partial", "wrong", "right"},
            confirms : 0 .. MaxConfirms, sent : Nat, dropped : BOOLEAN]

Steps == {"loading", "error", "pick", "lightning", "onchain"}

Given == [text : {"unreadable", "lightning", "onchain", "both"}, pinRequired : BOOLEAN]

Ids == DOMAIN attempts

TypeOK ==
  /\ given \in Given
  /\ life \in {"resumed", "paused", "finished"}
  /\ reading \in BOOLEAN
  /\ step \in Steps
  /\ invoice \in Kinds \cup {"none"}
  /\ clicks \in 0 .. 2
  /\ processing \in BOOLEAN
  /\ \E n \in 0 .. MaxAttempts : attempts \in [1 .. n -> Attempt]
  /\ mPinDialog \in Ids \cup {0}
  /\ prompt \in Ids \cup {0}
  /\ threads \in Nat
  /\ interrupted \in BOOLEAN
  /\ hurried \in BOOLEAN

Init ==
  /\ given \in Given
  /\ life = "resumed"
  /\ reading = TRUE           \* onStart has run
  /\ step = "loading"
  /\ invoice = "none"
  /\ clicks = 0
  /\ processing = FALSE
  /\ attempts = << >>
  /\ mPinDialog = 0
  /\ prompt = 0
  /\ threads = 0
  /\ interrupted = FALSE
  /\ hurried = FALSE

\* mPinDialog.dismiss(), if there is one: a dialog under it stays where it is.
Dismissed(as) ==
  [a \in DOMAIN as |-> IF a = mPinDialog THEN [as[a] EXCEPT !.shown = FALSE] ELSE as[a]]

DialogShown == \E a \in Ids : attempts[a].shown

\* Nothing covers the form.
FormOnTop == life = "resumed" /\ ~DialogShown /\ prompt = 0

Calm == \A a \in Ids : attempts[a].confirms = 0

\* The user does something: a confirmation that is pending will run 300 ms after
\* the sixth digit.
UserActs == life = "resumed" /\ hurried' = (hurried \/ ~Calm)

-----------------------------------------------------------------------------
(***************************************************************************)
(* Reading the invoice, the amount, and the life of the activity.          *)
(***************************************************************************)
canNotHandlePayment == step' = "error" /\ invoice' = invoice

\* Called by the text watchers for every change of the amount, those of setText
\* included, while the invoice field still has its former value: an on-chain
\* amount above the balance ends in handlePaymentError.
checkOnchainBalance ==
  \/ processing' = processing
  \/ invoice = "onchain" /\ processing' = FALSE

\* checkPaymentRequestValid refuses some invoices (see Payments).
setupLightningPaymentForm ==
  \/ step' = "lightning" /\ invoice' = "lightning" /\ checkOnchainBalance
  \/ canNotHandlePayment /\ processing' = processing

setupOnchainPaymentForm ==
  step' = "onchain" /\ invoice' = "onchain" /\ checkOnchainBalance

\* The runnable that readInvoiceIntent posts.  It replaces what is displayed,
\* whatever has happened since.
invoiceReadSuccessfully ==
  /\ reading
  /\ reading' = FALSE
  /\ CASE given.text = "unreadable" -> canNotHandlePayment /\ processing' = processing
       [] given.text = "lightning" -> setupLightningPaymentForm
       [] given.text = "onchain" -> setupOnchainPaymentForm
       [] given.text = "both" -> step' = "pick" /\ UNCHANGED <<invoice, processing>>
  /\ UNCHANGED <<given, interrupted, hurried, life, clicks, attempts, mPinDialog, prompt, threads>>

Pick ==
  /\ step = "pick" /\ FormOnTop /\ UserActs
  /\ setupLightningPaymentForm \/ setupOnchainPaymentForm
  /\ UNCHANGED <<given, interrupted, life, reading, clicks, attempts, mPinDialog, prompt, threads>>

\* The user changes the amount of an on-chain payment.  The fiat field and the
\* box that empties the wallet are never disabled.
EditAmount ==
  /\ step = "onchain" /\ FormOnTop /\ UserActs
  /\ checkOnchainBalance
  /\ UNCHANGED <<given, interrupted, life, reading, step, invoice, clicks, attempts, mPinDialog,
                 prompt, threads>>

\* onPause dismisses the dialog, which does not call its cancel listener.
onPause ==
  /\ life = "resumed"
  /\ life' = "paused"
  /\ attempts' = Dismissed(attempts)
  /\ interrupted' = TRUE
  /\ UNCHANGED <<given, hurried, reading, step, invoice, clicks, processing, mPinDialog, prompt, threads>>

\* The screen comes back, after a stop (onStart reads the invoice again) or
\* without one.
onResume ==
  /\ life = "paused"
  /\ life' = "resumed"
  /\ reading' \in {reading, TRUE}
  /\ UNCHANGED <<given, interrupted, hurried, step, invoice, clicks, processing, attempts, mPinDialog,
                 prompt, threads>>

\* finish() pauses the activity on its way out.
Finish(as) ==
  /\ life' = "finished"
  /\ attempts' = Dismissed(as)
  /\ prompt' = 0

\* The back key, or the cancel button while the form is enabled.
Leave ==
  /\ FormOnTop /\ UserActs
  /\ Finish(attempts)
  /\ UNCHANGED <<given, interrupted, reading, step, invoice, clicks, processing, mPinDialog, threads>>

-----------------------------------------------------------------------------
(***************************************************************************)
(* Executing a payment, in the state `as' of the attempts.                 *)
(***************************************************************************)
Sent(as, a) == [as EXCEPT ![a].sent = @ + 1]

Execute(as, a) ==
  \/ /\ as[a].kind = "lightning"                \* sendLNPayment starts a thread
     /\ attempts' = Sent(as, a)
     /\ threads' = threads + 1
     /\ UNCHANGED <<life, prompt>>
  \/ /\ as[a].kind = "onchain"                  \* sendBitcoinPayment, closeAndGoHome
     /\ Finish(Sent(as, a))
     /\ UNCHANGED threads

\* The payment is refused, or cancelled.
Dropped(as, a) == [as EXCEPT ![a].dropped = TRUE]

\* A thread of sendLNPayment has handed the payment to the node, or given up.
ThreadEnds ==
  /\ threads > 0
  /\ threads' = threads - 1
  /\ \/ Finish(attempts) /\ UNCHANGED <<step, invoice>>
     \/ canNotHandlePayment /\ UNCHANGED <<life, attempts, prompt>>
  /\ UNCHANGED <<given, interrupted, hurried, reading, clicks, processing, mPinDialog>>

-----------------------------------------------------------------------------
(***************************************************************************)
(* The send button.  A click is posted when the finger is lifted from an   *)
(* enabled button, and handled later, also on a screen that has been left: *)
(* a second one may be on its way when the first disables the form.        *)
(***************************************************************************)
Tap ==
  /\ FormOnTop /\ UserActs
  /\ step \in Kinds
  /\ ~processing /\ clicks < 2
  /\ clicks' = clicks + 1
  /\ UNCHANGED <<given, interrupted, life, reading, step, invoice, processing, attempts, mPinDialog,
                 prompt, threads>>

NewAttempt(shown) ==
  [kind |-> invoice, shown |-> shown, pin |-> "partial", confirms |-> 0,
   sent |-> 0, dropped |-> FALSE]

With(new) == [a \in Ids \cup {Cardinality(Ids) + 1} |-> IF a \in Ids THEN attempts[a] ELSE new]

\* A click that passes the guards of confirmPayment.  The dialog is created
\* before the biometric prompt is displayed, to be its fallback.
Accept ==
  LET id == Cardinality(Ids) + 1 IN
  /\ id <= MaxAttempts
  /\ clicks' = clicks - 1
  /\ \/ /\ attempts' = Dropped(With(NewAttempt(FALSE)), id)      \* amount, fees or balance
        /\ processing' = FALSE
        /\ UNCHANGED <<life, step, invoice, mPinDialog, prompt, threads>>
     \/ /\ invoice = "lightning"                                 \* expired since it was read
        /\ processing' = TRUE
        /\ attempts' = With(NewAttempt(FALSE))
        /\ canNotHandlePayment
        /\ UNCHANGED <<life, mPinDialog, prompt, threads>>
     \/ /\ given.pinRequired                                     \* PIN dialog
        /\ processing' = TRUE
        /\ attempts' = With(NewAttempt(TRUE))
        /\ mPinDialog' = id
        /\ UNCHANGED <<life, step, invoice, prompt, threads>>
     \/ /\ given.pinRequired /\ invoice = "lightning"            \* biometric prompt first
        /\ processing' = TRUE
        /\ attempts' = With(NewAttempt(FALSE))
        /\ mPinDialog' = id /\ prompt' = id
        /\ UNCHANGED <<life, step, invoice, threads>>
     \/ /\ ~given.pinRequired
        /\ processing' = TRUE
        /\ Execute(With(NewAttempt(FALSE)), id)
        /\ UNCHANGED <<step, invoice, mPinDialog>>
  /\ UNCHANGED <<given, interrupted, hurried, reading>>

\* The wallet is not ready, or a payment is already being processed.
Ignore ==
  /\ clicks' = clicks - 1
  /\ UNCHANGED <<given, interrupted, hurried, life, reading, step, invoice, processing, attempts,
                 mPinDialog, prompt, threads>>

\* Mutant: isProcessingPayment is not tested.
confirmPaymentUnguarded == clicks > 0 /\ (Ignore \/ Accept)

confirmPayment == clicks > 0 /\ (Ignore \/ (~processing /\ Accept))

-----------------------------------------------------------------------------
(***************************************************************************)
(* The PIN dialog of attempt a.  Each time the sixth digit is typed a      *)
(* confirmation is posted, to run 300 ms later; none is ever removed.      *)
(***************************************************************************)
OnTop(a) == attempts[a].shown /\ \A b \in Ids : attempts[b].shown => b <= a

TypePin(a) ==
  /\ OnTop(a) /\ UserActs
  /\ attempts[a].pin = "partial"
  /\ attempts[a].confirms < MaxConfirms
  /\ \E v \in {"wrong", "right"} :
       attempts' = [attempts EXCEPT ![a].pin = v, ![a].confirms = @ + 1]
  /\ UNCHANGED <<given, interrupted, life, reading, step, invoice, clicks, processing, mPinDialog,
                 prompt, threads>>

Backspace(a) ==
  /\ OnTop(a) /\ UserActs
  /\ attempts[a].pin # "partial"
  /\ attempts' = [attempts EXCEPT ![a].pin = "partial"]
  /\ UNCHANGED <<given, interrupted, life, reading, step, invoice, clicks, processing, mPinDialog,
                 prompt, threads>>

onPinCancel(a) ==
  /\ OnTop(a) /\ UserActs
  /\ processing' = FALSE
  /\ attempts' = Dropped([attempts EXCEPT ![a].shown = FALSE], a)
  /\ UNCHANGED <<given, interrupted, life, reading, step, invoice, clicks, mPinDialog, prompt, threads>>

\* Mutant: a wrong PIN leaves the dialog open.
onPinConfirmKeepsDialog(a) ==
  /\ attempts[a].confirms > 0
  /\ LET done == [attempts EXCEPT ![a].confirms = @ - 1] IN
     IF attempts[a].pin = "right"
     THEN Execute([done EXCEPT ![a].shown = FALSE], a) /\ UNCHANGED processing
     ELSE /\ attempts' = Dropped(done, a)
          /\ processing' = FALSE
          /\ UNCHANGED <<life, prompt, threads>>
  /\ UNCHANGED <<given, interrupted, hurried, reading, step, invoice, clicks, mPinDialog>>

\* isPinCorrect compares the digits the dialog holds now, and dismisses it.
onPinConfirm(a) ==
  /\ attempts[a].confirms > 0
  /\ LET done == [attempts EXCEPT ![a].confirms = @ - 1, ![a].shown = FALSE] IN
     IF attempts[a].pin = "right"
     THEN Execute(done, a) /\ UNCHANGED processing
     ELSE /\ attempts' = Dropped(done, a)
          /\ processing' = FALSE
          /\ UNCHANGED <<life, prompt, threads>>
  /\ UNCHANGED <<given, interrupted, hurried, reading, step, invoice, clicks, mPinDialog>>

-----------------------------------------------------------------------------
(***************************************************************************)
(* The biometric prompt of attempt a (a new one takes the place of one     *)
(* that is displayed).                                                     *)
(***************************************************************************)
onAuthenticationSucceeded(a) ==
  /\ prompt = a
  /\ attempts' = Sent(attempts, a)
  /\ threads' = threads + 1
  /\ prompt' = 0
  /\ UNCHANGED <<given, interrupted, hurried, life, reading, step, invoice, clicks, processing, mPinDialog>>

\* Mutant: the cancellation leaves the form disabled.
cancelCallbackKeepsForm(a) ==
  /\ prompt = a
  /\ prompt' = 0
  /\ attempts' = Dropped(attempts, a)
  /\ UNCHANGED <<given, interrupted, hurried, life, reading, step, invoice, clicks, processing,
                 mPinDialog, threads>>

cancelCallback(a) ==
  /\ prompt = a
  /\ prompt' = 0
  /\ processing' = FALSE
  /\ attempts' = Dropped(attempts, a)
  /\ UNCHANGED <<given, interrupted, hurried, life, reading, step, invoice, clicks, mPinDialog, threads>>

\* The user prefers the PIN: whatever dialog the field holds is reset and shown.
negativeCallback(a) ==
  /\ prompt = a
  /\ prompt' = 0
  /\ attempts' = [attempts EXCEPT ![mPinDialog].shown = TRUE, ![mPinDialog].pin = "partial"]
  /\ UNCHANGED <<given, interrupted, hurried, life, reading, step, invoice, clicks, processing,
                 mPinDialog, threads>>

\* Any other error (too many tries, timeout, the system took the prompt away)
\* calls neither callback.
onAuthenticationError(a) ==
  /\ prompt = a
  /\ prompt' = 0
  /\ interrupted' = TRUE
  /\ UNCHANGED <<given, hurried, life, reading, step, invoice, clicks, processing, attempts,
                 mPinDialog, threads>>

-----------------------------------------------------------------------------
Next ==
  \/ invoiceReadSuccessfully \/ Pick \/ EditAmount \/ onPause \/ onResume \/ Leave
  \/ ThreadEnds \/ Tap \/ confirmPayment
  \/ \E a \in Ids :
       \/ TypePin(a) \/ Backspace(a) \/ onPinCancel(a) \/ onPinConfirm(a)
       \/ onAuthenticationSucceeded(a) \/ cancelCallback(a)
       \/ negativeCallback(a) \/ onAuthenticationError(a)

Spec == Init /\ [][Next]_vars

-----------------------------------------------------------------------------
(***************************************************************************)
(* Properties.  A user who acts within the 300 ms of a confirmation can    *)
(* have a payment sent twice, and one that was cancelled sent; a screen    *)
(* that comes back may enable the form again under a payment on its way.   *)
(***************************************************************************)

\* Nothing has come between the payment and its form: the screen was not
\* interrupted, or no check of the on-chain balance can follow.
Undisturbed == ~hurried /\ (~interrupted \/ given.text = "lightning")

\* "Stop if a payment is already being processed" (confirmPayment): a screen
\* hands at most one payment to the node or to the wallet; also a screen with an
\* on-chain address that was interrupted, where the check of the balance has
\* enabled the form under an open dialog, if a PIN is required.
AtMostOnePayment ==
  Undisturbed \/ (~hurried /\ given.text = "onchain" /\ given.pinRequired) =>
    \A a, b \in Ids : attempts[a].sent <= 1 /\ (attempts[a].sent > 0 /\ attempts[b].sent > 0 => a = b)

\* A payment the user has cancelled, or whose PIN was refused, is not sent,
\* whatever number of dialogs lie one above the other.
DroppedIsNotSent ==
  ~hurried => \A a \in Ids : ~(attempts[a].dropped /\ attempts[a].sent > 0)

PaymentUnderWay == DialogShown \/ prompt # 0 \/ threads > 0

\* The form follows "the state of the payment" (toggleForm): "if the payment is
\* being processed (or the PIN dialog is shown) editable inputs and buttons are
\* disabled", as long as no check of the balance has come in between; and, however
\* the confirmations, the keys and the cancel button race, a form that is displayed
\* and disabled on a screen that was not interrupted has a payment under way, or
\* about to be confirmed.
FormFollowsPayment ==
  /\ Undisturbed /\ PaymentUnderWay => processing
  /\ ~interrupted /\ life = "resumed" /\ step \in Kinds /\ processing => PaymentUnderWay \/ ~Calm
=============================================================================
