------------------------------ MODULE Payments ------------------------------
(***************************************************************************)
(* The life of an outgoing Lightning payment: the threads that             *)
(* SendPaymentActivity.sendLNPayment starts, the payment table, the node's *)
(* payment attempts, and the NodeSupervisor actor that writes the node's   *)
(* events back into the table.  The process may die between any two steps. *)
(*                                                                         *)
(* A call of sendLNPayment is followed from its thread (which reads the    *)
(* row, branches on its status and writes it in separate steps, nothing    *)
(* being locked) to the attempt it hands to the node.  NodeSupervisor, an  *)
(* actor, handles one event at a time, in two steps: it looks the row up,  *)
(* and then tests and writes its status, which no other actor moves out of *)
(* INIT.                                                                   *)
(***************************************************************************)
EXTENDS Naturals, PaymentStore

CONSTANTS
  Calls,         \* calls of sendLNPayment (bounds how many are explored)
  Overlap,       \* may a call start while the thread of another is running
  MaxRestarts    \* bound on the deaths of the process

ASSUME PaymentsAssumption == Overlap \in BOOLEAN /\ MaxRestarts \in Nat

VARIABLES
  rows,       \* the payment table, on disk, and the session's objects
  forms,      \* hashes whose payment form is on screen
  call,       \* what has become of each call of sendLNPayment
  mailbox,    \* node events that NodeSupervisor has not finished handling
  handled,    \* the event it is handling and the object it has looked up
  restarts    \* how often the process has died

vars == <<rows, forms, call, mailbox, handled, restarts>>

\* The points of the thread of sendLNPayment between two shared accesses.
ThreadPc == {"lookup", "checkBusy", "checkPaid", "checkFailed", "retry", "insert", "send"}

\* The attempt in the node.  routing: known to the payment initiator only, in
\* memory.  htlc: signed into a channel, which the node's own database keeps.
AttemptPc == {"routing", "htlc", "sent", "failed"}

\* aborted: the thread gave up.  killed: the process died while the call was
\* a running thread, or an attempt in memory.
CallState == [pc : {"unused", "aborted", "killed"} \cup ThreadPc \cup AttemptPc,
              hash : Hashes \cup {Null},
              ref : Ids \cup {Null}]     \* the Payment object the thread holds

EventType == {"ChannelSignatureSent", "ChannelRestored", "PaymentSent", "PaymentFailed"}

Event(type, c) == [type |-> type, call |-> c]

Events == [type : EventType, call : Calls]

ASSUME EventsAssumption == Null \notin [event : Events, ref : Ids]

TypeOK ==
  /\ rows \in [Hashes -> Entry]
  /\ forms \subseteq Hashes
  /\ call \in [Calls -> CallState]
  /\ mailbox \subseteq Events
  /\ handled \in [event : mailbox, ref : Ids] \cup {Null}
  /\ restarts \in 0 .. MaxRestarts

Init ==
  /\ rows = [h \in Hashes |-> NoEntry]
  /\ forms = {}
  /\ call = [c \in Calls |-> [pc |-> "unused", hash |-> Null, ref |-> Null]]
  /\ mailbox = {}
  /\ handled = Null
  /\ restarts = 0

Goto(c, pc) == call' = [call EXCEPT ![c].pc = pc]

-----------------------------------------------------------------------------
(***************************************************************************)
(* The process dies and is started again.  Threads, screens and undelivered *)
(* events are gone; the table and the signed HTLCs survive.  checkupInit   *)
(* cleans the table before the node is started, and the node then restores *)
(* the channels that hold HTLCs.                                           *)
(***************************************************************************)
Restart ==
  /\ restarts < MaxRestarts
  /\ restarts' = restarts + 1
  /\ forms' = {}
  /\ call' = [c \in Calls |->
                IF call[c].pc \in ThreadPc \cup {"routing"}
                THEN [call[c] EXCEPT !.pc = "killed"] ELSE call[c]]
  /\ rows' = [h \in Hashes |-> cleanLightningPayments(rows[h])]
  /\ mailbox' = {Event("ChannelRestored", c) : c \in {d \in Calls : call[d].pc = "htlc"}}
  /\ handled' = Null

-----------------------------------------------------------------------------
(***************************************************************************)
(* SendPaymentActivity.                                                    *)
(***************************************************************************)

\* The payment form is only shown for an invoice whose row, if any, is neither
\* PENDING nor PAID.  A row in INIT does not prevent it.
checkPaymentRequestValid(h) == Shown(rows[h]) \notin {"PENDING", "PAID"}

OpenForm(h) ==
  /\ checkPaymentRequestValid(h)
  /\ forms' = forms \cup {h}
  /\ UNCHANGED <<rows, call, mailbox, handled, restarts>>

CloseForm(h) ==
  /\ h \in forms
  /\ forms' = forms \ {h}
  /\ UNCHANGED <<rows, call, mailbox, handled, restarts>>

\* The user has confirmed: a thread is started.  SendPaymentScreen shows how
\* one form comes to start two of them.
sendLNPayment(c, h) ==
  /\ h \in forms
  /\ call[c].pc = "unused"
  /\ Overlap \/ \A d \in Calls : call[d].pc \notin ThreadPc
  /\ call' = [call EXCEPT ![c] = [pc |-> "lookup", hash |-> h, ref |-> Null]]
  /\ UNCHANGED <<rows, forms, mailbox, handled, restarts>>

Lookup(c) ==
  LET p == getPayment(rows[call[c].hash]) IN
  /\ call[c].pc = "lookup"
  /\ call' = [call EXCEPT ![c].ref = p,
                          ![c].pc = IF p = Null THEN "insert" ELSE "checkBusy"]
  /\ UNCHANGED <<rows, forms, mailbox, handled, restarts>>

\* The status of the object the thread holds.
StatusOf(c) == rows[call[c].hash].status[call[c].ref]

\* The thread saves object i as INIT.
SaveInit(c, i) == rows' = [rows EXCEPT ![call[c].hash] = save(@, i, "INIT")]

\* canNotHandlePayment replaces this screen's form by an error; another screen
\* may still show the same invoice.
Abort(c) ==
  /\ Goto(c, "aborted")
  /\ forms' \in {forms, forms \ {call[c].hash}}

\* Mutant: a payment still computing its route is tried again.
CheckBusyRetriesInit(c) ==
  /\ call[c].pc = "checkBusy"
  /\ IF StatusOf(c) = "PENDING"
     THEN Abort(c)
     ELSE /\ Goto(c, IF StatusOf(c) = "INIT" THEN "retry" ELSE "checkPaid")
          /\ UNCHANGED forms
  /\ UNCHANGED <<rows, mailbox, handled, restarts>>

\* Already initializing (computing a route) or pending (en route): abort.
CheckBusy(c) ==
  /\ call[c].pc = "checkBusy"
  /\ IF StatusOf(c) \in {"INIT", "PENDING"}
     THEN Abort(c)
     ELSE Goto(c, "checkPaid") /\ UNCHANGED forms
  /\ UNCHANGED <<rows, mailbox, handled, restarts>>

CheckPaid(c) ==
  /\ call[c].pc = "checkPaid"
  /\ IF StatusOf(c) = "PAID"
     THEN Abort(c)
     ELSE Goto(c, "checkFailed") /\ UNCHANGED forms
  /\ UNCHANGED <<rows, mailbox, handled, restarts>>

\* The last else of the code, "unable to handle state of payment", is for a
\* status that has changed since it was first read.
CheckFailed(c) ==
  /\ call[c].pc = "checkFailed"
  /\ IF StatusOf(c) = "FAILED"
     THEN Goto(c, "retry") /\ UNCHANGED forms
     ELSE Abort(c)
  /\ UNCHANGED <<rows, mailbox, handled, restarts>>

\* Mutant: the row is left as it is.
RetryDoesNotSave(c) ==
  /\ call[c].pc = "retry"
  /\ Goto(c, "send")
  /\ UNCHANGED <<rows, forms, mailbox, handled, restarts>>

\* The object read by Lookup is saved as INIT, without another look at it.
Retry(c) ==
  /\ call[c].pc = "retry"
  /\ SaveInit(c, call[c].ref)
  /\ Goto(c, "send")
  /\ UNCHANGED <<forms, mailbox, handled, restarts>>

\* Mutant: the payment is recorded as pending before it is handed to the node.
InsertPending(c) ==
  /\ call[c].pc = "insert"
  /\ \E i \in Fresh(rows[call[c].hash]) :
       rows' = [rows EXCEPT ![call[c].hash] = save(@, i, "PENDING")]
  /\ Goto(c, "send")
  /\ UNCHANGED <<forms, mailbox, handled, restarts>>

\* A new object is saved.  A row saved by another thread since Lookup is
\* replaced.
Insert(c) ==
  /\ call[c].pc = "insert"
  /\ \E i \in Fresh(rows[call[c].hash]) : SaveInit(c, i)
  /\ Goto(c, "send")
  /\ UNCHANGED <<forms, mailbox, handled, restarts>>

\* App.sendLNPayment tells the payment initiator; closeAndGoHome clears every
\* screen above the home screen.
Send(c) ==
  /\ call[c].pc = "send"
  /\ Goto(c, "routing")
  /\ forms' = {}
  /\ UNCHANGED <<rows, mailbox, handled, restarts>>

SendThread(c) ==
  \/ Lookup(c) \/ CheckBusy(c) \/ CheckPaid(c) \/ CheckFailed(c)
  \/ Retry(c) \/ Insert(c) \/ Send(c)

-----------------------------------------------------------------------------
(***************************************************************************)
(* The eclair node (external).  An attempt is routed, signed into a        *)
(* channel, and ends in one PaymentSent or one PaymentFailed.  Events of   *)
(* different node actors reach NodeSupervisor in any order.                *)
(***************************************************************************)
Publish(type, c) == mailbox' = mailbox \cup {Event(type, c)}

\* A signature is sent for a commitment that holds the HTLC, the first time or
\* again.
NodeSignsHtlc(c) ==
  /\ call[c].pc \in {"routing", "htlc"}
  /\ Goto(c, "htlc")
  /\ Publish("ChannelSignatureSent", c)
  /\ UNCHANGED <<rows, forms, handled, restarts>>

NodeFails(c) ==
  /\ call[c].pc \in {"routing", "htlc"}
  /\ Goto(c, "failed")
  /\ Publish("PaymentFailed", c)
  /\ UNCHANGED <<rows, forms, handled, restarts>>

NodeSucceeds(c) ==
  /\ call[c].pc = "htlc"
  /\ Goto(c, "sent")
  /\ Publish("PaymentSent", c)
  /\ UNCHANGED <<rows, forms, handled, restarts>>

Node(c) == NodeSignsHtlc(c) \/ NodeFails(c) \/ NodeSucceeds(c)

-----------------------------------------------------------------------------
(***************************************************************************)
(* NodeSupervisor.onReceive.  An event for a hash that has no row is       *)
(* ignored.                                                                *)
(***************************************************************************)

\* Mutant: the handler does not test whether there is a row.
onReceiveNoNullCheck(type, c) ==
  /\ handled = Null
  /\ Event(type, c) \in mailbox
  /\ handled' = [event |-> Event(type, c), ref |-> getPayment(rows[call[c].hash])]
  /\ UNCHANGED <<rows, forms, call, mailbox, restarts>>

onReceive(type, c) ==
  LET p == getPayment(rows[call[c].hash]) IN
  /\ handled = Null
  /\ Event(type, c) \in mailbox
  /\ IF p = Null
     THEN mailbox' = mailbox \ {Event(type, c)} /\ UNCHANGED handled
     ELSE handled' = [event |-> Event(type, c), ref |-> p] /\ UNCHANGED mailbox
  /\ UNCHANGED <<rows, forms, call, restarts>>

\* The end of the handler: Update is what it does to the object it looked up.
Receive(type, c, Update(_, _)) ==
  /\ handled # Null
  /\ handled.event = Event(type, c)
  /\ rows' = [rows EXCEPT ![call[c].hash] = Update(@, handled.ref)]
  /\ mailbox' = mailbox \ {handled.event}
  /\ handled' = Null
  /\ UNCHANGED <<forms, call, restarts>>

\* Mutant: a signature event makes the payment pending whatever its status.
PendingAlways(e, i) == save(e, i, "PENDING")

PendingIfInit(e, i) == IF e.status[i] = "INIT" THEN updatePaymentPending(e, i) ELSE e

ReceiveSignatureSent(c) == Receive("ChannelSignatureSent", c, PendingIfInit)

ReceiveChannelRestored(c) == Receive("ChannelRestored", c, PendingIfInit)

ReceivePaymentFailed(c) == Receive("PaymentFailed", c, updatePaymentFailed)

ReceivePaymentSent(c) == Receive("PaymentSent", c, updatePaymentPaid)

Finishes(c) ==
  \/ ReceiveSignatureSent(c) \/ ReceiveChannelRestored(c)
  \/ ReceivePaymentFailed(c) \/ ReceivePaymentSent(c)

Supervisor(c) == Finishes(c) \/ \E type \in EventType : onReceive(type, c)

-----------------------------------------------------------------------------
Next ==
  \/ \E h \in Hashes : OpenForm(h) \/ CloseForm(h)
  \/ \E c \in Calls, h \in Hashes : sendLNPayment(c, h)
  \/ \E c \in Calls : SendThread(c) \/ Node(c) \/ Supervisor(c)
  \/ Restart

Spec == Init /\ [][Next]_vars

(***************************************************************************)
(* Fairness.  A started thread runs, the actor finishes what it handles and *)
(* takes every message in its turn (strong fairness stands for the order   *)
(* of its mailbox), and the node ends the attempts it holds (HTLCs time    *)
(* out).  Nothing is assumed of the user or of the death of the process.   *)
(***************************************************************************)
FairSpec ==
  /\ Spec
  /\ \A c \in Calls : /\ WF_vars(SendThread(c))
                      /\ WF_vars(NodeFails(c) \/ NodeSucceeds(c))
                      /\ WF_vars(Finishes(c))
                      /\ \A type \in EventType : SF_vars(onReceive(type, c))

-----------------------------------------------------------------------------
(***************************************************************************)
(* Properties.                                                             *)
(***************************************************************************)
EnRoute(c) == call[c].pc \in {"routing", "htlc"}

\* The node has ended the attempt and NodeSupervisor has not heard of it yet.
Unreported(c) == \E type \in {"PaymentSent", "PaymentFailed"} : Event(type, c) \in mailbox

Outstanding(c) == EnRoute(c) \/ Unreported(c)

SameInvoice(c, d) == c # d /\ call[c].hash = call[d].hash

\* While an attempt for an invoice is en route no other attempt for it is, and
\* none is once the invoice is paid: sendLNPayment aborts when the payment is
\* initializing, pending or paid.
NoDuplicateAttempt ==
  \A c, d \in Calls :
    SameInvoice(c, d) /\ EnRoute(c) => ~EnRoute(d) /\ call[d].pc # "sent"

\* The table tells the truth about the node, up to the events still in the
\* mailbox: an attempt that may still move funds is shown INIT or PENDING (so
\* that the checks of SendPaymentActivity see it), and a payment the node has
\* reported as sent is shown PAID.
TableMatchesNode ==
  \A c \in Calls :
    /\ Outstanding(c) => Shown(rows[call[c].hash]) \in {"INIT", "PENDING"}
    /\ call[c].pc = "sent" /\ ~Unreported(c) => Shown(rows[call[c].hash]) = "PAID"

HasCall(h, pcs) == \E c \in Calls : call[c].hash = h /\ call[c].pc \in pcs

\* What the table says has happened did happen: a PAID row has a successful
\* attempt, a FAILED row a failed one, a PENDING row one that was signed into
\* a channel.
OutcomeIsReal ==
  \A h \in Hashes :
    /\ Shown(rows[h]) = "PAID" => HasCall(h, {"sent"})
    /\ Shown(rows[h]) = "FAILED" => HasCall(h, {"failed"})
    /\ Shown(rows[h]) = "PENDING" => HasCall(h, {"htlc", "sent", "failed"})

\* A paid payment stays paid: no late failure, no stale signature event, no
\* retry and no restart takes the status back.
PaidIsFinal ==
  [][\A h \in Hashes : Shown(rows[h]) = "PAID" => Shown(rows'[h]) = "PAID"]_vars

\* A late PaymentFailed or signature event of another attempt never takes a
\* PAID row back, whatever the threads do (the guards of updatePaymentFailed
\* and updatePaymentPending, which test the object the handler has looked up
\* before another thread may have replaced its row).
PaidNeverDowngradedByNode ==
  [][\A h \in Hashes : Shown(rows[h]) = "PAID" => Shown(rows'[h]) \notin {"FAILED", "PENDING"}]_vars

\* "Pending payment (aka en route in network) are guaranteed to resolve to
\* failure or success" (sendLNPayment), and so is one that it has only recorded
\* as INIT: the supervisor hears of it, one way or the other.
AttemptResolves ==
  \A h \in Hashes : Shown(rows[h]) \in {"INIT", "PENDING"} ~> Shown(rows[h]) \in {"PAID", "FAILED"}
=============================================================================
