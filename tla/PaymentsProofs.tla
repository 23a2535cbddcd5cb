--------------------------- MODULE PaymentsProofs ---------------------------
(***************************************************************************)
(* What holds of Payments for every set of hashes, objects and calls.      *)
(*                                                                         *)
(* First, whatever the interleaving and however often the process dies:    *)
(* the table never reports an outcome that did not happen, and the node's  *)
(* events never take a paid payment back.  Then, when the threads of       *)
(* sendLNPayment do not overlap and the process does not die: an invoice   *)
(* is never sent twice, and a paid payment stays paid.                     *)
(***************************************************************************)
EXTENDS Payments, TLAPS

-----------------------------------------------------------------------------
(***************************************************************************)
(* The table.                                                              *)
(***************************************************************************)

\* Saving an object makes it the row of its hash, with the status given, and
\* leaves the other hashes alone.
LEMMA SaveEffect ==
  ASSUME rows \in [Hashes -> Entry], NEW h \in Hashes, NEW i \in Ids, NEW s \in Status,
         rows' = [rows EXCEPT ![h] = save(@, i, s)]
  PROVE  /\ rows' \in [Hashes -> Entry]
         /\ rows'[h].row = i
         /\ Shown(rows'[h]) = s
         /\ \A k \in Hashes : k # h => rows'[k] = rows[k]
  <1>1. rows[h] \in Entry
    OBVIOUS
  <1>2. rows'[h] = [row |-> i, status |-> [rows[h].status EXCEPT ![i] = s]]
    BY DEF save
  <1>3. [rows[h].status EXCEPT ![i] = s] \in [Ids -> Status \cup {Null}]
    BY <1>1 DEF Entry
  <1>4. rows'[h] \in Entry
    BY <1>2, <1>3 DEF Entry
  <1>5. rows' \in [Hashes -> Entry]
    BY <1>2, <1>4
  <1>6. Shown(rows'[h]) = s
    BY <1>1, <1>2, NullAssumption DEF Shown, Entry
  <1> QED BY <1>2, <1>5, <1>6

-----------------------------------------------------------------------------
(***************************************************************************)
(* Any interleaving, any number of restarts.                               *)
(***************************************************************************)
HoldsRow == {"checkBusy", "checkPaid", "checkFailed", "retry"}

\* A call that has started knows its invoice.
StartedHasHash == \A c \in Calls : call[c].pc # "unused" => call[c].hash \in Hashes

\* A thread that has found a row holds an object.
HeldRow == \A c \in Calls : call[c].pc \in HoldsRow => call[c].ref \in Ids

HandledHash == call[handled.event.call].hash

\* If the row has been replaced since the handler looked it up, then by an
\* object in INIT: only NodeSupervisor writes PAID.
HandlerKnows ==
  handled # Null /\ Shown(rows[HandledHash]) = "PAID" => handled.ref = rows[HandledHash].row

\* An event that is not yet handled says what the node did.
EventsReal ==
  \A c \in Calls :
    /\ Event("PaymentSent", c) \in mailbox => call[c].pc = "sent"
    /\ Event("PaymentFailed", c) \in mailbox => call[c].pc = "failed"
    /\ Event("ChannelSignatureSent", c) \in mailbox => call[c].pc \in {"htlc", "sent", "failed"}
    /\ Event("ChannelRestored", c) \in mailbox => call[c].pc \in {"htlc", "sent", "failed"}

GInv ==
  /\ TypeOK
  /\ StartedHasHash
  /\ HeldRow
  /\ HandlerKnows
  /\ EventsReal
  /\ OutcomeIsReal

CallPc == {"unused", "aborted", "killed"} \cup ThreadPc \cup AttemptPc

Outcomes == {{"sent"}, {"failed"}, {"htlc", "sent", "failed"}}

\* The event being handled is one of an attempt that has started.
LEMMA HandledEvent ==
  ASSUME GInv, handled # Null
  PROVE  /\ handled.event \in mailbox /\ handled.ref \in Ids
         /\ handled.event.call \in Calls
         /\ HandledHash \in Hashes
  <1>1. /\ handled.event \in mailbox /\ handled.ref \in Ids
        /\ handled.event \in Events
    BY DEF GInv, TypeOK
  <1>2. PICK t \in EventType, c \in Calls : handled.event = Event(t, c)
    BY <1>1 DEF Events, Event
  <1>3. handled.event.call = c
    BY <1>2 DEF Event
  <1>4. call[c].pc # "unused"
    BY <1>1, <1>2 DEF GInv, EventsReal, EventType
  <1> QED BY <1>1, <1>3, <1>4 DEF GInv, StartedHasHash, HandledHash

\* A step that moves one call keeps everything else about the calls.
LEMMA GotoEffect ==
  ASSUME TypeOK, NEW c \in Calls, NEW p \in CallPc, Goto(c, p)
  PROVE  /\ call' \in [Calls -> CallState]
         /\ call'[c].pc = p
         /\ \A d \in Calls : call'[d].hash = call[d].hash /\ call'[d].ref = call[d].ref
         /\ \A d \in Calls : d # c => call'[d] = call[d]
  BY DEF TypeOK, Goto, CallState, CallPc

\* The part of the invariant that a step leaves alone when it keeps the rows,
\* the hashes of the calls, and the outcomes of their attempts.
LEMMA RowsKept ==
  ASSUME GInv, rows' = rows, handled' \in {handled, Null},
         \A d \in Calls : call'[d].hash = call[d].hash,
         \A d \in Calls : \A pcs \in Outcomes : call[d].pc \in pcs => call'[d].pc \in pcs
  PROVE  HandlerKnows' /\ OutcomeIsReal'
  <1>1. HandlerKnows'
    <2>1. CASE handled' = Null
      BY <2>1 DEF HandlerKnows
    <2>2. CASE handled' = handled /\ handled # Null
      <3>1. HandledHash' = HandledHash
        BY <2>2, HandledEvent DEF HandledHash
      <3> QED BY <2>2, <3>1 DEF GInv, HandlerKnows
    <2> QED BY <2>1, <2>2
  <1>2. \A h : \A pcs \in Outcomes : HasCall(h, pcs) => HasCall(h, pcs)'
    BY DEF HasCall
  <1> QED BY <1>1, <1>2 DEF GInv, OutcomeIsReal, Outcomes

\* A step that saves an object keeps the invariant when it moves no attempt,
\* and when the calls account for the status that is saved.
LEMMA SaveInv ==
  ASSUME GInv, NEW h \in Hashes, NEW i \in Ids, NEW s \in Status,
         rows' = [rows EXCEPT ![h] = save(@, i, s)],
         call' \in [Calls -> CallState],
         \A d \in Calls : call'[d].hash = call[d].hash /\ call'[d].ref = call[d].ref,
         \A d \in Calls : call'[d].pc = call[d].pc \/ (call[d].pc \in ThreadPc /\ call'[d].pc = "send"),
         mailbox' \subseteq mailbox, UNCHANGED <<forms, restarts>>,
         handled' = Null \/ (handled' = handled /\ mailbox' = mailbox /\ s = "INIT"),
         s = "PAID" => HasCall(h, {"sent"}),
         s = "FAILED" => HasCall(h, {"failed"}),
         s = "PENDING" => HasCall(h, {"htlc", "sent", "failed"})
  PROVE  GInv'
  <1>0. rows \in [Hashes -> Entry]
    BY DEF GInv, TypeOK
  <1>1. /\ rows' \in [Hashes -> Entry]
        /\ Shown(rows'[h]) = s
        /\ \A k \in Hashes : k # h => rows'[k] = rows[k]
    BY <1>0, SaveEffect
  <1>2. TypeOK'
    BY <1>1 DEF GInv, TypeOK
  <1>3. StartedHasHash' /\ HeldRow'
    BY DEF GInv, StartedHasHash, HeldRow, HoldsRow, ThreadPc
  <1>4. EventsReal'
    BY DEF GInv, EventsReal, ThreadPc
  <1>5. HandlerKnows'
    <2>1. CASE handled' = Null
      BY <2>1 DEF HandlerKnows
    <2>2. CASE handled' = handled /\ handled # Null /\ s = "INIT"
      <3>1. HandledHash' = HandledHash /\ HandledHash \in Hashes
        BY <2>2, HandledEvent DEF HandledHash
      <3>2. CASE HandledHash = h
        BY <1>1, <2>2, <3>1, <3>2 DEF HandlerKnows
      <3>3. CASE HandledHash # h
        BY <1>1, <2>2, <3>1, <3>3 DEF GInv, HandlerKnows
      <3> QED BY <3>2, <3>3
    <2> QED BY <2>1, <2>2
  <1>6. OutcomeIsReal'
    <2>1. \A k : \A pcs \in Outcomes : HasCall(k, pcs) => HasCall(k, pcs)'
      BY DEF HasCall, Outcomes, ThreadPc
    <2>2. ASSUME NEW k \in Hashes
          PROVE  /\ Shown(rows'[k]) = "PAID" => HasCall(k, {"sent"})
                 /\ Shown(rows'[k]) = "FAILED" => HasCall(k, {"failed"})
                 /\ Shown(rows'[k]) = "PENDING" => HasCall(k, {"htlc", "sent", "failed"})
      BY <1>1 DEF GInv, OutcomeIsReal
    <2> QED BY <2>1, <2>2 DEF OutcomeIsReal, Outcomes
  <1> QED BY <1>2, <1>3, <1>4, <1>5, <1>6 DEF GInv

\* The end of a handler of NodeSupervisor leaves the table alone, or saves the
\* object it has looked up with one status.
LEMMA FinishEffect ==
  ASSUME GInv, NEW c \in Calls, Finishes(c)
  PROVE  /\ handled # Null /\ handled.ref \in Ids
         /\ handled.event \in mailbox /\ handled.event.call = c
         /\ call[c].hash \in Hashes
         /\ mailbox' = mailbox \ {handled.event} /\ handled' = Null
         /\ UNCHANGED <<forms, call, restarts>>
         /\ ReceiveSignatureSent(c) \/ ReceiveChannelRestored(c) =>
              \/ rows' = rows
              \/ /\ rows[call[c].hash].status[handled.ref] = "INIT"
                 /\ rows' = [rows EXCEPT ![call[c].hash] = save(@, handled.ref, "PENDING")]
         /\ ReceivePaymentFailed(c) =>
              \/ rows' = rows /\ rows[call[c].hash].status[handled.ref] = "PAID"
              \/ /\ rows[call[c].hash].status[handled.ref] # "PAID"
                 /\ rows' = [rows EXCEPT ![call[c].hash] = save(@, handled.ref, "FAILED")]
         /\ ReceivePaymentSent(c) =>
              rows' = [rows EXCEPT ![call[c].hash] = save(@, handled.ref, "PAID")]
  <1>0. rows \in [Hashes -> Entry]
    BY DEF GInv, TypeOK
  <1>1. /\ handled # Null
        /\ mailbox' = mailbox \ {handled.event} /\ handled' = Null
        /\ UNCHANGED <<forms, call, restarts>>
        /\ \E t \in EventType : handled.event = Event(t, c)
    BY DEF Finishes, ReceiveSignatureSent, ReceiveChannelRestored, ReceivePaymentFailed,
           ReceivePaymentSent, Receive, EventType
  <1>2. handled.event.call = c
    BY <1>1 DEF Event
  <1>3. /\ handled.event \in mailbox /\ handled.ref \in Ids
        /\ call[c].hash \in Hashes
    BY <1>1, <1>2, HandledEvent DEF HandledHash
  <1>4. ReceiveSignatureSent(c) \/ ReceiveChannelRestored(c) =>
              \/ rows' = rows
              \/ /\ rows[call[c].hash].status[handled.ref] = "INIT"
                 /\ rows' = [rows EXCEPT ![call[c].hash] = save(@, handled.ref, "PENDING")]
    BY <1>0, <1>3 DEF ReceiveSignatureSent, ReceiveChannelRestored, Receive, PendingIfInit,
                      updatePaymentPending
  <1>5. ReceivePaymentFailed(c) =>
              \/ rows' = rows /\ rows[call[c].hash].status[handled.ref] = "PAID"
              \/ /\ rows[call[c].hash].status[handled.ref] # "PAID"
                 /\ rows' = [rows EXCEPT ![call[c].hash] = save(@, handled.ref, "FAILED")]
    BY <1>0, <1>3 DEF ReceivePaymentFailed, Receive, updatePaymentFailed
  <1>6. ReceivePaymentSent(c) =>
              rows' = [rows EXCEPT ![call[c].hash] = save(@, handled.ref, "PAID")]
    BY DEF ReceivePaymentSent, Receive, updatePaymentPaid
  <1> QED BY <1>1, <1>2, <1>3, <1>4, <1>5, <1>6

\* What a handler that has been entered knows of the attempt.
LEMMA FinishPc ==
  ASSUME GInv, NEW c \in Calls
  PROVE  /\ ReceiveSignatureSent(c) \/ ReceiveChannelRestored(c) =>
              call[c].pc \in {"htlc", "sent", "failed"}
         /\ ReceivePaymentFailed(c) => call[c].pc = "failed"
         /\ ReceivePaymentSent(c) => call[c].pc = "sent"
  BY HandledEvent DEF ReceiveSignatureSent, ReceiveChannelRestored, ReceivePaymentFailed,
                      ReceivePaymentSent, Receive, GInv, EventsReal

\* NodeSupervisor's steps preserve the invariant.
LEMMA SupervisorInv ==
  ASSUME GInv, NEW c \in Calls, Supervisor(c)
  PROVE  GInv'
  <1> DEFINE h == call[c].hash
  <1>1. ASSUME NEW t \in EventType, onReceive(t, c)
        PROVE  GInv'
    <2>1. /\ UNCHANGED <<rows, forms, call, restarts>> /\ mailbox' \subseteq mailbox
          /\ handled = Null /\ Event(t, c) \in mailbox
      BY <1>1 DEF onReceive
    <2>2. call[c].pc # "unused" /\ h \in Hashes
      BY <2>1 DEF GInv, EventsReal, EventType, StartedHasHash
    <2>3. \/ handled' = Null
          \/ handled' = [event |-> Event(t, c), ref |-> rows[h].row] /\ rows[h].row # Null
             /\ mailbox' = mailbox
      BY <1>1 DEF onReceive, getPayment
    <2>4. TypeOK'
      <3>1. rows[h] \in Entry
        BY <2>2 DEF GInv, TypeOK
      <3>2. rows[h].row \in Ids \cup {Null}
        BY <3>1 DEF Entry
      <3> QED BY <2>1, <2>3, <3>2 DEF GInv, TypeOK
    <2>5. HandlerKnows'
      <3>1. CASE handled' = Null
        BY <3>1 DEF HandlerKnows
      <3>2. CASE handled' = [event |-> Event(t, c), ref |-> rows[h].row]
        BY <2>1, <3>2 DEF HandlerKnows, HandledHash, Event
      <3> QED BY <2>3, <3>1, <3>2
    <2>6. StartedHasHash' /\ HeldRow' /\ EventsReal' /\ OutcomeIsReal'
      BY <2>1 DEF GInv, StartedHasHash, HeldRow, EventsReal, OutcomeIsReal, HasCall
    <2> QED BY <2>4, <2>5, <2>6 DEF GInv
  <1>2. ASSUME Finishes(c)
        PROVE  GInv'
    <2>1. /\ handled.ref \in Ids /\ h \in Hashes
          /\ mailbox' \subseteq mailbox /\ handled' = Null
          /\ UNCHANGED <<forms, call, restarts>>
      BY <1>2, FinishEffect
    <2>2. CASE rows' = rows
      <3>1. HandlerKnows' /\ OutcomeIsReal'
        BY <2>1, <2>2, RowsKept
      <3>2. TypeOK' /\ StartedHasHash' /\ HeldRow' /\ EventsReal'
        BY <2>1, <2>2 DEF GInv, TypeOK, StartedHasHash, HeldRow, EventsReal
      <3> QED BY <3>1, <3>2 DEF GInv
    <2>3. ASSUME NEW s \in Status, rows' = [rows EXCEPT ![h] = save(@, handled.ref, s)],
                 s = "PAID" => HasCall(h, {"sent"}),
                 s = "FAILED" => HasCall(h, {"failed"}),
                 s = "PENDING" => HasCall(h, {"htlc", "sent", "failed"})
          PROVE  GInv'
      <3>1. call \in [Calls -> CallState]
        BY DEF GInv, TypeOK
      <3> QED BY <2>1, <2>3, <3>1, SaveInv
    <2>4. CASE ReceiveSignatureSent(c) \/ ReceiveChannelRestored(c)
      <3>1. HasCall(h, {"htlc", "sent", "failed"})
        BY <2>4, FinishPc DEF HasCall
      <3>2. \/ rows' = rows
            \/ rows' = [rows EXCEPT ![h] = save(@, handled.ref, "PENDING")]
        BY <1>2, <2>4, FinishEffect
      <3>3. "PENDING" \in Status
        BY DEF Status
      <3> QED BY <2>2, <2>3, <3>1, <3>2, <3>3
    <2>5. CASE ReceivePaymentFailed(c)
      <3>1. HasCall(h, {"failed"})
        BY <2>5, FinishPc DEF HasCall
      <3>2. \/ rows' = rows
            \/ rows' = [rows EXCEPT ![h] = save(@, handled.ref, "FAILED")]
        BY <1>2, <2>5, FinishEffect
      <3>3. "FAILED" \in Status
        BY DEF Status
      <3> QED BY <2>2, <2>3, <3>1, <3>2, <3>3
    <2>6. CASE ReceivePaymentSent(c)
      <3>1. HasCall(h, {"sent"})
        BY <2>6, FinishPc DEF HasCall
      <3>2. rows' = [rows EXCEPT ![h] = save(@, handled.ref, "PAID")]
        BY <1>2, <2>6, FinishEffect
      <3>3. "PAID" \in Status
        BY DEF Status
      <3> QED BY <2>3, <3>1, <3>2, <3>3
    <2> QED BY <1>2, <2>4, <2>5, <2>6 DEF Finishes
  <1> QED BY <1>1, <1>2 DEF Supervisor

\* A step that only moves a call keeps the invariant, if it keeps the attempts'
\* outcomes and the new control point needs no object, or the thread held one.
LEMMA GotoInv ==
  ASSUME GInv, NEW c \in Calls, NEW p \in CallPc, Goto(c, p), UNCHANGED <<rows, handled, restarts>>,
         forms' \subseteq Hashes,
         \/ call[c].pc \in ThreadPc \cup {"routing"}
         \/ call[c].pc = "htlc" /\ p \in {"htlc", "sent", "failed"},
         p \in HoldsRow => call[c].pc \in HoldsRow,
         \/ mailbox' = mailbox
         \/ \E type \in EventType :
               /\ mailbox' = mailbox \cup {Event(type, c)}
               /\ type \in {"ChannelSignatureSent", "ChannelRestored"} => p \in {"htlc", "sent", "failed"}
               /\ type = "PaymentSent" => p = "sent"
               /\ type = "PaymentFailed" => p = "failed"
  PROVE  GInv'
  <1>1. /\ call' \in [Calls -> CallState]
        /\ call'[c].pc = p
        /\ \A d \in Calls : call'[d].hash = call[d].hash /\ call'[d].ref = call[d].ref
        /\ \A d \in Calls : d # c => call'[d] = call[d]
    BY GotoEffect DEF GInv
  <1>2. TypeOK'
    <2>1. mailbox' \subseteq Events /\ mailbox \subseteq mailbox'
      BY DEF GInv, TypeOK, Event, Events
    <2> QED BY <1>1, <2>1 DEF GInv, TypeOK
  <1>3. StartedHasHash'
    BY <1>1 DEF GInv, StartedHasHash, ThreadPc
  <1>4. HeldRow'
    BY <1>1 DEF GInv, HeldRow
  <1>5. EventsReal'
    <2>1. ASSUME NEW d \in Calls, NEW t \in EventType, Event(t, d) \in mailbox'
          PROVE  /\ t = "PaymentSent" => call'[d].pc = "sent"
                 /\ t = "PaymentFailed" => call'[d].pc = "failed"
                 /\ t \in {"ChannelSignatureSent", "ChannelRestored"}
                      => call'[d].pc \in {"htlc", "sent", "failed"}
      <3>1. CASE Event(t, d) \in mailbox
        <4>1. CASE d = c
          BY <1>1, <3>1, <4>1 DEF GInv, EventsReal, ThreadPc, EventType
        <4>2. CASE d # c
          BY <1>1, <3>1, <4>2 DEF GInv, EventsReal, EventType
        <4> QED BY <4>1, <4>2
      <3>2. CASE Event(t, d) \notin mailbox
        BY <1>1, <2>1, <3>2 DEF Event
      <3> QED BY <3>1, <3>2
    <2> QED BY <2>1 DEF EventsReal, EventType
  <1>6. HandlerKnows' /\ OutcomeIsReal'
    <2>1. \A d \in Calls : \A pcs \in Outcomes : call[d].pc \in pcs => call'[d].pc \in pcs
      BY <1>1 DEF Outcomes, ThreadPc
    <2> QED BY <1>1, <2>1, RowsKept
  <1> QED BY <1>2, <1>3, <1>4, <1>5, <1>6 DEF GInv

\* The node's steps preserve the invariant.
LEMMA NodeInv ==
  ASSUME GInv, NEW c \in Calls, Node(c)
  PROVE  GInv'
  <1> USE DEF CallPc, AttemptPc, EventType, HoldsRow, Publish
  <1>0. forms \subseteq Hashes
    BY DEF GInv, TypeOK
  <1>1. CASE NodeSignsHtlc(c)
    BY <1>0, <1>1, GotoInv DEF NodeSignsHtlc
  <1>2. CASE NodeFails(c)
    BY <1>0, <1>2, GotoInv DEF NodeFails
  <1>3. CASE NodeSucceeds(c)
    BY <1>0, <1>3, GotoInv DEF NodeSucceeds
  <1> QED BY <1>1, <1>2, <1>3 DEF Node

\* Cleaning the table forgets rows in INIT and objects that are no row; it
\* changes no status.
LEMMA RestartRows ==
  ASSUME GInv, Restart, NEW h \in Hashes
  PROVE  rows'[h] \in Entry /\ Shown(rows'[h]) \in {Null, Shown(rows[h])}
  <1>1. rows[h] \in Entry
    BY DEF GInv, TypeOK
  <1>2. rows'[h] = cleanLightningPayments(rows[h])
    BY DEF Restart
  <1>3. NoEntry \in Entry /\ Shown(NoEntry) = Null
    BY DEF NoEntry, Entry, Shown
  <1>4. CASE Shown(rows[h]) \in {Null, "INIT"}
    BY <1>2, <1>3, <1>4 DEF cleanLightningPayments
  <1>5. CASE Shown(rows[h]) \notin {Null, "INIT"}
    <2> DEFINE st == [i \in Ids |-> IF i = rows[h].row THEN rows[h].status[i] ELSE Null]
    <2>1. rows'[h] = [row |-> rows[h].row, status |-> st]
      BY <1>1, <1>2, <1>5 DEF cleanLightningPayments, Entry
    <2>2. st \in [Ids -> Status \cup {Null}]
      BY <1>1 DEF Entry
    <2>3. rows'[h] \in Entry
      BY <1>1, <2>1, <2>2 DEF Entry
    <2>4. rows[h].row \in Ids
      BY <1>1, <1>5 DEF Entry, Shown
    <2>5. Shown(rows'[h]) = Shown(rows[h])
      BY <2>1, <2>4 DEF Shown
    <2> QED BY <2>3, <2>5
  <1> QED BY <1>4, <1>5

\* Starting the process again preserves the invariant: cleaning only removes
\* rows in INIT, and objects no thread holds any more, and the signed HTLCs
\* survive.
LEMMA RestartInv ==
  ASSUME GInv, Restart
  PROVE  GInv'
  <1>1. \A c \in Calls :
          /\ call'[c].hash = call[c].hash
          /\ call'[c].pc = IF call[c].pc \in ThreadPc \cup {"routing"} THEN "killed" ELSE call[c].pc
    BY DEF Restart, GInv, TypeOK, CallState
  <1>2. \A h \in Hashes : rows'[h] \in Entry /\ Shown(rows'[h]) \in {Null, Shown(rows[h])}
    BY RestartRows
  <1>3. TypeOK'
    <2>1. rows' \in [Hashes -> Entry]
      BY <1>2 DEF Restart
    <2>2. call' \in [Calls -> CallState]
      BY DEF GInv, TypeOK, Restart, CallState
    <2>3. mailbox' \subseteq Events
      BY DEF Restart, Event, Events, EventType
    <2>4. restarts' \in 0 .. MaxRestarts
      BY PaymentsAssumption DEF GInv, TypeOK, Restart
    <2> QED BY <2>1, <2>2, <2>3, <2>4 DEF TypeOK, Restart
  <1>4. StartedHasHash'
    BY <1>1 DEF GInv, StartedHasHash, ThreadPc
  <1>5. HeldRow'
    BY <1>1 DEF HeldRow, HoldsRow, ThreadPc
  <1>6. HandlerKnows'
    BY DEF Restart, HandlerKnows
  <1>7. EventsReal'
    BY <1>1 DEF EventsReal, Restart, Event, ThreadPc
  <1>8. OutcomeIsReal'
    <2>1. \A h : \A pcs \in Outcomes : HasCall(h, pcs) => HasCall(h, pcs)'
      BY <1>1 DEF HasCall, Outcomes, ThreadPc
    <2>2. \A h \in Hashes : Shown(rows'[h]) \in Status => Shown(rows'[h]) = Shown(rows[h])
      BY <1>2, NullAssumption
    <2> QED BY <2>1, <2>2 DEF GInv, OutcomeIsReal, Outcomes, Status
  <1> QED BY <1>3, <1>4, <1>5, <1>6, <1>7, <1>8 DEF GInv

\* The steps of the thread of sendLNPayment preserve the invariant.
LEMMA ThreadInv ==
  ASSUME GInv, NEW c \in Calls, SendThread(c)
  PROVE  GInv'
  <1> DEFINE h == call[c].hash
  <1>0. /\ forms \subseteq Hashes
        /\ call \in [Calls -> CallState]
        /\ rows \in [Hashes -> Entry]
        /\ call[c].pc \in ThreadPc
        /\ h \in Hashes
    BY DEF GInv, TypeOK, StartedHasHash, SendThread, Lookup, CheckBusy, CheckPaid, CheckFailed,
           Retry, Insert, Send, ThreadPc
  <1>1. CASE Lookup(c)
    <2> DEFINE p == rows[h].row
    <2>1. /\ call' = [call EXCEPT ![c].ref = p, ![c].pc = IF p = Null THEN "insert" ELSE "checkBusy"]
          /\ UNCHANGED <<rows, forms, mailbox, handled, restarts>>
          /\ call[c].pc = "lookup"
      BY <1>1 DEF Lookup, getPayment
    <2>2. p \in Ids \cup {Null}
      <3>1. rows[h] \in Entry
        BY <1>0
      <3> QED BY <3>1 DEF Entry
    <2> HIDE DEF p
    <2>3. /\ call' \in [Calls -> CallState]
          /\ call'[c].pc = IF p = Null THEN "insert" ELSE "checkBusy"
          /\ call'[c].ref = p
          /\ call'[c].hash = h
          /\ \A d \in Calls : d # c => call'[d] = call[d]
      BY <1>0, <2>1, <2>2 DEF CallState, ThreadPc
    <2>4. TypeOK' /\ StartedHasHash' /\ EventsReal'
      BY <1>0, <2>1, <2>3 DEF GInv, TypeOK, StartedHasHash, EventsReal
    <2>5. HeldRow'
      BY <2>2, <2>3 DEF GInv, HeldRow, HoldsRow
    <2>6. HandlerKnows' /\ OutcomeIsReal'
      <3>1. \A d \in Calls : \A pcs \in Outcomes : call[d].pc \in pcs => call'[d].pc \in pcs
        BY <2>1, <2>3 DEF Outcomes
      <3>2. \A d \in Calls : call'[d].hash = call[d].hash
        BY <2>3
      <3> QED BY <2>1, <3>1, <3>2, RowsKept
    <2> QED BY <2>4, <2>5, <2>6 DEF GInv
  <1>2. ASSUME CheckBusy(c) \/ CheckPaid(c) \/ CheckFailed(c) \/ Send(c)
        PROVE  GInv'
    <2>1. /\ UNCHANGED <<rows, mailbox, handled, restarts>>
          /\ forms' \subseteq Hashes
      BY <1>0, <1>2 DEF CheckBusy, CheckPaid, CheckFailed, Send, Abort
    <2>2. \E p \in CallPc : Goto(c, p) /\ (p \in HoldsRow => call[c].pc \in HoldsRow)
      BY <1>2 DEF CheckBusy, CheckPaid, CheckFailed, Send, Abort, CallPc, ThreadPc, AttemptPc, HoldsRow
    <2> QED BY <1>0, <2>1, <2>2, GotoInv
  <1>3. ASSUME Goto(c, "send"), NEW i \in Ids, SaveInit(c, i), UNCHANGED <<forms, mailbox, handled, restarts>>
        PROVE  GInv'
    <2>1. /\ call' \in [Calls -> CallState]
          /\ call'[c].pc = "send"
          /\ \A d \in Calls : call'[d].hash = call[d].hash /\ call'[d].ref = call[d].ref
          /\ \A d \in Calls : d # c => call'[d] = call[d]
      BY <1>3, GotoEffect DEF GInv, CallPc, ThreadPc
    <2>2. "INIT" \in Status
      BY DEF Status
    <2>3. \A d \in Calls : call'[d].pc = call[d].pc \/ (call[d].pc \in ThreadPc /\ call'[d].pc = "send")
      BY <1>0, <2>1
    <2>4. rows' = [rows EXCEPT ![h] = save(@, i, "INIT")]
      BY <1>3 DEF SaveInit
    <2> QED BY <1>0, <1>3, <2>1, <2>2, <2>3, <2>4, SaveInv
  <1>4. CASE Retry(c)
    <2>1. call[c].ref \in Ids
      BY <1>4 DEF Retry, GInv, HeldRow, HoldsRow
    <2> QED BY <1>3, <1>4, <2>1 DEF Retry
  <1>5. CASE Insert(c)
    BY <1>3, <1>5 DEF Insert, Fresh
  <1> QED BY <1>1, <1>2, <1>4, <1>5 DEF SendThread

\* Every step preserves the invariant, whatever runs concurrently.
LEMMA GInvStep ==
  ASSUME GInv, [Next]_vars
  PROVE  GInv'
  <1>1. ASSUME UNCHANGED <<rows, call, mailbox, handled, restarts>>, forms' \subseteq Hashes
        PROVE  GInv'
    <2>1. HandlerKnows' /\ OutcomeIsReal'
      BY <1>1, RowsKept
    <2> QED BY <1>1, <2>1 DEF GInv, TypeOK, StartedHasHash, HeldRow, EventsReal
  <1>2. forms \subseteq Hashes
    BY DEF GInv, TypeOK
  <1>3. CASE UNCHANGED vars
    BY <1>1, <1>2, <1>3 DEF vars
  <1>4. ASSUME NEW h \in Hashes, OpenForm(h) \/ CloseForm(h)
        PROVE  GInv'
    BY <1>1, <1>2, <1>4 DEF OpenForm, CloseForm
  <1>5. ASSUME NEW c \in Calls, NEW h \in Hashes, sendLNPayment(c, h)
        PROVE  GInv'
    <2>1. /\ call' \in [Calls -> CallState]
          /\ call'[c] = [pc |-> "lookup", hash |-> h, ref |-> Null]
          /\ \A d \in Calls : d # c => call'[d] = call[d]
          /\ call[c].pc = "unused"
          /\ UNCHANGED <<rows, forms, mailbox, handled, restarts>>
      BY <1>5 DEF sendLNPayment, GInv, TypeOK, CallState, ThreadPc
    <2>2. TypeOK' /\ StartedHasHash' /\ HeldRow' /\ EventsReal'
      BY <2>1 DEF GInv, TypeOK, StartedHasHash, HeldRow, HoldsRow, EventsReal
    <2>3. HandlerKnows'
      <3>1. CASE handled = Null
        BY <2>1, <3>1 DEF HandlerKnows
      <3>2. CASE handled # Null
        <4>1. handled.event.call \in Calls /\ HandledHash \in Hashes
          BY <3>2, HandledEvent
        <4>2. call[handled.event.call].pc # "unused"
          BY <3>2, HandledEvent DEF GInv, EventsReal, TypeOK, Events, Event, EventType
        <4>3. HandledHash' = HandledHash
          BY <2>1, <4>1, <4>2 DEF HandledHash
        <4> QED BY <2>1, <4>3 DEF GInv, HandlerKnows
      <3> QED BY <3>1, <3>2
    <2>4. OutcomeIsReal'
      <3>1. \A k : \A pcs \in Outcomes : HasCall(k, pcs) => HasCall(k, pcs)'
        BY <2>1 DEF HasCall, Outcomes
      <3> QED BY <2>1, <3>1 DEF GInv, OutcomeIsReal, Outcomes
    <2> QED BY <2>2, <2>3, <2>4 DEF GInv
  <1> QED BY <1>3, <1>4, <1>5, ThreadInv, NodeInv, SupervisorInv, RestartInv DEF Next

\* The initial state satisfies the invariant.
LEMMA GInvInit == Init => GInv
  <1> SUFFICES ASSUME Init PROVE GInv
    OBVIOUS
  <1>1. NoEntry \in Entry /\ Shown(NoEntry) = Null
    BY DEF NoEntry, Entry, Shown
  <1>2. TypeOK
    BY <1>1, PaymentsAssumption DEF Init, TypeOK, CallState
  <1>3. StartedHasHash /\ HeldRow /\ HandlerKnows /\ EventsReal
    BY DEF Init, StartedHasHash, HeldRow, HoldsRow, HandlerKnows, EventsReal
  <1>4. OutcomeIsReal
    BY <1>1, NullAssumption DEF Init, OutcomeIsReal, Status
  <1> QED BY <1>2, <1>3, <1>4 DEF GInv

\* The invariant holds of every behaviour.
LEMMA GInvariant == Spec => []GInv
  BY GInvInit, GInvStep, PTL DEF Spec

\* The table, the calls and the mailbox are always well formed: in particular
\* no handler and no thread ever writes through an object it does not hold.
THEOREM TypeCorrect == Spec => []TypeOK
  BY GInvariant, PTL DEF GInv

\* However the threads of sendLNPayment, the node and NodeSupervisor are
\* interleaved, and however often the process dies, a payment the table shows
\* as PAID, FAILED or PENDING has an attempt that was.
THEOREM OutcomeCorrect == Spec => []OutcomeIsReal
  BY GInvariant, PTL DEF GInv

\* Only Retry and Insert write the table, and they make the row INIT.
LEMMA ThreadRows ==
  ASSUME GInv, NEW c \in Calls, SendThread(c), rows' # rows
  PROVE  /\ Retry(c) \/ Insert(c)
         /\ call[c].hash \in Hashes
         /\ Shown(rows'[call[c].hash]) = "INIT"
         /\ \A k \in Hashes : k # call[c].hash => rows'[k] = rows[k]
  <1>1. Retry(c) \/ Insert(c)
    BY DEF SendThread, Lookup, CheckBusy, CheckPaid, CheckFailed, Send
  <1>2. rows \in [Hashes -> Entry] /\ call[c].hash \in Hashes /\ "INIT" \in Status
    BY <1>1 DEF GInv, TypeOK, StartedHasHash, Retry, Insert, Status
  <1>3. \E i \in Ids : rows' = [rows EXCEPT ![call[c].hash] = save(@, i, "INIT")]
    BY <1>1 DEF Retry, Insert, SaveInit, Fresh, GInv, HeldRow, HoldsRow
  <1> QED BY ZenonT(40), <1>1, <1>2, <1>3, SaveEffect

\* The node, the forms and the start of a thread leave the table alone.
LEMMA OtherRows ==
  ASSUME [Next]_vars, ~Restart, \A c \in Calls : ~SendThread(c) /\ ~Finishes(c)
  PROVE  rows' = rows
  BY DEF Next, vars, Node, NodeSignsHtlc, NodeFails, NodeSucceeds, Supervisor, onReceive,
         OpenForm, CloseForm, sendLNPayment

\* No step takes a paid row to FAILED or PENDING, whatever runs concurrently:
\* updatePaymentFailed and the INIT test of the signature handlers are enough
\* against late and duplicated attempts, although the handler may have looked
\* the row up before a thread replaced it.
THEOREM NoDowngradeByNode == Spec => PaidNeverDowngradedByNode
  <1> DEFINE Kept == \A h \in Hashes :
                       Shown(rows[h]) = "PAID" => Shown(rows'[h]) \notin {"FAILED", "PENDING"}
  <1>1. ASSUME GInv, [Next]_vars PROVE Kept
    <2>0. rows \in [Hashes -> Entry]
      BY <1>1 DEF GInv, TypeOK
    <2>1. CASE rows' = rows
      BY <2>1
    <2>2. CASE Restart
      BY <1>1, <2>2, RestartRows, NullAssumption DEF Status
    <2>3. ASSUME NEW c \in Calls, SendThread(c), rows' # rows
          PROVE  Kept
      BY <1>1, <2>3, ThreadRows
    <2>4. ASSUME NEW c \in Calls, Finishes(c), rows' # rows
          PROVE  Kept
      <3> DEFINE h == call[c].hash
      <3>1. h \in Hashes /\ handled # Null /\ handled.ref \in Ids /\ HandledHash = h
        BY <1>1, <2>4, FinishEffect DEF HandledHash
      <3>2. Shown(rows[h]) = "PAID" => rows[h].status[handled.ref] = "PAID"
        BY <1>1, <3>1, NullAssumption DEF GInv, HandlerKnows, Shown, Status
      <3>3. \E s \in Status : /\ rows' = [rows EXCEPT ![h] = save(@, handled.ref, s)]
                              /\ Shown(rows[h]) = "PAID" => s = "PAID"
        BY <1>1, <2>4, <3>2, FinishEffect DEF Finishes, Status
      <3>4. PICK s \in Status : /\ rows' = [rows EXCEPT ![h] = save(@, handled.ref, s)]
                                /\ Shown(rows[h]) = "PAID" => s = "PAID"
        BY <3>3
      <3>5. Shown(rows'[h]) = s /\ \A k \in Hashes : k # h => rows'[k] = rows[k]
        BY ZenonT(40), <2>0, <3>1, <3>4, SaveEffect
      <3> QED BY <3>4, <3>5
    <2> QED BY <1>1, <2>1, <2>2, <2>3, <2>4, OtherRows
  <1> QED BY <1>1, GInvariant, PTL DEF Spec, PaidNeverDowngradedByNode

-----------------------------------------------------------------------------
(***************************************************************************)
(* One thread at a time, in one life of the process.                       *)
(***************************************************************************)
OneThread == \A c, d \in Calls : call[c].pc \in ThreadPc /\ call[d].pc \in ThreadPc => c = d

NoneRestored == \A c \in Calls : Event("ChannelRestored", c) \notin mailbox

\* No other attempt for c's invoice can still move funds, or has.
Alone(c) == \A d \in Calls : SameInvoice(c, d) => ~Outstanding(d) /\ call[d].pc # "sent"

OutstandingAlone == \A c \in Calls : Outstanding(c) => Alone(c)

\* The parts about the calls and about the table are preserved separately.
CallsInv == OneThread /\ NoneRestored /\ OutstandingAlone

Live(h) == Shown(rows[h]) \in {"INIT", "PENDING"}

\* What the thread has read still holds when it acts on it.
ThreadKnows ==
  \A c \in Calls :
    /\ call[c].pc \in HoldsRow => call[c].ref = rows[call[c].hash].row
    /\ call[c].pc = "retry" => Shown(rows[call[c].hash]) = "FAILED"
    /\ call[c].pc = "insert" => rows[call[c].hash].row = Null
    /\ call[c].pc = "send" => Alone(c) /\ Live(call[c].hash)

\* The row is not replaced while a handler is at work on it.
HandledIsRow == handled # Null => handled.ref = rows[HandledHash].row

SInv ==
  /\ GInv
  /\ CallsInv
  /\ TableMatchesNode
  /\ ThreadKnows
  /\ HandledIsRow

\* A call that is not an attempt of the node has no outcome to report.
LEMMA ThreadNotOutstanding ==
  ASSUME GInv, NEW c \in Calls, call[c].pc \in {"unused", "aborted", "killed"} \cup ThreadPc
  PROVE  ~Outstanding(c) /\ call[c].pc # "sent"
  BY DEF GInv, EventsReal, Outstanding, EnRoute, Unreported, ThreadPc

\* The row of an invoice tells a thread that nothing is outstanding for it when
\* that row is FAILED, or when there is none.
LEMMA QuietInvoice ==
  ASSUME SInv, NEW c \in Calls, Shown(rows[call[c].hash]) \in {Null, "FAILED"}
  PROVE  /\ Alone(c)
         /\ \A d \in Calls : call[d].hash = call[c].hash => ~Outstanding(d) /\ call[d].pc # "sent"
  <1>1. ASSUME NEW d \in Calls, call[d].hash = call[c].hash
        PROVE  ~Outstanding(d) /\ call[d].pc # "sent"
    <2>1. ~Outstanding(d)
      BY <1>1, NullAssumption DEF SInv, TableMatchesNode, Status
    <2>2. ~Unreported(d)
      BY <2>1 DEF Outstanding
    <2> QED BY <1>1, <2>1, <2>2, NullAssumption DEF SInv, TableMatchesNode, Status
  <1> QED BY <1>1 DEF Alone, SameInvoice

\* A step of a running thread that does not hand an attempt to the node changes
\* nothing about the attempts.
LEMMA ThreadMoves ==
  ASSUME SInv, NEW c \in Calls, call[c].pc \in ThreadPc, call'[c].pc \in ThreadPc \cup {"aborted"},
         \A d \in Calls : call'[d].hash = call[d].hash,
         \A d \in Calls : d # c => call'[d] = call[d],
         UNCHANGED <<mailbox, handled>>
  PROVE  /\ CallsInv'
         /\ \A d \in Calls : Unreported(d)' <=> Unreported(d)
         /\ \A d \in Calls : Outstanding(d)' <=> Outstanding(d)
         /\ \A d \in Calls : call'[d].pc = "sent" <=> call[d].pc = "sent"
         /\ \A d \in Calls : Alone(d)' <=> Alone(d)
         /\ handled # Null => HandledHash' = HandledHash /\ HandledHash \in Hashes
  <1>1. \A d \in Calls : Unreported(d)' <=> Unreported(d)
    BY DEF Unreported
  <1>2. \A d \in Calls : EnRoute(d)' <=> EnRoute(d)
    BY DEF EnRoute, ThreadPc
  <1>3. \A d \in Calls : Outstanding(d)' <=> Outstanding(d)
    BY <1>1, <1>2 DEF Outstanding
  <1>4. \A d \in Calls : call'[d].pc = "sent" <=> call[d].pc = "sent"
    BY DEF ThreadPc
  <1>5. \A d, e \in Calls : SameInvoice(d, e)' <=> SameInvoice(d, e)
    BY DEF SameInvoice
  <1>6. \A d \in Calls : Alone(d)' <=> Alone(d)
    BY <1>3, <1>4, <1>5 DEF Alone
  <1>7. OneThread'
    BY DEF SInv, CallsInv, OneThread
  <1>8. NoneRestored'
    BY DEF SInv, CallsInv, NoneRestored
  <1>9. OutstandingAlone'
    BY <1>3, <1>6 DEF SInv, CallsInv, OutstandingAlone
  <1>10. handled # Null => HandledHash' = HandledHash /\ HandledHash \in Hashes
    BY HandledEvent DEF SInv, HandledHash
  <1> QED BY <1>1, <1>3, <1>4, <1>6, <1>7, <1>8, <1>9, <1>10 DEF CallsInv

\* A thread that reads, decides or gives up leaves the table truthful, and
\* what it goes on to rely on holds.
LEMMA ThreadReads ==
  ASSUME SInv, NEW c \in Calls, call[c].pc \in ThreadPc, call'[c].pc \in ThreadPc \cup {"aborted"},
         \A d \in Calls : call'[d].hash = call[d].hash,
         \A d \in Calls : d # c => call'[d] = call[d],
         UNCHANGED <<rows, mailbox, handled>>, GInv',
         call'[c].pc \in HoldsRow => call'[c].ref = rows[call[c].hash].row,
         call'[c].pc = "retry" => Shown(rows[call[c].hash]) = "FAILED",
         call'[c].pc = "insert" => rows[call[c].hash].row = Null,
         call'[c].pc # "send"
  PROVE  SInv'
  <1>1. /\ CallsInv'
        /\ \A d \in Calls : Unreported(d)' <=> Unreported(d)
        /\ \A d \in Calls : Outstanding(d)' <=> Outstanding(d)
        /\ \A d \in Calls : call'[d].pc = "sent" <=> call[d].pc = "sent"
        /\ \A d \in Calls : Alone(d)' <=> Alone(d)
        /\ handled # Null => HandledHash' = HandledHash /\ HandledHash \in Hashes
    BY ThreadMoves
  <1>2. TableMatchesNode'
    BY <1>1 DEF SInv, TableMatchesNode
  <1>3. ThreadKnows'
    BY <1>1 DEF SInv, ThreadKnows, Live
  <1>4. HandledIsRow'
    BY <1>1 DEF SInv, HandledIsRow
  <1> QED BY <1>1, <1>2, <1>3, <1>4 DEF SInv

\* Retry and Insert make the invoice's row INIT; no attempt for the invoice was
\* outstanding, so the table stays truthful and the thread may send.
LEMMA ThreadWrites ==
  ASSUME SInv, NEW c \in Calls, Retry(c) \/ Insert(c), GInv'
  PROVE  SInv'
  <1> DEFINE h == call[c].hash
  <1>0. /\ rows \in [Hashes -> Entry]
        /\ h \in Hashes
        /\ Goto(c, "send")
        /\ call[c].pc \in ThreadPc
        /\ UNCHANGED <<mailbox, handled>>
        /\ "INIT" \in Status
    BY DEF SInv, GInv, TypeOK, StartedHasHash, Retry, Insert, ThreadPc, Status
  <1>1. /\ call'[c].pc = "send"
        /\ \A d \in Calls : call'[d].hash = call[d].hash /\ call'[d].ref = call[d].ref
        /\ \A d \in Calls : d # c => call'[d] = call[d]
    <2>1. "send" \in CallPc /\ TypeOK
      BY DEF CallPc, ThreadPc, SInv, GInv
    <2> QED BY <1>0, <2>1, GotoEffect
  <1>2. /\ CallsInv'
        /\ \A d \in Calls : Unreported(d)' <=> Unreported(d)
        /\ \A d \in Calls : Outstanding(d)' <=> Outstanding(d)
        /\ \A d \in Calls : call'[d].pc = "sent" <=> call[d].pc = "sent"
        /\ \A d \in Calls : Alone(d)' <=> Alone(d)
        /\ handled # Null => HandledHash' = HandledHash /\ HandledHash \in Hashes
    BY <1>0, <1>1, ThreadMoves DEF ThreadPc
  <1>3. /\ Shown(rows[h]) \in {Null, "FAILED"}
        /\ \E i \in Ids : /\ rows' = [rows EXCEPT ![h] = save(@, i, "INIT")]
                          /\ rows[h].row \in {Null, i}
    <2>1. CASE Retry(c)
      BY <2>1 DEF Retry, SaveInit, SInv, GInv, HeldRow, HoldsRow, ThreadKnows
    <2>2. CASE Insert(c)
      BY <2>2 DEF Insert, SaveInit, Fresh, SInv, ThreadKnows, Shown
    <2> QED BY <2>1, <2>2
  <1>4. PICK i \in Ids : /\ rows' = [rows EXCEPT ![h] = save(@, i, "INIT")]
                         /\ rows[h].row \in {Null, i}
    BY <1>3
  <1>5. /\ Alone(c)
        /\ \A d \in Calls : call[d].hash = h => ~Outstanding(d) /\ call[d].pc # "sent"
    BY <1>3, QuietInvoice
  <1>6. /\ rows'[h].row = i /\ Shown(rows'[h]) = "INIT"
        /\ \A k \in Hashes : k # h => rows'[k] = rows[k]
    BY <1>0, <1>4, SaveEffect
  <1>7. \A d \in Calls : Outstanding(d) \/ call[d].pc = "sent" => call[d].hash \in Hashes
    BY ThreadNotOutstanding DEF SInv, GInv, StartedHasHash
  <1>8. TableMatchesNode'
    BY <1>1, <1>2, <1>5, <1>6, <1>7 DEF SInv, TableMatchesNode
  <1>9. ThreadKnows'
    <2>1. \A d \in Calls : d # c => call'[d].pc \notin ThreadPc
      BY <1>0, <1>1 DEF SInv, CallsInv, OneThread
    <2>2. Live(h)'
      BY <1>6, <1>1 DEF Live
    <2> QED BY <1>1, <1>2, <1>5, <2>1, <2>2 DEF ThreadKnows, ThreadPc, HoldsRow
  <1>10. HandledIsRow'
    <2>1. SUFFICES ASSUME handled # Null PROVE handled.ref = rows'[HandledHash].row
      BY <1>0, <1>2 DEF HandledIsRow
    <2>2. handled.ref \in Ids /\ handled.ref = rows[HandledHash].row /\ HandledHash \in Hashes
      BY <2>1, HandledEvent DEF SInv, HandledIsRow
    <2> QED BY <1>4, <1>6, <2>2, NullAssumption
  <1> QED BY <1>2, <1>8, <1>9, <1>10 DEF SInv

\* Handing the payment to the node, and the node's own steps: an attempt that
\* is the only one for its invoice, and that the table shows, stays so.
LEMMA AttemptMoves ==
  ASSUME SInv, NEW c \in Calls, NEW p \in AttemptPc, Goto(c, p), UNCHANGED <<rows, handled>>, GInv',
         \/ call[c].pc = "send" /\ p = "routing" /\ mailbox' = mailbox
         \/ EnRoute(c) /\ p = "htlc" /\ mailbox' = mailbox \cup {Event("ChannelSignatureSent", c)}
         \/ EnRoute(c) /\ p = "failed" /\ mailbox' = mailbox \cup {Event("PaymentFailed", c)}
         \/ EnRoute(c) /\ p = "sent" /\ mailbox' = mailbox \cup {Event("PaymentSent", c)}
  PROVE  SInv'
  <1>1. /\ call'[c].pc = p
        /\ \A d \in Calls : call'[d].hash = call[d].hash /\ call'[d].ref = call[d].ref
        /\ \A d \in Calls : d # c => call'[d] = call[d]
    BY GotoEffect DEF SInv, GInv, CallPc
  <1>2. Alone(c) /\ Live(call[c].hash)
    BY DEF SInv, CallsInv, ThreadKnows, OutstandingAlone, TableMatchesNode, Live, Outstanding
  <1>3. \A d \in Calls : d # c => (Unreported(d)' <=> Unreported(d))
    BY DEF Unreported, Event
  <1>4. \A d \in Calls : d # c => (Outstanding(d)' <=> Outstanding(d))
    BY <1>1, <1>3 DEF Outstanding, EnRoute
  <1>5. Outstanding(c)'
    BY <1>1 DEF Outstanding, EnRoute, Unreported
  <1>6. call'[c].pc = "sent" => Unreported(c)'
    BY <1>1 DEF Unreported, EnRoute
  <1>7. \A d, e \in Calls : SameInvoice(d, e)' <=> SameInvoice(d, e)
    BY <1>1 DEF SameInvoice
  <1>8. Alone(c)'
    BY <1>1, <1>2, <1>4, <1>7 DEF Alone, SameInvoice
  <1>9. ASSUME NEW d \in Calls, d # c, Alone(d), Outstanding(d) \/ call[d].pc = "send"
        PROVE  Alone(d)'
    <2>1. ~SameInvoice(d, c)
      <3>1. SUFFICES ASSUME SameInvoice(d, c) PROVE FALSE
        OBVIOUS
      <3>2. SameInvoice(c, d)
        BY <3>1 DEF SameInvoice
      <3>3. ~Outstanding(d)
        BY <1>2, <3>2 DEF Alone
      <3>4. ~Outstanding(c)
        BY <1>9, <3>1 DEF Alone
      <3>5. call[c].pc = "send" /\ call[d].pc = "send"
        BY <1>9, <3>3, <3>4 DEF Outstanding
      <3> QED BY <1>9, <3>5 DEF SInv, CallsInv, OneThread, ThreadPc
    <2> QED BY <1>1, <1>4, <1>7, <1>9, <2>1 DEF Alone
  <1>10. CallsInv'
    <2>1. OneThread'
      BY <1>1 DEF SInv, CallsInv, OneThread, ThreadPc, AttemptPc
    <2>2. NoneRestored'
      <3>1. \A d, t : t # "ChannelRestored" => Event("ChannelRestored", d) # Event(t, c)
        BY DEF Event
      <3> QED BY <3>1 DEF SInv, CallsInv, NoneRestored
    <2>3. OutstandingAlone'
      BY <1>4, <1>8, <1>9 DEF SInv, CallsInv, OutstandingAlone
    <2> QED BY <2>1, <2>2, <2>3 DEF CallsInv
  <1>11. TableMatchesNode'
    <2>1. ASSUME NEW d \in Calls, d # c
          PROVE  /\ Outstanding(d)' => Shown(rows'[call'[d].hash]) \in {"INIT", "PENDING"}
                 /\ call'[d].pc = "sent" /\ ~Unreported(d)' => Shown(rows'[call'[d].hash]) = "PAID"
      BY <1>1, <1>3, <1>4, <2>1 DEF SInv, TableMatchesNode
    <2>2. Shown(rows'[call'[c].hash]) \in {"INIT", "PENDING"}
      BY <1>1, <1>2 DEF Live
    <2> QED BY <1>6, <2>1, <2>2 DEF TableMatchesNode
  <1>12. ThreadKnows'
    BY <1>1, <1>9 DEF SInv, ThreadKnows, Live, AttemptPc, HoldsRow
  <1>13. HandledIsRow'
    BY <1>1, HandledEvent DEF SInv, HandledIsRow, HandledHash
  <1> QED BY <1>10, <1>11, <1>12, <1>13 DEF SInv

\* NodeSupervisor looks a row up.  It finds one for every outcome.
LEMMA SupervisorReads ==
  ASSUME SInv, NEW c \in Calls, NEW t \in EventType, onReceive(t, c), GInv'
  PROVE  SInv'
  <1> DEFINE h == call[c].hash
  <1>1. /\ UNCHANGED <<rows, call>> /\ handled = Null /\ Event(t, c) \in mailbox
        /\ \/ mailbox' = mailbox /\ handled' = [event |-> Event(t, c), ref |-> rows[h].row]
           \/ mailbox' = mailbox \ {Event(t, c)} /\ handled' = Null /\ rows[h].row = Null
    BY DEF onReceive, getPayment
  <1>2. \A d \in Calls : Unreported(d)' <=> Unreported(d)
    <2>1. CASE mailbox' = mailbox
      BY <2>1 DEF Unreported
    <2>2. CASE mailbox' = mailbox \ {Event(t, c)} /\ rows[h].row = Null
      <3>1. ~Outstanding(c)
        BY <2>2, NullAssumption DEF SInv, TableMatchesNode, Shown, Status
      <3>2. t \notin {"PaymentSent", "PaymentFailed"}
        BY <1>1, <3>1 DEF Outstanding, Unreported
      <3> QED BY <2>2, <3>2 DEF Unreported, Event
    <2> QED BY <1>1, <2>1, <2>2
  <1>3. \A d \in Calls : Outstanding(d)' <=> Outstanding(d)
    BY <1>1, <1>2 DEF Outstanding, EnRoute
  <1>4. \A d \in Calls : Alone(d)' <=> Alone(d)
    BY <1>1, <1>3 DEF Alone, SameInvoice
  <1>5. CallsInv'
    BY <1>1, <1>3, <1>4 DEF SInv, CallsInv, OneThread, NoneRestored, OutstandingAlone
  <1>6. TableMatchesNode'
    BY <1>1, <1>2, <1>3 DEF SInv, TableMatchesNode
  <1>7. ThreadKnows'
    BY <1>1, <1>4 DEF SInv, ThreadKnows, Live
  <1>8. HandledIsRow'
    BY <1>1 DEF HandledIsRow, HandledHash, Event
  <1> QED BY <1>5, <1>6, <1>7, <1>8 DEF SInv

\* A handler's write preserves the invariant: an outcome is the outcome of the
\* only attempt for its invoice, and a stale signature event, of an attempt
\* that has ended, can at most make the row of a newer attempt PENDING.
LEMMA SupervisorWrites ==
  ASSUME SInv, NEW c \in Calls, Finishes(c), GInv'
  PROVE  SInv'
  <1> DEFINE h == call[c].hash
  <1>0. /\ rows \in [Hashes -> Entry]
        /\ UNCHANGED call /\ mailbox' = mailbox \ {handled.event} /\ handled' = Null
        /\ handled # Null /\ handled.event \in mailbox /\ handled.event.call = c
        /\ handled.ref \in Ids /\ h \in Hashes
    BY FinishEffect DEF SInv, GInv, TypeOK
  <1>1. handled.ref = rows[h].row /\ rows[h].status[handled.ref] = Shown(rows[h])
    BY <1>0, NullAssumption DEF SInv, HandledIsRow, HandledHash, Shown
  <1>2. ~ReceiveChannelRestored(c)
    BY <1>0 DEF SInv, CallsInv, NoneRestored, ReceiveChannelRestored, Receive
  <1>3. \A d \in Calls : d # c => (Unreported(d)' <=> Unreported(d))
    BY <1>0 DEF Unreported, Event
  <1>4. \A d \in Calls : (Unreported(d)' => Unreported(d)) /\ (Outstanding(d)' => Outstanding(d))
    BY <1>0 DEF Unreported, Outstanding, EnRoute
  <1>5. \A d \in Calls : Alone(d) => Alone(d)'
    BY <1>0, <1>4 DEF Alone, SameInvoice
  <1>6. CallsInv'
    BY <1>0, <1>4, <1>5 DEF SInv, CallsInv, OneThread, NoneRestored, OutstandingAlone
  <1>7. HandledIsRow'
    BY <1>0 DEF HandledIsRow
  <1>8. \A d \in Calls : call[d].pc # "unused" => call[d].hash \in Hashes
    BY DEF SInv, GInv, StartedHasHash
  <1>9. CASE ReceiveSignatureSent(c)
    <2>1. \A d \in Calls : Unreported(d)' <=> Unreported(d)
      BY <1>0, <1>9 DEF Unreported, Event, ReceiveSignatureSent, Receive
    <2>2. \A d \in Calls : Outstanding(d)' <=> Outstanding(d)
      BY <1>0, <2>1 DEF Outstanding, EnRoute
    <2>3. CASE rows' = rows
      BY <1>0, <1>5, <1>6, <1>7, <2>1, <2>2, <2>3 DEF SInv, TableMatchesNode, ThreadKnows, Live
    <2>4. CASE rows' # rows
      <3>1. Shown(rows[h]) = "INIT" /\ rows' = [rows EXCEPT ![h] = save(@, handled.ref, "PENDING")]
        BY <1>1, <1>9, <2>4, FinishEffect DEF SInv
      <3>2. /\ Shown(rows'[h]) = "PENDING" /\ rows'[h].row = rows[h].row
            /\ \A k \in Hashes : k # h => rows'[k] = rows[k]
        <4>1. "PENDING" \in Status
          BY DEF Status
        <4>2. /\ rows \in [Hashes -> Entry] /\ h \in Hashes /\ handled.ref \in Ids
          BY <1>0
        <4>3. /\ Shown(rows'[h]) = "PENDING" /\ rows'[h].row = handled.ref
              /\ \A k \in Hashes : k # h => rows'[k] = rows[k]
          BY <3>1, <4>1, <4>2, SaveEffect
        <4> QED BY <1>1, <4>3
      <3>3. \A k \in Hashes :
               /\ rows'[k].row = rows[k].row
               /\ Shown(rows[k]) \in {"INIT", "PENDING"} => Shown(rows'[k]) \in {"INIT", "PENDING"}
               /\ Shown(rows[k]) \in {"PAID", "FAILED"} => Shown(rows'[k]) = Shown(rows[k])
        BY <3>1, <3>2
      <3>4. \A d \in Calls : Outstanding(d) \/ call[d].pc = "sent" => call[d].hash \in Hashes
        BY <1>8, ThreadNotOutstanding DEF SInv
      <3>5. TableMatchesNode'
        BY <1>0, <2>1, <2>2, <3>3, <3>4 DEF SInv, TableMatchesNode
      <3>6. ThreadKnows'
        BY <1>0, <1>5, <1>8, <3>3 DEF SInv, ThreadKnows, Live, HoldsRow
      <3> QED BY <1>6, <1>7, <3>5, <3>6 DEF SInv
    <2> QED BY <2>3, <2>4
  <1>10. CASE ReceivePaymentFailed(c) \/ ReceivePaymentSent(c)
    <2>1. Outstanding(c) /\ Alone(c) /\ Live(h)
      BY <1>0, <1>10 DEF ReceivePaymentFailed, ReceivePaymentSent, Receive, Outstanding, Unreported,
                         SInv, CallsInv, OutstandingAlone, TableMatchesNode, Live
    <2>2. PICK s \in {"PAID", "FAILED"} :
            /\ rows' = [rows EXCEPT ![h] = save(@, handled.ref, s)]
            /\ call[c].pc = "sent" => s = "PAID"
      <3>1. Shown(rows[h]) # "PAID"
        BY <2>1 DEF Live
      <3>2. CASE ReceivePaymentFailed(c)
        BY <1>1, <3>1, <3>2, FinishEffect, FinishPc DEF SInv
      <3>3. CASE ReceivePaymentSent(c)
        BY <3>3, FinishEffect DEF SInv
      <3> QED BY <1>10, <3>2, <3>3
    <2>3. /\ Shown(rows'[h]) = s /\ rows'[h].row = rows[h].row
          /\ \A k \in Hashes : k # h => rows'[k] = rows[k]
      <3>1. s \in Status
        BY DEF Status
      <3>2. /\ rows \in [Hashes -> Entry] /\ h \in Hashes /\ handled.ref \in Ids
        BY <1>0
      <3>3. /\ Shown(rows'[h]) = s /\ rows'[h].row = handled.ref
            /\ \A k \in Hashes : k # h => rows'[k] = rows[k]
        BY <2>2, <3>1, <3>2, SaveEffect
      <3> QED BY <1>1, <3>3
    <2>4. ~Outstanding(c)'
      <3>1. call[c].pc \in {"sent", "failed"}
        BY <1>10, FinishPc DEF SInv
      <3>2. ~(Event("PaymentSent", c) \in mailbox /\ Event("PaymentFailed", c) \in mailbox)
        BY DEF SInv, GInv, EventsReal
      <3>3. ~Unreported(c)'
        BY <1>0, <1>10, <3>2 DEF Unreported, ReceivePaymentFailed, ReceivePaymentSent, Receive
      <3> QED BY <1>0, <3>1, <3>3 DEF Outstanding, EnRoute
    <2>5. \A d \in Calls : d # c /\ call[d].hash = h => ~Outstanding(d) /\ call[d].pc # "sent"
      BY <2>1 DEF Alone, SameInvoice
    <2>6. TableMatchesNode'
      <3>1. ASSUME NEW d \in Calls
            PROVE  /\ Outstanding(d)' => Shown(rows'[call'[d].hash]) \in {"INIT", "PENDING"}
                   /\ call'[d].pc = "sent" /\ ~Unreported(d)' => Shown(rows'[call'[d].hash]) = "PAID"
        <4>1. CASE d = c
          BY <1>0, <2>2, <2>3, <2>4, <4>1
        <4>2. CASE d # c /\ call[d].hash = h
          BY <1>0, <1>4, <2>5, <4>2
        <4>3. CASE d # c /\ call[d].hash # h
          <5>1. Outstanding(d) \/ call[d].pc = "sent" => call[d].hash \in Hashes
            BY <1>8, ThreadNotOutstanding DEF SInv
          <5> QED BY <1>0, <1>3, <1>4, <2>3, <4>3, <5>1 DEF SInv, TableMatchesNode
        <4> QED BY <4>1, <4>2, <4>3
      <3> QED BY <3>1 DEF TableMatchesNode
    <2>7. ThreadKnows'
      <3>1. ASSUME NEW d \in Calls, call[d].pc \in ThreadPc
            PROVE  /\ call[d].hash \in Hashes
                   /\ call[d].pc \in {"retry", "send"} => call[d].hash # h
        <4>1. call[d].hash \in Hashes
          BY <1>8, <3>1 DEF ThreadPc
        <4>2. call[d].pc = "retry" => call[d].hash # h
          BY <2>1 DEF SInv, ThreadKnows, Live
        <4>3. call[d].pc = "send" => call[d].hash # h
          <5>1. SUFFICES ASSUME call[d].pc = "send", call[d].hash = h PROVE FALSE
            OBVIOUS
          <5>2. d # c
            BY <1>10, <5>1, FinishPc DEF SInv
          <5> QED BY <2>1, <5>1, <5>2 DEF SInv, ThreadKnows, Alone, SameInvoice
        <4> QED BY <4>1, <4>2, <4>3
      <3>2. \A k \in Hashes : rows'[k].row = rows[k].row
        BY <2>3
      <3> QED BY <1>0, <1>5, <2>3, <3>1, <3>2 DEF SInv, ThreadKnows, Live, HoldsRow, ThreadPc
    <2> QED BY <1>6, <1>7, <2>6, <2>7 DEF SInv
  <1> QED BY <1>2, <1>9, <1>10 DEF Finishes

\* With one thread at a time and no death of the process, every step preserves
\* the invariant.
LEMMA SInvStep ==
  ASSUME Overlap = FALSE, MaxRestarts = 0, SInv, [Next]_vars
  PROVE  SInv'
  <1>0. GInv' /\ GInv
    BY GInvStep DEF SInv
  <1>1. ~Restart
    BY PaymentsAssumption DEF Restart, SInv, GInv, TypeOK
  <1>2. ASSUME UNCHANGED <<rows, call, mailbox, handled>>
        PROVE  SInv'
    <2>1. \A d \in Calls : Unreported(d)' <=> Unreported(d)
      BY <1>2 DEF Unreported
    <2>2. \A d \in Calls : Outstanding(d)' <=> Outstanding(d)
      BY <1>2, <2>1 DEF Outstanding, EnRoute
    <2>3. \A d \in Calls : Alone(d)' <=> Alone(d)
      BY <1>2, <2>2 DEF Alone, SameInvoice
    <2>4. CallsInv'
      BY <1>2, <2>2, <2>3 DEF SInv, CallsInv, OneThread, NoneRestored, OutstandingAlone
    <2>5. TableMatchesNode'
      BY <1>2, <2>1, <2>2 DEF SInv, TableMatchesNode
    <2>6. ThreadKnows'
      BY <1>2, <2>3 DEF SInv, ThreadKnows, Live
    <2>7. HandledIsRow'
      BY <1>2 DEF SInv, HandledIsRow, HandledHash
    <2> QED BY <1>0, <2>4, <2>5, <2>6, <2>7 DEF SInv
  <1>3. ASSUME NEW h \in Hashes, OpenForm(h) \/ CloseForm(h)
        PROVE  SInv'
    BY <1>2, <1>3 DEF OpenForm, CloseForm
  <1>4. ASSUME NEW c \in Calls, NEW h \in Hashes, sendLNPayment(c, h)
        PROVE  SInv'
    <2>1. /\ call'[c] = [pc |-> "lookup", hash |-> h, ref |-> Null]
          /\ \A d \in Calls : d # c => call'[d] = call[d]
          /\ call[c].pc = "unused"
          /\ \A d \in Calls : call[d].pc \notin ThreadPc
          /\ UNCHANGED <<rows, mailbox, handled>>
      BY <1>4 DEF sendLNPayment, SInv, GInv, TypeOK
    <2>2. ~Outstanding(c) /\ ~Outstanding(c)'
      <3>1. ~Outstanding(c)
        BY <1>0, <2>1, ThreadNotOutstanding
      <3> QED BY <2>1, <3>1 DEF Outstanding, EnRoute, Unreported
    <2>3. \A d \in Calls : Unreported(d)' <=> Unreported(d)
      BY <2>1 DEF Unreported
    <2>4. \A d \in Calls : Outstanding(d)' <=> Outstanding(d)
      BY <2>1, <2>2, <2>3 DEF Outstanding, EnRoute
    <2>5. \A d \in Calls : d # c /\ Alone(d) => Alone(d)'
      BY <2>1, <2>2, <2>4 DEF Alone, SameInvoice
    <2>6. CallsInv'
      BY <2>1, <2>2, <2>4, <2>5 DEF SInv, CallsInv, OneThread, NoneRestored, OutstandingAlone
    <2>7. TableMatchesNode'
      BY <2>1, <2>2, <2>3, <2>4 DEF SInv, TableMatchesNode
    <2>8. ThreadKnows'
      BY <2>1 DEF ThreadKnows, ThreadPc, HoldsRow
    <2>9. HandledIsRow'
      <3>1. handled # Null => handled.event.call # c
        BY ZenonT(40), <1>0, <2>1, HandledEvent
           DEF GInv, EventsReal, TypeOK, Events, Event, EventType
      <3>2. handled # Null => HandledHash' = HandledHash
        BY <1>0, <2>1, <3>1, HandledEvent DEF HandledHash
      <3> QED BY <2>1, <3>2 DEF SInv, HandledIsRow
    <2> QED BY <1>0, <2>6, <2>7, <2>8, <2>9 DEF SInv
  <1>5. ASSUME NEW c \in Calls, Lookup(c)
        PROVE  SInv'
    <2> DEFINE p == rows[call[c].hash].row
    <2>1. /\ call' = [call EXCEPT ![c].ref = p, ![c].pc = IF p = Null THEN "insert" ELSE "checkBusy"]
          /\ UNCHANGED <<rows, mailbox, handled>> /\ call[c].pc = "lookup"
      BY <1>5 DEF Lookup, getPayment
    <2> HIDE DEF p
    <2>2. /\ call'[c].pc = IF p = Null THEN "insert" ELSE "checkBusy"
          /\ call'[c].ref = p
          /\ \A d \in Calls : call'[d].hash = call[d].hash
          /\ \A d \in Calls : d # c => call'[d] = call[d]
      BY <1>0, <2>1 DEF GInv, TypeOK, CallState
    <2>3. call'[c].pc \in HoldsRow => call'[c].ref = rows[call[c].hash].row
      BY <2>2 DEF p
    <2>4. call'[c].pc = "insert" => rows[call[c].hash].row = Null
      BY <2>2 DEF p
    <2>5. /\ call'[c].pc \in ThreadPc \cup {"aborted"} /\ call[c].pc \in ThreadPc
          /\ call'[c].pc # "retry" /\ call'[c].pc # "send"
      BY <2>1, <2>2 DEF ThreadPc
    <2> QED BY <1>0, <2>1, <2>2, <2>3, <2>4, <2>5, ThreadReads
  <1>6. ASSUME NEW c \in Calls, CheckBusy(c) \/ CheckPaid(c) \/ CheckFailed(c)
        PROVE  SInv'
    <2>1. /\ UNCHANGED <<rows, mailbox, handled>>
          /\ call[c].pc \in ThreadPc /\ call[c].pc \in HoldsRow
      BY <1>6 DEF CheckBusy, CheckPaid, CheckFailed, ThreadPc, HoldsRow
    <2>2. PICK p \in {"checkPaid", "checkFailed", "retry", "aborted"} :
            Goto(c, p) /\ (p = "retry" => StatusOf(c) = "FAILED")
      BY <1>6 DEF CheckBusy, CheckPaid, CheckFailed, Abort
    <2>3. /\ call'[c].pc = p
          /\ \A d \in Calls : call'[d].hash = call[d].hash /\ call'[d].ref = call[d].ref
          /\ \A d \in Calls : d # c => call'[d] = call[d]
      BY <1>0, <2>2 DEF Goto, GInv, TypeOK, CallState
    <2>4. call[c].ref \in Ids /\ call[c].ref = rows[call[c].hash].row
      BY <2>1 DEF SInv, GInv, HeldRow, ThreadKnows
    <2>5. StatusOf(c) = Shown(rows[call[c].hash])
      BY <2>4, NullAssumption DEF StatusOf, Shown
    <2> QED BY <1>0, <2>1, <2>2, <2>3, <2>4, <2>5, ThreadReads DEF ThreadPc
  <1>7. ASSUME NEW c \in Calls, Retry(c) \/ Insert(c)
        PROVE  SInv'
    BY <1>0, <1>7, ThreadWrites
  <1>8. ASSUME NEW c \in Calls, Send(c) \/ Node(c)
        PROVE  SInv'
    BY <1>0, <1>8, AttemptMoves
       DEF Send, Node, NodeSignsHtlc, NodeFails, NodeSucceeds, Publish, AttemptPc, EnRoute
  <1>9. ASSUME NEW c \in Calls, Supervisor(c)
        PROVE  SInv'
    BY <1>0, <1>9, SupervisorReads, SupervisorWrites DEF Supervisor
  <1>10. CASE UNCHANGED vars
    BY <1>2, <1>10 DEF vars
  <1> QED BY <1>1, <1>3, <1>4, <1>5, <1>6, <1>7, <1>8, <1>9, <1>10 DEF Next, SendThread

\* The initial state satisfies the invariant.
LEMMA SInvInit == Init => SInv
  BY GInvInit
     DEF Init, SInv, CallsInv, OneThread, NoneRestored, OutstandingAlone, Outstanding, EnRoute,
         Unreported, TableMatchesNode, ThreadKnows, ThreadPc, HoldsRow, HandledIsRow

\* The invariant holds of every behaviour in which threads do not overlap and
\* the process does not die.
LEMMA SInvariant ==
  ASSUME Overlap = FALSE, MaxRestarts = 0
  PROVE  Spec => []SInv
  <1>1. SInv /\ [Next]_vars => SInv'
    BY SInvStep
  <1> QED BY <1>1, SInvInit, PTL DEF Spec

\* If sendLNPayment threads never overlap within one life of the process, an
\* invoice is never en route twice and never sent again once paid, whatever
\* the order of the node's events.
THEOREM NeverSentTwice ==
  ASSUME Overlap = FALSE, MaxRestarts = 0
  PROVE  Spec => []NoDuplicateAttempt
  <1>1. SInv => NoDuplicateAttempt
    BY DEF SInv, CallsInv, OutstandingAlone, Alone, Outstanding, NoDuplicateAttempt
  <1> QED BY <1>1, SInvariant, PTL

\* Under the same conditions what the table shows of an invoice is what the
\* node has reported of it.
THEOREM TableTruthful ==
  ASSUME Overlap = FALSE, MaxRestarts = 0
  PROVE  Spec => []TableMatchesNode
  <1>1. SInv => TableMatchesNode
    BY DEF SInv
  <1> QED BY <1>1, SInvariant, PTL

\* Under the same conditions a paid payment stays paid: the status a thread
\* writes over the row it read earlier is never stale.
THEOREM PaidForGood ==
  ASSUME Overlap = FALSE, MaxRestarts = 0
  PROVE  Spec => PaidIsFinal
  <1> DEFINE Kept == \A h \in Hashes : Shown(rows[h]) = "PAID" => Shown(rows'[h]) = "PAID"
  <1>1. ASSUME SInv, [Next]_vars PROVE Kept
    <2>0. GInv /\ rows \in [Hashes -> Entry]
      BY <1>1 DEF SInv, GInv, TypeOK
    <2>1. CASE rows' = rows
      BY <2>1
    <2>2. ~Restart
      BY <1>1, PaymentsAssumption DEF Restart, SInv, GInv, TypeOK
    <2>3. ASSUME NEW c \in Calls, SendThread(c), rows' # rows
          PROVE  Kept
      <3>1. Shown(rows[call[c].hash]) # "PAID"
        BY <1>1, <2>0, <2>3, ThreadRows, NullAssumption
           DEF Retry, Insert, SInv, ThreadKnows, Shown, Status
      <3> QED BY <2>0, <2>3, <3>1, ThreadRows
    <2>4. ASSUME NEW c \in Calls, Finishes(c), rows' # rows
          PROVE  Kept
      <3> DEFINE h == call[c].hash
      <3>1. h \in Hashes /\ handled # Null /\ handled.ref \in Ids /\ HandledHash = h
        BY <2>0, <2>4, FinishEffect DEF HandledHash
      <3>2. Shown(rows[h]) = "PAID" => rows[h].status[handled.ref] = "PAID"
        BY <2>0, <3>1, NullAssumption DEF GInv, HandlerKnows, Shown, Status
      <3>3. PICK s \in Status : /\ rows' = [rows EXCEPT ![h] = save(@, handled.ref, s)]
                                /\ Shown(rows[h]) = "PAID" => s = "PAID"
        BY <2>0, <2>4, <3>2, FinishEffect DEF Finishes, Status
      <3>4. Shown(rows'[h]) = s /\ \A k \in Hashes : k # h => rows'[k] = rows[k]
        BY ZenonT(40), <2>0, <3>1, <3>3, SaveEffect
      <3> QED BY <3>3, <3>4
    <2> QED BY <1>1, <2>1, <2>2, <2>3, <2>4, OtherRows
  <1> QED BY <1>1, SInvariant, PTL DEF Spec, PaidIsFinal
=============================================================================
