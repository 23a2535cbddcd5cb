---------------------------- MODULE PaymentStore ----------------------------
(***************************************************************************)
(* The Lightning rows of the application's payment table, and the          *)
(* operations of DBHelper on them.                                         *)
(*                                                                         *)
(* The table has a unique index on (type, reference), so a payment hash    *)
(* has at most one row; a row keeps the one column the code branches on,   *)
(* the status.  GreenDAO's session hands every reader the same Payment     *)
(* object for a row, and saves an object with INSERT OR REPLACE: saving a  *)
(* second object for the same hash deletes the first one's row, while the  *)
(* threads that hold the first object keep it and may save it again.       *)
(*                                                                         *)
(* The entry of a hash is therefore the set of Payment objects that exist  *)
(* for it, with their statuses, and the one that is its row.               *)
(***************************************************************************)

CONSTANTS
  Hashes,    \* payment hashes
  Ids,       \* Payment objects of one hash, named by the id they are saved under
  Null       \* no object, no hash, no event

Status == {"INIT", "PENDING", "PAID", "FAILED"}

ASSUME NullAssumption ==
  /\ Null \notin Ids
  /\ Null \notin Hashes
  /\ Null \notin Status

Entry == [row : Ids \cup {Null}, status : [Ids -> Status \cup {Null}]]

NoEntry == [row |-> Null, status |-> [i \in Ids |-> Null]]

\* getPayment(e) is the object of the row, or Null.  The status of an object
\* is that of its row for as long as it is the row: every write is a save.
getPayment(e) == e.row

Shown(e) == IF e.row = Null THEN Null ELSE e.status[e.row]

\* insertOrReplace: object i is given status s and becomes the row.
save(e, i, s) == [row |-> i, status |-> [e.status EXCEPT ![i] = s]]

Fresh(e) == {i \in Ids : e.status[i] = Null}

\* Mutants of updatePaymentFailed: no guard; only a pending, only an initial
\* payment can fail.
updatePaymentFailedNoGuard(e, i) == save(e, i, "FAILED")

updatePaymentFailedIfPending(e, i) ==
  IF e.status[i] = "PENDING" THEN save(e, i, "FAILED") ELSE e

\* A paid payment is never downgraded; the other statuses are overwritten.
updatePaymentFailed(e, i) == IF e.status[i] = "PAID" THEN e ELSE save(e, i, "FAILED")

updatePaymentPending(e, i) == IF e.status[i] = "PAID" THEN e ELSE save(e, i, "PENDING")

updatePaymentPaid(e, i) == save(e, i, "PAID")

\* Run once per process, before the node is started: a row still in INIT is
\* removed, be it SENT or RECEIVED, and the session forgets its objects.
cleanLightningPayments(e) ==
  IF Shown(e) \in {Null, "INIT"}
  THEN NoEntry
  ELSE [e EXCEPT !.status = [i \in Ids |-> IF i = e.row THEN e.status[i] ELSE Null]]
=============================================================================
