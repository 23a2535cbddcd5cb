--------------------------- MODULE MCReceivePayment ---------------------------
EXTENDS ReceivePayment

(* One entry, which differs from the default in both parts. *)
MCEntries == {[desc |-> "own", amount |-> 1]}
==============================================================================
