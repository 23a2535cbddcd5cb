--------------------------- MODULE MCOnchainPayments ---------------------------
EXTENDS OnchainPayments

(* A receipt of two and a payment of one out of it. *)
MCTxs == {"in", "out"}
MCDelta == [t \in MCTxs |-> IF t = "in" THEN 2 ELSE -1]
MCSpends == [t \in MCTxs |-> IF t = "out" THEN {"in"} ELSE {}]
==============================================================================
