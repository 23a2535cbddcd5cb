----------------------------- MODULE AtomicStore -----------------------------
(***************************************************************************)
(* What a database file promises to the connections that use it: its       *)
(* content is one image, a transaction replaces it in one step, and a loss *)
(* of power can undo at most the last transaction, as a whole, and only    *)
(* until the store has been made secure again.  The content of page 1 is   *)
(* the change counter, that of another page the number of the transaction  *)
(* that wrote it.  Pager is shown to implement this specification.         *)
(***************************************************************************)
EXTENDS Naturals

CONSTANTS Pages,     \* page numbers; 1 is the page with the change counter
          MaxTxn     \* bound on the number of transactions

VARIABLES img,       \* the committed image
          prev       \* the image a loss of power may bring back

Init == /\ img = [p \in Pages |-> 0]
        /\ prev = img

(* A transaction writes some pages and increments the change counter. *)
Commit == \E S \in SUBSET (Pages \ {1}), t \in 1 .. MaxTxn :
             /\ S # {}
             /\ \A p \in Pages : img[p] # t \/ p = 1
             /\ img' = [p \in Pages |-> IF p = 1 THEN img[1] + 1
                                        ELSE IF p \in S THEN t ELSE img[p]]
             /\ prev' = img

(* The last transaction can no longer be lost. *)
Secure == img' = img /\ prev' = img

(* The power fails and the last transaction is undone. *)
Lose == img' = prev /\ prev' = prev

Next == Commit \/ Secure \/ Lose

Spec == Init /\ [][Next]_<<img, prev>>
==============================================================================
