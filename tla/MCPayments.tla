----------------------------- MODULE MCPayments -----------------------------
(* Model checking of Payments: small sets of model values, and the          *)
(* symmetries that hold because these are only compared for equality.       *)
EXTENDS Payments, TLC

CONSTANTS h1, h2, p1, p2, p3, c1, c2, c3

OneHash == {h1}
TwoHashes == {h1, h2}
TwoIds == {p1, p2}
ThreeIds == {p1, p2, p3}
TwoCalls == {c1, c2}
ThreeCalls == {c1, c2, c3}

Symmetry == Permutations(TwoHashes) \cup Permutations(ThreeIds) \cup Permutations(ThreeCalls)
=============================================================================
