----------------------------- MODULE MCBackups -----------------------------
(* Model checking of Backups.  Runs are interchangeable, and so are         *)
(* channels.                                                                *)
EXTENDS Backups, TLC

CONSTANTS k1, k2, w1, w2

TwoChannels == {k1, k2}
OneRun == {w1}
TwoRuns == {w1, w2}

Symmetry == Permutations(TwoChannels) \cup Permutations(TwoRuns)
=============================================================================
