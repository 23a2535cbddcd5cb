---------------------------- MODULE BackupChoice ----------------------------
(***************************************************************************)
(* How RestoreChannelsBackupActivity chooses among the channels backups it *)
(* has found, one at most per source.                                      *)
(*                                                                         *)
(* A backup that could be read is the local commitment index of each of    *)
(* its channels, and the date of its file.  Restoring one that is not the  *)
(* latest can cost the user the funds of a channel.                        *)
(***************************************************************************)
EXTENDS Integers, FiniteSets, SequencesExt

BackupTypes == {"LOCAL", "GDRIVE"}

BackupScanOk(commits, date) ==
  [kind |-> "ok", localCommitIndexMap |-> commits, lastModified |-> date]

BackupScanFailure == [kind |-> "failure"]

NotFound == [kind |-> "notFound"]

\* The score of a comparison is a short, which counts this many channels exactly.
MaxShort == 32767

\* The local commitment index of each channel of a backup.
CommitIndexMap(m) ==
  /\ IsFiniteSet(DOMAIN m) /\ Cardinality(DOMAIN m) <= MaxShort
  /\ \A c \in DOMAIN m : m[c] \in Nat

IsOk(scan) == scan.kind = "ok"

\* The orders in which the sort may leave the entries of a scan result.  It
\* starts from the order of a HashMap, and leaves equal dates as they are.
sortBackupDateDesc(scans) ==
  {order \in SetToSeqs(DOMAIN scans) :
     \A i, j \in DOMAIN order : i < j /\ IsOk(scans[order[j]]) =>
       /\ IsOk(scans[order[i]])
       /\ scans[order[i]].lastModified >= scans[order[j]].lastModified}

\* Mutant: the differences are counted the wrong way round.
ScoreReversed(best, challenger) ==
  LET common == DOMAIN best \cap DOMAIN challenger IN
  Cardinality({c \in common : best[c] > challenger[c]})
    - Cardinality({c \in common : best[c] < challenger[c]})

\* On how many more channels is the challenger ahead than behind?
Score(best, challenger) ==
  LET common == DOMAIN best \cap DOMAIN challenger IN
  Cardinality({c \in common : best[c] < challenger[c]})
    - Cardinality({c \in common : best[c] > challenger[c]})

\* Mutant: a challenger that is not behind is better.
BeatsOnTie(challenger, best) ==
  /\ DOMAIN best \subseteq DOMAIN challenger
  /\ Score(best, challenger) >= 0

\* The challenger replaces the best backup yet only if it has all of its
\* channels and is ahead of it.
Beats(challenger, best) ==
  /\ DOMAIN best \subseteq DOMAIN challenger
  /\ Score(best, challenger) > 0

\* The source that is kept once the entry of source t has been considered.
Better(scans, best, t) ==
  IF ~IsOk(scans[t]) THEN best
  ELSE IF best = "none" THEN t
  ELSE IF Beats(scans[t].localCommitIndexMap, scans[best].localCommitIndexMap) THEN t
  ELSE best

\* The source whose backup is chosen when the entries are in the given order,
\* or "none".
Best(scans, order) ==
  LET after[n \in 0 .. Len(order)] ==
        IF n = 0 THEN "none" ELSE Better(scans, after[n - 1], order[n])
  IN  after[Len(order)]

\* The possible results: a source, "none", or "unreadable" for the exception.
findBestBackup(scans) ==
  IF \E t \in DOMAIN scans : scans[t].kind = "failure"
  THEN {"unreadable"}
  ELSE {Best(scans, order) : order \in sortBackupDateDesc(scans)}

-----------------------------------------------------------------------------
\* Backup x has every channel of y, none behind and one ahead.
Dominates(x, y) ==
  /\ DOMAIN y \subseteq DOMAIN x
  /\ \A c \in DOMAIN y : x[c] >= y[c]
  /\ \E c \in DOMAIN y : x[c] > y[c]
=============================================================================
