---------------------------- MODULE BackupProofs ----------------------------
(***************************************************************************)
(* The channels backup: the choice of the backup to restore, for backups   *)
(* of as many channels as a short counts; the worker that writes the       *)
(* backups (Backups) and the screen that restores one (RestoreBackup),     *)
(* each with its inductive invariant.                                      *)
(***************************************************************************)
EXTENDS Backups, RestoreBackup, FiniteSetTheorems, SequenceTheorems, TLAPS

\* A challenger that dominates the best backup yet replaces it (findBestBackup):
\* no dominated backup is kept, however recent its file.
THEOREM DominantWins ==
  ASSUME NEW x, NEW y, CommitIndexMap(x), CommitIndexMap(y), Dominates(x, y)
  PROVE  Beats(x, y)
<1> DEFINE common == DOMAIN y \cap DOMAIN x
           ahead  == {c \in common : y[c] < x[c]}
           behind == {c \in common : y[c] > x[c]}
<1>1. IsFiniteSet(ahead)
  <2>1. ahead \subseteq DOMAIN y
    OBVIOUS
  <2> QED
    BY <2>1, FS_Subset DEF CommitIndexMap
<1>2. ahead # {}
  BY DEF Dominates, CommitIndexMap
<1>3. behind = {}
  BY DEF Dominates, CommitIndexMap
<1>4. Cardinality(behind) = 0
  BY <1>3, FS_EmptySet
<1>5. Cardinality(ahead) \in Nat /\ Cardinality(ahead) # 0
  BY <1>1, <1>2, FS_CardinalityType, FS_EmptySet
<1>6. Score(y, x) = Cardinality(ahead) - Cardinality(behind)
  BY DEF Score
<1>7. Score(y, x) > 0
  <2> HIDE DEF ahead, behind
  <2> QED
    BY <1>4, <1>5, <1>6
<1> QED
  BY <1>7 DEF Beats, Dominates

\* The comparison is asymmetric: the choice between two backups that hold the
\* same channels does not depend on which of them is considered first, unless
\* neither is ahead.
THEOREM BeatsAsymmetric ==
  ASSUME NEW x, NEW y, CommitIndexMap(x), CommitIndexMap(y), Beats(x, y)
  PROVE  ~Beats(y, x)
<1> DEFINE common == DOMAIN y \cap DOMAIN x
           ahead  == {c \in common : y[c] < x[c]}
           behind == {c \in common : y[c] > x[c]}
<1>1. /\ Cardinality(ahead) \in Int
      /\ Cardinality(behind) \in Int
  <2>1. ahead \subseteq DOMAIN y /\ behind \subseteq DOMAIN y
    OBVIOUS
  <2>2. IsFiniteSet(ahead) /\ IsFiniteSet(behind)
    BY <2>1, FS_Subset DEF CommitIndexMap
  <2> QED
    BY <2>2, FS_CardinalityType
<1>2. Score(y, x) = Cardinality(ahead) - Cardinality(behind)
  BY DEF Score
<1>3. /\ behind = {c \in DOMAIN x \cap DOMAIN y : x[c] < y[c]}
      /\ ahead = {c \in DOMAIN x \cap DOMAIN y : x[c] > y[c]}
  BY DEF CommitIndexMap
<1>4. Score(x, y) = Cardinality(behind) - Cardinality(ahead)
  BY <1>3 DEF Score
<1>5. Score(y, x) > 0
  BY DEF Beats
<1>6. ~(Score(x, y) > 0)
  <2> HIDE DEF ahead, behind
  <2> QED
    BY <1>1, <1>2, <1>4, <1>5
<1> QED
  BY <1>6 DEF Beats

-----------------------------------------------------------------------------
\* The orders of the entries of two sources at most (sortBackupDateDesc).
LEMMA OrderOfTwo ==
  ASSUME NEW e, DOMAIN e \subseteq BackupTypes, NEW order \in SetToSeqs(DOMAIN e)
  PROVE  \/ Len(order) = 0 /\ DOMAIN e = {}
         \/ Len(order) = 1 /\ DOMAIN e = {order[1]} /\ DOMAIN order = 1 .. 1
         \/ Len(order) = 2 /\ DOMAIN e = {order[1], order[2]} /\ DOMAIN order = 1 .. 2
<1> DEFINE D == DOMAIN e
           n == Cardinality(D)
<1>1. order \in [1 .. n -> D] /\ \A i, j \in 1 .. n : i # j => order[i] # order[j]
  BY DEF SetToSeqs
<1>2. \/ D = {} /\ n = 0
      \/ (\E x : D = {x}) /\ n = 1
      \/ D = {"LOCAL", "GDRIVE"} /\ n = 2
  <2>1. Cardinality({"LOCAL", "GDRIVE"}) = 2
    <3>1. {"LOCAL", "GDRIVE"} = {"LOCAL"} \cup {"GDRIVE"}
      OBVIOUS
    <3>2. IsFiniteSet({"LOCAL"}) /\ Cardinality({"LOCAL"}) = 1
      BY FS_Singleton
    <3>3. Cardinality({"LOCAL"} \cup {"GDRIVE"}) = Cardinality({"LOCAL"}) + 1
      <4>1. "GDRIVE" \notin {"LOCAL"}
        OBVIOUS
      <4> QED
        BY <3>2, <4>1, FS_AddElement
    <3> QED
      BY <3>1, <3>2, <3>3
  <2>2. D = {} \/ D = {"LOCAL"} \/ D = {"GDRIVE"} \/ D = {"LOCAL", "GDRIVE"}
    BY DEF BackupTypes
  <2> QED
    BY <2>1, <2>2, FS_EmptySet, FS_Singleton
<1>3. n \in Nat => order \in Seq(D) /\ Len(order) = n
  <2> HAVE n \in Nat
  <2> HIDE DEF D, n
  <2>1. order \in Seq(D)
    BY <1>1, SeqDef
  <2>2. DOMAIN order = 1 .. Len(order) /\ Len(order) \in Nat
    BY <2>1, LenProperties
  <2> QED
    BY <1>1, <2>1, <2>2
<1>4. CASE n = 0
  BY <1>1, <1>2, <1>3, <1>4
<1>5. CASE n = 1
  <2>1. PICK x : D = {x}
    <3> HIDE DEF D, n
    <3> QED
      BY <1>2, <1>5
  <2>2. order \in [1 .. 1 -> D] /\ Len(order) = 1
    BY <1>1, <1>3, <1>5
  <2>3. order[1] \in D
    <3> HIDE DEF D
    <3> QED
      BY <2>2
  <2>4. D = {order[1]}
    BY <2>1, <2>3
  <2> QED
    BY <2>2, <2>4
<1>6. CASE n = 2
  <2>1. D = {"LOCAL", "GDRIVE"}
    BY <1>2, <1>6
  <2>2. order \in [1 .. 2 -> D] /\ Len(order) = 2 /\ order[1] # order[2]
    BY <1>1, <1>3, <1>6
  <2>3. order[1] \in D /\ order[2] \in D
    <3> HIDE DEF D
    <3> QED
      BY <2>2
  <2>4. D = {order[1], order[2]}
    BY <2>1, <2>2, <2>3
  <2> QED
    BY <2>2, <2>4
<1> QED
  BY <1>2, <1>4, <1>5, <1>6

\* What the loop of findBestBackup has kept after one entry, and after two.
LEMMA BestOfTwo ==
  ASSUME NEW e, NEW order, Len(order) \in 0 .. 2
  PROVE  /\ Len(order) = 0 => Best(e, order) = "none"
         /\ Len(order) = 1 => Best(e, order) = Better(e, "none", order[1])
         /\ Len(order) = 2 =>
              Best(e, order) = Better(e, Better(e, "none", order[1]), order[2])
<1> DEFINE f1 == Better(e, "none", order[1])
           f2 == Better(e, f1, order[2])
           iter(f, n) == IF n = 0 THEN "none" ELSE Better(e, f[n - 1], order[n])
           after == CHOOSE f : f = [n \in 0 .. Len(order) |-> iter(f, n)]
           w == [n \in 0 .. Len(order) |-> IF n = 0 THEN "none" ELSE IF n = 1 THEN f1 ELSE f2]
<1>1. w = [n \in 0 .. Len(order) |-> iter(w, n)]
  <2>1. \A n \in 0 .. Len(order) : w[n] = iter(w, n)
    BY DEF w
  <2> QED
    BY <2>1
<1>2. after = [n \in 0 .. Len(order) |-> iter(after, n)]
  BY <1>1
<1>3. Best(e, order) = after[Len(order)]
  BY DEF Best
<1> HIDE DEF after
<1>4. after[0] = "none"
  BY <1>2
<1>5. Len(order) >= 1 => after[1] = f1
  BY <1>2, <1>4
<1>6. Len(order) >= 2 => after[2] = f2
  BY <1>2, <1>5
<1>7. /\ Len(order) = 0 => Best(e, order) = "none"
      /\ Len(order) = 1 => Best(e, order) = f1
      /\ Len(order) = 2 => Best(e, order) = f2
  <2> HIDE DEF f1, f2
  <2>1. CASE Len(order) = 0
    <3>1. Best(e, order) = after[0]
      BY <1>3, <2>1
    <3> QED
      BY <1>4, <2>1, <3>1
  <2>2. CASE Len(order) = 1
    <3>1. Best(e, order) = after[1]
      BY <1>3, <2>2
    <3> QED
      BY <1>5, <2>2, <3>1
  <2>3. CASE Len(order) = 2
    <3>1. Best(e, order) = after[2]
      BY <1>3, <2>3
    <3> QED
      BY <1>6, <2>3, <3>1
  <2> QED
    BY <2>1, <2>2, <2>3
<1> QED
  BY <1>7

\* What a scan may have found: from two sources at most, with an index for each
\* channel of a backup that could be read.
ScanResult(e) ==
  /\ DOMAIN e \subseteq BackupTypes
  /\ \A t \in DOMAIN e : IsOk(e[t]) => CommitIndexMap(e[t].localCommitIndexMap)

Map(e, t) == e[t].localCommitIndexMap

\* What findBestBackup keeps is a backup that no other one beats; and it is as
\* recent as any other, or beats it.
LEMMA BestIsKept ==
  ASSUME NEW e, ScanResult(e), NEW order \in sortBackupDateDesc(e)
  PROVE  LET b == Best(e, order) IN
         \/ b = "none" /\ \A t \in DOMAIN e : ~IsOk(e[t])
         \/ /\ b \in DOMAIN e /\ IsOk(e[b])
            /\ \A t \in DOMAIN e : IsOk(e[t]) =>
                 /\ ~Beats(Map(e, t), Map(e, b))
                 /\ \/ t = b
                    \/ e[b].lastModified >= e[t].lastModified
                    \/ Beats(Map(e, b), Map(e, t))
<1> DEFINE b == Best(e, order)
<1>1. DOMAIN e \subseteq BackupTypes /\ order \in SetToSeqs(DOMAIN e)
  BY DEF ScanResult, sortBackupDateDesc
<1>2. \A t \in DOMAIN e : t # "none"
  BY <1>1 DEF BackupTypes
<1>3. \A i, j \in DOMAIN order : i < j /\ IsOk(e[order[j]]) =>
        /\ IsOk(e[order[i]])
        /\ e[order[i]].lastModified >= e[order[j]].lastModified
  BY DEF sortBackupDateDesc
<1>4. \A t \in DOMAIN e : IsOk(e[t]) => ~Beats(Map(e, t), Map(e, t))
  <2> TAKE t \in DOMAIN e
  <2> HAVE IsOk(e[t])
  <2>1. CommitIndexMap(Map(e, t))
    BY DEF ScanResult, Map
  <2> QED
    BY <2>1, BeatsAsymmetric
<1>5. \A s, t \in DOMAIN e :
        IsOk(e[s]) /\ IsOk(e[t]) /\ Beats(Map(e, s), Map(e, t))
          => ~Beats(Map(e, t), Map(e, s))
  <2> TAKE s, t \in DOMAIN e
  <2> HAVE IsOk(e[s]) /\ IsOk(e[t]) /\ Beats(Map(e, s), Map(e, t))
  <2>1. CommitIndexMap(Map(e, s)) /\ CommitIndexMap(Map(e, t))
    BY DEF ScanResult, Map
  <2> QED
    BY <2>1, BeatsAsymmetric
<1>6. CASE Len(order) = 0 /\ DOMAIN e = {}
  BY <1>6, BestOfTwo
<1>7. CASE Len(order) = 1 /\ DOMAIN e = {order[1]} /\ DOMAIN order = 1 .. 1
  <2>1. b = Better(e, "none", order[1])
    BY <1>7, BestOfTwo
  <2>2. CASE IsOk(e[order[1]])
    <3>1. b = order[1]
      BY <2>1, <2>2 DEF Better
    <3> HIDE DEF b
    <3>2. /\ b \in DOMAIN e /\ IsOk(e[b])
          /\ \A t \in DOMAIN e : t = b /\ ~Beats(Map(e, t), Map(e, b))
      BY <1>4, <1>7, <2>2, <3>1
    <3> QED
      BY <3>2 DEF b
  <2>3. CASE ~IsOk(e[order[1]])
    <3>1. b = "none"
      BY <2>1, <2>3 DEF Better
    <3> QED
      BY <1>7, <2>3, <3>1
  <2> QED
    BY <2>2, <2>3
<1>8. CASE Len(order) = 2 /\ DOMAIN e = {order[1], order[2]} /\ DOMAIN order = 1 .. 2
  <2> DEFINE x == order[1]
             y == order[2]
  <2>1. b = Better(e, Better(e, "none", x), y)
    BY <1>8, BestOfTwo
  <2>2. IsOk(e[y]) => IsOk(e[x]) /\ e[x].lastModified >= e[y].lastModified
    <3>1. 1 \in DOMAIN order /\ 2 \in DOMAIN order /\ 1 < 2
      BY <1>8
    <3> QED
      BY <1>3, <3>1
  <2>3. x \in DOMAIN e /\ y \in DOMAIN e /\ \A t \in DOMAIN e : t = x \/ t = y
    BY <1>8
  <2> HIDE DEF x, y, b
  <2>4. x # "none"
    BY <1>2, <2>3
  <2>5. CASE ~IsOk(e[x])
    <3>1. b = "none"
      BY <2>1, <2>2, <2>5 DEF Better
    <3>2. \A t \in DOMAIN e : ~IsOk(e[t])
      BY <2>2, <2>3, <2>5
    <3> QED
      BY <3>1, <3>2 DEF b
  <2>6. CASE IsOk(e[x]) /\ ~IsOk(e[y])
    <3>1. b = x
      BY <2>1, <2>6 DEF Better
    <3>2. /\ b \in DOMAIN e /\ IsOk(e[b])
          /\ \A t \in DOMAIN e : IsOk(e[t]) => t = b /\ ~Beats(Map(e, t), Map(e, b))
      BY <1>4, <2>3, <2>6, <3>1
    <3> QED
      BY <3>2 DEF b
  <2>7. CASE IsOk(e[x]) /\ IsOk(e[y]) /\ Beats(Map(e, y), Map(e, x))
    <3>1. b = y
      BY <2>1, <2>4, <2>7 DEF Better, Map
    <3>2. /\ b \in DOMAIN e /\ IsOk(e[b])
          /\ \A t \in DOMAIN e : IsOk(e[t]) =>
               /\ ~Beats(Map(e, t), Map(e, b))
               /\ t = b \/ Beats(Map(e, b), Map(e, t))
      BY <1>4, <1>5, <2>3, <2>7, <3>1
    <3> QED
      BY <3>2 DEF b
  <2>8. CASE IsOk(e[x]) /\ IsOk(e[y]) /\ ~Beats(Map(e, y), Map(e, x))
    <3>1. b = x
      BY <2>1, <2>4, <2>8 DEF Better, Map
    <3>2. /\ b \in DOMAIN e /\ IsOk(e[b])
          /\ \A t \in DOMAIN e : IsOk(e[t]) =>
               /\ ~Beats(Map(e, t), Map(e, b))
               /\ t = b \/ e[b].lastModified >= e[t].lastModified
      BY <1>4, <2>2, <2>3, <2>8, <3>1
    <3> QED
      BY <3>2 DEF b
  <2> QED
    BY <2>5, <2>6, <2>7, <2>8
<1> QED
  BY <1>1, <1>6, <1>7, <1>8, OrderOfTwo

-----------------------------------------------------------------------------
(***************************************************************************)
(* Backups: the inductive invariant.                                       *)
(***************************************************************************)

\* A later version of the database is nowhere behind an earlier one, as a closed
\* channel is not opened again.
VersionsInv ==
  \A i, j \in DOMAIN versions :
    i <= j => \A c \in DOMAIN versions[i] \cap DOMAIN versions[j] : versions[i][c] <= versions[j][c]

CountInv == completed <= bak + grants

\* Every file was written at a time of its own and holds a version that has been
\* in the .bak file; the one on Google Drive that was written last is known.
FilesInv ==
  /\ \A f \in DOMAIN drive :
       /\ drive[f].content \in 0 .. bak
       /\ drive[f].date \in 1 .. clock /\ drive[f].date # local.date
  /\ local.content \in {Torn} \cup 0 .. bak
  /\ local.date <= clock
  /\ drive # << >> => \E f \in DOMAIN drive : \A g \in DOMAIN drive : drive[f].date >= drive[g].date

\* A run holds a version that has been in the .bak file, updates a file that exists,
\* and has saved nothing before it has read.
RunsInv ==
  \A r \in Runs :
    /\ runs[r].content <= bak /\ runs[r].file \in 0 .. Len(drive)
    /\ runs[r].pc = "read" => ~Successful(r)

\* A run that has read the .bak file.
HasRead(r) == runs[r].pc \notin {"idle", "read"}

Newest == IF local.date > DriveFile.date THEN local ELSE DriveFile

\* Unless runs have overlapped, the one that has read the .bak file holds a version
\* that is not older than any that was saved or reported; and the file that was
\* written last is not older than the other, than what was reported and than what
\* the run is about to report, or else the file on the device is torn.
FreshInv ==
  ~overlapped =>
    /\ \A r, s \in Runs : Running(r) /\ Running(s) => r = s
    /\ \A r \in Runs : HasRead(r) =>
         /\ reported <= runs[r].content /\ local.content <= runs[r].content
         /\ \A f \in DOMAIN drive : drive[f].content <= runs[r].content
         /\ local.content # Torn /\ Successful(r) => runs[r].content <= Newest.content
    /\ local.content # Torn =>
         /\ reported <= Newest.content
         /\ local.content <= Newest.content /\ DriveFile.content <= Newest.content

BackupsInv == TypeOK /\ CountInv /\ VersionsInv /\ FilesInv /\ RunsInv /\ FreshInv

\* The node changes one channel at a time: what it had of another one, or of this
\* one before, is not taken back.
LEMMA ChangeGrows ==
  ASSUME versions \in Seq(Snapshot), NEW new \in Changes(Current)
  PROVE  /\ new \in Snapshot
         /\ \A c \in DOMAIN new : c \in NewChannels \/ (c \in DOMAIN Current /\ Current[c] <= new[c])
<1> DEFINE cur == Current
<1>1. /\ DOMAIN cur \subseteq Channels
      /\ \A c \in DOMAIN cur : cur[c] \in 1 .. MaxIndex
  <2>1. CASE versions = << >>
    <3>1. cur = << >>
      BY <2>1 DEF Current
    <3>2. DOMAIN cur = {}
      BY <3>1
    <3> QED
      BY <3>2
  <2>2. CASE versions # << >>
    <3>1. cur = versions[Len(versions)] /\ Len(versions) \in 1 .. Len(versions)
      BY <2>2, EmptySeq DEF Current, Last
    <3>2. cur \in Snapshot
      BY <3>1, ElementOfSeq
    <3> HIDE DEF cur
    <3> QED
      BY <3>2 DEF Snapshot
  <2> QED
    BY <2>1, <2>2
<1>2. MaxIndex \in Nat \ {0}
  BY BackupsAssumption
<1> HIDE DEF cur
<1>3. \A S \in SUBSET Channels : \A f \in [S -> 1 .. MaxIndex] : f \in Snapshot
  BY DEF Snapshot
<1>4. CASE \E d \in NewChannels : new = [c \in DOMAIN cur \cup {d} |-> IF c = d THEN 1 ELSE cur[c]]
  <2>1. PICK d \in NewChannels : new = [c \in DOMAIN cur \cup {d} |-> IF c = d THEN 1 ELSE cur[c]]
    BY <1>4
  <2>2. d \in Channels
    BY DEF NewChannels
  <2>3. DOMAIN cur \cup {d} \in SUBSET Channels /\ new \in [DOMAIN cur \cup {d} -> 1 .. MaxIndex]
    BY <1>1, <1>2, <2>1, <2>2
  <2>4. \A c \in DOMAIN new : c \in NewChannels \/ (c \in DOMAIN cur /\ cur[c] <= new[c])
    BY <1>1, <2>1
  <2> QED
    BY <1>3, <2>3, <2>4 DEF cur
<1>5. CASE \E d \in {c \in DOMAIN cur : cur[c] < MaxIndex} : new = [cur EXCEPT ![d] = @ + 1]
  <2>1. PICK d \in DOMAIN cur : cur[d] < MaxIndex /\ new = [cur EXCEPT ![d] = @ + 1]
    BY <1>5
  <2>2. DOMAIN new = DOMAIN cur
    BY <2>1
  <2>3. \A c \in DOMAIN cur : new[c] = IF c = d THEN cur[c] + 1 ELSE cur[c]
    BY <2>1
  <2>4. \A c \in DOMAIN cur : new[c] \in 1 .. MaxIndex /\ cur[c] <= new[c]
    BY <1>1, <1>2, <2>1, <2>3
  <2>5. new \in [DOMAIN cur -> 1 .. MaxIndex]
    <3>1. new = [c \in DOMAIN new |-> new[c]]
      BY <2>1
    <3> QED
      BY <2>2, <2>4, <3>1
  <2> QED
    BY <1>1, <1>3, <2>2, <2>4, <2>5 DEF cur
<1>6. CASE \E d \in DOMAIN cur : new = [c \in DOMAIN cur \ {d} |-> cur[c]]
  <2>1. PICK d \in DOMAIN cur : new = [c \in DOMAIN cur \ {d} |-> cur[c]]
    BY <1>6
  <2>2. DOMAIN cur \ {d} \in SUBSET Channels /\ new \in [DOMAIN cur \ {d} -> 1 .. MaxIndex]
    BY <1>1, <2>1
  <2>3. \A c \in DOMAIN new : c \in DOMAIN cur /\ cur[c] <= new[c]
    BY <1>1, <2>1
  <2> QED
    BY <1>3, <2>2, <2>3 DEF cur
<1> QED
  BY <1>4, <1>5, <1>6 DEF Changes, cur

\* The versions of the database after one more change (NodeChanges).
LEMMA NodeChangesKeeps ==
  ASSUME versions \in Seq(Snapshot), VersionsInv, NodeChanges
  PROVE  /\ versions' \in Seq(Snapshot) /\ Len(versions') = Len(versions) + 1
         /\ Len(versions') <= MaxVersions
         /\ VersionsInv'
<1>1. PICK new \in Changes(Current) : versions' = Append(versions, new)
  BY DEF NodeChanges
<1>2. /\ new \in Snapshot
      /\ \A c \in DOMAIN new : c \in NewChannels \/ (c \in DOMAIN Current /\ Current[c] <= new[c])
  BY ChangeGrows
<1> DEFINE n == Len(versions)
<1>3. /\ n \in Nat
      /\ versions' \in Seq(Snapshot) /\ Len(versions') = n + 1
      /\ versions'[n + 1] = new
      /\ \A i \in 1 .. n : versions'[i] = versions[i]
      /\ DOMAIN versions = 1 .. n /\ DOMAIN versions' = 1 .. n + 1
  BY <1>1, <1>2
<1>4. n + 1 <= MaxVersions
  BY <1>3, BackupsAssumption DEF NodeChanges
<1>5. \A i \in 1 .. n : \A c \in DOMAIN versions[i] \cap DOMAIN new : versions[i][c] <= new[c]
  <2> TAKE i \in 1 .. n
  <2> TAKE c \in DOMAIN versions[i] \cap DOMAIN new
  <2>1. c \notin NewChannels
    BY <1>3 DEF NewChannels
  <2>2. Current = versions[n] /\ n \in 1 .. n
    BY <1>3 DEF Current, Last
  <2>3. c \in DOMAIN versions[n] /\ versions[n][c] <= new[c]
    BY <1>2, <2>1, <2>2
  <2>4. versions[i][c] <= versions[n][c]
    BY <1>3, <2>2, <2>3 DEF VersionsInv
  <2>5. versions[i][c] \in Int /\ versions[n][c] \in Int /\ new[c] \in Int
    <3>1. versions[i] \in Snapshot /\ versions[n] \in Snapshot
      BY <2>2, ElementOfSeq
    <3> QED
      BY <1>2, <2>3, <3>1 DEF Snapshot
  <2> QED
    BY <2>3, <2>4, <2>5
<1>6. VersionsInv'
  <2> SUFFICES ASSUME NEW i \in 1 .. n + 1, NEW j \in 1 .. n + 1, i <= j,
                      NEW c \in DOMAIN versions'[i] \cap DOMAIN versions'[j]
               PROVE  versions'[i][c] <= versions'[j][c]
    BY <1>3 DEF VersionsInv
  <2>1. CASE j <= n
    BY <1>3, <2>1 DEF VersionsInv
  <2>2. CASE i <= n /\ j = n + 1
    BY <1>3, <1>5, <2>2
  <2>3. CASE i = n + 1 /\ j = n + 1
    <3>1. new[c] \in Int
      BY <1>2, <1>3, <2>3 DEF Snapshot
    <3> QED
      BY <1>3, <2>3, <3>1
  <2> QED
    BY <1>3, <2>1, <2>2, <2>3
<1> QED
  BY <1>3, <1>4, <1>6

-----------------------------------------------------------------------------
\* The file of filterBestBackup is one of those on Google Drive.
LEMMA DriveFileKnown ==
  ASSUME FilesInv, drive \in Seq(File)
  PROVE  \/ drive = << >> /\ DriveFile = [content |-> None, date |-> 0]
         \/ \E f \in DOMAIN drive : DriveFile = drive[f]
<1>1. CASE drive = << >>
  BY <1>1 DEF DriveFile
<1>2. CASE drive # << >>
  <2> DEFINE Latest(f) == \A g \in DOMAIN drive : drive[f].date >= drive[g].date
  <2>1. \E f \in DOMAIN drive : Latest(f)
    BY <1>2 DEF FilesInv
  <2>2. filterBestBackup = CHOOSE f \in DOMAIN drive : Latest(f)
    BY <1>2 DEF filterBestBackup
  <2>3. filterBestBackup \in DOMAIN drive
    <3> HIDE DEF Latest
    <3> QED
      BY <2>1, <2>2
  <2> QED
    BY <1>2, <2>3 DEF DriveFile
<1> QED
  BY <1>1, <1>2

LEMMA DriveFileTypes ==
  ASSUME FilesInv, TypeOK
  PROVE  /\ DriveFile \in File /\ DriveFile.content \in 0 .. bak
         /\ DriveFile.date \in 0 .. clock
         /\ local.date = DriveFile.date => drive = << >> /\ DriveFile.content = None
<1>1. drive \in Seq(File) /\ bak \in Nat /\ clock \in Nat
  BY DEF TypeOK
<1>2. CASE drive = << >> /\ DriveFile = [content |-> None, date |-> 0]
  BY <1>1, <1>2 DEF File, Content, None
<1>3. CASE \E f \in DOMAIN drive : DriveFile = drive[f]
  <2>1. PICK f \in DOMAIN drive : DriveFile = drive[f]
    BY <1>3
  <2>2. drive[f] \in File
    BY <1>1, ElementOfSeq, LenProperties
  <2> QED
    BY <1>1, <2>1, <2>2 DEF FilesInv
<1> QED
  BY <1>1, <1>2, <1>3, DriveFileKnown

\* What is uploaded is the latest file on Google Drive; the others stay.
LEMMA UploadIsLatest ==
  ASSUME NEW r \in Runs, TypeOK, FilesInv, RunsInv,
         drive' = Uploaded(r), clock' = clock + 1
  PROVE  /\ drive' \in Seq(File) /\ Len(drive) <= Len(drive')
         /\ DriveFile' = [content |-> runs[r].content, date |-> clock + 1]
         /\ \E k \in DOMAIN drive' :
              /\ drive'[k] = [content |-> runs[r].content, date |-> clock + 1]
              /\ \A g \in DOMAIN drive' : g # k => g \in DOMAIN drive /\ drive'[g] = drive[g]
              /\ \A g \in DOMAIN drive' : drive'[k].date >= drive'[g].date
<1> DEFINE new == [content |-> runs[r].content, date |-> clock + 1]
           n == Len(drive)
           k == IF runs[r].file = 0 THEN n + 1 ELSE runs[r].file
<1>1. /\ drive \in Seq(File) /\ n \in Nat /\ DOMAIN drive = 1 .. n /\ clock \in Nat
      /\ runs[r] \in Run /\ runs[r].file \in 0 .. n
  BY LenProperties DEF TypeOK, RunsInv
<1>2. new \in File /\ new.content = runs[r].content /\ new.date = clock + 1
  BY <1>1, BackupsAssumption DEF File, Content, Run, None
<1>3. drive' = IF runs[r].file = 0 THEN Append(drive, new) ELSE [drive EXCEPT ![runs[r].file] = new]
  BY DEF Uploaded
<1> HIDE DEF new
<1>4. /\ drive' \in Seq(File) /\ n <= Len(drive') /\ k \in DOMAIN drive' /\ drive'[k] = new
      /\ \A g \in DOMAIN drive' : g # k => g \in DOMAIN drive /\ drive'[g] = drive[g]
  <2>1. CASE runs[r].file = 0
    BY <1>1, <1>2, <1>3, <2>1
  <2>2. CASE runs[r].file # 0
    <3>1. runs[r].file \in 1 .. n
      BY <1>1, <2>2
    <3> QED
      BY <1>1, <1>2, <1>3, <2>2, <3>1, ExceptSeq
  <2> QED
    BY <2>1, <2>2
<1> HIDE DEF k
<1>5. \A g \in DOMAIN drive' : g # k => drive'[g].date \in Nat /\ drive'[g].date <= clock
  BY <1>1, <1>4 DEF FilesInv
<1>6. \A g \in DOMAIN drive' : drive'[k].date >= drive'[g].date
  BY <1>1, <1>2, <1>4, <1>5
<1>7. drive' # << >>
  BY <1>4
<1>8. filterBestBackup' = k
  <2> DEFINE Latest(f) == \A g \in DOMAIN drive' : drive'[f].date >= drive'[g].date
  <2>1. filterBestBackup' = CHOOSE f \in DOMAIN drive' : Latest(f)
    BY <1>7 DEF filterBestBackup
  <2>2. Latest(k) /\ k \in DOMAIN drive'
    BY <1>4, <1>6
  <2>3. \A f \in DOMAIN drive' : Latest(f) => f = k
    <3> TAKE f \in DOMAIN drive'
    <3> HAVE Latest(f)
    <3>1. drive'[f].date >= drive'[k].date
      BY <1>4
    <3> QED
      BY <1>1, <1>2, <1>4, <1>5, <3>1
  <2> HIDE DEF Latest
  <2> QED
    BY <2>1, <2>2, <2>3
<1>9. DriveFile' = new
  BY <1>4, <1>7, <1>8 DEF DriveFile
<1> QED
  BY <1>4, <1>6, <1>9 DEF new

\* DriveFile depends on the files on Google Drive only.
LEMMA DriveFileStays ==
  ASSUME drive' = drive
  PROVE  DriveFile' = DriveFile
BY DEF DriveFile, filterBestBackup

-----------------------------------------------------------------------------
\* The node and the settings leave the runs and the files alone.
LEMMA QuietKeeps ==
  ASSUME BackupsInv,
         UNCHANGED <<fileVars, queued, runs, overlapped, reported, restarts>>,
         bak' \in Nat, bak <= bak'
  PROVE  FilesInv' /\ RunsInv' /\ FreshInv'
<1>1. DriveFile' = DriveFile
  BY DriveFileStays DEF fileVars
<1>2. bak \in Nat /\ clock \in Nat
  BY DEF BackupsInv, TypeOK
<1>3. FilesInv'
  BY <1>2 DEF BackupsInv, FilesInv, fileVars
<1>4. RunsInv'
  <2>1. \A r \in Runs : runs[r].content \in Nat
    BY BackupsAssumption DEF BackupsInv, TypeOK, Run
  <2> QED
    BY <1>2, <2>1 DEF BackupsInv, RunsInv, Successful, fileVars
<1>5. FreshInv'
  BY <1>1 DEF BackupsInv, FreshInv, Newest, HasRead, Running, Successful, fileVars
<1> QED
  BY <1>3, <1>4, <1>5

LEMMA InvNodeChanges ==
  ASSUME BackupsInv, NodeChanges
  PROVE  BackupsInv'
<1>1. versions \in Seq(Snapshot) /\ VersionsInv /\ bak \in Nat /\ bak <= Len(versions)
  BY DEF BackupsInv, TypeOK
<1>2. /\ versions' \in Seq(Snapshot) /\ Len(versions') = Len(versions) + 1
      /\ Len(versions') <= MaxVersions
      /\ VersionsInv'
  BY <1>1, NodeChangesKeeps
<1>3. FilesInv' /\ RunsInv' /\ FreshInv'
  BY <1>1, QuietKeeps DEF NodeChanges
<1>4. TypeOK'
  <2>1. Len(versions) \in Nat
    BY <1>1
  <2> QED
    BY <1>1, <1>2, <2>1 DEF BackupsInv, TypeOK, NodeChanges, googleVars, fileVars
<1>5. CountInv'
  BY DEF BackupsInv, CountInv, NodeChanges, googleVars
<1> QED
  BY <1>2, <1>3, <1>4, <1>5 DEF BackupsInv

LEMMA InvNodeBacksUp ==
  ASSUME BackupsInv, NodeBacksUp
  PROVE  BackupsInv'
<1>1. /\ versions \in Seq(Snapshot) /\ Len(versions) \in Nat /\ bak \in Nat
      /\ completed \in Nat /\ grants \in Nat /\ Len(versions) <= MaxVersions
      /\ bak < Len(versions) /\ completed <= bak + grants
  BY BackupsAssumption DEF BackupsInv, TypeOK, NodeBacksUp, CountInv
<1>2. bak' = Len(versions) /\ completed' = completed + 1 /\ versions' = versions /\ grants' = grants
  BY DEF NodeBacksUp, CopyToBak, googleVars
<1>3. FilesInv' /\ RunsInv' /\ FreshInv'
  <2>1. bak' \in Nat /\ bak <= bak'
    BY <1>1, <1>2
  <2> QED
    BY <2>1, QuietKeeps DEF NodeBacksUp
<1>4. CountInv'
  BY <1>1, <1>2 DEF CountInv
<1>5. TypeOK'
  <2>1. bak' \in 0 .. Len(versions')
    BY <1>1, <1>2
  <2>2. completed' \in 0 .. (MaxVersions + MaxGrants)
    <3>1. grants <= MaxGrants
      BY DEF BackupsInv, TypeOK
    <3> QED
      BY <1>1, <1>2, <3>1, BackupsAssumption
  <2>3. reported' \in 0 .. bak'
    <3>1. reported \in 0 .. bak /\ reported' = reported
      BY DEF BackupsInv, TypeOK, NodeBacksUp
    <3> QED
      BY <1>1, <1>2, <3>1
  <2> QED
    BY <1>2, <2>1, <2>2, <2>3 DEF BackupsInv, TypeOK, NodeBacksUp, googleVars, fileVars
<1>6. VersionsInv'
  BY <1>2 DEF BackupsInv, VersionsInv
<1> QED
  BY <1>3, <1>4, <1>5, <1>6 DEF BackupsInv

LEMMA InvAccessDenied ==
  ASSUME BackupsInv, applyGdriveAccessDenied
  PROVE  BackupsInv'
<1>1. FilesInv' /\ RunsInv' /\ FreshInv'
  <2>1. bak' = bak /\ bak \in Nat
    BY DEF BackupsInv, TypeOK, applyGdriveAccessDenied, nodeVars
  <2> QED
    BY <2>1, QuietKeeps DEF applyGdriveAccessDenied
<1>2. TypeOK'
  BY DEF BackupsInv, TypeOK, applyGdriveAccessDenied, nodeVars, fileVars
<1>3. CountInv' /\ VersionsInv'
  BY DEF BackupsInv, CountInv, VersionsInv, applyGdriveAccessDenied, nodeVars
<1> QED
  BY <1>1, <1>2, <1>3 DEF BackupsInv

LEMMA InvAccessGranted ==
  ASSUME BackupsInv, applyGdriveAccessGranted
  PROVE  BackupsInv'
<1>1. /\ versions \in Seq(Snapshot) /\ Len(versions) \in Nat /\ bak \in 0 .. Len(versions)
      /\ completed \in Nat /\ grants \in Nat /\ Len(versions) <= MaxVersions
      /\ completed <= bak + grants /\ grants < MaxGrants
  BY BackupsAssumption DEF BackupsInv, TypeOK, applyGdriveAccessGranted, CountInv
<1>2. /\ bak' = Len(versions) /\ completed' = completed + 1 /\ versions' = versions
      /\ grants' = grants + 1
  BY DEF applyGdriveAccessGranted, CopyToBak
<1>3. FilesInv' /\ RunsInv' /\ FreshInv'
  <2>1. bak' \in Nat /\ bak <= bak'
    BY <1>1, <1>2
  <2> QED
    BY <2>1, QuietKeeps DEF applyGdriveAccessGranted
<1>4. CountInv'
  BY <1>1, <1>2 DEF CountInv
<1>5. TypeOK'
  <2>1. bak' \in 0 .. Len(versions') /\ grants' \in 0 .. MaxGrants
    BY <1>1, <1>2, BackupsAssumption
  <2>2. completed' \in 0 .. (MaxVersions + MaxGrants)
    BY <1>1, <1>2, BackupsAssumption
  <2>3. reported' \in 0 .. bak'
    <3>1. reported \in 0 .. bak /\ reported' = reported
      BY DEF BackupsInv, TypeOK, applyGdriveAccessGranted
    <3> QED
      BY <1>1, <1>2, <3>1
  <2>4. account' \in BOOLEAN /\ enabled' \in BOOLEAN
    BY DEF applyGdriveAccessGranted
  <2> QED
    BY <1>2, <2>1, <2>2, <2>3, <2>4 DEF BackupsInv, TypeOK, applyGdriveAccessGranted, fileVars
<1>6. VersionsInv'
  BY <1>2 DEF BackupsInv, VersionsInv
<1> QED
  BY <1>3, <1>4, <1>5, <1>6 DEF BackupsInv

\* Nothing but the runs, the queue and the events changes.
LEMMA InvBackupCompleted ==
  ASSUME BackupsInv, BackupCompleted
  PROVE  BackupsInv'
<1>1. \A r \in Runs :
        /\ runs'[r] \in Run /\ runs'[r].pc = runs[r].pc /\ runs'[r].content = runs[r].content
        /\ runs'[r].file = runs[r].file /\ runs'[r].drive = runs[r].drive
        /\ runs'[r].local = runs[r].local
  BY DEF BackupsInv, TypeOK, BackupCompleted, Run, Running
<1>2. runs' \in [Runs -> Run]
  BY <1>1 DEF BackupCompleted
<1>3. TypeOK'
  <2>1. completed' \in 0 .. (MaxVersions + MaxGrants)
    BY BackupsAssumption DEF BackupsInv, TypeOK, BackupCompleted
  <2> QED
    BY <1>2, <2>1 DEF BackupsInv, TypeOK, BackupCompleted, googleVars, fileVars
<1>4. CountInv' /\ VersionsInv'
  <2>1. completed \in Int /\ bak \in Int /\ grants \in Int
    BY DEF BackupsInv, TypeOK
  <2> QED
    BY <2>1 DEF BackupsInv, CountInv, VersionsInv, BackupCompleted, googleVars
<1>5. FilesInv' /\ RunsInv'
  BY <1>1 DEF BackupsInv, FilesInv, RunsInv, Successful, BackupCompleted, fileVars
<1>6. FreshInv'
  <2>1. DriveFile' = DriveFile
    BY DriveFileStays DEF BackupCompleted, fileVars
  <2> QED
    BY ZenonT(40), <1>1, <2>1 DEF BackupsInv, FreshInv, Newest, HasRead, Running, Successful, BackupCompleted, fileVars
<1> QED
  BY <1>3, <1>4, <1>5, <1>6 DEF BackupsInv

LEMMA InvRestart ==
  ASSUME BackupsInv, Restart
  PROVE  BackupsInv'
<1>1. Idle \in Run /\ Idle.pc = "idle" /\ Idle.content = 0 /\ Idle.file = 0
  BY BackupsAssumption DEF Idle, Run, RunPc
<1>2. \A r \in Runs : runs'[r] = Idle
  BY DEF Restart
<1>3. TypeOK'
  <2>1. restarts' \in 0 .. MaxRestarts /\ completed' \in 0 .. (MaxVersions + MaxGrants)
    BY BackupsAssumption DEF BackupsInv, TypeOK, Restart
  <2>2. runs' \in [Runs -> Run]
    BY <1>1 DEF Restart
  <2>3. queued' \in BOOLEAN
    BY DEF BackupsInv, TypeOK, Restart
  <2> QED
    BY <2>1, <2>2, <2>3 DEF BackupsInv, TypeOK, Restart, googleVars, fileVars
<1>4. CountInv' /\ VersionsInv'
  <2>1. bak \in Nat /\ grants \in Nat
    BY DEF BackupsInv, TypeOK
  <2> QED
    BY <2>1 DEF BackupsInv, CountInv, VersionsInv, Restart, googleVars
<1>5. FilesInv' /\ RunsInv'
  <2>1. bak \in Nat /\ Len(drive) \in Nat
    BY LenProperties DEF BackupsInv, TypeOK
  <2> QED
    BY <1>1, <1>2, <2>1 DEF BackupsInv, FilesInv, RunsInv, Restart, fileVars
<1>6. FreshInv'
  <2>1. DriveFile' = DriveFile
    BY DriveFileStays DEF Restart, fileVars
  <2> QED
    BY <1>1, <1>2, <2>1 DEF BackupsInv, FreshInv, Newest, HasRead, Running, Restart, fileVars
<1> QED
  BY <1>3, <1>4, <1>5, <1>6 DEF BackupsInv

LEMMA IdleRun ==
  /\ Idle \in Run /\ Idle.pc = "idle" /\ Idle.content = 0 /\ Idle.file = 0
  /\ Idle.drive = "skipped" /\ Idle.local = FALSE
BY BackupsAssumption DEF Idle, Run, RunPc

LEMMA InvStartWork ==
  ASSUME BackupsInv, NEW r \in Runs, StartWork(r)
  PROVE  BackupsInv'
<1>1. runs \in [Runs -> Run] /\ bak \in Nat /\ Len(drive) \in Nat
  BY LenProperties DEF BackupsInv, TypeOK
<1> DEFINE new == [Idle EXCEPT !.pc = "read"]
<1>2. /\ new \in Run /\ new.pc = "read" /\ new.content = 0 /\ new.file = 0
      /\ new.drive = "skipped" /\ new.local = FALSE
  BY IdleRun DEF Run, RunPc
<1>3. runs' = [runs EXCEPT ![r] = new]
  BY DEF StartWork
<1> HIDE DEF new
<1>4. runs'[r] = new /\ \A s \in Runs : s # r => runs'[s] = runs[s]
  BY <1>1, <1>3
<1>5. TypeOK'
  <2>1. runs' \in [Runs -> Run]
    BY <1>1, <1>2, <1>3
  <2>2. overlapped' \in BOOLEAN /\ queued' \in BOOLEAN
    BY DEF BackupsInv, TypeOK, StartWork
  <2> QED
    BY <2>1, <2>2 DEF BackupsInv, TypeOK, StartWork, nodeVars, googleVars, fileVars
<1>6. CountInv' /\ VersionsInv'
  BY DEF BackupsInv, CountInv, VersionsInv, StartWork, nodeVars, googleVars
<1>7. FilesInv' /\ RunsInv'
  <2>1. FilesInv'
    BY DEF BackupsInv, FilesInv, StartWork, nodeVars, fileVars
  <2>2. UNCHANGED <<bak, drive>> /\ RunsInv
    BY DEF BackupsInv, StartWork, nodeVars, fileVars
  <2>3. RunsInv'
    BY <1>1, <1>2, <1>4, <2>2 DEF RunsInv, Successful
  <2> QED
    BY <2>1, <2>3
<1>8. FreshInv'
  <2>1. DriveFile' = DriveFile
    BY DriveFileStays DEF StartWork, fileVars
  <2> SUFFICES ASSUME ~overlapped' PROVE FreshInv'
    BY DEF FreshInv
  <2>2. ~overlapped /\ \A s \in Runs : ~Running(s)
    BY DEF StartWork
  <2>3. \A s \in Runs : s # r => runs'[s].pc = "idle"
    BY <1>4, <2>2 DEF Running
  <2>4. \A s \in Runs : ~HasRead(s)'
    BY <1>2, <1>4, <2>3 DEF HasRead
  <2>5. \A s, t \in Runs : Running(s)' /\ Running(t)' => s = t
    BY <2>3 DEF Running
  <2>6. UNCHANGED <<local, reported>> /\ Newest' = Newest
    BY <2>1 DEF StartWork, fileVars, Newest
  <2> QED
    BY <2>1, <2>2, <2>4, <2>5, <2>6 DEF BackupsInv, FreshInv
<1> QED
  BY <1>5, <1>6, <1>7, <1>8 DEF BackupsInv

-----------------------------------------------------------------------------
\* What the steps of a run have in common: only its own record changes, and it
\* keeps its place among the runs.
OwnStep(r) ==
  /\ runs' \in [Runs -> Run] /\ \A s \in Runs : s # r => runs'[s] = runs[s]
  /\ runs[r].pc # "idle" /\ runs'[r].pc # "read"
  /\ runs'[r].content <= bak /\ runs'[r].file \in 0 .. Len(drive)
  /\ UNCHANGED <<nodeVars, queued, overlapped, restarts>>

\* A step of a run that leaves the files alone and does not report.
LEMMA OwnStepKeeps ==
  ASSUME BackupsInv, NEW r \in Runs, OwnStep(r),
         account' \in BOOLEAN, enabled' \in BOOLEAN, UNCHANGED <<fileVars, grants, reported>>,
         ~overlapped /\ HasRead(r)' =>
           /\ reported <= runs'[r].content /\ local.content <= runs'[r].content
           /\ \A f \in DOMAIN drive : drive[f].content <= runs'[r].content
           /\ local.content # Torn /\ Successful(r)' => runs'[r].content <= Newest.content
  PROVE  BackupsInv'
<1>1. TypeOK'
  BY DEF BackupsInv, TypeOK, OwnStep, nodeVars, fileVars
<1>2. CountInv' /\ VersionsInv'
  BY DEF BackupsInv, CountInv, VersionsInv, OwnStep, nodeVars
<1>3. FilesInv'
  BY DEF BackupsInv, FilesInv, OwnStep, nodeVars, fileVars
<1>4. RunsInv'
  BY DEF BackupsInv, RunsInv, Successful, OwnStep, nodeVars, fileVars
<1>5. FreshInv'
  <2>1. DriveFile' = DriveFile
    BY DriveFileStays DEF fileVars
  <2>2. UNCHANGED <<local, drive, reported, overlapped>> /\ Newest' = Newest
    BY <2>1 DEF OwnStep, fileVars, Newest
  <2> SUFFICES ASSUME ~overlapped PROVE FreshInv'
    BY <2>2 DEF FreshInv
  <2>3. \A s, t \in Runs : Running(s)' /\ Running(t)' => s = t
    BY DEF BackupsInv, FreshInv, OwnStep, Running
  <2>4. \A s \in Runs : HasRead(s)' =>
          /\ reported <= runs'[s].content /\ local.content <= runs'[s].content
          /\ \A f \in DOMAIN drive : drive[f].content <= runs'[s].content
          /\ local.content # Torn /\ Successful(s)' => runs'[s].content <= Newest.content
    <3> TAKE s \in Runs
    <3>1. CASE s = r
      BY <3>1
    <3>2. CASE s # r
      <4>1. runs'[s] = runs[s]
        BY <3>2 DEF OwnStep
      <4> QED
        BY <4>1 DEF BackupsInv, FreshInv, HasRead, Successful
    <3> QED
      BY <3>1, <3>2
  <2>5. local.content # Torn =>
         /\ reported <= Newest.content
         /\ local.content <= Newest.content /\ DriveFile.content <= Newest.content
    BY DEF BackupsInv, FreshInv
  <2> QED
    BY <2>1, <2>2, <2>3, <2>4, <2>5 DEF FreshInv
<1> QED
  BY <1>1, <1>2, <1>3, <1>4, <1>5 DEF BackupsInv

\* The types that the steps of a run need.
LEMMA RunTypes ==
  ASSUME BackupsInv, NEW r \in Runs
  PROVE  /\ runs \in [Runs -> Run] /\ runs[r] \in Run
         /\ runs[r].content \in Nat /\ runs[r].content <= bak /\ bak \in Nat
         /\ bak <= MaxVersions /\ MaxVersions \in Nat
         /\ runs[r].file \in 0 .. Len(drive) /\ Len(drive) \in Nat
         /\ reported \in 0 .. bak /\ clock \in Nat
         /\ account \in BOOLEAN /\ enabled \in BOOLEAN /\ grants \in Nat
         /\ drive \in Seq(File) /\ local \in File
         /\ \A f \in DOMAIN drive : drive[f].content \in 0 .. bak
         /\ local.content \in Int /\ local.content <= bak
         /\ DriveFile \in File /\ DriveFile.content \in 0 .. bak /\ DriveFile.date \in 0 .. clock
<1>1. TypeOK /\ FilesInv /\ RunsInv
  BY DEF BackupsInv
<1>2. runs \in [Runs -> Run] /\ runs[r] \in Run
  BY <1>1 DEF TypeOK
<1>3. MaxVersions \in Nat /\ Len(versions) \in Nat /\ Len(drive) \in Nat
  BY <1>1, LenProperties, BackupsAssumption DEF TypeOK
<1>4. bak \in Nat /\ bak <= MaxVersions
  BY <1>1, <1>3 DEF TypeOK
<1>5. runs[r].content \in Nat
  BY <1>2, <1>3 DEF Run
<1>6. local.content \in Int /\ local.content <= bak
  BY <1>1, <1>4 DEF FilesInv, Torn
<1>7. /\ DriveFile \in File /\ DriveFile.content \in 0 .. bak /\ DriveFile.date \in 0 .. clock
  BY <1>1, DriveFileTypes
<1> QED
  BY <1>1, <1>2, <1>3, <1>4, <1>5, <1>6, <1>7 DEF TypeOK, FilesInv, RunsInv

\* A run reads what is in the .bak file: nothing newer was saved or reported.
LEMMA InvGetEncryptedBackup ==
  ASSUME BackupsInv, NEW r \in Runs, getEncryptedBackup(r)
  PROVE  BackupsInv'
<1>1. /\ runs \in [Runs -> Run] /\ runs[r] \in Run
      /\ runs[r].content \in Nat /\ runs[r].content <= bak /\ bak \in Nat
      /\ bak <= MaxVersions /\ MaxVersions \in Nat
      /\ runs[r].file \in 0 .. Len(drive) /\ Len(drive) \in Nat
  BY RunTypes
<1>2. /\ runs[r].pc = "read" /\ UNCHANGED <<nodeVars, googleVars, fileVars, queued, overlapped, reported, restarts>>
  BY DEF getEncryptedBackup
<1>3. account' \in BOOLEAN /\ enabled' \in BOOLEAN /\ UNCHANGED <<fileVars, grants, reported>>
  BY <1>2, RunTypes DEF googleVars
<1>4. CASE runs' = [runs EXCEPT ![r].content = bak, ![r].pc = IF account THEN "list" ELSE "open"]
  <2>1. /\ runs'[r].content = bak /\ runs'[r].file = runs[r].file
        /\ runs'[r].drive = runs[r].drive /\ runs'[r].local = runs[r].local
        /\ runs'[r].pc # "read" /\ \A s \in Runs : s # r => runs'[s] = runs[s]
    BY <1>1, <1>4 DEF Run
  <2>2. runs' \in [Runs -> Run]
    <3> DEFINE p == IF account THEN "list" ELSE "open"
               rec == [runs[r] EXCEPT !.content = bak, !.pc = p]
    <3>1. runs' = [runs EXCEPT ![r] = rec]
      BY <1>1, <1>4
    <3>2. p \in RunPc /\ bak \in 0 .. MaxVersions
      BY <1>1 DEF RunPc
    <3>3. rec \in Run
      <4> HIDE DEF p
      <4> QED
        BY <1>1, <3>2 DEF Run
    <3> HIDE DEF rec
    <3> QED
      BY <1>1, <3>1, <3>3
  <2>3. OwnStep(r)
    BY <1>1, <1>2, <2>1, <2>2 DEF OwnStep
  <2>4. /\ reported <= runs'[r].content /\ local.content <= runs'[r].content
        /\ \A f \in DOMAIN drive : drive[f].content <= runs'[r].content
    BY <2>1, RunTypes
  <2>5. ~Successful(r)'
    BY <1>2, <2>1 DEF BackupsInv, RunsInv, Successful
  <2> QED
    BY <1>3, <2>3, <2>4, <2>5, OwnStepKeeps
<1>5. CASE runs' = [runs EXCEPT ![r] = Idle]
  <2>1. runs' \in [Runs -> Run] /\ runs'[r] = Idle /\ \A s \in Runs : s # r => runs'[s] = runs[s]
    BY <1>1, <1>5, IdleRun
  <2>2. OwnStep(r) /\ ~HasRead(r)'
    BY <1>1, <1>2, <2>1, IdleRun DEF OwnStep, HasRead
  <2> QED
    BY <1>3, <2>2, OwnStepKeeps
<1> QED
  BY <1>4, <1>5 DEF getEncryptedBackup

\* filterBestBackup names a file that exists, or none.
LEMMA FilterBestBackupType ==
  ASSUME FilesInv, drive \in Seq(File)
  PROVE  filterBestBackup \in 0 .. Len(drive)
<1>1. Len(drive) \in Nat /\ DOMAIN drive = 1 .. Len(drive)
  BY LenProperties
<1>2. CASE drive = << >>
  BY <1>1, <1>2 DEF filterBestBackup
<1>3. CASE drive # << >>
  <2> DEFINE Latest(f) == \A g \in DOMAIN drive : drive[f].date >= drive[g].date
  <2>1. \E f \in DOMAIN drive : Latest(f)
    BY <1>3 DEF FilesInv
  <2>2. filterBestBackup = CHOOSE f \in DOMAIN drive : Latest(f)
    BY <1>3 DEF filterBestBackup
  <2>3. filterBestBackup \in DOMAIN drive
    <3> HIDE DEF Latest
    <3> QED
      BY <2>1, <2>2
  <2> QED
    BY <1>1, <2>3
<1> QED
  BY <1>2, <1>3

\* Google Drive fails: the run goes on with the device.
LEMMA DriveFailsRun ==
  ASSUME BackupsInv, NEW r \in Runs, DriveFails(r)
  PROVE  /\ runs' \in [Runs -> Run] /\ \A s \in Runs : s # r => runs'[s] = runs[s]
         /\ runs'[r].pc = "open" /\ runs'[r].content = runs[r].content
         /\ runs'[r].file = runs[r].file /\ Successful(r)' = runs[r].local
         /\ account' = account /\ grants' = grants /\ enabled' \in BOOLEAN
<1>1. runs \in [Runs -> Run] /\ runs[r] \in Run /\ account \in BOOLEAN /\ enabled \in BOOLEAN
  BY RunTypes
<1> DEFINE rec == [runs[r] EXCEPT !.drive = "failed", !.pc = "open"]
<1>2. runs' = [runs EXCEPT ![r] = rec]
  BY <1>1 DEF DriveFails
<1>3. /\ rec \in Run /\ rec.pc = "open" /\ rec.content = runs[r].content
      /\ rec.file = runs[r].file /\ rec.local = runs[r].local /\ rec.drive = "failed"
  BY <1>1 DEF Run, RunPc
<1>4. account' = account /\ grants' = grants /\ enabled' \in BOOLEAN
  BY <1>1 DEF DriveFails
<1> HIDE DEF rec
<1>5. runs' \in [Runs -> Run] /\ runs'[r] = rec /\ \A s \in Runs : s # r => runs'[s] = runs[s]
  BY <1>1, <1>2, <1>3
<1>6. Successful(r)' = runs[r].local
  <2>1. runs[r].local \in BOOLEAN
    BY <1>1 DEF Run
  <2>2. Successful(r)' <=> runs[r].local
    BY <1>3, <1>5 DEF Successful
  <2>3. Successful(r)' \in BOOLEAN
    BY <1>3, <1>5, <2>1 DEF Successful
  <2> QED
    BY <2>1, <2>2, <2>3
<1> QED
  BY <1>3, <1>4, <1>5, <1>6

\* What FreshInv says of a run that has read, unless runs have overlapped.
LEMMA FreshRun ==
  ASSUME BackupsInv, NEW r \in Runs, HasRead(r), ~overlapped
  PROVE  /\ reported <= runs[r].content /\ local.content <= runs[r].content
         /\ \A f \in DOMAIN drive : drive[f].content <= runs[r].content
         /\ local.content # Torn /\ Successful(r) => runs[r].content <= Newest.content
         /\ \A s \in Runs : s # r => ~Running(s)
BY DEF BackupsInv, FreshInv, HasRead, Running

LEMMA InvListBackups ==
  ASSUME BackupsInv, NEW r \in Runs, listBackups(r)
  PROVE  BackupsInv'
<1>1. /\ runs \in [Runs -> Run] /\ runs[r] \in Run
      /\ runs[r].content <= bak /\ runs[r].file \in 0 .. Len(drive) /\ Len(drive) \in Nat
      /\ account \in BOOLEAN /\ enabled \in BOOLEAN
  BY RunTypes
<1>2. runs[r].pc = "list" /\ UNCHANGED <<nodeVars, fileVars, queued, overlapped, reported, restarts>>
  BY DEF listBackups
<1>3. HasRead(r)
  BY <1>2 DEF HasRead
<1>4. CASE /\ runs' = [runs EXCEPT ![r].file = filterBestBackup, ![r].pc = "upload"]
           /\ UNCHANGED googleVars
  <2> DEFINE rec == [runs[r] EXCEPT !.file = filterBestBackup, !.pc = "upload"]
  <2>1. runs' = [runs EXCEPT ![r] = rec]
    BY <1>1, <1>4
  <2>2. filterBestBackup \in 0 .. Len(drive)
    BY FilterBestBackupType DEF BackupsInv, TypeOK
  <2>3. filterBestBackup \in Nat
    BY <1>1, <2>2
  <2>4. /\ rec \in Run /\ rec.pc = "upload" /\ rec.content = runs[r].content
        /\ rec.file = filterBestBackup /\ rec.local = runs[r].local /\ rec.drive = runs[r].drive
    BY <1>1, <2>3 DEF Run, RunPc
  <2> HIDE DEF rec
  <2>5. runs' \in [Runs -> Run] /\ runs'[r] = rec /\ \A s \in Runs : s # r => runs'[s] = runs[s]
    BY <1>1, <2>1, <2>4
  <2>6. OwnStep(r)
    BY <1>1, <1>2, <2>2, <2>4, <2>5 DEF OwnStep
  <2>7. Successful(r)' => Successful(r)
    BY <2>4, <2>5 DEF Successful
  <2>8. runs'[r].content = runs[r].content
    BY <2>4, <2>5
  <2>9. account' \in BOOLEAN /\ enabled' \in BOOLEAN /\ UNCHANGED <<fileVars, grants, reported>>
    BY <1>1, <1>2, <1>4 DEF googleVars
  <2> QED
    BY <1>3, <2>6, <2>7, <2>8, <2>9, OwnStepKeeps, FreshRun
<1>5. CASE DriveFails(r)
  <2>1. /\ runs' \in [Runs -> Run] /\ \A s \in Runs : s # r => runs'[s] = runs[s]
        /\ runs'[r].pc = "open" /\ runs'[r].content = runs[r].content
        /\ runs'[r].file = runs[r].file /\ Successful(r)' = runs[r].local
        /\ account' = account /\ grants' = grants /\ enabled' \in BOOLEAN
    BY <1>5, DriveFailsRun
  <2>2. OwnStep(r)
    BY <1>1, <1>2, <2>1 DEF OwnStep
  <2>3. Successful(r)' => Successful(r)
    BY <2>1 DEF Successful
  <2>4. account' \in BOOLEAN /\ enabled' \in BOOLEAN /\ UNCHANGED <<fileVars, grants, reported>>
    BY <1>1, <1>2, <2>1
  <2>5. runs'[r].content = runs[r].content
    BY <2>1
  <2> QED
    BY <1>3, <2>2, <2>3, <2>4, <2>5, OwnStepKeeps, FreshRun
<1> QED
  BY <1>4, <1>5 DEF listBackups

\* A step of a run that writes a file with what it has read, or tears the one on
\* the device, later than any other: what FreshInv needs after it.
LEMMA WriteKeepsFresh ==
  ASSUME BackupsInv, NEW r \in Runs, HasRead(r), OwnStep(r), reported' = reported,
         runs'[r].content = runs[r].content,
         local'.content <= runs[r].content,
         \A f \in DOMAIN drive' :
           drive'[f].content = runs[r].content \/ (f \in DOMAIN drive /\ drive'[f] = drive[f]),
         local'.content # Torn =>
           /\ Newest'.content = runs[r].content
           /\ DriveFile'.content <= runs[r].content
  PROVE  FreshInv'
<1> SUFFICES ASSUME ~overlapped PROVE FreshInv'
  BY DEF FreshInv, OwnStep
<1>1. /\ reported <= runs[r].content
      /\ \A f \in DOMAIN drive : drive[f].content <= runs[r].content
      /\ \A s \in Runs : s # r => ~Running(s)
  BY FreshRun
<1>2. runs[r].content \in Nat
  BY RunTypes
<1>3. \A s \in Runs : s # r => ~Running(s)' /\ ~HasRead(s)'
  BY <1>1 DEF OwnStep, Running, HasRead
<1>4. \A f \in DOMAIN drive' : drive'[f].content <= runs[r].content
  BY <1>1, <1>2
<1>5. \A s, t \in Runs : Running(s)' /\ Running(t)' => s = t
  BY <1>3
<1>6. \A s \in Runs : HasRead(s)' =>
        /\ reported' <= runs'[s].content /\ local'.content <= runs'[s].content
        /\ \A f \in DOMAIN drive' : drive'[f].content <= runs'[s].content
        /\ local'.content # Torn /\ Successful(s)' => runs'[s].content <= Newest'.content
  <2> SUFFICES /\ reported' <= runs'[r].content /\ local'.content <= runs'[r].content
               /\ \A f \in DOMAIN drive' : drive'[f].content <= runs'[r].content
               /\ local'.content # Torn => runs'[r].content <= Newest'.content
    BY <1>3
  <2> QED
    BY <1>1, <1>2, <1>4
<1>7. local'.content # Torn =>
        /\ reported' <= Newest'.content
        /\ local'.content <= Newest'.content /\ DriveFile'.content <= Newest'.content
  BY <1>1, <1>2
<1> QED
  BY <1>5, <1>6, <1>7 DEF FreshInv

LEMMA InvUploaded ==
  ASSUME BackupsInv, NEW r \in Runs, HasRead(r), OwnStep(r),
         runs'[r].content = runs[r].content,
         account' \in BOOLEAN, enabled' \in BOOLEAN, UNCHANGED <<grants, reported, local>>,
         drive' = Uploaded(r), clock' = clock + 1
  PROVE  BackupsInv'
<1> DEFINE new == [content |-> runs[r].content, date |-> clock + 1]
<1>1. /\ runs \in [Runs -> Run] /\ bak \in Nat /\ clock \in Nat
      /\ runs[r].content \in Nat /\ runs[r].content <= bak
      /\ drive \in Seq(File) /\ local \in File /\ Len(drive) \in Nat
      /\ local.content \in Int
  BY RunTypes
<1>2. /\ drive' \in Seq(File) /\ Len(drive) <= Len(drive') /\ DriveFile' = new
      /\ \E k \in DOMAIN drive' :
              /\ drive'[k] = new
              /\ \A g \in DOMAIN drive' : g # k => g \in DOMAIN drive /\ drive'[g] = drive[g]
              /\ \A g \in DOMAIN drive' : drive'[k].date >= drive'[g].date
  BY UploadIsLatest DEF BackupsInv
<1>3. PICK k \in DOMAIN drive' :
              /\ drive'[k] = new
              /\ \A g \in DOMAIN drive' : g # k => g \in DOMAIN drive /\ drive'[g] = drive[g]
              /\ \A g \in DOMAIN drive' : drive'[k].date >= drive'[g].date
  BY <1>2
<1>4. new.content = runs[r].content /\ new.date = clock + 1
  OBVIOUS
<1> HIDE DEF new
<1>5. FilesInv /\ RunsInv /\ bak' = bak /\ local.date \in Nat /\ local.date <= clock
  BY <1>1 DEF BackupsInv, FilesInv, File, OwnStep, nodeVars
<1>6. FilesInv'
  <2>1. \A f \in DOMAIN drive' :
          /\ drive'[f].content \in 0 .. bak
          /\ drive'[f].date \in 1 .. (clock + 1) /\ drive'[f].date # local.date
    <3> TAKE f \in DOMAIN drive'
    <3>1. CASE f = k
      BY <1>1, <1>3, <1>4, <1>5, <3>1
    <3>2. CASE f # k
      <4>1. f \in DOMAIN drive /\ drive'[f] = drive[f]
        BY <1>3, <3>2
      <4> QED
        BY <1>1, <1>5, <4>1 DEF FilesInv
    <3> QED
      BY <3>1, <3>2
  <2>2. local'.content \in {Torn} \cup 0 .. bak
    BY <1>5 DEF FilesInv
  <2>3. local'.date <= clock'
    BY <1>1, <1>5
  <2> QED
    BY <1>3, <1>5, <2>1, <2>2, <2>3 DEF FilesInv
<1>7. RunsInv'
  <2>1. Len(drive') \in Nat
    BY <1>2
  <2>2. \A i \in 0 .. Len(drive) : i \in 0 .. Len(drive')
    BY <1>1, <1>2, <2>1
  <2>3. \A s \in Runs :
          /\ runs'[s].content <= bak' /\ runs'[s].file \in 0 .. Len(drive)
          /\ runs'[s].pc = "read" => ~Successful(s)'
    BY <1>5 DEF RunsInv, OwnStep, Successful
  <2> QED
    BY <2>2, <2>3 DEF RunsInv
<1>8. TypeOK'
  BY <1>1, <1>2 DEF BackupsInv, TypeOK, OwnStep, nodeVars
<1>9. CountInv' /\ VersionsInv'
  BY DEF BackupsInv, CountInv, VersionsInv, OwnStep, nodeVars
<1>10. FreshInv'
  <2>1. Newest' = new
    BY <1>1, <1>2, <1>4, <1>5 DEF Newest
  <2>2. \A f \in DOMAIN drive' :
           drive'[f].content = runs[r].content \/ (f \in DOMAIN drive /\ drive'[f] = drive[f])
    BY <1>3, <1>4
  <2>3. ~overlapped => local'.content <= runs[r].content
    BY FreshRun
  <2>4. CASE overlapped
    BY <2>4 DEF FreshInv, OwnStep
  <2>5. CASE ~overlapped
    BY <1>1, <1>2, <1>4, <2>1, <2>2, <2>3, <2>5, WriteKeepsFresh
  <2> QED
    BY <2>4, <2>5
<1> QED
  BY <1>6, <1>7, <1>8, <1>9, <1>10 DEF BackupsInv

LEMMA InvUpload ==
  ASSUME BackupsInv, NEW r \in Runs, upload(r)
  PROVE  BackupsInv'
<1>1. /\ runs \in [Runs -> Run] /\ runs[r] \in Run
      /\ runs[r].content <= bak /\ runs[r].file \in 0 .. Len(drive)
      /\ account \in BOOLEAN /\ enabled \in BOOLEAN
  BY RunTypes
<1>2. runs[r].pc = "upload" /\ UNCHANGED <<nodeVars, queued, local, overlapped, reported, restarts>>
  BY DEF upload
<1>3. HasRead(r)
  BY <1>2 DEF HasRead
<1>4. CASE /\ runs' = [runs EXCEPT ![r].drive = "saved", ![r].pc = "open"]
           /\ drive' = Uploaded(r) /\ clock' = clock + 1
           /\ UNCHANGED googleVars
  <2> DEFINE rec == [runs[r] EXCEPT !.drive = "saved", !.pc = "open"]
  <2>1. runs' = [runs EXCEPT ![r] = rec]
    BY <1>1, <1>4
  <2>2. /\ rec \in Run /\ rec.pc = "open" /\ rec.content = runs[r].content
        /\ rec.file = runs[r].file
    BY <1>1 DEF Run, RunPc
  <2> HIDE DEF rec
  <2>3. runs' \in [Runs -> Run] /\ runs'[r] = rec /\ \A s \in Runs : s # r => runs'[s] = runs[s]
    BY <1>1, <2>1, <2>2
  <2>4. OwnStep(r) /\ runs'[r].content = runs[r].content
    BY <1>1, <1>2, <2>2, <2>3 DEF OwnStep
  <2>5. account' \in BOOLEAN /\ enabled' \in BOOLEAN /\ UNCHANGED <<grants, reported, local>>
    BY <1>1, <1>2, <1>4 DEF googleVars
  <2> QED
    BY <1>3, <1>4, <2>4, <2>5, InvUploaded
<1>5. CASE DriveFails(r) /\ ((drive' = Uploaded(r) /\ clock' = clock + 1) \/ UNCHANGED <<drive, clock>>)
  <2>1. /\ runs' \in [Runs -> Run] /\ \A s \in Runs : s # r => runs'[s] = runs[s]
        /\ runs'[r].pc = "open" /\ runs'[r].content = runs[r].content
        /\ runs'[r].file = runs[r].file /\ Successful(r)' = runs[r].local
        /\ account' = account /\ grants' = grants /\ enabled' \in BOOLEAN
    BY <1>5, DriveFailsRun
  <2>2. OwnStep(r)
    BY <1>1, <1>2, <2>1 DEF OwnStep
  <2>3. Successful(r)' => Successful(r)
    BY <2>1 DEF Successful
  <2>4. /\ account' \in BOOLEAN /\ enabled' \in BOOLEAN /\ UNCHANGED <<grants, reported, local>>
        /\ runs'[r].content = runs[r].content
    BY <1>1, <1>2, <2>1
  <2>5. CASE drive' = Uploaded(r) /\ clock' = clock + 1
    BY <1>3, <2>2, <2>4, <2>5, InvUploaded
  <2>6. CASE UNCHANGED <<drive, clock>>
    <3>1. UNCHANGED <<fileVars, grants, reported>>
      BY <2>4, <2>6 DEF fileVars
    <3> QED
      BY <1>3, <2>2, <2>3, <2>4, <3>1, OwnStepKeeps, FreshRun
  <2> QED
    BY <1>5, <2>5, <2>6
<1> QED
  BY <1>4, <1>5 DEF upload

\* A step of a run that writes the file on the device, whole or not.
LEMMA InvLocalWritten ==
  ASSUME BackupsInv, NEW r \in Runs, HasRead(r), OwnStep(r),
         runs'[r].content = runs[r].content, NEW c \in {Torn, runs[r].content},
         UNCHANGED <<googleVars, reported, drive>>,
         local' = [content |-> c, date |-> clock + 1], clock' = clock + 1
  PROVE  BackupsInv'
<1>1. /\ runs \in [Runs -> Run] /\ bak \in Nat /\ clock \in Nat
      /\ runs[r].content \in Nat /\ runs[r].content <= bak /\ bak <= MaxVersions
      /\ MaxVersions \in Nat
      /\ drive \in Seq(File) /\ local \in File
      /\ DriveFile.content \in 0 .. bak /\ DriveFile.date \in 0 .. clock
  BY RunTypes
<1>2. local'.content = c /\ local'.date = clock + 1
  OBVIOUS
<1>3. c \in Content /\ c \in {Torn} \cup 0 .. bak
  BY <1>1 DEF Content, None
<1>4. bak' = bak /\ FilesInv /\ RunsInv
  BY DEF BackupsInv, OwnStep, nodeVars
<1>5. TypeOK'
  <2>1. local' \in File
    BY <1>1, <1>3 DEF File
  <2>2. clock' \in Nat
    BY <1>1
  <2> QED
    BY <2>1, <2>2 DEF BackupsInv, TypeOK, OwnStep, nodeVars, googleVars
<1>6. FilesInv'
  <2>1. \A f \in DOMAIN drive :
          /\ drive[f].content \in 0 .. bak
          /\ drive[f].date \in 1 .. (clock + 1) /\ drive[f].date # clock + 1
    BY <1>1, <1>4 DEF FilesInv
  <2>2. local'.date <= clock'
    BY <1>1, <1>2
  <2> QED
    BY <1>2, <1>3, <1>4, <2>1, <2>2 DEF FilesInv
<1>7. RunsInv'
  BY <1>4 DEF RunsInv, OwnStep, Successful
<1>8. CountInv' /\ VersionsInv'
  BY DEF BackupsInv, CountInv, VersionsInv, OwnStep, nodeVars, googleVars
<1>9. FreshInv'
  <2>1. DriveFile' = DriveFile
    BY DriveFileStays
  <2>2. Newest' = local'
    BY <1>1, <1>2, <2>1 DEF Newest
  <2>3. local'.content <= runs[r].content
    BY <1>1, <1>2 DEF Torn
  <2>4. \A f \in DOMAIN drive' :
           drive'[f].content = runs[r].content \/ (f \in DOMAIN drive /\ drive'[f] = drive[f])
    OBVIOUS
  <2>5. CASE overlapped
    BY <2>5 DEF FreshInv, OwnStep
  <2>6. CASE ~overlapped
    <3>1. DriveFile'.content <= runs[r].content
      <4>1. \A f \in DOMAIN drive : drive[f].content <= runs[r].content
        BY <2>6, FreshRun
      <4> QED
        BY <1>1, <1>4, <2>1, <4>1, DriveFileKnown DEF None
    <3>2. local'.content # Torn => Newest'.content = runs[r].content
      BY <1>2, <2>2
    <3> QED
      BY <2>3, <2>4, <3>1, <3>2, WriteKeepsFresh
  <2> QED
    BY <2>5, <2>6
<1> QED
  BY <1>5, <1>6, <1>7, <1>8, <1>9 DEF BackupsInv

\* A run that fails on the device goes on to its end.
LEMMA InvLocalFails ==
  ASSUME BackupsInv, NEW r \in Runs, HasRead(r),
         runs' = [runs EXCEPT ![r].pc = "finish"], UNCHANGED <<local, clock>>,
         UNCHANGED <<nodeVars, googleVars, queued, drive, overlapped, reported, restarts>>
  PROVE  BackupsInv'
<1>1. /\ runs \in [Runs -> Run] /\ runs[r] \in Run
      /\ runs[r].content <= bak /\ runs[r].file \in 0 .. Len(drive)
      /\ account \in BOOLEAN /\ enabled \in BOOLEAN
  BY RunTypes
<1> DEFINE rec == [runs[r] EXCEPT !.pc = "finish"]
<1>2. runs' = [runs EXCEPT ![r] = rec]
  BY <1>1
<1>3. /\ rec \in Run /\ rec.pc = "finish" /\ rec.content = runs[r].content
      /\ rec.file = runs[r].file /\ rec.local = runs[r].local /\ rec.drive = runs[r].drive
  BY <1>1 DEF Run, RunPc
<1> HIDE DEF rec
<1>4. runs' \in [Runs -> Run] /\ runs'[r] = rec /\ \A s \in Runs : s # r => runs'[s] = runs[s]
  BY <1>1, <1>2, <1>3
<1>5. OwnStep(r)
  BY <1>1, <1>3, <1>4 DEF OwnStep, HasRead
<1>6. (Successful(r)' => Successful(r)) /\ runs'[r].content = runs[r].content
  BY <1>3, <1>4 DEF Successful
<1>7. account' \in BOOLEAN /\ enabled' \in BOOLEAN /\ UNCHANGED <<fileVars, grants, reported>>
  BY <1>1 DEF googleVars, fileVars
<1> QED
  BY <1>5, <1>6, <1>7, OwnStepKeeps, FreshRun

LEMMA InvOpenLocal ==
  ASSUME BackupsInv, NEW r \in Runs, openLocal(r)
  PROVE  BackupsInv'
<1>1. /\ runs \in [Runs -> Run] /\ runs[r] \in Run
      /\ runs[r].content <= bak /\ runs[r].file \in 0 .. Len(drive)
  BY RunTypes
<1>2. /\ runs[r].pc = "open"
      /\ UNCHANGED <<nodeVars, googleVars, queued, drive, overlapped, reported, restarts>>
  BY DEF openLocal
<1>3. HasRead(r)
  BY <1>2 DEF HasRead
<1>4. CASE /\ runs' = [runs EXCEPT ![r].pc = "write"]
           /\ local' = [content |-> Torn, date |-> clock + 1] /\ clock' = clock + 1
  <2> DEFINE rec == [runs[r] EXCEPT !.pc = "write"]
  <2>1. runs' = [runs EXCEPT ![r] = rec]
    BY <1>1, <1>4
  <2>2. /\ rec \in Run /\ rec.pc = "write" /\ rec.content = runs[r].content
        /\ rec.file = runs[r].file
    BY <1>1 DEF Run, RunPc
  <2> HIDE DEF rec
  <2>3. runs' \in [Runs -> Run] /\ runs'[r] = rec /\ \A s \in Runs : s # r => runs'[s] = runs[s]
    BY <1>1, <2>1, <2>2
  <2>4. OwnStep(r) /\ runs'[r].content = runs[r].content
    BY <1>1, <1>2, <2>2, <2>3 DEF OwnStep
  <2> QED
    BY <1>2, <1>3, <1>4, <2>4, InvLocalWritten
<1>5. CASE runs' = [runs EXCEPT ![r].pc = "finish"] /\ UNCHANGED <<local, clock>>
  BY <1>2, <1>3, <1>5, InvLocalFails
<1> QED
  BY <1>4, <1>5 DEF openLocal

LEMMA InvWriteLocal ==
  ASSUME BackupsInv, NEW r \in Runs, writeLocal(r)
  PROVE  BackupsInv'
<1>1. /\ runs \in [Runs -> Run] /\ runs[r] \in Run
      /\ runs[r].content <= bak /\ runs[r].file \in 0 .. Len(drive)
  BY RunTypes
<1>2. /\ runs[r].pc = "write"
      /\ UNCHANGED <<nodeVars, googleVars, queued, drive, overlapped, reported, restarts>>
  BY DEF writeLocal
<1>3. HasRead(r)
  BY <1>2 DEF HasRead
<1>4. CASE /\ runs' = [runs EXCEPT ![r].local = TRUE, ![r].pc = "finish"]
           /\ local' = [content |-> runs[r].content, date |-> clock + 1] /\ clock' = clock + 1
  <2> DEFINE rec == [runs[r] EXCEPT !.local = TRUE, !.pc = "finish"]
  <2>1. runs' = [runs EXCEPT ![r] = rec]
    BY <1>1, <1>4
  <2>2. /\ rec \in Run /\ rec.pc = "finish" /\ rec.content = runs[r].content
        /\ rec.file = runs[r].file
    BY <1>1 DEF Run, RunPc
  <2> HIDE DEF rec
  <2>3. runs' \in [Runs -> Run] /\ runs'[r] = rec /\ \A s \in Runs : s # r => runs'[s] = runs[s]
    BY <1>1, <2>1, <2>2
  <2>4. OwnStep(r) /\ runs'[r].content = runs[r].content
    BY <1>1, <1>2, <2>2, <2>3 DEF OwnStep
  <2> QED
    BY <1>2, <1>3, <1>4, <2>4, InvLocalWritten
<1>5. CASE runs' = [runs EXCEPT ![r].pc = "finish"] /\ UNCHANGED <<local, clock>>
  BY <1>2, <1>3, <1>5, InvLocalFails
<1> QED
  BY <1>4, <1>5 DEF writeLocal

LEMMA MaxOfTwo ==
  ASSUME NEW a \in Int, NEW b \in Int
  PROVE  Max({a, b}) = IF a >= b THEN a ELSE b
BY DEF Max

LEMMA InvHandleResult ==
  ASSUME BackupsInv, NEW r \in Runs, handleResult(r)
  PROVE  BackupsInv'
<1>1. /\ runs \in [Runs -> Run] /\ bak \in Nat /\ reported \in 0 .. bak
      /\ runs[r].content \in Nat /\ runs[r].content <= bak /\ Len(drive) \in Nat
  BY RunTypes
<1>2. /\ runs[r].pc = "finish" /\ runs' = [runs EXCEPT ![r] = Idle]
      /\ UNCHANGED <<nodeVars, googleVars, fileVars, queued, overlapped, restarts>>
  BY DEF handleResult
<1>3. HasRead(r)
  BY <1>2 DEF HasRead
<1>4. runs' \in [Runs -> Run] /\ runs'[r] = Idle /\ \A s \in Runs : s # r => runs'[s] = runs[s]
  BY <1>1, <1>2, IdleRun
<1>5. \/ reported' = reported
      \/ Successful(r) /\ reported' = runs[r].content
  BY <1>1, MaxOfTwo DEF handleResult
<1>6. reported' \in 0 .. bak
  BY <1>1, <1>5
<1>7. TypeOK'
  BY <1>2, <1>4, <1>6 DEF BackupsInv, TypeOK, nodeVars, googleVars, fileVars
<1>8. CountInv' /\ VersionsInv' /\ FilesInv'
  BY <1>2 DEF BackupsInv, CountInv, VersionsInv, FilesInv, nodeVars, googleVars, fileVars
<1>9. RunsInv'
  BY <1>1, <1>2, <1>4, IdleRun DEF BackupsInv, RunsInv, Successful, nodeVars, fileVars
<1>10. FreshInv'
  <2>1. DriveFile' = DriveFile
    BY <1>2, DriveFileStays DEF fileVars
  <2>2. UNCHANGED <<local, drive, overlapped>> /\ Newest' = Newest
    BY <1>2, <2>1 DEF fileVars, Newest
  <2> SUFFICES ASSUME ~overlapped PROVE FreshInv'
    BY <2>2 DEF FreshInv
  <2>3. \A s \in Runs : ~Running(s)' /\ ~HasRead(s)'
    <3> TAKE s \in Runs
    <3>1. s # r => ~Running(s)
      BY <1>3, FreshRun
    <3> QED
      BY <1>4, <3>1, IdleRun DEF Running, HasRead
  <2>4. local.content # Torn => reported' <= Newest.content
    <3>1. local.content # Torn /\ Successful(r) => runs[r].content <= Newest.content
      BY <1>3, FreshRun
    <3>2. local.content # Torn => reported <= Newest.content
      BY DEF BackupsInv, FreshInv
    <3> QED
      BY <1>5, <3>1, <3>2
  <2>5. local.content # Torn =>
          local.content <= Newest.content /\ DriveFile.content <= Newest.content
    BY DEF BackupsInv, FreshInv
  <2> QED
    BY <2>1, <2>2, <2>3, <2>4, <2>5 DEF FreshInv
<1> QED
  BY <1>7, <1>8, <1>9, <1>10 DEF BackupsInv

-----------------------------------------------------------------------------
LEMMA BackupsStep == BackupsInv /\ [Next]_vars => BackupsInv'
<1> SUFFICES ASSUME BackupsInv, [Next]_vars PROVE BackupsInv'
  OBVIOUS
<1>1. CASE NodeChanges
  BY <1>1, InvNodeChanges
<1>2. CASE NodeBacksUp
  BY <1>2, InvNodeBacksUp
<1>3. CASE applyGdriveAccessDenied
  BY <1>3, InvAccessDenied
<1>4. CASE applyGdriveAccessGranted
  BY <1>4, InvAccessGranted
<1>5. CASE BackupCompleted
  BY <1>5, InvBackupCompleted
<1>6. CASE Restart
  BY <1>6, InvRestart
<1>7. ASSUME NEW r \in Runs, StartWork(r) PROVE BackupsInv'
  BY <1>7, InvStartWork
<1>8. ASSUME NEW r \in Runs, doWork(r) PROVE BackupsInv'
  BY <1>8, InvGetEncryptedBackup, InvListBackups, InvUpload, InvOpenLocal, InvWriteLocal,
     InvHandleResult DEF doWork
<1>9. CASE UNCHANGED vars
  <2>1. DriveFile' = DriveFile
    BY <1>9, DriveFileStays DEF vars, fileVars
  <2>2. TypeOK' /\ CountInv' /\ VersionsInv' /\ FilesInv' /\ RunsInv'
    BY <1>9 DEF vars, nodeVars, googleVars, fileVars, BackupsInv, TypeOK, CountInv, VersionsInv,
                FilesInv, RunsInv, Successful
  <2>3. FreshInv'
    BY <1>9, <2>1 DEF vars, nodeVars, googleVars, fileVars, BackupsInv, FreshInv, Newest, HasRead,
                Running, Successful
  <2> QED
    BY <2>2, <2>3 DEF BackupsInv
<1> QED
  BY <1>1, <1>2, <1>3, <1>4, <1>5, <1>6, <1>7, <1>8, <1>9 DEF Next

LEMMA BackupsStart == Init => BackupsInv
<1> SUFFICES ASSUME Init PROVE BackupsInv
  OBVIOUS
<1>1. local.content = 0 /\ local.date = 0 /\ DriveFile = local
  BY DEF Init, DriveFile, None
<1>2. TypeOK
  <2>1. runs \in [Runs -> Run]
    BY IdleRun DEF Init
  <2>2. versions \in Seq(Snapshot) /\ Len(versions) = 0 /\ drive \in Seq(File)
    BY DEF Init
  <2>3. local \in File
    BY DEF Init, File, Content, None
  <2>4. /\ Len(versions) <= MaxVersions /\ bak \in 0 .. Len(versions)
        /\ completed \in 0 .. (MaxVersions + MaxGrants) /\ clock \in Nat /\ reported \in 0 .. bak
        /\ restarts \in 0 .. MaxRestarts /\ grants \in 0 .. MaxGrants
    BY <2>2, BackupsAssumption DEF Init
  <2>5. account \in BOOLEAN /\ enabled \in BOOLEAN /\ queued \in BOOLEAN /\ overlapped \in BOOLEAN
    BY DEF Init
  <2> QED
    BY <2>1, <2>2, <2>3, <2>4, <2>5 DEF TypeOK
<1>3. CountInv
  BY DEF Init, CountInv
<1>4. VersionsInv /\ FilesInv
  <2>1. DOMAIN versions = {} /\ DOMAIN drive = {}
    BY DEF Init
  <2> QED
    BY <1>1, <2>1 DEF Init, VersionsInv, FilesInv
<1>5. RunsInv
  <2>1. Len(drive) = 0
    BY DEF Init
  <2> QED
    BY <2>1, IdleRun DEF Init, RunsInv
<1>6. FreshInv
  <2>1. \A r \in Runs : ~Running(r) /\ ~HasRead(r)
    BY IdleRun DEF Init, Running, HasRead
  <2>2. Newest = local
    BY <1>1 DEF Newest
  <2> QED
    BY <1>1, <2>1, <2>2 DEF Init, FreshInv
<1> QED
  BY <1>2, <1>3, <1>4, <1>5, <1>6 DEF BackupsInv

\* Every reachable state of the backup worker satisfies the invariant.
THEOREM BackupsInvariant == Spec => []BackupsInv
BY BackupsStart, BackupsStep, PTL DEF Spec

-----------------------------------------------------------------------------
\* An older version never replaces a newer one (findBestBackup).
LEMMA OlderDoesNotWin ==
  ASSUME BackupsInv, NEW i \in DOMAIN versions, NEW j \in DOMAIN versions, i <= j
  PROVE  ~Beats(versions[i], versions[j])
<1> DEFINE common == DOMAIN versions[j] \cap DOMAIN versions[i]
           ahead  == {c \in common : versions[j][c] < versions[i][c]}
           behind == {c \in common : versions[j][c] > versions[i][c]}
<1>1. /\ versions[i] \in Snapshot /\ versions[j] \in Snapshot
  BY LenProperties, ElementOfSeq DEF BackupsInv, TypeOK
<1>2. \A c \in common : /\ versions[i][c] \in Int /\ versions[j][c] \in Int
                        /\ versions[i][c] <= versions[j][c]
  <2>1. \A c \in common : versions[i][c] \in Int /\ versions[j][c] \in Int
    BY <1>1 DEF Snapshot
  <2> QED
    BY <2>1 DEF BackupsInv, VersionsInv
<1>3. ahead = {}
  <2>1. \A c \in common : ~(versions[j][c] < versions[i][c])
    <3> HIDE DEF common
    <3> QED
      BY <1>2
  <2> QED
    BY <2>1
<1>4. Cardinality(ahead) = 0
  BY <1>3, FS_EmptySet
<1>5. Cardinality(behind) \in Nat
  <2>1. IsFiniteSet(Channels)
    BY BackupsAssumption
  <2>2. DOMAIN versions[j] \subseteq Channels
    BY <1>1 DEF Snapshot
  <2>3. behind \subseteq Channels
    BY <2>2
  <2>4. IsFiniteSet(behind)
    BY <2>1, <2>3, FS_Subset
  <2> QED
    BY <2>4, FS_CardinalityType
<1>6. Score(versions[j], versions[i]) = Cardinality(ahead) - Cardinality(behind)
  BY DEF Score
<1>7. ~(Score(versions[j], versions[i]) > 0)
  <2> HIDE DEF ahead, behind
  <2> QED
    BY <1>4, <1>5, <1>6
<1> QED
  BY <1>7 DEF Beats

LEMMA VersionIsMap ==
  ASSUME BackupsInv, NEW i \in DOMAIN versions
  PROVE  CommitIndexMap(versions[i])
<1>1. versions[i] \in Snapshot
  BY LenProperties, ElementOfSeq DEF BackupsInv, TypeOK
<1>2. DOMAIN versions[i] \subseteq Channels /\ \A c \in DOMAIN versions[i] : versions[i][c] \in Nat
  BY <1>1 DEF Snapshot
<1>3. IsFiniteSet(DOMAIN versions[i]) /\ Cardinality(DOMAIN versions[i]) <= Cardinality(Channels)
  BY <1>2, BackupsAssumption, FS_Subset
<1>4. Cardinality(DOMAIN versions[i]) \in Nat /\ Cardinality(Channels) \in Nat
  BY <1>3, BackupsAssumption, FS_CardinalityType
<1>5. Cardinality(DOMAIN versions[i]) <= MaxShort
  BY <1>3, <1>4, BackupsAssumption DEF MaxShort
<1> QED
  BY <1>2, <1>3, <1>5 DEF CommitIndexMap

\* What a scan of the two sources finds.
LEMMA ScansAre ==
  ASSUME BackupsInv, NEW t \in BackupTypes
  PROVE  /\ FileOf(t).content \in {Torn} \cup 0 .. bak
         /\ FileOf(t).content > 0 <=> IsOk(Scans[t])
         /\ FileOf(t).content = Torn <=> Scans[t].kind = "failure"
         /\ FileOf(t).content > 0 =>
              /\ FileOf(t).content \in DOMAIN versions
              /\ Scans[t].localCommitIndexMap = versions[FileOf(t).content]
              /\ Scans[t].lastModified = FileOf(t).date
<1> DEFINE f == FileOf(t)
<1>1. bak \in Nat /\ Len(versions) \in Nat /\ bak <= Len(versions) /\ DOMAIN versions = 1 .. Len(versions)
  BY LenProperties DEF BackupsInv, TypeOK
<1>2. f.content \in {Torn} \cup 0 .. bak
  BY <1>1, DriveFileTypes DEF BackupsInv, FilesInv, FileOf
<1>3. Scans[t] = Scan(f)
  BY DEF Scans
<1> HIDE DEF f
<1>4. CASE f.content = None
  <2>1. Scan(f) = NotFound
    BY <1>4 DEF Scan, None, Torn
  <2> QED
    BY <1>2, <1>3, <1>4, <2>1 DEF NotFound, IsOk, None, Torn, f
<1>5. CASE f.content = Torn
  <2>1. Scan(f) = BackupScanFailure
    BY <1>5 DEF Scan, None, Torn
  <2> QED
    BY <1>2, <1>3, <1>5, <2>1 DEF BackupScanFailure, IsOk, None, Torn, f
<1>6. CASE f.content > 0
  <2>1. Scan(f) = BackupScanOk(versions[f.content], f.date)
    BY <1>1, <1>2, <1>6 DEF Scan, None, Torn
  <2>2. f.content \in DOMAIN versions
    BY <1>1, <1>2, <1>6 DEF Torn
  <2>3. /\ Scans[t].kind = "ok" /\ Scans[t].localCommitIndexMap = versions[f.content]
        /\ Scans[t].lastModified = f.date
    BY <1>3, <2>1 DEF BackupScanOk
  <2> QED
    BY <1>2, <1>6, <2>2, <2>3 DEF IsOk, Torn, f
<1> QED
  BY <1>1, <1>2, <1>4, <1>5, <1>6 DEF None, Torn

\* What is restored is a backup that was kept by the loop of findBestBackup, or
\* none, or an unreadable one is reported.
LEMMA RestoredIs ==
  ASSUME BackupsInv, NEW t \in Restored
  PROVE  \/ t = "unreadable" /\ \E u \in BackupTypes : FileOf(u).content = Torn
         \/ /\ t = "none" /\ \A u \in BackupTypes : FileOf(u).content = None
         \/ /\ t \in BackupTypes /\ FileOf(t).content > 0
            /\ \A u \in BackupTypes : FileOf(u).content \in 0 .. bak
            /\ \A u \in BackupTypes : FileOf(u).content > 0 =>
                 /\ ~Beats(versions[FileOf(u).content], versions[FileOf(t).content])
                 /\ \/ u = t
                    \/ FileOf(t).date >= FileOf(u).date
                    \/ Beats(versions[FileOf(t).content], versions[FileOf(u).content])
<1>1. DOMAIN Scans = BackupTypes
  BY DEF Scans
<1>2. ScanResult(Scans)
  BY <1>1, ScansAre, VersionIsMap DEF ScanResult
<1>3. CASE \E u \in BackupTypes : Scans[u].kind = "failure"
  BY <1>1, <1>3, ScansAre DEF Restored, findBestBackup
<1>4. CASE ~ \E u \in BackupTypes : Scans[u].kind = "failure"
  <2>1. PICK order \in sortBackupDateDesc(Scans) : t = Best(Scans, order)
    BY <1>1, <1>4 DEF Restored, findBestBackup
  <2>2. \A u \in BackupTypes : FileOf(u).content \in 0 .. bak
    BY <1>4, ScansAre
  <2>3. \/ t = "none" /\ \A u \in BackupTypes : ~IsOk(Scans[u])
        \/ /\ t \in BackupTypes /\ IsOk(Scans[t])
           /\ \A u \in BackupTypes : IsOk(Scans[u]) =>
                 /\ ~Beats(Map(Scans, u), Map(Scans, t))
                 /\ \/ u = t
                    \/ Scans[t].lastModified >= Scans[u].lastModified
                    \/ Beats(Map(Scans, t), Map(Scans, u))
    BY <1>1, <1>2, <2>1, BestIsKept
  <2>4. bak \in Nat
    BY DEF BackupsInv, TypeOK
  <2>5. CASE t = "none" /\ \A u \in BackupTypes : ~IsOk(Scans[u])
    <3>1. \A u \in BackupTypes : ~(FileOf(u).content > 0)
      BY <2>5, ScansAre
    <3> QED
      BY <2>2, <2>4, <2>5, <3>1 DEF None
  <2>6. CASE /\ t \in BackupTypes /\ IsOk(Scans[t])
             /\ \A u \in BackupTypes : IsOk(Scans[u]) =>
                 /\ ~Beats(Map(Scans, u), Map(Scans, t))
                 /\ \/ u = t
                    \/ Scans[t].lastModified >= Scans[u].lastModified
                    \/ Beats(Map(Scans, t), Map(Scans, u))
    <3>1. FileOf(t).content > 0 /\ Map(Scans, t) = versions[FileOf(t).content]
          /\ Scans[t].lastModified = FileOf(t).date
      BY <2>6, ScansAre DEF Map
    <3>2. \A u \in BackupTypes : FileOf(u).content > 0 =>
            /\ IsOk(Scans[u]) /\ Map(Scans, u) = versions[FileOf(u).content]
            /\ Scans[u].lastModified = FileOf(u).date
      BY ScansAre DEF Map
    <3> QED
      BY <2>2, <2>6, <3>1, <3>2
  <2> QED
    BY <2>3, <2>5, <2>6
<1> QED
  BY <1>3, <1>4

\* As long as workers do not overlap, what findBestBackup restores is not older than
\* what a worker has reported as saved, unless the user is told of an unreadable one.
THEOREM RestoreIsAlwaysFresh == Spec => []RestoreIsFresh
<1>1. BackupsInv => RestoreIsFresh
  <2> SUFFICES ASSUME BackupsInv, ~overlapped, NEW t \in Restored, t # "unreadable"
               PROVE  ContentOf(t) >= reported
    BY DEF RestoreIsFresh
  <2>1. "LOCAL" \in BackupTypes /\ "GDRIVE" \in BackupTypes /\ "none" \notin BackupTypes
    BY DEF BackupTypes
  <2>2. FileOf("LOCAL") = local /\ FileOf("GDRIVE") = DriveFile
    BY DEF FileOf
  <2>3. reported \in Nat /\ bak \in Nat
    BY DEF BackupsInv, TypeOK
  <2>4. local.content # Torn =>
          /\ reported <= Newest.content
          /\ local.content <= Newest.content /\ DriveFile.content <= Newest.content
    BY DEF BackupsInv, FreshInv
  <2>5. CASE t = "none" /\ \A u \in BackupTypes : FileOf(u).content = None
    <3>1. local.content = None /\ DriveFile.content = None
      BY <2>1, <2>2, <2>5
    <3>2. Newest.content = None
      BY <3>1 DEF Newest
    <3>3. ContentOf(t) = None
      BY <2>1, <2>5 DEF ContentOf
    <3> QED
      BY <2>3, <2>4, <3>1, <3>2, <3>3 DEF None, Torn
  <2>6. CASE /\ t \in BackupTypes /\ FileOf(t).content > 0
             /\ \A u \in BackupTypes : FileOf(u).content \in 0 .. bak
             /\ \A u \in BackupTypes : FileOf(u).content > 0 =>
                 /\ ~Beats(versions[FileOf(u).content], versions[FileOf(t).content])
                 /\ \/ u = t
                    \/ FileOf(t).date >= FileOf(u).date
                    \/ Beats(versions[FileOf(t).content], versions[FileOf(u).content])
    <3> DEFINE u == IF local.date > DriveFile.date THEN "LOCAL" ELSE "GDRIVE"
    <3>1. u \in BackupTypes /\ FileOf(u) = Newest
      BY <2>1, <2>2 DEF Newest
    <3>2. t = "LOCAL" \/ t = "GDRIVE"
      BY <2>6 DEF BackupTypes
    <3>3. /\ local.content \in 0 .. bak /\ DriveFile.content \in 0 .. bak
          /\ FileOf(t).content \in 0 .. bak /\ Newest.content \in 0 .. bak
      BY <2>1, <2>2, <2>6, <3>1
    <3>4. reported <= Newest.content /\ FileOf(t).content <= Newest.content
      BY <2>2, <2>3, <2>4, <3>2, <3>3 DEF Torn
    <3>5. Newest.content > 0
      BY <2>3, <2>6, <3>3, <3>4
    <3>6. \/ u = t
          \/ FileOf(t).date >= FileOf(u).date
          \/ Beats(versions[FileOf(t).content], versions[Newest.content])
      BY <2>6, <3>1, <3>5
    <3>7. ContentOf(t) = FileOf(t).content
      BY <2>6 DEF ContentOf
    <3>8. CASE u = t
      BY <2>3, <3>1, <3>3, <3>4, <3>7, <3>8
    <3>9. CASE u # t /\ FileOf(t).date >= FileOf(u).date
      <4>1. /\ local.date \in Nat /\ DriveFile.date \in Nat
            /\ local.date = DriveFile.date => DriveFile.content = None
        BY DriveFileTypes DEF BackupsInv, TypeOK, File
      <4>2. CASE u = "LOCAL"
        BY <2>2, <3>2, <3>9, <4>1, <4>2
      <4>3. CASE u = "GDRIVE"
        <5>1. local.date = DriveFile.date
          BY <2>2, <3>2, <3>9, <4>1, <4>3
        <5>2. Newest = DriveFile
          BY <2>2, <3>1, <4>3
        <5> QED
          BY <3>5, <4>1, <5>1, <5>2 DEF None
      <4> QED
        BY <4>2, <4>3
    <3>10. CASE Beats(versions[FileOf(t).content], versions[Newest.content])
      <4>1. FileOf(t).content \in DOMAIN versions /\ Newest.content \in DOMAIN versions
        BY <2>6, <3>1, <3>5, ScansAre
      <4>2. ~(FileOf(t).content <= Newest.content)
        BY <3>10, <4>1, OlderDoesNotWin
      <4> QED
        BY <3>4, <4>2
    <3> QED
      BY <3>6, <3>8, <3>9, <3>10
  <2> QED
    BY <2>5, <2>6, RestoredIs
<1> QED
  BY <1>1, BackupsInvariant, PTL

\* Of two backups with the same channels findBestBackup restores the later version,
\* whatever overlapping workers have done to their dates.
THEOREM NewerCommitmentsAlwaysWin == Spec => []NewerCommitmentsWin
<1>1. BackupsInv => NewerCommitmentsWin
  <2> DEFINE l == local.content
             g == DriveFile.content
  <2> SUFFICES ASSUME BackupsInv, l > 0, g > 0, DOMAIN versions[l] = DOMAIN versions[g],
                      versions[l] # versions[g], NEW t \in Restored
               PROVE  ContentOf(t) = Max({l, g})
    BY DEF NewerCommitmentsWin
  <2>1. "LOCAL" \in BackupTypes /\ "GDRIVE" \in BackupTypes
    BY DEF BackupTypes
  <2>2. FileOf("LOCAL") = local /\ FileOf("GDRIVE") = DriveFile
    BY DEF FileOf
  <2>3. l \in DOMAIN versions /\ g \in DOMAIN versions
    BY <2>1, <2>2, ScansAre
  <2>4. l \in Nat /\ g \in Nat
    BY <2>3, LenProperties DEF BackupsInv, TypeOK
  <2>5. \A i, j \in {l, g} : i < j => Beats(versions[j], versions[i])
    <3> SUFFICES ASSUME NEW i \in {l, g}, NEW j \in {l, g}, i < j
                 PROVE  Dominates(versions[j], versions[i])
      BY <2>3, VersionIsMap, DominantWins
    <3>1. DOMAIN versions[i] = DOMAIN versions[j] /\ versions[i] # versions[j]
      BY <2>4
    <3>2. /\ \A c \in DOMAIN versions[i] : versions[i][c] \in Nat
          /\ \A c \in DOMAIN versions[j] : versions[j][c] \in Nat
      BY <2>3, VersionIsMap DEF CommitIndexMap
    <3>3. \A c \in DOMAIN versions[i] : versions[i][c] <= versions[j][c]
      BY <2>3, <2>4, <3>1 DEF BackupsInv, VersionsInv
    <3>4. versions[i] \in Snapshot /\ versions[j] \in Snapshot
      BY <2>3, LenProperties, ElementOfSeq DEF BackupsInv, TypeOK
    <3>5. \E c \in DOMAIN versions[i] : versions[i][c] # versions[j][c]
      BY <3>1, <3>4 DEF Snapshot
    <3> QED
      BY <3>1, <3>2, <3>3, <3>5 DEF Dominates
  <2>6. /\ t \in BackupTypes
        /\ \A u \in BackupTypes : FileOf(u).content > 0 =>
              ~Beats(versions[FileOf(u).content], versions[FileOf(t).content])
    <3>1. ~ \E u \in BackupTypes : FileOf(u).content = Torn
      BY <2>2, <2>4 DEF BackupTypes, Torn
    <3>2. ~ \A u \in BackupTypes : FileOf(u).content = None
      BY <2>1, <2>2, <2>4 DEF None
    <3> QED
      BY <3>1, <3>2, RestoredIs
  <2>7. ContentOf(t) = FileOf(t).content /\ FileOf(t).content \in {l, g}
    BY <2>2, <2>6 DEF ContentOf, BackupTypes
  <2>8. /\ ~Beats(versions[l], versions[FileOf(t).content])
        /\ ~Beats(versions[g], versions[FileOf(t).content])
    BY <2>1, <2>2, <2>6
  <2>9. ~(FileOf(t).content < l) /\ ~(FileOf(t).content < g)
    BY <2>5, <2>7, <2>8
  <2>10. Max({l, g}) = IF l >= g THEN l ELSE g
    BY <2>4, MaxOfTwo
  <2> QED
    BY <2>4, <2>7, <2>9, <2>10
<1> QED
  BY <1>1, BackupsInvariant, PTL

-----------------------------------------------------------------------------
(***************************************************************************)
(* RestoreBackup: the results of a scan.                                   *)
(***************************************************************************)

LEMMA OkIsMap ==
  ASSUME NEW f \in Ok
  PROVE  IsOk(f) /\ CommitIndexMap(f.localCommitIndexMap)
<1>1. CASE f \in Found
  <2>1. /\ f = BackupScanOk(f.localCommitIndexMap, f.lastModified)
        /\ CommitIndexMap(f.localCommitIndexMap)
    BY <1>1, RestoreAssumption
  <2>2. f.kind = "ok"
    BY <2>1 DEF BackupScanOk
  <2> QED
    BY <2>1, <2>2 DEF IsOk
<1>2. CASE f \in {Undated(g) : g \in Found}
  <2>1. PICK g \in Found : f = Undated(g)
    BY <1>2
  <2>2. /\ g = BackupScanOk(g.localCommitIndexMap, g.lastModified)
        /\ CommitIndexMap(g.localCommitIndexMap)
    BY RestoreAssumption
  <2> DEFINE m == g.localCommitIndexMap
             d == g.lastModified
  <2>3. f = [BackupScanOk(m, d) EXCEPT !.lastModified = 0]
    BY <2>1, <2>2 DEF Undated
  <2> HIDE DEF m, d
  <2>4. f.kind = "ok" /\ f.localCommitIndexMap = m
    BY <2>3 DEF BackupScanOk
  <2> QED
    BY <2>2, <2>4 DEF IsOk, m
<1> QED
  BY <1>1, <1>2 DEF Ok

LEMMA NotOk ==
  /\ ~IsOk(Pending) /\ ~IsOk(NotFound) /\ ~IsOk(BackupScanFailure)
  /\ Nothing \notin Ok /\ BackupScanFailure # Nothing
<1>1. /\ Pending.kind = "pending" /\ NotFound.kind = "notFound"
      /\ BackupScanFailure.kind = "failure" /\ Nothing.kind = "nothing"
  BY DEF Pending, NotFound, BackupScanFailure, Nothing
<1>2. ~IsOk(Nothing)
  BY <1>1 DEF IsOk
<1> QED
  BY <1>1, <1>2, OkIsMap DEF IsOk

\* A backup that handleBackups puts on display could be read, and no other result
\* known by then beats it.
LEMMA FindingsKnown ==
  ASSUME NEW e, DOMAIN e \subseteq BackupTypes,
         \A t \in DOMAIN e : IsOk(e[t]) => e[t] \in Ok,
         NEW found \in Findings(e), found \in BackupTypes
  PROVE  /\ found \in DOMAIN e /\ IsOk(e[found])
         /\ \A t \in DOMAIN e : IsOk(e[t]) =>
              ~Beats(e[t].localCommitIndexMap, e[found].localCommitIndexMap)
<1>1. \A x : ScanResult(x) /\ found \in findBestBackup(x) =>
        /\ found \in DOMAIN x /\ IsOk(x[found])
        /\ \A t \in DOMAIN x : IsOk(x[t]) =>
             ~Beats(x[t].localCommitIndexMap, x[found].localCommitIndexMap)
  <2> SUFFICES ASSUME NEW x, ScanResult(x), found \in findBestBackup(x)
               PROVE  /\ found \in DOMAIN x /\ IsOk(x[found])
                      /\ \A t \in DOMAIN x : IsOk(x[t]) =>
                           ~Beats(x[t].localCommitIndexMap, x[found].localCommitIndexMap)
    OBVIOUS
  <2>1. found # "none" /\ found # "unreadable"
    BY DEF BackupTypes
  <2>2. PICK order \in sortBackupDateDesc(x) : found = Best(x, order)
    BY <2>1 DEF findBestBackup
  <2> QED
    BY <2>1, <2>2, BestIsKept DEF Map
<1>2. CASE Pending \notin Range(e)
  <2>1. found \in findBestBackup(e)
    BY <1>2 DEF Findings
  <2>2. ScanResult(e)
    BY OkIsMap DEF ScanResult
  <2> QED
    BY <1>1, <2>1, <2>2
<1>3. CASE Pending \in Range(e)
  <2> DEFINE known == [t \in {u \in DOMAIN e : e[u] # Pending} |-> e[t]]
  <2>1. found # "exception"
    BY DEF BackupTypes
  <2>2. found \in findBestBackup(known) /\ \A t \in DOMAIN known : ~IsOk(known[t])
    BY <1>3, <2>1 DEF Findings
  <2>3. ScanResult(known)
    BY <2>2 DEF ScanResult
  <2> HIDE DEF known
  <2> QED
    BY <1>1, <2>2, <2>3
<1> QED
  BY <1>2, <1>3

-----------------------------------------------------------------------------
(***************************************************************************)
(* RestoreBackup: the inductive invariant.                                 *)
(***************************************************************************)

\* What has been found is a backup of one of the two sources, or no backup.
ExpectedInv ==
  /\ DOMAIN expected \subseteq BackupTypes
  /\ \A t \in DOMAIN expected : IsOk(expected[t]) => expected[t] \in Ok

ScanTypes == DOMAIN tmp = BackupTypes /\ scans \in [1 .. MaxScans -> ScanState]

\* Nothing of scan i is under way.
Quiet(i) == scans[i].thread \in {"unused", "ended"} /\ scans[i].drive = "none" /\ ~scans[i].ping

AllQuiet == \A i \in 1 .. MaxScans : Quiet(i)

OthersQuiet(i) == \A j \in 1 .. MaxScans : j # i => Quiet(j)

\* The thread of scan i has been launched.
Launched(i) == scans[i].thread = "start" /\ scans[i].drive = "none" /\ ~scans[i].ping

\* The thread of scan i is at work, or has ended and left a callback that waits
\* until Google Drive has answered.
AtWork(i) ==
  \/ scans[i].thread \in {"local", "drive"} /\ scans[i].drive = "none" /\ ~scans[i].ping
  \/ /\ scans[i].thread = "ended" /\ scans[i].ping
     /\ scans[i].drive # "none" => "GDRIVE" \in DOMAIN expected /\ expected["GDRIVE"] = Pending

\* A step of the screen has one activity at most behind it: an access request, one
\* scan, or the file picker.
StageInv ==
  /\ \A t \in asking : t \in DOMAIN access /\ access[t] = "pending"
  /\ accessPing \/ asking # {} => step = "REQUESTING_ACCESS" /\ accessPing
  /\ picker => step = "SCANNING"
  /\ \/ AllQuiet /\ (step = "REQUESTING_ACCESS" => accessPing)
     \/ /\ step = "REQUESTING_ACCESS" /\ ~accessPing
        /\ \E i \in 1 .. MaxScans : Launched(i) /\ OthersQuiet(i)
     \/ /\ step = "SCANNING" /\ ~picker
        /\ \E i \in 1 .. MaxScans : AtWork(i) /\ OthersQuiet(i)

\* Until the backup is moved, the decrypted file of each source is that of its
\* result; the one on display is one of them, and stays it until it is moved.
FileInv ==
  /\ step # "RESTORE_DONE" =>
       \A t \in DOMAIN expected : IsOk(expected[t]) => tmp[t] = expected[t]
  /\ step = "FOUND" =>
       best # Nothing /\ best.type \in BackupTypes /\ tmp[best.type] = best.result
  /\ restoring = "posted" => step = "FOUND" /\ confirmed = best.result
  /\ restoring = "moved" \/ db # Nothing =>
       step = "RESTORE_DONE" /\ db = confirmed /\ restoreDone
  /\ restoring \in Restoring

RestoreInv == ExpectedInv /\ ScanTypes /\ (~refused => StageInv /\ FileInv)

\* A result is entered: a backup that could be read, or not.
LEMMA PutKeepsExpected ==
  ASSUME ExpectedInv, NEW t \in BackupTypes, NEW r, IsOk(r) => r \in Ok,
         expected' = Put(expected, t, r)
  PROVE  ExpectedInv'
<1>1. /\ DOMAIN expected' = DOMAIN expected \cup {t}
      /\ expected'[t] = r
      /\ \A u \in DOMAIN expected : u # t => expected'[u] = expected[u]
  BY DEF Put
<1> QED
  BY <1>1 DEF ExpectedInv

LEMMA NothingExpected ==
  ASSUME expected' = << >>
  PROVE  ExpectedInv' /\ DOMAIN expected' = {}
BY DEF ExpectedInv

\* The decrypted file follows the result that is recorded.
LEMMA RecordKeeps ==
  ASSUME ExpectedInv, DOMAIN tmp = BackupTypes, NEW t \in BackupTypes,
         NEW r \in Ok \cup {NotFound, BackupScanFailure}, Record(t, r)
  PROVE  /\ ExpectedInv' /\ DOMAIN tmp' = BackupTypes
         /\ expected' = Put(expected, t, r)
         /\ (\A u \in DOMAIN expected : IsOk(expected[u]) => tmp[u] = expected[u])
              => \A u \in DOMAIN expected' : IsOk(expected'[u]) => tmp'[u] = expected'[u]
<1>1. expected' = Put(expected, t, r)
  BY DEF Record
<1>2. ExpectedInv'
  BY <1>1, PutKeepsExpected, NotOk
<1>3. /\ DOMAIN expected' = DOMAIN expected \cup {t}
      /\ expected'[t] = r
      /\ \A u \in DOMAIN expected : u # t => expected'[u] = expected[u]
  BY <1>1 DEF Put
<1>4. /\ DOMAIN tmp' = BackupTypes /\ \A u \in BackupTypes : u # t => tmp'[u] = tmp[u]
      /\ IsOk(r) => tmp'[t] = r
  BY DEF Record
<1>5. ASSUME \A u \in DOMAIN expected : IsOk(expected[u]) => tmp[u] = expected[u],
             NEW u \in DOMAIN expected', IsOk(expected'[u])
      PROVE  tmp'[u] = expected'[u]
  <2>1. CASE u = t
    BY <1>3, <1>4, <1>5, <2>1
  <2>2. CASE u # t
    BY <1>3, <1>4, <1>5, <2>2 DEF ExpectedInv
  <2> QED
    BY <2>1, <2>2
<1> QED
  BY <1>1, <1>2, <1>4, <1>5

\* Access is asked for: each source asked is pending.
LEMMA RequestAccessAsks ==
  ASSUME NEW S \in SUBSET BackupTypes, requestAccess(S), asking = {}
  PROVE  /\ \A t \in asking' : t \in DOMAIN access' /\ access'[t] = "pending"
         /\ asking' # {} => accessPing'
<1>1. PICK l \in {"pending", "granted"} :
        LET a == [t \in S |-> IF t = "LOCAL" THEN l ELSE "pending"] IN
        /\ access' = a
        /\ asking' = asking \cup {t \in S : a[t] = "pending"}
        /\ accessPing' = ("pending" \in Range(a))
  BY DEF requestAccess
<1> DEFINE a == [t \in S |-> IF t = "LOCAL" THEN l ELSE "pending"]
<1>2. DOMAIN a = S
  OBVIOUS
<1>3. access' = a /\ asking' = {t \in S : a[t] = "pending"} /\ accessPing' = ("pending" \in Range(a))
  BY <1>1
<1> HIDE DEF a
<1>4. \A t \in asking' : t \in DOMAIN access' /\ access'[t] = "pending"
  BY <1>2, <1>3
<1>5. "pending" \in Range(a) <=> asking' # {}
  BY <1>2, <1>3 DEF Range
<1>6. accessPing' = ("pending" \in Range(a))
  BY <1>3
<1>7. asking' # {} => accessPing'
  BY <1>5, <1>6, Zenon
<1> QED
  BY <1>4, <1>7

\* The types after startScanning.
LEMMA ScanStarted ==
  ASSUME ScanTypes, NEW a, NEW s, startScanning(a, s)
  PROVE  scans' \in [1 .. MaxScans -> ScanState] /\ ExpectedInv'
<1>1. ExpectedInv'
  BY NothingExpected DEF startScanning
<1>2. CASE "LOCAL" \in DOMAIN a /\ a["LOCAL"] = "granted"
  <2> DEFINE g == "GDRIVE" \in DOMAIN a /\ a["GDRIVE"] = "granted"
  <2>1. PICK i \in 1 .. MaxScans : scans' = [scans EXCEPT ![i].thread = "start", ![i].gdrive = g]
    BY <1>2 DEF startScanning
  <2>2. g \in BOOLEAN
    OBVIOUS
  <2> HIDE DEF g
  <2> QED
    BY ZenonT(40), <1>1, <2>1, <2>2 DEF ScanTypes, ScanState
<1>3. CASE ~("LOCAL" \in DOMAIN a /\ a["LOCAL"] = "granted")
  BY <1>1, <1>3 DEF startScanning, ScanTypes
<1> QED
  BY <1>2, <1>3

\* A scan is launched, or the screen is back at its start (startScanning).
LEMMA StartScanningStages ==
  ASSUME ScanTypes, AllQuiet, NEW a, startScanning(a, "REQUESTING_ACCESS")
  PROVE  /\ scans' \in [1 .. MaxScans -> ScanState]
         /\ ExpectedInv' /\ DOMAIN expected' = {}
         /\ \/ step' = "INIT" /\ AllQuiet'
            \/ /\ step' = "REQUESTING_ACCESS"
               /\ \E i \in 1 .. MaxScans : Launched(i)' /\ OthersQuiet(i)'
<1>1. ExpectedInv' /\ DOMAIN expected' = {}
  BY NothingExpected DEF startScanning
<1>2. CASE "LOCAL" \in DOMAIN a /\ a["LOCAL"] = "granted"
  <2> DEFINE g == "GDRIVE" \in DOMAIN a /\ a["GDRIVE"] = "granted"
  <2>1. PICK i \in 1 .. MaxScans :
          /\ scans[i].thread = "unused"
          /\ scans' = [scans EXCEPT ![i].thread = "start", ![i].gdrive = g]
          /\ step' = "REQUESTING_ACCESS"
    BY <1>2 DEF startScanning
  <2>2. g \in BOOLEAN
    OBVIOUS
  <2> HIDE DEF g
  <2> DEFINE rec == [scans[i] EXCEPT !.thread = "start", !.gdrive = g]
  <2>3. scans \in [1 .. MaxScans -> ScanState] /\ scans[i] \in ScanState
    BY DEF ScanTypes
  <2>4. scans' = [scans EXCEPT ![i] = rec]
    BY <2>1, <2>3
  <2>5. /\ rec \in ScanState /\ rec.thread = "start"
        /\ rec.drive = scans[i].drive /\ rec.ping = scans[i].ping
    BY <2>2, <2>3 DEF ScanState
  <2> HIDE DEF rec
  <2>6. /\ scans' \in [1 .. MaxScans -> ScanState] /\ scans'[i] = rec
        /\ \A j \in 1 .. MaxScans : j # i => scans'[j] = scans[j]
    BY <2>3, <2>4, <2>5
  <2>7. Launched(i)' /\ OthersQuiet(i)'
    BY <2>5, <2>6 DEF Launched, OthersQuiet, AllQuiet, Quiet
  <2> QED
    BY <1>1, <2>1, <2>6, <2>7 DEF ScanTypes
<1>3. CASE ~("LOCAL" \in DOMAIN a /\ a["LOCAL"] = "granted")
  <2>1. step' = "INIT" /\ scans' = scans
    BY <1>3 DEF startScanning
  <2> QED
    BY <1>1, <2>1 DEF ScanTypes, AllQuiet, Quiet
<1> QED
  BY <1>2, <1>3

-----------------------------------------------------------------------------
\* With none but the access request pending, the screen shows no result.
LEMMA StillScreen ==
  ASSUME StageInv, step \notin {"REQUESTING_ACCESS", "SCANNING"}
  PROVE  AllQuiet /\ ~accessPing /\ asking = {} /\ ~picker
BY DEF StageInv

LEMMA InvRequestScan ==
  ASSUME RestoreInv, RequestScan
  PROVE  RestoreInv'
<1>1. /\ step = "INIT" /\ OnScreen /\ UNCHANGED <<picker, tmp, screenVars>>
      /\ \E S \in SUBSET BackupTypes : S # {} /\ requestAccess(S)
  BY DEF RequestScan
<1>2. PICK S \in SUBSET BackupTypes : requestAccess(S)
  BY <1>1
<1>3. asking = {} /\ ~picker
  BY <1>1 DEF OnScreen
<1>4. /\ \A t \in asking' : t \in DOMAIN access' /\ access'[t] = "pending"
      /\ asking' # {} => accessPing'
  BY <1>2, <1>3, RequestAccessAsks
<1>5. UNCHANGED <<restoring, confirmed, db, restoreDone, life, refused, tmp>> /\ ~picker'
  BY <1>1, <1>3 DEF screenVars, history
<1>6. CASE accessPing'
  <2>1. step' = "REQUESTING_ACCESS" /\ UNCHANGED <<expected, scans, best>>
    BY <1>6 DEF RequestScan
  <2>2. ExpectedInv' /\ ScanTypes'
    BY <1>5, <2>1 DEF RestoreInv, ExpectedInv, ScanTypes
  <2>3. ~refused => StageInv'
    <3> HAVE ~refused
    <3>1. AllQuiet
      BY <1>1, StillScreen DEF RestoreInv
    <3>2. AllQuiet'
      BY <2>1, <3>1 DEF AllQuiet, Quiet
    <3> QED
      BY <1>4, <1>5, <1>6, <2>1, <3>2 DEF StageInv
  <2>4. ~refused => FileInv'
    BY <1>1, <1>5, <2>1 DEF RestoreInv, FileInv
  <2> QED
    BY <1>5, <2>2, <2>3, <2>4 DEF RestoreInv
<1>7. CASE ~accessPing'
  <2>1. startScanning(access', "REQUESTING_ACCESS")
    BY <1>7 DEF RequestScan
  <2>2. CASE ~refused
    <3>1. AllQuiet
      BY <1>1, <2>2, StillScreen DEF RestoreInv
    <3>2. /\ scans' \in [1 .. MaxScans -> ScanState]
          /\ ExpectedInv' /\ DOMAIN expected' = {}
          /\ \/ step' = "INIT" /\ AllQuiet'
             \/ /\ step' = "REQUESTING_ACCESS"
                /\ \E i \in 1 .. MaxScans : Launched(i)' /\ OthersQuiet(i)'
      BY <2>1, <3>1, StartScanningStages DEF RestoreInv
    <3>3. StageInv'
      BY <1>4, <1>5, <1>7, <3>2 DEF StageInv
    <3>4. FileInv'
      BY <1>1, <1>5, <2>2, <3>2 DEF RestoreInv, FileInv
    <3> QED
      BY <1>5, <3>2, <3>3, <3>4 DEF RestoreInv, ScanTypes
  <2>3. CASE refused
    BY <1>5, <2>1, <2>3, ScanStarted DEF RestoreInv, ScanTypes
  <2> QED
    BY <2>2, <2>3
<1> QED
  BY <1>6, <1>7

LEMMA InvAnswer ==
  ASSUME RestoreInv, NEW t \in BackupTypes, Answer(t)
  PROVE  RestoreInv'
<1>1. /\ asking' = asking \ {t} /\ t \in asking
      /\ UNCHANGED <<step, accessPing, expected, scans, picker, best, tmp, screenVars>>
      /\ \E a \in {"granted", "denied"} : access' = Put(access, t, a)
  BY DEF Answer
<1>2. UNCHANGED <<restoring, confirmed, db, restoreDone, life, refused>>
  BY <1>1 DEF screenVars, history
<1>3. ExpectedInv' /\ ScanTypes'
  BY <1>1 DEF RestoreInv, ExpectedInv, ScanTypes
<1>4. ~refused => FileInv'
  BY <1>1, <1>2 DEF RestoreInv, FileInv
<1>5. ~refused => StageInv'
  <2> HAVE ~refused
  <2>1. \A u \in asking' : u \in DOMAIN access' /\ access'[u] = "pending"
    BY <1>1 DEF RestoreInv, StageInv, Put
  <2>2. \A i \in 1 .. MaxScans :
          /\ Quiet(i)' <=> Quiet(i)
          /\ Launched(i)' <=> Launched(i)
          /\ AtWork(i)' <=> AtWork(i)
          /\ OthersQuiet(i)' <=> OthersQuiet(i)
    BY <1>1 DEF Quiet, Launched, AtWork, OthersQuiet
  <2>3. AllQuiet' <=> AllQuiet
    BY <2>2 DEF AllQuiet
  <2>4. accessPing' \/ asking' # {} => step' = "REQUESTING_ACCESS" /\ accessPing'
    BY <1>1 DEF RestoreInv, StageInv
  <2>5. picker' => step' = "SCANNING"
    BY <1>1 DEF RestoreInv, StageInv
  <2> QED
    BY <1>1, <2>1, <2>2, <2>3, <2>4, <2>5 DEF RestoreInv, StageInv
<1> QED
  BY <1>2, <1>3, <1>4, <1>5 DEF RestoreInv

LEMMA InvCheckAccess ==
  ASSUME RestoreInv, checkAccessRequestIsDone
  PROVE  RestoreInv'
<1>1. /\ accessPing /\ "pending" \notin Range(access) /\ accessPing' = FALSE
      /\ startScanning(access, step)
      /\ UNCHANGED <<access, asking, picker, tmp, screenVars>>
  BY DEF checkAccessRequestIsDone
<1>2. UNCHANGED <<restoring, confirmed, db, restoreDone, life, refused>>
  BY <1>1 DEF screenVars, history
<1>3. CASE ~refused
  <2>1. step = "REQUESTING_ACCESS" /\ AllQuiet /\ ~picker
    BY <1>1, <1>3 DEF RestoreInv, StageInv
  <2>2. asking = {}
    BY <1>1, <1>3 DEF RestoreInv, StageInv, Range
  <2>3. /\ scans' \in [1 .. MaxScans -> ScanState]
        /\ ExpectedInv' /\ DOMAIN expected' = {}
        /\ \/ step' = "INIT" /\ AllQuiet'
           \/ /\ step' = "REQUESTING_ACCESS"
              /\ \E i \in 1 .. MaxScans : Launched(i)' /\ OthersQuiet(i)'
    BY <1>1, <2>1, StartScanningStages DEF RestoreInv
  <2>4. StageInv'
    BY <1>1, <2>1, <2>2, <2>3 DEF StageInv
  <2>5. FileInv'
    BY <1>1, <1>2, <1>3, <2>1, <2>3 DEF RestoreInv, FileInv
  <2> QED
    BY <1>1, <2>3, <2>4, <2>5 DEF RestoreInv, ScanTypes
<1>4. CASE refused
  BY <1>1, <1>2, <1>4, ScanStarted DEF RestoreInv, ScanTypes
<1> QED
  BY <1>3, <1>4

-----------------------------------------------------------------------------
\* A scan i that is not quiet is the one behind the step of the screen.
LEMMA ActiveScan ==
  ASSUME StageInv, NEW i \in 1 .. MaxScans, ~Quiet(i)
  PROVE  /\ OthersQuiet(i) /\ ~picker /\ ~accessPing /\ asking = {}
         /\ \/ step = "REQUESTING_ACCESS" /\ Launched(i)
            \/ step = "SCANNING" /\ AtWork(i)
<1>1. ~AllQuiet
  BY DEF AllQuiet
<1>2. CASE /\ step = "REQUESTING_ACCESS" /\ ~accessPing
           /\ \E j \in 1 .. MaxScans : Launched(j) /\ OthersQuiet(j)
  <2>1. PICK j \in 1 .. MaxScans : Launched(j) /\ OthersQuiet(j)
    BY <1>2
  <2>2. i = j
    BY <2>1 DEF OthersQuiet
  <2> QED
    BY <1>2, <2>1, <2>2 DEF StageInv
<1>3. CASE /\ step = "SCANNING" /\ ~picker
           /\ \E j \in 1 .. MaxScans : AtWork(j) /\ OthersQuiet(j)
  <2>1. PICK j \in 1 .. MaxScans : AtWork(j) /\ OthersQuiet(j)
    BY <1>3
  <2>2. i = j
    BY <2>1 DEF OthersQuiet
  <2> QED
    BY <1>3, <2>1, <2>2 DEF StageInv
<1> QED
  BY <1>1, <1>2, <1>3 DEF StageInv

\* After a step of the scan behind the screen it is at work, or the screen has a
\* result; nothing else has changed.
LEMMA ScanStepStages ==
  ASSUME NEW i \in 1 .. MaxScans, OthersQuiet(i), ~picker, ~accessPing, asking = {},
         \A j \in 1 .. MaxScans : j # i => scans'[j] = scans[j],
         UNCHANGED <<accessVars, picker>>,
         \/ step' = "SCANNING" /\ AtWork(i)'
         \/ step' \notin {"REQUESTING_ACCESS"} /\ Quiet(i)'
  PROVE  StageInv'
<1>1. OthersQuiet(i)'
  BY DEF OthersQuiet, Quiet
<1>2. ~picker' /\ ~accessPing' /\ asking' = {}
  BY DEF accessVars
<1>3. Quiet(i)' => AllQuiet'
  BY <1>1 DEF OthersQuiet, AllQuiet
<1> QED
  BY <1>1, <1>2, <1>3 DEF StageInv

LEMMA InvThreadStarts ==
  ASSUME RestoreInv, NEW i \in 1 .. MaxScans, ThreadStarts(i)
  PROVE  RestoreInv'
<1>1. /\ scans[i].thread = "start" /\ scans' = [scans EXCEPT ![i].thread = "local"]
      /\ step' = "SCANNING" /\ expected' = Put(expected, "LOCAL", Pending)
      /\ UNCHANGED <<accessVars, picker, best, tmp, screenVars>>
  BY DEF ThreadStarts
<1>2. UNCHANGED <<restoring, confirmed, db, restoreDone, life, refused>>
  BY <1>1 DEF screenVars, history
<1>3. scans \in [1 .. MaxScans -> ScanState] /\ scans[i] \in ScanState
  BY DEF RestoreInv, ScanTypes
<1>4. /\ scans' \in [1 .. MaxScans -> ScanState]
      /\ scans'[i].thread = "local" /\ scans'[i].drive = scans[i].drive
      /\ scans'[i].ping = scans[i].ping
      /\ \A j \in 1 .. MaxScans : j # i => scans'[j] = scans[j]
  BY <1>1, <1>3 DEF ScanState
<1>5. ExpectedInv' /\ ScanTypes'
  <2>1. "LOCAL" \in BackupTypes
    BY DEF BackupTypes
  <2> QED
    BY <1>1, <1>4, <2>1, PutKeepsExpected, NotOk DEF RestoreInv, ScanTypes
<1>6. ~refused => StageInv' /\ FileInv'
  <2> HAVE ~refused
  <2>1. /\ OthersQuiet(i) /\ ~picker /\ ~accessPing /\ asking = {}
        /\ step = "REQUESTING_ACCESS" /\ Launched(i)
    BY <1>1, ActiveScan DEF RestoreInv, Quiet, AtWork
  <2>2. StageInv'
    <3>1. AtWork(i)'
      BY <1>4, <2>1 DEF AtWork, Launched
    <3> QED
      BY <1>1, <1>4, <2>1, <3>1, ScanStepStages
  <2>3. \A t \in DOMAIN expected' : IsOk(expected'[t]) => tmp'[t] = expected'[t]
    BY <1>1, <2>1, NotOk DEF RestoreInv, FileInv, Put
  <2>4. FileInv'
    BY <1>1, <1>2, <2>1, <2>3 DEF RestoreInv, FileInv
  <2> QED
    BY <2>2, <2>4
<1> QED
  BY <1>2, <1>5, <1>6 DEF RestoreInv

LEMMA InvScanLocalDevice ==
  ASSUME RestoreInv, NEW i \in 1 .. MaxScans, scanLocalDevice(i)
  PROVE  RestoreInv'
<1>1. /\ scans[i].thread = "local" /\ scans' = [scans EXCEPT ![i].thread = "drive"]
      /\ \E r \in Found \cup {NotFound, BackupScanFailure} : Record("LOCAL", r)
      /\ UNCHANGED <<step, accessVars, picker, best, screenVars>>
  BY DEF scanLocalDevice
<1>2. UNCHANGED <<restoring, confirmed, db, restoreDone, life, refused>>
  BY <1>1 DEF screenVars, history
<1>3. PICK r \in Ok \cup {NotFound, BackupScanFailure} : Record("LOCAL", r)
  BY <1>1 DEF Ok
<1>4. scans \in [1 .. MaxScans -> ScanState] /\ scans[i] \in ScanState
  BY DEF RestoreInv, ScanTypes
<1>5. /\ scans' \in [1 .. MaxScans -> ScanState]
      /\ scans'[i].thread = "drive" /\ scans'[i].drive = scans[i].drive
      /\ scans'[i].ping = scans[i].ping
      /\ \A j \in 1 .. MaxScans : j # i => scans'[j] = scans[j]
  BY <1>1, <1>4 DEF ScanState
<1>6. "LOCAL" \in BackupTypes
  BY DEF BackupTypes
<1>7. /\ ExpectedInv' /\ DOMAIN tmp' = BackupTypes
      /\ expected' = Put(expected, "LOCAL", r)
      /\ (\A u \in DOMAIN expected : IsOk(expected[u]) => tmp[u] = expected[u])
           => \A u \in DOMAIN expected' : IsOk(expected'[u]) => tmp'[u] = expected'[u]
  BY <1>3, <1>6, RecordKeeps DEF RestoreInv, ScanTypes
<1>8. ~refused => StageInv' /\ FileInv'
  <2> HAVE ~refused
  <2>1. /\ OthersQuiet(i) /\ ~picker /\ ~accessPing /\ asking = {}
        /\ step = "SCANNING" /\ AtWork(i)
    BY <1>1, ActiveScan DEF RestoreInv, Quiet, Launched
  <2>2. StageInv'
    <3>1. AtWork(i)'
      BY <1>1, <1>5, <2>1 DEF AtWork
    <3> QED
      BY <1>1, <1>5, <2>1, <3>1, ScanStepStages
  <2>3. FileInv'
    BY <1>1, <1>2, <1>7, <2>1 DEF RestoreInv, FileInv
  <2> QED
    BY <2>2, <2>3
<1> QED
  BY <1>2, <1>5, <1>7, <1>8 DEF RestoreInv, ScanTypes

LEMMA InvScanGoogleDrive ==
  ASSUME RestoreInv, NEW i \in 1 .. MaxScans, scanGoogleDrive(i)
  PROVE  RestoreInv'
<1> DEFINE d == IF scans[i].gdrive THEN "list" ELSE "none"
<1>1. /\ scans[i].thread = "drive"
      /\ scans' = [scans EXCEPT ![i].thread = "ended", ![i].ping = TRUE, ![i].drive = d]
      /\ expected' = IF scans[i].gdrive THEN Put(expected, "GDRIVE", Pending) ELSE expected
      /\ UNCHANGED <<step, accessVars, picker, best, tmp, screenVars>>
  BY DEF scanGoogleDrive
<1>2. UNCHANGED <<restoring, confirmed, db, restoreDone, life, refused>>
  BY <1>1 DEF screenVars, history
<1>3. scans \in [1 .. MaxScans -> ScanState] /\ scans[i] \in ScanState
  BY DEF RestoreInv, ScanTypes
<1>4. d \in {"none", "list", "content"} /\ (d # "none" => scans[i].gdrive)
  OBVIOUS
<1> HIDE DEF d
<1>5. /\ scans' \in [1 .. MaxScans -> ScanState]
      /\ scans'[i].thread = "ended" /\ scans'[i].drive = d
      /\ scans'[i].ping
      /\ \A j \in 1 .. MaxScans : j # i => scans'[j] = scans[j]
  <2> DEFINE rec == [scans[i] EXCEPT !.thread = "ended", !.ping = TRUE, !.drive = d]
  <2>1. scans' = [scans EXCEPT ![i] = rec]
    BY <1>1, <1>3
  <2>2. rec \in ScanState /\ rec.thread = "ended" /\ rec.drive = d /\ rec.ping
    BY <1>3, <1>4 DEF ScanState
  <2> HIDE DEF rec
  <2> QED
    BY <1>3, <2>1, <2>2
<1>6. "GDRIVE" \in BackupTypes
  BY DEF BackupTypes
<1>7. ExpectedInv' /\ ScanTypes'
  <2>1. ScanTypes'
    BY <1>1, <1>5 DEF RestoreInv, ScanTypes
  <2>2. CASE scans[i].gdrive
    BY <1>1, <1>6, <2>1, <2>2, PutKeepsExpected, NotOk DEF RestoreInv
  <2>3. CASE ~scans[i].gdrive
    BY <1>1, <2>1, <2>3 DEF RestoreInv, ExpectedInv
  <2> QED
    BY <2>2, <2>3
<1>8. ~refused => StageInv' /\ FileInv'
  <2> HAVE ~refused
  <2>1. /\ OthersQuiet(i) /\ ~picker /\ ~accessPing /\ asking = {}
        /\ step = "SCANNING" /\ AtWork(i)
    BY <1>1, ActiveScan DEF RestoreInv, Quiet, Launched
  <2>2. d # "none" => "GDRIVE" \in DOMAIN expected' /\ expected'["GDRIVE"] = Pending
    BY <1>1, <1>4 DEF Put
  <2>3. AtWork(i)'
    BY <1>5, <2>2 DEF AtWork
  <2>4. StageInv'
    BY <1>1, <1>5, <2>1, <2>3, ScanStepStages
  <2>5. \A t \in DOMAIN expected' : IsOk(expected'[t]) => tmp'[t] = expected'[t]
    <3>1. \A t \in DOMAIN expected : IsOk(expected[t]) => tmp[t] = expected[t]
      BY <2>1 DEF RestoreInv, FileInv
    <3>2. CASE scans[i].gdrive
      BY <1>1, <3>1, <3>2, NotOk DEF Put
    <3>3. CASE ~scans[i].gdrive
      BY <1>1, <3>1, <3>3
    <3> QED
      BY <3>2, <3>3
  <2>6. FileInv'
    BY <1>1, <1>2, <2>1, <2>5 DEF RestoreInv, FileInv
  <2> QED
    BY <2>4, <2>6
<1> QED
  BY <1>2, <1>7, <1>8 DEF RestoreInv

\* One field of scan i changes, the Drive request.
LEMMA DriveEnds ==
  ASSUME ScanTypes, NEW i \in 1 .. MaxScans, NEW d \in {"none", "list", "content"},
         scans' = [scans EXCEPT ![i].drive = d]
  PROVE  /\ scans' \in [1 .. MaxScans -> ScanState]
         /\ scans'[i].drive = d /\ scans'[i].thread = scans[i].thread
         /\ scans'[i].ping = scans[i].ping
         /\ \A j \in 1 .. MaxScans : j # i => scans'[j] = scans[j]
<1>1. scans \in [1 .. MaxScans -> ScanState] /\ scans[i] \in ScanState
  BY DEF ScanTypes
<1> QED
  BY <1>1 DEF ScanState

\* A Drive request of scan i is in flight: the scan waits for it.
LEMMA DriveIsAwaited ==
  ASSUME StageInv, NEW i \in 1 .. MaxScans, scans[i].drive # "none"
  PROVE  /\ OthersQuiet(i) /\ ~picker /\ ~accessPing /\ asking = {} /\ step = "SCANNING"
         /\ scans[i].thread = "ended" /\ scans[i].ping
         /\ "GDRIVE" \in DOMAIN expected /\ expected["GDRIVE"] = Pending
<1>1. ~Quiet(i) /\ ~Launched(i)
  BY DEF Quiet, Launched
<1> QED
  BY <1>1, ActiveScan DEF AtWork

LEMMA InvDriveListed ==
  ASSUME RestoreInv, NEW i \in 1 .. MaxScans, DriveListed(i)
  PROVE  RestoreInv'
<1>1. /\ scans[i].drive = "list" /\ UNCHANGED <<step, accessVars, picker, best, tmp, screenVars>>
      /\ \/ scans' = [scans EXCEPT ![i].drive = "content"] /\ UNCHANGED expected
         \/ /\ scans' = [scans EXCEPT ![i].drive = "none"]
            /\ expected' = Put(expected, "GDRIVE", NotFound)
  BY DEF DriveListed
<1>2. UNCHANGED <<restoring, confirmed, db, restoreDone, life, refused>>
  BY <1>1 DEF screenVars, history
<1>3. "GDRIVE" \in BackupTypes
  BY DEF BackupTypes
<1>4. CASE scans' = [scans EXCEPT ![i].drive = "content"] /\ UNCHANGED expected
  <2>1. /\ scans' \in [1 .. MaxScans -> ScanState]
        /\ scans'[i].drive = "content" /\ scans'[i].thread = scans[i].thread
        /\ scans'[i].ping = scans[i].ping
        /\ \A j \in 1 .. MaxScans : j # i => scans'[j] = scans[j]
    BY <1>4, DriveEnds DEF RestoreInv
  <2>2. ExpectedInv' /\ ScanTypes'
    BY <1>1, <1>4, <2>1 DEF RestoreInv, ExpectedInv, ScanTypes
  <2>3. ~refused => StageInv' /\ FileInv'
    <3> HAVE ~refused
    <3>1. /\ OthersQuiet(i) /\ ~picker /\ ~accessPing /\ asking = {} /\ step = "SCANNING"
          /\ scans[i].thread = "ended" /\ scans[i].ping
          /\ "GDRIVE" \in DOMAIN expected /\ expected["GDRIVE"] = Pending
      BY <1>1, DriveIsAwaited DEF RestoreInv
    <3>2. AtWork(i)'
      BY <1>4, <2>1, <3>1 DEF AtWork
    <3>3. StageInv'
      BY <1>1, <2>1, <3>1, <3>2, ScanStepStages
    <3>4. FileInv'
      BY <1>1, <1>2, <1>4 DEF RestoreInv, FileInv
    <3> QED
      BY <3>3, <3>4
  <2> QED
    BY <1>2, <2>2, <2>3 DEF RestoreInv
<1>5. CASE /\ scans' = [scans EXCEPT ![i].drive = "none"]
           /\ expected' = Put(expected, "GDRIVE", NotFound)
  <2>1. /\ scans' \in [1 .. MaxScans -> ScanState]
        /\ scans'[i].drive = "none" /\ scans'[i].thread = scans[i].thread
        /\ scans'[i].ping = scans[i].ping
        /\ \A j \in 1 .. MaxScans : j # i => scans'[j] = scans[j]
    BY <1>5, DriveEnds DEF RestoreInv
  <2>2. ExpectedInv' /\ ScanTypes'
    BY <1>1, <1>3, <1>5, <2>1, PutKeepsExpected, NotOk DEF RestoreInv, ScanTypes
  <2>3. ~refused => StageInv' /\ FileInv'
    <3> HAVE ~refused
    <3>1. /\ OthersQuiet(i) /\ ~picker /\ ~accessPing /\ asking = {} /\ step = "SCANNING"
          /\ scans[i].thread = "ended" /\ scans[i].ping
      BY <1>1, DriveIsAwaited DEF RestoreInv
    <3>2. AtWork(i)'
      BY <2>1, <3>1 DEF AtWork
    <3>3. StageInv'
      BY <1>1, <2>1, <3>1, <3>2, ScanStepStages
    <3>4. \A t \in DOMAIN expected' : IsOk(expected'[t]) => tmp'[t] = expected'[t]
      BY <1>1, <1>5, <3>1, NotOk DEF RestoreInv, FileInv, Put
    <3>5. FileInv'
      BY <1>1, <1>2, <3>1, <3>4 DEF RestoreInv, FileInv
    <3> QED
      BY <3>3, <3>5
  <2> QED
    BY <1>2, <2>2, <2>3 DEF RestoreInv
<1> QED
  BY <1>1, <1>4, <1>5

LEMMA InvDriveDenied ==
  ASSUME RestoreInv, NEW i \in 1 .. MaxScans, DriveDenied(i)
  PROVE  RestoreInv'
<1>1. /\ refused' = TRUE /\ expected' = << >> /\ tmp' = tmp
      /\ scans' = [scans EXCEPT ![i].drive = "none"]
  BY DEF DriveDenied
<1>2. scans' \in [1 .. MaxScans -> ScanState]
  BY <1>1, DriveEnds DEF RestoreInv
<1> QED
  BY <1>1, <1>2, NothingExpected DEF RestoreInv, ScanTypes

LEMMA InvDriveContent ==
  ASSUME RestoreInv, NEW i \in 1 .. MaxScans, DriveContent(i)
  PROVE  RestoreInv'
<1>1. /\ scans[i].drive = "content" /\ scans' = [scans EXCEPT ![i].drive = "none"]
      /\ \E r \in Found \cup {NotFound, BackupScanFailure} : Record("GDRIVE", r)
      /\ UNCHANGED <<step, accessVars, picker, best, screenVars>>
  BY DEF DriveContent
<1>2. UNCHANGED <<restoring, confirmed, db, restoreDone, life, refused>>
  BY <1>1 DEF screenVars, history
<1>3. PICK r \in Ok \cup {NotFound, BackupScanFailure} : Record("GDRIVE", r)
  BY <1>1 DEF Ok
<1>4. /\ scans' \in [1 .. MaxScans -> ScanState]
      /\ scans'[i].drive = "none" /\ scans'[i].thread = scans[i].thread
      /\ scans'[i].ping = scans[i].ping
      /\ \A j \in 1 .. MaxScans : j # i => scans'[j] = scans[j]
  BY <1>1, DriveEnds DEF RestoreInv
<1>5. "GDRIVE" \in BackupTypes
  BY DEF BackupTypes
<1>6. /\ ExpectedInv' /\ DOMAIN tmp' = BackupTypes
      /\ expected' = Put(expected, "GDRIVE", r)
      /\ (\A u \in DOMAIN expected : IsOk(expected[u]) => tmp[u] = expected[u])
           => \A u \in DOMAIN expected' : IsOk(expected'[u]) => tmp'[u] = expected'[u]
  BY <1>3, <1>5, RecordKeeps DEF RestoreInv, ScanTypes
<1>7. ~refused => StageInv' /\ FileInv'
  <2> HAVE ~refused
  <2>1. /\ OthersQuiet(i) /\ ~picker /\ ~accessPing /\ asking = {} /\ step = "SCANNING"
        /\ scans[i].thread = "ended" /\ scans[i].ping
    BY <1>1, DriveIsAwaited DEF RestoreInv
  <2>2. AtWork(i)'
    BY <1>4, <2>1 DEF AtWork
  <2>3. StageInv'
    BY <1>1, <1>4, <2>1, <2>2, ScanStepStages
  <2>4. FileInv'
    BY <1>1, <1>2, <1>6, <2>1 DEF RestoreInv, FileInv
  <2> QED
    BY <2>3, <2>4
<1> QED
  BY <1>2, <1>4, <1>6, <1>7 DEF RestoreInv, ScanTypes

-----------------------------------------------------------------------------
\* What the screen shows once a choice is made (handleBackups): a backup it shows
\* is the result of its source, and no other result beats it.
LEMMA HandleBackupsShows ==
  ASSUME ExpectedInv', NEW e, e = expected', NEW b, handleBackups(e, b)
  PROVE  /\ step' \in {"FOUND", "NOT_FOUND", "FOUND_ERROR", "INIT"}
         /\ step' = "FOUND" =>
              /\ best' # Nothing /\ best'.type \in BackupTypes /\ best'.type \in DOMAIN expected'
              /\ best'.result = expected'[best'.type] /\ IsOk(best'.result)
              /\ \A t \in DOMAIN expected' : IsOk(expected'[t]) =>
                   ~Beats(expected'[t].localCommitIndexMap, best'.result.localCommitIndexMap)
<1>1. PICK found \in Findings(e) :
        \/ /\ found \in BackupTypes
           /\ step' = "FOUND" /\ best' = [type |-> found, result |-> e[found]]
        \/ found = "none" /\ step' = "NOT_FOUND" /\ best' = Nothing
        \/ found = "unreadable" /\ step' = "FOUND_ERROR" /\ best' = b
        \/ found = "exception" /\ step' = "INIT" /\ best' = b
  BY DEF handleBackups
<1>2. CASE /\ found \in BackupTypes
           /\ step' = "FOUND" /\ best' = [type |-> found, result |-> e[found]]
  <2>1. /\ found \in DOMAIN e /\ IsOk(e[found])
        /\ \A t \in DOMAIN e : IsOk(e[t]) =>
             ~Beats(e[t].localCommitIndexMap, e[found].localCommitIndexMap)
    BY <1>2, FindingsKnown DEF ExpectedInv
  <2>2. DOMAIN best' = {"type", "result"} /\ DOMAIN Nothing = {"kind"}
    BY <1>2 DEF Nothing
  <2>3. best' # Nothing
    BY <2>2
  <2> QED
    BY <1>2, <2>1, <2>3
<1> QED
  BY <1>1, <1>2

LEMMA InvCheckScanningDone ==
  ASSUME RestoreInv, NEW i \in 1 .. MaxScans, checkScanningDone(i)
  PROVE  RestoreInv'
<1>1. /\ scans[i].ping /\ UNCHANGED <<accessVars, expected, picker, tmp, screenVars>>
      /\ \/ /\ expected = << >> /\ step' = "NOT_FOUND"
            /\ scans' = [scans EXCEPT ![i].ping = FALSE]
         \/ /\ Pending \notin Range(expected) /\ handleBackups(expected, Nothing)
            /\ scans' = [scans EXCEPT ![i].ping = FALSE]
         \/ Pending \in Range(expected) /\ best' = Nothing /\ UNCHANGED <<step, scans>>
  BY DEF checkScanningDone
<1>2. UNCHANGED <<restoring, confirmed, db, restoreDone, life, refused>>
  BY <1>1 DEF screenVars, history
<1>3. ExpectedInv'
  BY <1>1 DEF RestoreInv, ExpectedInv
<1>4. scans \in [1 .. MaxScans -> ScanState] /\ scans[i] \in ScanState
  BY DEF RestoreInv, ScanTypes
<1>5. ~refused => /\ OthersQuiet(i) /\ ~picker /\ ~accessPing /\ asking = {}
                  /\ step = "SCANNING" /\ AtWork(i) /\ scans[i].thread = "ended"
  <2>1. ~Quiet(i) /\ ~Launched(i)
    BY <1>1 DEF Quiet, Launched
  <2>2. AtWork(i) => scans[i].thread = "ended"
    BY <1>1 DEF AtWork
  <2> QED
    BY <2>1, <2>2, ActiveScan DEF RestoreInv
<1>6. CASE Pending \in Range(expected) /\ best' = Nothing /\ UNCHANGED <<step, scans>>
  <2>1. ScanTypes'
    BY <1>1, <1>6 DEF RestoreInv, ScanTypes
  <2>2. ~refused => StageInv' /\ FileInv'
    <3> HAVE ~refused
    <3>1. AtWork(i)'
      BY <1>1, <1>5, <1>6 DEF AtWork
    <3>2. StageInv'
      BY <1>1, <1>5, <1>6, <3>1, ScanStepStages
    <3>3. FileInv'
      BY <1>1, <1>2, <1>5, <1>6 DEF RestoreInv, FileInv
    <3> QED
      BY <3>2, <3>3
  <2> QED
    BY <1>2, <1>3, <2>1, <2>2 DEF RestoreInv
<1>7. CASE /\ scans' = [scans EXCEPT ![i].ping = FALSE]
           /\ Pending \notin Range(expected)
           /\ \/ step' = "NOT_FOUND"
              \/ handleBackups(expected, Nothing)
  <2>1. /\ scans' \in [1 .. MaxScans -> ScanState]
        /\ scans'[i].thread = scans[i].thread /\ scans'[i].drive = scans[i].drive
        /\ ~scans'[i].ping
        /\ \A j \in 1 .. MaxScans : j # i => scans'[j] = scans[j]
    BY <1>4, <1>7 DEF ScanState
  <2>2. ScanTypes'
    BY <1>1, <2>1 DEF RestoreInv, ScanTypes
  <2>3. /\ step' \in {"FOUND", "NOT_FOUND", "FOUND_ERROR", "INIT"}
        /\ step' = "FOUND" =>
             /\ best' # Nothing /\ best'.type \in BackupTypes /\ best'.type \in DOMAIN expected'
             /\ best'.result = expected'[best'.type] /\ IsOk(best'.result)
    BY <1>1, <1>3, <1>7, HandleBackupsShows
  <2>4. ~refused => StageInv' /\ FileInv'
    <3> HAVE ~refused
    <3>1. scans[i].drive = "none"
      BY <1>1, <1>5, <1>7 DEF AtWork, Range
    <3>2. Quiet(i)'
      BY <1>5, <2>1, <3>1 DEF Quiet
    <3>3. StageInv'
      BY <1>1, <1>5, <2>1, <2>3, <3>2, ScanStepStages
    <3>4. \A t \in DOMAIN expected' : IsOk(expected'[t]) => tmp'[t] = expected'[t]
      BY <1>1, <1>5 DEF RestoreInv, FileInv
    <3>5. FileInv'
      BY <1>2, <1>5, <2>3, <3>4 DEF RestoreInv, FileInv
    <3> QED
      BY <3>3, <3>5
  <2> QED
    BY <1>2, <1>3, <2>2, <2>4 DEF RestoreInv
<1>8. expected = << >> => Pending \notin Range(expected)
  BY DEF Range
<1> QED
  BY <1>1, <1>6, <1>7, <1>8

LEMMA InvBrowse ==
  ASSUME RestoreInv, Browse
  PROVE  RestoreInv'
<1>1. /\ step = "INIT" /\ step' = "SCANNING" /\ picker' = TRUE
      /\ expected' = Put(expected, "LOCAL", Pending)
      /\ UNCHANGED <<accessVars, scans, best, tmp, screenVars>>
  BY DEF Browse
<1>2. UNCHANGED <<restoring, confirmed, db, restoreDone, life, refused>>
  BY <1>1 DEF screenVars, history
<1>3. "LOCAL" \in BackupTypes
  BY DEF BackupTypes
<1>4. ExpectedInv' /\ ScanTypes'
  BY <1>1, <1>3, PutKeepsExpected, NotOk DEF RestoreInv, ScanTypes
<1>5. ~refused => StageInv' /\ FileInv'
  <2> HAVE ~refused
  <2>1. AllQuiet /\ ~accessPing /\ asking = {}
    BY <1>1, StillScreen DEF RestoreInv
  <2>2. AllQuiet' /\ ~accessPing' /\ asking' = {}
    BY <1>1, <2>1 DEF AllQuiet, Quiet, accessVars
  <2>3. StageInv'
    BY <1>1, <2>2 DEF StageInv
  <2>4. \A t \in DOMAIN expected' : IsOk(expected'[t]) => tmp'[t] = expected'[t]
    BY <1>1, NotOk DEF RestoreInv, FileInv, Put
  <2>5. FileInv'
    BY <1>1, <1>2, <2>4 DEF RestoreInv, FileInv
  <2> QED
    BY <2>3, <2>5
<1> QED
  BY <1>2, <1>4, <1>5 DEF RestoreInv

LEMMA InvOnActivityResult ==
  ASSUME RestoreInv, onActivityResult
  PROVE  RestoreInv'
<1>1. /\ picker /\ picker' = FALSE /\ UNCHANGED <<accessVars, scans, screenVars>>
      /\ \E r \in {Undated(f) : f \in Found} \cup {NotFound, BackupScanFailure} :
           Record("LOCAL", r) /\ handleBackups(Put(expected, "LOCAL", r), best)
  BY DEF onActivityResult
<1>2. UNCHANGED <<restoring, confirmed, db, restoreDone, life, refused>>
  BY <1>1 DEF screenVars, history
<1>3. PICK r \in Ok \cup {NotFound, BackupScanFailure} :
        Record("LOCAL", r) /\ handleBackups(Put(expected, "LOCAL", r), best)
  BY <1>1 DEF Ok
<1>4. "LOCAL" \in BackupTypes
  BY DEF BackupTypes
<1>5. /\ ExpectedInv' /\ DOMAIN tmp' = BackupTypes
      /\ expected' = Put(expected, "LOCAL", r)
      /\ (\A u \in DOMAIN expected : IsOk(expected[u]) => tmp[u] = expected[u])
           => \A u \in DOMAIN expected' : IsOk(expected'[u]) => tmp'[u] = expected'[u]
  BY <1>3, <1>4, RecordKeeps DEF RestoreInv, ScanTypes
<1>6. /\ step' \in {"FOUND", "NOT_FOUND", "FOUND_ERROR", "INIT"}
      /\ step' = "FOUND" =>
           /\ best' # Nothing /\ best'.type \in BackupTypes /\ best'.type \in DOMAIN expected'
           /\ best'.result = expected'[best'.type] /\ IsOk(best'.result)
  BY <1>3, <1>5, HandleBackupsShows
<1>7. ScanTypes'
  BY <1>1, <1>5 DEF RestoreInv, ScanTypes
<1>8. ~refused => StageInv' /\ FileInv'
  <2> HAVE ~refused
  <2>1. step = "SCANNING" /\ AllQuiet /\ ~accessPing /\ asking = {}
    BY <1>1 DEF RestoreInv, StageInv
  <2>2. AllQuiet' /\ ~accessPing' /\ asking' = {} /\ ~picker'
    BY <1>1, <2>1 DEF AllQuiet, Quiet, accessVars
  <2>3. StageInv'
    BY <1>6, <2>2 DEF StageInv
  <2>4. FileInv'
    BY <1>2, <1>5, <1>6, <2>1 DEF RestoreInv, FileInv
  <2> QED
    BY <2>3, <2>4
<1> QED
  BY <1>2, <1>5, <1>7, <1>8 DEF RestoreInv

-----------------------------------------------------------------------------
\* The buttons and the restoration leave the access requests and the scans alone.
LEMMA StageKept ==
  ASSUME StageInv, UNCHANGED <<access, asking, accessPing, expected, scans>>,
         picker' => picker, step' = step
  PROVE  StageInv'
<1>1. \A i \in 1 .. MaxScans :
        /\ Quiet(i)' <=> Quiet(i)
        /\ Launched(i)' <=> Launched(i)
        /\ AtWork(i)' <=> AtWork(i)
        /\ OthersQuiet(i)' <=> OthersQuiet(i)
  BY DEF Quiet, Launched, AtWork, OthersQuiet
<1>2. AllQuiet' <=> AllQuiet
  BY <1>1 DEF AllQuiet
<1> QED
  BY <1>1, <1>2 DEF StageInv

\* The screen turns to a step that nothing is behind.
LEMMA StageLeft ==
  ASSUME StageInv, UNCHANGED <<access, asking, accessPing, expected, scans, picker>>,
         {step, step'} \cap {"REQUESTING_ACCESS", "SCANNING"} = {}
  PROVE  StageInv'
<1>1. AllQuiet /\ ~accessPing /\ asking = {} /\ ~picker
  BY StillScreen
<1>2. AllQuiet'
  BY <1>1 DEF AllQuiet, Quiet
<1> QED
  BY <1>1, <1>2 DEF StageInv

LEMMA InvPickerCancelled ==
  ASSUME RestoreInv, PickerCancelled
  PROVE  RestoreInv'
<1>1. /\ picker' = FALSE
      /\ UNCHANGED <<step, access, asking, accessPing, expected, scans, best, tmp, restoring,
                     confirmed, db, restoreDone, life, refused>>
  BY DEF PickerCancelled, accessVars
<1>2. ExpectedInv' /\ ScanTypes'
  BY <1>1 DEF RestoreInv, ExpectedInv, ScanTypes
<1>3. ~refused => StageInv' /\ FileInv'
  BY <1>1, StageKept DEF RestoreInv, FileInv
<1> QED
  BY <1>1, <1>2, <1>3 DEF RestoreInv

LEMMA InvTryAgain ==
  ASSUME RestoreInv, TryAgain
  PROVE  RestoreInv'
<1>1. /\ step \in {"FOUND", "FOUND_ERROR", "NOT_FOUND"} /\ restoring = "no" /\ step' = "INIT"
      /\ UNCHANGED <<access, asking, accessPing, expected, scans, picker, best, tmp, restoring,
                     confirmed, db, restoreDone, life, refused>>
  BY DEF TryAgain, accessVars, screenVars, history
<1>2. ExpectedInv' /\ ScanTypes'
  BY <1>1 DEF RestoreInv, ExpectedInv, ScanTypes
<1>3. ~refused => StageInv' /\ FileInv'
  BY <1>1, StageLeft DEF RestoreInv, FileInv
<1> QED
  BY <1>1, <1>2, <1>3 DEF RestoreInv

\* The screen is left: nothing of what it has done changes.
LEMMA InvLeave ==
  ASSUME RestoreInv, UNCHANGED <<step, scanVars, restoring, confirmed, db, history>>,
         restoreDone' = restoreDone \/ restoreDone' = TRUE
  PROVE  RestoreInv'
<1>1. UNCHANGED <<step, access, asking, accessPing, expected, scans, picker, best, tmp, restoring,
                  confirmed, db, refused>>
  BY DEF scanVars, accessVars, history
<1>2. ExpectedInv' /\ ScanTypes'
  BY <1>1 DEF RestoreInv, ExpectedInv, ScanTypes
<1>3. ~refused => StageInv' /\ FileInv'
  BY <1>1, StageKept DEF RestoreInv, FileInv
<1> QED
  BY <1>1, <1>2, <1>3 DEF RestoreInv

LEMMA InvRestoreBestBackup ==
  ASSUME RestoreInv, restoreBestBackup
  PROVE  RestoreInv'
<1>1. /\ step = "FOUND" /\ restoring' = "posted" /\ confirmed' = best.result /\ restoring = "no"
      /\ UNCHANGED <<step, access, asking, accessPing, expected, scans, picker, best, tmp, db,
                     restoreDone, life, refused>>
  BY DEF restoreBestBackup, scanVars, accessVars, history
<1>2. ExpectedInv' /\ ScanTypes'
  BY <1>1 DEF RestoreInv, ExpectedInv, ScanTypes
<1>3. ~refused => StageInv' /\ FileInv'
  BY <1>1, StageKept DEF RestoreInv, FileInv, Restoring
<1> QED
  BY <1>1, <1>2, <1>3 DEF RestoreInv

LEMMA InvMoveFile ==
  ASSUME RestoreInv, MoveFile
  PROVE  RestoreInv'
<1>1. /\ restoring = "posted"
      /\ UNCHANGED <<access, asking, accessPing, expected, scans, picker, best, confirmed, refused>>
      /\ \/ /\ best # Nothing
            /\ db' = tmp[best.type] /\ tmp' = [tmp EXCEPT ![best.type] = Nothing]
            /\ step' = "RESTORE_DONE" /\ restoring' = "moved" /\ restoreDone' = TRUE
         \/ restoring' = "no" /\ UNCHANGED <<step, tmp, db, restoreDone>>
  BY DEF MoveFile, accessVars, history
<1>2. ExpectedInv' /\ ScanTypes'
  BY <1>1 DEF RestoreInv, ExpectedInv, ScanTypes
<1>3. ~refused => StageInv' /\ FileInv'
  <2> HAVE ~refused
  <2>1. /\ step = "FOUND" /\ confirmed = best.result
        /\ best.type \in BackupTypes /\ tmp[best.type] = best.result
    BY <1>1 DEF RestoreInv, FileInv
  <2>2. CASE /\ db' = tmp[best.type] /\ tmp' = [tmp EXCEPT ![best.type] = Nothing]
             /\ step' = "RESTORE_DONE" /\ restoring' = "moved" /\ restoreDone' = TRUE
    BY <1>1, <2>1, <2>2, StageLeft DEF RestoreInv, FileInv, Restoring
  <2>3. CASE restoring' = "no" /\ UNCHANGED <<step, tmp, db, restoreDone>>
    BY <1>1, <2>1, <2>3, StageKept DEF RestoreInv, FileInv, Restoring
  <2> QED
    BY <1>1, <2>2, <2>3
<1> QED
  BY <1>1, <1>2, <1>3 DEF RestoreInv

LEMMA InvMoveEnds ==
  ASSUME RestoreInv, MoveEnds
  PROVE  RestoreInv'
<1>1. /\ restoring = "moved" /\ restoring' = "no"
      /\ UNCHANGED <<step, access, asking, accessPing, expected, scans, picker, best, tmp,
                     confirmed, db, restoreDone, life, refused>>
  BY DEF MoveEnds, scanVars, accessVars, history
<1>2. ExpectedInv' /\ ScanTypes'
  BY <1>1 DEF RestoreInv, ExpectedInv, ScanTypes
<1>3. ~refused => StageInv' /\ FileInv'
  BY <1>1, StageKept DEF RestoreInv, FileInv, Restoring
<1> QED
  BY <1>1, <1>2, <1>3 DEF RestoreInv

-----------------------------------------------------------------------------
LEMMA RestoreStep == RestoreInv /\ [RestoreNext]_restoreVars => RestoreInv'
<1> SUFFICES ASSUME RestoreInv, [RestoreNext]_restoreVars PROVE RestoreInv'
  OBVIOUS
<1>1. CASE RequestScan
  BY <1>1, InvRequestScan
<1>2. CASE Browse
  BY <1>2, InvBrowse
<1>3. CASE onActivityResult
  BY <1>3, InvOnActivityResult
<1>4. CASE PickerCancelled
  BY <1>4, InvPickerCancelled
<1>5. CASE checkAccessRequestIsDone
  BY <1>5, InvCheckAccess
<1>6. ASSUME NEW t \in BackupTypes, Answer(t) PROVE RestoreInv'
  BY <1>6, InvAnswer
<1>7. ASSUME NEW i \in 1 .. MaxScans, ScanThread(i) PROVE RestoreInv'
  BY <1>7, InvThreadStarts, InvScanLocalDevice, InvScanGoogleDrive DEF ScanThread
<1>8. ASSUME NEW i \in 1 .. MaxScans, DriveAnswers(i) PROVE RestoreInv'
  BY <1>8, InvDriveListed, InvDriveDenied, InvDriveContent DEF DriveAnswers
<1>9. ASSUME NEW i \in 1 .. MaxScans, checkScanningDone(i) PROVE RestoreInv'
  BY <1>9, InvCheckScanningDone
<1>10. CASE TryAgain
  BY <1>10, InvTryAgain
<1>11. CASE ignoreRestoreAndBeDone \/ Finish \/ onBackPressed
  BY <1>11, InvLeave DEF ignoreRestoreAndBeDone, Finish, onBackPressed
<1>12. CASE restoreBestBackup
  BY <1>12, InvRestoreBestBackup
<1>13. CASE MoveFile
  BY <1>13, InvMoveFile
<1>14. CASE MoveEnds
  BY <1>14, InvMoveEnds
<1>15. CASE UNCHANGED restoreVars
  BY <1>15, InvLeave DEF restoreVars, scanVars, accessVars, history
<1> QED
  BY <1>1, <1>2, <1>3, <1>4, <1>5, <1>6, <1>7, <1>8, <1>9, <1>10, <1>11, <1>12, <1>13, <1>14,
     <1>15 DEF RestoreNext

LEMMA RestoreStart == RestoreInit => RestoreInv
<1> SUFFICES ASSUME RestoreInit PROVE RestoreInv
  OBVIOUS
<1>1. ExpectedInv /\ DOMAIN expected = {}
  BY DEF RestoreInit, ExpectedInv
<1>2. ScanTypes
  BY DEF RestoreInit, ScanTypes, ScanState, Unused
<1>3. AllQuiet
  BY DEF RestoreInit, AllQuiet, Quiet, Unused
<1>4. StageInv
  BY <1>3 DEF RestoreInit, StageInv
<1>5. FileInv
  BY <1>1 DEF RestoreInit, FileInv, Restoring
<1> QED
  BY <1>1, <1>2, <1>4, <1>5 DEF RestoreInv

\* Every reachable state of the restoration screen satisfies the invariant.
THEOREM RestoreInvariant == RestoreSpec => []RestoreInv
BY RestoreStart, RestoreStep, PTL DEF RestoreSpec

\* Whenever the confirm button of restoreBestBackup is shown, and Google Drive has not
\* refused access, the backup on the screen is there and its decrypted file is that of
\* its own source.
THEOREM ConfirmAlwaysWorks == RestoreSpec => []ConfirmWorks
<1>1. RestoreInv => ConfirmWorks
  BY DEF RestoreInv, FileInv, ConfirmWorks
<1> QED
  BY <1>1, RestoreInvariant, PTL

\* What the thread of restoreBestBackup has moved to the node's database is what the
\* user confirmed, and the restoration is recorded, unless Google Drive has refused
\* access.
THEOREM RestoredIsAlwaysConfirmed == RestoreSpec => []RestoredIsConfirmed
<1>1. RestoreInv => RestoredIsConfirmed
  BY DEF RestoreInv, FileInv, RestoredIsConfirmed
<1> QED
  BY <1>1, RestoreInvariant, PTL

\* Only handleBackups puts a backup on display.
LEMMA OnlyHandleBackupsShows ==
  ASSUME [RestoreNext]_restoreVars, step # "FOUND", step' = "FOUND"
  PROVE  \E e, b : e = expected' /\ handleBackups(e, b)
<1>1. CASE onActivityResult
  <2>1. PICK r : Record("LOCAL", r) /\ handleBackups(Put(expected, "LOCAL", r), best)
    BY <1>1 DEF onActivityResult
  <2>2. expected' = Put(expected, "LOCAL", r)
    BY <2>1 DEF Record
  <2> QED
    BY <2>1, <2>2
<1>2. ASSUME NEW i \in 1 .. MaxScans, checkScanningDone(i)
      PROVE  expected' = expected /\ handleBackups(expected, Nothing)
  BY <1>2 DEF checkScanningDone
<1>3. ~RequestScan /\ ~checkAccessRequestIsDone
  BY DEF RequestScan, checkAccessRequestIsDone, startScanning
<1>4. \A i \in 1 .. MaxScans : ~ScanThread(i) /\ ~DriveAnswers(i)
  BY DEF ScanThread, ThreadStarts, scanLocalDevice, scanGoogleDrive, DriveAnswers, DriveListed,
         DriveDenied, DriveContent
<1>5. /\ ~Browse /\ ~PickerCancelled /\ \A t \in BackupTypes : ~Answer(t)
      /\ ~TryAgain /\ ~ignoreRestoreAndBeDone /\ ~restoreBestBackup
      /\ ~MoveFile /\ ~MoveEnds /\ ~Finish /\ ~onBackPressed /\ ~UNCHANGED restoreVars
  BY DEF Browse, PickerCancelled, Answer, TryAgain, ignoreRestoreAndBeDone, restoreBestBackup,
         MoveFile, MoveEnds, Finish, onBackPressed, restoreVars
<1> QED
  BY <1>1, <1>2, <1>3, <1>4, <1>5 DEF RestoreNext

\* The backup that handleBackups puts on display is never dominated by another result
\* that is known by then, whatever the dates of the two and however many channels they
\* have, up to what a short counts.
THEOREM OfferedIsNeverDominated == RestoreSpec => OfferedIsNotDominated
<1>1. RestoreInv /\ [RestoreNext]_restoreVars =>
        [step # "FOUND" /\ step' = "FOUND" =>
           \A t \in DOMAIN expected' :
             IsOk(expected'[t]) =>
               ~Dominates(expected'[t].localCommitIndexMap,
                          best'.result.localCommitIndexMap)]_restoreVars
  <2> SUFFICES ASSUME RestoreInv, [RestoreNext]_restoreVars, step # "FOUND", step' = "FOUND",
                      NEW t \in DOMAIN expected', IsOk(expected'[t])
               PROVE  ~Dominates(expected'[t].localCommitIndexMap,
                                 best'.result.localCommitIndexMap)
    OBVIOUS
  <2>1. ExpectedInv'
    BY RestoreStep DEF RestoreInv
  <2>2. PICK e, b : e = expected' /\ handleBackups(e, b)
    BY OnlyHandleBackupsShows
  <2>3. /\ best'.type \in DOMAIN expected' /\ best'.result = expected'[best'.type]
        /\ IsOk(best'.result)
        /\ ~Beats(expected'[t].localCommitIndexMap, best'.result.localCommitIndexMap)
    BY <2>1, <2>2, HandleBackupsShows
  <2>4. /\ CommitIndexMap(expected'[t].localCommitIndexMap)
        /\ CommitIndexMap(best'.result.localCommitIndexMap)
    BY <2>1, <2>3, OkIsMap DEF ExpectedInv
  <2> QED
    BY <2>3, <2>4, DominantWins
<1> QED
  BY <1>1, RestoreInvariant, PTL DEF RestoreSpec, OfferedIsNotDominated

=============================================================================
