----------------------------- MODULE SqliteProofs -----------------------------
(***************************************************************************)
(* Theorems about Pager and SqliteBackup, for any number of connections,   *)
(* pages, transactions, crashes and backups: a reader sees the committed   *)
(* image, the file and its journal implement AtomicStore, and a backup is  *)
(* a snapshot of the committed image.                                      *)
(***************************************************************************)
EXTENDS SqliteBackup, FiniteSetTheorems, WellFoundedInduction, TLAPS

(* The connections that have a journal of their own. *)
Owner(c) == eState[c] \in {"WRITER_CACHEMOD", "WRITER_DBMOD", "WRITER_FINISHED"}

(* The lock of a connection follows from where it is. *)
LockOf(c) ==
  \/ eState[c] = "OPEN" /\ pc[c] = "idle" /\ eLock[c] = NO_LOCK
  \/ eState[c] = "OPEN" /\ pc[c] \in {"hasJournal", "checkReserved", "lockHot", "version"}
       /\ eLock[c] = SHARED_LOCK
  \/ eState[c] = "OPEN" /\ pc[c] = "playback" /\ eLock[c] = EXCLUSIVE_LOCK
  \/ eState[c] = "READER" /\ pc[c] = "idle" /\ eLock[c] = SHARED_LOCK
  \/ eState[c] = "WRITER_LOCKED" /\ pc[c] = "idle" /\ eLock[c] = RESERVED_LOCK
  \/ eState[c] = "WRITER_CACHEMOD" /\ pc[c] \in {"idle", "exclusive", "playback"}
       /\ eLock[c] \in {RESERVED_LOCK, PENDING_LOCK, EXCLUSIVE_LOCK}
  \/ eState[c] = "WRITER_CACHEMOD" /\ pc[c] \in {"syncRecords", "syncHeader"}
       /\ eLock[c] = EXCLUSIVE_LOCK
  \/ eState[c] = "WRITER_DBMOD" /\ eLock[c] = EXCLUSIVE_LOCK
       /\ pc[c] \in {"idle", "exclusive", "syncRecords", "syncHeader", "write", "playback"}
  \/ eState[c] = "WRITER_FINISHED" /\ pc[c] \in {"phaseTwo", "playback"}
       /\ eLock[c] = EXCLUSIVE_LOCK

(* RESERVED and more is held by one connection, EXCLUSIVE beside no other. *)
LockInv ==
  /\ \A c \in Conns : LockOf(c)
  /\ \A c, d \in Conns : c # d =>
       /\ eLock[c] >= RESERVED_LOCK => eLock[d] <= SHARED_LOCK
       /\ eLock[c] = EXCLUSIVE_LOCK => eLock[d] = NO_LOCK

(* A journal, current or deleted, restores the file: only what its synced
   headers count has been overwritten. *)
Restores(j) ==
  /\ ~j.exists => j = NoJournal
  /\ ~j.inDir => j.nRec = {}
  /\ j.dRec \subseteq j.nRec /\ j.dRec \subseteq j.sRec /\ j.nRec \subseteq Recorded(j)
  /\ \A p \in Pages : p \in Recorded(j) /\ p \notin j.dRec => j.rec[p] = file[p]

JournalInv ==
  /\ Restores(jrnl) /\ Restores(ghost)
  /\ ghost.exists => jrnl.nRec = {}
  /\ \A p \in Pages : disk[p] \subseteq Contents /\ file[p] \in disk[p]
  /\ \A p \in Pages : p \notin jrnl.dRec => disk[p] = {file[p]}

(* What has been committed is older than the transaction that is open. *)
AgeInv ==
  /\ \A p \in Pages : Image[p] \in 0 .. nTxn /\ Previous[p] \in 0 .. nTxn
  /\ \A c \in Conns : eState[c] \in WriterStates => \A p \in Pages : Image[p] < nTxn

(* What connection c has of page p is what the file has. *)
Fresh(c, p) == cache[c][p] \in {NoPage, file[p]}

(* Outside of a transaction the cache may be out of date, but not without the
   change counter showing it. *)
OpenInv(c) ==
  /\ dirty[c] = {} /\ goal[c] = 0
  /\ pc[c] = "version" => jrnl.nRec = {}
  /\ pc[c] = "playback" => jrnl.exists /\ jrnl.inDir
  /\ \A p \in Pages : cache[c][p] # NoPage =>
       vers[c] <= Image[1] /\ (vers[c] = Image[1] => cache[c][p] = Image[p])

ReaderInv(c) ==
  /\ dirty[c] = {} /\ goal[c] = 0 /\ jrnl.nRec = {}
  /\ vers[c] = file[1] /\ \A p \in Pages : Fresh(c, p)

(* The content that the transaction gives to page p. *)
NewContent(p) == IF p = 1 THEN Image[1] + 1 ELSE nTxn

(* The pages recorded are those of the transaction: each is to be written, or
   is in the file. *)
WriterInv(c) ==
  /\ jrnl.exists /\ \E p \in Pages \ {1} : p \in Recorded(jrnl)
  /\ eState[c] = "WRITER_CACHEMOD" => jrnl.dRec = {}
  /\ eState[c] = "WRITER_CACHEMOD" /\ pc[c] \in {"idle", "exclusive", "syncRecords"} => jrnl.nRec = {}
  /\ eState[c] # "WRITER_CACHEMOD" => jrnl.inDir
  /\ vers[c] = file[1] /\ \A p \in Pages : p \notin dirty[c] => Fresh(c, p)
  /\ dirty[c] \subseteq Recorded(jrnl) /\ \A p \in dirty[c] : cache[c][p] = NewContent(p)
  /\ \A p \in Pages : p \in Recorded(jrnl) /\ p \notin dirty[c] => file[p] = NewContent(p)
  /\ 1 \in dirty[c] => file[1] = Image[1]
  /\ pc[c] = "idle" => goal[c] = 0
  /\ pc[c] # "idle" /\ goal[c] = 0 => 1 \in Recorded(jrnl)
  /\ goal[c] # 0 => goal[c] \in dirty[c] /\ goal[c] # 1
  /\ 1 \in Recorded(jrnl) /\ 1 \notin dirty[c] => pc[c] \in {"write", "phaseTwo"} /\ goal[c] = 0
  /\ pc[c] = "syncHeader" => jrnl.nRec = Recorded(jrnl) /\ jrnl.sRec = Recorded(jrnl) /\ jrnl.inDir
  /\ pc[c] = "write" => IF goal[c] = 0 THEN jrnl.dRec = Recorded(jrnl) ELSE goal[c] \in jrnl.dRec
  /\ pc[c] = "phaseTwo" => dirty[c] = {} /\ \A p \in Pages : disk[p] = {file[p]}

(* A transaction that is rolled back: what is not recorded was not changed. *)
UndoInv(c) ==
  /\ dirty[c] = {} /\ goal[c] = 0 /\ jrnl.exists
  /\ eState[c] = "WRITER_CACHEMOD" => jrnl.dRec = {}
  /\ eState[c] = "WRITER_CACHEMOD" /\ eLock[c] # EXCLUSIVE_LOCK => jrnl.nRec = {}
  /\ eState[c] # "WRITER_CACHEMOD" => jrnl.inDir
  /\ 1 \notin Recorded(jrnl) => vers[c] = file[1]
  /\ \A p \in Pages : p \notin Recorded(jrnl) => Fresh(c, p)

ConnInv(c) ==
  /\ eState[c] = "OPEN" => OpenInv(c)
  /\ eState[c] \in {"READER", "WRITER_LOCKED"} => ReaderInv(c)
  /\ Owner(c) /\ pc[c] # "playback" => WriterInv(c)
  /\ Owner(c) /\ pc[c] = "playback" => UndoInv(c)

PagerInv == TypeOK /\ LockInv /\ JournalInv /\ AgeInv /\ \A c \in Conns : ConnInv(c)

(* Page p has been copied: its copy is what Src reads, or the change counter
   tells that it is not. *)
Copied(p) ==
  /\ eState[Src] = "OPEN" =>
       vers[Src] <= Image[1] /\ (vers[Src] = Image[1] => copy[p] = Image[p])
  /\ eState[Src] # "OPEN" => copy[p] = file[p]

(* Between two steps of a backup nothing is lost, and no update fails while a
   step is waiting for its read transaction. *)
CopyInv ==
  /\ phase = "loop" => rc \in {"OK", "IOERR"}
  /\ phase = "step" => rc = "OK" /\ eState[Src] \in {"OPEN", "READER"}
  /\ phase = "step" /\ eState[Src] = "OPEN" /\ pc[Src] = "playback" => jrnl.nRec = {} \/ iNext = 1
  /\ phase \in {"loop", "step"} /\ ~attached => iNext = 1
  /\ phase \in {"loop", "step"} /\ rc # "IOERR" => \A p \in Pages : p < iNext => Copied(p)

BackupInv == BTypeOK /\ PagerInv /\ CopyInv

------------------------------------------------------------------------------
LEMMA ImageAt ==
  ASSUME NEW p \in Pages
  PROVE  /\ Image[p] = IF jrnl.exists /\ p \in jrnl.nRec THEN jrnl.rec[p] ELSE file[p]
         /\ Previous[p] = IF ghost.exists /\ p \in ghost.nRec THEN ghost.rec[p] ELSE Image[p]
BY DEF Image, Previous, Restored

(* While nothing is counted by a journal, the image is the file. *)
LEMMA ImageIsFile ==
  ASSUME NEW p \in Pages, jrnl.nRec = {}
  PROVE  Image[p] = file[p]
BY DEF Image, Restored

LEMMA OneIsPage == 1 \in Pages
BY PagesAssumption

(* Connections that a step does not touch. *)
Untouched(d) == UNCHANGED <<eLock[d], eState[d], pc[d], goal[d], cache[d], dirty[d], vers[d]>>

(* If nothing that is shared has changed, nothing has changed for them. *)
LEMMA SameForOthers ==
  ASSUME NEW d \in Conns, ConnInv(d), Untouched(d), UNCHANGED <<file, disk, jrnl, nTxn>>
  PROVE  ConnInv(d)'
<1>1. Image' = Image
  BY DEF Image, Restored
<1> QED
  BY <1>1 DEF ConnInv, Untouched, OpenInv, ReaderInv, WriterInv, UndoInv, Fresh, NewContent, Owner

(* A connection without RESERVED does not notice how the journal of another
   one grows. *)
LEMMA SameForReaders ==
  ASSUME NEW d \in Conns, LockOf(d), ConnInv(d), Untouched(d), eLock[d] <= SHARED_LOCK,
         UNCHANGED file, jrnl'.nRec = jrnl.nRec, \A p \in Pages : Image'[p] = Image[p]
  PROVE  ConnInv(d)'
<1>1. pc[d] # "playback" /\ ~Owner(d) /\ ~Owner(d)' /\ eState[d] \in {"OPEN", "READER"}
  BY DEF LockOf, Untouched, Owner, SHARED_LOCK, NO_LOCK, RESERVED_LOCK, PENDING_LOCK, EXCLUSIVE_LOCK
<1>2. Image'[1] = Image[1]
  BY OneIsPage
<1> QED
  BY <1>1, <1>2 DEF ConnInv, Untouched, OpenInv, ReaderInv, Fresh

(* A connection without a lock notices nothing but the change counter. *)
LEMMA SameForIdle ==
  ASSUME NEW d \in Conns, TypeOK, TypeOK', LockOf(d), ConnInv(d), Untouched(d), eLock[d] = NO_LOCK,
         Image[1] \in Int, Image'[1] \in Int,
         Image'[1] > Image[1] \/ \A p \in Pages : Image'[p] = Image[p]
  PROVE  ConnInv(d)'
<1>1. pc[d] = "idle" /\ eState[d] = "OPEN" /\ ~Owner(d) /\ ~Owner(d)'
  BY DEF LockOf, Untouched, Owner, SHARED_LOCK, NO_LOCK, RESERVED_LOCK, PENDING_LOCK, EXCLUSIVE_LOCK
<1>2. OpenInv(d)
  BY <1>1 DEF ConnInv
<1>3. vers[d] \in Int
  BY DEF TypeOK, Contents, NoPage
<1>4. OpenInv(d)'
  BY <1>1, <1>2, <1>3, OneIsPage DEF OpenInv, Untouched
<1> QED
  BY <1>1, <1>4 DEF ConnInv, Untouched

(* The smallest of some pages is one of them. *)
LEMMA NextPageIsOne ==
  ASSUME NEW S \in SUBSET Pages, S # {}
  PROVE  NextPage(S) \in S
<1>1. S \subseteq Nat
  BY PagesAssumption
<1> DEFINE Less == OpToRel(<, Nat)
<1>2. IsWellFoundedOn(Less, Nat)
  BY NatLessThanWellFounded
<1>3. \A x, y \in S : y < x => <<y, x>> \in Less
  BY <1>1 DEF OpToRel
<1> HIDE DEF Less
<1>4. PICK x \in S : \A y \in S : ~(<<y, x>> \in Less)
  BY <1>1, <1>2, WFMin, Zenon
<1>5. \A y \in S : ~(y < x)
  BY <1>3, <1>4, Zenon
<1>6. \A y \in S : x <= y
  BY <1>1, <1>5
<1> QED
  BY <1>6 DEF NextPage

------------------------------------------------------------------------------
(* The locks. *)
Places == {"idle", "hasJournal", "checkReserved", "lockHot", "playback", "version", "exclusive",
           "syncRecords", "syncHeader", "write", "phaseTwo"}

LockTypeOK ==
  /\ eLock \in [Conns -> 0 .. 4]
  /\ eState \in [Conns -> {"OPEN", "READER"} \cup WriterStates]
  /\ pc \in [Conns -> Places]

LEMMA LockTypes ==
  ASSUME TypeOK
  PROVE  LockTypeOK
BY DEF TypeOK, LockTypeOK, Places, NO_LOCK, EXCLUSIVE_LOCK

(* Connection c goes from where it is to where s, l and lock say; the locks
   of the others allow it. *)
Moves(c, s, l, lock) ==
  /\ eState' = [eState EXCEPT ![c] = s]
  /\ pc' = [pc EXCEPT ![c] = l]
  /\ eLock' = [eLock EXCEPT ![c] = lock]

LEMMA MoveKeepsLocks ==
  ASSUME LockTypeOK, LockInv, NEW c \in Conns, NEW s, NEW l, NEW lock \in 0 .. 4, Moves(c, s, l, lock),
         LockOf(c)',
         \A d \in Others(c) :
           /\ lock <= eLock[c] \/ (lock = SHARED_LOCK /\ eLock[d] < PENDING_LOCK)
              \/ (lock <= PENDING_LOCK /\ eLock[d] <= SHARED_LOCK)
              \/ eLock[d] = NO_LOCK
  PROVE  LockInv'
<1> USE DEF NO_LOCK, SHARED_LOCK, RESERVED_LOCK, PENDING_LOCK, EXCLUSIVE_LOCK
<1>1. \A d \in Others(c) : eLock'[d] = eLock[d] /\ eState'[d] = eState[d] /\ pc'[d] = pc[d]
  BY DEF Others, Moves, LockTypeOK
<1>2. eLock'[c] = lock
  BY DEF Moves, LockTypeOK
<1>3. \A d \in Conns : LockOf(d)'
  BY <1>1 DEF LockInv, LockOf, Others
<1>4. \A d \in Conns : eLock[d] \in 0 .. 4
  BY DEF LockTypeOK
<1>5. \A d \in Others(c) :
        /\ eLock'[c] >= 2 => eLock'[d] <= 1
        /\ eLock'[d] >= 2 => eLock'[c] <= 1
        /\ eLock'[c] = 4 => eLock'[d] = 0
        /\ eLock'[d] = 4 => eLock'[c] = 0
  BY <1>1, <1>2, <1>4 DEF LockInv, Others
<1>6. \A d, e \in Others(c) : d # e =>
        /\ eLock'[d] >= 2 => eLock'[e] <= 1
        /\ eLock'[d] = 4 => eLock'[e] = 0
  BY <1>1 DEF LockInv, Others
<1> QED
  BY <1>3, <1>5, <1>6 DEF LockInv, Others

LEMMA ConnStepKeepsLocks ==
  ASSUME LockTypeOK, LockInv, NEW c \in Conns, ConnStep(c)
  PROVE  LockInv'
<1> USE DEF NO_LOCK, SHARED_LOCK, RESERVED_LOCK, PENDING_LOCK, EXCLUSIVE_LOCK
<1>t. eLock[c] \in 0 .. 4 /\ LockOf(c) /\ c \notin Others(c)
  BY DEF LockTypeOK, LockInv, Others
<1> DEFINE Room(lock) == \A d \in Others(c) :
             \/ lock <= eLock[c]
             \/ lock = SHARED_LOCK /\ eLock[d] < PENDING_LOCK
             \/ lock <= PENDING_LOCK /\ eLock[d] <= SHARED_LOCK
             \/ eLock[d] = NO_LOCK
<1>m. ASSUME NEW s, NEW l, NEW lock \in 0 .. 4, Moves(c, s, l, lock), LockOf(c)', Room(lock)
      PROVE  LockInv'
  BY <1>m, MoveKeepsLocks
<1>at. ASSUME NEW s, NEW l, NEW lock, Moves(c, s, l, lock)
       PROVE  eState'[c] = s /\ pc'[c] = l /\ eLock'[c] = lock
  BY <1>at DEF Moves, LockTypeOK
<1>1. CASE SharedLock(c)
  <2>1. Moves(c, "OPEN", "hasJournal", 1) /\ Room(1)
    BY <1>1, <1>t DEF SharedLock, Goto, CanShare, Moves, LockTypeOK
  <2>2. LockOf(c)'
    BY <2>1, <1>at DEF LockOf
  <2> QED BY <2>1, <2>2, <1>m
<1>2. CASE HasJournal(c) \/ CheckReserved(c)
  <2>1. PICK l \in {"checkReserved", "lockHot", "version"} : Moves(c, "OPEN", l, 1)
    BY <1>2, <1>t DEF HasJournal, CheckReserved, Goto, Moves, LockTypeOK, LockOf
  <2>2. LockOf(c)' /\ Room(1)
    BY <1>2, <2>1, <1>at, <1>t DEF LockOf, HasJournal, CheckReserved
  <2> QED BY <2>1, <2>2, <1>m
<1>3. CASE LockHot(c)
  <2>0. eState[c] = "OPEN" /\ eLock[c] = 1
    BY <1>3, <1>t DEF LockHot, LockOf
  <2>1. CASE CanExclude(c) /\ jrnl.exists
    <3>1. Moves(c, "OPEN", "playback", 4) /\ Room(4)
      BY <1>3, <2>0, <2>1 DEF LockHot, Goto, CanExclude, Moves, LockTypeOK
    <3>2. LockOf(c)'
      BY <3>1, <1>at DEF LockOf
    <3> QED BY <3>1, <3>2, <1>m
  <2>2. CASE CanExclude(c) /\ ~jrnl.exists
    <3>1. Moves(c, "OPEN", "version", 1) /\ Room(1)
      BY <1>3, <2>0, <2>2 DEF LockHot, Goto, Moves, LockTypeOK
    <3>2. LockOf(c)'
      BY <3>1, <1>at DEF LockOf
    <3> QED BY <3>1, <3>2, <1>m
  <2>3. CASE ~CanExclude(c)
    <3>1. Moves(c, "OPEN", "idle", 0) /\ Room(0)
      BY <1>3, <2>0, <2>3 DEF LockHot, Unlocked, Goto, Moves, LockTypeOK
    <3>2. LockOf(c)'
      BY <3>1, <1>at DEF LockOf
    <3> QED BY <3>1, <3>2, <1>m
  <2> QED BY <2>1, <2>2, <2>3
<1>4. CASE CheckVersion(c)
  <2>1. Moves(c, "READER", "idle", 1) /\ Room(1)
    BY <1>4, <1>t DEF CheckVersion, Goto, Moves, LockTypeOK, LockOf
  <2>2. LockOf(c)'
    BY <2>1, <1>at DEF LockOf
  <2> QED BY <2>1, <2>2, <1>m
<1>5. CASE EndRead(c) \/ PlaybackFails(c)
  <2>1. Moves(c, "OPEN", "idle", 0) /\ Room(0)
    BY <1>5, <1>t DEF EndRead, PlaybackFails, Unlocked, Goto, Moves
  <2>2. LockOf(c)'
    BY <2>1, <1>at DEF LockOf
  <2> QED BY <2>1, <2>2, <1>m
<1>6. CASE Begin(c)
  <2>1. Moves(c, "WRITER_LOCKED", "idle", 2) /\ Room(2)
    BY <1>6, <1>t DEF Begin, CanReserve, Moves, LockTypeOK
  <2>2. LockOf(c)'
    BY <2>1, <1>at DEF LockOf
  <2> QED BY <2>1, <2>2, <1>m
<1>7. CASE Commit(c)
  <2>1. CASE eState[c] = "WRITER_LOCKED"
    <3>1. Moves(c, "READER", "idle", 1) /\ Room(1)
      BY <1>7, <2>1, <1>t DEF Commit, Moves, LockTypeOK, LockOf
    <3>2. LockOf(c)'
      BY <3>1, <1>at DEF LockOf
    <3> QED BY <3>1, <3>2, <1>m
  <2>2. CASE eState[c] \in {"WRITER_CACHEMOD", "WRITER_DBMOD"}
    <3>1. Moves(c, eState[c], "exclusive", eLock[c]) /\ Room(eLock[c])
      BY <1>7, <2>2, <1>t DEF Commit, Modify, Goto, Moves, LockTypeOK
    <3>2. LockOf(c)'
      BY <1>7, <2>2, <3>1, <1>at, <1>t DEF LockOf, Commit
    <3> QED BY <3>1, <3>2, <1>m, <1>t
  <2> QED BY <1>7, <2>1, <2>2 DEF Commit
<1>8. CASE LockExclusive(c)
  <2>0. eState[c] \in {"WRITER_CACHEMOD", "WRITER_DBMOD"} /\ eLock[c] >= 2
    BY <1>8, <1>t DEF LockExclusive, LockOf
  <2>1. CASE CanExclude(c)
    <3>1. Moves(c, eState[c], "syncRecords", 4) /\ Room(4)
      BY <1>8, <2>0, <2>1 DEF LockExclusive, CanExclude, Goto, Moves, LockTypeOK
    <3>2. LockOf(c)'
      BY <2>0, <3>1, <1>at DEF LockOf
    <3> QED BY <3>1, <3>2, <1>m
  <2>2. CASE ~CanExclude(c)
    <3>1. Moves(c, eState[c], "idle", 3)
      BY <1>8, <2>0, <2>2 DEF LockExclusive, Goto, Moves, LockTypeOK
    <3>2. eLock[c] # 4
      BY <2>2 DEF CanExclude, LockInv, Others
    <3>3. eState[c] = "WRITER_CACHEMOD"
      BY <2>0, <3>2, <1>t DEF LockOf
    <3>4. LockOf(c)'
      BY <3>1, <3>3, <1>at DEF LockOf
    <3>5. Room(3)
      BY <2>0 DEF LockInv, Others
    <3> QED BY <3>1, <3>4, <3>5, <1>m
  <2> QED BY <2>1, <2>2
<1>9. CASE SyncRecords(c)
  <2>1. Moves(c, eState[c], "syncHeader", 4) /\ Room(4)
    BY <1>9, <1>t DEF SyncRecords, Goto, Moves, LockTypeOK, LockOf
  <2>2. LockOf(c)'
    BY <1>9, <2>1, <1>at, <1>t DEF LockOf, SyncRecords
  <2> QED BY <2>1, <2>2, <1>m
<1>10. CASE SyncHeader(c)
  <2>1. Moves(c, "WRITER_DBMOD", "write", 4) /\ Room(4)
    BY <1>10, <1>t DEF SyncHeader, Goto, Moves, LockTypeOK, LockOf
  <2>2. LockOf(c)'
    BY <2>1, <1>at DEF LockOf
  <2> QED BY <2>1, <2>2, <1>m
<1>11. CASE SyncFile(c)
  <2>1. Moves(c, "WRITER_FINISHED", "phaseTwo", 4) /\ Room(4)
    BY <1>11, <1>t DEF SyncFile, Goto, Moves, LockTypeOK, LockOf
  <2>2. LockOf(c)'
    BY <2>1, <1>at DEF LockOf
  <2> QED BY <2>1, <2>2, <1>m
<1>12. CASE CommitPhaseTwo(c)
  <2>1. Moves(c, "READER", "idle", 1) /\ Room(1)
    BY <1>12, <1>t DEF CommitPhaseTwo, Goto, Moves, LockTypeOK, LockOf
  <2>2. LockOf(c)'
    BY <2>1, <1>at DEF LockOf
  <2> QED BY <2>1, <2>2, <1>m
<1>13. CASE Rollback(c)
  <2>1. CASE eState[c] = "WRITER_LOCKED"
    <3>1. Moves(c, "READER", "idle", 1) /\ Room(1)
      BY <1>13, <2>1, <1>t DEF Rollback, Moves, LockTypeOK, LockOf
    <3>2. LockOf(c)'
      BY <3>1, <1>at DEF LockOf
    <3> QED BY <3>1, <3>2, <1>m
  <2>2. CASE eState[c] # "WRITER_LOCKED"
    <3>1. Moves(c, eState[c], "playback", eLock[c]) /\ Room(eLock[c])
      BY <1>13, <2>2, <1>t DEF Rollback, Goto, Moves, LockTypeOK
    <3>2. LockOf(c)'
      BY <1>13, <2>2, <3>1, <1>at, <1>t DEF LockOf, Rollback, WriterStates
    <3> QED BY <3>1, <3>2, <1>m, <1>t
  <2> QED BY <2>1, <2>2
<1>14. CASE EndPlayback(c)
  <2>0. Room(1)
    BY <1>14, <1>t DEF EndPlayback, LockOf
  <2>1. CASE eState[c] = "OPEN"
    <3>1. Moves(c, "OPEN", "version", 1)
      BY <1>14, <2>1 DEF EndPlayback, Goto, Moves, LockTypeOK
    <3>2. LockOf(c)'
      BY <3>1, <1>at DEF LockOf
    <3> QED BY <2>0, <3>1, <3>2, <1>m
  <2>2. CASE eState[c] # "OPEN"
    <3>1. Moves(c, "READER", "idle", 1)
      BY <1>14, <2>2 DEF EndPlayback, Goto, Moves, LockTypeOK
    <3>2. LockOf(c)'
      BY <3>1, <1>at DEF LockOf
    <3> QED BY <2>0, <3>1, <3>2, <1>m
  <2> QED BY <2>1, <2>2
<1> QED
  BY <1>1, <1>2, <1>3, <1>4, <1>5, <1>6, <1>7, <1>8, <1>9, <1>10, <1>11, <1>12, <1>13, <1>14
     DEF ConnStep

LEMMA PageStepKeepsLocks ==
  ASSUME LockTypeOK, LockInv, NEW c \in Conns, ConnInv(c), NEW p \in Pages, PageStep(c, p)
  PROVE  LockInv'
<1> USE DEF NO_LOCK, SHARED_LOCK, RESERVED_LOCK, PENDING_LOCK, EXCLUSIVE_LOCK
<1>t. eLock[c] \in 0 .. 4 /\ LockOf(c)
  BY DEF LockTypeOK, LockInv
<1>m. ASSUME NEW s, NEW l, Moves(c, s, l, eLock[c]), LockOf(c)'
      PROVE  LockInv'
  BY <1>m, <1>t, MoveKeepsLocks
<1>at. ASSUME NEW s, NEW l, NEW lock, Moves(c, s, l, lock)
       PROVE  eState'[c] = s /\ pc'[c] = l /\ eLock'[c] = lock
  BY <1>at DEF Moves, LockTypeOK
<1>1. CASE ReadPage(c, p) \/ PlaybackPage(c, p)
  BY <1>1 DEF ReadPage, PlaybackPage, LockInv, LockOf
<1>2. CASE WritePage(c, p)
  <2>1. PICK s \in {"WRITER_CACHEMOD", "WRITER_DBMOD"} :
          /\ Moves(c, s, "idle", eLock[c])
          /\ s = "WRITER_DBMOD" => eState[c] = "WRITER_DBMOD"
    BY <1>2 DEF WritePage, Modify, Moves, LockTypeOK
  <2>2. LockOf(c)'
    BY <1>2, <2>1, <1>at, <1>t DEF LockOf, WritePage
  <2> QED BY <2>1, <2>2, <1>m
<1>3. CASE Spill(c, p)
  <2>1. eState[c] \in {"WRITER_CACHEMOD", "WRITER_DBMOD"}
    BY <1>3, <1>t DEF Spill, LockOf, ConnInv, OpenInv, ReaderInv
  <2>2. PICK l \in {"exclusive", "write"} :
          /\ Moves(c, eState[c], l, eLock[c])
          /\ l = "write" => eState[c] # "WRITER_CACHEMOD"
    BY <1>3 DEF Spill, Goto, Moves, LockTypeOK
  <2>3. LockOf(c)'
    BY <1>3, <2>1, <2>2, <1>at, <1>t DEF LockOf, Spill
  <2> QED BY <2>2, <2>3, <1>m
<1>4. CASE FlushPage(c, p)
  <2>1. PICK l \in {"idle", "write"} : Moves(c, eState[c], l, eLock[c])
    BY <1>4 DEF FlushPage, Goto, Moves, LockTypeOK
  <2>2. LockOf(c)'
    BY <1>4, <2>1, <1>at, <1>t DEF LockOf, FlushPage
  <2> QED BY <2>1, <2>2, <1>m
<1> QED
  BY <1>1, <1>2, <1>3, <1>4 DEF PageStep

------------------------------------------------------------------------------
LEMMA OthersUntouched ==
  ASSUME TypeOK, NEW c \in Conns, ConnStep(c) \/ \E p \in Pages : PageStep(c, p), NEW d \in Others(c)
  PROVE  Untouched(d)
<1> USE DEF Others, Untouched, TypeOK
<1>1. CASE SharedLock(c) \/ HasJournal(c) \/ CheckReserved(c)
  BY <1>1 DEF SharedLock, HasJournal, CheckReserved, Goto
<1>2. CASE LockHot(c)
  BY <1>2 DEF LockHot, Unlocked, Goto
<1>3. CASE CheckVersion(c) \/ EndRead(c) \/ Begin(c)
  BY <1>3 DEF CheckVersion, EndRead, Begin, Unlocked, Goto
<1>4. CASE Commit(c)
  BY <1>4 DEF Commit, Modify, Goto
<1>5. CASE LockExclusive(c)
  BY <1>5 DEF LockExclusive, Goto
<1>6. CASE SyncRecords(c) \/ SyncHeader(c) \/ SyncFile(c) \/ CommitPhaseTwo(c)
  BY <1>6 DEF SyncRecords, SyncHeader, SyncFile, CommitPhaseTwo, Goto
<1>7. CASE Rollback(c)
  BY <1>7 DEF Rollback, Goto
<1>8. CASE EndPlayback(c) \/ PlaybackFails(c)
  BY <1>8 DEF EndPlayback, PlaybackFails, Unlocked, Goto
<1>9. CASE \E p \in Pages : PageStep(c, p)
  <2>1. PICK p \in Pages : PageStep(c, p)
    BY <1>9
  <2>2. CASE ReadPage(c, p) \/ Spill(c, p) \/ PlaybackPage(c, p)
    BY <2>2 DEF ReadPage, Spill, PlaybackPage, Goto
  <2>3. CASE WritePage(c, p)
    BY <2>3 DEF WritePage, Modify
  <2>4. CASE FlushPage(c, p)
    BY <2>4 DEF FlushPage, Goto
  <2> QED BY <2>1, <2>2, <2>3, <2>4 DEF PageStep
<1> QED BY <1>1, <1>2, <1>3, <1>4, <1>5, <1>6, <1>7, <1>8, <1>9 DEF ConnStep

(* Steps that change neither a file nor the number of the transaction. *)
LEMMA QuietStep ==
  ASSUME PagerInv, NEW c \in Conns, \A d \in Others(c) : Untouched(d),
         UNCHANGED <<file, disk, jrnl, ghost, nTxn>>,
         eState'[c] \in WriterStates => eState[c] \in WriterStates,
         TypeOK', LockInv', ConnInv(c)'
  PROVE  PagerInv'
<1>1. Image' = Image /\ Previous' = Previous
  BY DEF Image, Previous, Restored
<1>2. JournalInv'
  BY DEF PagerInv, JournalInv, Restores, Recorded
<1>3. \A d \in Conns : eState'[d] \in WriterStates => eState[d] \in WriterStates
  BY DEF Others, Untouched
<1>4. AgeInv'
  BY <1>1, <1>3 DEF PagerInv, AgeInv
<1>5. \A d \in Others(c) : ConnInv(d)'
  BY SameForOthers DEF PagerInv, Others
<1> QED
  BY <1>2, <1>4, <1>5 DEF PagerInv, Others

(* sqlite3PagerSharedLock up to the rollback of a hot journal.  Whoever holds
   a lock and finds the journal not hot is right. *)
LEMMA LockingKeepsInv ==
  ASSUME PagerInv, NEW c \in Conns, SharedLock(c) \/ HasJournal(c) \/ CheckReserved(c)
  PROVE  PagerInv'
<1> USE DEF NO_LOCK, SHARED_LOCK, RESERVED_LOCK, PENDING_LOCK, EXCLUSIVE_LOCK
<1>1. TypeOK /\ LockTypeOK /\ LockInv /\ LockOf(c) /\ ConnInv(c) /\ JournalInv
  BY LockTypes DEF PagerInv, LockInv
<1>2. ConnStep(c)
  BY DEF ConnStep
<1>3. LockInv'
  BY <1>1, <1>2, ConnStepKeepsLocks
<1>4. \A d \in Others(c) : Untouched(d)
  BY <1>1, <1>2, OthersUntouched
<1>5. TypeOK'
  <2>1. CASE SharedLock(c)
    BY <2>1, <1>1 DEF SharedLock, Goto, TypeOK
  <2>2. CASE HasJournal(c) \/ CheckReserved(c)
    BY <2>2, <1>1 DEF HasJournal, CheckReserved, Goto, TypeOK
  <2> QED BY <2>1, <2>2
<1>6. eState[c] = "OPEN" /\ OpenInv(c)
  BY <1>1 DEF SharedLock, HasJournal, CheckReserved, LockOf, ConnInv
<1>7. /\ UNCHANGED <<file, disk, jrnl, ghost, nTxn>>
      /\ UNCHANGED <<eState[c], cache[c], vers[c], dirty[c], goal[c]>>
      /\ pc'[c] # "playback"
  BY <1>1 DEF SharedLock, HasJournal, CheckReserved, Goto, TypeOK
<1>8. pc'[c] = "version" => jrnl.nRec = {}
  <2>1. SUFFICES ASSUME pc'[c] = "version" PROVE jrnl.nRec = {}
    OBVIOUS
  <2>2. CASE SharedLock(c)
    BY <2>1, <2>2, <1>1 DEF SharedLock, Goto, TypeOK
  <2>3. CASE HasJournal(c)
    <3>1. ~jrnl.exists
      BY <2>1, <2>3, <1>1 DEF HasJournal, Goto, TypeOK
    <3> QED
      BY <3>1, <1>1 DEF JournalInv, Restores, NoJournal
  <2>4. CASE CheckReserved(c)
    <3>1. ~CanReserve(c) \/ (jrnl.exists /\ jrnl.nRec = {})
      BY <2>1, <2>4, <1>1 DEF CheckReserved, Goto, TypeOK
    <3>2. CASE ~CanReserve(c)
      <4>1. PICK d \in Others(c) : eLock[d] > 1
        BY <3>2, <1>1 DEF CanReserve, LockTypeOK, Others
      <4>2. eLock[c] = 1
        BY <2>4, <1>1 DEF LockOf, CheckReserved
      <4>3. d \in Conns /\ eLock[d] # 4 /\ eLock[d] \in 0 .. 4
        BY <4>1, <4>2, <1>1 DEF LockInv, Others, LockTypeOK
      <4>4. LockOf(d) /\ ConnInv(d)
        BY <4>3 DEF PagerInv, LockInv
      <4>5. \/ eState[d] = "WRITER_LOCKED"
            \/ eState[d] = "WRITER_CACHEMOD" /\ pc[d] \in {"idle", "exclusive"}
            \/ eState[d] = "WRITER_CACHEMOD" /\ pc[d] = "playback"
        BY <4>1, <4>3, <4>4 DEF LockOf
      <4>6. CASE eState[d] = "WRITER_LOCKED"
        BY <4>4, <4>6 DEF ConnInv, ReaderInv
      <4>7. CASE eState[d] = "WRITER_CACHEMOD" /\ pc[d] \in {"idle", "exclusive"}
        BY <4>4, <4>7 DEF ConnInv, Owner, WriterInv
      <4>8. CASE eState[d] = "WRITER_CACHEMOD" /\ pc[d] = "playback"
        BY <4>1, <4>3, <4>4, <4>8 DEF ConnInv, Owner, UndoInv
      <4> QED BY <4>5, <4>6, <4>7, <4>8
    <3> QED BY <3>1, <3>2
  <2> QED BY <2>2, <2>3, <2>4
<1>9. OpenInv(c)'
  <2>1. Image' = Image
    BY <1>7 DEF Image, Restored
  <2> QED
    BY <1>6, <1>7, <1>8, <2>1 DEF OpenInv
<1>10. ConnInv(c)'
  BY <1>6, <1>7, <1>9 DEF ConnInv, Owner
<1> QED
  BY <1>3, <1>4, <1>5, <1>6, <1>7, <1>10, QuietStep

(* What is known of every step of a connection. *)
LEMMA StepFacts ==
  ASSUME PagerInv, NEW c \in Conns, ConnStep(c) \/ \E p \in Pages : PageStep(c, p)
  PROVE  /\ TypeOK /\ LockTypeOK /\ LockInv /\ JournalInv /\ AgeInv /\ LockInv'
         /\ LockOf(c) /\ ConnInv(c)
         /\ \A d \in Others(c) : d \in Conns /\ LockOf(d) /\ ConnInv(d) /\ Untouched(d)
<1>1. TypeOK /\ LockTypeOK /\ LockInv /\ JournalInv /\ AgeInv /\ \A d \in Conns : LockOf(d) /\ ConnInv(d)
  BY LockTypes DEF PagerInv, LockInv
<1>2. LockInv'
  BY <1>1, ConnStepKeepsLocks, PageStepKeepsLocks
<1>3. \A d \in Others(c) : Untouched(d)
  BY <1>1, OthersUntouched
<1> QED BY <1>1, <1>2, <1>3 DEF Others

LEMMA EndReadKeepsInv ==
  ASSUME PagerInv, NEW c \in Conns, EndRead(c)
  PROVE  PagerInv'
<1>1. ConnStep(c)
  BY DEF ConnStep
<1>2. TypeOK'
  BY <1>1, StepFacts DEF EndRead, Unlocked, Goto, TypeOK, NO_LOCK, EXCLUSIVE_LOCK
<1>3. /\ eState[c] = "READER" /\ ReaderInv(c)
      /\ eState'[c] = "OPEN" /\ pc'[c] = "idle" /\ UNCHANGED <<cache[c], vers[c], dirty[c], goal[c]>>
      /\ vers[c] \in Int
  BY <1>1, StepFacts DEF EndRead, Unlocked, Goto, TypeOK, ConnInv, Contents, NoPage
<1>4. \A p \in Pages : Image'[p] = file[p]
  BY <1>3, ImageIsFile DEF EndRead, ReaderInv, Image, Restored
<1>5. OpenInv(c)'
  BY <1>3, <1>4, OneIsPage DEF EndRead, OpenInv, ReaderInv, Fresh
<1>6. ConnInv(c)'
  BY <1>3, <1>5 DEF ConnInv, Owner
<1>7. eState'[c] \notin WriterStates
  BY <1>3 DEF WriterStates
<1> QED
  BY <1>1, <1>2, <1>6, <1>7, StepFacts, QuietStep DEF EndRead

(* The cache is validated. *)
LEMMA CheckVersionKeepsInv ==
  ASSUME PagerInv, NEW c \in Conns, CheckVersion(c)
  PROVE  PagerInv'
<1>1. ConnStep(c)
  BY DEF ConnStep
<1>2. file[1] \in Contents
  BY <1>1, StepFacts, OneIsPage DEF TypeOK
<1>3. TypeOK'
  BY <1>1, <1>2, StepFacts DEF CheckVersion, Goto, TypeOK, EmptyCache
<1>4. /\ eState[c] = "OPEN" /\ OpenInv(c) /\ jrnl.nRec = {}
      /\ eState'[c] = "READER" /\ pc'[c] = "idle" /\ vers'[c] = file[1]
      /\ UNCHANGED <<dirty[c], goal[c], file, jrnl>>
  <2>1. eState[c] = "OPEN" /\ OpenInv(c)
    BY <1>1, StepFacts DEF CheckVersion, LockOf, ConnInv
  <2> QED
    BY <1>1, <2>1, StepFacts DEF CheckVersion, Goto, TypeOK, OpenInv
<1>5. \A p \in Pages : cache'[c][p] \in {NoPage, file[p]}
  <2>1. SUFFICES ASSUME NEW p \in Pages PROVE cache'[c][p] \in {NoPage, file[p]}
    OBVIOUS
  <2>2. cache'[c] = [(IF vers[c] = file[1] THEN cache[c] ELSE EmptyCache) EXCEPT ![1] = file[1]]
    BY <1>1, StepFacts DEF CheckVersion, TypeOK
  <2>3. Image[p] = file[p] /\ Image[1] = file[1]
    BY <1>4, ImageIsFile, OneIsPage
  <2>4. cache[c] \in [Pages -> Contents \cup {NoPage}]
    BY <1>1, StepFacts DEF TypeOK
  <2> QED
    BY <2>2, <2>3, <2>4, <1>4 DEF OpenInv, EmptyCache
<1>6. ReaderInv(c)'
  BY <1>4, <1>5 DEF OpenInv, ReaderInv, Fresh
<1>7. ConnInv(c)'
  BY <1>4, <1>6 DEF ConnInv, Owner
<1>8. eState'[c] \notin WriterStates
  BY <1>4 DEF WriterStates
<1> QED
  BY <1>1, <1>3, <1>7, <1>8, StepFacts, QuietStep DEF CheckVersion

LEMMA ReadPageKeepsInv ==
  ASSUME PagerInv, NEW c \in Conns, NEW p \in Pages, ReadPage(c, p)
  PROVE  PagerInv'
<1>1. \E q \in Pages : PageStep(c, q)
  BY DEF PageStep
<1>2. TypeOK'
  BY <1>1, StepFacts DEF ReadPage, TypeOK
<1>3. /\ eState[c] # "OPEN" /\ pc[c] = "idle" /\ cache[c][p] = NoPage
      /\ cache'[c][p] = file[p] /\ \A q \in Pages : q # p => cache'[c][q] = cache[c][q]
      /\ UNCHANGED <<file, disk, jrnl, nTxn, eState, pc, vers, dirty, goal>>
  BY <1>1, StepFacts DEF ReadPage, TypeOK
<1>4. Image' = Image
  BY <1>3 DEF Image, Restored
<1>5. CASE eState[c] \in {"READER", "WRITER_LOCKED"}
  <2>1. ReaderInv(c)'
    BY <1>1, <1>3, <1>5, StepFacts DEF ConnInv, ReaderInv, Fresh
  <2>2. ConnInv(c)'
    BY <1>3, <1>5, <2>1 DEF ConnInv, Owner
  <2> QED
    BY <1>1, <1>2, <1>3, <2>2, StepFacts, QuietStep DEF ReadPage
<1>6. CASE Owner(c)
  <2>1. WriterInv(c)
    BY <1>1, <1>3, <1>6, StepFacts DEF ConnInv
  <2>2. p \notin dirty[c]
    <3>1. SUFFICES ASSUME p \in dirty[c] PROVE FALSE
      OBVIOUS
    <3>2. cache[c][p] = NewContent(p)
      BY <2>1, <3>1 DEF WriterInv
    <3>3. nTxn \in Nat /\ Image[1] \in Nat
      BY <1>1, StepFacts, OneIsPage, BoundsAssumption DEF TypeOK, AgeInv
    <3> QED
      BY <1>3, <3>2, <3>3 DEF NewContent, NoPage
  <2>3. WriterInv(c)'
    <3>1. \A q \in Pages : q \notin dirty[c] => cache'[c][q] \in {NoPage, file[q]}
      BY <1>3, <2>1 DEF WriterInv, Fresh
    <3>2. \A q \in Pages : q \in dirty[c] => cache'[c][q] = NewContent(q)
      BY <1>3, <2>1, <2>2 DEF WriterInv
    <3>3. dirty[c] \subseteq Pages /\ \A q : NewContent(q)' = NewContent(q)
      BY <1>1, <1>3, <1>4, StepFacts DEF TypeOK, NewContent
    <3> QED
      BY <1>3, <1>4, <2>1, <3>1, <3>2, <3>3 DEF WriterInv, Fresh
  <2>4. ConnInv(c)'
    BY <1>3, <1>6, <2>3 DEF ConnInv, Owner
  <2> QED
    BY <1>1, <1>2, <1>3, <2>4, StepFacts, QuietStep DEF ReadPage
<1> QED
  BY <1>1, <1>3, <1>5, <1>6, StepFacts DEF LockOf, Owner

LEMMA PlaybackFailsKeepsInv ==
  ASSUME PagerInv, NEW c \in Conns, PlaybackFails(c)
  PROVE  PagerInv'
<1>1. ConnStep(c)
  BY DEF ConnStep
<1>2. TypeOK'
  BY <1>1, StepFacts DEF PlaybackFails, Unlocked, Goto, TypeOK, NO_LOCK, EXCLUSIVE_LOCK, EmptyCache
<1>3. /\ dirty[c] = {} /\ goal[c] = 0 /\ UNCHANGED <<dirty[c], goal[c]>>
      /\ eState'[c] = "OPEN" /\ pc'[c] = "idle" /\ cache'[c] = EmptyCache
  <2>1. dirty[c] = {} /\ goal[c] = 0
    BY <1>1, StepFacts DEF PlaybackFails, LockOf, ConnInv, OpenInv, UndoInv, Owner
  <2> QED
    BY <1>1, <2>1, StepFacts DEF PlaybackFails, Unlocked, Goto, TypeOK
<1>4. OpenInv(c)'
  BY <1>3 DEF OpenInv, EmptyCache
<1>5. ConnInv(c)'
  BY <1>3, <1>4 DEF ConnInv, Owner
<1>6. eState'[c] \notin WriterStates
  BY <1>3 DEF WriterStates
<1> QED
  BY <1>1, <1>2, <1>5, <1>6, StepFacts, QuietStep DEF PlaybackFails

(* A dirty page leaves the cache. *)
LEMMA SpillKeepsInv ==
  ASSUME PagerInv, NEW c \in Conns, NEW p \in Pages, Spill(c, p)
  PROVE  PagerInv'
<1>1. \E q \in Pages : PageStep(c, q)
  BY DEF PageStep
<1>2. TypeOK'
  BY <1>1, StepFacts DEF Spill, Goto, TypeOK
<1>3. Owner(c) /\ eState[c] # "WRITER_FINISHED" /\ WriterInv(c) /\ goal[c] = 0
  <2>1. pc[c] = "idle" /\ dirty[c] # {}
    BY DEF Spill
  <2>2. Owner(c) /\ eState[c] # "WRITER_FINISHED"
    BY <1>1, <2>1, StepFacts DEF LockOf, ConnInv, OpenInv, ReaderInv, Owner
  <2> QED
    BY <1>1, <2>1, <2>2, StepFacts DEF ConnInv, WriterInv
<1>4. /\ goal'[c] = p /\ p # 1 /\ p \in dirty[c] /\ p # 0 /\ pc[c] = "idle"
      /\ pc'[c] \in {"exclusive", "write"}
      /\ pc'[c] = "write" => p \in jrnl.dRec /\ eState[c] # "WRITER_CACHEMOD"
      /\ UNCHANGED <<file, disk, jrnl, nTxn, eState, vers, dirty, cache>>
  BY <1>1, StepFacts, PagesAssumption DEF Spill, Goto, TypeOK
<1>5. Image' = Image
  BY <1>4 DEF Image, Restored
<1>6. WriterInv(c)'
  BY <1>3, <1>4, <1>5 DEF WriterInv, Fresh, NewContent
<1>7. ConnInv(c)'
  BY <1>3, <1>4, <1>6 DEF ConnInv, Owner
<1> QED
  BY <1>1, <1>2, <1>4, <1>7, StepFacts, QuietStep DEF Spill

------------------------------------------------------------------------------
(* Steps that change the journal or the file.  What the others see of them. *)
LEMMA ReservedStep ==
  ASSUME PagerInv, NEW c \in Conns, ConnStep(c) \/ \E p \in Pages : PageStep(c, p),
         eLock[c] >= RESERVED_LOCK \/ CanReserve(c),
         UNCHANGED file, jrnl'.nRec = jrnl.nRec, \A p \in Pages : Image'[p] = Image[p],
         NEW d \in Others(c)
  PROVE  ConnInv(d)'
<1>1. d \in Conns /\ LockOf(d) /\ ConnInv(d) /\ Untouched(d) /\ LockInv /\ d # c
  BY StepFacts DEF Others
<1>2. eLock[d] <= SHARED_LOCK
  BY <1>1 DEF LockInv, CanReserve
<1> QED
  BY <1>1, <1>2, SameForReaders

LEMMA ExclusiveStep ==
  ASSUME PagerInv, NEW c \in Conns, ConnStep(c) \/ \E p \in Pages : PageStep(c, p),
         eLock[c] = EXCLUSIVE_LOCK \/ CanExclude(c), TypeOK', Image'[1] \in Int,
         Image'[1] > Image[1] \/ \A p \in Pages : Image'[p] = Image[p],
         NEW d \in Others(c)
  PROVE  ConnInv(d)'
<1>1. d \in Conns /\ LockOf(d) /\ ConnInv(d) /\ Untouched(d) /\ LockInv /\ d # c /\ TypeOK /\ AgeInv
  BY StepFacts DEF Others
<1>2. eLock[d] = NO_LOCK
  BY <1>1 DEF LockInv, CanExclude
<1>3. Image[1] \in Int
  BY <1>1, OneIsPage DEF AgeInv
<1> QED
  BY <1>1, <1>2, <1>3, SameForIdle

(* The journal j with the original of page p. *)
WithRecord(j, p) == IF j.rec[p] = NoPage THEN [j EXCEPT !.rec[p] = file[p]] ELSE j

LEMMA RecordKeepsJournal ==
  ASSUME TypeOK, NEW j \in Journals, Restores(j), j.exists, NEW p \in Pages
  PROVE  LET k == WithRecord(j, p) IN
         /\ k \in Journals /\ Restores(k) /\ k.exists
         /\ k.nRec = j.nRec /\ k.dRec = j.dRec /\ k.sRec = j.sRec /\ k.inDir = j.inDir
         /\ Recorded(k) = Recorded(j) \cup {p}
         /\ \A q \in Pages : q \in Recorded(j) => k.rec[q] = j.rec[q]
<1> DEFINE k == WithRecord(j, p)
<1>1. file[p] \in Contents /\ file[p] # NoPage
  BY DEF TypeOK, Contents, NoPage
<1>2. /\ k \in Journals /\ k.exists /\ k.nRec = j.nRec /\ k.dRec = j.dRec /\ k.sRec = j.sRec
      /\ k.inDir = j.inDir
      /\ \A q \in Pages : k.rec[q] = IF q = p /\ j.rec[p] = NoPage THEN file[p] ELSE j.rec[q]
  <2>1. CASE j.rec[p] = NoPage
    <3>1. k = [j EXCEPT !.rec[p] = file[p]]
      BY <2>1 DEF WithRecord
    <3> QED
      BY <2>1, <3>1, <1>1 DEF Journals
  <2>2. CASE j.rec[p] # NoPage
    BY <2>2 DEF WithRecord
  <2> QED BY <2>1, <2>2
<1> HIDE DEF k
<1>3. Recorded(k) = Recorded(j) \cup {p}
  BY <1>1, <1>2 DEF Recorded
<1>4. \A q \in Pages : q \in Recorded(j) => k.rec[q] = j.rec[q]
  BY <1>2 DEF Recorded
<1>5. Restores(k)
  BY <1>1, <1>2, <1>3 DEF Restores, Recorded
<1> QED
  BY <1>2, <1>3, <1>4, <1>5 DEF k

(* Both writes of a transaction, of a page and of the change counter. *)
LEMMA ModifyFacts ==
  ASSUME PagerInv, NEW c \in Conns, pc[c] = "idle",
         eState[c] \in {"WRITER_LOCKED", "WRITER_CACHEMOD", "WRITER_DBMOD"},
         NEW p \in Pages, p = 1 => eState[c] # "WRITER_LOCKED",
         NEW v, v = NewContent(p), Modify(c, p, v), UNCHANGED <<file, disk, ghost, nTxn, vers>>
  PROVE  /\ jrnl' \in Journals /\ eState'[c] = (IF eState[c] = "WRITER_DBMOD" THEN "WRITER_DBMOD" ELSE "WRITER_CACHEMOD")
         /\ v \in Contents /\ cache' \in [Conns -> [Pages -> Contents \cup {NoPage}]]
         /\ dirty' \in [Conns -> SUBSET Pages] /\ dirty'[c] = dirty[c] \cup {p}
         /\ jrnl'.nRec = jrnl.nRec /\ JournalInv'
         /\ \A q \in Pages : Image'[q] = Image[q] /\ Previous'[q] = Previous[q]
         /\ \A q : NewContent(q)' = NewContent(q)
         /\ jrnl'.exists /\ \E q \in Pages \ {1} : q \in Recorded(jrnl')
         /\ jrnl'.dRec \subseteq jrnl.dRec /\ jrnl'.sRec \subseteq jrnl.sRec
         /\ eState[c] = "WRITER_DBMOD" => jrnl'.inDir
         /\ eState[c] # "WRITER_DBMOD" => jrnl'.dRec = {} /\ jrnl'.nRec = {}
         /\ \A q \in Pages : q \notin dirty'[c] => cache'[c][q] \in {NoPage, file[q]}
         /\ dirty'[c] \subseteq Recorded(jrnl')
         /\ \A q \in dirty'[c] : cache'[c][q] = NewContent(q)
         /\ \A q \in Pages : q \in Recorded(jrnl') /\ q \notin dirty'[c] => file[q] = NewContent(q)
         /\ 1 \in Recorded(jrnl') => 1 \in dirty'[c]
         /\ 1 \in dirty'[c] => file[1] = Image[1]
         /\ vers[c] = file[1]
<1> DEFINE j == IF eState[c] = "WRITER_LOCKED" THEN NewJournal ELSE jrnl
<1>1. TypeOK /\ JournalInv /\ AgeInv /\ ConnInv(c) /\ c \in Conns
  BY DEF PagerInv
<1>2. eState[c] = "WRITER_LOCKED" => ReaderInv(c)
  BY <1>1 DEF ConnInv
<1>3. eState[c] # "WRITER_LOCKED" => WriterInv(c)
  BY <1>1 DEF ConnInv, Owner
<1>4. NewJournal \in Journals /\ Restores(NewJournal) /\ NewJournal.exists /\ Recorded(NewJournal) = {}
      /\ NewJournal.nRec = {} /\ NewJournal.dRec = {} /\ NewJournal.sRec = {} /\ ~NewJournal.inDir
  BY DEF NewJournal, NoJournal, EmptyCache, Journals, Restores, Recorded
<1>5. /\ j \in Journals /\ Restores(j) /\ j.exists
      /\ j.nRec = jrnl.nRec /\ j.dRec \subseteq jrnl.dRec /\ j.sRec \subseteq jrnl.sRec
      /\ jrnl.dRec = {} => j.dRec = {}
  BY <1>1, <1>2, <1>3, <1>4 DEF TypeOK, JournalInv, ReaderInv, WriterInv
<1>6. j.rec[p] = NoPage => View(c, p) = file[p]
  <2>1. ASSUME j.rec[p] = NoPage PROVE cache[c][p] \in {NoPage, file[p]}
    <3>1. CASE eState[c] = "WRITER_LOCKED"
      BY <3>1, <1>2 DEF ReaderInv, Fresh
    <3>2. CASE eState[c] # "WRITER_LOCKED"
      <4>1. p \notin Recorded(jrnl)
        BY <2>1, <3>2 DEF Recorded
      <4> QED
        BY <4>1, <3>2, <1>3 DEF WriterInv, Fresh
    <3> QED BY <3>1, <3>2
  <2> QED BY <2>1 DEF View
<1>7. jrnl' = WithRecord(j, p)
  BY <1>6 DEF Modify, WithRecord
<1> HIDE DEF j
<1>8. /\ jrnl' \in Journals /\ Restores(jrnl') /\ jrnl'.exists
      /\ jrnl'.nRec = j.nRec /\ jrnl'.dRec = j.dRec /\ jrnl'.sRec = j.sRec /\ jrnl'.inDir = j.inDir
      /\ Recorded(jrnl') = Recorded(j) \cup {p}
      /\ \A q \in Pages : q \in Recorded(j) => jrnl'.rec[q] = j.rec[q]
  BY <1>1, <1>5, <1>7, RecordKeepsJournal
<1>9. eState'[c] = (IF eState[c] = "WRITER_DBMOD" THEN "WRITER_DBMOD" ELSE "WRITER_CACHEMOD")
  BY <1>1 DEF Modify, TypeOK
<1>10. \A q \in Pages : Image[q] \in Nat /\ Image[q] < nTxn
  <2>1. eState[c] \in WriterStates
    BY DEF WriterStates
  <2> QED
    BY <2>1, <1>1 DEF AgeInv
<1>11. v \in Contents
  BY <1>10, <1>1, OneIsPage, BoundsAssumption DEF NewContent, Contents, TypeOK
<1>12. /\ cache' \in [Conns -> [Pages -> Contents \cup {NoPage}]]
       /\ dirty' \in [Conns -> SUBSET Pages] /\ dirty'[c] = dirty[c] \cup {p}
       /\ cache'[c][p] = v /\ \A q \in Pages : q # p => cache'[c][q] = cache[c][q]
  BY <1>1, <1>11 DEF Modify, TypeOK
<1>13. \A q \in Pages : Image'[q] = Image[q] /\ Previous'[q] = Previous[q]
  <2>1. SUFFICES ASSUME NEW q \in Pages PROVE Image'[q] = Image[q] /\ Previous'[q] = Previous[q]
    OBVIOUS
  <2>2. Image'[q] = IF jrnl'.exists /\ q \in jrnl'.nRec THEN jrnl'.rec[q] ELSE file[q]
    BY DEF Image, Restored
  <2>3. CASE q \in jrnl.nRec
    <3>1. eState[c] # "WRITER_LOCKED" /\ j = jrnl /\ q \in Recorded(j)
      BY <2>3, <1>1, <1>2 DEF ReaderInv, j, JournalInv, Restores
    <3> QED
      BY <3>1, <2>2, <2>3, <1>5, <1>8, ImageAt DEF Image, Previous, Restored
  <2>4. CASE q \notin jrnl.nRec
    BY <2>2, <2>4, <1>5, <1>8, ImageAt DEF Image, Previous, Restored
  <2> QED BY <2>3, <2>4
<1>14. \A q : NewContent(q)' = NewContent(q)
  BY <1>13, OneIsPage DEF NewContent
<1>15. JournalInv'
  <2>1. Restores(ghost)'
    BY <1>1 DEF JournalInv, Restores, Recorded
  <2>2. Restores(jrnl)'
    BY <1>8 DEF Restores, Recorded
  <2>3. \A q \in Pages : q \notin jrnl'.dRec => disk[q] = {file[q]}
    <3>1. eState[c] = "WRITER_LOCKED" => jrnl.dRec = {}
      BY <1>1, <1>2 DEF ReaderInv, JournalInv, Restores
    <3>2. jrnl'.dRec = jrnl.dRec
      BY <3>1, <1>5, <1>8 DEF j
    <3> QED
      BY <3>2, <1>1 DEF JournalInv
  <2> QED
    BY <2>1, <2>2, <2>3, <1>1, <1>5, <1>8 DEF JournalInv
<1>16. Recorded(j) = IF eState[c] = "WRITER_LOCKED" THEN {} ELSE Recorded(jrnl)
  BY <1>4 DEF j
<1>17. \E q \in Pages \ {1} : q \in Recorded(jrnl')
  BY <1>3, <1>8, <1>16 DEF WriterInv
<1>18. /\ eState[c] = "WRITER_DBMOD" => jrnl'.inDir
       /\ eState[c] # "WRITER_DBMOD" => jrnl'.dRec = {} /\ jrnl'.nRec = {}
  BY <1>2, <1>3, <1>4, <1>5, <1>8 DEF j, WriterInv, ReaderInv
<1>19. eState[c] = "WRITER_LOCKED" => dirty[c] = {} /\ vers[c] = file[1] /\ \A q \in Pages : Fresh(c, q)
  BY <1>2 DEF ReaderInv
<1>20. \A q \in Pages : q \notin dirty'[c] => cache'[c][q] \in {NoPage, file[q]}
  BY <1>3, <1>12, <1>19 DEF WriterInv, Fresh
<1>21. dirty'[c] \subseteq Recorded(jrnl')
  BY <1>3, <1>8, <1>12, <1>16, <1>19 DEF WriterInv
<1>22. \A q \in dirty'[c] : cache'[c][q] = NewContent(q)
  <2>1. \A q \in dirty[c] : q \in Pages /\ cache[c][q] = NewContent(q)
    BY <1>1, <1>3, <1>19 DEF WriterInv, TypeOK
  <2> QED
    BY <2>1, <1>12
<1>23. \A q \in Pages : q \in Recorded(jrnl') /\ q \notin dirty'[c] => file[q] = NewContent(q)
  BY <1>3, <1>8, <1>12, <1>16 DEF WriterInv
<1>24. 1 \in Recorded(jrnl') => 1 \in dirty'[c]
  BY <1>3, <1>8, <1>12, <1>16 DEF WriterInv
<1>25. 1 \in dirty'[c] => file[1] = Image[1]
  <2>1. SUFFICES ASSUME 1 \in dirty'[c] PROVE file[1] = Image[1]
    OBVIOUS
  <2>2. CASE 1 \in dirty[c]
    BY <2>2, <1>3, <1>19 DEF WriterInv
  <2>3. CASE 1 \notin dirty[c]
    <3>1. eState[c] # "WRITER_LOCKED" /\ 1 \notin Recorded(jrnl)
      BY <2>1, <2>3, <1>3, <1>12 DEF WriterInv
    <3>2. 1 \notin jrnl.nRec
      BY <3>1, <1>1 DEF JournalInv, Restores
    <3> QED
      BY <3>2, ImageAt, OneIsPage
  <2> QED BY <2>2, <2>3
<1>26. vers[c] = file[1]
  BY <1>3, <1>19 DEF WriterInv
<1> QED
  BY <1>5, <1>8, <1>9, <1>11, <1>12, <1>13, <1>14, <1>15, <1>17, <1>18, <1>20, <1>21, <1>22, <1>23,
     <1>24, <1>25, <1>26

LEMMA WritePageKeepsInv ==
  ASSUME PagerInv, NEW c \in Conns, NEW p \in Pages, WritePage(c, p)
  PROVE  PagerInv' /\ \A q \in Pages : Image'[q] = Image[q] /\ Previous'[q] = Previous[q]
<1>1. \E q \in Pages : PageStep(c, q)
  BY DEF PageStep
<1>2. /\ pc[c] = "idle" /\ p # 1 /\ nTxn = NewContent(p) /\ Modify(c, p, nTxn)
      /\ eState[c] \in {"WRITER_LOCKED", "WRITER_CACHEMOD", "WRITER_DBMOD"}
      /\ UNCHANGED <<file, disk, ghost, eLock, pc, goal, vers, nTxn, crashes>>
  BY DEF WritePage, NewContent
<1>3. TypeOK'
  <2>1. eState' \in [Conns -> {"OPEN", "READER"} \cup WriterStates]
    BY <1>1, <1>2, StepFacts DEF Modify, TypeOK, WriterStates
  <2> QED
    BY <1>1, <1>2, <2>1, StepFacts, ModifyFacts DEF TypeOK
<1>4. JournalInv'
  BY <1>2, ModifyFacts
<1>5. AgeInv'
  <2>1. \A d \in Conns : eState'[d] \in WriterStates => eState[d] \in WriterStates
    BY <1>1, <1>2, StepFacts DEF Others, Untouched, WriterStates
  <2>2. \A q \in Pages : Image'[q] = Image[q] /\ Previous'[q] = Previous[q]
    BY <1>2, ModifyFacts
  <2> QED
    BY <1>1, <1>2, <2>1, <2>2, StepFacts DEF AgeInv
<1>6. goal[c] = 0
  BY <1>1, <1>2, StepFacts DEF ConnInv, ReaderInv, WriterInv, Owner
<1>7. WriterInv(c)'
  <2>1. Image'[1] = Image[1]
    BY <1>2, ModifyFacts, OneIsPage
  <2> QED
    BY <1>2, <1>6, <2>1, ModifyFacts DEF WriterInv, Fresh
<1>8. ConnInv(c)'
  BY <1>2, <1>7, ModifyFacts DEF ConnInv, Owner
<1>9. \A d \in Others(c) : ConnInv(d)'
  <2>1. eLock[c] >= RESERVED_LOCK
    BY <1>1, <1>2, StepFacts DEF LockOf, RESERVED_LOCK, PENDING_LOCK, EXCLUSIVE_LOCK
  <2> QED
    BY <1>1, <1>2, <2>1, ModifyFacts, ReservedStep
<1> QED
  BY <1>1, <1>2, <1>3, <1>4, <1>5, <1>8, <1>9, StepFacts, ModifyFacts DEF PagerInv, Others

LEMMA CommitKeepsInv ==
  ASSUME PagerInv, NEW c \in Conns, Commit(c)
  PROVE  PagerInv' /\ \A q \in Pages : Image'[q] = Image[q] /\ Previous'[q] = Previous[q]
<1>1. ConnStep(c)
  BY DEF ConnStep
<1>2. CASE eState[c] = "WRITER_LOCKED"
  <2>1. /\ eLock' = [eLock EXCEPT ![c] = SHARED_LOCK]
        /\ eState' = [eState EXCEPT ![c] = "READER"]
        /\ UNCHANGED <<file, disk, ghost, goal, vers, nTxn, crashes, jrnl, cache, dirty, pc>>
    BY <1>2 DEF Commit
  <2>2. TypeOK'
    BY <1>1, <2>1, StepFacts DEF TypeOK, SHARED_LOCK, NO_LOCK, EXCLUSIVE_LOCK
  <2>3. eState'[c] = "READER" /\ eState'[c] \notin WriterStates
    BY <1>1, <2>1, StepFacts DEF TypeOK, WriterStates
  <2>4. ReaderInv(c)'
    BY <1>1, <1>2, <2>1, StepFacts DEF ConnInv, ReaderInv, Fresh
  <2>5. ConnInv(c)'
    BY <2>3, <2>4 DEF ConnInv, Owner
  <2> QED
    BY <1>1, <2>1, <2>2, <2>3, <2>5, StepFacts, QuietStep DEF Image, Previous, Restored
<1>3. CASE eState[c] \in {"WRITER_CACHEMOD", "WRITER_DBMOD"}
  <2>1. /\ pc[c] = "idle" /\ Modify(c, 1, vers[c] + 1) /\ pc' = [pc EXCEPT ![c] = "exclusive"]
        /\ UNCHANGED <<file, disk, ghost, eLock, goal, vers, nTxn, crashes>>
    BY <1>3 DEF Commit, Goto
  <2>2. WriterInv(c)
    BY <1>1, <1>3, <2>1, StepFacts DEF ConnInv, Owner
  <2>3. vers[c] + 1 = NewContent(1)
    <3>1. file[1] = Image[1]
      <4>1. CASE 1 \in dirty[c]
        BY <2>2, <4>1 DEF WriterInv
      <4>2. CASE 1 \notin dirty[c]
        <5>1. 1 \notin Recorded(jrnl)
          BY <2>1, <2>2, <4>2 DEF WriterInv
        <5>2. 1 \notin jrnl.nRec
          BY <5>1, <1>1, StepFacts DEF JournalInv, Restores
        <5> QED
          BY <5>2, ImageAt, OneIsPage
      <4> QED BY <4>1, <4>2
    <3> QED
      BY <2>2, <3>1 DEF WriterInv, NewContent
  <2>4. TypeOK'
    <3>1. eState' \in [Conns -> {"OPEN", "READER"} \cup WriterStates]
      BY <1>1, <1>3, <2>1, StepFacts DEF Modify, TypeOK, WriterStates
    <3> QED
      BY <1>1, <1>3, <2>1, <2>3, <3>1, StepFacts, ModifyFacts, OneIsPage DEF TypeOK
  <2>5. JournalInv' /\ \A q \in Pages : Image'[q] = Image[q] /\ Previous'[q] = Previous[q]
    BY <1>3, <2>1, <2>3, ModifyFacts, OneIsPage
  <2>6. AgeInv'
    <3>1. \A d \in Conns : eState'[d] \in WriterStates => eState[d] \in WriterStates
      BY <1>1, <1>3, StepFacts DEF Others, Untouched, WriterStates
    <3> QED
      BY <1>1, <2>1, <2>5, <3>1, StepFacts DEF AgeInv
  <2>7. WriterInv(c)'
    <3>1. Image'[1] = Image[1]
      BY <2>5, OneIsPage
    <3>2. goal[c] = 0 /\ pc'[c] = "exclusive"
      BY <1>1, <2>1, <2>2, StepFacts DEF WriterInv, TypeOK
    <3>3. 1 \in Recorded(jrnl')
      BY <1>3, <2>1, <2>3, ModifyFacts, OneIsPage
    <3> QED
      BY <1>3, <2>1, <2>3, <3>1, <3>2, <3>3, ModifyFacts, OneIsPage DEF WriterInv, Fresh
  <2>8. ConnInv(c)'
    <3>1. eState'[c] \in {"WRITER_CACHEMOD", "WRITER_DBMOD"}
      BY <1>3, <2>1, <2>3, ModifyFacts, OneIsPage
    <3>2. pc'[c] = "exclusive"
      BY <1>1, <2>1, StepFacts DEF TypeOK
    <3> QED
      BY <2>7, <3>1, <3>2 DEF ConnInv, Owner
  <2>9. \A d \in Others(c) : ConnInv(d)'
    <3>1. eLock[c] >= RESERVED_LOCK
      BY <1>1, <1>3, StepFacts DEF LockOf, RESERVED_LOCK, PENDING_LOCK, EXCLUSIVE_LOCK
    <3>2. jrnl'.nRec = jrnl.nRec
      BY <1>3, <2>1, <2>3, ModifyFacts, OneIsPage
    <3> QED
      BY <1>1, <2>1, <2>5, <3>1, <3>2, ReservedStep
  <2> QED
    BY <1>1, <2>4, <2>5, <2>6, <2>8, <2>9, StepFacts DEF PagerInv, Others
<1> QED
  BY <1>2, <1>3 DEF Commit

LEMMA BeginKeepsInv ==
  ASSUME PagerInv, NEW c \in Conns, Begin(c)
  PROVE  PagerInv'
<1>1. ConnStep(c)
  BY DEF ConnStep
<1>2. TypeOK' /\ nTxn \in Nat /\ nTxn' = nTxn + 1
  BY <1>1, StepFacts, BoundsAssumption DEF Begin, TypeOK, RESERVED_LOCK, NO_LOCK, EXCLUSIVE_LOCK, WriterStates
<1>3. Image' = Image /\ Previous' = Previous /\ JournalInv'
  BY <1>1, StepFacts DEF Begin, Image, Previous, Restored, JournalInv, Restores, Recorded
<1>4. AgeInv'
  BY <1>1, <1>2, <1>3, StepFacts DEF AgeInv
<1>5. eState[c] = "READER" /\ eState'[c] = "WRITER_LOCKED" /\ ReaderInv(c)
  BY <1>1, StepFacts DEF Begin, TypeOK, ConnInv
<1>6. ConnInv(c)'
  BY <1>5 DEF Begin, ConnInv, ReaderInv, Fresh, Owner
<1>7. \A d \in Others(c) : ConnInv(d)'
  BY <1>1, <1>3, ReservedStep DEF Begin
<1> QED
  BY <1>1, <1>2, <1>3, <1>4, <1>6, <1>7, StepFacts DEF PagerInv, Others

LEMMA LockExclusiveKeepsInv ==
  ASSUME PagerInv, NEW c \in Conns, LockExclusive(c)
  PROVE  PagerInv'
<1>1. ConnStep(c)
  BY DEF ConnStep
<1>2. TypeOK'
  <2>1. CASE CanExclude(c)
    BY <1>1, <2>1, StepFacts DEF LockExclusive, Goto, TypeOK, NO_LOCK, PENDING_LOCK, EXCLUSIVE_LOCK
  <2>2. CASE ~CanExclude(c)
    <3>1. eLock' \in [Conns -> NO_LOCK .. EXCLUSIVE_LOCK]
      BY SMTT(30), <1>1, <2>2, StepFacts DEF LockExclusive, TypeOK, NO_LOCK, PENDING_LOCK, EXCLUSIVE_LOCK
    <3> QED
      BY <1>1, <2>2, <3>1, StepFacts DEF LockExclusive, Goto, TypeOK
  <2> QED BY <2>1, <2>2
<1>3. Owner(c) /\ WriterInv(c) /\ pc[c] = "exclusive"
  BY <1>1, StepFacts DEF LockExclusive, LockOf, ConnInv, Owner
<1>4. /\ UNCHANGED <<file, disk, jrnl, ghost, eState, cache, dirty, vers, nTxn>>
      /\ \/ pc'[c] = "syncRecords" /\ goal'[c] = goal[c]
         \/ pc'[c] = "idle" /\ goal'[c] = 0
  BY <1>1, StepFacts DEF LockExclusive, Goto, TypeOK
<1>5. Image' = Image
  BY <1>4 DEF Image, Restored
<1>6. WriterInv(c)'
  BY <1>3, <1>4, <1>5 DEF WriterInv, Fresh, NewContent
<1>7. ConnInv(c)'
  BY <1>3, <1>4, <1>6 DEF ConnInv, Owner
<1> QED
  BY <1>1, <1>2, <1>4, <1>7, StepFacts, QuietStep

(* A rollback begins where the transaction is. *)
LEMMA RollbackKeepsInv ==
  ASSUME PagerInv, NEW c \in Conns, Rollback(c)
  PROVE  PagerInv'
<1>1. ConnStep(c)
  BY DEF ConnStep
<1>2. TypeOK'
  <2>1. CASE eState[c] = "WRITER_LOCKED"
    <3>1. eLock' \in [Conns -> NO_LOCK .. EXCLUSIVE_LOCK]
      BY <1>1, <2>1, StepFacts DEF Rollback, TypeOK, NO_LOCK, SHARED_LOCK, EXCLUSIVE_LOCK
    <3> QED
      BY <1>1, <2>1, <3>1, StepFacts DEF Rollback, TypeOK
  <2>2. CASE eState[c] # "WRITER_LOCKED"
    BY <1>1, <2>2, StepFacts DEF Rollback, Goto, TypeOK
  <2> QED BY <2>1, <2>2
<1>3. /\ UNCHANGED <<file, disk, jrnl, ghost, cache, vers, nTxn>>
      /\ dirty'[c] = {} /\ goal'[c] = 0 /\ eState[c] \in WriterStates /\ pc[c] # "playback"
      /\ \/ eState[c] = "WRITER_LOCKED" /\ eState'[c] = "READER" /\ pc'[c] = pc[c]
         \/ /\ eState[c] # "WRITER_LOCKED" /\ eState'[c] = eState[c] /\ pc'[c] = "playback"
            /\ eLock'[c] = eLock[c]
  BY <1>1, StepFacts DEF Rollback, Goto, TypeOK
<1>4. CASE eState[c] = "WRITER_LOCKED"
  BY <1>1, <1>2, <1>3, <1>4, StepFacts, QuietStep DEF ConnInv, ReaderInv, Fresh, Owner
<1>5. CASE eState[c] # "WRITER_LOCKED"
  <2>1. Owner(c) /\ WriterInv(c)
    BY <1>1, <1>3, <1>5, StepFacts DEF ConnInv, Owner, WriterStates
  <2>2. eState[c] = "WRITER_CACHEMOD" /\ eLock[c] # EXCLUSIVE_LOCK => jrnl.nRec = {}
    BY <1>1, <2>1, StepFacts DEF LockOf, Owner, WriterInv, ConnInv, UndoInv
  <2>3. UndoInv(c)'
    BY <1>3, <1>5, <2>1, <2>2 DEF WriterInv, UndoInv, Fresh
  <2>4. ConnInv(c)'
    BY <1>3, <1>5, <2>1, <2>3 DEF ConnInv, Owner
  <2> QED
    BY <1>1, <1>2, <1>3, <1>5, <2>4, StepFacts, QuietStep
<1> QED BY <1>4, <1>5

(* A hot journal, or one that has become empty since, is about to be played
   back; or there is none after all, or somebody else is there. *)
LEMMA LockHotKeepsInv ==
  ASSUME PagerInv, NEW c \in Conns, LockHot(c)
  PROVE  PagerInv' /\ \A q \in Pages : Image'[q] = Image[q] /\ Previous'[q] = Previous[q]
<1>1. ConnStep(c)
  BY DEF ConnStep
<1>2. eState[c] = "OPEN" /\ OpenInv(c) /\ eLock[c] = SHARED_LOCK
  BY <1>1, StepFacts DEF LockHot, LockOf, ConnInv
<1>3. CASE CanExclude(c) /\ jrnl.exists
  <2>1. /\ eLock' = [eLock EXCEPT ![c] = EXCLUSIVE_LOCK]
        /\ cache' = [cache EXCEPT ![c] = IF jrnl.nRec = {} THEN @ ELSE EmptyCache]
        /\ jrnl' = [jrnl EXCEPT !.dRec = jrnl.nRec, !.sRec = Recorded(jrnl), !.inDir = TRUE]
        /\ pc' = [pc EXCEPT ![c] = "playback"]
        /\ UNCHANGED <<file, disk, ghost, eState, goal, dirty, vers, nTxn, crashes>>
    BY <1>3 DEF LockHot, Goto
  <2>2. jrnl \in Journals /\ Restores(jrnl) /\ Recorded(jrnl) \subseteq Pages
    BY <1>1, StepFacts DEF TypeOK, JournalInv, Recorded
  <2>3. /\ jrnl' \in Journals /\ jrnl'.exists /\ jrnl'.inDir /\ jrnl'.nRec = jrnl.nRec
        /\ jrnl'.dRec = jrnl.nRec /\ jrnl'.sRec = Recorded(jrnl) /\ jrnl'.rec = jrnl.rec
    BY <1>3, <2>1, <2>2 DEF Journals
  <2>4. TypeOK'
    BY <1>1, <2>1, <2>3, StepFacts DEF TypeOK, NO_LOCK, EXCLUSIVE_LOCK, EmptyCache
  <2>5. \A p \in Pages : Image'[p] = Image[p] /\ Previous'[p] = Previous[p]
    BY <1>3, <2>1, <2>3 DEF Image, Previous, Restored
  <2>6. JournalInv'
    BY <1>1, <1>3, <2>1, <2>2, <2>3, StepFacts DEF JournalInv, Restores, Recorded
  <2>7. AgeInv'
    BY <1>1, <2>1, <2>5, StepFacts DEF AgeInv
  <2>8. ConnInv(c)'
    <3>1. cache'[c] = (IF jrnl.nRec = {} THEN cache[c] ELSE EmptyCache) /\ pc'[c] = "playback"
      BY <1>1, <2>1, StepFacts DEF TypeOK
    <3>2. OpenInv(c)'
      BY <1>2, <2>1, <2>3, <2>5, <3>1, OneIsPage DEF OpenInv, EmptyCache
    <3> QED
      BY <1>2, <2>1, <3>2 DEF ConnInv, Owner
  <2>9. \A d \in Others(c) : ConnInv(d)'
    <3>1. Image'[1] \in Int
      BY <2>7, OneIsPage DEF AgeInv
    <3> QED
      BY <1>1, <1>3, <2>4, <2>5, <3>1, ExclusiveStep
  <2> QED
    BY <1>1, <2>4, <2>5, <2>6, <2>7, <2>8, <2>9, StepFacts DEF PagerInv, Others
<1>4. CASE ~(CanExclude(c) /\ jrnl.exists)
  <2>1. /\ UNCHANGED <<file, disk, jrnl, ghost, goal, cache, dirty, vers, nTxn, crashes>>
        /\ eState'[c] = "OPEN" /\ pc'[c] \in {"version", "idle"}
        /\ pc'[c] = "version" => ~jrnl.exists
    BY <1>1, <1>2, <1>4, StepFacts DEF LockHot, Unlocked, Goto, TypeOK
  <2>2. TypeOK'
    <3>1. /\ eLock' = eLock \/ eLock' = [eLock EXCEPT ![c] = NO_LOCK]
          /\ eState' = eState \/ eState' = [eState EXCEPT ![c] = "OPEN"]
      BY <1>4 DEF LockHot, Unlocked
    <3>2. eLock' \in [Conns -> NO_LOCK .. EXCLUSIVE_LOCK]
      BY <1>1, <3>1, StepFacts DEF TypeOK, NO_LOCK, EXCLUSIVE_LOCK
    <3>3. eState' \in [Conns -> {"OPEN", "READER"} \cup WriterStates]
      BY <1>1, <3>1, StepFacts DEF TypeOK
    <3>4. PICK l \in {"version", "idle"} : pc' = [pc EXCEPT ![c] = l]
      BY <1>4 DEF LockHot, Unlocked, Goto
    <3>5. pc' \in [Conns -> {"idle", "hasJournal", "checkReserved", "lockHot", "playback", "version",
                             "exclusive", "syncRecords", "syncHeader", "write", "phaseTwo"}]
      BY <1>1, <3>4, StepFacts DEF TypeOK
    <3> QED
      BY <1>1, <2>1, <3>2, <3>3, <3>5, StepFacts DEF TypeOK
  <2>3. pc'[c] = "version" => jrnl.nRec = {}
    BY <1>1, <2>1, StepFacts DEF JournalInv, Restores, NoJournal
  <2>4. Image' = Image
    BY <2>1 DEF Image, Restored
  <2>5. OpenInv(c)'
    BY <1>2, <2>1, <2>3, <2>4 DEF OpenInv
  <2>6. ConnInv(c)'
    BY <2>1, <2>5 DEF ConnInv, Owner
  <2>7. PagerInv'
    BY <1>1, <2>1, <2>2, <2>6, StepFacts, QuietStep DEF WriterStates
  <2> QED
    BY <2>1, <2>7 DEF Image, Previous, Restored
<1> QED BY <1>3, <1>4

(* The records are counted: the image does not change, and the last journal
   cannot come back. *)
LEMMA SyncRecordsKeepsInv ==
  ASSUME PagerInv, NEW c \in Conns, SyncRecords(c)
  PROVE  PagerInv' /\ \A p \in Pages : Image'[p] = Image[p] /\ Previous'[p] = Image[p]
<1>1. ConnStep(c)
  BY DEF ConnStep
<1>2. Owner(c) /\ WriterInv(c) /\ pc[c] = "syncRecords" /\ eLock[c] = EXCLUSIVE_LOCK
  BY <1>1, StepFacts DEF SyncRecords, LockOf, ConnInv, Owner
<1>3. jrnl \in Journals /\ Restores(jrnl) /\ Recorded(jrnl) \subseteq Pages
  BY <1>1, StepFacts DEF TypeOK, JournalInv, Recorded
<1>4. /\ jrnl' \in Journals /\ jrnl'.exists /\ jrnl'.inDir /\ jrnl'.nRec = Recorded(jrnl)
      /\ jrnl'.dRec = jrnl.dRec /\ jrnl'.sRec = Recorded(jrnl) /\ jrnl'.rec = jrnl.rec
  BY <1>2, <1>3 DEF SyncRecords, Journals, WriterInv
<1>5. ghost' \in Journals /\ ghost' = NoJournal /\ Restores(ghost)' /\ ~ghost'.exists
  BY DEF SyncRecords, NoJournal, EmptyCache, Journals, Restores, Recorded
<1>6. TypeOK'
  BY <1>1, <1>4, <1>5, StepFacts DEF SyncRecords, Goto, TypeOK
<1>7. \A p \in Pages : Image'[p] = Image[p] /\ Previous'[p] = Image[p]
  <2>1. SUFFICES ASSUME NEW p \in Pages PROVE Image'[p] = Image[p] /\ Previous'[p] = Image[p]
    OBVIOUS
  <2>2. Image'[p] = IF p \in Recorded(jrnl) THEN jrnl.rec[p] ELSE file[p]
    BY <1>4 DEF Image, Restored, SyncRecords
  <2>3. Previous'[p] = Image'[p]
    BY <1>5 DEF Previous
  <2>4. Image[p] = IF p \in jrnl.nRec THEN jrnl.rec[p] ELSE file[p]
    BY <1>2, ImageAt DEF WriterInv
  <2> QED
    BY <2>2, <2>3, <2>4, <1>3 DEF Restores
<1>8. JournalInv'
  <2>1. Restores(jrnl)'
    BY <1>3, <1>4 DEF Restores, Recorded, SyncRecords
  <2> QED
    BY <1>1, <1>4, <1>5, <2>1, StepFacts DEF JournalInv, SyncRecords
<1>9. AgeInv'
  BY <1>1, <1>7, StepFacts DEF AgeInv, SyncRecords
<1>10. WriterInv(c)'
  <2>1. pc'[c] = "syncHeader" /\ UNCHANGED <<file, disk, eState, goal, cache, dirty, vers, nTxn>>
    BY <1>1, StepFacts DEF SyncRecords, Goto, TypeOK
  <2>2. Recorded(jrnl)' = Recorded(jrnl) /\ \A p : NewContent(p)' = NewContent(p)
    BY <1>4, <1>7, <2>1, OneIsPage DEF Recorded, NewContent
  <2>3. Image'[1] = Image[1]
    BY <1>7, OneIsPage
  <2> QED
    BY <1>2, <1>4, <2>1, <2>2, <2>3 DEF WriterInv, Fresh
<1>11. ConnInv(c)'
  <2>1. pc'[c] = "syncHeader" /\ eState' = eState
    BY <1>1, StepFacts DEF SyncRecords, Goto, TypeOK
  <2> QED
    BY <1>2, <1>10, <2>1 DEF ConnInv, Owner
<1>12. \A d \in Others(c) : ConnInv(d)'
  <2>1. Image'[1] \in Int
    BY <1>9, OneIsPage DEF AgeInv
  <2> QED
    BY <1>1, <1>2, <1>6, <1>7, <2>1, ExclusiveStep
<1> QED
  BY <1>1, <1>6, <1>7, <1>8, <1>9, <1>11, <1>12, StepFacts DEF PagerInv, Others

LEMMA SyncHeaderKeepsInv ==
  ASSUME PagerInv, NEW c \in Conns, SyncHeader(c)
  PROVE  PagerInv' /\ \A p \in Pages : Image'[p] = Image[p] /\ Previous'[p] = Previous[p]
<1>1. ConnStep(c)
  BY DEF ConnStep
<1>2. Owner(c) /\ WriterInv(c) /\ pc[c] = "syncHeader" /\ eLock[c] = EXCLUSIVE_LOCK
  BY <1>1, StepFacts DEF SyncHeader, LockOf, ConnInv, Owner
<1>3. jrnl \in Journals /\ Restores(jrnl) /\ Recorded(jrnl) \subseteq Pages
  BY <1>1, StepFacts DEF TypeOK, JournalInv, Recorded
<1>4. /\ jrnl' \in Journals /\ jrnl'.exists /\ jrnl'.inDir /\ jrnl'.nRec = Recorded(jrnl)
      /\ jrnl.nRec = Recorded(jrnl)
      /\ jrnl'.dRec = Recorded(jrnl) /\ jrnl'.sRec = Recorded(jrnl) /\ jrnl'.rec = jrnl.rec
  BY <1>2, <1>3 DEF SyncHeader, Journals, WriterInv
<1>5. TypeOK'
  <2>1. eState' \in [Conns -> {"OPEN", "READER"} \cup WriterStates]
    BY <1>1, StepFacts DEF SyncHeader, TypeOK, WriterStates
  <2> QED
    BY <1>1, <1>4, <2>1, StepFacts DEF SyncHeader, Goto, TypeOK
<1>6. \A p \in Pages : Image'[p] = Image[p] /\ Previous'[p] = Previous[p]
  BY <1>2, <1>4 DEF Image, Previous, Restored, SyncHeader, WriterInv
<1>7. JournalInv'
  <2>1. Restores(jrnl)' /\ Restores(ghost)'
    BY <1>1, <1>3, <1>4, StepFacts DEF JournalInv, Restores, Recorded, SyncHeader
  <2> QED
    BY <1>1, <1>3, <1>4, <2>1, StepFacts DEF JournalInv, SyncHeader, Restores
<1>8. AgeInv'
  <2>1. \A d \in Conns : eState'[d] \in WriterStates => eState[d] \in WriterStates
    BY <1>1, <1>2, StepFacts DEF Others, Untouched, WriterStates, Owner
  <2> QED
    BY <1>1, <1>6, <2>1, StepFacts DEF AgeInv, SyncHeader
<1>9. /\ pc'[c] = "write" /\ eState'[c] = "WRITER_DBMOD"
      /\ UNCHANGED <<file, disk, goal, cache, dirty, vers, nTxn>>
  BY <1>1, StepFacts DEF SyncHeader, Goto, TypeOK
<1>10. WriterInv(c)'
  <2>1. Recorded(jrnl)' = Recorded(jrnl) /\ \A p : NewContent(p)' = NewContent(p)
    BY <1>4, <1>6, <1>9, OneIsPage DEF Recorded, NewContent
  <2>2. Image'[1] = Image[1]
    BY <1>6, OneIsPage
  <2> QED
    BY <1>2, <1>4, <1>9, <2>1, <2>2 DEF WriterInv, Fresh
<1>11. ConnInv(c)'
  BY <1>9, <1>10 DEF ConnInv, Owner
<1>12. \A d \in Others(c) : ConnInv(d)'
  <2>1. Image'[1] \in Int
    BY <1>8, OneIsPage DEF AgeInv
  <2> QED
    BY <1>1, <1>2, <1>5, <1>6, <2>1, ExclusiveStep
<1> QED
  BY <1>1, <1>5, <1>6, <1>7, <1>8, <1>11, <1>12, StepFacts DEF PagerInv, Others

(* A page that the synced headers count may be overwritten. *)
LEMMA OverwriteKeepsJournal ==
  ASSUME TypeOK, JournalInv, NEW p \in Pages, p \in jrnl.dRec, NEW v \in Contents, WriteFile(p, v),
         UNCHANGED <<jrnl, ghost>>
  PROVE  /\ file' \in [Pages -> Contents] /\ disk' \in [Pages -> SUBSET Contents] /\ JournalInv'
         /\ file'[p] = v /\ \A q \in Pages : q # p => file'[q] = file[q]
         /\ \A q \in Pages : Image'[q] = Image[q] /\ Previous'[q] = Previous[q]
<1>1. /\ file' \in [Pages -> Contents] /\ disk' \in [Pages -> SUBSET Contents]
      /\ file'[p] = v /\ \A q \in Pages : q # p => file'[q] = file[q]
      /\ disk'[p] = disk[p] \cup {v} /\ \A q \in Pages : q # p => disk'[q] = disk[q]
  BY DEF TypeOK, WriteFile
<1>2. p \in jrnl.nRec /\ jrnl.exists /\ ghost = NoJournal
  BY DEF JournalInv, Restores, NoJournal
<1>3. \A q \in Pages : Image'[q] = Image[q] /\ Previous'[q] = Previous[q]
  BY <1>1, <1>2 DEF Image, Previous, Restored, NoJournal
<1>4. Restores(jrnl)'
  BY <1>1 DEF JournalInv, Restores, Recorded
<1>5. Restores(ghost)'
  BY <1>2 DEF Restores, Recorded, NoJournal, EmptyCache
<1>6. JournalInv'
  BY <1>1, <1>4, <1>5 DEF JournalInv
<1> QED BY <1>1, <1>3, <1>6

(* A page of the transaction is written, of a commit or of a spill. *)
LEMMA FlushPageKeepsInv ==
  ASSUME PagerInv, NEW c \in Conns, NEW p \in Pages, FlushPage(c, p)
  PROVE  PagerInv' /\ \A q \in Pages : Image'[q] = Image[q] /\ Previous'[q] = Previous[q]
<1>1. \E q \in Pages : PageStep(c, q)
  BY DEF PageStep
<1>2. eState[c] = "WRITER_DBMOD" /\ WriterInv(c) /\ pc[c] = "write" /\ eLock[c] = EXCLUSIVE_LOCK
  BY <1>1, StepFacts DEF FlushPage, LockOf, ConnInv, Owner
<1>3. p \in ToWrite(c) /\ dirty[c] \subseteq Pages
  <2>1. dirty[c] \subseteq Pages
    BY <1>1, StepFacts DEF TypeOK
  <2>2. ToWrite(c) \in SUBSET Pages
    BY <1>2, <2>1 DEF ToWrite, WriterInv
  <2> QED
    BY <2>1, <2>2, NextPageIsOne DEF FlushPage
<1>4. p \in dirty[c] /\ p \in jrnl.dRec /\ (p = 1 => goal[c] = 0) /\ (goal[c] # 0 => p = goal[c])
  BY <1>2, <1>3 DEF ToWrite, WriterInv
<1>5. cache[c][p] = NewContent(p) /\ cache[c][p] \in Contents
  <2>1. cache[c][p] = NewContent(p)
    BY <1>2, <1>4 DEF WriterInv
  <2>2. cache[c][p] \in Contents \cup {NoPage} /\ nTxn \in Nat /\ Image[1] \in Nat
    BY <1>1, StepFacts, OneIsPage, BoundsAssumption DEF TypeOK, AgeInv
  <2> QED
    BY <2>1, <2>2 DEF NewContent, NoPage
<1>6. /\ file' \in [Pages -> Contents] /\ disk' \in [Pages -> SUBSET Contents] /\ JournalInv'
      /\ file'[p] = cache[c][p] /\ \A q \in Pages : q # p => file'[q] = file[q]
      /\ \A q \in Pages : Image'[q] = Image[q] /\ Previous'[q] = Previous[q]
  BY <1>1, <1>4, <1>5, StepFacts, OverwriteKeepsJournal DEF FlushPage
<1>7. /\ dirty'[c] = dirty[c] \ {p} /\ vers'[c] = IF p = 1 THEN cache[c][1] ELSE vers[c]
      /\ UNCHANGED <<jrnl, ghost, eLock, eState, cache, nTxn, crashes>>
      /\ IF goal[c] = 0 THEN pc'[c] = "write" /\ goal'[c] = 0 ELSE pc'[c] = "idle" /\ goal'[c] = 0
  BY <1>1, <1>2, StepFacts DEF FlushPage, Goto, TypeOK
<1>8. TypeOK'
  <2>1. goal' \in [Conns -> Pages \cup {0}]
    BY <1>1, StepFacts DEF FlushPage, TypeOK
  <2>2. pc' \in [Conns -> {"idle", "hasJournal", "checkReserved", "lockHot", "playback", "version",
                           "exclusive", "syncRecords", "syncHeader", "write", "phaseTwo"}]
    BY <1>1, StepFacts DEF FlushPage, Goto, TypeOK
  <2>3. dirty' \in [Conns -> SUBSET Pages] /\ vers' \in [Conns -> Contents \cup {NoPage}]
    BY <1>1, <1>5, StepFacts DEF FlushPage, TypeOK
  <2> QED
    BY <1>1, <1>6, <1>7, <2>1, <2>2, <2>3, StepFacts DEF TypeOK
<1>9. AgeInv'
  BY <1>1, <1>6, <1>7, StepFacts DEF AgeInv
<1>10. WriterInv(c)'
  <2>1. Image'[1] = Image[1] /\ \A q : NewContent(q)' = NewContent(q)
    BY <1>6, <1>7, OneIsPage DEF NewContent
  <2>2. \A q \in Pages : q \notin dirty'[c] => Fresh(c, q)'
    BY <1>2, <1>6, <1>7 DEF WriterInv, Fresh
  <2>3. \A q \in Pages : q \in Recorded(jrnl) /\ q \notin dirty'[c] => file'[q] = NewContent(q)
    BY <1>2, <1>5, <1>6, <1>7 DEF WriterInv
  <2>4. vers'[c] = file'[1]
    BY <1>2, <1>6, <1>7, OneIsPage DEF WriterInv
  <2>5. 1 \in Recorded(jrnl) /\ 1 \notin dirty'[c] => pc'[c] = "write" /\ goal'[c] = 0
    BY <1>2, <1>4, <1>7 DEF WriterInv
  <2>6. 1 \in dirty'[c] => file'[1] = Image[1]
    BY <1>2, <1>6, <1>7, OneIsPage DEF WriterInv
  <2> QED
    BY <1>2, <1>4, <1>7, <2>1, <2>2, <2>3, <2>4, <2>5, <2>6 DEF WriterInv
<1>11. ConnInv(c)'
  BY <1>2, <1>7, <1>10 DEF ConnInv, Owner
<1>12. \A d \in Others(c) : ConnInv(d)'
  <2>1. Image'[1] \in Int
    BY <1>9, OneIsPage DEF AgeInv
  <2> QED
    BY <1>1, <1>2, <1>6, <1>8, <2>1, ExclusiveStep
<1> QED
  BY <1>1, <1>6, <1>8, <1>9, <1>11, <1>12, StepFacts DEF PagerInv, Others

LEMMA SyncFileKeepsInv ==
  ASSUME PagerInv, NEW c \in Conns, SyncFile(c)
  PROVE  PagerInv' /\ \A q \in Pages : Image'[q] = Image[q] /\ Previous'[q] = Previous[q]
<1>1. ConnStep(c)
  BY DEF ConnStep
<1>2. /\ eState[c] = "WRITER_DBMOD" /\ WriterInv(c) /\ pc[c] = "write" /\ eLock[c] = EXCLUSIVE_LOCK
      /\ goal[c] = 0 /\ dirty[c] = {}
  BY <1>1, StepFacts DEF SyncFile, LockOf, ConnInv, Owner
<1>3. /\ disk' \in [Pages -> SUBSET Contents] /\ \A q \in Pages : disk'[q] = {file[q]}
      /\ eState'[c] = "WRITER_FINISHED" /\ pc'[c] = "phaseTwo"
      /\ UNCHANGED <<file, jrnl, ghost, eLock, goal, cache, dirty, vers, nTxn, crashes>>
  BY <1>1, StepFacts DEF SyncFile, Synced, Goto, TypeOK
<1>4. TypeOK'
  <2>1. eState' \in [Conns -> {"OPEN", "READER"} \cup WriterStates]
    BY <1>1, StepFacts DEF SyncFile, TypeOK, WriterStates
  <2> QED
    BY <1>1, <1>3, <2>1, StepFacts DEF SyncFile, Goto, TypeOK
<1>5. Image' = Image /\ Previous' = Previous
  BY <1>3 DEF Image, Previous, Restored
<1>6. JournalInv'
  BY <1>1, <1>3, <1>4, StepFacts DEF JournalInv, Restores, Recorded, TypeOK
<1>7. AgeInv'
  <2>1. \A d \in Conns : eState'[d] \in WriterStates => eState[d] \in WriterStates
    BY <1>1, <1>2, StepFacts DEF Others, Untouched, WriterStates
  <2> QED
    BY <1>1, <1>3, <1>5, <2>1, StepFacts DEF AgeInv
<1>8. WriterInv(c)'
  BY <1>2, <1>3, <1>5 DEF WriterInv, Fresh, NewContent, Recorded
<1>9. ConnInv(c)'
  BY <1>3, <1>8 DEF ConnInv, Owner
<1>10. \A d \in Others(c) : ConnInv(d)'
  <2>1. Image'[1] \in Int
    BY <1>7, OneIsPage DEF AgeInv
  <2> QED
    BY <1>1, <1>2, <1>4, <1>5, <2>1, ExclusiveStep
<1> QED
  BY <1>1, <1>4, <1>5, <1>6, <1>7, <1>9, <1>10, StepFacts DEF PagerInv, Others

(* The deletion of the journal is the commit: the image becomes the file. *)
LEMMA CommitPhaseTwoKeepsInv ==
  ASSUME PagerInv, NEW c \in Conns, CommitPhaseTwo(c)
  PROVE  /\ PagerInv'
         /\ \E q \in Pages \ {1} : q \in Recorded(jrnl)
         /\ \A q \in Pages : /\ Previous'[q] = Image[q] /\ Image[q] < nTxn
                             /\ Image'[q] = IF q = 1 THEN Image[1] + 1
                                            ELSE IF q \in Recorded(jrnl) THEN nTxn ELSE Image[q]
<1>1. ConnStep(c)
  BY DEF ConnStep
<1>2. /\ eState[c] = "WRITER_FINISHED" /\ WriterInv(c) /\ pc[c] = "phaseTwo" /\ eLock[c] = EXCLUSIVE_LOCK
      /\ dirty[c] = {} /\ goal[c] = 0
  <2>1. eState[c] = "WRITER_FINISHED" /\ WriterInv(c) /\ pc[c] = "phaseTwo" /\ eLock[c] = EXCLUSIVE_LOCK
    BY <1>1, StepFacts DEF CommitPhaseTwo, LockOf, ConnInv, Owner
  <2> QED
    BY <2>1 DEF WriterInv
<1>3. /\ jrnl' = NoJournal /\ ghost' = jrnl /\ eState'[c] = "READER" /\ pc'[c] = "idle"
      /\ UNCHANGED <<file, disk, goal, cache, dirty, vers, nTxn, crashes>>
  BY <1>1, <1>2, StepFacts DEF CommitPhaseTwo, DeleteJournal, Goto, TypeOK, WriterInv
<1>4. NoJournal \in Journals /\ Restores(NoJournal) /\ ~NoJournal.exists /\ NoJournal.nRec = {}
      /\ NoJournal.dRec = {}
  BY DEF NoJournal, EmptyCache, Journals, Restores, Recorded
<1>5. TypeOK'
  <2>1. eLock' \in [Conns -> NO_LOCK .. EXCLUSIVE_LOCK]
    BY <1>1, StepFacts DEF CommitPhaseTwo, TypeOK, NO_LOCK, SHARED_LOCK, EXCLUSIVE_LOCK
  <2>2. eState' \in [Conns -> {"OPEN", "READER"} \cup WriterStates]
    BY <1>1, StepFacts DEF CommitPhaseTwo, TypeOK
  <2> QED
    BY <1>1, <1>3, <1>4, <2>1, <2>2, StepFacts DEF CommitPhaseTwo, Goto, TypeOK
<1>6. \A q \in Pages : Image[q] \in Nat /\ Image[q] < nTxn
  BY <1>1, <1>2, StepFacts DEF AgeInv, WriterStates
<1>7. \A q \in Pages : Image'[q] = file[q] /\ Previous'[q] = Image[q]
  <2>1. SUFFICES ASSUME NEW q \in Pages PROVE Image'[q] = file[q] /\ Previous'[q] = Image[q]
    OBVIOUS
  <2>2. Image'[q] = file[q]
    BY <1>3, <1>4 DEF Image, Restored
  <2>3. Previous'[q] = IF q \in jrnl.nRec THEN jrnl.rec[q] ELSE file[q]
    BY <1>2, <1>3, <1>4 DEF Previous, Image, Restored, WriterInv
  <2> QED
    BY <1>2, <2>2, <2>3, ImageAt DEF WriterInv
<1>8. \A q \in Pages : file[q] = IF q = 1 THEN Image[1] + 1
                                 ELSE IF q \in Recorded(jrnl) THEN nTxn ELSE Image[q]
  <2>1. SUFFICES ASSUME NEW q \in Pages
                 PROVE  file[q] = IF q = 1 THEN Image[1] + 1
                                  ELSE IF q \in Recorded(jrnl) THEN nTxn ELSE Image[q]
    OBVIOUS
  <2>2. CASE q \in Recorded(jrnl)
    BY <1>2, <2>2 DEF WriterInv, NewContent
  <2>3. CASE q \notin Recorded(jrnl)
    <3>1. q \notin jrnl.nRec /\ q # 1
      BY <1>1, <1>2, <2>3, StepFacts DEF JournalInv, Restores, WriterInv
    <3> QED
      BY <2>3, <3>1, ImageAt
  <2> QED BY <2>2, <2>3
<1>9. JournalInv'
  <2>1. Restores(jrnl)' /\ Restores(ghost)'
    BY <1>1, <1>3, <1>4, StepFacts DEF JournalInv, Restores, Recorded
  <2> QED
    BY <1>1, <1>2, <1>3, <1>4, <2>1, StepFacts DEF JournalInv, WriterInv
<1>10. AgeInv'
  <2>1. \A d \in Others(c) : eState'[d] = "OPEN"
    BY <1>1, <1>2, StepFacts DEF Others, Untouched, LockInv, LockOf, NO_LOCK, SHARED_LOCK,
       RESERVED_LOCK, PENDING_LOCK, EXCLUSIVE_LOCK
  <2>2. \A d \in Conns : eState'[d] \notin WriterStates
    BY <1>3, <2>1 DEF Others, WriterStates
  <2>3. nTxn \in Nat
    BY <1>1, StepFacts, BoundsAssumption DEF TypeOK
  <2> QED
    BY <1>3, <1>6, <1>7, <1>8, <2>2, <2>3, OneIsPage DEF AgeInv
<1>11. ReaderInv(c)'
  BY <1>2, <1>3, <1>4 DEF WriterInv, ReaderInv, Fresh
<1>12. ConnInv(c)'
  BY <1>3, <1>11 DEF ConnInv, Owner
<1>13. \A d \in Others(c) : ConnInv(d)'
  <2>1. Image'[1] \in Int /\ Image'[1] > Image[1]
    BY <1>6, <1>7, <1>8, OneIsPage
  <2> QED
    BY <1>1, <1>2, <1>5, <2>1, ExclusiveStep
<1> QED
  BY <1>1, <1>2, <1>5, <1>6, <1>7, <1>8, <1>9, <1>10, <1>12, <1>13, StepFacts
     DEF PagerInv, Others, WriterInv

(* A page is restored.  Whoever plays a journal back holds EXCLUSIVE, and
   what differs from its original is counted by the synced headers. *)
LEMMA PlaybackPageKeepsInv ==
  ASSUME PagerInv, NEW c \in Conns, NEW p \in Pages, PlaybackPage(c, p)
  PROVE  PagerInv' /\ \A q \in Pages : Image'[q] = Image[q] /\ Previous'[q] = Previous[q]
<1>1. \E q \in Pages : PageStep(c, q)
  BY DEF PageStep
<1>2. /\ pc[c] = "playback" /\ p \in ToRestore(c) /\ WriteFile(p, jrnl.rec[p])
      /\ UNCHANGED <<jrnl, ghost, eLock, eState, pc, goal, cache, dirty, vers, nTxn, crashes>>
  BY DEF PlaybackPage
<1>3. jrnl \in Journals /\ Restores(jrnl) /\ TypeOK /\ JournalInv /\ LockOf(c) /\ ConnInv(c) /\ AgeInv
  BY <1>1, StepFacts DEF TypeOK, JournalInv
<1>4. p \in jrnl.nRec /\ file[p] # jrnl.rec[p] /\ eState[c] # "WRITER_CACHEMOD"
  BY <1>2, <1>3 DEF ToRestore, Restores
<1>5. p \in Recorded(jrnl) /\ p \in jrnl.dRec
  BY <1>3, <1>4 DEF Restores
<1>6. jrnl.rec[p] \in Contents
  BY <1>3, <1>5 DEF Journals, Recorded
<1>7. /\ file' \in [Pages -> Contents] /\ disk' \in [Pages -> SUBSET Contents] /\ JournalInv'
      /\ \A q \in Pages : q # p => file'[q] = file[q]
      /\ \A q \in Pages : Image'[q] = Image[q] /\ Previous'[q] = Previous[q]
  BY <1>2, <1>3, <1>5, <1>6, OverwriteKeepsJournal
<1>8. eLock[c] = EXCLUSIVE_LOCK
  BY <1>2, <1>3, <1>4 DEF LockOf
<1>9. TypeOK'
  BY <1>2, <1>3, <1>7 DEF TypeOK
<1>10. AgeInv'
  BY <1>2, <1>3, <1>7 DEF AgeInv
<1>11. ConnInv(c)'
  <2>1. CASE eState[c] = "OPEN"
    BY <1>2, <1>3, <1>7, <2>1, OneIsPage DEF ConnInv, OpenInv, Owner
  <2>2. CASE eState[c] # "OPEN"
    <3>1. Owner(c) /\ UndoInv(c)
      BY <1>2, <1>3, <2>2 DEF LockOf, ConnInv, Owner
    <3>2. Recorded(jrnl)' = Recorded(jrnl)
      BY <1>2 DEF Recorded
    <3>3. UndoInv(c)'
      BY <1>2, <1>5, <1>7, <3>1, <3>2, OneIsPage DEF UndoInv, Fresh
    <3> QED
      BY <1>2, <3>1, <3>3 DEF ConnInv, Owner
  <2> QED BY <2>1, <2>2
<1>12. \A d \in Others(c) : ConnInv(d)'
  <2>1. Image'[1] \in Int
    BY <1>10, OneIsPage DEF AgeInv
  <2> QED
    BY <1>1, <1>7, <1>8, <1>9, <2>1, ExclusiveStep
<1> QED
  BY <1>1, <1>7, <1>9, <1>10, <1>11, <1>12, StepFacts DEF PagerInv, Others

(* What is played back has been restored; its journal is deleted.  If it was
   in the directory it may come back, but restores what the file has. *)
LEMMA EndPlaybackKeepsInv ==
  ASSUME PagerInv, NEW c \in Conns, EndPlayback(c)
  PROVE  /\ PagerInv'
         /\ \A q \in Pages : Image'[q] = Image[q]
         /\ \/ \A q \in Pages : Previous'[q] = Image[q]
            \/ \A q \in Pages : Previous'[q] = Previous[q]
<1>1. ConnStep(c)
  BY DEF ConnStep
<1>2. /\ pc[c] = "playback" /\ ToRestore(c) = {}
      /\ jrnl' = NoJournal /\ ghost' = IF jrnl.inDir THEN jrnl ELSE ghost
      /\ disk' = IF eState[c] = "WRITER_CACHEMOD" THEN disk ELSE Synced
      /\ UNCHANGED <<file, goal, dirty, nTxn, crashes>>
  BY DEF EndPlayback, DeleteJournal
<1>3. /\ jrnl \in Journals /\ Restores(jrnl) /\ Restores(ghost) /\ TypeOK /\ JournalInv /\ LockOf(c) /\ ConnInv(c)
      /\ AgeInv
  BY <1>1, StepFacts DEF TypeOK, JournalInv
<1>4. NoJournal \in Journals /\ Restores(NoJournal)' /\ ~NoJournal.exists /\ NoJournal.nRec = {}
      /\ NoJournal.dRec = {}
  BY DEF NoJournal, EmptyCache, Journals, Restores, Recorded
<1>5. eState[c] # "OPEN" => Owner(c) /\ UndoInv(c)
  BY <1>2, <1>3 DEF LockOf, ConnInv, Owner
<1>6. jrnl.exists
  BY <1>2, <1>3, <1>5 DEF ConnInv, OpenInv, UndoInv
<1>7. \A q \in Pages : q \in Recorded(jrnl) =>
        /\ q \in jrnl.nRec \/ eState[c] # "OPEN" => file[q] = jrnl.rec[q]
  <2>1. SUFFICES ASSUME NEW q \in Pages, q \in Recorded(jrnl), q \in jrnl.nRec \/ eState[c] # "OPEN"
                 PROVE  file[q] = jrnl.rec[q]
    OBVIOUS
  <2>2. CASE q \notin jrnl.dRec
    BY <2>1, <2>2, <1>3 DEF Restores
  <2>3. CASE q \in jrnl.dRec
    <3>1. eState[c] # "WRITER_CACHEMOD" /\ q \in jrnl.nRec
      BY <2>3, <1>3, <1>5 DEF UndoInv, Restores
    <3> QED
      BY <1>2, <2>3, <3>1 DEF ToRestore
  <2> QED BY <2>2, <2>3
<1>8. \A q \in Pages : Image[q] = file[q]
  <2>1. SUFFICES ASSUME NEW q \in Pages PROVE Image[q] = file[q]
    OBVIOUS
  <2>2. CASE q \in jrnl.nRec
    <3>1. q \in Recorded(jrnl)
      BY <2>2, <1>3 DEF Restores
    <3> QED
      BY <2>2, <3>1, <1>6, <1>7, ImageAt
  <2>3. CASE q \notin jrnl.nRec
    BY <2>3, ImageAt
  <2> QED BY <2>2, <2>3
<1>9. \A q \in Pages : Image'[q] = file[q]
  BY <1>2, <1>4 DEF Image, Restored
<1>10. \/ \A q \in Pages : Previous'[q] = Image[q]
       \/ \A q \in Pages : Previous'[q] = Previous[q]
  <2>1. CASE jrnl.inDir
    <3>1. \A q \in Pages : Previous'[q] = IF q \in jrnl.nRec THEN jrnl.rec[q] ELSE Image'[q]
      BY <1>2, <1>6, <2>1 DEF Previous, Restored
    <3> QED
      BY <3>1, <1>6, <1>8, <1>9, ImageAt
  <2>2. CASE ~jrnl.inDir
    <3>1. ghost' = ghost
      BY <1>2, <2>2
    <3>2. \A q \in Pages : Previous'[q] = IF ghost.exists /\ q \in ghost.nRec THEN ghost.rec[q] ELSE Image'[q]
      BY <3>1 DEF Previous, Restored
    <3> QED
      BY <3>2, <1>8, <1>9, ImageAt
  <2> QED BY <2>1, <2>2
<1>11. /\ disk' \in [Pages -> SUBSET Contents]
       /\ \A q \in Pages : disk'[q] = {file[q]}
  <2>1. CASE eState[c] = "WRITER_CACHEMOD"
    <3>1. jrnl.dRec = {}
      BY <2>1, <1>5 DEF UndoInv
    <3> QED
      BY <2>1, <3>1, <1>2, <1>3 DEF JournalInv, TypeOK
  <2>2. CASE eState[c] # "WRITER_CACHEMOD"
    BY <2>2, <1>2, <1>3 DEF Synced, TypeOK
  <2> QED BY <2>1, <2>2
<1>12. JournalInv'
  <2>1. Restores(jrnl)'
    BY <1>2, <1>4 DEF Restores, Recorded
  <2>2. Restores(ghost)'
    BY <1>2, <1>3 DEF Restores, Recorded
  <2>3. \A q \in Pages : file[q] \in Contents
    BY <1>3 DEF TypeOK
  <2> QED
    BY <1>2, <1>4, <1>11, <2>1, <2>2, <2>3 DEF JournalInv
<1>13. eState'[c] \notin WriterStates /\ \A d \in Conns : eState'[d] \in WriterStates => eState[d] \in WriterStates
  BY <1>1, StepFacts DEF EndPlayback, TypeOK, WriterStates, Others, Untouched
<1>14. AgeInv'
  BY <1>2, <1>3, <1>8, <1>9, <1>10, <1>13 DEF AgeInv
<1>15. CASE eState[c] = "OPEN"
  <2>1. /\ pc' = [pc EXCEPT ![c] = "version"] /\ eLock' = [eLock EXCEPT ![c] = SHARED_LOCK]
        /\ UNCHANGED <<eState, cache, vers>>
    BY <1>15 DEF EndPlayback, Goto
  <2>2. TypeOK'
    BY <1>2, <1>3, <1>4, <1>11, <2>1 DEF TypeOK, NO_LOCK, SHARED_LOCK, EXCLUSIVE_LOCK
  <2>3. OpenInv(c)'
    <3>1. pc'[c] = "version" /\ Image'[1] = Image[1]
      BY <1>3, <1>8, <1>9, <2>1, OneIsPage DEF TypeOK
    <3>2. OpenInv(c)
      BY <1>3, <1>15 DEF ConnInv
    <3> QED
      BY <1>2, <1>4, <1>8, <1>9, <2>1, <3>1, <3>2 DEF OpenInv
  <2>4. ConnInv(c)'
    BY <1>15, <2>1, <2>3 DEF ConnInv, Owner
  <2>5. eLock[c] = EXCLUSIVE_LOCK
    BY <1>2, <1>3, <1>15 DEF LockOf
  <2>6. \A d \in Others(c) : ConnInv(d)'
    <3>1. Image'[1] \in Int
      BY <1>14, OneIsPage DEF AgeInv
    <3> QED
      BY <1>1, <1>8, <1>9, <2>2, <2>5, <3>1, ExclusiveStep
  <2> QED
    BY <1>1, <1>8, <1>9, <1>10, <1>12, <1>14, <2>2, <2>4, <2>6, StepFacts DEF PagerInv, Others
<1>16. CASE eState[c] # "OPEN"
  <2>1. /\ pc' = [pc EXCEPT ![c] = "idle"] /\ eLock' = [eLock EXCEPT ![c] = SHARED_LOCK]
        /\ eState' = [eState EXCEPT ![c] = "READER"]
        /\ cache' = [cache EXCEPT ![c] = [p \in Pages |->
                       IF cache[c][p] # NoPage /\ jrnl.rec[p] # NoPage THEN jrnl.rec[p] ELSE cache[c][p]]]
        /\ vers' = [vers EXCEPT ![c] = IF jrnl.rec[1] # NoPage THEN jrnl.rec[1] ELSE vers[c]]
    BY <1>16, <1>3 DEF EndPlayback, Goto, TypeOK
  <2>2. TypeOK'
    <3>1. cache' \in [Conns -> [Pages -> Contents \cup {NoPage}]]
      BY <1>3, <2>1 DEF TypeOK, Journals
    <3>2. vers' \in [Conns -> Contents \cup {NoPage}]
      BY <1>3, <2>1, OneIsPage DEF TypeOK, Journals
    <3>3. eLock' \in [Conns -> NO_LOCK .. EXCLUSIVE_LOCK]
      BY <1>3, <2>1 DEF TypeOK, NO_LOCK, SHARED_LOCK, EXCLUSIVE_LOCK
    <3>4. eState' \in [Conns -> {"OPEN", "READER"} \cup WriterStates]
      BY <1>3, <2>1 DEF TypeOK
    <3>5. pc' \in [Conns -> {"idle", "hasJournal", "checkReserved", "lockHot", "playback", "version",
                           "exclusive", "syncRecords", "syncHeader", "write", "phaseTwo"}]
      BY <1>3, <2>1 DEF TypeOK
    <3> QED
      BY <1>2, <1>3, <1>4, <1>11, <3>1, <3>2, <3>3, <3>4, <3>5 DEF TypeOK
  <2>3. /\ pc'[c] = "idle" /\ eState'[c] = "READER"
        /\ vers'[c] = (IF jrnl.rec[1] # NoPage THEN jrnl.rec[1] ELSE vers[c])
        /\ \A q \in Pages : cache'[c][q] = IF cache[c][q] # NoPage /\ jrnl.rec[q] # NoPage
                                           THEN jrnl.rec[q] ELSE cache[c][q]
    BY <1>3, <2>1 DEF TypeOK
  <2>4. \A q \in Pages : Fresh(c, q)'
    BY <1>2, <1>5, <1>7, <1>16, <2>3 DEF UndoInv, Fresh, Recorded
  <2>5. vers'[c] = file[1]
    BY <1>5, <1>7, <1>16, <2>3, OneIsPage DEF UndoInv, Recorded
  <2>6. ReaderInv(c)'
    BY <1>2, <1>4, <1>5, <1>16, <2>4, <2>5 DEF UndoInv, ReaderInv
  <2>7. ConnInv(c)'
    BY <2>3, <2>6 DEF ConnInv, Owner
  <2>8. \A d \in Others(c) : ConnInv(d)'
    <3>1. CASE eLock[c] = EXCLUSIVE_LOCK
      <4>1. Image'[1] \in Int
        BY <1>14, OneIsPage DEF AgeInv
      <4> QED
        BY <1>1, <1>8, <1>9, <2>2, <3>1, <4>1, ExclusiveStep
    <3>2. CASE eLock[c] # EXCLUSIVE_LOCK
      <4>1. eState[c] = "WRITER_CACHEMOD" /\ eLock[c] >= RESERVED_LOCK
        BY <1>2, <1>3, <1>16, <3>2 DEF LockOf, RESERVED_LOCK, PENDING_LOCK, EXCLUSIVE_LOCK
      <4>2. jrnl.nRec = {}
        BY <1>5, <1>16, <3>2, <4>1 DEF UndoInv
      <4> QED
        BY <1>1, <1>2, <1>4, <1>8, <1>9, <4>1, <4>2, ReservedStep
    <3> QED BY <3>1, <3>2
  <2> QED
    BY <1>1, <1>8, <1>9, <1>10, <1>12, <1>14, <2>2, <2>7, <2>8, StepFacts DEF PagerInv, Others
<1> QED BY <1>15, <1>16

------------------------------------------------------------------------------
(* Crashes. *)
LEMMA RestartFacts ==
  ASSUME PagerInv, Restarted, TypeOK', JournalInv', \A p \in Pages : Image'[p] \in 0 .. nTxn /\ Previous'[p] \in 0 .. nTxn
  PROVE  PagerInv'
<1>1. \A c \in Conns : /\ eLock'[c] = NO_LOCK /\ eState'[c] = "OPEN" /\ pc'[c] = "idle" /\ goal'[c] = 0
                       /\ cache'[c] = EmptyCache /\ dirty'[c] = {}
  BY DEF Restarted
<1>2. LockInv'
  BY <1>1 DEF LockInv, LockOf, NO_LOCK, SHARED_LOCK, RESERVED_LOCK, EXCLUSIVE_LOCK
<1>3. AgeInv'
  BY <1>1 DEF AgeInv, WriterStates, Restarted
<1>4. \A c \in Conns : ConnInv(c)'
  <2>1. \A c \in Conns : OpenInv(c)'
    BY <1>1 DEF OpenInv, EmptyCache
  <2> QED
    BY <1>1, <2>1 DEF ConnInv, Owner
<1> QED BY <1>2, <1>3, <1>4 DEF PagerInv

LEMMA RestartTypes ==
  ASSUME TypeOK, Restarted
  PROVE  /\ eLock' \in [Conns -> NO_LOCK .. EXCLUSIVE_LOCK]
         /\ eState' \in [Conns -> {"OPEN", "READER"} \cup WriterStates]
         /\ pc' \in [Conns -> {"idle", "hasJournal", "checkReserved", "lockHot", "playback", "version",
                               "exclusive", "syncRecords", "syncHeader", "write", "phaseTwo"}]
         /\ goal' \in [Conns -> Pages \cup {0}]
         /\ cache' \in [Conns -> [Pages -> Contents \cup {NoPage}]]
         /\ dirty' \in [Conns -> SUBSET Pages]
         /\ vers' \in [Conns -> Contents \cup {NoPage}]
         /\ nTxn' \in 0 .. MaxTxn /\ crashes' \in 0 .. MaxCrashes
<1>1. crashes' \in 0 .. MaxCrashes /\ nTxn' \in 0 .. MaxTxn
  BY BoundsAssumption DEF TypeOK, Restarted
<1>2. eLock' \in [Conns -> NO_LOCK .. EXCLUSIVE_LOCK]
  BY DEF Restarted, NO_LOCK, EXCLUSIVE_LOCK
<1>3. cache' \in [Conns -> [Pages -> Contents \cup {NoPage}]]
  BY DEF Restarted, EmptyCache
<1> QED BY <1>1, <1>2, <1>3 DEF Restarted

LEMMA DieKeepsInv ==
  ASSUME PagerInv, Die
  PROVE  PagerInv' /\ Image' = Image /\ Previous' = Previous
<1>1. TypeOK /\ JournalInv /\ AgeInv /\ Restarted /\ UNCHANGED <<file, disk, jrnl, ghost>>
  BY DEF PagerInv, Die
<1>2. TypeOK'
  BY <1>1, RestartTypes DEF TypeOK
<1>3. JournalInv' /\ Image' = Image /\ Previous' = Previous
  BY <1>1 DEF JournalInv, Restores, Recorded, Image, Previous, Restored
<1> QED
  BY <1>1, <1>2, <1>3, RestartFacts DEF AgeInv

(* A loss of power leaves the image or, if the deletion of the last journal
   is lost, the one before. *)
LEMMA PowerLossKeepsInv ==
  ASSUME PagerInv, PowerLoss
  PROVE  /\ PagerInv'
         /\ \A p \in Pages : Previous'[p] = Image'[p]
         /\ \/ \A p \in Pages : Image'[p] = Image[p]
            \/ \A p \in Pages : Image'[p] = Previous[p]
<1>1. TypeOK /\ JournalInv /\ AgeInv /\ Restarted /\ jrnl \in Journals /\ ghost \in Journals
      /\ Restores(jrnl) /\ Restores(ghost)
  BY DEF PagerInv, PowerLoss, TypeOK, JournalInv
<1>2. /\ file' \in [Pages -> Contents] /\ disk' \in [Pages -> SUBSET Contents] /\ ghost' = NoJournal
      /\ \A p \in Pages : file'[p] \in disk[p] /\ disk'[p] = {file'[p]}
  <2>1. file' \in [Pages -> Contents] /\ \A p \in Pages : file'[p] \in disk[p]
    BY DEF PowerLoss
  <2>2. disk' = [p \in Pages |-> {file'[p]}] /\ ghost' = NoJournal
    BY DEF PowerLoss
  <2> QED BY <2>1, <2>2
<1>3. \A p \in Pages : p \notin jrnl.dRec => file'[p] = file[p]
  BY <1>1, <1>2 DEF JournalInv
<1>4. NoJournal \in Journals /\ ~NoJournal.exists /\ NoJournal.nRec = {} /\ NoJournal.dRec = {}
      /\ NoJournal.sRec = {} /\ Recorded(NoJournal) = {}
  BY DEF NoJournal, EmptyCache, Journals, Recorded
<1>5. \A p \in Pages : Previous'[p] = Image'[p]
  BY <1>2, <1>4 DEF Previous
<1>6. ASSUME jrnl' \in Journals, Restores(jrnl)', \A p \in Pages : Image'[p] \in 0 .. nTxn
      PROVE  PagerInv'
  <2>1. TypeOK'
    BY <1>1, <1>2, <1>4, <1>6, RestartTypes DEF TypeOK
  <2>2. Restores(ghost)'
    BY <1>2, <1>4 DEF Restores, Recorded
  <2>3. JournalInv'
    BY <1>2, <1>4, <1>6, <2>2 DEF JournalInv
  <2> QED
    BY <1>1, <1>5, <1>6, <2>1, <2>3, RestartFacts
<1>7. ASSUME jrnl.exists, NEW S \in {jrnl.dRec, jrnl.nRec \cap jrnl.sRec},
             jrnl' = [exists |-> TRUE, nRec |-> S, dRec |-> S, sRec |-> S, inDir |-> TRUE,
                      rec |-> [p \in Pages |-> IF p \in S THEN jrnl.rec[p] ELSE NoPage]]
      PROVE  PagerInv' /\ \A p \in Pages : Image'[p] = Image[p]
  <2>1. S \subseteq jrnl.nRec /\ jrnl.dRec \subseteq S /\ S \subseteq Recorded(jrnl) /\ S \subseteq Pages
    BY <1>1, <1>7 DEF Restores, Recorded
  <2>2. /\ jrnl'.exists /\ jrnl'.nRec = S /\ jrnl'.dRec = S /\ jrnl'.sRec = S /\ jrnl'.inDir
        /\ \A p \in Pages : jrnl'.rec[p] = IF p \in S THEN jrnl.rec[p] ELSE NoPage
    BY <1>7
  <2>3. jrnl' \in Journals
    BY <1>1, <1>7, <2>1 DEF Journals
  <2>4. Recorded(jrnl)' = S
    BY <2>1, <2>2 DEF Recorded
  <2>5. Restores(jrnl)'
    BY <2>2, <2>4 DEF Restores
  <2>6. \A p \in Pages : Image'[p] = Image[p]
    <3>1. SUFFICES ASSUME NEW p \in Pages PROVE Image'[p] = Image[p]
      OBVIOUS
    <3>2. Image'[p] = IF p \in S THEN jrnl.rec[p] ELSE file'[p]
      BY <2>2 DEF Image, Restored
    <3>3. Image[p] = IF p \in jrnl.nRec THEN jrnl.rec[p] ELSE file[p]
      BY <1>7, ImageAt
    <3>4. p \notin S => file'[p] = file[p] /\ (p \in jrnl.nRec => jrnl.rec[p] = file[p])
      BY <1>1, <1>3, <2>1 DEF Restores
    <3> QED
      BY <2>1, <3>2, <3>3, <3>4
  <2> QED
    BY <1>1, <1>6, <2>3, <2>5, <2>6 DEF AgeInv
<1>8. ASSUME ~(jrnl.exists /\ jrnl.inDir), jrnl' \in {NoJournal, ghost}
      PROVE  /\ PagerInv'
             /\ \/ \A p \in Pages : Image'[p] = Image[p]
                \/ \A p \in Pages : Image'[p] = Previous[p]
  <2>1. jrnl.nRec = {} /\ jrnl.dRec = {}
    BY <1>1, <1>8, <1>4 DEF Restores
  <2>2. \A p \in Pages : file'[p] = file[p] /\ Image[p] = file[p]
    BY <1>3, <2>1, ImageIsFile
  <2>3. jrnl' \in Journals /\ Restores(jrnl)'
    <3>1. CASE jrnl' = NoJournal
      BY <3>1, <1>4 DEF Restores, Recorded
    <3>2. CASE jrnl' = ghost
      BY <3>2, <1>1, <2>2 DEF Restores, Recorded
    <3> QED BY <1>8, <3>1, <3>2
  <2>4. \/ \A p \in Pages : Image'[p] = Image[p]
        \/ \A p \in Pages : Image'[p] = Previous[p]
    <3>1. CASE jrnl' = NoJournal
      BY <3>1, <1>4, <2>2 DEF Image, Restored
    <3>2. CASE jrnl' = ghost
      <4>1. \A p \in Pages : Image'[p] = IF ghost.exists /\ p \in ghost.nRec THEN ghost.rec[p] ELSE file'[p]
        BY <3>2 DEF Image, Restored
      <4> QED
        BY <4>1, <2>2, ImageAt
    <3> QED BY <1>8, <3>1, <3>2
  <2> QED
    BY <1>1, <1>6, <2>3, <2>4 DEF AgeInv
<1>9. \/ \E S \in {jrnl.dRec, jrnl.nRec \cap jrnl.sRec} :
           /\ jrnl.exists
           /\ jrnl' = [exists |-> TRUE, nRec |-> S, dRec |-> S, sRec |-> S, inDir |-> TRUE,
                       rec |-> [p \in Pages |-> IF p \in S THEN jrnl.rec[p] ELSE NoPage]]
      \/ ~(jrnl.exists /\ jrnl.inDir) /\ jrnl' \in {NoJournal, ghost}
  BY DEF PowerLoss, Survivors
<1> QED BY <1>5, <1>7, <1>8, <1>9

------------------------------------------------------------------------------
LEMMA InitInv ==
  ASSUME Init
  PROVE  PagerInv
<1>1. NoJournal \in Journals /\ ~NoJournal.exists /\ Restores(NoJournal) /\ NoJournal.nRec = {} /\ NoJournal.dRec = {}
  BY DEF NoJournal, EmptyCache, Journals, Restores, Recorded
<1>2. TypeOK
  <2>1. 0 \in Contents /\ 0 \in 0 .. MaxTxn /\ 0 \in 0 .. MaxCrashes
    BY BoundsAssumption DEF Contents
  <2>2. cache \in [Conns -> [Pages -> Contents \cup {NoPage}]]
    BY DEF Init, EmptyCache
  <2>3. eLock \in [Conns -> NO_LOCK .. EXCLUSIVE_LOCK]
    BY DEF Init, NO_LOCK, EXCLUSIVE_LOCK
  <2> QED BY <1>1, <2>1, <2>2, <2>3 DEF Init, TypeOK
<1>3. \A p \in Pages : Image[p] = 0 /\ Previous[p] = 0
  BY <1>1 DEF Init, Image, Previous, Restored
<1>4. JournalInv
  BY <1>1, <1>2 DEF Init, JournalInv, TypeOK
<1>5. AgeInv
  BY <1>3 DEF Init, AgeInv, WriterStates
<1>6. LockInv
  BY DEF Init, LockInv, LockOf, NO_LOCK, SHARED_LOCK, RESERVED_LOCK, EXCLUSIVE_LOCK
<1>7. \A c \in Conns : ConnInv(c)
  <2>1. \A c \in Conns : OpenInv(c)
    BY DEF Init, OpenInv, EmptyCache
  <2> QED BY <2>1 DEF Init, ConnInv, Owner
<1> QED BY <1>2, <1>4, <1>5, <1>6, <1>7 DEF PagerInv

(* The images are functions: they are equal if they agree on every page. *)
LEMMA SameImages ==
  ASSUME \A p \in Pages : Image'[p] = Image[p] /\ Previous'[p] = Previous[p]
  PROVE  UNCHANGED <<Image, Previous>>
BY DEF Image, Previous, Restored

LEMMA SameFiles ==
  ASSUME UNCHANGED <<file, jrnl, ghost>>
  PROVE  UNCHANGED <<Image, Previous>>
BY DEF Image, Previous, Restored

(* What a step may do to the committed image. *)
StoreStep == Store!Next \/ UNCHANGED <<Image, Previous>>

(* Whatever a connection does keeps the invariant, and is a step of the store
   or none. *)
LEMMA ConnStepKeepsInv ==
  ASSUME PagerInv, NEW c \in Conns, ConnStep(c)
  PROVE  PagerInv' /\ StoreStep
<1>1. CASE SharedLock(c) \/ HasJournal(c) \/ CheckReserved(c)
  <2>1. UNCHANGED <<file, jrnl, ghost>>
    BY <1>1 DEF SharedLock, HasJournal, CheckReserved
  <2> QED BY <1>1, <2>1, LockingKeepsInv, SameFiles DEF StoreStep
<1>2. CASE LockHot(c)
  BY <1>2, LockHotKeepsInv, SameImages DEF StoreStep
<1>3. CASE CheckVersion(c)
  BY <1>3, CheckVersionKeepsInv, SameFiles DEF StoreStep, CheckVersion
<1>4. CASE EndRead(c)
  BY <1>4, EndReadKeepsInv, SameFiles DEF StoreStep, EndRead
<1>5. CASE Begin(c)
  BY <1>5, BeginKeepsInv, SameFiles DEF StoreStep, Begin
<1>6. CASE Commit(c)
  BY <1>6, CommitKeepsInv, SameImages DEF StoreStep
<1>7. CASE LockExclusive(c)
  BY <1>7, LockExclusiveKeepsInv, SameFiles DEF StoreStep, LockExclusive
<1>8. CASE SyncRecords(c)
  <2>1. PagerInv' /\ \A p \in Pages : Image'[p] = Image[p] /\ Previous'[p] = Image[p]
    BY <1>8, SyncRecordsKeepsInv
  <2>2. Image' = Image /\ Previous' = Image
    BY <2>1 DEF Image, Previous, Restored
  <2> QED BY <2>1, <2>2 DEF StoreStep, Store!Next, Store!Secure
<1>9. CASE SyncHeader(c)
  BY <1>9, SyncHeaderKeepsInv, SameImages DEF StoreStep
<1>10. CASE SyncFile(c)
  BY <1>10, SyncFileKeepsInv, SameImages DEF StoreStep
<1>11. CASE CommitPhaseTwo(c)
  <2> DEFINE S == Recorded(jrnl) \ {1}
  <2>1. /\ PagerInv' /\ S # {} /\ S \in SUBSET (Pages \ {1})
        /\ \A q \in Pages : /\ Previous'[q] = Image[q] /\ Image[q] < nTxn
                            /\ Image'[q] = IF q = 1 THEN Image[1] + 1
                                           ELSE IF q \in S THEN nTxn ELSE Image[q]
    BY <1>11, CommitPhaseTwoKeepsInv DEF Recorded
  <2>2. nTxn \in 1 .. MaxTxn /\ \A q \in Pages : Image[q] # nTxn
    <3>1. nTxn \in 0 .. MaxTxn /\ Image[1] \in 0 .. nTxn
      BY OneIsPage DEF PagerInv, TypeOK, AgeInv
    <3>2. \A q \in Pages : Image[q] \in 0 .. nTxn
      BY DEF PagerInv, AgeInv
    <3> QED BY <2>1, <3>1, <3>2, OneIsPage, BoundsAssumption
  <2>3. /\ Image' = [q \in Pages |-> IF q = 1 THEN Image[1] + 1 ELSE IF q \in S THEN nTxn ELSE Image[q]]
        /\ Previous' = Image
    BY <2>1 DEF Image, Previous, Restored
  <2> HIDE DEF S
  <2>4. Store!Commit
    BY <2>1, <2>2, <2>3 DEF Store!Commit
  <2> QED BY <2>1, <2>4 DEF StoreStep, Store!Next
<1>12. CASE Rollback(c)
  BY <1>12, RollbackKeepsInv, SameFiles DEF StoreStep, Rollback
<1>13. CASE EndPlayback(c)
  <2>1. /\ PagerInv' /\ \A q \in Pages : Image'[q] = Image[q]
        /\ \/ \A q \in Pages : Previous'[q] = Image[q]
           \/ \A q \in Pages : Previous'[q] = Previous[q]
    BY <1>13, EndPlaybackKeepsInv
  <2>2. CASE \A q \in Pages : Previous'[q] = Image[q]
    <3>1. Image' = Image /\ Previous' = Image
      BY <2>1, <2>2 DEF Image, Previous, Restored
    <3> QED BY <2>1, <3>1 DEF StoreStep, Store!Next, Store!Secure
  <2>3. CASE \A q \in Pages : Previous'[q] = Previous[q]
    BY <2>1, <2>3, SameImages DEF StoreStep
  <2> QED BY <2>1, <2>2, <2>3
<1>14. CASE PlaybackFails(c)
  BY <1>14, PlaybackFailsKeepsInv, SameFiles DEF StoreStep, PlaybackFails
<1> QED
  BY <1>1, <1>2, <1>3, <1>4, <1>5, <1>6, <1>7, <1>8, <1>9, <1>10, <1>11, <1>12, <1>13, <1>14 DEF ConnStep

LEMMA PageStepKeepsInv ==
  ASSUME PagerInv, NEW c \in Conns, NEW p \in Pages, PageStep(c, p)
  PROVE  PagerInv' /\ StoreStep
<1>1. CASE ReadPage(c, p)
  BY <1>1, ReadPageKeepsInv, SameFiles DEF StoreStep, ReadPage
<1>2. CASE WritePage(c, p)
  BY <1>2, WritePageKeepsInv, SameImages DEF StoreStep
<1>3. CASE Spill(c, p)
  BY <1>3, SpillKeepsInv, SameFiles DEF StoreStep, Spill
<1>4. CASE FlushPage(c, p)
  BY <1>4, FlushPageKeepsInv, SameImages DEF StoreStep
<1>5. CASE PlaybackPage(c, p)
  BY <1>5, PlaybackPageKeepsInv, SameImages DEF StoreStep
<1> QED BY <1>1, <1>2, <1>3, <1>4, <1>5 DEF PageStep

LEMMA CrashKeepsInv ==
  ASSUME PagerInv, Die \/ PowerLoss
  PROVE  PagerInv' /\ StoreStep
<1>1. CASE Die
  BY <1>1, DieKeepsInv DEF StoreStep
<1>2. CASE PowerLoss
  <2>1. /\ PagerInv' /\ \A p \in Pages : Previous'[p] = Image'[p]
        /\ \/ \A p \in Pages : Image'[p] = Image[p]
           \/ \A p \in Pages : Image'[p] = Previous[p]
    BY <1>2, PowerLossKeepsInv
  <2>2. CASE \A p \in Pages : Image'[p] = Image[p]
    <3>1. Image' = Image /\ Previous' = Image
      BY <2>1, <2>2 DEF Image, Previous, Restored
    <3> QED BY <2>1, <3>1 DEF StoreStep, Store!Next, Store!Secure
  <2>3. CASE \A p \in Pages : Image'[p] = Previous[p]
    <3>1. Image' = Previous /\ Previous' = Previous
      BY <2>1, <2>3 DEF Image, Previous, Restored
    <3> QED BY <2>1, <3>1 DEF StoreStep, Store!Next, Store!Lose
  <2> QED BY <2>1, <2>2, <2>3
<1> QED BY <1>1, <1>2

LEMMA PagerStepKeepsInv ==
  ASSUME PagerInv, [Next]_vars
  PROVE  PagerInv' /\ StoreStep
<1>1. CASE UNCHANGED vars
  <2>1. PagerInv'
    BY <1>1 DEF vars, PagerInv, TypeOK, LockInv, LockOf, JournalInv, Restores, Recorded, AgeInv, ConnInv,
       OpenInv, ReaderInv, WriterInv, UndoInv, Owner, Fresh, NewContent, Image, Previous, Restored
  <2> QED BY <1>1, <2>1, SameFiles DEF vars, StoreStep
<1>2. CASE Next
  BY <1>2, ConnStepKeepsInv, PageStepKeepsInv, CrashKeepsInv DEF Next
<1> QED BY <1>1, <1>2

LEMMA InvImpliesReader ==
  ASSUME PagerInv
  PROVE  ReaderSeesCommitted
<1>1. SUFFICES ASSUME NEW c \in Conns, eState[c] = "READER", NEW p \in Pages
               PROVE  View(c, p) = Image[p]
  BY DEF ReaderSeesCommitted
<1>2. ReaderInv(c)
  BY <1>1 DEF PagerInv, ConnInv
<1>3. Image[p] = file[p] /\ cache[c][p] \in {NoPage, file[p]}
  BY <1>2, ImageIsFile DEF ReaderInv, Fresh
<1> QED BY <1>3 DEF View

LEMMA InitIsStoreInit ==
  ASSUME Init
  PROVE  Store!Init
<1>1. Image = [p \in Pages |-> 0] /\ Previous = Image
  BY DEF Init, Image, Previous, Restored, NoJournal
<1> QED BY <1>1 DEF Store!Init

(***************************************************************************)
(* sqlite3PagerSharedLock, getPageNormal: whoever is in a read transaction *)
(* reads one committed image, from cache and file alike, for any number of *)
(* connections, pages, transactions and crashes.                           *)
(***************************************************************************)
THEOREM PagerReaderSeesCommitted == Spec => []ReaderSeesCommitted
<1>1. Init => PagerInv
  BY InitInv
<1>2. PagerInv /\ [Next]_vars => PagerInv'
  BY PagerStepKeepsInv
<1>3. PagerInv => ReaderSeesCommitted
  BY InvImpliesReader
<1> QED
  BY <1>1, <1>2, <1>3, PTL DEF Spec

(***************************************************************************)
(* syncJournal, sqlite3PagerCommitPhaseOne and Two, pager_playback: the    *)
(* file and its journal are a store with atomic commits, of which a crash  *)
(* at any step can undo the last one as a whole and nothing else.          *)
(***************************************************************************)
THEOREM PagerCommitsAreAtomic == Spec => CommitsAreAtomic
<1>1. Init => PagerInv /\ Store!Init
  BY InitInv, InitIsStoreInit
<1>2. PagerInv /\ [Next]_vars => PagerInv' /\ [Store!Next]_<<Image, Previous>>
  BY PagerStepKeepsInv DEF StoreStep
<1> QED
  BY <1>1, <1>2, PTL DEF Spec, CommitsAreAtomic, Store!Spec

------------------------------------------------------------------------------
(* The backup. *)
LEMMA PageNumbers ==
  /\ Last \in Nat /\ Last = Cardinality(Pages) /\ Cardinality(Pages) \in Nat
  /\ \A p \in Pages : p \in Nat /\ 1 <= p /\ p <= Last
<1>1. Last \in Nat
  BY PagesAssumption, FS_CardinalityType DEF Last
<1> QED BY <1>1, NumberedAssumption DEF Last

(* No step of a connection but the writes of a page changes the file. *)
LEMMA ConnStepKeepsFile ==
  ASSUME NEW c \in Conns, ConnStep(c)
  PROVE  UNCHANGED file
BY DEF ConnStep, SharedLock, HasJournal, CheckReserved, LockHot, CheckVersion, EndRead, Begin, Commit,
   LockExclusive, SyncRecords, SyncHeader, SyncFile, CommitPhaseTwo, Rollback, EndPlayback, PlaybackFails

LEMMA PageStepKeepsFile ==
  ASSUME PagerInv, NEW c \in Conns, NEW p \in Pages, PageStep(c, p)
  PROVE  /\ UNCHANGED <<Image, Previous>> /\ jrnl'.nRec = jrnl.nRec
         /\ \/ pc[c] = "idle" /\ UNCHANGED file
            \/ /\ pc[c] \in {"write", "playback"} /\ eLock[c] = EXCLUSIVE_LOCK
               /\ \A q \in Pages : q # p => file'[q] = file[q]
               /\ eState'[c] = eState[c]
               /\ eState[c] = "OPEN" => p \in jrnl.nRec /\ vers'[c] = vers[c] /\ file'[p] = Image[p]
                                        /\ pc'[c] = pc[c]
<1>1. TypeOK /\ LockOf(c) /\ ConnInv(c) /\ JournalInv
  BY DEF PagerInv, LockInv
<1>2. CASE ReadPage(c, p)
  BY <1>2, SameFiles DEF ReadPage
<1>3. CASE WritePage(c, p)
  <2>1. UNCHANGED <<Image, Previous>> /\ UNCHANGED file /\ pc[c] = "idle"
    BY <1>3, WritePageKeepsInv, SameImages DEF WritePage
  <2>2. /\ Modify(c, p, nTxn) /\ nTxn = NewContent(p) /\ p # 1
        /\ eState[c] \in {"WRITER_LOCKED", "WRITER_CACHEMOD", "WRITER_DBMOD"}
        /\ UNCHANGED <<file, disk, ghost, nTxn, vers>>
    BY <1>3 DEF WritePage, NewContent
  <2>3. jrnl'.nRec = jrnl.nRec
    BY <2>1, <2>2, ModifyFacts
  <2> QED BY <2>1, <2>3
<1>4. CASE Spill(c, p)
  BY <1>4, SameFiles DEF Spill
<1>5. CASE FlushPage(c, p)
  <2>1. UNCHANGED <<Image, Previous>>
    BY <1>5, FlushPageKeepsInv, SameImages
  <2>2. pc[c] = "write" /\ UNCHANGED <<eState, jrnl>> /\ \A q \in Pages : q # p => file'[q] = file[q]
    BY <1>1, <1>5 DEF FlushPage, WriteFile, TypeOK
  <2>3. eLock[c] = EXCLUSIVE_LOCK /\ eState[c] # "OPEN"
    BY <1>1, <2>2 DEF LockOf
  <2> QED BY <2>1, <2>2, <2>3
<1>6. CASE PlaybackPage(c, p)
  <2>1. UNCHANGED <<Image, Previous>>
    BY <1>6, PlaybackPageKeepsInv, SameImages
  <2>2. /\ pc[c] = "playback" /\ UNCHANGED <<eState, jrnl, vers, pc>> /\ p \in ToRestore(c)
        /\ file'[p] = jrnl.rec[p] /\ \A q \in Pages : q # p => file'[q] = file[q]
    BY <1>1, <1>6 DEF PlaybackPage, WriteFile, TypeOK
  <2>3. eLock[c] = EXCLUSIVE_LOCK
    BY <1>1, <2>2 DEF LockOf, ToRestore
  <2>4. eState[c] = "OPEN" => p \in jrnl.nRec /\ jrnl.exists
    BY <1>1, <2>2 DEF ToRestore, ConnInv, OpenInv
  <2>5. eState[c] = "OPEN" => file'[p] = Image[p]
    BY <2>2, <2>4, ImageAt
  <2> QED BY <2>1, <2>2, <2>3, <2>4, <2>5
<1> QED BY <1>2, <1>3, <1>4, <1>5, <1>6 DEF PageStep

(* Beside EXCLUSIVE nobody does anything. *)
LEMMA ExclusiveIsAlone ==
  ASSUME PagerInv, NEW c \in Conns, NEW d \in Conns, c # d, eLock[d] = EXCLUSIVE_LOCK,
         ConnStep(c) \/ \E p \in Pages : PageStep(c, p)
  PROVE  FALSE
<1>1. LockOf(c) /\ ConnInv(c) /\ eLock[c] = NO_LOCK
  BY DEF PagerInv, LockInv
<1>2. eState[c] = "OPEN" /\ pc[c] = "idle" /\ dirty[c] = {}
  BY <1>1 DEF LockOf, ConnInv, OpenInv, NO_LOCK, SHARED_LOCK, RESERVED_LOCK, PENDING_LOCK, EXCLUSIVE_LOCK
<1>3. ~CanShare(c)
  BY DEF CanShare, Others, PENDING_LOCK, EXCLUSIVE_LOCK
<1>4. ~ConnStep(c)
  BY <1>2, <1>3 DEF ConnStep, SharedLock, HasJournal, CheckReserved, LockHot, CheckVersion, EndRead,
     Begin, Commit, LockExclusive, SyncRecords, SyncHeader, SyncFile, CommitPhaseTwo, Rollback,
     EndPlayback, PlaybackFails, WriterStates
<1>5. \A p \in Pages : ~PageStep(c, p)
  BY <1>2 DEF PageStep, ReadPage, WritePage, Spill, FlushPage, PlaybackPage
<1> QED BY <1>4, <1>5

(* The committed image changes only with the change counter. *)
LEMMA CounterMoves ==
  ASSUME PagerInv, NEW c \in Conns, ConnStep(c)
  PROVE  Image'[1] > Image[1] \/ \A p \in Pages : Image'[p] = Image[p]
<1>1. CASE CommitPhaseTwo(c)
  <2>1. Image'[1] = Image[1] + 1
    BY <1>1, CommitPhaseTwoKeepsInv, OneIsPage
  <2>2. Image[1] \in Int
    BY OneIsPage DEF PagerInv, AgeInv
  <2> QED BY <2>1, <2>2
<1>2. CASE LockHot(c) \/ Commit(c) \/ SyncRecords(c) \/ SyncHeader(c) \/ SyncFile(c) \/ EndPlayback(c)
  BY <1>2, LockHotKeepsInv, CommitKeepsInv, SyncRecordsKeepsInv, SyncHeaderKeepsInv, SyncFileKeepsInv,
     EndPlaybackKeepsInv
<1>3. CASE SharedLock(c) \/ HasJournal(c) \/ CheckReserved(c) \/ CheckVersion(c) \/ EndRead(c)
           \/ Begin(c) \/ LockExclusive(c) \/ Rollback(c) \/ PlaybackFails(c)
  <2>1. UNCHANGED <<file, jrnl, ghost>>
    BY <1>3 DEF SharedLock, HasJournal, CheckReserved, CheckVersion, EndRead, Begin, LockExclusive,
       Rollback, PlaybackFails
  <2> QED BY <2>1, SameFiles
<1> QED BY <1>1, <1>2, <1>3 DEF ConnStep

(* A step of another connection. *)
LEMMA OtherConnKeepsCopy ==
  ASSUME BackupInv, NEW c \in Conns, c # Src, ConnStep(c) \/ \E p \in Pages : PageStep(c, p), UNCHANGED bvars
  PROVE  CopyInv'
<1>1. PagerInv /\ CopyInv /\ TypeOK /\ AgeInv /\ LockInv /\ LockOf(Src) /\ Untouched(Src)
  BY SrcAssumption, StepFacts DEF BackupInv, PagerInv, LockInv, Others
<1>2. eLock[Src] # EXCLUSIVE_LOCK
  BY <1>1, SrcAssumption, ExclusiveIsAlone
<1>3. ~(eState[Src] = "OPEN" /\ pc[Src] = "playback")
  BY <1>1, <1>2 DEF LockOf
<1>4. eState[Src] # "OPEN" => UNCHANGED file
  <2>1. SUFFICES ASSUME eState[Src] # "OPEN", ~UNCHANGED file PROVE FALSE
    OBVIOUS
  <2>2. PICK p \in Pages : PageStep(c, p)
    BY <2>1, ConnStepKeepsFile
  <2>3. eLock[c] = EXCLUSIVE_LOCK
    BY <1>1, <2>1, <2>2, PageStepKeepsFile
  <2>4. eLock[Src] = NO_LOCK
    BY <1>1, <2>3, SrcAssumption DEF LockInv
  <2> QED
    BY <1>1, <2>1, <2>4 DEF LockOf, NO_LOCK, SHARED_LOCK, RESERVED_LOCK, PENDING_LOCK, EXCLUSIVE_LOCK
<1>5. Image'[1] > Image[1] \/ \A p \in Pages : Image'[p] = Image[p]
  BY <1>1, CounterMoves, PageStepKeepsFile
<1>6. PagerInv'
  BY <1>1, ConnStepKeepsInv, PageStepKeepsInv
<1>7. Image[1] \in Int /\ Image'[1] \in Int /\ vers[Src] \in Int
  BY <1>1, <1>6, OneIsPage, SrcAssumption DEF PagerInv, AgeInv, TypeOK, Contents, NoPage
<1>8. UNCHANGED <<phase, iNext, rc, attached, copy, eState[Src], pc[Src], vers[Src]>>
  BY <1>1 DEF bvars, Untouched
<1>9. \A p \in Pages : Copied(p) => Copied(p)'
  <2>1. SUFFICES ASSUME NEW p \in Pages, Copied(p) PROVE Copied(p)'
    OBVIOUS
  <2>2. CASE eState[Src] = "OPEN"
    <3>1. \/ Image'[1] > Image[1]
          \/ Image'[1] = Image[1] /\ Image'[p] = Image[p]
      BY <1>5, OneIsPage
    <3> QED
      BY <1>7, <1>8, <2>1, <2>2, <3>1 DEF Copied
  <2>3. CASE eState[Src] # "OPEN"
    BY <1>4, <1>8, <2>1, <2>3 DEF Copied
  <2> QED BY <2>2, <2>3
<1> QED
  BY <1>1, <1>3, <1>8, <1>9 DEF CopyInv

(* A step of the connection that is backed up.  A dropped cache restarts the
   backup; otherwise the change counter vouches for what was copied. *)
LEMMA SrcConnKeepsCopy ==
  ASSUME BackupInv, MayCall(Src), ConnStep(Src),
         IF Drops(Src) THEN BackupRestart ELSE UNCHANGED bvars
  PROVE  CopyInv'
<1>1. PagerInv /\ CopyInv /\ TypeOK /\ LockOf(Src) /\ ConnInv(Src) /\ Src \in Conns
  BY SrcAssumption DEF BackupInv, PagerInv, LockInv
<1>2. UNCHANGED <<file, phase, rc, attached, copy>>
  BY <1>1, ConnStepKeepsFile DEF bvars, BackupRestart
<1>3. iNext' = iNext \/ (Drops(Src) /\ attached /\ iNext' = 1)
  BY DEF bvars, BackupRestart
<1>4. phase \in {"loop", "step"} /\ ~attached => iNext' = 1
  BY <1>1, <1>3 DEF CopyInv
<1>5. ASSUME phase = "step"
      PROVE  /\ eState'[Src] \in {"OPEN", "READER"}
             /\ eState'[Src] = "OPEN" /\ pc'[Src] = "playback" => jrnl'.nRec = {} \/ iNext' = 1
  <2>1. eState[Src] = "OPEN" /\ pc[Src] # "idle"
    BY <1>1, <1>5 DEF CopyInv, MayCall, LockOf
  <2>2. pc[Src] \notin {"exclusive", "syncRecords", "syncHeader", "write", "phaseTwo"}
    BY <1>1, <2>1 DEF LockOf
  <2>3. \/ HasJournal(Src) \/ CheckReserved(Src) \/ LockHot(Src) \/ CheckVersion(Src)
        \/ EndPlayback(Src) \/ PlaybackFails(Src)
    BY <2>1, <2>2 DEF ConnStep, SharedLock, EndRead, Begin, Commit, LockExclusive, SyncRecords,
       SyncHeader, SyncFile, CommitPhaseTwo, Rollback, WriterStates
  <2>4. CASE HasJournal(Src) \/ CheckReserved(Src) \/ CheckVersion(Src)
    BY <1>1, <2>1, <2>4 DEF HasJournal, CheckReserved, CheckVersion, Goto, TypeOK
  <2>5. CASE LockHot(Src)
    <3>1. eState'[Src] = "OPEN" /\ pc[Src] = "lockHot"
      BY <1>1, <2>1, <2>5 DEF LockHot, Unlocked, Goto, TypeOK
    <3>2. ASSUME pc'[Src] = "playback" PROVE jrnl'.nRec = {} \/ iNext' = 1
      <4>1. jrnl'.nRec = jrnl.nRec
        BY <1>1, <2>5 DEF LockHot, TypeOK, Journals
      <4>2. CASE jrnl.nRec # {}
        <5>1. Drops(Src)
          BY <3>1, <3>2, <4>2 DEF Drops
        <5>2. iNext' = IF attached THEN 1 ELSE iNext
          BY <5>1 DEF BackupRestart
        <5> QED BY <1>1, <1>5, <5>2 DEF CopyInv
      <4> QED BY <4>1, <4>2
    <3> QED BY <3>1, <3>2
  <2>6. CASE EndPlayback(Src) \/ PlaybackFails(Src)
    BY <1>1, <2>1, <2>6 DEF EndPlayback, PlaybackFails, Unlocked, Goto, TypeOK
  <2> QED BY <2>3, <2>4, <2>5, <2>6
<1>6. ASSUME NEW p \in Pages, p < iNext, Copied(p), ~Drops(Src)
      PROVE  Copied(p)'
  <2>1. \A q \in Pages : jrnl.nRec = {} => Image[q] = file[q]
    BY ImageIsFile
  <2>2. CASE CheckVersion(Src)
    <3>1. vers[Src] = file[1] /\ jrnl.nRec = {} /\ eState[Src] = "OPEN"
      BY <1>1, <1>6, <2>2 DEF Drops, CheckVersion, LockOf, ConnInv, OpenInv
    <3>2. copy[p] = file[p]
      BY <1>6, <2>1, <3>1, OneIsPage DEF Copied
    <3>3. eState'[Src] = "READER"
      BY <1>1, <2>2 DEF CheckVersion, TypeOK
    <3> QED BY <1>2, <3>2, <3>3 DEF Copied
  <2>3. CASE EndRead(Src)
    <3>1. /\ eState[Src] = "READER" /\ eState'[Src] = "OPEN" /\ ReaderInv(Src) /\ vers'[Src] = vers[Src]
          /\ UNCHANGED <<jrnl, file>>
      BY <1>1, <2>3 DEF EndRead, Unlocked, TypeOK, ConnInv
    <3>2. \A q \in Pages : Image'[q] = file[q]
      BY <2>1, <3>1 DEF ReaderInv, Image, Restored
    <3>3. file[1] \in Int
      BY <1>1, OneIsPage DEF TypeOK, Contents
    <3> QED
      BY <1>2, <1>6, <3>1, <3>2, <3>3, OneIsPage DEF Copied, ReaderInv
  <2>4. CASE SharedLock(Src) \/ HasJournal(Src) \/ CheckReserved(Src) \/ LockHot(Src)
             \/ (EndPlayback(Src) /\ eState[Src] = "OPEN")
    <3>1. eState[Src] = "OPEN" /\ eState'[Src] = "OPEN" /\ vers'[Src] = vers[Src]
      BY <1>1, <2>4 DEF SharedLock, HasJournal, CheckReserved, LockHot, EndPlayback, Unlocked, LockOf, TypeOK
    <3>2. \A q \in Pages : Image'[q] = Image[q]
      <4>1. CASE SharedLock(Src) \/ HasJournal(Src) \/ CheckReserved(Src)
        BY <4>1, SameFiles DEF SharedLock, HasJournal, CheckReserved
      <4> QED BY <1>1, <2>4, <4>1, LockHotKeepsInv, EndPlaybackKeepsInv
    <3> QED BY <1>2, <1>6, <3>1, <3>2, OneIsPage DEF Copied
  <2>5. CASE PlaybackFails(Src)
    BY <1>1, <1>6, <2>5 DEF PlaybackFails, Unlocked, Goto, Drops, TypeOK
  <2>6. CASE \/ Begin(Src) \/ Commit(Src) \/ LockExclusive(Src) \/ SyncRecords(Src) \/ SyncHeader(Src)
             \/ SyncFile(Src) \/ CommitPhaseTwo(Src) \/ Rollback(Src)
             \/ EndPlayback(Src) /\ eState[Src] # "OPEN"
    <3>1. eState[Src] # "OPEN"
      BY <1>1, <2>6 DEF Begin, Commit, LockExclusive, SyncRecords, SyncHeader, SyncFile, CommitPhaseTwo,
         Rollback, WriterStates, LockOf
    <3>2. eState'[Src] # "OPEN"
      <4>1. CASE Begin(Src) \/ SyncHeader(Src) \/ SyncFile(Src) \/ CommitPhaseTwo(Src)
        BY <4>1, <1>1 DEF Begin, SyncHeader, SyncFile, CommitPhaseTwo, TypeOK
      <4>2. CASE Commit(Src) \/ Rollback(Src)
        BY <4>2, <3>1, <1>1 DEF Commit, Modify, Rollback, TypeOK
      <4>3. CASE LockExclusive(Src) \/ SyncRecords(Src)
        BY <4>3, <3>1 DEF LockExclusive, SyncRecords
      <4>4. CASE EndPlayback(Src) /\ eState[Src] # "OPEN"
        BY <4>4, <1>1 DEF EndPlayback, TypeOK
      <4> QED BY <2>6, <4>1, <4>2, <4>3, <4>4
    <3> QED BY <1>2, <1>6, <3>1, <3>2 DEF Copied
  <2> QED BY <2>2, <2>3, <2>4, <2>5, <2>6 DEF ConnStep
<1>7. \A p \in Pages : phase \in {"loop", "step"} /\ p < iNext' => p < iNext /\ ~Drops(Src)
  <2>1. \A p \in Pages : ~(p < 1)
    BY PageNumbers
  <2>2. CASE Drops(Src)
    <3>1. phase \in {"loop", "step"} => iNext' = 1
      BY <1>4, <2>2 DEF BackupRestart
    <3> QED BY <2>1, <3>1
  <2>3. CASE ~Drops(Src)
    BY <1>3, <2>3
  <2> QED BY <2>2, <2>3
<1>9. phase \in {"loop", "step"} /\ rc # "IOERR" => \A p \in Pages : p < iNext' => Copied(p)'
  BY <1>1, <1>6, <1>7 DEF CopyInv
<1> QED
  BY <1>1, <1>2, <1>4, <1>5, <1>9 DEF CopyInv

LEMMA SrcPageKeepsCopy ==
  ASSUME BackupInv, MayCall(Src), NEW p \in Pages, PageStep(Src, p),
         IF Written(Src) THEN BackupUpdate(p, file'[p]) ELSE UNCHANGED bvars
  PROVE  CopyInv' /\ BTypeOK'
<1>1. PagerInv /\ CopyInv /\ TypeOK /\ LockOf(Src) /\ ConnInv(Src) /\ Src \in Conns /\ BTypeOK
  BY SrcAssumption DEF BackupInv, PagerInv, LockInv
<1>2. PagerInv' /\ TypeOK'
  BY <1>1, PageStepKeepsInv DEF PagerInv
<1>3. CASE pc[Src] = "idle" /\ UNCHANGED file
  <2>1. UNCHANGED bvars /\ ~(phase = "step")
    BY <1>3, <1>1 DEF Written, MayCall
  <2>2. ReadPage(Src, p) \/ WritePage(Src, p) \/ Spill(Src, p)
    BY <1>3 DEF PageStep, FlushPage, PlaybackPage
  <2>3. eState[Src] # "OPEN" /\ eState'[Src] # "OPEN"
    <3>1. CASE ReadPage(Src, p)
      BY <3>1 DEF ReadPage
    <3>2. CASE WritePage(Src, p)
      BY <3>2, <1>1 DEF WritePage, Modify, TypeOK
    <3>3. CASE Spill(Src, p)
      BY <3>3, <1>1 DEF Spill, ConnInv, OpenInv
    <3> QED BY <2>2, <3>1, <3>2, <3>3
  <2>4. UNCHANGED <<phase, iNext, rc, attached, copy, dest, ret, calls>>
    BY <2>1 DEF bvars
  <2>5. \A q \in Pages : Copied(q) => Copied(q)'
    BY <1>3, <2>3, <2>4 DEF Copied
  <2> QED
    BY <1>1, <2>1, <2>4, <2>5 DEF CopyInv, BTypeOK
<1>4. CASE /\ pc[Src] \in {"write", "playback"} /\ eLock[Src] = EXCLUSIVE_LOCK
           /\ \A q \in Pages : q # p => file'[q] = file[q]
           /\ eState'[Src] = eState[Src]
           /\ eState[Src] = "OPEN" => p \in jrnl.nRec /\ vers'[Src] = vers[Src] /\ file'[p] = Image[p]
                                      /\ pc'[Src] = pc[Src]
  <2>1. BackupUpdate(p, file'[p])
    BY <1>4 DEF Written
  <2>2. UNCHANGED <<phase, iNext, attached, dest, ret, calls>>
    BY <2>1 DEF BackupUpdate
  <2>3. Image' = Image /\ jrnl'.nRec = jrnl.nRec
    BY <1>1, PageStepKeepsFile
  <2>4. BTypeOK'
    <3>1. file'[p] \in Contents
      BY <1>2 DEF TypeOK
    <3>2. copy' = copy \/ copy' = [copy EXCEPT ![p] = file'[p]]
      BY <2>1 DEF BackupUpdate
    <3>3. copy' \in [Pages -> Contents]
      BY <1>1, <3>1, <3>2 DEF BTypeOK
    <3>4. rc' \in {"OK", "BUSY", "IOERR", "DONE"}
      BY <1>1, <2>1 DEF BackupUpdate, BTypeOK
    <3> QED BY <1>1, <2>2, <3>3, <3>4 DEF BTypeOK
  <2>5. phase = "step" => iNext = 1 /\ eState[Src] = "OPEN"
    <3>1. phase = "step" => eState[Src] = "OPEN" /\ pc[Src] = "playback"
      BY <1>1, <1>4 DEF CopyInv, LockOf, SHARED_LOCK, EXCLUSIVE_LOCK
    <3> QED BY <1>1, <1>4, <3>1 DEF CopyInv
  <2>6. phase = "step" => UNCHANGED rc
    <3>1. iNext = 1 => ~(p < iNext)
      BY PageNumbers
    <3> QED BY <2>1, <2>5, <3>1 DEF BackupUpdate
  <2>7. rc' = rc \/ rc' = "IOERR"
    BY <2>1 DEF BackupUpdate
  <2>8. ASSUME phase \in {"loop", "step"}, rc' # "IOERR", NEW q \in Pages, q < iNext, Copied(q), rc # "IOERR"
        PROVE  Copied(q)'
    <3>1. attached
      <4>1. ~(q < 1)
        BY PageNumbers
      <4> QED BY <1>1, <2>8, <4>1 DEF CopyInv
    <3>2. q = p => copy'[q] = file'[q]
      BY <1>1, <2>1, <2>8, <3>1 DEF BackupUpdate, BTypeOK
    <3>3. q # p => copy'[q] = copy[q]
      BY <1>1, <2>1 DEF BackupUpdate, BTypeOK
    <3> QED
      BY <1>4, <2>3, <2>8, <3>2, <3>3 DEF Copied
  <2>9. rc = "IOERR" => rc' = "IOERR"
    BY <2>1 DEF BackupUpdate
  <2> QED
    BY <1>1, <1>4, <2>2, <2>3, <2>4, <2>5, <2>6, <2>7, <2>8, <2>9 DEF CopyInv
<1> QED
  BY <1>1, <1>3, <1>4, PageStepKeepsFile

(* A batch of pages is read, and the read transaction closed if the step has
   opened it. *)
LEMMA ReadingKeepsInv ==
  ASSUME BackupInv, Reading, CloseRead, ReadBatch \/ UNCHANGED cache
  PROVE  /\ PagerInv' /\ UNCHANGED <<Image, Previous>>
         /\ eState'[Src] = IF phase = "step" THEN "OPEN" ELSE "READER"
<1>1. PagerInv /\ TypeOK /\ LockTypeOK /\ LockInv /\ LockOf(Src) /\ ConnInv(Src) /\ Src \in Conns
  BY SrcAssumption, LockTypes DEF BackupInv, PagerInv, LockInv
<1>2. /\ eState[Src] = "READER" /\ pc[Src] = "idle" /\ eLock[Src] = SHARED_LOCK /\ ReaderInv(Src)
      /\ UNCHANGED <<file, disk, jrnl, ghost, pc, goal, dirty, vers, nTxn, crashes>>
  BY <1>1 DEF Reading, LockOf, ConnInv
<1>3. \A q \in Pages : View(Src, q) = file[q]
  BY <1>2 DEF ReaderInv, Fresh, View
<1>4. /\ cache' \in [Conns -> [Pages -> Contents \cup {NoPage}]]
      /\ \A q \in Pages : cache'[Src][q] \in {NoPage, file[q]}
      /\ \A d \in Others(Src) : cache'[d] = cache[d]
  <2>1. CASE UNCHANGED cache
    BY <1>1, <1>2, <2>1 DEF ReaderInv, Fresh, TypeOK
  <2>2. CASE ReadBatch
    <3> DEFINE new == [p \in Pages |-> IF p \in Batch THEN View(Src, p) ELSE cache[Src][p]]
    <3>1. cache' = [cache EXCEPT ![Src] = new]
      BY <1>1, <2>2 DEF ReadBatch, TypeOK
    <3>2. new \in [Pages -> Contents \cup {NoPage}] /\ \A q \in Pages : new[q] \in {NoPage, file[q]}
      BY <1>1, <1>2, <1>3 DEF ReaderInv, Fresh, TypeOK
    <3> HIDE DEF new
    <3> QED
      BY <1>1, <3>1, <3>2 DEF TypeOK, Others
  <2> QED BY <2>1, <2>2
<1>5. CASE phase = "step"
  <2>1. eLock' = [eLock EXCEPT ![Src] = NO_LOCK] /\ eState' = [eState EXCEPT ![Src] = "OPEN"]
    BY <1>5 DEF CloseRead
  <2>2. eState'[Src] = "OPEN" /\ eLock'[Src] = NO_LOCK /\ pc'[Src] = "idle"
    BY <1>1, <1>2, <2>1 DEF TypeOK
  <2>3. \A d \in Others(Src) : Untouched(d)
    BY <1>1, <1>2, <1>4, <2>1 DEF Untouched, Others, TypeOK
  <2>4. TypeOK'
    <3>1. eLock' \in [Conns -> NO_LOCK .. EXCLUSIVE_LOCK] /\ eState' \in [Conns -> {"OPEN", "READER"} \cup WriterStates]
      BY <1>1, <2>1 DEF TypeOK, NO_LOCK, EXCLUSIVE_LOCK
    <3> QED BY <1>1, <1>2, <1>4, <3>1 DEF TypeOK
  <2>5. LockInv'
    <3>1. Moves(Src, "OPEN", "idle", 0)
      BY <1>1, <1>2, <2>1 DEF Moves, NO_LOCK, LockTypeOK
    <3>2. LockOf(Src)'
      BY <2>2 DEF LockOf
    <3> QED
      BY <1>1, <1>2, <3>1, <3>2, MoveKeepsLocks DEF SHARED_LOCK
  <2>6. \A q \in Pages : Image'[q] = file[q]
    BY <1>2, ImageIsFile DEF ReaderInv, Image, Restored
  <2>7. vers[Src] \in Int
    BY <1>1 DEF TypeOK, Contents, NoPage
  <2>8. OpenInv(Src)'
    BY <1>2, <1>4, <2>2, <2>6, <2>7, OneIsPage DEF OpenInv, ReaderInv
  <2>9. ConnInv(Src)'
    BY <2>2, <2>8 DEF ConnInv, Owner
  <2>10. PagerInv'
    BY <1>1, <1>2, <2>2, <2>3, <2>4, <2>5, <2>9, QuietStep DEF WriterStates
  <2> QED BY <1>2, <1>5, <2>2, <2>10, SameFiles
<1>6. CASE phase # "step"
  <2>1. UNCHANGED <<eLock, eState>>
    BY <1>6 DEF CloseRead
  <2>2. \A d \in Others(Src) : Untouched(d)
    BY <1>2, <1>4, <2>1 DEF Untouched
  <2>3. TypeOK'
    BY <1>1, <1>2, <1>4, <2>1 DEF TypeOK
  <2>4. LockInv'
    BY <1>1, <1>2, <2>1 DEF LockInv, LockOf
  <2>5. ReaderInv(Src)'
    BY <1>2, <1>4 DEF ReaderInv, Fresh
  <2>6. ConnInv(Src)'
    BY <1>2, <2>1, <2>5 DEF ConnInv, Owner
  <2>7. PagerInv'
    BY <1>1, <1>2, <2>1, <2>2, <2>3, <2>4, <2>6, QuietStep
  <2> QED BY <1>2, <1>6, <2>1, <2>7, SameFiles
<1> QED BY <1>5, <1>6

(* A step copies a batch: what has been copied is the committed image. *)
LEMMA StepCopiesKeepsInv ==
  ASSUME BackupInv, StepCopies
  PROVE  /\ BackupInv' /\ UNCHANGED <<Image, Previous>>
         /\ dest' # dest => dest' = Image
<1>1. PagerInv /\ CopyInv /\ BTypeOK /\ TypeOK /\ LockOf(Src) /\ ConnInv(Src) /\ Src \in Conns
  BY SrcAssumption DEF BackupInv, PagerInv, LockInv
<1>2. /\ PagerInv' /\ UNCHANGED <<Image, Previous>>
      /\ eState'[Src] = IF phase = "step" THEN "OPEN" ELSE "READER"
  BY ReadingKeepsInv DEF StepCopies
<1>3. /\ eState[Src] = "READER" /\ ReaderInv(Src) /\ UNCHANGED <<file, jrnl, vers>>
      /\ phase \in {"loop", "step"} /\ rc # "IOERR"
  BY <1>1 DEF StepCopies, Reading, ConnInv, CopyInv
<1>4. \A q \in Pages : View(Src, q) = file[q] /\ Image[q] = file[q]
  BY <1>3, ImageIsFile DEF ReaderInv, Fresh, View
<1>5. Last \in Nat /\ StepPages \in Nat /\ StepPages > 0 /\ iNext \in 1 .. Last + 1
      /\ \A q \in Pages : q \in Nat /\ 1 <= q /\ q <= Last
  BY <1>1, PageNumbers, StepAssumption DEF BTypeOK
<1>6. iNext' \in 1 .. Last + 1 /\ iNext' = NextUncopied
  BY <1>5 DEF StepCopies, NextUncopied
<1>7. copy' \in [Pages -> Contents] /\ \A q \in Pages : copy'[q] = IF q \in Batch THEN file[q] ELSE copy[q]
  BY <1>1, <1>4 DEF StepCopies, BTypeOK, TypeOK
<1>8. \A q \in Pages : q < iNext' => copy'[q] = file[q]
  <2>1. SUFFICES ASSUME NEW q \in Pages, q < iNext' PROVE copy'[q] = file[q]
    OBVIOUS
  <2>2. CASE q < iNext
    BY <1>1, <1>3, <1>7, <2>2 DEF CopyInv, Copied
  <2>3. CASE ~(q < iNext)
    <3>1. q \in Batch
      BY <1>5, <1>6, <2>1, <2>3 DEF Batch, NextUncopied
    <3> QED BY <1>7, <3>1
  <2> QED BY <2>2, <2>3
<1>9. CASE iNext' > Last
  <2>1. dest' = copy' /\ rc' = "DONE" /\ phase' = "finish" /\ UNCHANGED <<attached, ret, calls>>
    BY <1>9 DEF StepCopies
  <2>2. \A q \in Pages : copy'[q] = Image[q]
    BY <1>4, <1>5, <1>6, <1>8, <1>9
  <2>3. dest' = Image
    BY <1>7, <2>1, <2>2 DEF Image, Restored
  <2>4. BTypeOK'
    BY <1>1, <1>6, <1>7, <2>1 DEF BTypeOK, Last
  <2>5. CopyInv'
    BY <2>1 DEF CopyInv
  <2> QED BY <1>2, <2>3, <2>4, <2>5 DEF BackupInv
<1>10. CASE ~(iNext' > Last)
  <2>1. attached' = TRUE /\ rc' = "OK" /\ phase' = "loop" /\ UNCHANGED <<dest, ret, calls>>
    BY <1>10 DEF StepCopies
  <2>2. BTypeOK'
    BY <1>1, <1>6, <1>7, <2>1 DEF BTypeOK, Last
  <2>3. \A q \in Pages : q < iNext' => Copied(q)'
    <3>1. vers'[Src] = file[1] /\ Image' = Image /\ Image[1] = file[1] /\ file[1] \in Int
      BY <1>1, <1>2, <1>3, <1>4, OneIsPage DEF ReaderInv, TypeOK, Contents
    <3> QED BY <1>3, <1>4, <1>8, <3>1 DEF Copied
  <2>4. CopyInv'
    BY <2>1, <2>3 DEF CopyInv
  <2> QED BY <1>2, <2>1, <2>2, <2>4 DEF BackupInv
<1> QED BY <1>9, <1>10

(* The other steps of the call. *)
LEMMA BackupStepKeepsInv ==
  ASSUME BackupInv, BackupStep
  PROVE  /\ BackupInv' /\ StoreStep
         /\ dest' # dest => dest' = Image
<1>1. PagerInv /\ CopyInv /\ BTypeOK /\ TypeOK /\ Src \in Conns /\ JournalInv
  BY SrcAssumption DEF BackupInv, PagerInv
<1>2. ASSUME UNCHANGED vars PROVE PagerInv' /\ StoreStep
  BY <1>1, <1>2, PagerStepKeepsInv
<1>3. CASE OpenBackup
  <2>1. /\ phase' = "loop" /\ iNext' = 1 /\ rc' = "OK" /\ attached' = FALSE /\ copy' = dest /\ ret' = "none"
        /\ calls < MaxBackups /\ calls' = calls + 1 /\ UNCHANGED <<vars, dest>>
    BY <1>3 DEF OpenBackup
  <2>2. BTypeOK'
    <3>1. iNext' \in 1 .. Cardinality(Pages) + 1 /\ calls' \in 0 .. MaxBackups
      BY <1>1, <2>1, PageNumbers, StepAssumption DEF BTypeOK
    <3> QED BY <1>1, <2>1, <3>1 DEF BTypeOK
  <2>3. \A p \in Pages : ~(p < 1)
    BY PageNumbers
  <2>4. CopyInv'
    BY <2>1, <2>3 DEF CopyInv
  <2> QED BY <1>2, <2>1, <2>2, <2>4 DEF BackupInv
<1>4. ASSUME NEW code \in {"BUSY", "IOERR"}, Leave(code)
      PROVE  BTypeOK' /\ CopyInv' /\ UNCHANGED dest
  BY <1>1, <1>4 DEF Leave, BTypeOK, CopyInv
<1>5. CASE StepRefused \/ StepNotLocked
  <2>1. UNCHANGED vars /\ \E code \in {"BUSY", "IOERR"} : Leave(code)
    BY <1>5 DEF StepRefused, StepNotLocked
  <2> QED BY <1>2, <1>4, <2>1 DEF BackupInv
<1>6. CASE StepLocks
  <2>1. CASE UNCHANGED vars /\ Leave("BUSY")
    BY <1>2, <1>4, <2>1 DEF BackupInv
  <2>2. CASE SharedLock(Src) /\ phase' = "step" /\ UNCHANGED <<iNext, rc, attached, copy, dest, ret, calls>>
    <3>1. PagerInv' /\ StoreStep
      BY <1>1, <2>2, ConnStepKeepsInv DEF ConnStep
    <3>2. /\ rc = "OK" /\ phase = "loop" /\ eState[Src] = "OPEN" /\ eState'[Src] = "OPEN" /\ pc'[Src] = "hasJournal"
          /\ vers' = vers /\ Image' = Image
      BY <1>1, <1>6, <2>2, SameFiles DEF SharedLock, Goto, TypeOK, StepLocks, CopyInv
    <3>3. \A p \in Pages : Copied(p) => Copied(p)'
      BY <2>2, <3>2 DEF Copied
    <3>4. CopyInv'
      BY <1>1, <2>2, <3>2, <3>3 DEF CopyInv
    <3>5. BTypeOK'
      BY <1>1, <2>2 DEF BTypeOK
    <3> QED BY <2>2, <3>1, <3>4, <3>5 DEF BackupInv
  <2> QED BY <1>6, <2>1, <2>2 DEF StepLocks
<1>7. CASE StepCopies
  BY <1>7, StepCopiesKeepsInv DEF StoreStep
<1>8. CASE StepFails
  <2>1. PagerInv' /\ StoreStep
    BY <1>8, ReadingKeepsInv DEF StepFails, StoreStep
  <2> QED BY <1>4, <1>8, <2>1 DEF StepFails, BackupInv
<1>9. CASE FinishBackup
  <2>1. UNCHANGED vars /\ phase' = "none" /\ attached' = FALSE /\ copy' = dest /\ iNext' = 1
        /\ ret' = (IF rc = "DONE" THEN "OK" ELSE rc) /\ UNCHANGED <<rc, dest, calls>>
    BY <1>9 DEF FinishBackup
  <2>2. BTypeOK'
    <3>1. iNext' \in 1 .. Cardinality(Pages) + 1
      BY <2>1, PageNumbers
    <3> QED BY <1>1, <2>1, <3>1 DEF BTypeOK
  <2>3. CopyInv'
    BY <2>1 DEF CopyInv
  <2> QED BY <1>2, <2>1, <2>2, <2>3 DEF BackupInv
<1> QED BY <1>3, <1>5, <1>6, <1>7, <1>8, <1>9 DEF BackupStep

LEMMA BackupNextKeepsInv ==
  ASSUME BackupInv, [BNext]_allvars
  PROVE  /\ BackupInv' /\ StoreStep
         /\ dest' # dest => dest' = Image
<1>1. PagerInv /\ CopyInv /\ BTypeOK /\ TypeOK /\ Src \in Conns
  BY SrcAssumption DEF BackupInv, PagerInv
<1>2. ASSUME NEW c \in Conns, UseConn(c)
      PROVE  BackupInv' /\ StoreStep /\ UNCHANGED dest
  <2>1. PagerInv' /\ StoreStep /\ UNCHANGED dest
    BY <1>1, <1>2, ConnStepKeepsInv DEF UseConn, BackupRestart, bvars
  <2>2. BTypeOK'
    BY <1>1, <1>2, PageNumbers DEF UseConn, BackupRestart, bvars, BTypeOK, Last
  <2>3. CopyInv'
    <3>1. CASE c = Src
      BY <1>2, <3>1, SrcConnKeepsCopy DEF UseConn
    <3>2. CASE c # Src
      BY <1>2, <3>2, OtherConnKeepsCopy DEF UseConn
    <3> QED BY <3>1, <3>2
  <2> QED BY <2>1, <2>2, <2>3 DEF BackupInv
<1>3. ASSUME NEW c \in Conns, NEW p \in Pages, UsePage(c, p)
      PROVE  BackupInv' /\ StoreStep /\ UNCHANGED dest
  <2>1. PagerInv' /\ StoreStep /\ UNCHANGED dest
    BY <1>1, <1>3, PageStepKeepsInv DEF UsePage, BackupUpdate, bvars
  <2>2. CASE c = Src
    BY <1>3, <2>1, <2>2, SrcPageKeepsCopy DEF UsePage, BackupInv
  <2>3. CASE c # Src
    <3>1. UNCHANGED bvars
      BY <1>3, <2>3 DEF UsePage, Written
    <3>2. BTypeOK'
      BY <1>1, <3>1 DEF bvars, BTypeOK
    <3> QED
      BY <1>3, <2>1, <2>3, <3>1, <3>2, OtherConnKeepsCopy DEF UsePage, BackupInv
  <2> QED BY <2>2, <2>3
<1>4. CASE Crash
  <2>1. PagerInv' /\ StoreStep
    BY <1>1, <1>4, CrashKeepsInv DEF Crash
  <2>2. phase' = "none" /\ attached' = FALSE /\ copy' = dest /\ iNext' = 1 /\ rc' = "OK" /\ ret' = "none"
        /\ UNCHANGED <<dest, calls>>
    BY <1>4 DEF Crash
  <2>3. BTypeOK' /\ CopyInv'
    <3>1. iNext' \in 1 .. Cardinality(Pages) + 1
      BY <2>2, PageNumbers
    <3> QED BY <1>1, <2>2, <3>1 DEF BTypeOK, CopyInv
  <2> QED BY <2>1, <2>2, <2>3 DEF BackupInv
<1>5. CASE UNCHANGED allvars
  <2>1. UNCHANGED vars /\ UNCHANGED bvars
    BY <1>5 DEF allvars
  <2>2. PagerInv' /\ StoreStep
    BY <1>1, <2>1, PagerStepKeepsInv
  <2>3. UNCHANGED <<eState, pc, vers, file, jrnl, phase, iNext, rc, attached, copy, dest, ret, calls>>
        /\ Image' = Image
    BY <2>1, SameFiles DEF vars, bvars
  <2>4. BTypeOK' /\ CopyInv'
    BY <1>1, <2>3 DEF BTypeOK, CopyInv, Copied
  <2> QED BY <2>2, <2>3, <2>4 DEF BackupInv
<1>6. CASE BackupStep
  BY <1>6, BackupStepKeepsInv
<1> QED BY <1>2, <1>3, <1>4, <1>5, <1>6 DEF BNext

LEMMA BackupInitInv ==
  ASSUME BInit
  PROVE  BackupInv
<1>1. PagerInv
  BY InitInv DEF BInit
<1>2. 0 \in Contents /\ Cardinality(Pages) \in Nat
  BY BoundsAssumption, PageNumbers DEF Contents, Last
<1>3. BTypeOK
  <2>1. iNext \in 1 .. Cardinality(Pages) + 1 /\ calls \in 0 .. MaxBackups
    BY <1>2, StepAssumption DEF BInit
  <2>2. dest \in [Pages -> Contents] /\ copy \in [Pages -> Contents]
    BY <1>2 DEF BInit
  <2> QED BY <2>1, <2>2 DEF BInit, BTypeOK
<1>4. CopyInv
  BY PageNumbers DEF BInit, CopyInv
<1> QED BY <1>1, <1>3, <1>4 DEF BackupInv

LEMMA InvImpliesKeepsUp ==
  ASSUME BackupInv
  PROVE  BackupKeepsUp
<1>1. SUFFICES ASSUME phase = "loop", attached, rc = "OK", pc[Src] = "idle"
               PROVE  IF eState[Src] = "OPEN"
                      THEN vers[Src] = Image[1] => \A p \in Pages : p < iNext => copy[p] = Image[p]
                      ELSE \A p \in Pages : p < iNext /\ p \notin dirty[Src] => copy[p] = View(Src, p)
  BY DEF BackupKeepsUp
<1>2. CopyInv /\ ConnInv(Src) /\ TypeOK /\ LockOf(Src)
  BY SrcAssumption DEF BackupInv, PagerInv, LockInv
<1>3. \A p \in Pages : p < iNext => Copied(p)
  BY <1>1, <1>2 DEF CopyInv
<1>4. eState[Src] # "OPEN" => \A p \in Pages : p \notin dirty[Src] => Fresh(Src, p)
  BY <1>1, <1>2 DEF LockOf, ConnInv, Owner, ReaderInv, WriterInv
<1> QED
  BY <1>3, <1>4 DEF Copied, Fresh, View

(***************************************************************************)
(* Readers of the file see one committed image also while it is backed up: *)
(* a step of sqlite3_backup_step reads a batch under a lock of its own.    *)
(***************************************************************************)
THEOREM BackupReaderSeesCommitted == BSpec => []ReaderSeesCommitted
<1>1. BInit => BackupInv
  BY BackupInitInv
<1>2. BackupInv /\ [BNext]_allvars => BackupInv'
  BY BackupNextKeepsInv
<1>3. BackupInv => ReaderSeesCommitted
  BY InvImpliesReader DEF BackupInv
<1> QED
  BY <1>1, <1>2, <1>3, PTL DEF BSpec

(***************************************************************************)
(* Commits stay atomic, and recoverable after a crash at any step, while   *)
(* the online backup reads the file.                                       *)
(***************************************************************************)
THEOREM BackupCommitsAreAtomic == BSpec => CommitsAreAtomic
<1>1. BInit => BackupInv /\ Store!Init
  BY BackupInitInv, InitIsStoreInit DEF BInit
<1>2. BackupInv /\ [BNext]_allvars => BackupInv' /\ [Store!Next]_<<Image, Previous>>
  BY BackupNextKeepsInv DEF StoreStep
<1> QED
  BY <1>1, <1>2, PTL DEF BSpec, CommitsAreAtomic, Store!Spec

(***************************************************************************)
(* backupUpdate and sqlite3BackupRestart lose no change of the source      *)
(* between two steps, whoever makes it and however many pages a step has.  *)
(***************************************************************************)
THEOREM BackupAlwaysKeepsUp == BSpec => []BackupKeepsUp
<1>1. BInit => BackupInv
  BY BackupInitInv
<1>2. BackupInv /\ [BNext]_allvars => BackupInv'
  BY BackupNextKeepsInv
<1>3. BackupInv => BackupKeepsUp
  BY InvImpliesKeepsUp
<1> QED
  BY <1>1, <1>2, <1>3, PTL DEF BSpec

(***************************************************************************)
(* Whatever sqlite3_backup_step commits to eclair.sqlite.bak is, as a      *)
(* whole, the image committed in eclair.sqlite at that moment.             *)
(***************************************************************************)
THEOREM BackupAlwaysSnapshot == BSpec => BackupIsSnapshot
<1>1. BInit => BackupInv
  BY BackupInitInv
<1>2. BackupInv /\ [BNext]_allvars => BackupInv' /\ [dest' # dest => dest' = Image]_allvars
  BY BackupNextKeepsInv
<1> QED
  BY <1>1, <1>2, PTL DEF BSpec, BackupIsSnapshot
==============================================================================
