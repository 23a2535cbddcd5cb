-------------------------------- MODULE Pager --------------------------------
(***************************************************************************)
(* The pager of the vendored SQLite (sqlite3.c), through which the node    *)
(* and the background workers use eclair.sqlite: connections of one        *)
(* process on one database file, in the default modes (journal_mode =      *)
(* DELETE, synchronous = FULL, locking_mode = NORMAL).  Modelled are the   *)
(* five lock levels of os_unix.c, the page cache and its validation by the *)
(* change counter, the rollback journal, its two syncs, cache spills,      *)
(* commit in two phases, rollback, the rollback of a hot journal by the    *)
(* next reader, the death of the process and the loss of power.            *)
(*                                                                         *)
(* The content of page 1 is the change counter, that of another page the   *)
(* number of the transaction that wrote it.  Left out: the size of the     *)
(* file, savepoints, the WAL and the other journal modes, master journals. *)
(***************************************************************************)
EXTENDS Integers, FiniteSets

CONSTANTS Conns,       \* connections, all of one process
          Pages,       \* page numbers; 1 is the page with the change counter
          MaxTxn,      \* bound on the number of write transactions
          MaxCrashes   \* bound on deaths of the process and losses of power

ASSUME PagesAssumption == /\ Pages \subseteq Nat \ {0}
                          /\ IsFiniteSet(Pages)
                          /\ 1 \in Pages
ASSUME BoundsAssumption == MaxTxn \in Nat /\ MaxCrashes \in Nat

VARIABLES
  file,     \* content of the database file, as every process sees it
  disk,     \* for each page, the contents that a loss of power may leave
  jrnl,     \* the rollback journal
  ghost,    \* the last journal deleted, while its deletion may still be lost
  eLock,    \* lock of each connection
  eState,   \* Pager.eState of each connection
  pc,       \* where each connection is in a call that takes several steps
  goal,     \* why the journal is synced: 0 to commit, p to spill page p
  cache,    \* page cache of each connection
  dirty,    \* the pages of each cache that are to be written
  vers,     \* Pager.dbFileVers: the change counter the cache belongs to
  nTxn,     \* write transactions begun
  crashes   \* deaths of the process and losses of power

vars == <<file, disk, jrnl, ghost, eLock, eState, pc, goal, cache, dirty, vers,
          nTxn, crashes>>

NO_LOCK == 0
SHARED_LOCK == 1
RESERVED_LOCK == 2
PENDING_LOCK == 3
EXCLUSIVE_LOCK == 4

NoPage == -1                       \* "not in the cache", "not in the journal"
Contents == 0 .. MaxTxn            \* a page, or the change counter
EmptyCache == [p \in Pages |-> NoPage]

(***************************************************************************)
(* A journal: rec holds the original content of the pages it has a record  *)
(* of; nRec is the set of pages counted by its headers, dRec the set that  *)
(* is counted by the headers already synced, sRec the set of the pages     *)
(* whose records have been synced; inDir says that the directory has been  *)
(* synced since the file was created.                                      *)
(***************************************************************************)
NoJournal == [exists |-> FALSE, rec |-> EmptyCache, nRec |-> {}, dRec |-> {},
              sRec |-> {}, inDir |-> FALSE]
NewJournal == [NoJournal EXCEPT !.exists = TRUE]
Recorded(j) == {p \in Pages : j.rec[p] # NoPage}

Journals == [exists : BOOLEAN, rec : [Pages -> Contents \cup {NoPage}],
             nRec : SUBSET Pages, dRec : SUBSET Pages, sRec : SUBSET Pages,
             inDir : BOOLEAN]

WriterStates == {"WRITER_LOCKED", "WRITER_CACHEMOD", "WRITER_DBMOD",
                 "WRITER_FINISHED"}

TypeOK ==
  /\ file \in [Pages -> Contents]
  /\ disk \in [Pages -> SUBSET Contents]
  /\ jrnl \in Journals /\ ghost \in Journals
  /\ eLock \in [Conns -> NO_LOCK .. EXCLUSIVE_LOCK]
  /\ eState \in [Conns -> {"OPEN", "READER"} \cup WriterStates]
  /\ pc \in [Conns -> {"idle", "hasJournal", "checkReserved", "lockHot",
                       "playback", "version", "exclusive", "syncRecords",
                       "syncHeader", "write", "phaseTwo"}]
  /\ goal \in [Conns -> Pages \cup {0}]
  /\ cache \in [Conns -> [Pages -> Contents \cup {NoPage}]]
  /\ dirty \in [Conns -> SUBSET Pages]
  /\ vers \in [Conns -> Contents \cup {NoPage}]
  /\ nTxn \in 0 .. MaxTxn
  /\ crashes \in 0 .. MaxCrashes

------------------------------------------------------------------------------
(* The file with the pages that journal j counts restored. *)
Restored(f, j) == [p \in Pages |-> IF j.exists /\ p \in j.nRec THEN j.rec[p] ELSE f[p]]

(* The image a reader is to see: what the file holds once its journal, if
   any, has been rolled back. *)
Image == Restored(file, jrnl)

(* The image that comes back if the deletion of the last journal is lost. *)
Previous == IF ghost.exists THEN Restored(Image, ghost) ELSE Image

(* What connection c reads from page p. *)
View(c, p) == IF cache[c][p] # NoPage THEN cache[c][p] ELSE file[p]

Others(c) == Conns \ {c}

(* No other connection of the process holds a lock that precludes SHARED,
   RESERVED or EXCLUSIVE for c; in the last case PENDING may be had first. *)
CanShare(c) == \A d \in Others(c) : eLock[d] < PENDING_LOCK
CanReserve(c) == \A d \in Others(c) : eLock[d] <= SHARED_LOCK
CanExclude(c) == \A d \in Others(c) : eLock[d] = NO_LOCK

Goto(c, l) == pc' = [pc EXCEPT ![c] = l]

------------------------------------------------------------------------------
Init ==
  /\ file = [p \in Pages |-> 0]
  /\ disk = [p \in Pages |-> {0}]
  /\ jrnl = NoJournal /\ ghost = NoJournal
  /\ eLock = [c \in Conns |-> NO_LOCK]
  /\ eState = [c \in Conns |-> "OPEN"]
  /\ pc = [c \in Conns |-> "idle"]
  /\ goal = [c \in Conns |-> 0]
  /\ cache = [c \in Conns |-> EmptyCache]
  /\ dirty = [c \in Conns |-> {}]
  /\ vers = [c \in Conns |-> NoPage]
  /\ nTxn = 0 /\ crashes = 0

------------------------------------------------------------------------------
(* sqlite3PagerSharedLock: SHARED, then a look for a hot journal, which is
   rolled back under EXCLUSIVE, then the validation of the cache. *)
SharedLock(c) ==
  /\ pc[c] = "idle" /\ eState[c] = "OPEN"
  /\ CanShare(c)
  /\ eLock' = [eLock EXCEPT ![c] = SHARED_LOCK]
  /\ Goto(c, "hasJournal")
  /\ UNCHANGED <<file, disk, jrnl, ghost, eState, goal, cache, dirty, vers, nTxn, crashes>>

(* Mutant: a journal left behind by a crash is not looked for. *)
HasJournalNotChecked(c) ==
  /\ pc[c] = "hasJournal" /\ Goto(c, "version")
  /\ UNCHANGED <<file, disk, jrnl, ghost, eLock, eState, goal, cache, dirty, vers, nTxn, crashes>>

HasJournal(c) ==
  /\ pc[c] = "hasJournal"
  /\ Goto(c, IF jrnl.exists THEN "checkReserved" ELSE "version")
  /\ UNCHANGED <<file, disk, jrnl, ghost, eLock, eState, goal, cache, dirty, vers, nTxn, crashes>>

(* Nobody writes, and the journal has a header or cannot be opened any more:
   it is taken to be hot. *)
CheckReserved(c) ==
  /\ pc[c] = "checkReserved"
  /\ Goto(c, IF CanReserve(c) /\ (jrnl.exists => jrnl.nRec # {})
             THEN "lockHot" ELSE "version")
  /\ UNCHANGED <<file, disk, jrnl, ghost, eLock, eState, goal, cache, dirty, vers, nTxn, crashes>>

(* pager_unlock: back to OPEN without a lock; the cache is kept unless there
   was an error. *)
Unlocked(c) ==
  /\ eLock' = [eLock EXCEPT ![c] = NO_LOCK]
  /\ eState' = [eState EXCEPT ![c] = "OPEN"]
  /\ Goto(c, "idle")

LockHot(c) ==
  /\ pc[c] = "lockHot"
  /\ \/ /\ CanExclude(c) /\ jrnl.exists
        /\ eLock' = [eLock EXCEPT ![c] = EXCLUSIVE_LOCK]
        /\ cache' = [cache EXCEPT ![c] = IF jrnl.nRec = {} THEN @ ELSE EmptyCache]
        /\ jrnl' = [jrnl EXCEPT !.dRec = jrnl.nRec, !.sRec = Recorded(jrnl), !.inDir = TRUE]
        /\ Goto(c, "playback")
        /\ UNCHANGED eState
     \/ /\ CanExclude(c) /\ ~jrnl.exists      \* it was not hot after all
        /\ Goto(c, "version")
        /\ UNCHANGED <<eLock, eState, cache, jrnl>>
     \/ /\ ~CanExclude(c)                     \* SQLITE_BUSY
        /\ Unlocked(c)
        /\ UNCHANGED <<cache, jrnl>>
  /\ UNCHANGED <<file, disk, ghost, goal, dirty, vers, nTxn, crashes>>

(* The cache is dropped if the change counter has moved; page 1 is read. *)
CheckVersion(c) ==
  /\ pc[c] = "version"
  /\ cache' = [cache EXCEPT ![c] = [(IF vers[c] = file[1] THEN @ ELSE EmptyCache)
                                    EXCEPT ![1] = file[1]]]
  /\ vers' = [vers EXCEPT ![c] = file[1]]
  /\ eState' = [eState EXCEPT ![c] = "READER"]
  /\ Goto(c, "idle")
  /\ UNCHANGED <<file, disk, jrnl, ghost, eLock, goal, dirty, nTxn, crashes>>

(* getPageNormal: a page that is not in the cache is read from the file. *)
ReadPage(c, p) ==
  /\ pc[c] = "idle" /\ eState[c] # "OPEN"
  /\ cache[c][p] = NoPage
  /\ cache' = [cache EXCEPT ![c][p] = file[p]]
  /\ UNCHANGED <<file, disk, jrnl, ghost, eLock, eState, pc, goal, dirty, vers, nTxn, crashes>>

(* The last reference is released: pagerUnlockAndRollback. *)
EndRead(c) ==
  /\ pc[c] = "idle" /\ eState[c] = "READER"
  /\ Unlocked(c)
  /\ UNCHANGED <<file, disk, jrnl, ghost, goal, cache, dirty, vers, nTxn, crashes>>

------------------------------------------------------------------------------
(* sqlite3PagerBegin; if RESERVED is not to be had the call is refused. *)
Begin(c) ==
  /\ pc[c] = "idle" /\ eState[c] = "READER" /\ nTxn < MaxTxn
  /\ CanReserve(c)
  /\ eLock' = [eLock EXCEPT ![c] = RESERVED_LOCK]
  /\ eState' = [eState EXCEPT ![c] = "WRITER_LOCKED"]
  /\ nTxn' = nTxn + 1
  /\ UNCHANGED <<file, disk, jrnl, ghost, pc, goal, cache, dirty, vers, crashes>>

(* pager_write and what is then put into the page: the journal is created
   by the first write, the original of a page recorded by its first. *)
Modify(c, p, v) ==
  LET j == IF eState[c] = "WRITER_LOCKED" THEN NewJournal ELSE jrnl
  IN /\ jrnl' = IF j.rec[p] = NoPage THEN [j EXCEPT !.rec[p] = View(c, p)] ELSE j
     /\ eState' = [eState EXCEPT ![c] = IF @ = "WRITER_LOCKED" THEN "WRITER_CACHEMOD" ELSE @]
     /\ cache' = [cache EXCEPT ![c][p] = v]
     /\ dirty' = [dirty EXCEPT ![c] = @ \cup {p}]

WritePage(c, p) ==
  /\ pc[c] = "idle" /\ p # 1 /\ p \notin dirty[c]
  /\ eState[c] \in {"WRITER_LOCKED", "WRITER_CACHEMOD", "WRITER_DBMOD"}
  /\ Modify(c, p, nTxn)
  /\ UNCHANGED <<file, disk, ghost, eLock, pc, goal, vers, nTxn, crashes>>

(* pagerStress: a dirty page leaves the cache before the commit. *)
Spill(c, p) ==
  /\ pc[c] = "idle" /\ p \in dirty[c] /\ p # 1
  /\ Goto(c, IF p \notin jrnl.dRec \/ eState[c] = "WRITER_CACHEMOD"
             THEN "exclusive" ELSE "write")
  /\ goal' = [goal EXCEPT ![c] = p]
  /\ UNCHANGED <<file, disk, jrnl, ghost, eLock, eState, cache, dirty, vers, nTxn, crashes>>

(* sqlite3PagerCommitPhaseOne up to syncJournal.  A transaction that has
   changed nothing ends here. *)
Commit(c) ==
  /\ pc[c] = "idle"
  /\ \/ /\ eState[c] = "WRITER_LOCKED"
        /\ eLock' = [eLock EXCEPT ![c] = SHARED_LOCK]
        /\ eState' = [eState EXCEPT ![c] = "READER"]
        /\ UNCHANGED <<jrnl, cache, dirty, pc>>
     \/ /\ eState[c] \in {"WRITER_CACHEMOD", "WRITER_DBMOD"}
        /\ Modify(c, 1, vers[c] + 1)
        /\ Goto(c, "exclusive")
        /\ UNCHANGED eLock
  /\ UNCHANGED <<file, disk, ghost, goal, vers, nTxn, crashes>>

(* syncJournal: EXCLUSIVE first.  If it is not to be had PENDING is kept, the
   commit fails with SQLITE_BUSY and may be tried again. *)
LockExclusive(c) ==
  /\ pc[c] = "exclusive"
  /\ \/ /\ CanExclude(c)
        /\ eLock' = [eLock EXCEPT ![c] = EXCLUSIVE_LOCK]
        /\ Goto(c, "syncRecords")
        /\ UNCHANGED goal
     \/ /\ ~CanExclude(c)
        /\ eLock' = [eLock EXCEPT ![c] = PENDING_LOCK]
        /\ Goto(c, "idle")
        /\ goal' = [goal EXCEPT ![c] = 0]
  /\ UNCHANGED <<file, disk, jrnl, ghost, eState, cache, dirty, vers, nTxn, crashes>>

(* The records are synced, the first time with the directory, and then
   counted in the header. *)
SyncRecords(c) ==
  /\ pc[c] = "syncRecords"
  /\ jrnl' = [jrnl EXCEPT !.sRec = Recorded(jrnl), !.nRec = Recorded(jrnl), !.inDir = TRUE]
  /\ ghost' = NoJournal
  /\ Goto(c, "syncHeader")
  /\ UNCHANGED <<file, disk, eLock, eState, goal, cache, dirty, vers, nTxn, crashes>>

(* The header is synced: from here on the file may be written. *)
SyncHeader(c) ==
  /\ pc[c] = "syncHeader"
  /\ jrnl' = [jrnl EXCEPT !.dRec = jrnl.nRec]
  /\ eState' = [eState EXCEPT ![c] = "WRITER_DBMOD"]
  /\ Goto(c, "write")
  /\ UNCHANGED <<file, disk, ghost, eLock, goal, cache, dirty, vers, nTxn, crashes>>

(* The pages that pager_write_pagelist has to write, and the next of them. *)
ToWrite(c) == IF goal[c] = 0 THEN dirty[c] ELSE {goal[c]}
NextPage(S) == CHOOSE p \in S : \A q \in S : p <= q

WriteFile(p, v) ==
  /\ file' = [file EXCEPT ![p] = v]
  /\ disk' = [disk EXCEPT ![p] = @ \cup {v}]

FlushPage(c, p) ==
  /\ pc[c] = "write" /\ ToWrite(c) # {} /\ p = NextPage(ToWrite(c))
  /\ WriteFile(p, cache[c][p])
  /\ dirty' = [dirty EXCEPT ![c] = @ \ {p}]
  /\ vers' = [vers EXCEPT ![c] = IF p = 1 THEN cache[c][1] ELSE @]
  /\ IF goal[c] = 0 THEN UNCHANGED <<pc, goal>>
                    ELSE Goto(c, "idle") /\ goal' = [goal EXCEPT ![c] = 0]
  /\ UNCHANGED <<jrnl, ghost, eLock, eState, cache, nTxn, crashes>>

Synced == [p \in Pages |-> {file[p]}]

(* Mutant: the journal is deleted before the file has been synced. *)
SyncFileOmitted(c) ==
  /\ pc[c] = "write" /\ goal[c] = 0 /\ dirty[c] = {}
  /\ eState' = [eState EXCEPT ![c] = "WRITER_FINISHED"]
  /\ Goto(c, "phaseTwo")
  /\ UNCHANGED <<file, disk, jrnl, ghost, eLock, goal, cache, dirty, vers, nTxn, crashes>>

(* sqlite3PagerSync, the end of phase one. *)
SyncFile(c) ==
  /\ pc[c] = "write" /\ goal[c] = 0 /\ dirty[c] = {}
  /\ disk' = Synced
  /\ eState' = [eState EXCEPT ![c] = "WRITER_FINISHED"]
  /\ Goto(c, "phaseTwo")
  /\ UNCHANGED <<file, jrnl, ghost, eLock, goal, cache, dirty, vers, nTxn, crashes>>

(* pager_end_transaction: the journal is deleted, without a sync of the
   directory, and the lock downgraded. *)
DeleteJournal ==
  /\ jrnl' = NoJournal
  /\ ghost' = IF jrnl.inDir THEN jrnl ELSE ghost

CommitPhaseTwo(c) ==
  /\ pc[c] = "phaseTwo"
  /\ DeleteJournal
  /\ eLock' = [eLock EXCEPT ![c] = SHARED_LOCK]
  /\ eState' = [eState EXCEPT ![c] = "READER"]
  /\ Goto(c, "idle")
  /\ UNCHANGED <<file, disk, goal, cache, dirty, vers, nTxn, crashes>>

------------------------------------------------------------------------------
(* sqlite3PagerRollback, asked for or after a failed step of the commit.
   The file is played back only if it may have been written. *)
Rollback(c) ==
  /\ eState[c] \in WriterStates /\ pc[c] # "playback"
  /\ dirty' = [dirty EXCEPT ![c] = {}]
  /\ goal' = [goal EXCEPT ![c] = 0]
  /\ \/ /\ eState[c] = "WRITER_LOCKED"
        /\ eLock' = [eLock EXCEPT ![c] = SHARED_LOCK]
        /\ eState' = [eState EXCEPT ![c] = "READER"]
        /\ UNCHANGED pc
     \/ /\ eState[c] # "WRITER_LOCKED"
        /\ Goto(c, "playback")
        /\ UNCHANGED <<eLock, eState>>
  /\ UNCHANGED <<file, disk, jrnl, ghost, cache, vers, nTxn, crashes>>

(* The pages that pager_playback writes into the file.  Of a hot journal
   those counted by its headers, of one's own those that were synced. *)
ToRestore(c) ==
  IF eState[c] = "OPEN" THEN {p \in jrnl.nRec : file[p] # jrnl.rec[p]}
  ELSE IF eState[c] = "WRITER_CACHEMOD" THEN {}
  ELSE {p \in jrnl.dRec : file[p] # jrnl.rec[p]}

PlaybackPage(c, p) ==
  /\ pc[c] = "playback" /\ p \in ToRestore(c)
  /\ WriteFile(p, jrnl.rec[p])
  /\ UNCHANGED <<jrnl, ghost, eLock, eState, pc, goal, cache, dirty, vers, nTxn, crashes>>

(* The file is synced, the journal deleted, the lock downgraded.  A hot
   journal was played back inside sqlite3PagerSharedLock, which goes on. *)
EndPlayback(c) ==
  /\ pc[c] = "playback" /\ ToRestore(c) = {}
  /\ disk' = IF eState[c] = "WRITER_CACHEMOD" THEN disk ELSE Synced
  /\ DeleteJournal
  /\ eLock' = [eLock EXCEPT ![c] = SHARED_LOCK]
  /\ \/ /\ eState[c] = "OPEN"
        /\ Goto(c, "version")
        /\ UNCHANGED <<eState, cache, vers>>
     \/ /\ eState[c] # "OPEN"
        /\ Goto(c, "idle")
        /\ eState' = [eState EXCEPT ![c] = "READER"]
        /\ cache' = [cache EXCEPT ![c] = [p \in Pages |->
                       IF @[p] # NoPage /\ jrnl.rec[p] # NoPage THEN jrnl.rec[p] ELSE @[p]]]
        /\ vers' = [vers EXCEPT ![c] = IF jrnl.rec[1] # NoPage THEN jrnl.rec[1] ELSE @]
  /\ UNCHANGED <<file, goal, dirty, nTxn, crashes>>

(* The playback itself fails: pager_error and pager_unlock.  The cache is
   dropped and the journal is left for the next reader. *)
PlaybackFails(c) ==
  /\ pc[c] = "playback"
  /\ Unlocked(c)
  /\ cache' = [cache EXCEPT ![c] = EmptyCache]
  /\ UNCHANGED <<file, disk, jrnl, ghost, goal, dirty, vers, nTxn, crashes>>

------------------------------------------------------------------------------
(* The process dies: locks and caches are gone, the files stay. *)
Restarted ==
  /\ crashes < MaxCrashes /\ crashes' = crashes + 1
  /\ eLock' = [c \in Conns |-> NO_LOCK]
  /\ eState' = [c \in Conns |-> "OPEN"]
  /\ pc' = [c \in Conns |-> "idle"]
  /\ goal' = [c \in Conns |-> 0]
  /\ cache' = [c \in Conns |-> EmptyCache]
  /\ dirty' = [c \in Conns |-> {}]
  /\ vers' = [c \in Conns |-> NoPage]
  /\ UNCHANGED nTxn

Die == Restarted /\ UNCHANGED <<file, disk, jrnl, ghost>>

(* What a loss of power may leave of the journal: with a header that was or
   was not written, and without the records that were not synced; not at all
   if the directory was not synced; or the deleted one again. *)
Survivors ==
  {[exists |-> TRUE, nRec |-> S, dRec |-> S, sRec |-> S, inDir |-> TRUE,
    rec |-> [p \in Pages |-> IF p \in S THEN jrnl.rec[p] ELSE NoPage]]
     : S \in IF jrnl.exists THEN {jrnl.dRec, jrnl.nRec \cap jrnl.sRec} ELSE {}}
  \cup IF jrnl.exists /\ jrnl.inDir THEN {}
       ELSE {NoJournal} \cup (IF ghost.exists THEN {ghost} ELSE {})

PowerLoss ==
  /\ Restarted
  /\ file' \in {f \in [Pages -> Contents] : \A p \in Pages : f[p] \in disk[p]}
  /\ disk' = [p \in Pages |-> {file'[p]}]
  /\ jrnl' \in Survivors
  /\ ghost' = NoJournal

------------------------------------------------------------------------------
(* The steps of a connection that can be taken on a page, and the others. *)
PageStep(c, p) == ReadPage(c, p) \/ WritePage(c, p) \/ Spill(c, p)
                  \/ FlushPage(c, p) \/ PlaybackPage(c, p)

ConnStep(c) ==
  \/ SharedLock(c) \/ HasJournal(c) \/ CheckReserved(c) \/ LockHot(c)
  \/ CheckVersion(c) \/ EndRead(c)
  \/ Begin(c) \/ Commit(c) \/ LockExclusive(c) \/ SyncRecords(c)
  \/ SyncHeader(c) \/ SyncFile(c) \/ CommitPhaseTwo(c)
  \/ Rollback(c) \/ EndPlayback(c) \/ PlaybackFails(c)

Next ==
  \/ \E c \in Conns : ConnStep(c) \/ \E p \in Pages : PageStep(c, p)
  \/ Die
  \/ PowerLoss

Spec == Init /\ [][Next]_vars

------------------------------------------------------------------------------
(* A connection inside a read transaction reads, page after page and from
   cache or file alike, the one committed image, whatever the others do. *)
ReaderSeesCommitted ==
  \A c \in Conns : eState[c] = "READER" => \A p \in Pages : View(c, p) = Image[p]

(* The file and its journal together implement a store with atomic commits:
   no crash leaves a part of a transaction, no connection overwrites what it
   has not seen, and only the last commit can be lost with the power. *)
Store == INSTANCE AtomicStore WITH img <- Image, prev <- Previous
CommitsAreAtomic == Store!Spec
==============================================================================
