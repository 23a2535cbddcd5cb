----------------------------- MODULE SqliteBackup -----------------------------
(***************************************************************************)
(* The online backup that writes eclair.sqlite.bak: the native function    *)
(* behind "backup to" (Java_org_sqlite_core_NativeDB_backup) and the       *)
(* backup object of sqlite3.c, while other threads use the same connection *)
(* and other connections use the same file.  A backup copies a few pages   *)
(* per step and holds no lock between two steps.  It is kept right by two  *)
(* callbacks of the pager of its connection: backupUpdate, for a page that *)
(* is written after it was copied, and sqlite3BackupRestart, for a cache   *)
(* that is dropped.                                                        *)
(*                                                                         *)
(* The destination is opened by the call and used by nobody else; it is a  *)
(* database of its own whose commit is atomic, as Pager shows.  Left out:  *)
(* a source that grows or shrinks, different page sizes, and the schema    *)
(* and change counters that the commit gives the destination's page 1.     *)
(***************************************************************************)
EXTENDS Pager

CONSTANTS Src,       \* the connection that is backed up
          StepPages, \* pages copied by one sqlite3_backup_step (100)
          MaxBackups \* bound on the number of calls

ASSUME SrcAssumption == Src \in Conns
ASSUME StepAssumption == StepPages \in Nat \ {0} /\ MaxBackups \in Nat
ASSUME NumberedAssumption == Pages = 1 .. Cardinality(Pages)

VARIABLES
  phase,     \* "none"; "loop" between two steps; "step" in one that has to
             \* lock the source; "finish" once the loop has been left
  iNext,     \* the next page to copy
  rc,        \* sqlite3_backup.rc: the result of the last step, or the
             \* failure of an update since
  attached,  \* the pager of Src knows the backup
  copy,      \* content of the destination's open transaction
  dest,      \* content of the destination
  ret,       \* what the last call has returned
  calls      \* calls made

bvars == <<phase, iNext, rc, attached, copy, dest, ret, calls>>
allvars == <<vars, bvars>>

BTypeOK ==
  /\ phase \in {"none", "loop", "step", "finish"}
  /\ iNext \in 1 .. Cardinality(Pages) + 1
  /\ rc \in {"OK", "BUSY", "IOERR", "DONE"}
  /\ attached \in BOOLEAN
  /\ copy \in [Pages -> Contents] /\ dest \in [Pages -> Contents]
  /\ ret \in {"none", "OK", "BUSY", "IOERR"}
  /\ calls \in 0 .. MaxBackups

BInit ==
  /\ Init
  /\ phase = "none" /\ iNext = 1 /\ rc = "OK" /\ attached = FALSE
  /\ dest = [p \in Pages |-> 0] /\ copy = dest
  /\ ret = "none" /\ calls = 0

------------------------------------------------------------------------------
(* Mutant: a dropped cache does not restart the backup. *)
BackupNotRestarted == UNCHANGED bvars

(* The callbacks of the pager of Src.  A copy that cannot be updated makes
   the backup fail at its next step. *)
BackupUpdate(p, v) ==
  /\ IF attached /\ rc # "IOERR" /\ p < iNext
     THEN \/ copy' = [copy EXCEPT ![p] = v] /\ UNCHANGED rc
          \/ rc' = "IOERR" /\ UNCHANGED copy
     ELSE UNCHANGED <<copy, rc>>
  /\ UNCHANGED <<phase, iNext, attached, dest, ret, calls>>

BackupRestart ==
  /\ iNext' = IF attached THEN 1 ELSE iNext
  /\ UNCHANGED <<phase, rc, attached, copy, dest, ret, calls>>

(* The steps of a connection with what they tell the backup.  pager_reset,
   by which a cache is dropped, restarts it. *)
Drops(c) == \/ pc[c] = "lockHot" /\ pc'[c] = "playback" /\ jrnl.nRec # {}
            \/ pc[c] = "version" /\ vers[c] # file[1]
            \/ pc[c] = "playback" /\ pc'[c] = "idle" /\ eState'[c] = "OPEN"

(* A step that writes a page of the file, and not only of the cache. *)
Written(c) == c = Src /\ pc[c] \in {"write", "playback"}

(* A step of the backup holds the mutex of Src: nobody else starts a call on
   that connection. *)
MayCall(c) == c = Src /\ phase = "step" => pc[c] # "idle"

UseConn(c) ==
  /\ MayCall(c)
  /\ ConnStep(c)
  /\ IF c = Src /\ Drops(c) THEN BackupRestart ELSE UNCHANGED bvars

UsePage(c, p) ==
  /\ MayCall(c)
  /\ PageStep(c, p)
  /\ IF Written(c) THEN BackupUpdate(p, file'[p]) ELSE UNCHANGED bvars

------------------------------------------------------------------------------
(* sqlite3_open of the file and sqlite3_backup_init. *)
OpenBackup ==
  /\ phase = "none" /\ calls < MaxBackups
  /\ phase' = "loop" /\ iNext' = 1 /\ rc' = "OK" /\ attached' = FALSE
  /\ copy' = dest /\ ret' = "none" /\ calls' = calls + 1
  /\ UNCHANGED <<vars, dest>>

Leave(code) ==
  /\ rc' = code /\ phase' = "finish"
  /\ UNCHANGED <<iNext, attached, copy, dest, ret, calls>>

(* sqlite3_backup_step: refused after a failed update, and while Src is in a
   write transaction. *)
StepRefused ==
  /\ phase = "loop" /\ pc[Src] = "idle"
  /\ \/ rc = "IOERR" /\ Leave("IOERR")
     \/ rc # "IOERR" /\ eState[Src] \in WriterStates /\ Leave("BUSY")
  /\ UNCHANGED vars

(* It opens a read transaction unless there is one. *)
StepLocks ==
  /\ phase = "loop" /\ rc # "IOERR"
  /\ \/ SharedLock(Src) /\ phase' = "step"
        /\ UNCHANGED <<iNext, rc, attached, copy, dest, ret, calls>>
     \/ /\ pc[Src] = "idle" /\ eState[Src] = "OPEN" /\ ~CanShare(Src)
        /\ Leave("BUSY")
        /\ UNCHANGED vars

StepNotLocked ==
  /\ phase = "step" /\ pc[Src] = "idle" /\ eState[Src] = "OPEN"
  /\ Leave("BUSY")
  /\ UNCHANGED vars

(* The pages of one step. *)
Batch == {p \in Pages : iNext <= p /\ p < iNext + StepPages}
Last == Cardinality(Pages)
NextSkipsPage == iNext + StepPages + 1   \* mutant: off by one
NextUncopied == IF iNext + StepPages > Last THEN Last + 1 ELSE iNext + StepPages

(* The read transaction is closed by the step that has opened it. *)
CloseRead ==
  IF phase = "step"
  THEN /\ eLock' = [eLock EXCEPT ![Src] = NO_LOCK]
       /\ eState' = [eState EXCEPT ![Src] = "OPEN"]
  ELSE UNCHANGED <<eLock, eState>>

ReadBatch == cache' = [cache EXCEPT ![Src] = [p \in Pages |->
                         IF p \in Batch THEN View(Src, p) ELSE @[p]]]

Reading == /\ phase = "step" \/ (phase = "loop" /\ rc # "IOERR")
           /\ pc[Src] = "idle" /\ eState[Src] = "READER"
           /\ UNCHANGED <<file, disk, jrnl, ghost, pc, goal, dirty, vers, nTxn, crashes>>

(* Some pages are copied; after the last the destination is committed. *)
StepCopies ==
  /\ Reading /\ ReadBatch /\ CloseRead
  /\ copy' = [p \in Pages |-> IF p \in Batch THEN View(Src, p) ELSE copy[p]]
  /\ iNext' = NextUncopied
  /\ IF iNext' > Last
     THEN dest' = copy' /\ rc' = "DONE" /\ phase' = "finish" /\ UNCHANGED attached
     ELSE attached' = TRUE /\ rc' = "OK" /\ phase' = "loop" /\ UNCHANGED dest
  /\ UNCHANGED <<ret, calls>>

(* Or the destination cannot be locked, or written. *)
StepFails ==
  /\ Reading /\ CloseRead /\ UNCHANGED cache
  /\ \E code \in {"BUSY", "IOERR"} : (code = "BUSY" => ~attached) /\ Leave(code)

(* sqlite3_backup_finish, and the result is read from the destination. *)
FinishBackup ==
  /\ phase = "finish" /\ pc[Src] = "idle"
  /\ ret' = IF rc = "DONE" THEN "OK" ELSE rc
  /\ phase' = "none" /\ attached' = FALSE /\ copy' = dest /\ iNext' = 1
  /\ UNCHANGED <<vars, rc, dest, calls>>

(* A transaction that was open on the destination is rolled back. *)
Crash ==
  /\ Die \/ PowerLoss
  /\ phase' = "none" /\ attached' = FALSE /\ copy' = dest /\ iNext' = 1
  /\ rc' = "OK" /\ ret' = "none"
  /\ UNCHANGED <<dest, calls>>

BackupStep == OpenBackup \/ StepRefused \/ StepLocks \/ StepNotLocked
              \/ StepCopies \/ StepFails \/ FinishBackup

BNext ==
  \/ \E c \in Conns : UseConn(c) \/ \E p \in Pages : UsePage(c, p)
  \/ BackupStep
  \/ Crash

BSpec == BInit /\ [][BNext]_allvars

------------------------------------------------------------------------------
(* What is put into the destination is, as a whole, the image that is
   committed in the source at that moment. *)
BackupIsSnapshot == [][dest' # dest => dest' = Image]_allvars

(* Between two steps nothing is lost: the pages already copied are those that
   are committed in the source, or Src has changed them in a transaction that
   has yet to write them, or somebody else has changed the file, which the
   change counter will tell when Src locks it again; unless the backup is
   bound to fail. *)
BackupKeepsUp ==
  phase = "loop" /\ attached /\ rc = "OK" /\ pc[Src] = "idle" =>
    IF eState[Src] = "OPEN"
    THEN vers[Src] = Image[1] => \A p \in Pages : p < iNext => copy[p] = Image[p]
    ELSE \A p \in Pages : p < iNext /\ p \notin dirty[Src] => copy[p] = View(Src, p)
==============================================================================
