--------------------------- MODULE RestoreBackup ---------------------------
(***************************************************************************)
(* RestoreChannelsBackupActivity: access to the device and to Google Drive *)
(* is asked for, both are scanned, the best backup is shown, and the one   *)
(* the user confirms becomes the node's database.                          *)
(*                                                                         *)
(* Callbacks of the UI thread are one step each; Drive tasks call back on  *)
(* it.  The scanning and the restoring threads interleave with them.  The  *)
(* screen learns of the progress by polling: a callback that posts itself  *)
(* again until nothing is pending.                                         *)
(***************************************************************************)
EXTENDS BackupChoice

CONSTANTS
  Found,          \* what a backup file may turn out to hold (BackupScanOk)
  MaxScans        \* bound on the scans that are started

ASSUME RestoreAssumption ==
  /\ MaxScans \in Nat
  /\ \A f \in Found :
       /\ f = BackupScanOk(f.localCommitIndexMap, f.lastModified)
       /\ CommitIndexMap(f.localCommitIndexMap) /\ f.lastModified \in Nat \ {0}

VARIABLES
  step,         \* the step that is displayed
  access,       \* accessRequestsMap
  asking,       \* sources whose access the user, or Google, is being asked for
  accessPing,   \* checkAccessRequestIsDone is posted
  expected,     \* mExpectedBackupsMap
  scans,        \* the scans started: thread, Drive task, posted checkScanningDone
  picker,       \* the file picker is open
  best,         \* mBestBackup: source and content
  tmp,          \* the decrypted file of each source
  restoring,    \* the restoration under way
  confirmed,    \* the content that was displayed when the user confirmed
  db,           \* the node's database file
  refused,      \* Google Drive has refused the access the user had granted
  abandoned,    \* the file picker was left without a choice
  restoreDone,  \* the preference: there is nothing left to restore
  life

restoreVars == <<step, access, asking, accessPing, expected, scans, picker, best, tmp,
                 restoring, confirmed, db, restoreDone, life, refused, abandoned>>

history == <<refused, abandoned>>
screenVars == <<restoring, confirmed, db, restoreDone, life, history>>
accessVars == <<access, asking, accessPing>>
scanVars == <<accessVars, expected, scans, picker, best, tmp>>

Steps == {"INIT", "REQUESTING_ACCESS", "SCANNING", "FOUND", "FOUND_ERROR", "NOT_FOUND",
          "RESTORE_DONE"}

Nothing == [kind |-> "nothing"]
Pending == [kind |-> "pending"]

\* A file taken from the picker has no date.
Undated(f) == [f EXCEPT !.lastModified = 0]

Ok == Found \cup {Undated(f) : f \in Found}

Results == Ok \cup {NotFound, BackupScanFailure}

Some(S) == UNION {[D -> S] : D \in SUBSET BackupTypes}

\* thread: what it does next.  drive: the Drive request that is in flight.
ScanState == [thread : {"unused", "start", "local", "drive", "ended"}, gdrive : BOOLEAN,
              drive : {"none", "list", "content"}, ping : BOOLEAN]

Unused == [thread |-> "unused", gdrive |-> FALSE, drive |-> "none", ping |-> FALSE]

\* no: isRestoring is FALSE.  posted, moved: it is TRUE.
Restoring == {"no", "posted", "moved"}

RestoreTypeOK ==
  /\ step \in Steps
  /\ access \in Some({"pending", "granted", "denied"})
  /\ asking \subseteq BackupTypes
  /\ accessPing \in BOOLEAN
  /\ expected \in Some(Results \cup {Pending})
  /\ scans \in [1 .. MaxScans -> ScanState]
  /\ picker \in BOOLEAN
  /\ best \in [type : BackupTypes, result : Ok] \cup {Nothing}
  /\ tmp \in [BackupTypes -> Ok \cup {BackupScanFailure, Nothing}]
  /\ restoring \in Restoring
  /\ confirmed \in Ok \cup {Nothing}
  /\ db \in Ok \cup {BackupScanFailure, Nothing}
  /\ restoreDone \in BOOLEAN
  /\ refused \in BOOLEAN /\ abandoned \in BOOLEAN
  /\ life \in {"resumed", "finished"}

RestoreInit ==
  /\ step = "INIT"
  /\ access = << >>
  /\ asking = {}
  /\ accessPing = FALSE
  /\ expected = << >>
  /\ scans = [i \in 1 .. MaxScans |-> Unused]
  /\ picker = FALSE
  /\ best = Nothing
  /\ tmp = [t \in BackupTypes |-> Nothing]
  /\ restoring = "no"
  /\ confirmed = Nothing
  /\ db = Nothing
  /\ restoreDone = FALSE
  /\ refused = FALSE /\ abandoned = FALSE
  /\ life = "resumed"

Put(f, t, v) == [u \in DOMAIN f \cup {t} |-> IF u = t THEN v ELSE f[u]]

OnScreen == life = "resumed" /\ ~picker /\ asking = {}

-----------------------------------------------------------------------------
(***************************************************************************)
(* Access (ChannelsBackupBaseActivity).                                    *)
(***************************************************************************)

\* applyAccessRequestDone, with the answers in a and the step s on the screen.
\* Without access to the device nothing is scanned.
startScanning(a, s) ==
  /\ best' = Nothing
  /\ expected' = << >>
  /\ IF "LOCAL" \in DOMAIN a /\ a["LOCAL"] = "granted"
     THEN \E i \in 1 .. MaxScans :
            /\ scans[i].thread = "unused" /\ \A j \in 1 .. i - 1 : scans[j].thread # "unused"
            /\ scans' = [scans EXCEPT ![i].thread = "start",
                           ![i].gdrive = "GDRIVE" \in DOMAIN a /\ a["GDRIVE"] = "granted"]
            /\ step' = s
     ELSE step' = "INIT" /\ UNCHANGED scans

\* Access to the sources S is asked for.  The access to the device may have been
\* granted before.
requestAccess(S) ==
  \E l \in {"pending", "granted"} :
    LET a == [t \in S |-> IF t = "LOCAL" THEN l ELSE "pending"] IN
    /\ access' = a
    /\ asking' = asking \cup {t \in S : a[t] = "pending"}
    /\ accessPing' = ("pending" \in Range(a))

\* The scan button.
RequestScan ==
  /\ OnScreen /\ step = "INIT"
  /\ \E S \in SUBSET BackupTypes : S # {} /\ requestAccess(S)
  /\ IF accessPing'
     THEN step' = "REQUESTING_ACCESS" /\ UNCHANGED <<expected, scans, best>>
     ELSE startScanning(access', "REQUESTING_ACCESS")
  /\ UNCHANGED <<picker, tmp, screenVars>>

\* The user answers, or the sign-in fails.  The preference to save to Google
\* Drive, which nothing here reads, follows the answer.
Answer(t) ==
  /\ t \in asking /\ life = "resumed"
  /\ asking' = asking \ {t}
  /\ \E a \in {"granted", "denied"} : access' = Put(access, t, a)
  /\ UNCHANGED <<step, accessPing, expected, scans, picker, best, tmp, screenVars>>

checkAccessRequestIsDone ==
  /\ accessPing /\ life = "resumed"
  /\ "pending" \notin Range(access)
  /\ accessPing' = FALSE
  /\ startScanning(access, step)
  /\ UNCHANGED <<access, asking, picker, tmp, screenVars>>

-----------------------------------------------------------------------------
(***************************************************************************)
(* Choosing, from the results in e; the best backup is b if this fails.    *)
(***************************************************************************)

\* The sort fails on a result that is still null, unless it happens not to
\* look at it.
Findings(e) ==
  LET known == [t \in {u \in DOMAIN e : e[u] # Pending} |-> e[t]] IN
  IF Pending \notin Range(e) THEN findBestBackup(e)
  ELSE (IF Cardinality(DOMAIN e) > 1 THEN {"exception"} ELSE {})
         \cup (IF \E t \in DOMAIN known : IsOk(known[t]) THEN {} ELSE findBestBackup(known))

handleBackups(e, b) ==
  \E found \in Findings(e) :
    \/ /\ found \in BackupTypes
       /\ step' = "FOUND" /\ best' = [type |-> found, result |-> e[found]]
    \/ found = "none" /\ step' = "NOT_FOUND" /\ best' = Nothing
    \/ found = "unreadable" /\ step' = "FOUND_ERROR" /\ best' = b
    \/ found = "exception" /\ step' = "INIT" /\ best' = b

\* Mutant: the callback posts itself again when it is done.
checkScanningDoneAgain(i) ==
  /\ scans[i].ping /\ life = "resumed"
  /\ Pending \notin Range(expected)
  /\ handleBackups(expected, Nothing)
  /\ UNCHANGED <<accessVars, expected, scans, picker, tmp, screenVars>>

\* The callback posted by scan i.
checkScanningDone(i) ==
  /\ scans[i].ping /\ life = "resumed"
  /\ \/ /\ expected = << >>
        /\ step' = "NOT_FOUND" /\ best' = Nothing
        /\ scans' = [scans EXCEPT ![i].ping = FALSE]
     \/ /\ expected # << >> /\ Pending \notin Range(expected)
        /\ handleBackups(expected, Nothing)
        /\ scans' = [scans EXCEPT ![i].ping = FALSE]
     \/ /\ Pending \in Range(expected)
        /\ best' = Nothing
        /\ UNCHANGED <<step, scans>>
  /\ UNCHANGED <<accessVars, expected, picker, tmp, screenVars>>

-----------------------------------------------------------------------------
(***************************************************************************)
(* Scanning.                                                               *)
(***************************************************************************)

\* A result of source t is recorded; a backup that could be read has been
\* decrypted to the temporary file of its source.  A failure may come before or
\* after that file is written.
Record(t, r) ==
  /\ expected' = Put(expected, t, r)
  /\ \/ /\ r # NotFound
        /\ tmp' = [tmp EXCEPT ![t] = r]
     \/ ~IsOk(r) /\ UNCHANGED tmp

ThreadStarts(i) ==
  /\ scans[i].thread = "start"
  /\ scans' = [scans EXCEPT ![i].thread = "local"]
  /\ step' = "SCANNING"
  /\ expected' = Put(expected, "LOCAL", Pending)
  /\ UNCHANGED <<accessVars, picker, best, tmp, screenVars>>

scanLocalDevice(i) ==
  /\ scans[i].thread = "local"
  /\ scans' = [scans EXCEPT ![i].thread = "drive"]
  /\ \E r \in Found \cup {NotFound, BackupScanFailure} : Record("LOCAL", r)
  /\ UNCHANGED <<step, accessVars, picker, best, screenVars>>

scanGoogleDrive(i) ==
  /\ scans[i].thread = "drive"
  /\ scans' = [scans EXCEPT ![i].thread = "ended", ![i].ping = TRUE,
                            ![i].drive = IF scans[i].gdrive THEN "list" ELSE "none"]
  /\ expected' = IF scans[i].gdrive THEN Put(expected, "GDRIVE", Pending) ELSE expected
  /\ UNCHANGED <<step, accessVars, picker, best, tmp, screenVars>>

\* The list of Drive files arrives: there is one to fetch, or none, or an error.
DriveListed(i) ==
  /\ scans[i].drive = "list" /\ life = "resumed"
  /\ \/ scans' = [scans EXCEPT ![i].drive = "content"] /\ UNCHANGED expected
     \/ scans' = [scans EXCEPT ![i].drive = "none"] /\ expected' = Put(expected, "GDRIVE", NotFound)
  /\ UNCHANGED <<step, accessVars, picker, best, tmp, screenVars>>

\* An authentication error: access is asked for again.  What the scan has posted
\* stays posted.
DriveDenied(i) ==
  /\ scans[i].drive = "list" /\ life = "resumed"
  /\ refused' = TRUE
  /\ expected' = << >>
  /\ step' = "REQUESTING_ACCESS"
  /\ \E S \in SUBSET BackupTypes : "GDRIVE" \in S /\ requestAccess(S)
  /\ scans' = [scans EXCEPT ![i].drive = "none"]
  /\ UNCHANGED <<picker, best, tmp, restoring, confirmed, db, restoreDone, life, abandoned>>

\* Mutant: the error is not recorded.
DriveContentForgets(i) ==
  /\ scans[i].drive = "content" /\ life = "resumed"
  /\ scans' = [scans EXCEPT ![i].drive = "none"]
  /\ \/ \E r \in Found : Record("GDRIVE", r)
     \/ UNCHANGED <<expected, tmp>>
  /\ UNCHANGED <<step, accessVars, picker, best, screenVars>>

\* The content arrives, or an error that is recorded as "no backup".
DriveContent(i) ==
  /\ scans[i].drive = "content" /\ life = "resumed"
  /\ scans' = [scans EXCEPT ![i].drive = "none"]
  /\ \E r \in Found \cup {NotFound, BackupScanFailure} : Record("GDRIVE", r)
  /\ UNCHANGED <<step, accessVars, picker, best, screenVars>>

Browse ==
  /\ OnScreen /\ step = "INIT"
  /\ step' = "SCANNING"
  /\ expected' = Put(expected, "LOCAL", Pending)
  /\ picker' = TRUE
  /\ UNCHANGED <<accessVars, scans, best, tmp, screenVars>>

\* The file the user picked is read, and the best backup chosen at once.
onActivityResult ==
  /\ picker /\ life = "resumed"
  /\ picker' = FALSE
  /\ \E r \in {Undated(f) : f \in Found} \cup {NotFound, BackupScanFailure} :
       /\ Record("LOCAL", r)
       /\ handleBackups(Put(expected, "LOCAL", r), best)
  /\ UNCHANGED <<accessVars, scans, screenVars>>

\* The picker is left without a choice: nothing is done.
PickerCancelled ==
  /\ picker /\ life = "resumed"
  /\ picker' = FALSE /\ abandoned' = TRUE
  /\ UNCHANGED <<step, accessVars, expected, scans, best, tmp, restoring, confirmed, db,
                 restoreDone, life, refused>>

-----------------------------------------------------------------------------
(***************************************************************************)
(* The buttons, and the restoration.                                       *)
(***************************************************************************)
TryAgain ==
  /\ OnScreen /\ step \in {"FOUND", "FOUND_ERROR", "NOT_FOUND"} /\ restoring = "no"
  /\ step' = "INIT"
  /\ UNCHANGED <<accessVars, expected, scans, picker, best, tmp, screenVars>>

ignoreRestoreAndBeDone ==
  /\ OnScreen /\ step \in {"FOUND", "NOT_FOUND"} /\ restoring = "no"
  /\ restoreDone' = TRUE /\ life' = "finished"
  /\ UNCHANGED <<step, scanVars, restoring, confirmed, db, history>>

restoreBestBackup ==
  /\ OnScreen /\ step = "FOUND" /\ restoring = "no"
  /\ best # Nothing /\ tmp[best.type] # Nothing
  /\ restoring' = "posted"
  /\ confirmed' = best.result
  /\ UNCHANGED <<step, scanVars, db, restoreDone, life, history>>

\* Mutant: the file is copied from the other source.
MoveFileOfOther ==
  /\ restoring = "posted" /\ best # Nothing
  /\ \E t \in BackupTypes : tmp[t] # Nothing /\ db' = tmp[t]
  /\ step' = "RESTORE_DONE" /\ restoring' = "moved" /\ restoreDone' = TRUE
  /\ UNCHANGED <<accessVars, expected, scans, picker, best, tmp, confirmed, life, history>>

\* The thread, 750 ms later, moves the file of mBestBackup as it is by then.  An
\* error leaves the screen as it is; if mBestBackup is gone the thread, and the
\* application, die.
MoveFile ==
  /\ restoring = "posted"
  /\ \/ /\ best # Nothing /\ tmp[best.type] # Nothing
        /\ db' = tmp[best.type]
        /\ tmp' = [tmp EXCEPT ![best.type] = Nothing]
        /\ step' = "RESTORE_DONE" /\ restoring' = "moved" /\ restoreDone' = TRUE
        /\ UNCHANGED life
     \/ /\ best # Nothing
        /\ restoring' = "no"
        /\ UNCHANGED <<step, tmp, db, restoreDone, life>>
     \/ /\ best = Nothing
        /\ restoring' = "no" /\ life' = "finished"
        /\ UNCHANGED <<step, tmp, db, restoreDone>>
  /\ UNCHANGED <<accessVars, expected, scans, picker, best, confirmed, history>>

\* The end of the thread.
MoveEnds ==
  /\ restoring = "moved"
  /\ restoring' = "no"
  /\ UNCHANGED <<step, scanVars, confirmed, db, restoreDone, life, history>>

\* Posted by the thread, four seconds later.
Finish ==
  /\ db # Nothing /\ life = "resumed"
  /\ life' = "finished"
  /\ UNCHANGED <<step, scanVars, restoring, confirmed, db, restoreDone, history>>

onBackPressed ==
  /\ OnScreen
  /\ restoring = "no" \/ step # "RESTORE_DONE"
  /\ life' = "finished"
  /\ UNCHANGED <<step, scanVars, restoring, confirmed, db, restoreDone, history>>

-----------------------------------------------------------------------------
ScanThread(i) == ThreadStarts(i) \/ scanLocalDevice(i) \/ scanGoogleDrive(i)

DriveAnswers(i) == DriveListed(i) \/ DriveDenied(i) \/ DriveContent(i)

RestoreNext ==
  \/ RequestScan \/ Browse \/ onActivityResult \/ PickerCancelled
  \/ checkAccessRequestIsDone
  \/ \E t \in BackupTypes : Answer(t)
  \/ \E i \in 1 .. MaxScans : ScanThread(i) \/ DriveAnswers(i) \/ checkScanningDone(i)
  \/ TryAgain \/ ignoreRestoreAndBeDone \/ restoreBestBackup
  \/ MoveFile \/ MoveEnds \/ Finish \/ onBackPressed

RestoreSpec == RestoreInit /\ [][RestoreNext]_restoreVars

\* Threads run, Google answers, posted callbacks are called, and a file picker is
\* not open for ever.
FairRestoreSpec ==
  /\ RestoreSpec
  /\ \A i \in 1 .. MaxScans :
       WF_restoreVars(ScanThread(i)) /\ WF_restoreVars(DriveAnswers(i)) /\ WF_restoreVars(checkScanningDone(i))
  /\ WF_restoreVars(onActivityResult \/ PickerCancelled)

-----------------------------------------------------------------------------
(***************************************************************************)
(* Properties.                                                             *)
(***************************************************************************)

\* The backup that is offered (handleBackups) is never one that another result
\* known by then dominates, whatever their dates.
OfferedIsNotDominated ==
  [][step # "FOUND" /\ step' = "FOUND" =>
       \A t \in DOMAIN expected' :
         IsOk(expected'[t]) =>
           ~Dominates(expected'[t].localCommitIndexMap, best'.result.localCommitIndexMap)]_restoreVars

\* Unless Google Drive has refused access, the confirm button works whenever it
\* is shown (restoreBestBackup): the backup on the screen is there, and its
\* decrypted file is that of its own source.
ConfirmWorks ==
  ~refused /\ step = "FOUND" /\ restoring = "no" /\ life = "resumed" =>
    best # Nothing /\ tmp[best.type] = best.result

\* Unless Google Drive has refused access, what the thread of restoreBestBackup
\* has moved to the node's database is what the screen displayed when the user
\* confirmed, and the restoration is recorded as done.
RestoredIsConfirmed == ~refused /\ db # Nothing => db = confirmed /\ restoreDone

\* A scan ends: unless the file picker was left without a choice, the progress
\* bar is replaced by a result or an error, whatever Google Drive answers
\* (each listener of scanGoogleDrive records a result).
ScanEnds ==
  step = "SCANNING" /\ life = "resumed"
    ~> step # "SCANNING" \/ life = "finished" \/ abandoned
=============================================================================
