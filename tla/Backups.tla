------------------------------ MODULE Backups ------------------------------
(***************************************************************************)
(* The channels backup: the node writes its database to a .bak file,       *)
(* NodeSupervisor schedules a ChannelsBackupWorker, and the worker saves   *)
(* the file to Google Drive and then to the device.  After a loss of the   *)
(* device one of the two is restored, by BackupChoice.                     *)
(*                                                                         *)
(* The work is unique and its policy is REPLACE: new work cancels the old, *)
(* but a doWork that is running is not interrupted, so two of them may     *)
(* overlap.  The content of a backup is the version of the database it is  *)
(* a copy of.                                                              *)
(***************************************************************************)
EXTENDS BackupChoice

CONSTANTS
  Channels,       \* channels of the node
  Runs,           \* doWork threads; with one only, they never overlap
  MaxIndex,       \* bound on the local commitment index of a channel
  MaxVersions,    \* bound on the versions of the database
  MaxRestarts,    \* bound on the deaths of the process
  MaxGrants,      \* bound on the times the user turns the Drive backup on
  Failures        \* may reading, Google Drive or the device fail

ASSUME BackupsAssumption ==
  /\ IsFiniteSet(Channels) /\ Cardinality(Channels) <= MaxShort
  /\ MaxIndex \in Nat \ {0} /\ MaxVersions \in Nat /\ MaxRestarts \in Nat
  /\ MaxGrants \in Nat /\ Failures \in BOOLEAN

VARIABLES
  versions,     \* the versions the node's database has had
  bak,          \* the version in the .bak file, 0 if there is none
  completed,    \* BackupCompleted events not yet handled
  account,      \* there is a Google account with the permissions needed
  enabled,      \* the preference: save to Google Drive
  queued,       \* work is enqueued that has not started
  runs,         \* the doWork threads
  drive,        \* the backup files on Google Drive
  local,        \* the backup file on the device
  clock,        \* the time of the last write
  overlapped,   \* a doWork has started while a cancelled one was running
  reported,     \* the latest version a worker reported as saved
  restarts,
  grants

nodeVars == <<versions, bak, completed>>
googleVars == <<account, enabled, grants>>
fileVars == <<drive, local, clock>>
vars == <<nodeVars, googleVars, fileVars, queued, runs, overlapped, reported, restarts>>

Torn == -1      \* the content of a file that was opened and not written
None == 0       \* no file

Content == {Torn, None} \cup 1 .. MaxVersions

File == [content : Content, date : Nat]

Snapshot == UNION {[S -> 1 .. MaxIndex] : S \in SUBSET Channels}

RunPc == {"idle", "read", "list", "upload", "open", "write", "finish"}

\* drive: should this run save to Google Drive, and has it done so.
\* file: the index of the Drive file it updates, 0 to create one.
Run == [pc : RunPc, content : 0 .. MaxVersions, cancelled : BOOLEAN,
        drive : {"skipped", "failed", "saved"}, file : Nat, local : BOOLEAN]

Idle == [pc |-> "idle", content |-> 0, cancelled |-> FALSE, drive |-> "skipped",
         file |-> 0, local |-> FALSE]

TypeOK ==
  /\ versions \in Seq(Snapshot) /\ Len(versions) <= MaxVersions
  /\ bak \in 0 .. Len(versions)
  /\ completed \in 0 .. (MaxVersions + MaxGrants)
  /\ account \in BOOLEAN /\ enabled \in BOOLEAN
  /\ queued \in BOOLEAN
  /\ runs \in [Runs -> Run]
  /\ drive \in Seq(File)
  /\ local \in File
  /\ clock \in Nat
  /\ overlapped \in BOOLEAN
  /\ reported \in 0 .. bak
  /\ restarts \in 0 .. MaxRestarts
  /\ grants \in 0 .. MaxGrants

Init ==
  /\ versions = << >>
  /\ bak = 0
  /\ completed = 0
  /\ account \in BOOLEAN
  /\ enabled = account     \* SetupChannelsBackupActivity has run
  /\ queued = FALSE
  /\ runs = [r \in Runs |-> Idle]
  /\ drive = << >>
  /\ local = [content |-> None, date |-> 0]
  /\ clock = 0
  /\ overlapped = FALSE
  /\ reported = 0
  /\ restarts = 0
  /\ grants = 0

-----------------------------------------------------------------------------
(***************************************************************************)
(* The node (external): channels are opened, updated and closed; each      *)
(* change is then copied to the .bak file and announced.                   *)
(***************************************************************************)
Current == IF versions = << >> THEN << >> ELSE Last(versions)

\* A closed channel is not opened again.
NewChannels == {c \in Channels : \A i \in DOMAIN versions : c \notin DOMAIN versions[i]}

Changes(db) ==
  {[c \in DOMAIN db \cup {d} |-> IF c = d THEN 1 ELSE db[c]] : d \in NewChannels}
    \cup {[db EXCEPT ![d] = @ + 1] : d \in {c \in DOMAIN db : db[c] < MaxIndex}}
    \cup {[c \in DOMAIN db \ {d} |-> db[c]] : d \in DOMAIN db}

NodeChanges ==
  /\ Len(versions) < MaxVersions
  /\ \E db \in Changes(Current) : versions' = Append(versions, db)
  /\ UNCHANGED <<googleVars, fileVars, bak, completed, queued, runs, overlapped, reported, restarts>>

\* Also when there is nothing new: ChannelPersisted may be published for this.
CopyToBak == bak' = Len(versions) /\ completed' = completed + 1

NodeBacksUp ==
  /\ bak < Len(versions)
  /\ CopyToBak
  /\ UNCHANGED <<googleVars, fileVars, versions, queued, runs, overlapped, reported, restarts>>

-----------------------------------------------------------------------------
(***************************************************************************)
(* The settings: ChannelsBackupSettingsActivity.                           *)
(***************************************************************************)

\* Switched off: the access is revoked, which may fail; the preference is
\* cleared in either case.
applyGdriveAccessDenied ==
  /\ account /\ enabled
  /\ account' \in IF Failures THEN BOOLEAN ELSE {FALSE}
  /\ enabled' = FALSE
  /\ UNCHANGED <<nodeVars, fileVars, grants, queued, runs, overlapped, reported, restarts>>

\* Switched on, or the screen is opened while there is an account: a new backup
\* is asked for if the preference was not set.  The preference is set once the
\* Drive files could be listed; otherwise access counts as denied.
applyGdriveAccessGranted ==
  /\ ~enabled /\ versions # << >>
  /\ grants < MaxGrants /\ grants' = grants + 1
  /\ \/ account' = TRUE /\ enabled' = TRUE
     \/ Failures /\ account' \in BOOLEAN /\ enabled' = FALSE
  /\ CopyToBak
  /\ UNCHANGED <<fileVars, versions, queued, runs, overlapped, reported, restarts>>

-----------------------------------------------------------------------------
(***************************************************************************)
(* Scheduling.                                                             *)
(***************************************************************************)
Running(r) == runs[r].pc # "idle"

\* Mutant: the policy is KEEP.
BackupCompletedKeeps ==
  /\ completed > 0
  /\ completed' = completed - 1
  /\ queued' = (\A r \in Runs : ~Running(r))
  /\ UNCHANGED <<googleVars, fileVars, versions, bak, runs, overlapped, reported, restarts>>

\* NodeSupervisor hears of the backup.  scheduleWorkASAP replaces the work of
\* the same name: what is queued never runs, what is running is cancelled.
BackupCompleted ==
  /\ completed > 0
  /\ completed' = completed - 1
  /\ queued' = TRUE
  /\ runs' = [r \in Runs |-> [runs[r] EXCEPT !.cancelled = Running(r)]]
  /\ UNCHANGED <<googleVars, fileVars, versions, bak, overlapped, reported, restarts>>

\* WorkManager starts the work, two seconds later at the earliest.
StartWork(r) ==
  /\ queued /\ ~Running(r)
  /\ queued' = FALSE
  /\ runs' = [runs EXCEPT ![r] = [Idle EXCEPT !.pc = "read"]]
  /\ overlapped' = (overlapped \/ \E s \in Runs : Running(s))
  /\ UNCHANGED <<nodeVars, googleVars, fileVars, reported, restarts>>

\* The process dies.  Work that is queued, or was running and not cancelled, is
\* run again; events are lost.
Restart ==
  /\ restarts < MaxRestarts
  /\ restarts' = restarts + 1
  /\ completed' = 0
  /\ queued' = (queued \/ \E r \in Runs : Running(r) /\ ~runs[r].cancelled)
  /\ runs' = [r \in Runs |-> Idle]
  /\ UNCHANGED <<googleVars, fileVars, versions, bak, overlapped, reported>>

-----------------------------------------------------------------------------
(***************************************************************************)
(* ChannelsBackupWorker.doWork.                                            *)
(***************************************************************************)

\* The .bak file is read, and Google Drive is used if there is an account; the
\* preference is not consulted.
getEncryptedBackup(r) ==
  /\ runs[r].pc = "read"
  /\ \/ runs' = [runs EXCEPT ![r].content = bak, ![r].pc = IF account THEN "list" ELSE "open"]
     \/ Failures /\ runs' = [runs EXCEPT ![r] = Idle]
  /\ UNCHANGED <<nodeVars, googleVars, fileVars, queued, overlapped, reported, restarts>>

\* An authentication error clears the preference.
DriveFails(r) ==
  /\ runs' = [runs EXCEPT ![r].drive = "failed", ![r].pc = "open"]
  /\ enabled' \in IF account THEN {enabled, FALSE} ELSE {FALSE}
  /\ UNCHANGED <<account, grants>>

\* The most recent file, or 0.
filterBestBackup ==
  IF drive = << >> THEN 0
  ELSE CHOOSE f \in DOMAIN drive : \A g \in DOMAIN drive : drive[f].date >= drive[g].date

\* The account is looked up again, and the Drive file to update.
listBackups(r) ==
  /\ runs[r].pc = "list"
  /\ \/ /\ account
        /\ runs' = [runs EXCEPT ![r].file = filterBestBackup, ![r].pc = "upload"]
        /\ UNCHANGED googleVars
     \/ (Failures \/ ~account) /\ DriveFails(r)
  /\ UNCHANGED <<nodeVars, fileVars, queued, overlapped, reported, restarts>>

Uploaded(r) ==
  LET f == [content |-> runs[r].content, date |-> clock + 1] IN
  IF runs[r].file = 0 THEN Append(drive, f) ELSE [drive EXCEPT ![runs[r].file] = f]

\* createBackup or updateBackup.  A request that fails may have been executed.
upload(r) ==
  /\ runs[r].pc = "upload"
  /\ \/ /\ runs' = [runs EXCEPT ![r].drive = "saved", ![r].pc = "open"]
        /\ drive' = Uploaded(r) /\ clock' = clock + 1
        /\ UNCHANGED googleVars
     \/ /\ Failures \/ ~account
        /\ DriveFails(r)
        /\ \/ drive' = Uploaded(r) /\ clock' = clock + 1
           \/ UNCHANGED <<drive, clock>>
  /\ UNCHANGED <<nodeVars, queued, local, overlapped, reported, restarts>>

\* saveBackupFile truncates the file it opens.
openLocal(r) ==
  /\ runs[r].pc = "open"
  /\ \/ /\ runs' = [runs EXCEPT ![r].pc = "write"]
        /\ local' = [content |-> Torn, date |-> clock + 1]
        /\ clock' = clock + 1
     \/ /\ Failures
        /\ runs' = [runs EXCEPT ![r].pc = "finish"]
        /\ UNCHANGED <<local, clock>>
  /\ UNCHANGED <<nodeVars, googleVars, queued, drive, overlapped, reported, restarts>>

writeLocal(r) ==
  /\ runs[r].pc = "write"
  /\ \/ /\ runs' = [runs EXCEPT ![r].local = TRUE, ![r].pc = "finish"]
        /\ local' = [content |-> runs[r].content, date |-> clock + 1]
        /\ clock' = clock + 1
     \/ /\ Failures
        /\ runs' = [runs EXCEPT ![r].pc = "finish"]
        /\ UNCHANGED <<local, clock>>
  /\ UNCHANGED <<nodeVars, googleVars, queued, drive, overlapped, reported, restarts>>

Successful(r) == runs[r].local \/ runs[r].drive = "saved"

handleResult(r) ==
  /\ runs[r].pc = "finish"
  /\ reported' = IF Successful(r) THEN Max({reported, runs[r].content}) ELSE reported
  /\ runs' = [runs EXCEPT ![r] = Idle]
  /\ UNCHANGED <<nodeVars, googleVars, fileVars, queued, overlapped, restarts>>

doWork(r) ==
  \/ getEncryptedBackup(r) \/ listBackups(r) \/ upload(r)
  \/ openLocal(r) \/ writeLocal(r) \/ handleResult(r)

-----------------------------------------------------------------------------
Next ==
  \/ NodeChanges \/ NodeBacksUp \/ applyGdriveAccessDenied \/ applyGdriveAccessGranted
  \/ BackupCompleted \/ Restart
  \/ \E r \in Runs : StartWork(r) \/ doWork(r)

Spec == Init /\ [][Next]_vars

\* The actor handles its messages, enqueued work is started and a started thread
\* runs.
FairSpec ==
  /\ Spec
  /\ WF_vars(BackupCompleted)
  /\ WF_vars(\E r \in Runs : StartWork(r))
  /\ \A r \in Runs : WF_vars(doWork(r))

-----------------------------------------------------------------------------
(***************************************************************************)
(* What a restoration would find now.                                      *)
(***************************************************************************)
Scan(file) ==
  CASE file.content = None -> NotFound
    [] file.content = Torn -> BackupScanFailure
    [] OTHER -> BackupScanOk(versions[file.content], file.date)

DriveFile == IF drive = << >> THEN [content |-> None, date |-> 0] ELSE drive[filterBestBackup]

FileOf(t) == IF t = "LOCAL" THEN local ELSE DriveFile

Scans == [t \in BackupTypes |-> Scan(FileOf(t))]

Restored == findBestBackup(Scans)

ContentOf(t) == IF t \in BackupTypes THEN FileOf(t).content ELSE None

(***************************************************************************)
(* Properties.                                                             *)
(***************************************************************************)

\* As long as workers do not overlap, what is restored (findBestBackup) is not
\* older than what a worker has reported as saved, unless the user is told that
\* a backup is unreadable: neither a save that has failed half-way nor the death
\* of the process gives an old backup the better date or the better score.
RestoreIsFresh ==
  ~overlapped => \A t \in Restored : t # "unreadable" => ContentOf(t) >= reported

\* "Prefer commitments over timestamp if same channels" (RestoreBackupTest): of
\* two backups with the same channels the later version is restored, whatever
\* overlapping workers have done to their dates.
NewerCommitmentsWin ==
  LET l == local.content
      g == DriveFile.content IN
  l > 0 /\ g > 0 /\ DOMAIN versions[l] = DOMAIN versions[g] /\ versions[l] # versions[g]
    => \A t \in Restored : ContentOf(t) = Max({l, g})

\* Once the backup of a version is scheduled, or announced to a process that
\* will not die, the device ends up with that version or a later one: replacing
\* the work (scheduleWorkASAP) loses no backup, and the work survives the death
\* of the process.  A file that it has left torn is written again.
ScheduledIsSaved ==
  /\ \A n \in 1 .. MaxVersions :
       (queued \/ (completed > 0 /\ restarts = MaxRestarts)) /\ bak = n ~> local.content >= n
  /\ local.content = Torn ~> local.content # Torn
=============================================================================
