-------------------------- MODULE MCRestoreBackup --------------------------
(* Model checking of RestoreBackup: of two backups of a channel the later   *)
(* file has the older commitment.                                           *)
EXTENDS RestoreBackup

TwoBackups == {BackupScanOk([a |-> 2], 1), BackupScanOk([a |-> 1], 2)}
=============================================================================
