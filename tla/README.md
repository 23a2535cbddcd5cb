# eclair-mobile: TLA+ models, TLC runs and TLAPS proofs

eclair-mobile is an Android wallet that embeds an eclair Lightning node and an
Electrum on-chain wallet. The node itself (eclair-core) is a library and is not in
this repository. What the repository contains is the application around it: the
screens, a payment table and a channel table of its own, the actors that copy the
node's events into these tables, background workers, and the channels backup. This
directory models that application code, and the parts of the vendored SQLite on which
the safety of the wallet's files rests: the pager and the online backup. Paths below are relative to
`src/app/src/main/java/fr/acinq/eclair/wallet/`.

## 1. Inventory

| Component | State | Operations | What is hard about it |
|---|---|---|---|
| Payment table (`DBHelper`, `models/Payment`) | one row per (type, reference); status INIT, PENDING, PAID, FAILED | getPayment, insertOrUpdatePayment, updatePaymentPending/Paid/Failed/Received, cleanLightningPayments, cleanUpZeroConfs | read-then-write from several threads and actors, no transaction; GreenDAO shares objects; INSERT OR REPLACE |
| Sending over Lightning (`SendPaymentActivity.sendLNPayment`, `App.sendLNPayment`) | the thread's position and the Payment object it holds | look up, test, save as INIT, tell the payment initiator | check-then-act on a background thread |
| `NodeSupervisor` (actor), payment events | mailbox | ChannelSignatureSent, ChannelRestored, PaymentFailed, PaymentSent, PaymentReceived | late and stale events, events lost with the process |
| `NodeSupervisor`, channel events | `activeChannelsMap`, the channel table | ChannelCreated, ChannelIdAssigned, ChannelStateChanged, Terminated, ... | map read by UI threads; order of Terminated and state changes |
| Send screen (`SendPaymentActivity`, `PinDialog`, `BiometricHelper`) | displayed step, invoice, isProcessingPayment, dialogs | read invoice, tap, PIN keys and delayed confirmation, biometric callbacks, lifecycle | callbacks that arrive late or never |
| Receive screen (`ReceivePaymentFragment`, `LightningQRCodeTask`, `PaymentRequestParametersDialog`) | form, current request, isGeneratingLightningPR | generate, show, edit, refresh if paid | a thread and the main thread write the same fields; a second task draws the image |
| On-chain payments (`ElectrumSupervisor`, `App.handleWalletReadyEvent`, `HomeActivity`) | on-chain rows, electrumState, balance on display | TransactionReceived, TransactionConfidenceChanged, WalletReady, ElectrumDisconnected | events before their transaction, unconfirmed rows dropped at start-up, a state set in two steps |
| Start-up (`StartupActivity`, `StartupTask`, `App.checkupInit`) | wallet files, seed, isStartingNode, AppKit | datadir check, restore check, PIN, start the node, its result | asynchronous start racing the activity's life; actors with fixed names |
| SQLite's pager (`cpp/sqlitejdbc/sqlite3.c`) | database file, rollback journal, locks, page caches | lock, read, write, spill, sync, commit, roll back, hot journal | loss of power between any two syncs; locks taken and looked at in several steps |
| SQLite's online backup (`sqlite3_backup_*`, `NativeDB.c`) | position, destination, update list of the pager | init, step, update, restart, finish | the source is written between two steps |
| Channels backup (`ChannelsBackupWorker`, `LocalBackupHelper`, `BackupHelper`) | local file, Google Drive files | doWork, save, list | partial failure, a cancelled worker that keeps running |
| Backup restoration (`RestoreChannelsBackupActivity`) | scan results, best backup, displayed step | request access, scan, choose, move the file | asynchronous scan results, several scans in flight |
| Background checks (`CheckElectrumWorker`, `NetworkSyncWorker`, `BootReceiver`) | preferences | doWork | a kit started twice; freshness of a check |
| `RefreshScheduler` (actor) | awake / asleep | REFRESH, WAKE_UP | a refresh dropped while asleep |
| Seed file and PIN (`WalletUtils.writeSeedFile`, `EncryptedSeed`, `EclairActivity.encryptWallet`) | seed file, temporary file | write, rename, re-encrypt | a crash between two file operations |
| Rates, fees, formatting, adapters, settings screens, notifications | - | - | none of it branches on shared state; not modelled |

How they interact: a screen starts threads, which write the tables and tell the node's
actors; the node publishes events on Akka's event stream; the supervisors write them
into the tables and ask the refresh schedulers to make the home screen read them again.
`BackupCompleted` of the node schedules the backup worker. Nothing but the tables, the
files and the preferences survives the death of the process.

What makes each modelled component correct, and what can break it, is listed with its
line under `hazards` in PROJECT.json.

## 2. Modules

| Module | Models | Properties |
|---|---|---|
| `PaymentStore` | Lightning rows of the payment table and `DBHelper`'s operations | (used by Payments) |
| `Payments` | sendLNPayment threads, the node's attempts, NodeSupervisor's payment events, restarts | see below |
| `MCPayments` | small instances of Payments | |
| `PaymentsProofs` | theorems about Payments | |
| `SendPaymentScreen` | one send screen with its dialogs | see below |
| `SendPaymentScreenProofs` | theorems about `SendPaymentScreen` | |
| `BackupChoice` | sortBackupDateDesc and findBestBackup, as operators | (used by the next two) |
| `Backups`, `MCBackups` | the node's .bak file, the backup worker and its scheduling, the Drive settings | see below |
| `RestoreBackup`, `MCRestoreBackup` | the restoration screen | see below |
| `BackupProofs` | theorems about `BackupChoice`, `Backups` and `RestoreBackup` | |
| `AtomicStore` | abstract: a store whose transactions commit or vanish as a whole | (implemented by Pager) |
| `Pager` | SQLite's pager, its locks, its journal, crashes | `CommitsAreAtomic`, `ReaderSeesCommitted` |
| `SqliteBackup` | the online backup on top of `Pager`, and its native wrapper | `BackupKeepsUp`, `BackupIsSnapshot` |
| `SqliteProofs` | theorems about `Pager`, its refinement of `AtomicStore`, and `SqliteBackup` | |
| `SeedFile` | the seed file, its temporary file, the keystore's key and the PIN | `SeedOpens` |
| `Startup` | the start-up screen, its threads and tasks; extends `SeedFile` | see below |
| `StartupProofs` | theorems about `SeedFile` and `Startup` | |
| `RefreshScheduler` | the actor that thins out refreshes | (used by the next two) |
| `Channels` | the supervisor's map of channels, the channel table, the Lightning balance | see below |
| `ChannelsProofs` | theorems about `Channels` | |
| `OnchainPayments`, `MCOnchainPayments` | the on-chain rows, `electrumState`, the on-chain balance | see below |
| `OnchainPaymentsProofs` | theorems about `OnchainPayments` | |
| `ReceivePayment`, `MCReceivePayment` | the Lightning pane of the receive screen | see below |
| `ReceivePaymentProofs` | theorems about `ReceivePayment` | |

### PaymentStore and Payments

`models/Payment.java` declares a unique index on (type, reference), so a payment hash
has one row at most, and `insertOrUpdatePayment` is `INSERT OR REPLACE`: saving a second
Payment object for a hash deletes the row of the first. GreenDAO's session gives all
readers of a row the same object, and a thread that holds an object whose row was
replaced may still save it. The entry of a hash is therefore the set of objects that
exist for it (`status`, by a name that stands for the row id) and the one that is the
row (`row`). Amounts, dates and preimages are left out: no branch depends on them. Reuse
of a deleted row's id is not modelled.

`Payments` follows each call of `sendLNPayment` from its thread, one step per shared
access (`Lookup`, `CheckBusy`, `CheckPaid`, `CheckFailed`, then `Retry` or `Insert`, then
`Send`), to the attempt in the node (`routing`, `htlc`, and `sent` or `failed`). The
three tests are separate steps because each calls `getStatus()` on the shared object
again. The node is external: it signs the HTLC (possibly again), and ends an attempt
once; its rerouting is invisible here. `NodeSupervisor` handles an event in two steps:
`onReceive` looks the row up, and `Receive...` tests and writes. Test and write are one
step because the actor is the only writer of PENDING, PAID and FAILED. Events of
different node actors reach its mailbox in no particular order, so the mailbox is a set.
`Restart` is the death of the process at any point followed by `checkupInit`: threads,
screens, events and unsigned attempts are gone, the INIT rows are erased, and the node
announces the restored channels that hold HTLCs.

Bounds: `Calls` (two or three calls of sendLNPayment; two are needed for a race, three
for a race after a failed attempt; the proofs cover any number, of any hashes), `Ids` (as many objects as calls, so that `Insert`
never blocks), `MaxRestarts`, and `Overlap`, which says whether a call may start while
the thread of another runs. `SendPaymentScreen` shows that one screen can start two
threads, so `Overlap = TRUE` is the code as it is; `Overlap = FALSE` is the discipline the
checks of `sendLNPayment` are written for.

Fairness (`FairSpec`): a started thread runs (weak); the actor finishes the handler it is
in (weak) and takes every queued message in its turn (strong, because a mailbox kept as
a set does not order it, and other messages may come first each time); the node ends
every attempt (weak: HTLCs have a timeout). Nothing is assumed of the user or of
restarts.

### SendPaymentScreen

All callbacks run on the UI thread, so each is one step; what interleaves is their
order: a second click already queued, PIN confirmations posted 300 ms ahead, the
biometric prompt's result, pausing and resuming, the runnable of `readInvoiceIntent`, the
end of a thread of `sendLNPayment`. `isProcessingPayment` is always followed by
`toggleForm`, so the form is enabled exactly when it is false. The PIN setting and the
kind of text given are fixed per screen and chosen in `Init`. The checks on amounts,
fees and balance are one nondeterministic branch. `mPinDialog` is the field of that name:
a dialog that another has replaced there stays on display and is not dismissed with it.

`checkOnchainBalance` is called by the text watchers for every change of the amount, so by
the user (`EditAmount`; the fiat field and the box that empties the wallet are enabled
even while the form is not) and by `setText` in the setup of an on-chain form, when the
invoice is read again after the screen was stopped or is picked again. When the amount is
above the balance it ends in `handlePaymentError`, which resets `isProcessingPayment`
whatever is being processed. It tests the invoice field before the setup assigns it, so it
has no effect on the first reading.

Two cases have to be told from the rest, and two history variables do.

- `hurried`: the user has acted while a confirmation was pending. A confirmation reads the
  digits that the dialog holds 300 ms later and is never removed, so a dialog can confirm
  twice, or after it was cancelled. Nothing about what is sent holds then; only the second
  half of `FormFollowsPayment` does.
- `interrupted`: the screen was paused, or a prompt ended without an answer. The dialog of
  the pause is gone without its listener, which leaves the form disabled, so the first half
  of `FormFollowsPayment` alone is promised from then on; and a screen that comes back may read
  its invoice again while a prompt is up, a thread runs or a dialog is opened again, and
  enable the form under it. Only an invoice field that holds an address lets it do so: with
  a text that is a Lightning invoice nothing changes (`Undisturbed`). With an address alone
  a click that is already queued then opens a second dialog over the first; `AtMostOnePayment`
  still holds if a PIN is required, as one confirmation at most is pending and the payment it
  makes ends the screen, but without a PIN the queued click pays once more. With a text that is
  both, the user can pick the address, and pay it, while the thread of the invoice is
  running. What was given up is not sent in any of these cases (`DroppedIsNotSent`).

Bounds: two accepted taps (two payments are what must not be; the proofs cover any number),
two pending confirmations (two are needed for one dialog to confirm twice).

### BackupChoice and Backups

A backup is known by the version of the node's database it is a copy of, and a version
is the local commitment index of each channel. The score of a comparison is a Java short;
`CommitIndexMap` keeps backups to the channels it can count (`MaxShort`), below which it
does not wrap. The node is external: it changes its
database, copies it to the .bak file and announces `BackupCompleted`.
`NodeSupervisor`'s handler is `BackupCompleted`, which replaces the unique work. A
`doWork` is a sequence of steps, one per access to something that others can see: read
the .bak file, list the Drive files, upload, open (and truncate) the local file, write
it, report. The early returns for a missing database, name or key cannot occur after a
BackupCompleted and are left out. `Restart` is the death of the process: WorkManager
(external) runs queued and uncancelled work again, events in memory are gone. Two
workers that have the local file open at once write it in turn; a mixture of their
bytes is not modelled. The state after `SetupChannelsBackupActivity` is the initial
state. What a restoration would find is a function of the files (`Restored`), by the
same operators that `RestoreBackup` uses.

Bounds: two channels and two versions, so that one version can be ahead of, have more
channels than, or have fewer channels than the other; `MaxIndex` 2; one restart and one
grant of Drive access. Two `Runs` can overlap, as in the code; one `Run` is what the
two-second delay is meant to give. The variable `overlapped` records that two did:
`RestoreIsFresh` promises nothing from then on. All dates come from one clock; clocks that
differ would leave `RestoreIsFresh` to chance when two backups hold different channels,
which are told apart by date alone.

Fairness: the actor handles its messages, WorkManager starts enqueued work, a started
thread runs (all weak). Nothing is assumed of the node, the user or restarts.

### RestoreBackup

Each callback of the UI thread is a step, and so are the accesses of the scanning and
restoring threads to the shared map, the temporary files and the database. `scans`
holds, per scan, its thread, its Drive request and its posted `checkScanningDone`. A
callback that finds nothing done posts itself again, which leaves the state as it is.
Decryption either succeeds or fails, before or after the temporary file is written.
`FOUND_WITH_CONFLICT` differs from `FOUND` in a text only, and is merged with it. A file
from the picker has the date 0, as in the code. Buttons are enabled where the layout
shows them. An uncaught exception in the restoring thread ends the application.

Bounds: two scans, of two possible backups: a recent file with an old commitment and an
old file with a newer one. The variables `refused` and `abandoned` record that Drive has
refused the access just granted, and that the picker was left without a choice; the
properties that need to exclude this say so.

Fairness: threads run, Google answers, posted callbacks run, and the picker does not stay
open for ever (all weak). Left without a choice, the picker leaves the progress bar for
good.

### AtomicStore, Pager and SqliteBackup

The node's channels live in an SQLite database whose sources are in this repository, and
the file that `Backups` copies is made by SQLite's online backup. `Pager` models the
default modes, which are the ones in use (journal deleted at commit, full sync, normal
locking): the five lock levels of `os_unix.c` (`eLock`), the state of each pager
(`eState`), its cache, the change counter by which the cache is validated (`vers`), the
journal with its two syncs, spills of dirty pages, the two phases of a commit, rollback,
and the rollback of a hot journal by the next reader. A call that takes several system
calls is several steps (`pc`), so that other connections come in between. `disk` is, for
each page, the set of contents that a loss of power may leave; a sync makes it a
singleton. A deleted journal may come back after a loss of power (`ghost`), because its
deletion is not synced.

`AtomicStore` says what all this is for: there is one image, a transaction replaces it in
one step, and a loss of power undoes at most the last transaction, as a whole. `Pager`
implements it under a mapping of two functions of the files: `Image`, what the file would
be once its journal has been rolled back, and `Previous`, what it would be if the last
deleted journal came back. The commit is the deletion of the journal. `CommitsAreAtomic`
is the refinement, `ReaderSeesCommitted` its complement for readers, whose cache could be
stale.

`SqliteBackup` adds the backup object: `phase`, `iNext`, `rc`, whether the source's pager
knows it (`attached`), and the destination. It copies while other threads write through
the same connection (`backupUpdate` copies the page again) and while other connections
write to the file (the dropped cache restarts the backup). `BackupIsSnapshot` says that
a call that returns OK has left one committed image. The progress observer is left out.

Bounds: two connections, as one writer and one reader or two writers; two pages, of which
page 1 holds the change counter, so that an image can be half written; one page per step
of the backup (100 in the code), so that it is interrupted; two transactions, a crash and
a backup. The code has no fairness to offer here, since a lock may be refused for ever:
no liveness is claimed.

### SeedFile and Startup

A seed file is known by the PIN that opens it (or none). `writeSeedFile` writes a
temporary file and renames it; `encryptWallet` deletes the keystore's key of the old PIN
afterwards. Each file operation is a step and the process may die between any two.

`Startup` follows the main thread (`onResume` with all its checks is one step, as it is
on the main thread; what it has posted or started comes later), the threads of
`launchStartupTask`, which decrypt the seed, and the one background thread of AsyncTask
that runs `StartupTask`s in turn: shutdown of the previous kit, opening of the databases,
creation of the named actors, the node's own start. The result is an event that finds the
screen that is there, a later one, or none. `nodes` counts the nodes in the actor system,
`taken` says that its names are in use. The restoration of channels is the screen of
`RestoreBackup`, reduced here to the preference it sets.

Bounds: two threads, one departure or closing of the screen, one failure of any kind, one
death, two writes of the seed: two starts can be under way, each of them can fail, and
the user can be away when it ends. `overlap` records that two starts were under way.

Fairness (`FairSpec`, all weak): the threads of the program go on; the user comes back,
answers what is asked, in the end with the right PIN, and presses the restart button if
that is all there is.

### RefreshScheduler, Channels and OnchainPayments

`RefreshScheduler` is the actor's two behaviours, with its mailbox and its timer. Two
REFRESH in a row in the mailbox have the effect of one and are kept as one.

In `Channels` the node is external: it stores its channels, publishes each event once
into the supervisor's mailbox (one queue, since it publishes synchronously and Terminated
comes last), and restores its stored channels after a restart. The supervisor's handlers
are the actions. `ChannelStateChanged` takes two steps because the main thread reads the
map's entries while it changes them; the other handlers set one such field, or set them
before the entry is in the map. `lost` records the channels some of whose events died
with the process.

In `OnchainPayments` the wallet is external: it names a transaction before it has it,
gets it, confirms it or sees it replaced, and after a lost connection names all of them
anew. The events arrive in the order they were sent. `handleWalletReadyEvent` sets the
two balances in two steps. Without a state from the wallet the home screen adds up the
rows instead. `cleaned` records what was replaced before the process was last started.

`App.checkupInit` deletes the unconfirmed rows in every `StartupTask`, and `Startup` shows
that one process can run several: the second fails on the actors' names, but only after
`checkupInit` (`App.java:653`, `StartupActivity.java:560`), while the actors and the wallet
of the first go on. `checkupInit` is that second task, `Die` the death of the process and
its next first task. The wallet does not name the deleted transactions again before it
reconnects, and a confidence without a row is dropped, so such a payment stays out of the
list even when it has confirmed. `swept` records these transactions; `RowsFollowWallet`
says exactly which rows are missing and for how long.

Bounds: one scheduler (the others make lists be read again and are the same module), two
channels, three changes of channels, one event in the mailbox when another is published,
one death; two transactions, a receipt of 2 and a payment of 1 out of it, so that the
order of their confirmation matters and a replaced receipt takes the payment with it, two
confirmations, two later start-up tasks (each of them a death or not), one lost
connection. At most three messages wait for `ElectrumSupervisor` before the wallet goes on:
what is in the mailbox about a transaction can then still be out of order, lost with the
process or behind a deletion of the rows. A longer mailbox of `Channels` only delays
the same handlers, of which no two depend on more than the channel they are about.

Fairness (all weak): the actors, timers and the main thread go on; the node restores its
channels; the wallet connects again and gets the transactions it has named. The
liveness properties are of the form "once the chain or the node is quiet, the balance
on display is the right one", so they assume nothing of either.

### ReceivePayment

The thread that makes a request runs on AsyncTask's serial executor and writes the
fields of the fragment that the main thread writes too, so its accesses are steps of
their own; what it posts to the main thread is `mainQ`, in order. The second task, which
draws the image, runs on the same executor. The node answers or fails; `NodeSupervisor`
records a payment, and the channels' scheduler (its delay is left to chance) makes the
pane be refreshed. Pausing the application changes nothing but the dialog, which it
dismisses.

The screen is the first of the three pages of `HomeActivity`. Its pager keeps one page on
either side: when the third is shown the fragment is detached (`Detach`) and the same
object, with its fields and its binding, is attached again when its page is needed
(`Attach`). Meanwhile `getActivity`, `getContext` and `getApp` return null, and the thread
goes on against the object. Every test of the thread is therefore a step that reads
`attached`: without an activity it begins nothing (line 190 throws), inserts no row (197),
posts no update (216) and no failure (237), but writes the fields (211-214), draws the
image (233) and resets the flag; where it loses the activity between a test and its use it
throws too. `HomeActivity` drops the refresh of a fragment that is not added (537). After the system has
restored the activity, the fragment on display is the restored one and not the one that
`HomeActivity` has made and asks (`heard`), until the pager asks the adapter for the page
again. A runnable that was posted with an activity and runs without one throws in the main
thread: `MainThrows`, a new start of the process.

The variables `raced`, `skipped`, `cut`, `forgotten`, `lost` and `wanted` are the history the
properties need: a confirmed dialog met a generation begun below it; a refresh was
refused while a request was being made; what a generation could not show for want of an
activity; the row was deleted at a restart or never inserted; the event died
with the process; what the dialog was last confirmed with.

Bounds: one entry of the dialog that differs from the default in description and amount,
so that a mixture of two forms shows; two requests; one loss of the process or of the
activity; one detachment, which with the restored activity's is enough for a thread to lose
its activity at each of its tests. The node fails for every request beyond the second;
other failures come from the want of an activity (`MaxFails = 0`), as the thread does the same in both cases.

Fairness (all weak): the executor, the main thread, the actor and the scheduler's event.

## 3. Runs

Most runs switch the deadlock check off: when every call has been used and every event
handled the system stops, as the real one does when the user does nothing. In `receive`
and `onchain` the user or the network can always do something, and deadlock is checked.
`TypeOK` of a module tells the values of its variables. It holds in the instances below,
but only that of `Payments` is among the properties of a run.

| Run | Instance | Shows |
|---|---|---|
| `payments_serial` | 1 hash, 2 calls, no overlap, no restart, `FairSpec` | `NoDuplicateAttempt`, `TableMatchesNode`, `PaidIsFinal`, `AttemptResolves` |
| `payments_chaos` | 1 hash, 3 calls, overlap, 1 restart | `OutcomeIsReal`, `PaidNeverDowngradedByNode` |
| `payments_overlap` | 1 hash, 2 calls, overlap | `NoDuplicateAttempt` is violated |
| `screen_calm` | 2 taps, 2 pending confirmations, any interruption | `AtMostOnePayment`, `DroppedIsNotSent`, `FormFollowsPayment` |
| `backups_safe` | 2 channels, 2 versions, 2 workers, failures, 1 restart, 1 grant | `RestoreIsFresh`, `NewerCommitmentsWin` |
| `backups_live` | 2 channels, 2 versions, 1 worker, 1 restart, 1 grant, `FairSpec` | `ScheduledIsSaved` |
| `restore_scan` | 2 possible backups, 2 scans, `FairRestoreSpec` | `OfferedIsNotDominated`, `ConfirmWorks`, `RestoredIsConfirmed`, `ScanEnds` |
| `sqlite_backup` | 2 connections, 2 pages, 2 write transactions, 1 crash, 1 backup | `ReaderSeesCommitted`, `CommitsAreAtomic` (the refinement), `BackupKeepsUp`, `BackupIsSnapshot` |
| `startup` | 2 start threads, 2 PINs, 2 writes of the seed, 1 departure, failure and death each, `FairSpec` | `SeedOpens`, `OneNode`, `ReadyIsRunning`, `RestoreComesFirst`, `NobodyWaitsInVain`, `WalletStarts` |
| `channels` | 2 channels, 3 changes, 1 death | `MapFollowsNode`, `TableFollowsNode`, `ClosingIsToldOnce`, `SentOnceIsKept`, `BalanceSettles` |
| `receive` | 2 requests, 1 detachment, 1 death or loss of the activity | `DisplayIsOneRequest`, `ConfirmedIsAsked`, `PaidIsReplaced`, `ReceivedIsRecorded`, `RequestAppears` |
| `onchain` | 2 transactions, 2 confirmations, 2 later start-up tasks, 1 lost connection, 3 messages | `RowsFollowWallet`, `GoneIsForgotten`, `OnchainBalanceSettles` |

`Symmetry` permutes hashes, objects and calls; it is used for safety only.

### What the violation means, and what else was met

- *payments_overlap.* Nothing makes the look-up, the tests and the save of
  `sendLNPayment` one step. Two threads for one invoice (two screens, or one PIN dialog
  that confirms twice) both find no row, or a FAILED one, and both hand the payment to
  the node. The node's own duplicate check is outside this repository.

Other disagreements between the code and its comments, or its evident intent, that were
met and have no run of their own. Where a variable is named, the model reaches the case
and the property that would fail excludes it by that variable.

Sending and backups:

- `SendPaymentActivity.java:466` takes an INIT payment for one that is "in limbo". A row
  stays INIT until the supervisor has handled the signature: if the process dies in
  between, the next start erases the row of a payment that is en route; its outcome then
  finds no row and is ignored, and the invoice can be paid again.
- `SendPaymentActivity.java:467` calls a PENDING payment "guaranteed to resolve". The
  outcome is only an event in memory: if the process dies before it is handled, the row
  stays PENDING and blocks the invoice. (`AttemptResolves` holds without restarts only.)
- `PinDialog.java:70` posts the confirmation 300 ms ahead and never removes it, so a
  dialog can confirm twice, or after it was cancelled (`hurried`).
- `SendPaymentActivity.java:591`: the check of the on-chain balance enables the form whatever is being
  processed. After a second reading of the invoice the form is enabled under an open dialog, though
  `toggleForm` is documented to disable it "if the payment is being processed (or the PIN dialog is
  shown)", and a second payment can be accepted (`Undisturbed`).
- `NodeSupervisor.java:269` means new backup work to replace the old. A `doWork` that
  waits for Google Drive is not interrupted and never looks at `isStopped`; it may write
  the older backup it has read over the newer one (`overlapped`).
- `RestoreChannelsBackupActivity.java:181`: an authentication error clears the results and
  asks for access again, but the polling callback of the first scan stays posted. It may
  handle the results of the second scan before Drive has been scanned, or reset
  `mBestBackup` under a confirmed restoration (the third disjunct of `MoveFile`).
- The worker's comment calls the local backup mandatory and the Drive backup subject to
  the user's preferences; `doWork` succeeds if Drive alone does and never reads the
  preference.
- A file picker that is left without a choice leaves the progress bar for good
  (`abandoned`).
- `onBackPressed` of the restoration screen is meant to keep the user there after a
  restoration and does not.
- A biometric error that is neither the negative button nor the user's cancel, or a pause
  that dismisses the PIN dialog, leaves the send form disabled (`interrupted`).

Start-up:

- The task waits until the cancellation of a background check is recorded, not until the
  check has stopped.
- A second StartupTask in one process fails on the fixed names of the actors, and its
  error resets the application's state although a node is running. After a timeout the
  node keeps running, and every further start fails until the process is restarted.
- A start thread with a wrong PIN clears the keys while the task of another start reads
  them: `NodeSupervisor` may be created without keys (`overlap`).
- With both seed files present the unencrypted one is deleted and the screen stays blank.
- `encryptWallet` reports a failure after the PIN has changed if the key of the old PIN
  cannot be deleted from the keystore.
- `BootReceiver.java:34` says that existing work is kept; the workers replace it.

Channels:

- Each refresh of `ChannelsListFragment` reads the map in a thread of its own: an older
  reading may be shown last.
- `NodeSupervisor.java:347` says the user "has already been alerted" of a channel that was
  closing at the last stop; not if the process died before the event was handled (`lost`).
  If it dies before Terminated is handled, the row stays active for ever.
- The documentation of `LocalChannel.fundsAreAccountedFor` (line 130) names, after "true
  if", the states for which the method returns false.
- A payment received without a row makes the supervisor post an LNPaymentSuccessEvent
  without a payment, on which the home screen's handler throws; EventBus catches it.

Receiving:

- Values confirmed in the dialog while a generation that began below it is running are
  lost or mixed with its own (`raced`). While a request is being made, and after a
  failure, the image and the share button still give the previous one, which may have
  been paid; a refresh that is skipped meanwhile may leave it there (`skipped`).
- A fragment that the pager has detached goes on with its generation: the request gets no
  row (`ReceivePaymentFragment.java:197`) and, if it is paid, is recorded without its description
  (`forgotten`); its image is shown over a text that stays at "wait" (216, `cut = "update"`), and nothing is
  generated again as there is a request; a failure is not shown and leaves the request before it (237,
  `cut = "failure"`).
- `HomeActivity.java:537` drops the refresh of a fragment that is not added. Coming back to the page
  refreshes it; but after a restoration of the activity the fragment on display is not
  the one that is asked, and a paid request stays until the screen is resumed (`heard`).
- A runnable that was posted with an activity and runs without one throws in the main thread
  (`MainThrows`).
- A request that is paid after a restart is recorded without its description.

On-chain:

- `App.checkupInit` deletes the unconfirmed rows "to get a clean slate before connecting to an
  electrum server" (`App.java:652`); in a second StartupTask of the process the server is
  connected already, and the payments stay out of the list until it reconnects (`swept`).
- The row of a replaced transaction stays until the next start. With a late server the
  balance is read again only when a transaction is received. A balance that is read while
  the two parts are being set may count a transaction twice for a moment.

SQLite and its binding:

- The comment of `NativeDB.c:1406` announces five pages every 250 ms and a progress
  callback; the function copies 100 pages per step, without a pause, and calls nothing.
- `restore` returns the error code of the source, though errors are recorded in the
  destination. Nothing calls it.

## 4. Proofs

`PaymentsProofs` proves, for any sets of hashes, objects and calls:

- with overlapping threads and any number of restarts: `TypeCorrect`, `OutcomeCorrect`
  (`OutcomeIsReal`) and `NoDowngradeByNode` (`PaidNeverDowngradedByNode`);
- for `Overlap = FALSE` and `MaxRestarts = 0`: `NeverSentTwice` (`NoDuplicateAttempt`),
  `TableTruthful` (`TableMatchesNode`) and `PaidForGood` (`PaidIsFinal`).

The first three rest on `GInv`. `OutcomeIsReal` alone is not inductive: a row becomes
PENDING, PAID or FAILED through an event, so `EventsReal` ties every event to what its
attempt did; the handler writes the object it looked up, so `HandlerKnows` says that
this object, even when another thread has replaced its row, carries a status that was
real; `HeldRow` and `StartedHasHash` say that threads hold objects that exist. The last
three rest on `SInv`, which adds that the handled object is the row (`HandledIsRow`), that
a thread past its tests knows no attempt is outstanding (`ThreadKnows`: this is what the
checks of sendLNPayment establish, and what an overlap destroys), and that an
outstanding attempt is alone (`CallsInv`). The only assumptions are those named in the
modules: `Null` is none of the other values, `Overlap` is a Boolean and `MaxRestarts` a
natural number; TLC evaluates them in every run of `MCPayments`.

`SendPaymentScreenProofs` proves `ScreenSendsOnce` (`AtMostOnePayment`), `ScreenDropsForGood`
(`DroppedIsNotSent`) and `ScreenFormFollows` (`FormFollowsPayment`) for any number of
attempts, dialogs and confirmations, from `ScreenAssumption` alone (the bounds are naturals).
`ScreenInv` is the type invariant, what is displayed (`DisplayInv`), what the attempts are for
(`KindInv`), and, unless the user has been `hurried`, `CalmInv`. An attempt is alive in a
dialog, a prompt or a pending confirmation. Whatever interrupts the screen, one attempt at
most has a confirmation pending, and one that was sent or given up is never alive again
(`Own`, `OneConfirms`). `OneAlive`, one attempt alive and the form disabled meanwhile, is what the code
relies on without saying so; it can fail only after an interruption of a screen with an
address alone. `Single` adds that no other was sent, and `SentLast` is what is left of it for an address
with a PIN, where the first payment ends the screen.

`BackupProofs` has three parts.

- *The choice.* `DominantWins` and `BeatsAsymmetric` reduce the score to the cardinalities of
  the channels on which the challenger is ahead and behind. The loop of `findBestBackup`
  runs over the entries of a map with two possible keys, so what it returns is proved
  without induction: `OrderOfTwo` lists the orders, `BestOfTwo` unfolds the recursive
  function of `Best`, and `BestIsKept` says that no readable backup beats the one that is
  kept, which is also the most recent unless it beats the most recent.
- *The worker.* `RestoreIsAlwaysFresh` and `NewerCommitmentsAlwaysWin`, for any channels,
  versions, workers, restarts and failures, by `BackupsInv`. A version of the database is
  nowhere behind an earlier one (`VersionsInv`), files have dates of their own and hold what
  has been in the .bak file (`FilesInv`), and, as long as no two workers have overlapped,
  the one that has read the .bak file holds a version at least as recent as everything saved
  or reported, and the file written last is the most recent unless the local one is torn
  (`FreshInv`). The second theorem does not use `FreshInv`: overlapping workers can date an
  old version last, and the commitments still decide.
- *The restoration screen.* `ConfirmAlwaysWorks`, `RestoredIsAlwaysConfirmed` and the action
  property `OfferedIsNeverDominated`, for any possible backups and number of scans, by
  `RestoreInv`. `StageInv` says that each step of the screen has one activity behind it at
  most: an access request, one scan or the file picker, so that no left-over callback can
  replace `mBestBackup` while a result is on display. `FileInv` says that the decrypted file
  of a source is that of its result until it is moved. Both hold until Google Drive refuses
  an access it had granted, which is where a second scan can start beside the callback
  of the first; `OfferedIsNeverDominated` holds regardless.

The assumptions are `BackupsAssumption` and `RestoreAssumption`: finitely many channels, at
most `MaxShort`, and possible backups that are commitment maps with a date.

`SqliteProofs` proves, for any pages, connections, transactions and crashes, with and
without the online backup beside them: a connection with a read lock sees what is committed
(`ReaderSeesCommitted`), and the pager implements `AtomicStore` (`CommitsAreAtomic`): initial
states map to initial states, and every step to a step of the store or a stutter. For the
backup it proves `BackupKeepsUp` and the action property `BackupIsSnapshot`. The invariant
`PagerInv` has these parts:

- `LockInv`: which lock a connection has follows from where it is in the code; RESERVED and
  above are held by one connection, EXCLUSIVE beside no other.
- `JournalInv`: a journal, the current one or one whose deletion is not yet on the disk,
  restores the committed image, and no page has been overwritten that the synced
  header of the journal does not count. This is why the two syncs of `syncJournal` are in
  the order they are.
- `AgeInv`: the committed image is older than the one of an open transaction.
- `ConnInv`: a cache is stale only if the change counter in the file shows it; a reader's cache
  is the file's; a writer's cache and what it has saved for a rollback are those of its
  transaction.

`BackupInv` adds `CopyInv`: what has been copied is committed, or waits in the cache of the
connection that will tell the backup, or the change counter will make it start over. The
assumptions are `PagesAssumption`, `BoundsAssumption`, `SrcAssumption`, `StepAssumption` and
`NumberedAssumption` (pages are the numbers from 1).

`StartupProofs` proves five invariants of `Startup` for any PINs, any number of threads, and
any bounds on departures, failures, writes and deaths:

- `NeverTwoNodes` (`OneNode`) by `NodeInv`: a node, or a task that is about to start one,
  means that the names of the actors are taken, and a system whose names are taken
  refuses the next task.
- `SeedNeverLost` (`SeedOpens`) by `SeedInv`: the file that takes the place of the old one
  has been checked against the new PIN, between that moment and the answer to the user
  both PINs are taken to be known, and the unencrypted seed is deleted only beside a file.
- `AskedBeforeDatabase` (`RestoreComesFirst`) by `SeedInv` and `RestoreInv`. The decision of
  a start (`Route`) and the creation of the database (`TaskSetsUp`) are several steps of
  two threads apart, so the invariant speaks of every start that is past its decision
  (`Committed`). It also has to say that the wallet such a start has seen is still the one
  that is there: no start is under way before there is a seed (`NoSeedNoStart`), a write
  that makes a wallet finds none (`WriteFitsWallet`), and the preference, which is written
  after the seed, never calls a restored wallet new (`AskedFirst`).
- `ReadyIsAlwaysRunning` (`ReadyIsRunning`) by `ReadyInv`: the node of an app that is ready was
  started with a network database that could be read; and without overlapping starts one
  thread, queued task, running task or result exists at a time (`OneStart`), so that nobody
  clears the keys between their computation and the creation of the supervisor (`KeysAreSet`).
- `NobodyEverWaitsInVain` (`NobodyWaitsInVain`) by `WaitInv`: for each thing a screen may wait
  for, a delayed callback, a seed screen, a start, a result, the step that ends the wait is
  under way (`DelayedInv`, `SeedScreenInv`, `StartingInv`, `ShownInv`), and a screen with nothing
  under way shows an error (`QuietInv`).

The assumptions are `SeedAssumption` (PINs are positive numbers, 0 stands for none) and
`StartupAssumption`, which TLC evaluates in the run `startup`.

`ChannelsProofs` proves `MapAlwaysFollowsNode`, `TableAlwaysFollowsNode`,
`ClosingIsAlwaysToldOnce` and the action property `SentOnceIsAlwaysKept` for any channels,
deaths and restarts. The mailbox of `NodeSupervisor` lags behind the node, so the
invariants are about what is in it: the messages about a channel follow each other as the
life of a channel allows (`Ordered`), the last of them tells the node's present state
(`NewsInv`), and the row of a channel is the one the messages handled so far make (`RowInv`,
`ToldInv`). It follows that only the first messages of a channel, created or restored,
find it absent from the map: the tests for an unknown channel in the other handlers guard
against an order of events that this life does not have.

`ReceivePaymentProofs` proves `DisplayIsAlwaysOneRequest` and `ConfirmedIsAlwaysAsked` by
`ScreenInv`, and `ReceivedIsAlwaysRecorded` and `PaidIsAlwaysReplaced` by `RecordInv`, for any
amounts, requests, payments, detachments and deaths (`ReceiveAssumption`). `PhaseInv` says that one
generation is under way at a time, from the thread to the drawing of the image, which is
what `isGeneratingLightningPR` is for; what may be posted in front of it, with an activity
and without (`Unposted`); and that a second failure is never behind the first while there is
an activity to post it (`Stuck`). `RowsInv`, `Signed` and `PaidInv` tie each request that was shown
to its row, or to the reason that it has none (`Recorded`), and each paid one to its event and the
refresh it causes. A detached screen may miss refreshes; `PaidInv` is about attached
ones, and `Attach` re-establishes it because the page is resumed.

`OnchainPaymentsProofs` proves `RowsAlwaysFollowWallet` and `GoneIsAlwaysForgotten` for any
transactions, depths, deaths and later start-up tasks. `MailInv` and `TxInv` say that the last
message about a transaction of the wallet is up to date (`LastSays`), or its row is if the
mailbox holds none and no later task has deleted it (`swept`), that neither is ahead of the chain, and that a transaction that was gone when
the process started has neither row nor message. `OnchainAssumption` says that amounts, depths
and bounds are numbers and that "none" is not a transaction.

Model-checked only: the seven liveness properties, `AttemptResolves`, `ScheduledIsSaved`,
`ScanEnds`, `WalletStarts`, `BalanceSettles`, `RequestAppears` and `OnchainBalanceSettles`.
They rest on fairness, which is out of the prover's reach, so they are known for the
instances of section 3 only. Every invariant, action property and refinement that a run
checks is also proved. Each inductive invariant was checked with TLC on the instance of its
run before it was proved.

## 5. Not modelled

- eclair-core and the Electrum client: a library; modelled only as far as its events and
  answers are seen here.
- The vendored SQLite but for the pager in its default modes and the online backup: its
  parser, code generator, virtual machine, B-trees, WAL, virtual tables and functions are
  some 220,000 lines of third-party code of which the wallet relies on the outcome only.
  So are the other bindings of `NativeDB.c`, each of which passes one call on, and the AES
  wrapper.
- Background checks of the Electrum wallet and of the network graph: what they decide is
  decided in eclair-core; the rest compares dates with constants.
- Forms that validate an amount and send one command to the node (opening and closing
  channels, on-chain sending); the migration of the database, a sequence of ALTER TABLE.
- The content of messages, amounts beyond what a property tells apart, rates, fees,
  formatting, notifications other than that of a closing, settings, adapters, layouts.
- Reorganisations of the chain, and the expiry of payment requests.

## 6. Plan

What is left, in order of importance.

1. Type correctness of the modules as theorems of their own: the inductive invariants contain
   the types they need, and of `Payments`, `Backups`, `Pager`, `SqliteBackup` and
   `SendPaymentScreen` the whole of it.
2. What the invariants leave out on purpose: the behaviour of `RestoreBackup` after Google
   Drive has refused access, that of `Backups` once workers overlap, and that of
   `SendPaymentScreen` for a user who acts on a pending confirmation; for each, the weaker promise that remains.
3. `App.sendOnchain` and the on-chain half of the send screen, whose decisions are taken
   in eclair-core; the WAL mode of the pager, should the wallet ever switch to it.
