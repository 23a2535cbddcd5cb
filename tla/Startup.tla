------------------------------- MODULE Startup --------------------------------
(***************************************************************************)
(* StartupActivity: from the files on the device to a running node.        *)
(*                                                                         *)
(* Four kinds of threads meet here: the main thread (onResume, dialogs,    *)
(* delayed calls, processStartupFinish), the threads of launchStartupTask  *)
(* that decrypt the seed and fill in the application's keys, the           *)
(* background thread on which the StartupTasks run one after the other,    *)
(* and the node.  The user may leave the screen, close it and open it      *)
(* again, and the process may die, at any time.                            *)
(*                                                                         *)
(* Left out: the network database of versions before 50 that is deleted    *)
(* before the start; the background workers that are scheduled by a start  *)
(* and cancelled by the next.                                              *)
(***************************************************************************)
EXTENDS SeedFile

CONSTANTS Threads,    \* threads of launchStartupTask that may run at once
          MaxLeaves,  \* bound on the times the user leaves or closes the app
          MaxFails,   \* bound on failures: network, node, files, a wrong PIN
          MaxDeaths   \* bound on deaths of the process

ASSUME StartupAssumption == MaxLeaves \in Nat /\ MaxFails \in Nat /\ MaxDeaths \in Nat

VARIABLES
  db,          \* eclair.sqlite exists
  netdb,       \* the network database: "ok", or "bad" if incompatible
  restoreDone, \* the preference SETTING_CHANNELS_RESTORE_DONE
  asked,       \* the user has chosen what to restore
  access,      \* the external storage may be used for backups
  top,         \* the screen in front, "none" if it is of another program
  alive,       \* the StartupActivity: "no", "yes", "closing" once finished
  starting,    \* its field isStartingNode
  main,        \* the main thread: "free", about to call onResume ("resume"),
               \* at the end of processStartupFinish ("finish")
  prompt,      \* the PIN is being asked for
  error,       \* the error on display: "none", "message", "restart"
  delayed,     \* calls of startNode that it has posted with a delay
  orphans,     \* such calls of activities that have been destroyed
  th,          \* the threads of launchStartupTask
  queue,       \* StartupTasks that wait for the background thread
  task,        \* where the running StartupTask is
  events,      \* StartupCompleteEvents posted to the main thread
  keys,        \* App.seedHash and App.backupKey are set
  appKit,      \* App.appKit is set
  taken,       \* the actor system has actors with the names of the wallet's
  supKeys,     \* NodeSupervisor was created with the keys
  nodes,       \* nodes that run in the actor system
  overlap,     \* a start was launched while another was under way
  leaves, fails, deaths

actVars == <<top, alive, starting, main, prompt, error, delayed, orphans>>
taskVars == <<th, queue, task, events>>
appVars == <<keys, appKit, taken, supKeys, nodes>>
fileVars == <<db, netdb, restoreDone, asked, access>>
counters == <<leaves, fails, deaths>>
vars == <<seedVars, fileVars, actVars, taskVars, appVars, overlap, counters>>

Statuses == {"SUCCESS", "NETWORK_ERROR", "TIMEOUT_ERROR", "NETWORK_DB_ERROR", "GENERIC_ERROR"}
FreeThread == [pc |-> "free", pw |-> None, own |-> FALSE]

TypeOK ==
  /\ SeedTypeOK
  /\ db \in BOOLEAN /\ netdb \in {"ok", "bad"}
  /\ restoreDone \in BOOLEAN /\ asked \in BOOLEAN /\ access \in BOOLEAN
  /\ top \in {"startup", "seed", "restore", "setup", "home", "none"}
  /\ alive \in {"no", "yes", "closing"} /\ starting \in BOOLEAN
  /\ main \in {"free", "resume", "finish"} /\ prompt \in BOOLEAN
  /\ error \in {"none", "message", "restart"} /\ delayed \in Nat /\ orphans \in Nat
  /\ th \in [Threads -> [pc : {"free", "decrypt", "route", "execute"},
                         pw : Pins \cup {None}, own : BOOLEAN]]
  /\ queue \in Nat
  /\ task \in {"none", "net", "setup", "actors", "boot"}
  /\ events \in Seq(Statuses)
  /\ keys \in BOOLEAN /\ appKit \in BOOLEAN /\ taken \in BOOLEAN
  /\ supKeys \in BOOLEAN /\ nodes \in Nat /\ overlap \in BOOLEAN
  /\ leaves \in 0 .. MaxLeaves /\ fails \in 0 .. MaxFails /\ deaths \in 0 .. MaxDeaths

ProcessInit ==
  /\ alive = "no" /\ starting = FALSE /\ main = "free" /\ prompt = FALSE
  /\ error = "none" /\ delayed = 0 /\ orphans = 0 /\ th = [t \in Threads |-> FreeThread]
  /\ queue = 0 /\ task = "none" /\ events = <<>>
  /\ keys = FALSE /\ appKit = FALSE /\ taken = FALSE /\ supKeys = FALSE /\ nodes = 0

Init ==
  /\ SeedInit /\ ProcessInit
  /\ db = (real # "none") /\ netdb \in IF db THEN {"ok", "bad"} ELSE {"ok"}
  /\ restoreDone = FALSE /\ asked = FALSE
  /\ access \in BOOLEAN
  /\ top = "none" /\ overlap = FALSE
  /\ leaves = 0 /\ fails = 0 /\ deaths = 0

------------------------------------------------------------------------------
isAppReady == appKit /\ pin # None /\ keys

clearApp == appKit' = FALSE /\ pin' = None /\ keys' = FALSE

Fail == fails < MaxFails /\ fails' = fails + 1

(* A start is under way somewhere. *)
Busy == \/ \E t \in Threads : th[t].pc # "free"
        \/ queue > 0 \/ task # "none"

(* A thread is started that decrypts the seed with password p, for the
   present activity or for one that is gone.  Another start, or a result that
   still waits, is overlapped; the result being handled is not. *)
launchStartupTask(p, mine) ==
  /\ \E t \in Threads :
        /\ th[t].pc = "free"
        /\ th' = [th EXCEPT ![t] = [pc |-> "decrypt", pw |-> p, own |-> mine]]
  /\ overlap' = (overlap \/ Busy \/ events' # <<>>)

finishAndGoToHome == top' = "home" /\ alive' = "closing"

(* startNode: what it shows or starts. *)
startNode ==
  /\ error' = "none"
  /\ CASE isAppReady -> /\ finishAndGoToHome
                        /\ UNCHANGED <<prompt, th, overlap>>
       [] ~isAppReady /\ pin = None -> /\ prompt' = TRUE
                                       /\ UNCHANGED <<top, alive, th, overlap>>
       [] ~isAppReady /\ pin # None -> /\ launchStartupTask(pin, TRUE)
                                       /\ UNCHANGED <<top, alive, prompt>>

(* checkWalletDatadir: it is only when seed.dat is alone that the start goes
   on.  A second, unencrypted seed is deleted and nothing more is done. *)
DeletePlain == plain' = (plain /\ dat = None)

checkup ==
  /\ DeletePlain
  /\ IF plain \/ dat = None
     THEN /\ error' = IF plain /\ dat = None THEN "message" ELSE error
          /\ UNCHANGED <<top, alive, prompt, th, overlap>>
     ELSE startNode

------------------------------------------------------------------------------
(* The screen is shown, by an activity that was paused or by a new one, which
   knows nothing of the threads of an older one. *)
Show ==
  /\ alive # "closing" /\ main = "free"
  /\ top' = "startup" /\ main' = "resume" /\ alive' = "yes"
  /\ \/ alive = "yes" /\ UNCHANGED <<starting, error, th>>
     \/ /\ alive = "no" /\ starting' = FALSE /\ error' = "none"
        /\ th' = [t \in Threads |-> [th[t] EXCEPT !.own = FALSE]]
  /\ UNCHANGED <<seedVars, prompt, delayed, orphans, queue, task, events, appVars, overlap, counters>>

Open == top = "none" /\ Show /\ UNCHANGED fileVars

onResume ==
  /\ main = "resume" /\ main' = "free"
  /\ UNCHANGED <<dat, temp, pin, origin, write, writes, real, known, fileVars, starting,
                 delayed, orphans, queue, task, events, appVars, counters>>
  /\ IF starting THEN UNCHANGED <<plain, top, alive, prompt, error, th, overlap>> ELSE checkup

(* The start-up screen shows a message and waits for nothing. *)
Idle == /\ top = "startup" /\ alive = "yes" /\ main = "free" /\ dat # None /\ write.pc = "idle"
        /\ ~Busy /\ events = <<>> /\ delayed = 0 /\ ~prompt /\ error # "restart"

(* The calls that an activity has posted outlive it. *)
Orphan ==
  IF alive' = "no" THEN orphans' = orphans + delayed /\ delayed' = 0 ELSE UNCHANGED <<delayed, orphans>>

(* The user goes to another program, or closes the screen for good. *)
Leave ==
  /\ main = "free" /\ top # "none" /\ write.pc = "idle"
  /\ IF Idle THEN UNCHANGED leaves ELSE leaves < MaxLeaves /\ leaves' = leaves + 1
  /\ top' = "none" /\ prompt' = FALSE
  /\ \/ alive' = alive
     \/ top = "startup" /\ alive = "yes" /\ alive' = "no"
  /\ Orphan
  /\ UNCHANGED <<seedVars, fileVars, starting, main, error, taskVars, appVars, overlap, fails, deaths>>

(* onDestroy, some time after finish. *)
Destroy ==
  /\ alive = "closing" /\ main = "free" /\ alive' = "no" /\ prompt' = FALSE
  /\ Orphan
  /\ UNCHANGED <<seedVars, fileVars, top, starting, main, error, taskVars, appVars, overlap, counters>>

(* The PIN is typed, or taken from the keystore after a fingerprint. *)
onPinConfirm(p) ==
  /\ main = "free" /\ top = "startup" /\ prompt
  /\ IF p = dat THEN UNCHANGED fails ELSE Fail
  /\ prompt' = FALSE
  /\ UNCHANGED <<seedVars, fileVars, top, alive, starting, main, error, delayed, orphans, queue, task,
                 events, appVars, leaves, deaths>>
  /\ launchStartupTask(p, TRUE)

(* A seed is made, encrypted or given a new PIN; a little later the start-up
   screen is shown again. *)
AskForSeed(p, why) ==
  /\ main = "free"
  /\ top = IF why = "change" THEN "home" ELSE "startup"
  /\ why = "change" => isAppReady
  /\ EncryptWallet(p, why)
  /\ top' = IF why \in {"create", "restore"} THEN "seed" ELSE top
  /\ UNCHANGED <<fileVars, alive, starting, main, prompt, error, delayed, orphans, taskVars, appVars,
                 overlap, counters>>

WriteSeed ==
  /\ main = "free" /\ SeedStep
  /\ IF top = "seed" /\ write'.pc = "idle"
     THEN top' = "startup" /\ main' = "resume" ELSE UNCHANGED <<top, main>>
  /\ UNCHANGED <<fileVars, alive, starting, prompt, error, delayed, orphans, taskVars, appVars,
                 overlap, counters>>

------------------------------------------------------------------------------
(* The thread of launchStartupTask.  With the right PIN the application's
   keys are set; with a wrong one, or if the file cannot be read, they are
   cleared, and so is the AppKit. *)
Decrypt(t) ==
  /\ th[t].pc = "decrypt" /\ th[t].pw = dat
  /\ pin' = dat /\ keys' = TRUE
  /\ th' = [th EXCEPT ![t].pc = "route"]
  /\ UNCHANGED <<plain, dat, temp, origin, write, writes, real, known, fileVars, actVars,
                 queue, task, events, appKit, taken, supKeys, nodes, overlap, counters>>

DecryptFails(t) ==
  /\ th[t].pc = "decrypt"
  /\ clearApp
  /\ th' = [th EXCEPT ![t] = FreeThread]
  /\ LET shown == th[t].own /\ alive # "no" IN
     /\ starting' = (starting /\ ~shown)
     /\ \/ /\ th[t].pw # dat
           /\ error' = IF shown THEN "message" ELSE error
           /\ IF shown THEN delayed' = delayed + 1 /\ UNCHANGED orphans
                       ELSE orphans' = orphans + 1 /\ UNCHANGED delayed
           /\ UNCHANGED fails
        \/ /\ Fail
           /\ error' = IF shown THEN "restart" ELSE error
           /\ UNCHANGED <<delayed, orphans>>
  /\ UNCHANGED <<plain, dat, temp, origin, write, writes, real, known, fileVars, top, alive, main,
                 prompt, queue, task, events, taken, supKeys, nodes, overlap, leaves, deaths>>

(* Mutant: without the preference the wallet is taken to be a new one. *)
shouldRestoreIfSet == origin = "restored" /\ ~restoreDone /\ ~db

shouldRestoreChannelsBackup == origin # "scratch" /\ ~restoreDone /\ ~db

(* It is diverted to another screen, or it starts the node. *)
Divert(t, screen) ==
  /\ th' = [th EXCEPT ![t] = FreeThread]
  /\ top' = screen /\ prompt' = FALSE
  /\ UNCHANGED starting

Route(t) ==
  /\ th[t].pc = "route"
  /\ CASE shouldRestoreChannelsBackup -> Divert(t, "restore")
       [] ~shouldRestoreChannelsBackup /\ ~access -> Divert(t, "setup")
       [] OTHER -> /\ starting' = (starting \/ th[t].own)
                   /\ th' = [th EXCEPT ![t].pc = "execute"]
                   /\ UNCHANGED <<top, prompt>>
  /\ UNCHANGED <<seedVars, fileVars, alive, main, error, delayed, orphans, queue, task, events, appVars,
                 overlap, counters>>

Execute(t) ==
  /\ th[t].pc = "execute"
  /\ th' = [th EXCEPT ![t] = FreeThread] /\ queue' = queue + 1
  /\ UNCHANGED <<seedVars, fileVars, actVars, task, events, appVars, overlap, counters>>

------------------------------------------------------------------------------
(* StartupTask.doInBackground. *)
Post(status) == task' = "none" /\ events' = Append(events, status)

TaskStarts ==
  /\ task = "none" /\ queue > 0
  /\ task' = "net" /\ queue' = queue - 1
  /\ UNCHANGED <<seedVars, fileVars, actVars, th, events, appVars, overlap, counters>>

TaskChecksNetwork ==
  /\ task = "net"
  /\ \/ task' = "setup" /\ UNCHANGED <<events, fails>>
     \/ Fail /\ \E s \in {"NETWORK_ERROR", "GENERIC_ERROR"} : Post(s)
  /\ UNCHANGED <<seedVars, fileVars, actVars, th, queue, appVars, overlap, leaves, deaths>>

(* shutdown: the actor system and all that runs in it is replaced. *)
Shutdown == taken' = FALSE /\ supKeys' = FALSE /\ nodes' = 0

(* The node's databases are opened, and created where they are missing. *)
TaskSetsUp ==
  /\ task = "setup" /\ db' = TRUE
  /\ \/ /\ netdb = "bad" /\ Shutdown /\ Post("NETWORK_DB_ERROR")
        /\ UNCHANGED fails
     \/ /\ netdb = "ok" /\ task' = "actors"
        /\ UNCHANGED <<events, taken, supKeys, nodes, fails>>
     \/ /\ Fail /\ Post("GENERIC_ERROR")
        /\ UNCHANGED <<taken, supKeys, nodes>>
  /\ UNCHANGED <<seedVars, netdb, restoreDone, asked, access, actVars, th, queue, keys, appKit,
                 overlap, leaves, deaths>>

(* Mutant: the supervisor is created without the keys. *)
ActorsWithoutKeys ==
  /\ task = "actors"
  /\ IF taken
     THEN Post("GENERIC_ERROR") /\ UNCHANGED taken
     ELSE taken' = TRUE /\ task' = "boot" /\ UNCHANGED events
  /\ UNCHANGED <<seedVars, fileVars, actVars, th, queue, keys, appKit, supKeys, nodes, overlap, counters>>

(* Mutant: the actors are created without names. *)
ActorsUnnamed ==
  /\ task = "actors"
  /\ taken' = TRUE /\ supKeys' = keys /\ task' = "boot"
  /\ UNCHANGED <<seedVars, fileVars, actVars, th, queue, events, keys, appKit, nodes, overlap, counters>>

(* The actors have fixed names: a system that has them refuses. *)
TaskCreatesActors ==
  /\ task = "actors"
  /\ IF taken
     THEN Post("GENERIC_ERROR") /\ UNCHANGED <<taken, supKeys>>
     ELSE taken' = TRUE /\ supKeys' = keys /\ task' = "boot" /\ UNCHANGED events
  /\ UNCHANGED <<seedVars, fileVars, actVars, th, queue, keys, appKit, nodes, overlap, counters>>

(* The node starts.  If it does not get through in time, or fails on the
   way, what there is of it goes on running. *)
TaskBoots ==
  /\ task = "boot" /\ nodes' = nodes + 1
  /\ \/ appKit' = TRUE /\ Post("SUCCESS") /\ UNCHANGED fails
     \/ /\ Fail /\ UNCHANGED appKit
        /\ \E s \in {"TIMEOUT_ERROR", "NETWORK_ERROR", "GENERIC_ERROR"} : Post(s)
  /\ UNCHANGED <<seedVars, fileVars, actVars, th, queue, keys, taken, supKeys, overlap, leaves, deaths>>

------------------------------------------------------------------------------
(* The main thread: the result of a task.  If there is no activity nobody
   receives it. *)
ResultLost ==
  /\ main = "free" /\ events # <<>> /\ alive = "no"
  /\ events' = Tail(events)
  /\ UNCHANGED <<seedVars, fileVars, actVars, th, queue, task, appVars, overlap, counters>>

OnSuccessResult ==
  /\ IF isAppReady
     THEN finishAndGoToHome /\ UNCHANGED <<error, delayed>>
     ELSE error' = "message" /\ delayed' = delayed + 1 /\ UNCHANGED <<top, alive>>
  /\ UNCHANGED <<pin, keys, appKit, fails>>

(* Mutant: the error is shown without the restart button. *)
NoRestartButton ==
  /\ clearApp /\ error' = "message"
  /\ UNCHANGED <<top, alive, delayed, fails>>

OnErrorResult ==
  /\ clearApp /\ error' = "restart"
  /\ UNCHANGED <<top, alive, delayed, fails>>

(* Mutant: isStartingNode is not reset after an error. *)
FinishReturnsEarly ==
  /\ main = "free" /\ events # <<>> /\ alive # "no"
  /\ \/ Head(events) = "SUCCESS" /\ OnSuccessResult
     \/ Head(events) \in {"NETWORK_ERROR", "TIMEOUT_ERROR", "GENERIC_ERROR"} /\ OnErrorResult
  /\ events' = Tail(events) /\ starting' = (starting /\ Head(events) # "SUCCESS")
  /\ UNCHANGED <<plain, dat, temp, origin, write, writes, real, known, fileVars, main, prompt, th,
                 orphans, queue, task, taken, supKeys, nodes, overlap, leaves, deaths>>

(* processStartupFinish, but for an incompatible network database. *)
processStartupFinish ==
  /\ main = "free" /\ events # <<>> /\ alive # "no"
  /\ \/ Head(events) = "SUCCESS" /\ OnSuccessResult
     \/ Head(events) \in {"NETWORK_ERROR", "TIMEOUT_ERROR", "GENERIC_ERROR"} /\ OnErrorResult
  /\ events' = Tail(events) /\ starting' = FALSE
  /\ UNCHANGED <<plain, dat, temp, origin, write, writes, real, known, fileVars, main, prompt, th,
                 orphans, queue, task, taken, supKeys, nodes, overlap, leaves, deaths>>

(* The database is deleted and the checks begin again; isStartingNode is
   reset afterwards, when a thread may have set it already. *)
NetworkDbDeleted ==
  /\ main = "free" /\ events # <<>> /\ alive # "no" /\ Head(events) = "NETWORK_DB_ERROR"
  /\ events' = Tail(events) /\ netdb' = "ok" /\ main' = "finish"
  /\ checkup
  /\ UNCHANGED <<dat, temp, pin, origin, write, writes, real, known, db, restoreDone, asked, access,
                 starting, delayed, orphans, queue, task, appVars, counters>>

FinishEnds ==
  /\ main = "finish" /\ main' = "free" /\ starting' = FALSE
  /\ UNCHANGED <<seedVars, fileVars, top, alive, prompt, error, delayed, orphans, taskVars, appVars, overlap, counters>>

NetworkDbNotDeleted ==
  /\ main = "free" /\ events # <<>> /\ alive # "no" /\ Head(events) = "NETWORK_DB_ERROR"
  /\ Fail /\ events' = Tail(events) /\ starting' = FALSE
  /\ clearApp /\ error' = "restart"
  /\ UNCHANGED <<plain, dat, temp, origin, write, writes, real, known, fileVars, top, alive, main,
                 prompt, delayed, orphans, th, queue, task, taken, supKeys, nodes, overlap, leaves, deaths>>

DelayedStart ==
  /\ main = "free" /\ delayed > 0 /\ delayed' = delayed - 1
  /\ UNCHANGED <<seedVars, fileVars, starting, main, orphans, queue, task, events, appVars, counters>>
  /\ startNode

------------------------------------------------------------------------------
(* The other screens: the channels' backup is put in place, then the choice
   is recorded; access to the storage is granted; a screen that finds the
   application not ready goes back to the start. *)
MoveBackup ==
  /\ top = "restore" /\ main = "free" /\ ~db /\ db' = TRUE /\ asked' = TRUE
  /\ UNCHANGED <<seedVars, netdb, restoreDone, access, actVars, taskVars, appVars, overlap, counters>>

RestoreIsDone ==
  /\ top = "restore" /\ restoreDone' = TRUE /\ asked' = TRUE
  /\ Show /\ UNCHANGED <<db, netdb, access>>

GrantAccess ==
  /\ top = "setup" /\ access' = TRUE
  /\ Show /\ UNCHANGED <<db, netdb, restoreDone, asked>>

checkInit == top = "home" /\ ~isAppReady /\ Show /\ UNCHANGED fileVars

(* The process ends, by itself or by the restart button, which opens the
   screen again. *)
ProcessEnds ==
  /\ SeedDies
  /\ alive' = "no" /\ starting' = FALSE /\ main' = "free" /\ prompt' = FALSE
  /\ error' = "none" /\ delayed' = 0 /\ orphans' = 0 /\ top' = "none"
  /\ th' = [t \in Threads |-> FreeThread] /\ queue' = 0 /\ task' = "none" /\ events' = <<>>
  /\ keys' = FALSE /\ appKit' = FALSE /\ taken' = FALSE /\ supKeys' = FALSE /\ nodes' = 0
  /\ overlap' = FALSE
  /\ UNCHANGED <<fileVars, leaves, fails>>

(* A delayed startNode of an activity that is gone.  It can open the home
   screen and launch a start, but asking for the PIN in a window that does
   not exist ends the process. *)
OrphanStart ==
  /\ main = "free" /\ orphans > 0
  /\ \/ pin = None /\ ProcessEnds /\ UNCHANGED deaths
     \/ /\ pin # None /\ orphans' = orphans - 1
        /\ UNCHANGED <<seedVars, fileVars, alive, starting, main, prompt, error, delayed,
                       queue, task, events, appVars, counters>>
        /\ IF isAppReady THEN top' = "home" /\ UNCHANGED <<th, overlap>>
                         ELSE launchStartupTask(pin, FALSE) /\ UNCHANGED top

Die == deaths < MaxDeaths /\ deaths' = deaths + 1 /\ ProcessEnds

Restart == top = "startup" /\ main = "free" /\ error = "restart" /\ ProcessEnds /\ UNCHANGED deaths

------------------------------------------------------------------------------
UserStep == \/ Open \/ Leave \/ MoveBackup \/ RestoreIsDone \/ GrantAccess \/ Restart
            \/ \E p \in Pins : onPinConfirm(p) \/ \E why \in Reasons : AskForSeed(p, why)

MainStep == onResume \/ Destroy \/ WriteSeed \/ ResultLost \/ processStartupFinish
            \/ NetworkDbDeleted \/ FinishEnds \/ NetworkDbNotDeleted \/ DelayedStart \/ OrphanStart
            \/ checkInit

ThreadStep(t) == Decrypt(t) \/ DecryptFails(t) \/ Route(t) \/ Execute(t)

TaskStep == TaskStarts \/ TaskChecksNetwork \/ TaskSetsUp \/ TaskCreatesActors \/ TaskBoots

Next == UserStep \/ MainStep \/ TaskStep \/ (\E t \in Threads : ThreadStep(t)) \/ Die

(* Every thread of the program goes on; the user comes back, answers what is
   asked, in the end with the right PIN, and presses the restart button. *)
Fairness ==
  /\ WF_vars(MainStep) /\ WF_vars(TaskStep) /\ \A t \in Threads : WF_vars(ThreadStep(t))
  /\ WF_vars(Open) /\ WF_vars(Idle /\ Leave) /\ WF_vars(RestoreIsDone) /\ WF_vars(GrantAccess) /\ WF_vars(Restart)
  /\ WF_vars(\E p \in Pins : p = dat /\ onPinConfirm(p))

Spec == Init /\ [][Next]_vars
FairSpec == Spec /\ Fairness

------------------------------------------------------------------------------
(* The channels of one seed are never in the hands of two nodes, however many
   starts have been launched. *)
OneNode == nodes <= 1

(* An application that is ready has a node that runs; and, unless starts have
   overlapped, one whose supervisor can name and encrypt the backups. *)
ReadyIsRunning == isAppReady => nodes = 1 /\ (supKeys \/ overlap)

(* A wallet restored from its words gets no new database before the user has
   been asked for a backup, also if the process dies at any point. *)
RestoreComesFirst == db /\ real = "restored" => asked

(* The start-up screen does not wait for a start that is not under way; and,
   but for wallets of the old version, it does not show nothing while nothing
   is under way. *)
NobodyWaitsInVain ==
  /\ starting /\ alive = "yes" => Busy \/ events # <<>> \/ main = "finish"
  /\ Idle /\ real # "old" => error # "none"

(* A wallet that exists is in the end usable. *)
WalletStarts == (dat # None) ~> (top = "home" /\ isAppReady)
==============================================================================
