---------------------------- MODULE StartupProofs -----------------------------
(***************************************************************************)
(* Theorems about Startup, for any PINs, any number of threads, departures, *)
(* failures and deaths of the process: there is never a second node, a     *)
(* wallet that exists can always be opened, no database is made before the  *)
(* user has been asked for a backup, the application that is ready has a    *)
(* node, and the start-up screen never waits in vain.                       *)
(***************************************************************************)
EXTENDS Startup, TLAPS

------------------------------------------------------------------------------
(* Two starts of one process.  The actors' names are what keeps the second
   from creating a node: a node, or a task that is about to start one, holds
   them. *)
NodeInv ==
  /\ nodes \in {0, 1}
  /\ nodes = 1 => taken
  /\ task = "boot" => taken /\ nodes = 0

(* What NodeInv is about.  Most steps leave it alone. *)
nodeState == <<nodes, taken, task>>

LEMMA UserKeepsNodes ==
  ASSUME UserStep
  PROVE  UNCHANGED nodeState \/ ProcessEnds
<1>1. CASE Open \/ RestoreIsDone \/ GrantAccess
  BY <1>1 DEF Open, RestoreIsDone, GrantAccess, Show, nodeState, appVars
<1>2. CASE Leave \/ MoveBackup
  BY <1>2 DEF Leave, MoveBackup, nodeState, appVars, taskVars
<1>3. CASE Restart
  BY <1>3 DEF Restart
<1>4. CASE \E p \in Pins : onPinConfirm(p)
  BY <1>4 DEF onPinConfirm, nodeState, appVars
<1>5. CASE \E p \in Pins : \E why \in Reasons : AskForSeed(p, why)
  BY <1>5 DEF AskForSeed, nodeState, appVars, taskVars
<1> QED BY <1>1, <1>2, <1>3, <1>4, <1>5 DEF UserStep

LEMMA MainKeepsNodes ==
  ASSUME MainStep
  PROVE  UNCHANGED nodeState \/ ProcessEnds
<1>1. CASE onResume \/ Destroy \/ WriteSeed
  BY <1>1 DEF onResume, Destroy, WriteSeed, nodeState, appVars, taskVars
<1>2. CASE ResultLost \/ processStartupFinish
  BY <1>2 DEF ResultLost, processStartupFinish, nodeState, appVars
<1>3. CASE NetworkDbDeleted \/ FinishEnds \/ NetworkDbNotDeleted
  BY <1>3 DEF NetworkDbDeleted, FinishEnds, NetworkDbNotDeleted, nodeState, appVars, taskVars
<1>4. CASE DelayedStart \/ OrphanStart
  BY <1>4 DEF DelayedStart, OrphanStart, nodeState, appVars
<1>5. CASE checkInit
  BY <1>5 DEF checkInit, Show, nodeState, appVars
<1> QED BY <1>1, <1>2, <1>3, <1>4, <1>5 DEF MainStep

LEMMA ThreadKeepsNodes ==
  ASSUME NEW t \in Threads, ThreadStep(t)
  PROVE  UNCHANGED nodeState
BY DEF ThreadStep, Decrypt, DecryptFails, Route, Execute, nodeState, appVars

LEMMA TaskKeepsNodeInv ==
  ASSUME NodeInv, TaskStep
  PROVE  NodeInv'
<1>1. CASE TaskStarts
  BY <1>1 DEF TaskStarts, NodeInv, appVars
<1>2. CASE TaskChecksNetwork
  BY <1>2 DEF TaskChecksNetwork, NodeInv, Post, appVars
<1>3. CASE TaskSetsUp
  BY <1>3 DEF TaskSetsUp, NodeInv, Post, Shutdown
<1>4. CASE TaskCreatesActors
  BY <1>4 DEF TaskCreatesActors, NodeInv, Post
<1>5. CASE TaskBoots
  BY <1>5 DEF TaskBoots, NodeInv, Post
<1> QED BY <1>1, <1>2, <1>3, <1>4, <1>5 DEF TaskStep

LEMMA NodeInvStep ==
  ASSUME NodeInv, [Next]_vars
  PROVE  NodeInv'
<1>1. CASE UNCHANGED nodeState
  BY <1>1 DEF NodeInv, nodeState
<1>2. CASE ProcessEnds
  BY <1>2 DEF NodeInv, ProcessEnds
<1>3. CASE TaskStep
  BY <1>3, TaskKeepsNodeInv
<1>4. CASE UNCHANGED vars
  BY <1>4, <1>1 DEF vars, nodeState, appVars, taskVars
<1>5. CASE Die
  BY <1>5, <1>2 DEF Die
<1>6. CASE UserStep
  BY <1>6, <1>1, <1>2, UserKeepsNodes
<1>7. CASE MainStep
  BY <1>7, <1>1, <1>2, MainKeepsNodes
<1>8. CASE \E t \in Threads : ThreadStep(t)
  BY <1>8, <1>1, ThreadKeepsNodes
<1> QED BY <1>3, <1>4, <1>5, <1>6, <1>7, <1>8 DEF Next

(* However many starts are launched, fail or are given up, the channels of
   the seed are never in the hands of two nodes. *)
THEOREM NeverTwoNodes == Spec => []OneNode
<1>1. Init => NodeInv
  BY DEF Init, ProcessInit, NodeInv
<1>2. NodeInv /\ [Next]_vars => NodeInv'
  BY NodeInvStep
<1>3. NodeInv => OneNode
  BY DEF NodeInv, OneNode
<1> QED BY <1>1, <1>2, <1>3, PTL DEF Spec

------------------------------------------------------------------------------
(* The seed.  A new file has been checked against the PIN before it takes the
   place of the old one, and from then until the user has been told both are
   taken to be known; an unencrypted seed is deleted only beside a file. *)
SeedInv ==
  /\ write \in [pc : {"idle", "open", "fill", "check", "pin"}, pin : Pins \cup {None}, why : Reasons]
  /\ write.pc # "idle" => write.pin \in Pins
  /\ write.pc = "pin" => dat = write.pin
  /\ dat # None => dat \in known \/ write.pc = "pin"
  /\ real # "none" => plain \/ dat # None

(* Most steps leave the seed alone, or delete an unencrypted one. *)
SeedIsKept == UNCHANGED <<dat, real, known, write>> /\ (plain' = plain \/ DeletePlain)

LEMMA KeptIsKept ==
  ASSUME SeedInv, SeedIsKept
  PROVE  SeedInv'
BY DEF SeedInv, SeedIsKept, DeletePlain

LEMMA DeathKeepsSeed ==
  ASSUME SeedInv, SeedDies
  PROVE  SeedInv'
BY DEF SeedInv, SeedDies, NoWrite, Reasons

LEMMA WritingKeepsSeed ==
  ASSUME SeedInv, SeedStep
  PROVE  SeedInv'
<1>1. CASE OpenTemp
  BY <1>1 DEF OpenTemp, SeedInv
<1>2. CASE FillTemp
  BY <1>2 DEF FillTemp, SeedInv
<1>3. CASE MoveTemp
  <2>1. write.pin \in Pins /\ write.pin # None
    BY <1>3, SeedAssumption DEF MoveTemp, SeedInv, None
  <2> QED BY <1>3, <2>1 DEF MoveTemp, SeedInv
<1>4. CASE WriteFails
  BY <1>4 DEF WriteFails, SeedInv, NoWrite, Reasons
<1>5. CASE SetPin
  <2>1. dat = write.pin /\ write.pin \in Pins /\ write.pin # None
    BY <1>5, SeedAssumption DEF SetPin, SeedInv, None
  <2> QED BY <1>5, <2>1 DEF SetPin, OnSuccess, SeedInv, NoWrite, Reasons
<1> QED BY <1>1, <1>2, <1>3, <1>4, <1>5 DEF SeedStep

LEMMA AskingKeepsSeed ==
  ASSUME SeedInv, NEW p \in Pins, NEW why \in Reasons, EncryptWallet(p, why)
  PROVE  SeedInv'
BY DEF EncryptWallet, SeedInv

LEMMA UserKeepsSeed ==
  ASSUME SeedInv, UserStep
  PROVE  SeedInv'
<1>1. CASE Open \/ RestoreIsDone \/ GrantAccess
  BY <1>1, KeptIsKept DEF Open, RestoreIsDone, GrantAccess, Show, SeedIsKept, seedVars
<1>2. CASE Leave \/ MoveBackup
  BY <1>2, KeptIsKept DEF Leave, MoveBackup, SeedIsKept, seedVars
<1>3. CASE Restart
  BY <1>3, DeathKeepsSeed DEF Restart, ProcessEnds
<1>4. CASE \E p \in Pins : onPinConfirm(p)
  BY <1>4, KeptIsKept DEF onPinConfirm, SeedIsKept, seedVars
<1>5. CASE \E p \in Pins : \E why \in Reasons : AskForSeed(p, why)
  BY <1>5, AskingKeepsSeed DEF AskForSeed
<1> QED BY <1>1, <1>2, <1>3, <1>4, <1>5 DEF UserStep

LEMMA MainKeepsSeed ==
  ASSUME SeedInv, MainStep
  PROVE  SeedInv'
<1>1. CASE onResume \/ NetworkDbDeleted
  BY <1>1, KeptIsKept DEF onResume, NetworkDbDeleted, checkup, SeedIsKept
<1>2. CASE Destroy \/ ResultLost \/ FinishEnds \/ DelayedStart
  BY <1>2, KeptIsKept DEF Destroy, ResultLost, FinishEnds, DelayedStart, SeedIsKept, seedVars
<1>3. CASE processStartupFinish \/ NetworkDbNotDeleted
  BY <1>3, KeptIsKept DEF processStartupFinish, NetworkDbNotDeleted, SeedIsKept
<1>4. CASE WriteSeed
  BY <1>4, WritingKeepsSeed DEF WriteSeed
<1>5. CASE OrphanStart
  BY <1>5, KeptIsKept, DeathKeepsSeed DEF OrphanStart, ProcessEnds, SeedIsKept, seedVars
<1>6. CASE checkInit
  BY <1>6, KeptIsKept DEF checkInit, Show, SeedIsKept, seedVars
<1> QED BY <1>1, <1>2, <1>3, <1>4, <1>5, <1>6 DEF MainStep

LEMMA ThreadKeepsSeed ==
  ASSUME SeedInv, NEW t \in Threads, ThreadStep(t)
  PROVE  SeedInv'
<1>1. SeedIsKept
  BY DEF ThreadStep, Decrypt, DecryptFails, Route, Execute, SeedIsKept, seedVars
<1> QED BY <1>1, KeptIsKept

LEMMA TaskKeepsSeed ==
  ASSUME SeedInv, TaskStep
  PROVE  SeedInv'
<1>1. SeedIsKept
  BY DEF TaskStep, TaskStarts, TaskChecksNetwork, TaskSetsUp, TaskCreatesActors, TaskBoots,
         SeedIsKept, seedVars
<1> QED BY <1>1, KeptIsKept

LEMMA SeedInvStep ==
  ASSUME SeedInv, [Next]_vars
  PROVE  SeedInv'
<1>1. CASE UNCHANGED vars
  BY <1>1, KeptIsKept DEF vars, seedVars, SeedIsKept
<1>2. CASE Die
  BY <1>2, DeathKeepsSeed DEF Die, ProcessEnds
<1> QED BY <1>1, <1>2, UserKeepsSeed, MainKeepsSeed, ThreadKeepsSeed, TaskKeepsSeed DEF Next

LEMMA SeedInvInit ==
  ASSUME Init
  PROVE  SeedInv
<1>1. /\ write \in [pc : {"idle", "open", "fill", "check", "pin"}, pin : Pins \cup {None}, why : Reasons]
      /\ write.pc = "idle"
  BY DEF Init, SeedInit, NoWrite, Reasons
<1>2. CASE real = "scratch"
  <2>1. dat \in Pins /\ known = {dat}
    BY <1>2 DEF Init, SeedInit
  <2>2. dat # None
    BY <2>1, SeedAssumption DEF None
  <2> QED BY <1>1, <2>1, <2>2 DEF SeedInv
<1>3. CASE real = "old"
  <2>1. plain
    BY <1>3 DEF Init, SeedInit
  <2>2. dat = None
    BY <1>3 DEF Init, SeedInit
  <2> QED BY <1>1, <2>1, <2>2 DEF SeedInv
<1>4. CASE real = "none"
  <2>1. dat = None
    BY <1>4 DEF Init, SeedInit
  <2> QED BY <1>1, <1>4, <2>1 DEF SeedInv
<1> QED BY <1>2, <1>3, <1>4 DEF Init, SeedInit

(* A wallet that exists has a complete seed that a PIN known to the user opens,
   whatever writes fail and wherever the process dies (writeSeedFile,
   encryptWallet, and the deletion of the unencrypted seed at start-up). *)
THEOREM SeedNeverLost == Spec => []SeedOpens
<1>1. Init => SeedInv
  BY SeedInvInit
<1>2. SeedInv /\ [Next]_vars => SeedInv'
  BY SeedInvStep
<1>3. SeedInv => SeedOpens
  BY DEF SeedInv, SeedOpens
<1> QED BY <1>1, <1>2, <1>3, PTL DEF Spec

------------------------------------------------------------------------------
(* The restoration of channels.  A start that is past its decision to go on
   (Committed) has seen a wallet made from scratch, a recorded answer or a
   database, and a wallet restored from its words that has one of the last two
   was asked for a backup.  The wallet that a start has seen stays what it is:
   there is no start before there is a seed, and a seed that exists is only
   replaced by itself with another PIN. *)
Thread == [pc : {"free", "decrypt", "route", "execute"}, pw : Pins \cup {None}, own : BOOLEAN]

Committed == (\E t \in Threads : th[t].pc = "execute") \/ queue > 0 \/ task # "none"

RestoreType ==
  /\ th \in [Threads -> Thread] /\ queue \in Nat
  /\ pin \in Pins \cup {None} /\ dat \in Pins \cup {None}

NoSeedNoStart ==
  dat = None => /\ \A t \in Threads : th[t].pc \notin {"route", "execute"}
                /\ queue = 0 /\ task = "none" /\ top # "restore"

NoWalletYet == real = "none" => dat = None /\ ~plain /\ ~db /\ origin = "unset"

WriteFitsWallet ==
  /\ write.pc \in {"open", "fill", "check"} =>
       (write.why \in {"create", "restore"} <=> real = "none")
  /\ write.pc = "pin" => /\ write.why = "create" => real = "scratch"
                         /\ write.why = "restore" => real = "restored"

AskedFirst ==
  /\ restoreDone => asked
  /\ real = "restored" => origin # "scratch" /\ (db \/ Committed => asked)

RestoreInv ==
  /\ RestoreType /\ NoSeedNoStart /\ NoWalletYet /\ WriteFitsWallet /\ AskedFirst
  /\ \A t \in Threads : th[t].pc = "decrypt" => th[t].pw \in Pins

(* Most steps change nothing of this but the threads, and of these only that
   one begins to decrypt. *)
ThreadsBegin ==
  /\ th' \in [Threads -> Thread]
  /\ \A t \in Threads : \/ th'[t].pc = th[t].pc /\ th'[t].pw = th[t].pw
                        \/ th'[t].pc = "decrypt" /\ th'[t].pw \in Pins
                        \/ th'[t].pc = "free"

RestoreFrame ==
  /\ UNCHANGED <<dat, real, origin, write, db, restoreDone, asked, queue, task>>
  /\ plain' => plain
  /\ pin' = pin \/ pin' = None
  /\ top' = top \/ top' # "restore"

LEMMA FrameKeepsRestore ==
  ASSUME RestoreInv, RestoreFrame, ThreadsBegin
  PROVE  RestoreInv'
<1>1. Committed' => Committed
  BY DEF RestoreFrame, ThreadsBegin, Committed
<1>2. RestoreType' /\ NoSeedNoStart'
  BY DEF RestoreInv, RestoreType, NoSeedNoStart, RestoreFrame, ThreadsBegin
<1>3. NoWalletYet' /\ WriteFitsWallet'
  BY DEF RestoreInv, NoWalletYet, WriteFitsWallet, RestoreFrame
<1>4. AskedFirst'
  BY <1>1 DEF RestoreInv, AskedFirst, RestoreFrame
<1>5. \A t \in Threads : th'[t].pc = "decrypt" => th'[t].pw \in Pins
  BY DEF RestoreInv, ThreadsBegin
<1> QED BY <1>2, <1>3, <1>4, <1>5 DEF RestoreInv

LEMMA SameThreadsBegin ==
  ASSUME RestoreInv, UNCHANGED th
  PROVE  ThreadsBegin
BY DEF RestoreInv, RestoreType, ThreadsBegin

LEMMA LaunchBegins ==
  ASSUME RestoreInv, NEW p \in Pins, NEW mine \in BOOLEAN, launchStartupTask(p, mine)
  PROVE  ThreadsBegin
<1>1. PICK t \in Threads : th' = [th EXCEPT ![t] = [pc |-> "decrypt", pw |-> p, own |-> mine]]
  BY DEF launchStartupTask
<1>2. [pc |-> "decrypt", pw |-> p, own |-> mine] \in Thread
  BY DEF Thread
<1> QED BY <1>1, <1>2 DEF RestoreInv, RestoreType, ThreadsBegin

LEMMA startNodeBegins ==
  ASSUME RestoreInv, startNode
  PROVE  ThreadsBegin /\ (top' = top \/ top' # "restore")
<1>1. CASE isAppReady
  BY <1>1, SameThreadsBegin DEF startNode, finishAndGoToHome
<1>2. CASE ~isAppReady /\ pin = None
  BY <1>2, SameThreadsBegin DEF startNode
<1>3. CASE ~isAppReady /\ pin # None
  <2>1. pin \in Pins
    BY <1>3 DEF RestoreInv, RestoreType
  <2>2. launchStartupTask(pin, TRUE) /\ top' = top
    BY <1>3 DEF startNode
  <2> QED BY <2>1, <2>2, LaunchBegins
<1> QED BY <1>1, <1>2, <1>3

LEMMA checkupBegins ==
  ASSUME RestoreInv, checkup
  PROVE  ThreadsBegin /\ (top' = top \/ top' # "restore") /\ (plain' => plain)
<1>1. plain' => plain
  BY DEF checkup, DeletePlain
<1>2. CASE plain \/ dat = None
  BY <1>1, <1>2, SameThreadsBegin DEF checkup
<1>3. CASE ~(plain \/ dat = None)
  BY <1>1, <1>3, startNodeBegins DEF checkup
<1> QED BY <1>2, <1>3

LEMMA ShowKeepsRestore ==
  ASSUME RestoreInv, Show
  PROVE  ThreadsBegin /\ top' # "restore"
<1>1. CASE UNCHANGED th
  BY <1>1, SameThreadsBegin DEF Show
<1>2. CASE th' = [t \in Threads |-> [th[t] EXCEPT !.own = FALSE]]
  <2>1. \A t \in Threads : th[t] \in Thread
    BY DEF RestoreInv, RestoreType
  <2>2. \A t \in Threads : /\ [th[t] EXCEPT !.own = FALSE] \in Thread
                           /\ [th[t] EXCEPT !.own = FALSE].pc = th[t].pc
                           /\ [th[t] EXCEPT !.own = FALSE].pw = th[t].pw
    BY <2>1 DEF Thread
  <2> QED BY <1>2, <2>2 DEF Show, ThreadsBegin
<1> QED BY <1>1, <1>2 DEF Show

LEMMA DeathKeepsRestore ==
  ASSUME RestoreInv, ProcessEnds
  PROVE  RestoreInv'
<1>1. th' = [t \in Threads |-> FreeThread] /\ FreeThread \in Thread /\ FreeThread.pc = "free"
  BY DEF ProcessEnds, FreeThread, Thread
<1>2. \A t \in Threads : th'[t].pc = "free"
  BY <1>1
<1>3. ~Committed'
  BY <1>2 DEF ProcessEnds, Committed
<1>4. RestoreType' /\ NoSeedNoStart'
  BY <1>1, <1>2 DEF ProcessEnds, SeedDies, RestoreInv, RestoreType, NoSeedNoStart
<1>5. NoWalletYet' /\ WriteFitsWallet'
  BY DEF ProcessEnds, SeedDies, NoWrite, fileVars, RestoreInv, NoWalletYet, WriteFitsWallet
<1>6. AskedFirst'
  BY <1>3 DEF ProcessEnds, SeedDies, fileVars, RestoreInv, AskedFirst
<1> QED BY <1>2, <1>4, <1>5, <1>6 DEF RestoreInv

(* The steps of encryptWallet.  A seed that comes into being finds no start
   under way and no database. *)
LEMMA WritingKeepsRestore ==
  ASSUME SeedInv, RestoreInv, WriteSeed
  PROVE  RestoreInv'
<1> USE DEF WriteSeed, taskVars, fileVars
<1>1. ThreadsBegin /\ (top' = top \/ top' # "restore")
  BY SameThreadsBegin
<1>2. CASE OpenTemp \/ FillTemp \/ WriteFails
  <2>1. UNCHANGED <<plain, dat, pin, origin, real>>
    BY <1>2 DEF OpenTemp, FillTemp, WriteFails
  <2>2. \/ write.pc \in {"open", "fill"} /\ write'.pc \in {"open", "fill", "check"} /\ write'.why = write.why
        \/ write'.pc = "idle"
    BY <1>2 DEF OpenTemp, FillTemp, WriteFails, NoWrite, SeedInv
  <2>3. Committed' = Committed
    BY DEF Committed
  <2>4. RestoreType' /\ NoSeedNoStart'
    BY <1>1, <2>1 DEF RestoreInv, RestoreType, NoSeedNoStart
  <2>5. NoWalletYet' /\ WriteFitsWallet'
    BY <2>1, <2>2 DEF RestoreInv, NoWalletYet, WriteFitsWallet
  <2>6. AskedFirst'
    BY <2>1, <2>3 DEF RestoreInv, AskedFirst
  <2> QED BY <2>4, <2>5, <2>6 DEF RestoreInv
<1>3. CASE MoveTemp
  <2>1. write.pc = "check" /\ dat' = write.pin /\ write.pin \in Pins /\ write.pin # None
    BY <1>3, SeedAssumption DEF MoveTemp, SeedInv, None
  <2>2. UNCHANGED <<plain, pin, origin>> /\ write'.pc = "pin" /\ write'.why = write.why
    BY <1>3 DEF MoveTemp, SeedInv
  <2>3. CASE write.why \in {"create", "restore"}
    <3>1. real = "none" /\ dat = None /\ ~db /\ origin = "unset"
      BY <2>1, <2>3 DEF RestoreInv, WriteFitsWallet, NoWalletYet
    <3>2. real' = IF write.why = "create" THEN "scratch" ELSE "restored"
      BY <1>3, <2>3 DEF MoveTemp
    <3>3. ~Committed'
      BY <3>1 DEF RestoreInv, NoSeedNoStart, Committed
    <3>4. RestoreType' /\ NoSeedNoStart'
      BY <2>1, <2>2 DEF RestoreInv, RestoreType, NoSeedNoStart
    <3>5. NoWalletYet' /\ WriteFitsWallet'
      BY <2>2, <2>3, <3>2 DEF NoWalletYet, WriteFitsWallet
    <3>6. AskedFirst'
      BY <2>2, <3>1, <3>2, <3>3 DEF RestoreInv, AskedFirst
    <3> QED BY <3>4, <3>5, <3>6 DEF RestoreInv
  <2>4. CASE write.why \notin {"create", "restore"}
    <3>1. real # "none"
      BY <2>1, <2>4 DEF RestoreInv, WriteFitsWallet
    <3>2. real' = real
      BY <1>3, <2>4 DEF MoveTemp
    <3>3. Committed' = Committed
      BY DEF Committed
    <3>4. RestoreType' /\ NoSeedNoStart'
      BY <2>1, <2>2 DEF RestoreInv, RestoreType, NoSeedNoStart
    <3>5. NoWalletYet' /\ WriteFitsWallet'
      BY <2>2, <2>4, <3>1, <3>2 DEF NoWalletYet, WriteFitsWallet
    <3>6. AskedFirst'
      BY <2>2, <3>2, <3>3 DEF RestoreInv, AskedFirst
    <3> QED BY <3>4, <3>5, <3>6 DEF RestoreInv
  <2> QED BY <2>3, <2>4
<1>4. CASE SetPin
  <2>1. write.pc = "pin" /\ dat = write.pin /\ write.pin \in Pins /\ write.pin # None
    BY <1>4, SeedAssumption DEF SetPin, SeedInv, None
  <2>2. UNCHANGED <<dat, real>> /\ pin' = write.pin /\ write'.pc = "idle"
    BY <1>4 DEF SetPin, NoWrite
  <2>3. real # "none"
    BY <2>1 DEF RestoreInv, NoWalletYet
  <2>4. origin' = origin \/ origin' # "scratch" \/ write.why = "create"
    BY <1>4 DEF SetPin, OnSuccess
  <2>5. Committed' = Committed
    BY DEF Committed
  <2>6. RestoreType' /\ NoSeedNoStart'
    BY <1>1, <2>1, <2>2 DEF RestoreInv, RestoreType, NoSeedNoStart
  <2>7. NoWalletYet' /\ WriteFitsWallet'
    BY <2>2, <2>3 DEF NoWalletYet, WriteFitsWallet
  <2>8. AskedFirst'
    BY <2>1, <2>2, <2>4, <2>5 DEF RestoreInv, AskedFirst, WriteFitsWallet
  <2> QED BY <2>6, <2>7, <2>8 DEF RestoreInv
<1> QED BY <1>2, <1>3, <1>4 DEF SeedStep

LEMMA AskingKeepsRestore ==
  ASSUME SeedInv, RestoreInv, NEW p \in Pins, NEW why \in Reasons, AskForSeed(p, why)
  PROVE  RestoreInv'
<1> USE DEF AskForSeed, taskVars, fileVars
<1>1. /\ UNCHANGED <<plain, dat, pin, origin, real>>
      /\ write'.pc = "open" /\ write'.why = why
  BY DEF EncryptWallet
<1>2. why \in {"create", "restore"} => dat = None /\ ~plain
  BY DEF EncryptWallet
<1>3. why \notin {"create", "restore"} => plain \/ dat # None
  BY DEF EncryptWallet, Reasons
<1>4. Committed' = Committed
  BY DEF Committed
<1>5. RestoreType' /\ NoSeedNoStart'
  BY <1>1 DEF RestoreInv, RestoreType, NoSeedNoStart
<1>6. NoWalletYet' /\ WriteFitsWallet'
  BY <1>1, <1>2, <1>3 DEF RestoreInv, SeedInv, NoWalletYet, WriteFitsWallet
<1>7. AskedFirst'
  BY <1>1, <1>4 DEF RestoreInv, AskedFirst
<1> QED BY <1>5, <1>6, <1>7 DEF RestoreInv

LEMMA UserKeepsRestore ==
  ASSUME SeedInv, RestoreInv, UserStep
  PROVE  RestoreInv'
<1>1. CASE Open \/ GrantAccess
  <2>1. Show /\ UNCHANGED <<db, restoreDone, asked>>
    BY <1>1 DEF Open, GrantAccess, fileVars
  <2>2. UNCHANGED <<seedVars, queue, task>>
    BY <2>1 DEF Show
  <2>3. ThreadsBegin /\ top' # "restore"
    BY <2>1, ShowKeepsRestore
  <2> QED BY <2>1, <2>2, <2>3, FrameKeepsRestore DEF RestoreFrame, seedVars
<1>2. CASE RestoreIsDone
  <2>1. ThreadsBegin /\ top' # "restore"
    BY <1>2, ShowKeepsRestore DEF RestoreIsDone
  <2>2. /\ UNCHANGED <<plain, dat, real, origin, write, pin, db, queue, task>>
        /\ asked' = TRUE
    BY <1>2 DEF RestoreIsDone, Show, seedVars
  <2>3. RestoreType' /\ NoSeedNoStart'
    BY <2>1, <2>2 DEF RestoreInv, RestoreType, NoSeedNoStart, ThreadsBegin
  <2>4. NoWalletYet' /\ WriteFitsWallet'
    BY <2>2 DEF RestoreInv, NoWalletYet, WriteFitsWallet
  <2>5. AskedFirst'
    BY <2>2 DEF RestoreInv, AskedFirst
  <2>6. \A t \in Threads : th'[t].pc = "decrypt" => th'[t].pw \in Pins
    BY <2>1 DEF RestoreInv, ThreadsBegin
  <2> QED BY <2>3, <2>4, <2>5, <2>6 DEF RestoreInv
<1>3. CASE MoveBackup
  <2>1. /\ UNCHANGED <<plain, dat, real, origin, write, pin, restoreDone, queue, task, th, top>>
        /\ asked' = TRUE /\ top = "restore"
    BY <1>3 DEF MoveBackup, seedVars, taskVars, actVars
  <2>2. real # "none"
    BY <2>1 DEF RestoreInv, NoSeedNoStart, NoWalletYet
  <2>3. RestoreType' /\ NoSeedNoStart'
    BY <2>1 DEF RestoreInv, RestoreType, NoSeedNoStart
  <2>4. NoWalletYet' /\ WriteFitsWallet'
    BY <2>1, <2>2 DEF RestoreInv, NoWalletYet, WriteFitsWallet
  <2>5. AskedFirst'
    BY <2>1 DEF RestoreInv, AskedFirst
  <2> QED BY <2>1, <2>3, <2>4, <2>5 DEF RestoreInv
<1>4. CASE Leave
  BY <1>4, SameThreadsBegin, FrameKeepsRestore DEF Leave, RestoreFrame, seedVars, fileVars, taskVars
<1>5. CASE Restart
  BY <1>5, DeathKeepsRestore DEF Restart
<1>6. CASE \E p \in Pins : onPinConfirm(p)
  <2>1. PICK p \in Pins : onPinConfirm(p)
    BY <1>6
  <2>2. ThreadsBegin
    BY <2>1, LaunchBegins DEF onPinConfirm
  <2>3. RestoreFrame
    BY <2>1 DEF onPinConfirm, RestoreFrame, seedVars, fileVars
  <2> QED BY <2>2, <2>3, FrameKeepsRestore
<1>7. CASE \E p \in Pins : \E why \in Reasons : AskForSeed(p, why)
  BY <1>7, AskingKeepsRestore
<1> QED BY <1>1, <1>2, <1>3, <1>4, <1>5, <1>6, <1>7 DEF UserStep

LEMMA MainKeepsRestore ==
  ASSUME SeedInv, RestoreInv, MainStep
  PROVE  RestoreInv'
<1> USE DEF RestoreFrame
<1>1. CASE onResume
  <2>1. CASE starting
    BY <1>1, <2>1, SameThreadsBegin, FrameKeepsRestore DEF onResume, fileVars, appVars
  <2>2. CASE ~starting
    BY <1>1, <2>2, checkupBegins, FrameKeepsRestore DEF onResume, fileVars, appVars
  <2> QED BY <2>1, <2>2
<1>2. CASE NetworkDbDeleted
  BY <1>2, checkupBegins, FrameKeepsRestore DEF NetworkDbDeleted
<1>3. CASE Destroy \/ ResultLost \/ FinishEnds
  BY <1>3, SameThreadsBegin, FrameKeepsRestore
     DEF Destroy, ResultLost, FinishEnds, seedVars, fileVars, actVars, taskVars
<1>4. CASE DelayedStart
  BY <1>4, startNodeBegins, FrameKeepsRestore DEF DelayedStart, seedVars, fileVars
<1>5. CASE processStartupFinish
  BY <1>5, SameThreadsBegin, FrameKeepsRestore
     DEF processStartupFinish, OnSuccessResult, OnErrorResult, clearApp, finishAndGoToHome, fileVars
<1>6. CASE NetworkDbNotDeleted
  BY <1>6, SameThreadsBegin, FrameKeepsRestore DEF NetworkDbNotDeleted, clearApp, fileVars
<1>7. CASE WriteSeed
  BY <1>7, WritingKeepsRestore
<1>8. CASE OrphanStart
  <2>1. CASE pin = None /\ ProcessEnds
    BY <2>1, DeathKeepsRestore
  <2>2. CASE pin # None /\ ~ProcessEnds
    <3>1. pin \in Pins
      BY <2>2 DEF RestoreInv, RestoreType
    <3>2. UNCHANGED <<seedVars, fileVars, queue, task>>
      BY <1>8, <2>2 DEF OrphanStart
    <3>3. ThreadsBegin /\ (top' = top \/ top' # "restore")
      BY <1>8, <2>2, <3>1, SameThreadsBegin, LaunchBegins DEF OrphanStart
    <3> QED BY <3>2, <3>3, FrameKeepsRestore DEF seedVars, fileVars
  <2> QED BY <1>8, <2>1, <2>2, DeathKeepsRestore DEF OrphanStart
<1>9. CASE checkInit
  BY <1>9, ShowKeepsRestore, FrameKeepsRestore DEF checkInit, Show, seedVars, fileVars
<1> QED BY <1>1, <1>2, <1>3, <1>4, <1>5, <1>6, <1>7, <1>8, <1>9 DEF MainStep

(* A thread changes its own record only. *)
LEMMA OwnRecord ==
  ASSUME RestoreInv, NEW t \in Threads, NEW r \in Thread, th' = [th EXCEPT ![t] = r]
  PROVE  /\ th' \in [Threads -> Thread] /\ th'[t] = r
         /\ \A u \in Threads \ {t} : th'[u] = th[u]
BY DEF RestoreInv, RestoreType

LEMMA ThreadKeepsRestore ==
  ASSUME RestoreInv, NEW t \in Threads, ThreadStep(t)
  PROVE  RestoreInv'
<1>0. th[t] \in Thread
  BY DEF RestoreInv, RestoreType
<1>f. FreeThread \in Thread /\ FreeThread.pc = "free"
  BY DEF FreeThread, Thread
<1>1. CASE Decrypt(t)
  <2>1. /\ UNCHANGED <<plain, dat, real, origin, write, db, restoreDone, asked, queue, task, top>>
        /\ pin' = dat /\ th[t].pc = "decrypt" /\ th[t].pw = dat
        /\ th' = [th EXCEPT ![t].pc = "route"]
    BY <1>1 DEF Decrypt, fileVars, actVars
  <2>2. dat \in Pins /\ dat # None
    BY <2>1, SeedAssumption DEF RestoreInv, None
  <2>3. /\ th' \in [Threads -> Thread] /\ th'[t].pc = "route"
        /\ \A u \in Threads \ {t} : th'[u] = th[u]
    BY <1>0, <2>1 DEF RestoreInv, RestoreType, Thread
  <2>4. Committed' => Committed
    BY <2>1, <2>3 DEF Committed
  <2>5. RestoreType' /\ NoSeedNoStart'
    BY <2>1, <2>2, <2>3 DEF RestoreInv, RestoreType, NoSeedNoStart
  <2>6. NoWalletYet' /\ WriteFitsWallet'
    BY <2>1 DEF RestoreInv, NoWalletYet, WriteFitsWallet
  <2>7. AskedFirst'
    BY <2>1, <2>4 DEF RestoreInv, AskedFirst
  <2>8. \A u \in Threads : th'[u].pc = "decrypt" => th'[u].pw \in Pins
    BY <2>3 DEF RestoreInv
  <2> QED BY <2>5, <2>6, <2>7, <2>8 DEF RestoreInv
<1>2. CASE DecryptFails(t)
  <2>1. th' = [th EXCEPT ![t] = FreeThread]
    BY <1>2 DEF DecryptFails
  <2>2. ThreadsBegin
    BY <1>f, <2>1, OwnRecord DEF ThreadsBegin
  <2>3. RestoreFrame
    BY <1>2 DEF DecryptFails, clearApp, RestoreFrame, fileVars
  <2> QED BY <2>2, <2>3, FrameKeepsRestore
<1>3. CASE Route(t)
  <2>1. /\ UNCHANGED <<plain, dat, real, origin, write, pin, db, restoreDone, asked, queue, task>>
        /\ th[t].pc = "route"
    BY <1>3 DEF Route, seedVars, fileVars
  <2>2. dat # None
    BY <2>1 DEF RestoreInv, NoSeedNoStart
  <2>3. /\ th' \in [Threads -> Thread] /\ th'[t].pc \in {"free", "execute"}
        /\ th'[t].pc = "execute" => ~shouldRestoreChannelsBackup
        /\ \A u \in Threads \ {t} : th'[u] = th[u]
    <3>1. CASE th' = [th EXCEPT ![t] = FreeThread]
      BY <1>f, <3>1, OwnRecord
    <3>2. CASE ~shouldRestoreChannelsBackup /\ th' = [th EXCEPT ![t].pc = "execute"]
      BY <1>0, <3>2 DEF RestoreInv, RestoreType, Thread
    <3> QED BY <1>3, <3>1, <3>2 DEF Route, Divert
  <2>4. real = "restored" /\ Committed' => asked
    <3>1. CASE th'[t].pc = "execute"
      BY <2>3, <3>1 DEF RestoreInv, AskedFirst, shouldRestoreChannelsBackup
    <3>2. CASE th'[t].pc = "free"
      <4>1. Committed' => Committed
        BY <2>1, <2>3, <3>2 DEF Committed
      <4> QED BY <4>1 DEF RestoreInv, AskedFirst
    <3> QED BY <2>3, <3>1, <3>2
  <2>5. RestoreType' /\ NoSeedNoStart'
    BY <2>1, <2>2, <2>3 DEF RestoreInv, RestoreType, NoSeedNoStart
  <2>6. NoWalletYet' /\ WriteFitsWallet'
    BY <2>1 DEF RestoreInv, NoWalletYet, WriteFitsWallet
  <2>7. AskedFirst'
    BY <2>1, <2>4 DEF RestoreInv, AskedFirst
  <2>8. \A u \in Threads : th'[u].pc = "decrypt" => th'[u].pw \in Pins
    BY <2>3 DEF RestoreInv
  <2> QED BY <2>5, <2>6, <2>7, <2>8 DEF RestoreInv
<1>4. CASE Execute(t)
  <2>1. /\ UNCHANGED <<plain, dat, real, origin, write, pin, db, restoreDone, asked, task, top>>
        /\ th[t].pc = "execute" /\ th' = [th EXCEPT ![t] = FreeThread] /\ queue' = queue + 1
    BY <1>4 DEF Execute, seedVars, fileVars, actVars
  <2>2. Committed /\ dat # None
    BY <2>1 DEF Committed, RestoreInv, NoSeedNoStart
  <2>3. /\ th' \in [Threads -> Thread] /\ th'[t].pc = "free"
        /\ \A u \in Threads \ {t} : th'[u] = th[u]
    BY <1>f, <2>1, OwnRecord
  <2>4. RestoreType' /\ NoSeedNoStart'
    BY <2>1, <2>2, <2>3 DEF RestoreInv, RestoreType, NoSeedNoStart
  <2>5. NoWalletYet' /\ WriteFitsWallet'
    BY <2>1 DEF RestoreInv, NoWalletYet, WriteFitsWallet
  <2>6. AskedFirst'
    BY <2>1, <2>2 DEF RestoreInv, AskedFirst
  <2>7. \A u \in Threads : th'[u].pc = "decrypt" => th'[u].pw \in Pins
    BY <2>3 DEF RestoreInv
  <2> QED BY <2>4, <2>5, <2>6, <2>7 DEF RestoreInv
<1> QED BY <1>1, <1>2, <1>3, <1>4 DEF ThreadStep

LEMMA TaskKeepsRestore ==
  ASSUME RestoreInv, TaskStep
  PROVE  RestoreInv'
<1>1. /\ UNCHANGED <<plain, dat, real, origin, write, pin, restoreDone, asked, top, th>>
      /\ Committed
      /\ queue' = queue \/ (queue > 0 /\ queue' = queue - 1)
      /\ db' = db \/ task = "setup"
  BY DEF TaskStep, TaskStarts, TaskChecksNetwork, TaskSetsUp, TaskCreatesActors, TaskBoots,
         seedVars, fileVars, actVars, Committed
<1>2. dat # None
  BY <1>1 DEF RestoreInv, RestoreType, NoSeedNoStart, Committed
<1>3. RestoreType' /\ NoSeedNoStart'
  BY <1>1, <1>2 DEF RestoreInv, RestoreType, NoSeedNoStart
<1>4. NoWalletYet' /\ WriteFitsWallet'
  BY <1>1, <1>2 DEF RestoreInv, NoWalletYet, WriteFitsWallet
<1>5. AskedFirst'
  BY <1>1 DEF RestoreInv, AskedFirst
<1> QED BY <1>1, <1>3, <1>4, <1>5 DEF RestoreInv

LEMMA RestoreInvStep ==
  ASSUME SeedInv, RestoreInv, [Next]_vars
  PROVE  RestoreInv'
<1>1. CASE UNCHANGED vars
  BY <1>1, SameThreadsBegin, FrameKeepsRestore DEF vars, seedVars, fileVars, actVars, taskVars, RestoreFrame
<1>2. CASE Die
  BY <1>2, DeathKeepsRestore DEF Die
<1> QED BY <1>1, <1>2, UserKeepsRestore, MainKeepsRestore, ThreadKeepsRestore, TaskKeepsRestore DEF Next

LEMMA RestoreInvInit ==
  ASSUME Init
  PROVE  RestoreInv
<1>1. FreeThread \in Thread /\ FreeThread.pc = "free"
  BY DEF FreeThread, Thread
<1>2. th = [t \in Threads |-> FreeThread] /\ queue = 0 /\ task = "none"
  BY DEF Init, ProcessInit
<1>3. \A t \in Threads : th[t].pc = "free"
  BY <1>1, <1>2
<1>4. RestoreType /\ NoSeedNoStart /\ ~Committed
  BY <1>1, <1>2, <1>3 DEF Init, SeedInit, RestoreType, NoSeedNoStart, Committed
<1>5. real # "restored" /\ write.pc = "idle"
  BY DEF Init, SeedInit, NoWrite
<1>6. real = "none" => dat = None /\ origin = "unset"
  BY DEF Init, SeedInit
<1>7. real = "none" => ~plain /\ ~db
  BY DEF Init, SeedInit
<1>8. NoWalletYet /\ WriteFitsWallet /\ AskedFirst
  BY <1>5, <1>6, <1>7 DEF Init, NoWalletYet, WriteFitsWallet, AskedFirst
<1> QED BY <1>3, <1>4, <1>8 DEF RestoreInv

(* A wallet restored from its words gets no new database before the user has
   been asked for a backup of the channels, whatever screens are closed, starts
   overlap or deaths of the process there are (shouldRestoreChannelsBackup). *)
THEOREM AskedBeforeDatabase == Spec => []RestoreComesFirst
<1>1. Init => SeedInv /\ RestoreInv
  BY SeedInvInit, RestoreInvInit
<1>2. SeedInv /\ RestoreInv /\ [Next]_vars => SeedInv' /\ RestoreInv'
  BY SeedInvStep, RestoreInvStep
<1>3. RestoreInv => RestoreComesFirst
  BY DEF RestoreInv, AskedFirst, RestoreComesFirst
<1> QED BY <1>1, <1>2, <1>3, PTL DEF Spec

------------------------------------------------------------------------------
(* The application that is ready.  Its node was started with a network database
   that was read, which no later start replaces; and as long as starts have not
   overlapped, there is one of a thread, a queued task, a running task and a
   result at a time, so that nobody clears the keys between the decryption of
   the seed and the creation of the supervisor. *)
Running(t) == th[t].pc # "free"

OneStart ==
  /\ \A t, u \in Threads : Running(t) /\ Running(u) => t = u
  /\ (\E t \in Threads : Running(t)) => queue = 0 /\ task = "none" /\ events = <<>>
  /\ queue # 0 => queue = 1 /\ task = "none" /\ events = <<>>
  /\ task # "none" => events = <<>>
  /\ events # <<>> => Tail(events) = <<>>

KeysAreSet ==
  /\ (\E t \in Threads : th[t].pc \in {"route", "execute"}) \/ queue # 0 \/ task # "none" => keys
  /\ task = "boot" => supKeys
  /\ appKit => supKeys

ReadyInv ==
  /\ events \in Seq(Statuses)
  /\ appKit => nodes = 1
  /\ appKit \/ task \in {"actors", "boot"} => netdb = "ok"
  /\ ~overlap => OneStart /\ KeysAreSet

(* The start-up screen.  A start of its own is under way (Own) if one of its
   threads runs, and one that it waits for if the thread is past its decision. *)
Own(t) == Running(t) /\ th[t].own
Going == queue # 0 \/ task # "none" \/ events # <<>>

(* Until there is a seed, and until the screen on which it was made has gone,
   nothing is started. *)
Fresh == dat = None \/ (write.pc # "idle" /\ write.why \in {"create", "restore"})

QuietInv ==
  Fresh => /\ \A t \in Threads : ~Running(t)
           /\ ~Going /\ ~prompt /\ delayed = 0 /\ orphans = 0 /\ ~appKit

SeedScreenInv ==
  /\ plain => real = "old"
  /\ write.pc # "idle" => /\ write.why = "encrypt" => real = "old"
                          /\ write.why = "change" => dat # None
                          /\ write.why \in {"create", "restore"} => top = "seed" /\ main = "free"

StartingInv ==
  starting /\ alive # "no" =>
    (\E t \in Threads : Own(t) /\ th[t].pc = "execute") \/ Going \/ main = "finish"

ShownInv ==
  top = "startup" /\ alive = "yes" /\ main # "resume" /\ dat # None /\ real # "old" =>
    (\E t \in Threads : Own(t)) \/ Going \/ delayed # 0 \/ prompt \/ error # "none"

(* The delayed calls are those of the activity that is there. *)
DelayedInv == delayed \in Nat /\ orphans \in Nat /\ (alive = "no" => delayed = 0)

WaitInv == /\ DelayedInv
           /\ QuietInv /\ SeedScreenInv /\ StartingInv /\ ShownInv

(* What Show, and many other steps, do to ReadyInv: nothing. *)
SamePcs == \A t \in Threads : th'[t].pc = th[t].pc

LEMMA ReadyFrame ==
  ASSUME ReadyInv, SamePcs, UNCHANGED <<events, appKit, nodes, netdb, task, overlap, queue, keys, supKeys>>
  PROVE  ReadyInv'
<1>1. (OneStart => OneStart') /\ (KeysAreSet => KeysAreSet')
  BY DEF SamePcs, OneStart, KeysAreSet, Running
<1> QED BY <1>1 DEF ReadyInv, Statuses

LEMMA ReadyDeath ==
  ASSUME ProcessEnds
  PROVE  ReadyInv'
<1>1. \A t \in Threads : th'[t].pc = "free"
  BY DEF ProcessEnds, FreeThread
<1>2. events' = <<>> /\ queue' = 0 /\ task' = "none" /\ ~appKit'
  BY DEF ProcessEnds
<1>3. OneStart' /\ KeysAreSet'
  BY <1>1, <1>2 DEF OneStart, KeysAreSet, Running
<1>4. <<>> \in Seq(Statuses)
  OBVIOUS
<1> QED BY <1>2, <1>3, <1>4 DEF ReadyInv, Statuses

(* A start is launched; it is the only one unless it overlaps. *)
LEMMA ReadyLaunch ==
  ASSUME ReadyInv, RestoreType, NEW p, NEW mine, launchStartupTask(p, mine),
         UNCHANGED <<appKit, nodes, task, queue, keys, supKeys>>,
         events' \in Seq(Statuses), netdb' = netdb \/ netdb' = "ok"
  PROVE  ReadyInv'
<1>1. PICK t \in Threads : th[t].pc = "free" /\ th' = [th EXCEPT ![t] = [pc |-> "decrypt", pw |-> p, own |-> mine]]
  BY DEF launchStartupTask
<1>2. th'[t].pc = "decrypt" /\ \A u \in Threads \ {t} : th'[u] = th[u]
  BY <1>1 DEF RestoreType
<1>3. ASSUME ~overlap' PROVE OneStart' /\ KeysAreSet'
  <2>1. ~overlap /\ ~Busy /\ events' = <<>>
    BY <1>3 DEF launchStartupTask
  <2>2. \A u \in Threads : th[u].pc = "free"
    BY <2>1 DEF Busy
  <2>3. queue = 0 /\ task = "none"
    BY <2>1 DEF Busy, RestoreType
  <2>4. appKit => supKeys
    BY <2>1 DEF ReadyInv, KeysAreSet
  <2> QED BY <1>2, <2>1, <2>2, <2>3, <2>4 DEF OneStart, KeysAreSet, Running
<1> QED BY <1>3 DEF ReadyInv, Statuses

(* A result is taken from the queue of the main thread. *)
LEMMA ReadyResult ==
  ASSUME ReadyInv, events # <<>>, events' = Tail(events), SamePcs,
         UNCHANGED <<nodes, task, queue, overlap, supKeys>>,
         netdb' = netdb \/ netdb' = "ok", appKit' => appKit
  PROVE  ReadyInv'
<1>1. events' \in Seq(Statuses)
  BY DEF ReadyInv
<1>2. ASSUME ~overlap PROVE OneStart' /\ KeysAreSet'
  <2>1. OneStart /\ KeysAreSet
    BY <1>2 DEF ReadyInv
  <2>2. events' = <<>> /\ queue = 0 /\ task = "none" /\ \A t \in Threads : ~Running(t)
    BY <2>1 DEF OneStart
  <2> QED BY <2>1, <2>2 DEF OneStart, KeysAreSet, Running, SamePcs
<1> QED BY <1>1, <1>2 DEF ReadyInv, Statuses

(* startNode and checkup launch a start or change nothing here. *)
LEMMA StartsOrNot ==
  ASSUME startNode \/ checkup
  PROVE  UNCHANGED <<th, overlap>> \/ launchStartupTask(pin, TRUE)
<1>1. ASSUME startNode PROVE UNCHANGED <<th, overlap>> \/ launchStartupTask(pin, TRUE)
  BY <1>1 DEF startNode
<1>2. ASSUME checkup PROVE UNCHANGED <<th, overlap>> \/ launchStartupTask(pin, TRUE)
  BY <1>1, <1>2 DEF checkup
<1> QED BY <1>1, <1>2

LEMMA ShowReady ==
  ASSUME RestoreType, Show
  PROVE  SamePcs
<1>1. CASE UNCHANGED th
  BY <1>1 DEF SamePcs
<1>2. CASE th' = [t \in Threads |-> [th[t] EXCEPT !.own = FALSE]]
  BY <1>2 DEF SamePcs, RestoreType, Thread
<1> QED BY <1>1, <1>2 DEF Show

LEMMA UserKeepsReady ==
  ASSUME ReadyInv, RestoreType, UserStep
  PROVE  ReadyInv'
<1>1. CASE Open \/ RestoreIsDone \/ GrantAccess
  <2>1. Show /\ netdb' = netdb BY <1>1 DEF Open, RestoreIsDone, GrantAccess, fileVars
  <2>2. SamePcs BY <2>1, ShowReady
  <2> QED BY <2>1, <2>2, ReadyFrame DEF Show, appVars
<1>2. CASE Leave \/ MoveBackup
  <2>1. SamePcs BY <1>2 DEF Leave, MoveBackup, taskVars, SamePcs
  <2> QED BY <1>2, <2>1, ReadyFrame DEF Leave, MoveBackup, taskVars, appVars, fileVars
<1>3. CASE Restart
  BY <1>3, ReadyDeath DEF Restart
<1>4. ASSUME NEW p \in Pins, onPinConfirm(p) PROVE ReadyInv'
  <2>1. launchStartupTask(p, TRUE) /\ UNCHANGED <<netdb, queue, task, events, appKit, nodes, keys, supKeys>>
    BY <1>4 DEF onPinConfirm, appVars, fileVars
  <2>2. events' \in Seq(Statuses) BY <2>1 DEF ReadyInv
  <2> QED BY <2>1, <2>2, ReadyLaunch
<1>5. ASSUME NEW p \in Pins, NEW why \in Reasons, AskForSeed(p, why) PROVE ReadyInv'
  <2>1. SamePcs BY <1>5 DEF AskForSeed, taskVars, SamePcs
  <2> QED BY <1>5, <2>1, ReadyFrame DEF AskForSeed, taskVars, appVars, fileVars
<1> QED BY <1>1, <1>2, <1>3, <1>4, <1>5 DEF UserStep

LEMMA MainKeepsReady ==
  ASSUME ReadyInv, RestoreType, MainStep
  PROVE  ReadyInv'
<1>0. events \in Seq(Statuses) BY DEF ReadyInv
<1>1. CASE onResume \/ DelayedStart
  <2>1. UNCHANGED <<netdb, queue, task, events, appKit, nodes, keys, supKeys>>
    BY <1>1 DEF onResume, DelayedStart, appVars, fileVars
  <2>2. UNCHANGED <<th, overlap>> \/ launchStartupTask(pin, TRUE)
    BY <1>1, StartsOrNot DEF onResume, DelayedStart
  <2>3. CASE UNCHANGED <<th, overlap>>
    BY <2>1, <2>3, ReadyFrame DEF SamePcs
  <2>4. CASE launchStartupTask(pin, TRUE)
    <3>1. events' \in Seq(Statuses) BY <1>0, <2>1
    <3> QED BY <2>1, <2>4, <3>1, ReadyLaunch
  <2> QED BY <2>2, <2>3, <2>4
<1>2. CASE Destroy \/ WriteSeed \/ FinishEnds
  <2>1. SamePcs BY <1>2 DEF Destroy, WriteSeed, FinishEnds, taskVars, SamePcs
  <2> QED BY <1>2, <2>1, ReadyFrame DEF Destroy, WriteSeed, FinishEnds, taskVars, appVars, fileVars
<1>3. CASE ResultLost
  <2>1. SamePcs BY <1>3 DEF ResultLost, SamePcs
  <2> QED BY <1>3, <2>1, ReadyResult DEF ResultLost, appVars, fileVars
<1>4. CASE processStartupFinish
  <2>1. /\ events # <<>> /\ events' = Tail(events)
        /\ UNCHANGED <<th, netdb, nodes, task, queue, overlap, supKeys>>
    BY <1>4 DEF processStartupFinish, fileVars
  <2>2. appKit' => appKit
    BY <1>4 DEF processStartupFinish, OnSuccessResult, OnErrorResult, clearApp
  <2>3. SamePcs BY <2>1 DEF SamePcs
  <2> QED BY <2>1, <2>2, <2>3, ReadyResult
<1>5. CASE NetworkDbNotDeleted
  <2>1. SamePcs BY <1>5 DEF NetworkDbNotDeleted, SamePcs
  <2> QED BY <1>5, <2>1, ReadyResult DEF NetworkDbNotDeleted, clearApp, fileVars
<1>6. CASE NetworkDbDeleted
  <2>1. /\ events # <<>> /\ events' = Tail(events) /\ netdb' = "ok"
        /\ UNCHANGED <<queue, task, appKit, nodes, keys, supKeys>>
    BY <1>6 DEF NetworkDbDeleted, appVars
  <2>2. UNCHANGED <<th, overlap>> \/ launchStartupTask(pin, TRUE)
    BY <1>6, StartsOrNot DEF NetworkDbDeleted
  <2>3. CASE UNCHANGED <<th, overlap>>
    <3>1. SamePcs BY <2>3 DEF SamePcs
    <3> QED BY <2>1, <2>3, <3>1, ReadyResult
  <2>4. CASE launchStartupTask(pin, TRUE)
    <3>1. events' \in Seq(Statuses) BY <1>0, <2>1
    <3> QED BY <2>1, <2>4, <3>1, ReadyLaunch
  <2> QED BY <2>2, <2>3, <2>4
<1>7. CASE OrphanStart
  <2>1. CASE ProcessEnds
    BY <2>1, ReadyDeath
  <2>2. CASE ~ProcessEnds
    <3>1. UNCHANGED <<netdb, queue, task, events, appKit, nodes, keys, supKeys>>
      BY <1>7, <2>2 DEF OrphanStart, appVars, fileVars
    <3>2. UNCHANGED <<th, overlap>> \/ launchStartupTask(pin, FALSE)
      BY <1>7, <2>2 DEF OrphanStart
    <3>3. CASE UNCHANGED <<th, overlap>>
      BY <3>1, <3>3, ReadyFrame DEF SamePcs
    <3>4. CASE launchStartupTask(pin, FALSE)
      <4>1. events' \in Seq(Statuses) BY <1>0, <3>1
      <4> QED BY <3>1, <3>4, <4>1, ReadyLaunch
    <3> QED BY <3>2, <3>3, <3>4
  <2> QED BY <2>1, <2>2
<1>8. CASE checkInit
  <2>1. Show /\ netdb' = netdb BY <1>8 DEF checkInit, fileVars
  <2>2. SamePcs BY <2>1, ShowReady
  <2> QED BY <2>1, <2>2, ReadyFrame DEF Show, appVars
<1> QED BY <1>1, <1>2, <1>3, <1>4, <1>5, <1>6, <1>7, <1>8 DEF MainStep

LEMMA ThreadKeepsReady ==
  ASSUME ReadyInv, RestoreInv, NEW t \in Threads, ThreadStep(t)
  PROVE  ReadyInv'
<1>0. th[t] \in Thread /\ RestoreType
  BY DEF RestoreInv, RestoreType
<1>f. FreeThread \in Thread /\ FreeThread.pc = "free"
  BY DEF FreeThread, Thread
<1>1. CASE Decrypt(t)
  <2>1. /\ th[t].pc = "decrypt" /\ keys' = TRUE /\ th' = [th EXCEPT ![t].pc = "route"]
        /\ UNCHANGED <<netdb, queue, task, events, appKit, nodes, supKeys, overlap>>
    BY <1>1 DEF Decrypt, fileVars
  <2>2. th'[t].pc = "route" /\ \A u \in Threads \ {t} : th'[u] = th[u]
    BY <1>0, <2>1 DEF RestoreType
  <2>3. OneStart /\ KeysAreSet => OneStart' /\ KeysAreSet'
    BY <2>1, <2>2 DEF OneStart, KeysAreSet, Running
  <2> QED BY <2>1, <2>3 DEF ReadyInv, Statuses
<1>2. CASE DecryptFails(t)
  <2>1. /\ th[t].pc = "decrypt" /\ appKit' = FALSE /\ th' = [th EXCEPT ![t] = FreeThread]
        /\ UNCHANGED <<netdb, queue, task, events, nodes, supKeys, overlap>>
    BY <1>2 DEF DecryptFails, clearApp, fileVars
  <2>2. th'[t].pc = "free" /\ \A u \in Threads \ {t} : th'[u] = th[u]
    BY <1>0, <1>f, <2>1 DEF RestoreType
  <2>3. OneStart /\ KeysAreSet => OneStart' /\ KeysAreSet'
    BY <2>1, <2>2 DEF OneStart, KeysAreSet, Running
  <2> QED BY <2>1, <2>3 DEF ReadyInv, Statuses
<1>3. CASE Route(t)
  <2>1. /\ th[t].pc = "route"
        /\ UNCHANGED <<netdb, queue, task, events, appKit, nodes, keys, supKeys, overlap>>
    BY <1>3 DEF Route, appVars, fileVars
  <2>2. th'[t].pc \in {"free", "execute"} /\ \A u \in Threads \ {t} : th'[u] = th[u]
    <3>1. CASE th' = [th EXCEPT ![t] = FreeThread]
      BY <1>0, <1>f, <3>1 DEF RestoreType
    <3>2. CASE th' = [th EXCEPT ![t].pc = "execute"]
      BY <1>0, <3>2 DEF RestoreType
    <3> QED BY <1>3, <3>1, <3>2 DEF Route, Divert
  <2>3. OneStart /\ KeysAreSet => OneStart' /\ KeysAreSet'
    BY <2>1, <2>2 DEF OneStart, KeysAreSet, Running
  <2> QED BY <2>1, <2>3 DEF ReadyInv, Statuses
<1>4. CASE Execute(t)
  <2>1. /\ th[t].pc = "execute" /\ th' = [th EXCEPT ![t] = FreeThread] /\ queue' = queue + 1
        /\ UNCHANGED <<netdb, task, events, appKit, nodes, keys, supKeys, overlap>>
    BY <1>4 DEF Execute, appVars, fileVars
  <2>2. th'[t].pc = "free" /\ \A u \in Threads \ {t} : th'[u] = th[u]
    BY <1>0, <1>f, <2>1 DEF RestoreType
  <2>3. OneStart /\ KeysAreSet => OneStart' /\ KeysAreSet'
    <3> SUFFICES ASSUME OneStart, KeysAreSet PROVE OneStart' /\ KeysAreSet' OBVIOUS
    <3>1. queue = 0 /\ task = "none" /\ events = <<>> /\ keys BY <2>1 DEF OneStart, KeysAreSet, Running
    <3>2. \A u \in Threads : th'[u].pc = "free" BY <2>1, <2>2 DEF OneStart, Running
    <3>3. queue' = 1 BY <2>1, <3>1
    <3> QED BY <2>1, <3>1, <3>2, <3>3 DEF OneStart, KeysAreSet, Running
  <2> QED BY <2>1, <2>3 DEF ReadyInv, Statuses
<1> QED BY <1>1, <1>2, <1>3, <1>4 DEF ThreadStep

LEMMA Posted ==
  ASSUME NEW s \in Statuses, events \in Seq(Statuses), Post(s)
  PROVE  /\ task' = "none" /\ events' \in Seq(Statuses) /\ events' # <<>>
         /\ events = <<>> => Tail(events') = <<>>
BY DEF Post

LEMMA TaskKeepsReady ==
  ASSUME ReadyInv, NodeInv, RestoreType, TaskStep
  PROVE  ReadyInv'
<1>0. events \in Seq(Statuses) /\ queue \in Nat BY DEF ReadyInv, RestoreType
<1>1. CASE TaskStarts
  <2>1. /\ task = "none" /\ queue > 0 /\ task' = "net" /\ queue' = queue - 1
        /\ UNCHANGED <<th, netdb, events, appKit, nodes, keys, supKeys, overlap>>
    BY <1>1 DEF TaskStarts, appVars, fileVars
  <2>2. OneStart /\ KeysAreSet => OneStart' /\ KeysAreSet'
    BY <1>0, <2>1 DEF OneStart, KeysAreSet, Running
  <2> QED BY <2>1, <2>2 DEF ReadyInv, Statuses
(* The ways in which a task ends with a result. *)
<1>2. ASSUME NEW s \in Statuses, task # "none", Post(s), UNCHANGED <<th, queue, netdb, keys, overlap>>,
             appKit' => supKeys' \/ overlap, appKit' => nodes' = 1 /\ netdb = "ok"
      PROVE  ReadyInv'
  <2>1. /\ task' = "none" /\ events' \in Seq(Statuses) /\ events' # <<>>
        /\ events = <<>> => Tail(events') = <<>>
    BY <1>0, <1>2, Posted
  <2>2. ASSUME ~overlap, OneStart, KeysAreSet PROVE OneStart' /\ KeysAreSet'
    <3>1. events = <<>> /\ queue = 0 /\ (\A t \in Threads : ~Running(t)) BY <1>2, <2>2 DEF OneStart
    <3>2. \A t \in Threads : th'[t].pc = "free" BY <1>2, <3>1 DEF Running
    <3>3. OneStart' BY <1>2, <2>1, <3>1, <3>2 DEF OneStart, Running
    <3>4. KeysAreSet' BY <1>2, <2>1, <2>2, <3>1, <3>2 DEF KeysAreSet
    <3> QED BY <3>3, <3>4
  <2>3. ~overlap' => OneStart' /\ KeysAreSet' BY <1>2, <2>2 DEF ReadyInv
  <2> QED BY <1>2, <2>1, <2>3 DEF ReadyInv, Statuses
<1>3. appKit => supKeys \/ overlap BY DEF ReadyInv, KeysAreSet
<1>4. appKit => nodes = 1 /\ netdb = "ok" BY DEF ReadyInv
<1>5. CASE TaskChecksNetwork
  <2>1. task = "net" /\ UNCHANGED <<th, queue, netdb, appKit, nodes, keys, supKeys, overlap>>
    BY <1>5 DEF TaskChecksNetwork, appVars, fileVars
  <2>2. CASE task' = "setup" /\ events' = events
    <3>1. OneStart /\ KeysAreSet => OneStart' /\ KeysAreSet'
      BY <2>1, <2>2 DEF OneStart, KeysAreSet, Running
    <3> QED BY <2>1, <2>2, <3>1 DEF ReadyInv, Statuses
  <2>3. CASE \E s \in {"NETWORK_ERROR", "GENERIC_ERROR"} : Post(s)
    BY <1>2, <1>3, <1>4, <2>1, <2>3 DEF Statuses
  <2> QED BY <1>5, <2>2, <2>3 DEF TaskChecksNetwork
<1>6. CASE TaskSetsUp
  <2>1. task = "setup" /\ UNCHANGED <<th, queue, netdb, appKit, keys, overlap>>
    BY <1>6 DEF TaskSetsUp
  <2>2. CASE netdb = "bad" /\ Post("NETWORK_DB_ERROR")
    <3>1. ~appKit' BY <1>4, <2>1, <2>2
    <3> QED BY <1>2, <2>1, <2>2, <3>1 DEF Statuses
  <2>3. CASE netdb = "ok" /\ task' = "actors" /\ UNCHANGED <<events, supKeys, nodes>>
    <3>1. OneStart /\ KeysAreSet => OneStart' /\ KeysAreSet'
      BY <2>1, <2>3 DEF OneStart, KeysAreSet, Running
    <3> QED BY <2>1, <2>3, <3>1 DEF ReadyInv, Statuses
  <2>4. CASE Post("GENERIC_ERROR") /\ UNCHANGED <<supKeys, nodes>>
    BY <1>2, <1>3, <1>4, <2>1, <2>4 DEF Statuses
  <2> QED BY <1>6, <2>2, <2>3, <2>4 DEF TaskSetsUp
<1>7. CASE TaskCreatesActors
  <2>1. task = "actors" /\ UNCHANGED <<th, queue, netdb, appKit, keys, nodes, overlap>>
    BY <1>7 DEF TaskCreatesActors, fileVars
  <2>2. CASE taken
    <3>1. Post("GENERIC_ERROR") /\ supKeys' = supKeys BY <1>7, <2>2 DEF TaskCreatesActors
    <3> QED BY <1>2, <1>3, <1>4, <2>1, <3>1 DEF Statuses
  <2>3. CASE ~taken
    <3>1. supKeys' = keys /\ task' = "boot" /\ events' = events BY <1>7, <2>3 DEF TaskCreatesActors
    <3>2. ~appKit BY <1>4, <2>3 DEF NodeInv
    <3>3. OneStart /\ KeysAreSet => OneStart' /\ KeysAreSet'
      BY <2>1, <3>1, <3>2 DEF OneStart, KeysAreSet, Running
    <3> QED BY <2>1, <3>1, <3>2, <3>3 DEF ReadyInv, Statuses
  <2> QED BY <2>2, <2>3
<1>8. CASE TaskBoots
  <2>1. task = "boot" /\ nodes' = nodes + 1 /\ UNCHANGED <<th, queue, netdb, keys, supKeys, overlap>>
    BY <1>8 DEF TaskBoots, fileVars
  <2>2. nodes' = 1 /\ ~appKit BY <1>4, <2>1 DEF NodeInv
  <2>3. netdb = "ok" /\ (supKeys \/ overlap) BY <2>1 DEF ReadyInv, KeysAreSet
  <2>4. \E s \in Statuses : Post(s) BY <1>8 DEF TaskBoots, Statuses
  <2> QED BY <1>2, <2>1, <2>2, <2>3, <2>4
<1> QED BY <1>1, <1>5, <1>6, <1>7, <1>8 DEF TaskStep

LEMMA ReadyInvStep ==
  ASSUME ReadyInv, NodeInv, RestoreInv, [Next]_vars
  PROVE  ReadyInv'
<1>0. RestoreType BY DEF RestoreInv
<1>1. CASE UNCHANGED vars
  BY <1>1, ReadyFrame DEF vars, taskVars, appVars, fileVars, SamePcs
<1>2. CASE Die
  BY <1>2, ReadyDeath DEF Die
<1> QED BY <1>0, <1>1, <1>2, UserKeepsReady, MainKeepsReady, ThreadKeepsReady, TaskKeepsReady DEF Next

LEMMA ReadyInvInit ==
  ASSUME Init
  PROVE  ReadyInv
<1>1. /\ th = [t \in Threads |-> FreeThread] /\ queue = 0 /\ task = "none" /\ events = <<>>
      /\ appKit = FALSE
  BY DEF Init, ProcessInit
<1>2. \A t \in Threads : th[t].pc = "free"
  BY <1>1 DEF FreeThread
<1>3. OneStart /\ KeysAreSet
  BY <1>1, <1>2 DEF OneStart, KeysAreSet, Running
<1>4. <<>> \in Seq(Statuses)
  OBVIOUS
<1> QED BY <1>1, <1>3, <1>4 DEF ReadyInv

(* The application that is ready (isAppReady) has a node that runs, and unless
   two starts have overlapped the NodeSupervisor was created after the keys were
   set by the decryption of the seed: no result of an older start, and no wrong
   PIN, clears them in between. *)
THEOREM ReadyIsAlwaysRunning == Spec => []ReadyIsRunning
<1>1. Init => NodeInv /\ SeedInv /\ RestoreInv /\ ReadyInv
  <2>1. Init => NodeInv
    BY DEF Init, ProcessInit, NodeInv
  <2> QED BY <2>1, SeedInvInit, RestoreInvInit, ReadyInvInit
<1>2. NodeInv /\ SeedInv /\ RestoreInv /\ ReadyInv /\ [Next]_vars =>
        NodeInv' /\ SeedInv' /\ RestoreInv' /\ ReadyInv'
  BY NodeInvStep, SeedInvStep, RestoreInvStep, ReadyInvStep
<1>3. ReadyInv => ReadyIsRunning
  BY DEF ReadyInv, KeysAreSet, ReadyIsRunning, isAppReady
<1> QED BY <1>1, <1>2, <1>3, PTL DEF Spec

------------------------------------------------------------------------------
(* The start-up screen. *)
WaitType == RestoreType /\ events \in Seq(Statuses) /\ delayed \in Nat /\ orphans \in Nat

(* A launch makes a thread run, an own one of the screen if it was launched for
   it, and touches no other. *)
LEMMA LaunchedThread ==
  ASSUME RestoreType, NEW p, NEW mine, launchStartupTask(p, mine)
  PROVE  \E t \in Threads : /\ th[t].pc = "free" /\ th'[t].pc = "decrypt" /\ th'[t].own = mine
                            /\ \A u \in Threads \ {t} : th'[u] = th[u]
<1>1. PICK t \in Threads : th[t].pc = "free" /\ th' = [th EXCEPT ![t] = [pc |-> "decrypt", pw |-> p, own |-> mine]]
  BY DEF launchStartupTask
<1> QED BY <1>1 DEF RestoreType

(* startNode, at a time when there is a seed: the screen is closed, asks for
   the PIN or has a start of its own. *)
LEMMA StartShows ==
  ASSUME RestoreType, startNode
  PROVE  /\ alive' = "closing" \/ (top' = top /\ alive' = alive /\ (prompt' \/ \E t \in Threads : Own(t)'))
         /\ \A t \in Threads : Own(t) /\ th[t].pc = "execute" => Own(t)' /\ th'[t].pc = "execute"
<1>1. CASE isAppReady
  BY <1>1 DEF startNode, finishAndGoToHome, Own, Running
<1>2. CASE ~isAppReady /\ pin = None
  BY <1>2 DEF startNode, Own, Running
<1>3. CASE ~isAppReady /\ pin # None
  <2>1. launchStartupTask(pin, TRUE) /\ UNCHANGED <<top, alive, prompt>>
    BY <1>3 DEF startNode
  <2>2. PICK t \in Threads : /\ th[t].pc = "free" /\ th'[t].pc = "decrypt" /\ th'[t].own = TRUE
                             /\ \A u \in Threads \ {t} : th'[u] = th[u]
    BY ZenonT(40), <2>1, LaunchedThread
  <2>3. Own(t)' BY <2>2 DEF Own, Running
  <2> QED BY <2>1, <2>2, <2>3 DEF Own, Running
<1> QED BY <1>1, <1>2, <1>3

(* What checkup does when the wallet is not of the old version. *)
LEMMA CheckupShows ==
  ASSUME RestoreType, SeedScreenInv, checkup
  PROVE  /\ plain' => plain
         /\ dat # None /\ real # "old" =>
              alive' = "closing" \/ (top' = top /\ alive' = alive /\ (prompt' \/ \E t \in Threads : Own(t)'))
         /\ \A t \in Threads : Own(t) /\ th[t].pc = "execute" => Own(t)' /\ th'[t].pc = "execute"
         /\ dat = None => UNCHANGED <<th, prompt, alive, top>>
         /\ alive' \in {alive, "closing"}
<1>1. plain' => plain
  BY DEF checkup, DeletePlain
<1>2. CASE plain \/ dat = None
  <2>1. UNCHANGED <<th, prompt, alive, top>> BY <1>2 DEF checkup
  <2> QED BY <1>1, <1>2, <2>1 DEF SeedScreenInv, Own, Running
<1>3. CASE ~(plain \/ dat = None)
  <2>1. startNode BY <1>3 DEF checkup
  <2>2. alive' \in {alive, "closing"} BY <2>1 DEF startNode, finishAndGoToHome
  <2> QED BY <1>1, <1>3, <2>1, <2>2, StartShows
<1> QED BY <1>2, <1>3

(* A step that leaves the screen, the threads and what they have started alone. *)
LEMMA WaitFrame ==
  ASSUME WaitInv, UNCHANGED <<dat, write, plain, real, th, queue, task, events, prompt, delayed, orphans,
                              top, main, starting, alive, error>>, appKit' => appKit
  PROVE  WaitInv'
<1>1. (Fresh' => Fresh) /\ (Going' <=> Going) BY DEF Fresh, Going
<1>2. QuietInv' BY <1>1 DEF WaitInv, QuietInv, Running
<1>3. SeedScreenInv' BY DEF WaitInv, SeedScreenInv
<1>4. StartingInv' BY <1>1 DEF WaitInv, StartingInv, Own, Running
<1>5. ShownInv' BY <1>1 DEF WaitInv, ShownInv, Own, Running
<1> QED BY <1>2, <1>3, <1>4, <1>5 DEF WaitInv, DelayedInv

LEMMA WaitDeath ==
  ASSUME WaitInv, ProcessEnds
  PROVE  WaitInv'
<1>1. \A t \in Threads : th'[t].pc = "free"
  BY DEF ProcessEnds, FreeThread
<1>2. /\ events' = <<>> /\ queue' = 0 /\ task' = "none" /\ ~appKit' /\ prompt' = FALSE /\ delayed' = 0
      /\ orphans' = 0 /\ top' = "none" /\ alive' = "no" /\ write'.pc = "idle" /\ UNCHANGED <<plain, real>>
  BY DEF ProcessEnds, SeedDies, NoWrite
<1>3. QuietInv' BY <1>1, <1>2 DEF QuietInv, Running, Going
<1>4. SeedScreenInv' BY <1>2 DEF WaitInv, SeedScreenInv
<1>5. StartingInv' /\ ShownInv' BY <1>2 DEF StartingInv, ShownInv
<1> QED BY <1>2, <1>3, <1>4, <1>5 DEF WaitInv, DelayedInv

LEMMA ShowKeepsWait ==
  ASSUME WaitInv, RestoreType, Show, top \in {"none", "restore", "setup", "home"}
  PROVE  WaitInv'
<1>1. /\ top' = "startup" /\ main = "free" /\ main' = "resume" /\ alive' = "yes"
      /\ UNCHANGED <<dat, write, plain, real, queue, task, events, prompt, delayed, orphans, appKit>>
      /\ (alive = "yes" /\ UNCHANGED <<starting, th>>) \/ starting' = FALSE
  BY DEF Show, seedVars, appVars
<1>2. \A t \in Threads : th'[t].pc = th[t].pc BY ShowReady DEF SamePcs
<1>3. (Fresh' => Fresh) /\ (Going' <=> Going) BY <1>1 DEF Fresh, Going
<1>4. QuietInv' BY <1>1, <1>2, <1>3 DEF WaitInv, QuietInv, Running
<1>5. SeedScreenInv' BY <1>1 DEF WaitInv, SeedScreenInv
<1>6. StartingInv' BY <1>1, <1>3 DEF WaitInv, StartingInv, Own, Running
<1>7. ShownInv' BY <1>1 DEF ShownInv
<1> QED BY <1>1, <1>4, <1>5, <1>6, <1>7 DEF WaitInv, DelayedInv

LEMMA UserKeepsWait ==
  ASSUME WaitInv, WaitType, SeedInv, UserStep
  PROVE  WaitInv'
<1> USE DEF WaitType
<1>1. CASE Open \/ RestoreIsDone \/ GrantAccess
  BY <1>1, ShowKeepsWait DEF Open, RestoreIsDone, GrantAccess
<1>2. CASE MoveBackup
  BY <1>2, WaitFrame DEF MoveBackup, seedVars, actVars, taskVars, appVars
<1>3. CASE Restart
  BY <1>3, WaitDeath DEF Restart
<1>4. CASE Leave
  <2>1. /\ main = "free" /\ main' = "free" /\ write.pc = "idle" /\ top' = "none" /\ prompt' = FALSE
        /\ alive' = alive \/ alive' = "no"
        /\ UNCHANGED <<dat, write, plain, real, th, queue, task, events, starting, error, appKit>>
    BY <1>4 DEF Leave, seedVars, taskVars, appVars
  <2>2. \/ UNCHANGED <<delayed, orphans>>
        \/ orphans' = orphans + delayed /\ delayed' = 0
    BY <1>4 DEF Leave, Orphan
  <2>3. DelayedInv' BY <1>4, <2>2 DEF Leave, Orphan, WaitInv, DelayedInv
  <2>4. (Fresh' => Fresh) /\ (Going' <=> Going) BY <2>1 DEF Fresh, Going
  <2>5. QuietInv' BY <2>1, <2>2, <2>4 DEF WaitInv, QuietInv, Running
  <2>6. SeedScreenInv' BY <2>1 DEF WaitInv, SeedScreenInv
  <2>7. StartingInv' BY <2>1, <2>4 DEF WaitInv, StartingInv, Own, Running
  <2>8. ShownInv' BY <2>1 DEF ShownInv
  <2> QED BY <2>3, <2>5, <2>6, <2>7, <2>8 DEF WaitInv, DelayedInv
<1>5. ASSUME NEW p \in Pins, onPinConfirm(p) PROVE WaitInv'
  <2>1. /\ launchStartupTask(p, TRUE) /\ prompt /\ prompt' = FALSE
        /\ UNCHANGED <<dat, write, plain, real, queue, task, events, delayed, orphans, top, main, starting,
                       alive, error, appKit>>
    BY <1>5 DEF onPinConfirm, seedVars, appVars
  <2>2. PICK t \in Threads : /\ th[t].pc = "free" /\ th'[t].pc = "decrypt" /\ th'[t].own = TRUE
                             /\ \A u \in Threads \ {t} : th'[u] = th[u]
    BY ZenonT(40), <2>1, LaunchedThread
  <2>3. ~Fresh /\ ~Fresh' /\ (Going' <=> Going)
    BY <2>1 DEF WaitInv, QuietInv, Fresh, Going
  <2>4. QuietInv' BY <2>3 DEF QuietInv
  <2>5. SeedScreenInv' BY <2>1 DEF WaitInv, SeedScreenInv
  <2>6. StartingInv' BY <2>1, <2>2, <2>3 DEF WaitInv, StartingInv, Own, Running
  <2>7. Own(t)' BY <2>2 DEF Own, Running
  <2>8. ShownInv' BY <2>7 DEF ShownInv
  <2> QED BY <2>1, <2>4, <2>5, <2>6, <2>8 DEF WaitInv, DelayedInv
<1>6. ASSUME NEW p \in Pins, NEW why \in Reasons, AskForSeed(p, why) PROVE WaitInv'
  <2>1. /\ main = "free" /\ write'.pc = "open" /\ write'.why = why
        /\ (top' = IF why \in {"create", "restore"} THEN "seed" ELSE top)
        /\ UNCHANGED <<dat, plain, real, th, queue, task, events, prompt, delayed, orphans, main, starting,
                       alive, error, appKit>>
    BY <1>6 DEF AskForSeed, EncryptWallet, taskVars, appVars
  <2>2. /\ why \in {"create", "restore"} => dat = None
        /\ why = "encrypt" => plain
        /\ why = "change" => dat # None
    BY <1>6 DEF AskForSeed, EncryptWallet, Reasons
  <2>3. (Fresh' => Fresh) /\ (Going' <=> Going) BY <2>1, <2>2 DEF Fresh, Going
  <2>4. QuietInv' BY <2>1, <2>3 DEF WaitInv, QuietInv, Running
  <2>5. SeedScreenInv' BY <2>1, <2>2 DEF WaitInv, SeedScreenInv
  <2>6. StartingInv' BY <2>1, <2>3 DEF WaitInv, StartingInv, Own, Running
  <2>7. ShownInv' BY <2>1, <2>3 DEF WaitInv, ShownInv, Own, Running
  <2> QED BY <2>1, <2>4, <2>5, <2>6, <2>7 DEF WaitInv, DelayedInv
<1> QED BY <1>1, <1>2, <1>3, <1>4, <1>5, <1>6 DEF UserStep

LEMMA WritingKeepsWait ==
  ASSUME WaitInv, WaitType, SeedInv, RestoreInv, WriteSeed
  PROVE  WaitInv'
<1>1. /\ main = "free" /\ SeedStep
      /\ UNCHANGED <<th, queue, task, events, prompt, delayed, orphans, starting, alive, error, appKit>>
  BY DEF WriteSeed, taskVars, appVars
<1>2. \/ top = "seed" /\ write'.pc = "idle" /\ top' = "startup" /\ main' = "resume"
      \/ ~(top = "seed" /\ write'.pc = "idle") /\ UNCHANGED <<top, main>>
  BY DEF WriteSeed
<1>3. /\ write.pc # "idle" /\ (plain' => plain) /\ (write'.pc # "idle" => write'.why = write.why)
      /\ real' # real => write.pc = "check" /\ write.why \in {"create", "restore"} /\ real # "old" /\ real' # "old"
      /\ dat' = dat \/ (dat' # None /\ write.pc = "check" /\ write'.pc = "pin")
      /\ write'.pc = "idle" => dat' = dat
  <2>1. CASE OpenTemp BY <2>1 DEF OpenTemp, SeedInv
  <2>2. CASE FillTemp BY <2>2 DEF FillTemp, SeedInv
  <2>3. CASE WriteFails BY <2>3 DEF WriteFails, SeedInv, NoWrite
  <2>4. CASE SetPin BY <2>4 DEF SetPin, SeedInv, NoWrite
  <2>5. CASE MoveTemp
    <3>1. dat' # None /\ write.pc = "check" /\ write'.pc = "pin" /\ write'.why = write.why /\ plain' = plain
      BY <2>5, SeedAssumption DEF MoveTemp, SeedInv, None
    <3>2. real' # real => write.why \in {"create", "restore"} /\ real' # "old"
      BY <2>5 DEF MoveTemp
    <3>3. write.why \in {"create", "restore"} => real # "old"
      BY <3>1 DEF RestoreInv, WriteFitsWallet
    <3> QED BY <3>1, <3>2, <3>3
  <2> QED BY <1>1, <2>1, <2>2, <2>3, <2>4, <2>5 DEF SeedStep
<1>4. (Fresh' => Fresh) /\ (Going' <=> Going) BY <1>1, <1>3 DEF Fresh, Going
<1>5. QuietInv' BY <1>1, <1>4 DEF WaitInv, QuietInv, Running
<1>6. SeedScreenInv'
  <2>1. plain' => real' = "old" BY <1>3 DEF WaitInv, SeedScreenInv
  <2>2. ASSUME write'.pc # "idle" PROVE /\ write'.why = "encrypt" => real' = "old"
                                        /\ write'.why = "change" => dat' # None
                                        /\ write'.why \in {"create", "restore"} => top' = "seed" /\ main' = "free"
    BY <1>1, <1>2, <1>3, <2>2 DEF WaitInv, SeedScreenInv
  <2> QED BY <2>1, <2>2 DEF SeedScreenInv
<1>7. StartingInv' BY <1>1, <1>2, <1>4 DEF WaitInv, StartingInv, Own, Running
<1>8. ShownInv'
  <2> SUFFICES ASSUME top' = "startup", alive' = "yes", main' # "resume", dat' # None, real' # "old"
               PROVE  (\E t \in Threads : Own(t)') \/ Going' \/ delayed' # 0 \/ prompt' \/ error' # "none"
    BY DEF ShownInv
  <2>1. top = "startup" /\ main = "free" BY <1>1, <1>2
  <2>2. write.why \notin {"create", "restore"} BY <1>3, <2>1 DEF WaitInv, SeedScreenInv
  <2>3. real = real' BY <1>3, <2>2
  <2>4. write.why = "change" BY <1>3, <2>2, <2>3 DEF WaitInv, SeedScreenInv, SeedInv, Reasons
  <2>5. dat # None BY <1>3, <2>4 DEF WaitInv, SeedScreenInv
  <2> QED BY <1>1, <1>4, <2>1, <2>3, <2>5 DEF WaitInv, ShownInv, Own, Running
<1> QED BY <1>1, <1>5, <1>6, <1>7, <1>8 DEF WaitInv, DelayedInv

(* A step that leaves the seed alone, at a time when it exists: only what the
   screen waits for is to be shown. *)
LEMMA WaitLater ==
  ASSUME WaitInv, ~Fresh, UNCHANGED <<dat, write, real>>, plain' => plain, DelayedInv',
         write.pc # "idle" /\ write.why \in {"create", "restore"} => UNCHANGED <<top, main>>,
         StartingInv', ShownInv'
  PROVE  WaitInv'
<1>1. ~Fresh' BY DEF Fresh
<1>2. QuietInv' BY <1>1 DEF QuietInv
<1>3. SeedScreenInv' BY DEF WaitInv, SeedScreenInv, Fresh
<1> QED BY <1>2, <1>3 DEF WaitInv

(* A result is there to be handled, so there is a seed. *)
LEMMA ResultMeansSeed ==
  ASSUME WaitInv, events # <<>> \/ queue # 0 \/ task # "none" \/ delayed # 0 \/ orphans # 0
                  \/ prompt \/ \E t \in Threads : Running(t)
  PROVE  ~Fresh
BY DEF WaitInv, QuietInv, Going

LEMMA ResumeKeepsWait ==
  ASSUME WaitInv, WaitType, onResume
  PROVE  WaitInv'
<1> USE DEF WaitType
<1>1. /\ main = "resume" /\ main' = "free"
      /\ UNCHANGED <<dat, write, real, starting, delayed, orphans, queue, task, events, appKit>>
  BY DEF onResume, appVars
<1>2. Going' <=> Going BY <1>1 DEF Going
<1>3. write.pc # "idle" => write.why \notin {"create", "restore"}
  BY <1>1 DEF WaitInv, SeedScreenInv
<1>4. CASE starting
  <2>1. UNCHANGED <<plain, top, alive, prompt, error, th>> BY <1>4 DEF onResume
  <2>2. QuietInv' BY <1>1, <1>2, <2>1 DEF WaitInv, QuietInv, Fresh, Running
  <2>3. SeedScreenInv' BY <1>1, <1>3, <2>1 DEF WaitInv, SeedScreenInv
  <2>4. StartingInv' BY <1>1, <1>2, <2>1 DEF WaitInv, StartingInv, Own, Running
  <2>5. alive = "yes" => (\E t \in Threads : Own(t)) \/ Going BY <1>1, <1>4 DEF WaitInv, StartingInv
  <2>6. ShownInv' BY <1>2, <2>1, <2>5 DEF ShownInv, Own, Running
  <2> QED BY <1>1, <2>1, <2>2, <2>3, <2>4, <2>6 DEF WaitInv, DelayedInv
<1>5. CASE ~starting
  <2>1. checkup BY <1>5 DEF onResume
  <2>2. /\ plain' => plain
        /\ dat # None /\ real # "old" =>
              alive' = "closing" \/ (top' = top /\ alive' = alive /\ (prompt' \/ \E t \in Threads : Own(t)'))
        /\ dat = None => UNCHANGED <<th, prompt, alive, top>>
        /\ alive' \in {alive, "closing"}
    BY <2>1, CheckupShows DEF WaitInv
  <2>3. QuietInv' BY <1>1, <1>2, <1>3, <2>2 DEF WaitInv, QuietInv, Fresh, Running
  <2>4. SeedScreenInv' BY <1>1, <1>3, <2>2 DEF WaitInv, SeedScreenInv
  <2>5. StartingInv' BY <1>1, <1>5 DEF StartingInv
  <2>6. ShownInv' BY <1>1, <2>2 DEF ShownInv
  <2> QED BY <1>1, <2>2, <2>3, <2>4, <2>5, <2>6 DEF WaitInv, DelayedInv
<1> QED BY <1>4, <1>5

LEMMA ResultKeepsWait ==
  ASSUME WaitInv, WaitType, processStartupFinish \/ NetworkDbNotDeleted
  PROVE  WaitInv'
<1> USE DEF WaitType
<1>1. /\ main = "free" /\ events # <<>> /\ starting' = FALSE
      /\ UNCHANGED <<dat, write, real, plain, main, orphans>>
  BY DEF processStartupFinish, NetworkDbNotDeleted
<1>2. /\ DelayedInv'
      /\ alive' = "closing" \/ error' # "none"
      /\ top' = top \/ alive' = "closing"
  BY DEF processStartupFinish, NetworkDbNotDeleted, OnSuccessResult, OnErrorResult, finishAndGoToHome, DelayedInv
<1>3. ~Fresh BY <1>1, ResultMeansSeed
<1>4. StartingInv' BY <1>1 DEF StartingInv
<1>5. ShownInv' BY <1>2 DEF ShownInv
<1>6. write.pc # "idle" => write.why \notin {"create", "restore"} BY <1>3 DEF Fresh
<1> QED BY <1>1, <1>2, <1>3, <1>4, <1>5, <1>6, WaitLater

LEMMA AgainKeepsWait ==
  ASSUME WaitInv, WaitType, NetworkDbDeleted
  PROVE  WaitInv'
<1> USE DEF WaitType
<1>1. /\ main = "free" /\ main' = "finish" /\ events # <<>> /\ checkup
      /\ UNCHANGED <<dat, write, real, delayed, orphans>>
  BY DEF NetworkDbDeleted
<1>2. ~Fresh BY <1>1, ResultMeansSeed
<1>3. /\ plain' => plain
      /\ dat # None /\ real # "old" =>
           alive' = "closing" \/ (top' = top /\ alive' = alive /\ (prompt' \/ \E t \in Threads : Own(t)'))
  BY <1>1, CheckupShows DEF WaitInv
<1>4. StartingInv' BY <1>1 DEF StartingInv
<1>5. ShownInv' BY <1>1, <1>3 DEF ShownInv
<1>6. write.pc # "idle" => write.why \notin {"create", "restore"} BY <1>2 DEF Fresh
<1>7. DelayedInv'
  <2>1. alive' \in {alive, "closing"} BY <1>1, CheckupShows DEF WaitInv
  <2> QED BY <1>1, <2>1 DEF WaitInv, DelayedInv
<1> QED BY <1>1, <1>2, <1>3, <1>4, <1>5, <1>6, <1>7, WaitLater

LEMMA DelayedKeepsWait ==
  ASSUME WaitInv, WaitType, DelayedStart
  PROVE  WaitInv'
<1> USE DEF WaitType
<1>1. /\ main = "free" /\ delayed > 0 /\ delayed' = delayed - 1 /\ startNode
      /\ UNCHANGED <<dat, write, real, plain, main, starting, orphans, queue, task, events>>
  BY DEF DelayedStart, seedVars
<1>2. delayed # 0 /\ DelayedInv'
  <2>1. delayed # 0 /\ alive # "no" /\ delayed' \in Nat BY <1>1 DEF WaitInv, DelayedInv
  <2>2. alive' \in {alive, "closing"} BY <1>1 DEF startNode, finishAndGoToHome
  <2> QED BY <1>1, <2>1, <2>2 DEF DelayedInv
<1>3. ~Fresh BY <1>2, ResultMeansSeed
<1>4. /\ alive' = "closing" \/ (top' = top /\ alive' = alive /\ (prompt' \/ \E t \in Threads : Own(t)'))
      /\ \A t \in Threads : Own(t) /\ th[t].pc = "execute" => Own(t)' /\ th'[t].pc = "execute"
  BY <1>1, StartShows
<1>5. StartingInv'
  <2>1. alive # "no" BY <1>2 DEF WaitInv, DelayedInv
  <2> QED BY <1>1, <1>4, <2>1 DEF WaitInv, StartingInv, Going
<1>6. ShownInv' BY <1>1, <1>4 DEF ShownInv
<1>7. write.pc # "idle" => write.why \notin {"create", "restore"} BY <1>3 DEF Fresh
<1> QED BY <1>1, <1>2, <1>3, <1>4, <1>5, <1>6, <1>7, WaitLater

LEMMA OrphanKeepsWait ==
  ASSUME WaitInv, WaitType, OrphanStart
  PROVE  WaitInv'
<1> USE DEF WaitType
<1>1. CASE ProcessEnds
  BY <1>1, WaitDeath
<1>2. CASE ~ProcessEnds
  <2>1. /\ main = "free" /\ orphans > 0 /\ orphans' = orphans - 1
        /\ UNCHANGED <<dat, write, real, plain, alive, starting, main, prompt, error, delayed, queue, task, events>>
        /\ (top' = "home" /\ UNCHANGED th) \/ (launchStartupTask(pin, FALSE) /\ UNCHANGED top)
    BY <1>2 DEF OrphanStart, seedVars
  <2>2. orphans # 0 /\ DelayedInv' BY <2>1 DEF WaitInv, DelayedInv
  <2>3. ~Fresh BY <2>2, ResultMeansSeed
  <2>4. \A t \in Threads : Running(t) => th'[t] = th[t]
    <3>1. CASE UNCHANGED th BY <3>1
    <3>2. CASE launchStartupTask(pin, FALSE)
      BY <3>2, LaunchedThread DEF Running
    <3> QED BY <2>1, <3>1, <3>2
  <2>5. \A t \in Threads : Own(t) => Own(t)' /\ th'[t].pc = th[t].pc
    BY <2>4 DEF Own, Running
  <2>6. Going' <=> Going BY <2>1 DEF Going
  <2>7. StartingInv' BY <2>1, <2>5, <2>6 DEF WaitInv, StartingInv
  <2>8. ShownInv' BY <2>1, <2>5, <2>6 DEF WaitInv, ShownInv
  <2>9. write.pc # "idle" => write.why \notin {"create", "restore"} BY <2>3 DEF Fresh
  <2> QED BY <2>1, <2>2, <2>3, <2>7, <2>8, <2>9, WaitLater
<1> QED BY <1>1, <1>2

LEMMA MainKeepsWait ==
  ASSUME WaitInv, WaitType, SeedInv, RestoreInv, MainStep
  PROVE  WaitInv'
<1>1. CASE Destroy
  <2>1. /\ alive' = "no" /\ prompt' = FALSE /\ orphans' = orphans + delayed /\ delayed' = 0
        /\ UNCHANGED <<dat, write, plain, real, th, queue, task, events, starting, error, appKit, top, main>>
    BY <1>1 DEF Destroy, Orphan, seedVars, taskVars, appVars
  <2>2. DelayedInv' BY <2>1 DEF WaitInv, DelayedInv
  <2>3. (Fresh' => Fresh) /\ (Going' <=> Going) BY <2>1 DEF Fresh, Going
  <2>4. QuietInv' BY <2>1, <2>3 DEF WaitInv, QuietInv, Running
  <2>5. SeedScreenInv' BY <2>1 DEF WaitInv, SeedScreenInv
  <2>6. StartingInv' /\ ShownInv' BY <2>1 DEF StartingInv, ShownInv
  <2> QED BY <2>2, <2>4, <2>5, <2>6 DEF WaitInv
<1>2. CASE ResultLost
  <2>1. /\ alive = "no" /\ events # <<>>
        /\ UNCHANGED <<dat, write, plain, real, top, main, alive, delayed, orphans>>
    BY <1>2 DEF ResultLost, seedVars, actVars
  <2>2. ~Fresh BY <2>1, ResultMeansSeed
  <2>3. StartingInv' /\ ShownInv' /\ DelayedInv' BY <2>1 DEF StartingInv, ShownInv, DelayedInv, WaitInv
  <2> QED BY <2>1, <2>2, <2>3, WaitLater
<1>3. CASE FinishEnds
  <2>1. /\ main = "finish" /\ main' = "free" /\ starting' = FALSE
        /\ UNCHANGED <<dat, write, plain, real, th, queue, task, events, prompt, delayed, orphans, top, alive,
                       error, appKit>>
    BY <1>3 DEF FinishEnds, seedVars, taskVars, appVars
  <2>2. (Fresh' => Fresh) /\ (Going' <=> Going) BY <2>1 DEF Fresh, Going
  <2>3. QuietInv' BY <2>1, <2>2 DEF WaitInv, QuietInv, Running
  <2>4. SeedScreenInv' BY <2>1 DEF WaitInv, SeedScreenInv
  <2>5. StartingInv' BY <2>1 DEF StartingInv
  <2>6. ShownInv' BY <2>1, <2>2 DEF WaitInv, ShownInv, Own, Running
  <2> QED BY <2>1, <2>3, <2>4, <2>5, <2>6 DEF WaitInv, DelayedInv
<1>4. CASE checkInit
  BY <1>4, ShowKeepsWait DEF checkInit, WaitType
<1> QED BY <1>1, <1>2, <1>3, <1>4, ResumeKeepsWait, WritingKeepsWait, ResultKeepsWait, AgainKeepsWait,
           DelayedKeepsWait, OrphanKeepsWait DEF MainStep

LEMMA ThreadKeepsWait ==
  ASSUME WaitInv, WaitType, NEW t \in Threads, ThreadStep(t)
  PROVE  WaitInv'
<1> USE DEF WaitType
<1>f. FreeThread.pc = "free" BY DEF FreeThread
<1>r. Running(t) BY DEF ThreadStep, Decrypt, DecryptFails, Route, Execute, Running
<1>s. ~Fresh BY <1>r, ResultMeansSeed
<1>w. /\ UNCHANGED <<dat, write, plain, real, main, alive, task, events>>
      /\ write.pc # "idle" => write.why \notin {"create", "restore"}
  BY <1>s DEF ThreadStep, Decrypt, DecryptFails, Route, Execute, seedVars, actVars, Fresh
<1>1. CASE Decrypt(t)
  <2>1. /\ th[t].pc = "decrypt" /\ th' = [th EXCEPT ![t].pc = "route"]
        /\ UNCHANGED <<top, starting, prompt, error, delayed, orphans, queue>>
    BY <1>1 DEF Decrypt, actVars
  <2>2. /\ th'[t].pc = "route" /\ th'[t].own = th[t].own
        /\ \A u \in Threads \ {t} : th'[u] = th[u]
    BY <2>1 DEF RestoreType, Thread
  <2>3. Going' <=> Going BY <1>w, <2>1 DEF Going
  <2>4. \A u \in Threads : (Own(u) => Own(u)') /\ (th[u].pc = "execute" => th'[u].pc = "execute")
    BY <2>1, <2>2 DEF Own, Running
  <2>5. StartingInv' BY <1>w, <2>1, <2>3, <2>4 DEF WaitInv, StartingInv
  <2>6. ShownInv' BY <1>w, <2>1, <2>3, <2>4 DEF WaitInv, ShownInv
  <2>7. DelayedInv' BY <1>w, <2>1 DEF WaitInv, DelayedInv
  <2> QED BY <1>s, <1>w, <2>5, <2>6, <2>7, WaitLater
<1>2. CASE DecryptFails(t)
  <2>1. /\ th[t].pc = "decrypt" /\ th' = [th EXCEPT ![t] = FreeThread]
        /\ UNCHANGED <<top, prompt, queue>>
    BY <1>2 DEF DecryptFails
  <2>2. \A u \in Threads \ {t} : th'[u] = th[u]
    BY <2>1 DEF RestoreType
  <2>3. Going' <=> Going BY <1>w, <2>1 DEF Going
  <2>4. \A u \in Threads \ {t} : (Own(u) => Own(u)') /\ (th[u].pc = "execute" => th'[u].pc = "execute")
    BY <2>2 DEF Own, Running
  <2>5. CASE th[t].own /\ alive # "no"
    <3>1. starting' = FALSE /\ error' # "none" /\ delayed' \in Nat /\ orphans' \in Nat
      <4>1. starting' = FALSE /\ error' # "none" BY <1>2, <2>5 DEF DecryptFails
      <4>2. delayed' = delayed \/ delayed' = delayed + 1 BY <1>2, <2>5 DEF DecryptFails
      <4>3. orphans' = orphans \/ orphans' = orphans + 1 BY <1>2, <2>5 DEF DecryptFails
      <4> QED BY <4>1, <4>2, <4>3
    <3>2. StartingInv' /\ ShownInv' /\ DelayedInv' BY <1>w, <2>5, <3>1 DEF StartingInv, ShownInv, DelayedInv
    <3> QED BY <1>s, <1>w, <2>1, <3>2, WaitLater
  <2>6. CASE ~(th[t].own /\ alive # "no")
    <3>1. /\ (starting' => starting) /\ UNCHANGED <<error, delayed>>
      BY <1>2, <2>6 DEF DecryptFails
    <3>2. orphans' \in Nat
      <4>1. orphans' = orphans \/ orphans' = orphans + 1 BY <1>2, <2>6 DEF DecryptFails
      <4> QED BY <4>1
    <3>3. StartingInv' BY <1>w, <2>1, <2>3, <2>4, <3>1 DEF WaitInv, StartingInv
    <3>4. ShownInv'
      <4>1. alive = "yes" => ~Own(t) BY <2>6 DEF Own
      <4> QED BY <1>w, <2>1, <2>3, <2>4, <3>1, <4>1 DEF WaitInv, ShownInv
    <3>5. DelayedInv' BY <1>w, <3>1, <3>2 DEF WaitInv, DelayedInv
    <3> QED BY <1>s, <1>w, <2>1, <3>3, <3>4, <3>5, WaitLater
  <2> QED BY <2>5, <2>6
<1>3. CASE Route(t)
  <2>1. /\ th[t].pc = "route" /\ UNCHANGED <<error, delayed, orphans, queue>>
    BY <1>3 DEF Route
  <2>2. Going' <=> Going BY <1>w, <2>1 DEF Going
  <2>3. DelayedInv' BY <1>w, <2>1 DEF WaitInv, DelayedInv
  <2>4. CASE \E screen \in {"restore", "setup"} : Divert(t, screen)
    <3>1. th' = [th EXCEPT ![t] = FreeThread] /\ top' # "startup" /\ starting' = starting
      BY <2>4 DEF Divert
    <3>2. \A u \in Threads \ {t} : th'[u] = th[u]
      BY <3>1 DEF RestoreType
    <3>3. StartingInv' BY <1>w, <2>1, <2>2, <3>1, <3>2 DEF WaitInv, StartingInv, Own, Running
    <3>4. ShownInv' BY <3>1 DEF ShownInv
    <3> QED BY <1>s, <1>w, <2>3, <3>3, <3>4, WaitLater
  <2>5. CASE /\ starting' = (starting \/ th[t].own)
             /\ th' = [th EXCEPT ![t].pc = "execute"] /\ UNCHANGED <<top, prompt>>
    <3>1. /\ th'[t].pc = "execute" /\ th'[t].own = th[t].own
          /\ \A u \in Threads \ {t} : th'[u] = th[u]
      BY <2>5 DEF RestoreType, Thread
    <3>2. \A u \in Threads : (Own(u) => Own(u)') /\ (th[u].pc = "execute" => th'[u].pc = "execute")
      BY <2>1, <3>1 DEF Own, Running
    <3>3. th[t].own => Own(t)' BY <3>1 DEF Own, Running
    <3>4. StartingInv'
      <4>1. CASE th[t].own BY <3>1, <3>3, <4>1 DEF StartingInv
      <4>2. CASE ~th[t].own
        BY <1>w, <2>2, <2>5, <3>2, <4>2 DEF WaitInv, StartingInv
      <4> QED BY <4>1, <4>2
    <3>5. ShownInv' BY <1>w, <2>1, <2>2, <2>5, <3>2 DEF WaitInv, ShownInv
    <3> QED BY <1>s, <1>w, <2>3, <2>5, <3>4, <3>5, WaitLater
  <2> QED BY <1>3, <2>4, <2>5 DEF Route
<1>4. CASE Execute(t)
  <2>1. queue' = queue + 1 /\ UNCHANGED <<top, delayed, orphans>> BY <1>4 DEF Execute, actVars
  <2>2. Going'
    <3>1. queue' # 0 BY <2>1 DEF RestoreType
    <3> QED BY <3>1 DEF Going
  <2>3. StartingInv' /\ ShownInv' BY <2>2 DEF StartingInv, ShownInv
  <2>4. DelayedInv' BY <1>w, <2>1 DEF WaitInv, DelayedInv
  <2> QED BY <1>s, <1>w, <2>1, <2>3, <2>4, WaitLater
<1> QED BY <1>1, <1>2, <1>3, <1>4 DEF ThreadStep

LEMMA TaskKeepsWait ==
  ASSUME WaitInv, WaitType, TaskStep
  PROVE  WaitInv'
<1> USE DEF WaitType
<1>1. (queue # 0 \/ task # "none") /\ UNCHANGED <<dat, write, plain, real, top, main, alive, delayed, orphans>>
  <2>1. queue > 0 => queue # 0 OBVIOUS
  <2> QED BY <2>1 DEF TaskStep, TaskStarts, TaskChecksNetwork, TaskSetsUp, TaskCreatesActors, TaskBoots,
                      seedVars, actVars
<1>2. ~Fresh BY <1>1, ResultMeansSeed
<1>3. Going'
  <2>1. ASSUME NEW s \in Statuses, Post(s) PROVE Going'
    <3>1. events' # <<>> BY <2>1, Posted
    <3> QED BY <3>1 DEF Going
  <2>2. task' \in {"net", "setup", "actors", "boot"} \/ \E s \in Statuses : Post(s)
    BY DEF TaskStep, TaskStarts, TaskChecksNetwork, TaskSetsUp, TaskCreatesActors, TaskBoots, Statuses
  <2> QED BY <2>1, <2>2 DEF Going
<1>4. StartingInv' /\ ShownInv' BY <1>3 DEF StartingInv, ShownInv
<1>5. DelayedInv' BY <1>1 DEF WaitInv, DelayedInv
<1> QED BY <1>1, <1>2, <1>4, <1>5, WaitLater

LEMMA WaitInvStep ==
  ASSUME WaitInv, ReadyInv, SeedInv, RestoreInv, [Next]_vars
  PROVE  WaitInv'
<1>0. WaitType BY DEF WaitType, WaitInv, DelayedInv, ReadyInv, RestoreInv
<1>1. CASE UNCHANGED vars
  BY <1>1, WaitFrame DEF vars, seedVars, actVars, taskVars, appVars
<1>2. CASE Die
  BY <1>2, WaitDeath DEF Die
<1> QED BY <1>0, <1>1, <1>2, UserKeepsWait, MainKeepsWait, ThreadKeepsWait, TaskKeepsWait DEF Next

LEMMA WaitInvInit ==
  ASSUME Init
  PROVE  WaitInv
<1>1. /\ th = [t \in Threads |-> FreeThread] /\ queue = 0 /\ task = "none" /\ events = <<>>
      /\ appKit = FALSE /\ prompt = FALSE /\ delayed = 0 /\ orphans = 0 /\ alive = "no"
  BY DEF Init, ProcessInit
<1>2. \A t \in Threads : th[t].pc = "free"
  BY <1>1 DEF FreeThread
<1>3. QuietInv BY <1>1, <1>2 DEF QuietInv, Running, Going
<1>4. SeedScreenInv BY DEF Init, SeedInit, SeedScreenInv, NoWrite
<1>5. StartingInv /\ ShownInv /\ DelayedInv BY <1>1 DEF StartingInv, ShownInv, DelayedInv
<1> QED BY <1>3, <1>4, <1>5 DEF WaitInv

(* The start-up screen with isStartingNode set always has a start on its way to
   processStartupFinish, which resets it; and it never shows nothing at all when
   nothing is under way, whichever threads, delayed calls and results of earlier
   activities there are, except for the wallets of the old version. *)
THEOREM NobodyEverWaitsInVain == Spec => []NobodyWaitsInVain
<1>1. Init => NodeInv /\ SeedInv /\ RestoreInv /\ ReadyInv /\ WaitInv
  <2>1. Init => NodeInv
    BY DEF Init, ProcessInit, NodeInv
  <2> QED BY <2>1, SeedInvInit, RestoreInvInit, ReadyInvInit, WaitInvInit
<1>2. NodeInv /\ SeedInv /\ RestoreInv /\ ReadyInv /\ WaitInv /\ [Next]_vars =>
        NodeInv' /\ SeedInv' /\ RestoreInv' /\ ReadyInv' /\ WaitInv'
  BY NodeInvStep, SeedInvStep, RestoreInvStep, ReadyInvStep, WaitInvStep
<1>3. RestoreInv /\ WaitInv => NobodyWaitsInVain
  <2> SUFFICES ASSUME RestoreInv, WaitInv PROVE NobodyWaitsInVain OBVIOUS
  <2>1. queue # 0 <=> queue > 0 BY DEF RestoreInv, RestoreType
  <2>2. (\E t \in Threads : Own(t)) \/ Going => Busy \/ events # <<>>
    BY <2>1 DEF Own, Running, Going, Busy
  <2>3. starting /\ alive = "yes" => Busy \/ events # <<>> \/ main = "finish"
    BY <2>2 DEF WaitInv, StartingInv
  <2>4. Idle /\ real # "old" => error # "none"
    BY <2>2 DEF WaitInv, ShownInv, Idle
  <2> QED BY <2>3, <2>4 DEF NobodyWaitsInVain
<1> QED BY <1>1, <1>2, <1>3, PTL DEF Spec
==============================================================================
