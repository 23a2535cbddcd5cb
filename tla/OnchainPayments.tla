---------------------------- MODULE OnchainPayments ----------------------------
(***************************************************************************)
(* The wallet's on-chain payments: their rows in the payment table, written *)
(* by ElectrumSupervisor, the state that App keeps of the Electrum wallet,  *)
(* and the on-chain balance on the home screen, against the wallet of       *)
(* eclair-core, which sends its events to ElectrumSupervisor in order, and  *)
(* a process that may die between any two steps.                            *)
(*                                                                          *)
(* A transaction is known by what it adds to, or takes from, the wallet.    *)
(* Fees, dates and payloads are left out; so are reorganisations.           *)
(***************************************************************************)
EXTENDS RefreshScheduler, FiniteSets, FiniteSetsExt

CONSTANTS Txs,        \* transactions
          Delta,      \* what each is worth to the wallet
          Spends,     \* for each, those whose outputs it spends
          MaxDepth,   \* bound on confirmations
          MaxStarts,  \* bound on StartupTasks after the first
          MaxLosses,  \* bound on losses of the connection, and on lateness of the server
          MaxMail     \* bound on the mailbox, beyond which nothing happens on the chain

ASSUME OnchainAssumption ==
  /\ "balance" \in Kinds
  /\ "none" \notin Txs
  /\ Delta \in [Txs -> Int] /\ Spends \in [Txs -> SUBSET Txs]
  /\ MaxDepth \in Nat /\ MaxStarts \in Nat /\ MaxLosses \in Nat /\ MaxMail \in Nat

VARIABLES
  \* eclair-core's wallet
  st,       \* how far it has got with each transaction
  depth,    \* confirmations
  online,   \* it is connected and has said so
  \* the app
  inbox,    \* the mailbox of ElectrumSupervisor
  half,     \* handleWalletReadyEvent has set one of the two balances
  rows,     \* the on-chain rows of the payment table: confidenceBlocks
  state,    \* electrumState: the balances, whether connected, whether late
  toHome,   \* an event of the wallet is posted to the home screen
  home,     \* the home screen exists
  shown,    \* the on-chain balance it shows
  cleaned,  \* the transactions that were gone when the process was last started
  swept,    \* those whose row was deleted in a process that went on, not named again since
  starts, losses

walletVars == <<st, depth, online>>
homeVars == <<home, shown>>
counters == <<starts, losses>>
vars == <<schedVars, walletVars, homeVars, counters, inbox, half, rows, state, toHome, cleaned, swept>>

Depths == 0 .. MaxDepth
Event == [ev : {"received", "confidence", "ready", "disconnected"}, t : Txs \cup {"none"},
          d : Depths, conf : Int, unconf : Int, late : BOOLEAN]

(* What some transactions are worth together. *)
Worth(ts) == MapThenSumSet(LAMBDA t : Delta[t], ts)

TypeOK ==
  /\ SchedTypeOK
  /\ st \in [Txs -> {"unseen", "heard", "known", "gone"}] /\ depth \in [Txs -> Depths] /\ online \in BOOLEAN
  /\ \A i \in DOMAIN inbox : inbox[i] \in Event
  /\ half \in BOOLEAN
  /\ DOMAIN rows \subseteq Txs /\ \A t \in DOMAIN rows : rows[t] \in Depths
  /\ state \in [set : BOOLEAN, conf : Int, unconf : Int, connected : BOOLEAN, late : BOOLEAN]
  /\ toHome \in BOOLEAN /\ home \in BOOLEAN /\ shown \in Int
  /\ cleaned \subseteq Txs /\ swept \subseteq Txs
  /\ starts \in 0 .. MaxStarts /\ losses \in 0 .. MaxLosses

NoState == [set |-> FALSE, conf |-> 0, unconf |-> 0, connected |-> FALSE, late |-> FALSE]

Init ==
  /\ SchedInit
  /\ st = [t \in Txs |-> "unseen"] /\ depth = [t \in Txs |-> 0] /\ online = FALSE
  /\ inbox = <<>> /\ half = FALSE /\ rows = [t \in {} |-> 0] /\ state = NoState /\ toHome = FALSE
  /\ home = FALSE /\ shown = 0 /\ cleaned = {} /\ swept = {} /\ starts = 0 /\ losses = 0

------------------------------------------------------------------------------
(* ElectrumWallet of eclair-core: what it does, and the events it sends. *)
Known == {t \in Txs : st[t] = "known"}
Quiet == Len(inbox) >= MaxMail
Message(ev, t, d) == [ev |-> ev, t |-> t, d |-> d, conf |-> 0, unconf |-> 0, late |-> FALSE]

(* WalletReady, if nothing is missing, for the transactions ts with depths d.
   The server may be late with its blocks. *)
Ready(ts, missing, d, late) ==
  IF missing # {} THEN <<>>
  ELSE <<[Message("ready", "none", 0) EXCEPT
           !.conf = Worth({t \in ts : d[t] > 0}), !.unconf = Worth({t \in ts : d[t] = 0}),
           !.late = late]>>

Heard == {t \in Txs : st[t] = "heard"}
App == <<schedVars, homeVars, half, rows, state, toHome, cleaned, starts>>

(* The server may lose touch with the chain; that counts as a loss. *)
Late(late) == (late => losses < MaxLosses) /\ losses' = IF late THEN losses + 1 ELSE losses

(* The histories name a transaction before it is there. *)
WalletHears(t, d) ==
  /\ online /\ ~Quiet /\ st[t] = "unseen" /\ \A p \in Spends[t] : st[p] = "known" /\ (d > 0 => depth[p] > 0)
  /\ st' = [st EXCEPT ![t] = "heard"] /\ depth' = [depth EXCEPT ![t] = d]
  /\ inbox' = Append(inbox, Message("confidence", t, d))
  /\ UNCHANGED <<App, swept, online, losses>>

WalletGets(t, late) ==
  /\ online /\ ~Quiet /\ st[t] = "heard" /\ \A p \in Spends[t] : st[p] = "known"
  /\ st' = [st EXCEPT ![t] = "known"]
  /\ inbox' = Append(inbox, Message("received", t, depth[t])) \o Ready(Known \cup {t}, Heard \ {t}, depth, late)
  /\ Late(late) /\ UNCHANGED <<App, swept, depth, online>>

(* A block confirms a transaction once more. *)
WalletConfirms(t, late) ==
  /\ online /\ ~Quiet /\ st[t] = "known" /\ depth[t] < MaxDepth
  /\ \A p \in Spends[t] : depth[p] > depth[t]
  /\ depth' = [depth EXCEPT ![t] = @ + 1]
  /\ inbox' = Append(inbox, Message("confidence", t, depth[t] + 1)) \o Ready(Known, Heard, depth', late)
  /\ Late(late) /\ UNCHANGED <<App, swept, st, online>>

(* An unconfirmed transaction is replaced by one that is not ours. *)
WalletDrops(t, late) ==
  /\ online /\ ~Quiet /\ st[t] \in {"heard", "known"} /\ depth[t] = 0
  /\ \A c \in Txs : t \in Spends[c] => st[c] \in {"unseen", "gone"}
  /\ st' = [st EXCEPT ![t] = "gone"]
  /\ inbox' = inbox \o Ready(Known \ {t}, Heard \ {t}, depth, late)
  /\ Late(late) /\ UNCHANGED <<App, swept, depth, online>>

WalletDisconnects ==
  /\ online /\ ~Quiet /\ losses < MaxLosses /\ losses' = losses + 1 /\ online' = FALSE
  /\ inbox' = Append(inbox, Message("disconnected", "none", 0))
  /\ UNCHANGED <<App, swept, st, depth>>

(* When it is connected again the wallet names all its transactions anew. *)
ToBeNamed == [t \in Txs |-> IF st[t] = "known" THEN "heard" ELSE st[t]]

WalletConnects ==
  /\ ~online /\ online' = TRUE /\ st' = ToBeNamed /\ swept' = {}
  /\ inbox' = inbox \o Ready({}, Known \cup Heard, depth, FALSE)
  /\ UNCHANGED <<App, depth, losses>>

WalletStep(t) ==
  \/ \E d \in {0, 1} \cap Depths : WalletHears(t, d)
  \/ \E late \in BOOLEAN : WalletGets(t, late) \/ WalletConfirms(t, late) \/ WalletDrops(t, late)

------------------------------------------------------------------------------
(* ElectrumSupervisor.onReceive. *)
Receive(ev) == ~half /\ inbox # <<>> /\ Head(inbox).ev = ev /\ inbox' = Tail(inbox)

(* Mutant: a row that is there is left as it is. *)
ReceivedOnce ==
  /\ Receive("received")
  /\ LET m == Head(inbox) IN
     rows' = [t \in DOMAIN rows \cup {m.t} |-> IF t \in DOMAIN rows THEN rows[t] ELSE m.d]
  /\ swept' = swept \ {Head(inbox).t} /\ Tell({"balance"})
  /\ UNCHANGED <<walletVars, homeVars, counters, half, state, toHome, cleaned>>

(* The row is inserted, or replaced. *)
TransactionReceived ==
  /\ Receive("received")
  /\ LET m == Head(inbox) IN
     rows' = [t \in DOMAIN rows \cup {m.t} |-> IF t = m.t THEN m.d ELSE rows[t]]
  /\ swept' = swept \ {Head(inbox).t} /\ Tell({"balance"})
  /\ UNCHANGED <<walletVars, homeVars, counters, half, state, toHome, cleaned>>

(* Of a transaction without a row nothing is recorded. *)
TransactionConfidenceChanged ==
  /\ Receive("confidence")
  /\ rows' = IF Head(inbox).t \in DOMAIN rows THEN [rows EXCEPT ![Head(inbox).t] = Head(inbox).d] ELSE rows
  /\ UNCHANGED <<schedVars, walletVars, homeVars, counters, half, state, toHome, cleaned, swept>>

(* App.handleWalletReadyEvent runs in the supervisor's thread and sets the
   balances one after the other; only then is the event posted to the home
   screen, if there is one.  A new ElectrumState is published complete. *)
WalletReadyBegins ==
  /\ ~half /\ inbox # <<>> /\ Head(inbox).ev = "ready" /\ state.set
  /\ state' = [state EXCEPT !.conf = Head(inbox).conf] /\ half' = TRUE
  /\ UNCHANGED <<schedVars, walletVars, homeVars, counters, inbox, rows, toHome, cleaned, swept>>

WalletReadyEnds ==
  /\ inbox # <<>> /\ Head(inbox).ev = "ready" /\ (half \/ ~state.set)
  /\ half' = FALSE /\ inbox' = Tail(inbox)
  /\ state' = [set |-> TRUE, conf |-> Head(inbox).conf, unconf |-> Head(inbox).unconf,
               connected |-> TRUE, late |-> Head(inbox).late]
  /\ toHome' = home
  /\ UNCHANGED <<schedVars, walletVars, homeVars, counters, rows, cleaned, swept>>

handleWalletDisconnectedEvent ==
  /\ Receive("disconnected") /\ state' = [state EXCEPT !.connected = FALSE]
  /\ toHome' = home
  /\ UNCHANGED <<schedVars, walletVars, homeVars, counters, half, rows, cleaned, swept>>

Supervise ==
  \/ TransactionReceived \/ TransactionConfidenceChanged \/ WalletReadyBegins \/ WalletReadyEnds
  \/ handleWalletDisconnectedEvent

------------------------------------------------------------------------------
(* The home screen, in the main thread. *)

(* Without balances from the wallet, those of the rows; a sum that is less
   than nothing is nothing. *)
getOnchainBalance ==
  IF state.set THEN state.conf + state.unconf
               ELSE LET sum == Worth(DOMAIN rows) IN IF sum > 0 THEN sum ELSE 0

(* Mutant: the balance is not read again. *)
StateIsShownOnly ==
  /\ toHome /\ toHome' = FALSE
  /\ UNCHANGED <<schedVars, walletVars, homeVars, counters, inbox, half, rows, state, cleaned, swept>>

(* After an event of the wallet the balance is read again if the wallet is
   connected to a server that is not late. *)
updateElectrumState ==
  /\ toHome /\ toHome' = FALSE
  /\ shown' = IF state.connected /\ ~state.late THEN getOnchainBalance ELSE shown
  /\ UNCHANGED <<schedVars, walletVars, home, counters, inbox, half, rows, state, cleaned, swept>>

handleBalanceEvent ==
  /\ "balance" \in posted /\ posted' = posted \ {"balance"}
  /\ shown' = IF home THEN getOnchainBalance ELSE shown
  /\ UNCHANGED <<box, asleep, timer, walletVars, home, counters, inbox, half, rows, state, toHome, cleaned, swept>>

OpenHome ==
  /\ ~home /\ home' = TRUE /\ shown' = getOnchainBalance
  /\ UNCHANGED <<schedVars, walletVars, counters, inbox, half, rows, state, toHome, cleaned, swept>>

LeaveHome ==
  /\ home /\ home' = FALSE /\ shown' = 0 /\ toHome' = FALSE
  /\ UNCHANGED <<schedVars, walletVars, counters, inbox, half, rows, state, cleaned, swept>>

Scheduled == SchedStep("balance") /\ UNCHANGED <<walletVars, homeVars, counters, inbox, half, rows, state, toHome, cleaned, swept>>

(* Mutant: the unconfirmed rows stay. *)
noCleanUp == rows

(* The unconfirmed rows are deleted. *)
cleanUpZeroConfs == [t \in {x \in DOMAIN rows : rows[x] > 0} |-> rows[t]]

(* App.checkupInit in a second StartupTask of a process whose wallet goes on:
   the rows are deleted there too, and the wallet, which has named their
   transactions already, does so again only when it reconnects. *)
checkupInit ==
  /\ starts < MaxStarts /\ starts' = starts + 1
  /\ rows' = cleanUpZeroConfs
  /\ swept' = swept \cup (DOMAIN rows \ DOMAIN rows')
  /\ UNCHANGED <<schedVars, walletVars, homeVars, losses, inbox, half, state, toHome, cleaned>>

(* The process dies and is started again, by a StartupTask which comes before
   the wallet. *)
Die ==
  /\ starts < MaxStarts /\ starts' = starts + 1
  /\ SchedDies /\ rows' = cleanUpZeroConfs
  /\ online' = FALSE /\ inbox' = <<>> /\ half' = FALSE /\ state' = NoState /\ toHome' = FALSE
  /\ home' = FALSE /\ shown' = 0
  /\ cleaned' = {t \in Txs : st[t] = "gone"} /\ swept' = {}
  /\ st' = ToBeNamed /\ UNCHANGED <<depth, losses>>

Next ==
  \/ \E t \in Txs : WalletStep(t)
  \/ WalletDisconnects \/ WalletConnects \/ Supervise
  \/ updateElectrumState \/ handleBalanceEvent \/ OpenHome \/ LeaveHome \/ Scheduled
  \/ checkupInit \/ Die

(* The actors, the timer and the main thread go on, and the wallet connects
   and gets what it has heard of. *)
Fairness ==
  /\ WF_vars(WalletConnects) /\ \A t \in Txs : WF_vars(WalletGets(t, FALSE))
  /\ WF_vars(Supervise) /\ WF_vars(Scheduled)
  /\ WF_vars(updateElectrumState) /\ WF_vars(handleBalanceEvent)

Spec == Init /\ [][Next]_vars /\ Fairness

------------------------------------------------------------------------------
Pending(t) == \E i \in DOMAIN inbox : inbox[i].t = t

(* The rows agree with the wallet as soon as the events about a transaction
   have been handled, although a confidence may come before its transaction
   and the events of a dead process are lost.  Missing are only the rows that
   a second StartupTask has deleted, whatever confirms their transactions
   afterwards, until the wallet has reconnected. *)
RowsFollowWallet ==
  \A t \in Known : ~Pending(t) =>
    IF t \in swept THEN t \notin DOMAIN rows ELSE t \in DOMAIN rows /\ rows[t] = depth[t]

(* No row is more confirmed than its transaction, and what has been replaced
   has no row once the process has been started again: it is never counted
   in the balance that is shown before the wallet is ready. *)
GoneIsForgotten ==
  /\ \A t \in DOMAIN rows : rows[t] <= depth[t] /\ st[t] # "unseen"
  /\ cleaned \cap DOMAIN rows = {}

WalletBalance == Worth(Known)

(* Once nothing happens on the chain any more, the home screen comes to show
   the balance of the wallet and goes on to, if the server is not late: a
   reading of half a WalletReady does not stay. *)
OnchainBalanceSettles == <>[](home /\ state.set /\ ~state.late => shown = WalletBalance)
==============================================================================
