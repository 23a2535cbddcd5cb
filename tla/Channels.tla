------------------------------- MODULE Channels -------------------------------
(***************************************************************************)
(* The wallet's own account of its channels: the map of NodeSupervisor, the *)
(* channel table of the wallet's database, the notification of a closing    *)
(* and the balance on the home screen, against the node, which sends its    *)
(* events once, and a process that may die between any two steps.           *)
(*                                                                          *)
(* A channel's actor publishes its events into the mailbox of the           *)
(* supervisor synchronously, and Akka puts the Terminated of an actor       *)
(* behind them, so there is one queue.  Amounts are small numbers; of the   *)
(* data that an event carries, only what a property tells apart is kept:    *)
(* fees, delays, identifiers and the transactions of a closing are not.     *)
(***************************************************************************)
EXTENDS RefreshScheduler, FiniteSets, FiniteSetsExt

CONSTANTS Chans,      \* channels
          MaxSteps,   \* bound on the changes of the channels
          MaxDeaths,  \* bound on deaths of the process
          MaxInbox    \* bound on the events that wait when another is published

ASSUME ChannelsAssumption ==
  /\ "balance" \in Kinds
  /\ MaxSteps \in Nat /\ MaxDeaths \in Nat /\ MaxInbox \in Nat

VARIABLES
  node,    \* the channels as the node has stored them
  up,      \* channels with an actor
  running, \* the process is there
  inbox,   \* the mailbox of NodeSupervisor
  half,    \* it is half-way through a ChannelStateChanged
  map,     \* activeChannelsMap
  table,   \* the rows of LOCAL_CHANNEL
  alerts,  \* notifications of a closing, for each channel
  home,    \* the home screen exists
  shown,   \* the Lightning balance it shows
  lost,    \* channels some of whose events died with the process
  steps, deaths

chanVars == <<node, up, running, inbox, half, map, table, alerts, home, shown, lost, steps, deaths>>
vars == <<schedVars, chanVars>>

Amounts == 1 .. 2
(* The states of a channel.  Those with commitments are stored by the node;
   "N/A" is the wallet's own, for a channel it has not heard the state of. *)
Stored == {"funding", "normal", "offline", "closing"}
States == Stored \cup {"none", "accept", "closed"}
Message == [ev : {"created", "restored", "state", "signature", "error", "refund", "terminated"},
            c : Chans, prev : States \cup {"init"}, st : States, bal : {0} \cup Amounts]
Entry == [state : States \cup {"N/A"}, cap : BOOLEAN, bal : {0} \cup Amounts, msg : BOOLEAN, refund : BOOLEAN]
Row == [bal : Amounts, msg : BOOLEAN, refund : BOOLEAN, active : BOOLEAN]

TypeOK ==
  /\ SchedTypeOK
  /\ node \in [Chans -> [st : States, bal : {0} \cup Amounts, refund : BOOLEAN]]
  /\ up \subseteq Chans /\ running \in BOOLEAN
  /\ inbox \in Seq(Message) /\ half \in BOOLEAN
  /\ DOMAIN map \subseteq Chans /\ \A c \in DOMAIN map : map[c] \in Entry
  /\ DOMAIN table \subseteq Chans /\ \A c \in DOMAIN table : table[c] \in Row
  /\ alerts \in [Chans -> Nat]
  /\ home \in BOOLEAN /\ shown \in Nat /\ lost \subseteq Chans
  /\ steps \in 0 .. MaxSteps /\ deaths \in 0 .. MaxDeaths

NoChannels == [c \in {} |-> 0]

(* The process has just been started, with the channels of earlier times. *)
Init ==
  /\ SchedInit
  /\ \E old \in SUBSET Chans :
       /\ node = [c \in Chans |-> IF c \in old THEN [st |-> "normal", bal |-> 1, refund |-> FALSE]
                                              ELSE [st |-> "none", bal |-> 0, refund |-> FALSE]]
       /\ table = [c \in old |-> [bal |-> 1, msg |-> FALSE, refund |-> FALSE, active |-> TRUE]]
  /\ up = {} /\ running = TRUE /\ inbox = <<>> /\ half = FALSE
  /\ map = NoChannels /\ alerts = [c \in Chans |-> 0]
  /\ home = FALSE /\ shown = 0 /\ lost = {}
  /\ steps = 0 /\ deaths = 0

------------------------------------------------------------------------------
(* The node: what it stores, and the events that it publishes. *)
Event(ev, c) == [ev |-> ev, c |-> c, prev |-> "none", st |-> node[c].st, bal |-> node[c].bal]
Change(c, prev, st, bal) == [ev |-> "state", c |-> c, prev |-> prev, st |-> st, bal |-> bal]

Publish(c, st, bal, events) ==
  /\ running /\ Len(inbox) <= MaxInbox /\ steps < MaxSteps /\ steps' = steps + 1
  /\ node' = [node EXCEPT ![c].st = st, ![c].bal = bal]
  /\ inbox' = inbox \o events
  /\ UNCHANGED <<schedVars, running, half, map, table, alerts, home, shown, lost, deaths>>

NodeOpens(c) ==
  /\ node[c].st = "none" /\ up' = up \cup {c}
  /\ Publish(c, "accept", 0, <<Event("created", c), Change(c, "none", "accept", 0)>>)

(* With the funding the channel gets its identifier and its commitments. *)
NodeFunds(c) ==
  /\ node[c].st = "accept" /\ UNCHANGED up
  /\ Publish(c, "funding", 1, <<Change(c, "accept", "funding", 1)>>)

NodeMoves(c, st) ==
  /\ c \in up
  /\ <<node[c].st, st>> \in {<<"funding", "normal">>, <<"normal", "offline">>, <<"offline", "normal">>}
  /\ UNCHANGED up
  /\ Publish(c, st, node[c].bal, <<Change(c, node[c].st, st, node[c].bal)>>)

NodePays(c, bal) ==
  /\ c \in up /\ node[c].st = "normal" /\ bal # node[c].bal /\ UNCHANGED up
  /\ Publish(c, "normal", bal, <<[Event("signature", c) EXCEPT !.bal = bal]>>)

(* An error may be what makes the node close the channel. *)
NodeCloses(c, error) ==
  /\ c \in up /\ node[c].st \in {"funding", "normal", "offline"} /\ UNCHANGED up
  /\ Publish(c, "closing", node[c].bal,
             (IF error THEN <<Event("error", c)>> ELSE <<>>)
               \o <<Change(c, node[c].st, "closing", node[c].bal)>>)

(* LocalCommitConfirmed, once. *)
NodeConfirms(c) ==
  /\ c \in up /\ node[c].st = "closing" /\ ~node[c].refund
  /\ running /\ Len(inbox) <= MaxInbox /\ steps < MaxSteps /\ steps' = steps + 1
  /\ node' = [node EXCEPT ![c].refund = TRUE]
  /\ inbox' = Append(inbox, Event("refund", c))
  /\ UNCHANGED <<schedVars, up, running, half, map, table, alerts, home, shown, lost, deaths>>

(* The channel ends, or is never funded. *)
NodeEnds(c) ==
  /\ c \in up /\ node[c].st \in {"accept", "closing"} /\ up' = up \ {c}
  /\ Publish(c, "closed", node[c].bal,
             (IF node[c].st = "closing" THEN <<Change(c, "closing", "closed", node[c].bal)>> ELSE <<>>)
               \o <<Event("terminated", c)>>)

(* After a restart the stored channels are restored, the closing ones
   straight to CLOSING. *)
NodeRestores(c) ==
  /\ running /\ Len(inbox) <= MaxInbox /\ c \notin up /\ node[c].st \in Stored
  /\ up' = up \cup {c}
  /\ LET st == IF node[c].st = "closing" THEN "closing" ELSE "offline" IN
     /\ node' = [node EXCEPT ![c].st = st]
     /\ inbox' = inbox \o <<Event("restored", c), Change(c, "init", st, node[c].bal)>>
  /\ UNCHANGED <<schedVars, running, half, map, table, alerts, home, shown, lost, steps, deaths>>

NodeStep(c) ==
  \/ NodeOpens(c) \/ NodeFunds(c) \/ NodeConfirms(c) \/ NodeEnds(c) \/ NodeRestores(c)
  \/ \E st \in Stored : NodeMoves(c, st)
  \/ \E bal \in Amounts : NodePays(c, bal)
  \/ \E error \in BOOLEAN : NodeCloses(c, error)

------------------------------------------------------------------------------
(* NodeSupervisor.onReceive. *)
NewChannel == [state |-> "N/A", cap |-> FALSE, bal |-> 0, msg |-> FALSE, refund |-> FALSE]

getOrCreateChannel(c) == IF c \in DOMAIN map THEN map[c] ELSE NewChannel

(* Channels without a capacity are not saved.  The row is replaced. *)
saveLocalChannel(c, e) ==
  table' = IF e.cap
           THEN [x \in DOMAIN table \cup {c} |->
                   IF x = c THEN [bal |-> e.bal, msg |-> e.msg, refund |-> e.refund, active |-> TRUE]
                            ELSE table[x]]
           ELSE table

Put(c, e) == map' = [x \in DOMAIN map \cup {c} |-> IF x = c THEN e ELSE map[x]]

Receive(ev) == running /\ ~half /\ inbox # <<>> /\ Head(inbox).ev = ev /\ inbox' = Tail(inbox)

Kept == <<node, up, running, home, shown, lost, steps, deaths>>

ChannelCreated ==
  /\ Receive("created")
  /\ LET c == Head(inbox).c IN Put(c, getOrCreateChannel(c))
  /\ Tell({"channels"})
  /\ UNCHANGED <<Kept, half, table, alerts>>

(* Mutant: what was sent only once is not taken from the table. *)
RestoredAsNew ==
  /\ Receive("restored")
  /\ LET c == Head(inbox).c IN Put(c, getOrCreateChannel(c))
  /\ Tell({"channels", "balance"})
  /\ UNCHANGED <<Kept, half, table, alerts>>

ChannelRestored ==
  /\ Receive("restored")
  /\ LET c == Head(inbox).c
         e == getOrCreateChannel(c)
     IN Put(c, IF c \in DOMAIN table THEN [e EXCEPT !.msg = table[c].msg, !.refund = table[c].refund]
                                     ELSE e)
  /\ Tell({"channels", "balance"})
  /\ UNCHANGED <<Kept, half, table, alerts>>

ChannelSignatureReceived ==
  /\ Receive("signature")
  /\ LET c == Head(inbox).c IN
     IF c \in DOMAIN map
     THEN /\ map' = [map EXCEPT ![c].bal = Head(inbox).bal, ![c].cap = TRUE]
          /\ Tell({"channels", "balance"})
     ELSE UNCHANGED <<map, schedVars>>
  /\ UNCHANGED <<Kept, half, table, alerts>>

ChannelErrorOccurred ==
  /\ Receive("error")
  /\ LET c == Head(inbox).c IN
     IF c \in DOMAIN map
     THEN /\ map' = [map EXCEPT ![c].msg = TRUE]
          /\ saveLocalChannel(c, map'[c])
     ELSE UNCHANGED <<map, table>>
  /\ UNCHANGED <<Kept, schedVars, half, alerts>>

LocalCommitConfirmed ==
  /\ Receive("refund")
  /\ LET c == Head(inbox).c IN
     IF c \in DOMAIN map
     THEN /\ map' = [map EXCEPT ![c].refund = TRUE]
          /\ saveLocalChannel(c, map'[c])
          /\ Tell({"channels"})
     ELSE UNCHANGED <<map, table, schedVars>>
  /\ UNCHANGED <<Kept, half, alerts>>

(* Mutant: the notification is sent whatever the previous state was. *)
AlertAlways(m) == m.st = "closing"

(* No notification for a channel that was closing already when the wallet
   was started, nor for CLOSING -> CLOSED. *)
Alert(m) == m.st = "closing" /\ m.prev # "init"

(* ChannelStateChanged in two steps, as the main thread reads the entry while
   it is being changed: first the state, then the amounts. *)
StateChangedBegins ==
  /\ running /\ ~half /\ inbox # <<>> /\ Head(inbox).ev = "state"
  /\ LET m == Head(inbox) IN
     IF m.c \in DOMAIN map
     THEN /\ alerts' = [alerts EXCEPT ![m.c] = IF Alert(m) THEN @ + 1 ELSE @]
          /\ map' = [map EXCEPT ![m.c].state = m.st]
          /\ half' = TRUE /\ UNCHANGED inbox
     ELSE inbox' = Tail(inbox) /\ UNCHANGED <<alerts, map, half>>
  /\ UNCHANGED <<Kept, schedVars, table>>

StateChangedEnds ==
  /\ half /\ half' = FALSE /\ inbox' = Tail(inbox)
  /\ LET m == Head(inbox)
         e == IF m.bal > 0 THEN [map[m.c] EXCEPT !.bal = m.bal, !.cap = TRUE] ELSE map[m.c]
     IN Put(m.c, e) /\ saveLocalChannel(m.c, e)
  /\ Tell({"channels", "balance"})
  /\ UNCHANGED <<Kept, alerts>>

(* Mutant: the row is left as it is. *)
terminatedNotFiled(c) == UNCHANGED table

channelTerminated(c) ==
  table' = IF c \in DOMAIN table THEN [table EXCEPT ![c].active = FALSE] ELSE table

(* Mutant: the channel stays in the map. *)
TerminatedStays ==
  /\ Receive("terminated")
  /\ LET c == Head(inbox).c
     IN IF c \in DOMAIN map THEN channelTerminated(c) ELSE UNCHANGED table
  /\ Tell({"channels", "balance"})
  /\ UNCHANGED <<Kept, half, map, alerts>>

Terminated ==
  /\ Receive("terminated")
  /\ LET c == Head(inbox).c IN
     /\ IF c \in DOMAIN map THEN channelTerminated(c) ELSE UNCHANGED table
     /\ map' = [x \in DOMAIN map \ {c} |-> map[x]]
  /\ Tell({"channels", "balance"})
  /\ UNCHANGED <<Kept, half, alerts>>

Supervise ==
  \/ ChannelCreated \/ ChannelRestored \/ ChannelSignatureReceived \/ ChannelErrorOccurred
  \/ LocalCommitConfirmed \/ StateChangedBegins \/ StateChangedEnds \/ Terminated

------------------------------------------------------------------------------
(* The home screen. *)
fundsAreAccountedFor(e) == e.state \notin {"accept", "closing", "closed"}

getChannelsBalance ==
  MapThenSumSet(LAMBDA c : map[c].bal, {c \in DOMAIN map : fundsAreAccountedFor(map[c])})

(* The event of a scheduler.  Those of the other schedulers make lists be
   read again; what the lists show is not modelled. *)
handleEvent(k) ==
  /\ running /\ k \in posted /\ posted' = posted \ {k}
  /\ shown' = IF home /\ k = "balance" THEN getChannelsBalance ELSE shown
  /\ UNCHANGED <<box, asleep, timer, node, up, running, inbox, half, map, table, alerts, home, lost,
                 steps, deaths>>

LeaveHome ==
  /\ running /\ home /\ home' = FALSE /\ shown' = 0
  /\ UNCHANGED <<schedVars, node, up, running, inbox, half, map, table, alerts, lost, steps, deaths>>

OpenHome ==
  /\ running /\ ~home /\ home' = TRUE /\ shown' = getChannelsBalance
  /\ UNCHANGED <<schedVars, node, up, running, inbox, half, map, table, alerts, lost, steps, deaths>>

(* The process dies and is started again.  Channels that were not funded
   are forgotten. *)
Die ==
  /\ running /\ deaths < MaxDeaths /\ deaths' = deaths + 1 /\ running' = FALSE
  /\ SchedDies
  /\ lost' = lost \cup {inbox[i].c : i \in DOMAIN inbox}
  /\ node' = [c \in Chans |-> IF node[c].st = "accept" THEN [node[c] EXCEPT !.st = "closed"] ELSE node[c]]
  /\ up' = {} /\ inbox' = <<>> /\ half' = FALSE /\ map' = NoChannels /\ home' = FALSE /\ shown' = 0
  /\ UNCHANGED <<table, alerts, steps>>

Restart ==
  /\ ~running /\ running' = TRUE
  /\ UNCHANGED <<schedVars, node, up, inbox, half, map, table, alerts, home, shown, lost, steps, deaths>>

Scheduled(k) == running /\ SchedStep(k) /\ UNCHANGED chanVars

Next ==
  \/ \E c \in Chans : NodeStep(c)
  \/ Supervise \/ LeaveHome \/ OpenHome \/ Die \/ Restart
  \/ \E k \in Kinds : Scheduled(k) \/ handleEvent(k)

(* Actors, timers and the main thread go on. *)
Fairness ==
  /\ WF_vars(Supervise)
  /\ \A c \in Chans : WF_vars(NodeRestores(c))
  /\ \A k \in Kinds : WF_vars(Scheduled(k)) /\ WF_vars(handleEvent(k))

Spec == Init /\ [][Next]_vars /\ Fairness

------------------------------------------------------------------------------
Pending(c) == \E i \in DOMAIN inbox : inbox[i].c = c

(* The map agrees with the node as soon as the events about a channel have
   been handled, whatever deaths and restarts there were. *)
MapFollowsNode ==
  running => \A c \in Chans : ~Pending(c) =>
    /\ (c \in DOMAIN map) = (c \in up)
    /\ c \in up => map[c].state = node[c].st /\ map[c].bal = node[c].bal

(* A channel is filed as inactive only when it is over, with its last
   balance; and one that is over is filed, unless its end died with the
   process. *)
TableFollowsNode ==
  \A c \in DOMAIN table :
    /\ ~table[c].active => node[c].st = "closed" /\ table[c].bal = node[c].bal
    /\ node[c].st = "closed" /\ table[c].active => Pending(c) \/ c \in lost

(* The user is told of a closing, and once, unless the event died with the
   process. *)
ClosingIsToldOnce ==
  \A c \in Chans :
    /\ alerts[c] <= 1
    /\ node[c].st = "closing" => alerts[c] = 1 \/ Pending(c) \/ c \in lost

(* What the node sends only once is not lost again when it is in the table,
   and a channel that is over stays so. *)
SentOnceIsKept ==
  [][\A c \in DOMAIN table :
       /\ c \in DOMAIN table'
       /\ table[c].msg => table'[c].msg
       /\ table[c].refund => table'[c].refund
       /\ ~table[c].active => ~table'[c].active]_vars

NodeBalance == MapThenSumSet(LAMBDA c : node[c].bal, {c \in Chans : node[c].st \in {"funding", "normal", "offline"}})

(* Once the channels have stopped changing, the home screen comes to show
   their balance and goes on to: no refresh is lost in a scheduler's sleep. *)
BalanceSettles == <>[](running /\ home => shown = NodeBalance)
==============================================================================
