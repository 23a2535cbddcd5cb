--------------------------- MODULE RefreshScheduler ---------------------------
(***************************************************************************)
(* The actors of RefreshScheduler.java, one of each kind.  A scheduler that *)
(* is awake answers REFRESH by setting a timer and going to sleep; asleep   *)
(* it ignores REFRESH; the timer's WAKE_UP makes it refresh and wake up.    *)
(*                                                                          *)
(* Two REFRESH that follow each other in a mailbox are one: whatever the    *)
(* scheduler does with the first, it is asleep when it meets the second.    *)
(***************************************************************************)
EXTENDS Integers, Sequences

CONSTANT Kinds            \* the schedulers: payments, channels, balance

VARIABLES
  box,     \* their mailboxes
  asleep,  \* those that have become sleep
  timer,   \* those whose timer runs
  posted   \* the events they have posted to the main thread

schedVars == <<box, asleep, timer, posted>>

SchedTypeOK ==
  /\ box \in [Kinds -> Seq({"REFRESH", "WAKE_UP"})]
  /\ asleep \subseteq Kinds /\ timer \subseteq asleep /\ posted \subseteq Kinds

SchedInit == box = [k \in Kinds |-> <<>>] /\ asleep = {} /\ timer = {} /\ posted = {}

SchedDies == box' = [k \in Kinds |-> <<>>] /\ asleep' = {} /\ timer' = {} /\ posted' = {}

Ends(s, m) == s # <<>> /\ s[Len(s)] = m

(* tell(REFRESH) to some of the schedulers. *)
Tell(ks) ==
  /\ box' = [k \in Kinds |-> IF k \in ks /\ ~Ends(box[k], "REFRESH")
                             THEN Append(box[k], "REFRESH") ELSE box[k]]
  /\ UNCHANGED <<asleep, timer, posted>>

Took(k, m) == box[k] # <<>> /\ Head(box[k]) = m /\ box' = [box EXCEPT ![k] = Tail(@)]

onReceive(k) ==
  /\ k \notin asleep /\ Took(k, "REFRESH")
  /\ asleep' = asleep \cup {k} /\ timer' = timer \cup {k}
  /\ UNCHANGED posted

IgnoredWhenAsleep(k) ==
  /\ k \in asleep /\ Took(k, "REFRESH")
  /\ UNCHANGED <<asleep, timer, posted>>

TimerFires(k) ==
  /\ k \in timer /\ timer' = timer \ {k}
  /\ box' = [box EXCEPT ![k] = Append(@, "WAKE_UP")]
  /\ UNCHANGED <<asleep, posted>>

WakesUp(k) ==
  /\ k \in asleep /\ Took(k, "WAKE_UP")
  /\ posted' = posted \cup {k} /\ asleep' = asleep \ {k}
  /\ UNCHANGED timer

(* Mutant: the refresh is at the beginning of the sleep, not at its end. *)
RefreshesFirst(k) ==
  \/ /\ k \notin asleep /\ Took(k, "REFRESH") /\ posted' = posted \cup {k}
     /\ asleep' = asleep \cup {k} /\ timer' = timer \cup {k}
  \/ IgnoredWhenAsleep(k) \/ TimerFires(k)
  \/ k \in asleep /\ Took(k, "WAKE_UP") /\ asleep' = asleep \ {k} /\ UNCHANGED <<timer, posted>>

SchedStep(k) == onReceive(k) \/ IgnoredWhenAsleep(k) \/ TimerFires(k) \/ WakesUp(k)
==============================================================================
