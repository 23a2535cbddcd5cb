------------------------ MODULE SendPaymentScreenProofs ------------------------
(***************************************************************************)
(* Theorems about SendPaymentScreen, for any number of taps and pending    *)
(* confirmations.                                                          *)
(***************************************************************************)
EXTENDS SendPaymentScreen, FiniteSetTheorems, TLAPS

(* Attempt a of `as' may still be sent, when the prompt is that of p. *)
Alive(as, p, a) == as[a].shown \/ p = a \/ as[a].confirms # 0

(* Nothing comes of attempt b. *)
Quiet(as, p, b) == ~Alive(as, p, b) /\ as[b].sent = 0

(* What holds of an attempt on its own. *)
Own(as, p, a) ==
  /\ as[a].sent \in {0, 1} /\ as[a].confirms \in {0, 1}
  /\ p = a => ~as[a].shown /\ as[a].confirms = 0
  /\ Alive(as, p, a) => ~as[a].dropped /\ as[a].sent = 0
  /\ as[a].sent # 0 => ~as[a].dropped

OneConfirms(as) == \A a, b \in DOMAIN as : a # b => as[a].confirms = 0 \/ as[b].confirms = 0

(* One attempt at a time is alive, and the form is disabled meanwhile
   (isProcessingPayment = pr). *)
OneAlive(as, p, pr) ==
  /\ \A a \in DOMAIN as : Alive(as, p, a) => pr
  /\ \A a, b \in DOMAIN as : a # b => ~Alive(as, p, a) \/ ~Alive(as, p, b)

(* One attempt at all comes to anything, and the form is disabled from then on. *)
Single(as, p, pr) ==
  /\ \A a \in DOMAIN as : as[a].sent # 0 => pr
  /\ \A a, b \in DOMAIN as : a # b => Quiet(as, p, a) \/ Quiet(as, p, b)

(* No confirmation is left once one attempt was sent, and no other was. *)
SentLast(as) ==
  /\ \A a, b \in DOMAIN as : as[a].sent # 0 => as[b].confirms = 0
  /\ \A a, b \in DOMAIN as : a # b => as[a].sent = 0 \/ as[b].sent = 0

(* What is displayed. *)
DisplayInv ==
  /\ threads > 0 => \E a \in Ids : attempts[a].sent # 0 /\ attempts[a].kind = "lightning"
  /\ life = "paused" => interrupted
  /\ step \in Kinds \/ clicks > 0 => invoice \in Kinds
  /\ step = "onchain" => invoice = "onchain"
  /\ step = "pick" => given.text = "both"
  /\ invoice = "lightning" => given.text \in {"lightning", "both"}
  /\ invoice = "onchain" => given.text \in {"onchain", "both"}
  /\ ~interrupted /\ reading => step = "loading"
  /\ ~interrupted /\ step \in {"loading", "pick"} => ~processing /\ clicks = 0 /\ Ids = {}
  /\ ~interrupted /\ life = "resumed" /\ step \in Kinds /\ processing =>
       threads > 0 \/ \E a \in Ids : Alive(attempts, prompt, a)

(* What the attempts are for. *)
KindInv ==
  /\ prompt # 0 => attempts[prompt].kind = "lightning" /\ mPinDialog \in Ids
  /\ \A a \in Ids : /\ attempts[a].kind = "onchain" /\ attempts[a].sent # 0 => life = "finished"
                    /\ attempts[a].kind = "lightning" => given.text \in {"lightning", "both"}
                    /\ ~interrupted => attempts[a].kind = invoice

(* The check of the on-chain balance can follow an interruption only on a
   screen whose text holds an address (wide: one that holds nothing else). *)
Wide == given.text # "onchain" \/ ~interrupted
Tight == given.text = "lightning" \/ ~interrupted

(* What holds as long as the user leaves a pending confirmation alone. *)
CalmInv ==
  /\ \A a \in Ids : Own(attempts, prompt, a)
  /\ prompt # 0 => mPinDialog = prompt
  /\ OneConfirms(attempts)
  /\ Wide => OneAlive(attempts, prompt, processing)
  /\ Tight => Single(attempts, prompt, processing)
  /\ given.text = "onchain" /\ given.pinRequired => SentLast(attempts)

ScreenInv == TypeOK /\ DisplayInv /\ KindInv /\ (~hurried => CalmInv)

(***************************************************************************)
(* The attempts.                                                           *)
(***************************************************************************)

(* The attempts are numbered from 1 (the screen keeps them in order). *)
LEMMA Numbered ==
  ASSUME TypeOK
  PROVE  /\ attempts \in [Ids -> Attempt] /\ 0 \notin Ids /\ DOMAIN attempts = Ids
         /\ Cardinality(Ids) \in 0 .. MaxAttempts /\ Ids = 1 .. Cardinality(Ids)
<1>1. PICK n \in 0 .. MaxAttempts : attempts \in [1 .. n -> Attempt]
  BY DEF TypeOK
<1>2. Ids = 1 .. n /\ n \in Nat
  BY <1>1, ScreenAssumption DEF Ids
<1>3. Cardinality(1 .. n) = n
  BY <1>2, FS_Interval
<1> QED BY <1>1, <1>2, <1>3

(* The types of attempts, as TypeOK wants them. *)
LEMMA StillNumbered ==
  ASSUME TypeOK, NEW as \in [Ids -> Attempt]
  PROVE  \E n \in 0 .. MaxAttempts : as \in [1 .. n -> Attempt]
BY Numbered

(* The types of the fields of an attempt. *)
LEMMA AttemptFields ==
  ASSUME NEW t \in Attempt
  PROVE  /\ t.kind \in Kinds /\ t.shown \in BOOLEAN /\ t.pin \in {"partial", "wrong", "right"}
         /\ t.confirms \in Nat /\ t.confirms <= MaxConfirms
         /\ t.sent \in Nat /\ t.dropped \in BOOLEAN
BY ScreenAssumption DEF Attempt

(* dismiss() closes a dialog, and changes nothing else. *)
LEMMA DismissedFields ==
  ASSUME NEW D, NEW as \in [D -> Attempt]
  PROVE  /\ Dismissed(as) \in [D -> Attempt]
         /\ \A a \in D : /\ Dismissed(as)[a].sent = as[a].sent
                         /\ Dismissed(as)[a].dropped = as[a].dropped
                         /\ Dismissed(as)[a].confirms = as[a].confirms
                         /\ Dismissed(as)[a].kind = as[a].kind
                         /\ Dismissed(as)[a].shown => as[a].shown
<1>1. Dismissed(as) \in [D -> Attempt]
  BY DEF Dismissed, Attempt
<1>2. ASSUME NEW a \in D
      PROVE  /\ Dismissed(as)[a].sent = as[a].sent
             /\ Dismissed(as)[a].dropped = as[a].dropped
             /\ Dismissed(as)[a].confirms = as[a].confirms
             /\ Dismissed(as)[a].kind = as[a].kind
             /\ Dismissed(as)[a].shown => as[a].shown
  BY DEF Dismissed, Attempt
<1> QED BY <1>1, <1>2

(* CalmInv, when the attempts are what they were, but for dialogs that were
   closed, and the check of the balance has enabled the form at most where no
   attempt that counts is alive. *)
LEMMA CalmKept ==
  ASSUME ScreenInv, ~hurried, interrupted => interrupted', UNCHANGED <<given, mPinDialog>>,
         attempts' \in [Ids -> Attempt], prompt' \in {prompt, 0},
         processing' \in BOOLEAN,
         \A b \in Ids : /\ attempts'[b].confirms = attempts[b].confirms
                        /\ attempts'[b].sent = attempts[b].sent
                        /\ attempts'[b].dropped = attempts[b].dropped
                        /\ attempts'[b].shown => attempts[b].shown,
         \/ processing' = processing
         \/ /\ Wide' => \A b \in Ids : ~Alive(attempts, prompt, b)
            /\ Tight' => \A b \in Ids : Quiet(attempts, prompt, b)
  PROVE  CalmInv'
<1> USE DEF ScreenInv
<1>1. /\ attempts \in [Ids -> Attempt] /\ DOMAIN attempts = Ids /\ DOMAIN attempts' = Ids
      /\ Ids' = Ids /\ 0 \notin Ids
  BY Numbered DEF Ids
<1>2. CalmInv
  OBVIOUS
<1>3. \A b \in Ids : Alive(attempts', prompt', b) => Alive(attempts, prompt, b)
  BY <1>1 DEF Alive
<1>4. \A b \in Ids : Own(attempts', prompt', b)
  <2> SUFFICES ASSUME NEW b \in Ids PROVE Own(attempts', prompt', b)
    OBVIOUS
  <2>1. Own(attempts, prompt, b) BY <1>2 DEF CalmInv
  <2>2. prompt' = b => prompt = b BY <1>1
  <2> QED BY <1>3, <2>1, <2>2 DEF Own
<1>5. prompt' # 0 => mPinDialog' = prompt'
  BY <1>2 DEF CalmInv
<1>6. OneConfirms(attempts')
  BY <1>1, <1>2 DEF CalmInv, OneConfirms
<1>7. (Wide' => Wide) /\ (Tight' => Tight)
  BY DEF Wide, Tight
<1>8. Wide' => OneAlive(attempts', prompt', processing')
  BY <1>1, <1>2, <1>3, <1>7 DEF CalmInv, OneAlive
<1>9. Tight' => Single(attempts', prompt', processing')
  BY <1>1, <1>2, <1>3, <1>7 DEF CalmInv, Single, Quiet
<1>10. given.text = "onchain" /\ given.pinRequired => SentLast(attempts')
  BY <1>1, <1>2 DEF CalmInv, SentLast
<1> QED BY <1>1, <1>4, <1>5, <1>6, <1>8, <1>9, <1>10 DEF CalmInv

(***************************************************************************)
(* The steps that leave the attempts alone, or dismiss the dialog.         *)
(***************************************************************************)
LEMMA InitScreen == Init => ScreenInv
<1> SUFFICES ASSUME Init PROVE ScreenInv
  OBVIOUS
<1>1. attempts \in [1 .. 0 -> Attempt] /\ 0 \in 0 .. MaxAttempts
  BY ScreenAssumption DEF Init
<1>2. DOMAIN attempts = {} /\ Ids = {}
  BY <1>1 DEF Ids
<1>3. TypeOK
  <2>1. \E n \in 0 .. MaxAttempts : attempts \in [1 .. n -> Attempt]
    BY <1>1
  <2>2. prompt \in Ids \cup {0} /\ mPinDialog \in Ids \cup {0} /\ threads \in Nat
    BY <1>1 DEF Init
  <2>3. clicks \in 0 .. 2 /\ step \in Steps /\ invoice \in Kinds \cup {"none"}
    BY DEF Init, Steps
  <2>4. /\ given \in Given /\ life \in {"resumed", "paused", "finished"}
        /\ reading \in BOOLEAN /\ processing \in BOOLEAN /\ interrupted \in BOOLEAN
        /\ hurried \in BOOLEAN
    BY DEF Init
  <2> QED BY <2>1, <2>2, <2>3, <2>4 DEF TypeOK
<1>4. DisplayInv
  BY <1>2 DEF Init, DisplayInv, Kinds
<1>5. KindInv
  BY <1>2 DEF Init, KindInv
<1>6. CalmInv
  BY <1>2 DEF Init, CalmInv, OneConfirms, OneAlive, Single, SentLast
<1> QED BY <1>3, <1>4, <1>5, <1>6 DEF ScreenInv

(* On a screen with nothing on top of the form, and no confirmation pending,
   no attempt is alive; nor was one sent, if it was for an address. *)
LEMMA NothingAlive ==
  ASSUME ScreenInv, FormOnTop, Calm
  PROVE  \A b \in Ids : /\ ~Alive(attempts, prompt, b)
                        /\ attempts[b].kind = "onchain" => Quiet(attempts, prompt, b)
<1> SUFFICES ASSUME NEW b \in Ids
             PROVE  /\ ~Alive(attempts, prompt, b)
                    /\ attempts[b].kind = "onchain" => Quiet(attempts, prompt, b)
  OBVIOUS
<1>1. 0 \notin Ids
  BY Numbered DEF ScreenInv
<1>2. ~Alive(attempts, prompt, b)
  BY <1>1 DEF FormOnTop, DialogShown, Calm, Alive
<1>3. attempts[b].kind = "onchain" => attempts[b].sent = 0
  BY DEF ScreenInv, KindInv, FormOnTop
<1> QED BY <1>2, <1>3 DEF Quiet

(* The steps of the form.  Where the check of the balance has enabled it, there
   is no attempt yet, or the screen was interrupted, or none is alive. *)
LEMMA FormScreen ==
  ASSUME ScreenInv,
         invoiceReadSuccessfully \/ Pick \/ EditAmount \/ onResume \/ Tap \/ (clicks > 0 /\ Ignore)
  PROVE  ScreenInv'
<1> USE DEF ScreenInv
<1>1. UNCHANGED <<given, interrupted, attempts, mPinDialog, prompt, threads>>
  BY DEF invoiceReadSuccessfully, Pick, EditAmount, onResume, Tap, Ignore
<1>2. Ids' = Ids /\ attempts \in [Ids -> Attempt]
  BY <1>1, Numbered DEF Ids
<1>3. clicks \in 0 .. 2 /\ (clicks' = clicks \/ (clicks < 2 /\ clicks' = clicks + 1)
                            \/ (clicks > 0 /\ clicks' = clicks - 1))
  BY DEF TypeOK, invoiceReadSuccessfully, Pick, EditAmount, onResume, Tap, Ignore
<1>4. clicks' \in 0 .. 2
  BY <1>3
<1>5. given.text \in {"unreadable", "lightning", "onchain", "both"}
  BY DEF TypeOK, Given
<1> DEFINE Reads == \/ /\ step' = "error" \/ (step' = "pick" /\ given.text = "both")
                       /\ invoice' = invoice /\ processing' = processing
                    \/ /\ step' = "lightning" /\ invoice' = "lightning" /\ checkOnchainBalance
                       /\ given.text \in {"lightning", "both"}
                    \/ /\ step' = "onchain" /\ invoice' = "onchain" /\ checkOnchainBalance
                       /\ given.text \in {"onchain", "both"}
<1>6. ASSUME invoiceReadSuccessfully
      PROVE  Reads /\ reading /\ ~reading' /\ UNCHANGED <<life, clicks, hurried>>
             /\ (given.text = "both" => processing' = processing)
  BY <1>5, <1>6 DEF invoiceReadSuccessfully, canNotHandlePayment,
     setupLightningPaymentForm, setupOnchainPaymentForm
<1>7. ASSUME Pick
      PROVE  Reads /\ FormOnTop /\ UserActs /\ step = "pick" /\ UNCHANGED <<life, clicks, reading>>
  BY <1>5, <1>7 DEF Pick, UserActs, FormOnTop, canNotHandlePayment,
     setupLightningPaymentForm, setupOnchainPaymentForm, DisplayInv
<1>8. \/ UNCHANGED <<step, invoice, processing>>
      \/ (Reads /\ (reading \/ step = "pick"))
      \/ (EditAmount /\ UNCHANGED <<step, invoice>> /\ checkOnchainBalance)
  BY <1>6, <1>7 DEF EditAmount, onResume, Tap, Ignore
<1>9. TypeOK'
  <2>1. /\ life' \in {"resumed", "paused", "finished"} /\ reading' \in BOOLEAN /\ hurried' \in BOOLEAN
    BY DEF TypeOK, invoiceReadSuccessfully, Pick, EditAmount, onResume, Tap, Ignore, UserActs
  <2>2. step' \in Steps /\ invoice' \in Kinds \cup {"none"} /\ processing' \in BOOLEAN
    BY <1>8 DEF checkOnchainBalance, TypeOK, Steps, Kinds
  <2> QED BY <1>1, <1>2, <1>4, <2>1, <2>2 DEF TypeOK
<1>10. ~interrupted /\ (reading \/ step = "pick") => ~processing /\ clicks = 0 /\ Ids = {}
  BY DEF DisplayInv
<1>11. DisplayInv'
  <2>1. (threads > 0 => \E a \in Ids : attempts[a].sent # 0 /\ attempts[a].kind = "lightning")'
    BY <1>1, <1>2 DEF DisplayInv
  <2>2. \A a : Alive(attempts, prompt, a)' <=> Alive(attempts, prompt, a)
    BY <1>1 DEF Alive
  <2>3. CASE invoiceReadSuccessfully
    <3>1. ~interrupted => ~processing' /\ clicks' = 0
      BY <1>6, <1>10, <2>3 DEF checkOnchainBalance
    <3> QED BY <1>1, <1>2, <1>6, <1>10, <2>1, <2>3, <3>1 DEF DisplayInv, Kinds
  <2>4. CASE Pick
    <3>1. ~interrupted => ~processing' /\ clicks' = 0
      BY <1>7, <1>10, <2>4 DEF checkOnchainBalance
    <3> QED BY <1>1, <1>2, <1>7, <1>10, <2>1, <2>4, <3>1 DEF DisplayInv, Kinds
  <2>5. CASE EditAmount
    <3>1. processing' => processing
      BY <2>5 DEF EditAmount, checkOnchainBalance, TypeOK
    <3> QED BY <1>1, <1>2, <2>1, <2>2, <2>5, <3>1 DEF DisplayInv, EditAmount, Kinds
  <2>6. CASE onResume
    BY <1>1, <1>2, <2>1, <2>2, <2>6 DEF DisplayInv, onResume
  <2>7. CASE Tap
    BY <1>1, <1>2, <1>3, <2>1, <2>2, <2>7 DEF DisplayInv, Tap, Kinds
  <2>8. CASE clicks > 0 /\ Ignore
    <3>1. UNCHANGED <<life, reading, step, invoice, processing>> BY <2>8 DEF Ignore
    <3>2. clicks # 0 BY <1>3, <2>8
    <3> QED BY <1>1, <1>2, <2>1, <2>2, <2>8, <3>1, <3>2 DEF DisplayInv
  <2> QED BY <2>3, <2>4, <2>5, <2>6, <2>7, <2>8
<1>12. KindInv'
  <2>1. ~interrupted => invoice' = invoice \/ Ids = {}
    BY <1>8, <1>10
  <2>2. life = "finished" => life' = "finished"
    BY DEF invoiceReadSuccessfully, Pick, EditAmount, onResume, Tap, Ignore
  <2> QED BY <1>1, <1>2, <2>1, <2>2 DEF KindInv
<1>13. ASSUME ~hurried' PROVE CalmInv'
  <2>1. ~hurried /\ (Pick \/ EditAmount => FormOnTop /\ Calm)
    BY <1>13 DEF invoiceReadSuccessfully, Pick, EditAmount, onResume, Tap, Ignore, UserActs, TypeOK
  <2> DEFINE R == \/ processing' = processing
                  \/ /\ Wide' => \A b \in Ids : ~Alive(attempts, prompt, b)
                     /\ Tight' => \A b \in Ids : Quiet(attempts, prompt, b)
  <2>2. R
    <3> SUFFICES ASSUME processing' # processing PROVE R
      OBVIOUS
    <3>1. invoice = "onchain" /\ given.text \in {"onchain", "both"}
      BY <1>8 DEF checkOnchainBalance, DisplayInv
    <3>2. CASE ~interrupted /\ (reading \/ step = "pick")
      BY <1>10, <3>2
    <3>3. CASE invoiceReadSuccessfully /\ interrupted
      <4>1. given.text = "onchain" BY <1>6, <3>1, <3>3
      <4> QED BY <1>1, <3>3, <4>1 DEF Wide, Tight
    <3>4. CASE Pick /\ interrupted
      <4>1. ~Tight' BY <1>1, <3>1, <3>4 DEF Tight
      <4> QED BY <2>1, <3>4, <4>1, NothingAlive
    <3>5. CASE EditAmount
      <4>1. ~interrupted => \A b \in Ids : attempts[b].kind = "onchain"
        BY <3>1 DEF KindInv
      <4>2. Tight' => ~interrupted BY <1>1, <3>1 DEF Tight
      <4> QED BY <2>1, <3>5, <4>1, <4>2, NothingAlive
    <3>6. (invoiceReadSuccessfully /\ reading) \/ (Pick /\ step = "pick") \/ EditAmount
      BY <1>6, <1>7 DEF onResume, Tap, Ignore
    <3> QED BY <3>2, <3>3, <3>4, <3>5, <3>6
  <2> HIDE DEF Reads
  <2> QED BY <1>1, <1>2, <1>9, <2>1, <2>2, CalmKept DEF TypeOK
<1> QED BY <1>9, <1>11, <1>12, <1>13

(* The steps that dismiss the dialog or the prompt. *)
LEMMA HideScreen ==
  ASSUME ScreenInv, onPause \/ Leave \/ ThreadEnds \/ \E a \in Ids : onAuthenticationError(a)
  PROVE  ScreenInv'
<1> USE DEF ScreenInv
<1>1. /\ UNCHANGED <<given, reading, clicks, processing, invoice, mPinDialog>>
      /\ attempts' = Dismissed(attempts) \/ attempts' = attempts
      /\ prompt' \in {prompt, 0}
      /\ life' \in {"resumed", "paused", "finished"} /\ step' \in Steps
      /\ interrupted' \in BOOLEAN /\ hurried' \in BOOLEAN
      /\ (interrupted => interrupted') /\ (~hurried' => ~hurried)
  BY DEF onPause, Leave, ThreadEnds, onAuthenticationError, Finish, UserActs, canNotHandlePayment,
     TypeOK, Steps
<1>2. attempts \in [Ids -> Attempt] /\ 0 \notin Ids /\ DOMAIN attempts = Ids
  BY Numbered
<1>3. /\ attempts' \in [Ids -> Attempt]
      /\ \A a \in Ids : /\ attempts'[a].sent = attempts[a].sent
                        /\ attempts'[a].confirms = attempts[a].confirms
                        /\ attempts'[a].dropped = attempts[a].dropped
                        /\ attempts'[a].kind = attempts[a].kind
                        /\ attempts'[a].shown => attempts[a].shown
  <2>1. CASE attempts' = attempts BY <1>2, <2>1
  <2>2. CASE attempts' = Dismissed(attempts) BY <1>2, <2>2, DismissedFields
  <2> QED BY <1>1, <2>1, <2>2
<1>4. Ids' = Ids
  BY <1>3 DEF Ids
<1>5. threads' \in Nat /\ (threads' > 0 => threads > 0)
  <2>1. threads' = threads \/ (threads > 0 /\ threads' = threads - 1)
    BY DEF onPause, Leave, ThreadEnds, onAuthenticationError
  <2> QED BY <2>1 DEF TypeOK
<1>6. TypeOK'
  <2>1. \E n \in 0 .. MaxAttempts : attempts' \in [1 .. n -> Attempt]
    BY <1>3, StillNumbered
  <2> QED BY <1>1, <1>4, <1>5, <2>1 DEF TypeOK
<1>7. (threads > 0 => \E a \in Ids : attempts[a].sent # 0 /\ attempts[a].kind = "lightning")'
  <2> SUFFICES ASSUME threads' > 0
               PROVE  \E a \in Ids : attempts'[a].sent # 0 /\ attempts'[a].kind = "lightning"
    BY <1>4
  <2>1. PICK a \in Ids : attempts[a].sent # 0 /\ attempts[a].kind = "lightning"
    BY <1>5 DEF DisplayInv
  <2> QED BY <1>3, <2>1
<1>8. DisplayInv'
  <2>1. CASE onPause
    BY <1>1, <1>4, <1>7, <2>1 DEF DisplayInv, onPause
  <2>2. CASE Leave
    BY <1>1, <1>4, <1>7, <2>2 DEF DisplayInv, Leave, Finish
  <2>3. CASE \E a \in Ids : onAuthenticationError(a)
    BY <1>1, <1>4, <1>7, <2>3 DEF DisplayInv, onAuthenticationError
  <2>4. CASE ThreadEnds
    <3>1. UNCHANGED interrupted /\ ((life' = "finished" /\ step' = step) \/ (step' = "error" /\ life' = life))
      BY <2>4 DEF ThreadEnds, Finish, canNotHandlePayment
    <3>2. ~interrupted => step \notin {"loading", "pick"}
      BY <2>4 DEF ThreadEnds, DisplayInv
    <3> QED BY <1>1, <1>4, <1>7, <3>1, <3>2 DEF DisplayInv, Kinds
  <2> QED BY <2>1, <2>2, <2>3, <2>4
<1>9. KindInv'
  <2>1. life = "finished" => life' = "finished"
    BY DEF onPause, Leave, ThreadEnds, onAuthenticationError, Finish, FormOnTop
  <2>2. prompt' # 0 => prompt' = prompt /\ prompt \in Ids
    BY <1>1 DEF TypeOK
  <2>3. prompt' # 0 => attempts'[prompt'].kind = "lightning" /\ mPinDialog' \in Ids
    BY <1>1, <1>3, <2>2 DEF KindInv
  <2>4. ASSUME NEW a \in Ids
        PROVE  /\ attempts'[a].kind = "onchain" /\ attempts'[a].sent # 0 => life' = "finished"
               /\ attempts'[a].kind = "lightning" => given'.text \in {"lightning", "both"}
               /\ ~interrupted' => attempts'[a].kind = invoice'
    BY <1>1, <1>3, <2>1 DEF KindInv
  <2> QED BY <1>4, <2>3, <2>4 DEF KindInv
<1>10. ASSUME ~hurried' PROVE CalmInv'
  <2>1. processing' \in BOOLEAN BY <1>6 DEF TypeOK
  <2> QED BY <1>1, <1>3, <1>10, <2>1, CalmKept
<1> QED BY <1>6, <1>8, <1>9, <1>10

(***************************************************************************)
(* The steps that one attempt takes.                                       *)
(***************************************************************************)

(* The invariant but for CalmInv, which a hurried user may break: what is
   displayed follows from what becomes of the attempt. *)
LEMMA AttemptDisplay ==
  ASSUME ScreenInv, NEW a \in Ids,
         UNCHANGED <<given, interrupted, reading, step, invoice, clicks, mPinDialog>>,
         hurried' \in BOOLEAN,
         attempts' \in [Ids -> Attempt], prompt' \in {prompt, 0}, processing' \in BOOLEAN,
         life' \in {life, "finished"},
         \A b \in Ids : attempts'[b].kind = attempts[b].kind
                        /\ (attempts[b].sent # 0 => attempts'[b].sent # 0),
         \A b \in Ids \ {a} : attempts'[b].sent = attempts[b].sent,
         attempts'[a].sent = attempts[a].sent \/ attempts[a].kind = "lightning" \/ life' = "finished",
         \/ threads' = threads
         \/ threads' = threads + 1 /\ attempts'[a].sent # 0 /\ attempts[a].kind = "lightning",
         \/ Alive(attempts', prompt', a)
         \/ ~processing'
         \/ life' = "finished"
         \/ threads' = threads + 1
  PROVE  TypeOK' /\ DisplayInv' /\ KindInv'
<1> USE DEF ScreenInv
<1>1. attempts \in [Ids -> Attempt] /\ 0 \notin Ids
  BY Numbered
<1>2. Ids' = Ids
  BY DEF Ids
<1>3. threads' \in Nat /\ (threads' = threads + 1 => threads' > 0) /\ threads \in Nat
  BY DEF TypeOK
<1>4. TypeOK'
  <2>1. \E n \in 0 .. MaxAttempts : attempts' \in [1 .. n -> Attempt]
    BY StillNumbered
  <2>2. prompt' \in Ids \cup {0} /\ life' \in {"resumed", "paused", "finished"}
    BY DEF TypeOK
  <2> QED BY <1>2, <1>3, <2>1, <2>2 DEF TypeOK
<1>5. (threads > 0 => \E b \in Ids : attempts[b].sent # 0 /\ attempts[b].kind = "lightning")'
  <2>1. CASE threads' = threads
    <3> SUFFICES ASSUME threads > 0
                 PROVE  \E b \in Ids : attempts'[b].sent # 0 /\ attempts'[b].kind = "lightning"
      BY <1>2, <2>1
    <3>1. PICK b \in Ids : attempts[b].sent # 0 /\ attempts[b].kind = "lightning"
      BY DEF DisplayInv
    <3> QED BY <3>1
  <2>2. CASE threads' = threads + 1 /\ attempts'[a].sent # 0 /\ attempts[a].kind = "lightning"
    BY <1>2, <2>2
  <2> QED BY <2>1, <2>2
<1>6. DisplayInv'
  <2>1. Alive(attempts', prompt', a) => (\E b \in Ids : Alive(attempts, prompt, b))'
    BY <1>2
  <2>2. (life = "paused" => interrupted)' /\ (~interrupted /\ step \in {"loading", "pick"} => Ids = {})'
    BY <1>2 DEF DisplayInv
  <2>3. ~interrupted' => step' \notin {"loading", "pick"}
    BY DEF DisplayInv
  <2> QED BY <1>2, <1>3, <1>5, <2>1, <2>2, <2>3 DEF DisplayInv
<1>7. KindInv'
  <2>1. prompt' # 0 => prompt' = prompt /\ prompt \in Ids
    BY DEF TypeOK
  <2>2. prompt' # 0 => attempts'[prompt'].kind = "lightning" /\ mPinDialog' \in Ids
    BY <2>1 DEF KindInv
  <2>3. ASSUME NEW b \in Ids
        PROVE  /\ attempts'[b].kind = "onchain" /\ attempts'[b].sent # 0 => life' = "finished"
               /\ attempts'[b].kind = "lightning" => given'.text \in {"lightning", "both"}
               /\ ~interrupted' => attempts'[b].kind = invoice'
    <3>1. attempts[b].kind = "onchain" /\ attempts'[b].sent # 0 => life' = "finished"
      BY DEF KindInv
    <3> QED BY <3>1 DEF KindInv
  <2> QED BY <1>2, <2>2, <2>3 DEF KindInv
<1> QED BY <1>4, <1>6, <1>7

(* CalmInv, from what the step does to an attempt that is alive. *)
LEMMA AttemptCalm ==
  ASSUME ScreenInv, CalmInv, NEW a \in Ids, Alive(attempts, prompt, a),
         UNCHANGED <<given, interrupted, mPinDialog>>,
         attempts' \in [Ids -> Attempt], prompt' \in {prompt, 0}, processing' \in BOOLEAN,
         \A b \in Ids \ {a} : /\ attempts'[b].confirms = attempts[b].confirms
                              /\ attempts'[b].sent = attempts[b].sent
                              /\ attempts'[b].dropped = attempts[b].dropped
                              /\ attempts'[b].shown => attempts[b].shown,
         Own(attempts', prompt', a),
         Alive(attempts', prompt', a) \/ attempts'[a].sent # 0 => processing' = processing,
         \/ attempts'[a].confirms = 0
         \/ attempts[a].confirms # 0
         \/ Calm /\ life = "resumed",
         attempts'[a].sent # 0 => attempts'[a].confirms = 0
                                  /\ (attempts[a].confirms # 0 \/ given.text # "onchain")
  PROVE  CalmInv'
<1> USE DEF ScreenInv
<1>1. /\ attempts \in [Ids -> Attempt] /\ DOMAIN attempts = Ids /\ DOMAIN attempts' = Ids
      /\ Ids' = Ids /\ 0 \notin Ids
  BY Numbered DEF Ids
<1>2. \A b \in Ids \ {a} : Alive(attempts', prompt', b) => Alive(attempts, prompt, b)
  BY <1>1 DEF Alive
<1>3. \A b \in Ids : Own(attempts', prompt', b)
  <2> SUFFICES ASSUME NEW b \in Ids \ {a} PROVE Own(attempts', prompt', b)
    OBVIOUS
  <2>1. Own(attempts, prompt, b) BY DEF CalmInv
  <2>2. prompt' = b => prompt = b BY <1>1
  <2> QED BY <1>2, <2>1, <2>2 DEF Own
<1>4. attempts[a].sent = 0
  BY DEF CalmInv, Own
<1>5. OneConfirms(attempts')
  <2>1. attempts'[a].confirms # 0 => \A b \in Ids \ {a} : attempts[b].confirms = 0
    BY <1>1 DEF CalmInv, OneConfirms, Calm
  <2> QED BY <1>1, <2>1 DEF CalmInv, OneConfirms
<1>6. Wide' => OneAlive(attempts', prompt', processing')
  <2> SUFFICES ASSUME Wide PROVE OneAlive(attempts', prompt', processing')
    BY DEF Wide
  <2>1. processing /\ \A b \in Ids \ {a} : ~Alive(attempts, prompt, b)
    BY <1>1 DEF CalmInv, OneAlive
  <2> QED BY <1>1, <1>2, <2>1 DEF OneAlive
<1>7. Tight' => Single(attempts', prompt', processing')
  <2> SUFFICES ASSUME Tight PROVE Single(attempts', prompt', processing')
    BY DEF Tight
  <2>1. \A b \in Ids \ {a} : Quiet(attempts, prompt, b)
    BY <1>1 DEF CalmInv, Single, Quiet
  <2>2. processing
    BY <1>1 DEF CalmInv, OneAlive, Wide, Tight
  <2>3. \A b \in Ids \ {a} : Quiet(attempts', prompt', b)
    BY <1>2, <2>1 DEF Quiet
  <2> QED BY <1>1, <2>2, <2>3 DEF Single, Quiet
<1>8. given.text = "onchain" /\ given.pinRequired => SentLast(attempts')
  <2> SUFFICES ASSUME given.text = "onchain", given.pinRequired PROVE SentLast(attempts')
    OBVIOUS
  <2>1. SentLast(attempts)
    BY DEF CalmInv
  <2>2. \A b \in Ids : attempts[b].kind = "onchain"
    <3>1. ASSUME NEW b \in Ids PROVE attempts[b].kind \in {"lightning", "onchain"}
      BY <1>1, AttemptFields DEF Kinds
    <3> QED BY <3>1 DEF KindInv
  <2>3. CASE attempts[a].confirms # 0
    <3>1. \A b \in Ids : attempts[b].sent = 0
      BY <1>1, <2>1, <2>3 DEF SentLast
    <3>2. \A b \in Ids \ {a} : attempts[b].confirms = 0
      BY <1>1, <2>3 DEF CalmInv, OneConfirms
    <3> QED BY <1>1, <3>1, <3>2 DEF SentLast
  <2>4. CASE attempts[a].confirms = 0
    <3>1. attempts'[a].sent = 0
      BY <2>4
    <3>2. attempts'[a].confirms # 0 => \A b \in Ids : attempts[b].sent = 0
      BY <2>2, <2>4 DEF KindInv
    <3> QED BY <1>1, <2>1, <3>1, <3>2 DEF SentLast
  <2> QED BY <2>3, <2>4
<1>9. prompt' # 0 => mPinDialog' = prompt'
  BY DEF CalmInv
<1> QED BY <1>1, <1>3, <1>5, <1>6, <1>7, <1>8, <1>9 DEF CalmInv

(* Attempts f are attempts g, but for attempt a. *)
OthersKept(f, g, a) == \A b \in DOMAIN g \ {a} : f[b] = g[b]

(* Attempt t is attempt u, sent once more. *)
SentMore(t, u) ==
  /\ t.sent # 0 /\ (u.sent = 0 => t.sent = 1)
  /\ t.kind = u.kind /\ t.shown = u.shown /\ t.confirms = u.confirms /\ t.dropped = u.dropped

(* Attempt t is attempt u, but for what it was dropped. *)
DroppedOnly(t, u) ==
  t.sent = u.sent /\ t.kind = u.kind /\ t.shown = u.shown /\ t.confirms = u.confirms

(* Sent, Dropped and Execute, on the attempts in a state of theirs. *)
LEMMA SentFields ==
  ASSUME NEW D, NEW as \in [D -> Attempt], NEW a \in D
  PROVE  Sent(as, a) \in [D -> Attempt] /\ OthersKept(Sent(as, a), as, a) /\ SentMore(Sent(as, a)[a], as[a])
<1>1. as[a] \in Attempt /\ as[a].sent \in Nat
  BY AttemptFields
<1>2. PICK n \in Nat : n = as[a].sent + 1 /\ n # 0 /\ (as[a].sent = 0 => n = 1)
  <2>1. \A k \in Nat : \E n \in Nat : n = k + 1 /\ n # 0 /\ (k = 0 => n = 1)
    OBVIOUS
  <2> QED BY <1>1, <2>1
<1> DEFINE t == [as[a] EXCEPT !.sent = n]
<1>3. /\ t \in Attempt /\ t.sent = n /\ t.kind = as[a].kind /\ t.shown = as[a].shown
      /\ t.confirms = as[a].confirms /\ t.dropped = as[a].dropped
  BY <1>1 DEF Attempt
<1>4. Sent(as, a) = [as EXCEPT ![a] = t]
  BY <1>2 DEF Sent
<1> HIDE DEF t
<1>5. Sent(as, a) \in [D -> Attempt] /\ Sent(as, a)[a] = t /\ \A b \in D \ {a} : Sent(as, a)[b] = as[b]
  BY <1>3, <1>4
<1> QED BY <1>2, <1>3, <1>5 DEF SentMore, OthersKept

(* Dropped changes one attempt, and of it what it says. *)
LEMMA DroppedFields ==
  ASSUME NEW D, NEW as \in [D -> Attempt], NEW a \in D
  PROVE  Dropped(as, a) \in [D -> Attempt] /\ OthersKept(Dropped(as, a), as, a) /\ DroppedOnly(Dropped(as, a)[a], as[a])
<1> DEFINE t == [as[a] EXCEPT !.dropped = TRUE]
<1>1. as[a] \in Attempt
  OBVIOUS
<1>2. /\ t \in Attempt /\ t.sent = as[a].sent /\ t.kind = as[a].kind /\ t.shown = as[a].shown
      /\ t.confirms = as[a].confirms /\ t.dropped
  BY <1>1 DEF Attempt
<1>3. Dropped(as, a) = [as EXCEPT ![a] = t]
  BY DEF Dropped
<1> HIDE DEF t
<1>4. Dropped(as, a) \in [D -> Attempt] /\ Dropped(as, a)[a] = t
      /\ \A b \in D \ {a} : Dropped(as, a)[b] = as[b]
  BY <1>2, <1>3
<1> QED BY <1>2, <1>4 DEF DroppedOnly, OthersKept

(* What is executed is sent once more; on-chain, the screen closes. *)
LEMMA ExecuteFields ==
  ASSUME NEW D, NEW as \in [D -> Attempt], NEW a \in D, Execute(as, a)
  PROVE  /\ attempts' \in [D -> Attempt] /\ prompt' \in {prompt, 0} /\ life' \in {life, "finished"}
         /\ \A b \in D : /\ b # a => attempts'[b].sent = as[b].sent
                         /\ attempts'[b].dropped = as[b].dropped
                         /\ attempts'[b].confirms = as[b].confirms
                         /\ attempts'[b].kind = as[b].kind
                         /\ attempts'[b].shown => as[b].shown
         /\ (as[a].sent = 0 => attempts'[a].sent = 1) /\ attempts'[a].sent # 0
         /\ \/ as[a].kind = "lightning" /\ threads' = threads + 1
            \/ as[a].kind = "onchain" /\ threads' = threads /\ life' = "finished"
<1> DEFINE s == Sent(as, a)
<1>1. s \in [D -> Attempt] /\ OthersKept(s, as, a) /\ SentMore(s[a], as[a])
  BY SentFields
<1>2. \/ attempts' = s /\ as[a].kind = "lightning" /\ threads' = threads + 1 /\ UNCHANGED <<life, prompt>>
      \/ /\ attempts' = Dismissed(s) /\ as[a].kind = "onchain" /\ threads' = threads
         /\ life' = "finished" /\ prompt' = 0
  BY DEF Execute, Finish
<1> HIDE DEF s
<1>3. /\ (as[a].sent = 0 => s[a].sent = 1) /\ s[a].sent # 0
      /\ \A b \in D : /\ b # a => s[b].sent = as[b].sent
                      /\ s[b].dropped = as[b].dropped /\ s[b].confirms = as[b].confirms
                      /\ s[b].kind = as[b].kind /\ s[b].shown = as[b].shown
  BY <1>1 DEF OthersKept, SentMore
<1>4. CASE attempts' = s
  BY <1>1, <1>2, <1>3, <1>4
<1>5. CASE /\ attempts' = Dismissed(s) /\ as[a].kind = "onchain" /\ threads' = threads
           /\ life' = "finished" /\ prompt' = 0
  <2>1. /\ attempts' \in [D -> Attempt]
        /\ \A b \in D : /\ attempts'[b].sent = s[b].sent
                        /\ attempts'[b].dropped = s[b].dropped /\ attempts'[b].confirms = s[b].confirms
                        /\ attempts'[b].kind = s[b].kind
                        /\ attempts'[b].shown => s[b].shown
    BY <1>1, <1>5, DismissedFields
  <2>2. \A b \in D : /\ b # a => attempts'[b].sent = as[b].sent
                     /\ attempts'[b].dropped = as[b].dropped
                     /\ attempts'[b].confirms = as[b].confirms
                     /\ attempts'[b].kind = as[b].kind
                     /\ attempts'[b].shown => as[b].shown
    BY <1>3, <2>1
  <2>3. (as[a].sent = 0 => attempts'[a].sent = 1) /\ attempts'[a].sent # 0
    BY <1>3, <2>1
  <2> QED BY <1>5, <2>1, <2>2, <2>3
<1> QED BY <1>2, <1>4, <1>5

(* The keys and the cancel button of the PIN dialog. *)
LEMMA PinScreen ==
  ASSUME ScreenInv, NEW a \in Ids, TypePin(a) \/ Backspace(a) \/ onPinCancel(a)
  PROVE  ScreenInv'
<1> USE DEF ScreenInv
<1>1. /\ attempts[a].shown /\ life = "resumed" /\ hurried' = (hurried \/ ~Calm)
      /\ UNCHANGED <<given, interrupted, life, reading, step, invoice, clicks, mPinDialog, prompt, threads>>
      /\ hurried' \in BOOLEAN
  BY DEF TypePin, Backspace, onPinCancel, UserActs, OnTop
<1>2. attempts \in [Ids -> Attempt] /\ Alive(attempts, prompt, a) /\ processing \in BOOLEAN
  BY <1>1, Numbered DEF Alive, TypeOK
<1>3. attempts[a] \in Attempt /\ attempts[a].confirms \in 0 .. MaxConfirms
  BY <1>2 DEF Attempt
<1> DEFINE Changes == /\ attempts' \in [Ids -> Attempt] /\ processing' \in BOOLEAN
                      /\ \A b \in Ids \ {a} : attempts'[b] = attempts[b]
                      /\ attempts'[a].kind = attempts[a].kind /\ attempts'[a].sent = attempts[a].sent
                      /\ \/ attempts'[a].shown /\ attempts'[a].dropped = attempts[a].dropped
                            /\ processing' = processing
                         \/ ~attempts'[a].shown /\ ~processing'
                            /\ attempts'[a].confirms = attempts[a].confirms
                      /\ \/ attempts'[a].confirms = attempts[a].confirms
                         \/ attempts'[a].confirms = attempts[a].confirms + 1
<1>4. Changes
  <2>1. CASE TypePin(a)
    <3>1. PICK v \in {"wrong", "right"} :
            attempts' = [attempts EXCEPT ![a].pin = v, ![a].confirms = @ + 1]
      BY <2>1 DEF TypePin
    <3> DEFINE t == [attempts[a] EXCEPT !.pin = v, !.confirms = attempts[a].confirms + 1]
    <3>2. attempts' = [attempts EXCEPT ![a] = t]
      BY <1>2, <3>1
    <3>3. attempts[a].confirms < MaxConfirms /\ attempts[a].confirms + 1 \in 0 .. MaxConfirms
      BY <1>3, <2>1, ScreenAssumption DEF TypePin
    <3>4. t \in Attempt /\ t.shown = attempts[a].shown /\ t.dropped = attempts[a].dropped
          /\ t.sent = attempts[a].sent /\ t.confirms = attempts[a].confirms + 1
          /\ t.kind = attempts[a].kind
      BY <1>3, <3>3 DEF Attempt
    <3> HIDE DEF t
    <3>5. attempts' \in [Ids -> Attempt] /\ attempts'[a] = t /\ \A b \in Ids \ {a} : attempts'[b] = attempts[b]
      BY <1>2, <3>2, <3>4
    <3> QED BY <1>1, <1>2, <2>1, <3>4, <3>5 DEF TypePin
  <2>2. CASE Backspace(a)
    <3> DEFINE t == [attempts[a] EXCEPT !.pin = "partial"]
    <3>1. attempts' = [attempts EXCEPT ![a] = t]
      BY <2>2 DEF Backspace
    <3>2. t \in Attempt /\ t.shown = attempts[a].shown /\ t.dropped = attempts[a].dropped
          /\ t.sent = attempts[a].sent /\ t.confirms = attempts[a].confirms /\ t.kind = attempts[a].kind
      BY <1>3 DEF Attempt
    <3> HIDE DEF t
    <3>3. attempts' \in [Ids -> Attempt] /\ attempts'[a] = t /\ \A b \in Ids \ {a} : attempts'[b] = attempts[b]
      BY <1>2, <3>1, <3>2
    <3> QED BY <1>1, <1>2, <2>2, <3>2, <3>3 DEF Backspace
  <2>3. CASE onPinCancel(a)
    <3> DEFINE t == [attempts[a] EXCEPT !.shown = FALSE]
               as == [attempts EXCEPT ![a] = t]
    <3>1. attempts' = Dropped(as, a) /\ ~processing' /\ processing' \in BOOLEAN
      BY <2>3 DEF onPinCancel
    <3>2. t \in Attempt /\ ~t.shown /\ t.sent = attempts[a].sent /\ t.confirms = attempts[a].confirms
          /\ t.kind = attempts[a].kind
      BY <1>3 DEF Attempt
    <3> HIDE DEF t
    <3>3. as \in [Ids -> Attempt] /\ as[a] = t /\ \A b \in Ids \ {a} : as[b] = attempts[b]
      BY <1>2, <3>2
    <3> HIDE DEF as
    <3>4. attempts' \in [Ids -> Attempt] /\ OthersKept(attempts', as, a) /\ DroppedOnly(attempts'[a], as[a])
      BY <3>1, <3>3, DroppedFields
    <3>5. /\ \A b \in Ids \ {a} : attempts'[b] = attempts[b]
          /\ attempts'[a].sent = t.sent /\ attempts'[a].kind = t.kind
          /\ attempts'[a].shown = t.shown /\ attempts'[a].confirms = t.confirms
      BY <3>3, <3>4 DEF OthersKept, DroppedOnly
    <3> QED BY <2>3, <3>1, <3>2, <3>4, <3>5
  <2> QED BY <2>1, <2>2, <2>3
<1> HIDE DEF Changes
<1>5. TypeOK' /\ DisplayInv' /\ KindInv'
  <2>1. Alive(attempts', prompt', a) \/ ~processing'
    BY <1>4 DEF Changes, Alive
  <2>2. /\ \A b \in Ids : attempts'[b].kind = attempts[b].kind /\ attempts'[b].sent = attempts[b].sent
        /\ attempts' \in [Ids -> Attempt] /\ processing' \in BOOLEAN
    BY <1>4 DEF Changes
  <2> QED BY <1>1, <2>1, <2>2, AttemptDisplay
<1>6. ASSUME ~hurried' PROVE CalmInv'
  <2>1. Calm /\ CalmInv
    BY <1>1, <1>6 DEF TypeOK
  <2>2. Own(attempts, prompt, a) /\ attempts[a].confirms = 0
    BY <2>1 DEF CalmInv, Calm
  <2>3. prompt # a /\ ~attempts[a].dropped /\ attempts[a].sent = 0
    BY <1>1, <1>2, <2>2 DEF Own
  <2>4. Own(attempts', prompt', a)
    <3>1. attempts'[a].confirms \in {0, 1} BY <1>4, <2>2 DEF Changes
    <3>2. CASE ~attempts'[a].shown /\ attempts'[a].confirms = attempts[a].confirms
      BY <1>1, <1>4, <2>2, <2>3, <3>2 DEF Own, Alive, Changes
    <3>3. CASE attempts'[a].shown /\ attempts'[a].dropped = attempts[a].dropped
      BY <1>1, <1>4, <2>3, <3>1, <3>3 DEF Own, Alive, Changes
    <3> QED BY <1>4, <3>2, <3>3 DEF Changes
  <2>5. Alive(attempts', prompt', a) \/ attempts'[a].sent # 0 => processing' = processing
    <3>1. attempts'[a].sent = 0 BY <1>4, <2>3 DEF Changes
    <3>2. CASE ~attempts'[a].shown /\ attempts'[a].confirms = attempts[a].confirms
      BY <1>1, <2>2, <2>3, <3>1, <3>2 DEF Alive
    <3> QED BY <1>4, <3>1, <3>2 DEF Changes
  <2>6. \A b \in Ids \ {a} : attempts'[b] = attempts[b]
    BY <1>4 DEF Changes
  <2>7. attempts'[a].sent = 0 /\ attempts' \in [Ids -> Attempt] /\ processing' \in BOOLEAN
    BY <1>4, <2>3 DEF Changes
  <2> QED BY <1>1, <1>2, <2>1, <2>4, <2>5, <2>6, <2>7, AttemptCalm
<1> QED BY <1>5, <1>6

(* A confirmation runs: right after all the user has done, or with the PIN wrong. *)
LEMMA ConfirmScreen ==
  ASSUME ScreenInv, NEW a \in Ids, onPinConfirm(a)
  PROVE  ScreenInv'
<1> USE DEF ScreenInv
<1>1. /\ UNCHANGED <<given, interrupted, hurried, reading, step, invoice, clicks, mPinDialog>>
      /\ attempts[a].confirms > 0 /\ hurried \in BOOLEAN /\ processing \in BOOLEAN
  BY DEF onPinConfirm, TypeOK
<1>2. /\ attempts \in [Ids -> Attempt] /\ 0 \notin Ids
      /\ attempts[a].confirms \in Nat \ {0} /\ attempts[a].confirms <= MaxConfirms
  BY <1>1, Numbered, AttemptFields
<1>3. attempts[a] \in Attempt /\ Alive(attempts, prompt, a)
  BY <1>2 DEF Alive
<1>10. PICK c \in 0 .. MaxConfirms : c = attempts[a].confirms - 1 /\ (attempts[a].confirms = 1 => c = 0)
  BY <1>2, ScreenAssumption
<1> DEFINE t == [attempts[a] EXCEPT !.confirms = c, !.shown = FALSE]
           done == [attempts EXCEPT ![a].confirms = @ - 1, ![a].shown = FALSE]
<1>4. \/ Execute(done, a) /\ UNCHANGED processing
      \/ attempts' = Dropped(done, a) /\ processing' = FALSE /\ UNCHANGED <<life, prompt, threads>>
  BY Zenon DEF onPinConfirm
<1>5. /\ t \in Attempt /\ ~t.shown /\ t.sent = attempts[a].sent /\ t.kind = attempts[a].kind
      /\ t.dropped = attempts[a].dropped /\ t.confirms = c
  BY <1>3 DEF Attempt
<1>11. done = [attempts EXCEPT ![a] = t]
  BY <1>2, <1>10
<1> HIDE DEF t
<1>6. done \in [Ids -> Attempt] /\ done[a] = t /\ \A b \in Ids \ {a} : done[b] = attempts[b]
  BY <1>2, <1>5, <1>11
<1> HIDE DEF done
<1> DEFINE Outcome ==
      /\ attempts' \in [Ids -> Attempt] /\ prompt' \in {prompt, 0} /\ life' \in {life, "finished"}
      /\ \A b \in Ids \ {a} : /\ attempts'[b].sent = attempts[b].sent
                              /\ attempts'[b].dropped = attempts[b].dropped
                              /\ attempts'[b].confirms = attempts[b].confirms
                              /\ attempts'[b].shown => attempts[b].shown
      /\ \A b \in Ids : attempts'[b].kind = attempts[b].kind
      /\ ~attempts'[a].shown /\ attempts'[a].confirms = c
      /\ \/ /\ attempts'[a].dropped = attempts[a].dropped /\ processing' = processing
            /\ attempts'[a].sent # 0 /\ (attempts[a].sent = 0 => attempts'[a].sent = 1)
            /\ \/ attempts[a].kind = "lightning" /\ threads' = threads + 1
               \/ life' = "finished" /\ threads' = threads
         \/ attempts'[a].sent = attempts[a].sent /\ processing' = FALSE /\ threads' = threads
<1>7. Outcome
  <2>1. CASE Execute(done, a) /\ UNCHANGED processing
    <3>1. /\ attempts' \in [Ids -> Attempt] /\ prompt' \in {prompt, 0} /\ life' \in {life, "finished"}
          /\ \A b \in Ids : /\ b # a => attempts'[b].sent = done[b].sent
                            /\ attempts'[b].dropped = done[b].dropped
                            /\ attempts'[b].confirms = done[b].confirms
                            /\ attempts'[b].kind = done[b].kind
                            /\ attempts'[b].shown => done[b].shown
          /\ (done[a].sent = 0 => attempts'[a].sent = 1) /\ attempts'[a].sent # 0
          /\ \/ done[a].kind = "lightning" /\ threads' = threads + 1
             \/ done[a].kind = "onchain" /\ threads' = threads /\ life' = "finished"
      BY <1>6, <2>1, ExecuteFields
    <3> QED BY <1>5, <1>6, <2>1, <3>1
  <2>2. CASE attempts' = Dropped(done, a) /\ processing' = FALSE /\ UNCHANGED <<life, prompt, threads>>
    <3>1. attempts' \in [Ids -> Attempt] /\ OthersKept(attempts', done, a) /\ DroppedOnly(attempts'[a], done[a])
      BY <1>6, <2>2, DroppedFields
    <3>2. \A b \in Ids \ {a} : attempts'[b] = attempts[b]
      BY <1>6, <3>1 DEF OthersKept
    <3> QED BY <1>5, <1>6, <2>2, <3>1, <3>2 DEF DroppedOnly
  <2> QED BY <1>4, <2>1, <2>2
<1>8. TypeOK' /\ DisplayInv' /\ KindInv'
  <2>1. \A b \in Ids : attempts[b].sent # 0 => attempts'[b].sent # 0
    BY <1>7
  <2>2. attempts'[a].sent = attempts[a].sent \/ attempts[a].kind = "lightning" \/ life' = "finished"
    BY <1>7
  <2>3. \/ threads' = threads
        \/ threads' = threads + 1 /\ attempts'[a].sent # 0 /\ attempts[a].kind = "lightning"
    BY <1>7
  <2>4. ~processing' \/ life' = "finished" \/ threads' = threads + 1
    BY <1>7
  <2>5. processing' \in BOOLEAN
    BY <1>1, <1>7
  <2> QED BY <1>1, <1>7, <2>1, <2>2, <2>3, <2>4, <2>5, AttemptDisplay
<1>9. ASSUME ~hurried' PROVE CalmInv'
  <2>1. CalmInv /\ Own(attempts, prompt, a)
    BY <1>1, <1>9 DEF CalmInv
  <2>2. attempts[a].confirms = 1 /\ prompt # a /\ ~attempts[a].dropped /\ attempts[a].sent = 0
    BY <1>2, <1>3, <2>1 DEF Own
  <2>3. ~Alive(attempts', prompt', a) /\ attempts'[a].confirms = 0
    BY <1>2, <1>10, <1>7, <2>2 DEF Alive
  <2>4. /\ Own(attempts', prompt', a) /\ processing' \in BOOLEAN
        /\ attempts'[a].sent # 0 => processing' = processing
    <3>1. prompt' # a
      BY <1>2, <1>7, <2>2
    <3> QED BY <1>1, <1>7, <2>2, <2>3, <3>1 DEF Own
  <2>5. attempts[a].confirms # 0
    BY <2>2
  <2> QED BY <1>1, <1>3, <1>7, <2>1, <2>3, <2>4, <2>5, AttemptCalm
<1> QED BY <1>8, <1>9

(* The prompt is answered. *)
LEMMA PromptScreen ==
  ASSUME ScreenInv, NEW a \in Ids,
         onAuthenticationSucceeded(a) \/ cancelCallback(a) \/ negativeCallback(a)
  PROVE  ScreenInv'
<1> USE DEF ScreenInv
<1>1. /\ UNCHANGED <<given, interrupted, hurried, life, reading, step, invoice, clicks, mPinDialog>>
      /\ prompt = a /\ prompt' = 0 /\ hurried \in BOOLEAN /\ processing \in BOOLEAN
  BY DEF onAuthenticationSucceeded, cancelCallback, negativeCallback, TypeOK
<1>2. /\ attempts \in [Ids -> Attempt] /\ 0 \notin Ids /\ attempts[a] \in Attempt
      /\ attempts[a].kind = "lightning" /\ mPinDialog \in Ids
  BY <1>1, Numbered DEF KindInv
<1>3. Alive(attempts, prompt, a)
  BY <1>1 DEF Alive
<1>4. ASSUME ~hurried
      PROVE  /\ CalmInv /\ mPinDialog = a /\ ~attempts[a].shown /\ attempts[a].confirms = 0
             /\ ~attempts[a].dropped /\ attempts[a].sent = 0
  <2>1. CalmInv /\ Own(attempts, prompt, a) /\ mPinDialog = a
    BY <1>1, <1>2, <1>4 DEF CalmInv
  <2> QED BY <1>1, <1>3, <2>1 DEF Own
<1>5. CASE onAuthenticationSucceeded(a)
  <2>1. /\ attempts' \in [Ids -> Attempt] /\ OthersKept(attempts', attempts, a)
        /\ SentMore(attempts'[a], attempts[a])
    BY <1>2, <1>5, SentFields DEF onAuthenticationSucceeded
  <2>2. threads' = threads + 1 /\ processing' = processing
    BY <1>5 DEF onAuthenticationSucceeded
  <2>3. /\ \A b \in Ids \ {a} : attempts'[b] = attempts[b]
        /\ attempts'[a].sent # 0 /\ (attempts[a].sent = 0 => attempts'[a].sent = 1)
        /\ attempts'[a].kind = attempts[a].kind /\ attempts'[a].shown = attempts[a].shown
        /\ attempts'[a].confirms = attempts[a].confirms /\ attempts'[a].dropped = attempts[a].dropped
    BY <1>2, <2>1 DEF OthersKept, SentMore
  <2>4. TypeOK' /\ DisplayInv' /\ KindInv'
    <3>1. \A b \in Ids : /\ attempts'[b].kind = attempts[b].kind
                         /\ attempts[b].sent # 0 => attempts'[b].sent # 0
      BY <2>3
    <3> QED BY <1>1, <1>2, <2>1, <2>2, <2>3, <3>1, AttemptDisplay
  <2>5. ASSUME ~hurried' PROVE CalmInv'
    <3>1. ~hurried
      BY <1>1, <2>5
    <3>2. Own(attempts', prompt', a)
      BY <1>1, <1>2, <1>4, <2>3, <3>1 DEF Own, Alive
    <3>3. given.text # "onchain"
      BY <1>2 DEF KindInv
    <3> QED BY <1>1, <1>2, <1>3, <1>4, <2>1, <2>2, <2>3, <3>1, <3>2, <3>3, AttemptCalm
  <2> QED BY <2>4, <2>5
<1>6. CASE cancelCallback(a)
  <2>1. /\ attempts' \in [Ids -> Attempt] /\ OthersKept(attempts', attempts, a)
        /\ DroppedOnly(attempts'[a], attempts[a])
    BY <1>2, <1>6, DroppedFields DEF cancelCallback
  <2>2. UNCHANGED threads /\ ~processing' /\ processing' \in BOOLEAN
    BY <1>6 DEF cancelCallback
  <2>3. /\ \A b \in Ids \ {a} : attempts'[b] = attempts[b]
        /\ attempts'[a].sent = attempts[a].sent
        /\ attempts'[a].kind = attempts[a].kind /\ attempts'[a].shown = attempts[a].shown
        /\ attempts'[a].confirms = attempts[a].confirms
    BY <1>2, <2>1 DEF OthersKept, DroppedOnly
  <2>4. TypeOK' /\ DisplayInv' /\ KindInv'
    <3>1. \A b \in Ids : /\ attempts'[b].kind = attempts[b].kind
                         /\ attempts[b].sent # 0 => attempts'[b].sent # 0
      BY <2>3
    <3> QED BY <1>1, <1>2, <2>1, <2>2, <2>3, <3>1, AttemptDisplay
  <2>5. ASSUME ~hurried' PROVE CalmInv'
    <3>1. ~hurried
      BY <1>1, <2>5
    <3>2. ~Alive(attempts', prompt', a) /\ attempts'[a].sent = 0 /\ attempts'[a].confirms = 0
      BY <1>1, <1>2, <1>4, <2>3, <3>1 DEF Alive
    <3>3. Own(attempts', prompt', a)
      BY <1>1, <1>2, <3>2 DEF Own
    <3> QED BY <1>1, <1>2, <1>3, <1>4, <2>1, <2>2, <2>3, <3>1, <3>2, <3>3, AttemptCalm
  <2> QED BY <2>4, <2>5
<1>7. CASE negativeCallback(a)
  <2> DEFINE d == mPinDialog
             t == [attempts[d] EXCEPT !.shown = TRUE, !.pin = "partial"]
  <2>1. attempts' = [attempts EXCEPT ![d] = t] /\ UNCHANGED <<threads, processing>>
    BY <1>7 DEF negativeCallback
  <2>2. /\ t \in Attempt /\ t.sent = attempts[d].sent /\ t.kind = attempts[d].kind /\ t.shown
        /\ t.confirms = attempts[d].confirms /\ t.dropped = attempts[d].dropped
    BY <1>2 DEF Attempt
  <2> HIDE DEF t
  <2>3. /\ attempts' \in [Ids -> Attempt] /\ attempts'[d] = t /\ d \in Ids
        /\ \A b \in Ids \ {d} : attempts'[b] = attempts[b]
    BY <1>2, <2>1, <2>2
  <2> HIDE DEF d
  <2>4. Alive(attempts', prompt', d)
    BY <2>2, <2>3 DEF Alive
  <2>5. TypeOK' /\ DisplayInv' /\ KindInv'
    <3>1. \A b \in Ids : /\ attempts'[b].kind = attempts[b].kind
                         /\ attempts[b].sent # 0 => attempts'[b].sent # 0
      BY <2>2, <2>3
    <3> QED BY <1>1, <1>2, <2>1, <2>2, <2>3, <2>4, <3>1, AttemptDisplay
  <2>6. ASSUME ~hurried' PROVE CalmInv'
    <3>1. ~hurried /\ d = a
      BY <1>1, <1>4, <2>6 DEF d
    <3>2. attempts'[a].sent = 0 /\ attempts'[a].confirms = 0 /\ ~attempts'[a].dropped
      BY <1>4, <2>2, <2>3, <3>1
    <3>3. Own(attempts', prompt', a)
      BY <1>1, <1>2, <3>2 DEF Own
    <3> QED BY <1>1, <1>2, <1>3, <1>4, <2>1, <2>2, <2>3, <3>1, <3>2, <3>3, AttemptCalm
  <2> QED BY <2>5, <2>6
<1> QED BY <1>5, <1>6, <1>7

(***************************************************************************)
(* An accepted tap.                                                        *)
(***************************************************************************)

(* The attempts, with one more. *)
LEMMA WithNew ==
  ASSUME TypeOK, Cardinality(Ids) + 1 <= MaxAttempts, NEW new \in Attempt
  PROVE  LET id == Cardinality(Ids) + 1 IN
         /\ id \in 0 .. MaxAttempts /\ id # 0 /\ id \notin Ids /\ 1 .. id = Ids \cup {id}
         /\ With(new) \in [Ids \cup {id} -> Attempt] /\ With(new)[id] = new
         /\ \A b \in Ids : With(new)[b] = attempts[b]
<1> DEFINE id == Cardinality(Ids) + 1
<1>1. /\ attempts \in [Ids -> Attempt] /\ Ids = 1 .. Cardinality(Ids)
      /\ Cardinality(Ids) \in 0 .. MaxAttempts
  BY Numbered
<1>2. \A n \in Nat : n + 1 # 0 /\ n + 1 \notin 1 .. n /\ 1 .. (n + 1) = (1 .. n) \cup {n + 1}
  OBVIOUS
<1>3. Cardinality(Ids) \in Nat
  BY <1>1, ScreenAssumption
<1>4. id \in 0 .. MaxAttempts /\ id # 0 /\ id \notin Ids /\ 1 .. id = Ids \cup {id}
  BY <1>1, <1>2, <1>3, ScreenAssumption
<1> DEFINE D == Ids \cup {id}
<1>5. With(new) = [a \in D |-> IF a \in Ids THEN attempts[a] ELSE new]
  BY DEF With
<1> HIDE DEF id
<1>6. With(new) \in [D -> Attempt] /\ With(new)[id] = new /\ \A b \in Ids : With(new)[b] = attempts[b]
  BY <1>1, <1>4, <1>5
<1> QED BY <1>4, <1>6 DEF id

(* What becomes of the new attempt id (a record t), and of the others. *)
NewAttemptIs(id, t) ==
  /\ t.kind = invoice /\ t.confirms = 0 /\ attempts' \in [Ids \cup {id} -> Attempt]
  /\ attempts'[id] = t
  /\ \A b \in Ids : /\ attempts'[b].sent = attempts[b].sent
                    /\ attempts'[b].dropped = attempts[b].dropped
                    /\ attempts'[b].confirms = attempts[b].confirms
                    /\ attempts'[b].kind = attempts[b].kind
                    /\ attempts'[b].shown => attempts[b].shown

(* How the tap can end. *)
Refused(t) ==
  /\ ~t.shown /\ t.sent = 0 /\ processing' = FALSE
  /\ UNCHANGED <<life, step, invoice, mPinDialog, prompt, threads>>

Expired(t) ==
  /\ ~t.shown /\ t.sent = 0 /\ ~t.dropped /\ processing' = TRUE /\ step' = "error"
  /\ UNCHANGED <<life, invoice, mPinDialog, prompt, threads>>

DialogOpens(t, id) ==
  /\ t.shown /\ t.sent = 0 /\ ~t.dropped /\ processing' = TRUE /\ mPinDialog' = id
  /\ UNCHANGED <<life, step, invoice, prompt, threads>>

PromptOpens(t, id) ==
  /\ ~t.shown /\ t.sent = 0 /\ ~t.dropped /\ processing' = TRUE /\ mPinDialog' = id /\ prompt' = id
  /\ invoice = "lightning" /\ UNCHANGED <<life, step, invoice, threads>>

SentAtOnce(t) ==
  /\ ~given.pinRequired /\ ~t.shown /\ t.sent = 1 /\ ~t.dropped /\ processing' = TRUE
  /\ \/ t.kind = "lightning" /\ threads' = threads + 1 /\ UNCHANGED <<life, prompt>>
     \/ t.kind = "onchain" /\ threads' = threads /\ life' = "finished" /\ prompt' = 0
  /\ UNCHANGED <<step, invoice, mPinDialog>>

Outcomes(t, id) ==
  Refused(t) \/ Expired(t) \/ DialogOpens(t, id) \/ PromptOpens(t, id) \/ SentAtOnce(t)

(* An accepted tap makes one attempt and leaves the others, but for their dialogs. *)
LEMMA AcceptFields ==
  ASSUME ScreenInv, clicks > 0, Accept
  PROVE  /\ UNCHANGED <<given, interrupted, hurried, reading>> /\ clicks' = clicks - 1
         /\ Cardinality(Ids) + 1 <= MaxAttempts
         /\ \E t \in Attempt : /\ NewAttemptIs(Cardinality(Ids) + 1, t)
                               /\ Outcomes(t, Cardinality(Ids) + 1)
<1> USE DEF ScreenInv
<1> DEFINE id == Cardinality(Ids) + 1
           D == Ids \cup {id}
           f == NewAttempt(FALSE)
           sh == NewAttempt(TRUE)
<1>1. UNCHANGED <<given, interrupted, hurried, reading>> /\ clicks' = clicks - 1 /\ id <= MaxAttempts
  BY DEF Accept
<1>2. invoice \in Kinds
  BY DEF DisplayInv
<1>3. /\ f \in Attempt /\ f.kind = invoice /\ ~f.shown /\ f.confirms = 0 /\ f.sent = 0 /\ ~f.dropped
      /\ sh \in Attempt /\ sh.kind = invoice /\ sh.shown /\ sh.confirms = 0 /\ sh.sent = 0 /\ ~sh.dropped
  BY <1>2, ScreenAssumption DEF NewAttempt, Attempt
<1>4. \/ /\ attempts' = Dropped(With(f), id) /\ processing' = FALSE
         /\ UNCHANGED <<life, step, invoice, mPinDialog, prompt, threads>>
      \/ /\ attempts' = With(f) /\ processing' = TRUE /\ canNotHandlePayment
         /\ UNCHANGED <<life, mPinDialog, prompt, threads>>
      \/ /\ attempts' = With(sh) /\ processing' = TRUE /\ mPinDialog' = id
         /\ UNCHANGED <<life, step, invoice, prompt, threads>>
      \/ /\ attempts' = With(f) /\ processing' = TRUE /\ mPinDialog' = id /\ prompt' = id
         /\ invoice = "lightning" /\ UNCHANGED <<life, step, invoice, threads>>
      \/ /\ ~given.pinRequired /\ processing' = TRUE /\ Execute(With(f), id)
         /\ UNCHANGED <<step, invoice, mPinDialog>>
  BY Zenon DEF Accept
<1> HIDE DEF f, sh
<1>5. /\ id \notin Ids /\ With(f) \in [D -> Attempt] /\ With(f)[id] = f
      /\ \A b \in Ids : With(f)[b] = attempts[b]
      /\ With(sh) \in [D -> Attempt] /\ With(sh)[id] = sh
      /\ \A b \in Ids : With(sh)[b] = attempts[b]
  BY <1>1, <1>3, WithNew
<1> HIDE DEF id
<1>6. id \in D /\ Ids \subseteq D
  OBVIOUS
<1> HIDE DEF D
<1>7. CASE attempts' = Dropped(With(f), id) /\ processing' = FALSE
           /\ UNCHANGED <<life, step, invoice, mPinDialog, prompt, threads>>
  <2> DEFINE t == attempts'[id]
  <2>1. /\ attempts' \in [D -> Attempt] /\ OthersKept(attempts', With(f), id)
        /\ DroppedOnly(t, With(f)[id])
    BY <1>5, <1>6, <1>7, DroppedFields
  <2>2. /\ \A b \in Ids : attempts'[b] = attempts[b]
        /\ t.sent = 0 /\ t.kind = invoice /\ ~t.shown /\ t.confirms = 0
    BY <1>3, <1>5, <1>6, <2>1 DEF OthersKept, DroppedOnly
  <2>3. t \in Attempt /\ NewAttemptIs(id, t) /\ Refused(t)
    BY <1>6, <1>7, <2>1, <2>2 DEF NewAttemptIs, Refused, D
  <2> QED BY <1>1, <2>3 DEF Outcomes, id
<1>8. CASE attempts' = With(f) /\ processing' = TRUE /\ canNotHandlePayment
           /\ UNCHANGED <<life, mPinDialog, prompt, threads>>
  <2>1. NewAttemptIs(id, f) /\ Expired(f)
    BY <1>3, <1>5, <1>8 DEF NewAttemptIs, Expired, canNotHandlePayment, D
  <2> QED BY <1>1, <1>3, <2>1 DEF Outcomes, id
<1>9. CASE attempts' = With(sh) /\ processing' = TRUE /\ mPinDialog' = id
           /\ UNCHANGED <<life, step, invoice, prompt, threads>>
  <2>1. NewAttemptIs(id, sh) /\ DialogOpens(sh, id)
    BY <1>3, <1>5, <1>9 DEF NewAttemptIs, DialogOpens, D
  <2> QED BY <1>1, <1>3, <2>1 DEF Outcomes, id
<1>10. CASE attempts' = With(f) /\ processing' = TRUE /\ mPinDialog' = id /\ prompt' = id
            /\ invoice = "lightning" /\ UNCHANGED <<life, step, invoice, threads>>
  <2>1. NewAttemptIs(id, f) /\ PromptOpens(f, id)
    BY <1>3, <1>5, <1>10 DEF NewAttemptIs, PromptOpens, D
  <2> QED BY <1>1, <1>3, <2>1 DEF Outcomes, id
<1>11. CASE ~given.pinRequired /\ processing' = TRUE /\ Execute(With(f), id)
            /\ UNCHANGED <<step, invoice, mPinDialog>>
  <2> DEFINE s == Sent(With(f), id)
             t == attempts'[id]
  <2>1. s \in [D -> Attempt] /\ OthersKept(s, With(f), id) /\ SentMore(s[id], With(f)[id])
    BY <1>5, <1>6, SentFields
  <2>2. \/ With(f)[id].kind = "lightning" /\ attempts' = s /\ threads' = threads + 1
           /\ UNCHANGED <<life, prompt>>
        \/ With(f)[id].kind = "onchain" /\ attempts' = Dismissed(s) /\ threads' = threads
           /\ life' = "finished" /\ prompt' = 0
    BY <1>11 DEF Execute, Finish
  <2> HIDE DEF s
  <2>3. /\ s[id].sent = 1 /\ ~s[id].dropped /\ ~s[id].shown /\ s[id].confirms = 0 /\ s[id].kind = invoice
        /\ \A b \in Ids : s[b] = attempts[b]
    BY <1>3, <1>5, <1>6, <2>1 DEF OthersKept, SentMore
  <2>4. /\ attempts' \in [D -> Attempt]
        /\ \A b \in D : /\ attempts'[b].sent = s[b].sent /\ attempts'[b].dropped = s[b].dropped
                        /\ attempts'[b].confirms = s[b].confirms /\ attempts'[b].kind = s[b].kind
                        /\ attempts'[b].shown => s[b].shown
    BY <2>1, <2>2, DismissedFields
  <2>5. t \in Attempt /\ NewAttemptIs(id, t)
    BY <1>6, <2>3, <2>4 DEF NewAttemptIs, D
  <2>6. SentAtOnce(t)
    BY <1>3, <1>5, <1>6, <1>11, <2>2, <2>3, <2>4 DEF SentAtOnce
  <2> QED BY <1>1, <2>5, <2>6 DEF Outcomes, id
<1> QED BY <1>4, <1>7, <1>8, <1>9, <1>10, <1>11

(* Nothing lies under a new payment: on a screen that was not interrupted, or
   holds an invoice only, no attempt has come to anything. *)
LEMMA EnabledForm ==
  ASSUME ScreenInv, CalmInv, ~processing
  PROVE  /\ prompt = 0
         /\ Wide => \A b \in Ids : ~Alive(attempts, prompt, b)
         /\ Tight => \A b \in Ids : Quiet(attempts, prompt, b)
<1> USE DEF ScreenInv
<1>1. DOMAIN attempts = Ids /\ prompt \in Ids \cup {0}
  BY DEF TypeOK, Ids
<1>2. Wide => \A b \in Ids : ~Alive(attempts, prompt, b)
  BY <1>1 DEF CalmInv, OneAlive
<1>3. prompt = 0
  BY <1>1, <1>2 DEF KindInv, Wide, Alive
<1>4. Tight => \A b \in Ids : Quiet(attempts, prompt, b)
  <2>1. Tight => Wide
    BY DEF Tight, Wide
  <2> QED BY <1>1, <1>2, <2>1 DEF CalmInv, Single, Quiet
<1> QED BY <1>2, <1>3, <1>4

(* An accepted tap keeps the invariant: the form was enabled. *)
LEMMA AcceptScreen ==
  ASSUME ScreenInv, clicks > 0, ~processing, Accept
  PROVE  ScreenInv'
<1> USE DEF ScreenInv
<1> DEFINE id == Cardinality(Ids) + 1
           D == Ids \cup {id}
<1>1. /\ UNCHANGED <<given, interrupted, hurried, reading>> /\ clicks' = clicks - 1
      /\ id <= MaxAttempts
  BY AcceptFields
<1>2. PICK t \in Attempt : NewAttemptIs(id, t) /\ Outcomes(t, id)
  BY AcceptFields
<1>3. /\ attempts \in [Ids -> Attempt] /\ 0 \notin Ids /\ id \in 0 .. MaxAttempts /\ id # 0
      /\ id \notin Ids /\ 1 .. id = D /\ DOMAIN attempts = Ids
  BY <1>1, <1>2, WithNew, Numbered
<1> HIDE DEF id
<1>4. attempts' \in [D -> Attempt] /\ Ids' = D /\ DOMAIN attempts' = D
  BY <1>2 DEF NewAttemptIs, Ids
<1>5. /\ t.kind = invoice /\ t.confirms = 0 /\ attempts'[id] = t
      /\ \A b \in Ids : /\ attempts'[b].sent = attempts[b].sent
                        /\ attempts'[b].dropped = attempts[b].dropped
                        /\ attempts'[b].confirms = attempts[b].confirms
                        /\ attempts'[b].kind = attempts[b].kind
                        /\ attempts'[b].shown => attempts[b].shown
  BY <1>2 DEF NewAttemptIs
<1> HIDE DEF D
<1>6. id \in D /\ \A b \in D : b \in Ids \/ b = id
  BY DEF D
<1>7. Ids \subseteq D
  BY DEF D
<1> USE DEF Outcomes
<1>8. /\ invoice' = invoice /\ step' \in {step, "error"} /\ processing' \in BOOLEAN
      /\ life' \in {life, "finished"} /\ prompt' \in {prompt, 0, id} /\ mPinDialog' \in {mPinDialog, id}
      /\ t.sent # 0 /\ t.kind = "onchain" => life' = "finished"
      /\ threads' = threads \/ threads' = threads + 1
      /\ prompt' = id => mPinDialog' = id /\ t.kind = "lightning"
  BY <1>2, <1>3, <1>5 DEF Refused, Expired, DialogOpens, PromptOpens, SentAtOnce, TypeOK
<1>9. TypeOK'
  <2>1. \E n \in 0 .. MaxAttempts : attempts' \in [1 .. n -> Attempt]
    BY <1>3, <1>4
  <2>2. clicks' \in 0 .. 2
    BY <1>1 DEF TypeOK
  <2>3. prompt' \in Ids' \cup {0} /\ mPinDialog' \in Ids' \cup {0}
    BY <1>4, <1>6, <1>7, <1>8 DEF TypeOK
  <2>4. threads' \in Nat /\ step' \in Steps
    BY <1>8 DEF TypeOK, Steps
  <2> QED BY <1>1, <1>8, <2>1, <2>2, <2>3, <2>4 DEF TypeOK
<1>10. invoice \in Kinds /\ (~interrupted => ~reading /\ step \notin {"loading", "pick"})
  <2>1. clicks # 0
    BY DEF TypeOK
  <2> QED BY <2>1 DEF DisplayInv
<1>11. DisplayInv'
  <2>1. threads' > 0 => \E a \in Ids' : attempts'[a].sent # 0 /\ attempts'[a].kind = "lightning"
    <3>1. CASE threads > 0 /\ threads' = threads
      BY <1>4, <1>5, <1>7, <3>1 DEF DisplayInv
    <3>2. CASE threads' = threads + 1
      <4>1. t.sent # 0 /\ t.kind = "lightning"
        <5>1. threads + 1 # threads BY DEF TypeOK
        <5> QED BY <1>2, <3>2, <5>1 DEF Refused, Expired, DialogOpens, PromptOpens, SentAtOnce
      <4> QED BY <1>4, <1>5, <1>6, <4>1
    <3> QED BY <1>8, <3>1, <3>2
  <2>2. ~interrupted /\ life' = "resumed" /\ step' \in Kinds /\ processing' =>
          threads' > 0 \/ \E a \in Ids' : Alive(attempts', prompt', a)
    <3>1. CASE Refused(t)
      BY <3>1 DEF Refused
    <3>2. CASE Expired(t)
      BY <3>2 DEF Expired, Kinds
    <3>3. CASE DialogOpens(t, id) \/ PromptOpens(t, id)
      BY <1>4, <1>5, <1>6, <3>3 DEF DialogOpens, PromptOpens, Alive
    <3>4. CASE SentAtOnce(t)
      <4>1. threads \in Nat BY DEF TypeOK
      <4> QED BY <3>4, <4>1 DEF SentAtOnce
    <3> QED BY <1>2, <3>1, <3>2, <3>3, <3>4
  <2>3. life' = "paused" => interrupted
    BY <1>8 DEF DisplayInv
  <2>4. /\ step' = "onchain" => invoice = "onchain"
        /\ step' = "pick" => given.text = "both"
        /\ invoice = "lightning" => given.text \in {"lightning", "both"}
        /\ invoice = "onchain" => given.text \in {"onchain", "both"}
        /\ ~interrupted => step' \notin {"loading", "pick"}
    BY <1>8, <1>10 DEF DisplayInv
  <2> QED BY <1>1, <1>8, <1>10, <2>1, <2>2, <2>3, <2>4 DEF DisplayInv
<1>12. KindInv'
  <2>1. prompt' # 0 => attempts'[prompt'].kind = "lightning" /\ mPinDialog' \in Ids'
    <3>1. CASE prompt' = id
      BY <1>4, <1>5, <1>6, <1>8, <3>1
    <3>2. CASE prompt' = prompt /\ prompt # 0
      <4>1. prompt \in Ids /\ mPinDialog \in Ids BY <3>2 DEF TypeOK, KindInv
      <4> QED BY <1>4, <1>5, <1>6, <1>7, <1>8, <3>2, <4>1 DEF KindInv
    <3> QED BY <1>8, <3>1, <3>2
  <2>2. ASSUME NEW b \in Ids'
        PROVE  /\ attempts'[b].kind = "onchain" /\ attempts'[b].sent # 0 => life' = "finished"
               /\ attempts'[b].kind = "lightning" => given'.text \in {"lightning", "both"}
               /\ ~interrupted' => attempts'[b].kind = invoice'
    <3>1. CASE b \in Ids
      BY <1>1, <1>5, <1>8, <3>1 DEF KindInv
    <3>2. CASE b = id
      <4>1. invoice = "lightning" => given.text \in {"lightning", "both"}
        BY DEF DisplayInv
      <4> QED BY <1>1, <1>5, <1>8, <3>2, <4>1
    <3> QED BY <1>4, <1>6, <3>1, <3>2
  <2> QED BY <2>1, <2>2 DEF KindInv
<1>13. ASSUME ~hurried' PROVE CalmInv'
  <2>1. /\ CalmInv /\ prompt = 0
        /\ Wide => \A b \in Ids : ~Alive(attempts, prompt, b)
        /\ Tight => \A b \in Ids : Quiet(attempts, prompt, b)
    BY <1>1, <1>13, EnabledForm
  <2>2. \A b \in Ids : Alive(attempts', prompt', b) => Alive(attempts, prompt, b)
    BY <1>3, <1>5, <1>8, <2>1 DEF Alive
  <2>3. \A b \in Ids' : Own(attempts', prompt', b)
    <3> SUFFICES ASSUME NEW b \in Ids' PROVE Own(attempts', prompt', b)
      OBVIOUS
    <3>1. CASE b \in Ids
      <4>1. Own(attempts, prompt, b) BY <2>1, <3>1 DEF CalmInv
      <4>2. prompt' # b BY <1>3, <1>8, <2>1, <3>1
      <4> QED BY <1>5, <2>2, <3>1, <4>1, <4>2 DEF Own
    <3>2. CASE b = id
      <4>1. t.sent \in {0, 1} /\ (t.sent # 0 => ~t.dropped /\ ~t.shown)
        BY <1>2 DEF Refused, Expired, DialogOpens, PromptOpens, SentAtOnce
      <4>2. prompt' = id => ~t.shown /\ t.sent = 0 /\ ~t.dropped
        BY <1>2, <1>3, <2>1 DEF Refused, Expired, DialogOpens, PromptOpens, SentAtOnce
      <4>3. t.shown => ~t.dropped /\ t.sent = 0
        BY <1>2 DEF Refused, Expired, DialogOpens, PromptOpens, SentAtOnce
      <4> QED BY <1>5, <3>2, <4>1, <4>2, <4>3 DEF Own, Alive
    <3> QED BY <1>4, <1>6, <3>1, <3>2
  <2>4. prompt' # 0 => mPinDialog' = prompt'
    BY <1>8, <2>1
  <2>5. OneConfirms(attempts')
    BY <1>3, <1>4, <1>5, <1>6, <2>1 DEF CalmInv, OneConfirms
  <2>6. /\ Alive(attempts', prompt', id) => processing'
        /\ t.sent # 0 => processing'
    BY <1>2, <1>3, <1>5, <2>1 DEF Alive, Refused, Expired, DialogOpens, PromptOpens, SentAtOnce
  <2>7. Wide' => OneAlive(attempts', prompt', processing')
    <3> SUFFICES ASSUME Wide PROVE OneAlive(attempts', prompt', processing')
      BY <1>1 DEF Wide
    <3>1. \A b \in Ids : ~Alive(attempts', prompt', b)
      BY <2>1, <2>2
    <3> QED BY <1>4, <1>6, <2>6, <3>1 DEF OneAlive
  <2>8. Tight' => Single(attempts', prompt', processing')
    <3> SUFFICES ASSUME Tight PROVE Single(attempts', prompt', processing')
      BY <1>1 DEF Tight
    <3>1. \A b \in Ids : Quiet(attempts', prompt', b)
      BY <1>5, <2>1, <2>2 DEF Quiet
    <3> QED BY <1>4, <1>5, <1>6, <2>6, <3>1 DEF Single, Quiet
  <2>9. given'.text = "onchain" /\ given'.pinRequired => SentLast(attempts')
    <3> SUFFICES ASSUME given.text = "onchain", given.pinRequired PROVE SentLast(attempts')
      BY <1>1
    <3>1. SentLast(attempts)
      BY <2>1 DEF CalmInv
    <3>2. t.sent = 0
      BY <1>2 DEF Refused, Expired, DialogOpens, PromptOpens, SentAtOnce
    <3> QED BY <1>3, <1>4, <1>5, <1>6, <3>1, <3>2 DEF SentLast
  <2> QED BY <1>4, <2>3, <2>4, <2>5, <2>7, <2>8, <2>9 DEF CalmInv
<1> QED BY <1>9, <1>11, <1>12, <1>13

(* Every step keeps the invariant. *)
LEMMA ScreenStep == ScreenInv /\ [Next]_vars => ScreenInv'
<1> SUFFICES ASSUME ScreenInv, [Next]_vars PROVE ScreenInv'
  OBVIOUS
<1>1. CASE invoiceReadSuccessfully \/ Pick \/ EditAmount \/ onResume \/ Tap
  BY <1>1, FormScreen
<1>2. CASE onPause \/ Leave \/ ThreadEnds
  BY <1>2, HideScreen
<1>3. CASE confirmPayment
  BY <1>3, FormScreen, AcceptScreen DEF confirmPayment
<1>4. ASSUME NEW a \in Ids,
             \/ TypePin(a) \/ Backspace(a) \/ onPinCancel(a) \/ onPinConfirm(a)
             \/ onAuthenticationSucceeded(a) \/ cancelCallback(a)
             \/ negativeCallback(a) \/ onAuthenticationError(a)
      PROVE  ScreenInv'
  BY <1>4, PinScreen, ConfirmScreen, PromptScreen, HideScreen
<1>5. CASE UNCHANGED vars
  <2>1. Ids' = Ids
    BY <1>5 DEF vars, Ids
  <2> QED BY <1>5, <2>1 DEF vars, ScreenInv, TypeOK, DisplayInv, KindInv, CalmInv, Own, Alive,
     OneConfirms, OneAlive, Single, Quiet, SentLast, Wide, Tight, Ids
<1> QED BY <1>1, <1>2, <1>3, <1>4, <1>5 DEF Next

(* The screen's invariant: at any time one attempt at most is alive, where the
   check of the on-chain balance cannot have enabled the form under it. *)
THEOREM ScreenInvariant == Spec => []ScreenInv
<1>1. Init => ScreenInv
  BY InitScreen
<1>2. ScreenInv /\ [Next]_vars => ScreenInv'
  BY ScreenStep
<1> QED BY <1>1, <1>2, PTL DEF Spec

(***************************************************************************)
(* The properties.                                                         *)
(***************************************************************************)

(* confirmPayment hands one payment at most to the node or to the wallet. *)
THEOREM ScreenSendsOnce == Spec => []AtMostOnePayment
<1>1. ScreenInv => AtMostOnePayment
  <2> SUFFICES ASSUME ScreenInv,
                      Undisturbed \/ (~hurried /\ given.text = "onchain" /\ given.pinRequired),
                      NEW a \in Ids, NEW b \in Ids
               PROVE  attempts[a].sent <= 1 /\ (attempts[a].sent > 0 /\ attempts[b].sent > 0 => a = b)
    BY DEF AtMostOnePayment
  <2>1. CalmInv /\ DOMAIN attempts = Ids
    BY DEF ScreenInv, Undisturbed, Ids
  <2>2. attempts[a].sent \in {0, 1} /\ attempts[b].sent \in {0, 1}
    BY <2>1 DEF CalmInv, Own
  <2>3. a # b => attempts[a].sent = 0 \/ attempts[b].sent = 0
    <3>1. CASE Undisturbed
      BY <2>1, <3>1 DEF CalmInv, Undisturbed, Tight, Single, Quiet
    <3>2. CASE given.text = "onchain" /\ given.pinRequired
      BY <2>1, <3>2 DEF CalmInv, SentLast
    <3> QED BY <3>1, <3>2
  <2> QED BY <2>2, <2>3
<1> QED BY <1>1, ScreenInvariant, PTL

(* A payment the user has cancelled, or whose PIN was refused, is not sent. *)
THEOREM ScreenDropsForGood == Spec => []DroppedIsNotSent
<1>1. ScreenInv => DroppedIsNotSent
  <2> SUFFICES ASSUME ScreenInv, ~hurried, NEW a \in Ids
               PROVE  ~(attempts[a].dropped /\ attempts[a].sent > 0)
    BY DEF DroppedIsNotSent
  <2>1. Own(attempts, prompt, a)
    BY DEF ScreenInv, CalmInv
  <2> QED BY <2>1 DEF Own
<1> QED BY <1>1, ScreenInvariant, PTL

(* The form is disabled while a payment is on its way, and not otherwise. *)
THEOREM ScreenFormFollows == Spec => []FormFollowsPayment
<1>1. ScreenInv => FormFollowsPayment
  <2> SUFFICES ASSUME ScreenInv PROVE FormFollowsPayment
    OBVIOUS
  <2>1. DOMAIN attempts = Ids /\ prompt \in Ids \cup {0} /\ threads \in Nat
    BY DEF ScreenInv, TypeOK, Ids
  <2>2. ASSUME Undisturbed, PaymentUnderWay PROVE processing
    <3>1. CalmInv /\ OneAlive(attempts, prompt, processing) /\ Single(attempts, prompt, processing)
      BY <2>2 DEF ScreenInv, CalmInv, Undisturbed, Wide, Tight
    <3>2. CASE DialogShown \/ prompt # 0
      <4>1. PICK a \in Ids : Alive(attempts, prompt, a)
        BY <2>1, <3>2 DEF DialogShown, Alive
      <4> QED BY <2>1, <3>1, <4>1 DEF OneAlive
    <3>3. CASE threads > 0
      BY <2>1, <3>1, <3>3 DEF ScreenInv, DisplayInv, Single
    <3> QED BY <2>2, <3>2, <3>3 DEF PaymentUnderWay
  <2>3. ASSUME ~interrupted, life = "resumed", step \in Kinds, processing
        PROVE  PaymentUnderWay \/ ~Calm
    <3>1. threads > 0 \/ \E a \in Ids : Alive(attempts, prompt, a)
      BY <2>3 DEF ScreenInv, DisplayInv
    <3>2. ASSUME NEW a \in Ids, Alive(attempts, prompt, a) PROVE PaymentUnderWay \/ ~Calm
      <4>1. prompt = a => prompt # 0
        BY Numbered DEF ScreenInv
      <4> QED BY <3>2, <4>1 DEF Alive, PaymentUnderWay, DialogShown, Calm
    <3> QED BY <3>1, <3>2 DEF PaymentUnderWay
  <2> QED BY <2>2, <2>3 DEF FormFollowsPayment
<1> QED BY <1>1, ScreenInvariant, PTL
===============================================================================
