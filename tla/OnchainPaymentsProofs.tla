------------------------- MODULE OnchainPaymentsProofs -------------------------
(***************************************************************************)
(* Theorems about OnchainPayments, for any transactions, any number of     *)
(* confirmations, deaths of the process and losses of the connection.      *)
(***************************************************************************)
EXTENDS OnchainPayments, SequenceTheorems, TLAPS

(* The messages of mailbox q about transaction t, and what the last one says
   of its confirmations. *)
Of(q, t) == {q[i] : i \in {j \in DOMAIN q : q[j].t = t}}
Last(q, i, t) == q[i].t = t /\ \A j \in DOMAIN q : j > i => q[j].t # t
LastSays(q, t, d) == \A i \in DOMAIN q : Last(q, i, t) => q[i].d = d

(* What is known of transaction t.  When the wallet has it, the last message
   about it is up to date, and the row, which may be missing until a message
   "received" is handled or because a later StartupTask has deleted it, is up
   to date once all messages are. *)
TxInv(t) ==
  /\ st[t] \in {"unseen", "heard", "known", "gone"} /\ depth[t] \in Depths
  /\ \A m \in Of(inbox, t) : m.d \in Depths /\ m.d <= depth[t]
  /\ Of(inbox, t) # {} => st[t] # "unseen" /\ t \notin cleaned
  /\ t \in DOMAIN rows => /\ rows[t] \in Depths /\ rows[t] <= depth[t]
                          /\ st[t] # "unseen" /\ t \notin cleaned
  /\ st[t] \in {"unseen", "gone"} => depth[t] = 0
  /\ t \in cleaned => st[t] = "gone"
  /\ t \in swept => t \notin DOMAIN rows
  /\ st[t] = "known" =>
       /\ LastSays(inbox, t, depth[t])
       /\ t \in DOMAIN rows \/ t \in swept \/ \E m \in Of(inbox, t) : m.ev = "received"
       /\ Of(inbox, t) = {} => t \in swept \/ rows[t] = depth[t]

(* The mailbox: a message about a transaction is "received" or "confidence". *)
MailInv ==
  /\ inbox \in Seq({inbox[i] : i \in DOMAIN inbox})
  /\ \A i \in DOMAIN inbox : /\ inbox[i].ev \in {"received", "confidence"} => inbox[i].t \in Txs
                             /\ inbox[i].ev \notin {"received", "confidence"} => inbox[i].t = "none"

OnchainInv ==
  /\ MailInv
  /\ st \in [Txs -> {"unseen", "heard", "known", "gone"}] /\ depth \in [Txs -> Depths]
  /\ DOMAIN rows \subseteq Txs /\ rows = [t \in DOMAIN rows |-> rows[t]] /\ cleaned \subseteq Txs
  /\ \A t \in Txs : TxInv(t)

(***************************************************************************)
(* The mailbox.                                                            *)
(***************************************************************************)

(* A mailbox q2 is q with more messages behind it, of which at most m is about
   a transaction. *)
Grown(q, q2, m) ==
  /\ q2 \in Seq({q2[i] : i \in DOMAIN q2})
  /\ \A i \in DOMAIN q : i \in DOMAIN q2 /\ q2[i] = q[i]
  /\ Len(q) + 1 \in DOMAIN q2 /\ q2[Len(q) + 1] = m
  /\ \A i \in DOMAIN q2 : \/ i \in DOMAIN q \/ i = Len(q) + 1
                          \/ i > Len(q) + 1 /\ q2[i].t = "none" /\ q2[i].ev = "ready"

Quieter(q, q2) ==
  /\ q2 \in Seq({q2[i] : i \in DOMAIN q2})
  /\ \A i \in DOMAIN q : i \in DOMAIN q2 /\ q2[i] = q[i]
  /\ \A i \in DOMAIN q2 : i \in DOMAIN q \/ (q2[i].t = "none" /\ q2[i].ev \in {"ready", "disconnected"})

LEMMA OwnRange ==
  ASSUME NEW S, NEW q \in Seq(S)
  PROVE  q \in Seq({q[i] : i \in DOMAIN q})
<1>1. q \in [1 .. Len(q) -> S] /\ Len(q) \in Nat /\ DOMAIN q = 1 .. Len(q)
  BY LenProperties
<1>2. q \in [1 .. Len(q) -> {q[i] : i \in DOMAIN q}]
  BY <1>1
<1> QED BY <1>1, <1>2, IsASeq, SeqDef

LEMMA ReadyShape ==
  ASSUME NEW ts, NEW missing, NEW d, NEW late
  PROVE  \/ Ready(ts, missing, d, late) = <<>>
         \/ \E x : Ready(ts, missing, d, late) = <<x>> /\ x.t = "none" /\ x.ev = "ready"
<1>1. CASE missing # {}
  BY <1>1 DEF Ready
<1>2. CASE missing = {}
  <2> DEFINE x == [Message("ready", "none", 0) EXCEPT
           !.conf = Worth({t \in ts : d[t] > 0}), !.unconf = Worth({t \in ts : d[t] = 0}),
           !.late = late]
  <2>1. x.t = "none" /\ x.ev = "ready"
    BY DEF Message
  <2>2. Ready(ts, missing, d, late) = <<x>>
    BY <1>2 DEF Ready
  <2> QED BY <2>1, <2>2
<1> QED BY <1>1, <1>2

(* The two ways in which the wallet adds to the mailbox. *)
LEMMA Grows ==
  ASSUME NEW S, NEW q \in Seq(S), NEW m, NEW ts, NEW missing, NEW d, NEW late
  PROVE  Grown(q, Append(q, m) \o Ready(ts, missing, d, late), m)
<1> DEFINE r == Ready(ts, missing, d, late)
           T(x) == S \cup {m, x}
<1>1. ASSUME NEW x, r = <<>> \/ (r = <<x>> /\ x.t = "none" /\ x.ev = "ready")
      PROVE  Grown(q, Append(q, m) \o r, m)
  <2> DEFINE q2 == Append(q, m) \o r
  <2>1. r \in Seq(T(x)) /\ q \in Seq(T(x)) /\ m \in T(x)
    <3> HIDE DEF r
    <3>1. q \in Seq(T(x)) BY SeqMonotonic
    <3>2. CASE r = <<>> BY <3>1, <3>2
    <3>3. CASE r = <<x>> BY <3>1, <3>3
    <3> QED BY <1>1, <3>1, <3>2, <3>3
  <2> HIDE DEF T, r
  <2>2. Append(q, m) \in Seq(T(x)) /\ Len(Append(q, m)) = Len(q) + 1 /\ Len(q) \in Nat
        /\ DOMAIN q = 1 .. Len(q)
        /\ \A i \in 1 .. Len(q) : Append(q, m)[i] = q[i]
        /\ Append(q, m)[Len(q) + 1] = m
    BY <2>1
  <2>3. q2 \in Seq(T(x)) /\ Len(q2) = Len(q) + 1 + Len(r) /\ Len(r) \in Nat /\ DOMAIN q2 = 1 .. Len(q2)
        /\ \A i \in 1 .. (Len(q) + 1) : q2[i] = Append(q, m)[i]
    BY <2>1, <2>2
  <2>4. q2 \in Seq({q2[i] : i \in DOMAIN q2})
    BY ZenonT(40), <2>3, OwnRange
  <2>5. \A i \in DOMAIN q : i \in DOMAIN q2 /\ q2[i] = q[i]
    BY <2>2, <2>3
  <2>6. Len(q) + 1 \in DOMAIN q2 /\ q2[Len(q) + 1] = m
    BY <2>2, <2>3
  <2>7. ASSUME NEW i \in DOMAIN q2, i \notin DOMAIN q, i # Len(q) + 1
        PROVE  i > Len(q) + 1 /\ q2[i].t = "none" /\ q2[i].ev = "ready"
    <3>1. i > Len(q) + 1 /\ i <= Len(q) + 1 + Len(r)
      BY <2>2, <2>3, <2>7
    <3>2. r # <<>>
      BY <2>2, <3>1
    <3>3. r = <<x>> /\ x.t = "none" /\ x.ev = "ready" /\ Len(r) = 1
      BY <1>1, <3>2
    <3>4. i = Len(q) + 2
      BY <2>2, <2>3, <3>1, <3>3
    <3>5. q2[i] = x
      BY <2>1, <2>2, <3>3, <3>4
    <3> QED BY <3>1, <3>3, <3>5
  <2> QED BY <2>4, <2>5, <2>6, <2>7 DEF Grown
<1>2. r = <<>> \/ \E x : r = <<x>> /\ x.t = "none" /\ x.ev = "ready"
  BY ReadyShape
<1> HIDE DEF r
<1>3. Grown(q, Append(q, m) \o r, m)
  BY <1>1, <1>2
<1> QED BY <1>3 DEF r

LEMMA GrowsQuietly ==
  ASSUME NEW S, NEW q \in Seq(S), NEW r, NEW x,
         r = <<>> \/ (r = <<x>> /\ x.t = "none" /\ x.ev \in {"ready", "disconnected"})
  PROVE  Quieter(q, q \o r)
<1> DEFINE q2 == q \o r
           T == S \cup {x}
<1>1. r \in Seq(T) /\ q \in Seq(T)
  <2>1. q \in Seq(T) BY SeqMonotonic
  <2>2. CASE r = <<>> BY <2>1, <2>2
  <2>3. CASE r = <<x>> BY <2>1, <2>3
  <2> QED BY <2>1, <2>2, <2>3
<1> HIDE DEF T
<1>2. q2 \in Seq(T) /\ Len(q2) = Len(q) + Len(r) /\ Len(r) \in Nat /\ DOMAIN q2 = 1 .. Len(q2)
      /\ Len(q) \in Nat /\ DOMAIN q = 1 .. Len(q)
      /\ \A i \in 1 .. Len(q) : q2[i] = q[i]
  BY <1>1
<1>3. q2 \in Seq({q2[i] : i \in DOMAIN q2})
  <2> HIDE DEF q2
  <2> QED BY <1>2, OwnRange
<1>4. \A i \in DOMAIN q : i \in DOMAIN q2 /\ q2[i] = q[i]
  BY <1>2
<1>5. ASSUME NEW i \in DOMAIN q2, i \notin DOMAIN q
      PROVE  q2[i].t = "none" /\ q2[i].ev \in {"ready", "disconnected"}
  <2>1. i > Len(q) /\ i <= Len(q) + Len(r)
    BY <1>2, <1>5
  <2>2. r # <<>>
    BY <1>2, <2>1
  <2>3. r = <<x>> /\ Len(r) = 1
    BY <2>2
  <2>4. i = Len(q) + 1
    BY <1>2, <2>1, <2>3
  <2>5. q2[i] = x
    BY <1>1, <1>2, <2>3, <2>4
  <2> QED BY <2>2, <2>5
<1> QED BY <1>3, <1>4, <1>5 DEF Quieter

(* What a longer mailbox says of each transaction. *)
LEMMA GrownOthers ==
  ASSUME NEW S, NEW q \in Seq(S), NEW q2, NEW m, Grown(q, q2, m), m.t # "none",
         NEW u, u # "none"
  PROVE  u # m.t => Of(q2, u) = Of(q, u) /\ \A d : LastSays(q, u, d) => LastSays(q2, u, d)
<1>1. ASSUME u # m.t PROVE Of(q2, u) = Of(q, u)
  <2>1. \A i \in DOMAIN q2 : q2[i].t = u => i \in DOMAIN q /\ q[i] = q2[i]
    BY <1>1 DEF Grown
  <2>2. \A i \in DOMAIN q : i \in DOMAIN q2 /\ q2[i] = q[i]
    BY DEF Grown
  <2> QED BY <2>1, <2>2 DEF Of
<1>2. ASSUME u # m.t, NEW d, LastSays(q, u, d) PROVE LastSays(q2, u, d)
  <2> SUFFICES ASSUME NEW i \in DOMAIN q2, Last(q2, i, u) PROVE q2[i].d = d
    BY DEF LastSays
  <2>1. i \in DOMAIN q /\ q[i] = q2[i]
    BY <1>2 DEF Grown, Last
  <2>2. Last(q, i, u)
    BY <2>1 DEF Grown, Last
  <2> QED BY <1>2, <2>1, <2>2 DEF LastSays
<1> QED BY <1>1, <1>2

LEMMA GrownSays ==
  ASSUME NEW S, NEW q \in Seq(S), NEW q2, NEW m, Grown(q, q2, m), m.t # "none"
  PROVE  Of(q2, m.t) = Of(q, m.t) \cup {m} /\ LastSays(q2, m.t, m.d)
<1>0. DOMAIN q = 1 .. Len(q) /\ Len(q) \in Nat /\ DOMAIN q2 \subseteq Int
  <2>1. q2 \in Seq({q2[i] : i \in DOMAIN q2}) BY DEF Grown
  <2>2. DOMAIN q2 = 1 .. Len(q2) BY <2>1, LenProperties
  <2> QED BY <2>2, LenProperties
<1>1. Of(q2, m.t) = Of(q, m.t) \cup {m}
  <2>1. \A i \in DOMAIN q2 : q2[i].t = m.t => (i \in DOMAIN q /\ q[i] = q2[i]) \/ q2[i] = m
    BY DEF Grown
  <2>2. \A i \in DOMAIN q : i \in DOMAIN q2 /\ q2[i] = q[i]
    BY DEF Grown
  <2>3. Len(q) + 1 \in DOMAIN q2 /\ q2[Len(q) + 1] = m
    BY DEF Grown
  <2>4. Of(q2, m.t) \subseteq Of(q, m.t) \cup {m}
    BY <2>1 DEF Of
  <2>5. Of(q, m.t) \subseteq Of(q2, m.t)
    BY <2>2 DEF Of
  <2>6. m \in Of(q2, m.t)
    BY <2>3 DEF Of
  <2> QED BY <2>4, <2>5, <2>6
<1>2. LastSays(q2, m.t, m.d)
  <2> SUFFICES ASSUME NEW i \in DOMAIN q2, Last(q2, i, m.t) PROVE q2[i].d = m.d
    BY DEF LastSays
  <2>1. i \notin DOMAIN q
    <3> SUFFICES ASSUME i \in DOMAIN q PROVE FALSE
      OBVIOUS
    <3>1. Len(q) + 1 > i
      BY <1>0
    <3>2. Len(q) + 1 \in DOMAIN q2 /\ q2[Len(q) + 1] = m
      BY DEF Grown
    <3> QED BY <3>1, <3>2 DEF Last
  <2>2. i = Len(q) + 1 /\ q2[Len(q) + 1] = m
    BY <2>1 DEF Grown, Last
  <2> QED BY <2>2
<1> QED BY <1>1, <1>2

LEMMA QuieterSays ==
  ASSUME NEW S, NEW q \in Seq(S), NEW q2, Quieter(q, q2), NEW u, u # "none"
  PROVE  Of(q2, u) = Of(q, u) /\ \A d : LastSays(q, u, d) => LastSays(q2, u, d)
<1>1. \A i \in DOMAIN q2 : q2[i].t = u => i \in DOMAIN q /\ q[i] = q2[i]
  BY DEF Quieter
<1>2. \A i \in DOMAIN q : i \in DOMAIN q2 /\ q2[i] = q[i]
  BY DEF Quieter
<1>3. Of(q2, u) = Of(q, u)
  BY <1>1, <1>2 DEF Of
<1>4. ASSUME NEW d, LastSays(q, u, d) PROVE LastSays(q2, u, d)
  <2> SUFFICES ASSUME NEW i \in DOMAIN q2, Last(q2, i, u) PROVE q2[i].d = d
    BY DEF LastSays
  <2>1. i \in DOMAIN q /\ q[i] = q2[i]
    BY <1>1 DEF Last
  <2>2. Last(q, i, u)
    BY <1>2, <2>1 DEF Last
  <2> QED BY <1>4, <2>1, <2>2 DEF LastSays
<1> QED BY <1>3, <1>4

(* And a mailbox whose first message has been taken. *)
LEMMA TailSays ==
  ASSUME NEW S, NEW q \in Seq(S), q # <<>>
  PROVE  /\ Tail(q) \in Seq({Tail(q)[i] : i \in DOMAIN Tail(q)})
         /\ \A i \in DOMAIN Tail(q) : i + 1 \in DOMAIN q /\ Tail(q)[i] = q[i + 1]
         /\ \A u : u # Head(q).t => Of(Tail(q), u) = Of(q, u)
         /\ Of(q, Head(q).t) = Of(Tail(q), Head(q).t) \cup {Head(q)}
         /\ \A u, d : LastSays(q, u, d) => LastSays(Tail(q), u, d)
         /\ \A d : LastSays(q, Head(q).t, d) /\ Of(Tail(q), Head(q).t) = {} => Head(q).d = d
<1> DEFINE q2 == Tail(q)
           h == Head(q)
<1>1. /\ q2 \in Seq(S) /\ Len(q) \in Nat \ {0} /\ Len(q2) = Len(q) - 1
      /\ DOMAIN q = 1 .. Len(q) /\ DOMAIN q2 = 1 .. Len(q2) /\ h = q[1]
      /\ \A i \in 1 .. Len(q2) : q2[i] = q[i + 1]
  OBVIOUS
<1> HIDE DEF q2, h
<1>2. q2 \in Seq({q2[i] : i \in DOMAIN q2})
  BY <1>1, OwnRange
<1>3. \A i \in DOMAIN q2 : i + 1 \in DOMAIN q /\ q2[i] = q[i + 1]
  BY <1>1
<1>4. \A i \in DOMAIN q : i # 1 => i - 1 \in DOMAIN q2 /\ q2[i - 1] = q[i]
  BY <1>1
<1>5. 1 \in DOMAIN q /\ q[1] = h /\ DOMAIN q \subseteq Int /\ DOMAIN q2 \subseteq Int
  BY <1>1
<1>6. ASSUME NEW u PROVE Of(q2, u) \subseteq Of(q, u)
  BY <1>3 DEF Of
<1>7. ASSUME NEW u PROVE Of(q, u) \subseteq Of(q2, u) \cup {h}
  <2> SUFFICES ASSUME NEW i \in DOMAIN q, q[i].t = u, q[i] # h PROVE q[i] \in Of(q2, u)
    BY DEF Of
  <2>1. i - 1 \in DOMAIN q2 /\ q2[i - 1] = q[i]
    BY <1>4, <1>5
  <2> QED BY <2>1 DEF Of
<1>8. ASSUME NEW u, h \in Of(q, u) PROVE u = h.t
  BY <1>8 DEF Of
<1>9. h \in Of(q, h.t)
  BY <1>5 DEF Of
<1>10. ASSUME NEW u, NEW d, LastSays(q, u, d) PROVE LastSays(q2, u, d)
  <2> SUFFICES ASSUME NEW i \in DOMAIN q2, Last(q2, i, u) PROVE q2[i].d = d
    BY DEF LastSays
  <2>1. i + 1 \in DOMAIN q /\ q[i + 1] = q2[i]
    BY <1>3
  <2>2. ASSUME NEW j \in DOMAIN q, j > i + 1 PROVE q[j].t # u
    <3>1. j # 1 /\ j - 1 > i
      BY <1>1, <2>2
    <3>2. j - 1 \in DOMAIN q2 /\ q2[j - 1] = q[j]
      BY <1>4, <3>1
    <3> QED BY <3>1, <3>2 DEF Last
  <2>3. Last(q, i + 1, u)
    BY <2>1, <2>2 DEF Last
  <2> QED BY <1>10, <2>1, <2>3 DEF LastSays
<1>11. ASSUME NEW d, LastSays(q, h.t, d), Of(q2, h.t) = {} PROVE h.d = d
  <2>1. ASSUME NEW j \in DOMAIN q, j > 1 PROVE q[j].t # h.t
    <3>1. j - 1 \in DOMAIN q2 /\ q2[j - 1] = q[j]
      BY <1>4, <1>5, <2>1
    <3> QED BY <1>11, <3>1 DEF Of
  <2>2. Last(q, 1, h.t)
    BY <1>5, <2>1 DEF Last
  <2> QED BY <1>5, <1>11, <2>2 DEF LastSays
<1>12. \A u : u # h.t => Of(q2, u) = Of(q, u)
  BY <1>6, <1>7, <1>8
<1>13. Of(q, h.t) = Of(q2, h.t) \cup {h}
  BY <1>6, <1>7, <1>9
<1>14. \A u, d : LastSays(q, u, d) => LastSays(q2, u, d)
  BY <1>10
<1>15. \A d : LastSays(q, h.t, d) /\ Of(q2, h.t) = {} => h.d = d
  BY <1>11
<1> QED BY <1>2, <1>3, <1>12, <1>13, <1>14, <1>15 DEF q2, h

(***************************************************************************)
(* The steps.                                                              *)
(***************************************************************************)

(* What is known of a transaction that a step does not concern. *)
LEMMA Unconcerned ==
  ASSUME NEW u \in Txs, TxInv(u), st'[u] = st[u], depth'[u] = depth[u],
         (u \in DOMAIN rows') = (u \in DOMAIN rows), u \in DOMAIN rows => rows'[u] = rows[u],
         rows'[u] = rows[u] \/ Of(inbox', u) # {} \/ u \in DOMAIN rows,
         u \in cleaned' => u \in cleaned, (u \in swept') = (u \in swept),
         Of(inbox', u) = Of(inbox, u),
         \A d : LastSays(inbox, u, d) => LastSays(inbox', u, d)
  PROVE  TxInv(u)'
<1>1. \A m \in Of(inbox', u) : m.d \in Depths /\ m.d <= depth'[u]
  BY DEF TxInv
<1>2. st'[u] = "known" =>
       /\ LastSays(inbox', u, depth'[u])
       /\ u \in DOMAIN rows' \/ u \in swept' \/ \E m \in Of(inbox', u) : m.ev = "received"
       /\ Of(inbox', u) = {} => u \in swept' \/ rows'[u] = depth'[u]
  BY DEF TxInv
<1>3. Depths' = Depths
  BY DEF Depths
<1> QED BY <1>1, <1>2, <1>3 DEF TxInv

LEMMA GrownMail ==
  ASSUME MailInv, NEW m, Grown(inbox, inbox', m), m.t \in Txs, m.ev \in {"received", "confidence"}
  PROVE  MailInv'
<1>1. inbox' \in Seq({inbox'[i] : i \in DOMAIN inbox'})
  BY DEF Grown
<1>2. ASSUME NEW i \in DOMAIN inbox'
      PROVE  /\ inbox'[i].ev \in {"received", "confidence"} => inbox'[i].t \in Txs
             /\ inbox'[i].ev \notin {"received", "confidence"} => inbox'[i].t = "none"
  BY DEF Grown, MailInv
<1> QED BY <1>1, <1>2 DEF MailInv

LEMMA QuieterMail ==
  ASSUME MailInv, Quieter(inbox, inbox')
  PROVE  MailInv'
<1>1. inbox' \in Seq({inbox'[i] : i \in DOMAIN inbox'})
  BY DEF Quieter
<1>2. ASSUME NEW i \in DOMAIN inbox'
      PROVE  /\ inbox'[i].ev \in {"received", "confidence"} => inbox'[i].t \in Txs
             /\ inbox'[i].ev \notin {"received", "confidence"} => inbox'[i].t = "none"
  BY DEF Quieter, MailInv
<1> QED BY <1>1, <1>2 DEF MailInv

LEMMA TailMail ==
  ASSUME MailInv, inbox # <<>>, inbox' = Tail(inbox)
  PROVE  MailInv'
<1>1. /\ inbox' \in Seq({inbox'[i] : i \in DOMAIN inbox'})
      /\ \A i \in DOMAIN inbox' : i + 1 \in DOMAIN inbox /\ inbox'[i] = inbox[i + 1]
  BY TailSays DEF MailInv
<1> QED BY <1>1 DEF MailInv

(* The wallet tells of transaction t. *)
LEMMA WalletTells ==
  ASSUME OnchainInv, NEW t \in Txs, NEW m, m.t = t, m.ev \in {"received", "confidence"},
         Grown(inbox, inbox', m), UNCHANGED <<rows, cleaned, swept>>,
         NEW s \in {"heard", "known"}, NEW d \in Depths,
         st' = [st EXCEPT ![t] = s], depth' = [depth EXCEPT ![t] = d],
         m.d = d, depth[t] <= d,
         st[t] # "gone", t \in DOMAIN rows \/ Of(inbox, t) # {} => st[t] # "unseen",
         s = "known" => m.ev = "received" \/ st[t] = "known"
  PROVE  OnchainInv'
<1> USE DEF OnchainInv
<1>1. MailInv' /\ t # "none" /\ inbox \in Seq({inbox[i] : i \in DOMAIN inbox})
  BY GrownMail, OnchainAssumption DEF MailInv
<1>2. /\ st' \in [Txs -> {"unseen", "heard", "known", "gone"}] /\ depth' \in [Txs -> Depths]
      /\ st'[t] = s /\ depth'[t] = d /\ \A u \in Txs \ {t} : st'[u] = st[u] /\ depth'[u] = depth[u]
  OBVIOUS
<1>3. ASSUME NEW u \in Txs, u # t PROVE TxInv(u)'
  <2>1. u # "none" /\ u # m.t BY <1>3, OnchainAssumption
  <2>2. Of(inbox', u) = Of(inbox, u) /\ \A x : LastSays(inbox, u, x) => LastSays(inbox', u, x)
    BY <1>1, <2>1, GrownOthers
  <2> QED BY <1>2, <1>3, <2>2, Unconcerned
<1>4. TxInv(t)'
  <2>1. Of(inbox', t) = Of(inbox, t) \cup {m} /\ LastSays(inbox', t, d)
    <3>1. m.t # "none" BY <1>1
    <3>2. Of(inbox', m.t) = Of(inbox, m.t) \cup {m} /\ LastSays(inbox', m.t, m.d)
      BY <1>1, <3>1, GrownSays
    <3> QED BY <3>2
  <2>2. TxInv(t) /\ Depths' = Depths
    BY DEF Depths
  <2>3. ASSUME NEW n \in Of(inbox', t) PROVE n.d \in Depths /\ n.d <= d
    <3>1. CASE n = m BY <3>1 DEF Depths
    <3>2. CASE n \in Of(inbox, t)
      <4>1. n.d \in Depths /\ n.d <= depth[t] /\ depth[t] \in Depths
        BY <2>2, <3>2 DEF TxInv
      <4> QED BY <4>1 DEF Depths
    <3> QED BY <2>1, <3>1, <3>2
  <2>4. t \notin cleaned
    BY <2>2 DEF TxInv
  <2>5. t \in DOMAIN rows => rows[t] \in Depths /\ rows[t] <= d
    <3>1. t \in DOMAIN rows => rows[t] \in Depths /\ rows[t] <= depth[t] /\ depth[t] \in Depths
      BY <2>2 DEF TxInv
    <3> QED BY <3>1 DEF Depths
  <2>6. s = "known" => t \in DOMAIN rows \/ t \in swept \/ \E n \in Of(inbox', t) : n.ev = "received"
    BY <2>1, <2>2 DEF TxInv
  <2> QED BY <1>2, <2>1, <2>2, <2>3, <2>4, <2>5, <2>6 DEF TxInv
<1> QED BY <1>1, <1>2, <1>3, <1>4 DEF Depths

LEMMA HearsStep ==
  ASSUME OnchainInv, NEW t \in Txs, NEW d \in {0, 1} \cap Depths, WalletHears(t, d)
  PROVE  OnchainInv'
<1> DEFINE m == Message("confidence", t, d)
<1>1. m.t = t /\ m.ev = "confidence" /\ m.d = d
  BY DEF Message
<1>2. inbox \in Seq({inbox[i] : i \in DOMAIN inbox})
  BY DEF OnchainInv, MailInv
<1>3. Grown(inbox, inbox', m)
  <2>1. inbox' = Append(inbox, m) BY DEF WalletHears
  <2>2. Append(inbox, m) \o <<>> = Append(inbox, m)
    <3> DEFINE T == {inbox[i] : i \in DOMAIN inbox} \cup {m}
    <3>1. inbox \in Seq(T) /\ m \in T BY <1>2, SeqMonotonic
    <3> HIDE DEF T, m
    <3>2. Append(inbox, m) \in Seq(T) BY <3>1
    <3> QED BY <3>2, ConcatEmptySeq
  <2>3. Ready({}, {0}, depth, FALSE) = <<>> BY DEF Ready
  <2> HIDE DEF m
  <2>4. Grown(inbox, Append(inbox, m) \o Ready({}, {0}, depth, FALSE), m)
    BY <1>2, Grows
  <2> QED BY <2>1, <2>2, <2>3, <2>4
<1>4. /\ st[t] = "unseen" /\ st' = [st EXCEPT ![t] = "heard"] /\ depth' = [depth EXCEPT ![t] = d]
      /\ UNCHANGED <<rows, cleaned, swept>>
  BY DEF WalletHears, App
<1>5. TxInv(t) BY DEF OnchainInv
<1>6. t \notin DOMAIN rows /\ Of(inbox, t) = {}
  BY <1>4, <1>5 DEF TxInv
<1>7. depth[t] <= d
  <2>1. depth[t] = 0
    BY <1>4, <1>5 DEF TxInv
  <2> QED BY <2>1
<1> HIDE DEF m
<1> QED BY <1>1, <1>3, <1>4, <1>6, <1>7, WalletTells

LEMMA GetsStep ==
  ASSUME OnchainInv, NEW t \in Txs, NEW late, WalletGets(t, late)
  PROVE  OnchainInv'
<1> DEFINE m == Message("received", t, depth[t])
<1>1. m.t = t /\ m.ev = "received" /\ m.d = depth[t]
  BY DEF Message
<1>2. inbox \in Seq({inbox[i] : i \in DOMAIN inbox}) /\ depth[t] \in Depths /\ depth[t] <= depth[t]
  BY OnchainAssumption DEF OnchainInv, MailInv, Depths
<1>3. /\ st[t] = "heard" /\ st' = [st EXCEPT ![t] = "known"]
      /\ depth' = [depth EXCEPT ![t] = depth[t]] /\ UNCHANGED <<rows, cleaned, swept>>
  BY DEF WalletGets, App, OnchainInv
<1>4. Grown(inbox, inbox', m)
  <2>1. inbox' = Append(inbox, m) \o Ready(Known \cup {t}, Heard \ {t}, depth, late)
    BY DEF WalletGets
  <2> HIDE DEF m
  <2> QED BY <1>2, <2>1, Grows
<1> HIDE DEF m
<1> QED BY <1>1, <1>2, <1>3, <1>4, WalletTells

LEMMA ConfirmsStep ==
  ASSUME OnchainInv, NEW t \in Txs, NEW late, WalletConfirms(t, late)
  PROVE  OnchainInv'
<1> DEFINE d == depth[t] + 1
           m == Message("confidence", t, d)
<1>1. m.t = t /\ m.ev = "confidence" /\ m.d = d
  BY DEF Message
<1>2. inbox \in Seq({inbox[i] : i \in DOMAIN inbox}) /\ depth[t] \in Depths
  BY DEF OnchainInv, MailInv
<1>3. depth[t] < MaxDepth BY DEF WalletConfirms
<1>4. d \in Depths /\ depth[t] <= d
  BY <1>2, <1>3, OnchainAssumption DEF Depths
<1>5. /\ st[t] = "known" /\ st' = [st EXCEPT ![t] = "known"]
      /\ depth' = [depth EXCEPT ![t] = d] /\ UNCHANGED <<rows, cleaned, swept>>
  BY DEF WalletConfirms, App, OnchainInv
<1>6. Grown(inbox, inbox', m)
  <2>1. inbox' = Append(inbox, m) \o Ready(Known, Heard, depth', late)
    BY DEF WalletConfirms
  <2> HIDE DEF m
  <2> QED BY <1>2, <2>1, Grows
<1> HIDE DEF m, d
<1> QED BY <1>1, <1>4, <1>5, <1>6, WalletTells

(* The wallet forgets of transactions, or says nothing of any. *)
LEMMA QuietStep ==
  ASSUME OnchainInv, Quieter(inbox, inbox'), UNCHANGED <<rows, cleaned, depth>>,
         swept' = swept \/ (swept' = {} /\ \A u \in Txs : st'[u] # "known"),
         st' \in [Txs -> {"unseen", "heard", "known", "gone"}],
         \A u \in Txs : \/ st'[u] = st[u]
                        \/ st[u] = "known" /\ st'[u] = "heard"
                        \/ st[u] \in {"heard", "known"} /\ st'[u] = "gone" /\ depth[u] = 0
  PROVE  OnchainInv'
<1> USE DEF OnchainInv
<1>1. MailInv' /\ inbox \in Seq({inbox[i] : i \in DOMAIN inbox})
  BY QuieterMail DEF MailInv
<1>2. ASSUME NEW u \in Txs PROVE TxInv(u)'
  <2>1. u # "none" BY OnchainAssumption
  <2>2. Of(inbox', u) = Of(inbox, u) /\ \A x : LastSays(inbox, u, x) => LastSays(inbox', u, x)
    BY <1>1, <2>1, QuieterSays
  <2>3. TxInv(u) OBVIOUS
  <2>4. CASE st'[u] = st[u] /\ swept' = swept
    BY <2>2, <2>3, <2>4, Unconcerned
  <2>5. CASE st'[u] = st[u] /\ swept' = {} /\ st'[u] # "known"
    BY <2>2, <2>3, <2>5 DEF TxInv, Depths
  <2>6. CASE st[u] # st'[u]
    <3>1. st'[u] \in {"heard", "gone"} /\ st[u] \in {"heard", "known"} /\ (st'[u] = "gone" => depth[u] = 0)
      BY <2>6
    <3>2. u \notin cleaned BY <2>3, <3>1 DEF TxInv
    <3> QED BY <2>2, <2>3, <3>1, <3>2 DEF TxInv, Depths
  <2> QED BY <2>4, <2>5, <2>6
<1> QED BY <1>1, <1>2 DEF Depths

LEMMA ReadyQuietly ==
  ASSUME MailInv, NEW ts, NEW missing, NEW d, NEW late, inbox' = inbox \o Ready(ts, missing, d, late)
  PROVE  Quieter(inbox, inbox')
<1> DEFINE r == Ready(ts, missing, d, late)
<1>1. inbox \in Seq({inbox[i] : i \in DOMAIN inbox})
  BY DEF MailInv
<1>2. r = <<>> \/ \E x : r = <<x>> /\ x.t = "none" /\ x.ev = "ready"
  BY ReadyShape
<1> HIDE DEF r
<1>3. CASE r = <<>>
  <2> DEFINE x == [t |-> "none", ev |-> "ready"]
  <2>1. x.t = "none" /\ x.ev \in {"ready", "disconnected"} OBVIOUS
  <2> HIDE DEF x
  <2>2. Quieter(inbox, inbox \o r) BY <1>1, <1>3, <2>1, GrowsQuietly
  <2> QED BY <2>2 DEF r
<1>4. CASE \E x : r = <<x>> /\ x.t = "none" /\ x.ev = "ready"
  <2>1. PICK x : r = <<x>> /\ x.t = "none" /\ x.ev = "ready" BY <1>4
  <2>2. Quieter(inbox, inbox \o r) BY <1>1, <2>1, GrowsQuietly
  <2> QED BY <2>2 DEF r
<1> QED BY <1>2, <1>3, <1>4

LEMMA DropsStep ==
  ASSUME OnchainInv, NEW t \in Txs, NEW late, WalletDrops(t, late)
  PROVE  OnchainInv'
<1>1. Quieter(inbox, inbox')
  BY ReadyQuietly DEF WalletDrops, OnchainInv
<1>2. /\ st[t] \in {"heard", "known"} /\ depth[t] = 0 /\ st' = [st EXCEPT ![t] = "gone"]
      /\ UNCHANGED <<depth, rows, cleaned, swept>>
  BY DEF WalletDrops, App
<1>3. st' \in [Txs -> {"unseen", "heard", "known", "gone"}]
      /\ \A u \in Txs : st'[u] = st[u] \/ (u = t /\ st'[u] = "gone")
  BY <1>2 DEF OnchainInv
<1> QED BY <1>1, <1>2, <1>3, QuietStep

LEMMA ConnectsStep ==
  ASSUME OnchainInv, WalletConnects
  PROVE  OnchainInv'
<1>1. Quieter(inbox, inbox')
  BY ReadyQuietly DEF WalletConnects, OnchainInv
<1>2. st' = ToBeNamed /\ swept' = {} /\ UNCHANGED <<depth, rows, cleaned>>
  BY DEF WalletConnects, App
<1>3. /\ st' \in [Txs -> {"unseen", "heard", "known", "gone"}]
      /\ \A u \in Txs : st'[u] # "known"
      /\ \A u \in Txs : st'[u] = st[u] \/ (st[u] = "known" /\ st'[u] = "heard")
  BY <1>2 DEF OnchainInv, ToBeNamed
<1> QED BY <1>1, <1>2, <1>3, QuietStep

LEMMA DisconnectsStep ==
  ASSUME OnchainInv, WalletDisconnects
  PROVE  OnchainInv'
<1> DEFINE x == Message("disconnected", "none", 0)
<1>1. x.t = "none" /\ x.ev \in {"ready", "disconnected"}
  BY DEF Message
<1>2. inbox \in Seq({inbox[i] : i \in DOMAIN inbox})
  BY DEF OnchainInv, MailInv
<1>3. inbox' = Append(inbox, x) BY DEF WalletDisconnects
<1> HIDE DEF x
<1>4. Append(inbox, x) = inbox \o <<x>>
  <2> DEFINE T == {inbox[i] : i \in DOMAIN inbox} \cup {x}
  <2>1. inbox \in Seq(T) /\ x \in T BY <1>2, SeqMonotonic
  <2> HIDE DEF T
  <2> QED BY <2>1, AppendIsConcat
<1>5. Quieter(inbox, inbox')
  BY <1>1, <1>2, <1>3, <1>4, GrowsQuietly
<1>6. UNCHANGED <<st, depth, rows, cleaned, swept>>
  BY DEF WalletDisconnects, App
<1> QED BY <1>5, <1>6, QuietStep DEF OnchainInv

(* A message about no transaction is handled. *)
LEMMA SkipStep ==
  ASSUME OnchainInv, inbox # <<>>, Head(inbox).t = "none", inbox' = Tail(inbox),
         UNCHANGED <<rows, cleaned, swept, depth, st>>
  PROVE  OnchainInv'
<1> USE DEF OnchainInv
<1>1. MailInv' /\ inbox \in Seq({inbox[i] : i \in DOMAIN inbox})
  BY TailMail DEF MailInv
<1>2. ASSUME NEW u \in Txs PROVE TxInv(u)'
  <2>1. u # Head(inbox).t BY OnchainAssumption
  <2>2. Of(inbox', u) = Of(inbox, u) /\ \A x : LastSays(inbox, u, x) => LastSays(inbox', u, x)
    BY <1>1, <2>1, TailSays
  <2> QED BY <2>2, Unconcerned
<1> QED BY <1>1, <1>2 DEF Depths

(* The first message: what it is about, and what it says. *)
LEMMA FirstMessage ==
  ASSUME OnchainInv, inbox # <<>>
  PROVE  /\ inbox \in Seq({inbox[i] : i \in DOMAIN inbox})
         /\ Head(inbox).ev \in {"received", "confidence"} => Head(inbox).t \in Txs
         /\ Head(inbox).ev \notin {"received", "confidence"} => Head(inbox).t = "none"
<1>1. inbox \in Seq({inbox[i] : i \in DOMAIN inbox})
  BY DEF OnchainInv, MailInv
<1> DEFINE S == {inbox[i] : i \in DOMAIN inbox}
<1> HIDE DEF S
<1>2. inbox \in Seq(S) BY <1>1 DEF S
<1>3. Head(inbox) = inbox[1] /\ 1 \in DOMAIN inbox
  BY <1>2
<1> QED BY <1>1, <1>3 DEF OnchainInv, MailInv

(* The rows with that of transaction t inserted, or replaced. *)
Filed(t, d) == [x \in DOMAIN rows \cup {t} |-> IF x = t THEN d ELSE rows[x]]

(* A message about transaction t is handled. *)
LEMMA RowStep ==
  ASSUME OnchainInv, inbox # <<>>, Head(inbox).t \in Txs, inbox' = Tail(inbox),
         Head(inbox).ev \in {"received", "confidence"},
         UNCHANGED <<cleaned, depth, st>>,
         \/ rows' = Filed(Head(inbox).t, Head(inbox).d) /\ swept' = swept \ {Head(inbox).t}
         \/ /\ Head(inbox).ev = "confidence" /\ Head(inbox).t \notin DOMAIN rows
            /\ rows' = rows /\ swept' = swept
  PROVE  OnchainInv'
<1> USE DEF OnchainInv
<1>0. PICK h, t : h = Head(inbox) /\ t = h.t
  OBVIOUS
<1>1. MailInv' /\ inbox \in Seq({inbox[i] : i \in DOMAIN inbox}) /\ t \in Txs
  BY <1>0, TailMail DEF MailInv
<1>2. /\ DOMAIN rows' \subseteq Txs /\ rows' = [x \in DOMAIN rows' |-> rows'[x]]
      /\ \A u \in DOMAIN rows' : u \in DOMAIN rows \/ u = t
      /\ \A u \in DOMAIN rows : u \in DOMAIN rows' /\ (u # t => rows'[u] = rows[u])
      /\ \/ t \in DOMAIN rows' /\ rows'[t] = h.d /\ t \notin swept'
         \/ h.ev = "confidence" /\ t \notin DOMAIN rows /\ rows' = rows /\ (t \in swept') = (t \in swept)
      /\ \A u \in Txs : u # t => (u \in swept') = (u \in swept)
  <2>1. CASE rows' = Filed(t, h.d) /\ swept' = swept \ {t}
    BY <1>1, <2>1 DEF Filed
  <2>2. CASE h.ev = "confidence" /\ t \notin DOMAIN rows /\ rows' = rows /\ swept' = swept
    BY <1>1, <2>2
  <2> QED BY <1>0, <2>1, <2>2
<1>3. /\ \A u : u # t => Of(inbox', u) = Of(inbox, u)
      /\ Of(inbox, t) = Of(inbox', t) \cup {h}
      /\ \A u, d : LastSays(inbox, u, d) => LastSays(inbox', u, d)
      /\ \A d : LastSays(inbox, t, d) /\ Of(inbox', t) = {} => h.d = d
  BY <1>0, <1>1, TailSays
<1>4. ASSUME NEW u \in Txs, u # t PROVE TxInv(u)'
  <2>1. /\ (u \in DOMAIN rows') = (u \in DOMAIN rows) /\ (u \in DOMAIN rows => rows'[u] = rows[u])
        /\ (u \in swept') = (u \in swept)
    BY <1>2, <1>4
  <2>2. TxInv(u) OBVIOUS
  <2>3. Of(inbox', u) = Of(inbox, u) BY <1>3, <1>4
  <2>4. st[u] = "known" /\ Of(inbox', u) = {} => u \in swept \/ u \in DOMAIN rows
    BY <2>2, <2>3 DEF TxInv
  <2>5. \A m \in Of(inbox', u) : m.d \in Depths /\ m.d <= depth'[u]
    BY <2>2, <2>3 DEF TxInv
  <2>6. st'[u] = "known" =>
       /\ LastSays(inbox', u, depth'[u])
       /\ u \in DOMAIN rows' \/ u \in swept' \/ \E m \in Of(inbox', u) : m.ev = "received"
       /\ Of(inbox', u) = {} => u \in swept' \/ rows'[u] = depth'[u]
    BY <1>3, <2>1, <2>2, <2>3, <2>4 DEF TxInv
  <2> QED BY <2>1, <2>2, <2>3, <2>5, <2>6 DEF TxInv, Depths
<1>5. TxInv(t)'
  <2>1. TxInv(t) /\ h \in Of(inbox, t) BY <1>1, <1>3
  <2>2. h.d \in Depths /\ h.d <= depth[t] /\ st[t] # "unseen" /\ t \notin cleaned
    BY <2>1 DEF TxInv
  <2>3. t \in DOMAIN rows' => /\ rows'[t] \in Depths /\ rows'[t] <= depth[t]
                              /\ st[t] # "unseen" /\ t \notin cleaned
    BY <1>2, <2>2
  <2>4. /\ \A m \in Of(inbox', t) : m.d \in Depths /\ m.d <= depth[t]
        /\ t \in swept' => t \notin DOMAIN rows'
    BY <1>2, <1>3, <2>1 DEF TxInv
  <2>5. ASSUME st[t] = "known"
        PROVE  /\ LastSays(inbox', t, depth[t])
               /\ t \in DOMAIN rows' \/ t \in swept' \/ \E m \in Of(inbox', t) : m.ev = "received"
               /\ Of(inbox', t) = {} => t \in swept' \/ rows'[t] = depth[t]
    <3>1. LastSays(inbox, t, depth[t]) /\ LastSays(inbox', t, depth[t])
      BY <1>3, <2>1, <2>5 DEF TxInv
    <3>2. t \in DOMAIN rows \/ t \in swept \/ \E m \in Of(inbox, t) : m.ev = "received"
      BY <2>1, <2>5 DEF TxInv
    <3>3. t \in DOMAIN rows' \/ t \in swept' \/ \E m \in Of(inbox', t) : m.ev = "received"
      BY <1>2, <1>3, <3>2
    <3>4. Of(inbox', t) = {} => h.d = depth[t]
      BY <1>3, <3>1
    <3>5. Of(inbox', t) = {} => t \in swept' \/ rows'[t] = h.d
      BY <1>2, <3>3
    <3> QED BY <3>1, <3>3, <3>4, <3>5
  <2> QED BY <1>2, <2>1, <2>2, <2>3, <2>4, <2>5 DEF TxInv, Depths
<1> QED BY <1>1, <1>2, <1>4, <1>5 DEF Depths

LEMMA StutterStep ==
  ASSUME OnchainInv, UNCHANGED <<inbox, rows, cleaned, swept, depth, st>>
  PROVE  OnchainInv'
<1> USE DEF OnchainInv
<1>1. MailInv'
  BY DEF MailInv
<1>2. ASSUME NEW u \in Txs PROVE TxInv(u)'
  BY Unconcerned
<1> QED BY <1>1, <1>2 DEF Depths

LEMMA SuperviseStep ==
  ASSUME OnchainInv, Supervise
  PROVE  OnchainInv'
<1>1. CASE TransactionReceived
  <2>1. inbox # <<>> /\ Head(inbox).ev = "received" /\ inbox' = Tail(inbox)
        /\ rows' = Filed(Head(inbox).t, Head(inbox).d) /\ swept' = swept \ {Head(inbox).t}
        /\ UNCHANGED <<cleaned, depth, st>>
    BY <1>1 DEF TransactionReceived, Receive, walletVars, Filed
  <2>2. Head(inbox).t \in Txs BY <2>1, FirstMessage
  <2> QED BY <2>1, <2>2, RowStep
<1>2. CASE TransactionConfidenceChanged
  <2>1. inbox # <<>> /\ Head(inbox).ev = "confidence" /\ inbox' = Tail(inbox)
        /\ rows' = (IF Head(inbox).t \in DOMAIN rows THEN [rows EXCEPT ![Head(inbox).t] = Head(inbox).d] ELSE rows)
        /\ UNCHANGED <<cleaned, swept, depth, st>>
    BY <1>2 DEF TransactionConfidenceChanged, Receive, walletVars
  <2>2. Head(inbox).t \in Txs BY <2>1, FirstMessage
  <2>3. Head(inbox).t \in DOMAIN rows => rows' = Filed(Head(inbox).t, Head(inbox).d)
    <3> SUFFICES ASSUME Head(inbox).t \in DOMAIN rows
                 PROVE  [rows EXCEPT ![Head(inbox).t] = Head(inbox).d] = Filed(Head(inbox).t, Head(inbox).d)
      BY <2>1
    <3>1. rows = [t \in DOMAIN rows |-> rows[t]] BY DEF OnchainInv
    <3> DEFINE D == DOMAIN rows
               t == Head(inbox).t
               d == Head(inbox).d
    <3>2. Filed(t, d) = [x \in D |-> IF x = t THEN d ELSE rows[x]]
      BY DEF Filed
    <3>3. [rows EXCEPT ![t] = d] = [x \in D |-> IF x = t THEN d ELSE rows[x]]
      BY <3>1
    <3> QED BY <3>2, <3>3
  <2>4. Head(inbox).t \in DOMAIN rows => swept = swept \ {Head(inbox).t}
    BY <2>2 DEF OnchainInv, TxInv
  <2> QED BY <2>1, <2>2, <2>3, <2>4, RowStep
<1>3. CASE WalletReadyBegins
  <2>1. UNCHANGED <<inbox, rows, cleaned, swept, depth, st>>
    BY <1>3 DEF WalletReadyBegins, walletVars
  <2> QED BY <2>1, StutterStep
<1>4. CASE WalletReadyEnds
  <2>1. inbox # <<>> /\ Head(inbox).ev = "ready" /\ inbox' = Tail(inbox)
        /\ UNCHANGED <<rows, cleaned, swept, depth, st>>
    BY <1>4 DEF WalletReadyEnds, walletVars
  <2>2. Head(inbox).t = "none" BY <2>1, FirstMessage
  <2> QED BY <2>1, <2>2, SkipStep
<1>5. CASE handleWalletDisconnectedEvent
  <2>1. inbox # <<>> /\ Head(inbox).ev = "disconnected" /\ inbox' = Tail(inbox)
        /\ UNCHANGED <<rows, cleaned, swept, depth, st>>
    BY <1>5 DEF handleWalletDisconnectedEvent, Receive, walletVars
  <2>2. Head(inbox).t = "none" BY <2>1, FirstMessage
  <2> QED BY <2>1, <2>2, SkipStep
<1> QED BY <1>1, <1>2, <1>3, <1>4, <1>5 DEF Supervise

LEMMA DieStep ==
  ASSUME OnchainInv, Die
  PROVE  OnchainInv'
<1> USE DEF OnchainInv
<1>1. /\ rows' = [t \in {x \in DOMAIN rows : rows[x] > 0} |-> rows[t]] /\ inbox' = <<>>
      /\ cleaned' = {t \in Txs : st[t] = "gone"} /\ st' = ToBeNamed /\ depth' = depth /\ swept' = {}
  BY DEF Die, cleanUpZeroConfs
<1>2. DOMAIN inbox' = {} /\ inbox' \in Seq({inbox'[i] : i \in DOMAIN inbox'})
  BY <1>1
<1>3. MailInv'
  BY <1>2 DEF MailInv
<1>4. st' \in [Txs -> {"unseen", "heard", "known", "gone"}]
      /\ \A u \in Txs : st'[u] = IF st[u] = "known" THEN "heard" ELSE st[u]
  BY <1>1 DEF ToBeNamed
<1>5. DOMAIN rows' \subseteq Txs /\ rows' = [t \in DOMAIN rows' |-> rows'[t]] /\ cleaned' \subseteq Txs
  BY <1>1
<1>6. ASSUME NEW u \in Txs PROVE TxInv(u)'
  <2>1. Of(inbox', u) = {} BY <1>2 DEF Of
  <2>2. TxInv(u) OBVIOUS
  <2>3. st'[u] # "known" /\ (u \in cleaned' <=> st[u] = "gone") /\ st'[u] \in {"unseen", "heard", "known", "gone"}
        /\ (st[u] = "gone" <=> st'[u] = "gone") /\ (st[u] = "unseen" <=> st'[u] = "unseen")
    BY <1>1, <1>4, <2>2 DEF TxInv
  <2>4. u \in DOMAIN rows' => u \in DOMAIN rows /\ rows'[u] = rows[u] /\ rows[u] > 0
    BY <1>1
  <2>5. u \in DOMAIN rows' => rows[u] \in Depths /\ rows[u] <= depth[u] /\ depth[u] \in Depths /\ st[u] # "unseen"
    BY <2>2, <2>4 DEF TxInv
  <2>6. u \in DOMAIN rows' => depth[u] # 0
    BY <2>4, <2>5 DEF Depths
  <2>7. u \in DOMAIN rows' => st[u] # "gone"
    BY <2>2, <2>6 DEF TxInv
  <2> QED BY <1>1, <2>1, <2>2, <2>3, <2>4, <2>5, <2>7 DEF TxInv, Depths
<1> QED BY <1>1, <1>3, <1>4, <1>5, <1>6 DEF Depths

(* A later StartupTask deletes the unconfirmed rows under the living wallet. *)
LEMMA CheckupStep ==
  ASSUME OnchainInv, checkupInit
  PROVE  OnchainInv'
<1> USE DEF OnchainInv
<1>1. /\ rows' = [t \in {x \in DOMAIN rows : rows[x] > 0} |-> rows[t]]
      /\ swept' = swept \cup (DOMAIN rows \ DOMAIN rows')
      /\ UNCHANGED <<inbox, cleaned, st, depth>>
  BY DEF checkupInit, cleanUpZeroConfs, walletVars
<1>2. MailInv'
  BY <1>1 DEF MailInv
<1>3. DOMAIN rows' \subseteq Txs /\ rows' = [t \in DOMAIN rows' |-> rows'[t]]
  BY <1>1
<1>4. ASSUME NEW u \in Txs PROVE TxInv(u)'
  <2>1. TxInv(u) OBVIOUS
  <2>2. u \in DOMAIN rows' => u \in DOMAIN rows /\ rows'[u] = rows[u]
    BY <1>1
  <2>3. u \in swept' => u \notin DOMAIN rows'
    BY <1>1, <2>1 DEF TxInv
  <2>4. u \in DOMAIN rows => u \in DOMAIN rows' \/ u \in swept'
    BY <1>1
  <2>5. u \in swept => u \in swept'
    BY <1>1
  <2>6. st[u] = "known" /\ Of(inbox, u) = {} => u \in swept' \/ rows'[u] = depth[u]
    BY <2>1, <2>2, <2>4, <2>5 DEF TxInv
  <2> QED BY <1>1, <2>1, <2>2, <2>3, <2>4, <2>5, <2>6 DEF TxInv, Depths
<1> QED BY <1>1, <1>2, <1>3, <1>4 DEF Depths

LEMMA InitOnchain == Init => OnchainInv
<1> SUFFICES ASSUME Init PROVE OnchainInv
  OBVIOUS
<1>1. /\ st = [t \in Txs |-> "unseen"] /\ depth = [t \in Txs |-> 0] /\ inbox = <<>>
      /\ DOMAIN rows = {} /\ rows = [t \in {} |-> 0] /\ cleaned = {} /\ swept = {}
  BY DEF Init
<1>2. DOMAIN inbox = {} /\ inbox \in Seq({inbox[i] : i \in DOMAIN inbox}) /\ 0 \in Depths
  BY <1>1, OnchainAssumption DEF Depths
<1>3. ASSUME NEW u \in Txs PROVE TxInv(u)
  <2>1. Of(inbox, u) = {} BY <1>2 DEF Of
  <2> QED BY <1>1, <1>2, <2>1 DEF TxInv
<1> QED BY <1>1, <1>2, <1>3 DEF OnchainInv, MailInv

LEMMA OnchainInvariant == Spec => []OnchainInv
<1>1. OnchainInv /\ [Next]_vars => OnchainInv'
  <2> SUFFICES ASSUME OnchainInv, [Next]_vars PROVE OnchainInv'
    OBVIOUS
  <2>1. ASSUME UNCHANGED <<inbox, rows, cleaned, swept, depth, st>> PROVE OnchainInv'
    BY <2>1, StutterStep
  <2>2. CASE UNCHANGED vars
    BY <2>1, <2>2 DEF vars, walletVars
  <2>3. CASE \E t \in Txs : WalletStep(t)
    BY <2>3, HearsStep, GetsStep, ConfirmsStep, DropsStep DEF WalletStep
  <2>4. CASE WalletDisconnects \/ WalletConnects \/ Supervise \/ checkupInit \/ Die
    BY <2>4, DisconnectsStep, ConnectsStep, SuperviseStep, CheckupStep, DieStep
  <2>5. CASE updateElectrumState \/ handleBalanceEvent \/ OpenHome \/ LeaveHome \/ Scheduled
    BY <2>1, <2>5 DEF updateElectrumState, handleBalanceEvent, OpenHome, LeaveHome, Scheduled, walletVars
  <2> QED BY <2>2, <2>3, <2>4, <2>5 DEF Next
<1> QED BY <1>1, InitOnchain, PTL DEF Spec

(***************************************************************************)
(* The theorems.                                                           *)
(***************************************************************************)

(* ElectrumSupervisor.onReceive and App.checkupInit: once the messages about a
   transaction of the wallet have been handled it has a row with as many
   confirmations, whatever the order of the confidence and of the transaction,
   and whatever messages died with the process; only what a later StartupTask
   has deleted has none, until the wallet reconnects. *)
THEOREM RowsAlwaysFollowWallet == Spec => []RowsFollowWallet
<1>1. OnchainInv => RowsFollowWallet
  <2> SUFFICES ASSUME OnchainInv, NEW t \in Known, ~Pending(t)
               PROVE  IF t \in swept THEN t \notin DOMAIN rows
                                     ELSE t \in DOMAIN rows /\ rows[t] = depth[t]
    BY DEF RowsFollowWallet
  <2>1. Of(inbox, t) = {} BY DEF Of, Pending
  <2> QED BY <2>1 DEF Known, OnchainInv, TxInv
<1> QED BY <1>1, OnchainInvariant, PTL

(* App.checkupInit and cleanUpZeroConfs: no row is ahead of its transaction, and
   the rows of what had been replaced are gone when the process is started. *)
THEOREM GoneIsAlwaysForgotten == Spec => []GoneIsForgotten
<1>1. OnchainInv => GoneIsForgotten
  BY DEF OnchainInv, TxInv, GoneIsForgotten
<1> QED BY <1>1, OnchainInvariant, PTL
==============================================================================
