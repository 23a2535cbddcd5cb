----------------------------- MODULE ChannelsProofs -----------------------------
(***************************************************************************)
(* Theorems about Channels, for any channels, any number of changes,       *)
(* deaths of the process and events that wait.                             *)
(***************************************************************************)
EXTENDS Channels, SequenceTheorems, TLAPS

First == {"created", "restored"}
Balance == {"state", "signature"}
Told(m) == m.ev = "state" /\ Alert(m)
Over(m) == m.ev = "state" /\ m.st = "closed"

(* The messages of mailbox q about channel c, and the last of those with an
   event of E. *)
Of(q, c) == {q[i] : i \in {j \in DOMAIN q : q[j].c = c}}
LastOf(q, c, E, m) ==
  \E i \in DOMAIN q : /\ q[i] = m /\ m.c = c /\ m.ev \in E
                      /\ \A j \in DOMAIN q : j > i /\ q[j].c = c => q[j].ev \notin E

(* Message n may come after message m about the same channel. *)
Follows(m, n) ==
  /\ n.ev \notin First /\ m.ev # "terminated"
  /\ n.ev = "state" /\ n.bal = 0 => m.ev \in First
  /\ Over(m) => n.ev = "terminated"
  /\ ~(Told(m) /\ Told(n))

Ordered(q, c) ==
  \A i, j \in DOMAIN q : j < i /\ q[i].c = c /\ q[j].c = c => Follows(q[j], q[i])

(* The messages of channel c that wait, and whether it is in the map. *)
Waiting(c) == Of(inbox, c)
Mapped(c) == c \in DOMAIN map
Filed(c) == c \in DOMAIN table

NodeInv(c) ==
  /\ c \in up => node[c].st \in Stored \cup {"accept"}
  /\ node[c].st = "accept" => c \in up
  /\ node[c].st \in {"none", "accept"} => node[c].bal = 0
  /\ node[c].st \in Stored => node[c].bal # 0

(* The life of channel c in the mailbox and in the map. *)
LifeInv(c) ==
  /\ \A m \in Waiting(c) :
       /\ m.ev \in First => ~Mapped(c) /\ \E n \in Waiting(c) : n.ev = "state"
       /\ m.ev \notin First => Mapped(c) \/ \E n \in Waiting(c) : n.ev \in First
       /\ m.ev = "terminated" => c \notin up
       /\ m.ev = "signature" => m.bal # 0
  /\ c \in up => Mapped(c) \/ \E n \in Waiting(c) : n.ev \in First
  /\ c \notin up /\ (Mapped(c) \/ Waiting(c) # {}) =>
       node[c].st = "closed" /\ \E n \in Waiting(c) : n.ev = "terminated"

(* What the last messages say, or the map when there is none. *)
NewsInv(c) ==
  /\ c \in up => /\ \A m \in Waiting(c) : LastOf(inbox, c, {"state"}, m) => m.st = node[c].st
                 /\ Mapped(c) /\ (\A m \in Waiting(c) : m.ev # "state") => map[c].state = node[c].st
  /\ \A m \in Waiting(c) : LastOf(inbox, c, Balance, m) => m.bal = node[c].bal
  /\ Mapped(c) /\ (\A m \in Waiting(c) : m.ev \notin Balance) => map[c].bal = node[c].bal

(* A channel that has no commitments has no amounts anywhere. *)
ZeroInv(c) ==
  /\ (\E m \in Waiting(c) : m.ev = "state" /\ m.bal = 0) =>
       ~Filed(c) /\ (Mapped(c) => ~map[c].cap /\ map[c].bal = 0)
  /\ node[c].bal = 0 =>
       /\ ~Filed(c) /\ (Mapped(c) => ~map[c].cap /\ map[c].bal = 0)
       /\ \A m \in Waiting(c) : m.ev \in {"created", "state", "terminated"} /\ m.bal = 0
  /\ Mapped(c) /\ map[c].cap => map[c].bal # 0

(* The row of channel c. *)
RowInv(c) ==
  /\ \A m \in Waiting(c) : /\ Over(m) => node[c].st = "closed" /\ m.bal = node[c].bal
                           /\ m.ev = "created" => ~Filed(c)
  /\ Filed(c) /\ ~table[c].active => /\ node[c].st = "closed" /\ table[c].bal = node[c].bal
                                     /\ ~Mapped(c) /\ Waiting(c) = {}
  /\ Filed(c) /\ table[c].active /\ node[c].st = "closed" => Waiting(c) # {} \/ c \in lost
  /\ (\E m \in Waiting(c) : m.ev = "terminated") =>
       \/ node[c].bal = 0
       \/ \E m \in Waiting(c) : Over(m)
       \/ /\ Filed(c) /\ table[c].bal = node[c].bal
          /\ \A m \in Waiting(c) : m.ev = "terminated"
  /\ Mapped(c) /\ Filed(c) => /\ table[c].msg => map[c].msg
                              /\ table[c].refund => map[c].refund

(* The notification of a closing. *)
BeingTold(c) == half /\ Head(inbox).c = c /\ Told(Head(inbox))

ToldInv(c) ==
  /\ alerts[c] \in {0, 1} /\ (alerts[c] = 1 => node[c].st \in {"closing", "closed"})
  /\ (\E m \in Waiting(c) : Told(m)) => /\ node[c].st \in {"closing", "closed"}
                                        /\ BeingTold(c) \/ alerts[c] = 0
  /\ BeingTold(c) => alerts[c] = 1
  /\ node[c].st = "closing" => \/ alerts[c] = 1 \/ c \in lost
                               \/ \E m \in Waiting(c) : Told(m)

ChanInv(c) == /\ NodeInv(c) /\ LifeInv(c) /\ NewsInv(c) /\ ZeroInv(c) /\ RowInv(c) /\ ToldInv(c)
              /\ Ordered(inbox, c)

HalfInv ==
  half => /\ inbox # <<>> /\ Head(inbox).ev = "state" /\ Mapped(Head(inbox).c)
          /\ map[Head(inbox).c].state = Head(inbox).st

Types ==
  /\ node \in [Chans -> [st : States, bal : {0} \cup Amounts, refund : BOOLEAN]]
  /\ inbox \in Seq(Message) /\ half \in BOOLEAN /\ up \subseteq Chans
  /\ DOMAIN map \subseteq Chans /\ map \in [DOMAIN map -> Entry]
  /\ DOMAIN table \subseteq Chans /\ table \in [DOMAIN table -> Row]
  /\ alerts \in [Chans -> Nat] /\ lost \subseteq Chans

ChannelsInv == Types /\ HalfInv /\ \A c \in Chans : ChanInv(c)

(***************************************************************************)
(* The mailbox.                                                            *)
(***************************************************************************)
LEMMA OfMessages ==
  ASSUME NEW q \in Seq(Message), NEW c
  PROVE  \A m \in Of(q, c) : m \in Message /\ m.c = c
<1>1. \A i \in DOMAIN q : q[i] \in Message
  BY ElementOfSeq, LenProperties
<1> QED BY <1>1 DEF Of

(* A message more, about another channel. *)
LEMMA AppendOther ==
  ASSUME NEW q \in Seq(Message), NEW n \in Message, NEW c, n.c # c
  PROVE  /\ Of(Append(q, n), c) = Of(q, c)
         /\ Ordered(q, c) => Ordered(Append(q, n), c)
         /\ \A E, m : LastOf(Append(q, n), c, E, m) => LastOf(q, c, E, m)
<1> DEFINE q2 == Append(q, n)
<1>1. /\ Len(q) \in Nat /\ DOMAIN q = 1 .. Len(q) /\ DOMAIN q2 = 1 .. (Len(q) + 1)
      /\ \A i \in 1 .. Len(q) : q2[i] = q[i]
      /\ q2[Len(q) + 1] = n
  BY AppendProperties, LenProperties
<1> HIDE DEF q2
<1>2. \A i \in DOMAIN q : i \in DOMAIN q2 /\ q2[i] = q[i]
  BY <1>1
<1>3. \A i \in DOMAIN q2 : q2[i].c = c => i \in DOMAIN q /\ q2[i] = q[i]
  BY <1>1
<1>4. Of(q2, c) = Of(q, c)
  BY <1>2, <1>3 DEF Of
<1>5. Ordered(q, c) => Ordered(q2, c)
  BY <1>3 DEF Ordered
<1>6. ASSUME NEW E, NEW m, LastOf(q2, c, E, m) PROVE LastOf(q, c, E, m)
  <2>1. PICK i \in DOMAIN q2 : /\ q2[i] = m /\ m.c = c /\ m.ev \in E
                               /\ \A j \in DOMAIN q2 : j > i /\ q2[j].c = c => q2[j].ev \notin E
    BY <1>6 DEF LastOf
  <2>2. i \in DOMAIN q /\ q[i] = m
    BY <1>3, <2>1
  <2>3. \A j \in DOMAIN q : j > i /\ q[j].c = c => q[j].ev \notin E
    BY <1>2, <2>1
  <2> QED BY <2>1, <2>2, <2>3 DEF LastOf
<1> QED BY <1>4, <1>5, <1>6 DEF q2

(* A message more about channel c. *)
LEMMA AppendOwn ==
  ASSUME NEW q \in Seq(Message), NEW n \in Message, NEW c, n.c = c
  PROVE  /\ Of(Append(q, n), c) = Of(q, c) \cup {n}
         /\ Ordered(q, c) /\ (\A m \in Of(q, c) : Follows(m, n)) => Ordered(Append(q, n), c)
         /\ \A E, m : LastOf(Append(q, n), c, E, m) =>
                        \/ n.ev \in E /\ m = n
                        \/ n.ev \notin E /\ LastOf(q, c, E, m)
<1> DEFINE q2 == Append(q, n)
<1>1. /\ Len(q) \in Nat /\ DOMAIN q = 1 .. Len(q) /\ DOMAIN q2 = 1 .. (Len(q) + 1)
      /\ \A i \in 1 .. Len(q) : q2[i] = q[i]
      /\ q2[Len(q) + 1] = n
  BY AppendProperties, LenProperties
<1> HIDE DEF q2
<1>2. \A i \in DOMAIN q : i \in DOMAIN q2 /\ q2[i] = q[i]
  BY <1>1
<1>3. \A i \in DOMAIN q2 : (i \in DOMAIN q /\ q2[i] = q[i]) \/ (i = Len(q) + 1 /\ q2[i] = n)
  BY <1>1
<1>4. Len(q) + 1 \in DOMAIN q2 /\ \A i \in DOMAIN q : i < Len(q) + 1
  BY <1>1
<1>5. Of(q2, c) = Of(q, c) \cup {n}
  <2>1. Of(q2, c) \subseteq Of(q, c) \cup {n}
    BY <1>3 DEF Of
  <2>2. Of(q, c) \subseteq Of(q2, c)
    BY <1>2 DEF Of
  <2>3. n \in Of(q2, c)
    BY <1>1, <1>4 DEF Of
  <2> QED BY <2>1, <2>2, <2>3
<1>6. ASSUME Ordered(q, c), \A m \in Of(q, c) : Follows(m, n)
      PROVE  Ordered(q2, c)
  <2> SUFFICES ASSUME NEW i \in DOMAIN q2, NEW j \in DOMAIN q2, j < i, q2[i].c = c, q2[j].c = c
               PROVE  Follows(q2[j], q2[i])
    BY DEF Ordered
  <2>1. j \in DOMAIN q /\ q2[j] = q[j]
    BY <1>1
  <2>2. CASE i \in DOMAIN q
    BY <1>2, <1>6, <2>1, <2>2 DEF Ordered
  <2>3. CASE i = Len(q) + 1
    BY <1>1, <1>6, <2>1, <2>3 DEF Of
  <2> QED BY <1>3, <2>2, <2>3
<1>7. ASSUME NEW E, NEW m, LastOf(q2, c, E, m)
      PROVE  (n.ev \in E /\ m = n) \/ (n.ev \notin E /\ LastOf(q, c, E, m))
  <2>1. PICK i \in DOMAIN q2 : /\ q2[i] = m /\ m.c = c /\ m.ev \in E
                               /\ \A j \in DOMAIN q2 : j > i /\ q2[j].c = c => q2[j].ev \notin E
    BY <1>7 DEF LastOf
  <2>2. CASE i = Len(q) + 1
    BY <1>1, <2>1, <2>2
  <2>3. CASE i \in DOMAIN q
    <3>1. Len(q) + 1 > i /\ Len(q) + 1 \in DOMAIN q2
      BY <1>1, <2>3
    <3>2. n.ev \notin E
      BY <1>1, <2>1, <3>1
    <3>3. q[i] = m /\ \A j \in DOMAIN q : j > i /\ q[j].c = c => q[j].ev \notin E
      BY <1>2, <2>1, <2>3
    <3>4. LastOf(q, c, E, m)
      BY <2>1, <2>3, <3>3 DEF LastOf
    <3> QED BY <3>2, <3>4
  <2> QED BY <1>3, <2>2, <2>3
<1> QED BY <1>5, <1>6, <1>7 DEF q2

LEMMA AppendHead ==
  ASSUME NEW q \in Seq(Message), NEW n \in Message
  PROVE  /\ Append(q, n) \in Seq(Message) /\ Append(q, n) # <<>>
         /\ q # <<>> => Head(Append(q, n)) = Head(q)
<1>1. Append(q, n) \in Seq(Message) /\ Append(q, n) # <<>>
  BY AppendProperties
<1>2. ASSUME q # <<>> PROVE Head(Append(q, n)) = Head(q)
  <2>1. Head(q) = q[1] /\ 1 \in 1 .. Len(q)
    BY <1>2
  <2>2. Append(q, n)[1] = q[1]
    BY <2>1, AppendProperties
  <2>3. Head(Append(q, n)) = Append(q, n)[1]
    BY <1>1
  <2> QED BY <2>1, <2>2, <2>3
<1> QED BY <1>1, <1>2

(* The first message has been taken. *)
LEMMA TailQueue ==
  ASSUME NEW q \in Seq(Message), q # <<>>
  PROVE  /\ Tail(q) \in Seq(Message) /\ Head(q) \in Message
         /\ \A c : c # Head(q).c => Of(Tail(q), c) = Of(q, c)
         /\ Of(q, Head(q).c) = Of(Tail(q), Head(q).c) \cup {Head(q)}
         /\ \A c : Ordered(q, c) => Ordered(Tail(q), c)
         /\ \A c, E, m : LastOf(Tail(q), c, E, m) => LastOf(q, c, E, m)
<1> DEFINE q2 == Tail(q)
           h == Head(q)
<1>1. /\ q2 \in Seq(Message) /\ Len(q) \in Nat \ {0} /\ Len(q2) = Len(q) - 1
      /\ DOMAIN q = 1 .. Len(q) /\ DOMAIN q2 = 1 .. Len(q2) /\ h = q[1] /\ h \in Message
      /\ \A i \in 1 .. Len(q2) : q2[i] = q[i + 1]
  OBVIOUS
<1> HIDE DEF q2, h
<1>2. \A i \in DOMAIN q2 : i + 1 \in DOMAIN q /\ q2[i] = q[i + 1]
  BY <1>1
<1>3. \A i \in DOMAIN q : i # 1 => i - 1 \in DOMAIN q2 /\ q2[i - 1] = q[i]
  BY <1>1
<1>4. 1 \in DOMAIN q /\ q[1] = h /\ DOMAIN q \subseteq Int /\ DOMAIN q2 \subseteq Int
  BY <1>1
<1>5. ASSUME NEW c PROVE Of(q2, c) \subseteq Of(q, c)
  BY <1>2 DEF Of
<1>6. ASSUME NEW c PROVE Of(q, c) \subseteq Of(q2, c) \cup {h}
  <2> SUFFICES ASSUME NEW i \in DOMAIN q, q[i].c = c, q[i] # h PROVE q[i] \in Of(q2, c)
    BY DEF Of
  <2>1. i - 1 \in DOMAIN q2 /\ q2[i - 1] = q[i]
    BY <1>3, <1>4
  <2> QED BY <2>1 DEF Of
<1>7. ASSUME NEW c, h \in Of(q, c) PROVE c = h.c
  BY <1>7 DEF Of
<1>8. h \in Of(q, h.c)
  BY <1>4 DEF Of
<1>9. ASSUME NEW c, Ordered(q, c) PROVE Ordered(q2, c)
  <2> SUFFICES ASSUME NEW i \in DOMAIN q2, NEW j \in DOMAIN q2, j < i, q2[i].c = c, q2[j].c = c
               PROVE  Follows(q2[j], q2[i])
    BY DEF Ordered
  <2>1. j + 1 < i + 1 BY <1>4
  <2> QED BY <1>2, <1>9, <2>1 DEF Ordered
<1>10. ASSUME NEW c, NEW E, NEW m, LastOf(q2, c, E, m) PROVE LastOf(q, c, E, m)
  <2>1. PICK i \in DOMAIN q2 : /\ q2[i] = m /\ m.c = c /\ m.ev \in E
                               /\ \A j \in DOMAIN q2 : j > i /\ q2[j].c = c => q2[j].ev \notin E
    BY <1>10 DEF LastOf
  <2>2. i + 1 \in DOMAIN q /\ q[i + 1] = m
    BY <1>2, <2>1
  <2>3. ASSUME NEW j \in DOMAIN q, j > i + 1, q[j].c = c PROVE q[j].ev \notin E
    <3>1. j # 1 /\ j - 1 > i
      BY <1>1, <2>3
    <3>2. j - 1 \in DOMAIN q2 /\ q2[j - 1] = q[j]
      BY <1>3, <3>1
    <3> QED BY <2>1, <2>3, <3>1, <3>2
  <2> QED BY <2>1, <2>2, <2>3 DEF LastOf
<1>11. \A c : c # h.c => Of(q2, c) = Of(q, c)
  BY <1>5, <1>6, <1>7
<1>12. Of(q, h.c) = Of(q2, h.c) \cup {h}
  BY <1>5, <1>6, <1>8
<1>13. \A c : Ordered(q, c) => Ordered(q2, c)
  BY <1>9
<1>14. \A c, E, m : LastOf(q2, c, E, m) => LastOf(q, c, E, m)
  BY <1>10
<1> QED BY <1>1, <1>11, <1>12, <1>13, <1>14 DEF q2, h

(* What the first message is to those behind it. *)
LEMMA HeadQueue ==
  ASSUME NEW q \in Seq(Message), q # <<>>, NEW h, h = Head(q), NEW c, c = h.c
  PROVE  /\ Ordered(q, c) => \A m \in Of(Tail(q), c) : Follows(h, m)
         /\ \A E : h.ev \in E /\ (\A m \in Of(Tail(q), c) : m.ev \notin E) => LastOf(q, c, E, h)
<1> DEFINE q2 == Tail(q)
<1>1. /\ q2 \in Seq(Message) /\ Len(q) \in Nat \ {0} /\ Len(q2) = Len(q) - 1
      /\ DOMAIN q = 1 .. Len(q) /\ DOMAIN q2 = 1 .. Len(q2) /\ h = q[1]
      /\ \A i \in 1 .. Len(q2) : q2[i] = q[i + 1]
  OBVIOUS
<1> HIDE DEF q2
<1>2. \A i \in DOMAIN q2 : i + 1 \in DOMAIN q /\ q2[i] = q[i + 1] /\ 1 < i + 1
  BY <1>1
<1>3. \A i \in DOMAIN q : i > 1 => i - 1 \in DOMAIN q2 /\ q2[i - 1] = q[i]
  BY <1>1
<1>4. 1 \in DOMAIN q /\ q[1] = h
  BY <1>1
<1>5. ASSUME Ordered(q, c), NEW m \in Of(q2, c) PROVE Follows(h, m)
  <2>1. PICK i \in DOMAIN q2 : q2[i].c = c /\ m = q2[i] BY <1>5 DEF Of
  <2> QED BY <1>2, <1>4, <1>5, <2>1 DEF Ordered
<1>6. ASSUME NEW E, h.ev \in E, \A m \in Of(q2, c) : m.ev \notin E PROVE LastOf(q, c, E, h)
  <2>1. ASSUME NEW j \in DOMAIN q, j > 1, q[j].c = c PROVE q[j].ev \notin E
    <3>1. j - 1 \in DOMAIN q2 /\ q2[j - 1] = q[j]
      BY <1>3, <2>1
    <3> QED BY <1>6, <2>1, <3>1 DEF Of
  <2> QED BY <1>4, <1>6, <2>1 DEF LastOf
<1> QED BY <1>5, <1>6 DEF q2

LEMMA LastWaits ==
  ASSUME NEW q, NEW c, NEW E, NEW m, LastOf(q, c, E, m)
  PROVE  m \in Of(q, c) /\ m.ev \in E
BY DEF LastOf, Of

(***************************************************************************)
(* Channels that a step does not concern.                                  *)
(***************************************************************************)
LEMMA Unconcerned ==
  ASSUME NEW u \in Chans, ChanInv(u), node'[u] = node[u], (u \in up') <=> (u \in up),
         alerts'[u] = alerts[u], u \in lost => u \in lost',
         Mapped(u)' <=> Mapped(u), Mapped(u) => map'[u] = map[u],
         Filed(u)' <=> Filed(u), Filed(u) => table'[u] = table[u],
         Waiting(u)' = Waiting(u), Ordered(inbox, u) => Ordered(inbox', u),
         \A E, m : LastOf(inbox', u, E, m) => LastOf(inbox, u, E, m),
         BeingTold(u)' <=> BeingTold(u)
  PROVE  ChanInv(u)'
<1> USE DEF ChanInv
<1>1. NodeInv(u)' BY DEF NodeInv, Stored
<1>2. LifeInv(u)' BY DEF LifeInv, First
<1>3. NewsInv(u)'
  BY DEF NewsInv, Balance
<1>4. ZeroInv(u)' BY DEF ZeroInv
<1>5. RowInv(u)' BY DEF RowInv, Over
<1>6. ToldInv(u)' BY DEF ToldInv, Told, Alert
<1> QED BY <1>1, <1>2, <1>3, <1>4, <1>5, <1>6

LEMMA Stutter ==
  ASSUME ChannelsInv, UNCHANGED <<node, up, inbox, half, map, table, alerts, lost>>
  PROVE  ChannelsInv'
<1>1. Types'
  BY DEF ChannelsInv, Types, States, Stored, Amounts, Message, Entry, Row
<1>2. HalfInv'
  BY DEF ChannelsInv, HalfInv, Mapped
<1>3. ASSUME NEW u \in Chans PROVE ChanInv(u)'
  <2>1. (Mapped(u)' <=> Mapped(u)) /\ (Filed(u)' <=> Filed(u)) /\ Waiting(u)' = Waiting(u)
        /\ (BeingTold(u)' <=> BeingTold(u))
    BY DEF Mapped, Filed, Waiting, BeingTold, Told, Alert
  <2> QED BY <2>1, Unconcerned DEF ChannelsInv
<1> QED BY <1>1, <1>2, <1>3 DEF ChannelsInv

(***************************************************************************)
(* The steps of the node: it adds to the mailbox and leaves the rest alone. *)
(***************************************************************************)

(* n is added to the mailbox. *)
LEMMA OneMore ==
  ASSUME ChannelsInv, NEW c \in Chans, NEW n \in Message, n.c = c, inbox' = Append(inbox, n),
         UNCHANGED <<half, map, table, alerts, lost>>,
         \A m \in Waiting(c) : Follows(m, n)
  PROVE  /\ inbox' \in Seq(Message) /\ HalfInv'
         /\ Waiting(c)' = Waiting(c) \cup {n} /\ Ordered(inbox', c)
         /\ \A E, m : LastOf(inbox', c, E, m) =>
                        (n.ev \in E /\ m = n) \/ (n.ev \notin E /\ LastOf(inbox, c, E, m))
         /\ \A u : /\ Mapped(u)' <=> Mapped(u)
                   /\ Filed(u)' <=> Filed(u)
                   /\ BeingTold(u)' <=> BeingTold(u)
         /\ \A u \in Chans \ {c} : node'[u] = node[u] /\ ((u \in up') <=> (u \in up)) => ChanInv(u)'
<1>1. inbox \in Seq(Message)
  BY DEF ChannelsInv, Types
<1>2. /\ inbox' \in Seq(Message) /\ inbox' # <<>>
      /\ inbox # <<>> => Head(inbox') = Head(inbox)
  BY <1>1, AppendHead
<1>3. half => inbox # <<>>
  BY DEF ChannelsInv, HalfInv
<1>4. ASSUME NEW u PROVE /\ Mapped(u)' <=> Mapped(u)
                         /\ Filed(u)' <=> Filed(u)
                         /\ BeingTold(u)' <=> BeingTold(u)
  BY <1>2, <1>3 DEF Mapped, Filed, BeingTold, Told, Alert
<1>5. HalfInv'
  BY <1>2, <1>3, <1>4 DEF HalfInv, ChannelsInv, Mapped
<1>6. /\ Waiting(c)' = Waiting(c) \cup {n} /\ Ordered(inbox', c)
      /\ \A E, m : LastOf(inbox', c, E, m) =>
                     (n.ev \in E /\ m = n) \/ (n.ev \notin E /\ LastOf(inbox, c, E, m))
  BY ZenonT(40), <1>1, AppendOwn DEF Waiting, ChannelsInv, ChanInv
<1>7. ASSUME NEW u \in Chans \ {c}, node'[u] = node[u], (u \in up') <=> (u \in up)
      PROVE  ChanInv(u)'
  <2>1. /\ Waiting(u)' = Waiting(u) /\ (Ordered(inbox, u) => Ordered(inbox', u))
        /\ \A E, m : LastOf(inbox', u, E, m) => LastOf(inbox, u, E, m)
    BY <1>1, AppendOther DEF Waiting
  <2> QED BY <1>4, <1>7, <2>1, Unconcerned DEF ChannelsInv
<1> QED BY <1>2, <1>4, <1>5, <1>6, <1>7

(* n1 and n2 are. *)
LEMMA TwoMore ==
  ASSUME ChannelsInv, NEW c \in Chans, NEW n1 \in Message, NEW n2 \in Message, n1.c = c, n2.c = c,
         inbox' = Append(Append(inbox, n1), n2),
         UNCHANGED <<half, map, table, alerts, lost>>,
         \A m \in Waiting(c) : Follows(m, n1) /\ Follows(m, n2),
         Follows(n1, n2)
  PROVE  /\ inbox' \in Seq(Message) /\ HalfInv'
         /\ Waiting(c)' = Waiting(c) \cup {n1, n2} /\ Ordered(inbox', c)
         /\ \A E, m : LastOf(inbox', c, E, m) =>
                        \/ n2.ev \in E /\ m = n2
                        \/ n2.ev \notin E /\ n1.ev \in E /\ m = n1
                        \/ n2.ev \notin E /\ n1.ev \notin E /\ LastOf(inbox, c, E, m)
         /\ \A u : /\ Mapped(u)' <=> Mapped(u)
                   /\ Filed(u)' <=> Filed(u)
                   /\ BeingTold(u)' <=> BeingTold(u)
         /\ \A u \in Chans \ {c} : node'[u] = node[u] /\ ((u \in up') <=> (u \in up)) => ChanInv(u)'
<1>0. PICK q1 : q1 = Append(inbox, n1)
  OBVIOUS
<1>1. inbox \in Seq(Message)
  BY DEF ChannelsInv, Types
<1>2. /\ q1 \in Seq(Message) /\ q1 # <<>> /\ inbox' \in Seq(Message) /\ inbox' # <<>>
      /\ inbox # <<>> => Head(inbox') = Head(inbox)
  BY <1>0, <1>1, AppendHead
<1>3. half => inbox # <<>>
  BY DEF ChannelsInv, HalfInv
<1>4. ASSUME NEW u PROVE /\ Mapped(u)' <=> Mapped(u)
                         /\ Filed(u)' <=> Filed(u)
                         /\ BeingTold(u)' <=> BeingTold(u)
  BY <1>2, <1>3 DEF Mapped, Filed, BeingTold, Told, Alert
<1>5. HalfInv'
  BY <1>2, <1>3, <1>4 DEF HalfInv, ChannelsInv, Mapped
<1>6. /\ Of(q1, c) = Waiting(c) \cup {n1} /\ Ordered(q1, c)
      /\ \A E, m : LastOf(q1, c, E, m) =>
                     (n1.ev \in E /\ m = n1) \/ (n1.ev \notin E /\ LastOf(inbox, c, E, m))
  BY <1>0, <1>1, AppendOwn DEF Waiting, ChannelsInv, ChanInv
<1>7. /\ Of(inbox', c) = Of(q1, c) \cup {n2}
      /\ Ordered(q1, c) /\ (\A m \in Of(q1, c) : Follows(m, n2)) => Ordered(inbox', c)
      /\ \A E, m : LastOf(inbox', c, E, m) =>
                     (n2.ev \in E /\ m = n2) \/ (n2.ev \notin E /\ LastOf(q1, c, E, m))
  BY <1>0, <1>2, AppendOwn
<1>8. Waiting(c)' = Waiting(c) \cup {n1, n2} /\ Ordered(inbox', c)
  BY <1>6, <1>7 DEF Waiting
<1>9. ASSUME NEW u \in Chans \ {c}, node'[u] = node[u], (u \in up') <=> (u \in up)
      PROVE  ChanInv(u)'
  <2>1. /\ Of(q1, u) = Of(inbox, u) /\ (Ordered(inbox, u) => Ordered(q1, u))
        /\ \A E, m : LastOf(q1, u, E, m) => LastOf(inbox, u, E, m)
    BY <1>0, <1>1, AppendOther
  <2>2. /\ Of(inbox', u) = Of(q1, u) /\ (Ordered(q1, u) => Ordered(inbox', u))
        /\ \A E, m : LastOf(inbox', u, E, m) => LastOf(q1, u, E, m)
    BY <1>0, <1>2, AppendOther
  <2>3. /\ Waiting(u)' = Waiting(u) /\ (Ordered(inbox, u) => Ordered(inbox', u))
        /\ \A E, m : LastOf(inbox', u, E, m) => LastOf(inbox, u, E, m)
    BY <2>1, <2>2 DEF Waiting
  <2> QED BY <1>4, <1>9, <2>3, Unconcerned DEF ChannelsInv
<1> QED BY <1>2, <1>4, <1>5, <1>6, <1>7, <1>8, <1>9

LEMMA ConcatOne ==
  ASSUME NEW S, NEW q \in Seq(S), NEW n \in S
  PROVE  q \o <<n>> = Append(q, n)
BY AppendIsConcat

LEMMA ConcatTwo ==
  ASSUME NEW S, NEW q \in Seq(S), NEW n1 \in S, NEW n2 \in S
  PROVE  q \o <<n1, n2>> = Append(Append(q, n1), n2)
<1>1. Append(q, n1) \in Seq(S) BY AppendProperties
<1>2. Append(Append(q, n1), n2) = (q \o <<n1>>) \o <<n2>>
  BY <1>1, ConcatOne
<1>3. (q \o <<n1>>) \o <<n2>> = q \o (<<n1>> \o <<n2>>)
  <2>1. <<n1>> \in Seq(S) /\ <<n2>> \in Seq(S) OBVIOUS
  <2> QED BY <2>1, ConcatAssociative
<1>4. <<n1>> \o <<n2>> = <<n1, n2>>
  <2>1. <<n1>> \in Seq(S) /\ <<n2>> \in Seq(S) /\ <<n1, n2>> \in Seq(S)
        /\ Len(<<n1>>) = 1 /\ Len(<<n2>>) = 1 /\ Len(<<n1, n2>>) = 2
    OBVIOUS
  <2>2. /\ <<n1>> \o <<n2>> \in Seq(S) /\ Len(<<n1>> \o <<n2>>) = 2
        /\ (<<n1>> \o <<n2>>)[1] = n1 /\ (<<n1>> \o <<n2>>)[2] = n2
    BY <2>1, ConcatProperties
  <2>3. \A i \in 1 .. 2 : (<<n1>> \o <<n2>>)[i] = <<n1, n2>>[i]
    BY <2>2
  <2> QED BY <2>1, <2>2, <2>3, SeqEqual
<1> QED BY <1>2, <1>3, <1>4

(* The state of the node after a step about channel c. *)
LEMMA NodeTypes ==
  ASSUME ChannelsInv, NEW c \in Chans, NEW st \in States, NEW bal \in {0} \cup Amounts,
         node' = [node EXCEPT ![c].st = st, ![c].bal = bal]
  PROVE  /\ node' \in [Chans -> [st : States, bal : {0} \cup Amounts, refund : BOOLEAN]]
         /\ node'[c].st = st /\ node'[c].bal = bal /\ node'[c].refund = node[c].refund
         /\ \A u \in Chans \ {c} : node'[u] = node[u]
BY DEF ChannelsInv, Types

LEMMA NodeRest ==
  ASSUME ChannelsInv, NEW c \in Chans, UNCHANGED <<half, map, table, alerts, lost>>,
         node' \in [Chans -> [st : States, bal : {0} \cup Amounts, refund : BOOLEAN]],
         inbox' \in Seq(Message), up' \subseteq Chans, HalfInv',
         \A u \in Chans \ {c} : ChanInv(u)',
         NodeInv(c)', LifeInv(c)', NewsInv(c)', ZeroInv(c)', RowInv(c)', ToldInv(c)',
         Ordered(inbox', c)
  PROVE  ChannelsInv'
<1>1. Types'
  BY DEF ChannelsInv, Types, States, Stored, Amounts, Message, Entry, Row
<1>2. ChanInv(c)'
  BY DEF ChanInv
<1> QED BY <1>1, <1>2 DEF ChannelsInv

LEMMA OldNode ==
  ASSUME ChannelsInv, NEW c \in Chans
  PROVE  /\ ChanInv(c) /\ NodeInv(c) /\ LifeInv(c) /\ NewsInv(c) /\ ZeroInv(c) /\ RowInv(c) /\ ToldInv(c)
         /\ node[c].st \in States /\ node[c].bal \in {0} \cup Amounts /\ 0 \notin Amounts
         /\ inbox \in Seq(Message) /\ up \subseteq Chans
         /\ \A m \in Waiting(c) : m \in Message /\ m.c = c
BY OfMessages DEF ChannelsInv, ChanInv, Types, Waiting, Amounts

LEMMA OpensStep ==
  ASSUME ChannelsInv, NEW c \in Chans, NodeOpens(c)
  PROVE  ChannelsInv'
<1>1. PICK n1, n2 : n1 = Event("created", c) /\ n2 = Change(c, "none", "accept", 0)
  OBVIOUS
<1>2. /\ node[c].st = "none" /\ up' = up \cup {c} /\ node' = [node EXCEPT ![c].st = "accept", ![c].bal = 0]
      /\ inbox' = inbox \o <<n1, n2>> /\ UNCHANGED <<half, map, table, alerts, lost>>
  BY <1>1 DEF NodeOpens, Publish
<1>3. /\ ChanInv(c) /\ NodeInv(c) /\ LifeInv(c) /\ NewsInv(c) /\ ZeroInv(c) /\ RowInv(c) /\ ToldInv(c)
      /\ inbox \in Seq(Message) /\ up \subseteq Chans /\ node[c].st \in States /\ node[c].bal \in {0} \cup Amounts
  BY OldNode
<1>4. /\ c \notin up /\ node[c].bal = 0 /\ Waiting(c) = {} /\ ~Mapped(c) /\ ~Filed(c) /\ alerts[c] = 0
  BY <1>2, <1>3 DEF NodeInv, LifeInv, ZeroInv, ToldInv, Stored
<1>5. /\ n1.ev = "created" /\ n1.c = c /\ n1.bal = 0 /\ n1 \in Message
      /\ n2.ev = "state" /\ n2.c = c /\ n2.bal = 0 /\ n2.st = "accept" /\ n2 \in Message
  BY <1>1, <1>3, <1>4 DEF Event, Change, Message, States, Stored
<1>6. inbox' = Append(Append(inbox, n1), n2)
  BY <1>2, <1>3, <1>5, ConcatTwo
<1>7. Follows(n1, n2)
  BY <1>5 DEF Follows, First, Over, Told, Alert
<1>8. /\ inbox' \in Seq(Message) /\ HalfInv'
      /\ Waiting(c)' = Waiting(c) \cup {n1, n2} /\ Ordered(inbox', c)
      /\ (Mapped(c)' <=> Mapped(c)) /\ (Filed(c)' <=> Filed(c)) /\ (BeingTold(c)' <=> BeingTold(c))
      /\ \A E, m : LastOf(inbox', c, E, m) =>
                        \/ n2.ev \in E /\ m = n2
                        \/ n2.ev \notin E /\ n1.ev \in E /\ m = n1
                        \/ n2.ev \notin E /\ n1.ev \notin E /\ LastOf(inbox, c, E, m)
      /\ \A u \in Chans \ {c} : node'[u] = node[u] /\ ((u \in up') <=> (u \in up)) => ChanInv(u)'
  <2>1. \A m \in Waiting(c) : Follows(m, n1) /\ Follows(m, n2)
    BY <1>4
  <2> QED BY ZenonT(40), <1>2, <1>5, <1>6, <1>7, <2>1, TwoMore
<1>80. Waiting(c)' = {n1, n2} /\ ~Mapped(c)' /\ ~Filed(c)'
  BY <1>4, <1>8
<1>9. /\ node' \in [Chans -> [st : States, bal : {0} \cup Amounts, refund : BOOLEAN]]
      /\ node'[c].st = "accept" /\ node'[c].bal = 0
      /\ \A u \in Chans \ {c} : node'[u] = node[u]
  <2>1. "accept" \in States BY DEF States
  <2> QED BY <1>2, <2>1, NodeTypes
<1>10. \A u \in Chans \ {c} : ChanInv(u)'
  BY <1>2, <1>8, <1>9
<1>11. NodeInv(c)' BY <1>2, <1>9 DEF NodeInv, Stored
<1>12. LifeInv(c)' BY <1>2, <1>5, <1>8, <1>80, <1>9 DEF LifeInv, First
<1>13. NewsInv(c)' BY <1>5, <1>8, <1>80, <1>9 DEF NewsInv, Balance
<1>14. ZeroInv(c)' BY <1>5, <1>8, <1>80, <1>9 DEF ZeroInv
<1>15. RowInv(c)' BY <1>5, <1>8, <1>80, <1>9 DEF RowInv, Over
<1>16. ToldInv(c)' BY <1>2, <1>3, <1>4, <1>5, <1>8, <1>80, <1>9 DEF ToldInv, Told, Alert
<1> QED BY ZenonT(40), <1>2, <1>3, <1>8, <1>9, <1>10, <1>11, <1>12, <1>13, <1>14, <1>15, <1>16, NodeRest

LEMMA FundsStep ==
  ASSUME ChannelsInv, NEW c \in Chans, NodeFunds(c)
  PROVE  ChannelsInv'
<1>1. PICK n : n = Change(c, "accept", "funding", 1)
  OBVIOUS
<1>2. /\ node[c].st = "accept" /\ up' = up /\ node' = [node EXCEPT ![c].st = "funding", ![c].bal = 1]
      /\ inbox' = inbox \o <<n>> /\ UNCHANGED <<half, map, table, alerts, lost>>
  BY <1>1 DEF NodeFunds, Publish
<1>3. /\ ChanInv(c) /\ NodeInv(c) /\ LifeInv(c) /\ NewsInv(c) /\ ZeroInv(c) /\ RowInv(c) /\ ToldInv(c)
      /\ inbox \in Seq(Message) /\ up \subseteq Chans
  BY OldNode
<1>4. /\ c \in up /\ node[c].bal = 0 /\ ~Filed(c) /\ alerts[c] = 0
      /\ Mapped(c) => ~map[c].cap /\ map[c].bal = 0
      /\ \A m \in Waiting(c) : m.ev \in {"created", "state"} /\ m.bal = 0 /\ ~Over(m) /\ ~Told(m)
  BY <1>2, <1>3 DEF NodeInv, LifeInv, ZeroInv, ToldInv, RowInv, Stored
<1>5. n.ev = "state" /\ n.c = c /\ n.bal = 1 /\ n.bal # 0 /\ n.st = "funding" /\ n \in Message
  BY <1>1 DEF Change, Message, States, Stored, Amounts
<1>6. inbox' = Append(inbox, n)
  BY <1>2, <1>3, <1>5, ConcatOne
<1>7. \A m \in Waiting(c) : Follows(m, n)
  BY <1>4, <1>5 DEF Follows, First
<1>8. /\ inbox' \in Seq(Message) /\ HalfInv'
      /\ Waiting(c)' = Waiting(c) \cup {n} /\ Ordered(inbox', c)
      /\ (Mapped(c)' <=> Mapped(c)) /\ ~Filed(c)' /\ (BeingTold(c)' <=> BeingTold(c))
      /\ \A E, m : LastOf(inbox', c, E, m) =>
                        (n.ev \in E /\ m = n) \/ (n.ev \notin E /\ LastOf(inbox, c, E, m))
      /\ \A u \in Chans \ {c} : node'[u] = node[u] /\ ((u \in up') <=> (u \in up)) => ChanInv(u)'
  BY <1>2, <1>4, <1>5, <1>6, <1>7, OneMore
<1>9. /\ node' \in [Chans -> [st : States, bal : {0} \cup Amounts, refund : BOOLEAN]]
      /\ node'[c].st = "funding" /\ node'[c].bal = 1 /\ node'[c].bal # 0
      /\ \A u \in Chans \ {c} : node'[u] = node[u]
  <2>1. "funding" \in States /\ 1 \in {0} \cup Amounts /\ 1 # 0 BY DEF States, Stored, Amounts
  <2> QED BY ZenonT(40), <1>2, <2>1, NodeTypes
<1>10. \A u \in Chans \ {c} : ChanInv(u)'
  BY <1>2, <1>8, <1>9
<1>11. NodeInv(c)' BY <1>2, <1>4, <1>9 DEF NodeInv, Stored
<1>12. LifeInv(c)' BY <1>2, <1>3, <1>4, <1>5, <1>8, <1>9 DEF LifeInv, First
<1>13. NewsInv(c)' BY <1>5, <1>8, <1>9 DEF NewsInv, Balance
<1>14. ZeroInv(c)' BY <1>2, <1>4, <1>5, <1>8, <1>9 DEF ZeroInv
<1>15. RowInv(c)' BY <1>4, <1>5, <1>8, <1>9 DEF RowInv, Over
<1>16. ToldInv(c)' BY <1>2, <1>3, <1>4, <1>5, <1>8, <1>9 DEF ToldInv, Told, Alert
<1> QED BY <1>2, <1>3, <1>8, <1>9, <1>10, <1>11, <1>12, <1>13, <1>14, <1>15, <1>16, NodeRest

LEMMA ConcatPair ==
  ASSUME NEW q \in Seq(Message), NEW n1 \in Message, NEW n2 \in Message
  PROVE  /\ q \o (<<n1>> \o <<n2>>) = Append(Append(q, n1), n2)
         /\ q \o (<<>> \o <<n2>>) = Append(q, n2)
<1>1. <<n1>> \in Seq(Message) /\ <<n2>> \in Seq(Message) /\ <<>> \in Seq(Message)
  OBVIOUS
<1>2. q \o (<<n1>> \o <<n2>>) = (q \o <<n1>>) \o <<n2>>
  BY <1>1, ConcatAssociative
<1>3. q \o <<n1>> = Append(q, n1) /\ Append(q, n1) \in Seq(Message)
  BY ConcatOne, AppendProperties
<1>4. Append(q, n1) \o <<n2>> = Append(Append(q, n1), n2)
  BY <1>3, ConcatOne
<1>5. <<>> \o <<n2>> = <<n2>>
  BY <1>1, ConcatEmptySeq
<1>6. q \o <<n2>> = Append(q, n2)
  BY ConcatOne
<1> QED BY <1>2, <1>3, <1>4, <1>5, <1>6

LEMMA MovesStep ==
  ASSUME ChannelsInv, NEW c \in Chans, NEW st \in Stored, NodeMoves(c, st)
  PROVE  ChannelsInv'
<1>1. PICK n, bal : bal = node[c].bal /\ n = Change(c, node[c].st, st, bal)
  OBVIOUS
<1>2. /\ c \in up /\ node[c].st \in {"funding", "normal", "offline"} /\ st \in {"normal", "offline"}
      /\ up' = up /\ node' = [node EXCEPT ![c].st = st, ![c].bal = bal]
      /\ inbox' = inbox \o <<n>> /\ UNCHANGED <<half, map, table, alerts, lost>>
  BY <1>1 DEF NodeMoves, Publish
<1>3. /\ ChanInv(c) /\ NodeInv(c) /\ LifeInv(c) /\ NewsInv(c) /\ ZeroInv(c) /\ RowInv(c) /\ ToldInv(c)
      /\ inbox \in Seq(Message) /\ up \subseteq Chans /\ node[c].st \in States
      /\ node[c].bal \in {0} \cup Amounts /\ 0 \notin Amounts
  BY OldNode
<1>4. /\ bal = node[c].bal /\ bal \in Amounts /\ bal # 0 /\ alerts[c] = 0 /\ ~BeingTold(c)
      /\ \A m \in Waiting(c) : m.ev # "terminated" /\ ~Over(m) /\ ~Told(m)
  BY <1>1, <1>2, <1>3 DEF NodeInv, LifeInv, ToldInv, RowInv, Stored
<1>5. n.ev = "state" /\ n.c = c /\ n.bal = bal /\ n.st = st /\ n \in Message
  BY <1>1, <1>3, <1>4 DEF Change, Message, States
<1>6. inbox' = Append(inbox, n)
  BY <1>2, <1>3, <1>5, ConcatOne
<1>7. \A m \in Waiting(c) : Follows(m, n)
  BY <1>2, <1>4, <1>5 DEF Follows, First, Told, Alert
<1>8. /\ inbox' \in Seq(Message) /\ HalfInv'
      /\ Waiting(c)' = Waiting(c) \cup {n} /\ Ordered(inbox', c)
      /\ (Mapped(c)' <=> Mapped(c)) /\ (Filed(c)' <=> Filed(c)) /\ (BeingTold(c)' <=> BeingTold(c))
      /\ \A E, m : LastOf(inbox', c, E, m) =>
                        (n.ev \in E /\ m = n) \/ (n.ev \notin E /\ LastOf(inbox, c, E, m))
      /\ \A u \in Chans \ {c} : node'[u] = node[u] /\ ((u \in up') <=> (u \in up)) => ChanInv(u)'
  BY <1>2, <1>5, <1>6, <1>7, OneMore
<1>9. /\ node' \in [Chans -> [st : States, bal : {0} \cup Amounts, refund : BOOLEAN]]
      /\ node'[c].st = st /\ node'[c].bal = bal
      /\ \A u \in Chans \ {c} : node'[u] = node[u]
  BY <1>2, <1>4 DEF ChannelsInv, Types, States
<1>10. \A u \in Chans \ {c} : ChanInv(u)'
  BY <1>2, <1>8, <1>9
<1>11. NodeInv(c)' BY <1>2, <1>3, <1>4, <1>9 DEF NodeInv, Stored
<1>12. LifeInv(c)' BY <1>2, <1>3, <1>4, <1>5, <1>8, <1>9 DEF LifeInv, First
<1>13. NewsInv(c)'
  <2>1. \A m : LastOf(inbox', c, {"state"}, m) => m = n
    BY <1>5, <1>8
  <2>2. \A m : LastOf(inbox', c, Balance, m) => m = n
    BY <1>5, <1>8 DEF Balance
  <2> QED BY <1>2, <1>3, <1>4, <1>5, <1>8, <1>9, <2>1, <2>2 DEF NewsInv, Balance
<1>14. ZeroInv(c)' BY <1>2, <1>3, <1>4, <1>5, <1>8, <1>9 DEF ZeroInv
<1>15. RowInv(c)' BY <1>2, <1>3, <1>4, <1>5, <1>8, <1>9 DEF RowInv, Over
<1>16. ToldInv(c)' BY <1>2, <1>3, <1>4, <1>5, <1>8, <1>9 DEF ToldInv, Told, Alert
<1> QED BY <1>2, <1>3, <1>8, <1>9, <1>10, <1>11, <1>12, <1>13, <1>14, <1>15, <1>16, NodeRest

LEMMA PaysStep ==
  ASSUME ChannelsInv, NEW c \in Chans, NEW bal \in Amounts, NodePays(c, bal)
  PROVE  ChannelsInv'
<1>1. PICK n : n = [Event("signature", c) EXCEPT !.bal = bal]
  OBVIOUS
<1>2. /\ c \in up /\ node[c].st = "normal"
      /\ up' = up /\ node' = [node EXCEPT ![c].st = "normal", ![c].bal = bal]
      /\ inbox' = inbox \o <<n>> /\ UNCHANGED <<half, map, table, alerts, lost>>
  BY <1>1 DEF NodePays, Publish
<1>3. /\ ChanInv(c) /\ NodeInv(c) /\ LifeInv(c) /\ NewsInv(c) /\ ZeroInv(c) /\ RowInv(c) /\ ToldInv(c)
      /\ inbox \in Seq(Message) /\ up \subseteq Chans /\ node[c].st \in States
      /\ node[c].bal \in {0} \cup Amounts /\ 0 \notin Amounts
  BY OldNode
<1>4. /\ bal # 0 /\ node[c].bal # 0 /\ alerts[c] = 0 /\ ~BeingTold(c)
      /\ \A m \in Waiting(c) : m.ev # "terminated" /\ ~Over(m) /\ ~Told(m)
  BY <1>1, <1>2, <1>3 DEF NodeInv, LifeInv, ToldInv, RowInv, Stored
<1>5. n.ev = "signature" /\ n.c = c /\ n.bal = bal /\ n \in Message
  BY <1>1, <1>3, <1>4 DEF Event, Message, States
<1>6. inbox' = Append(inbox, n)
  BY <1>2, <1>3, <1>5, ConcatOne
<1>7. \A m \in Waiting(c) : Follows(m, n)
  BY <1>2, <1>4, <1>5 DEF Follows, First, Told, Alert
<1>8. /\ inbox' \in Seq(Message) /\ HalfInv'
      /\ Waiting(c)' = Waiting(c) \cup {n} /\ Ordered(inbox', c)
      /\ (Mapped(c)' <=> Mapped(c)) /\ (Filed(c)' <=> Filed(c)) /\ (BeingTold(c)' <=> BeingTold(c))
      /\ \A E, m : LastOf(inbox', c, E, m) =>
                        (n.ev \in E /\ m = n) \/ (n.ev \notin E /\ LastOf(inbox, c, E, m))
      /\ \A u \in Chans \ {c} : node'[u] = node[u] /\ ((u \in up') <=> (u \in up)) => ChanInv(u)'
  BY <1>2, <1>5, <1>6, <1>7, OneMore
<1>9. /\ node' \in [Chans -> [st : States, bal : {0} \cup Amounts, refund : BOOLEAN]]
      /\ node'[c].st = "normal" /\ node'[c].bal = bal
      /\ \A u \in Chans \ {c} : node'[u] = node[u]
  BY <1>2, <1>4 DEF ChannelsInv, Types, States, Stored
<1>10. \A u \in Chans \ {c} : ChanInv(u)'
  BY <1>2, <1>8, <1>9
<1>11. NodeInv(c)' BY <1>2, <1>3, <1>4, <1>9 DEF NodeInv, Stored
<1>12. LifeInv(c)' BY <1>2, <1>3, <1>4, <1>5, <1>8, <1>9 DEF LifeInv, First
<1>13. NewsInv(c)'
  <2>1. \A m : LastOf(inbox', c, {"state"}, m) => m \in Waiting(c) /\ LastOf(inbox, c, {"state"}, m)
    BY <1>5, <1>8, LastWaits DEF Waiting
  <2>2. \A m : LastOf(inbox', c, Balance, m) => m = n
    BY <1>5, <1>8 DEF Balance
  <2> QED BY <1>2, <1>3, <1>4, <1>5, <1>8, <1>9, <2>1, <2>2 DEF NewsInv, Balance
<1>14. ZeroInv(c)' BY <1>2, <1>3, <1>4, <1>5, <1>8, <1>9 DEF ZeroInv
<1>15. RowInv(c)' BY <1>2, <1>3, <1>4, <1>5, <1>8, <1>9 DEF RowInv, Over
<1>16. ToldInv(c)' BY <1>2, <1>3, <1>4, <1>5, <1>8, <1>9 DEF ToldInv, Told, Alert
<1> QED BY <1>2, <1>3, <1>8, <1>9, <1>10, <1>11, <1>12, <1>13, <1>14, <1>15, <1>16, NodeRest

LEMMA ClosesStep ==
  ASSUME ChannelsInv, NEW c \in Chans, NodeCloses(c, FALSE)
  PROVE  ChannelsInv'
<1>1. PICK n, bal : bal = node[c].bal /\ n = Change(c, node[c].st, "closing", bal)
  OBVIOUS
<1>2. /\ c \in up /\ node[c].st \in {"funding", "normal", "offline"}
      /\ up' = up /\ node' = [node EXCEPT ![c].st = "closing", ![c].bal = bal]
      /\ inbox' = inbox \o (<<>> \o <<n>>) /\ UNCHANGED <<half, map, table, alerts, lost>>
  BY <1>1 DEF NodeCloses, Publish
<1>3. /\ ChanInv(c) /\ NodeInv(c) /\ LifeInv(c) /\ NewsInv(c) /\ ZeroInv(c) /\ RowInv(c) /\ ToldInv(c)
      /\ inbox \in Seq(Message) /\ up \subseteq Chans /\ node[c].st \in States
      /\ node[c].bal \in {0} \cup Amounts /\ 0 \notin Amounts
  BY OldNode
<1>4. /\ bal = node[c].bal /\ bal \in Amounts /\ bal # 0 /\ alerts[c] = 0 /\ ~BeingTold(c)
      /\ \A m \in Waiting(c) : m.ev # "terminated" /\ ~Over(m) /\ ~Told(m)
  BY <1>1, <1>2, <1>3 DEF NodeInv, LifeInv, ToldInv, RowInv, Stored
<1>5. /\ n.ev = "state" /\ n.c = c /\ n.bal = bal /\ n.st = "closing" /\ n \in Message
      /\ n.prev # "init"
  BY <1>1, <1>2, <1>3, <1>4 DEF Event, Change, Message, States, Stored
<1>6. inbox' = Append(inbox, n)
  BY <1>2, <1>3, <1>5, ConcatPair
<1>7. \A m \in Waiting(c) : Follows(m, n)
  BY <1>2, <1>4, <1>5 DEF Follows, First
<1>8. /\ inbox' \in Seq(Message) /\ HalfInv'
      /\ Waiting(c)' = Waiting(c) \cup {n} /\ Ordered(inbox', c)
      /\ (Mapped(c)' <=> Mapped(c)) /\ (Filed(c)' <=> Filed(c)) /\ (BeingTold(c)' <=> BeingTold(c))
      /\ \A E, m : LastOf(inbox', c, E, m) =>
                        (n.ev \in E /\ m = n) \/ (n.ev \notin E /\ LastOf(inbox, c, E, m))
      /\ \A u \in Chans \ {c} : node'[u] = node[u] /\ ((u \in up') <=> (u \in up)) => ChanInv(u)'
  BY <1>2, <1>5, <1>6, <1>7, OneMore
<1>9. /\ node' \in [Chans -> [st : States, bal : {0} \cup Amounts, refund : BOOLEAN]]
      /\ node'[c].st = "closing" /\ node'[c].bal = bal
      /\ \A u \in Chans \ {c} : node'[u] = node[u]
  <2>1. "closing" \in States /\ bal \in {0} \cup Amounts BY <1>4 DEF States, Stored
  <2> QED BY <1>2, <2>1, NodeTypes
<1>10. \A u \in Chans \ {c} : ChanInv(u)'
  BY <1>2, <1>8, <1>9
<1>11. NodeInv(c)' BY <1>2, <1>3, <1>4, <1>9 DEF NodeInv, Stored
<1>12. LifeInv(c)' BY <1>2, <1>3, <1>4, <1>5, <1>8, <1>9 DEF LifeInv, First
<1>13. NewsInv(c)'
  <2>1. \A m : LastOf(inbox', c, {"state"}, m) => m = n
    BY <1>5, <1>8
  <2>2. \A m : LastOf(inbox', c, Balance, m) => m = n
    BY <1>5, <1>8 DEF Balance
  <2> QED BY <1>2, <1>3, <1>4, <1>5, <1>8, <1>9, <2>1, <2>2 DEF NewsInv, Balance
<1>14. ZeroInv(c)' BY <1>2, <1>3, <1>4, <1>5, <1>8, <1>9 DEF ZeroInv
<1>15. RowInv(c)' BY <1>2, <1>3, <1>4, <1>5, <1>8, <1>9 DEF RowInv, Over
<1>16. ToldInv(c)' BY <1>2, <1>3, <1>4, <1>5, <1>8, <1>9 DEF ToldInv, Told, Alert
<1> QED BY <1>2, <1>3, <1>8, <1>9, <1>10, <1>11, <1>12, <1>13, <1>14, <1>15, <1>16, NodeRest

LEMMA FailsStep ==
  ASSUME ChannelsInv, NEW c \in Chans, NodeCloses(c, TRUE)
  PROVE  ChannelsInv'
<1>1. PICK n1, n2, bal : /\ bal = node[c].bal /\ n1 = Event("error", c)
                        /\ n2 = Change(c, node[c].st, "closing", bal)
  OBVIOUS
<1>2. /\ c \in up /\ node[c].st \in {"funding", "normal", "offline"}
      /\ up' = up /\ node' = [node EXCEPT ![c].st = "closing", ![c].bal = bal]
      /\ inbox' = inbox \o (<<n1>> \o <<n2>>) /\ UNCHANGED <<half, map, table, alerts, lost>>
  BY <1>1 DEF NodeCloses, Publish
<1>3. /\ ChanInv(c) /\ NodeInv(c) /\ LifeInv(c) /\ NewsInv(c) /\ ZeroInv(c) /\ RowInv(c) /\ ToldInv(c)
      /\ inbox \in Seq(Message) /\ up \subseteq Chans /\ node[c].st \in States
      /\ node[c].bal \in {0} \cup Amounts /\ 0 \notin Amounts
  BY OldNode
<1>4. /\ bal = node[c].bal /\ bal \in Amounts /\ bal # 0 /\ alerts[c] = 0 /\ ~BeingTold(c)
      /\ \A m \in Waiting(c) : m.ev # "terminated" /\ ~Over(m) /\ ~Told(m)
  BY <1>1, <1>2, <1>3 DEF NodeInv, LifeInv, ToldInv, RowInv, Stored
<1>5. /\ n2.ev = "state" /\ n2.c = c /\ n2.bal = bal /\ n2.st = "closing" /\ n2 \in Message
      /\ n2.prev # "init"
      /\ n1.ev = "error" /\ n1.c = c /\ n1 \in Message
  BY <1>1, <1>2, <1>3, <1>4 DEF Event, Change, Message, States, Stored
<1>6. inbox' = Append(Append(inbox, n1), n2)
  BY <1>2, <1>3, <1>5, ConcatPair
<1>7. Follows(n1, n2) /\ \A m \in Waiting(c) : Follows(m, n1) /\ Follows(m, n2)
  BY <1>2, <1>4, <1>5 DEF Follows, First, Told, Over
<1>8. /\ inbox' \in Seq(Message) /\ HalfInv'
      /\ Waiting(c)' = Waiting(c) \cup {n1, n2} /\ Ordered(inbox', c)
      /\ (Mapped(c)' <=> Mapped(c)) /\ (Filed(c)' <=> Filed(c)) /\ (BeingTold(c)' <=> BeingTold(c))
      /\ \A E, m : LastOf(inbox', c, E, m) =>
                        \/ n2.ev \in E /\ m = n2
                        \/ n2.ev \notin E /\ n1.ev \in E /\ m = n1
                        \/ n2.ev \notin E /\ n1.ev \notin E /\ LastOf(inbox, c, E, m)
      /\ \A u \in Chans \ {c} : node'[u] = node[u] /\ ((u \in up') <=> (u \in up)) => ChanInv(u)'
  BY <1>2, <1>5, <1>6, <1>7, TwoMore
<1>9. /\ node' \in [Chans -> [st : States, bal : {0} \cup Amounts, refund : BOOLEAN]]
      /\ node'[c].st = "closing" /\ node'[c].bal = bal
      /\ \A u \in Chans \ {c} : node'[u] = node[u]
  <2>1. "closing" \in States /\ bal \in {0} \cup Amounts BY <1>4 DEF States, Stored
  <2> QED BY <1>2, <2>1, NodeTypes
<1>10. \A u \in Chans \ {c} : ChanInv(u)'
  BY <1>2, <1>8, <1>9
<1>11. NodeInv(c)' BY <1>2, <1>3, <1>4, <1>9 DEF NodeInv, Stored
<1>12. LifeInv(c)' BY <1>2, <1>3, <1>4, <1>5, <1>8, <1>9 DEF LifeInv, First
<1>13. NewsInv(c)'
  <2>1. \A m : LastOf(inbox', c, {"state"}, m) => m = n2
    BY <1>5, <1>8
  <2>2. \A m : LastOf(inbox', c, Balance, m) => m = n2
    BY <1>5, <1>8 DEF Balance
  <2> QED BY <1>2, <1>3, <1>4, <1>5, <1>8, <1>9, <2>1, <2>2 DEF NewsInv, Balance
<1>14. ZeroInv(c)' BY <1>2, <1>3, <1>4, <1>5, <1>8, <1>9 DEF ZeroInv
<1>15. RowInv(c)' BY <1>2, <1>3, <1>4, <1>5, <1>8, <1>9 DEF RowInv, Over
<1>16. ToldInv(c)' BY <1>2, <1>3, <1>4, <1>5, <1>8, <1>9 DEF ToldInv, Told, Alert
<1> QED BY <1>2, <1>3, <1>8, <1>9, <1>10, <1>11, <1>12, <1>13, <1>14, <1>15, <1>16, NodeRest

LEMMA ConfirmsStep ==
  ASSUME ChannelsInv, NEW c \in Chans, NodeConfirms(c)
  PROVE  ChannelsInv'
<1>1. PICK n : n = Event("refund", c)
  OBVIOUS
<1>2. /\ c \in up /\ node[c].st = "closing" /\ up' = up /\ node' = [node EXCEPT ![c].refund = TRUE]
      /\ inbox' = Append(inbox, n) /\ UNCHANGED <<half, map, table, alerts, lost>>
  BY <1>1 DEF NodeConfirms
<1>3. /\ ChanInv(c) /\ NodeInv(c) /\ LifeInv(c) /\ NewsInv(c) /\ ZeroInv(c) /\ RowInv(c) /\ ToldInv(c)
      /\ inbox \in Seq(Message) /\ up \subseteq Chans /\ node[c].st \in States
      /\ node[c].bal \in {0} \cup Amounts /\ 0 \notin Amounts
  BY OldNode
<1>4. /\ node[c].bal # 0
      /\ \A m \in Waiting(c) : m.ev # "terminated" /\ ~Over(m)
  BY <1>1, <1>2, <1>3 DEF NodeInv, LifeInv, RowInv, Stored
<1>5. n.ev = "refund" /\ n.c = c /\ n \in Message
  BY <1>1, <1>3, <1>4 DEF Event, Message, States
<1>6. inbox' = Append(inbox, n)
  BY <1>2
<1>7. \A m \in Waiting(c) : Follows(m, n)
  BY <1>2, <1>4, <1>5 DEF Follows, First, Told
<1>8. /\ inbox' \in Seq(Message) /\ HalfInv'
      /\ Waiting(c)' = Waiting(c) \cup {n} /\ Ordered(inbox', c)
      /\ (Mapped(c)' <=> Mapped(c)) /\ (Filed(c)' <=> Filed(c)) /\ (BeingTold(c)' <=> BeingTold(c))
      /\ \A E, m : LastOf(inbox', c, E, m) =>
                        (n.ev \in E /\ m = n) \/ (n.ev \notin E /\ LastOf(inbox, c, E, m))
      /\ \A u \in Chans \ {c} : node'[u] = node[u] /\ ((u \in up') <=> (u \in up)) => ChanInv(u)'
  BY <1>2, <1>5, <1>6, <1>7, OneMore
<1>9. /\ node' \in [Chans -> [st : States, bal : {0} \cup Amounts, refund : BOOLEAN]]
      /\ node'[c].st = node[c].st /\ node'[c].bal = node[c].bal
      /\ \A u \in Chans \ {c} : node'[u] = node[u]
  BY <1>2 DEF ChannelsInv, Types
<1>10. \A u \in Chans \ {c} : ChanInv(u)'
  BY <1>2, <1>8, <1>9
<1>11. NodeInv(c)' BY <1>2, <1>3, <1>4, <1>9 DEF NodeInv, Stored
<1>12. LifeInv(c)' BY <1>2, <1>3, <1>4, <1>5, <1>8, <1>9 DEF LifeInv, First
<1>13. NewsInv(c)'
  <2>1. \A m : LastOf(inbox', c, {"state"}, m) => m \in Waiting(c) /\ LastOf(inbox, c, {"state"}, m)
    BY <1>5, <1>8, LastWaits DEF Waiting
  <2>2. \A m : LastOf(inbox', c, Balance, m) => m \in Waiting(c) /\ LastOf(inbox, c, Balance, m)
    BY <1>5, <1>8, LastWaits DEF Balance, Waiting
  <2> QED BY <1>2, <1>3, <1>4, <1>5, <1>8, <1>9, <2>1, <2>2 DEF NewsInv, Balance
<1>14. ZeroInv(c)' BY <1>2, <1>3, <1>4, <1>5, <1>8, <1>9 DEF ZeroInv
<1>15. RowInv(c)' BY <1>2, <1>3, <1>4, <1>5, <1>8, <1>9 DEF RowInv, Over
<1>16. ToldInv(c)' BY <1>2, <1>3, <1>4, <1>5, <1>8, <1>9 DEF ToldInv, Told, Alert
<1> QED BY <1>2, <1>3, <1>8, <1>9, <1>10, <1>11, <1>12, <1>13, <1>14, <1>15, <1>16, NodeRest

LEMMA AbandonsStep ==
  ASSUME ChannelsInv, NEW c \in Chans, NodeEnds(c), node[c].st = "accept"
  PROVE  ChannelsInv'
<1>1. PICK n, bal : n = Event("terminated", c) /\ bal = node[c].bal
  OBVIOUS
<1>2. /\ c \in up /\ node[c].st = "accept" /\ up' = up \ {c}
      /\ node' = [node EXCEPT ![c].st = "closed", ![c].bal = bal]
      /\ inbox' = inbox \o (<<>> \o <<n>>) /\ UNCHANGED <<half, map, table, alerts, lost>>
  BY <1>1 DEF NodeEnds, Publish
<1>3. /\ ChanInv(c) /\ NodeInv(c) /\ LifeInv(c) /\ NewsInv(c) /\ ZeroInv(c) /\ RowInv(c) /\ ToldInv(c)
      /\ inbox \in Seq(Message) /\ up \subseteq Chans /\ node[c].st \in States
      /\ node[c].bal \in {0} \cup Amounts /\ 0 \notin Amounts
  BY OldNode
<1>4. /\ bal = 0 /\ node[c].bal = 0 /\ ~Filed(c) /\ alerts[c] = 0 /\ ~BeingTold(c)
      /\ \A m \in Waiting(c) : m.ev # "terminated" /\ ~Over(m) /\ ~Told(m)
  BY <1>1, <1>2, <1>3 DEF NodeInv, LifeInv, ToldInv, RowInv, ZeroInv, Stored
<1>5. n.ev = "terminated" /\ n.c = c /\ n.bal = 0 /\ n \in Message
  BY <1>1, <1>3, <1>4 DEF Event, Message, States
<1>6. inbox' = Append(inbox, n)
  BY <1>2, <1>3, <1>5, ConcatPair
<1>7. \A m \in Waiting(c) : Follows(m, n)
  BY <1>2, <1>4, <1>5 DEF Follows, First, Told
<1>8. /\ inbox' \in Seq(Message) /\ HalfInv'
      /\ Waiting(c)' = Waiting(c) \cup {n} /\ Ordered(inbox', c)
      /\ (Mapped(c)' <=> Mapped(c)) /\ (Filed(c)' <=> Filed(c)) /\ (BeingTold(c)' <=> BeingTold(c))
      /\ \A E, m : LastOf(inbox', c, E, m) =>
                        (n.ev \in E /\ m = n) \/ (n.ev \notin E /\ LastOf(inbox, c, E, m))
      /\ \A u \in Chans \ {c} : node'[u] = node[u] /\ ((u \in up') <=> (u \in up)) => ChanInv(u)'
  BY <1>2, <1>5, <1>6, <1>7, OneMore
<1>9. /\ node' \in [Chans -> [st : States, bal : {0} \cup Amounts, refund : BOOLEAN]]
      /\ node'[c].st = "closed" /\ node'[c].bal = bal
      /\ \A u \in Chans \ {c} : node'[u] = node[u]
  <2>1. "closed" \in States /\ bal \in {0} \cup Amounts BY <1>4 DEF States
  <2> QED BY <1>2, <2>1, NodeTypes
<1>10. \A u \in Chans \ {c} : ChanInv(u)'
  BY <1>2, <1>8, <1>9
<1>11. NodeInv(c)' BY <1>2, <1>3, <1>4, <1>9 DEF NodeInv, Stored
<1>12. LifeInv(c)' BY <1>2, <1>3, <1>4, <1>5, <1>8, <1>9 DEF LifeInv, First
<1>13. NewsInv(c)'
  <2>1. \A m : LastOf(inbox', c, {"state"}, m) => m \in Waiting(c) /\ LastOf(inbox, c, {"state"}, m)
    BY <1>5, <1>8, LastWaits DEF Waiting
  <2>2. \A m : LastOf(inbox', c, Balance, m) => m \in Waiting(c) /\ LastOf(inbox, c, Balance, m)
    BY <1>5, <1>8, LastWaits DEF Balance, Waiting
  <2> QED BY <1>2, <1>3, <1>4, <1>5, <1>8, <1>9, <2>1, <2>2 DEF NewsInv, Balance
<1>14. ZeroInv(c)' BY <1>2, <1>3, <1>4, <1>5, <1>8, <1>9 DEF ZeroInv
<1>15. RowInv(c)' BY <1>2, <1>3, <1>4, <1>5, <1>8, <1>9 DEF RowInv, Over
<1>16. ToldInv(c)' BY <1>2, <1>3, <1>4, <1>5, <1>8, <1>9 DEF ToldInv, Told, Alert
<1> QED BY <1>2, <1>3, <1>8, <1>9, <1>10, <1>11, <1>12, <1>13, <1>14, <1>15, <1>16, NodeRest

LEMMA EndsStep ==
  ASSUME ChannelsInv, NEW c \in Chans, NodeEnds(c), node[c].st = "closing"
  PROVE  ChannelsInv'
<1>1. PICK n1, n2, bal : /\ bal = node[c].bal /\ n1 = Change(c, "closing", "closed", bal)
                        /\ n2 = Event("terminated", c)
  OBVIOUS
<1>2. /\ c \in up /\ node[c].st = "closing" /\ up' = up \ {c}
      /\ node' = [node EXCEPT ![c].st = "closed", ![c].bal = bal]
      /\ inbox' = inbox \o (<<n1>> \o <<n2>>) /\ UNCHANGED <<half, map, table, alerts, lost>>
  BY <1>1 DEF NodeEnds, Publish
<1>3. /\ ChanInv(c) /\ NodeInv(c) /\ LifeInv(c) /\ NewsInv(c) /\ ZeroInv(c) /\ RowInv(c) /\ ToldInv(c)
      /\ inbox \in Seq(Message) /\ up \subseteq Chans /\ node[c].st \in States
      /\ node[c].bal \in {0} \cup Amounts /\ 0 \notin Amounts
  BY OldNode
<1>4. /\ bal = node[c].bal /\ bal \in Amounts /\ bal # 0
      /\ \A m \in Waiting(c) : m.ev # "terminated" /\ ~Over(m)
  BY <1>1, <1>2, <1>3 DEF NodeInv, LifeInv, RowInv, Stored
<1>5. /\ n1.ev = "state" /\ n1.c = c /\ n1.bal = bal /\ n1.st = "closed" /\ n1 \in Message
      /\ n2.ev = "terminated" /\ n2.c = c /\ n2 \in Message
  BY <1>1, <1>3, <1>4 DEF Event, Change, Message, States, Stored
<1>6. inbox' = Append(Append(inbox, n1), n2)
  BY <1>2, <1>3, <1>5, ConcatPair
<1>7. Follows(n1, n2) /\ \A m \in Waiting(c) : Follows(m, n1) /\ Follows(m, n2)
  BY <1>2, <1>4, <1>5 DEF Follows, First, Told, Over, Alert
<1>8. /\ inbox' \in Seq(Message) /\ HalfInv'
      /\ Waiting(c)' = Waiting(c) \cup {n1, n2} /\ Ordered(inbox', c)
      /\ (Mapped(c)' <=> Mapped(c)) /\ (Filed(c)' <=> Filed(c)) /\ (BeingTold(c)' <=> BeingTold(c))
      /\ \A E, m : LastOf(inbox', c, E, m) =>
                        \/ n2.ev \in E /\ m = n2
                        \/ n2.ev \notin E /\ n1.ev \in E /\ m = n1
                        \/ n2.ev \notin E /\ n1.ev \notin E /\ LastOf(inbox, c, E, m)
      /\ \A u \in Chans \ {c} : node'[u] = node[u] /\ ((u \in up') <=> (u \in up)) => ChanInv(u)'
  BY <1>2, <1>5, <1>6, <1>7, TwoMore
<1>9. /\ node' \in [Chans -> [st : States, bal : {0} \cup Amounts, refund : BOOLEAN]]
      /\ node'[c].st = "closed" /\ node'[c].bal = bal
      /\ \A u \in Chans \ {c} : node'[u] = node[u]
  <2>1. "closed" \in States /\ bal \in {0} \cup Amounts BY <1>4 DEF States
  <2> QED BY <1>2, <2>1, NodeTypes
<1>10. \A u \in Chans \ {c} : ChanInv(u)'
  BY <1>2, <1>8, <1>9
<1>11. NodeInv(c)' BY <1>2, <1>3, <1>4, <1>9 DEF NodeInv, Stored
<1>12. LifeInv(c)' BY <1>2, <1>3, <1>4, <1>5, <1>8, <1>9 DEF LifeInv, First
<1>13. NewsInv(c)'
  <2>1. \A m : LastOf(inbox', c, {"state"}, m) => m = n1
    BY <1>5, <1>8
  <2>2. \A m : LastOf(inbox', c, Balance, m) => m = n1
    BY <1>5, <1>8 DEF Balance
  <2> QED BY <1>2, <1>3, <1>4, <1>5, <1>8, <1>9, <2>1, <2>2 DEF NewsInv, Balance
<1>14. ZeroInv(c)' BY <1>2, <1>3, <1>4, <1>5, <1>8, <1>9 DEF ZeroInv
<1>15. RowInv(c)' BY <1>2, <1>3, <1>4, <1>5, <1>8, <1>9 DEF RowInv, Over
<1>16. ToldInv(c)' BY <1>2, <1>3, <1>4, <1>5, <1>8, <1>9 DEF ToldInv, Told, Alert
<1> QED BY <1>2, <1>3, <1>8, <1>9, <1>10, <1>11, <1>12, <1>13, <1>14, <1>15, <1>16, NodeRest

LEMMA RestoresStep ==
  ASSUME ChannelsInv, NEW c \in Chans, NodeRestores(c)
  PROVE  ChannelsInv'
<1>1. PICK n1, n2, st, bal :
        /\ bal = node[c].bal /\ st = IF node[c].st = "closing" THEN "closing" ELSE "offline"
        /\ n1 = Event("restored", c) /\ n2 = Change(c, "init", st, bal)
  OBVIOUS
<1>2. /\ c \notin up /\ node[c].st \in Stored /\ up' = up \cup {c}
      /\ node' = [node EXCEPT ![c].st = st]
      /\ inbox' = inbox \o <<n1, n2>> /\ UNCHANGED <<half, map, table, alerts, lost>>
  BY <1>1 DEF NodeRestores
<1>3. /\ ChanInv(c) /\ NodeInv(c) /\ LifeInv(c) /\ NewsInv(c) /\ ZeroInv(c) /\ RowInv(c) /\ ToldInv(c)
      /\ inbox \in Seq(Message) /\ up \subseteq Chans /\ node[c].st \in States
      /\ node[c].bal \in {0} \cup Amounts /\ 0 \notin Amounts
  BY OldNode
<1>4. /\ bal = node[c].bal /\ bal \in Amounts /\ bal # 0 /\ Waiting(c) = {} /\ ~Mapped(c)
      /\ st \in {"closing", "offline"} /\ (st = "closing" <=> node[c].st = "closing")
  BY <1>1, <1>2, <1>3 DEF NodeInv, LifeInv, Stored
<1>5. /\ n1.ev = "restored" /\ n1.c = c /\ n1.bal = bal /\ n1 \in Message
      /\ n2.ev = "state" /\ n2.c = c /\ n2.bal = bal /\ n2.st = st /\ n2.prev = "init" /\ n2 \in Message
  BY <1>1, <1>3, <1>4 DEF Event, Change, Message, States, Stored
<1>6. inbox' = Append(Append(inbox, n1), n2)
  BY <1>2, <1>3, <1>5, ConcatTwo
<1>7. Follows(n1, n2) /\ \A m \in Waiting(c) : Follows(m, n1) /\ Follows(m, n2)
  BY <1>2, <1>4, <1>5 DEF Follows, First, Told, Over, Alert
<1>8. /\ inbox' \in Seq(Message) /\ HalfInv'
      /\ Waiting(c)' = Waiting(c) \cup {n1, n2} /\ Ordered(inbox', c)
      /\ (Mapped(c)' <=> Mapped(c)) /\ (Filed(c)' <=> Filed(c)) /\ (BeingTold(c)' <=> BeingTold(c))
      /\ \A E, m : LastOf(inbox', c, E, m) =>
                        \/ n2.ev \in E /\ m = n2
                        \/ n2.ev \notin E /\ n1.ev \in E /\ m = n1
                        \/ n2.ev \notin E /\ n1.ev \notin E /\ LastOf(inbox, c, E, m)
      /\ \A u \in Chans \ {c} : node'[u] = node[u] /\ ((u \in up') <=> (u \in up)) => ChanInv(u)'
  BY <1>2, <1>5, <1>6, <1>7, TwoMore
<1>9. /\ node' \in [Chans -> [st : States, bal : {0} \cup Amounts, refund : BOOLEAN]]
      /\ node'[c].st = st /\ node'[c].bal = bal
      /\ \A u \in Chans \ {c} : node'[u] = node[u]
  BY <1>2, <1>4 DEF ChannelsInv, Types, States, Stored
<1>10. \A u \in Chans \ {c} : ChanInv(u)'
  BY <1>2, <1>8, <1>9
<1>11. NodeInv(c)' BY <1>2, <1>3, <1>4, <1>9 DEF NodeInv, Stored
<1>12. LifeInv(c)' BY <1>2, <1>3, <1>4, <1>5, <1>8, <1>9 DEF LifeInv, First
<1>13. NewsInv(c)'
  <2>1. \A m : LastOf(inbox', c, {"state"}, m) => m = n2
    BY <1>5, <1>8
  <2>2. \A m : LastOf(inbox', c, Balance, m) => m = n2
    BY <1>5, <1>8 DEF Balance
  <2> QED BY <1>2, <1>3, <1>4, <1>5, <1>8, <1>9, <2>1, <2>2 DEF NewsInv, Balance
<1>14. ZeroInv(c)' BY <1>2, <1>3, <1>4, <1>5, <1>8, <1>9 DEF ZeroInv
<1>15. RowInv(c)' BY <1>2, <1>3, <1>4, <1>5, <1>8, <1>9 DEF RowInv, Over, Stored
<1>16. ToldInv(c)' BY <1>2, <1>3, <1>4, <1>5, <1>8, <1>9 DEF ToldInv, Told, Alert, Stored
<1> QED BY ZenonT(40), <1>2, <1>3, <1>8, <1>9, <1>10, <1>11, <1>12, <1>13, <1>14, <1>15, <1>16, NodeRest

(***************************************************************************)
(* The steps of NodeSupervisor: it takes the first message.                *)
(***************************************************************************)
LEMMA FirstTaken ==
  ASSUME ChannelsInv, inbox # <<>>, inbox' = Tail(inbox), ~half', NEW h, h = Head(inbox), NEW c, c = h.c
  PROVE  /\ inbox' \in Seq(Message) /\ HalfInv' /\ Ordered(inbox', c)
         /\ Waiting(c) = Waiting(c)' \cup {h}
         /\ \A m \in Waiting(c)' : Follows(h, m)
         /\ \A E, m : LastOf(inbox', c, E, m) => LastOf(inbox, c, E, m)
         /\ \A E : h.ev \in E /\ (\A m \in Waiting(c)' : m.ev \notin E) => LastOf(inbox, c, E, h)
         /\ ~BeingTold(c)'
         /\ \A u \in Chans \ {c} :
              /\ node'[u] = node[u] /\ ((u \in up') <=> (u \in up)) /\ alerts'[u] = alerts[u]
              /\ (u \in lost => u \in lost')
              /\ (Mapped(u)' <=> Mapped(u)) /\ (Mapped(u) => map'[u] = map[u])
              /\ (Filed(u)' <=> Filed(u)) /\ (Filed(u) => table'[u] = table[u])
              => ChanInv(u)'
<1>1. inbox \in Seq(Message) /\ h \in Message /\ c \in Chans
  <2>1. inbox \in Seq(Message) BY DEF ChannelsInv, Types
  <2>2. h \in Message BY <2>1
  <2> QED BY <2>1, <2>2 DEF Message
<1>2. /\ inbox' \in Seq(Message) /\ Ordered(inbox', c) /\ Waiting(c) = Waiting(c)' \cup {h}
      /\ \A E, m : LastOf(inbox', c, E, m) => LastOf(inbox, c, E, m)
  BY <1>1, TailQueue DEF Waiting, ChannelsInv, ChanInv
<1>3. /\ \A m \in Waiting(c)' : Follows(h, m)
      /\ \A E : h.ev \in E /\ (\A m \in Waiting(c)' : m.ev \notin E) => LastOf(inbox, c, E, h)
  BY <1>1, HeadQueue DEF Waiting, ChannelsInv, ChanInv
<1>4. HalfInv' BY DEF HalfInv
<1>5. \A u : ~BeingTold(u)' BY DEF BeingTold
<1>6. ASSUME NEW u \in Chans \ {c},
             node'[u] = node[u], (u \in up') <=> (u \in up), alerts'[u] = alerts[u],
             u \in lost => u \in lost',
             Mapped(u)' <=> Mapped(u), Mapped(u) => map'[u] = map[u],
             Filed(u)' <=> Filed(u), Filed(u) => table'[u] = table[u]
      PROVE  ChanInv(u)'
  <2>1. /\ Waiting(u)' = Waiting(u) /\ (Ordered(inbox, u) => Ordered(inbox', u))
        /\ \A E, m : LastOf(inbox', u, E, m) => LastOf(inbox, u, E, m)
    BY <1>1, <1>6, TailQueue DEF Waiting
  <2>2. BeingTold(u)' <=> BeingTold(u)
    BY <1>5, <1>6 DEF BeingTold
  <2> QED BY <1>6, <2>1, <2>2, Unconcerned DEF ChannelsInv
<1> QED BY <1>2, <1>3, <1>4, <1>5, <1>6

(* Only the first messages about a channel find it not in the map. *)
LEMMA HeadMapped ==
  ASSUME ChannelsInv, inbox # <<>>, NEW h, h = Head(inbox), NEW c, c = h.c
  PROVE  /\ h \in Message /\ c \in Chans /\ h \in Waiting(c)
         /\ h.ev \notin First => Mapped(c)
         /\ NodeInv(c) /\ LifeInv(c) /\ NewsInv(c) /\ ZeroInv(c) /\ RowInv(c) /\ ToldInv(c)
         /\ node[c].bal \in {0} \cup Amounts /\ 0 \notin Amounts /\ inbox \in Seq(Message)
         /\ up \subseteq Chans
         /\ (h.ev # "terminated" /\ node[c].st = "closed") =>
               \E m \in Waiting(c) : m.ev = "terminated" /\ m # h
<1>1. inbox \in Seq(Message) /\ h \in Message /\ c \in Chans
  <2>1. inbox \in Seq(Message) BY DEF ChannelsInv, Types
  <2>2. h \in Message BY <2>1
  <2> QED BY <2>1, <2>2 DEF Message
<1>2. /\ Waiting(c) = Of(Tail(inbox), c) \cup {h}
      /\ \A m \in Of(Tail(inbox), c) : Follows(h, m)
  BY <1>1, TailQueue, HeadQueue DEF Waiting, ChannelsInv, ChanInv
<1>3. /\ NodeInv(c) /\ LifeInv(c) /\ NewsInv(c) /\ ZeroInv(c) /\ RowInv(c) /\ ToldInv(c)
      /\ node[c].bal \in {0} \cup Amounts /\ 0 \notin Amounts /\ inbox \in Seq(Message)
      /\ up \subseteq Chans
  BY <1>1, OldNode
<1>4. ASSUME h.ev \notin First PROVE Mapped(c)
  BY <1>2, <1>3, <1>4 DEF LifeInv, Follows
<1>5. ASSUME h.ev # "terminated", node[c].st = "closed"
      PROVE  \E m \in Waiting(c) : m.ev = "terminated" /\ m # h
  <2>1. c \notin up BY <1>3, <1>5 DEF NodeInv, Stored
  <2> QED BY <1>2, <1>3, <1>5, <2>1 DEF LifeInv
<1> QED BY <1>1, <1>2, <1>3, <1>4, <1>5

LEMMA SuperviseRest ==
  ASSUME ChannelsInv, NEW c, UNCHANGED <<node, up, lost>>,
         DOMAIN map' \subseteq Chans, map' \in [DOMAIN map' -> Entry],
         DOMAIN table' \subseteq Chans, table' \in [DOMAIN table' -> Row],
         inbox' \in Seq(Message), half' \in BOOLEAN, alerts' \in [Chans -> Nat], HalfInv',
         \A u \in Chans \ {c} : ChanInv(u)',
         NodeInv(c)', LifeInv(c)', NewsInv(c)', ZeroInv(c)', RowInv(c)', ToldInv(c)',
         Ordered(inbox', c)
  PROVE  ChannelsInv'
<1>1. Types'
  BY DEF ChannelsInv, Types, States, Stored, Amounts, Message, Entry, Row
<1>2. ChanInv(c)'
  BY DEF ChanInv
<1> QED BY <1>1, <1>2 DEF ChannelsInv

LEMMA PutEntry ==
  ASSUME ChannelsInv, NEW c \in Chans, NEW e \in Entry,
         map' = [x \in DOMAIN map \cup {c} |-> IF x = c THEN e ELSE map[x]]
  PROVE  /\ DOMAIN map' \subseteq Chans /\ map' \in [DOMAIN map' -> Entry]
         /\ Mapped(c)' /\ map'[c] = e
         /\ \A u \in Chans \ {c} : (Mapped(u)' <=> Mapped(u)) /\ (Mapped(u) => map'[u] = map[u])
<1>1. DOMAIN map \subseteq Chans /\ map \in [DOMAIN map -> Entry]
  BY DEF ChannelsInv, Types
<1> QED BY <1>1 DEF Mapped

LEMMA SaveRow ==
  ASSUME ChannelsInv, NEW c \in Chans, NEW e \in Entry, e.cap => e.bal # 0, saveLocalChannel(c, e)
  PROVE  /\ DOMAIN table' \subseteq Chans /\ table' \in [DOMAIN table' -> Row]
         /\ e.cap => /\ Filed(c)'
                     /\ table'[c] = [bal |-> e.bal, msg |-> e.msg, refund |-> e.refund, active |-> TRUE]
         /\ ~e.cap => (Filed(c)' <=> Filed(c)) /\ table' = table
         /\ \A u \in Chans \ {c} : (Filed(u)' <=> Filed(u)) /\ (Filed(u) => table'[u] = table[u])
<1>1. DOMAIN table \subseteq Chans /\ table \in [DOMAIN table -> Row]
  BY DEF ChannelsInv, Types
<1>2. CASE e.cap
  <2>1. PICK r : r = [bal |-> e.bal, msg |-> e.msg, refund |-> e.refund, active |-> TRUE]
    OBVIOUS
  <2>2. r \in Row
    BY <1>2, <2>1 DEF Entry, Row
  <2>3. table' = [x \in DOMAIN table \cup {c} |-> IF x = c THEN r ELSE table[x]]
    BY <1>2, <2>1 DEF saveLocalChannel
  <2> QED BY <1>1, <1>2, <2>1, <2>2, <2>3 DEF Filed
<1>3. CASE ~e.cap
  BY <1>1, <1>3 DEF saveLocalChannel, Filed
<1> QED BY <1>2, <1>3

LEMMA MapEntry ==
  ASSUME ChannelsInv, NEW c \in Chans
  PROVE  /\ Mapped(c) => /\ map[c] \in Entry
                         /\ [x \in DOMAIN map \cup {c} |-> IF x = c THEN map[c] ELSE map[x]] = map
         /\ Filed(c) => table[c] \in Row
         /\ alerts \in [Chans -> Nat] /\ half \in BOOLEAN
         /\ DOMAIN table \subseteq Chans /\ table \in [DOMAIN table -> Row]
         /\ DOMAIN map \subseteq Chans /\ map \in [DOMAIN map -> Entry]
BY DEF ChannelsInv, Types, Mapped, Filed

LEMMA CreatedStep ==
  ASSUME ChannelsInv, ChannelCreated
  PROVE  ChannelsInv'
<1>1. PICK h, c : h = Head(inbox) /\ c = h.c
  OBVIOUS
<1>2. /\ inbox # <<>> /\ inbox' = Tail(inbox) /\ h.ev = "created" /\ ~half /\ ~half' /\ half' \in BOOLEAN
      /\ map' = [x \in DOMAIN map \cup {c} |-> IF x = c THEN getOrCreateChannel(c) ELSE map[x]]
      /\ UNCHANGED <<node, up, lost, table, alerts>>
  BY <1>1 DEF ChannelCreated, Receive, Put, Kept, ChannelsInv, Types
<1>3. /\ h \in Message /\ c \in Chans /\ h \in Waiting(c)
      /\ h.ev \notin First => Mapped(c)
      /\ NodeInv(c) /\ LifeInv(c) /\ NewsInv(c) /\ ZeroInv(c) /\ RowInv(c) /\ ToldInv(c)
      /\ node[c].bal \in {0} \cup Amounts /\ 0 \notin Amounts
      /\ (h.ev # "terminated" /\ node[c].st = "closed") =>
            \E m \in Waiting(c) : m.ev = "terminated" /\ m # h
  BY <1>1, <1>2, HeadMapped
<1>4. /\ ~Mapped(c) /\ ~Filed(c) /\ \E n \in Waiting(c) : n.ev = "state" /\ n # h
  BY <1>2, <1>3 DEF LifeInv, RowInv, First
<1>5. /\ DOMAIN map' \subseteq Chans /\ map' \in [DOMAIN map' -> Entry]
      /\ Mapped(c)' /\ map'[c] = NewChannel /\ ~map'[c].cap /\ map'[c].bal = 0
      /\ \A u \in Chans \ {c} : (Mapped(u)' <=> Mapped(u)) /\ (Mapped(u) => map'[u] = map[u])
  <2>1. NewChannel \in Entry /\ ~NewChannel.cap /\ NewChannel.bal = 0 BY DEF NewChannel, Entry
  <2>2. getOrCreateChannel(c) = NewChannel BY <1>4 DEF getOrCreateChannel, Mapped
  <2> QED BY <1>2, <1>3, <2>1, <2>2, PutEntry
<1>6. /\ inbox' \in Seq(Message) /\ HalfInv' /\ Ordered(inbox', c)
      /\ Waiting(c) = Waiting(c)' \cup {h}
      /\ \A m \in Waiting(c)' : Follows(h, m)
      /\ \A E, m : LastOf(inbox', c, E, m) => LastOf(inbox, c, E, m)
      /\ \A E : h.ev \in E /\ (\A m \in Waiting(c)' : m.ev \notin E) => LastOf(inbox, c, E, h)
      /\ ~BeingTold(c)'
      /\ \A u \in Chans \ {c} :
           /\ node'[u] = node[u] /\ ((u \in up') <=> (u \in up)) /\ alerts'[u] = alerts[u]
           /\ (u \in lost => u \in lost')
           /\ (Mapped(u)' <=> Mapped(u)) /\ (Mapped(u) => map'[u] = map[u])
           /\ (Filed(u)' <=> Filed(u)) /\ (Filed(u) => table'[u] = table[u])
           => ChanInv(u)'
  BY <1>1, <1>2, FirstTaken
<1>8. /\ DOMAIN table' \subseteq Chans /\ table' \in [DOMAIN table' -> Row] /\ alerts' \in [Chans -> Nat]
      /\ \A u : (Filed(u)' <=> Filed(u)) /\ table'[u] = table[u]
  BY <1>2, <1>3, MapEntry DEF Filed
<1>10. \A u \in Chans \ {c} : ChanInv(u)'
  BY <1>2, <1>5, <1>6, <1>8
<1>11. NodeInv(c)' BY <1>2, <1>3 DEF NodeInv, Stored
<1>12. LifeInv(c)' BY <1>2, <1>3, <1>4, <1>5, <1>6 DEF LifeInv, First, Follows
<1>13. NewsInv(c)'
  BY <1>2, <1>3, <1>4, <1>5, <1>6 DEF NewsInv, Balance
<1>14. ZeroInv(c)' BY <1>2, <1>3, <1>4, <1>5, <1>6, <1>8 DEF ZeroInv, Follows, First
<1>15. RowInv(c)' BY <1>2, <1>3, <1>4, <1>5, <1>6, <1>8 DEF RowInv, Over, Follows, First, LifeInv
<1>16. ToldInv(c)' BY <1>2, <1>3, <1>4, <1>5, <1>6 DEF ToldInv, Told, BeingTold
<1> QED BY <1>2, <1>3, <1>5, <1>6, <1>8, <1>10, <1>11, <1>12, <1>13, <1>14, <1>15, <1>16, SuperviseRest

LEMMA RestoredStep ==
  ASSUME ChannelsInv, ChannelRestored
  PROVE  ChannelsInv'
<1>1. PICK h, c : h = Head(inbox) /\ c = h.c
  OBVIOUS
<1>2. /\ inbox # <<>> /\ inbox' = Tail(inbox) /\ h.ev = "restored" /\ ~half /\ ~half' /\ half' \in BOOLEAN
      /\ Put(c, IF c \in DOMAIN table
                THEN [getOrCreateChannel(c) EXCEPT !.msg = table[c].msg, !.refund = table[c].refund]
                ELSE getOrCreateChannel(c))
      /\ UNCHANGED <<node, up, lost, table, alerts>>
  BY <1>1 DEF ChannelRestored, Receive, Kept, ChannelsInv, Types
<1>3. /\ h \in Message /\ c \in Chans /\ h \in Waiting(c)
      /\ h.ev \notin First => Mapped(c)
      /\ NodeInv(c) /\ LifeInv(c) /\ NewsInv(c) /\ ZeroInv(c) /\ RowInv(c) /\ ToldInv(c)
      /\ node[c].bal \in {0} \cup Amounts /\ 0 \notin Amounts
      /\ (h.ev # "terminated" /\ node[c].st = "closed") =>
            \E m \in Waiting(c) : m.ev = "terminated" /\ m # h
  BY <1>1, <1>2, HeadMapped
<1>4. /\ ~Mapped(c) /\ (\E n \in Waiting(c) : n.ev = "state" /\ n # h) /\ node[c].bal # 0
  BY <1>2, <1>3 DEF LifeInv, RowInv, ZeroInv, First
<1>5. /\ DOMAIN map' \subseteq Chans /\ map' \in [DOMAIN map' -> Entry]
      /\ Mapped(c)' /\ ~map'[c].cap /\ map'[c].bal = 0
      /\ Filed(c) => map'[c].msg = table[c].msg /\ map'[c].refund = table[c].refund
      /\ \A u \in Chans \ {c} : (Mapped(u)' <=> Mapped(u)) /\ (Mapped(u) => map'[u] = map[u])
  <2>1. PICK e : e = IF c \in DOMAIN table
                     THEN [NewChannel EXCEPT !.msg = table[c].msg, !.refund = table[c].refund]
                     ELSE NewChannel
    OBVIOUS
  <2>2. getOrCreateChannel(c) = NewChannel BY <1>4 DEF getOrCreateChannel, Mapped
  <2>3. map' = [x \in DOMAIN map \cup {c} |-> IF x = c THEN e ELSE map[x]]
    BY <1>2, <2>1, <2>2 DEF Put
  <2>4. Filed(c) => table[c] \in Row BY <1>3 DEF ChannelsInv, Types, Filed
  <2>5. /\ e \in Entry /\ ~e.cap /\ e.bal = 0
        /\ Filed(c) => e.msg = table[c].msg /\ e.refund = table[c].refund
    BY <2>1, <2>4 DEF NewChannel, Entry, Row, Filed
  <2> QED BY <1>3, <2>3, <2>5, PutEntry
<1>6. /\ inbox' \in Seq(Message) /\ HalfInv' /\ Ordered(inbox', c)
      /\ Waiting(c) = Waiting(c)' \cup {h}
      /\ \A m \in Waiting(c)' : Follows(h, m)
      /\ \A E, m : LastOf(inbox', c, E, m) => LastOf(inbox, c, E, m)
      /\ \A E : h.ev \in E /\ (\A m \in Waiting(c)' : m.ev \notin E) => LastOf(inbox, c, E, h)
      /\ ~BeingTold(c)'
      /\ \A u \in Chans \ {c} :
           /\ node'[u] = node[u] /\ ((u \in up') <=> (u \in up)) /\ alerts'[u] = alerts[u]
           /\ (u \in lost => u \in lost')
           /\ (Mapped(u)' <=> Mapped(u)) /\ (Mapped(u) => map'[u] = map[u])
           /\ (Filed(u)' <=> Filed(u)) /\ (Filed(u) => table'[u] = table[u])
           => ChanInv(u)'
  BY <1>1, <1>2, FirstTaken
<1>8. /\ DOMAIN table' \subseteq Chans /\ table' \in [DOMAIN table' -> Row] /\ alerts' \in [Chans -> Nat]
      /\ \A u : (Filed(u)' <=> Filed(u)) /\ table'[u] = table[u]
  BY <1>2, <1>3, MapEntry DEF Filed
<1>10. \A u \in Chans \ {c} : ChanInv(u)'
  BY <1>2, <1>5, <1>6, <1>8
<1>11. NodeInv(c)' BY <1>2, <1>3 DEF NodeInv, Stored
<1>12. LifeInv(c)' BY <1>2, <1>3, <1>4, <1>5, <1>6 DEF LifeInv, First, Follows
<1>13. NewsInv(c)'
  BY <1>2, <1>3, <1>4, <1>5, <1>6 DEF NewsInv, Balance
<1>14. ZeroInv(c)' BY <1>2, <1>3, <1>4, <1>5, <1>6, <1>8 DEF ZeroInv, Follows, First
<1>15. RowInv(c)' BY <1>2, <1>3, <1>4, <1>5, <1>6, <1>8 DEF RowInv, Over, Follows, First, LifeInv
<1>16. ToldInv(c)' BY <1>2, <1>3, <1>4, <1>5, <1>6 DEF ToldInv, Told, BeingTold
<1> QED BY <1>2, <1>3, <1>5, <1>6, <1>8, <1>10, <1>11, <1>12, <1>13, <1>14, <1>15, <1>16, SuperviseRest

LEMMA SignatureStep ==
  ASSUME ChannelsInv, ChannelSignatureReceived
  PROVE  ChannelsInv'
<1>1. PICK h, c : h = Head(inbox) /\ c = h.c
  OBVIOUS
<1>2. /\ inbox # <<>> /\ inbox' = Tail(inbox) /\ h.ev = "signature" /\ ~half /\ ~half' /\ half' \in BOOLEAN
      /\ UNCHANGED <<node, up, lost, table, alerts>>
  BY <1>1 DEF ChannelSignatureReceived, Receive, Kept, ChannelsInv, Types
<1>3. /\ h \in Message /\ c \in Chans /\ h \in Waiting(c)
      /\ h.ev \notin First => Mapped(c)
      /\ NodeInv(c) /\ LifeInv(c) /\ NewsInv(c) /\ ZeroInv(c) /\ RowInv(c) /\ ToldInv(c)
      /\ node[c].bal \in {0} \cup Amounts /\ 0 \notin Amounts
      /\ (h.ev # "terminated" /\ node[c].st = "closed") =>
            \E m \in Waiting(c) : m.ev = "terminated" /\ m # h
  BY <1>1, <1>2, HeadMapped
<1>4. Mapped(c) /\ node[c].bal # 0 /\ h.bal # 0 /\ h.bal \in {0} \cup Amounts
  BY <1>2, <1>3 DEF LifeInv, ZeroInv, First, Message
<1>5. /\ DOMAIN map' \subseteq Chans /\ map' \in [DOMAIN map' -> Entry]
      /\ Mapped(c)' /\ map'[c].cap /\ map'[c].bal = h.bal /\ map'[c].state = map[c].state
      /\ map'[c].msg = map[c].msg /\ map'[c].refund = map[c].refund
      /\ \A u \in Chans \ {c} : (Mapped(u)' <=> Mapped(u)) /\ (Mapped(u) => map'[u] = map[u])
  <2>1. map' = [map EXCEPT ![c].bal = h.bal, ![c].cap = TRUE]
    BY <1>1, <1>4 DEF ChannelSignatureReceived, Mapped
  <2>2. DOMAIN map \subseteq Chans /\ map \in [DOMAIN map -> Entry]
    BY DEF ChannelsInv, Types
  <2> QED BY <1>4, <2>1, <2>2 DEF Mapped, Entry
<1>6. /\ inbox' \in Seq(Message) /\ HalfInv' /\ Ordered(inbox', c)
      /\ Waiting(c) = Waiting(c)' \cup {h}
      /\ \A m \in Waiting(c)' : Follows(h, m)
      /\ \A E, m : LastOf(inbox', c, E, m) => LastOf(inbox, c, E, m)
      /\ \A E : h.ev \in E /\ (\A m \in Waiting(c)' : m.ev \notin E) => LastOf(inbox, c, E, h)
      /\ ~BeingTold(c)'
      /\ \A u \in Chans \ {c} :
           /\ node'[u] = node[u] /\ ((u \in up') <=> (u \in up)) /\ alerts'[u] = alerts[u]
           /\ (u \in lost => u \in lost')
           /\ (Mapped(u)' <=> Mapped(u)) /\ (Mapped(u) => map'[u] = map[u])
           /\ (Filed(u)' <=> Filed(u)) /\ (Filed(u) => table'[u] = table[u])
           => ChanInv(u)'
  BY <1>1, <1>2, FirstTaken
<1>8. /\ DOMAIN table' \subseteq Chans /\ table' \in [DOMAIN table' -> Row] /\ alerts' \in [Chans -> Nat]
      /\ \A u : (Filed(u)' <=> Filed(u)) /\ table'[u] = table[u]
  BY <1>2, <1>3, MapEntry DEF Filed
<1>10. \A u \in Chans \ {c} : ChanInv(u)'
  BY <1>2, <1>5, <1>6, <1>8
<1>11. NodeInv(c)' BY <1>2, <1>3 DEF NodeInv, Stored
<1>12. LifeInv(c)' BY <1>2, <1>3, <1>4, <1>5, <1>6 DEF LifeInv, First, Follows
<1>13. NewsInv(c)'
  <2>1. \A m : LastOf(inbox', c, Balance, m) => m \in Waiting(c) /\ LastOf(inbox, c, Balance, m)
    BY <1>6, LastWaits DEF Waiting
  <2>2. \A m : LastOf(inbox', c, {"state"}, m) => m \in Waiting(c) /\ LastOf(inbox, c, {"state"}, m)
    BY <1>6, LastWaits DEF Waiting
  <2>3. ASSUME c \in up, \A m \in Waiting(c)' : m.ev # "state" PROVE map'[c].state = node[c].st
    BY <1>2, <1>3, <1>4, <1>5, <1>6, <2>3 DEF NewsInv
  <2>4. ASSUME \A m \in Waiting(c)' : m.ev \notin Balance PROVE map'[c].bal = node[c].bal
    BY <1>2, <1>3, <1>4, <1>5, <1>6, <2>4 DEF NewsInv, Balance
  <2> QED BY <1>2, <1>3, <1>5, <1>6, <2>1, <2>2, <2>3, <2>4 DEF NewsInv
<1>14. ZeroInv(c)' BY <1>2, <1>3, <1>4, <1>5, <1>6, <1>8 DEF ZeroInv, Follows, First
<1>15. RowInv(c)' BY <1>2, <1>3, <1>4, <1>5, <1>6, <1>8 DEF RowInv, Over, Follows, First, LifeInv
<1>16. ToldInv(c)' BY <1>2, <1>3, <1>4, <1>5, <1>6 DEF ToldInv, Told, BeingTold
<1> QED BY <1>2, <1>3, <1>5, <1>6, <1>8, <1>10, <1>11, <1>12, <1>13, <1>14, <1>15, <1>16, SuperviseRest

LEMMA ErrorStep ==
  ASSUME ChannelsInv, ChannelErrorOccurred
  PROVE  ChannelsInv'
<1>1. PICK h, c : h = Head(inbox) /\ c = h.c
  OBVIOUS
<1>2. /\ inbox # <<>> /\ inbox' = Tail(inbox) /\ h.ev = "error" /\ ~half /\ ~half' /\ half' \in BOOLEAN
      /\ UNCHANGED <<node, up, lost, alerts>>
  BY <1>1 DEF ChannelErrorOccurred, Receive, Kept, ChannelsInv, Types
<1>3. /\ h \in Message /\ c \in Chans /\ h \in Waiting(c)
      /\ h.ev \notin First => Mapped(c)
      /\ NodeInv(c) /\ LifeInv(c) /\ NewsInv(c) /\ ZeroInv(c) /\ RowInv(c) /\ ToldInv(c)
      /\ node[c].bal \in {0} \cup Amounts /\ 0 \notin Amounts
      /\ (h.ev # "terminated" /\ node[c].st = "closed") =>
            \E m \in Waiting(c) : m.ev = "terminated" /\ m # h
  BY <1>1, <1>2, HeadMapped
<1>4. Mapped(c) /\ node[c].bal # 0 /\ (map[c].cap => map[c].bal # 0)
  BY <1>2, <1>3 DEF LifeInv, ZeroInv, First, Message
<1>40. map' = [map EXCEPT ![c].msg = TRUE] /\ saveLocalChannel(c, map'[c])
  BY <1>1, <1>4 DEF ChannelErrorOccurred, Mapped
<1>5. /\ DOMAIN map' \subseteq Chans /\ map' \in [DOMAIN map' -> Entry]
      /\ Mapped(c)' /\ map'[c].cap = map[c].cap /\ map'[c].bal = map[c].bal
      /\ map'[c].state = map[c].state /\ map'[c].msg /\ map'[c].refund = map[c].refund
      /\ \A u \in Chans \ {c} : (Mapped(u)' <=> Mapped(u)) /\ (Mapped(u) => map'[u] = map[u])
  <2>1. DOMAIN map \subseteq Chans /\ map \in [DOMAIN map -> Entry]
    BY DEF ChannelsInv, Types
  <2> QED BY <1>4, <1>40, <2>1 DEF Mapped, Entry
<1>6. /\ inbox' \in Seq(Message) /\ HalfInv' /\ Ordered(inbox', c)
      /\ Waiting(c) = Waiting(c)' \cup {h}
      /\ \A m \in Waiting(c)' : Follows(h, m)
      /\ \A E, m : LastOf(inbox', c, E, m) => LastOf(inbox, c, E, m)
      /\ \A E : h.ev \in E /\ (\A m \in Waiting(c)' : m.ev \notin E) => LastOf(inbox, c, E, h)
      /\ ~BeingTold(c)'
      /\ \A u \in Chans \ {c} :
           /\ node'[u] = node[u] /\ ((u \in up') <=> (u \in up)) /\ alerts'[u] = alerts[u]
           /\ (u \in lost => u \in lost')
           /\ (Mapped(u)' <=> Mapped(u)) /\ (Mapped(u) => map'[u] = map[u])
           /\ (Filed(u)' <=> Filed(u)) /\ (Filed(u) => table'[u] = table[u])
           => ChanInv(u)'
  BY <1>1, <1>2, FirstTaken
<1>7. PICK e : e = map'[c]
  OBVIOUS
<1>70. e \in Entry /\ (e.cap => e.bal # 0) /\ saveLocalChannel(c, e)
  BY <1>4, <1>40, <1>5, <1>7 DEF Mapped
<1>8. /\ DOMAIN table' \subseteq Chans /\ table' \in [DOMAIN table' -> Row] /\ alerts' \in [Chans -> Nat]
      /\ Filed(c)' => table'[c].active \/ (Filed(c) /\ table'[c] = table[c])
      /\ Filed(c)' => (table'[c].msg = map'[c].msg /\ table'[c].refund = map'[c].refund) \/ (Filed(c) /\ table'[c] = table[c])
      /\ Filed(c) => Filed(c)'
      /\ \A u \in Chans \ {c} : (Filed(u)' <=> Filed(u)) /\ (Filed(u) => table'[u] = table[u])
  <2>1. alerts' \in [Chans -> Nat] BY <1>2 DEF ChannelsInv, Types
  <2>2. /\ DOMAIN table' \subseteq Chans /\ table' \in [DOMAIN table' -> Row]
        /\ e.cap => /\ Filed(c)'
                    /\ table'[c] = [bal |-> e.bal, msg |-> e.msg, refund |-> e.refund, active |-> TRUE]
        /\ ~e.cap => (Filed(c)' <=> Filed(c)) /\ table' = table
        /\ \A u \in Chans \ {c} : (Filed(u)' <=> Filed(u)) /\ (Filed(u) => table'[u] = table[u])
    BY <1>3, <1>70, SaveRow
  <2> QED BY <1>7, <2>1, <2>2
<1>10. \A u \in Chans \ {c} : ChanInv(u)'
  BY <1>2, <1>5, <1>6, <1>8
<1>11. NodeInv(c)' BY <1>2, <1>3 DEF NodeInv, Stored
<1>12. LifeInv(c)' BY <1>2, <1>3, <1>4, <1>5, <1>6 DEF LifeInv, First, Follows
<1>13. NewsInv(c)'
  <2>1. \A m : LastOf(inbox', c, Balance, m) => m \in Waiting(c) /\ LastOf(inbox, c, Balance, m)
    BY <1>6, LastWaits DEF Waiting
  <2>2. \A m : LastOf(inbox', c, {"state"}, m) => m \in Waiting(c) /\ LastOf(inbox, c, {"state"}, m)
    BY <1>6, LastWaits DEF Waiting
  <2>3. ASSUME c \in up, \A m \in Waiting(c)' : m.ev # "state" PROVE map'[c].state = node[c].st
    BY <1>2, <1>3, <1>4, <1>5, <1>6, <2>3 DEF NewsInv
  <2>4. ASSUME \A m \in Waiting(c)' : m.ev \notin Balance PROVE map'[c].bal = node[c].bal
    BY <1>2, <1>3, <1>4, <1>5, <1>6, <2>4 DEF NewsInv, Balance
  <2> QED BY <1>2, <1>3, <1>5, <1>6, <2>1, <2>2, <2>3, <2>4 DEF NewsInv
<1>14. ZeroInv(c)' BY <1>2, <1>3, <1>4, <1>5, <1>6, <1>8 DEF ZeroInv, Follows, First
<1>15. RowInv(c)' BY <1>2, <1>3, <1>4, <1>5, <1>6, <1>8 DEF RowInv, Over, Follows, First, LifeInv
<1>16. ToldInv(c)' BY <1>2, <1>3, <1>4, <1>5, <1>6 DEF ToldInv, Told, BeingTold
<1> QED BY <1>2, <1>3, <1>5, <1>6, <1>8, <1>10, <1>11, <1>12, <1>13, <1>14, <1>15, <1>16, SuperviseRest

LEMMA RefundStep ==
  ASSUME ChannelsInv, LocalCommitConfirmed
  PROVE  ChannelsInv'
<1>1. PICK h, c : h = Head(inbox) /\ c = h.c
  OBVIOUS
<1>2. /\ inbox # <<>> /\ inbox' = Tail(inbox) /\ h.ev = "refund" /\ ~half /\ ~half' /\ half' \in BOOLEAN
      /\ UNCHANGED <<node, up, lost, alerts>>
  BY <1>1 DEF LocalCommitConfirmed, Receive, Kept, ChannelsInv, Types
<1>3. /\ h \in Message /\ c \in Chans /\ h \in Waiting(c)
      /\ h.ev \notin First => Mapped(c)
      /\ NodeInv(c) /\ LifeInv(c) /\ NewsInv(c) /\ ZeroInv(c) /\ RowInv(c) /\ ToldInv(c)
      /\ node[c].bal \in {0} \cup Amounts /\ 0 \notin Amounts
      /\ (h.ev # "terminated" /\ node[c].st = "closed") =>
            \E m \in Waiting(c) : m.ev = "terminated" /\ m # h
  BY <1>1, <1>2, HeadMapped
<1>4. Mapped(c) /\ node[c].bal # 0 /\ (map[c].cap => map[c].bal # 0)
  BY <1>2, <1>3 DEF LifeInv, ZeroInv, First, Message
<1>40. map' = [map EXCEPT ![c].refund = TRUE] /\ saveLocalChannel(c, map'[c])
  BY <1>1, <1>4 DEF LocalCommitConfirmed, Mapped
<1>5. /\ DOMAIN map' \subseteq Chans /\ map' \in [DOMAIN map' -> Entry]
      /\ Mapped(c)' /\ map'[c].cap = map[c].cap /\ map'[c].bal = map[c].bal
      /\ map'[c].state = map[c].state /\ map'[c].refund /\ map'[c].msg = map[c].msg
      /\ \A u \in Chans \ {c} : (Mapped(u)' <=> Mapped(u)) /\ (Mapped(u) => map'[u] = map[u])
  <2>1. DOMAIN map \subseteq Chans /\ map \in [DOMAIN map -> Entry]
    BY DEF ChannelsInv, Types
  <2> QED BY <1>4, <1>40, <2>1 DEF Mapped, Entry
<1>6. /\ inbox' \in Seq(Message) /\ HalfInv' /\ Ordered(inbox', c)
      /\ Waiting(c) = Waiting(c)' \cup {h}
      /\ \A m \in Waiting(c)' : Follows(h, m)
      /\ \A E, m : LastOf(inbox', c, E, m) => LastOf(inbox, c, E, m)
      /\ \A E : h.ev \in E /\ (\A m \in Waiting(c)' : m.ev \notin E) => LastOf(inbox, c, E, h)
      /\ ~BeingTold(c)'
      /\ \A u \in Chans \ {c} :
           /\ node'[u] = node[u] /\ ((u \in up') <=> (u \in up)) /\ alerts'[u] = alerts[u]
           /\ (u \in lost => u \in lost')
           /\ (Mapped(u)' <=> Mapped(u)) /\ (Mapped(u) => map'[u] = map[u])
           /\ (Filed(u)' <=> Filed(u)) /\ (Filed(u) => table'[u] = table[u])
           => ChanInv(u)'
  BY <1>1, <1>2, FirstTaken
<1>7. PICK e : e = map'[c]
  OBVIOUS
<1>70. e \in Entry /\ (e.cap => e.bal # 0) /\ saveLocalChannel(c, e)
  BY <1>4, <1>40, <1>5, <1>7 DEF Mapped
<1>8. /\ DOMAIN table' \subseteq Chans /\ table' \in [DOMAIN table' -> Row] /\ alerts' \in [Chans -> Nat]
      /\ Filed(c)' => table'[c].active \/ (Filed(c) /\ table'[c] = table[c])
      /\ Filed(c)' => (table'[c].msg = map'[c].msg /\ table'[c].refund = map'[c].refund) \/ (Filed(c) /\ table'[c] = table[c])
      /\ Filed(c) => Filed(c)'
      /\ \A u \in Chans \ {c} : (Filed(u)' <=> Filed(u)) /\ (Filed(u) => table'[u] = table[u])
  <2>1. alerts' \in [Chans -> Nat] BY <1>2 DEF ChannelsInv, Types
  <2>2. /\ DOMAIN table' \subseteq Chans /\ table' \in [DOMAIN table' -> Row]
        /\ e.cap => /\ Filed(c)'
                    /\ table'[c] = [bal |-> e.bal, msg |-> e.msg, refund |-> e.refund, active |-> TRUE]
        /\ ~e.cap => (Filed(c)' <=> Filed(c)) /\ table' = table
        /\ \A u \in Chans \ {c} : (Filed(u)' <=> Filed(u)) /\ (Filed(u) => table'[u] = table[u])
    BY <1>3, <1>70, SaveRow
  <2> QED BY <1>7, <2>1, <2>2
<1>10. \A u \in Chans \ {c} : ChanInv(u)'
  BY <1>2, <1>5, <1>6, <1>8
<1>11. NodeInv(c)' BY <1>2, <1>3 DEF NodeInv, Stored
<1>12. LifeInv(c)' BY <1>2, <1>3, <1>4, <1>5, <1>6 DEF LifeInv, First, Follows
<1>13. NewsInv(c)'
  <2>1. \A m : LastOf(inbox', c, Balance, m) => m \in Waiting(c) /\ LastOf(inbox, c, Balance, m)
    BY <1>6, LastWaits DEF Waiting
  <2>2. \A m : LastOf(inbox', c, {"state"}, m) => m \in Waiting(c) /\ LastOf(inbox, c, {"state"}, m)
    BY <1>6, LastWaits DEF Waiting
  <2>3. ASSUME c \in up, \A m \in Waiting(c)' : m.ev # "state" PROVE map'[c].state = node[c].st
    BY <1>2, <1>3, <1>4, <1>5, <1>6, <2>3 DEF NewsInv
  <2>4. ASSUME \A m \in Waiting(c)' : m.ev \notin Balance PROVE map'[c].bal = node[c].bal
    BY <1>2, <1>3, <1>4, <1>5, <1>6, <2>4 DEF NewsInv, Balance
  <2> QED BY <1>2, <1>3, <1>5, <1>6, <2>1, <2>2, <2>3, <2>4 DEF NewsInv
<1>14. ZeroInv(c)' BY <1>2, <1>3, <1>4, <1>5, <1>6, <1>8 DEF ZeroInv, Follows, First
<1>15. RowInv(c)' BY <1>2, <1>3, <1>4, <1>5, <1>6, <1>8 DEF RowInv, Over, Follows, First, LifeInv
<1>16. ToldInv(c)' BY <1>2, <1>3, <1>4, <1>5, <1>6 DEF ToldInv, Told, BeingTold
<1> QED BY <1>2, <1>3, <1>5, <1>6, <1>8, <1>10, <1>11, <1>12, <1>13, <1>14, <1>15, <1>16, SuperviseRest

LEMMA BeginsStep ==
  ASSUME ChannelsInv, StateChangedBegins
  PROVE  ChannelsInv'
<1>1. PICK h, c : h = Head(inbox) /\ c = h.c
  OBVIOUS
<1>2. /\ inbox # <<>> /\ h.ev = "state" /\ ~half /\ UNCHANGED <<node, up, lost, table>>
  BY <1>1 DEF StateChangedBegins, Kept
<1>3. /\ h \in Message /\ c \in Chans /\ h \in Waiting(c)
      /\ h.ev \notin First => Mapped(c)
      /\ NodeInv(c) /\ LifeInv(c) /\ NewsInv(c) /\ ZeroInv(c) /\ RowInv(c) /\ ToldInv(c)
      /\ node[c].bal \in {0} \cup Amounts /\ 0 \notin Amounts
      /\ (h.ev # "terminated" /\ node[c].st = "closed") =>
            \E m \in Waiting(c) : m.ev = "terminated" /\ m # h
  BY <1>1, <1>2, HeadMapped
<1>4. Mapped(c) /\ h.st \in States
  BY <1>2, <1>3 DEF First, Message
<1>5. /\ inbox' = inbox /\ half' /\ half' \in BOOLEAN
      /\ map' = [map EXCEPT ![c].state = h.st]
      /\ alerts' = [alerts EXCEPT ![c] = IF Told(h) THEN alerts[c] + 1 ELSE alerts[c]]
  BY <1>1, <1>2, <1>4 DEF StateChangedBegins, Mapped, Told
<1>6. /\ DOMAIN map' \subseteq Chans /\ map' \in [DOMAIN map' -> Entry]
      /\ (Mapped(c)' <=> Mapped(c)) /\ map'[c].cap = map[c].cap /\ map'[c].bal = map[c].bal
      /\ map'[c].state = h.st /\ map'[c].msg = map[c].msg /\ map'[c].refund = map[c].refund
      /\ \A u \in Chans \ {c} : (Mapped(u)' <=> Mapped(u)) /\ (Mapped(u) => map'[u] = map[u])
  <2>1. DOMAIN map \subseteq Chans /\ map \in [DOMAIN map -> Entry]
    BY DEF ChannelsInv, Types
  <2> QED BY <1>4, <1>5, <2>1 DEF Mapped, Entry
<1>7. /\ alerts' \in [Chans -> Nat] /\ \A u \in Chans \ {c} : alerts'[u] = alerts[u]
      /\ Told(h) => alerts'[c] = 1
      /\ ~Told(h) => alerts'[c] = alerts[c]
  <2>1. alerts \in [Chans -> Nat] BY DEF ChannelsInv, Types
  <2>2. Told(h) => alerts[c] = 0 BY <1>2, <1>3 DEF ToldInv, BeingTold
  <2> QED BY <1>3, <1>5, <2>1, <2>2
<1>8. /\ \A u : Waiting(u)' = Waiting(u) /\ (Filed(u)' <=> Filed(u)) /\ table'[u] = table[u]
      /\ BeingTold(c)' <=> Told(h)
      /\ ~BeingTold(c) /\ \A u \in Chans \ {c} : ~BeingTold(u)' /\ ~BeingTold(u)
      /\ DOMAIN table' \subseteq Chans /\ table' \in [DOMAIN table' -> Row]
      /\ inbox' \in Seq(Message) /\ Ordered(inbox', c)
  <2>1. /\ DOMAIN table \subseteq Chans /\ table \in [DOMAIN table -> Row] /\ inbox \in Seq(Message)
        /\ Ordered(inbox, c)
    BY <1>3 DEF ChannelsInv, Types, ChanInv
  <2>2. BeingTold(c)' <=> Told(h)
    BY <1>1, <1>5 DEF BeingTold, Told, Alert
  <2>3. ~BeingTold(c) /\ \A u \in Chans \ {c} : ~BeingTold(u)' /\ ~BeingTold(u)
    BY <1>1, <1>2, <1>5 DEF BeingTold
  <2>4. \A u : Waiting(u)' = Waiting(u) /\ (Filed(u)' <=> Filed(u)) /\ table'[u] = table[u]
    BY <1>2, <1>5 DEF Waiting, Filed
  <2> QED BY <1>2, <1>5, <2>1, <2>2, <2>3, <2>4
<1>9. HalfInv'
  <2>1. inbox' # <<>> /\ Head(inbox') = h BY <1>1, <1>2, <1>5
  <2> QED BY <1>1, <1>2, <1>4, <1>6, <2>1 DEF HalfInv
<1>10. ASSUME NEW u \in Chans \ {c} PROVE ChanInv(u)'
  BY <1>2, <1>5, <1>6, <1>7, <1>8, Unconcerned DEF ChannelsInv
<1>11. NodeInv(c)' BY <1>2, <1>3 DEF NodeInv, Stored
<1>12. LifeInv(c)' BY <1>2, <1>3, <1>6, <1>8 DEF LifeInv, First
<1>13. NewsInv(c)'
  <2>1. \A E, m : LastOf(inbox', c, E, m) => LastOf(inbox, c, E, m)
    BY <1>5
  <2> QED BY <1>2, <1>3, <1>6, <1>8, <2>1 DEF NewsInv, Balance
<1>14. ZeroInv(c)' BY <1>2, <1>3, <1>6, <1>8 DEF ZeroInv
<1>15. RowInv(c)' BY <1>2, <1>3, <1>6, <1>8 DEF RowInv, Over
<1>16. ToldInv(c)'
  <2>1. (\E m \in Waiting(c) : Told(m)) <=> (\E m \in Waiting(c)' : Told(m))
    BY <1>8
  <2> QED BY <1>2, <1>3, <1>7, <1>8, <2>1 DEF ToldInv
<1> QED BY <1>2, <1>5, <1>6, <1>7, <1>8, <1>9, <1>10, <1>11, <1>12, <1>13, <1>14, <1>15, <1>16, SuperviseRest

LEMMA EndsChangeStep ==
  ASSUME ChannelsInv, StateChangedEnds
  PROVE  ChannelsInv'
<1>1. PICK h, c : h = Head(inbox) /\ c = h.c
  OBVIOUS
<1>2. /\ half /\ inbox # <<>> /\ inbox' = Tail(inbox) /\ h.ev = "state" /\ ~half' /\ half' \in BOOLEAN
      /\ map[c].state = h.st /\ UNCHANGED <<node, up, lost, alerts>>
  BY <1>1 DEF StateChangedEnds, Kept, ChannelsInv, HalfInv
<1>3. /\ h \in Message /\ c \in Chans /\ h \in Waiting(c)
      /\ h.ev \notin First => Mapped(c)
      /\ NodeInv(c) /\ LifeInv(c) /\ NewsInv(c) /\ ZeroInv(c) /\ RowInv(c) /\ ToldInv(c)
      /\ node[c].bal \in {0} \cup Amounts /\ 0 \notin Amounts
      /\ (h.ev # "terminated" /\ node[c].st = "closed") =>
            \E m \in Waiting(c) : m.ev = "terminated" /\ m # h
  BY <1>1, <1>2, HeadMapped
<1>4. /\ Mapped(c) /\ map[c] \in Entry /\ h.bal \in {0} \cup Amounts /\ (map[c].cap => map[c].bal # 0)
      /\ node[c].bal = 0 => h.bal = 0 /\ ~map[c].cap /\ map[c].bal = 0
      /\ h.bal = 0 => ~map[c].cap /\ ~Filed(c) /\ map[c].bal = 0
      /\ BeingTold(c) <=> Told(h)
  <2>1. Mapped(c) /\ h.bal \in {0} \cup Amounts BY <1>2, <1>3 DEF First, Message
  <2>2. map[c] \in Entry BY <2>1 DEF ChannelsInv, Types, Mapped
  <2>3. BeingTold(c) <=> Told(h) BY <1>1, <1>2 DEF BeingTold
  <2> QED BY <1>2, <1>3, <2>1, <2>2, <2>3 DEF ZeroInv
<1>40. PICK e : e = IF h.bal > 0 THEN [map[c] EXCEPT !.bal = h.bal, !.cap = TRUE] ELSE map[c]
  OBVIOUS
<1>41. /\ e \in Entry /\ (e.cap => e.bal # 0) /\ e.state = h.st /\ e.msg = map[c].msg /\ e.refund = map[c].refund
       /\ h.bal = 0 => e = map[c]
       /\ h.bal # 0 => e.cap /\ e.bal = h.bal
  <2>1. h.bal > 0 <=> h.bal # 0 BY <1>4 DEF Amounts
  <2>2. CASE h.bal # 0 BY <1>2, <1>4, <1>40, <2>1, <2>2 DEF Entry
  <2>3. CASE h.bal = 0 BY <1>2, <1>4, <1>40, <2>1, <2>3 DEF Entry
  <2> QED BY <2>2, <2>3
<1>42. map' = [x \in DOMAIN map \cup {c} |-> IF x = c THEN e ELSE map[x]] /\ saveLocalChannel(c, e)
  BY <1>1, <1>40 DEF StateChangedEnds, Put
<1>5. /\ DOMAIN map' \subseteq Chans /\ map' \in [DOMAIN map' -> Entry] /\ Mapped(c)' /\ map'[c] = e
      /\ \A u \in Chans \ {c} : (Mapped(u)' <=> Mapped(u)) /\ (Mapped(u) => map'[u] = map[u])
  BY <1>3, <1>41, <1>42, PutEntry
<1>6. /\ inbox' \in Seq(Message) /\ HalfInv' /\ Ordered(inbox', c)
      /\ Waiting(c) = Waiting(c)' \cup {h}
      /\ \A m \in Waiting(c)' : Follows(h, m)
      /\ \A E, m : LastOf(inbox', c, E, m) => LastOf(inbox, c, E, m)
      /\ \A E : h.ev \in E /\ (\A m \in Waiting(c)' : m.ev \notin E) => LastOf(inbox, c, E, h)
      /\ ~BeingTold(c)'
      /\ \A u \in Chans \ {c} :
           /\ node'[u] = node[u] /\ ((u \in up') <=> (u \in up)) /\ alerts'[u] = alerts[u]
           /\ (u \in lost => u \in lost')
           /\ (Mapped(u)' <=> Mapped(u)) /\ (Mapped(u) => map'[u] = map[u])
           /\ (Filed(u)' <=> Filed(u)) /\ (Filed(u) => table'[u] = table[u])
           => ChanInv(u)'
  BY <1>1, <1>2, FirstTaken
<1>7. \A m \in Waiting(c)' : m.ev \notin First /\ ~(m.ev = "state" /\ m.bal = 0)
  BY <1>2, <1>6 DEF Follows, First
<1>8. /\ DOMAIN table' \subseteq Chans /\ table' \in [DOMAIN table' -> Row] /\ alerts' \in [Chans -> Nat]
      /\ e.cap => /\ Filed(c)'
                  /\ table'[c].bal = e.bal /\ table'[c].msg = e.msg /\ table'[c].refund = e.refund
                  /\ table'[c].active
      /\ ~e.cap => (Filed(c)' <=> Filed(c)) /\ table' = table
      /\ \A u \in Chans \ {c} : (Filed(u)' <=> Filed(u)) /\ (Filed(u) => table'[u] = table[u])
  <2>1. alerts' \in [Chans -> Nat] BY <1>2 DEF ChannelsInv, Types
  <2>2. /\ DOMAIN table' \subseteq Chans /\ table' \in [DOMAIN table' -> Row]
        /\ e.cap => /\ Filed(c)'
                    /\ table'[c] = [bal |-> e.bal, msg |-> e.msg, refund |-> e.refund, active |-> TRUE]
        /\ ~e.cap => (Filed(c)' <=> Filed(c)) /\ table' = table
        /\ \A u \in Chans \ {c} : (Filed(u)' <=> Filed(u)) /\ (Filed(u) => table'[u] = table[u])
    BY <1>3, <1>41, <1>42, SaveRow
  <2> QED BY <2>1, <2>2
<1>10. \A u \in Chans \ {c} : ChanInv(u)'
  BY <1>2, <1>5, <1>6, <1>8
<1>11. NodeInv(c)' BY <1>2, <1>3 DEF NodeInv, Stored
<1>12. LifeInv(c)' BY <1>2, <1>3, <1>5, <1>6, <1>7 DEF LifeInv, First
<1>13. NewsInv(c)'
  <2>1. \A m : LastOf(inbox', c, Balance, m) => m \in Waiting(c) /\ LastOf(inbox, c, Balance, m)
    BY <1>6, LastWaits DEF Waiting
  <2>2. \A m : LastOf(inbox', c, {"state"}, m) => m \in Waiting(c) /\ LastOf(inbox, c, {"state"}, m)
    BY <1>6, LastWaits DEF Waiting
  <2>3. ASSUME c \in up, \A m \in Waiting(c)' : m.ev # "state" PROVE map'[c].state = node[c].st
    <3>1. LastOf(inbox, c, {"state"}, h) BY <1>2, <1>6, <2>3
    <3> QED BY <1>3, <1>5, <1>41, <2>3, <3>1 DEF NewsInv
  <2>4. ASSUME \A m \in Waiting(c)' : m.ev \notin Balance PROVE map'[c].bal = node[c].bal
    <3>1. LastOf(inbox, c, Balance, h) BY <1>2, <1>6, <2>4 DEF Balance
    <3>2. h.bal = node[c].bal BY <1>3, <3>1 DEF NewsInv
    <3> QED BY <1>4, <1>5, <1>41, <3>2
  <2> QED BY <1>2, <1>3, <1>5, <1>6, <2>1, <2>2, <2>3, <2>4 DEF NewsInv
<1>14. ZeroInv(c)'
  <2>1. ASSUME node[c].bal = 0 PROVE ~e.cap /\ e.bal = 0 /\ ~Filed(c)'
    BY <1>3, <1>4, <1>8, <1>41, <2>1 DEF ZeroInv
  <2> QED BY <1>2, <1>3, <1>5, <1>6, <1>7, <1>41, <2>1 DEF ZeroInv
<1>15. RowInv(c)'
  <2>1. ASSUME Filed(c)' PROVE e.cap /\ table'[c].active
    BY <1>3, <1>4, <1>8, <1>41, <2>1
  <2>2. ASSUME node[c].st = "closed" PROVE Waiting(c)' # {}
    BY <1>2, <1>3, <1>6, <2>2
  <2>3. ASSUME NEW t \in Waiting(c)', t.ev = "terminated", node[c].bal # 0, \A m \in Waiting(c)' : ~Over(m)
        PROVE  /\ Filed(c)' /\ table'[c].bal = node[c].bal
               /\ \A m \in Waiting(c)' : m.ev = "terminated"
    <3>1. h.ev # "terminated" /\ h \in Waiting(c) /\ t \in Waiting(c) BY <1>2, <1>6, <2>3
    <3>2. \E m \in Waiting(c) : Over(m) BY <1>3, <2>3, <3>1 DEF RowInv
    <3>3. Over(h) BY <1>6, <2>3, <3>2
    <3>4. h.bal = node[c].bal BY <1>3, <3>3 DEF RowInv
    <3>5. \A m \in Waiting(c)' : m.ev = "terminated" BY <1>6, <3>3 DEF Follows
    <3> QED BY <1>8, <1>41, <2>3, <3>4, <3>5
  <2>4. \A m \in Waiting(c)' : Over(m) => node[c].st = "closed" /\ m.bal = node[c].bal
    BY <1>3, <1>6 DEF RowInv
  <2>5. \A m \in Waiting(c)' : m.ev # "created" BY <1>7 DEF First
  <2>6. Filed(c)' => /\ table'[c].msg => map'[c].msg
                     /\ table'[c].refund => map'[c].refund
    BY <1>5, <1>8, <2>1
  <2> QED BY <1>2, <2>1, <2>2, <2>3, <2>4, <2>5, <2>6 DEF RowInv, Over
<1>16. ToldInv(c)'
  <2>1. ASSUME NEW m \in Waiting(c)', Told(m) PROVE alerts[c] = 0
    <3>1. ~BeingTold(c) BY <1>4, <1>6, <2>1 DEF Follows
    <3> QED BY <1>3, <1>6, <2>1, <3>1 DEF ToldInv
  <2>2. ASSUME node[c].st = "closing" PROVE alerts[c] = 1 \/ c \in lost \/ \E m \in Waiting(c)' : Told(m)
    BY <1>3, <1>4, <1>6, <2>2 DEF ToldInv
  <2>3. ~BeingTold(c)' BY <1>6
  <2>4. (\E m \in Waiting(c)' : Told(m)) => node[c].st \in {"closing", "closed"}
    BY <1>3, <1>6 DEF ToldInv
  <2>5. alerts[c] \in {0, 1} /\ (alerts[c] = 1 => node[c].st \in {"closing", "closed"})
    BY <1>3 DEF ToldInv
  <2> QED BY <1>2, <2>1, <2>2, <2>3, <2>4, <2>5 DEF ToldInv, Told, Alert
<1> QED BY <1>2, <1>3, <1>5, <1>6, <1>8, <1>10, <1>11, <1>12, <1>13, <1>14, <1>15, <1>16, SuperviseRest

LEMMA TerminatedStep ==
  ASSUME ChannelsInv, Terminated
  PROVE  ChannelsInv'
<1>1. PICK h, c : h = Head(inbox) /\ c = h.c
  OBVIOUS
<1>2. /\ inbox # <<>> /\ inbox' = Tail(inbox) /\ h.ev = "terminated" /\ ~half /\ ~half' /\ half' \in BOOLEAN
      /\ UNCHANGED <<node, up, lost, alerts>>
  BY <1>1 DEF Terminated, Receive, Kept, ChannelsInv, Types
<1>3. /\ h \in Message /\ c \in Chans /\ h \in Waiting(c)
      /\ h.ev \notin First => Mapped(c)
      /\ NodeInv(c) /\ LifeInv(c) /\ NewsInv(c) /\ ZeroInv(c) /\ RowInv(c) /\ ToldInv(c)
      /\ node[c].bal \in {0} \cup Amounts /\ 0 \notin Amounts
      /\ (h.ev # "terminated" /\ node[c].st = "closed") =>
            \E m \in Waiting(c) : m.ev = "terminated" /\ m # h
  BY <1>1, <1>2, HeadMapped
<1>4. Mapped(c) /\ c \notin up /\ node[c].st = "closed"
  BY <1>2, <1>3 DEF LifeInv, First
<1>40. /\ map' = [x \in DOMAIN map \ {c} |-> map[x]]
       /\ table' = IF Filed(c) THEN [table EXCEPT ![c].active = FALSE] ELSE table
  BY <1>1, <1>4 DEF Terminated, channelTerminated, Mapped, Filed
<1>5. /\ DOMAIN map' \subseteq Chans /\ map' \in [DOMAIN map' -> Entry] /\ ~Mapped(c)'
      /\ \A u \in Chans \ {c} : (Mapped(u)' <=> Mapped(u)) /\ (Mapped(u) => map'[u] = map[u])
  <2>1. DOMAIN map \subseteq Chans /\ map \in [DOMAIN map -> Entry]
    BY DEF ChannelsInv, Types
  <2> QED BY <1>40, <2>1 DEF Mapped
<1>6. /\ inbox' \in Seq(Message) /\ HalfInv' /\ Ordered(inbox', c)
      /\ Waiting(c) = Waiting(c)' \cup {h}
      /\ \A m \in Waiting(c)' : Follows(h, m)
      /\ \A E, m : LastOf(inbox', c, E, m) => LastOf(inbox, c, E, m)
      /\ \A E : h.ev \in E /\ (\A m \in Waiting(c)' : m.ev \notin E) => LastOf(inbox, c, E, h)
      /\ ~BeingTold(c)'
      /\ \A u \in Chans \ {c} :
           /\ node'[u] = node[u] /\ ((u \in up') <=> (u \in up)) /\ alerts'[u] = alerts[u]
           /\ (u \in lost => u \in lost')
           /\ (Mapped(u)' <=> Mapped(u)) /\ (Mapped(u) => map'[u] = map[u])
           /\ (Filed(u)' <=> Filed(u)) /\ (Filed(u) => table'[u] = table[u])
           => ChanInv(u)'
  BY <1>1, <1>2, FirstTaken
<1>7. Waiting(c)' = {}
  BY <1>2, <1>6 DEF Follows
<1>70. Filed(c) => table[c].bal = node[c].bal
  BY <1>2, <1>3, <1>6, <1>7 DEF RowInv, Over, ZeroInv
<1>8. /\ DOMAIN table' \subseteq Chans /\ table' \in [DOMAIN table' -> Row] /\ alerts' \in [Chans -> Nat]
      /\ Filed(c)' <=> Filed(c)
      /\ Filed(c) => ~table'[c].active /\ table'[c].bal = table[c].bal
      /\ \A u \in Chans \ {c} : (Filed(u)' <=> Filed(u)) /\ (Filed(u) => table'[u] = table[u])
  <2>1. DOMAIN table \subseteq Chans /\ table \in [DOMAIN table -> Row] /\ alerts \in [Chans -> Nat]
    BY DEF ChannelsInv, Types
  <2> QED BY <1>2, <1>40, <2>1 DEF Filed, Row
<1>10. \A u \in Chans \ {c} : ChanInv(u)'
  BY <1>2, <1>5, <1>6, <1>8
<1>11. NodeInv(c)' BY <1>2, <1>3 DEF NodeInv, Stored
<1>12. LifeInv(c)' BY <1>2, <1>4, <1>5, <1>7 DEF LifeInv
<1>13. NewsInv(c)' BY <1>2, <1>4, <1>5, <1>7 DEF NewsInv
<1>14. ZeroInv(c)' BY <1>2, <1>3, <1>5, <1>7, <1>8 DEF ZeroInv
<1>15. RowInv(c)' BY <1>2, <1>4, <1>5, <1>7, <1>70, <1>8 DEF RowInv
<1>16. ToldInv(c)' BY <1>2, <1>3, <1>4, <1>6, <1>7 DEF ToldInv
<1> QED BY <1>2, <1>3, <1>5, <1>6, <1>8, <1>10, <1>11, <1>12, <1>13, <1>14, <1>15, <1>16, SuperviseRest

(***************************************************************************)
(* The process dies, and the beginning.                                    *)
(***************************************************************************)
LEMMA DieStep ==
  ASSUME ChannelsInv, Die
  PROVE  ChannelsInv'
<1>1. /\ node' = [c \in Chans |-> IF node[c].st = "accept" THEN [node[c] EXCEPT !.st = "closed"] ELSE node[c]]
      /\ lost' = lost \cup {inbox[i].c : i \in DOMAIN inbox}
      /\ up' = {} /\ inbox' = <<>> /\ half' = FALSE /\ map' = NoChannels /\ UNCHANGED <<table, alerts>>
  BY DEF Die
<1>2. Types
  BY DEF ChannelsInv
<1>3. node' \in [Chans -> [st : States, bal : {0} \cup Amounts, refund : BOOLEAN]]
  <2>1. ASSUME NEW c \in Chans
        PROVE  (IF node[c].st = "accept" THEN [node[c] EXCEPT !.st = "closed"] ELSE node[c])
                 \in [st : States, bal : {0} \cup Amounts, refund : BOOLEAN]
    BY <1>2 DEF Types, States
  <2> QED BY <1>1, <2>1
<1>4. lost' \subseteq Chans
  <2>1. \A i \in DOMAIN inbox : inbox[i] \in Message
    BY <1>2, ElementOfSeq, LenProperties DEF Types
  <2> QED BY <1>1, <1>2, <2>1 DEF Types, Message
<1>5. DOMAIN map' = {} /\ map' \in [DOMAIN map' -> Entry]
  BY <1>1 DEF NoChannels
<1>6. Types'
  <2>0. <<>> \in Seq(Message) OBVIOUS
  <2>1. inbox' \in Seq(Message) /\ half' \in BOOLEAN /\ up' \subseteq Chans BY <1>1, <2>0
  <2>2. /\ DOMAIN table' \subseteq Chans /\ table' \in [DOMAIN table' -> Row]
        /\ alerts' \in [Chans -> Nat]
    BY <1>1, <1>2 DEF Types
  <2> QED BY <1>3, <1>4, <1>5, <2>1, <2>2 DEF Types, States, Stored, Amounts, Message, Entry, Row
<1>7. HalfInv'
  BY <1>1 DEF HalfInv
<1>8. ASSUME NEW c \in Chans PROVE ChanInv(c)'
  <2>1. /\ NodeInv(c) /\ LifeInv(c) /\ NewsInv(c) /\ ZeroInv(c) /\ RowInv(c) /\ ToldInv(c)
        /\ node[c].st \in States
    BY OldNode
  <2>2. Waiting(c)' = {} /\ ~Mapped(c)' /\ (Filed(c)' <=> Filed(c)) /\ ~BeingTold(c)' /\ Ordered(inbox', c)
    BY <1>1, <1>5 DEF Waiting, Of, Mapped, Filed, BeingTold, Ordered
  <2>3. /\ node'[c].st = IF node[c].st = "accept" THEN "closed" ELSE node[c].st
        /\ node'[c].bal = node[c].bal
    BY <1>1, <1>2 DEF Types
  <2>4. Waiting(c) # {} => c \in lost'
    BY <1>1 DEF Waiting, Of
  <2>5. c \in lost => c \in lost'
    BY <1>1
  <2>6. NodeInv(c)' BY <1>1, <2>1, <2>3 DEF NodeInv, Stored
  <2>7. LifeInv(c)' BY <1>1, <2>2 DEF LifeInv
  <2>8. NewsInv(c)' BY <1>1, <2>2 DEF NewsInv
  <2>9. ZeroInv(c)' BY <2>1, <2>2, <2>3 DEF ZeroInv
  <2>10. RowInv(c)' BY <1>1, <2>1, <2>2, <2>3, <2>4, <2>5 DEF RowInv, NodeInv, ZeroInv
  <2>11. ToldInv(c)' BY <1>1, <2>1, <2>2, <2>3, <2>4, <2>5 DEF ToldInv
  <2> QED BY <2>2, <2>6, <2>7, <2>8, <2>9, <2>10, <2>11 DEF ChanInv
<1> QED BY <1>6, <1>7, <1>8 DEF ChannelsInv

LEMMA ChannelsInit ==
  ASSUME Init
  PROVE  ChannelsInv
<1>1. PICK old \in SUBSET Chans :
        /\ node = [c \in Chans |-> IF c \in old THEN [st |-> "normal", bal |-> 1, refund |-> FALSE]
                                               ELSE [st |-> "none", bal |-> 0, refund |-> FALSE]]
        /\ table = [c \in old |-> [bal |-> 1, msg |-> FALSE, refund |-> FALSE, active |-> TRUE]]
  BY DEF Init
<1>2. /\ up = {} /\ inbox = <<>> /\ half = FALSE /\ map = NoChannels /\ alerts = [c \in Chans |-> 0]
      /\ lost = {}
  BY DEF Init
<1>3. DOMAIN map = {} /\ map \in [DOMAIN map -> Entry] /\ DOMAIN table = old
  BY <1>1, <1>2 DEF NoChannels
<1>4. Types
  <2>1. node \in [Chans -> [st : States, bal : {0} \cup Amounts, refund : BOOLEAN]]
    BY <1>1 DEF States, Stored, Amounts
  <2>2. table \in [DOMAIN table -> Row]
    BY <1>1 DEF Row, Amounts
  <2>3. <<>> \in Seq(Message) OBVIOUS
  <2>4. inbox \in Seq(Message) /\ half \in BOOLEAN /\ up \subseteq Chans /\ lost \subseteq Chans
    BY <1>2, <2>3
  <2>5. alerts \in [Chans -> Nat] BY <1>2
  <2> QED BY <1>3, <2>1, <2>2, <2>4, <2>5 DEF Types
<1>5. HalfInv
  BY <1>2 DEF HalfInv
<1>6. ASSUME NEW c \in Chans PROVE ChanInv(c)
  <2>1. Waiting(c) = {} /\ ~Mapped(c) /\ ~BeingTold(c) /\ Ordered(inbox, c) /\ alerts[c] = 0 /\ c \notin up
    BY <1>2, <1>3 DEF Waiting, Of, Mapped, BeingTold, Ordered
  <2>2. CASE c \in old
    <3>1. node[c].st = "normal" /\ node[c].bal = 1 /\ node[c].bal # 0 BY <1>1, <2>2
    <3>2. Filed(c) /\ table[c].active /\ ~table[c].msg /\ ~table[c].refund BY <1>1, <2>2 DEF Filed
    <3> QED BY <2>1, <3>1, <3>2
         DEF ChanInv, NodeInv, LifeInv, NewsInv, ZeroInv, RowInv, ToldInv, Stored
  <2>3. CASE c \notin old
    <3>1. node[c].st = "none" /\ node[c].bal = 0 BY <1>1, <2>3
    <3>2. ~Filed(c) BY <1>1, <2>3 DEF Filed
    <3> QED BY <2>1, <3>1, <3>2
         DEF ChanInv, NodeInv, LifeInv, NewsInv, ZeroInv, RowInv, ToldInv, Stored
  <2> QED BY <2>2, <2>3
<1> QED BY <1>4, <1>5, <1>6 DEF ChannelsInv

LEMMA SuperviseStep ==
  ASSUME ChannelsInv, Supervise
  PROVE  ChannelsInv'
BY CreatedStep, RestoredStep, SignatureStep, ErrorStep, RefundStep, BeginsStep, EndsChangeStep,
   TerminatedStep DEF Supervise

LEMMA NodeStepStep ==
  ASSUME ChannelsInv, NEW c \in Chans, NodeStep(c)
  PROVE  ChannelsInv'
<1>1. ASSUME NodeEnds(c) PROVE ChannelsInv'
  <2>1. node[c].st \in {"accept", "closing"} BY <1>1 DEF NodeEnds
  <2> QED BY <1>1, <2>1, AbandonsStep, EndsStep
<1>2. ASSUME NEW error \in BOOLEAN, NodeCloses(c, error) PROVE ChannelsInv'
  <2>1. CASE error = TRUE BY <1>2, <2>1, FailsStep
  <2>2. CASE error = FALSE BY <1>2, <2>2, ClosesStep
  <2> QED BY <1>2, <2>1, <2>2
<1> QED BY <1>1, <1>2, OpensStep, FundsStep, MovesStep, PaysStep, ConfirmsStep, RestoresStep DEF NodeStep

LEMMA ChannelsNext ==
  ASSUME ChannelsInv, [Next]_vars
  PROVE  ChannelsInv'
<1>1. CASE UNCHANGED vars
  BY <1>1, Stutter DEF vars, chanVars
<1>2. CASE \E c \in Chans : NodeStep(c)
  BY <1>2, NodeStepStep
<1>3. CASE Supervise
  BY <1>3, SuperviseStep
<1>4. CASE Die
  BY <1>4, DieStep
<1>5. CASE LeaveHome
  BY <1>5, Stutter DEF LeaveHome
<1>6. CASE OpenHome
  BY <1>6, Stutter DEF OpenHome
<1>7. CASE Restart
  BY <1>7, Stutter DEF Restart
<1>8. ASSUME NEW k \in Kinds, Scheduled(k) PROVE ChannelsInv'
  BY <1>8, Stutter DEF Scheduled, chanVars
<1>9. ASSUME NEW k \in Kinds, handleEvent(k) PROVE ChannelsInv'
  BY <1>9, Stutter DEF handleEvent
<1> QED BY <1>1, <1>2, <1>3, <1>4, <1>5, <1>6, <1>7, <1>8, <1>9 DEF Next

LEMMA ChannelsInductive == Spec => []ChannelsInv
<1>1. Init => ChannelsInv BY ChannelsInit
<1>2. ChannelsInv /\ [Next]_vars => ChannelsInv' BY ChannelsNext
<1> QED BY <1>1, <1>2, PTL DEF Spec

LEMMA PendingWaits ==
  ASSUME NEW c
  PROVE  Pending(c) <=> Waiting(c) # {}
BY DEF Pending, Waiting, Of

(***************************************************************************)
(* The map of NodeSupervisor agrees with the node on every channel that no *)
(* event is waiting about: the same channels, in the same state, with the  *)
(* same balance, after any deaths of the process and any restarts.         *)
(***************************************************************************)
THEOREM MapAlwaysFollowsNode == Spec => []MapFollowsNode
<1>1. ASSUME ChannelsInv PROVE MapFollowsNode
  <2> SUFFICES ASSUME NEW c \in Chans, ~Pending(c)
               PROVE  /\ Mapped(c) <=> c \in up
                      /\ c \in up => map[c].state = node[c].st /\ map[c].bal = node[c].bal
    BY DEF MapFollowsNode, Mapped
  <2>1. Waiting(c) = {} BY PendingWaits
  <2>2. LifeInv(c) /\ NewsInv(c) BY <1>1 DEF ChannelsInv, ChanInv
  <2> QED BY <2>1, <2>2 DEF LifeInv, NewsInv
<1> QED BY <1>1, ChannelsInductive, PTL

(***************************************************************************)
(* A row of LOCAL_CHANNEL is inactive only for a channel that is over, and *)
(* has its last balance; a channel that is over has an inactive row, unless *)
(* its Terminated waits or died with the process.                          *)
(***************************************************************************)
THEOREM TableAlwaysFollowsNode == Spec => []TableFollowsNode
<1>1. ASSUME ChannelsInv PROVE TableFollowsNode
  <2> SUFFICES ASSUME NEW c \in DOMAIN table
               PROVE  /\ ~table[c].active => node[c].st = "closed" /\ table[c].bal = node[c].bal
                      /\ node[c].st = "closed" /\ table[c].active => Pending(c) \/ c \in lost
    BY DEF TableFollowsNode
  <2>1. c \in Chans BY <1>1 DEF ChannelsInv, Types
  <2>2. RowInv(c) /\ Filed(c) BY <1>1, <2>1 DEF ChannelsInv, ChanInv, Filed
  <2> QED BY <2>2, PendingWaits DEF RowInv
<1> QED BY <1>1, ChannelsInductive, PTL

(***************************************************************************)
(* ChannelStateChanged notifies the user of the closing of a channel at    *)
(* most once, and the notification of a channel that is closing has been   *)
(* sent, unless its event waits or died with the process.                  *)
(***************************************************************************)
THEOREM ClosingIsAlwaysToldOnce == Spec => []ClosingIsToldOnce
<1>1. ASSUME ChannelsInv PROVE ClosingIsToldOnce
  <2> SUFFICES ASSUME NEW c \in Chans
               PROVE  /\ alerts[c] <= 1
                      /\ node[c].st = "closing" => alerts[c] = 1 \/ Pending(c) \/ c \in lost
    BY DEF ClosingIsToldOnce
  <2>1. ToldInv(c) BY <1>1 DEF ChannelsInv, ChanInv
  <2>2. alerts[c] <= 1 BY <2>1 DEF ToldInv
  <2> QED BY <2>1, <2>2, PendingWaits DEF ToldInv
<1> QED BY <1>1, ChannelsInductive, PTL

(* A step that saves the entry of channel c. *)
KeepsRow(c) ==
  /\ c \in DOMAIN table'
  /\ table[c].msg => table'[c].msg
  /\ table[c].refund => table'[c].refund
  /\ ~table[c].active => ~table'[c].active

LEMMA SaveKeeps ==
  ASSUME ChannelsInv, NEW c \in Chans, Mapped(c), NEW e, saveLocalChannel(c, e),
         map[c].msg => e.msg, map[c].refund => e.refund
  PROVE  \A u \in DOMAIN table : KeepsRow(u)
<1>1. table \in [DOMAIN table -> Row] /\ RowInv(c)
  BY DEF ChannelsInv, Types, ChanInv
<1>2. Filed(c) => /\ table[c].msg => e.msg
                  /\ table[c].refund => e.refund
                  /\ table[c].active
  BY <1>1 DEF RowInv
<1>3. CASE e.cap
  <2>1. PICK r : r = [bal |-> e.bal, msg |-> e.msg, refund |-> e.refund, active |-> TRUE]
    OBVIOUS
  <2>2. table' = [x \in DOMAIN table \cup {c} |-> IF x = c THEN r ELSE table[x]]
    BY <1>3, <2>1 DEF saveLocalChannel
  <2>3. r.msg = e.msg /\ r.refund = e.refund
    BY <2>1
  <2> QED BY <1>2, <2>2, <2>3 DEF KeepsRow, Filed
<1>4. CASE ~e.cap
  BY <1>4 DEF saveLocalChannel, KeepsRow
<1> QED BY <1>3, <1>4

(***************************************************************************)
(* The error message and the refund of a channel, which the node sends     *)
(* once, stay in LOCAL_CHANNEL when they are there: the entry that replaces *)
(* the row has them too, as ChannelRestored takes them from the row.  And  *)
(* no row is removed or becomes active again.                              *)
(***************************************************************************)
THEOREM SentOnceIsAlwaysKept == Spec => SentOnceIsKept
<1>1. ASSUME ChannelsInv, [Next]_vars
      PROVE  \A c \in DOMAIN table : KeepsRow(c)
  <2>1. CASE UNCHANGED table
    BY <2>1 DEF KeepsRow
  <2>2. PICK h, c : h = Head(inbox) /\ c = h.c
    OBVIOUS
  <2>3. CASE ChannelErrorOccurred
    <3>1. inbox # <<>> /\ h.ev = "error" BY <2>2, <2>3 DEF ChannelErrorOccurred, Receive
    <3>2. Mapped(c) /\ c \in Chans BY <1>1, <2>2, <3>1, HeadMapped DEF First
    <3>3. map' = [map EXCEPT ![c].msg = TRUE] /\ saveLocalChannel(c, map'[c])
      BY <2>2, <2>3, <3>2 DEF ChannelErrorOccurred, Mapped
    <3>4. PICK e : e = map'[c] OBVIOUS
    <3>5. map[c] \in Entry /\ c \in DOMAIN map BY <1>1, <3>2 DEF ChannelsInv, Types, Mapped
    <3>6. e = [map[c] EXCEPT !.msg = TRUE] BY <3>3, <3>4, <3>5
    <3>7. e.msg /\ e.refund = map[c].refund BY <3>5, <3>6 DEF Entry
    <3> QED BY <1>1, <3>2, <3>3, <3>4, <3>7, SaveKeeps
  <2>4. CASE LocalCommitConfirmed
    <3>1. inbox # <<>> /\ h.ev = "refund" BY <2>2, <2>4 DEF LocalCommitConfirmed, Receive
    <3>2. Mapped(c) /\ c \in Chans BY <1>1, <2>2, <3>1, HeadMapped DEF First
    <3>3. map' = [map EXCEPT ![c].refund = TRUE] /\ saveLocalChannel(c, map'[c])
      BY <2>2, <2>4, <3>2 DEF LocalCommitConfirmed, Mapped
    <3>4. PICK e : e = map'[c] OBVIOUS
    <3>5. map[c] \in Entry /\ c \in DOMAIN map BY <1>1, <3>2 DEF ChannelsInv, Types, Mapped
    <3>6. e = [map[c] EXCEPT !.refund = TRUE] BY <3>3, <3>4, <3>5
    <3>7. e.refund /\ e.msg = map[c].msg BY <3>5, <3>6 DEF Entry
    <3> QED BY <1>1, <3>2, <3>3, <3>4, <3>7, SaveKeeps
  <2>5. CASE StateChangedEnds
    <3>1. inbox # <<>> /\ Mapped(c) BY <1>1, <2>2, <2>5 DEF StateChangedEnds, ChannelsInv, HalfInv
    <3>2. c \in Chans /\ map[c] \in Entry BY <1>1, <3>1 DEF ChannelsInv, Types, Mapped
    <3>3. PICK e : e = IF h.bal > 0 THEN [map[c] EXCEPT !.bal = h.bal, !.cap = TRUE] ELSE map[c]
      OBVIOUS
    <3>4. saveLocalChannel(c, e) BY <2>2, <2>5, <3>3 DEF StateChangedEnds
    <3>5. e.msg = map[c].msg /\ e.refund = map[c].refund BY <3>2, <3>3 DEF Entry
    <3> QED BY <1>1, <3>1, <3>2, <3>4, <3>5, SaveKeeps
  <2>6. CASE Terminated
    <3>1. \/ c \in DOMAIN table /\ table' = [table EXCEPT ![c].active = FALSE]
          \/ table' = table
      BY <2>2, <2>6 DEF Terminated, channelTerminated
    <3>2. table \in [DOMAIN table -> Row] BY <1>1 DEF ChannelsInv, Types
    <3> QED BY <3>1, <3>2 DEF KeepsRow, Row
  <2>7. \/ UNCHANGED table \/ ChannelErrorOccurred \/ LocalCommitConfirmed \/ StateChangedEnds
        \/ Terminated
    <3>1. CASE UNCHANGED vars BY <3>1 DEF vars, chanVars
    <3>2. CASE \E c2 \in Chans : NodeStep(c2)
      BY <3>2 DEF NodeStep, NodeOpens, NodeFunds, NodeConfirms, NodeEnds, NodeRestores, NodeMoves,
                  NodePays, NodeCloses, Publish
    <3>3. CASE Supervise
      BY <3>3 DEF Supervise, ChannelCreated, ChannelRestored, ChannelSignatureReceived,
                  StateChangedBegins
    <3>4. CASE LeaveHome \/ OpenHome \/ Die \/ Restart
      BY <3>4 DEF LeaveHome, OpenHome, Die, Restart
    <3>5. CASE \E k \in Kinds : Scheduled(k) \/ handleEvent(k)
      BY <3>5 DEF Scheduled, handleEvent, chanVars
    <3> QED BY <1>1, <3>1, <3>2, <3>3, <3>4, <3>5 DEF Next
  <2> QED BY <2>1, <2>3, <2>4, <2>5, <2>6, <2>7
<1>2. ChannelsInv /\ [Next]_vars =>
        [\A c \in DOMAIN table :
           /\ c \in DOMAIN table'
           /\ table[c].msg => table'[c].msg
           /\ table[c].refund => table'[c].refund
           /\ ~table[c].active => ~table'[c].active]_vars
  BY <1>1 DEF KeepsRow
<1> QED BY <1>2, ChannelsInductive, PTL DEF Spec, SentOnceIsKept
================================================================================
