----------------------------- MODULE ChatProofs -----------------------------
(***************************************************************************)
(* The chat of a table, for every number of messages, switches and lost    *)
(* sockets: the page at one end, the coordinator's hub at the other.       *)
(***************************************************************************)
EXTENDS TableChat, SequenceTheorems, TLAPS

(* The chat of the selected table. *)

Rooms == Tables \cup {"global"}
MsgType == [table : Tables, id : Nat]
UpType ==
    [type : {"subscribe", "unsubscribe"}, table : Rooms]
      \cup [type : {"chat_history", "table_chat"}, table : Tables]
DownType ==
    [type : {"table_chat"}, body : MsgType] \cup [type : {"chat_history"}, body : Seq(MsgType)]
PageType ==
    [sock : {"none", "connecting", "open"}, timer : BOOLEAN, selected : Tables \cup {NoTable},
     ref : Tables \cup {NoTable}, subscribed : Tables \cup {NoTable}, effects : BOOLEAN,
     chat : Seq(MsgType), mixed : BOOLEAN]

HubType == [subs : [Senders -> SUBSET Rooms], lastChat : [Senders -> Nat]]
BudgetType == [drops : Nat, switches : Nat, chats : 0 .. MaxChats]

ChatTypes ==
    /\ page \in PageType /\ up \in Seq(UpType) /\ down \in Seq(DownType)
    /\ hub \in HubType
    /\ ring \in [Tables -> Seq(MsgType)]
    /\ secs \in Nat
    /\ budget \in BudgetType

\* What is sent about one room, and what the subscriptions W are after message m.
Abouts(q, x) == {i \in DOMAIN q : q[i].type \in {"subscribe", "unsubscribe"} /\ q[i].table = x}
Handled(m, W) ==
    IF m.type = "subscribe" THEN W \cup {m.table}
    ELSE IF m.type = "unsubscribe" THEN W \ {m.table} ELSE W

\* Handling what is in q turns the subscriptions S into W: the last word on a room counts.
Leaves(q, S, W) ==
    \A x \in Rooms :
      /\ Abouts(q, x) = {} => (x \in S <=> x \in W)
      /\ \A i \in Abouts(q, x) :
           (\A j \in Abouts(q, x) : j <= i) => (q[i].type = "subscribe" <=> x \in W)

Wanted == {"global"} \cup ({page.ref} \ {NoTable})

\* The hub will have subscribed the page to what it wants; without a socket, to nothing.
SubsInv ==
    /\ ~page.effects => page.ref = page.selected
    /\ page.sock = "open" => page.subscribed = page.ref /\ Leaves(up, hub.subs["page"], Wanted)
    /\ page.sock # "open" => up = <<>> /\ down = <<>> /\ hub.subs["page"] = {}

\* Messages of one table; messages in order; messages before the n-th.
AllOf(s, t) == \A i \in DOMAIN s : s[i].table = t
Rising(s) == \A i, j \in DOMAIN s : i < j => s[i].id < s[j].id
Below(s, n) == \A i \in DOMAIN s : s[i].id < n

IsHistory(m) == m.type = "chat_history"
HasHistory(q) == \E i \in DOMAIN q : IsHistory(q[i])
LastHistory(q, i) == IsHistory(q[i]) /\ \A k \in DOMAIN q : k > i => ~IsHistory(q[k])
OfTable(m, t) == IF IsHistory(m) THEN AllOf(m.body, t) ELSE m.body.table = t

\* What the page has asked for, and what it is subscribed to: the last history asked for
\* is the table's, and no subscription changes after it.
AskedOk(q, t) ==
    \A i \in DOMAIN q : LastHistory(q, i) =>
      q[i].table = t /\ \A k \in DOMAIN q : k > i => q[k].type = "table_chat"
CleanOk(q, S, t) ==
    /\ S \subseteq {"global", t}
    /\ \A i \in DOMAIN q : q[i].type = "subscribe" => q[i].table \in {"global", t}
\* From the last history on, or from the start without one, what comes is of the table.
ComingOk(d, t) ==
    \A j \in DOMAIN d : (\A k \in DOMAIN d : k > j => ~IsHistory(d[k])) => OfTable(d[j], t)

\* While a history is asked for, what the page shows will be replaced; after it, and on a
\* socket that was opened without one, all that comes is of the page's table.
TableOk(t) ==
    /\ page.sock = "open" => AskedOk(up, t)
    /\ (page.sock = "open" /\ ~HasHistory(up)) =>
         CleanOk(up, hub.subs["page"], t) /\ ComingOk(down, t)
    /\ (~page.mixed /\ ~HasHistory(up) /\ ~HasHistory(down)) => AllOf(page.chat, t)

TableInv ==
    /\ page.ref # NoTable => TableOk(page.ref)
    /\ \A t \in Tables : AllOf(ring[t], t)

NextId == MaxChats - budget.chats + 1

\* Every message that is still to come is newer than what is shown and than what comes
\* before it.
InOrder(d, chat, n) ==
    \A j \in DOMAIN d :
      IF IsHistory(d[j]) THEN Rising(d[j].body) /\ Below(d[j].body, n)
      ELSE /\ Below(chat, d[j].body.id) /\ d[j].body.id < n
           /\ \A i \in DOMAIN d : i < j =>
                IF IsHistory(d[i]) THEN Below(d[i].body, d[j].body.id)
                ELSE d[i].body.id < d[j].body.id

OrderInv ==
    /\ \A t \in Tables : Rising(ring[t]) /\ Below(ring[t], NextId)
    /\ Rising(page.chat) /\ Below(page.chat, NextId)
    /\ InOrder(down, page.chat, NextId)

LimitInv ==
    bucket.count \in Nat /\ bucket.accepted = bucket.count /\ bucket.count <= IP_CHAT_LIMIT_PER_MIN

ChatInv == ChatTypes /\ SubsInv /\ TableInv /\ OrderInv /\ LimitInv

\* The first element and the rest.
LEMMA TailAt ==
  ASSUME NEW S, NEW q \in Seq(S), q # <<>>
  PROVE  /\ Len(q) \in Nat \ {0} /\ DOMAIN q = 1 .. Len(q) /\ 1 \in DOMAIN q
         /\ Head(q) = q[1] /\ Head(q) \in S
         /\ Tail(q) \in Seq(S) /\ DOMAIN Tail(q) = 1 .. Len(q) - 1
         /\ \A i \in 1 .. Len(q) - 1 : Tail(q)[i] = q[i + 1]
<1>1. Len(q) \in Nat \ {0} /\ DOMAIN q = 1 .. Len(q)
  BY EmptySeq, LenProperties
<1>2. /\ Head(q) \in S /\ Tail(q) \in Seq(S) /\ Len(Tail(q)) = Len(q) - 1
      /\ \A i \in 1 .. Len(Tail(q)) : Tail(q)[i] = q[i + 1]
  BY HeadTailProperties
<1>3. DOMAIN Tail(q) = 1 .. Len(q) - 1
  BY <1>2, LenProperties
<1>4. Head(q) = q[1]
  OBVIOUS
<1> QED BY <1>1, <1>2, <1>3, <1>4

\* The old elements and the new one.
LEMMA AppendAt ==
  ASSUME NEW S, NEW q \in Seq(S), NEW m \in S
  PROVE  /\ Append(q, m) \in Seq(S) /\ Len(q) \in Nat /\ DOMAIN q = 1 .. Len(q)
         /\ DOMAIN Append(q, m) = 1 .. Len(q) + 1
         /\ \A i \in 1 .. Len(q) : Append(q, m)[i] = q[i]
         /\ Append(q, m)[Len(q) + 1] = m
<1>1. /\ Append(q, m) \in Seq(S) /\ Len(Append(q, m)) = Len(q) + 1
      /\ \A i \in 1 .. Len(q) : Append(q, m)[i] = q[i]
      /\ Append(q, m)[Len(q) + 1] = m
  BY AppendProperties
<1> QED BY <1>1, LenProperties

\* z is s without its first d elements.
WithoutFirst(z, s, d) ==
    /\ d <= Len(s) /\ DOMAIN z = 1 .. Len(s) - d
    /\ \A i \in 1 .. Len(s) - d : z[i] = s[i + d]

\* Trimming drops from the front.
LEMMA TrimmedShift ==
  ASSUME NEW S, NEW s \in Seq(S), NEW size \in Nat
  PROVE  Trimmed(s, size) \in Seq(S) /\ \E d \in Nat : WithoutFirst(Trimmed(s, size), s, d)
<1>1. Len(s) \in Nat /\ DOMAIN s = 1 .. Len(s)
  BY LenProperties
<1>2. CASE ~(Len(s) > size)
  <2>1. Trimmed(s, size) = s
    BY <1>2 DEF Trimmed
  <2>2. \A i \in 1 .. Len(s) - 0 : i + 0 = i
    BY <1>1
  <2>3. /\ 0 \in Nat /\ 0 <= Len(s) /\ DOMAIN Trimmed(s, size) = 1 .. Len(s) - 0
        /\ \A i \in 1 .. Len(s) - 0 : Trimmed(s, size)[i] = s[i + 0]
    BY <1>1, <2>1, <2>2
  <2> QED BY Zenon, <2>1, <2>3 DEF WithoutFirst
<1>3. CASE Len(s) > size
  <2> DEFINE d == Len(s) - size
             c == SubSeq(s, d + 1, Len(s))
  <2>1. d \in Nat /\ d <= Len(s) /\ d + 1 \in 1 .. Len(s) + 1 /\ Len(s) \in (d + 1) - 1 .. Len(s)
    BY <1>1, <1>3
  <2>2. Trimmed(s, size) = c
    BY <1>3 DEF Trimmed
  <2> HIDE DEF d
  <2>3. /\ c \in Seq(S) /\ Len(c) = Len(s) - (d + 1) + 1
        /\ \A i \in 1 .. Len(s) - (d + 1) + 1 : c[i] = s[(d + 1) + i - 1]
    BY <2>1, SubSeqProperties
  <2> HIDE DEF c
  <2>4. DOMAIN c = 1 .. Len(c)
    BY <2>3, LenProperties
  <2>5. Len(s) - (d + 1) + 1 = Len(s) - d
    BY <1>1, <2>1
  <2>6. DOMAIN c = 1 .. Len(s) - d
    BY <2>3, <2>4, <2>5
  <2>7. ASSUME NEW i \in 1 .. Len(s) - d PROVE c[i] = s[i + d]
    <3>1. (d + 1) + i - 1 = i + d
      BY <1>1, <2>1
    <3>2. c[i] = s[(d + 1) + i - 1]
      BY <2>3, <2>5
    <3> QED BY <3>1, <3>2
  <2> QED BY <2>1, <2>2, <2>3, <2>6, <2>7 DEF WithoutFirst
<1> QED BY <1>2, <1>3

\* z is of one table, in order and below n if s and m are.
MadeOf(z, s, m) ==
    /\ \A t : AllOf(s, t) /\ m.table = t => AllOf(z, t)
    /\ Rising(s) /\ Below(s, m.id) => Rising(z)
    /\ \A n : Below(s, n) /\ m.id < n => Below(z, n)

\* A message is added and the oldest are dropped: of one table, in order and old as before
\* (addChatMessage, and the page's chat).
LEMMA ShownKeeps ==
  ASSUME NEW s \in Seq(MsgType), NEW m \in MsgType, NEW size \in Nat,
         NEW z, z = Trimmed(Append(s, m), size)
  PROVE  z \in Seq(MsgType) /\ MadeOf(z, s, m)
<1> DEFINE a == Append(s, m)
<1>1. /\ a \in Seq(MsgType) /\ Len(s) \in Nat /\ DOMAIN s = 1 .. Len(s)
      /\ DOMAIN a = 1 .. Len(s) + 1 /\ a[Len(s) + 1] = m
      /\ \A i \in 1 .. Len(s) : a[i] = s[i]
  BY AppendAt
<1>2. Len(a) = Len(s) + 1
  BY <1>1, LenProperties
<1> HIDE DEF a
<1>3. z \in Seq(MsgType)
  BY Zenon, <1>1, TrimmedShift DEF a
<1>4. PICK d \in Nat : /\ d <= Len(a) /\ DOMAIN z = 1 .. Len(a) - d
                       /\ \A i \in 1 .. Len(a) - d : z[i] = a[i + d]
  <2>1. z = Trimmed(a, size)
    BY DEF a
  <2>2. \E d \in Nat : WithoutFirst(Trimmed(a, size), a, d)
    BY <1>1, TrimmedShift
  <2> QED BY <2>1, <2>2 DEF WithoutFirst
<1>5. \A i \in DOMAIN z : z[i] = a[i + d] /\ i + d \in DOMAIN a /\ i \in Nat
  BY <1>1, <1>2, <1>4
<1>6. ASSUME NEW t, AllOf(s, t), m.table = t PROVE AllOf(z, t)
  <2>1. \A i \in DOMAIN a : a[i].table = t
    BY <1>1, <1>6 DEF AllOf
  <2> QED BY <1>5, <2>1 DEF AllOf
<1>7. ASSUME NEW n, Below(s, n), m.id < n PROVE Below(z, n)
  <2>1. \A i \in DOMAIN a : a[i].id < n
    BY <1>1, <1>7 DEF Below
  <2> QED BY <1>5, <2>1 DEF Below
<1>8. ASSUME Rising(s), Below(s, m.id) PROVE Rising(z)
  <2>1. ASSUME NEW i \in DOMAIN a, NEW j \in DOMAIN a, i < j PROVE a[i].id < a[j].id
    <3>1. i \in DOMAIN s /\ a[i] = s[i]
      BY <1>1, <2>1
    <3>2. CASE j \in DOMAIN s
      BY <1>1, <1>8, <2>1, <3>1, <3>2 DEF Rising
    <3>3. CASE j = Len(s) + 1
      BY <1>1, <1>8, <3>1, <3>3 DEF Below
    <3> QED BY <1>1, <3>2, <3>3
  <2>2. ASSUME NEW i \in DOMAIN z, NEW j \in DOMAIN z, i < j PROVE z[i].id < z[j].id
    <3>1. i + d < j + d /\ i + d \in DOMAIN a /\ j + d \in DOMAIN a
      BY <1>5, <2>2
    <3> QED BY <1>5, <2>1, <3>1
  <2> QED BY <2>2 DEF Rising
<1> QED BY <1>3, <1>6, <1>7, <1>8 DEF MadeOf

\* One more word about a room is the last.
LEMMA LeavesAppend ==
  ASSUME NEW q \in Seq(UpType), NEW m \in UpType, NEW S, NEW W, Leaves(q, S, W)
  PROVE  Leaves(Append(q, m), S, Handled(m, W))
<1> DEFINE p == Append(q, m)
           V == Handled(m, W)
<1>1. /\ Len(q) \in Nat /\ DOMAIN q = 1 .. Len(q) /\ DOMAIN p = 1 .. Len(q) + 1
      /\ p[Len(q) + 1] = m /\ \A i \in 1 .. Len(q) : p[i] = q[i]
  BY AppendAt
<1> HIDE DEF p
<1>2. ASSUME NEW x \in Rooms
      PROVE  /\ Abouts(p, x) = {} => (x \in S <=> x \in V)
             /\ \A i \in Abouts(p, x) :
                  (\A j \in Abouts(p, x) : j <= i) => (p[i].type = "subscribe" <=> x \in V)
  <2>1. CASE m.type \in {"subscribe", "unsubscribe"} /\ m.table = x
    <3>1. Len(q) + 1 \in Abouts(p, x)
      BY <1>1, <2>1 DEF Abouts
    <3>2. \A i \in Abouts(p, x) : (\A j \in Abouts(p, x) : j <= i) => i = Len(q) + 1
      BY <1>1, <3>1 DEF Abouts
    <3>3. m.type = "subscribe" <=> x \in V
      BY <2>1 DEF Handled
    <3> QED BY <1>1, <3>1, <3>2, <3>3
  <2>2. CASE ~(m.type \in {"subscribe", "unsubscribe"} /\ m.table = x)
    <3>1. Abouts(p, x) = Abouts(q, x)
      BY <1>1, <2>2 DEF Abouts
    <3>2. x \in V <=> x \in W
      BY <2>2 DEF Handled
    <3>3. \A i \in Abouts(q, x) : p[i] = q[i]
      BY <1>1 DEF Abouts
    <3> QED BY <3>1, <3>2, <3>3 DEF Leaves
  <2> QED BY <2>1, <2>2
<1> QED BY Zenon, <1>2 DEF Leaves, p

\* The hub handles the oldest message.
LEMMA LeavesTail ==
  ASSUME NEW q \in Seq(UpType), q # <<>>, NEW S, NEW W, Leaves(q, S, W)
  PROVE  Leaves(Tail(q), Handled(Head(q), S), W)
<1> DEFINE p == Tail(q)
           h == Head(q)
           V == Handled(h, S)
<1>1. /\ Len(q) \in Nat \ {0} /\ DOMAIN q = 1 .. Len(q) /\ h = q[1]
      /\ DOMAIN p = 1 .. Len(q) - 1 /\ \A i \in 1 .. Len(q) - 1 : p[i] = q[i + 1]
  BY TailAt
<1> HIDE DEF p, h
<1>2. ASSUME NEW x \in Rooms
      PROVE  /\ Abouts(p, x) = {} => (x \in V <=> x \in W)
             /\ \A i \in Abouts(p, x) :
                  (\A j \in Abouts(p, x) : j <= i) => (p[i].type = "subscribe" <=> x \in W)
  <2>1. \A i \in 1 .. Len(q) - 1 : i \in Abouts(p, x) <=> i + 1 \in Abouts(q, x)
    BY <1>1 DEF Abouts
  <2>2. Abouts(p, x) \subseteq 1 .. Len(q) - 1 /\ Abouts(q, x) \subseteq 1 .. Len(q)
    BY <1>1 DEF Abouts
  <2>3. 1 \in Abouts(q, x) <=> h.type \in {"subscribe", "unsubscribe"} /\ h.table = x
    BY <1>1 DEF Abouts
  <2>4. \A j \in Abouts(q, x) : j = 1 \/ (j - 1 \in Abouts(p, x) /\ j = (j - 1) + 1)
    BY <1>1, <2>1, <2>2
  <2>5. ASSUME Abouts(p, x) = {} PROVE x \in V <=> x \in W
    <3>1. Abouts(q, x) \subseteq {1}
      BY <2>4, <2>5
    <3>2. CASE 1 \in Abouts(q, x)
      <4>1. q[1].type = "subscribe" <=> x \in W
        BY <3>1, <3>2 DEF Leaves
      <4>2. x \in V <=> h.type = "subscribe"
        BY <2>3, <3>2 DEF Handled
      <4> QED BY <1>1, <4>1, <4>2
    <3>3. CASE 1 \notin Abouts(q, x)
      <4>1. Abouts(q, x) = {}
        BY <3>1, <3>3
      <4>2. x \in V <=> x \in S
        BY <2>3, <3>3 DEF Handled
      <4> QED BY <4>1, <4>2 DEF Leaves
    <3> QED BY <3>2, <3>3
  <2>6. ASSUME NEW i \in Abouts(p, x), \A j \in Abouts(p, x) : j <= i
        PROVE  p[i].type = "subscribe" <=> x \in W
    <3>1. i \in 1 .. Len(q) - 1 /\ i + 1 \in Abouts(q, x) /\ p[i] = q[i + 1]
      BY <1>1, <2>1, <2>2
    <3>2. \A j \in Abouts(q, x) : j <= i + 1
      BY <1>1, <2>2, <2>4, <2>6, <3>1
    <3> QED BY <3>1, <3>2 DEF Leaves
  <2> QED BY <2>5, <2>6
<1> QED BY Zenon, <1>2 DEF Leaves, p, h

\* Nothing more to say: the subscriptions are what they were to be.
LEMMA LeavesDone ==
  ASSUME NEW q, NEW S \in SUBSET Rooms, NEW W \in SUBSET Rooms, Leaves(q, S, W),
         \A i \in DOMAIN q : q[i].type \notin {"subscribe", "unsubscribe"}
  PROVE  S = W
<1>1. \A x \in Rooms : Abouts(q, x) = {}
  BY DEF Abouts
<1> QED BY <1>1 DEF Leaves

\* Histories in a queue of which the oldest is handled.
LEMMA HistoryTail ==
  ASSUME NEW S, NEW q \in Seq(S), q # <<>>
  PROVE  HasHistory(q) <=> IsHistory(Head(q)) \/ HasHistory(Tail(q))
<1>1. /\ Len(q) \in Nat \ {0} /\ DOMAIN q = 1 .. Len(q) /\ 1 \in DOMAIN q /\ Head(q) = q[1]
      /\ DOMAIN Tail(q) = 1 .. Len(q) - 1 /\ \A i \in 1 .. Len(q) - 1 : Tail(q)[i] = q[i + 1]
  BY TailAt
<1>2. ASSUME NEW i \in DOMAIN q, IsHistory(q[i]) PROVE IsHistory(Head(q)) \/ HasHistory(Tail(q))
  <2>1. CASE i = 1
    BY <1>1, <1>2, <2>1
  <2>2. CASE i # 1
    <3>1. i - 1 \in DOMAIN Tail(q) /\ Tail(q)[i - 1] = q[i]
      BY <1>1, <2>2
    <3> QED BY <1>2, <3>1 DEF HasHistory
  <2> QED BY <2>1, <2>2
<1>3. ASSUME NEW i \in DOMAIN Tail(q), IsHistory(Tail(q)[i]) PROVE HasHistory(q)
  <2>1. i + 1 \in DOMAIN q /\ q[i + 1] = Tail(q)[i]
    BY <1>1
  <2> QED BY <1>3, <2>1 DEF HasHistory
<1>4. IsHistory(Head(q)) => HasHistory(q)
  BY <1>1 DEF HasHistory
<1> QED BY <1>2, <1>3, <1>4 DEF HasHistory

\* Histories in a queue that gets one more message.
LEMMA HistoryAppend ==
  ASSUME NEW S, NEW q \in Seq(S), NEW m \in S
  PROVE  HasHistory(Append(q, m)) <=> HasHistory(q) \/ IsHistory(m)
<1> DEFINE p == Append(q, m)
<1>1. /\ Len(q) \in Nat /\ DOMAIN q = 1 .. Len(q) /\ DOMAIN p = 1 .. Len(q) + 1
      /\ p[Len(q) + 1] = m /\ \A i \in 1 .. Len(q) : p[i] = q[i]
  BY AppendAt
<1> HIDE DEF p
<1>2. ASSUME NEW i \in DOMAIN p, IsHistory(p[i]) PROVE HasHistory(q) \/ IsHistory(m)
  BY <1>1, <1>2 DEF HasHistory
<1>3. ASSUME NEW i \in DOMAIN q, IsHistory(q[i]) PROVE HasHistory(p)
  BY <1>1, <1>3 DEF HasHistory
<1>4. IsHistory(m) => HasHistory(p)
  BY <1>1 DEF HasHistory
<1>5. HasHistory(p) <=> HasHistory(q) \/ IsHistory(m)
  BY <1>2, <1>3, <1>4 DEF HasHistory
<1> QED BY <1>5 DEF p

\* The oldest request is handled; if it was the last for a history, only chat is left.
LEMMA AskedTail ==
  ASSUME NEW S, NEW q \in Seq(S), q # <<>>, NEW t, AskedOk(q, t)
  PROVE  /\ AskedOk(Tail(q), t)
         /\ (IsHistory(Head(q)) /\ ~HasHistory(Tail(q))) =>
              /\ Head(q).table = t
              /\ \A i \in DOMAIN Tail(q) : Tail(q)[i].type = "table_chat"
<1> DEFINE p == Tail(q)
<1>1. /\ Len(q) \in Nat \ {0} /\ DOMAIN q = 1 .. Len(q) /\ 1 \in DOMAIN q /\ Head(q) = q[1]
      /\ DOMAIN p = 1 .. Len(q) - 1 /\ \A i \in 1 .. Len(q) - 1 : p[i] = q[i + 1]
  BY TailAt
<1> HIDE DEF p
<1>2. \A k \in DOMAIN p : k \in Nat /\ k + 1 \in DOMAIN q /\ p[k] = q[k + 1]
  BY <1>1
<1>3. \A j \in DOMAIN q : j = 1 \/ (j - 1 \in DOMAIN p /\ p[j - 1] = q[j] /\ j \in Nat)
  BY <1>1
<1>4. ASSUME NEW i \in DOMAIN p, LastHistory(p, i)
      PROVE  p[i].table = t /\ \A k \in DOMAIN p : k > i => p[k].type = "table_chat"
  <2>1. LastHistory(q, i + 1)
    <3>1. IsHistory(q[i + 1])
      BY <1>2, <1>4 DEF LastHistory
    <3>2. ASSUME NEW k \in DOMAIN q, k > i + 1 PROVE ~IsHistory(q[k])
      <4>1. k - 1 \in DOMAIN p /\ p[k - 1] = q[k] /\ k - 1 > i
        BY <1>2, <1>3, <3>2
      <4> QED BY <1>4, <4>1 DEF LastHistory
    <3> QED BY <3>1, <3>2 DEF LastHistory
  <2>2. /\ q[i + 1].table = t
        /\ \A k \in DOMAIN q : k > i + 1 => q[k].type = "table_chat"
    BY <1>2, <2>1 DEF AskedOk
  <2> QED BY <1>2, <2>2
<1>5. ASSUME IsHistory(Head(q)), ~HasHistory(p)
      PROVE  Head(q).table = t /\ \A i \in DOMAIN p : p[i].type = "table_chat"
  <2>1. LastHistory(q, 1)
    BY <1>1, <1>3, <1>5 DEF LastHistory, HasHistory
  <2>2. q[1].table = t /\ \A k \in DOMAIN q : k > 1 => q[k].type = "table_chat"
    BY <1>1, <2>1 DEF AskedOk
  <2> QED BY <1>1, <1>2, <2>2
<1> QED BY <1>4, <1>5 DEF AskedOk, p

\* A chat message, or a request for the table's history, is sent after what was asked.
LEMMA AskedAppend ==
  ASSUME NEW S, NEW q \in Seq(S), NEW m \in S, NEW t,
         \/ m.type = "table_chat" /\ AskedOk(q, t)
         \/ IsHistory(m) /\ m.table = t
  PROVE  AskedOk(Append(q, m), t)
<1> DEFINE p == Append(q, m)
<1>1. /\ Len(q) \in Nat /\ DOMAIN q = 1 .. Len(q) /\ DOMAIN p = 1 .. Len(q) + 1
      /\ p[Len(q) + 1] = m /\ \A i \in 1 .. Len(q) : p[i] = q[i]
  BY AppendAt
<1> HIDE DEF p
<1>2. ASSUME NEW i \in DOMAIN p, LastHistory(p, i)
      PROVE  p[i].table = t /\ \A k \in DOMAIN p : k > i => p[k].type = "table_chat"
  <2>1. CASE IsHistory(m) /\ m.table = t
    <3>1. i = Len(q) + 1
      BY <1>1, <1>2, <2>1 DEF LastHistory
    <3> QED BY <1>1, <2>1, <3>1
  <2>2. CASE m.type = "table_chat" /\ AskedOk(q, t)
    <3>1. i \in DOMAIN q /\ p[i] = q[i]
      BY <1>1, <1>2, <2>2 DEF LastHistory, IsHistory
    <3>2. LastHistory(q, i)
      BY <1>1, <1>2, <3>1 DEF LastHistory
    <3>3. q[i].table = t /\ \A k \in DOMAIN q : k > i => q[k].type = "table_chat"
      BY <2>2, <3>1, <3>2 DEF AskedOk
    <3> QED BY <1>1, <2>2, <3>1, <3>3
  <2> QED BY <2>1, <2>2
<1> QED BY <1>2 DEF AskedOk, p

\* A message of the table comes after the others.
LEMMA ComingAppend ==
  ASSUME NEW S, NEW q \in Seq(S), NEW m \in S, NEW t, OfTable(m, t),
         IsHistory(m) \/ ComingOk(q, t)
  PROVE  ComingOk(Append(q, m), t)
<1> DEFINE p == Append(q, m)
<1>1. /\ Len(q) \in Nat /\ DOMAIN q = 1 .. Len(q) /\ DOMAIN p = 1 .. Len(q) + 1
      /\ p[Len(q) + 1] = m /\ \A i \in 1 .. Len(q) : p[i] = q[i]
  BY AppendAt
<1> HIDE DEF p
<1>2. ASSUME NEW j \in DOMAIN p, \A k \in DOMAIN p : k > j => ~IsHistory(p[k])
      PROVE  OfTable(p[j], t)
  <2>1. CASE j = Len(q) + 1
    BY <1>1, <2>1
  <2>2. CASE j \in DOMAIN q
    <3>1. ~IsHistory(m)
      BY <1>1, <1>2, <2>2
    <3>2. \A k \in DOMAIN q : k > j => ~IsHistory(q[k])
      BY <1>1, <1>2
    <3> QED BY <1>1, <2>2, <3>1, <3>2 DEF ComingOk
  <2> QED BY <1>1, <2>1, <2>2
<1> QED BY <1>2 DEF ComingOk, p

\* The oldest message comes in; without a history behind it, it is of the table.
LEMMA ComingTail ==
  ASSUME NEW S, NEW q \in Seq(S), q # <<>>, NEW t, ComingOk(q, t)
  PROVE  ComingOk(Tail(q), t) /\ (~HasHistory(Tail(q)) => OfTable(Head(q), t))
<1> DEFINE p == Tail(q)
<1>1. /\ Len(q) \in Nat \ {0} /\ DOMAIN q = 1 .. Len(q) /\ 1 \in DOMAIN q /\ Head(q) = q[1]
      /\ DOMAIN p = 1 .. Len(q) - 1 /\ \A i \in 1 .. Len(q) - 1 : p[i] = q[i + 1]
  BY TailAt
<1> HIDE DEF p
<1>2. \A k \in DOMAIN p : k \in Nat /\ k + 1 \in DOMAIN q /\ p[k] = q[k + 1]
  BY <1>1
<1>3. \A j \in DOMAIN q : j = 1 \/ (j - 1 \in DOMAIN p /\ p[j - 1] = q[j] /\ j \in Nat)
  BY <1>1
<1>4. ASSUME NEW j \in DOMAIN p, \A k \in DOMAIN p : k > j => ~IsHistory(p[k])
      PROVE  OfTable(p[j], t)
  <2>1. ASSUME NEW k \in DOMAIN q, k > j + 1 PROVE ~IsHistory(q[k])
    <3>1. k - 1 \in DOMAIN p /\ p[k - 1] = q[k] /\ k - 1 > j
      BY <1>2, <1>3, <2>1
    <3> QED BY <1>4, <3>1
  <2> QED BY <1>2, <2>1 DEF ComingOk
<1>5. ASSUME ~HasHistory(p) PROVE OfTable(Head(q), t)
  <2>1. ASSUME NEW k \in DOMAIN q, k > 1 PROVE ~IsHistory(q[k])
    BY <1>3, <1>5, <2>1 DEF HasHistory
  <2> QED BY <1>1, <2>1 DEF ComingOk
<1> QED BY <1>4, <1>5 DEF ComingOk, p

\* What a message to the page carries.
LEMMA DownTyped ==
  ASSUME NEW m \in DownType
  PROVE  /\ IsHistory(m) => m.body \in Seq(MsgType)
         /\ ~IsHistory(m) => m.body \in MsgType /\ m.type = "table_chat"
BY DEF DownType, IsHistory

\* Ids are numbers; below n they are below n + 1.
LEMMA BelowMore ==
  ASSUME NEW s \in Seq(MsgType), NEW n \in Nat, Below(s, n)
  PROVE  Below(s, n + 1)
<1>1. \A i \in DOMAIN s : s[i].id \in Nat
  <2>1. \A i \in DOMAIN s : s[i] \in MsgType
    BY LenProperties
  <2> QED BY <2>1 DEF MsgType
<1> QED BY <1>1 DEF Below

\* The next id to be given grows.
LEMMA InOrderMore ==
  ASSUME NEW q \in Seq(DownType), NEW c, NEW n \in Nat, InOrder(q, c, n)
  PROVE  InOrder(q, c, n + 1)
<1> SUFFICES ASSUME NEW j \in DOMAIN q
             PROVE  IF IsHistory(q[j]) THEN Rising(q[j].body) /\ Below(q[j].body, n + 1)
                    ELSE /\ Below(c, q[j].body.id) /\ q[j].body.id < n + 1
                         /\ \A i \in DOMAIN q : i < j =>
                              IF IsHistory(q[i]) THEN Below(q[i].body, q[j].body.id)
                              ELSE q[i].body.id < q[j].body.id
  BY DEF InOrder
<1>1. q[j] \in DownType
  BY LenProperties
<1>2. CASE IsHistory(q[j])
  <2>1. Rising(q[j].body) /\ Below(q[j].body, n) /\ q[j].body \in Seq(MsgType)
    BY <1>1, <1>2, DownTyped DEF InOrder
  <2>2. Below(q[j].body, n + 1)
    BY <2>1, BelowMore
  <2> QED BY <1>2, <2>1, <2>2
<1>3. CASE ~IsHistory(q[j])
  <2>1. q[j].body.id \in Nat
    BY <1>1, <1>3, DownTyped DEF MsgType
  <2>2. q[j].body.id < n /\ n < n + 1
    BY <1>3 DEF InOrder
  <2>3. q[j].body.id < n + 1
    BY <2>1, <2>2
  <2> QED BY <1>3, <2>3 DEF InOrder
<1> QED BY <1>2, <1>3

\* The next message accepted comes after all the others.
LEMMA InOrderChat ==
  ASSUME NEW q \in Seq(DownType), NEW c \in Seq(MsgType), NEW n \in Nat, InOrder(q, c, n),
         Below(c, n), NEW m \in DownType, m.type = "table_chat", m.body.id = n
  PROVE  InOrder(Append(q, m), c, n + 1)
<1> DEFINE p == Append(q, m)
<1>1. /\ Len(q) \in Nat /\ DOMAIN q = 1 .. Len(q) /\ DOMAIN p = 1 .. Len(q) + 1
      /\ p[Len(q) + 1] = m /\ \A i \in 1 .. Len(q) : p[i] = q[i]
  BY AppendAt
<1> HIDE DEF p
<1>2. InOrder(q, c, n + 1) /\ ~IsHistory(m) /\ n < n + 1
  BY InOrderMore DEF IsHistory
<1>3. ASSUME NEW j \in DOMAIN p
      PROVE  IF IsHistory(p[j]) THEN Rising(p[j].body) /\ Below(p[j].body, n + 1)
             ELSE /\ Below(c, p[j].body.id) /\ p[j].body.id < n + 1
                  /\ \A i \in DOMAIN p : i < j =>
                       IF IsHistory(p[i]) THEN Below(p[i].body, p[j].body.id)
                       ELSE p[i].body.id < p[j].body.id
  <2>1. CASE j \in DOMAIN q
    <3>1. p[j] = q[j] /\ \A i \in DOMAIN p : i < j => i \in DOMAIN q /\ p[i] = q[i]
      BY <1>1, <2>1
    <3> QED BY <1>2, <2>1, <3>1 DEF InOrder
  <2>2. CASE j = Len(q) + 1
    <3>1. p[j] = m /\ \A i \in DOMAIN p : i < j => i \in DOMAIN q /\ p[i] = q[i]
      BY <1>1, <2>2
    <3>2. ASSUME NEW i \in DOMAIN q
          PROVE  IF IsHistory(q[i]) THEN Below(q[i].body, n) ELSE q[i].body.id < n
      BY DEF InOrder
    <3> QED BY <1>2, <3>1, <3>2
  <2> QED BY <1>1, <2>1, <2>2
<1> QED BY Zenon, <1>3 DEF InOrder, p

\* A history comes after all that it repeats.
LEMMA InOrderHistory ==
  ASSUME NEW q \in Seq(DownType), NEW c, NEW n, InOrder(q, c, n),
         NEW m \in DownType, IsHistory(m), Rising(m.body), Below(m.body, n)
  PROVE  InOrder(Append(q, m), c, n)
<1> DEFINE p == Append(q, m)
<1>1. /\ Len(q) \in Nat /\ DOMAIN q = 1 .. Len(q) /\ DOMAIN p = 1 .. Len(q) + 1
      /\ p[Len(q) + 1] = m /\ \A i \in 1 .. Len(q) : p[i] = q[i]
  BY AppendAt
<1> HIDE DEF p
<1>3. ASSUME NEW j \in DOMAIN p
      PROVE  IF IsHistory(p[j]) THEN Rising(p[j].body) /\ Below(p[j].body, n)
             ELSE /\ Below(c, p[j].body.id) /\ p[j].body.id < n
                  /\ \A i \in DOMAIN p : i < j =>
                       IF IsHistory(p[i]) THEN Below(p[i].body, p[j].body.id)
                       ELSE p[i].body.id < p[j].body.id
  <2>1. CASE j \in DOMAIN q
    <3>1. p[j] = q[j] /\ \A i \in DOMAIN p : i < j => i \in DOMAIN q /\ p[i] = q[i]
      BY <1>1, <2>1
    <3> QED BY <2>1, <3>1 DEF InOrder
  <2>2. CASE j = Len(q) + 1
    BY <1>1, <2>2
  <2> QED BY <1>1, <2>1, <2>2
<1> QED BY <1>3 DEF InOrder, p

\* The oldest message comes in, and the chat z it makes is as old as it and the chat c.
LEMMA InOrderTail ==
  ASSUME NEW q \in Seq(DownType), q # <<>>, NEW c, NEW z, NEW n, InOrder(q, c, n),
         IsHistory(Head(q)) => z = Head(q).body,
         ~IsHistory(Head(q)) => \A k : Below(c, k) /\ Head(q).body.id < k => Below(z, k)
  PROVE  InOrder(Tail(q), z, n)
<1> DEFINE p == Tail(q)
<1>1. /\ Len(q) \in Nat \ {0} /\ DOMAIN q = 1 .. Len(q) /\ 1 \in DOMAIN q /\ Head(q) = q[1]
      /\ DOMAIN p = 1 .. Len(q) - 1 /\ \A i \in 1 .. Len(q) - 1 : p[i] = q[i + 1]
  BY TailAt
<1> HIDE DEF p
<1>2. \A k \in DOMAIN p : k \in Nat /\ k + 1 \in DOMAIN q /\ p[k] = q[k + 1] /\ 1 < k + 1
  BY <1>1
<1>3. ASSUME NEW j \in DOMAIN p
      PROVE  IF IsHistory(p[j]) THEN Rising(p[j].body) /\ Below(p[j].body, n)
             ELSE /\ Below(z, p[j].body.id) /\ p[j].body.id < n
                  /\ \A i \in DOMAIN p : i < j =>
                       IF IsHistory(p[i]) THEN Below(p[i].body, p[j].body.id)
                       ELSE p[i].body.id < p[j].body.id
  <2>1. /\ j + 1 \in DOMAIN q /\ p[j] = q[j + 1] /\ 1 < j + 1 /\ 1 \in DOMAIN q
        /\ \A i \in DOMAIN p : i < j => i + 1 \in DOMAIN q /\ i + 1 < j + 1 /\ p[i] = q[i + 1]
    BY <1>1, <1>2
  <2>2. CASE IsHistory(p[j])
    BY <2>1, <2>2 DEF InOrder
  <2>3. CASE ~IsHistory(p[j])
    <3>1. /\ Below(c, p[j].body.id) /\ p[j].body.id < n
          /\ \A i \in DOMAIN q : i < j + 1 =>
               IF IsHistory(q[i]) THEN Below(q[i].body, p[j].body.id)
               ELSE q[i].body.id < p[j].body.id
      BY <2>1, <2>3 DEF InOrder
    <3>2. Below(z, p[j].body.id)
      <4>1. IF IsHistory(q[1]) THEN Below(q[1].body, p[j].body.id)
            ELSE q[1].body.id < p[j].body.id
        BY <2>1, <3>1
      <4> QED BY <1>1, <3>1, <4>1
    <3>3. \A i \in DOMAIN p : i < j =>
            IF IsHistory(p[i]) THEN Below(p[i].body, p[j].body.id)
            ELSE p[i].body.id < p[j].body.id
      BY <2>1, <3>1
    <3> QED BY <2>3, <3>1, <3>2, <3>3
  <2> QED BY <2>2, <2>3
<1> QED BY <1>3 DEF InOrder, p

\* An accepted message is the newest, goes to the ring of its table and to the page that
\* is subscribed to it, and counts for its address (Accept).
LEMMA AcceptKeeps ==
  ASSUME ChatInv, NEW sender \in Senders, NEW table \in Tables, budget.chats > 0,
         Accepts(sender, table), Accept(sender, table, down), page' = page
  PROVE  /\ hub' \in HubType /\ hub'.subs = hub.subs /\ budget' \in BudgetType
         /\ ring' \in [Tables -> Seq(MsgType)] /\ \A t \in Tables : AllOf(ring'[t], t)
         /\ down' \in Seq(DownType) /\ (HasHistory(down') <=> HasHistory(down))
         /\ hub.subs["page"] = {} => down' = down
         /\ \A t : (hub.subs["page"] \subseteq {"global", t} /\ ComingOk(down, t))
                     => ComingOk(down', t)
         /\ OrderInv' /\ LimitInv'
<1>1. /\ page \in PageType /\ down \in Seq(DownType) /\ hub \in HubType
      /\ ring \in [Tables -> Seq(MsgType)] /\ secs \in Nat /\ budget \in BudgetType
      /\ page.chat \in Seq(MsgType)
  BY DEF ChatInv, ChatTypes, PageType
<1> DEFINE msg == [table |-> table, id |-> NextId]
           m == [type |-> "table_chat", body |-> msg]
<1>2. /\ ring' = [ring EXCEPT ![table] = Trimmed(Append(ring[table], msg), CHAT_RING_SIZE)]
      /\ hub' = [hub EXCEPT !.lastChat[sender] = secs]
      /\ down' = IF table \in hub.subs["page"] THEN Append(down, m) ELSE down
      /\ budget' = [budget EXCEPT !.chats = budget.chats - 1]
  BY DEF Accept, addChatMessage, NextId
<1>3. /\ NextId \in Nat /\ NextId' = NextId + 1 /\ budget' \in BudgetType
  <2>1. budget.chats \in 0 .. MaxChats /\ MaxChats \in Nat
    BY <1>1, ChatParams DEF BudgetType
  <2>2. budget.chats - 1 \in 0 .. MaxChats
    BY <2>1
  <2>3. budget' \in BudgetType /\ budget'.chats = budget.chats - 1
    BY Zenon, <1>1, <1>2, <2>2 DEF BudgetType
  <2>4. NextId = MaxChats - budget.chats + 1 /\ NextId' = MaxChats - (budget.chats - 1) + 1
    BY <2>3 DEF NextId
  <2> QED BY <2>1, <2>3, <2>4
<1>4. hub' \in HubType /\ hub'.subs = hub.subs
  BY Zenon, <1>1, <1>2 DEF HubType
<1>5. msg \in MsgType /\ msg.table = table /\ msg.id = NextId
  BY <1>3 DEF MsgType
<1> HIDE DEF msg
<1>6. m \in DownType /\ m.type = "table_chat" /\ m.body = msg /\ ~IsHistory(m)
  BY <1>5 DEF DownType, IsHistory
<1> HIDE DEF m
<1>7. ASSUME NEW t \in Tables
      PROVE  /\ ring'[t] \in Seq(MsgType) /\ AllOf(ring'[t], t)
             /\ Rising(ring'[t]) /\ Below(ring'[t], NextId')
  <2>1. ring[t] \in Seq(MsgType) /\ AllOf(ring[t], t) /\ Rising(ring[t]) /\ Below(ring[t], NextId)
    BY <1>1 DEF ChatInv, TableInv, OrderInv
  <2>2. CASE t # table
    <3>1. ring'[t] = ring[t]
      BY <1>1, <1>2, <2>2
    <3> QED BY <1>3, <2>1, <3>1, BelowMore
  <2>3. CASE t = table
    <3>0. PICK z : z = Trimmed(Append(ring[t], msg), CHAT_RING_SIZE)
      OBVIOUS
    <3>1. ring'[t] = z
      BY <1>1, <1>2, <2>3, <3>0
    <3>2. CHAT_RING_SIZE \in Nat /\ NextId < NextId + 1
      BY <1>3, ChatParams
    <3>3. /\ z \in Seq(MsgType) /\ AllOf(z, t) /\ Rising(z) /\ Below(z, NextId + 1)
      <4>1. Below(ring[t], NextId + 1)
        BY <1>3, <2>1, BelowMore
      <4>2. z \in Seq(MsgType) /\ MadeOf(z, ring[t], msg)
        BY <1>5, <2>1, <3>0, <3>2, ShownKeeps
      <4> QED BY <1>5, <2>1, <2>3, <3>2, <4>1, <4>2 DEF MadeOf
    <3> QED BY <1>3, <3>1, <3>3
  <2> QED BY <2>2, <2>3
<1>8. ring' \in [Tables -> Seq(MsgType)]
  <2>1. DOMAIN ring' = Tables /\ ring' = [t \in Tables |-> ring'[t]]
    BY Zenon, <1>1, <1>2
  <2> QED BY <1>7, <2>1
<1>9. /\ Rising(page.chat) /\ Below(page.chat, NextId) /\ Below(page.chat, NextId')
      /\ InOrder(down, page.chat, NextId)
  BY <1>1, <1>3, BelowMore DEF ChatInv, OrderInv
<1>10. /\ down' \in Seq(DownType) /\ (HasHistory(down') <=> HasHistory(down))
       /\ InOrder(down', page.chat, NextId')
       /\ hub.subs["page"] = {} => down' = down
  <2>1. CASE table \in hub.subs["page"]
    <3>1. down' = Append(down, m)
      BY <1>2, <2>1
    <3>2. down' \in Seq(DownType) /\ (HasHistory(down') <=> HasHistory(down))
      BY <1>1, <1>6, <3>1, AppendAt, HistoryAppend
    <3>3. InOrder(Append(down, m), page.chat, NextId + 1)
      BY <1>1, <1>3, <1>5, <1>6, <1>9, InOrderChat
    <3> QED BY <1>3, <2>1, <3>1, <3>2, <3>3
  <2>2. CASE table \notin hub.subs["page"]
    <3>1. down' = down
      BY <1>2, <2>2
    <3> QED BY <1>1, <1>3, <1>9, <3>1, InOrderMore
  <2> QED BY <2>1, <2>2
<1>11. ASSUME NEW t, hub.subs["page"] \subseteq {"global", t}, ComingOk(down, t)
       PROVE  ComingOk(down', t)
  <2>1. CASE table \in hub.subs["page"]
    <3>1. table = t /\ down' = Append(down, m)
      BY <1>2, <1>11, <2>1, ChatParams
    <3>2. OfTable(m, t)
      BY <1>5, <1>6, <3>1 DEF OfTable
    <3>3. ComingOk(Append(down, m), t)
      BY <1>1, <1>6, <1>11, <3>2, ComingAppend
    <3> QED BY <3>1, <3>3
  <2>2. CASE table \notin hub.subs["page"]
    BY <1>2, <1>11, <2>2
  <2> QED BY <2>1, <2>2
<1>12. OrderInv'
  <2>1. page'.chat = page.chat
    OBVIOUS
  <2> QED BY <1>7, <1>9, <1>10, <2>1 DEF OrderInv
<1>13. LimitInv'
  <2>1. /\ bucket.count \in Nat /\ bucket.accepted = bucket.count
        /\ bucket.count <= IP_CHAT_LIMIT_PER_MIN /\ IP_CHAT_LIMIT_PER_MIN \in Nat \ {0}
    BY ChatParams DEF ChatInv, LimitInv
  <2>2. CASE bucket.minute = secs \div SecsPerMinute
    <3>1. bucket'.count = bucket.count + 1 /\ bucket'.accepted = bucket.accepted + 1
      BY <2>2 DEF Accept, BucketWith
    <3>2. bucket.count < IP_CHAT_LIMIT_PER_MIN
      BY <2>2 DEF Accepts
    <3> QED BY <2>1, <3>1, <3>2 DEF LimitInv
  <2>3. CASE bucket.minute # secs \div SecsPerMinute
    <3>1. bucket'.count = 1 /\ bucket'.accepted = 1
      BY <2>3 DEF Accept, BucketWith
    <3> QED BY <2>1, <3>1 DEF LimitInv
  <2> QED BY <2>2, <2>3
<1> QED BY <1>3, <1>4, <1>7, <1>8, <1>10, <1>11, <1>12, <1>13

\* The other page chats (OtherChats).
LEMMA OtherKeeps ==
  ASSUME ChatInv, NEW table \in Tables, OtherChats(table)
  PROVE  ChatInv'
<1>1. /\ budget.chats > 0 /\ Accepts("other", table) /\ Accept("other", table, down)
      /\ page' = page /\ up' = up /\ secs' = secs
  BY DEF OtherChats
<1>2. /\ hub' \in HubType /\ hub'.subs = hub.subs /\ budget' \in BudgetType
      /\ ring' \in [Tables -> Seq(MsgType)] /\ \A t \in Tables : AllOf(ring'[t], t)
      /\ down' \in Seq(DownType) /\ (HasHistory(down') <=> HasHistory(down))
      /\ hub.subs["page"] = {} => down' = down
      /\ \A t : (hub.subs["page"] \subseteq {"global", t} /\ ComingOk(down, t))
                  => ComingOk(down', t)
      /\ OrderInv' /\ LimitInv'
  BY <1>1, AcceptKeeps DEF Senders
<1>3. ChatTypes'
  BY <1>1, <1>2 DEF ChatInv, ChatTypes
<1>4. SubsInv'
  BY <1>1, <1>2 DEF ChatInv, SubsInv, Wanted
<1>5. ASSUME NEW t, TableOk(t) PROVE TableOk(t)'
  BY <1>1, <1>2, <1>5 DEF TableOk, CleanOk
<1>6. TableInv'
  <2>1. ASSUME page.ref # NoTable PROVE TableOk(page.ref)'
    <3>1. PICK t : t = page.ref
      OBVIOUS
    <3>2. TableOk(t)
      BY <2>1, <3>1 DEF ChatInv, TableInv
    <3>3. TableOk(t)' /\ t = page'.ref
      BY <1>1, <1>5, <3>1, <3>2
    <3> QED BY <3>3 DEF TableOk
  <2> QED BY <1>1, <1>2, <2>1 DEF TableInv
<1> QED BY <1>2, <1>3, <1>4, <1>6 DEF ChatInv

\* The hub handles the page's oldest message (onMessage).
LEMMA HubKeeps == ASSUME ChatInv, onMessage PROVE ChatInv'
<1> DEFINE h == Head(up)
           S == hub.subs["page"]
<1>1. /\ up \in Seq(UpType) /\ up # <<>> /\ up' = Tail(up) /\ page' = page /\ secs' = secs
      /\ down \in Seq(DownType) /\ hub \in HubType /\ ring \in [Tables -> Seq(MsgType)]
      /\ budget \in BudgetType /\ page \in PageType /\ secs \in Nat
  BY DEF onMessage, ChatInv, ChatTypes
<1>2. h \in UpType /\ Tail(up) \in Seq(UpType) /\ page.sock = "open"
  <2>1. h \in UpType /\ Tail(up) \in Seq(UpType)
    BY <1>1, TailAt
  <2> QED BY <1>1, <2>1 DEF ChatInv, SubsInv
<1>3. /\ Leaves(up, S, Wanted) /\ S \in SUBSET Rooms /\ Wanted \in SUBSET Rooms
      /\ page.subscribed = page.ref
  <2>1. S \in SUBSET Rooms
    BY <1>1 DEF HubType, Senders
  <2>2. Wanted \in SUBSET Rooms
    BY <1>1 DEF Wanted, Rooms, PageType
  <2> QED BY <1>2, <2>1, <2>2 DEF ChatInv, SubsInv
<1> HIDE DEF h
<1> DEFINE Rest ==
             /\ ring' \in [Tables -> Seq(MsgType)] /\ \A t \in Tables : AllOf(ring'[t], t)
             /\ down' \in Seq(DownType) /\ OrderInv' /\ LimitInv' /\ budget' \in BudgetType
             /\ hub' \in HubType /\ hub'.subs["page"] = Handled(h, S)
             /\ IsHistory(h) => /\ HasHistory(down')
                                /\ \A t : h.table = t => ComingOk(down', t)
             /\ ~IsHistory(h) => /\ HasHistory(down') <=> HasHistory(down)
                                 /\ \A t : (S \subseteq {"global", t} /\ ComingOk(down, t))
                                             => ComingOk(down', t)
<1>4. Rest
  <2>0. /\ \A t \in Tables : AllOf(ring[t], t) /\ Rising(ring[t]) /\ Below(ring[t], NextId)
        /\ OrderInv /\ LimitInv
    BY Zenon DEF ChatInv, TableInv, OrderInv
  <2>1. ASSUME h.type \in {"subscribe", "unsubscribe"},
               hub' = [hub EXCEPT !.subs["page"] = Handled(h, S)],
               UNCHANGED <<down, ring, bucket, budget>>
        PROVE  Rest
    <3>1. Handled(h, S) \in SUBSET Rooms
      BY <1>2, <1>3, <2>1 DEF Handled, UpType
    <3>2. hub' \in HubType /\ hub'.subs["page"] = Handled(h, S)
      BY Zenon, <1>1, <2>1, <3>1 DEF HubType, Senders
    <3>3. OrderInv' /\ LimitInv'
      BY <1>1, <2>0, <2>1 DEF OrderInv, LimitInv, NextId
    <3>4. ~IsHistory(h)
      BY <2>1 DEF IsHistory
    <3> QED BY <1>1, <2>0, <2>1, <3>2, <3>3, <3>4
  <2>2. CASE h.type = "subscribe"
    <3>1. /\ hub' = [hub EXCEPT !.subs["page"] = hub.subs["page"] \cup {h.table}]
          /\ UNCHANGED <<down, ring, bucket, budget>>
      BY <2>2 DEF onMessage, h
    <3>2. Handled(h, S) = S \cup {h.table}
      BY <2>2 DEF Handled
    <3> QED BY <2>1, <2>2, <3>1, <3>2
  <2>3. CASE h.type = "unsubscribe"
    <3>1. /\ hub' = [hub EXCEPT !.subs["page"] = hub.subs["page"] \ {h.table}]
          /\ UNCHANGED <<down, ring, bucket, budget>>
      BY <2>3 DEF onMessage, h
    <3>2. Handled(h, S) = S \ {h.table}
      BY <2>3 DEF Handled
    <3> QED BY <2>1, <2>3, <3>1, <3>2
  <2>4. CASE h.type = "chat_history"
    <3> DEFINE m == [type |-> "chat_history", body |-> ring[h.table]]
    <3>1. down' = Append(down, m) /\ UNCHANGED <<hub, ring, bucket, budget>>
      BY <2>4 DEF onMessage, h
    <3>2. h.table \in Tables /\ Handled(h, S) = S /\ IsHistory(h)
      BY <1>2, <2>4 DEF UpType, Handled, IsHistory
    <3>3. /\ m \in DownType /\ IsHistory(m) /\ m.body = ring[h.table]
          /\ AllOf(m.body, h.table) /\ Rising(m.body) /\ Below(m.body, NextId)
      BY <1>1, <2>0, <3>2 DEF DownType, IsHistory
    <3> HIDE DEF m
    <3>4. down' \in Seq(DownType) /\ HasHistory(down')
      BY <1>1, <3>1, <3>3, AppendAt, HistoryAppend
    <3>5. InOrder(down', page.chat, NextId)
      <4>1. InOrder(down, page.chat, NextId)
        BY <2>0 DEF OrderInv
      <4>2. InOrder(Append(down, m), page.chat, NextId)
        BY <1>1, <3>3, <4>1, InOrderHistory
      <4> QED BY <3>1, <4>2
    <3>6. OrderInv' /\ LimitInv'
      BY <1>1, <2>0, <3>1, <3>5 DEF OrderInv, LimitInv, NextId
    <3>7. ASSUME NEW t, h.table = t PROVE ComingOk(down', t)
      <4>1. OfTable(m, t)
        BY <3>3, <3>7 DEF OfTable
      <4>2. ComingOk(Append(down, m), t)
        BY <1>1, <3>3, <4>1, ComingAppend
      <4> QED BY <3>1, <4>2
    <3> QED BY Zenon, <1>1, <2>0, <3>1, <3>2, <3>4, <3>6, <3>7
  <2>5. CASE h.type = "table_chat"
    <3>1. ~IsHistory(h) /\ h.table \in Tables /\ Handled(h, S) = S
      BY <1>2, <2>5 DEF UpType, Handled, IsHistory
    <3>2. CASE budget.chats > 0 /\ Accepts("page", h.table) /\ Accept("page", h.table, down)
      <4>1. /\ hub' \in HubType /\ hub'.subs = hub.subs /\ budget' \in BudgetType
            /\ ring' \in [Tables -> Seq(MsgType)] /\ \A t \in Tables : AllOf(ring'[t], t)
            /\ down' \in Seq(DownType) /\ (HasHistory(down') <=> HasHistory(down))
            /\ \A t : (hub.subs["page"] \subseteq {"global", t} /\ ComingOk(down, t))
                        => ComingOk(down', t)
            /\ OrderInv' /\ LimitInv'
        <5>1. PICK table \in Tables : table = h.table
          BY <3>1
        <5>2. /\ "page" \in Senders /\ budget.chats > 0 /\ Accepts("page", table)
              /\ Accept("page", table, down) /\ page' = page
          BY <1>1, <3>2, <5>1 DEF Senders
        <5> QED BY Zenon, <5>2, AcceptKeeps
      <4> QED BY Zenon, <3>1, <4>1
    <3>3. CASE UNCHANGED <<hub, down, ring, bucket, budget>>
      <4>1. OrderInv' /\ LimitInv'
        BY <1>1, <2>0, <3>3 DEF OrderInv, LimitInv, NextId
      <4> QED BY <1>1, <2>0, <3>1, <3>3, <4>1
    <3>4. \/ budget.chats > 0 /\ Accepts("page", h.table) /\ Accept("page", h.table, down)
          \/ UNCHANGED <<hub, down, ring, bucket, budget>>
      BY <2>5 DEF onMessage, h
    <3> QED BY Zenon, <3>2, <3>3, <3>4
  <2> QED BY Zenon, <1>2, <2>2, <2>3, <2>4, <2>5 DEF UpType
<1>5. ChatTypes'
  BY <1>1, <1>2, <1>4 DEF ChatTypes
<1>6. Leaves(Tail(up), Handled(h, S), Wanted)
  BY <1>1, <1>3, LeavesTail DEF h
<1>7. SubsInv'
  <2>1. Wanted' = Wanted
    BY <1>1 DEF Wanted
  <2>2. Leaves(up', hub'.subs["page"], Wanted')
    BY <1>1, <1>4, <1>6, <2>1
  <2> QED BY <1>1, <1>2, <1>3, <2>2 DEF ChatInv, SubsInv
<1>8. ASSUME NEW t, t # NoTable, t = page.ref, TableOk(t) PROVE TableOk(t)'
  <2>1. AskedOk(up, t) /\ AskedOk(Tail(up), t)
    BY <1>1, <1>2, <1>8, AskedTail DEF TableOk
  <2>2. HasHistory(up) <=> IsHistory(h) \/ HasHistory(Tail(up))
    BY <1>1, HistoryTail DEF h
  <2>3. ASSUME ~HasHistory(Tail(up)) PROVE CleanOk(Tail(up), Handled(h, S), t) /\ ComingOk(down', t)
    <3>1. CASE IsHistory(h)
      <4>1. h.table = t /\ \A i \in DOMAIN Tail(up) : Tail(up)[i].type = "table_chat"
        BY <1>1, <2>1, <2>3, <3>1, AskedTail DEF h
      <4>2. Handled(h, S) = S
        BY <3>1 DEF Handled, IsHistory
      <4>3. S = Wanted
        <5>1. PICK q : q = Tail(up)
          BY Zenon
        <5>2. \A i \in DOMAIN q : q[i].type \notin {"subscribe", "unsubscribe"}
          BY <4>1, <5>1
        <5>3. Leaves(q, S, Wanted)
          BY <1>6, <4>2, <5>1
        <5> QED BY <1>3, <5>2, <5>3, LeavesDone
      <4>4. CleanOk(Tail(up), Handled(h, S), t)
        BY <1>8, <4>1, <4>2, <4>3 DEF CleanOk, Wanted
      <4> QED BY <1>4, <3>1, <4>1, <4>4
    <3>2. CASE ~IsHistory(h)
      <4>1. CleanOk(up, S, t) /\ ComingOk(down, t)
        BY <1>2, <1>8, <2>2, <2>3, <3>2 DEF TableOk
      <4>2. h = up[1] /\ 1 \in DOMAIN up /\ \A i \in DOMAIN Tail(up) : i + 1 \in DOMAIN up /\ Tail(up)[i] = up[i + 1]
        <5>1. /\ Len(up) \in Nat \ {0} /\ DOMAIN up = 1 .. Len(up) /\ Head(up) = up[1]
              /\ DOMAIN Tail(up) = 1 .. Len(up) - 1
              /\ \A i \in 1 .. Len(up) - 1 : Tail(up)[i] = up[i + 1]
          BY <1>1, TailAt
        <5> QED BY <5>1 DEF h
      <4>3. Handled(h, S) \subseteq {"global", t}
        BY <4>1, <4>2 DEF CleanOk, Handled
      <4>4. \A i \in DOMAIN Tail(up) : Tail(up)[i].type = "subscribe" => Tail(up)[i].table \in {"global", t}
        BY <4>1, <4>2 DEF CleanOk
      <4>5. ComingOk(down', t)
        BY <1>4, <3>2, <4>1 DEF CleanOk
      <4> QED BY <4>3, <4>4, <4>5 DEF CleanOk
    <3> QED BY <3>1, <3>2
  <2>4. ASSUME ~page.mixed, ~HasHistory(Tail(up)), ~HasHistory(down') PROVE AllOf(page.chat, t)
    BY Zenon, <1>4, <1>8, <2>2, <2>4 DEF TableOk
  <2> QED BY Zenon, <1>1, <1>4, <2>1, <2>3, <2>4 DEF TableOk
<1>9. TableInv'
  <2>1. ASSUME page.ref # NoTable PROVE TableOk(page.ref)'
    <3>1. PICK t : t = page.ref
      OBVIOUS
    <3>2. TableOk(t)
      BY <2>1, <3>1 DEF ChatInv, TableInv
    <3>3. TableOk(t)' /\ t = page'.ref
      BY <1>1, <1>8, <2>1, <3>1, <3>2
    <3> QED BY <3>3 DEF TableOk
  <2> QED BY Zenon, <1>1, <1>4, <2>1 DEF TableInv
<1> QED BY <1>4, <1>5, <1>7, <1>9 DEF ChatInv

\* The page's own steps leave the rings, the bucket and what comes alone.
LEMMA OthersStay ==
  ASSUME ChatInv, page'.chat = page.chat, budget'.chats = budget.chats,
         UNCHANGED <<down, ring, bucket>>
  PROVE  OrderInv' /\ LimitInv' /\ \A t \in Tables : AllOf(ring[t], t)'
<1>1. OrderInv'
  BY DEF ChatInv, OrderInv, NextId
<1>2. LimitInv'
  BY DEF ChatInv, LimitInv
<1>3. \A t \in Tables : AllOf(ring[t], t)'
  BY DEF ChatInv, TableInv, AllOf
<1> QED BY <1>1, <1>2, <1>3

\* A new socket, before it opens (connect).
LEMMA ConnectKeeps == ASSUME ChatInv, connect PROVE ChatInv'
<1>1. /\ page \in PageType /\ page.sock = "none"
      /\ page' = [page EXCEPT !.sock = "connecting", !.timer = FALSE]
      /\ UNCHANGED <<up, down, hub, ring, bucket, secs, budget>>
  BY DEF connect, ChatInv, ChatTypes
<1>2. /\ page' \in PageType /\ page'.sock = "connecting" /\ page'.ref = page.ref
      /\ page'.selected = page.selected /\ page'.effects = page.effects
      /\ page'.chat = page.chat /\ page'.mixed = page.mixed
  BY Zenon, <1>1 DEF PageType
<1>3. ChatTypes' /\ SubsInv'
  BY <1>1, <1>2 DEF ChatInv, ChatTypes, SubsInv
<1>4. OrderInv' /\ LimitInv' /\ \A t \in Tables : AllOf(ring[t], t)'
  BY <1>1, <1>2, OthersStay
<1>5. ASSUME page.ref # NoTable PROVE TableOk(page.ref)'
  BY <1>1, <1>2, <1>5 DEF ChatInv, TableInv, TableOk
<1>6. TableInv'
  BY <1>2, <1>4, <1>5 DEF TableInv
<1> QED BY <1>3, <1>4, <1>6 DEF ChatInv

\* The messages q subscribe to what the page wants on the table ref, and nothing else.
Subscribes(q, ref) ==
    /\ q \in Seq(UpType) /\ Leaves(q, {}, {"global"} \cup ({ref} \ {NoTable}))
    /\ \A i \in DOMAIN q : q[i].type = "subscribe" /\ q[i].table \in {"global", ref}

\* What onopen sends.
LEMMA OpensWith ==
  ASSUME NEW ref \in Tables \cup {NoTable}, NEW q,
         q = <<Subscribe("global")>> \o (IF ref # NoTable THEN <<Subscribe(ref)>> ELSE <<>>)
  PROVE  Subscribes(q, ref)
<1> DEFINE g == Subscribe("global")
           r == Subscribe(ref)
<1>1. /\ g \in UpType /\ g.type = "subscribe" /\ g.table = "global"
      /\ r.type = "subscribe" /\ r.table = ref
      /\ ref # NoTable => r \in UpType
  BY DEF Subscribe, UpType, Rooms
<1>2. q = <<g>> \o (IF ref # NoTable THEN <<r>> ELSE <<>>)
  OBVIOUS
<1> HIDE DEF g, r
<1>3. <<>> \in Seq(UpType) /\ Leaves(<<>>, {}, {})
  BY DEF Leaves, Abouts
<1>4. Handled(g, {}) = {"global"}
  BY <1>1 DEF Handled
<1>5. /\ Append(<<>>, g) = <<g>> /\ <<g>> \in Seq(UpType)
      /\ DOMAIN <<g>> = 1 .. 1 /\ <<g>>[1] = g
  BY <1>1
<1>6. Leaves(<<g>>, {}, {"global"})
  <2>1. Leaves(Append(<<>>, g), {}, Handled(g, {}))
    BY Zenon, <1>1, <1>3, LeavesAppend
  <2> QED BY Zenon, <1>4, <1>5, <2>1
<1>7. CASE ref = NoTable
  <2>1. q = <<g>> /\ {"global"} \cup ({ref} \ {NoTable}) = {"global"}
    BY <1>2, <1>7
  <2>2. \A i \in DOMAIN <<g>> : <<g>>[i] = g
    BY <1>5
  <2>3. \A i \in DOMAIN q : q[i] = g
    BY <2>1, <2>2
  <2>4. q \in Seq(UpType) /\ Leaves(q, {}, {"global"} \cup ({ref} \ {NoTable}))
    BY Zenon, <1>5, <1>6, <2>1
  <2> QED BY <1>1, <2>3, <2>4 DEF Subscribes
<1>8. CASE ref # NoTable
  <2>1. q = Append(<<g>>, r)
    BY <1>2, <1>8
  <2>2. /\ q \in Seq(UpType) /\ DOMAIN q = 1 .. Len(<<g>>) + 1 /\ Len(<<g>>) = 1
        /\ q[1] = g /\ q[2] = r
    <3>1. /\ Append(<<g>>, r) \in Seq(UpType) /\ DOMAIN Append(<<g>>, r) = 1 .. Len(<<g>>) + 1
          /\ \A i \in 1 .. Len(<<g>>) : Append(<<g>>, r)[i] = <<g>>[i]
          /\ Append(<<g>>, r)[Len(<<g>>) + 1] = r
      BY <1>1, <1>5, <1>8, AppendAt
    <3>2. Len(<<g>>) = 1
      OBVIOUS
    <3>3. q \in Seq(UpType) /\ DOMAIN q = 1 .. Len(<<g>>) + 1
      BY Zenon, <2>1, <3>1
    <3>4. q[1] = <<g>>[1]
      BY <2>1, <3>1, <3>2
    <3>5. q[2] = r
      <4>1. Len(<<g>>) + 1 = 2
        BY <3>2
      <4> QED BY Zenon, <2>1, <3>1, <4>1
    <3> QED BY <1>5, <3>2, <3>3, <3>4, <3>5
  <2>3. Leaves(q, {}, Handled(r, {"global"}))
    BY Zenon, <1>1, <1>5, <1>6, <1>8, <2>1, LeavesAppend
  <2>4. Handled(r, {"global"}) = {"global"} \cup ({ref} \ {NoTable})
    BY <1>1, <1>8 DEF Handled
  <2>5. \A i \in DOMAIN q : i = 1 \/ i = 2
    BY <2>2
  <2> QED BY Zenon, <1>1, <2>2, <2>3, <2>4, <2>5 DEF Subscribes
<1> QED BY <1>7, <1>8

\* The socket opens (onopen).
LEMMA OpenKeeps == ASSUME ChatInv, onopen PROVE ChatInv'
<1>1. /\ page \in PageType /\ page.sock = "connecting"
      /\ page' = [page EXCEPT !.sock = "open", !.subscribed = page.ref]
      /\ up' = <<Subscribe("global")>>
                 \o (IF page.ref # NoTable THEN <<Subscribe(page.ref)>> ELSE <<>>)
      /\ UNCHANGED <<down, hub, ring, bucket, secs, budget>>
  BY DEF onopen, ChatInv, ChatTypes
<1>2. /\ page' \in PageType /\ page'.sock = "open" /\ page'.ref = page.ref
      /\ page'.subscribed = page.ref
      /\ page'.selected = page.selected /\ page'.effects = page.effects
      /\ page'.chat = page.chat /\ page'.mixed = page.mixed
      /\ page.ref \in Tables \cup {NoTable}
  BY Zenon, <1>1 DEF PageType
<1>3. up = <<>> /\ down = <<>> /\ hub.subs["page"] = {}
  BY <1>1 DEF ChatInv, SubsInv
<1>4. /\ up' \in Seq(UpType) /\ Leaves(up', {}, {"global"} \cup ({page.ref} \ {NoTable}))
      /\ \A i \in DOMAIN up' : up'[i].type = "subscribe" /\ up'[i].table \in {"global", page.ref}
  <2>1. PICK ref \in Tables \cup {NoTable} : ref = page.ref
    BY <1>2
  <2>2. PICK q : q = up'
    OBVIOUS
  <2>3. q = <<Subscribe("global")>> \o (IF ref # NoTable THEN <<Subscribe(ref)>> ELSE <<>>)
    BY <1>1, <2>1, <2>2
  <2>4. Subscribes(q, ref)
    BY Zenon, <2>1, <2>3, OpensWith
  <2> QED BY <2>1, <2>2, <2>4 DEF Subscribes
<1>5. ChatTypes' /\ SubsInv'
  BY <1>1, <1>2, <1>3, <1>4 DEF ChatInv, ChatTypes, SubsInv, Wanted
<1>6. OrderInv' /\ LimitInv' /\ \A t \in Tables : AllOf(ring[t], t)'
  BY <1>1, <1>2, OthersStay
<1>7. ASSUME page.ref # NoTable PROVE TableOk(page.ref)'
  <2>1. ~HasHistory(up) /\ ~HasHistory(up')
    BY <1>3, <1>4 DEF HasHistory, IsHistory
  <2>2. AskedOk(up', page.ref)
    BY <1>4 DEF AskedOk, LastHistory, IsHistory
  <2>3. CleanOk(up', {}, page.ref) /\ ComingOk(<<>>, page.ref)
    BY <1>4 DEF CleanOk, ComingOk
  <2>4. (~page.mixed /\ ~HasHistory(up) /\ ~HasHistory(down)) => AllOf(page.chat, page.ref)
    BY <1>7 DEF ChatInv, TableInv, TableOk
  <2> QED BY <1>1, <1>2, <1>3, <2>1, <2>2, <2>3, <2>4 DEF TableOk
<1>8. TableInv'
  BY <1>2, <1>6, <1>7 DEF TableInv
<1> QED BY <1>5, <1>6, <1>8 DEF ChatInv

\* The socket is lost with all that is on its way (onclose).
LEMMA CloseKeeps == ASSUME ChatInv, onclose PROVE ChatInv'
<1>1. /\ page \in PageType /\ hub \in HubType /\ budget \in BudgetType /\ budget.drops > 0
      /\ page' = [oncloseOf(page) EXCEPT !.mixed = @ \/ AwaitsHistory]
      /\ up' = <<>> /\ down' = <<>>
      /\ hub' = [hub EXCEPT !.subs["page"] = {}, !.lastChat["page"] = 0]
      /\ budget' = [budget EXCEPT !.drops = @ - 1]
      /\ UNCHANGED <<ring, bucket, secs>>
  BY DEF onclose, ChatInv, ChatTypes
<1>2. /\ page'.sock = "none" /\ page'.ref = page.ref /\ page'.timer = TRUE
      /\ page'.selected = page.selected /\ page'.effects = page.effects
      /\ page'.subscribed = page.subscribed /\ page'.chat = page.chat
      /\ page'.mixed = (page.mixed \/ AwaitsHistory)
      /\ page' \in PageType
  <2>1. AwaitsHistory \in BOOLEAN
    BY DEF AwaitsHistory
  <2> QED BY Zenon, <1>1, <2>1 DEF PageType, oncloseOf
<1>3. hub' \in HubType /\ hub'.subs["page"] = {}
  BY Zenon, <1>1 DEF HubType, Senders
<1>4. budget' \in BudgetType /\ budget'.chats = budget.chats
  BY <1>1 DEF BudgetType
<1>5. <<>> \in Seq(UpType) /\ <<>> \in Seq(DownType)
  OBVIOUS
<1>6. ChatTypes'
  BY <1>1, <1>2, <1>3, <1>4, <1>5 DEF ChatInv, ChatTypes
<1>7. SubsInv'
  BY <1>1, <1>2, <1>3 DEF ChatInv, SubsInv
<1>8. LimitInv' /\ \A t \in Tables : AllOf(ring[t], t)'
  BY <1>1 DEF ChatInv, LimitInv, TableInv, AllOf
<1>9. OrderInv'
  <2>1. InOrder(<<>>, page.chat, NextId)
    BY DEF InOrder
  <2> QED BY <1>1, <1>2, <1>4, <2>1 DEF ChatInv, OrderInv, NextId
<1>10. ASSUME page.ref # NoTable PROVE TableOk(page.ref)'
  <2>1. AwaitsHistory <=> HasHistory(up) \/ HasHistory(down)
    BY DEF AwaitsHistory, HasHistory, IsHistory
  <2>2. (~page.mixed /\ ~HasHistory(up) /\ ~HasHistory(down)) => AllOf(page.chat, page.ref)
    BY <1>10 DEF ChatInv, TableInv, TableOk
  <2>3. ~page'.mixed => AllOf(page'.chat, page'.ref)
    BY Zenon, <1>2, <2>1, <2>2
  <2> QED BY <1>2, <2>3 DEF TableOk
<1>11. TableInv'
  BY <1>2, <1>8, <1>10 DEF TableInv
<1> QED BY <1>6, <1>7, <1>8, <1>9, <1>11 DEF ChatInv

\* A message or a history comes in (onmessage).
LEMMA ChatArrivalKeeps == ASSUME ChatInv, onmessage PROVE ChatInv'
<1> DEFINE h == Head(down)
<1>1. /\ page \in PageType /\ down \in Seq(DownType) /\ down # <<>> /\ down' = Tail(down)
      /\ UNCHANGED <<up, hub, ring, bucket, secs, budget>>
  BY DEF onmessage, ChatInv, ChatTypes
<1>2. h \in DownType /\ Tail(down) \in Seq(DownType) /\ page.chat \in Seq(MsgType)
  BY <1>1, TailAt DEF PageType
<1>3. \/ /\ ~IsHistory(h)
         /\ page' = [page EXCEPT !.chat = Trimmed(Append(page.chat, h.body), MAX_CHAT_MESSAGES)]
      \/ /\ IsHistory(h)
         /\ page' = [WithHistory(page, h.body) EXCEPT !.mixed = FALSE]
  BY DEF onmessage, IsHistory
<1> HIDE DEF h
<1>4. PICK z : z = page'.chat
  OBVIOUS
<1> DEFINE Shown ==
             /\ page' \in PageType /\ page'.sock = page.sock /\ page'.ref = page.ref
             /\ page'.selected = page.selected /\ page'.effects = page.effects
             /\ page'.subscribed = page.subscribed
             /\ IsHistory(h) => z = h.body
             /\ ~IsHistory(h) => MadeOf(z, page.chat, h.body) /\ page'.mixed = page.mixed
<1>5. Shown
  <2>1. CASE IsHistory(h)
    <3>1. page' = [[page EXCEPT !.chat = h.body] EXCEPT !.mixed = FALSE] /\ h.body \in Seq(MsgType)
      BY <1>2, <1>3, <2>1, DownTyped DEF WithHistory
    <3> QED BY Zenon, <1>1, <1>4, <2>1, <3>1 DEF PageType
  <2>2. CASE ~IsHistory(h)
    <3>1. PICK y : y = Trimmed(Append(page.chat, h.body), MAX_CHAT_MESSAGES)
      OBVIOUS
    <3>2. page' = [page EXCEPT !.chat = y] /\ h.body \in MsgType
      BY <1>2, <1>3, <2>2, <3>1, DownTyped
    <3>3. MAX_CHAT_MESSAGES \in Nat
      BY ChatParams
    <3>4. y \in Seq(MsgType) /\ MadeOf(y, page.chat, h.body)
      BY <1>2, <3>1, <3>2, <3>3, ShownKeeps
    <3>5. y = z
      BY <1>1, <1>4, <3>2 DEF PageType
    <3> QED BY Zenon, <1>1, <2>2, <3>2, <3>4, <3>5 DEF PageType
  <2> QED BY <2>1, <2>2
<1>6. ChatTypes'
  BY <1>1, <1>2, <1>5 DEF ChatInv, ChatTypes
<1>7. page.sock = "open" /\ SubsInv'
  BY <1>1, <1>5 DEF ChatInv, SubsInv, Wanted
<1>8. LimitInv' /\ \A t \in Tables : AllOf(ring[t], t)'
  BY <1>1 DEF ChatInv, LimitInv, TableInv, AllOf
<1>9. OrderInv'
  <2>1. /\ InOrder(down, page.chat, NextId) /\ Rising(page.chat) /\ Below(page.chat, NextId)
        /\ NextId' = NextId
    BY <1>1 DEF ChatInv, OrderInv, NextId
  <2>2. IF IsHistory(h) THEN Rising(h.body) /\ Below(h.body, NextId)
        ELSE Below(page.chat, h.body.id) /\ h.body.id < NextId
    <3>1. 1 \in DOMAIN down /\ h = down[1]
      BY <1>1, TailAt DEF h
    <3> QED BY <2>1, <3>1 DEF InOrder
  <2>3. Rising(z) /\ Below(z, NextId)
    BY Zenon, <1>5, <2>1, <2>2 DEF MadeOf
  <2>4. InOrder(Tail(down), z, NextId)
    <3>1. ~IsHistory(h) => \A k : Below(page.chat, k) /\ h.body.id < k => Below(z, k)
      BY Zenon, <1>5 DEF MadeOf
    <3> QED BY Zenon, <1>1, <1>5, <2>1, <3>1, InOrderTail DEF h
  <2> QED BY Zenon, <1>1, <1>4, <2>1, <2>3, <2>4 DEF ChatInv, OrderInv
<1>10. ASSUME page.ref # NoTable PROVE TableOk(page.ref)'
  <2>1. PICK t : t = page.ref
    OBVIOUS
  <2>2. TableOk(t)
    BY <1>10, <2>1 DEF ChatInv, TableInv
  <2>3. HasHistory(down) <=> IsHistory(h) \/ HasHistory(Tail(down))
    BY <1>1, HistoryTail DEF h
  <2>4. ASSUME ~HasHistory(up)
        PROVE  /\ CleanOk(up, hub.subs["page"], t) /\ ComingOk(Tail(down), t)
               /\ ~HasHistory(Tail(down)) => OfTable(h, t)
    <3>1. CleanOk(up, hub.subs["page"], t) /\ ComingOk(down, t)
      BY <1>7, <2>2, <2>4 DEF TableOk
    <3>2. ComingOk(Tail(down), t) /\ (~HasHistory(Tail(down)) => OfTable(Head(down), t))
      BY Zenon, <1>1, <3>1, ComingTail
    <3> QED BY <3>1, <3>2 DEF h
  <2>5. ASSUME ~page'.mixed, ~HasHistory(up), ~HasHistory(Tail(down)) PROVE AllOf(z, t)
    <3>1. OfTable(h, t)
      BY <2>4, <2>5
    <3>2. CASE IsHistory(h)
      BY <1>5, <3>1, <3>2 DEF OfTable
    <3>3. CASE ~IsHistory(h)
      <4>1. AllOf(page.chat, t) /\ h.body.table = t
        BY Zenon, <1>5, <2>2, <2>3, <2>5, <3>1, <3>3 DEF TableOk, OfTable
      <4> QED BY <1>5, <3>3, <4>1 DEF MadeOf
    <3> QED BY <3>2, <3>3
  <2>6. page.sock = "open" => AskedOk(up, t)
    BY <2>2 DEF TableOk
  <2>7. TableOk(t)'
    BY Zenon, <1>1, <1>4, <1>5, <2>4, <2>5, <2>6 DEF TableOk
  <2> QED BY Zenon, <1>5, <2>1, <2>7 DEF TableOk
<1>11. TableInv'
  BY Zenon, <1>5, <1>8, <1>10 DEF TableInv
<1> QED BY <1>6, <1>7, <1>8, <1>9, <1>11 DEF ChatInv

\* The user selects a table; the effects are still to run (setSelectedTableId).
LEMMA SelectKeeps ==
  ASSUME ChatInv, NEW table \in Tables \cup {NoTable}, setSelectedTableId(table)
  PROVE  ChatInv'
<1>1. /\ page \in PageType /\ budget \in BudgetType /\ budget.switches > 0
      /\ page' = [page EXCEPT !.selected = table, !.effects = TRUE]
      /\ budget' = [budget EXCEPT !.switches = @ - 1]
      /\ UNCHANGED <<up, down, hub, ring, bucket, secs>>
  BY DEF setSelectedTableId, ChatInv, ChatTypes
<1>2. /\ page' \in PageType /\ page'.sock = page.sock /\ page'.ref = page.ref
      /\ page'.subscribed = page.subscribed /\ page'.effects = TRUE
      /\ page'.chat = page.chat /\ page'.mixed = page.mixed
  BY Zenon, <1>1 DEF PageType
<1>3. budget' \in BudgetType /\ budget'.chats = budget.chats
  BY <1>1 DEF BudgetType
<1>4. ChatTypes' /\ SubsInv'
  BY <1>1, <1>2, <1>3 DEF ChatInv, ChatTypes, SubsInv, Wanted
<1>5. OrderInv' /\ LimitInv' /\ \A t \in Tables : AllOf(ring[t], t)'
  BY <1>1, <1>2, <1>3, OthersStay
<1>6. ASSUME page.ref # NoTable PROVE TableOk(page.ref)'
  BY <1>1, <1>2, <1>6 DEF ChatInv, TableInv, TableOk
<1>7. TableInv'
  BY <1>2, <1>5, <1>6 DEF TableInv
<1> QED BY <1>4, <1>5, <1>7 DEF ChatInv

\* The page sends a message to the table it shows (sendChat).
LEMMA SendKeeps == ASSUME ChatInv, sendChat PROVE ChatInv'
<1> DEFINE m == [type |-> "table_chat", table |-> page.selected]
<1>1. /\ page \in PageType /\ up \in Seq(UpType) /\ page.sock = "open" /\ up' = Append(up, m)
      /\ page.selected # NoTable
      /\ UNCHANGED <<page, down, hub, ring, bucket, secs, budget>>
  BY DEF sendChat, ChatInv, ChatTypes
<1>2. m \in UpType /\ m.type = "table_chat" /\ ~IsHistory(m)
  BY <1>1 DEF UpType, PageType, IsHistory
<1> HIDE DEF m
<1>3. /\ up' \in Seq(UpType) /\ Len(up) \in Nat /\ DOMAIN up = 1 .. Len(up)
      /\ DOMAIN up' = 1 .. Len(up) + 1 /\ up'[Len(up) + 1] = m
      /\ \A i \in 1 .. Len(up) : up'[i] = up[i]
  BY <1>1, <1>2, AppendAt
<1>4. HasHistory(up') <=> HasHistory(up)
  BY <1>1, <1>2, HistoryAppend
<1>5. ChatTypes'
  BY <1>1, <1>3 DEF ChatInv, ChatTypes
<1>6. SubsInv'
  <2>1. Leaves(up, hub.subs["page"], Wanted)
    BY <1>1 DEF ChatInv, SubsInv
  <2>2. Leaves(up', hub.subs["page"], Handled(m, Wanted))
    BY <1>1, <1>2, <2>1, LeavesAppend
  <2>3. Handled(m, Wanted) = Wanted
    BY <1>2 DEF Handled
  <2> QED BY Zenon, <1>1, <2>2, <2>3 DEF ChatInv, SubsInv, Wanted
<1>7. OrderInv' /\ LimitInv' /\ \A t \in Tables : AllOf(ring[t], t)'
  BY <1>1, OthersStay
<1>8. ASSUME page.ref # NoTable PROVE TableOk(page.ref)'
  <2>1. PICK t : t = page.ref
    OBVIOUS
  <2>2. TableOk(t)
    BY <1>8, <2>1 DEF ChatInv, TableInv
  <2>3. AskedOk(up', t)
    BY Zenon, <1>1, <1>2, <2>2, AskedAppend DEF TableOk
  <2>4. ASSUME CleanOk(up, hub.subs["page"], t) PROVE CleanOk(up', hub.subs["page"], t)
    <3>1. ASSUME NEW i \in DOMAIN up', up'[i].type = "subscribe" PROVE up'[i].table \in {"global", t}
      <4>1. i # Len(up) + 1
        BY <1>2, <1>3, <3>1
      <4>2. i \in DOMAIN up /\ up'[i] = up[i]
        BY <1>3, <4>1
      <4> QED BY <2>4, <3>1, <4>2 DEF CleanOk
    <3> QED BY <2>4, <3>1 DEF CleanOk
  <2>5. TableOk(t)'
    BY Zenon, <1>1, <1>4, <2>2, <2>3, <2>4 DEF TableOk
  <2> QED BY Zenon, <1>1, <2>1, <2>5 DEF TableOk
<1>9. TableInv'
  BY <1>1, <1>7, <1>8 DEF TableInv
<1> QED BY <1>5, <1>6, <1>7, <1>9 DEF ChatInv

\* The effects send the subscriptions of the new table, and ask for its history, in this
\* order on the one socket.
LEMMA SwitchLeaves ==
  ASSUME NEW previous \in Tables \cup {NoTable}, NEW table \in Tables, table # previous,
         table # NoTable, NEW q \in Seq(UpType), NEW S,
         Leaves(q, S, {"global"} \cup ({previous} \ {NoTable})),
         NEW z, z = q \o SwitchSends(previous, table)
  PROVE  /\ z \in Seq(UpType) /\ Leaves(z, S, {"global"} \cup {table})
         /\ AskedOk(z, table) /\ HasHistory(z)
<1> DEFINE u == Unsubscribe(previous)
           s == Subscribe(table)
           h == History(table)
           W == {"global"} \cup ({previous} \ {NoTable})
<1>1. /\ s \in UpType /\ s.type = "subscribe" /\ s.table = table
      /\ h \in UpType /\ h.type = "chat_history" /\ h.table = table /\ IsHistory(h)
      /\ u.type = "unsubscribe" /\ u.table = previous
      /\ previous # NoTable => u \in UpType
  BY DEF Subscribe, Unsubscribe, History, UpType, Rooms, IsHistory
<1>2. z = q \o ((IF previous # NoTable THEN <<u>> ELSE <<>>) \o <<s, h>>)
  BY DEF SwitchSends
<1>3. Leaves(q, S, W)
  OBVIOUS
<1> HIDE DEF u, s, h, W
<1>4. PICK p \in Seq(UpType) : /\ z = Append(Append(p, s), h)
                               /\ Leaves(p, S, {"global"})
  <2>1. CASE previous = NoTable
    <3>1. z = Append(Append(q, s), h)
      BY <1>1, <1>2, <2>1
    <3>2. W = {"global"}
      BY <2>1 DEF W
    <3> QED BY <1>3, <3>1, <3>2
  <2>2. CASE previous # NoTable
    <3>1. z = Append(Append(Append(q, u), s), h)
      BY <1>1, <1>2, <2>2
    <3>2. Append(q, u) \in Seq(UpType)
      BY <1>1, <2>2, AppendAt
    <3>3. Leaves(Append(q, u), S, Handled(u, W))
      BY <1>1, <1>3, <2>2, LeavesAppend
    <3>4. Handled(u, W) = {"global"}
      BY <1>1, <2>2, ChatParams DEF Handled, W
    <3> QED BY Zenon, <3>1, <3>2, <3>3, <3>4
  <2> QED BY Zenon, <2>1, <2>2
<1>5. PICK r \in Seq(UpType) : r = Append(p, s)
  BY Zenon, <1>1, AppendAt
<1>6. Leaves(r, S, {"global"} \cup {table})
  <2>1. Leaves(r, S, Handled(s, {"global"}))
    BY <1>1, <1>4, <1>5, LeavesAppend
  <2>2. Handled(s, {"global"}) = {"global"} \cup {table}
    BY <1>1 DEF Handled
  <2> QED BY Zenon, <2>1, <2>2
<1>7. z = Append(r, h)
  BY <1>4, <1>5
<1>8. z \in Seq(UpType) /\ HasHistory(z) /\ AskedOk(z, table)
  BY <1>1, <1>7, AppendAt, HistoryAppend, AskedAppend
<1>9. Leaves(z, S, {"global"} \cup {table})
  <2>0. PICK V : V = {"global"} \cup {table}
    BY Zenon
  <2>1. Leaves(Append(r, h), S, Handled(h, V))
    BY <1>1, <1>6, <2>0, LeavesAppend
  <2>2. Handled(h, {"global"} \cup {table}) = {"global"} \cup {table}
    BY <1>1 DEF Handled
  <2> QED BY Zenon, <1>7, <2>0, <2>1, <2>2
<1> QED BY <1>8, <1>9

\* React runs the effects of a selection (runEffects).
LEMMA EffectsKeep == ASSUME ChatInv, runEffects PROVE ChatInv'
<1>1. /\ page \in PageType /\ up \in Seq(UpType) /\ down \in Seq(DownType)
      /\ page.effects /\ UNCHANGED <<down, hub, ring, bucket, secs, budget>>
      /\ page.selected \in Tables \cup {NoTable} /\ page.ref \in Tables \cup {NoTable}
  BY DEF runEffects, ChatInv, ChatTypes, PageType
<1>2. CASE page.sock # "open"
  <2>1. /\ page' = [page EXCEPT !.effects = FALSE, !.ref = page.selected, !.mixed = TRUE]
        /\ up' = up
    BY <1>2 DEF runEffects
  <2>2. /\ page' \in PageType /\ page'.sock = page.sock /\ page'.ref = page.selected
        /\ page'.selected = page.selected /\ page'.chat = page.chat /\ page'.mixed = TRUE
    BY Zenon, <1>1, <2>1 DEF PageType
  <2>3. ChatTypes' /\ SubsInv'
    BY <1>1, <1>2, <2>1, <2>2 DEF ChatInv, ChatTypes, SubsInv
  <2>4. OrderInv' /\ LimitInv' /\ \A t \in Tables : AllOf(ring[t], t)'
    BY <1>1, <2>2, OthersStay
  <2>5. TableInv'
    BY Zenon, <1>2, <2>2, <2>4 DEF TableInv, TableOk
  <2> QED BY <2>3, <2>4, <2>5 DEF ChatInv
<1>3. CASE page.sock = "open"
  <2> DEFINE new == page.selected \notin {NoTable, page.subscribed}
  <2>1. /\ up' = up \o SwitchSends(page.subscribed, page.selected)
        /\ page' = [page EXCEPT
                      !.effects = FALSE, !.ref = page.selected, !.subscribed = page.selected,
                      !.chat = IF new THEN <<>> ELSE page.chat]
    BY <1>3 DEF runEffects
  <2>2. /\ page' \in PageType /\ page'.sock = page.sock /\ page'.ref = page.selected
        /\ page'.subscribed = page.selected /\ page'.effects = FALSE
        /\ page'.selected = page.selected /\ page'.mixed = page.mixed
        /\ new => page'.chat = <<>>
        /\ ~new => page'.chat = page.chat
    <3>0. page.chat \in Seq(MsgType) /\ <<>> \in Seq(MsgType)
      BY <1>1 DEF PageType
    <3>1. PICK c \in Seq(MsgType) : (new => c = <<>>) /\ (~new => c = page.chat)
      BY Zenon, <3>0
    <3>2. page' = [page EXCEPT !.effects = FALSE, !.ref = page.selected,
                               !.subscribed = page.selected, !.chat = c]
      BY Zenon, <2>1, <3>1
    <3>3. page'.chat = c
      BY <1>1, <3>2 DEF PageType
    <3>4. /\ page' \in PageType /\ page'.sock = page.sock /\ page'.ref = page.selected
          /\ page'.subscribed = page.selected /\ page'.effects = FALSE
          /\ page'.selected = page.selected /\ page'.mixed = page.mixed
      BY Zenon, <1>1, <3>2 DEF PageType
    <3> QED BY <3>1, <3>3, <3>4
  <2>3. page.subscribed = page.ref /\ Leaves(up, hub.subs["page"], Wanted)
    BY <1>3 DEF ChatInv, SubsInv
  <2>4. Wanted' = {"global"} \cup ({page.selected} \ {NoTable})
    BY <2>2 DEF Wanted
  <2>5. LimitInv' /\ \A t \in Tables : AllOf(ring[t], t)'
    BY <1>1 DEF ChatInv, LimitInv, TableInv, AllOf
  <2>6. CASE page.selected = page.ref
    <3>1. SwitchSends(page.subscribed, page.selected) = <<>> /\ ~new
      BY <2>3, <2>6 DEF SwitchSends
    <3>2. up' = up
      BY <1>1, <2>1, <3>1
    <3>3. ChatTypes' /\ SubsInv'
      BY Zenon, <1>1, <1>3, <2>2, <2>3, <2>6, <3>2
         DEF ChatInv, ChatTypes, SubsInv, Wanted
    <3>4. OrderInv'
      BY Zenon, <1>1, <2>2, <3>1, OthersStay
    <3>5. ASSUME page.ref # NoTable PROVE TableOk(page.ref)'
      BY Zenon, <1>1, <2>2, <2>6, <3>1, <3>2, <3>5
         DEF ChatInv, TableInv, TableOk
    <3>6. TableInv'
      BY <2>2, <2>5, <2>6, <3>5 DEF TableInv
    <3> QED BY <2>5, <3>3, <3>4, <3>6 DEF ChatInv
  <2>7. CASE page.selected = NoTable /\ page.ref # NoTable
    <3> DEFINE u == Unsubscribe(page.ref)
    <3>1. u \in UpType /\ u.type = "unsubscribe" /\ u.table = page.ref
      BY <1>1, <2>7 DEF Unsubscribe, UpType, Rooms
    <3>2. SwitchSends(page.subscribed, page.selected) = <<u>> /\ ~new
      BY <2>3, <2>7 DEF SwitchSends
    <3> HIDE DEF u
    <3>3. up' = Append(up, u) /\ up' \in Seq(UpType)
      <4>1. up' = Append(up, u)
        BY <1>1, <2>1, <3>1, <3>2
      <4> QED BY <1>1, <3>1, <4>1, AppendAt
    <3>4. Leaves(up', hub.subs["page"], Handled(u, Wanted))
      BY <1>1, <2>3, <3>1, <3>3, LeavesAppend
    <3>5. Handled(u, Wanted) = Wanted'
      <4>1. page.ref # "global"
        BY <1>1, ChatParams
      <4> QED BY <2>4, <2>7, <3>1, <4>1 DEF Handled, Wanted
    <3>6. ChatTypes' /\ SubsInv'
      BY Zenon, <1>1, <1>3, <2>2, <3>3, <3>4, <3>5
         DEF ChatInv, ChatTypes, SubsInv
    <3>7. OrderInv'
      BY Zenon, <1>1, <2>2, <3>2, OthersStay
    <3>8. TableInv'
      BY <2>2, <2>5, <2>7 DEF TableInv
    <3> QED BY <2>5, <3>6, <3>7, <3>8 DEF ChatInv
  <2>8. CASE page.selected # NoTable /\ page.selected # page.ref
    <3>1. PICK t \in Tables : t = page.selected
      BY <1>1, <2>8
    <3>2. /\ up' \in Seq(UpType) /\ Leaves(up', hub.subs["page"], {"global"} \cup {t})
          /\ AskedOk(up', t) /\ HasHistory(up')
      <4>1. PICK previous \in Tables \cup {NoTable} : previous = page.ref
        BY <1>1
      <4>2. PICK q \in Seq(UpType) : q = up
        BY <1>1
      <4>3. PICK S : S = hub.subs["page"]
        OBVIOUS
      <4>4. PICK z : z = up'
        OBVIOUS
      <4>5. /\ Leaves(q, S, {"global"} \cup ({previous} \ {NoTable}))
            /\ z = q \o SwitchSends(previous, t) /\ t # previous /\ t # NoTable
        BY <2>1, <2>3, <2>8, <3>1, <4>1, <4>2, <4>3, <4>4 DEF Wanted
      <4>6. /\ z \in Seq(UpType) /\ Leaves(z, S, {"global"} \cup {t})
            /\ AskedOk(z, t) /\ HasHistory(z)
        BY Zenon, <3>1, <4>1, <4>2, <4>5, SwitchLeaves
      <4> QED BY Zenon, <4>3, <4>4, <4>6
    <3>3. Wanted' = {"global"} \cup {t}
      BY <2>4, <2>8, <3>1
    <3>4. ChatTypes' /\ SubsInv'
      BY Zenon, <1>1, <1>3, <2>2, <3>2, <3>3 DEF ChatInv, ChatTypes, SubsInv
    <3>5. page'.chat = <<>>
      BY Zenon, <2>2, <2>3, <2>8
    <3>6. OrderInv'
      <4>1. Rising(<<>>) /\ \A n : Below(<<>>, n)
        BY DEF Rising, Below
      <4>2. InOrder(down, page.chat, NextId) => InOrder(down, <<>>, NextId)
        BY Zenon, <4>1 DEF InOrder
      <4>3. NextId' = NextId
        BY <1>1 DEF NextId
      <4> QED BY <1>1, <3>5, <4>1, <4>2, <4>3 DEF ChatInv, OrderInv
    <3>7. TableOk(t)'
      BY <1>3, <2>2, <3>2 DEF TableOk
    <3>8. TableInv'
      <4>1. TableOk(page.ref)'
        BY Zenon, <2>2, <3>1, <3>7 DEF TableOk
      <4> QED BY <2>5, <4>1 DEF TableInv
    <3> QED BY <2>5, <3>4, <3>6, <3>8 DEF ChatInv
  <2> QED BY <2>6, <2>7, <2>8
<1> QED BY <1>2, <1>3

\* A second passes, or nothing happens.
LEMMA IdleKeeps ==
  ASSUME ChatInv, UNCHANGED <<page, up, down, hub, ring, bucket, budget>>, secs' \in Nat
  PROVE  ChatInv'
<1>1. ChatTypes' /\ SubsInv'
  BY DEF ChatInv, ChatTypes, SubsInv, Wanted
<1>2. OrderInv' /\ LimitInv' /\ \A t \in Tables : AllOf(ring[t], t)'
  BY OthersStay
<1>3. TableInv'
  BY Zenon, <1>2 DEF ChatInv, TableInv, TableOk
<1> QED BY <1>1, <1>2, <1>3 DEF ChatInv

\* The page before it connects, on no table, with nothing said.
LEMMA ChatInitOk == ChatInit => ChatInv
<1> SUFFICES ASSUME ChatInit PROVE ChatInv
  OBVIOUS
<1>1. MaxDrops \in Nat /\ MaxSwitches \in Nat /\ MaxChats \in Nat
  BY ChatParams
<1>2. page \in PageType
  BY DEF ChatInit, PageType
<1>3. hub \in HubType /\ hub.subs["page"] = {}
  BY Zenon DEF ChatInit, HubType, Senders, Rooms
<1>4. budget \in BudgetType
  BY <1>1 DEF ChatInit, BudgetType
<1>5. ring \in [Tables -> Seq(MsgType)] /\ \A t \in Tables : ring[t] = <<>>
  BY DEF ChatInit
<1>6. up \in Seq(UpType) /\ down \in Seq(DownType) /\ secs \in Nat
  BY DEF ChatInit
<1>7. ChatTypes
  BY <1>2, <1>3, <1>4, <1>5, <1>6 DEF ChatTypes
<1>8. SubsInv
  BY Zenon, <1>3 DEF ChatInit, SubsInv
<1>9. TableInv
  BY <1>5 DEF ChatInit, TableInv, AllOf
<1>10. OrderInv
  <2>1. Rising(<<>>) /\ Below(<<>>, NextId) /\ InOrder(<<>>, <<>>, NextId)
    BY DEF Rising, Below, InOrder
  <2>2. page.chat = <<>> /\ down = <<>>
    BY Zenon DEF ChatInit
  <2> QED BY <1>5, <2>1, <2>2 DEF OrderInv
<1>11. LimitInv
  <2>1. IP_CHAT_LIMIT_PER_MIN \in Nat
    BY ChatParams
  <2> QED BY <2>1 DEF ChatInit, LimitInv
<1> QED BY <1>7, <1>8, <1>9, <1>10, <1>11 DEF ChatInv

\* Every step of the page, the hub and the clock.
LEMMA ChatNextOk == ChatInv /\ [ChatNext]_chatVars => ChatInv'
<1> SUFFICES ASSUME ChatInv, [ChatNext]_chatVars PROVE ChatInv'
  OBVIOUS
<1>1. secs \in Nat
  BY DEF ChatInv, ChatTypes
<1>2. CASE onMessage
  BY <1>2, HubKeeps
<1>3. ASSUME NEW t \in Tables, OtherChats(t) PROVE ChatInv'
  BY <1>3, OtherKeeps
<1>4. CASE connect
  BY <1>4, ConnectKeeps
<1>5. CASE onopen
  BY <1>5, OpenKeeps
<1>6. CASE onclose
  BY <1>6, CloseKeeps
<1>7. CASE onmessage
  BY <1>7, ChatArrivalKeeps
<1>8. ASSUME NEW t \in Tables \cup {NoTable}, setSelectedTableId(t) PROVE ChatInv'
  BY <1>8, SelectKeeps
<1>9. CASE runEffects
  BY <1>9, EffectsKeep
<1>10. CASE sendChat
  BY <1>10, SendKeeps
<1>11. CASE ChatTick
  BY <1>1, <1>11, IdleKeeps DEF ChatTick
<1>12. CASE UNCHANGED chatVars
  BY <1>1, <1>12, IdleKeeps DEF chatVars
<1> QED BY <1>2, <1>3, <1>4, <1>5, <1>6, <1>7, <1>8, <1>9, <1>10, <1>11, <1>12 DEF ChatNext

(* Through switches of table, lost sockets and messages that cross, the page shows the   *)
(* chat of the table it is on, each message once and in order, and the hub lets no       *)
(* address talk past its limit (the hook useGameState.ts and the hub in ws.ts).          *)
THEOREM ChatStaysOfTheTable == ChatSpec => []ChatIsOfTheTable
<1>1. ChatInit => ChatInv
  BY ChatInitOk
<1>2. ChatInv /\ [ChatNext]_chatVars => ChatInv'
  BY ChatNextOk
<1>3. ChatInv => ChatIsOfTheTable
  <2> SUFFICES ASSUME ChatInv PROVE ChatIsOfTheTable
    OBVIOUS
  <2>1. /\ page \in PageType /\ hub.subs["page"] \in SUBSET Rooms /\ Wanted \in SUBSET Rooms
    BY DEF ChatInv, ChatTypes, PageType, HubType, Senders, Wanted, Rooms
  <2>2. ASSUME Settled
        PROVE  page.ref = page.selected /\ page.sock = "open" /\ ~HasHistory(up) /\ ~HasHistory(down)
    BY <2>2 DEF Settled, AwaitsHistory, HasHistory, IsHistory, ChatInv, SubsInv
  <2>3. SubscribedToSelection
    <3>1. ASSUME Settled PROVE hub.subs["page"] = {"global"} \cup ({page.selected} \ {NoTable})
      <4>1. Leaves(up, hub.subs["page"], Wanted)
        BY <2>2, <3>1 DEF ChatInv, SubsInv
      <4>2. \A i \in DOMAIN up : up[i].type \notin {"subscribe", "unsubscribe"}
        BY <3>1 DEF Settled
      <4>3. hub.subs["page"] = Wanted
        BY <2>1, <4>1, <4>2, LeavesDone
      <4> QED BY <2>2, <3>1, <4>3 DEF Wanted
    <3> QED BY <3>1 DEF SubscribedToSelection
  <2>4. ChatOfSelectedTable
    BY Zenon, <2>2 DEF ChatOfSelectedTable, ChatInv, TableInv, TableOk, AllOf
  <2>5. ChatOnceInOrder
    BY Zenon DEF ChatOnceInOrder, ChatInv, OrderInv, Rising
  <2>6. ChatLimitPerIp
    BY DEF ChatLimitPerIp, ChatInv, LimitInv
  <2> QED BY <2>3, <2>4, <2>5, <2>6 DEF ChatIsOfTheTable
<1> QED BY <1>1, <1>2, <1>3, PTL DEF ChatSpec
=============================================================================
