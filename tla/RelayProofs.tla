---------------------------- MODULE RelayProofs -----------------------------
(***************************************************************************)
(* What the coordinator passes on, for every number of events, tables and  *)
(* sockets, whatever is lost or said twice: its relay of chain events,     *)
(* and the two feeds through which a page hears of its table.              *)
(***************************************************************************)
EXTENDS Relay, PageFeeds, FiniteSetTheorems, SequenceTheorems, TLAPS

(* The relay. *)

SocketType ==
    [state : {"connecting", "open", "subscribed", "closing", "closed"}, queue : Seq(Nat)]
AdapterType == [ws : Nat, timer : BOOLEAN, subscriber : BOOLEAN, nextEventIndex : Nat]
SentType == [event : Nat, index : Nat]

RelayTypes ==
    /\ chain \in Seq(Tables) /\ sockets \in Seq(SocketType)
    /\ adapter \in AdapterType /\ sent \in Seq(SentType)

IsLive(socket) == socket.state \in {"connecting", "open", "subscribed"}

\* The adapter's socket is one it has opened and that has not closed, and the only live
\* one; without one, a running adapter has its timer set and a stopped one nothing.
AdapterOk ==
    /\ adapter.ws \in {NoSocket} \cup DOMAIN sockets
    /\ adapter.ws # NoSocket => sockets[adapter.ws].state # "closed"
    /\ \A s \in DOMAIN sockets : IsLive(sockets[s]) => s = adapter.ws
    /\ adapter.subscriber => (adapter.ws # NoSocket \/ adapter.timer)
    /\ ~adapter.subscriber => (adapter.ws = NoSocket /\ ~adapter.timer)

\* What is queued is on a subscribed socket, in order, and after all that was sent.
QueueOk(socket) ==
    /\ socket.queue # <<>> => socket.state = "subscribed"
    /\ \A i \in DOMAIN socket.queue :
         /\ socket.queue[i] \in 1 .. Len(chain)
         /\ \A k \in DOMAIN sent : sent[k].event < socket.queue[i]
         /\ \A j \in DOMAIN socket.queue : i < j => socket.queue[i] < socket.queue[j]

SentOk ==
    /\ \A k \in DOMAIN sent : sent[k].event <= Len(chain) /\ sent[k].index < adapter.nextEventIndex
    /\ RelayedOnceInOrder

\* At most one read of the table is under way.
OneRead(table) == \A q, r \in reads : (q.table = table /\ r.table = table) => q = r

\* The store lags behind no event that was heard, unless the read that was to bring it is
\* under way, or met another one, or failed.
EntryOk(table) ==
    /\ store[table].heard <= Version(table)
    /\ ~store[table].overlap =>
         /\ OneRead(table)
         /\ \A r \in reads : r.table = table => r.version = 0 \/ r.version >= store[table].heard
         /\ (~\E r \in reads : r.table = table) => store[table].version >= store[table].heard

EntryType == [version : Nat, heard : Nat, overlap : BOOLEAN]
ReadType == [table : Tables, event : Nat, version : Nat]

StoreOk ==
    /\ store \in [Tables -> EntryType] /\ reads \subseteq ReadType
    /\ \A t \in Tables : EntryOk(t)

RelayInv ==
    /\ RelayTypes /\ AdapterOk /\ SentOk
    /\ \A s \in DOMAIN sockets : QueueOk(sockets[s])

\* The numbers from 1 up to another are finitely many (a fact of the library).
LEMMA IntervalFinite == \A k \in Nat : IsFiniteSet(1 .. k)
<1>1. \A k \in Nat : 1 \in Int /\ k \in Int
  OBVIOUS
<1> QED BY Zenon, <1>1, FS_Interval

\* The sequences of the relay and their elements.
LEMMA RelayTyped ==
  ASSUME RelayTypes
  PROVE  /\ DOMAIN sockets = 1 .. Len(sockets) /\ Len(sockets) \in Nat /\ Len(chain) \in Nat
         /\ DOMAIN sent = 1 .. Len(sent) /\ Len(sent) \in Nat
         /\ \A s \in DOMAIN sockets : sockets[s] \in SocketType
         /\ \A k \in DOMAIN sent : sent[k].event \in Nat /\ sent[k].index \in Nat
         /\ \A s \in DOMAIN sockets : sockets[s].queue \in Seq(Nat)
         /\ adapter.nextEventIndex \in Nat
<1>1. /\ DOMAIN sockets = 1 .. Len(sockets) /\ Len(sockets) \in Nat
      /\ \A s \in DOMAIN sockets : sockets[s] \in SocketType
  BY LenProperties DEF RelayTypes
<1>2. /\ DOMAIN sent = 1 .. Len(sent) /\ Len(sent) \in Nat
      /\ \A k \in DOMAIN sent : sent[k] \in SentType
  BY LenProperties DEF RelayTypes
<1>3. Len(chain) \in Nat /\ adapter \in AdapterType
  BY LenProperties DEF RelayTypes
<1>4. \A k \in DOMAIN sent : sent[k].event \in Nat /\ sent[k].index \in Nat
  BY <1>2 DEF SentType
<1>5. \A s \in DOMAIN sockets : sockets[s].queue \in Seq(Nat)
  BY <1>1 DEF SocketType
<1>6. adapter.nextEventIndex \in Nat
  BY <1>3 DEF AdapterType
<1> QED BY <1>1, <1>2, <1>3, <1>4, <1>5, <1>6

\* A socket with nothing queued is in order.
LEMMA EmptyQueueOk == ASSUME NEW x, x.queue = <<>> PROVE QueueOk(x)
<1>1. DOMAIN x.queue = {}
  OBVIOUS
<1> QED BY <1>1 DEF QueueOk

\* One socket opens, is subscribed, fails or closes: it has nothing queued after that,
\* and the queues of the others and what was sent are not touched.
LEMMA SocketChanges ==
  ASSUME RelayInv, NEW s \in DOMAIN sockets, NEW x \in SocketType, x.queue = <<>>,
         sockets' = [sockets EXCEPT ![s] = x], UNCHANGED <<chain, sent>>,
         adapter' \in AdapterType, adapter'.nextEventIndex = adapter.nextEventIndex
  PROVE  /\ RelayTypes' /\ SentOk' /\ \A t \in DOMAIN sockets' : QueueOk(sockets[t])'
         /\ DOMAIN sockets' = DOMAIN sockets /\ sockets'[s] = x
         /\ \A t \in DOMAIN sockets \ {s} : sockets'[t] = sockets[t]
<1>1. /\ RelayTypes /\ sockets \in Seq(SocketType)
      /\ DOMAIN sockets = 1 .. Len(sockets) /\ Len(sockets) \in Nat
  BY RelayTyped DEF RelayInv, RelayTypes
<1>2. /\ sockets' \in Seq(SocketType) /\ DOMAIN sockets' = DOMAIN sockets /\ sockets'[s] = x
      /\ \A t \in DOMAIN sockets \ {s} : sockets'[t] = sockets[t]
  BY <1>1, ExceptSeq
<1>3. RelayTypes' /\ SentOk'
  BY <1>1, <1>2 DEF RelayInv, RelayTypes, SentOk, RelayedOnceInOrder
<1>4. ASSUME NEW t \in DOMAIN sockets' PROVE QueueOk(sockets[t])'
  <2>1. CASE t = s
    BY <1>2, <2>1 DEF QueueOk
  <2>2. CASE t # s
    BY <1>2, <2>2 DEF RelayInv, QueueOk
  <2> QED BY <2>1, <2>2
<1> QED BY <1>2, <1>3, <1>4

\* An event goes to every subscribed socket, after all that are queued (Emit).
LEMMA EmitKeeps == ASSUME RelayInv, NEW table \in Tables, Emit(table) PROVE RelayInv'
<1>1. /\ RelayTypes /\ DOMAIN sockets = 1 .. Len(sockets) /\ Len(sockets) \in Nat
      /\ \A s \in DOMAIN sockets : sockets[s] \in SocketType /\ sockets[s].queue \in Seq(Nat)
      /\ \A k \in DOMAIN sent : sent[k].event \in Nat
  BY RelayTyped DEF RelayInv
<1>2. PICK n \in Nat : n = Len(chain)
  BY <1>1, RelayTyped
<1>3. /\ chain' \in Seq(Tables) /\ Len(chain') = n + 1 /\ UNCHANGED <<adapter, sent>>
      /\ sockets' = [s \in DOMAIN sockets |->
                       IF sockets[s].state = "subscribed"
                       THEN [sockets[s] EXCEPT !.queue = Append(@, n + 1)]
                       ELSE sockets[s]]
  BY <1>1, <1>2, AppendProperties DEF Emit, RelayTypes
<1>4. DOMAIN sockets' = DOMAIN sockets
  BY <1>3
<1>5. ASSUME NEW s \in DOMAIN sockets
      PROVE  /\ sockets'[s] \in SocketType /\ sockets'[s].state = sockets[s].state
             /\ QueueOk(sockets[s])'
  <2>1. QueueOk(sockets[s]) /\ sockets[s] \in SocketType /\ sockets[s].queue \in Seq(Nat)
    BY <1>1 DEF RelayInv
  <2> DEFINE q == sockets[s].queue
             new == Append(q, n + 1)
  <2>2. Len(q) \in Nat /\ DOMAIN q = 1 .. Len(q) /\ \A i \in DOMAIN q : q[i] \in Nat
    BY <2>1, LenProperties
  <2>3. /\ new \in Seq(Nat) /\ Len(new) = Len(q) + 1 /\ DOMAIN new = 1 .. Len(q) + 1
        /\ \A i \in 1 .. Len(q) : new[i] = q[i]
        /\ new[Len(q) + 1] = n + 1
    <3>1. q \in Seq(Nat) /\ n + 1 \in Nat
      BY <2>1
    <3> HIDE DEF q
    <3> QED BY <3>1, AppendProperties, LenProperties
  <2>4. \A k \in DOMAIN sent : sent[k].event <= n
    BY <1>2 DEF RelayInv, SentOk
  <2>5. CASE sockets[s].state # "subscribed"
    <3>1. sockets'[s] = sockets[s] /\ q = <<>>
      BY <1>3, <2>1, <2>5 DEF QueueOk
    <3>2. QueueOk(sockets[s])'
      BY <3>1 DEF QueueOk
    <3> QED BY <2>1, <3>1, <3>2
  <2>6. CASE sockets[s].state = "subscribed"
    <3>1. sockets'[s] = [sockets[s] EXCEPT !.queue = new]
      BY <1>3, <2>6
    <3> HIDE DEF new
    <3>2. /\ sockets'[s] \in SocketType /\ sockets'[s].state = sockets[s].state
          /\ sockets'[s].queue = new
      BY Zenon, <2>1, <2>3, <3>1 DEF SocketType
    <3>3. \A i \in DOMAIN q : /\ q[i] \in 1 .. n /\ (\A k \in DOMAIN sent : sent[k].event < q[i])
                              /\ \A j \in DOMAIN q : i < j => q[i] < q[j]
      BY <1>2, <2>1 DEF QueueOk
    <3> HIDE DEF q
    <3>4. ASSUME NEW i \in DOMAIN new
          PROVE  /\ new[i] \in 1 .. n + 1
                 /\ \A k \in DOMAIN sent : sent[k].event < new[i]
                 /\ \A j \in DOMAIN new : i < j => new[i] < new[j]
      <4>1. CASE i \in DOMAIN q
        <5>1. new[i] = q[i] /\ q[i] \in Nat /\ q[i] \in 1 .. n
          BY <2>2, <2>3, <3>3, <4>1
        <5>2. ASSUME NEW j \in DOMAIN new, i < j PROVE new[i] < new[j]
          <6>1. CASE j \in DOMAIN q
            BY <2>2, <2>3, <3>3, <4>1, <5>1, <5>2, <6>1
          <6>2. CASE j = Len(q) + 1
            BY <2>3, <5>1, <6>2
          <6> QED BY <2>2, <2>3, <6>1, <6>2
        <5> QED BY <3>3, <4>1, <5>1, <5>2
      <4>2. CASE i = Len(q) + 1
        <5>1. new[i] = n + 1 /\ \A j \in DOMAIN new : ~(i < j)
          BY <2>2, <2>3, <4>2
        <5> QED BY <1>1, <2>4, <5>1
      <4> QED BY <2>2, <2>3, <4>1, <4>2
    <3>5. QueueOk(sockets[s])'
      BY ZenonT(30), <1>3, <2>6, <3>2, <3>4 DEF QueueOk
    <3> QED BY <3>2, <3>5
  <2> QED BY <2>5, <2>6
<1>6. sockets' \in Seq(SocketType)
  <2>1. sockets' \in [1 .. Len(sockets) -> SocketType]
    BY Zenon, <1>1, <1>3, <1>4, <1>5
  <2> QED BY <1>1, <2>1
<1>7. RelayTypes'
  BY Zenon, <1>1, <1>3, <1>6 DEF RelayTypes
<1>8. AdapterOk'
  BY <1>3, <1>4, <1>5 DEF RelayInv, AdapterOk, IsLive, NoSocket
<1>9. SentOk'
  BY <1>1, <1>2, <1>3 DEF RelayInv, SentOk, RelayedOnceInOrder
<1> QED BY <1>4, <1>5, <1>7, <1>8, <1>9 DEF RelayInv

\* The timer opens a socket only for a running adapter that has none (ensureWs).
LEMMA EnsureKeeps == ASSUME RelayInv, ensureWs PROVE RelayInv'
<1>1. /\ RelayTypes /\ DOMAIN sockets = 1 .. Len(sockets) /\ Len(sockets) \in Nat
      /\ adapter \in AdapterType /\ sockets \in Seq(SocketType)
  BY RelayTyped DEF RelayInv, RelayTypes
<1>2. adapter.timer /\ adapter.subscriber /\ UNCHANGED <<chain, sent>>
  BY DEF ensureWs, RelayInv, AdapterOk
<1> DEFINE a == [adapter EXCEPT !.timer = FALSE]
<1>3. /\ a \in AdapterType /\ a.ws = adapter.ws /\ ~a.timer /\ a.subscriber
      /\ a.nextEventIndex = adapter.nextEventIndex
  BY Zenon, <1>1, <1>2 DEF AdapterType
<1>4. CASE adapter.ws # NoSocket
  <2>1. adapter' = a /\ sockets' = sockets
    BY <1>3, <1>4 DEF ensureWs, ensureWsOf
  <2> HIDE DEF a
  <2>2. RelayTypes' /\ SentOk' /\ \A s \in DOMAIN sockets' : QueueOk(sockets[s])'
    BY <1>1, <1>2, <1>3, <2>1 DEF RelayInv, RelayTypes, SentOk, RelayedOnceInOrder, QueueOk
  <2>3. AdapterOk'
    BY <1>3, <1>4, <2>1 DEF RelayInv, AdapterOk
  <2> QED BY <2>2, <2>3 DEF RelayInv
<1>5. CASE adapter.ws = NoSocket
  <2> DEFINE x == [state |-> "connecting", queue |-> <<>>]
             m == Len(sockets) + 1
  <2>1. adapter' = [a EXCEPT !.ws = m] /\ sockets' = Append(sockets, x)
    BY <1>3, <1>5 DEF ensureWs, ensureWsOf
  <2>m. m \in Nat
    BY <1>1
  <2> HIDE DEF a, m
  <2>2. /\ adapter' \in AdapterType /\ adapter'.ws = m /\ adapter'.subscriber
        /\ adapter'.nextEventIndex = adapter.nextEventIndex
    BY <1>3, <2>1, <2>m DEF AdapterType
  <2>3. x \in SocketType /\ x.queue = <<>> /\ x.state = "connecting"
    BY EmptySeq DEF SocketType
  <2> HIDE DEF x
  <2> USE DEF m
  <2>4. /\ sockets' \in Seq(SocketType) /\ DOMAIN sockets' = DOMAIN sockets \cup {m}
        /\ \A s \in DOMAIN sockets : sockets'[s] = sockets[s]
        /\ sockets'[m] = x /\ m # 0
    <3>1. /\ sockets' \in Seq(SocketType) /\ Len(sockets') = m
          /\ \A s \in 1 .. Len(sockets) : sockets'[s] = sockets[s]
          /\ sockets'[m] = x
      BY <1>1, <2>1, <2>3, AppendProperties
    <3>2. DOMAIN sockets' = 1 .. m
      BY <3>1, LenProperties
    <3> QED BY <1>1, <3>1, <3>2
  <2> HIDE DEF m
  <2>5. RelayTypes' /\ SentOk'
    BY <1>1, <1>2, <2>2, <2>4 DEF RelayInv, RelayTypes, SentOk, RelayedOnceInOrder
  <2>6. ASSUME NEW s \in DOMAIN sockets' PROVE QueueOk(sockets[s])'
    <3>1. CASE s \in DOMAIN sockets
      BY <1>2, <2>4, <3>1 DEF RelayInv, QueueOk
    <3>2. CASE s = m
      BY <2>3, <2>4, <3>2 DEF QueueOk
    <3> QED BY <2>4, <3>1, <3>2
  <2>7. \A s \in DOMAIN sockets : ~IsLive(sockets[s])
    BY <1>1, <1>5 DEF RelayInv, AdapterOk, NoSocket
  <2>8. AdapterOk'
    BY <2>2, <2>3, <2>4, <2>7 DEF AdapterOk, IsLive, NoSocket
  <2> QED BY <2>5, <2>6, <2>8 DEF RelayInv
<1> QED BY <1>4, <1>5

\* The connection comes up on the adapter's own socket, or fails (onOpen, onSubscribed).
LEMMA OpeningKeeps ==
  ASSUME RelayInv, NEW s \in DOMAIN sockets, onOpen(s) \/ onSubscribed(s)
  PROVE  RelayInv'
<1>1. sockets[s] \in SocketType /\ sockets \in Seq(SocketType) /\ adapter \in AdapterType
  BY RelayTyped DEF RelayInv, RelayTypes
<1>2. /\ sockets[s].queue = <<>> /\ s = adapter.ws /\ UNCHANGED <<chain, adapter, sent>>
  BY DEF RelayInv, QueueOk, AdapterOk, IsLive, onOpen, onSubscribed
<1>3. PICK state \in {"open", "subscribed", "closing"} :
        sockets' = [sockets EXCEPT ![s] = [sockets[s] EXCEPT !.state = state]]
  BY DEF onOpen, onSubscribed
<1> DEFINE x == [sockets[s] EXCEPT !.state = state]
<1>4. x \in SocketType /\ x.queue = <<>> /\ x.state = state
  BY Zenon, <1>1, <1>2 DEF SocketType
<1> HIDE DEF x
<1>5. /\ RelayTypes' /\ SentOk' /\ \A t \in DOMAIN sockets' : QueueOk(sockets[t])'
      /\ DOMAIN sockets' = DOMAIN sockets /\ sockets'[s] = x
      /\ \A t \in DOMAIN sockets \ {s} : sockets'[t] = sockets[t]
  <2>1. adapter' \in AdapterType /\ adapter'.nextEventIndex = adapter.nextEventIndex
    BY <1>1, <1>2
  <2>2. sockets' = [sockets EXCEPT ![s] = x]
    BY <1>3 DEF x
  <2> QED BY Zenon, <1>2, <1>4, <2>1, <2>2, SocketChanges
<1>6. AdapterOk'
  BY <1>2, <1>4, <1>5 DEF RelayInv, AdapterOk, IsLive
<1> QED BY <1>5, <1>6 DEF RelayInv

\* A socket fails or closes: if it is the adapter's own it is forgotten, and a running
\* adapter has its timer set (onError, onClose).
LEMMA ClosingKeeps ==
  ASSUME RelayInv, NEW s \in DOMAIN sockets, onError(s) \/ onClose(s)
  PROVE  RelayInv'
<1>1. adapter \in AdapterType /\ RelayTypes /\ DOMAIN sockets = 1 .. Len(sockets)
  BY RelayTyped DEF RelayInv, RelayTypes
<1>2. /\ adapter' = scheduleReconnect(ForgetSocket(adapter, s))
      /\ UNCHANGED <<chain, sent>>
  BY DEF onError, onClose
<1> DEFINE x(state) == [state |-> state, queue |-> <<>>]
<1>3. PICK state \in {"closing", "closed"} : sockets' = [sockets EXCEPT ![s] = x(state)]
  BY DEF onError, onClose
<1>4. x(state) \in SocketType /\ x(state).queue = <<>> /\ x(state).state = state
  BY EmptySeq DEF SocketType
<1>5. state = "closing" => IsLive(sockets[s])
  <2>1. CASE onError(s)
    BY <2>1 DEF onError, LiveSockets, IsLive
  <2>2. CASE onClose(s)
    <3>1. sockets'[s].state = "closed" /\ sockets'[s].state = state
      BY <1>3, <2>2 DEF onClose
    <3> QED BY <3>1
  <2> QED BY <2>1, <2>2
<1> HIDE DEF x
<1> DEFINE f == ForgetSocket(adapter, s)
<1>6. /\ f \in AdapterType /\ f.ws = IF adapter.ws = s THEN NoSocket ELSE adapter.ws
      /\ f.timer = adapter.timer /\ f.subscriber = adapter.subscriber
      /\ f.nextEventIndex = adapter.nextEventIndex
  BY <1>1 DEF ForgetSocket, AdapterType, NoSocket
<1> HIDE DEF f
<1>7. /\ adapter' \in AdapterType /\ adapter'.ws = f.ws /\ adapter'.subscriber = f.subscriber
      /\ adapter'.nextEventIndex = f.nextEventIndex
      /\ f.subscriber => adapter'.timer
      /\ ~f.subscriber => adapter'.timer = f.timer
  <2>1. CASE f.timer \/ ~f.subscriber
    BY Zenon, <1>2, <1>6, <2>1 DEF scheduleReconnect, f
  <2>2. CASE ~(f.timer \/ ~f.subscriber)
    <3>1. adapter' = [f EXCEPT !.timer = TRUE]
      BY <1>2, <2>2 DEF scheduleReconnect, f
    <3> QED BY Zenon, <1>6, <2>2, <3>1 DEF AdapterType
  <2> QED BY <2>1, <2>2
<1>8. /\ RelayTypes' /\ SentOk' /\ \A t \in DOMAIN sockets' : QueueOk(sockets[t])'
      /\ DOMAIN sockets' = DOMAIN sockets /\ sockets'[s] = x(state)
      /\ \A t \in DOMAIN sockets \ {s} : sockets'[t] = sockets[t]
  <2>1. adapter' \in AdapterType /\ adapter'.nextEventIndex = adapter.nextEventIndex
    BY <1>6, <1>7
  <2> QED BY Zenon, <1>2, <1>3, <1>4, <2>1, SocketChanges
<1>9. ~IsLive(sockets'[s])
  BY <1>4, <1>8 DEF IsLive
<1>10. AdapterOk'
  <2>1. CASE adapter.ws = s
    <3>1. adapter'.ws = NoSocket
      BY <1>6, <1>7, <2>1
    <3>2. adapter.subscriber
      BY <1>1, <2>1 DEF RelayInv, AdapterOk, NoSocket
    <3>3. adapter'.subscriber /\ adapter'.timer
      BY <1>6, <1>7, <3>2
    <3>4. ASSUME NEW t \in DOMAIN sockets PROVE ~IsLive(sockets'[t])
      BY <1>8, <1>9, <2>1 DEF RelayInv, AdapterOk
    <3> QED BY <1>8, <3>1, <3>3, <3>4 DEF AdapterOk, IsLive
  <2>2. CASE adapter.ws # s
    <3>1. adapter'.ws = adapter.ws /\ adapter'.subscriber = adapter.subscriber
      BY <1>6, <1>7, <2>2
    <3>2. adapter.ws # NoSocket => sockets'[adapter.ws] = sockets[adapter.ws]
      BY <1>8, <2>2 DEF RelayInv, AdapterOk
    <3>3. ASSUME NEW t \in DOMAIN sockets, IsLive(sockets'[t]) PROVE t = adapter.ws
      BY <1>8, <1>9, <3>3 DEF RelayInv, AdapterOk
    <3>4. /\ adapter'.subscriber => adapter'.timer
          /\ ~adapter'.subscriber => ~adapter'.timer
      BY <1>6, <1>7 DEF RelayInv, AdapterOk
    <3> QED BY <1>8, <3>1, <3>2, <3>3, <3>4 DEF RelayInv, AdapterOk, IsLive
  <2> QED BY <2>1, <2>2
<1> QED BY <1>8, <1>10 DEF RelayInv

\* The oldest event of the live socket is broadcast with the next index, after all that
\* were; no other socket has one queued (onEvent).
LEMMA EventKeeps == ASSUME RelayInv, NEW s \in DOMAIN sockets, onEvent(s) PROVE RelayInv'
<1>1. /\ RelayTypes /\ sockets \in Seq(SocketType) /\ sockets[s] \in SocketType
      /\ adapter \in AdapterType /\ sent \in Seq(SentType)
      /\ sockets[s].queue \in Seq(Nat) /\ DOMAIN sockets = 1 .. Len(sockets)
      /\ adapter.nextEventIndex \in Nat /\ Len(sent) \in Nat /\ DOMAIN sent = 1 .. Len(sent)
      /\ Len(chain) \in Nat
      /\ \A k \in DOMAIN sent : sent[k].event \in Nat /\ sent[k].index \in Nat
  BY RelayTyped DEF RelayInv, RelayTypes
<1> DEFINE q == sockets[s].queue
           event == Head(q)
           new == [event |-> event, index |-> adapter.nextEventIndex]
           x == [sockets[s] EXCEPT !.queue = Tail(q)]
<1>2. /\ q # <<>> /\ sockets[s].state = "subscribed" /\ s = adapter.ws /\ adapter.subscriber
      /\ UNCHANGED chain
  <2>1. sockets[s].state = "subscribed" /\ q # <<>> /\ UNCHANGED chain
    BY Zenon DEF onEvent
  <2>2. s = adapter.ws
    BY <2>1 DEF RelayInv, AdapterOk, IsLive
  <2>3. adapter.subscriber
    BY <1>1, <2>2 DEF RelayInv, AdapterOk, NoSocket
  <2> QED BY <2>1, <2>2, <2>3
<1>3. /\ sockets' = [sockets EXCEPT ![s] = x] /\ sent' = Append(sent, new)
      /\ adapter' = [adapter EXCEPT !.nextEventIndex = adapter.nextEventIndex + 1]
  BY Zenon, <1>2 DEF onEvent, Numbered
<1>4. /\ event \in Nat /\ event = q[1] /\ Tail(q) \in Seq(Nat)
      /\ Len(q) \in Nat /\ DOMAIN q = 1 .. Len(q) /\ 1 \in DOMAIN q
      /\ DOMAIN Tail(q) = 1 .. Len(q) - 1
      /\ \A i \in 1 .. Len(q) - 1 : Tail(q)[i] = q[i + 1]
      /\ \A i \in DOMAIN q : q[i] \in Nat
  <2> HIDE DEF q
  <2>1. q \in Seq(Nat) /\ q # <<>>
    BY <1>1, <1>2 DEF q
  <2>2. /\ Head(q) \in Nat /\ Tail(q) \in Seq(Nat) /\ Len(Tail(q)) = Len(q) - 1
        /\ \A i \in 1 .. Len(Tail(q)) : Tail(q)[i] = q[i + 1]
    BY <2>1, HeadTailProperties
  <2>3. Len(q) \in Nat \ {0} /\ DOMAIN q = 1 .. Len(q) /\ \A i \in DOMAIN q : q[i] \in Nat
    BY <2>1, EmptySeq, LenProperties
  <2>4. DOMAIN Tail(q) = 1 .. Len(Tail(q))
    BY <2>2, LenProperties
  <2>5. Head(q) = q[1]
    BY <2>1
  <2> QED BY <2>2, <2>3, <2>4, <2>5
<1>5. \A i \in DOMAIN q : /\ q[i] \in 1 .. Len(chain)
                          /\ \A k \in DOMAIN sent : sent[k].event < q[i]
                          /\ \A j \in DOMAIN q : i < j => q[i] < q[j]
  BY DEF RelayInv, QueueOk
<1> DEFINE t == Tail(q)
<1> HIDE DEF q, event
<1>6. new \in SentType /\ new.event = event /\ new.index = adapter.nextEventIndex
  BY <1>1, <1>4 DEF SentType
<1> HIDE DEF new
<1>7. /\ sent' \in Seq(SentType) /\ DOMAIN sent' = DOMAIN sent \cup {Len(sent) + 1}
      /\ \A k \in DOMAIN sent : sent'[k] = sent[k]
      /\ sent'[Len(sent) + 1] = new /\ \A k \in DOMAIN sent : k < Len(sent) + 1
  <2>1. /\ sent' \in Seq(SentType) /\ Len(sent') = Len(sent) + 1
        /\ \A k \in 1 .. Len(sent) : sent'[k] = sent[k]
        /\ sent'[Len(sent) + 1] = new
    BY <1>1, <1>3, <1>6, AppendProperties
  <2>2. DOMAIN sent' = 1 .. Len(sent) + 1
    BY <2>1, LenProperties
  <2> QED BY <1>1, <2>1, <2>2
<1>8. /\ adapter' \in AdapterType /\ adapter'.ws = adapter.ws /\ adapter'.timer = adapter.timer
      /\ adapter'.subscriber = adapter.subscriber
      /\ adapter'.nextEventIndex = adapter.nextEventIndex + 1
  <2> DEFINE next == adapter.nextEventIndex + 1
  <2>1. next \in Nat /\ adapter' = [adapter EXCEPT !.nextEventIndex = next]
    BY <1>1, <1>3
  <2> HIDE DEF next
  <2>2. /\ adapter' \in AdapterType /\ adapter'.ws = adapter.ws /\ adapter'.timer = adapter.timer
        /\ adapter'.subscriber = adapter.subscriber /\ adapter'.nextEventIndex = next
    BY Zenon, <1>1, <2>1 DEF AdapterType
  <2> QED BY <2>2 DEF next
<1>9. x \in SocketType /\ x.queue = t /\ x.state = "subscribed"
  BY Zenon, <1>1, <1>2, <1>4 DEF SocketType
<1> HIDE DEF x
<1>10. /\ sockets' \in Seq(SocketType) /\ DOMAIN sockets' = DOMAIN sockets /\ sockets'[s] = x
       /\ \A u \in DOMAIN sockets \ {s} : sockets'[u] = sockets[u]
  BY <1>1, <1>3, <1>9, ExceptSeq
<1>11. RelayTypes'
  BY <1>1, <1>2, <1>7, <1>8, <1>10 DEF RelayTypes
<1>12. AdapterOk'
  BY <1>2, <1>8, <1>9, <1>10 DEF RelayInv, AdapterOk, IsLive
<1>13. event \in 1 .. Len(chain) /\ event <= Len(chain) /\ \A k \in DOMAIN sent : sent[k].event < event
  BY <1>4, <1>5
<1>14. SentOk'
  <2>1. ASSUME NEW k \in DOMAIN sent'
        PROVE  sent'[k].event <= Len(chain) /\ sent'[k].index < adapter'.nextEventIndex
    <3>1. CASE k \in DOMAIN sent
      BY SMTT(30), <1>1, <1>7, <1>8, <3>1 DEF RelayInv, SentOk
    <3>2. CASE k = Len(sent) + 1
      <4>1. sent'[k].event = event /\ sent'[k].index = adapter.nextEventIndex
        BY <1>6, <1>7, <3>2
      <4>2. adapter.nextEventIndex < adapter.nextEventIndex + 1
        BY <1>1
      <4> QED BY <1>8, <1>13, <4>1, <4>2
    <3> QED BY <1>7, <3>1, <3>2
  <2>2. ASSUME NEW i \in DOMAIN sent', NEW j \in DOMAIN sent', i < j
        PROVE  sent'[i].event < sent'[j].event /\ sent'[i].index < sent'[j].index
    <3>1. i \in DOMAIN sent
      BY <1>1, <1>7, <2>2
    <3>2. CASE j \in DOMAIN sent
      BY <1>7, <2>2, <3>1, <3>2 DEF RelayInv, SentOk, RelayedOnceInOrder
    <3>3. CASE j = Len(sent) + 1
      <4>1. sent[i].event < event /\ sent[i].index < adapter.nextEventIndex
        BY <1>13, <3>1 DEF RelayInv, SentOk
      <4> QED BY <1>6, <1>7, <3>1, <3>3, <4>1
    <3> QED BY <1>7, <3>2, <3>3
  <2> QED BY <1>2, <2>1, <2>2 DEF SentOk, RelayedOnceInOrder
<1>15. ASSUME NEW u \in DOMAIN sockets' PROVE QueueOk(sockets[u])'
  <2>1. CASE u = s
    <3>1. ASSUME NEW i \in DOMAIN t
          PROVE  /\ t[i] \in 1 .. Len(chain)
                 /\ \A k \in DOMAIN sent' : sent'[k].event < t[i]
                 /\ \A j \in DOMAIN t : i < j => t[i] < t[j]
      <4>1. t[i] = q[i + 1] /\ i + 1 \in DOMAIN q /\ 1 < i + 1 /\ q[i + 1] \in Nat
        BY <1>4
      <4>2. event < t[i]
        BY Zenon, <1>4, <1>5, <4>1
      <4>3. ASSUME NEW k \in DOMAIN sent' PROVE sent'[k].event < t[i]
        <5>1. CASE k \in DOMAIN sent
          BY <1>5, <1>7, <4>1, <5>1
        <5>2. CASE k = Len(sent) + 1
          BY <1>6, <1>7, <4>2, <5>2
        <5> QED BY <1>7, <5>1, <5>2
      <4>4. ASSUME NEW j \in DOMAIN t, i < j PROVE t[i] < t[j]
        <5>1. t[j] = q[j + 1] /\ j + 1 \in DOMAIN q /\ i + 1 < j + 1
          BY SMTT(30), <1>4, <4>4
        <5> QED BY <1>5, <4>1, <5>1
      <4> QED BY <1>5, <4>1, <4>3, <4>4
    <3> HIDE DEF t
    <3>2. /\ sockets'[u].queue = t /\ sockets'[u].state = "subscribed" /\ Len(chain') = Len(chain)
      BY <1>2, <1>9, <1>10, <2>1
    <3> QED BY <3>1, <3>2 DEF QueueOk
  <2>2. CASE u # s
    <3>1. sockets'[u] = sockets[u] /\ u \in DOMAIN sockets
      BY <1>10, <2>2
    <3>2. sockets[u].queue = <<>>
      BY <1>2, <2>2, <3>1 DEF RelayInv, AdapterOk, IsLive, QueueOk
    <3>3. sockets'[u].queue = <<>> /\ DOMAIN sockets'[u].queue = {}
      BY <3>1, <3>2
    <3> QED BY <3>3 DEF QueueOk
  <2> QED BY <2>1, <2>2
<1> QED BY <1>11, <1>12, <1>14, <1>15 DEF RelayInv

\* stop() leaves no live socket and no timer.
LEMMA StopKeeps == ASSUME RelayInv, stop PROVE RelayInv'
<1>1. /\ RelayTypes /\ adapter \in AdapterType /\ DOMAIN sockets = 1 .. Len(sockets)
      /\ Len(sockets) \in Nat /\ \A s \in DOMAIN sockets : sockets[s] \in SocketType
  BY RelayTyped DEF RelayInv, RelayTypes
<1> DEFINE x == [state |-> "closing", queue |-> <<>>]
<1>2. x \in SocketType /\ x.queue = <<>> /\ ~IsLive(x)
  BY EmptySeq DEF SocketType, IsLive
<1>3. /\ sockets' = [s \in DOMAIN sockets |-> IF s = adapter.ws THEN x ELSE sockets[s]]
      /\ UNCHANGED <<chain, sent>>
  BY DEF stop
<1> HIDE DEF x
<1>4. /\ adapter' \in AdapterType /\ adapter'.ws = NoSocket /\ ~adapter'.timer /\ ~adapter'.subscriber
      /\ adapter'.nextEventIndex = adapter.nextEventIndex
  BY Zenon, <1>1 DEF stop, AdapterType, NoSocket
<1>5. /\ DOMAIN sockets' = DOMAIN sockets
      /\ \A s \in DOMAIN sockets : sockets'[s] = IF s = adapter.ws THEN x ELSE sockets[s]
  BY <1>3
<1>6. sockets' \in Seq(SocketType)
  <2>1. sockets' \in [1 .. Len(sockets) -> SocketType]
    BY <1>1, <1>2, <1>3
  <2> QED BY <1>1, <2>1
<1>7. RelayTypes' /\ SentOk'
  BY <1>1, <1>3, <1>4, <1>6 DEF RelayInv, RelayTypes, SentOk, RelayedOnceInOrder
<1>8. ASSUME NEW s \in DOMAIN sockets' PROVE QueueOk(sockets[s])' /\ ~IsLive(sockets'[s])
  <2>1. CASE s = adapter.ws
    BY <1>2, <1>5, <2>1 DEF QueueOk
  <2>2. CASE s # adapter.ws
    BY <1>3, <1>5, <2>2 DEF RelayInv, AdapterOk, QueueOk
  <2> QED BY <2>1, <2>2
<1>9. AdapterOk'
  BY <1>4, <1>8 DEF AdapterOk, IsLive
<1> QED BY <1>7, <1>8, <1>9 DEF RelayInv

\* Table reads are not about sockets.
LEMMA RelayStill == ASSUME RelayInv, UNCHANGED <<chain, sockets, adapter, sent>> PROVE RelayInv'
BY DEF RelayInv, RelayTypes, AdapterOk, IsLive, QueueOk, SentOk, RelayedOnceInOrder

\* start() has opened the first socket.
LEMMA RelayInitOk == RelayInit => RelayInv
<1> SUFFICES ASSUME RelayInit PROVE RelayInv OBVIOUS
<1> DEFINE x == [state |-> "connecting", queue |-> <<>>]
<1>1. x \in SocketType /\ x.queue = <<>> /\ x.state = "connecting"
  BY EmptySeq DEF SocketType
<1>2. sockets = <<x>>
  BY DEF RelayInit
<1> HIDE DEF x
<1>3. sockets \in Seq(SocketType) /\ DOMAIN sockets = {1} /\ sockets[1] = x
  BY <1>1, <1>2
<1>4. /\ adapter \in AdapterType /\ adapter.ws = 1 /\ adapter.subscriber
      /\ chain \in Seq(Tables) /\ sent \in Seq(SentType) /\ DOMAIN sent = {}
  BY EmptySeq DEF RelayInit, AdapterType
<1>5. RelayTypes /\ SentOk
  BY <1>3, <1>4 DEF RelayTypes, SentOk, RelayedOnceInOrder
<1>6. AdapterOk
  BY <1>1, <1>3, <1>4 DEF AdapterOk, NoSocket
<1> QED BY <1>1, <1>3, <1>5, <1>6, EmptyQueueOk DEF RelayInv

\* Every step of the chain, the sockets, the reads and stop().
LEMMA RelayNextOk == ASSUME RelayInv, [RelayNext]_relayVars PROVE RelayInv'
<1>1. CASE \E r \in reads : Answer(r) \/ Upsert(r) \/ ReadFails(r)
  BY <1>1, RelayStill DEF Answer, Upsert, ReadFails
<1>2. CASE UNCHANGED relayVars
  BY <1>2, RelayStill DEF relayVars
<1> QED BY <1>1, <1>2, EmitKeeps, EnsureKeeps, OpeningKeeps, ClosingKeeps, EventKeeps, StopKeeps
        DEF RelayNext

\* A table's version is a number, and no fewer events than up to any one of them.
LEMMA VersionCounts ==
  ASSUME RelayTypes, NEW t, NEW n \in 0 .. Len(chain)
  PROVE  /\ Version(t) \in Nat /\ Cardinality({i \in 1 .. n : chain[i] = t}) \in Nat
         /\ Cardinality({i \in 1 .. n : chain[i] = t}) <= Version(t)
<1>1. Len(chain) \in Nat /\ DOMAIN chain = 1 .. Len(chain)
  BY LenProperties DEF RelayTypes
<1> DEFINE S == {i \in DOMAIN chain : chain[i] = t}
           P == {i \in 1 .. n : chain[i] = t}
<1>2. IsFiniteSet(S) /\ P \subseteq S
  <2>1. IsFiniteSet(1 .. Len(chain)) /\ S \subseteq 1 .. Len(chain)
    BY <1>1, IntervalFinite
  <2>2. P \subseteq S
    BY <1>1
  <2> QED BY <2>1, <2>2, FS_Subset
<1>3. Cardinality(S) \in Nat /\ Cardinality(P) \in Nat /\ Cardinality(P) <= Cardinality(S)
  <2> HIDE DEF S, P
  <2> QED BY <1>2, FS_Subset, FS_CardinalityType
<1> QED BY <1>3 DEF Version

\* The sockets have no part in the store.
LEMMA StoreStill == ASSUME StoreOk, UNCHANGED <<chain, reads, store>> PROVE StoreOk'
BY DEF StoreOk, EntryOk, OneRead, Version

\* An event makes its table newer; what was heard of it is what it was.
LEMMA EmitStores ==
  ASSUME RelayInv, StoreOk, NEW table \in Tables, Emit(table) PROVE StoreOk'
<1>1. /\ RelayTypes /\ chain \in Seq(Tables) /\ chain' = Append(chain, table)
      /\ UNCHANGED <<reads, store>>
  BY DEF RelayInv, RelayTypes, Emit
<1>2. /\ Len(chain) \in Nat /\ DOMAIN chain = 1 .. Len(chain) /\ DOMAIN chain' = 1 .. Len(chain) + 1
      /\ \A i \in 1 .. Len(chain) : chain'[i] = chain[i]
  <2>1. /\ chain' \in Seq(Tables) /\ Len(chain') = Len(chain) + 1
        /\ \A i \in 1 .. Len(chain) : chain'[i] = chain[i]
    BY <1>1, AppendProperties
  <2> QED BY <1>1, <2>1, LenProperties
<1>3. ASSUME NEW t \in Tables PROVE EntryOk(t)'
  <2>1. EntryOk(t) /\ store[t] \in EntryType
    BY DEF StoreOk
  <2>2. Version(t) \in Nat /\ Version(t)' \in Nat /\ Version(t) <= Version(t)'
    <3> DEFINE S == {i \in DOMAIN chain : chain[i] = t}
               T == {i \in DOMAIN chain' : chain'[i] = t}
    <3>1. IsFiniteSet(T) /\ S \subseteq T
      <4>1. IsFiniteSet(1 .. Len(chain) + 1) /\ T \subseteq 1 .. Len(chain) + 1
        BY <1>2, IntervalFinite
      <4>2. S \subseteq T
        BY <1>2
      <4> QED BY <4>1, <4>2, FS_Subset
    <3>2. Cardinality(S) \in Nat /\ Cardinality(T) \in Nat /\ Cardinality(S) <= Cardinality(T)
      <4> HIDE DEF S, T
      <4> QED BY <3>1, FS_Subset, FS_CardinalityType
    <3> QED BY <3>2 DEF Version
  <2>3. store[t].heard \in Nat
    BY <2>1 DEF EntryType
  <2>4. store[t].heard <= Version(t)'
    BY <2>1, <2>2, <2>3 DEF EntryOk
  <2>5. ~store[t].overlap =>
          /\ OneRead(t)
          /\ \A r \in reads : r.table = t => r.version = 0 \/ r.version >= store[t].heard
          /\ (~\E r \in reads : r.table = t) => store[t].version >= store[t].heard
    BY <2>1 DEF EntryOk
  <2> QED BY <1>1, <2>4, <2>5 DEF EntryOk, OneRead
<1> QED BY <1>1, <1>3 DEF StoreOk

\* An event that is heard starts a read of its table; "overlap" remembers whether one was
\* under way (onEvent).
LEMMA EventStores ==
  ASSUME RelayInv, StoreOk, NEW s \in DOMAIN sockets, onEvent(s) PROVE StoreOk'
<1>1. CASE ~adapter.subscriber
  BY <1>1, StoreStill DEF onEvent
<1>2. CASE adapter.subscriber
  <2> DEFINE event == Head(sockets[s].queue)
             table == chain[event]
             b == \E r \in reads : r.table = table
             c == Cardinality({i \in 1 .. event : chain[i] = table})
             new == [table |-> table, event |-> event, version |-> 0]
  <2>1. /\ chain' = chain /\ reads' = reads \cup {new}
        /\ store' = [store EXCEPT ![table].overlap = b, ![table].heard = c]
        /\ sockets[s].queue # <<>>
    BY Zenon, <1>2 DEF onEvent
  <2>2. event \in Nat /\ event \in 1 .. Len(chain) /\ table \in Tables
    <3> DEFINE q == sockets[s].queue
    <3>1. q \in Seq(Nat) /\ q # <<>> /\ RelayTypes
      BY Zenon, <2>1, RelayTyped DEF RelayInv
    <3>2. \A i \in DOMAIN q : q[i] \in 1 .. Len(chain)
      BY DEF RelayInv, QueueOk
    <3>3. Head(q) = q[1] /\ 1 \in DOMAIN q
      <4> HIDE DEF q
      <4>1. Len(q) \in Nat \ {0} /\ DOMAIN q = 1 .. Len(q)
        BY <3>1, EmptySeq, LenProperties
      <4> QED BY <3>1, <4>1
    <3>4. event \in 1 .. Len(chain)
      BY <3>2, <3>3
    <3>5. Len(chain) \in Nat /\ \A i \in 1 .. Len(chain) : chain[i] \in Tables
      BY <3>1, LenProperties DEF RelayTypes
    <3> HIDE DEF event
    <3> QED BY <3>4, <3>5
  <2>3. c \in Nat /\ c <= Version(table)
    <3> HIDE DEF event, table
    <3>1. RelayTypes /\ event \in 0 .. Len(chain)
      BY <2>2 DEF RelayInv
    <3> QED BY <3>1, VersionCounts
  <2>4. new \in ReadType /\ new.table = table /\ new.version = 0
    <3> HIDE DEF event, table
    <3> QED BY <2>2 DEF ReadType
  <2>5. b \in BOOLEAN /\ (~b => \A r \in reads : r.table # table)
    BY Zenon
  <2> HIDE DEF event, table, b, c, new
  <2>6. /\ store' \in [Tables -> EntryType]
        /\ store'[table].overlap = b /\ store'[table].heard = c
        /\ \A t \in Tables \ {table} : store'[t] = store[t]
    BY Zenon, <2>1, <2>2, <2>3, <2>5 DEF StoreOk, EntryType
  <2>7. ASSUME NEW t \in Tables PROVE EntryOk(t)'
    <3>1. EntryOk(t) /\ Version(t)' = Version(t)
      BY <2>1 DEF StoreOk, Version
    <3>2. CASE t # table
      <4>1. \A r \in reads' : r.table = t => r \in reads
        BY <2>1, <2>4, <3>2
      <4>2. store'[t] = store[t] /\ reads \subseteq reads'
        BY <2>1, <2>6, <3>2
      <4> QED BY <3>1, <4>1, <4>2 DEF EntryOk, OneRead
    <3>3. CASE t = table
      <4>1. store'[t].heard <= Version(t)'
        BY <2>3, <2>6, <3>1, <3>3
      <4>2. ASSUME ~store'[t].overlap
            PROVE  \A r \in reads' : r.table = t => r = new
        BY <2>1, <2>5, <2>6, <3>3, <4>2
      <4>3. new \in reads' /\ new.table = t /\ new.version = 0
        BY <2>1, <2>4, <3>3
      <4> QED BY <4>1, <4>2, <4>3 DEF EntryOk, OneRead
    <3> QED BY <3>2, <3>3
  <2>8. reads' \subseteq ReadType
    BY <2>1, <2>4 DEF StoreOk
  <2> QED BY <2>6, <2>7, <2>8 DEF StoreOk
<1> QED BY <1>1, <1>2

\* A lone read is answered with the table as it is, and its answer is stored; a failed one
\* counts as overlapping (Answer, Upsert, ReadFails).
LEMMA ReadStores ==
  ASSUME RelayInv, StoreOk, NEW r \in reads, Answer(r) \/ Upsert(r) \/ ReadFails(r)
  PROVE  StoreOk'
<1>1. /\ r \in ReadType /\ r.table \in Tables /\ r.version \in Nat /\ chain' = chain
      /\ store \in [Tables -> EntryType] /\ reads \subseteq ReadType /\ RelayTypes
  BY DEF StoreOk, ReadType, RelayInv, Answer, Upsert, ReadFails
<1>2. ASSUME NEW t \in Tables
      PROVE  /\ EntryOk(t) /\ Version(t)' = Version(t) /\ Version(t) \in Nat
             /\ store[t] \in EntryType /\ store[t].heard \in Nat
  <2>1. EntryOk(t) /\ store[t] \in EntryType /\ Version(t)' = Version(t)
    BY <1>1 DEF StoreOk, Version
  <2>2. Version(t) \in Nat
    <3>1. 0 \in 0 .. Len(chain)
      BY <1>1, LenProperties DEF RelayTypes
    <3> QED BY Zenon, <1>1, <3>1, VersionCounts
  <2> QED BY <2>1, <2>2 DEF EntryType
<1>3. CASE Answer(r)
  <2> DEFINE v == Version(r.table)
             new == [r EXCEPT !.version = v]
  <2>1. reads' = (reads \ {r}) \cup {new} /\ store' = store
    BY <1>3 DEF Answer
  <2>2. v \in Nat
    BY <1>1, <1>2
  <2> HIDE DEF v
  <2>3. new \in ReadType /\ new.table = r.table /\ new.version = v
    BY <1>1, <2>2 DEF ReadType
  <2> HIDE DEF new
  <2>4. ASSUME NEW t \in Tables PROVE EntryOk(t)'
    <3>1. store'[t] = store[t] /\ store'[t].heard <= Version(t)'
      BY <1>2, <2>1 DEF EntryOk
    <3>2. CASE r.table # t
      <4>1. \A q \in reads' : q.table = t => q \in reads
        BY <2>1, <2>3, <3>2
      <4>2. \A q \in reads : q.table = t => q \in reads'
        BY <2>1, <3>2
      <4> QED BY <1>2, <3>1, <4>1, <4>2 DEF EntryOk, OneRead
    <3>3. CASE r.table = t
      <4>1. ASSUME ~store[t].overlap, NEW q \in reads', q.table = t PROVE q = new
        BY <1>2, <2>1, <3>3, <4>1 DEF EntryOk, OneRead
      <4>2. new \in reads' /\ new.table = t /\ new.version >= store[t].heard
        <5>1. new.version = Version(t)
          BY <2>3, <3>3 DEF v
        <5>2. Version(t) >= store[t].heard
          BY <1>2 DEF EntryOk
        <5> QED BY <2>1, <2>3, <3>3, <5>1, <5>2
      <4> QED BY <3>1, <4>1, <4>2 DEF EntryOk, OneRead
    <3> QED BY <3>2, <3>3
  <2> QED BY <1>1, <2>1, <2>3, <2>4 DEF StoreOk
<1>4. CASE Upsert(r)
  <2>1. /\ r.version # 0 /\ reads' = reads \ {r}
        /\ store' = [store EXCEPT ![r.table] = [store[r.table] EXCEPT !.version = r.version]]
    BY <1>4 DEF Upsert, upsertTable
  <2>2. /\ store' \in [Tables -> EntryType] /\ \A t \in Tables \ {r.table} : store'[t] = store[t]
        /\ store'[r.table].version = r.version
        /\ store'[r.table].heard = store[r.table].heard
        /\ store'[r.table].overlap = store[r.table].overlap
    BY <1>1, <2>1 DEF EntryType
  <2>3. ASSUME NEW t \in Tables PROVE EntryOk(t)'
    <3>1. CASE r.table # t
      <4>1. store'[t] = store[t] /\ \A q \in reads : q.table = t => q \in reads'
        BY <2>1, <2>2, <3>1
      <4> QED BY <1>2, <2>1, <4>1 DEF EntryOk, OneRead
    <3>2. CASE r.table = t
      <4>1. store'[t].heard <= Version(t)'
        BY <1>2, <2>2, <3>2 DEF EntryOk
      <4>2. ASSUME ~store[t].overlap
            PROVE  r.version >= store[t].heard /\ \A q \in reads' : q.table # t
        BY <1>2, <2>1, <3>2, <4>2 DEF EntryOk, OneRead
      <4> QED BY <2>2, <3>2, <4>1, <4>2 DEF EntryOk, OneRead
    <3> QED BY <3>1, <3>2
  <2> QED BY <1>1, <2>1, <2>2, <2>3 DEF StoreOk
<1>5. CASE ReadFails(r)
  <2>1. reads' = reads \ {r} /\ store' = [store EXCEPT ![r.table].overlap = TRUE]
    BY <1>5 DEF ReadFails
  <2>2. /\ store' \in [Tables -> EntryType] /\ \A t \in Tables \ {r.table} : store'[t] = store[t]
        /\ store'[r.table].heard = store[r.table].heard /\ store'[r.table].overlap
    BY Zenon, <1>1, <2>1 DEF EntryType
  <2>3. ASSUME NEW t \in Tables PROVE EntryOk(t)'
    <3>1. CASE r.table # t
      <4>1. store'[t] = store[t] /\ \A q \in reads : q.table = t => q \in reads'
        BY <2>1, <2>2, <3>1
      <4> QED BY <1>2, <2>1, <4>1 DEF EntryOk, OneRead
    <3>2. CASE r.table = t
      BY <1>2, <2>2, <3>2 DEF EntryOk
    <3> QED BY <3>1, <3>2
  <2> QED BY <1>1, <2>1, <2>2, <2>3 DEF StoreOk
<1> QED BY <1>3, <1>4, <1>5

\* The store holds the snapshot, and nothing has been heard.
LEMMA StoreInitOk == RelayInit => StoreOk
<1> SUFFICES ASSUME RelayInit PROVE StoreOk OBVIOUS
<1>1. /\ reads = {} /\ store \in [Tables -> EntryType]
      /\ \A t \in Tables : store[t].heard = 0 /\ store[t].version = 0
  BY DEF RelayInit, EntryType
<1>2. ASSUME NEW t \in Tables PROVE Version(t) \in Nat
  <2>1. DOMAIN chain = {}
    BY DEF RelayInit
  <2>2. {i \in DOMAIN chain : chain[i] = t} = {}
    BY <2>1
  <2> QED BY <2>2, FS_EmptySet DEF Version
<1> QED BY <1>1, <1>2 DEF StoreOk, EntryOk, OneRead

\* Every step, for the store.
LEMMA StoreNextOk == ASSUME RelayInv, StoreOk, [RelayNext]_relayVars PROVE StoreOk'
<1>1. CASE ensureWs \/ stop \/ UNCHANGED relayVars
  BY <1>1, StoreStill DEF ensureWs, stop, relayVars
<1>2. ASSUME NEW s \in DOMAIN sockets, onOpen(s) \/ onSubscribed(s) \/ onError(s) \/ onClose(s)
      PROVE  StoreOk'
  BY <1>2, StoreStill DEF onOpen, onSubscribed, onError, onClose
<1> QED BY <1>1, <1>2, EmitStores, EventStores, ReadStores DEF RelayNext

\* For any number of sockets and events, however sockets open, fail and close late around
\* start() and stop(): one socket is live at a time and it is the adapter's, a lost one
\* is retried, after stop() nothing is left to fire, no event is broadcast twice or out
\* of order (CosmosChainAdapter), and a read that meets no other brings the store up to
\* the event that caused it (server.ts).
THEOREM RelayAlwaysSound == RelaySpec => []RelayIsSound
<1>1. ASSUME RelayInv, StoreOk PROVE RelayIsSound
  <2>1. DOMAIN sockets = 1 .. Len(sockets) /\ \A s \in DOMAIN sockets : sockets[s] \in SocketType
    BY <1>1, RelayTyped DEF RelayInv
  <2>2. \A s \in LiveSockets : s = adapter.ws /\ s # NoSocket
    BY <1>1, <2>1 DEF RelayInv, AdapterOk, LiveSockets, IsLive, NoSocket
  <2>3. OneLiveSocket
    BY <2>2 DEF OneLiveSocket
  <2>4. ReconnectArmed
    <3> SUFFICES ASSUME adapter.subscriber, LiveSockets = {}, ~adapter.timer
                 PROVE  adapter.ws # NoSocket /\ sockets[adapter.ws].state = "closing"
      BY DEF ReconnectArmed
    <3>1. /\ adapter.ws # NoSocket /\ adapter.ws \in DOMAIN sockets
          /\ sockets[adapter.ws].state # "closed"
      BY <1>1 DEF RelayInv, AdapterOk
    <3>2. adapter.ws \notin LiveSockets /\ sockets[adapter.ws] \in SocketType
      BY <2>1, <3>1
    <3> QED BY <3>1, <3>2 DEF LiveSockets, SocketType
  <2>5. StoppedForGood
    BY <1>1, <2>2 DEF StoppedForGood, RelayInv, AdapterOk
  <2>6. StoreFreshAfterLoneRead
    BY <1>1 DEF StoreFreshAfterLoneRead, StoreOk, EntryOk
  <2> QED BY <1>1, <2>3, <2>4, <2>5, <2>6 DEF RelayIsSound, RelayInv, SentOk
<1> QED BY <1>1, RelayInitOk, StoreInitOk, RelayNextOk, StoreNextOk, PTL DEF RelaySpec

-----------------------------------------------------------------------------
(* The page's reads of the selected table. *)

EventType == [table : Tables, content : Contents]
LoadType == [table : Tables, version : Nat]
ViewType ==
    [selected : Tables \cup {NoTable}, ref : Tables \cup {NoTable}, effects : BOOLEAN,
     lone : BOOLEAN, wallet : {"idle", "error", "connecting", "connected"}, client : BOOLEAN,
     connectFor : Tables \cup {NoTable},
     player : [table : Tables \cup {NoTable}, version : Nat]]

FeedTypes ==
    /\ log \in Seq(EventType) /\ dedup \in Seq(EventType)
    /\ feeds \in [Feeds -> [up : BOOLEAN, next : Nat \ {0}]]
    /\ view \in ViewType /\ DOMAIN loads \subseteq LoadType
    /\ heard \in [Tables -> Nat]

\* No earlier event says what this one says.
SaidFirst(k) == \A i \in 1 .. k - 1 : log[i] # log[k]

\* A read at this version shows all that was heard of the table, and every event that
\* the dedup map will keep from causing another read.
Fresh(table, version) ==
    /\ heard[table] <= version
    /\ \A k \in DOMAIN log :
         (log[k].table = table /\ Known(log[k]) /\ SaidFirst(k)) => VersionAt(table, k) <= version

Watching == view.wallet = "connected" /\ view.selected # NoTable /\ ~view.effects /\ view.lone

\* The last read is back, or it is the only one under way.
SeesOk ==
    Watching =>
      \/ /\ loads = EmptyBag /\ view.player.table = view.selected
         /\ Fresh(view.selected, view.player.version)
      \/ \E l \in DOMAIN loads : /\ loads = SetToBag({l}) /\ l.table = view.selected
                                 /\ Fresh(view.selected, l.version)

ViewOk ==
    /\ ~view.effects => view.ref = view.selected
    /\ view.wallet = "connected" => view.client

HeardOk == \A t \in Tables : heard[t] <= VersionAt(t, Len(log))

DedupOk == \A i \in DOMAIN dedup : \E k \in DOMAIN log : log[k] = dedup[i]

FeedInv == FeedTypes /\ ViewOk /\ HeardOk /\ DedupOk /\ SeesOk

\* Bags of one element: one read is added to none, and taken away again.
LEMMA OneInBag ==
  ASSUME NEW l
  PROVE  /\ EmptyBag (+) SetToBag({l}) = SetToBag({l})
         /\ SetToBag({l}) (-) SetToBag({l}) = EmptyBag
         /\ BagToSet(SetToBag({l})) = {l} /\ DOMAIN SetToBag({l}) = {l}
         /\ BagToSet(EmptyBag) = {}
<1>1. DOMAIN EmptyBag = {} /\ DOMAIN SetToBag({l}) = {l} /\ SetToBag({l})[l] = 1
  BY DEF EmptyBag, SetToBag
<1>2. EmptyBag (+) SetToBag({l}) = SetToBag({l})
  <2>1. EmptyBag (+) SetToBag({l}) = [e \in {l} |-> 0 + 1]
    BY Zenon, <1>1 DEF (+)
  <2> QED BY <2>1 DEF SetToBag
<1>3. SetToBag({l}) (-) SetToBag({l}) = EmptyBag
  <2> DEFINE one == SetToBag({l})
             B == [e \in DOMAIN one |-> IF e \in DOMAIN one THEN one[e] - one[e] ELSE one[e]]
  <2>1. one (-) one = [e \in {d \in DOMAIN B : B[d] > 0} |-> B[e]]
    BY DEF (-)
  <2>2. {d \in DOMAIN B : B[d] > 0} = {}
    BY <1>1
  <2> HIDE DEF B
  <2> QED BY <2>1, <2>2 DEF EmptyBag, SetToBag
<1> QED BY <1>1, <1>2, <1>3 DEF BagToSet

\* What a read adds to and takes from those under way.
LEMMA BagDomains ==
  ASSUME NEW B, NEW l
  PROVE  /\ DOMAIN (B (+) SetToBag({l})) = DOMAIN B \cup {l}
         /\ DOMAIN (B (-) SetToBag({l})) \subseteq DOMAIN B
<1>1. DOMAIN (B (+) SetToBag({l})) = DOMAIN B \cup {l}
  BY DEF (+), SetToBag
<1>2. DOMAIN (B (-) SetToBag({l})) \subseteq DOMAIN B
  BY DEF (-)
<1> QED BY <1>1, <1>2

\* A table's version is a number that only grows with the events counted.
LEMMA VersionGrows ==
  ASSUME NEW t, NEW m \in Nat, NEW n \in Nat, m <= n
  PROVE  VersionAt(t, m) \in Nat /\ VersionAt(t, n) \in Nat /\ VersionAt(t, m) <= VersionAt(t, n)
<1> DEFINE S(k) == {i \in 1 .. k : log[i].table = t}
<1>1. \A k \in Nat : IsFiniteSet(S(k))
  <2>1. \A k \in Nat : IsFiniteSet(1 .. k) /\ S(k) \subseteq 1 .. k
    BY IntervalFinite
  <2> QED BY <2>1, FS_Subset
<1>2. S(m) \subseteq S(n)
  OBVIOUS
<1>3. /\ Cardinality(S(m)) \in Nat /\ Cardinality(S(n)) \in Nat
      /\ Cardinality(S(m)) <= Cardinality(S(n))
  <2> HIDE DEF S
  <2> QED BY <1>1, <1>2, FS_CardinalityType, FS_Subset
<1> QED BY <1>3 DEF VersionAt

\* A read started now shows everything.
LEMMA NewReadFresh ==
  ASSUME FeedTypes', HeardOk', NEW t \in Tables, view'.selected = t,
         NEW l, l.version = VersionAt(t, Len(log))'
  PROVE  Fresh(view.selected, l.version)'
<1>1. DOMAIN log' = 1 .. Len(log') /\ Len(log') \in Nat
  BY LenProperties DEF FeedTypes
<1>2. ASSUME NEW k \in DOMAIN log' PROVE VersionAt(t, k)' <= VersionAt(t, Len(log))'
  <2>1. k \in Nat /\ k <= Len(log')
    BY <1>1
  <2> DEFINE S(j) == {i \in 1 .. j : log'[i].table = t}
  <2>2. IsFiniteSet(S(Len(log'))) /\ S(k) \subseteq S(Len(log'))
    <3>1. IsFiniteSet(1 .. Len(log')) /\ S(Len(log')) \subseteq 1 .. Len(log')
      BY <1>1, IntervalFinite
    <3>2. S(k) \subseteq S(Len(log'))
      BY <1>1, <2>1
    <3> QED BY <3>1, <3>2, FS_Subset
  <2>3. Cardinality(S(k)) <= Cardinality(S(Len(log')))
    <3> HIDE DEF S
    <3> QED BY <2>2, FS_Subset
  <2> QED BY <2>3 DEF VersionAt
<1>3. heard'[t] <= l.version /\ \A k \in DOMAIN log' : VersionAt(t, k)' <= l.version
  BY <1>2 DEF HeardOk
<1> QED BY <1>3 DEF Fresh, VersionAt

\* What is not heard or said anew leaves a read as fresh as it was.
LEMMA FreshStays ==
  ASSUME UNCHANGED <<log, dedup, heard>>, view'.selected = view.selected,
         NEW l, Fresh(view.selected, l.version)
  PROVE  Fresh(view.selected, l.version)'
BY DEF Fresh, Known, SaidFirst, VersionAt

\* What loadPlayerTable does to the view and to the reads under way.
LEMMA LoadStarts ==
  ASSUME FeedTypes, NEW v \in ViewType, NEW t \in Tables, loadPlayerTable(v, t)
  PROVE  /\ view' \in ViewType /\ DOMAIN loads' \subseteq LoadType
         /\ view'.selected = v.selected /\ view'.ref = v.ref /\ view'.effects = v.effects
         /\ view'.wallet = v.wallet /\ view'.client = v.client
         /\ view'.lone => \E l \in DOMAIN loads' :
                            /\ loads' = SetToBag({l}) /\ l.table = t
                            /\ l.version = VersionAt(t, Len(log))
<1> DEFINE l == [table |-> t, version |-> VersionAt(t, Len(log))]
<1>1. Len(log) \in Nat
  BY LenProperties DEF FeedTypes
<1>2. VersionAt(t, Len(log)) \in Nat
  BY <1>1, VersionGrows
<1>3. l \in LoadType /\ l.table = t /\ l.version = VersionAt(t, Len(log))
  BY <1>2 DEF LoadType
<1>4. loads' = loads (+) SetToBag({l})
  BY DEF loadPlayerTable
<1>5. view' = [v EXCEPT !.lone = (loads = EmptyBag)]
  BY DEF loadPlayerTable
<1> HIDE DEF l
<1>6. DOMAIN loads' \subseteq LoadType
  <2>1. DOMAIN (loads (+) SetToBag({l})) = DOMAIN loads \cup {l}
    BY Zenon, BagDomains
  <2> QED BY <1>3, <1>4, <2>1 DEF FeedTypes
<1>7. /\ view' \in ViewType /\ view'.selected = v.selected /\ view'.ref = v.ref
      /\ view'.effects = v.effects /\ view'.wallet = v.wallet /\ view'.client = v.client
      /\ view'.lone = (loads = EmptyBag)
  <2> DEFINE b == (loads = EmptyBag)
  <2>1. b \in BOOLEAN /\ view' = [v EXCEPT !.lone = b]
    BY <1>5
  <2> HIDE DEF b
  <2>2. /\ view' \in ViewType /\ view'.selected = v.selected /\ view'.ref = v.ref
        /\ view'.effects = v.effects /\ view'.wallet = v.wallet /\ view'.client = v.client
        /\ view'.lone = b
    BY <2>1 DEF ViewType
  <2> QED BY <2>2 DEF b
<1>8. ASSUME view'.lone PROVE loads' = SetToBag({l}) /\ l \in DOMAIN loads'
  <2>1. EmptyBag (+) SetToBag({l}) = SetToBag({l}) /\ DOMAIN SetToBag({l}) = {l}
    BY Zenon, OneInBag
  <2>2. loads = EmptyBag
    BY Zenon, <1>7, <1>8
  <2> QED BY <1>4, <2>1, <2>2
<1> QED BY Zenon, <1>3, <1>6, <1>7, <1>8

\* The view changes and the reads are not to be compared with it, or read after it.
LEMMA ViewChanges ==
  ASSUME FeedInv, UNCHANGED <<log, dedup, heard>>, view' \in ViewType,
         feeds' \in [Feeds -> [up : BOOLEAN, next : Nat \ {0}]],
         DOMAIN loads' \subseteq LoadType, ViewOk', SeesOk'
  PROVE  FeedInv'
<1>1. FeedTypes'
  BY DEF FeedInv, FeedTypes
<1>2. HeardOk' /\ DedupOk'
  BY DEF FeedInv, HeardOk, DedupOk, VersionAt
<1> QED BY <1>1, <1>2 DEF FeedInv

\* An event is emitted: it is the first to say what it says, or not in the dedup map
\* for itself (Publish).
LEMMA PublishKeeps ==
  ASSUME FeedInv, NEW table \in Tables, NEW content \in Contents, Publish(table, content)
  PROVE  FeedInv'
<1> DEFINE e == [table |-> table, content |-> content]
<1>1. e \in EventType /\ log' = Append(log, e) /\ UNCHANGED <<feeds, dedup, view, loads, heard>>
  BY DEF Publish, EventType
<1> HIDE DEF e
<1>2. PICK n \in Nat : n = Len(log)
  BY LenProperties DEF FeedInv, FeedTypes
<1>3. /\ log' \in Seq(EventType) /\ Len(log') = n + 1 /\ DOMAIN log = 1 .. n
      /\ DOMAIN log' = 1 .. n + 1 /\ \A i \in 1 .. n : log'[i] = log[i]
      /\ log'[n + 1] = e
  <2>1. /\ log' \in Seq(EventType) /\ Len(log') = n + 1
        /\ \A i \in 1 .. n : log'[i] = log[i] /\ log'[n + 1] = e
    BY <1>1, <1>2, AppendProperties DEF FeedInv, FeedTypes
  <2>2. DOMAIN log = 1 .. n /\ DOMAIN log' = 1 .. n + 1 /\ log'[n + 1] = e
    BY <1>1, <1>2, <2>1, LenProperties, AppendProperties DEF FeedInv, FeedTypes
  <2> QED BY <2>1, <2>2
<1>4. ASSUME NEW t, NEW k \in 0 .. n PROVE VersionAt(t, k)' = VersionAt(t, k)
  <2>1. {i \in 1 .. k : log'[i].table = t} = {i \in 1 .. k : log[i].table = t}
    BY <1>3
  <2> QED BY Zenon, <2>1 DEF VersionAt
<1>5. FeedTypes' /\ ViewOk'
  BY <1>1, <1>3 DEF FeedInv, FeedTypes, ViewOk
<1>6. DedupOk'
  BY <1>1, <1>3 DEF FeedInv, DedupOk
<1>7. HeardOk'
  <2> SUFFICES ASSUME NEW t \in Tables PROVE heard[t] <= VersionAt(t, n + 1)'
    BY <1>1, <1>3 DEF HeardOk
  <2>1. heard[t] <= VersionAt(t, n)' /\ heard[t] \in Nat
    BY <1>2, <1>4 DEF FeedInv, HeardOk, FeedTypes
  <2>2. VersionAt(t, n)' \in Nat /\ VersionAt(t, n + 1)' \in Nat
        /\ VersionAt(t, n)' <= VersionAt(t, n + 1)'
    <3> DEFINE S(j) == {i \in 1 .. j : log'[i].table = t}
    <3>1. IsFiniteSet(S(n + 1)) /\ S(n) \subseteq S(n + 1)
      <4>1. IsFiniteSet(1 .. n + 1) /\ S(n + 1) \subseteq 1 .. n + 1
        BY IntervalFinite
      <4> QED BY <4>1, FS_Subset
    <3>2. /\ Cardinality(S(n)) \in Nat /\ Cardinality(S(n + 1)) \in Nat
          /\ Cardinality(S(n)) <= Cardinality(S(n + 1))
      <4> HIDE DEF S
      <4> QED BY <3>1, FS_Subset, FS_CardinalityType
    <3> QED BY <3>2 DEF VersionAt
  <2> QED BY <2>1, <2>2
<1>8. ASSUME NEW t, NEW version, Fresh(t, version) PROVE Fresh(t, version)'
  <2>1. heard'[t] <= version
    BY <1>1, <1>8 DEF Fresh
  <2>2. ASSUME NEW k \in DOMAIN log', log'[k].table = t, Known(log[k])', SaidFirst(k)'
        PROVE  VersionAt(t, k)' <= version
    <3>1. PICK j \in 1 .. n : log[j] = log'[k]
      BY <1>1, <1>3, <2>2 DEF FeedInv, DedupOk, Known
    <3>2. k \in 1 .. n
      BY <1>3, <2>2, <3>1 DEF SaidFirst
    <3>3. log'[k] = log[k] /\ k \in DOMAIN log /\ Known(log[k]) /\ SaidFirst(k)
      BY <1>1, <1>3, <2>2, <3>2 DEF SaidFirst, Known
    <3> QED BY <1>4, <1>8, <2>2, <3>2, <3>3 DEF Fresh
  <2> QED BY <2>1, <2>2 DEF Fresh
<1>9. SeesOk'
  <2>1. SeesOk /\ UNCHANGED <<view, loads>>
    BY <1>1 DEF FeedInv
  <2> SUFFICES ASSUME Watching'
               PROVE  \/ /\ loads' = EmptyBag /\ view'.player.table = view'.selected
                         /\ Fresh(view.selected, view.player.version)'
                      \/ \E l \in DOMAIN loads' : /\ loads' = SetToBag({l})
                                                  /\ l.table = view'.selected
                                                  /\ Fresh(view.selected, l.version)'
    BY Zenon DEF SeesOk
  <2>2. Watching
    BY <2>1 DEF Watching
  <2>3. CASE /\ loads = EmptyBag /\ view.player.table = view.selected
             /\ Fresh(view.selected, view.player.version)
    <3>1. Fresh(view.selected, view.player.version)'
      BY <1>8, <2>1, <2>3 DEF Fresh, Known, SaidFirst, VersionAt
    <3> QED BY Zenon, <2>1, <2>3, <3>1
  <2>4. CASE \E l \in DOMAIN loads : /\ loads = SetToBag({l}) /\ l.table = view.selected
                                     /\ Fresh(view.selected, l.version)
    <3>1. PICK l \in DOMAIN loads : /\ loads = SetToBag({l}) /\ l.table = view.selected
                                    /\ Fresh(view.selected, l.version)
      BY Zenon, <2>4
    <3>2. Fresh(view.selected, l.version)'
      BY <1>8, <2>1, <3>1 DEF Fresh, Known, SaidFirst, VersionAt
    <3> QED BY Zenon, <2>1, <3>1, <3>2
  <2> QED BY Zenon, <2>1, <2>2, <2>3, <2>4 DEF SeesOk
<1> QED BY <1>5, <1>6, <1>7, <1>9 DEF FeedInv

\* pruneDedup keeps some of the entries.
LEMMA PruneKeeps ==
  ASSUME NEW s \in Seq(EventType)
  PROVE  /\ pruneDedup(s) \in Seq(EventType)
         /\ \A i \in DOMAIN pruneDedup(s) : \E j \in DOMAIN s : pruneDedup(s)[i] = s[j]
<1>1. CASE ~(Len(s) > DEDUP_MAX)
  BY <1>1 DEF pruneDedup
<1>2. CASE Len(s) > DEDUP_MAX
  <2> DEFINE m == Len(s) - DEDUP_MAX + 1
             c == SubSeq(s, m, Len(s))
  <2>1. Len(s) \in Nat /\ DOMAIN s = 1 .. Len(s)
    BY LenProperties
  <2>2. m \in 1 .. Len(s) + 1 /\ Len(s) \in m - 1 .. Len(s)
    BY <1>2, <2>1, FeedParams
  <2>3. c \in Seq(EventType) /\ Len(c) = Len(s) - m + 1 /\ \A i \in 1 .. Len(s) - m + 1 : c[i] = s[m + i - 1]
    <3> HIDE DEF m
    <3> QED BY <2>1, <2>2, SubSeqProperties
  <2>4. DOMAIN c = 1 .. Len(s) - m + 1
    <3> HIDE DEF c
    <3> QED BY <2>3, LenProperties
  <2>5. \A i \in 1 .. Len(s) - m + 1 : m + i - 1 \in 1 .. Len(s)
    BY <2>1, <2>2
  <2>6. pruneDedup(s) = c
    BY Zenon, <1>2 DEF pruneDedup
  <2> HIDE DEF c, m
  <2> QED BY <2>1, <2>3, <2>4, <2>5, <2>6
<1> QED BY <1>1, <1>2

\* The highest version heard is that of an event of the chain, at most as late as the
\* last (Hear).
LEMMA HearGrows ==
  ASSUME FeedTypes, HeardOk, NEW feed \in Feeds, NEW n \in 1 .. Len(log), Hear(feed, n),
         log' = log
  PROVE  /\ heard' \in [Tables -> Nat] /\ HeardOk'
         /\ feeds' \in [Feeds -> [up : BOOLEAN, next : Nat \ {0}]]
         /\ \A t \in Tables : heard'[t] # heard[t] =>
              t = log[n].table /\ SaidFirst(n) /\ heard'[t] = VersionAt(t, n)
<1>1. Len(log) \in Nat /\ DOMAIN log = 1 .. Len(log) /\ log[n].table \in Tables
  <2>1. Len(log) \in Nat /\ DOMAIN log = 1 .. Len(log) /\ log[n] \in EventType
    BY LenProperties DEF FeedTypes
  <2> QED BY <2>1 DEF EventType
<1> DEFINE t0 == log[n].table
           v0 == VersionAt(t0, n)
<1>2. v0 \in Nat /\ VersionAt(t0, Len(log)) \in Nat /\ v0 <= VersionAt(t0, Len(log))
  BY <1>1, VersionGrows
<1>3. feeds' \in [Feeds -> [up : BOOLEAN, next : Nat \ {0}]]
  <2>1. n + 1 \in Nat \ {0}
    BY <1>1
  <2> QED BY Zenon, <2>1 DEF Hear, FeedTypes
<1>4. heard' = IF ~SaidFirst(n) THEN heard
               ELSE [heard EXCEPT ![t0] = IF v0 > heard[t0] THEN v0 ELSE heard[t0]]
  BY DEF Hear, SaidFirst
<1> HIDE DEF v0
<1>5. /\ heard' \in [Tables -> Nat]
      /\ \A t \in Tables : heard'[t] # heard[t] => t = t0 /\ SaidFirst(n) /\ heard'[t] = v0
  BY <1>1, <1>2, <1>4 DEF FeedTypes
<1>6. ASSUME NEW t \in Tables PROVE heard'[t] <= VersionAt(t, Len(log))
  BY <1>2, <1>5 DEF HeardOk
<1>7. HeardOk'
  BY <1>6 DEF HeardOk, VersionAt
<1> QED BY <1>3, <1>5, <1>7 DEF v0

\* An event comes on a feed: the read it causes shows it, or the entry that keeps it
\* from causing one does (recordCoordinatorEvent, handleCometEvent).
LEMMA HearingKeeps ==
  ASSUME FeedInv, NEW feed \in Feeds, NEW n \in 1 .. Len(log), Hear(feed, n),
         FirstHearing(log[n]), log' = log
  PROVE  FeedInv'
<1> DEFINE e == log[n]
<1>1. /\ FeedTypes /\ ViewOk /\ HeardOk /\ DedupOk /\ SeesOk
      /\ Len(log) \in Nat /\ DOMAIN log = 1 .. Len(log) /\ e \in EventType /\ e.table \in Tables
  <2>1. FeedTypes /\ ViewOk /\ HeardOk /\ DedupOk /\ SeesOk
    BY DEF FeedInv
  <2>2. Len(log) \in Nat /\ DOMAIN log = 1 .. Len(log) /\ e \in EventType
    BY <2>1, LenProperties DEF FeedTypes
  <2> QED BY <2>1, <2>2 DEF EventType
<1>2. /\ heard' \in [Tables -> Nat] /\ HeardOk'
      /\ feeds' \in [Feeds -> [up : BOOLEAN, next : Nat \ {0}]]
      /\ \A t \in Tables : heard'[t] # heard[t] =>
           t = e.table /\ SaidFirst(n) /\ heard'[t] = VersionAt(t, n)
  BY <1>1, HearGrows
<1>3. CASE Known(e)
  <2>1. UNCHANGED <<dedup, view, loads>>
    BY <1>3 DEF FirstHearing
  <2>2. ASSUME NEW t \in Tables, NEW version, Fresh(t, version) PROVE Fresh(t, version)'
    <3>1. heard'[t] <= version
      <4>1. CASE heard'[t] = heard[t]
        BY <2>2, <4>1 DEF Fresh
      <4>2. CASE heard'[t] # heard[t]
        <5>1. t = e.table /\ SaidFirst(n) /\ heard'[t] = VersionAt(t, n)
          BY Zenon, <1>2, <4>2
        <5> QED BY Zenon, <1>1, <1>3, <2>2, <5>1 DEF Fresh
      <4> QED BY <4>1, <4>2
    <3>2. \A k \in DOMAIN log' : (log'[k].table = t /\ Known(log[k])' /\ SaidFirst(k)')
                                   => VersionAt(t, k)' <= version
      BY <2>1, <2>2 DEF Fresh, Known, SaidFirst, VersionAt
    <3> QED BY <3>1, <3>2 DEF Fresh
  <2>3. SeesOk'
    <3> SUFFICES ASSUME Watching'
                 PROVE  \/ /\ loads' = EmptyBag /\ view'.player.table = view'.selected
                           /\ Fresh(view.selected, view.player.version)'
                        \/ \E l \in DOMAIN loads' : /\ loads' = SetToBag({l})
                                                    /\ l.table = view'.selected
                                                    /\ Fresh(view.selected, l.version)'
      BY Zenon DEF SeesOk
    <3>1. Watching /\ view.selected \in Tables
      BY <1>1, <2>1 DEF Watching, FeedTypes, ViewType
    <3>2. ASSUME NEW version, Fresh(view.selected, version) PROVE Fresh(view.selected, version)'
      <4>1. PICK t \in Tables : t = view.selected
        BY <3>1
      <4>2. Fresh(t, version)'
        BY <2>2, <3>2, <4>1
      <4>3. t = view'.selected
        BY <2>1, <4>1
      <4> QED BY Zenon, <4>2, <4>3 DEF Fresh, VersionAt, SaidFirst, Known
    <3>3. CASE /\ loads = EmptyBag /\ view.player.table = view.selected
               /\ Fresh(view.selected, view.player.version)
      <4>1. PICK version : version = view.player.version
        OBVIOUS
      <4>2. Fresh(view.selected, version)' /\ version = view'.player.version
        BY <2>1, <3>2, <3>3, <4>1
      <4> QED BY Zenon, <2>1, <3>3, <4>2
    <3>4. CASE \E l \in DOMAIN loads : /\ loads = SetToBag({l}) /\ l.table = view.selected
                                       /\ Fresh(view.selected, l.version)
      BY Zenon, <2>1, <3>2, <3>4
    <3> QED BY Zenon, <1>1, <3>1, <3>3, <3>4 DEF SeesOk
  <2>4. FeedTypes' /\ ViewOk' /\ DedupOk'
    BY Zenon, <1>1, <1>2, <2>1 DEF FeedTypes, ViewOk, DedupOk
  <2> QED BY <1>2, <2>3, <2>4 DEF FeedInv
<1>4. CASE ~Known(e)
  <2>1. dedup' = pruneDedup(Append(dedup, e)) /\ Refresh(e)
    BY <1>4 DEF FirstHearing
  <2>2. /\ dedup' \in Seq(EventType)
        /\ \A i \in DOMAIN dedup' : dedup'[i] = e \/ \E j \in DOMAIN dedup : dedup'[i] = dedup[j]
    <3> DEFINE s == Append(dedup, e)
    <3>1. /\ s \in Seq(EventType) /\ DOMAIN dedup = 1 .. Len(dedup) /\ Len(dedup) \in Nat
          /\ DOMAIN s = 1 .. Len(dedup) + 1
          /\ \A i \in 1 .. Len(dedup) : s[i] = dedup[i]
          /\ s[Len(dedup) + 1] = e
      <4> HIDE DEF e
      <4>1. dedup \in Seq(EventType)
        BY <1>1 DEF FeedTypes
      <4>2. s \in Seq(EventType) /\ Len(s) = Len(dedup) + 1
        BY <1>1, <4>1, AppendProperties
      <4> QED BY <1>1, <4>1, <4>2, AppendProperties, LenProperties
    <3> HIDE DEF s
    <3>2. dedup' = pruneDedup(s)
      BY <2>1 DEF s
    <3>3. /\ dedup' \in Seq(EventType)
          /\ \A i \in DOMAIN dedup' : \E j \in DOMAIN s : dedup'[i] = s[j]
      BY Zenon, <3>1, <3>2, PruneKeeps
    <3>4. \A j \in DOMAIN s : s[j] = e \/ \E i \in DOMAIN dedup : s[j] = dedup[i]
      <4> HIDE DEF e
      <4> QED BY <3>1
    <3> QED BY <3>3, <3>4
  <2>3. DedupOk'
    BY <1>1, <2>2 DEF DedupOk
  <2>4. CASE e.table = view.ref /\ view.client
    <3>1. loadPlayerTable(view, e.table)
      BY <2>1, <2>4 DEF Refresh
    <3>2. /\ view' \in ViewType /\ DOMAIN loads' \subseteq LoadType
          /\ view'.selected = view.selected /\ view'.ref = view.ref /\ view'.effects = view.effects
          /\ view'.wallet = view.wallet /\ view'.client = view.client
          /\ view'.lone => \E l \in DOMAIN loads' :
                             /\ loads' = SetToBag({l}) /\ l.table = e.table
                             /\ l.version = VersionAt(e.table, Len(log))
      <4>1. view \in ViewType
        BY <1>1 DEF FeedTypes
      <4> HIDE DEF e
      <4> QED BY Zenon, <1>1, <3>1, <4>1, LoadStarts
    <3>3. FeedTypes' /\ ViewOk'
      BY Zenon, <1>1, <1>2, <2>2, <3>2 DEF FeedTypes, ViewOk
    <3>4. SeesOk'
      <4> SUFFICES ASSUME Watching'
                   PROVE  \E l \in DOMAIN loads' : /\ loads' = SetToBag({l})
                                                   /\ l.table = view'.selected
                                                   /\ Fresh(view.selected, l.version)'
        BY Zenon DEF SeesOk
      <4>1. view'.lone /\ view'.selected = e.table
        BY Zenon, <1>1, <2>4, <3>2 DEF Watching, ViewOk
      <4>2. PICK l \in DOMAIN loads' : /\ loads' = SetToBag({l}) /\ l.table = e.table
                                       /\ l.version = VersionAt(e.table, Len(log))
        BY Zenon, <3>2, <4>1
      <4>3. PICK t \in Tables : t = e.table
        BY <1>1
      <4>5. VersionAt(t, Len(log))' = l.version
        BY Zenon, <4>2, <4>3 DEF VersionAt
      <4>6. Fresh(view.selected, l.version)'
        BY Zenon, <1>2, <3>3, <4>1, <4>3, <4>5, NewReadFresh
      <4> QED BY Zenon, <4>1, <4>2, <4>6
    <3> QED BY <1>2, <2>3, <3>3, <3>4 DEF FeedInv
  <2>5. CASE ~(e.table = view.ref /\ view.client)
    <3>1. UNCHANGED <<view, loads>>
      BY <2>1, <2>5 DEF Refresh
    <3>2. FeedTypes' /\ ViewOk'
      BY Zenon, <1>1, <1>2, <2>2, <3>1 DEF FeedTypes, ViewOk
    <3>3. SeesOk'
      <4> SUFFICES ASSUME Watching'
                   PROVE  \/ /\ loads' = EmptyBag /\ view'.player.table = view'.selected
                             /\ Fresh(view.selected, view.player.version)'
                          \/ \E l \in DOMAIN loads' : /\ loads' = SetToBag({l})
                                                      /\ l.table = view'.selected
                                                      /\ Fresh(view.selected, l.version)'
        BY Zenon DEF SeesOk
      <4>1. Watching /\ view.selected \in Tables /\ view.selected # e.table
        BY <1>1, <2>5, <3>1 DEF Watching, FeedTypes, ViewType, ViewOk
      <4>2. ASSUME NEW version, Fresh(view.selected, version) PROVE Fresh(view.selected, version)'
        <5>1. PICK t \in Tables : t = view.selected
          BY <4>1
        <5>2. heard'[t] <= version
          BY Zenon, <1>2, <4>1, <4>2, <5>1 DEF Fresh
        <5>3. ASSUME NEW k \in DOMAIN log, log[k].table = t, Known(log[k])', SaidFirst(k)
              PROVE  VersionAt(t, k) <= version
          <6>1. Known(log[k])
            BY <2>2, <4>1, <5>1, <5>3 DEF Known
          <6> QED BY <4>2, <5>1, <5>3, <6>1 DEF Fresh
        <5>4. t = view'.selected
          BY <3>1, <5>1
        <5> QED BY <5>2, <5>3, <5>4 DEF Fresh, VersionAt, SaidFirst, Known
      <4>3. CASE /\ loads = EmptyBag /\ view.player.table = view.selected
                 /\ Fresh(view.selected, view.player.version)
        <5>1. PICK version : version = view.player.version
          OBVIOUS
        <5>2. Fresh(view.selected, version)' /\ version = view'.player.version
          BY <3>1, <4>2, <4>3, <5>1
        <5> QED BY <3>1, <4>3, <5>2
      <4>4. CASE \E l \in DOMAIN loads : /\ loads = SetToBag({l}) /\ l.table = view.selected
                                         /\ Fresh(view.selected, l.version)
        BY Zenon, <3>1, <4>2, <4>4
      <4> QED BY Zenon, <1>1, <4>1, <4>3, <4>4 DEF SeesOk
    <3> QED BY <1>2, <2>3, <3>2, <3>3 DEF FeedInv
  <2> QED BY <2>4, <2>5
<1> QED BY <1>3, <1>4

\* A read comes back: it shows no less than when it was started, and it was the only one
\* (setPlayerTable).  A failed one shows nothing.
LEMMA LoadsEnd ==
  ASSUME FeedInv, NEW l \in BagToSet(loads), LoadDone(l) \/ LoadFailed(l)
  PROVE  FeedInv'
<1>1. /\ l \in DOMAIN loads /\ l \in LoadType /\ view \in ViewType
      /\ feeds \in [Feeds -> [up : BOOLEAN, next : Nat \ {0}]] /\ DOMAIN loads \subseteq LoadType
      /\ ViewOk /\ SeesOk
  BY DEF BagToSet, FeedInv, FeedTypes
<1>2. /\ UNCHANGED <<log, feeds, dedup, heard>> /\ loads' = loads (-) SetToBag({l})
  BY DEF LoadDone, LoadFailed
<1>3. DOMAIN loads' \subseteq LoadType
  <2>1. DOMAIN (loads (-) SetToBag({l})) \subseteq DOMAIN loads
    BY Zenon, BagDomains
  <2> QED BY Zenon, <1>1, <1>2, <2>1
<1>4. CASE LoadFailed(l)
  <2>1. view' = [view EXCEPT !.player = [table |-> NoTable, version |-> 0], !.lone = FALSE]
    BY <1>4 DEF LoadFailed
  <2>2. /\ view' \in ViewType /\ ~view'.lone /\ view'.effects = view.effects
        /\ view'.ref = view.ref /\ view'.selected = view.selected
        /\ view'.wallet = view.wallet /\ view'.client = view.client
    BY Zenon, <1>1, <2>1 DEF ViewType
  <2>3. ViewOk' /\ SeesOk'
    BY Zenon, <1>1, <2>2 DEF ViewOk, SeesOk, Watching
  <2> QED BY Zenon, <1>1, <1>2, <1>3, <2>2, <2>3, ViewChanges
<1>5. CASE LoadDone(l)
  <2>1. PICK version \in l.version .. VersionAt(l.table, Len(log)) :
          view' = [view EXCEPT !.player = [table |-> l.table, version |-> version]]
    BY <1>5 DEF LoadDone
  <2>2. l.version \in Nat /\ l.table \in Tables
    BY <1>1 DEF LoadType
  <2>3. version \in Nat /\ l.version <= version
    <3>1. Len(log) \in Nat
      BY LenProperties DEF FeedInv, FeedTypes
    <3>2. VersionAt(l.table, Len(log)) \in Nat
      BY <3>1, VersionGrows
    <3> QED BY <2>2, <3>2
  <2>4. /\ view' \in ViewType /\ view'.lone = view.lone /\ view'.effects = view.effects
        /\ view'.ref = view.ref /\ view'.selected = view.selected
        /\ view'.wallet = view.wallet /\ view'.client = view.client
        /\ view'.player.table = l.table /\ view'.player.version = version
    <3> DEFINE p == [table |-> l.table, version |-> version]
    <3>1. /\ p \in [table : Tables \cup {NoTable}, version : Nat]
          /\ p.table = l.table /\ p.version = version
      BY <2>2, <2>3
    <3>2. view' = [view EXCEPT !.player = p]
      BY <2>1
    <3> HIDE DEF p
    <3> QED BY Zenon, <1>1, <3>1, <3>2 DEF ViewType
  <2>5. SeesOk'
    <3> SUFFICES ASSUME Watching'
                 PROVE  /\ loads' = EmptyBag /\ view'.player.table = view'.selected
                        /\ Fresh(view.selected, view.player.version)'
      BY DEF SeesOk
    <3>1. Watching
      BY <2>4 DEF Watching
    <3>2. loads # EmptyBag
      BY <1>1 DEF EmptyBag, SetToBag
    <3>3. PICK m \in DOMAIN loads : /\ loads = SetToBag({m}) /\ m.table = view.selected
                                    /\ Fresh(view.selected, m.version)
      BY Zenon, <1>1, <3>1, <3>2 DEF SeesOk
    <3>4. m = l
      BY ZenonT(30), <1>1, <3>3, OneInBag
    <3>5. loads' = EmptyBag
      BY Zenon, <1>2, <3>3, <3>4, OneInBag
    <3>6. Fresh(view.selected, version)
      <4>1. view.selected \in Tables
        BY Zenon, <1>1, <3>1 DEF Watching, ViewType
      <4>2. heard[view.selected] \in Nat
        BY <4>1 DEF FeedInv, FeedTypes
      <4>3. \A k \in DOMAIN log : VersionAt(view.selected, k) \in Nat
        <5>1. DOMAIN log \subseteq Nat
          BY LenProperties DEF FeedInv, FeedTypes
        <5> QED BY <5>1, VersionGrows
      <4> QED BY <2>2, <2>3, <3>3, <3>4, <4>2, <4>3 DEF Fresh
    <3>7. view'.selected = view.selected /\ view'.player.version = version
      BY <2>4
    <3>8. Fresh(view.selected, view.player.version)'
      BY <1>2, <3>6, <3>7 DEF Fresh, Known, SaidFirst, VersionAt
    <3> QED BY Zenon, <2>4, <3>3, <3>4, <3>5, <3>8
  <2>6. ViewOk'
    BY Zenon, <1>1, <2>4 DEF ViewOk
  <2> QED BY Zenon, <1>1, <1>2, <1>3, <2>4, <2>5, <2>6, ViewChanges
<1> QED BY <1>4, <1>5

\* The user selects a table or connects: the effects are still to run (selectTable,
\* connectWallet).
LEMMA UserKeeps ==
  ASSUME FeedInv,
         \/ \E t \in Tables \cup {NoTable} : selectTable(t)
         \/ connectWallet \/ WalletConnected \/ WalletFailed
  PROVE  FeedInv'
<1>1. /\ view \in ViewType /\ DOMAIN loads \subseteq LoadType /\ FeedTypes
      /\ feeds \in [Feeds -> [up : BOOLEAN, next : Nat \ {0}]] /\ ViewOk
  BY DEF FeedInv, FeedTypes
<1>2. UNCHANGED <<log, feeds, dedup, heard>>
  BY Zenon DEF selectTable, connectWallet, WalletConnected, WalletFailed
<1> SUFFICES /\ view' \in ViewType /\ DOMAIN loads' \subseteq LoadType
             /\ view'.effects /\ (view'.wallet = "connected" => view'.client)
  BY Zenon, <1>1, <1>2, ViewChanges DEF ViewOk, SeesOk, Watching
<1>3. ASSUME NEW t \in Tables \cup {NoTable}, selectTable(t)
      PROVE  /\ view' \in ViewType /\ DOMAIN loads' \subseteq LoadType
             /\ view'.effects /\ (view'.wallet = "connected" => view'.client)
  BY Zenon, <1>1, <1>3 DEF selectTable, ViewType, ViewOk
<1>4. CASE connectWallet
  BY Zenon, <1>1, <1>4 DEF connectWallet, ViewType
<1>5. CASE WalletFailed
  BY Zenon, <1>1, <1>5 DEF WalletFailed, ViewType
<1>6. CASE WalletConnected
  <2> DEFINE v == [view EXCEPT !.wallet = "connected", !.client = TRUE, !.effects = TRUE]
  <2>1. /\ v \in ViewType /\ v.effects /\ v.client
        /\ view.connectFor \in Tables \cup {NoTable}
    BY Zenon, <1>1 DEF ViewType
  <2>2. IF view.connectFor # NoTable THEN loadPlayerTable(v, view.connectFor)
        ELSE view' = v /\ UNCHANGED loads
    BY <1>6 DEF WalletConnected
  <2> HIDE DEF v
  <2>3. CASE view.connectFor = NoTable
    BY <1>1, <2>1, <2>2, <2>3
  <2>4. CASE view.connectFor # NoTable
    <3>1. PICK t \in Tables : loadPlayerTable(v, t)
      BY <2>1, <2>2, <2>4
    <3> QED BY Zenon, <1>1, <2>1, <3>1, LoadStarts
  <2> QED BY <2>3, <2>4
<1> QED BY <1>3, <1>4, <1>5, <1>6

\* The effects of a render start a read of the selected table, if a player can see it.
LEMMA EffectsKeep == ASSUME FeedInv, RunEffects PROVE FeedInv'
<1>1. /\ view \in ViewType /\ DOMAIN loads \subseteq LoadType /\ FeedTypes /\ HeardOk
      /\ feeds \in [Feeds -> [up : BOOLEAN, next : Nat \ {0}]] /\ ViewOk
      /\ dedup \in Seq(EventType) /\ log \in Seq(EventType) /\ heard \in [Tables -> Nat]
  BY DEF FeedInv, FeedTypes
<1> DEFINE v == [view EXCEPT !.effects = FALSE, !.ref = view.selected]
<1>2. /\ v \in ViewType /\ ~v.effects /\ v.ref = view.selected /\ v.selected = view.selected
      /\ v.wallet = view.wallet /\ v.client = view.client
  BY Zenon, <1>1 DEF ViewType
<1>3. /\ IF LoadsOnEffects(view) THEN loadPlayerTable(v, view.selected)
         ELSE /\ view' = [v EXCEPT !.player = [table |-> NoTable, version |-> 0]]
              /\ UNCHANGED loads
      /\ UNCHANGED <<log, dedup, heard>>
  BY DEF RunEffects
<1>4. feeds' \in [Feeds -> [up : BOOLEAN, next : Nat \ {0}]]
  BY Zenon, <1>1 DEF RunEffects
<1> HIDE DEF v
<1>5. CASE ~LoadsOnEffects(view)
  <2>1. view' = [v EXCEPT !.player = [table |-> NoTable, version |-> 0]] /\ loads' = loads
    BY <1>3, <1>5
  <2>2. /\ view' \in ViewType /\ ~view'.effects /\ view'.ref = view'.selected
        /\ view'.selected = view.selected /\ view'.wallet = view.wallet
        /\ view'.client = view.client
    BY <1>2, <2>1 DEF ViewType
  <2>3. ViewOk' /\ SeesOk'
    BY <1>1, <1>5, <2>2 DEF ViewOk, SeesOk, Watching, LoadsOnEffects
  <2> QED BY <1>1, <1>3, <1>4, <2>1, <2>2, <2>3, ViewChanges
<1>6. CASE LoadsOnEffects(view)
  <2>1. PICK t \in Tables : t = view.selected /\ loadPlayerTable(v, t)
    BY <1>1, <1>3, <1>6 DEF LoadsOnEffects, ViewType
  <2>2. /\ view' \in ViewType /\ DOMAIN loads' \subseteq LoadType
        /\ view'.selected = v.selected /\ view'.ref = v.ref /\ view'.effects = v.effects
        /\ view'.wallet = v.wallet /\ view'.client = v.client
        /\ view'.lone => \E l \in DOMAIN loads' :
                           /\ loads' = SetToBag({l}) /\ l.table = t
                           /\ l.version = VersionAt(t, Len(log))
    BY Zenon, <1>1, <1>2, <2>1, LoadStarts
  <2>3. ViewOk' /\ view'.selected = t
    BY Zenon, <1>1, <1>2, <2>1, <2>2 DEF ViewOk
  <2>4. FeedTypes' /\ HeardOk'
    BY <1>1, <1>3, <1>4, <2>2 DEF FeedTypes, HeardOk, VersionAt
  <2>5. SeesOk'
    <3> SUFFICES ASSUME Watching'
                 PROVE  \E l \in DOMAIN loads' : /\ loads' = SetToBag({l})
                                                 /\ l.table = view'.selected
                                                 /\ Fresh(view.selected, l.version)'
      BY Zenon DEF SeesOk
    <3>1. PICK l \in DOMAIN loads' : /\ loads' = SetToBag({l}) /\ l.table = t
                                     /\ l.version = VersionAt(t, Len(log))
      BY Zenon, <2>2 DEF Watching
    <3>3. VersionAt(t, Len(log))' = l.version
      BY <1>3, <3>1 DEF VersionAt
    <3>4. Fresh(view.selected, l.version)'
      BY <2>3, <2>4, <3>3, NewReadFresh
    <3> QED BY Zenon, <2>3, <3>1, <3>4
  <2> QED BY <1>3, <1>4, <2>2, <2>3, <2>5, ViewChanges
<1> QED BY <1>5, <1>6

\* A feed comes up, goes down, or passes over an event: nothing is read.
LEMMA FeedsChange ==
  ASSUME FeedInv, UNCHANGED <<log, dedup, view, loads, heard>>,
         feeds' \in [Feeds -> [up : BOOLEAN, next : Nat \ {0}]]
  PROVE  FeedInv'
<1>1. ViewOk' /\ SeesOk'
  <2>1. ViewOk'
    BY DEF FeedInv, ViewOk
  <2>2. ASSUME NEW t, NEW version, Fresh(t, version) PROVE Fresh(t, version)'
    BY <2>2 DEF Fresh, Known, SaidFirst, VersionAt
  <2>3. SeesOk'
    <3>1. ASSUME Watching' PROVE Watching
      BY <3>1 DEF Watching
    <3>2. PICK t, version : t = view.selected /\ version = view.player.version
      OBVIOUS
    <3>3. ASSUME loads = EmptyBag, view.player.table = t, Fresh(t, version) PROVE SeesOk'
      <4>1. Fresh(view.selected, view.player.version)'
        BY <2>2, <3>2, <3>3 DEF Fresh, Known, SaidFirst, VersionAt
      <4> QED BY Zenon, <3>2, <3>3, <4>1 DEF SeesOk
    <3>4. ASSUME NEW l \in DOMAIN loads, loads = SetToBag({l}), l.table = t, Fresh(t, l.version)
          PROVE  SeesOk'
      <4>1. Fresh(view.selected, l.version)'
        BY Zenon, <3>2, <3>4, FreshStays
      <4> QED BY Zenon, <3>2, <3>4, <4>1 DEF SeesOk
    <3>5. ASSUME ~Watching' PROVE SeesOk'
      BY <3>5 DEF SeesOk
    <3> QED BY Zenon, <3>1, <3>2, <3>3, <3>4, <3>5 DEF FeedInv, SeesOk
  <2> QED BY <2>1, <2>3
<1>2. view' \in ViewType /\ DOMAIN loads' \subseteq LoadType
  BY DEF FeedInv, FeedTypes
<1> QED BY <1>1, <1>2, ViewChanges

\* A page just opened, before its first effects.
LEMMA FeedsInitOk == FeedsInit => FeedInv
<1> SUFFICES ASSUME FeedsInit PROVE FeedInv OBVIOUS
<1>1. /\ view \in ViewType /\ view.effects /\ view.wallet = "idle"
  BY DEF FeedsInit, ViewType
<1>2. DOMAIN loads = {}
  BY Zenon DEF FeedsInit, EmptyBag, SetToBag
<1>3. FeedTypes
  BY <1>1, <1>2, EmptySeq DEF FeedsInit, FeedTypes, Feeds
<1>4. ViewOk /\ SeesOk
  BY Zenon, <1>1 DEF ViewOk, SeesOk, Watching
<1>5. HeardOk
  <2>1. Len(log) = 0
    BY Zenon DEF FeedsInit
  <2>2. ASSUME NEW t \in Tables PROVE heard[t] <= VersionAt(t, Len(log))
    <3>1. VersionAt(t, Len(log)) \in Nat
      <4>1. Len(log) \in Nat
        BY <2>1
      <4> QED BY <4>1, VersionGrows
    <3>2. heard[t] = 0
      BY Zenon DEF FeedsInit
    <3> QED BY <3>1, <3>2
  <2> QED BY Zenon, <2>2 DEF HeardOk
<1>6. DedupOk
  BY Zenon DEF FeedsInit, DedupOk
<1> QED BY <1>3, <1>4, <1>5, <1>6 DEF FeedInv

\* Every step of the chain, the feeds, the reads and the user.
LEMMA FeedsNextOk == ASSUME FeedInv, [FeedsNext]_feedVars PROVE FeedInv'
<1>1. /\ feeds \in [Feeds -> [up : BOOLEAN, next : Nat \ {0}]] /\ Len(log) \in Nat
      /\ "coordinator" \in Feeds /\ "comet" \in Feeds
  BY LenProperties DEF FeedInv, FeedTypes, Feeds
<1>2. ASSUME NEW f \in Feeds, FeedUp(f) \/ FeedLost(f) PROVE FeedInv'
  <2>1. UNCHANGED <<log, dedup, view, loads, heard>>
    BY <1>2 DEF FeedUp, FeedLost
  <2>2. feeds' \in [Feeds -> [up : BOOLEAN, next : Nat \ {0}]]
    <3>1. CASE FeedUp(f)
      <4>1. [up |-> TRUE, next |-> Len(log) + 1] \in [up : BOOLEAN, next : Nat \ {0}]
        BY <1>1
      <4> QED BY <1>1, <3>1, <4>1 DEF FeedUp
    <3>2. CASE FeedLost(f)
      BY Zenon, <1>1, <3>2 DEF FeedLost
    <3> QED BY <1>2, <3>1, <3>2
  <2> QED BY <2>1, <2>2, FeedsChange
<1>3. CASE CoordinatorEvent
  <2>1. PICK n \in 1 .. Len(log) : /\ Hear("coordinator", n) /\ FirstHearing(log[n])
                                   /\ log' = log
    <3>1. feeds["coordinator"].next \in Nat \ {0}
      BY <1>1
    <3> QED BY <1>1, <1>3, <3>1 DEF CoordinatorEvent
  <2> QED BY <1>1, <2>1, HearingKeeps
<1>4. CASE CometEvent
  <2> DEFINE n == feeds["comet"].next
  <2>1. n \in Nat \ {0} /\ n \in 1 .. Len(log) /\ log' = log
    BY <1>1, <1>4 DEF CometEvent
  <2>2. CASE view.selected \notin {NoTable, log[n].table}
    <3>1. /\ feeds' = [feeds EXCEPT !["comet"].next = n + 1]
          /\ UNCHANGED <<dedup, view, loads, heard>>
      BY <1>4, <2>2 DEF CometEvent
    <3>2. feeds' \in [Feeds -> [up : BOOLEAN, next : Nat \ {0}]]
      <4>1. n + 1 \in Nat \ {0}
        BY <2>1
      <4> HIDE DEF n
      <4> QED BY <1>1, <3>1, <4>1
    <3> QED BY <2>1, <3>1, <3>2, FeedsChange
  <2>3. CASE ~(view.selected \notin {NoTable, log[n].table})
    <3>1. Hear("comet", n) /\ FirstHearing(log[n])
      BY <1>4, <2>3 DEF CometEvent
    <3> HIDE DEF n
    <3> QED BY <1>1, <2>1, <3>1, HearingKeeps
  <2> QED BY Zenon, <2>2, <2>3
<1>5. CASE UNCHANGED feedVars
  BY <1>1, <1>5, FeedsChange DEF feedVars
<1> QED BY <1>2, <1>3, <1>4, <1>5, PublishKeeps, LoadsEnd, UserKeeps, EffectsKeep DEF FeedsNext

\* For any number of tables and events, whichever feed brings an event first or misses it,
\* and in whatever order with the user's clicks and React's effects: once its reads are
\* back, a connected player sees the selected table as of the last event heard of it, or
\* later (useGameState.ts).
THEOREM HeardEventsAlwaysSeen == FeedsSpec => []PlayerSeesHeardEvents
<1>1. ASSUME FeedInv PROVE PlayerSeesHeardEvents
  <2> SUFFICES ASSUME Watching, loads = EmptyBag
               PROVE  /\ view.player.table = view.selected
                      /\ view.player.version >= heard[view.selected]
    BY DEF PlayerSeesHeardEvents, Watching
  <2>1. DOMAIN loads = {}
    BY DEF EmptyBag, SetToBag
  <2>2. /\ view.player.table = view.selected /\ Fresh(view.selected, view.player.version)
    BY <1>1, <2>1 DEF FeedInv, SeesOk
  <2>3. view.selected \in Tables /\ view.player.version \in Nat
    BY <1>1 DEF FeedInv, FeedTypes, ViewType, Watching
  <2>4. heard[view.selected] \in Nat
    BY <1>1, <2>3 DEF FeedInv, FeedTypes
  <2> QED BY <2>2, <2>3, <2>4 DEF Fresh
<1> QED BY <1>1, FeedsInitOk, FeedsNextOk, PTL DEF FeedsSpec
=============================================================================
