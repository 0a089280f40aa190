-------------------------------- MODULE Relay --------------------------------
(* How a chain event reaches the coordinator's subscribers and its table     *)
(* store: the socket of CosmosChainAdapter (apps/coordinator/src/chain/      *)
(* cosmos.ts; comet.ts has the same control), the subscription of            *)
(* createCoordinatorServer (server.ts) and upsertTable (store.ts).  A socket *)
(* may report an error and close only later, when its successor is already   *)
(* open; a table read may fail, and answers come in any order.               *)
EXTENDS Lobby, Naturals, Sequences, FiniteSets

CONSTANTS
  MaxEvents,    \* bound: events the chain emits
  MaxSockets    \* bound: sockets the adapter opens

VARIABLES
  chain,     \* the tables of the events emitted so far, oldest first
  sockets,   \* the adapter's sockets, in the order it opened them
  adapter,   \* CosmosChainAdapter
  reads,     \* getTable calls under way
  store,     \* CoordinatorStore.tables: the version of each table it holds
  sent       \* what broadcastChainEvent has been given

relayVars == <<chain, sockets, adapter, reads, store, sent>>

NoSocket == 0

\* A table's version is the number of events it has emitted.
Version(table) == Cardinality({i \in DOMAIN chain : chain[i] = table})

LiveSockets == {s \in DOMAIN sockets : sockets[s].state \in {"connecting", "open", "subscribed"}}

------------------------------------------------------------------------------
(* The chain: a transaction changes a table and every subscribed socket is  *)
(* sent its event.                                                          *)

Emit(table) ==
  /\ Len(chain) < MaxEvents
  /\ chain' = Append(chain, table)
  /\ sockets' = [s \in DOMAIN sockets |->
                   IF sockets[s].state = "subscribed"
                   THEN [sockets[s] EXCEPT !.queue = Append(@, Len(chain) + 1)]
                   ELSE sockets[s]]
  /\ UNCHANGED <<adapter, reads, store, sent>>

------------------------------------------------------------------------------
(* The adapter.                                                             *)

ensureWsOf(a, opened) ==
  IF a.ws # NoSocket \/ ~a.subscriber THEN a ELSE [a EXCEPT !.ws = opened]

\* The reconnect timer fires.
ensureWs ==
  /\ adapter.timer
  /\ LET a == [adapter EXCEPT !.timer = FALSE]
         opens == a.ws = NoSocket /\ a.subscriber
     IN  /\ opens => Len(sockets) < MaxSockets
         /\ adapter' = ensureWsOf(a, Len(sockets) + 1)
         /\ sockets' = IF opens
                       THEN Append(sockets, [state |-> "connecting", queue |-> <<>>])
                       ELSE sockets
  /\ UNCHANGED <<chain, reads, store, sent>>

\* on("open"): the subscription is asked for
onOpen(s) ==
  /\ sockets[s].state = "connecting"
  /\ sockets' = [sockets EXCEPT ![s].state = "open"]
  /\ UNCHANGED <<chain, adapter, reads, store, sent>>

\* on("message") with the answer to the subscription; an error closes the socket
onSubscribed(s) ==
  /\ sockets[s].state = "open"
  /\ \E state \in {"subscribed", "closing"} : sockets' = [sockets EXCEPT ![s].state = state]
  /\ UNCHANGED <<chain, adapter, reads, store, sent>>

\* this.nextEventIndex += chainEvents.length, for one event
Numbered(a) == [a EXCEPT !.nextEventIndex = @ + 1]

\* on("message") with an event: dispatchChainEvents runs the one subscriber,
\* which broadcasts the event and asks for its table.
onEvent(s) ==
  /\ sockets[s].state = "subscribed" /\ sockets[s].queue # <<>>
  /\ sockets' = [sockets EXCEPT ![s].queue = Tail(@)]
  /\ LET event == Head(sockets[s].queue)
         table == chain[event]
     IN  IF adapter.subscriber
         THEN /\ sent' = Append(sent, [event |-> event, index |-> adapter.nextEventIndex])
              /\ reads' = reads \cup {[table |-> table, event |-> event, version |-> 0]}
              /\ store' = [store EXCEPT
                             ![table].overlap = \E r \in reads : r.table = table,
                             ![table].heard = Cardinality({i \in 1 .. event : chain[i] = table})]
         ELSE UNCHANGED <<sent, reads, store>>
  /\ adapter' = Numbered(adapter)
  /\ UNCHANGED chain

scheduleReconnect(a) ==
  IF a.timer \/ ~a.subscriber THEN a ELSE [a EXCEPT !.timer = TRUE]

\* Mutant: the close of an old socket forgets the new one.
ForgetSocketAny(a, s) == [a EXCEPT !.ws = NoSocket]

\* if (this.ws === ws) this.ws = null
ForgetSocket(a, s) == IF a.ws = s THEN [a EXCEPT !.ws = NoSocket] ELSE a

\* on("error") on a live socket: the close of the socket is still to come.
onError(s) ==
  /\ s \in LiveSockets
  /\ sockets' = [sockets EXCEPT ![s] = [state |-> "closing", queue |-> <<>>]]
  /\ adapter' = scheduleReconnect(ForgetSocket(adapter, s))
  /\ UNCHANGED <<chain, reads, store, sent>>

\* on("close")
onClose(s) ==
  /\ sockets[s].state # "closed"
  /\ sockets' = [sockets EXCEPT ![s] = [state |-> "closed", queue |-> <<>>]]
  /\ adapter' = scheduleReconnect(ForgetSocket(adapter, s))
  /\ UNCHANGED <<chain, reads, store, sent>>

------------------------------------------------------------------------------
(* The server.                                                              *)

\* The chain answers a getTable with the table as it is now.
Answer(r) ==
  /\ r.version = 0
  /\ reads' = (reads \ {r}) \cup {[r EXCEPT !.version = Version(r.table)]}
  /\ UNCHANGED <<chain, sockets, adapter, store, sent>>

upsertTable(entry, version) == [entry EXCEPT !.version = version]

\* The answer arrives.
Upsert(r) ==
  /\ r.version # 0
  /\ reads' = reads \ {r}
  /\ store' = [store EXCEPT ![r.table] = upsertTable(@, r.version)]
  /\ UNCHANGED <<chain, sockets, adapter, sent>>

\* getTable returns null: nothing is stored and nothing is asked again.
ReadFails(r) ==
  /\ r.version = 0
  /\ reads' = reads \ {r}
  /\ store' = [store EXCEPT ![r.table].overlap = TRUE]
  /\ UNCHANGED <<chain, sockets, adapter, sent>>

\* stop(): the subscription ends, so closeWs drops the timer and the socket,
\* whose close comes later; chain.stop does the same again.
stop ==
  /\ adapter.subscriber
  /\ adapter' = [adapter EXCEPT !.subscriber = FALSE, !.timer = FALSE, !.ws = NoSocket]
  /\ sockets' = [s \in DOMAIN sockets |->
                   IF s = adapter.ws THEN [state |-> "closing", queue |-> <<>>] ELSE sockets[s]]
  /\ UNCHANGED <<chain, reads, store, sent>>

------------------------------------------------------------------------------
\* start(): the snapshot is in the store and the adapter opens its first socket.
RelayInit ==
  /\ chain = <<>>
  /\ sockets = <<[state |-> "connecting", queue |-> <<>>]>>
  /\ adapter = [ws |-> 1, timer |-> FALSE, subscriber |-> TRUE, nextEventIndex |-> 1]
  /\ reads = {}
  /\ store = [t \in Tables |-> [version |-> 0, heard |-> 0, overlap |-> FALSE]]
  /\ sent = <<>>

RelayNext ==
  \/ \E t \in Tables : Emit(t)
  \/ ensureWs
  \/ \E s \in DOMAIN sockets :
       onOpen(s) \/ onSubscribed(s) \/ onEvent(s) \/ onError(s) \/ onClose(s)
  \/ \E r \in reads : Answer(r) \/ Upsert(r) \/ ReadFails(r)
  \/ stop

RelaySpec == RelayInit /\ [][RelayNext]_relayVars

------------------------------------------------------------------------------
(* One socket at a time: however late the close of a failed socket comes,    *)
(* the adapter never has two live ones, and the live one is the one it would *)
(* close.                                                                   *)
OneLiveSocket == LiveSockets \subseteq {adapter.ws}

(* No event is broadcast twice or out of order across reconnections, and the *)
(* eventIndex the subscribers see only grows.                                *)
RelayedOnceInOrder ==
  \A i, j \in DOMAIN sent : i < j => /\ sent[i].event < sent[j].event
                                     /\ sent[i].index < sent[j].index

(* A lost connection is retried: a running adapter without a live socket has *)
(* a timer set, or the close that sets it is still to come.                  *)
ReconnectArmed ==
  (adapter.subscriber /\ LiveSockets = {}) =>
    \/ adapter.timer
    \/ adapter.ws # NoSocket /\ sockets[adapter.ws].state = "closing"

(* After stop() nothing is left to fire: the closes that come later set no    *)
(* timer and open no socket.                                                 *)
StoppedForGood == ~adapter.subscriber => ~adapter.timer /\ LiveSockets = {}

(* The store shows a table as it was at the last event heard of it or later, *)
(* once its read is back, if that read succeeded and did not overlap another *)
(* one: overlapping answers are stored in the order they come.               *)
StoreFreshAfterLoneRead ==
  \A t \in Tables :
    (~store[t].overlap /\ ~\E r \in reads : r.table = t) => store[t].version >= store[t].heard

(* However sockets open, fail and close late around start() and stop(), the      *)
(* coordinator's subscription to the chain lives on one socket, comes back when  *)
(* lost, stays away when stopped, relays in order without repetition, and leaves *)
(* the tables in the store up to date.                                           *)
RelayIsSound ==
  /\ OneLiveSocket /\ RelayedOnceInOrder /\ ReconnectArmed /\ StoppedForGood
  /\ StoreFreshAfterLoneRead
==============================================================================
