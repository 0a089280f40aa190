------------------------------ MODULE TableChat ------------------------------
(* The coordinator's socket hub (apps/coordinator/src/ws.ts) with its chat   *)
(* ring (store.ts) and one page's end of the socket (the connection and the  *)
(* subscription effects of apps/web/src/hooks/useGameState.ts).  The page    *)
(* reconnects, switches tables and chats while another page, at the same IP  *)
(* and subscribed to every table, chats too.  React runs the effects of a    *)
(* selection after the render that shows it, so a socket event may come in   *)
(* between.                                                                  *)
EXTENDS Lobby, Naturals, Sequences

CONSTANTS
  CHAT_RING_SIZE,
  MAX_CHAT_MESSAGES,
  IP_CHAT_LIMIT_PER_MIN,
  SecsPerMinute,           \* length of a chat minute, in ticks of one second
  MaxSecs,                 \* bound: the clock stops here
  MaxDrops,                \* bound: times the socket is lost
  MaxSwitches,             \* bound: times another table is selected
  MaxChats                 \* bound: messages the hub accepts

ASSUME ChatParams ==
  /\ "global" \notin Tables \cup {NoTable}
  /\ {CHAT_RING_SIZE, MAX_CHAT_MESSAGES, MaxDrops, MaxSwitches, MaxChats, MaxSecs} \subseteq Nat
  /\ {IP_CHAT_LIMIT_PER_MIN, SecsPerMinute} \subseteq Nat \ {0}

VARIABLES
  page,    \* the hook's refs and state
  up,      \* what the page has sent on its socket, oldest first
  down,    \* what the hub has sent to the page, oldest first
  hub,     \* the hub's ClientState of the page's socket and of the other one
  ring,    \* CoordinatorStore.chatByTable
  bucket,  \* ipChatBuckets of the one IP, and what was accepted this minute
  secs,    \* Date.now()
  budget   \* what is left of the bounds

chatVars == <<page, up, down, hub, ring, bucket, secs, budget>>

Senders == {"page", "other"}

------------------------------------------------------------------------------
(* The hub.                                                                 *)

Trimmed(seq, size) == 
  IF Len(seq) > size THEN SubSeq(seq, Len(seq) - size + 1, Len(seq)) ELSE seq

addChatMessage(table, msg) ==
  [ring EXCEPT ![table] = Trimmed(Append(@, msg), CHAT_RING_SIZE)]

\* The count of the sender's IP once this message is in.
BucketWith(sender) ==
  IF bucket.minute = secs \div SecsPerMinute THEN bucket.count + 1 ELSE 1

\* The checks of a table_chat message, and all it does when it passes.
Accepts(sender, table) ==
  /\ table \in hub.subs[sender]
  /\ hub.lastChat[sender] # secs
  /\ \/ bucket.minute # secs \div SecsPerMinute
     \/ bucket.count < IP_CHAT_LIMIT_PER_MIN

Accept(sender, table, sofar) ==
  LET msg == [table |-> table, id |-> MaxChats - budget.chats + 1]
  IN  /\ ring' = addChatMessage(table, msg)
      /\ bucket' = [minute |-> secs \div SecsPerMinute,
                    count |-> BucketWith(sender),
                    accepted |-> IF bucket.minute = secs \div SecsPerMinute
                                 THEN bucket.accepted + 1 ELSE 1]
      /\ hub' = [hub EXCEPT !.lastChat[sender] = secs]
      /\ down' = IF table \in hub.subs["page"]
                 THEN Append(sofar, [type |-> "table_chat", body |-> msg]) ELSE sofar
      /\ budget' = [budget EXCEPT !.chats = @ - 1]

\* ws.on("message"): the page's oldest message reaches the hub.
onMessage ==
  /\ up # <<>>
  /\ up' = Tail(up)
  /\ LET m == Head(up)
     IN  \/ /\ m.type = "subscribe"
            /\ hub' = [hub EXCEPT !.subs["page"] = @ \cup {m.table}]
            /\ UNCHANGED <<down, ring, bucket, budget>>
         \/ /\ m.type = "unsubscribe"
            /\ hub' = [hub EXCEPT !.subs["page"] = @ \ {m.table}]
            /\ UNCHANGED <<down, ring, bucket, budget>>
         \/ /\ m.type = "chat_history"
            /\ down' = Append(down, [type |-> "chat_history", body |-> ring[m.table]])
            /\ UNCHANGED <<hub, ring, bucket, budget>>
         \/ /\ m.type = "table_chat"
            /\ budget.chats > 0 /\ Accepts("page", m.table)
            /\ Accept("page", m.table, down)
         \/ /\ m.type = "table_chat"
            /\ budget.chats = 0 \/ ~Accepts("page", m.table)
            /\ UNCHANGED <<hub, down, ring, bucket, budget>>
  /\ UNCHANGED <<page, secs>>

OtherChats(table) ==
  /\ budget.chats > 0
  /\ Accepts("other", table)
  /\ Accept("other", table, down)
  /\ UNCHANGED <<page, up, secs>>

------------------------------------------------------------------------------
(* The page.                                                                *)

Subscribe(table) == [type |-> "subscribe", table |-> table]
Unsubscribe(table) == [type |-> "unsubscribe", table |-> table]
History(table) == [type |-> "chat_history", table |-> table]

\* connect(), from the mount of the effect or from the reconnect timer
connect ==
  /\ page.sock = "none" /\ page.timer
  /\ page' = [page EXCEPT !.sock = "connecting", !.timer = FALSE]
  /\ UNCHANGED <<up, down, hub, ring, bucket, secs, budget>>

\* Mutant: a table subscribed on the old socket is not subscribed again.
onopenOnlyIfNew ==
  /\ page.sock = "connecting"
  /\ page' = [page EXCEPT !.sock = "open", !.subscribed = page.ref]
  /\ up' = <<Subscribe("global")>>
            \o (IF page.ref \notin {NoTable, page.subscribed} THEN <<Subscribe(page.ref)>> ELSE <<>>)
  /\ UNCHANGED <<down, hub, ring, bucket, secs, budget>>

onopen ==
  /\ page.sock = "connecting"
  /\ page' = [page EXCEPT !.sock = "open", !.subscribed = page.ref]
  /\ up' = <<Subscribe("global")>>
            \o (IF page.ref # NoTable THEN <<Subscribe(page.ref)>> ELSE <<>>)
  /\ UNCHANGED <<down, hub, ring, bucket, secs, budget>>

\* Mutant: no reconnect is scheduled.
oncloseNoTimer(p) == [p EXCEPT !.sock = "none"]

oncloseOf(p) == [p EXCEPT !.sock = "none", !.timer = TRUE]

AwaitsHistory ==
  \/ \E i \in DOMAIN up : up[i].type = "chat_history"
  \/ \E i \in DOMAIN down : down[i].type = "chat_history"

\* The socket is lost, connecting or open, with all that is under way on it.
onclose ==
  /\ budget.drops > 0 /\ page.sock # "none"
  /\ page' = [oncloseOf(page) EXCEPT !.mixed = @ \/ AwaitsHistory]
  /\ up' = <<>> /\ down' = <<>>
  /\ hub' = [hub EXCEPT !.subs["page"] = {}, !.lastChat["page"] = 0]
  /\ budget' = [budget EXCEPT !.drops = @ - 1]
  /\ UNCHANGED <<ring, bucket, secs>>

WithHistory(p, messages) == [p EXCEPT !.chat = messages]

\* ws.onmessage, for the two messages that change the chat
onmessage ==
  /\ down # <<>>
  /\ down' = Tail(down)
  /\ LET m == Head(down)
     IN  \/ /\ m.type = "table_chat"
            /\ page' = [page EXCEPT !.chat = Trimmed(Append(@, m.body), MAX_CHAT_MESSAGES)]
         \/ /\ m.type = "chat_history"
            /\ page' = [WithHistory(page, m.body) EXCEPT !.mixed = FALSE]
  /\ UNCHANGED <<up, hub, ring, bucket, secs, budget>>

\* setSelectedTableId: by a click, or by loadTables when the table is gone
setSelectedTableId(table) ==
  /\ budget.switches > 0 /\ table # page.selected
  /\ page' = [page EXCEPT !.selected = table, !.effects = TRUE]
  /\ budget' = [budget EXCEPT !.switches = @ - 1]
  /\ UNCHANGED <<up, down, hub, ring, bucket, secs>>

SwitchSends(previous, table) ==
  (IF previous \notin {NoTable, table} THEN <<Unsubscribe(previous)>> ELSE <<>>)
    \o (IF table \notin {NoTable, previous} THEN <<Subscribe(table), History(table)>> ELSE <<>>)

\* The effects on [selectedTableId]: the ref, then the subscriptions.  "mixed"
\* remembers that no history has come since a switch made without a socket, or
\* since the socket that was to bring it was lost.
runEffects ==
  /\ page.effects
  /\ IF page.sock = "open"
     THEN /\ up' = up \o SwitchSends(page.subscribed, page.selected)
          /\ page' = [page EXCEPT
                        !.effects = FALSE, !.ref = page.selected,
                        !.subscribed = page.selected,
                        !.chat = IF page.selected \notin {NoTable, page.subscribed} THEN <<>> ELSE @]
     ELSE /\ page' = [page EXCEPT !.effects = FALSE, !.ref = page.selected, !.mixed = TRUE]
          /\ UNCHANGED up
  /\ UNCHANGED <<down, hub, ring, bucket, secs, budget>>

sendChat ==
  /\ page.selected # NoTable /\ page.sock = "open"
  /\ ~\E i \in DOMAIN up : up[i].type = "table_chat"
  /\ budget.chats > 0
  /\ up' = Append(up, [type |-> "table_chat", table |-> page.selected])
  /\ UNCHANGED <<page, down, hub, ring, bucket, secs, budget>>

ChatTick ==
  /\ secs < MaxSecs
  /\ secs' = secs + 1
  /\ UNCHANGED <<page, up, down, hub, ring, bucket, budget>>

------------------------------------------------------------------------------
ChatInit ==
  /\ page = [sock |-> "none", timer |-> TRUE, selected |-> NoTable, ref |-> NoTable,
             subscribed |-> NoTable, effects |-> FALSE, chat |-> <<>>, mixed |-> FALSE]
  /\ up = <<>> /\ down = <<>>
  /\ hub = [subs |-> [s \in Senders |-> IF s = "page" THEN {} ELSE Tables],
            lastChat |-> [s \in Senders |-> 0]]
  /\ ring = [t \in Tables |-> <<>>]
  /\ bucket = [minute |-> 0, count |-> 0, accepted |-> 0]
  /\ secs = 1
  /\ budget = [drops |-> MaxDrops, switches |-> MaxSwitches, chats |-> MaxChats]

ChatNext ==
  \/ onMessage
  \/ \E t \in Tables : OtherChats(t)
  \/ connect
  \/ onopen
  \/ onclose
  \/ onmessage
  \/ \E t \in Tables \cup {NoTable} : setSelectedTableId(t)
  \/ runEffects
  \/ sendChat
  \/ ChatTick

ChatSpec == ChatInit /\ [][ChatNext]_chatVars

(* The timers fire, the sockets connect and carry what is sent on them, and *)
(* React runs the effects of what it has rendered.                          *)
ChatFairness ==
  /\ WF_chatVars(connect) /\ WF_chatVars(onopen)
  /\ WF_chatVars(onMessage) /\ WF_chatVars(onmessage)
  /\ WF_chatVars(runEffects)

------------------------------------------------------------------------------
\* The page and the hub agree on all the page has asked for.
Settled ==
  /\ page.sock = "open" /\ ~page.effects
  /\ \A i \in DOMAIN up : up[i].type = "table_chat"
  /\ ~AwaitsHistory

(* Whatever the order in which the user switches tables, the socket drops    *)
(* and the effects run, once the page's messages are handled the hub relays  *)
(* to it the selected table and no other (onopen, and the effect on          *)
(* [selectedTableId]).                                                       *)
SubscribedToSelection ==
  Settled => hub.subs["page"] = {"global"} \cup ({page.selected} \ {NoTable})

(* Messages of the table the user has left may still come in after the      *)
(* switch; once the history of the new table has come, only its messages    *)
(* are shown.  A switch made without a socket, or whose history is lost with *)
(* it, is the exception: onopen asks for no history.                        *)
ChatOfSelectedTable ==
  (Settled /\ ~page.mixed /\ page.selected # NoTable) =>
    \A i \in DOMAIN page.chat : page.chat[i].table = page.selected

(* The chat shows no message twice and none out of the order in which the   *)
(* hub accepted them, although live messages and the history that repeats   *)
(* them come on one socket.                                                 *)
ChatOnceInOrder ==
  \A i, j \in DOMAIN page.chat : i < j => page.chat[i].id < page.chat[j].id

(* However many sockets one IP opens, the hub accepts no more than           *)
(* IP_CHAT_LIMIT_PER_MIN of its messages in one minute: the bucket "prevents *)
(* multi-connection bypass of per-WS rate limit" (ws.ts).                    *)
ChatLimitPerIp == bucket.accepted <= IP_CHAT_LIMIT_PER_MIN

(* Through switches of table, lost sockets and messages that cross, the page     *)
(* shows the chat of the table it is on, in order and each message once, and the *)
(* coordinator lets no address talk past its limit.                              *)
ChatIsOfTheTable ==
  SubscribedToSelection /\ ChatOfSelectedTable /\ ChatOnceInOrder /\ ChatLimitPerIp
==============================================================================
