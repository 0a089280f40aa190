------------------------------ MODULE PageFeeds ------------------------------
(* How the page keeps its view of the selected table fresh: the refresh that *)
(* chain events trigger in apps/web/src/hooks/useGameState.ts, which hears   *)
(* of them twice, from the coordinator and straight from a CometBFT node     *)
(* (components/useCometBftEvents.ts), and drops the second hearing by what   *)
(* the event says.  Either feed may be down and miss events; the user        *)
(* connects the wallet and switches tables; answers to the page's reads come *)
(* late, in any order, or not at all.  The delays and misses the hook counts *)
(* for display are left out, and so are the timers that count them.          *)
EXTENDS Lobby, Naturals, Sequences, FiniteSets, Bags

CONSTANTS
  Contents,     \* what an event may say, beyond its table
  DEDUP_MAX,
  MaxLog,       \* bound: events the chain emits
  MaxLosses,    \* bound: times a feed is lost
  MaxSelects    \* bound: times another table is selected

ASSUME FeedParams == DEDUP_MAX \in Nat

VARIABLES
  log,       \* the chain's events, oldest first
  feeds,     \* the two subscriptions: up or not, and the event each reads next
  dedup,     \* dedupMapRef, oldest entry first
  view,      \* the hook's refs and state
  loads,     \* loadPlayerTable calls under way
  heard,     \* for each table, its version at the last event heard that no
             \* earlier event equals
  room       \* what is left of the bounds

feedVars == <<log, feeds, dedup, view, loads, heard, room>>

Feeds == {"coordinator", "comet"}

VersionAt(table, n) == Cardinality({i \in 1 .. n : log[i].table = table})

------------------------------------------------------------------------------
(* The chain and the two subscriptions.                                     *)

Publish(table, content) ==
  /\ Len(log) < MaxLog
  /\ log' = Append(log, [table |-> table, content |-> content])
  /\ UNCHANGED <<feeds, dedup, view, loads, heard, room>>

\* A subscription is made, or made again after scheduleReconnect: it brings the
\* events from now on.  The CometBFT one is there only while a table is selected.
FeedUp(f) ==
  /\ ~feeds[f].up
  /\ f = "comet" => view.ref # NoTable
  /\ feeds' = [feeds EXCEPT ![f] = [up |-> TRUE, next |-> Len(log) + 1]]
  /\ UNCHANGED <<log, dedup, view, loads, heard, room>>

FeedLost(f) ==
  /\ feeds[f].up /\ room.losses > 0
  /\ feeds' = [feeds EXCEPT ![f].up = FALSE]
  /\ room' = [room EXCEPT !.losses = @ - 1]
  /\ UNCHANGED <<log, dedup, view, loads, heard>>

------------------------------------------------------------------------------
(* loadPlayerTable.                                                         *)

\* A read of a table is started.  "lone" says that the last one was started
\* when no other was under way and has not failed: its answer comes last.
loadPlayerTable(v, table) ==
  /\ loads' = loads (+) SetToBag({[table |-> table, version |-> VersionAt(table, Len(log))]})
  /\ view' = [v EXCEPT !.lone = loads = EmptyBag]

\* setPlayerTable with the table as the chain read it, at some time since then
LoadDone(l) ==
  /\ loads' = loads (-) SetToBag({l})
  /\ \E version \in l.version .. VersionAt(l.table, Len(log)) :
       view' = [view EXCEPT !.player = [table |-> l.table, version |-> version]]
  /\ UNCHANGED <<log, feeds, dedup, heard, room>>

LoadFailed(l) ==
  /\ loads' = loads (-) SetToBag({l})
  /\ view' = [view EXCEPT !.player = [table |-> NoTable, version |-> 0], !.lone = FALSE]
  /\ UNCHANGED <<log, feeds, dedup, heard, room>>

------------------------------------------------------------------------------
(* The two feeds meet in the dedup map.                                     *)

Known(event) == \E i \in DOMAIN dedup : dedup[i] = event

pruneDedup(entries) ==
  IF Len(entries) > DEDUP_MAX
  THEN SubSeq(entries, Len(entries) - DEDUP_MAX + 1, Len(entries)) ELSE entries

\* What a first hearing reloads: the same in onmessage and handleCometEvent.
\* selectedTableRef is the table of the last effects, not of the last render.
Refresh(event) ==
  IF event.table = view.ref /\ view.client
  THEN loadPlayerTable(view, event.table)
  ELSE UNCHANGED <<view, loads>>

Hear(feed, n) ==
  /\ feeds' = [feeds EXCEPT ![feed].next = n + 1]
  /\ heard' = IF \E i \in 1 .. n - 1 : log[i] = log[n] THEN heard
              ELSE [heard EXCEPT ![log[n].table] =
                      IF VersionAt(log[n].table, n) > @ THEN VersionAt(log[n].table, n) ELSE @]

\* The body of recordCoordinatorEvent, and of the loop of the node's onmessage.
FirstHearing(event) ==
  IF Known(event) THEN UNCHANGED <<dedup, view, loads>>
  ELSE dedup' = pruneDedup(Append(dedup, event)) /\ Refresh(event)

\* The coordinator's socket brings its next event.
CoordinatorEvent ==
  LET n == feeds["coordinator"].next
  IN  /\ feeds["coordinator"].up /\ n <= Len(log)
      /\ Hear("coordinator", n)
      /\ FirstHearing(log[n])
      /\ UNCHANGED <<log, room>>

\* ws.onmessage of useCometBftEvents, whose selectedTableIdRef follows the render
CometEvent ==
  LET n == feeds["comet"].next
      event == log[n]
  IN  /\ feeds["comet"].up /\ n <= Len(log)
      /\ IF view.selected \notin {NoTable, event.table}
         THEN /\ feeds' = [feeds EXCEPT !["comet"].next = n + 1]
              /\ UNCHANGED <<dedup, view, loads, heard>>
         ELSE /\ Hear("comet", n)
              /\ FirstHearing(event)
      /\ UNCHANGED <<log, room>>

------------------------------------------------------------------------------
(* The user.                                                                *)

selectTable(table) ==
  /\ room.selects > 0 /\ table # view.selected
  /\ view' = [view EXCEPT !.selected = table, !.effects = TRUE]
  /\ room' = [room EXCEPT !.selects = @ - 1]
  /\ UNCHANGED <<log, feeds, dedup, loads, heard>>

\* connectWallet up to its awaits: it remembers the table selected then.
connectWallet ==
  /\ view.wallet \in {"idle", "error"}
  /\ view' = [view EXCEPT !.wallet = "connecting", !.connectFor = view.selected,
                          !.effects = TRUE]
  /\ UNCHANGED <<log, feeds, dedup, loads, heard, room>>

WalletConnected ==
  /\ view.wallet = "connecting"
  /\ LET v == [view EXCEPT !.wallet = "connected", !.client = TRUE, !.effects = TRUE]
     IN  IF view.connectFor # NoTable THEN loadPlayerTable(v, view.connectFor)
         ELSE view' = v /\ UNCHANGED loads
  /\ UNCHANGED <<log, feeds, dedup, heard, room>>

WalletFailed ==
  /\ view.wallet = "connecting"
  /\ room.losses > 0
  /\ view' = [view EXCEPT !.wallet = "error", !.client = FALSE, !.effects = TRUE]
  /\ room' = [room EXCEPT !.losses = @ - 1]
  /\ UNCHANGED <<log, feeds, dedup, loads, heard>>

\* Mutant: only a switch of tables loads the table.
LoadsOnSwitch(v) == v.selected \notin {NoTable, v.ref} /\ v.wallet = "connected"

LoadsOnEffects(v) == v.selected # NoTable /\ v.wallet = "connected"

\* The effects of the last render, on [selectedTableId] and [playerWallet.status]:
\* the ref, the load of the table, and the CometBFT subscription.
RunEffects ==
  /\ view.effects
  /\ LET v == [view EXCEPT !.effects = FALSE, !.ref = view.selected]
     IN  IF LoadsOnEffects(view)
         THEN loadPlayerTable(v, view.selected)
         ELSE /\ view' = [v EXCEPT !.player = [table |-> NoTable, version |-> 0]]
              /\ UNCHANGED loads
  /\ feeds' = IF view.selected = NoTable THEN [feeds EXCEPT !["comet"].up = FALSE] ELSE feeds
  /\ UNCHANGED <<log, dedup, heard, room>>

------------------------------------------------------------------------------
FeedsInit ==
  /\ log = <<>>
  /\ feeds = [f \in Feeds |-> [up |-> FALSE, next |-> 1]]
  /\ dedup = <<>>
  /\ \E t \in Tables \cup {NoTable} :
       view = [selected |-> t, ref |-> NoTable, effects |-> TRUE, lone |-> TRUE,
               wallet |-> "idle", client |-> FALSE, connectFor |-> NoTable,
               player |-> [table |-> NoTable, version |-> 0]]
  /\ loads = EmptyBag
  /\ heard = [t \in Tables |-> 0]
  /\ room = [losses |-> MaxLosses, selects |-> MaxSelects]

FeedsNext ==
  \/ \E t \in Tables, c \in Contents : Publish(t, c)
  \/ \E f \in Feeds : FeedUp(f) \/ FeedLost(f)
  \/ CoordinatorEvent \/ CometEvent
  \/ \E l \in BagToSet(loads) : LoadDone(l) \/ LoadFailed(l)
  \/ \E t \in Tables \cup {NoTable} : selectTable(t)
  \/ connectWallet \/ WalletConnected \/ WalletFailed
  \/ RunEffects

FeedsSpec == FeedsInit /\ [][FeedsNext]_feedVars

------------------------------------------------------------------------------
(* Whatever feed brought it first, in whatever order with the user's clicks  *)
(* and React's effects, an event of the selected table makes the page read   *)
(* the table after it: with the reads back, the connected player sees the    *)
(* selected table, at the last event heard of it or later.  Events that say  *)
(* what an earlier one said are not counted, and neither are reads that      *)
(* overlapped or failed.                                                     *)
PlayerSeesHeardEvents ==
  (/\ view.wallet = "connected" /\ view.selected # NoTable /\ ~view.effects
   /\ loads = EmptyBag /\ view.lone) =>
    /\ view.player.table = view.selected
    /\ view.player.version >= heard[view.selected]
==============================================================================
