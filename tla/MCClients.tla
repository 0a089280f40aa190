------------------------------ MODULE MCClients ------------------------------
EXTENDS CoordinatorServices, TableChat, Relay, PageFeeds, PlayerSession, TxClient, BotLoop, TLC

CONSTANT Scenes  \* the parts to run

VARIABLE scene   \* which of the independent parts this behaviour runs; rigid

Init ==
  /\ ServicesInit /\ ChatInit /\ RelayInit /\ FeedsInit
  /\ SessionInit /\ TxInit /\ BotInit
  /\ scene \in Scenes
  \* the tables are alike: the page is opened on one of them, or on none
  /\ view.selected \in IF scene = "feeds" THEN {NoTable, CHOOSE t \in Tables : TRUE} ELSE {NoTable}

ServicesStep ==
  /\ \/ scene = "faucet" /\ FaucetNext
     \/ scene = "nicknames" /\ NicknamesNext
     \/ scene = "artifacts" /\ ArtifactsNext
     \/ scene = "intents" /\ SeatIntentsNext
  /\ UNCHANGED <<chatVars, relayVars, feedVars, sessionVars, txVars, botVars>>

ChatStep ==
  /\ scene = "chat" /\ ChatNext
  /\ UNCHANGED <<serviceVars, relayVars, feedVars, sessionVars, txVars, botVars>>

RelayStep ==
  /\ scene = "relay" /\ RelayNext
  /\ UNCHANGED <<serviceVars, chatVars, feedVars, sessionVars, txVars, botVars>>

FeedsStep ==
  /\ scene = "feeds" /\ FeedsNext
  /\ UNCHANGED <<serviceVars, chatVars, relayVars, sessionVars, txVars, botVars>>

SessionStep ==
  /\ \/ scene = "session" /\ (KeysNext \/ HandsNext)
     \/ scene = "check" /\ CheckNext
  /\ UNCHANGED <<serviceVars, chatVars, relayVars, feedVars, txVars, botVars>>

TxStep ==
  /\ scene = "tx" /\ TxNext
  /\ UNCHANGED <<serviceVars, chatVars, relayVars, feedVars, sessionVars, botVars>>

BotStep ==
  /\ scene = "bot" /\ BotNext
  /\ UNCHANGED <<serviceVars, chatVars, relayVars, feedVars, sessionVars, txVars>>

Next ==
  /\ ServicesStep \/ ChatStep \/ RelayStep \/ FeedsStep \/ SessionStep \/ TxStep \/ BotStep
  /\ UNCHANGED scene

vars == <<serviceVars, chatVars, relayVars, feedVars, sessionVars, txVars, botVars, scene>>

Spec ==
  /\ Init /\ [][Next]_vars
  /\ scene = "chat" => ChatFairness
  /\ scene = "bot" => BotFairness

(* The bot polls again and again until it is stopped, whatever fails and     *)
(* however long a rebuy takes (pollLoop and scheduleNext of bot.ts).         *)
KeepsPolling == scene = "bot" => []<>(poll.at = "read" \/ bot.stopped)

(* Once the network stops failing and the user stops switching tables, the  *)
(* page's socket is open, subscribed and has brought the history, for good   *)
(* (the reconnect timer and the effects of useGameState).                    *)
PageSettles == scene = "chat" => <>[]Settled
==============================================================================
