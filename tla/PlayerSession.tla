---------------------------- MODULE PlayerSession ----------------------------
(* What one player's page keeps of the hand it shows, beyond the table       *)
(* itself: the player's key and its auto-lock, the history of hands, filled  *)
(* both by the hand's disappearance and by the chain's events, and the       *)
(* comparison of the coordinator's table with the chain's                    *)
(* (apps/web/src/hooks/useGameState.ts, lib/playerKeys.ts,                   *)
(* components/useChainVerification.ts).  React renders and runs effects some *)
(* time after the state changes, so several events may come before them.     *)
EXTENDS Naturals, Sequences, FiniteSets

CONSTANTS
  MaxHands,               \* bound: hands the table plays
  MAX_HISTORY_PER_TABLE,
  Views                   \* versions of the table, as a reader sees them

ASSUME SessionParams == MAX_HISTORY_PER_TABLE \in Nat

VARIABLES
  keys,      \* the stored key, the page's copy and the lock timer
  play,      \* the hand the chain plays, and the one the page shows
  history,   \* handHistory of the table, newest first
  capture,   \* events, lastHandRef and pendingShowdownRef (winners and cards)
  check      \* useChainVerification and the two tables it compares

sessionVars == <<keys, play, history, capture, check>>

NoHand == 0

------------------------------------------------------------------------------
(* The key.  "stored" is what localStorage holds for the address; "armed" is *)
(* the lock timer; "fresh" says that the key was protected and the user has  *)
(* not touched the page since.                                              *)

\* getPlayerKeysSync, in the effect on [playerWallet.status, address]
getPlayerKeysSync(k) ==
  IF k.stored = "encrypted" THEN [k EXCEPT !.state = "locked", !.sk = FALSE]
  ELSE [k EXCEPT !.stored = "plain", !.state = "unlocked", !.sk = TRUE]

LoadKeys ==
  /\ keys.state = "none" /\ ~keys.effects
  /\ keys' = [getPlayerKeysSync(keys) EXCEPT
                !.isKeyEncrypted = keys.stored = "encrypted", !.effects = TRUE]
  /\ UNCHANGED <<play, history, capture, check>>

\* Mutant: the timer is cleared and not set again.
resetKeyLockTimerUnset(k) ==
  [k EXCEPT !.armed = @ /\ k.state = "unlocked" /\ k.isKeyEncrypted]

\* The timer is cleared, and set again for an unlocked, encrypted key.
resetKeyLockTimer(k) ==
  [k EXCEPT !.armed = k.state = "unlocked" /\ k.isKeyEncrypted]

\* The effect on [playerKeyState]
KeyEffects ==
  /\ keys.effects
  /\ keys' = [resetKeyLockTimer(keys) EXCEPT !.effects = FALSE]
  /\ UNCHANGED <<play, history, capture, check>>

\* A click or a key press; the listeners are there only while unlocked.
Touch ==
  /\ keys.state = "unlocked" /\ ~keys.effects
  /\ keys' = [resetKeyLockTimer(keys) EXCEPT !.fresh = FALSE]
  /\ UNCHANGED <<play, history, capture, check>>

Locked(k) == [k EXCEPT !.state = "locked", !.sk = FALSE, !.armed = FALSE, !.effects = TRUE]

\* The timer fires.
AutoLock ==
  /\ keys.armed
  /\ keys' = IF keys.inHand THEN resetKeyLockTimer([keys EXCEPT !.armed = FALSE])
             ELSE Locked(keys)
  /\ UNCHANGED <<play, history, capture, check>>

doUnlock ==
  /\ keys.stored = "encrypted" /\ keys.state = "locked"
  /\ keys' = [keys EXCEPT !.state = "unlocked", !.sk = TRUE, !.effects = TRUE]
  /\ UNCHANGED <<play, history, capture, check>>

handleProtectKeys ==
  /\ keys.stored = "plain" /\ keys.state # "none"
  /\ keys' = [keys EXCEPT !.stored = "encrypted", !.isKeyEncrypted = TRUE,
                          !.fresh = TRUE]
  /\ UNCHANGED <<play, history, capture, check>>

------------------------------------------------------------------------------
(* The hands.  The chain plays one hand after another; the page's view of it *)
(* (playerTableForSelected.hand) follows at its own pace and may skip one.   *)

\* The hand ends and its events are sent: the cards revealed and the pot awarded
\* at a showdown, and HandCompleted, which itself names the winner when all
\* others folded.
HandEnds(folded) ==
  /\ play.chain # NoHand
  /\ play' = [play EXCEPT !.chain = NoHand, !.last = play.chain]
  /\ capture' = [capture EXCEPT !.queue =
                   @ \o [i \in 1 .. IF folded THEN 1 ELSE 3 |->
                          [hand |-> play.chain,
                           name |-> IF folded THEN "HandFolded"
                                    ELSE <<"HoleCardRevealed", "PotAwarded", "HandCompleted">>[i]]]]
  /\ UNCHANGED <<keys, history, check>>

HandStarts ==
  /\ play.chain = NoHand /\ play.last < MaxHands
  /\ play' = [play EXCEPT !.chain = play.last + 1]
  /\ UNCHANGED <<keys, history, capture, check>>

Entry(hand, winners, cards, completed) ==
  [hand |-> hand, winners |-> winners, revealedCards |-> cards, completed |-> completed]

At(list, hand) == {i \in DOMAIN list : list[i].hand = hand}

Put(list, entry) == SubSeq(<<entry>> \o list, 1,
  IF Len(list) < MAX_HISTORY_PER_TABLE THEN Len(list) + 1 ELSE MAX_HISTORY_PER_TABLE)

\* Mutant: a hand is added whether or not it is there.
addHandResultAgain(list, entry) == Put(list, entry)

\* addHandResult: a hand already in the history is left as it is.
addHandResult(list, entry) == IF At(list, entry.hand) # {} THEN list ELSE Put(list, entry)

\* The page shows the table as it is now; the effects on it run: isInHandRef,
\* and the hand that was shown and is gone goes into the history.
ShowTable ==
  /\ play.shown # play.chain
  /\ play' = [play EXCEPT !.shown = play.chain]
  /\ keys' = [keys EXCEPT !.inHand = play.chain # NoHand]
  /\ IF play.chain # NoHand
     THEN capture' = [capture EXCEPT !.lastHand = play.chain] /\ UNCHANGED history
     ELSE /\ history' = addHandResult(history, Entry(capture.lastHand, FALSE, FALSE, "not"))
          /\ capture' = [capture EXCEPT !.lastHand = NoHand]
  /\ UNCHANGED check

\* setEvents: the socket brings the next event of the hand.
EventArrives ==
  /\ capture.queue # <<>>
  /\ capture' = [capture EXCEPT !.queue = Tail(@), !.events = <<Head(capture.queue)>> \o @,
                                !.skipped = @ \/ capture.events # <<>>]
  /\ UNCHANGED <<keys, play, history, check>>

\* updateHandResult, for the cards revealed of a hand already in the history
updateHandResult(list, hand) ==
  [i \in DOMAIN list |-> IF i \in At(list, hand) THEN [list[i] EXCEPT !.revealedCards = TRUE]
                         ELSE list[i]]

\* The spread over an existing entry: what the result lacks is kept.
Merged(entry, result) ==
  [entry EXCEPT !.winners = @ \/ result.winners, !.revealedCards = @ \/ result.revealedCards,
                !.completed = result.completed]

\* The merge of HandCompleted into the history.
Completed(list, result) ==
  IF At(list, result.hand) = {} THEN Put(list, result)
  ELSE [i \in DOMAIN list |->
          IF i \in At(list, result.hand) THEN Merged(list[i], result) ELSE list[i]]

Result(latest) ==
  Entry(latest.hand,
        latest.name = "HandFolded" \/ latest.hand \in capture.winners,
        latest.hand \in capture.cards,
        IF latest.name = "HandFolded" THEN "folded" ELSE "showdown")

\* The winners are added to what is pending for the hand.
Awarded(c, hand) == [c EXCEPT !.winners = @ \cup {hand}]

\* The effect on [events] looks at the newest one only: "skipped" remembers
\* that one came before the effect on the one before it had run.
EventEffects ==
  /\ capture.events # <<>>
  /\ LET latest == Head(capture.events)
         seen == [capture EXCEPT !.events = <<>>]
     IN  \/ /\ latest.name = "HoleCardRevealed"
            /\ capture' = [seen EXCEPT !.cards = @ \cup {latest.hand}]
            /\ history' = updateHandResult(history, latest.hand)
         \/ /\ latest.name = "PotAwarded"
            /\ capture' = Awarded(seen, latest.hand)
            /\ UNCHANGED history
         \/ /\ latest.name \in {"HandFolded", "HandCompleted"}
            /\ history' = Completed(history, Result(latest))
            /\ capture' = [seen EXCEPT !.winners = @ \ {latest.hand}, !.cards = @ \ {latest.hand}]
  /\ UNCHANGED <<keys, play, check>>

------------------------------------------------------------------------------
(* The comparison.  The coordinator's table and the chain's are loaded one   *)
(* after the other, each with the version it has then; "effects" says that   *)
(* the effect on [runComparison] is still to run.                            *)

LoadView(side, v) ==
  /\ check[side] # v
  /\ check' = [check EXCEPT ![side] = v, !.effects = TRUE]
  /\ UNCHANGED <<keys, play, history, capture>>

runComparison(c) ==
  IF 0 \in {c.coordinator, c.player} THEN [c EXCEPT !.status = "idle"]
  ELSE IF c.coordinator = c.player
  THEN [c EXCEPT !.status = "verified", !.failures = 0]
  ELSE IF c.failures + 1 >= 2 THEN [c EXCEPT !.status = "mismatch", !.failures = @ + 1]
  ELSE [c EXCEPT !.status = "pending", !.failures = @ + 1, !.retry = TRUE]

\* The cleanup of the previous effect and the reset of the failures
Cleanup(c) == [c EXCEPT !.effects = FALSE, !.retry = FALSE, !.failures = 0]

CheckEffects ==
  /\ check.effects
  /\ check' = runComparison(Cleanup(check))
  /\ UNCHANGED <<keys, play, history, capture>>

\* The retry timer calls the latest runComparison.
Retry ==
  /\ check.retry
  /\ check' = runComparison([check EXCEPT !.retry = FALSE])
  /\ UNCHANGED <<keys, play, history, capture>>

verify ==
  /\ ~check.effects
  /\ check' = runComparison([check EXCEPT !.failures = 0])
  /\ UNCHANGED <<keys, play, history, capture>>

------------------------------------------------------------------------------
SessionInit ==
  /\ keys = [stored |-> "none", state |-> "none", sk |-> FALSE, isKeyEncrypted |-> FALSE,
             armed |-> FALSE, inHand |-> FALSE, effects |-> FALSE, fresh |-> FALSE]
  /\ play = [chain |-> NoHand, last |-> 0, shown |-> NoHand]
  /\ history = <<>>
  /\ capture = [queue |-> <<>>, events |-> <<>>, winners |-> {}, cards |-> {},
                lastHand |-> NoHand, skipped |-> FALSE]
  /\ check = [coordinator |-> 0, player |-> 0, status |-> "idle", failures |-> 0,
              retry |-> FALSE, effects |-> FALSE]

KeysNext == LoadKeys \/ KeyEffects \/ Touch \/ AutoLock \/ doUnlock \/ handleProtectKeys

HandsNext == HandStarts \/ HandEnds(TRUE) \/ HandEnds(FALSE) \/ ShowTable \/ EventArrives \/ EventEffects

CheckNext ==
  \/ \E side \in {"coordinator", "player"}, v \in Views \cup {0} : LoadView(side, v)
  \/ CheckEffects \/ Retry \/ verify

SessionSpec == SessionInit /\ [][KeysNext \/ HandsNext \/ CheckNext]_sessionVars

------------------------------------------------------------------------------
(* A key kept encrypted is not left open: while it is unlocked and the       *)
(* effects have run, the lock timer is set, whatever the order of unlocking, *)
(* protecting, hands and clicks; only a key just protected waits for the     *)
(* next click.  And a locked page holds no key.                              *)
UnlockedKeyWillLock ==
  ~keys.effects =>
    /\ (keys.state = "unlocked" /\ keys.isKeyEncrypted /\ ~keys.fresh) => keys.armed
    /\ keys.state = "locked" => ~keys.sk

(* A hand enters the history once, although both its disappearance and its   *)
(* HandCompleted put it there, in either order.                              *)
HandOnceInHistory ==
  \A i, j \in DOMAIN history : history[i].hand = history[j].hand => i = j

(* A completed hand shows its winners, and after a showdown the cards, and   *)
(* goes on showing them when the table later shows that it is over or a new  *)
(* hand is on, as long as no event of a hand was overtaken by the next one   *)
(* before the page had looked at it.                                         *)
CompletedHandHasWinners ==
  ~capture.skipped =>
    \A i \in DOMAIN history :
      /\ history[i].completed # "not" => history[i].winners
      /\ history[i].completed = "showdown" => history[i].revealedCards

(* The badge tells the truth of the two tables on the page: verified when    *)
(* they are equal and mismatch only when they differ, although the retry     *)
(* timer of an earlier pair may still be running.                            *)
BadgeMatchesTables ==
  ~check.effects =>
    /\ check.status = "verified" => check.coordinator = check.player
    /\ check.status = "mismatch" => check.coordinator # check.player
    /\ check.retry => check.status = "pending"

(* What the page tells about hands is true, in whatever order tables, events,    *)
(* effects and timers come: a hand is in the history once, with its winners, and *)
(* the verification badge is about the tables shown.                             *)
PageTellsTheTruth == HandOnceInHistory /\ CompletedHandHasWinners /\ BadgeMatchesTables
==============================================================================
