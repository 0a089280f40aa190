------------------------------- MODULE BotLoop -------------------------------
(* The control of apps/bot/src/bot.ts: start and ensureSeated, the poll loop *)
(* with its back-off, and the rebuy that runs beside it, with its fallback of *)
(* leaving and sitting again.  What the strategies decide is in Bots; here a  *)
(* decision is a transaction that is under way.  A call of the SDK may put    *)
(* two transactions on the chain (TxClient), and one may be executed after    *)
(* the call has failed.  Stacks are counted in buy-ins.                       *)
EXTENDS Naturals

CONSTANTS
  MaxStack,     \* the table's maxBuyIn, in buy-ins
  MaxFailures   \* bound: consecutiveFailures counted, the length of the back-off

VARIABLES
  bot,     \* the fields of PokerBot
  poll,    \* where pollOnce is, and the table it has read
  rebuy,   \* where the timer's callback, or start, is, and the call it has under way
  seat,    \* the chain: the bot's seat and its stack, and the hand that is on
  pending  \* the node: the bot's transaction that is in no block yet

botVars == <<bot, poll, rebuy, seat, pending>>

Resting == [by |-> "none", at |-> "none", tries |-> 0, ran |-> FALSE]

\* On to another stage: no transaction of it has been taken, none has run.
MovesOn(at) == rebuy' = [by |-> rebuy.by, at |-> at, tries |-> 0, ran |-> FALSE]

------------------------------------------------------------------------------
(* The bot's own transactions: signAndBroadcastAuto and the node.            *)

Sending == {"rebuy", "leave", "seat: sit"}

\* The node takes a transaction, of the first try or of the one after a socket
\* error.  The sequence it was signed with is the next one only if no other
\* transaction of the bot is waiting.
NodeTakes ==
  /\ rebuy.at \in Sending /\ rebuy.tries < 2 /\ pending = "none"
  /\ pending' = rebuy.at
  /\ rebuy' = [rebuy EXCEPT !.tries = @ + 1, !.ran = FALSE]
  /\ UNCHANGED <<bot, poll, seat>>

CanExecute ==
  \/ pending = "rebuy" /\ seat.in /\ ~seat.dealt /\ seat.stack < MaxStack
  \/ pending = "leave" /\ seat.in /\ ~seat.dealt
  \/ pending = "seat: sit" /\ ~seat.in

After ==
  IF pending = "rebuy" THEN [seat EXCEPT !.stack = @ + 1]
  ELSE IF pending = "leave" THEN [seat EXCEPT !.in = FALSE, !.stack = 0]
  ELSE [seat EXCEPT !.in = TRUE, !.stack = 1]

\* A block takes it, whatever has become of the call; a call that has sent
\* anything has nothing else waiting.
Execute ==
  /\ pending # "none" /\ pending' = "none"
  /\ seat' = IF CanExecute THEN After ELSE seat
  /\ rebuy' = [rebuy EXCEPT !.ran = rebuy.tries > 0 /\ CanExecute]
  /\ UNCHANGED <<bot, poll>>

------------------------------------------------------------------------------
(* Seating: from start(), or from the fallback of the rebuy.                *)

\* ensureSeated, up to the answer of getTable
ensureSeatedRead ==
  /\ rebuy.at = "seat: read"
  /\ \/ /\ seat.in
        /\ bot' = [bot EXCEPT !.mySeat = TRUE] /\ MovesOn("seated")
     \/ ~seat.in /\ MovesOn("seat: sit") /\ UNCHANGED bot
     \/ MovesOn("seat: failed") /\ UNCHANGED bot
  /\ UNCHANGED <<poll, seat, pending>>

\* The answer to pokerSit, and the read that finds the seat.
ensureSeatedSit ==
  /\ rebuy.at = "seat: sit"
  /\ \/ rebuy.ran /\ bot' = [bot EXCEPT !.mySeat = TRUE] /\ MovesOn("seated")
     \/ MovesOn("seat: failed") /\ UNCHANGED bot
  /\ UNCHANGED <<poll, seat, pending>>

\* start() goes on to the first poll, or throws and the process ends.
StartDone ==
  /\ rebuy.by = "start" /\ rebuy.at \in {"seated", "seat: failed"}
  /\ bot' = IF rebuy.at = "seated" THEN [bot EXCEPT !.timer = TRUE]
            ELSE [bot EXCEPT !.stopped = TRUE]
  /\ rebuy' = Resting
  /\ UNCHANGED <<poll, seat, pending>>

------------------------------------------------------------------------------
(* The poll loop.                                                           *)

\* Mutant: a pending rebuy does not hold up the poll.
MayPollWhileRebuying(b) == ~b.processing

MayPoll(b) == ~b.processing /\ ~b.rebuyPending

\* Mutant: a failed poll schedules no other.
scheduleNextAfterSuccess(b) == [b EXCEPT !.timer = ~b.stopped /\ b.failures = 0]

scheduleNext(b) == [b EXCEPT !.timer = ~b.stopped]

\* The end of pollLoop, after pollOnce returned or threw.
PollEnds(failed) ==
  /\ bot' = scheduleNext([bot EXCEPT
                            !.processing = FALSE,
                            !.failures = IF ~failed THEN 0
                                         ELSE IF @ < MaxFailures THEN @ + 1 ELSE @])
  /\ poll' = [at |-> "none", saw |-> seat]

\* The timer fires: pollOnce asks for the table, unless it may not.
pollLoop ==
  /\ bot.timer /\ ~bot.stopped
  /\ LET b == [bot EXCEPT !.timer = FALSE]
     IN  IF MayPoll(b)
         THEN /\ bot' = [b EXCEPT !.processing = TRUE]
              /\ poll' = [at |-> "read", saw |-> seat]
         ELSE bot' = scheduleNext([b EXCEPT !.failures = 0]) /\ UNCHANGED poll
  /\ UNCHANGED <<rebuy, seat, pending>>

\* The table is read for the bot.
PollRead ==
  /\ poll.at = "read"
  /\ poll' = [at |-> "read back", saw |-> seat]
  /\ UNCHANGED <<bot, rebuy, seat, pending>>

KnowsSeat == bot.mySeat \/ poll.saw.in

\* No hand, and nothing left on the bot's own seat.
WantsRebuy == ~poll.saw.hand /\ poll.saw.in /\ poll.saw.stack = 0

\* pollOnce with the table: it may end, set the rebuy timer, or send something.
PollDecides ==
  /\ poll.at = "read back"
  /\ \/ PollEnds(FALSE) /\ UNCHANGED rebuy
     \/ PollEnds(TRUE) /\ UNCHANGED rebuy
     \/ /\ KnowsSeat /\ WantsRebuy /\ ~bot.rebuyPending
        /\ bot' = scheduleNext([bot EXCEPT !.mySeat = TRUE, !.processing = FALSE,
                                           !.failures = 0, !.rebuyPending = TRUE])
        /\ poll' = [at |-> "none", saw |-> seat]
        /\ rebuy' = [Resting EXCEPT !.by = "rebuy", !.at = "timer"]
     \/ /\ KnowsSeat /\ ~WantsRebuy
        /\ bot' = [bot EXCEPT !.mySeat = TRUE]
        /\ poll' = [poll EXCEPT !.at = "sent"]
        /\ UNCHANGED rebuy
  /\ UNCHANGED <<seat, pending>>

\* The answer to pokerStartHand, whose failure is caught, or to pokerAct.
PollAnswered(failed) ==
  /\ poll.at = "sent"
  /\ PollEnds(failed)
  /\ UNCHANGED <<rebuy, seat, pending>>

------------------------------------------------------------------------------
(* The rebuy.                                                               *)

\* The timer fires and pokerRebuy is called.
RebuyFires ==
  /\ rebuy.at = "timer" /\ MovesOn("rebuy")
  /\ UNCHANGED <<bot, poll, seat, pending>>

RebuyGivesUp == rebuy' = Resting /\ bot' = [bot EXCEPT !.rebuyPending = FALSE]

\* Its answer; after a failure the bot leaves the table.
pokerRebuy ==
  /\ rebuy.at = "rebuy"
  /\ \/ rebuy.ran /\ RebuyGivesUp
     \/ MovesOn("leave") /\ UNCHANGED bot
  /\ UNCHANGED <<poll, seat, pending>>

\* pokerLeave of the fallback; the wait of a second is before the next read.
pokerLeave ==
  /\ rebuy.at = "leave"
  /\ \/ rebuy.ran /\ MovesOn("seat: read") /\ bot' = [bot EXCEPT !.mySeat = FALSE]
     \/ RebuyGivesUp
  /\ UNCHANGED <<poll, seat, pending>>

FallbackDone ==
  /\ rebuy.by = "rebuy" /\ rebuy.at \in {"seated", "seat: failed"}
  /\ RebuyGivesUp
  /\ UNCHANGED <<poll, seat, pending>>

------------------------------------------------------------------------------
(* The chain, and the operator.                                             *)

\* A hand starts; the bot is dealt in if it has chips.
TableHandStarts ==
  /\ ~seat.hand
  /\ seat' = [seat EXCEPT !.hand = TRUE, !.dealt = seat.stack > 0]
  /\ UNCHANGED <<bot, poll, rebuy, pending>>

\* It ends, and the bot, if it was dealt in, may have lost what it had; what
\* it may have won is not counted.
TableHandEnds(lost) ==
  /\ seat.hand /\ (lost => seat.dealt)
  /\ seat' = [seat EXCEPT !.hand = FALSE, !.dealt = FALSE, !.stack = IF lost THEN 0 ELSE @]
  /\ UNCHANGED <<bot, poll, rebuy, pending>>

stopBot ==
  /\ ~bot.stopped
  /\ bot' = [bot EXCEPT !.stopped = TRUE, !.timer = FALSE]
  /\ rebuy' = IF rebuy.at = "timer" THEN Resting ELSE rebuy
  /\ UNCHANGED <<poll, seat, pending>>

------------------------------------------------------------------------------
BotInit ==
  /\ bot = [timer |-> FALSE, processing |-> FALSE, rebuyPending |-> FALSE,
            mySeat |-> FALSE, stopped |-> FALSE, failures |-> 0]
  /\ seat = [in |-> FALSE, stack |-> 0, hand |-> FALSE, dealt |-> FALSE]
  /\ poll = [at |-> "none", saw |-> seat]
  /\ rebuy = [Resting EXCEPT !.by = "start", !.at = "seat: read"]
  /\ pending = "none"

PollStep == pollLoop \/ PollRead \/ PollDecides \/ \E f \in BOOLEAN : PollAnswered(f)

RebuyStep ==
  \/ ensureSeatedRead \/ ensureSeatedSit \/ StartDone
  \/ RebuyFires \/ pokerRebuy \/ pokerLeave \/ FallbackDone
  \/ NodeTakes

BotNext ==
  \/ PollStep \/ RebuyStep \/ Execute
  \/ TableHandStarts \/ (\E lost \in BOOLEAN : TableHandEnds(lost))
  \/ stopBot

BotSpec == BotInit /\ [][BotNext]_botVars

(* Timers fire and every call of the client ends.                           *)
BotFairness == WF_botVars(PollStep) /\ WF_botVars(RebuyStep)

------------------------------------------------------------------------------
(* The bot has one call of the SDK under way at a time: the poll sends        *)
(* nothing while the rebuy, its fallback or start does, although they run     *)
(* independently and their calls last arbitrarily long.                       *)
OneCallAtATime == poll.at = "sent" => rebuy.at \notin Sending

(* A bust costs three buy-ins at most: whatever calls fail and whenever their *)
(* transactions are executed, one rebuy may be left over from a call that had *)
(* failed when the poll saw the empty stack, and the call that the poll then  *)
(* made may run twice.                                                        *)
ThreeBuyInsPerBust == seat.stack <= 3

(* Beside a poll, a rebuy and its leave-and-sit fallback of any length, with  *)
(* transactions executed twice or late, the bot makes one call at a time and  *)
(* what it pays when it is broke is bounded (pollOnce, the rebuy timer).      *)
BotSpendingIsBounded == OneCallAtATime /\ ThreeBuyInsPerBust
==============================================================================
