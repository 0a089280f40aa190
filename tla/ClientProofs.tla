---------------------------- MODULE ClientProofs ----------------------------
(***************************************************************************)
(* The players' programs, for every number of calls, hands and messages, in *)
(* whatever order blocks, timers and answers come: what the bot pays for a *)
(* seat is bounded, a call of the SDK runs twice at most, and the page locks *)
(* the key it unlocked and tells the truth about the hand it shows.        *)
(***************************************************************************)
EXTENDS BotLoop, TxClient, PlayerSession, FiniteSetTheorems, SequenceTheorems, TLAPS

(* The bot. *)

BotType == [timer : BOOLEAN, processing : BOOLEAN, rebuyPending : BOOLEAN,
            mySeat : BOOLEAN, stopped : BOOLEAN, failures : Nat]
SeatType == [in : BOOLEAN, stack : Nat, hand : BOOLEAN, dealt : BOOLEAN]
PollType == [at : {"none", "read", "read back", "sent"}, saw : SeatType]
Stages == {"none", "timer", "rebuy", "leave", "seat: read", "seat: sit", "seated", "seat: failed"}
RebuyType == [by : {"start", "rebuy", "none"}, at : Stages, tries : {0, 1, 2}, ran : BOOLEAN]

BotTypes ==
    /\ bot \in BotType /\ seat \in SeatType /\ poll \in PollType /\ rebuy \in RebuyType
    /\ pending \in Sending \cup {"none"}

\* Start, the poll and the rebuy take turns.
BotTurns ==
    /\ rebuy.by = "start" => ~bot.timer /\ poll.at = "none"
    /\ rebuy.by = "rebuy" => bot.rebuyPending /\ poll.at = "none"
    /\ rebuy.by = "none" => rebuy.at = "none"

\* What the seat has, with the buy-in that a waiting transaction may still bring.
Owed == seat.stack + (IF pending = "rebuy" THEN 1 ELSE 0)

\* The poll that calls for a rebuy has seen the seat empty: at most the transaction of
\* an earlier call is to come, and every try of the new call adds one.
SawEmpty == poll.at = "read back" /\ poll.saw.in /\ poll.saw.stack = 0

BotOwes ==
    /\ Owed <= 3
    /\ rebuy.at = "timer" \/ SawEmpty => Owed <= 1
    /\ rebuy.at = "rebuy" => Owed <= 1 + rebuy.tries

BotInv == BotTypes /\ BotTurns /\ BotOwes

\* The numbers from 1 up to another are finitely many (a fact of the library).
LEMMA IntervalFinite == \A k \in Nat : IsFiniteSet(1 .. k)
<1>1. \A k \in Nat : 1 \in Int /\ k \in Int
  OBVIOUS
<1> QED BY Zenon, <1>1, FS_Interval

\* What is owed is a number, and no less than what the seat has.
LEMMA OwedNat == ASSUME BotTypes PROVE Owed \in Nat /\ seat.stack \in Nat /\ seat.stack <= Owed
<1>1. seat.stack \in Nat
  BY Zenon DEF BotTypes, SeatType
<1> QED BY <1>1 DEF Owed

\* A bot that rests has the shape of one.
LEMMA RestingOk == Resting \in RebuyType /\ Resting.by = "none" /\ Resting.at = "none"
  BY Zenon DEF Resting, RebuyType, Stages

\* A fresh bot is in the invariant (start).
LEMMA BotInitOk == BotInit => BotInv
<1> SUFFICES ASSUME BotInit PROVE BotInv OBVIOUS
<1>1. seat \in SeatType
  BY Zenon DEF BotInit, SeatType
<1>2. bot \in BotType /\ rebuy \in RebuyType /\ pending = "none"
  BY Zenon DEF BotInit, BotType, RebuyType, Resting, Stages
<1>3. poll \in PollType
  BY Zenon, <1>1 DEF BotInit, PollType
<1>4. rebuy.by = "start" /\ rebuy.at = "seat: read" /\ ~bot.timer
  BY Zenon DEF BotInit, Resting
<1>5. poll.at = "none" /\ seat.stack = 0
  BY Zenon DEF BotInit
<1>6. BotTurns
  BY Zenon, <1>4, <1>5 DEF BotTurns
<1>7. Owed = 0
  BY <1>2, <1>5 DEF Owed
<1>a. Owed <= 3 /\ Owed <= 1
  BY <1>7
<1>8. BotOwes
  BY Zenon, <1>4, <1>5, <1>a DEF BotOwes, SawEmpty
<1> QED BY <1>1, <1>2, <1>3, <1>6, <1>8 DEF BotInv, BotTypes

\* A step of the poll or of the rebuy that leaves the chain alone, puts no timer on and
\* looks at no table leaves what is owed within its bounds.
LEMMA OwesAsBefore ==
  ASSUME BotInv, UNCHANGED <<seat, pending>>,
         rebuy'.at \notin {"timer", "rebuy"} \/ (rebuy'.at = rebuy.at /\ rebuy'.tries = rebuy.tries),
         poll'.at # "read back"
  PROVE  BotOwes'
<1>1. Owed' = Owed
  BY Zenon DEF Owed
<1>2. ~SawEmpty'
  BY Zenon DEF SawEmpty
<1> QED BY Zenon, <1>1, <1>2 DEF BotInv, BotOwes

\* The end of a poll changes the bot's own fields and leaves the seat to others
\* (pollLoop).
LEMMA PollEndKeepsBot ==
  ASSUME BotInv, NEW failed \in BOOLEAN, PollEnds(failed), UNCHANGED <<rebuy, seat, pending>>,
         rebuy.by = "none"
  PROVE  BotInv'
<1> DEFINE failures == IF ~failed THEN 0
                       ELSE IF bot.failures < MaxFailures THEN bot.failures + 1 ELSE bot.failures
<1>0. failures \in Nat /\ bot \in BotType
  BY DEF BotInv, BotTypes, BotType
<1>a. bot' = scheduleNext([bot EXCEPT !.processing = FALSE, !.failures = failures])
  BY DEF PollEnds
<1> HIDE DEF failures
<1>1. bot' \in BotType
  BY Zenon, <1>0, <1>a DEF BotType, scheduleNext
<1>2. poll' \in PollType /\ poll'.at = "none"
  BY Zenon DEF BotInv, BotTypes, PollType, PollEnds
<1>3. BotOwes'
  BY Zenon, <1>2, OwesAsBefore
<1> QED BY Zenon, <1>1, <1>2, <1>3 DEF BotInv, BotTypes, BotTurns

\* While a poll is on nobody else makes a call; the seat it reads may at most get the
\* chips of a transaction that is waiting already (pollLoop, pollOnce).
LEMMA PollKeepsBot == ASSUME BotInv, PollStep PROVE BotInv'
<1>1. CASE pollLoop
  <2> DEFINE b == [bot EXCEPT !.timer = FALSE]
  <2>1. b \in BotType /\ b.rebuyPending = bot.rebuyPending
    BY Zenon DEF BotInv, BotTypes, BotType
  <2>2. rebuy.by # "start"
    BY Zenon, <1>1 DEF BotInv, BotTurns, pollLoop
  <2> HIDE DEF b
  <2>3. CASE MayPoll(b)
    <3>1. /\ bot' = [b EXCEPT !.processing = TRUE] /\ poll' = [at |-> "read", saw |-> seat]
          /\ UNCHANGED <<rebuy, seat, pending>>
      BY <1>1, <2>3 DEF pollLoop, b
    <3>2. bot' \in BotType /\ poll' \in PollType /\ poll'.at = "read"
      BY Zenon, <2>1, <3>1 DEF BotType, PollType, BotInv, BotTypes
    <3>3. rebuy.by # "rebuy"
      BY Zenon, <2>1, <2>3 DEF MayPoll, BotInv, BotTurns
    <3>4. BotOwes'
      BY Zenon, <3>1, <3>2, OwesAsBefore
    <3> QED BY Zenon, <2>2, <3>1, <3>2, <3>3, <3>4 DEF BotInv, BotTypes, BotTurns, RebuyType
  <2>4. CASE ~MayPoll(b)
    <3>1. /\ bot' = scheduleNext([b EXCEPT !.failures = 0])
          /\ UNCHANGED <<poll, rebuy, seat, pending>>
      BY <1>1, <2>4 DEF pollLoop, b
    <3>2. bot' \in BotType /\ bot'.rebuyPending = bot.rebuyPending
      BY Zenon, <2>1, <3>1 DEF BotType, scheduleNext
    <3> QED BY Zenon, <2>2, <3>1, <3>2
               DEF BotInv, BotTypes, BotTurns, BotOwes, Owed, SawEmpty
  <2> QED BY <2>3, <2>4
<1>2. CASE PollRead
  <2>1. poll' \in PollType /\ poll'.at = "read back" /\ poll'.saw = seat
    BY Zenon, <1>2 DEF BotInv, BotTypes, PollType, PollRead
  <2>2. UNCHANGED <<bot, rebuy, seat, pending>> /\ poll.at = "read"
    BY Zenon, <1>2 DEF PollRead
  <2>3. rebuy.at = "none"
    BY Zenon, <2>2 DEF BotInv, BotTypes, BotTurns, RebuyType
  <2>a. SawEmpty' => seat.stack = 0
    BY Zenon, <2>1 DEF SawEmpty
  <2>b. seat.stack = 0 => Owed <= 1
    BY DEF Owed
  <2>4. Owed' = Owed /\ (SawEmpty' => Owed <= 1)
    BY Zenon, <2>2, <2>a, <2>b DEF Owed
  <2>5. BotOwes'
    BY Zenon, <2>2, <2>3, <2>4 DEF BotInv, BotOwes
  <2> QED BY Zenon, <2>1, <2>2, <2>3, <2>5 DEF BotInv, BotTypes, BotTurns
<1>3. CASE PollDecides
  <2>1. /\ rebuy.by = "none" /\ rebuy.at = "none" /\ UNCHANGED <<seat, pending>>
        /\ poll.at = "read back"
    BY Zenon, <1>3 DEF BotInv, BotTypes, BotTurns, RebuyType, PollDecides
  <2>2. CASE UNCHANGED rebuy /\ \E failed \in BOOLEAN : PollEnds(failed)
    BY Zenon, <2>1, <2>2, PollEndKeepsBot
  <2>3. CASE /\ KnowsSeat /\ WantsRebuy /\ ~bot.rebuyPending
             /\ bot' = scheduleNext([bot EXCEPT !.mySeat = TRUE, !.processing = FALSE,
                                           !.failures = 0, !.rebuyPending = TRUE])
             /\ poll' = [at |-> "none", saw |-> seat]
             /\ rebuy' = [Resting EXCEPT !.by = "rebuy", !.at = "timer"]
    <3>1. bot' \in BotType /\ bot'.rebuyPending
      BY Zenon, <2>3 DEF BotInv, BotTypes, BotType, scheduleNext
    <3>2. poll' \in PollType /\ poll'.at = "none"
      BY Zenon, <2>3 DEF BotInv, BotTypes, PollType
    <3>3. rebuy' \in RebuyType /\ rebuy'.by = "rebuy" /\ rebuy'.at = "timer"
      BY Zenon, <2>3 DEF RebuyType, Resting, Stages
    <3>4. SawEmpty
      BY Zenon, <2>1, <2>3 DEF SawEmpty, WantsRebuy
    <3>5. Owed' = Owed /\ Owed <= 1 /\ Owed <= 3
      BY Zenon, <2>1, <3>4 DEF BotInv, BotOwes, Owed
    <3>6. BotOwes'
      BY Zenon, <3>2, <3>3, <3>5 DEF BotOwes, SawEmpty
    <3> QED BY Zenon, <2>1, <3>1, <3>2, <3>3, <3>6 DEF BotInv, BotTypes, BotTurns
  <2>4. CASE /\ bot' = [bot EXCEPT !.mySeat = TRUE]
             /\ poll' = [poll EXCEPT !.at = "sent"]
             /\ UNCHANGED rebuy
    <3>1. bot' \in BotType /\ poll' \in PollType /\ poll'.at = "sent"
      BY Zenon, <2>4 DEF BotInv, BotTypes, BotType, PollType
    <3>2. BotOwes'
      BY Zenon, <2>1, <2>4, <3>1, OwesAsBefore
    <3> QED BY Zenon, <2>1, <2>4, <3>1, <3>2 DEF BotInv, BotTypes, BotTurns
  <2> QED BY Zenon, <1>3, <2>2, <2>3, <2>4 DEF PollDecides
<1>4. ASSUME NEW f \in BOOLEAN, PollAnswered(f) PROVE BotInv'
  <2>1. rebuy.by = "none"
    BY Zenon, <1>4 DEF BotInv, BotTypes, BotTurns, RebuyType, PollAnswered
  <2> QED BY <1>4, <2>1, PollEndKeepsBot DEF PollAnswered
<1> QED BY <1>1, <1>2, <1>3, <1>4 DEF PollStep

\* While start or a rebuy goes on, it may go on to another stage, or come to rest.
LEMMA SeatingKeepsBot ==
  ASSUME BotInv, rebuy.by # "none", UNCHANGED <<poll, seat, pending>>, bot' \in BotType,
         \/ /\ bot'.timer = bot.timer /\ bot'.rebuyPending = bot.rebuyPending
            /\ \E at \in Stages \ {"timer", "rebuy"} : MovesOn(at)
         \/ rebuy' = Resting
  PROVE  BotInv'
<1>1. poll.at = "none" /\ poll \in PollType /\ rebuy \in RebuyType
  BY Zenon DEF BotInv, BotTypes, BotTurns, RebuyType
<1>2. CASE rebuy' = Resting
  <2>1. rebuy' \in RebuyType /\ rebuy'.by = "none" /\ rebuy'.at = "none"
    BY <1>2, RestingOk
  <2>2. BotOwes'
    BY Zenon, <1>1, <2>1, OwesAsBefore
  <2> QED BY Zenon, <1>1, <2>1, <2>2 DEF BotInv, BotTypes, BotTurns
<1>3. CASE /\ bot'.timer = bot.timer /\ bot'.rebuyPending = bot.rebuyPending
           /\ \E at \in Stages \ {"timer", "rebuy"} : MovesOn(at)
  <2>0. PICK at \in Stages \ {"timer", "rebuy"} :
          rebuy' = [by |-> rebuy.by, at |-> at, tries |-> 0, ran |-> FALSE]
    BY Zenon, <1>3 DEF MovesOn
  <2>a. rebuy.by \in {"start", "rebuy", "none"} /\ at \in Stages
    BY Zenon, <1>1 DEF RebuyType
  <2>1. rebuy' \in RebuyType /\ rebuy'.by = rebuy.by /\ rebuy'.at \notin {"timer", "rebuy"}
    BY Zenon, <2>0, <2>a DEF RebuyType
  <2>2. BotOwes'
    BY Zenon, <1>1, <2>1, OwesAsBefore
  <2> QED BY Zenon, <1>1, <1>3, <2>1, <2>2 DEF BotInv, BotTypes, BotTurns
<1> QED BY <1>2, <1>3

\* A step of the chain or of the node that leaves the bot where it is, and adds no more
\* than a buy-in to an empty seat, keeps the invariant.
LEMMA ChainKeepsBot ==
  ASSUME BotInv, UNCHANGED <<bot, poll>>, seat' \in SeatType, pending' \in Sending \cup {"none"},
         rebuy' \in RebuyType, rebuy'.by = rebuy.by, rebuy'.at = rebuy.at,
         rebuy'.tries = rebuy.tries, Owed' <= Owed \/ Owed' <= 1
  PROVE  BotInv'
<1>1. BotTypes'
  BY Zenon DEF BotInv, BotTypes
<1>2. BotTurns'
  BY Zenon DEF BotInv, BotTurns
<1>a. seat'.stack \in Nat
  BY Zenon DEF SeatType
<1>3. Owed \in Nat /\ Owed' \in Nat /\ SawEmpty' = SawEmpty
  BY <1>a, OwedNat DEF BotInv, SawEmpty, Owed
<1>4. rebuy.tries \in Nat
  <2>1. rebuy.tries \in {0, 1, 2}
    BY Zenon DEF BotInv, BotTypes, RebuyType
  <2> QED BY <2>1
<1>5. BotOwes'
  BY <1>3, <1>4 DEF BotInv, BotOwes
<1> QED BY <1>1, <1>2, <1>5 DEF BotInv

\* A try adds the buy-in of its transaction to what is owed (signAndBroadcastAuto).
LEMMA NodeTakesKeepsBot == ASSUME BotInv, NodeTakes PROVE BotInv'
<1>0. /\ rebuy \in RebuyType /\ BotTypes /\ rebuy.at \in Sending /\ pending = "none"
      /\ rebuy.tries < 2 /\ UNCHANGED <<bot, poll, seat>> /\ pending' = rebuy.at
  BY Zenon DEF BotInv, BotTypes, NodeTakes
<1>1. rebuy.tries \in {0, 1, 2}
  BY Zenon, <1>0 DEF RebuyType
<1> DEFINE n == rebuy.tries + 1
<1>2. n \in {0, 1, 2} /\ n \in Nat
  BY <1>0, <1>1
<1>3. rebuy' = [rebuy EXCEPT !.tries = n, !.ran = FALSE]
  BY DEF NodeTakes
<1> HIDE DEF n
<1>4. rebuy' \in RebuyType /\ rebuy'.by = rebuy.by /\ rebuy'.at = rebuy.at /\ rebuy'.tries = n
  BY Zenon, <1>0, <1>2, <1>3 DEF RebuyType
<1>5. BotTypes'
  BY Zenon, <1>0, <1>4 DEF BotTypes
<1>6. BotTurns'
  BY Zenon, <1>0, <1>4 DEF BotInv, BotTurns
<1>7. rebuy.at # "timer" /\ poll.at = "none"
  BY Zenon, <1>0 DEF BotInv, BotTurns, RebuyType, Sending
<1>8. ~SawEmpty'
  BY Zenon, <1>0, <1>7 DEF SawEmpty
<1>9. Owed \in Nat /\ Owed <= 3 /\ (rebuy.at = "rebuy" => Owed <= 1 + rebuy.tries)
  BY <1>0, OwedNat DEF BotInv, BotOwes
<1>10. Owed = seat.stack /\ Owed' = IF rebuy.at = "rebuy" THEN Owed + 1 ELSE Owed
  BY <1>0, <1>9, OwedNat DEF Owed
<1>11. BotOwes'
  BY <1>1, <1>2, <1>4, <1>7, <1>8, <1>9, <1>10 DEF BotOwes, n
<1> QED BY <1>5, <1>6, <1>11 DEF BotInv

\* A block adds to the seat what the transaction was owed for, or seats the bot with one
\* buy-in.
LEMMA ExecuteKeepsBot == ASSUME BotInv, Execute PROVE BotInv'
<1>0. /\ BotTypes /\ seat \in SeatType /\ rebuy \in RebuyType /\ seat.stack \in Nat
      /\ pending' = "none" /\ UNCHANGED <<bot, poll>>
      /\ seat' = IF CanExecute THEN After ELSE seat
  BY Zenon DEF BotInv, BotTypes, SeatType, Execute
<1> DEFINE ran == rebuy.tries > 0 /\ CanExecute
           more == seat.stack + 1
<1>1. ran \in BOOLEAN /\ rebuy' = [rebuy EXCEPT !.ran = ran] /\ more \in Nat
  BY <1>0 DEF Execute
<1>a. After = IF pending = "rebuy" THEN [seat EXCEPT !.stack = more]
              ELSE IF pending = "leave" THEN [seat EXCEPT !.in = FALSE, !.stack = 0]
              ELSE [seat EXCEPT !.in = TRUE, !.stack = 1]
  BY DEF After
<1> HIDE DEF ran, more
<1>2. /\ rebuy' \in RebuyType /\ rebuy'.by = rebuy.by /\ rebuy'.at = rebuy.at
      /\ rebuy'.tries = rebuy.tries
  BY Zenon, <1>0, <1>1 DEF RebuyType
<1>b. /\ [seat EXCEPT !.stack = more] \in SeatType
      /\ [seat EXCEPT !.stack = more].stack = more
  BY Zenon, <1>0, <1>1 DEF SeatType
<1>c. ASSUME NEW in \in BOOLEAN, NEW stack \in Nat
      PROVE  /\ [seat EXCEPT !.in = in, !.stack = stack] \in SeatType
             /\ [seat EXCEPT !.in = in, !.stack = stack].stack = stack
  BY Zenon, <1>0 DEF SeatType
<1>3. /\ After \in SeatType
      /\ After.stack = IF pending = "rebuy" THEN more ELSE IF pending = "leave" THEN 0 ELSE 1
  <2>1. 0 \in Nat /\ 1 \in Nat
    OBVIOUS
  <2> QED BY Zenon, <1>a, <1>b, <1>c, <2>1
<1>4. seat' \in SeatType /\ (seat'.stack = seat.stack \/ seat'.stack = After.stack)
  BY Zenon, <1>0, <1>3
<1>5. Owed' = seat'.stack
  <2>1. seat'.stack \in Nat
    BY Zenon, <1>4 DEF SeatType
  <2> QED BY <1>0, <2>1 DEF Owed
<1>6. Owed' <= Owed \/ Owed' <= 1
  BY <1>0, <1>3, <1>4, <1>5 DEF Owed, more
<1> QED BY <1>0, <1>2, <1>4, <1>6, ChainKeepsBot

\* Start, the rebuy and its fallback keep to their turn, and only a try of pokerRebuy
\* adds chips to a seat that has some (ensureSeated, the rebuy timer).
LEMMA RebuyKeepsBot == ASSUME BotInv, RebuyStep PROVE BotInv'
<1>0. bot \in BotType /\ rebuy \in RebuyType
  BY Zenon DEF BotInv, BotTypes
<1>r. rebuy.at # "none" => rebuy.by # "none"
  BY Zenon DEF BotInv, BotTurns
<1>m. ASSUME NEW known \in BOOLEAN
      PROVE  /\ [bot EXCEPT !.mySeat = known] \in BotType
             /\ [bot EXCEPT !.mySeat = known].timer = bot.timer
             /\ [bot EXCEPT !.mySeat = known].rebuyPending = bot.rebuyPending
  BY <1>0 DEF BotType
<1>g. ASSUME rebuy.by # "none", UNCHANGED <<poll, seat, pending>>, RebuyGivesUp PROVE BotInv'
  <2>1. bot' \in BotType
    BY Zenon, <1>0, <1>g DEF BotType, RebuyGivesUp
  <2> QED BY <1>g, <2>1, SeatingKeepsBot DEF RebuyGivesUp
<1>s. {"leave", "seat: read", "seat: sit", "seated", "seat: failed"} \subseteq Stages \ {"timer", "rebuy"}
  BY DEF Stages
<1>1. CASE ensureSeatedRead
  BY Zenon, <1>1, <1>0, <1>r, <1>m, <1>s, SeatingKeepsBot DEF ensureSeatedRead
<1>2. CASE ensureSeatedSit
  BY Zenon, <1>2, <1>0, <1>r, <1>m, <1>s, SeatingKeepsBot DEF ensureSeatedSit
<1>3. CASE StartDone
  <2>1. bot' \in BotType
    BY Zenon, <1>3, <1>0 DEF StartDone, BotType
  <2> QED BY Zenon, <1>3, <2>1, SeatingKeepsBot DEF StartDone
<1>4. CASE RebuyFires
  <2>1. /\ rebuy.at = "timer" /\ rebuy.by # "none" /\ UNCHANGED <<bot, poll, seat, pending>>
        /\ rebuy' = [by |-> rebuy.by, at |-> "rebuy", tries |-> 0, ran |-> FALSE]
    BY Zenon, <1>4, <1>r DEF RebuyFires, MovesOn
  <2>2. /\ rebuy' \in RebuyType /\ rebuy'.by = rebuy.by /\ rebuy'.at = "rebuy"
        /\ rebuy'.tries = 0
    BY Zenon, <1>0, <2>1 DEF RebuyType, Stages
  <2>3. poll.at = "none"
    BY Zenon, <1>0, <2>1 DEF BotInv, BotTurns, RebuyType
  <2>4. Owed' = Owed /\ Owed <= 1 /\ Owed <= 3
    BY Zenon, <2>1 DEF BotInv, BotOwes, Owed
  <2>5. BotOwes'
    BY <2>1, <2>2, <2>3, <2>4 DEF BotOwes, SawEmpty
  <2> QED BY Zenon, <2>1, <2>2, <2>5 DEF BotInv, BotTypes, BotTurns
<1>5. CASE pokerRebuy
  BY Zenon, <1>5, <1>0, <1>r, <1>g, <1>s, SeatingKeepsBot DEF pokerRebuy
<1>6. CASE pokerLeave
  BY Zenon, <1>6, <1>0, <1>r, <1>m, <1>g, <1>s, SeatingKeepsBot DEF pokerLeave
<1>7. CASE FallbackDone
  BY Zenon, <1>7, <1>g DEF FallbackDone
<1> QED BY <1>1, <1>2, <1>3, <1>4, <1>5, <1>6, <1>7, NodeTakesKeepsBot DEF RebuyStep

\* Hands that start and end at the table bring no chips, and a stopped bot has no timers.
LEMMA BotNextOk == ASSUME BotInv, [BotNext]_botVars PROVE BotInv'
<1>0. BotTypes /\ seat \in SeatType /\ seat.stack \in Nat /\ rebuy \in RebuyType
  BY Zenon DEF BotInv, BotTypes, SeatType
<1>t. ASSUME seat' \in SeatType, seat'.stack \in {0, seat.stack},
             UNCHANGED <<bot, poll, rebuy, pending>>
      PROVE  BotInv'
  <2>1. Owed' <= Owed
    BY <1>0, <1>t DEF Owed
  <2>2. pending' \in Sending \cup {"none"}
    BY Zenon, <1>0, <1>t DEF BotTypes
  <2> QED BY Zenon, <1>0, <1>t, <2>1, <2>2, ChainKeepsBot
<1>1. CASE TableHandStarts
  <2> DEFINE dealt == seat.stack > 0
  <2>0. dealt \in BOOLEAN /\ seat' = [seat EXCEPT !.hand = TRUE, !.dealt = dealt]
    BY <1>1, <1>0 DEF TableHandStarts
  <2> HIDE DEF dealt
  <2>1. seat' \in SeatType /\ seat'.stack = seat.stack
    BY Zenon, <1>0, <2>0 DEF SeatType
  <2> QED BY Zenon, <1>1, <2>1, <1>t DEF TableHandStarts
<1>2. ASSUME NEW lost \in BOOLEAN, TableHandEnds(lost) PROVE BotInv'
  <2>1. seat' \in SeatType /\ seat'.stack \in {0, seat.stack}
    BY Zenon, <1>2, <1>0 DEF SeatType, TableHandEnds
  <2> QED BY Zenon, <1>2, <2>1, <1>t DEF TableHandEnds
<1>3. CASE stopBot
  <2>1. bot' \in BotType /\ ~bot'.timer /\ bot'.rebuyPending = bot.rebuyPending
    BY Zenon, <1>3 DEF BotInv, BotTypes, BotType, stopBot
  <2>2. /\ UNCHANGED <<poll, seat, pending>>
        /\ rebuy' = rebuy \/ (rebuy' = Resting /\ rebuy.at = "timer")
    BY Zenon, <1>3 DEF stopBot
  <2>3. CASE rebuy' = rebuy
    BY Zenon, <2>1, <2>2, <2>3 DEF BotInv, BotTypes, BotTurns, BotOwes, Owed, SawEmpty
  <2>4. CASE rebuy' = Resting /\ rebuy.at = "timer"
    <3>1. rebuy.by # "none"
      BY Zenon, <2>4 DEF BotInv, BotTurns
    <3> QED BY Zenon, <2>1, <2>2, <2>4, <3>1, SeatingKeepsBot
  <2> QED BY <2>2, <2>3, <2>4
<1>4. CASE UNCHANGED botVars
  BY Zenon, <1>4 DEF BotInv, BotTypes, BotTurns, BotOwes, Owed, SawEmpty, botVars
<1> QED BY <1>1, <1>2, <1>3, <1>4, PollKeepsBot, RebuyKeepsBot, ExecuteKeepsBot DEF BotNext

\* Beside a poll, a rebuy and its fallback of any length, whatever transactions run late
\* or twice, the bot makes one call at a time and never has more than three buy-ins at
\* the table (pollLoop, ensureSeated, signAndBroadcastAuto).
THEOREM BotAlwaysSpendsWithinBounds == BotSpec => []BotSpendingIsBounded
<1>1. ASSUME BotInv PROVE BotSpendingIsBounded
  <2>1. OneCallAtATime
    BY Zenon, <1>1 DEF BotInv, BotTypes, BotTurns, RebuyType, OneCallAtATime, Sending
  <2>2. Owed <= 3 /\ Owed \in Nat /\ seat.stack \in Nat /\ seat.stack <= Owed
    BY <1>1, OwedNat DEF BotInv, BotOwes
  <2>3. ThreeBuyInsPerBust
    BY <2>2 DEF ThreeBuyInsPerBust
  <2> QED BY <2>1, <2>3 DEF BotSpendingIsBounded
<1> QED BY <1>1, BotInitOk, BotNextOk, PTL DEF BotSpec

-----------------------------------------------------------------------------
(* The SDK's transactions. *)

Untried == {"start", "simulate again", "sign", "send"}
Tried == {"wait", "sign again", "send again"}
Ended == {"wait again", "done", "failed"}
CallType == [at : Untried \cup Tried \cup Ended, sequence : Nat, overtaken : BOOLEAN]

TxTypes ==
    /\ calls \in [Calls -> CallType]
    /\ account \in Nat /\ mempool \in Seq(Calls) /\ executed \in Seq(Calls)

\* Every transaction that was admitted, oldest first, in a block or not, and which are c's.
Admitted(i) == IF i <= Len(executed) THEN executed[i] ELSE mempool[i - Len(executed)]
Places(c) == {i \in 1 .. Len(executed) + Len(mempool) : Admitted(i) = c}

\* A call has nothing admitted before its first broadcast, at most one transaction before
\* the second, and a second one only if the first was in a block when it was signed: the
\* signature's sequence is then that of a block after it.
CallOk(c) ==
    /\ calls[c].at \in Untried => Places(c) = {}
    /\ calls[c].at \in Tried => Cardinality(Places(c)) <= 1
    /\ Cardinality(Places(c)) <= 2
    /\ ~calls[c].overtaken => Cardinality(Places(c)) <= 1
    /\ calls[c].at \in {"send", "send again"} => calls[c].sequence <= account
    /\ (calls[c].at = "send again" /\ ~calls[c].overtaken /\ calls[c].sequence = account) =>
         \A i \in Places(c) : i > Len(executed)
    /\ calls[c].at = "done" => \E i \in Places(c) : i <= Len(executed)

TxInv == TxTypes /\ \A c \in Calls : CallOk(c)

\* The transactions of a call in blocks are among those that were admitted (Times).
LEMMA TimesIn ==
  ASSUME TxTypes, NEW c \in Calls
  PROVE  /\ IsFiniteSet(Places(c)) /\ Cardinality(Places(c)) \in Nat
         /\ Times(c) \in Nat /\ Times(c) <= Cardinality(Places(c))
         /\ Times(c) > 0 <=> \E i \in Places(c) : i <= Len(executed)
         /\ Places(c) = {} => Cardinality(Places(c)) <= 1
         /\ Cardinality(Places(c)) <= 1 => Cardinality(Places(c)) <= 2
<1> DEFINE n == Len(executed) + Len(mempool)
           done == {i \in DOMAIN executed : executed[i] = c}
<1>1. Len(executed) \in Nat /\ Len(mempool) \in Nat /\ DOMAIN executed = 1 .. Len(executed)
  BY DEF TxTypes
<1>2. IsFiniteSet(1 .. n)
  BY <1>1, IntervalFinite
<1>3. Places(c) \subseteq 1 .. n
  BY DEF Places
<1>4. IsFiniteSet(Places(c))
  BY <1>2, <1>3, FS_Subset
<1>5. done = {i \in Places(c) : i <= Len(executed)}
  BY <1>1 DEF Places, Admitted
<1>6. done \subseteq Places(c)
  BY <1>5
<1>7. IsFiniteSet(done) /\ Cardinality(done) <= Cardinality(Places(c))
  BY <1>4, <1>6, FS_Subset
<1>8. Cardinality(done) \in Nat /\ Cardinality(Places(c)) \in Nat
  BY <1>4, <1>7, FS_CardinalityType
<1>9. Cardinality(done) = 0 <=> done = {}
  BY <1>7, FS_EmptySet
<1>10. Times(c) = Cardinality(done)
  BY DEF Times
<1> HIDE DEF done
<1>11. Cardinality(done) > 0 <=> done # {}
  BY <1>8, <1>9
<1>12. done # {} <=> \E i \in Places(c) : i <= Len(executed)
  BY <1>5
<1>13. Places(c) = {} => Cardinality(Places(c)) <= 1
  <2>1. Places(c) = {} => Cardinality(Places(c)) = 0
    BY <1>4, FS_EmptySet
  <2> QED BY <2>1
<1> QED BY <1>4, <1>7, <1>8, <1>10, <1>11, <1>12, <1>13

\* Where a call is, after it goes on.
LEMMA GoesTo ==
  ASSUME TxTypes, NEW c \in Calls, NEW at \in Untried \cup Tried \cup Ended, Goes(c, at)
  PROVE  /\ calls' \in [Calls -> CallType]
         /\ calls'[c].at = at /\ calls'[c].sequence = calls[c].sequence
         /\ calls'[c].overtaken = calls[c].overtaken
         /\ \A d \in Calls \ {c} : calls'[d] = calls[d]
<1>1. calls[c] \in CallType /\ calls \in [Calls -> CallType]
  BY DEF TxTypes
<1>2. calls' = [calls EXCEPT ![c] = [calls[c] EXCEPT !.at = at]]
  BY DEF Goes
<1>3. [calls[c] EXCEPT !.at = at] \in CallType
  BY <1>1 DEF CallType
<1>4. calls'[c] = [calls[c] EXCEPT !.at = at]
  BY <1>1, <1>2
<1>5. calls'[c].at = at /\ calls'[c].sequence = calls[c].sequence
  BY <1>1, <1>4 DEF CallType
<1>6. calls'[c].overtaken = calls[c].overtaken
  BY <1>1, <1>4 DEF CallType
<1> QED BY <1>1, <1>2, <1>3, <1>5, <1>6

\* A call that has not changed is as it was while the node does nothing.
LEMMA OthersKeep ==
  ASSUME NEW c \in Calls, CallOk(c), UNCHANGED <<account, mempool, executed>>,
         calls'[c] = calls[c]
  PROVE  CallOk(c)'
BY Zenon DEF CallOk, Places, Admitted

\* A call that goes on without a new transaction, backwards only before its second
\* signature (simulate, the failures of Broadcast, waitForDeliverTx).
LEMMA GoingKeeps ==
  ASSUME TxInv, NEW c \in Calls, NEW at \in (Untried \cup Tried \cup Ended) \ {"send", "send again"},
         Goes(c, at), UNCHANGED <<account, mempool, executed>>,
         at \in Untried => calls[c].at \in Untried,
         at \in Tried => calls[c].at \in Untried \cup Tried,
         at = "done" => Times(c) > 0
  PROVE  TxInv'
<1>1. /\ TxTypes'
      /\ calls'[c].at = at /\ calls'[c].overtaken = calls[c].overtaken
      /\ \A d \in Calls \ {c} : calls'[d] = calls[d]
  BY Zenon, GoesTo DEF TxInv, TxTypes
<1>2. \A d \in Calls \ {c} : CallOk(d)'
  BY Zenon, <1>1, OthersKeep DEF TxInv
<1>3. Places(c)' = Places(c)
  BY Zenon DEF Places, Admitted
<1>4. CallOk(c)
  BY Zenon DEF TxInv
<1>5. Cardinality(Places(c)) \in Nat /\ (Times(c) > 0 <=> \E i \in Places(c) : i <= Len(executed))
  BY Zenon, TimesIn DEF TxInv
<1>6. Places(c) = {} => Cardinality(Places(c)) <= 1
  BY Zenon, TimesIn DEF TxInv
<1>7. CallOk(c)'
  BY Zenon, <1>1, <1>3, <1>4, <1>5, <1>6 DEF CallOk, Untried, Tried
<1> QED BY Zenon, <1>1, <1>2, <1>7 DEF TxInv

\* A signature takes the sequence of the last block, and knows whether the call's first
\* transaction is in it (Sign).
LEMMA SignKeeps == ASSUME TxInv, NEW c \in Calls, Sign(c) PROVE TxInv'
<1> DEFINE at == IF calls[c].at = "sign" THEN "send" ELSE "send again"
           overtaken == Times(c) > 0
           signed == [calls[c] EXCEPT !.at = at, !.sequence = account, !.overtaken = overtaken]
<1>1. calls[c] \in CallType /\ calls \in [Calls -> CallType] /\ account \in Nat /\ Len(executed) \in Nat
  BY DEF TxInv, TxTypes
<1>2. calls' = [calls EXCEPT ![c] = signed] /\ UNCHANGED <<account, mempool, executed>>
  BY Zenon DEF Sign, SequenceFor
<1>3. at \in {"send", "send again"} /\ overtaken \in BOOLEAN
  OBVIOUS
<1>4. at = "send" => calls[c].at \in Untried
  BY Zenon DEF Untried
<1>5. at = "send again" => calls[c].at \in Tried
  BY Zenon DEF Sign, Tried
<1>6. CallOk(c)
  BY DEF TxInv
<1>7. Cardinality(Places(c)) \in Nat /\ (overtaken <=> \E i \in Places(c) : i <= Len(executed))
  BY TimesIn DEF TxInv
<1> HIDE DEF at, overtaken
<1>8. signed \in CallType /\ signed.at = at /\ signed.sequence = account /\ signed.overtaken = overtaken
  BY Zenon, <1>1, <1>3 DEF CallType, Untried, Tried
<1> HIDE DEF signed
<1>9. calls'[c] = signed /\ TxTypes' /\ \A d \in Calls \ {c} : calls'[d] = calls[d]
  BY <1>1, <1>2, <1>8 DEF TxInv, TxTypes
<1>10. \A d \in Calls \ {c} : CallOk(d)'
  BY <1>2, <1>9, OthersKeep DEF TxInv
<1>11. Places(c)' = Places(c)
  BY <1>2 DEF Places, Admitted
<1>12. at = "send" => Places(c) = {}
  BY Zenon, <1>4, <1>6 DEF CallOk
<1>13. Cardinality(Places(c)) <= 1
  <2>2. CASE Places(c) = {}
    BY Zenon, <2>2, TimesIn DEF TxInv
  <2>3. CASE at = "send again"
    BY Zenon, <1>5, <1>6, <2>3 DEF CallOk
  <2> QED BY Zenon, <1>3, <1>12, <2>2, <2>3
<1>14. ~overtaken => \A i \in Places(c) : i > Len(executed)
  <2>1. \A i \in Places(c) : i \in Int
    BY DEF Places
  <2> QED BY <1>1, <1>7, <2>1
<1>15. CallOk(c)'
  <2>1. calls'[c].at = at /\ calls'[c].sequence = account /\ calls'[c].overtaken = overtaken
    BY <1>8, <1>9
  <2>2. account <= account
    BY <1>1
  <2>3. Cardinality(Places(c)) <= 2
    BY <1>7, <1>13
  <2> QED BY Zenon, <1>2, <1>3, <1>11, <1>12, <1>13, <1>14, <2>1, <2>2,
             <2>3 DEF CallOk, Untried, Tried
<1> QED BY <1>9, <1>10, <1>15 DEF TxInv

\* An admitted transaction is the newest of its call, and the others stay where they are.
LEMMA AppendPlaces ==
  ASSUME TxTypes, NEW c \in Calls, mempool' = Append(mempool, c), UNCHANGED executed
  PROVE  /\ mempool' \in Seq(Calls)
         /\ \A d \in Calls \ {c} : Places(d)' = Places(d)
         /\ Cardinality(Places(c)) <= 1 => Cardinality(Places(c)') <= 2
         /\ Places(c) = {} => Cardinality(Places(c)') <= 1
<1>1. /\ mempool \in Seq(Calls) /\ executed \in Seq(Calls)
      /\ Len(executed) \in Nat /\ Len(mempool) \in Nat
  BY DEF TxTypes
<1>2. /\ mempool' \in Seq(Calls) /\ Len(mempool') = Len(mempool) + 1
      /\ \A i \in 1 .. Len(mempool) : mempool'[i] = mempool[i]
      /\ mempool'[Len(mempool) + 1] = c
  BY <1>1
<1>n. PICK n \in Nat : n = Len(executed) + Len(mempool)
  BY <1>1
<1>3. n \in Nat /\ Len(executed') + Len(mempool') = n + 1
  BY <1>1, <1>2, <1>n
<1>4. ASSUME NEW i \in 1 .. n PROVE Admitted(i)' = Admitted(i)
  BY <1>1, <1>2, <1>n DEF Admitted
<1>5. Admitted(n + 1)' = c
  <2>1. ~(n + 1 <= Len(executed)) /\ n + 1 - Len(executed) = Len(mempool) + 1
    BY <1>1, <1>n
  <2>2. Admitted(n + 1)' = mempool'[n + 1 - Len(executed)]
    BY <2>1 DEF Admitted
  <2> QED BY <1>2, <2>1, <2>2
<1>6. \A d : Places(d) = {i \in 1 .. n : Admitted(i) = d}
  BY <1>n DEF Places
<1>7. \A d : Places(d)' = {i \in 1 .. n + 1 : Admitted(i)' = d}
  BY <1>3 DEF Places
<1>a. 1 .. n + 1 = (1 .. n) \cup {n + 1}
  BY <1>3
<1>8. ASSUME NEW d \in Calls \ {c} PROVE Places(d)' = Places(d)
  BY <1>4, <1>5, <1>6, <1>7, <1>a, Zenon
<1>9. Places(c)' = Places(c) \cup {n + 1}
  BY <1>4, <1>5, <1>6, <1>7, <1>a, Zenon
<1>10. n + 1 \notin Places(c)
  BY <1>3, <1>6
<1>11. IsFiniteSet(Places(c)) /\ Cardinality(Places(c)) \in Nat
  BY TimesIn
<1>12. Cardinality(Places(c)') = Cardinality(Places(c)) + 1
  BY Zenon, <1>9, <1>10, <1>11, FS_AddElement
<1>13. Places(c) = {} => Cardinality(Places(c)) = 0
  BY <1>11, FS_EmptySet
<1> QED BY <1>2, <1>8, <1>11, <1>12, <1>13

\* A sequence that is not ahead of the last block is admitted to an empty mempool only,
\* and then all that was admitted is in blocks (Admits).
LEMMA AdmitsToEmpty ==
  ASSUME TxTypes, NEW sequence \in Nat, sequence <= account, Admits(sequence)
  PROVE  /\ sequence = account
         /\ \A c \in Calls : (\A i \in Places(c) : i > Len(executed)) => Places(c) = {}
<1>1. Len(executed) \in Nat /\ Len(mempool) \in Nat /\ account \in Nat
  BY DEF TxTypes
<1>2. Len(mempool) = 0 /\ sequence = account
  BY <1>1 DEF Admits
<1>3. \A c \in Calls : \A i \in Places(c) : i \in Int /\ i <= Len(executed)
  BY <1>1, <1>2 DEF Places
<1> QED BY <1>1, <1>2, <1>3

\* The node admits a transaction only with the sequence that follows its mempool, and
\* no signature is ahead of the last block: the mempool is empty and a first transaction
\* is either in a block that the signature knew, or gone (Broadcast).
LEMMA AdmittedKeeps ==
  ASSUME TxInv, NEW c \in Calls, NEW at \in {"wait", "wait again", "sign again", "failed"},
         calls[c].at \in {"send", "send again"},
         calls[c].at = "send again" => at \in {"wait again", "failed"},
         Admits(calls[c].sequence), mempool' = Append(mempool, c), Goes(c, at),
         UNCHANGED <<account, executed>>
  PROVE  TxInv'
<1>1. CallOk(c) /\ TxTypes /\ calls[c] \in CallType
  BY Zenon DEF TxInv, TxTypes
<1>2. calls[c].sequence \in Nat
  BY Zenon, <1>1 DEF CallType
<1>3. /\ calls' \in [Calls -> CallType] /\ calls'[c].at = at
      /\ calls'[c].overtaken = calls[c].overtaken /\ \A d \in Calls \ {c} : calls'[d] = calls[d]
  BY Zenon, <1>1, GoesTo DEF Untried, Tried, Ended
<1>4. /\ mempool' \in Seq(Calls)
      /\ \A d \in Calls \ {c} : Places(d)' = Places(d)
      /\ Cardinality(Places(c)) <= 1 => Cardinality(Places(c)') <= 2
      /\ Places(c) = {} => Cardinality(Places(c)') <= 1
  BY Zenon, <1>1, AppendPlaces
<1>5. TxTypes'
  BY Zenon, <1>1, <1>3, <1>4 DEF TxTypes
<1>6. ASSUME NEW d \in Calls \ {c} PROVE CallOk(d)'
  BY Zenon, <1>3, <1>4 DEF TxInv, CallOk
<1>7. /\ calls[c].sequence = account
      /\ (\A i \in Places(c) : i > Len(executed)) => Places(c) = {}
  BY Zenon, <1>1, <1>2, AdmitsToEmpty DEF CallOk
<1>8. calls[c].at = "send" => Places(c) = {}
  BY Zenon, <1>1 DEF CallOk, Untried
<1>9. ~calls[c].overtaken => Places(c) = {}
  BY Zenon, <1>1, <1>7, <1>8 DEF CallOk
<1>10. Cardinality(Places(c)) <= 1
  <2>1. CASE Places(c) = {}
    BY Zenon, <1>1, <2>1, TimesIn
  <2>2. CASE calls[c].at = "send again"
    BY Zenon, <1>1, <2>2 DEF CallOk, Tried
  <2> QED BY Zenon, <1>8, <2>1, <2>2
<1>11. CallOk(c)'
  BY Zenon, <1>3, <1>4, <1>8, <1>9, <1>10 DEF CallOk, Untried, Tried
<1> QED BY Zenon, <1>5, <1>6, <1>11 DEF TxInv

\* A block takes the oldest transaction of the mempool; none is lost or repeated (Commit).
LEMMA CommitKeepsTx == ASSUME TxInv, Commit PROVE TxInv'
<1>1. /\ mempool \in Seq(Calls) /\ executed \in Seq(Calls) /\ account \in Nat
      /\ Len(executed) \in Nat /\ Len(mempool) \in Nat \ {0}
  BY DEF TxInv, TxTypes, Commit
<1>2. /\ mempool' \in Seq(Calls) /\ Len(mempool') = Len(mempool) - 1
      /\ \A i \in 1 .. Len(mempool) - 1 : mempool'[i] = mempool[i + 1]
      /\ Head(mempool) = mempool[1] /\ mempool[1] \in Calls
  BY <1>1 DEF Commit
<1>3. /\ executed' \in Seq(Calls) /\ Len(executed') = Len(executed) + 1
      /\ \A i \in 1 .. Len(executed) : executed'[i] = executed[i]
      /\ executed'[Len(executed) + 1] = mempool[1]
  BY <1>1, <1>2 DEF Commit
<1>4. TxTypes'
  BY <1>1, <1>2, <1>3 DEF TxInv, TxTypes, Commit
<1>5. ASSUME NEW i \in 1 .. Len(executed) + Len(mempool) PROVE Admitted(i)' = Admitted(i)
  <2>1. CASE i <= Len(executed)
    BY <1>1, <1>3, <2>1 DEF Admitted
  <2>2. CASE i = Len(executed) + 1
    BY <1>1, <1>3, <2>2 DEF Admitted
  <2>3. CASE i > Len(executed) + 1
    <3>1. mempool'[i - Len(executed) - 1] = mempool[i - Len(executed)]
      BY <1>1, <1>2, <2>3
    <3>2. Admitted(i)' = mempool'[i - (Len(executed) + 1)]
      BY <1>1, <1>3, <2>3 DEF Admitted
    <3>3. i - (Len(executed) + 1) = i - Len(executed) - 1
      BY <1>1
    <3> QED BY <1>1, <2>3, <3>1, <3>2, <3>3 DEF Admitted
  <2> QED BY <1>1, <2>1, <2>2, <2>3
<1>6. Len(executed') + Len(mempool') = Len(executed) + Len(mempool)
  BY <1>1, <1>2, <1>3
<1>7. ASSUME NEW c \in Calls PROVE CallOk(c)'
  <2>1. Places(c)' = Places(c)
    BY <1>5, <1>6 DEF Places
  <2>2. calls[c].sequence \in Nat /\ calls'[c] = calls[c] /\ account' = account + 1
    BY DEF TxInv, TxTypes, CallType, Commit
  <2>3. CallOk(c)
    BY DEF TxInv
  <2>4. /\ calls[c].sequence <= account => calls[c].sequence <= account'
        /\ calls[c].sequence <= account => calls[c].sequence # account'
    BY <1>1, <2>2
  <2>5. \A i \in Places(c) : i <= Len(executed) => i <= Len(executed')
    BY <1>1, <1>3 DEF Places
  <2> QED BY Zenon, <2>1, <2>2, <2>3, <2>4, <2>5 DEF CallOk
<1> QED BY <1>4, <1>7 DEF TxInv

\* No call has sent anything at first.
LEMMA TxInitOk == TxInit => TxInv
<1> SUFFICES ASSUME TxInit PROVE TxInv OBVIOUS
<1>1. TxTypes
  BY DEF TxInit, TxTypes, CallType, Untried
<1>2. ASSUME NEW c \in Calls PROVE CallOk(c)
  <2>1. Places(c) = {}
    BY DEF TxInit, Places
  <2>2. Cardinality(Places(c)) = 0
    BY <2>1, FS_EmptySet
  <2>3. Cardinality(Places(c)) <= 1 /\ Cardinality(Places(c)) <= 2
    BY <2>2
  <2>4. calls[c].at = "start"
    BY DEF TxInit
  <2> QED BY <2>1, <2>3, <2>4 DEF CallOk
<1> QED BY <1>1, <1>2 DEF TxInv

\* Every step of a call, and every block.
LEMMA TxNextOk == ASSUME TxInv, [TxNext]_txVars PROVE TxInv'
<1>1. ASSUME NEW c \in Calls, simulate(c) PROVE TxInv'
  BY Zenon, <1>1, GoingKeeps DEF simulate, Untried, Tried, Ended
<1>2. ASSUME NEW c \in Calls, Broadcast(c) PROVE TxInv'
  <2> DEFINE from == calls[c].at
             next == IF from = "send" THEN "wait" ELSE "wait again"
  <2>1. from \in {"send", "send again"} /\ UNCHANGED <<account, executed>>
    BY Zenon, <1>2 DEF Broadcast
  <2>2. /\ AfterError(from) \in {"sign again", "failed"}
        /\ from = "send again" => AfterError(from) = "failed"
    BY Zenon, <2>1 DEF AfterError
  <2>3. /\ next \in {"wait", "wait again"}
        /\ from = "send again" => next = "wait again"
    BY Zenon
  <2> HIDE DEF next
  <2>4. CASE /\ Admits(calls[c].sequence) /\ mempool' = Append(mempool, c)
             /\ Goes(c, next) \/ Goes(c, AfterError(from))
    BY Zenon, <2>1, <2>2, <2>3, <2>4, AdmittedKeeps
  <2>5. CASE UNCHANGED mempool /\ (Goes(c, "failed") \/ Goes(c, AfterError(from)))
    BY Zenon, <2>1, <2>2, <2>5, GoingKeeps DEF Untried, Tried, Ended
  <2> QED BY Zenon, <1>2, <2>4, <2>5 DEF Broadcast, next
<1>3. ASSUME NEW c \in Calls, waitForDeliverTx(c) PROVE TxInv'
  <2>1. calls[c].at \in {"wait", "wait again"} /\ UNCHANGED <<account, mempool, executed>>
    BY Zenon, <1>3 DEF waitForDeliverTx
  <2>2. CASE WaitEnds(c) /\ Goes(c, "done")
    BY Zenon, <2>1, <2>2, GoingKeeps DEF WaitEnds, Untried, Tried, Ended
  <2>3. CASE Goes(c, "failed")
    BY Zenon, <2>1, <2>3, GoingKeeps DEF Untried, Tried, Ended
  <2>4. CASE Goes(c, AfterError(calls[c].at))
    <3>1. /\ calls[c].at = "wait" => AfterError(calls[c].at) = "sign again"
          /\ calls[c].at = "wait again" => AfterError(calls[c].at) = "failed"
      BY Zenon DEF AfterError
    <3> QED BY Zenon, <2>1, <2>4, <3>1, GoingKeeps DEF Untried, Tried, Ended
  <2> QED BY Zenon, <1>3, <2>2, <2>3, <2>4 DEF waitForDeliverTx
<1>4. CASE UNCHANGED txVars
  <2>1. TxTypes' /\ UNCHANGED <<calls, account, mempool, executed>>
    BY <1>4 DEF TxInv, TxTypes, txVars
  <2>2. ASSUME NEW c \in Calls PROVE CallOk(c)'
    BY <2>1, OthersKeep DEF TxInv
  <2> QED BY <2>1, <2>2 DEF TxInv
<1> QED BY <1>1, <1>2, <1>3, <1>4, SignKeeps, CommitKeepsTx DEF TxNext

\* For any number of calls and socket errors: a call is executed a second time only if
\* its first transaction was in a block when the retry was signed, never a third time,
\* and its caller hears of success only if it was executed (signAndBroadcastAuto).
THEOREM CallsRunAtMostTwice == TxSpec => []CallRunsAtMostTwice
<1>1. ASSUME TxInv PROVE CallRunsAtMostTwice
  <2>1. ASSUME NEW c \in Calls
        PROVE  /\ Times(c) > 1 => calls[c].overtaken
               /\ Times(c) <= 2
               /\ calls[c].at = "done" => Times(c) > 0
    <3>1. CallOk(c)
      BY <1>1 DEF TxInv
    <3>2. /\ Cardinality(Places(c)) \in Nat /\ Times(c) \in Nat
          /\ Times(c) <= Cardinality(Places(c))
          /\ Times(c) > 0 <=> \E i \in Places(c) : i <= Len(executed)
      BY <1>1, TimesIn DEF TxInv
    <3>3. /\ Cardinality(Places(c)) <= 2 /\ (~calls[c].overtaken => Cardinality(Places(c)) <= 1)
          /\ calls[c].at = "done" => Times(c) > 0
      BY Zenon, <3>1, <3>2 DEF CallOk
    <3>4. Times(c) <= 2
      BY <3>2, <3>3
    <3>5. Times(c) > 1 => calls[c].overtaken
      BY <3>2, <3>3
    <3> QED BY <3>3, <3>4, <3>5
  <2> QED BY <2>1 DEF CallRunsAtMostTwice, SequenceStopsEarlyRetry, ResultIsOnChain
<1> QED BY <1>1, TxInitOk, TxNextOk, PTL DEF TxSpec

-----------------------------------------------------------------------------
(* The player's page. *)

KeyType ==
    [stored : {"none", "plain", "encrypted"}, state : {"none", "locked", "unlocked"},
     sk : BOOLEAN, isKeyEncrypted : BOOLEAN, armed : BOOLEAN, inHand : BOOLEAN,
     effects : BOOLEAN, fresh : BOOLEAN]

KeyInv ==
    /\ keys \in KeyType
    /\ keys.state = "locked" => ~keys.sk
    /\ UnlockedKeyWillLock

CheckType ==
    [coordinator : Views \cup {0}, player : Views \cup {0},
     status : {"idle", "verified", "mismatch", "pending"}, failures : Nat,
     retry : BOOLEAN, effects : BOOLEAN]

\* A retry is pending only for two tables that are there and differ.
CheckInv ==
    /\ check \in CheckType
    /\ BadgeMatchesTables
    /\ (~check.effects /\ check.retry) =>
         check.coordinator # check.player /\ 0 \notin {check.coordinator, check.player}

EventType ==
    [hand : Nat, name : {"HandFolded", "HoleCardRevealed", "PotAwarded", "HandCompleted"}]

EntryType ==
    [hand : Nat, winners : BOOLEAN, revealedCards : BOOLEAN,
     completed : {"not", "folded", "showdown"}]

PlayType == [chain : Nat, last : Nat, shown : Nat]

CaptureType ==
    [queue : Seq(EventType), events : Seq(EventType), winners : SUBSET Nat,
     cards : SUBSET Nat, lastHand : Nat, skipped : BOOLEAN]

HandTypes ==
    /\ play \in PlayType /\ history \in Seq(EntryType) /\ capture \in CaptureType

\* What CompletedHandHasWinners and HandOnceInHistory ask, of an entry and of a list.
Tells(entry) ==
    /\ entry.completed # "not" => entry.winners
    /\ entry.completed = "showdown" => entry.revealedCards
Told(list) == \A i \in DOMAIN list : Tells(list[i])
Once(list) == \A i, j \in DOMAIN list : list[i].hand = list[j].hand => i = j

\* The events that the page has still to look at, oldest first.
AheadLen == Len(capture.events) + Len(capture.queue)
Ahead(i) == IF i <= Len(capture.events) THEN capture.events[i]
            ELSE capture.queue[i - Len(capture.events)]
Ends(event) == event.name \in {"HandFolded", "HandCompleted"}
Before(j, name) == \E i \in 1 .. j - 1 : Ahead(i).hand = Ahead(j).hand /\ Ahead(i).name = name

\* The event at j is of a hand that is over; an event of a completed showdown finds the
\* cards and the winners noted, or their events come before it; no event of its hand
\* has ended the hand before it.
AheadOk(j) ==
    /\ Ahead(j).hand <= play.last
    /\ Ahead(j).name = "HandCompleted" =>
         /\ Ahead(j).hand \in capture.winners \/ Before(j, "PotAwarded")
         /\ Ahead(j).hand \in capture.cards \/ Before(j, "HoleCardRevealed")
    /\ \A i \in 1 .. j - 1 : Ends(Ahead(i)) => Ahead(i).hand # Ahead(j).hand

\* As long as no event has overtaken another, one at most waits for its effect.
AheadInOrder == Len(capture.events) <= 1 /\ \A j \in 1 .. AheadLen : AheadOk(j)

HandInv ==
    /\ HandTypes
    /\ play.chain # NoHand => play.chain > play.last
    /\ HandOnceInHistory /\ CompletedHandHasWinners
    /\ ~capture.skipped => AheadInOrder

\* The page's own copy of the key follows what is stored, and the timer follows the page
\* (useGameState's effects, playerKeys).
LEMMA KeysKeep == ASSUME KeyInv, KeysNext PROVE KeyInv'
<1>0. keys \in KeyType
  BY DEF KeyInv
<1>1. CASE LoadKeys
  <2>1. keys'.effects /\ (keys'.state = "locked" => ~keys'.sk)
    BY <1>0, <1>1 DEF KeyType, LoadKeys, getPlayerKeysSync
  <2>2. keys' \in KeyType
    <3> DEFINE encrypted == keys.stored = "encrypted"
    <3>1. encrypted \in BOOLEAN /\ getPlayerKeysSync(keys) \in KeyType
      BY Zenon, <1>0 DEF KeyType, getPlayerKeysSync
    <3>2. keys' = [getPlayerKeysSync(keys) EXCEPT !.isKeyEncrypted = encrypted, !.effects = TRUE]
      BY <1>1 DEF LoadKeys
    <3> HIDE DEF encrypted
    <3> QED BY Zenon, <3>1, <3>2 DEF KeyType
  <2> QED BY <2>1, <2>2 DEF KeyInv, UnlockedKeyWillLock
<1>2. CASE KeyEffects
  <2> DEFINE armed == keys.state = "unlocked" /\ keys.isKeyEncrypted
  <2>1. armed \in BOOLEAN /\ keys' = [keys EXCEPT !.armed = armed, !.effects = FALSE]
    BY <1>0, <1>2 DEF KeyType, KeyEffects, resetKeyLockTimer
  <2>2. armed <=> keys.state = "unlocked" /\ keys.isKeyEncrypted
    OBVIOUS
  <2> HIDE DEF armed
  <2>3. /\ keys' \in KeyType /\ keys'.armed = armed /\ keys'.sk = keys.sk
        /\ keys'.state = keys.state /\ keys'.isKeyEncrypted = keys.isKeyEncrypted
    BY Zenon, <1>0, <2>1 DEF KeyType
  <2> QED BY <2>2, <2>3 DEF KeyInv, UnlockedKeyWillLock
<1>3. CASE Touch
  <2> DEFINE armed == keys.state = "unlocked" /\ keys.isKeyEncrypted
  <2>1. armed \in BOOLEAN /\ keys' = [keys EXCEPT !.armed = armed, !.fresh = FALSE]
    BY <1>0, <1>3 DEF KeyType, Touch, resetKeyLockTimer
  <2>2. armed <=> keys.state = "unlocked" /\ keys.isKeyEncrypted
    OBVIOUS
  <2> HIDE DEF armed
  <2>3. /\ keys' \in KeyType /\ keys'.armed = armed /\ keys'.sk = keys.sk
        /\ keys'.state = keys.state /\ keys'.isKeyEncrypted = keys.isKeyEncrypted
    BY Zenon, <1>0, <2>1 DEF KeyType
  <2> QED BY <2>2, <2>3 DEF KeyInv, UnlockedKeyWillLock
<1>4. CASE AutoLock
  <2>1. CASE keys.inHand
    <3> DEFINE armed == keys.state = "unlocked" /\ keys.isKeyEncrypted
    <3>1. armed \in BOOLEAN /\ keys' = [keys EXCEPT !.armed = armed]
      BY Zenon, <1>0, <1>4, <2>1 DEF KeyType, AutoLock, resetKeyLockTimer
    <3>2. armed <=> keys.state = "unlocked" /\ keys.isKeyEncrypted
      OBVIOUS
    <3> HIDE DEF armed
    <3>3. /\ keys' \in KeyType /\ keys'.armed = armed /\ keys'.sk = keys.sk
          /\ keys'.state = keys.state /\ keys'.isKeyEncrypted = keys.isKeyEncrypted
      BY <1>0, <3>1 DEF KeyType
    <3> QED BY <3>2, <3>3 DEF KeyInv, UnlockedKeyWillLock
  <2>2. CASE ~keys.inHand
    <3>1. keys' \in KeyType /\ keys'.effects /\ ~keys'.sk
      BY Zenon, <1>0, <1>4, <2>2 DEF KeyType, AutoLock, Locked
    <3> QED BY <3>1 DEF KeyInv, UnlockedKeyWillLock
  <2> QED BY <2>1, <2>2
<1>5. CASE doUnlock
  <2>1. keys' \in KeyType /\ keys'.effects /\ keys'.state = "unlocked"
    BY Zenon, <1>0, <1>5 DEF KeyType, doUnlock
  <2> QED BY <2>1 DEF KeyInv, UnlockedKeyWillLock
<1>6. CASE handleProtectKeys
  <2>1. keys' \in KeyType /\ keys'.fresh /\ keys'.state = keys.state /\ keys'.sk = keys.sk
    BY Zenon, <1>0, <1>6 DEF KeyType, handleProtectKeys
  <2> QED BY <2>1 DEF KeyInv, UnlockedKeyWillLock
<1> QED BY <1>1, <1>2, <1>3, <1>4, <1>5, <1>6 DEF KeysNext

\* The comparison leaves a badge that is true of the two tables, and asks for a retry
\* only for two that differ (runComparison).
LEMMA ComparisonOk ==
  ASSUME NEW c \in CheckType, check' = runComparison(c),
         (~c.effects /\ c.retry) =>
            c.failures = 0 /\ c.coordinator # c.player /\ 0 \notin {c.coordinator, c.player}
  PROVE  CheckInv'
<1>v. [c EXCEPT !.status = "verified", !.failures = 0] \in CheckType
  BY Zenon DEF CheckType
<1> DEFINE f == c.failures + 1
<1>0. f \in Nat /\ (c.failures = 0 => ~(f >= 2))
  BY DEF CheckType
<1> HIDE DEF f
<1>1. CASE 0 \in {c.coordinator, c.player}
  <2>1. check' = [c EXCEPT !.status = "idle"]
    BY <1>1 DEF runComparison
  <2>2. /\ check' \in CheckType /\ check'.status = "idle" /\ check'.retry = c.retry
        /\ check'.effects = c.effects
    BY <2>1 DEF CheckType
  <2> QED BY <1>1, <2>2 DEF CheckInv, BadgeMatchesTables
<1>2. CASE 0 \notin {c.coordinator, c.player} /\ c.coordinator = c.player
  <2>1. check' = [c EXCEPT !.status = "verified", !.failures = 0]
    BY <1>2 DEF runComparison
  <2>a. check' \in CheckType
    BY <2>1, <1>v
  <2>2. /\ check' \in CheckType /\ check'.status = "verified" /\ check'.retry = c.retry
        /\ check'.coordinator = c.coordinator /\ check'.player = c.player
        /\ check'.effects = c.effects
    BY <2>1, <2>a DEF CheckType
  <2> QED BY <1>2, <2>2 DEF CheckInv, BadgeMatchesTables
<1>3. CASE 0 \notin {c.coordinator, c.player} /\ c.coordinator # c.player /\ f >= 2
  <2>1. check' = [c EXCEPT !.status = "mismatch", !.failures = f]
    BY <1>3 DEF runComparison, f
  <2>2. /\ check' \in CheckType /\ check'.status = "mismatch" /\ check'.retry = c.retry
        /\ check'.coordinator = c.coordinator /\ check'.player = c.player
        /\ check'.effects = c.effects
    BY Zenon, <1>0, <2>1 DEF CheckType
  <2> QED BY <1>0, <1>3, <2>2 DEF CheckInv, BadgeMatchesTables
<1>4. CASE 0 \notin {c.coordinator, c.player} /\ c.coordinator # c.player /\ ~(f >= 2)
  <2>1. check' = [c EXCEPT !.status = "pending", !.failures = f, !.retry = TRUE]
    BY <1>4 DEF runComparison, f
  <2>2. /\ check' \in CheckType /\ check'.status = "pending"
        /\ check'.coordinator = c.coordinator /\ check'.player = c.player
        /\ check'.effects = c.effects
    BY Zenon, <1>0, <2>1 DEF CheckType
  <2> QED BY <1>4, <2>2 DEF CheckInv, BadgeMatchesTables
<1> QED BY <1>1, <1>2, <1>3, <1>4

\* A table that is loaded leaves the badge to the effect that follows; the effect, the
\* retry timer and a click compare the tables that are there (useChainVerification).
LEMMA CheckKeeps == ASSUME CheckInv, CheckNext PROVE CheckInv'
<1>0. check \in CheckType
  BY DEF CheckInv
<1>1. ASSUME NEW side \in {"coordinator", "player"}, NEW v \in Views \cup {0}, LoadView(side, v)
      PROVE  CheckInv'
  <2>1. check' \in CheckType /\ check'.effects
    <3>1. CASE side = "coordinator"
      BY Zenon, <1>0, <1>1, <3>1 DEF LoadView, CheckType
    <3>2. CASE side = "player"
      BY Zenon, <1>0, <1>1, <3>2 DEF LoadView, CheckType
    <3> QED BY <3>1, <3>2
  <2> QED BY <2>1 DEF CheckInv, BadgeMatchesTables
<1>2. CASE CheckEffects
  <2>1. Cleanup(check) \in CheckType /\ ~Cleanup(check).effects /\ ~Cleanup(check).retry
    BY Zenon, <1>0 DEF Cleanup, CheckType
  <2> QED BY <1>2, <2>1, ComparisonOk DEF CheckEffects
<1>3. CASE Retry
  <2> DEFINE c == [check EXCEPT !.retry = FALSE]
  <2>1. c \in CheckType /\ c.effects = check.effects /\ ~c.retry
    BY Zenon, <1>0 DEF CheckType
  <2>2. check' = runComparison(c)
    BY <1>3 DEF Retry
  <2> HIDE DEF c
  <2> QED BY <2>1, <2>2, ComparisonOk
<1>4. CASE verify
  <2> DEFINE c == [check EXCEPT !.failures = 0]
  <2>1. /\ c \in CheckType /\ c.effects = check.effects /\ c.retry = check.retry /\ c.failures = 0
        /\ c.coordinator = check.coordinator /\ c.player = check.player
    BY <1>0 DEF CheckType
  <2>2. check' = runComparison(c) /\ ~check.effects
    BY <1>4 DEF verify
  <2> HIDE DEF c
  <2> QED BY <2>1, <2>2, ComparisonOk DEF CheckInv
<1> QED BY <1>1, <1>2, <1>3, <1>4 DEF CheckNext

\* A new entry is the first of the list; the others stay in order, but the oldest may go
\* (addHandResult).
LEMMA PutIs ==
  ASSUME NEW list \in Seq(EntryType), NEW entry \in EntryType
  PROVE  /\ Put(list, entry) \in Seq(EntryType)
         /\ \A i \in DOMAIN Put(list, entry) :
              \/ i = 1 /\ Put(list, entry)[i] = entry
              \/ i - 1 \in DOMAIN list /\ Put(list, entry)[i] = list[i - 1]
<1> DEFINE whole == <<entry>> \o list
           k == IF Len(list) < MAX_HISTORY_PER_TABLE THEN Len(list) + 1 ELSE MAX_HISTORY_PER_TABLE
<1>1. Len(list) \in Nat /\ DOMAIN list = 1 .. Len(list)
  BY LenProperties
<1>2. k \in Nat /\ k <= Len(list) + 1
  BY <1>1, SessionParams
<1>3. <<entry>> \in Seq(EntryType) /\ Len(<<entry>>) = 1 /\ <<entry>>[1] = entry
  OBVIOUS
<1>4. /\ whole \in Seq(EntryType) /\ Len(whole) = Len(list) + 1
      /\ \A i \in 1 .. Len(list) + 1 : whole[i] = IF i <= 1 THEN entry ELSE list[i - 1]
  <2>1. /\ whole \in Seq(EntryType) /\ Len(whole) = Len(<<entry>>) + Len(list)
        /\ \A i \in 1 .. Len(<<entry>>) + Len(list) : whole[i] =
              IF i <= Len(<<entry>>) THEN <<entry>>[i] ELSE list[i - Len(<<entry>>)]
    BY <1>3, ConcatProperties
  <2> QED BY <1>1, <1>3, <2>1
<1> HIDE DEF whole, k
<1>5. \A i \in 1 .. k : whole[i] \in EntryType
  BY <1>1, <1>2, <1>4, ElementOfSeq
<1>6. /\ SubSeq(whole, 1, k) \in Seq(EntryType)
      /\ Len(SubSeq(whole, 1, k)) = IF 1 <= k THEN k - 1 + 1 ELSE 0
      /\ \A i \in 1 .. k - 1 + 1 : SubSeq(whole, 1, k)[i] = whole[1 + i - 1]
  BY <1>2, <1>5, SubSeqProperties
<1>7. Put(list, entry) = SubSeq(whole, 1, k)
  BY DEF Put, whole, k
<1>8. Put(list, entry) \in Seq(EntryType) /\ DOMAIN Put(list, entry) = 1 .. k
  <2>1. Len(Put(list, entry)) = k
    BY <1>2, <1>6, <1>7
  <2> QED BY <1>6, <1>7, <2>1, LenProperties
<1>9. ASSUME NEW i \in 1 .. k
      PROVE  \/ i = 1 /\ Put(list, entry)[i] = entry
             \/ i - 1 \in DOMAIN list /\ Put(list, entry)[i] = list[i - 1]
  <2>1. Put(list, entry)[i] = whole[i] /\ i \in 1 .. Len(list) + 1
    BY <1>1, <1>2, <1>6, <1>7
  <2>2. CASE i = 1
    BY <1>4, <2>1, <2>2
  <2>3. CASE i # 1
    BY <1>1, <1>4, <2>1, <2>3
  <2> QED BY <2>2, <2>3
<1> QED BY <1>8, <1>9

\* A hand that is put into a list without it is in it once.
LEMMA PutKeeps ==
  ASSUME NEW list \in Seq(EntryType), NEW entry \in EntryType, At(list, entry.hand) = {}
  PROVE  /\ Once(list) => Once(Put(list, entry))
         /\ Told(list) /\ Tells(entry) => Told(Put(list, entry))
<1> DEFINE new == Put(list, entry)
<1>1. \A i \in DOMAIN new : \/ i = 1 /\ new[i] = entry
                            \/ i - 1 \in DOMAIN list /\ new[i] = list[i - 1]
  BY Zenon, PutIs
<1>2. \A i \in DOMAIN list : list[i].hand # entry.hand
  BY DEF At
<1>3. DOMAIN new \subseteq Int
  BY PutIs, LenProperties
<1> HIDE DEF new
<1>4. ASSUME Once(list), NEW i \in DOMAIN new, NEW j \in DOMAIN new, new[i].hand = new[j].hand
      PROVE  i = j
  <2>1. CASE i = 1 /\ new[i] = entry
    BY <1>1, <1>2, <1>4, <2>1
  <2>2. CASE j = 1 /\ new[j] = entry
    BY <1>1, <1>2, <1>4, <2>2
  <2>3. CASE /\ i - 1 \in DOMAIN list /\ new[i] = list[i - 1]
             /\ j - 1 \in DOMAIN list /\ new[j] = list[j - 1]
    <3>1. i - 1 = j - 1
      BY <1>4, <2>3 DEF Once
    <3> QED BY <1>3, <3>1
  <2> QED BY <1>1, <2>1, <2>2, <2>3
<1>5. ASSUME Told(list), Tells(entry), NEW i \in DOMAIN new PROVE Tells(new[i])
  BY <1>1, <1>5 DEF Told
<1> QED BY <1>4, <1>5 DEF Once, Told, new

\* An entry that is changed in place keeps its hand and tells no less.
LEMMA MapKeeps ==
  ASSUME NEW list \in Seq(EntryType), NEW new, DOMAIN new = DOMAIN list,
         new = [i \in DOMAIN list |-> new[i]],
         \A i \in DOMAIN list : new[i] \in EntryType /\ new[i].hand = list[i].hand
  PROVE  /\ new \in Seq(EntryType)
         /\ Once(list) => Once(new)
<1>1. Len(list) \in Nat /\ DOMAIN list = 1 .. Len(list)
  BY LenProperties
<1>2. new \in [1 .. Len(list) -> EntryType]
  BY <1>1
<1>3. new \in Seq(EntryType)
  BY <1>1, <1>2
<1> QED BY <1>3 DEF Once

\* The hand that goes from the table goes into the history, unless it is there
\* (addHandResult).
LEMMA AddKeeps ==
  ASSUME NEW list \in Seq(EntryType), NEW entry \in EntryType, Tells(entry)
  PROVE  /\ addHandResult(list, entry) \in Seq(EntryType)
         /\ Once(list) => Once(addHandResult(list, entry))
         /\ Told(list) => Told(addHandResult(list, entry))
BY PutIs, PutKeeps DEF addHandResult

\* The cards revealed of a hand are added to its entry (updateHandResult).
LEMMA UpdateKeeps ==
  ASSUME NEW list \in Seq(EntryType), NEW hand
  PROVE  /\ updateHandResult(list, hand) \in Seq(EntryType)
         /\ Once(list) => Once(updateHandResult(list, hand))
         /\ Told(list) => Told(updateHandResult(list, hand))
<1> DEFINE new == updateHandResult(list, hand)
<1>1. \A i \in DOMAIN list : list[i] \in EntryType
  BY LenProperties
<1>2. /\ new = [i \in DOMAIN list |-> new[i]] /\ DOMAIN new = DOMAIN list
      /\ \A i \in DOMAIN list :
           new[i] = list[i] \/ new[i] = [list[i] EXCEPT !.revealedCards = TRUE]
  BY DEF updateHandResult
<1> HIDE DEF new
<1>3. ASSUME NEW e \in EntryType
      PROVE  /\ [e EXCEPT !.revealedCards = TRUE] \in EntryType
             /\ [e EXCEPT !.revealedCards = TRUE].hand = e.hand
             /\ Tells(e) => Tells([e EXCEPT !.revealedCards = TRUE])
  BY Zenon DEF EntryType, Tells
<1>4. \A i \in DOMAIN list : /\ new[i] \in EntryType /\ new[i].hand = list[i].hand
                             /\ Tells(list[i]) => Tells(new[i])
  BY ZenonT(30), <1>1, <1>2, <1>3
<1>5. new \in Seq(EntryType) /\ (Once(list) => Once(new))
  BY <1>2, <1>4, MapKeeps
<1>6. Told(list) => Told(new)
  BY <1>2, <1>4 DEF Told
<1> QED BY <1>5, <1>6 DEF new

\* The end of a hand goes into its entry, or the history (the merge of HandCompleted).
LEMMA CompletedKeeps ==
  ASSUME NEW list \in Seq(EntryType), NEW result \in EntryType
  PROVE  /\ Completed(list, result) \in Seq(EntryType)
         /\ Once(list) => Once(Completed(list, result))
         /\ Told(list) /\ Tells(result) => Told(Completed(list, result))
<1> DEFINE new == Completed(list, result)
<1>1. CASE At(list, result.hand) = {}
  BY <1>1, PutIs, PutKeeps DEF Completed
<1>2. CASE At(list, result.hand) # {}
  <2>1. \A i \in DOMAIN list : list[i] \in EntryType
    BY LenProperties
  <2>2. /\ new = [i \in DOMAIN list |-> new[i]] /\ DOMAIN new = DOMAIN list
        /\ \A i \in DOMAIN list : new[i] = list[i] \/ new[i] = Merged(list[i], result)
    BY <1>2 DEF Completed
  <2> HIDE DEF new
  <2>3. ASSUME NEW e \in EntryType
        PROVE  /\ Merged(e, result) \in EntryType /\ Merged(e, result).hand = e.hand
               /\ Tells(result) => Tells(Merged(e, result))
    <3> DEFINE w == e.winners \/ result.winners
               r == e.revealedCards \/ result.revealedCards
    <3>1. w \in BOOLEAN /\ r \in BOOLEAN /\ (result.winners => w) /\ (result.revealedCards => r)
      BY DEF EntryType
    <3>2. Merged(e, result) = [e EXCEPT !.winners = w, !.revealedCards = r,
                                        !.completed = result.completed]
      BY DEF Merged
    <3> HIDE DEF w, r
    <3>3. Merged(e, result) \in EntryType /\ Merged(e, result).hand = e.hand
      BY Zenon, <3>1, <3>2 DEF EntryType
    <3>4. /\ Merged(e, result).winners = w /\ Merged(e, result).revealedCards = r
          /\ Merged(e, result).completed = result.completed
      BY <3>2 DEF EntryType
    <3> QED BY <3>1, <3>3, <3>4 DEF Tells
  <2>4. \A i \in DOMAIN list : /\ new[i] \in EntryType /\ new[i].hand = list[i].hand
                               /\ Tells(list[i]) /\ Tells(result) => Tells(new[i])
    BY <2>1, <2>2, <2>3
  <2>5. new \in Seq(EntryType) /\ (Once(list) => Once(new))
    BY <2>2, <2>4, MapKeeps
  <2>6. Told(list) /\ Tells(result) => Told(new)
    BY <2>2, <2>4 DEF Told
  <2> QED BY <2>5, <2>6 DEF new
<1> QED BY <1>1, <1>2

\* What a step leaves of the page's hands, as long as no event has overtaken another.
LEMMA HandsTyped ==
  ASSUME HandTypes
  PROVE  /\ capture.queue \in Seq(EventType) /\ capture.events \in Seq(EventType)
         /\ Len(capture.events) \in Nat /\ Len(capture.queue) \in Nat /\ AheadLen \in Nat
         /\ play.chain \in Nat /\ play.last \in Nat /\ capture.lastHand \in Nat
         /\ \A i \in 1 .. AheadLen : Ahead(i) \in EventType
<1>1. capture \in CaptureType /\ play \in PlayType
  BY DEF HandTypes
<1>2. /\ capture.queue \in Seq(EventType) /\ capture.events \in Seq(EventType)
      /\ capture.lastHand \in Nat
  BY <1>1 DEF CaptureType
<1>3. play.chain \in Nat /\ play.last \in Nat
  BY <1>1 DEF PlayType
<1>4. Len(capture.events) \in Nat /\ Len(capture.queue) \in Nat
  BY <1>2, LenProperties
<1> DEFINE e == Len(capture.events)
           q == Len(capture.queue)
<1>a. AheadLen = e + q /\ e \in Nat /\ q \in Nat
  BY <1>4 DEF AheadLen
<1> HIDE DEF e, q
<1>5. AheadLen \in Nat
  BY <1>a
<1>6. ASSUME NEW i \in 1 .. AheadLen PROVE Ahead(i) \in EventType
  <2>1. CASE i <= Len(capture.events)
    BY <1>2, <1>4, <1>5, <2>1, ElementOfSeq DEF Ahead
  <2>2. CASE i > Len(capture.events)
    <3>1. i - Len(capture.events) \in 1 .. Len(capture.queue)
      <4>1. i > e
        BY <2>2 DEF e
      <4>2. i - e \in 1 .. q
        BY <1>a, <4>1
      <4> QED BY <4>2 DEF e, q
    <3>2. Ahead(i) = capture.queue[i - Len(capture.events)]
      BY <1>4, <2>2 DEF Ahead
    <3> QED BY <1>2, <3>1, <3>2, ElementOfSeq
  <2> QED BY <1>4, <2>1, <2>2
<1> QED BY <1>2, <1>3, <1>4, <1>5, <1>6

\* The event at j is in order if all up to it and what is noted are as they were.
LEMMA AheadKeeps ==
  ASSUME HandTypes, NEW j \in 1 .. AheadLen, AheadOk(j),
         \A i \in 1 .. AheadLen : Ahead(i)' = Ahead(i),
         play'.last \in Nat, play.last <= play'.last,
         capture'.winners = capture.winners, capture'.cards = capture.cards
  PROVE  AheadOk(j)'
<1>1. AheadLen \in Nat /\ play.last \in Nat /\ Ahead(j) \in EventType
  BY HandsTyped
<1>2. Ahead(j).hand \in Nat
  BY <1>1 DEF EventType
<1>3. \A i \in 1 .. j - 1 : Ahead(i)' = Ahead(i)
  BY <1>1
<1>4. Ahead(j)' = Ahead(j)
  OBVIOUS
<1>5. Ahead(j)'.hand <= play'.last
  BY <1>1, <1>2, <1>4 DEF AheadOk
<1>6. ASSUME NEW name PROVE Before(j, name) => Before(j, name)'
  BY <1>3, <1>4 DEF Before
<1>7. \A i \in 1 .. j - 1 : Ends(Ahead(i))' => Ahead(i)'.hand # Ahead(j)'.hand
  BY <1>3, <1>4 DEF AheadOk, Ends
<1> QED BY <1>4, <1>5, <1>6, <1>7 DEF AheadOk

\* The events are in order as long as they, the notes and the last hand are as they were.
LEMMA SameAhead ==
  ASSUME AheadInOrder, capture'.queue = capture.queue, capture'.events = capture.events,
         capture'.winners = capture.winners, capture'.cards = capture.cards,
         play'.last = play.last
  PROVE  AheadInOrder'
<1>1. \A i : Ahead(i)' = Ahead(i)
  BY DEF Ahead
<1>2. AheadLen' = AheadLen
  BY DEF AheadLen
<1>3. \A j, name : Before(j, name)' <=> Before(j, name)
  BY <1>1 DEF Before
<1>4. \A j : AheadOk(j)' <=> AheadOk(j)
  BY <1>1, <1>3 DEF AheadOk, Ends
<1> QED BY <1>2, <1>4 DEF AheadInOrder

\* Steps of the keys and of the comparison are not about hands.
LEMMA SameHands == ASSUME HandInv, UNCHANGED <<play, history, capture>> PROVE HandInv'
BY SameAhead DEF HandInv, HandTypes, HandOnceInHistory, CompletedHandHasWinners

\* The next event arrives while none waits for its effect (setEvents).
LEMMA ArrivalKeeps == ASSUME HandInv, EventArrives PROVE HandInv'
<1>1. HandTypes /\ capture \in CaptureType /\ play \in PlayType /\ history \in Seq(EntryType)
  BY DEF HandInv, HandTypes
<1>2. /\ capture.queue \in Seq(EventType) /\ capture.events \in Seq(EventType)
      /\ Len(capture.events) \in Nat /\ Len(capture.queue) \in Nat /\ play.last \in Nat
  BY <1>1, HandsTyped
<1> DEFINE head == Head(capture.queue)
           tail == Tail(capture.queue)
           events == <<head>> \o capture.events
           skipped == capture.skipped \/ capture.events # <<>>
<1>3. /\ head \in EventType /\ tail \in Seq(EventType) /\ Len(tail) = Len(capture.queue) - 1
      /\ \A i \in 1 .. Len(tail) : tail[i] = capture.queue[i + 1]
      /\ head = capture.queue[1]
  BY <1>2, HeadTailProperties DEF EventArrives
<1>4. <<head>> \in Seq(EventType) /\ Len(<<head>>) = 1 /\ <<head>>[1] = head
  BY <1>3
<1>5. events \in Seq(EventType) /\ (capture.events = <<>> => events = <<head>>)
  BY Zenon, <1>2, <1>4, ConcatProperties, ConcatEmptySeq
<1>6. skipped \in BOOLEAN /\ (~skipped => ~capture.skipped /\ capture.events = <<>>)
  BY <1>1 DEF CaptureType
<1>7. /\ capture' = [capture EXCEPT !.queue = tail, !.events = events, !.skipped = skipped]
      /\ UNCHANGED <<play, history>>
  BY DEF EventArrives
<1> HIDE DEF head, tail, events, skipped
<1>8. /\ capture' \in CaptureType /\ capture'.queue = tail /\ capture'.events = events
      /\ capture'.skipped = skipped
  BY Zenon, <1>1, <1>3, <1>5, <1>6, <1>7 DEF CaptureType
<1>9. capture'.winners = capture.winners /\ capture'.cards = capture.cards
  BY <1>1, <1>7 DEF CaptureType
<1>10. ASSUME ~skipped PROVE AheadInOrder'
  <2>1. capture.events = <<>> /\ AheadInOrder /\ capture'.events = <<head>>
    BY <1>5, <1>6, <1>8, <1>10 DEF HandInv
  <2>2. Len(capture.events) = 0 /\ Len(capture'.events) = 1
    BY <1>4, <2>1
  <2>3. PICK n \in Nat : n = AheadLen
    BY <1>1, HandsTyped
  <2>4. n = Len(capture.queue) /\ AheadLen' = n
    BY <1>2, <1>3, <1>8, <2>2, <2>3 DEF AheadLen
  <2>5. ASSUME NEW i \in 1 .. n PROVE Ahead(i)' = Ahead(i)
    <3>1. Ahead(i) = capture.queue[i]
      BY <1>2, <2>2 DEF Ahead
    <3>2. CASE i = 1
      BY <1>3, <1>4, <2>1, <2>2, <3>1, <3>2 DEF Ahead
    <3>3. CASE i # 1
      <4>1. Ahead(i)' = tail[i - 1]
        BY <1>8, <2>2, <3>3 DEF Ahead
      <4>2. i - 1 \in 1 .. Len(tail) /\ i - 1 + 1 = i
        BY <1>2, <1>3, <2>4, <3>3
      <4> QED BY <1>3, <3>1, <4>1, <4>2
    <3> QED BY <3>2, <3>3
  <2>6. play'.last \in Nat /\ play.last <= play'.last
    BY <1>2, <1>7
  <2>7. ASSUME NEW j \in 1 .. n PROVE AheadOk(j)'
    BY <1>1, <1>9, <2>1, <2>3, <2>5, <2>6, AheadKeeps DEF AheadInOrder
  <2>8. Len(capture'.events) <= 1
    BY <2>2
  <2> QED BY <2>4, <2>7, <2>8 DEF AheadInOrder
<1>11. HandTypes' /\ HandOnceInHistory' /\ CompletedHandHasWinners'
  BY <1>1, <1>6, <1>7, <1>8 DEF HandInv, HandTypes, HandOnceInHistory, CompletedHandHasWinners
<1> QED BY <1>7, <1>8, <1>10, <1>11 DEF HandInv

\* A hand ends: its events come last, the cards and the pot before the end, and it is a
\* later hand than all before (HandEnds).
LEMMA EndKeepsHands ==
  ASSUME HandInv, NEW folded \in BOOLEAN, HandEnds(folded)
  PROVE  HandInv'
<1>1. HandTypes /\ capture \in CaptureType /\ play \in PlayType /\ history \in Seq(EntryType)
  BY DEF HandInv, HandTypes
<1>2. /\ capture.queue \in Seq(EventType) /\ capture.events \in Seq(EventType)
      /\ Len(capture.events) \in Nat /\ Len(capture.queue) \in Nat
      /\ play.last \in Nat /\ play.chain \in Nat /\ play.last < play.chain
  BY <1>1, HandsTyped DEF HandInv, HandEnds
<1> DEFINE k == IF folded THEN 1 ELSE 3
           names == <<"HoleCardRevealed", "PotAwarded", "HandCompleted">>
           batch == [i \in 1 .. k |->
                      [hand |-> play.chain, name |-> IF folded THEN "HandFolded" ELSE names[i]]]
           queue == capture.queue \o batch
<1>3. k \in Nat
  OBVIOUS
<1>4. names[1] = "HoleCardRevealed" /\ names[2] = "PotAwarded" /\ names[3] = "HandCompleted"
  OBVIOUS
<1>5. capture' = [capture EXCEPT !.queue = queue] /\ UNCHANGED history
  BY DEF HandEnds
<1>6. play' = [play EXCEPT !.chain = NoHand, !.last = play.chain]
  BY DEF HandEnds
<1> HIDE DEF names
<1>7. \A i \in 1 .. k : batch[i].hand = play.chain
  OBVIOUS
<1>8. folded => \A i \in 1 .. k : batch[i].name = "HandFolded"
  OBVIOUS
<1>9. ~folded => /\ k = 3 /\ batch[1].name = "HoleCardRevealed"
                 /\ batch[2].name = "PotAwarded" /\ batch[3].name = "HandCompleted"
  BY <1>4
<1>10. \A i \in 1 .. k : batch[i] \in EventType
  <2> SUFFICES ASSUME NEW i \in 1 .. k PROVE batch[i] \in EventType BY Zenon
  <2>1. CASE folded
    BY <1>2, <2>1 DEF EventType
  <2>2. CASE ~folded
    <3>1. i = 1 \/ i = 2 \/ i = 3
      BY <2>2
    <3>2. names[i] \in {"HoleCardRevealed", "PotAwarded", "HandCompleted"}
      BY <1>4, <3>1
    <3>3. batch[i] = [hand |-> play.chain, name |-> names[i]]
      BY <2>2
    <3> QED BY <1>2, <3>2, <3>3 DEF EventType
  <2> QED BY <2>1, <2>2
<1>11. batch \in [1 .. k -> EventType]
  BY Zenon, <1>10
<1>12. ~folded \/ k = 1
  OBVIOUS
<1> HIDE DEF k, batch
<1>13. batch \in Seq(EventType) /\ Len(batch) = k
  BY <1>3, <1>11
<1>14. /\ queue \in Seq(EventType) /\ Len(queue) = Len(capture.queue) + k
       /\ \A i \in 1 .. Len(capture.queue) + k : queue[i] =
             IF i <= Len(capture.queue) THEN capture.queue[i] ELSE batch[i - Len(capture.queue)]
  BY Zenon, <1>2, <1>13, ConcatProperties
<1> HIDE DEF queue
<1>15. capture' \in CaptureType /\ capture'.queue = queue /\ capture'.events = capture.events
  BY Zenon, <1>1, <1>5, <1>14 DEF CaptureType
<1>16. /\ capture'.winners = capture.winners /\ capture'.cards = capture.cards
       /\ capture'.skipped = capture.skipped
  BY <1>1, <1>5 DEF CaptureType
<1>17. play' \in PlayType /\ play'.chain = NoHand /\ play'.last = play.chain
  BY Zenon, <1>1, <1>2, <1>6 DEF PlayType, NoHand
<1>18. HandTypes'
  BY <1>1, <1>5, <1>15, <1>17 DEF HandTypes
<1>19. ASSUME ~capture.skipped PROVE AheadInOrder'
  <2>1. AheadInOrder
    BY <1>19 DEF HandInv
  <2>2. PICK n \in Nat : n = AheadLen
    BY <1>1, HandsTyped
  <2>e. PICK e \in Nat : e = Len(capture.events)
    BY <1>2
  <2>q. PICK q \in Nat : q = Len(capture.queue)
    BY <1>2
  <2>n. n = e + q
    BY <2>2, <2>e, <2>q DEF AheadLen
  <2>3. AheadLen' = n + k
    <3>1. AheadLen' = e + (q + k)
      BY SMTT(30), <1>14, <1>15, <2>e, <2>q DEF AheadLen
    <3> QED BY <1>3, <2>n, <3>1
  <2>4. ASSUME NEW i \in 1 .. n PROVE Ahead(i)' = Ahead(i)
    <3>1. CASE i <= Len(capture.events)
      BY <1>15, <3>1 DEF Ahead
    <3>2. CASE ~(i <= Len(capture.events))
      <4>1. i - Len(capture.events) \in 1 .. Len(capture.queue)
        <5>1. i - e \in 1 .. q
          BY <2>n, <2>e, <3>2
        <5> QED BY <2>e, <2>q, <5>1
      <4>2. queue[i - Len(capture.events)] = capture.queue[i - Len(capture.events)]
        <5>1. i - e \in 1 .. q /\ i - e \in 1 .. q + k /\ i - e <= q
          <6>1. i - e \in 1 .. q
            BY <2>e, <2>q, <4>1
          <6> QED BY <1>3, <6>1
        <5> QED BY <1>14, <2>e, <2>q, <5>1
      <4> QED BY <1>15, <3>2, <4>2 DEF Ahead
    <3> QED BY <3>1, <3>2
  <2>5. ASSUME NEW i \in 1 .. k PROVE Ahead(n + i)' = batch[i]
    <3>1. /\ ~(n + i <= Len(capture.events))
          /\ n + i - Len(capture.events) = Len(capture.queue) + i
          /\ Len(capture.queue) + i \in 1 .. Len(capture.queue) + k
          /\ ~(Len(capture.queue) + i <= Len(capture.queue))
          /\ Len(capture.queue) + i - Len(capture.queue) = i
      <4>1. /\ ~(n + i <= e) /\ n + i - e = q + i
            /\ q + i \in 1 .. q + k /\ ~(q + i <= q) /\ q + i - q = i
        BY <1>3, <2>n
      <4> QED BY Zenon, <2>e, <2>q, <4>1
    <3>2. Ahead(n + i)' = queue[n + i - Len(capture.events)]
      BY <1>15, <3>1 DEF Ahead
    <3>3. queue[Len(capture.queue) + i] = batch[Len(capture.queue) + i - Len(capture.queue)]
      <4>1. PICK x : x = Len(capture.queue) + i
        OBVIOUS
      <4>2. x \in 1 .. Len(capture.queue) + k /\ ~(x <= Len(capture.queue))
        BY <3>1, <4>1
      <4>3. queue[x] = batch[x - Len(capture.queue)]
        BY <1>14, <4>2
      <4> QED BY <4>1, <4>3
    <3> QED BY Zenon, <3>1, <3>2, <3>3
  <2>6. play'.last \in Nat /\ play.last <= play'.last
    BY <1>2, <1>17
  <2>7. ASSUME NEW j \in 1 .. n PROVE AheadOk(j)'
    BY <1>1, <1>16, <2>1, <2>2, <2>4, <2>6, AheadKeeps DEF AheadInOrder
  <2>8. ASSUME NEW i \in 1 .. n PROVE Ahead(i)'.hand # play.chain
    <3>1. Ahead(i) \in EventType /\ Ahead(i).hand <= play.last
      BY <1>1, <2>1, <2>2, HandsTyped DEF AheadInOrder, AheadOk
    <3>2. Ahead(i).hand \in Nat
      BY <3>1 DEF EventType
    <3> QED BY <1>2, <2>4, <3>1, <3>2
  <2>9. ASSUME NEW m \in 1 .. k PROVE AheadOk(n + m)'
    <3>1. Ahead(n + m)' = batch[m] /\ batch[m].hand = play.chain
      BY <1>7, <2>5
    <3>2. Ahead(n + m)'.hand <= play'.last
      BY <1>2, <1>17, <3>1
    <3>3. Ahead(n + m)'.name = "HandCompleted" => ~folded /\ m = 3
      <4>1. CASE folded
        BY <1>8, <3>1, <4>1
      <4>2. CASE ~folded
        <5>1. m = 1 \/ m = 2 \/ m = 3
          BY <1>9, <4>2
        <5> QED BY <1>9, <3>1, <4>2, <5>1
      <4> QED BY <4>1, <4>2
    <3>4. ASSUME ~folded, m = 3
          PROVE  Before(n + m, "PotAwarded")' /\ Before(n + m, "HoleCardRevealed")'
      <4>1. 1 \in 1 .. k /\ 2 \in 1 .. k
        BY <1>9, <3>4
      <4>2. Ahead(n + 1)' = batch[1] /\ Ahead(n + 2)' = batch[2]
        BY <2>5, <4>1
      <4>3. n + 1 \in 1 .. (n + m) - 1 /\ n + 2 \in 1 .. (n + m) - 1
        BY <3>4
      <4> QED BY <1>7, <1>9, <3>1, <3>4, <4>1, <4>2, <4>3 DEF Before
    <3>5. ASSUME NEW i \in 1 .. (n + m) - 1, Ends(Ahead(i))' PROVE Ahead(i)'.hand # Ahead(n + m)'.hand
      <4>1. CASE i <= n
        BY <2>8, <3>1, <4>1
      <4>2. CASE i > n
        <5>1. i - n \in 1 .. k /\ i = n + (i - n) /\ i - n < m
          BY <1>3, <4>2
        <5>2. Ahead(i)' = batch[i - n]
          BY <2>5, <5>1
        <5>3. k # 1
          BY <5>1
        <5>4. ~folded /\ k = 3
          BY <1>9, <1>12, <5>3
        <5>5. i - n = 1 \/ i - n = 2
          BY <5>1, <5>4
        <5>6. batch[i - n].name \in {"HoleCardRevealed", "PotAwarded"}
          BY <1>9, <5>4, <5>5
        <5> QED BY <3>5, <5>2, <5>6 DEF Ends
      <4> QED BY <4>1, <4>2
    <3> QED BY <3>2, <3>3, <3>4, <3>5 DEF AheadOk
  <2>10. ASSUME NEW j \in 1 .. n + k PROVE AheadOk(j)'
    <3>1. CASE j <= n
      BY <2>7, <3>1
    <3>2. CASE j > n
      <4>1. j - n \in 1 .. k /\ j = n + (j - n)
        BY <1>3, <3>2
      <4>2. PICK m \in 1 .. k : j = n + m
        BY <4>1
      <4> QED BY <2>9, <4>2
    <3> QED BY <3>1, <3>2
  <2> QED BY <1>15, <2>1, <2>3, <2>10 DEF AheadInOrder
<1>20. HandOnceInHistory' /\ CompletedHandHasWinners'
  BY <1>5, <1>16 DEF HandInv, HandOnceInHistory, CompletedHandHasWinners
<1> QED BY <1>16, <1>17, <1>18, <1>19, <1>20 DEF HandInv

\* The effect looks at the one event that waits: the end of a showdown finds the cards and
\* the winners noted, and no later event is of the hand whose notes are then cleared.
LEMMA EffectKeeps == ASSUME HandInv, EventEffects PROVE HandInv'
<1>1. HandTypes /\ capture \in CaptureType /\ play \in PlayType /\ history \in Seq(EntryType)
  BY DEF HandInv, HandTypes
<1>2. /\ capture.queue \in Seq(EventType) /\ capture.events \in Seq(EventType)
      /\ Len(capture.events) \in Nat /\ Len(capture.queue) \in Nat /\ play.last \in Nat
      /\ capture.events # <<>>
  BY <1>1, HandsTyped DEF EventEffects
<1> DEFINE latest == Head(capture.events)
           seen == [capture EXCEPT !.events = <<>>]
<1>3. latest \in EventType /\ latest = capture.events[1] /\ Len(capture.events) >= 1
  BY <1>2, HeadTailProperties
<1>4. latest.hand \in Nat
  BY <1>3 DEF EventType
<1>5. <<>> \in Seq(EventType) /\ Len(<<>>) = 0
  BY EmptySeq
<1>6. /\ seen \in CaptureType /\ seen.events = <<>> /\ seen.queue = capture.queue
      /\ seen.winners = capture.winners /\ seen.cards = capture.cards
      /\ seen.skipped = capture.skipped
  BY Zenon, <1>1, <1>5 DEF CaptureType
<1>7. capture.winners \in SUBSET Nat /\ capture.cards \in SUBSET Nat
  BY <1>1 DEF CaptureType
<1>8. /\ UNCHANGED play
      /\ \/ /\ latest.name = "HoleCardRevealed"
            /\ capture' = [seen EXCEPT !.cards = @ \cup {latest.hand}]
            /\ history' = updateHandResult(history, latest.hand)
         \/ /\ latest.name = "PotAwarded"
            /\ capture' = [seen EXCEPT !.winners = @ \cup {latest.hand}]
            /\ UNCHANGED history
         \/ /\ latest.name \in {"HandFolded", "HandCompleted"}
            /\ history' = Completed(history, Result(latest))
            /\ capture' = [seen EXCEPT !.winners = @ \ {latest.hand}, !.cards = @ \ {latest.hand}]
  BY DEF EventEffects, Awarded
<1> HIDE DEF latest, seen
<1>9. ASSUME NEW winners \in SUBSET Nat, NEW cards \in SUBSET Nat,
             capture' = [seen EXCEPT !.winners = winners, !.cards = cards]
      PROVE  /\ capture' \in CaptureType /\ capture'.events = <<>>
             /\ capture'.queue = capture.queue /\ capture'.skipped = capture.skipped
             /\ capture'.winners = winners /\ capture'.cards = cards
  BY Zenon, <1>6, <1>9 DEF CaptureType
\* the three cases of the effect, in one form
<1>10. /\ capture' \in CaptureType /\ capture'.events = <<>>
       /\ capture'.queue = capture.queue /\ capture'.skipped = capture.skipped
       /\ \/ /\ latest.name = "HoleCardRevealed"
             /\ capture'.winners = capture.winners
             /\ capture'.cards = capture.cards \cup {latest.hand}
          \/ /\ latest.name = "PotAwarded"
             /\ capture'.winners = capture.winners \cup {latest.hand}
             /\ capture'.cards = capture.cards
          \/ /\ Ends(latest)
             /\ capture'.winners = capture.winners \ {latest.hand}
             /\ capture'.cards = capture.cards \ {latest.hand}
  <2>1. CASE /\ latest.name = "HoleCardRevealed"
             /\ capture' = [seen EXCEPT !.cards = @ \cup {latest.hand}]
    <3>1. capture.cards \cup {latest.hand} \in SUBSET Nat
      BY <1>4, <1>7
    <3>2. capture' = [seen EXCEPT !.winners = capture.winners,
                                  !.cards = capture.cards \cup {latest.hand}]
      BY Zenon, <1>6, <2>1 DEF CaptureType
    <3>3. /\ capture' \in CaptureType /\ capture'.events = <<>>
          /\ capture'.queue = capture.queue /\ capture'.skipped = capture.skipped
          /\ capture'.winners = capture.winners
          /\ capture'.cards = capture.cards \cup {latest.hand}
      BY Zenon, <1>7, <1>9, <3>1, <3>2
    <3> QED BY <2>1, <3>3
  <2>2. CASE /\ latest.name = "PotAwarded"
             /\ capture' = [seen EXCEPT !.winners = @ \cup {latest.hand}]
    <3>1. capture.winners \cup {latest.hand} \in SUBSET Nat
      BY <1>4, <1>7
    <3>2. capture' = [seen EXCEPT !.winners = capture.winners \cup {latest.hand},
                                  !.cards = capture.cards]
      BY Zenon, <1>6, <2>2 DEF CaptureType
    <3>3. /\ capture' \in CaptureType /\ capture'.events = <<>>
          /\ capture'.queue = capture.queue /\ capture'.skipped = capture.skipped
          /\ capture'.winners = capture.winners \cup {latest.hand}
          /\ capture'.cards = capture.cards
      BY Zenon, <1>7, <1>9, <3>1, <3>2
    <3> QED BY <2>2, <3>3
  <2>3. CASE /\ latest.name \in {"HandFolded", "HandCompleted"}
             /\ capture' = [seen EXCEPT !.winners = @ \ {latest.hand}, !.cards = @ \ {latest.hand}]
    <3>1. capture.winners \ {latest.hand} \in SUBSET Nat /\ capture.cards \ {latest.hand} \in SUBSET Nat
      BY <1>7
    <3>2. capture' = [seen EXCEPT !.winners = capture.winners \ {latest.hand},
                                  !.cards = capture.cards \ {latest.hand}]
      BY <1>6, <2>3
    <3>3. /\ capture' \in CaptureType /\ capture'.events = <<>>
          /\ capture'.queue = capture.queue /\ capture'.skipped = capture.skipped
          /\ capture'.winners = capture.winners \ {latest.hand}
          /\ capture'.cards = capture.cards \ {latest.hand}
      BY Zenon, <1>9, <3>1, <3>2
    <3> QED BY <2>3, <3>3 DEF Ends
  <2> QED BY <1>8, <2>1, <2>2, <2>3
\* the events in order
<1>11. ASSUME ~capture.skipped
       PROVE  /\ AheadInOrder'
              /\ latest.name = "HandCompleted" =>
                   latest.hand \in capture.winners /\ latest.hand \in capture.cards
  <2>1. AheadInOrder
    BY <1>11 DEF HandInv
  <2>2. Len(capture.events) = 1
    <3>1. PICK e \in Nat : e = Len(capture.events)
      BY <1>2
    <3>2. e >= 1 /\ e <= 1
      BY <1>3, <2>1, <3>1 DEF AheadInOrder
    <3>3. e = 1
      BY <3>2
    <3> QED BY <3>1, <3>3
  <2>3. PICK q \in Nat : q = Len(capture.queue)
    BY <1>2
  <2>4. AheadLen = q + 1 /\ AheadLen' = q
    <3>1. AheadLen = 1 + q
      BY <2>2, <2>3 DEF AheadLen
    <3>2. AheadLen' = 0 + q
      BY <1>5, <1>10, <2>3 DEF AheadLen
    <3> QED BY <3>1, <3>2
  <2>5. Ahead(1) = latest
    BY <1>3, <2>2 DEF Ahead
  <2>6. ASSUME NEW i \in 1 .. q PROVE Ahead(i)' = Ahead(i + 1)
    <3>1. Ahead(i + 1) = capture.queue[i + 1 - 1]
      BY <2>2 DEF Ahead
    <3>2. Ahead(i)' = capture.queue[i - 0]
      BY <1>5, <1>10 DEF Ahead
    <3>3. i + 1 - 1 = i - 0
      OBVIOUS
    <3> QED BY <3>1, <3>2, <3>3
  <2>7. ASSUME NEW j \in 1 .. q + 1 PROVE AheadOk(j)
    BY <2>1, <2>4 DEF AheadInOrder
  <2>8. latest.name = "HandCompleted" =>
          latest.hand \in capture.winners /\ latest.hand \in capture.cards
    <3>1. AheadOk(1)
      BY <2>7
    <3>2. 1 .. 1 - 1 = {}
      OBVIOUS
    <3> QED BY <2>5, <3>1, <3>2 DEF AheadOk, Before
  <2>9. ASSUME NEW j \in 1 .. q PROVE AheadOk(j)'
    <3>1. AheadOk(j + 1) /\ Ahead(j)' = Ahead(j + 1)
      BY <2>6, <2>7
    <3>2. j + 1 - 1 = j
      OBVIOUS
    <3>3. Ends(latest) => latest.hand # Ahead(j + 1).hand
      BY <2>5, <3>1, <3>2 DEF AheadOk
    <3>4. ASSUME NEW name, Before(j + 1, name)
          PROVE  \/ latest.name = name /\ latest.hand = Ahead(j + 1).hand
                 \/ Before(j, name)'
      <4>1. PICK i \in 1 .. j : Ahead(i).hand = Ahead(j + 1).hand /\ Ahead(i).name = name
        BY <3>2, <3>4 DEF Before
      <4>2. CASE i = 1
        BY <2>5, <4>1, <4>2
      <4>3. CASE i # 1
        <5>1. i - 1 \in 1 .. j - 1 /\ i - 1 \in 1 .. q /\ i - 1 + 1 = i
          BY <4>3
        <5>2. Ahead(i - 1)' = Ahead(i)
          BY <2>6, <5>1
        <5> QED BY <3>1, <4>1, <5>1, <5>2 DEF Before
      <4> QED BY <4>2, <4>3
    <3>5. Ahead(j)'.hand <= play'.last
      BY <1>8, <3>1 DEF AheadOk
    <3>6. ASSUME Ahead(j)'.name = "HandCompleted"
          PROVE  /\ Ahead(j)'.hand \in capture'.winners \/ Before(j, "PotAwarded")'
                 /\ Ahead(j)'.hand \in capture'.cards \/ Before(j, "HoleCardRevealed")'
      <4>1. /\ Ahead(j + 1).hand \in capture.winners \/ Before(j + 1, "PotAwarded")
            /\ Ahead(j + 1).hand \in capture.cards \/ Before(j + 1, "HoleCardRevealed")
        BY <3>1, <3>6 DEF AheadOk
      <4>2. /\ Ahead(j + 1).hand \in capture.winners => Ahead(j + 1).hand \in capture'.winners
            /\ Ahead(j + 1).hand \in capture.cards => Ahead(j + 1).hand \in capture'.cards
        BY <1>10, <3>3
      <4>3. /\ (latest.name = "PotAwarded" /\ latest.hand = Ahead(j + 1).hand) =>
                  Ahead(j + 1).hand \in capture'.winners
            /\ (latest.name = "HoleCardRevealed" /\ latest.hand = Ahead(j + 1).hand) =>
                  Ahead(j + 1).hand \in capture'.cards
        BY <1>10 DEF Ends
      <4> QED BY <3>1, <3>4, <4>1, <4>2, <4>3
    <3>7. ASSUME NEW i \in 1 .. j - 1, Ends(Ahead(i))' PROVE Ahead(i)'.hand # Ahead(j)'.hand
      <4>1. i \in 1 .. q /\ i + 1 \in 1 .. j + 1 - 1
        OBVIOUS
      <4>2. Ahead(i)' = Ahead(i + 1)
        BY <2>6, <4>1
      <4> QED BY <3>1, <3>7, <4>1, <4>2 DEF AheadOk, Ends
    <3> QED BY <3>5, <3>6, <3>7 DEF AheadOk
  <2>10. Len(capture'.events) <= 1
    <3>1. Len(capture'.events) = 0
      BY <1>5, <1>10
    <3> QED BY <3>1
  <2> QED BY <2>4, <2>8, <2>9, <2>10 DEF AheadInOrder
\* the history
<1>12. ASSUME Ends(latest)
       PROVE  /\ Result(latest) \in EntryType
              /\ ~capture.skipped => Tells(Result(latest))
  <2> DEFINE w == latest.name = "HandFolded" \/ latest.hand \in capture.winners
             r == latest.hand \in capture.cards
             c == IF latest.name = "HandFolded" THEN "folded" ELSE "showdown"
  <2>1. /\ w \in BOOLEAN /\ r \in BOOLEAN /\ c \in {"folded", "showdown"}
        /\ ~capture.skipped => w /\ (c = "showdown" => r)
    BY <1>11, <1>12 DEF Ends
  <2>2. Result(latest) = [hand |-> latest.hand, winners |-> w, revealedCards |-> r, completed |-> c]
    BY DEF Result, Entry
  <2> HIDE DEF w, r, c
  <2>3. Result(latest) \in EntryType
    BY <1>4, <2>1, <2>2 DEF EntryType
  <2>4. ~capture.skipped => Tells(Result(latest))
    BY <2>1, <2>2 DEF Tells
  <2> QED BY <2>3, <2>4
<1>13. /\ history' \in Seq(EntryType)
       /\ Once(history) => Once(history')
       /\ (~capture.skipped /\ Told(history)) => Told(history')
  BY <1>1, <1>8, <1>12, UpdateKeeps, CompletedKeeps DEF Ends
<1>14. HandTypes' /\ HandOnceInHistory' /\ CompletedHandHasWinners'
  <2>1. Once(history) /\ (~capture.skipped => Told(history))
    BY DEF HandInv, HandOnceInHistory, CompletedHandHasWinners, Once, Told, Tells
  <2>2. Once(history') /\ (~capture'.skipped => Told(history'))
    BY <1>10, <1>13, <2>1
  <2>3. HandTypes'
    BY <1>1, <1>8, <1>10, <1>13 DEF HandTypes
  <2> QED BY <2>2, <2>3 DEF HandOnceInHistory, CompletedHandHasWinners, Once, Told, Tells
<1> QED BY <1>8, <1>10, <1>11, <1>14 DEF HandInv

\* The table that the page shows puts the hand that is gone into the history, without
\* winners (the effect on the table's hand).
LEMMA ShowKeeps == ASSUME HandInv, ShowTable PROVE HandInv'
<1>1. HandTypes /\ capture \in CaptureType /\ play \in PlayType /\ history \in Seq(EntryType)
  BY DEF HandInv, HandTypes
<1>2. play.chain \in Nat /\ capture.lastHand \in Nat /\ play.last \in Nat
  BY <1>1, HandsTyped
<1> DEFINE entry == Entry(capture.lastHand, FALSE, FALSE, "not")
<1>3. entry \in EntryType /\ Tells(entry)
  BY <1>2 DEF Entry, EntryType, Tells
<1>4. play' \in PlayType /\ play'.last = play.last /\ play'.chain = play.chain
  BY <1>1, <1>2 DEF ShowTable, PlayType
<1>5. /\ capture' \in CaptureType /\ capture'.queue = capture.queue
      /\ capture'.events = capture.events /\ capture'.winners = capture.winners
      /\ capture'.cards = capture.cards /\ capture'.skipped = capture.skipped
  <2>1. PICK hand \in Nat : capture' = [capture EXCEPT !.lastHand = hand]
    BY Zenon, <1>2 DEF ShowTable, NoHand
  <2> QED BY Zenon, <1>1, <2>1 DEF CaptureType
<1>6. UNCHANGED history \/ history' = addHandResult(history, entry)
  BY Zenon DEF ShowTable
<1> HIDE DEF entry
<1>7. /\ history' \in Seq(EntryType)
      /\ Once(history) => Once(history')
      /\ Told(history) => Told(history')
  BY <1>1, <1>3, <1>6, AddKeeps
<1>8. Once(history) /\ (~capture.skipped => Told(history))
  BY DEF HandInv, HandOnceInHistory, CompletedHandHasWinners, Once, Told, Tells
<1>9. Once(history') /\ (~capture'.skipped => Told(history'))
  BY <1>5, <1>7, <1>8
<1>10. HandTypes'
  BY <1>4, <1>5, <1>7 DEF HandTypes
<1>11. AheadInOrder => AheadInOrder'
  BY <1>4, <1>5, SameAhead
<1> QED BY <1>4, <1>5, <1>9, <1>10, <1>11
        DEF HandInv, HandOnceInHistory, CompletedHandHasWinners, Once, Told, Tells

\* Every step of the table, the socket and the effects on them.
LEMMA HandsKeep == ASSUME HandInv, HandsNext PROVE HandInv'
<1>1. CASE HandStarts
  <2>1. play \in PlayType /\ UNCHANGED <<capture, history>>
    BY <1>1 DEF HandInv, HandTypes, HandStarts
  <2>2. play.last \in Nat /\ play.last + 1 \in Nat /\ play.last + 1 > play.last
    BY <2>1 DEF PlayType
  <2>3. play' \in PlayType /\ play'.last = play.last /\ play'.chain > play'.last
    BY <1>1, <2>1, <2>2 DEF HandStarts, PlayType
  <2>4. AheadInOrder => AheadInOrder'
    BY <2>1, <2>3, SameAhead
  <2> QED BY <2>1, <2>3, <2>4
          DEF HandInv, HandTypes, HandOnceInHistory, CompletedHandHasWinners
<1> QED BY Zenon, <1>1, EndKeepsHands, ShowKeeps, ArrivalKeeps,
           EffectKeeps DEF HandsNext

SessionInv == KeyInv /\ CheckInv /\ HandInv

\* A page just loaded.
LEMMA SessionInitOk == SessionInit => SessionInv
<1> SUFFICES ASSUME SessionInit PROVE SessionInv OBVIOUS
<1>1. KeyInv
  BY DEF SessionInit, KeyInv, KeyType, UnlockedKeyWillLock
<1>2. CheckInv
  BY DEF SessionInit, CheckInv, CheckType, BadgeMatchesTables
<1>3. HandTypes
  BY Zenon, EmptySeq DEF SessionInit, HandTypes, PlayType, CaptureType, NoHand
<1>4. AheadInOrder
  <2>1. Len(capture.events) = 0 /\ AheadLen = 0
    BY DEF SessionInit, AheadLen
  <2> QED BY <2>1 DEF AheadInOrder
<1>5. play.chain = NoHand /\ DOMAIN history = {}
  BY DEF SessionInit
<1>6. HandInv
  BY <1>3, <1>4, <1>5 DEF HandInv, HandOnceInHistory, CompletedHandHasWinners
<1> QED BY <1>1, <1>2, <1>6 DEF SessionInv

\* Steps of the key, the hands and the comparison, which share nothing but isInHandRef.
LEMMA SessionNextOk ==
  ASSUME SessionInv, [KeysNext \/ HandsNext \/ CheckNext]_sessionVars
  PROVE  SessionInv'
<1>1. CASE KeysNext
  <2>1. UNCHANGED <<play, history, capture, check>>
    BY <1>1 DEF KeysNext, LoadKeys, KeyEffects, Touch, AutoLock, doUnlock, handleProtectKeys
  <2>2. CheckInv' /\ HandInv'
    BY <2>1, SameHands DEF SessionInv, CheckInv, BadgeMatchesTables
  <2> QED BY <1>1, <2>2, KeysKeep DEF SessionInv
<1>2. CASE HandsNext
  <2>1. UNCHANGED check
    BY Zenon, <1>2
       DEF HandsNext, HandStarts, HandEnds, ShowTable, EventArrives, EventEffects
  <2>2. CheckInv'
    BY <2>1 DEF SessionInv, CheckInv, BadgeMatchesTables
  <2>3. UNCHANGED keys \/ keys' = [keys EXCEPT !.inHand = play.chain # NoHand]
    BY Zenon, <1>2
       DEF HandsNext, HandStarts, HandEnds, ShowTable, EventArrives, EventEffects
  <2>4. KeyInv'
    <3>1. CASE UNCHANGED keys
      BY <3>1 DEF SessionInv, KeyInv, UnlockedKeyWillLock
    <3>2. CASE keys' = [keys EXCEPT !.inHand = play.chain # NoHand]
      <4> DEFINE on == play.chain # NoHand
      <4>1. on \in BOOLEAN /\ keys \in KeyType /\ keys' = [keys EXCEPT !.inHand = on]
        BY <3>2 DEF SessionInv, KeyInv
      <4> HIDE DEF on
      <4>2. /\ keys' \in KeyType /\ keys'.state = keys.state /\ keys'.sk = keys.sk
            /\ keys'.isKeyEncrypted = keys.isKeyEncrypted /\ keys'.fresh = keys.fresh
            /\ keys'.armed = keys.armed /\ keys'.effects = keys.effects
        BY <4>1 DEF KeyType
      <4> QED BY <4>2 DEF SessionInv, KeyInv, UnlockedKeyWillLock
    <3> QED BY <2>3, <3>1, <3>2
  <2> QED BY <1>2, <2>2, <2>4, HandsKeep DEF SessionInv
<1>3. CASE CheckNext
  <2>1. UNCHANGED <<keys, play, history, capture>>
    BY Zenon, <1>3 DEF CheckNext, LoadView, CheckEffects, Retry, verify
  <2>2. KeyInv' /\ HandInv'
    BY <2>1, SameHands DEF SessionInv, KeyInv, UnlockedKeyWillLock
  <2> QED BY <1>3, <2>2, CheckKeeps DEF SessionInv
<1>4. CASE UNCHANGED sessionVars
  BY <1>4, SameHands
     DEF sessionVars, SessionInv, KeyInv, UnlockedKeyWillLock, CheckInv, BadgeMatchesTables
<1> QED BY <1>1, <1>2, <1>3, <1>4

\* In whatever order the player unlocks, protects, plays and clicks, and whenever React
\* runs the effects: an encrypted key that is open has its lock timer set, and a locked
\* page holds no key (resetKeyLockTimer).
THEOREM KeysAlwaysLock == SessionSpec => []UnlockedKeyWillLock
<1>1. SessionInv => UnlockedKeyWillLock
  BY DEF SessionInv, KeyInv
<1> QED BY <1>1, SessionInitOk, SessionNextOk, PTL DEF SessionSpec

\* For any number of hands and any length of the history, in whatever order tables,
\* events, effects and timers come: a hand is in the history once, a completed one shows
\* its winners and cards unless an event was overtaken, and the badge is about the two
\* tables shown (addHandResult, the effect on [events], runComparison).
THEOREM PageAlwaysTellsTheTruth == SessionSpec => []PageTellsTheTruth
<1>1. SessionInv => PageTellsTheTruth
  BY DEF SessionInv, CheckInv, HandInv, PageTellsTheTruth
<1> QED BY <1>1, SessionInitOk, SessionNextOk, PTL DEF SessionSpec
=============================================================================
