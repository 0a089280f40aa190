----------------------------- MODULE PokerTable -----------------------------
(***************************************************************************)
(* One table of the x/poker module: its seats, the hand being played, and  *)
(* the module account that holds everybody's chips.                        *)
(*                                                                         *)
(* Every message is one atomic step (an error reverts the transaction), so *)
(* an action is a whole handler: load the table, mutate it, store it.  The *)
(* operators below keep the names of the Go functions they translate and   *)
(* map a table to the mutated table.                                       *)
(*                                                                         *)
(* x/dealer drives a hand through the calls it makes into x/poker; here it *)
(* is an environment that makes any of them whenever x/poker accepts it.   *)
(***************************************************************************)
EXTENDS SidePots

CONSTANTS
    Players,            \* accounts that may sit (they know the table's password)
    NoPlayer,           \* the empty Player string of a free seat
    SmallBlind, BigBlind, MinBuyIn, MaxBuyIn, PlayerBond,
    ActionTimeoutSecs, DealerTimeoutSecs,
    InterHandCooldownBlocks,
    DeckSizes,          \* deck sizes InitHand is called with
    Funding,            \* what each player's account holds at the start
    Amounts,            \* chip amounts that messages carry
    Ranks,              \* strengths the seven-card evaluation distinguishes
    BlockSecs,          \* seconds that pass from one block to the next
    MaxHands            \* bound: hands started

\* What CreateTable accepts (a timeout of 0 is replaced by a positive default)
\* and what InitHand accepts.
ASSUME TableParams ==
    /\ NoPlayer \notin Players
    /\ SmallBlind \in Nat \ {0} /\ BigBlind \in Nat \ {0} /\ SmallBlind <= BigBlind
    /\ MinBuyIn \in Nat \ {0} /\ MaxBuyIn \in Nat /\ MinBuyIn <= MaxBuyIn
    /\ PlayerBond \in Nat
    /\ ActionTimeoutSecs \in Nat \ {0} /\ DealerTimeoutSecs \in Nat \ {0}
    /\ InterHandCooldownBlocks \in Nat
    /\ DeckSizes \subseteq 2..52
    /\ Funding \in Nat
    /\ Amounts \subseteq Nat
    /\ Ranks \subseteq Nat
    /\ BlockSecs \subseteq Nat

VARIABLES
    table,      \* the stored types.Table, its hand's fields included
    escrow,     \* balance of the poker module account
    wallet,     \* balance of each player's account
    cooldown,   \* blocks left of the inter-hand cooldown
    hands,      \* hands started so far (NextHandId - 1)
    dealtTo     \* history: the player each seat's cards were dealt to

vars == <<table, escrow, wallet, cooldown, hands, dealtTo>>

Zero    == [s \in Seats |-> 0]
Unset   == -1
BoardPhases == {"AWAIT_FLOP", "AWAIT_TURN", "AWAIT_RIVER"}
Awaiting    == BoardPhases \cup {"AWAIT_SHOWDOWN"}
Phases      == {"NONE", "SHUFFLE", "BETTING"} \cup Awaiting
Streets     == {"PREFLOP", "FLOP", "TURN", "RIVER"}
Nobody  == [s \in Seats |-> NoPlayer]

\* A stored table.  phase "NONE" stands for Hand == nil, with the hand's fields
\* at rest.  The two deadlines are kept as the seconds still to go (Unset: no
\* deadline), hole cards as how many of them are public, the deck as its size.
TableType ==
    [player : [Seats -> Players \cup {NoPlayer}],
     stack : [Seats -> Nat], bond : [Seats -> Nat], button : -1..8,
     phase : Phases, street : Streets, bb : -1..8, actionOn : -1..8,
     betTo : Nat, minRaise : Nat, interval : Nat,
     inHand : SUBSET Seats, folded : SUBSET Seats, allIn : SUBSET Seats,
     streetCommit : [Seats -> Nat], totalCommit : [Seats -> Nat],
     lastActed : [Seats -> Int],
     board : Nat, shown : Nat, deckSize : Nat, deckFinalized : BOOLEAN,
     actionTimer : Int, revealTimer : Int]

\* The seats of a table with no hand in progress.
Idle(player, stack, bond, button) ==
    [player |-> player, stack |-> stack, bond |-> bond, button |-> button,
     phase |-> "NONE", street |-> "PREFLOP", bb |-> Unset, actionOn |-> Unset,
     betTo |-> 0, minRaise |-> 0, interval |-> 0,
     inHand |-> {}, folded |-> {}, allIn |-> {},
     streetCommit |-> Zero, totalCommit |-> Zero,
     lastActed |-> [s \in Seats |-> Unset],
     board |-> 0, shown |-> 0, deckSize |-> 0, deckFinalized |-> FALSE,
     actionTimer |-> Unset, revealTimer |-> Unset]

ClearHand(t) == Idle(t.player, t.stack, t.bond, t.button)

\* SetTable: a seat without a player holds nothing.
SetTable(t) ==
    [t EXCEPT !.stack = [s \in Seats |-> IF t.player[s] = NoPlayer THEN 0 ELSE t.stack[s]],
              !.bond  = [s \in Seats |-> IF t.player[s] = NoPlayer THEN 0 ELSE t.bond[s]]]

-----------------------------------------------------------------------------
(* Seats *)

EmptySeats(t)    == {s \in Seats : t.player[s] = NoPlayer}
SeatsOf(t, p)    == {s \in Seats : t.player[s] = p}
seatOfPlayer(t, p) == NextSeat(8, SeatsOf(t, p))
occupiedSeatsWithStack(t) == {s \in Seats : t.stack[s] > 0}

nextOccupiedSeat(t, from) ==
    IF occupiedSeatsWithStack(t) = {} THEN from
    ELSE NextSeat(from, occupiedSeatsWithStack(t))

\* blindSeats, for a table with at least two funded seats: heads-up the button
\* posts the small blind.
sbSeat(t) == IF SeatCount(occupiedSeatsWithStack(t)) = 2 THEN t.button
             ELSE nextOccupiedSeat(t, t.button)
bbSeat(t) == nextOccupiedSeat(t, sbSeat(t))

\* Mutant: the seat after the big blind is given away even when it is taken.
autoAssignTakenSeat(t) == NextSeat(IF t.phase # "NONE" THEN t.bb ELSE t.button, Seats)

autoAssignSeat(t) ==
    LET fresh == t.button < 0 /\ t.phase = "NONE"
        from  == IF fresh THEN 8
                 ELSE IF t.phase # "NONE" THEN t.bb
                 ELSE IF SeatCount(occupiedSeatsWithStack(t)) >= 2 THEN bbSeat(t)
                 ELSE t.button
    IN  NextSeat(from, EmptySeats(t))

-----------------------------------------------------------------------------
(* Betting *)

Live(t)       == t.inHand \ t.folded
WithChips(t)  == {s \in Live(t) : t.stack[s] > 0}

NeedsToAct(t) == {s \in Live(t) \ t.allIn : \/ t.lastActed[s] # t.interval
                                            \/ t.streetCommit[s] # t.betTo}

nextActiveToAct(t, from) ==
    IF NeedsToAct(t) = {} THEN Unset ELSE NextSeat(from, NeedsToAct(t))

toCall(t, s) == IF t.betTo <= t.streetCommit[s] THEN 0 ELSE t.betTo - t.streetCommit[s]

\* Chips move from the stack to the pot; an emptied stack is all-in.
Put(t, s, n) ==
    [t EXCEPT !.stack[s] = @ - n, !.streetCommit[s] = @ + n, !.totalCommit[s] = @ + n,
              !.allIn = IF t.stack[s] = n THEN @ \cup {s} ELSE @]

postBlindCommit(t, s, amount) == Put(t, s, Lesser(amount, t.stack[s]))

applyFold(t, s)  == [t EXCEPT !.folded = @ \cup {s}, !.lastActed[s] = t.interval]

\* Mutant: a check is not recorded as an action.
applyCheckUnrecorded(t, s) == t

applyCheck(t, s) == [t EXCEPT !.lastActed[s] = t.interval]

applyCall(t, s)  ==
    [Put(t, s, Lesser(toCall(t, s), t.stack[s])) EXCEPT !.lastActed[s] = t.interval]

\* A bet or raise to `desired` is accepted: within the stack, above the bet, not
\* twice since the last full raise, and of full size unless it is all-in.
BetToAccepted(t, s, desired) ==
    LET maxCommit == t.streetCommit[s] + t.stack[s]
    IN  /\ desired > t.streetCommit[s]
        /\ desired <= maxCommit
        /\ desired > t.betTo
        /\ t.lastActed[s] # t.interval
        /\ \/ desired = maxCommit
           \/ IF t.betTo = 0 THEN desired >= BigBlind
                             ELSE desired - t.betTo >= t.minRaise

applyBetTo(t, s, desired) ==
    LET opens == t.betTo = 0
        full  == opens \/ desired - t.betTo >= t.minRaise
        now   == IF full THEN t.interval + 1 ELSE t.interval
    IN  [Put(t, s, desired - t.streetCommit[s]) EXCEPT
            !.interval = now, !.lastActed[s] = now, !.betTo = desired,
            !.minRaise = IF opens THEN IF desired >= BigBlind THEN desired ELSE BigBlind
                         ELSE IF full THEN desired - t.betTo ELSE @]

\* Mutant: the excess stays in the pot as well.
returnExcessTwice(t) ==
    LET c      == t.streetCommit
        top    == TopSeat(c, Seats)
        excess == c[top] - c[TopSeat(c, Seats \ {top})]
    IN  [t EXCEPT !.stack[top] = @ + excess]

\* Mutant: the seat stays flagged all-in.
returnExcessStillAllIn(t) ==
    LET c      == t.streetCommit
        top    == TopSeat(c, Seats)
        excess == c[top] - c[TopSeat(c, Seats \ {top})]
    IN  [t EXCEPT !.stack[top] = @ + excess, !.streetCommit[top] = @ - excess,
                  !.totalCommit[top] = @ - excess]

\* The part of the street's largest commitment that nobody matched goes back.
returnUncalledStreetExcess(t) ==
    LET c      == t.streetCommit
        top    == TopSeat(c, Seats)
        excess == c[top] - c[TopSeat(c, Seats \ {top})]
    IN  IF excess = 0 THEN t
        ELSE [t EXCEPT !.stack[top] = @ + excess, !.streetCommit[top] = @ - excess,
                       !.totalCommit[top] = @ - excess, !.allIn = @ \ {top}]

completeByFolds(t) ==
    LET winner == NextSeat(8, Live(t))
        u      == returnUncalledStreetExcess(t)
    IN  IF Live(t) = {} THEN ClearHand(t)
        ELSE ClearHand([u EXCEPT !.stack[winner] = @ + SeatSum(u.totalCommit)])

AwaitAfter == [PREFLOP |-> "AWAIT_FLOP", FLOP |-> "AWAIT_TURN",
               TURN |-> "AWAIT_RIVER", RIVER |-> "AWAIT_SHOWDOWN"]

maybeAdvance(t) ==
    IF SeatCount(Live(t)) <= 1 THEN completeByFolds(t)
    ELSE IF NeedsToAct(t) # {} THEN [t EXCEPT !.actionOn = nextActiveToAct(t, t.actionOn)]
    ELSE [returnUncalledStreetExcess(t) EXCEPT !.actionOn = Unset,
                                               !.phase = AwaitAfter[t.street]]

-----------------------------------------------------------------------------
(* Deadlines and reveals *)

setDeadlines(t) ==
    [t EXCEPT !.revealTimer = IF t.phase \in Awaiting THEN DealerTimeoutSecs ELSE Unset,
              !.actionTimer = IF t.phase = "BETTING" /\ t.actionOn >= 0
                              THEN ActionTimeoutSecs ELSE Unset]

\* finalizeDeck deals hole cards from the top of the deck until it runs out.
Cursor(t) == Lesser(2 * SeatCount(t.inHand), t.deckSize)

\* dealerExpectedRevealPos does not fail: the next board card is in the deck.
RevealInDeck(t) == t.phase \in BoardPhases => Cursor(t) + t.board < t.deckSize

resetPostflopBettingRound(t) ==
    LET u == [t EXCEPT !.betTo = 0, !.minRaise = BigBlind, !.interval = 0,
                       !.streetCommit = Zero, !.lastActed = [s \in Seats |-> Unset]]
    IN  [u EXCEPT !.actionOn = nextActiveToAct(u, u.button)]

StreetOf  == [AWAIT_FLOP |-> "FLOP", AWAIT_TURN |-> "TURN", AWAIT_RIVER |-> "RIVER"]
BoardSize == [AWAIT_FLOP |-> 3, AWAIT_TURN |-> 4, AWAIT_RIVER |-> 5]

\* One more board card; the last one of a street opens the betting, unless
\* fewer than two players have chips left to bet.
revealBoardCard(t) ==
    LET u      == [t EXCEPT !.board = @ + 1]
        street == StreetOf[t.phase]
    IN  IF u.board # BoardSize[t.phase] THEN u
        ELSE IF SeatCount(WithChips(u)) < 2
        THEN [u EXCEPT !.street = street, !.phase = AwaitAfter[street], !.actionOn = Unset]
        ELSE resetPostflopBettingRound([u EXCEPT !.street = street, !.phase = "BETTING"])

settleKnownShowdown(t, rank) ==
    LET won == Payout(t.totalCommit, Live(t), rank)
    IN  IF t.board < 5 THEN ClearHand(t)
        ELSE ClearHand([t EXCEPT !.stack = [s \in Seats |-> t.stack[s] + won[s]]])

\* Mutant: only seats with live cards get their commitments back.
abortHandRefundLive(t) ==
    ClearHand([t EXCEPT !.stack = [s \in Seats |->
        t.stack[s] + (IF s \in Live(t) THEN t.totalCommit[s] ELSE 0)]])

abortHandRefundAllCommits(t) ==
    ClearHand([t EXCEPT !.stack = [s \in Seats |-> t.stack[s] + t.totalCommit[s]]])

-----------------------------------------------------------------------------
(* Messages of players *)

Init ==
    /\ table    = Idle(Nobody, Zero, Zero, Unset)
    /\ escrow   = 0
    /\ wallet   = [p \in Players |-> Funding]
    /\ cooldown = 0
    /\ hands    = 0
    /\ dealtTo  = Nobody

Sit(p, buyIn) ==
    LET s == autoAssignSeat(table)
    IN  /\ SeatsOf(table, p) = {}
        /\ EmptySeats(table) # {}
        /\ MinBuyIn <= buyIn /\ buyIn <= MaxBuyIn
        /\ wallet[p] >= buyIn + PlayerBond
        /\ wallet' = [wallet EXCEPT ![p] = @ - (buyIn + PlayerBond)]
        /\ escrow' = escrow + buyIn + PlayerBond
        /\ table'  = SetTable([table EXCEPT !.player[s] = p, !.stack[s] = buyIn,
                                            !.bond[s] = PlayerBond])
        /\ UNCHANGED <<cooldown, hands, dealtTo>>

Rebuy(p, amount) ==
    LET s == seatOfPlayer(table, p)
    IN  /\ SeatsOf(table, p) # {}
        /\ s \notin table.inHand
        /\ amount > 0
        /\ table.stack[s] + amount <= MaxBuyIn
        /\ wallet[p] >= amount
        /\ wallet' = [wallet EXCEPT ![p] = @ - amount]
        /\ escrow' = escrow + amount
        /\ table'  = SetTable([table EXCEPT !.stack[s] = @ + amount])
        /\ UNCHANGED <<cooldown, hands, dealtTo>>

\* Mutant: a player with live cards may leave.
LeaveAnyTime(p) ==
    LET s      == seatOfPlayer(table, p)
        amount == table.stack[s] + table.bond[s]
    IN  /\ SeatsOf(table, p) # {}
        /\ escrow >= amount
        /\ wallet' = [wallet EXCEPT ![p] = @ + amount]
        /\ escrow' = escrow - amount
        /\ table'  = SetTable([table EXCEPT !.player[s] = NoPlayer])
        /\ UNCHANGED <<cooldown, hands, dealtTo>>

\* Only a seat with live cards is held back: a folded player may leave while
\* the chips that seat committed are still in the pot.
Leave(p) ==
    LET s      == seatOfPlayer(table, p)
        amount == table.stack[s] + table.bond[s]
    IN  /\ SeatsOf(table, p) # {}
        /\ s \notin Live(table)
        /\ escrow >= amount
        /\ wallet' = [wallet EXCEPT ![p] = @ + amount]
        /\ escrow' = escrow - amount
        /\ table'  = SetTable([table EXCEPT !.player[s] = NoPlayer])
        /\ UNCHANGED <<cooldown, hands, dealtTo>>

\* The new hand: button moved, funded seats dealt in, blinds posted, action on
\* the first seat after the big blind that still has a decision.
DealIn(t) ==
    LET button == IF t.button < 0 THEN NextSeat(8, occupiedSeatsWithStack(t))
                  ELSE nextOccupiedSeat(t, t.button)
        seated == ClearHand([t EXCEPT !.button = button])
        bb     == bbSeat(seated)
        fresh  == [seated EXCEPT !.phase = "SHUFFLE", !.bb = bb, !.minRaise = BigBlind,
                                 !.inHand = occupiedSeatsWithStack(t)]
        posted == postBlindCommit(postBlindCommit(fresh, sbSeat(seated), SmallBlind),
                                  bb, BigBlind)
        opened == [posted EXCEPT !.betTo = posted.streetCommit[bb]]
    IN  [opened EXCEPT !.actionOn = nextActiveToAct(opened, bb)]

\* Mutant: the moved button is not stored.
StartHandKeepsButton(p) ==
    /\ SeatsOf(table, p) # {}
    /\ table.phase = "NONE"
    /\ cooldown = 0
    /\ SeatCount(occupiedSeatsWithStack(table)) >= 2
    /\ hands < MaxHands
    /\ hands'   = hands + 1
    /\ table'   = SetTable([DealIn(table) EXCEPT !.button = table.button])
    /\ dealtTo' = [s \in Seats |-> IF table.stack[s] > 0 THEN table.player[s] ELSE NoPlayer]
    /\ UNCHANGED <<escrow, wallet, cooldown>>

StartHand(p) ==
    /\ SeatsOf(table, p) # {}
    /\ table.phase = "NONE"
    /\ cooldown = 0
    /\ SeatCount(occupiedSeatsWithStack(table)) >= 2
    /\ hands < MaxHands
    /\ hands'   = hands + 1
    /\ table'   = SetTable(DealIn(table))
    /\ dealtTo' = [s \in Seats |-> IF table.stack[s] > 0 THEN table.player[s] ELSE NoPlayer]
    /\ UNCHANGED <<escrow, wallet, cooldown>>

\* ejectBondlessSeats: between hands, seats whose bond is used up are paid
\* their stack and emptied.
Bondless(t) ==
    {s \in Seats : /\ t.phase = "NONE" /\ PlayerBond # 0
                   /\ t.player[s] # NoPlayer /\ t.bond[s] = 0}

StacksOf(t, S) == [s \in Seats |-> IF s \in S THEN t.stack[s] ELSE 0]

Vacate(t, S) == [t EXCEPT !.player = [s \in Seats |-> IF s \in S THEN NoPlayer ELSE t.player[s]]]

\* The end of Act and Tick: store t and, when the hand is over, eject and start
\* the cooldown.  `balance` is what the module account holds at that point.
Conclude(t, balance) ==
    LET out  == Bondless(t)
        paid == StacksOf(t, out)
    IN  /\ balance >= SeatSum(paid)
        /\ table'    = SetTable(Vacate(t, out))
        /\ escrow'   = balance - SeatSum(paid)
        /\ wallet'   = [p \in Players |-> wallet[p] + SeatSum(StacksOf(t, out \cap SeatsOf(t, p)))]
        /\ cooldown' = IF t.phase = "NONE" THEN InterHandCooldownBlocks ELSE cooldown
        /\ dealtTo'  = IF t.phase = "NONE" THEN Nobody ELSE dealtTo
        /\ UNCHANGED hands

\* applyAction, once the mover's own action has produced t.
Moved(t) == setDeadlines(maybeAdvance(t))

CanAct(t) == t.phase = "BETTING" /\ t.actionOn \in Live(t) \ t.allIn

Act(p, t) ==
    /\ CanAct(table)
    /\ table.player[table.actionOn] = p
    /\ RevealInDeck(Moved(t))
    /\ Conclude(SetTable(Moved(t)), escrow)

Fold(p)  == Act(p, applyFold(table, table.actionOn))

Check(p) == /\ CanAct(table)
            /\ toCall(table, table.actionOn) = 0
            /\ Act(p, applyCheck(table, table.actionOn))

Call(p)  == /\ CanAct(table)
            /\ toCall(table, table.actionOn) > 0
            /\ Act(p, applyCall(table, table.actionOn))

\* "bet" when nothing has been bet on this street, "raise" otherwise.
BetTo(p, desired) ==
    /\ CanAct(table)
    /\ BetToAccepted(table, table.actionOn, desired)
    /\ Act(p, applyBetTo(table, table.actionOn, desired))

\* Anybody may move for a player whose deadline has passed; the player's bond
\* pays up to one big blind to the fee collector.
timeoutSlash(t) == Lesser(BigBlind, t.bond[t.actionOn])

Ticked(t) ==
    LET s == t.actionOn
        u == [t EXCEPT !.bond[s] = @ - timeoutSlash(t)]
    IN  Moved(IF toCall(u, s) = 0 THEN applyCheck(u, s) ELSE applyFold(u, s))

TickDue ==
    /\ CanAct(table)
    /\ table.actionTimer = 0
    /\ escrow >= timeoutSlash(table)
    /\ RevealInDeck(Ticked(table))

Tick == TickDue /\ Conclude(SetTable(Ticked(table)), escrow - timeoutSlash(table))

-----------------------------------------------------------------------------
(* Calls of x/dealer *)

\* A call of x/dealer that leaves t; ending a hand this way pays nobody out and
\* starts no cooldown.
DealerStores(t) ==
    /\ table'   = SetTable(t)
    /\ dealtTo' = IF t.phase = "NONE" THEN Nobody ELSE dealtTo
    /\ UNCHANGED <<escrow, wallet, cooldown, hands>>

InitHand(size) ==
    /\ table.phase = "SHUFFLE" /\ table.deckSize = 0
    /\ DealerStores([table EXCEPT !.deckSize = size, !.deckFinalized = FALSE,
                                  !.revealTimer = Unset])

FinalizeDeck ==
    /\ table.phase = "SHUFFLE" /\ table.deckSize # 0 /\ ~table.deckFinalized
    /\ DealerStores([table EXCEPT !.deckFinalized = TRUE, !.revealTimer = Unset])

\* Reached only when every dealt-in seat has both hole positions.
AdvanceAfterHoleSharesReady ==
    LET t == setDeadlines([table EXCEPT !.phase = IF table.actionOn = Unset
                                                  THEN "AWAIT_FLOP" ELSE "BETTING"])
    IN  /\ table.phase = "SHUFFLE" /\ table.deckFinalized
        /\ 2 * SeatCount(table.inHand) <= table.deckSize
        /\ RevealInDeck(t)
        /\ DealerStores(t)

RevealBoard ==
    LET t == revealBoardCard(table)
    IN  /\ table.phase \in BoardPhases /\ table.revealTimer # Unset
        /\ RevealInDeck(t)
        /\ DealerStores(setDeadlines(t))

MoreHoleCards(t) == t.shown < 2 * SeatCount(Live(t))

RevealHole ==
    LET t == [table EXCEPT !.shown = @ + 1]
    IN  /\ table.phase = "AWAIT_SHOWDOWN" /\ table.revealTimer # Unset
        /\ MoreHoleCards(t)
        /\ DealerStores(setDeadlines(t))

LastHoleCard(t) ==
    /\ t.phase = "AWAIT_SHOWDOWN" /\ t.revealTimer # Unset
    /\ ~MoreHoleCards([t EXCEPT !.shown = @ + 1])

\* The last hole card settles the hand, whatever the cards are worth.
SettleShowdown ==
    /\ LastHoleCard(table)
    /\ \E rank \in [Live(table) -> Ranks] : DealerStores(settleKnownShowdown(table, rank))

\* The evaluation fails (it rejects duplicate cards): commitments are refunded.
SettleEvalError ==
    /\ LastHoleCard(table)
    /\ DealerStores(abortHandRefundAllCommits(table))

\* dealer/timeout gives the hand up: the committee fell below its threshold, or
\* the epoch was rotated (then in any phase).
AbortHand ==
    /\ table.phase # "NONE" /\ table.deckSize # 0
    /\ DealerStores(abortHandRefundAllCommits(table))

-----------------------------------------------------------------------------
(* Time *)

Elapse(timer, secs) ==
    IF timer = Unset THEN Unset ELSE IF timer <= secs THEN 0 ELSE timer - secs

NextBlock(secs) ==
    /\ cooldown' = IF cooldown = 0 THEN 0 ELSE cooldown - 1
    /\ table' = [table EXCEPT !.actionTimer = Elapse(@, secs), !.revealTimer = Elapse(@, secs)]
    /\ UNCHANGED <<escrow, wallet, hands, dealtTo>>

Next ==
    \/ \E p \in Players, n \in Amounts : Sit(p, n)
    \/ \E p \in Players, n \in Amounts : Rebuy(p, n)
    \/ \E p \in Players : Leave(p)
    \/ \E p \in Players : StartHand(p)
    \/ \E p \in Players : Fold(p)
    \/ \E p \in Players : Check(p)
    \/ \E p \in Players : Call(p)
    \/ \E p \in Players, n \in Amounts : BetTo(p, n)
    \/ Tick
    \/ \E size \in DeckSizes : InitHand(size)
    \/ FinalizeDeck
    \/ AdvanceAfterHoleSharesReady
    \/ RevealBoard
    \/ RevealHole
    \/ SettleShowdown
    \/ SettleEvalError
    \/ AbortHand
    \/ \E secs \in BlockSecs : NextBlock(secs)

Spec == Init /\ [][Next]_vars

\* Blocks keep coming with later timestamps, and somebody submits the tick that
\* is due: after the deadline any account may.  The second conjunct is weak
\* fairness of Tick with its enabling condition written out (Solvent makes
\* TickDue the whole of it).
FairSpec == /\ Spec
            /\ WF_vars(\E secs \in BlockSecs \ {0} : NextBlock(secs))
            /\ []<>~TickDue \/ []<><<Tick>>_vars

-----------------------------------------------------------------------------
(* Properties *)

\* Every stored table is well formed and no balance is negative: in particular
\* no subtraction in the betting code goes below zero.
TypeOK ==
    /\ table \in TableType
    /\ escrow \in Nat
    /\ wallet \in [Players -> Nat]
    /\ cooldown \in Nat
    /\ hands \in Nat
    /\ dealtTo \in [Seats -> Players \cup {NoPlayer}]

\* What the module account owes for this table: stacks, bonds and the pot.
Owed(t) == SeatSum(t.stack) + SeatSum(t.bond) + SeatSum(t.totalCommit)

\* The module account can always pay out every stack, every bond and the whole
\* pot: no handler ever credits chips that were not escrowed.
Solvent == escrow >= Owed(table)

\* returnUncalledStreetExcess never meets its "total commit underflow" error: a
\* seat's commitment on this street is part of its commitment to the hand.
StreetWithinTotal ==
    \A s \in Seats : table.streetCommit[s] <= table.totalCommit[s]

\* The module account holds exactly what the table owes: no handler drops chips
\* without paying them out, either.
NothingStranded == escrow = Owed(table)

\* Sit's double-seat check works in every state: nobody holds two seats.
OneSeatEach ==
    \A s, o \in Seats : table.player[s] = table.player[o] /\ s # o
                            => table.player[s] = NoPlayer

\* While the hand is in BETTING, actionOn is a seat that has a decision to make,
\* so neither Act nor Tick can be refused by the eligibility check.
ActorHasDecision == table.phase = "BETTING" => table.actionOn \in NeedsToAct(table)

\* A hand in progress is contested, and the flags agree with the stacks: an
\* unfolded seat is all-in exactly when it has no chips left.
AllInMeansBroke ==
    table.phase # "NONE" =>
        /\ SeatCount(Live(table)) >= 2
        /\ \A s \in Live(table) : s \in table.allIn <=> table.stack[s] = 0

\* A seat with live cards is still held by the player the cards were dealt to,
\* however the others sit, leave or rebuy in the meantime.
LiveSeatKeepsPlayer ==
    \A s \in Live(table) : table.player[s] # NoPlayer /\ table.player[s] = dealtTo[s]

\* However players sit, leave, rebuy and are ejected around a hand, a seat is one
\* player's and a player has one seat; cards stay with whom they were dealt to.
SeatsArePersonal == OneSeatEach /\ LiveSeatKeepsPlayer

\* Somebody is always on the clock: the action deadline is set exactly while a
\* player must act and the reveal deadline exactly while the dealer must.
ClockIsRunning ==
    /\ table.actionTimer # Unset <=> table.phase = "BETTING"
    /\ table.revealTimer # Unset <=> table.phase \in Awaiting

\* When the dealer's turn comes, a live seat that is not all-in has paid as much
\* into the pot as any other live seat.
BetsAreMatched ==
    table.phase \in Awaiting =>
        \A s \in Live(table) \ table.allIn, o \in Live(table) :
            table.totalCommit[o] <= table.totalCommit[s]

\* After any bets, folds, short all-ins, returned excesses, ticks and reveals, a
\* hand in progress can go on: the seat to act may act, the flags agree with the
\* stacks, one deadline runs, and the dealer's turn finds the bets matched.
HandIsCoherent == ActorHasDecision /\ AllInMeansBroke /\ ClockIsRunning /\ BetsAreMatched

\* Chips that are player p's own: outside the table, at p's seat, or committed
\* behind live cards.
Worth(p) ==
    wallet[p] + SeatSum([s \in Seats |->
        IF table.player[s] # p THEN 0
        ELSE table.stack[s] + table.bond[s]
             + (IF s \in Live(table) THEN table.totalCommit[s] ELSE 0)])

Mover == IF table.phase = "BETTING" THEN {table.player[table.actionOn]} ELSE {}

\* As long as the hand goes on, a step costs chips to nobody but the player
\* whose turn it is.
OnlyMoverPays ==
    [][table'.phase # "NONE" \/ table.phase = "NONE"
        => \A p \in Players \ Mover : Worth(p)' >= Worth(p)]_vars

\* Worth with everything that p's seat has put into the pot, folded or not.
Invested(p) ==
    wallet[p] + SeatSum([s \in Seats |->
        IF table.player[s] # p THEN 0
        ELSE table.stack[s] + table.bond[s] + table.totalCommit[s]])

Refunded == AbortHand \/ SettleEvalError

\* A hand that is given up takes nothing from a player who kept the seat, folded
\* or not: what the seat put into the pot is back in its stack.
AbortCostsNothing == Refunded => \A p \in Players : Invested(p)' = Invested(p)

\* At the showdown a seat never wins more than it can match: at most its own
\* commitment from every seat.
WinningsAreCovered ==
    table.phase = "AWAIT_SHOWDOWN" /\ table'.phase = "NONE" =>
        \A s \in Seats : table'.stack[s] - table.stack[s] <=
            SeatSum([o \in Seats |-> Lesser(table.totalCommit[o], table.totalCommit[s])])

\* Commitments from seats that have been left since.
Vacated == SeatSum([s \in Seats |-> IF table.player[s] = NoPlayer THEN table.totalCommit[s] ELSE 0])

\* Commitments above those of every live seat: no live seat may win them.
Unmatched ==
    LET top == table.totalCommit[TopSeat(table.totalCommit, Live(table))]
    IN  SeatSum([s \in Seats |-> table.totalCommit[s] - Lesser(table.totalCommit[s], top)])

\* The chips that no longer belong to anybody are exactly the two losses the code has
\* (dealer_integration.go:51, logic.go:834): a refund to a seat that was left, and at
\* the showdown what folded seats put in above every live one.
PotIsAccountedFor ==
    LET lost == (escrow' - Owed(table')) - (escrow - Owed(table))
        ends == table.phase # "NONE" /\ table'.phase = "NONE"
    IN  IF ends /\ (Refunded \/ SettleShowdown)
        THEN (Refunded => lost = Vacated) /\ (SettleShowdown => lost = Unmatched)
        ELSE lost = 0

\* However a hand ends, by folds, by settleKnownShowdown over any side pots, or given
\* up: seats that are still held are refunded, nobody wins what they did not match, and
\* nothing of the pot goes lost but Vacated or Unmatched.
PayoutsAreFair == [][AbortCostsNothing /\ WinningsAreCovered /\ PotIsAccountedFor]_vars

\* Whichever seats were emptied, filled or went broke since the last hand,
\* StartHand moves the button, and two different seats in the hand pay a blind.
\* The button pays one only heads-up, and never the big one.
BlindsGoRound ==
    [][hands' # hands =>
        LET posted == {s \in Seats : table'.totalCommit[s] > 0}
        IN  /\ table'.button \in table'.inHand \ {table.button}
            /\ table'.bb \in posted \ {table'.button}
            /\ posted \subseteq table'.inHand /\ SeatCount(posted) = 2
            /\ (table'.button \in posted) <=> (SeatCount(table'.inHand) = 2)]_vars

\* Seats whose bond is used up are ejected between hands.  It does not hold: a hand
\* that x/dealer ends leaves them until the next message of a player.
BondlessAreEjected ==
    table.phase = "NONE" /\ PlayerBond # 0 =>
        \A s \in Seats \ EmptySeats(table) : table.bond[s] > 0

\* However a hand ends, the next one cannot start before the cooldown is over.  It
\* does not hold: a hand that x/dealer ends sets no cooldown.
CooldownAfterHand ==
    [][table.phase # "NONE" /\ table'.phase = "NONE"
        => cooldown' = InterHandCooldownBlocks]_vars

\* Betting ends: whatever the players do or fail to do, the ticks that anybody
\* may send after a deadline bring every betting round to its end.
BettingEnds == table.phase = "BETTING" ~> table.phase # "BETTING"
=============================================================================
