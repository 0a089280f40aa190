---------------------------- MODULE TableClients ----------------------------
(***************************************************************************)
(* The table of x/poker beside two pieces of code that have to agree with  *)
(* it: the rules of packages/poker-engine, and the moves of apps/bot.      *)
(***************************************************************************)
EXTENDS PokerTable

Engine == INSTANCE PokerEngine WITH RefundBlinds <- TRUE
Bot    == INSTANCE Bots

-----------------------------------------------------------------------------
(* The engine *)

StreetName == [PREFLOP |-> "preflop", FLOP |-> "flop", TURN |-> "turn", RIVER |-> "river"]

\* The engine does not deal: its betting starts with the hand, and a hand on
\* which nobody has a decision is at its showdown.
PhaseName(t) ==
    CASE t.phase = "NONE"    -> "none"
      [] t.phase = "SHUFFLE" -> IF t.actionOn = Unset THEN "showdown" ELSE "betting"
      [] t.phase = "BETTING" -> "betting"
      [] OTHER               -> "showdown"

\* A table of the chain as a TableState of the engine.
AsEngine(t) ==
    [Engine!createTableState EXCEPT
        !.seated = Seats \ EmptySeats(t), !.stack = t.stack, !.button = t.button,
        !.phase = PhaseName(t), !.street = StreetName[t.street], !.bb = t.bb,
        !.actionOn = t.actionOn, !.betTo = t.betTo, !.minRaiseSize = t.minRaise,
        !.intervalId = t.interval, !.lastIntervalActed = t.lastActed,
        !.streetCommit = t.streetCommit, !.totalCommit = t.totalCommit,
        !.inHand = t.inHand, !.folded = t.folded, !.allIn = t.allIn]

\* The table once the dealer has revealed all that the betting waits for.
NextCard(t) == IF t.phase \in BoardPhases THEN revealBoardCard(t) ELSE t
BoardDealt(t) == NextCard(NextCard(NextCard(NextCard(NextCard(t)))))

\* The engine's state e and the chain's table t tell the same: whose chips are
\* where, who is in, and what the seat to act may do.
SameHand(e, t) ==
    /\ e.stack = t.stack /\ e.totalCommit = t.totalCommit
    /\ IF t.phase = "NONE" THEN e.phase = "complete"
       ELSE /\ e.phase = PhaseName(t)
            /\ e.inHand = t.inHand /\ e.folded = t.folded /\ e.allIn = t.allIn
    /\ PhaseName(t) = "betting" =>
         /\ e.street = StreetName[t.street] /\ e.actionOn = t.actionOn /\ e.betTo = t.betTo
         /\ e.minRaiseSize = t.minRaise /\ e.intervalId = t.interval
         /\ e.lastIntervalActed = t.lastActed /\ e.streetCommit = t.streetCommit

Busted(t) == {s \in Seats \ EmptySeats(t) : t.stack[s] = 0}

\* The actions a seat may try, with what the chain makes of each.
Moves == {Engine!Action(k, 0) : k \in {"Fold", "Check", "Call"}}
         \cup {Engine!Action("BetTo", n) : n \in Amounts}

ChainAccepts(t, a) ==
    CanAct(t) /\ CASE a.kind = "Fold"  -> TRUE
                   [] a.kind = "Check" -> toCall(t, t.actionOn) = 0
                   [] a.kind = "Call"  -> toCall(t, t.actionOn) > 0
                   [] a.kind = "BetTo" -> BetToAccepted(t, t.actionOn, a.amount)

ChainApplies(t, a) ==
    BoardDealt(maybeAdvance(CASE a.kind = "Fold"  -> applyFold(t, t.actionOn)
                              [] a.kind = "Check" -> applyCheck(t, t.actionOn)
                              [] a.kind = "Call"  -> applyCall(t, t.actionOn)
                              [] a.kind = "BetTo" -> applyBetTo(t, t.actionOn, a.amount)))

\* Whatever the seat to act tries, the engine accepts it exactly when the chain
\* does, and both then hold the same hand; so do an expired deadline and an
\* abort.  (The engine knows no leaving: seats of the hand are still occupied.)
EngineActsAlike ==
    table.phase = "BETTING" /\ table.inHand \cap EmptySeats(table) = {} =>
        LET e == AsEngine(table)
            on == table.actionOn
        IN  /\ \A a \in Moves :
                 /\ Engine!ActionAccepted(e, on, a) <=> ChainAccepts(table, a)
                 /\ ChainAccepts(table, a) =>
                        SameHand(Engine!applyAction(e, on, a), ChainApplies(table, a))
            /\ SameHand(Engine!applyTick(e),
                        ChainApplies(table, Engine!Action(
                            IF toCall(table, on) = 0 THEN "Check" ELSE "Fold", 0)))
            /\ Engine!abortHand(e).stack = abortHandRefundAllCommits(table).stack

\* A hand starts alike: button, blinds, who is dealt in, who acts first.  Not
\* claimed where a busted player keeps a seat: the engine lets that seat post a
\* blind of nothing, the chain passes over it.
EngineStartsAlike ==
    table.phase = "NONE" /\ Busted(table) = {} =>
        LET e == AsEngine(table)
        IN  /\ Engine!StartAccepted(e) <=> SeatCount(occupiedSeatsWithStack(table)) >= 2
            /\ Engine!StartAccepted(e) => SameHand(Engine!startHand(e), DealIn(table))

\* The TypeScript engine and x/poker, two implementations of one rule book, play
\* the same hand from every reachable table.
EnginePlaysAlike == EngineStartsAlike /\ EngineActsAlike

\* What the engine offers the seat to act, the chain accepts.  Not claimed of
\* the smallest bet where the seat has already matched one, as the big blind
\* has before the flop: legalActions offers a bet of the big blind there too.
OffersAreAccepted ==
    table.phase = "BETTING" =>
        \A a \in Engine!legalActions(AsEngine(table)) :
            \/ ChainAccepts(table, a)
            \/ a.kind = "BetTo" /\ a.amount = BigBlind /\ table.betTo # 0
               /\ toCall(table, table.actionOn) = 0

-----------------------------------------------------------------------------
(* The bot *)

\* Act's switch over the action's name.
MoveAccepted(t, m) ==
    CASE m.action = "fold"  -> TRUE
      [] m.action = "check" -> toCall(t, t.actionOn) = 0
      [] m.action = "call"  -> toCall(t, t.actionOn) > 0
      [] m.action = "bet"   -> t.betTo = 0 /\ BetToAccepted(t, t.actionOn, m.amount)
      [] m.action = "raise" -> t.betTo # 0 /\ BetToAccepted(t, t.actionOn, m.amount)

\* Whatever its strategy and its cards, what a bot sends after sanitizeAction is
\* a move the chain accepts.  Not claimed of a raise by a seat that has already
\* acted since the last full raise: sanitizeAction does not look at that.
BotMovesAreAccepted ==
    table.phase = "BETTING" =>
        \A strategy \in Bot!Strategies, tier \in Bot!Tiers, strength \in Bot!Strengths :
            LET m == Bot!BotMove(table, BigBlind, strategy, tier, strength)
            IN  \/ MoveAccepted(table, m)
                \/ m.action = "raise" /\ table.lastActed[table.actionOn] = table.interval

\* Whatever table a client meets, a move it is offered or computes is one that Act
\* takes: legalActions for a page, sanitizeAction for a bot.
MovesAreAccepted == OffersAreAccepted /\ BotMovesAreAccepted
=============================================================================
