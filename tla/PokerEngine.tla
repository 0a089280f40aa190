---------------------------- MODULE PokerEngine ----------------------------
(***************************************************************************)
(* packages/poker-engine: the table's rules once more, in TypeScript, as a *)
(* library of pure functions from a TableState to the next one.            *)
(*                                                                         *)
(* A state is the table's seats and button with the fields of its hand     *)
(* (phase "none": hand is null).  Seats are numbers, so playerId, the hand *)
(* counter and the event log are left out; a deadline is set exactly while *)
(* actionOn is, so time is left to whoever calls applyTick.  A function    *)
(* that throws is an operator with an Accepted operator beside it.         *)
(***************************************************************************)
EXTENDS SeatMath, FiniteSets

CONSTANTS SmallBlind, BigBlind,
          RefundBlinds      \* params.refundBlindsOnAbort

Null  == -1
Blank == [s \in Seats |-> 0]
Never == [s \in Seats |-> -1]

createTableState ==
    [seated |-> {}, stack |-> Blank, button |-> Null,
     phase |-> "none", street |-> "preflop", sb |-> Null, bb |-> Null, actionOn |-> Null,
     betTo |-> 0, minRaiseSize |-> 0, intervalId |-> 0, lastIntervalActed |-> Never,
     streetCommit |-> Blank, totalCommit |-> Blank,
     inHand |-> {}, folded |-> {}, allIn |-> {}, pots |-> {}, winnerSeat |-> Null]

\* Occupied, funded or not.
nextOccupiedSeat(t, from) == IF t.seated = {} THEN from ELSE NextSeat(from, t.seated)

notFolded(t) == t.inHand \ t.folded

needsToAct(t) ==
    {s \in notFolded(t) \ t.allIn : \/ t.lastIntervalActed[s] # t.intervalId
                                    \/ t.streetCommit[s] # t.betTo}

nextActiveInHand(t, from) == IF needsToAct(t) = {} THEN Null ELSE NextSeat(from, needsToAct(t))

withChips(t) == {s \in notFolded(t) \cap t.seated : t.stack[s] > 0}

toCall(t, seat) == IF t.betTo > t.streetCommit[seat] THEN t.betTo - t.streetCommit[seat] ELSE 0

\* Only a single largest commitment of an occupied seat has an excess.
returnUncalledStreetExcess(t) ==
    LET max    == t.streetCommit[TopSeat(t.streetCommit, Seats)]
        at     == {s \in Seats : t.streetCommit[s] = max}
        second == t.streetCommit[TopSeat(t.streetCommit, Seats \ at)]
        top    == NextSeat(8, at)
    IN  IF max = 0 \/ Cardinality(at) > 1 \/ top \notin t.seated THEN t
        ELSE [t EXCEPT !.stack[top] = @ + max - second, !.streetCommit[top] = second,
                       !.totalCommit[top] = @ - (max - second), !.allIn = @ \ {top}]

-----------------------------------------------------------------------------
(* Pots *)

\* The u-th chip of every seat that put in so many is one layer.  A tier is the
\* layers with the same contributors; tiers with the same contenders are one pot
\* (contenders only get fewer from layer to layer, so they are neighbours).
computeSidePots(commit, eligible) ==
    LET contenders(u) == {s \in eligible : commit[s] >= u}
        layers        == 1..commit[TopSeat(commit, Seats)]
        chips(E)      == SeatSum([s \in Seats |-> Cardinality({u \in 1..commit[s] : contenders(u) = E})])
    IN  {[tier |-> 0, amount |-> chips(E), eligibleSeats |-> E] : E \in {contenders(u) : u \in layers}}

-----------------------------------------------------------------------------
(* The course of a hand *)

NextStreet == [preflop |-> "flop", flop |-> "turn", turn |-> "river", river |-> "river"]

advanceStreet(t) ==
    LET u == [t EXCEPT !.street = NextStreet[@], !.betTo = 0, !.minRaiseSize = BigBlind,
                       !.intervalId = 0, !.streetCommit = Blank, !.lastIntervalActed = Never]
    IN  [u EXCEPT !.actionOn = nextActiveInHand(u, nextOccupiedSeat(u, u.button) - 1)]

reachShowdown(t) ==
    [t EXCEPT !.phase = "showdown", !.actionOn = Null,
              !.pots = computeSidePots(t.totalCommit, notFolded(t))]

completeByFolds(t) ==
    LET winner == NextSeat(8, notFolded(t))
        u      == returnUncalledStreetExcess(t)
    IN  IF notFolded(t) = {} \/ winner \notin t.seated THEN t
        ELSE [u EXCEPT !.stack[winner] = @ + SeatSum(u.totalCommit),
                       !.streetCommit = Blank, !.totalCommit = Blank,
                       !.phase = "complete", !.winnerSeat = winner, !.actionOn = Null,
                       !.pots = {}]

maybeAdvance(t) ==
    LET u == returnUncalledStreetExcess(t)
    IN  IF SeatCount(notFolded(t)) <= 1 THEN completeByFolds(t)
        ELSE IF needsToAct(t) # {}
        THEN [t EXCEPT !.actionOn = nextActiveInHand(t, IF @ = Null THEN 0 ELSE @)]
        ELSE IF t.street = "river" \/ SeatCount(withChips(u)) < 2 THEN reachShowdown(u)
        ELSE advanceStreet(u)

Funded(t) == {s \in t.seated : t.stack[s] > 0}

StartAccepted(t) == Cardinality(Funded(t)) >= 2

Commit(t, seat, n) ==
    [t EXCEPT !.stack[seat] = @ - n, !.streetCommit[seat] = @ + n, !.totalCommit[seat] = @ + n,
              !.allIn = IF t.stack[seat] = n THEN @ \cup {seat} ELSE @]

\* The button moves to a funded seat, the blinds to occupied ones.
startHand(t) ==
    LET button == IF t.button = Null THEN NextSeat(8, Funded(t)) ELSE NextSeat(t.button, Funded(t))
        sb     == IF Cardinality(Funded(t)) = 2 THEN button ELSE nextOccupiedSeat(t, button)
        bb     == nextOccupiedSeat(t, sb)
        fresh  == [createTableState EXCEPT
                     !.seated = t.seated, !.stack = t.stack, !.button = button, !.phase = "betting",
                     !.sb = sb, !.bb = bb, !.minRaiseSize = BigBlind, !.inHand = Funded(t)]
        posted == Commit(Commit(fresh, sb, Lesser(SmallBlind, t.stack[sb])), bb, Lesser(BigBlind, t.stack[bb]))
        open   == [posted EXCEPT !.betTo = Lesser(BigBlind, t.stack[bb])]
        on     == nextActiveInHand(open, bb)
    IN  IF on = Null THEN reachShowdown(open) ELSE [open EXCEPT !.actionOn = on]

-----------------------------------------------------------------------------
(* Actions *)

Action(kind, amount) == [kind |-> kind, amount |-> amount]

applyFold(t, seat) ==
    [t EXCEPT !.folded = @ \cup {seat}, !.lastIntervalActed[seat] = t.intervalId]

applyCheck(t, seat) == [t EXCEPT !.lastIntervalActed[seat] = t.intervalId]

applyCall(t, seat) ==
    [Commit(t, seat, Lesser(toCall(t, seat), t.stack[seat])) EXCEPT
        !.lastIntervalActed[seat] = t.intervalId]

validateRaiseAllowed(t, seat) == t.lastIntervalActed[seat] # t.intervalId

BetToAccepted(t, seat, desired) ==
    LET maxCommit == t.streetCommit[seat] + t.stack[seat]
    IN  /\ desired > t.streetCommit[seat] /\ desired <= maxCommit /\ desired > t.betTo
        /\ validateRaiseAllowed(t, seat)
        /\ desired = maxCommit \/ IF t.betTo = 0 THEN desired >= BigBlind
                                  ELSE desired - t.betTo >= t.minRaiseSize

\* Mutant: a short all-in reopens the betting.
applyBetToReopens(t, seat, desired) ==
    [Commit(t, seat, desired - t.streetCommit[seat]) EXCEPT
        !.intervalId = @ + 1, !.lastIntervalActed[seat] = t.intervalId + 1, !.betTo = desired,
        !.minRaiseSize = IF t.betTo = 0 /\ desired < BigBlind THEN BigBlind ELSE desired - t.betTo]

\* An opening bet or a full raise opens an interval; a short all-in raise does not.
applyBetTo(t, seat, desired) ==
    LET raised == [Commit(t, seat, desired - t.streetCommit[seat]) EXCEPT !.betTo = desired]
        size   == desired - t.betTo
        interval(n, min) == [raised EXCEPT !.intervalId = n, !.lastIntervalActed[seat] = n,
                                           !.minRaiseSize = min]
    IN  IF t.betTo = 0
        THEN interval(t.intervalId + 1, IF desired >= BigBlind THEN desired ELSE BigBlind)
        ELSE IF size < t.minRaiseSize THEN interval(t.intervalId, t.minRaiseSize)
        ELSE interval(t.intervalId + 1, size)

ActionAccepted(t, seat, a) ==
    /\ t.phase = "betting" /\ seat \in t.seated
    /\ seat \in notFolded(t) \ t.allIn /\ t.actionOn = seat
    /\ CASE a.kind = "Fold"  -> TRUE
         [] a.kind = "Check" -> toCall(t, seat) = 0
         [] a.kind = "Call"  -> toCall(t, seat) # 0
         [] a.kind = "BetTo" -> BetToAccepted(t, seat, a.amount)

applyAction(t, seat, a) ==
    maybeAdvance(CASE a.kind = "Fold"  -> applyFold(t, seat)
                   [] a.kind = "Check" -> applyCheck(t, seat)
                   [] a.kind = "Call"  -> applyCall(t, seat)
                   [] a.kind = "BetTo" -> applyBetTo(t, seat, a.amount))

\* Once the deadline of the seat to act has passed.
applyTick(t) ==
    IF t.phase # "betting" \/ t.actionOn = Null THEN t
    ELSE applyAction(t, t.actionOn,
                     Action(IF toCall(t, t.actionOn) = 0 THEN "Check" ELSE "Fold", 0))

abortHand(t) ==
    LET back == {s \in t.seated : RefundBlinds \/ s \notin {t.sb, t.bb}}
        keep(f) == [s \in Seats |-> IF s \in back THEN 0 ELSE f[s]]
    IN  IF t.phase \in {"complete", "aborted"} THEN t
        ELSE [t EXCEPT !.stack = [s \in Seats |-> IF s \in back THEN @[s] + t.totalCommit[s] ELSE @[s]],
                       !.totalCommit = keep(@), !.streetCommit = keep(@),
                       !.phase = "aborted", !.actionOn = Null, !.pots = {}, !.winnerSeat = Null]

\* What a user interface offers the seat to act.
legalActions(t) ==
    LET seat      == t.actionOn
        need      == toCall(t, seat)
        maxCommit == t.streetCommit[seat] + t.stack[seat]
        canRaise  == t.lastIntervalActed[seat] # t.intervalId /\ t.stack[seat] > 0
        minBet    == Lesser(BigBlind, maxCommit)
        minRaise  == t.betTo + t.minRaiseSize
        bets      == IF ~canRaise THEN {}
                     ELSE IF need = 0 THEN {minBet, maxCommit} \ {0}
                     ELSE IF maxCommit <= t.betTo THEN {}
                     ELSE {n \in {minRaise} : n <= maxCommit} \cup {maxCommit}
    IN  IF t.phase # "betting" \/ seat = Null \/ seat \notin t.seated \cap (notFolded(t) \ t.allIn) THEN {}
        ELSE {Action("Fold", 0), Action(IF need = 0 THEN "Check" ELSE "Call", 0)}
             \cup {Action("BetTo", n) : n \in bets}
=============================================================================
