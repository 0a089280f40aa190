-------------------------------- MODULE Bots --------------------------------
(***************************************************************************)
(* apps/bot: what a bot sends when it is its turn.  pollOnce reads the     *)
(* table, builds a GameState, asks the strategy for a decision and coerces *)
(* it with sanitizeAction before it sends it.                              *)
(*                                                                         *)
(* Cards are what the strategies see in them: a preflop tier, a postflop   *)
(* strength, or "unknown" when the hole cards could not be decrypted.      *)
(***************************************************************************)
EXTENDS SeatMath

Tiers     == {"premium", "strong", "playable", "marginal", "trash", "unknown"}
Strengths == {"monster", "strong", "medium", "draw", "weak", "unknown"}
Strategies == {"calling-station", "tag", "lag"}

Do(action)         == [action |-> action, amount |-> 0]
Wager(action, n)   == [action |-> action, amount |-> n]

\* Distances from the big blind decide who is early, middle or late.
getPosition(mySeat, buttonSeat, sb, bb) ==
    LET fromBB    == (mySeat - bb) % 9
        btnFromBB == (buttonSeat - bb) % 9
        third(k)  == (k * btnFromBB + 2) \div 3
    IN  CASE mySeat \in {sb, bb}                    -> "blinds"
          [] mySeat \notin {sb, bb} /\ (fromBB >= btnFromBB \/ btnFromBB <= 2) -> "late"
          [] OTHER -> IF fromBB <= third(1) THEN "early"
                      ELSE IF fromBB <= third(2) THEN "middle" ELSE "late"

clampBet(desired, minRaise, stack) ==
    IF desired > stack THEN stack
    ELSE IF desired < minRaise THEN Lesser(minRaise, stack)
    ELSE desired

potFraction(pot, num, den) == (pot * num) \div den

AllIn(g)      == g.myStack + g.myStreetCommit
facingBet(g)  == g.toCall > 0
Clamped(g, n) == clampBet(n, g.minRaise, AllIn(g))
RaiseTo(g, n) == Wager("raise", Clamped(g, n))

\* A postflop bet of a fraction of the pot; one of nothing is a check.
BetPot(g, num, den) ==
    LET n == Clamped(g, potFraction(g.pot, num, den))
    IN  IF n = 0 THEN Do("check") ELSE Wager("bet", n)

Small(g, num, den) == g.toCall <= potFraction(g.pot, num, den)
CheckOr(g, action) == Do(IF facingBet(g) THEN action ELSE "check")
BlindOf(g)         == IF g.bigBlind > 0 THEN g.bigBlind ELSE g.minRaise

-----------------------------------------------------------------------------
(* Strategies *)

CallingStation(g) == CheckOr(g, "call")

TagPreflop(g, tier) ==
    LET bb == BlindOf(g)
    IN  CASE tier = "unknown" -> CheckOr(g, "call")
          [] tier = "premium" -> RaiseTo(g, IF facingBet(g) THEN g.betTo * 3 ELSE bb * 3)
          [] tier = "strong" ->
                IF ~facingBet(g) THEN RaiseTo(g, (bb * 5) \div 2)
                ELSE IF Small(g, 1, 3) THEN RaiseTo(g, g.betTo * 3) ELSE Do("call")
          [] tier = "playable" ->
                IF facingBet(g)
                THEN Do(IF g.position = "early" /\ ~Small(g, 1, 4) THEN "fold" ELSE "call")
                ELSE IF g.position = "blinds" THEN Do("check") ELSE RaiseTo(g, (bb * 5) \div 2)
          [] tier = "marginal" ->
                CheckOr(g, IF g.position = "late" /\ Small(g, 1, 5) THEN "call" ELSE "fold")
          [] tier = "trash" -> CheckOr(g, "fold")

TagPostflop(g, strength) ==
    CASE strength = "unknown" -> CheckOr(g, "fold")
      [] strength = "monster" -> IF facingBet(g) THEN RaiseTo(g, (g.betTo * 5) \div 2) ELSE BetPot(g, 2, 3)
      [] strength = "strong"  -> IF facingBet(g) THEN Do("call") ELSE BetPot(g, 1, 2)
      [] strength = "medium"  -> CheckOr(g, IF Small(g, 1, 3) THEN "call" ELSE "fold")
      [] strength = "draw"    ->
            IF facingBet(g) THEN Do(IF Small(g, 2, 5) THEN "call" ELSE "fold")
            ELSE IF g.pot % 3 = 0 THEN BetPot(g, 1, 2) ELSE Do("check")
      [] strength = "weak"    -> CheckOr(g, "fold")

lagPreflopTier(tier) ==
    CASE tier = "marginal" -> "playable"
      [] tier = "trash"    -> "marginal"
      [] OTHER             -> tier

LagPreflop(g, rawTier) ==
    LET bb   == BlindOf(g)
        tier == lagPreflopTier(rawTier)
    IN  CASE tier = "unknown" -> CheckOr(g, "call")
          [] tier = "premium" -> RaiseTo(g, IF facingBet(g) THEN (g.betTo * 7) \div 2 ELSE (bb * 7) \div 2)
          [] tier = "strong"  -> RaiseTo(g, IF facingBet(g) THEN g.betTo * 3 ELSE bb * 3)
          [] tier = "playable" ->
                IF ~facingBet(g) THEN RaiseTo(g, (bb * 5) \div 2)
                ELSE IF Small(g, 1, 4) THEN RaiseTo(g, g.betTo * 3) ELSE Do("call")
          [] tier = "marginal" ->
                IF facingBet(g)
                THEN Do(IF \/ g.position = "late" /\ Small(g, 1, 3)
                           \/ g.position # "early" /\ Small(g, 1, 5) THEN "call" ELSE "fold")
                ELSE IF g.position = "early" THEN Do("check") ELSE RaiseTo(g, (bb * 5) \div 2)

LagPostflop(g, strength) ==
    CASE strength = "unknown" -> CheckOr(g, "fold")
      [] strength = "monster" -> IF facingBet(g) THEN RaiseTo(g, g.betTo * 3) ELSE BetPot(g, 4, 5)
      [] strength = "strong"  -> IF facingBet(g) THEN RaiseTo(g, (g.betTo * 5) \div 2) ELSE BetPot(g, 7, 10)
      [] strength = "medium"  ->
            IF facingBet(g) THEN Do(IF Small(g, 1, 2) THEN "call" ELSE "fold") ELSE BetPot(g, 1, 2)
      [] strength = "draw" ->
            IF g.street = "RIVER"
            THEN IF ~facingBet(g) /\ g.pot % 10 < 3 THEN BetPot(g, 3, 4) ELSE CheckOr(g, "fold")
            ELSE IF ~facingBet(g) THEN BetPot(g, 7, 10)
            ELSE IF g.pot % 5 < 2 THEN RaiseTo(g, (g.betTo * 5) \div 2)
            ELSE Do(IF Small(g, 1, 2) THEN "call" ELSE "fold")
      [] strength = "weak" -> CheckOr(g, "fold")

decide(strategy, g, tier, strength) ==
    CASE strategy = "calling-station" -> CallingStation(g)
      [] strategy = "tag" -> IF g.street = "PREFLOP" THEN TagPreflop(g, tier) ELSE TagPostflop(g, strength)
      [] strategy = "lag" -> IF g.street = "PREFLOP" THEN LagPreflop(g, tier) ELSE LagPostflop(g, strength)

-----------------------------------------------------------------------------
(* What is sent *)

\* Mutant: a raise that the stack cannot reach stays a raise.
sanitizeActionKeepsRaise(d, g) ==
    LET amount == Lesser(d.amount, AllIn(g))
    IN  CASE d.action \notin {"bet", "raise"} -> d
          [] d.action = "bet" -> Wager("bet", amount)
          [] d.action = "raise" -> Wager("raise", IF amount >= g.minRaise THEN amount
                                                   ELSE Lesser(g.minRaise, AllIn(g)))

sanitizeAction(d, g) ==
    LET amount == Lesser(d.amount, AllIn(g))
    IN  CASE d.action \notin {"bet", "raise"} -> d
          [] d.action \in {"bet", "raise"} /\ AllIn(g) <= g.betTo -> CheckOr(g, "call")
          [] d.action = "bet" /\ AllIn(g) > g.betTo -> Wager("bet", amount)
          [] d.action = "raise" /\ AllIn(g) > g.betTo ->
                Wager("raise", IF amount >= g.minRaise THEN amount ELSE Lesser(g.minRaise, AllIn(g)))

\* The GameState of the seat to act, from the table as pollOnce reads it.
GameState(t, bigBlind) ==
    LET me == t.actionOn
        sb == IF SeatCount(t.inHand) = 2 THEN t.button ELSE NextSeat(t.button, t.inHand)
    IN  [street |-> t.street, myStack |-> t.stack[me], pot |-> SeatSum(t.totalCommit),
         betTo |-> t.betTo, myStreetCommit |-> t.streetCommit[me],
         toCall |-> IF t.betTo > t.streetCommit[me] THEN t.betTo - t.streetCommit[me] ELSE 0,
         minRaise |-> t.betTo + t.minRaise, bigBlind |-> bigBlind,
         position |-> getPosition(me, t.button, sb, t.bb)]

BotMove(t, bigBlind, strategy, tier, strength) ==
    LET g == GameState(t, bigBlind)
    IN  sanitizeAction(decide(strategy, g, tier, strength), g)
=============================================================================
