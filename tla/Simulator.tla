------------------------------ MODULE Simulator ------------------------------
(* The protocol simulator apps/sim: runSimulation plays a number of hands at   *)
(* one table, asking the given behaviours what every validator and player does *)
(* and slashing whoever withholds.  Here the behaviours may answer anything at *)
(* any time.  The world is one record; a step is one answer, or one loop's     *)
(* answers for one deck position.  A thrown error ends the simulation.  The    *)
(* deck's order is left out: a permutation the seed draws may give any of the  *)
(* players still in the hand the lowest hole cards, and so the pot.            *)
EXTENDS Integers, Sequences, FiniteSets, FiniteSetsExt, Functions

CONSTANTS
  SimConfigs,   \* the configurations to run
  Raises        \* amounts a player may ask to raise to

VARIABLE world

simVars == world

ValidatorDecision == {"submit-valid", "submit-invalid", "withhold"}

PlayerAction == [type : {"fold", "call", "check", "withhold"}] \cup
                [type : {"raiseTo"}, amount : Raises]

Smaller(x, y) == IF x < y THEN x ELSE y
Larger(x, y) == IF x > y THEN x ELSE y

SimSeats(w) == DOMAIN w.players

sumCommitted(w) == MapThenSumSet(LAMBDA s : w.players[s].committed, SimSeats(w))

remainingPlayers(w) == {s \in SimSeats(w) : w.players[s].status = "InHand"}

\* Mutant: ejected players' chips are not settled.
activePlayersInHandNoEjected(w) ==
  {s \in SimSeats(w) : w.players[s].status \in {"InHand", "Folded"}}

\* Those whose committed chips a finished hand settles.
activePlayersInHand(w) ==
  {s \in SimSeats(w) : w.players[s].status \in {"InHand", "Folded", "Ejected"}}

------------------------------------------------------------------------------
(* Slashing.                                                                *)

SlashOf(w, v) == Smaller(w.config.dealerSlash, w.validators[v].stake)

\* slashValidator for each of them: all are active, and none is so afterwards
slashValidators(w, offenders) ==
  [w EXCEPT !.treasury = @ + MapThenSumSet(LAMBDA v : SlashOf(w, v), offenders),
            !.validators = [v \in DOMAIN @ |->
               IF v \notin offenders THEN @[v]
               ELSE [stake |-> @[v].stake - SlashOf(w, v), status |-> "Jailed",
                     slashCount |-> @[v].slashCount + 1]]]

slashPlayer(w, s) ==
  LET amt == Smaller(w.config.playerTimeoutSlash, w.players[s].bond)
      bond == w.players[s].bond - amt
  IN  [w EXCEPT !.treasury = @ + amt,
                !.players[s].bond = bond,
                !.players[s].status = IF bond < w.config.playerBondMin THEN "Ejected" ELSE @]

------------------------------------------------------------------------------
(* Committees.  A set of results: what the seed may draw, none when it throws. *)

selectCommittee(w) ==
  {members \in [1 .. w.config.committeeSize ->
                  {v \in DOMAIN w.validators : w.validators[v].status = "Active"}] :
     IsInjective(members)}

\* A plan shorter than the simulation leads back to the committee of createWorld.
getNextCommittee(w) ==
  LET plan == w.config.committeePlan
      i == w.committeeIndex + 1
      Fits(members) == /\ Len(members) = w.config.committeeSize
                       /\ \A k \in DOMAIN members : w.validators[members[k]].status = "Active"
  IN  IF i \notin DOMAIN plan THEN {w.nextCommittee}
      ELSE IF Fits(plan[i]) THEN {plan[i]} ELSE {}

rotateCommittee(w) ==
  LET next == [w EXCEPT !.epochId = @ + 1]
  IN  IF w.config.committeePlan # <<>>
      THEN {next : members \in getNextCommittee(next)}
      ELSE {[next EXCEPT !.nextCommittee = members] : members \in selectCommittee(next)}

------------------------------------------------------------------------------
(* The start of a hand.                                                     *)

NoHand == [phase |-> "None", committee |-> <<>>, deckCursor |-> 0, board |-> 0, potTotal |-> 0,
           didBetBeyondBlinds |-> FALSE, step |-> 0, currentBet |-> 0, opening |-> <<>>]

createWorld(config) ==
  LET w == [config |-> config, treasury |-> 0,
            validators |-> [v \in config.validatorSet |->
              [stake |-> config.startingValidatorStake, status |-> "Active", slashCount |-> 0]],
            players |-> [s \in 0 .. config.playerCount - 1 |->
              [stack |-> config.startingStack, committed |-> 0, bond |-> config.startingBond,
               status |-> "Seated"]],
            hand |-> NoHand, buttonSeat |-> 0, epochId |-> 1, nextHandId |-> 1,
            committeeIndex |-> 0, nextCommittee |-> <<>>]
  IN  {[w EXCEPT !.nextCommittee = members] :
         members \in IF config.committeePlan # <<>> THEN {config.committeePlan[1]}
                     ELSE selectCommittee(w)}

\* "opening" remembers the stacks, for the properties
startHand(w, committee) ==
  [w EXCEPT !.players = [s \in DOMAIN @ |->
              [@[s] EXCEPT !.committed = 0,
                 !.status = IF @ = "Ejected" THEN @
                            ELSE IF w.players[s].bond < w.config.playerBondMin THEN "SitOut"
                            ELSE "Seated"]],
            !.hand = [NoHand EXCEPT !.phase = "Shuffle", !.committee = committee,
                                    !.opening = [s \in SimSeats(w) |-> w.players[s].stack]],
            !.nextHandId = @ + 1,
            !.committeeIndex = IF w.config.committeePlan # <<>> THEN @ + 1 ELSE @]

Seated(w) == {s \in SimSeats(w) : w.players[s].status = "Seated"}

nextSeatedFrom(w, seat) ==
  LET At(k) == (seat + k) % w.config.playerCount
  IN  At(CHOOSE k \in 1 .. w.config.playerCount :
           At(k) \in Seated(w) /\ \A j \in 1 .. k - 1 : At(j) \notin Seated(w))

Pay(w, s, amount) ==
  [w EXCEPT !.players[s].stack = @ - amount, !.players[s].committed = @ + amount]

Thrown(w) == [w EXCEPT !.hand.phase = "Thrown"]

postBlinds(w) ==
  LET sb == nextSeatedFrom(w, w.buttonSeat)
      bb == nextSeatedFrom(w, sb)
      paid == Pay(Pay(w, sb, w.config.smallBlind), bb, w.config.bigBlind)
  IN  IF Cardinality(Seated(w)) < 2 THEN Thrown(w)
      ELSE IF \/ w.players[sb].stack < w.config.smallBlind
              \/ w.players[bb].stack < w.config.bigBlind THEN Thrown(w)
      ELSE [paid EXCEPT !.hand.potTotal = sumCommitted(paid)]

\* The top of runSimulation's loop, down to the first shuffle.
SimHand ==
  /\ world.hand.phase \in {"None", "HandComplete", "HandAborted"}
  /\ world.nextHandId <= world.config.hands
  /\ LET turned == IF world.config.rotateCommitteeEveryHand /\ world.nextHandId > 1
                   THEN rotateCommittee(world) ELSE {world}
         started == {<<w, getNextCommittee(w)>> : w \in turned}
     IN  IF \E p \in started : p[2] # {}
         THEN \E p \in started : \E committee \in p[2] :
                world' = postBlinds(startHand(p[1], committee))
         ELSE world' = Thrown(world)

------------------------------------------------------------------------------
(* The dealers' part.                                                       *)

SeatOut(w) ==
  [w EXCEPT !.hand.phase = "DealHole", !.hand.step = 0,
            !.players = [s \in DOMAIN @ |->
              IF @[s].status # "Seated" THEN @[s]
              ELSE [@[s] EXCEPT !.status = IF w.players[s].bond < w.config.playerBondMin
                                           THEN "SitOut" ELSE "InHand"]]]

\* One round of runShuffle; after the last one the players are dealt in.
runShuffle ==
  /\ world.hand.phase = "Shuffle"
  /\ LET round == world.hand.step + 1
         shuffler == world.hand.committee[round]
         Done(w) == IF round = Len(w.hand.committee) THEN SeatOut(w)
                    ELSE [w EXCEPT !.hand.step = round]
     IN  IF world.validators[shuffler].status # "Active" THEN world' = Done(world)
         ELSE \E decision \in ValidatorDecision :
                world' = Done(IF decision = "submit-valid" THEN world
                              ELSE slashValidators(world, {shuffler}))

abortHand(w) ==
  LET refundBlinds == w.hand.didBetBeyondBlinds \/ w.config.refundBlindsOnPreActionAbort
  IN  [w EXCEPT !.hand.phase = "HandAborted", !.hand.potTotal = 0,
                !.treasury = IF refundBlinds THEN @ ELSE @ + sumCommitted(w),
                !.players = [s \in DOMAIN @ |->
                  [@[s] EXCEPT !.committed = 0,
                               !.stack = IF refundBlinds THEN @ + w.players[s].committed ELSE @]]]

\* collectValidatorDecisions: the members still active are asked
ShareDecisions(w) ==
  [{v \in Range(w.hand.committee) : w.validators[v].status = "Active"} -> ValidatorDecision]

ReachesThreshold(w, valid) == Cardinality(valid) >= w.config.thresholdT

\* The shares of the next deck position: the hand goes on if they suffice.
collectSharesOrAbort(w, decisions) ==
  LET valid == {v \in DOMAIN decisions : decisions[v] = "submit-valid"}
      asked == [slashValidators(w, DOMAIN decisions \ valid) EXCEPT !.hand.deckCursor = @ + 1]
  IN  IF ReachesThreshold(w, valid) THEN asked ELSE abortHand(asked)

Aborted(w) == w.hand.phase = "HandAborted"

HoleCardsDealt(w) == w.hand.deckCursor = 2 * Cardinality(remainingPlayers(w))

\* One hole card; after the last one the betting starts.
dealHoleCards ==
  /\ world.hand.phase = "DealHole"
  /\ LET Dealt1(w) == IF HoleCardsDealt(w)
                      THEN [w EXCEPT !.hand.phase = "PreflopBetting",
                                     !.hand.currentBet = w.config.bigBlind]
                      ELSE w
     IN  \E decisions \in ShareDecisions(world) :
           LET w == collectSharesOrAbort(world, decisions)
           IN  world' = IF Aborted(w) THEN w ELSE Dealt1(w)

\* One card of revealStreet; "step" counts the cards of this street.
revealStreet ==
  /\ world.hand.phase \in {"FlopReveal", "TurnReveal", "RiverReveal"}
  /\ LET street == world.hand.phase
         count == IF street = "FlopReveal" THEN 3 ELSE 1
         next == CASE street = "FlopReveal" -> "TurnReveal"
                   [] street = "TurnReveal" -> "RiverReveal"
                   [] street = "RiverReveal" -> "Showdown"
         Shown(w) == IF w.hand.step + 1 < count THEN [w EXCEPT !.hand.step = @ + 1]
                     ELSE [w EXCEPT !.hand.step = 0, !.hand.phase = next,
                                    !.hand.board = @ + count]
     IN  \E decisions \in ShareDecisions(world) :
           LET w == collectSharesOrAbort(world, decisions)
           IN  world' = IF Aborted(w) THEN w ELSE Shown(w)

------------------------------------------------------------------------------
(* Betting and settlement.                                                  *)

applyTimeoutDefaultAction(toCall) == [type |-> IF toCall = 0 THEN "check" ELSE "fold"]

normalizePlayerAction(action, toCall) ==
  IF action.type = "check" /\ toCall # 0 THEN [type |-> "fold"]
  ELSE IF action.type = "call" /\ toCall = 0 THEN [type |-> "check"]
  ELSE action

minRaiseTo(w) == 2 * w.config.bigBlind

\* A raise beyond the stack counts as a call.
Apply(w, s, action, toCall) ==
  LET bet == [w EXCEPT !.hand.didBetBeyondBlinds = TRUE]
      called == Pay(bet, s, Smaller(toCall, w.players[s].stack))
      raiseTo == Larger(action.amount, minRaiseTo(w))
      need == Larger(0, raiseTo - w.players[s].committed)
  IN  CASE action.type = "fold" ->
             [w EXCEPT !.players[s].status = IF @ = "Ejected" THEN @ ELSE "Folded"]
        [] action.type = "check" -> bet
        [] action.type = "call" -> called
        [] action.type = "raiseTo" ->
             IF need > w.players[s].stack THEN called
             ELSE [Pay(bet, s, need) EXCEPT !.hand.currentBet = raiseTo]

HandCompleted(w, winner) ==
  [w EXCEPT !.players = [s \in DOMAIN @ |->
              [@[s] EXCEPT !.stack = IF s = winner THEN @ + w.hand.potTotal ELSE @,
                           !.committed = IF s \in activePlayersInHand(w) THEN 0 ELSE @]],
            !.hand.potTotal = 0, !.hand.phase = "HandComplete"]

\* One seat's turn in runPreflopBetting.  Every seat has one turn, from the
\* button's third neighbour on; the last player standing wins at once.
runPreflopBetting ==
  /\ world.hand.phase = "PreflopBetting"
  /\ LET s == (world.buttonSeat + 3 + world.hand.step) % world.config.playerCount
         toCall == Larger(0, world.hand.currentBet - world.players[s].committed)
         Next1(w) == IF w.hand.step + 1 = w.config.playerCount
                     THEN [w EXCEPT !.hand.step = 0, !.hand.phase = "FlopReveal"]
                     ELSE [w EXCEPT !.hand.step = @ + 1]
         Counted(w) == [w EXCEPT !.hand.potTotal = sumCommitted(w)]
         Ended(w) == IF Cardinality(remainingPlayers(w)) = 1
                     THEN HandCompleted(w, CHOOSE p \in remainingPlayers(w) : TRUE)
                     ELSE Next1(w)
     IN  IF world.players[s].status # "InHand" THEN world' = Next1(world)
         ELSE \E decision \in PlayerAction :
                LET late == decision.type = "withhold"
                    w == IF late THEN slashPlayer(world, s) ELSE world
                    action == IF late THEN applyTimeoutDefaultAction(toCall) ELSE decision
                IN  world' = Ended(Counted(Apply(w, s, normalizePlayerAction(action, toCall),
                                                 toCall)))

\* Whoever holds the lowest cards of those left wins; with nobody left the hand
\* is aborted.  The button moves on after a showdown only.
showdownAndSettle ==
  /\ world.hand.phase = "Showdown"
  /\ LET Moved(w) == [w EXCEPT !.buttonSeat = (@ + 1) % w.config.playerCount]
     IN  world' \in IF remainingPlayers(world) = {} THEN {Moved(abortHand(world))}
                    ELSE {Moved(HandCompleted(world, p)) : p \in remainingPlayers(world)}

------------------------------------------------------------------------------
(* invariants.ts: what the simulator asserts of itself at some points.      *)

TotalChips(w) ==
  w.treasury + MapThenSumSet(LAMBDA v : w.validators[v].stake, DOMAIN w.validators)
             + MapThenSumSet(LAMBDA s : w.players[s].stack + w.players[s].committed
                                          + w.players[s].bond, SimSeats(w))

InitialTotal(config) ==
  Cardinality(config.validatorSet) * config.startingValidatorStake
    + config.playerCount * (config.startingStack + config.startingBond)

assertInvariants(w) ==
  /\ \A v \in DOMAIN w.validators : w.validators[v].stake >= 0
  /\ \A s \in SimSeats(w) : /\ w.players[s].stack >= 0
                            /\ w.players[s].committed >= 0
                            /\ w.players[s].bond >= 0
  /\ TotalChips(w) = InitialTotal(w.config)
  /\ w.hand.deckCursor \in 0 .. 52

------------------------------------------------------------------------------
SimInit == \E config \in SimConfigs : world \in createWorld(config)

\* One world before its first hand.
SimIdle == world = CHOOSE w \in createWorld(CHOOSE config \in SimConfigs : TRUE) : TRUE

SimNext ==
  SimHand \/ runShuffle \/ dealHoleCards \/ runPreflopBetting \/ revealStreet \/ showdownAndSettle

------------------------------------------------------------------------------
(* The simulator's own assertion holds after every answer, not only where it  *)
(* is made: no slash, ejection, abort or early win makes or loses a chip, in   *)
(* this hand or when the next one clears what was committed.                   *)
SimConservesChips == assertInvariants(world)

(* An aborted hand gives every player the stack the hand began with, whatever *)
(* was bet and whoever was ejected meanwhile, unless nobody acted and the      *)
(* configuration keeps the blinds: then the blinds, and nothing else, are in   *)
(* the treasury.                                                               *)
SimAbortRefunds ==
  world.hand.phase = "HandAborted" =>
    LET lost == {s \in SimSeats(world) : world.players[s].stack # world.hand.opening[s]}
    IN  IF world.hand.didBetBeyondBlinds \/ world.config.refundBlindsOnPreActionAbort
        THEN lost = {}
        ELSE MapThenSumSet(LAMBDA s : world.hand.opening[s] - world.players[s].stack, lost)
               = world.config.smallBlind + world.config.bigBlind

(* A hand reaches a showdown only with a committee that still has the         *)
(* threshold: of its members, that many were never slashed, in this hand or    *)
(* an earlier one, and only the others have lost stake, each of them once.     *)
SimShowdownNeedsThreshold ==
  world.hand.board = 5 =>
    LET sound == {v \in Range(world.hand.committee) : world.validators[v].slashCount = 0}
    IN  /\ Cardinality(sound) >= world.config.thresholdT
        /\ \A v \in DOMAIN world.validators : world.validators[v].slashCount <= 1

(* Whoever times out, withholds or is jailed, a simulated hand keeps the chips,  *)
(* gives back what was bet when it aborts, and shows cards only with enough      *)
(* shares (runSimulation).                                                       *)
SimHandsAreFair == SimConservesChips /\ SimAbortRefunds /\ SimShowdownNeedsThreshold
==============================================================================
