# OnChainPoker: TLA+ models, checks and proofs

OnChainPoker plays no-limit Texas hold'em on a Cosmos SDK chain. Chips are coins
in a module account, every move is a transaction, and the cards are dealt by a
committee of validators that hold a threshold key, so that nobody sees a card
before its time. This directory holds the TLA+ models of that system, what TLC
checks of them on small instances, and what TLAPS proves of them for every
instance.

`PROJECT.json` is the index: the parts of the system, the runs, the source lines
every definition stands for, the findings, the hazards and the theorems.

## The system

| part | where | role |
|---|---|---|
| x/poker | `apps/cosmos/x/poker/keeper` | tables: seats, escrow, betting, side pots, timeouts |
| x/dealer, hands | `apps/cosmos/x/dealer/keeper/{msg_server,ops}.go` | shuffles and reveals the deck of a hand, slashes late members, aborts |
| x/dealer, epochs | the same files | distributed key generation (DKG) of the committee, rotation |
| x/dealer, beacon | `apps/cosmos/x/dealer/keeper/beacon.go` | commit-and-reveal randomness that seeds the committee |
| committee | `apps/cosmos/x/dealer/committee`, `keeper/penalty.go` | draw weighted by power; slashing and jailing |
| dealer daemon | `apps/dealer-daemon` | a member's process: polls the chain, sends what is due, keeps its secrets on disk |
| coordinator | `apps/coordinator` | event relay, table cache, chat, faucet, nicknames, artifacts, seat intents |
| poker-engine, holdem-eval | `packages/` | the table's rules and the hand evaluator once more, in TypeScript |
| SDK | `packages/ocp-sdk` | messages, transaction calls, event parsing, signing and retrying |
| cryptography | `packages/ocp-crypto`, `packages/ocp-shuffle` | proofs, shuffle network, sealed shares |
| web page, bot | `apps/web`, `apps/bot` | clients |
| simulator | `apps/sim` | the protocol in one process, with faults |
| prototype chain | `apps/chain` | predecessor of `apps/cosmos` |

x/poker and x/dealer are two modules of one state machine. A transaction runs its
handlers one after the other, and an error reverts all it did. So every message
is one atomic step; what interleaves are the messages: of players, of people who
only send ticks, and of committee members. x/dealer reads the table and calls
into x/poker (`AbortHandRefundAllCommits`, `ApplyDealerReveal`,
`AdvanceAfterHoleSharesReady`) from its own handlers.

Everything off the chain is different. A daemon, a bot or a page reads the chain,
and sends what that read called for some time later. Requests and answers get
lost, processes restart, sockets close late, and a page runs its effects after
the render that asked for them. There a step of a model is what happens between
two awaits.

## Modules

### The table

| module | models |
|---|---|
| `SeatMath` | sums, counts and clockwise walks over the nine seats |
| `SidePots` | `computeSidePots` and the award loop of `settleKnownShowdown` |
| `PokerTable` | one table of x/poker with its module account, and the calls of x/dealer into it |
| `PokerEngine` | `packages/poker-engine`, as functions from a state to the next |
| `Bots` | the strategies of `apps/bot` and `sanitizeAction` |
| `TableClients` | the table beside the engine and the bots: both must agree with it |

In `PokerTable`, `table` is the stored `types.Table` with the fields of its hand.
`phase = "NONE"` stands for `Hand == nil`. `escrow` is the module account, `wallet`
the accounts of the players, `cooldown` the blocks left before `StartHand` is
accepted again, `hands` the number of hands started (a bound for TLC), and
`dealtTo` a history variable: whom each seat's cards were dealt to.

The operators that mutate a table have the names of the Go functions
(`applyBetTo`, `returnUncalledStreetExcess`, `maybeAdvance`, ...) and map a table
to a table. An action is a whole handler, the trailing normalisation of
`SetTable`, the ejection of bondless seats and the cooldown included.

| action | code |
|---|---|
| `Sit`, `Rebuy`, `Leave`, `StartHand` | the handlers of those messages |
| `Fold`, `Check`, `Call`, `BetTo` | `Act`, by the kind of action; `BetTo` is "bet" or "raise" |
| `Tick` | `Tick` after the deadline: slash, then check or fold |
| `InitHand`, `FinalizeDeck` | what those x/dealer steps store in the table |
| `AdvanceAfterHoleSharesReady`, `RevealBoard`, `RevealHole` | the calls of the same names, and `ApplyDealerReveal` by phase |
| `SettleShowdown`, `SettleEvalError` | the reveal of the last hole card, by the outcome of the evaluation |
| `AbortHand` | `AbortHandRefundAllCommits` |
| `NextBlock` | a block with a later timestamp |

- Deadlines are kept as the seconds still to go, so that time need not be
  counted. They run down in `NextBlock`.
- The table counts its cards. The showdown takes any ranking of the live seats;
  `HandEval` models where rankings come from.
- x/dealer is an environment that makes each of its calls whenever x/poker and
  the phase of the hand allow it. `DealerHand` models what x/dealer does.
- Balances are natural numbers. The code's checked additions on uint64 can fail
  only beyond 2^64 base units, far above the supply.
- `Tick` has an early return for states saved without an action deadline.
  `ClockIsRunning` shows that no betting phase lacks one, so it is left out.
- Passwords and keys are left out: `Players` are the accounts that know the password.

The engine and the bots have no state of their own beyond the table they are
given. `TableClients` translates every reachable table into an engine state, lets
chain and engine apply every action, a timeout and an abort to it, and compares.

### Dealing

| module | models |
|---|---|
| `DealerDkg` | the x/dealer handlers of a DKG, and the daemons that drive it: draft, commit, shares, complaints, answers, sum, finalization; the files they keep |
| `Beacon` | windows of any epoch, length and threshold, commits, reveals, their consumption and fines in `beacon.go`; validators that are jailed in between; the daemons' part |
| `Committee` | `SampleByPower` with its generator, and every penalty; x/staking and x/slashing are external |
| `Dealing` | abstract: what the dealer promises a table |
| `DealerHand` | the x/dealer handlers of a hand at several tables, and the daemons that serve them; implements `Dealing` |

A chain handler is one step. A daemon has a program counter: an action such as
`handleDkgCommit(m)` is one transaction of member `m` with the branch of the
handler around it, and between two of them anything may happen, `Crash` included.
`Send` is a transaction that the chain takes or refuses, or that is lost; a
commitment may also be taken and its answer lost. What survives a restart is
`disk`, on which a write cut short leaves an unreadable file. Two messages of a DKG are
sent by no daemon and modelled all the same: `DkgComplaintInvalid`, by anybody who was
given a wrong share with its dealer's signature (`signers` are the members who sign
shares), and `DkgTimeout`.

Blocks do not wait for the beacon's daemons. A poll may see a phase of a window, a part
of it or nothing, an epoch may begin or end during a poll, and `Unbond` takes a
validator's right to send anything at any time. `covered` is a history variable: the
validator has had a whole poll in the reveal phase of this window, bonded, with
nothing lost.

A polynomial is a number that is never used twice, and a share is valid if it
comes from the committed polynomial; so a sum of shares is the set of its dealers.
In `DealerHand` a share or a shuffle is who sent it. A beacon salt is derived from
the epoch, so a reveal matches the commit of the same epoch. `Committee` lets the
hash give any number that `BigIntn` may return, so that the number of them that
pick a candidate is that candidate's chance.

`Dealing` says: a deck is sealed once, hole cards are dealt from the sealed deck,
board cards are opened one by one, each while the players wait for it, and a hand
may end at any time and is then over. `Promise == INSTANCE Dealing WITH ...` in
`DealerHand` maps each table's stored hand to that state; `Implements` is
`Promise!Spec`.

### Shared packages

| module | models |
|---|---|
| `HandEval` | `packages/holdem-eval`: five cards, the best of seven, the winners |
| `ShowdownCases` | side pots of chain and engine, tier by tier, and the evaluator, each against a reference definition |
| `WireMessages`, `Wire`, `WirePeers` | the generated message classes by their fields; encode, decode, toJSON, fromJSON once for all; a message from a peer that encodes differently |
| `SdkCalls` | every transaction call of the SDK's client and how it fills its message |
| `EventAttributes` | how ids are read from event attributes that may be base64 |
| `Sigma`, `ProofGame` | five zero-knowledge proofs over a small prime field; what an honest and a cheating prover can do |
| `ThresholdCards` | the epoch key shared out, cards encrypted to it, the player's interpolation of shares |
| `ShuffleNetwork` | `shuffleProveV1` and `shuffleVerifyV1`: the odd-even network, the proof's layout, a damaged proof |
| `Simulator` | `runSimulation` of `apps/sim`, with behaviours that answer anything |

A point of `Sigma` is its discrete logarithm, and the transcript's hash is a
challenge that may be any scalar. `ProofGame` then asks for special soundness:
whoever can answer two challenges for the same commitments has claimed the truth.
`ShuffleNetwork` builds on that: there a proof is the statement and the context it
was made for.

Strings appear only in `EventAttributes`, as sequences of character codes, because
the property there is about their characters.

### Services and clients

| module | models |
|---|---|
| `Lobby` | the tables that the next three name |
| `CoordinatorServices` | faucet, nicknames behind the write limiter, artifact cache, seat intents |
| `TableChat` | the coordinator's socket hub and one page's end of the socket |
| `Relay` | the coordinator's chain subscription, with reconnects, and its table store |
| `PageFeeds` | the page's two event feeds, their deduplication and the reads they trigger |
| `PlayerSession` | the page's key and its auto-lock, its hand history, its verification badge |
| `TxClient` | `signAndBroadcastAuto`, called twice at once for one account; blocks take the transactions when they like |
| `BotLoop` | the bot's poll loop, seating, rebuying and its fallback, over calls that may execute twice, or after they failed |

An event handler, a timer and the code between two awaits are steps. React's
effects are a step of their own (`RunEffects` and the like), some time after the
state change that called for them, so other events may come first.

### Instances and proofs

`MCPokerTable`, `MCDealerDkg`, `MCDealerHand`, `MCPackages` and `MCClients` instantiate
the models for TLC. Parts that share no state run in one TLC model as scenes: a
rigid variable `scene` picks one in the initial state and the others stay as they
are. That is a union of the parts' behaviours, never a restriction of one.

The theorems are in `PokerTableProofs` (showdown and table), `HandProofs` (hands),
`ChipProofs` (who pays whom), `DealerHandProofs`, `EpochProofs` (DKG, beacon and
committee), `ClientProofs` (bot, transaction client, player's session), `RelayProofs`
(`Relay` and `PageFeeds`) and `ChatProofs`. A leaf cites a prover where the one tried
first is slow on it.

## What is checked

| run | instance | result |
|---|---|---|
| `table_three` | 3 players, a hand and the deal of the next, buy-ins of 2 to 4, fair | passes, 266 thousand states |
| `dkg` | DKG of 3 members, threshold 2, a member down, garbling or signing wrong shares, one fault; beacon of 3 validators; draws and penalties of 3 validators; fair | passes, 883 thousand states |
| `hand` | 3 daemons, 1 table, a member without its key, one fault, an epoch change, fair | passes, 517 thousand states |
| `packages` | 4 seats with up to 3 chips; every message class; proofs over Z_3; decks of 2 to 5; 3 simulated configurations | passes, 775 thousand states |
| `clients` | 2 tables, 3 addresses, a few events, losses and switches, fair where stated | passes, 1.3 million states |
| `short_blind` | big blind all-in below the small blind, fair | violates `BettingEnds` |
| `stranded_refund` | 3 players, an abort after fold and leave | violates `NothingStranded` |
| `dkg_stale_sum` | 3 daemons that poll in turn | violates `SumMatchesEpoch` |
| `dkg_late_share` | 3 daemons of a version-2 DKG that poll in turn | violates `CuredDealersQualify` |
| `hand_skipped` | 2 tables, daemons that poll in turn | violates `DeckShuffledByQualified` |
| `event_ids` | ids 130 to 150 | violates `PlainStringsUnchanged` |
| `retry_twice` | 2 calls for one account, 3 lost answers | violates `RetryIsSafe` |

### Properties of the passing runs

Many are conjunctions; the comment at each conjunct says what it adds.

The table (`table_three`):

- `Solvent`: the module account covers all stacks, all bonds and the pot.
- `SeatsArePersonal`: nobody holds two seats, and live cards stay with the player
  they were dealt to, whoever comes and goes.
- `HandIsCoherent`: the turn is at a seat that may and must act, a seat is flagged
  all-in exactly when it is broke, one deadline runs, bets are matched when the
  dealer's turn comes.
- `BlindsGoRound`: the button moves and two different seats post blinds, whatever
  happened to the seats between the hands.
- `OnlyMoverPays`: while a hand goes on, a step costs only the player to act.
- `PayoutsAreFair`: however a hand ends, a seat that is still held gets all of an aborted
  pot back that it put in, folded or not; nobody wins more from a seat than they put in
  themselves; and the chips that end up owed to nobody are exactly two: a refund to a seat
  that was left (`stranded_refund`), and what folded seats had bet above every live one
  (disagreement 2).
- `EnginePlaysAlike`: the TypeScript engine accepts the same actions as x/poker and
  ends up in the same hand.
- `MovesAreAccepted`: what the engine offers and what a bot sends, the chain takes.
- `BettingEnds`: idle players cannot hold up a betting round.

The committee (`dkg`):

- `FilesMatchChain`: what a daemon has on disk is the polynomial it committed to, and a
  sum that lacks no qualified dealer.
- `DkgIsFair`: a missing commitment, an unanswered complaint or a wrong share that was
  proved, by its ciphertext or by its signature, excludes; nothing else does; and nobody
  is fined twice.
- `ReadyDaemonFinalizes`: a running daemon that has a share of everybody it waits for does
  not stay there: it sums, and tries again until the DKG is over or its file is torn.
- `OnlyAbsentAreFined`: whoever the beacon fines had committed to the window that is
  consumed, and had no whole poll in its reveal phase whose transaction arrived while the
  validator was bonded. A validator that was jailed, down or slow is fined: the code has
  it so.
- `WindowIsFair`: nobody commits once a salt is out; a window that `BeginEpoch` can use is
  not lost.
- `FirstEpochBegins`: as long as there is no first epoch, windows for it keep coming, also
  after some that failed or were opened for another epoch; and one in which enough
  daemons had their polls in time lets it begin (after an aborted DKG: disagreement 7).
- `DrawsAreFair`: each draw is proportional to power, and the pool loses nobody.
- `CandidatesHaveServed`: whoever can be drawn has served every jail time given.
- `JailsNotTheLast`: penalties never jail the last bonded validator.

A hand (`hand`):

- `Implements`: refinement of `Dealing`.
- `PenalisedOnce`: at most one penalty per member and epoch, over all tables and stages.
- `OnlyDebtorsSlashed`: only a member that owed something is slashed.
- `HandsEnd`: every hand ends, an epoch change in the middle of it included.

The packages (`packages`):

- `ShowdownIsRight`: evaluator, winners and side pots, on the chain and in the engine,
  against their textbook definitions.
- `MessagesSurvive`: every message class, in binary as another encoder may write it and
  in both spellings of JSON.
- `SdkSpeaksChain`: every call's arguments arrive in their fields; ids below 140 are read
  back from events.
- `ProofsProve`: completeness and special soundness.
- `PlayerReadsDealtCards`: any threshold of shares, in any order and with more than enough
  of them, gives the player the cards that were dealt.
- `ShuffleKeepsCards`: an honest shuffle verifies and is the permutation drawn; an accepted
  one kept the cards and was made for this hand.
- `SimHandsAreFair`: chips are conserved, aborts refund, a showdown has enough shares.

The services and clients (`clients`):

- `ServicesKeepTheirLimits`: one drip per cooldown and address as it is spelled, unique
  nicknames, bounded write bursts, exact cache totals, intents listed exactly while fresh.
- `ChatIsOfTheTable`, `PageSettles`: the page is subscribed to the table it shows, shows
  its chat once and in order, and comes back after every loss.
- `RelayIsSound`: one live socket, re-armed when lost, silent after `stop()`, events in
  order and once, and a store that lags behind no event heard unless reads overlap or fail.
- `PlayerSeesHeardEvents`: the page reads the table after every event it heard of it, and
  shows it as of that event or later, unless reads overlap or fail.
- `UnlockedKeyWillLock`, `PageTellsTheTruth`: the auto-lock is armed while it should be;
  history and badge are about the hands and tables shown.
- `CallRunsAtMostTwice`: a second execution of a call needs a first one that was in a block
  when the retry was signed (`retry_twice` shows that it happens), there is no third, and a
  result means that the call was executed.
- `BotSpendingIsBounded`, `KeepsPolling`: one call at a time, and at most three buy-ins after
  a bust: one that a failed call had left behind, and a retried one that ran twice; the
  bot polls again until it is stopped.

### Bounds

Chip amounts matter relative to each other: less than a blind, a blind, a short
raise, a full raise, everything. Stacks of up to 4 with blinds of 1 and 2 have all
of these. Three players reach side pots, folded contributors, short raises that do not
reopen the betting and, when one has left or is broke, heads-up play. Of the second
hand the deal is looked at (`FirstHand`), with seats emptied, refilled and busted since the
first, and one player away at most. Players are alike until cards are dealt, so they are
numbered by their seats then; a symmetry set would not be sound with `BettingEnds`. Two
ranks make winners, losers and split pots. What no live seat has matched
(disagreement 2) needs four seats: `ShowdownCases` has them.

Three members with threshold 2 are the smallest committee in which one may be down
or slashed and the rest still deals. One fault (a crash, a torn file, a lost request
or answer) may strike at every point; it is one because a second one doubles the
program counters that overlap, and the code treats each fault on its own. With all
daemons running, polls of the DKG and of the beacon are taken one at a time
(`PollsInTurn`, named as a bound in the modules), nothing is lost in such a DKG and such a
beacon serves one epoch; with a member down polls overlap freely, which is where the code
has to wait. Of the beacon's disturbances (a lost transaction, an aborted DKG, a window
opened by hand, a validator jailed) a behaviour has one. The chain's window has one block
a phase and asks for two reveals, the one opened by hand has a longer reveal phase and
asks for three: phases that polls miss, and windows that fall short, are the common case.
`MaxEpochs = 2` in `hand` lets the epoch change under a hand. `MaxStack = 4` leaves
the bot room for one buy-in more than `BotSpendingIsBounded` allows.

Proofs over Z_3 are enough to tell one challenge met from two. Shares over Z_5 leave
room for three members and a nonzero key. Decks of 2 to 5 have both parities, and the
network's rounds go beyond the size of the deck. The evaluator sees every seven
cards of two packs, one with three ranks in four suits (pairs to four of a kind, full
houses, two triplets) and one with seven ranks in two suits (straights, the wheel,
flushes, straight flushes).

The clients' bounds are budgets: so many events, losses, switches, hands, errors. They
are small, and large enough for the cases the code has to tell apart: a second event
while the first is being read, a third socket while two are closing, a second hand
before the first is filed, a full ring, cache or map that must drop something.

Deadlock is checked in the table's run: there is always a block to come or a player
who may sit or leave. The other models stop when their bounds are used up.

### Fairness

- `PokerTable`: blocks keep coming with later timestamps, and a due tick is eventually
  sent. The chain's consensus provides the first; for the second, `Tick` is open to
  any account once the deadline has passed, and the bots and dealers of the repository
  send it. Nothing is assumed of the players whose turn it is, or of x/dealer. The
  fairness of `Tick` is written with its enabling condition `TickDue` spelled out.
- `MCDealerDkg`: blocks and heights keep coming, and running daemons keep polling
  (their `setTimeout` loop). Nothing is assumed of who sends `DkgTimeout`, since nothing in
  the repository does (disagreement 5): it may be sent (`TimeoutCaller`), never has to be.
  Nor need a validator's bond come back, or a daemon poll in time for a window.
- `DealerHand`: daemons keep polling, deadlines pass, a DKG in progress ends, and
  players finish their betting rounds: that is `BettingEnds`.
- `TableChat`: timers fire, sockets connect and carry what is sent on them, effects
  run. `BotLoop`: timers fire and calls end. All are weak fairness, and faults have none.

### Refinement

`DealerHand` implements `Dealing`: run `hand` checks it, and `ImplementsDealing` proves
it. The mapping hides who shuffled, who sent shares, deadlines, slashing, epochs and
daemons. Each handler, timeout and abort is one of the abstract steps or none.

### Disagreements

Seven runs show the code doing something that its own comments, tests or
documents rule out; `PROJECT.json` quotes the lines.

- `short_blind`. `needsToAct` compares a seat's commitment with `betTo`, which is what the
  big blind posted. If that is less than the small blind, the small blind needs to act
  again after every check, and ticks only check.
- `stranded_refund`. A folded player may leave. If the hand is then aborted, the refund
  goes to an empty seat, whose stack is zeroed on store.
- `dkg_stale_sum`. A daemon sums its shares once and early; a dealer excluded afterwards
  stays in the sum, which then does not match the member's public share.
- `dkg_late_share`. A share sent after the complaint about it is accepted and cures nothing:
  `finalizeEpoch` looks for a plaintext reveal, which version 2 refuses. The dealer is slashed.
- `hand_skipped`. `finalizeDeck` counts shuffles, not shufflers. When a member that has
  shuffled is slashed at another table, the deck is final one shuffle early.
- `event_ids`. The digits of 140 look like base64, and are decoded.
- `retry_twice`. A transaction whose answer was lost is signed anew. If the first is in a block
  by then, the second gets the next sequence number and executes too.

Others were met while modelling. The models follow the code; where a property above has
a condition, one of these is the reason. They have no run of their own.

1. A deck too small for the board: `InitHand` accepts any size from 2, and the error
   that no card is left reverts the action that needed one, a tick included.
2. A tier with no eligible seat (two seats bet each other up and fold, two stay in for
   less) is skipped at the showdown, not refunded, against `docs/SPEC.md:579`. Four seats are
   needed. `PaysTextbookPots` in `ShowdownCases` states the amount (`Overbid`), and
   `PayoutsAreFair` allows for it.
3. Hands that end in a showdown or an abort end inside x/dealer's handlers, which
   neither eject bondless players nor start the cooldown. `BondlessAreEjected` and
   `CooldownAfterHand` in `PokerTable` state it; TLC refutes both.
4. `legalActions` of the engine offers a bet of the big blind to a seat that has matched
   one; `startHand` lets a busted seat post a blind of nothing; `sanitizeAction` lets a
   bot raise again in an interval in which it has acted. The chain refuses or skips.
5. No service sends `DkgTimeout`, so a DKG with a silent member stays open, where
   `docs/DKG.md:38` has it aborted. A commitment whose answer is lost leaves the daemon
   without its polynomial, and the check whether it has committed looks at its disk only
   (`CommitCheckIsRight`, `handlers/dkg.ts:56`).
6. A daemon takes the shuffle step as an index into all members, the chain into those not
   slashed, so after a slash the daemon whose turn it is stays silent until it is slashed
   too (`NextShufflerKnows`, `handlers/shuffle.ts:48`). With two tables, slashes at one may
   leave fewer qualified members than the other has shuffle steps: its timeout is then
   an error, and the hand waits for the epoch to change (`ops.go:592`).
7. After a DKG ends without an epoch, daemons target the epoch after the last finalized
   one, the chain's window is for `NextEpochID`, and on production chains no further
   epoch begins (`handlers/beacon.ts:82`).
8. Members that do not reveal in a window that falls below its threshold are not fined
   on production chains, although `beacon.go:9` says that no-show committers are.
9. On a devnet, an epoch begun before its window closes leaves a window with enough
   reveals that nothing consumes and that keeps others from opening.
10. The penalty of a member whose validator record is gone is an error that fails the
    whole timeout (`penalty.go:36`). Slashing to zero power together with jailing can still
    leave no bonded validator with power; `JailsNotTheLast` is about jailing.
11. The page drops an event that says the same as an earlier one, looks at the newest
    event only, and keeps the older of two tables whose answers crossed; so does the
    coordinator's store.
12. An answer about the hole cards of an old hand may replace those of the new one; two
    overlapping fetches may lose them for the hand (`useHoleCards`).
13. A hand that ends while the user switches tables is filed under the new table; a
    switch while the socket is down leaves the other table's chat on the page.
14. After protecting a key the auto-lock is armed only by the next click, and an
    encrypted key is not available through `getPlayerKeysForAddress` even when unlocked.
15. The retry of the verification badge compares the snapshots it already had.
    `recoverCard` takes fewer shares than the threshold without complaint.
16. A call that failed may still be executed. The bot makes another, and with the retry of
    `retry_twice` a bust can cost it three buy-ins (`BotSpendingIsBounded`).
17. The bot, once it has left and failed to sit down again, never sits; `stop()` during a
    poll or a rebuy leaves its timer.
18. The simulator's plan falls back to its first committee, not to sampling (`sim.ts:243`).
    Its button moves only after a showdown, and its minimum raise is fixed.

### Mutants

For each property of a passing run, `PROJECT.json` names a definition and a variant of
it with a plausible bug (the operators marked "Mutant" next to the definitions they
vary). Put in place of the definition, the variant makes TLC report that property.

### Hazards

`PROJECT.json` lists where this code is hard to test and which property watches it. Two
have none: what must happen between hands when x/dealer ends them (disagreement 3), and
the daemon's idea of the next epoch after an aborted DKG (disagreement 7).

## What is proved

For every value of the constants that the named assumptions allow, without bounds on
hands, chips or time:

| theorem | statement | assumptions |
|---|---|---|
| `AlwaysSolvent` | `Spec => []Solvent` | `TableParams` |
| `AlwaysWellFormed` | `Spec => [](TypeOK /\ StreetWithinTotal)` | `TableParams` |
| `SeatsStayPersonal` | `Spec => []SeatsArePersonal` | `TableParams` |
| `PayoutWithinPot` | the showdown pays natural amounts, only to eligible seats, at most the pot | none |
| `PayoutIsMatched` | the showdown pays a seat at most its own commitment from every seat | none |
| `HandsStayCoherent` | `Spec => []HandIsCoherent` | `TableParams` |
| `BlindsAlwaysGoRound` | `Spec => BlindsGoRound` | `TableParams` |
| `OnlyTheMoverPays` | `Spec => OnlyMoverPays` | `TableParams` |
| `SettlementsAreCovered` | `Spec => [][AbortCostsNothing /\ WinningsAreCovered]_vars` | `TableParams` |
| `PenalisedOnceHolds` | `Spec => []PenalisedOnce` of `DealerHand` | `HandParams` |
| `OnlyDebtorsAreSlashed` | `Spec => OnlyDebtorsSlashed` of `DealerHand` | `HandParams` |
| `ImplementsDealing` | `Spec => Implements` | `HandParams` |
| `FilesAlwaysMatch` | `DkgSpec => []FilesMatchChain` | `DkgParams` |
| `DkgAlwaysFair` | `DkgSpec => []DkgIsFair` | `DkgParams` |
| `WindowsAreFair` | `BeaconSpec => WindowIsFair` | `BeaconParams` |
| `OnlyTheAbsentAreFined` | `BeaconSpec => OnlyAbsentAreFined` | `BeaconParams` |
| `JailTimesAreServed` | `CommitteeSpec => []CandidatesHaveServed` | `CommitteeParams` |
| `PenaltiesLeaveOne` | `CommitteeSpec => []JailsNotTheLast` | `CommitteeParams` |
| `BotAlwaysSpendsWithinBounds` | `BotSpec => []BotSpendingIsBounded` | none |
| `CallsRunAtMostTwice` | `TxSpec => []CallRunsAtMostTwice` | none |
| `KeysAlwaysLock` | `SessionSpec => []UnlockedKeyWillLock` | none |
| `PageAlwaysTellsTheTruth` | `SessionSpec => []PageTellsTheTruth` | `SessionParams` |
| `RelayAlwaysSound` | `RelaySpec => []RelayIsSound` | none |
| `HeardEventsAlwaysSeen` | `FeedsSpec => []PlayerSeesHeardEvents` | `FeedParams` |
| `ChatStaysOfTheTable` | `ChatSpec => []ChatIsOfTheTable` | `ChatParams` |

The assumptions are what the code checks or sets (`CreateTable`, `BeginEpoch`, parameter
validation), or say that a bound is a natural number. TLC evaluates them in the runs of those modules.

**Solvency.** `Solvent` compares `escrow` with `Owed(table)`, the sum of stacks, bonds and
commitments. Each operator that translates a Go function gets a lemma `Keeps(t, u)`:
from a sound table it makes a sound table that owes no more. `Sound` is the type plus
`streetCommit <= totalCommit`. That strengthening is needed because
`returnUncalledStreetExcess` subtracts an excess of the street from the commitment to
the hand. The inductive invariant is `IInv == TypeOK /\ table \in Sound /\ Solvent`. The
messages that move coins each have a lemma that relates the transfer to `Owed`. Sums
over the nine seats are written out in `SeatMath`, because facts about sums over an
arbitrary set need induction; the nine is the code's own constant.

**Seats.** `SeatInv` adds to `IInv` the property itself and two facts: a table without a hand
has nobody in it (`AtRest`), and a seat without a player has no chips (`Tidy`), so that
`StartHand` deals only to players. The operators of a hand leave players alone and bring
nobody into it (`Stays`); only `Sit`, `Leave`, `StartHand` and the ejection need an argument
of their own.

**Hands.** `HandInv` adds what each phase finds (`Playable`) and that one deadline runs
(`Clocked`). `HandIsCoherent` alone is not inductive: that bets are matched when the street
ends follows from how they were made. During a street some seat has paid `betTo` and at
most one has paid more (a small blind above a short big blind); a live seat that had chips
when the street began had by then paid as much as every other. Every operator keeps
this; `returnUncalledStreetExcess` and the end of the round turn it into matched bets, and
the next board card turns matched bets back into it.

**Chips.** The step properties follow from `SeatInv` and a description of what each message
does to each seat. For the showdown, `PayoutIsMatched` follows pot by pot: a pot holds at
most one tier of each seat, and a seat eligible for it has paid that tier too. An abort is
`returnTotalCommit`, which only gives.

**Dealing.** `EpochInv` says that a penalised member is slashed in this epoch, so that `Slash`
leaves it out. For the refinement, `HandInv` says that betting starts only on a final deck
and that cards are left to open, `DaemonInv` that a busy daemon serves a table and has
something to send. Each outcome of a handler is matched with one abstract step, a timeout
with that of the handler it calls. That only debtors are slashed needs `TurnInv`: the
shufflers of a hand that still count come before the index at which the chain waits, so
the member it finds there has not shuffled, whoever was slashed in the meantime.

**DKG.** `DkgInv` ties a daemon to its file and to the DKG it serves. What it goes on to save
is what it committed to, unless the DKG is no longer its own; whom it is about to accuse of
a bad ciphertext has sent one, and whoever is slashed for a signed share has signed a
wrong one; and the sum it goes on to save, like the one saved, covers
everybody still qualified. Steps of the chain only add ciphertexts and slashed members,
end the DKG or begin a later one (`KeepsFor`), and each of these keeps it.

**Beacon.** `RevealsLate` says that a window with reveals is past its commits. Then a commit
and a reveal are never both acceptable, and a window with enough reveals is protected
from being reopened. For the fines, `PollKeeps`
follows the epochs that daemons read, which are never later than the chain's own: nobody
commits to a window of an epoch after the next, and a poll that begins in the reveal phase,
after all commits, has read an epoch no earlier than the window's. So when it is heard, its
reveal is in the window, or the window's epoch has begun and no `BeginEpoch` will consume it.

**Committee.** `ServedInv` says that whoever still owes jail time is jailed at least until then.
`SlashAndJailValidator` keeps it because it never shortens a jail time, and unjailing
because it waits for its end. One bonded validator out of jail is left because the check
for a sole one looks at the validators as the earlier penalties of the block left them.

**Bot and transactions.** `BotTurns`: start, poll and rebuy take turns. `BotOwes`: the
stack and the rebuy that waits for a block are one buy-in at most when a poll has seen an
empty stack, and each of the two tries of the new call adds one. `CallOk`: a call has
nothing admitted before its first broadcast, one transaction at most before the second,
and a second one only if the first was in a block when it was signed, because two
transactions never have one sequence.

**Session.** The lock timer is set by whatever unlocks (`KeyInv`). For the history,
`AheadInOrder` speaks of the events the page has still to look at: an event of a completed
showdown finds winners and cards noted, or theirs come before it.

**Relay and feeds.** `AdapterOk`: the adapter's socket is the only live one. `QueueOk`: what is
queued is on a subscribed socket, in order, after all that was sent. `StoreOk`: the store
lags behind no event unless its read is under way, met another or failed. In the page,
`Fresh(t, v)` says that a read of table `t` at version `v` shows every event heard of it and
every event that the map of remembered keys will keep from causing another read;
`SeesOk` that the last read is fresh, back or under way.

**Chat.** `SubsInv`: the messages on the socket, handled in order, will leave the page
subscribed to what it wants, since the last word on a room counts. `TableOk`: after the
last history that was asked for, all that comes is of the page's table. `OrderInv`: what is
still to come is newer than what is shown, or a history that replaces it. `LimitInv`:
the bucket counts what it let through in this minute.

Each of these invariants was checked by TLC before it was proved.

Only model-checked, and why:

- liveness (`BettingEnds`, `ReadyDaemonFinalizes`, `FirstEpochBegins`, `HandsEnd`, `PageSettles`,
  `KeepsPolling`): out of the prover's reach;
- what recursive and folded definitions compute, which needs induction over data:
  `ShowdownIsRight`, `MessagesSurvive`, `SdkSpeaksChain`, `ShuffleKeepsCards`,
  `SimHandsAreFair`, `DrawsAreFair`, and `ServicesKeepTheirLimits` for its cache total;
- `ProofsProve` and `PlayerReadsDealtCards`, which are algebra modulo a prime;
- `EnginePlaysAlike` and `MovesAreAccepted`, which compare two implementations of the
  rules action by action;
- `PotIsAccountedFor` in `PayoutsAreFair`: that the payout leaves exactly the unmatched part
  over sums up tier by tier, by induction. The other two conjuncts are proved.

## Not modelled

- `apps/chain`, the prototype that `apps/cosmos` replaced. Its table rules are those of
  `PokerTable`, and nothing deploys it.
- Scripts and deployment: they send, in a fixed order, messages whose handlers are
  modelled. The deprecated EVM code and the DKG prototype.
- Queries, genesis export, the one-time migration of stored tables, several tables in one
  module account (independent sums of one balance).
- The curve, hashing and byte encodings: `Sigma` works on discrete logarithms, and the
  Fiat-Shamir hash is a free challenge. The scalar of a hand (`encshares.ts:125`,
  `msg_server.go:1179`), by which key and shares are multiplied alike. Which bytes of the
  hash a draw takes and masks (`rng.go`): a draw is any number of so many bits.
- That one account has two spellings: the faucet counts cooldowns by the string it is sent
  (`faucet.ts:151`), and accepts an address in upper case as well (`faucet.ts:41`). An address
  of `CoordinatorServices` is such a string.
- Rendering, forms, sound, wallets' own dialogs, and the callbacks that submit one
  transaction for one click. `useHoleCards` was read (disagreement 12) and has no module:
  the statement that the cards shown are those of the hand is the one it does not keep.
- The coordinator's read-only routes and its second chain adapter, which has the
  control of the first.
- Logging, configuration and metrics everywhere.
