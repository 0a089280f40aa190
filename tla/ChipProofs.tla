----------------------------- MODULE ChipProofs -----------------------------
(***************************************************************************)
(* What the steps of a table do with the players' chips, for every choice  *)
(* of players and table parameters: the blinds go round, a step costs      *)
(* nobody but the player whose turn it is anything, an aborted hand costs  *)
(* nobody anything, and nobody wins more than was matched.                 *)
(***************************************************************************)
EXTENDS HandProofs

\* Only StartHand counts a hand.
LEMMA HandsCounted ==
    ASSUME Next, hands' # hands
    PROVE  \E p \in Players : StartHand(p)
BY Zenon
   DEF Next, Sit, Rebuy, Leave, Fold, Check, Call, BetTo, Act, Tick, Conclude, InitHand,
       FinalizeDeck, AdvanceAfterHoleSharesReady, RevealBoard, RevealHole, SettleShowdown,
       SettleEvalError, AbortHand, DealerStores, NextBlock

\* From table t to its new hand u the button has moved and exactly the two blinds
\* have paid.
MovedRound(t, u, sb, bb) ==
    /\ u.button \in u.inHand \ {t.button} /\ u.bb # u.button
    /\ \A s \in Seats : u.totalCommit[s] > 0 <=> s = sb \/ s = bb
    /\ u.button = sb \/ u.button = bb <=> SeatCount(u.inHand) = 2

\* What Dealt says of the blinds.
LEMMA DealtBlinds ==
    ASSUME NEW t \in Sound, NEW u, NEW sb \in Seats, NEW bb \in Seats,
           SeatCount(occupiedSeatsWithStack(t)) >= 2, Dealt(t, u, sb, bb)
    PROVE  MovedRound(t, u, sb, bb)
<1> DEFINE funded == occupiedSeatsWithStack(t)
           from   == IF t.button < 0 THEN 8 ELSE t.button
<1>1. /\ funded \in SUBSET Seats /\ funded # {} /\ t.button \in -1..8
      /\ \A s \in funded : t.stack[s] \in Nat /\ t.stack[s] > 0
      /\ t.stack \in [Seats -> Nat]
  BY Zenon, FundedFact DEF Sound, TableType, occupiedSeatsWithStack
<1>2. /\ u.button = NextSeat(from, funded) /\ u.inHand = funded /\ u.bb = bb
      /\ sb = (IF SeatCount(funded) = 2 THEN u.button ELSE NextSeat(u.button, funded))
      /\ bb = NextSeat(sb, funded)
      /\ sb \in funded /\ bb \in funded /\ sb # bb
      /\ \A s \in Seats : u.totalCommit[s] = Blind(t, s, sb, bb)
  BY DEF Dealt
<1>3. SeatCount(funded) \in Nat /\ SeatCount(funded) >= 2
  BY <1>1, CountFact
<1> HIDE DEF funded
<1>4. u.button \in funded /\ u.button # t.button
  <2>1. from \in Seats /\ (t.button # from => t.button = -1)
    BY <1>1 DEF Seats
  <2> HIDE DEF from
  <2>2. u.button \in funded /\ u.button # from
    BY <1>1, <1>2, <1>3, <2>1, NextSeatMoves
  <2> QED BY <1>1, <2>1, <2>2 DEF Seats
<1>5. SeatCount(funded) # 2 => sb # u.button /\ bb # u.button
  <2> SUFFICES ASSUME SeatCount(funded) # 2 PROVE sb # u.button /\ bb # u.button
    OBVIOUS
  <2>1. SeatCount(funded) >= 3
    BY <1>3
  <2>2. sb = NextSeat(u.button, funded) /\ u.button \in Seats
    BY <1>1, <1>2, <1>4
  <2>3. sb # u.button
    BY <1>1, <1>3, <2>2, NextSeatMoves
  <2>4. NextSeat(NextSeat(u.button, funded), funded) # u.button
    BY <1>1, <1>4, <2>1, NextSeatTwice
  <2> QED BY <1>2, <2>2, <2>3, <2>4
<1>6. SeatCount(funded) = 2 => sb = u.button
  BY <1>2
<1>7. ASSUME NEW s \in Seats PROVE u.totalCommit[s] > 0 <=> s = sb \/ s = bb
  <2>1. SmallBlind \in Nat /\ SmallBlind > 0 /\ BigBlind \in Nat /\ BigBlind > 0
    BY TableParams
  <2>2. Blind(t, sb, sb, bb) > 0
    BY <1>1, <1>2, <2>1 DEF Blind, Lesser
  <2>3. Blind(t, bb, sb, bb) > 0
    BY <1>1, <1>2, <2>1 DEF Blind, Lesser
  <2>4. s # sb /\ s # bb => Blind(t, s, sb, bb) = 0
    BY DEF Blind
  <2>5. u.totalCommit[s] = Blind(t, s, sb, bb)
    BY <1>2
  <2> QED BY <2>2, <2>3, <2>4, <2>5
<1> QED BY <1>2, <1>4, <1>5, <1>6, <1>7 DEF MovedRound

\* StartHand, in the terms of BlindsGoRound.
LEMMA BlindsStep ==
    ASSUME SeatInv, NEW p \in Players, StartHand(p)
    PROVE  LET posted == {s \in Seats : table'.totalCommit[s] > 0}
           IN  /\ table'.button \in table'.inHand \ {table.button}
               /\ table'.bb \in posted \ {table'.button}
               /\ posted \subseteq table'.inHand /\ SeatCount(posted) = 2
               /\ (table'.button \in posted) <=> (SeatCount(table'.inHand) = 2)
<1> DEFINE u == DealIn(table)
<1>1. /\ table \in Sound /\ SeatCount(occupiedSeatsWithStack(table)) >= 2
      /\ table' = SetTable(u)
  BY DEF SeatInv, IInv, StartHand
<1>2. u \in Sound
  BY <1>1, FundedFact, DealInFact DEF Keeps
<1>3. PICK sb \in Seats, bb \in Seats : Dealt(table, u, sb, bb)
  BY <1>1, DealInFields
<1> HIDE DEF u
<1>4. MovedRound(table, u, sb, bb)
  BY <1>1, <1>3, DealtBlinds
<1>5. sb \in u.inHand /\ bb \in u.inHand /\ sb # bb /\ u.bb = bb
  BY <1>3 DEF Dealt
<1>6. /\ table'.button = u.button /\ table'.inHand = u.inHand /\ table'.bb = u.bb
      /\ table'.totalCommit = u.totalCommit
  <2> DEFINE stack == [s \in Seats |-> IF u.player[s] = NoPlayer THEN 0 ELSE u.stack[s]]
             bond  == [s \in Seats |-> IF u.player[s] = NoPlayer THEN 0 ELSE u.bond[s]]
  <2>1. table' = [u EXCEPT !.stack = stack, !.bond = bond]
    BY <1>1 DEF SetTable
  <2> HIDE DEF stack, bond
  <2> QED BY <1>2, <2>1 DEF Sound, TableType
<1>7. SeatCount({sb, bb}) = 2
  BY <1>5, CountPair
<1>8. {s \in Seats : table'.totalCommit[s] > 0} = {sb, bb}
  BY <1>4, <1>6 DEF MovedRound
<1> QED BY <1>4, <1>5, <1>6, <1>7, <1>8 DEF MovedRound

\* Whoever sat down, left, was ejected or went broke since the last hand, StartHand
\* moves the button to another funded seat; the small and the big blind are paid by
\* two different seats of the hand, the big one never by the button and the small
\* one by the button only heads-up.
THEOREM BlindsAlwaysGoRound == Spec => BlindsGoRound
<1>1. ASSUME SeatInv, [Next]_vars, hands' # hands
      PROVE  LET posted == {s \in Seats : table'.totalCommit[s] > 0}
             IN  /\ table'.button \in table'.inHand \ {table.button}
                 /\ table'.bb \in posted \ {table'.button}
                 /\ posted \subseteq table'.inHand /\ SeatCount(posted) = 2
                 /\ (table'.button \in posted) <=> (SeatCount(table'.inHand) = 2)
  <2>1. PICK p \in Players : StartHand(p)
    BY <1>1, HandsCounted DEF vars
  <2> QED BY <1>1, <2>1, BlindsStep
<1>2. SeatInv /\ [Next]_vars =>
        [hands' # hands =>
            LET posted == {s \in Seats : table'.totalCommit[s] > 0}
            IN  /\ table'.button \in table'.inHand \ {table.button}
                /\ table'.bb \in posted \ {table'.button}
                /\ posted \subseteq table'.inHand /\ SeatCount(posted) = 2
                /\ (table'.button \in posted) <=> (SeatCount(table'.inHand) = 2)]_vars
  BY <1>1
<1> QED BY <1>2, InitSeats, NextSeats, PTL DEF Spec, BlindsGoRound

-----------------------------------------------------------------------------

\* What the player of seat s has at the table: chips, bond, and the commitment
\* behind live cards.
Value(t, s) ==
    t.stack[s] + t.bond[s] + (IF s \in Live(t) THEN t.totalCommit[s] ELSE 0)

\* The value of a seat is a natural number.
LEMMA ValueNat ==
    ASSUME NEW t \in Sound, NEW s \in Seats
    PROVE  Value(t, s) \in Nat
BY DEF Value, Sound, TableType

\* Seats whose chips and cards are left alone are worth what they were.
LEMMA SameValue ==
    ASSUME NEW t, NEW u, NEW s, u.stack[s] = t.stack[s], u.bond[s] = t.bond[s],
           u.totalCommit[s] = t.totalCommit[s], u.inHand = t.inHand,
           s \in u.folded <=> s \in t.folded
    PROVE  Value(u, s) = Value(t, s)
BY DEF Value, Live

\* Storing a table takes nothing from a seat that has a player.
LEMMA SetTableValue ==
    ASSUME NEW t \in Sound, NEW s \in Seats, t.player[s] # NoPlayer
    PROVE  Value(SetTable(t), s) = Value(t, s)
<1> DEFINE stack == [o \in Seats |-> IF t.player[o] = NoPlayer THEN 0 ELSE t.stack[o]]
           bond  == [o \in Seats |-> IF t.player[o] = NoPlayer THEN 0 ELSE t.bond[o]]
           u     == SetTable(t)
<1>1. stack[s] = t.stack[s] /\ bond[s] = t.bond[s]
  OBVIOUS
<1>2. u = [t EXCEPT !.stack = stack, !.bond = bond]
  BY DEF SetTable
<1> HIDE DEF stack, bond, u
<1>3. /\ u.stack = stack /\ u.bond = bond /\ u.totalCommit = t.totalCommit
      /\ u.inHand = t.inHand /\ u.folded = t.folded
  BY <1>2 DEF Sound, TableType
<1>4. Value(u, s) = Value(t, s)
  BY <1>1, <1>3, SameValue
<1> QED BY <1>4 DEF u

\* What a player's own action does to the others: nothing.
LEMMA ActionValue ==
    ASSUME NEW t \in Sound, NEW s \in Seats, NEW o \in Seats \ {s}
    PROVE  /\ Value(applyFold(t, s), o) = Value(t, o)
           /\ Value(applyCheck(t, s), o) = Value(t, o)
           /\ Value(applyCall(t, s), o) = Value(t, o)
           /\ \A n \in Nat : BetToAccepted(t, s, n) => Value(applyBetTo(t, s, n), o) = Value(t, o)
<1>1. Value(applyFold(t, s), o) = Value(t, o)
  <2> DEFINE u == applyFold(t, s)
  <2>1. /\ u.stack = t.stack /\ u.bond = t.bond /\ u.totalCommit = t.totalCommit
        /\ u.inHand = t.inHand /\ u.folded = t.folded \cup {s}
    BY DEF applyFold, Sound, TableType
  <2> HIDE DEF u
  <2>2. Value(u, o) = Value(t, o)
    BY <2>1, SameValue
  <2> QED BY <2>2 DEF u
<1>2. Value(applyCheck(t, s), o) = Value(t, o)
  <2> DEFINE u == applyCheck(t, s)
  <2>1. /\ u.stack = t.stack /\ u.bond = t.bond /\ u.totalCommit = t.totalCommit
        /\ u.inHand = t.inHand /\ u.folded = t.folded
    BY DEF applyCheck, Sound, TableType
  <2> HIDE DEF u
  <2>2. Value(u, o) = Value(t, o)
    BY <2>1, SameValue
  <2> QED BY <2>2 DEF u
<1>3. ASSUME NEW n \in Nat, NEW v, v.stack = Put(t, s, n).stack, v.bond = Put(t, s, n).bond,
             v.totalCommit = Put(t, s, n).totalCommit, v.inHand = Put(t, s, n).inHand,
             v.folded = Put(t, s, n).folded
      PROVE  Value(v, o) = Value(t, o)
  <2>1. PutIn(t, s, n, Put(t, s, n))
    BY PutFields
  <2>2. /\ v.stack[o] = t.stack[o] /\ v.totalCommit[o] = t.totalCommit[o]
        /\ v.bond = t.bond /\ v.inHand = t.inHand /\ v.folded = t.folded
    BY <1>3, <2>1 DEF PutIn
  <2> QED BY <2>2, SameValue
<1>4. Value(applyCall(t, s), o) = Value(t, o)
  <2> DEFINE n == Lesser(toCall(t, s), t.stack[s])
             u == Put(t, s, n)
             v == applyCall(t, s)
  <2>1. n \in Nat
    BY ToCallNat DEF Lesser
  <2>2. v = [u EXCEPT !.lastActed[s] = t.interval]
    BY DEF applyCall
  <2>3. u \in TableType
    <3>1. n <= t.stack[s]
      BY ToCallNat DEF Lesser
    <3> QED BY <2>1, <3>1, PutFact DEF Keeps, Sound
  <2> HIDE DEF u, v, n
  <2>4. /\ v.stack = u.stack /\ v.bond = u.bond /\ v.totalCommit = u.totalCommit
        /\ v.inHand = u.inHand /\ v.folded = u.folded
    BY <2>2, <2>3 DEF TableType
  <2>5. Value(v, o) = Value(t, o)
    BY <1>3, <2>1, <2>4 DEF u
  <2> QED BY <2>5 DEF v
<1>5. ASSUME NEW d \in Nat, BetToAccepted(t, s, d)
      PROVE  Value(applyBetTo(t, s, d), o) = Value(t, o)
  <2> DEFINE n     == d - t.streetCommit[s]
             u     == Put(t, s, n)
             opens == t.betTo = 0
             full  == opens \/ d - t.betTo >= t.minRaise
             now   == IF full THEN t.interval + 1 ELSE t.interval
             raise == IF opens THEN IF d >= BigBlind THEN d ELSE BigBlind
                      ELSE IF full THEN d - t.betTo ELSE u.minRaise
             acted == [u.lastActed EXCEPT ![s] = now]
             v     == applyBetTo(t, s, d)
  <2>1. /\ t.streetCommit[s] \in Nat /\ t.stack[s] \in Nat
        /\ d > t.streetCommit[s] /\ d <= t.streetCommit[s] + t.stack[s]
    BY <1>5 DEF BetToAccepted, Sound, TableType
  <2>2. n \in Nat /\ n <= t.stack[s]
    BY <2>1
  <2>3. v = [u EXCEPT !.interval = now, !.lastActed = acted, !.betTo = d, !.minRaise = raise]
    BY DEF applyBetTo
  <2> HIDE DEF n
  <2>4. u \in TableType
    BY <2>2, PutFact DEF Keeps, Sound
  <2> HIDE DEF u, v, now, acted, raise
  <2>5. /\ v.stack = u.stack /\ v.bond = u.bond /\ v.totalCommit = u.totalCommit
        /\ v.inHand = u.inHand /\ v.folded = u.folded
    BY <2>3, <2>4 DEF TableType
  <2>6. Value(v, o) = Value(t, o)
    BY <1>3, <2>2, <2>5 DEF u
  <2> QED BY <2>6 DEF v
<1> QED BY <1>1, <1>2, <1>4, <1>5

\* What maybeAdvance does to a hand that goes on: the excess goes back to a seat
\* that committed it, so no seat is worth less.
LEMMA MaybeAdvanceValue ==
    ASSUME NEW t \in Sound, maybeAdvance(t).phase # "NONE", NEW o \in Seats
    PROVE  Value(maybeAdvance(t), o) >= Value(t, o)
<1>1. ~(SeatCount(Live(t)) <= 1)
  BY DEF maybeAdvance, completeByFolds, ClearHand, Idle
<1>2. Value(t, o) \in Nat
  BY ValueNat
<1>3. CASE NeedsToAct(t) # {}
  <2> DEFINE a == nextActiveToAct(t, t.actionOn)
             u == [t EXCEPT !.actionOn = a]
  <2>1. maybeAdvance(t) = u
    BY <1>1, <1>3 DEF maybeAdvance
  <2> HIDE DEF a
  <2>2. /\ u.stack = t.stack /\ u.bond = t.bond /\ u.totalCommit = t.totalCommit
        /\ u.inHand = t.inHand /\ u.folded = t.folded
    BY DEF Sound, TableType
  <2> HIDE DEF u
  <2>3. Value(u, o) = Value(t, o)
    BY <2>2, SameValue
  <2> QED BY <1>2, <2>1, <2>3
<1>4. CASE NeedsToAct(t) = {}
  <2> DEFINE r == returnUncalledStreetExcess(t)
             f == AwaitAfter[t.street]
             u == [r EXCEPT !.actionOn = Unset, !.phase = f]
  <2>1. maybeAdvance(t) = u
    BY <1>1, <1>4 DEF maybeAdvance
  <2>2. PICK top \in Seats, n \in Nat : GivenBack(t, r, top, n)
    BY ReturnFields
  <2>3. r \in TableType
    BY ReturnFact DEF Keeps, Sound
  <2> HIDE DEF r, f
  <2>4. /\ u.stack = r.stack /\ u.bond = r.bond /\ u.totalCommit = r.totalCommit
        /\ u.inHand = r.inHand /\ u.folded = r.folded
    BY <2>3 DEF TableType
  <2> HIDE DEF u
  <2>5. Value(u, o) = Value(r, o)
    BY <2>4, SameValue
  <2>6. CASE o # top
    <3>1. Value(r, o) = Value(t, o)
      BY <2>2, <2>6, SameValue DEF GivenBack
    <3> QED BY <1>2, <2>1, <2>5, <3>1
  <2>7. CASE o = top
    <3>1. /\ t.stack[o] \in Nat /\ t.bond[o] \in Nat /\ t.totalCommit[o] \in Nat
      BY DEF Sound, TableType
    <3>2. /\ r.stack[o] = t.stack[o] + n /\ r.totalCommit[o] = t.totalCommit[o] - n
          /\ r.bond[o] = t.bond[o] /\ Live(r) = Live(t)
      BY <2>2, <2>7 DEF GivenBack, Live
    <3>3. Value(r, o) >= Value(t, o)
      BY <3>1, <3>2 DEF Value
    <3> QED BY <2>1, <2>5, <3>3
  <2> QED BY <2>6, <2>7
<1> QED BY <1>3, <1>4

\* Deadlines cost nothing.
LEMMA DeadlinesValue ==
    ASSUME NEW t \in Sound, NEW o \in Seats
    PROVE  Value(setDeadlines(t), o) = Value(t, o) /\ setDeadlines(t).phase = t.phase
<1> DEFINE r == IF t.phase \in Awaiting THEN DealerTimeoutSecs ELSE Unset
           a == IF t.phase = "BETTING" /\ t.actionOn >= 0 THEN ActionTimeoutSecs ELSE Unset
           u == setDeadlines(t)
<1>1. u = [t EXCEPT !.revealTimer = r, !.actionTimer = a]
  BY DEF setDeadlines
<1> HIDE DEF r, a, u
<1>2. /\ u.stack = t.stack /\ u.bond = t.bond /\ u.totalCommit = t.totalCommit
      /\ u.inHand = t.inHand /\ u.folded = t.folded /\ u.phase = t.phase
  BY <1>1 DEF Sound, TableType
<1>3. Value(u, o) = Value(t, o)
  BY <1>2, SameValue
<1> QED BY <1>2, <1>3 DEF u

\* The same for the whole of applyAction after the mover's own action.
LEMMA MovedValue ==
    ASSUME NEW t \in Sound, Moved(t).phase # "NONE", NEW o \in Seats
    PROVE  Value(Moved(t), o) >= Value(t, o)
<1> DEFINE m == maybeAdvance(t)
<1>1. m \in Sound
  BY MaybeAdvanceFact DEF Keeps
<1>2. Value(setDeadlines(m), o) = Value(m, o) /\ setDeadlines(m).phase = m.phase
  BY <1>1, DeadlinesValue
<1>3. m.phase # "NONE"
  BY <1>2 DEF Moved
<1>4. Value(m, o) >= Value(t, o)
  BY <1>3, MaybeAdvanceValue
<1> QED BY <1>2, <1>4 DEF Moved

\* A board card costs nothing: what was bet on the last street stays committed.
LEMMA RevealBoardValue ==
    ASSUME NEW t \in Sound, t.phase \in BoardPhases, NEW o \in Seats
    PROVE  Value(revealBoardCard(t), o) = Value(t, o)
<1> DEFINE u      == [t EXCEPT !.board = @ + 1]
           street == StreetOf[t.phase]
           await  == AwaitAfter[street]
           rest   == [s \in Seats |-> Unset]
           v      == [u EXCEPT !.street = street, !.phase = "BETTING"]
           w      == [v EXCEPT !.betTo = 0, !.minRaise = BigBlind, !.interval = 0,
                               !.streetCommit = Zero, !.lastActed = rest]
           a      == nextActiveToAct(w, w.button)
<1>1. \/ revealBoardCard(t) = u
      \/ revealBoardCard(t) = [u EXCEPT !.street = street, !.phase = await, !.actionOn = Unset]
      \/ revealBoardCard(t) = [w EXCEPT !.actionOn = a]
  BY DEF revealBoardCard, resetPostflopBettingRound
<1>2. u \in TableType
  BY DEF Sound, TableType
<1>3. /\ u.stack = t.stack /\ u.bond = t.bond /\ u.totalCommit = t.totalCommit
      /\ u.inHand = t.inHand /\ u.folded = t.folded
  BY DEF Sound, TableType
<1> HIDE DEF u, street, await, rest, a
<1> DEFINE x == revealBoardCard(t)
<1>4. /\ x.stack = u.stack /\ x.bond = u.bond /\ x.totalCommit = u.totalCommit
      /\ x.inHand = u.inHand /\ x.folded = u.folded
  <2> HIDE DEF x
  <2>1. CASE x = u
    BY <2>1
  <2>2. CASE x = [u EXCEPT !.street = street, !.phase = await, !.actionOn = Unset]
    BY <1>2, <2>2 DEF TableType
  <2>3. CASE x = [w EXCEPT !.actionOn = a]
    BY <1>2, <2>3 DEF TableType
  <2> QED BY <1>1, <2>1, <2>2, <2>3 DEF x
<1> HIDE DEF x
<1>5. Value(x, o) = Value(t, o)
  BY <1>3, <1>4, SameValue
<1> QED BY <1>5 DEF x

\* Nobody who keeps the seats, what they are worth and the wallet is worth less.
LEMMA WorthMono ==
    ASSUME IInv, IInv', NEW p \in Players, wallet'[p] >= wallet[p],
           \A s \in Seats : table.player[s] = p =>
                table'.player[s] = p /\ Value(table', s) >= Value(table, s)
    PROVE  Worth(p)' >= Worth(p)
<1> DEFINE f == [s \in Seats |-> IF table.player[s] # p THEN 0 ELSE Value(table, s)]
           g == [s \in Seats |-> IF table'.player[s] # p THEN 0 ELSE Value(table', s)]
<1>1. table \in Sound /\ table' \in Sound /\ wallet[p] \in Nat /\ wallet'[p] \in Nat
  BY DEF IInv, TypeOK
<1>2. f \in [Seats -> Int] /\ g \in [Seats -> Int]
  BY <1>1, ValueNat
<1>3. ASSUME NEW s \in Seats PROVE f[s] <= g[s]
  <2>1. Value(table, s) \in Nat /\ Value(table', s) \in Nat
    BY <1>1, ValueNat
  <2> QED BY <2>1
<1>4. Worth(p) = wallet[p] + SeatSum(f) /\ Worth(p)' = wallet'[p] + SeatSum(g)
  BY DEF Worth, Value, Live
<1> HIDE DEF f, g
<1>5. SeatSum(f) \in Int /\ SeatSum(g) \in Int /\ SeatSum(f) <= SeatSum(g)
  BY <1>2, <1>3, SumMono, SumInt
<1> QED BY <1>1, <1>4, <1>5

\* When the value of one seat of p's changes, p's worth changes by as much, and by
\* what p's wallet gains.
LEMMA WorthUpdate ==
    ASSUME IInv, IInv', NEW p \in Players, NEW s \in Seats,
           NEW old \in Int, NEW new \in Int,
           old = (IF table.player[s] # p THEN 0 ELSE Value(table, s)),
           new = (IF table'.player[s] # p THEN 0 ELSE Value(table', s)),
           \A o \in Seats \ {s} : table.player[o] = p =>
                table'.player[o] = p /\ Value(table', o) = Value(table, o),
           wallet'[p] + new >= wallet[p] + old
    PROVE  Worth(p)' >= Worth(p)
<1> DEFINE f == [o \in Seats |-> IF table.player[o] # p THEN 0 ELSE Value(table, o)]
           g == [o \in Seats |-> IF table'.player[o] # p THEN 0 ELSE Value(table', o)]
           h == [f EXCEPT ![s] = new]
<1>1. table \in Sound /\ table' \in Sound /\ wallet[p] \in Nat /\ wallet'[p] \in Nat
  BY DEF IInv, TypeOK
<1>2. f \in [Seats -> Int] /\ g \in [Seats -> Int] /\ f[s] = old /\ g[s] = new
  BY <1>1, ValueNat
<1>3. ASSUME NEW o \in Seats PROVE h[o] <= g[o]
  <2>1. Value(table, o) \in Nat /\ Value(table', o) \in Nat
    BY <1>1, ValueNat
  <2>2. CASE o = s
    BY <1>2, <2>2
  <2>3. CASE o # s
    BY <2>1, <2>3
  <2> QED BY <2>2, <2>3
<1>4. Worth(p) = wallet[p] + SeatSum(f) /\ Worth(p)' = wallet'[p] + SeatSum(g)
  BY DEF Worth, Value, Live
<1> HIDE DEF f, g
<1>5. SeatSum(h) = SeatSum(f) - old + new /\ h \in [Seats -> Int] /\ SeatSum(f) \in Int
  BY ZenonT(30), <1>2, SumUpdate, SumInt
<1> HIDE DEF h
<1>6. SeatSum(h) <= SeatSum(g) /\ SeatSum(g) \in Int
  BY <1>2, <1>3, <1>5, SumMono, SumInt
<1> QED BY <1>1, <1>4, <1>5, <1>6

\* The end of Act and Tick, when the hand goes on, stores the table it is given.
LEMMA ConcludeValue ==
    ASSUME IInv, NEW t \in Sound, NEW balance, Conclude(t, balance), table'.phase # "NONE"
    PROVE  /\ t.phase # "NONE"
           /\ \A p \in Players : wallet'[p] >= wallet[p]
           /\ \A s \in Seats : t.player[s] # NoPlayer =>
                table'.player[s] = t.player[s] /\ Value(table', s) = Value(t, s)
<1> DEFINE player == [s \in Seats |-> IF s \in Bondless(t) THEN NoPlayer ELSE t.player[s]]
           u      == [t EXCEPT !.player = player]
<1>1. table' = SetTable(u)
  BY DEF Conclude, Vacate
<1>2. player \in [Seats -> Players \cup {NoPlayer}]
  BY DEF Sound, TableType
<1>3. t.phase # "NONE" => player = t.player
  BY DEF Bondless, Sound, TableType
<1> HIDE DEF player
<1>4. /\ u \in Sound /\ u.player = player /\ u.phase = t.phase /\ u.stack = t.stack
      /\ u.bond = t.bond /\ u.totalCommit = t.totalCommit /\ u.inHand = t.inHand
      /\ u.folded = t.folded
  <2>1. u \in Sound
    BY Zenon, <1>2 DEF Sound, TableType
  <2> QED BY Zenon, <2>1 DEF Sound, TableType
<1> HIDE DEF u
<1>5. Stays(u, SetTable(u)) /\ SetTable(u).phase = u.phase
  BY <1>4, SetTableStays
<1>6. t.phase # "NONE"
  BY <1>1, <1>4, <1>5
<1>7. ASSUME NEW s \in Seats, t.player[s] # NoPlayer
      PROVE  table'.player[s] = t.player[s] /\ Value(table', s) = Value(t, s)
  <2>1. u.player[s] = t.player[s] /\ Value(u, s) = Value(t, s)
    BY <1>3, <1>4, <1>6, SameValue
  <2>2. Value(SetTable(u), s) = Value(u, s)
    BY <1>4, <1>7, <2>1, SetTableValue
  <2> QED BY <1>1, <1>5, <2>1, <2>2 DEF Stays
<1>8. ASSUME NEW p \in Players PROVE wallet'[p] >= wallet[p]
  <2> DEFINE paid == StacksOf(t, Bondless(t) \cap SeatsOf(t, p))
  <2>1. paid \in [Seats -> Nat]
    BY DEF StacksOf, Sound, TableType
  <2>2. wallet'[p] = wallet[p] + SeatSum(paid) /\ wallet[p] \in Nat
    BY DEF Conclude, IInv, TypeOK
  <2> HIDE DEF paid
  <2>3. SeatSum(paid) \in Nat
    BY <2>1, SumNat
  <2> QED BY <2>2, <2>3
<1> QED BY <1>6, <1>7, <1>8

\* Storing a table in which no seat with a player has moved or lost anything.
LEMMA StoreValue ==
    ASSUME IInv, IInv', NEW t \in Sound, t.player = table.player, table' = SetTable(t),
           wallet' = wallet, NEW p \in Players,
           \A s \in Seats : table.player[s] = p => Value(t, s) >= Value(table, s)
    PROVE  Worth(p)' >= Worth(p)
<1>1. Stays(t, SetTable(t))
  BY SetTableStays
<1>2. p # NoPlayer /\ wallet'[p] >= wallet[p]
  BY TableParams DEF IInv, TypeOK
<1>3. ASSUME NEW s \in Seats, table.player[s] = p
      PROVE  table'.player[s] = p /\ Value(table', s) >= Value(table, s)
  <2>1. Value(SetTable(t), s) = Value(t, s)
    BY <1>2, <1>3, SetTableValue
  <2> QED BY <1>1, <1>3, <2>1 DEF Stays
<1> QED BY <1>2, <1>3, WorthMono

\* Act costs nobody but the mover anything while the hand goes on.
LEMMA ActPays ==
    ASSUME SeatInv, IInv', NEW q, NEW t \in Sound, Stays(table, t), Act(q, t),
           table'.phase # "NONE", NEW p \in Players \ Mover,
           \A s \in Seats \ {table.actionOn} : Value(t, s) = Value(table, s)
    PROVE  Worth(p)' >= Worth(p)
<1> DEFINE m == Moved(t)
           u == SetTable(m)
<1>1. IInv /\ table \in Sound /\ Conclude(u, escrow) /\ p # table.player[table.actionOn]
  BY DEF Act, CanAct, SeatInv, IInv, Mover
<1>2. Stays(t, m) /\ m \in Sound
  BY MovedStays
<1>3. Stays(m, u) /\ u \in Sound /\ u.phase = m.phase
  BY <1>2, SetTableStays, SetTableFact DEF Keeps
<1>4. /\ u.phase # "NONE"
      /\ \A o \in Players : wallet'[o] >= wallet[o]
      /\ \A s \in Seats : u.player[s] # NoPlayer =>
            table'.player[s] = u.player[s] /\ Value(table', s) = Value(u, s)
  <2> HIDE DEF u
  <2> QED BY <1>1, <1>3, ConcludeValue
<1>5. p # NoPlayer
  BY TableParams
<1>6. ASSUME NEW s \in Seats, table.player[s] = p
      PROVE  table'.player[s] = p /\ Value(table', s) >= Value(table, s)
  <2>1. s # table.actionOn /\ m.player[s] = p /\ u.player[s] = p
    BY <1>1, <1>2, <1>3, <1>6 DEF Stays
  <2>2. Value(m, s) >= Value(t, s)
    BY <1>3, <1>4, MovedValue
  <2>3. Value(u, s) = Value(m, s)
    BY <1>2, <1>5, <2>1, SetTableValue
  <2>4. Value(t, s) = Value(table, s)
    BY <2>1
  <2> QED BY <1>4, <1>5, <2>1, <2>2, <2>3, <2>4
<1> QED BY <1>1, <1>4, <1>6, WorthMono

\* A tick takes the bond of the seat on the move, and moves for that seat.
LEMMA TickPays ==
    ASSUME SeatInv, IInv', Tick, table'.phase # "NONE", NEW p \in Players \ Mover
    PROVE  Worth(p)' >= Worth(p)
<1> DEFINE c    == table.actionOn
           n    == timeoutSlash(table)
           bond == [table.bond EXCEPT ![c] = @ - n]
           t    == [table EXCEPT !.bond = bond]
           v    == IF toCall(t, c) = 0 THEN applyCheck(t, c) ELSE applyFold(t, c)
           m    == Moved(v)
           u    == SetTable(m)
<1>1. /\ IInv /\ table \in Sound /\ table \in TableType /\ c \in Seats
      /\ p # table.player[c]
  BY ActorFact DEF Tick, TickDue, CanAct, SeatInv, IInv, TypeOK, Mover
<1>2. bond \in [Seats -> Nat] /\ \A s \in Seats \ {c} : bond[s] = table.bond[s]
  <2>1. table.bond \in [Seats -> Nat] /\ table.bond[c] \in Nat
    BY <1>1 DEF TableType
  <2>2. table.bond[c] - n \in Nat
    BY <2>1, TableParams DEF timeoutSlash, Lesser
  <2> HIDE DEF n, c
  <2> QED BY <1>1, <2>1, <2>2
<1>3. Conclude(u, escrow - n)
  BY DEF Tick, Ticked
<1> HIDE DEF n, bond, c
<1>4. t \in Sound
  BY Zenon, <1>1, <1>2 DEF Sound, TableType
<1>5. /\ t.player = table.player /\ t.stack = table.stack /\ t.bond = bond
      /\ t.totalCommit = table.totalCommit /\ t.inHand = table.inHand
      /\ t.folded = table.folded
  BY <1>1 DEF TableType
<1> HIDE DEF t
<1>6. Stays(t, v) /\ v \in Sound
  BY <1>1, <1>4, ActionStays, CheckFact, FoldFact DEF Keeps
<1>7. \A s \in Seats \ {c} : Value(v, s) = Value(t, s) /\ Value(t, s) = Value(table, s)
  BY <1>1, <1>2, <1>4, <1>5, ActionValue, SameValue
<1> HIDE DEF v
<1>8. Stays(v, m) /\ m \in Sound
  BY <1>6, MovedStays
<1>9. Stays(m, u) /\ u \in Sound /\ u.phase = m.phase
  BY <1>8, SetTableStays, SetTableFact DEF Keeps
<1>10. /\ u.phase # "NONE"
       /\ \A o \in Players : wallet'[o] >= wallet[o]
       /\ \A s \in Seats : u.player[s] # NoPlayer =>
             table'.player[s] = u.player[s] /\ Value(table', s) = Value(u, s)
  <2> HIDE DEF u
  <2> QED BY Zenon, <1>1, <1>3, <1>9, ConcludeValue
<1>11. p # NoPlayer
  BY TableParams
<1>12. ASSUME NEW s \in Seats, table.player[s] = p
       PROVE  table'.player[s] = p /\ Value(table', s) >= Value(table, s)
  <2>1. s # c /\ m.player[s] = p /\ u.player[s] = p
    BY <1>1, <1>5, <1>6, <1>8, <1>9, <1>12 DEF Stays
  <2>2. Value(m, s) >= Value(v, s)
    BY <1>6, <1>9, <1>10, MovedValue
  <2>3. Value(u, s) = Value(m, s)
    BY <1>8, <1>11, <2>1, SetTableValue
  <2>4. Value(v, s) = Value(table, s)
    BY <1>7, <2>1
  <2> QED BY <1>10, <1>11, <2>1, <2>2, <2>3, <2>4
<1> QED BY <1>1, <1>10, <1>12, WorthMono

\* Sit turns chips of the newcomer's account into a stack and a bond of as much.
LEMMA SitPays ==
    ASSUME SeatInv, IInv', NEW q \in Players, NEW n \in Amounts, Sit(q, n), NEW p \in Players
    PROVE  Worth(p)' >= Worth(p)
<1> DEFINE s      == autoAssignSeat(table)
           player == [table.player EXCEPT ![s] = q]
           stack  == [table.stack EXCEPT ![s] = n]
           bond   == [table.bond EXCEPT ![s] = PlayerBond]
           u      == [table EXCEPT !.player = player, !.stack = stack, !.bond = bond]
<1>1. /\ n \in Nat /\ PlayerBond \in Nat /\ table \in Sound /\ table \in TableType
      /\ SeatPart /\ IInv /\ NoPlayer \notin Players
  BY TableParams DEF SeatInv, IInv, TypeOK
<1>2. s \in Seats /\ table.player[s] = NoPlayer
  BY <1>1, AssignedIsEmpty DEF Sit
<1>3. table' = SetTable(u)
  BY <1>1 DEF Sit, TableType
<1>4. s \notin Live(table)
  BY <1>1, <1>2 DEF SeatPart, LiveSeatKeepsPlayer
<1>5. wallet' = [wallet EXCEPT ![q] = @ - (n + PlayerBond)] /\ wallet \in [Players -> Nat]
  BY <1>1 DEF Sit, IInv, TypeOK
<1>6. \A o \in Seats : table.player[o] # q
  BY DEF Sit, SeatsOf
<1> HIDE DEF s
<1>7. /\ table.player \in [Seats -> Players \cup {NoPlayer}]
      /\ table.stack \in [Seats -> Nat] /\ table.bond \in [Seats -> Nat]
  BY <1>1 DEF TableType
<1>8. /\ player \in [Seats -> Players \cup {NoPlayer}]
      /\ stack \in [Seats -> Nat] /\ bond \in [Seats -> Nat]
      /\ player[s] = q /\ stack[s] = n /\ bond[s] = PlayerBond
      /\ \A o \in Seats \ {s} : /\ player[o] = table.player[o] /\ stack[o] = table.stack[o]
                                /\ bond[o] = table.bond[o]
  BY <1>1, <1>2, <1>7
<1> HIDE DEF stack, bond, player
<1>9. u \in Sound
  BY Zenon, <1>1, <1>8, SeatChangeFact
<1>10. /\ u.player = player /\ u.stack = stack /\ u.bond = bond
       /\ u.totalCommit = table.totalCommit /\ u.inHand = table.inHand
       /\ u.folded = table.folded
  BY <1>1 DEF TableType
<1> HIDE DEF u
<1>11. table'.player = player
  BY <1>3, <1>9, <1>10, SetTableStays DEF Stays
<1>12. Value(table', s) = n + PlayerBond
  <2>1. Value(u, s) = n + PlayerBond
    BY <1>1, <1>4, <1>8, <1>10 DEF Value, Live
  <2> QED BY <1>1, <1>2, <1>3, <1>8, <1>9, <1>10, <2>1, SetTableValue
<1>13. ASSUME NEW o \in Seats \ {s}, table.player[o] = p
       PROVE  table'.player[o] = p /\ Value(table', o) = Value(table, o)
  <2>1. Value(u, o) = Value(table, o)
    BY <1>8, <1>10, SameValue
  <2> QED BY <1>1, <1>3, <1>8, <1>9, <1>10, <1>11, <1>13, <2>1, SetTableValue
<1>14. CASE p = q
  <2>1. wallet'[p] = wallet[p] - (n + PlayerBond) /\ wallet[p] \in Nat
    BY <1>5, <1>14
  <2>2. table.player[s] # p /\ table'.player[s] = p
    BY <1>2, <1>6, <1>8, <1>11, <1>14
  <2>3. wallet'[p] + (n + PlayerBond) >= wallet[p] + 0 /\ n + PlayerBond \in Int
    BY <1>1, <2>1
  <2> QED BY <1>1, <1>2, <1>12, <1>13, <2>2, <2>3, WorthUpdate
<1>15. CASE p # q
  <2>1. wallet'[p] >= wallet[p]
    BY <1>5, <1>15
  <2>2. ASSUME NEW o \in Seats, table.player[o] = p
        PROVE  table'.player[o] = p /\ Value(table', o) >= Value(table, o)
    <3>1. o # s /\ Value(table, o) \in Nat
      BY <1>1, <1>2, <2>2, ValueNat
    <3> QED BY <1>13, <2>2, <3>1
  <2> QED BY <1>1, <2>1, <2>2, WorthMono
<1> QED BY <1>14, <1>15

\* Rebuy turns chips of the account into as many of the stack.
LEMMA RebuyPays ==
    ASSUME SeatInv, IInv', NEW q \in Players, NEW n \in Amounts, Rebuy(q, n), NEW p \in Players
    PROVE  Worth(p)' >= Worth(p)
<1> DEFINE s     == seatOfPlayer(table, q)
           stack == [table.stack EXCEPT ![s] = @ + n]
           u     == [table EXCEPT !.stack = stack]
<1>1. /\ n \in Nat /\ table \in Sound /\ table \in TableType /\ IInv /\ NoPlayer \notin Players
  BY TableParams DEF SeatInv, IInv, TypeOK
<1>2. s \in Seats /\ table.player[s] = q
  <2>1. SeatsOf(table, q) \in SUBSET Seats /\ SeatsOf(table, q) # {}
    BY DEF SeatsOf, Rebuy
  <2>2. s \in SeatsOf(table, q)
    BY <2>1, NextSeatFact DEF seatOfPlayer
  <2> QED BY <2>2 DEF SeatsOf
<1>3. table' = SetTable(u)
  BY <1>1 DEF Rebuy, TableType
<1>4. wallet' = [wallet EXCEPT ![q] = @ - n] /\ wallet \in [Players -> Nat]
  BY <1>1 DEF Rebuy, IInv, TypeOK
<1> HIDE DEF s
<1>5. table.stack \in [Seats -> Nat] /\ table.stack[s] \in Nat
  BY <1>1, <1>2 DEF TableType
<1>6. /\ stack \in [Seats -> Nat] /\ stack[s] = table.stack[s] + n
      /\ \A o \in Seats \ {s} : stack[o] = table.stack[o]
  BY <1>1, <1>2, <1>5
<1> HIDE DEF stack
<1>7. u \in Sound
  BY Zenon, <1>1, <1>6 DEF Sound, TableType
<1>8. /\ u.player = table.player /\ u.stack = stack /\ u.bond = table.bond
      /\ u.totalCommit = table.totalCommit /\ u.inHand = table.inHand
      /\ u.folded = table.folded
  BY <1>1 DEF TableType
<1> HIDE DEF u
<1>9. table'.player = table.player
  BY <1>3, <1>7, <1>8, SetTableStays DEF Stays
<1>10. Value(table', s) = Value(table, s) + n /\ Value(table, s) \in Nat
  <2>1. table.bond[s] \in Nat /\ table.totalCommit[s] \in Nat
    BY <1>1, <1>2 DEF TableType
  <2>2. Value(u, s) = Value(table, s) + n
    BY <1>1, <1>5, <1>6, <1>8, <2>1 DEF Value, Live
  <2> QED BY <1>1, <1>2, <1>3, <1>7, <1>8, <2>2, SetTableValue, ValueNat
<1>11. ASSUME NEW o \in Seats \ {s}, table.player[o] = p
       PROVE  table'.player[o] = p /\ Value(table', o) = Value(table, o)
  <2>1. Value(u, o) = Value(table, o)
    BY <1>6, <1>8, SameValue
  <2> QED BY <1>1, <1>3, <1>7, <1>8, <1>9, <1>11, <2>1, SetTableValue
<1>12. CASE p = q
  <2>1. wallet'[p] = wallet[p] - n /\ wallet[p] \in Nat
    BY <1>4, <1>12
  <2>2. table.player[s] = p /\ table'.player[s] = p
    BY <1>2, <1>9, <1>12
  <2>3. /\ wallet'[p] + (Value(table, s) + n) >= wallet[p] + Value(table, s)
        /\ Value(table, s) + n \in Int /\ Value(table, s) \in Int
    BY <1>1, <1>10, <2>1
  <2> QED BY <1>1, <1>2, <1>10, <1>11, <2>2, <2>3, WorthUpdate
<1>13. CASE p # q
  <2>1. wallet'[p] >= wallet[p]
    BY <1>4, <1>13
  <2>2. ASSUME NEW o \in Seats, table.player[o] = p
        PROVE  table'.player[o] = p /\ Value(table', o) >= Value(table, o)
    <3>1. o # s /\ Value(table, o) \in Nat
      BY <1>1, <1>2, <1>13, <2>2, ValueNat
    <3> QED BY <1>11, <2>2, <3>1
  <2> QED BY <1>1, <2>1, <2>2, WorthMono
<1> QED BY <1>12, <1>13

\* Leave pays out the stack and the bond of a seat with nothing behind live cards.
LEMMA LeavePays ==
    ASSUME SeatInv, IInv', NEW q \in Players, Leave(q), NEW p \in Players
    PROVE  Worth(p)' >= Worth(p)
<1> DEFINE s      == seatOfPlayer(table, q)
           n      == table.stack[s] + table.bond[s]
           player == [table.player EXCEPT ![s] = NoPlayer]
           u      == [table EXCEPT !.player = player]
<1>1. /\ table \in Sound /\ table \in TableType /\ IInv /\ NoPlayer \notin Players
  BY TableParams DEF SeatInv, IInv, TypeOK
<1>2. s \in Seats /\ table.player[s] = q
  <2>1. SeatsOf(table, q) \in SUBSET Seats /\ SeatsOf(table, q) # {}
    BY DEF SeatsOf, Leave
  <2>2. s \in SeatsOf(table, q)
    BY <2>1, NextSeatFact DEF seatOfPlayer
  <2> QED BY <2>2 DEF SeatsOf
<1>3. table' = SetTable(u) /\ s \notin Live(table)
  BY <1>1 DEF Leave, TableType
<1>4. wallet' = [wallet EXCEPT ![q] = @ + n] /\ wallet \in [Players -> Nat]
  BY <1>1 DEF Leave, IInv, TypeOK
<1>5. Value(table, s) = n /\ n \in Nat
  <2> HIDE DEF s
  <2>1. table.stack[s] \in Nat /\ table.bond[s] \in Nat
    BY <1>1, <1>2 DEF TableType
  <2> QED BY <1>3, <2>1 DEF Value
<1> HIDE DEF s, n
<1>6. table.player \in [Seats -> Players \cup {NoPlayer}]
  BY <1>1 DEF TableType
<1>7. /\ player \in [Seats -> Players \cup {NoPlayer}] /\ player[s] = NoPlayer
      /\ \A o \in Seats \ {s} : player[o] = table.player[o]
  BY <1>2, <1>6
<1> HIDE DEF player
<1>8. u \in Sound
  BY ZenonT(30), <1>1, <1>7 DEF Sound, TableType
<1>9. /\ u.player = player /\ u.stack = table.stack /\ u.bond = table.bond
      /\ u.totalCommit = table.totalCommit /\ u.inHand = table.inHand
      /\ u.folded = table.folded
  BY <1>1 DEF TableType
<1> HIDE DEF u
<1>10. table'.player = player
  BY <1>3, <1>8, <1>9, SetTableStays DEF Stays
<1>11. ASSUME NEW o \in Seats \ {s}, table.player[o] = p
       PROVE  table'.player[o] = p /\ Value(table', o) = Value(table, o)
  <2>1. Value(u, o) = Value(table, o)
    BY <1>9, SameValue
  <2> QED BY <1>1, <1>3, <1>7, <1>8, <1>9, <1>10, <1>11, <2>1, SetTableValue
<1>12. CASE p = q
  <2>1. wallet'[p] = wallet[p] + n /\ wallet[p] \in Nat
    BY <1>4, <1>12
  <2>2. table.player[s] = p /\ table'.player[s] # p
    BY <1>1, <1>2, <1>7, <1>10, <1>12
  <2>3. wallet'[p] + 0 >= wallet[p] + n /\ n \in Int
    BY <1>5, <2>1
  <2> QED BY <1>1, <1>2, <1>5, <1>11, <2>2, <2>3, WorthUpdate
<1>13. CASE p # q
  <2>1. wallet'[p] >= wallet[p]
    BY <1>4, <1>13
  <2>2. ASSUME NEW o \in Seats, table.player[o] = p
        PROVE  table'.player[o] = p /\ Value(table', o) >= Value(table, o)
    <3>1. o # s /\ Value(table, o) \in Nat
      BY <1>1, <1>2, <1>13, <2>2, ValueNat
    <3> QED BY <1>11, <2>2, <3>1
  <2> QED BY <1>1, <2>1, <2>2, WorthMono
<1> QED BY <1>12, <1>13

\* The blinds are committed behind live cards.
LEMMA StartHandPays ==
    ASSUME SeatInv, IInv', NEW q \in Players, StartHand(q), NEW p \in Players
    PROVE  Worth(p)' >= Worth(p)
<1> DEFINE u == DealIn(table)
<1>1. /\ table \in Sound /\ SeatCount(occupiedSeatsWithStack(table)) >= 2 /\ IInv
      /\ table' = SetTable(u) /\ wallet' = wallet /\ SeatPart /\ table.phase = "NONE"
  BY DEF SeatInv, IInv, StartHand
<1>2. u \in Sound
  BY <1>1, FundedFact, DealInFact DEF Keeps
<1>3. PICK sb \in Seats, bb \in Seats : Dealt(table, u, sb, bb)
  BY <1>1, DealInFields
<1> HIDE DEF u
<1>4. ASSUME NEW s \in Seats PROVE Value(u, s) >= Value(table, s)
  <2>1. /\ table.stack[s] \in Nat /\ table.bond[s] \in Nat /\ u.bond = table.bond
        /\ s \notin Live(table)
    BY Zenon, <1>1, <1>3 DEF Sound, TableType, Dealt, SeatPart, AtRest, Live
  <2>2. /\ u.stack[s] = table.stack[s] - Blind(table, s, sb, bb)
        /\ u.totalCommit[s] = Blind(table, s, sb, bb)
        /\ Live(u) = occupiedSeatsWithStack(table)
    BY Zenon, <1>3 DEF Dealt, Live
  <2>3. u.totalCommit[s] \in Nat
    BY <1>2 DEF Sound, TableType
  <2>4. CASE s \in occupiedSeatsWithStack(table)
    BY <2>1, <2>2, <2>3, <2>4 DEF Value
  <2>5. CASE s \notin occupiedSeatsWithStack(table)
    <3>1. s # sb /\ s # bb
      BY Zenon, <1>3, <2>5 DEF Dealt
    <3>2. Blind(table, s, sb, bb) = 0
      BY <3>1 DEF Blind
    <3> QED BY <2>1, <2>2, <2>5, <3>2 DEF Value
  <2> QED BY <2>4, <2>5
<1>5. u.player = table.player
  BY Zenon, <1>3 DEF Dealt
<1> QED BY <1>1, <1>2, <1>4, <1>5, StoreValue

\* The calls that prepare the deck and reveal cards cost nobody anything.
LEMMA DealerPays ==
    ASSUME SeatInv, IInv', NEW p \in Players,
           \/ \E size \in DeckSizes : InitHand(size)
           \/ FinalizeDeck \/ AdvanceAfterHoleSharesReady \/ RevealBoard \/ RevealHole
    PROVE  Worth(p)' >= Worth(p)
<1>0. table \in Sound /\ table \in TableType /\ IInv /\ Unset \in Int
  BY DEF SeatInv, IInv, TypeOK, Unset
<1>1. ASSUME NEW u \in Sound, u.player = table.player,
             \A s \in Seats : Value(u, s) = Value(table, s),
             DealerStores(u) \/ DealerStores(setDeadlines(u))
      PROVE  Worth(p)' >= Worth(p)
  <2>1. setDeadlines(u) \in Sound /\ setDeadlines(u).player = u.player
    BY <1>1, DeadlinesFact, DeadlinesStays DEF Keeps, Stays
  <2>2. \A s \in Seats : /\ Value(setDeadlines(u), s) = Value(table, s)
                         /\ Value(table, s) >= Value(table, s)
    BY <1>0, <1>1, DeadlinesValue, ValueNat
  <2>3. wallet' = wallet /\ (table' = SetTable(u) \/ table' = SetTable(setDeadlines(u)))
    BY <1>1 DEF DealerStores
  <2> QED BY <1>0, <1>1, <2>1, <2>2, <2>3, StoreValue
<1>2. ASSUME NEW u \in Sound, u.player = table.player, u.stack = table.stack,
             u.bond = table.bond, u.totalCommit = table.totalCommit,
             u.inHand = table.inHand, u.folded = table.folded,
             DealerStores(u) \/ DealerStores(setDeadlines(u))
      PROVE  Worth(p)' >= Worth(p)
  BY <1>1, <1>2, SameValue
<1>3. ASSUME NEW size \in DeckSizes, InitHand(size) PROVE Worth(p)' >= Worth(p)
  <2> DEFINE u == [table EXCEPT !.deckSize = size, !.deckFinalized = FALSE, !.revealTimer = Unset]
  <2>0. size \in Nat
    BY TableParams
  <2>1. DealerStores(u)
    BY Zenon, <1>3 DEF InitHand
  <2>2. u \in Sound
    BY Zenon, <1>0, <2>0 DEF Sound, TableType
  <2>3. /\ u.player = table.player /\ u.stack = table.stack /\ u.bond = table.bond
        /\ u.totalCommit = table.totalCommit /\ u.inHand = table.inHand
        /\ u.folded = table.folded
    BY <1>0 DEF TableType
  <2> HIDE DEF u
  <2> QED BY <1>2, <2>1, <2>2, <2>3
<1>4. ASSUME FinalizeDeck PROVE Worth(p)' >= Worth(p)
  <2> DEFINE u == [table EXCEPT !.deckFinalized = TRUE, !.revealTimer = Unset]
  <2>1. DealerStores(u)
    BY <1>4 DEF FinalizeDeck
  <2>2. u \in Sound
    BY Zenon, <1>0 DEF Sound, TableType
  <2>3. /\ u.player = table.player /\ u.stack = table.stack /\ u.bond = table.bond
        /\ u.totalCommit = table.totalCommit /\ u.inHand = table.inHand
        /\ u.folded = table.folded
    BY <1>0 DEF TableType
  <2> HIDE DEF u
  <2> QED BY <1>2, <2>1, <2>2, <2>3
<1>5. ASSUME AdvanceAfterHoleSharesReady PROVE Worth(p)' >= Worth(p)
  <2> DEFINE phase == IF table.actionOn = Unset THEN "AWAIT_FLOP" ELSE "BETTING"
             u     == [table EXCEPT !.phase = phase]
  <2>1. phase \in Phases
    BY DEF Phases, Awaiting, BoardPhases
  <2>2. DealerStores(setDeadlines(u))
    BY <1>5 DEF AdvanceAfterHoleSharesReady
  <2> HIDE DEF phase
  <2>3. u \in Sound
    BY <1>0, <2>1 DEF Sound, TableType
  <2>4. /\ u.player = table.player /\ u.stack = table.stack /\ u.bond = table.bond
        /\ u.totalCommit = table.totalCommit /\ u.inHand = table.inHand
        /\ u.folded = table.folded
    BY <1>0 DEF TableType
  <2> HIDE DEF u
  <2> QED BY <1>2, <2>2, <2>3, <2>4
<1>6. ASSUME RevealBoard PROVE Worth(p)' >= Worth(p)
  <2> DEFINE u == revealBoardCard(table)
  <2>1. u \in Sound /\ u.player = table.player
    BY <1>0, <1>6, RevealBoardFact, RevealBoardStays DEF RevealBoard, Keeps, Stays
  <2>2. \A s \in Seats : Value(u, s) = Value(table, s)
    BY <1>0, <1>6, RevealBoardValue DEF RevealBoard
  <2> QED BY <1>1, <1>6, <2>1, <2>2 DEF RevealBoard
<1>7. ASSUME RevealHole PROVE Worth(p)' >= Worth(p)
  <2> DEFINE u == [table EXCEPT !.shown = @ + 1]
  <2>1. DealerStores(setDeadlines(u))
    BY <1>7 DEF RevealHole
  <2>2. u \in Sound
    BY SMTT(30), <1>0 DEF Sound, TableType
  <2>3. /\ u.player = table.player /\ u.stack = table.stack /\ u.bond = table.bond
        /\ u.totalCommit = table.totalCommit /\ u.inHand = table.inHand
        /\ u.folded = table.folded
    BY <1>0 DEF TableType
  <2> HIDE DEF u
  <2> QED BY <1>2, <2>1, <2>2, <2>3
<1> QED BY <1>3, <1>4, <1>5, <1>6, <1>7

\* Every step, seen by a player whose turn it is not.
LEMMA NextPays ==
    ASSUME SeatInv, IInv', [Next]_vars, table'.phase # "NONE" \/ table.phase = "NONE",
           NEW p \in Players \ Mover
    PROVE  Worth(p)' >= Worth(p)
<1>0. IInv /\ table \in Sound /\ table \in TableType
  BY DEF SeatInv, IInv, TypeOK
<1>1. ASSUME NEW q \in Players, NEW n \in Amounts, Sit(q, n) PROVE Worth(p)' >= Worth(p)
  BY <1>1, SitPays
<1>2. ASSUME NEW q \in Players, NEW n \in Amounts, Rebuy(q, n) PROVE Worth(p)' >= Worth(p)
  BY <1>2, RebuyPays
<1>3. ASSUME NEW q \in Players, Leave(q) PROVE Worth(p)' >= Worth(p)
  BY <1>3, LeavePays
<1>4. ASSUME NEW q \in Players, StartHand(q) PROVE Worth(p)' >= Worth(p)
  BY <1>4, StartHandPays
<1>5. ASSUME NEW q \in Players, NEW t, Act(q, t), t \in Sound, Stays(table, t),
             \A s \in Seats \ {table.actionOn} : Value(t, s) = Value(table, s)
      PROVE  Worth(p)' >= Worth(p)
  <2>1. table'.phase # "NONE"
    BY <1>5 DEF Act, CanAct
  <2> QED BY <1>5, <2>1, ActPays
<1>6. ASSUME NEW q \in Players, Fold(q) PROVE Worth(p)' >= Worth(p)
  <2>1. Act(q, applyFold(table, table.actionOn)) /\ CanAct(table)
    BY Zenon, <1>6 DEF Fold, Act
  <2>2. table.actionOn \in Seats
    BY <1>0, <2>1, ActorFact
  <2> QED BY <1>0, <1>5, <2>1, <2>2, ActionStays, FoldFact, ActionValue DEF Keeps
<1>7. ASSUME NEW q \in Players, Check(q) PROVE Worth(p)' >= Worth(p)
  <2>1. Act(q, applyCheck(table, table.actionOn)) /\ CanAct(table)
    BY <1>7 DEF Check
  <2>2. table.actionOn \in Seats
    BY <1>0, <2>1, ActorFact
  <2> QED BY <1>0, <1>5, <2>1, <2>2, ActionStays, CheckFact, ActionValue DEF Keeps
<1>8. ASSUME NEW q \in Players, Call(q) PROVE Worth(p)' >= Worth(p)
  <2>1. Act(q, applyCall(table, table.actionOn)) /\ CanAct(table)
    BY <1>8 DEF Call
  <2>2. table.actionOn \in Seats
    BY <1>0, <2>1, ActorFact
  <2> QED BY <1>0, <1>5, <2>1, <2>2, ActionStays, CallFact, ActionValue DEF Keeps
<1>9. ASSUME NEW q \in Players, NEW n \in Amounts, BetTo(q, n) PROVE Worth(p)' >= Worth(p)
  <2>1. /\ Act(q, applyBetTo(table, table.actionOn, n)) /\ CanAct(table)
        /\ BetToAccepted(table, table.actionOn, n)
    BY <1>9 DEF BetTo
  <2>2. table.actionOn \in Seats /\ n \in Nat
    BY <1>0, <2>1, ActorFact, TableParams
  <2> QED BY <1>0, <1>5, <2>1, <2>2, ActionStays, BetToFact, ActionValue DEF Keeps
<1>10. ASSUME Tick PROVE Worth(p)' >= Worth(p)
  <2>1. table'.phase # "NONE"
    BY <1>10 DEF Tick, TickDue, CanAct
  <2> QED BY <1>10, <2>1, TickPays
<1>11. ASSUME \/ \E size \in DeckSizes : InitHand(size)
              \/ FinalizeDeck \/ AdvanceAfterHoleSharesReady \/ RevealBoard \/ RevealHole
       PROVE  Worth(p)' >= Worth(p)
  BY <1>11, DealerPays
<1>12. ASSUME SettleShowdown \/ SettleEvalError \/ AbortHand PROVE Worth(p)' >= Worth(p)
  <2>1. table.phase # "NONE"
    BY <1>12 DEF SettleShowdown, SettleEvalError, AbortHand, LastHoleCard
  <2>2. PICK t : table' = SetTable(ClearHand(t)) /\ ClearHand(t) \in Sound
    BY Zenon, <1>0, <1>12, SettleFact, AbortFact
       DEF SettleShowdown, SettleEvalError, AbortHand, DealerStores, settleKnownShowdown,
           abortHandRefundAllCommits, Keeps
  <2>3. table'.phase = "NONE"
    BY <2>2, SetTableStays, ClearHandPlay
  <2> QED BY <2>1, <2>3
<1>13. ASSUME NEW secs \in BlockSecs, NextBlock(secs) PROVE Worth(p)' >= Worth(p)
  <2> DEFINE a == Elapse(table.actionTimer, secs)
             r == Elapse(table.revealTimer, secs)
  <2>1. table' = [table EXCEPT !.actionTimer = a, !.revealTimer = r] /\ wallet' = wallet
    BY <1>13 DEF NextBlock
  <2> HIDE DEF a, r
  <2>2. /\ table'.player = table.player /\ table'.stack = table.stack
        /\ table'.bond = table.bond /\ table'.totalCommit = table.totalCommit
        /\ table'.inHand = table.inHand /\ table'.folded = table.folded
    BY <1>0, <2>1 DEF TableType
  <2>3. \A s \in Seats : Value(table', s) = Value(table, s) /\ Value(table, s) >= Value(table, s)
    BY <1>0, <2>2, SameValue, ValueNat
  <2>4. wallet'[p] >= wallet[p]
    BY <1>0, <2>1 DEF IInv, TypeOK
  <2> QED BY <1>0, <2>2, <2>3, <2>4, WorthMono
<1>14. ASSUME UNCHANGED vars PROVE Worth(p)' >= Worth(p)
  <2>1. table' = table /\ wallet' = wallet
    BY <1>14 DEF vars
  <2>2. \A s \in Seats : Value(table', s) >= Value(table, s)
    BY <1>0, <2>1, ValueNat
  <2>3. wallet'[p] >= wallet[p]
    BY <1>0, <2>1 DEF IInv, TypeOK
  <2> QED BY <1>0, <2>1, <2>2, <2>3, WorthMono
<1> QED BY <1>1, <1>2, <1>3, <1>4, <1>6, <1>7, <1>8, <1>9, <1>10, <1>11, <1>12, <1>13, <1>14
        DEF Next

\* As long as a hand goes on, no message, dealer call or block costs anybody chips
\* but the player whose turn it is: what the others have in their accounts, at their
\* seats and behind live cards never shrinks through somebody else's step.
THEOREM OnlyTheMoverPays == Spec => OnlyMoverPays
<1>1. SeatInv /\ SeatInv' /\ [Next]_vars =>
        [table'.phase # "NONE" \/ table.phase = "NONE"
            => \A p \in Players \ Mover : Worth(p)' >= Worth(p)]_vars
  BY NextPays DEF SeatInv
<1> QED BY <1>1, InitSeats, NextSeats, PTL DEF Spec, OnlyMoverPays

-----------------------------------------------------------------------------

\* A hand that is given up, by AbortHand or by a failed evaluation, leaves every player
\* with what the player's seat had, its commitments included.
LEMMA AbortPays ==
    ASSUME SeatInv, Refunded, NEW p \in Players
    PROVE  Invested(p)' = Invested(p)
<1> DEFINE stack == [s \in Seats |-> table.stack[s] + table.totalCommit[s]]
           t     == [table EXCEPT !.stack = stack]
           u     == abortHandRefundAllCommits(table)
           kept  == [s \in Seats |-> IF u.player[s] = NoPlayer THEN 0 ELSE u.stack[s]]
           bond  == [s \in Seats |-> IF u.player[s] = NoPlayer THEN 0 ELSE u.bond[s]]
           f     == [s \in Seats |-> IF table.player[s] # p THEN 0
                                     ELSE table.stack[s] + table.bond[s] + table.totalCommit[s]]
           g     == [s \in Seats |-> IF table'.player[s] # p THEN 0
                                     ELSE table'.stack[s] + table'.bond[s] + table'.totalCommit[s]]
<1>1. table \in Sound /\ table \in TableType /\ p # NoPlayer
  BY TableParams DEF SeatInv, IInv, TypeOK
<1>2. u = ClearHand(t) /\ table' = SetTable(u) /\ wallet' = wallet
  BY DEF Refunded, AbortHand, SettleEvalError, DealerStores, abortHandRefundAllCommits
<1>3. u \in Sound
  BY <1>1, AbortFact DEF Keeps
<1>4. \A s \in Seats : stack[s] = table.stack[s] + table.totalCommit[s]
  OBVIOUS
<1> HIDE DEF stack
<1>5. t.stack = stack /\ t.player = table.player /\ t.bond = table.bond
  BY <1>1 DEF TableType
<1> HIDE DEF t
<1>6. u.stack = stack /\ u.player = table.player /\ u.bond = table.bond /\ u.totalCommit = Zero
  <2>1. u = Idle(t.player, t.stack, t.bond, t.button)
    BY Zenon, <1>2 DEF ClearHand
  <2>2. u.stack = t.stack /\ u.player = t.player /\ u.bond = t.bond /\ u.totalCommit = Zero
    BY <2>1 DEF Idle
  <2> QED BY Zenon, <1>5, <2>2
<1>7. table' = [u EXCEPT !.stack = kept, !.bond = bond]
  BY <1>2 DEF SetTable
<1>8. \A s \in Seats : table.player[s] = p => kept[s] = stack[s] /\ bond[s] = table.bond[s]
  BY <1>1, <1>6
<1> HIDE DEF u, kept, bond
<1>9. /\ table'.stack = kept /\ table'.bond = bond
      /\ table'.player = table.player /\ table'.totalCommit = Zero
  BY <1>3, <1>6, <1>7 DEF Sound, TableType
<1>10. ASSUME NEW s \in Seats PROVE f[s] = g[s]
  <2>1. table.stack[s] \in Nat /\ table.bond[s] \in Nat /\ table.totalCommit[s] \in Nat
    BY <1>1 DEF TableType
  <2> QED BY <1>4, <1>8, <1>9, <2>1 DEF Zero
<1>11. Invested(p) = wallet[p] + SeatSum(f) /\ Invested(p)' = wallet'[p] + SeatSum(g)
  BY DEF Invested
<1> HIDE DEF f, g
<1>12. SeatSum(f) = SeatSum(g)
  BY <1>10 DEF SeatSum, Seats
<1> QED BY <1>2, <1>11, <1>12

\* A hand that ends from AWAIT_SHOWDOWN is settled or refunded.
LEMMA ShowdownEnds ==
    ASSUME SeatInv, [Next]_vars, table.phase = "AWAIT_SHOWDOWN", table'.phase = "NONE"
    PROVE  SettleShowdown \/ SettleEvalError \/ AbortHand
<1>0. table \in Sound /\ table \in TableType /\ SeatPart /\ Unset \in Int
  BY DEF SeatInv, IInv, TypeOK, Unset
<1>1. ASSUME NEW u \in Sound, u.phase = table.phase,
             table' = u \/ table' = SetTable(u) PROVE FALSE
  BY <1>1, SetTableStays
<1>2. ASSUME NEW p \in Players, NEW n \in Amounts, Sit(p, n) PROVE FALSE
  <2> DEFINE s      == autoAssignSeat(table)
             player == [table.player EXCEPT ![s] = p]
             stack  == [table.stack EXCEPT ![s] = n]
             bond   == [table.bond EXCEPT ![s] = PlayerBond]
             u      == [table EXCEPT !.player = player, !.stack = stack, !.bond = bond]
  <2>1. n \in Nat /\ PlayerBond \in Nat /\ s \in Seats
    BY <1>0, <1>2, AssignedIsEmpty, TableParams DEF Sit
  <2>2. table' = SetTable(u)
    BY <1>0, <1>2 DEF Sit, TableType
  <2> HIDE DEF s
  <2>3. /\ player \in [Seats -> Players \cup {NoPlayer}]
        /\ stack \in [Seats -> Nat] /\ bond \in [Seats -> Nat]
    BY <1>0, <2>1 DEF TableType
  <2> HIDE DEF stack, bond, player
  <2>4. u \in Sound /\ u.phase = table.phase
    BY Zenon, <1>0, <2>3, SeatChangeFact DEF TableType
  <2> QED BY Zenon, <1>1, <2>2, <2>4
<1>3. ASSUME NEW p \in Players, NEW n \in Amounts, Rebuy(p, n) PROVE FALSE
  <2> DEFINE s     == seatOfPlayer(table, p)
             stack == [table.stack EXCEPT ![s] = @ + n]
             u     == [table EXCEPT !.stack = stack]
  <2>1. n \in Nat /\ s \in Seats
    BY <1>3, SeatOfPlayerFact, TableParams DEF Rebuy
  <2>2. table' = SetTable(u)
    BY <1>0, <1>3 DEF Rebuy, TableType
  <2> HIDE DEF s
  <2>3. stack \in [Seats -> Nat]
    BY <1>0, <2>1 DEF TableType
  <2> HIDE DEF stack
  <2>4. u \in Sound /\ u.phase = table.phase
    BY Zenon, <1>0, <2>3 DEF Sound, TableType
  <2> QED BY Zenon, <1>1, <2>2, <2>4
<1>4. ASSUME NEW p \in Players, Leave(p) PROVE FALSE
  <2> DEFINE s      == seatOfPlayer(table, p)
             player == [table.player EXCEPT ![s] = NoPlayer]
             u      == [table EXCEPT !.player = player]
  <2>1. s \in Seats
    BY <1>4, SeatOfPlayerFact DEF Leave
  <2>2. table' = SetTable(u)
    BY <1>0, <1>4 DEF Leave, TableType
  <2> HIDE DEF s
  <2>3. player \in [Seats -> Players \cup {NoPlayer}]
    BY <1>0, <2>1 DEF TableType
  <2> HIDE DEF player
  <2>4. u \in Sound /\ u.phase = table.phase
    BY Zenon, <1>0, <2>3 DEF Sound, TableType
  <2> QED BY Zenon, <1>1, <2>2, <2>4
<1>5. ASSUME NEW secs \in BlockSecs, NextBlock(secs) PROVE FALSE
  <2> DEFINE a == Elapse(table.actionTimer, secs)
             r == Elapse(table.revealTimer, secs)
  <2>1. table' = [table EXCEPT !.actionTimer = a, !.revealTimer = r]
    BY <1>5 DEF NextBlock
  <2> HIDE DEF a, r
  <2> QED BY <1>0, <2>1 DEF TableType
<1>6. ASSUME RevealHole PROVE FALSE
  <2> DEFINE u == [table EXCEPT !.shown = @ + 1]
  <2>1. u \in Sound /\ u.phase = table.phase /\ table' = SetTable(setDeadlines(u))
    BY SMTT(30), <1>0, <1>6 DEF RevealHole, DealerStores, Sound, TableType
  <2> HIDE DEF u
  <2>2. setDeadlines(u) \in Sound /\ setDeadlines(u).phase = u.phase
    <3>1. 0 \in Seats
      BY DEF Seats
    <3> QED BY <2>1, <3>1, DeadlinesFact, DeadlinesValue DEF Keeps
  <2> QED BY <1>1, <2>1, <2>2
<1>7. ASSUME UNCHANGED vars PROVE FALSE
  BY <1>7 DEF vars
<1>8. /\ \A p \in Players : ~StartHand(p) /\ ~Fold(p) /\ ~Check(p) /\ ~Call(p)
      /\ \A p \in Players, n \in Amounts : ~BetTo(p, n)
      /\ ~Tick /\ \A size \in DeckSizes : ~InitHand(size)
      /\ ~FinalizeDeck /\ ~AdvanceAfterHoleSharesReady /\ ~RevealBoard
  BY DEF StartHand, Fold, Check, Call, BetTo, Act, CanAct, Tick, TickDue, InitHand,
         FinalizeDeck, AdvanceAfterHoleSharesReady, RevealBoard, BoardPhases
<1> QED BY <1>2, <1>3, <1>4, <1>5, <1>6, <1>7, <1>8 DEF Next

\* Settled or refunded, a seat gets at most what it has matched.
LEMMA WinningsStep ==
    ASSUME SeatInv, SettleShowdown \/ SettleEvalError \/ AbortHand, NEW s \in Seats
    PROVE  table'.stack[s] - table.stack[s] <= SeatSum(MatchedBy(table.totalCommit, s))
<1> DEFINE cap == SeatSum(MatchedBy(table.totalCommit, s))
<1> SUFFICES table'.stack[s] - table.stack[s] <= cap
  OBVIOUS
<1>1. /\ table \in Sound /\ table \in TableType /\ table.totalCommit \in [Seats -> Nat]
      /\ table.stack[s] \in Nat /\ Live(table) \in SUBSET Seats
  BY DEF SeatInv, IInv, TypeOK, TableType, Live
<1>2. cap \in Nat /\ table.totalCommit[s] <= cap
  <2> DEFINE f == MatchedBy(table.totalCommit, s)
  <2>1. f \in [Seats -> Nat] /\ f[s] = table.totalCommit[s]
    BY <1>1 DEF MatchedBy, Lesser
  <2> HIDE DEF f
  <2>2. SeatSum(f) \in Nat /\ f[s] <= SeatSum(f)
    BY <2>1, SumNat
  <2> QED BY <2>1, <2>2 DEF f
<1> HIDE DEF cap
<1>3. ASSUME NEW stack, NEW n \in Nat, n <= cap, stack[s] = table.stack[s] + n,
             NEW t, t.stack = stack, ClearHand(t) \in Sound, table' = SetTable(ClearHand(t))
      PROVE  table'.stack[s] - table.stack[s] <= cap
  <2> DEFINE u == ClearHand(t)
             kept == [o \in Seats |-> IF u.player[o] = NoPlayer THEN 0 ELSE u.stack[o]]
             bond == [o \in Seats |-> IF u.player[o] = NoPlayer THEN 0 ELSE u.bond[o]]
  <2>1. u.stack[s] = table.stack[s] + n
    BY Zenon, <1>3 DEF ClearHand, Idle
  <2>2. table' = [u EXCEPT !.stack = kept, !.bond = bond]
    BY <1>3 DEF SetTable
  <2>3. kept[s] = 0 \/ kept[s] = table.stack[s] + n
    BY <2>1
  <2>4. u \in Sound
    BY <1>3
  <2> HIDE DEF u, kept, bond
  <2>5. table'.stack = kept
    BY <2>2, <2>4 DEF Sound, TableType
  <2> QED BY <1>1, <1>2, <1>3, <2>3, <2>5
<1>4. CASE SettleShowdown
  <2>1. PICK rank \in [Live(table) -> Ranks] : DealerStores(settleKnownShowdown(table, rank))
    BY <1>4 DEF SettleShowdown
  <2> DEFINE won   == Payout(table.totalCommit, Live(table), rank)
             stack == [o \in Seats |-> table.stack[o] + won[o]]
             t     == [table EXCEPT !.stack = stack]
             u     == settleKnownShowdown(table, rank)
  <2>2. u = (IF table.board < 5 THEN ClearHand(table) ELSE ClearHand(t)) /\ u \in Sound
    BY Zenon, <1>1, SettleFact DEF settleKnownShowdown, Keeps
  <2>3. table' = SetTable(u)
    BY <2>1 DEF DealerStores
  <2>4. won[s] \in Nat /\ won[s] <= cap
    BY <1>1, PayoutWithinPot, PayoutIsMatched DEF cap
  <2>5. stack[s] = table.stack[s] + won[s]
    OBVIOUS
  <2>6. t.stack = stack
    BY <1>1 DEF TableType
  <2> HIDE DEF won, stack, t, u
  <2>7. CASE table.board < 5
    <3>1. table.stack[s] = table.stack[s] + 0
      BY <1>1
    <3> QED BY <1>2, <1>3, <2>2, <2>3, <2>7, <3>1
  <2>8. CASE ~(table.board < 5)
    BY Zenon, <1>3, <2>2, <2>3, <2>4, <2>5, <2>6, <2>8
  <2> QED BY <2>7, <2>8
<1>5. CASE SettleEvalError \/ AbortHand
  <2> DEFINE stack == [o \in Seats |-> table.stack[o] + table.totalCommit[o]]
             t     == [table EXCEPT !.stack = stack]
             u     == abortHandRefundAllCommits(table)
  <2>1. u = ClearHand(t) /\ u \in Sound /\ table' = SetTable(u)
    BY <1>1, <1>5, AbortFact
       DEF SettleEvalError, AbortHand, DealerStores, abortHandRefundAllCommits, Keeps
  <2>2. stack[s] = table.stack[s] + table.totalCommit[s] /\ table.totalCommit[s] \in Nat
    BY <1>1
  <2>3. t.stack = stack
    BY <1>1 DEF TableType
  <2> HIDE DEF stack, t, u
  <2> QED BY <1>2, <1>3, <2>1, <2>2, <2>3
<1> QED BY <1>4, <1>5

\* A hand that is given up leaves every player who kept the seat whole, folded or not,
\* and however a hand ends at the showdown (settled over any side pots or refunded), a
\* seat's stack grows by at most its own commitment from every seat.
THEOREM SettlementsAreCovered == Spec => [][AbortCostsNothing /\ WinningsAreCovered]_vars
<1>1. ASSUME SeatInv PROVE AbortCostsNothing
  BY <1>1, AbortPays DEF AbortCostsNothing
<1>2. ASSUME SeatInv, [Next]_vars PROVE WinningsAreCovered
  <2> SUFFICES ASSUME table.phase = "AWAIT_SHOWDOWN", table'.phase = "NONE", NEW s \in Seats
               PROVE  table'.stack[s] - table.stack[s] <=
                        SeatSum([o \in Seats |-> Lesser(table.totalCommit[o], table.totalCommit[s])])
    BY DEF WinningsAreCovered
  <2>1. SettleShowdown \/ SettleEvalError \/ AbortHand
    BY <1>2, ShowdownEnds
  <2> QED BY <1>2, <2>1, WinningsStep DEF MatchedBy
<1>3. SeatInv /\ [Next]_vars => [AbortCostsNothing /\ WinningsAreCovered]_vars
  BY <1>1, <1>2
<1> QED BY <1>3, InitSeats, NextSeats, PTL DEF Spec
=============================================================================
