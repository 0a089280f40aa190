-------------------------- MODULE PokerTableProofs --------------------------
(***************************************************************************)
(* The poker module account can always pay what it owes, for every choice  *)
(* of players, blinds, buy-ins, bonds and timeouts that CreateTable        *)
(* accepts, and for hands and messages without bound.                      *)
(*                                                                         *)
(* Every operator that translates a Go function is shown to keep tables    *)
(* well formed and to owe no more afterwards than before; the theorem then *)
(* takes one action at a time.  First of all, the showdown never pays out  *)
(* more than the pot, for every commitment and every ranking of the hands, *)
(* and pays only seats still in the hand.                                  *)
(*                                                                         *)
(* Nobody holds two seats, and live cards stay with the player they were   *)
(* dealt to.  While a hand is played, the same operators leave the players *)
(* where they are and bring nobody back into the hand; only Sit, Leave,    *)
(* StartHand and the ejection change who sits or who plays.                *)
(***************************************************************************)
EXTENDS PokerTable, TLAPS


(* Seats, sums and choices *)

\* Among the seats up to k there is a smallest value of f, if S has any.
HasLow(f, S, k) ==
    (\E s \in S : s <= k) =>
        \E s \in S : s <= k /\ \A o \in S : o <= k => f[s] <= f[o]

\* A seat more does not take a least element away.
LEMMA LowStep ==
    ASSUME NEW S \in SUBSET Seats, NEW f \in [Seats -> Int], NEW k \in 0..7, HasLow(f, S, k)
    PROVE  HasLow(f, S, k + 1)
<1>1. CASE k + 1 \notin S
  BY <1>1 DEF HasLow, Seats
<1>2. CASE k + 1 \in S /\ ~(\E s \in S : s <= k)
  BY <1>2 DEF HasLow, Seats
<1>3. CASE k + 1 \in S /\ \E s \in S : s <= k
  <2>1. PICK s \in S : s <= k /\ \A o \in S : o <= k => f[s] <= f[o]
    BY <1>3 DEF HasLow
  <2>2. CASE f[k + 1] < f[s]
    BY <1>3, <2>1, <2>2 DEF HasLow, Seats
  <2>3. CASE ~(f[k + 1] < f[s])
    BY <1>3, <2>1, <2>3 DEF HasLow, Seats
  <2> QED BY <2>2, <2>3
<1> QED BY <1>1, <1>2, <1>3

\* A nonempty set of seats has a seat with the smallest value of f.
LEMMA LowExists ==
    ASSUME NEW S \in SUBSET Seats, S # {}, NEW f \in [Seats -> Int]
    PROVE  \E s \in S : \A o \in S : f[s] <= f[o]
<1>0. HasLow(f, S, 0)
  BY DEF HasLow, Seats
<1>1. HasLow(f, S, 1) BY <1>0, LowStep
<1>2. HasLow(f, S, 2) BY <1>1, LowStep
<1>3. HasLow(f, S, 3) BY <1>2, LowStep
<1>4. HasLow(f, S, 4) BY <1>3, LowStep
<1>5. HasLow(f, S, 5) BY <1>4, LowStep
<1>6. HasLow(f, S, 6) BY <1>5, LowStep
<1>7. HasLow(f, S, 7) BY <1>6, LowStep
<1>8. HasLow(f, S, 8) BY <1>7, LowStep
<1>9. \A s \in S : s <= 8
  BY DEF Seats
<1> QED BY <1>8, <1>9 DEF HasLow

\* LowSeat is a seat of the set, and none has less.
LEMMA LowSeatFact ==
    ASSUME NEW S \in SUBSET Seats, S # {}, NEW f \in [Seats -> Int]
    PROVE  /\ LowSeat(f, S) \in S
           /\ \A o \in S : f[LowSeat(f, S)] <= f[o]
BY Zenon, LowExists DEF LowSeat

\* TopSeat is a seat of the set, and none has more.
LEMMA TopSeatFact ==
    ASSUME NEW S \in SUBSET Seats, S # {}, NEW f \in [Seats -> Int]
    PROVE  /\ TopSeat(f, S) \in S
           /\ \A o \in S : f[o] <= f[TopSeat(f, S)]
<1> DEFINE g == [s \in Seats |-> -f[s]]
<1>1. g \in [Seats -> Int]
  OBVIOUS
<1>2. PICK s \in S : \A o \in S : g[s] <= g[o]
  BY Zenon, <1>1, LowExists
<1>3. ASSUME NEW o \in S PROVE f[o] <= f[s]
  <2>1. f[o] \in Int /\ f[s] \in Int /\ -f[s] <= -f[o]
    BY Zenon, <1>2
  <2> QED BY <2>1
<1> QED BY Zenon, <1>3 DEF TopSeat

\* Walking clockwise from any seat meets a seat of a nonempty set.
LEMMA NextSeatFact ==
    ASSUME NEW S \in SUBSET Seats, S # {}, NEW from \in -1..8
    PROVE  NextSeat(from, S) \in S
<1> DEFINE g == [s \in Seats |-> Distance(from, s)]
<1>1. g \in [Seats -> Int]
  BY DEF Distance, Seats
<1>2. PICK s \in S : \A o \in S : g[s] <= g[o]
  BY Zenon, <1>1, LowExists
<1>3. \A o \in S : Distance(from, s) <= Distance(from, o)
  BY Zenon, <1>2
<1> QED BY <1>3 DEF NextSeat

\* A sum of naturals is a natural and at least each of its terms.
LEMMA SumNat ==
    ASSUME NEW f \in [Seats -> Nat]
    PROVE  SeatSum(f) \in Nat /\ \A s \in Seats : f[s] <= SeatSum(f)
BY DEF SeatSum, Seats

\* A sum of integers is an integer.
LEMMA SumInt ==
    ASSUME NEW f \in [Seats -> Int]
    PROVE  SeatSum(f) \in Int
BY DEF SeatSum, Seats

\* Seatwise smaller amounts have a smaller sum.
LEMMA SumMono ==
    ASSUME NEW f \in [Seats -> Int], NEW g \in [Seats -> Int],
           \A s \in Seats : f[s] <= g[s]
    PROVE  SeatSum(f) <= SeatSum(g)
BY DEF SeatSum, Seats

\* Changing one seat changes the sum by as much.
LEMMA SumUpdate ==
    ASSUME NEW f \in [Seats -> Int], NEW s \in Seats, NEW v \in Int
    PROVE  SeatSum([f EXCEPT ![s] = v]) = SeatSum(f) - f[s] + v
BY DEF SeatSum, Seats

\* The sum of seatwise sums is the sum of the sums.
LEMMA SumAdd ==
    ASSUME NEW f \in [Seats -> Int], NEW g \in [Seats -> Int]
    PROVE  SeatSum([s \in Seats |-> f[s] + g[s]]) = SeatSum(f) + SeatSum(g)
BY DEF SeatSum, Seats

\* The sum of seatwise differences is the difference of the sums.
LEMMA SumSub ==
    ASSUME NEW f \in [Seats -> Int], NEW g \in [Seats -> Int]
    PROVE  SeatSum([s \in Seats |-> f[s] - g[s]]) = SeatSum(f) - SeatSum(g)
BY DEF SeatSum, Seats

\* Nine zeros sum to zero.
LEMMA SumZero == SeatSum([s \in Seats |-> 0]) = 0
BY DEF SeatSum, Seats

\* A sum over one seat.
LEMMA SumSingle ==
    ASSUME NEW f \in [Seats -> Int], NEW o \in Seats
    PROVE  SeatSum([s \in Seats |-> IF s \in {o} THEN f[s] ELSE 0]) = f[o]
BY DEF SeatSum, Seats

\* A common factor can be taken out of a sum.
LEMMA SumScale ==
    ASSUME NEW f \in [Seats -> Int], NEW q \in Int
    PROVE  SeatSum([s \in Seats |-> q * f[s]]) = q * SeatSum(f)
BY DEF SeatSum, Seats

\* There are at most nine seats in a set, and at least one in a nonempty one.
LEMMA CountFact ==
    ASSUME NEW S \in SUBSET Seats
    PROVE  SeatCount(S) \in 0..9 /\ (S # {} => SeatCount(S) >= 1)
<1> DEFINE f == [s \in Seats |-> IF s \in S THEN 1 ELSE 0]
<1>1. f \in [Seats -> Nat] /\ \A s \in Seats : f[s] \in 0..1
  OBVIOUS
<1>2. SeatCount(S) = SeatSum(f)
  BY DEF SeatCount
<1>3. SeatSum(f) \in 0..9
  <2>1. /\ f[0] \in 0..1 /\ f[1] \in 0..1 /\ f[2] \in 0..1
        /\ f[3] \in 0..1 /\ f[4] \in 0..1 /\ f[5] \in 0..1
        /\ f[6] \in 0..1 /\ f[7] \in 0..1 /\ f[8] \in 0..1
    BY DEF Seats
  <2> HIDE DEF f
  <2> QED BY <2>1 DEF SeatSum
<1>4. ASSUME NEW s \in S PROVE SeatSum(f) >= 1
  <2>1. f[s] = 1
    OBVIOUS
  <2> HIDE DEF f
  <2> QED BY <1>1, <1>3, <2>1, SumNat
<1> QED BY Zenon, <1>2, <1>3, <1>4

\* No seats in the empty set.
LEMMA CountEmpty == SeatCount({}) = 0
BY DEF SeatCount, SeatSum, Seats

\* Quotient and remainder of a pot among at most nine winners.
LEMMA DivMod ==
    ASSUME NEW a \in Nat, NEW n \in 1..9
    PROVE  /\ a \div n \in Nat /\ a % n \in Nat
           /\ n * (a \div n) + (a % n) = a
<1>1. n \in {1, 2, 3, 4, 5, 6, 7, 8, 9}
  OBVIOUS
<1> QED BY <1>1

\* NextSeat is a nearest seat of the set.
LEMMA NextSeatNearest ==
    ASSUME NEW S \in SUBSET Seats, S # {}, NEW from \in -1..8
    PROVE  /\ NextSeat(from, S) \in S
           /\ \A o \in S : Distance(from, NextSeat(from, S)) <= Distance(from, o)
<1> DEFINE g == [s \in Seats |-> Distance(from, s)]
<1>1. g \in [Seats -> Int]
  BY DEF Distance, Seats
<1>2. PICK s \in S : \A o \in S : g[s] <= g[o]
  BY Zenon, <1>1, LowExists
<1>3. \A o \in S : Distance(from, s) <= Distance(from, o)
  BY Zenon, <1>2
<1> QED BY <1>3 DEF NextSeat

\* Distances, without the remainder.
LEMMA DistanceFact ==
    ASSUME NEW from \in Seats, NEW s \in Seats
    PROVE  Distance(from, s) = IF s > from THEN s - from - 1 ELSE s - from + 8
BY DEF Distance, Seats

\* A set of seats has no more seats than a set that contains it.
LEMMA CountMono ==
    ASSUME NEW T \in SUBSET Seats, NEW S \in SUBSET T
    PROVE  SeatCount(S) <= SeatCount(T)
<1> DEFINE f == [s \in Seats |-> IF s \in S THEN 1 ELSE 0]
           g == [s \in Seats |-> IF s \in T THEN 1 ELSE 0]
<1>1. f \in [Seats -> Int] /\ g \in [Seats -> Int] /\ \A s \in Seats : f[s] <= g[s]
  OBVIOUS
<1>2. SeatCount(S) = SeatSum(f) /\ SeatCount(T) = SeatSum(g)
  BY DEF SeatCount
<1> HIDE DEF f, g
<1> QED BY <1>1, <1>2, SumMono

\* Two different seats are two seats.
LEMMA CountPair ==
    ASSUME NEW a \in Seats, NEW b \in Seats, a # b
    PROVE  SeatCount({a, b}) = 2
<1> DEFINE z == [s \in Seats |-> 0]
           f == [z EXCEPT ![a] = 1]
           g == [f EXCEPT ![b] = 1]
           h == [s \in Seats |-> IF s \in {a, b} THEN 1 ELSE 0]
<1>1. z \in [Seats -> Int] /\ f \in [Seats -> Int] /\ f[b] = 0 /\ z[a] = 0
  OBVIOUS
<1>2. g = h
  OBVIOUS
<1>3. SeatSum(z) = 0
  BY SumZero
<1>4. SeatSum(f) = SeatSum(z) - z[a] + 1
  <2> HIDE DEF z
  <2> QED BY ZenonT(30), <1>1, SumUpdate
<1>5. SeatSum(g) = SeatSum(f) - f[b] + 1
  <2> HIDE DEF z, f
  <2>1. f \in [Seats -> Int] /\ 1 \in Int
    BY <1>1
  <2> QED BY Zenon, <2>1, SumUpdate
<1>6. SeatCount({a, b}) = SeatSum(g)
  BY <1>2 DEF SeatCount
<1> HIDE DEF z, f, g, h
<1> QED BY <1>1, <1>3, <1>4, <1>5, <1>6

\* One seat is one seat.
LEMMA CountSingle ==
    ASSUME NEW a \in Seats
    PROVE  SeatCount({a}) = 1
<1> DEFINE f == [s \in Seats |-> 1]
<1>1. f \in [Seats -> Int] /\ f[a] = 1
  OBVIOUS
<1>2. [s \in Seats |-> IF s \in {a} THEN f[s] ELSE 0] = [s \in Seats |-> IF s \in {a} THEN 1 ELSE 0]
  OBVIOUS
<1>3. SeatSum([s \in Seats |-> IF s \in {a} THEN f[s] ELSE 0]) = f[a]
  <2> HIDE DEF f
  <2> QED BY Zenon, <1>1, SumSingle
<1> QED BY <1>1, <1>2, <1>3 DEF SeatCount

\* Of two seats or more one is not the given one, of three or more one is neither
\* of two given ones.
LEMMA AnotherSeat ==
    ASSUME NEW S \in SUBSET Seats, NEW a \in Seats, NEW b \in Seats
    PROVE  /\ SeatCount(S) >= 2 => \E o \in S : o # a
           /\ SeatCount(S) >= 3 => \E o \in S : o # a /\ o # b
<1>0. SeatCount(S) \in 0..9
  BY CountFact
<1>1. ASSUME SeatCount(S) >= 2, ~(\E o \in S : o # a) PROVE FALSE
  <2>1. S \in SUBSET {a} /\ {a} \in SUBSET Seats
    BY <1>1
  <2>2. SeatCount(S) <= 1
    BY Zenon, <2>1, CountMono, CountSingle
  <2> QED BY <1>0, <1>1, <2>2
<1>2. ASSUME SeatCount(S) >= 3, ~(\E o \in S : o # a /\ o # b) PROVE FALSE
  <2>1. S \in SUBSET {a, b} /\ {a, b} \in SUBSET Seats
    BY <1>2
  <2>2. SeatCount(S) <= SeatCount({a, b})
    BY <2>1, CountMono
  <2>3. SeatCount({a, b}) <= 2
    <3>1. CASE a = b
      <4>1. {a, b} = {a}
        BY <3>1
      <4>2. SeatCount({a, b}) = 1
        BY <4>1, CountSingle
      <4> QED BY <4>2
    <3>2. CASE a # b
      <4>1. SeatCount({a, b}) = 2
        BY <3>2, CountPair
      <4> QED BY <4>1
    <3> QED BY <3>1, <3>2
  <2>4. SeatCount({a, b}) \in 0..9
    BY <2>1, CountFact
  <2> QED BY <1>0, <1>2, <2>2, <2>3, <2>4
<1> QED BY <1>1, <1>2

\* Walking on from a seat to a set of at least two leads to another seat.
LEMMA NextSeatMoves ==
    ASSUME NEW S \in SUBSET Seats, SeatCount(S) >= 2, NEW from \in Seats
    PROVE  NextSeat(from, S) # from /\ NextSeat(from, S) \in S
<1>1. PICK o \in S : o # from
  BY AnotherSeat
<1>2. /\ NextSeat(from, S) \in S
      /\ Distance(from, NextSeat(from, S)) <= Distance(from, o)
  BY NextSeatNearest, -1..8 = Seats \cup {-1} DEF Seats
<1>3. Distance(from, o) < 8 /\ Distance(from, from) = 8 /\ Distance(from, o) \in Int
  BY <1>1, DistanceFact DEF Seats
<1> QED BY <1>2, <1>3

\* With three seats or more, the second one met is not where the walk began.
LEMMA NextSeatTwice ==
    ASSUME NEW S \in SUBSET Seats, SeatCount(S) >= 3, NEW from \in S
    PROVE  NextSeat(NextSeat(from, S), S) # from
<1> DEFINE a == NextSeat(from, S)
           b == NextSeat(a, S)
<1>0. SeatCount(S) >= 2 /\ from \in Seats
  BY CountFact
<1>1. a \in S /\ a # from
  BY <1>0, NextSeatMoves
<1> HIDE DEF a
<1>2. PICK o \in S : o # from /\ o # a
  BY <1>0, <1>1, AnotherSeat
<1>3. /\ from \in -1..8 /\ a \in -1..8 /\ S # {}
      /\ from \in Seats /\ a \in Seats /\ o \in Seats
  BY <1>0, <1>1, <1>2 DEF Seats
<1>4. Distance(from, a) <= Distance(from, o)
  BY <1>2, <1>3, NextSeatNearest DEF a
<1>5. Distance(a, b) <= Distance(a, o)
  BY <1>2, <1>3, NextSeatNearest
<1> HIDE DEF b
<1>6. ASSUME b = from PROVE FALSE
  <2>1. Distance(a, from) <= Distance(a, o)
    BY <1>5, <1>6
  <2>2. /\ Distance(from, a) = (IF a > from THEN a - from - 1 ELSE a - from + 8)
        /\ Distance(from, o) = (IF o > from THEN o - from - 1 ELSE o - from + 8)
        /\ Distance(a, from) = (IF from > a THEN from - a - 1 ELSE from - a + 8)
        /\ Distance(a, o) = (IF o > a THEN o - a - 1 ELSE o - a + 8)
    BY <1>3, DistanceFact
  <2>3. from \in 0..8 /\ a \in 0..8 /\ o \in 0..8
    BY <1>3 DEF Seats
  <2> QED BY <1>1, <1>2, <1>4, <2>1, <2>2, <2>3
<1> QED BY <1>6 DEF a, b

-----------------------------------------------------------------------------
(* Side pots *)

\* One pot is split without creating chips, among the seats eligible for it.
LEMMA PotShareFact ==
    ASSUME NEW amount \in Nat, NEW seats \in SUBSET Seats, NEW rank
    PROVE  /\ PotShare(amount, seats, rank) \in [Seats -> Nat]
           /\ SeatSum(PotShare(amount, seats, rank)) <= amount
           /\ \A s \in Seats \ seats : PotShare(amount, seats, rank)[s] = 0
<1> DEFINE W     == Winners(seats, rank)
           n     == SeatCount(W)
           first == NextSeat(8, W)
           q     == amount \div n
           r     == amount % n
           p     == PotShare(amount, seats, rank)
<1>1. W \in SUBSET seats /\ W \in SUBSET Seats
  BY DEF Winners
<1>2. p = [s \in Seats |-> IF s \notin W THEN 0 ELSE q + (IF s = first THEN r ELSE 0)]
  BY DEF PotShare
<1>3. CASE W = {}
  <2>1. p = [s \in Seats |-> 0]
    BY <1>2, <1>3
  <2> QED BY <2>1, SumZero
<1>4. CASE W # {}
  <2>1. n \in 1..9 /\ first \in W
    BY <1>1, <1>4, CountFact, NextSeatFact
  <2>2. q \in Nat /\ r \in Nat /\ n * q + r = amount
    BY <2>1, DivMod
  <2> DEFINE one == [s \in Seats |-> IF s \in W THEN 1 ELSE 0]
             rem == [s \in Seats |-> IF s = first THEN r ELSE 0]
             qs  == [s \in Seats |-> q * one[s]]
  <2>3. one \in [Seats -> Int] /\ n = SeatSum(one)
    BY DEF SeatCount
  <2>4. rem \in [Seats -> Int] /\ SeatSum(rem) = r
    <3>1. rem = [[s \in Seats |-> 0] EXCEPT ![first] = r]
      BY <1>1, <2>1
    <3>2. [s \in Seats |-> 0] \in [Seats -> Int]
      OBVIOUS
    <3> QED BY <1>1, <2>1, <2>2, <3>1, <3>2, SumUpdate, SumZero
  <2>5. qs \in [Seats -> Int] /\ SeatSum(qs) = q * n
    <3> HIDE DEF q, n, one
    <3>1. q \in Int /\ \A s \in Seats : one[s] \in Int /\ q * one[s] \in Int
      BY <2>2, <2>3
    <3>2. SeatSum(qs) = q * SeatSum(one)
      BY Zenon, <2>3, <3>1, SumScale
    <3> QED BY <2>3, <3>1, <3>2
  <2>6. p = [s \in Seats |-> qs[s] + rem[s]]
    <3>1. ASSUME NEW s \in Seats
          PROVE  p[s] = qs[s] + rem[s]
      BY <1>1, <1>2, <2>1, <2>2
    <3> QED BY <1>2, <3>1
  <2>7. SeatSum(p) = q * n + r
    <3> HIDE DEF p, qs, rem
    <3> QED BY Zenon, <2>4, <2>5, <2>6, SumAdd
  <2>8. p \in [Seats -> Nat] /\ \A s \in Seats \ seats : p[s] = 0
    <3> HIDE DEF W, q, r, first
    <3> QED BY <1>1, <1>2, <2>2
  <2>9. q * n + r = amount
    <3> HIDE DEF q, r, n
    <3> QED BY <2>1, <2>2
  <2> QED BY <2>7, <2>8, <2>9
<1> QED BY <1>3, <1>4

\* The state of the cutting loop: nothing negative, nothing created.
PotState(st, eligible, total) ==
    /\ st = [left |-> st.left, amount |-> st.amount, seats |-> st.seats, won |-> st.won]
    /\ st.left \in [Seats -> Nat] /\ st.amount \in Nat
    /\ st.seats \in SUBSET eligible /\ st.won \in [Seats -> Nat]
    /\ SeatSum(st.left) + st.amount + SeatSum(st.won) <= total
    /\ \A s \in Seats \ eligible : st.won[s] = 0

\* Closing a pot pays at most what the pot holds, to eligible seats only.
LEMMA ClosePotFact ==
    ASSUME NEW eligible \in SUBSET Seats, NEW total \in Nat, NEW rank, NEW st,
           PotState(st, eligible, total)
    PROVE  /\ ClosePot(st, rank) \in [Seats -> Nat]
           /\ SeatSum(ClosePot(st, rank)) <= st.amount + SeatSum(st.won)
           /\ \A s \in Seats \ eligible : ClosePot(st, rank)[s] = 0
<1> DEFINE share == PotShare(st.amount, st.seats, rank)
<1>1. /\ share \in [Seats -> Nat] /\ SeatSum(share) <= st.amount
      /\ \A s \in Seats \ st.seats : share[s] = 0
  BY PotShareFact DEF PotState
<1>2. ClosePot(st, rank) = [s \in Seats |-> st.won[s] + share[s]]
  BY DEF ClosePot
<1> HIDE DEF share
<1>3. SeatSum(ClosePot(st, rank)) = SeatSum(st.won) + SeatSum(share)
  <2>1. st.won \in [Seats -> Int] /\ share \in [Seats -> Int]
    BY <1>1 DEF PotState
  <2> QED BY Zenon, <1>2, <2>1, SumAdd
<1>4. SeatSum(st.won) \in Nat /\ SeatSum(share) \in Nat /\ st.amount \in Nat
  BY <1>1, SumNat DEF PotState
<1>5. SeatSum(ClosePot(st, rank)) <= st.amount + SeatSum(st.won)
  BY <1>1, <1>3, <1>4
<1>6. /\ ClosePot(st, rank) \in [Seats -> Nat]
      /\ \A s \in Seats \ eligible : ClosePot(st, rank)[s] = 0
  BY <1>1, <1>2 DEF PotState
<1> QED BY <1>5, <1>6

\* Cutting a tier moves chips from the commitments to the open pot and keeps
\* the total of commitments, open pot and payments within what was committed.
LEMMA CutTierFact ==
    ASSUME NEW eligible \in SUBSET Seats, NEW total \in Nat, NEW rank, NEW st,
           PotState(st, eligible, total)
    PROVE  PotState(CutTier(st, eligible, rank), eligible, total)
<1> DEFINE share == TierShare(st.left)
           seats == eligible \cap Contributors(st.left)
           left  == [s \in Seats |-> st.left[s] - share[s]]
<1>1. CASE Contributors(st.left) = {}
  BY <1>1 DEF CutTier
<1>2. CASE Contributors(st.left) # {}
  <2>0. st.left \in [Seats -> Nat] /\ st.left \in [Seats -> Int]
    BY DEF PotState
  <2>1. /\ TierHeight(st.left) \in Nat
        /\ \A s \in Contributors(st.left) : TierHeight(st.left) <= st.left[s]
    <3>1. Contributors(st.left) \in SUBSET Seats
      BY DEF Contributors
    <3>2. /\ LowSeat(st.left, Contributors(st.left)) \in Contributors(st.left)
          /\ \A o \in Contributors(st.left) :
                st.left[LowSeat(st.left, Contributors(st.left))] <= st.left[o]
      BY <1>2, <2>0, <3>1, LowSeatFact
    <3> QED BY <2>0, <3>1, <3>2 DEF TierHeight
  <2>2. share \in [Seats -> Nat] /\ \A s \in Seats : share[s] <= st.left[s]
    BY <2>0, <2>1 DEF TierShare, Contributors
  <2>3. left \in [Seats -> Nat]
    <3> HIDE DEF share
    <3> QED BY <2>0, <2>2
  <2>4. SeatSum(left) = SeatSum(st.left) - SeatSum(share)
    <3> HIDE DEF share
    <3>1. share \in [Seats -> Int]
      BY <2>2
    <3> QED BY Zenon, <2>0, <3>1, SumSub
  <2>5. /\ SeatSum(left) \in Nat /\ SeatSum(share) \in Nat /\ SeatSum(st.left) \in Nat
        /\ SeatSum(st.won) \in Nat /\ st.amount \in Nat
    <3> HIDE DEF share, left
    <3> QED BY <2>0, <2>2, <2>3, SumNat DEF PotState
  <2>6. seats \in SUBSET eligible
    OBVIOUS
  <2> DEFINE joined == [left |-> left, amount |-> st.amount + SeatSum(share),
                        seats |-> seats, won |-> st.won]
             closed == [left |-> left, amount |-> SeatSum(share),
                        seats |-> seats, won |-> ClosePot(st, rank)]
  <2>7. CutTier(st, eligible, rank) = IF seats = st.seats THEN joined ELSE closed
    BY <1>2 DEF CutTier
  <2> HIDE DEF left, share, seats
  <2>8. PotState(joined, eligible, total)
    BY <2>3, <2>4, <2>5, <2>6 DEF PotState
  <2>9. PotState(closed, eligible, total)
    <3> DEFINE won == ClosePot(st, rank)
    <3>1. /\ won \in [Seats -> Nat]
          /\ SeatSum(won) <= st.amount + SeatSum(st.won)
          /\ \A s \in Seats \ eligible : won[s] = 0
      BY ClosePotFact
    <3> HIDE DEF won
    <3>2. SeatSum(won) \in Nat
      BY <3>1, SumNat
    <3>3. SeatSum(st.left) + st.amount + SeatSum(st.won) <= total
      BY DEF PotState
    <3>4. SeatSum(left) + SeatSum(share) + SeatSum(won) <= total
      BY <2>4, <2>5, <3>1, <3>2, <3>3
    <3> QED BY <2>3, <2>5, <2>6, <3>1, <3>4 DEF PotState, won
  <2> QED BY <2>7, <2>8, <2>9
<1> QED BY <1>1, <1>2

\* The same for three tiers.
LEMMA CutThreeFact ==
    ASSUME NEW eligible \in SUBSET Seats, NEW total \in Nat, NEW rank, NEW st,
           PotState(st, eligible, total)
    PROVE  PotState(CutThree(st, eligible, rank), eligible, total)
BY CutTierFact DEF CutThree

\* The whole showdown (computeSidePots and the award loop of
\* settleKnownShowdown) pays at most the commitments, and only seats that are
\* still in the hand, whatever the seven-card evaluation says.
THEOREM PayoutWithinPot ==
    ASSUME NEW commit \in [Seats -> Nat], NEW eligible \in SUBSET Seats, NEW rank
    PROVE  /\ Payout(commit, eligible, rank) \in [Seats -> Nat]
           /\ SeatSum(Payout(commit, eligible, rank)) <= SeatSum(commit)
           /\ \A s \in Seats \ eligible : Payout(commit, eligible, rank)[s] = 0
<1> DEFINE total == SeatSum(commit)
           st0 == OpenPots(commit)
           st1 == CutThree(st0, eligible, rank)
           st2 == CutThree(st1, eligible, rank)
           st3 == CutThree(st2, eligible, rank)
<1>1. total \in Nat
  BY SumNat
<1>2. PotState(st0, eligible, total)
  BY <1>1, SumZero DEF PotState, OpenPots
<1>3. Payout(commit, eligible, rank) = ClosePot(st3, rank)
  BY DEF Payout
<1> HIDE DEF total, st0
<1>4. PotState(st1, eligible, total)
  BY <1>1, <1>2, CutThreeFact
<1> HIDE DEF st1
<1>5. PotState(st2, eligible, total)
  BY <1>1, <1>4, CutThreeFact
<1> HIDE DEF st2
<1>6. PotState(st3, eligible, total)
  BY <1>1, <1>5, CutThreeFact
<1> HIDE DEF st3
<1>7. /\ ClosePot(st3, rank) \in [Seats -> Nat]
      /\ SeatSum(ClosePot(st3, rank)) <= st3.amount + SeatSum(st3.won)
      /\ \A s \in Seats \ eligible : ClosePot(st3, rank)[s] = 0
  BY <1>1, <1>6, ClosePotFact
<1>8. /\ SeatSum(st3.left) \in Nat /\ SeatSum(st3.won) \in Nat /\ st3.amount \in Nat
      /\ SeatSum(ClosePot(st3, rank)) \in Nat
  BY <1>6, <1>7, SumNat DEF PotState
<1>9. SeatSum(ClosePot(st3, rank)) <= total
  BY <1>1, <1>6, <1>7, <1>8 DEF PotState
<1> QED BY <1>3, <1>7, <1>9 DEF total

-----------------------------------------------------------------------------
(* What one seat can win *)

\* What seat s has matched of the commitments f: at most its own from every seat.
MatchedBy(f, s) == [o \in Seats |-> Lesser(f[o], f[s])]

\* The loop has not promised seat s more than cap: what it won, the open pot if it
\* is in for it, and what it has matched of the tiers still to be cut.
Capped(st, s, cap) ==
    st.won[s] + (IF s \in st.seats THEN st.amount ELSE 0) + SeatSum(MatchedBy(st.left, s)) <= cap

\* Closing a pot pays a seat at most the pot, and nothing if it is not in for it.
LEMMA CloseCapped ==
    ASSUME NEW eligible \in SUBSET Seats, NEW total \in Nat, NEW rank, NEW st,
           PotState(st, eligible, total), NEW s \in Seats
    PROVE  ClosePot(st, rank)[s] <= st.won[s] + (IF s \in st.seats THEN st.amount ELSE 0)
<1> DEFINE share == PotShare(st.amount, st.seats, rank)
<1>1. /\ share \in [Seats -> Nat] /\ SeatSum(share) <= st.amount
      /\ \A o \in Seats \ st.seats : share[o] = 0
  BY PotShareFact DEF PotState
<1>2. ClosePot(st, rank)[s] = st.won[s] + share[s]
  BY DEF ClosePot
<1> HIDE DEF share
<1>3. share[s] \in Nat /\ share[s] <= SeatSum(share) /\ SeatSum(share) \in Nat
  BY <1>1, SumNat
<1>4. st.won[s] \in Nat /\ st.amount \in Nat
  BY DEF PotState
<1> QED BY <1>1, <1>2, <1>3, <1>4

\* A tier takes from what a seat has matched exactly the tier, if the seat is in it.
LEMMA TierMatched ==
    ASSUME NEW f \in [Seats -> Nat], Contributors(f) # {}, NEW s \in Seats,
           NEW share, share = TierShare(f),
           NEW left, left = [o \in Seats |-> f[o] - share[o]]
    PROVE  /\ SeatSum(MatchedBy(left, s)) \in Nat
           /\ SeatSum(MatchedBy(f, s)) \in Nat
           /\ SeatSum(share) \in Nat
           /\ f[s] > 0 => SeatSum(MatchedBy(f, s)) = SeatSum(MatchedBy(left, s)) + SeatSum(share)
           /\ ~(f[s] > 0) => SeatSum(MatchedBy(f, s)) = SeatSum(MatchedBy(left, s))
<1> DEFINE h == TierHeight(f)
           a == MatchedBy(f, s)
           b == MatchedBy(left, s)
<1>1. /\ h \in Nat /\ \A o \in Contributors(f) : h <= f[o]
  <2>1. Contributors(f) \in SUBSET Seats /\ f \in [Seats -> Int]
    BY DEF Contributors
  <2>2. /\ LowSeat(f, Contributors(f)) \in Contributors(f)
        /\ \A o \in Contributors(f) : f[LowSeat(f, Contributors(f))] <= f[o]
    BY <2>1, LowSeatFact
  <2> QED BY <2>1, <2>2 DEF TierHeight
<1> HIDE DEF h
<1>2. ASSUME NEW o \in Seats
      PROVE  /\ f[o] \in Nat /\ share[o] = (IF f[o] > 0 THEN h ELSE 0)
             /\ left[o] = f[o] - share[o] /\ left[o] \in Nat
  <2>1. share[o] = (IF f[o] > 0 THEN h ELSE 0)
    BY DEF TierShare, h
  <2>2. f[o] > 0 => h <= f[o]
    BY <1>1 DEF Contributors
  <2> QED BY <1>1, <2>1, <2>2
<1>3. ASSUME NEW o \in Seats
      PROVE  /\ a[o] \in Nat /\ b[o] \in Nat /\ share[o] \in Nat
             /\ f[s] > 0 => a[o] = b[o] + share[o]
             /\ ~(f[s] > 0) => a[o] = b[o]
  <2>1. a[o] = Lesser(f[o], f[s]) /\ b[o] = Lesser(left[o], left[s])
    BY DEF MatchedBy
  <2>2. /\ f[o] \in Nat /\ share[o] = (IF f[o] > 0 THEN h ELSE 0)
        /\ left[o] = f[o] - share[o] /\ left[o] \in Nat
        /\ f[s] \in Nat /\ share[s] = (IF f[s] > 0 THEN h ELSE 0)
        /\ left[s] = f[s] - share[s] /\ left[s] \in Nat
    BY <1>2
  <2> HIDE DEF a, b
  <2> QED BY <1>1, <2>1, <2>2 DEF Lesser
<1>4. a \in [Seats -> Nat] /\ b \in [Seats -> Nat] /\ share \in [Seats -> Nat]
  <2>1. /\ a = [o \in Seats |-> a[o]] /\ b = [o \in Seats |-> b[o]]
        /\ share = [o \in Seats |-> share[o]]
    BY DEF MatchedBy, TierShare
  <2> HIDE DEF a, b
  <2> QED BY <1>3, <2>1
<1> HIDE DEF a, b
<1>5. SeatSum(a) \in Nat /\ SeatSum(b) \in Nat /\ SeatSum(share) \in Nat
  BY <1>4, SumNat
<1>6. ASSUME f[s] > 0 PROVE SeatSum(a) = SeatSum(b) + SeatSum(share)
  <2>1. a = [o \in Seats |-> b[o] + share[o]]
    BY <1>3, <1>4, <1>6
  <2>2. b \in [Seats -> Int] /\ share \in [Seats -> Int]
    BY <1>4
  <2> QED BY Zenon, <2>1, <2>2, SumAdd
<1>7. ASSUME ~(f[s] > 0) PROVE a = b
  BY <1>3, <1>4, <1>7
<1> QED BY <1>5, <1>6, <1>7 DEF a, b

\* Cutting a tier promises no seat more.
LEMMA CutTierCapped ==
    ASSUME NEW eligible \in SUBSET Seats, NEW total \in Nat, NEW rank, NEW st,
           PotState(st, eligible, total), NEW s \in Seats, NEW cap \in Nat, Capped(st, s, cap)
    PROVE  Capped(CutTier(st, eligible, rank), s, cap)
<1>1. CASE Contributors(st.left) = {}
  BY <1>1 DEF CutTier
<1>2. CASE Contributors(st.left) # {}
  <2> DEFINE share  == TierShare(st.left)
             seats  == eligible \cap Contributors(st.left)
             left   == [o \in Seats |-> st.left[o] - share[o]]
             joined == [left |-> left, amount |-> st.amount + SeatSum(share),
                        seats |-> seats, won |-> st.won]
             closed == [left |-> left, amount |-> SeatSum(share),
                        seats |-> seats, won |-> ClosePot(st, rank)]
             old    == SeatSum(MatchedBy(st.left, s))
             new    == SeatSum(MatchedBy(left, s))
             open   == IF s \in st.seats THEN st.amount ELSE 0
  <2>1. CutTier(st, eligible, rank) = IF seats = st.seats THEN joined ELSE closed
    BY <1>2 DEF CutTier
  <2>2. /\ st.left \in [Seats -> Nat] /\ st.amount \in Nat /\ st.won[s] \in Nat
        /\ st.won \in [Seats -> Nat]
    BY DEF PotState
  <2>3. /\ new \in Nat /\ old \in Nat /\ SeatSum(share) \in Nat
        /\ st.left[s] > 0 => old = new + SeatSum(share)
        /\ ~(st.left[s] > 0) => old = new
    BY <1>2, <2>2, TierMatched
  <2>4. s \in seats => st.left[s] > 0
    BY DEF Contributors
  <2>5. st.won[s] + open + old <= cap
    BY DEF Capped
  <2>6. ClosePot(st, rank)[s] <= st.won[s] + open /\ ClosePot(st, rank)[s] \in Nat
    BY CloseCapped, ClosePotFact
  <2>7. open \in Nat
    BY <2>2
  <2> DEFINE sum == SeatSum(share)
             won == ClosePot(st, rank)[s]
  <2>8. joined.won[s] = st.won[s] /\ closed.won[s] = won
    OBVIOUS
  <2>9. Capped(joined, s, cap) <=>
            st.won[s] + (IF s \in seats THEN st.amount + sum ELSE 0) + new <= cap
    BY DEF Capped
  <2>10. Capped(closed, s, cap) <=> won + (IF s \in seats THEN sum ELSE 0) + new <= cap
    BY DEF Capped
  <2>11. seats = st.seats => open = (IF s \in seats THEN st.amount ELSE 0)
    OBVIOUS
  <2> HIDE DEF share, seats, left, joined, closed, old, new, open, sum, won
  <2>12. sum \in Nat /\ (st.left[s] > 0 => old = new + sum) /\ won <= st.won[s] + open
         /\ won \in Nat
    BY <2>3, <2>6 DEF sum, won
  <2>13. CASE seats = st.seats
    <3>1. st.won[s] + (IF s \in seats THEN st.amount + sum ELSE 0) + new <= cap
      BY <2>2, <2>3, <2>4, <2>5, <2>7, <2>11, <2>12, <2>13
    <3> QED BY <2>1, <2>9, <2>13, <3>1
  <2>14. CASE seats # st.seats
    <3>1. won + (IF s \in seats THEN sum ELSE 0) + new <= cap
      BY <2>2, <2>3, <2>4, <2>5, <2>7, <2>12
    <3> QED BY <2>1, <2>10, <2>14, <3>1
  <2> QED BY <2>13, <2>14
<1> QED BY <1>1, <1>2

\* The same for three tiers.
LEMMA CutThreeCapped ==
    ASSUME NEW eligible \in SUBSET Seats, NEW total \in Nat, NEW rank, NEW st,
           PotState(st, eligible, total), NEW s \in Seats, NEW cap \in Nat, Capped(st, s, cap)
    PROVE  /\ Capped(CutThree(st, eligible, rank), s, cap)
           /\ PotState(CutThree(st, eligible, rank), eligible, total)
BY CutTierFact, CutTierCapped DEF CutThree

\* Whatever the side pots are and whoever wins them, settleKnownShowdown pays a seat
\* at most its own commitment from every seat.
THEOREM PayoutIsMatched ==
    ASSUME NEW commit \in [Seats -> Nat], NEW eligible \in SUBSET Seats, NEW rank,
           NEW s \in Seats
    PROVE  Payout(commit, eligible, rank)[s] <= SeatSum(MatchedBy(commit, s))
<1> DEFINE total == SeatSum(commit)
           cap == SeatSum(MatchedBy(commit, s))
           st0 == OpenPots(commit)
           st1 == CutThree(st0, eligible, rank)
           st2 == CutThree(st1, eligible, rank)
           st3 == CutThree(st2, eligible, rank)
<1>1. total \in Nat
  BY SumNat
<1>2. cap \in Nat
  <2>1. MatchedBy(commit, s) \in [Seats -> Nat]
    BY DEF MatchedBy, Lesser
  <2> QED BY <2>1, SumNat
<1>3. PotState(st0, eligible, total)
  BY <1>1, SumZero DEF PotState, OpenPots
<1>4. Capped(st0, s, cap)
  <2>1. st0.won[s] = 0 /\ st0.seats = {} /\ st0.left = commit
    BY DEF OpenPots
  <2> HIDE DEF st0
  <2> QED BY <1>2, <2>1 DEF Capped
<1>5. Payout(commit, eligible, rank) = ClosePot(st3, rank)
  BY DEF Payout
<1> HIDE DEF total, cap, st0
<1>6. PotState(st1, eligible, total) /\ Capped(st1, s, cap)
  BY <1>1, <1>2, <1>3, <1>4, CutThreeCapped
<1> HIDE DEF st1
<1>7. PotState(st2, eligible, total) /\ Capped(st2, s, cap)
  BY <1>1, <1>2, <1>6, CutThreeCapped
<1> HIDE DEF st2
<1>8. PotState(st3, eligible, total) /\ Capped(st3, s, cap)
  BY <1>1, <1>2, <1>7, CutThreeCapped
<1> HIDE DEF st3
<1>9. /\ ClosePot(st3, rank)[s] <= st3.won[s] + (IF s \in st3.seats THEN st3.amount ELSE 0)
      /\ ClosePot(st3, rank)[s] \in Nat /\ st3.won[s] \in Nat /\ st3.amount \in Nat
  <2>1. ClosePot(st3, rank)[s] <= st3.won[s] + (IF s \in st3.seats THEN st3.amount ELSE 0)
    BY <1>1, <1>8, CloseCapped
  <2>2. ClosePot(st3, rank) \in [Seats -> Nat]
    BY <1>1, <1>8, ClosePotFact
  <2>3. st3.won \in [Seats -> Nat] /\ st3.amount \in Nat
    BY <1>8 DEF PotState
  <2> QED BY <2>1, <2>2, <2>3
<1>10. SeatSum(MatchedBy(st3.left, s)) \in Nat
  <2>1. MatchedBy(st3.left, s) \in [Seats -> Nat]
    BY <1>8 DEF MatchedBy, Lesser, PotState
  <2> QED BY <2>1, SumNat
<1>11. ClosePot(st3, rank)[s] <= cap
  BY <1>2, <1>8, <1>9, <1>10 DEF Capped
<1> QED BY <1>5, <1>11 DEF cap

-----------------------------------------------------------------------------
(* The table *)

\* Tables on which the betting arithmetic cannot underflow: what a seat put in
\* on this street is part of what it put in altogether.
Sound == {t \in TableType : \A s \in Seats : t.streetCommit[s] <= t.totalCommit[s]}

\* u is such a table and owes no more than t.
Keeps(t, u) == u \in Sound /\ Owed(u) <= Owed(t)

\* What a sound table owes is a sum of three natural totals.
LEMMA OwedNat ==
    ASSUME NEW t \in Sound
    PROVE  /\ SeatSum(t.stack) \in Nat /\ SeatSum(t.bond) \in Nat
           /\ SeatSum(t.totalCommit) \in Nat /\ Owed(t) \in Nat
<1>1. t.stack \in [Seats -> Nat] /\ t.bond \in [Seats -> Nat] /\ t.totalCommit \in [Seats -> Nat]
  BY DEF Sound, TableType
<1>2. SeatSum(t.stack) \in Nat /\ SeatSum(t.bond) \in Nat /\ SeatSum(t.totalCommit) \in Nat
  BY <1>1, SumNat
<1> QED BY <1>2 DEF Owed

\* Mutations that owe no more compose.
LEMMA KeepsTransitive ==
    ASSUME NEW t \in Sound, NEW u, NEW v, Keeps(t, u), Keeps(u, v)
    PROVE  Keeps(t, v)
BY OwedNat DEF Keeps

\* A table with no hand in progress is sound.
LEMMA IdleSound ==
    ASSUME NEW player \in [Seats -> Players \cup {NoPlayer}], NEW stack \in [Seats -> Nat],
           NEW bond \in [Seats -> Nat], NEW button \in -1..8
    PROVE  Idle(player, stack, bond, button) \in Sound
<1>1. /\ Zero \in [Seats -> Nat] /\ \A s \in Seats : Zero[s] <= Zero[s]
      /\ [s \in Seats |-> Unset] \in [Seats -> Int]
      /\ Unset \in -1..8 /\ Unset \in Int /\ 0 \in Nat
  BY DEF Zero, Unset
<1>2. "NONE" \in Phases /\ "PREFLOP" \in Streets
  BY DEF Phases, Awaiting, BoardPhases, Streets
<1> QED BY Zenon, <1>1, <1>2 DEF Idle, Sound, TableType

\* Dropping the hand owes the pot no longer: stacks and bonds remain.
LEMMA ClearHandFact ==
    ASSUME NEW t \in Sound
    PROVE  /\ Keeps(t, ClearHand(t))
           /\ Owed(ClearHand(t)) = SeatSum(t.stack) + SeatSum(t.bond)
<1>1. ClearHand(t) \in Sound
  BY Zenon, IdleSound DEF ClearHand, Sound, TableType
<1>2. Owed(ClearHand(t)) = SeatSum(t.stack) + SeatSum(t.bond)
  <2>1. /\ ClearHand(t).stack = t.stack /\ ClearHand(t).bond = t.bond
        /\ ClearHand(t).totalCommit = [s \in Seats |-> 0]
    BY DEF ClearHand, Idle, Zero
  <2> QED BY <2>1, SumZero, OwedNat DEF Owed
<1> QED BY <1>1, <1>2, OwedNat DEF Keeps, Owed

\* Normalising on store can only forget chips.
LEMMA SetTableFact ==
    ASSUME NEW t \in Sound
    PROVE  Keeps(t, SetTable(t))
<1> DEFINE stack == [s \in Seats |-> IF t.player[s] = NoPlayer THEN 0 ELSE t.stack[s]]
           bond  == [s \in Seats |-> IF t.player[s] = NoPlayer THEN 0 ELSE t.bond[s]]
<1>1. /\ stack \in [Seats -> Nat] /\ \A s \in Seats : stack[s] <= t.stack[s]
      /\ bond \in [Seats -> Nat] /\ \A s \in Seats : bond[s] <= t.bond[s]
      /\ t.stack \in [Seats -> Nat] /\ t.bond \in [Seats -> Nat]
  BY DEF Sound, TableType
<1>2. SetTable(t) = [t EXCEPT !.stack = stack, !.bond = bond]
  BY DEF SetTable
<1> HIDE DEF stack, bond
<1>3. SetTable(t) \in Sound
  BY ZenonT(30), <1>1, <1>2 DEF Sound, TableType
<1>4. SeatSum(stack) <= SeatSum(t.stack) /\ SeatSum(bond) <= SeatSum(t.bond)
  <2>1. /\ stack \in [Seats -> Int] /\ t.stack \in [Seats -> Int]
        /\ bond \in [Seats -> Int] /\ t.bond \in [Seats -> Int]
    BY <1>1
  <2> QED BY <1>1, <2>1, SumMono
<1>5. /\ SetTable(t).stack = stack /\ SetTable(t).bond = bond
      /\ SetTable(t).totalCommit = t.totalCommit
  BY <1>2 DEF Sound, TableType
<1>6. SeatSum(stack) \in Nat /\ SeatSum(bond) \in Nat
  BY <1>1, SumNat
<1> QED BY <1>3, <1>4, <1>5, <1>6, OwedNat DEF Keeps, Owed

\* Committing chips that the stack has moves them and owes the same.
LEMMA PutFact ==
    ASSUME NEW t \in Sound, NEW s \in Seats, NEW n \in Nat, n <= t.stack[s]
    PROVE  Keeps(t, Put(t, s, n))
<1> DEFINE stack  == [t.stack EXCEPT ![s] = @ - n]
           street == [t.streetCommit EXCEPT ![s] = @ + n]
           total  == [t.totalCommit EXCEPT ![s] = @ + n]
           allIn  == IF t.stack[s] = n THEN t.allIn \cup {s} ELSE t.allIn
<1>1. /\ t.stack \in [Seats -> Nat] /\ t.streetCommit \in [Seats -> Nat]
      /\ t.totalCommit \in [Seats -> Nat] /\ t.allIn \in SUBSET Seats
      /\ \A o \in Seats : t.streetCommit[o] <= t.totalCommit[o]
  BY DEF Sound, TableType
<1>2. /\ stack \in [Seats -> Nat] /\ street \in [Seats -> Nat]
      /\ total \in [Seats -> Nat] /\ allIn \in SUBSET Seats
      /\ \A o \in Seats : street[o] <= total[o]
  BY <1>1
<1>3. Put(t, s, n) = [t EXCEPT !.stack = stack, !.streetCommit = street,
                               !.totalCommit = total, !.allIn = allIn]
  BY DEF Put
<1>4. /\ SeatSum(stack) = SeatSum(t.stack) - n
      /\ SeatSum(total) = SeatSum(t.totalCommit) + n
  <2>1. t.stack \in [Seats -> Int] /\ t.totalCommit \in [Seats -> Int]
    BY <1>1
  <2>2. t.stack[s] \in Int /\ t.totalCommit[s] \in Int
    BY <2>1
  <2>3. SeatSum(stack) = SeatSum(t.stack) - t.stack[s] + (t.stack[s] - n)
    BY <2>1, <2>2, SumUpdate
  <2>4. SeatSum(total) = SeatSum(t.totalCommit) - t.totalCommit[s] + (t.totalCommit[s] + n)
    BY <2>1, <2>2, SumUpdate
  <2> QED BY <2>2, <2>3, <2>4, OwedNat
<1> HIDE DEF stack, street, total, allIn
<1>5. Put(t, s, n) \in Sound
  BY ZenonT(30), <1>2, <1>3 DEF Sound, TableType
<1>6. /\ Put(t, s, n).stack = stack /\ Put(t, s, n).totalCommit = total
      /\ Put(t, s, n).bond = t.bond
  BY <1>3 DEF Sound, TableType
<1> QED BY <1>4, <1>5, <1>6, OwedNat DEF Keeps, Owed

\* Fields that do not hold chips may take any value of their type.
LEMMA SameChips ==
    ASSUME NEW t \in Sound, NEW u \in Sound,
           u.stack = t.stack, u.bond = t.bond, u.totalCommit = t.totalCommit
    PROVE  Keeps(t, u)
BY OwedNat DEF Keeps, Owed

\* toCall never goes below zero.
LEMMA ToCallNat ==
    ASSUME NEW t \in Sound, NEW s \in Seats
    PROVE  toCall(t, s) \in Nat /\ t.stack[s] \in Nat
BY DEF toCall, Sound, TableType

\* Posting a blind, capped by the stack, owes the same.
LEMMA PostBlindFact ==
    ASSUME NEW t \in Sound, NEW s \in Seats, NEW n \in Nat
    PROVE  Keeps(t, postBlindCommit(t, s, n))
<1>1. Lesser(n, t.stack[s]) \in Nat /\ Lesser(n, t.stack[s]) <= t.stack[s]
  BY ToCallNat DEF Lesser
<1> QED BY <1>1, PutFact DEF postBlindCommit

\* Folding moves no chips.
LEMMA FoldFact ==
    ASSUME NEW t \in Sound, NEW s \in Seats
    PROVE  Keeps(t, applyFold(t, s))
<1> DEFINE folded == t.folded \cup {s}
           acted  == [t.lastActed EXCEPT ![s] = t.interval]
           u      == applyFold(t, s)
<1>1. folded \in SUBSET Seats /\ acted \in [Seats -> Int]
  BY DEF Sound, TableType
<1>2. u = [t EXCEPT !.folded = folded, !.lastActed = acted]
  BY DEF applyFold
<1> HIDE DEF folded, acted, u
<1>3. u \in Sound
  BY Zenon, <1>1, <1>2 DEF Sound, TableType
<1>4. u.stack = t.stack /\ u.bond = t.bond /\ u.totalCommit = t.totalCommit
  BY <1>2 DEF Sound, TableType
<1> QED BY <1>3, <1>4, SameChips DEF u

\* Checking moves no chips.
LEMMA CheckFact ==
    ASSUME NEW t \in Sound, NEW s \in Seats
    PROVE  Keeps(t, applyCheck(t, s))
<1>1. /\ applyCheck(t, s) \in Sound
      /\ applyCheck(t, s).stack = t.stack /\ applyCheck(t, s).bond = t.bond
      /\ applyCheck(t, s).totalCommit = t.totalCommit
  BY SMTT(30) DEF applyCheck, Sound, TableType
<1> QED BY <1>1, SameChips

\* Calling, capped by the stack, owes the same.
LEMMA CallFact ==
    ASSUME NEW t \in Sound, NEW s \in Seats
    PROVE  Keeps(t, applyCall(t, s))
<1> DEFINE n == Lesser(toCall(t, s), t.stack[s])
           u == Put(t, s, n)
<1>1. n \in Nat /\ n <= t.stack[s]
  BY ToCallNat DEF Lesser
<1>2. Keeps(t, u)
  BY <1>1, PutFact
<1> DEFINE acted == [u.lastActed EXCEPT ![s] = t.interval]
<1>3. applyCall(t, s) = [u EXCEPT !.lastActed = acted]
  BY DEF applyCall
<1> HIDE DEF u
<1>4. u \in Sound /\ acted \in [Seats -> Int]
  <2>1. u \in Sound /\ t.interval \in Nat
    BY <1>2 DEF Keeps, Sound, TableType
  <2> QED BY <2>1 DEF Sound, TableType
<1> HIDE DEF acted
<1>5. /\ applyCall(t, s) \in Sound
      /\ applyCall(t, s).stack = u.stack /\ applyCall(t, s).bond = u.bond
      /\ applyCall(t, s).totalCommit = u.totalCommit
  BY ZenonT(30), <1>3, <1>4 DEF Sound, TableType
<1>6. Keeps(u, applyCall(t, s))
  BY <1>2, <1>5, SameChips DEF Keeps
<1> QED BY <1>2, <1>6, KeepsTransitive

\* An accepted bet or raise is covered by the stack and owes the same.
LEMMA BetToFact ==
    ASSUME NEW t \in Sound, NEW s \in Seats, NEW desired \in Nat,
           BetToAccepted(t, s, desired)
    PROVE  Keeps(t, applyBetTo(t, s, desired))
<1> DEFINE n     == desired - t.streetCommit[s]
           u     == Put(t, s, n)
           opens == t.betTo = 0
           full  == opens \/ desired - t.betTo >= t.minRaise
           now   == IF full THEN t.interval + 1 ELSE t.interval
           raise == IF opens THEN IF desired >= BigBlind THEN desired ELSE BigBlind
                    ELSE IF full THEN desired - t.betTo ELSE u.minRaise
           v     == applyBetTo(t, s, desired)
<1>1. /\ t.streetCommit[s] \in Nat /\ t.stack[s] \in Nat /\ t.betTo \in Nat
      /\ t.interval \in Nat /\ BigBlind \in Nat
  BY TableParams DEF Sound, TableType
<1>2. n \in Nat /\ n <= t.stack[s] /\ desired - t.betTo \in Nat
  BY <1>1 DEF BetToAccepted
<1>3. Keeps(t, u)
  BY <1>2, PutFact
<1>4. now \in Nat /\ raise \in Nat
  BY <1>1, <1>2, <1>3 DEF Keeps, Sound, TableType
<1> DEFINE acted == [u.lastActed EXCEPT ![s] = now]
<1>5. v = [u EXCEPT !.interval = now, !.lastActed = acted, !.betTo = desired,
                    !.minRaise = raise]
  BY DEF applyBetTo
<1> HIDE DEF u, now, raise, v
<1>6. /\ v \in Sound
      /\ v.stack = u.stack /\ v.bond = u.bond /\ v.totalCommit = u.totalCommit
  <2>1. u \in Sound
    BY <1>3 DEF Keeps
  <2>2. acted \in [Seats -> Int]
    BY <1>4, <2>1 DEF Sound, TableType
  <2> HIDE DEF acted
  <2> QED BY Zenon, <1>4, <1>5, <2>1, <2>2 DEF Sound, TableType
<1>7. Keeps(u, v)
  BY <1>3, <1>6, SameChips DEF Keeps
<1>8. Keeps(t, v)
  BY <1>3, <1>7, KeepsTransitive
<1> QED BY <1>8 DEF v

\* Returning the uncalled excess moves it from pot to stack, without underflow.
LEMMA ReturnFact ==
    ASSUME NEW t \in Sound
    PROVE  Keeps(t, returnUncalledStreetExcess(t))
<1> DEFINE c   == t.streetCommit
           top == TopSeat(c, Seats)
           nxt == TopSeat(c, Seats \ {top})
           n   == c[top] - c[nxt]
           u   == returnUncalledStreetExcess(t)
<1>1. c \in [Seats -> Nat] /\ c \in [Seats -> Int] /\ t.stack \in [Seats -> Nat]
      /\ t.totalCommit \in [Seats -> Nat] /\ t.allIn \in SUBSET Seats
  BY DEF Sound, TableType
<1>2. top \in Seats /\ \A o \in Seats : c[o] <= c[top]
  <2>1. Seats # {} BY DEF Seats
  <2> QED BY <1>1, <2>1, TopSeatFact
<1>3. nxt \in Seats
  <2>1. Seats \ {top} # {} /\ Seats \ {top} \in SUBSET Seats
    BY DEF Seats
  <2> QED BY <1>1, <2>1, TopSeatFact
<1>4. n \in Nat /\ n <= c[top]
  <2>1. c[top] \in Nat /\ c[nxt] \in Nat /\ c[nxt] <= c[top]
    BY SMTT(30), <1>1, <1>2, <1>3
  <2> HIDE DEF c, top, nxt
  <2> QED BY <2>1
<1>5. CASE n = 0
  <2>1. u = t
    BY <1>5 DEF returnUncalledStreetExcess
  <2> QED BY <2>1, SameChips
<1>6. CASE n # 0
  <2> DEFINE stack  == [t.stack EXCEPT ![top] = @ + n]
             street == [t.streetCommit EXCEPT ![top] = @ - n]
             total  == [t.totalCommit EXCEPT ![top] = @ - n]
             allIn  == t.allIn \ {top}
  <2>1. u = [t EXCEPT !.stack = stack, !.streetCommit = street,
                      !.totalCommit = total, !.allIn = allIn]
    BY <1>6 DEF returnUncalledStreetExcess
  <2>2. /\ stack \in [Seats -> Nat] /\ street \in [Seats -> Nat]
        /\ total \in [Seats -> Nat] /\ allIn \in SUBSET Seats
        /\ \A s \in Seats : street[s] <= total[s]
    <3>1. \A s \in Seats : c[s] <= t.totalCommit[s]
      BY Zenon DEF Sound
    <3> HIDE DEF n, top
    <3> QED BY <1>1, <1>2, <1>4, <3>1
  <2>3. /\ SeatSum(stack) = SeatSum(t.stack) + n
        /\ SeatSum(total) = SeatSum(t.totalCommit) - n
    <3>1. t.stack \in [Seats -> Int] /\ t.totalCommit \in [Seats -> Int]
      BY <1>1
    <3>2. t.stack[top] \in Int /\ t.totalCommit[top] \in Int /\ n \in Int
      BY <1>2, <1>4, <3>1
    <3> HIDE DEF n, top
    <3>3. SeatSum(stack) = SeatSum(t.stack) - t.stack[top] + (t.stack[top] + n)
      BY <1>2, <3>1, <3>2, SumUpdate
    <3>4. SeatSum(total) = SeatSum(t.totalCommit) - t.totalCommit[top] + (t.totalCommit[top] - n)
      BY <1>2, <3>1, <3>2, SumUpdate
    <3> QED BY <3>2, <3>3, <3>4, OwedNat
  <2> HIDE DEF n, stack, street, total, allIn, u
  <2>4. u \in Sound
    BY Zenon, <2>1, <2>2 DEF Sound, TableType
  <2>5. u.stack = stack /\ u.totalCommit = total /\ u.bond = t.bond
    BY <2>1 DEF Sound, TableType
  <2>6. Keeps(t, u)
    BY <1>4, <2>3, <2>4, <2>5, OwedNat DEF Keeps, Owed
  <2> QED BY <2>6 DEF u
<1> QED BY <1>5, <1>6

\* The last player standing collects the pot and no more.
LEMMA CompleteByFoldsFact ==
    ASSUME NEW t \in Sound
    PROVE  Keeps(t, completeByFolds(t))
<1>1. CASE Live(t) = {}
  BY <1>1, ClearHandFact DEF completeByFolds
<1>2. CASE Live(t) # {}
  <2> DEFINE w     == NextSeat(8, Live(t))
             u     == returnUncalledStreetExcess(t)
             pot   == SeatSum(u.totalCommit)
             stack == [u.stack EXCEPT ![w] = @ + pot]
             v     == [u EXCEPT !.stack = stack]
  <2>1. Live(t) \in SUBSET Seats
    BY DEF Live, Sound, TableType
  <2>2. w \in Seats
    BY <1>2, <2>1, NextSeatFact
  <2>3. Keeps(t, u)
    BY ReturnFact
  <2>4. completeByFolds(t) = ClearHand(v)
    BY <1>2 DEF completeByFolds
  <2> HIDE DEF u, w
  <2>5. u \in Sound /\ u.stack \in [Seats -> Nat]
    BY <2>3 DEF Keeps, Sound, TableType
  <2>6. pot \in Nat /\ SeatSum(u.stack) \in Nat /\ SeatSum(u.bond) \in Nat
    BY <2>5, OwedNat
  <2>7. stack \in [Seats -> Nat] /\ SeatSum(stack) = SeatSum(u.stack) + pot
    <3>1. u.stack \in [Seats -> Int] /\ u.stack[w] \in Nat
      BY <2>2, <2>5
    <3> HIDE DEF pot
    <3>2. SeatSum(stack) = SeatSum(u.stack) - u.stack[w] + (u.stack[w] + pot)
      BY <2>2, <2>6, <3>1, SumUpdate
    <3> QED BY <2>2, <2>5, <2>6, <3>1, <3>2
  <2> HIDE DEF stack
  <2>8. v \in Sound /\ v.stack = stack /\ v.bond = u.bond
    BY Zenon, <2>5, <2>7 DEF Sound, TableType
  <2> HIDE DEF v
  <2>9. Keeps(v, ClearHand(v)) /\ Owed(ClearHand(v)) = Owed(u)
    BY <2>6, <2>7, <2>8, ClearHandFact DEF Owed
  <2> QED BY <2>3, <2>4, <2>9 DEF Keeps
<1> QED BY <1>1, <1>2

\* The next seat to act is a seat, or none.
LEMMA NextActiveFact ==
    ASSUME NEW t \in Sound, NEW from \in -1..8
    PROVE  nextActiveToAct(t, from) \in -1..8
<1>1. NeedsToAct(t) \in SUBSET Seats
  BY DEF NeedsToAct, Live, Sound, TableType
<1>2. CASE NeedsToAct(t) = {}
  BY <1>2 DEF nextActiveToAct, Unset
<1>3. CASE NeedsToAct(t) # {}
  BY <1>1, <1>3, NextSeatFact DEF nextActiveToAct, Seats
<1> QED BY <1>2, <1>3

\* Advancing the hand, by folds or to the next street, owes no more.
LEMMA MaybeAdvanceFact ==
    ASSUME NEW t \in Sound
    PROVE  Keeps(t, maybeAdvance(t))
<1>1. CASE SeatCount(Live(t)) <= 1
  BY <1>1, CompleteByFoldsFact DEF maybeAdvance
<1>2. CASE ~(SeatCount(Live(t)) <= 1) /\ NeedsToAct(t) # {}
  <2> DEFINE a == nextActiveToAct(t, t.actionOn)
  <2>1. a \in -1..8
    BY NextActiveFact DEF Sound, TableType
  <2>2. maybeAdvance(t) = [t EXCEPT !.actionOn = a]
    BY <1>2 DEF maybeAdvance
  <2> HIDE DEF a
  <2>3. /\ maybeAdvance(t) \in Sound
        /\ maybeAdvance(t).stack = t.stack /\ maybeAdvance(t).bond = t.bond
        /\ maybeAdvance(t).totalCommit = t.totalCommit
    BY ZenonT(30), <2>1, <2>2 DEF Sound, TableType
  <2> QED BY <2>3, SameChips
<1>3. CASE ~(SeatCount(Live(t)) <= 1) /\ NeedsToAct(t) = {}
  <2> DEFINE u == returnUncalledStreetExcess(t)
             await == AwaitAfter[t.street]
             v == [u EXCEPT !.actionOn = Unset, !.phase = await]
  <2>1. Keeps(t, u)
    BY ReturnFact
  <2>2. maybeAdvance(t) = v
    BY <1>3 DEF maybeAdvance
  <2>3. await \in Phases
    <3>1. t.street \in Streets
      BY DEF Sound, TableType
    <3> QED BY <3>1 DEF Streets, AwaitAfter, Phases, Awaiting, BoardPhases
  <2> HIDE DEF u, await
  <2>4. v \in Sound /\ v.stack = u.stack /\ v.bond = u.bond /\ v.totalCommit = u.totalCommit
    <3>1. u \in Sound /\ Unset \in -1..8
      BY <2>1 DEF Keeps, Unset
    <3>2. v \in Sound
      BY Zenon, <2>3, <3>1 DEF Sound, TableType
    <3> QED BY <3>1, <3>2 DEF Sound, TableType
  <2>5. Keeps(u, v)
    BY Zenon, <2>1, <2>4, SameChips DEF Keeps
  <2> HIDE DEF v
  <2> QED BY <2>1, <2>2, <2>5, KeepsTransitive
<1> QED BY <1>1, <1>2, <1>3

\* Setting deadlines moves no chips.
LEMMA DeadlinesFact ==
    ASSUME NEW t \in Sound
    PROVE  Keeps(t, setDeadlines(t))
<1> DEFINE r == IF t.phase \in Awaiting THEN DealerTimeoutSecs ELSE Unset
           a == IF t.phase = "BETTING" /\ t.actionOn >= 0 THEN ActionTimeoutSecs ELSE Unset
           u == setDeadlines(t)
<1>1. r \in Int /\ a \in Int
  BY TableParams DEF Unset
<1>2. u = [t EXCEPT !.revealTimer = r, !.actionTimer = a]
  BY DEF setDeadlines
<1> HIDE DEF r, a, u
<1>3. u \in Sound /\ u.stack = t.stack /\ u.bond = t.bond /\ u.totalCommit = t.totalCommit
  BY Zenon, <1>1, <1>2 DEF Sound, TableType
<1> QED BY <1>3, SameChips DEF u

\* The whole of applyAction after the mover's own action owes no more.
LEMMA MovedFact ==
    ASSUME NEW t \in Sound
    PROVE  Keeps(t, Moved(t))
<1>1. Keeps(t, maybeAdvance(t)) /\ maybeAdvance(t) \in Sound
  BY MaybeAdvanceFact DEF Keeps
<1>2. Keeps(maybeAdvance(t), setDeadlines(maybeAdvance(t)))
  BY <1>1, DeadlinesFact
<1> QED BY <1>1, <1>2, KeepsTransitive DEF Moved

\* Revealing a board card moves no chips.
LEMMA RevealBoardFact ==
    ASSUME NEW t \in Sound, t.phase \in BoardPhases
    PROVE  Keeps(t, revealBoardCard(t))
<1> DEFINE u      == [t EXCEPT !.board = @ + 1]
           street == StreetOf[t.phase]
           await  == AwaitAfter[street]
<1>1. u \in Sound /\ u.stack = t.stack /\ u.bond = t.bond /\ u.totalCommit = t.totalCommit
  BY DEF Sound, TableType
<1>2. street \in Streets /\ await \in Phases /\ "BETTING" \in Phases
  BY DEF StreetOf, BoardPhases, AwaitAfter, Streets, Phases, Awaiting
<1>3. Keeps(t, u)
  BY Zenon, <1>1, SameChips
<1>4. CASE u.board # BoardSize[t.phase]
  BY <1>3, <1>4 DEF revealBoardCard
<1>5. CASE u.board = BoardSize[t.phase] /\ SeatCount(WithChips(u)) < 2
  <2> DEFINE v == [u EXCEPT !.street = street, !.phase = await, !.actionOn = Unset]
  <2>1. revealBoardCard(t) = v
    BY <1>5 DEF revealBoardCard
  <2> HIDE DEF u, street, await
  <2>2. v \in Sound /\ v.stack = u.stack /\ v.bond = u.bond /\ v.totalCommit = u.totalCommit
    <3>1. Unset \in -1..8
      BY DEF Unset
    <3>2. v \in Sound
      BY Zenon, <1>1, <1>2, <3>1 DEF Sound, TableType
    <3> QED BY <1>1, <3>2 DEF Sound, TableType
  <2> HIDE DEF v
  <2> QED BY <1>1, <1>3, <2>1, <2>2, SameChips, KeepsTransitive
<1>6. CASE u.board = BoardSize[t.phase] /\ ~(SeatCount(WithChips(u)) < 2)
  <2> DEFINE v     == [u EXCEPT !.street = street, !.phase = "BETTING"]
             rest  == [s \in Seats |-> Unset]
             w     == [v EXCEPT !.betTo = 0, !.minRaise = BigBlind, !.interval = 0,
                                !.streetCommit = Zero, !.lastActed = rest]
             a     == nextActiveToAct(w, w.button)
             x     == [w EXCEPT !.actionOn = a]
  <2>1. revealBoardCard(t) = x
    BY <1>6 DEF revealBoardCard, resetPostflopBettingRound
  <2> HIDE DEF u, street, await
  <2>2. v \in Sound /\ v.stack = u.stack /\ v.bond = u.bond /\ v.totalCommit = u.totalCommit
    BY Zenon, <1>1, <1>2 DEF Sound, TableType
  <2>3. rest \in [Seats -> Int] /\ Zero \in [Seats -> Nat] /\ BigBlind \in Nat
        /\ \A s \in Seats : Zero[s] = 0
    BY TableParams DEF Unset, Zero
  <2> HIDE DEF v, rest
  <2>4. w \in Sound /\ w.stack = v.stack /\ w.bond = v.bond /\ w.totalCommit = v.totalCommit
    <3>1. w \in TableType
      BY Zenon, <2>2, <2>3 DEF Sound, TableType
    <3>2. /\ w.stack = v.stack /\ w.bond = v.bond /\ w.totalCommit = v.totalCommit
          /\ w.streetCommit = Zero
      BY <2>2 DEF Sound, TableType
    <3> HIDE DEF w
    <3>3. \A s \in Seats : w.streetCommit[s] <= w.totalCommit[s]
      <4> TAKE s \in Seats
      <4>1. w.totalCommit[s] \in Nat /\ w.streetCommit[s] = 0
        BY <2>3, <3>1, <3>2 DEF TableType
      <4> QED BY <4>1
    <3> QED BY <3>1, <3>2, <3>3 DEF Sound
  <2> HIDE DEF w
  <2>5. a \in -1..8
    <3>1. w.button \in -1..8
      BY <2>4 DEF Sound, TableType
    <3> QED BY <2>4, <3>1, NextActiveFact
  <2> HIDE DEF a
  <2>6. x \in Sound /\ x.stack = w.stack /\ x.bond = w.bond /\ x.totalCommit = w.totalCommit
    BY Zenon, <2>4, <2>5 DEF Sound, TableType
  <2> HIDE DEF x
  <2> QED BY <1>1, <2>1, <2>2, <2>4, <2>6, SameChips
<1> QED BY <1>4, <1>5, <1>6

\* Paying `won` on top of the stacks and dropping the hand is sound when `won`
\* is covered by the pot.
LEMMA PayFact ==
    ASSUME NEW t \in Sound, NEW won \in [Seats -> Nat],
           SeatSum(won) <= SeatSum(t.totalCommit)
    PROVE  Keeps(t, ClearHand([t EXCEPT !.stack = [s \in Seats |-> t.stack[s] + won[s]]]))
<1> DEFINE stack == [s \in Seats |-> t.stack[s] + won[s]]
           u     == [t EXCEPT !.stack = stack]
<1>1. stack \in [Seats -> Nat] /\ t.stack \in [Seats -> Int] /\ won \in [Seats -> Int]
  BY DEF Sound, TableType
<1>2. SeatSum(stack) = SeatSum(t.stack) + SeatSum(won)
  BY Zenon, <1>1, SumAdd
<1> HIDE DEF stack
<1>3. u \in Sound /\ u.stack = stack /\ u.bond = t.bond
  BY SMTT(30), <1>1 DEF Sound, TableType
<1> HIDE DEF u
<1>4. /\ ClearHand(u) \in Sound
      /\ Owed(ClearHand(u)) = SeatSum(stack) + SeatSum(t.bond)
  BY <1>3, ClearHandFact DEF Keeps
<1>5. Owed(ClearHand(u)) <= Owed(t)
  <2>1. SeatSum(won) \in Nat
    BY SumNat
  <2> QED BY <1>2, <1>4, <2>1, OwedNat DEF Owed
<1> QED BY <1>4, <1>5 DEF Keeps, u, stack

\* The showdown pays out at most the pot.
LEMMA SettleFact ==
    ASSUME NEW t \in Sound, NEW rank
    PROVE  Keeps(t, settleKnownShowdown(t, rank))
<1> DEFINE won == Payout(t.totalCommit, Live(t), rank)
<1>1. t.totalCommit \in [Seats -> Nat] /\ Live(t) \in SUBSET Seats
  BY DEF Live, Sound, TableType
<1>2. won \in [Seats -> Nat] /\ SeatSum(won) <= SeatSum(t.totalCommit)
  BY <1>1, PayoutWithinPot
<1> HIDE DEF won
<1>3. Keeps(t, ClearHand(t))
  BY ClearHandFact
<1>4. Keeps(t, ClearHand([t EXCEPT !.stack = [s \in Seats |-> t.stack[s] + won[s]]]))
  BY Zenon, <1>2, PayFact
<1> QED BY <1>3, <1>4 DEF settleKnownShowdown, won

\* Refunding every commitment pays out the pot.
LEMMA AbortFact ==
    ASSUME NEW t \in Sound
    PROVE  Keeps(t, abortHandRefundAllCommits(t))
<1>1. t.totalCommit \in [Seats -> Nat] /\ SeatSum(t.totalCommit) <= SeatSum(t.totalCommit)
  BY OwedNat DEF Sound, TableType
<1> QED BY Zenon, <1>1, PayFact DEF abortHandRefundAllCommits

\* Two funded seats make the set of funded seats nonempty.
LEMMA FundedFact ==
    ASSUME NEW t \in Sound
    PROVE  /\ occupiedSeatsWithStack(t) \in SUBSET Seats
           /\ SeatCount(occupiedSeatsWithStack(t)) \in 0..9
           /\ SeatCount(occupiedSeatsWithStack(t)) >= 2 => occupiedSeatsWithStack(t) # {}
BY CountFact, CountEmpty DEF occupiedSeatsWithStack

\* With a funded seat, nextOccupiedSeat finds a seat.
LEMMA NextOccupiedFact ==
    ASSUME NEW t \in Sound, occupiedSeatsWithStack(t) # {}, NEW from \in -1..8
    PROVE  nextOccupiedSeat(t, from) \in Seats
BY FundedFact, NextSeatFact DEF nextOccupiedSeat

\* With a funded seat, blindSeats finds seats.
LEMMA BlindSeatsFact ==
    ASSUME NEW t \in Sound, occupiedSeatsWithStack(t) # {}
    PROVE  /\ bbSeat(t) \in Seats
           /\ t.button \in Seats => sbSeat(t) \in Seats
<1>1. t.button \in -1..8
  BY DEF Sound, TableType
<1>2. nextOccupiedSeat(t, t.button) \in Seats
  BY <1>1, NextOccupiedFact
<1>3. sbSeat(t) \in -1..8 /\ (t.button \in Seats => sbSeat(t) \in Seats)
  BY <1>1, <1>2 DEF sbSeat, Seats
<1> QED BY <1>3, NextOccupiedFact DEF bbSeat

\* Starting a hand moves the blinds into the pot and owes the same.
LEMMA DealInFact ==
    ASSUME NEW t \in Sound, occupiedSeatsWithStack(t) # {}
    PROVE  Keeps(t, DealIn(t))
<1> DEFINE funded == occupiedSeatsWithStack(t)
           button == IF t.button < 0 THEN NextSeat(8, funded) ELSE nextOccupiedSeat(t, t.button)
           moved  == [t EXCEPT !.button = button]
           seated == ClearHand(moved)
           bb     == bbSeat(seated)
           sb     == sbSeat(seated)
           fresh  == [seated EXCEPT !.phase = "SHUFFLE", !.bb = bb, !.minRaise = BigBlind,
                                    !.inHand = funded]
           first  == postBlindCommit(fresh, sb, SmallBlind)
           posted == postBlindCommit(first, bb, BigBlind)
           opened == [posted EXCEPT !.betTo = posted.streetCommit[bb]]
           final  == [opened EXCEPT !.actionOn = nextActiveToAct(opened, bb)]
<1>0. DealIn(t) = final
  BY DEF DealIn
<1>1. button \in Seats /\ funded \in SUBSET Seats
  <2>1. t.button \in -1..8 /\ funded \in SUBSET Seats
    BY FundedFact DEF Sound, TableType
  <2> QED BY <2>1, NextSeatFact, NextOccupiedFact
<1> HIDE DEF button
<1>2. Keeps(t, moved) /\ moved \in Sound /\ moved.stack = t.stack /\ moved.button = button
  <2>1. moved \in Sound
    BY <1>1 DEF Sound, TableType, Seats
  <2>2. /\ moved.stack = t.stack /\ moved.bond = t.bond /\ moved.button = button
        /\ moved.totalCommit = t.totalCommit
    BY DEF Sound, TableType
  <2> QED BY Zenon, <2>1, <2>2, SameChips
<1> HIDE DEF moved
<1>3. Keeps(moved, seated) /\ seated \in Sound /\ seated.stack = t.stack /\ seated.button = button
  BY Zenon, <1>2, ClearHandFact DEF Keeps, ClearHand, Idle
<1>4. bb \in Seats /\ sb \in Seats
  <2>1. occupiedSeatsWithStack(seated) = funded
    BY <1>3 DEF occupiedSeatsWithStack
  <2> HIDE DEF seated, funded
  <2> QED BY <1>1, <1>3, <2>1, BlindSeatsFact DEF funded
<1> HIDE DEF seated, bb, sb, funded
<1>5. Keeps(seated, fresh) /\ fresh \in Sound
  <2>1. fresh \in Sound
    <3>1. bb \in -1..8 /\ BigBlind \in Nat /\ "SHUFFLE" \in Phases
      BY <1>4, TableParams DEF Seats, Phases
    <3> QED BY Zenon, <1>1, <1>3, <3>1 DEF Sound, TableType
  <2>2. /\ fresh.stack = seated.stack /\ fresh.bond = seated.bond
        /\ fresh.totalCommit = seated.totalCommit
    BY <1>3 DEF Sound, TableType
  <2> QED BY Zenon, <1>3, <2>1, <2>2, SameChips
<1> HIDE DEF fresh
<1>6. Keeps(fresh, first) /\ first \in Sound
  BY <1>4, <1>5, PostBlindFact, TableParams DEF Keeps
<1> HIDE DEF first
<1>7. Keeps(first, posted) /\ posted \in Sound
  BY <1>4, <1>6, PostBlindFact, TableParams DEF Keeps
<1> HIDE DEF posted
<1>8. Keeps(posted, opened) /\ opened \in Sound
  <2> DEFINE n == posted.streetCommit[bb]
  <2>1. n \in Nat
    BY <1>4, <1>7 DEF Sound, TableType
  <2> HIDE DEF n
  <2>2. opened \in Sound
    BY Zenon, <1>7, <2>1 DEF Sound, TableType, n
  <2>3. /\ opened.stack = posted.stack /\ opened.bond = posted.bond
        /\ opened.totalCommit = posted.totalCommit
    BY <1>7 DEF Sound, TableType
  <2> QED BY Zenon, <1>7, <2>2, <2>3, SameChips
<1> HIDE DEF opened
<1>9. Keeps(opened, final)
  <2> DEFINE a == nextActiveToAct(opened, bb)
  <2>1. a \in -1..8
    BY <1>4, <1>8, NextActiveFact DEF Seats
  <2> HIDE DEF a
  <2>2. final \in Sound
    BY Zenon, <1>8, <2>1 DEF Sound, TableType, a
  <2>3. /\ final.stack = opened.stack /\ final.bond = opened.bond
        /\ final.totalCommit = opened.totalCommit
    BY <1>8 DEF Sound, TableType
  <2> QED BY Zenon, <1>8, <2>2, <2>3, SameChips
<1> HIDE DEF final
<1>10. Keeps(t, seated)
  BY <1>2, <1>3, KeepsTransitive
<1>11. Keeps(t, first)
  BY <1>5, <1>6, <1>10, KeepsTransitive
<1>12. Keeps(t, opened)
  BY <1>7, <1>8, <1>11, KeepsTransitive
<1> QED BY <1>0, <1>9, <1>12, KeepsTransitive

\* What a table owes after its players, stacks and bonds are replaced.
LEMMA SeatChangeFact ==
    ASSUME NEW t \in Sound, NEW player \in [Seats -> Players \cup {NoPlayer}],
           NEW stack \in [Seats -> Nat], NEW bond \in [Seats -> Nat]
    PROVE  LET u == [t EXCEPT !.player = player, !.stack = stack, !.bond = bond]
           IN  /\ u \in Sound
               /\ Owed(u) = SeatSum(stack) + SeatSum(bond) + SeatSum(t.totalCommit)
<1> DEFINE u == [t EXCEPT !.player = player, !.stack = stack, !.bond = bond]
<1>1. u \in Sound
  BY Zenon DEF Sound, TableType
<1>2. u.stack = stack /\ u.bond = bond /\ u.totalCommit = t.totalCommit
  BY DEF Sound, TableType
<1> HIDE DEF u
<1>3. Owed(u) = SeatSum(stack) + SeatSum(bond) + SeatSum(t.totalCommit)
  BY <1>2 DEF Owed
<1> QED BY <1>1, <1>3 DEF u

\* Emptied seats take their stacks and bonds with them.
LEMMA VacateFact ==
    ASSUME NEW t \in Sound, NEW S \in SUBSET Seats
    PROVE  LET u == SetTable(Vacate(t, S))
               b == [s \in Seats |-> IF s \in S THEN t.bond[s] ELSE 0]
           IN  /\ u \in Sound
               /\ Owed(u) + SeatSum(StacksOf(t, S)) + SeatSum(b) <= Owed(t)
               /\ SeatSum(StacksOf(t, S)) \in Nat /\ SeatSum(b) \in Nat
<1> DEFINE player == [s \in Seats |-> IF s \in S THEN NoPlayer ELSE t.player[s]]
           paid   == StacksOf(t, S)
           b      == [s \in Seats |-> IF s \in S THEN t.bond[s] ELSE 0]
           stack  == [s \in Seats |-> IF player[s] = NoPlayer THEN 0 ELSE t.stack[s]]
           bond   == [s \in Seats |-> IF player[s] = NoPlayer THEN 0 ELSE t.bond[s]]
           left   == [s \in Seats |-> t.stack[s] - paid[s]]
           kept   == [s \in Seats |-> t.bond[s] - b[s]]
           u      == [t EXCEPT !.player = player, !.stack = stack, !.bond = bond]
<1>1. /\ t.player \in [Seats -> Players \cup {NoPlayer}]
      /\ t.stack \in [Seats -> Nat] /\ t.bond \in [Seats -> Nat]
  BY DEF Sound, TableType
<1>2. player \in [Seats -> Players \cup {NoPlayer}]
  BY <1>1
<1>3. /\ stack \in [Seats -> Nat] /\ bond \in [Seats -> Nat]
      /\ paid \in [Seats -> Nat] /\ b \in [Seats -> Nat]
      /\ left \in [Seats -> Int] /\ kept \in [Seats -> Int]
  BY <1>1 DEF StacksOf
<1>4. \A s \in Seats : stack[s] <= left[s] /\ bond[s] <= kept[s]
  BY <1>1 DEF StacksOf
<1>5. SetTable(Vacate(t, S)) = u
  <2>1. /\ Vacate(t, S).player = player
        /\ Vacate(t, S).stack = t.stack /\ Vacate(t, S).bond = t.bond
    BY DEF Vacate, Sound, TableType
  <2>2. SetTable(Vacate(t, S)) = [Vacate(t, S) EXCEPT !.stack = stack, !.bond = bond]
    BY <2>1 DEF SetTable
  <2>3. Vacate(t, S) = [t EXCEPT !.player = player]
    BY DEF Vacate
  <2> HIDE DEF player, stack, bond
  <2> QED BY <2>2, <2>3 DEF Sound, TableType
<1>6. SeatSum(left) = SeatSum(t.stack) - SeatSum(paid) /\ SeatSum(kept) = SeatSum(t.bond) - SeatSum(b)
  <2> HIDE DEF paid, b
  <2>1. t.stack \in [Seats -> Int] /\ t.bond \in [Seats -> Int]
        /\ paid \in [Seats -> Int] /\ b \in [Seats -> Int]
    BY <1>1, <1>3
  <2> QED BY Zenon, <2>1, SumSub
<1> HIDE DEF player, stack, bond, left, kept, paid, b
<1>7. u \in Sound /\ Owed(u) = SeatSum(stack) + SeatSum(bond) + SeatSum(t.totalCommit)
  BY Zenon, <1>2, <1>3, SeatChangeFact
<1> HIDE DEF u
<1>8. SeatSum(stack) <= SeatSum(left) /\ SeatSum(bond) <= SeatSum(kept)
  <2>1. stack \in [Seats -> Int] /\ bond \in [Seats -> Int]
    BY <1>3
  <2> QED BY <1>3, <1>4, <2>1, SumMono
<1>9. /\ SeatSum(stack) \in Nat /\ SeatSum(bond) \in Nat
      /\ SeatSum(paid) \in Nat /\ SeatSum(b) \in Nat
  BY <1>3, SumNat
<1>10. Owed(u) + SeatSum(paid) + SeatSum(b) <= Owed(t)
  BY <1>6, <1>7, <1>8, <1>9, OwedNat DEF Owed
<1> QED BY <1>5, <1>7, <1>9, <1>10 DEF paid, b

\* The end of Act and Tick pays out of a balance that covers the table, and
\* leaves one that covers what is stored.
LEMMA ConcludeFact ==
    ASSUME NEW t \in Sound, NEW balance \in Nat, Owed(t) <= balance,
           TypeOK, Conclude(t, balance)
    PROVE  TypeOK' /\ table' \in Sound /\ Solvent'
<1> DEFINE out == Bondless(t)
<1>1. out \in SUBSET Seats
  BY DEF Bondless
<1> HIDE DEF out
<1>2. /\ table' = SetTable(Vacate(t, out)) /\ escrow' = balance - SeatSum(StacksOf(t, out))
      /\ balance >= SeatSum(StacksOf(t, out))
  BY DEF Conclude, out
<1>3. /\ table' \in Sound
      /\ escrow' \in Nat /\ escrow' >= Owed(table')
  <2> DEFINE u == SetTable(Vacate(t, out))
             n == SeatSum(StacksOf(t, out))
             b == SeatSum([s \in Seats |-> IF s \in out THEN t.bond[s] ELSE 0])
  <2>1. u \in Sound /\ Owed(u) + n + b <= Owed(t) /\ n \in Nat /\ b \in Nat
    BY Zenon, <1>1, VacateFact
  <2> HIDE DEF u, n, b
  <2>2. Owed(u) \in Nat /\ Owed(t) \in Nat
    BY <2>1, OwedNat
  <2>3. table' = u /\ escrow' = balance - n /\ balance >= n
    BY <1>2 DEF u, n
  <2> QED BY <2>1, <2>2, <2>3
<1>4. wallet' \in [Players -> Nat]
  <2>1. ASSUME NEW p \in Players
        PROVE  SeatSum(StacksOf(t, out \cap SeatsOf(t, p))) \in Nat
    <3>1. out \cap SeatsOf(t, p) \in SUBSET Seats
      BY <1>1
    <3> QED BY Zenon, <3>1, VacateFact
  <2>2. wallet' = [p \in Players |-> wallet[p] + SeatSum(StacksOf(t, out \cap SeatsOf(t, p)))]
    BY DEF Conclude, out
  <2> QED BY <2>1, <2>2 DEF TypeOK
<1>5. cooldown' \in Nat /\ hands' \in Nat /\ dealtTo' \in [Seats -> Players \cup {NoPlayer}]
  BY TableParams DEF Conclude, TypeOK, Nobody
<1>6. table' \in TableType
  BY <1>3 DEF Sound
<1> QED BY <1>3, <1>4, <1>5, <1>6 DEF TypeOK, Solvent

\* A call of x/dealer that owes no more keeps the account solvent.
LEMMA DealerStoresFact ==
    ASSUME NEW t, Keeps(table, t), table \in Sound, TypeOK, Solvent, DealerStores(t)
    PROVE  TypeOK' /\ table' \in Sound /\ Solvent'
<1>1. Keeps(t, SetTable(t)) /\ t \in Sound
  BY SetTableFact DEF Keeps
<1>2. table' \in Sound /\ Owed(table') <= Owed(table)
  BY <1>1, KeepsTransitive DEF DealerStores, Keeps
<1>3. table' \in TableType
  BY <1>2 DEF Sound
<1>4. /\ escrow' \in Nat /\ wallet' \in [Players -> Nat] /\ cooldown' \in Nat /\ hands' \in Nat
      /\ escrow' = escrow
  BY DEF DealerStores, TypeOK
<1>5. dealtTo' \in [Seats -> Players \cup {NoPlayer}]
  BY DEF DealerStores, TypeOK, Nobody
<1>6. escrow' >= Owed(table')
  BY <1>2, <1>4, OwedNat DEF Solvent, TypeOK
<1> QED BY <1>2, <1>3, <1>4, <1>5, <1>6 DEF TypeOK, Solvent

\* autoAssignSeat finds a seat when one is empty.
LEMMA EmptySeatFact ==
    ASSUME NEW t \in Sound, EmptySeats(t) # {}
    PROVE  autoAssignSeat(t) \in Seats
<1> DEFINE from == IF t.button < 0 /\ t.phase = "NONE" THEN 8
                   ELSE IF t.phase # "NONE" THEN t.bb
                   ELSE IF SeatCount(occupiedSeatsWithStack(t)) >= 2 THEN bbSeat(t)
                   ELSE t.button
<1>1. t.bb \in -1..8 /\ t.button \in -1..8
  BY DEF Sound, TableType
<1>2. SeatCount(occupiedSeatsWithStack(t)) >= 2 => bbSeat(t) \in -1..8
  BY FundedFact, BlindSeatsFact DEF Seats
<1>3. from \in -1..8
  BY <1>1, <1>2
<1>4. autoAssignSeat(t) = NextSeat(from, EmptySeats(t))
  BY DEF autoAssignSeat
<1>5. EmptySeats(t) \in SUBSET Seats
  BY DEF EmptySeats
<1> HIDE DEF from
<1>6. NextSeat(from, EmptySeats(t)) \in EmptySeats(t)
  BY <1>3, <1>5, NextSeatFact
<1> QED BY <1>4, <1>5, <1>6

\* seatOfPlayer finds the seat of a seated player.
LEMMA SeatOfPlayerFact ==
    ASSUME NEW t, NEW p, SeatsOf(t, p) # {}
    PROVE  seatOfPlayer(t, p) \in Seats
<1>1. SeatsOf(t, p) \in SUBSET Seats
  BY DEF SeatsOf
<1> QED BY <1>1, NextSeatFact DEF seatOfPlayer

\* What every reachable state satisfies: well formed, no commitment of a street
\* beyond the commitment of the hand, everything owed is held.
IInv == TypeOK /\ table \in Sound /\ Solvent

\* Sit escrows the buy-in and the bond that the table then owes.
LEMMA SitStep ==
    ASSUME IInv, NEW p \in Players, NEW n \in Amounts, Sit(p, n)
    PROVE  IInv'
<1> DEFINE s      == autoAssignSeat(table)
           player == [table.player EXCEPT ![s] = p]
           stack  == [table.stack EXCEPT ![s] = n]
           bond   == [table.bond EXCEPT ![s] = PlayerBond]
           u      == [table EXCEPT !.player = player, !.stack = stack, !.bond = bond]
<1>1. s \in Seats
  BY EmptySeatFact DEF Sit, IInv
<1>2. n \in Nat /\ PlayerBond \in Nat /\ table \in Sound /\ table \in TableType
  BY TableParams DEF IInv, TypeOK
<1>3. table' = SetTable(u)
  BY <1>2 DEF Sit, TableType
<1> HIDE DEF s
<1>4. /\ table.player \in [Seats -> Players \cup {NoPlayer}]
      /\ table.stack \in [Seats -> Nat] /\ table.bond \in [Seats -> Nat]
  BY <1>2 DEF TableType
<1>5. /\ player \in [Seats -> Players \cup {NoPlayer}]
      /\ stack \in [Seats -> Nat] /\ bond \in [Seats -> Nat]
  BY <1>1, <1>2, <1>4
<1>6. SeatSum(stack) <= SeatSum(table.stack) + n /\ SeatSum(bond) <= SeatSum(table.bond) + PlayerBond
  <2>1. table.stack \in [Seats -> Int] /\ table.bond \in [Seats -> Int]
    BY <1>4
  <2>2. /\ SeatSum(stack) = SeatSum(table.stack) - table.stack[s] + n
        /\ SeatSum(bond) = SeatSum(table.bond) - table.bond[s] + PlayerBond
    BY <1>1, <1>2, <2>1, SumUpdate
  <2>3. table.stack[s] \in Nat /\ table.bond[s] \in Nat
    BY <1>1, <1>4
  <2> QED BY <1>2, <2>2, <2>3, OwedNat
<1> HIDE DEF player, stack, bond
<1>7. u \in Sound /\ Owed(u) = SeatSum(stack) + SeatSum(bond) + SeatSum(table.totalCommit)
  BY Zenon, <1>2, <1>5, SeatChangeFact
<1> HIDE DEF u
<1>8. table' \in Sound /\ Owed(table') <= Owed(u)
  BY <1>3, <1>7, SetTableFact DEF Keeps
<1>9. Owed(u) <= Owed(table) + n + PlayerBond
  <2>1. SeatSum(stack) \in Nat /\ SeatSum(bond) \in Nat
    BY <1>5, SumNat
  <2> QED BY <1>2, <1>6, <1>7, <2>1, OwedNat DEF Owed
<1>10. escrow' = escrow + n + PlayerBond /\ escrow \in Nat /\ escrow >= Owed(table)
  BY DEF Sit, IInv, TypeOK, Solvent
<1>11. escrow' \in Nat /\ escrow' >= Owed(table')
  BY <1>2, <1>7, <1>8, <1>9, <1>10, OwedNat
<1>12. wallet' \in [Players -> Nat]
  <2>1. wallet[p] - (n + PlayerBond) \in Nat
    BY <1>2 DEF Sit, IInv, TypeOK
  <2> QED BY <2>1 DEF Sit, IInv, TypeOK
<1>13. cooldown' = cooldown /\ hands' = hands /\ dealtTo' = dealtTo
  BY DEF Sit
<1> QED BY <1>8, <1>11, <1>12, <1>13 DEF IInv, TypeOK, Solvent, Sound

\* Rebuy escrows what it adds to the stack.
LEMMA RebuyStep ==
    ASSUME IInv, NEW p \in Players, NEW n \in Amounts, Rebuy(p, n)
    PROVE  IInv'
<1> DEFINE s      == seatOfPlayer(table, p)
           stack  == [table.stack EXCEPT ![s] = @ + n]
           u      == [table EXCEPT !.player = table.player, !.stack = stack, !.bond = table.bond]
<1>1. s \in Seats
  BY SeatOfPlayerFact DEF Rebuy
<1>2. n \in Nat /\ table \in Sound /\ table \in TableType
  BY TableParams DEF IInv, TypeOK
<1>3. table' = SetTable(u)
  BY Zenon, <1>2 DEF Rebuy, TableType
<1> HIDE DEF s
<1>4. /\ table.player \in [Seats -> Players \cup {NoPlayer}]
      /\ table.stack \in [Seats -> Nat] /\ table.bond \in [Seats -> Nat]
  BY <1>2 DEF TableType
<1>5. stack \in [Seats -> Nat] /\ SeatSum(stack) = SeatSum(table.stack) + n
  <2>1. table.stack[s] \in Nat /\ table.stack[s] + n \in Int /\ table.stack \in [Seats -> Int]
    BY <1>1, <1>2, <1>4
  <2>2. SeatSum(stack) = SeatSum(table.stack) - table.stack[s] + (table.stack[s] + n)
    BY <1>1, <2>1, SumUpdate
  <2>3. stack \in [Seats -> Nat]
    BY <1>1, <1>2, <1>4
  <2> QED BY <1>2, <2>1, <2>2, <2>3, OwedNat
<1> HIDE DEF stack
<1>7. u \in Sound /\ Owed(u) = SeatSum(stack) + SeatSum(table.bond) + SeatSum(table.totalCommit)
  BY Zenon, <1>2, <1>4, <1>5, SeatChangeFact
<1> HIDE DEF u
<1>8. table' \in Sound /\ Owed(table') <= Owed(u)
  BY <1>3, <1>7, SetTableFact DEF Keeps
<1>9. Owed(u) = Owed(table) + n
  BY <1>2, <1>5, <1>7, OwedNat DEF Owed
<1>10. escrow' = escrow + n /\ escrow \in Nat /\ escrow >= Owed(table)
  BY DEF Rebuy, IInv, TypeOK, Solvent
<1>11. escrow' \in Nat /\ escrow' >= Owed(table')
  BY <1>2, <1>7, <1>8, <1>9, <1>10, OwedNat
<1>12. wallet' \in [Players -> Nat]
  <2>1. wallet[p] - n \in Nat
    BY <1>2 DEF Rebuy, IInv, TypeOK
  <2> QED BY <2>1 DEF Rebuy, IInv, TypeOK
<1>13. cooldown' = cooldown /\ hands' = hands /\ dealtTo' = dealtTo
  BY DEF Rebuy
<1> QED BY <1>8, <1>11, <1>12, <1>13 DEF IInv, TypeOK, Solvent, Sound

\* Leave pays what the seat takes out of the table.
LEMMA LeaveStep ==
    ASSUME IInv, NEW p \in Players, Leave(p)
    PROVE  IInv'
<1> DEFINE s == seatOfPlayer(table, p)
           u == SetTable(Vacate(table, {s}))
<1>1. s \in Seats /\ table \in Sound /\ table \in TableType
  BY SeatOfPlayerFact DEF Leave, IInv, TypeOK
<1>2. table' = u
  <2>1. table' = SetTable([table EXCEPT !.player[s] = NoPlayer])
    BY DEF Leave
  <2> HIDE DEF s
  <2>2. [table EXCEPT !.player[s] = NoPlayer] = Vacate(table, {s})
    BY <1>1 DEF Vacate, TableType
  <2> QED BY <2>1, <2>2
<1>3. /\ escrow' = escrow - (table.stack[s] + table.bond[s])
      /\ escrow >= table.stack[s] + table.bond[s]
      /\ wallet' = [wallet EXCEPT ![p] = @ + (table.stack[s] + table.bond[s])]
      /\ cooldown' = cooldown /\ hands' = hands /\ dealtTo' = dealtTo
  BY DEF Leave
<1> HIDE DEF s
<1>4. table.stack \in [Seats -> Nat] /\ table.bond \in [Seats -> Nat]
  BY <1>1 DEF TableType
<1>5. u \in Sound /\ Owed(u) + table.stack[s] + table.bond[s] <= Owed(table)
  <2> DEFINE b == [o \in Seats |-> IF o \in {s} THEN table.bond[o] ELSE 0]
  <2>1. table.stack \in [Seats -> Int] /\ table.bond \in [Seats -> Int] /\ {s} \in SUBSET Seats
    BY <1>1, <1>4
  <2>2. SeatSum(StacksOf(table, {s})) = table.stack[s] /\ SeatSum(b) = table.bond[s]
    BY Zenon, <1>1, <2>1, SumSingle DEF StacksOf
  <2>3. u \in Sound /\ Owed(u) + SeatSum(StacksOf(table, {s})) + SeatSum(b) <= Owed(table)
    BY Zenon, <1>1, <2>1, VacateFact
  <2> HIDE DEF u, b
  <2> QED BY <2>2, <2>3
<1> HIDE DEF u
<1>6. table.stack[s] \in Nat /\ table.bond[s] \in Nat
  BY <1>1, <1>4
<1>7. escrow' \in Nat /\ escrow' >= Owed(table')
  BY <1>1, <1>2, <1>3, <1>5, <1>6, OwedNat DEF IInv, TypeOK, Solvent
<1>8. wallet' \in [Players -> Nat]
  BY <1>3, <1>6 DEF IInv, TypeOK
<1> QED BY <1>2, <1>3, <1>5, <1>7, <1>8 DEF IInv, TypeOK, Solvent, Sound

\* StartHand moves no coins and owes no more.
LEMMA StartHandStep ==
    ASSUME IInv, NEW p \in Players, StartHand(p)
    PROVE  IInv'
<1>1. table \in Sound /\ table \in TableType /\ occupiedSeatsWithStack(table) # {}
  BY FundedFact DEF StartHand, IInv, TypeOK
<1>2. Keeps(table, DealIn(table)) /\ DealIn(table) \in Sound
  BY <1>1, DealInFact DEF Keeps
<1>3. table' \in Sound /\ Owed(table') <= Owed(table)
  BY <1>1, <1>2, SetTableFact, KeepsTransitive DEF StartHand, Keeps
<1>4. /\ escrow' = escrow /\ wallet' = wallet /\ cooldown' = cooldown
      /\ hands' = hands + 1
  BY Zenon DEF StartHand
<1>5. dealtTo' \in [Seats -> Players \cup {NoPlayer}]
  BY <1>1 DEF StartHand, TableType
<1>6. escrow' >= Owed(table')
  BY <1>1, <1>3, <1>4, OwedNat DEF IInv, TypeOK, Solvent
<1> QED BY <1>3, <1>4, <1>5, <1>6 DEF IInv, TypeOK, Solvent, Sound

\* Whatever the mover's own action made of the table, the rest of the handler
\* keeps the account solvent.
LEMMA ActStep ==
    ASSUME IInv, NEW p, NEW t, Keeps(table, t), Act(p, t)
    PROVE  IInv'
<1>1. table \in Sound /\ t \in Sound /\ escrow \in Nat /\ Owed(table) <= escrow
  BY OwedNat DEF IInv, Keeps, TypeOK, Solvent
<1>2. Keeps(t, Moved(t)) /\ Moved(t) \in Sound
  BY <1>1, MovedFact DEF Keeps
<1>3. Keeps(Moved(t), SetTable(Moved(t)))
  BY <1>2, SetTableFact
<1>4. Keeps(table, SetTable(Moved(t)))
  BY <1>1, <1>2, <1>3, KeepsTransitive
<1>5. SetTable(Moved(t)) \in Sound /\ Owed(SetTable(Moved(t))) <= escrow
  BY <1>1, <1>4, OwedNat DEF Keeps
<1>6. Conclude(SetTable(Moved(t)), escrow)
  BY DEF Act
<1> QED BY <1>1, <1>5, <1>6, ConcludeFact DEF IInv

\* A hand that waits for an action waits for a seat.
LEMMA ActorFact ==
    ASSUME IInv, CanAct(table)
    PROVE  table.actionOn \in Seats /\ table \in Sound
BY DEF IInv, CanAct, Live, Sound, TableType

\* A tick moves up to one big blind of the bond out of the account and out of
\* what the table owes.
LEMMA TickStep ==
    ASSUME IInv, Tick
    PROVE  IInv'
<1> DEFINE s    == table.actionOn
           n    == timeoutSlash(table)
           bond == [table.bond EXCEPT ![s] = @ - n]
           u    == [table EXCEPT !.player = table.player, !.stack = table.stack, !.bond = bond]
           v    == IF toCall(u, s) = 0 THEN applyCheck(u, s) ELSE applyFold(u, s)
           w    == SetTable(Moved(v))
<1>1. s \in Seats /\ table \in Sound /\ table \in TableType
  BY ActorFact DEF Tick, TickDue, IInv, TypeOK
<1>2. /\ table.player \in [Seats -> Players \cup {NoPlayer}]
      /\ table.stack \in [Seats -> Nat] /\ table.bond \in [Seats -> Nat]
  BY <1>1 DEF TableType
<1>3. n \in Nat /\ n <= table.bond[s]
  <2>1. table.bond[s] \in Nat
    BY <1>1, <1>2
  <2> QED BY <2>1, TableParams DEF timeoutSlash, Lesser
<1>4. Ticked(table) = Moved(v)
  <2>1. [table EXCEPT !.bond[s] = @ - n] = u
    BY Zenon, <1>1 DEF TableType
  <2> QED BY <2>1 DEF Ticked
<1>5. Conclude(w, escrow - n) /\ escrow >= n
  BY <1>4 DEF Tick, TickDue
<1> HIDE DEF n, s
<1>6. bond \in [Seats -> Nat] /\ SeatSum(bond) = SeatSum(table.bond) - n
  <2>1. /\ table.bond[s] \in Nat /\ table.bond[s] - n \in Nat /\ table.bond \in [Seats -> Int]
        /\ table.bond[s] - n \in Int
    BY <1>1, <1>2, <1>3
  <2>2. SeatSum(bond) = SeatSum(table.bond) - table.bond[s] + (table.bond[s] - n)
    BY <1>1, <2>1, SumUpdate
  <2>3. bond \in [Seats -> Nat]
    BY <1>1, <1>2, <2>1
  <2> QED BY <1>1, <1>3, <2>1, <2>2, <2>3, OwedNat
<1> HIDE DEF bond
<1>7. u \in Sound /\ Owed(u) = Owed(table) - n
  <2>1. /\ u \in Sound
        /\ Owed(u) = SeatSum(table.stack) + SeatSum(bond) + SeatSum(table.totalCommit)
    BY Zenon, <1>1, <1>2, <1>6, SeatChangeFact
  <2> QED BY <1>1, <1>3, <1>6, <2>1, OwedNat DEF Owed
<1> HIDE DEF u
<1>8. Keeps(u, v) /\ v \in Sound
  BY <1>1, <1>7, CheckFact, FoldFact DEF Keeps
<1> HIDE DEF v
<1>9. Keeps(v, Moved(v)) /\ Moved(v) \in Sound
  BY <1>8, MovedFact DEF Keeps
<1>10. Keeps(Moved(v), w)
  BY <1>9, SetTableFact
<1>11. Keeps(u, w)
  BY <1>7, <1>8, <1>9, <1>10, KeepsTransitive
<1> HIDE DEF w
<1>12. w \in Sound /\ escrow - n \in Nat /\ Owed(w) <= escrow - n
  BY <1>1, <1>3, <1>5, <1>7, <1>11, OwedNat DEF Keeps, IInv, TypeOK, Solvent
<1> QED BY <1>5, <1>12, ConcludeFact DEF IInv

\* A change of the hand's dealer fields moves no chips.
LEMMA DealerFieldsFact ==
    ASSUME NEW t \in Sound, NEW u \in TableType, u.stack = t.stack, u.bond = t.bond,
           u.streetCommit = t.streetCommit, u.totalCommit = t.totalCommit
    PROVE  Keeps(t, u)
<1>1. u \in Sound
  BY DEF Sound
<1> QED BY <1>1, SameChips

\* InitHand and finalizeDeck move no chips.
LEMMA DeckStep ==
    ASSUME IInv, (\E size \in DeckSizes : InitHand(size)) \/ FinalizeDeck
    PROVE  IInv'
<1>0. table \in Sound /\ table \in TableType /\ Unset \in Int
  BY DEF IInv, TypeOK, Unset
<1>1. ASSUME NEW size \in DeckSizes, InitHand(size) PROVE IInv'
  <2> DEFINE u == [table EXCEPT !.deckSize = size, !.deckFinalized = FALSE, !.revealTimer = Unset]
  <2>1. size \in Nat
    BY TableParams
  <2>2. /\ u \in TableType
        /\ u.stack = table.stack /\ u.bond = table.bond
        /\ u.streetCommit = table.streetCommit /\ u.totalCommit = table.totalCommit
    BY Zenon, <1>0, <2>1 DEF TableType
  <2>3. Keeps(table, u)
    BY Zenon, <1>0, <2>2, DealerFieldsFact
  <2>4. DealerStores(u)
    BY Zenon, <1>1 DEF InitHand
  <2> QED BY <1>0, <2>3, <2>4, DealerStoresFact DEF IInv
<1>2. ASSUME FinalizeDeck PROVE IInv'
  <2> DEFINE u == [table EXCEPT !.deckFinalized = TRUE, !.revealTimer = Unset]
  <2>2. /\ u \in TableType
        /\ u.stack = table.stack /\ u.bond = table.bond
        /\ u.streetCommit = table.streetCommit /\ u.totalCommit = table.totalCommit
    BY Zenon, <1>0 DEF TableType
  <2>3. Keeps(table, u)
    BY Zenon, <1>0, <2>2, DealerFieldsFact
  <2>4. DealerStores(u)
    BY <1>2 DEF FinalizeDeck
  <2> QED BY <1>0, <2>3, <2>4, DealerStoresFact DEF IInv
<1> QED BY <1>1, <1>2

\* Leaving SHUFFLE and revealing cards: new deadlines, the same chips.
LEMMA RevealStep ==
    ASSUME IInv, AdvanceAfterHoleSharesReady \/ RevealBoard \/ RevealHole
    PROVE  IInv'
<1>0. table \in Sound /\ table \in TableType
  BY DEF IInv, TypeOK
<1>1. ASSUME NEW u, Keeps(table, u), DealerStores(setDeadlines(u)) PROVE IInv'
  <2>1. Keeps(table, setDeadlines(u))
    BY <1>0, <1>1, DeadlinesFact, KeepsTransitive DEF Keeps
  <2> QED BY <1>0, <1>1, <2>1, DealerStoresFact DEF IInv
<1>2. ASSUME AdvanceAfterHoleSharesReady PROVE IInv'
  <2> DEFINE phase == IF table.actionOn = Unset THEN "AWAIT_FLOP" ELSE "BETTING"
             u     == [table EXCEPT !.phase = phase]
  <2>1. phase \in Phases
    BY DEF Phases, Awaiting, BoardPhases
  <2>2. DealerStores(setDeadlines(u))
    BY <1>2 DEF AdvanceAfterHoleSharesReady
  <2> HIDE DEF phase
  <2>4. /\ u \in TableType
        /\ u.stack = table.stack /\ u.bond = table.bond
        /\ u.streetCommit = table.streetCommit /\ u.totalCommit = table.totalCommit
    BY <1>0, <2>1 DEF TableType
  <2>5. Keeps(table, u)
    BY Zenon, <1>0, <2>4, DealerFieldsFact
  <2> HIDE DEF u
  <2> QED BY <1>1, <2>2, <2>5
<1>3. ASSUME RevealBoard PROVE IInv'
  <2>1. Keeps(table, revealBoardCard(table))
    BY <1>0, <1>3, RevealBoardFact DEF RevealBoard
  <2> QED BY <1>1, <1>3, <2>1 DEF RevealBoard
<1>4. ASSUME RevealHole PROVE IInv'
  <2> DEFINE u == [table EXCEPT !.shown = @ + 1]
  <2>2. DealerStores(setDeadlines(u))
    BY <1>4 DEF RevealHole
  <2>4. /\ u \in TableType
        /\ u.stack = table.stack /\ u.bond = table.bond
        /\ u.streetCommit = table.streetCommit /\ u.totalCommit = table.totalCommit
    BY <1>0 DEF TableType
  <2>5. Keeps(table, u)
    BY Zenon, <1>0, <2>4, DealerFieldsFact
  <2> HIDE DEF u
  <2> QED BY <1>1, <2>2, <2>5
<1> QED BY <1>2, <1>3, <1>4

\* The showdown and the two refunds.
LEMMA SettleStep ==
    ASSUME IInv, SettleShowdown \/ SettleEvalError \/ AbortHand
    PROVE  IInv'
<1>0. table \in Sound
  BY DEF IInv
<1>1. ASSUME SettleShowdown PROVE IInv'
  <2>1. PICK rank \in [Live(table) -> Ranks] : DealerStores(settleKnownShowdown(table, rank))
    BY <1>1 DEF SettleShowdown
  <2>2. Keeps(table, settleKnownShowdown(table, rank))
    BY <1>0, SettleFact
  <2> QED BY <1>0, <2>1, <2>2, DealerStoresFact DEF IInv
<1>2. ASSUME SettleEvalError \/ AbortHand PROVE IInv'
  <2>1. Keeps(table, abortHandRefundAllCommits(table))
    BY <1>0, AbortFact
  <2>2. DealerStores(abortHandRefundAllCommits(table))
    BY <1>2 DEF SettleEvalError, AbortHand
  <2> QED BY <1>0, <2>1, <2>2, DealerStoresFact DEF IInv
<1> QED BY <1>1, <1>2

\* Time moves no chips.
LEMMA NextBlockStep ==
    ASSUME IInv, NEW secs \in BlockSecs, NextBlock(secs)
    PROVE  IInv'
<1> DEFINE a == Elapse(table.actionTimer, secs)
           r == Elapse(table.revealTimer, secs)
<1>0. table \in Sound /\ table \in TableType /\ secs \in Nat
  BY TableParams DEF IInv, TypeOK
<1>1. a \in Int /\ r \in Int
  BY <1>0 DEF Elapse, Unset, TableType
<1>2. table' = [table EXCEPT !.actionTimer = a, !.revealTimer = r]
  BY DEF NextBlock
<1> HIDE DEF a, r
<1>3. table' \in Sound
  BY Zenon, <1>0, <1>1, <1>2 DEF Sound, TableType
<1>4. /\ table'.stack = table.stack /\ table'.bond = table.bond
      /\ table'.totalCommit = table.totalCommit
  BY <1>0, <1>2 DEF TableType
<1>5. Owed(table') = Owed(table)
  BY <1>4 DEF Owed
<1>6. /\ escrow' = escrow /\ wallet' = wallet /\ hands' = hands /\ dealtTo' = dealtTo
      /\ cooldown' \in Nat
  BY DEF NextBlock, IInv, TypeOK
<1> QED BY <1>3, <1>5, <1>6 DEF IInv, TypeOK, Solvent, Sound

-----------------------------------------------------------------------------

\* A new table satisfies the invariant.
LEMMA InitIInv == Init => IInv
<1> SUFFICES ASSUME Init PROVE IInv
  OBVIOUS
<1> DEFINE t == Idle(Nobody, Zero, Zero, Unset)
<1>1. t \in Sound
  <2>1. /\ Nobody \in [Seats -> Players \cup {NoPlayer}] /\ Zero \in [Seats -> Nat]
        /\ Unset \in -1..8
    BY DEF Nobody, Zero, Unset
  <2> QED BY Zenon, <2>1, IdleSound
<1>2. Owed(t) = 0
  BY SumZero DEF Owed, Idle, Zero
<1>3. table = t /\ escrow = 0
  BY DEF Init
<1> HIDE DEF t
<1>4. wallet \in [Players -> Nat] /\ cooldown = 0 /\ hands = 0
  BY TableParams DEF Init
<1>5. dealtTo \in [Seats -> Players \cup {NoPlayer}]
  BY DEF Init, Nobody
<1> QED BY <1>1, <1>2, <1>3, <1>4, <1>5 DEF IInv, TypeOK, Solvent, Sound

\* Every message of a player, every call of x/dealer and every block preserves the
\* invariant.
LEMMA NextIInv == IInv /\ [Next]_vars => IInv'
<1> SUFFICES ASSUME IInv, [Next]_vars PROVE IInv'
  OBVIOUS
<1>1. ASSUME NEW p \in Players, NEW n \in Amounts, Sit(p, n) PROVE IInv'
  BY <1>1, SitStep
<1>2. ASSUME NEW p \in Players, NEW n \in Amounts, Rebuy(p, n) PROVE IInv'
  BY <1>2, RebuyStep
<1>3. ASSUME NEW p \in Players, Leave(p) PROVE IInv'
  BY <1>3, LeaveStep
<1>4. ASSUME NEW p \in Players, StartHand(p) PROVE IInv'
  BY <1>4, StartHandStep
<1>5. ASSUME NEW p \in Players, Fold(p) PROVE IInv'
  <2>1. Act(p, applyFold(table, table.actionOn)) /\ CanAct(table)
    BY Zenon, <1>5 DEF Fold, Act
  <2> QED BY <2>1, ActorFact, FoldFact, ActStep
<1>6. ASSUME NEW p \in Players, Check(p) PROVE IInv'
  <2>1. Act(p, applyCheck(table, table.actionOn)) /\ CanAct(table)
    BY <1>6 DEF Check
  <2> QED BY <2>1, ActorFact, CheckFact, ActStep
<1>7. ASSUME NEW p \in Players, Call(p) PROVE IInv'
  <2>1. Act(p, applyCall(table, table.actionOn)) /\ CanAct(table)
    BY <1>7 DEF Call
  <2> QED BY <2>1, ActorFact, CallFact, ActStep
<1>8. ASSUME NEW p \in Players, NEW n \in Amounts, BetTo(p, n) PROVE IInv'
  <2>1. /\ Act(p, applyBetTo(table, table.actionOn, n)) /\ CanAct(table)
        /\ BetToAccepted(table, table.actionOn, n)
    BY <1>8 DEF BetTo
  <2>2. n \in Nat
    BY TableParams
  <2> QED BY <2>1, <2>2, ActorFact, BetToFact, ActStep
<1>9. ASSUME Tick PROVE IInv'
  BY <1>9, TickStep
<1>10. ASSUME (\E size \in DeckSizes : InitHand(size)) \/ FinalizeDeck PROVE IInv'
  BY <1>10, DeckStep
<1>11. ASSUME AdvanceAfterHoleSharesReady \/ RevealBoard \/ RevealHole PROVE IInv'
  BY <1>11, RevealStep
<1>12. ASSUME SettleShowdown \/ SettleEvalError \/ AbortHand PROVE IInv'
  BY <1>12, SettleStep
<1>13. ASSUME NEW secs \in BlockSecs, NextBlock(secs) PROVE IInv'
  BY <1>13, NextBlockStep
<1>14. ASSUME UNCHANGED vars PROVE IInv'
  BY <1>14 DEF vars, IInv, TypeOK, Solvent, Owed
<1> QED BY <1>1, <1>2, <1>3, <1>4, <1>5, <1>6, <1>7, <1>8, <1>9, <1>10, <1>11, <1>12,
           <1>13, <1>14 DEF Next

\* No handler of x/poker and no call of x/dealer into it leaves a malformed
\* table or a negative balance: every checked subtraction of the betting code is
\* covered.
THEOREM AlwaysWellFormed == Spec => [](TypeOK /\ StreetWithinTotal)
<1>1. IInv => TypeOK /\ StreetWithinTotal
  BY DEF IInv, Sound, StreetWithinTotal
<1> QED BY <1>1, InitIInv, NextIInv, PTL DEF Spec

\* The poker module account always covers every stack, every bond and the pot:
\* whatever is played and however the hand ends, no chips are credited that the
\* account does not hold.
THEOREM AlwaysSolvent == Spec => []Solvent
<1>1. IInv => Solvent
  BY DEF IInv
<1> QED BY <1>1, InitIInv, NextIInv, PTL DEF Spec

-----------------------------------------------------------------------------
(* Players and seats. *)

\* A table without a hand has nobody in the hand.
AtRest(t) == t.phase = "NONE" => t.inHand = {}

\* From t to u nobody changes seats and nobody comes into the hand.
Stays(t, u) ==
    /\ u.player = t.player
    /\ Live(u) \subseteq Live(t)
    /\ AtRest(t) => AtRest(u)

\* A seat without a player has no chips.
Tidy(t) == \A s \in Seats : t.player[s] = NoPlayer => t.stack[s] = 0

\* Mutations that keep players and hand compose.
LEMMA StaysTransitive ==
    ASSUME NEW t, NEW u, NEW v, Stays(t, u), Stays(u, v)
    PROVE  Stays(t, v)
BY DEF Stays

\* A mutation of other fields keeps players and hand.
LEMMA SameHand ==
    ASSUME NEW t, NEW u, u.player = t.player, u.inHand = t.inHand, u.folded = t.folded,
           u.phase = t.phase \/ u.phase # "NONE"
    PROVE  Stays(t, u)
BY DEF Stays, Live, AtRest

\* Dropping the hand leaves the players and nobody in the hand.
LEMMA ClearHandStays ==
    ASSUME NEW t, NEW u, u.player = t.player
    PROVE  Stays(t, ClearHand(u)) /\ ClearHand(u).inHand = {}
BY Zenon DEF ClearHand, Idle, Stays, Live, AtRest

\* Storing a table leaves players and hand, and no chips in empty seats.
LEMMA SetTableStays ==
    ASSUME NEW t \in Sound
    PROVE  Stays(t, SetTable(t)) /\ Tidy(SetTable(t)) /\ SetTable(t).phase = t.phase
<1> DEFINE stack == [s \in Seats |-> IF t.player[s] = NoPlayer THEN 0 ELSE t.stack[s]]
           bond  == [s \in Seats |-> IF t.player[s] = NoPlayer THEN 0 ELSE t.bond[s]]
           u     == SetTable(t)
<1>1. \A s \in Seats : t.player[s] = NoPlayer => stack[s] = 0
  OBVIOUS
<1>2. u = [t EXCEPT !.stack = stack, !.bond = bond]
  BY DEF SetTable
<1> HIDE DEF stack, bond, u
<1>3. /\ u.player = t.player /\ u.inHand = t.inHand /\ u.folded = t.folded
      /\ u.phase = t.phase /\ u.stack = stack
  BY <1>2 DEF Sound, TableType
<1>4. Stays(t, u)
  BY <1>3, SameHand
<1>5. Tidy(u)
  BY <1>1, <1>3 DEF Tidy
<1> QED BY <1>3, <1>4, <1>5 DEF u

\* Putting chips into the pot leaves players and hand.
LEMMA PutStays ==
    ASSUME NEW t \in Sound, NEW s \in Seats, NEW n
    PROVE  LET u == Put(t, s, n)
           IN  /\ u.player = t.player /\ u.inHand = t.inHand
               /\ u.folded = t.folded /\ u.phase = t.phase
<1> DEFINE stack  == [t.stack EXCEPT ![s] = @ - n]
           street == [t.streetCommit EXCEPT ![s] = @ + n]
           total  == [t.totalCommit EXCEPT ![s] = @ + n]
           allIn  == IF t.stack[s] = n THEN t.allIn \cup {s} ELSE t.allIn
<1>1. Put(t, s, n) = [t EXCEPT !.stack = stack, !.streetCommit = street,
                               !.totalCommit = total, !.allIn = allIn]
  BY DEF Put
<1> HIDE DEF stack, street, total, allIn
<1> QED BY <1>1 DEF Sound, TableType

\* A fold takes a seat out of the hand; checks, calls and bets do not.
LEMMA ActionStays ==
    ASSUME NEW t \in Sound, NEW s \in Seats
    PROVE  /\ Stays(t, applyFold(t, s)) /\ Stays(t, applyCheck(t, s))
           /\ Stays(t, applyCall(t, s))
           /\ \A n \in Nat : BetToAccepted(t, s, n) => Stays(t, applyBetTo(t, s, n))
<1>1. Stays(t, applyFold(t, s))
  <2> DEFINE u == applyFold(t, s)
             folded == t.folded \cup {s}
             acted == [t.lastActed EXCEPT ![s] = t.interval]
  <2>1. u = [t EXCEPT !.folded = folded, !.lastActed = acted]
    BY DEF applyFold
  <2> HIDE DEF u, folded, acted
  <2>2. u.player = t.player /\ u.inHand = t.inHand /\ u.folded = folded /\ u.phase = t.phase
    BY <2>1 DEF Sound, TableType
  <2>3. Stays(t, u)
    BY <2>2 DEF Stays, Live, AtRest, folded
  <2> QED BY <2>3 DEF u
<1>2. Stays(t, applyCheck(t, s))
  <2>1. /\ applyCheck(t, s).player = t.player /\ applyCheck(t, s).inHand = t.inHand
        /\ applyCheck(t, s).folded = t.folded /\ applyCheck(t, s).phase = t.phase
    BY DEF applyCheck, Sound, TableType
  <2> QED BY <2>1, SameHand
<1>3. Stays(t, applyCall(t, s))
  <2> DEFINE n == Lesser(toCall(t, s), t.stack[s])
             u == Put(t, s, n)
             v == applyCall(t, s)
             acted == [u.lastActed EXCEPT ![s] = t.interval]
  <2>1. n \in Nat /\ n <= t.stack[s]
    BY ToCallNat DEF Lesser
  <2>2. u \in Sound
    BY <2>1, PutFact DEF Keeps
  <2>3. v = [u EXCEPT !.lastActed = acted]
    BY DEF applyCall
  <2>4. u.player = t.player /\ u.inHand = t.inHand /\ u.folded = t.folded /\ u.phase = t.phase
    BY Zenon, PutStays
  <2> HIDE DEF n, u, v, acted
  <2>5. v.player = u.player /\ v.inHand = u.inHand /\ v.folded = u.folded /\ v.phase = u.phase
    BY <2>2, <2>3 DEF Sound, TableType
  <2>6. Stays(t, v)
    BY <2>4, <2>5, SameHand
  <2> QED BY <2>6 DEF v
<1>4. ASSUME NEW n \in Nat, BetToAccepted(t, s, n) PROVE Stays(t, applyBetTo(t, s, n))
  <2> DEFINE k     == n - t.streetCommit[s]
             u     == Put(t, s, k)
             opens == t.betTo = 0
             full  == opens \/ n - t.betTo >= t.minRaise
             now   == IF full THEN t.interval + 1 ELSE t.interval
             raise == IF opens THEN IF n >= BigBlind THEN n ELSE BigBlind
                      ELSE IF full THEN n - t.betTo ELSE u.minRaise
             acted == [u.lastActed EXCEPT ![s] = now]
             v     == applyBetTo(t, s, n)
  <2>1. t.streetCommit[s] \in Nat /\ t.stack[s] \in Nat
    BY DEF Sound, TableType
  <2>2. k \in Nat /\ k <= t.stack[s]
    BY <1>4, <2>1 DEF BetToAccepted
  <2>3. u \in Sound
    BY <2>2, PutFact DEF Keeps
  <2>4. v = [u EXCEPT !.interval = now, !.lastActed = acted, !.betTo = n, !.minRaise = raise]
    BY DEF applyBetTo
  <2>5. u.player = t.player /\ u.inHand = t.inHand /\ u.folded = t.folded /\ u.phase = t.phase
    BY PutStays
  <2> HIDE DEF k, u, v, acted, now, raise
  <2>6. v.player = u.player /\ v.inHand = u.inHand /\ v.folded = u.folded /\ v.phase = u.phase
    BY <2>3, <2>4 DEF Sound, TableType
  <2>7. Stays(t, v)
    BY <2>5, <2>6, SameHand
  <2> QED BY <2>7 DEF v
<1> QED BY <1>1, <1>2, <1>3, <1>4

\* Returning an uncalled bet leaves players and hand.
LEMMA ReturnStays ==
    ASSUME NEW t \in Sound
    PROVE  LET u == returnUncalledStreetExcess(t)
           IN  /\ u.player = t.player /\ u.inHand = t.inHand
               /\ u.folded = t.folded /\ u.phase = t.phase
<1> DEFINE c   == t.streetCommit
           top == TopSeat(c, Seats)
           n   == c[top] - c[TopSeat(c, Seats \ {top})]
           u   == returnUncalledStreetExcess(t)
<1>1. CASE n = 0
  BY <1>1 DEF returnUncalledStreetExcess
<1>2. CASE n # 0
  <2> DEFINE stack  == [t.stack EXCEPT ![top] = @ + n]
             street == [t.streetCommit EXCEPT ![top] = @ - n]
             total  == [t.totalCommit EXCEPT ![top] = @ - n]
             allIn  == t.allIn \ {top}
  <2>1. u = [t EXCEPT !.stack = stack, !.streetCommit = street,
                      !.totalCommit = total, !.allIn = allIn]
    BY <1>2 DEF returnUncalledStreetExcess
  <2> HIDE DEF n, stack, street, total, allIn, u
  <2>2. u.player = t.player /\ u.inHand = t.inHand /\ u.folded = t.folded /\ u.phase = t.phase
    BY <2>1 DEF Sound, TableType
  <2> QED BY <2>2 DEF u
<1> QED BY <1>1, <1>2

\* The street's last action ends the hand, passes the turn, or waits for the dealer:
\* nobody changes seats and nobody comes back.
LEMMA MaybeAdvanceStays ==
    ASSUME NEW t \in Sound
    PROVE  Stays(t, maybeAdvance(t))
<1> DEFINE r == returnUncalledStreetExcess(t)
<1>1. r \in Sound /\ r.player = t.player /\ r.inHand = t.inHand /\ r.folded = t.folded
  BY ReturnFact, ReturnStays DEF Keeps
<1> HIDE DEF r
<1>2. CASE SeatCount(Live(t)) <= 1
  <2> DEFINE winner == NextSeat(8, Live(t))
             pot    == [r.stack EXCEPT ![winner] = @ + SeatSum(r.totalCommit)]
             u      == [r EXCEPT !.stack = pot]
  <2>1. maybeAdvance(t) = IF Live(t) = {} THEN ClearHand(t) ELSE ClearHand(u)
    BY <1>2 DEF maybeAdvance, completeByFolds, r
  <2> HIDE DEF pot
  <2>2. u.player = t.player
    BY <1>1 DEF Sound, TableType
  <2> HIDE DEF u
  <2> QED BY <2>1, <2>2, ClearHandStays
<1>3. CASE ~(SeatCount(Live(t)) <= 1) /\ NeedsToAct(t) # {}
  <2> DEFINE a == nextActiveToAct(t, t.actionOn)
             u == [t EXCEPT !.actionOn = a]
  <2>1. maybeAdvance(t) = u
    BY <1>3 DEF maybeAdvance
  <2> HIDE DEF a
  <2>2. u.player = t.player /\ u.inHand = t.inHand /\ u.folded = t.folded /\ u.phase = t.phase
    BY DEF Sound, TableType
  <2> HIDE DEF u
  <2> QED BY <2>1, <2>2, SameHand
<1>4. CASE ~(SeatCount(Live(t)) <= 1) /\ NeedsToAct(t) = {}
  <2> DEFINE await == AwaitAfter[t.street]
             u     == [r EXCEPT !.actionOn = Unset, !.phase = await]
  <2>1. maybeAdvance(t) = u
    BY <1>4 DEF maybeAdvance, r
  <2>2. await # "NONE"
    BY DEF Sound, TableType, Streets, AwaitAfter
  <2> HIDE DEF await
  <2>3. u.player = t.player /\ u.inHand = t.inHand /\ u.folded = t.folded /\ u.phase = await
    BY <1>1 DEF Sound, TableType
  <2> HIDE DEF u
  <2> QED BY <2>1, <2>2, <2>3, SameHand
<1> QED BY <1>2, <1>3, <1>4

\* Deadlines are no business of players and hand.
LEMMA DeadlinesStays ==
    ASSUME NEW t \in Sound
    PROVE  Stays(t, setDeadlines(t)) /\ setDeadlines(t).phase = t.phase
<1> DEFINE r == IF t.phase \in Awaiting THEN DealerTimeoutSecs ELSE Unset
           a == IF t.phase = "BETTING" /\ t.actionOn >= 0 THEN ActionTimeoutSecs ELSE Unset
           u == setDeadlines(t)
<1>1. u = [t EXCEPT !.revealTimer = r, !.actionTimer = a]
  BY DEF setDeadlines
<1> HIDE DEF r, a, u
<1>2. u.player = t.player /\ u.inHand = t.inHand /\ u.folded = t.folded /\ u.phase = t.phase
  BY <1>1 DEF Sound, TableType
<1>3. Stays(t, u)
  BY <1>2, SameHand
<1> QED BY <1>2, <1>3 DEF u

\* The whole of applyAction after the mover's own action.
LEMMA MovedStays ==
    ASSUME NEW t \in Sound
    PROVE  Stays(t, Moved(t)) /\ Moved(t) \in Sound
<1>1. Stays(t, maybeAdvance(t)) /\ maybeAdvance(t) \in Sound
  BY MaybeAdvanceStays, MaybeAdvanceFact DEF Keeps
<1>2. Stays(maybeAdvance(t), setDeadlines(maybeAdvance(t)))
  BY <1>1, DeadlinesStays
<1>3. Moved(t) \in Sound
  BY MovedFact DEF Keeps
<1> QED BY <1>1, <1>2, <1>3, StaysTransitive DEF Moved

\* A board card, the last of a street included.
LEMMA RevealBoardStays ==
    ASSUME NEW t \in Sound, t.phase \in BoardPhases
    PROVE  Stays(t, revealBoardCard(t))
<1> DEFINE u      == [t EXCEPT !.board = @ + 1]
           street == StreetOf[t.phase]
           await  == AwaitAfter[street]
<1>1. /\ u \in Sound /\ u.player = t.player /\ u.inHand = t.inHand
      /\ u.folded = t.folded /\ u.phase = t.phase
  BY DEF Sound, TableType
<1>2. street \in Streets /\ await # "NONE"
  BY DEF StreetOf, BoardPhases, AwaitAfter, Streets
<1>3. CASE u.board # BoardSize[t.phase]
  BY Zenon, <1>1, <1>3, SameHand DEF revealBoardCard
<1>4. CASE u.board = BoardSize[t.phase] /\ SeatCount(WithChips(u)) < 2
  <2> DEFINE v == [u EXCEPT !.street = street, !.phase = await, !.actionOn = Unset]
  <2>1. revealBoardCard(t) = v
    BY <1>4 DEF revealBoardCard
  <2> HIDE DEF u, street, await
  <2>2. v.player = u.player /\ v.inHand = u.inHand /\ v.folded = u.folded /\ v.phase = await
    BY <1>1 DEF Sound, TableType
  <2> HIDE DEF v
  <2> QED BY <1>1, <1>2, <2>1, <2>2, SameHand
<1>5. CASE u.board = BoardSize[t.phase] /\ ~(SeatCount(WithChips(u)) < 2)
  <2> DEFINE v     == [u EXCEPT !.street = street, !.phase = "BETTING"]
             rest  == [s \in Seats |-> Unset]
             w     == [v EXCEPT !.betTo = 0, !.minRaise = BigBlind, !.interval = 0,
                                !.streetCommit = Zero, !.lastActed = rest]
             a     == nextActiveToAct(w, w.button)
             x     == [w EXCEPT !.actionOn = a]
  <2>1. revealBoardCard(t) = x
    BY <1>5 DEF revealBoardCard, resetPostflopBettingRound
  <2> HIDE DEF u, street, await, rest, a
  <2>2. x.player = u.player /\ x.inHand = u.inHand /\ x.folded = u.folded /\ x.phase = "BETTING"
    BY <1>1 DEF Sound, TableType
  <2> HIDE DEF x
  <2> QED BY <1>1, <2>1, <2>2, SameHand
<1> QED BY <1>3, <1>4, <1>5

-----------------------------------------------------------------------------

\* What is said of seats, with the two facts that make it inductive: nobody is in
\* a hand that is over, and StartHand deals only to seats that have a player.
SeatPart == OneSeatEach /\ LiveSeatKeepsPlayer /\ AtRest(table) /\ Tidy(table)

SeatInv == IInv /\ SeatPart

\* Storing a table on which nobody has moved, a hand that has ended included.
LEMMA StoreKeeps ==
    ASSUME SeatPart, NEW t \in Sound, Stays(table, t), table' = SetTable(t),
           dealtTo' = (IF t.phase = "NONE" THEN Nobody ELSE dealtTo)
    PROVE  SeatPart'
<1>1. /\ Stays(t, SetTable(t)) /\ Tidy(SetTable(t)) /\ SetTable(t).phase = t.phase
  BY SetTableStays
<1>2. /\ table'.player = table.player /\ Live(table') \subseteq Live(table)
      /\ AtRest(table') /\ Tidy(table') /\ table'.phase = t.phase
  BY <1>1, StaysTransitive DEF SeatPart, Stays
<1>3. OneSeatEach'
  BY <1>2 DEF SeatPart, OneSeatEach
<1>4. LiveSeatKeepsPlayer'
  <2>1. CASE t.phase = "NONE"
    <3>1. Live(table') = {}
      BY <1>2, <2>1 DEF AtRest, Live
    <3> QED BY <3>1 DEF LiveSeatKeepsPlayer
  <2>2. CASE t.phase # "NONE"
    BY <1>2, <2>2 DEF SeatPart, LiveSeatKeepsPlayer
  <2> QED BY <2>1, <2>2
<1> QED BY <1>2, <1>3, <1>4 DEF SeatPart, AtRest, Tidy

\* The end of Act and Tick, the ejection of bondless players included.
LEMMA ConcludeSeats ==
    ASSUME SeatPart, NEW t \in Sound, Stays(table, t), NEW balance, Conclude(t, balance)
    PROVE  SeatPart'
<1> DEFINE out    == Bondless(t)
           player == [s \in Seats |-> IF s \in out THEN NoPlayer ELSE t.player[s]]
           u      == [t EXCEPT !.player = player]
<1>1. /\ table' = SetTable(u)
      /\ dealtTo' = IF t.phase = "NONE" THEN Nobody ELSE dealtTo
  BY DEF Conclude, Vacate
<1>2. player \in [Seats -> Players \cup {NoPlayer}]
  BY DEF Sound, TableType
<1>3. t.phase # "NONE" => player = t.player
  BY DEF Bondless, Sound, TableType
<1>4. \A s \in Seats : player[s] = t.player[s] \/ player[s] = NoPlayer
  OBVIOUS
<1> HIDE DEF player
<1>5. /\ u \in Sound /\ u.player = player /\ u.inHand = t.inHand
      /\ u.folded = t.folded /\ u.phase = t.phase
  <2>1. u \in Sound
    BY SMTT(30), <1>2 DEF Sound, TableType
  <2> QED BY Zenon, <2>1 DEF Sound, TableType
<1> HIDE DEF u
<1>6. CASE t.phase # "NONE"
  <2>1. Stays(table, u)
    BY <1>3, <1>5, <1>6, SameHand, StaysTransitive
  <2> QED BY <1>1, <1>5, <2>1, StoreKeeps
<1>7. CASE t.phase = "NONE"
  <2>1. /\ Stays(u, SetTable(u)) /\ Tidy(SetTable(u)) /\ SetTable(u).phase = "NONE"
    BY <1>5, <1>7, SetTableStays
  <2>2. t.inHand = {} /\ t.player = table.player
    BY <1>7 DEF Stays, AtRest, SeatPart
  <2>3. AtRest(u)
    BY <1>5, <2>2 DEF AtRest
  <2>4. table'.player = player /\ table'.inHand = {} /\ Tidy(table')
    BY Zenon, <1>1, <1>5, <2>1, <2>3 DEF Stays, AtRest
  <2>5. OneSeatEach'
    BY <1>4, <2>2, <2>4 DEF SeatPart, OneSeatEach
  <2>6. LiveSeatKeepsPlayer' /\ AtRest(table')
    BY Zenon, <2>4 DEF LiveSeatKeepsPlayer, Live, AtRest
  <2> QED BY <2>4, <2>5, <2>6 DEF SeatPart, AtRest, Tidy
<1> QED BY <1>6, <1>7

\* autoAssignSeat gives an empty seat.
LEMMA AssignedIsEmpty ==
    ASSUME NEW t \in Sound, EmptySeats(t) # {}
    PROVE  autoAssignSeat(t) \in Seats /\ t.player[autoAssignSeat(t)] = NoPlayer
<1> DEFINE from == IF t.button < 0 /\ t.phase = "NONE" THEN 8
                   ELSE IF t.phase # "NONE" THEN t.bb
                   ELSE IF SeatCount(occupiedSeatsWithStack(t)) >= 2 THEN bbSeat(t)
                   ELSE t.button
<1>1. t.bb \in -1..8 /\ t.button \in -1..8
  BY DEF Sound, TableType
<1>2. SeatCount(occupiedSeatsWithStack(t)) >= 2 => bbSeat(t) \in -1..8
  BY FundedFact, BlindSeatsFact DEF Seats
<1>3. from \in -1..8
  BY <1>1, <1>2
<1>4. autoAssignSeat(t) = NextSeat(from, EmptySeats(t))
  BY DEF autoAssignSeat
<1>5. EmptySeats(t) \in SUBSET Seats
  BY DEF EmptySeats
<1> HIDE DEF from
<1>6. NextSeat(from, EmptySeats(t)) \in EmptySeats(t)
  BY <1>3, <1>5, NextSeatFact
<1> QED BY <1>4, <1>6 DEF EmptySeats

\* Replacing one seat's player (by NoPlayer: vacating it) on a seat without live
\* cards, where the newcomer sits nowhere else.
LEMMA ReseatKeeps ==
    ASSUME SeatPart, NEW u \in Sound, NEW s \in Seats, NEW p,
           s \notin Live(table),
           p = NoPlayer \/ \A o \in Seats : table.player[o] # p,
           u.player = [table.player EXCEPT ![s] = p], table.player \in [Seats -> Players \cup {NoPlayer}],
           Live(u) = Live(table), Live(table) \in SUBSET Seats,
           u.phase = table.phase, u.inHand = table.inHand,
           table' = SetTable(u), dealtTo' = dealtTo
    PROVE  SeatPart'
<1>1. Stays(u, SetTable(u)) /\ Tidy(SetTable(u)) /\ SetTable(u).phase = u.phase
  BY Zenon, SetTableStays
<1>2. AtRest(u)
  BY Zenon DEF SeatPart, AtRest
<1>3. /\ table'.player = u.player /\ Live(table') \subseteq Live(table)
      /\ AtRest(table') /\ Tidy(table')
  BY Zenon, <1>1, <1>2 DEF Stays
<1>4. OneSeatEach'
  BY <1>3 DEF SeatPart, OneSeatEach
<1>5. LiveSeatKeepsPlayer'
  BY ZenonT(30), <1>3 DEF SeatPart, LiveSeatKeepsPlayer
<1> QED BY <1>3, <1>4, <1>5 DEF SeatPart, AtRest, Tidy

\* Sit takes an empty seat, in which nobody has live cards.
LEMMA SitSeats ==
    ASSUME SeatInv, NEW p \in Players, NEW n \in Amounts, Sit(p, n)
    PROVE  SeatPart'
<1> DEFINE s      == autoAssignSeat(table)
           player == [table.player EXCEPT ![s] = p]
           stack  == [table.stack EXCEPT ![s] = n]
           bond   == [table.bond EXCEPT ![s] = PlayerBond]
           u      == [table EXCEPT !.player = player, !.stack = stack, !.bond = bond]
<1>1. /\ n \in Nat /\ PlayerBond \in Nat /\ table \in Sound /\ table \in TableType
      /\ SeatPart
  BY TableParams DEF SeatInv, IInv, TypeOK
<1>2. s \in Seats /\ table.player[s] = NoPlayer
  BY <1>1, AssignedIsEmpty DEF Sit
<1>3. table' = SetTable(u) /\ dealtTo' = dealtTo
  BY <1>1 DEF Sit, TableType
<1>4. s \notin Live(table)
  BY <1>1, <1>2 DEF SeatPart, LiveSeatKeepsPlayer
<1>5. \A o \in Seats : table.player[o] # p
  BY DEF Sit, SeatsOf
<1> HIDE DEF s
<1>6. /\ table.player \in [Seats -> Players \cup {NoPlayer}]
      /\ table.stack \in [Seats -> Nat] /\ table.bond \in [Seats -> Nat]
      /\ Live(table) \in SUBSET Seats
  BY <1>1 DEF TableType, Live
<1>7. /\ player \in [Seats -> Players \cup {NoPlayer}]
      /\ stack \in [Seats -> Nat] /\ bond \in [Seats -> Nat]
  BY <1>1, <1>2, <1>6
<1> HIDE DEF stack, bond
<1>8. u \in Sound
  BY Zenon, <1>1, <1>7, SeatChangeFact
<1>9. /\ u.player = player /\ u.inHand = table.inHand /\ u.folded = table.folded
      /\ u.phase = table.phase
  BY <1>1 DEF TableType
<1> HIDE DEF u
<1>10. Live(u) = Live(table)
  BY <1>9 DEF Live
<1> QED BY Zenon, <1>1, <1>2, <1>3, <1>4, <1>5, <1>6, <1>8, <1>9, <1>10,
           ReseatKeeps

\* Rebuy moves nobody.
LEMMA RebuySeats ==
    ASSUME SeatInv, NEW p \in Players, NEW n \in Amounts, Rebuy(p, n)
    PROVE  SeatPart'
<1> DEFINE s     == seatOfPlayer(table, p)
           stack == [table.stack EXCEPT ![s] = @ + n]
           u     == [table EXCEPT !.stack = stack]
<1>1. n \in Nat /\ table \in Sound /\ table \in TableType /\ SeatPart
  BY TableParams DEF SeatInv, IInv, TypeOK
<1>2. s \in Seats
  BY SeatOfPlayerFact DEF Rebuy
<1>3. table' = SetTable(u) /\ dealtTo' = dealtTo
  BY <1>1 DEF Rebuy, TableType
<1> HIDE DEF s
<1>4. stack \in [Seats -> Nat]
  BY <1>1, <1>2 DEF TableType
<1> HIDE DEF stack
<1>5. u \in Sound
  BY Zenon, <1>1, <1>4 DEF Sound, TableType
<1>6. /\ u.player = table.player /\ u.inHand = table.inHand /\ u.folded = table.folded
      /\ u.phase = table.phase
  BY <1>1 DEF TableType
<1> HIDE DEF u
<1>7. Stays(u, SetTable(u)) /\ Tidy(SetTable(u))
  BY <1>5, SetTableStays
<1>8. Stays(table, table') /\ Tidy(table')
  BY <1>3, <1>6, <1>7, SameHand, StaysTransitive
<1> QED BY Zenon, <1>1, <1>3, <1>8
        DEF SeatPart, Stays, OneSeatEach, LiveSeatKeepsPlayer, AtRest, Tidy

\* Leave frees a seat without live cards.
LEMMA LeaveSeats ==
    ASSUME SeatInv, NEW p \in Players, Leave(p)
    PROVE  SeatPart'
<1> DEFINE s      == seatOfPlayer(table, p)
           player == [table.player EXCEPT ![s] = NoPlayer]
           u      == [table EXCEPT !.player = player]
<1>1. table \in Sound /\ table \in TableType /\ SeatPart
  BY DEF SeatInv, IInv, TypeOK
<1>2. s \in Seats /\ s \notin Live(table)
  BY SeatOfPlayerFact DEF Leave
<1>3. table' = SetTable(u) /\ dealtTo' = dealtTo
  BY <1>1 DEF Leave, TableType
<1> HIDE DEF s
<1>4. /\ table.player \in [Seats -> Players \cup {NoPlayer}] /\ Live(table) \in SUBSET Seats
  BY <1>1 DEF TableType, Live
<1>5. player \in [Seats -> Players \cup {NoPlayer}]
  BY <1>2, <1>4
<1>6. u \in Sound
  <2> HIDE DEF player
  <2> QED BY Zenon, <1>1, <1>5 DEF Sound, TableType
<1>7. /\ u.player = player /\ u.inHand = table.inHand /\ u.folded = table.folded
      /\ u.phase = table.phase
  BY <1>1 DEF TableType
<1> HIDE DEF u
<1>8. Live(u) = Live(table)
  BY <1>7 DEF Live
<1> QED BY Zenon, <1>1, <1>2, <1>3, <1>4, <1>6, <1>7, <1>8, ReseatKeeps

\* The new hand has the funded seats in it, and the players where they were.
LEMMA DealInSeats ==
    ASSUME NEW t \in Sound, occupiedSeatsWithStack(t) # {}
    PROVE  /\ DealIn(t).player = t.player /\ DealIn(t).phase = "SHUFFLE"
           /\ Live(DealIn(t)) = occupiedSeatsWithStack(t)
<1> DEFINE funded == occupiedSeatsWithStack(t)
           button == IF t.button < 0 THEN NextSeat(8, funded) ELSE nextOccupiedSeat(t, t.button)
           moved  == [t EXCEPT !.button = button]
           seated == ClearHand(moved)
           bb     == bbSeat(seated)
           sb     == sbSeat(seated)
           fresh  == [seated EXCEPT !.phase = "SHUFFLE", !.bb = bb, !.minRaise = BigBlind,
                                    !.inHand = funded]
           first  == postBlindCommit(fresh, sb, SmallBlind)
           posted == postBlindCommit(first, bb, BigBlind)
           opened == [posted EXCEPT !.betTo = posted.streetCommit[bb]]
           final  == [opened EXCEPT !.actionOn = nextActiveToAct(opened, bb)]
<1>0. DealIn(t) = final
  BY DEF DealIn
<1>1. button \in Seats /\ funded \in SUBSET Seats
  <2>1. t.button \in -1..8 /\ funded \in SUBSET Seats
    BY FundedFact DEF Sound, TableType
  <2> QED BY <2>1, NextSeatFact, NextOccupiedFact
<1> HIDE DEF button
<1>2. moved \in Sound /\ moved.stack = t.stack /\ moved.player = t.player /\ moved.button = button
  <2>1. moved \in Sound
    BY <1>1 DEF Sound, TableType, Seats
  <2> QED BY Zenon, <2>1 DEF Sound, TableType
<1> HIDE DEF moved
<1>3. /\ seated \in Sound /\ seated.stack = t.stack /\ seated.player = t.player
      /\ seated.button = button /\ seated.folded = {}
  BY Zenon, <1>2, ClearHandFact DEF Keeps, ClearHand, Idle
<1>4. bb \in Seats /\ sb \in Seats
  <2>1. occupiedSeatsWithStack(seated) = funded
    BY <1>3 DEF occupiedSeatsWithStack
  <2>2. seated.button \in Seats
    BY <1>1, <1>3
  <2> HIDE DEF seated
  <2> QED BY <1>3, <2>1, <2>2, BlindSeatsFact DEF Seats
<1> HIDE DEF seated, bb, sb
<1>5. fresh \in Sound
  <2>1. BigBlind \in Nat /\ "SHUFFLE" \in Phases /\ bb \in -1..8
    BY <1>4, TableParams DEF Phases, Seats
  <2> HIDE DEF funded
  <2> QED BY Zenon, <1>1, <1>3, <2>1 DEF Sound, TableType
<1>6. /\ fresh.player = t.player /\ fresh.inHand = funded /\ fresh.folded = {}
      /\ fresh.phase = "SHUFFLE"
  <2> HIDE DEF funded
  <2> QED BY <1>3 DEF Sound, TableType
<1> HIDE DEF fresh, funded
<1>7. /\ first \in Sound /\ first.player = fresh.player /\ first.inHand = fresh.inHand
      /\ first.folded = fresh.folded /\ first.phase = fresh.phase
  <2>1. SmallBlind \in Nat
    BY TableParams
  <2> QED BY <1>4, <1>5, <2>1, PostBlindFact, PutStays DEF Keeps, postBlindCommit
<1> HIDE DEF first
<1>8. /\ posted \in Sound /\ posted.player = first.player /\ posted.inHand = first.inHand
      /\ posted.folded = first.folded /\ posted.phase = first.phase
  <2>1. BigBlind \in Nat
    BY TableParams
  <2> QED BY <1>4, <1>7, <2>1, PostBlindFact, PutStays DEF Keeps, postBlindCommit
<1> HIDE DEF posted
<1> DEFINE a == nextActiveToAct(opened, bb)
           b == posted.streetCommit[bb]
<1>9. final = [posted EXCEPT !.betTo = b, !.actionOn = a]
  BY <1>8 DEF Sound, TableType
<1> HIDE DEF a, b, final
<1>10. /\ final.player = posted.player /\ final.inHand = posted.inHand
       /\ final.folded = posted.folded /\ final.phase = posted.phase
  BY <1>8, <1>9 DEF Sound, TableType
<1>11. Live(final) = funded
  BY <1>6, <1>7, <1>8, <1>10 DEF Live
<1> QED BY <1>0, <1>6, <1>7, <1>8, <1>10, <1>11 DEF funded

\* StartHand deals to seats with chips, and every one of them has a player.
LEMMA StartHandSeats ==
    ASSUME SeatInv, NEW p \in Players, StartHand(p)
    PROVE  SeatPart'
<1> DEFINE funded == occupiedSeatsWithStack(table)
           u      == DealIn(table)
<1>1. table \in Sound /\ table \in TableType /\ funded # {} /\ SeatPart
  BY Zenon, FundedFact DEF StartHand, SeatInv, IInv, TypeOK
<1>2. u \in Sound
  BY <1>1, DealInFact DEF Keeps
<1>3. u.player = table.player /\ u.phase = "SHUFFLE" /\ Live(u) = funded
  BY <1>1, DealInSeats
<1>4. /\ table' = SetTable(u)
      /\ dealtTo' = [s \in Seats |-> IF table.stack[s] > 0 THEN table.player[s] ELSE NoPlayer]
  BY Zenon DEF StartHand
<1>5. \A s \in funded : /\ s \in Seats /\ table.player[s] # NoPlayer
                        /\ dealtTo'[s] = table.player[s]
  BY <1>1, <1>4 DEF occupiedSeatsWithStack, SeatPart, Tidy
<1> HIDE DEF funded, u
<1>6. Stays(u, SetTable(u)) /\ Tidy(SetTable(u)) /\ SetTable(u).phase = "SHUFFLE"
  BY <1>2, <1>3, SetTableStays
<1>7. /\ table'.player = table.player /\ Live(table') \subseteq funded
      /\ table'.phase = "SHUFFLE" /\ Tidy(table')
  BY <1>3, <1>4, <1>6 DEF Stays
<1>8. OneSeatEach'
  BY <1>1, <1>7 DEF SeatPart, OneSeatEach
<1>9. LiveSeatKeepsPlayer'
  BY <1>5, <1>7 DEF LiveSeatKeepsPlayer
<1> QED BY <1>7, <1>8, <1>9 DEF SeatPart, AtRest, Tidy

\* The rest of Act, whatever the mover's own action made of the table.
LEMMA ActSeats ==
    ASSUME SeatInv, NEW p, NEW t \in Sound, Stays(table, t), Act(p, t)
    PROVE  SeatPart'
<1> DEFINE u == SetTable(Moved(t))
<1>1. Stays(t, Moved(t)) /\ Moved(t) \in Sound
  BY MovedStays
<1>2. Stays(Moved(t), u) /\ u \in Sound
  BY <1>1, SetTableStays, SetTableFact DEF Keeps
<1>3. Stays(table, u)
  BY <1>1, <1>2, StaysTransitive
<1>4. Conclude(u, escrow) /\ SeatPart
  BY Zenon DEF Act, SeatInv
<1> HIDE DEF u
<1> QED BY <1>2, <1>3, <1>4, ConcludeSeats

\* The tick's check or fold, after the bond has paid.
LEMMA TickSeats ==
    ASSUME SeatInv, Tick
    PROVE  SeatPart'
<1> DEFINE s    == table.actionOn
           n    == timeoutSlash(table)
           bond == [table.bond EXCEPT ![s] = @ - n]
           u    == [table EXCEPT !.bond = bond]
           v    == IF toCall(u, s) = 0 THEN applyCheck(u, s) ELSE applyFold(u, s)
           w    == SetTable(Moved(v))
<1>1. s \in Seats /\ table \in Sound /\ table \in TableType /\ SeatPart
  BY ActorFact DEF Tick, TickDue, SeatInv, IInv, TypeOK
<1>2. bond \in [Seats -> Nat]
  <2>1. table.bond \in [Seats -> Nat] /\ table.bond[s] \in Nat
    BY <1>1 DEF TableType
  <2>2. table.bond[s] - n \in Nat
    BY <2>1, TableParams DEF timeoutSlash, Lesser
  <2> HIDE DEF n
  <2> QED BY <1>1, <2>1, <2>2
<1>3. Conclude(w, escrow - n) /\ Ticked(table) = Moved(v)
  BY DEF Tick, Ticked
<1> HIDE DEF n, bond, s
<1>4. u \in Sound
  BY Zenon, <1>1, <1>2 DEF Sound, TableType
<1>5. /\ u.player = table.player /\ u.inHand = table.inHand /\ u.folded = table.folded
      /\ u.phase = table.phase
  BY <1>1 DEF TableType
<1> HIDE DEF u
<1>6. Stays(table, u)
  BY <1>5, SameHand
<1>7. Stays(u, v) /\ v \in Sound
  BY <1>1, <1>4, ActionStays, CheckFact, FoldFact DEF Keeps
<1> HIDE DEF v
<1>8. Stays(v, Moved(v)) /\ Moved(v) \in Sound
  BY <1>7, MovedStays
<1>9. Stays(Moved(v), w) /\ w \in Sound
  BY <1>8, SetTableStays, SetTableFact DEF Keeps
<1>10. Stays(table, w)
  BY <1>6, <1>7, <1>8, <1>9, StaysTransitive
<1> HIDE DEF w
<1> QED BY <1>1, <1>3, <1>9, <1>10, ConcludeSeats

\* The calls that prepare the deck and reveal cards.
LEMMA DealerSeats ==
    ASSUME SeatInv, \/ \E size \in DeckSizes : InitHand(size)
                    \/ FinalizeDeck \/ AdvanceAfterHoleSharesReady \/ RevealBoard \/ RevealHole
    PROVE  SeatPart'
<1>0. table \in Sound /\ table \in TableType /\ SeatPart /\ Unset \in Int
  BY DEF SeatInv, IInv, TypeOK, Unset
<1>1. ASSUME NEW u \in Sound, Stays(table, u), DealerStores(u) \/ DealerStores(setDeadlines(u))
      PROVE  SeatPart'
  <2>1. Stays(u, setDeadlines(u)) /\ setDeadlines(u) \in Sound
    BY DeadlinesStays, DeadlinesFact DEF Keeps
  <2>2. Stays(table, setDeadlines(u))
    BY <1>1, <2>1, StaysTransitive
  <2> QED BY <1>0, <1>1, <2>1, <2>2, StoreKeeps DEF DealerStores
<1>2. ASSUME NEW size \in DeckSizes, InitHand(size) PROVE SeatPart'
  <2> DEFINE u == [table EXCEPT !.deckSize = size, !.deckFinalized = FALSE, !.revealTimer = Unset]
  <2>0. size \in Nat
    BY TableParams
  <2>1. DealerStores(u)
    BY Zenon, <1>2 DEF InitHand
  <2>2. /\ u \in Sound /\ u.player = table.player /\ u.inHand = table.inHand
        /\ u.folded = table.folded /\ u.phase = table.phase
    BY Zenon, <1>0, <2>0 DEF Sound, TableType
  <2> HIDE DEF u
  <2> QED BY Zenon, <1>1, <2>1, <2>2, SameHand
<1>3. ASSUME FinalizeDeck PROVE SeatPart'
  <2> DEFINE u == [table EXCEPT !.deckFinalized = TRUE, !.revealTimer = Unset]
  <2>1. DealerStores(u)
    BY <1>3 DEF FinalizeDeck
  <2>2. /\ u \in Sound /\ u.player = table.player /\ u.inHand = table.inHand
        /\ u.folded = table.folded /\ u.phase = table.phase
    BY Zenon, <1>0 DEF Sound, TableType
  <2> HIDE DEF u
  <2> QED BY <1>1, <2>1, <2>2, SameHand
<1>4. ASSUME AdvanceAfterHoleSharesReady PROVE SeatPart'
  <2> DEFINE phase == IF table.actionOn = Unset THEN "AWAIT_FLOP" ELSE "BETTING"
             u     == [table EXCEPT !.phase = phase]
  <2>1. phase \in Phases /\ phase # "NONE"
    BY DEF Phases, Awaiting, BoardPhases
  <2>2. DealerStores(setDeadlines(u))
    BY <1>4 DEF AdvanceAfterHoleSharesReady
  <2> HIDE DEF phase
  <2>3. /\ u \in Sound /\ u.player = table.player /\ u.inHand = table.inHand
        /\ u.folded = table.folded /\ u.phase = phase
    BY SMTT(30), <1>0, <2>1 DEF Sound, TableType
  <2> HIDE DEF u
  <2> QED BY Zenon, <1>1, <2>1, <2>2, <2>3, SameHand
<1>5. ASSUME RevealBoard PROVE SeatPart'
  <2>1. revealBoardCard(table) \in Sound /\ Stays(table, revealBoardCard(table))
    BY <1>0, <1>5, RevealBoardFact, RevealBoardStays DEF RevealBoard, Keeps
  <2> QED BY <1>1, <1>5, <2>1 DEF RevealBoard
<1>6. ASSUME RevealHole PROVE SeatPart'
  <2> DEFINE u == [table EXCEPT !.shown = @ + 1]
  <2>1. DealerStores(setDeadlines(u))
    BY <1>6 DEF RevealHole
  <2>2. /\ u \in Sound /\ u.player = table.player /\ u.inHand = table.inHand
        /\ u.folded = table.folded /\ u.phase = table.phase
    BY SMTT(30), <1>0 DEF Sound, TableType
  <2> HIDE DEF u
  <2> QED BY <1>1, <2>1, <2>2, SameHand
<1>7. QED BY <1>2, <1>3, <1>4, <1>5, <1>6

\* The showdown and the two refunds end the hand where it was dealt.
LEMMA SettleSeats ==
    ASSUME SeatInv, SettleShowdown \/ SettleEvalError \/ AbortHand
    PROVE  SeatPart'
<1>0. table \in Sound /\ SeatPart
  BY DEF SeatInv, IInv
<1>1. ASSUME NEW t, Keeps(table, t), Stays(table, t), DealerStores(t) PROVE SeatPart'
  BY <1>0, <1>1, StoreKeeps DEF DealerStores, Keeps
<1>2. ASSUME NEW stack
      PROVE  Stays(table, ClearHand([table EXCEPT !.stack = stack]))
  <2>1. [table EXCEPT !.stack = stack].player = table.player
    BY <1>0 DEF Sound, TableType
  <2> QED BY Zenon, <2>1, ClearHandStays
<1>3. ASSUME SettleShowdown PROVE SeatPart'
  <2>1. PICK rank \in [Live(table) -> Ranks] : DealerStores(settleKnownShowdown(table, rank))
    BY <1>3 DEF SettleShowdown
  <2> DEFINE won   == Payout(table.totalCommit, Live(table), rank)
             stack == [s \in Seats |-> table.stack[s] + won[s]]
             t     == settleKnownShowdown(table, rank)
  <2>2. t = IF table.board < 5 THEN ClearHand(table)
            ELSE ClearHand([table EXCEPT !.stack = stack])
    BY DEF settleKnownShowdown
  <2>3. Keeps(table, t)
    BY <1>0, SettleFact
  <2>4. DealerStores(t)
    BY <2>1
  <2> HIDE DEF t, stack
  <2>5. Stays(table, t)
    BY <1>2, <2>2, ClearHandStays
  <2> QED BY <1>1, <2>3, <2>4, <2>5
<1>4. ASSUME SettleEvalError \/ AbortHand PROVE SeatPart'
  <2> DEFINE stack == [s \in Seats |-> table.stack[s] + table.totalCommit[s]]
             t     == abortHandRefundAllCommits(table)
  <2>1. t = ClearHand([table EXCEPT !.stack = stack])
    BY DEF abortHandRefundAllCommits
  <2>2. Keeps(table, t) /\ DealerStores(t)
    BY <1>0, <1>4, AbortFact DEF SettleEvalError, AbortHand
  <2> HIDE DEF t, stack
  <2>3. Stays(table, t)
    BY <1>2, <2>1
  <2> QED BY <1>1, <2>2, <2>3
<1> QED BY <1>3, <1>4

\* Time seats and deals nobody.
LEMMA NextBlockSeats ==
    ASSUME SeatInv, NEW secs \in BlockSecs, NextBlock(secs)
    PROVE  SeatPart'
<1> DEFINE a == Elapse(table.actionTimer, secs)
           r == Elapse(table.revealTimer, secs)
<1>1. table \in TableType /\ SeatPart
  BY DEF SeatInv, IInv, TypeOK
<1>2. table' = [table EXCEPT !.actionTimer = a, !.revealTimer = r] /\ dealtTo' = dealtTo
  BY DEF NextBlock
<1> HIDE DEF a, r
<1>3. /\ table'.player = table.player /\ table'.inHand = table.inHand
      /\ table'.folded = table.folded /\ table'.phase = table.phase
      /\ table'.stack = table.stack
  BY <1>1, <1>2 DEF TableType
<1>4. Live(table') = Live(table)
  BY <1>3 DEF Live
<1> QED BY <1>1, <1>2, <1>3, <1>4
        DEF SeatPart, OneSeatEach, LiveSeatKeepsPlayer, AtRest, Tidy

-----------------------------------------------------------------------------

\* A new table seats nobody and deals to nobody.
LEMMA InitSeats == Init => SeatInv
<1> SUFFICES ASSUME Init PROVE SeatInv
  OBVIOUS
<1>1. /\ table.player = Nobody /\ table.inHand = {} /\ table.stack = Zero
  BY Zenon DEF Init, Idle
<1>2. Live(table) = {} /\ \A s \in Seats : table.player[s] = NoPlayer /\ table.stack[s] = 0
  BY <1>1 DEF Live, Nobody, Zero
<1> QED BY <1>1, <1>2, InitIInv
        DEF SeatInv, SeatPart, OneSeatEach, LiveSeatKeepsPlayer, AtRest, Tidy

\* Every message of a player, every call of x/dealer and every block preserves it.
LEMMA NextSeats == SeatInv /\ [Next]_vars => SeatInv'
<1> SUFFICES ASSUME SeatInv, [Next]_vars PROVE SeatPart'
  BY NextIInv DEF SeatInv
<1>0. IInv
  BY DEF SeatInv
<1>1. ASSUME NEW p \in Players, NEW n \in Amounts, Sit(p, n) PROVE SeatPart'
  BY <1>1, SitSeats
<1>2. ASSUME NEW p \in Players, NEW n \in Amounts, Rebuy(p, n) PROVE SeatPart'
  BY <1>2, RebuySeats
<1>3. ASSUME NEW p \in Players, Leave(p) PROVE SeatPart'
  BY <1>3, LeaveSeats
<1>4. ASSUME NEW p \in Players, StartHand(p) PROVE SeatPart'
  BY <1>4, StartHandSeats
<1>5. ASSUME NEW p \in Players, Fold(p) PROVE SeatPart'
  <2>1. Act(p, applyFold(table, table.actionOn)) /\ CanAct(table)
    BY Zenon, <1>5 DEF Fold, Act
  <2> QED BY <1>0, <2>1, ActorFact, ActionStays, FoldFact, ActSeats DEF Keeps
<1>6. ASSUME NEW p \in Players, Check(p) PROVE SeatPart'
  <2>1. Act(p, applyCheck(table, table.actionOn)) /\ CanAct(table)
    BY <1>6 DEF Check
  <2> QED BY <1>0, <2>1, ActorFact, ActionStays, CheckFact, ActSeats DEF Keeps
<1>7. ASSUME NEW p \in Players, Call(p) PROVE SeatPart'
  <2>1. Act(p, applyCall(table, table.actionOn)) /\ CanAct(table)
    BY <1>7 DEF Call
  <2> QED BY <1>0, <2>1, ActorFact, ActionStays, CallFact, ActSeats DEF Keeps
<1>8. ASSUME NEW p \in Players, NEW n \in Amounts, BetTo(p, n) PROVE SeatPart'
  <2>1. /\ Act(p, applyBetTo(table, table.actionOn, n)) /\ CanAct(table)
        /\ BetToAccepted(table, table.actionOn, n)
    BY <1>8 DEF BetTo
  <2>2. n \in Nat
    BY TableParams
  <2> QED BY <1>0, <2>1, <2>2, ActorFact, ActionStays, BetToFact, ActSeats DEF Keeps
<1>9. ASSUME Tick PROVE SeatPart'
  BY <1>9, TickSeats
<1>10. ASSUME \/ \E size \in DeckSizes : InitHand(size)
              \/ FinalizeDeck \/ AdvanceAfterHoleSharesReady \/ RevealBoard \/ RevealHole
       PROVE  SeatPart'
  BY <1>10, DealerSeats
<1>11. ASSUME SettleShowdown \/ SettleEvalError \/ AbortHand PROVE SeatPart'
  BY <1>11, SettleSeats
<1>12. ASSUME NEW secs \in BlockSecs, NextBlock(secs) PROVE SeatPart'
  BY <1>12, NextBlockSeats
<1>13. ASSUME UNCHANGED vars PROVE SeatPart'
  BY Zenon, <1>13
     DEF vars, SeatInv, SeatPart, OneSeatEach, LiveSeatKeepsPlayer, AtRest, Tidy
<1> QED BY <1>1, <1>2, <1>3, <1>4, <1>5, <1>6, <1>7, <1>8, <1>9, <1>10, <1>11, <1>12,
           <1>13 DEF Next

\* Sit's check against a second seat, autoAssignSeat, Leave, Rebuy and the ejection
\* together keep every player to at most one seat, and a seat with live cards to the
\* player to whom StartHand dealt them, in every state.
THEOREM SeatsStayPersonal == Spec => []SeatsArePersonal
<1>1. SeatInv => SeatsArePersonal
  BY DEF SeatInv, SeatPart, SeatsArePersonal
<1> QED BY <1>1, InitSeats, NextSeats, PTL DEF Spec
=============================================================================
