------------------------------ MODULE SidePots ------------------------------
(***************************************************************************)
(* The side-pot computation and award of x/poker's settleKnownShowdown     *)
(* (computeSidePots, then "Award pots").  The code cuts the commitments    *)
(* into tiers, merges neighbouring tiers with the same eligible seats, and *)
(* only then splits each pot between its winners.  Here the tiers are      *)
(* taken one at a time: a tier either joins the open pot or closes it,     *)
(* which is when the pot's winners are paid.                               *)
(*                                                                         *)
(* A tier empties at least one seat, so nine tiers exhaust nine seats.     *)
(***************************************************************************)
EXTENDS SeatMath

\* Seats that still have chips in the tiers not yet cut.
Contributors(left) == {s \in Seats : left[s] > 0}

TierHeight(left) == left[LowSeat(left, Contributors(left))]

\* What each seat puts into the lowest tier: the same height from every
\* contributor, so that the tier holds min * len(remaining).
TierShare(left) ==
    [s \in Seats |-> IF left[s] > 0 THEN TierHeight(left) ELSE 0]

\* holdem.Winners: the seats of a pot with the best hand.  `rank` stands for
\* the seven-card evaluation, which compares seats by a total preorder.
Winners(seats, rank) == {s \in seats : \A o \in seats : rank[o] <= rank[s]}

\* Mutant: the odd chips are lost.
PotShareNoOddChips(amount, seats, rank) ==
    LET W == Winners(seats, rank)
    IN  [s \in Seats |-> IF s \in W THEN amount \div SeatCount(W) ELSE 0]

\* The division of one pot: equal shares, the odd chips to the first winner
\* in seat order.  A pot nobody is eligible for is paid to nobody.
PotShare(amount, seats, rank) ==
    LET W     == Winners(seats, rank)
        n     == SeatCount(W)
        first == NextSeat(8, W)
    IN  [s \in Seats |-> IF s \notin W THEN 0
                         ELSE (amount \div n) + (IF s = first THEN amount % n ELSE 0)]

\* left   chips of each seat not yet cut into a tier
\* amount, seats   the open pot
\* won    what closed pots have paid each seat
OpenPots(commit) ==
    [left |-> commit, amount |-> 0, seats |-> {}, won |-> [s \in Seats |-> 0]]

ClosePot(st, rank) ==
    LET share == PotShare(st.amount, st.seats, rank)
    IN  [s \in Seats |-> st.won[s] + share[s]]

CutTier(st, eligible, rank) ==
    LET share == TierShare(st.left)
        seats == eligible \cap Contributors(st.left)
        left  == [s \in Seats |-> st.left[s] - share[s]]
    IN  IF Contributors(st.left) = {} THEN st
        ELSE IF seats = st.seats
        THEN [left |-> left, amount |-> st.amount + SeatSum(share),
              seats |-> seats, won |-> st.won]
        ELSE [left |-> left, amount |-> SeatSum(share),
              seats |-> seats, won |-> ClosePot(st, rank)]

CutThree(st, eligible, rank) ==
    CutTier(CutTier(CutTier(st, eligible, rank), eligible, rank), eligible, rank)

\* What the showdown pays each seat.
Payout(commit, eligible, rank) ==
    LET st == CutThree(CutThree(CutThree(OpenPots(commit),
                  eligible, rank), eligible, rank), eligible, rank)
    IN  ClosePot(st, rank)
=============================================================================
