--------------------------- MODULE ShowdownCases ---------------------------
(***************************************************************************)
(* The showdown.  Its pots: the side-pot computation run tier by tier for   *)
(* every way a few seats may have committed chips and be ranked.  Its hands: *)
(* the evaluator on every seven cards of small packs, and on every showdown  *)
(* of two seats with nine cards.                                            *)
(***************************************************************************)
EXTENDS SidePots, HandEval

CONSTANTS
    Dealt,      \* seats that may have chips in the pot
    MaxCommit,  \* bound: chips per seat
    Ranks,      \* strengths of hands
    Packs,      \* sets of cards to take seven from
    NineCards   \* sets of nine cards to deal to a board and two seats

VARIABLES commit, eligible, rank, st, show
showdownVars == <<commit, eligible, rank, st, show>>

Sorted(cards) == SelectSeq([i \in 1 .. 52 |-> i - 1], LAMBDA c : c \in cards)

OneHand(cards) == [board |-> SubSeq(Sorted(cards), 1, 5), holes |-> 0 :> SubSeq(Sorted(cards), 6, 7)]

TwoHands(board, first, second) ==
    [board |-> Sorted(board), holes |-> 0 :> Sorted(first) @@ 3 :> Sorted(second)]

Showdowns ==
    {OneHand(cards) : cards \in UNION {kSubset(7, P) : P \in Packs}}
    \cup UNION {{TwoHands(board, first, (D \ board) \ first) :
                  first \in kSubset(2, D \ board)} :
                 <<D, board>> \in UNION {{<<D, b>> : b \in kSubset(5, D)} : D \in NineCards}}

NoShow == [board |-> <<>>, holes |-> <<>>]

\* Pots yet to be cut, and no cards.
PotsOf(commits) ==
    /\ show = NoShow
    /\ commit \in commits
    /\ eligible \in SUBSET {s \in Dealt : commit[s] > 0}
    /\ rank \in [eligible -> Ranks]
    /\ st = OpenPots(commit)

InitPots ==
    PotsOf({[s \in Seats |-> IF s \in Dealt THEN c[s] ELSE 0] : c \in [Dealt -> 0..MaxCommit]})

ShowdownIdle == PotsOf({[s \in Seats |-> 1]}) /\ eligible = {}

InitHands ==
    /\ show \in Showdowns
    /\ commit = [s \in Seats |-> 0] /\ eligible = {} /\ rank = <<>>
    /\ st = OpenPots(commit)

ShowdownInit == InitPots \/ InitHands

\* One round of computeSidePots' loop.
Cut ==
    /\ Contributors(st.left) # {}
    /\ st' = CutTier(st, eligible, rank)
    /\ UNCHANGED <<commit, eligible, rank, show>>

ShowdownNext == Cut

-----------------------------------------------------------------------------
(* The textbook definition: one pot for every distinct commitment of a seat *)
(* that is still in, holding what all seats put between it and the one      *)
(* below.                                                                   *)

Levels == {commit[s] : s \in eligible}
Below(l) == Max({0} \cup {k \in Levels : k < l})
PotAt(l) == SeatSum([s \in Seats |-> Lesser(commit[s], l) - Lesser(commit[s], Below(l))])
Contenders(l) == {s \in eligible : commit[s] >= l}
Best(l) == {s \in Contenders(l) : \A o \in Contenders(l) : rank[o] <= rank[s]}

ShareAt(l, s) ==
    IF s \notin Best(l) THEN 0
    ELSE PotAt(l) \div Cardinality(Best(l))
         + (IF s = Min(Best(l)) THEN PotAt(l) % Cardinality(Best(l)) ELSE 0)

Reference == [s \in Seats |-> MapThenSumSet(LAMBDA l : ShareAt(l, s), Levels)]

Done == Contributors(st.left) = {}

\* The pots that packages/poker-engine reports for the same hand.
Engine == INSTANCE PokerEngine WITH SmallBlind <- 1, BigBlind <- 2, RefundBlinds <- TRUE
EnginePots == Engine!computeSidePots(commit, eligible)

-----------------------------------------------------------------------------

\* What folded seats put in above every seat that is still in.
Overbid == SeatSum([s \in Seats |-> commit[s] - Lesser(commit[s], Max({0} \cup Levels))])

\* However many tiers it takes, computeSidePots and the award loop pay exactly
\* the textbook side pots, odd chips included; so do the nine rounds of Payout.
\* They leave unpaid what no seat still in has matched, and nothing else.
PaysTextbookPots ==
    Done => /\ ClosePot(st, rank) = Reference
            /\ Payout(commit, eligible, rank) = Reference
            /\ SeatSum(Reference) + Overbid = SeatSum(commit)

\* The pots of the TypeScript engine, split among their winners, pay every seat
\* what the chain's showdown pays it: odd chips fall alike only if both merge
\* the same tiers.  Together they hold everything that was committed.
EnginePotsPayAlike ==
    Done => /\ \A s \in Seats :
                 MapThenSumSet(LAMBDA p : PotShare(p.amount, p.eligibleSeats, rank)[s], EnginePots)
                     = ClosePot(st, rank)[s]
            /\ MapThenSumSet(LAMBDA p : p.amount, EnginePots) = SeatSum(commit)

-----------------------------------------------------------------------------
(* The rank of seven cards read off the cards at once, without choosing      *)
(* five: the best category they hold, and the ranks that decide in it.       *)

RanksIn(cards) == {cardRank(c) : c \in cards}
Copies(cards, r) == Cardinality({c \in cards : cardRank(c) = r})
AtLeast(cards, n) == {r \in RanksIn(cards) : Copies(cards, r) >= n}
Top(n, ranks) == SubSeq(Descending(ranks), 1, n)
LowAce(ranks) == ranks \cup (IF 14 \in ranks THEN {1} ELSE {})
StraightsIn(cards) == {h \in 5 .. 14 : (h - 4) .. h \subseteq LowAce(RanksIn(cards))}
Suited(cards, suit) == {c \in cards : cardSuit(c) = suit}
FlushSuits(cards) == {s \in 0 .. 3 : Cardinality(Suited(cards, s)) >= 5}
SuitedStraights(cards) == UNION {StraightsIn(Suited(cards, s)) : s \in FlushSuits(cards)}

\* The n best-paired ranks in front, then the best k of the others.
Leading(cards, lead, k) == lead \o Top(k, RanksIn(cards) \ Range(lead))

BestOf(cards) ==
    LET quads == AtLeast(cards, 4)
        trips == AtLeast(cards, 3)
        pairs == AtLeast(cards, 2)
    IN  CASE SuitedStraights(cards) # {} -> Rank("StraightFlush", <<Max(SuitedStraights(cards))>>)
          [] quads # {} -> Rank("Quads", Leading(cards, Top(1, quads), 1))
          [] trips # {} /\ Cardinality(pairs) > 1 ->
                Rank("FullHouse", Top(1, trips) \o Top(1, pairs \ {Max(trips)}))
          [] FlushSuits(cards) # {} ->
                Rank("Flush", Top(5, RanksIn(Suited(cards, Max(FlushSuits(cards))))))
          [] StraightsIn(cards) # {} -> Rank("Straight", <<Max(StraightsIn(cards))>>)
          [] trips # {} -> Rank("Trips", Leading(cards, Top(1, trips), 2))
          [] Cardinality(pairs) > 1 -> Rank("TwoPair", Leading(cards, Top(2, pairs), 1))
          [] pairs # {} -> Rank("OnePair", Leading(cards, Top(1, pairs), 3))
          [] OTHER -> Rank("HighCard", Top(5, RanksIn(cards)))

CardsOf(seat) == Range(show.board) \cup Range(show.holes[seat])

\* The best of the twenty-one fives that evaluate7 tries is the best the seven
\* cards hold, with the tiebreakers that decide: wheels, third pairs, second
\* triplets and straights beside flushes included.
EvaluatesBestHand ==
    \A seat \in DOMAIN show.holes :
        evaluate7(show.board \o show.holes[seat]) = BestOf(CardsOf(seat))

\* The loop of winners returns exactly the seats no other seat beats, whichever
\* seat comes first, ties included.
WinnersAreUnbeaten ==
    show.board # <<>> =>
        winners(show.board, show.holes) =
            {s \in DOMAIN show.holes :
               \A o \in DOMAIN show.holes :
                   compareHandRank(BestOf(CardsOf(o)), BestOf(CardsOf(s))) # 1}

\* From cards to chips: for every board, holes, commitments and folds, evaluator,
\* winners and side pots of chain and engine give every seat the textbook share.
ShowdownIsRight ==
    PaysTextbookPots /\ EnginePotsPayAlike /\ EvaluatesBestHand /\ WinnersAreUnbeaten
=============================================================================
