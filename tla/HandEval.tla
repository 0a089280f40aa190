------------------------------ MODULE HandEval ------------------------------
(* packages/holdem-eval: the rank of five cards by counting, the best of the *)
(* twenty-one fives among seven cards, and the seats that win a showdown.    *)
(* apps/cosmos/internal/holdem/eval.go computes the same on the chain.       *)
EXTENDS Integers, FiniteSets, FiniteSetsExt, Sequences, SequencesExt

cardSuit(card) == card \div 13
cardRank(card) == (card % 13) + 2

HandCategory ==
  [HighCard |-> 0, OnePair |-> 1, TwoPair |-> 2, Trips |-> 3, Straight |-> 4, Flush |-> 5,
   FullHouse |-> 6, Quads |-> 7, StraightFlush |-> 8]

Descending(ranks) == SelectSeq([i \in 1 .. 14 |-> 15 - i], LAMBDA r : r \in ranks)

Rank(category, tiebreakers) ==
  [category |-> HandCategory[category], tiebreakers |-> tiebreakers]

\* The first tiebreaker in which two ranks of one category differ decides.
compareHandRank(a, b) ==
  LET At(h, i) == IF i <= Len(h.tiebreakers) THEN h.tiebreakers[i] ELSE 0
      differ == {i \in 1 .. Max({Len(a.tiebreakers), Len(b.tiebreakers)}) : At(a, i) # At(b, i)}
      first == Min(differ)
  IN  CASE a.category # b.category -> IF a.category < b.category THEN -1 ELSE 1
        [] a.category = b.category /\ differ # {} -> IF At(a, first) < At(b, first) THEN -1 ELSE 1
        [] OTHER -> 0

-----------------------------------------------------------------------------
(* Five cards.                                                              *)

\* The highest rank of a straight, 0 if there is none; the ace may be low.
straightHighFromRanksDesc(unique) ==
  CASE unique = <<14, 5, 4, 3, 2>> -> 5
    [] Len(unique) = 5 /\ \A i \in 2 .. 5 : unique[i - 1] - 1 = unique[i] -> unique[1]
    [] OTHER -> 0

ranksDesc(cards) == SortSeq([i \in DOMAIN cards |-> cardRank(cards[i])], >)

evaluate5(cards) ==
  LET isFlush == \A i \in DOMAIN cards : cardSuit(cards[i]) = cardSuit(cards[1])
      ranks == ranksDesc(cards)
      count(r) == Cardinality({i \in DOMAIN ranks : ranks[i] = r})
      straightHigh == straightHighFromRanksDesc(Descending(Range(ranks)))
      groups == SortSeq(Descending(Range(ranks)),
                  LAMBDA a, b : count(a) > count(b) \/ (count(a) = count(b) /\ a > b))
      shape == [i \in DOMAIN groups |-> count(groups[i])]
  IN  CASE straightHigh # 0 /\ isFlush -> Rank("StraightFlush", <<straightHigh>>)
        [] shape = <<4, 1>> -> Rank("Quads", groups)
        [] shape = <<3, 2>> -> Rank("FullHouse", groups)
        [] isFlush /\ straightHigh = 0 -> Rank("Flush", ranks)
        [] straightHigh # 0 /\ ~isFlush -> Rank("Straight", <<straightHigh>>)
        [] shape = <<3, 1, 1>> -> Rank("Trips", groups)
        [] shape = <<2, 2, 1>> -> Rank("TwoPair", groups)
        [] shape = <<2, 1, 1, 1>> -> Rank("OnePair", groups)
        [] OTHER -> Rank("HighCard", ranks)

-----------------------------------------------------------------------------
(* Seven cards.                                                             *)

COMBOS_7_CHOOSE_5 ==
  << <<0,1,2,3,4>>, <<0,1,2,3,5>>, <<0,1,2,3,6>>, <<0,1,2,4,5>>, <<0,1,2,4,6>>, <<0,1,2,5,6>>,
     <<0,1,3,4,5>>, <<0,1,3,4,6>>, <<0,1,3,5,6>>, <<0,1,4,5,6>>, <<0,2,3,4,5>>, <<0,2,3,4,6>>,
     <<0,2,3,5,6>>, <<0,2,4,5,6>>, <<0,3,4,5,6>>, <<1,2,3,4,5>>, <<1,2,3,4,6>>, <<1,2,3,5,6>>,
     <<1,2,4,5,6>>, <<1,3,4,5,6>>, <<2,3,4,5,6>> >>

evaluate7(cards) ==
  LET five(k) == evaluate5([i \in 1 .. 5 |-> cards[COMBOS_7_CHOOSE_5[k][i] + 1]])
      better(best, next) == IF compareHandRank(next, best) = 1 THEN next ELSE best
      fives == [k \in DOMAIN COMBOS_7_CHOOSE_5 |-> five(k)]
  IN  FoldLeft(better, Head(fives), Tail(fives))

\* The loop of winners: the best rank so far and the seats that have it.
AfterSeat(so, seat, rank) ==
  IF so.seats = {} \/ compareHandRank(rank, so.best) = 1
  THEN [best |-> rank, seats |-> {seat}]
  ELSE [so EXCEPT !.seats = IF compareHandRank(rank, so.best) = 0 THEN @ \cup {seat} ELSE @]

winners(board, holeCardsBySeat) ==
  LET step(so, seat) == AfterSeat(so, seat, evaluate7(board \o holeCardsBySeat[seat]))
  IN  FoldLeft(step, [best |-> Rank("HighCard", <<>>), seats |-> {}],
               SetToSortSeq(DOMAIN holeCardsBySeat, <)).seats
=============================================================================
