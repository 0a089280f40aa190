---------------------------- MODULE MCDealerHand ----------------------------
(* Small committees and tables for TLC. *)
EXTENDS DealerHand

\* Bound: the polls of two daemons do not overlap.
PollsInTurn == Cardinality({m \in Members : ~At(m, "idle")}) <= 1
=============================================================================
