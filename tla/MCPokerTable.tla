---------------------------- MODULE MCPokerTable ----------------------------
(* Small tables for TLC.  The players are alike until cards are dealt: they    *)
(* are numbered by the seats they have then.  This takes the place of a        *)
(* symmetry set, which a liveness property rules out.                          *)
EXTENDS TableClients

NumberedBySeat ==
    \A s \in Seats : dealtTo[s] # NoPlayer =>
        dealtTo[s] = SeatCount({o \in 0 .. s : dealtTo[o] # NoPlayer})

Away == {p \in Players : SeatsOf(table, p) = {}}

\* Bounds: of the second hand only the deal is looked at, and before it at most
\* one player at a time is away.
FirstHand ==
    /\ NumberedBySeat
    /\ hands <= 1
    /\ hands = 1 /\ table.phase = "NONE" => \A p, q \in Away : p = q
=============================================================================
