------------------------------ MODULE SeatMath ------------------------------
(***************************************************************************)
(* Arithmetic over the nine seats of a table.  x/poker hard-codes the nine *)
(* (every loop is `for i := 0; i < 9; i++`, CreateTable accepts no other   *)
(* max_players), so a sum over the seats is written out term by term: that *)
(* is what lets the proofs reason about chip totals without induction.     *)
(***************************************************************************)
EXTENDS Integers

Seats == 0..8

\* The total of a per-seat amount.
SeatSum(f) ==
    f[0] + f[1] + f[2] + f[3] + f[4] + f[5] + f[6] + f[7] + f[8]

\* The number of seats in S.
SeatCount(S) == SeatSum([s \in Seats |-> IF s \in S THEN 1 ELSE 0])

\* How many seats lie strictly between `from` and s, walking clockwise; the
\* seat `from` itself comes last, as in `for step := 1; step <= 9; step++`.
Distance(from, s) == (s - from - 1) % 9

\* The first seat of S met when walking clockwise from `from`.
NextSeat(from, S) ==
    CHOOSE s \in S : \A o \in S : Distance(from, s) <= Distance(from, o)

\* A seat of S with the largest (smallest) value of f.
TopSeat(f, S) == CHOOSE s \in S : \A o \in S : f[o] <= f[s]
LowSeat(f, S) == CHOOSE s \in S : \A o \in S : f[s] <= f[o]

Lesser(a, b) == IF a < b THEN a ELSE b
=============================================================================
