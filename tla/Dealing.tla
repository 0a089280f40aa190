------------------------------ MODULE Dealing ------------------------------
(***************************************************************************)
(* What the dealer promises a table, whoever serves it: a hand is shuffled,*)
(* its deck is sealed once, the hole cards are dealt from the sealed deck, *)
(* and board cards are opened one by one, each while the players wait for  *)
(* it.  A hand may end at any time and is then over.                       *)
(***************************************************************************)
EXTENDS Integers

CONSTANTS NTables, Boards

VARIABLE deal   \* per table: its hand, the stage of it, and the cards opened

Ended(id)     == [id |-> id, stage |-> "none", opened |-> 0]
Becomes(t, d) == deal' = [deal EXCEPT ![t] = d]

Start(t) ==
    /\ deal[t].stage = "none"
    /\ Becomes(t, [Ended(deal[t].id + 1) EXCEPT !.stage = "shuffling"])

Seal(t) ==
    /\ deal[t].stage = "shuffling"
    /\ Becomes(t, [deal[t] EXCEPT !.stage = "sealed"])

\* All hole cards are dealt.
Dealt(t) ==
    /\ deal[t].stage = "sealed"
    /\ \E s \in {"betting", "opening"} : Becomes(t, [deal[t] EXCEPT !.stage = s])

Await(t) ==
    /\ deal[t].stage = "betting"
    /\ Becomes(t, [deal[t] EXCEPT !.stage = "opening"])

Open(t) ==
    /\ deal[t].stage = "opening" /\ deal[t].opened + 1 < Boards
    /\ \E s \in {"betting", "opening"} :
            Becomes(t, [deal[t] EXCEPT !.stage = s, !.opened = @ + 1])

End(t) ==
    /\ deal[t].stage # "none"
    /\ Becomes(t, Ended(deal[t].id))

Init == deal = [t \in 1..NTables |-> Ended(0)]

Next == \E t \in 1..NTables : Start(t) \/ Seal(t) \/ Dealt(t) \/ Await(t) \/ Open(t) \/ End(t)

Spec == Init /\ [][Next]_deal
=============================================================================
