-------------------------- MODULE DealerHandProofs --------------------------
(***************************************************************************)
(* Proofs about DealerHand, for every committee, threshold and number of   *)
(* tables: no member is penalised twice in an epoch, and the handlers and  *)
(* daemons implement Dealing.                                              *)
(***************************************************************************)
EXTENDS DealerHand, FiniteSetTheorems, WellFoundedInduction, TLAPS

\* A member that was penalised in the epoch is slashed in it.
EpochInv ==
    /\ epoch = [id |-> epoch.id, slashed |-> epoch.slashed]
    /\ penalties \in [Members -> {0, 1}]
    /\ \A m \in Members : penalties[m] = 1 => m \in epoch.slashed

HandType ==
    [id : Nat, phase : {"none", "shuffle", "betting", "await"}, epoch : Nat, step : Nat,
     shufflers : SUBSET Members, finalized : BOOLEAN, enc : SUBSET (Members \X HolePos),
     pub : SUBSET Members, opened : Nat, late : BOOLEAN]

Pcs == {"idle", "table", "start", "started", "init", "deal", "submit", "finalizeDeck", "enc",
        "pub", "finalizeReveal", "timeout"}

DaemonType ==
    [pc : Pcs, epoch : Nat, table : Nat, id : Nat, round : Nat, todo : SUBSET HolePos,
     pos : Nat]

\* No hand has all its board cards, since the last one ends it, and none is bet on
\* before its deck is final.
HandOk(h) ==
    /\ h \in HandType /\ h.opened < Boards
    /\ h.phase \in {"betting", "await"} => h.finalized

HandInv == hand \in [Tables -> HandType] /\ \A t \in Tables : HandOk(hand[t])

\* A daemon that is not idle serves a table, and one that sends encrypted shares
\* has some to send.
DaemonInv ==
    /\ daemon \in [Members -> DaemonType]
    /\ \A m \in Members :
        /\ daemon[m].pc # "idle" => daemon[m].table \in Tables
        /\ daemon[m].pc = "enc" => daemon[m].todo # {}

ChainInv == epoch.id \in Nat /\ dkg \in Nat /\ nextEpoch \in Nat

IInv == EpochInv /\ HandInv /\ DaemonInv /\ ChainInv

-----------------------------------------------------------------------------
(* No member is penalised twice. *)

\* The numbers from 1 up to another are finitely many (a fact of the library).
LEMMA IntervalFinite == \A k \in Nat : IsFiniteSet(1 .. k)
<1>1. \A k \in Nat : 1 \in Int /\ k \in Int
  OBVIOUS
<1> QED BY Zenon, <1>1, FS_Interval

\* A transaction, whatever it does to the hand, keeps the penalties and the
\* slashed members in step.
LEMMA SendPenalises ==
    ASSUME EpochInv, NEW t, NEW results, Send(t, results)
    PROVE  EpochInv'
  <1>1. CASE UNCHANGED <<epoch, penalties>>
    BY <1>1 DEF EpochInv
  <1>2. ASSUME NEW S, Slash(S)
        PROVE  EpochInv'
    <2>1. epoch' = [id |-> epoch.id, slashed |-> epoch.slashed \cup S]
      BY <1>2 DEF EpochInv, Slash
    <2>2. penalties' \in [Members -> {0, 1}]
      BY <1>2 DEF EpochInv, Slash
    <2>3. ASSUME NEW m \in Members, penalties'[m] = 1 PROVE m \in epoch.slashed \cup S
      BY <1>2, <2>3 DEF EpochInv, Slash
    <2> QED BY <2>1, <2>2, <2>3 DEF EpochInv
  <1> QED BY <1>1, <1>2 DEF Send

\* Every step of a daemon sends one transaction, or leaves the epoch alone.
LEMMA StepSends ==
    ASSUME NEW m, Step(m)
    PROVE  UNCHANGED <<epoch, penalties>> \/ \E t, results : Send(t, results)
  BY Zenon
     DEF Step, Poll, ReadTable, maybeStartAndInitHand, initHand, handleShuffle, maybeFinalizeDeck,
         handleEncShares, handlePubShare, maybeFinalizeReveal, maybeDealerTimeout

\* One step of the system keeps the penalties and the slashed members in step.
LEMMA NextPenalises == EpochInv /\ [Next]_vars => EpochInv'
  <1> SUFFICES ASSUME EpochInv, [Next]_vars PROVE EpochInv'
    OBVIOUS
  <1>1. CASE UNCHANGED <<epoch, penalties>>
    BY <1>1 DEF EpochInv
  <1>2. CASE EndDkg
    <2>1. CASE epoch' = [id |-> dkg, slashed |-> Excluded] /\ penalties' = [m \in Members |-> 0]
      BY <2>1 DEF EpochInv
    <2> QED BY <1>1, <1>2, <2>1 DEF EndDkg
  <1>3. ASSUME NEW m \in Members, Step(m) PROVE EpochInv'
    BY <1>1, <1>3, StepSends, SendPenalises
  <1> QED
    BY Zenon, <1>1, <1>2, <1>3
       DEF Next, vars, Elapse, PlayersStart, PlayersBet, BeginEpoch, Crash

\* However many tables and stages find a member late, it is penalised at most once
\* in an epoch (applyPenalty runs only for members that epochSlash adds).
THEOREM PenalisedOnceHolds == Spec => []PenalisedOnce
  <1>1. Init => EpochInv
    BY DEF Init, EpochInv
  <1>2. EpochInv => PenalisedOnce
    BY DEF EpochInv, PenalisedOnce
  <1> QED BY <1>1, <1>2, NextPenalises, PTL DEF Spec

-----------------------------------------------------------------------------
(* The handlers, one hand at a time. *)

\* What Dealing allows a hand h to become, in the fields that it sees.
HandStep(h, g) ==
    \/ g.id = h.id /\ g.phase = h.phase /\ g.finalized = h.finalized /\ g.opened = h.opened
    \/ h.phase = "none" /\ g.id = h.id + 1 /\ g.phase = "shuffle" /\ ~g.finalized /\ g.opened = 0
    \/ /\ h.phase = "shuffle" /\ ~h.finalized
       /\ g.id = h.id /\ g.phase = "shuffle" /\ g.finalized /\ g.opened = h.opened
    \/ /\ h.phase = "shuffle" /\ h.finalized
       /\ g.id = h.id /\ g.phase \in {"betting", "await"} /\ g.opened = h.opened
    \/ /\ h.phase = "betting"
       /\ g.id = h.id /\ g.phase = "await" /\ g.opened = h.opened
    \/ /\ h.phase = "await" /\ h.opened + 1 < Boards
       /\ g.id = h.id /\ g.phase \in {"betting", "await"} /\ g.opened = h.opened + 1
    \/ h.phase # "none" /\ g.id = h.id /\ g.phase = "none" /\ g.opened = 0

GoodHand(h, g) == HandOk(g) /\ HandStep(h, g)

\* Every result a handler may have for hand h is one that Dealing allows.
Good(h, results) ==
    \A r \in results : r = [hand |-> r.hand, slashed |-> r.slashed] /\ GoodHand(h, r.hand)

\* A result carries its hand.
LEMMA ResultGood ==
    ASSUME NEW h, NEW g, GoodHand(h, g)
    PROVE  Good(h, {Result(g)})
  BY DEF Good, Result

\* A guard only removes results.
LEMMA WhenGood ==
    ASSUME NEW h, NEW ok, NEW results, ok => Good(h, results)
    PROVE  Good(h, When(ok, results))
  BY DEF Good, When

\* Whom a result slashes does not change its hand.
LEMMA SlashingGood ==
    ASSUME NEW h, NEW results, Good(h, results), NEW S
    PROVE  Good(h, Slashing(results, S))
  BY DEF Good, Slashing

\* What is there before and after a hand.
LEMMA NoHandFields ==
    ASSUME NEW id \in Nat
    PROVE  /\ NoHand(id) \in HandType
           /\ NoHand(id).id = id /\ NoHand(id).phase = "none"
           /\ NoHand(id).finalized = FALSE /\ NoHand(id).opened = 0
  <1>1. NoHand(id) \in HandType
    BY DEF HandType, NoHand
  <1> QED BY <1>1 DEF NoHand

\* A hand may end at any time.
LEMMA NoHandGood ==
    ASSUME NEW h \in HandType, h.phase # "none"
    PROVE  Good(h, {Result(NoHand(h.id))})
  <1>1. h.id \in Nat
    BY DEF HandType
  <1> DEFINE n == NoHand(h.id)
  <1>2. n \in HandType /\ n.id = h.id /\ n.phase = "none" /\ n.opened = 0
    BY Zenon, <1>1, NoHandFields
  <1>3. 0 < Boards
    BY HandParams
  <1> HIDE DEF n
  <1>4. GoodHand(h, n)
    BY <1>2, <1>3 DEF GoodHand, HandOk, HandStep
  <1> QED BY <1>4, ResultGood DEF n

\* StartHand begins a hand where there is none.
LEMMA StartHandGood ==
    ASSUME HandInv, NEW t \in Tables
    PROVE  Good(hand[t], StartHand(t))
  <1> DEFINE n == NoHand(hand[t].id + 1)
             g == [n EXCEPT !.phase = "shuffle"]
  <1>1. hand[t].id + 1 \in Nat /\ 0 < Boards
    BY HandParams DEF HandInv, HandType
  <1>2. n \in HandType /\ n.id = hand[t].id + 1 /\ n.finalized = FALSE /\ n.opened = 0
    BY Zenon, <1>1, NoHandFields
  <1> HIDE DEF n
  <1>3. g \in HandType /\ g.id = n.id /\ g.phase = "shuffle" /\ g.finalized = n.finalized
        /\ g.opened = n.opened
    BY <1>2 DEF HandType
  <1> HIDE DEF g
  <1>4. ASSUME hand[t].phase = "none" PROVE GoodHand(hand[t], g)
    BY <1>1, <1>2, <1>3, <1>4 DEF GoodHand, HandOk, HandStep
  <1> QED BY Zenon, <1>4, ResultGood, WhenGood DEF StartHand, n, g

\* InitHand changes nothing that Dealing sees.
LEMMA InitHandGood ==
    ASSUME HandInv, ChainInv, NEW t \in Tables, NEW id, NEW e
    PROVE  Good(hand[t], InitHand(t, id, e))
  <1> DEFINE g == [hand[t] EXCEPT !.epoch = e]
  <1>1. ASSUME e = epoch.id PROVE GoodHand(hand[t], g)
    <2>1. g \in HandType
      BY <1>1 DEF HandInv, ChainInv, HandType
    <2> QED BY <2>1 DEF HandInv, HandType, GoodHand, HandOk, HandStep
  <1> QED BY Zenon, <1>1, ResultGood, WhenGood DEF InitHand

\* Nor does a shuffle.
LEMMA SubmitShuffleGood ==
    ASSUME HandInv, NEW m \in Members, NEW t \in Tables, NEW id, NEW round
    PROVE  Good(hand[t], SubmitShuffle(m, t, id, round))
  <1> DEFINE g == [hand[t] EXCEPT !.step = round, !.shufflers = @ \cup {m}, !.late = FALSE]
  <1>1. ASSUME round = hand[t].step + 1 PROVE GoodHand(hand[t], g)
    <2>1. hand[t] \in HandType /\ hand[t].opened < Boards
          /\ (hand[t].phase \in {"betting", "await"} => hand[t].finalized)
      BY DEF HandInv, HandOk
    <2> DEFINE S == hand[t].shufflers \cup {m}
    <2>2. g = [hand[t] EXCEPT !.step = round, !.shufflers = S, !.late = FALSE]
      BY <2>1 DEF HandType
    <2>3. S \in SUBSET Members /\ round \in Nat
      BY <1>1, <2>1 DEF HandType
    <2> HIDE DEF S
    <2>4. g \in HandType
      BY Zenon, <2>2, <2>1, <2>3 DEF HandType
    <2>5. g.id = hand[t].id /\ g.phase = hand[t].phase /\ g.finalized = hand[t].finalized
          /\ g.opened = hand[t].opened
      BY <2>1 DEF HandType
    <2> QED BY <2>1, <2>4, <2>5 DEF GoodHand, HandOk, HandStep
  <1> QED BY Zenon, <1>1, ResultGood, WhenGood DEF SubmitShuffle

\* FinalizeDeck seals the deck, whoever is slashed by then.
LEMMA FinalizeDeckGood ==
    ASSUME HandInv, NEW t \in Tables, NEW id, NEW S
    PROVE  Good(hand[t], FinalizeDeck(t, id, S))
  <1> DEFINE g == [hand[t] EXCEPT !.finalized = TRUE, !.late = FALSE]
  <1>1. ASSUME hand[t].phase = "shuffle", ~hand[t].finalized PROVE GoodHand(hand[t], g)
    BY ZenonT(30), <1>1 DEF HandInv, HandType, GoodHand, HandOk, HandStep
  <1> QED BY Zenon, <1>1, ResultGood, WhenGood DEF FinalizeDeck

\* AdvanceAfterHoleSharesReady goes from a sealed deck to betting or to the board.
LEMMA AdvanceGood ==
    ASSUME NEW h, NEW g \in HandType,
           g.opened < Boards, g.id = h.id, g.finalized,
           \/ h.phase = "shuffle" /\ h.finalized /\ g.opened = h.opened
           \/ h.phase = "await" /\ h.opened + 1 < Boards /\ g.opened = h.opened + 1
    PROVE  Good(h, Advance(g))
  <1>1. ASSUME NEW p \in {"betting", "await"}
        PROVE  GoodHand(h, [g EXCEPT !.phase = p, !.late = FALSE])
    <2> DEFINE f == [g EXCEPT !.phase = p, !.late = FALSE]
    <2>1. f \in HandType /\ f.id = g.id /\ f.phase = p /\ f.opened = g.opened /\ f.finalized
      BY Zenon DEF HandType
    <2> HIDE DEF f
    <2>2. GoodHand(h, f)
      BY Zenon, <2>1 DEF GoodHand, HandOk, HandStep
    <2> QED BY <2>2 DEF f
  <1> QED BY <1>1 DEF Good, Advance, Hands, Result

\* An encrypted share changes nothing that Dealing sees, unless it is the last.
LEMMA SubmitEncShareGood ==
    ASSUME HandInv, NEW m \in Members, NEW t \in Tables, NEW id, NEW pos \in HolePos
    PROVE  Good(hand[t], SubmitEncShare(m, t, id, pos))
  <1> DEFINE E == hand[t].enc \cup {<<m, pos>>}
             h == [hand[t] EXCEPT !.enc = @ \cup {<<m, pos>>}]
  <1>1. hand[t] \in HandType /\ hand[t].opened < Boards
        /\ (hand[t].phase \in {"betting", "await"} => hand[t].finalized)
    BY DEF HandInv, HandOk
  <1>2. h = [hand[t] EXCEPT !.enc = E] /\ E \in SUBSET (Members \X HolePos)
    BY <1>1 DEF HandType
  <1> HIDE DEF E
  <1>3. h \in HandType /\ h.id = hand[t].id /\ h.phase = hand[t].phase
        /\ h.finalized = hand[t].finalized /\ h.opened = hand[t].opened
    BY <1>1, <1>2 DEF HandType
  <1> HIDE DEF h
  <1>4. Good(hand[t], {Result(h)})
    <2>1. GoodHand(hand[t], h)
      BY <1>1, <1>3 DEF GoodHand, HandOk, HandStep
    <2> QED BY <2>1, ResultGood
  <1>5. ASSUME hand[t].phase = "shuffle", hand[t].finalized
        PROVE  Good(hand[t], Advance(h))
    BY Zenon, <1>1, <1>3, <1>5, AdvanceGood
  <1> QED BY Zenon, <1>4, <1>5, WhenGood DEF SubmitEncShare, h

\* A public share changes nothing that Dealing sees.
LEMMA SubmitPubShareGood ==
    ASSUME HandInv, NEW m \in Members, NEW t \in Tables, NEW id, NEW pos
    PROVE  Good(hand[t], SubmitPubShare(m, t, id, pos))
  <1> DEFINE P == hand[t].pub \cup {m}
             h == [hand[t] EXCEPT !.pub = @ \cup {m}]
  <1>1. hand[t] \in HandType /\ hand[t].opened < Boards
        /\ (hand[t].phase \in {"betting", "await"} => hand[t].finalized)
    BY DEF HandInv, HandOk
  <1>2. h = [hand[t] EXCEPT !.pub = P] /\ P \in SUBSET Members
    BY <1>1 DEF HandType
  <1> HIDE DEF P
  <1>3. h \in HandType /\ h.id = hand[t].id /\ h.phase = hand[t].phase
        /\ h.finalized = hand[t].finalized /\ h.opened = hand[t].opened
    BY <1>1, <1>2 DEF HandType
  <1> HIDE DEF h
  <1>4. GoodHand(hand[t], h)
    BY <1>1, <1>3 DEF GoodHand, HandOk, HandStep
  <1> QED BY Zenon, <1>4, ResultGood, WhenGood DEF SubmitPubShare, h

\* FinalizeReveal opens one card, and the last one ends the hand.
LEMMA FinalizeRevealGood ==
    ASSUME HandInv, NEW t \in Tables, NEW id, NEW pos, NEW S
    PROVE  Good(hand[t], FinalizeReveal(t, id, pos, S))
  <1> DEFINE h == [hand[t] EXCEPT !.opened = @ + 1, !.pub = {}, !.late = FALSE]
  <1>1. /\ hand[t] \in HandType /\ hand[t].opened < Boards
        /\ hand[t].opened \in Nat /\ Boards \in Nat
        /\ hand[t].phase = "await" => hand[t].finalized
    BY HandParams DEF HandInv, HandOk, HandType
  <1> DEFINE n == hand[t].opened + 1
  <1>2. h = [hand[t] EXCEPT !.opened = n, !.pub = {}, !.late = FALSE] /\ n \in Nat
    BY <1>1 DEF HandType
  <1> HIDE DEF n
  <1>3. h \in HandType /\ h.id = hand[t].id /\ h.opened = n /\ h.finalized = hand[t].finalized
    BY Zenon, <1>1, <1>2 DEF HandType
  <1>4. h \in HandType /\ h.id = hand[t].id /\ h.opened = hand[t].opened + 1
        /\ h.finalized = hand[t].finalized
    BY <1>3 DEF n
  <1> HIDE DEF h
  <1>5. ASSUME hand[t].phase = "await" PROVE Good(hand[t], {Result(NoHand(h.id))})
    BY <1>1, <1>4, <1>5, NoHandGood
  <1>6. ASSUME hand[t].phase = "await", h.opened # Boards PROVE Good(hand[t], Advance(h))
    <2>1. hand[t].opened + 1 < Boards
      BY <1>1, <1>4, <1>6
    <2> QED BY <1>1, <1>4, <1>6, <2>1, AdvanceGood
  <1> QED BY Zenon, <1>5, <1>6, WhenGood DEF FinalizeReveal, h

\* Timeout takes a hand of this epoch or an earlier one where Dealing allows.
LEMMA TimeoutGood ==
    ASSUME HandInv, NEW t \in Tables, NEW id
    PROVE  Good(hand[t], Timeout(t, id))
  <1>1. hand[t] \in HandType /\ hand[t].opened < Boards
        /\ (hand[t].phase \in {"betting", "await"} => hand[t].finalized)
    BY DEF HandInv, HandOk
  <1>2. ASSUME Served(t) PROVE Good(hand[t], Abort(t))
    BY <1>1, <1>2, NoHandGood DEF Abort, Served
  <1>3. ASSUME Served(t) PROVE Good(hand[t], TimeoutReveal(t))
    BY <1>2, <1>3, FinalizeRevealGood, SlashingGood DEF TimeoutReveal
  <1>4. ASSUME Served(t), hand[t].phase = "shuffle", hand[t].finalized
        PROVE  Good(hand[t], TimeoutEnc(t))
    <2>1. Good(hand[t], Advance(hand[t]))
      BY <1>1, <1>4, AdvanceGood
    <2> QED BY <1>2, <1>4, <2>1, SlashingGood DEF TimeoutEnc
  <1>5. ASSUME Served(t) PROVE Good(hand[t], TimeoutShuffle(t))
    <2> DEFINE g == [hand[t] EXCEPT !.late = FALSE]
    <2>1. GoodHand(hand[t], g)
      BY Zenon, <1>1 DEF GoodHand, HandOk, HandStep, HandType
    <2>2. Good(hand[t], {Result(g)})
      BY Zenon, <2>1, ResultGood
    <2>3. Good(hand[t], {})
      BY DEF Good
    <2> QED BY <1>2, <1>5, <2>2, <2>3, FinalizeDeckGood, SlashingGood DEF TimeoutShuffle
  <1>6. hand[t].phase \in {"none", "shuffle", "betting", "await"} /\ Good(hand[t], {})
    BY <1>1 DEF HandType, Good
  <1> DEFINE late == IF hand[t].phase = "await" THEN TimeoutReveal(t)
                     ELSE IF hand[t].phase = "betting" THEN {}
                     ELSE IF hand[t].finalized THEN TimeoutEnc(t) ELSE TimeoutShuffle(t)
  <1>7. ASSUME Served(t) PROVE Good(hand[t], late)
    BY <1>3, <1>4, <1>5, <1>6, <1>7 DEF Served
  <1> HIDE DEF late
  <1>8. ASSUME Served(t) PROVE Good(hand[t], When(hand[t].late, late))
    BY <1>7, <1>8, WhenGood
  <1> QED BY Zenon, <1>2, <1>8, WhenGood DEF Timeout, late

-----------------------------------------------------------------------------
(* From hands to the abstract specification. *)

Deal == [t \in Tables |-> AsDeal(hand[t])]

\* A change of one hand that Dealing allows is a step of Dealing, or none.
LEMMA HandMoves ==
    ASSUME HandInv, NEW t \in Tables, NEW g, GoodHand(hand[t], g), Set(t, g)
    PROVE  HandInv' /\ (Promise!Next \/ UNCHANGED Deal)
  <1>1. hand' = [hand EXCEPT ![t] = g] /\ hand \in [Tables -> HandType] /\ g \in HandType
    BY DEF Set, HandInv, HandOk, GoodHand
  <1>2. HandInv'
    BY <1>1 DEF HandInv, GoodHand
  <1>3. Deal' = [Deal EXCEPT ![t] = AsDeal(g)]
    BY Zenon, <1>1 DEF Deal
  <1>4. Deal[t] = AsDeal(hand[t])
    BY DEF Deal
  <1> DEFINE d == AsDeal(hand[t])
             e == AsDeal(g)
  <1>5. d = [id |-> hand[t].id, stage |-> Stage(hand[t]), opened |-> hand[t].opened]
        /\ e = [id |-> g.id, stage |-> Stage(g), opened |-> g.opened]
    BY DEF AsDeal
  <1>6. hand[t].phase \in {"none", "shuffle", "betting", "await"}
        /\ g.phase \in {"none", "shuffle", "betting", "await"}
    BY <1>1 DEF HandType
  <1>7. /\ hand[t].phase = "none" => d.stage = "none"
        /\ hand[t].phase = "shuffle" /\ ~hand[t].finalized => d.stage = "shuffling"
        /\ hand[t].phase = "shuffle" /\ hand[t].finalized => d.stage = "sealed"
        /\ hand[t].phase = "betting" => d.stage = "betting"
        /\ hand[t].phase = "await" => d.stage = "opening"
        /\ hand[t].phase # "none" => d.stage # "none"
    BY <1>5, <1>6 DEF Stage
  <1>8. /\ g.phase = "none" => Stage(g) = "none"
        /\ g.phase = "shuffle" /\ ~g.finalized => Stage(g) = "shuffling"
        /\ g.phase = "shuffle" /\ g.finalized => Stage(g) = "sealed"
        /\ g.phase = "betting" => Stage(g) = "betting"
        /\ g.phase = "await" => Stage(g) = "opening"
    BY <1>6 DEF Stage
  <1>9. d.id = hand[t].id /\ d.opened = hand[t].opened
    BY <1>5
  <1> HIDE DEF d, e
  <1> DEFINE h == hand[t]
  <1>10. CASE g.id = h.id /\ g.phase = h.phase /\ g.finalized = h.finalized /\ g.opened = h.opened
    <2>1. Stage(g) = Stage(h)
      BY <1>10 DEF Stage
    <2>2. e = d
      BY <1>5, <1>10, <2>1
    <2>3. Deal' = Deal
      BY Zenon, <1>3, <1>4, <2>2 DEF Deal, d, e
    <2> QED BY <1>2, <2>3
  <1>11. CASE /\ h.phase = "none" /\ g.id = h.id + 1 /\ g.phase = "shuffle"
              /\ ~g.finalized /\ g.opened = 0
    <2>1. d.stage = "none" /\ e = [id |-> d.id + 1, stage |-> "shuffling", opened |-> 0]
      BY <1>5, <1>7, <1>8, <1>9, <1>11
    <2>2. Promise!Start(t)
      BY Zenon, <1>3, <1>4, <2>1
         DEF Promise!Start, Promise!Becomes, Promise!Ended, Deal, d, e
    <2> QED BY <1>2, <2>2 DEF Promise!Next, Tables
  <1>12. CASE /\ h.phase = "shuffle" /\ ~h.finalized /\ g.id = h.id /\ g.phase = "shuffle"
              /\ g.finalized /\ g.opened = h.opened
    <2>1. d.stage = "shuffling" /\ e = [d EXCEPT !.stage = "sealed"]
      BY <1>5, <1>7, <1>8, <1>9, <1>12
    <2>2. Promise!Seal(t)
      BY <1>3, <1>4, <2>1 DEF Promise!Seal, Promise!Becomes, Promise!Ended, Deal, d, e
    <2> QED BY <1>2, <2>2 DEF Promise!Next, Tables
  <1>13. CASE /\ h.phase = "shuffle" /\ h.finalized /\ g.id = h.id
              /\ g.phase \in {"betting", "await"} /\ g.opened = h.opened
    <2>1. d.stage = "sealed" /\ \E s \in {"betting", "opening"} : e = [d EXCEPT !.stage = s]
      BY <1>5, <1>7, <1>8, <1>9, <1>13
    <2>2. Promise!Dealt(t)
      BY Zenon, <1>3, <1>4, <2>1
         DEF Promise!Dealt, Promise!Becomes, Promise!Ended, Deal, d, e
    <2> QED BY <1>2, <2>2 DEF Promise!Next, Tables
  <1>14. CASE /\ h.phase = "betting" /\ g.id = h.id
              /\ g.phase = "await" /\ g.opened = h.opened
    <2>1. d.stage = "betting" /\ e = [d EXCEPT !.stage = "opening"]
      BY <1>5, <1>7, <1>8, <1>9, <1>14
    <2>2. Promise!Await(t)
      BY <1>3, <1>4, <2>1 DEF Promise!Await, Promise!Becomes, Promise!Ended, Deal, d, e
    <2> QED BY <1>2, <2>2 DEF Promise!Next, Tables
  <1>15. CASE /\ h.phase = "await" /\ h.opened + 1 < Boards /\ g.id = h.id
              /\ g.phase \in {"betting", "await"} /\ g.opened = h.opened + 1
    <2>1. d.stage = "opening" /\ d.opened + 1 < Boards
      BY <1>7, <1>9, <1>15
    <2> DEFINE n == d.opened + 1
    <2>2. e = [id |-> d.id, stage |-> Stage(g), opened |-> n] /\ Stage(g) \in {"betting", "opening"}
      BY <1>5, <1>8, <1>9, <1>15
    <2> HIDE DEF n
    <2>3. e = [d EXCEPT !.stage = Stage(g), !.opened = n]
      <3> DEFINE f == [d EXCEPT !.stage = Stage(g), !.opened = n]
      <3>1. DOMAIN d = {"id", "stage", "opened"} /\ DOMAIN e = DOMAIN d
        BY <1>5
      <3>2. f = [x \in DOMAIN d |-> f[x]] /\ e = [x \in DOMAIN e |-> e[x]]
        BY Zenon, <1>5
      <3>3. f.id = d.id /\ f.stage = Stage(g) /\ f.opened = n
        BY <3>1
      <3>4. e.id = d.id /\ e.stage = Stage(g) /\ e.opened = n
        BY <2>2
      <3> HIDE DEF f
      <3>5. e = f
        BY <3>1, <3>2, <3>3, <3>4
      <3> QED BY <3>5 DEF f
    <2>4. /\ d.stage = "opening" /\ d.opened + 1 < Boards
          /\ \E s \in {"betting", "opening"} : e = [d EXCEPT !.stage = s, !.opened = @ + 1]
      BY Zenon, <2>1, <2>2, <2>3 DEF n
    <2>5. Promise!Open(t)
      BY Zenon, <1>3, <1>4, <2>4
         DEF Promise!Open, Promise!Becomes, Promise!Ended, Deal, d, e
    <2> QED BY <1>2, <2>5 DEF Promise!Next, Tables
  <1>16. CASE /\ h.phase # "none" /\ g.id = h.id
              /\ g.phase = "none" /\ g.opened = 0
    <2>1. d.stage # "none" /\ e = [id |-> d.id, stage |-> "none", opened |-> 0]
      BY <1>5, <1>7, <1>8, <1>9, <1>16
    <2>2. Promise!End(t)
      BY <1>3, <1>4, <2>1 DEF Promise!End, Promise!Becomes, Promise!Ended, Deal, d, e
    <2> QED BY <1>2, <2>2 DEF Promise!Next, Tables
  <1> QED
    BY <1>10, <1>11, <1>12, <1>13, <1>14, <1>15, <1>16 DEF GoodHand, HandOk, HandStep

\* A transaction whose results Dealing allows is a step of Dealing, or none.
LEMMA SendMoves ==
    ASSUME HandInv, NEW t \in Tables, NEW results, Good(hand[t], results), Send(t, results)
    PROVE  HandInv' /\ (Promise!Next \/ UNCHANGED Deal)
  <1>1. ASSUME UNCHANGED hand PROVE HandInv' /\ UNCHANGED Deal
    BY <1>1 DEF HandInv, Deal
  <1>2. ASSUME NEW r \in results, Set(t, r.hand) PROVE HandInv' /\ (Promise!Next \/ UNCHANGED Deal)
    BY <1>2, HandMoves DEF Good
  <1> QED BY <1>1, <1>2 DEF Send

\* What a daemon's step does to the hands.
LEMMA StepMoves ==
    ASSUME IInv, NEW m \in Members, Step(m)
    PROVE  HandInv' /\ (Promise!Next \/ UNCHANGED Deal)
  <1> DEFINE d == daemon[m]
             Moves == HandInv' /\ (Promise!Next \/ UNCHANGED Deal)
  <1>1. ASSUME UNCHANGED hand PROVE Moves
    BY <1>1 DEF IInv, HandInv, Deal
  <1>2. d \in DaemonType /\ (d.pc # "idle" => d.table \in Tables) /\ (d.pc = "enc" => d.todo # {})
    BY DEF IInv, DaemonInv
  <1>3. HandInv /\ ChainInv
    BY DEF IInv
  <1>4. ASSUME NEW results, d.table \in Tables, Good(hand[d.table], results), Send(d.table, results)
        PROVE  Moves
    BY <1>3, <1>4, SendMoves
  <1> SUFFICES Moves
    OBVIOUS
  <1> HIDE DEF Moves
  <1>5. CASE Poll(m) \/ ReadTable(m)
    BY Zenon, <1>1, <1>5 DEF Poll, ReadTable
  <1>6. CASE maybeStartAndInitHand(m)
    BY <1>2, <1>3, <1>4, <1>6, StartHandGood, InitHandGood DEF maybeStartAndInitHand, At
  <1>7. CASE initHand(m)
    BY <1>2, <1>3, <1>4, <1>7, InitHandGood DEF initHand, At
  <1>8. CASE handleShuffle(m)
    BY <1>1, <1>2, <1>3, <1>4, <1>8, SubmitShuffleGood DEF handleShuffle, At
  <1>9. CASE maybeFinalizeDeck(m)
    BY <1>2, <1>3, <1>4, <1>9, FinalizeDeckGood DEF maybeFinalizeDeck, At
  <1>10. CASE handleEncShares(m)
    <2> DEFINE pos == CHOOSE p \in d.todo : TRUE
    <2>1. d.pc = "enc" /\ Send(d.table, SubmitEncShare(m, d.table, d.id, pos))
      BY <1>10 DEF handleEncShares, At
    <2>2. d.todo \in SUBSET HolePos
      BY <1>2 DEF DaemonType
    <2>3. pos \in HolePos
      BY <1>2, <2>1, <2>2
    <2> HIDE DEF pos
    <2> QED BY <1>2, <1>3, <1>4, <2>1, <2>3, SubmitEncShareGood
  <1>11. CASE handlePubShare(m)
    BY <1>2, <1>3, <1>4, <1>11, SubmitPubShareGood DEF handlePubShare, At
  <1>12. CASE maybeFinalizeReveal(m)
    BY <1>2, <1>3, <1>4, <1>12, FinalizeRevealGood DEF maybeFinalizeReveal, At
  <1>13. CASE maybeDealerTimeout(m)
    BY <1>2, <1>3, <1>4, <1>13, TimeoutGood DEF maybeDealerTimeout, At
  <1> QED
    BY <1>5, <1>6, <1>7, <1>8, <1>9, <1>10, <1>11, <1>12, <1>13 DEF Step

-----------------------------------------------------------------------------
(* The daemons' and the epochs' part of the invariant. *)

\* A daemon stays at its table until it goes on to the next one.
LEMMA DaemonSteps ==
    ASSUME IInv, NEW m \in Members, Step(m) \/ Crash(m)
    PROVE  DaemonInv'
  <1> DEFINE d == daemon[m]
             Fits(e) == /\ e \in DaemonType
                        /\ e.pc # "idle" => e.table \in Tables
                        /\ e.pc = "enc" => e.todo # {}
  <1>1. daemon \in [Members -> DaemonType] /\ Fits(d)
    BY DEF IInv, DaemonInv
  <1>2. ASSUME NEW e, Fits(e), daemon' = [daemon EXCEPT ![m] = e]
        PROVE  DaemonInv'
    BY <1>2 DEF IInv, DaemonInv
  <1>3. Idle \in DaemonType /\ Idle.pc = "idle"
    BY DEF Idle, DaemonType, Pcs
  <1>4. ASSUME NEW pc \in Pcs, pc # "enc", d.pc # "idle", Goto(m, pc)
        PROVE  DaemonInv'
    <2> DEFINE e == [d EXCEPT !.pc = pc]
    <2>1. Fits(e)
      BY <1>1, <1>4 DEF DaemonType
    <2>2. daemon' = [daemon EXCEPT ![m] = e]
      BY <1>1, <1>4 DEF Goto
    <2> QED BY Zenon, <1>2, <2>1, <2>2
  <1>5. ASSUME d.pc # "idle", NextTable(m)
        PROVE  DaemonInv'
    <2> DEFINE n == d.table + 1
               e == [Idle EXCEPT !.pc = "table", !.epoch = d.epoch, !.table = n]
    <2>1. daemon' = [daemon EXCEPT ![m] = IF d.table = NTables THEN Idle ELSE e]
      BY <1>5 DEF NextTable
    <2>2. d.epoch \in Nat /\ d.table \in 1..NTables /\ NTables \in Nat
      BY <1>1, <1>5, HandParams DEF DaemonType, Tables
    <2>3. n \in Nat /\ (d.table # NTables => n \in Tables)
      BY <2>2 DEF Tables
    <2> HIDE DEF n
    <2>4. e \in DaemonType /\ e.pc = "table" /\ e.table = n
      BY Zenon, <1>3, <2>2, <2>3 DEF DaemonType, Pcs
    <2> HIDE DEF e
    <2>5. Fits(Idle) /\ (d.table # NTables => Fits(e))
      BY <1>3, <2>3, <2>4
    <2> QED BY Zenon, <1>2, <2>1, <2>5
  <1>6. CASE Poll(m)
    <2> DEFINE e == [d EXCEPT !.pc = "table", !.epoch = epoch.id, !.table = 1]
    <2>1. daemon' = [daemon EXCEPT ![m] = e]
      BY Zenon, <1>1, <1>6 DEF Poll
    <2>2. epoch.id \in Nat /\ 1 \in Tables
      BY HandParams DEF IInv, ChainInv, Tables
    <2>3. e \in DaemonType /\ e.pc = "table" /\ e.table = 1
      BY Zenon, <1>1, <2>2 DEF DaemonType, Pcs
    <2> HIDE DEF e
    <2>4. Fits(e)
      BY <2>2, <2>3
    <2> QED BY Zenon, <1>2, <2>1, <2>4
  <1>7. CASE ReadTable(m)
    <2> DEFINE h == hand[d.table]
               todo == IF m \in Keyless THEN {} ELSE HolePos
               owed == IF h.finalized /\ h.phase \in {"shuffle", "betting"} THEN todo ELSE {}
               pc == IF h.phase = "none" THEN "start"
                     ELSE IF h.phase = "shuffle" /\ ~h.finalized
                          THEN IF h.epoch = 0 THEN "init" ELSE "deal"
                     ELSE IF h.phase = "await"
                          THEN IF m \in Keyless THEN "finalizeReveal" ELSE "pub"
                     ELSE IF todo = {} THEN "timeout" ELSE "enc"
               e == [d EXCEPT !.id = h.id, !.pos = h.opened, !.todo = owed, !.pc = pc]
    <2>1. daemon' = [daemon EXCEPT ![m] = e] /\ d.pc = "table"
      BY ZenonT(30), <1>1, <1>7 DEF ReadTable, At
    <2>2. h \in HandType /\ (h.phase = "betting" => h.finalized)
      BY <1>1, <2>1 DEF IInv, HandInv, HandOk
    <2>3. h.id \in Nat /\ h.opened \in Nat /\ h.phase \in {"none", "shuffle", "betting", "await"}
      BY <2>2 DEF HandType
    <2>4. owed \in SUBSET HolePos /\ pc \in Pcs /\ (pc = "enc" => owed # {})
      BY <2>2, <2>3 DEF Pcs
    <2> HIDE DEF todo, h, owed, pc
    <2>5. e \in DaemonType /\ e.table = d.table /\ e.pc = pc /\ e.todo = owed
      BY Zenon, <1>1, <2>3, <2>4 DEF DaemonType
    <2> HIDE DEF e
    <2>6. Fits(e)
      BY <1>1, <2>1, <2>4, <2>5
    <2> QED BY Zenon, <1>2, <2>1, <2>6
  <1> SUFFICES DaemonInv'
    OBVIOUS
  <1> HIDE DEF Fits
  <1>8. CASE maybeStartAndInitHand(m)
    BY <1>4, <1>5, <1>8 DEF maybeStartAndInitHand, At, Pcs
  <1>9. CASE initHand(m)
    BY <1>4, <1>9 DEF initHand, At, Pcs
  <1>10. CASE handleShuffle(m)
    <2> DEFINE r == hand[d.table].step + 1
               e == [d EXCEPT !.pc = "submit", !.round = r]
    <2>1. ASSUME d.pc = "deal", daemon' = [daemon EXCEPT ![m].pc = "submit", ![m].round = r]
          PROVE  DaemonInv'
      <3>1. daemon' = [daemon EXCEPT ![m] = e]
        BY Zenon, <1>1, <2>1
      <3>2. r \in Nat
        BY <1>1, <2>1 DEF Fits, IInv, HandInv, HandType
      <3> HIDE DEF r
      <3>3. e \in DaemonType /\ e.pc = "submit" /\ e.table = d.table
        BY Zenon, <1>1, <3>2 DEF DaemonType, Pcs, Fits
      <3> HIDE DEF e
      <3>4. Fits(e)
        BY <1>1, <2>1, <3>3 DEF Fits
      <3> QED BY Zenon, <1>2, <3>1, <3>4
    <2>2. ASSUME d.pc = "deal", daemon' = [daemon EXCEPT ![m].pc = "finalizeDeck"]
          PROVE  DaemonInv'
      BY <1>4, <2>2 DEF Goto, Pcs
    <2>3. ASSUME d.pc = "submit", Goto(m, "finalizeDeck")
          PROVE  DaemonInv'
      BY <1>4, <2>3 DEF Pcs
    <2> QED BY <1>10, <2>1, <2>2, <2>3 DEF handleShuffle, At
  <1>11. CASE maybeFinalizeDeck(m)
    BY <1>4, <1>11 DEF maybeFinalizeDeck, At, Pcs
  <1>12. CASE handleEncShares(m)
    <2> DEFINE pos == CHOOSE p \in d.todo : TRUE
               duplicate == hand[d.table].id = d.id /\ <<m, pos>> \in hand[d.table].enc
               rest == IF SubmitEncShare(m, d.table, d.id, pos) # {} \/ duplicate
                       THEN d.todo \ {pos} ELSE {}
               pc == IF rest = {} THEN "timeout" ELSE "enc"
               e == [d EXCEPT !.todo = rest, !.pc = pc]
    <2>1. d.pc = "enc" /\ daemon' = [daemon EXCEPT ![m].todo = rest, ![m].pc = pc]
      BY <1>12 DEF handleEncShares, At
    <2>2. d.todo \in SUBSET HolePos
      BY <1>1 DEF Fits, DaemonType
    <2>3. rest \in SUBSET HolePos
      BY <2>2
    <2> HIDE DEF rest
    <2>4. pc \in Pcs /\ (pc = "enc" => rest # {})
      BY DEF Pcs
    <2> HIDE DEF pc
    <2>5. daemon' = [daemon EXCEPT ![m] = e]
      BY Zenon, <1>1, <2>1
    <2>6. e \in DaemonType /\ e.pc = pc /\ e.todo = rest /\ e.table = d.table
      BY Zenon, <1>1, <2>3, <2>4 DEF DaemonType, Fits
    <2> HIDE DEF e
    <2>7. Fits(e)
      BY <1>1, <2>1, <2>4, <2>6 DEF Fits
    <2> QED BY Zenon, <1>2, <2>5, <2>7
  <1>13. CASE handlePubShare(m) \/ maybeFinalizeReveal(m)
    BY <1>4, <1>13 DEF handlePubShare, maybeFinalizeReveal, At, Pcs
  <1>14. CASE maybeDealerTimeout(m)
    BY <1>5, <1>14 DEF maybeDealerTimeout, At
  <1>15. CASE Crash(m)
    <2>1. Fits(Idle)
      BY <1>3 DEF Fits
    <2> QED BY Zenon, <1>2, <1>15, <2>1 DEF Crash
  <1> QED
    BY <1>6, <1>7, <1>8, <1>9, <1>10, <1>11, <1>12, <1>13, <1>14, <1>15 DEF Step

\* Epochs are numbered.
LEMMA ChainSteps ==
    ASSUME IInv, Next
    PROVE  ChainInv'
  <1>1. CASE UNCHANGED <<epoch, dkg, nextEpoch>>
    BY <1>1 DEF IInv, ChainInv
  <1>2. ASSUME NEW t, NEW results, Send(t, results) PROVE ChainInv'
    <2>1. ASSUME NEW S, Slash(S) PROVE epoch'.id = epoch.id
      BY <2>1 DEF Slash, IInv, EpochInv
    <2>2. epoch'.id = epoch.id /\ UNCHANGED <<dkg, nextEpoch>>
      BY <1>2, <2>1 DEF Send
    <2> QED BY <2>2 DEF IInv, ChainInv
  <1>3. CASE BeginEpoch \/ EndDkg
    BY <1>3 DEF BeginEpoch, EndDkg, IInv, ChainInv
  <1>4. ASSUME NEW m \in Members, Step(m)
        PROVE  UNCHANGED <<epoch, dkg, nextEpoch>> \/ \E t, results : Send(t, results)
    BY Zenon, <1>4
       DEF Step, Poll, ReadTable, maybeStartAndInitHand, initHand, handleShuffle,
       maybeFinalizeDeck, handleEncShares, handlePubShare, maybeFinalizeReveal, maybeDealerTimeout
  <1> QED
    BY Zenon, <1>1, <1>2, <1>3, <1>4
       DEF Next, Elapse, PlayersStart, PlayersBet, Crash

-----------------------------------------------------------------------------
(* The implementation. *)

\* Deadlines and players move hands as Dealing allows.
LEMMA TableMoves ==
    ASSUME HandInv, NEW t \in Tables, Elapse(t) \/ PlayersStart(t) \/ PlayersBet(t)
    PROVE  HandInv' /\ (Promise!Next \/ UNCHANGED Deal)
  <1>1. /\ hand[t] \in HandType /\ hand[t].opened < Boards
        /\ hand[t].phase \in {"betting", "await"} => hand[t].finalized
    BY DEF HandInv, HandOk
  <1>2. CASE Elapse(t)
    <2> DEFINE g == [hand[t] EXCEPT !.late = TRUE]
    <2>1. GoodHand(hand[t], g)
      BY Zenon, <1>1 DEF GoodHand, HandOk, HandStep, HandType
    <2> QED BY <1>2, <2>1, HandMoves DEF Elapse
  <1>3. CASE PlayersStart(t)
    BY <1>3, StartHandGood, HandMoves DEF PlayersStart, Good
  <1>4. CASE PlayersBet(t)
    <2> DEFINE g == [hand[t] EXCEPT !.phase = "await"]
    <2>1. hand[t].phase = "betting" /\ (Set(t, g) \/ Set(t, NoHand(hand[t].id)))
      BY <1>4 DEF PlayersBet
    <2>2. GoodHand(hand[t], g)
      BY <1>1, <2>1 DEF GoodHand, HandOk, HandStep, HandType
    <2>3. Good(hand[t], {Result(NoHand(hand[t].id))})
      BY <1>1, <2>1, NoHandGood
    <2>4. GoodHand(hand[t], NoHand(hand[t].id))
      BY <2>3 DEF Good, Result
    <2> HIDE DEF g
    <2> QED BY <2>1, <2>2, <2>4, HandMoves
  <1> QED BY <1>2, <1>3, <1>4

\* Every step is one of Dealing, or none, and keeps the invariant.
LEMMA NextMoves ==
    ASSUME IInv, [Next]_vars
    PROVE  IInv' /\ (Promise!Next \/ UNCHANGED Deal)
  <1> DEFINE Moves == HandInv' /\ (Promise!Next \/ UNCHANGED Deal)
  <1>1. EpochInv'
    BY NextPenalises DEF IInv
  <1>2. CASE UNCHANGED vars
    <2>1. HandInv' /\ UNCHANGED Deal
      BY <1>2 DEF vars, IInv, HandInv, Deal
    <2>2. DaemonInv' /\ ChainInv'
      BY <1>2 DEF vars, IInv, DaemonInv, ChainInv
    <2> QED BY <1>1, <2>1, <2>2 DEF IInv
  <1>3. CASE Next
    <2>1. ChainInv'
      BY <1>3, ChainSteps
    <2>2. ASSUME UNCHANGED hand PROVE Moves
      BY <2>2 DEF IInv, HandInv, Deal
    <2>3. ASSUME UNCHANGED daemon PROVE DaemonInv'
      BY <2>3 DEF IInv, DaemonInv
    <2>4. ASSUME NEW t \in Tables, Elapse(t) \/ PlayersStart(t) \/ PlayersBet(t)
          PROVE  Moves /\ DaemonInv'
      <3>1. UNCHANGED daemon
        BY <2>4 DEF Elapse, PlayersStart, PlayersBet
      <3>2. Moves
        BY <2>4, TableMoves DEF IInv
      <3> QED BY <2>3, <3>1, <3>2
    <2>5. ASSUME BeginEpoch \/ EndDkg PROVE Moves /\ DaemonInv'
      <3>1. UNCHANGED hand /\ UNCHANGED daemon
        BY <2>5 DEF BeginEpoch, EndDkg
      <3> QED BY <2>2, <2>3, <3>1
    <2>6. ASSUME NEW m \in Members, Step(m) PROVE Moves /\ DaemonInv'
      BY <2>6, StepMoves, DaemonSteps
    <2>7. ASSUME NEW m \in Members, Crash(m) PROVE Moves /\ DaemonInv'
      <3>1. UNCHANGED hand
        BY <2>7 DEF Crash
      <3> QED BY <2>2, <2>7, <3>1, DaemonSteps
    <2>8. Moves /\ DaemonInv'
      <3> HIDE DEF Moves
      <3> QED BY <1>3, <2>4, <2>5, <2>6, <2>7 DEF Next
    <2> QED BY <1>1, <2>1, <2>8 DEF IInv
  <1> QED BY <1>2, <1>3

\* The invariant holds at first, and the hands are those of Dealing.
LEMMA InitMoves == Init => IInv /\ Promise!Init
  <1> SUFFICES ASSUME Init PROVE IInv /\ Promise!Init
    OBVIOUS
  <1>1. EpochInv /\ ChainInv
    BY DEF Init, EpochInv, ChainInv
  <1>2. NoHand(0) \in HandType /\ NoHand(0).id = 0 /\ NoHand(0).phase = "none" /\ NoHand(0).opened = 0
    BY Zenon, NoHandFields
  <1>3. hand = [t \in Tables |-> NoHand(0)]
    BY DEF Init
  <1>4. HandInv
    BY <1>2, <1>3, HandParams DEF HandInv, HandOk
  <1>5. Idle \in DaemonType /\ Idle.pc = "idle"
    BY DEF Idle, DaemonType, Pcs
  <1>6. DaemonInv
    BY <1>5 DEF Init, DaemonInv
  <1>7. AsDeal(NoHand(0)) = [id |-> 0, stage |-> "none", opened |-> 0]
    BY <1>2 DEF AsDeal, Stage
  <1>8. Promise!Init
    BY <1>3, <1>7 DEF Promise!Init, Promise!Ended, Tables
  <1> QED BY <1>1, <1>4, <1>6, <1>8 DEF IInv

\* The handlers, timeouts and daemons implement Dealing: no hole card before the
\* deck is final, no board card the players do not wait for, none twice, and no
\* hand comes back.
THEOREM ImplementsDealing == Spec => Implements
  <1>1. IInv /\ [Next]_vars => IInv' /\ [Promise!Next]_Deal
    BY NextMoves
  <1> QED BY <1>1, InitMoves, PTL DEF Spec, Implements, Promise!Spec, Deal

-----------------------------------------------------------------------------
(* Only debtors are slashed. *)

\* A hand of this epoch: those of its shufflers that still count come before the
\* index at which the chain waits, in the list of those that still count.
Turn(h, e) ==
    /\ h.epoch <= e.id
    /\ h.epoch = 0 => h.shufflers = {}
    /\ h.epoch = e.id =>
         \A m \in h.shufflers \ e.slashed : Cardinality(QualBefore(e.slashed, m)) < h.step

\* Epochs come in order, and a hand is of one that has begun.
TurnInv ==
    /\ epoch.id < nextEpoch
    /\ dkg # 0 => epoch.id < dkg /\ dkg < nextEpoch
    /\ \A t \in Tables : Turn(hand[t], epoch)

DebtInv == IInv /\ TurnInv

\* What member m owes the hand h.
Owes(h, m) ==
    \/ h.phase = "await" /\ m \notin h.pub
    \/ h.phase = "shuffle" /\ h.finalized /\ \E p \in HolePos : <<m, p>> \notin h.enc
    \/ h.phase = "shuffle" /\ ~h.finalized /\ m \notin h.shufflers

\* A set of naturals that is not empty has a least member.
LEMMA Least ==
    ASSUME NEW T \in SUBSET Nat, T # {}
    PROVE  \E x \in T : \A y \in T : x <= y
  <1> DEFINE R == OpToRel(<, Nat)
  <1>1. IsWellFoundedOn(R, Nat)
    BY Zenon, NatLessThanWellFounded
  <1>2. \A x, y \in Nat : y < x => <<y, x>> \in R
    BY DEF OpToRel
  <1> HIDE DEF R
  <1>3. PICK x \in T : \A y \in T : ~(<<y, x>> \in R)
    BY Zenon, <1>1, WFMin
  <1>4. ASSUME NEW y \in T PROVE x <= y
    <2>1. x \in Nat /\ y \in Nat /\ ~(y < x)
      BY Zenon, <1>2, <1>3
    <2> QED BY <2>1
  <1> QED BY <1>4

\* Lists of qualified members are finite.
LEMMA QualFinite ==
    ASSUME NEW S, NEW m
    PROVE  /\ IsFiniteSet(Qual(S)) /\ Cardinality(Qual(S)) \in Nat
           /\ IsFiniteSet(QualBefore(S, m)) /\ Cardinality(QualBefore(S, m)) \in Nat
  <1>1. IsFiniteSet(Members)
    BY HandParams, IntervalFinite DEF Members
  <1>2. Qual(S) \in SUBSET Members /\ QualBefore(S, m) \in SUBSET Members
    BY DEF Qual, QualBefore
  <1> QED BY <1>1, <1>2, FS_Subset, FS_CardinalityType

\* Slashing more members moves nobody back in the list.
LEMMA QualShrinks ==
    ASSUME NEW S, NEW T, S \subseteq T, NEW m
    PROVE  Cardinality(QualBefore(T, m)) <= Cardinality(QualBefore(S, m))
  <1>1. QualBefore(T, m) \in SUBSET QualBefore(S, m)
    BY DEF QualBefore, Qual
  <1> QED BY <1>1, QualFinite, FS_Subset

\* Below the length of the list there is a member at every index.
LEMMA QualAtFact ==
    ASSUME NEW S, NEW k \in Nat, k < Cardinality(Qual(S))
    PROVE  /\ QualAt(S, k) \in Qual(S)
           /\ Cardinality(QualBefore(S, QualAt(S, k))) = k
  <1> DEFINE B(x) == QualBefore(S, x)
             T    == {x \in 1..(N + 1) : Cardinality(B(x)) > k}
  <1>1. \A q \in Qual(S) : q \in Int /\ 1 <= q /\ q <= N
    BY HandParams DEF Qual, Members
  <1>2. B(N + 1) = Qual(S) /\ B(1) = {}
    <2>1. \A q \in Qual(S) : q < N + 1 /\ ~(q < 1)
      BY <1>1, HandParams
    <2> QED BY <2>1 DEF QualBefore
  <1>3. N \in Nat /\ \A x : IsFiniteSet(B(x)) /\ Cardinality(B(x)) \in Nat
    BY QualFinite, HandParams
  <1>4. Cardinality(B(N + 1)) > k /\ ~(Cardinality(B(1)) > k)
    BY <1>2, <1>3, FS_EmptySet
  <1>5. T \in SUBSET Nat /\ T # {}
    BY <1>3, <1>4
  <1>6. PICK x \in T : \A y \in T : x <= y
    BY Zenon, <1>5, Least
  <1> DEFINE y == x - 1
  <1>7. x \in 2..(N + 1)
    BY <1>3, <1>4, <1>6
  <1>8. y \in 1..(N + 1) /\ y \notin T /\ Cardinality(B(x)) > k
    BY <1>3, <1>6, <1>7
  <1>9. Cardinality(B(y)) <= k
    BY <1>3, <1>8
  <1>10. (\A q \in Qual(S) : q < x <=> q < y \/ q = y) /\ ~(y < y)
    BY <1>1, <1>7
  <1> HIDE DEF y
  <1>11. CASE y \in Qual(S)
    <2>1. B(x) = B(y) \cup {y} /\ y \notin B(y)
      BY <1>10, <1>11 DEF QualBefore
    <2>2. Cardinality(B(x)) = Cardinality(B(y)) + 1
      BY Zenon, <1>3, <2>1, FS_AddElement
    <2>3. Cardinality(B(y)) = k
      BY <1>3, <1>8, <1>9, <2>2
    <2> QED BY <1>11, <2>3 DEF QualAt
  <1>12. CASE y \notin Qual(S)
    <2>1. B(x) = B(y)
      BY <1>10, <1>12 DEF QualBefore
    <2> QED BY <1>3, <1>8, <1>9, <2>1
  <1> QED BY <1>11, <1>12

\* The member that the chain waits for has not shuffled the deck.
LEMMA ExpectsFact ==
    ASSUME HandInv, TurnInv, NEW t \in Tables, InEpoch(t),
           hand[t].step < Cardinality(Qual(epoch.slashed))
    PROVE  /\ Expects(t) \in Qual(epoch.slashed) /\ Expects(t) \notin hand[t].shufflers
           /\ Cardinality(QualBefore(epoch.slashed, Expects(t))) = hand[t].step
  <1>1. hand[t].step \in Nat
    BY DEF HandInv, HandType
  <1>2. /\ Expects(t) \in Qual(epoch.slashed)
        /\ Cardinality(QualBefore(epoch.slashed, Expects(t))) = hand[t].step
    BY <1>1, QualAtFact DEF Expects
  <1>3. \A m \in hand[t].shufflers \ epoch.slashed :
            Cardinality(QualBefore(epoch.slashed, m)) < hand[t].step
    BY DEF TurnInv, Turn, InEpoch
  <1> QED BY <1>1, <1>2, <1>3 DEF Qual

\* What a transaction may do to the hand h: it leaves a hand whose shufflers come
\* first, and whom it slashes was late with something.
Fair(h, results) ==
    \A r \in results :
        /\ Turn(r.hand, epoch)
        /\ \A m \in r.slashed : h.late /\ ~r.hand.late /\ Owes(h, m)

\* Results that slash nobody, with no deadline missed.
Calm(results) ==
    \A r \in results :
        /\ r = [hand |-> r.hand, slashed |-> {}]
        /\ Turn(r.hand, epoch) /\ ~r.hand.late

\* Results that slash nobody are fair.
LEMMA CalmFair ==
    ASSUME NEW h, NEW results, Calm(results)
    PROVE  Fair(h, results)
  <1>1. ASSUME NEW r \in results PROVE Turn(r.hand, epoch) /\ r.slashed = {}
    <2>1. r = [hand |-> r.hand, slashed |-> {}] /\ Turn(r.hand, epoch)
      BY DEF Calm
    <2> QED BY <2>1
  <1> QED BY <1>1 DEF Fair

\* A result that slashes nobody.
LEMMA ResultCalm ==
    ASSUME NEW g, Turn(g, epoch), ~g.late
    PROVE  Calm({Result(g)})
  BY DEF Calm, Result

\* A guard only removes results.
LEMMA WhenCalm ==
    ASSUME NEW ok, NEW results, ok => Calm(results)
    PROVE  Calm(When(ok, results))
  BY DEF Calm, When

\* Slashing those who owe something to a hand that is late.
LEMMA SlashingFair ==
    ASSUME NEW h, NEW results, Calm(results), NEW S, h.late, \A m \in S : Owes(h, m)
    PROVE  Fair(h, Slashing(results, S))
  <1>1. ASSUME NEW r \in Slashing(results, S)
        PROVE  Turn(r.hand, epoch) /\ ~r.hand.late /\ r.slashed = S
    <2>1. PICK q \in results : r = [q EXCEPT !.slashed = S]
      BY DEF Slashing
    <2>2. q = [hand |-> q.hand, slashed |-> {}] /\ Turn(q.hand, epoch) /\ ~q.hand.late
      BY DEF Calm
    <2>3. r.hand = q.hand /\ r.slashed = S
      BY <2>1, <2>2
    <2> QED BY <2>2, <2>3
  <1> QED BY <1>1 DEF Fair

\* The end of a hand.
LEMMA NoHandCalm ==
    ASSUME ChainInv, NEW id
    PROVE  Calm({Result(NoHand(id))}) /\ Turn(NoHand(id), epoch)
  <1> DEFINE n == NoHand(id)
  <1>1. n.epoch = 0 /\ n.shufflers = {} /\ n.late = FALSE
    BY DEF NoHand
  <1>2. epoch.id \in Nat
    BY DEF ChainInv
  <1> HIDE DEF n
  <1>3. Turn(n, epoch)
    BY <1>1, <1>2 DEF Turn
  <1> QED BY <1>1, <1>3, ResultCalm DEF n

\* A change of other fields.
LEMMA SameTurn ==
    ASSUME NEW h, NEW g, NEW e, Turn(h, e),
           g.epoch = h.epoch, g.shufflers = h.shufflers, g.step = h.step
    PROVE  Turn(g, e)
  BY DEF Turn

\* StartHand: no shufflers yet.
LEMMA StartHandCalm ==
    ASSUME ChainInv, NEW t \in Tables
    PROVE  Calm(StartHand(t))
  <1> DEFINE n == NoHand(hand[t].id + 1)
             g == [n EXCEPT !.phase = "shuffle"]
  <1>1. g.epoch = 0 /\ g.shufflers = {} /\ g.late = FALSE
    BY DEF NoHand
  <1>2. epoch.id \in Nat
    BY DEF ChainInv
  <1> HIDE DEF g
  <1>3. Turn(g, epoch)
    BY <1>1, <1>2 DEF Turn
  <1>4. Calm({Result(g)})
    BY <1>1, <1>3, ResultCalm
  <1> QED BY <1>4, WhenCalm DEF StartHand, g

\* InitHand: the hand is of this epoch, and nobody has shuffled it.
LEMMA InitHandFair ==
    ASSUME HandInv, ChainInv, TurnInv, NEW t \in Tables, NEW id, NEW e
    PROVE  Fair(hand[t], InitHand(t, id, e))
  <1> DEFINE g == [hand[t] EXCEPT !.epoch = e]
  <1> SUFFICES ASSUME hand[t].epoch = 0, e = epoch.id
               PROVE  Turn(g, epoch)
    BY DEF Fair, InitHand, When, Result
  <1>1. hand[t] \in HandType /\ hand[t].shufflers = {} /\ epoch.id \in Nat
    BY DEF HandInv, TurnInv, Turn, ChainInv
  <1>2. g.epoch = epoch.id /\ g.shufflers = {}
    BY <1>1 DEF HandType
  <1> HIDE DEF g
  <1> QED BY <1>1, <1>2 DEF Turn

\* SubmitShuffle: the shuffler's index is the one the chain waited at.
LEMMA SubmitShuffleCalm ==
    ASSUME HandInv, ChainInv, TurnInv, NEW m \in Members, NEW t \in Tables, NEW id, NEW round
    PROVE  Calm(SubmitShuffle(m, t, id, round))
  <1> DEFINE g == [hand[t] EXCEPT !.step = round, !.shufflers = @ \cup {m}, !.late = FALSE]
             F == hand[t].shufflers \cup {m}
  <1>1. ASSUME InEpoch(t), round = hand[t].step + 1, m = Expects(t),
               hand[t].step < Cardinality(Qual(epoch.slashed))
        PROVE  Calm({Result(g)})
    <2>1. hand[t] \in HandType /\ hand[t].step \in Nat /\ Turn(hand[t], epoch)
          /\ hand[t].epoch = epoch.id /\ epoch.id \in Nat /\ hand[t].epoch # 0
      BY <1>1 DEF HandInv, HandType, TurnInv, InEpoch, Served, ChainInv
    <2>2. g.epoch = hand[t].epoch /\ g.step = round /\ g.shufflers = F /\ g.late = FALSE
      BY <2>1 DEF HandType
    <2>3. Cardinality(QualBefore(epoch.slashed, m)) = hand[t].step
      BY <1>1, ExpectsFact
    <2>4. ASSUME NEW o \in F \ epoch.slashed
          PROVE  Cardinality(QualBefore(epoch.slashed, o)) < round
      <3>1. Cardinality(QualBefore(epoch.slashed, o)) \in Nat
        BY QualFinite
      <3>2. CASE o = m
        BY <1>1, <2>1, <2>3, <3>2
      <3>3. CASE o \in hand[t].shufflers
        BY <1>1, <2>1, <3>1, <3>3 DEF Turn
      <3> QED BY <3>2, <3>3
    <2> HIDE DEF g, F
    <2>5. Turn(g, epoch)
      BY <2>1, <2>2, <2>4 DEF Turn
    <2> QED BY <2>2, <2>5, ResultCalm
  <1> QED BY Zenon, <1>1, WhenCalm DEF SubmitShuffle

\* finalizeDeck leaves the shufflers as they are.
LEMMA FinalizeDeckCalm ==
    ASSUME HandInv, TurnInv, NEW t \in Tables, NEW id, NEW S
    PROVE  Calm(FinalizeDeck(t, id, S))
  <1> DEFINE g == [hand[t] EXCEPT !.finalized = TRUE, !.late = FALSE]
  <1>1. hand[t] \in HandType /\ Turn(hand[t], epoch)
    BY DEF HandInv, TurnInv
  <1>2. g.epoch = hand[t].epoch /\ g.step = hand[t].step /\ g.shufflers = hand[t].shufflers
        /\ g.late = FALSE
    BY <1>1 DEF HandType
  <1> HIDE DEF g
  <1>3. Calm({Result(g)})
    BY <1>1, <1>2, SameTurn, ResultCalm
  <1> QED BY Zenon, <1>3, WhenCalm DEF FinalizeDeck, g

\* AdvanceAfterHoleSharesReady too.
LEMMA AdvanceCalm ==
    ASSUME NEW g \in HandType, Turn(g, epoch)
    PROVE  Calm(Advance(g))
  <1>1. ASSUME NEW p \in {"betting", "await"}
        PROVE  LET f == [g EXCEPT !.phase = p, !.late = FALSE]
               IN  Turn(f, epoch) /\ ~f.late
    <2> DEFINE f == [g EXCEPT !.phase = p, !.late = FALSE]
    <2>1. f.epoch = g.epoch /\ f.step = g.step /\ f.shufflers = g.shufflers /\ f.late = FALSE
      BY DEF HandType
    <2> HIDE DEF f
    <2>2. Turn(f, epoch) /\ ~f.late
      BY <2>1, SameTurn
    <2> QED BY <2>2 DEF f
  <1> SUFFICES ASSUME NEW r \in Advance(g)
               PROVE  r = [hand |-> r.hand, slashed |-> {}] /\ Turn(r.hand, epoch) /\ ~r.hand.late
    BY DEF Calm
  <1>2. PICK p \in {"betting", "await"} : r = Result([g EXCEPT !.phase = p, !.late = FALSE])
    BY DEF Advance, Hands
  <1> DEFINE f == [g EXCEPT !.phase = p, !.late = FALSE]
  <1>3. Turn(f, epoch) /\ ~f.late /\ r = Result(f)
    BY Zenon, <1>1, <1>2
  <1> HIDE DEF f
  <1> QED BY <1>3 DEF Result

\* An encrypted share changes nothing about the shuffle.
LEMMA SubmitEncShareCalm ==
    ASSUME HandInv, TurnInv, NEW m \in Members, NEW t \in Tables, NEW id, NEW pos \in HolePos
    PROVE  Calm(SubmitEncShare(m, t, id, pos))
  <1> DEFINE E == hand[t].enc \cup {<<m, pos>>}
             h == [hand[t] EXCEPT !.enc = @ \cup {<<m, pos>>}]
  <1>1. hand[t] \in HandType /\ Turn(hand[t], epoch)
    BY DEF HandInv, TurnInv
  <1>2. h = [hand[t] EXCEPT !.enc = E] /\ E \in SUBSET (Members \X HolePos)
    BY <1>1 DEF HandType
  <1> HIDE DEF E
  <1>3. h \in HandType /\ h.epoch = hand[t].epoch /\ h.step = hand[t].step
        /\ h.shufflers = hand[t].shufflers /\ h.late = hand[t].late
    BY <1>1, <1>2 DEF HandType
  <1> HIDE DEF h
  <1>4. Turn(h, epoch)
    BY <1>1, <1>3, SameTurn
  <1>5. ASSUME ~hand[t].late PROVE Calm({Result(h)})
    BY <1>3, <1>4, <1>5, ResultCalm
  <1>6. Calm(Advance(h))
    BY <1>3, <1>4, AdvanceCalm
  <1> QED BY Zenon, <1>5, <1>6, WhenCalm DEF SubmitEncShare, h

\* Nor does a public share.
LEMMA SubmitPubShareCalm ==
    ASSUME HandInv, TurnInv, NEW m \in Members, NEW t \in Tables, NEW id, NEW pos
    PROVE  Calm(SubmitPubShare(m, t, id, pos))
  <1> DEFINE h == [hand[t] EXCEPT !.pub = @ \cup {m}]
  <1>1. hand[t] \in HandType /\ Turn(hand[t], epoch)
    BY DEF HandInv, TurnInv
  <1>2. h.epoch = hand[t].epoch /\ h.step = hand[t].step
        /\ h.shufflers = hand[t].shufflers /\ h.late = hand[t].late
    BY <1>1 DEF HandType
  <1> HIDE DEF h
  <1>3. ASSUME ~hand[t].late PROVE Calm({Result(h)})
    BY <1>1, <1>2, <1>3, SameTurn, ResultCalm
  <1> QED BY Zenon, <1>3, WhenCalm DEF SubmitPubShare, h

\* Nor does an opened card.
LEMMA FinalizeRevealCalm ==
    ASSUME HandInv, ChainInv, TurnInv, NEW t \in Tables, NEW id, NEW pos, NEW S
    PROVE  Calm(FinalizeReveal(t, id, pos, S))
  <1> DEFINE n == hand[t].opened + 1
             h == [hand[t] EXCEPT !.opened = @ + 1, !.pub = {}, !.late = FALSE]
  <1>1. hand[t] \in HandType /\ Turn(hand[t], epoch)
    BY DEF HandInv, TurnInv
  <1>2. h = [hand[t] EXCEPT !.opened = n, !.pub = {}, !.late = FALSE] /\ n \in Nat
    BY <1>1 DEF HandType
  <1> HIDE DEF n
  <1>3. h \in HandType /\ h.epoch = hand[t].epoch /\ h.step = hand[t].step
        /\ h.shufflers = hand[t].shufflers
    BY Zenon, <1>1, <1>2 DEF HandType
  <1> HIDE DEF h
  <1>4. Calm(Advance(h))
    BY <1>1, <1>3, SameTurn, AdvanceCalm
  <1>5. Calm({Result(NoHand(h.id))})
    BY NoHandCalm
  <1> QED BY Zenon, <1>4, <1>5, WhenCalm DEF FinalizeReveal, h

\* Timeout slashes the members that owe what the deadline was for: the shuffler whose
\* turn it is, those with an encrypted share missing, those whose share of the card
\* to open is missing.
LEMMA TimeoutFair ==
    ASSUME HandInv, ChainInv, TurnInv, NEW t \in Tables, NEW id
    PROVE  Fair(hand[t], Timeout(t, id))
  <1>1. hand[t] \in HandType /\ Turn(hand[t], epoch)
    BY DEF HandInv, TurnInv
  <1>2. Calm(Abort(t))
    BY NoHandCalm DEF Abort
  <1>3. ASSUME hand[t].phase = "await", hand[t].late PROVE Fair(hand[t], TimeoutReveal(t))
    <2>1. \A m \in MissingPub(t) : Owes(hand[t], m)
      BY <1>3 DEF MissingPub, Owes
    <2> QED BY <1>2, <1>3, <2>1, FinalizeRevealCalm, SlashingFair DEF TimeoutReveal
  <1>4. ASSUME hand[t].phase = "shuffle", hand[t].finalized, hand[t].late
        PROVE  Fair(hand[t], TimeoutEnc(t))
    <2>1. \A m \in MissingEnc(t) : Owes(hand[t], m)
      BY <1>4 DEF MissingEnc, Owes
    <2>2. Calm(Advance(hand[t]))
      BY <1>1, AdvanceCalm
    <2> QED BY <1>2, <1>4, <2>1, <2>2, SlashingFair DEF TimeoutEnc
  <1>5. ASSUME InEpoch(t), hand[t].phase = "shuffle", ~hand[t].finalized, hand[t].late
        PROVE  Fair(hand[t], TimeoutShuffle(t))
    <2> DEFINE q == Cardinality(Qual(epoch.slashed))
               S == epoch.slashed \cup {Expects(t)}
               g == [hand[t] EXCEPT !.late = FALSE]
               rest == IF ~Enough(S) THEN Abort(t)
                       ELSE IF hand[t].step = q - 1 THEN FinalizeDeck(t, hand[t].id, S)
                       ELSE {Result(g)}
    <2>1. hand[t].step \in Nat /\ q \in Nat
      BY <1>1, QualFinite DEF HandType
    <2>2. g.epoch = hand[t].epoch /\ g.step = hand[t].step /\ g.shufflers = hand[t].shufflers
          /\ g.late = FALSE
      BY <1>1 DEF HandType
    <2> HIDE DEF g
    <2>3. Calm({Result(g)})
      BY <1>1, <2>2, SameTurn, ResultCalm
    <2>4. Calm(rest)
      BY <1>2, <2>3, FinalizeDeckCalm
    <2>5. ASSUME hand[t].step < q PROVE Owes(hand[t], Expects(t))
      BY <1>5, <2>5, ExpectsFact DEF Owes
    <2> HIDE DEF rest
    <2>6. ASSUME hand[t].step < q PROVE Fair(hand[t], Slashing(rest, {Expects(t)}))
      BY <1>5, <2>4, <2>5, <2>6, SlashingFair
    <2>7. Fair(hand[t], Abort(t)) /\ Fair(hand[t], {})
          /\ Fair(hand[t], FinalizeDeck(t, hand[t].id, epoch.slashed))
      <3>1. Fair(hand[t], {})
        BY DEF Fair
      <3> QED BY <1>2, <3>1, FinalizeDeckCalm, CalmFair
    <2>8. TimeoutShuffle(t) = IF q = 0 THEN Abort(t)
                              ELSE IF hand[t].step = q
                                   THEN FinalizeDeck(t, hand[t].id, epoch.slashed)
                              ELSE IF hand[t].step > q THEN {}
                              ELSE Slashing(rest, {Expects(t)})
      BY DEF TimeoutShuffle, rest, g
    <2> HIDE DEF q
    <2> QED BY <2>1, <2>6, <2>7, <2>8
  <1> DEFINE late == IF hand[t].phase = "await" THEN TimeoutReveal(t)
                     ELSE IF hand[t].phase = "betting" THEN {}
                     ELSE IF hand[t].finalized THEN TimeoutEnc(t) ELSE TimeoutShuffle(t)
  <1>6. ASSUME InEpoch(t), hand[t].late PROVE Fair(hand[t], late)
    <2>1. hand[t].phase \in {"shuffle", "betting", "await"} /\ Fair(hand[t], {})
      BY <1>1, <1>6 DEF HandType, InEpoch, Served, Fair
    <2> QED BY <1>3, <1>4, <1>5, <1>6, <2>1
  <1> HIDE DEF late
  <1>7. ASSUME InEpoch(t) PROVE Fair(hand[t], When(hand[t].late, late))
    BY <1>6, <1>7 DEF Fair, When
  <1>8. Fair(hand[t], Abort(t))
    BY <1>2, CalmFair
  <1>9. Fair(hand[t], IF ~InEpoch(t) THEN Abort(t) ELSE When(hand[t].late, late))
    BY <1>7, <1>8
  <1> QED BY <1>9 DEF Timeout, Fair, When, late

\* Slashing at one table leaves the shufflers of the others first.
LEMMA SlashTurn ==
    ASSUME NEW h, NEW e, NEW f, Turn(h, e), h.step \in Nat, f.id = e.id, e.slashed \subseteq f.slashed
    PROVE  Turn(h, f)
  <1>1. ASSUME NEW m \in h.shufflers \ f.slashed, h.epoch = e.id
        PROVE  Cardinality(QualBefore(f.slashed, m)) < h.step
    <2>1. Cardinality(QualBefore(e.slashed, m)) < h.step
      BY <1>1 DEF Turn
    <2>2. Cardinality(QualBefore(f.slashed, m)) <= Cardinality(QualBefore(e.slashed, m))
      BY QualShrinks
    <2>3. /\ Cardinality(QualBefore(f.slashed, m)) \in Nat
          /\ Cardinality(QualBefore(e.slashed, m)) \in Nat
      BY QualFinite
    <2> QED BY <2>1, <2>2, <2>3
  <1> QED BY <1>1 DEF Turn

\* What OnlyDebtorsSlashed says of one step.
DebtStep ==
    \A m \in epoch'.slashed \ epoch.slashed :
        epoch'.id = epoch.id =>
        \E t \in Tables : hand[t].late /\ hand[t] # hand'[t] /\ Owes(hand[t], m)

\* Steps that leave the epoch alone and change one hand as allowed.
LEMMA HandTurns ==
    ASSUME IInv, TurnInv, NEW t \in Tables, NEW g, Turn(g, epoch), Set(t, g),
           UNCHANGED <<epoch, dkg, nextEpoch>>
    PROVE  TurnInv' /\ DebtStep
  <1>1. hand' = [hand EXCEPT ![t] = g] /\ DOMAIN hand = Tables
    BY DEF Set, IInv, HandInv
  <1>2. \A o \in Tables : hand'[o] = IF o = t THEN g ELSE hand[o]
    BY <1>1 DEF IInv, HandInv
  <1> QED BY <1>2 DEF TurnInv, DebtStep

\* A fair transaction slashes only debtors.
LEMMA SendFair ==
    ASSUME IInv, IInv', TurnInv, NEW t \in Tables, NEW results, Fair(hand[t], results), Send(t, results)
    PROVE  TurnInv' /\ DebtStep
  <1>1. ASSUME UNCHANGED <<hand, epoch>> PROVE TurnInv' /\ DebtStep
    BY Zenon, <1>1 DEF Send, TurnInv, DebtStep
  <1>2. ASSUME NEW r \in results, Set(t, r.hand), Slash(r.slashed) PROVE TurnInv' /\ DebtStep
    <2>1. epoch' = [id |-> epoch.id, slashed |-> epoch.slashed \cup r.slashed]
      BY <1>2 DEF IInv, EpochInv, Slash
    <2>2. epoch'.id = epoch.id /\ epoch'.slashed = epoch.slashed \cup r.slashed
      BY <2>1
    <2>3. \A o \in Tables : hand'[o] = IF o = t THEN r.hand ELSE hand[o]
      BY <1>2 DEF Set, IInv, HandInv
    <2>4. Turn(r.hand, epoch) /\ \A m \in r.slashed : hand[t].late /\ ~r.hand.late /\ Owes(hand[t], m)
      BY DEF Fair
    <2>5. DebtStep
      BY <2>2, <2>3, <2>4 DEF DebtStep
    <2>6. ASSUME NEW o \in Tables PROVE Turn(hand'[o], epoch')
      <3>1. Turn(hand'[o], epoch)
        BY <2>3, <2>4 DEF TurnInv
      <3>2. hand'[o].step \in Nat
        BY DEF IInv, HandInv, HandType
      <3> QED BY <2>2, <3>1, <3>2, SlashTurn
    <2>7. UNCHANGED <<dkg, nextEpoch>>
      BY DEF Send
    <2> QED BY <2>2, <2>5, <2>6, <2>7 DEF TurnInv
  <1> QED BY <1>1, <1>2 DEF Send

\* What a daemon sends slashes only debtors.
LEMMA StepFair ==
    ASSUME IInv, IInv', TurnInv, NEW m \in Members, Step(m)
    PROVE  TurnInv' /\ DebtStep
  <1> DEFINE d == daemon[m]
             Moves == TurnInv' /\ DebtStep
  <1>1. ASSUME UNCHANGED <<hand, epoch, dkg, nextEpoch>> PROVE Moves
    BY <1>1 DEF TurnInv, DebtStep
  <1>2. d \in DaemonType /\ (d.pc # "idle" => d.table \in Tables) /\ (d.pc = "enc" => d.todo # {})
    BY DEF IInv, DaemonInv
  <1>3. HandInv /\ ChainInv /\ TurnInv
    BY DEF IInv
  <1>4. ASSUME NEW results, d.table \in Tables, Fair(hand[d.table], results), Send(d.table, results)
        PROVE  Moves
    BY <1>4, SendFair
  <1>5. ASSUME NEW results, d.table \in Tables, Calm(results), Send(d.table, results)
        PROVE  Moves
    BY <1>4, <1>5, CalmFair
  <1> SUFFICES Moves
    OBVIOUS
  <1> HIDE DEF Moves
  <1>6. CASE Poll(m) \/ ReadTable(m)
    BY Zenon, <1>1, <1>6 DEF Poll, ReadTable
  <1>7. CASE maybeStartAndInitHand(m)
    BY Zenon, <1>2, <1>3, <1>4, <1>5, <1>7, StartHandCalm, InitHandFair
       DEF maybeStartAndInitHand, At
  <1>8. CASE initHand(m)
    BY Zenon, <1>2, <1>3, <1>4, <1>8, InitHandFair DEF initHand, At
  <1>9. CASE handleShuffle(m)
    BY <1>1, <1>2, <1>3, <1>5, <1>9, SubmitShuffleCalm DEF handleShuffle, At
  <1>10. CASE maybeFinalizeDeck(m)
    BY <1>2, <1>3, <1>5, <1>10, FinalizeDeckCalm DEF maybeFinalizeDeck, At
  <1>11. CASE handleEncShares(m)
    <2> DEFINE pos == CHOOSE p \in d.todo : TRUE
    <2>1. d.pc = "enc" /\ Send(d.table, SubmitEncShare(m, d.table, d.id, pos))
      BY <1>11 DEF handleEncShares, At
    <2>2. d.todo \in SUBSET HolePos
      BY <1>2 DEF DaemonType
    <2>3. pos \in HolePos
      BY <1>2, <2>1, <2>2
    <2> HIDE DEF pos
    <2> QED BY <1>2, <1>3, <1>5, <2>1, <2>3, SubmitEncShareCalm
  <1>12. CASE handlePubShare(m)
    BY <1>2, <1>3, <1>5, <1>12, SubmitPubShareCalm DEF handlePubShare, At
  <1>13. CASE maybeFinalizeReveal(m)
    BY <1>2, <1>3, <1>5, <1>13, FinalizeRevealCalm DEF maybeFinalizeReveal, At
  <1>14. CASE maybeDealerTimeout(m)
    BY <1>2, <1>3, <1>4, <1>14, TimeoutFair DEF maybeDealerTimeout, At
  <1> QED
    BY <1>6, <1>7, <1>8, <1>9, <1>10, <1>11, <1>12, <1>13, <1>14 DEF Step

\* Every step keeps the order of the shufflers and slashes only debtors.
LEMMA NextFair ==
    ASSUME IInv, IInv', TurnInv, [Next]_vars
    PROVE  TurnInv' /\ DebtStep
  <1>1. ASSUME UNCHANGED <<hand, epoch, dkg, nextEpoch>> PROVE TurnInv' /\ DebtStep
    BY Zenon, <1>1 DEF TurnInv, DebtStep
  <1>2. ASSUME NEW t \in Tables, Elapse(t) PROVE TurnInv' /\ DebtStep
    <2> DEFINE g == [hand[t] EXCEPT !.late = TRUE]
    <2>1. hand[t] \in HandType /\ Turn(hand[t], epoch)
      BY DEF IInv, HandInv, TurnInv
    <2>2. g.epoch = hand[t].epoch /\ g.step = hand[t].step /\ g.shufflers = hand[t].shufflers
      BY <2>1 DEF HandType
    <2> HIDE DEF g
    <2>3. Turn(g, epoch)
      BY <2>1, <2>2, SameTurn
    <2> QED BY <1>2, <2>3, HandTurns DEF Elapse, g
  <1>3. ASSUME NEW t \in Tables, PlayersStart(t) PROVE TurnInv' /\ DebtStep
    <2>1. Calm(StartHand(t))
      BY StartHandCalm DEF IInv
    <2>2. PICK r \in StartHand(t) : Set(t, r.hand)
      BY <1>3 DEF PlayersStart
    <2>3. Turn(r.hand, epoch)
      BY <2>1 DEF Calm
    <2> QED BY <1>3, <2>2, <2>3, HandTurns DEF PlayersStart
  <1>4. ASSUME NEW t \in Tables, PlayersBet(t) PROVE TurnInv' /\ DebtStep
    <2> DEFINE g == [hand[t] EXCEPT !.phase = "await"]
    <2>1. hand[t] \in HandType /\ Turn(hand[t], epoch)
      BY DEF IInv, HandInv, TurnInv
    <2>2. g.epoch = hand[t].epoch /\ g.step = hand[t].step /\ g.shufflers = hand[t].shufflers
      BY <2>1 DEF HandType
    <2>3. (Set(t, g) \/ Set(t, NoHand(hand[t].id))) /\ UNCHANGED <<epoch, dkg, nextEpoch>>
      BY <1>4 DEF PlayersBet
    <2> HIDE DEF g
    <2>4. Turn(g, epoch) /\ Turn(NoHand(hand[t].id), epoch)
      BY Zenon, <2>1, <2>2, SameTurn, NoHandCalm DEF IInv
    <2> QED BY <2>3, <2>4, HandTurns
  <1>5. CASE BeginEpoch
    <2>1. UNCHANGED <<hand, epoch>> /\ dkg' = nextEpoch /\ nextEpoch' = nextEpoch + 1
      BY <1>5 DEF BeginEpoch
    <2>2. nextEpoch \in Nat /\ epoch.id \in Nat
      BY DEF IInv, ChainInv
    <2>3. \A t \in Tables : Turn(hand'[t], epoch')
      BY <2>1 DEF TurnInv
    <2>4. DebtStep
      BY <2>1 DEF DebtStep
    <2> QED BY <2>1, <2>2, <2>3, <2>4 DEF TurnInv
  <1>6. CASE EndDkg
    <2>1. UNCHANGED <<hand, nextEpoch>> /\ dkg # 0 /\ dkg' = 0
          /\ (UNCHANGED epoch \/ epoch' = [id |-> dkg, slashed |-> Excluded])
      BY <1>6 DEF EndDkg
    <2>2. CASE UNCHANGED epoch
      BY <2>1, <2>2 DEF TurnInv, DebtStep
    <2>3. CASE epoch' = [id |-> dkg, slashed |-> Excluded]
      <3>1. epoch'.id = dkg /\ epoch.id < dkg /\ dkg < nextEpoch
            /\ epoch.id \in Nat /\ dkg \in Nat
        BY <2>1, <2>3 DEF TurnInv, IInv, ChainInv
      <3>2. ASSUME NEW t \in Tables PROVE Turn(hand'[t], epoch')
        <4>1. Turn(hand[t], epoch) /\ hand[t].epoch \in Nat /\ hand'[t] = hand[t]
          BY <2>1 DEF TurnInv, IInv, HandInv, HandType
        <4> QED BY <3>1, <4>1 DEF Turn
      <3>3. DebtStep
        BY <3>1 DEF DebtStep
      <3> QED BY <2>1, <3>1, <3>2, <3>3 DEF TurnInv
    <2> QED BY <2>1, <2>2, <2>3
  <1>7. ASSUME NEW m \in Members, Crash(m) PROVE TurnInv' /\ DebtStep
    BY <1>1, <1>7 DEF Crash
  <1>8. CASE UNCHANGED vars
    BY <1>1, <1>8 DEF vars
  <1> QED
    BY <1>2, <1>3, <1>4, <1>5, <1>6, <1>7, <1>8, StepFair DEF Next

\* Whoever Timeout slashes owed the hand something when its deadline passed; also the
\* member that the chain waits for to shuffle, though members slashed at other tables
\* move everybody's index while the deck is shuffled.
THEOREM OnlyDebtorsAreSlashed == Spec => OnlyDebtorsSlashed
  <1>1. Init => DebtInv
    <2> SUFFICES ASSUME Init PROVE DebtInv
      OBVIOUS
    <2>1. IInv
      BY InitMoves
    <2>2. \A t \in Tables : Turn(hand[t], epoch)
      BY Zenon, <2>1, NoHandCalm DEF Init, IInv
    <2>3. epoch.id = 1 /\ nextEpoch = 2 /\ dkg = 0
      BY DEF Init
    <2> QED BY <2>1, <2>2, <2>3 DEF DebtInv, TurnInv
  <1>2. DebtInv /\ [Next]_vars => DebtInv' /\ DebtStep
    BY NextMoves, NextFair DEF DebtInv
  <1>3. DebtStep => [\A m \in epoch'.slashed \ epoch.slashed :
            epoch'.id = epoch.id =>
            \E t \in Tables :
                /\ hand[t].late /\ hand[t] # hand'[t]
                /\ \/ hand[t].phase = "await" /\ m \notin hand[t].pub
                   \/ /\ hand[t].phase = "shuffle" /\ hand[t].finalized
                      /\ \E p \in HolePos : <<m, p>> \notin hand[t].enc
                   \/ hand[t].phase = "shuffle" /\ ~hand[t].finalized /\ m \notin hand[t].shufflers]_vars
    BY DEF DebtStep, Owes
  <1> QED BY <1>1, <1>2, <1>3, PTL DEF Spec, OnlyDebtorsSlashed
=============================================================================
