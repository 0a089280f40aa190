----------------------------- MODULE DealerHand -----------------------------
(***************************************************************************)
(* Dealing hands at several tables with one committee: the x/dealer        *)
(* handlers of a hand and the daemons that serve the tables by polling.    *)
(*                                                                         *)
(* The tables share the epoch: who is slashed at one table no longer       *)
(* counts at the others.  A daemon reads a table, then sends what that     *)
(* read called for; the chain has moved on in between, and a transaction   *)
(* may be lost.                                                            *)
(*                                                                         *)
(* Proofs verify, so a share or a shuffle is who sent it.  Betting is      *)
(* PokerTable's; here it ends by opening a card or the hand.               *)
(***************************************************************************)
EXTENDS Integers, FiniteSets

CONSTANTS
    N,              \* members of the committee
    Threshold,
    NTables,
    HolePos,        \* positions of the hole cards
    Boards,         \* cards opened in public by the end of a hand
    Excluded,       \* members slashed by the key generation already
    Down,           \* members whose daemon does not run
    Keyless,        \* members whose daemon has no secret share
    MaxHands,       \* bound: hands per table
    MaxEpochs,      \* bound: epochs
    MaxFaults       \* bound: lost transactions

ASSUME HandParams ==
    /\ N \in Nat /\ Threshold \in 1..N /\ NTables \in Nat \ {0}
    /\ IsFiniteSet(HolePos) /\ Boards \in Nat \ {0}
    /\ Excluded \subseteq 1..N /\ N - Cardinality(Excluded) >= Threshold
    /\ Down \subseteq 1..N /\ Keyless \subseteq 1..N
    /\ MaxHands \in Nat /\ MaxEpochs \in Nat /\ MaxFaults \in Nat

Members == 1..N
Tables  == 1..NTables

VARIABLES
    epoch,      \* the active DealerEpoch
    dkg,        \* the epoch of the key generation in flight; 0: none
    nextEpoch,  \* GetNextEpochID
    hand,       \* per table: its hand and the DealerHand
    penalties,  \* per member: applyPenalty calls in this epoch
    daemon,     \* per member: where its poll stands, and what it read
    faults

vars == <<epoch, dkg, nextEpoch, hand, penalties, daemon, faults>>

\* epoch 0: InitHand has not been called.  `late`: the running deadline has passed.
NoHand(id) ==
    [id |-> id, phase |-> "none", epoch |-> 0, step |-> 0, shufflers |-> {}, finalized |-> FALSE,
     enc |-> {}, pub |-> {}, opened |-> 0, late |-> FALSE]

-----------------------------------------------------------------------------
(* The chain. *)

\* epochQualMembers keeps the order of the epoch's list: at index k is the member
\* that k qualified members precede.
Qual(slashed)          == Members \ slashed
QualBefore(slashed, m) == {q \in Qual(slashed) : q < m}
QualAt(slashed, k) ==
    CHOOSE m \in Qual(slashed) : Cardinality(QualBefore(slashed, m)) = k

Served(t) == hand[t].phase # "none" /\ hand[t].epoch # 0
InEpoch(t) == Served(t) /\ hand[t].epoch = epoch.id
Expects(t) == QualAt(epoch.slashed, hand[t].step)

\* A handler gives the set of its possible results: the hand it stores and whom
\* it slashes.  No result: the transaction reverts.
Result(h)          == [hand |-> h, slashed |-> {}]
When(ok, results)  == {r \in results : ok}
Hands(S)           == {Result(h) : h \in S}

StartHand(t) ==
    When(hand[t].phase = "none" /\ hand[t].id < MaxHands,
         {Result([NoHand(hand[t].id + 1) EXCEPT !.phase = "shuffle"])})

InitHand(t, id, e) ==
    When(hand[t].phase = "shuffle" /\ hand[t].id = id /\ hand[t].epoch = 0 /\ e = epoch.id,
         {Result([hand[t] EXCEPT !.epoch = e])})

SubmitShuffle(m, t, id, round) ==
    When(/\ InEpoch(t) /\ hand[t].id = id /\ hand[t].phase = "shuffle"
         /\ ~hand[t].late /\ ~hand[t].finalized
         /\ round = hand[t].step + 1 /\ hand[t].step < Cardinality(Qual(epoch.slashed))
         /\ m = Expects(t),
         {Result([hand[t] EXCEPT !.step = round, !.shufflers = @ \cup {m}, !.late = FALSE])})

\* finalizeDeck, once `slashed` are slashed.
FinalizeDeck(t, id, slashed) ==
    When(/\ InEpoch(t) /\ hand[t].id = id /\ hand[t].phase = "shuffle" /\ ~hand[t].finalized
         /\ Cardinality(Qual(slashed)) >= Threshold
         /\ hand[t].step = Cardinality(Qual(slashed)),
         {Result([hand[t] EXCEPT !.finalized = TRUE, !.late = FALSE])})

\* dealerHoleEncSharesReady
Ready(enc) == \A p \in HolePos : Cardinality({m \in Members : <<m, p>> \in enc}) >= Threshold

\* AdvanceAfterHoleSharesReady: betting, or the board at once if all are all-in.
Advance(h) == Hands({[h EXCEPT !.phase = p, !.late = FALSE] : p \in {"betting", "await"}})

SubmitEncShare(m, t, id, pos) ==
    LET h == [hand[t] EXCEPT !.enc = @ \cup {<<m, pos>>}]
    IN  When(/\ InEpoch(t) /\ hand[t].id = id /\ hand[t].phase = "shuffle"
             /\ hand[t].finalized /\ ~hand[t].late
             /\ m \notin epoch.slashed /\ <<m, pos>> \notin hand[t].enc,
             IF Ready(h.enc) THEN Advance(h) ELSE {Result(h)})

SubmitPubShare(m, t, id, pos) ==
    When(/\ InEpoch(t) /\ hand[t].id = id /\ hand[t].phase = "await" /\ pos = hand[t].opened
         /\ ~hand[t].late /\ m \notin epoch.slashed /\ m \notin hand[t].pub,
         {Result([hand[t] EXCEPT !.pub = @ \cup {m}])})

\* Mutant: the opened card is not counted.
FinalizeRevealUncounted(t, id, pos, slashed) ==
    LET h == [hand[t] EXCEPT !.pub = {}, !.late = FALSE]
    IN  When(/\ InEpoch(t) /\ hand[t].id = id /\ hand[t].phase = "await" /\ pos = hand[t].opened
             /\ hand[t].late => Qual(slashed) \subseteq hand[t].pub
             /\ Cardinality(hand[t].pub) >= Threshold,
             IF h.opened = Boards THEN {Result(NoHand(h.id))} ELSE Advance(h))

\* ApplyDealerReveal: more cards, betting on the next street, or the end.
FinalizeReveal(t, id, pos, slashed) ==
    LET h == [hand[t] EXCEPT !.opened = @ + 1, !.pub = {}, !.late = FALSE]
    IN  When(/\ InEpoch(t) /\ hand[t].id = id /\ hand[t].phase = "await" /\ pos = hand[t].opened
             /\ hand[t].late => Qual(slashed) \subseteq hand[t].pub
             /\ Cardinality(hand[t].pub) >= Threshold,
             IF h.opened = Boards THEN {Result(NoHand(h.id))} ELSE Advance(h))

-----------------------------------------------------------------------------
(* Timeout: what it finds late is slashed, then the hand goes on without    *)
(* those members or is aborted.                                             *)

Abort(t) == {Result(NoHand(hand[t].id))}
Slashing(results, S) == {[r EXCEPT !.slashed = S] : r \in results}
Enough(slashed) == Cardinality(Qual(slashed)) >= Threshold

\* The next shuffler is slashed; the list of qualified members shrinks by it.
TimeoutShuffle(t) ==
    LET q == Cardinality(Qual(epoch.slashed))
        late == {Expects(t)}
        slashed == epoch.slashed \cup late
    IN  IF q = 0 THEN Abort(t)
        ELSE IF hand[t].step = q THEN FinalizeDeck(t, hand[t].id, epoch.slashed)
        ELSE IF hand[t].step > q THEN {}
        ELSE Slashing(IF ~Enough(slashed) THEN Abort(t)
                      ELSE IF hand[t].step = q - 1 THEN FinalizeDeck(t, hand[t].id, slashed)
                      ELSE {Result([hand[t] EXCEPT !.late = FALSE])}, late)

\* dealerMissingHoleEncShares
MissingEnc(t) == {m \in Qual(epoch.slashed) : \E p \in HolePos : <<m, p>> \notin hand[t].enc}

TimeoutEnc(t) ==
    Slashing(IF Enough(epoch.slashed \cup MissingEnc(t)) /\ Ready(hand[t].enc)
             THEN Advance(hand[t]) ELSE Abort(t), MissingEnc(t))

\* Mutant: all qualified members are taken to be late.
MissingPubAll(t) == Qual(epoch.slashed)

\* dealerMissingPubShares
MissingPub(t) == Qual(epoch.slashed) \ hand[t].pub

TimeoutReveal(t) ==
    LET slashed == epoch.slashed \cup MissingPub(t)
    IN  Slashing(IF Enough(slashed) THEN FinalizeReveal(t, hand[t].id, hand[t].opened, slashed)
                 ELSE Abort(t), MissingPub(t))

Timeout(t, id) ==
    When(Served(t) /\ hand[t].id = id,
         IF ~InEpoch(t) THEN Abort(t)
         ELSE When(hand[t].late,
                   IF hand[t].phase = "await" THEN TimeoutReveal(t)
                   ELSE IF hand[t].phase = "betting" THEN {}
                   ELSE IF hand[t].finalized THEN TimeoutEnc(t) ELSE TimeoutShuffle(t)))

-----------------------------------------------------------------------------
(* The rest of the chain. *)

Set(t, h) == hand' = [hand EXCEPT ![t] = h]

\* A deadline of the hand passes.
Elapse(t) ==
    /\ Served(t) /\ hand[t].phase \in {"shuffle", "await"} /\ ~hand[t].late
    /\ Set(t, [hand[t] EXCEPT !.late = TRUE])
    /\ UNCHANGED <<epoch, dkg, nextEpoch, penalties, daemon, faults>>

\* Players start a hand, finish a betting round, or fold to one player.
PlayersStart(t) ==
    /\ \E r \in StartHand(t) : Set(t, r.hand)
    /\ UNCHANGED <<epoch, dkg, nextEpoch, penalties, daemon, faults>>
PlayersBet(t) ==
    /\ hand[t].phase = "betting"
    /\ \/ Set(t, [hand[t] EXCEPT !.phase = "await"])
       \/ Set(t, NoHand(hand[t].id))
    /\ UNCHANGED <<epoch, dkg, nextEpoch, penalties, daemon, faults>>

\* An operator begins the next epoch; it is finalized, or aborted.
BeginEpoch ==
    /\ dkg = 0 /\ nextEpoch <= MaxEpochs
    /\ dkg' = nextEpoch /\ nextEpoch' = nextEpoch + 1
    /\ UNCHANGED <<epoch, hand, penalties, daemon, faults>>
EndDkg ==
    /\ dkg # 0 /\ dkg' = 0
    /\ \/ /\ epoch' = [id |-> dkg, slashed |-> Excluded]
          /\ penalties' = [m \in Members |-> 0]
       \/ UNCHANGED <<epoch, penalties>>
    /\ UNCHANGED <<nextEpoch, hand, daemon, faults>>

\* Mutant: members slashed before are penalised with the new ones.
SlashAgain(slashed) ==
    /\ epoch' = [epoch EXCEPT !.slashed = @ \cup slashed]
    /\ penalties' = [m \in Members |->
            penalties[m] + IF slashed # {} /\ m \in slashed \cup epoch.slashed THEN 1 ELSE 0]

\* applyPenalty runs for members that epochSlash adds.
Slash(slashed) ==
    /\ epoch' = [epoch EXCEPT !.slashed = @ \cup slashed]
    /\ penalties' = [m \in Members |-> penalties[m] + IF m \in slashed \ epoch.slashed THEN 1 ELSE 0]

\* A transaction is executed, reverts, or is lost.
Send(t, results) ==
    /\ \/ \E r \in results : Set(t, r.hand) /\ Slash(r.slashed) /\ UNCHANGED faults
       \/ results = {} /\ UNCHANGED <<hand, epoch, penalties, faults>>
       \/ /\ results # {} /\ faults < MaxFaults /\ faults' = faults + 1
          /\ UNCHANGED <<hand, epoch, penalties>>
    /\ UNCHANGED <<dkg, nextEpoch>>

-----------------------------------------------------------------------------
(* A daemon.  The program counter names what it does next: "table" and      *)
(* "deal" read the chain, the others send a transaction.                    *)

Idle == [pc |-> "idle", epoch |-> 0, table |-> 0, id |-> 0, round |-> 0, todo |-> {}, pos |-> 0]

At(m, pc)   == daemon[m].pc = pc
Goto(m, pc) == daemon' = [daemon EXCEPT ![m].pc = pc]
NextTable(m) ==
    LET d == daemon[m]
        next == [Idle EXCEPT !.pc = "table", !.epoch = d.epoch, !.table = d.table + 1]
    IN  daemon' = [daemon EXCEPT ![m] = IF d.table = NTables THEN Idle ELSE next]

\* pollOnce: tables are served only while no key generation is in flight.
Poll(m) ==
    /\ m \notin Down /\ At(m, "idle") /\ dkg = 0
    /\ daemon' = [daemon EXCEPT ![m].pc = "table", ![m].epoch = epoch.id, ![m].table = 1]
    /\ UNCHANGED <<epoch, dkg, nextEpoch, hand, penalties, faults>>

\* processTable, up to its first transaction.
ReadTable(m) ==
    LET h == hand[daemon[m].table]
        todo == IF m \in Keyless THEN {} ELSE HolePos
    IN  /\ At(m, "table")
        /\ daemon' = [daemon EXCEPT ![m].id = h.id, ![m].pos = h.opened,
                ![m].todo = IF h.finalized /\ h.phase \in {"shuffle", "betting"} THEN todo ELSE {},
                ![m].pc = IF h.phase = "none" THEN "start"
                          ELSE IF h.phase = "shuffle" /\ ~h.finalized
                               THEN IF h.epoch = 0 THEN "init" ELSE "deal"
                          ELSE IF h.phase = "await"
                               THEN IF m \in Keyless THEN "finalizeReveal" ELSE "pub"
                          ELSE IF todo = {} THEN "timeout" ELSE "enc"]
        /\ UNCHANGED <<epoch, dkg, nextEpoch, hand, penalties, faults>>

maybeStartAndInitHand(m) ==
    LET t == daemon[m].table
    IN  \/ /\ At(m, "start") /\ Send(t, StartHand(t))
           /\ IF hand'[t] # hand[t] THEN Goto(m, "started") ELSE NextTable(m)
        \/ /\ At(m, "started") /\ Send(t, InitHand(t, hand[t].id, daemon[m].epoch))
           /\ NextTable(m)

initHand(m) ==
    LET d == daemon[m]
    IN  At(m, "init") /\ Send(d.table, InitHand(d.table, d.id, d.epoch)) /\ Goto(m, "timeout")

\* Whom the daemon takes to be next: it counts in the list of all members.
MyTurn(m, step) == step < N /\ m = step + 1

handleShuffle(m) ==
    LET d == daemon[m]
        h == hand[d.table]
    IN  \/ /\ At(m, "deal")
           /\ daemon' = IF h.id = d.id /\ Served(d.table) /\ MyTurn(m, h.step)
                        THEN [daemon EXCEPT ![m].pc = "submit", ![m].round = h.step + 1]
                        ELSE [daemon EXCEPT ![m].pc = "finalizeDeck"]
           /\ UNCHANGED <<epoch, dkg, nextEpoch, hand, penalties, faults>>
        \/ /\ At(m, "submit") /\ Send(d.table, SubmitShuffle(m, d.table, d.id, d.round))
           /\ Goto(m, "finalizeDeck")

maybeFinalizeDeck(m) ==
    LET d == daemon[m]
    IN  /\ At(m, "finalizeDeck")
        /\ Send(d.table, FinalizeDeck(d.table, d.id, epoch.slashed))
        /\ Goto(m, "timeout")

\* Duplicates are skipped; any other error ends the loop.
handleEncShares(m) ==
    LET d == daemon[m]
        pos == CHOOSE p \in d.todo : TRUE
        duplicate == hand[d.table].id = d.id /\ <<m, pos>> \in hand[d.table].enc
        rest == IF SubmitEncShare(m, d.table, d.id, pos) # {} \/ duplicate THEN d.todo \ {pos} ELSE {}
    IN  /\ At(m, "enc")
        /\ Send(d.table, SubmitEncShare(m, d.table, d.id, pos))
        /\ daemon' = [daemon EXCEPT ![m].todo = rest, ![m].pc = IF rest = {} THEN "timeout" ELSE "enc"]

handlePubShare(m) ==
    LET d == daemon[m]
    IN  /\ At(m, "pub") /\ Send(d.table, SubmitPubShare(m, d.table, d.id, d.pos))
        /\ Goto(m, "finalizeReveal")

maybeFinalizeReveal(m) ==
    LET d == daemon[m]
    IN  /\ At(m, "finalizeReveal")
        /\ Send(d.table, FinalizeReveal(d.table, d.id, d.pos, epoch.slashed))
        /\ Goto(m, "timeout")

\* Mutant: the daemon looks only after hands of the epoch it read.
maybeDealerTimeoutOwnEpoch(m) ==
    LET d == daemon[m]
    IN  /\ At(m, "timeout")
        /\ Send(d.table, When(hand[d.table].epoch = d.epoch, Timeout(d.table, d.id)))
        /\ NextTable(m)

maybeDealerTimeout(m) ==
    LET d == daemon[m]
    IN  At(m, "timeout") /\ Send(d.table, Timeout(d.table, d.id)) /\ NextTable(m)

Crash(m) ==
    /\ ~At(m, "idle") /\ faults < MaxFaults /\ faults' = faults + 1
    /\ daemon' = [daemon EXCEPT ![m] = Idle]
    /\ UNCHANGED <<epoch, dkg, nextEpoch, hand, penalties>>

-----------------------------------------------------------------------------
Init ==
    /\ epoch = [id |-> 1, slashed |-> Excluded]
    /\ dkg = 0 /\ nextEpoch = 2
    /\ hand = [t \in Tables |-> NoHand(0)]
    /\ penalties = [m \in Members |-> 0]
    /\ daemon = [m \in Members |-> Idle]
    /\ faults = 0

Step(m) ==
    \/ Poll(m) \/ ReadTable(m) \/ maybeStartAndInitHand(m) \/ initHand(m)
    \/ handleShuffle(m) \/ maybeFinalizeDeck(m) \/ handleEncShares(m)
    \/ handlePubShare(m) \/ maybeFinalizeReveal(m) \/ maybeDealerTimeout(m)

Next ==
    \/ \E t \in Tables : Elapse(t) \/ PlayersStart(t) \/ PlayersBet(t)
    \/ BeginEpoch \/ EndDkg
    \/ \E m \in Members : Step(m) \/ Crash(m)

Spec == Init /\ [][Next]_vars

\* Daemons keep polling, time passes, players finish their rounds (BettingEnds of
\* PokerTable), and a key generation ends.
FairSpec ==
    /\ Spec
    /\ \A m \in Members : WF_vars(Step(m))
    /\ \A t \in Tables : WF_vars(Elapse(t)) /\ WF_vars(PlayersBet(t))
    /\ WF_vars(EndDkg)

-----------------------------------------------------------------------------
\* In one epoch a member is penalised at most once, however many tables and
\* stages find it late.
PenalisedOnce == \A m \in Members : penalties[m] <= 1

\* finalizeDeck, "deck must be shuffled by all qualified members before
\* finalization": every member that still counts has shuffled a final deck.
DeckShuffledByQualified ==
    \A t \in Tables : InEpoch(t) /\ hand[t].finalized => Qual(epoch.slashed) \subseteq hand[t].shufflers

\* A member is slashed only at a table whose deadline passed without what that
\* member owed: its shuffle, an encrypted share, or the share of the card to open.
OnlyDebtorsSlashed ==
    [][\A m \in epoch'.slashed \ epoch.slashed :
            epoch'.id = epoch.id =>
            \E t \in Tables :
                /\ hand[t].late /\ hand[t] # hand'[t]
                /\ \/ hand[t].phase = "await" /\ m \notin hand[t].pub
                   \/ /\ hand[t].phase = "shuffle" /\ hand[t].finalized
                      /\ \E p \in HolePos : <<m, p>> \notin hand[t].enc
                   \/ hand[t].phase = "shuffle" /\ ~hand[t].finalized /\ m \notin hand[t].shufflers]_vars

\* SPEC 6.5, "slash v_r and select the next shuffler": the daemon that the chain
\* waits for knows that it is its turn.  It does not hold after a slash: handleShuffle
\* counts in another list than the chain.
NextShufflerKnows ==
    \A t \in Tables :
        LET waits == /\ InEpoch(t) /\ hand[t].phase = "shuffle" /\ ~hand[t].finalized
                     /\ hand[t].step < Cardinality(Qual(epoch.slashed))
        IN  waits => MyTurn(Expects(t), hand[t].step)

\* Every hand ends: daemons, timeouts and aborts see to it, also when members are
\* down, have no key or the epoch is rotated under the hand.
HandsEnd == \A t \in Tables : hand[t].phase # "none" ~> hand[t].phase = "none"

\* What a hand is to the abstract specification.
Stage(h) ==
    CASE h.phase = "none"    -> "none"
      [] h.phase = "shuffle" -> IF h.finalized THEN "sealed" ELSE "shuffling"
      [] h.phase = "betting" -> "betting"
      [] h.phase = "await"   -> "opening"
AsDeal(h) == [id |-> h.id, stage |-> Stage(h), opened |-> h.opened]

Promise == INSTANCE Dealing WITH deal <- [t \in Tables |-> AsDeal(hand[t])]

\* The handlers, timeouts and daemons keep the promise of Dealing: no hole card
\* before the deck is final, no board card the players do not wait for, none
\* twice, and no hand comes back.
Implements == Promise!Spec
=============================================================================
