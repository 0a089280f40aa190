----------------------------- MODULE HandProofs -----------------------------
(***************************************************************************)
(* A hand in progress can always go on, for every choice of players and    *)
(* table parameters.                                                       *)
(*                                                                         *)
(* The betting of a street is summed up by three predicates on tables that *)
(* every operator translating a Go function is shown to keep; the end of   *)
(* the street turns them into matched bets, the next street's first board  *)
(* card turns matched bets back into them.                                 *)
(***************************************************************************)
EXTENDS PokerTableProofs

\* What a seat had committed before the current street.
Prior(t, s) == t.totalCommit[s] - t.streetCommit[s]

\* An unfolded seat is flagged all-in exactly when its stack is empty.
Flags(t) == \A s \in Live(t) : s \in t.allIn <=> t.stack[s] = 0

\* A live seat that had chips at the start of the street had by then paid as much
\* as every other live seat.
Entered(t) ==
    \A s, o \in Live(t) :
        s \notin t.allIn \/ t.streetCommit[s] > 0 => Prior(t, o) <= Prior(t, s)

\* Some seat has paid the street's bet, and at most one has paid more: a small
\* blind that is more than a short big blind.
BetIsPaid(t) ==
    /\ \E s \in Seats : t.streetCommit[s] = t.betTo
    /\ \A s, o \in Seats : t.streetCommit[s] > t.betTo /\ t.streetCommit[o] > t.betTo => s = o

Betting(t) == Flags(t) /\ Entered(t) /\ BetIsPaid(t)

\* Live seats that are not all-in have paid the most.
Matched(t) ==
    \A s \in Live(t) \ t.allIn, o \in Live(t) : t.totalCommit[o] <= t.totalCommit[s]

\* What each phase of a hand finds.
Playable(t) ==
    /\ t.phase # "NONE" => SeatCount(Live(t)) >= 2 /\ Flags(t)
    /\ t.phase \in {"SHUFFLE", "BETTING"} => Betting(t)
    /\ t.phase = "SHUFFLE" /\ t.actionOn = Unset => Live(t) \subseteq t.allIn
    /\ t.phase = "SHUFFLE" => t.actionOn = Unset \/ t.actionOn \in NeedsToAct(t)
    /\ t.phase = "BETTING" => t.actionOn \in NeedsToAct(t)
    /\ t.phase \in Awaiting => Matched(t)

\* One deadline runs, that of whoever must move.
Clocked(t) ==
    /\ t.actionTimer \in Nat \cup {Unset} /\ t.revealTimer \in Nat \cup {Unset}
    /\ t.actionTimer # Unset <=> t.phase = "BETTING"
    /\ t.revealTimer # Unset <=> t.phase \in Awaiting

\* The fields of a hand, chips in stacks and deadlines apart.
SamePlay(t, u) ==
    /\ u.phase = t.phase /\ u.actionOn = t.actionOn
    /\ u.inHand = t.inHand /\ u.folded = t.folded /\ u.allIn = t.allIn
    /\ u.streetCommit = t.streetCommit /\ u.totalCommit = t.totalCommit
    /\ u.betTo = t.betTo /\ u.interval = t.interval /\ u.lastActed = t.lastActed

\* A hand stays playable when only seats without live cards gain or lose chips.
LEMMA SamePlayFact ==
    ASSUME NEW t, NEW u, SamePlay(t, u), \A s \in Live(t) : u.stack[s] = t.stack[s],
           Playable(t)
    PROVE  Playable(u)
<1>1. Live(u) = Live(t)
  BY DEF SamePlay, Live
<1>2. NeedsToAct(u) = NeedsToAct(t)
  BY <1>1 DEF SamePlay, NeedsToAct
<1>3. Flags(t) => Flags(u)
  BY <1>1 DEF SamePlay, Flags
<1>4. Entered(t) => Entered(u)
  BY <1>1 DEF SamePlay, Entered, Prior
<1>5. BetIsPaid(t) => BetIsPaid(u)
  BY DEF SamePlay, BetIsPaid
<1>6. Matched(t) => Matched(u)
  BY <1>1 DEF SamePlay, Matched
<1> QED BY <1>1, <1>2, <1>3, <1>4, <1>5, <1>6 DEF SamePlay, Playable, Betting

\* Storing a table changes no stack of a seat that has a player.
LEMMA SetTablePlay ==
    ASSUME NEW t \in Sound, Playable(t), \A s \in Live(t) : t.player[s] # NoPlayer
    PROVE  /\ Playable(SetTable(t))
           /\ Clocked(t) => Clocked(SetTable(t))
<1> DEFINE stack == [s \in Seats |-> IF t.player[s] = NoPlayer THEN 0 ELSE t.stack[s]]
           bond  == [s \in Seats |-> IF t.player[s] = NoPlayer THEN 0 ELSE t.bond[s]]
           u     == SetTable(t)
<1>0. Live(t) \subseteq Seats
  BY DEF Live, Sound, TableType
<1>1. \A s \in Live(t) : stack[s] = t.stack[s]
  BY <1>0
<1>2. u = [t EXCEPT !.stack = stack, !.bond = bond]
  BY DEF SetTable
<1> HIDE DEF stack, bond, u
<1>3. SamePlay(t, u)
  BY <1>2 DEF SamePlay, Sound, TableType
<1>4. /\ u.stack = stack /\ u.actionTimer = t.actionTimer /\ u.revealTimer = t.revealTimer
      /\ u.phase = t.phase
  BY <1>2 DEF Sound, TableType
<1>5. Playable(u)
  BY <1>1, <1>3, <1>4, SamePlayFact
<1>6. Clocked(t) => Clocked(u)
  BY <1>4 DEF Clocked
<1> QED BY <1>5, <1>6 DEF u

\* u is t after seat s has put n chips into the pot.
PutIn(t, s, n, u) ==
    /\ \A o \in Seats \ {s} : /\ u.stack[o] = t.stack[o]
                             /\ u.streetCommit[o] = t.streetCommit[o]
                             /\ u.totalCommit[o] = t.totalCommit[o]
    /\ u.stack[s] = t.stack[s] - n
    /\ u.streetCommit[s] = t.streetCommit[s] + n
    /\ u.totalCommit[s] = t.totalCommit[s] + n
    /\ u.allIn = (IF t.stack[s] = n THEN t.allIn \cup {s} ELSE t.allIn)
    /\ u.player = t.player /\ u.bond = t.bond /\ u.phase = t.phase
    /\ u.street = t.street /\ u.actionOn = t.actionOn /\ u.button = t.button
    /\ u.inHand = t.inHand /\ u.folded = t.folded /\ u.betTo = t.betTo
    /\ u.interval = t.interval /\ u.lastActed = t.lastActed
    /\ u.minRaise = t.minRaise /\ u.bb = t.bb

\* The fields after chips moved from a stack to the pot.
LEMMA PutFields ==
    ASSUME NEW t \in Sound, NEW s \in Seats, NEW n \in Nat
    PROVE  PutIn(t, s, n, Put(t, s, n))
<1> DEFINE u == Put(t, s, n)
<1> DEFINE stack  == [t.stack EXCEPT ![s] = @ - n]
           street == [t.streetCommit EXCEPT ![s] = @ + n]
           total  == [t.totalCommit EXCEPT ![s] = @ + n]
           allIn  == IF t.stack[s] = n THEN t.allIn \cup {s} ELSE t.allIn
<1>1. u = [t EXCEPT !.stack = stack, !.streetCommit = street,
                    !.totalCommit = total, !.allIn = allIn]
  BY DEF Put
<1> HIDE DEF u
<1>2. /\ \A o \in Seats \ {s} : /\ stack[o] = t.stack[o] /\ street[o] = t.streetCommit[o]
                                /\ total[o] = t.totalCommit[o]
      /\ stack[s] = t.stack[s] - n
      /\ street[s] = t.streetCommit[s] + n /\ total[s] = t.totalCommit[s] + n
  BY DEF Sound, TableType
<1> HIDE DEF stack, street, total, allIn
<1>3. /\ u.stack = stack /\ u.streetCommit = street /\ u.totalCommit = total
      /\ u.allIn = allIn /\ u.player = t.player /\ u.bond = t.bond /\ u.phase = t.phase
      /\ u.street = t.street /\ u.actionOn = t.actionOn /\ u.button = t.button
      /\ u.inHand = t.inHand /\ u.folded = t.folded /\ u.betTo = t.betTo
      /\ u.interval = t.interval /\ u.lastActed = t.lastActed
      /\ u.minRaise = t.minRaise /\ u.bb = t.bb
  BY <1>1 DEF Sound, TableType
<1> QED BY <1>2, <1>3 DEF allIn, PutIn, u

\* Chips put into the pot by a live seat that has some keep the flags and the
\* order of the earlier streets.
LEMMA PutPlay ==
    ASSUME NEW t \in Sound, Flags(t), Entered(t), NEW s \in Live(t) \ t.allIn,
           NEW n \in Nat, 0 < n, n <= t.stack[s]
    PROVE  Flags(Put(t, s, n)) /\ Entered(Put(t, s, n)) /\ Live(Put(t, s, n)) = Live(t)
<1> DEFINE u == Put(t, s, n)
<1>1. /\ s \in Seats /\ Live(t) \subseteq Seats /\ t.stack \in [Seats -> Nat]
      /\ t.streetCommit \in [Seats -> Nat] /\ t.totalCommit \in [Seats -> Nat]
  BY DEF Live, Sound, TableType
<1>0. PutIn(t, s, n, u)
  BY <1>1, PutFields
<1> HIDE DEF u
<1>2. /\ \A o \in Seats \ {s} : /\ u.stack[o] = t.stack[o]
                                /\ u.streetCommit[o] = t.streetCommit[o]
                                /\ u.totalCommit[o] = t.totalCommit[o]
      /\ u.stack[s] = t.stack[s] - n
      /\ u.streetCommit[s] = t.streetCommit[s] + n
      /\ u.totalCommit[s] = t.totalCommit[s] + n
      /\ u.allIn = (IF t.stack[s] = n THEN t.allIn \cup {s} ELSE t.allIn)
      /\ u.inHand = t.inHand /\ u.folded = t.folded
  BY <1>0 DEF PutIn
<1>3. Live(u) = Live(t)
  BY <1>2 DEF Live
<1>4. Flags(u)
  <2> SUFFICES ASSUME NEW o \in Live(t) PROVE o \in u.allIn <=> u.stack[o] = 0
    BY <1>3 DEF Flags
  <2>1. CASE o = s
    <3>1. u.stack[s] = t.stack[s] - n /\ t.stack[s] \in Nat
      BY <1>1, <1>2
    <3> QED BY <1>2, <2>1, <3>1
  <2>2. CASE o # s
    <3>1. u.stack[o] = t.stack[o] /\ (o \in u.allIn <=> o \in t.allIn)
      BY <1>1, <1>2, <2>2
    <3> QED BY <3>1 DEF Flags
  <2> QED BY <2>1, <2>2
<1>5. \A o \in Live(t) : Prior(u, o) = Prior(t, o)
  <2> TAKE o \in Live(t)
  <2>1. o \in Seats /\ t.totalCommit[o] \in Nat /\ t.streetCommit[o] \in Nat
    BY <1>1
  <2>2. CASE o = s
    <3>1. u.totalCommit[o] = t.totalCommit[o] + n /\ u.streetCommit[o] = t.streetCommit[o] + n
      BY <1>1, <1>2, <2>2
    <3> QED BY <2>1, <3>1 DEF Prior
  <2>3. CASE o # s
    BY <1>1, <1>2, <2>1, <2>3 DEF Prior
  <2> QED BY <2>2, <2>3
<1>6. Entered(u)
  <2> SUFFICES ASSUME NEW r \in Live(t), NEW o \in Live(t),
                      r \notin u.allIn \/ u.streetCommit[r] > 0
               PROVE  Prior(t, o) <= Prior(t, r)
    BY <1>3, <1>5 DEF Entered
  <2>1. r \notin t.allIn \/ t.streetCommit[r] > 0
    BY <1>1, <1>2
  <2> QED BY <2>1 DEF Entered
<1> QED BY <1>3, <1>4, <1>6 DEF u

\* A fold takes a seat out and leaves the street's bet paid.
LEMMA FoldPlay ==
    ASSUME NEW t \in Sound, Betting(t), NEW s \in Live(t) \ t.allIn
    PROVE  Betting(applyFold(t, s))
<1> DEFINE folded == t.folded \cup {s}
           acted  == [t.lastActed EXCEPT ![s] = t.interval]
           u      == applyFold(t, s)
<1>1. u = [t EXCEPT !.folded = folded, !.lastActed = acted]
  BY DEF applyFold
<1> HIDE DEF acted, u
<1>2. /\ u.inHand = t.inHand /\ u.folded = folded /\ u.stack = t.stack /\ u.allIn = t.allIn
      /\ u.streetCommit = t.streetCommit /\ u.totalCommit = t.totalCommit /\ u.betTo = t.betTo
  BY <1>1 DEF Sound, TableType
<1>3. Live(u) \subseteq Live(t)
  BY <1>2 DEF Live
<1>4. Flags(u)
  BY <1>2, <1>3 DEF Betting, Flags
<1>5. Entered(u)
  BY <1>2, <1>3 DEF Betting, Entered, Prior
<1>6. BetIsPaid(u)
  BY <1>2 DEF Betting, BetIsPaid
<1> QED BY <1>4, <1>5, <1>6 DEF Betting, u

\* A check moves no chips.
LEMMA CheckPlay ==
    ASSUME NEW t \in Sound, Betting(t), NEW s \in Live(t) \ t.allIn
    PROVE  Betting(applyCheck(t, s))
<1> DEFINE acted == [t.lastActed EXCEPT ![s] = t.interval]
           u     == applyCheck(t, s)
<1>1. u = [t EXCEPT !.lastActed = acted]
  BY DEF applyCheck
<1> HIDE DEF acted, u
<1>2. /\ u.inHand = t.inHand /\ u.folded = t.folded /\ u.stack = t.stack /\ u.allIn = t.allIn
      /\ u.streetCommit = t.streetCommit /\ u.totalCommit = t.totalCommit /\ u.betTo = t.betTo
  BY <1>1 DEF Sound, TableType
<1>3. Live(u) = Live(t)
  BY <1>2 DEF Live
<1>4. Flags(u) /\ Entered(u) /\ BetIsPaid(u)
  BY <1>2, <1>3 DEF Betting, Flags, Entered, Prior, BetIsPaid
<1> QED BY <1>4 DEF Betting, u

\* A call, short or not, does not go beyond the bet.
LEMMA CallPlay ==
    ASSUME NEW t \in Sound, Betting(t), NEW s \in Live(t) \ t.allIn, toCall(t, s) > 0
    PROVE  Betting(applyCall(t, s))
<1> DEFINE n     == Lesser(toCall(t, s), t.stack[s])
           u     == Put(t, s, n)
           acted == [u.lastActed EXCEPT ![s] = t.interval]
           v     == applyCall(t, s)
<1>1. s \in Seats /\ t.stack[s] \in Nat /\ t.stack[s] # 0 /\ t.betTo \in Nat
      /\ t.streetCommit \in [Seats -> Nat] /\ t.streetCommit[s] \in Nat
  BY DEF Betting, Flags, Live, Sound, TableType
<1>2. n \in Nat /\ 0 < n /\ n <= t.stack[s] /\ t.streetCommit[s] + n <= t.betTo
  BY <1>1 DEF Lesser, toCall
<1>3. v = [u EXCEPT !.lastActed = acted]
  BY DEF applyCall
<1> HIDE DEF n
<1>4. Flags(u) /\ Entered(u) /\ u \in Sound
  BY <1>1, <1>2, PutPlay, PutFact DEF Betting, Keeps
<1>0. PutIn(t, s, n, u)
  BY <1>1, <1>2, PutFields
<1> HIDE DEF u, acted, v
<1>5. /\ \A o \in Seats \ {s} : u.streetCommit[o] = t.streetCommit[o]
      /\ u.streetCommit[s] = t.streetCommit[s] + n /\ u.betTo = t.betTo
  BY <1>0 DEF PutIn
<1>6. /\ v.inHand = u.inHand /\ v.folded = u.folded /\ v.stack = u.stack /\ v.allIn = u.allIn
      /\ v.streetCommit = u.streetCommit /\ v.totalCommit = u.totalCommit /\ v.betTo = u.betTo
  BY <1>3, <1>4 DEF Sound, TableType
<1>7. Live(v) = Live(u)
  BY <1>6 DEF Live
<1>8. Flags(v) /\ Entered(v)
  BY <1>4, <1>6, <1>7 DEF Flags, Entered, Prior
<1>9. BetIsPaid(v)
  <2>1. PICK w \in Seats : t.streetCommit[w] = t.betTo
    BY DEF Betting, BetIsPaid
  <2>2. w # s
    BY <1>1, <1>2, <2>1
  <2>3. v.streetCommit[w] = v.betTo
    BY <1>1, <1>5, <1>6, <2>1, <2>2
  <2>4. ASSUME NEW o \in Seats, v.streetCommit[o] > v.betTo PROVE t.streetCommit[o] > t.betTo
    BY <1>1, <1>2, <1>5, <1>6, <2>4
  <2> QED BY <2>3, <2>4 DEF Betting, BetIsPaid
<1> QED BY <1>8, <1>9 DEF Betting, v

\* An accepted bet or raise is the street's new bet, paid by the mover.
LEMMA BetToPlay ==
    ASSUME NEW t \in Sound, Betting(t), NEW s \in Live(t) \ t.allIn, NEW d \in Nat,
           BetToAccepted(t, s, d)
    PROVE  Betting(applyBetTo(t, s, d))
<1> DEFINE n     == d - t.streetCommit[s]
           u     == Put(t, s, n)
           opens == t.betTo = 0
           full  == opens \/ d - t.betTo >= t.minRaise
           now   == IF full THEN t.interval + 1 ELSE t.interval
           raise == IF opens THEN IF d >= BigBlind THEN d ELSE BigBlind
                    ELSE IF full THEN d - t.betTo ELSE u.minRaise
           acted == [u.lastActed EXCEPT ![s] = now]
           v     == applyBetTo(t, s, d)
<1>1. /\ s \in Seats /\ t.stack[s] \in Nat /\ t.betTo \in Nat
      /\ t.streetCommit \in [Seats -> Nat] /\ t.streetCommit[s] \in Nat
  BY DEF Live, Sound, TableType
<1>2. n \in Nat /\ 0 < n /\ n <= t.stack[s] /\ t.streetCommit[s] + n = d /\ d > t.betTo
  BY <1>1 DEF BetToAccepted
<1>3. v = [u EXCEPT !.interval = now, !.lastActed = acted, !.betTo = d, !.minRaise = raise]
  BY DEF applyBetTo
<1> HIDE DEF n
<1>4. Flags(u) /\ Entered(u) /\ u \in Sound
  BY <1>1, <1>2, PutPlay, PutFact DEF Betting, Keeps
<1>0. PutIn(t, s, n, u)
  BY <1>1, <1>2, PutFields
<1> HIDE DEF u, acted, v, now, raise
<1>5. /\ \A o \in Seats \ {s} : u.streetCommit[o] = t.streetCommit[o]
      /\ u.streetCommit[s] = t.streetCommit[s] + n
  BY <1>0 DEF PutIn
<1>6. /\ v.inHand = u.inHand /\ v.folded = u.folded /\ v.stack = u.stack /\ v.allIn = u.allIn
      /\ v.streetCommit = u.streetCommit /\ v.totalCommit = u.totalCommit /\ v.betTo = d
  BY <1>3, <1>4 DEF Sound, TableType
<1>7. Live(v) = Live(u)
  BY <1>6 DEF Live
<1>8. Flags(v) /\ Entered(v)
  BY <1>4, <1>6, <1>7 DEF Flags, Entered, Prior
<1>9. BetIsPaid(v)
  <2>1. v.streetCommit[s] = v.betTo
    BY <1>1, <1>2, <1>5, <1>6
  <2>2. ASSUME NEW o \in Seats, v.streetCommit[o] > v.betTo PROVE t.streetCommit[o] > t.betTo
    BY <1>1, <1>2, <1>5, <1>6, <2>1, <2>2
  <2> QED BY <1>1, <2>1, <2>2 DEF Betting, BetIsPaid
<1> QED BY <1>8, <1>9 DEF Betting, v

\* u is t after seat top, which paid the most on this street, got n chips back: it
\* is left with as much as the next seat paid.
GivenBack(t, u, top, n) ==
    /\ n <= t.streetCommit[top]
    /\ \A o \in Seats : t.streetCommit[o] <= t.streetCommit[top]
    /\ \A o \in Seats \ {top} : t.streetCommit[o] <= t.streetCommit[top] - n
    /\ \E o \in Seats \ {top} : t.streetCommit[o] = t.streetCommit[top] - n
    /\ \A o \in Seats \ {top} : /\ u.stack[o] = t.stack[o]
                                /\ u.streetCommit[o] = t.streetCommit[o]
                                /\ u.totalCommit[o] = t.totalCommit[o]
    /\ u.stack[top] = t.stack[top] + n
    /\ u.streetCommit[top] = t.streetCommit[top] - n
    /\ u.totalCommit[top] = t.totalCommit[top] - n
    /\ u.allIn = (IF n = 0 THEN t.allIn ELSE t.allIn \ {top})
    /\ u.player = t.player /\ u.bond = t.bond /\ u.phase = t.phase
    /\ u.street = t.street /\ u.actionOn = t.actionOn /\ u.button = t.button
    /\ u.inHand = t.inHand /\ u.folded = t.folded /\ u.betTo = t.betTo
    /\ u.interval = t.interval /\ u.lastActed = t.lastActed

\* The fields after the uncalled part of the street's largest commitment is back.
LEMMA ReturnFields ==
    ASSUME NEW t \in Sound
    PROVE  \E top \in Seats, n \in Nat : GivenBack(t, returnUncalledStreetExcess(t), top, n)
<1> DEFINE c   == t.streetCommit
           top == TopSeat(c, Seats)
           nxt == TopSeat(c, Seats \ {top})
           n   == c[top] - c[nxt]
           u   == returnUncalledStreetExcess(t)
<1>1. /\ c \in [Seats -> Nat] /\ c \in [Seats -> Int] /\ t.stack \in [Seats -> Nat]
      /\ t.totalCommit \in [Seats -> Nat] /\ t.allIn \in SUBSET Seats
  BY DEF Sound, TableType
<1>2. top \in Seats /\ \A o \in Seats : c[o] <= c[top]
  <2>1. Seats # {} BY DEF Seats
  <2> QED BY <1>1, <2>1, TopSeatFact
<1>3. nxt \in Seats \ {top} /\ \A o \in Seats \ {top} : c[o] <= c[nxt]
  <2>1. Seats \ {top} # {} /\ Seats \ {top} \in SUBSET Seats
    BY DEF Seats
  <2> QED BY <1>1, <2>1, TopSeatFact
<1>4. n \in Nat /\ n <= c[top] /\ c[top] - n = c[nxt]
  <2>1. c[top] \in Nat /\ c[nxt] \in Nat /\ c[nxt] <= c[top]
    BY Zenon, <1>1, <1>2, <1>3
  <2> HIDE DEF c, top, nxt
  <2> QED BY <2>1
<1>5. CASE n = 0
  <2>1. u = t
    BY <1>5 DEF returnUncalledStreetExcess
  <2> HIDE DEF u, n, top, nxt
  <2>2. GivenBack(t, u, top, n)
    BY <1>1, <1>2, <1>3, <1>4, <1>5, <2>1 DEF GivenBack
  <2> QED BY <1>2, <1>4, <2>2 DEF u
<1>6. CASE n # 0
  <2> DEFINE stack  == [t.stack EXCEPT ![top] = @ + n]
             street == [t.streetCommit EXCEPT ![top] = @ - n]
             total  == [t.totalCommit EXCEPT ![top] = @ - n]
             allIn  == t.allIn \ {top}
  <2>1. u = [t EXCEPT !.stack = stack, !.streetCommit = street,
                      !.totalCommit = total, !.allIn = allIn]
    BY <1>6 DEF returnUncalledStreetExcess
  <2> HIDE DEF u, n, top, nxt
  <2>2. /\ \A o \in Seats \ {top} : /\ stack[o] = t.stack[o] /\ street[o] = t.streetCommit[o]
                                    /\ total[o] = t.totalCommit[o]
        /\ stack[top] = t.stack[top] + n
        /\ street[top] = t.streetCommit[top] - n /\ total[top] = t.totalCommit[top] - n
    BY <1>1, <1>2
  <2> HIDE DEF stack, street, total, allIn
  <2>3. /\ u.stack = stack /\ u.streetCommit = street /\ u.totalCommit = total
        /\ u.allIn = allIn /\ u.player = t.player /\ u.bond = t.bond /\ u.phase = t.phase
        /\ u.street = t.street /\ u.actionOn = t.actionOn /\ u.button = t.button
        /\ u.inHand = t.inHand /\ u.folded = t.folded /\ u.betTo = t.betTo
        /\ u.interval = t.interval /\ u.lastActed = t.lastActed
    BY <2>1 DEF Sound, TableType
  <2>4. GivenBack(t, u, top, n)
    BY <1>1, <1>2, <1>3, <1>4, <1>6, <2>2, <2>3 DEF GivenBack, allIn
  <2> QED BY <1>2, <1>4, <2>4 DEF u
<1> QED BY <1>5, <1>6

\* Once nobody needs to act, returning the uncalled excess leaves the bets matched.
LEMMA ReturnPlay ==
    ASSUME NEW t \in Sound, Betting(t), NeedsToAct(t) = {}
    PROVE  LET u == returnUncalledStreetExcess(t)
           IN  Flags(u) /\ Matched(u) /\ Live(u) = Live(t)
<1> DEFINE u == returnUncalledStreetExcess(t)
<1>1. PICK top \in Seats, n \in Nat : GivenBack(t, u, top, n)
  BY ReturnFields
<1> HIDE DEF u
<1>2. /\ Live(t) \subseteq Seats /\ t.stack \in [Seats -> Nat] /\ t.betTo \in Nat
      /\ t.streetCommit \in [Seats -> Nat] /\ t.totalCommit \in [Seats -> Nat]
  BY DEF Live, Sound, TableType
<1>3. Live(u) = Live(t)
  BY <1>1 DEF GivenBack, Live
<1>4. Flags(u)
  <2> SUFFICES ASSUME NEW s \in Live(t) PROVE s \in u.allIn <=> u.stack[s] = 0
    BY <1>3 DEF Flags
  <2>1. s \in t.allIn <=> t.stack[s] = 0
    BY DEF Betting, Flags
  <2>2. CASE s # top
    <3>1. u.stack[s] = t.stack[s] /\ (s \in u.allIn <=> s \in t.allIn)
      BY <1>1, <1>2, <2>2 DEF GivenBack
    <3> QED BY <2>1, <3>1
  <2>3. CASE s = top /\ n = 0
    <3>1. u.stack[s] = t.stack[s] + 0 /\ t.stack[s] \in Nat /\ u.allIn = t.allIn
      BY <1>1, <1>2, <2>3 DEF GivenBack
    <3>2. u.stack[s] = t.stack[s]
      BY <3>1
    <3> QED BY <2>1, <3>1, <3>2
  <2>4. CASE s = top /\ n # 0
    <3>1. u.stack[s] = t.stack[s] + n /\ t.stack[s] \in Nat /\ u.allIn = t.allIn \ {top}
      BY <1>1, <1>2, <2>4 DEF GivenBack
    <3>2. u.stack[s] # 0
      BY <2>4, <3>1
    <3> QED BY <2>4, <3>1, <3>2
  <2> QED BY <2>2, <2>3, <2>4
<1>5. Matched(u)
  <2> SUFFICES ASSUME NEW s \in Live(t) \ u.allIn, NEW o \in Live(t)
               PROVE  u.totalCommit[o] <= u.totalCommit[s]
    BY <1>3 DEF Matched
  <2>0. s \in Seats /\ o \in Seats
    BY <1>2
  <2>1. \A r \in Seats : /\ u.streetCommit[r] \in Nat
                         /\ u.totalCommit[r] = Prior(t, r) + u.streetCommit[r]
                         /\ Prior(t, r) \in Int
    BY <1>1, <1>2 DEF GivenBack, Prior
  <2>2. s \notin t.allIn \/ t.streetCommit[s] > 0
    BY <1>1, <1>2, <2>0 DEF GivenBack
  <2>3. Prior(t, o) <= Prior(t, s)
    BY <2>2 DEF Betting, Entered
  <2>4. u.streetCommit[o] <= u.streetCommit[s]
    <3>1. CASE s = top
      BY <1>1, <1>2, <2>0, <3>1 DEF GivenBack
    <3>2. CASE s # top
      <4>1. t.streetCommit[s] = t.betTo /\ u.streetCommit[s] = t.betTo
        BY <1>1, <2>0, <3>2 DEF GivenBack, NeedsToAct
      <4>2. ASSUME NEW r \in Seats \ {top} PROVE t.streetCommit[r] <= t.betTo
        <5>1. CASE t.streetCommit[r] > t.betTo
          <6>1. t.streetCommit[top] > t.betTo
            BY <1>1, <1>2, <5>1 DEF GivenBack
          <6> QED BY <5>1, <6>1 DEF Betting, BetIsPaid
        <5> QED BY <1>2, <5>1
      <4>3. u.streetCommit[top] <= t.betTo
        BY <1>1, <1>2, <4>2 DEF GivenBack
      <4> QED BY <1>1, <2>0, <4>1, <4>2, <4>3 DEF GivenBack
    <3> QED BY <3>1, <3>2
  <2> QED BY <2>0, <2>1, <2>3, <2>4
<1> QED BY <1>3, <1>4, <1>5 DEF u

\* A table without a hand has nothing to keep.
LEMMA ClearHandPlay ==
    ASSUME NEW t
    PROVE  Playable(ClearHand(t)) /\ Clocked(ClearHand(t)) /\ ClearHand(t).phase = "NONE"
BY Zenon DEF ClearHand, Idle, Playable, Clocked, Awaiting, BoardPhases, Unset

\* The seat found is one of the seats that need to act.
LEMMA NextActiveNeeds ==
    ASSUME NEW t \in Sound, NEW from \in -1..8, NeedsToAct(t) # {}
    PROVE  nextActiveToAct(t, from) \in NeedsToAct(t)
<1>1. NeedsToAct(t) \in SUBSET Seats
  BY DEF NeedsToAct, Live, Sound, TableType
<1> QED BY <1>1, NextSeatFact DEF nextActiveToAct

\* After the mover's action the hand is over, the turn goes to a seat that has a
\* decision, or the street is over with the bets matched.
LEMMA MaybeAdvancePlay ==
    ASSUME NEW t \in Sound, t.phase = "BETTING", Betting(t)
    PROVE  Playable(maybeAdvance(t))
<1>0. SeatCount(Live(t)) \in 0..9
  BY CountFact DEF Live, Sound, TableType
<1>1. CASE SeatCount(Live(t)) <= 1
  BY <1>1, ClearHandPlay DEF maybeAdvance, completeByFolds
<1>2. CASE ~(SeatCount(Live(t)) <= 1) /\ NeedsToAct(t) # {}
  <2> DEFINE a == nextActiveToAct(t, t.actionOn)
             u == [t EXCEPT !.actionOn = a]
  <2>1. a \in NeedsToAct(t)
    BY <1>2, NextActiveNeeds DEF Sound, TableType
  <2>2. maybeAdvance(t) = u
    BY <1>2 DEF maybeAdvance
  <2> HIDE DEF a
  <2>3. /\ u.phase = "BETTING" /\ u.actionOn = a /\ u.stack = t.stack
        /\ u.inHand = t.inHand /\ u.folded = t.folded /\ u.allIn = t.allIn
        /\ u.streetCommit = t.streetCommit /\ u.totalCommit = t.totalCommit
        /\ u.betTo = t.betTo /\ u.interval = t.interval /\ u.lastActed = t.lastActed
    BY DEF Sound, TableType
  <2> HIDE DEF u
  <2>4. Live(u) = Live(t)
    BY <2>3 DEF Live
  <2>5. NeedsToAct(u) = NeedsToAct(t)
    BY <2>3, <2>4 DEF NeedsToAct
  <2>6. Flags(u) /\ Entered(u) /\ BetIsPaid(u)
    BY <2>3, <2>4 DEF Betting, Flags, Entered, Prior, BetIsPaid
  <2>7. SeatCount(Live(u)) >= 2 /\ u.phase \notin Awaiting
    BY <1>0, <1>2, <2>3, <2>4 DEF Awaiting, BoardPhases
  <2>8. Playable(u)
    BY <2>1, <2>3, <2>5, <2>6, <2>7 DEF Playable, Betting
  <2> QED BY <2>2, <2>8
<1>3. CASE ~(SeatCount(Live(t)) <= 1) /\ NeedsToAct(t) = {}
  <2> DEFINE r == returnUncalledStreetExcess(t)
             await == AwaitAfter[t.street]
             u == [r EXCEPT !.actionOn = Unset, !.phase = await]
  <2>1. r \in Sound /\ Flags(r) /\ Matched(r) /\ Live(r) = Live(t)
    BY <1>3, ReturnFact, ReturnPlay DEF Keeps
  <2>2. maybeAdvance(t) = u
    BY <1>3 DEF maybeAdvance
  <2>3. await \in Awaiting
    <3>1. t.street \in Streets
      BY DEF Sound, TableType
    <3> QED BY <3>1 DEF Streets, AwaitAfter, Awaiting, BoardPhases
  <2> HIDE DEF r, await
  <2>4. /\ u.phase = await /\ u.stack = r.stack /\ u.inHand = r.inHand
        /\ u.folded = r.folded /\ u.allIn = r.allIn /\ u.totalCommit = r.totalCommit
    BY <2>1 DEF Sound, TableType
  <2> HIDE DEF u
  <2>5. Live(u) = Live(r)
    BY <2>4 DEF Live
  <2>6. Flags(u) /\ Matched(u)
    BY <2>1, <2>4, <2>5 DEF Flags, Matched
  <2>7. SeatCount(Live(u)) >= 2
    BY <1>0, <1>3, <2>1, <2>5
  <2>8. u.phase # "SHUFFLE" /\ u.phase # "BETTING"
    BY <2>3, <2>4 DEF Awaiting, BoardPhases
  <2>9. Playable(u)
    BY <2>6, <2>7, <2>8 DEF Playable
  <2> QED BY <2>2, <2>9
<1> QED BY <1>1, <1>2, <1>3

\* setDeadlines starts the clock of whoever must move.
LEMMA DeadlinesPlay ==
    ASSUME NEW t \in Sound, Playable(t)
    PROVE  Playable(setDeadlines(t)) /\ Clocked(setDeadlines(t))
<1> DEFINE r == IF t.phase \in Awaiting THEN DealerTimeoutSecs ELSE Unset
           a == IF t.phase = "BETTING" /\ t.actionOn >= 0 THEN ActionTimeoutSecs ELSE Unset
           u == setDeadlines(t)
<1>1. t.phase = "BETTING" => t.actionOn >= 0
  <2>1. NeedsToAct(t) \subseteq Seats
    BY DEF NeedsToAct, Live, Sound, TableType
  <2> QED BY <2>1 DEF Playable, Seats
<1>2. /\ a \in Nat \cup {Unset} /\ r \in Nat \cup {Unset}
      /\ a # Unset <=> t.phase = "BETTING"
      /\ r # Unset <=> t.phase \in Awaiting
  <2>1. ActionTimeoutSecs \in Nat /\ DealerTimeoutSecs \in Nat
    BY TableParams
  <2>2. ActionTimeoutSecs # Unset /\ DealerTimeoutSecs # Unset
    BY <2>1 DEF Unset
  <2> QED BY <1>1, <2>1, <2>2
<1>3. u = [t EXCEPT !.revealTimer = r, !.actionTimer = a]
  BY DEF setDeadlines
<1> HIDE DEF r, a, u
<1>4. SamePlay(t, u) /\ u.stack = t.stack /\ u.actionTimer = a /\ u.revealTimer = r
  BY <1>3 DEF SamePlay, Sound, TableType
<1>5. Playable(u)
  BY <1>4, SamePlayFact
<1>6. Clocked(u)
  BY <1>2, <1>4 DEF Clocked, SamePlay
<1> QED BY <1>5, <1>6 DEF u

\* The whole of applyAction after the mover's own action.
LEMMA MovedPlay ==
    ASSUME NEW t \in Sound, t.phase = "BETTING", Betting(t)
    PROVE  Playable(Moved(t)) /\ Clocked(Moved(t))
BY MaybeAdvancePlay, MaybeAdvanceFact, DeadlinesPlay DEF Moved, Keeps

\* A board card; with the last one of a street the betting starts anew, or the
\* next street is waited for.
LEMMA RevealBoardPlay ==
    ASSUME NEW t \in Sound, t.phase \in BoardPhases, Playable(t)
    PROVE  Playable(revealBoardCard(t))
<1> DEFINE u      == [t EXCEPT !.board = @ + 1]
           street == StreetOf[t.phase]
           await  == AwaitAfter[street]
<1>1. u \in Sound /\ SamePlay(t, u) /\ u.stack = t.stack
  BY DEF Sound, TableType, SamePlay
<1>2. street \in Streets /\ await \in Awaiting
  BY DEF StreetOf, BoardPhases, AwaitAfter, Streets, Awaiting
<1>3. Playable(u)
  BY Zenon, <1>1, SamePlayFact
<1>4. SeatCount(Live(u)) >= 2 /\ Flags(u) /\ Matched(u)
  BY <1>1, <1>3 DEF SamePlay, Playable, Awaiting, BoardPhases
<1>5. CASE u.board # BoardSize[t.phase]
  BY <1>3, <1>5 DEF revealBoardCard
<1>6. CASE u.board = BoardSize[t.phase] /\ SeatCount(WithChips(u)) < 2
  <2> DEFINE v == [u EXCEPT !.street = street, !.phase = await, !.actionOn = Unset]
  <2>1. revealBoardCard(t) = v
    BY <1>6 DEF revealBoardCard
  <2> HIDE DEF u, street, await
  <2>2. /\ v.phase = await /\ v.stack = u.stack /\ v.inHand = u.inHand
        /\ v.folded = u.folded /\ v.allIn = u.allIn /\ v.totalCommit = u.totalCommit
    BY <1>1 DEF Sound, TableType
  <2> HIDE DEF v
  <2>3. Live(v) = Live(u)
    BY <2>2 DEF Live
  <2>4. Flags(v) /\ Matched(v)
    BY <1>4, <2>2, <2>3 DEF Flags, Matched
  <2>5. v.phase # "SHUFFLE" /\ v.phase # "BETTING"
    BY <1>2, <2>2 DEF Awaiting, BoardPhases
  <2>6. Playable(v)
    BY <1>4, <2>3, <2>4, <2>5 DEF Playable
  <2> QED BY <2>1, <2>6
<1>7. CASE u.board = BoardSize[t.phase] /\ ~(SeatCount(WithChips(u)) < 2)
  <2> DEFINE v     == [u EXCEPT !.street = street, !.phase = "BETTING"]
             rest  == [s \in Seats |-> Unset]
             w     == [v EXCEPT !.betTo = 0, !.minRaise = BigBlind, !.interval = 0,
                                !.streetCommit = Zero, !.lastActed = rest]
             a     == nextActiveToAct(w, w.button)
             x     == [w EXCEPT !.actionOn = a]
  <2>1. revealBoardCard(t) = x
    BY <1>7 DEF revealBoardCard, resetPostflopBettingRound
  <2>2. /\ rest \in [Seats -> Int] /\ Zero \in [Seats -> Nat] /\ BigBlind \in Nat
        /\ \A s \in Seats : Zero[s] = 0 /\ rest[s] = Unset
    BY TableParams DEF Unset, Zero
  <2> HIDE DEF u, street, await, rest
  <2>3. w \in TableType
    <3>1. v \in TableType
      BY Zenon, <1>1, <1>2 DEF Sound, TableType, Phases
    <3> HIDE DEF v
    <3> QED BY Zenon, <2>2, <3>1 DEF TableType
  <2>4. /\ w.phase = "BETTING" /\ w.stack = u.stack /\ w.inHand = u.inHand
        /\ w.folded = u.folded /\ w.allIn = u.allIn /\ w.totalCommit = u.totalCommit
        /\ w.streetCommit = Zero /\ w.betTo = 0 /\ w.interval = 0 /\ w.lastActed = rest
    BY <1>1 DEF Sound, TableType
  <2> HIDE DEF w
  <2>5. Live(w) = Live(u) /\ Live(u) \subseteq Seats
    BY <1>1, <2>4 DEF Live, Sound, TableType
  <2>6. w \in Sound
    <3>1. ASSUME NEW s \in Seats PROVE w.streetCommit[s] <= w.totalCommit[s]
      <4>1. w.totalCommit[s] \in Nat /\ w.streetCommit[s] = 0
        BY <2>2, <2>3, <2>4 DEF TableType
      <4> QED BY <4>1
    <3> QED BY <2>3, <3>1 DEF Sound
  <2>7. NeedsToAct(w) # {}
    <3>1. WithChips(u) # {} /\ WithChips(u) \subseteq Live(u)
      BY <1>7, CountEmpty DEF WithChips
    <3>2. PICK s \in Live(u) : u.stack[s] > 0
      BY <3>1 DEF WithChips
    <3>3. u.stack[s] # 0
      BY <1>1, <2>5, <3>2 DEF Sound, TableType
    <3>4. s \notin w.allIn
      BY <1>4, <2>4, <3>3 DEF Flags
    <3>5. w.lastActed[s] # w.interval
      BY <2>2, <2>4, <2>5 DEF Unset
    <3> QED BY <2>5, <3>4, <3>5 DEF NeedsToAct
  <2>8. a \in NeedsToAct(w)
    <3>1. w.button \in -1..8
      BY <2>3 DEF TableType
    <3> QED BY <2>6, <2>7, <3>1, NextActiveNeeds
  <2> HIDE DEF a
  <2>9. /\ x.phase = "BETTING" /\ x.actionOn = a /\ x.stack = w.stack
        /\ x.inHand = w.inHand /\ x.folded = w.folded /\ x.allIn = w.allIn
        /\ x.streetCommit = w.streetCommit /\ x.totalCommit = w.totalCommit
        /\ x.betTo = w.betTo /\ x.interval = w.interval /\ x.lastActed = w.lastActed
    BY <2>3, <2>4 DEF TableType
  <2> HIDE DEF x
  <2>10. Live(x) = Live(u) /\ NeedsToAct(x) = NeedsToAct(w)
    BY <2>5, <2>9 DEF Live, NeedsToAct
  <2>11. Flags(x)
    BY <1>4, <2>4, <2>9, <2>10 DEF Flags
  <2>12. Entered(x)
    <3> SUFFICES ASSUME NEW s \in Live(u), NEW o \in Live(u),
                        s \notin x.allIn \/ x.streetCommit[s] > 0
                 PROVE  Prior(x, o) <= Prior(x, s)
      BY <2>10 DEF Entered
    <3>1. x.streetCommit[s] = 0 /\ x.streetCommit[o] = 0
      BY <2>2, <2>4, <2>5, <2>9
    <3>2. x.totalCommit[o] <= x.totalCommit[s]
      BY <1>4, <2>4, <2>9, <3>1 DEF Matched
    <3>3. x.totalCommit[o] \in Nat /\ x.totalCommit[s] \in Nat
      BY <2>3, <2>5, <2>9 DEF TableType
    <3> QED BY <3>1, <3>2, <3>3 DEF Prior
  <2>13. BetIsPaid(x)
    <3>1. \A s \in Seats : x.streetCommit[s] = 0
      BY Zenon, <2>2, <2>4, <2>9
    <3>2. x.betTo = 0 /\ 0 \in Seats
      BY <2>4, <2>9 DEF Seats
    <3> QED BY <3>1, <3>2 DEF BetIsPaid
  <2>14. x.phase \notin Awaiting
    BY <2>9 DEF Awaiting, BoardPhases
  <2>15. Playable(x)
    BY <1>4, <2>8, <2>9, <2>10, <2>11, <2>12, <2>13, <2>14 DEF Playable, Betting
  <2> QED BY <2>1, <2>15
<1> QED BY <1>5, <1>6, <1>7

\* What a new hand takes from a seat, given who posts the blinds.
Blind(t, s, sb, bb) ==
    IF s = sb THEN Lesser(SmallBlind, t.stack[s])
    ELSE IF s = bb THEN Lesser(BigBlind, t.stack[s]) ELSE 0

\* u is the new hand of table t, with small blind sb and big blind bb.
Dealt(t, u, sb, bb) ==
    /\ u.button = NextSeat(IF t.button < 0 THEN 8 ELSE t.button, occupiedSeatsWithStack(t))
    /\ sb = (IF SeatCount(occupiedSeatsWithStack(t)) = 2 THEN u.button
             ELSE NextSeat(u.button, occupiedSeatsWithStack(t)))
    /\ bb = NextSeat(sb, occupiedSeatsWithStack(t))
    /\ sb \in occupiedSeatsWithStack(t) /\ bb \in occupiedSeatsWithStack(t) /\ sb # bb
    /\ u.player = t.player /\ u.bond = t.bond /\ u.phase = "SHUFFLE" /\ u.bb = bb
    /\ u.inHand = occupiedSeatsWithStack(t) /\ u.folded = {} /\ u.interval = 0
    /\ \A s \in Seats : /\ u.stack[s] = t.stack[s] - Blind(t, s, sb, bb)
                        /\ u.streetCommit[s] = Blind(t, s, sb, bb)
                        /\ u.totalCommit[s] = Blind(t, s, sb, bb)
                        /\ s \in u.allIn <=> s \in {sb, bb} /\ u.stack[s] = 0
                        /\ u.lastActed[s] = Unset
    /\ u.betTo = u.streetCommit[bb]
    /\ u.actionTimer = Unset /\ u.revealTimer = Unset
    /\ IF NeedsToAct(u) = {} THEN u.actionOn = Unset ELSE u.actionOn \in NeedsToAct(u)

\* Posting a blind, and the fields it leaves.
LEMMA PostBlindFields ==
    ASSUME NEW t \in Sound, NEW s \in Seats, NEW n \in Nat
    PROVE  /\ PutIn(t, s, Lesser(n, t.stack[s]), postBlindCommit(t, s, n))
           /\ postBlindCommit(t, s, n) \in Sound
           /\ postBlindCommit(t, s, n).actionTimer = t.actionTimer
           /\ postBlindCommit(t, s, n).revealTimer = t.revealTimer
<1> DEFINE k == Lesser(n, t.stack[s])
           u == postBlindCommit(t, s, n)
<1>1. k \in Nat
  BY ToCallNat DEF Lesser
<1>2. PutIn(t, s, k, u) /\ u = Put(t, s, k)
  BY <1>1, PutFields DEF postBlindCommit
<1>3. u \in Sound
  BY PostBlindFact DEF Keeps
<1>4. u.actionTimer = t.actionTimer /\ u.revealTimer = t.revealTimer
  <2> DEFINE stack  == [t.stack EXCEPT ![s] = @ - k]
             street == [t.streetCommit EXCEPT ![s] = @ + k]
             total  == [t.totalCommit EXCEPT ![s] = @ + k]
             allIn  == IF t.stack[s] = k THEN t.allIn \cup {s} ELSE t.allIn
  <2>1. u = [t EXCEPT !.stack = stack, !.streetCommit = street,
                      !.totalCommit = total, !.allIn = allIn]
    BY <1>2 DEF Put
  <2> HIDE DEF stack, street, total, allIn, u
  <2> QED BY <2>1 DEF Sound, TableType
<1> QED BY <1>2, <1>3, <1>4

\* What StartHand makes of a table with two funded seats.
LEMMA DealInFields ==
    ASSUME NEW t \in Sound, SeatCount(occupiedSeatsWithStack(t)) >= 2
    PROVE  \E sb, bb \in Seats : Dealt(t, DealIn(t), sb, bb)
<1> DEFINE funded == occupiedSeatsWithStack(t)
           button == IF t.button < 0 THEN NextSeat(8, funded) ELSE nextOccupiedSeat(t, t.button)
           moved  == [t EXCEPT !.button = button]
           seated == ClearHand(moved)
           bb     == bbSeat(seated)
           sb     == sbSeat(seated)
           fresh  == [seated EXCEPT !.phase = "SHUFFLE", !.bb = bb, !.minRaise = BigBlind,
                                    !.inHand = funded]
           first  == postBlindCommit(fresh, sb, SmallBlind)
           posted == postBlindCommit(first, bb, BigBlind)
           opened == [posted EXCEPT !.betTo = posted.streetCommit[bb]]
           final  == [opened EXCEPT !.actionOn = nextActiveToAct(opened, bb)]
<1>0. DealIn(t) = final
  BY DEF DealIn
<1>1. /\ funded \in SUBSET Seats /\ funded # {} /\ t.button \in -1..8
      /\ \A s \in funded : t.stack[s] \in Nat /\ t.stack[s] > 0
      /\ t.stack \in [Seats -> Nat]
  BY Zenon, FundedFact DEF Sound, TableType, occupiedSeatsWithStack
<1>2. button = NextSeat(IF t.button < 0 THEN 8 ELSE t.button, funded) /\ button \in funded
  <2>1. button = NextSeat(IF t.button < 0 THEN 8 ELSE t.button, funded)
    BY <1>1 DEF nextOccupiedSeat
  <2>2. (IF t.button < 0 THEN 8 ELSE t.button) \in -1..8
    BY <1>1
  <2> HIDE DEF button, funded
  <2> QED BY <1>1, <2>1, <2>2, NextSeatFact
<1> HIDE DEF button
<1>3. /\ moved \in Sound /\ moved.stack = t.stack /\ moved.player = t.player
      /\ moved.bond = t.bond /\ moved.button = button
  <2>1. moved \in Sound
    BY <1>1, <1>2 DEF Sound, TableType, Seats
  <2> QED BY Zenon, <2>1 DEF Sound, TableType
<1> HIDE DEF moved
<1>4. /\ seated \in Sound /\ seated.stack = t.stack /\ seated.player = t.player
      /\ seated.bond = t.bond /\ seated.button = button /\ seated.folded = {}
      /\ seated.allIn = {} /\ seated.interval = 0
      /\ seated.streetCommit = Zero /\ seated.totalCommit = Zero
      /\ seated.lastActed = [s \in Seats |-> Unset]
      /\ seated.actionTimer = Unset /\ seated.revealTimer = Unset
  BY Zenon, <1>3, ClearHandFact DEF Keeps, ClearHand, Idle
<1> HIDE DEF seated
<1>5. occupiedSeatsWithStack(seated) = funded
  BY <1>4 DEF occupiedSeatsWithStack
<1> HIDE DEF funded
<1>6. sb = (IF SeatCount(funded) = 2 THEN button ELSE NextSeat(button, funded)) /\ sb \in funded
  <2>1. sb = (IF SeatCount(funded) = 2 THEN button ELSE NextSeat(button, funded))
    BY <1>1, <1>4, <1>5 DEF sbSeat, nextOccupiedSeat
  <2>2. NextSeat(button, funded) \in funded
    <3>1. button \in -1..8 /\ funded \in SUBSET Seats /\ funded # {}
      BY <1>1, <1>2 DEF Seats
    <3> QED BY <3>1, NextSeatFact
  <2> QED BY <1>2, <2>1, <2>2
<1>7. bb = NextSeat(sb, funded)
  BY <1>1, <1>5 DEF bbSeat, nextOccupiedSeat
<1>8. bb \in funded /\ bb # sb
  <2>1. SeatCount(funded) >= 2 /\ sb \in Seats
    BY <1>1, <1>6 DEF funded
  <2> HIDE DEF sb, bb
  <2> QED BY <1>1, <1>7, <2>1, NextSeatMoves
<1> HIDE DEF sb, bb
<1>9. sb \in Seats /\ bb \in Seats /\ SmallBlind \in Nat /\ BigBlind \in Nat
  <2>1. SmallBlind \in Nat /\ BigBlind \in Nat
    BY TableParams
  <2> QED BY <1>1, <1>6, <1>8, <2>1
<1>10. fresh \in Sound
  <2>1. "SHUFFLE" \in Phases /\ bb \in -1..8
    BY <1>9 DEF Phases, Seats
  <2>2. funded \in SUBSET Seats /\ BigBlind \in Nat /\ seated \in Sound
    BY <1>1, <1>4, <1>9
  <2> QED BY Zenon, <2>1, <2>2 DEF Sound, TableType
<1>11. /\ fresh.player = t.player /\ fresh.inHand = funded /\ fresh.folded = {}
       /\ fresh.phase = "SHUFFLE" /\ fresh.bb = bb /\ fresh.button = button
       /\ fresh.stack = t.stack /\ fresh.bond = t.bond /\ fresh.allIn = {}
       /\ fresh.streetCommit = Zero /\ fresh.totalCommit = Zero /\ fresh.interval = 0
       /\ fresh.lastActed = [s \in Seats |-> Unset]
       /\ fresh.actionTimer = Unset /\ fresh.revealTimer = Unset
  BY <1>4 DEF Sound, TableType
<1> HIDE DEF fresh
<1>12. /\ PutIn(fresh, sb, Lesser(SmallBlind, fresh.stack[sb]), first)
       /\ first \in Sound
       /\ first.actionTimer = fresh.actionTimer /\ first.revealTimer = fresh.revealTimer
  BY <1>9, <1>10, PostBlindFields
<1> HIDE DEF first
<1>13. /\ PutIn(first, bb, Lesser(BigBlind, first.stack[bb]), posted)
       /\ posted \in Sound
       /\ posted.actionTimer = first.actionTimer /\ posted.revealTimer = first.revealTimer
  BY SMTT(30), <1>9, <1>12, PostBlindFields
<1> HIDE DEF posted
<1> DEFINE Same(x, y, o) == /\ y.stack[o] = x.stack[o] /\ y.streetCommit[o] = x.streetCommit[o]
                            /\ y.totalCommit[o] = x.totalCommit[o]
<1>a. /\ \A o \in Seats \ {sb} : Same(fresh, first, o)
      /\ \A o \in Seats \ {bb} : Same(first, posted, o)
  BY Zenon, <1>12, <1>13 DEF PutIn
<1>b. \A o \in Seats : /\ fresh.stack[o] = t.stack[o] /\ fresh.streetCommit[o] = 0
                       /\ fresh.totalCommit[o] = 0
  <2>1. \A o \in Seats : Zero[o] = 0
    BY DEF Zero
  <2> QED BY Zenon, <1>11, <2>1
<1>14. /\ \A s \in Seats : /\ posted.stack[s] = t.stack[s] - Blind(t, s, sb, bb)
                           /\ posted.streetCommit[s] = Blind(t, s, sb, bb)
                           /\ posted.totalCommit[s] = Blind(t, s, sb, bb)
  <2> SUFFICES ASSUME NEW s \in Seats
               PROVE  /\ posted.stack[s] = t.stack[s] - Blind(t, s, sb, bb)
                      /\ posted.streetCommit[s] = Blind(t, s, sb, bb)
                      /\ posted.totalCommit[s] = Blind(t, s, sb, bb)
    OBVIOUS
  <2>1. Zero[s] = 0 /\ t.stack[s] \in Nat /\ t.stack[sb] \in Nat /\ t.stack[bb] \in Nat
    BY <1>1, <1>9 DEF Zero
  <2>2. CASE s = sb
    <3>1. /\ first.stack[s] = t.stack[s] - Lesser(SmallBlind, t.stack[s])
          /\ first.streetCommit[s] = 0 + Lesser(SmallBlind, t.stack[s])
          /\ first.totalCommit[s] = 0 + Lesser(SmallBlind, t.stack[s])
      BY Zenon, <1>11, <1>12, <2>1, <2>2 DEF PutIn
    <3>2. /\ posted.stack[s] = first.stack[s] /\ posted.streetCommit[s] = first.streetCommit[s]
          /\ posted.totalCommit[s] = first.totalCommit[s]
      BY Zenon, <1>8, <1>13, <2>2 DEF PutIn
    <3>3. Lesser(SmallBlind, t.stack[s]) \in Nat
      BY <1>9, <2>1 DEF Lesser
    <3> QED BY <2>2, <3>1, <3>2, <3>3 DEF Blind
  <2>3. CASE s = bb
    <3>1. /\ first.stack[s] = t.stack[s] /\ first.streetCommit[s] = 0 /\ first.totalCommit[s] = 0
      BY Zenon, <1>8, <1>a, <1>b, <2>3
    <3>2. /\ posted.stack[s] = t.stack[s] - Lesser(BigBlind, t.stack[s])
          /\ posted.streetCommit[s] = 0 + Lesser(BigBlind, t.stack[s])
          /\ posted.totalCommit[s] = 0 + Lesser(BigBlind, t.stack[s])
      BY Zenon, <1>13, <2>3, <3>1 DEF PutIn
    <3>3. Lesser(BigBlind, t.stack[s]) \in Nat
      BY <1>9, <2>1 DEF Lesser
    <3> QED BY <1>8, <2>3, <3>2, <3>3 DEF Blind
  <2>4. CASE s # sb /\ s # bb
    <3>1. /\ posted.stack[s] = t.stack[s] /\ posted.streetCommit[s] = 0
          /\ posted.totalCommit[s] = 0
      BY Zenon, <1>a, <1>b, <2>4
    <3> QED BY <2>1, <2>4, <3>1 DEF Blind
  <2> QED BY <2>2, <2>3, <2>4
<1>15. \A s \in Seats : s \in posted.allIn <=> s \in {sb, bb} /\ posted.stack[s] = 0
  <2>1. /\ t.stack[sb] \in Nat /\ t.stack[bb] \in Nat /\ t.stack[sb] # 0
        /\ first.stack[bb] = t.stack[bb] /\ posted.stack[sb] = first.stack[sb]
    <3>1. t.stack[sb] \in Nat /\ t.stack[bb] \in Nat /\ t.stack[sb] # 0
      BY <1>1, <1>6, <1>9
    <3>2. first.stack[bb] = t.stack[bb] /\ posted.stack[sb] = first.stack[sb]
      BY Zenon, <1>8, <1>9, <1>a, <1>b
    <3> QED BY <3>1, <3>2
  <2>2. t.stack[sb] = Lesser(SmallBlind, t.stack[sb]) <=> posted.stack[sb] = 0
    <3>1. posted.stack[sb] = t.stack[sb] - Lesser(SmallBlind, t.stack[sb])
      BY Zenon, <1>11, <1>12, <2>1 DEF PutIn
    <3> QED BY <1>9, <2>1, <3>1 DEF Lesser
  <2>3. t.stack[bb] = Lesser(BigBlind, t.stack[bb]) <=> posted.stack[bb] = 0
    <3>1. posted.stack[bb] = t.stack[bb] - Lesser(BigBlind, t.stack[bb])
      BY Zenon, <1>13, <2>1 DEF PutIn
    <3> QED BY <1>9, <2>1, <3>1 DEF Lesser
  <2>4. first.allIn = IF posted.stack[sb] = 0 THEN {sb} ELSE {}
    BY Zenon, <1>11, <1>12, <2>2 DEF PutIn
  <2>5. posted.allIn = IF posted.stack[bb] = 0 THEN first.allIn \cup {bb} ELSE first.allIn
    BY Zenon, <1>13, <2>1, <2>3 DEF PutIn
  <2> QED BY Zenon, <1>8, <2>4, <2>5
<1>16. /\ posted.player = t.player /\ posted.inHand = funded /\ posted.folded = {}
       /\ posted.phase = "SHUFFLE" /\ posted.bb = bb /\ posted.button = button
       /\ posted.bond = t.bond /\ posted.interval = 0
       /\ posted.lastActed = [s \in Seats |-> Unset]
       /\ posted.actionTimer = Unset /\ posted.revealTimer = Unset
  BY Zenon, <1>11, <1>12, <1>13 DEF PutIn
<1> DEFINE b == posted.streetCommit[bb]
<1>17. b \in Nat
  BY Zenon, <1>9, <1>13 DEF Sound, TableType
<1> HIDE DEF b
<1>18. opened = [posted EXCEPT !.betTo = b]
  BY DEF b
<1>19. opened \in Sound
  <2> HIDE DEF opened
  <2> QED BY Zenon, <1>13, <1>17, <1>18 DEF Sound, TableType
<1> DEFINE a == nextActiveToAct(opened, bb)
<1>20. IF NeedsToAct(opened) = {} THEN a = Unset ELSE a \in NeedsToAct(opened)
  <2>1. bb \in -1..8
    BY <1>9 DEF Seats
  <2> HIDE DEF opened
  <2> QED BY <1>19, <2>1, NextActiveNeeds DEF nextActiveToAct
<1>21. final = [posted EXCEPT !.betTo = b, !.actionOn = a]
  <2> HIDE DEF a
  <2>1. final = [opened EXCEPT !.actionOn = a]
    BY DEF a
  <2> QED BY Zenon, <1>13, <1>18, <2>1 DEF Sound, TableType
<1> HIDE DEF a, final
<1>22. /\ final.stack = posted.stack /\ final.streetCommit = posted.streetCommit
       /\ final.totalCommit = posted.totalCommit /\ final.allIn = posted.allIn
       /\ final.player = posted.player /\ final.bond = posted.bond
       /\ final.inHand = posted.inHand /\ final.folded = posted.folded
       /\ final.phase = posted.phase /\ final.bb = posted.bb /\ final.button = posted.button
       /\ final.interval = posted.interval /\ final.lastActed = posted.lastActed
       /\ final.betTo = b /\ final.actionOn = a
       /\ final.actionTimer = posted.actionTimer /\ final.revealTimer = posted.revealTimer
  BY <1>13, <1>21 DEF Sound, TableType
<1>23. NeedsToAct(final) = NeedsToAct(opened)
  <2>1. /\ opened.inHand = posted.inHand /\ opened.folded = posted.folded
        /\ opened.allIn = posted.allIn /\ opened.streetCommit = posted.streetCommit
        /\ opened.interval = posted.interval /\ opened.lastActed = posted.lastActed
        /\ opened.betTo = b
    BY <1>13, <1>18 DEF Sound, TableType
  <2> HIDE DEF opened
  <2> QED BY <1>22, <2>1 DEF NeedsToAct, Live
<1>24. \A s \in Seats : [o \in Seats |-> Unset][s] = Unset
  OBVIOUS
<1>25. Dealt(t, final, sb, bb)
  <2>1. final.betTo = final.streetCommit[bb]
    BY Zenon, <1>22 DEF b
  <2>2. IF NeedsToAct(final) = {} THEN final.actionOn = Unset
        ELSE final.actionOn \in NeedsToAct(final)
    BY <1>20, <1>22, <1>23
  <2>3. /\ final.button = NextSeat(IF t.button < 0 THEN 8 ELSE t.button, funded)
        /\ sb = (IF SeatCount(funded) = 2 THEN final.button ELSE NextSeat(final.button, funded))
        /\ bb = NextSeat(sb, funded)
        /\ sb \in funded /\ bb \in funded /\ sb # bb
    BY <1>2, <1>6, <1>7, <1>8, <1>16, <1>22
  <2>4. /\ final.player = t.player /\ final.bond = t.bond /\ final.phase = "SHUFFLE"
        /\ final.bb = bb /\ final.inHand = funded /\ final.folded = {} /\ final.interval = 0
        /\ final.actionTimer = Unset /\ final.revealTimer = Unset
    BY <1>16, <1>22
  <2>5. \A s \in Seats : /\ final.stack[s] = t.stack[s] - Blind(t, s, sb, bb)
                         /\ final.streetCommit[s] = Blind(t, s, sb, bb)
                         /\ final.totalCommit[s] = Blind(t, s, sb, bb)
                         /\ s \in final.allIn <=> s \in {sb, bb} /\ final.stack[s] = 0
                         /\ final.lastActed[s] = Unset
    <3> TAKE s \in Seats
    <3>1. /\ posted.stack[s] = t.stack[s] - Blind(t, s, sb, bb)
          /\ posted.streetCommit[s] = Blind(t, s, sb, bb)
          /\ posted.totalCommit[s] = Blind(t, s, sb, bb)
      BY <1>14
    <3>2. s \in posted.allIn <=> s \in {sb, bb} /\ posted.stack[s] = 0
      BY <1>15
    <3>3. posted.lastActed[s] = Unset
      BY <1>16, <1>24
    <3> QED BY <1>22, <3>1, <3>2, <3>3
  <2> QED BY Zenon, <2>1, <2>2, <2>3, <2>4, <2>5 DEF Dealt, funded
<1> QED BY <1>0, <1>9, <1>25

\* The new hand can be played: nobody has committed anything before this street,
\* the big blind's post is the bet, and only a small blind can have posted more.
LEMMA DealtPlay ==
    ASSUME NEW t \in Sound, NEW u \in Sound, NEW sb \in Seats, NEW bb \in Seats,
           SeatCount(occupiedSeatsWithStack(t)) >= 2, Dealt(t, u, sb, bb)
    PROVE  Playable(u) /\ Clocked(u)
<1> DEFINE funded == occupiedSeatsWithStack(t)
<1>0. /\ funded \in SUBSET Seats /\ \A s \in funded : t.stack[s] \in Nat /\ t.stack[s] # 0
      /\ t.stack \in [Seats -> Nat]
  BY DEF occupiedSeatsWithStack, Sound, TableType
<1>1. Live(u) = funded /\ SeatCount(Live(u)) >= 2
  BY DEF Dealt, Live
<1>2. Flags(u)
  <2> SUFFICES ASSUME NEW s \in funded PROVE s \in u.allIn <=> u.stack[s] = 0
    BY <1>1 DEF Flags
  <2>1. s \in Seats /\ t.stack[s] \in Nat /\ t.stack[s] # 0
    BY <1>0
  <2>2. /\ s \in u.allIn <=> s \in {sb, bb} /\ u.stack[s] = 0
        /\ u.stack[s] = t.stack[s] - Blind(t, s, sb, bb)
    BY <2>1 DEF Dealt
  <2>3. s \notin {sb, bb} => u.stack[s] = t.stack[s]
    BY <2>1, <2>2 DEF Blind
  <2> QED BY <2>1, <2>2, <2>3
<1>3. Entered(u)
  <2> SUFFICES ASSUME NEW s \in funded, NEW o \in funded PROVE Prior(u, o) <= Prior(u, s)
    BY <1>1 DEF Entered
  <2>1. /\ u.streetCommit[s] \in Nat /\ u.streetCommit[o] \in Nat
    BY <1>0 DEF Sound, TableType
  <2>2. u.totalCommit[s] = u.streetCommit[s] /\ u.totalCommit[o] = u.streetCommit[o]
    BY <1>0 DEF Dealt
  <2> QED BY <2>1, <2>2 DEF Prior
<1>4. BetIsPaid(u)
  <2>1. u.streetCommit[bb] = u.betTo /\ u.betTo \in Nat
    BY Zenon DEF Dealt, Sound, TableType
  <2>2. ASSUME NEW s \in Seats, u.streetCommit[s] > u.betTo PROVE s = sb
    <3>1. s # bb
      BY <2>1, <2>2
    <3>2. s # sb => u.streetCommit[s] = 0
      BY Zenon, <3>1 DEF Dealt, Blind
    <3> QED BY <2>1, <2>2, <3>2
  <2> QED BY <2>1, <2>2 DEF BetIsPaid
<1>5. NeedsToAct(u) = {} => Live(u) \subseteq u.allIn
  <2>1. \A s \in Live(u) : u.lastActed[s] # u.interval
    <3>1. u.interval = 0 /\ \A s \in Seats : u.lastActed[s] = -1
      BY DEF Dealt, Unset
    <3> TAKE s \in Live(u)
    <3>2. s \in Seats
      BY <1>0, <1>1
    <3>3. u.lastActed[s] = -1
      BY <3>1, <3>2
    <3> QED BY <3>1, <3>3
  <2> QED BY <2>1 DEF NeedsToAct
<1>6. /\ u.phase = "SHUFFLE" /\ u.actionTimer = Unset /\ u.revealTimer = Unset
      /\ IF NeedsToAct(u) = {} THEN u.actionOn = Unset ELSE u.actionOn \in NeedsToAct(u)
  BY DEF Dealt
<1>7. \A s \in NeedsToAct(u) : s # Unset
  BY <1>0, <1>1 DEF NeedsToAct, Seats, Unset
<1>8. u.phase \notin Awaiting
  BY <1>6 DEF Awaiting, BoardPhases
<1>9. Playable(u)
  BY Zenon, <1>1, <1>2, <1>3, <1>4, <1>5, <1>6, <1>7, <1>8 DEF Playable, Betting
<1> QED BY <1>6, <1>8, <1>9 DEF Clocked

-----------------------------------------------------------------------------

\* What reachable states satisfy besides: the hand can go on, one deadline runs.
HandPart == Playable(table) /\ Clocked(table)

HandInv == SeatInv /\ HandPart

\* The end of Act and Tick empties seats only when no hand is left.
LEMMA ConcludePlay ==
    ASSUME SeatPart, NEW t \in Sound, Stays(table, t), Playable(t), Clocked(t),
           NEW balance, Conclude(t, balance)
    PROVE  HandPart'
<1> DEFINE player == [s \in Seats |-> IF s \in Bondless(t) THEN NoPlayer ELSE t.player[s]]
           u      == [t EXCEPT !.player = player]
<1>1. table' = SetTable(u)
  BY DEF Conclude, Vacate
<1>2. player \in [Seats -> Players \cup {NoPlayer}]
  BY DEF Sound, TableType
<1>3. t.phase # "NONE" => player = t.player
  BY DEF Bondless, Sound, TableType
<1> HIDE DEF player
<1>4. u \in Sound
  BY SMTT(30), <1>2 DEF Sound, TableType
<1>5. SamePlay(t, u)
  BY DEF SamePlay, Sound, TableType
<1>6. /\ u.player = player /\ u.stack = t.stack /\ u.phase = t.phase
      /\ u.actionTimer = t.actionTimer /\ u.revealTimer = t.revealTimer
  BY DEF Sound, TableType
<1> HIDE DEF u
<1>7. Playable(u) /\ Clocked(u)
  BY <1>5, <1>6, SamePlayFact DEF Clocked
<1>8. \A s \in Live(u) : u.player[s] # NoPlayer
  <2>1. Live(u) = Live(t)
    BY <1>5 DEF SamePlay, Live
  <2>2. CASE t.phase = "NONE"
    <3>1. Live(t) = {}
      BY <2>2 DEF Stays, SeatPart, AtRest, Live
    <3> QED BY <2>1, <3>1
  <2>3. CASE t.phase # "NONE"
    BY <1>3, <1>6, <2>1, <2>3 DEF Stays, SeatPart, LiveSeatKeepsPlayer
  <2> QED BY <2>2, <2>3
<1> QED BY <1>1, <1>4, <1>7, <1>8, SetTablePlay DEF HandPart

\* Storing a table in which nobody has moved.
LEMMA StorePlay ==
    ASSUME SeatPart, NEW t \in Sound, Stays(table, t), Playable(t), Clocked(t),
           table' = SetTable(t)
    PROVE  HandPart'
<1>1. \A s \in Live(t) : t.player[s] # NoPlayer
  BY DEF Stays, SeatPart, LiveSeatKeepsPlayer
<1> QED BY <1>1, SetTablePlay DEF HandPart

\* A change of seats without live cards.
LEMMA ReseatPlay ==
    ASSUME SeatPart, HandPart, NEW u \in Sound, SamePlay(table, u),
           u.actionTimer = table.actionTimer, u.revealTimer = table.revealTimer,
           \A s \in Live(table) : u.stack[s] = table.stack[s] /\ u.player[s] = table.player[s],
           table' = SetTable(u)
    PROVE  HandPart'
<1>1. Playable(u)
  BY SamePlayFact DEF HandPart
<1>2. Clocked(u)
  BY DEF HandPart, Clocked, SamePlay
<1>3. \A s \in Live(u) : u.player[s] # NoPlayer
  BY Zenon DEF SamePlay, Live, SeatPart, LiveSeatKeepsPlayer
<1> QED BY <1>1, <1>2, <1>3, SetTablePlay DEF HandPart

\* Sit takes a seat nobody has, so nobody has live cards in it.
LEMMA SitPlay ==
    ASSUME HandInv, NEW p \in Players, NEW n \in Amounts, Sit(p, n)
    PROVE  HandPart'
<1> DEFINE s      == autoAssignSeat(table)
           player == [table.player EXCEPT ![s] = p]
           stack  == [table.stack EXCEPT ![s] = n]
           bond   == [table.bond EXCEPT ![s] = PlayerBond]
           u      == [table EXCEPT !.player = player, !.stack = stack, !.bond = bond]
<1>1. /\ n \in Nat /\ PlayerBond \in Nat /\ table \in Sound /\ table \in TableType
      /\ SeatPart /\ HandPart
  BY TableParams DEF HandInv, SeatInv, IInv, TypeOK
<1>2. s \in Seats /\ table.player[s] = NoPlayer
  BY <1>1, AssignedIsEmpty DEF Sit
<1>3. table' = SetTable(u)
  BY <1>1 DEF Sit, TableType
<1>4. s \notin Live(table)
  BY <1>1, <1>2 DEF SeatPart, LiveSeatKeepsPlayer
<1> HIDE DEF s
<1>6. /\ table.player \in [Seats -> Players \cup {NoPlayer}]
      /\ table.stack \in [Seats -> Nat] /\ table.bond \in [Seats -> Nat]
      /\ Live(table) \in SUBSET Seats
  BY <1>1 DEF TableType, Live
<1>7. /\ player \in [Seats -> Players \cup {NoPlayer}]
      /\ stack \in [Seats -> Nat] /\ bond \in [Seats -> Nat]
      /\ \A o \in Live(table) : stack[o] = table.stack[o] /\ player[o] = table.player[o]
  BY <1>1, <1>2, <1>4, <1>6
<1> HIDE DEF stack, bond, player
<1>8. u \in Sound
  BY Zenon, <1>1, <1>7, SeatChangeFact
<1>9. /\ SamePlay(table, u) /\ u.player = player /\ u.stack = stack
      /\ u.actionTimer = table.actionTimer /\ u.revealTimer = table.revealTimer
  BY <1>1 DEF SamePlay, TableType
<1> HIDE DEF u
<1> QED BY <1>1, <1>3, <1>7, <1>8, <1>9, ReseatPlay

\* Rebuy is refused to a seat that was dealt in.
LEMMA RebuyPlay ==
    ASSUME HandInv, NEW p \in Players, NEW n \in Amounts, Rebuy(p, n)
    PROVE  HandPart'
<1> DEFINE s     == seatOfPlayer(table, p)
           stack == [table.stack EXCEPT ![s] = @ + n]
           u     == [table EXCEPT !.stack = stack]
<1>1. n \in Nat /\ table \in Sound /\ table \in TableType /\ SeatPart /\ HandPart
  BY TableParams DEF HandInv, SeatInv, IInv, TypeOK
<1>2. s \in Seats /\ s \notin Live(table)
  BY SeatOfPlayerFact DEF Rebuy, Live
<1>3. table' = SetTable(u)
  BY <1>1 DEF Rebuy, TableType
<1> HIDE DEF s
<1>4. /\ table.stack \in [Seats -> Nat] /\ Live(table) \in SUBSET Seats
  BY <1>1 DEF TableType, Live
<1>5. stack \in [Seats -> Nat] /\ \A o \in Live(table) : stack[o] = table.stack[o]
  BY <1>1, <1>2, <1>4
<1> HIDE DEF stack
<1>6. u \in Sound
  BY Zenon, <1>1, <1>5 DEF Sound, TableType
<1>7. /\ SamePlay(table, u) /\ u.player = table.player /\ u.stack = stack
      /\ u.actionTimer = table.actionTimer /\ u.revealTimer = table.revealTimer
  BY <1>1 DEF SamePlay, TableType
<1> HIDE DEF u
<1> QED BY <1>1, <1>3, <1>5, <1>6, <1>7, ReseatPlay

\* Leave is refused to a seat with live cards.
LEMMA LeavePlay ==
    ASSUME HandInv, NEW p \in Players, Leave(p)
    PROVE  HandPart'
<1> DEFINE s      == seatOfPlayer(table, p)
           player == [table.player EXCEPT ![s] = NoPlayer]
           u      == [table EXCEPT !.player = player]
<1>1. table \in Sound /\ table \in TableType /\ SeatPart /\ HandPart
  BY DEF HandInv, SeatInv, IInv, TypeOK
<1>2. s \in Seats /\ s \notin Live(table)
  BY SeatOfPlayerFact DEF Leave
<1>3. table' = SetTable(u)
  BY <1>1 DEF Leave, TableType
<1> HIDE DEF s
<1>4. /\ table.player \in [Seats -> Players \cup {NoPlayer}] /\ Live(table) \in SUBSET Seats
  BY <1>1 DEF TableType, Live
<1>5. /\ player \in [Seats -> Players \cup {NoPlayer}]
      /\ \A o \in Live(table) : player[o] = table.player[o]
  BY <1>2, <1>4
<1> HIDE DEF player
<1>6. u \in Sound
  BY Zenon, <1>1, <1>5 DEF Sound, TableType
<1>7. /\ SamePlay(table, u) /\ u.player = player /\ u.stack = table.stack
      /\ u.actionTimer = table.actionTimer /\ u.revealTimer = table.revealTimer
  BY <1>1 DEF SamePlay, TableType
<1> HIDE DEF u
<1> QED BY <1>1, <1>3, <1>5, <1>6, <1>7, ReseatPlay

\* StartHand deals to seats that have players.
LEMMA StartHandPlay ==
    ASSUME HandInv, NEW p \in Players, StartHand(p)
    PROVE  HandPart'
<1> DEFINE u == DealIn(table)
<1>1. /\ table \in Sound /\ SeatPart /\ SeatCount(occupiedSeatsWithStack(table)) >= 2
      /\ table' = SetTable(u)
  BY DEF HandInv, SeatInv, IInv, StartHand
<1>2. occupiedSeatsWithStack(table) # {}
  BY <1>1, FundedFact
<1>3. u \in Sound
  BY <1>1, <1>2, DealInFact DEF Keeps
<1>4. u.player = table.player /\ Live(u) = occupiedSeatsWithStack(table)
  BY <1>1, <1>2, DealInSeats
<1>5. PICK sb \in Seats, bb \in Seats : Dealt(table, u, sb, bb)
  BY <1>1, DealInFields
<1> HIDE DEF u
<1>6. Playable(u) /\ Clocked(u)
  BY <1>1, <1>3, <1>5, DealtPlay
<1>7. \A s \in Live(u) : u.player[s] # NoPlayer
  BY <1>1, <1>4 DEF occupiedSeatsWithStack, SeatPart, Tidy
<1> QED BY <1>1, <1>3, <1>6, <1>7, SetTablePlay DEF HandPart

\* The rest of Act, whatever the mover's own action made of the table.
LEMMA ActPlay ==
    ASSUME HandInv, NEW p, NEW t \in Sound, Stays(table, t), Act(p, t),
           t.phase = "BETTING", Betting(t)
    PROVE  HandPart'
<1> DEFINE m == Moved(t)
           u == SetTable(m)
<1>1. Stays(t, m) /\ m \in Sound /\ Playable(m) /\ Clocked(m)
  BY MovedStays, MovedPlay
<1>2. SeatPart /\ Conclude(u, escrow)
  BY DEF Act, HandInv, SeatInv
<1> HIDE DEF m
<1>3. Stays(table, m)
  BY <1>1, StaysTransitive
<1>4. Stays(m, u) /\ u \in Sound
  BY <1>1, SetTableStays, SetTableFact DEF Keeps
<1>5. Stays(table, u)
  BY <1>3, <1>4, StaysTransitive
<1>6. Playable(u) /\ Clocked(u)
  <2>1. \A s \in Live(m) : m.player[s] # NoPlayer
    BY Zenon, <1>2, <1>3 DEF Stays, SeatPart, LiveSeatKeepsPlayer
  <2> QED BY <1>1, <2>1, SetTablePlay
<1> HIDE DEF u
<1> QED BY <1>2, <1>4, <1>5, <1>6, ConcludePlay

\* The seat on the move, in the betting that the invariant describes.
LEMMA MoverFact ==
    ASSUME HandInv, CanAct(table)
    PROVE  /\ table \in Sound /\ table.phase = "BETTING" /\ Betting(table)
           /\ table.actionOn \in Live(table) \ table.allIn /\ table.actionOn \in Seats
<1>1. IInv /\ Playable(table)
  BY DEF HandInv, HandPart, SeatInv
<1> QED BY Zenon, <1>1, ActorFact DEF CanAct, Playable

\* A fold, check, call or accepted bet leaves the phase to maybeAdvance.
LEMMA ActionPhase ==
    ASSUME NEW t \in Sound, NEW s \in Seats
    PROVE  /\ applyFold(t, s).phase = t.phase /\ applyCheck(t, s).phase = t.phase
           /\ applyCall(t, s).phase = t.phase
           /\ \A n \in Nat : applyBetTo(t, s, n).phase = t.phase
<1>1. applyFold(t, s).phase = t.phase /\ applyCheck(t, s).phase = t.phase
  BY DEF applyFold, applyCheck, Sound, TableType
<1>2. applyCall(t, s).phase = t.phase
  BY DEF applyCall, Put, Sound, TableType
<1>3. ASSUME NEW n \in Nat PROVE applyBetTo(t, s, n).phase = t.phase
  BY DEF applyBetTo, Put, Sound, TableType
<1> QED BY Zenon, <1>1, <1>2, <1>3

\* Fold, Check, Call and BetTo.
LEMMA PlayersPlay ==
    ASSUME HandInv, NEW p \in Players,
           Fold(p) \/ Check(p) \/ Call(p) \/ \E n \in Amounts : BetTo(p, n)
    PROVE  HandPart'
<1> DEFINE s == table.actionOn
<1>0. CanAct(table)
  BY Zenon DEF Fold, Act, Check, Call, BetTo
<1>1. /\ table \in Sound /\ table.phase = "BETTING" /\ Betting(table)
      /\ s \in Live(table) \ table.allIn /\ s \in Seats
  BY Zenon, <1>0, MoverFact
<1>2. CASE Fold(p)
  <2>1. Act(p, applyFold(table, s))
    BY <1>2 DEF Fold
  <2> QED BY Zenon, <1>1, <2>1, ActionStays, ActionPhase, FoldFact, FoldPlay,
             ActPlay DEF Keeps
<1>3. CASE Check(p)
  <2>1. Act(p, applyCheck(table, s))
    BY <1>3 DEF Check
  <2> QED BY Zenon, <1>1, <2>1, ActionStays, ActionPhase, CheckFact,
             CheckPlay, ActPlay DEF Keeps
<1>4. CASE Call(p)
  <2>1. Act(p, applyCall(table, s)) /\ toCall(table, s) > 0
    BY <1>4 DEF Call
  <2> QED BY Zenon, <1>1, <2>1, ActionStays, ActionPhase, CallFact, CallPlay,
             ActPlay DEF Keeps
<1>5. ASSUME NEW n \in Amounts, BetTo(p, n) PROVE HandPart'
  <2>1. Act(p, applyBetTo(table, s, n)) /\ BetToAccepted(table, s, n)
    BY <1>5 DEF BetTo
  <2>2. n \in Nat
    BY TableParams
  <2> QED BY Zenon, <1>1, <2>1, <2>2, ActionStays, ActionPhase, BetToFact,
             BetToPlay, ActPlay DEF Keeps
<1> QED BY <1>2, <1>3, <1>4, <1>5

\* The tick's check or fold, after the bond has paid.
LEMMA TickPlay ==
    ASSUME HandInv, Tick
    PROVE  HandPart'
<1> DEFINE s    == table.actionOn
           n    == timeoutSlash(table)
           bond == [table.bond EXCEPT ![s] = @ - n]
           u    == [table EXCEPT !.bond = bond]
           v    == IF toCall(u, s) = 0 THEN applyCheck(u, s) ELSE applyFold(u, s)
           m    == Moved(v)
           w    == SetTable(m)
<1>1. /\ table \in Sound /\ table.phase = "BETTING" /\ Playable(table)
      /\ s \in Live(table) \ table.allIn /\ s \in Seats /\ SeatPart /\ table \in TableType
  BY Zenon, MoverFact
     DEF Tick, TickDue, HandInv, HandPart, SeatInv, IInv, TypeOK
<1>2. bond \in [Seats -> Nat]
  <2>1. table.bond \in [Seats -> Nat] /\ table.bond[s] \in Nat
    BY <1>1 DEF TableType
  <2>2. table.bond[s] - n \in Nat
    BY <2>1, TableParams DEF timeoutSlash, Lesser
  <2> HIDE DEF n
  <2> QED BY <1>1, <2>1, <2>2
<1>3. Conclude(w, escrow - n)
  BY DEF Tick, Ticked
<1> HIDE DEF n, bond, s
<1>4. u \in Sound
  BY Zenon, <1>1, <1>2 DEF Sound, TableType
<1>5. /\ u.player = table.player /\ SamePlay(table, u) /\ u.stack = table.stack
  BY <1>1 DEF TableType, SamePlay
<1> HIDE DEF u
<1>6. Stays(table, u)
  BY <1>5, SameHand DEF SamePlay
<1>7. Betting(u) /\ u.phase = "BETTING" /\ s \in Live(u) \ u.allIn
  <2>1. Playable(u)
    BY <1>1, <1>5, SamePlayFact
  <2> QED BY Zenon, <1>1, <1>5, <2>1 DEF Playable, SamePlay, Live
<1>8. Stays(u, v) /\ v \in Sound /\ Betting(v) /\ v.phase = "BETTING"
  BY Zenon, <1>1, <1>4, <1>7, ActionStays, ActionPhase, CheckFact,
     FoldFact, CheckPlay, FoldPlay
     DEF Keeps
<1> HIDE DEF v
<1>9. Stays(v, m) /\ m \in Sound /\ Playable(m) /\ Clocked(m)
  BY <1>8, MovedStays, MovedPlay
<1> HIDE DEF m
<1>10. Stays(table, m)
  BY <1>6, <1>8, <1>9, StaysTransitive
<1>11. Stays(m, w) /\ w \in Sound
  BY <1>9, SetTableStays, SetTableFact DEF Keeps
<1>12. Playable(w) /\ Clocked(w)
  <2>1. \A o \in Live(m) : m.player[o] # NoPlayer
    BY <1>1, <1>10 DEF Stays, SeatPart, LiveSeatKeepsPlayer
  <2> QED BY <1>9, <2>1, SetTablePlay
<1>13. Stays(table, w)
  BY <1>10, <1>11, StaysTransitive
<1> HIDE DEF w
<1> QED BY <1>1, <1>3, <1>11, <1>12, <1>13, ConcludePlay

\* The calls that prepare the deck and reveal cards.  A hand whose live seats are
\* all all-in goes from the shuffle straight to the flop.
LEMMA DealerPlay ==
    ASSUME HandInv, \/ \E size \in DeckSizes : InitHand(size)
                    \/ FinalizeDeck \/ AdvanceAfterHoleSharesReady \/ RevealBoard \/ RevealHole
    PROVE  HandPart'
<1>0. /\ table \in Sound /\ table \in TableType /\ SeatPart /\ Playable(table)
      /\ Clocked(table) /\ Unset \in Int
  BY DEF HandInv, HandPart, SeatInv, IInv, TypeOK, Unset
<1>1. ASSUME NEW u \in Sound, Stays(table, u), Playable(u), DealerStores(setDeadlines(u))
      PROVE  HandPart'
  <2>1. Stays(u, setDeadlines(u)) /\ setDeadlines(u) \in Sound
    BY DeadlinesStays, DeadlinesFact DEF Keeps
  <2>2. Stays(table, setDeadlines(u))
    BY <1>1, <2>1, StaysTransitive
  <2>3. Playable(setDeadlines(u)) /\ Clocked(setDeadlines(u))
    BY <1>1, DeadlinesPlay
  <2> QED BY <1>0, <1>1, <2>1, <2>2, <2>3, StorePlay DEF DealerStores
<1>2. ASSUME NEW u \in Sound, u.player = table.player, u.stack = table.stack,
             SamePlay(table, u), table.phase = "SHUFFLE",
             u.actionTimer = table.actionTimer, u.revealTimer = Unset, DealerStores(u)
      PROVE  HandPart'
  <2>1. Playable(u)
    BY <1>0, <1>2, SamePlayFact
  <2>2. Clocked(u)
    <3>1. "SHUFFLE" \notin Awaiting
      BY DEF Awaiting, BoardPhases
    <3> QED BY <1>0, <1>2, <3>1 DEF Clocked, SamePlay
  <2>3. Stays(table, u)
    BY Zenon, <1>2, SameHand DEF SamePlay
  <2> QED BY <1>0, <1>2, <2>1, <2>2, <2>3, StorePlay DEF DealerStores
<1>3. ASSUME NEW size \in DeckSizes, InitHand(size) PROVE HandPart'
  <2> DEFINE u == [table EXCEPT !.deckSize = size, !.deckFinalized = FALSE, !.revealTimer = Unset]
  <2>0. size \in Nat
    BY TableParams
  <2>1. DealerStores(u) /\ table.phase = "SHUFFLE"
    BY Zenon, <1>3 DEF InitHand
  <2>2. u \in Sound
    BY Zenon, <1>0, <2>0 DEF Sound, TableType
  <2>3. /\ u.player = table.player /\ u.stack = table.stack /\ SamePlay(table, u)
        /\ u.actionTimer = table.actionTimer /\ u.revealTimer = Unset
    BY <1>0 DEF TableType, SamePlay
  <2> HIDE DEF u
  <2> QED BY <1>2, <2>1, <2>2, <2>3
<1>4. ASSUME FinalizeDeck PROVE HandPart'
  <2> DEFINE u == [table EXCEPT !.deckFinalized = TRUE, !.revealTimer = Unset]
  <2>1. DealerStores(u) /\ table.phase = "SHUFFLE"
    BY <1>4 DEF FinalizeDeck
  <2>2. u \in Sound
    BY Zenon, <1>0 DEF Sound, TableType
  <2>3. /\ u.player = table.player /\ u.stack = table.stack /\ SamePlay(table, u)
        /\ u.actionTimer = table.actionTimer /\ u.revealTimer = Unset
    BY <1>0 DEF TableType, SamePlay
  <2> HIDE DEF u
  <2> QED BY <1>2, <2>1, <2>2, <2>3
<1>5. ASSUME AdvanceAfterHoleSharesReady PROVE HandPart'
  <2> DEFINE phase == IF table.actionOn = Unset THEN "AWAIT_FLOP" ELSE "BETTING"
             u     == [table EXCEPT !.phase = phase]
  <2>1. /\ phase \in Phases /\ phase # "NONE" /\ phase # "SHUFFLE"
        /\ table.actionOn = Unset => phase \in Awaiting /\ phase # "BETTING"
        /\ table.actionOn # Unset => phase \notin Awaiting
    BY DEF Phases, Awaiting, BoardPhases
  <2>2. DealerStores(setDeadlines(u)) /\ table.phase = "SHUFFLE"
    BY <1>5 DEF AdvanceAfterHoleSharesReady
  <2> HIDE DEF phase
  <2>3. u \in Sound
    BY Zenon, <1>0, <2>1 DEF Sound, TableType
  <2>4. /\ u.player = table.player /\ u.stack = table.stack /\ u.phase = phase
        /\ u.actionOn = table.actionOn /\ u.inHand = table.inHand
        /\ u.folded = table.folded /\ u.allIn = table.allIn
        /\ u.streetCommit = table.streetCommit /\ u.totalCommit = table.totalCommit
        /\ u.betTo = table.betTo /\ u.interval = table.interval
        /\ u.lastActed = table.lastActed
    BY <1>0 DEF TableType
  <2> HIDE DEF u
  <2>5. Live(u) = Live(table) /\ NeedsToAct(u) = NeedsToAct(table)
    BY <2>4 DEF Live, NeedsToAct
  <2>6. Stays(table, u)
    BY <2>1, <2>4, SameHand
  <2>7. Flags(u) /\ SeatCount(Live(u)) >= 2 /\ Betting(u)
    BY Zenon, <1>0, <2>2, <2>4, <2>5
       DEF Playable, Betting, Flags, Entered, Prior, BetIsPaid
  <2>8. CASE table.actionOn = Unset
    <3>1. Live(u) \subseteq u.allIn
      BY Zenon, <1>0, <2>2, <2>4, <2>5, <2>8 DEF Playable
    <3>2. Matched(u)
      BY <3>1 DEF Matched
    <3>3. Playable(u)
      BY Zenon, <2>1, <2>4, <2>7, <2>8, <3>2 DEF Playable
    <3> QED BY <1>1, <2>2, <2>3, <2>6, <3>3
  <2>9. CASE table.actionOn # Unset
    <3>1. u.actionOn \in NeedsToAct(u)
      BY Zenon, <1>0, <2>2, <2>4, <2>5, <2>9 DEF Playable
    <3>2. Playable(u)
      BY Zenon, <2>1, <2>4, <2>7, <2>9, <3>1 DEF Playable
    <3> QED BY <1>1, <2>2, <2>3, <2>6, <3>2
  <2> QED BY <2>8, <2>9
<1>6. ASSUME RevealBoard PROVE HandPart'
  <2>1. /\ revealBoardCard(table) \in Sound /\ Stays(table, revealBoardCard(table))
        /\ Playable(revealBoardCard(table))
    BY <1>0, <1>6, RevealBoardFact, RevealBoardStays, RevealBoardPlay DEF RevealBoard, Keeps
  <2> QED BY <1>1, <1>6, <2>1 DEF RevealBoard
<1>7. ASSUME RevealHole PROVE HandPart'
  <2> DEFINE u == [table EXCEPT !.shown = @ + 1]
  <2>1. DealerStores(setDeadlines(u))
    BY <1>7 DEF RevealHole
  <2>2. u \in Sound
    BY SMTT(30), <1>0 DEF Sound, TableType
  <2>3. u.player = table.player /\ u.stack = table.stack /\ SamePlay(table, u)
    BY <1>0 DEF TableType, SamePlay
  <2> HIDE DEF u
  <2>4. Playable(u) /\ Stays(table, u)
    BY <1>0, <2>3, SamePlayFact, SameHand DEF SamePlay
  <2> QED BY <1>1, <2>1, <2>2, <2>4
<1> QED BY <1>3, <1>4, <1>5, <1>6, <1>7

\* The showdown and the two refunds leave no hand.
LEMMA SettlePlay ==
    ASSUME HandInv, SettleShowdown \/ SettleEvalError \/ AbortHand
    PROVE  HandPart'
<1>0. table \in Sound
  BY DEF HandInv, SeatInv, IInv
<1>1. ASSUME NEW t, ClearHand(t) \in Sound, DealerStores(ClearHand(t)) PROVE HandPart'
  <2>1. Live(ClearHand(t)) = {}
    BY Zenon DEF Live, ClearHand, Idle
  <2> QED BY <1>1, <2>1, ClearHandPlay, SetTablePlay DEF DealerStores, HandPart
<1>2. CASE SettleShowdown
  <2>1. PICK rank \in [Live(table) -> Ranks] : DealerStores(settleKnownShowdown(table, rank))
    BY <1>2 DEF SettleShowdown
  <2>2. settleKnownShowdown(table, rank) \in Sound
    BY <1>0, SettleFact DEF Keeps
  <2>3. \E t : settleKnownShowdown(table, rank) = ClearHand(t)
    BY Zenon DEF settleKnownShowdown
  <2> QED BY <1>1, <2>1, <2>2, <2>3
<1>3. CASE SettleEvalError \/ AbortHand
  <2>1. DealerStores(abortHandRefundAllCommits(table))
    BY <1>3 DEF SettleEvalError, AbortHand
  <2>2. abortHandRefundAllCommits(table) \in Sound
    BY <1>0, AbortFact DEF Keeps
  <2>3. \E t : abortHandRefundAllCommits(table) = ClearHand(t)
    BY Zenon DEF abortHandRefundAllCommits
  <2> QED BY <1>1, <2>1, <2>2, <2>3
<1> QED BY <1>2, <1>3

\* Time lets a deadline run out but does not set or clear one.
LEMMA NextBlockPlay ==
    ASSUME HandInv, NEW secs \in BlockSecs, NextBlock(secs)
    PROVE  HandPart'
<1> DEFINE a == Elapse(table.actionTimer, secs)
           r == Elapse(table.revealTimer, secs)
<1>1. table \in TableType /\ Playable(table) /\ Clocked(table) /\ secs \in Nat
  BY TableParams DEF HandInv, HandPart, SeatInv, IInv, TypeOK
<1>2. table' = [table EXCEPT !.actionTimer = a, !.revealTimer = r]
  BY DEF NextBlock
<1>3. ASSUME NEW timer \in Nat \cup {Unset}
      PROVE  /\ Elapse(timer, secs) \in Nat \cup {Unset}
             /\ Elapse(timer, secs) = Unset <=> timer = Unset
  BY <1>1 DEF Elapse, Unset
<1>4. /\ a \in Nat \cup {Unset} /\ r \in Nat \cup {Unset}
      /\ a = Unset <=> table.actionTimer = Unset
      /\ r = Unset <=> table.revealTimer = Unset
  BY Zenon, <1>1, <1>3 DEF Clocked
<1> HIDE DEF a, r
<1>5. /\ SamePlay(table, table') /\ table'.stack = table.stack
      /\ table'.actionTimer = a /\ table'.revealTimer = r /\ table'.phase = table.phase
  BY <1>1, <1>2 DEF TableType, SamePlay
<1>6. Playable(table')
  BY <1>1, <1>5, SamePlayFact
<1>7. Clocked(table')
  BY <1>1, <1>4, <1>5 DEF Clocked
<1> QED BY Zenon, <1>6, <1>7
           DEF HandPart, Playable, Clocked, Flags, Betting, Matched, Live, NeedsToAct, Entered, Prior, BetIsPaid

\* A new table has no hand.
LEMMA InitHandInv == Init => HandInv
<1> SUFFICES ASSUME Init PROVE HandInv
  OBVIOUS
<1>1. SeatInv
  BY InitSeats
<1>2. table = Idle(Nobody, Zero, Zero, Unset)
  BY DEF Init
<1>3. HandPart
  BY Zenon, <1>2
     DEF HandPart, Idle, Playable, Clocked, Awaiting, BoardPhases, Unset
<1> QED BY <1>1, <1>3 DEF HandInv

\* Every message of a player, every call of x/dealer and every block preserves it.
LEMMA NextHandInv == HandInv /\ [Next]_vars => HandInv'
<1> SUFFICES ASSUME HandInv, [Next]_vars PROVE HandPart'
  BY NextSeats DEF HandInv
<1>1. ASSUME NEW p \in Players, NEW n \in Amounts, Sit(p, n) PROVE HandPart'
  BY <1>1, SitPlay
<1>2. ASSUME NEW p \in Players, NEW n \in Amounts, Rebuy(p, n) PROVE HandPart'
  BY <1>2, RebuyPlay
<1>3. ASSUME NEW p \in Players, Leave(p) PROVE HandPart'
  BY <1>3, LeavePlay
<1>4. ASSUME NEW p \in Players, StartHand(p) PROVE HandPart'
  BY <1>4, StartHandPlay
<1>5. ASSUME NEW p \in Players,
             Fold(p) \/ Check(p) \/ Call(p) \/ \E n \in Amounts : BetTo(p, n)
      PROVE  HandPart'
  BY <1>5, PlayersPlay
<1>6. ASSUME Tick PROVE HandPart'
  BY <1>6, TickPlay
<1>7. ASSUME \/ \E size \in DeckSizes : InitHand(size)
             \/ FinalizeDeck \/ AdvanceAfterHoleSharesReady \/ RevealBoard \/ RevealHole
      PROVE  HandPart'
  BY <1>7, DealerPlay
<1>8. ASSUME SettleShowdown \/ SettleEvalError \/ AbortHand PROVE HandPart'
  BY <1>8, SettlePlay
<1>9. ASSUME NEW secs \in BlockSecs, NextBlock(secs) PROVE HandPart'
  BY <1>9, NextBlockPlay
<1>10. ASSUME UNCHANGED vars PROVE HandPart'
  <2>1. table' = table /\ HandPart
    BY <1>10 DEF vars, HandInv
  <2> QED BY Zenon, <2>1
             DEF HandPart, Playable, Clocked, Flags, Betting, Matched, Live, NeedsToAct,
                      Entered, Prior, BetIsPaid
<1> QED BY <1>1, <1>2, <1>3, <1>4, <1>5, <1>6, <1>7, <1>8, <1>9, <1>10 DEF Next

\* However the players bet, raise, fold, run out of chips or time, sit, leave and
\* rebuy, and whatever x/dealer does with the deck, a hand in progress can go on:
\* the seat on the move has a decision to make, the all-in flags agree with the
\* stacks, one deadline runs, and when the dealer's turn comes the bets are matched.
THEOREM HandsStayCoherent == Spec => []HandIsCoherent
<1>1. HandInv => HandIsCoherent
  BY Zenon
     DEF HandInv, HandPart, Playable, Clocked, Flags, Matched, HandIsCoherent,
         ActorHasDecision, AllInMeansBroke, ClockIsRunning, BetsAreMatched
<1> QED BY <1>1, InitHandInv, NextHandInv, PTL DEF Spec

=============================================================================
