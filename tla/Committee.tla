------------------------------ MODULE Committee ------------------------------
(* Who deals: the committee of an epoch is drawn from the bonded validators,   *)
(* weighted by power (x/dealer/committee), and a member that fails its duty is *)
(* slashed and jailed (keeper/penalty.go), which changes who is drawn next.    *)
(* x/staking and x/slashing are external.  BeginEpoch draws one member a step; *)
(* nothing else happens between the draws of one transaction.                  *)
EXTENDS Integers, FiniteSets, Sequences

CONSTANTS
  Operators,          \* validators, numbered in the order of their addresses
  InitialTokens,      \* what each may have staked
  PowerReduction,     \* tokens to one unit of consensus power
  Faults,             \* faults: the fraction slashed, in basis points, and the jail time
  MaxFines,           \* bound: penalties
  MaxTime             \* bound: blocks

ASSUME CommitteeParams == \A f \in Faults : f.jail \in Nat

VARIABLES
  stakes,      \* x/staking and x/slashing: tokens, jailed, and jailed until
  bonded,      \* validators with status bonded
  blockTime,
  draw,        \* the loop of SampleByPower; size 0: none
  members,     \* the committee last drawn
  owed,        \* per validator: the latest end of a jail time it was given
  fined        \* penalties so far

committeeVars == <<stakes, bonded, blockTime, draw, members, owed, fined>>

NoDraw == [size |-> 0, pool |-> <<>>, total |-> 0, selected |-> {}]

GetConsensusPower(v) == stakes[v].tokens \div PowerReduction

\* x/staking: a jailed validator leaves the power index at once, and the bonded
\* set when the block ends.
GetBondedValidatorsByPower == {v \in bonded : ~stakes[v].jailed}

------------------------------------------------------------------------------
(* The draw.                                                                *)

\* Candidates in the order of their addresses.
SortedByOperator(S) ==
  CHOOSE q \in [1 .. Cardinality(S) -> S] :
    \A i, j \in DOMAIN q : i < j => q[i].operator < q[j].operator

\* The pool of SampleByPower: those with power.
BondedMemberSnapshots ==
  SortedByOperator({[operator |-> v, power |-> GetConsensusPower(v)] :
                      v \in {w \in GetBondedValidatorsByPower : GetConsensusPower(w) > 0}})

\* the power of the pool's first n
Cum(pool, n) ==
  LET sum[i \in 0 .. n] == IF i = 0 THEN 0 ELSE sum[i - 1] + pool[i].power
  IN  sum[n]

BitLen(n) == CHOOSE b \in 1 .. n : 2 ^ (b - 1) <= n /\ n < 2 ^ b

\* What may be drawn: that many bits of the hash, and again until it is below max.
\* Which of its bytes are taken and masked is left out.
BigIntn(max) == IF max = 1 THEN {0} ELSE {r \in 0 .. 2 ^ BitLen(max) - 1 : r < max}

\* The first whose cumulative power exceeds r; 0 if there is none.
Pick(pool, r) ==
  LET over == {j \in DOMAIN pool : Cum(pool, j) > r}
  IN  IF over = {} THEN 0 ELSE CHOOSE j \in over : \A i \in over : j <= i

\* Mutant: the pool is shortened without the swap.
DropLast(pool, pick) == SubSeq(pool, 1, Len(pool) - 1)

SwapRemove(pool, pick) == SubSeq([pool EXCEPT ![pick] = pool[Len(pool)]], 1, Len(pool) - 1)

\* BeginEpoch up to the first draw; it fails when there are too few.
SampleByPower(k) ==
  /\ draw = NoDraw
  /\ Len(BondedMemberSnapshots) >= k
  /\ draw' = [size |-> k, pool |-> BondedMemberSnapshots, selected |-> {},
              total |-> Cum(BondedMemberSnapshots, Len(BondedMemberSnapshots))]
  /\ UNCHANGED <<stakes, bonded, blockTime, members, owed, fined>>

\* Members in the order of their addresses: a member's index is its place.
DealerMembersFromSnapshots(selected) == SortedByOperator(selected)

DrawMember ==
  /\ draw # NoDraw
  /\ \E r \in BigIntn(draw.total) :
       LET pick == Pick(draw.pool, r)
           selected == draw.selected \cup {draw.pool[pick]}
           next == [draw EXCEPT !.pool = SwapRemove(draw.pool, pick), !.selected = selected,
                                !.size = draw.size - 1, !.total = draw.total - draw.pool[pick].power]
       IN  /\ draw' = IF pick = 0 \/ next.size = 0 THEN NoDraw ELSE next
           /\ members' = IF pick # 0 /\ next.size = 0
                         THEN DealerMembersFromSnapshots(selected) ELSE members
  /\ UNCHANGED <<stakes, bonded, blockTime, owed, fined>>

------------------------------------------------------------------------------
(* Penalties.                                                               *)

\* x/slashing: a part of the power at the time of the fault, in tokens
SlashedTokens(v, power, fault) ==
  LET amount == (power * PowerReduction * fault.bps) \div 10000
  IN  IF amount > stakes[v].tokens THEN 0 ELSE stakes[v].tokens - amount

\* Mutant: nobody is ever taken for the last validator.
IsSoleNever(v) == FALSE

IsSole(v) == GetBondedValidatorsByPower = {v}

\* Mutant: a new jail time replaces a longer one.
JailUntilAnew(v, duration) == IF duration > 0 THEN blockTime + duration ELSE stakes[v].until

JailUntil(v, duration) ==
  IF duration > 0 /\ stakes[v].until < blockTime + duration
  THEN blockTime + duration ELSE stakes[v].until

\* A fault of v, fined by the power in the committee or, for the beacon, of now.
SlashAndJailValidator(v, power, fault) ==
  /\ draw = NoDraw /\ fined < MaxFines
  /\ stakes' = [stakes EXCEPT ![v] =
       [tokens |-> SlashedTokens(v, power, fault),
        jailed |-> stakes[v].jailed \/ ~IsSole(v),
        until  |-> IF IsSole(v) THEN stakes[v].until ELSE JailUntil(v, fault.jail)]]
  /\ owed' = [owed EXCEPT ![v] = IF IsSole(v) \/ @ > blockTime + fault.jail THEN @
                                 ELSE blockTime + fault.jail]
  /\ fined' = fined + 1
  /\ UNCHANGED <<bonded, blockTime, draw, members>>

Fault(fault) ==
  \/ \E i \in DOMAIN members : SlashAndJailValidator(members[i].operator, members[i].power, fault)
  \/ \E v \in Operators : SlashAndJailValidator(v, GetConsensusPower(v), fault)

------------------------------------------------------------------------------
(* x/slashing and x/staking.                                                *)

Unjail(v) ==
  /\ draw = NoDraw
  /\ stakes[v].jailed /\ blockTime >= stakes[v].until
  /\ stakes' = [stakes EXCEPT ![v].jailed = FALSE]
  /\ UNCHANGED <<bonded, blockTime, draw, members, owed, fined>>

\* The block ends.  The chain halts when nobody would be left.
EndBlock ==
  /\ draw = NoDraw /\ blockTime < MaxTime
  /\ bonded' = {v \in Operators : ~stakes[v].jailed /\ GetConsensusPower(v) > 0}
  /\ bonded' # {}
  /\ blockTime' = blockTime + 1
  /\ UNCHANGED <<stakes, draw, members, owed, fined>>

CommitteeStart(tokens) ==
  /\ stakes = [v \in Operators |-> [tokens |-> tokens[v], jailed |-> FALSE, until |-> 0]]
  /\ bonded = {v \in Operators : tokens[v] >= PowerReduction}
  /\ blockTime = 1
  /\ draw = NoDraw
  /\ members = <<>>
  /\ owed = [v \in Operators |-> 0]
  /\ fined = 0

CommitteeInit ==
  \E tokens \in [Operators -> InitialTokens] :
    /\ \E v \in Operators : tokens[v] >= PowerReduction
    /\ CommitteeStart(tokens)

CommitteeNext ==
  \/ \E k \in 2 .. Cardinality(Operators) : SampleByPower(k)
  \/ DrawMember
  \/ \E fault \in Faults : Fault(fault)
  \/ \E v \in Operators : Unjail(v)
  \/ EndBlock

CommitteeSpec == CommitteeInit /\ [][CommitteeNext]_committeeVars

------------------------------------------------------------------------------
(* At every draw, after whatever was drawn and swapped before it, each of    *)
(* those left is picked by as many of the equally likely numbers as it has    *)
(* power, and no number picks nobody (SampleByPower, BigIntn).                *)
DrawsAreProportional ==
  draw # NoDraw =>
    \A j \in DOMAIN draw.pool :
      /\ Cardinality({r \in BigIntn(draw.total) : Pick(draw.pool, r) = j}) = draw.pool[j].power
      /\ \A r \in BigIntn(draw.total) : Pick(draw.pool, r) # 0

Candidates(pool) == {pool[i] : i \in DOMAIN pool}

(* Those drawn and those left are, between them, the bonded validators with  *)
(* power, each once and with the power it has: nobody is drawn twice, and     *)
(* nobody is lost from the pool (SampleByPower's swap-remove).                *)
PoolLosesNobody ==
  draw # NoDraw =>
    /\ draw.selected \cup Candidates(draw.pool) = Candidates(BondedMemberSnapshots)
    /\ Cardinality(draw.selected) + Len(draw.pool) = Len(BondedMemberSnapshots)

(* Whoever can be drawn has served every jail time it was given, however     *)
(* many faults it was fined for and in whatever order (SlashAndJailValidator, *)
(* "Never shorten an existing jail").  A sole validator is given none.        *)
CandidatesHaveServed == \A v \in GetBondedValidatorsByPower : owed[v] <= blockTime

(* Penalties never jail the last of the bonded validators, whatever several  *)
(* of one block add up to (SlashAndJailValidator's check for a sole one).     *)
JailsNotTheLast == GetBondedValidatorsByPower # {}

\* SampleByPower over any powers: each draw is proportional to power among those
\* left, and every candidate is drawn or left.
DrawsAreFair == DrawsAreProportional /\ PoolLosesNobody
==============================================================================
