--------------------------- MODULE ThresholdCards ---------------------------
(* How a player reads the hole cards: the epoch key dealt to the validators   *)
(* share by share (ocp-crypto's dkgEncShare.ts and dkgScalarAead.ts), cards   *)
(* encrypted to it and re-encrypted by the shuffles, the shares the           *)
(* validators publish for the player, in any order, and their interpolation   *)
(* by the bot (apps/bot/src/holeCards.ts) and by the page                     *)
(* (apps/web/src/components/holeCardCrypto.ts).  One dealer stands for the    *)
(* sum of the qualified ones, and the key's polynomial has degree one.        *)
EXTENDS Integers, Sequences, FiniteSets, SequencesExt

CONSTANTS
  Order,       \* CURVE_ORDER, a small prime
  Members,     \* the validators' indices, which are Shamir x-coordinates
  CardIds,     \* card ids in use, from 0
  Nonces,      \* bound: the key's secret, and the randomness drawn for the deck
  MaxShuffles, \* bound: re-encryptions
  MaxShares    \* bound: shares published

NoCard == -1

S == INSTANCE Sigma WITH q <- Order

VARIABLES
  secret,      \* the key's polynomial, <<f(0), slope>>
  dealt,       \* the share each validator holds, once delivered
  deck,        \* the two hole positions: what was encrypted, and its ciphertext
  shuffled,    \* shuffles done
  encShares    \* the hand's published shares, in the order they came

cardVars == <<secret, dealt, deck, shuffled, encShares>>

Positions == {1, 2}
Threshold == 2
NoShare == -1

skPlayer == 2                       \* the player's key
pkPlayer == S!mulBase(skPlayer)
skOf(j) == (2 * j + 1) % Order      \* the validators' keys
epochKey == S!mulBase(secret[1])

------------------------------------------------------------------------------
(* Dealing the key and the cards.                                           *)

\* dealer and recipient: the proof passes, the sealed scalar opens and is the
\* share that the ciphertext holds in the exponent
DeliverShare(j, r, e) ==
  LET s == (secret[1] + secret[2] * j) % Order
      pkR == S!mulBase(skOf(j))
      u == S!mulBase(r)
      v == S!pointAdd(S!mulBase(s), S!mulPoint(pkR, r))
      proof == S!dkgEncShareProve(pkR, s, r, 1, r, e)
      ct == S!encryptShareScalar(pkR, r, s, proof)
      got == S!decryptShareScalar(skOf(j), u, proof, ct)
  IN  /\ dealt[j] = NoShare
      /\ S!dkgEncShareVerify(<<S!mulBase(secret[1]), S!mulBase(secret[2])>>, j, pkR, u, v, proof, e)
      /\ S!Opens(skOf(j), u, proof, ct)
      /\ S!mulBase(got) = S!pointSub(v, S!mulPoint(u, skOf(j)))
      /\ dealt' = [dealt EXCEPT ![j] = got]
      /\ UNCHANGED <<secret, deck, shuffled, encShares>>

cardPoint(id) == S!mulBase(id + 1)

\* a shuffle re-encrypts every card of the deck, and may swap these two
ShuffleDeck(rho, swap) ==
  /\ shuffled < MaxShuffles /\ \A j \in Members : dealt[j] # NoShare
  /\ deck' = [p \in Positions |->
       LET from == IF swap THEN 3 - p ELSE p
       IN  [id |-> deck[from].id, ct |-> S!elgamalReencrypt(epochKey, deck[from].ct, rho)]]
  /\ shuffled' = shuffled + 1
  /\ UNCHANGED <<secret, dealt, encShares>>

\* d = x*c1 sealed for the player, with the proof the chain checks.  The scalar of the
\* hand, by which key and shares are multiplied alike, is left out.
PublishEncShare(j, pos, e) ==
  LET x == dealt[j]
      r == ((j + pos) % (Order - 1)) + 1  \* some nonce
      c1 == deck[pos].ct.c1
      u == S!mulBase(r)
      v == S!pointAdd(S!mulPoint(c1, x), S!mulPoint(pkPlayer, r))
  IN  /\ shuffled = MaxShuffles /\ Len(encShares) < MaxShares
      /\ \A i \in DOMAIN encShares : ~(encShares[i].index = j /\ encShares[i].pos = pos)
      /\ S!encShareVerify(S!mulBase(x), c1, pkPlayer, u, v,
                          S!encShareProve(c1, pkPlayer, x, r, 1, r, e), e)
      /\ encShares' = Append(encShares, [pos |-> pos, index |-> j, pk |-> pkPlayer, u |-> u, v |-> v])
      /\ UNCHANGED <<secret, dealt, deck, shuffled>>

------------------------------------------------------------------------------
(* Reading the cards.                                                       *)

RECURSIVE Euclid(_, _, _, _)
Euclid(old_r, r, old_s, s) ==
  IF r = 0 THEN old_s
  ELSE LET k == old_r \div r IN Euclid(r, old_r - k * r, s, old_s - k * s)

invMod(a) == Euclid(a % Order, Order, 1, 0) % Order

\* Mutant: the interpolation is at 1 instead of 0.
lagrangeCoefficientsAtOne(xs) ==
  [j \in DOMAIN xs |->
     LET mul(acc, m) == IF m = j THEN acc
                        ELSE [num |-> (acc.num * (1 - xs[m])) % Order,
                              den |-> (acc.den * (xs[j] - xs[m])) % Order]
         f == FoldLeft(mul, [num |-> 1, den |-> 1], [m \in DOMAIN xs |-> m])
     IN  (f.num * invMod(f.den)) % Order]

lagrangeCoefficients(xs) ==
  [j \in DOMAIN xs |->
     LET mul(acc, m) == IF m = j THEN acc
                        ELSE [num |-> (acc.num * (Order - xs[m])) % Order,
                              den |-> (acc.den * (xs[j] - xs[m])) % Order]
         f == FoldLeft(mul, [num |-> 1, den |-> 1], [m \in DOMAIN xs |-> m])
     IN  (f.num * invMod(f.den)) % Order]

\* CARD_TABLE holds the points of the 52 ids only
lookupCardId(point) ==
  IF \E id \in CardIds : cardPoint(id) = point
  THEN CHOOSE id \in CardIds : cardPoint(id) = point ELSE NoCard

decryptEncShare(share, sk) == S!pointSub(share.v, S!mulPoint(share.u, sk))

recoverCard(c2, shares) ==
  IF shares = <<>> THEN NoCard
  ELSE LET coeffs == lagrangeCoefficients([i \in DOMAIN shares |-> shares[i].validatorIndex])
           add(acc, i) == S!pointAdd(acc, S!mulPoint(shares[i].d, coeffs[i]))
       IN  lookupCardId(S!pointSub(c2, FoldLeft(add, 0, [i \in DOMAIN shares |-> i])))

\* the page: the coordinator's route has chosen the shares of this position
decryptIndexedShares(shares, sk) ==
  LET valid == SelectSeq(shares, LAMBDA s : s.index > 0)
  IN  [i \in DOMAIN valid |-> [validatorIndex |-> valid[i].index, d |-> decryptEncShare(valid[i], sk)]]

\* the bot: both positions, or nothing
decryptHoleCards(positions, pk, sk) ==
  LET at(pos) == SelectSeq(encShares, LAMBDA s : s.pos = pos /\ s.pk = pk)
      shares(pos) == [i \in DOMAIN at(pos) |->
                        [validatorIndex |-> at(pos)[i].index, d |-> decryptEncShare(at(pos)[i], sk)]]
      card(pos) == IF shares(pos) = <<>> THEN NoCard ELSE recoverCard(deck[pos].ct.c2, shares(pos))
      cards == [i \in DOMAIN positions |-> card(positions[i])]
  IN  IF \E i \in DOMAIN cards : cards[i] = NoCard THEN <<>> ELSE cards

------------------------------------------------------------------------------
CardsStart(s, ids, r) ==
  /\ secret = s
  /\ dealt = [j \in Members |-> NoShare]
  /\ deck = [p \in Positions |->
       [id |-> ids[p], ct |-> S!elgamalEncrypt(S!mulBase(s[1]), cardPoint(ids[p]), p * r)]]
  /\ shuffled = 0
  /\ encShares = <<>>

CardsInit ==
  \E s \in Nonces \X ({0} \cup Nonces), ids \in CardIds \X CardIds, r \in Nonces :
    ids[1] < ids[2] /\ CardsStart(s, ids, r)

CardsNext ==
  \/ \E j \in Members, r \in Nonces, e \in 0 .. Order - 1 : DeliverShare(j, r, e)
  \/ \E rho \in Nonces, swap \in BOOLEAN : ShuffleDeck(rho, swap)
  \/ \E j \in Members, pos \in Positions, e \in 0 .. Order - 1 : PublishEncShare(j, pos, e)

------------------------------------------------------------------------------
SharesFor(pos) == SelectSeq(encShares, LAMBDA s : s.pos = pos)

(* Once the threshold's worth of shares of both hole positions is published,  *)
(* the bot and the page read the cards that were encrypted and shuffled to    *)
(* these positions: from any of the validators' shares, in any order, and no  *)
(* less when more of them come (decryptHoleCards, recoverCard).               *)
PlayerReadsDealtCards ==
  (\A pos \in Positions : Len(SharesFor(pos)) >= Threshold) =>
    /\ decryptHoleCards(<<1, 2>>, pkPlayer, skPlayer) = <<deck[1].id, deck[2].id>>
    /\ \A pos \in Positions :
         recoverCard(deck[pos].ct.c2, decryptIndexedShares(SharesFor(pos), skPlayer)) = deck[pos].id
=============================================================================
