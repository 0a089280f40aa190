--------------------------- MODULE ShuffleNetwork ---------------------------
(* A shuffler's shuffle and its proof (packages/ocp-shuffle/src/shuffle_v1.ts): *)
(* the odd-even transposition network that shuffleProveV1 walks through with a *)
(* random key per card, the proof it writes round by round, what may happen to *)
(* the proof on its way, and shuffleVerifyV1, which reads it back.             *)
(* A ciphertext is the card it hides and its c1.  A switch or single proof is  *)
(* the statement and the context it was made for: ProofGame shows that such a  *)
(* proof verifies for this statement, and for no false one.                    *)
EXTENDS Integers, Sequences, FiniteSets, SequencesExt

CONSTANTS
  DeckSizes,    \* deck sizes tried
  ExtraRounds,  \* bound: rounds beyond the deck's size
  Contexts,     \* the hands and shufflers a proof may be bound to
  NoContext,
  C1s,          \* c1 is one of 0 .. C1s - 1
  MaxDamage     \* bound: faults of the proof's way

VARIABLES
  job,       \* the prover's input: deckIn, perm, rounds, context
  items,     \* the prover's items: ciphertext and key by position
  round,     \* rounds done
  chunks,    \* proofChunks after the header
  header,
  damage     \* faults that befell the proof

shuffleVars == <<job, items, round, chunks, header, damage>>

V1 == 1
V2 == 2

------------------------------------------------------------------------------
(* The prover.                                                              *)

Reenc(ct, rho) == [ct EXCEPT !.c1 = (@ + rho) % C1s]

sampleNonzeroScalar == 1

\* the first rho whose c1 is none of avoidC1s
reencryptAvoidingC1Collisions(src, avoidC1s) ==
  Reenc(src, CHOOSE rho \in 1 .. C1s - 1 :
               /\ Reenc(src, rho).c1 \notin avoidC1s
               /\ \A lower \in 1 .. rho - 1 : Reenc(src, lower).c1 \in avoidC1s)

Shuffles(n) == {perm \in [0 .. n - 1 -> 0 .. n - 1] : \A i, j \in 0 .. n - 1 : perm[i] = perm[j] => i = j}

\* the pairs by their first position, and the positions left over
roundPairs(n, r) ==
  LET firsts == {i \in 0 .. n - 2 : i % 2 = r % 2}
  IN  [pairs |-> SelectSeq([k \in 1 .. n |-> k - 1], LAMBDA i : i \in firsts),
       singles |-> SelectSeq([k \in 1 .. n |-> k - 1],
                             LAMBDA i : i \notin firsts /\ i - 1 \notin firsts)]

SwitchChunk(in0, in1, out0, out1, context) ==
  [t |-> "switch", in |-> <<in0, in1>>, out |-> <<out0, out1>>, context |-> context]

SingleChunk(inCt, outCt, context) ==
  [t |-> "single", in |-> <<inCt>>, out |-> <<outCt>>, context |-> context]

IsSingle(n, r, i) == \E k \in DOMAIN roundPairs(n, r).singles : roundPairs(n, r).singles[k] = i

\* the first position of the pair that position i is in
PairOf(r, i) == IF i % 2 = r % 2 THEN i ELSE i - 1

\* where the card at position i comes from: pairs are put in order of their keys
Source(n, r, i) ==
  LET low == PairOf(r, i)
  IN  IF ~IsSingle(n, r, i) /\ items[low].key > items[low + 1].key
      THEN 2 * low + 1 - i ELSE i

\* everything is re-encrypted, pairs to a c1 that neither input has
NextCt(n, r, i) ==
  IF IsSingle(n, r, i) THEN Reenc(items[i].ct, sampleNonzeroScalar)
  ELSE reencryptAvoidingC1Collisions(items[Source(n, r, i)].ct,
         {items[PairOf(r, i)].ct.c1, items[PairOf(r, i) + 1].ct.c1})

NextItems(n, r) ==
  [i \in 0 .. n - 1 |-> [ct |-> NextCt(n, r, i), key |-> items[Source(n, r, i)].key]]

ProveRound ==
  /\ round < job.rounds
  /\ LET n == job.n
         p == roundPairs(n, round)
         next == NextItems(n, round)
         deck == <<[t |-> "deck", deck |-> [i \in 0 .. n - 1 |-> next[i].ct]]>>
         switches == [k \in DOMAIN p.pairs |->
           LET i == p.pairs[k] IN
           SwitchChunk(items[i].ct, items[i + 1].ct, next[i].ct, next[i + 1].ct, job.context)]
         singles == [k \in DOMAIN p.singles |->
           LET i == p.singles[k] IN SingleChunk(items[i].ct, next[i].ct, job.context)]
     IN  /\ items' = next
         /\ chunks' = chunks \o deck \o switches \o singles
  /\ round' = round + 1
  /\ UNCHANGED <<job, header, damage>>

Finished == round = job.rounds

------------------------------------------------------------------------------
(* The proof's way: lost, repeated and exchanged parts, and a proof made for  *)
(* something else.                                                           *)

Damage ==
  /\ Finished /\ damage < MaxDamage
  /\ damage' = damage + 1
  /\ \/ \E i \in DOMAIN chunks : chunks' = RemoveAt(chunks, i) /\ UNCHANGED header
     \/ \E i \in DOMAIN chunks : chunks' = InsertAt(chunks, i, chunks[i]) /\ UNCHANGED header
     \/ \E i \in 1 .. Len(chunks) - 1 :
          /\ chunks' = [chunks EXCEPT ![i] = chunks[i + 1], ![i + 1] = chunks[i]]
          /\ UNCHANGED header
     \/ \E i, k \in DOMAIN chunks :
          /\ chunks[i].t = "deck" /\ chunks[k].t = "deck"
          /\ chunks' = [chunks EXCEPT ![i] = chunks[k]] /\ UNCHANGED header
     \/ \E i \in DOMAIN chunks :
          /\ chunks[i].t = "deck"
          /\ chunks' = [chunks EXCEPT ![i].deck[0].card = chunks[i].deck[1].card]
          /\ UNCHANGED header
     \/ header.rounds > 0 /\ header' = [header EXCEPT !.rounds = @ - 1] /\ UNCHANGED chunks
     \/ header' = [header EXCEPT !.rounds = @ + 1] /\ UNCHANGED chunks
  /\ UNCHANGED <<job, items, round>>

------------------------------------------------------------------------------
(* The verifier.                                                            *)

ContextOk(h, context) ==
  \/ h.version = V1 /\ context = NoContext
  \/ h.version = V2 /\ context # NoContext /\ h.context = context

SameCards(xs, ys) == \/ \A i \in DOMAIN xs : xs[i].card = ys[i].card
                     \/ Len(xs) = 2 /\ xs[1].card = ys[2].card /\ xs[2].card = ys[1].card

verifySwitchChunk(chunk, cur, next, i, context) ==
  /\ chunk.t = "switch" /\ chunk.context = context
  /\ chunk.in = <<cur[i], cur[i + 1]>> /\ chunk.out = <<next[i], next[i + 1]>>
  /\ {next[i].c1, next[i + 1].c1} \cap {cur[i].c1, cur[i + 1].c1} = {}
  /\ SameCards(chunk.in, chunk.out)

verifySingleChunk(chunk, cur, next, i, context) ==
  /\ chunk.t = "single" /\ chunk.context = context
  /\ chunk.in = <<cur[i]>> /\ chunk.out = <<next[i]>>
  /\ next[i].c1 # cur[i].c1
  /\ SameCards(chunk.in, chunk.out)

\* the positions whose single proofs the verifier reads, in order
verifierSingles(n, start) ==
  IF n % 2 = 1 THEN <<IF start = 0 THEN n - 1 ELSE 0>>
  ELSE IF start = 1 THEN <<0, n - 1>> ELSE <<>>

\* one round of the verifier's loop; st is its reader and its current deck
VerifyRound(st, n, r, context) ==
  LET start == r % 2
      firsts == SelectSeq([k \in 1 .. n |-> k - 1], LAMBDA i : i % 2 = start /\ i + 1 < n)
      singles == verifierSingles(n, start)
      size == 1 + Len(firsts) + Len(singles)
      part == [k \in 1 .. size |-> st.rest[k]]
      next == part[1].deck
  IN  IF /\ st.ok /\ Len(st.rest) >= size
         /\ part[1].t = "deck"
         /\ \A k \in DOMAIN firsts :
              verifySwitchChunk(part[1 + k], st.cur, next, firsts[k], context)
         /\ \A k \in DOMAIN singles :
              verifySingleChunk(part[1 + Len(firsts) + k], st.cur, next, singles[k], context)
      THEN [ok |-> TRUE, cur |-> next, rest |-> SubSeq(st.rest, size + 1, Len(st.rest))]
      ELSE [st EXCEPT !.ok = FALSE]

VerifyRounds(h, deckIn, body, context) ==
  LET step(st, r) == VerifyRound(st, h.n, r, context)
  IN  FoldLeft(step, [ok |-> TRUE, cur |-> deckIn, rest |-> body],
               [r \in 1 .. h.rounds |-> r - 1])

\* Mutant: any context that the proof itself names is taken.
shuffleVerifyAnyContext(deckIn, h, body, context) ==
  LET st == VerifyRounds(h, deckIn, body, h.context)
  IN  [ok |-> h.n = Cardinality(DOMAIN deckIn) /\ h.n >= 2 /\ h.rounds > 0 /\ st.ok /\ st.rest = <<>>,
       deckOut |-> st.cur]

shuffleVerifyV1(deckIn, h, body, context) ==
  LET st == VerifyRounds(h, deckIn, body, context)
  IN  [ok |-> /\ ContextOk(h, context)
              /\ h.n = Cardinality(DOMAIN deckIn) /\ h.n >= 2 /\ h.rounds > 0
              /\ st.ok
              /\ st.rest = <<>>,
       deckOut |-> st.cur]

------------------------------------------------------------------------------
\* a deck fresh from the chain, or one that a shuffle has gone over
ShuffleStart(n, rounds, perm, context, fresh) ==
  /\ job = [n |-> n, rounds |-> rounds, context |-> context, perm |-> perm,
            deckIn |-> [i \in 0 .. n - 1 |->
                          [card |-> i, c1 |-> IF fresh THEN 0 ELSE (2 * i) % C1s]]]
  /\ header = [version |-> IF context = NoContext THEN V1 ELSE V2, n |-> n,
               rounds |-> rounds, context |-> context]
  /\ items = [i \in DOMAIN job.deckIn |-> [ct |-> job.deckIn[i], key |-> job.perm[i]]]
  /\ round = 0
  /\ chunks = <<>>
  /\ damage = 0

ShuffleInit ==
  \E n \in DeckSizes : \E extra \in 0 .. ExtraRounds, perm \in Shuffles(n),
     context \in Contexts \cup {NoContext}, fresh \in BOOLEAN :
    ShuffleStart(n, n - 1 + extra, perm, context, fresh)

ShuffleNext == ProveRound \/ Damage

------------------------------------------------------------------------------
deckOut == [i \in DOMAIN items |-> items[i].ct]

Verified(context) == shuffleVerifyV1(job.deckIn, header, chunks, context)

(* The verifier reads the proof exactly as the prover wrote it, for every     *)
(* deck size, odd or even, number of rounds and version, and gets the         *)
(* prover's deck (roundPairs and the loops of shuffleVerifyV1).               *)
HonestShuffleVerifies ==
  (Finished /\ damage = 0) =>
    Verified(job.context) = [ok |-> TRUE, deckOut |-> deckOut]

(* With as many rounds as cards, the default, the network has carried every   *)
(* card to the position its random key names: the output is the permutation   *)
(* drawn, so no permutation of the deck is out of the shuffler's reach.       *)
ShuffleIsPermutationDrawn ==
  (Finished /\ job.rounds >= job.n) =>
    \A i \in DOMAIN job.deckIn : deckOut[job.perm[i]].card = job.deckIn[i].card

(* Whatever happened to the proof, one that the verifier accepts is of this   *)
(* hand, round and shuffler, and its deck holds the cards of the deck that    *)
(* went in, each once.                                                        *)
AcceptedShuffleKeepsCards ==
  Finished => \A context \in Contexts \cup {NoContext} :
    Verified(context).ok =>
      /\ context = job.context
      /\ {Verified(context).deckOut[i].card : i \in DOMAIN job.deckIn}
           = {job.deckIn[i].card : i \in DOMAIN job.deckIn}

\* shuffleProveV1 and shuffleVerifyV1 agree on the network: honest shuffles pass
\* and permute as drawn, and what passes kept the cards and was made for this
\* context.
ShuffleKeepsCards ==
  HonestShuffleVerifies /\ ShuffleIsPermutationDrawn /\ AcceptedShuffleKeepsCards
=============================================================================
