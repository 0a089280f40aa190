-------------------------------- MODULE Sigma --------------------------------
(* The zero-knowledge proofs of packages/ocp-crypto and packages/ocp-shuffle  *)
(* over a small prime field.  A point is its discrete logarithm to base G, so *)
(* points and scalars are both 0 .. q - 1, and adding points or multiplying   *)
(* them is arithmetic mod q.  The Transcript's hash is the proof's challenge  *)
(* e: prover and verifier append the same messages and hence agree on it, and *)
(* it may be any scalar.  The fixed-length encodings are left out.            *)
EXTENDS Integers, Sequences, SequencesExt

CONSTANT q    \* CURVE_ORDER, a prime

Scalars == 0 .. q - 1
G == 1

pointAdd(a, b) == (a + b) % q
pointSub(a, b) == (a - b) % q
mulPoint(p, s) == (p * s) % q
mulBase(s) == mulPoint(G, s)
scalarAdd(a, b) == (a + b) % q
scalarSub(a, b) == (a - b) % q
scalarMul(a, b) == (a * b) % q

\* the response to challenge e of a prover that drew nonce w for witness x
Response(w, e, x) == scalarAdd(w, scalarMul(e, x))

------------------------------------------------------------------------------
(* ElGamal encryption: elgamal.ts of both packages.                          *)

elgamalEncrypt(pk, m, r) == [c1 |-> mulBase(r), c2 |-> pointAdd(m, mulPoint(pk, r))]

elgamalReencrypt(pk, ct, rho) ==
  [c1 |-> pointAdd(ct.c1, mulBase(rho)), c2 |-> pointAdd(ct.c2, mulPoint(pk, rho))]

------------------------------------------------------------------------------
(* eqdlog.ts: X = x*A and Y = x*B for one x.                                 *)

proveEqDlog(A, B, x, w, e) ==
  [t1 |-> mulPoint(A, w), t2 |-> mulPoint(B, w), z |-> Response(w, e, x)]

verifyEqDlog(A, B, X, Y, proof, e) ==
  /\ mulPoint(A, proof.z) = pointAdd(proof.t1, mulPoint(X, e))
  /\ mulPoint(B, proof.z) = pointAdd(proof.t2, mulPoint(Y, e))

simulateEqDlogCommitments(A, B, X, Y, e, z) ==
  [t1 |-> pointSub(mulPoint(A, z), mulPoint(X, e)),
   t2 |-> pointSub(mulPoint(B, z), mulPoint(Y, e))]

------------------------------------------------------------------------------
(* chaumPedersen.ts: y = x*G and d = x*c1.                                   *)

chaumPedersenProve(c1, x, w, e) ==
  [a |-> mulBase(w), b |-> mulPoint(c1, w), s |-> Response(w, e, x)]

chaumPedersenVerify(y, c1, d, proof, e) ==
  /\ mulBase(proof.s) = pointAdd(proof.a, mulPoint(y, e))
  /\ mulPoint(c1, proof.s) = pointAdd(proof.b, mulPoint(d, e))

------------------------------------------------------------------------------
(* encShare.ts: y = x*G, u = r*G and v = x*c1 + r*pkP.                       *)

\* throws on a zero nonce
encShareProve(c1, pkP, x, r, wx, wr, e) ==
  [a1 |-> mulBase(wx), a2 |-> mulBase(wr),
   a3 |-> pointAdd(mulPoint(c1, wx), mulPoint(pkP, wr)),
   sx |-> Response(wx, e, x), sr |-> Response(wr, e, r)]

\* Mutant: the last of the three equations is not checked.
encShareVerifyTwo(y, c1, pkP, u, v, proof, e) ==
  /\ mulBase(proof.sx) = pointAdd(proof.a1, mulPoint(y, e))
  /\ mulBase(proof.sr) = pointAdd(proof.a2, mulPoint(u, e))

encShareVerify(y, c1, pkP, u, v, proof, e) ==
  /\ mulBase(proof.sx) = pointAdd(proof.a1, mulPoint(y, e))
  /\ mulBase(proof.sr) = pointAdd(proof.a2, mulPoint(u, e))
  /\ pointAdd(mulPoint(c1, proof.sx), mulPoint(pkP, proof.sr))
       = pointAdd(proof.a3, mulPoint(v, e))

------------------------------------------------------------------------------
(* dkgEncShare.ts: s*G is the commitments' value at j, u = r*G and           *)
(* v = s*G + r*pkR.  dkgScalarAead.ts: the scalar s itself, sealed with the  *)
(* key both sides derive and with the proof as associated data.              *)

evalCommitments(commitments, j) ==
  LET step(acc, c) == [sum |-> pointAdd(acc.sum, mulPoint(c, acc.pow)),
                       pow |-> scalarMul(acc.pow, j)]
  IN  FoldLeft(step, [sum |-> 0, pow |-> 1], commitments).sum

\* throws on a zero nonce
dkgEncShareProve(pkR, s, r, ws, wr, e) ==
  [a1 |-> mulBase(ws), a2 |-> mulBase(wr),
   a3 |-> pointAdd(mulBase(ws), mulPoint(pkR, wr)),
   ss |-> Response(ws, e, s), sr |-> Response(wr, e, r)]

dkgEncShareVerify(commitments, j, pkR, u, v, proof, e) ==
  /\ Len(commitments) > 0 /\ j >= 1
  /\ mulBase(proof.ss) = pointAdd(proof.a1, mulPoint(evalCommitments(commitments, j), e))
  /\ mulBase(proof.sr) = pointAdd(proof.a2, mulPoint(u, e))
  /\ pointAdd(mulBase(proof.ss), mulPoint(pkR, proof.sr))
       = pointAdd(proof.a3, mulPoint(v, e))

encryptShareScalar(pkR, r, s, proof) == [key |-> mulPoint(pkR, r), aad |-> proof, scalar |-> s]

\* the tag check, without which decryption throws
Opens(skR, u, proof, ct) == ct.key = mulPoint(u, skR) /\ ct.aad = proof

decryptShareScalar(skR, u, proof, ct) == ct.scalar

------------------------------------------------------------------------------
(* switch_or.ts: out0 and out1 re-encrypt in0 and in1, straight or swapped.  *)
(* Relations 0 and 1 are the straight branch, 2 and 3 the swapped one.       *)

relIn(in0, in1) == [k \in 0 .. 3 |-> IF k \in {0, 3} THEN in0 ELSE in1]

relOut(out0, out1) == [k \in 0 .. 3 |-> IF k \in {0, 2} THEN out0 ELSE out1]

dlogDiff(inCt, outCt) ==
  [X |-> pointSub(outCt.c1, inCt.c1), Y |-> pointSub(outCt.c2, inCt.c2)]

Rerandomized(in0, in1, out0, out1) == {out0.c1, out1.c1} \cap {in0.c1, in1.c1} = {}

\* nonces: the simulated branch's challenge, its two responses, and w0 and w1
proveSwitch(pk, in0, in1, out0, out1, swapped, rho, eSim, zSim, w, e) ==
  LET real == IF swapped THEN <<2, 3>> ELSE <<0, 1>>
      sim == IF swapped THEN <<0, 1>> ELSE <<2, 3>>
      eReal == scalarSub(e, eSim)
      diff(k) == dlogDiff(relIn(in0, in1)[k], relOut(out0, out1)[k])
      simulated(k, z) == simulateEqDlogCommitments(G, pk, diff(k).X, diff(k).Y, eSim, z)
      side(k) == IF k \in {real[1], sim[1]} THEN 1 ELSE 2
      isReal(k) == k \in {real[1], real[2]}
  IN  [e0 |-> IF swapped THEN eSim ELSE eReal,
       t1 |-> [k \in 0 .. 3 |-> IF isReal(k) THEN mulPoint(G, w[side(k)])
                               ELSE simulated(k, zSim[side(k)]).t1],
       t2 |-> [k \in 0 .. 3 |-> IF isReal(k) THEN mulPoint(pk, w[side(k)])
                               ELSE simulated(k, zSim[side(k)]).t2],
       z |-> [k \in 0 .. 3 |-> IF isReal(k) THEN Response(w[side(k)], eReal, rho[side(k)])
                              ELSE zSim[side(k)]]]

\* one of the four blocks of verifySwitch
SwitchRelation(pk, inCt, outCt, t1, t2, z, e) ==
  /\ mulPoint(G, z) = pointAdd(t1, mulPoint(dlogDiff(inCt, outCt).X, e))
  /\ mulPoint(pk, z) = pointAdd(t2, mulPoint(dlogDiff(inCt, outCt).Y, e))

\* the part of the challenge e that relation k answers
BranchChallenge(k, e0, e) == IF k \in {0, 1} THEN e0 ELSE scalarSub(e, e0)

verifySwitch(pk, in0, in1, out0, out1, proof, e) ==
  /\ Rerandomized(in0, in1, out0, out1)
  /\ \A k \in 0 .. 3 :
       SwitchRelation(pk, relIn(in0, in1)[k], relOut(out0, out1)[k],
                      proof.t1[k], proof.t2[k], proof.z[k], BranchChallenge(k, proof.e0, e))
==============================================================================
