------------------------------ MODULE ProofGame ------------------------------
(* What the five zero-knowledge proofs of Sigma promise.  In one kind of run  *)
(* an honest prover proves a true statement and the verifier judges it.  In   *)
(* the other somebody claims a statement, true or not, with any commitments,  *)
(* and answers as many challenges as the verifier's equations let it: with    *)
(* Fiat and Shamir's hash a prover gets one challenge per commitment, so what *)
(* counts is how many challenges commitments to a false statement can meet.   *)
EXTENDS Sigma, FiniteSets

CONSTANT Ciphertexts   \* the second of the ciphertexts a switch takes in

VARIABLES
  claim,    \* the statement claimed and the commitments made to it
  met,      \* the challenges answered
  judged    \* the verifier's judgement of an honest proof

gameVars == <<claim, met, judged>>

NoClaim == [kind |-> "none"]

------------------------------------------------------------------------------
(* Honest proofs: any witness, nonces and challenge.                         *)

Idle == claim = NoClaim /\ judged = "none"

Judge(ok) ==
  /\ judged' = IF ok THEN "accepted" ELSE "refused"
  /\ UNCHANGED <<claim, met>>

NonZero == Scalars \ {0}

HonestEqDlog ==
  \E B, x, w, e \in Scalars :
    Judge(verifyEqDlog(G, B, mulPoint(G, x), mulPoint(B, x), proveEqDlog(G, B, x, w, e), e))

HonestChaumPedersen ==
  \E c1, x, w, e \in Scalars :
    Judge(chaumPedersenVerify(mulBase(x), c1, mulPoint(c1, x),
                              chaumPedersenProve(c1, x, w, e), e))

HonestEncShare ==
  \E c1, pkP, x, r, e \in Scalars, wx, wr \in NonZero :
    Judge(encShareVerify(mulBase(x), c1, pkP, mulBase(r),
                         pointAdd(mulPoint(c1, x), mulPoint(pkP, r)),
                         encShareProve(c1, pkP, x, r, wx, wr, e), e))

\* the share of polynomial c0 + c1*x that recipient j gets
HonestDkgEncShare ==
  \E c0, c1, pkR, r, e \in Scalars, j, ws, wr \in NonZero :
    LET s == scalarAdd(c0, scalarMul(c1, j))
    IN  Judge(dkgEncShareVerify(<<mulBase(c0), mulBase(c1)>>, j, pkR, mulBase(r),
                                pointAdd(mulBase(s), mulPoint(pkR, r)),
                                dkgEncShareProve(pkR, s, r, ws, wr, e), e))

In0 == [c1 |-> 0, c2 |-> 0]

HonestSwitch ==
  \E pk, eSim, e \in Scalars, in1 \in Ciphertexts, swapped \in BOOLEAN,
     rho \in NonZero \X NonZero, zSim, w \in Scalars \X Scalars :
    LET out0 == elgamalReencrypt(pk, IF swapped THEN in1 ELSE In0, rho[1])
        out1 == elgamalReencrypt(pk, IF swapped THEN In0 ELSE in1, rho[2])
    IN  /\ Rerandomized(In0, in1, out0, out1)    \* reencryptAvoidingC1Collisions
        /\ Judge(verifySwitch(pk, In0, in1, out0, out1,
                   proveSwitch(pk, In0, in1, out0, out1, swapped, rho, eSim, zSim, w, e), e))

------------------------------------------------------------------------------
(* Claims, and the challenges they meet.                                     *)

Claim(kind, stmt, com) ==
  /\ claim' = [kind |-> kind, stmt |-> stmt, com |-> com]
  /\ UNCHANGED <<met, judged>>

ClaimEqDlog ==
  \E B, X, Y, t1, t2 \in Scalars :
    Claim("eqdlog", [B |-> B, X |-> X, Y |-> Y], [t1 |-> t1, t2 |-> t2])

ClaimChaumPedersen ==
  \E y, c1, d, a, b \in Scalars :
    Claim("chaumPedersen", [y |-> y, c1 |-> c1, d |-> d], [a |-> a, b |-> b])

ClaimEncShare ==
  \E y, c1, pkP, u, v, a1, a2, a3 \in Scalars :
    Claim("encShare", [y |-> y, c1 |-> c1, pkP |-> pkP, u |-> u, v |-> v],
          [a1 |-> a1, a2 |-> a2, a3 |-> a3])

ClaimDkgEncShare ==
  \E c0, c1, pkR, u, v, a1, a2, a3 \in Scalars, j \in NonZero :
    Claim("dkgEncShare", [commitments |-> <<c0, c1>>, j |-> j, pkR |-> pkR, u |-> u, v |-> v],
          [a1 |-> a1, a2 |-> a2, a3 |-> a3])

\* a switch whose outputs verifySwitch's first check lets pass
ClaimSwitch ==
  \E pk \in Scalars, in1 \in Ciphertexts, out0, out1 \in [c1 : Scalars, c2 : Scalars] :
    /\ Rerandomized(In0, in1, out0, out1)
    /\ Claim("switch", [pk |-> pk, in1 |-> in1, out0 |-> out0, out1 |-> out1], <<>>)

\* The switch's commitments are made one relation after the other, and of each
\* only the challenges that some response meets are kept.
CommitRelation ==
  /\ claim.kind = "switch" /\ Len(claim.com) < 4
  /\ LET k == Len(claim.com)
         s == claim.stmt
         meets(t1, t2, e) == \E z \in Scalars :
           SwitchRelation(s.pk, relIn(In0, s.in1)[k], relOut(s.out0, s.out1)[k], t1, t2, z, e)
     IN  \E t1, t2 \in Scalars :
           claim' = [claim EXCEPT !.com = Append(@, {e \in Scalars : meets(t1, t2, e)})]
  /\ UNCHANGED <<met, judged>>

Meets(e) ==
  LET s == claim.stmt
      c == claim.com
  IN  CASE claim.kind = "none" -> FALSE
        [] claim.kind = "eqdlog" ->
             \E z \in Scalars :
               verifyEqDlog(G, s.B, s.X, s.Y, [t1 |-> c.t1, t2 |-> c.t2, z |-> z], e)
        [] claim.kind = "chaumPedersen" ->
             \E z \in Scalars : chaumPedersenVerify(s.y, s.c1, s.d, [a |-> c.a, b |-> c.b, s |-> z], e)
        [] claim.kind = "encShare" ->
             \E sx, sr \in Scalars :
               encShareVerify(s.y, s.c1, s.pkP, s.u, s.v,
                 [a1 |-> c.a1, a2 |-> c.a2, a3 |-> c.a3, sx |-> sx, sr |-> sr], e)
        [] claim.kind = "dkgEncShare" ->
             \E ss, sr \in Scalars :
               dkgEncShareVerify(s.commitments, s.j, s.pkR, s.u, s.v,
                 [a1 |-> c.a1, a2 |-> c.a2, a3 |-> c.a3, ss |-> ss, sr |-> sr], e)
        [] claim.kind = "switch" ->
             /\ Len(c) = 4
             /\ \E e0 \in Scalars : \A k \in 0 .. 3 : BranchChallenge(k, e0, e) \in c[k + 1]

MeetChallenge(e) ==
  /\ e \notin met
  /\ Meets(e)
  /\ met' = met \cup {e}
  /\ UNCHANGED <<claim, judged>>

------------------------------------------------------------------------------
GameInit ==
  /\ claim = NoClaim
  /\ met = {}
  /\ judged = "none"

GameNext ==
  \/ /\ Idle
     /\ \/ HonestEqDlog \/ HonestChaumPedersen \/ HonestEncShare
        \/ HonestDkgEncShare \/ HonestSwitch
        \/ ClaimEqDlog \/ ClaimChaumPedersen \/ ClaimEncShare
        \/ ClaimDkgEncShare \/ ClaimSwitch
  \/ CommitRelation
  \/ \E e \in Scalars : MeetChallenge(e)

------------------------------------------------------------------------------
(* The verifier accepts an honest proof of a true statement, whatever the     *)
(* nonces and the challenge: no shuffle, share or deal of a working validator *)
(* is refused (the provers and verifiers of ocp-crypto and ocp-shuffle).      *)
HonestProofsVerify == judged # "refused"

Reencrypts(pk, inCt, outCt) == \E rho \in Scalars : outCt = elgamalReencrypt(pk, inCt, rho)

\* what each proof is to show
Holds ==
  LET s == claim.stmt
  IN  CASE claim.kind = "eqdlog" -> \E x \in Scalars : s.X = mulPoint(G, x) /\ s.Y = mulPoint(s.B, x)
        [] claim.kind = "chaumPedersen" ->
             \E x \in Scalars : s.y = mulBase(x) /\ s.d = mulPoint(s.c1, x)
        [] claim.kind = "encShare" ->
             \E x, r \in Scalars : /\ s.y = mulBase(x) /\ s.u = mulBase(r)
                                   /\ s.v = pointAdd(mulPoint(s.c1, x), mulPoint(s.pkP, r))
        [] claim.kind = "dkgEncShare" ->
             \E r \in Scalars :
               /\ s.u = mulBase(r)
               /\ s.v = pointAdd((s.commitments[1] + s.j * s.commitments[2]) % q, mulPoint(s.pkR, r))
        [] claim.kind = "switch" ->
             \/ Reencrypts(s.pk, In0, s.out0) /\ Reencrypts(s.pk, s.in1, s.out1)
             \/ Reencrypts(s.pk, s.in1, s.out0) /\ Reencrypts(s.pk, In0, s.out1)

(* Whoever can answer two challenges to the same commitments claims something *)
(* true: an accepted share is the validator's share of that ciphertext, a     *)
(* dealt share lies on the committed polynomial, and a switch neither         *)
(* replaces nor copies a card (the checks of the five verifiers together).    *)
TwoAnswersProve == Cardinality(met) > 1 => Holds

\* Completeness and special soundness of the five sigma protocols: who knows the
\* secret is never refused, who answers two challenges knows it.
ProofsProve == HonestProofsVerify /\ TwoAnswersProve
==============================================================================
