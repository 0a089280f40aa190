----------------------------- MODULE MCPackages -----------------------------
(* The shared packages and their counterparts on the chain: the showdown, the  *)
(* SDK's messages, calls and events, the cryptography and the simulator.  The  *)
(* parts share nothing; a behaviour runs one of them, the others stay as they  *)
(* are.                                                                        *)
EXTENDS ShowdownCases, WirePeers, SdkCalls, EventAttributes, ProofGame,
        ThresholdCards, ShuffleNetwork, Simulator

CONSTANT Scenes     \* the parts to run

VARIABLE scene      \* rigid

\* Three ranks in four suits; seven ranks in two suits, the wheel among them.
MCPacks == {{13 * s + k : s \in 0 .. 3, k \in {0, 1, 12}},
            {13 * s + k : s \in 0 .. 1, k \in {0, 1, 2, 3, 4, 7, 12}}}

\* 5c 6c 7c 8c, 6d 9d, 7h, 9s, Ac; and five cards everyone may tie on.
MCNineCards == {{3, 4, 5, 6, 17, 20, 31, 46, 12}, {8, 22, 36, 50, 12, 25, 0, 13, 27}}

\* Every message class.
MCMessages == DOMAIN Schema

MCIds == 0 .. 139
MCMoreIds == 130 .. 150

MCCiphertexts == [c1 : {0, 1}, c2 : {0, 1}]

\* Three players, three validators, two hands; a slash takes the whole stake.
SimConfig(bond, threshold, rotate, refund, plan) ==
  [playerCount |-> 3, startingStack |-> 6, startingBond |-> bond, playerBondMin |-> 2,
   playerTimeoutSlash |-> 1, smallBlind |-> 1, bigBlind |-> 2,
   validatorSet |-> {"V0", "V1", "V2"}, committeeSize |-> 2, thresholdT |-> threshold,
   startingValidatorStake |-> 3, dealerSlash |-> 5, committeePlan |-> plan,
   refundBlindsOnPreActionAbort |-> refund, rotateCommitteeEveryHand |-> rotate,
   hands |-> 2]

MCSimConfigs ==
  {SimConfig(3, 2, TRUE, FALSE, <<>>),
   SimConfig(2, 1, FALSE, FALSE, <<<<"V0", "V1">>>>),
   SimConfig(2, 2, TRUE, TRUE, <<<<"V0", "V1">>, <<"V1", "V2">>>>)}

Init ==
  /\ scene \in Scenes
  /\ IF scene = "showdown" THEN ShowdownInit ELSE ShowdownIdle
  /\ IF scene = "wire" THEN WireInit ELSE Sent("MsgTick", <<>>)
  /\ IF scene = "cards" THEN CardsInit ELSE CardsStart(<<1, 1>>, <<0, 1>>, 1)
  /\ IF scene = "shuffle" THEN ShuffleInit
     ELSE ShuffleStart(2, 1, [i \in 0 .. 1 |-> i], NoContext, TRUE)
  /\ IF scene = "simulator" THEN SimInit ELSE SimIdle
  /\ CallsInit /\ AttrInit /\ GameInit

Part(name, next, others) == scene = name /\ next /\ UNCHANGED <<others, scene>>

Next ==
  \/ Part("showdown", ShowdownNext,
          <<wireVars, callVars, tx, gameVars, cardVars, shuffleVars, simVars>>)
  \/ Part("wire", WireNext,
          <<showdownVars, callVars, tx, gameVars, cardVars, shuffleVars, simVars>>)
  \/ Part("calls", CallsNext,
          <<showdownVars, wireVars, tx, gameVars, cardVars, shuffleVars, simVars>>)
  \/ Part("events", AttrNext,
          <<showdownVars, wireVars, callVars, gameVars, cardVars, shuffleVars, simVars>>)
  \/ Part("proofs", GameNext,
          <<showdownVars, wireVars, callVars, tx, cardVars, shuffleVars, simVars>>)
  \/ Part("cards", CardsNext,
          <<showdownVars, wireVars, callVars, tx, gameVars, shuffleVars, simVars>>)
  \/ Part("shuffle", ShuffleNext,
          <<showdownVars, wireVars, callVars, tx, gameVars, cardVars, simVars>>)
  \/ Part("simulator", SimNext,
          <<showdownVars, wireVars, callVars, tx, gameVars, cardVars, shuffleVars>>)

vars == <<showdownVars, wireVars, callVars, tx, gameVars, cardVars, shuffleVars, simVars, scene>>

Spec == Init /\ [][Next]_vars

\* What a caller of the SDK passes in reaches the chain in the field it is meant
\* for, and the ids the chain answers with are read back (OcpCosmosClient).
SdkSpeaksChain == CallsDeliverArguments /\ IdsAreRead
=============================================================================
