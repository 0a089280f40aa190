---------------------------- MODULE MCDealerDkg ----------------------------
(* Small committees for TLC.  A behaviour is one of a DKG, of the beacon from  *)
(* which an epoch's DKG gets its randomness, or of the draw of its members and *)
(* their penalties; the others stay where they are.                            *)
EXTENDS DealerDkg, Beacon, Committee

CONSTANT Scenes     \* {"dkg", "beacon", "committee"}, or some of them

VARIABLE scene      \* rigid

vars == <<dkgVars, beaconVars, committeeVars, scene>>

Behaving == [offline |-> {}, garblers |-> {}, signers |-> {}]

\* A member is down, and another signs shares as well; or all run and one sends wrong
\* shares, ciphertexts or signed ones.
OneMisbehaves == {[Behaving EXCEPT !.offline = {3}, !.signers = {1}],
                  [Behaving EXCEPT !.garblers = {3}, !.signers = {3}]}
NobodyMisbehaves == {Behaving}

\* A chain with three daemons, and two chains with two.
MCNetworks == {[devnet |-> FALSE, down |-> {}], [devnet |-> FALSE, down |-> {3}],
               [devnet |-> TRUE, down |-> {3}]}

\* One block for each phase, and two reveals; by hand, a longer one that asks for all.
MCDefault == [commit |-> 1, reveal |-> 1, quota |-> 2]
MCChoices == {[commit |-> 1, reveal |-> 2, quota |-> 3]}

\* The fines of a DKG and of a hand: half the power and a quarter, a longer jail time
\* and a shorter one.
MCFaults == {[bps |-> 5000, jail |-> 3], [bps |-> 2500, jail |-> 1]}

Init ==
  /\ scene \in Scenes
  /\ IF scene = "dkg" THEN DkgInit ELSE DkgStart(Behaving)
  /\ IF scene = "beacon" THEN BeaconInit ELSE BeaconStart(TRUE, {}, 1)
  /\ IF scene = "committee" THEN CommitteeInit
     ELSE CommitteeStart([v \in Operators |-> PowerReduction])

InDkg(A) == scene = "dkg" /\ A /\ UNCHANGED <<beaconVars, committeeVars, scene>>
InBeacon(A) == scene = "beacon" /\ A /\ UNCHANGED <<dkgVars, committeeVars, scene>>
InCommittee(A) == scene = "committee" /\ A /\ UNCHANGED <<dkgVars, beaconVars, scene>>

Next == InDkg(DkgNext) \/ InBeacon(BeaconNext) \/ InCommittee(CommitteeNext)

Spec == Init /\ [][Next]_vars

\* Blocks keep coming and running daemons keep polling.
FairSpec ==
  /\ Spec
  /\ WF_vars(InDkg(NextBlock /\ UNCHANGED who))
  /\ \A m \in Members : WF_vars(InDkg(Step(m)))
  /\ WF_vars(InBeacon(NextHeight))
  /\ \A v \in Validators : WF_vars(InBeacon(DaemonStep(v)))

\* Bounds: the polls of three daemons, and of two on a devnet, do not overlap; nothing is
\* lost in a DKG of three, and their beacon serves one epoch.  One thing goes wrong with
\* a beacon, or a window is opened by hand.
PollsInTurn ==
  /\ (scene = "dkg" /\ Offline = {}) =>
       Cardinality({m \in Members : ~At(m, "idle")}) <= 1 /\ faults = 0
  /\ scene = "beacon" =>
       LET all == \A v \in Validators : ~polls[v].down
       IN  /\ all => epochs.epoch = 0
           /\ (net.devnet \/ all) => Cardinality({v \in Validators : polls[v].pc # "idle"}) <= 1
           /\ spent.lost + spent.aborts + spent.manual + spent.unbonded <= 1
=============================================================================
