------------------------------- MODULE Beacon -------------------------------
(* The randomness beacon of x/dealer (keeper/beacon.go): a window in which     *)
(* validators commit to salts and one in which they reveal them, opened by the *)
(* chain or by hand for the next epoch and consumed by BeginEpoch; and the     *)
(* daemons that take part in it (handlers/beacon.ts).  A daemon derives its    *)
(* salt from the epoch, so a reveal matches the commit of the same epoch.      *)
(* Blocks do not wait for the daemons: a poll may see a phase or miss it.      *)
(* Heights are counted from the opening of the window.                         *)
EXTENDS Integers, FiniteSets

CONSTANTS
  Validators,
  Default,        \* the window the chain opens: its commit and reveal blocks, and the
                  \* threshold of reveals, the epoch's or 2 if that is less
  Choices,        \* the same of windows opened by hand
  Networks,       \* chains: whether its id is a devnet's, and whose daemons do not run
  MaxLost,        \* bound: transactions lost
  MaxAborts,      \* bound: DKGs that end without an epoch
  MaxManual,      \* bound: windows opened by hand
  MaxUnbonded,    \* bound: validators jailed or unbonded for other reasons
  LastEpoch       \* bound: epochs begun

\* openBeacon takes a length of 0 for its default, which is not, and refuses a
\* threshold below 2.
ASSUME BeaconParams ==
  /\ {Default} \cup Choices \subseteq [commit : Nat \ {0}, reveal : Nat \ {0}, quota : Nat \ {0, 1}]
  /\ LastEpoch \in Nat

VARIABLES
  net,       \* the chain: devnet, upgraded past beaconStuckRecoveryHeight
  epochs,    \* the finalized epoch, GetNextEpochID, and the DKG in flight; 0: none
  window,    \* the BeaconState; epoch 0: none
  polls,     \* per validator: its daemon's poll
  unbonded,  \* validators that are jailed or not in the active set
  fines,     \* per validator: penalties for a missing reveal
  spent      \* what is used up of the bounds

beaconVars == <<net, epochs, window, polls, unbonded, fines, spent>>

\* no window, of the size that the next is expected to have
NoWindow ==
  [epoch |-> 0, age |-> 0, size |-> Default, commits |-> {}, reveals |-> {}, final |-> FALSE]

CommitClose(w) == w.size.commit
RevealClose(w) == w.size.commit + w.size.reveal

Phase(w) ==
  IF w.age <= CommitClose(w) THEN "commit" ELSE IF w.age <= RevealClose(w) THEN "reveal" ELSE "closed"

\* requireActiveBondedCaller
Bonded(v) == v \notin unbonded

------------------------------------------------------------------------------
(* Opening a window.                                                        *)

Pending(w) == w.epoch # 0 /\ ~w.final

\* committee.Final succeeds
Usable(w) == Cardinality(w.reveals) >= w.size.quota

\* Mutant: no recovery of a window that failed.
ProtectedAlways(w, upgraded) == Pending(w)

\* an unconsumed window that may not be overwritten: it is live, BeginEpoch can
\* consume it, or the recovery of stuck windows is not yet in force
Protected(w, upgraded) ==
  Pending(w) /\ (Phase(w) # "closed" \/ Usable(w) \/ ~upgraded)

FreshWindow(epoch, size) == [NoWindow EXCEPT !.epoch = epoch, !.size = size]

\* what the daemons have done in a window is nothing to the next
NewPolls == [v \in Validators |-> [polls[v] EXCEPT !.inReveal = FALSE, !.covered = FALSE]]

MaybeAutoOpenBeacon(w, upgraded) ==
  IF \/ Protected(w, upgraded) \/ epochs.dkg # 0
     \/ w.epoch = epochs.next /\ (~upgraded \/ w.final)
  THEN w ELSE FreshWindow(epochs.next, Default)

\* for whatever epoch, lengths and threshold, whether or not a DKG is in flight
OpenBeaconWindow(epoch, size) ==
  /\ spent.manual < MaxManual /\ epochs.next <= LastEpoch
  /\ ~Protected(window, net.upgraded)
  /\ \E v \in Validators : Bonded(v)
  /\ window' = FreshWindow(epoch, size)
  /\ spent' = [spent EXCEPT !.manual = @ + 1]
  /\ polls' = NewPolls
  /\ UNCHANGED <<net, epochs, unbonded, fines>>

\* The next block, which may be the one of the upgrade, and its BeginBlocker.
NextHeight ==
  /\ epochs.next <= LastEpoch
  /\ \E upgraded \in {b \in BOOLEAN : net.upgraded => b} :
       LET aged == [window EXCEPT !.age =
                      IF window.epoch = 0 \/ Phase(window) = "closed" THEN @ ELSE @ + 1]
           w == MaybeAutoOpenBeacon(aged, upgraded)
       IN  /\ <<w, upgraded>> # <<window, net.upgraded>>
           /\ window' = w
           /\ net' = [net EXCEPT !.upgraded = upgraded]
           /\ polls' = IF w # aged THEN NewPolls ELSE polls
  /\ UNCHANGED <<epochs, unbonded, fines, spent>>

\* A validator is jailed by another penalty or leaves the active set, unless it is the
\* last (Committee), and comes back.
Unbond(v) ==
  /\ spent.unbonded < MaxUnbonded
  /\ \E o \in Validators \ {v} : Bonded(o)
  /\ Bonded(v) /\ unbonded' = unbonded \cup {v}
  /\ spent' = [spent EXCEPT !.unbonded = @ + 1]
  /\ UNCHANGED <<net, epochs, window, polls, fines>>

Rebond(v) ==
  /\ ~Bonded(v) /\ unbonded' = unbonded \ {v}
  /\ UNCHANGED <<net, epochs, window, polls, fines, spent>>

------------------------------------------------------------------------------
(* Taking part.                                                             *)

AcceptsBeaconCommit(v, epoch) ==
  /\ Bonded(v) /\ window.epoch = epoch
  /\ Phase(window) = "commit"
  /\ v \notin window.commits

\* Mutant: reveals are taken while others may still commit.
AcceptsBeaconRevealEarly(v, epoch) ==
  /\ Bonded(v) /\ window.epoch = epoch
  /\ Phase(window) # "closed"
  /\ v \in window.commits \ window.reveals

\* Mutant: none are taken in the last block of the reveal phase.
AcceptsBeaconRevealShort(v, epoch) ==
  /\ Bonded(v) /\ window.epoch = epoch
  /\ window.age > CommitClose(window) /\ window.age < RevealClose(window)
  /\ v \in window.commits \ window.reveals

AcceptsBeaconReveal(v, epoch) ==
  /\ Bonded(v) /\ window.epoch = epoch
  /\ Phase(window) = "reveal"
  /\ v \in window.commits \ window.reveals

BeaconCommit(v) == [window EXCEPT !.commits = @ \cup {v}]
BeaconReveal(v) == [window EXCEPT !.reveals = @ \cup {v}]

\* a transaction of a daemon
Submit(accepted, result) ==
  \/ accepted /\ window' = result /\ UNCHANGED spent
  \/ ~accepted /\ UNCHANGED <<window, spent>>
  \/ /\ accepted /\ spent.lost < MaxLost
     /\ spent' = [spent EXCEPT !.lost = @ + 1]
     /\ UNCHANGED window

\* maybeBeaconParticipate reads the epoch, then commits, then reveals.
ReadEpoch(v) ==
  /\ ~polls[v].down /\ polls[v].pc = "idle"
  /\ epochs.next <= LastEpoch
  /\ polls' = [polls EXCEPT ![v] = [@ EXCEPT !.pc = "commit", !.target = epochs.epoch + 1,
                                             !.inReveal = Phase(window) = "reveal"]]
  /\ UNCHANGED <<net, epochs, window, unbonded, fines, spent>>

SendCommit(v) ==
  /\ polls[v].pc = "commit"
  /\ Submit(AcceptsBeaconCommit(v, polls[v].target), BeaconCommit(v))
  /\ polls' = [polls EXCEPT ![v].pc = "reveal"]
  /\ UNCHANGED <<net, epochs, unbonded, fines>>

\* v has now had a poll in the reveal phase, from its start to its end, and its
\* transaction has arrived and been heard.
Heard(v) ==
  polls[v].inReveal /\ Phase(window) = "reveal" /\ Bonded(v) /\ UNCHANGED spent

\* and the poll goes on to maybeBeginEpoch if there is no epoch and no DKG
SendReveal(v) ==
  /\ polls[v].pc = "reveal"
  /\ Submit(AcceptsBeaconReveal(v, polls[v].target), BeaconReveal(v))
  /\ polls' = [polls EXCEPT ![v] = [@ EXCEPT
       !.pc = IF epochs.epoch = 0 /\ epochs.dkg = 0 THEN "begin" ELSE "idle",
       !.target = 0, !.inReveal = FALSE,
       !.covered = polls[v].covered \/ Heard(v)]]
  /\ UNCHANGED <<net, epochs, unbonded, fines>>

------------------------------------------------------------------------------
(* BeginEpoch.                                                              *)

beaconMissingReveals(w) == w.commits \ w.reveals

Consumes == window.epoch = epochs.next /\ Phase(window) = "closed"

\* selectRandEpoch finds a source.  On other chains than devnets that is a
\* window with enough reveals, and a refusal takes the penalties back with it.
HasRandomness == net.devnet \/ (Consumes /\ Usable(window))

Missing == IF Consumes THEN beaconMissingReveals(window) ELSE {}

AcceptsBeginEpoch(v) == Bonded(v) /\ epochs.dkg = 0 /\ epochs.next <= LastEpoch /\ HasRandomness

\* applyPenalty jails whom it fines, but for the last that is left
Jail(missing) ==
  LET all == unbonded \cup missing
  IN  \/ all # Validators /\ unbonded' = all
      \/ all = Validators /\ \E last \in missing \ unbonded : unbonded' = all \ {last}

EpochBegins ==
  /\ window' = IF Consumes THEN [window EXCEPT !.final = TRUE] ELSE window
  /\ fines' = [v \in Validators |-> fines[v] + IF v \in Missing THEN 1 ELSE 0]
  /\ Jail(Missing)
  /\ epochs' = [epochs EXCEPT !.dkg = epochs.next, !.next = @ + 1]

\* by the daemon of a validator, whose reads may be stale, or by an operator
BeginByDaemon(v) ==
  /\ polls[v].pc = "begin"
  /\ polls' = [polls EXCEPT ![v].pc = "idle"]
  /\ IF AcceptsBeginEpoch(v) THEN EpochBegins ELSE UNCHANGED <<window, unbonded, fines, epochs>>
  /\ UNCHANGED <<net, spent>>

BeginByOperator ==
  /\ \E v \in Validators : AcceptsBeginEpoch(v)
  /\ EpochBegins
  /\ UNCHANGED <<net, polls, spent>>

\* The DKG is finalized, or ends below its threshold (DealerDkg).
DkgFinalized ==
  /\ epochs.dkg # 0
  /\ epochs' = [epochs EXCEPT !.epoch = epochs.dkg, !.dkg = 0]
  /\ UNCHANGED <<net, window, polls, unbonded, fines, spent>>

DkgAborted ==
  /\ epochs.dkg # 0 /\ spent.aborts < MaxAborts
  /\ epochs' = [epochs EXCEPT !.dkg = 0]
  /\ spent' = [spent EXCEPT !.aborts = @ + 1]
  /\ UNCHANGED <<net, window, polls, unbonded, fines>>

------------------------------------------------------------------------------
\* a chain that has finalized so many epochs
BeaconStart(devnet, down, done) ==
  /\ net = [devnet |-> devnet, upgraded |-> FALSE]
  /\ epochs = [epoch |-> done, next |-> done + 1, dkg |-> 0]
  /\ window = NoWindow
  /\ polls = [v \in Validators |->
       [pc |-> "idle", target |-> 0, inReveal |-> FALSE, covered |-> FALSE, down |-> v \in down]]
  /\ fines = [v \in Validators |-> 0]
  /\ unbonded = {}
  /\ spent = [lost |-> 0, aborts |-> 0, manual |-> 0, unbonded |-> 0]

BeaconInit ==
  \E n \in Networks : BeaconStart(n.devnet, n.down, 0)

DaemonStep(v) == ReadEpoch(v) \/ SendCommit(v) \/ SendReveal(v) \/ BeginByDaemon(v)

BeaconNext ==
  \/ NextHeight
  \/ \E epoch \in 1 .. LastEpoch, size \in Choices : OpenBeaconWindow(epoch, size)
  \/ \E v \in Validators : Unbond(v) \/ Rebond(v)
  \/ \E v \in Validators : DaemonStep(v)
  \/ BeginByOperator \/ DkgFinalized \/ DkgAborted

BeaconSpec == BeaconInit /\ [][BeaconNext]_beaconVars

------------------------------------------------------------------------------
(* Whatever windows are opened by hand, for whatever epoch and however short, *)
(* and whenever blocks pass, epochs begin and end and validators are jailed   *)
(* in the middle of polls: who is fined had committed to the window that is   *)
(* consumed, and had no poll in its reveal phase, from start to end, whose    *)
(* transaction arrived while it was bonded (maybeBeaconParticipate,           *)
(* BeaconReveal, consumeBeaconForEpoch).                                      *)
OnlyAbsentAreFined ==
  [][\A v \in Validators : fines'[v] > fines[v] =>
       v \in window.commits /\ ~polls[v].covered]_beaconVars

(* The commits of a window are all in before anybody reveals, and a window    *)
(* that BeginEpoch can consume is not overwritten (openBeacon,                *)
(* MaybeAutoOpenBeacon, BeaconReveal).                                        *)
WindowIsFair ==
  [][/\ (window.reveals # {} /\ window'.reveals # {}) => window'.commits = window.commits
     /\ (~window.final /\ Usable(window)) =>
          window'.epoch = window.epoch /\ window.reveals \subseteq window'.reveals]_beaconVars

\* as many as the window asks for have committed to it and been heard in its reveal
\* phase, and one of them has kept its bond
WindowSucceeds ==
  LET heard == {v \in window.commits : polls[v].covered}
  IN  /\ window.epoch = 1 /\ Phase(window) = "closed"
      /\ Cardinality(heard) >= window.size.quota
      /\ \E v \in heard : Bonded(v)

(* As long as the first epoch has not begun, windows for it keep coming, also *)
(* after some that fell short or were opened by hand for another epoch; and   *)
(* one in which enough daemons had their polls in time lets it begin, unless  *)
(* they lose their bonds (MaybeAutoOpenBeacon, maybeBeginEpoch).              *)
FirstEpochBegins ==
  /\ []<>(epochs.next # 1 \/ Usable(window) \/ (window.epoch = 1 /\ Phase(window) = "commit"))
  /\ []<>(epochs.next # 1 \/ ~WindowSucceeds)
=============================================================================
