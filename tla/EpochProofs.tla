----------------------------- MODULE EpochProofs -----------------------------
(***************************************************************************)
(* Proofs about what makes an epoch, whatever crashes and is lost.         *)
(*                                                                         *)
(* The key generation, for every committee, threshold, version, choice of  *)
(* deadlines and set of misbehaving members: what the daemons keep on disk *)
(* is what the chain holds them to, and those who answered are the key's.  *)
(*                                                                         *)
(* The randomness beacon, for every set of validators and every quota,     *)
(* length and epoch of the windows: no usable window is lost, and nobody   *)
(* is fined who was heard in the reveal phase.                             *)
(*                                                                         *)
(* The committee's validators, for every set of operators, stakes and      *)
(* faults: jail times are served, and penalties leave one to draw.         *)
(***************************************************************************)
EXTENDS DealerDkg, Beacon, Committee, FiniteSetTheorems, WellFoundedInduction, TLAPS

(* The key generation. *)

DkgType ==
    [epoch : Nat, age : Nat, commits : [Members -> Nat],
     shares : SUBSET (Members \X Members \X BOOLEAN),
     complaints : SUBSET (Members \X Members), invalid : SUBSET Members,
     reveals : SUBSET (Members \X Members), slashed : SUBSET Members]

Pcs == {"idle", "begin", "commit", "save", "read1", "share", "complain", "read2", "reveal",
        "read3", "aead", "saveSum", "finalize"}

DaemonType ==
    [pc : Pcs, epoch : Nat, todo : SUBSET Members, accuse : SUBSET Members,
     draft : SUBSET Members]

FileType == [epoch : Nat, poly : Int, sum : SUBSET Members]

\* The DKG in flight.  A ciphertext that does not open is a garbler's.  Nobody
\* complains about itself.  Who is slashed is a garbler, was convicted by a share that
\* it signed, or has missed the deadline for its commitment and stays without one.
DkgOk ==
    /\ dkg \in DkgType
    /\ \A m, to \in Members : <<m, to, FALSE>> \in dkg.shares => m \in Garblers
    /\ \A m \in Members : <<m, m>> \notin dkg.complaints /\ <<m, m>> \notin dkg.reveals
    /\ \A m \in dkg.slashed :
         m \in Garblers \/ m \in dkg.invalid \/ (dkg.commits[m] = 0 /\ dkg.age > CommitDeadline)

\* Penalties are for those who are slashed.
PenaltiesOk ==
    /\ penalties \in [Members -> {0, 1}]
    /\ dkg.epoch # 0 => \A m \in Members : penalties[m] = 1 => m \in dkg.slashed

\* Epochs come in order, for the chain, the daemons and their files.
EpochsOk ==
    /\ nextEpoch \in Nat /\ nextEpoch > 0 /\ dkg.epoch < nextEpoch
    /\ \A m \in Members : daemon[m].epoch < nextEpoch /\ disk[m].epoch < nextEpoch

\* A daemon, its file and the DKG it serves.  What it goes on to save is what it
\* committed to; whom it is about to accuse of a bad ciphertext has sent one; the sum
\* it goes on to save, like the one it has saved, covers everybody still qualified.
DaemonOk(m) ==
    /\ daemon[m].pc \in {"share", "reveal", "aead"} => daemon[m].todo # {}
    /\ daemon[m].pc = "complain" => daemon[m].accuse # {}
    /\ (daemon[m].pc = "save" /\ InFlight(daemon[m].epoch)) => dkg.commits[m] = drawn[m]
    /\ daemon[m].pc \in {"aead", "saveSum"} => disk[m].epoch = daemon[m].epoch
    /\ (daemon[m].pc = "aead" /\ InFlight(daemon[m].epoch)) =>
         \A d \in daemon[m].todo : <<d, m, FALSE>> \in dkg.shares
    /\ (daemon[m].pc \in {"aead", "saveSum"} /\ InFlight(daemon[m].epoch) /\ daemon[m].draft # {}) =>
         Qualified(dkg) \subseteq daemon[m].draft

\* FilesMatchChain, for one member.
FileOk(m) ==
    (Loads(m, dkg.epoch) /\ dkg.epoch # 0) =>
        /\ dkg.commits[m] = disk[m].poly
        /\ disk[m].sum # {} => Qualified(dkg) \subseteq disk[m].sum

\* The inductive invariant.
DkgInv ==
    /\ DkgOk /\ PenaltiesOk
    /\ daemon \in [Members -> DaemonType] /\ disk \in [Members -> FileType]
    /\ drawn \in [Members -> Nat]
    /\ EpochsOk
    /\ \A m \in Members : DaemonOk(m) /\ FileOk(m)
    /\ QualifiedIffAnswered

-----------------------------------------------------------------------------
(* What every step needs. *)

\* The numbers from 1 up to another are finitely many (a fact of the library).
LEMMA IntervalFinite == \A k \in Nat : IsFiniteSet(1 .. k)
<1>1. \A k \in Nat : 1 \in Int /\ k \in Int
  OBVIOUS
<1> QED BY Zenon, <1>1, FS_Interval

\* MinOf, which picks the next transaction of a poll, picks one that is due.
LEMMA MinOfIn ==
    ASSUME NEW S \in SUBSET Members, S # {}
    PROVE  MinOf(S) \in S
<1>1. S \subseteq Nat
  BY DkgParams DEF Members
<1>2. PICK x \in S : \A y \in S : ~(<<y, x>> \in OpToRel(<, Nat))
  BY Zenon, <1>1, WFMin, NatLessThanWellFounded
<1>3. \A y \in S : x <= y
  <2> TAKE y \in S
  <2>1. <<y, x>> \notin OpToRel(<, Nat)
    BY Zenon, <1>2
  <2>2. x \in Nat /\ y \in Nat
    BY Zenon, <1>1, <1>2
  <2>3. ~(y < x)
    BY <2>1, <2>2 DEF OpToRel
  <2> QED
    BY <2>2, <2>3
<1> QED
  BY Zenon, <1>2, <1>3 DEF MinOf

\* How a step may change the DKG that member n takes part in: it ends, a new one
\* begins, or its ciphertexts and its slashed members grow.
KeepsFor(n) ==
    \/ dkg'.epoch = 0
    \/ dkg'.epoch = nextEpoch
    \/ /\ dkg'.epoch = dkg.epoch /\ dkg'.commits[n] = dkg.commits[n]
       /\ dkg.shares \subseteq dkg'.shares /\ dkg.slashed \subseteq dkg'.slashed

\* Such a change leaves a file what it must be.
LEMMA FileKeeps ==
    ASSUME DkgInv, NEW n \in Members, KeepsFor(n), disk'[n] = disk[n]
    PROVE  FileOk(n)'
<1>1. disk[n].epoch < nextEpoch /\ nextEpoch \in Nat /\ disk[n].epoch \in Nat /\ FileOk(n)
  BY DEF DkgInv, EpochsOk, FileType
<1>2. CASE dkg'.epoch = 0
  BY <1>2 DEF FileOk
<1>3. CASE dkg'.epoch = nextEpoch
  BY <1>1, <1>3 DEF FileOk, Loads, has
<1>4. CASE /\ dkg'.epoch = dkg.epoch /\ dkg'.commits[n] = dkg.commits[n]
           /\ dkg.shares \subseteq dkg'.shares /\ dkg.slashed \subseteq dkg'.slashed
  BY <1>1, <1>4 DEF FileOk, Loads, has, Qualified
<1> QED
  BY <1>2, <1>3, <1>4 DEF KeepsFor

\* And a daemon what it must be, if neither it nor its file moves.
LEMMA DaemonKeeps ==
    ASSUME DkgInv, NEW n \in Members, KeepsFor(n),
           disk'[n] = disk[n], daemon'[n] = daemon[n], drawn'[n] = drawn[n]
    PROVE  DaemonOk(n)'
<1>1. /\ daemon[n].epoch < nextEpoch /\ nextEpoch \in Nat /\ daemon[n].epoch \in Nat
      /\ DaemonOk(n)
  BY DEF DkgInv, EpochsOk, DaemonType
<1>2. CASE dkg'.epoch = 0
  BY Zenon, <1>1, <1>2 DEF DaemonOk, InFlight
<1>3. CASE dkg'.epoch = nextEpoch
  <2>1. dkg'.epoch # daemon'[n].epoch
    BY <1>1, <1>3
  <2>2. ~InFlight(daemon[n].epoch)'
    BY <2>1 DEF InFlight
  <2> QED
    BY Zenon, <1>1, <2>2 DEF DaemonOk
<1>4. CASE /\ dkg'.epoch = dkg.epoch /\ dkg'.commits[n] = dkg.commits[n]
           /\ dkg.shares \subseteq dkg'.shares /\ dkg.slashed \subseteq dkg'.slashed
  <2>1. \A e : InFlight(e)' <=> InFlight(e)
    BY <1>4 DEF InFlight
  <2>2. Qualified(dkg)' \subseteq Qualified(dkg)
    BY <1>4 DEF Qualified
  <2> QED
    BY Zenon, <1>1, <1>4, <2>1, <2>2 DEF DaemonOk
<1> QED
  BY <1>2, <1>3, <1>4 DEF KeepsFor

-----------------------------------------------------------------------------
(* What the chain's handlers make of the DKG. *)

\* The DKG stays in flight and nobody is slashed.
CalmDkg ==
    /\ DkgOk' /\ dkg'.epoch = dkg.epoch /\ dkg'.slashed = dkg.slashed
    /\ \A n \in Members : KeepsFor(n)

\* A transaction that is not accepted or not delivered changes nothing.
LEMMA UnchangedIsCalm ==
    ASSUME DkgInv, UNCHANGED <<dkg, who>>
    PROVE  CalmDkg
  BY Zenon DEF DkgInv, DkgOk, CalmDkg, KeepsFor, Garblers

\* DkgCommit: only the member that commits is concerned.
LEMMA CommitIsTaken ==
    ASSUME DkgInv, UNCHANGED who, NEW m \in Members, NEW e, NEW poly \in Nat,
           AcceptsCommit(e, m), dkg' = DkgCommit(m, poly)
    PROVE  /\ DkgOk' /\ dkg'.epoch = dkg.epoch /\ dkg'.slashed = dkg.slashed
           /\ dkg'.commits[m] = poly
           /\ \A n \in Members \ {m} : KeepsFor(n)
<1>1. DkgOk /\ dkg \in DkgType
  BY Zenon DEF DkgInv, DkgOk
<1>2. dkg' = [dkg EXCEPT !.commits = [dkg.commits EXCEPT ![m] = poly]]
  BY <1>1 DEF DkgCommit, DkgType
<1>3. /\ dkg' \in DkgType /\ dkg'.commits = [dkg.commits EXCEPT ![m] = poly]
      /\ dkg'.epoch = dkg.epoch /\ dkg'.age = dkg.age /\ dkg'.shares = dkg.shares
      /\ dkg'.complaints = dkg.complaints /\ dkg'.reveals = dkg.reveals
      /\ dkg'.slashed = dkg.slashed /\ dkg'.invalid = dkg.invalid
  BY <1>1, <1>2 DEF DkgType
<1>4. dkg.commits \in [Members -> Nat] /\ dkg.age \in Nat /\ dkg.slashed \subseteq Members
  BY <1>1 DEF DkgType
<1>5. m \in dkg.slashed => m \in Garblers \/ m \in dkg.invalid
  <2>1. dkg.age <= CommitDeadline
    BY DEF AcceptsCommit
  <2>2. CommitDeadline \in Nat
    BY DkgParams DEF CommitDeadline
  <2> QED
    BY <1>1, <1>4, <2>1, <2>2 DEF DkgOk
<1>6. DkgOk'
  <2>1. \A n \in dkg'.slashed :
           \/ n \in Garblers' \/ n \in dkg'.invalid
           \/ dkg'.commits[n] = 0 /\ dkg'.age > CommitDeadline
    BY <1>1, <1>3, <1>4, <1>5 DEF DkgOk, Garblers
  <2> QED
    BY Zenon, <1>1, <1>3, <2>1 DEF DkgOk, Garblers, CommitDeadline
<1> QED
  BY <1>3, <1>4, <1>6 DEF KeepsFor

\* DkgEncryptedShare: a ciphertext is added that opens unless its dealer garbles.
LEMMA ShareIsCalm ==
    ASSUME DkgInv, UNCHANGED who, NEW m \in Members, NEW to \in Members,
           dkg' = DkgEncryptedShare(m, to)
    PROVE  CalmDkg
<1>1. DkgOk /\ dkg \in DkgType
  BY Zenon DEF DkgInv, DkgOk
<1> DEFINE s == <<m, to, m \notin Garblers>>
<1>2. s \in Members \X Members \X BOOLEAN
  BY Zenon
<1>3. /\ dkg' = [dkg EXCEPT !.shares = dkg.shares \cup {s}]
      /\ dkg.shares \subseteq Members \X Members \X BOOLEAN
  BY <1>1 DEF DkgEncryptedShare, DkgType
<1>4. \A a, b \in Members : <<a, b, FALSE>> = s => a \in Garblers
  BY Zenon
<1> HIDE DEF s
<1>5. /\ dkg' \in DkgType /\ dkg'.shares = dkg.shares \cup {s}
      /\ dkg'.epoch = dkg.epoch /\ dkg'.age = dkg.age /\ dkg'.commits = dkg.commits
      /\ dkg'.complaints = dkg.complaints /\ dkg'.reveals = dkg.reveals
      /\ dkg'.slashed = dkg.slashed /\ dkg'.invalid = dkg.invalid
  BY <1>1, <1>2, <1>3 DEF DkgType
<1>6. DkgOk'
  BY Zenon, <1>1, <1>4, <1>5 DEF DkgOk, Garblers, CommitDeadline
<1> QED
  BY <1>5, <1>6 DEF CalmDkg, KeepsFor

\* DkgComplaintMissing: a complaint about somebody else.
LEMMA ComplaintIsCalm ==
    ASSUME DkgInv, UNCHANGED who, NEW c \in Members, NEW m \in Members, c # m,
           dkg' = DkgComplaintMissing(c, m)
    PROVE  CalmDkg
<1>1. DkgOk /\ dkg \in DkgType
  BY Zenon DEF DkgInv, DkgOk
<1>2. /\ dkg' = [dkg EXCEPT !.complaints = dkg.complaints \cup {<<c, m>>}]
      /\ dkg.complaints \subseteq Members \X Members
  BY <1>1 DEF DkgComplaintMissing, DkgType
<1>3. /\ dkg' \in DkgType /\ dkg'.complaints = dkg.complaints \cup {<<c, m>>}
      /\ dkg'.epoch = dkg.epoch /\ dkg'.age = dkg.age /\ dkg'.commits = dkg.commits
      /\ dkg'.shares = dkg.shares /\ dkg'.reveals = dkg.reveals
      /\ dkg'.slashed = dkg.slashed /\ dkg'.invalid = dkg.invalid
  BY <1>1, <1>2 DEF DkgType
<1>4. DkgOk'
  BY Zenon, <1>1, <1>3 DEF DkgOk, Garblers, CommitDeadline
<1> QED
  BY <1>3, <1>4 DEF CalmDkg, KeepsFor

\* DkgShareReveal: an answer to a complaint, so to somebody else.
LEMMA RevealIsCalm ==
    ASSUME DkgInv, UNCHANGED who, NEW m \in Members, NEW to \in Members,
           <<to, m>> \in dkg.complaints, dkg' = DkgShareReveal(m, to)
    PROVE  CalmDkg
<1>1. DkgOk /\ dkg \in DkgType
  BY Zenon DEF DkgInv, DkgOk
<1>2. /\ dkg' = [dkg EXCEPT !.reveals = dkg.reveals \cup {<<m, to>>}]
      /\ dkg.reveals \subseteq Members \X Members
  BY <1>1 DEF DkgShareReveal, DkgType
<1>3. /\ dkg' \in DkgType /\ dkg'.reveals = dkg.reveals \cup {<<m, to>>}
      /\ dkg'.epoch = dkg.epoch /\ dkg'.age = dkg.age /\ dkg'.commits = dkg.commits
      /\ dkg'.shares = dkg.shares /\ dkg'.complaints = dkg.complaints
      /\ dkg'.slashed = dkg.slashed /\ dkg'.invalid = dkg.invalid
  BY <1>1, <1>2 DEF DkgType
<1>4. m # to
  BY <1>1 DEF DkgOk
<1>5. DkgOk'
  BY Zenon, <1>1, <1>3, <1>4 DEF DkgOk, Garblers, CommitDeadline
<1> QED
  BY <1>3, <1>5 DEF CalmDkg, KeepsFor

\* A complaint about a ciphertext that does not open slashes its dealer.
LEMMA BadShareKeeps ==
    ASSUME DkgInv, UNCHANGED who, NEW m \in Members, NEW d \in Members, m # d,
           <<d, m, FALSE>> \in dkg.shares, dkg' = DkgComplaintAEADBad(m, d)
    PROVE  /\ DkgOk' /\ dkg'.epoch = dkg.epoch /\ dkg'.slashed = dkg.slashed \cup {d}
           /\ \A n \in Members : KeepsFor(n)
<1>1. DkgOk /\ dkg \in DkgType
  BY Zenon DEF DkgInv, DkgOk
<1> DEFINE complaints == dkg.complaints \cup {<<m, d>>}
           slashed == dkg.slashed \cup {d}
<1>2. /\ dkg' = [dkg EXCEPT !.complaints = complaints, !.slashed = slashed]
      /\ complaints \in SUBSET (Members \X Members) /\ slashed \in SUBSET Members
  BY <1>1 DEF DkgComplaintAEADBad, DkgType
<1>3. /\ dkg' \in DkgType /\ dkg'.complaints = dkg.complaints \cup {<<m, d>>}
      /\ dkg'.epoch = dkg.epoch /\ dkg'.age = dkg.age /\ dkg'.commits = dkg.commits
      /\ dkg'.shares = dkg.shares /\ dkg'.reveals = dkg.reveals
      /\ dkg'.slashed = dkg.slashed \cup {d} /\ dkg'.invalid = dkg.invalid
  <2>1. complaints = dkg.complaints \cup {<<m, d>>} /\ slashed = dkg.slashed \cup {d}
    OBVIOUS
  <2> HIDE DEF complaints, slashed
  <2>2. dkg'.complaints = complaints /\ dkg'.slashed = slashed
    BY <1>1, <1>2 DEF DkgType
  <2>3. dkg' \in DkgType
    BY Zenon, <1>1, <1>2 DEF DkgType
  <2> QED
    BY <1>1, <1>2, <2>1, <2>2, <2>3 DEF DkgType
<1>4. d \in Garblers
  BY Zenon, <1>1 DEF DkgOk
<1>5. DkgOk'
  BY Zenon, <1>1, <1>3, <1>4 DEF DkgOk, Garblers, CommitDeadline
<1> QED
  BY <1>3, <1>5 DEF KeepsFor

\* A complaint about a share that its dealer signed slashes the dealer.
LEMMA SignedShareKeeps ==
    ASSUME DkgInv, UNCHANGED who, NEW c \in Members, NEW m \in Members, c # m,
           dkg' = DkgComplaintInvalid(c, m)
    PROVE  /\ DkgOk' /\ dkg'.epoch = dkg.epoch /\ dkg'.slashed = dkg.slashed \cup {m}
           /\ \A n \in Members : KeepsFor(n)
<1>1. DkgOk /\ dkg \in DkgType
  BY Zenon DEF DkgInv, DkgOk
<1> DEFINE complaints == dkg.complaints \cup {<<c, m>>}
           invalid == dkg.invalid \cup {m}
           slashed == dkg.slashed \cup {m}
<1>2. /\ dkg' = [dkg EXCEPT !.complaints = complaints, !.invalid = invalid, !.slashed = slashed]
      /\ complaints \in SUBSET (Members \X Members)
      /\ invalid \in SUBSET Members /\ slashed \in SUBSET Members
  BY <1>1 DEF DkgComplaintInvalid, DkgType
<1>3. /\ dkg' \in DkgType /\ dkg'.complaints = dkg.complaints \cup {<<c, m>>}
      /\ dkg'.epoch = dkg.epoch /\ dkg'.age = dkg.age /\ dkg'.commits = dkg.commits
      /\ dkg'.shares = dkg.shares /\ dkg'.reveals = dkg.reveals
      /\ dkg'.slashed = dkg.slashed \cup {m} /\ dkg'.invalid = dkg.invalid \cup {m}
  <2>1. /\ complaints = dkg.complaints \cup {<<c, m>>} /\ slashed = dkg.slashed \cup {m}
        /\ invalid = dkg.invalid \cup {m}
    OBVIOUS
  <2> HIDE DEF complaints, slashed, invalid
  <2>2. dkg'.complaints = complaints /\ dkg'.slashed = slashed /\ dkg'.invalid = invalid
    BY <1>1, <1>2 DEF DkgType
  <2>3. dkg' \in DkgType
    BY Zenon, <1>1, <1>2 DEF DkgType
  <2> QED
    BY <1>1, <1>2, <2>1, <2>2, <2>3 DEF DkgType
<1>4. DkgOk'
  BY Zenon, <1>1, <1>3 DEF DkgOk, Garblers, CommitDeadline
<1> QED
  BY <1>3, <1>4 DEF KeepsFor

\* DkgTimeout slashes those who let the deadline for their commitment pass.
LEMMA TimeoutKeeps ==
    ASSUME DkgInv, UNCHANGED who, dkg.age > CommitDeadline,
           dkg' = [dkg EXCEPT !.slashed = dkg.slashed \cup MissingCommits(dkg)]
    PROVE  /\ DkgOk' /\ dkg'.epoch = dkg.epoch
           /\ dkg'.slashed = dkg.slashed \cup MissingCommits(dkg)
           /\ \A n \in Members : KeepsFor(n)
<1>1. DkgOk /\ dkg \in DkgType
  BY Zenon DEF DkgInv, DkgOk
<1>2. MissingCommits(dkg) \subseteq Members /\ dkg.slashed \subseteq Members
  BY <1>1 DEF MissingCommits, DkgType
<1>3. /\ dkg' \in DkgType /\ dkg'.complaints = dkg.complaints
      /\ dkg'.epoch = dkg.epoch /\ dkg'.age = dkg.age /\ dkg'.commits = dkg.commits
      /\ dkg'.shares = dkg.shares /\ dkg'.reveals = dkg.reveals
      /\ dkg'.slashed = dkg.slashed \cup MissingCommits(dkg) /\ dkg'.invalid = dkg.invalid
  BY <1>1, <1>2 DEF DkgType
<1>4. \A n \in MissingCommits(dkg) : dkg.commits[n] = 0
  BY DEF MissingCommits, Committed
<1>5. DkgOk'
  BY Zenon, <1>1, <1>3, <1>4 DEF DkgOk, Garblers, CommitDeadline
<1> QED
  BY <1>3, <1>5 DEF KeepsFor

\* A handler that slashes while the DKG is in flight fines nobody a second time.
LEMMA PenaltiesKeep ==
    ASSUME DkgInv, dkg.epoch # 0, NEW S \in SUBSET Members, dkg.slashed \subseteq S,
           penalties' = Penalise(S)
    PROVE  /\ penalties' \in [Members -> {0, 1}]
           /\ \A m \in Members : penalties'[m] = 1 => m \in S
<1>1. /\ penalties \in [Members -> {0, 1}]
      /\ \A m \in Members : penalties[m] = 1 => m \in dkg.slashed
  BY DEF DkgInv, PenaltiesOk
<1>2. ASSUME NEW m \in Members
      PROVE  /\ penalties[m] + (IF m \in S \ dkg.slashed THEN 1 ELSE 0) \in {0, 1}
             /\ penalties[m] + (IF m \in S \ dkg.slashed THEN 1 ELSE 0) = 1 => m \in S
  BY <1>1, <1>2
<1> QED
  BY <1>2 DEF Penalise

\* NoDkg is what DkgOk asks for.
LEMMA EndKeeps ==
    ASSUME dkg' = NoDkg
    PROVE  DkgOk' /\ dkg'.epoch = 0 /\ dkg'.slashed = {}
<1>1. NoDkg \in DkgType
  BY DEF NoDkg, DkgType
<1> QED
  BY <1>1 DEF NoDkg, DkgOk

\* finalizeEpoch takes everybody into the key but those who have no commitment,
\* left a complaint unanswered or were proved to have sent wrong shares.
LEMMA FinalizeKeeps ==
    ASSUME DkgInv, UNCHANGED who, dkg.epoch # 0, NEW S,
           S \subseteq dkg.slashed \cup MissingCommits(dkg), finalizeEpoch(S)
    PROVE  /\ dkg' = NoDkg /\ penalties' \in [Members -> {0, 1}]
           /\ QualifiedIffAnswered'
<1> DEFINE out == dkg.slashed \cup S \cup MissingCommits(dkg) \cup Unresolved(dkg)
           d == [dkg EXCEPT !.slashed = out]
<1>1. DkgOk /\ dkg \in DkgType /\ dkg.slashed \subseteq Members
  BY Zenon DEF DkgInv, DkgOk, DkgType
<1>2. out \in SUBSET Members /\ dkg.slashed \subseteq out
  BY <1>1 DEF MissingCommits, Unresolved
<1>3. /\ d.slashed = out /\ d.commits = dkg.commits /\ d.complaints = dkg.complaints
      /\ d.reveals = dkg.reveals /\ d.invalid = dkg.invalid
  BY <1>1 DEF DkgType
<1>4. /\ penalties' = Penalise(d.slashed) /\ dkg' = NoDkg
      /\ active' = IF Cardinality(Qualified(d)) < Threshold THEN active
                   ELSE [id |-> dkg.epoch, qual |-> Qualified(d), transcript |-> d]
  BY DEF finalizeEpoch
<1>5. MissingCommits(d) = MissingCommits(dkg) /\ Unresolved(d) = Unresolved(dkg)
  BY <1>3 DEF MissingCommits, Unresolved, Committed, Complainers
<1>6. out \subseteq MissingCommits(dkg) \cup Unresolved(dkg) \cup Garblers \cup dkg.invalid
  <2>1. \A m \in dkg.slashed : m \in Garblers \/ m \in dkg.invalid \/ m \in MissingCommits(dkg)
    BY <1>1 DEF DkgOk, MissingCommits, Committed
  <2> QED
    BY <2>1
<1>7. MissingCommits(dkg) \cup Unresolved(dkg) \subseteq out
  OBVIOUS
<1> HIDE DEF out, d
<1>8. penalties' \in [Members -> {0, 1}]
  BY <1>2, <1>3, <1>4, PenaltiesKeep
<1>9. Qualified(d) = Members \ out
  BY <1>3 DEF Qualified
<1>10. CASE Cardinality(Qualified(d)) < Threshold
  <2>1. active' = active
    BY <1>4, <1>10
  <2> QED
    BY <1>4, <1>8, <2>1 DEF DkgInv, QualifiedIffAnswered, Garblers
<1>11. CASE ~(Cardinality(Qualified(d)) < Threshold)
  <2>1. active'.qual = Members \ out /\ active'.transcript = d
    BY <1>4, <1>9, <1>11
  <2>2. IsFiniteSet(Members) /\ Threshold \in Int
    BY DkgParams, IntervalFinite DEF Members
  <2>3. Cardinality(Members \ out) \in Int
    <3>1. IsFiniteSet(Members \ out)
      BY Zenon, <2>2, FS_Difference
    <3> QED
      BY <3>1, FS_CardinalityType
  <2>4. Cardinality(active'.qual) >= Threshold
    BY <1>9, <1>11, <2>1, <2>2, <2>3
  <2>5. /\ active'.qual \cap (MissingCommits(active'.transcript) \cup Unresolved(active'.transcript)) = {}
        /\ (Members \ active'.qual) \subseteq
              (MissingCommits(active'.transcript) \cup Unresolved(active'.transcript)
                 \cup Garblers' \cup active'.transcript.invalid)
    BY <1>2, <1>3, <1>5, <1>6, <1>7, <2>1 DEF Garblers
  <2> QED
    BY Zenon, <1>4, <1>8, <2>4, <2>5
       DEF QualifiedIffAnswered, MissingCommits, Unresolved, Committed,
       Complainers
<1> QED
  BY <1>10, <1>11

-----------------------------------------------------------------------------
(* The steps. *)

\* How daemon m moves: nobody else's does.
MovesTo(m, r) ==
    /\ daemon' \in [Members -> DaemonType] /\ daemon'[m] = r
    /\ \A n \in Members \ {m} : daemon'[n] = daemon[n]

\* A poll that stops, or is stopped by a crash.
LEMMA StopMoves ==
    ASSUME DkgInv, NEW m \in Members, Stop(m)
    PROVE  MovesTo(m, Idle) /\ daemon'[m].epoch < nextEpoch /\ DaemonOk(m)'
<1>1. Idle \in DaemonType
  BY DEF Idle, DaemonType, Pcs
<1>2. MovesTo(m, Idle)
  BY <1>1 DEF Stop, MovesTo, DkgInv
<1>3. daemon'[m].epoch < nextEpoch
  BY <1>2 DEF MovesTo, Idle, DkgInv, EpochsOk
<1>4. DaemonOk(m)'
  BY <1>2 DEF MovesTo, Idle, DaemonOk
<1> QED
  BY <1>2, <1>3, <1>4

\* A poll that goes on with what it has read.
LEMMA GotoMoves ==
    ASSUME DkgInv, NEW m \in Members, NEW pc \in Pcs, Goto(m, pc)
    PROVE  /\ MovesTo(m, [daemon[m] EXCEPT !.pc = pc]) /\ daemon'[m].epoch < nextEpoch
           /\ daemon'[m].epoch = daemon[m].epoch /\ daemon'[m].pc = pc
           /\ daemon'[m].todo = daemon[m].todo /\ daemon'[m].accuse = daemon[m].accuse
           /\ daemon'[m].draft = daemon[m].draft
<1>1. daemon \in [Members -> DaemonType] /\ daemon[m].epoch < nextEpoch /\ daemon[m] \in DaemonType
  BY DEF DkgInv, EpochsOk
<1>2. [daemon[m] EXCEPT !.pc = pc] \in DaemonType
  BY <1>1 DEF DaemonType
<1>3. daemon' = [daemon EXCEPT ![m] = [daemon[m] EXCEPT !.pc = pc]]
  BY DEF Goto
<1>4. MovesTo(m, [daemon[m] EXCEPT !.pc = pc])
  BY <1>1, <1>2, <1>3 DEF MovesTo
<1>5. /\ daemon'[m].epoch = daemon[m].epoch /\ daemon'[m].pc = pc
      /\ daemon'[m].todo = daemon[m].todo /\ daemon'[m].accuse = daemon[m].accuse
      /\ daemon'[m].draft = daemon[m].draft
  BY <1>1, <1>4 DEF MovesTo, DaemonType
<1> QED
  BY <1>1, <1>4, <1>5

\* A step of daemon m that slashes nobody and leaves the files alone.
LEMMA CalmStep ==
    ASSUME DkgInv, NEW m \in Members, NEW r, CalmDkg, MovesTo(m, r),
           daemon'[m].epoch < nextEpoch, DaemonOk(m)',
           UNCHANGED <<active, nextEpoch, penalties, disk, drawn, who>>
    PROVE  DkgInv'
<1>1. DkgOk'
  BY DEF CalmDkg
<1>2. PenaltiesOk'
  BY DEF CalmDkg, DkgInv, PenaltiesOk
<1>3. EpochsOk'
  BY DEF CalmDkg, DkgInv, EpochsOk, MovesTo
<1>4. \A n \in Members : FileOk(n)'
  BY FileKeeps DEF CalmDkg
<1>5. \A n \in Members \ {m} : DaemonOk(n)'
  BY DaemonKeeps DEF CalmDkg, MovesTo
<1>6. QualifiedIffAnswered'
  BY DEF DkgInv, QualifiedIffAnswered, Garblers
<1> QED
  BY <1>1, <1>2, <1>3, <1>4, <1>5, <1>6 DEF DkgInv, MovesTo

\* NextBlock.
LEMMA BlockStep ==
    ASSUME DkgInv, NextBlock, UNCHANGED who
    PROVE  DkgInv'
<1>1. DkgOk /\ dkg \in DkgType
  BY Zenon DEF DkgInv, DkgOk
<1>2. /\ dkg' \in DkgType /\ dkg'.complaints = dkg.complaints
      /\ dkg'.epoch = dkg.epoch /\ dkg'.age = dkg.age + 1 /\ dkg'.commits = dkg.commits
      /\ dkg'.shares = dkg.shares /\ dkg'.reveals = dkg.reveals
      /\ dkg'.slashed = dkg.slashed /\ dkg'.invalid = dkg.invalid
  BY <1>1 DEF NextBlock, DkgType
<1>3. DkgOk'
  <2>1. CommitDeadline \in Nat /\ dkg.age \in Nat
    BY <1>1, DkgParams DEF CommitDeadline, DkgType
  <2>2. dkg.age > CommitDeadline => dkg'.age > CommitDeadline
    BY <1>2, <2>1
  <2> QED
    BY Zenon, <1>1, <1>2, <2>2 DEF DkgOk, Garblers, CommitDeadline
<1>4. \A n \in Members : KeepsFor(n)
  BY <1>2 DEF KeepsFor
<1>5. UNCHANGED <<active, nextEpoch, penalties, daemon, disk, drawn>>
  BY DEF NextBlock
<1>6. PenaltiesOk' /\ EpochsOk'
  BY <1>2, <1>5 DEF DkgInv, PenaltiesOk, EpochsOk
<1>7. \A n \in Members : FileOk(n)' /\ DaemonOk(n)'
  BY <1>4, <1>5, FileKeeps, DaemonKeeps
<1>8. QualifiedIffAnswered'
  BY <1>5 DEF DkgInv, QualifiedIffAnswered, Garblers
<1> QED
  BY <1>3, <1>5, <1>6, <1>7, <1>8 DEF DkgInv

\* DkgTimeout, in its three outcomes.
LEMMA TimeoutStep ==
    ASSUME DkgInv, DkgTimeout, UNCHANGED who
    PROVE  DkgInv'
<1> DEFINE slashed == dkg.slashed \cup MissingCommits(dkg)
<1>1. /\ dkg.epoch # 0 /\ dkg.age > CommitDeadline
      /\ UNCHANGED <<nextEpoch, daemon, disk, drawn>>
      /\ \/ dkg' = NoDkg /\ penalties' = Penalise(slashed) /\ UNCHANGED active
         \/ /\ dkg' = [dkg EXCEPT !.slashed = slashed] /\ penalties' = Penalise(slashed)
            /\ UNCHANGED active
         \/ finalizeEpoch(slashed)
  BY DEF DkgTimeout
<1>2. slashed \in SUBSET Members /\ dkg.slashed \subseteq slashed
  BY DEF DkgInv, DkgOk, DkgType, MissingCommits
<1>3. /\ penalties' \in [Members -> {0, 1}] /\ DkgOk'
      /\ \/ dkg'.epoch = 0
         \/ dkg'.epoch = dkg.epoch /\ \A n \in Members : penalties'[n] = 1 => n \in dkg'.slashed
      /\ \A n \in Members : KeepsFor(n)
      /\ QualifiedIffAnswered'
  <2>1. CASE dkg' = NoDkg /\ penalties' = Penalise(slashed) /\ UNCHANGED active
    <3>1. penalties' \in [Members -> {0, 1}]
      BY <1>1, <1>2, <2>1, PenaltiesKeep
    <3>2. DkgOk' /\ dkg'.epoch = 0
      BY <2>1, EndKeeps
    <3> QED
      BY Zenon, <2>1, <3>1, <3>2
         DEF KeepsFor, DkgInv, QualifiedIffAnswered, Garblers
  <2>2. CASE /\ dkg' = [dkg EXCEPT !.slashed = slashed] /\ penalties' = Penalise(slashed)
             /\ UNCHANGED active
    <3>1. /\ penalties' \in [Members -> {0, 1}]
          /\ \A n \in Members : penalties'[n] = 1 => n \in slashed
      BY <1>1, <1>2, <2>2, PenaltiesKeep
    <3>2. /\ DkgOk' /\ dkg'.epoch = dkg.epoch /\ dkg'.slashed = slashed
          /\ \A n \in Members : KeepsFor(n)
      BY <1>1, <2>2, TimeoutKeeps
    <3>3. QualifiedIffAnswered'
      BY <2>2 DEF DkgInv, QualifiedIffAnswered, Garblers
    <3> QED
      BY <3>1, <3>2, <3>3
  <2>3. CASE finalizeEpoch(slashed)
    <3>1. dkg' = NoDkg /\ penalties' \in [Members -> {0, 1}] /\ QualifiedIffAnswered'
      BY <1>1, <2>3, FinalizeKeeps
    <3>2. DkgOk' /\ dkg'.epoch = 0
      BY <3>1, EndKeeps
    <3> QED
      BY <3>1, <3>2 DEF KeepsFor
  <2> QED
    BY <1>1, <2>1, <2>2, <2>3
<1>4. PenaltiesOk'
  BY <1>3 DEF PenaltiesOk
<1>5. EpochsOk'
  BY <1>1, <1>3 DEF DkgInv, EpochsOk
<1>6. \A n \in Members : FileOk(n)' /\ DaemonOk(n)'
  BY <1>1, <1>3, FileKeeps, DaemonKeeps
<1> QED
  BY <1>1, <1>3, <1>4, <1>5, <1>6 DEF DkgInv

\* A complaint about a share that its dealer signed.
LEMMA InvalidStep ==
    ASSUME DkgInv, NEW c \in Members, NEW m \in Members, ComplainInvalid(c, m), UNCHANGED who
    PROVE  DkgInv'
<1>1. /\ AcceptsComplaint(dkg.epoch, c, m) /\ dkg' = DkgComplaintInvalid(c, m)
      /\ penalties' = Penalise(dkg'.slashed) /\ UNCHANGED <<active, nextEpoch, daemon, disk, drawn>>
  BY Zenon DEF ComplainInvalid, AcceptsComplaintInvalid
<1>2. dkg.epoch # 0 /\ c # m
  BY Zenon, <1>1 DEF AcceptsComplaint, InFlight
<1>3. /\ DkgOk' /\ dkg'.epoch = dkg.epoch /\ dkg'.slashed = dkg.slashed \cup {m}
      /\ \A n \in Members : KeepsFor(n)
  BY Zenon, <1>1, <1>2, SignedShareKeeps
<1>4. dkg'.slashed \in SUBSET Members /\ dkg.slashed \subseteq dkg'.slashed
  BY <1>3 DEF DkgOk, DkgType
<1>5. PenaltiesOk'
  BY <1>1, <1>2, <1>3, <1>4, PenaltiesKeep DEF PenaltiesOk
<1>6. EpochsOk'
  BY Zenon, <1>1, <1>3 DEF DkgInv, EpochsOk
<1>7. \A n \in Members : FileOk(n)' /\ DaemonOk(n)'
  BY Zenon, <1>1, <1>3, FileKeeps, DaemonKeeps
<1>8. QualifiedIffAnswered'
  BY Zenon, <1>1 DEF DkgInv, QualifiedIffAnswered, Garblers
<1> QED
  BY Zenon, <1>1, <1>3, <1>5, <1>6, <1>7, <1>8 DEF DkgInv

\* A poll starts from the DKG in flight, or finds that an epoch is due.
LEMMA PollStep ==
    ASSUME DkgInv, NEW m \in Members, Poll(m), UNCHANGED who
    PROVE  DkgInv'
<1>1. CalmDkg
  BY UnchangedIsCalm DEF Poll
<1>2. UNCHANGED <<active, nextEpoch, penalties, disk, drawn, who>>
  BY DEF Poll
<1>3. CASE dkg.epoch # 0 /\ daemon' = [daemon EXCEPT ![m].pc = "commit", ![m].epoch = dkg.epoch]
  <2> DEFINE r == [daemon[m] EXCEPT !.pc = "commit", !.epoch = dkg.epoch]
  <2>1. daemon \in [Members -> DaemonType] /\ dkg.epoch \in Nat /\ dkg.epoch < nextEpoch
    BY DEF DkgInv, DkgOk, DkgType, EpochsOk
  <2>2. r \in DaemonType /\ r.pc = "commit" /\ r.epoch = dkg.epoch
    <3>1. daemon[m] \in DaemonType /\ "commit" \in Pcs
      BY <2>1 DEF Pcs
    <3> QED
      BY Zenon, <2>1, <3>1 DEF DaemonType
  <2>3. daemon' = [daemon EXCEPT ![m] = r]
    BY Zenon, <1>3, <2>1
  <2> HIDE DEF r
  <2>4. MovesTo(m, r)
    BY <2>1, <2>2, <2>3 DEF MovesTo
  <2>5. DaemonOk(m)'
    BY Zenon, <2>2, <2>4 DEF MovesTo, DaemonOk
  <2>6. daemon'[m].epoch < nextEpoch
    BY <2>1, <2>2, <2>4 DEF MovesTo
  <2> QED
    BY <1>1, <1>2, <2>4, <2>5, <2>6, CalmStep
<1>4. CASE Goto(m, "begin")
  <2>1. "begin" \in Pcs
    BY DEF Pcs
  <2>2. /\ MovesTo(m, [daemon[m] EXCEPT !.pc = "begin"]) /\ daemon'[m].epoch < nextEpoch
        /\ daemon'[m].pc = "begin"
    BY <1>4, <2>1, GotoMoves
  <2>3. DaemonOk(m)'
    BY <2>2 DEF DaemonOk
  <2> QED
    BY <1>1, <1>2, <2>2, <2>3, CalmStep
<1> QED
  BY <1>3, <1>4 DEF Poll

\* maybeBeginEpoch, whether or not another daemon was faster.
LEMMA BeginStep ==
    ASSUME DkgInv, NEW m \in Members, BeginEpoch(m), UNCHANGED who
    PROVE  DkgInv'
<1>1. /\ Stop(m) /\ UNCHANGED <<active, disk, drawn>>
      /\ \/ /\ dkg.epoch = 0 /\ dkg' = [NoDkg EXCEPT !.epoch = nextEpoch]
            /\ nextEpoch' = nextEpoch + 1 /\ penalties' = [x \in Members |-> 0]
         \/ UNCHANGED <<dkg, nextEpoch, penalties>>
  BY DEF BeginEpoch
<1>2. MovesTo(m, Idle) /\ daemon'[m].epoch < nextEpoch /\ DaemonOk(m)'
  BY <1>1, StopMoves
<1>3. CASE UNCHANGED <<dkg, nextEpoch, penalties>>
  BY <1>1, <1>2, <1>3, UnchangedIsCalm, CalmStep
<1>4. CASE /\ dkg.epoch = 0 /\ dkg' = [NoDkg EXCEPT !.epoch = nextEpoch]
           /\ nextEpoch' = nextEpoch + 1 /\ penalties' = [x \in Members |-> 0]
  <2>1. nextEpoch \in Nat /\ EpochsOk
    BY DEF DkgInv, EpochsOk
  <2>2. /\ dkg' \in DkgType /\ dkg'.epoch = nextEpoch /\ dkg'.shares = {} /\ dkg'.complaints = {}
        /\ dkg'.reveals = {} /\ dkg'.slashed = {}
    BY <1>4, <2>1 DEF NoDkg, DkgType
  <2>3. DkgOk'
    BY <2>2 DEF DkgOk
  <2>4. \A n \in Members : KeepsFor(n)
    BY <2>2 DEF KeepsFor
  <2>5. PenaltiesOk'
    BY <1>4 DEF PenaltiesOk
  <2>6. EpochsOk'
    <3>1. \A n \in Members : daemon[n].epoch \in Nat /\ disk[n].epoch \in Nat /\ daemon'[n].epoch \in Nat
      BY <1>2 DEF DkgInv, DaemonType, FileType, MovesTo
    <3>2. ASSUME NEW n \in Members
          PROVE  daemon'[n].epoch < nextEpoch' /\ disk'[n].epoch < nextEpoch'
      BY <1>1, <1>2, <1>4, <2>1, <3>1 DEF EpochsOk, MovesTo
    <3> QED
      BY <1>4, <2>1, <2>2, <3>2 DEF EpochsOk
  <2>7. \A n \in Members : FileOk(n)'
    BY <1>1, <2>4, FileKeeps
  <2>8. \A n \in Members \ {m} : DaemonOk(n)'
    BY <1>1, <1>2, <2>4, DaemonKeeps DEF MovesTo
  <2>9. QualifiedIffAnswered'
    BY <1>1 DEF DkgInv, QualifiedIffAnswered, Garblers
  <2> QED
    BY <1>1, <1>2, <2>3, <2>5, <2>6, <2>7, <2>8, <2>9 DEF DkgInv, MovesTo
<1> QED
  BY <1>1, <1>3, <1>4

\* A commitment that the chain takes, whether or not its answer arrives.
LEMMA CommitTaken ==
    ASSUME DkgInv, NEW m \in Members, UNCHANGED who, NEW poly \in Nat, NEW pc \in {"save", "read1"},
           ~has(m, daemon[m].epoch), AcceptsCommit(daemon[m].epoch, m),
           dkg' = DkgCommit(m, poly), drawn' = [drawn EXCEPT ![m] = poly], Goto(m, pc),
           UNCHANGED <<active, nextEpoch, penalties, disk>>
    PROVE  DkgInv'
<1>1. /\ DkgOk' /\ dkg'.epoch = dkg.epoch /\ dkg'.slashed = dkg.slashed
      /\ dkg'.commits[m] = poly /\ \A n \in Members \ {m} : KeepsFor(n)
  BY CommitIsTaken
<1>2. pc \in Pcs
  BY DEF Pcs
<1>3. /\ MovesTo(m, [daemon[m] EXCEPT !.pc = pc]) /\ daemon'[m].epoch < nextEpoch
      /\ daemon'[m].pc = pc
  BY <1>2, GotoMoves
<1>4. drawn' \in [Members -> Nat] /\ drawn'[m] = poly /\ \A n \in Members \ {m} : drawn'[n] = drawn[n]
  BY DEF DkgInv
<1>5. DaemonOk(m)'
  BY Zenon, <1>1, <1>3, <1>4 DEF DaemonOk
<1>6. FileOk(m)'
  BY Zenon, <1>1 DEF FileOk, Loads, has, AcceptsCommit, InFlight
<1>7. \A n \in Members \ {m} : FileOk(n)' /\ DaemonOk(n)'
  BY <1>1, <1>3, <1>4, FileKeeps, DaemonKeeps DEF MovesTo
<1>8. PenaltiesOk' /\ EpochsOk'
  BY Zenon, <1>1, <1>3 DEF DkgInv, PenaltiesOk, EpochsOk, MovesTo
<1>9. QualifiedIffAnswered'
  BY Zenon DEF DkgInv, QualifiedIffAnswered, Garblers
<1> QED
  BY <1>1, <1>3, <1>4, <1>5, <1>6, <1>7, <1>8, <1>9 DEF DkgInv, MovesTo

\* handleDkgCommit, accepted, refused or lost.
LEMMA CommitStep ==
    ASSUME DkgInv, NEW m \in Members, handleDkgCommit(m), UNCHANGED who
    PROVE  DkgInv'
<1> DEFINE poly == IF drawn[m] < MaxPolys THEN drawn[m] + 1 ELSE MaxPolys
<1>1. poly \in Nat
  BY DkgParams DEF DkgInv
<1>2. /\ UNCHANGED <<active, nextEpoch, penalties, disk>>
      /\ \/ Goto(m, "read1") /\ UNCHANGED <<dkg, drawn>>
         \/ \E pc \in {"save", "read1"} :
              /\ ~has(m, daemon[m].epoch) /\ AcceptsCommit(daemon[m].epoch, m)
              /\ dkg' = DkgCommit(m, poly) /\ drawn' = [drawn EXCEPT ![m] = poly] /\ Goto(m, pc)
  BY Zenon DEF handleDkgCommit
<1> HIDE DEF poly
<1>3. CASE Goto(m, "read1") /\ UNCHANGED <<dkg, drawn>>
  <2>1. /\ MovesTo(m, [daemon[m] EXCEPT !.pc = "read1"]) /\ daemon'[m].epoch < nextEpoch
        /\ daemon'[m].pc = "read1"
    BY Zenon, <1>3, GotoMoves DEF Pcs
  <2>2. DaemonOk(m)'
    BY <2>1 DEF DaemonOk
  <2> QED
    BY <1>2, <1>3, <2>1, <2>2, UnchangedIsCalm, CalmStep
<1> QED
  BY <1>1, <1>2, <1>3, CommitTaken

\* The file that SavePoly writes holds what the chain has taken.
LEMMA SavePolyStep ==
    ASSUME DkgInv, NEW m \in Members, SavePoly(m), UNCHANGED who
    PROVE  DkgInv'
<1> DEFINE f == [epoch |-> daemon[m].epoch, poly |-> drawn[m], sum |-> {}]
<1>1. /\ daemon[m].pc = "save" /\ Goto(m, "read1") /\ disk' = [disk EXCEPT ![m] = f]
      /\ UNCHANGED <<dkg, active, nextEpoch, penalties, drawn>>
  BY Zenon DEF SavePoly, At
<1>2. /\ MovesTo(m, [daemon[m] EXCEPT !.pc = "read1"]) /\ daemon'[m].epoch < nextEpoch
      /\ daemon'[m].pc = "read1"
  BY Zenon, <1>1, GotoMoves DEF Pcs
<1>3. f \in FileType /\ f.epoch = daemon[m].epoch /\ f.poly = drawn[m] /\ f.sum = {}
  <2>1. daemon[m] \in DaemonType /\ drawn[m] \in Nat
    BY Zenon DEF DkgInv
  <2>2. daemon[m].epoch \in Nat /\ drawn[m] \in Int
    BY <2>1 DEF DaemonType
  <2> QED BY Zenon, <2>2 DEF FileType
<1> HIDE DEF f
<1>4. disk' \in [Members -> FileType] /\ disk'[m] = f /\ \A n \in Members \ {m} : disk'[n] = disk[n]
  BY Zenon, <1>1, <1>3 DEF DkgInv
<1>5. CalmDkg
  BY Zenon, <1>1, UnchangedIsCalm
<1>6. FileOk(m)'
  <2>1. daemon[m].epoch = dkg.epoch /\ dkg.epoch # 0 => dkg.commits[m] = drawn[m]
    BY Zenon, <1>1 DEF DkgInv, DaemonOk, InFlight
  <2> QED
    BY Zenon, <1>1, <1>3, <1>4, <2>1 DEF FileOk, Loads, has
<1>7. DaemonOk(m)'
  BY <1>2 DEF DaemonOk
<1>8. \A n \in Members \ {m} : FileOk(n)' /\ DaemonOk(n)'
  BY <1>1, <1>2, <1>4, <1>5, FileKeeps, DaemonKeeps DEF MovesTo, CalmDkg
<1>9. PenaltiesOk'
  BY Zenon, <1>1 DEF DkgInv, PenaltiesOk
<1>10. EpochsOk'
  BY Zenon, <1>1, <1>2, <1>3, <1>4 DEF DkgInv, EpochsOk, MovesTo
<1>11. QualifiedIffAnswered'
  BY Zenon, <1>1 DEF DkgInv, QualifiedIffAnswered, Garblers
<1> QED
  BY <1>1, <1>2, <1>4, <1>5, <1>6, <1>7, <1>8, <1>9, <1>10, <1>11 DEF DkgInv, MovesTo, CalmDkg

\* A poll that goes on with something else to do.
LEMMA WorkMoves ==
    ASSUME DkgInv, NEW m \in Members, NEW r \in DaemonType, r.epoch = daemon[m].epoch,
           daemon' = [daemon EXCEPT ![m] = r]
    PROVE  MovesTo(m, r) /\ daemon'[m] = r /\ daemon'[m].epoch < nextEpoch
<1>1. daemon \in [Members -> DaemonType] /\ daemon[m].epoch < nextEpoch
  BY DEF DkgInv, EpochsOk
<1>2. MovesTo(m, r)
  BY <1>1 DEF MovesTo
<1> QED
  BY <1>1, <1>2 DEF MovesTo

\* What the re-read DKG calls for concerns members.
LEMMA ReadAfterCommitStep ==
    ASSUME DkgInv, NEW m \in Members, ReadAfterCommit(m), UNCHANGED who
    PROVE  DkgInv'
<1> DEFINE todo == SharesDue(m, daemon[m].epoch)
           accuse == ComplaintsDue(m)
           pc == IF todo # {} THEN "share" ELSE IF accuse # {} THEN "complain" ELSE "read2"
           r == [daemon[m] EXCEPT !.todo = todo, !.accuse = accuse, !.pc = pc]
<1>1. CalmDkg
  BY UnchangedIsCalm DEF ReadAfterCommit
<1>2. UNCHANGED <<active, nextEpoch, penalties, disk, drawn, who>>
  BY DEF ReadAfterCommit
<1>3. Stop(m) \/ daemon' = [daemon EXCEPT ![m] = r]
  BY Zenon DEF ReadAfterCommit
<1>4. /\ todo \in SUBSET Members /\ accuse \in SUBSET Members /\ pc \in Pcs
      /\ pc \in {"share", "complain", "read2"}
      /\ (pc = "share" => todo # {}) /\ (pc = "complain" => accuse # {})
  BY Zenon DEF SharesDue, ComplaintsDue, Committed, Pcs
<1> HIDE DEF todo, accuse, pc
<1>5. /\ r \in DaemonType /\ r.epoch = daemon[m].epoch /\ r.pc = pc /\ r.todo = todo
      /\ r.accuse = accuse
  <2>1. daemon[m] \in DaemonType
    BY DEF DkgInv
  <2> QED
    BY Zenon, <1>4, <2>1 DEF DaemonType
<1> HIDE DEF r
<1>6. CASE Stop(m)
  BY Zenon, <1>1, <1>2, <1>6, StopMoves, CalmStep
<1>7. CASE daemon' = [daemon EXCEPT ![m] = r]
  <2>1. MovesTo(m, r) /\ daemon'[m] = r /\ daemon'[m].epoch < nextEpoch
    BY Zenon, <1>5, <1>7, WorkMoves
  <2>2. DaemonOk(m)'
    BY Zenon, <1>4, <1>5, <2>1 DEF DaemonOk
  <2> QED
    BY <1>1, <1>2, <2>1, <2>2, CalmStep
<1> QED
  BY <1>3, <1>6, <1>7

\* handleDkgEncryptedShares, one share at a time.
LEMMA SharesStep ==
    ASSUME DkgInv, NEW m \in Members, handleDkgEncryptedShares(m), UNCHANGED who
    PROVE  DkgInv'
<1> DEFINE to == MinOf(daemon[m].todo)
           rest == daemon[m].todo \ {to}
           pc == IF rest # {} THEN "share" ELSE IF daemon[m].accuse # {} THEN "complain" ELSE "read2"
           r == [daemon[m] EXCEPT !.todo = rest, !.pc = pc]
<1>1. /\ daemon[m].pc = "share" /\ daemon' = [daemon EXCEPT ![m] = r]
      /\ Send(AcceptsShare(daemon[m].epoch, m, to, disk[m].poly), DkgEncryptedShare(m, to))
      /\ UNCHANGED <<active, nextEpoch, penalties, disk, drawn, who>>
  BY Zenon DEF handleDkgEncryptedShares, At
<1>2. daemon[m] \in DaemonType /\ daemon[m].todo \in SUBSET Members /\ daemon[m].todo # {}
  BY Zenon, <1>1 DEF DkgInv, DaemonType, DaemonOk
<1>3. to \in Members
  BY <1>2, MinOfIn
<1>4. CalmDkg
  <2>1. \/ dkg' = DkgEncryptedShare(m, to)
        \/ UNCHANGED dkg
    BY <1>1 DEF Send
  <2> QED
    BY <1>3, <2>1, ShareIsCalm, UnchangedIsCalm
<1>5. /\ rest \in SUBSET Members /\ pc \in Pcs /\ pc \in {"share", "complain", "read2"}
      /\ (pc = "share" => rest # {}) /\ (pc = "complain" => daemon[m].accuse # {})
  BY <1>2 DEF Pcs
<1> HIDE DEF to, rest, pc
<1>6. /\ r \in DaemonType /\ r.epoch = daemon[m].epoch /\ r.pc = pc /\ r.todo = rest
      /\ r.accuse = daemon[m].accuse
  BY Zenon, <1>2, <1>5 DEF DaemonType
<1> HIDE DEF r
<1>7. MovesTo(m, r) /\ daemon'[m] = r /\ daemon'[m].epoch < nextEpoch
  BY Zenon, <1>1, <1>6, WorkMoves
<1>8. DaemonOk(m)'
  BY Zenon, <1>5, <1>6, <1>7 DEF DaemonOk
<1> QED
  BY <1>1, <1>4, <1>7, <1>8, CalmStep

\* handleDkgComplaints, one complaint at a time.
LEMMA ComplaintsStep ==
    ASSUME DkgInv, NEW m \in Members, handleDkgComplaints(m), UNCHANGED who
    PROVE  DkgInv'
<1> DEFINE d == MinOf(daemon[m].accuse)
           rest == daemon[m].accuse \ {d}
           pc == IF rest # {} THEN "complain" ELSE "read2"
           r == [daemon[m] EXCEPT !.accuse = rest, !.pc = pc]
<1>1. /\ daemon[m].pc = "complain" /\ daemon' = [daemon EXCEPT ![m] = r]
      /\ Send(AcceptsComplaint(daemon[m].epoch, m, d), DkgComplaintMissing(m, d))
      /\ UNCHANGED <<active, nextEpoch, penalties, disk, drawn, who>>
  BY Zenon DEF handleDkgComplaints, At
<1>2. daemon[m] \in DaemonType /\ daemon[m].accuse \in SUBSET Members /\ daemon[m].accuse # {}
  BY Zenon, <1>1 DEF DkgInv, DaemonType, DaemonOk
<1>3. d \in Members
  BY <1>2, MinOfIn
<1>4. CalmDkg
  <2>1. \/ m # d /\ dkg' = DkgComplaintMissing(m, d)
        \/ UNCHANGED dkg
    BY <1>1 DEF Send, AcceptsComplaint
  <2> QED
    BY <1>3, <2>1, ComplaintIsCalm, UnchangedIsCalm
<1>5. /\ rest \in SUBSET Members /\ pc \in Pcs /\ pc \in {"complain", "read2"}
      /\ (pc = "complain" => rest # {})
  BY <1>2 DEF Pcs
<1> HIDE DEF d, rest, pc
<1>6. r \in DaemonType /\ r.epoch = daemon[m].epoch /\ r.pc = pc /\ r.accuse = rest
  BY Zenon, <1>2, <1>5 DEF DaemonType
<1> HIDE DEF r
<1>7. MovesTo(m, r) /\ daemon'[m] = r /\ daemon'[m].epoch < nextEpoch
  BY Zenon, <1>1, <1>6, WorkMoves
<1>8. DaemonOk(m)'
  BY Zenon, <1>5, <1>6, <1>7 DEF DaemonOk
<1> QED
  BY <1>1, <1>4, <1>7, <1>8, CalmStep

\* The complaints that a re-read DKG shows call for answers.
LEMMA ReadAfterComplaintsStep ==
    ASSUME DkgInv, NEW m \in Members, ReadAfterComplaints(m), UNCHANGED who
    PROVE  DkgInv'
<1> DEFINE todo == {c \in Complainers(dkg, m) : Loads(m, daemon[m].epoch) /\ <<m, c>> \notin dkg.reveals}
           pc == IF todo # {} THEN "reveal" ELSE "read3"
           r == [daemon[m] EXCEPT !.todo = todo, !.pc = pc]
<1>1. CalmDkg
  BY UnchangedIsCalm DEF ReadAfterComplaints
<1>2. UNCHANGED <<active, nextEpoch, penalties, disk, drawn, who>>
  BY DEF ReadAfterComplaints
<1>3. Stop(m) \/ daemon' = [daemon EXCEPT ![m] = r]
  BY Zenon DEF ReadAfterComplaints
<1>4. /\ todo \in SUBSET Members /\ pc \in Pcs /\ pc \in {"reveal", "read3"}
      /\ (pc = "reveal" => todo # {})
  BY DEF Complainers, Pcs
<1> HIDE DEF todo, pc
<1>5. r \in DaemonType /\ r.epoch = daemon[m].epoch /\ r.pc = pc /\ r.todo = todo
  <2>1. daemon[m] \in DaemonType
    BY DEF DkgInv
  <2> QED
    BY Zenon, <1>4, <2>1 DEF DaemonType
<1> HIDE DEF r
<1>6. CASE Stop(m)
  BY <1>1, <1>2, <1>6, StopMoves, CalmStep
<1>7. CASE daemon' = [daemon EXCEPT ![m] = r]
  <2>1. MovesTo(m, r) /\ daemon'[m] = r /\ daemon'[m].epoch < nextEpoch
    BY Zenon, <1>5, <1>7, WorkMoves
  <2>2. DaemonOk(m)'
    BY Zenon, <1>4, <1>5, <2>1 DEF DaemonOk
  <2> QED
    BY <1>1, <1>2, <2>1, <2>2, CalmStep
<1> QED
  BY <1>3, <1>6, <1>7

\* handleDkgReveals, one answer at a time.
LEMMA RevealsStep ==
    ASSUME DkgInv, NEW m \in Members, handleDkgReveals(m), UNCHANGED who
    PROVE  DkgInv'
<1> DEFINE to == MinOf(daemon[m].todo)
           rest == daemon[m].todo \ {to}
           pc == IF rest # {} THEN "reveal" ELSE "read3"
           r == [daemon[m] EXCEPT !.todo = rest, !.pc = pc]
<1>1. /\ daemon[m].pc = "reveal" /\ daemon' = [daemon EXCEPT ![m] = r]
      /\ Send(AcceptsReveal(daemon[m].epoch, m, to, disk[m].poly), DkgShareReveal(m, to))
      /\ UNCHANGED <<active, nextEpoch, penalties, disk, drawn, who>>
  BY Zenon DEF handleDkgReveals, At
<1>2. daemon[m] \in DaemonType /\ daemon[m].todo \in SUBSET Members /\ daemon[m].todo # {}
  BY Zenon, <1>1 DEF DkgInv, DaemonType, DaemonOk
<1>3. to \in Members
  BY <1>2, MinOfIn
<1>4. CalmDkg
  <2>1. \/ <<to, m>> \in dkg.complaints /\ dkg' = DkgShareReveal(m, to)
        \/ UNCHANGED dkg
    BY <1>1 DEF Send, AcceptsReveal
  <2> QED
    BY <1>3, <2>1, RevealIsCalm, UnchangedIsCalm
<1>5. /\ rest \in SUBSET Members /\ pc \in Pcs /\ pc \in {"reveal", "read3"}
      /\ (pc = "reveal" => rest # {})
  BY <1>2 DEF Pcs
<1> HIDE DEF to, rest, pc
<1>6. r \in DaemonType /\ r.epoch = daemon[m].epoch /\ r.pc = pc /\ r.todo = rest
  BY Zenon, <1>2, <1>5 DEF DaemonType
<1> HIDE DEF r
<1>7. MovesTo(m, r) /\ daemon'[m] = r /\ daemon'[m].epoch < nextEpoch
  BY Zenon, <1>1, <1>6, WorkMoves
<1>8. DaemonOk(m)'
  BY Zenon, <1>5, <1>6, <1>7 DEF DaemonOk
<1> QED
  BY <1>1, <1>4, <1>7, <1>8, CalmStep

\* handleDkgAggregate's count: when there are enough shares, they are those of
\* everybody who is still qualified.
LEMMA EnoughIsAll ==
    ASSUME DkgInv, NEW m \in Members, Enough(m)
    PROVE  Qualified(dkg) \subseteq Counted(m) \cup {m}
<1>1. \A d \in Members : <<d, m>> \in dkg.reveals => d # m
  BY DEF DkgInv, DkgOk
<1>2. Counted(m) \subseteq Expected(m) /\ Expected(m) \subseteq Members
  BY Zenon, <1>1 DEF Counted, Expected, Opened, Qualified
<1>3. IsFiniteSet(Expected(m))
  <2>1. IsFiniteSet(Members)
    BY DkgParams, IntervalFinite DEF Members
  <2> QED
    BY <1>2, <2>1, FS_Subset
<1>4. /\ Cardinality(Counted(m)) <= Cardinality(Expected(m))
      /\ Cardinality(Counted(m)) = Cardinality(Expected(m)) => Counted(m) = Expected(m)
  BY <1>2, <1>3, FS_Subset
<1>5. Cardinality(Counted(m)) \in Nat /\ Cardinality(Expected(m)) \in Nat
  BY <1>2, <1>3, FS_Subset, FS_CardinalityType
<1>6. Counted(m) = Expected(m)
  BY <1>4, <1>5 DEF Enough
<1> QED
  BY <1>6 DEF Expected

\* A member whose file is what it committed to fails to open only garbled ciphertexts.
LEMMA UnopenedIsGarbled ==
    ASSUME DkgInv, NEW m \in Members, Loads(m, daemon[m].epoch), InFlight(daemon[m].epoch)
    PROVE  \A d \in Unopened(m) : <<d, m, FALSE>> \in dkg.shares
<1>1. dkg.commits[m] = disk[m].poly
  BY Zenon DEF DkgInv, FileOk, InFlight
<1>2. SUFFICES ASSUME NEW d \in Unopened(m)
               PROVE  <<d, m, FALSE>> \in dkg.shares
  BY Zenon
<1>3. PICK ok \in BOOLEAN : <<d, m, ok>> \in dkg.shares
  BY Zenon DEF Unopened
<1>4. <<d, m, TRUE>> \notin dkg.shares
  BY <1>1 DEF Unopened, Opened
<1>5. CASE ok = TRUE
  BY <1>3, <1>4, <1>5
<1>6. CASE ok = FALSE
  BY Zenon, <1>3, <1>6
<1> QED
  BY Zenon, <1>5, <1>6

\* The last read of a poll.
LEMMA ReadAfterRevealsStep ==
    ASSUME DkgInv, NEW m \in Members, ReadAfterReveals(m), UNCHANGED who
    PROVE  DkgInv'
<1> DEFINE todo == Unopened(m)
           draft == IF Enough(m) THEN Counted(m) \cup {m} ELSE {}
           pc == IF todo # {} THEN "aead" ELSE "saveSum"
           r == [daemon[m] EXCEPT !.todo = todo, !.draft = draft, !.pc = pc]
<1>1. CalmDkg /\ UNCHANGED dkg
  BY UnchangedIsCalm DEF ReadAfterReveals
<1>2. UNCHANGED <<active, nextEpoch, penalties, disk, drawn, who>>
  BY DEF ReadAfterReveals
<1>3. \/ Stop(m) \/ Goto(m, "finalize")
      \/ Loads(m, daemon[m].epoch) /\ daemon' = [daemon EXCEPT ![m] = r]
  BY Zenon DEF ReadAfterReveals
<1>4. /\ todo \in SUBSET Members /\ draft \in SUBSET Members /\ pc \in Pcs
      /\ pc \in {"aead", "saveSum"} /\ (pc = "aead" => todo # {})
  BY Zenon DEF Unopened, Counted, Opened, Pcs
<1>5. draft # {} => Qualified(dkg) \subseteq draft
  BY EnoughIsAll
<1>6. Loads(m, daemon[m].epoch) /\ InFlight(daemon[m].epoch) =>
        \A d \in todo : <<d, m, FALSE>> \in dkg.shares
  BY Zenon, UnopenedIsGarbled
<1> HIDE DEF todo, draft, pc
<1>7. /\ r \in DaemonType /\ r.epoch = daemon[m].epoch /\ r.pc = pc /\ r.todo = todo
      /\ r.draft = draft
  <2>1. daemon[m] \in DaemonType
    BY DEF DkgInv
  <2> QED
    BY Zenon, <1>4, <2>1 DEF DaemonType
<1> HIDE DEF r
<1>8. CASE Stop(m)
  BY <1>1, <1>2, <1>8, StopMoves, CalmStep
<1>9. CASE Goto(m, "finalize")
  <2>1. /\ MovesTo(m, [daemon[m] EXCEPT !.pc = "finalize"]) /\ daemon'[m].epoch < nextEpoch
        /\ daemon'[m].pc = "finalize"
    BY Zenon, <1>9, GotoMoves DEF Pcs
  <2>2. DaemonOk(m)'
    BY <2>1 DEF DaemonOk
  <2> QED
    BY <1>1, <1>2, <2>1, <2>2, CalmStep
<1>10. CASE Loads(m, daemon[m].epoch) /\ daemon' = [daemon EXCEPT ![m] = r]
  <2>1. MovesTo(m, r) /\ daemon'[m] = r /\ daemon'[m].epoch < nextEpoch
    BY Zenon, <1>7, <1>10, WorkMoves
  <2>2. disk'[m].epoch = daemon'[m].epoch
    BY <1>2, <1>7, <1>10, <2>1 DEF Loads, has
  <2>3. InFlight(daemon[m].epoch)' => InFlight(daemon[m].epoch)
    BY <1>1, <1>7, <2>1 DEF InFlight
  <2>4. InFlight(daemon[m].epoch)' => \A d \in daemon'[m].todo : <<d, m, FALSE>> \in dkg'.shares
    BY Zenon, <1>1, <1>6, <1>7, <1>10, <2>1, <2>3
  <2>5. daemon'[m].draft # {} => Qualified(dkg)' \subseteq daemon'[m].draft
    BY <1>1, <1>5, <1>7, <2>1 DEF Qualified
  <2>6. DaemonOk(m)'
    BY Zenon, <1>4, <1>7, <2>1, <2>2, <2>4, <2>5 DEF DaemonOk
  <2> QED
    BY <1>1, <1>2, <2>1, <2>6, CalmStep
<1> QED
  BY <1>3, <1>8, <1>9, <1>10

\* collectEncryptedShareScalars: a complaint that is accepted slashes a garbler, and
\* never the member that complains.
LEMMA BadSharesStep ==
    ASSUME DkgInv, NEW m \in Members, complainAEADBad(m), UNCHANGED who
    PROVE  DkgInv'
<1> DEFINE d == MinOf(daemon[m].todo)
           rest == daemon[m].todo \ {d}
           pc == IF rest # {} THEN "aead" ELSE "saveSum"
           r == [daemon[m] EXCEPT !.todo = rest, !.pc = pc]
           ok == AcceptsComplaint(daemon[m].epoch, m, d) /\ dkg.commits[m] = disk[m].poly
<1>1. /\ daemon[m].pc = "aead" /\ daemon' = [daemon EXCEPT ![m] = r]
      /\ Send(ok, DkgComplaintAEADBad(m, d))
      /\ penalties' = Penalise(dkg'.slashed)
      /\ UNCHANGED <<active, nextEpoch, disk, drawn>>
  BY Zenon DEF complainAEADBad, At
<1>2. /\ daemon[m] \in DaemonType /\ daemon[m].todo \in SUBSET Members /\ daemon[m].todo # {}
      /\ DaemonOk(m)
  BY Zenon, <1>1 DEF DkgInv, DaemonType, DaemonOk
<1>3. d \in daemon[m].todo /\ d \in Members
  BY <1>2, MinOfIn
<1>4. \/ /\ ok /\ dkg' = DkgComplaintAEADBad(m, d)
      \/ UNCHANGED dkg
  BY <1>1 DEF Send
<1>5. /\ DkgOk' /\ dkg'.epoch = dkg.epoch /\ dkg.slashed \subseteq dkg'.slashed
      /\ dkg.shares \subseteq dkg'.shares
      /\ dkg'.slashed \in SUBSET Members
      /\ \A n \in Members : KeepsFor(n)
      /\ dkg.epoch = 0 => UNCHANGED dkg
  <2>1. CASE ok /\ dkg' = DkgComplaintAEADBad(m, d)
    <3>1. InFlight(daemon[m].epoch) /\ m # d
      BY Zenon, <2>1 DEF AcceptsComplaint
    <3>2. <<d, m, FALSE>> \in dkg.shares
      BY Zenon, <1>1, <1>2, <1>3, <3>1 DEF DaemonOk
    <3>3. /\ DkgOk' /\ dkg'.epoch = dkg.epoch /\ dkg'.slashed = dkg.slashed \cup {d}
          /\ \A n \in Members : KeepsFor(n)
      BY Zenon, <1>3, <2>1, <3>1, <3>2, BadShareKeeps
    <3>4. dkg'.slashed \in SUBSET Members
      BY <3>3 DEF DkgOk, DkgType
    <3>5. dkg'.shares = dkg.shares
      BY <2>1 DEF DkgComplaintAEADBad, DkgInv, DkgOk, DkgType
    <3>6. dkg.epoch # 0
      BY <3>1 DEF InFlight
    <3> QED
      BY Zenon, <3>3, <3>4, <3>5, <3>6
  <2>2. CASE UNCHANGED dkg
    BY Zenon, <2>2, UnchangedIsCalm DEF CalmDkg, DkgInv, DkgOk, DkgType
  <2> QED
    BY Zenon, <1>4, <2>1, <2>2
<1>6. PenaltiesOk'
  <2>1. CASE dkg.epoch = 0
    <3>1. penalties \in [Members -> {0, 1}]
      BY DEF DkgInv, PenaltiesOk
    <3>2. penalties' = [n \in Members |-> penalties[n] + 0]
      BY <1>1, <1>5, <2>1 DEF Penalise
    <3>3. \A n \in Members : penalties[n] + 0 \in {0, 1}
      BY <3>1
    <3> QED
      BY <1>5, <2>1, <3>2, <3>3 DEF PenaltiesOk
  <2>2. CASE dkg.epoch # 0
    BY <1>1, <1>5, <2>2, PenaltiesKeep DEF PenaltiesOk
  <2> QED
    BY <2>1, <2>2
<1>7. /\ rest \in SUBSET Members /\ pc \in Pcs /\ pc \in {"aead", "saveSum"}
      /\ (pc = "aead" => rest # {}) /\ rest \subseteq daemon[m].todo
  BY <1>2 DEF Pcs
<1> HIDE DEF d, rest, pc, ok
<1>8. /\ r \in DaemonType /\ r.epoch = daemon[m].epoch /\ r.pc = pc /\ r.todo = rest
      /\ r.draft = daemon[m].draft
  BY Zenon, <1>2, <1>7 DEF DaemonType
<1> HIDE DEF r
<1>9. MovesTo(m, r) /\ daemon'[m] = r /\ daemon'[m].epoch < nextEpoch
  BY Zenon, <1>1, <1>8, WorkMoves
<1>10. DaemonOk(m)'
  <2>1. InFlight(daemon[m].epoch)' => InFlight(daemon[m].epoch)
    BY Zenon, <1>5, <1>8, <1>9 DEF InFlight
  <2>2. disk'[m].epoch = daemon'[m].epoch
    BY Zenon, <1>1, <1>2, <1>8, <1>9 DEF DaemonOk
  <2>3. InFlight(daemon[m].epoch)' => \A x \in daemon'[m].todo : <<x, m, FALSE>> \in dkg'.shares
    BY Zenon, <1>1, <1>2, <1>5, <1>7, <1>8, <1>9, <2>1 DEF DaemonOk
  <2>4. InFlight(daemon[m].epoch)' /\ daemon'[m].draft # {} => Qualified(dkg)' \subseteq daemon'[m].draft
    BY Zenon, <1>1, <1>2, <1>5, <1>8, <1>9, <2>1 DEF DaemonOk, Qualified
  <2> QED
    BY Zenon, <1>7, <1>8, <1>9, <2>2, <2>3, <2>4 DEF DaemonOk
<1>11. \A n \in Members : FileOk(n)'
  BY Zenon, <1>1, <1>5, FileKeeps
<1>12. \A n \in Members \ {m} : DaemonOk(n)'
  BY Zenon, <1>1, <1>5, <1>9, DaemonKeeps DEF MovesTo
<1>13. EpochsOk'
  BY Zenon, <1>1, <1>5, <1>9 DEF DkgInv, EpochsOk, MovesTo
<1>14. QualifiedIffAnswered'
  BY Zenon, <1>1 DEF DkgInv, QualifiedIffAnswered, Garblers
<1> QED
  BY Zenon, <1>1, <1>5, <1>6, <1>9, <1>10, <1>11, <1>12, <1>13, <1>14
     DEF DkgInv, MovesTo

\* A step that writes one file and leaves the chain alone.
LEMMA FileStep ==
    ASSUME DkgInv, NEW m \in Members, NEW r, MovesTo(m, r), daemon'[m].epoch < nextEpoch,
           DaemonOk(m)', NEW f \in FileType, f.epoch < nextEpoch,
           disk' = [disk EXCEPT ![m] = f], FileOk(m)',
           UNCHANGED <<dkg, active, nextEpoch, penalties, drawn, who>>
    PROVE  DkgInv'
<1>1. disk' \in [Members -> FileType] /\ disk'[m] = f /\ \A n \in Members \ {m} : disk'[n] = disk[n]
  BY Zenon DEF DkgInv
<1>2. CalmDkg
  BY Zenon, UnchangedIsCalm
<1>3. \A n \in Members \ {m} : FileOk(n)' /\ DaemonOk(n)'
  BY Zenon, <1>1, <1>2, FileKeeps, DaemonKeeps DEF MovesTo, CalmDkg
<1>4. PenaltiesOk'
  BY Zenon DEF DkgInv, PenaltiesOk
<1>5. EpochsOk'
  BY <1>1 DEF DkgInv, EpochsOk, MovesTo
<1>6. QualifiedIffAnswered'
  BY Zenon DEF DkgInv, QualifiedIffAnswered, Garblers
<1> QED
  BY <1>1, <1>2, <1>3, <1>4, <1>5, <1>6 DEF DkgInv, MovesTo, CalmDkg

\* handleDkgAggregate saves a sum that covers everybody still qualified.
LEMMA SaveSumStep ==
    ASSUME DkgInv, NEW m \in Members, SaveSum(m), UNCHANGED who
    PROVE  DkgInv'
<1>1. /\ daemon[m].pc = "saveSum" /\ UNCHANGED <<dkg, active, nextEpoch, penalties, drawn>>
      /\ \/ Stop(m) /\ UNCHANGED disk
         \/ /\ daemon[m].draft # {} /\ Goto(m, "finalize")
            /\ disk' = [disk EXCEPT ![m] = [disk[m] EXCEPT !.sum = daemon[m].draft]]
  BY DEF SaveSum, At
<1>2. CASE Stop(m) /\ UNCHANGED disk
  BY <1>1, <1>2, UnchangedIsCalm, StopMoves, CalmStep
<1>3. CASE /\ daemon[m].draft # {} /\ Goto(m, "finalize")
           /\ disk' = [disk EXCEPT ![m] = [disk[m] EXCEPT !.sum = daemon[m].draft]]
  <2> DEFINE f == [disk[m] EXCEPT !.sum = daemon[m].draft]
  <2>1. /\ MovesTo(m, [daemon[m] EXCEPT !.pc = "finalize"]) /\ daemon'[m].epoch < nextEpoch
        /\ daemon'[m].pc = "finalize"
    BY Zenon, <1>3, GotoMoves DEF Pcs
  <2>2. DaemonOk(m)'
    BY <2>1 DEF DaemonOk
  <2>3. /\ disk[m] \in FileType /\ daemon[m].draft \in SUBSET Members /\ disk[m].epoch < nextEpoch
        /\ disk \in [Members -> FileType]
    BY DEF DkgInv, DaemonType, EpochsOk
  <2>4. /\ f \in FileType /\ f.epoch = disk[m].epoch /\ f.poly = disk[m].poly
        /\ f.sum = daemon[m].draft
    BY <2>3 DEF FileType
  <2>5. disk' = [disk EXCEPT ![m] = f]
    BY <1>3
  <2> HIDE DEF f
  <2>6. FileOk(m)'
    <3>1. disk'[m] = f
      BY <2>3, <2>5
    <3>2. Loads(m, dkg.epoch)' => Loads(m, dkg.epoch)
      BY <1>1, <2>4, <3>1 DEF Loads, has
    <3>3. FileOk(m) /\ DaemonOk(m)
      BY DEF DkgInv
    <3>4. Loads(m, dkg.epoch) /\ dkg.epoch # 0 => Qualified(dkg) \subseteq daemon[m].draft
      BY <1>1, <1>3, <3>3 DEF DaemonOk, Loads, has, InFlight
    <3> QED
      BY <1>1, <2>4, <3>1, <3>2, <3>3, <3>4 DEF FileOk, Qualified
  <2> QED
    BY Zenon, <1>1, <2>1, <2>2, <2>3, <2>4, <2>5, <2>6, FileStep
<1> QED
  BY <1>1, <1>2, <1>3

\* The last request of a poll.
LEMMA FinalizeStep ==
    ASSUME DkgInv, NEW m \in Members, FinalizeEpoch(m), UNCHANGED who
    PROVE  DkgInv'
<1>1. /\ Stop(m) /\ UNCHANGED <<nextEpoch, disk, drawn>>
      /\ \/ InFlight(daemon[m].epoch) /\ finalizeEpoch({})
         \/ UNCHANGED <<dkg, active, penalties>>
  BY DEF FinalizeEpoch
<1>2. MovesTo(m, Idle) /\ daemon'[m].epoch < nextEpoch /\ DaemonOk(m)'
  BY Zenon, <1>1, StopMoves
<1>3. CASE UNCHANGED <<dkg, active, penalties>>
  BY <1>1, <1>2, <1>3, UnchangedIsCalm, CalmStep
<1>4. CASE InFlight(daemon[m].epoch) /\ finalizeEpoch({})
  <2>1. dkg.epoch # 0
    BY <1>4 DEF InFlight
  <2>2. dkg' = NoDkg /\ penalties' \in [Members -> {0, 1}] /\ QualifiedIffAnswered'
    BY Zenon, <1>4, <2>1, FinalizeKeeps
  <2>3. DkgOk' /\ dkg'.epoch = 0
    BY <2>2, EndKeeps
  <2>4. \A n \in Members : KeepsFor(n)
    BY <2>3 DEF KeepsFor
  <2>5. PenaltiesOk'
    BY <2>2, <2>3 DEF PenaltiesOk
  <2>6. EpochsOk'
    BY <1>1, <1>2, <2>3 DEF DkgInv, EpochsOk, MovesTo
  <2>7. \A n \in Members : FileOk(n)'
    BY Zenon, <1>1, <2>4, FileKeeps
  <2>8. \A n \in Members \ {m} : DaemonOk(n)'
    BY Zenon, <1>1, <1>2, <2>4, DaemonKeeps DEF MovesTo
  <2> QED
    BY <1>1, <1>2, <2>2, <2>3, <2>5, <2>6, <2>7, <2>8 DEF DkgInv, MovesTo
<1> QED
  BY <1>1, <1>3, <1>4

\* A crash leaves the file that was there, or one that cannot be read.
LEMMA CrashStep ==
    ASSUME DkgInv, NEW m \in Members, Crash(m), UNCHANGED who
    PROVE  DkgInv'
<1> DEFINE f == [epoch |-> daemon[m].epoch, poly |-> Torn, sum |-> {}]
<1>1. /\ Stop(m) /\ UNCHANGED <<dkg, active, nextEpoch, penalties, drawn>>
      /\ UNCHANGED disk \/ disk' = [disk EXCEPT ![m] = f]
  BY Zenon DEF Crash
<1>2. MovesTo(m, Idle) /\ daemon'[m].epoch < nextEpoch /\ DaemonOk(m)'
  BY Zenon, <1>1, StopMoves
<1>3. CASE UNCHANGED disk
  BY Zenon, <1>1, <1>2, <1>3, UnchangedIsCalm, CalmStep
<1>4. CASE disk' = [disk EXCEPT ![m] = f]
  <2>1. disk \in [Members -> FileType] /\ daemon[m].epoch < nextEpoch /\ daemon[m].epoch \in Nat
    BY DEF DkgInv, EpochsOk, DaemonType
  <2>2. f \in FileType /\ f.epoch < nextEpoch /\ f.poly = Torn
    <3>1. Torn \in Int
      BY DEF Torn
    <3> QED BY Zenon, <2>1, <3>1 DEF FileType
  <2> HIDE DEF f
  <2>3. FileOk(m)'
    BY Zenon, <1>4, <2>1, <2>2 DEF FileOk, Loads
  <2> QED
    BY Zenon, <1>1, <1>2, <1>4, <2>2, <2>3, FileStep
<1> QED
  BY Zenon, <1>1, <1>3, <1>4

-----------------------------------------------------------------------------
(* The theorems. *)

\* The chain and the daemons start as they must be.
LEMMA DkgInitOk == DkgInit => DkgInv
<1> SUFFICES ASSUME DkgInit
             PROVE  DkgInv
  OBVIOUS
<1>1. /\ dkg = NoDkg /\ active = [id |-> 0, qual |-> {}, transcript |-> NoDkg]
      /\ nextEpoch = 1 /\ penalties = [m \in Members |-> 0]
      /\ daemon = [m \in Members |-> Idle] /\ disk = [m \in Members |-> NoFile]
      /\ drawn = [m \in Members |-> 0]
  BY Zenon DEF DkgInit, DkgStart
<1>2. NoDkg \in DkgType
  BY Zenon DEF NoDkg, DkgType
<1>3. DkgOk
  BY Zenon, <1>1, <1>2 DEF DkgOk, NoDkg
<1>4. PenaltiesOk
  BY <1>1 DEF PenaltiesOk, NoDkg
<1>5. daemon \in [Members -> DaemonType] /\ disk \in [Members -> FileType]
  BY <1>1 DEF DaemonType, FileType, Idle, NoFile, Pcs
<1>6. EpochsOk
  BY <1>1 DEF EpochsOk, NoDkg, Idle, NoFile
<1>7. \A m \in Members : DaemonOk(m)
  BY Zenon, <1>1 DEF DaemonOk, Idle
<1>8. \A m \in Members : FileOk(m)
  BY Zenon, <1>1 DEF FileOk, NoDkg
<1>9. QualifiedIffAnswered
  BY <1>1 DEF QualifiedIffAnswered
<1> QED
  BY <1>1, <1>3, <1>4, <1>5, <1>6, <1>7, <1>8, <1>9 DEF DkgInv

\* Every step of the chain and of a daemon keeps them so.
LEMMA DkgNextOk == DkgInv /\ [DkgNext]_dkgVars => DkgInv'
<1> SUFFICES ASSUME DkgInv, [DkgNext]_dkgVars
             PROVE  DkgInv'
  OBVIOUS
<1>1. CASE UNCHANGED dkgVars
  BY Zenon, <1>1
     DEF dkgVars, DkgInv, DkgOk, PenaltiesOk, EpochsOk, DaemonOk, FileOk,
     QualifiedIffAnswered, Garblers, InFlight, Loads, has, Qualified
<1>2. CASE Chain
  BY <1>2, BlockStep, TimeoutStep, InvalidStep DEF Chain
<1>3. CASE \E m \in Members : Step(m) \/ (Crash(m) /\ UNCHANGED who)
  <2>1. PICK m \in Members : Step(m) \/ (Crash(m) /\ UNCHANGED who)
    BY <1>3
  <2>2. CASE Crash(m) /\ UNCHANGED who
    BY <2>2, CrashStep
  <2>3. CASE Step(m)
    BY <2>3, PollStep, BeginStep, CommitStep, SavePolyStep, ReadAfterCommitStep, SharesStep,
       ComplaintsStep, ReadAfterComplaintsStep, RevealsStep, ReadAfterRevealsStep,
       BadSharesStep, SaveSumStep, FinalizeStep DEF Step
  <2> QED
    BY <2>1, <2>2, <2>3
<1> QED
  BY <1>1, <1>2, <1>3 DEF DkgNext

\* Whatever crashes, is torn or lost: the polynomial that a daemon has on disk is the
\* one that the chain checks its shares against, and the secret share on disk lacks no
\* dealer that is still qualified (handleDkgCommit, handleDkgAggregate).
THEOREM FilesAlwaysMatch == DkgSpec => []FilesMatchChain
<1>1. DkgInv => FilesMatchChain
  BY Zenon
     DEF DkgInv, FileOk, FilesMatchChain, SavedPolyIsCommitted, SumCoversQualified
<1> QED
  BY DkgInitOk, DkgNextOk, <1>1, PTL DEF DkgSpec

\* finalizeEpoch leaves out whoever has no commitment or an unanswered complaint, and
\* nobody else but those who were proved to have sent wrong shares; it takes in enough members to
\* decrypt; and applyPenalty strikes nobody twice for one DKG.
THEOREM DkgAlwaysFair == DkgSpec => []DkgIsFair
<1>1. DkgInv => DkgIsFair
  <2> SUFFICES ASSUME DkgInv, NEW m \in Members
               PROVE  penalties[m] <= 1
    BY DEF DkgInv, DkgIsFair, PenalisedOnce
  <2>1. penalties[m] \in {0, 1}
    BY DEF DkgInv, PenaltiesOk
  <2> QED
    BY <2>1
<1> QED
  BY DkgInitOk, DkgNextOk, <1>1, PTL DEF DkgSpec

-----------------------------------------------------------------------------
(* The beacon: nobody commits once salts are out, and no window that can be *)
(* consumed is lost. *)

SizeType == [commit : Nat \ {0}, reveal : Nat \ {0}, quota : Nat \ {0, 1}]

WindowType ==
  [epoch : Nat, age : Nat, size : SizeType, commits : SUBSET Validators,
   reveals : SUBSET Validators, final : BOOLEAN]

PollType ==
  [pc : {"idle", "commit", "reveal", "begin"}, target : Nat, inReveal : BOOLEAN,
   covered : BOOLEAN, down : BOOLEAN]

EpochsType == [epoch : Nat, next : Nat, dkg : Nat]

SpentType == [lost : Nat, aborts : Nat, manual : Nat, unbonded : Nat]

TypeInv ==
  /\ window \in WindowType
  /\ polls \in [Validators -> PollType]
  /\ epochs \in EpochsType

\* A window with reveals is past its commits and is some epoch's.
RevealsLate(w) == w.reveals # {} => w.age > CommitClose(w) /\ w.epoch # 0

\* All that a daemon sends is for some epoch.
FairInv ==
  /\ TypeInv /\ RevealsLate(window)
  /\ \A v \in Validators : polls[v].pc \in {"commit", "reveal"} => polls[v].target # 0

\* What one step may do to a window.
WindowStep(w, x) ==
  /\ (w.reveals # {} /\ x.reveals # {}) => x.commits = w.commits
  /\ (~w.final /\ Usable(w)) => x.epoch = w.epoch /\ w.reveals \subseteq x.reveals

\* The phases of a window follow each other.
LEMMA PhaseFact ==
  ASSUME NEW w \in WindowType
  PROVE  /\ CommitClose(w) \in Nat /\ RevealClose(w) \in Nat /\ CommitClose(w) < RevealClose(w)
         /\ w.age \in Nat
         /\ Phase(w) = "commit" <=> w.age <= CommitClose(w)
         /\ Phase(w) = "reveal" <=> w.age > CommitClose(w) /\ w.age <= RevealClose(w)
         /\ Phase(w) = "closed" <=> w.age > RevealClose(w)
  <1>1. /\ w.size \in SizeType /\ w.age \in Nat
    BY DEF WindowType
  <1>2. w.size.commit \in Nat /\ w.size.reveal \in Nat /\ w.size.reveal # 0
    BY <1>1 DEF SizeType
  <1>3. CommitClose(w) \in Nat /\ RevealClose(w) \in Nat /\ CommitClose(w) < RevealClose(w)
    BY <1>2 DEF CommitClose, RevealClose
  <1> QED BY <1>1, <1>3 DEF Phase

\* A window that BeginEpoch can use has reveals.
LEMMA UsableHasReveals ==
  ASSUME NEW w \in WindowType, Usable(w)
  PROVE  w.reveals # {}
  <1>1. w.size.quota \in Nat /\ w.size.quota # 0
    BY DEF WindowType, SizeType
  <1> QED BY <1>1, FS_EmptySet DEF Usable

\* A new window is one, with no commits and no reveals.
LEMMA FreshWindowType ==
  ASSUME NEW epoch \in Nat, NEW size \in SizeType
  PROVE  /\ FreshWindow(epoch, size) \in WindowType
         /\ FreshWindow(epoch, size).reveals = {} /\ FreshWindow(epoch, size).commits = {}
  <1>1. Default \in SizeType
    BY BeaconParams DEF SizeType
  <1>2. NoWindow \in WindowType /\ NoWindow.reveals = {} /\ NoWindow.commits = {}
    BY Zenon, <1>1 DEF NoWindow, WindowType
  <1> QED BY Zenon, <1>2 DEF FreshWindow, WindowType

\* A window is overwritten only if it has no reveals, too few, or is consumed.
LEMMA OverwriteIsFair ==
  ASSUME NEW w \in WindowType, NEW upgraded, ~Protected(w, upgraded), RevealsLate(w),
         NEW epoch \in Nat, NEW size \in SizeType
  PROVE  /\ FreshWindow(epoch, size) \in WindowType /\ RevealsLate(FreshWindow(epoch, size))
         /\ WindowStep(w, FreshWindow(epoch, size))
  <1>1. ~(~w.final /\ Usable(w))
    BY UsableHasReveals DEF Protected, Pending, RevealsLate
  <1> QED BY Zenon, <1>1, FreshWindowType DEF WindowStep, RevealsLate

\* A transaction of a daemon keeps the window fair.
LEMMA SubmitIsFair ==
  ASSUME FairInv, NEW accepted, NEW result, Submit(accepted, result),
         accepted => result \in WindowType /\ WindowStep(window, result) /\ RevealsLate(result)
  PROVE  window' \in WindowType /\ WindowStep(window, window') /\ RevealsLate(window')
  <1>1. ASSUME UNCHANGED window
        PROVE  window' \in WindowType /\ WindowStep(window, window') /\ RevealsLate(window')
    BY Zenon, <1>1 DEF FairInv, TypeInv, RevealsLate, WindowStep
  <1> QED BY <1>1 DEF Submit

\* BeginEpoch consumes a window and changes nothing else in it.
LEMMA BeginIsFair ==
  ASSUME FairInv, EpochBegins
  PROVE  /\ window' \in WindowType /\ WindowStep(window, window') /\ RevealsLate(window')
         /\ window'.age = window.age /\ window'.epoch = window.epoch /\ window'.size = window.size
         /\ window'.commits = window.commits /\ window'.reveals = window.reveals
         /\ epochs' \in EpochsType
         /\ epochs'.epoch = epochs.epoch /\ epochs'.next = epochs.next + 1
         /\ epochs'.dkg = epochs.next
  <1>1. window \in WindowType /\ epochs \in EpochsType /\ RevealsLate(window)
    BY DEF FairInv, TypeInv
  <1>2. /\ epochs' \in EpochsType
        /\ epochs'.epoch = epochs.epoch /\ epochs'.next = epochs.next + 1
        /\ epochs'.dkg = epochs.next
    <2> DEFINE n == epochs.next + 1
    <2>1. epochs' = [epochs EXCEPT !.dkg = epochs.next, !.next = n] /\ n \in Nat
      BY <1>1 DEF EpochBegins, EpochsType
    <2> HIDE DEF n
    <2>2. epochs' \in EpochsType /\ epochs'.next = n /\ epochs'.dkg = epochs.next
          /\ epochs'.epoch = epochs.epoch
      BY Zenon, <1>1, <2>1 DEF EpochsType
    <2> QED BY <2>2 DEF n
  <1>3. /\ window' \in WindowType
        /\ window'.age = window.age /\ window'.epoch = window.epoch /\ window'.size = window.size
        /\ window'.commits = window.commits /\ window'.reveals = window.reveals
    <2>1. CASE window' = window
      BY <1>1, <2>1
    <2>2. CASE window' = [window EXCEPT !.final = TRUE]
      BY Zenon, <1>1, <2>2 DEF WindowType
    <2> QED BY <2>1, <2>2 DEF EpochBegins
  <1>4. WindowStep(window, window') /\ RevealsLate(window')
    BY Zenon, <1>1, <1>3 DEF WindowStep, RevealsLate, CommitClose
  <1> QED BY Zenon, <1>2, <1>3, <1>4

\* A daemon's step.
LEMMA DaemonIsFair ==
  ASSUME FairInv, NEW v \in Validators, DaemonStep(v)
  PROVE  FairInv' /\ WindowStep(window, window')
  <1> DEFINE WindowFair ==
        window' \in WindowType /\ WindowStep(window, window') /\ RevealsLate(window')
             PollFits(p) == p \in PollType /\ (p.pc \in {"commit", "reveal"} => p.target # 0)
  <1>1. /\ window \in WindowType /\ polls \in [Validators -> PollType]
        /\ epochs \in EpochsType /\ RevealsLate(window)
        /\ \A x \in Validators : PollFits(polls[x])
    BY Zenon DEF FairInv, TypeInv
  <1>2. ASSUME UNCHANGED window PROVE WindowFair
    BY Zenon, <1>1, <1>2 DEF WindowStep, RevealsLate
  <1>3. ASSUME NEW p, PollFits(p), polls' = [polls EXCEPT ![v] = p]
        PROVE  polls' \in [Validators -> PollType] /\ \A x \in Validators : PollFits(polls'[x])
    BY Zenon, <1>1, <1>3
  <1>4. ASSUME WindowFair, NEW p, PollFits(p), polls' = [polls EXCEPT ![v] = p],
               epochs' \in EpochsType
        PROVE  FairInv' /\ WindowStep(window, window')
    BY Zenon, <1>3, <1>4 DEF FairInv, TypeInv, RevealsLate, CommitClose
  <1>5. ASSUME NEW pc \in {"idle", "reveal", "begin"}, pc = "reveal" => polls[v].target # 0
        PROVE  PollFits([polls[v] EXCEPT !.pc = pc])
    BY <1>1, <1>5 DEF PollType
  <1> HIDE DEF WindowFair, PollFits
  <1>6. CASE ReadEpoch(v)
    <2> DEFINE n == epochs.epoch + 1
               b == Phase(window) = "reveal"
               p == [polls[v] EXCEPT !.pc = "commit", !.target = n, !.inReveal = b]
    <2>1. polls' = [polls EXCEPT ![v] = p] /\ UNCHANGED <<window, epochs>>
      BY <1>6 DEF ReadEpoch
    <2>2. n \in Nat /\ n # 0
      BY <1>1 DEF EpochsType
    <2>3. b \in BOOLEAN
      BY Zenon
    <2> HIDE DEF n, b
    <2>4. PollFits(p)
      BY Zenon, <1>1, <2>2, <2>3 DEF PollType, PollFits
    <2> HIDE DEF p
    <2> QED BY Zenon, <1>1, <1>2, <1>4, <2>1, <2>4
  <1>7. CASE SendCommit(v)
    <2> DEFINE w == BeaconCommit(v)
    <2>1. ASSUME AcceptsBeaconCommit(v, polls[v].target)
          PROVE  w \in WindowType /\ WindowStep(window, w) /\ RevealsLate(w)
      <3>1. window.age <= CommitClose(window) /\ window.age \in Nat /\ CommitClose(window) \in Nat
        BY Zenon, <1>1, <2>1, PhaseFact DEF AcceptsBeaconCommit
      <3>2. window.reveals = {}
        BY <1>1, <3>1 DEF RevealsLate
      <3>3. window.commits \cup {v} \in SUBSET Validators
        BY <1>1 DEF WindowType
      <3>4. w \in WindowType /\ w.reveals = window.reveals /\ w.epoch = window.epoch
        BY Zenon, <1>1, <3>3 DEF BeaconCommit, WindowType
      <3>5. ~Usable(window)
        BY Zenon, <1>1, <3>2, UsableHasReveals
      <3> QED BY Zenon, <3>2, <3>4, <3>5 DEF WindowStep, RevealsLate
    <2>2. Submit(AcceptsBeaconCommit(v, polls[v].target), w) /\ UNCHANGED epochs
      BY <1>7 DEF SendCommit
    <2>3. WindowFair
      BY Zenon, <2>1, <2>2, SubmitIsFair DEF WindowFair
    <2>4. polls' = [polls EXCEPT ![v] = [polls[v] EXCEPT !.pc = "reveal"]] /\ polls[v].target # 0
      BY <1>1, <1>7 DEF SendCommit, PollFits
    <2> QED BY Zenon, <1>1, <1>4, <1>5, <2>2, <2>3, <2>4
  <1>8. CASE SendReveal(v)
    <2> DEFINE w == BeaconReveal(v)
               pc == IF epochs.epoch = 0 /\ epochs.dkg = 0 THEN "begin" ELSE "idle"
               c == polls[v].covered \/ Heard(v)
               p == [polls[v] EXCEPT !.pc = pc, !.target = 0, !.inReveal = FALSE, !.covered = c]
    <2>1. polls[v].pc = "reveal" /\ polls[v].target # 0
      BY <1>1, <1>8 DEF SendReveal, PollFits
    <2>2. ASSUME AcceptsBeaconReveal(v, polls[v].target)
          PROVE  w \in WindowType /\ WindowStep(window, w) /\ RevealsLate(w)
      <3>1. window.age > CommitClose(window) /\ window.epoch # 0
        BY Zenon, <1>1, <2>1, <2>2, PhaseFact DEF AcceptsBeaconReveal
      <3>2. window.reveals \cup {v} \in SUBSET Validators
        BY <1>1 DEF WindowType
      <3>3. /\ w \in WindowType /\ w.reveals = window.reveals \cup {v} /\ w.size = window.size
            /\ w.commits = window.commits /\ w.age = window.age /\ w.epoch = window.epoch
        BY Zenon, <1>1, <3>2 DEF BeaconReveal, WindowType
      <3> QED BY Zenon, <3>1, <3>3 DEF WindowStep, RevealsLate, CommitClose
    <2>3. Submit(AcceptsBeaconReveal(v, polls[v].target), w) /\ UNCHANGED epochs
      BY <1>8 DEF SendReveal
    <2>4. WindowFair
      BY Zenon, <2>2, <2>3, SubmitIsFair DEF WindowFair
    <2>5. polls' = [polls EXCEPT ![v] = p]
      BY Zenon, <1>8 DEF SendReveal
    <2>6. pc \in {"idle", "begin"} /\ c \in BOOLEAN
      BY Zenon
    <2> HIDE DEF pc, c
    <2>7. PollFits(p)
      BY Zenon, <1>1, <2>6 DEF PollType, PollFits
    <2> HIDE DEF p
    <2> QED BY Zenon, <1>1, <1>4, <2>3, <2>4, <2>5, <2>7
  <1>9. CASE BeginByDaemon(v)
    <2>1. polls' = [polls EXCEPT ![v] = [polls[v] EXCEPT !.pc = "idle"]]
      BY <1>1, <1>9 DEF BeginByDaemon
    <2>2. ASSUME EpochBegins
          PROVE  WindowFair /\ epochs' \in EpochsType
      BY Zenon, <2>2, BeginIsFair DEF WindowFair
    <2>3. WindowFair /\ epochs' \in EpochsType
      BY <1>1, <1>2, <1>9, <2>2 DEF BeginByDaemon
    <2> QED BY Zenon, <1>4, <1>5, <2>1, <2>3
  <1> QED BY <1>6, <1>7, <1>8, <1>9 DEF DaemonStep

\* With a new window, what the daemons did in the last is forgotten, and nothing else.
LEMMA PollForgets ==
  ASSUME FairInv, polls' = NewPolls, NEW v \in Validators
  PROVE  /\ polls'[v] \in PollType
         /\ polls'[v].pc = polls[v].pc /\ polls'[v].target = polls[v].target
         /\ polls'[v].inReveal = FALSE /\ polls'[v].covered = FALSE
  <1>1. polls[v] \in PollType /\ polls'[v] = [polls[v] EXCEPT !.inReveal = FALSE, !.covered = FALSE]
    BY Zenon DEF FairInv, TypeInv, NewPolls
  <1> QED BY Zenon, <1>1 DEF PollType

\* So the polls keep their type, and a poll under way keeps the epoch it works for.
LEMMA PollsForget ==
  ASSUME FairInv, polls' = NewPolls
  PROVE  /\ polls' \in [Validators -> PollType]
         /\ \A v \in Validators : polls'[v].pc \in {"commit", "reveal"} => polls'[v].target # 0
  <1>1. polls' \in [Validators -> PollType]
    <2>1. polls' = [v \in Validators |-> polls'[v]]
      BY Zenon DEF NewPolls
    <2> QED BY Zenon, <2>1, PollForgets
  <1> QED BY Zenon, <1>1, PollForgets DEF FairInv

\* A block makes the window older, or it is replaced by a new one.
LEMMA HeightWindow ==
  ASSUME FairInv, NextHeight
  PROVE  /\ UNCHANGED <<epochs, unbonded, fines, spent>>
         /\ \/ /\ window' \in WindowType /\ window'.age >= window.age
               /\ window'.epoch = window.epoch /\ window'.size = window.size
               /\ window'.commits = window.commits /\ window'.reveals = window.reveals
               /\ window'.final = window.final
               /\ polls' = polls
            \/ /\ window' \in WindowType /\ window'.commits = {} /\ window'.reveals = {}
               /\ RevealsLate(window') /\ WindowStep(window, window')
               /\ polls' = NewPolls
  <1> DEFINE n == IF window.epoch = 0 \/ Phase(window) = "closed" THEN window.age ELSE window.age + 1
             aged == [window EXCEPT !.age = n]
  <1>1. /\ window \in WindowType /\ epochs.next \in Nat /\ RevealsLate(window)
        /\ CommitClose(window) \in Nat /\ window.age \in Nat
    BY PhaseFact DEF FairInv, TypeInv, EpochsType
  <1>2. n \in Nat /\ n >= window.age
    BY <1>1
  <1>3. PICK upgraded \in BOOLEAN :
          /\ window' = MaybeAutoOpenBeacon(aged, upgraded)
          /\ polls' = IF window' # aged THEN NewPolls ELSE polls
    BY Zenon DEF NextHeight
  <1>4. UNCHANGED <<epochs, unbonded, fines, spent>>
    BY Zenon DEF NextHeight
  <1> HIDE DEF n
  <1>5. /\ aged \in WindowType /\ aged.reveals = window.reveals /\ aged.commits = window.commits
        /\ aged.epoch = window.epoch /\ aged.final = window.final /\ aged.age = n
        /\ aged.size = window.size
    BY Zenon, <1>1, <1>2 DEF WindowType
  <1> HIDE DEF aged
  <1>6. CASE window' = aged
    BY <1>2, <1>3, <1>4, <1>5, <1>6
  <1>7. CASE window' # aged
    <2>1. window' = FreshWindow(epochs.next, Default) /\ ~Protected(aged, upgraded)
      BY Zenon, <1>3, <1>7 DEF MaybeAutoOpenBeacon
    <2>2. Default \in SizeType
      BY BeaconParams DEF SizeType
    <2>3. RevealsLate(aged)
      <3>1. CommitClose(aged) = CommitClose(window)
        BY Zenon, <1>5 DEF CommitClose
      <3> QED BY <1>1, <1>2, <1>5, <3>1 DEF RevealsLate
    <2>4. window' \in WindowType /\ RevealsLate(window') /\ WindowStep(aged, window')
      BY Zenon, <1>1, <1>5, <2>1, <2>2, <2>3, OverwriteIsFair
    <2>5. window'.commits = {} /\ window'.reveals = {}
      BY Zenon, <1>1, <2>1, <2>2, FreshWindowType
    <2>6. WindowStep(window, window')
      BY Zenon, <1>5, <2>4 DEF WindowStep, Usable
    <2> QED BY Zenon, <1>3, <1>4, <1>7, <2>4, <2>5, <2>6
  <1> QED BY <1>6, <1>7

\* A block, with its upgrade and its BeginBlocker.
LEMMA HeightIsFair ==
  ASSUME FairInv, NextHeight
  PROVE  FairInv' /\ WindowStep(window, window')
  <1>1. UNCHANGED epochs
    BY HeightWindow
  <1>2. CASE /\ window' \in WindowType /\ window'.age >= window.age
             /\ window'.epoch = window.epoch /\ window'.size = window.size
             /\ window'.commits = window.commits /\ window'.reveals = window.reveals
             /\ polls' = polls
    <2>1. window.age \in Nat /\ window'.age \in Nat /\ CommitClose(window) \in Nat
      BY <1>2, PhaseFact DEF FairInv, TypeInv, WindowType
    <2>2. CommitClose(window') = CommitClose(window)
      BY Zenon, <1>2 DEF CommitClose
    <2>3. RevealsLate(window')
      BY <1>2, <2>1, <2>2 DEF FairInv, RevealsLate
    <2> QED BY Zenon, <1>1, <1>2, <2>3 DEF FairInv, TypeInv, WindowStep, RevealsLate, CommitClose
  <1>3. CASE /\ window' \in WindowType /\ RevealsLate(window') /\ WindowStep(window, window')
             /\ polls' = NewPolls
    BY Zenon, <1>1, <1>3, PollsForget DEF FairInv, TypeInv, RevealsLate, CommitClose
  <1> QED BY Zenon, <1>2, <1>3, HeightWindow

\* A window opened by hand.
LEMMA OpenIsFair ==
  ASSUME FairInv, NEW epoch \in 1 .. LastEpoch, NEW size \in Choices, OpenBeaconWindow(epoch, size)
  PROVE  FairInv' /\ WindowStep(window, window') /\ window'.commits = {}
  <1>1. window \in WindowType /\ RevealsLate(window)
    BY DEF FairInv, TypeInv
  <1>2. epoch \in Nat /\ size \in SizeType
    BY BeaconParams DEF SizeType
  <1>3. /\ window' = FreshWindow(epoch, size) /\ ~Protected(window, net.upgraded) /\ UNCHANGED epochs
        /\ polls' = NewPolls
    BY Zenon DEF OpenBeaconWindow
  <1>4. window' \in WindowType /\ RevealsLate(window') /\ WindowStep(window, window')
        /\ window'.commits = {}
    BY Zenon, <1>1, <1>2, <1>3, OverwriteIsFair, FreshWindowType
  <1> QED BY Zenon, <1>3, <1>4, PollsForget DEF FairInv, TypeInv, RevealsLate, CommitClose

\* Every step keeps the invariant and is fair to the window.
LEMMA StepIsFair ==
  ASSUME FairInv, [BeaconNext]_beaconVars
  PROVE  FairInv' /\ WindowStep(window, window')
  <1>1. ASSUME UNCHANGED <<window, polls>>, epochs' \in EpochsType
        PROVE  FairInv' /\ WindowStep(window, window')
    BY Zenon, <1>1 DEF FairInv, TypeInv, RevealsLate, WindowStep, CommitClose
  <1>2. CASE BeginByOperator
    <2>1. UNCHANGED polls /\ EpochBegins
      BY <1>2 DEF BeginByOperator
    <2> QED BY Zenon, <2>1, BeginIsFair DEF FairInv, TypeInv, RevealsLate, CommitClose
  <1>3. CASE DkgFinalized \/ DkgAborted
    <2>1. epochs \in EpochsType
      BY DEF FairInv, TypeInv
    <2>2. CASE DkgFinalized
      <3>1. epochs' = [epochs EXCEPT !.epoch = epochs.dkg, !.dkg = 0] /\ UNCHANGED <<window, polls>>
        BY <2>2 DEF DkgFinalized
      <3> QED BY Zenon, <1>1, <2>1, <3>1 DEF EpochsType
    <2>3. CASE DkgAborted
      <3>1. epochs' = [epochs EXCEPT !.dkg = 0] /\ UNCHANGED <<window, polls>>
        BY <2>3 DEF DkgAborted
      <3> QED BY <1>1, <2>1, <3>1 DEF EpochsType
    <2> QED BY <1>3, <2>2, <2>3
  <1>4. CASE UNCHANGED beaconVars
    BY <1>1, <1>4 DEF beaconVars, FairInv, TypeInv
  <1>5. CASE \E v \in Validators : Unbond(v) \/ Rebond(v)
    BY <1>1, <1>5 DEF Unbond, Rebond, FairInv, TypeInv
  <1> QED
    BY <1>2, <1>3, <1>4, <1>5, DaemonIsFair, HeightIsFair, OpenIsFair DEF BeaconNext

\* The invariant holds at the start.
LEMMA StartIsFair == BeaconInit => FairInv /\ window.commits = {}
  <1> SUFFICES ASSUME BeaconInit PROVE FairInv /\ window.commits = {}
    OBVIOUS
  <1>1. PICK devnet, down : BeaconStart(devnet, down, 0)
    BY DEF BeaconInit
  <1>2. window \in WindowType /\ window.reveals = {} /\ window.commits = {}
    <2>1. Default \in SizeType
      BY BeaconParams DEF SizeType
    <2> QED BY Zenon, <1>1, <2>1 DEF BeaconStart, NoWindow, WindowType
  <1>3. epochs \in EpochsType
    BY <1>1 DEF BeaconStart, EpochsType
  <1>4. /\ polls \in [Validators -> PollType] /\ \A v \in Validators : polls[v].pc = "idle"
    BY <1>1 DEF BeaconStart, PollType
  <1> QED BY <1>2, <1>3, <1>4 DEF FairInv, TypeInv, RevealsLate

\* Whatever windows are opened by whom, whatever is lost and whenever epochs begin,
\* nobody commits to a window once a salt of it is revealed, and a window with
\* enough reveals for BeginEpoch is neither overwritten nor emptied (openBeacon,
\* MaybeAutoOpenBeacon, BeaconReveal).
THEOREM WindowsAreFair == BeaconSpec => WindowIsFair
  <1>1. FairInv /\ [BeaconNext]_beaconVars => FairInv'
    BY StepIsFair
  <1>2. FairInv /\ [BeaconNext]_beaconVars => WindowStep(window, window')
    BY StepIsFair
  <1>3. BeaconInit => FairInv
    BY StartIsFair
  <1> QED BY <1>1, <1>2, <1>3, PTL DEF BeaconSpec, WindowIsFair, WindowStep

-----------------------------------------------------------------------------
(* The beacon: who is heard in the reveal phase is not fined. *)

\* Epochs come in order.
EpochsOrdered ==
  /\ epochs.epoch < epochs.next
  /\ epochs.dkg # 0 => epochs.epoch < epochs.dkg /\ epochs.dkg < epochs.next

\* A daemon reads the number of the epoch no later than it is, so that nobody commits to
\* a window of a later epoch than the next.  A poll that began in the reveal phase, after
\* all commits, has read an epoch no earlier than the window's; so when it is heard its
\* reveal is in the window, or the window is one that no BeginEpoch will consume.
PollKeeps(v) ==
  /\ polls[v].pc \in {"commit", "reveal"} => polls[v].target <= epochs.epoch + 1
  /\ v \in window.commits => window.epoch <= epochs.epoch + 1
  /\ (polls[v].inReveal \/ polls[v].covered) => window.age > CommitClose(window)
  /\ (v \in window.commits /\ polls[v].inReveal /\ polls[v].pc \in {"commit", "reveal"}) =>
        polls[v].target >= window.epoch
  /\ (v \in window.commits /\ polls[v].covered) =>
        v \in window.reveals \/ window.epoch < epochs.next

FineInv ==
  /\ FairInv
  /\ EpochsOrdered
  /\ fines \in [Validators -> Nat]
  /\ spent \in SpentType
  /\ \A v \in Validators : PollKeeps(v)

\* What the polls rest on, in the invariant.
LEMMA FineFacts ==
  ASSUME FineInv
  PROVE  /\ FairInv /\ window \in WindowType /\ polls \in [Validators -> PollType]
         /\ epochs \in EpochsType
         /\ window.age \in Nat /\ window.epoch \in Nat /\ CommitClose(window) \in Nat
         /\ epochs.epoch \in Nat /\ epochs.next \in Nat /\ epochs.dkg \in Nat
         /\ epochs.epoch < epochs.next
  <1>1. FairInv /\ window \in WindowType /\ polls \in [Validators -> PollType] /\ epochs \in EpochsType
        /\ epochs.epoch < epochs.next
    BY DEF FineInv, FairInv, TypeInv, EpochsOrdered
  <1>2. window.age \in Nat /\ window.epoch \in Nat /\ CommitClose(window) \in Nat
    BY <1>1, PhaseFact DEF WindowType
  <1> QED BY <1>1, <1>2 DEF EpochsType

\* What a poll rests on is kept when the window gets older and others take part in it.
LEMMA OthersKeep ==
  ASSUME FineInv, NEW v \in Validators, polls'[v] = polls[v],
         UNCHANGED epochs,
         window' \in WindowType, window'.age >= window.age, window'.epoch = window.epoch,
         window'.size = window.size,
         v \in window'.commits => v \in window.commits,
         v \in window.reveals => v \in window'.reveals
  PROVE  PollKeeps(v)'
  <1>1. PollKeeps(v) /\ window.age \in Nat /\ CommitClose(window) \in Nat
    BY Zenon, FineFacts DEF FineInv
  <1>2. window'.age \in Nat /\ CommitClose(window') = CommitClose(window)
    BY DEF WindowType, CommitClose
  <1>3. window.age > CommitClose(window) => window'.age > CommitClose(window')
    BY <1>1, <1>2
  <1> QED BY Zenon, <1>1, <1>3 DEF PollKeeps, CommitClose

\* A window that nobody has committed to asks nothing of polls that begin anew.
LEMMA FreshKeeps ==
  ASSUME FineInv, UNCHANGED epochs, NEW v \in Validators, window'.commits = {}, polls' = NewPolls
  PROVE  PollKeeps(v)'
  <1>1. /\ polls'[v].pc = polls[v].pc /\ polls'[v].target = polls[v].target
        /\ polls'[v].inReveal = FALSE /\ polls'[v].covered = FALSE
    BY Zenon, FineFacts, PollForgets
  <1> QED BY Zenon, <1>1 DEF FineInv, PollKeeps

\* A block.
LEMMA HeightKeeps ==
  ASSUME FineInv, NextHeight, NEW v \in Validators
  PROVE  PollKeeps(v)'
  <1>1. FairInv
    BY FineFacts
  <1>2. UNCHANGED epochs
    BY <1>1, HeightWindow
  <1>3. CASE /\ window' \in WindowType /\ window'.age >= window.age
             /\ window'.epoch = window.epoch /\ window'.size = window.size
             /\ window'.commits = window.commits /\ window'.reveals = window.reveals
             /\ polls' = polls
    BY Zenon, <1>2, <1>3, OthersKeep
  <1>4. CASE window'.commits = {} /\ polls' = NewPolls
    BY Zenon, <1>2, <1>4, FreshKeeps
  <1> QED BY Zenon, <1>1, <1>3, <1>4, HeightWindow

\* A poll of v, step by step.
LEMMA ReadKeeps ==
  ASSUME FineInv, NEW v \in Validators, ReadEpoch(v), NEW o \in Validators
  PROVE  PollKeeps(o)'
  <1> DEFINE n == epochs.epoch + 1
             b == Phase(window) = "reveal"
             p == [polls[v] EXCEPT !.pc = "commit", !.target = n, !.inReveal = b]
  <1>1. polls' = [polls EXCEPT ![v] = p] /\ UNCHANGED <<window, epochs>>
    BY DEF ReadEpoch
  <1>2. /\ polls \in [Validators -> PollType] /\ window \in WindowType
        /\ epochs.epoch \in Nat /\ window.epoch \in Nat /\ window.age \in Nat /\ PollKeeps(v)
    BY Zenon, FineFacts DEF FineInv
  <1>3. n \in Nat /\ n <= epochs.epoch + 1 /\ (v \in window.commits => n >= window.epoch)
    BY <1>2 DEF PollKeeps
  <1>4. b => window.age > CommitClose(window)
    BY Zenon, <1>2, PhaseFact
  <1>5. b \in BOOLEAN
    BY Zenon
  <1> HIDE DEF n, b
  <1>6. p.target = n /\ p.inReveal = b /\ p.covered = polls[v].covered
    BY Zenon, <1>2 DEF PollType
  <1> HIDE DEF p
  <1>7. CASE o # v
    <2>1. polls'[o] = polls[o]
      BY <1>1, <1>2, <1>7
    <2> QED BY <1>1, <1>2, <2>1, OthersKeep
  <1>8. CASE o = v
    <2>1. polls'[v] = p
      BY Zenon, <1>1, <1>2
    <2> QED BY Zenon, <1>1, <1>2, <1>3, <1>4, <1>6, <1>8, <2>1 DEF PollKeeps, CommitClose
  <1> QED BY <1>7, <1>8

\* A commit is taken only in the commit phase, for the epoch the daemon read, when no
\* poll can have seen the reveal phase.
LEMMA CommitKeeps ==
  ASSUME FineInv, NEW v \in Validators, SendCommit(v), NEW o \in Validators
  PROVE  PollKeeps(o)'
  <1> DEFINE w == BeaconCommit(v)
             C == window.commits \cup {v}
             p == [polls[v] EXCEPT !.pc = "reveal"]
             ok == AcceptsBeaconCommit(v, polls[v].target)
  <1>1. /\ polls[v].pc = "commit" /\ polls' = [polls EXCEPT ![v] = p] /\ UNCHANGED epochs
        /\ Submit(ok, w)
    BY FineFacts DEF SendCommit
  <1>2. /\ polls \in [Validators -> PollType] /\ window \in WindowType /\ window.age \in Nat
        /\ CommitClose(window) \in Nat /\ epochs.epoch \in Nat /\ PollKeeps(v)
    BY Zenon, FineFacts DEF FineInv
  <1>3. C \in SUBSET Validators /\ w = [window EXCEPT !.commits = C]
    BY <1>2 DEF BeaconCommit, WindowType
  <1>4. /\ p.pc = "reveal" /\ p.target = polls[v].target
        /\ p.inReveal = polls[v].inReveal /\ p.covered = polls[v].covered
    BY Zenon, <1>2 DEF PollType
  <1> HIDE DEF p, w, ok
  <1>5. /\ w \in WindowType /\ w.age = window.age /\ w.epoch = window.epoch /\ w.size = window.size
        /\ w.reveals = window.reveals /\ w.commits = C
    BY Zenon, <1>2, <1>3 DEF WindowType
  <1>6. window' = window \/ (ok /\ window' = w)
    BY <1>1 DEF Submit
  <1>7. /\ window' \in WindowType /\ window'.age = window.age /\ window'.epoch = window.epoch
        /\ window'.size = window.size /\ window'.reveals = window.reveals
        /\ window'.commits \subseteq C
    BY <1>2, <1>5, <1>6
  <1>8. CASE o # v
    <2>1. polls'[o] = polls[o]
      BY Zenon, <1>1, <1>2, <1>8
    <2>2. o \in window'.commits => o \in window.commits
      BY <1>7, <1>8
    <2>3. window'.age >= window.age
      BY <1>2, <1>7
    <2> QED BY Zenon, <1>1, <1>7, <2>1, <2>2, <2>3, OthersKeep
  <1>9. CASE o = v
    <2>1. polls'[v] = p /\ CommitClose(window') = CommitClose(window)
      BY Zenon, <1>1, <1>2, <1>7 DEF CommitClose
    <2>2. CASE window' = window
      BY Zenon, <1>1, <1>2, <1>4, <1>9, <2>1, <2>2 DEF PollKeeps, CommitClose
    <2>3. CASE ok
      <3>1. window.epoch = polls[v].target /\ window.age <= CommitClose(window)
        BY Zenon, <1>2, <2>3, PhaseFact DEF AcceptsBeaconCommit, ok
      <3>2. polls[v].target <= epochs.epoch + 1
        BY Zenon, <1>1, <1>2 DEF PollKeeps
      <3>3. ~(window.age > CommitClose(window))
        BY <1>2, <3>1
      <3>4. ~polls[v].inReveal /\ ~polls[v].covered
        BY Zenon, <1>2, <3>3 DEF PollKeeps
      <3> QED BY Zenon, <1>1, <1>4, <1>7, <1>9, <2>1, <3>1, <3>2, <3>4 DEF PollKeeps
    <2> QED BY Zenon, <1>6, <2>2, <2>3
  <1> QED BY <1>8, <1>9

\* A reveal that is heard in its phase is taken, unless it is for a later epoch than the
\* window's: then the window's epoch has begun already.
LEMMA RevealKeeps ==
  ASSUME FineInv, NEW v \in Validators, SendReveal(v), NEW o \in Validators
  PROVE  PollKeeps(o)'
  <1> DEFINE w == BeaconReveal(v)
             R == window.reveals \cup {v}
             pc == IF epochs.epoch = 0 /\ epochs.dkg = 0 THEN "begin" ELSE "idle"
             c == polls[v].covered \/ Heard(v)
             p == [polls[v] EXCEPT !.pc = pc, !.target = 0, !.inReveal = FALSE, !.covered = c]
             ok == AcceptsBeaconReveal(v, polls[v].target)
  <1>1. /\ polls[v].pc = "reveal" /\ polls' = [polls EXCEPT ![v] = p] /\ UNCHANGED epochs
        /\ Submit(ok, w)
    BY Zenon, FineFacts DEF SendReveal
  <1>2. /\ polls \in [Validators -> PollType] /\ window \in WindowType /\ window.age \in Nat
        /\ window.epoch \in Nat /\ CommitClose(window) \in Nat
        /\ epochs.epoch \in Nat /\ epochs.next \in Nat /\ epochs.epoch < epochs.next
        /\ PollKeeps(v) /\ spent \in SpentType
    BY Zenon, FineFacts DEF FineInv
  <1>3. R \in SUBSET Validators /\ w = [window EXCEPT !.reveals = R]
    BY <1>2 DEF BeaconReveal, WindowType
  <1>4. pc \in {"begin", "idle"} /\ c \in BOOLEAN /\ (c <=> polls[v].covered \/ Heard(v))
    BY Zenon
  <1> HIDE DEF pc, c, w, ok
  <1>5. p.pc = pc /\ p.inReveal = FALSE /\ p.covered = c
    BY Zenon, <1>2 DEF PollType
  <1> HIDE DEF p
  <1>6. /\ w \in WindowType /\ w.age = window.age /\ w.epoch = window.epoch /\ w.size = window.size
        /\ w.commits = window.commits /\ w.reveals = R
    BY Zenon, <1>2, <1>3 DEF WindowType
  <1>7. window' = window \/ (ok /\ window' = w)
    BY <1>1 DEF Submit
  <1>8. /\ window' \in WindowType /\ window'.age = window.age /\ window'.epoch = window.epoch
        /\ window'.size = window.size /\ window'.commits = window.commits
        /\ window.reveals \subseteq window'.reveals
    BY <1>2, <1>6, <1>7
  <1>9. CASE o # v
    <2>1. polls'[o] = polls[o]
      BY Zenon, <1>1, <1>2, <1>9
    <2>2. window'.age >= window.age
      BY <1>2, <1>8
    <2> QED BY Zenon, <1>1, <1>8, <2>1, <2>2, OthersKeep
  <1>10. CASE o = v
    <2>1. polls'[v] = p /\ CommitClose(window') = CommitClose(window)
      BY Zenon, <1>1, <1>2, <1>8 DEF CommitClose
    <2>2. Heard(v) => window.age > CommitClose(window)
      BY Zenon, <1>2, PhaseFact DEF Heard
    <2>3. ASSUME Heard(v), v \in window.commits
          PROVE  v \in window'.reveals \/ window.epoch < epochs.next
      <3>1. polls[v].target >= window.epoch /\ polls[v].target <= epochs.epoch + 1
            /\ polls[v].target \in Nat
        BY <1>1, <1>2, <2>3 DEF PollKeeps, Heard, PollType
      <3>2. CASE polls[v].target # window.epoch
        BY <1>2, <3>1, <3>2
      <3>3. CASE v \in window.reveals
        BY <1>8, <3>3
      <3>4. CASE polls[v].target = window.epoch /\ v \notin window.reveals
        <4>1. ok
          BY Zenon, <2>3, <3>4 DEF ok, AcceptsBeaconReveal, Heard
        <4>2. spent' = spent
          BY Zenon, <2>3 DEF Heard
        <4>3. spent' # [spent EXCEPT !.lost = spent.lost + 1]
          <5> DEFINE k == spent.lost + 1
          <5>1. k # spent.lost
            BY <1>2 DEF SpentType
          <5> HIDE DEF k
          <5>2. [spent EXCEPT !.lost = k].lost = k
            BY Zenon, <1>2 DEF SpentType
          <5>3. spent' # [spent EXCEPT !.lost = k]
            BY Zenon, <4>2, <5>1, <5>2
          <5> QED BY <5>3 DEF k
        <4>4. window' = w
          BY Zenon, <1>1, <4>1, <4>3 DEF Submit
        <4> QED BY <1>6, <4>4
      <3> QED BY <3>2, <3>3, <3>4
    <2>4. c => window.age > CommitClose(window)
      BY Zenon, <1>2, <1>4, <2>2 DEF PollKeeps
    <2>5. (c /\ v \in window.commits) => v \in window'.reveals \/ window.epoch < epochs.next
      BY Zenon, <1>2, <1>4, <1>8, <2>3 DEF PollKeeps
    <2>6. polls'[v].pc \notin {"commit", "reveal"}
      BY <1>4, <1>5, <2>1
    <2>7. v \in window.commits => window.epoch <= epochs.epoch + 1
      BY Zenon, <1>2 DEF PollKeeps
    <2> QED BY Zenon, <1>1, <1>5, <1>8, <1>10, <2>1, <2>4, <2>5, <2>6, <2>7 DEF PollKeeps
  <1> QED BY <1>9, <1>10

\* BeginEpoch fines those whose reveal of the window it consumes is missing; that
\* window is of the next epoch.
LEMMA BeginFines ==
  ASSUME FineInv, EpochBegins, NEW v \in Validators
  PROVE  /\ fines'[v] \in Nat
         /\ fines'[v] > fines[v] => v \in window.commits /\ ~polls[v].covered
  <1>1. /\ window.epoch \in Nat /\ epochs.next \in Nat /\ fines[v] \in Nat /\ PollKeeps(v)
    BY Zenon, FineFacts DEF FineInv
  <1>2. fines'[v] = fines[v] + IF v \in Missing THEN 1 ELSE 0
    BY DEF EpochBegins
  <1>3. ASSUME v \in Missing PROVE v \in window.commits /\ ~polls[v].covered
    <2>1. /\ v \in window.commits /\ v \notin window.reveals
          /\ window.epoch = epochs.next
      BY <1>3 DEF Missing, Consumes, beaconMissingReveals
    <2>2. ~(window.epoch < epochs.next)
      BY <1>1, <2>1
    <2> QED BY Zenon, <1>1, <2>1, <2>2 DEF PollKeeps
  <1> QED BY <1>1, <1>2, <1>3

\* When epochs move on, the polls' targets and windows only fall behind.
LEMMA EpochsKeep ==
  ASSUME FineInv, NEW v \in Validators, epochs' \in EpochsType,
         epochs'.epoch >= epochs.epoch, epochs'.next >= epochs.next,
         window'.age = window.age, window'.epoch = window.epoch, window'.size = window.size,
         window'.commits = window.commits, window'.reveals = window.reveals,
         \/ polls'[v] = polls[v]
         \/ polls'[v] = [polls[v] EXCEPT !.pc = "idle"]
  PROVE  PollKeeps(v)'
  <1>1. /\ PollKeeps(v) /\ polls[v] \in PollType /\ polls[v].target \in Nat /\ window.epoch \in Nat
        /\ epochs.epoch \in Nat /\ epochs.next \in Nat
    BY FineFacts DEF FineInv, PollType
  <1>2. epochs'.epoch \in Nat /\ epochs'.next \in Nat
    BY DEF EpochsType
  <1>3. /\ polls'[v].pc \in {"commit", "reveal"} => polls[v].pc \in {"commit", "reveal"}
        /\ polls'[v].target = polls[v].target /\ polls'[v].inReveal = polls[v].inReveal
        /\ polls'[v].covered = polls[v].covered
    BY <1>1 DEF PollType
  <1>4. polls[v].target <= epochs.epoch + 1 => polls[v].target <= epochs'.epoch + 1
    BY <1>1, <1>2
  <1>5. window.epoch <= epochs.epoch + 1 => window.epoch <= epochs'.epoch + 1
    BY <1>1, <1>2
  <1>6. window.epoch < epochs.next => window.epoch < epochs'.next
    BY <1>1, <1>2
  <1> QED BY Zenon, <1>1, <1>3, <1>4, <1>5, <1>6 DEF PollKeeps, CommitClose

\* The epochs stay in order, and none is taken back.
LEMMA EpochsStayOrdered ==
  ASSUME FineInv, EpochBegins \/ DkgFinalized \/ DkgAborted
  PROVE  /\ EpochsOrdered' /\ epochs' \in EpochsType
         /\ epochs'.epoch >= epochs.epoch /\ epochs'.next >= epochs.next
  <1>1. /\ epochs \in EpochsType /\ EpochsOrdered
        /\ epochs.epoch \in Nat /\ epochs.next \in Nat /\ epochs.dkg \in Nat
    BY Zenon, FineFacts DEF FineInv
  <1>2. CASE EpochBegins
    <2>1. epochs'.dkg = epochs.next /\ epochs'.next = epochs.next + 1 /\ epochs'.epoch = epochs.epoch
          /\ epochs' \in EpochsType
      BY <1>2, FineFacts, BeginIsFair
    <2> QED BY <1>1, <2>1 DEF EpochsOrdered
  <1>3. CASE DkgFinalized
    <2>1. /\ epochs'.epoch = epochs.dkg /\ epochs'.dkg = 0 /\ epochs'.next = epochs.next
          /\ epochs.dkg # 0 /\ epochs' \in EpochsType
      BY Zenon, <1>1, <1>3 DEF DkgFinalized, EpochsType
    <2> QED BY <1>1, <2>1 DEF EpochsOrdered
  <1>4. CASE DkgAborted
    <2>1. /\ epochs'.epoch = epochs.epoch /\ epochs'.dkg = 0 /\ epochs'.next = epochs.next
          /\ epochs' \in EpochsType
      BY <1>1, <1>4 DEF DkgAborted, EpochsType
    <2> QED BY <1>1, <2>1 DEF EpochsOrdered
  <1> QED BY <1>2, <1>3, <1>4

\* What a step must show to keep the invariant and fine nobody, or only the absent.
Kept(v) ==
  /\ PollKeeps(v)' /\ fines'[v] \in Nat
  /\ fines'[v] > fines[v] => v \in window.commits /\ ~polls[v].covered

\* Steps that begin no epoch fine nobody.
LEMMA UnfinedKept ==
  ASSUME FineInv, UNCHANGED fines, NEW v \in Validators, PollKeeps(v)'
  PROVE  Kept(v)
  <1>1. fines[v] \in Nat /\ fines'[v] = fines[v]
    BY DEF FineInv
  <1>2. ~(fines'[v] > fines[v]) /\ fines'[v] \in Nat
    BY <1>1
  <1> QED BY Zenon, <1>2 DEF Kept

\* BeginEpoch, whoever sends it.
LEMMA BeginKept ==
  ASSUME FineInv, EpochBegins, NEW v \in Validators,
         polls'[v] = polls[v] \/ polls'[v] = [polls[v] EXCEPT !.pc = "idle"]
  PROVE  Kept(v)
  <1>1. /\ window'.age = window.age /\ window'.epoch = window.epoch /\ window'.size = window.size
        /\ window'.commits = window.commits /\ window'.reveals = window.reveals
    BY Zenon, FineFacts, BeginIsFair
  <1>2. PollKeeps(v)'
    BY Zenon, <1>1, EpochsStayOrdered, EpochsKeep
  <1> QED BY Zenon, <1>2, BeginFines DEF Kept

\* Every step keeps every poll's part of the invariant.
LEMMA StepKept ==
  ASSUME FineInv, [BeaconNext]_beaconVars, NEW v \in Validators
  PROVE  Kept(v)
  <1>0. /\ polls \in [Validators -> PollType] /\ window \in WindowType /\ epochs \in EpochsType
        /\ window.age \in Nat /\ epochs.epoch \in Nat /\ epochs.next \in Nat
    BY FineFacts
  <1>1. ASSUME UNCHANGED <<window, polls, fines, epochs>> PROVE Kept(v)
    <2>1. window' \in WindowType /\ window'.age >= window.age
      BY <1>0, <1>1
    <2> QED BY Zenon, <1>1, <2>1, OthersKeep, UnfinedKept
  <1>2. CASE NextHeight
    <2>1. UNCHANGED fines
      BY Zenon, <1>2 DEF NextHeight
    <2> QED BY Zenon, <1>2, <2>1, HeightKeeps, UnfinedKept
  <1>3. ASSUME NEW epoch \in 1 .. LastEpoch, NEW size \in Choices, OpenBeaconWindow(epoch, size)
        PROVE  Kept(v)
    <2>1. UNCHANGED <<fines, epochs>> /\ polls' = NewPolls
      BY Zenon, <1>3 DEF OpenBeaconWindow
    <2>2. window'.commits = {}
      BY <1>3, FineFacts, OpenIsFair
    <2> QED BY Zenon, <2>1, <2>2, FreshKeeps, UnfinedKept
  <1>4. ASSUME NEW o \in Validators, ReadEpoch(o) PROVE Kept(v)
    <2>1. UNCHANGED fines
      BY <1>4 DEF ReadEpoch
    <2> QED BY Zenon, <1>4, <2>1, ReadKeeps, UnfinedKept
  <1>5. ASSUME NEW o \in Validators, SendCommit(o) PROVE Kept(v)
    <2>1. UNCHANGED fines
      BY <1>5 DEF SendCommit
    <2> QED BY Zenon, <1>5, <2>1, CommitKeeps, UnfinedKept
  <1>6. ASSUME NEW o \in Validators, SendReveal(o) PROVE Kept(v)
    <2>1. UNCHANGED fines
      BY <1>6 DEF SendReveal
    <2> QED BY Zenon, <1>6, <2>1, RevealKeeps, UnfinedKept
  <1>7. ASSUME NEW o \in Validators, BeginByDaemon(o) PROVE Kept(v)
    <2>1. polls'[v] = polls[v] \/ polls'[v] = [polls[v] EXCEPT !.pc = "idle"]
      BY <1>0, <1>7 DEF BeginByDaemon
    <2>2. EpochBegins \/ UNCHANGED <<window, fines, epochs>>
      BY <1>7 DEF BeginByDaemon
    <2>3. CASE EpochBegins
      BY Zenon, <2>1, <2>3, BeginKept
    <2>4. CASE UNCHANGED <<window, fines, epochs>>
      <3>1. epochs' \in EpochsType /\ epochs'.epoch >= epochs.epoch /\ epochs'.next >= epochs.next
        BY <1>0, <2>4
      <3>2. PollKeeps(v)'
        BY Zenon, <2>1, <2>4, <3>1, EpochsKeep
      <3> QED BY Zenon, <2>4, <3>2, UnfinedKept
    <2> QED BY <2>2, <2>3, <2>4
  <1>8. CASE BeginByOperator
    BY Zenon, <1>8, BeginKept DEF BeginByOperator
  <1>9. CASE DkgFinalized \/ DkgAborted
    <2>1. UNCHANGED <<window, polls, fines>>
      BY <1>9 DEF DkgFinalized, DkgAborted
    <2>2. PollKeeps(v)'
      BY Zenon, <1>9, <2>1, EpochsStayOrdered, EpochsKeep
    <2> QED BY Zenon, <2>1, <2>2, UnfinedKept
  <1>10. CASE \E o \in Validators : Unbond(o) \/ Rebond(o)
    BY Zenon, <1>1, <1>10 DEF Unbond, Rebond
  <1>11. CASE UNCHANGED beaconVars
    BY Zenon, <1>1, <1>11 DEF beaconVars
  <1> QED
    BY Zenon, <1>2, <1>3, <1>4, <1>5, <1>6, <1>7, <1>8, <1>9, <1>10, <1>11
       DEF BeaconNext, DaemonStep

\* What is used up of the bounds stays a number.
LEMMA SpendingCounts ==
  ASSUME FineInv, [BeaconNext]_beaconVars
  PROVE  spent' \in SpentType
  <1>1. /\ spent \in SpentType /\ spent.lost + 1 \in Nat /\ spent.aborts + 1 \in Nat
        /\ spent.manual + 1 \in Nat /\ spent.unbonded + 1 \in Nat
    BY DEF FineInv, SpentType
  <1>2. CASE \/ UNCHANGED spent
             \/ spent' = [spent EXCEPT !.lost = spent.lost + 1]
             \/ spent' = [spent EXCEPT !.aborts = spent.aborts + 1]
             \/ spent' = [spent EXCEPT !.manual = spent.manual + 1]
             \/ spent' = [spent EXCEPT !.unbonded = spent.unbonded + 1]
    BY Zenon, <1>1, <1>2 DEF SpentType
  <1>3. CASE NextHeight \/ BeginByOperator \/ DkgFinalized \/ UNCHANGED beaconVars
    BY Zenon, <1>2, <1>3 DEF NextHeight, BeginByOperator, DkgFinalized, beaconVars
  <1>4. CASE DkgAborted
    BY <1>1, <1>2, <1>4 DEF DkgAborted, SpentType
  <1>5. ASSUME NEW epoch, NEW size, OpenBeaconWindow(epoch, size) PROVE spent' \in SpentType
    BY <1>1, <1>2, <1>5 DEF OpenBeaconWindow, SpentType
  <1>6. ASSUME NEW v \in Validators, Unbond(v) \/ Rebond(v) PROVE spent' \in SpentType
    BY <1>1, <1>2, <1>6 DEF Unbond, Rebond, SpentType
  <1>7. ASSUME NEW accepted, NEW result, Submit(accepted, result) PROVE spent' \in SpentType
    BY <1>1, <1>2, <1>7 DEF Submit, SpentType
  <1>8. ASSUME NEW v \in Validators, DaemonStep(v) PROVE spent' \in SpentType
    <2>1. CASE ReadEpoch(v) \/ BeginByDaemon(v)
      BY Zenon, <1>2, <2>1 DEF ReadEpoch, BeginByDaemon
    <2>2. CASE SendCommit(v) \/ SendReveal(v)
      BY Zenon, <1>7, <2>2 DEF SendCommit, SendReveal
    <2> QED BY Zenon, <1>8, <2>1, <2>2 DEF DaemonStep
  <1> QED
    BY Zenon, <1>3, <1>4, <1>5, <1>6, <1>8 DEF BeaconNext

\* Every step keeps the invariant, and fines only the absent.
LEMMA NextFines ==
  ASSUME FineInv, [BeaconNext]_beaconVars
  PROVE  /\ FineInv'
         /\ \A v \in Validators : fines'[v] > fines[v] => v \in window.commits /\ ~polls[v].covered
  <1>1. FairInv' /\ spent' \in SpentType
    BY FineFacts, StepIsFair, SpendingCounts
  <1>2. EpochsOrdered'
    <2>1. CASE UNCHANGED epochs
      BY Zenon, <2>1 DEF FineInv, EpochsOrdered
    <2> QED
      BY Zenon, <2>1, EpochsStayOrdered
         DEF BeaconNext, beaconVars, NextHeight, OpenBeaconWindow, DaemonStep, Unbond, Rebond,
         ReadEpoch, SendCommit, SendReveal, BeginByDaemon, BeginByOperator
  <1>3. fines' \in [Validators -> Nat]
    <2>1. CASE UNCHANGED fines
      BY <2>1 DEF FineInv
    <2>2. CASE EpochBegins
      <3>1. fines' = [v \in Validators |-> fines'[v]]
        BY Zenon, <2>2 DEF EpochBegins
      <3> QED BY Zenon, <2>2, <3>1, BeginFines
    <2> QED
      BY Zenon, <2>1, <2>2
         DEF BeaconNext, beaconVars, NextHeight, OpenBeaconWindow, DaemonStep, Unbond, Rebond, ReadEpoch,
         SendCommit, SendReveal, BeginByDaemon, BeginByOperator, DkgFinalized, DkgAborted
  <1> QED BY Zenon, <1>1, <1>2, <1>3, StepKept DEF FineInv, Kept

\* Whatever windows are opened by hand, for whatever epoch and however short, and
\* whenever blocks pass, epochs begin, end and are given up and validators are jailed in
\* the middle of polls: who is fined for a missing reveal had committed and had no poll
\* within the reveal phase that was heard while it was bonded (maybeBeaconParticipate,
\* BeaconReveal, consumeBeaconForEpoch).
THEOREM OnlyTheAbsentAreFined == BeaconSpec => OnlyAbsentAreFined
  <1>1. BeaconInit => FineInv
    <2> SUFFICES ASSUME BeaconInit PROVE FineInv
      OBVIOUS
    <2>1. PICK devnet, down : BeaconStart(devnet, down, 0)
      BY DEF BeaconInit
    <2>2. FairInv /\ window.commits = {}
      BY StartIsFair
    <2>3. EpochsOrdered
      BY <2>1 DEF BeaconStart, EpochsOrdered
    <2>4. \A v \in Validators : polls[v].pc = "idle" /\ ~polls[v].inReveal /\ ~polls[v].covered
      BY Zenon, <2>1 DEF BeaconStart
    <2>5. fines \in [Validators -> Nat] /\ spent \in SpentType
      BY <2>1 DEF BeaconStart, SpentType
    <2>6. \A v \in Validators : polls[v].pc \notin {"commit", "reveal"}
      BY <2>4
    <2> QED BY Zenon, <2>2, <2>3, <2>4, <2>5, <2>6 DEF FineInv, PollKeeps
  <1>2. FineInv /\ [BeaconNext]_beaconVars => FineInv'
    BY NextFines
  <1>3. FineInv /\ [BeaconNext]_beaconVars =>
          \A v \in Validators : fines'[v] > fines[v] => v \in window.commits /\ ~polls[v].covered
    BY NextFines
  <1> QED BY <1>1, <1>2, <1>3, PTL DEF BeaconSpec, OnlyAbsentAreFined

-----------------------------------------------------------------------------

(* The committee's validators. *)

(* The committee: a jailed validator that is a candidate again has served. *)

\* What penalties, unjailing and time change
ClocksOK ==
  /\ blockTime \in Nat
  /\ DOMAIN stakes = Operators
  /\ \A v \in Operators : stakes[v].jailed \in BOOLEAN /\ stakes[v].until \in Nat
  /\ bonded \subseteq Operators
  /\ owed \in [Operators -> Nat]

\* A jail time that is not over keeps its validator in jail, for that long.
Serves(v) ==
  \/ owed[v] <= blockTime
  \/ stakes[v].jailed /\ owed[v] <= stakes[v].until

ServedInv == ClocksOK /\ \A v \in Operators : Serves(v)

(* A penalty extends the time of the validator it is for by what it owes,    *)
(* and touches no other; a sole validator owes nothing new                    *)
(* (SlashAndJailValidator).                                                   *)
LEMMA PenaltyServes ==
  ASSUME ServedInv, NEW x, NEW power, NEW fault, fault.jail \in Nat,
         SlashAndJailValidator(x, power, fault)
  PROVE  ServedInv'
  <1>1. /\ blockTime' = blockTime /\ bonded' = bonded
        /\ blockTime \in Nat /\ bonded \subseteq Operators
    BY Zenon DEF SlashAndJailValidator, ServedInv, ClocksOK
  <1>2. /\ DOMAIN stakes' = Operators
        /\ \A v \in Operators : v # x => stakes'[v] = stakes[v]
    BY Zenon DEF SlashAndJailValidator, ServedInv, ClocksOK
  <1>3. /\ DOMAIN owed' = Operators
        /\ \A v \in Operators : v # x => owed'[v] = owed[v]
    BY Zenon DEF SlashAndJailValidator, ServedInv, ClocksOK
  <1>4. ASSUME x \in Operators
        PROVE  /\ stakes'[x].jailed \in BOOLEAN /\ stakes'[x].until \in Nat
               /\ owed'[x] \in Nat /\ Serves(x)'
    <2>1. CASE IsSole(x)
      <3>1. ~stakes[x].jailed
        BY <2>1 DEF IsSole, GetBondedValidatorsByPower
      <3>2. stakes'[x].jailed = stakes[x].jailed /\ stakes'[x].until = stakes[x].until
        BY Zenon, <1>4, <2>1, <3>1
           DEF SlashAndJailValidator, ServedInv, ClocksOK
      <3>3. owed'[x] = owed[x]
        BY Zenon, <1>4, <2>1 DEF SlashAndJailValidator, ServedInv, ClocksOK
      <3> QED
        BY Zenon, <1>1, <1>4, <3>2, <3>3 DEF ServedInv, ClocksOK, Serves
    <2>2. CASE ~IsSole(x)
      <3>1. stakes'[x].jailed = TRUE
        BY Zenon, <1>4, <2>2 DEF SlashAndJailValidator, ServedInv, ClocksOK
      <3>2. stakes'[x].until = JailUntil(x, fault.jail)
        BY Zenon, <1>4, <2>2 DEF SlashAndJailValidator, ServedInv, ClocksOK
      <3>3. owed'[x] = IF owed[x] > blockTime + fault.jail THEN owed[x]
                       ELSE blockTime + fault.jail
        BY Zenon, <1>4, <2>2 DEF SlashAndJailValidator, ServedInv, ClocksOK
      <3>4. /\ owed[x] \in Nat /\ stakes[x].until \in Nat
            /\ owed[x] <= blockTime \/ owed[x] <= stakes[x].until
        BY Zenon, <1>4 DEF ServedInv, ClocksOK, Serves
      <3>5. JailUntil(x, fault.jail) \in Nat /\ owed'[x] \in Nat
        BY <1>1, <3>3, <3>4 DEF JailUntil
      <3>6. owed'[x] <= blockTime \/ owed'[x] <= JailUntil(x, fault.jail)
        BY <1>1, <3>3, <3>4 DEF JailUntil
      <3> QED
        BY Zenon, <1>1, <3>1, <3>2, <3>5, <3>6 DEF Serves
    <2> QED
      BY Zenon, <2>1, <2>2
  <1>5. \A v \in Operators :
          stakes'[v].jailed \in BOOLEAN /\ stakes'[v].until \in Nat /\ owed'[v] \in Nat
    BY Zenon, <1>2, <1>3, <1>4 DEF ServedInv, ClocksOK
  <1>6. \A v \in Operators : Serves(v)'
    BY Zenon, <1>1, <1>2, <1>3, <1>4 DEF ServedInv, Serves
  <1>7. owed' \in [Operators -> Nat]
    <2>1. owed' = [v \in Operators |-> owed'[v]]
      BY Zenon, <1>3 DEF SlashAndJailValidator, ServedInv, ClocksOK
    <2> QED
      BY <1>5, <2>1
  <1> QED
    BY Zenon, <1>1, <1>2, <1>5, <1>6, <1>7 DEF ServedInv, ClocksOK

(* No step ends a jail time early, and no time passes backwards: one step    *)
(* per action of Committee.                                                   *)
LEMMA StepServes == ServedInv /\ [CommitteeNext]_committeeVars => ServedInv'
  <1> SUFFICES ASSUME ServedInv, [CommitteeNext]_committeeVars
               PROVE  ServedInv'
    OBVIOUS
  <1>1. CASE UNCHANGED <<stakes, bonded, blockTime, owed>>
    BY Zenon, <1>1 DEF ServedInv, ClocksOK, Serves
  <1>2. CASE \E k \in 2 .. Cardinality(Operators) : SampleByPower(k)
    BY <1>1, <1>2 DEF SampleByPower
  <1>3. CASE DrawMember
    BY <1>1, <1>3 DEF DrawMember
  <1>4. CASE \E fault \in Faults : Fault(fault)
    <2> PICK fault \in Faults : Fault(fault)
      BY <1>4
    <2>1. fault.jail \in Nat
      BY CommitteeParams
    <2> QED
      BY <2>1, PenaltyServes DEF Fault
  <1>5. CASE \E v \in Operators : Unjail(v)
    <2> PICK x \in Operators : Unjail(x)
      BY <1>5
    <2>1. blockTime' = blockTime /\ bonded' = bonded /\ owed' = owed
      BY DEF Unjail
    <2>2. /\ DOMAIN stakes' = Operators
          /\ \A v \in Operators : v # x => stakes'[v] = stakes[v]
          /\ stakes'[x].jailed = FALSE /\ stakes'[x].until = stakes[x].until
      BY DEF Unjail, ServedInv, ClocksOK
    <2>3. owed[x] <= blockTime
      BY DEF Unjail, ServedInv, ClocksOK, Serves
    <2>4. ClocksOK'
      BY Zenon, <2>1, <2>2 DEF ServedInv, ClocksOK
    <2>5. \A v \in Operators : Serves(v)'
      BY Zenon, <2>1, <2>2, <2>3 DEF ServedInv, Serves
    <2> QED
      BY <2>4, <2>5 DEF ServedInv
  <1>6. CASE EndBlock
    <2>1. /\ blockTime' = blockTime + 1 /\ bonded' \subseteq Operators
          /\ stakes' = stakes /\ owed' = owed
      BY <1>6 DEF EndBlock
    <2>2. ClocksOK'
      BY <2>1 DEF ServedInv, ClocksOK
    <2>3. \A v \in Operators : Serves(v)'
      BY <2>1 DEF ServedInv, ClocksOK, Serves
    <2> QED
      BY <2>2, <2>3 DEF ServedInv
  <1> QED
    BY <1>1, <1>2, <1>3, <1>4, <1>5, <1>6 DEF CommitteeNext, committeeVars

(* At first nobody is jailed or owes anything. *)
LEMMA StartServes == CommitteeInit => ServedInv
  <1> SUFFICES ASSUME NEW tokens, CommitteeStart(tokens)
               PROVE  ServedInv
    BY DEF CommitteeInit
  <1>1. /\ \A v \in Operators : stakes[v].jailed = FALSE /\ stakes[v].until = 0
        /\ DOMAIN stakes = Operators
    BY DEF CommitteeStart
  <1>2. /\ blockTime = 1 /\ bonded \subseteq Operators
        /\ owed \in [Operators -> Nat] /\ \A v \in Operators : owed[v] = 0
    BY DEF CommitteeStart
  <1>3. \A v \in Operators : stakes[v].jailed \in BOOLEAN
    BY <1>1, Zenon
  <1>4. \A v \in Operators : stakes[v].until \in Nat /\ owed[v] <= blockTime
    BY <1>1, <1>2
  <1>5. ClocksOK
    BY Zenon, <1>1, <1>2, <1>3, <1>4 DEF ClocksOK
  <1> QED
    BY Zenon, <1>4, <1>5 DEF ServedInv, Serves

(* Whoever can be drawn into a committee has served every jail time it was   *)
(* given, for every set of validators, whatever it was fined for, how often   *)
(* and in which order (SlashAndJailValidator and the draw of BeginEpoch).     *)
THEOREM JailTimesAreServed == CommitteeSpec => []CandidatesHaveServed
  <1>1. ServedInv => CandidatesHaveServed
    BY DEF ServedInv, ClocksOK, Serves, CandidatesHaveServed, GetBondedValidatorsByPower
  <1> QED
    BY <1>1, StartServes, StepServes, PTL DEF CommitteeSpec

-----------------------------------------------------------------------------
(* The committee: one is always left. *)

\* Penalties, unjailing and the end of a block leave a bonded validator out of jail.
LEMMA OneIsLeft ==
  ASSUME ServedInv, JailsNotTheLast, [CommitteeNext]_committeeVars
  PROVE  JailsNotTheLast'
  <1>1. ASSUME NEW x, NEW power, NEW fault, SlashAndJailValidator(x, power, fault)
        PROVE  JailsNotTheLast'
    <2>1. /\ bonded' = bonded /\ bonded \subseteq Operators
          /\ \A v \in Operators : v # x => stakes'[v] = stakes[v]
      BY Zenon, <1>1 DEF SlashAndJailValidator, ServedInv, ClocksOK
    <2>2. CASE IsSole(x)
      <3>1. x \in bonded /\ ~stakes[x].jailed
        BY <2>2 DEF IsSole, GetBondedValidatorsByPower
      <3>2. ~stakes'[x].jailed
        BY Zenon, <1>1, <2>1, <2>2, <3>1
           DEF SlashAndJailValidator, ServedInv, ClocksOK
      <3> QED BY Zenon, <2>1, <3>1, <3>2
                 DEF JailsNotTheLast, GetBondedValidatorsByPower
    <2>3. CASE ~IsSole(x)
      <3>1. PICK v \in GetBondedValidatorsByPower : v # x
        BY <2>3 DEF JailsNotTheLast, IsSole
      <3>2. v \in bonded /\ ~stakes'[v].jailed
        BY <2>1, <3>1 DEF GetBondedValidatorsByPower
      <3> QED BY Zenon, <2>1, <3>2
                 DEF JailsNotTheLast, GetBondedValidatorsByPower
    <2> QED BY <2>2, <2>3
  <1>2. ASSUME NEW fault \in Faults, Fault(fault) PROVE JailsNotTheLast'
    BY <1>1, <1>2 DEF Fault
  <1>3. ASSUME NEW x \in Operators, Unjail(x) PROVE JailsNotTheLast'
    <2>1. PICK v \in bonded : ~stakes[v].jailed
      BY DEF JailsNotTheLast, GetBondedValidatorsByPower
    <2>2. bonded' = bonded /\ v \in Operators /\ ~stakes'[v].jailed
      BY <1>3, <2>1 DEF Unjail, ServedInv, ClocksOK
    <2> QED BY <2>1, <2>2 DEF JailsNotTheLast, GetBondedValidatorsByPower
  <1>4. CASE EndBlock
    BY <1>4 DEF EndBlock, JailsNotTheLast, GetBondedValidatorsByPower
  <1>5. CASE UNCHANGED <<stakes, bonded>>
    BY <1>5 DEF JailsNotTheLast, GetBondedValidatorsByPower
  <1> QED
    BY Zenon, <1>2, <1>3, <1>4, <1>5
       DEF CommitteeNext, committeeVars, SampleByPower, DrawMember

\* However many penalties fall in a block and whomever they are for, a bonded
\* validator out of jail is left to deal (SlashAndJailValidator's check for a sole
\* one), until x/staking itself would halt the chain.
THEOREM PenaltiesLeaveOne == CommitteeSpec => []JailsNotTheLast
  <1>1. CommitteeInit => ServedInv /\ JailsNotTheLast
    <2> SUFFICES ASSUME CommitteeInit PROVE ServedInv /\ JailsNotTheLast
      OBVIOUS
    <2>1. PICK tokens \in [Operators -> InitialTokens] :
            CommitteeStart(tokens) /\ \E v \in Operators : tokens[v] >= PowerReduction
      BY DEF CommitteeInit
    <2>2. JailsNotTheLast
      BY Zenon, <2>1
         DEF CommitteeStart, JailsNotTheLast, GetBondedValidatorsByPower
    <2> QED BY <2>2, StartServes
  <1>2. ServedInv /\ JailsNotTheLast /\ [CommitteeNext]_committeeVars => ServedInv' /\ JailsNotTheLast'
    BY StepServes, OneIsLeft
  <1> QED BY <1>1, <1>2, PTL DEF CommitteeSpec

=============================================================================
