------------------------------ MODULE DealerDkg ------------------------------
(***************************************************************************)
(* Distributed key generation: the x/dealer handlers of an epoch and the   *)
(* dealer daemons that drive them by polling.                              *)
(*                                                                         *)
(* A chain handler is atomic.  A daemon is not: between two of its         *)
(* transactions other daemons act, blocks pass, a request or the answer to *)
(* it is lost, or the process dies and restarts with what is on its disk.  *)
(*                                                                         *)
(* A polynomial (with the ephemeral key made beside it) is a number that   *)
(* is never used twice, 0 for none.  A share is valid if it comes from the *)
(* committed polynomial, so a sum of shares is the set of its dealers.     *)
(***************************************************************************)
EXTENDS Integers, FiniteSets

CONSTANTS
    N,                  \* committee size
    Threshold,
    DkgVersion,         \* 1: plaintext reveals accepted, 2: encrypted shares only
    CommitBlocks, ComplaintBlocks, RevealBlocks,
    Situations,         \* who is down, garbles, signs shares: records of sets of members
    TimeoutCaller,      \* whether somebody sends DkgTimeout
    MaxPolys,           \* bound: polynomials that one daemon draws
    MaxEpochs,          \* bound: epochs begun
    MaxFaults           \* bound: crashes and lost messages

ASSUME DkgParams ==
    /\ N \in Nat /\ Threshold \in 2..N
    /\ DkgVersion \in {1, 2}
    /\ {CommitBlocks, ComplaintBlocks, RevealBlocks} \subseteq Nat \ {0}
    /\ Situations \subseteq
         [offline : SUBSET (1..N), garblers : SUBSET (1..N), signers : SUBSET (1..N)]
    /\ TimeoutCaller \in BOOLEAN
    /\ MaxPolys \in Nat /\ MaxEpochs \in Nat /\ MaxFaults \in Nat

Members == 1..N
Torn    == -1           \* the polynomial of a file that cannot be read

VARIABLES
    dkg,        \* the DealerDKG in flight; epoch 0: none
    active,     \* the finalized DealerEpoch; id 0: none
    nextEpoch,  \* GetNextEpochID
    penalties,  \* per member: applyPenalty calls for the DKG in flight
    daemon,     \* per member: where its poll stands, and what it read
    disk,       \* per member: the latest file of its EpochStateStore
    drawn,      \* per member: polynomials drawn so far
    faults,     \* crashes and losses so far
    who         \* the situation, which never changes

dkgVars == <<dkg, active, nextEpoch, penalties, daemon, disk, drawn, faults, who>>

Offline  == who.offline     \* members whose daemon never runs
Garblers == who.garblers    \* members whose shares are wrong, encrypted or signed
Signers  == who.signers     \* members that hand out signed shares as well, off chain

NoDkg ==
    [epoch |-> 0, age |-> 0, commits |-> [m \in Members |-> 0], shares |-> {},
     complaints |-> {}, invalid |-> {}, reveals |-> {}, slashed |-> {}]

CommitDeadline    == CommitBlocks
ComplaintDeadline == CommitDeadline + ComplaintBlocks
RevealDeadline    == ComplaintDeadline + RevealBlocks

Committed(d)    == {m \in Members : d.commits[m] # 0}
Qualified(d)    == Members \ d.slashed
Complainers(d, m) == {c \in Members : <<c, m>> \in d.complaints}

-----------------------------------------------------------------------------
(* The chain: what a handler accepts, and the DKG it stores. *)

InFlight(e) == dkg.epoch = e /\ e # 0

AcceptsCommit(e, m) ==
    InFlight(e) /\ dkg.age <= CommitDeadline /\ dkg.commits[m] = 0

DkgCommit(m, poly) == [dkg EXCEPT !.commits[m] = poly]

AcceptsShare(e, m, to, poly) ==
    /\ InFlight(e) /\ dkg.age <= RevealDeadline /\ to # m
    /\ dkg.commits[to] # 0 /\ dkg.commits[m] = poly
    /\ \A ok \in BOOLEAN : <<m, to, ok>> \notin dkg.shares

DkgEncryptedShare(m, to) == [dkg EXCEPT !.shares = @ \cup {<<m, to, m \notin Garblers>>}]

AcceptsComplaint(e, c, m) ==
    /\ InFlight(e) /\ c # m
    /\ dkg.age >= CommitDeadline /\ dkg.age <= ComplaintDeadline
    /\ <<c, m>> \notin dkg.complaints

DkgComplaintMissing(c, m) == [dkg EXCEPT !.complaints = @ \cup {<<c, m>>}]

\* The chain opens the ciphertext itself and slashes whoever is wrong.
DkgComplaintAEADBad(c, m) ==
    [dkg EXCEPT !.complaints = @ \cup {<<c, m>>},
                !.slashed = @ \cup {IF <<m, c, FALSE>> \in dkg.shares THEN m ELSE c}]

\* Kind "invalid".  A signed share proves a dealer wrong that has no commitment, or one
\* that the share does not match.
DkgComplaintInvalid(c, m) ==
    [dkg EXCEPT !.complaints = @ \cup {<<c, m>>}, !.invalid = @ \cup {m},
                !.slashed = @ \cup {m}]

AcceptsComplaintInvalid(e, c, m) ==
    /\ AcceptsComplaint(e, c, m) /\ m \in Signers
    /\ dkg.commits[m] = 0 \/ m \in Garblers

AcceptsReveal(e, m, to, poly) ==
    /\ DkgVersion < 2
    /\ InFlight(e) /\ dkg.age <= RevealDeadline
    /\ <<to, m>> \in dkg.complaints /\ <<m, to>> \notin dkg.reveals
    /\ dkg.commits[m] = poly

DkgShareReveal(m, to) == [dkg EXCEPT !.reveals = @ \cup {<<m, to>>}]

MissingCommits(d) == Members \ Committed(d)
Unresolved(d) == {m \in Members : \E c \in Complainers(d, m) : <<m, c>> \notin d.reveals}

\* applyPenalty runs only for members that were not slashed before.
Penalise(slashed) == [m \in Members |-> penalties[m] + IF m \in slashed \ dkg.slashed THEN 1 ELSE 0]

\* Mutant: an unanswered complaint is no reason to exclude a dealer.
finalizeEpochLenient(slashed) ==
    LET d == [dkg EXCEPT !.slashed = @ \cup slashed \cup MissingCommits(dkg)]
    IN  /\ penalties' = Penalise(d.slashed)
        /\ dkg' = NoDkg
        /\ active' = IF Cardinality(Qualified(d)) < Threshold THEN active
                     ELSE [id |-> dkg.epoch, qual |-> Qualified(d), transcript |-> d]

\* finalizeEpoch, after `slashed` members were slashed in the same handler.
finalizeEpoch(slashed) ==
    LET d == [dkg EXCEPT !.slashed = @ \cup slashed \cup MissingCommits(dkg) \cup Unresolved(dkg)]
    IN  /\ penalties' = Penalise(d.slashed)
        /\ dkg' = NoDkg
        /\ active' = IF Cardinality(Qualified(d)) < Threshold THEN active
                     ELSE [id |-> dkg.epoch, qual |-> Qualified(d), transcript |-> d]

DkgTimeout ==
    LET slashed == dkg.slashed \cup MissingCommits(dkg)
    IN  /\ TimeoutCaller /\ dkg.epoch # 0 /\ dkg.age > CommitDeadline
        /\ \/ /\ Cardinality(Members \ slashed) < Threshold
              /\ dkg' = NoDkg /\ penalties' = Penalise(slashed)
              /\ UNCHANGED active
           \/ /\ Cardinality(Members \ slashed) >= Threshold /\ dkg.age <= RevealDeadline
              /\ dkg' = [dkg EXCEPT !.slashed = slashed]
              /\ penalties' = Penalise(slashed)
              /\ UNCHANGED active
           \/ /\ Cardinality(Members \ slashed) >= Threshold /\ dkg.age > RevealDeadline
              /\ finalizeEpoch(slashed)
        /\ UNCHANGED <<nextEpoch, daemon, disk, drawn, faults>>

\* No daemon sends this complaint: an operator does.
ComplainInvalid(c, m) ==
    /\ AcceptsComplaintInvalid(dkg.epoch, c, m)
    /\ dkg' = DkgComplaintInvalid(c, m)
    /\ penalties' = Penalise(dkg'.slashed)
    /\ UNCHANGED <<active, nextEpoch, daemon, disk, drawn, faults>>

NextBlock ==
    /\ dkg.epoch # 0 /\ dkg.age <= RevealDeadline
    /\ dkg' = [dkg EXCEPT !.age = @ + 1]
    /\ UNCHANGED <<active, nextEpoch, penalties, daemon, disk, drawn, faults>>

-----------------------------------------------------------------------------
(* A daemon.  The program counter names what the poll does next: a read of  *)
(* the chain ("read..."), a write to disk ("save..."), or the transactions  *)
(* that the last read called for, one per member of `todo`.                 *)

Idle == [pc |-> "idle", epoch |-> 0, todo |-> {}, accuse |-> {}, draft |-> {}]
NoFile == [epoch |-> 0, poly |-> 0, sum |-> {}]

MinOf(S) == CHOOSE x \in S : \A y \in S : x <= y

\* EpochStateStore.has: a file is there, readable or not.
has(m, e) == disk[m].epoch = e
\* EpochStateStore.load succeeds.
Loads(m, e) == has(m, e) /\ disk[m].poly # Torn

At(m, pc)    == daemon[m].pc = pc
Goto(m, pc)  == daemon' = [daemon EXCEPT ![m].pc = pc]
Stop(m)      == daemon' = [daemon EXCEPT ![m] = Idle]

\* One transaction: the chain applies it if it is accepted, unless it is lost.
Send(accepted, result) ==
    \/ accepted /\ dkg' = result /\ UNCHANGED faults
    \/ ~accepted /\ UNCHANGED <<dkg, faults>>
    \/ accepted /\ faults < MaxFaults /\ faults' = faults + 1 /\ UNCHANGED dkg

Poll(m) ==
    /\ m \notin Offline /\ At(m, "idle")
    /\ \/ dkg.epoch # 0 /\ daemon' = [daemon EXCEPT ![m].pc = "commit", ![m].epoch = dkg.epoch]
       \/ dkg.epoch = 0 /\ active.id = 0 /\ nextEpoch <= MaxEpochs /\ Goto(m, "begin")
    /\ UNCHANGED <<dkg, active, nextEpoch, penalties, disk, drawn, faults>>

\* maybeBeginEpoch: the check of the poll may be stale by now.
BeginEpoch(m) ==
    /\ At(m, "begin") /\ Stop(m)
    /\ IF dkg.epoch = 0 /\ nextEpoch <= MaxEpochs
       THEN /\ dkg' = [NoDkg EXCEPT !.epoch = nextEpoch]
            /\ nextEpoch' = nextEpoch + 1
            /\ penalties' = [x \in Members |-> 0]
       ELSE UNCHANGED <<dkg, nextEpoch, penalties>>
    /\ UNCHANGED <<active, disk, drawn, faults>>

\* Mutant: the polynomial is kept whether or not the chain took the commitment.
handleDkgCommitKeepsDraft(m) ==
    LET e == daemon[m].epoch
        poly == IF drawn[m] < MaxPolys THEN drawn[m] + 1 ELSE MaxPolys
    IN  /\ At(m, "commit")
        /\ \/ has(m, e) /\ Goto(m, "read1") /\ UNCHANGED <<dkg, drawn, faults>>
           \/ /\ ~has(m, e)
              /\ drawn' = [drawn EXCEPT ![m] = poly]
              /\ Goto(m, "save")
              /\ Send(AcceptsCommit(e, m), DkgCommit(m, poly))
        /\ UNCHANGED <<active, nextEpoch, penalties, disk>>

\* A fresh polynomial is committed to first and saved only if the chain's
\* answer arrives: the third disjunct is a commitment whose answer is lost.
handleDkgCommit(m) ==
    LET e == daemon[m].epoch
        poly == IF drawn[m] < MaxPolys THEN drawn[m] + 1 ELSE MaxPolys
        ok == AcceptsCommit(e, m)
    IN  /\ At(m, "commit")
        /\ \/ has(m, e) /\ Goto(m, "read1") /\ UNCHANGED <<dkg, drawn, faults>>
           \/ /\ ~has(m, e) /\ ok
              /\ dkg' = DkgCommit(m, poly)
              /\ drawn' = [drawn EXCEPT ![m] = poly]
              /\ Goto(m, "save") /\ UNCHANGED faults
           \/ /\ ~has(m, e) /\ faults < MaxFaults /\ ok
              /\ dkg' = DkgCommit(m, poly)
              /\ drawn' = [drawn EXCEPT ![m] = poly]
              /\ Goto(m, "read1") /\ faults' = faults + 1
           \/ /\ ~has(m, e) /\ faults < MaxFaults /\ ok
              /\ Goto(m, "read1") /\ faults' = faults + 1 /\ UNCHANGED <<dkg, drawn>>
           \/ ~has(m, e) /\ ~ok /\ Goto(m, "read1") /\ UNCHANGED <<dkg, drawn, faults>>
        /\ UNCHANGED <<active, nextEpoch, penalties, disk>>

SavePoly(m) ==
    /\ At(m, "save") /\ Goto(m, "read1")
    /\ disk' = [disk EXCEPT ![m] = [epoch |-> daemon[m].epoch, poly |-> drawn[m], sum |-> {}]]
    /\ UNCHANGED <<dkg, active, nextEpoch, penalties, drawn, faults>>

\* What the re-read DKG calls for: shares to members with an ephemeral key that
\* have none from us, and complaints about everybody else who committed.
SharesDue(m, e) ==
    {to \in Committed(dkg) \ {m} :
        Loads(m, e) /\ dkg.commits[m] # 0 /\ \A ok \in BOOLEAN : <<m, to, ok>> \notin dkg.shares}
ComplaintsDue(m) ==
    {d \in Committed(dkg) \ {m} : dkg.commits[m] # 0 /\ <<m, d>> \notin dkg.complaints}

ReadAfterCommit(m) ==
    LET todo == SharesDue(m, daemon[m].epoch)
        accuse == ComplaintsDue(m)
    IN  /\ At(m, "read1")
        /\ IF dkg.epoch = 0 THEN Stop(m)
           ELSE daemon' = [daemon EXCEPT ![m].todo = todo, ![m].accuse = accuse,
                     ![m].pc = IF todo # {} THEN "share" ELSE IF accuse # {} THEN "complain" ELSE "read2"]
        /\ UNCHANGED <<dkg, active, nextEpoch, penalties, disk, drawn, faults>>

handleDkgEncryptedShares(m) ==
    LET to == MinOf(daemon[m].todo)
        rest == daemon[m].todo \ {to}
    IN  /\ At(m, "share")
        /\ Send(AcceptsShare(daemon[m].epoch, m, to, disk[m].poly), DkgEncryptedShare(m, to))
        /\ daemon' = [daemon EXCEPT ![m].todo = rest,
                 ![m].pc = IF rest # {} THEN "share" ELSE IF daemon[m].accuse # {} THEN "complain" ELSE "read2"]
        /\ UNCHANGED <<active, nextEpoch, penalties, disk, drawn>>

handleDkgComplaints(m) ==
    LET d == MinOf(daemon[m].accuse)
        rest == daemon[m].accuse \ {d}
    IN  /\ At(m, "complain")
        /\ Send(AcceptsComplaint(daemon[m].epoch, m, d), DkgComplaintMissing(m, d))
        /\ daemon' = [daemon EXCEPT ![m].accuse = rest,
                                    ![m].pc = IF rest # {} THEN "complain" ELSE "read2"]
        /\ UNCHANGED <<active, nextEpoch, penalties, disk, drawn>>

ReadAfterComplaints(m) ==
    LET todo == {c \in Complainers(dkg, m) : Loads(m, daemon[m].epoch) /\ <<m, c>> \notin dkg.reveals}
    IN  /\ At(m, "read2")
        /\ IF dkg.epoch = 0 THEN Stop(m)
           ELSE daemon' = [daemon EXCEPT ![m].todo = todo,
                                         ![m].pc = IF todo # {} THEN "reveal" ELSE "read3"]
        /\ UNCHANGED <<dkg, active, nextEpoch, penalties, disk, drawn, faults>>

handleDkgReveals(m) ==
    LET to == MinOf(daemon[m].todo)
        rest == daemon[m].todo \ {to}
    IN  /\ At(m, "reveal")
        /\ Send(AcceptsReveal(daemon[m].epoch, m, to, disk[m].poly), DkgShareReveal(m, to))
        /\ daemon' = [daemon EXCEPT ![m].todo = rest,
                                    ![m].pc = IF rest # {} THEN "reveal" ELSE "read3"]
        /\ UNCHANGED <<active, nextEpoch, penalties, disk, drawn>>

\* Dealers whose ciphertext for m opens, and those whose does not.
Opened(m) == {d \in Members \ {m} : <<d, m, TRUE>> \in dkg.shares /\ dkg.commits[m] = disk[m].poly}
Unopened(m) == {d \in Members \ {m} : \E ok \in BOOLEAN : <<d, m, ok>> \in dkg.shares} \ Opened(m)

Counted(m)  == (Opened(m) \cup {d \in Members : <<d, m>> \in dkg.reveals}) \ dkg.slashed
Expected(m) == Qualified(dkg) \ {m}

Enough(m) == Cardinality(Counted(m)) >= Cardinality(Expected(m))

\* Mutant: a daemon that has its share leaves the finalization to others.
ReadAfterRevealsOnce(m) ==
    /\ At(m, "read3")
    /\ IF dkg.epoch = 0 \/ ~Loads(m, daemon[m].epoch) \/ disk[m].sum # {} THEN Stop(m)
       ELSE daemon' = [daemon EXCEPT ![m].todo = Unopened(m),
                ![m].draft = IF Enough(m) THEN Counted(m) \cup {m} ELSE {},
                ![m].pc = IF Unopened(m) # {} THEN "aead" ELSE "saveSum"]
    /\ UNCHANGED <<dkg, active, nextEpoch, penalties, disk, drawn, faults>>

ReadAfterReveals(m) ==
    /\ At(m, "read3")
    /\ IF dkg.epoch = 0 \/ ~Loads(m, daemon[m].epoch) THEN Stop(m)
       ELSE IF disk[m].sum # {} THEN Goto(m, "finalize")
       ELSE daemon' = [daemon EXCEPT ![m].todo = Unopened(m),
                ![m].draft = IF Enough(m) THEN Counted(m) \cup {m} ELSE {},
                ![m].pc = IF Unopened(m) # {} THEN "aead" ELSE "saveSum"]
    /\ UNCHANGED <<dkg, active, nextEpoch, penalties, disk, drawn, faults>>

\* collectEncryptedShareScalars: a complaint about a share that does not open.
complainAEADBad(m) ==
    LET d == MinOf(daemon[m].todo)
        rest == daemon[m].todo \ {d}
        ok == AcceptsComplaint(daemon[m].epoch, m, d) /\ dkg.commits[m] = disk[m].poly
    IN  /\ At(m, "aead")
        /\ Send(ok, DkgComplaintAEADBad(m, d))
        /\ penalties' = Penalise(dkg'.slashed)
        /\ daemon' = [daemon EXCEPT ![m].todo = rest,
                                    ![m].pc = IF rest # {} THEN "aead" ELSE "saveSum"]
        /\ UNCHANGED <<active, nextEpoch, disk, drawn>>

\* handleDkgAggregate, from what the last read showed.
SaveSum(m) ==
    /\ At(m, "saveSum")
    /\ IF daemon[m].draft = {} THEN Stop(m) /\ UNCHANGED disk
       ELSE Goto(m, "finalize") /\ disk' = [disk EXCEPT ![m].sum = daemon[m].draft]
    /\ UNCHANGED <<dkg, active, nextEpoch, penalties, drawn, faults>>

FinalizeEpoch(m) ==
    /\ At(m, "finalize") /\ Stop(m)
    /\ IF InFlight(daemon[m].epoch) /\ dkg.age > RevealDeadline
       THEN finalizeEpoch({})
       ELSE UNCHANGED <<dkg, active, penalties>>
    /\ UNCHANGED <<nextEpoch, disk, drawn, faults>>

\* The process dies and is started again.  A write that was under way leaves the
\* old file or an unreadable one (a finished write is SavePoly before Crash).
Crash(m) ==
    /\ faults < MaxFaults /\ faults' = faults + 1
    /\ ~At(m, "idle") /\ Stop(m)
    /\ \/ UNCHANGED disk
       \/ /\ daemon[m].pc \in {"save", "saveSum"}
          /\ disk' = [disk EXCEPT ![m] = [epoch |-> daemon[m].epoch, poly |-> Torn, sum |-> {}]]
    /\ UNCHANGED <<dkg, active, nextEpoch, penalties, drawn>>

-----------------------------------------------------------------------------
DkgStart(situation) ==
    /\ dkg = NoDkg
    /\ active = [id |-> 0, qual |-> {}, transcript |-> NoDkg]
    /\ nextEpoch = 1
    /\ penalties = [m \in Members |-> 0]
    /\ daemon = [m \in Members |-> Idle]
    /\ disk = [m \in Members |-> NoFile]
    /\ drawn = [m \in Members |-> 0]
    /\ faults = 0
    /\ who = situation

DkgInit == \E situation \in Situations : DkgStart(situation)

Step(m) ==
    /\ \/ Poll(m) \/ BeginEpoch(m)
       \/ handleDkgCommit(m) \/ SavePoly(m)
       \/ ReadAfterCommit(m) \/ handleDkgEncryptedShares(m) \/ handleDkgComplaints(m)
       \/ ReadAfterComplaints(m) \/ handleDkgReveals(m)
       \/ ReadAfterReveals(m) \/ complainAEADBad(m) \/ SaveSum(m) \/ FinalizeEpoch(m)
    /\ UNCHANGED who

Chain ==
    /\ NextBlock \/ DkgTimeout \/ \E c, m \in Members : ComplainInvalid(c, m)
    /\ UNCHANGED who

DkgNext ==
    \/ Chain
    \/ \E m \in Members : Step(m) \/ (Crash(m) /\ UNCHANGED who)

DkgSpec == DkgInit /\ [][DkgNext]_dkgVars

-----------------------------------------------------------------------------
\* handleDkgCommit saves a polynomial only once the chain has its commitment: a
\* readable file of the epoch in flight always holds the polynomial that the chain
\* will check this member's shares against.
SavedPolyIsCommitted ==
    \A m \in Members : Loads(m, dkg.epoch) /\ dkg.epoch # 0 => dkg.commits[m] = disk[m].poly

\* handleDkgAggregate waits for every member that is still qualified: a sum on
\* disk leaves nobody out who has not been slashed so far.
SumCoversQualified ==
    \A m \in Members :
        Loads(m, dkg.epoch) /\ dkg.epoch # 0 /\ disk[m].sum # {} => Qualified(dkg) \subseteq disk[m].sum

\* A validator loses stake at most once per DKG, whichever handlers find it at
\* fault and however often they run.
PenalisedOnce == \A m \in Members : penalties[m] <= 1

\* finalizeEpoch takes into the key nobody without a commitment or with a complaint
\* that no plaintext reveal answers, and enough members to decrypt; whoever else it
\* leaves out has been proved to send wrong shares, or to sign shares with no commitment.
QualifiedIffAnswered ==
    LET t == active.transcript
        unanswered == MissingCommits(t) \cup Unresolved(t)
    IN  active.id # 0 =>
          /\ Cardinality(active.qual) >= Threshold
          /\ active.qual \cap unanswered = {}
          /\ (Members \ active.qual) \subseteq (unanswered \cup Garblers \cup t.invalid)

\* sk_j is the sum over QUAL: a member's file for the active epoch sums exactly the
\* dealers whose commitments make up its public share.
SumMatchesEpoch ==
    \A m \in Members :
        Loads(m, active.id) /\ active.id # 0 /\ disk[m].sum # {} => disk[m].sum = active.qual

\* "so a dealer can cure a missing-share complaint by posting the encrypted share":
\* a dealer that committed, sent everybody who complained a ciphertext that opens, and
\* against whom nothing was proved, is in the key.  It is not: finalizeEpoch looks for a
\* plaintext reveal, which no handler accepts in version 2.
CuredDealersQualify ==
    LET t == active.transcript
        cured == {m \in Committed(t) \ t.invalid :
                    \A c \in Complainers(t, m) : <<m, c, TRUE>> \in t.shares}
    IN  active.id # 0 => cured \subseteq active.qual

\* "Check if we already committed for this epoch": the check finds a commitment
\* that the chain already has.  It does not hold once the chain's answer was lost.
CommitCheckIsRight ==
    \A m \in Members : At(m, "commit") /\ InFlight(daemon[m].epoch) /\ dkg.commits[m] # 0
                        => has(m, daemon[m].epoch)

\* A daemon that runs, has its file and can read a share of every dealer that is not
\* slashed.
Ready(m) == dkg.epoch # 0 /\ m \notin Offline /\ Loads(m, dkg.epoch) /\ Enough(m)

\* It goes on until the DKG is over or its file is torn, however often it comes too
\* early, whatever is lost and whoever stops: each poll sums, and each poll after that
\* sends FinalizeEpoch again (handleDkgAggregate, maybeFinalizeEpoch).
ReadyDaemonFinalizes == []<>(\A m \in Members : ~Ready(m))

\* Whatever crashes, is torn or lost on the way, what a daemon keeps on disk is what
\* the chain holds it to: the polynomial it committed to, and a secret share that
\* lacks no dealer of the key.
FilesMatchChain == SavedPolyIsCommitted /\ SumCoversQualified

\* Complaints of all three kinds, answers, timeouts and the finalization, in any order,
\* exclude those who left one unanswered or were proved wrong and nobody else, and fine
\* nobody twice.
DkgIsFair == QualifiedIffAnswered /\ PenalisedOnce
=============================================================================
