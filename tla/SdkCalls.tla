------------------------------- MODULE SdkCalls -------------------------------
(* The transactions of the SDK's client (packages/ocp-sdk/src/cosmos/client.ts): *)
(* what each call makes of its arguments, and the message that the chain's     *)
(* decoder then reads.  A call is the class of the message it sends and how it *)
(* fills each field.                                                           *)
EXTENDS Wire

CONSTANTS Absent, Malformed    \* an argument left out, and one that is refused

VARIABLES
  call,      \* the call under way, or Absent
  args,      \* its arguments by name
  received   \* the message as the chain has it; Absent if the call threw

callVars == <<call, args, received>>

Address == 99      \* signing.address

\* (a.x ?? signing.address).trim(), and a.x.trim()
Signer(n) == [name |-> n, arg |-> n, missing |-> Address, checked |-> FALSE]
Account(n) == [name |-> n, arg |-> n, missing |-> Malformed, checked |-> FALSE]
\* toU64String, which throws on what is no unsigned integer; u64 falls back to "0"
U64(n) == [name |-> n, arg |-> n, missing |-> Malformed, checked |-> TRUE]
U64Or0(n) == [name |-> n, arg |-> n, missing |-> 0, checked |-> TRUE]
\* as given, or with ?? 0, ?? "" and ?? new Uint8Array(0)
Given(n) == [name |-> n, arg |-> n, missing |-> Malformed, checked |-> FALSE]
OrNone(n) == [name |-> n, arg |-> n, missing |-> 0, checked |-> FALSE]

\* refused when its length is wrong
Sized(n) == [name |-> n, arg |-> n, missing |-> Malformed, checked |-> TRUE]

Sends(msg, fields) == [msg |-> msg, fields |-> fields]

pokerCreateTable == Sends("MsgCreateTable",
  {Signer("creator"), U64("smallBlind"), U64("bigBlind"), U64("minBuyIn"), U64("maxBuyIn"),
   U64Or0("actionTimeoutSecs"), U64Or0("dealerTimeoutSecs"), U64Or0("playerBond"),
   OrNone("rakeBps"), OrNone("maxPlayers"), OrNone("label"),
   OrNone("passwordCommitment"), OrNone("passwordSalt")})
pokerSit == Sends("MsgSit",
  {Signer("player"), U64("tableId"), U64("buyIn"), Given("pkPlayer"), OrNone("passwordProof")})
pokerStartHand == Sends("MsgStartHand", {Signer("caller"), U64("tableId")})
pokerAct == Sends("MsgAct",
  {Signer("player"), U64("tableId"), Given("action"), U64Or0("amount")})
pokerTick == Sends("MsgTick", {Signer("caller"), U64("tableId")})
pokerLeave == Sends("MsgLeave", {Signer("player"), U64("tableId")})
pokerRebuy == Sends("MsgRebuy", {Signer("player"), U64("tableId"), U64("amount")})
dealerBeginEpoch == Sends("MsgBeginEpoch",
  {Signer("caller"), U64Or0("epochId"), Given("committeeSize"), Given("threshold"),
   OrNone("randEpoch"), U64Or0("commitBlocks"), U64Or0("complaintBlocks"),
   U64Or0("revealBlocks"), U64Or0("finalizeBlocks")})
dealerDkgCommit == Sends("MsgDkgCommit",
  {Account("dealer"), U64("epochId"), Given("commitments"), OrNone("ephemeralPubkey")})
dealerDkgEncryptedShare == Sends("MsgDkgEncryptedShare",
  {Account("dealer"), U64("epochId"), Given("recipientIndex"), Given("u"), Given("v"),
   Given("proof"), Given("scalarCt")})
dealerDkgComplaintMissing == Sends("MsgDkgComplaintMissing",
  {Account("complainer"), U64("epochId"), Account("dealer")})
dealerDkgComplaintInvalid == Sends("MsgDkgComplaintInvalid",
  {Account("complainer"), U64("epochId"), Account("dealer"), Given("shareMsg")})
dealerDkgComplaintAEADBad == Sends("MsgDkgComplaintAEADBad",
  {Account("complainer"), U64("epochId"), Account("dealer"), Given("recipientIndex"),
   Sized("dhShare"), Sized("dleqProof")})
dealerDkgShareReveal == Sends("MsgDkgShareReveal",
  {Account("dealer"), U64("epochId"), Account("to"), Given("share")})
dealerFinalizeEpoch == Sends("MsgFinalizeEpoch", {Signer("caller"), U64("epochId")})
dealerDkgTimeout == Sends("MsgDkgTimeout", {Signer("caller"), U64("epochId")})
dealerInitHand == Sends("MsgInitHand",
  {Signer("caller"), U64("tableId"), U64("handId"), U64("epochId"), OrNone("deckSize")})
dealerSubmitShuffle == Sends("MsgSubmitShuffle",
  {Account("shuffler"), U64("tableId"), U64("handId"), Given("round"), Given("proofShuffle")})
dealerFinalizeDeck == Sends("MsgFinalizeDeck",
  {Signer("caller"), U64("tableId"), U64("handId")})
dealerSubmitPubShare == Sends("MsgSubmitPubShare",
  {Account("validator"), U64("tableId"), U64("handId"), Given("pos"), Given("pubShare"),
   Given("proofShare")})
\* Mutant: the share is put where its proof belongs.
dealerSubmitEncShareTwice == Sends("MsgSubmitEncShare",
  {Account("validator"), U64("tableId"), U64("handId"), Given("pos"), Given("pkPlayer"),
   Given("encShare"), [Given("proofEncShare") EXCEPT !.arg = "encShare"]})
dealerSubmitEncShare == Sends("MsgSubmitEncShare",
  {Account("validator"), U64("tableId"), U64("handId"), Given("pos"), Given("pkPlayer"),
   Given("encShare"), Given("proofEncShare")})
dealerFinalizeReveal == Sends("MsgFinalizeReveal",
  {Signer("caller"), U64("tableId"), U64("handId"), Given("pos")})
dealerTimeout == Sends("MsgTimeout", {Signer("caller"), U64("tableId"), U64("handId")})
dealerBeaconCommit == Sends("MsgBeaconCommit",
  {Account("validator"), U64("epochId"), Given("commit")})
dealerBeaconReveal == Sends("MsgBeaconReveal",
  {Account("validator"), U64("epochId"), Given("salt")})

Calls ==
  {pokerCreateTable, pokerSit, pokerStartHand, pokerAct, pokerTick, pokerLeave, pokerRebuy,
   dealerBeginEpoch, dealerDkgCommit, dealerDkgEncryptedShare, dealerDkgComplaintMissing,
   dealerDkgComplaintInvalid, dealerDkgComplaintAEADBad, dealerDkgShareReveal,
   dealerFinalizeEpoch, dealerDkgTimeout, dealerInitHand, dealerSubmitShuffle,
   dealerFinalizeDeck, dealerSubmitPubShare, dealerSubmitEncShare, dealerFinalizeReveal,
   dealerTimeout, dealerBeaconCommit, dealerBeaconReveal}

------------------------------------------------------------------------------
Required(c) == {f.name : f \in {g \in c.fields : g.missing = Malformed}}
Checked(c) == {f.name : f \in {g \in c.fields : g.checked}}

\* An argument is a value of its own, so that no two fields have the same; a list
\* holds one.
Argument(c, n) ==
  LET f == FieldOf(c.msg, n) IN IF f.rep THEN <<f.num>> ELSE f.num

\* the arguments that a program may pass: all of them, all that are required, one
\* more or one less than these, or one that is refused
Passed(c) ==
  LET names == {f.name : f \in c.fields}
      pick(S) == [n \in names |-> IF n \in S THEN Argument(c, n) ELSE Absent]
  IN  {pick(names), pick(Required(c))}
      \cup {pick(Required(c) \cup {n}) : n \in names}
      \cup {pick(names \ {n}) : n \in names \ Required(c)}
      \cup {[pick(names) EXCEPT ![n] = Malformed] : n \in Checked(c)}

\* what a call refuses before it builds a message
PasswordHalfGiven(a) == (a["passwordCommitment"] = Absent) # (a["passwordSalt"] = Absent)

Throws(c, a) ==
  \/ \E f \in c.fields : f.checked /\ a[f.arg] = Malformed
  \/ c.msg = "MsgCreateTable" /\ PasswordHalfGiven(a)

Message(c, a) ==
  LET field(n) == CHOOSE f \in c.fields : f.name = n
  IN  [n \in {f.name : f \in c.fields} |->
         IF a[field(n).arg] = Absent THEN field(n).missing ELSE a[field(n).arg]]

\* the call, its encoding by the registry's class, and the chain's reading of it
Invoke(c, a) ==
  /\ call = Absent
  /\ call' = c
  /\ args' = a
  /\ received' = IF Throws(c, a) THEN Absent
                 ELSE Decode(c.msg, Encode(c.msg, fromPartial(c.msg, Message(c, a))))

CallsInit == call = Absent /\ args = Absent /\ received = Absent

CallsNext == \E c \in Calls : \E a \in Passed(c) : Invoke(c, a)

------------------------------------------------------------------------------
(* The chain gets every argument of a call in the field of that name, the     *)
(* signer's own address where the account was left out and the class's        *)
(* default where another argument was; a call with a malformed number, a      *)
(* proof of the wrong length or half a password sends nothing (the calls of   *)
(* client.ts).                                                                *)
CallsDeliverArguments ==
  call # Absent =>
    IF (\E n \in DOMAIN args : args[n] = Malformed)
       \/ (call.msg = "MsgCreateTable" /\ PasswordHalfGiven(args))
    THEN received = Absent
    ELSE
    /\ Names(call.msg) = {f.name : f \in call.fields}
    /\ \A n \in Names(call.msg) :
         received[n] = IF args[n] # Absent THEN args[n]
                       ELSE IF FieldOf(call.msg, n).num = 1 THEN Address
                       ELSE Default(FieldOf(call.msg, n))
=============================================================================
