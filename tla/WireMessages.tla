---------------------------- MODULE WireMessages ----------------------------
(***************************************************************************)
(* The message classes of the SDK, field by field: number and type of each *)
(* field, in the order in which the class's encode writes them.            *)
(***************************************************************************)
EXTENDS Integers

\* A field, and a repeated field.
F(num, name, kind) == [num |-> num, name |-> name, kind |-> kind, rep |-> FALSE]
R(num, name, kind) == [num |-> num, name |-> name, kind |-> kind, rep |-> TRUE]

Enums == [HandPhase |-> 0..7, Street |-> 0..4]
Varints == {"uint32", "uint64", "int32", "int64", "bool"} \cup DOMAIN Enums

-----------------------------------------------------------------------------
(* x/dealer: state *)

DealerGenesisState ==
    <<F(1, "nextEpochId", "uint64"), F(2, "epoch", "DealerEpoch"),
      F(3, "dkg", "DealerDKG"), F(4, "params", "Params"),
      F(5, "beacon", "BeaconState")>>
Params ==
    <<F(1, "slashBpsDkg", "uint32"), F(2, "slashBpsHandDealer", "uint32"),
      F(3, "jailSecondsDkg", "uint64"), F(4, "jailSecondsHandDealer", "uint64"),
      F(5, "dkgVersion", "uint32")>>
DealerMember ==
    <<F(1, "validator", "string"), F(2, "index", "uint32"),
      F(3, "pubShare", "bytes"), F(4, "consPubkey", "bytes"),
      F(5, "power", "int64"), F(6, "ephemeralPubkey", "bytes")>>
DealerEpoch ==
    <<F(1, "epochId", "uint64"), F(2, "threshold", "uint32"),
      F(3, "pkEpoch", "bytes"), F(4, "transcriptRoot", "bytes"),
      F(7, "startHeight", "int64"), R(5, "slashed", "string"),
      R(6, "members", "DealerMember")>>
DealerDKGCommit == <<F(1, "dealer", "string"), R(2, "commitments", "bytes")>>
DealerDKGEncryptedShare ==
    <<F(1, "dealer", "string"), F(2, "recipientIndex", "uint32"),
      F(3, "u", "bytes"), F(4, "v", "bytes"), F(5, "proof", "bytes"),
      F(6, "scalarCt", "bytes")>>
DealerDKGComplaint ==
    <<F(1, "epochId", "uint64"), F(2, "complainer", "string"),
      F(3, "dealer", "string"), F(4, "kind", "string"),
      F(5, "shareMsg", "bytes")>>
DealerDKGShareReveal ==
    <<F(1, "epochId", "uint64"), F(2, "dealer", "string"), F(3, "to", "string"),
      F(4, "share", "bytes")>>
DealerDKG ==
    <<F(1, "epochId", "uint64"), F(2, "threshold", "uint32"),
      R(3, "members", "DealerMember"), F(4, "startHeight", "int64"),
      F(5, "commitDeadline", "int64"), F(6, "complaintDeadline", "int64"),
      F(7, "revealDeadline", "int64"), F(8, "finalizeDeadline", "int64"),
      F(9, "randEpoch", "bytes"), R(10, "commits", "DealerDKGCommit"),
      R(11, "complaints", "DealerDKGComplaint"),
      R(12, "reveals", "DealerDKGShareReveal"), R(13, "slashed", "string"),
      R(14, "encryptedShares", "DealerDKGEncryptedShare")>>
DealerCiphertext == <<F(1, "c1", "bytes"), F(2, "c2", "bytes")>>
DealerPubShare ==
    <<F(1, "pos", "uint32"), F(2, "validator", "string"),
      F(3, "index", "uint32"), F(4, "share", "bytes"), F(5, "proof", "bytes")>>
DealerEncShare ==
    <<F(1, "pos", "uint32"), F(2, "validator", "string"),
      F(3, "index", "uint32"), F(4, "pkPlayer", "bytes"),
      F(5, "encShare", "bytes"), F(6, "proof", "bytes")>>
DealerReveal == <<F(1, "pos", "uint32"), F(2, "cardId", "uint32")>>
BeaconState ==
    <<F(1, "epochId", "uint64"), F(2, "commitOpenHeight", "int64"),
      F(3, "commitCloseHeight", "int64"), F(4, "revealCloseHeight", "int64"),
      F(5, "threshold", "uint32"), R(6, "commits", "BeaconCommitEntry"),
      R(7, "reveals", "BeaconRevealEntry"), F(8, "final", "bytes"),
      F(9, "fallback", "bool")>>
BeaconCommitEntry == <<F(1, "validator", "string"), F(2, "commit", "bytes")>>
BeaconRevealEntry == <<F(1, "validator", "string"), F(2, "salt", "bytes")>>
DealerHand ==
    <<F(1, "epochId", "uint64"), F(2, "pkHand", "bytes"),
      F(3, "deckSize", "uint32"), R(4, "deck", "DealerCiphertext"),
      F(5, "shuffleStep", "uint32"), F(6, "finalized", "bool"),
      F(7, "shuffleDeadline", "int64"), F(8, "holeSharesDeadline", "int64"),
      R(9, "pubShares", "DealerPubShare"), R(10, "encShares", "DealerEncShare"),
      R(11, "reveals", "DealerReveal"), F(20, "initHeight", "int64"),
      F(21, "initHashSalt", "bytes")>>

-----------------------------------------------------------------------------
(* x/dealer: transactions *)

MsgBeginEpoch ==
    <<F(1, "caller", "string"), F(2, "epochId", "uint64"),
      F(3, "committeeSize", "uint32"), F(4, "threshold", "uint32"),
      F(5, "randEpoch", "bytes"), F(6, "commitBlocks", "uint64"),
      F(7, "complaintBlocks", "uint64"), F(8, "revealBlocks", "uint64"),
      F(9, "finalizeBlocks", "uint64")>>
MsgBeginEpochResponse == <<>>
MsgDkgCommit ==
    <<F(1, "dealer", "string"), F(2, "epochId", "uint64"),
      R(3, "commitments", "bytes"), F(4, "ephemeralPubkey", "bytes")>>
MsgDkgCommitResponse == <<>>
MsgDkgComplaintMissing ==
    <<F(1, "complainer", "string"), F(2, "epochId", "uint64"),
      F(3, "dealer", "string")>>
MsgDkgComplaintMissingResponse == <<>>
MsgDkgComplaintInvalid ==
    <<F(1, "complainer", "string"), F(2, "epochId", "uint64"),
      F(3, "dealer", "string"), F(4, "shareMsg", "bytes")>>
MsgDkgComplaintInvalidResponse == <<>>
MsgDkgComplaintAEADBad ==
    <<F(1, "complainer", "string"), F(2, "epochId", "uint64"),
      F(3, "dealer", "string"), F(4, "recipientIndex", "uint32"),
      F(5, "dhShare", "bytes"), F(6, "dleqProof", "bytes")>>
MsgDkgComplaintAEADBadResponse == <<>>
MsgDkgShareReveal ==
    <<F(1, "dealer", "string"), F(2, "epochId", "uint64"), F(3, "to", "string"),
      F(4, "share", "bytes")>>
MsgDkgShareRevealResponse == <<>>
MsgDkgEncryptedShare ==
    <<F(1, "dealer", "string"), F(2, "epochId", "uint64"),
      F(3, "recipientIndex", "uint32"), F(4, "u", "bytes"), F(5, "v", "bytes"),
      F(6, "proof", "bytes"), F(7, "scalarCt", "bytes")>>
MsgDkgEncryptedShareResponse == <<>>
MsgFinalizeEpoch == <<F(1, "caller", "string"), F(2, "epochId", "uint64")>>
MsgFinalizeEpochResponse == <<>>
MsgDkgTimeout == <<F(1, "caller", "string"), F(2, "epochId", "uint64")>>
MsgDkgTimeoutResponse == <<>>
MsgOpenBeaconWindow ==
    <<F(1, "caller", "string"), F(2, "epochId", "uint64"),
      F(3, "commitBlocks", "uint64"), F(4, "revealBlocks", "uint64"),
      F(5, "threshold", "uint32")>>
MsgOpenBeaconWindowResponse == <<>>
MsgBeaconCommit ==
    <<F(1, "validator", "string"), F(2, "epochId", "uint64"),
      F(3, "commit", "bytes")>>
MsgBeaconCommitResponse == <<>>
MsgBeaconReveal ==
    <<F(1, "validator", "string"), F(2, "epochId", "uint64"),
      F(3, "salt", "bytes")>>
MsgBeaconRevealResponse == <<>>
MsgInitHand ==
    <<F(1, "caller", "string"), F(2, "tableId", "uint64"),
      F(3, "handId", "uint64"), F(4, "epochId", "uint64"),
      F(5, "deckSize", "uint32")>>
MsgInitHandResponse == <<>>
MsgSubmitShuffle ==
    <<F(1, "shuffler", "string"), F(2, "tableId", "uint64"),
      F(3, "handId", "uint64"), F(4, "round", "uint32"),
      F(5, "proofShuffle", "bytes")>>
MsgSubmitShuffleResponse == <<>>
MsgFinalizeDeck ==
    <<F(1, "caller", "string"), F(2, "tableId", "uint64"),
      F(3, "handId", "uint64")>>
MsgFinalizeDeckResponse == <<>>
MsgSubmitPubShare ==
    <<F(1, "validator", "string"), F(2, "tableId", "uint64"),
      F(3, "handId", "uint64"), F(4, "pos", "uint32"), F(5, "pubShare", "bytes"),
      F(6, "proofShare", "bytes")>>
MsgSubmitPubShareResponse == <<>>
MsgSubmitEncShare ==
    <<F(1, "validator", "string"), F(2, "tableId", "uint64"),
      F(3, "handId", "uint64"), F(4, "pos", "uint32"), F(5, "pkPlayer", "bytes"),
      F(6, "encShare", "bytes"), F(7, "proofEncShare", "bytes")>>
MsgSubmitEncShareResponse == <<>>
MsgFinalizeReveal ==
    <<F(1, "caller", "string"), F(2, "tableId", "uint64"),
      F(3, "handId", "uint64"), F(4, "pos", "uint32")>>
MsgFinalizeRevealResponse == <<>>
MsgTimeout ==
    <<F(1, "caller", "string"), F(2, "tableId", "uint64"),
      F(3, "handId", "uint64")>>
MsgTimeoutResponse == <<>>

-----------------------------------------------------------------------------
(* x/dealer: queries *)

QueryParamsRequest == <<>>
QueryParamsResponse == <<F(1, "params", "Params")>>
QueryEpochRequest == <<>>
QueryEpochResponse == <<F(1, "epoch", "DealerEpoch")>>
QueryDkgRequest == <<>>
QueryDkgResponse == <<F(1, "dkg", "DealerDKG")>>
QueryHandRequest == <<F(1, "tableId", "uint64"), F(2, "handId", "uint64")>>
QueryHandResponse == <<F(1, "hand", "DealerHand")>>

-----------------------------------------------------------------------------
(* x/poker: state *)

PokerGenesisState == <<F(1, "nextTableId", "uint64"), R(2, "tables", "Table")>>
TableParams ==
    <<F(1, "maxPlayers", "uint32"), F(2, "smallBlind", "uint64"),
      F(3, "bigBlind", "uint64"), F(4, "minBuyIn", "uint64"),
      F(5, "maxBuyIn", "uint64"), F(6, "actionTimeoutSecs", "uint64"),
      F(7, "dealerTimeoutSecs", "uint64"), F(8, "playerBond", "uint64"),
      F(9, "rakeBps", "uint32"), F(10, "passwordHash", "bytes"),
      F(11, "passwordSalt", "bytes")>>
Seat ==
    <<F(1, "player", "string"), F(2, "pk", "bytes"), F(3, "stack", "uint64"),
      F(4, "bond", "uint64"), R(5, "hole", "uint32")>>
DealerMeta ==
    <<F(1, "epochId", "uint64"), F(2, "deckSize", "uint32"),
      F(3, "deckFinalized", "bool"), R(4, "holePos", "uint32"),
      F(5, "cursor", "uint32"), F(6, "revealPos", "uint32"),
      F(7, "revealDeadline", "int64")>>
Hand ==
    <<F(1, "handId", "uint64"), F(2, "phase", "HandPhase"),
      F(3, "street", "Street"), F(4, "buttonSeat", "int32"),
      F(5, "smallBlindSeat", "int32"), F(6, "bigBlindSeat", "int32"),
      F(7, "actionOn", "int32"), F(8, "betTo", "uint64"),
      F(9, "minRaiseSize", "uint64"), F(10, "intervalId", "uint64"),
      R(11, "inHand", "bool"), R(12, "folded", "bool"), R(13, "allIn", "bool"),
      R(14, "streetCommit", "uint64"), R(15, "totalCommit", "uint64"),
      R(16, "lastIntervalActed", "int32"), R(17, "board", "uint32"),
      F(18, "actionDeadline", "int64"), F(19, "dealer", "DealerMeta")>>
Table ==
    <<F(1, "id", "uint64"), F(2, "creator", "string"), F(3, "label", "string"),
      F(4, "params", "TableParams"), R(5, "seats", "Seat"),
      F(6, "nextHandId", "uint64"), F(7, "buttonSeat", "int32"),
      F(8, "hand", "Hand")>>

-----------------------------------------------------------------------------
(* x/poker: transactions *)

MsgCreateTable ==
    <<F(1, "creator", "string"), F(2, "smallBlind", "uint64"),
      F(3, "bigBlind", "uint64"), F(4, "minBuyIn", "uint64"),
      F(5, "maxBuyIn", "uint64"), F(6, "actionTimeoutSecs", "uint64"),
      F(7, "dealerTimeoutSecs", "uint64"), F(8, "playerBond", "uint64"),
      F(9, "rakeBps", "uint32"), F(10, "maxPlayers", "uint32"),
      F(11, "label", "string"), F(13, "passwordCommitment", "bytes"),
      F(14, "passwordSalt", "bytes")>>
MsgCreateTableResponse == <<F(1, "tableId", "uint64")>>
MsgSit ==
    <<F(1, "player", "string"), F(2, "tableId", "uint64"),
      F(4, "buyIn", "uint64"), F(5, "pkPlayer", "bytes"),
      F(7, "passwordProof", "bytes")>>
MsgSitResponse == <<F(1, "seat", "uint32")>>
MsgStartHand == <<F(1, "caller", "string"), F(2, "tableId", "uint64")>>
MsgStartHandResponse == <<>>
MsgAct ==
    <<F(1, "player", "string"), F(2, "tableId", "uint64"),
      F(3, "action", "string"), F(4, "amount", "uint64")>>
MsgActResponse == <<>>
MsgTick == <<F(1, "caller", "string"), F(2, "tableId", "uint64")>>
MsgTickResponse == <<>>
MsgLeave == <<F(1, "player", "string"), F(2, "tableId", "uint64")>>
MsgLeaveResponse == <<>>
MsgRebuy ==
    <<F(1, "player", "string"), F(2, "tableId", "uint64"),
      F(3, "amount", "uint64")>>
MsgRebuyResponse == <<F(1, "newStack", "uint64")>>

-----------------------------------------------------------------------------
(* x/poker: queries *)

QueryTableRequest == <<F(1, "tableId", "uint64")>>
QueryTableResponse == <<F(1, "table", "Table")>>
QueryTablesRequest == <<>>
QueryTablesResponse == <<R(1, "tableIds", "uint64")>>

-----------------------------------------------------------------------------
Schema ==
    [DealerGenesisState |-> DealerGenesisState,
     Params |-> Params,
     DealerMember |-> DealerMember,
     DealerEpoch |-> DealerEpoch,
     DealerDKGCommit |-> DealerDKGCommit,
     DealerDKGEncryptedShare |-> DealerDKGEncryptedShare,
     DealerDKGComplaint |-> DealerDKGComplaint,
     DealerDKGShareReveal |-> DealerDKGShareReveal,
     DealerDKG |-> DealerDKG,
     DealerCiphertext |-> DealerCiphertext,
     DealerPubShare |-> DealerPubShare,
     DealerEncShare |-> DealerEncShare,
     DealerReveal |-> DealerReveal,
     BeaconState |-> BeaconState,
     BeaconCommitEntry |-> BeaconCommitEntry,
     BeaconRevealEntry |-> BeaconRevealEntry,
     DealerHand |-> DealerHand,
     MsgBeginEpoch |-> MsgBeginEpoch,
     MsgBeginEpochResponse |-> MsgBeginEpochResponse,
     MsgDkgCommit |-> MsgDkgCommit,
     MsgDkgCommitResponse |-> MsgDkgCommitResponse,
     MsgDkgComplaintMissing |-> MsgDkgComplaintMissing,
     MsgDkgComplaintMissingResponse |-> MsgDkgComplaintMissingResponse,
     MsgDkgComplaintInvalid |-> MsgDkgComplaintInvalid,
     MsgDkgComplaintInvalidResponse |-> MsgDkgComplaintInvalidResponse,
     MsgDkgComplaintAEADBad |-> MsgDkgComplaintAEADBad,
     MsgDkgComplaintAEADBadResponse |-> MsgDkgComplaintAEADBadResponse,
     MsgDkgShareReveal |-> MsgDkgShareReveal,
     MsgDkgShareRevealResponse |-> MsgDkgShareRevealResponse,
     MsgDkgEncryptedShare |-> MsgDkgEncryptedShare,
     MsgDkgEncryptedShareResponse |-> MsgDkgEncryptedShareResponse,
     MsgFinalizeEpoch |-> MsgFinalizeEpoch,
     MsgFinalizeEpochResponse |-> MsgFinalizeEpochResponse,
     MsgDkgTimeout |-> MsgDkgTimeout,
     MsgDkgTimeoutResponse |-> MsgDkgTimeoutResponse,
     MsgOpenBeaconWindow |-> MsgOpenBeaconWindow,
     MsgOpenBeaconWindowResponse |-> MsgOpenBeaconWindowResponse,
     MsgBeaconCommit |-> MsgBeaconCommit,
     MsgBeaconCommitResponse |-> MsgBeaconCommitResponse,
     MsgBeaconReveal |-> MsgBeaconReveal,
     MsgBeaconRevealResponse |-> MsgBeaconRevealResponse,
     MsgInitHand |-> MsgInitHand,
     MsgInitHandResponse |-> MsgInitHandResponse,
     MsgSubmitShuffle |-> MsgSubmitShuffle,
     MsgSubmitShuffleResponse |-> MsgSubmitShuffleResponse,
     MsgFinalizeDeck |-> MsgFinalizeDeck,
     MsgFinalizeDeckResponse |-> MsgFinalizeDeckResponse,
     MsgSubmitPubShare |-> MsgSubmitPubShare,
     MsgSubmitPubShareResponse |-> MsgSubmitPubShareResponse,
     MsgSubmitEncShare |-> MsgSubmitEncShare,
     MsgSubmitEncShareResponse |-> MsgSubmitEncShareResponse,
     MsgFinalizeReveal |-> MsgFinalizeReveal,
     MsgFinalizeRevealResponse |-> MsgFinalizeRevealResponse,
     MsgTimeout |-> MsgTimeout,
     MsgTimeoutResponse |-> MsgTimeoutResponse,
     QueryParamsRequest |-> QueryParamsRequest,
     QueryParamsResponse |-> QueryParamsResponse,
     QueryEpochRequest |-> QueryEpochRequest,
     QueryEpochResponse |-> QueryEpochResponse,
     QueryDkgRequest |-> QueryDkgRequest,
     QueryDkgResponse |-> QueryDkgResponse,
     QueryHandRequest |-> QueryHandRequest,
     QueryHandResponse |-> QueryHandResponse,
     PokerGenesisState |-> PokerGenesisState,
     TableParams |-> TableParams,
     Seat |-> Seat,
     DealerMeta |-> DealerMeta,
     Hand |-> Hand,
     Table |-> Table,
     MsgCreateTable |-> MsgCreateTable,
     MsgCreateTableResponse |-> MsgCreateTableResponse,
     MsgSit |-> MsgSit,
     MsgSitResponse |-> MsgSitResponse,
     MsgStartHand |-> MsgStartHand,
     MsgStartHandResponse |-> MsgStartHandResponse,
     MsgAct |-> MsgAct,
     MsgActResponse |-> MsgActResponse,
     MsgTick |-> MsgTick,
     MsgTickResponse |-> MsgTickResponse,
     MsgLeave |-> MsgLeave,
     MsgLeaveResponse |-> MsgLeaveResponse,
     MsgRebuy |-> MsgRebuy,
     MsgRebuyResponse |-> MsgRebuyResponse,
     QueryTableRequest |-> QueryTableRequest,
     QueryTableResponse |-> QueryTableResponse,
     QueryTablesRequest |-> QueryTablesRequest,
     QueryTablesResponse |-> QueryTablesResponse]
=============================================================================
