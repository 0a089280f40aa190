------------------------------- MODULE TxClient -------------------------------
(* signAndBroadcastAuto of packages/ocp-sdk/src/cosmos/signing.ts, as bots,  *)
(* daemons, the faucet and the page call it, possibly twice at once for one  *)
(* account: simulate, sign and broadcast, each tried again once after a      *)
(* socket error, then wait for the transaction.  The node and the           *)
(* cosmjs client are external: cosmjs signs with the sequence of the last    *)
(* committed block, the node admits a transaction only with the sequence     *)
(* that follows its mempool, and executes it once, in a later block.  An     *)
(* answer may be lost on the way back whatever the node has done.            *)
EXTENDS Naturals, Sequences, FiniteSets

CONSTANTS
  Calls,         \* calls under way for the account
  MaxErrors      \* bound: socket errors

VARIABLES
  calls,      \* where each call is
  account,    \* the account's sequence in the last block
  mempool,    \* admitted transactions, oldest first
  executed,   \* the calls whose transactions are in blocks, oldest first
  errors      \* socket errors left

txVars == <<calls, account, mempool, executed, errors>>

Times(c) == Cardinality({i \in DOMAIN executed : executed[i] = c})

Goes(c, at) == calls' = [calls EXCEPT ![c].at = at]

SocketError ==
  /\ errors > 0
  /\ errors' = errors - 1

------------------------------------------------------------------------------
\* client.simulate: the second try follows reconnect; another error is thrown.
simulate(c) ==
  /\ calls[c].at \in {"start", "simulate again"}
  /\ \/ Goes(c, "sign") /\ UNCHANGED errors
     \/ Goes(c, "failed") /\ UNCHANGED errors
     \/ SocketError /\ Goes(c, IF calls[c].at = "start" THEN "simulate again" ELSE "failed")
  /\ UNCHANGED <<account, mempool, executed>>

\* Mutant: a retry is signed with the sequence after its own.
SequenceAfterMine(c) == IF calls[c].at = "sign" THEN account ELSE calls[c].sequence + 1

\* cosmjs asks the node for the account at every signature.
SequenceFor(c) == account

\* getSequence and sign, inside signAndBroadcastSync.  "overtaken" remembers that
\* the first transaction was in a block before the second was signed.
Sign(c) ==
  /\ calls[c].at \in {"sign", "sign again"}
  /\ calls' = [calls EXCEPT
                 ![c].at = IF @ = "sign" THEN "send" ELSE "send again",
                 ![c].sequence = SequenceFor(c),
                 ![c].overtaken = Times(c) > 0]
  /\ UNCHANGED <<account, mempool, executed, errors>>

\* A socket error is followed by reconnect and one more try.
AfterError(at) == IF at \in {"send", "wait"} THEN "sign again" ELSE "failed"

Admits(sequence) == sequence = account + Len(mempool)

Broadcast(c) ==
  /\ calls[c].at \in {"send", "send again"}
  /\ \/ /\ Admits(calls[c].sequence)
        /\ mempool' = Append(mempool, c)
        /\ \/ Goes(c, IF calls[c].at = "send" THEN "wait" ELSE "wait again") /\ UNCHANGED errors
           \/ SocketError /\ Goes(c, AfterError(calls[c].at))
     \/ /\ ~Admits(calls[c].sequence)
        /\ Goes(c, "failed") /\ UNCHANGED <<mempool, errors>>
     \/ /\ SocketError /\ Goes(c, AfterError(calls[c].at))
        /\ UNCHANGED mempool
  /\ UNCHANGED <<account, executed>>

\* The LCD knows the transaction: the caller gets its result.
WaitEnds(c) == Times(c) > 0

\* waitForDeliverTxViaLcd: the result, or the deadline; without an LCD the wait
\* is inside cosmjs' signAndBroadcast, and a socket error there is retried too.
waitForDeliverTx(c) ==
  /\ calls[c].at \in {"wait", "wait again"}
  /\ \/ WaitEnds(c) /\ Goes(c, "done") /\ UNCHANGED errors
     \/ Goes(c, "failed") /\ UNCHANGED errors
     \/ SocketError /\ Goes(c, AfterError(calls[c].at))
  /\ UNCHANGED <<account, mempool, executed>>

Commit ==
  /\ mempool # <<>>
  /\ executed' = Append(executed, Head(mempool))
  /\ mempool' = Tail(mempool)
  /\ account' = account + 1
  /\ UNCHANGED <<calls, errors>>

------------------------------------------------------------------------------
TxInit ==
  /\ calls = [c \in Calls |-> [at |-> "start", sequence |-> 0, overtaken |-> FALSE]]
  /\ account = 0 /\ mempool = <<>> /\ executed = <<>>
  /\ errors = MaxErrors

TxNext ==
  \/ \E c \in Calls : simulate(c) \/ Sign(c) \/ Broadcast(c) \/ waitForDeliverTx(c)
  \/ Commit

TxSpec == TxInit /\ [][TxNext]_txVars

------------------------------------------------------------------------------
(* "Cosmos SDK account sequence numbers prevent double-execution, so retrying *)
(* is safe" (signing.ts:163): no call is executed twice.  It does not hold:   *)
(* once the first transaction is in a block, cosmjs signs the second with the *)
(* sequence after it.                                                         *)
RetryIsSafe == \A c \in Calls : Times(c) <= 1

(* The sequence number does refuse the second transaction of a call that was  *)
(* signed before the first was in a block, whatever other calls of the        *)
(* account are executed in between.                                           *)
SequenceStopsEarlyRetry == \A c \in Calls : Times(c) > 1 => calls[c].overtaken

(* A call that returns a result has been executed, and a caller has to reckon *)
(* with two executions but not with three.                                    *)
ResultIsOnChain ==
  \A c \in Calls : Times(c) <= 2 /\ (calls[c].at = "done" => Times(c) > 0)

(* What a caller of signAndBroadcastAuto can rely on, however many answers are *)
(* lost: success means executed, a second execution needs a first one that was *)
(* in a block when the retry was signed, and there is no third.               *)
CallRunsAtMostTwice == SequenceStopsEarlyRetry /\ ResultIsOnChain
==============================================================================
