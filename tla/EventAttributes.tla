--------------------------- MODULE EventAttributes ---------------------------
(* How the ids of tables and hands are read from a transaction's events: by    *)
(* the SDK for a new table or hand (packages/ocp-sdk/src/cosmos/client.ts), by *)
(* the page for every event (apps/web/src/lib/cometEventParser.ts).  Some      *)
(* nodes send attributes in base64 and some as they are, and                   *)
(* maybeBase64ToUtf8, the same in both, tells them apart by their looks.       *)
(* A string is its sequence of character codes.                                *)
EXTENDS Integers, Sequences, SequencesExt

CONSTANTS
  Ids,         \* ids of tables and hands
  MaxEvents    \* bound: events of a transaction

VARIABLE tx    \* the events of the transaction's result

------------------------------------------------------------------------------
\* base64: the value of a character, and the character of a value
Value64(c) ==
  CASE c \in 65 .. 90 -> c - 65          \* A-Z
    [] c \in 97 .. 122 -> c - 71         \* a-z
    [] c \in 48 .. 57 -> c + 4           \* 0-9
    [] c = 43 -> 62
    [] c = 47 -> 63
    [] OTHER -> -1

Char64(v) ==
  CASE v < 26 -> v + 65
    [] v \in 26 .. 51 -> v + 71
    [] v \in 52 .. 61 -> v - 4
    [] v = 62 -> 43
    [] OTHER -> 47

\* the i-th unit of `to' bits of a sequence of units of `from' bits
Bit(units, from, k) == (units[k \div from + 1] \div (2 ^ (from - 1 - (k % from)))) % 2

Regroup(units, from, to, n) ==
  [i \in 1 .. n |->
     FoldLeft(LAMBDA acc, k : 2 * acc + (IF k < Len(units) * from THEN Bit(units, from, k) ELSE 0),
              0, [b \in 1 .. to |-> (i - 1) * to + b - 1])]

\* btoa without its padding, and atob
Btoa(bytes) == [i \in 1 .. (Len(bytes) * 8 + 5) \div 6 |->
                  Char64(Regroup(bytes, 8, 6, (Len(bytes) * 8 + 5) \div 6)[i])]

Atob(s) == Regroup([i \in DOMAIN s |-> Value64(s[i])], 6, 8, (Len(s) * 6) \div 8)

\* UTF-8, for the sequences of at most three bytes
RECURSIVE IsUtf8(_)
IsUtf8(bytes) ==
  LET cont(i) == Len(bytes) >= i /\ bytes[i] \in 128 .. 191
      rest(n) == IsUtf8(SubSeq(bytes, n + 1, Len(bytes)))
  IN  \/ bytes = <<>>
      \/ bytes[1] < 128 /\ rest(1)
      \/ bytes[1] \in 194 .. 223 /\ cont(2) /\ rest(2)
      \/ bytes[1] \in 224 .. 239 /\ cont(2) /\ cont(3) /\ rest(3)

maybeBase64ToUtf8(s) ==
  IF /\ s # <<>> /\ \A i \in DOMAIN s : Value64(s[i]) >= 0
     /\ Len(s) % 4 # 1 /\ Btoa(Atob(s)) = s     \* a strict round-trip
     /\ IsUtf8(Atob(s))
  THEN Atob(s) ELSE s

------------------------------------------------------------------------------
tableIdKey == <<116, 97, 98, 108, 101, 73, 100>>     \* "tableId"
handIdKey == <<104, 97, 110, 100, 73, 100>>          \* "handId"

normalizeDeliverTxEvents(events) ==
  [i \in DOMAIN events |->
     [type |-> events[i].type, key |-> maybeBase64ToUtf8(events[i].key),
      value |-> maybeBase64ToUtf8(events[i].value)]]

NoAttr == <<>>

\* the page's: an attribute that is absent or empty is undefined
eventsToChainEvents(events) ==
  LET normal == normalizeDeliverTxEvents(events)
      attr(e, key) == IF e.key = key THEN e.value ELSE NoAttr
  IN  [i \in DOMAIN events |->
         [name |-> normal[i].type, tableId |-> attr(normal[i], tableIdKey),
          handId |-> attr(normal[i], handIdKey)]]

findEventAttr(events, type, key) ==
  LET evs == SelectSeq(normalizeDeliverTxEvents(events), LAMBDA e : e.type = type)
  IN  IF evs = <<>> \/ evs[1].key # key THEN NoAttr ELSE evs[1].value

IsNumber(s) == s # <<>> /\ \A i \in DOMAIN s : s[i] \in 48 .. 57

parseTableIdFromTx(events) ==
  LET v == findEventAttr(events, "TableCreated", tableIdKey)
  IN  IF IsNumber(v) THEN v ELSE NoAttr

parseHandIdFromTx(events) ==
  LET v == findEventAttr(events, "HandStarted", handIdKey)
  IN  IF IsNumber(v) THEN v ELSE NoAttr

------------------------------------------------------------------------------
KeyOf(type) == IF type = "HandStarted" THEN handIdKey ELSE tableIdKey

RECURSIVE Digits(_)
Digits(n) == IF n < 10 THEN <<48 + n>> ELSE Append(Digits(n \div 10), 48 + (n % 10))

\* the node writes an event, with or without base64
EmitAttr(type, id, encoded) ==
  /\ Len(tx) < MaxEvents
  /\ LET form(s) == IF encoded THEN Btoa(s) ELSE s
     IN  tx' = Append(tx, [type |-> type, id |-> id, encoded |-> encoded,
                           key |-> form(KeyOf(type)), value |-> form(Digits(id))])

AttrInit == tx = <<>>

\* every id in the first event; the others have one more
AttrNext ==
  \E type \in {"TableCreated", "HandStarted", "PlayerSat"}, encoded \in BOOLEAN :
    \E id \in IF tx = <<>> THEN Ids ELSE {tx[1].id + 1} \cap Ids : EmitAttr(type, id, encoded)

------------------------------------------------------------------------------
First(type) == SelectSeq(tx, LAMBDA e : e.type = type)

(* The id of the first table or hand that a transaction made is read from     *)
(* its events, whether the node sends attributes in base64 or not; without    *)
(* such an event there is none (parseTableIdFromTx, parseHandIdFromTx).  The  *)
(* page reads the id of every event (eventsToChainEvents).                    *)
IdsAreRead ==
  /\ parseTableIdFromTx(tx) = IF First("TableCreated") = <<>> THEN NoAttr
                              ELSE Digits(First("TableCreated")[1].id)
  /\ parseHandIdFromTx(tx) = IF First("HandStarted") = <<>> THEN NoAttr
                             ELSE Digits(First("HandStarted")[1].id)
  /\ \A i \in DOMAIN tx :
       LET e == eventsToChainEvents(tx)[i]
       IN  (IF e.name = "HandStarted" THEN e.handId ELSE e.tableId) = Digits(tx[i].id)

(* An attribute that a node sends as it is comes out as it went in            *)
(* (maybeBase64ToUtf8): it is not taken for base64.                           *)
PlainStringsUnchanged ==
  \A i \in DOMAIN tx :
    ~tx[i].encoded => normalizeDeliverTxEvents(tx)[i].value = tx[i].value
=============================================================================
