-------------------------------- MODULE Wire --------------------------------
(***************************************************************************)
(* The protobuf codec that every generated message class of the SDK is an  *)
(* instance of: encode, decode, toJSON, fromJSON.  A class is given by its *)
(* fields, in the order in which encode writes them (WireMessages).        *)
(*                                                                         *)
(* A scalar is 0 for the default of its type ("", "0", false, no bytes) or *)
(* another number; a sub-message is None or a message.  A message maps the *)
(* names of its fields to values.  Encoded, it is a sequence of pairs of a *)
(* tag and a payload.                                                      *)
(***************************************************************************)
EXTENDS Integers, Sequences, SequencesExt, FiniteSets, WireMessages

CONSTANT None          \* undefined, or JSON's null

IsMessage(f)  == f.kind \in DOMAIN Schema
\* Repeated numbers share one length-delimited block ("packed").
IsPacked(f)   == f.rep /\ f.kind \in Varints
WireType(f)   == IF f.kind \in Varints /\ ~f.rep THEN 0 ELSE 2
Tag(f)        == f.num * 8 + WireType(f)

Fields(msg)   == Range(Schema[msg])
Names(msg)    == {f.name : f \in Fields(msg)}
FieldOf(msg, name) == CHOOSE f \in Fields(msg) : f.name = name

Known(msg, num) == \E f \in Fields(msg) : f.num = num
FieldNumbered(msg, num) == CHOOSE f \in Fields(msg) : f.num = num

Default(f) == IF f.rep THEN <<>> ELSE IF IsMessage(f) THEN None ELSE 0

\* createBase
Base(msg) == [n \in Names(msg) |-> Default(FieldOf(msg, n))]

-----------------------------------------------------------------------------
RECURSIVE Encode(_, _)
\* The tokens of one field: one block for a packed list, an empty one included,
\* one token per element for other lists, and nothing for a default.
EncodeField(f, v) ==
    LET Payload(x) == IF IsMessage(f) THEN Encode(f.kind, x) ELSE x
    IN  IF IsPacked(f) THEN <<<<Tag(f), v>>>>
        ELSE IF f.rep THEN [i \in DOMAIN v |-> <<Tag(f), Payload(v[i])>>]
        ELSE IF v = Default(f) THEN <<>>
        ELSE <<<<Tag(f), Payload(v)>>>>

Encode(msg, m) == FlattenSeq([i \in DOMAIN Schema[msg] |-> EncodeField(Schema[msg][i], m[Schema[msg][i].name])])

RECURSIVE Decode(_, _)
\* Mutant: a packed block replaces what the list holds.
ReadTokenReplacing(msg, m, tok) ==
    LET f == FieldNumbered(msg, tok[1] \div 8)
        n == f.name
        x == IF IsMessage(f) THEN Decode(f.kind, tok[2]) ELSE tok[2]
    IN  IF ~Known(msg, tok[1] \div 8) THEN m
        ELSE IF IsPacked(f) /\ tok[1] % 8 = 2 THEN [m EXCEPT ![n] = tok[2]]
        ELSE IF IsPacked(f) /\ tok[1] % 8 = 0 THEN [m EXCEPT ![n] = <<x>>]
        ELSE IF tok[1] # Tag(f) THEN m
        ELSE IF f.rep THEN [m EXCEPT ![n] = Append(@, x)]
        ELSE [m EXCEPT ![n] = x]

\* One round of the decode loop.  Unknown fields, and known ones with another
\* wire type, are skipped; numbers are accepted packed or one by one.
ReadToken(msg, m, tok) ==
    LET f == FieldNumbered(msg, tok[1] \div 8)
        n == f.name
        x == IF IsMessage(f) THEN Decode(f.kind, tok[2]) ELSE tok[2]
    IN  IF ~Known(msg, tok[1] \div 8) THEN m
        ELSE IF IsPacked(f) /\ tok[1] % 8 = 2 THEN [m EXCEPT ![n] = @ \o tok[2]]
        ELSE IF IsPacked(f) /\ tok[1] % 8 = 0 THEN [m EXCEPT ![n] = Append(@, x)]
        ELSE IF tok[1] # Tag(f) THEN m
        ELSE IF f.rep THEN [m EXCEPT ![n] = Append(@, x)]
        ELSE [m EXCEPT ![n] = x]

\* The end of a group, or a zero, ends the loop early.
Ends(tok) == tok[1] % 8 = 4 \/ tok[1] = 0

Decode(msg, tokens) ==
    FoldLeft(LAMBDA m, tok : ReadToken(msg, m, tok), Base(msg),
             SubSeq(tokens, 1, IF \E i \in DOMAIN tokens : Ends(tokens[i])
                               THEN SelectInSeq(tokens, Ends) - 1 ELSE Len(tokens)))

-----------------------------------------------------------------------------
(* JSON.  A key is a field's name in a spelling: the SDK writes camelCase   *)
(* and leaves defaults out, the chain's REST server writes snake_case and   *)
(* writes every field.                                                      *)

\* An enum is written by name; what has no name is UNRECOGNIZED, read back as -1.
EnumName(kind, v) == IF v \in Enums[kind] THEN v ELSE -1

RECURSIVE toJSON(_, _, _)
toJSON(msg, m, spelling) ==
    LET Value(f, v) ==
            IF IsMessage(f) THEN toJSON(f.kind, v, spelling)
            ELSE IF f.kind \in DOMAIN Enums THEN EnumName(f.kind, v)
            ELSE v
        shown == {n \in Names(msg) : spelling = "snake" \/ m[n] # Default(FieldOf(msg, n))}
    IN  [k \in shown \X {spelling} |->
            LET f == FieldOf(msg, k[1])
                v == m[k[1]]
            IN  IF v = None THEN None
                ELSE IF f.rep THEN [i \in DOMAIN v |-> Value(f, v[i])]
                ELSE Value(f, v)]

\* isSet, for either spelling; null and absent are the same.
Get(object, n) ==
    IF <<n, "camel">> \in DOMAIN object THEN object[<<n, "camel">>]
    ELSE IF <<n, "snake">> \in DOMAIN object THEN object[<<n, "snake">>]
    ELSE None

RECURSIVE fromJSON(_, _)
fromJSON(msg, object) ==
    [n \in Names(msg) |->
        LET f == FieldOf(msg, n)
            v == Get(object, n)
            Value(x) == IF IsMessage(f) THEN fromJSON(f.kind, x) ELSE x
        IN  IF v = None THEN Default(f)
            ELSE IF f.rep THEN [i \in DOMAIN v |-> Value(v[i])]
            ELSE Value(v)]

\* A message from some of its fields (sub-messages are given whole).
fromPartial(msg, object) ==
    [n \in Names(msg) |-> IF n \in DOMAIN object THEN object[n] ELSE Default(FieldOf(msg, n))]
=============================================================================
