------------------------------ MODULE WirePeers ------------------------------
(***************************************************************************)
(* A message on its way from a peer to a reader of the SDK.  The peer may  *)
(* be another implementation or another version: it may order fields its   *)
(* own way, leave lists unpacked, know more fields, or have written a      *)
(* field twice.  The reader takes one token at a time.                     *)
(***************************************************************************)
EXTENDS Wire

CONSTANTS
    Messages,       \* message classes
    MaxEdits        \* bound: differences from the SDK's own encoding

VARIABLES
    msg, value,     \* the message's class, and what was sent
    wire,           \* the tokens still to be read
    out,            \* what the reader has so far
    edits           \* differences so far; Reading once the reader started

wireVars == <<msg, value, wire, out, edits>>
Reading == -1

RECURSIVE Full(_)
\* A message with every field set; lists hold a default and another element.
Full(m) ==
    [n \in Names(m) |->
        LET f == FieldOf(m, n)
            x == IF IsMessage(f) THEN Full(f.kind) ELSE 1
        IN  IF f.rep THEN <<IF IsMessage(f) THEN Base(f.kind) ELSE 0, x>> ELSE x]

\* No field, all of them, or one, a sub-message that is present but empty
\* included.
Samples(m) ==
    {<<>>, Full(m)}
    \cup {n :> Full(m)[n] : n \in Names(m)}
    \cup {f.name :> Base(f.kind) : f \in {g \in Fields(m) : IsMessage(g) /\ ~g.rep}}

Unknown == 1000     \* a field number that no class uses

Sent(m, object) ==
    /\ msg = m
    /\ value = fromPartial(m, object)
    /\ wire = Encode(m, value)
    /\ out = Base(m)
    /\ edits = 0

WireInit == \E m \in Messages : \E object \in Samples(m) : Sent(m, object)

Edit(w) == edits \in 0..(MaxEdits - 1) /\ edits' = edits + 1 /\ wire' = w /\ UNCHANGED <<msg, value, out>>

\* A field of a newer schema, of any wire type.
AddUnknown == \E i \in 1..(Len(wire) + 1), type \in {0, 1, 2, 5} :
    Edit(InsertAt(wire, i, <<Unknown * 8 + type, 1>>))

\* A field whose type has changed between the versions.
AddRetyped == \E i \in 1..(Len(wire) + 1), f \in Fields(msg) :
    Edit(InsertAt(wire, i, <<f.num * 8 + 1, 1>>))

\* Fields in another order.
SwapFields == \E i \in 1..(Len(wire) - 1) :
    /\ wire[i][1] \div 8 # wire[i + 1][1] \div 8
    /\ Edit([wire EXCEPT ![i] = wire[i + 1], ![i + 1] = wire[i]])

\* A list of numbers written one by one, or in two blocks.
SplitList == \E i \in 1..Len(wire), packed \in BOOLEAN :
    LET f == FieldNumbered(msg, wire[i][1] \div 8)
        Piece(x) == IF packed THEN <<Tag(f), <<x>>>> ELSE <<f.num * 8, x>>
    IN  /\ Known(msg, wire[i][1] \div 8) /\ IsPacked(f) /\ wire[i][1] = Tag(f)
        /\ Edit(SubSeq(wire, 1, i - 1) \o [j \in DOMAIN wire[i][2] |-> Piece(wire[i][2][j])]
                \o SubSeq(wire, i + 1, Len(wire)))

\* An earlier value of a field that is written again later.
RepeatField == \E i \in 1..Len(wire) :
    LET f == FieldNumbered(msg, wire[i][1] \div 8)
    IN  /\ Known(msg, wire[i][1] \div 8) /\ ~f.rep /\ ~IsMessage(f) /\ wire[i][1] = Tag(f)
        /\ Edit(InsertAt(wire, i, <<Tag(f), 2>>))

Read ==
    /\ wire # <<>> /\ edits' = Reading
    /\ out' = ReadToken(msg, out, Head(wire))
    /\ wire' = IF Ends(Head(wire)) THEN <<>> ELSE Tail(wire)
    /\ UNCHANGED <<msg, value>>

WireNext == AddUnknown \/ AddRetyped \/ SwapFields \/ SplitList \/ RepeatField \/ Read

-----------------------------------------------------------------------------
\* The reader ends up with the message that was sent, whichever of these
\* liberties the peer took.
ReadsWhatWasSent == wire = <<>> => out = value

\* A message survives its JSON form, in the SDK's own spelling and in that of the
\* chain's REST server.
JsonSurvives == \A s \in {"camel", "snake"} : fromJSON(msg, toJSON(msg, value, s)) = value

\* A message of every class reaches the other side as it was sent, in binary, as
\* another encoder may write it, and in JSON of either spelling.
MessagesSurvive == ReadsWhatWasSent /\ JsonSurvives
=============================================================================
