--------------------------- MODULE MessageExchange ---------------------------
(***************************************************************************)
(* A message of the policy service on its way, in its binary form or as    *)
(* JSON (src/proto/generated).  The other side may have been built from a  *)
(* newer or an older protocol: a binary message may get a field this one   *)
(* does not know, or knows with another wire type, and its fields may come *)
(* in another order, in the message or in any of those it holds.           *)
(***************************************************************************)
EXTENDS ProtoMessages, Exchange

CONSTANTS
  Parts,          \* names of a message and of those in it
  SentMessages,   \* what a writer may hold: [types, parts]
  Foreign         \* the content of a field the reader has no use for

VARIABLE type     \* the type of each part

-----------------------------------------------------------------------------
\* The types the service's methods carry, and the one it does not.
Types == {"Timestamp"} \cup UNION {PolicyService[method] : method \in DOMAIN PolicyService}

\* The 64-bit integers, signed and unsigned.
Bits64 == Within(2048)

\* What a field may hold where the parts have these types.
Values(f, types) ==
  LET named == {p \in DOMAIN types : types[p] = f.of}
  IN IF f.kind \in {"string", "bytes"} THEN Texts
     ELSE IF f.kind = "bool" THEN BOOLEAN
     ELSE IF f.kind = "strings" THEN Seq(Texts)
     ELSE IF f.kind = "message" THEN named \cup {Undefined}
     ELSE IF f.kind = "messages" THEN Seq(named)
     ELSE IF Is64Bit(f) THEN Bits64
     ELSE Int

\* An object with a value in every field of its type.
IsObject(t, m, types) ==
  /\ m = [n \in Names(t) |-> m[n]]
  /\ \A f \in FieldsOf(t) : m[f.name] \in Values(f, types)

IsMessage(types, parts) ==
  /\ DOMAIN types \subseteq Parts
  /\ parts = [p \in DOMAIN types |-> parts[p]]
  /\ \E root \in DOMAIN types : types[root] \in Types
  /\ \A p \in DOMAIN types :
       types[p] \in DOMAIN Messages /\ IsObject(types[p], parts[p], types)

ASSUME SentMessagesAssumption == \A m \in SentMessages : IsMessage(m.types, m.parts)

\* A value in JSON is neither missing nor null.
EnumNames ==
  {"UNRECOGNIZED"} \cup UNION {{Enums[e][i] : i \in DOMAIN Enums[e]} : e \in DOMAIN Enums}

ASSUME JsonAssumption ==
  /\ Undefined # Null
  /\ \A v \in {Undefined, Null} :
       /\ v \notin Texts \cup Int \cup Parts \cup Seq(Texts) \cup Seq(Parts)
       /\ v \notin BOOLEAN
       /\ v \notin {"base64"} \X Texts \cup {"number", "digits"} \X Int
       /\ v \notin {"name"} \X EnumNames

MessageInit ==
  /\ path \in {"binary", "json"}
  /\ \E m \in SentMessages : type = m.types /\ sent = m.parts
  /\ NothingWritten

-----------------------------------------------------------------------------
\* Objects of this program, whose numbers are doubles.
AreObjects(types, parts) ==
  \A p \in DOMAIN parts : \A f \in FieldsOf(types[p]) : Is64Bit(f) => IsDouble(parts[p][f.name])

\* encode and finish, toJSON, or what another producer wrote.
Writes ==
  /\ carried = Undefined
  /\ \/ path = "binary" /\ carried' = EncodeParts(type, sent)
     \/ /\ path = "json"
        /\ \E style \in Styles :
             /\ style = "own" => AreObjects(type, sent)
             /\ carried' = PartsToJSON(type, sent, style)
  /\ UNCHANGED <<sent, altered, received>>

\* A field of a number this side does not know, and one of every number it
\* knows with another wire type.
ForeignItems(t) ==
  {<<99, w, Foreign>> : w \in {0, 2, 5}} \cup
  {<<f.no, 2 - Wire(f), Foreign>> : f \in FieldsOf(t)}

Swapped(items, i) == [items EXCEPT ![i] = items[i + 1], ![i + 1] = items[i]]

\* In the whole or in any part one foreign field more, or two fields in
\* another order.
PeerDiffers ==
  /\ path = "binary"
  /\ OnItsWay
  /\ Len(altered) < MaxAltered
  /\ \E p \in DOMAIN carried :
       \/ \E i \in 1 .. Len(carried[p]) + 1, x \in ForeignItems(type[p]) :
            carried' = [carried EXCEPT ![p] = InsertAt(carried[p], i, x)]
       \/ \E i \in 1 .. Len(carried[p]) - 1 :
            /\ carried[p][i][1] # carried[p][i + 1][1]
            /\ carried' = [carried EXCEPT ![p] = Swapped(carried[p], i)]
  /\ altered' = Append(altered, "field")
  /\ UNCHANGED <<sent, received>>

\* decode, fromJSON.
Reads ==
  /\ OnItsWay
  /\ \/ path = "binary" /\ received' = DecodeParts(type, carried)
     \/ path = "json" /\ received' = PartsFromJSON(type, carried)
  /\ UNCHANGED <<sent, carried, altered>>

MessageNext == (Writes \/ PeerDiffers \/ Reads) /\ UNCHANGED <<path, type>>

-----------------------------------------------------------------------------
\* Its 64-bit numbers are safe integers.
IsSafe(types, parts) ==
  \A p \in DOMAIN parts : \A f \in FieldsOf(types[p]) :
    Is64Bit(f) => parts[p][f.name] \in SafeIntegers

\* A binary message is read as it was sent, whatever fields of another version
\* of the protocol it met and in whatever order its own come; an enumeration's
\* value that is not known here stays what it is.  Only a 64-bit number past
\* the safe integers makes the reader throw, and then it always does.
DecodedIsSent ==
  path = "binary" /\ received # Undefined =>
    received = IF IsSafe(type, sent) THEN sent ELSE Threw

\* What fromJSON may make of a field's value: an enumeration's value with no
\* name here is lost, and a 64-bit number that no double holds is rounded.
IsReadAs(f, value, read) ==
  IF f.kind = "enum" /\ value \notin 0 .. Len(Enums[f.of]) - 1 THEN read = -1
  ELSE IF Is64Bit(f) /\ ~IsDouble(value) THEN read \notin SafeIntegers
  ELSE read = value

\* A message as JSON, in either style, is read whole, and each field as it was
\* sent, with two exceptions.  An unknown decision or signal becomes
\* UNRECOGNIZED, never a known one.  A 64-bit number that no double holds is
\* rounded, and unlike in the binary form nothing throws; but what is read is
\* past the safe integers as it was, never mistaken for a safe one.
JsonRoundTrips ==
  path = "json" /\ received # Undefined =>
    /\ DOMAIN received = DOMAIN sent
    /\ \A p \in DOMAIN sent :
         /\ DOMAIN received[p] = DOMAIN sent[p]
         /\ \A f \in FieldsOf(type[p]) :
              IsReadAs(f, sent[p][f.name], received[p][f.name])
=============================================================================
