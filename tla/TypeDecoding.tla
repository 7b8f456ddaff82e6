---------------------------- MODULE TypeDecoding ----------------------------
(***************************************************************************)
(* Decoding of every builtin type and of the structured types              *)
(* (decodeBinaryJumpTable and UA_decodeBinary of                           *)
(* ua_types_encoding_binary.c) into the values of TypeEncoding.            *)
(*                                                                         *)
(* A decoder returns [rv, pos, value].  Most go on behind a failed part    *)
(* and or the statuscodes; what they would decode then is thrown away with *)
(* the rest, so that here the first failure ends it.                       *)
(***************************************************************************)
EXTENDS TypeEncoding

\* sizeof of the type in the program, which only the filter of arrays looks at
\* (types.h of open62541, 64 bit).
MemSize(t) ==
    LET sizes == [String |-> 16, ByteString |-> 16, XmlElement |-> 16, Guid |-> 16,
                  NodeId |-> 24, ExpandedNodeId |-> 48, QualifiedName |-> 24,
                  LocalizedText |-> 32, ExtensionObject |-> 48, DataValue |-> 80,
                  Variant |-> 48, DiagnosticInfo |-> 56]
    IN  CASE t \in DOMAIN sizes    -> sizes[t]
          [] t \in DOMAIN DataTypes -> DataTypes[t].memSize
          [] OTHER                 -> FixedWidth(t)

Bad(pos) == [rv |-> "BadDecodingError", pos |-> pos, value |-> Absent]

Got(r, value) == [r EXCEPT !.value = value]

\* A part to decode: a member of a structure, a value, or nothing.
One(t)  == [type |-> t, array |-> FALSE]
Many(t) == [type |-> t, array |-> TRUE]
OneIf(present, t) == One(IF present THEN t ELSE NoType)

RECURSIVE Dec(_, _, _, _), DecodeAll(_, _, _, _)

---------------------------------------------------------------------------
(* Arrays and sequences of parts. *)

Plausible(length, t, src, pos) ==
    /\ pos + (MemSize(t) * length) \div 32 <= Len(src)
    /\ Overlayable(t) => pos + MemSize(t) * length <= Len(src)

\* The upper byte of a length, which has its sign and is not part of r.value.
TopByte(src, r) == IF r.pos \in DOMAIN src THEN src[r.pos] ELSE 0

\* The elements behind the length r.
DecodeElements(t, src, r, depth) ==
    CASE TopByte(src, r) >= 128 -> Got(r, NullArray)
      [] TopByte(src, r) = 0 /\ r.value = 0 -> Got(r, Filled(<<>>))
      [] TopByte(src, r) \in 1..127
            \/ (TopByte(src, r) = 0 /\ r.value > 0 /\ ~Plausible(r.value, t, src, r.pos)) -> Bad(r.pos)
      [] OTHER -> Then(DecodeAll([i \in 1..r.value |-> One(t)], src, r.pos, depth),
                       LAMBDA x : Got(x, Filled(x.value)))

DecodeArrayOf(t, src, pos, depth) ==
    Then(Read(src, pos, 4), LAMBDA r : DecodeElements(t, src, r, depth))

DecodePart(m, src, pos, depth) ==
    CASE m.type = NoType -> [rv |-> "Good", pos |-> pos, value |-> Absent]
      [] m.type # NoType /\ m.array -> DecodeArrayOf(m.type, src, pos, depth)
      [] OTHER -> Dec(m.type, src, pos, depth)

\* The parts one after the other, up to the first that fails.
DecodeAll(parts, src, pos, depth) ==
    FoldLeft(LAMBDA a, m :
                 Then(a, LAMBDA b : Then(DecodePart(m, src, b.pos, depth),
                                         LAMBDA x : Got(x, Append(b.value, x.value)))),
             [rv |-> "Good", pos |-> pos, value |-> <<>>], parts)

---------------------------------------------------------------------------
(* The builtin types. *)

ByteRow(n) == [i \in 1..n |-> One("Byte")]

GuidOf(s) == [d1 |-> s[1], d2 |-> s[2], d3 |-> s[3], d4 |-> SubSeq(s, 4, 11)]

DecodeGuid(src, pos, depth) ==
    Then(DecodeAll(<<One("UInt32"), One("UInt16"), One("UInt16")>> \o ByteRow(8), src, pos, depth),
         LAMBDA r : Got(r, GuidOf(r.value)))

\* What follows the encoding byte of a NodeId, the bits of an ExpandedNodeId filtered out.
IdParts ==
    [code \in 0..5 |->
        CASE code = 0 -> <<One(NoType), One("Byte")>>
          [] code = 1 -> <<One("Byte"), One("UInt16")>>
          [] code = 2 -> <<One("UInt16"), One("UInt32")>>
          [] code = 3 -> <<One("UInt16"), One("String")>>
          [] code = 4 -> <<One("UInt16"), One("Guid")>>
          [] code = 5 -> <<One("UInt16"), One("ByteString")>>]

IdKind(code) == IF code <= 2 THEN "Numeric" ELSE CHOOSE k \in DOMAIN IdCode : IdCode[k] = code

DecodeIdParts(src, code, pos, depth) ==
    IF code \notin DOMAIN IdParts THEN Bad(pos)
    ELSE Then(DecodeAll(IdParts[code], src, pos, depth),
              LAMBDA r : Got(r, [ns |-> IF code = 0 THEN 0 ELSE r.value[1],
                                 kind |-> IdKind(code), id |-> r.value[2]]))

DecodeNodeId(src, pos, depth) ==
    Then(Read(src, pos, 1), LAMBDA b : DecodeIdParts(src, b.value % 64, b.pos, depth))

OrElse(v, default) == IF v = Absent THEN default ELSE v

\* With a namespace URI the index of the NodeId does not count.
ExpandedOf(on, s) ==
    [node   |-> IF "uri" \in on THEN [s[1] EXCEPT !.ns = 0] ELSE s[1],
     uri    |-> OrElse(s[2], NullArray),
     server |-> OrElse(s[3], 0)]

DecodeExpanded(src, on, pos, depth) ==
    Then(DecodeAll(<<One("NodeId"), OneIf("uri" \in on, "String"), OneIf("server" \in on, "UInt32")>>,
                   src, pos, depth),
         LAMBDA r : Got(r, ExpandedOf(on, r.value)))

DecodeExpandedNodeId(src, pos, depth) ==
    Then(Read(src, pos, 1), LAMBDA b : DecodeExpanded(src, FlagsIn(b.value, ExpandedFlags), pos, depth))

DecodeQualifiedName(src, pos, depth) ==
    Then(DecodeAll(<<One("UInt16"), One("String")>>, src, pos, depth),
         LAMBDA r : Got(r, [ns |-> r.value[1], name |-> r.value[2]]))

DecodeTexts(src, on, pos, depth) ==
    Then(DecodeAll(<<OneIf("locale" \in on, "String"), OneIf("text" \in on, "String")>>, src, pos, depth),
         LAMBDA r : Got(r, [locale |-> OrElse(r.value[1], NullArray),
                            text   |-> OrElse(r.value[2], NullArray)]))

DecodeLocalizedText(src, pos, depth) ==
    Then(Read(src, pos, 1), LAMBDA b : DecodeTexts(src, FlagsIn(b.value, TextFlags), b.pos, depth))

---------------------------------------------------------------------------
(* ExtensionObject and Variant. *)

\* The types whose encoding has this id; only numeric ids are stored.
TypesByEncoding(n) ==
    {t \in DOMAIN DataTypes : n.kind = "Numeric" /\ DataTypes[t].encId = n.id /\ DataTypes[t].ns = n.ns}

\* UA_TYPES comes first, and then the custom types.
TypeFound(n) ==
    CHOOSE t \in TypesByEncoding(n) :
        DataTypes[t].custom => \A u \in TypesByEncoding(n) : DataTypes[u].custom

\* A known type is decoded, whatever the length in front of its content says.
DecodeObjectContent(src, n, pos, depth) ==
    IF TypesByEncoding(n) = {}
    THEN Then(Dec("ByteString", src, pos, depth),
              LAMBDA r : Got(r, [enc |-> BYTESTRING, typeId |-> n, body |-> r.value]))
    ELSE Then(Dec(TypeFound(n), src, pos + 4, depth),
              LAMBDA r : Got(r, Decoded(TypeFound(n), r.value)))

DecodeObject(src, r, depth) ==
    LET n == r.value[1]
        enc == r.value[2]
    IN  CASE enc = NOBODY     -> Got(r, [enc |-> NOBODY, typeId |-> n, body |-> NullArray])
          [] enc = BYTESTRING -> DecodeObjectContent(src, n, r.pos, depth)
          [] enc = XML        -> Then(Dec("ByteString", src, r.pos, depth),
                                      LAMBDA x : Got(x, [enc |-> XML, typeId |-> n, body |-> x.value]))
          [] OTHER            -> Bad(r.pos)

ObjectHead(src, pos, depth) == DecodeAll(<<One("NodeId"), One("Byte")>>, src, pos, depth)

DecodeExtensionObject(src, pos, depth) ==
    Then(ObjectHead(src, pos, depth), LAMBDA r : DecodeObject(src, r, depth))

VariantOf(t, array, data, dims) == [type |-> t, array |-> array, data |-> data, dims |-> dims]
NoVariant == VariantOf(NoType, FALSE, Absent, <<>>)

\* A scalar object of a known type becomes a Variant of that type; any other is
\* decoded again, from its start, as an ExtensionObject.
Unwrap(src, head, pos, depth) ==
    IF head.value[2] = BYTESTRING /\ TypesByEncoding(head.value[1]) # {}
    THEN Then(Dec(TypeFound(head.value[1]), src, head.pos + 4, depth),
              LAMBDA r : Got(r, VariantOf(TypeFound(head.value[1]), FALSE, r.value, <<>>)))
    ELSE Then(Dec("ExtensionObject", src, pos, depth),
              LAMBDA r : Got(r, VariantOf("ExtensionObject", FALSE, r.value, <<>>)))

DecodeArrayVariant(src, b, t, depth) ==
    Then(DecodeAll(<<Many(t), IF Bit(b.value, DimsFlag) THEN Many("Int32") ELSE One(NoType)>>,
                   src, b.pos, depth),
         LAMBDA r : Got(r, VariantOf(t, TRUE, r.value[1], OrElse(r.value[2], NullArray).elems)))

\* Mutant: a scalar of the type Variant is decoded, too.
ScalarVariantAllowed(t, array) == TRUE

\* A variant cannot contain a variant, but an array of them.
ContentAllowed(t, array) == t = "Variant" => array

DecodeVariantContent(src, b, t, depth) ==
    CASE Bit(b.value, ArrayFlag) -> DecodeArrayVariant(src, b, t, depth)
      [] ~Bit(b.value, ArrayFlag) /\ t = "ExtensionObject" ->
            Then(ObjectHead(src, b.pos, depth), LAMBDA head : Unwrap(src, head, b.pos, depth))
      [] OTHER -> Then(Dec(t, src, b.pos, depth),
                       LAMBDA r : Got(r, VariantOf(t, FALSE, r.value, <<>>)))

DecodeVariantBody(src, b, depth) ==
    CASE b.value = 0 -> Got(b, NoVariant)
      [] b.value # 0 /\ b.value % 64 \notin DOMAIN Builtins -> Bad(b.pos)
      [] b.value % 64 \in DOMAIN Builtins
            /\ (~ContentAllowed(Builtins[b.value % 64], Bit(b.value, ArrayFlag)) \/ TooDeep(depth)) ->
            Bad(b.pos)
      [] OTHER -> DecodeVariantContent(src, b, Builtins[b.value % 64], depth + 1)

DecodeAnyVariant(src, pos, depth) ==
    Then(Read(src, pos, 1), LAMBDA b : DecodeVariantBody(src, b, depth))

---------------------------------------------------------------------------
(* DataValue, DiagnosticInfo and the structured types. *)

AnyDataValueOf(on, s) ==
    [on    |-> on,
     value |-> OrElse(s[1], NoVariant),
     val   |-> [status |-> OrElse(s[2], 0),
                sourceTimestamp |-> OrElse(s[3], 0), sourcePicoseconds |-> Clamp(OrElse(s[4], 0)),
                serverTimestamp |-> OrElse(s[5], 0), serverPicoseconds |-> Clamp(OrElse(s[6], 0))]]

DecodeDataValueParts(src, on, pos, depth) ==
    IF TooDeep(depth) THEN Bad(pos)
    ELSE Then(DecodeAll(<<OneIf("value" \in on, "Variant"), OneIf("status" \in on, "UInt32"),
                          OneIf("sourceTimestamp" \in on, "UInt64"),
                          OneIf("sourcePicoseconds" \in on, "UInt16"),
                          OneIf("serverTimestamp" \in on, "UInt64"),
                          OneIf("serverPicoseconds" \in on, "UInt16")>>,
                        src, pos, depth + 1),
              LAMBDA r : Got(r, AnyDataValueOf(on, r.value)))

DecodeAnyDataValue(src, pos, depth) ==
    Then(Read(src, pos, 1),
         LAMBDA b : DecodeDataValueParts(src, FlagsIn(b.value, DataValueMask), b.pos, depth))

\* The mask the decoder reads: one bit more than the encoder writes.
DiagnosticBits == [symbolicId |-> 1, namespaceUri |-> 2, localizedText |-> 4, locale |-> 8,
                   info |-> 16, status |-> 32, inner |-> 64]

DiagnosticOf(on, s, inner) ==
    [on    |-> on,
     val   |-> [symbolicId |-> OrElse(s[1], 0), namespaceUri |-> OrElse(s[2], 0),
                localizedText |-> OrElse(s[3], 0), locale |-> OrElse(s[4], 0),
                status |-> OrElse(s[6], 0)],
     info  |-> OrElse(s[5], NullArray),
     inner |-> inner]

DecodeInner(src, on, r, depth) ==
    CASE "inner" \notin on -> Got(r, DiagnosticOf(on, r.value, Absent))
      [] "inner" \in on /\ TooDeep(depth) -> Bad(r.pos)
      [] OTHER -> Then(Dec("DiagnosticInfo", src, r.pos, depth + 1),
                       LAMBDA x : Got(x, DiagnosticOf(on, r.value, x.value)))

DecodeDiagnosticParts(src, on, pos, depth) ==
    Then(DecodeAll(<<OneIf("symbolicId" \in on, "Int32"), OneIf("namespaceUri" \in on, "Int32"),
                     OneIf("localizedText" \in on, "Int32"), OneIf("locale" \in on, "Int32"),
                     OneIf("info" \in on, "String"), OneIf("status" \in on, "StatusCode")>>,
                   src, pos, depth),
         LAMBDA r : DecodeInner(src, on, r, depth))

DecodeDiagnosticInfo(src, pos, depth) ==
    Then(Read(src, pos, 1),
         LAMBDA b : DecodeDiagnosticParts(src, FlagsIn(b.value, DiagnosticBits), b.pos, depth))

DecodeStructure(t, src, pos, depth) ==
    IF TooDeep(depth) THEN Bad(pos)
    ELSE DecodeAll(DataTypes[t].members, src, pos, depth + 1)

\* The k-th bit of the mask is that of the k-th optional member.
InMask(t, i, mask) == Bit(mask, 2^(Cardinality({j \in Range(Optional(t)) : j < i})))

OptParts(t, mask) ==
    [i \in DOMAIN DataTypes[t].members |->
        IF DataTypes[t].members[i].optional /\ ~InMask(t, i, mask) THEN One(NoType)
        ELSE DataTypes[t].members[i]]

DecodeOptStructure(t, src, pos, depth) ==
    IF TooDeep(depth) THEN Bad(pos)
    ELSE Then(Read(src, pos, 4),
              LAMBDA mask : DecodeAll(OptParts(t, mask.value), src, mask.pos, depth + 1))

DecodeSelected(t, src, sel, depth) ==
    CASE sel.value = 0 -> Got(sel, [sel |-> 0, member |-> Absent])
      [] sel.value > Len(DataTypes[t].members) -> Bad(sel.pos)
      [] OTHER -> Then(Dec(DataTypes[t].members[sel.value].type, src, sel.pos, depth + 1),
                       LAMBDA r : Got(r, [sel |-> sel.value, member |-> r.value]))

DecodeUnion(t, src, pos, depth) ==
    IF TooDeep(depth) THEN Bad(pos)
    ELSE Then(Read(src, pos, 4), LAMBDA sel : DecodeSelected(t, src, sel, depth))

DecodeNumber(t, src, pos) ==
    Then(Read(src, pos, FixedWidth(t)),
         LAMBDA r : IF t = "Boolean" /\ r.value > 0 THEN Got(r, 1) ELSE r)

\* decodeBinaryJumpTable.
Dec(t, src, pos, depth) ==
    CASE Coding(t) \in {"Fixed", "Enum"} -> DecodeNumber(t, src, pos)
      [] Coding(t) = "String"          -> DecodeArrayOf("Byte", src, pos, depth)
      [] Coding(t) = "Guid"            -> DecodeGuid(src, pos, depth)
      [] Coding(t) = "NodeId"          -> DecodeNodeId(src, pos, depth)
      [] Coding(t) = "ExpandedNodeId"  -> DecodeExpandedNodeId(src, pos, depth)
      [] Coding(t) = "QualifiedName"   -> DecodeQualifiedName(src, pos, depth)
      [] Coding(t) = "LocalizedText"   -> DecodeLocalizedText(src, pos, depth)
      [] Coding(t) = "ExtensionObject" -> DecodeExtensionObject(src, pos, depth)
      [] Coding(t) = "DataValue"       -> DecodeAnyDataValue(src, pos, depth)
      [] Coding(t) = "Variant"         -> DecodeAnyVariant(src, pos, depth)
      [] Coding(t) = "DiagnosticInfo"  -> DecodeDiagnosticInfo(src, pos, depth)
      [] Coding(t) = "Struct"          -> DecodeStructure(t, src, pos, depth)
      [] Coding(t) = "OptStruct"       -> DecodeOptStructure(t, src, pos, depth)
      [] Coding(t) = "Union"           -> DecodeUnion(t, src, pos, depth)
      [] OTHER                         -> Bad(pos)

\* UA_decodeBinary.
DecodeBinary(t, src, pos) == OrFail(Dec(t, src, pos, 0), pos, Absent)
=============================================================================
