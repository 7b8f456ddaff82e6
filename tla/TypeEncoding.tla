---------------------------- MODULE TypeEncoding ----------------------------
(***************************************************************************)
(* Encoding and size of every builtin type and of the structured types     *)
(* (the encodeBinary and calcSizeBinary jump tables of                     *)
(* ua_types_encoding_binary.c), one program or size per type.              *)
(*                                                                         *)
(* Values, by type:                                                        *)
(*   fixed width            a number                                       *)
(*   Guid                   [d1, d2, d3, d4]                               *)
(*   array, String, ...     [at, elems]; at is what the data pointer is:   *)
(*                          NULL, the sentinel of an empty array, or data  *)
(*   NodeId                 [ns, kind, id]                                 *)
(*   ExpandedNodeId         [node, uri, server]                            *)
(*   QualifiedName          [ns, name]                                     *)
(*   LocalizedText          [locale, text]                                 *)
(*   ExtensionObject        [enc, typeId, body], or decoded [enc, type,    *)
(*                          data]                                          *)
(*   Variant                [type, array, data, dims]; type NoType: empty  *)
(*   DataValue              [on, value, val], as in BinaryTypes            *)
(*   DiagnosticInfo         [on, val, info, inner]                         *)
(*   structure              the sequence of the members; Absent for an     *)
(*                          optional one that is not there                 *)
(*   union                  [sel, member]                                  *)
(* DataTypes describes the types that are not builtin, as UA_DataType      *)
(* does: kind, ns, id, encId and members, each [type, array, optional],    *)
(* and custom: in the table of the application, not in UA_TYPES.  There is *)
(* no BitfieldCluster, which calcSize and the decoder do not implement.    *)
(* e has the recursion depth and what a stray pointer reads (MaskBits).    *)
(***************************************************************************)
EXTENDS ChunkedEncoding

CONSTANTS DataTypes,      \* the description of the types that are not builtin
          MaxRecursion,   \* UA_ENCODING_MAX_RECURSION, 100 in the code
          Absent          \* a NULL pointer

ASSUME MaxRecursionAssumption == MaxRecursion \in Nat

---------------------------------------------------------------------------
(* Types. *)

\* The type kinds in the order of the jump tables; the id on the wire is one more
\* than the type kind, the position here.
Builtins == <<"Boolean", "SByte", "Byte", "Int16", "UInt16", "Int32", "UInt32", "Int64",
              "UInt64", "Float", "Double", "String", "DateTime", "Guid", "ByteString",
              "XmlElement", "NodeId", "ExpandedNodeId", "StatusCode", "QualifiedName",
              "LocalizedText", "ExtensionObject", "DataValue", "Variant", "DiagnosticInfo">>

IdOf == [t \in Range(Builtins) |-> CHOOSE i \in DOMAIN Builtins : Builtins[i] = t]

NoType == "None"

\* How a type is coded: the entry of its type kind in the jump tables.
Coding(t) ==
    CASE t \in DOMAIN IdOf /\ t \in {"String", "ByteString", "XmlElement"} -> "String"
      [] t \in DOMAIN IdOf /\ WidthOf(IdOf[t]) > 0 -> "Fixed"
      [] t \in DOMAIN IdOf -> t
      [] OTHER -> DataTypes[t].kind

\* An enumeration is coded as an Int32.
FixedWidth(t) == IF t \in DOMAIN IdOf THEN WidthOf(IdOf[t]) ELSE 4

Overlayable(t) == Coding(t) \in {"Fixed", "Guid"}

NullArray  == [at |-> "null", elems |-> <<>>]
Filled(s)  == [at |-> IF s = <<>> THEN "sentinel" ELSE "data", elems |-> s]
\* UA_STRING(""): nothing in it, and yet a pointer to data.
EmptyText  == [at |-> "data", elems |-> <<>>]

TooDeep(depth) == depth > MaxRecursion
Deeper(e)      == [e EXCEPT !.depth = @ + 1]

\* Encoder and calcSize choose the form of a numeric id by the same tests.
NumericForm(n) ==
    CASE n.id > 65535 \/ n.ns > 255 -> "Complete"
      [] n.ns <= 255 /\ n.id <= 65535 /\ (n.id > 255 \/ n.ns > 0) -> "FourByte"
      [] OTHER -> "TwoByte"

---------------------------------------------------------------------------
(* Programs of the types without members of any type. *)

GuidBytes(g) == LE(g.d1, 4) \o LE(g.d2, 2) \o LE(g.d3, 2) \o g.d4

\* The statuscodes of the first three are or'ed, whatever fits behind them.
GuidProgram(g) ==
    << << Direct(LE(g.d1, 4)), Direct(LE(g.d2, 2)), Direct(LE(g.d3, 2)), Direct(g.d4) >> >>

\* 0 for the sentinel of an empty array, -1 for any other without elements.
LengthBytes(a) ==
    IF a.elems = <<>> /\ a.at # "sentinel" THEN <<255, 255, 255, 255>> ELSE LE(Len(a.elems), 4)

ArrayHead(a) == Do(Asserted(455, Do(Exchanging(Do(Direct(LengthBytes(a)))))))

StringProgram(s) == ArrayHead(s) \o Do(Asserted(464, Do(Overlay(s.elems))))

IdCode == [Numeric |-> 0, String |-> 3, Guid |-> 4, ByteString |-> 5]

\* The mask of an ExpandedNodeId is prefilled.
NodeIdProgram(n, mask) ==
    CASE n.kind = "Numeric" ->
            << CASE NumericForm(n) = "Complete" ->
                      << Direct(<<mask + 2>>), Direct(LE(n.ns, 2)), Direct(LE(n.id, 4)) >>
                 [] NumericForm(n) = "FourByte" ->
                      << Direct(<<mask + 1>>), Direct(LE(n.ns, 1)), Direct(LE(n.id, 2)) >>
                 [] OTHER -> << Direct(<<mask>>), Direct(LE(n.id, 1)) >> >>
      [] n.kind = "Guid" ->
            << << Direct(<<mask + IdCode.Guid>>), Direct(LE(n.ns, 2)), Call(GuidProgram(n.id)) >> >>
      [] n.kind \in {"String", "ByteString"} ->
            << << Direct(<<mask + IdCode[n.kind]>>), Direct(LE(n.ns, 2)) >> >>
            \o Do(Asserted(IF n.kind = "String" THEN 603 ELSE 618, StringProgram(n.id)))

ExpandedFlags == [server |-> 64, uri |-> 128]
ExpandedParts(x) == (IF x.uri.at = "data" THEN {"uri"} ELSE {})
                    \cup (IF x.server > 0 THEN {"server"} ELSE {})

ExpandedNodeIdProgram(x) ==
    Do(Call(NodeIdProgram(x.node, FlagByte(ExpandedParts(x), ExpandedFlags))))
    \o (IF "uri" \in ExpandedParts(x) THEN Do(Asserted(702, StringProgram(x.uri))) ELSE <<>>)
    \o (IF "server" \in ExpandedParts(x)
        THEN Do(Asserted(710, Do(Exchanging(Do(Direct(LE(x.server, 4))))))) ELSE <<>>)

QualifiedNameProgram(q) == Do(Direct(LE(q.ns, 2))) \o Do(Call(StringProgram(q.name)))

TextFlags == [locale |-> 1, text |-> 2]

\* A text is present when its data pointer is not NULL, as that of an empty one is.
TextParts(x) == {f \in DOMAIN TextFlags : x[f].at # "null"}

LocalizedTextProgram(x) ==
    LET Part(f) == IF f \in TextParts(x) THEN <<Call(StringProgram(x[f]))>> ELSE <<>>
    IN  Do(Direct(<<FlagByte(TextParts(x), TextFlags)>>))
        \o Do(Asserted(772, <<Part("locale") \o Part("text")>>))

---------------------------------------------------------------------------
(* Programs of the types that hold values of other types. *)

RECURSIVE Program(_, _, _)

ArrayProgram(a, t, e) ==
    ArrayHead(a) \o
    Do(Asserted(464, CASE Coding(t) = "Fixed" -> Do(Overlay(ElementBytes(a.elems, FixedWidth(t))))
                       [] Coding(t) = "Guid" ->
                            Do(Overlay(FlattenSeq([i \in DOMAIN a.elems |-> GuidBytes(a.elems[i])])))
                       [] OTHER ->
                            [i \in DOMAIN a.elems |-> <<Exchanging(Program(t, a.elems[i], e))>>]))

NOBODY     == 0
BYTESTRING == 1
XML        == 2
DECODED    == 3

TypeNodeId(t, id) == [ns |-> DataTypes[t].ns, kind |-> "Numeric", id |-> id]

EncodingByte(x) == Do(Exchanging(Do(Direct(<<x.enc>>))))

RECURSIVE Size(_, _)

ExtensionObjectProgram(x, e) ==
    CASE x.enc = NOBODY -> Do(Call(NodeIdProgram(x.typeId, 0))) \o EncodingByte(x)
      [] x.enc \in {BYTESTRING, XML} ->
            Do(Call(NodeIdProgram(x.typeId, 0))) \o EncodingByte(x)
            \o Do(Asserted(847, StringProgram(x.body)))
      [] x.enc = DECODED /\ x.type = NoType -> Do(Failing("BadEncodingError"))
      [] OTHER ->
            Do(Asserted(862, NodeIdProgram(TypeNodeId(x.type, DataTypes[x.type].encId), 0)))
            \o << << Direct(<<BYTESTRING>>), Direct(LE(Size(x.type, x.data), 4)) >> >>
            \o Do(Exchanging(Program(x.type, x.data, e)))

Decoded(t, v) == [enc |-> DECODED, type |-> t, data |-> v]

Wraps(t) == Coding(t) \notin {"Enum"} /\ t \notin DOMAIN IdOf

\* Everything that is no builtin type travels in an ExtensionObject, an array of it
\* with a length of its own.
WrapProgram(v, e) ==
    LET Object(x) == Do(Exchanging(ExtensionObjectProgram(Decoded(v.type, x), e)))
    IN  IF v.array
        THEN Do(Direct(LE(Len(v.data.elems), 4)))
             \o FlattenSeq([i \in DOMAIN v.data.elems |-> Object(v.data.elems[i])])
        ELSE Object(v.data)

VariantId(t) ==
    CASE t \in DOMAIN IdOf -> IdOf[t]
      [] Coding(t) = "Enum" -> IdOf["Int32"]
      [] OTHER -> IdOf["ExtensionObject"]

ArrayFlag == 128
DimsFlag  == 64

VariantProgram(v, e) ==
    IF v.type = NoType THEN Do(Direct(<<0>>))
    ELSE Do(Direct(<<VariantId(v.type) + (IF v.array THEN ArrayFlag ELSE 0)
                     + (IF v.array /\ v.dims # <<>> THEN DimsFlag ELSE 0)>>))
         \o Do(Asserted(1031, CASE Wraps(v.type) -> WrapProgram(v, e)
                                [] ~Wraps(v.type) /\ v.array -> ArrayProgram(v.data, v.type, e)
                                [] OTHER -> Do(Exchanging(Program(v.type, v.data, e)))))
         \o (IF v.array /\ v.dims # <<>>
             THEN Do(Asserted(1037, ArrayProgram(Filled(v.dims), "Int32", e))) ELSE <<>>)

\* The statuscodes behind the Variant are or'ed.
DataValueProgram(d, e) ==
    LET Part(f, w) == IF f \in d.on THEN <<Exchanging(Do(Direct(LE(d.val[f], w))))>> ELSE <<>>
    IN  Do(Direct(<<FlagByte(d.on, DataValueMask)>>))
        \o (IF "value" \in d.on THEN Do(Call(VariantProgram(d.value, e))) ELSE <<>>)
        \o Do(Asserted(1172, << Part("status", 4)
                                \o Part("sourceTimestamp", 8) \o Part("sourcePicoseconds", 2)
                                \o Part("serverTimestamp", 8) \o Part("serverPicoseconds", 2) >>))

\* The mask the encoder writes: nothing announces the inner status code.
DiagnosticMask == [symbolicId |-> 1, namespaceUri |-> 2, localizedText |-> 4, locale |-> 8,
                   info |-> 16, inner |-> 32]

DiagnosticNumbers == <<"symbolicId", "namespaceUri", "localizedText", "locale">>

DiagnosticInfoProgram(d, e) ==
    LET Part(f) == IF f \in d.on THEN <<Direct(LE(d.val[f], 4))>> ELSE <<>>
        numbers == FlattenSeq([i \in DOMAIN DiagnosticNumbers |-> Part(DiagnosticNumbers[i])])
    IN  << <<Direct(<<FlagByte(d.on, DiagnosticMask)>>)>> \o numbers >>
        \o (IF "info" \in d.on THEN Do(Call(StringProgram(d.info))) ELSE <<>>)
        \o (IF "status" \in d.on THEN Do(Exchanging(Do(Direct(LE(d.val["status"], 4))))) ELSE <<>>)
        \o (IF "inner" \in d.on THEN Do(Exchanging(Program("DiagnosticInfo", d.inner, e))) ELSE <<>>)

\* Mutant: the members are encoded without an exchange of a full buffer.
MemberDirect(m, v, e) ==
    IF m.array THEN Call(ArrayProgram(v, m.type, e)) ELSE Call(Program(m.type, v, e))

MemberProgram(m, v, e) ==
    IF m.array THEN Call(ArrayProgram(v, m.type, e)) ELSE Exchanging(Program(m.type, v, e))

\* The depth is that of structures within structures; it counts nothing else.
StructProgram(t, v, e) ==
    IF TooDeep(e.depth) THEN Do(Failing("BadEncodingError"))
    ELSE Do(Asserted(1350, [i \in DOMAIN v |->
                               <<MemberProgram(DataTypes[t].members[i], v[i], Deeper(e))>>]))

Optional(t) == SelectSeq([i \in DOMAIN DataTypes[t].members |-> i],
                         LAMBDA i : DataTypes[t].members[i].optional)
Present(t, v) == {i \in Range(Optional(t)) : v[i] # Absent}

\* While it makes the mask the encoder steps over a mandatory array by the size of
\* an element instead of that of a pointer: the members behind are looked for in the
\* wrong place, and e.stray is whether it finds a pointer there.
Misplaced(t, i) ==
    \E k \in 1..(i - 1) : LET m == DataTypes[t].members[k]
                          IN  m.array /\ ~m.optional /\ ~(Coding(m.type) = "Fixed" /\ FixedWidth(m.type) = 8)
MaskBits(t, v, e) ==
    {i \in Range(Optional(t)) : IF Misplaced(t, i) THEN e.stray ELSE i \in Present(t, v)}

MaskNumber(t, on) ==
    SumFunctionOnSet([k \in DOMAIN Optional(t) |-> 2^(k - 1)],
                     {k \in DOMAIN Optional(t) : Optional(t)[k] \in on})

OptStructProgram(t, v, e) ==
    LET on == MaskBits(t, v, e)
        Member(i) == CASE i \in Range(Optional(t)) /\ i \notin on -> <<>>
                       [] i \in on /\ v[i] = Absent -> Do(Stray)
                       [] OTHER -> Do(MemberProgram(DataTypes[t].members[i], v[i], Deeper(e)))
    IN  IF TooDeep(e.depth) THEN Do(Failing("BadEncodingError"))
        ELSE Do(Direct(LE(MaskNumber(t, on), 4)))
             \o Do(Asserted(1432, FlattenSeq([i \in DOMAIN v |-> Member(i)])))

UnionProgram(t, v, e) ==
    IF TooDeep(e.depth) THEN Do(Failing("BadEncodingError"))
    ELSE Do(Direct(LE(v.sel, 4)))
         \o (IF v.sel = 0 THEN <<>>
             ELSE Do(Asserted(1457, Do(Exchanging(
                      Program(DataTypes[t].members[v.sel].type, v.member, Deeper(e)))))))

\* encodeBinaryJumpTable.
Program(t, v, e) ==
    CASE Coding(t) \in {"Fixed", "Enum"} -> Do(Direct(LE(v, FixedWidth(t))))
      [] Coding(t) = "String"          -> StringProgram(v)
      [] Coding(t) = "Guid"            -> GuidProgram(v)
      [] Coding(t) = "NodeId"          -> NodeIdProgram(v, 0)
      [] Coding(t) = "ExpandedNodeId"  -> ExpandedNodeIdProgram(v)
      [] Coding(t) = "QualifiedName"   -> QualifiedNameProgram(v)
      [] Coding(t) = "LocalizedText"   -> LocalizedTextProgram(v)
      [] Coding(t) = "ExtensionObject" -> ExtensionObjectProgram(v, e)
      [] Coding(t) = "DataValue"       -> DataValueProgram(v, e)
      [] Coding(t) = "Variant"         -> VariantProgram(v, e)
      [] Coding(t) = "DiagnosticInfo"  -> DiagnosticInfoProgram(v, e)
      [] Coding(t) = "Struct"          -> StructProgram(t, v, e)
      [] Coding(t) = "OptStruct"       -> OptStructProgram(t, v, e)
      [] Coding(t) = "Union"           -> UnionProgram(t, v, e)
      [] OTHER                         -> Do(Failing("BadNotImplemented"))

---------------------------------------------------------------------------
(* calcSize. *)

SizesOf(t, s) == SumFunction([i \in DOMAIN s |-> Size(t, s[i])])

ArrayBytes(a, t) == 4 + SizesOf(t, a.elems)

NodeIdSize(n) ==
    CASE n.kind = "Numeric" -> 1 + (CASE NumericForm(n) = "Complete" -> 6
                                      [] NumericForm(n) = "FourByte" -> 3
                                      [] OTHER -> 1)
      [] n.kind = "Guid" -> 19
      [] OTHER -> 3 + ArrayBytes(n.id, "Byte")

ExpandedNodeIdSize(x) ==
    NodeIdSize(x.node) + (IF x.uri.elems # <<>> THEN ArrayBytes(x.uri, "Byte") ELSE 0)
    + (IF x.server > 0 THEN 4 ELSE 0)

LocalizedTextSize(x) ==
    1 + SumFunctionOnSet([f \in DOMAIN TextFlags |-> ArrayBytes(x[f], "Byte")], TextParts(x))

ExtensionObjectSize(x) ==
    CASE x.enc = NOBODY              -> 1 + NodeIdSize(x.typeId)
      [] x.enc \in {BYTESTRING, XML} -> 1 + NodeIdSize(x.typeId) + ArrayBytes(x.body, "Byte")
      [] x.enc = DECODED /\ x.type = NoType -> 0
      [] OTHER -> 1 + NodeIdSize(TypeNodeId(x.type, DataTypes[x.type].id)) + 4 + Size(x.type, x.data)

\* The content and, for a wrapped type, the head of each ExtensionObject: the node id
\* of the type, not that of its encoding.
VariantBytes(v) ==
    LET head == NodeIdSize(TypeNodeId(v.type, DataTypes[v.type].id)) + 1 + 4
    IN  IF v.type = NoType THEN 1
        ELSE 1 + (IF v.array THEN ArrayBytes(v.data, v.type) ELSE Size(v.type, v.data))
               + (IF Wraps(v.type) THEN head * (IF v.array THEN Len(v.data.elems) ELSE 1) ELSE 0)
               + (IF v.array /\ v.dims # <<>> THEN 4 + 4 * Len(v.dims) ELSE 0)

DataValueBytes(d) ==
    LET Part(f, w) == IF f \in d.on THEN w ELSE 0
    IN  1 + (IF "value" \in d.on THEN VariantBytes(d.value) ELSE 0) + Part("status", 4)
          + Part("sourceTimestamp", 8) + Part("sourcePicoseconds", 2)
          + Part("serverTimestamp", 8) + Part("serverPicoseconds", 2)

DiagnosticInfoSize(d) ==
    1 + 4 * Cardinality(d.on \cap (Range(DiagnosticNumbers) \cup {"status"}))
      + (IF "info" \in d.on THEN ArrayBytes(d.info, "Byte") ELSE 0)
      + (IF "inner" \in d.on THEN Size("DiagnosticInfo", d.inner) ELSE 0)

MemberSize(m, v) == IF m.array THEN ArrayBytes(v, m.type) ELSE Size(m.type, v)

StructSize(t, v) ==
    SumFunction([i \in DOMAIN v |-> MemberSize(DataTypes[t].members[i], v[i])])

\* What an address comes to when it is read as the length of a string.
Address == 2^20

\* The size of an optional scalar is taken of the pointer to it instead of its value,
\* which only a type of fixed size does not notice.
OptionalSize(m, v) ==
    CASE v = Absent -> 0
      [] v # Absent /\ m.optional /\ ~m.array /\ Coding(m.type) \notin {"Fixed", "Enum", "Guid"} ->
            Address
      [] OTHER -> MemberSize(m, v)

OptStructSize(t, v) ==
    4 + SumFunction([i \in DOMAIN v |-> OptionalSize(DataTypes[t].members[i], v[i])])

UnionSize(t, v) == 4 + IF v.sel = 0 THEN 0 ELSE Size(DataTypes[t].members[v.sel].type, v.member)

\* calcSizeBinaryJumpTable.
Size(t, v) ==
    CASE Coding(t) \in {"Fixed", "Enum"} -> FixedWidth(t)
      [] Coding(t) = "String"          -> 4 + Len(v.elems)
      [] Coding(t) = "Guid"            -> 16
      [] Coding(t) = "NodeId"          -> NodeIdSize(v)
      [] Coding(t) = "ExpandedNodeId"  -> ExpandedNodeIdSize(v)
      [] Coding(t) = "QualifiedName"   -> 2 + ArrayBytes(v.name, "Byte")
      [] Coding(t) = "LocalizedText"   -> LocalizedTextSize(v)
      [] Coding(t) = "ExtensionObject" -> ExtensionObjectSize(v)
      [] Coding(t) = "DataValue"       -> DataValueBytes(v)
      [] Coding(t) = "Variant"         -> VariantBytes(v)
      [] Coding(t) = "DiagnosticInfo"  -> DiagnosticInfoSize(v)
      [] Coding(t) = "Struct"          -> StructSize(t, v)
      [] Coding(t) = "OptStruct"       -> OptStructSize(t, v)
      [] Coding(t) = "Union"           -> UnionSize(t, v)
      [] OTHER                         -> 0
=============================================================================
