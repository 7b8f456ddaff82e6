----------------------------- MODULE MCTypePath -----------------------------
(***************************************************************************)
(* Instances of TypePath: types of every kind and values that make every   *)
(* encoder and decoder take each of its branches.                          *)
(***************************************************************************)
EXTENDS TypePath

Member(t)   == [type |-> t, array |-> FALSE, optional |-> FALSE]
Members(t)  == [type |-> t, array |-> TRUE, optional |-> FALSE]
Maybe(m)    == [m EXCEPT !.optional = TRUE]

Description(kind, id, memSize, members) ==
    [kind |-> kind, ns |-> 2, id |-> id, encId |-> id + 1, memSize |-> memSize, members |-> members,
     custom |-> TRUE]

\* A type of UA_TYPES.
Known(d) == [d EXCEPT !.ns = 0, !.custom = FALSE]

\* Spot has the encoding id of Point, which comes first.
MCDataTypes ==
    [Point  |-> Known(Description("Struct", 300, 4, <<Member("Byte"), Member("UInt16")>>)),
     Line   |-> Description("Struct", 310, 40, <<Member("Point"), Members("Point"), Member("String")>>),
     Plan   |-> Description("Struct", 320, 48, <<Member("Line"), Member("UInt16")>>),
     Atlas  |-> Description("Struct", 330, 48, <<Member("Plan")>>),
     Report |-> Description("OptStruct", 340, 48,
                            <<Member("UInt16"), Maybe(Member("Byte")), Maybe(Members("String")),
                              Members("UInt16")>>),
     Note   |-> Description("OptStruct", 350, 24, <<Maybe(Member("String"))>>),
     List   |-> Description("OptStruct", 360, 24, <<Members("Byte"), Maybe(Member("Byte"))>>),
     Choice |-> Description("Union", 370, 24, <<Member("String"), Member("Point")>>),
     Color  |-> Description("Enum", 380, 4, <<>>),
     Amount |-> Description("Decimal", 390, 16, <<>>),
     Spot   |-> [Known(Description("Struct", 300, 8, <<Member("String")>>)) EXCEPT !.custom = TRUE]]

Item(t, v) == [type |-> t, value |-> v]

Text(s) == Filled(s)
AB == Text(<<65, 66>>)

Numeric(ns, id)    == [ns |-> ns, kind |-> "Numeric", id |-> id]
Named(ns, kind, s) == [ns |-> ns, kind |-> kind, id |-> s]
SomeGuid == [d1 |-> 70000, d2 |-> 513, d3 |-> 7, d4 |-> <<1, 2, 3, 4, 5, 6, 7, 8>>]

Scalar(t, v)      == VariantOf(t, FALSE, v, <<>>)
Array(t, s)       == VariantOf(t, TRUE, Filled(s), <<>>)
Matrix(t, s, dim) == VariantOf(t, TRUE, Filled(s), dim)

SomePoint == <<1, 258>>
PointId == Numeric(0, 301)
SomeLine  == <<SomePoint, Filled(<< <<2, 3>>, <<4, 5>> >>), AB>>
Encoded(id, body) == [enc |-> BYTESTRING, typeId |-> id, body |-> body]

NodeIds ==
    {Numeric(0, 0), Numeric(0, 255), Numeric(0, 256), Numeric(1, 2), Numeric(255, 65535),
     Numeric(256, 1), Numeric(0, 65536), Named(3, "String", AB), Named(3, "String", NullArray),
     Named(1, "Guid", SomeGuid), Named(0, "ByteString", Text(<<0, 255>>))}

Expanded(n, uri, server) == [node |-> n, uri |-> uri, server |-> server]

PartsOf(on) == [on |-> on, value |-> NoVariant, val |-> NoParts]
SomeDataValue ==
    [on |-> DOMAIN DataValueMask, value |-> Scalar("UInt16", 300),
     val |-> [status |-> 77, sourceTimestamp |-> 65537, sourcePicoseconds |-> 12000,
              serverTimestamp |-> 5, serverPicoseconds |-> 9999]]

NoDiagnostic ==
    [on |-> {}, val |-> [f \in Range(DiagnosticNumbers) \cup {"status"} |-> 0],
     info |-> NullArray, inner |-> Absent]
SomeDiagnostic ==
    [NoDiagnostic EXCEPT !.on = Range(DiagnosticNumbers) \cup {"info"}, !.info = AB,
                         !.val["symbolicId"] = 3, !.val["locale"] = 400]

\* The values of the builtin types.
BuiltinItems ==
    {Item("Boolean", 1), Item("Int64", 70000), Item("Double", 9), Item("String", NullArray),
     Item("String", Text(<<>>)), Item("String", EmptyText), Item("XmlElement", AB),
     Item("Guid", SomeGuid),
     Item("QualifiedName", [ns |-> 2, name |-> AB]),
     Item("LocalizedText", [locale |-> NullArray, text |-> AB]),
     Item("LocalizedText", [locale |-> AB, text |-> Text(<<>>)]),
     Item("LocalizedText", [locale |-> EmptyText, text |-> NullArray]),
     Item("DataValue", PartsOf({})), Item("DataValue", SomeDataValue),
     Item("DiagnosticInfo", NoDiagnostic), Item("DiagnosticInfo", SomeDiagnostic)}
    \cup {Item("NodeId", n) : n \in NodeIds}
    \cup {Item("ExpandedNodeId", Expanded(n, uri, server)) :
            n \in {Numeric(5, 6), Named(1, "Guid", SomeGuid)},
            uri \in {NullArray, Text(<<>>), EmptyText, AB}, server \in {0, 4}}

ObjectItems ==
    {Item("ExtensionObject", [enc |-> NOBODY, typeId |-> Numeric(0, 9), body |-> NullArray]),
     Item("ExtensionObject", Encoded(Numeric(0, 9), Text(<<1, 2, 3>>))),
     Item("ExtensionObject", Encoded(Named(1, "String", AB), NullArray)),
     Item("ExtensionObject", Encoded(PointId, Text(<<7, 1, 1>>))),
     Item("ExtensionObject", [enc |-> XML, typeId |-> PointId, body |-> AB]),
     Item("ExtensionObject", Decoded("Line", SomeLine)),
     Item("ExtensionObject", Decoded(NoType, Absent))}

VariantItems ==
    {Item("Variant", v) : v \in
        {NoVariant, Scalar("Guid", SomeGuid), Scalar("Color", 3), Scalar("Line", SomeLine),
         Scalar("ExtensionObject", Encoded(Numeric(0, 9), AB)),
         Scalar("ExtensionObject", Encoded(PointId, Text(<<7, 1, 1>>))),
         Scalar("DataValue", SomeDataValue), Scalar("Variant", Scalar("Byte", 1)),
         Array("UInt32", <<1, 70000, 3>>), Array("Guid", <<SomeGuid, SomeGuid>>),
         Array("Boolean", <<>>), VariantOf("String", TRUE, NullArray, <<>>),
         Array("LocalizedText", <<[locale |-> AB, text |-> AB]>>),
         Matrix("Int16", <<1, 2, 3, 4>>, <<2, 2>>), Array("Point", <<SomePoint, SomePoint>>),
         Array("Color", <<1, 2>>),
         Array("Variant", <<Scalar("Byte", 1), Scalar("String", AB)>>),
         Array("Variant", <<Array("Variant", <<Array("Byte", <<1, 2>>)>>)>>),
         Array("Variant", <<Array("Variant", <<Array("Variant", <<Scalar("Byte", 1)>>)>>)>>)}}

StructureItems ==
    {Item("Point", SomePoint), Item("Line", SomeLine), Item("Plan", <<SomeLine, 6>>),
     Item("Atlas", << <<SomeLine, 6>> >>), Item("Color", 2), Item("Amount", 0),
     Item("Report", <<9, 7, Filled(<<AB, NullArray>>), Filled(<<1>>)>>),
     Item("Report", <<9, Absent, Filled(<<AB>>), NullArray>>),
     Item("Report", <<9, 7, Absent, Filled(<<1, 2>>)>>),
     Item("Choice", [sel |-> 0, member |-> Absent]), Item("Choice", [sel |-> 1, member |-> AB]),
     Item("Choice", [sel |-> 2, member |-> SomePoint])}

\* Arrays of elements that are small on the wire, some of them too small for the filter.
SparseItems ==
    {Item("Variant", Array("Variant", <<NoVariant>>)),
     Item("Variant", Array("Variant", <<NoVariant, NoVariant>>)),
     Item("Variant", Array("DataValue", <<PartsOf({})>>)),
     Item("Variant", Array("DataValue", <<PartsOf({"value"})>>))}

\* Structures whose optional members are sized or looked for in the wrong place.
OptionalItems ==
    {Item("Note", <<Absent>>), Item("Note", <<AB>>),
     Item("List", <<Filled(<<1, 2>>), 3>>), Item("List", <<Filled(<<1, 2>>), Absent>>)}

MCItems ==
    BuiltinItems \cup ObjectItems \cup VariantItems \cup StructureItems \cup SparseItems
    \cup OptionalItems

MCChunkSizes == 19..32

MCMargins == {-1, 0, 1}

---------------------------------------------------------------------------
(* Values whose encoder and decoder do not agree. *)

DiagnosticItems ==
    {Item("DiagnosticInfo", [NoDiagnostic EXCEPT !.on = {"status"}, !.val["status"] = 5]),
     Item("DiagnosticInfo", [NoDiagnostic EXCEPT !.on = {"inner"}, !.inner = SomeDiagnostic])}
=============================================================================
