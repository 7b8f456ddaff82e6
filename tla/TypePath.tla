------------------------------ MODULE TypePath ------------------------------
(***************************************************************************)
(* A value on its way through UA_calcSizeBinary, UA_encodeBinary and       *)
(* UA_decodeBinary.  A sender encodes it either into a buffer of the       *)
(* calculated size (and, when the caller got that wrong, of another), or   *)
(* in chunks that a callback takes one after the other.  A receiver        *)
(* decodes what has arrived: the whole message, or one cut short.          *)
(***************************************************************************)
EXTENDS TypeDecoding

CONSTANTS Items,        \* the values to encode, [type, value]
          ChunkSizes,   \* the sizes of the buffers in chunked encoding
          Chunks,       \* how many chunks the callback takes at most
          Margins,      \* how much a single buffer is longer than the calculated size
          Strays,       \* what a misplaced pointer reads (see MaskBits)
          None

\* The most bytes any encoder writes without a way back: a NodeId with a Guid.  Chunks
\* are no smaller; a shorter one makes the retry of a structure repeat what was sent.
LargestGroup == 19

ASSUME ChunkSizesAssumption == \A size \in ChunkSizes : size \in Nat /\ size >= LargestGroup

VARIABLES item,      \* the value being sent
          out,       \* what UA_encodeBinary has left: a context
          message,   \* the bytes the receiver has
          in         \* what UA_decodeBinary has returned, and for how many bytes

vars == <<item, out, message, in>>

\* UA_encodeBinary.
EncodeBinary(i, size, left, stray) ==
    RunStep(Exchanging(Program(i.type, i.value, [depth |-> 0, stray |-> stray])), Context(size, left))

Init == item = None /\ out = None /\ message = None /\ in = None

\* Into one buffer, allocated for the calculated size.
EncodeWhole(i, margin, stray) ==
    /\ item = None
    /\ Size(i.type, i.value) + margin >= 0
    /\ item' = i
    /\ out' = EncodeBinary(i, Size(i.type, i.value) + margin, NoCallback, stray)
    /\ UNCHANGED <<message, in>>

EncodeChunked(i, size, left, stray) ==
    /\ item = None
    /\ item' = i
    /\ out' = EncodeBinary(i, size, left, stray)
    /\ UNCHANGED <<message, in>>

\* The last buffer goes out after the return of UA_encodeBinary.
Pieces(c) == Append(c.sent, c.cur)

Send ==
    /\ out # None
    /\ out.rv = {}
    /\ message' = FlattenSeq(Pieces(out))
    /\ out' = None
    /\ UNCHANGED <<item, in>>

GiveUp ==
    /\ out # None
    /\ out.rv # {}
    /\ item' = None
    /\ out' = None
    /\ UNCHANGED <<message, in>>

\* Only the first n bytes have arrived.
Receive(n) ==
    /\ message # None
    /\ in = None
    /\ in' = [n |-> n, r |-> DecodeBinary(item.type, SubSeq(message, 1, n), 0)]
    /\ UNCHANGED <<item, out, message>>

Clear ==
    /\ in # None
    /\ item' = None
    /\ message' = None
    /\ in' = None
    /\ UNCHANGED out

Next ==
    \/ \E i \in Items, d \in Margins, stray \in Strays : EncodeWhole(i, d, stray)
    \/ \E i \in Items, size \in ChunkSizes, left \in Chunks, stray \in Strays :
            EncodeChunked(i, size, left, stray)
    \/ Send
    \/ GiveUp
    \/ \E n \in 0..(IF message = None THEN 0 ELSE Len(message)) : Receive(n)
    \/ Clear

Spec == Init /\ [][Next]_vars

---------------------------------------------------------------------------
(* What a value comes to at the receiver. *)

RECURSIVE Normal(_, _)

\* An array without elements arrives as NULL unless it has the sentinel.
NormalArray(a, t) ==
    IF a.elems = <<>> THEN (IF a.at = "sentinel" THEN a ELSE NullArray)
    ELSE [a EXCEPT !.elems = [i \in DOMAIN @ |-> Normal(t, @[i])]]

NormalNodeId(n) == IF n.kind \in {"String", "ByteString"} THEN [n EXCEPT !.id = NormalArray(@, "Byte")] ELSE n

NormalExpanded(x) ==
    [x EXCEPT !.node = NormalNodeId(IF x.uri.at = "data" THEN [@ EXCEPT !.ns = 0] ELSE @),
              !.uri  = IF x.uri.at = "data" THEN NormalArray(@, "Byte") ELSE NullArray]

\* A body of a known type is decoded behind its length, as if it had been sent decoded.
NormalObject(x) ==
    CASE x.enc = DECODED -> [x EXCEPT !.data = Normal(x.type, @)]
      [] x.enc = BYTESTRING /\ TypesByEncoding(x.typeId) # {} ->
            Decoded(TypeFound(x.typeId), Dec(TypeFound(x.typeId), x.body.elems, 0, 0).value)
      [] OTHER -> [x EXCEPT !.body = NormalArray(@, "Byte"), !.typeId = NormalNodeId(@)]

\* Of the types that are no builtin ones only a single structure comes back as such.
NormalVariant(v) ==
    CASE v.type = NoType -> v
      [] v.type # NoType /\ Coding(v.type) = "Enum" -> [v EXCEPT !.type = "Int32"]
      [] v.type # NoType /\ Wraps(v.type) /\ v.array ->
            [v EXCEPT !.type = "ExtensionObject",
                      !.data = Filled([i \in DOMAIN v.data.elems |->
                                          Decoded(v.type, Normal(v.type, v.data.elems[i]))])]
      [] v.type = "ExtensionObject" /\ ~v.array
            /\ NormalObject(v.data).enc = DECODED ->
            VariantOf(NormalObject(v.data).type, FALSE, NormalObject(v.data).data, <<>>)
      [] OTHER -> [v EXCEPT !.data = IF v.array THEN NormalArray(@, v.type) ELSE Normal(v.type, @)]

NormalDataValue(d) ==
    [d EXCEPT !.value = NormalVariant(@),
              !.val["sourcePicoseconds"] = Clamp(@), !.val["serverPicoseconds"] = Clamp(@)]

Normal(t, v) ==
    CASE Coding(t) = "String"          -> NormalArray(v, "Byte")
      [] Coding(t) = "NodeId"          -> NormalNodeId(v)
      [] Coding(t) = "ExpandedNodeId"  -> NormalExpanded(v)
      [] Coding(t) = "QualifiedName"   -> [v EXCEPT !.name = NormalArray(@, "Byte")]
      [] Coding(t) = "LocalizedText"   -> [f \in DOMAIN v |-> NormalArray(v[f], "Byte")]
      [] Coding(t) = "ExtensionObject" -> NormalObject(v)
      [] Coding(t) = "DataValue"       -> NormalDataValue(v)
      [] Coding(t) = "Variant"         -> NormalVariant(v)
      [] Coding(t) \in {"Struct", "OptStruct"} ->
            [i \in DOMAIN v |-> CASE v[i] = Absent -> Absent
                                  [] v[i] # Absent /\ DataTypes[t].members[i].array ->
                                        NormalArray(v[i], DataTypes[t].members[i].type)
                                  [] OTHER -> Normal(DataTypes[t].members[i].type, v[i])]
      [] Coding(t) = "Union" ->
            IF v.sel = 0 THEN v ELSE [v EXCEPT !.member = Normal(DataTypes[t].members[v.sel].type, @)]
      [] OTHER -> v

RECURSIVE Depth(_, _, _)

DeepestOf(t, elems, kinds) == Max({0} \cup {Depth(t, elems[i], kinds) : i \in DOMAIN elems})

DepthInside(t, v, kinds) ==
    CASE Coding(t) = "Variant" ->
            IF v.type = NoType THEN 0
            ELSE DeepestOf(v.type, IF v.array THEN v.data.elems ELSE <<v.data>>, kinds)
      [] Coding(t) = "DataValue"      -> IF "value" \in v.on THEN Depth("Variant", v.value, kinds) ELSE 0
      [] Coding(t) = "DiagnosticInfo" -> IF "inner" \in v.on THEN Depth(t, v.inner, kinds) ELSE 0
      [] Coding(t) = "ExtensionObject" ->
            IF v.enc = DECODED /\ v.type # NoType THEN Depth(v.type, v.data, kinds) ELSE 0
      [] Coding(t) \in {"Struct", "OptStruct"} ->
            Max({0} \cup {DeepestOf(DataTypes[t].members[i].type,
                                    IF DataTypes[t].members[i].array THEN v[i].elems ELSE <<v[i]>>,
                                    kinds) : i \in {j \in DOMAIN v : v[j] # Absent}})
      [] Coding(t) = "Union" ->
            IF v.sel = 0 THEN 0 ELSE Depth(DataTypes[t].members[v.sel].type, v.member, kinds)
      [] OTHER -> 0

\* How deep the types of these kinds are nested in a value, itself included.
Depth(t, v, kinds) ==
    DepthInside(t, v, kinds)
    + IF Coding(t) \in kinds /\ (Coding(t) = "Variant" => v.type # NoType)
                             /\ (Coding(t) = "DiagnosticInfo" => "inner" \in v.on)
      THEN 1 ELSE 0

Structured == {"Struct", "OptStruct", "Union"}
Nesting    == Structured \cup {"Variant", "DataValue", "DiagnosticInfo"}

Encodable(i) ==
    /\ Depth(i.type, i.value, Structured) <= MaxRecursion + 1
    /\ ~(i.type = "ExtensionObject" /\ i.value.enc = DECODED /\ i.value.type = NoType)
    /\ Coding(i.type) # "Decimal"

\* An array that takes more than 32 times as much memory as it takes bytes, at the end
\* of a message.
TooSparse(v) ==
    /\ v.type # NoType /\ ~Wraps(v.type) /\ v.array
    /\ (MemSize(v.type) * Len(v.data.elems)) \div 32
          > VariantBytes(v) - 5

\* The decoder counts more kinds than the encoder, knows no Variant in a Variant and
\* filters out an array that is too large for the rest of the message.
Decodable(i) ==
    /\ Depth(i.type, i.value, Nesting) <= MaxRecursion + 1
    /\ i.type = "Variant" => /\ i.value.type = "Variant" => i.value.array
                             /\ ~TooSparse(i.value)

\* An optional member whose size is taken of its address.
SizedByPointer(i) ==
    /\ Coding(i.type) = "OptStruct"
    /\ \E k \in Present(i.type, i.value) :
          LET m == DataTypes[i.type].members[k]
          IN  ~m.array /\ Coding(m.type) \notin {"Fixed", "Enum", "Guid"}

\* A namespace URI without bytes that is not NULL, which is encoded and not counted.
SizedWithoutUri(i) ==
    i.type = "ExpandedNodeId" /\ i.value.uri.at = "data" /\ i.value.uri.elems = <<>>

\* The mask of optional members is made of what is found in the right place.
MaskSound(i) ==
    Coding(i.type) = "OptStruct" => \A k \in Range(Optional(i.type)) : ~Misplaced(i.type, k)

---------------------------------------------------------------------------
(* Properties. *)

\* Contexts hold statuscodes, and a message is bytes.
TypeOK ==
    /\ item \in Items \cup {None}
    /\ out # None => /\ out.rv \subseteq {"BadEncodingLimitsExceeded", "BadEncodingError",
                                         "BadSendFailed", "BadNotImplemented", "Crash"}
                     /\ out.left >= NoCallback
    /\ message # None => \A k \in DOMAIN message : message[k] \in 0..255
    /\ in # None => in.n \in 0..Len(message) /\ in.r.pos >= 0

\* UA_calcSizeBinary is what UA_encodeBinary needs without a callback: a buffer of
\* that size or more takes the value, which then has that length; a smaller one is
\* refused, as is a value that cannot be encoded.  The size is wrong just for a
\* structure with an optional member that is sized by its address, and for an
\* ExpandedNodeId with an empty namespace URI, which never fits.
SizeExact ==
    out # None /\ out.left = NoCallback /\ MaskSound(item) =>
        /\ out.rv = {} => (Len(out.cur) = Size(item.type, item.value) <=> ~SizedByPointer(item))
        /\ ~SizedByPointer(item) =>
               (out.rv = {} <=> ~SizedWithoutUri(item) /\ Encodable(item) /\ out.size >= Size(item.type, item.value))

\* encodeWithExchangeBuffer starts an attempt that did not fit once more: wherever the
\* chunks end, one after the other they are the encoding, nothing missing and nothing
\* twice, and no chunk is longer than its buffer.
ChunksAreEncoding ==
    out # None /\ MaskSound(item) =>
        LET whole == Unchunked(Program(item.type, item.value, [depth |-> 0, stray |-> FALSE]))
        IN  /\ IsPrefix(FlattenSeq(out.sent), whole)
            /\ \A k \in DOMAIN Pieces(out) : Len(Pieces(out)[k]) <= out.size
            /\ out.rv = {} => FlattenSeq(Pieces(out)) = whole

\* "A type encoding must not return BADENCODINGLIMITSEXCEEDED after the buffer could
\* have been exchanged" (lines 103-105): no retry begins at a position in a buffer that is
\* gone, and a full buffer is no error as long as the callback takes it.  The
\* assertions of lines 862 and 1031 do fail: what is in front of a decoded
\* ExtensionObject and the length of an array of them are written directly, and it is
\* the retry of their caller that mends it.
RetrySafe ==
    out # None /\ out.left # NoCallback /\ MaskSound(item) =>
        /\ out.failed \subseteq {862, 1031}
        /\ Encodable(item) => out.rv \subseteq {"BadSendFailed"}
        /\ out.rv # {} /\ Encodable(item) => out.left = 0

Arrives ==
    in.r = [rv |-> "Good", pos |-> Len(message), value |-> Normal(item.type, item.value)]

\* The decoder gives back what was encoded, and refuses what is nested too deep for it,
\* a Variant in a Variant and an array of many small elements; the encoder has none of
\* these limits.
RoundTrip ==
    in # None /\ in.n = Len(message) /\ MaskSound(item) =>
        IF Decodable(item) THEN Arrives ELSE in.r.rv # "Good"

\* A message that has lost its end is refused, wherever it was cut.  (A structure without
\* members in an ExtensionObject, which no item has, would not be if it is cut in its
\* length: nothing is read behind the unchecked jump.)
CutRefused ==
    in # None /\ in.n < Len(message) => in.r.rv # "Good"

\* "innerDiagnosticInfo is allocated on the heap" (line 1303) and decoded as the encoder
\* wrote it: a DiagnosticInfo arrives with its inner status and its inner DiagnosticInfo.
DiagnosticKept ==
    in # None /\ in.n = Len(message) /\ item.type = "DiagnosticInfo" => Arrives
=============================================================================
