---------------------------- MODULE BinaryTypes ----------------------------
(***************************************************************************)
(* The UA binary encoding of the types a UADP message is built from        *)
(* (ua_pubsub/ua_types_encoding_binary.c): integers, arrays and strings,   *)
(* Variant and DataValue.  Each type has its encoder, its decoder and its  *)
(* calcSize, translated one by one, so that "they agree" is something to   *)
(* check.                                                                  *)
(*                                                                         *)
(* A byte string is a sequence of 0..255.  A decoder takes the buffer and  *)
(* a 0-based offset and returns [rv, pos, value]; a decoder that fails     *)
(* leaves the offset where it was, as UA_decodeBinary does.                *)
(*                                                                         *)
(* Bounds on the data: integers are below 2^24 whatever their width (the   *)
(* upper bytes are zero), a Variant that is encoded holds a fixed-width    *)
(* builtin type and has no array dimensions, and a NULL array is not told  *)
(* apart from an empty one.  A Variant that is decoded may be any: the     *)
(* dimensions are read and dropped, and of a value of the other builtin    *)
(* types only the bytes it takes are kept, which StructuredEnd gives.      *)
(***************************************************************************)
EXTENDS Integers, Sequences, Functions

CONSTANT StructuredEnd(_, _, _)   \* buffer, encoding byte, offset: the offset behind the content

---------------------------------------------------------------------------
(* Integers. *)

Octet == 0..255

\* The values of an unsigned integer of w bytes, below the bound.
Limit(w)    == CASE w = 1 -> 256 [] w = 2 -> 65536 [] OTHER -> 16777216
Unsigned(w) == {v \in Nat : v < Limit(w)}

\* Mutant: the low byte is not cut off.
LEUnmasked(v, w) ==
    [i \in 1..w |-> CASE i = 1 -> v [] i = 2 -> v \div 256 [] i = 3 -> v \div 65536
                      [] OTHER -> 0]

\* v in w little-endian bytes.
LE(v, w) ==
    [i \in 1..w |-> CASE i = 1 -> v % 256
                      [] i = 2 -> (v \div 256) % 256
                      [] i = 3 -> (v \div 65536) % 256
                      [] OTHER -> 0]

Num(src, pos, w) ==
    CASE w = 1 -> src[pos + 1]
      [] w = 2 -> src[pos + 1] + 256 * src[pos + 2]
      [] OTHER -> src[pos + 1] + 256 * src[pos + 2] + 65536 * src[pos + 3]

\* Mutant: the bound is compared with the start of the value, not its end.
ReadPastEnd(src, pos, w) ==
    IF pos < Len(src)
    THEN [rv |-> "Good", pos |-> pos + w,
          value |-> IF pos + w <= Len(src) THEN Num(src, pos, w) ELSE src[pos + 1]]
    ELSE [rv |-> "BadDecodingError", pos |-> pos, value |-> 0]

\* One integer of w bytes, checked against the end of the buffer.
Read(src, pos, w) ==
    IF pos + w <= Len(src)
    THEN [rv |-> "Good", pos |-> pos + w, value |-> Num(src, pos, w)]
    ELSE [rv |-> "BadDecodingError", pos |-> pos, value |-> 0]

Bit(v, mask) == (v \div mask) % 2 = 1

\* The byte made of the masks of the features in on, and the features in a byte.
FlagByte(on, masks) == SumFunctionOnSet(masks, on \cap DOMAIN masks)
FlagsIn(v, masks)   == {f \in DOMAIN masks : Bit(v, masks[f])}

\* if(rv != UA_STATUSCODE_GOOD) return rv;
Then(r, Op(_)) == IF r.rv = "Good" THEN Op(r) ELSE r

\* A decoder that has failed: the offset is where it was.
OrFail(r, pos, default) ==
    IF r.rv = "Good" THEN r ELSE [rv |-> "BadDecodingError", pos |-> pos, value |-> default]

\* Fields present only when their flag is set, <<flag, width>> in wire order.
\* r has the status rv, the offset pos and the values read so far, val.
PutField(r, x, f) == [r EXCEPT !.rv = x.rv, !.pos = x.pos, !.val[f] = x.value]

ReadOptional(src, r, on, f) ==
    IF r.rv # "Good" \/ f[1] \notin on THEN r
    ELSE PutField(r, Read(src, r.pos, f[2]), f[1])

ReadFields(src, r, on, layout) ==
    LET read[i \in 0..Len(layout)] ==
            IF i = 0 THEN r ELSE ReadOptional(src, read[i - 1], on, layout[i])
    IN  read[Len(layout)]

\* The values of the optional fields are those of their integer types.
FieldsFit(val, layout) == \A i \in DOMAIN layout : val[layout[i][1]] \in Unsigned(layout[i][2])

---------------------------------------------------------------------------
(* Arrays of fixed-width ("overlayable") elements and strings. *)

ElementBytes(data, w) ==
    [k \in 1..(w * Len(data)) |-> LE(data[((k - 1) \div w) + 1], w)[((k - 1) % w) + 1]]

EncodeArray(data, w) == LE(Len(data), 4) \o ElementBytes(data, w)

\* The decoder refuses a length that the rest of the buffer cannot hold before
\* it copies anything (the 1/32 filter in front of it refuses no more).
DecodeArray(src, pos, w) ==
    LET fail   == [rv |-> "BadDecodingError", pos |-> pos, value |-> <<>>]
        length == src[pos + 1] + 256 * src[pos + 2] + 65536 * src[pos + 3]
        start  == pos + 4
    IN  CASE start > Len(src) -> fail
          [] start <= Len(src) /\ (src[pos + 4] >= 128 \/ (length = 0 /\ src[pos + 4] = 0)) ->
                [rv |-> "Good", pos |-> start, value |-> <<>>]
          [] start <= Len(src) /\ src[pos + 4] < 128
                /\ (src[pos + 4] > 0 \/ length > (Len(src) - start) \div w) -> fail
          [] OTHER -> [rv |-> "Good", pos |-> start + w * length,
                       value |-> [i \in 1..length |-> Num(src, start + w * (i - 1), w)]]

ArraySize(data, w) == 4 + w * Len(data)

---------------------------------------------------------------------------
(* Variant: [type, arr, data].  The type is its id on the wire, type kind + 1; 0 is
   the empty Variant. *)

EmptyVariant == [type |-> 0, arr |-> FALSE, data |-> <<>>]

ByteId     == 3
UInt32Id   == 7
DateTimeId == 13

\* Bytes of one element of a builtin type; 0 for the types the model leaves out.
WidthOf(type) ==
    CASE type \in 1..3           -> 1    \* Boolean, SByte, Byte
      [] type \in 4..5           -> 2    \* Int16, UInt16
      [] type \in {6, 7, 10, 19} -> 4    \* Int32, UInt32, Float, StatusCode
      [] type \in {8, 9, 11, 13} -> 8    \* Int64, UInt64, Double, DateTime
      [] OTHER                   -> 0

Variants ==
    {EmptyVariant} \cup
    {v \in [type : 1..25, arr : BOOLEAN, data : Seq(Unsigned(4))] :
        /\ WidthOf(v.type) # 0
        /\ \A i \in DOMAIN v.data : v.data[i] \in Unsigned(WidthOf(v.type))
        /\ IF v.arr THEN Len(v.data) \in Unsigned(4) ELSE Len(v.data) = 1}

EncodeVariant(v) ==
    IF v.type = 0 THEN <<0>>
    ELSE <<v.type + (IF v.arr THEN 128 ELSE 0)>> \o
         (IF v.arr THEN EncodeArray(v.data, WidthOf(v.type))
                   ELSE LE(v.data[1], WidthOf(v.type)))

\* The decoder of String, ByteString and XmlElement as a StructuredEnd; it fails
\* with an offset outside the buffer.
StringEnd(src, encodingByte, pos) ==
    LET x == DecodeArray(src, pos, 1)
    IN  IF encodingByte \in {12, 15, 16} /\ x.rv = "Good" THEN x.pos ELSE -1

VariantTypeId == 24

\* The builtin types without a fixed width; a Variant holds Variants in an array only.
NoFixedWidth(type, arr) == type \in 1..25 /\ WidthOf(type) = 0 /\ (type = VariantTypeId => arr)

\* A value of such a type, and its dimensions, is passed over.
DecodeStructured(src, b) ==
    LET end == StructuredEnd(src, b.value, b.pos)
    IN  IF end \in b.pos..Len(src) THEN [b EXCEPT !.pos = end, !.value = EmptyVariant]
        ELSE [b EXCEPT !.rv = "BadDecodingError"]

\* An array and, if the encoding byte announces them, its dimensions.
DecodeArrayContent(src, b, w) ==
    LET x == DecodeArray(src, b.pos, w)
    IN  IF ~Bit(b.value, 64) THEN x
        ELSE Then(x, LAMBDA a : [DecodeArray(src, a.pos, 4) EXCEPT !.value = a.value])

\* What follows the encoding byte b of a Variant.
DecodeContent(src, b) ==
    LET arr  == b.value >= 128
        type == b.value % 64
        w    == WidthOf(type)
    IN  CASE b.value = 0                -> [b EXCEPT !.value = EmptyVariant]
          [] NoFixedWidth(type, arr)    -> DecodeStructured(src, b)
          [] b.value # 0 /\ w = 0 /\ ~NoFixedWidth(type, arr) ->
                [b EXCEPT !.rv = "BadDecodingError"]
          [] OTHER -> Then(IF arr THEN DecodeArrayContent(src, b, w) ELSE Read(src, b.pos, w),
                           LAMBDA x : [x EXCEPT !.value =
                               [type |-> type, arr |-> arr,
                                data |-> IF arr THEN x.value ELSE <<x.value>>]])

DecodeVariant(src, pos) ==
    OrFail(Then(Read(src, pos, 1), LAMBDA b : DecodeContent(src, b)), pos, EmptyVariant)

VariantSize(v) ==
    IF v.type = 0 THEN 1
    ELSE 1 + (IF v.arr THEN ArraySize(v.data, WidthOf(v.type)) ELSE WidthOf(v.type))

---------------------------------------------------------------------------
(* DataValue: [on, value, val]; on is the set of its present parts. *)

DataValueMask ==
    [value |-> 1, status |-> 2, sourceTimestamp |-> 4, serverTimestamp |-> 8,
     sourcePicoseconds |-> 16, serverPicoseconds |-> 32]

NoParts == [f \in DOMAIN DataValueMask \ {"value"} |-> 0]

\* The parts behind the value, in wire order.
PartsLayout == << <<"status", 4>>,
                  <<"sourceTimestamp", 8>>, <<"sourcePicoseconds", 2>>,
                  <<"serverTimestamp", 8>>, <<"serverPicoseconds", 2>> >>

DataValues ==
    {d \in [on : SUBSET DOMAIN DataValueMask, value : Variants,
            val : [DOMAIN DataValueMask \ {"value"} -> Nat]] : FieldsFit(d.val, PartsLayout)}

EmptyDataValue == [on |-> {}, value |-> EmptyVariant, val |-> NoParts]

MaxPicoSeconds == 9999

EncodeDataValue(d) ==
    LET put(f, w) == IF f \in d.on THEN LE(d.val[f], w) ELSE <<>>
    IN  <<FlagByte(d.on, DataValueMask)>>
        \o (IF "value" \in d.on THEN EncodeVariant(d.value) ELSE <<>>)
        \o put("status", 4)
        \o put("sourceTimestamp", 8) \o put("sourcePicoseconds", 2)
        \o put("serverTimestamp", 8) \o put("serverPicoseconds", 2)

Clamp(n) == IF n > MaxPicoSeconds THEN MaxPicoSeconds ELSE n

\* The parts of a DataValue that are present.
DecodeParts(src, on, start) ==
    Then(IF "value" \in on THEN DecodeVariant(src, start)
         ELSE [rv |-> "Good", pos |-> start, value |-> EmptyVariant],
         LAMBDA v : Then(ReadFields(src, [rv |-> "Good", pos |-> v.pos, val |-> NoParts], on,
                                    PartsLayout),
             LAMBDA r : [rv |-> "Good", pos |-> r.pos,
                         value |-> [on |-> on, value |-> v.value,
                                    val |-> [r.val EXCEPT !["sourcePicoseconds"] = Clamp(@),
                                                          !["serverPicoseconds"] = Clamp(@)]]]))

DecodeDataValue(src, pos) ==
    OrFail(Then(Read(src, pos, 1),
                LAMBDA m : DecodeParts(src, FlagsIn(m.value, DataValueMask), m.pos)),
           pos, EmptyDataValue)

DataValueSize(d) ==
    LET size(f, w) == IF f \in d.on THEN w ELSE 0
    IN  1 + (IF "value" \in d.on THEN VariantSize(d.value) ELSE 0)
          + size("status", 4)
          + size("sourceTimestamp", 8) + size("sourcePicoseconds", 2)
          + size("serverTimestamp", 8) + size("serverPicoseconds", 2)
=============================================================================
