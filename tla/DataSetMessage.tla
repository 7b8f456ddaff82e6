--------------------------- MODULE DataSetMessage --------------------------
(***************************************************************************)
(* One DataSetMessage of a UADP NetworkMessage: encode, decode, calcSize   *)
(* and free (the UA_DataSetMessage and UA_DataSetMessageHeader functions   *)
(* of ua_pubsub/ua_pubsub_networkmessage.c).                               *)
(*                                                                         *)
(* A message is a record                                                   *)
(*   on     the header features that are present                           *)
(*   type   0 key frame, 1 delta frame, 2 event, 3 keep-alive              *)
(*   enc    field encoding: 0 Variant, 1 raw data, 2 DataValue             *)
(*   val    the value of every optional header field                       *)
(*   fields the DataValues; a delta frame's fields are [index, value]      *)
(* A decoded message also has count, the fieldCount read from the wire,    *)
(* and owns, TRUE when its field array has been allocated.  fields is then *)
(* the prefix of the array whose entries are initialised.                  *)
(*                                                                         *)
(* An encoder is a sequence of writes.  The statuscode of a "must" write   *)
(* is returned when it is not GOOD, that of a "try" write is dropped; a    *)
(* "halt" is a return statement.                                           *)
(***************************************************************************)
EXTENDS BinaryTypes, SequencesExt

KeyFrame   == 0
DeltaFrame == 1
KeepAlive  == 3

VariantEncoding   == 0
RawData           == 1
DataValueEncoding == 2

Must(bytes)      == << [kind |-> "must", bytes |-> bytes, keep |-> 0, rv |-> "Good"] >>
Try(bytes, keep) == << [kind |-> "try", bytes |-> bytes, keep |-> keep, rv |-> "Good"] >>
Halt(rv)         == << [kind |-> "halt", bytes |-> <<>>, keep |-> 0, rv |-> rv] >>

\* An optional field of w bytes, and its size.
Field(x, f, w)  == IF f \in x.on THEN Must(LE(x.val[f], w)) ELSE <<>>
SizeIf(x, f, w) == IF f \in x.on THEN w ELSE 0

Each(n, Op(_)) == FlattenSeq([i \in 1..n |-> Op(i)])
SumOf(n, Op(_)) == SumFunction([i \in 1..n |-> Op(i)])

---------------------------------------------------------------------------
(* The header. *)

Flags1Mask == [valid |-> 1, sequenceNr |-> 8, status |-> 16,
               majorVersion |-> 32, minorVersion |-> 64]
Flags2Mask == [timestamp |-> 16, picoSeconds |-> 32]

DSMFields == {"sequenceNr", "timestamp", "picoSeconds", "status", "majorVersion", "minorVersion"}

DataSetFlags2Enabled(d) == d.type # KeyFrame \/ d.on \cap {"timestamp", "picoSeconds"} # {}

HeaderSegments(d) ==
    Must(<<2 * d.enc + FlagByte(d.on, Flags1Mask) + (IF DataSetFlags2Enabled(d) THEN 128 ELSE 0)>>)
    \o (IF DataSetFlags2Enabled(d) THEN Must(<<d.type + FlagByte(d.on, Flags2Mask)>>) ELSE <<>>)
    \o Field(d, "sequenceNr", 2)
    \o Field(d, "timestamp", 8)
    \o Field(d, "picoSeconds", 2)
    \o Field(d, "status", 2)
    \o Field(d, "majorVersion", 4)
    \o Field(d, "minorVersion", 4)

\* Mutant: the version fields are read before the status.
StatusLast == << <<"sequenceNr", 2>>, <<"timestamp", 8>>, <<"picoSeconds", 2>>,
                 <<"majorVersion", 4>>, <<"minorVersion", 4>>, <<"status", 2>> >>

\* The optional fields in the order they are decoded in.
HeaderLayout == << <<"sequenceNr", 2>>, <<"timestamp", 8>>, <<"picoSeconds", 2>>,
                   <<"status", 2>>, <<"majorVersion", 4>>, <<"minorVersion", 4>> >>

\* The structs UA_DataSetMessage_DeltaFrameField and UA_DataSetMessage.
DeltaFields == [index : Unsigned(2), value : DataValues]

DataSetMessages ==
    {d \in [on : SUBSET (DOMAIN Flags1Mask \cup DOMAIN Flags2Mask), type : 0..3, enc : 0..2,
            val : [DSMFields -> Nat], fields : Seq(DataValues) \cup Seq(DeltaFields)] :
        /\ FieldsFit(d.val, HeaderLayout)
        /\ Len(d.fields) \in Unsigned(2)
        /\ d.type = KeyFrame => d.fields \in Seq(DataValues)
        /\ d.type = DeltaFrame => d.fields \in Seq(DeltaFields)}

DecodeHeader(src, pos) ==
    LET b1 == Read(src, pos, 1)
        b2 == IF Bit(b1.value, 128) THEN Read(src, b1.pos, 1)
              ELSE [b1 EXCEPT !.value = KeyFrame]
        on == FlagsIn(b1.value, Flags1Mask) \cup FlagsIn(b2.value, Flags2Mask)
        r  == ReadFields(src, [rv |-> b2.rv, pos |-> b2.pos, val |-> [f \in DSMFields |-> 0]], on,
                         HeaderLayout)
    IN  [rv |-> r.rv, pos |-> r.pos,
         dsm |-> [on |-> on, type |-> b2.value % 16, enc |-> (b1.value \div 2) % 4, val |-> r.val,
                  fields |-> <<>>, count |-> 0, owns |-> FALSE]]

HeaderSize(d) ==
    1 + (IF DataSetFlags2Enabled(d) THEN 1 ELSE 0)
    + SizeIf(d, "sequenceNr", 2) + SizeIf(d, "timestamp", 8) + SizeIf(d, "picoSeconds", 2)
    + SizeIf(d, "status", 2) + SizeIf(d, "majorVersion", 4) + SizeIf(d, "minorVersion", 4)

---------------------------------------------------------------------------
(* Encoding and its size. *)

DSMSegments(d) ==
    LET key(i)   == IF d.enc = VariantEncoding THEN Must(EncodeVariant(d.fields[i].value))
                    ELSE Must(EncodeDataValue(d.fields[i]))
        delta(i) == Must(LE(d.fields[i].index, 2)) \o
                    (IF d.enc = VariantEncoding THEN Must(EncodeVariant(d.fields[i].value.value))
                     ELSE Must(EncodeDataValue(d.fields[i].value)))
        count    == Must(LE(Len(d.fields), 2))
    IN  HeaderSegments(d) \o
        (CASE d.type = KeyFrame /\ d.enc = RawData   -> Halt("BadNotImplemented")
          [] d.type = KeyFrame /\ d.enc # RawData   -> count \o Each(Len(d.fields), key)
          [] d.type = DeltaFrame /\ d.enc = RawData -> count \o Halt("BadNotImplemented")
          [] d.type = DeltaFrame /\ d.enc # RawData -> count \o Each(Len(d.fields), delta)
          [] d.type = KeepAlive                     -> <<>>
          [] OTHER                                  -> Halt("BadNotImplemented"))

DSMSize(d) ==
    LET value(i) == IF d.type = KeyFrame THEN d.fields[i] ELSE d.fields[i].value
        size(i)  == (IF d.type = DeltaFrame THEN 2 ELSE 0)
                    + (IF d.enc = VariantEncoding THEN VariantSize(value(i).value)
                       ELSE DataValueSize(value(i)))
    IN  HeaderSize(d) +
        IF d.type \in {KeyFrame, DeltaFrame} /\ d.enc # RawData
        THEN 2 + SumOf(Len(d.fields), size) ELSE 0

---------------------------------------------------------------------------
(* Decoding. *)

OnlyValue(v) == [EmptyDataValue EXCEPT !.on = {"value"}, !.value = v]

FieldValue(src, pos, enc) ==
    IF enc = VariantEncoding
    THEN OrFail(Then(DecodeVariant(src, pos), LAMBDA v : [v EXCEPT !.value = OnlyValue(@)]),
                pos, EmptyDataValue)
    ELSE DecodeDataValue(src, pos)

AddField(r, f) == [r EXCEPT !.rv = f.rv, !.pos = f.pos, !.dsm.fields = Append(@, f.value)]
Indexed(n, f)  == [f EXCEPT !.value = [index |-> n, value |-> @]]

\* One field of a delta frame; its entry is not initialised when the index in
\* front of it cannot be read.
DeltaField(src, r, index) ==
    IF index.rv # "Good" THEN [r EXCEPT !.rv = index.rv]
    ELSE AddField(r, Indexed(index.value, FieldValue(src, index.pos, r.dsm.enc)))

NextField(src, r) ==
    Then(r, LAMBDA a : IF a.dsm.type = KeyFrame
                       THEN AddField(a, FieldValue(src, a.pos, a.dsm.enc))
                       ELSE DeltaField(src, a, Read(src, a.pos, 2)))

\* The loop over the fields stops at the first failure; every field takes at
\* least one byte, so it cannot run further than the buffer.
DecodeFields(src, r) ==
    LET n == IF r.dsm.count > Len(src) THEN Len(src) + 1 ELSE r.dsm.count
        step[i \in 0..n] == IF i = 0 THEN r ELSE NextField(src, step[i - 1])
    IN  step[n]

\* fieldCount, and the array allocated for it.
Counted(h, count) ==
    [h EXCEPT !.rv = count.rv, !.pos = count.pos, !.dsm.count = count.value,
              !.dsm.owns = count.rv = "Good" /\ h.dsm.enc \in {VariantEncoding, DataValueEncoding}]

DecodeFrame(src, h) ==
    LET frame == h.dsm.type \in {KeyFrame, DeltaFrame}
    IN  CASE frame /\ h.dsm.enc # RawData ->
                Then(Counted(h, Read(src, h.pos, 2)),
                     LAMBDA r : IF r.dsm.owns THEN DecodeFields(src, r) ELSE r)
          [] frame /\ h.dsm.enc = RawData -> h
          [] h.dsm.type = KeepAlive       -> h
          [] OTHER                        -> [h EXCEPT !.rv = "BadNotImplemented"]

DecodeDSM(src, pos) == Then(DecodeHeader(src, pos), LAMBDA h : DecodeFrame(src, h))

---------------------------------------------------------------------------
(* UA_DataSetMessage_free. *)

\* The entries of a delta frame are malloc'ed and all fieldCount of them are
\* cleared, decoded or not; those of a key frame come zeroed from calloc.
ClearsUninitialised(d) ==
    d.type = DeltaFrame /\ d.owns /\ Len(d.fields) < d.count

\* A key or delta frame that has an array frees it.
FreesFields(d) == d.type \in {KeyFrame, DeltaFrame} /\ d.owns
=============================================================================
