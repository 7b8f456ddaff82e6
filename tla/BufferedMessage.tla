-------------------------- MODULE BufferedMessage --------------------------
(***************************************************************************)
(* The fixed-offset path of ua_pubsub_networkmessage.c: a message is       *)
(* encoded once, and from then on only the bytes at known offsets are      *)
(* written (updateBufferedMessage) or read (updateBufferedNwMessage).      *)
(* UA_NetworkMessage_calcSizeBinary notes the offsets while it adds up the *)
(* size; here it is the sequence of the pieces whose sizes it adds.        *)
(*                                                                         *)
(* An offset is [type, offset, dsm, field]; dsm and field say where in the *)
(* message the value is that its offsetData points to.  The data is        *)
(* written and read while it changes, but never its type or its size.      *)
(***************************************************************************)
EXTENDS NetworkMessage

PublisherIdOffset  == "publisherId"
GroupIdOffset      == "writerGroupId"
WriterIdOffset     == "dataSetWriterId"
SequenceOffset     == "networkMessageSequenceNumber"
DSMSequenceOffset  == "dataSetMessageSequenceNumber"
TimestampOffset    == "timestamp"
PicosecondsOffset  == "picoseconds"
DataValueOffset    == "dataValue"
VariantOffset      == "variant"

---------------------------------------------------------------------------
(* The pieces of a message. *)

Unmarked == "none"
Span(size, mark) == [size |-> size, mark |-> mark, dsm |-> 0, field |-> 0]
SpanIf(m, f, size, mark) == IF f \in m.on THEN <<Span(size, mark)>> ELSE <<>>

\* The bookkeeping that only a subscriber needs (RTsubscriberEnabled).
ForReader(reader, mark) == IF reader THEN mark ELSE Unmarked

PublisherIdPiece(m, reader) ==
    SpanIf(m, "publisherId", IF m.pubType = StringId THEN ArraySize(m.pubString, 1)
                              ELSE PublisherIdWidth(m.pubType),
            ForReader(reader, PublisherIdOffset))

GroupPieces(m, reader) ==
    IF "groupHeader" \notin m.on THEN <<>>
    ELSE <<Span(1, Unmarked)>>
         \o SpanIf(m, "writerGroupId", 2, ForReader(reader, GroupIdOffset))
         \o SpanIf(m, "groupVersion", 4, Unmarked) \o SpanIf(m, "nmNumber", 2, Unmarked)
         \o SpanIf(m, "sequenceNumber", 2, SequenceOffset)

\* One offset for the table of writer ids, that of the first.
PayloadHeaderPieces(m, reader) ==
    IF "payloadHeader" \notin m.on THEN <<>>
    ELSE <<Span(1, Unmarked), Span(2 * Len(m.ids), ForReader(reader, WriterIdOffset))>>

PromotedPieces(m) ==
    LET size(i) == VariantSize(m.promoted[i])
    IN  SpanIf(m, "promoted", 2 + SumOf(Len(m.promoted), size), Unmarked)

SecurityPieces(m) ==
    IF "security" \notin m.on THEN <<>>
    ELSE <<Span(6 + Len(m.nonce), Unmarked)>> \o SpanIf(m, "footer", 2, Unmarked)

\* Mutant: the second flags byte is left out of the offsets.
OneFlagByte(d) == <<Span(1, Unmarked)>>

DSMFlagPieces(d) == <<Span(IF DataSetFlags2Enabled(d) THEN 2 ELSE 1, Unmarked)>>

FieldSpan(d, i) ==
    IF d.enc = VariantEncoding THEN Span(VariantSize(d.fields[i].value), VariantOffset)
    ELSE Span(DataValueSize(d.fields[i]), DataValueOffset)

\* Only the fields of a key frame have offsets.
DSMPieces(d) ==
    DSMFlagPieces(d)
    \o SpanIf(d, "sequenceNr", 2, DSMSequenceOffset)
    \o <<Span(SizeIf(d, "timestamp", 8) + SizeIf(d, "picoSeconds", 2) + SizeIf(d, "status", 2)
               + SizeIf(d, "majorVersion", 4) + SizeIf(d, "minorVersion", 4), Unmarked)>>
    \o (IF d.type = KeyFrame /\ d.enc # RawData
        THEN <<Span(2, Unmarked)>>
             \o [i \in DOMAIN d.fields |-> [FieldSpan(d, i) EXCEPT !.field = i]]
        ELSE <<Span(DSMSize(d) - HeaderSize(d), Unmarked)>>)

InMessage(pieces, n) == [k \in DOMAIN pieces |-> [pieces[k] EXCEPT !.dsm = n]]

MessagePieces(m, reader) ==
    LET messages(n) == InMessage(DSMPieces(m.dsms[n]), n)
    IN  <<Span(1 + (IF ExtendedFlags1Enabled(m) THEN 1 ELSE 0)
                  + (IF ExtendedFlags2Enabled(m) THEN 1 ELSE 0), Unmarked)>>
        \o PublisherIdPiece(m, reader) \o SpanIf(m, "classId", 16, Unmarked)
        \o GroupPieces(m, reader) \o PayloadHeaderPieces(m, reader)
        \o SpanIf(m, "timestamp", 8, TimestampOffset)
        \o SpanIf(m, "picoseconds", 2, PicosecondsOffset)
        \o PromotedPieces(m) \o SecurityPieces(m)
        \o (IF DSMCount(m) > 1 THEN <<Span(2 * DSMCount(m), Unmarked)>> ELSE <<>>)
        \o Each(DSMCount(m), messages)

\* The offsets calcSize notes while it adds up the size: those of the marked pieces.
Noted(a, p) ==
    [size    |-> a.size + p.size,
     offsets |-> IF p.mark = Unmarked THEN a.offsets
                 ELSE Append(a.offsets, [type |-> p.mark, offset |-> a.size,
                                         dsm |-> p.dsm, field |-> p.field])]

Noting(pieces) ==
    LET note[k \in 0..Len(pieces)] ==
            IF k = 0 THEN [size |-> 0, offsets |-> <<>>] ELSE Noted(note[k - 1], pieces[k])
    IN  note[Len(pieces)]

Offsets(m, reader) == Noting(MessagePieces(m, reader)).offsets

---------------------------------------------------------------------------
(* updateBufferedMessage: the publisher. *)

\* The Variant of an offset has the data and the type of the field, as a scalar.
AsScalar(v) == IF v.arr /\ v.data # <<>> THEN [v EXCEPT !.arr = FALSE] ELSE v

\* Every DataValue offset points to the first field.
NewContent(o, m) ==
    CASE o.type = SequenceOffset    -> LE(m.val["sequenceNumber"], 2)
      [] o.type = DSMSequenceOffset -> LE(m.dsms[o.dsm].val["sequenceNr"], 2)
      [] o.type = DataValueOffset   -> EncodeDataValue(m.dsms[o.dsm].fields[1])
      [] o.type = VariantOffset     -> EncodeVariant(AsScalar(m.dsms[o.dsm].fields[o.field].value))

Writable == {SequenceOffset, DSMSequenceOffset, DataValueOffset, VariantOffset}

Overwrite(out, pos, bytes) ==
    [k \in DOMAIN out |-> IF k \in (pos + 1)..(pos + Len(bytes)) THEN bytes[k - pos] ELSE out[k]]

\* One offset; its statuscode takes the place of that of the offset before.  Of a content
\* that does not fit, the code leaves the numbers in front of the end in the buffer; here
\* the buffer stays as it was.  No property looks at that: a content that does not fit is
\* longer than the one the offset was noted for, which Writeable messages do not have.
WriteOffset(a, o, m) ==
    CASE a.stop -> a
      [] ~a.stop /\ o.type \notin Writable -> [a EXCEPT !.rv = "BadNotSupported", !.stop = TRUE]
      [] ~a.stop /\ o.type \in Writable /\ o.offset + Len(NewContent(o, m)) <= Len(a.out) ->
            [a EXCEPT !.rv = "Good", !.out = Overwrite(@, o.offset, NewContent(o, m))]
      [] OTHER -> [a EXCEPT !.rv = "BadEncodingError"]

UpdateBufferedMessage(out, offsets, m) ==
    LET run[k \in 0..Len(offsets)] ==
            IF k = 0 THEN [rv |-> "Good", stop |-> FALSE, out |-> out]
            ELSE WriteOffset(run[k - 1], offsets[k], m)
    IN  run[Len(offsets)]

---------------------------------------------------------------------------
(* updateBufferedNwMessage: the subscriber.  a has the message dst, the next
   field to fill, the end pos of what was read last, and whether a field behind
   the last one of the first DataSetMessage was written. *)

\* The statuscode of a number is returned at once, that of the publisher id is not.
ReadOffset(a, x, returns) ==
    [a EXCEPT !.rv = x.rv, !.stop = returns /\ x.rv # "Good", !.pos = x.pos]

SetNumber(a, x, f, returns) ==
    LET r == ReadOffset(a, x, returns)
    IN  IF x.rv = "Good" THEN [r EXCEPT !.dst.val[f] = x.value]
        ELSE [r EXCEPT !.dst.val[f] = 0]

SetWriterId(a, x) ==
    [ReadOffset(a, x, TRUE) EXCEPT !.dst.ids[1] = IF x.rv = "Good" THEN x.value ELSE 0]

\* Mutant: the statuscode of a field is not returned, and the next field follows.
FillFieldAnyway(a, x, field) ==
    IF a.next \notin DOMAIN a.dst.dsms[1].fields
    THEN [ReadOffset(a, x, FALSE) EXCEPT !.next = @ + 1, !.overrun = TRUE]
    ELSE [ReadOffset(a, x, FALSE) EXCEPT !.dst.dsms[1].fields[a.next] = field, !.next = @ + 1]

\* A field that cannot be decoded is left empty.
FillField(a, x, field) ==
    IF a.next \notin DOMAIN a.dst.dsms[1].fields
    THEN [ReadOffset(a, x, TRUE) EXCEPT !.next = @ + 1, !.overrun = TRUE]
    ELSE [ReadOffset(a, x, TRUE) EXCEPT !.dst.dsms[1].fields[a.next] = field,
                                        !.next = IF x.rv = "Good" THEN @ + 1 ELSE @]

WithValue(f, x) ==
    IF x.rv = "Good" THEN [f EXCEPT !.on = @ \cup {"value"}, !.value = x.value]
    ELSE [f EXCEPT !.value = EmptyVariant]

FieldNow(a) ==
    IF a.next \in DOMAIN a.dst.dsms[1].fields THEN a.dst.dsms[1].fields[a.next] ELSE EmptyDataValue

\* Mutant: the fields are counted once more behind the switch.
CountedTwice(a, x) == [FillField(a, x, WithValue(FieldNow(a), x)) EXCEPT !.next = @ + 1]

SetVariant(a, x)   == FillField(a, x, WithValue(FieldNow(a), x))
SetDataValue(a, x) == FillField(a, x, x.value)

\* One offset, from pos in src on.
ReadAt(a, o, src, pos) ==
    CASE o.type = PublisherIdOffset /\ a.dst.pubType < StringId ->
            SetNumber(a, Read(src, pos, PublisherIdWidth(a.dst.pubType)), "publisherId", FALSE)
      [] o.type = GroupIdOffset   -> SetNumber(a, Read(src, pos, 2), "writerGroupId", TRUE)
      [] o.type = WriterIdOffset  -> SetWriterId(a, Read(src, pos, 2))
      [] o.type = SequenceOffset  -> SetNumber(a, Read(src, pos, 2), "sequenceNumber", TRUE)
      [] o.type = DataValueOffset -> SetDataValue(a, DecodeDataValue(src, pos))
      [] o.type = VariantOffset   -> SetVariant(a, DecodeVariant(src, pos))
      [] OTHER                    -> [a EXCEPT !.rv = "BadNotSupported", !.stop = TRUE]

\* The next offset, unless the update has been given up.
ReadNext(a, o, src, position) == IF a.stop THEN a ELSE ReadAt(a, o, src, o.offset + position)

UpdateBufferedNwMessage(dst, offsets, src, position) ==
    LET run[k \in 0..Len(offsets)] ==
            IF k = 0 THEN [rv |-> "Good", stop |-> FALSE, dst |-> dst, next |-> 1, pos |-> 0,
                           overrun |-> FALSE]
            ELSE ReadNext(run[k - 1], offsets[k], src, position)
    IN  run[Len(offsets)]
=============================================================================
