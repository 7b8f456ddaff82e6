--------------------------- MODULE NetworkMessage --------------------------
(***************************************************************************)
(* The UADP NetworkMessage: UA_NetworkMessage_encodeBinary, _decodeBinary, *)
(* _calcSizeBinary and _clear (ua_pubsub/ua_pubsub_networkmessage.c).      *)
(*                                                                         *)
(* A message is a record                                                   *)
(*   on        the features (the ...Enabled flags) that are set            *)
(*   version, pubType (0..3 an integer of 1, 2, 4, 8 bytes, 4 a string),   *)
(*   nmType (0 is a DataSet message)                                       *)
(*   val       the value of every integer field                            *)
(*   pubString, nonce, footer, signature   byte strings                    *)
(*   ids       the DataSetWriterIds of the payload header, <<>> for NULL   *)
(*   promoted  the promoted fields, Variants                               *)
(*   dsms, sizes   the DataSetMessages; the sizes the caller gives, <<>>   *)
(*                 for NULL                                                *)
(* A decoded message also has count, the count of its payload header, and  *)
(* heap, the blocks the decoder has allocated for it.                      *)
(***************************************************************************)
EXTENDS DataSetMessage

NMFlags   == [publisherId |-> 16, groupHeader |-> 32, payloadHeader |-> 64]
Ext1Flags == [classId |-> 8, security |-> 16, timestamp |-> 32, picoseconds |-> 64]
Ext2Flags == [chunk |-> 1, promoted |-> 2]
GroupFlags == [writerGroupId |-> 1, groupVersion |-> 2, nmNumber |-> 4, sequenceNumber |-> 8]
SecurityFlags == [signed |-> 1, encrypted |-> 2, footer |-> 4, forceKeyReset |-> 8]

NMFields == {"publisherId", "classId", "writerGroupId", "groupVersion", "nmNumber",
             "sequenceNumber", "timestamp", "picoseconds", "tokenId", "footerSize"}

AllFeatures == DOMAIN NMFlags \cup DOMAIN Ext1Flags \cup DOMAIN Ext2Flags
               \cup DOMAIN GroupFlags \cup DOMAIN SecurityFlags

\* Optional fields, in wire order.
ClassLayout == << <<"classId", 16>> >>
GroupLayout == << <<"writerGroupId", 2>>, <<"groupVersion", 4>>,
                  <<"nmNumber", 2>>, <<"sequenceNumber", 2>> >>
StampLayout == << <<"timestamp", 8>>, <<"picoseconds", 2>> >>

StringId == 4

\* The width of a numeric publisher id.
PublisherIdWidth(type) ==
    CASE type = 0 -> 1 [] type = 1 -> 2 [] type = 2 -> 4 [] OTHER -> 8

ExtendedFlags2Enabled(m) == m.on \cap {"chunk", "promoted"} # {} \/ m.nmType # 0

ExtendedFlags1Enabled(m) ==
    \/ m.pubType # 0
    \/ m.on \cap {"classId", "security", "timestamp", "picoseconds"} # {}
    \/ ExtendedFlags2Enabled(m)

DSMCount(m) == IF "payloadHeader" \in m.on THEN Len(m.ids) ELSE 1

\* The struct UA_NetworkMessage with its arrays as long as its counters say.
NetworkMessages ==
    {m \in [on : SUBSET AllFeatures, version : 0..15, pubType : 0..StringId, nmType : 0..2,
            val : [NMFields -> Nat],
            pubString : Seq(Octet), nonce : Seq(Octet), footer : Seq(Octet),
            signature : Seq(Octet), ids : Seq(Unsigned(2)), sizes : Seq(Unsigned(2)),
            promoted : Seq({v \in Variants : ~v.arr}), dsms : Seq(DataSetMessages)] :
        /\ FieldsFit(m.val, ClassLayout) /\ FieldsFit(m.val, GroupLayout)
        /\ FieldsFit(m.val, StampLayout)
        /\ m.val["publisherId"] \in
              Unsigned(IF m.pubType = StringId THEN 8 ELSE PublisherIdWidth(m.pubType))
        /\ m.val["tokenId"] \in Unsigned(4) /\ m.val["footerSize"] \in Unsigned(2)
        /\ Len(m.footer) = m.val["footerSize"]
        /\ Len(m.ids) \in Unsigned(1) /\ Len(m.nonce) \in Unsigned(1)
        /\ Len(m.pubString) \in Unsigned(4) /\ Len(m.signature) \in Unsigned(4)
        /\ DSMCount(m) <= Len(m.dsms)
        /\ m.sizes = <<>> \/ DSMCount(m) <= Len(m.sizes)}

---------------------------------------------------------------------------
(* calcSizeBinary. *)

\* Mutant: the table of DataSetMessage sizes is left out.
SizeWithoutTable(m) ==
    LET dsm(i) == DSMSize(m.dsms[i])
    IN  IF m.nmType = 0 THEN SumOf(DSMCount(m), dsm) ELSE 0

PayloadSize(m) ==
    LET dsm(i) == DSMSize(m.dsms[i])
    IN  IF m.nmType = 0
        THEN (IF DSMCount(m) > 1 THEN 2 * DSMCount(m) ELSE 0) + SumOf(DSMCount(m), dsm)
        ELSE 0

SecuritySize(m) ==
    IF "security" \in m.on
    THEN 1 + 4 + 1 + Len(m.nonce)
         + (IF "footer" \in m.on THEN 2 + m.val["footerSize"] ELSE 0)
         + (IF "signed" \in m.on THEN ArraySize(m.signature, 1) ELSE 0)
    ELSE 0

CalcSize(m) ==
    LET promoted(i) == VariantSize(m.promoted[i])
    IN  IF "payloadHeader" \in m.on /\ m.nmType = 0 /\ m.ids = <<>> THEN 0 ELSE
        1 + (IF ExtendedFlags1Enabled(m) THEN 1 ELSE 0)
          + (IF ExtendedFlags2Enabled(m) THEN 1 ELSE 0)
          + (IF "publisherId" \notin m.on THEN 0
             ELSE IF m.pubType = StringId THEN ArraySize(m.pubString, 1)
             ELSE PublisherIdWidth(m.pubType))
          + SizeIf(m, "classId", 16)
          + (IF "groupHeader" \in m.on
             THEN 1 + SizeIf(m, "writerGroupId", 2) + SizeIf(m, "groupVersion", 4)
                    + SizeIf(m, "nmNumber", 2) + SizeIf(m, "sequenceNumber", 2)
             ELSE 0)
          + (IF "payloadHeader" \in m.on /\ m.nmType = 0 THEN 1 + 2 * Len(m.ids) ELSE 0)
          + SizeIf(m, "timestamp", 8) + SizeIf(m, "picoseconds", 2)
          + (IF "promoted" \in m.on THEN 2 + SumOf(Len(m.promoted), promoted) ELSE 0)
          + PayloadSize(m) + SecuritySize(m)

---------------------------------------------------------------------------
(* encodeBinary, as the writes it makes in order. *)

FlagSegments(m) ==
    Must(<<m.version + FlagByte(m.on, NMFlags) + (IF ExtendedFlags1Enabled(m) THEN 128 ELSE 0)>>)
    \o (IF ExtendedFlags1Enabled(m)
        THEN Must(<<m.pubType + FlagByte(m.on, Ext1Flags)
                    + (IF ExtendedFlags2Enabled(m) THEN 128 ELSE 0)>>)
        ELSE <<>>)
    \o (IF ExtendedFlags2Enabled(m)
        THEN Must(<<4 * m.nmType + FlagByte(m.on, Ext2Flags)>>)
        ELSE <<>>)

PublisherIdSegments(m) ==
    IF "publisherId" \notin m.on THEN <<>>
    ELSE IF m.pubType = StringId THEN Must(EncodeArray(m.pubString, 1))
    ELSE Field(m, "publisherId", PublisherIdWidth(m.pubType))

GroupSegments(m) ==
    IF "groupHeader" \notin m.on THEN <<>>
    ELSE Must(<<FlagByte(m.on, GroupFlags)>>)
         \o Field(m, "writerGroupId", 2) \o Field(m, "groupVersion", 4)
         \o Field(m, "nmNumber", 2) \o Field(m, "sequenceNumber", 2)

\* The statuscode of the count is only looked at when no writer id follows.
PayloadHeaderSegments(m) ==
    LET id(i) == Must(LE(m.ids[i], 2))
    IN  IF "payloadHeader" \notin m.on THEN <<>>
        ELSE IF m.nmType # 0 THEN Halt("BadNotImplemented")
        ELSE Try(<<Len(m.ids)>>, 0)
             \o (IF m.ids = <<>> THEN Halt("BadEncodingError") ELSE Each(Len(m.ids), id))

\* The statuscodes of these writes are assigned and never tested.  A promoted
\* field is a scalar: its type byte stays behind when its data does not fit.
ExtendedHeaderSegments(m) ==
    LET size(i)  == VariantSize(m.promoted[i])
        field(i) == Try(EncodeVariant(m.promoted[i]), 1)
        try(f, w) == IF f \in m.on THEN Try(LE(m.val[f], w), 0) ELSE <<>>
    IN  try("timestamp", 8) \o try("picoseconds", 2)
        \o (IF "promoted" \notin m.on THEN <<>>
            ELSE Try(LE(SumOf(Len(m.promoted), size) % 65536, 2), 0)
                 \o Each(Len(m.promoted), field))

SecurityHeaderSegments(m) ==
    IF "security" \notin m.on THEN <<>>
    ELSE Must(<<FlagByte(m.on, SecurityFlags)>>)
         \o Must(LE(m.val["tokenId"], 4)) \o Must(<<Len(m.nonce)>>) \o Must(m.nonce)
         \o (IF "footer" \in m.on THEN Must(LE(m.val["footerSize"], 2)) ELSE <<>>)

PayloadSegments(m) ==
    LET size(i) == Must(LE((IF m.sizes # <<>> /\ m.sizes[i] # 0 THEN m.sizes[i]
                            ELSE DSMSize(m.dsms[i]) % 65536), 2))
        dsm(i)  == DSMSegments(m.dsms[i])
    IN  IF m.nmType # 0 THEN Halt("BadNotImplemented")
        ELSE (IF DSMCount(m) > 1 THEN Each(DSMCount(m), size) ELSE <<>>)
             \o Each(DSMCount(m), dsm)

\* The footer loop counts in a byte: it never ends for a size above 255, and
\* stops with the error of the write that no longer fits.
TrailerSegments(m) ==
    (IF {"security", "footer"} \subseteq m.on
     THEN (IF m.val["footerSize"] < 256 THEN Must(m.footer) ELSE Halt("BadEncodingError"))
     ELSE <<>>)
    \o (IF {"security", "signed"} \subseteq m.on THEN Must(EncodeArray(m.signature, 1)) ELSE <<>>)

Segments(m) ==
    FlagSegments(m) \o PublisherIdSegments(m) \o Field(m, "classId", 16) \o GroupSegments(m)
    \o PayloadHeaderSegments(m) \o ExtendedHeaderSegments(m) \o SecurityHeaderSegments(m)
    \o PayloadSegments(m) \o TrailerSegments(m)

Room(out, n) == n - Len(out)

\* The write s when the buffer of n bytes holds a.out.
Perform(a, s, n) ==
    LET room == Room(a.out, n)
    IN  CASE a.rv # "Good" -> a
          [] a.rv = "Good" /\ s.kind = "halt" -> [a EXCEPT !.rv = s.rv]
          [] a.rv = "Good" /\ s.kind # "halt" /\ Len(s.bytes) <= room ->
                [a EXCEPT !.out = @ \o s.bytes]
          [] a.rv = "Good" /\ s.kind = "must" /\ Len(s.bytes) > room ->
                [a EXCEPT !.rv = "BadEncodingError"]
          [] OTHER ->
                [a EXCEPT !.out =
                    @ \o SubSeq(s.bytes, 1, IF s.keep < room THEN s.keep ELSE room)]

\* Perform the writes into a buffer of n bytes.
Write(segments, n) ==
    LET run[i \in 0..Len(segments)] ==
            IF i = 0 THEN [rv |-> "Good", out |-> <<>>]
            ELSE Perform(run[i - 1], segments[i], n)
    IN  run[Len(segments)]

EncodeBinary(m, n) == Write(Segments(m), n)

---------------------------------------------------------------------------
(* decodeBinary: a chain of sections.  r has the status rv, the offset pos,
   the number read last and the message decoded so far; a section does nothing
   once rv is not GOOD. *)

Blank == [on |-> {}, version |-> 0, pubType |-> 0, nmType |-> 0,
          val |-> [f \in NMFields |-> 0], pubString |-> <<>>, ids |-> <<>>, count |-> 0,
          promoted |-> <<>>, nonce |-> <<>>, footer |-> <<>>, signature |-> <<>>,
          dsms |-> <<>>, sizes |-> <<>>, heap |-> {}]

\* if(dst->...Enabled) { ... }
When(r, f, Op(_)) == IF r.rv = "Good" /\ f \in r.dst.on THEN Op(r) ELSE r

Took(r, x) == [r EXCEPT !.rv = x.rv, !.pos = x.pos, !.last = x.value]

Take(src, r, w) == Then(r, LAMBDA a : Took(a, Read(src, a.pos, w)))

ReadFlags(src, r, masks) ==
    Then(Take(src, r, 1), LAMBDA a : [a EXCEPT !.dst.on = @ \cup FlagsIn(a.last, masks)])

ReadNumber(src, r, f, w) == Then(Take(src, r, w), LAMBDA a : [a EXCEPT !.dst.val[f] = a.last])

TookSection(r, x) == [r EXCEPT !.rv = x.rv, !.pos = x.pos, !.dst.val = x.val]

ReadSection(src, r, layout) ==
    TookSection(r, ReadFields(src, [rv |-> r.rv, pos |-> r.pos, val |-> r.dst.val], r.dst.on, layout))

\* A byte string with its length in front of it; its memory is named after it.
ReadString(src, r, member) ==
    LET x == DecodeArray(src, r.pos, 1)
    IN  [r EXCEPT !.rv = x.rv, !.pos = x.pos, !.dst[member] = x.value,
                  !.dst.heap = IF x.value = <<>> THEN @ ELSE @ \cup {member}]

\* n numbers of w bytes, read up to the first that does not fit, into memory
\* allocated before the first is read.
ReadNumbers(src, r, n, w, member) ==
    LET fit == (Len(src) - r.pos) \div w
        got == IF n <= fit THEN n ELSE fit
    IN  [r EXCEPT !.rv = IF n <= fit THEN "Good" ELSE "BadDecodingError",
                  !.pos = @ + w * got,
                  !.dst[member] = [i \in 1..got |-> Num(src, r.pos + w * (i - 1), w)],
                  !.dst.heap = IF n > 0 THEN @ \cup {member} ELSE @]

DecodeExtendedFlags2(src, r) ==
    Then(ReadFlags(src, r, Ext2Flags),
         LAMBDA a : [a EXCEPT !.dst.nmType = (a.last \div 4) % 8])

DecodeExtendedFlags1(src, r) ==
    Then(ReadFlags(src, r, Ext1Flags),
         LAMBDA a : LET s == [a EXCEPT !.dst.pubType = a.last % 8]
                    IN  IF Bit(a.last, 128) THEN DecodeExtendedFlags2(src, s) ELSE s)

DecodeFlags(src) ==
    Then(ReadFlags(src, [rv |-> "Good", pos |-> 0, last |-> 0, dst |-> Blank], NMFlags),
         LAMBDA a : LET s == [a EXCEPT !.dst.version = a.last % 16]
                    IN  IF Bit(a.last, 128) THEN DecodeExtendedFlags1(src, s) ELSE s)

DecodePublisherId(src, r) ==
    When(r, "publisherId", LAMBDA a :
        CASE a.dst.pubType < StringId ->
                ReadNumber(src, a, "publisherId", PublisherIdWidth(a.dst.pubType))
          [] a.dst.pubType = StringId -> ReadString(src, a, "pubString")
          [] OTHER                    -> [a EXCEPT !.rv = "BadInternalError"])

DecodeGroupHeader(src, r) ==
    When(r, "groupHeader", LAMBDA a :
        ReadSection(src, ReadFlags(src, a, GroupFlags), GroupLayout))

DecodePayloadHeader(src, r) ==
    When(r, "payloadHeader", LAMBDA a :
        IF a.dst.nmType # 0 THEN [a EXCEPT !.rv = "BadNotImplemented"]
        ELSE Then(Take(src, a, 1),
                  LAMBDA b : ReadNumbers(src, [b EXCEPT !.dst.count = b.last], b.last, 2, "ids")))

Promote(r, v) == [r EXCEPT !.rv = v.rv, !.pos = v.pos, !.dst.promoted = Append(@, v.value),
                           !.dst.heap = @ \cup {"promoted"}]

\* Fields are decoded until the offset has passed the size, which counts bytes.
NextPromoted(src, r, i, end) ==
    Then(r, LAMBDA a : IF i > 1 /\ a.pos >= end THEN a
                       ELSE Promote(a, DecodeVariant(src, a.pos)))

PromotedLoop(src, r, size) ==
    LET n == IF size > Len(src) THEN Len(src) + 1 ELSE size
        step[i \in 0..n] ==
            IF i = 0 THEN r ELSE NextPromoted(src, step[i - 1], i, r.pos + size)
    IN  step[n]

DecodePromoted(src, r) ==
    When(r, "promoted", LAMBDA a :
        Then(Take(src, a, 2), LAMBDA b : PromotedLoop(src, b, b.last)))

DecodeSecurityHeader(src, r) ==
    When(r, "security", LAMBDA a :
        Then(Take(src, ReadNumber(src, ReadFlags(src, a, SecurityFlags), "tokenId", 4), 1),
             LAMBDA b : When(ReadNumbers(src, b, b.last, 1, "nonce"), "footer",
                             LAMBDA c : ReadNumber(src, c, "footerSize", 2))))

\* The messages live in one array; the fields of message i are block i.
AddMessage(r, i, d) ==
    [r EXCEPT !.rv = d.rv, !.pos = d.pos, !.dst.dsms = Append(@, d.dsm),
              !.dst.heap = IF d.dsm.owns THEN @ \cup {ToString(i)} ELSE @]

NextDSM(src, r, i) == Then(r, LAMBDA a : AddMessage(a, i, DecodeDSM(src, a.pos)))

DecodeDSMs(src, r, n) ==
    LET step[i \in 0..n] ==
            IF i = 0 THEN [r EXCEPT !.dst.heap = @ \cup {"dsms"}]
            ELSE NextDSM(src, step[i - 1], i)
    IN  step[n]

DecodePayload(src, r) ==
    LET n == IF "payloadHeader" \in r.dst.on THEN r.dst.count ELSE 1
    IN  Then(r, LAMBDA a :
            IF a.dst.nmType # 0 THEN [a EXCEPT !.rv = "BadNotImplemented"]
            ELSE Then(IF n > 1 THEN ReadNumbers(src, a, n, 2, "sizes") ELSE a,
                      LAMBDA b : DecodeDSMs(src, b, n)))

\* The loop over the footer counts in a byte: above 255 it ends with the buffer.
DecodeFooter(src, r) ==
    When(r, "footer", LAMBDA a :
        IF a.dst.val["footerSize"] < 256
        THEN ReadNumbers(src, a, a.dst.val["footerSize"], 1, "footer")
        ELSE [a EXCEPT !.rv = "BadDecodingError", !.dst.heap = @ \cup {"footer"}])

DecodeTrailer(src, r) ==
    When(r, "security", LAMBDA a :
        When(DecodeFooter(src, a), "signed", LAMBDA b : ReadString(src, b, "signature")))

\* UA_NetworkMessage_decodeBinaryInternal
DecodeInternal(src) ==
    LET flags   == DecodeFlags(src)
        pub     == DecodePublisherId(src, flags)
        class   == ReadSection(src, pub, ClassLayout)
        group   == DecodeGroupHeader(src, class)
        header  == DecodePayloadHeader(src, group)
        stamps  == ReadSection(src, header, StampLayout)
        prom    == DecodePromoted(src, stamps)
        sec     == DecodeSecurityHeader(src, prom)
        payload == DecodePayload(src, sec)
    IN  DecodeTrailer(src, payload)

---------------------------------------------------------------------------
(* clear: the blocks UA_NetworkMessage_clear frees. *)

\* Mutant: the table of sizes is not freed.
IdsOnly == {"ids"}

\* The tables freed with the payload header.
HeaderTables == {"ids", "sizes"}

Freed(d) ==
    LET n == IF "payloadHeader" \in d.on THEN d.count ELSE 1
    IN  (IF "promoted" \in d.on THEN {"promoted"} ELSE {})
        \cup (IF "security" \in d.on THEN {"nonce"} ELSE {})
        \cup (IF d.nmType = 0 /\ "payloadHeader" \in d.on THEN HeaderTables ELSE {})
        \cup (IF d.nmType = 0 /\ "dsms" \in d.heap
              THEN {"dsms"} \cup {ToString(i) : i \in {j \in 1..n :
                                     j \in DOMAIN d.dsms /\ FreesFields(d.dsms[j])}}
              ELSE {})
        \cup (IF "footer" \in d.on /\ d.val["footerSize"] > 0 THEN {"footer"} ELSE {})
        \cup (IF "publisherId" \in d.on /\ d.pubType = StringId THEN {"pubString"} ELSE {})

\* What clear leaves allocated, and whether it runs over memory nobody wrote.
Leaked(d) == d.heap \ Freed(d)

ClearReadsUninitialised(d) == \E i \in DOMAIN d.dsms : ClearsUninitialised(d.dsms[i])

\* UA_NetworkMessage_decodeBinary: a failed decode is cleared on the way out.
ClearIfFailed(r) ==
    [rv |-> r.rv, dst |-> IF r.rv = "Good" THEN r.dst ELSE Blank,
     leaked |-> IF r.rv = "Good" THEN {} ELSE Leaked(r.dst),
     uninit |-> r.rv # "Good" /\ ClearReadsUninitialised(r.dst)]

DecodeBinary(src) == ClearIfFailed(DecodeInternal(src))
=============================================================================
