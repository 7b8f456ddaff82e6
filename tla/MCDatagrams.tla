----------------------------- MODULE MCDatagrams ----------------------------
(***************************************************************************)
(* A few datagrams for MCSubscriber: what the encoder of NetworkMessage    *)
(* makes of published messages, what its decoder finds in the first 512    *)
(* bytes, and what a subscriber should show of them.  A datagram is named  *)
(* after the message it carries.                                           *)
(***************************************************************************)
EXTENDS NetworkMessage

ReceiveSize == 512

Scalar(type, n) == OnlyValue([type |-> type, arr |-> FALSE, data |-> <<n>>])
Array(s)        == OnlyValue([type |-> ByteId, arr |-> TRUE, data |-> s])

NoVal == [f \in DSMFields |-> 0]

Key(fields) == [on |-> {"valid", "sequenceNr"}, type |-> KeyFrame, enc |-> VariantEncoding,
                val |-> NoVal, fields |-> fields]
Delta(fields) == [on |-> {"valid"}, type |-> DeltaFrame, enc |-> VariantEncoding,
                  val |-> NoVal,
                  fields |-> [k \in DOMAIN fields |-> [index |-> k, value |-> fields[k]]]]

Publish(on, dsms) ==
    [on |-> on, version |-> 1, pubType |-> 0, nmType |-> 0,
     val |-> [f \in NMFields |-> 7], pubString |-> <<>>,
     ids |-> [k \in DOMAIN dsms |-> k], promoted |-> <<>>,
     nonce |-> <<>>, footer |-> <<>>, signature |-> <<>>, dsms |-> dsms, sizes |-> <<>>]

Configured == {"publisherId", "groupHeader", "writerGroupId", "payloadHeader"}

\* The published messages, by name: one as addDataSetWriter configures it, two
\* messages in one, one longer than the receive buffer, one without the payload
\* header, and one with an array of no elements.
Published ==
    [single     |-> Publish(Configured, << Key(<< Scalar(DateTimeId, 30), Scalar(UInt32Id, 4) >>) >>),
     mixed      |-> Publish(Configured, << Delta(<< Scalar(ByteId, 1) >>),
                                           Key(<< Scalar(9, 5), Array(<<8, 9>>) >>) >>),
     long       |-> Publish(Configured, << Key(<< Scalar(ByteId, 2), Array([k \in 1..500 |-> 3]) >>) >>),
     headerless |-> Publish({"publisherId"}, << Key(<< Scalar(UInt32Id, 6) >>) >>),
     empty      |-> Publish(Configured, << Key(<< Scalar(ByteId, 7), Array(<<>>) >>) >>)]

\* Bytes of other senders: a payload header that announces no message; a key
\* frame in front of one of the reserved field encoding 3, which decodes as GOOD
\* with a fieldCount and no fields; a String, an array with dimensions and a Byte.
Foreign ==
    [nomessage |-> <<1 + 64, 0>>,
     reserved  |-> <<1 + 64, 2, 1, 0, 2, 0, 5, 0, 3, 0>> \o <<1, 1, 0, 3, 9>> \o <<1 + 6, 1, 0>>,
     text      |-> <<1 + 64, 1, 1, 0>> \o <<1, 3, 0, 12, 1, 0, 0, 0, 65>>
                   \o <<128 + 64 + 3, 1, 0, 0, 0, 8, 1, 0, 0, 0, 1, 0, 0, 0>> \o <<3, 9>>]

\* What a subscriber should show of them.
ForeignLines == [nomessage |-> <<>>, reserved |-> <<9>>, text |-> <<8, 9>>]

Datagram(d) == IF d \in DOMAIN Foreign THEN Foreign[d]
           ELSE EncodeBinary(Published[d], CalcSize(Published[d])).out

\* The same sequence; TLC evaluates it here and not at every use.
Eager(s) == SubSeq(s, 1, Len(s))

\* The part of a decoded message that listen() looks at.
FieldView(f) == [type |-> f.value.type, data |-> Eager(f.value.data)]
DSMView(d) ==
    [type |-> d.type,
     count  |-> IF d.type # KeyFrame THEN 0 ELSE d.count,
     fields |-> IF d.type # KeyFrame THEN <<>>
                ELSE Eager([n \in DOMAIN d.fields |-> FieldView(d.fields[n])])]
View(dst) ==
    [nmType |-> dst.nmType, header |-> "payloadHeader" \in dst.on, count |-> dst.count,
     dsms |-> Eager([k \in DOMAIN dst.dsms |-> DSMView(dst.dsms[k])])]

Received(bytes) == SubSeq(bytes, 1, IF Len(bytes) < ReceiveSize THEN Len(bytes) ELSE ReceiveSize)
Parsed(d)       == View(DecodeBinary(Received(Datagram(d))).dst)

AllDatagrams == {"single", "mixed", "long", "headerless", "empty"} \cup DOMAIN Foreign

AllDecoded ==
    [single |-> Parsed("single"), mixed |-> Parsed("mixed"), long |-> Parsed("long"),
     headerless |-> Parsed("headerless"), empty |-> Parsed("empty"),
     nomessage |-> Parsed("nomessage"), reserved |-> Parsed("reserved"),
     text |-> Parsed("text")]

\* From the published message: the first element of every field of a key frame
\* that has a well-known type, if the message has a payload header and fits.
FieldLine(f) == IF f.value.type \in {ByteId, UInt32Id, DateTimeId} /\ f.value.data # <<>>
                THEN <<f.value.data[1]>> ELSE <<>>
DSMLines(d)  == IF d.type # KeyFrame THEN <<>>
                ELSE FlattenSeq([k \in DOMAIN d.fields |-> FieldLine(d.fields[k])])
Lines(d) ==
    IF d \in DOMAIN Foreign THEN ForeignLines[d]
    ELSE IF Len(Datagram(d)) > ReceiveSize \/ "payloadHeader" \notin Published[d].on THEN <<>>
    ELSE Eager(FlattenSeq([k \in DOMAIN Published[d].dsms |-> DSMLines(Published[d].dsms[k])]))

AllLines == [single |-> Lines("single"), mixed |-> Lines("mixed"), long |-> Lines("long"),
             headerless |-> Lines("headerless"), empty |-> Lines("empty"),
             nomessage |-> Lines("nomessage"), reserved |-> Lines("reserved"),
             text |-> Lines("text")]
=============================================================================
