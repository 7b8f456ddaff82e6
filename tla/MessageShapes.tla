--------------------------- MODULE MessageShapes ---------------------------
(***************************************************************************)
(* Messages for the instances.  The base message is the one addWriterGroup *)
(* and addDataSetWriter of openPubSub.cpp configure; the others change one *)
(* thing in it, and FullMessage has every feature.  Every field has a      *)
(* value of its own, so that two fields read in the wrong order differ.    *)
(***************************************************************************)
EXTENDS NetworkMessage

Byte(n)     == [type |-> ByteId, arr |-> FALSE, data |-> <<n>>]
UInt32(n)   == [type |-> UInt32Id, arr |-> FALSE, data |-> <<n>>]
DateTime(n) == [type |-> DateTimeId, arr |-> FALSE, data |-> <<n>>]
Bytes(s)    == [type |-> ByteId, arr |-> TRUE, data |-> s]

DSMVal == [sequenceNr |-> 11, timestamp |-> 12, picoSeconds |-> 13, status |-> 14,
           majorVersion |-> 15, minorVersion |-> 16]

\* A DataValue with every part, its picoseconds above the limit of the decoder.
Rich(v) == [on |-> DOMAIN DataValueMask, value |-> v,
            val |-> [status |-> 21, sourceTimestamp |-> 22, serverTimestamp |-> 23,
                     sourcePicoseconds |-> 24, serverPicoseconds |-> 10000]]

DSM(on, type, enc, fields) ==
    [on |-> on, type |-> type, enc |-> enc, val |-> DSMVal, fields |-> fields]

KeyDSM   == DSM({"valid", "sequenceNr"}, KeyFrame, VariantEncoding,
                << OnlyValue(DateTime(300)), OnlyValue(UInt32(4660)) >>)
DeltaDSM == DSM({"valid"}, DeltaFrame, VariantEncoding,
                << [index |-> 3, value |-> OnlyValue(Byte(7))],
                   [index |-> 5, value |-> OnlyValue(UInt32(9))] >>)
AliveDSM == DSM({"valid", "sequenceNr"}, KeepAlive, VariantEncoding, <<>>)

MoreDSMs == {
    DSM(DOMAIN Flags1Mask \cup DOMAIN Flags2Mask, KeyFrame, VariantEncoding,
        << OnlyValue(Bytes(<<1, 2, 3>>)), OnlyValue(Bytes(<<>>)), EmptyDataValue >>),
    DSM({"status"}, KeyFrame, DataValueEncoding, << Rich(Byte(1)), EmptyDataValue >>),
    DSM({"minorVersion"}, DeltaFrame, DataValueEncoding,
        << [index |-> 2, value |-> Rich(UInt32(2))], [index |-> 4, value |-> EmptyDataValue] >>),
    DSM({}, KeyFrame, VariantEncoding, <<>>),
    DSM({}, KeyFrame, RawData, <<>>),
    DSM({}, DeltaFrame, RawData, <<>>),
    DSM({}, 2, VariantEncoding, <<>>),
    DeltaDSM, AliveDSM }

Base == [on |-> {"publisherId", "groupHeader", "writerGroupId", "payloadHeader"},
         version |-> 1, pubType |-> 0, nmType |-> 0,
         val |-> [publisherId |-> 42, classId |-> 1001, writerGroupId |-> 100,
                  groupVersion |-> 2002, nmNumber |-> 303, sequenceNumber |-> 4004,
                  timestamp |-> 5005, picoseconds |-> 606, tokenId |-> 707, footerSize |-> 2],
         pubString |-> <<80, 49>>, ids |-> <<62541>>, promoted |-> <<Byte(5), UInt32(6)>>,
         nonce |-> <<1, 2>>, footer |-> <<3, 4>>, signature |-> <<5, 6>>,
         dsms |-> <<KeyDSM>>, sizes |-> <<>>]

TwoDSMs == [Base EXCEPT !.ids = <<62541, 62542>>, !.dsms = <<DeltaDSM, KeyDSM>>]

FullMessage == [TwoDSMs EXCEPT !.on = AllFeatures]

\* One feature more or less than the base, or than a secured base.
Toggled == {[Base EXCEPT !.on = (@ \ {f}) \cup ({f} \ @)] : f \in AllFeatures}
Secured == {[Base EXCEPT !.on = @ \cup {"security"} \cup S] : S \in SUBSET DOMAIN SecurityFlags}
Timed   == {[Base EXCEPT !.on = @ \cup S] : S \in SUBSET {"timestamp", "picoseconds", "promoted"}}

Shapes ==
    {[Base EXCEPT !.pubType = t] : t \in 0..4}
    \cup {[Base EXCEPT !.nmType = t] : t \in 1..2}
    \cup {[Base EXCEPT !.on = {}, !.nmType = 1]}
    \cup {[Base EXCEPT !.dsms = <<d>>] : d \in MoreDSMs}
    \cup {TwoDSMs, [TwoDSMs EXCEPT !.sizes = <<0, 99>>], [Base EXCEPT !.ids = <<>>],
          [Base EXCEPT !.nonce = <<>>, !.on = @ \cup {"security"}],
          [Base EXCEPT !.on = @ \cup {"promoted"}, !.promoted = <<>>],
          [Base EXCEPT !.on = {"payloadHeader"}, !.pubType = 4], FullMessage}

\* The rest of a keep-alive message may fit where its time stamp did not.
TimedAlive == {[m EXCEPT !.dsms = <<AliveDSM>>] : m \in Timed}
=============================================================================
