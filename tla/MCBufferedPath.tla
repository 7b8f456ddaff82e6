--------------------------- MODULE MCBufferedPath ---------------------------
(***************************************************************************)
(* Instances of BufferedPath.  MCFrozen has messages the fixed offsets are *)
(* made for next to others; PairedFields has two fields of one             *)
(* DataSetMessage encoded as DataValues.                                   *)
(***************************************************************************)
EXTENDS BufferedPath, MessageShapes

Numbered(d) == [d EXCEPT !.on = @ \cup {"sequenceNr"}]

KeyFields == << OnlyValue(DateTime(3)), OnlyValue(UInt32(4)), OnlyValue(Byte(5)) >>
Plain     == DSM({"valid"}, KeyFrame, VariantEncoding, KeyFields)
Single    == DSM({"valid"}, KeyFrame, DataValueEncoding, << Rich(UInt32(2)) >>)
Paired    == DSM({"valid"}, KeyFrame, DataValueEncoding, << Rich(UInt32(2)), Rich(UInt32(3)) >>)
Stamped   == DSM(DOMAIN Flags1Mask \cup DOMAIN Flags2Mask, KeyFrame, VariantEncoding, KeyFields)
Dated     == DSM({"valid", "picoSeconds", "majorVersion"}, KeyFrame, VariantEncoding, KeyFields)
Unset     == DSM({"valid"}, KeyFrame, VariantEncoding,
                 << OnlyValue(Bytes(<<>>)), EmptyDataValue, OnlyValue(Byte(6)) >>)

Framed(d) == [Base EXCEPT !.dsms = <<d>>]
Ordered   == [Framed(Plain) EXCEPT !.on = @ \cup {"sequenceNumber"}]
TwoFrames == [TwoDSMs EXCEPT !.dsms = <<Single, Numbered(Plain)>>]

HeaderFeatures == {"groupVersion", "nmNumber", "classId", "promoted", "payloadHeader",
                   "timestamp", "picoseconds", "sequenceNumber", "publisherId", "groupHeader"}

MCFrozen ==
    {Framed(d) : d \in {Plain, Numbered(Plain), Single, Stamped, Dated, Unset, AliveDSM, DeltaDSM}}
    \cup {[Ordered EXCEPT !.on = (@ \ {f}) \cup ({f} \ @)] : f \in HeaderFeatures}
    \cup {[Ordered EXCEPT !.pubType = t] : t \in 0..4}
    \cup {[Ordered EXCEPT !.on = @ \cup {"security"} \cup S] :
             S \in {{}, {"signed"}, {"signed", "footer"}}}
    \cup {TwoFrames, [TwoFrames EXCEPT !.on = @ \cup {"sequenceNumber"}]}

PairedFields == {Framed(Paired)}

MCValues      == {8, 200}
MCCutSizes    == {8, 17, 22, 25, 512}
MCFullReceive == {512}
=============================================================================
