------------------------ MODULE MessagePathProofs --------------------------
(***************************************************************************)
(* The theorems of MessagePath, for every set of messages, every size of   *)
(* the encoding buffer and every size of the receive buffer.  PathInv says *)
(* where the variables of the message under way come from; what the        *)
(* encoder and the decoder make of one message are EncodeFits, DecodeTidy  *)
(* and MessageReads.                                                       *)
(***************************************************************************)
EXTENDS MessagePath, MessageProofs

---------------------------------------------------------------------------
(* What the decoder makes of a message is what a subscriber should get. *)

\* The value of a field.
LEMMA DeliveredValueIs ==
    ASSUME NEW v \in DataValues, NEW enc
    PROVE  DeliveredValue(v, enc) = ReceivedIn(v, enc)
<1> DEFINE w == [f \in Parts |-> IF f \in v.on THEN v.val[f] ELSE 0]
           u == [f \in DOMAIN v.val |->
                      CASE f \notin v.on -> 0
                        [] f \in v.on /\ f \in {"sourcePicoseconds", "serverPicoseconds"}
                              -> Clamp(v.val[f])
                        [] OTHER -> v.val[f]]
<1>1. DOMAIN v.val = Parts
  BY DEF DataValues, Parts
<1>2. Clamp(0) = 0
  BY DEF Clamp, MaxPicoSeconds
<1>3. "sourcePicoseconds" \in Parts /\ "serverPicoseconds" \in Parts
  BY DEF Parts, DataValueMask
<1>4. Clamped(w) = [f \in Parts |-> IF f \in {"sourcePicoseconds", "serverPicoseconds"} THEN Clamp(w[f]) ELSE w[f]]
  BY <1>3 DEF Clamped
<1>5. ASSUME NEW f \in Parts
      PROVE  u[f] = IF f \in {"sourcePicoseconds", "serverPicoseconds"} THEN Clamp(w[f]) ELSE w[f]
  <2>1. CASE f \notin v.on
    BY <1>1, <1>2, <2>1
  <2>2. CASE f \in v.on /\ f \in {"sourcePicoseconds", "serverPicoseconds"}
    BY <1>1, <2>2
  <2>3. CASE f \in v.on /\ f \notin {"sourcePicoseconds", "serverPicoseconds"}
    BY <1>1, <2>3
  <2> QED
    BY <2>1, <2>2, <2>3
<1>6. u = Clamped(w)
  BY <1>1, <1>4, <1>5
<1> HIDE DEF w
<1>7. DeliveredValue(v, enc) = IF enc = VariantEncoding THEN OnlyValue(v.value)
                               ELSE [on |-> v.on, value |-> IF "value" \in v.on THEN v.value ELSE EmptyVariant,
                                     val |-> u]
  BY DEF DeliveredValue
<1>8. ReceivedIn(v, enc) = IF enc = VariantEncoding THEN OnlyValue(v.value)
                           ELSE [on |-> v.on, value |-> IF "value" \in v.on THEN v.value ELSE EmptyVariant,
                                 val |-> Clamped(w)]
  BY DEF ReceivedIn, ReceivedValue, w
<1> QED
  BY <1>6, <1>7, <1>8

\* The header fields of a DataSetMessage.
LEMMA HeaderNumbersAre ==
    ASSUME NEW d \in DataSetMessages
    PROVE  Only(d.val, d.on) = [f \in DSMFields |-> IF f \in d.on THEN d.val[f] ELSE 0]
BY DEF Only, DataSetMessages

\* The fields of a DataSetMessage.
LEMMA DeliveredFieldsAre ==
    ASSUME NEW d \in DataSetMessages, d.type \in {KeyFrame, DeltaFrame}
    PROVE  ReceivedTo(d, Len(d.fields)) =
             CASE d.type = KeyFrame ->
                       [i \in DOMAIN d.fields |-> DeliveredValue(d.fields[i], d.enc)]
                  [] d.type = DeltaFrame ->
                       [i \in DOMAIN d.fields |->
                           [index |-> d.fields[i].index,
                            value |-> DeliveredValue(d.fields[i].value, d.enc)]]
                  [] OTHER -> <<>>
<1> DEFINE s == d.fields
           n == Len(s)
           k == [i \in DOMAIN s |-> DeliveredValue(s[i], d.enc)]
           e == [i \in DOMAIN s |-> [index |-> s[i].index, value |-> DeliveredValue(s[i].value, d.enc)]]
<1>0. KeyFrame # DeltaFrame
  BY DEF KeyFrame, DeltaFrame
<1>1. CASE d.type = KeyFrame
  <2>1. s \in Seq(DataValues)
    BY <1>1 DEF DataSetMessages
  <2>2. DOMAIN s = 1..n /\ \A i \in 1..n : s[i] \in DataValues
    BY <2>1
  <2>3. \A i \in 1..n : ReceivedField(d, i) = DeliveredValue(s[i], d.enc)
    BY <1>1, <2>2, DeliveredValueIs DEF ReceivedField
  <2> HIDE DEF s, n
  <2>4. ReceivedTo(d, n) = [i \in DOMAIN s |-> DeliveredValue(s[i], d.enc)]
    BY <2>2, <2>3 DEF ReceivedTo
  <2>5. ReceivedTo(d, Len(d.fields)) = k
    BY <2>4 DEF s, n
  <2> HIDE DEF k, e
  <2>6. k = CASE d.type = KeyFrame -> k [] d.type = DeltaFrame -> e [] OTHER -> <<>>
    BY <1>1, <1>0
  <2> QED
    BY <2>5, <2>6 DEF k, e, s
<1>2. CASE d.type = DeltaFrame
  <2>0. d.type # KeyFrame
    BY <1>2 DEF KeyFrame, DeltaFrame
  <2>1. s \in Seq(DeltaFields)
    BY <1>2 DEF DataSetMessages
  <2>2. DOMAIN s = 1..n /\ \A i \in 1..n : s[i].value \in DataValues
    <3>1. DOMAIN s = 1..n /\ \A i \in 1..n : s[i] \in DeltaFields
      BY <2>1
    <3> QED
      BY <3>1 DEF DeltaFields
  <2>3. \A i \in 1..n : ReceivedField(d, i) = [index |-> s[i].index, value |-> DeliveredValue(s[i].value, d.enc)]
    BY <2>0, <2>2, DeliveredValueIs DEF ReceivedField
  <2> HIDE DEF s, n
  <2>4. ReceivedTo(d, n) = [i \in DOMAIN s |-> [index |-> s[i].index, value |-> DeliveredValue(s[i].value, d.enc)]]
    BY <2>2, <2>3 DEF ReceivedTo
  <2>5. ReceivedTo(d, Len(d.fields)) = e
    BY <2>4 DEF s, n
  <2> HIDE DEF k, e
  <2>6. e = CASE d.type = KeyFrame -> k [] d.type = DeltaFrame -> e [] OTHER -> <<>>
    BY <1>2, <2>0
  <2> QED
    BY <2>5, <2>6 DEF k, e, s
<1> QED
  BY <1>1, <1>2

\* A DataSetMessage.
LEMMA DeliveredDSMIs ==
    ASSUME NEW d \in DataSetMessages, Encodable(d)
    PROVE  ReceivedDSM(d) = DeliveredDSM(d)
<1> DEFINE val == [f \in DSMFields |-> IF f \in d.on THEN d.val[f] ELSE 0]
           fields == ReceivedTo(d, Len(d.fields))
<1>1. Only(d.val, d.on) = val
  BY HeaderNumbersAre
<1>2. CASE d.type = KeepAlive
  <2>1. d.type # KeyFrame /\ d.type # DeltaFrame
    BY <1>2 DEF KeyFrame, DeltaFrame, KeepAlive
  <2>2. ReceivedDSM(d) = EmptyDSM(d.on, d.type, d.enc, val)
    BY <1>2 DEF ReceivedDSM, ReceivedHeader
  <2> HIDE DEF val
  <2> QED
    BY <1>1, <1>2, <2>1, <2>2 DEF EmptyDSM, DeliveredDSM
<1>3. CASE d.type \in {KeyFrame, DeltaFrame}
  <2>1. d.type # KeepAlive
    BY <1>3 DEF KeyFrame, DeltaFrame, KeepAlive
  <2>2. ReceivedDSM(d) = WithFields([EmptyDSM(d.on, d.type, d.enc, val) EXCEPT !.count = Len(d.fields), !.owns = TRUE],
                                    fields)
    BY <2>1 DEF ReceivedDSM, ReceivedHeader
  <2>3. DeliveredDSM(d) = [on |-> d.on, type |-> d.type, enc |-> d.enc, val |-> val, fields |-> fields,
                           count |-> Len(d.fields), owns |-> TRUE]
    BY <1>1, <1>3, <2>1, DeliveredFieldsAre DEF DeliveredDSM
  <2> HIDE DEF val, fields
  <2>4. ReceivedDSM(d) = [on |-> d.on, type |-> d.type, enc |-> d.enc, val |-> val, fields |-> fields,
                          count |-> Len(d.fields), owns |-> TRUE]
    BY <2>2 DEF EmptyDSM, WithFields
  <2> QED
    BY <2>3, <2>4
<1> QED
  BY <1>2, <1>3 DEF Encodable

\* A message of one datagram is that short.
LEMMA SizesOfDatagram ==
    ASSUME NEW m \in NetworkMessages, Sendable(m), Len(MessageBytes(m)) <= MaxDatagram
    PROVE  /\ "promoted" \in m.on => PromotedSize(m) < 65536
           /\ \A i \in 1..DSMCount(m) : DSMSize(m.dsms[i]) < 65536
<1>1. Len(MessageBytes(m)) \in Nat
  BY MessagePiece, PieceType
<1>2. Len(MessageBytes(m)) < 65536
  BY <1>1, SMT DEF MaxDatagram
<1> QED
  BY <1>2, SizesOfPacket

\* The features that are on the wire.
LEMMA TransmittedIs == \A m : Transmitted(m) = FeaturesBy(m, 8)
BY DEF Transmitted, FeaturesBy, InFlags, InGroup, InSecurity

\* The numbers that are on the wire.
PresentNumbers(m) ==
    (Transmitted(m) \ (IF m.pubType = StringId THEN {"publisherId"} ELSE {}))
    \cup (IF "security" \in Transmitted(m) THEN {"tokenId"} ELSE {})
    \cup (IF "footer" \in Transmitted(m) THEN {"footerSize"} ELSE {})

\* Which headers and sections are on the wire.
LEMMA SectionsOnWire ==
    ASSUME NEW m
    PROVE  /\ \A f \in InFlags : f \in Transmitted(m) <=> f \in m.on
           /\ "footer" \in Transmitted(m) <=> HasFooter(m)
           /\ "signed" \in Transmitted(m) <=> HasSignature(m)
BY DEF Transmitted, InFlags, HasFooter, HasSignature, NMFlags, Ext1Flags, Ext2Flags, GroupFlags, SecurityFlags

\* They are the numbers the decoder has filled in.
LEMMA PresentNumbersAre ==
    ASSUME NEW m, NEW f \in NMFields
    PROVE  f \in PresentNumbers(m) <=> f \in NumbersBy(m, 8)
<1>1. /\ NMFields = {"publisherId", "classId", "writerGroupId", "groupVersion", "nmNumber",
                     "sequenceNumber", "timestamp", "picoseconds", "tokenId", "footerSize"}
      /\ InFlags = {"publisherId", "groupHeader", "payloadHeader", "classId", "security", "timestamp",
                    "picoseconds", "chunk", "promoted"}
      /\ DOMAIN GroupFlags = {"writerGroupId", "groupVersion", "nmNumber", "sequenceNumber"}
      /\ DOMAIN SecurityFlags = {"signed", "encrypted", "footer", "forceKeyReset"}
  BY DEF NMFields, InFlags, NMFlags, Ext1Flags, Ext2Flags, GroupFlags, SecurityFlags
<1>2. /\ FieldsIn(m.on, ClassLayout) = m.on \cap {"classId"}
      /\ FieldsIn(m.on, StampLayout) = m.on \cap {"timestamp", "picoseconds"}
  <2>1. /\ Len(ClassLayout) = 1 /\ ClassLayout[1][1] = "classId"
        /\ Len(StampLayout) = 2 /\ StampLayout[1][1] = "timestamp" /\ StampLayout[2][1] = "picoseconds"
    BY DEF ClassLayout, StampLayout
  <2>2. FieldsIn(m.on, ClassLayout) = {g \in m.on : \E i \in 1..1 : ClassLayout[i][1] = g}
    BY <2>1 DEF FieldsIn
  <2>3. FieldsIn(m.on, StampLayout) = {g \in m.on : \E i \in 1..2 : StampLayout[i][1] = g}
    BY <2>1 DEF FieldsIn
  <2>4. 1..1 = {1} /\ 1..2 = {1, 2}
    OBVIOUS
  <2> QED
    BY <2>1, <2>2, <2>3, <2>4
<1>3. f \in PresentNumbers(m) <=>
        \/ f \in Transmitted(m) /\ (f = "publisherId" => m.pubType # StringId)
        \/ f = "tokenId" /\ "security" \in m.on
        \/ f = "footerSize" /\ {"security", "footer"} \subseteq m.on
  <2>1. "security" \in Transmitted(m) <=> "security" \in m.on
    BY <1>1, SectionsOnWire
  <2>2. "footer" \in Transmitted(m) <=> HasFooter(m)
    BY SectionsOnWire
  <2> QED
    BY <2>1, <2>2 DEF PresentNumbers, HasFooter
<1>4. f \in Transmitted(m) <=> \/ f \in m.on \cap InFlags
                               \/ "groupHeader" \in m.on /\ f \in m.on \cap DOMAIN GroupFlags
  <2>1. f \notin DOMAIN SecurityFlags
    BY <1>1
  <2> QED
    BY <2>1 DEF Transmitted, InFlags
<1>5. f \in NumbersBy(m, 8) <=>
        \/ f = "publisherId" /\ "publisherId" \in m.on /\ m.pubType # StringId
        \/ f \in m.on \cap {"classId", "timestamp", "picoseconds"}
        \/ "groupHeader" \in m.on /\ f \in m.on \cap DOMAIN GroupFlags
        \/ f = "tokenId" /\ "security" \in m.on
        \/ f = "footerSize" /\ {"security", "footer"} \subseteq m.on
  BY <1>2 DEF NumbersBy, PublisherNumbers, InGroup, SecurityNumbers
<1>6. f \in m.on \cap InFlags <=> f \in m.on \cap {"publisherId", "classId", "timestamp", "picoseconds"}
  BY <1>1
<1>7. f \notin DOMAIN GroupFlags \/ f # "publisherId"
  BY <1>1
<1> QED
  BY <1>3, <1>4, <1>5, <1>6, <1>7

\* The integer fields.
LEMMA DeliveredNumbersAre ==
    ASSUME NEW m \in NetworkMessages, NEW v \in [NMFields -> Nat], Over(NoNumbers, v, NumbersBy(m, 8), m)
    PROVE  v = Only(m.val, PresentNumbers(m))
<1>1. DOMAIN m.val = NMFields
  <2>1. m.val \in [NMFields -> Nat]
    BY MessageHas
  <2> QED
    BY <2>1
<1>2. \A f \in NMFields : v[f] = IF f \in NumbersBy(m, 8) THEN m.val[f] ELSE 0
  BY DEF Over, NoNumbers
<1>3. \A f \in NMFields : v[f] = IF f \in PresentNumbers(m) THEN m.val[f] ELSE 0
  BY <1>2, PresentNumbersAre
<1>4. Only(m.val, PresentNumbers(m)) = [f \in NMFields |-> IF f \in PresentNumbers(m) THEN m.val[f] ELSE 0]
  BY <1>1 DEF Only
<1>5. v = [f \in NMFields |-> v[f]]
  OBVIOUS
<1> QED
  BY <1>3, <1>4, <1>5

\* The DataSetMessages are a number.
LEMMA CountIsNatural ==
    ASSUME NEW m \in NetworkMessages
    PROVE  DSMCount(m) \in Nat
BY MessageHas

\* The table of sizes.
LEMMA DeliveredSizesAre ==
    ASSUME NEW m \in NetworkMessages, \A i \in 1..DSMCount(m) : DSMSize(m.dsms[i]) < 65536
    PROVE  ReceivedSizes(m) = IF DSMCount(m) <= 1 THEN <<>>
                              ELSE [i \in 1..DSMCount(m) |-> IF m.sizes # <<>> /\ m.sizes[i] # 0 THEN m.sizes[i]
                                                             ELSE DSMSize(m.dsms[i])]
<1> DEFINE n == DSMCount(m)
<1>1. n \in Nat
  BY CountIsNatural
<1>2. ASSUME NEW i \in 1..n
      PROVE  SizeAt(m, i) = IF m.sizes # <<>> /\ m.sizes[i] # 0 THEN m.sizes[i] ELSE DSMSize(m.dsms[i])
  <2> DEFINE z == DSMSize(m.dsms[i])
  <2>1. z \in Nat
    BY SizesFit, DSMPiece
  <2>2. z < 65536
    BY <1>2
  <2>3. SizeAt(m, i) = IF m.sizes # <<>> /\ m.sizes[i] # 0 THEN m.sizes[i] ELSE z % 65536
    BY DEF SizeAt
  <2> HIDE DEF z
  <2>4. z % 65536 = z
    BY <2>1, <2>2, SMT
  <2> QED
    BY <2>3, <2>4 DEF z
<1> HIDE DEF n
<1>3. TableOf(m) = [i \in 1..n |-> IF m.sizes # <<>> /\ m.sizes[i] # 0 THEN m.sizes[i] ELSE DSMSize(m.dsms[i])]
  BY <1>2 DEF TableOf, n
<1>4. n > 1 <=> ~ (n <= 1)
  BY <1>1
<1> QED
  BY <1>3, <1>4 DEF ReceivedSizes, n

\* The DataSetMessages.
LEMMA DeliveredAllAre ==
    ASSUME NEW m \in NetworkMessages, AllEncodable(m)
    PROVE  ReceivedAll(m) = [i \in 1..DSMCount(m) |-> DeliveredDSM(m.dsms[i])]
<1>1. \A i \in 1..DSMCount(m) : ReceivedDSM(m.dsms[i]) = DeliveredDSM(m.dsms[i])
  BY SizesFit, DeliveredDSMIs DEF AllEncodable
<1> QED
  BY <1>1 DEF ReceivedAll

\* The other members.
StringFor(m) == IF "publisherId" \in Transmitted(m) /\ m.pubType = StringId THEN m.pubString ELSE <<>>
CountFor(m)  == IF "payloadHeader" \in Transmitted(m) THEN Len(m.ids) ELSE 0
DSMsFor(m)   == [i \in 1..DSMCount(m) |-> DeliveredDSM(m.dsms[i])]
SizesFor(m)  == IF DSMCount(m) <= 1 THEN <<>>
                ELSE [i \in 1..DSMCount(m) |-> IF m.sizes # <<>> /\ m.sizes[i] # 0 THEN m.sizes[i]
                                               ELSE DSMSize(m.dsms[i])]

\* What a subscriber should get, member by member.
LEMMA DeliveredHas ==
    ASSUME NEW m
    PROVE  Delivered(m) =
             [on |-> Transmitted(m), version |-> m.version, pubType |-> m.pubType, nmType |-> m.nmType,
              val |-> Only(m.val, PresentNumbers(m)), pubString |-> StringFor(m),
              ids |-> Present(m.ids, "payloadHeader" \in Transmitted(m)), count |-> CountFor(m),
              promoted |-> Present(m.promoted, "promoted" \in Transmitted(m)),
              nonce |-> Present(m.nonce, "security" \in Transmitted(m)),
              footer |-> Present(m.footer, "footer" \in Transmitted(m)),
              signature |-> Present(m.signature, "signed" \in Transmitted(m)),
              dsms |-> DSMsFor(m), sizes |-> SizesFor(m), heap |-> {}]
BY ZenonT(60) DEF Delivered, PresentNumbers, Present, StringFor, CountFor, DSMsFor, SizesFor

\* A decoded message without its blocks, member by member.
LEMMA WithoutHeapHas ==
    ASSUME NEW d \in LooseMessages
    PROVE  WithoutHeap(d) =
             [on |-> d.on, version |-> d.version, pubType |-> d.pubType, nmType |-> d.nmType,
              val |-> d.val, pubString |-> d.pubString, ids |-> d.ids, count |-> d.count,
              promoted |-> d.promoted, nonce |-> d.nonce, footer |-> d.footer,
              signature |-> d.signature, dsms |-> d.dsms, sizes |-> d.sizes, heap |-> {}]
<1> DEFINE a == d.on
           b == d.version
           c == d.pubType
           e == d.nmType
           f == d.val
           g == d.pubString
           h == d.ids
           i == d.count
           j == d.promoted
           k == d.nonce
           l == d.footer
           n == d.signature
           o == d.dsms
           p == d.sizes
           q == d.heap
<1>1. d = [on |-> a, version |-> b, pubType |-> c, nmType |-> e, val |-> f, pubString |-> g, ids |-> h,
           count |-> i, promoted |-> j, nonce |-> k, footer |-> l, signature |-> n, dsms |-> o,
           sizes |-> p, heap |-> q]
  BY SMTT(40) DEF LooseMessages
<1> HIDE DEF a, b, c, e, f, g, h, i, j, k, l, n, o, p, q
<1>2. WithoutHeap(d) = [on |-> a, version |-> b, pubType |-> c, nmType |-> e, val |-> f, pubString |-> g,
                        ids |-> h, count |-> i, promoted |-> j, nonce |-> k, footer |-> l,
                        signature |-> n, dsms |-> o, sizes |-> p, heap |-> {}]
  BY <1>1 DEF WithoutHeap
<1> QED
  BY <1>2 DEF a, b, c, e, f, g, h, i, j, k, l, n, o, p, q

\* What the decoder makes of a message of one datagram is what its subscriber
\* should be handed.
LEMMA DeliveredIs ==
    ASSUME NEW m \in NetworkMessages, AllEncodable(m), \A i \in 1..DSMCount(m) : DSMSize(m.dsms[i]) < 65536,
           NEW d \in LooseMessages, Received(d, m)
    PROVE  WithoutHeap(d) = Delivered(m)
<1> DEFINE on == Transmitted(m)
           val == Only(m.val, PresentNumbers(m))
<1>1. /\ d.on = on /\ d.version = m.version /\ d.pubType = m.pubType /\ d.nmType = m.nmType
      /\ d.pubString = PublisherString(m)
      /\ d.count = IF "payloadHeader" \in m.on THEN Len(m.ids) ELSE 0
      /\ d.ids = Present(m.ids, "payloadHeader" \in m.on)
      /\ d.promoted = Present(m.promoted, "promoted" \in m.on)
      /\ d.nonce = Present(m.nonce, "security" \in m.on)
      /\ d.footer = Present(m.footer, HasFooter(m)) /\ d.signature = Present(m.signature, HasSignature(m))
  BY TransmittedIs DEF Received, Paid
<1>2. d.val = val
  <2>1. d.val \in [NMFields -> Nat]
    BY DEF LooseMessages
  <2>2. Over(NoNumbers, d.val, NumbersBy(m, 8), m)
    BY DEF Received, Paid
  <2> QED
    BY <2>1, <2>2, DeliveredNumbersAre
<1>3. d.dsms = DSMsFor(m)
  BY DeliveredAllAre DEF Received, Paid, DSMsFor
<1>4. d.sizes = SizesFor(m)
  BY DeliveredSizesAre DEF Received, Paid, SizesFor
<1>5. /\ "payloadHeader" \in on <=> "payloadHeader" \in m.on
      /\ "publisherId" \in on <=> "publisherId" \in m.on
      /\ "promoted" \in on <=> "promoted" \in m.on
      /\ "security" \in on <=> "security" \in m.on
      /\ "footer" \in on <=> HasFooter(m)
      /\ "signed" \in on <=> HasSignature(m)
  <2>1. {"payloadHeader", "publisherId", "promoted", "security"} \subseteq InFlags
    BY DEF InFlags, NMFlags, Ext1Flags, Ext2Flags
  <2> QED
    BY <2>1, SectionsOnWire
<1>6. /\ d.ids = Present(m.ids, "payloadHeader" \in on)
      /\ d.promoted = Present(m.promoted, "promoted" \in on)
      /\ d.nonce = Present(m.nonce, "security" \in on)
      /\ d.footer = Present(m.footer, "footer" \in on)
      /\ d.signature = Present(m.signature, "signed" \in on)
  <2> HIDE DEF on
  <2> QED
    BY <1>1, <1>5 DEF Present
<1>7. d.pubString = StringFor(m) /\ d.count = CountFor(m)
  BY <1>1, <1>5 DEF PublisherString, StringFor, CountFor
<1> HIDE DEF val
<1>8. Delivered(m) = [on |-> on, version |-> m.version, pubType |-> m.pubType, nmType |-> m.nmType,
                      val |-> val, pubString |-> StringFor(m),
                      ids |-> Present(m.ids, "payloadHeader" \in on), count |-> CountFor(m),
                      promoted |-> Present(m.promoted, "promoted" \in on),
                      nonce |-> Present(m.nonce, "security" \in on),
                      footer |-> Present(m.footer, "footer" \in on),
                      signature |-> Present(m.signature, "signed" \in on),
                      dsms |-> DSMsFor(m), sizes |-> SizesFor(m), heap |-> {}]
  BY DeliveredHas DEF val
<1> DEFINE ids == Present(m.ids, "payloadHeader" \in on)
           promoted == Present(m.promoted, "promoted" \in on)
           nonce == Present(m.nonce, "security" \in on)
           footer == Present(m.footer, "footer" \in on)
           signature == Present(m.signature, "signed" \in on)
<1>9. /\ d.on = on /\ d.version = m.version /\ d.pubType = m.pubType /\ d.nmType = m.nmType /\ d.val = val
      /\ d.pubString = StringFor(m) /\ d.ids = ids /\ d.count = CountFor(m) /\ d.promoted = promoted
      /\ d.nonce = nonce /\ d.footer = footer /\ d.signature = signature
      /\ d.dsms = DSMsFor(m) /\ d.sizes = SizesFor(m)
  BY <1>1, <1>2, <1>3, <1>4, <1>6, <1>7
<1>10. Delivered(m) = [on |-> on, version |-> m.version, pubType |-> m.pubType, nmType |-> m.nmType,
                       val |-> val, pubString |-> StringFor(m), ids |-> ids, count |-> CountFor(m),
                       promoted |-> promoted, nonce |-> nonce, footer |-> footer, signature |-> signature,
                       dsms |-> DSMsFor(m), sizes |-> SizesFor(m), heap |-> {}]
  BY <1>8
<1> HIDE DEF on, ids, promoted, nonce, footer, signature
<1>11. Delivered(m) = [on |-> d.on, version |-> d.version, pubType |-> d.pubType, nmType |-> d.nmType,
                       val |-> d.val, pubString |-> d.pubString, ids |-> d.ids, count |-> d.count,
                       promoted |-> d.promoted, nonce |-> d.nonce, footer |-> d.footer,
                       signature |-> d.signature, dsms |-> d.dsms, sizes |-> d.sizes, heap |-> {}]
  BY <1>9, <1>10
<1> QED
  BY <1>11, WithoutHeapHas

---------------------------------------------------------------------------
(* What is under way. *)

Fresh == [rv |-> "Good", dst |-> Blank, leaked |-> {}, uninit |-> FALSE]
Unused == [rv |-> "Good", out |-> <<>>]

\* Where the variables of a message under way come from.
PathInv ==
    /\ phase \in {"idle", "encoded", "received", "decoded"}
    /\ phase = "idle" => msg = None /\ cap = 0 /\ wire = Unused
    /\ phase # "idle" => /\ msg \in Messages /\ cap \in Nat /\ cap <= CalcSize(msg)
                         /\ wire = EncodeBinary(msg, cap)
    /\ phase \in {"idle", "encoded"} => datagram = <<>>
    /\ phase \in {"received", "decoded"} =>
          /\ wire.rv = "Good" /\ Len(wire.out) <= MaxDatagram
          /\ \E k \in 1..Len(wire.out) : datagram = SubSeq(wire.out, 1, k)
    /\ phase # "decoded" => result = Fresh
    /\ phase = "decoded" => result = DecodeBinary(datagram)

\* A message of the writer group is a struct UA_NetworkMessage, and encoding it
\* gives bytes.
LEMMA Encoded ==
    ASSUME NEW m \in Messages, NEW n \in Nat, NEW x, x = EncodeBinary(m, n)
    PROVE  /\ m \in NetworkMessages /\ m # None /\ CalcSize(m) \in Nat
           /\ x.rv \in Codes /\ x.out \in Seq(Octet) /\ Len(x.out) <= n /\ Len(x.out) \in Nat
<1>1. m \in NetworkMessages /\ m # None
  BY MessagesAssumption
<1>2. CalcSize(m) \in Nat /\ x.rv \in Codes /\ x.out \in Seq(Octet) /\ Len(x.out) <= n
  BY <1>1, EncodeFits
<1> QED
  BY <1>1, <1>2

\* The initial state.
LEMMA InitPathInv == Init => PathInv
BY DEF Init, PathInv, Fresh, Unused

\* Every step.
LEMMA PathInductive == PathInv /\ [Next]_vars => PathInv'
<1> SUFFICES ASSUME PathInv, [Next]_vars
             PROVE  PathInv'
  OBVIOUS
<1>1. ASSUME NEW m \in Messages, NEW s \in Shortfalls, Encode(m, s)
      PROVE  PathInv'
  <2> DEFINE n == CalcSize(m) - s
  <2>1. CalcSize(m) \in Nat
    BY MessagesAssumption, EncodeFits
  <2>2. n \in Nat /\ n <= CalcSize(m)
    BY <1>1, <2>1, ShortfallsAssumption DEF Encode
  <2>3. phase = "idle" /\ msg' = m /\ cap' = n /\ wire' = EncodeBinary(m, n) /\ phase' = "encoded"
        /\ datagram' = datagram /\ result' = result
    BY <1>1 DEF Encode
  <2> HIDE DEF n
  <2> QED
    BY <2>2, <2>3 DEF PathInv
<1>2. ASSUME Lose \/ Clear
      PROVE  PathInv'
  <2>1. Reset
    BY <1>2 DEF Lose, Clear
  <2> QED
    BY <2>1 DEF Reset, PathInv, Fresh, Unused
<1>3. ASSUME NEW size \in ReceiveSizes, Receive(size)
      PROVE  PathInv'
  <2> DEFINE k == IF Len(wire.out) < size THEN Len(wire.out) ELSE size
  <2>1. wire.out \in Seq(Octet) /\ Len(wire.out) \in Nat
    BY <1>3, Encoded DEF Receive, PathInv
  <2>2. size \in Nat /\ size > 0 /\ wire.out # <<>>
    BY <1>3, ReceiveSizesAssumption DEF Receive
  <2>3. Len(wire.out) > 0
    BY <2>1, <2>2
  <2>4. k \in 1..Len(wire.out)
    <3> DEFINE l == Len(wire.out)
    <3> HIDE DEF l
    <3> QED
      BY <2>1, <2>2, <2>3 DEF l
  <2>5. datagram' = SubSeq(wire.out, 1, k) /\ phase = "encoded" /\ wire.rv = "Good" /\ phase' = "received"
        /\ Len(wire.out) <= MaxDatagram
        /\ msg' = msg /\ cap' = cap /\ wire' = wire /\ result' = result
    BY <1>3 DEF Receive
  <2> HIDE DEF k
  <2> QED
    BY <2>4, <2>5 DEF PathInv
<1>4. ASSUME Decode
      PROVE  PathInv'
  BY <1>4 DEF Decode, PathInv
<1>5. CASE UNCHANGED vars
  BY <1>5 DEF vars, PathInv
<1> QED
  BY <1>1, <1>2, <1>3, <1>4, <1>5 DEF Next

\* A message under way is what the encoder, the network and the decoder made of
\* one message of the writer group.
THEOREM PathInvariance == Spec => []PathInv
BY InitPathInv, PathInductive, PTL DEF Spec

---------------------------------------------------------------------------
(* Encoding. *)

\* What both sides implement is what the encoder can finish.
LEMMA SupportedIsSendable ==
    ASSUME NEW m \in NetworkMessages
    PROVE  /\ Supported(m) <=> Sendable(m)
           /\ LongFooter(m) => ~Sendable(m)
<1>1. m.val["footerSize"] \in Nat
  BY MessageHas DEF Unsigned
<1>2. LongFooter(m) <=> EndlessFooter(m)
  BY <1>1 DEF LongFooter, EndlessFooter
<1>3. (\A i \in 1..DSMCount(m) :
          /\ m.dsms[i].type \in {KeyFrame, DeltaFrame, KeepAlive}
          /\ m.dsms[i].enc # RawData \/ m.dsms[i].type = KeepAlive) <=> AllEncodable(m)
  BY DEF AllEncodable, Encodable
<1> QED
  BY <1>2, <1>3 DEF Supported, Sendable, NoWriters

\* UA_NetworkMessage_calcSizeBinary is exact: a buffer of that size is enough
\* for a supported message and is filled, and a smaller one is reported.
THEOREM SizeIsExact == Spec => []SizeExact
<1>1. PathInv => SizeExact
  <2> SUFFICES ASSUME PathInv, phase = "encoded"
               PROVE  /\ Supported(msg) =>
                           /\ cap = CalcSize(msg) => wire.rv = "Good" /\ Len(wire.out) = cap
                           /\ cap < CalcSize(msg) /\ msg.on \cap {"timestamp", "picoseconds", "promoted"} = {}
                                 => wire.rv # "Good"
                      /\ LongFooter(msg) => wire.rv # "Good"
    BY DEF SizeExact
  <2>1. msg \in Messages /\ cap \in Nat /\ wire = EncodeBinary(msg, cap)
    BY DEF PathInv
  <2>2. msg \in NetworkMessages
    BY <2>1, MessagesAssumption
  <2>3. (Supported(msg) <=> Sendable(msg)) /\ (LongFooter(msg) => ~Sendable(msg))
    BY <2>2, SupportedIsSendable
  <2>4. /\ CalcSize(msg) \in Nat
        /\ ~Sendable(msg) => wire.rv # "Good"
        /\ Sendable(msg) => /\ MessageBytes(msg) \in Seq(Octet) /\ Len(MessageBytes(msg)) = CalcSize(msg)
                            /\ CalcSize(msg) <= cap => wire.rv = "Good" /\ wire.out = MessageBytes(msg)
        /\ Sendable(msg) /\ msg.on \cap {"timestamp", "picoseconds", "promoted"} = {} /\ cap < CalcSize(msg)
             => wire.rv # "Good"
    BY <2>1, <2>2, EncodeFits
  <2> QED
    BY <2>1, <2>3, <2>4
<1> QED
  BY <1>1, PathInvariance, PTL

---------------------------------------------------------------------------
(* Decoding. *)

\* The datagram is bytes, and what is left allocated is signatures.
LeakInv ==
    /\ datagram \in Seq(Octet)
    /\ result.rv \in Codes
    /\ Leaked(result.dst) \subseteq {"signature"}
    /\ result.leaked \subseteq {"signature"}
    /\ leaked \subseteq {"signature"}

\* UA_NetworkMessage_decodeBinary clears the message it has failed to decode;
\* the caller clears the others.
LEMMA DecodedLeaks ==
    ASSUME NEW src \in Seq(Octet), NEW x, x = DecodeBinary(src)
    PROVE  x.rv \in Codes /\ x.leaked \subseteq {"signature"} /\ Leaked(x.dst) \subseteq {"signature"}
<1> DEFINE r == DecodeInternal(src)
<1>1. r.rv \in Codes /\ Leaked(r.dst) \subseteq {"signature"}
  BY DecodeTidy
<1>2. x = ClearIfFailed(r)
  BY DEF DecodeBinary
<1> HIDE DEF r
<1>3. Leaked(Blank) = {}
  BY BlankType DEF Leaked
<1> QED
  BY <1>1, <1>2, <1>3 DEF ClearIfFailed

\* The message nothing has been decoded into.
LEMMA FreshLeaks ==
    Fresh.rv \in Codes /\ Fresh.leaked = {} /\ Leaked(Fresh.dst) = {}
<1>1. Leaked(Blank) = {}
  BY BlankType DEF Leaked
<1> QED
  BY <1>1 DEF Fresh, Codes

\* The initial state.
LEMMA InitLeakInv == Init => LeakInv
BY FreshLeaks DEF Init, LeakInv, Fresh

\* Every step.
LEMMA LeakInductive == PathInv /\ LeakInv /\ [Next]_vars => LeakInv'
<1> SUFFICES ASSUME PathInv, LeakInv, [Next]_vars
             PROVE  LeakInv'
  OBVIOUS
<1>1. ASSUME NEW m \in Messages, NEW s \in Shortfalls, Encode(m, s)
      PROVE  LeakInv'
  BY <1>1 DEF Encode, LeakInv
<1>2. ASSUME Lose
      PROVE  LeakInv'
  <2>1. datagram' = <<>> /\ result' = Fresh /\ leaked' = leaked
    BY <1>2 DEF Lose, Reset, Fresh
  <2> QED
    BY <2>1, FreshLeaks DEF LeakInv
<1>3. ASSUME NEW size \in ReceiveSizes, Receive(size)
      PROVE  LeakInv'
  <2> DEFINE k == IF Len(wire.out) < size THEN Len(wire.out) ELSE size
             l == Len(wire.out)
  <2>1. wire.out \in Seq(Octet) /\ l \in Nat
    BY <1>3, Encoded DEF Receive, PathInv
  <2>2. size \in Nat
    BY ReceiveSizesAssumption
  <2>3. k \in 0..l
    <3> HIDE DEF l
    <3> QED
      BY <2>1, <2>2 DEF l
  <2>4. datagram' = SubSeq(wire.out, 1, k) /\ result' = result /\ leaked' = leaked
    BY <1>3 DEF Receive
  <2> HIDE DEF k
  <2>5. SubSeq(wire.out, 1, k) \in Seq(Octet)
    BY <2>1, <2>3 DEF l
  <2> QED
    BY <2>4, <2>5 DEF LeakInv
<1>4. ASSUME Decode
      PROVE  LeakInv'
  <2>1. result' = DecodeBinary(datagram) /\ leaked' = leaked \cup result'.leaked /\ datagram' = datagram
    BY <1>4 DEF Decode
  <2>2. result'.rv \in Codes /\ result'.leaked \subseteq {"signature"} /\ Leaked(result'.dst) \subseteq {"signature"}
    BY <2>1, DecodedLeaks DEF LeakInv
  <2>3. Leaked(result.dst)' = Leaked(result'.dst)
    BY DEF Leaked, Freed
  <2> QED
    BY <2>1, <2>2, <2>3 DEF LeakInv
<1>5. ASSUME Clear
      PROVE  LeakInv'
  <2>1. datagram' = <<>> /\ result' = Fresh /\ leaked' = leaked \cup Leaked(result.dst)
    BY <1>5 DEF Clear, Reset, Fresh
  <2>2. Leaked(result.dst) \subseteq {"signature"} /\ leaked \subseteq {"signature"}
    BY DEF LeakInv
  <2>3. leaked' \subseteq {"signature"}
    BY <2>1, <2>2
  <2>4. Leaked(result.dst)' = Leaked(result'.dst)
    BY DEF Leaked, Freed
  <2>5. result'.rv \in Codes /\ result'.leaked = {} /\ Leaked(result'.dst) = {}
    BY <2>1, FreshLeaks
  <2> QED
    BY <2>1, <2>3, <2>4, <2>5 DEF LeakInv
<1>6. CASE UNCHANGED vars
  BY <1>6 DEF vars, LeakInv
<1> QED
  BY <1>1, <1>2, <1>3, <1>4, <1>5, <1>6 DEF Next

\* Every message under way, however it was cut.
LEMMA LeakInvariance == Spec => []LeakInv
BY PathInvariance, InitLeakInv, LeakInductive, PTL DEF Spec

\* Whatever bytes arrive, whole or cut, UA_NetworkMessage_decodeBinary and the
\* final UA_NetworkMessage_clear between them free everything the decoder
\* allocates, except the signature of a signed message, which
\* UA_NetworkMessage_clear does not mention.
THEOREM ClearFreesAll == Spec => []OnlySignatureLeaks
<1>1. LeakInv => OnlySignatureLeaks
  BY DEF LeakInv, OnlySignatureLeaks
<1> QED
  BY <1>1, LeakInvariance, PTL

\* The statuscodes, the bytes and the blocks are those of the program.
THEOREM PathTypes == Spec => []TypeOK
<1>1. PathInv /\ LeakInv => TypeOK
  <2> SUFFICES ASSUME PathInv, LeakInv PROVE TypeOK
    OBVIOUS
  <2>1. /\ phase \in {"idle", "encoded", "received", "decoded"}
        /\ phase = "idle" => msg = None /\ cap = 0 /\ wire = Unused
        /\ phase # "idle" => msg \in Messages /\ cap \in Nat /\ wire = EncodeBinary(msg, cap)
    BY DEF PathInv
  <2>2. msg \in Messages \cup {None} /\ cap \in Nat /\ wire.rv \in Codes /\ wire.out \in Seq(Octet)
    <3>1. ASSUME phase = "idle"
          PROVE  msg \in Messages \cup {None} /\ cap \in Nat /\ wire.rv \in Codes /\ wire.out \in Seq(Octet)
      <4>1. Unused.rv \in Codes /\ Unused.out \in Seq(Octet)
        BY DEF Unused, Codes
      <4> QED
        BY <2>1, <3>1, <4>1
    <3>2. ASSUME phase # "idle"
          PROVE  msg \in Messages \cup {None} /\ cap \in Nat /\ wire.rv \in Codes /\ wire.out \in Seq(Octet)
      <4>1. msg \in Messages /\ cap \in Nat /\ wire = EncodeBinary(msg, cap)
        BY <2>1, <3>2
      <4>2. wire.rv \in Codes /\ wire.out \in Seq(Octet)
        BY <4>1, Encoded
      <4> QED
        BY <4>1, <4>2
    <3> QED
      BY <3>1, <3>2
  <2>3. Codes = Statuscodes /\ Octet = 0..255
    BY DEF Codes, Statuscodes, Octet
  <2>4. leaked \subseteq Blocks
    BY DEF LeakInv, Blocks
  <2> QED
    BY <2>1, <2>2, <2>3, <2>4 DEF TypeOK, LeakInv
<1> QED
  BY <1>1, PathInvariance, LeakInvariance, PTL

---------------------------------------------------------------------------
(* What arrives. *)

\* The decoder hands over the message when all of it has arrived, and refuses it
\* when any of it is missing.
LEMMA DecodesOrRefuses ==
    ASSUME NEW m \in NetworkMessages, Sendable(m), NEW b, b = MessageBytes(m), Len(b) <= MaxDatagram,
           NEW k \in 1..Len(b), NEW x, x = DecodeBinary(SubSeq(b, 1, k))
    PROVE  /\ k = Len(b) => x.rv = "Good" /\ WithoutHeap(x.dst) = Delivered(m)
           /\ k < Len(b) => x.rv # "Good"
<1> DEFINE src == SubSeq(b, 1, k)
           r == DecodeInternal(src)
<1>1. b \in Seq(Octet) /\ Len(b) \in Nat
  BY MessagePiece, PieceType
<1>2. src \in Seq(Octet) /\ Len(src) = k /\ k \in Nat
  <2> DEFINE l == Len(b)
  <2> HIDE DEF l
  <2>1. k \in Nat /\ k <= l
    BY <1>1 DEF l
  <2> QED
    BY <1>1, <2>1 DEF l
<1>3. Follows(src, 0, b)
  <2>1. \A i \in 1..k : src[i] = b[i]
    BY <1>1
  <2>2. ASSUME NEW i \in 1..Len(b), 0 + i <= Len(src)
        PROVE  src[0 + i] = b[i]
    <3>1. i \in Nat /\ i >= 1
      BY <1>1
    <3>2. 0 + i = i /\ i <= k
      BY <1>2, <2>2, <3>1
    <3>3. i \in 1..k
      BY <1>2, <3>1, <3>2
    <3> HIDE DEF src
    <3> QED
      BY <2>1, <3>2, <3>3
  <2> HIDE DEF src
  <2> QED
    BY <2>2 DEF Follows
<1>4. /\ "promoted" \in m.on => PromotedSize(m) < 65536
      /\ \A i \in 1..DSMCount(m) : DSMSize(m.dsms[i]) < 65536
  BY SizesOfDatagram
<1> HIDE DEF src
<1>5. Follows(src, 0, MessageBytes(m))
  BY <1>3
<1>6. Reached(src, 0, MessageBytes(m), r) /\ (r.rv = "Good" => Received(r.dst, m))
  BY <1>2, <1>4, <1>5, MessageReads
<1>7. r.dst \in LooseMessages
  BY <1>2, DecodeTidy
<1> HIDE DEF r
<1>8. x.rv = r.rv /\ (r.rv = "Good" => x.dst = r.dst)
  BY DEF DecodeBinary, ClearIfFailed, r, src
<1>9. AllEncodable(m)
  BY DEF Sendable
<1>10. ASSUME r.rv = "Good"
       PROVE  WithoutHeap(x.dst) = Delivered(m)
  BY <1>4, <1>6, <1>7, <1>8, <1>9, <1>10, DeliveredIs
<1>11. IF 0 + Len(b) <= Len(src) THEN r.rv = "Good" ELSE r.rv # "Good"
  BY <1>6 DEF Reached
<1> DEFINE l == Len(b)
<1> HIDE DEF l
<1>12. (k = l => r.rv = "Good") /\ (k < l => r.rv # "Good")
  BY <1>1, <1>2, <1>11 DEF l
<1> QED
  BY <1>8, <1>10, <1>12 DEF l

\* The same, of a message whose buffer had the calculated size.
LEMMA ArrivesOrNot ==
    ASSUME NEW m \in Messages, NEW w, w = EncodeBinary(m, CalcSize(m)), w.rv = "Good", Len(w.out) <= MaxDatagram,
           NEW d, \E k \in 1..Len(w.out) : d = SubSeq(w.out, 1, k), NEW x, x = DecodeBinary(d)
    PROVE  /\ m \in NetworkMessages /\ Sendable(m)
           /\ d = w.out => x.rv = "Good" /\ WithoutHeap(x.dst) = Delivered(m)
           /\ d # w.out => Len(d) < Len(w.out) /\ x.rv # "Good"
<1> DEFINE b == w.out
<1>2. PICK k \in 1..Len(b) : d = SubSeq(b, 1, k)
  OBVIOUS
<1>3. m \in NetworkMessages
  BY MessagesAssumption
<1>4. Sendable(m) /\ b = MessageBytes(m) /\ b \in Seq(Octet) /\ Len(b) \in Nat
  <2> DEFINE n == CalcSize(m)
  <2>1. n \in Nat
    BY <1>3, EncodeFits
  <2>2. n <= n
    BY <2>1
  <2>3. w = EncodeBinary(m, n)
    OBVIOUS
  <2>4. /\ ~Sendable(m) => w.rv # "Good"
        /\ Sendable(m) => /\ MessageBytes(m) \in Seq(Octet)
                          /\ CalcSize(m) <= n => w.rv = "Good" /\ w.out = MessageBytes(m)
    <3> HIDE DEF n
    <3> QED
      BY <1>3, <2>1, <2>3, EncodeFits
  <2> QED
    BY <2>2, <2>4
<1>5. /\ k = Len(b) => x.rv = "Good" /\ WithoutHeap(x.dst) = Delivered(m)
      /\ k < Len(b) => x.rv # "Good"
  BY <1>2, <1>3, <1>4, DecodesOrRefuses
<1> HIDE DEF b
<1>6. Len(d) = k /\ k <= Len(b) /\ k \in Nat /\ (k = Len(b) => d = b)
  <2> DEFINE l == Len(b)
  <2>1. l \in Nat /\ k \in 1..l
    BY <1>2, <1>4
  <2>2. SubSeq(b, 1, l) = b
    BY <1>4
  <2> HIDE DEF l
  <2>3. k \in Nat /\ k <= l
    BY <2>1
  <2>4. Len(SubSeq(b, 1, k)) = k
    BY <1>4, <2>3 DEF l
  <2>5. k = l => d = b
    BY <1>2, <2>2
  <2>6. Len(d) = k
    BY <1>2, <2>4
  <2> QED
    BY <2>3, <2>5, <2>6 DEF l
<1>7. d = b => k = Len(b)
  BY <1>6
<1> DEFINE l == Len(b)
<1>8. l \in Nat
  BY <1>4
<1>9. k = l \/ k < l
  <2> HIDE DEF l
  <2> QED
    BY <1>6, <1>8 DEF l
<1>10. Len(d) < l \/ d = b
  BY <1>6, <1>9
<1> HIDE DEF l
<1> QED
  BY <1>3, <1>4, <1>5, <1>6, <1>7, <1>9, <1>10 DEF b, l

\* The same, of the message under way.
LEMMA PathDecodes ==
    ASSUME PathInv, phase = "decoded", cap = CalcSize(msg)
    PROVE  /\ msg \in NetworkMessages /\ Sendable(msg)
           /\ datagram = wire.out => result.rv = "Good" /\ WithoutHeap(result.dst) = Delivered(msg)
           /\ datagram # wire.out => Len(datagram) < Len(wire.out) /\ result.rv # "Good"
<1>1. /\ msg \in Messages /\ wire = EncodeBinary(msg, CalcSize(msg))
      /\ wire.rv = "Good" /\ Len(wire.out) <= MaxDatagram /\ result = DecodeBinary(datagram)
      /\ \E k \in 1..Len(wire.out) : datagram = SubSeq(wire.out, 1, k)
  BY DEF PathInv
<1> QED
  BY <1>1, ArrivesOrNot

\* UA_NetworkMessage_decodeBinary returns the message that
\* UA_NetworkMessage_encodeBinary was given, member by member, when the whole of
\* the datagram has arrived: for every message the encoder reports as sent out
\* of a buffer of the calculated size, whatever sections it has.
THEOREM DecodeInvertsEncode == Spec => []RoundTrip
<1>1. PathInv => RoundTrip
  BY PathDecodes DEF RoundTrip
<1> QED
  BY <1>1, PathInvariance, PTL

\* It reports every datagram that recv has cut.
THEOREM CutIsRefused == Spec => []TruncationDetected
<1>1. PathInv => TruncationDetected
  <2> SUFFICES ASSUME PathInv, phase = "decoded", cap = CalcSize(msg), Len(datagram) < Len(wire.out)
               PROVE  result.rv # "Good"
    BY DEF TruncationDetected
  <2>1. datagram # wire.out
    <3>1. PICK k \in 1..Len(wire.out) : datagram = SubSeq(wire.out, 1, k)
      BY DEF PathInv
    <3>2. msg \in Messages /\ cap \in Nat /\ wire = EncodeBinary(msg, cap)
      BY DEF PathInv
    <3>3. Len(wire.out) \in Nat
      BY <3>2, Encoded
    <3> DEFINE l == Len(wire.out)
    <3>4. l \in Nat /\ Len(datagram) < l
      BY <3>3
    <3>5. Len(datagram) # l
      <4>1. SUFFICES ASSUME Len(datagram) = l PROVE FALSE
        OBVIOUS
      <4>2. l < l
        BY <3>4, <4>1
      <4> HIDE DEF l
      <4> QED
        BY <3>4, <4>2
    <3> QED
      BY <3>5
  <2> QED
    BY <2>1, PathDecodes
<1> QED
  BY <1>1, PathInvariance, PTL

---------------------------------------------------------------------------
(* The service. *)

\* The sections whose writes the encoder does not test.
Untested == {"timestamp", "picoseconds", "promoted"}

\* The buffer has the calculated size, or the encoder tests every write.
FirmlySized == phase # "idle" => cap = CalcSize(msg) \/ msg.on \cap Untested = {}

\* What the service is made of.
content   == {Delivered(m) : m \in {x \in Messages : Supported(x)}}
pending   == IF phase \in {"encoded", "received"} /\ wire.rv = "Good" THEN Delivered(msg) ELSE None
delivered == IF phase = "decoded" /\ result.rv = "Good" THEN WithoutHeap(result.dst) ELSE None

ServiceStep == Service!Next \/ UNCHANGED <<pending, delivered>>

\* Nothing is under way in the beginning.
LEMMA InitServes == Init => Service!Init
BY DEF Init, Service!Init

\* A message that is encoded completely is published.
LEMMA EncodeServes ==
    ASSUME PathInv, NEW m \in Messages, NEW s \in Shortfalls, Encode(m, s)
    PROVE  ServiceStep
<1>1. /\ phase = "idle" /\ phase' = "encoded" /\ msg' = m /\ wire' = EncodeBinary(m, CalcSize(m) - s)
      /\ s <= CalcSize(m)
  BY DEF Encode
<1>2. pending = None /\ delivered = None /\ delivered' = None
  BY <1>1 DEF pending, delivered
<1>3. CASE wire'.rv # "Good"
  <2>1. pending' = None
    BY <1>1, <1>3 DEF pending
  <2> QED
    BY <1>2, <2>1 DEF ServiceStep
<1>4. CASE wire'.rv = "Good"
  <2> DEFINE n == CalcSize(m) - s
  <2>1. m \in NetworkMessages /\ n \in Nat
    <3>1. CalcSize(m) \in Nat /\ m \in NetworkMessages
      BY MessagesAssumption, EncodeFits
    <3> QED
      BY <1>1, <3>1, ShortfallsAssumption
  <2>2. wire' = EncodeBinary(m, n)
    BY <1>1
  <2> HIDE DEF n
  <2>3. ~Sendable(m) => wire'.rv # "Good"
    BY <2>1, <2>2, EncodeFits
  <2>4. Supported(m)
    BY <1>4, <2>1, <2>3, SupportedIsSendable
  <2>5. pending' = Delivered(m)
    <3>1. Delivered(msg)' = Delivered(msg')
      OBVIOUS
    <3> QED
      BY <1>1, <1>4, <3>1 DEF pending
  <2>6. pending' \in content
    BY <2>4, <2>5 DEF content
  <2>7. Service!Publish
    BY <1>2, <2>6 DEF Service!Publish, pending, delivered, content
  <2> QED
    BY <2>7 DEF ServiceStep, Service!Next
<1> QED
  BY <1>3, <1>4

\* A message that is not sent, or lost, is dropped.
LEMMA LoseServes ==
    ASSUME PathInv, Lose
    PROVE  ServiceStep
<1>1. phase = "encoded" /\ phase' = "idle"
  BY DEF Lose, Reset
<1>2. pending' = None /\ delivered' = None /\ delivered = None
  BY <1>1 DEF pending, delivered
<1>3. CASE pending = None
  BY <1>2, <1>3 DEF ServiceStep
<1>4. CASE pending # None
  <2>1. Service!Drop
    BY <1>2, <1>4 DEF Service!Drop, pending, delivered
  <2> QED
    BY <2>1 DEF ServiceStep, Service!Next
<1> QED
  BY <1>3, <1>4

\* A datagram that has arrived is still under way.
LEMMA ReceiveServes ==
    ASSUME NEW size \in ReceiveSizes, Receive(size)
    PROVE  ServiceStep
<1>1. phase = "encoded" /\ phase' = "received" /\ msg' = msg /\ wire' = wire /\ result' = result
  BY DEF Receive
<1>2. Delivered(msg)' = Delivered(msg')
  OBVIOUS
<1> QED
  BY <1>1, <1>2 DEF ServiceStep, pending, delivered

\* A message decoded is delivered when all of it has arrived, and dropped when
\* not.
LEMMA DecodeServes ==
    ASSUME PathInv, FirmlySized, Decode
    PROVE  ServiceStep
<1>1. phase = "received" /\ phase' = "decoded" /\ result' = DecodeBinary(datagram)
  BY DEF Decode
<1>2. /\ msg \in Messages /\ cap \in Nat /\ cap <= CalcSize(msg) /\ wire = EncodeBinary(msg, cap)
      /\ wire.rv = "Good" /\ Len(wire.out) <= MaxDatagram
      /\ \E k \in 1..Len(wire.out) : datagram = SubSeq(wire.out, 1, k)
  BY <1>1 DEF PathInv
<1>3. cap = CalcSize(msg)
  <2>1. msg \in NetworkMessages
    BY <1>2, MessagesAssumption
  <2>2. /\ CalcSize(msg) \in Nat
        /\ ~Sendable(msg) => wire.rv # "Good"
        /\ Sendable(msg) /\ msg.on \cap {"timestamp", "picoseconds", "promoted"} = {} /\ cap < CalcSize(msg)
             => wire.rv # "Good"
    BY <1>2, <2>1, EncodeFits
  <2>3. cap = CalcSize(msg) \/ msg.on \cap {"timestamp", "picoseconds", "promoted"} = {}
    BY <1>1 DEF FirmlySized, Untested
  <2>4. Sendable(msg) /\ (msg.on \cap {"timestamp", "picoseconds", "promoted"} = {} => ~(cap < CalcSize(msg)))
    BY <1>2, <2>2
  <2> QED
    BY <1>2, <2>2, <2>3, <2>4
<1>4. result'.rv = "Good" => WithoutHeap(result'.dst) = Delivered(msg)
  <2> DEFINE r == DecodeBinary(datagram)
  <2>1. wire = EncodeBinary(msg, CalcSize(msg)) /\ r = DecodeBinary(datagram)
    BY <1>2, <1>3
  <2> HIDE DEF r
  <2>2. /\ datagram = wire.out => r.rv = "Good" /\ WithoutHeap(r.dst) = Delivered(msg)
        /\ datagram # wire.out => Len(datagram) < Len(wire.out) /\ r.rv # "Good"
    BY <1>2, <2>1, ArrivesOrNot, ZenonT(60)
  <2>3. r.rv = "Good" => WithoutHeap(r.dst) = Delivered(msg)
    BY <2>2
  <2>4. result' = r
    BY <1>1 DEF r
  <2> QED
    BY <2>3, <2>4
<1>5. pending = Delivered(msg) /\ pending' = None /\ delivered = None
  BY <1>1, <1>2 DEF pending, delivered
<1>6. delivered' = IF result'.rv = "Good" THEN WithoutHeap(result'.dst) ELSE None
  <2>1. WithoutHeap(result.dst)' = WithoutHeap(result'.dst)
    OBVIOUS
  <2> QED
    BY <1>1, <2>1 DEF delivered
<1>7. delivered' = pending \/ delivered' = None
  BY <1>4, <1>5, <1>6
<1>8. CASE pending = None
  BY <1>5, <1>7, <1>8 DEF ServiceStep
<1>9. CASE pending # None /\ delivered' = pending
  <2>1. Service!Deliver
    BY <1>5, <1>9 DEF Service!Deliver, pending, delivered
  <2> QED
    BY <2>1 DEF ServiceStep, Service!Next
<1>10. CASE pending # None /\ delivered' = None
  <2>1. Service!Drop
    BY <1>5, <1>10 DEF Service!Drop, pending, delivered
  <2> QED
    BY <2>1 DEF ServiceStep, Service!Next
<1> QED
  BY <1>7, <1>8, <1>9, <1>10

\* The subscriber is done with a message.
LEMMA ClearServes ==
    ASSUME Clear
    PROVE  ServiceStep
<1>1. phase = "decoded" /\ phase' = "idle"
  BY DEF Clear, Reset
<1>2. pending' = None /\ pending = None /\ delivered' = None
  BY <1>1 DEF pending, delivered
<1>3. Service!Forget
  BY <1>2 DEF Service!Forget, pending, delivered
<1> QED
  BY <1>3 DEF ServiceStep, Service!Next

\* Encoding, one datagram, decoding and clearing implement the datagram
\* service: what a subscriber is handed is the message that was published,
\* unaltered, once, or nothing.  Every buffer has the size calcSize gives, or
\* the message none of the sections whose statuscodes the encoder throws away.
THEOREM ServiceRefinement == Spec /\ []FirmlySized => ImplementsService
<1>1. PathInv /\ FirmlySized /\ [Next]_vars => [Service!Next]_(Service!vars)
  <2> SUFFICES ASSUME PathInv, FirmlySized, [Next]_vars
               PROVE  ServiceStep
    BY DEF ServiceStep, Service!vars, pending, delivered
  <2>1. CASE \E m \in Messages, s \in Shortfalls : Encode(m, s)
    BY <2>1, EncodeServes
  <2>2. CASE Lose
    BY <2>2, LoseServes
  <2>3. CASE \E size \in ReceiveSizes : Receive(size)
    BY <2>3, ReceiveServes
  <2>4. CASE Decode
    BY <2>4, DecodeServes
  <2>5. CASE Clear
    BY <2>5, ClearServes
  <2>6. CASE UNCHANGED vars
    BY <2>6 DEF vars, ServiceStep, pending, delivered
  <2> QED
    BY <2>1, <2>2, <2>3, <2>4, <2>5, <2>6 DEF Next
<1> QED
  BY <1>1, InitServes, PathInvariance, PTL DEF Spec, ImplementsService, Service!Spec

\* Callers that use calcSize get the service for every message.
THEOREM CalculatedSizesServe ==
    ASSUME Shortfalls = {0}
    PROVE  Spec => ImplementsService
<1>1. Init => FirmlySized
  BY DEF Init, FirmlySized
<1>2. FirmlySized /\ [Next]_vars => FirmlySized'
  <2> SUFFICES ASSUME FirmlySized, [Next]_vars
               PROVE  FirmlySized'
    OBVIOUS
  <2>1. ASSUME NEW m \in Messages, NEW s \in Shortfalls, Encode(m, s)
        PROVE  FirmlySized'
    <3> DEFINE n == CalcSize(m)
    <3>1. n \in Nat
      BY MessagesAssumption, EncodeFits
    <3>2. msg' = m /\ cap' = n - 0
      BY <2>1 DEF Encode
    <3> HIDE DEF n
    <3>3. cap' = n
      BY <3>1, <3>2
    <3> QED
      BY <3>2, <3>3 DEF FirmlySized, n
  <2>2. CASE Lose \/ Clear
    BY <2>2 DEF Lose, Clear, Reset, FirmlySized
  <2>3. ASSUME NEW size \in ReceiveSizes, Receive(size)
        PROVE  FirmlySized'
    BY <2>3 DEF Receive, FirmlySized
  <2>4. CASE Decode
    BY <2>4 DEF Decode, FirmlySized
  <2>5. CASE UNCHANGED vars
    BY <2>5 DEF vars, FirmlySized
  <2> QED
    BY <2>1, <2>2, <2>3, <2>4, <2>5 DEF Next
<1> QED
  BY <1>1, <1>2, ServiceRefinement, PTL DEF Spec
=============================================================================
