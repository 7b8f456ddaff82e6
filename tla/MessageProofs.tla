---------------------------- MODULE MessageProofs ----------------------------
(***************************************************************************)
(* What the codec of NetworkMessages does with every message and with      *)
(* every byte string: the encoder writes the bytes that calcSize counts,   *)
(* the decoder stays in its buffer and keeps account of the memory it      *)
(* allocates.  Then what the decoder reads out of the bytes the encoder    *)
(* writes, for every message: section by section in wire order, each       *)
(* behind the ones in front of it, up to the whole message (MessageReads). *)
(* A buffer that ends early makes the section that it ends in fail.  Loops *)
(* over elements use the least number of turns for which a statement about *)
(* them fails (Induction), since there  is no induction over data here.    *)
(***************************************************************************)
EXTENDS WireProofs, NetworkMessage

---------------------------------------------------------------------------
(* The bytes of flags. *)

\* The flags of a NetworkMessage, with its version and the bit of the extended flags.
LEMMA NMFlagsByte ==
    ASSUME NEW on, NEW k \in 0..15, NEW top \in BOOLEAN, NEW v, v = k + FlagByte(on, NMFlags) + (IF top THEN 128 ELSE 0)
    PROVE  /\ v \in Octet
           /\ FlagsIn(v, NMFlags) = on \cap DOMAIN NMFlags
           /\ v % 16 = k
           /\ Bit(v, 128) <=> top
<1> DEFINE m == NMFlags
           s1 == {} \cup {"payloadHeader"}
           s2 == s1 \cup {"groupHeader"}
           s3 == s2 \cup {"publisherId"}
<1>1. /\ m["publisherId"] = 16 /\ m["groupHeader"] = 32 /\ m["payloadHeader"] = 64
      /\ DOMAIN m = {"publisherId", "groupHeader", "payloadHeader"}
  BY DEF NMFlags
<1> HIDE DEF m
<1>2. SumIs(m, on, s3, Mask(on, "publisherId", 16) + (Mask(on, "groupHeader", 32) + (Mask(on, "payloadHeader", 64) + 0)))
  <2>1. SumIs(m, on, s1, Mask(on, "payloadHeader", 64) + 0)
    BY <1>1, SumOfNone, SumMore
  <2>2. SumIs(m, on, s2, Mask(on, "groupHeader", 32) + (Mask(on, "payloadHeader", 64) + 0))
    BY <1>1, <2>1, SumMore
  <2> QED
    BY <1>1, <2>2, SumMore
<1>3. on \cap DOMAIN m = on \cap s3
  BY <1>1
<1> HIDE DEF s3
<1> DEFINE b1 == IF "publisherId" \in on THEN 1 ELSE 0
           b2 == IF "groupHeader" \in on THEN 1 ELSE 0
           b3 == IF "payloadHeader" \in on THEN 1 ELSE 0
           c == IF top THEN 1 ELSE 0
<1>4. v = k + 16 * b1 + 32 * b2 + 64 * b3 + 128 * c
  <2>1. FlagByte(on, m) = Mask(on, "publisherId", 16) + (Mask(on, "groupHeader", 32) + (Mask(on, "payloadHeader", 64) + 0))
    BY <1>2, <1>3 DEF FlagByte, SumIs
  <2>2. /\ Mask(on, "publisherId", 16) = 16 * b1
        /\ Mask(on, "groupHeader", 32) = 32 * b2
        /\ Mask(on, "payloadHeader", 64) = 64 * b3
    BY DEF Mask
  <2>3. (IF top THEN 128 ELSE 0) = 128 * c
    OBVIOUS
  <2>4. b1 \in {0, 1} /\ b2 \in {0, 1} /\ b3 \in {0, 1}
    OBVIOUS
  <2> DEFINE d == IF top THEN 128 ELSE 0
  <2>5. v = k + FlagByte(on, m) + d
    BY DEF m
  <2>6. d = 128 * c /\ c \in {0, 1}
    BY <2>3
  <2> HIDE DEF b1, b2, b3, c, d
  <2> QED
    BY <2>1, <2>2, <2>4, <2>5, <2>6
<1>5. /\ b1 \in {0, 1} /\ b2 \in {0, 1} /\ b3 \in {0, 1} /\ c \in {0, 1}
      /\ (b1 = 1 <=> "publisherId" \in on) /\ (b2 = 1 <=> "groupHeader" \in on) /\ (b3 = 1 <=> "payloadHeader" \in on)
      /\ (c = 1 <=> top)
  OBVIOUS
<1> HIDE DEF b1, b2, b3, c
<1>6. v \in 0..255
  BY <1>4, <1>5
<1>7. /\ (v \div 16) % 2 = b1
      /\ (v \div 32) % 2 = b2
      /\ (v \div 64) % 2 = b3
      /\ (v \div 128) % 2 = c
      /\ v % 16 = k
  <2>1. (v \div 16) % 2 = b1
    BY SMT, <1>4, <1>5
  <2>2. (v \div 32) % 2 = b2
    BY SMT, <1>4, <1>5
  <2>3. (v \div 64) % 2 = b3
    BY SMT, <1>4, <1>5
  <2>4. (v \div 128) % 2 = c
    BY SMT, <1>4, <1>5
  <2>5. v % 16 = k
    BY SMT, <1>4, <1>5
  <2> QED
    BY <2>1, <2>2, <2>3, <2>4, <2>5
<1>8. \A f \in DOMAIN m : Bit(v, m[f]) <=> f \in on
  BY <1>1, <1>5, <1>7 DEF Bit
<1>9. FlagsIn(v, m) = on \cap DOMAIN m
  BY <1>8 DEF FlagsIn
<1> QED
  BY <1>5, <1>6, <1>7, <1>9 DEF Octet, m, Bit

\* The first extended flags, with the type of the publisher id and the bit of the second.
LEMMA Ext1Byte ==
    ASSUME NEW on, NEW k \in 0..4, NEW top \in BOOLEAN, NEW v, v = k + FlagByte(on, Ext1Flags) + (IF top THEN 128 ELSE 0)
    PROVE  /\ v \in Octet
           /\ FlagsIn(v, Ext1Flags) = on \cap DOMAIN Ext1Flags
           /\ v % 8 = k
           /\ Bit(v, 128) <=> top
<1> DEFINE m == Ext1Flags
           s1 == {} \cup {"picoseconds"}
           s2 == s1 \cup {"timestamp"}
           s3 == s2 \cup {"security"}
           s4 == s3 \cup {"classId"}
<1>1. /\ m["classId"] = 8 /\ m["security"] = 16 /\ m["timestamp"] = 32 /\ m["picoseconds"] = 64
      /\ DOMAIN m = {"classId", "security", "timestamp", "picoseconds"}
  BY DEF Ext1Flags
<1> HIDE DEF m
<1>2. SumIs(m, on, s4, Mask(on, "classId", 8) + (Mask(on, "security", 16) + (Mask(on, "timestamp", 32) + (Mask(on, "picoseconds", 64) + 0))))
  <2>1. SumIs(m, on, s1, Mask(on, "picoseconds", 64) + 0)
    BY <1>1, SumOfNone, SumMore
  <2>2. SumIs(m, on, s2, Mask(on, "timestamp", 32) + (Mask(on, "picoseconds", 64) + 0))
    BY <1>1, <2>1, SumMore
  <2>3. SumIs(m, on, s3, Mask(on, "security", 16) + (Mask(on, "timestamp", 32) + (Mask(on, "picoseconds", 64) + 0)))
    BY <1>1, <2>2, SumMore
  <2> QED
    BY <1>1, <2>3, SumMore
<1>3. on \cap DOMAIN m = on \cap s4
  BY <1>1
<1> HIDE DEF s4
<1> DEFINE b1 == IF "classId" \in on THEN 1 ELSE 0
           b2 == IF "security" \in on THEN 1 ELSE 0
           b3 == IF "timestamp" \in on THEN 1 ELSE 0
           b4 == IF "picoseconds" \in on THEN 1 ELSE 0
           c == IF top THEN 1 ELSE 0
<1>4. v = k + 8 * b1 + 16 * b2 + 32 * b3 + 64 * b4 + 128 * c
  <2>1. FlagByte(on, m) = Mask(on, "classId", 8) + (Mask(on, "security", 16) + (Mask(on, "timestamp", 32) + (Mask(on, "picoseconds", 64) + 0)))
    BY <1>2, <1>3 DEF FlagByte, SumIs
  <2>2. /\ Mask(on, "classId", 8) = 8 * b1
        /\ Mask(on, "security", 16) = 16 * b2
        /\ Mask(on, "timestamp", 32) = 32 * b3
        /\ Mask(on, "picoseconds", 64) = 64 * b4
    BY DEF Mask
  <2>3. (IF top THEN 128 ELSE 0) = 128 * c
    OBVIOUS
  <2>4. b1 \in {0, 1} /\ b2 \in {0, 1} /\ b3 \in {0, 1} /\ b4 \in {0, 1}
    OBVIOUS
  <2> DEFINE d == IF top THEN 128 ELSE 0
  <2>5. v = k + FlagByte(on, m) + d
    BY DEF m
  <2>6. d = 128 * c /\ c \in {0, 1}
    BY <2>3
  <2> HIDE DEF b1, b2, b3, b4, c, d
  <2> QED
    BY <2>1, <2>2, <2>4, <2>5, <2>6
<1>5. /\ b1 \in {0, 1} /\ b2 \in {0, 1} /\ b3 \in {0, 1} /\ b4 \in {0, 1} /\ c \in {0, 1}
      /\ (b1 = 1 <=> "classId" \in on) /\ (b2 = 1 <=> "security" \in on) /\ (b3 = 1 <=> "timestamp" \in on) /\ (b4 = 1 <=> "picoseconds" \in on)
      /\ (c = 1 <=> top)
  OBVIOUS
<1> HIDE DEF b1, b2, b3, b4, c
<1>6. v \in 0..255
  BY <1>4, <1>5
<1>7. /\ (v \div 8) % 2 = b1
      /\ (v \div 16) % 2 = b2
      /\ (v \div 32) % 2 = b3
      /\ (v \div 64) % 2 = b4
      /\ (v \div 128) % 2 = c
      /\ v % 8 = k
  <2>1. (v \div 8) % 2 = b1
    BY SMT, <1>4, <1>5
  <2>2. (v \div 16) % 2 = b2
    BY SMT, <1>4, <1>5
  <2>3. (v \div 32) % 2 = b3
    BY SMT, <1>4, <1>5
  <2>4. (v \div 64) % 2 = b4
    BY SMT, <1>4, <1>5
  <2>5. (v \div 128) % 2 = c
    BY SMT, <1>4, <1>5
  <2>6. v % 8 = k
    BY SMT, <1>4, <1>5
  <2> QED
    BY <2>1, <2>2, <2>3, <2>4, <2>5, <2>6
<1>8. \A f \in DOMAIN m : Bit(v, m[f]) <=> f \in on
  BY <1>1, <1>5, <1>7 DEF Bit
<1>9. FlagsIn(v, m) = on \cap DOMAIN m
  BY <1>8 DEF FlagsIn
<1> QED
  BY <1>5, <1>6, <1>7, <1>9 DEF Octet, m, Bit

\* The second extended flags, with the type of the message.
LEMMA Ext2Byte ==
    ASSUME NEW on, NEW k \in 0..2, NEW v, v = 4 * k + FlagByte(on, Ext2Flags)
    PROVE  /\ v \in Octet
           /\ FlagsIn(v, Ext2Flags) = on \cap DOMAIN Ext2Flags
           /\ (v \div 4) % 8 = k
<1> DEFINE m == Ext2Flags
           s1 == {} \cup {"promoted"}
           s2 == s1 \cup {"chunk"}
<1>1. /\ m["chunk"] = 1 /\ m["promoted"] = 2
      /\ DOMAIN m = {"chunk", "promoted"}
  BY DEF Ext2Flags
<1> HIDE DEF m
<1>2. SumIs(m, on, s2, Mask(on, "chunk", 1) + (Mask(on, "promoted", 2) + 0))
  <2>1. SumIs(m, on, s1, Mask(on, "promoted", 2) + 0)
    BY <1>1, SumOfNone, SumMore
  <2> QED
    BY <1>1, <2>1, SumMore
<1>3. on \cap DOMAIN m = on \cap s2
  BY <1>1
<1> HIDE DEF s2
<1> DEFINE b1 == IF "chunk" \in on THEN 1 ELSE 0
           b2 == IF "promoted" \in on THEN 1 ELSE 0
<1>4. v = 4 * k + 1 * b1 + 2 * b2
  <2>1. FlagByte(on, m) = Mask(on, "chunk", 1) + (Mask(on, "promoted", 2) + 0)
    BY <1>2, <1>3 DEF FlagByte, SumIs
  <2>2. /\ Mask(on, "chunk", 1) = 1 * b1
        /\ Mask(on, "promoted", 2) = 2 * b2
    BY DEF Mask
  <2>4. b1 \in {0, 1} /\ b2 \in {0, 1}
    OBVIOUS
  <2>5. v = 4 * k + FlagByte(on, m)
    BY DEF m
  <2> HIDE DEF b1, b2
  <2> QED
    BY <2>1, <2>2, <2>4, <2>5
<1>5. /\ b1 \in {0, 1} /\ b2 \in {0, 1}
      /\ (b1 = 1 <=> "chunk" \in on) /\ (b2 = 1 <=> "promoted" \in on)
  OBVIOUS
<1> HIDE DEF b1, b2
<1>6. v \in 0..255
  BY <1>4, <1>5
<1>7. /\ (v \div 1) % 2 = b1
      /\ (v \div 2) % 2 = b2
      /\ (v \div 4) % 8 = k
  BY SMT, <1>4, <1>5
<1>8. \A f \in DOMAIN m : Bit(v, m[f]) <=> f \in on
  BY <1>1, <1>5, <1>7 DEF Bit
<1>9. FlagsIn(v, m) = on \cap DOMAIN m
  BY <1>8 DEF FlagsIn
<1> QED
  BY <1>5, <1>6, <1>7, <1>9 DEF Octet, m

\* The flags of the group header.
LEMMA GroupByte ==
    ASSUME NEW on, NEW v, v = FlagByte(on, GroupFlags)
    PROVE  /\ v \in Octet
           /\ FlagsIn(v, GroupFlags) = on \cap DOMAIN GroupFlags
<1> DEFINE m == GroupFlags
           s1 == {} \cup {"sequenceNumber"}
           s2 == s1 \cup {"nmNumber"}
           s3 == s2 \cup {"groupVersion"}
           s4 == s3 \cup {"writerGroupId"}
<1>1. /\ m["writerGroupId"] = 1 /\ m["groupVersion"] = 2 /\ m["nmNumber"] = 4 /\ m["sequenceNumber"] = 8
      /\ DOMAIN m = {"writerGroupId", "groupVersion", "nmNumber", "sequenceNumber"}
  BY DEF GroupFlags
<1> HIDE DEF m
<1>2. SumIs(m, on, s4, Mask(on, "writerGroupId", 1) + (Mask(on, "groupVersion", 2) + (Mask(on, "nmNumber", 4) + (Mask(on, "sequenceNumber", 8) + 0))))
  <2>1. SumIs(m, on, s1, Mask(on, "sequenceNumber", 8) + 0)
    BY <1>1, SumOfNone, SumMore
  <2>2. SumIs(m, on, s2, Mask(on, "nmNumber", 4) + (Mask(on, "sequenceNumber", 8) + 0))
    BY <1>1, <2>1, SumMore
  <2>3. SumIs(m, on, s3, Mask(on, "groupVersion", 2) + (Mask(on, "nmNumber", 4) + (Mask(on, "sequenceNumber", 8) + 0)))
    BY <1>1, <2>2, SumMore
  <2> QED
    BY <1>1, <2>3, SumMore
<1>3. on \cap DOMAIN m = on \cap s4
  BY <1>1
<1> HIDE DEF s4
<1> DEFINE b1 == IF "writerGroupId" \in on THEN 1 ELSE 0
           b2 == IF "groupVersion" \in on THEN 1 ELSE 0
           b3 == IF "nmNumber" \in on THEN 1 ELSE 0
           b4 == IF "sequenceNumber" \in on THEN 1 ELSE 0
<1>4. v = 1 * b1 + 2 * b2 + 4 * b3 + 8 * b4
  <2>1. FlagByte(on, m) = Mask(on, "writerGroupId", 1) + (Mask(on, "groupVersion", 2) + (Mask(on, "nmNumber", 4) + (Mask(on, "sequenceNumber", 8) + 0)))
    BY <1>2, <1>3 DEF FlagByte, SumIs
  <2>2. /\ Mask(on, "writerGroupId", 1) = 1 * b1
        /\ Mask(on, "groupVersion", 2) = 2 * b2
        /\ Mask(on, "nmNumber", 4) = 4 * b3
        /\ Mask(on, "sequenceNumber", 8) = 8 * b4
    BY DEF Mask
  <2>4. b1 \in {0, 1} /\ b2 \in {0, 1} /\ b3 \in {0, 1} /\ b4 \in {0, 1}
    OBVIOUS
  <2>5. v = FlagByte(on, m)
    BY DEF m
  <2> HIDE DEF b1, b2, b3, b4
  <2> QED
    BY <2>1, <2>2, <2>4, <2>5
<1>5. /\ b1 \in {0, 1} /\ b2 \in {0, 1} /\ b3 \in {0, 1} /\ b4 \in {0, 1}
      /\ (b1 = 1 <=> "writerGroupId" \in on) /\ (b2 = 1 <=> "groupVersion" \in on) /\ (b3 = 1 <=> "nmNumber" \in on) /\ (b4 = 1 <=> "sequenceNumber" \in on)
  OBVIOUS
<1> HIDE DEF b1, b2, b3, b4
<1>6. v \in 0..255
  BY <1>4, <1>5
<1>7. /\ (v \div 1) % 2 = b1
      /\ (v \div 2) % 2 = b2
      /\ (v \div 4) % 2 = b3
      /\ (v \div 8) % 2 = b4
  BY SMT, <1>4, <1>5
<1>8. \A f \in DOMAIN m : Bit(v, m[f]) <=> f \in on
  BY <1>1, <1>5, <1>7 DEF Bit
<1>9. FlagsIn(v, m) = on \cap DOMAIN m
  BY <1>8 DEF FlagsIn
<1> QED
  BY <1>5, <1>6, <1>7, <1>9 DEF Octet, m

\* The flags of the security header.
LEMMA SecurityByte ==
    ASSUME NEW on, NEW v, v = FlagByte(on, SecurityFlags)
    PROVE  /\ v \in Octet
           /\ FlagsIn(v, SecurityFlags) = on \cap DOMAIN SecurityFlags
<1> DEFINE m == SecurityFlags
           s1 == {} \cup {"forceKeyReset"}
           s2 == s1 \cup {"footer"}
           s3 == s2 \cup {"encrypted"}
           s4 == s3 \cup {"signed"}
<1>1. /\ m["signed"] = 1 /\ m["encrypted"] = 2 /\ m["footer"] = 4 /\ m["forceKeyReset"] = 8
      /\ DOMAIN m = {"signed", "encrypted", "footer", "forceKeyReset"}
  BY DEF SecurityFlags
<1> HIDE DEF m
<1>2. SumIs(m, on, s4, Mask(on, "signed", 1) + (Mask(on, "encrypted", 2) + (Mask(on, "footer", 4) + (Mask(on, "forceKeyReset", 8) + 0))))
  <2>1. SumIs(m, on, s1, Mask(on, "forceKeyReset", 8) + 0)
    BY <1>1, SumOfNone, SumMore
  <2>2. SumIs(m, on, s2, Mask(on, "footer", 4) + (Mask(on, "forceKeyReset", 8) + 0))
    BY <1>1, <2>1, SumMore
  <2>3. SumIs(m, on, s3, Mask(on, "encrypted", 2) + (Mask(on, "footer", 4) + (Mask(on, "forceKeyReset", 8) + 0)))
    BY <1>1, <2>2, SumMore
  <2> QED
    BY <1>1, <2>3, SumMore
<1>3. on \cap DOMAIN m = on \cap s4
  BY <1>1
<1> HIDE DEF s4
<1> DEFINE b1 == IF "signed" \in on THEN 1 ELSE 0
           b2 == IF "encrypted" \in on THEN 1 ELSE 0
           b3 == IF "footer" \in on THEN 1 ELSE 0
           b4 == IF "forceKeyReset" \in on THEN 1 ELSE 0
<1>4. v = 1 * b1 + 2 * b2 + 4 * b3 + 8 * b4
  <2>1. FlagByte(on, m) = Mask(on, "signed", 1) + (Mask(on, "encrypted", 2) + (Mask(on, "footer", 4) + (Mask(on, "forceKeyReset", 8) + 0)))
    BY <1>2, <1>3 DEF FlagByte, SumIs
  <2>2. /\ Mask(on, "signed", 1) = 1 * b1
        /\ Mask(on, "encrypted", 2) = 2 * b2
        /\ Mask(on, "footer", 4) = 4 * b3
        /\ Mask(on, "forceKeyReset", 8) = 8 * b4
    BY DEF Mask
  <2>4. b1 \in {0, 1} /\ b2 \in {0, 1} /\ b3 \in {0, 1} /\ b4 \in {0, 1}
    OBVIOUS
  <2>5. v = FlagByte(on, m)
    BY DEF m
  <2> HIDE DEF b1, b2, b3, b4
  <2> QED
    BY <2>1, <2>2, <2>4, <2>5
<1>5. /\ b1 \in {0, 1} /\ b2 \in {0, 1} /\ b3 \in {0, 1} /\ b4 \in {0, 1}
      /\ (b1 = 1 <=> "signed" \in on) /\ (b2 = 1 <=> "encrypted" \in on) /\ (b3 = 1 <=> "footer" \in on) /\ (b4 = 1 <=> "forceKeyReset" \in on)
  OBVIOUS
<1> HIDE DEF b1, b2, b3, b4
<1>6. v \in 0..255
  BY <1>4, <1>5
<1>7. /\ (v \div 1) % 2 = b1
      /\ (v \div 2) % 2 = b2
      /\ (v \div 4) % 2 = b3
      /\ (v \div 8) % 2 = b4
  BY SMT, <1>4, <1>5
<1>8. \A f \in DOMAIN m : Bit(v, m[f]) <=> f \in on
  BY <1>1, <1>5, <1>7 DEF Bit
<1>9. FlagsIn(v, m) = on \cap DOMAIN m
  BY <1>8 DEF FlagsIn
<1> QED
  BY <1>5, <1>6, <1>7, <1>9 DEF Octet, m

---------------------------------------------------------------------------
(* The bytes of a NetworkMessage. *)

\* The parts of a NetworkMessage, and their types.
LEMMA MessageHas ==
    ASSUME NEW m \in NetworkMessages
    PROVE  /\ m.on \subseteq AllFeatures /\ m.version \in 0..15 /\ m.pubType \in 0..4 /\ m.nmType \in 0..2
           /\ m.val \in [NMFields -> Nat]
           /\ m.pubString \in Seq(Octet) /\ m.nonce \in Seq(Octet) /\ m.footer \in Seq(Octet)
           /\ m.signature \in Seq(Octet) /\ m.ids \in Seq(Unsigned(2)) /\ m.sizes \in Seq(Unsigned(2))
           /\ m.promoted \in Seq({v \in Variants : ~v.arr}) /\ m.dsms \in Seq(DataSetMessages)
           /\ m.pubType # StringId => PublisherIdWidth(m.pubType) \in Widths
                                      /\ m.val["publisherId"] \in Unsigned(PublisherIdWidth(m.pubType))
           /\ m.val["tokenId"] \in Unsigned(4) /\ m.val["footerSize"] \in Unsigned(2)
           /\ Len(m.footer) = m.val["footerSize"]
           /\ Len(m.ids) \in Unsigned(1) /\ Len(m.nonce) \in Unsigned(1)
           /\ Len(m.pubString) \in Unsigned(4) /\ Len(m.signature) \in Unsigned(4)
           /\ DSMCount(m) <= Len(m.dsms) /\ DSMCount(m) \in Nat
           /\ m.sizes = <<>> \/ DSMCount(m) <= Len(m.sizes)
<1>1. /\ m.on \subseteq AllFeatures /\ m.version \in 0..15 /\ m.pubType \in 0..4 /\ m.nmType \in 0..2
      /\ m.val \in [NMFields -> Nat]
      /\ m.pubString \in Seq(Octet) /\ m.nonce \in Seq(Octet) /\ m.footer \in Seq(Octet)
      /\ m.signature \in Seq(Octet) /\ m.ids \in Seq(Unsigned(2)) /\ m.sizes \in Seq(Unsigned(2))
      /\ m.promoted \in Seq({v \in Variants : ~v.arr}) /\ m.dsms \in Seq(DataSetMessages)
      /\ m.val["publisherId"] \in
              Unsigned(IF m.pubType = StringId THEN 8 ELSE PublisherIdWidth(m.pubType))
      /\ m.val["tokenId"] \in Unsigned(4) /\ m.val["footerSize"] \in Unsigned(2)
      /\ Len(m.footer) = m.val["footerSize"]
      /\ Len(m.ids) \in Unsigned(1) /\ Len(m.nonce) \in Unsigned(1)
      /\ Len(m.pubString) \in Unsigned(4) /\ Len(m.signature) \in Unsigned(4)
      /\ DSMCount(m) <= Len(m.dsms)
      /\ m.sizes = <<>> \/ DSMCount(m) <= Len(m.sizes)
  BY DEF NetworkMessages, StringId
<1>2. PublisherIdWidth(m.pubType) \in Widths
  BY DEF PublisherIdWidth, Widths
<1>3. DSMCount(m) \in Nat
  BY <1>1 DEF DSMCount
<1> QED
  BY <1>1, <1>2, <1>3

\* The integers among the optional fields.
LEMMA NumbersFit ==
    ASSUME NEW m \in NetworkMessages
    PROVE  /\ m.val["classId"] \in Unsigned(16)
           /\ m.val["writerGroupId"] \in Unsigned(2) /\ m.val["groupVersion"] \in Unsigned(4)
           /\ m.val["nmNumber"] \in Unsigned(2) /\ m.val["sequenceNumber"] \in Unsigned(2)
           /\ m.val["timestamp"] \in Unsigned(8) /\ m.val["picoseconds"] \in Unsigned(2)
           /\ FieldsFit(m.val, ClassLayout) /\ FieldsFit(m.val, GroupLayout)
           /\ FieldsFit(m.val, StampLayout)
<1>1. FieldsFit(m.val, ClassLayout) /\ FieldsFit(m.val, GroupLayout) /\ FieldsFit(m.val, StampLayout)
  BY DEF NetworkMessages
<1>2. m.val["classId"] \in Unsigned(16)
  <2>1. 1 \in DOMAIN ClassLayout /\ ClassLayout[1][1] = "classId" /\ ClassLayout[1][2] = 16
    BY DEF ClassLayout
  <2> QED
    BY <1>1, <2>1 DEF FieldsFit
<1>3. /\ m.val["writerGroupId"] \in Unsigned(2) /\ m.val["groupVersion"] \in Unsigned(4)
      /\ m.val["nmNumber"] \in Unsigned(2) /\ m.val["sequenceNumber"] \in Unsigned(2)
  <2>1. /\ DOMAIN GroupLayout = 1..4
        /\ GroupLayout[1][1] = "writerGroupId" /\ GroupLayout[1][2] = 2
        /\ GroupLayout[2][1] = "groupVersion" /\ GroupLayout[2][2] = 4
        /\ GroupLayout[3][1] = "nmNumber" /\ GroupLayout[3][2] = 2
        /\ GroupLayout[4][1] = "sequenceNumber" /\ GroupLayout[4][2] = 2
    BY DEF GroupLayout
  <2>2. 1 \in 1..4 /\ 2 \in 1..4 /\ 3 \in 1..4 /\ 4 \in 1..4
    OBVIOUS
  <2> QED
    BY <1>1, <2>1, <2>2 DEF FieldsFit
<1>4. m.val["timestamp"] \in Unsigned(8) /\ m.val["picoseconds"] \in Unsigned(2)
  <2>1. /\ DOMAIN StampLayout = 1..2 /\ StampLayout[1][1] = "timestamp" /\ StampLayout[1][2] = 8
        /\ StampLayout[2][1] = "picoseconds" /\ StampLayout[2][2] = 2
    BY DEF StampLayout
  <2>2. 1 \in 1..2 /\ 2 \in 1..2
    OBVIOUS
  <2> QED
    BY <1>1, <2>1, <2>2 DEF FieldsFit
<1> QED
  BY <1>1, <1>2, <1>3, <1>4

\* The features that a message has stand in its flags.
LEMMA Features ==
    /\ DOMAIN NMFlags = {"publisherId", "groupHeader", "payloadHeader"}
    /\ DOMAIN Ext1Flags = {"classId", "security", "timestamp", "picoseconds"}
    /\ DOMAIN Ext2Flags = {"chunk", "promoted"}
    /\ DOMAIN GroupFlags = {"writerGroupId", "groupVersion", "nmNumber", "sequenceNumber"}
    /\ DOMAIN SecurityFlags = {"signed", "encrypted", "footer", "forceKeyReset"}
BY DEF NMFlags, Ext1Flags, Ext2Flags, GroupFlags, SecurityFlags

\* The three bytes of flags.
NMFlag(m)   == m.version + FlagByte(m.on, NMFlags) + (IF ExtendedFlags1Enabled(m) THEN 128 ELSE 0)
Ext1Flag(m) == m.pubType + FlagByte(m.on, Ext1Flags) + (IF ExtendedFlags2Enabled(m) THEN 128 ELSE 0)
Ext2Flag(m) == 4 * m.nmType + FlagByte(m.on, Ext2Flags)

\* The three flag bytes carry the flags, the version, the kind of publisher id and
\* the kind of message.
LEMMA MessageFlags ==
    ASSUME NEW m \in NetworkMessages
    PROVE  /\ NMFlag(m) \in Octet /\ FlagsIn(NMFlag(m), NMFlags) = m.on \cap DOMAIN NMFlags
           /\ NMFlag(m) % 16 = m.version /\ (Bit(NMFlag(m), 128) <=> ExtendedFlags1Enabled(m))
           /\ Ext1Flag(m) \in Octet /\ FlagsIn(Ext1Flag(m), Ext1Flags) = m.on \cap DOMAIN Ext1Flags
           /\ Ext1Flag(m) % 8 = m.pubType /\ (Bit(Ext1Flag(m), 128) <=> ExtendedFlags2Enabled(m))
           /\ Ext2Flag(m) \in Octet /\ FlagsIn(Ext2Flag(m), Ext2Flags) = m.on \cap DOMAIN Ext2Flags
           /\ (Ext2Flag(m) \div 4) % 8 = m.nmType
<1> DEFINE e1 == ExtendedFlags1Enabled(m)
           e2 == ExtendedFlags2Enabled(m)
           a == NMFlag(m)
           b == Ext1Flag(m)
<1>1. m.version \in 0..15 /\ m.pubType \in 0..4 /\ m.nmType \in 0..2
  BY MessageHas
<1>2. e1 \in BOOLEAN /\ e2 \in BOOLEAN
  BY DEF ExtendedFlags1Enabled, ExtendedFlags2Enabled
<1>3. a = m.version + FlagByte(m.on, NMFlags) + (IF e1 THEN 128 ELSE 0)
      /\ b = m.pubType + FlagByte(m.on, Ext1Flags) + (IF e2 THEN 128 ELSE 0)
  BY DEF NMFlag, Ext1Flag
<1> HIDE DEF e1, e2, a, b
<1>4. a \in Octet /\ FlagsIn(a, NMFlags) = m.on \cap DOMAIN NMFlags /\ a % 16 = m.version
      /\ (Bit(a, 128) <=> e1)
  BY <1>1, <1>2, <1>3, NMFlagsByte
<1>5. b \in Octet /\ FlagsIn(b, Ext1Flags) = m.on \cap DOMAIN Ext1Flags /\ b % 8 = m.pubType
      /\ (Bit(b, 128) <=> e2)
  BY <1>1, <1>2, <1>3, Ext1Byte
<1>6. Ext2Flag(m) \in Octet /\ FlagsIn(Ext2Flag(m), Ext2Flags) = m.on \cap DOMAIN Ext2Flags
      /\ (Ext2Flag(m) \div 4) % 8 = m.nmType
  BY <1>1, Ext2Byte DEF Ext2Flag
<1> QED
  BY <1>4, <1>5, <1>6 DEF e1, e2, a, b

\* The flags.
FlagsBytes(m) == <<NMFlag(m)>>
                 \o (IF ExtendedFlags1Enabled(m) THEN <<Ext1Flag(m)>> ELSE <<>>)
                 \o (IF ExtendedFlags2Enabled(m) THEN <<Ext2Flag(m)>> ELSE <<>>)
FlagsSize(m)  == 1 + (IF ExtendedFlags1Enabled(m) THEN 1 ELSE 0)
                   + (IF ExtendedFlags2Enabled(m) THEN 1 ELSE 0)

\* The flag bytes are written, as many as calcSize counts.
LEMMA FlagsPiece ==
    ASSUME NEW m \in NetworkMessages
    PROVE  Piece(FlagSegments(m), FlagsBytes(m), FlagsSize(m)) /\ FlagsSize(m) >= 1
<1> DEFINE e1 == ExtendedFlags1Enabled(m)
           e2 == ExtendedFlags2Enabled(m)
           s1 == IF e1 THEN Must(<<Ext1Flag(m)>>) ELSE <<>>
           s2 == IF e2 THEN Must(<<Ext2Flag(m)>>) ELSE <<>>
           b1 == IF e1 THEN <<Ext1Flag(m)>> ELSE <<>>
           b2 == IF e2 THEN <<Ext2Flag(m)>> ELSE <<>>
           n1 == IF e1 THEN 1 ELSE 0
           n2 == IF e2 THEN 1 ELSE 0
<1>1. /\ Piece(Must(<<NMFlag(m)>>), <<NMFlag(m)>>, 1)
      /\ Piece(Must(<<Ext1Flag(m)>>), <<Ext1Flag(m)>>, 1)
      /\ Piece(Must(<<Ext2Flag(m)>>), <<Ext2Flag(m)>>, 1)
  BY MessageFlags, OneByte, PieceMust
<1>2. Piece(s1, b1, n1)
  BY <1>1, PieceNone
<1>3. Piece(s2, b2, n2)
  BY <1>1, PieceNone
<1>4. /\ FlagSegments(m) = Must(<<NMFlag(m)>>) \o s1 \o s2
      /\ FlagsBytes(m) = <<NMFlag(m)>> \o b1 \o b2
      /\ FlagsSize(m) = 1 + n1 + n2 /\ n1 \in Nat /\ n2 \in Nat
  BY DEF FlagSegments, FlagsBytes, FlagsSize, NMFlag, Ext1Flag, Ext2Flag
<1> HIDE DEF s1, s2, b1, b2, n1, n2
<1>5. Piece(Must(<<NMFlag(m)>>) \o s1, <<NMFlag(m)>> \o b1, 1 + n1)
  BY <1>1, <1>2, PieceConcat
<1>6. Piece(FlagSegments(m), FlagsBytes(m), FlagsSize(m))
  BY <1>3, <1>4, <1>5, PieceConcat
<1> QED
  BY <1>4, <1>6

\* The publisher id.
PublisherBytes(m) == IF "publisherId" \notin m.on THEN <<>>
                     ELSE IF m.pubType = StringId THEN EncodeArray(m.pubString, 1)
                     ELSE LE(m.val["publisherId"], PublisherIdWidth(m.pubType))
PublisherSize(m)  == IF "publisherId" \notin m.on THEN 0
                     ELSE IF m.pubType = StringId THEN ArraySize(m.pubString, 1)
                     ELSE PublisherIdWidth(m.pubType)

\* A byte string with its length in front of it.
LEMMA StringBytes ==
    ASSUME NEW s \in Seq(Octet), Len(s) \in Unsigned(4)
    PROVE  /\ EncodeArray(s, 1) \in Seq(Octet) /\ Len(EncodeArray(s, 1)) = ArraySize(s, 1)
           /\ ArraySize(s, 1) \in Nat
<1>1. Len(s) \in Nat /\ 1 \in Widths /\ s \in Seq(Nat) /\ Octet \subseteq Nat
  <2>1. Octet \subseteq Nat
    BY DEF Octet
  <2>2. \A i \in 1..Len(s) : s[i] \in Nat
    <3>1. \A i \in 1..Len(s) : s[i] \in Octet
      OBVIOUS
    <3> QED
      BY <3>1, OctetRange
  <2> QED
    BY <2>1, <2>2 DEF Widths
<1>2. LE(Len(s), 4) \in Seq(Octet) /\ Len(LE(Len(s), 4)) = 4
  BY <1>1, LEType
<1>3. ElementBytes(s, 1) \in Seq(Octet) /\ Len(ElementBytes(s, 1)) = 1 * Len(s)
  BY <1>1, ElementsType
<1>4. EncodeArray(s, 1) \in Seq(Octet) /\ Len(EncodeArray(s, 1)) = 4 + 1 * Len(s)
  BY <1>1, <1>2, <1>3, OctetsConcat DEF EncodeArray
<1> QED
  BY <1>1, <1>4 DEF ArraySize

\* So is the publisher id, number or string.
LEMMA PublisherPiece ==
    ASSUME NEW m \in NetworkMessages
    PROVE  Piece(PublisherIdSegments(m), PublisherBytes(m), PublisherSize(m))
<1>1. CASE "publisherId" \notin m.on
  BY <1>1, PieceNone DEF PublisherIdSegments, PublisherBytes, PublisherSize
<1>2. CASE "publisherId" \in m.on /\ m.pubType = StringId
  <2>1. Piece(Must(EncodeArray(m.pubString, 1)), EncodeArray(m.pubString, 1),
              ArraySize(m.pubString, 1))
    BY MessageHas, StringBytes, PieceMust
  <2> QED
    BY <1>2, <2>1 DEF PublisherIdSegments, PublisherBytes, PublisherSize
<1>3. CASE "publisherId" \in m.on /\ m.pubType # StringId
  <2> DEFINE w == PublisherIdWidth(m.pubType)
  <2>1. w \in Widths /\ m.val["publisherId"] \in Unsigned(w)
    BY <1>3, MessageHas
  <2>2. PublisherIdSegments(m) = Field(m, "publisherId", w)
        /\ PublisherBytes(m) = OptionalBytes(m.on, m.val, "publisherId", w)
        /\ PublisherSize(m) = SizeIf(m, "publisherId", w)
    BY <1>3 DEF PublisherIdSegments, PublisherBytes, PublisherSize, OptionalBytes, SizeIf
  <2> HIDE DEF w
  <2> QED
    BY <2>1, <2>2, PieceField
<1> QED
  BY <1>1, <1>2, <1>3

\* The class id of the DataSet.
ClassTo(m)    == Fielded(<<>>, m.on, m.val, ClassLayout)
ClassBytes(m) == ClassTo(m)[1]

\* The optional fields of the headers, one by one.
LEMMA LayoutsAre ==
    /\ ClassLayout \in Seq(NMFields \X Widths) /\ Len(ClassLayout) = 1
    /\ GroupLayout \in Seq(NMFields \X Widths) /\ Len(GroupLayout) = 4
    /\ StampLayout \in Seq(NMFields \X Widths) /\ Len(StampLayout) = 2
    /\ ClassLayout[1] = <<"classId", 16>>
    /\ GroupLayout[1] = <<"writerGroupId", 2>> /\ GroupLayout[2] = <<"groupVersion", 4>>
    /\ GroupLayout[3] = <<"nmNumber", 2>> /\ GroupLayout[4] = <<"sequenceNumber", 2>>
    /\ StampLayout[1] = <<"timestamp", 8>> /\ StampLayout[2] = <<"picoseconds", 2>>
<1>1. ClassLayout \in Seq(NMFields \X Widths)
  BY DEF ClassLayout, NMFields, Widths
<1>2. GroupLayout \in Seq(NMFields \X Widths)
  BY DEF GroupLayout, NMFields, Widths
<1>3. StampLayout \in Seq(NMFields \X Widths)
  BY DEF StampLayout, NMFields, Widths
<1> QED
  BY <1>1, <1>2, <1>3 DEF ClassLayout, GroupLayout, StampLayout

\* The id of the DataSet class.
LEMMA ClassPiece ==
    ASSUME NEW m \in NetworkMessages
    PROVE  Piece(Field(m, "classId", 16), ClassBytes(m), SizeIf(m, "classId", 16))
<1>1. \A g : g = ClassTo(m) => g[1] = <<>> \o OptionalBytes(m.on, m.val, "classId", 16)
  <2> TAKE g
  <2> HAVE g = ClassTo(m)
  <2>1. FieldsFit(m.val, ClassLayout) /\ <<>> \in Seq(Octet) /\ ClassLayout \in Seq(NMFields \X Widths)
    BY NumbersFit, LayoutsAre
  <2>2. g = Fielded(<<>>, m.on, m.val, ClassLayout)
    BY DEF ClassTo
  <2>3. g[0] = <<>> /\ Grows(g, m.on, m.val, ClassLayout)
    BY <2>1, <2>2, FieldedMore
  <2>4. 1 \in 1..Len(ClassLayout) /\ 1 - 1 = 0 /\ ClassLayout[1] = <<"classId", 16>>
    BY LayoutsAre
  <2>5. g[1] = g[1 - 1] \o OptionalBytes(m.on, m.val, ClassLayout[1][1], ClassLayout[1][2])
    BY <2>3, <2>4 DEF Grows
  <2>6. ClassLayout[1][1] = "classId" /\ ClassLayout[1][2] = 16
    BY <2>4
  <2> QED
    BY <2>3, <2>4, <2>5, <2>6
<1>2. Piece(Field(m, "classId", 16), OptionalBytes(m.on, m.val, "classId", 16), SizeIf(m, "classId", 16))
  <2>1. 16 \in Widths /\ m.val["classId"] \in Unsigned(16)
    BY NumbersFit DEF Widths
  <2> QED
    BY <2>1, PieceField
<1>3. OptionalBytes(m.on, m.val, "classId", 16) \in Seq(Octet)
  BY <1>2, PieceType
<1>4. ClassBytes(m) = OptionalBytes(m.on, m.val, "classId", 16)
  BY <1>1, <1>3 DEF ClassBytes
<1> QED
  BY <1>2, <1>4

\* The group header.
GroupFlag(m)  == FlagByte(m.on, GroupFlags)
GroupTo(m)    == Fielded(<<GroupFlag(m)>>, m.on, m.val, GroupLayout)
GroupBytes(m) == IF "groupHeader" \in m.on THEN GroupTo(m)[4] ELSE <<>>
GroupSize(m)  == IF "groupHeader" \in m.on
                 THEN 1 + SizeIf(m, "writerGroupId", 2) + SizeIf(m, "groupVersion", 4)
                        + SizeIf(m, "nmNumber", 2) + SizeIf(m, "sequenceNumber", 2)
                 ELSE 0

\* The group header grows by one optional field after the other.
LEMMA GroupGrows ==
    ASSUME NEW m \in NetworkMessages, NEW g, g = GroupTo(m)
    PROVE  /\ g[0] = <<GroupFlag(m)>>
           /\ g[1] = g[0] \o OptionalBytes(m.on, m.val, "writerGroupId", 2)
           /\ g[2] = g[1] \o OptionalBytes(m.on, m.val, "groupVersion", 4)
           /\ g[3] = g[2] \o OptionalBytes(m.on, m.val, "nmNumber", 2)
           /\ g[4] = g[3] \o OptionalBytes(m.on, m.val, "sequenceNumber", 2)
           /\ GroupFlag(m) \in Octet /\ FlagsIn(GroupFlag(m), GroupFlags) = m.on \cap DOMAIN GroupFlags
<1>1. GroupFlag(m) \in Octet /\ FlagsIn(GroupFlag(m), GroupFlags) = m.on \cap DOMAIN GroupFlags
  BY GroupByte DEF GroupFlag
<1>2. /\ <<GroupFlag(m)>> \in Seq(Octet) /\ FieldsFit(m.val, GroupLayout)
      /\ GroupLayout \in Seq(NMFields \X Widths)
  BY <1>1, OneByte, NumbersFit, LayoutsAre
<1>3. g = Fielded(<<GroupFlag(m)>>, m.on, m.val, GroupLayout)
  BY DEF GroupTo
<1>4. g[0] = <<GroupFlag(m)>> /\ Grows(g, m.on, m.val, GroupLayout)
  BY <1>2, <1>3, FieldedMore
<1>5. g[1] = g[0] \o OptionalBytes(m.on, m.val, "writerGroupId", 2)
  <2>1. 1 \in 1..Len(GroupLayout) /\ GroupLayout[1] = <<"writerGroupId", 2>> /\ 1 - 1 = 0
    BY LayoutsAre
  <2>2. g[1] = g[1 - 1] \o OptionalBytes(m.on, m.val, GroupLayout[1][1], GroupLayout[1][2])
    BY <1>4, <2>1 DEF Grows
  <2>3. GroupLayout[1][1] = "writerGroupId" /\ GroupLayout[1][2] = 2
    BY <2>1
  <2> QED
    BY <2>1, <2>2, <2>3
<1>6. g[2] = g[1] \o OptionalBytes(m.on, m.val, "groupVersion", 4)
  <2>1. 2 \in 1..Len(GroupLayout) /\ GroupLayout[2] = <<"groupVersion", 4>> /\ 2 - 1 = 1
    BY LayoutsAre
  <2>2. g[2] = g[2 - 1] \o OptionalBytes(m.on, m.val, GroupLayout[2][1], GroupLayout[2][2])
    BY <1>4, <2>1 DEF Grows
  <2>3. GroupLayout[2][1] = "groupVersion" /\ GroupLayout[2][2] = 4
    BY <2>1
  <2> QED
    BY <2>1, <2>2, <2>3
<1>7. g[3] = g[2] \o OptionalBytes(m.on, m.val, "nmNumber", 2)
  <2>1. 3 \in 1..Len(GroupLayout) /\ GroupLayout[3] = <<"nmNumber", 2>> /\ 3 - 1 = 2
    BY LayoutsAre
  <2>2. g[3] = g[3 - 1] \o OptionalBytes(m.on, m.val, GroupLayout[3][1], GroupLayout[3][2])
    BY <1>4, <2>1 DEF Grows
  <2>3. GroupLayout[3][1] = "nmNumber" /\ GroupLayout[3][2] = 2
    BY <2>1
  <2> QED
    BY <2>1, <2>2, <2>3
<1>8. g[4] = g[3] \o OptionalBytes(m.on, m.val, "sequenceNumber", 2)
  <2>1. 4 \in 1..Len(GroupLayout) /\ GroupLayout[4] = <<"sequenceNumber", 2>> /\ 4 - 1 = 3
    BY LayoutsAre
  <2>2. g[4] = g[4 - 1] \o OptionalBytes(m.on, m.val, GroupLayout[4][1], GroupLayout[4][2])
    BY <1>4, <2>1 DEF Grows
  <2>3. GroupLayout[4][1] = "sequenceNumber" /\ GroupLayout[4][2] = 2
    BY <2>1
  <2> QED
    BY <2>1, <2>2, <2>3
<1> QED
  BY <1>1, <1>4, <1>5, <1>6, <1>7, <1>8

\* The group header is written, as many bytes as calcSize counts.
LEMMA GroupPiece ==
    ASSUME NEW m \in NetworkMessages
    PROVE  Piece(GroupSegments(m), GroupBytes(m), GroupSize(m))
<1> DEFINE g == GroupTo(m)
           p(f, w) == Field(m, f, w)
           z(f, w) == SizeIf(m, f, w)
           s0 == Must(<<GroupFlag(m)>>)
<1>1. /\ g[0] = <<GroupFlag(m)>>
      /\ g[1] = g[0] \o OptionalBytes(m.on, m.val, "writerGroupId", 2)
      /\ g[2] = g[1] \o OptionalBytes(m.on, m.val, "groupVersion", 4)
      /\ g[3] = g[2] \o OptionalBytes(m.on, m.val, "nmNumber", 2)
      /\ g[4] = g[3] \o OptionalBytes(m.on, m.val, "sequenceNumber", 2)
  BY GroupGrows
<1>2. Piece(s0, g[0], 1)
  BY <1>1, GroupGrows, OneByte, PieceMust
<1>3. /\ Piece(p("writerGroupId", 2), OptionalBytes(m.on, m.val, "writerGroupId", 2),
               z("writerGroupId", 2))
      /\ Piece(p("groupVersion", 4), OptionalBytes(m.on, m.val, "groupVersion", 4),
               z("groupVersion", 4))
      /\ Piece(p("nmNumber", 2), OptionalBytes(m.on, m.val, "nmNumber", 2), z("nmNumber", 2))
      /\ Piece(p("sequenceNumber", 2), OptionalBytes(m.on, m.val, "sequenceNumber", 2),
               z("sequenceNumber", 2))
  <2>1. 2 \in Widths /\ 4 \in Widths
    BY DEF Widths
  <2> QED
    BY <2>1, NumbersFit, PieceField
<1>4. "groupHeader" \in m.on =>
        /\ GroupSegments(m) = s0 \o p("writerGroupId", 2) \o p("groupVersion", 4)
                              \o p("nmNumber", 2) \o p("sequenceNumber", 2)
        /\ GroupSize(m) = 1 + z("writerGroupId", 2) + z("groupVersion", 4) + z("nmNumber", 2)
                          + z("sequenceNumber", 2)
        /\ GroupBytes(m) = g[4]
  BY DEF GroupSegments, GroupSize, GroupBytes, GroupFlag
<1>5. "groupHeader" \notin m.on =>
        GroupSegments(m) = <<>> /\ GroupSize(m) = 0 /\ GroupBytes(m) = <<>>
  BY DEF GroupSegments, GroupSize, GroupBytes
<1> HIDE DEF g, p, z, s0
<1>6. Piece(s0 \o p("writerGroupId", 2), g[1], 1 + z("writerGroupId", 2))
  BY <1>1, <1>2, <1>3, PieceConcat
<1>7. Piece(s0 \o p("writerGroupId", 2) \o p("groupVersion", 4), g[2],
            1 + z("writerGroupId", 2) + z("groupVersion", 4))
  BY <1>1, <1>3, <1>6, PieceConcat
<1>8. Piece(s0 \o p("writerGroupId", 2) \o p("groupVersion", 4) \o p("nmNumber", 2), g[3],
            1 + z("writerGroupId", 2) + z("groupVersion", 4) + z("nmNumber", 2))
  BY <1>1, <1>3, <1>7, PieceConcat
<1>9. Piece(s0 \o p("writerGroupId", 2) \o p("groupVersion", 4) \o p("nmNumber", 2)
                \o p("sequenceNumber", 2), g[4],
            1 + z("writerGroupId", 2) + z("groupVersion", 4) + z("nmNumber", 2)
                + z("sequenceNumber", 2))
  BY <1>1, <1>3, <1>8, PieceConcat
<1> QED
  BY <1>4, <1>5, <1>9, PieceNone

\* Numbers of w bytes, one after another.
NumbersBytes(s, n, w) == FlattenSeq([i \in 1..n |-> LE(s[i], w)])

\* A loop of writes of n numbers of w bytes.
LEMMA NumbersPiece ==
    ASSUME NEW n \in Nat, NEW w \in Widths, NEW s, \A i \in 1..n : s[i] \in Nat
    PROVE  /\ Piece(FlattenSeq([i \in 1..n |-> Must(LE(s[i], w))]), NumbersBytes(s, n, w), w * n)
           /\ [i \in 1..n |-> LE(s[i], w)] \in Seq(Seq(Octet))
<1> DEFINE t == [i \in 1..n |-> Must(LE(s[i], w))]
           b == [i \in 1..n |-> LE(s[i], w)]
           F == [i \in 1..n |-> w]
           S(k) == SumFunction([i \in 1..k |-> F[i]])
           G == [i \in Nat |-> w]
           R(k) == SumFunction([i \in 1..k |-> G[i]])
           T == {k \in Nat : R(k) = w * k}
<1>1. w \in Nat
  BY DEF Widths
<1>2. \A i \in 1..n : LE(s[i], w) \in Seq(Octet) /\ Len(LE(s[i], w)) = w
  BY <1>1, LEType
<1>3. \A i \in 1..n : Piece(Must(LE(s[i], w)), LE(s[i], w), w)
  BY <1>2, PieceMust
<1>4. \A i \in 1..n : Must(LE(s[i], w)) \in Seq(Segment)
  BY <1>3, PieceType
<1>5. /\ t \in Seq(Seq(Segment)) /\ b \in Seq(Seq(Octet)) /\ Len(t) = n /\ Len(b) = n
      /\ \A i \in 1..n : Piece(t[i], b[i], F[i])
  BY <1>2, <1>3, <1>4
<1>6. \A k \in Nat : R(k) = w * k
  <2>1. R(0) = 0
    BY SumEmpty
  <2>2. ASSUME NEW k \in Nat, R(k) = w * k
        PROVE  R(k + 1) = w * (k + 1)
    <3>1. \A i \in 1..(k + 1) : G[i] \in Nat
      BY <1>1
    <3>2. R(k + 1) = R(k) + G[k + 1] /\ G[k + 1] = w
      <4>1. G[k + 1] = w
        OBVIOUS
      <4> HIDE DEF G
      <4>2. R(k + 1) = R(k) + G[k + 1]
        BY <3>1, SumAppend
      <4> QED
        BY <4>1, <4>2
    <3> HIDE DEF R, G
    <3> QED
      BY <1>1, <2>2, <3>2
  <2> HIDE DEF R
  <2>3. 0 \in T /\ \A k \in Nat : k \in T => k + 1 \in T
    BY <1>1, <2>1, <2>2
  <2>4. \A k \in Nat : k \in T
    <3> HIDE DEF T
    <3> QED
      BY <2>3, Induction
  <2> QED
    BY <2>4
<1>7. SumFunction([i \in 1..n |-> F[i]]) = w * n
  <2>1. [i \in 1..n |-> F[i]] = [i \in 1..n |-> G[i]]
    OBVIOUS
  <2>2. R(n) = w * n
    BY <1>6
  <2> HIDE DEF F, G
  <2> QED
    BY <2>1, <2>2
<1> HIDE DEF t, b, F, G, R, T
<1>8. Piece(FlattenSeq(t), FlattenSeq(b), SumFunction([i \in 1..Len(t) |-> F[i]]))
  BY <1>5, PieceEach
<1>9. Piece(FlattenSeq(t), FlattenSeq(b), w * n)
  BY <1>5, <1>7, <1>8
<1> QED
  BY <1>5, <1>9 DEF t, b, NumbersBytes

\* The payload header.
NoWriters(m) == "payloadHeader" \in m.on /\ m.nmType = 0 /\ m.ids = <<>>

WriterBytes(m) == IF "payloadHeader" \in m.on
                  THEN <<Len(m.ids)>> \o NumbersBytes(m.ids, Len(m.ids), 2) ELSE <<>>
WriterSize(m)  == IF "payloadHeader" \in m.on /\ m.nmType = 0 THEN 1 + 2 * Len(m.ids) ELSE 0

\* The payload header; the encoder gives up when it has no writer.
LEMMA WriterPiece ==
    ASSUME NEW m \in NetworkMessages
    PROVE  /\ PayloadHeaderSegments(m) \in Seq(Segment) /\ WriterSize(m) \in Nat
           /\ NoWriters(m) => Halts(PayloadHeaderSegments(m))
           /\ ~NoWriters(m) /\ m.nmType = 0
                => Piece(PayloadHeaderSegments(m), WriterBytes(m), WriterSize(m))
<1> DEFINE n == Len(m.ids)
           c == Try(<<n>>, 0)
           ids == [i \in 1..n |-> Must(LE(m.ids[i], 2))]
           s == PayloadHeaderSegments(m)
<1>1. n \in Nat /\ n \in Octet /\ (\A i \in 1..n : m.ids[i] \in Nat) /\ (m.ids = <<>> <=> n = 0)
      /\ m.nmType \in 0..2
  <2>1. n \in Unsigned(1) /\ m.ids \in Seq(Unsigned(2)) /\ m.nmType \in 0..2
    BY MessageHas
  <2>2. Unsigned(1) = Octet /\ Unsigned(2) \subseteq Nat /\ Octet \subseteq Nat
    BY DEF Unsigned, Limit, Octet
  <2>3. \A i \in 1..n : m.ids[i] \in Unsigned(2)
    BY <2>1
  <2> QED
    BY <2>1, <2>2, <2>3
<1>2. Piece(c, <<n>>, 1) /\ c \in Seq(Segment)
  <2>1. <<n>> \in Seq(Octet) /\ Len(<<n>>) = 1
    BY <1>1, OneByte
  <2>2. Piece(c, <<n>>, 1)
    BY <2>1, PieceMust
  <2> HIDE DEF c
  <2> QED
    BY <2>2, PieceType
<1>3. Piece(FlattenSeq(ids), NumbersBytes(m.ids, n, 2), 2 * n)
  <2>1. 2 \in Widths
    BY DEF Widths
  <2> HIDE DEF n
  <2> QED
    BY <1>1, <2>1, NumbersPiece
<1>4. \A rv \in {"BadNotImplemented", "BadEncodingError"} : Halt(rv) \in Seq(Segment) /\ Halts(Halt(rv))
  BY HaltHalts DEF Codes
<1>5. /\ "payloadHeader" \notin m.on => s = <<>>
      /\ "payloadHeader" \in m.on /\ m.nmType # 0 => s = Halt("BadNotImplemented")
      /\ "payloadHeader" \in m.on /\ m.nmType = 0 /\ m.ids = <<>> => s = c \o Halt("BadEncodingError")
      /\ "payloadHeader" \in m.on /\ m.nmType = 0 /\ m.ids # <<>> => s = c \o FlattenSeq(ids)
  BY DEF PayloadHeaderSegments, Each
<1>6. "payloadHeader" \in m.on /\ m.nmType = 0
        => WriterBytes(m) = <<n>> \o NumbersBytes(m.ids, n, 2) /\ WriterSize(m) = 1 + 2 * n
  BY DEF WriterBytes, WriterSize
<1>7. "payloadHeader" \notin m.on => WriterBytes(m) = <<>> /\ WriterSize(m) = 0
  BY DEF WriterBytes, WriterSize
<1>8. WriterSize(m) \in Nat
  BY <1>1 DEF WriterSize
<1> HIDE DEF n, c, ids, s
<1>9. Piece(c \o FlattenSeq(ids), <<n>> \o NumbersBytes(m.ids, n, 2), 1 + 2 * n)
  BY <1>2, <1>3, PieceConcat
<1>10. c \o Halt("BadEncodingError") \in Seq(Segment) /\ Halts(c \o Halt("BadEncodingError"))
  BY <1>2, <1>4, PutsConcat
<1>11. CASE "payloadHeader" \notin m.on
  <2>1. s = <<>> /\ WriterBytes(m) = <<>> /\ WriterSize(m) = 0
    BY <1>5, <1>7, <1>11
  <2> QED
    BY <1>8, <1>11, <2>1, PieceNone, PutsNone DEF NoWriters, s
<1>12. CASE "payloadHeader" \in m.on /\ m.nmType # 0
  <2>1. s = Halt("BadNotImplemented")
    BY <1>5, <1>12
  <2> QED
    BY <1>4, <1>8, <1>12, <2>1 DEF NoWriters, s
<1>13. CASE "payloadHeader" \in m.on /\ m.nmType = 0 /\ m.ids = <<>>
  <2>1. s = c \o Halt("BadEncodingError")
    BY <1>5, <1>13
  <2>2. s \in Seq(Segment) /\ Halts(s)
    BY Zenon, <1>10, <2>1
  <2> QED
    BY <1>8, <1>13, <2>2 DEF NoWriters, s
<1>14. CASE "payloadHeader" \in m.on /\ m.nmType = 0 /\ m.ids # <<>>
  <2>1. s = c \o FlattenSeq(ids)
    BY <1>5, <1>14
  <2>2. Piece(s, WriterBytes(m), WriterSize(m))
    BY <1>6, <1>9, <1>14, <2>1
  <2>3. s \in Seq(Segment)
    BY <2>2, PieceType
  <2> QED
    BY <1>8, <1>14, <2>2, <2>3 DEF NoWriters, s
<1> QED
  BY <1>11, <1>12, <1>13, <1>14

\* The time stamps.
StampTo(m)    == Fielded(<<>>, m.on, m.val, StampLayout)
StampBytes(m) == StampTo(m)[2]
StampSize(m)  == SizeIf(m, "timestamp", 8) + SizeIf(m, "picoseconds", 2)
StampSegments(m) == (IF "timestamp" \in m.on THEN Try(LE(m.val["timestamp"], 8), 0) ELSE <<>>)
                    \o (IF "picoseconds" \in m.on THEN Try(LE(m.val["picoseconds"], 2), 0) ELSE <<>>)

\* The time stamps grow by one optional field after the other.
LEMMA StampGrows ==
    ASSUME NEW m \in NetworkMessages, NEW g, g = StampTo(m)
    PROVE  /\ g[0] = <<>>
           /\ g[1] = g[0] \o OptionalBytes(m.on, m.val, "timestamp", 8)
           /\ g[2] = g[1] \o OptionalBytes(m.on, m.val, "picoseconds", 2)
<1>2. /\ <<>> \in Seq(Octet) /\ FieldsFit(m.val, StampLayout)
      /\ StampLayout \in Seq(NMFields \X Widths)
  BY NumbersFit, LayoutsAre
<1>3. g = Fielded(<<>>, m.on, m.val, StampLayout)
  BY DEF StampTo
<1>4. g[0] = <<>> /\ Grows(g, m.on, m.val, StampLayout)
  BY <1>2, <1>3, FieldedMore
<1>5. g[1] = g[0] \o OptionalBytes(m.on, m.val, "timestamp", 8)
  <2>1. 1 \in 1..Len(StampLayout) /\ StampLayout[1] = <<"timestamp", 8>> /\ 1 - 1 = 0
    BY LayoutsAre
  <2>2. g[1] = g[1 - 1] \o OptionalBytes(m.on, m.val, StampLayout[1][1], StampLayout[1][2])
    BY <1>4, <2>1 DEF Grows
  <2>3. StampLayout[1][1] = "timestamp" /\ StampLayout[1][2] = 8
    BY <2>1
  <2> QED
    BY <2>1, <2>2, <2>3
<1>6. g[2] = g[1] \o OptionalBytes(m.on, m.val, "picoseconds", 2)
  <2>1. 2 \in 1..Len(StampLayout) /\ StampLayout[2] = <<"picoseconds", 2>> /\ 2 - 1 = 1
    BY LayoutsAre
  <2>2. g[2] = g[2 - 1] \o OptionalBytes(m.on, m.val, StampLayout[2][1], StampLayout[2][2])
    BY <1>4, <2>1 DEF Grows
  <2>3. StampLayout[2][1] = "picoseconds" /\ StampLayout[2][2] = 2
    BY <2>1
  <2> QED
    BY <2>1, <2>2, <2>3
<1> QED
  BY <1>4, <1>5, <1>6

\* An optional number whose statuscode is dropped.
LEMMA PieceTry ==
    ASSUME NEW on, NEW v, NEW f, NEW w \in Widths, v[f] \in Unsigned(w)
    PROVE  Piece(IF f \in on THEN Try(LE(v[f], w), 0) ELSE <<>>, OptionalBytes(on, v, f, w),
                 IF f \in on THEN w ELSE 0)
<1> DEFINE b == LE(v[f], w)
<1>1. b \in Seq(Octet) /\ Len(b) = w /\ w \in Nat
  <2>1. v[f] \in Nat /\ w \in Nat
    BY DEF Unsigned, Widths
  <2> QED
    BY <2>1, LEType
<1>2. OptionalBytes(on, v, f, w) = IF f \in on THEN b ELSE <<>>
  BY DEF OptionalBytes
<1> HIDE DEF b
<1>3. Piece(Try(b, 0), b, w)
  BY <1>1, PieceMust
<1> QED
  BY <1>2, <1>3, PieceNone DEF b

\* The time stamps are written, as many bytes as calcSize counts.
LEMMA StampPiece ==
    ASSUME NEW m \in NetworkMessages
    PROVE  Piece(StampSegments(m), StampBytes(m), StampSize(m))
<1> DEFINE o1 == OptionalBytes(m.on, m.val, "timestamp", 8)
           o2 == OptionalBytes(m.on, m.val, "picoseconds", 2)
           s1 == IF "timestamp" \in m.on THEN Try(LE(m.val["timestamp"], 8), 0) ELSE <<>>
           s2 == IF "picoseconds" \in m.on THEN Try(LE(m.val["picoseconds"], 2), 0) ELSE <<>>
           z1 == IF "timestamp" \in m.on THEN 8 ELSE 0
           z2 == IF "picoseconds" \in m.on THEN 2 ELSE 0
<1>1. 8 \in Widths /\ 2 \in Widths
  BY DEF Widths
<1>2. Piece(s1, o1, z1)
  BY <1>1, NumbersFit, PieceTry
<1>3. Piece(s2, o2, z2)
  BY <1>1, NumbersFit, PieceTry
<1>4. StampBytes(m) = o1 \o o2
  <2>1. \A g : g = StampTo(m) => g[2] = (<<>> \o o1) \o o2
    BY StampGrows
  <2>2. o1 \in Seq(Octet)
    BY <1>2, PieceType
  <2> HIDE DEF o1, o2
  <2>3. <<>> \o o1 = o1
    BY <2>2
  <2> QED
    BY <2>1, <2>3 DEF StampBytes
<1>5. StampSegments(m) = s1 \o s2 /\ StampSize(m) = z1 + z2
  BY DEF StampSegments, StampSize, SizeIf
<1> HIDE DEF o1, o2, s1, s2, z1, z2
<1> QED
  BY <1>2, <1>3, <1>4, <1>5, PieceConcat

\* The promoted fields.
PromotedSize(m)  == SumFunction([i \in 1..Len(m.promoted) |-> VariantSize(m.promoted[i])])
PromotedOf(m)    == [i \in 1..Len(m.promoted) |-> EncodeVariant(m.promoted[i])]
PromotedBytes(m) == IF "promoted" \in m.on
                    THEN LE(PromotedSize(m) % 65536, 2) \o FlattenSeq(PromotedOf(m)) ELSE <<>>
PromotedSegments(m) ==
    IF "promoted" \in m.on
    THEN Try(LE(PromotedSize(m) % 65536, 2), 0)
         \o FlattenSeq([i \in 1..Len(m.promoted) |-> Try(EncodeVariant(m.promoted[i]), 1)])
    ELSE <<>>

\* The promoted fields, behind the number of their bytes.
LEMMA PromotedPiece ==
    ASSUME NEW m \in NetworkMessages
    PROVE  /\ Piece(PromotedSegments(m), PromotedBytes(m),
                    IF "promoted" \in m.on THEN 2 + PromotedSize(m) ELSE 0)
           /\ PromotedOf(m) \in Seq(Seq(Octet)) /\ PromotedSize(m) \in Nat
           /\ Len(FlattenSeq(PromotedOf(m))) = PromotedSize(m)
<1> DEFINE n == Len(m.promoted)
           p == PromotedOf(m)
           t == [i \in 1..n |-> Try(EncodeVariant(m.promoted[i]), 1)]
           F == [i \in 1..n |-> VariantSize(m.promoted[i])]
           c == LE(PromotedSize(m) % 65536, 2)
<1>1. n \in Nat /\ \A i \in 1..n : m.promoted[i] \in Variants
  <2>1. m.promoted \in Seq({v \in Variants : ~v.arr})
    BY MessageHas
  <2> QED
    BY <2>1
<1>2. ASSUME NEW i \in 1..n
      PROVE  /\ EncodeVariant(m.promoted[i]) \in Seq(Octet)
             /\ Piece(Try(EncodeVariant(m.promoted[i]), 1), EncodeVariant(m.promoted[i]),
                      VariantSize(m.promoted[i]))
             /\ Try(EncodeVariant(m.promoted[i]), 1) \in Seq(Segment)
  <2> DEFINE b == EncodeVariant(m.promoted[i])
  <2>1. b \in Seq(Octet) /\ Len(b) = VariantSize(m.promoted[i])
    BY <1>1, VariantBytes
  <2> HIDE DEF b
  <2>2. Piece(Try(b, 1), b, VariantSize(m.promoted[i]))
    BY <2>1, PieceMust
  <2>3. Try(b, 1) \in Seq(Segment)
    BY <2>2, PieceType
  <2> QED
    BY <2>1, <2>2, <2>3 DEF b
<1>3. /\ t \in Seq(Seq(Segment)) /\ p \in Seq(Seq(Octet)) /\ Len(t) = n /\ Len(p) = n
      /\ \A i \in 1..n : Piece(t[i], p[i], F[i])
      /\ F = [i \in 1..n |-> F[i]]
  BY <1>1, <1>2 DEF PromotedOf
<1>4. PromotedSize(m) = SumFunction(F)
  BY DEF PromotedSize
<1>5. PromotedSegments(m) = IF "promoted" \in m.on THEN Try(c, 0) \o FlattenSeq(t) ELSE <<>>
  BY DEF PromotedSegments
<1>6. PromotedBytes(m) = IF "promoted" \in m.on THEN c \o FlattenSeq(p) ELSE <<>>
  BY DEF PromotedBytes
<1> HIDE DEF n, p, t, F
<1>7. Piece(FlattenSeq(t), FlattenSeq(p), SumFunction([i \in 1..Len(t) |-> F[i]]))
  BY <1>3, PieceEach
<1>8. SumFunction([i \in 1..Len(t) |-> F[i]]) = PromotedSize(m)
  BY <1>3, <1>4
<1>9. Piece(FlattenSeq(t), FlattenSeq(p), PromotedSize(m))
  BY Zenon, <1>7, <1>8
<1>10. PromotedSize(m) \in Nat /\ Len(FlattenSeq(p)) = PromotedSize(m)
  BY <1>9, PieceType
<1>11. c \in Seq(Octet) /\ Len(c) = 2
  <2> DEFINE x == PromotedSize(m) % 65536
  <2>1. x \in Nat
    BY <1>10
  <2> HIDE DEF x
  <2>2. LE(x, 2) \in Seq(Octet) /\ Len(LE(x, 2)) = 2
    BY <2>1, LEType
  <2> QED
    BY <2>2 DEF x
<1> HIDE DEF c
<1>12. Piece(Try(c, 0) \o FlattenSeq(t), c \o FlattenSeq(p), 2 + PromotedSize(m))
  <2>1. Piece(Try(c, 0), c, 2)
    BY <1>11, PieceMust
  <2> QED
    BY <1>9, <2>1, PieceConcat
<1>13. Piece(PromotedSegments(m), PromotedBytes(m),
             IF "promoted" \in m.on THEN 2 + PromotedSize(m) ELSE 0)
  BY <1>5, <1>6, <1>12, PieceNone
<1> QED
  BY <1>3, <1>10, <1>13 DEF p

\* The security header.
SecurityFlag(m)  == FlagByte(m.on, SecurityFlags)
SecurityBytes(m) ==
    IF "security" \notin m.on THEN <<>>
    ELSE <<SecurityFlag(m)>> \o LE(m.val["tokenId"], 4) \o <<Len(m.nonce)>> \o m.nonce
         \o (IF "footer" \in m.on THEN LE(m.val["footerSize"], 2) ELSE <<>>)
SecurityHeaderSize(m) == IF "security" \in m.on
                         THEN 1 + 4 + 1 + Len(m.nonce) + (IF "footer" \in m.on THEN 2 ELSE 0) ELSE 0

\* The security header.
LEMMA SecurityPiece ==
    ASSUME NEW m \in NetworkMessages
    PROVE  /\ Piece(SecurityHeaderSegments(m), SecurityBytes(m), SecurityHeaderSize(m))
           /\ SecurityFlag(m) \in Octet
           /\ FlagsIn(SecurityFlag(m), SecurityFlags) = m.on \cap DOMAIN SecurityFlags
           /\ Len(m.nonce) \in Octet
<1> DEFINE b1 == <<SecurityFlag(m)>>
           b2 == LE(m.val["tokenId"], 4)
           b3 == <<Len(m.nonce)>>
           b4 == m.nonce
           b5 == IF "footer" \in m.on THEN LE(m.val["footerSize"], 2) ELSE <<>>
           s5 == IF "footer" \in m.on THEN Must(LE(m.val["footerSize"], 2)) ELSE <<>>
           n5 == IF "footer" \in m.on THEN 2 ELSE 0
           n4 == Len(m.nonce)
<1>1. SecurityFlag(m) \in Octet /\ FlagsIn(SecurityFlag(m), SecurityFlags) = m.on \cap DOMAIN SecurityFlags
  BY SecurityByte DEF SecurityFlag
<1>2. n4 \in Octet
  <2>1. n4 \in Unsigned(1)
    BY MessageHas
  <2>2. Unsigned(1) \subseteq Octet
    BY DEF Unsigned, Limit, Octet
  <2> QED
    BY <2>1, <2>2
<1>3. Piece(Must(b1), b1, 1)
  BY <1>1, OneByte, PieceMust
<1>4. Piece(Must(b2), b2, 4)
  <2>1. m.val["tokenId"] \in Nat
    BY MessageHas DEF Unsigned
  <2>2. b2 \in Seq(Octet) /\ Len(b2) = 4
    BY <2>1, LEType
  <2> HIDE DEF b2
  <2> QED
    BY <2>2, PieceMust
<1>5. Piece(Must(b3), b3, 1)
  BY <1>2, OneByte, PieceMust
<1>6. Piece(Must(b4), b4, n4)
  BY MessageHas, PieceMust
<1>7. Piece(s5, b5, n5)
  <2> DEFINE b == LE(m.val["footerSize"], 2)
  <2>1. m.val["footerSize"] \in Nat
    BY MessageHas DEF Unsigned
  <2>2. b \in Seq(Octet) /\ Len(b) = 2
    BY <2>1, LEType
  <2> HIDE DEF b
  <2>3. Piece(Must(b), b, 2)
    BY <2>2, PieceMust
  <2> QED
    BY <2>3, PieceNone DEF b
<1>8. "security" \in m.on =>
        /\ SecurityHeaderSegments(m) = Must(b1) \o Must(b2) \o Must(b3) \o Must(b4) \o s5
        /\ SecurityBytes(m) = b1 \o b2 \o b3 \o b4 \o b5
        /\ SecurityHeaderSize(m) = 1 + 4 + 1 + n4 + n5
  BY DEF SecurityHeaderSegments, SecurityBytes, SecurityHeaderSize, SecurityFlag
<1>9. "security" \notin m.on =>
        SecurityHeaderSegments(m) = <<>> /\ SecurityBytes(m) = <<>> /\ SecurityHeaderSize(m) = 0
  BY DEF SecurityHeaderSegments, SecurityBytes, SecurityHeaderSize
<1> HIDE DEF b1, b2, b3, b4, b5, s5, n5, n4
<1>10. Piece(Must(b1) \o Must(b2), b1 \o b2, 1 + 4)
  BY <1>3, <1>4, PieceConcat
<1>11. Piece(Must(b1) \o Must(b2) \o Must(b3), b1 \o b2 \o b3, 1 + 4 + 1)
  BY <1>5, <1>10, PieceConcat
<1>12. Piece(Must(b1) \o Must(b2) \o Must(b3) \o Must(b4), b1 \o b2 \o b3 \o b4, 1 + 4 + 1 + n4)
  BY <1>6, <1>11, PieceConcat
<1>13. Piece(Must(b1) \o Must(b2) \o Must(b3) \o Must(b4) \o s5, b1 \o b2 \o b3 \o b4 \o b5,
             1 + 4 + 1 + n4 + n5)
  BY <1>7, <1>12, PieceConcat
<1>14. Piece(SecurityHeaderSegments(m), SecurityBytes(m), SecurityHeaderSize(m))
  BY <1>8, <1>9, <1>13, PieceNone
<1> QED
  BY <1>1, <1>2, <1>14 DEF n4

\* The payload: a table of sizes when there is more than one DataSetMessage, and
\* the DataSetMessages.
SizeAt(m, i)  == IF m.sizes # <<>> /\ m.sizes[i] # 0 THEN m.sizes[i] ELSE DSMSize(m.dsms[i]) % 65536
TableOf(m)    == [i \in 1..DSMCount(m) |-> SizeAt(m, i)]
TableBytes(m) == IF DSMCount(m) > 1 THEN NumbersBytes(TableOf(m), DSMCount(m), 2) ELSE <<>>
DSMsOf(m)     == [i \in 1..DSMCount(m) |-> DSMBytes(m.dsms[i])]
PayloadBytes(m) == TableBytes(m) \o FlattenSeq(DSMsOf(m))

AllEncodable(m) == \A i \in 1..DSMCount(m) : Encodable(m.dsms[i])

\* The sizes in the table are numbers of two bytes.
LEMMA SizesFit ==
    ASSUME NEW m \in NetworkMessages, NEW i \in 1..DSMCount(m)
    PROVE  m.dsms[i] \in DataSetMessages /\ SizeAt(m, i) \in Unsigned(2)
<1>1. m.dsms[i] \in DataSetMessages
  <2>1. m.dsms \in Seq(DataSetMessages) /\ DSMCount(m) <= Len(m.dsms) /\ DSMCount(m) \in Nat
    BY MessageHas
  <2> QED
    BY <2>1
<1>2. DSMSize(m.dsms[i]) % 65536 \in Unsigned(2)
  <2> DEFINE n == DSMSize(m.dsms[i])
  <2>1. n \in Nat
    BY <1>1, DSMPiece
  <2> HIDE DEF n
  <2>2. n % 65536 \in Nat /\ n % 65536 < 65536
    BY SMT, <2>1
  <2>3. n % 65536 \in Unsigned(2)
    BY <2>2 DEF Unsigned, Limit
  <2> QED
    BY <2>3 DEF n
<1>3. m.sizes # <<>> => m.sizes[i] \in Unsigned(2)
  <2>1. m.sizes \in Seq(Unsigned(2)) /\ (m.sizes = <<>> \/ DSMCount(m) <= Len(m.sizes)) /\ DSMCount(m) \in Nat
    BY MessageHas
  <2> QED
    BY <2>1
<1> QED
  BY <1>1, <1>2, <1>3 DEF SizeAt

\* The payload is written, as many bytes as calcSize counts; the encoder gives up
\* on a message that is no DataSet message, or holds one it does not implement.
LEMMA PayloadPiece ==
    ASSUME NEW m \in NetworkMessages
    PROVE  /\ PayloadSegments(m) \in Seq(Segment) /\ PayloadSize(m) \in Nat
           /\ m.nmType # 0 \/ ~AllEncodable(m) => Halts(PayloadSegments(m))
           /\ m.nmType = 0 /\ AllEncodable(m)
                => /\ Piece(PayloadSegments(m), PayloadBytes(m), PayloadSize(m))
                   /\ DSMsOf(m) \in Seq(Seq(Octet)) /\ Len(DSMsOf(m)) = DSMCount(m)
<1> DEFINE n == DSMCount(m)
           s == PayloadSegments(m)
           sizes == [i \in 1..n |-> Must(LE(TableOf(m)[i], 2))]
           raw == [i \in 1..n |-> Must(LE((IF m.sizes # <<>> /\ m.sizes[i] # 0 THEN m.sizes[i]
                                           ELSE DSMSize(m.dsms[i]) % 65536), 2))]
           d == [i \in 1..n |-> DSMSegments(m.dsms[i])]
           b == DSMsOf(m)
           F == [i \in 1..n |-> DSMSize(m.dsms[i])]
           t == IF n > 1 THEN FlattenSeq(sizes) ELSE <<>>
           z == IF n > 1 THEN 2 * n ELSE 0
<1>1. n \in Nat /\ \A i \in 1..n : m.dsms[i] \in DataSetMessages /\ SizeAt(m, i) \in Unsigned(2)
  BY MessageHas, SizesFit
<1>2. raw = sizes
  BY DEF TableOf, SizeAt
<1>3. m.nmType = 0 => s = (IF n > 1 THEN FlattenSeq(raw) ELSE <<>>) \o FlattenSeq(d)
  BY DEF PayloadSegments, Each
<1>4. m.nmType # 0 => s = Halt("BadNotImplemented")
  BY DEF PayloadSegments
<1>5. PayloadSize(m) = IF m.nmType = 0 THEN z + SumFunction(F) ELSE 0
  BY DEF PayloadSize, SumOf
<1>6. Piece(t, TableBytes(m), z)
  <2>1. \A i \in 1..n : TableOf(m)[i] \in Nat
    BY <1>1 DEF TableOf, Unsigned
  <2>2. 2 \in Widths
    BY DEF Widths
  <2> HIDE DEF n
  <2>3. Piece(FlattenSeq(sizes), NumbersBytes(TableOf(m), n, 2), 2 * n)
    BY <1>1, <2>1, <2>2, NumbersPiece
  <2>4. TableBytes(m) = IF n > 1 THEN NumbersBytes(TableOf(m), n, 2) ELSE <<>>
    BY DEF TableBytes, n
  <2> HIDE DEF sizes
  <2> QED
    BY <2>3, <2>4, PieceNone
<1>7. ASSUME NEW i \in 1..n
      PROVE  /\ d[i] \in Seq(Segment) /\ F[i] \in Nat
             /\ Encodable(m.dsms[i]) => Piece(d[i], b[i], F[i])
             /\ ~Encodable(m.dsms[i]) => Halts(d[i])
  BY <1>1, DSMPiece DEF DSMsOf
<1>8. d \in Seq(Seq(Segment)) /\ Len(d) = n /\ F = [i \in 1..n |-> F[i]]
  <2>1. \A i \in 1..n : DSMSegments(m.dsms[i]) \in Seq(Segment)
    BY <1>1, DSMPiece
  <2> QED
    BY <1>1, <2>1
<1>9. AllEncodable(m) => b \in Seq(Seq(Octet)) /\ Len(b) = n
  <2>1. AllEncodable(m) => \A i \in 1..n : DSMBytes(m.dsms[i]) \in Seq(Octet)
    <3> SUFFICES ASSUME AllEncodable(m), NEW i \in 1..n
                 PROVE  DSMBytes(m.dsms[i]) \in Seq(Octet)
      OBVIOUS
    <3>1. Piece(DSMSegments(m.dsms[i]), DSMBytes(m.dsms[i]), DSMSize(m.dsms[i]))
      BY <1>1, DSMPiece DEF AllEncodable
    <3> QED
      BY <3>1, PieceType
  <2> QED
    BY <1>1, <2>1 DEF DSMsOf
<1>10. Halt("BadNotImplemented") \in Seq(Segment) /\ Halts(Halt("BadNotImplemented"))
  BY HaltHalts DEF Codes
<1>11. PayloadBytes(m) = TableBytes(m) \o FlattenSeq(b)
  BY DEF PayloadBytes
<1>12. AllEncodable(m) <=> \A i \in 1..n : Encodable(m.dsms[i])
  BY DEF AllEncodable
<1>13. t = IF n > 1 THEN FlattenSeq(raw) ELSE <<>>
  <2> HIDE DEF n, raw, sizes
  <2> QED
    BY <1>2
<1>14. z \in Nat /\ SumFunction(F) \in Nat
  <2>1. z \in Nat
    BY <1>1
  <2>2. SumFunction(F) = SumFunctionOnSet(F, 1..n)
    BY DEF SumFunction
  <2>3. IsFiniteSet(1..n)
    BY <1>1, FS_Interval
  <2>4. \A i \in 1..n : F[i] \in Nat
    BY <1>7
  <2> HIDE DEF F, n
  <2>5. SumFunctionOnSet(F, 1..n) \in Nat
    BY <2>3, <2>4, SumType
  <2> QED
    BY <2>1, <2>2, <2>5
<1> HIDE DEF n, s, sizes, raw, d, b, F, t, z
<1>15. t \in Seq(Segment) /\ FlattenSeq(d) \in Seq(Segment)
       /\ (Halts(FlattenSeq(d)) <=> \E i \in 1..n : Halts(d[i]))
  BY <1>6, <1>8, PieceType, PutsEach
<1>16. CASE m.nmType # 0
  BY <1>4, <1>5, <1>10, <1>16 DEF s
<1>17. CASE m.nmType = 0
  <2>1. s = t \o FlattenSeq(d) /\ PayloadSize(m) = z + SumFunction(F)
    BY <1>3, <1>5, <1>13, <1>17
  <2>2. s \in Seq(Segment)
    BY <1>15, <2>1, PutsConcat
  <2>3. PayloadSize(m) \in Nat
    BY <1>14, <2>1
  <2>4. CASE AllEncodable(m)
    <3>1. \A i \in 1..n : Piece(d[i], b[i], F[i])
      BY <1>7, <1>12, <2>4
    <3>2. Piece(FlattenSeq(d), FlattenSeq(b), SumFunction([i \in 1..Len(d) |-> F[i]]))
      BY <1>8, <1>9, <2>4, <3>1, PieceEach
    <3>3. Piece(FlattenSeq(d), FlattenSeq(b), SumFunction(F))
      BY <1>8, <3>2
    <3>4. Piece(t \o FlattenSeq(d), TableBytes(m) \o FlattenSeq(b), z + SumFunction(F))
      BY <1>6, <3>3, PieceConcat
    <3>5. Piece(s, PayloadBytes(m), PayloadSize(m))
      BY <1>11, <2>1, <3>4
    <3> QED
      BY <1>9, <1>17, <2>2, <2>3, <2>4, <3>5 DEF s, b, n
  <2>5. CASE ~AllEncodable(m)
    <3>1. Halts(FlattenSeq(d))
      BY <1>7, <1>12, <1>15, <2>5
    <3>2. Halts(s)
      BY <1>15, <2>1, <3>1, PutsConcat
    <3> QED
      BY <2>2, <2>3, <2>5, <3>2 DEF s
  <2> QED
    BY <2>4, <2>5
<1> QED
  BY <1>16, <1>17

\* The trailer: the footer and the signature.
EndlessFooter(m) == {"security", "footer"} \subseteq m.on /\ ~ (m.val["footerSize"] < 256)
TrailerBytes(m) == (IF {"security", "footer"} \subseteq m.on THEN m.footer ELSE <<>>)
                   \o (IF {"security", "signed"} \subseteq m.on THEN EncodeArray(m.signature, 1) ELSE <<>>)
TrailerSize(m)  == (IF {"security", "footer"} \subseteq m.on THEN m.val["footerSize"] ELSE 0)
                   + (IF {"security", "signed"} \subseteq m.on THEN ArraySize(m.signature, 1) ELSE 0)

\* What the encoder writes behind the payload, and where it gives up.
LEMMA TrailerPiece ==
    ASSUME NEW m \in NetworkMessages
    PROVE  /\ TrailerSegments(m) \in Seq(Segment) /\ TrailerSize(m) \in Nat
           /\ EndlessFooter(m) => Halts(TrailerSegments(m))
           /\ ~EndlessFooter(m) => Piece(TrailerSegments(m), TrailerBytes(m), TrailerSize(m))
<1> DEFINE foot == {"security", "footer"} \subseteq m.on
           sign == {"security", "signed"} \subseteq m.on
           short == m.val["footerSize"] < 256
           f == IF short THEN Must(m.footer) ELSE Halt("BadEncodingError")
           fs == IF foot THEN f ELSE <<>>
           fb == IF foot THEN m.footer ELSE <<>>
           fn == IF foot THEN m.val["footerSize"] ELSE 0
           e == EncodeArray(m.signature, 1)
           en == ArraySize(m.signature, 1)
           ss == IF sign THEN Must(e) ELSE <<>>
           sb == IF sign THEN e ELSE <<>>
           sn == IF sign THEN en ELSE 0
<1>1. m.footer \in Seq(Octet) /\ Len(m.footer) = m.val["footerSize"] /\ m.val["footerSize"] \in Nat
  BY MessageHas DEF Unsigned
<1>2. e \in Seq(Octet) /\ Len(e) = en /\ en \in Nat
  BY MessageHas, StringBytes
<1>3. TrailerSegments(m) = fs \o ss
  BY DEF TrailerSegments
<1>4. TrailerBytes(m) = fb \o sb /\ TrailerSize(m) = fn + sn
  BY DEF TrailerBytes, TrailerSize
<1>5. EndlessFooter(m) <=> foot /\ ~short
  BY DEF EndlessFooter
<1>6. foot \in BOOLEAN /\ sign \in BOOLEAN /\ short \in BOOLEAN
  OBVIOUS
<1>7. Halt("BadEncodingError") \in Seq(Segment) /\ Halts(Halt("BadEncodingError"))
  BY HaltHalts DEF Codes
<1> HIDE DEF e, en
<1>8. Piece(ss, sb, sn)
  <2>1. Piece(Must(e), e, en)
    BY <1>2, PieceMust
  <2> HIDE DEF sign
  <2> QED
    BY <2>1, PieceNone
<1>9. Piece(Must(m.footer), m.footer, m.val["footerSize"])
  BY <1>1, PieceMust
<1> HIDE DEF foot, sign, short
<1>10. fn + sn \in Nat
  <2>1. fn \in Nat
    BY <1>1
  <2>2. sn \in Nat
    BY <1>2
  <2> QED
    BY <2>1, <2>2
<1>11. CASE foot /\ ~short
  <2>1. fs = Halt("BadEncodingError")
    BY <1>11
  <2> HIDE DEF fs, ss, sb, sn
  <2>2. ss \in Seq(Segment)
    BY <1>8, PieceType
  <2>3. fs \in Seq(Segment) /\ Halts(fs)
    BY <1>7, <2>1
  <2>4. fs \o ss \in Seq(Segment) /\ Halts(fs \o ss)
    BY <2>2, <2>3, PutsConcat
  <2> QED
    BY <1>3, <1>4, <1>5, <1>10, <1>11, <2>4
<1>12. CASE ~(foot /\ ~short)
  <2>1. Piece(fs, fb, fn)
    BY <1>6, <1>9, <1>12, PieceNone
  <2> HIDE DEF fs, fb, fn, ss, sb, sn
  <2>2. Piece(fs \o ss, fb \o sb, fn + sn)
    BY <1>8, <2>1, PieceConcat
  <2>3. fs \o ss \in Seq(Segment)
    BY <2>2, PieceType
  <2> QED
    BY <1>3, <1>4, <1>5, <1>10, <1>12, <2>2, <2>3
<1> QED
  BY <1>11, <1>12

\* The whole message.
MessageBytes(m) ==
    FlagsBytes(m) \o PublisherBytes(m) \o ClassBytes(m) \o GroupBytes(m) \o WriterBytes(m)
    \o StampBytes(m) \o PromotedBytes(m) \o SecurityBytes(m) \o PayloadBytes(m) \o TrailerBytes(m)

Sendable(m) == m.nmType = 0 /\ ~NoWriters(m) /\ AllEncodable(m) /\ ~EndlessFooter(m)

\* The segments of the extended header are those of the time and those of the
\* promoted fields.
LEMMA ExtendedIs ==
    ASSUME NEW m \in NetworkMessages
    PROVE  ExtendedHeaderSegments(m) = StampSegments(m) \o PromotedSegments(m)
<1> DEFINE t == IF "timestamp" \in m.on THEN Try(LE(m.val["timestamp"], 8), 0) ELSE <<>>
           p == IF "picoseconds" \in m.on THEN Try(LE(m.val["picoseconds"], 2), 0) ELSE <<>>
           q == PromotedSegments(m)
           z == SumFunction([i \in 1..Len(m.promoted) |-> VariantSize(m.promoted[i])])
           g == FlattenSeq([i \in 1..Len(m.promoted) |-> Try(EncodeVariant(m.promoted[i]), 1)])
           r == Try(LE(z % 65536, 2), 0) \o g
           u == IF "promoted" \notin m.on THEN <<>> ELSE r
<1>0. ExtendedHeaderSegments(m) = t \o p \o u
  BY DEF ExtendedHeaderSegments, Each, SumOf
<1> HIDE DEF t, p
<1>1. ExtendedHeaderSegments(m) = t \o p \o q
  <2>1. q = IF "promoted" \in m.on THEN r ELSE <<>>
    BY DEF PromotedSegments, PromotedSize
  <2> HIDE DEF r, q
  <2>2. u = q
    BY <2>1
  <2> HIDE DEF u
  <2> QED
    BY <1>0, <2>2
<1>2. StampSegments(m) = t \o p
  BY DEF StampSegments, t, p
<1> QED
  BY <1>1, <1>2

\* calcSize is the sum of the sizes of the parts.
LEMMA CalcSizeIs ==
    ASSUME NEW m \in NetworkMessages, ~NoWriters(m)
    PROVE  CalcSize(m) = FlagsSize(m) + PublisherSize(m) + SizeIf(m, "classId", 16) + GroupSize(m)
                         + WriterSize(m) + StampSize(m)
                         + (IF "promoted" \in m.on THEN 2 + PromotedSize(m) ELSE 0)
                         + SecurityHeaderSize(m) + PayloadSize(m) + TrailerSize(m)
<1> DEFINE f1 == IF ExtendedFlags1Enabled(m) THEN 1 ELSE 0
           f2 == IF ExtendedFlags2Enabled(m) THEN 1 ELSE 0
           pub == PublisherSize(m)
           cls == SizeIf(m, "classId", 16)
           grp == GroupSize(m)
           wri == WriterSize(m)
           ts == SizeIf(m, "timestamp", 8)
           ps == SizeIf(m, "picoseconds", 2)
           pro == IF "promoted" \in m.on THEN 2 + PromotedSize(m) ELSE 0
           pay == PayloadSize(m)
           sec == SecuritySize(m)
           hd == SecurityHeaderSize(m)
           tr == TrailerSize(m)
<1>1. CalcSize(m) = 1 + f1 + f2 + pub + cls + grp + wri + ts + ps + pro + pay + sec
  BY DEF CalcSize, NoWriters, PublisherSize, GroupSize, WriterSize, PromotedSize, SumOf
<1>2. FlagsSize(m) = 1 + f1 + f2 /\ StampSize(m) = ts + ps
  BY DEF FlagsSize, StampSize
<1>3. sec = hd + tr
  <2> DEFINE n == Len(m.nonce)
             fo == m.val["footerSize"]
             ar == ArraySize(m.signature, 1)
  <2>1. n \in Nat /\ fo \in Nat /\ ar \in Nat
    BY MessageHas, StringBytes DEF Unsigned
  <2>2. sec = IF "security" \in m.on THEN 1 + 4 + 1 + n + (IF "footer" \in m.on THEN 2 + fo ELSE 0)
                                          + (IF "signed" \in m.on THEN ar ELSE 0) ELSE 0
    BY DEF SecuritySize
  <2>3. hd = IF "security" \in m.on THEN 1 + 4 + 1 + n + (IF "footer" \in m.on THEN 2 ELSE 0) ELSE 0
    BY DEF SecurityHeaderSize
  <2>4. tr = (IF "security" \in m.on /\ "footer" \in m.on THEN fo ELSE 0)
             + (IF "security" \in m.on /\ "signed" \in m.on THEN ar ELSE 0)
    BY DEF TrailerSize
  <2> HIDE DEF n, fo, ar, sec, hd, tr
  <2> QED
    BY <2>1, <2>2, <2>3, <2>4
<1>4. f1 \in Nat /\ f2 \in Nat /\ pub \in Nat /\ cls \in Nat /\ grp \in Nat /\ wri \in Nat /\ ts \in Nat
      /\ ps \in Nat /\ pro \in Nat /\ pay \in Nat /\ hd \in Nat /\ tr \in Nat
  <2>1. pub \in Nat /\ cls \in Nat /\ grp \in Nat /\ hd \in Nat
    BY PublisherPiece, ClassPiece, GroupPiece, SecurityPiece, PieceType
  <2>2. wri \in Nat /\ pay \in Nat /\ tr \in Nat
    BY WriterPiece, PayloadPiece, TrailerPiece
  <2>3. pro \in Nat
    BY PromotedPiece
  <2>4. ts \in Nat /\ ps \in Nat
    BY DEF SizeIf
  <2> QED
    BY <2>1, <2>2, <2>3, <2>4
<1> HIDE DEF f1, f2, pub, cls, grp, wri, ts, ps, pro, pay, sec, hd, tr
<1>5. 1 + f1 + f2 + pub + cls + grp + wri + ts + ps + pro + pay + sec
      = (1 + f1 + f2) + pub + cls + grp + wri + (ts + ps) + pro + hd + pay + tr
  BY <1>3, <1>4
<1> QED
  BY <1>1, <1>2, <1>5 DEF pub, cls, grp, wri, pro, pay, hd, tr

\* A message both sides implement is its bytes, as many as calcSize says; any
\* other message stops the encoder with an error.
LEMMA MessagePiece ==
    ASSUME NEW m \in NetworkMessages
    PROVE  /\ Segments(m) \in Seq(Segment) /\ CalcSize(m) \in Nat
           /\ Sendable(m) => Piece(Segments(m), MessageBytes(m), CalcSize(m))
           /\ ~Sendable(m) => Halts(Segments(m))
<1> DEFINE s1 == FlagSegments(m)           b1 == FlagsBytes(m)      n1 == FlagsSize(m)
           s2 == PublisherIdSegments(m)    b2 == PublisherBytes(m)  n2 == PublisherSize(m)
           s3 == Field(m, "classId", 16)   b3 == ClassBytes(m)      n3 == SizeIf(m, "classId", 16)
           s4 == GroupSegments(m)          b4 == GroupBytes(m)      n4 == GroupSize(m)
           s5 == PayloadHeaderSegments(m)  b5 == WriterBytes(m)     n5 == WriterSize(m)
           s6 == StampSegments(m)          b6 == StampBytes(m)      n6 == StampSize(m)
           s7 == PromotedSegments(m)       b7 == PromotedBytes(m)
           n7 == IF "promoted" \in m.on THEN 2 + PromotedSize(m) ELSE 0
           s8 == SecurityHeaderSegments(m) b8 == SecurityBytes(m)   n8 == SecurityHeaderSize(m)
           s9 == PayloadSegments(m)        b9 == PayloadBytes(m)    n9 == PayloadSize(m)
           sx == TrailerSegments(m)        bx == TrailerBytes(m)    nx == TrailerSize(m)
<1>1. Segments(m) = s1 \o s2 \o s3 \o s4 \o s5 \o (s6 \o s7) \o s8 \o s9 \o sx
  BY ExtendedIs DEF Segments
<1>2. MessageBytes(m) = b1 \o b2 \o b3 \o b4 \o b5 \o b6 \o b7 \o b8 \o b9 \o bx
  BY DEF MessageBytes
<1>3. ~NoWriters(m) => CalcSize(m) = n1 + n2 + n3 + n4 + n5 + n6 + n7 + n8 + n9 + nx
  BY CalcSizeIs
<1>4. Piece(s1, b1, n1) /\ Piece(s2, b2, n2) /\ Piece(s3, b3, n3) /\ Piece(s4, b4, n4)
  BY FlagsPiece, PublisherPiece, ClassPiece, GroupPiece
<1>5. Piece(s6, b6, n6) /\ Piece(s7, b7, n7) /\ Piece(s8, b8, n8)
  BY StampPiece, PromotedPiece, SecurityPiece
<1>6. /\ s5 \in Seq(Segment) /\ n5 \in Nat
      /\ NoWriters(m) => Halts(s5)
      /\ ~NoWriters(m) /\ m.nmType = 0 => Piece(s5, b5, n5)
  BY WriterPiece
<1>7. /\ s9 \in Seq(Segment) /\ n9 \in Nat
      /\ m.nmType # 0 \/ ~AllEncodable(m) => Halts(s9)
      /\ m.nmType = 0 /\ AllEncodable(m) => Piece(s9, b9, n9)
  BY PayloadPiece
<1>8. /\ sx \in Seq(Segment) /\ nx \in Nat
      /\ EndlessFooter(m) => Halts(sx)
      /\ ~EndlessFooter(m) => Piece(sx, bx, nx)
  BY TrailerPiece
<1>9. NoWriters(m) => CalcSize(m) = 0
  BY DEF CalcSize, NoWriters
<1>10. Sendable(m) <=> m.nmType = 0 /\ ~NoWriters(m) /\ AllEncodable(m) /\ ~EndlessFooter(m)
  BY DEF Sendable
<1> HIDE DEF s1, s2, s3, s4, s5, s6, s7, s8, s9, sx, b1, b2, b3, b4, b5, b6, b7, b8, b9, bx,
             n1, n2, n3, n4, n5, n6, n7, n8, n9, nx
<1>11. n1 \in Nat /\ n2 \in Nat /\ n3 \in Nat /\ n4 \in Nat /\ n6 \in Nat /\ n7 \in Nat /\ n8 \in Nat
       /\ s1 \in Seq(Segment) /\ s2 \in Seq(Segment) /\ s3 \in Seq(Segment) /\ s4 \in Seq(Segment)
       /\ s6 \in Seq(Segment) /\ s7 \in Seq(Segment) /\ s8 \in Seq(Segment)
  BY <1>4, <1>5, PieceType
<1>12. CalcSize(m) \in Nat
  BY <1>3, <1>6, <1>7, <1>8, <1>9, <1>11
<1> DEFINE t4 == s1 \o s2 \o s3 \o s4
           t5 == t4 \o s5
           t6 == s6 \o s7
           t7 == t5 \o t6
           t8 == t7 \o s8
           t9 == t8 \o s9
<1>13. t4 \in Seq(Segment) /\ t6 \in Seq(Segment)
  BY <1>11
<1>14. Segments(m) = t9 \o sx
  BY <1>1
<1>15. Piece(t4, b1 \o b2 \o b3 \o b4, n1 + n2 + n3 + n4)
  <2>1. Piece(s1 \o s2, b1 \o b2, n1 + n2)
    BY <1>4, PieceConcat
  <2>2. Piece(s1 \o s2 \o s3, b1 \o b2 \o b3, n1 + n2 + n3)
    BY <1>4, <2>1, PieceConcat
  <2> QED
    BY <1>4, <2>2, PieceConcat
<1>16. Piece(t6, b6 \o b7, n6 + n7)
  BY <1>5, PieceConcat
<1> HIDE DEF t4, t6
<1>17. t5 \in Seq(Segment) /\ (Halts(t5) <=> Halts(t4) \/ Halts(s5))
  BY <1>6, <1>13, PutsConcat
<1> HIDE DEF t5
<1>18. t7 \in Seq(Segment) /\ (Halts(t7) <=> Halts(t5) \/ Halts(t6))
  BY <1>13, <1>17, PutsConcat
<1> HIDE DEF t7
<1>19. t8 \in Seq(Segment) /\ (Halts(t8) <=> Halts(t7) \/ Halts(s8))
  BY <1>11, <1>18, PutsConcat
<1> HIDE DEF t8
<1>20. t9 \in Seq(Segment) /\ (Halts(t9) <=> Halts(t8) \/ Halts(s9))
  BY <1>7, <1>19, PutsConcat
<1> HIDE DEF t9
<1>21. Segments(m) \in Seq(Segment) /\ (Halts(Segments(m)) <=> Halts(t9) \/ Halts(sx))
  <2>1. t9 \o sx \in Seq(Segment) /\ (Halts(t9 \o sx) <=> Halts(t9) \/ Halts(sx))
    BY <1>8, <1>20, PutsConcat
  <2> QED
    BY <1>14, <2>1
<1>22. ~Sendable(m) => Halts(Segments(m))
  BY <1>6, <1>7, <1>8, <1>10, <1>17, <1>18, <1>19, <1>20, <1>21
<1>23. ASSUME Sendable(m) PROVE Piece(Segments(m), MessageBytes(m), CalcSize(m))
  <2> DEFINE c4 == b1 \o b2 \o b3 \o b4
             k4 == n1 + n2 + n3 + n4
  <2>1. Piece(s5, b5, n5) /\ Piece(s9, b9, n9) /\ Piece(sx, bx, nx)
    BY <1>6, <1>7, <1>8, <1>10, <1>23
  <2>2. MessageBytes(m) = c4 \o b5 \o b6 \o b7 \o b8 \o b9 \o bx
        /\ CalcSize(m) = k4 + n5 + n6 + n7 + n8 + n9 + nx
    BY <1>2, <1>3, <1>10, <1>23
  <2>3. Piece(t4, c4, k4)
    BY <1>15
  <2> HIDE DEF c4, k4
  <2>4. Piece(t5, c4 \o b5, k4 + n5)
    BY <2>1, <2>3, PieceConcat DEF t5
  <2>5. Piece(t7, (c4 \o b5) \o (b6 \o b7), (k4 + n5) + (n6 + n7))
    BY <1>16, <2>4, PieceConcat DEF t7
  <2>6. c4 \o b5 \in Seq(Octet) /\ b6 \in Seq(Octet) /\ b7 \in Seq(Octet) /\ k4 \in Nat
    BY <1>5, <2>3, <2>4, PieceType
  <2>7. (c4 \o b5) \o (b6 \o b7) = ((c4 \o b5) \o b6) \o b7
    BY <2>6, Regroup
  <2>8. (k4 + n5) + (n6 + n7) = ((k4 + n5) + n6) + n7
    BY <1>6, <1>11, <2>6
  <2>9. Piece(t7, ((c4 \o b5) \o b6) \o b7, ((k4 + n5) + n6) + n7)
    BY <2>5, <2>7, <2>8
  <2>10. Piece(t8, ((c4 \o b5) \o b6) \o b7 \o b8, ((k4 + n5) + n6) + n7 + n8)
    BY <1>5, <2>9, PieceConcat DEF t8
  <2>11. Piece(t9, ((c4 \o b5) \o b6) \o b7 \o b8 \o b9, ((k4 + n5) + n6) + n7 + n8 + n9)
    BY <2>1, <2>10, PieceConcat DEF t9
  <2>12. Piece(t9 \o sx, ((c4 \o b5) \o b6) \o b7 \o b8 \o b9 \o bx,
               ((k4 + n5) + n6) + n7 + n8 + n9 + nx)
    BY <2>1, <2>11, PieceConcat
  <2> QED
    BY <1>14, <2>2, <2>12
<1> QED
  BY <1>12, <1>21, <1>22, <1>23

---------------------------------------------------------------------------
(* The write loop. *)

\* What the encoder may have written into a buffer of n bytes.
Buffers(n) == {a \in [rv : Codes, out : Seq(Octet)] : Len(a.out) <= n}

\* One write stays in the buffer, and an error stays an error.
LEMMA PerformStays ==
    ASSUME NEW n \in Nat, NEW a \in Buffers(n), NEW s \in Segment, NEW x, x = Perform(a, s, n)
    PROVE  /\ x \in Buffers(n)
           /\ a.rv # "Good" => x.rv # "Good"
           /\ s.kind = "halt" /\ s.rv # "Good" => x.rv # "Good"
           /\ a.rv = "Good" /\ s.kind # "halt" /\ Len(a.out) + Len(s.bytes) <= n
                => x.rv = "Good" /\ x.out = a.out \o s.bytes
           /\ a.rv = "Good" /\ s.kind = "must" /\ Len(a.out) + Len(s.bytes) > n => x.rv # "Good"
<1> DEFINE o == a.out
           b == s.bytes
           room == Room(o, n)
           k == IF s.keep < room THEN s.keep ELSE room
<1>1. o \in Seq(Octet) /\ a.rv \in Codes /\ Len(o) <= n /\ Len(o) \in Nat /\ a = [rv |-> a.rv, out |-> o]
  BY DEF Buffers
<1>2. b \in Seq(Octet) /\ s.kind \in {"must", "try", "halt"} /\ s.keep \in Nat /\ s.rv \in Codes
      /\ Len(b) \in Nat
  BY DEF Segment
<1>3. room \in Nat /\ room = n - Len(o)
  BY <1>1 DEF Room
<1>4. /\ a.rv # "Good" => x = a
      /\ a.rv = "Good" /\ s.kind = "halt" => x = [rv |-> s.rv, out |-> o]
      /\ a.rv = "Good" /\ s.kind # "halt" /\ Len(b) <= room => x = [rv |-> a.rv, out |-> o \o b]
      /\ a.rv = "Good" /\ s.kind = "must" /\ ~ (Len(b) <= room)
           => x = [rv |-> "BadEncodingError", out |-> o]
      /\ a.rv = "Good" /\ s.kind = "try" /\ ~ (Len(b) <= room)
           => x = [rv |-> a.rv, out |-> o \o SubSeq(b, 1, k)]
  <2> HIDE DEF room
  <2>0. Perform(a, s, n) =
          CASE a.rv # "Good" -> a
            [] a.rv = "Good" /\ s.kind = "halt" -> [a EXCEPT !.rv = s.rv]
            [] a.rv = "Good" /\ s.kind # "halt" /\ Len(b) <= room -> [a EXCEPT !.out = o \o b]
            [] a.rv = "Good" /\ s.kind = "must" /\ Len(b) > room -> [a EXCEPT !.rv = "BadEncodingError"]
            [] OTHER -> [a EXCEPT !.out = o \o SubSeq(b, 1, k)]
    BY DEF Perform, room
  <2> HIDE DEF k, b, o
  <2>1. ASSUME a.rv # "Good" PROVE x = a
    BY <2>0, <2>1
  <2>2. ASSUME a.rv = "Good", s.kind = "halt" PROVE x = [rv |-> s.rv, out |-> o]
    BY <1>1, <2>0, <2>2
  <2>3. ASSUME a.rv = "Good", s.kind # "halt", Len(b) <= room PROVE x = [rv |-> a.rv, out |-> o \o b]
    <3> DEFINE q == o \o b
    <3> HIDE DEF q
    <3>1. x = [a EXCEPT !.out = q]
      BY <1>2, <1>3, <2>0, <2>3 DEF q
    <3>2. x = [rv |-> a.rv, out |-> q]
      BY <1>1, <3>1
    <3> QED
      BY <3>2 DEF q
  <2>4. ASSUME a.rv = "Good", s.kind = "must", ~ (Len(b) <= room)
        PROVE  x = [rv |-> "BadEncodingError", out |-> o]
    BY <1>1, <1>2, <1>3, <2>0, <2>4
  <2>5. ASSUME a.rv = "Good", s.kind = "try", ~ (Len(b) <= room)
        PROVE  x = [rv |-> a.rv, out |-> o \o SubSeq(b, 1, k)]
    BY <1>1, <1>2, <1>3, <2>0, <2>5
  <2> QED
    BY <2>1, <2>2, <2>3, <2>4, <2>5
<1>5. o \o b \in Seq(Octet) /\ Len(o \o b) = Len(o) + Len(b)
  BY <1>1, <1>2, OctetsConcat
<1>6. ASSUME ~ (Len(b) <= room)
      PROVE  o \o SubSeq(b, 1, k) \in Seq(Octet) /\ Len(o \o SubSeq(b, 1, k)) <= n
  <2> HIDE DEF room, b
  <2>1. k \in Nat /\ k <= room /\ k <= Len(b)
    <3> DEFINE j == s.keep
               l == Len(b)
    <3>1. j \in Nat /\ l \in Nat /\ room \in Nat /\ ~ (l <= room)
      BY <1>2, <1>3, <1>6
    <3> HIDE DEF j, l
    <3> QED
      BY <3>1 DEF j, l
  <2> USE DEF b
  <2> HIDE DEF k
  <2>2. SubSeq(b, 1, k) \in Seq(Octet) /\ Len(SubSeq(b, 1, k)) = k
    BY <1>2, <2>1
  <2>3. Len(o \o SubSeq(b, 1, k)) = Len(o) + k /\ o \o SubSeq(b, 1, k) \in Seq(Octet)
    BY <1>1, <2>2, OctetsConcat
  <2> QED
    BY <1>1, <1>3, <2>1, <2>3
<1>7. "Good" \in Codes /\ "BadEncodingError" \in Codes /\ "BadEncodingError" # "Good"
  BY DEF Codes
<1> HIDE DEF k, room, o, b
<1>8. Len(b) <= room <=> Len(o) + Len(b) <= n
  BY <1>1, <1>2, <1>3
<1>9. x \in Buffers(n)
  <2>0. ASSUME NEW rv \in Codes, NEW q \in Seq(Octet), Len(q) <= n
        PROVE  [rv |-> rv, out |-> q] \in Buffers(n)
    BY <2>0 DEF Buffers
  <2>1. CASE a.rv # "Good"
    BY <1>4, <2>1
  <2>2. CASE a.rv = "Good" /\ s.kind = "halt"
    BY <1>1, <1>2, <1>4, <2>2 DEF Buffers
  <2>3. CASE a.rv = "Good" /\ s.kind # "halt" /\ Len(b) <= room
    <3>1. Len(o \o b) <= n
      BY <1>5, <1>8, <2>3
    <3>2. [rv |-> a.rv, out |-> o \o b] \in Buffers(n)
      BY <1>1, <1>5, <2>0, <3>1
    <3> QED
      BY <1>4, <2>3, <3>2
  <2>4. CASE a.rv = "Good" /\ s.kind = "must" /\ ~ (Len(b) <= room)
    BY <1>1, <1>4, <1>7, <2>4 DEF Buffers
  <2>5. CASE a.rv = "Good" /\ s.kind = "try" /\ ~ (Len(b) <= room)
    <3>1. [rv |-> a.rv, out |-> o \o SubSeq(b, 1, k)] \in Buffers(n)
      BY <1>1, <1>6, <2>0, <2>5
    <3> QED
      BY <1>4, <2>5, <3>1
  <2> QED
    BY <1>2, <2>1, <2>2, <2>3, <2>4, <2>5
<1>10. a.rv = "Good" /\ s.kind # "halt" /\ Len(o) + Len(b) <= n => x.rv = "Good" /\ x.out = o \o b
  BY <1>4, <1>8
<1>11. a.rv = "Good" /\ s.kind = "must" /\ Len(o) + Len(b) > n => x.rv # "Good"
  BY <1>1, <1>2, <1>4, <1>7, <1>8
<1>12. s.kind = "halt" /\ s.rv # "Good" => x.rv # "Good"
  BY <1>4
<1> QED
  BY <1>4, <1>9, <1>10, <1>11, <1>12 DEF o, b

\* The states of the buffer before and after each write.
Written(f, s, n, x) ==
    /\ f \in [0..Len(s) -> Buffers(n)]
    /\ f[0] = [rv |-> "Good", out |-> <<>>]
    /\ \A i \in 1..Len(s) : f[i] = Perform(f[i - 1], s[i], n)
    /\ x = f[Len(s)]

\* The write loop, step by step.
LEMMA WriteUnfold ==
    ASSUME NEW s \in Seq(Segment), NEW n \in Nat, NEW x, x = Write(s, n)
    PROVE  \E f : Written(f, s, n, x)
<1> DEFINE l == Len(s)
           S == Buffers(n)
           a == [rv |-> "Good", out |-> <<>>]
           step == [p \in S \X (1..l) |-> Perform(p[1], s[p[2]], n)]
           Runs(f) == f = [i \in 0..l |-> IF i = 0 THEN a ELSE Perform(f[i - 1], s[i], n)]
           F == CHOOSE f : Runs(f)
<1>1. l \in Nat /\ \A i \in 1..l : s[i] \in Segment
  OBVIOUS
<1>2. step \in [S \X (1..l) -> S]
  <2>1. \A y \in S, i \in 1..l : Perform(y, s[i], n) \in S
    BY <1>1, PerformStays
  <2> HIDE DEF S, l
  <2> QED
    BY <2>1
<1>3. PICK f : Loops(f, S, a, l, step)
  <2>1. a \in S
    <3>1. <<>> \in Seq(Octet) /\ Len(<<>>) = 0 /\ "Good" \in Codes
      BY DEF Codes
    <3> QED
      BY <3>1 DEF Buffers
  <2> HIDE DEF S, step, l, a
  <2> QED
    BY <1>1, <1>2, <2>1, LoopExists
<1> USE DEF Loops
<1>4. \A i \in 1..l : f[i - 1] \in S /\ f[i] = Perform(f[i - 1], s[i], n)
  <2> TAKE i \in 1..l
  <2>1. i - 1 \in 0..l
    BY <1>1
  <2>2. f[i - 1] \in S
    BY <1>3, <2>1
  <2>3. step[<<f[i - 1], i>>] = Perform(f[i - 1], s[i], n)
    <3> HIDE DEF S, l
    <3> QED
      BY <2>2
  <2> QED
    BY <1>3, <2>2, <2>3
<1>5. Runs(f)
  <2> HIDE DEF S, step, l, a
  <2> QED
    BY <1>1, <1>3, <1>4
<1>6. Runs(F)
  <2> HIDE DEF Runs
  <2> QED
    BY <1>5
<1>7. Write(s, n) = F[l]
  BY DEF Write
<1>8. \A i \in 0..l : F[i] = f[i]
  <2> DEFINE A == {k \in Nat : k <= l => F[k] = f[k]}
  <2>0. F[0] = a /\ \A i \in 1..l : F[i] = Perform(F[i - 1], s[i], n)
    <3> HIDE DEF F, l, a
    <3> QED
      BY <1>1, <1>6
  <2> HIDE DEF F, a
  <2>1. 0 \in A
    BY <1>1, <1>3, <2>0
  <2>2. ASSUME NEW k \in Nat, k \in A
        PROVE  k + 1 \in A
    <3> SUFFICES ASSUME k + 1 <= l PROVE F[k + 1] = f[k + 1]
      OBVIOUS
    <3>1. k + 1 \in 1..l /\ (k + 1) - 1 = k /\ F[k] = f[k]
      BY <1>1, <2>2
    <3>2. F[k + 1] = Perform(F[k], s[k + 1], n)
      BY <2>0, <3>1
    <3> QED
      BY <1>4, <3>1, <3>2
  <2>3. \A k \in Nat : k \in A
    <3> HIDE DEF A
    <3> QED
      BY <2>1, <2>2, Induction
  <2> QED
    BY <1>1, <2>3
<1>9. F[l] = f[l] /\ l \in 0..l
  BY <1>1, <1>8
<1>10. x = f[l]
  BY <1>7, <1>9
<1> HIDE DEF F, step
<1> QED
  BY <1>1, <1>3, <1>4, <1>10 DEF Written

\* What one write does to the buffer.
LEMMA WrittenStep ==
    ASSUME NEW s \in Seq(Segment), NEW n \in Nat, NEW f, NEW x, Written(f, s, n, x),
           NEW i \in 1..Len(s)
    PROVE  /\ i - 1 \in 0..Len(s) /\ i \in 0..Len(s) /\ Len(s) \in Nat
           /\ s[i] \in Segment /\ s[i].bytes \in Seq(Octet) /\ Len(s[i].bytes) \in Nat
           /\ f[i - 1] \in Buffers(n) /\ f[i - 1].out \in Seq(Octet) /\ Len(f[i - 1].out) \in Nat /\ Len(f[i - 1].out) <= n
           /\ f[i] = Perform(f[i - 1], s[i], n)
           /\ f[i - 1].rv # "Good" => f[i].rv # "Good"
           /\ s[i].kind = "halt" /\ s[i].rv # "Good" => f[i].rv # "Good"
           /\ f[i - 1].rv = "Good" /\ s[i].kind # "halt" /\ Len(f[i - 1].out) + Len(s[i].bytes) <= n
                => f[i].rv = "Good" /\ f[i].out = f[i - 1].out \o s[i].bytes
           /\ f[i - 1].rv = "Good" /\ s[i].kind = "must" /\ Len(f[i - 1].out) + Len(s[i].bytes) > n
                => f[i].rv # "Good"
<1> DEFINE a == f[i - 1]
           y == f[i]
           t == s[i]
<1>1. i - 1 \in 0..Len(s) /\ i \in 0..Len(s) /\ Len(s) \in Nat /\ s[i] \in Segment
  OBVIOUS
<1>2. a \in Buffers(n) /\ f[i] = Perform(a, s[i], n)
  BY <1>1 DEF Written
<1>3. a.out \in Seq(Octet) /\ Len(a.out) \in Nat /\ Len(a.out) <= n
  BY <1>2 DEF Buffers
<1>4. s[i].bytes \in Seq(Octet) /\ Len(s[i].bytes) \in Nat
  BY <1>1 DEF Segment
<1>5. t \in Segment /\ a \in Buffers(n) /\ y = Perform(a, t, n)
  BY <1>1, <1>2
<1> HIDE DEF a, y, t
<1>6. /\ a.rv # "Good" => y.rv # "Good"
      /\ t.kind = "halt" /\ t.rv # "Good" => y.rv # "Good"
      /\ a.rv = "Good" /\ t.kind # "halt" /\ Len(a.out) + Len(t.bytes) <= n
           => y.rv = "Good" /\ y.out = a.out \o t.bytes
      /\ a.rv = "Good" /\ t.kind = "must" /\ Len(a.out) + Len(t.bytes) > n => y.rv # "Good"
  BY <1>5, PerformStays
<1> QED
  BY <1>1, <1>2, <1>3, <1>4, <1>6 DEF a, y, t

\* An error met on the way is the error returned.
LEMMA ErrorsLast ==
    ASSUME NEW s \in Seq(Segment), NEW n \in Nat, NEW f, NEW x, Written(f, s, n, x),
           NEW i \in 0..Len(s), f[i].rv # "Good"
    PROVE  x.rv # "Good"
<1> DEFINE A == {k \in Nat : i + k <= Len(s) => f[i + k].rv # "Good"}
<1>1. 0 \in A
  OBVIOUS
<1>2. ASSUME NEW k \in Nat, k \in A PROVE k + 1 \in A
  <2> SUFFICES ASSUME i + (k + 1) <= Len(s) PROVE f[i + (k + 1)].rv # "Good"
    OBVIOUS
  <2> DEFINE j == i + (k + 1)
  <2>1. j \in 1..Len(s) /\ j - 1 = i + k /\ j - 1 \in 0..Len(s) /\ f[j - 1].rv # "Good"
    BY <1>2
  <2> HIDE DEF j
  <2>3. f[j].rv # "Good"
    BY ZenonT(40), <2>1, WrittenStep
  <2> QED
    BY <2>3 DEF j
<1>3. \A k \in Nat : k \in A
  <2> HIDE DEF A
  <2> QED
    BY <1>1, <1>2, Induction
<1>4. Len(s) - i \in Nat /\ i + (Len(s) - i) = Len(s)
  OBVIOUS
<1>5. f[Len(s)].rv # "Good"
  BY <1>3, <1>4
<1> QED
  BY <1>5 DEF Written

\* The encoder stays in its buffer, writes its bytes when there is room for
\* them, and reports what it does not implement.
LEMMA Writes ==
    ASSUME NEW s \in Seq(Segment), NEW n \in Nat, NEW x, x = Write(s, n)
    PROVE  /\ x \in Buffers(n)
           /\ Halts(s) => x.rv # "Good"
           /\ \A b : Puts(s, b) /\ Len(b) <= n => x.rv = "Good" /\ x.out = b
<1>1. PICK f : Written(f, s, n, x)
  BY WriteUnfold
<1>2. Len(s) \in Nat /\ \A i \in 1..Len(s) : s[i] \in Segment
  OBVIOUS
<1>3. x \in Buffers(n)
  BY <1>1, <1>2 DEF Written
<1>4. ASSUME Halts(s) PROVE x.rv # "Good"
  <2>1. PICK i \in 1..Len(s) : s[i].kind = "halt" /\ s[i].rv # "Good"
    BY <1>4 DEF Halts
  <2>2. i \in 0..Len(s) /\ i - 1 \in 0..Len(s)
    BY <1>2
  <2>3. f[i] = Perform(f[i - 1], s[i], n) /\ f[i - 1] \in Buffers(n)
    BY <1>1, <2>2 DEF Written
  <2>4. f[i].rv # "Good"
    BY ZenonT(40), <1>2, <2>1, <2>3, PerformStays
  <2> QED
    BY <1>1, <2>2, <2>4, ErrorsLast
<1>5. ASSUME NEW b, Puts(s, b), Len(b) <= n PROVE x.rv = "Good" /\ x.out = b
  <2>1. PICK g \in [0..Len(s) -> Seq(Octet)] :
           /\ g[0] = <<>> /\ g[Len(s)] = b
           /\ \A i \in 1..Len(s) : s[i].kind # "halt" /\ g[i] = g[i - 1] \o s[i].bytes
    BY <1>5 DEF Puts
  <2> DEFINE B == {k \in Nat : k <= Len(s) => Len(g[Len(s) - k]) <= n}
             A == {k \in Nat : k <= Len(s) => f[k].rv = "Good" /\ f[k].out = g[k]}
  <2>2. ASSUME NEW i \in 1..Len(s)
        PROVE  /\ g[i - 1] \in Seq(Octet) /\ s[i].bytes \in Seq(Octet)
               /\ Len(g[i]) = Len(g[i - 1]) + Len(s[i].bytes)
               /\ Len(g[i - 1]) \in Nat /\ Len(s[i].bytes) \in Nat
    <3>1. i - 1 \in 0..Len(s)
      BY <1>2
    <3>2. s[i].bytes \in Seq(Octet)
      BY <1>2 DEF Segment
    <3> QED
      BY ZenonT(40), <2>1, <3>1, <3>2, OctetsConcat
  <2>3. \A k \in Nat : k \in B
    <3>1. 0 \in B
      BY <1>2, <1>5, <2>1
    <3>2. ASSUME NEW k \in Nat, k \in B PROVE k + 1 \in B
      <4> SUFFICES ASSUME k + 1 <= Len(s) PROVE Len(g[Len(s) - (k + 1)]) <= n
        OBVIOUS
      <4> DEFINE i == Len(s) - k
      <4>1. i \in 1..Len(s) /\ i - 1 = Len(s) - (k + 1) /\ Len(g[i]) <= n
        BY <1>2, <3>2
      <4> HIDE DEF i
      <4>2. Len(g[i - 1]) <= n
        <5> DEFINE u == Len(g[i - 1])
                   v == Len(s[i].bytes)
        <5>1. u \in Nat /\ v \in Nat /\ Len(g[i]) = u + v
          BY <2>2, <4>1
        <5> HIDE DEF u, v
        <5>2. u <= n
          BY <4>1, <5>1
        <5> QED
          BY <5>2 DEF u
      <4> QED
        BY <4>1, <4>2
    <3> HIDE DEF B
    <3> QED
      BY <3>1, <3>2, Induction
  <2>4. ASSUME NEW i \in 0..Len(s) PROVE Len(g[i]) <= n
    <3>1. Len(s) - i \in Nat /\ Len(s) - i <= Len(s) /\ Len(s) - (Len(s) - i) = i
      BY <1>2
    <3> QED
      BY <2>3, <3>1
  <2>5. 0 \in A
    BY <1>1, <2>1 DEF Written
  <2>6. ASSUME NEW k \in Nat, k \in A PROVE k + 1 \in A
    <3> SUFFICES ASSUME k + 1 <= Len(s) PROVE f[k + 1].rv = "Good" /\ f[k + 1].out = g[k + 1]
      OBVIOUS
    <3> DEFINE i == k + 1
    <3>1. i \in 1..Len(s) /\ i \in 0..Len(s) /\ i - 1 = k /\ k \in 0..Len(s)
      BY <1>2
    <3>2. f[k].rv = "Good" /\ f[k].out = g[k]
      BY <2>6
    <3> HIDE DEF i
    <3>3. f[i] = Perform(f[k], s[i], n) /\ f[k] \in Buffers(n)
      BY <1>1, <3>1 DEF Written
    <3>4. Len(f[k].out) + Len(s[i].bytes) <= n
      BY <2>2, <2>4, <3>1, <3>2
    <3>5. s[i].kind # "halt" /\ g[i] = g[k] \o s[i].bytes
      BY <2>1, <3>1
    <3>6. f[i].rv = "Good" /\ f[i].out = f[k].out \o s[i].bytes
      BY <1>2, <3>1, <3>2, <3>3, <3>4, <3>5, PerformStays
    <3> QED
      BY <3>2, <3>5, <3>6 DEF i
  <2>7. \A k \in Nat : k \in A
    <3> HIDE DEF A
    <3> QED
      BY <2>5, <2>6, Induction
  <2> QED
    BY <1>1, <1>2, <2>1, <2>7 DEF Written
<1> QED
  BY <1>3, <1>4, <1>5

\* Writes whose statuscode is looked at, or whose failure the next write meets.
Firm(s) ==
    /\ s \in Seq(Segment)
    /\ \A i \in 1..Len(s) :
          \/ s[i].kind = "must"
          \/ /\ s[i].kind = "try" /\ Len(s[i].bytes) = 1 /\ s[i].keep = 0
             /\ i + 1 \in 1..Len(s) /\ s[i + 1].kind = "must" /\ Len(s[i + 1].bytes) > 0

\* Firm writes do not all succeed in a buffer that is too small.
LEMMA FirmWrites ==
    ASSUME NEW s, Firm(s), NEW b, Puts(s, b), NEW n \in Nat, n < Len(b), NEW x, x = Write(s, n)
    PROVE  x.rv # "Good"
<1>0. s \in Seq(Segment)
  BY DEF Firm
<1>1. PICK f : Written(f, s, n, x)
  BY <1>0, WriteUnfold
<1>2. Len(s) \in Nat /\ \A i \in 1..Len(s) : s[i] \in Segment
  BY <1>0
<1> SUFFICES ASSUME x.rv = "Good" PROVE FALSE
  OBVIOUS
<1>3. ASSUME NEW i \in 0..Len(s) PROVE f[i].rv = "Good" /\ f[i] \in Buffers(n)
  <2>1. f[i].rv = "Good"
    BY <1>0, <1>1, ErrorsLast
  <2> QED
    BY <1>1, <2>1 DEF Written
<1>4. PICK g \in [0..Len(s) -> Seq(Octet)] :
         /\ g[0] = <<>> /\ g[Len(s)] = b
         /\ \A i \in 1..Len(s) : s[i].kind # "halt" /\ g[i] = g[i - 1] \o s[i].bytes
  BY DEF Puts
<1>5. ASSUME NEW i \in 1..Len(s)
      PROVE  /\ s[i] \in Segment /\ s[i].bytes \in Seq(Octet) /\ Len(s[i].bytes) \in Nat
             /\ f[i] = Perform(f[i - 1], s[i], n)
             /\ f[i - 1] \in Buffers(n) /\ f[i - 1].rv = "Good" /\ f[i].rv = "Good"
             /\ f[i - 1].out \in Seq(Octet) /\ Len(f[i - 1].out) \in Nat /\ Len(f[i - 1].out) <= n
             /\ s[i].kind = "must" => Len(f[i - 1].out) + Len(s[i].bytes) <= n
             /\ s[i].kind # "halt" /\ Len(f[i - 1].out) + Len(s[i].bytes) <= n
                  => f[i].out = f[i - 1].out \o s[i].bytes
  <2> DEFINE a == f[i - 1]
             u == Len(a.out)
             v == Len(s[i].bytes)
  <2>1. i - 1 \in 0..Len(s) /\ i \in 0..Len(s)
    BY <1>2
  <2>2. a.rv = "Good" /\ f[i].rv = "Good"
    BY <1>3, <2>1
  <2>3. /\ s[i] \in Segment /\ s[i].bytes \in Seq(Octet) /\ v \in Nat
        /\ f[i] = Perform(a, s[i], n)
        /\ a \in Buffers(n) /\ a.out \in Seq(Octet) /\ u \in Nat /\ u <= n
        /\ a.rv = "Good" /\ s[i].kind # "halt" /\ u + v <= n => f[i].out = a.out \o s[i].bytes
        /\ a.rv = "Good" /\ s[i].kind = "must" /\ u + v > n => f[i].rv # "Good"
    BY <1>0, <1>1, WrittenStep
  <2> HIDE DEF a, u, v
  <2>4. s[i].kind = "must" => u + v <= n
    BY <2>2, <2>3
  <2> QED
    BY <2>2, <2>3, <2>4 DEF a, u, v
<1>7. ASSUME NEW i \in 1..Len(s)
      PROVE  f[i].out = f[i - 1].out \o s[i].bytes
  <2>1. s[i].kind # "halt"
    BY <1>4
  <2>2. Len(f[i - 1].out) + Len(s[i].bytes) <= n
    <3>1. CASE s[i].kind = "must"
      BY <1>5, <3>1
    <3>2. CASE s[i].kind # "must"
      <4>1. /\ s[i].kind = "try" /\ Len(s[i].bytes) = 1 /\ s[i].keep = 0
            /\ i + 1 \in 1..Len(s) /\ s[i + 1].kind = "must" /\ Len(s[i + 1].bytes) > 0
        BY <3>2 DEF Firm
      <4>2. Len(f[i].out) < n
        <5>1. (i + 1) - 1 = i
          BY <1>2
        <5> DEFINE j == i + 1
        <5>2. j \in 1..Len(s) /\ j - 1 = i /\ s[j].kind = "must" /\ Len(s[j].bytes) > 0
          BY <4>1, <5>1
        <5> HIDE DEF j
        <5>3. Len(f[j - 1].out) + Len(s[j].bytes) <= n /\ Len(f[j - 1].out) \in Nat
              /\ Len(s[j].bytes) \in Nat
          BY <1>5, <5>2
        <5> DEFINE u == Len(f[j - 1].out)
                   v == Len(s[j].bytes)
        <5>4. u + v <= n /\ u \in Nat /\ v \in Nat /\ v > 0
          BY <5>2, <5>3
        <5> HIDE DEF u, v
        <5>5. u < n
          BY <5>4
        <5> QED
          BY <5>2, <5>5 DEF u
      <4>3. ASSUME ~ (Len(f[i - 1].out) + 1 <= n) PROVE FALSE
        <5> DEFINE o == f[i - 1].out
                   t == s[i]
        <5>0. Len(o) \in Nat /\ Len(o) <= n /\ ~ (Len(o) + 1 <= n)
          BY <1>5, <4>3
        <5>1. Room(o, n) = 0 /\ Len(o) = n
          <6> HIDE DEF o
          <6> QED
            BY <5>0 DEF Room
        <5>2. Perform(f[i - 1], t, n) = [f[i - 1] EXCEPT !.out = o \o SubSeq(t.bytes, 1, 0)]
          <6>1. ~ (Len(t.bytes) <= Room(o, n)) /\ ~ (t.keep < Room(o, n))
            BY <4>1, <5>1
          <6>2. f[i - 1].rv = "Good" /\ t.kind = "try"
            BY <1>5, <4>1
          <6> HIDE DEF o, t
          <6> QED
            BY <5>1, <6>1, <6>2 DEF Perform, o
        <5>3. f[i].out = o \o SubSeq(t.bytes, 1, 0)
          <6>1. f[i - 1] \in [rv : Codes, out : Seq(Octet)]
            BY <1>5 DEF Buffers
          <6> HIDE DEF o
          <6> QED
            BY <1>5, <5>2, <6>1
        <5>4. SubSeq(t.bytes, 1, 0) \in Seq(Octet) /\ Len(SubSeq(t.bytes, 1, 0)) = 0
          BY <1>5
        <5>5. Len(f[i].out) = Len(o) + 0
          BY <1>5, <5>3, <5>4, OctetsConcat
        <5> QED
          BY <1>5, <4>2, <5>1, <5>5
      <4> QED
        BY <4>1, <4>3
    <3> QED
      BY <3>1, <3>2
  <2> QED
    BY <1>5, <2>1, <2>2
<1> DEFINE A == {k \in Nat : k <= Len(s) => f[k].out = g[k]}
<1>8. 0 \in A
  BY <1>1, <1>4 DEF Written
<1>9. ASSUME NEW k \in Nat, k \in A PROVE k + 1 \in A
  <2> SUFFICES ASSUME k + 1 <= Len(s) PROVE f[k + 1].out = g[k + 1]
    OBVIOUS
  <2>1. k + 1 \in 1..Len(s) /\ (k + 1) - 1 = k
    BY <1>2
  <2> DEFINE j == k + 1
  <2>2. j \in 1..Len(s) /\ j - 1 = k
    BY <2>1
  <2>3. f[k].out = g[k]
    BY <1>2, <1>9
  <2> HIDE DEF j
  <2>4. f[j].out = f[j - 1].out \o s[j].bytes
    BY <1>7, <2>2
  <2>5. g[j] = g[j - 1] \o s[j].bytes
    BY <1>4, <2>2
  <2>6. f[j].out = g[j]
    BY <2>2, <2>3, <2>4, <2>5
  <2> QED
    BY <2>6 DEF j
<1>10. \A k \in Nat : k \in A
  <2> HIDE DEF A
  <2> QED
    BY <1>8, <1>9, Induction
<1>11. f[Len(s)].out = b
  BY <1>2, <1>4, <1>10
<1>12. Len(f[Len(s)].out) <= n /\ Len(f[Len(s)].out) \in Nat
  BY <1>2, <1>3 DEF Buffers
<1> QED
  BY <1>11, <1>12

\* Writes the encoder looks at the statuscode of.
Sure(s) == s \in Seq(Segment) /\ \A i \in 1..Len(s) : s[i].kind # "try"

\* No write, one write, one optional field.
LEMMA SureOne ==
    /\ Sure(<<>>)
    /\ \A b \in Seq(Octet) : Sure(Must(b))
    /\ \A x, f : \A w \in Widths : x.val[f] \in Nat => Sure(Field(x, f, w))
<1>1. Sure(<<>>)
  BY DEF Sure
<1>2. ASSUME NEW b \in Seq(Octet) PROVE Sure(Must(b))
  <2>1. Must(b) \in Seq(Segment)
    BY MustPuts
  <2>2. \A i \in 1..Len(Must(b)) : Must(b)[i].kind # "try"
    BY DEF Must
  <2> QED
    BY <2>1, <2>2 DEF Sure
<1>3. ASSUME NEW x, NEW f, NEW w \in Widths, x.val[f] \in Nat PROVE Sure(Field(x, f, w))
  <2>1. LE(x.val[f], w) \in Seq(Octet)
    BY <1>3, LEType DEF Widths
  <2>2. Sure(Must(LE(x.val[f], w)))
    BY <1>2, <2>1
  <2> QED
    BY <1>1, <2>2 DEF Field
<1> QED
  BY <1>1, <1>2, <1>3

\* One after the other.
LEMMA SureConcat ==
    ASSUME NEW s, Sure(s), NEW t, Sure(t)
    PROVE  Sure(s \o t)
<1>1. s \in Seq(Segment) /\ t \in Seq(Segment) /\ Len(s) \in Nat /\ Len(t) \in Nat
  BY DEF Sure
<1>2. s \o t \in Seq(Segment) /\ Len(s \o t) = Len(s) + Len(t)
  BY <1>1
<1>3. ASSUME NEW i \in 1..Len(s \o t) PROVE (s \o t)[i].kind # "try"
  <2>1. CASE i <= Len(s)
    <3>1. (s \o t)[i] = s[i] /\ i \in 1..Len(s)
      BY <1>1, <1>2, <2>1
    <3> QED
      BY <3>1 DEF Sure
  <2>2. CASE ~ (i <= Len(s))
    <3>1. (s \o t)[i] = t[i - Len(s)] /\ i - Len(s) \in 1..Len(t)
      BY <1>1, <1>2, <2>2
    <3> QED
      BY <3>1 DEF Sure
  <2> QED
    BY <2>1, <2>2
<1> QED
  BY <1>2, <1>3 DEF Sure

\* Any number of them.
LEMMA SureEach ==
    ASSUME NEW s, NEW n \in Nat, s = [i \in 1..n |-> s[i]], \A i \in 1..n : Sure(s[i])
    PROVE  Sure(FlattenSeq(s))
<1>1. s \in Seq(Seq(Segment)) /\ Len(s) = n
  <2>1. \A i \in 1..n : s[i] \in Seq(Segment)
    BY DEF Sure
  <2> QED
    BY <2>1
<1>2. /\ Joined(s, 0) = <<>> /\ Joined(s, n) = FlattenSeq(s)
      /\ \A k \in 1..n : Joined(s, k) = Joined(s, k - 1) \o s[k]
  BY <1>1, JoinedMore
<1> DEFINE T == {k \in Nat : k <= n => Sure(Joined(s, k))}
<1>3. 0 \in T
  BY <1>2, SureOne
<1>4. ASSUME NEW k \in Nat, k \in T PROVE k + 1 \in T
  <2> SUFFICES ASSUME k + 1 <= n PROVE Sure(Joined(s, k + 1))
    OBVIOUS
  <2>1. k + 1 \in 1..n /\ k <= n /\ (k + 1) - 1 = k
    OBVIOUS
  <2>2. Joined(s, k + 1) = Joined(s, k) \o s[k + 1]
    BY <1>2, <2>1
  <2>3. Sure(Joined(s, k)) /\ Sure(s[k + 1])
    BY <1>4, <2>1
  <2> QED
    BY <2>2, <2>3, SureConcat
<1>5. \A k \in Nat : k \in T
  <2> HIDE DEF T
  <2> QED
    BY <1>3, <1>4, Induction
<1> QED
  BY <1>2, <1>5

\* The header of a DataSetMessage.
LEMMA HeaderSure ==
    ASSUME NEW d \in DataSetMessages
    PROVE  Sure(HeaderSegments(d))
<1> DEFINE a == Must(<<Flag1(d)>>)
           b == IF DataSetFlags2Enabled(d) THEN Must(<<Flag2(d)>>) ELSE <<>>
           f1 == Field(d, "sequenceNr", 2)  f2 == Field(d, "timestamp", 8)
           f3 == Field(d, "picoSeconds", 2) f4 == Field(d, "status", 2)
           f5 == Field(d, "majorVersion", 4) f6 == Field(d, "minorVersion", 4)
<1>1. HeaderSegments(d) = a \o b \o f1 \o f2 \o f3 \o f4 \o f5 \o f6
  BY DEF HeaderSegments, Flag1, Flag2
<1>2. Sure(a) /\ Sure(b)
  <2>1. <<Flag1(d)>> \in Seq(Octet) /\ <<Flag2(d)>> \in Seq(Octet)
    BY HeaderFlags
  <2> QED
    BY <2>1, SureOne
<1>3. Sure(f1) /\ Sure(f2) /\ Sure(f3) /\ Sure(f4) /\ Sure(f5) /\ Sure(f6)
  <2>1. d.val \in [DSMFields -> Nat] /\ 2 \in Widths /\ 4 \in Widths /\ 8 \in Widths
    BY DSMHas DEF Widths
  <2>2. \A f \in DSMFields : d.val[f] \in Nat
    BY <2>1
  <2> QED
    BY <2>1, <2>2, SureOne DEF DSMFields
<1> HIDE DEF a, b, f1, f2, f3, f4, f5, f6
<1>4. Sure(a \o b \o f1)
  BY <1>2, <1>3, SureConcat
<1>5. Sure(a \o b \o f1 \o f2 \o f3)
  BY <1>3, <1>4, SureConcat
<1>6. Sure(a \o b \o f1 \o f2 \o f3 \o f4 \o f5)
  BY <1>3, <1>5, SureConcat
<1> QED
  BY <1>1, <1>3, <1>6, SureConcat

\* A DataSetMessage of a kind the codec encodes.
LEMMA DSMSure ==
    ASSUME NEW d \in DataSetMessages, Encodable(d)
    PROVE  Sure(DSMSegments(d))
<1> DEFINE h == HeaderSegments(d)
           n == Len(d.fields)
           c == Must(LE(n, 2))
           no == Halt("BadNotImplemented")
           keys == [i \in 1..n |-> IF d.enc = VariantEncoding
                                   THEN Must(EncodeVariant(d.fields[i].value))
                                   ELSE Must(EncodeDataValue(d.fields[i]))]
           deltas == [i \in 1..n |-> Must(LE(d.fields[i].index, 2)) \o
                                     (IF d.enc = VariantEncoding
                                      THEN Must(EncodeVariant(d.fields[i].value.value))
                                      ELSE Must(EncodeDataValue(d.fields[i].value)))]
<1>1. d.type \in 0..3 /\ d.enc \in 0..2 /\ n \in Unsigned(2) /\ n \in Nat
      /\ KeyFrame = 0 /\ DeltaFrame = 1 /\ KeepAlive = 3
  BY DSMHas DEF KeyFrame, DeltaFrame, KeepAlive, Unsigned
<1>2. Sure(h)
  BY HeaderSure
<1>3. Sure(c)
  <2>1. LE(n, 2) \in Seq(Octet)
    BY <1>1, LEType
  <2> QED
    BY <2>1, SureOne
<1>4. ASSUME NEW v \in DataValues
      PROVE  Sure(IF d.enc = VariantEncoding THEN Must(EncodeVariant(v.value)) ELSE Must(EncodeDataValue(v)))
  <2>1. EncodeVariant(v.value) \in Seq(Octet) /\ EncodeDataValue(v) \in Seq(Octet)
    BY DataValueHas, DataValueBytes, VariantBytes
  <2>2. Sure(Must(EncodeVariant(v.value))) /\ Sure(Must(EncodeDataValue(v)))
    BY <2>1, SureOne
  <2> QED
    BY <2>2
<1>5. ASSUME d.type = KeyFrame PROVE Sure(FlattenSeq(keys))
  <2>1. \A i \in 1..n : d.fields[i] \in DataValues
    BY <1>5, DSMHas
  <2>2. \A i \in 1..n : Sure(keys[i])
    BY <1>4, <2>1
  <2>3. keys = [i \in 1..n |-> keys[i]]
    OBVIOUS
  <2> HIDE DEF keys, n
  <2> QED
    BY <1>1, <2>2, <2>3, SureEach
<1>6. ASSUME d.type = DeltaFrame PROVE Sure(FlattenSeq(deltas))
  <2>1. \A i \in 1..n : d.fields[i].value \in DataValues /\ d.fields[i].index \in Nat
    <3>1. d.fields \in Seq(DeltaFields)
      BY <1>6, DSMHas
    <3>2. \A i \in 1..n : d.fields[i] \in DeltaFields
      BY <3>1
    <3>3. \A x \in DeltaFields : x.value \in DataValues /\ x.index \in Nat
      BY DEF DeltaFields, Unsigned
    <3> QED
      BY <3>2, <3>3
  <2>2. ASSUME NEW i \in 1..n PROVE Sure(deltas[i])
    <3>1. LE(d.fields[i].index, 2) \in Seq(Octet)
      BY <2>1, LEType
    <3>2. Sure(Must(LE(d.fields[i].index, 2)))
      BY <3>1, SureOne
    <3> QED
      BY <1>4, <2>1, <3>2, SureConcat
  <2>3. deltas = [i \in 1..n |-> deltas[i]]
    OBVIOUS
  <2> HIDE DEF deltas, n
  <2> QED
    BY <1>1, <2>2, <2>3, SureEach
<1>7. DSMSegments(d) = h \o
        (CASE d.type = KeyFrame /\ d.enc = RawData   -> no
           [] d.type = KeyFrame /\ d.enc # RawData   -> c \o FlattenSeq(keys)
           [] d.type = DeltaFrame /\ d.enc = RawData -> c \o no
           [] d.type = DeltaFrame /\ d.enc # RawData -> c \o FlattenSeq(deltas)
           [] d.type = KeepAlive                     -> <<>>
           [] OTHER                                  -> no)
  BY DEF DSMSegments, Each
<1> HIDE DEF h, n, c, no, keys, deltas
<1>8. CASE d.type = KeyFrame
  <2>1. d.enc # RawData
    BY <1>1, <1>8 DEF Encodable
  <2>2. DSMSegments(d) = h \o (c \o FlattenSeq(keys))
    BY <1>1, <1>7, <1>8, <2>1
  <2>3. Sure(c \o FlattenSeq(keys))
    BY <1>3, <1>5, <1>8, SureConcat
  <2> QED
    BY <1>2, <2>2, <2>3, SureConcat
<1>9. CASE d.type = DeltaFrame
  <2>1. d.enc # RawData
    BY <1>1, <1>9 DEF Encodable
  <2>2. DSMSegments(d) = h \o (c \o FlattenSeq(deltas))
    BY <1>1, <1>7, <1>9, <2>1
  <2>3. Sure(c \o FlattenSeq(deltas))
    BY <1>3, <1>6, <1>9, SureConcat
  <2> QED
    BY <1>2, <2>2, <2>3, SureConcat
<1>10. CASE d.type = KeepAlive
  <2>1. DSMSegments(d) = h \o <<>>
    BY <1>1, <1>7, <1>10
  <2> QED
    BY <1>2, <2>1, SureOne, SureConcat
<1> QED
  BY <1>8, <1>9, <1>10 DEF Encodable

\* The flags, the publisher, the group header.
LEMMA FrontSure ==
    ASSUME NEW m \in NetworkMessages
    PROVE  Sure(FlagSegments(m)) /\ Sure(PublisherIdSegments(m)) /\ Sure(Field(m, "classId", 16))
           /\ Sure(GroupSegments(m))
<1> DEFINE a == Must(<<NMFlag(m)>>)
           b == IF ExtendedFlags1Enabled(m) THEN Must(<<Ext1Flag(m)>>) ELSE <<>>
           c == IF ExtendedFlags2Enabled(m) THEN Must(<<Ext2Flag(m)>>) ELSE <<>>
<1>0. /\ \A f \in NMFields : m.val[f] \in Nat
      /\ \A f \in NMFields : \A w \in Widths : Sure(Field(m, f, w))
  <2>1. m.val \in [NMFields -> Nat]
    BY MessageHas
  <2>2. \A f \in NMFields : m.val[f] \in Nat
    BY <2>1
  <2> QED
    BY <2>2, SureOne
<1>1. FlagSegments(m) = a \o b \o c
  BY DEF FlagSegments, NMFlag, Ext1Flag, Ext2Flag
<1>2. Sure(a) /\ Sure(b) /\ Sure(c)
  <2>1. <<NMFlag(m)>> \in Seq(Octet) /\ <<Ext1Flag(m)>> \in Seq(Octet) /\ <<Ext2Flag(m)>> \in Seq(Octet)
    BY MessageFlags
  <2>2. Sure(Must(<<NMFlag(m)>>)) /\ Sure(Must(<<Ext1Flag(m)>>)) /\ Sure(Must(<<Ext2Flag(m)>>)) /\ Sure(<<>>)
    BY <2>1, SureOne
  <2> QED
    BY <2>2
<1> HIDE DEF a, b, c
<1>3. Sure(a \o b \o c)
  <2>1. Sure(a \o b)
    BY <1>2, SureConcat
  <2> QED
    BY <1>2, <2>1, SureConcat
<1>4. Sure(PublisherIdSegments(m))
  <2>1. EncodeArray(m.pubString, 1) \in Seq(Octet)
    BY MessageHas, StringBytes
  <2>2. Sure(Must(EncodeArray(m.pubString, 1))) /\ Sure(<<>>)
    BY <2>1, SureOne
  <2>3. m.pubType # StringId => Sure(Field(m, "publisherId", PublisherIdWidth(m.pubType)))
    BY <1>0, MessageHas DEF NMFields
  <2> QED
    BY <2>2, <2>3 DEF PublisherIdSegments
<1>5. Sure(Field(m, "classId", 16))
  BY <1>0 DEF NMFields, Widths
<1>6. Sure(GroupSegments(m))
  <2> DEFINE g == Must(<<GroupFlag(m)>>)
             f1 == Field(m, "writerGroupId", 2) f2 == Field(m, "groupVersion", 4)
             f3 == Field(m, "nmNumber", 2)      f4 == Field(m, "sequenceNumber", 2)
  <2>1. GroupSegments(m) = IF "groupHeader" \notin m.on THEN <<>> ELSE g \o f1 \o f2 \o f3 \o f4
    BY DEF GroupSegments, GroupFlag
  <2>2. Sure(g)
    <3>1. GroupFlag(m) \in Octet
      BY GroupByte DEF GroupFlag
    <3>2. <<GroupFlag(m)>> \in Seq(Octet)
      BY <3>1
    <3> QED
      BY <3>2, SureOne
  <2>3. Sure(f1) /\ Sure(f2) /\ Sure(f3) /\ Sure(f4)
    BY <1>0 DEF NMFields, Widths
  <2> HIDE DEF g, f1, f2, f3, f4
  <2>4. Sure(g \o f1 \o f2)
    BY <2>2, <2>3, SureConcat
  <2>5. Sure(g \o f1 \o f2 \o f3 \o f4)
    BY <2>3, <2>4, SureConcat
  <2> QED
    BY <2>1, <2>5, SureOne
<1> QED
  BY <1>1, <1>3, <1>4, <1>5, <1>6

\* The security header, the payload, the trailer.
LEMMA BackSure ==
    ASSUME NEW m \in NetworkMessages, Sendable(m)
    PROVE  Sure(SecurityHeaderSegments(m)) /\ Sure(PayloadSegments(m)) /\ Sure(TrailerSegments(m))
<1>1. Sure(SecurityHeaderSegments(m))
  <2> DEFINE a == Must(<<SecurityFlag(m)>>)
             b == Must(LE(m.val["tokenId"], 4))
             c == Must(<<Len(m.nonce)>>)
             d == Must(m.nonce)
             e == IF "footer" \in m.on THEN Must(LE(m.val["footerSize"], 2)) ELSE <<>>
  <2>1. SecurityHeaderSegments(m) = IF "security" \notin m.on THEN <<>> ELSE a \o b \o c \o d \o e
    BY DEF SecurityHeaderSegments, SecurityFlag
  <2>2. Sure(a) /\ Sure(b) /\ Sure(c) /\ Sure(d) /\ Sure(e)
    <3>1. <<SecurityFlag(m)>> \in Seq(Octet) /\ <<Len(m.nonce)>> \in Seq(Octet)
      BY SecurityPiece
    <3>2. LE(m.val["tokenId"], 4) \in Seq(Octet) /\ LE(m.val["footerSize"], 2) \in Seq(Octet)
      BY MessageHas, LEType DEF Unsigned
    <3>3. m.nonce \in Seq(Octet)
      BY MessageHas
    <3>4. Sure(Must(LE(m.val["footerSize"], 2))) /\ Sure(<<>>)
      BY <3>2, SureOne
    <3> QED
      BY <3>1, <3>2, <3>3, <3>4, SureOne
  <2> HIDE DEF a, b, c, d, e
  <2>3. Sure(a \o b \o c)
    BY <2>2, SureConcat
  <2>4. Sure(a \o b \o c \o d \o e)
    BY <2>2, <2>3, SureConcat
  <2> QED
    BY <2>1, <2>4, SureOne
<1>2. Sure(PayloadSegments(m))
  <2> DEFINE n == DSMCount(m)
             sizes == [i \in 1..n |-> Must(LE(TableOf(m)[i], 2))]
             raw == [i \in 1..n |-> Must(LE((IF m.sizes # <<>> /\ m.sizes[i] # 0 THEN m.sizes[i]
                                             ELSE DSMSize(m.dsms[i]) % 65536), 2))]
             d == [i \in 1..n |-> DSMSegments(m.dsms[i])]
  <2>1. n \in Nat /\ \A i \in 1..n : m.dsms[i] \in DataSetMessages /\ SizeAt(m, i) \in Unsigned(2)
    BY MessageHas, SizesFit
  <2>2. raw = sizes
    BY DEF TableOf, SizeAt
  <2>3. PayloadSegments(m) = (IF n > 1 THEN FlattenSeq(raw) ELSE <<>>) \o FlattenSeq(d)
    BY DEF PayloadSegments, Each, Sendable
  <2>4. Sure(FlattenSeq(sizes))
    <3>1. \A i \in 1..n : TableOf(m)[i] \in Nat
      BY <2>1 DEF TableOf, Unsigned
    <3>2. \A i \in 1..n : Sure(sizes[i])
      <4> SUFFICES ASSUME NEW i \in 1..n PROVE Sure(Must(LE(TableOf(m)[i], 2)))
        OBVIOUS
      <4>1. LE(TableOf(m)[i], 2) \in Seq(Octet)
        BY <3>1, LEType
      <4> QED
        BY <4>1, SureOne
    <3>3. sizes = [i \in 1..n |-> sizes[i]]
      OBVIOUS
    <3> HIDE DEF sizes, n
    <3> QED
      BY <2>1, <3>2, <3>3, SureEach
  <2>5. Sure(FlattenSeq(d))
    <3>1. \A i \in 1..n : Sure(d[i])
      BY <2>1, DSMSure DEF Sendable, AllEncodable
    <3>2. d = [i \in 1..n |-> d[i]]
      OBVIOUS
    <3> HIDE DEF d, n
    <3> QED
      BY <2>1, <3>1, <3>2, SureEach
  <2> HIDE DEF n, sizes, raw, d
  <2>6. Sure(IF n > 1 THEN FlattenSeq(raw) ELSE <<>>)
    BY <2>2, <2>4, SureOne
  <2> QED
    BY <2>3, <2>5, <2>6, SureConcat
<1>3. Sure(TrailerSegments(m))
  <2> DEFINE foot == {"security", "footer"} \subseteq m.on
             sign == {"security", "signed"} \subseteq m.on
             short == m.val["footerSize"] < 256
             f == IF foot THEN (IF short THEN Must(m.footer) ELSE Halt("BadEncodingError")) ELSE <<>>
             s == IF sign THEN Must(EncodeArray(m.signature, 1)) ELSE <<>>
  <2>1. TrailerSegments(m) = f \o s
    BY DEF TrailerSegments
  <2>2. foot => short
    BY DEF Sendable, EndlessFooter
  <2>3. Sure(Must(m.footer)) /\ Sure(Must(EncodeArray(m.signature, 1))) /\ Sure(<<>>)
    <3>1. m.footer \in Seq(Octet) /\ EncodeArray(m.signature, 1) \in Seq(Octet)
      BY MessageHas, StringBytes
    <3> QED
      BY <3>1, SureOne
  <2>4. foot \in BOOLEAN /\ sign \in BOOLEAN
    OBVIOUS
  <2> HIDE DEF foot, sign, short
  <2>5. Sure(f) /\ Sure(s)
    BY <2>2, <2>3, <2>4
  <2> HIDE DEF f, s
  <2> QED
    BY <2>1, <2>5, SureConcat
<1> QED
  BY <1>1, <1>2, <1>3

\* Firm writes one after the other, and the writes that are sure among them.
LEMMA FirmConcat ==
    ASSUME NEW s, Firm(s), NEW t, Firm(t)
    PROVE  Firm(s \o t)
<1>1. s \in Seq(Segment) /\ t \in Seq(Segment) /\ Len(s) \in Nat /\ Len(t) \in Nat
  BY DEF Firm
<1> DEFINE u == s \o t
<1>2. u \in Seq(Segment) /\ Len(u) = Len(s) + Len(t)
      /\ (\A i \in 1..Len(s) : u[i] = s[i]) /\ (\A i \in 1..Len(t) : u[Len(s) + i] = t[i])
  BY <1>1
<1> HIDE DEF u
<1> DEFINE Ok(x, i) == \/ x[i].kind = "must"
                       \/ /\ x[i].kind = "try" /\ Len(x[i].bytes) = 1 /\ x[i].keep = 0
                          /\ i + 1 \in 1..Len(x) /\ x[i + 1].kind = "must" /\ Len(x[i + 1].bytes) > 0
<1>3. ASSUME NEW i \in 1..Len(u) PROVE Ok(u, i)
  <2>1. CASE i <= Len(s)
    <3>1. i \in 1..Len(s)
      BY <1>1, <1>2, <2>1
    <3>2. u[i] = s[i] /\ (i + 1 \in 1..Len(s) => u[i + 1] = s[i + 1] /\ i + 1 \in 1..Len(u))
      BY <1>1, <1>2, <3>1
    <3>3. Ok(s, i)
      BY <3>1 DEF Firm
    <3> QED
      BY <3>2, <3>3
  <2>2. CASE ~ (i <= Len(s))
    <3> DEFINE j == i - Len(s)
    <3>1. j \in 1..Len(t) /\ i = Len(s) + j /\ i + 1 = Len(s) + (j + 1) /\ j \in Nat
      BY <1>1, <1>2, <2>2
    <3> HIDE DEF j
    <3>2. u[i] = t[j]
      BY <1>2, <3>1
    <3>3. ASSUME j + 1 \in 1..Len(t) PROVE u[i + 1] = t[j + 1] /\ i + 1 \in 1..Len(u)
      <4>1. u[Len(s) + (j + 1)] = t[j + 1]
        BY <1>2, <3>3
      <4>2. i + 1 \in 1..Len(u)
        BY <1>1, <1>2, <3>1, <3>3
      <4> QED
        BY <3>1, <4>1, <4>2
    <3>4. Ok(t, j)
      BY <3>1 DEF Firm
    <3> QED
      BY <3>2, <3>3, <3>4
  <2> QED
    BY <2>1, <2>2
<1> QED
  BY <1>2, <1>3 DEF Firm, u

\* Writes that are sure and do not halt are firm.
LEMMA SureFirm ==
    ASSUME NEW s, Sure(s), NEW b, Puts(s, b)
    PROVE  Firm(s)
<1>1. ASSUME NEW i \in 1..Len(s) PROVE s[i].kind = "must"
  <2>1. s[i].kind # "halt" /\ s[i].kind # "try"
    BY DEF Sure, Puts
  <2>2. s[i] \in Segment
    BY DEF Sure
  <2> QED
    BY <2>1, <2>2 DEF Segment
<1> QED
  BY <1>1 DEF Firm, Sure

\* The count of the payload header is not looked at, and a writer id follows.
LEMMA WriterFirm ==
    ASSUME NEW m \in NetworkMessages, ~NoWriters(m), m.nmType = 0
    PROVE  Firm(PayloadHeaderSegments(m))
<1> DEFINE n == Len(m.ids)
           s == [i \in 1..n |-> Must(LE(m.ids[i], 2))]
           r == FlattenSeq(s)
           a == Try(<<n>>, 0)
           X == {x \in Segment : x.kind = "must" /\ Len(x.bytes) = 2}
<1>1. CASE "payloadHeader" \notin m.on
  <2>1. PayloadHeaderSegments(m) = <<>>
    BY <1>1 DEF PayloadHeaderSegments
  <2> QED
    BY <2>1 DEF Firm
<1>2. CASE "payloadHeader" \in m.on
  <2>1. m.ids \in Seq(Unsigned(2)) /\ m.ids # <<>> /\ n \in Unsigned(1)
    BY <1>2, MessageHas DEF NoWriters
  <2>2. n \in Nat /\ n > 0 /\ n \in Octet /\ \A i \in 1..n : m.ids[i] \in Nat
    <3>1. n \in Nat /\ n > 0
      BY <2>1
    <3>2. n \in Octet
      <4>1. n < 256
        BY <2>1 DEF Unsigned, Limit
      <4> HIDE DEF n
      <4> QED
        BY <3>1, <4>1 DEF Octet
    <3>3. \A i \in 1..n : m.ids[i] \in Unsigned(2)
      BY <2>1
    <3>4. Unsigned(2) \subseteq Nat
      BY DEF Unsigned
    <3> QED
      BY <3>1, <3>2, <3>3, <3>4
  <2>3. PayloadHeaderSegments(m) = a \o r
    BY <1>2, <2>1 DEF PayloadHeaderSegments, Each
  <2>4. s \in Seq(Seq(X))
    <3>1. ASSUME NEW i \in 1..n PROVE Must(LE(m.ids[i], 2)) \in Seq(X)
      <4>1. LE(m.ids[i], 2) \in Seq(Octet) /\ Len(LE(m.ids[i], 2)) = 2
        BY <2>2, LEType
      <4>2. [kind |-> "must", bytes |-> LE(m.ids[i], 2), keep |-> 0, rv |-> "Good"] \in X
        BY <4>1 DEF Segment, Codes
      <4> HIDE DEF X
      <4> QED
        BY <4>2 DEF Must
    <3> HIDE DEF X, n
    <3> QED
      BY <2>2, <3>1
  <2>5. r \in Seq(X)
    <3> HIDE DEF s, X
    <3> QED
      BY <2>4, FlattenType
  <2>6. Piece(r, NumbersBytes(m.ids, n, 2), 2 * n)
    BY <2>2, NumbersPiece DEF Widths
  <2>7. Len(r) \in Nat /\ Len(r) > 0
    <3> DEFINE b == NumbersBytes(m.ids, n, 2)
    <3> HIDE DEF r, b, n
    <3>1. Puts(r, b) /\ Len(b) = 2 * n /\ b \in Seq(Octet) /\ r \in Seq(Segment)
      BY <2>6, PieceType DEF b
    <3>2. Len(r) = 0 => b = <<>>
      BY <3>1 DEF Puts
    <3>3. b # <<>>
      BY <2>2, <3>1
    <3> QED
      BY <3>1, <3>2, <3>3
  <2>8. \A i \in 1..Len(r) : r[i] \in Segment /\ r[i].kind = "must" /\ Len(r[i].bytes) = 2
    <3>1. \A i \in 1..Len(r) : r[i] \in X
      <4> HIDE DEF r, X
      <4> QED
        BY <2>5
    <3> QED
      BY <3>1
  <2>9. a = << [kind |-> "try", bytes |-> <<n>>, keep |-> 0, rv |-> "Good"] >> /\ a \in Seq(Segment)
    <3>1. <<n>> \in Seq(Octet)
      BY <2>2
    <3>2. a \in Seq(Segment)
      <4> DEFINE b == <<n>>
      <4>1. b \in Seq(Octet)
        BY <3>1
      <4> HIDE DEF b
      <4>2. Try(b, 0) \in Seq(Segment)
        BY <4>1, MustPuts
      <4> QED
        BY <4>2 DEF b
    <3> QED
      BY <3>2 DEF Try
  <2> HIDE DEF r, s, X, n
  <2>10. r \in Seq(Segment)
    BY <2>6, PieceType
  <2> DEFINE u == a \o r
  <2>11. Len(a) = 1 /\ a[1].kind = "try" /\ Len(a[1].bytes) = 1 /\ a[1].keep = 0
    BY <2>9
  <2> HIDE DEF a
  <2>12. u \in Seq(Segment) /\ Len(u) = 1 + Len(r) /\ u[1] = a[1] /\ \A i \in 1..Len(r) : u[1 + i] = r[i]
    BY <2>7, <2>9, <2>10, <2>11
  <2> HIDE DEF u
  <2>13. u[2] = r[1] /\ 1 \in 1..Len(r) /\ 2 \in 1..Len(u)
    BY <2>7, <2>12
  <2>14. ASSUME NEW i \in 1..Len(u)
         PROVE  \/ u[i].kind = "must"
                \/ /\ u[i].kind = "try" /\ Len(u[i].bytes) = 1 /\ u[i].keep = 0
                   /\ i + 1 \in 1..Len(u) /\ u[i + 1].kind = "must" /\ Len(u[i + 1].bytes) > 0
    <3>1. CASE i = 1
      <4>1. u[1].kind = "try" /\ Len(u[1].bytes) = 1 /\ u[1].keep = 0
        BY <2>11, <2>12
      <4>2. u[2].kind = "must" /\ Len(u[2].bytes) = 2 /\ 2 \in 1..Len(u) /\ 1 + 1 = 2
        BY <2>8, <2>13
      <4>3. /\ u[1].kind = "try" /\ Len(u[1].bytes) = 1 /\ u[1].keep = 0
            /\ 1 + 1 \in 1..Len(u) /\ u[1 + 1].kind = "must" /\ Len(u[1 + 1].bytes) > 0
        <5>1. Len(u[2].bytes) > 0
          BY <4>2
        <5> QED
          BY <4>1, <4>2, <5>1
      <4> QED
        BY <3>1, <4>3
    <3>2. CASE i # 1
      <4>1. i - 1 \in 1..Len(r) /\ 1 + (i - 1) = i
        BY <2>7, <2>12, <3>2
      <4>2. u[i] = r[i - 1]
        BY <2>12, <4>1
      <4> QED
        BY <2>8, <4>1, <4>2
    <3> QED
      BY <3>1, <3>2
  <2>15. Firm(u)
    BY <2>12, <2>14 DEF Firm
  <2> QED
    BY <2>3, <2>15 DEF u
<1> QED
  BY <1>1, <1>2

\* Without an extended header every failing write of the encoder is noticed.
LEMMA MessageFirm ==
    ASSUME NEW m \in NetworkMessages, Sendable(m),
           m.on \cap {"timestamp", "picoseconds", "promoted"} = {}
    PROVE  Firm(Segments(m))
<1> DEFINE s1 == FlagSegments(m)
           s2 == PublisherIdSegments(m)
           s3 == Field(m, "classId", 16)
           s4 == GroupSegments(m)
           s5 == PayloadHeaderSegments(m)
           s6 == ExtendedHeaderSegments(m)
           s8 == SecurityHeaderSegments(m)
           s9 == PayloadSegments(m)
           sx == TrailerSegments(m)
<1>1. Segments(m) = s1 \o s2 \o s3 \o s4 \o s5 \o s6 \o s8 \o s9 \o sx
  BY DEF Segments
<1>2. m.nmType = 0 /\ ~NoWriters(m) /\ AllEncodable(m) /\ ~EndlessFooter(m)
  BY DEF Sendable
<1>3. s6 = <<>>
  <2>1. StampSegments(m) = <<>> \o <<>> /\ PromotedSegments(m) = <<>>
    BY DEF StampSegments, PromotedSegments
  <2>2. <<>> \o <<>> = <<>>
    OBVIOUS
  <2> QED
    BY <2>1, <2>2, ExtendedIs
<1>4. Firm(<<>>)
  BY DEF Firm
<1>5. Firm(s1) /\ Firm(s2) /\ Firm(s3) /\ Firm(s4)
  <2>1. \E b : Puts(s1, b)
    BY FlagsPiece, PieceType
  <2>2. \E b : Puts(s2, b)
    BY PublisherPiece, PieceType
  <2>3. \E b : Puts(s3, b)
    BY ClassPiece, PieceType
  <2>4. \E b : Puts(s4, b)
    BY GroupPiece, PieceType
  <2>5. Sure(s1) /\ Sure(s2) /\ Sure(s3) /\ Sure(s4)
    BY FrontSure
  <2> HIDE DEF s1, s2, s3, s4
  <2> QED
    BY <2>1, <2>2, <2>3, <2>4, <2>5, SureFirm
<1>6. Firm(s8) /\ Firm(s9) /\ Firm(sx)
  <2>1. \E b : Puts(s8, b)
    BY SecurityPiece, PieceType
  <2>2. \E b : Puts(s9, b)
    BY <1>2, PayloadPiece, PieceType
  <2>3. \E b : Puts(sx, b)
    BY <1>2, TrailerPiece, PieceType
  <2>4. Sure(s8) /\ Sure(s9) /\ Sure(sx)
    BY BackSure
  <2> HIDE DEF s8, s9, sx
  <2> QED
    BY <2>1, <2>2, <2>3, <2>4, SureFirm
<1>7. Firm(s5)
  BY <1>2, WriterFirm
<1> HIDE DEF s1, s2, s3, s4, s5, s6, s8, s9, sx
<1>8. Firm(s1 \o s2 \o s3)
  <2>1. Firm(s1 \o s2)
    BY <1>5, FirmConcat
  <2> QED
    BY <1>5, <2>1, FirmConcat
<1>9. Firm(s1 \o s2 \o s3 \o s4 \o s5)
  <2>1. Firm(s1 \o s2 \o s3 \o s4)
    BY <1>5, <1>8, FirmConcat
  <2> QED
    BY <1>7, <2>1, FirmConcat
<1>10. Firm(s1 \o s2 \o s3 \o s4 \o s5 \o s6 \o s8)
  <2>1. Firm(s1 \o s2 \o s3 \o s4 \o s5 \o s6)
    BY <1>3, <1>4, <1>9, FirmConcat
  <2> QED
    BY <1>6, <2>1, FirmConcat
<1>11. Firm(s1 \o s2 \o s3 \o s4 \o s5 \o s6 \o s8 \o s9)
  BY <1>6, <1>10, FirmConcat
<1>12. Firm(s1 \o s2 \o s3 \o s4 \o s5 \o s6 \o s8 \o s9 \o sx)
  BY <1>6, <1>11, FirmConcat
<1> QED
  BY <1>1, <1>12

\* What encodeBinary makes of a message, for every buffer.
THEOREM EncodeFits ==
    ASSUME NEW m \in NetworkMessages, NEW n \in Nat, NEW x, x = EncodeBinary(m, n)
    PROVE  /\ CalcSize(m) \in Nat
           /\ x.rv \in Codes /\ x.out \in Seq(Octet) /\ Len(x.out) <= n
           /\ ~Sendable(m) => x.rv # "Good"
           /\ Sendable(m) => /\ MessageBytes(m) \in Seq(Octet) /\ Len(MessageBytes(m)) = CalcSize(m)
                             /\ CalcSize(m) <= n => x.rv = "Good" /\ x.out = MessageBytes(m)
           /\ Sendable(m) /\ m.on \cap {"timestamp", "picoseconds", "promoted"} = {} /\ n < CalcSize(m)
                => x.rv # "Good"
<1>1. /\ Segments(m) \in Seq(Segment) /\ CalcSize(m) \in Nat
      /\ Sendable(m) => Piece(Segments(m), MessageBytes(m), CalcSize(m))
      /\ ~Sendable(m) => Halts(Segments(m))
  BY MessagePiece
<1>2. x = Write(Segments(m), n)
  BY DEF EncodeBinary
<1> DEFINE s == Segments(m)
           b == MessageBytes(m)
           z == CalcSize(m)
<1>3. Sendable(m) /\ m.on \cap {"timestamp", "picoseconds", "promoted"} = {} => Firm(s)
  BY MessageFirm
<1> HIDE DEF s, b, z
<1>4. s \in Seq(Segment) /\ z \in Nat /\ x = Write(s, n) /\ (Sendable(m) => Piece(s, b, z))
      /\ (~Sendable(m) => Halts(s))
  BY <1>1, <1>2 DEF s, b, z
<1>5. x \in Buffers(n) /\ (Halts(s) => x.rv # "Good")
      /\ \A c : Puts(s, c) /\ Len(c) <= n => x.rv = "Good" /\ x.out = c
  BY <1>4, Writes
<1>6. x.rv \in Codes /\ x.out \in Seq(Octet) /\ Len(x.out) <= n
  BY <1>5 DEF Buffers
<1>7. ASSUME Sendable(m)
      PROVE  /\ b \in Seq(Octet) /\ Len(b) = z
             /\ z <= n => x.rv = "Good" /\ x.out = b
             /\ m.on \cap {"timestamp", "picoseconds", "promoted"} = {} /\ n < z => x.rv # "Good"
  <2>1. Puts(s, b) /\ b \in Seq(Octet) /\ Len(b) = z
    BY <1>4, <1>7, PieceType
  <2>2. z <= n => x.rv = "Good" /\ x.out = b
    BY <1>5, <2>1
  <2>3. m.on \cap {"timestamp", "picoseconds", "promoted"} = {} /\ n < z => x.rv # "Good"
    BY <1>3, <1>4, <1>7, <2>1, FirmWrites
  <2> QED
    BY <2>1, <2>2, <2>3
<1> QED
  BY <1>4, <1>5, <1>6, <1>7 DEF s, b, z

---------------------------------------------------------------------------
(* Decoding: what a section makes of the message, whatever the bytes are. *)

\* The blocks a decoder allocates.
Strings   == {"pubString", "ids", "nonce", "footer", "signature", "sizes"}
AnyBlocks == Strings \cup {"promoted", "dsms"} \cup {ToString(i) : i \in Nat}

\* A NetworkMessage as a decoder fills it.
LooseMessages ==
    [on : SUBSET AllFeatures, version : Nat, pubType : Nat, nmType : Nat, val : [NMFields -> Nat],
     pubString : Seq(Nat), ids : Seq(Nat), count : Nat, promoted : Seq(Variants),
     nonce : Seq(Nat), footer : Seq(Nat), signature : Seq(Nat),
     dsms : Seq(LooseDSMs), sizes : Seq(Nat), heap : SUBSET AnyBlocks]

States(src) == [rv : Codes, pos : 0..Len(src), last : Nat, dst : LooseMessages]

\* A sequence over a set is one over every larger set.
LEMMA SeqOfMore ==
    ASSUME NEW U, NEW V, U \subseteq V, NEW v \in Seq(U)
    PROVE  v \in Seq(V)
<1>1. Len(v) \in Nat /\ v = [i \in 1..Len(v) |-> v[i]] /\ \A i \in 1..Len(v) : v[i] \in V
  OBVIOUS
<1> DEFINE n == Len(v)
<1>2. \A i \in 1..n : v[i] \in V
  BY <1>1
<1>3. n \in Nat /\ v = [i \in 1..n |-> v[i]]
  BY <1>1
<1> HIDE DEF n
<1>4. [i \in 1..n |-> v[i]] \in Seq(V)
  BY <1>2, <1>3
<1> QED
  BY <1>3, <1>4

\* What the sections in front of the payload leave alone.
Grown(d, e) ==
    /\ e.dsms = d.dsms /\ e.heap = d.heap /\ e.pubType = d.pubType /\ e.nmType = d.nmType
    /\ d.on \subseteq e.on

\* Growing is reflexive and transitive.
LEMMA GrownOn ==
    /\ \A d : Grown(d, d)
    /\ \A c, d, e : Grown(c, d) /\ Grown(d, e) => Grown(c, e)
BY DEF Grown

\* A section that has taken x, whose message is as it was.
LEMMA TookType ==
    ASSUME NEW src, NEW r \in States(src), NEW T, T \subseteq Nat, NEW k \in Outcomes(src, T),
           NEW x, x = Took(r, k)
    PROVE  /\ x \in States(src) /\ x.rv = k.rv /\ x.pos = k.pos /\ x.last = k.value /\ x.dst = r.dst
BY DEF Took, States, Outcomes

\* Taking a number.
LEMMA TakeType ==
    ASSUME NEW src \in Seq(Octet), NEW r \in States(src), NEW w \in Widths, NEW x, x = Take(src, r, w)
    PROVE  /\ x \in States(src) /\ x.dst = r.dst
           /\ r.rv # "Good" => x = r
           /\ x.rv = "Good" => x.last \in Unsigned(w) /\ x.pos = r.pos + w
<1> DEFINE k == Read(src, r.pos, w)
<1>1. r.pos \in 0..Len(src)
  BY DEF States
<1>2. k \in Outcomes(src, Unsigned(w))
  BY <1>1, ReadType
<1>3. k.rv = "Good" => k.pos = r.pos + w
  BY DEF Read
<1>4. x = IF r.rv = "Good" THEN Took(r, k) ELSE r
  BY DEF Take, Then
<1> HIDE DEF k
<1>5. CASE r.rv # "Good"
  BY <1>4, <1>5
<1>6. CASE r.rv = "Good"
  <2>1. Unsigned(w) \subseteq Nat
    BY DEF Unsigned
  <2>2. x \in States(src) /\ x.rv = k.rv /\ x.pos = k.pos /\ x.last = k.value /\ x.dst = r.dst
    BY <1>2, <1>4, <1>6, <2>1, TookType
  <2> QED
    BY <1>2, <1>3, <1>6, <2>2 DEF Outcomes
<1> QED
  BY <1>5, <1>6

WithOn(d, s)  == [d EXCEPT !.on = s]
WithVal(d, v) == [d EXCEPT !.val = v]

\* More features are set, and nothing else is changed.
LEMMA WithOnType ==
    ASSUME NEW d \in LooseMessages, NEW s \in SUBSET AllFeatures, d.on \subseteq s
    PROVE  WithOn(d, s) \in LooseMessages /\ Grown(d, WithOn(d, s)) /\ WithOn(d, s).on = s
BY DEF LooseMessages, WithOn, Grown

\* The integer fields are replaced, and nothing else is changed.
LEMMA WithValType ==
    ASSUME NEW d \in LooseMessages, NEW v \in [NMFields -> Nat]
    PROVE  /\ WithVal(d, v) \in LooseMessages /\ Grown(d, WithVal(d, v)) /\ WithVal(d, v).val = v
           /\ WithVal(d, v).on = d.on
BY DEF LooseMessages, WithVal, Grown

\* A byte of flags.
LEMMA ReadFlagsType ==
    ASSUME NEW src \in Seq(Octet), NEW r \in States(src), NEW masks, DOMAIN masks \subseteq AllFeatures,
           NEW x, x = ReadFlags(src, r, masks)
    PROVE  /\ x \in States(src) /\ Grown(r.dst, x.dst)
           /\ r.rv # "Good" => x = r
           /\ x.rv # "Good" => x.dst = r.dst
           /\ x.rv = "Good" => /\ x.last \in Unsigned(1)
                               /\ x.dst = WithOn(r.dst, r.dst.on \cup FlagsIn(x.last, masks))
<1> DEFINE a == Take(src, r, 1)
           s == r.dst.on \cup FlagsIn(a.last, masks)
<1>1. /\ a \in States(src) /\ a.dst = r.dst /\ (r.rv # "Good" => a = r)
      /\ a.rv = "Good" => a.last \in Unsigned(1)
  BY TakeType DEF Widths
<1>2. x = IF a.rv = "Good" THEN [a EXCEPT !.dst = WithOn(a.dst, a.dst.on \cup FlagsIn(a.last, masks))] ELSE a
  BY DEF ReadFlags, Then, WithOn
<1> HIDE DEF a
<1>3. CASE a.rv # "Good"
  BY <1>1, <1>2, <1>3, GrownOn
<1>4. CASE a.rv = "Good"
  <2>1. r.dst \in LooseMessages /\ r.dst.on \subseteq AllFeatures
    BY DEF States, LooseMessages
  <2>2. s \in SUBSET AllFeatures /\ r.dst.on \subseteq s
    BY <2>1 DEF FlagsIn
  <2>3. x = [a EXCEPT !.dst = WithOn(r.dst, s)]
    BY <1>1, <1>2, <1>4
  <2>4. s = r.dst.on \cup FlagsIn(a.last, masks)
    OBVIOUS
  <2> HIDE DEF s
  <2> DEFINE e == WithOn(r.dst, s)
  <2>5. e \in LooseMessages /\ Grown(r.dst, e)
    BY <2>1, <2>2, WithOnType
  <2>6. x = [a EXCEPT !.dst = e]
    BY <2>3
  <2> HIDE DEF e
  <2>7. x \in States(src) /\ x.dst = e /\ x.rv = "Good" /\ x.last = a.last
    BY <1>1, <1>4, <2>5, <2>6 DEF States
  <2> QED
    BY <1>1, <1>4, <2>4, <2>5, <2>7 DEF e
<1> QED
  BY <1>3, <1>4

SetField(v, f, n) == [v EXCEPT ![f] = n]

\* One integer field is replaced.
LEMMA SetFieldType ==
    ASSUME NEW v \in [NMFields -> Nat], NEW f \in NMFields, NEW n \in Nat
    PROVE  SetField(v, f, n) \in [NMFields -> Nat]
BY DEF SetField

\* One integer.
LEMMA ReadNumberType ==
    ASSUME NEW src \in Seq(Octet), NEW r \in States(src), NEW f \in NMFields, NEW w \in Widths,
           NEW x, x = ReadNumber(src, r, f, w)
    PROVE  /\ x \in States(src) /\ Grown(r.dst, x.dst)
           /\ r.rv # "Good" => x = r
           /\ x.rv = "Good" => x.dst = WithVal(r.dst, SetField(r.dst.val, f, x.last))
<1> DEFINE a == Take(src, r, w)
           v == SetField(r.dst.val, f, a.last)
<1>1. /\ a \in States(src) /\ a.dst = r.dst /\ (r.rv # "Good" => a = r)
  BY TakeType
<1>2. x = IF a.rv = "Good" THEN [a EXCEPT !.dst = WithVal(a.dst, SetField(a.dst.val, f, a.last))] ELSE a
  BY DEF ReadNumber, Then, WithVal, SetField
<1> HIDE DEF a
<1>3. CASE a.rv # "Good"
  BY <1>1, <1>2, <1>3, GrownOn
<1>4. CASE a.rv = "Good"
  <2>1. r.dst \in LooseMessages /\ r.dst.val \in [NMFields -> Nat] /\ a.last \in Nat
    BY <1>1 DEF States, LooseMessages
  <2>2. v \in [NMFields -> Nat]
    BY <2>1, SetFieldType
  <2> DEFINE e == WithVal(r.dst, v)
  <2>3. x = [a EXCEPT !.dst = e]
    BY <1>1, <1>2, <1>4
  <2> HIDE DEF v
  <2>5. e \in LooseMessages /\ Grown(r.dst, e)
    BY <2>1, <2>2, WithValType
  <2> HIDE DEF e
  <2>7. x \in States(src) /\ x.dst = e /\ x.rv = "Good" /\ x.last = a.last
    BY <1>1, <1>4, <2>3, <2>5 DEF States
  <2> QED
    BY <1>1, <1>4, <2>5, <2>7 DEF e, v
<1> QED
  BY <1>3, <1>4

\* A section of optional fields.
LEMMA ReadSectionType ==
    ASSUME NEW src \in Seq(Octet), NEW r \in States(src), NEW layout \in Seq(NMFields \X Widths),
           NEW x, x = ReadSection(src, r, layout)
    PROVE  /\ x \in States(src) /\ Grown(r.dst, x.dst)
           /\ r.rv # "Good" => x = r
<1> DEFINE b == [rv |-> r.rv, pos |-> r.pos, val |-> r.dst.val]
           y == ReadFields(src, b, r.dst.on, layout)
           e == WithVal(r.dst, y.val)
<1>1. b \in Readers(src, NMFields) /\ r.dst \in LooseMessages
  BY DEF States, LooseMessages, Readers
<1>2. x = [r EXCEPT !.rv = y.rv, !.pos = y.pos, !.dst = e]
  BY DEF ReadSection, TookSection, WithVal
<1>3. b.rv = r.rv /\ b.pos = r.pos /\ b.val = r.dst.val
  OBVIOUS
<1> HIDE DEF b
<1>4. y \in Readers(src, NMFields)
  BY <1>1, FieldsType
<1>5. b.rv # "Good" => y = b
  BY <1>1, FieldsStop
<1> HIDE DEF y
<1>6. y.val \in [NMFields -> Nat]
  BY <1>4 DEF Readers
<1>7. e \in LooseMessages /\ Grown(r.dst, e)
  BY <1>1, <1>6, WithValType
<1>8. x \in States(src) /\ x.dst = e
  <2> HIDE DEF e
  <2> QED
    BY <1>2, <1>4, <1>7 DEF States, Readers
<1>9. ASSUME r.rv # "Good" PROVE x = r
  <2>1. y.val = r.dst.val /\ y.rv = r.rv /\ y.pos = r.pos
    BY <1>3, <1>5, <1>9
  <2>2. e = r.dst
    BY <1>1, <2>1 DEF WithVal, LooseMessages
  <2> HIDE DEF e
  <2> QED
    BY <1>2, <2>1, <2>2 DEF States
<1> QED
  BY <1>7, <1>8, <1>9

\* A message with a byte string, or an array of numbers, in memory of its own.
Stored(d, member, v, heap) == [d EXCEPT ![member] = v, !.heap = heap]

\* A member is stored with its block, and nothing else is changed.
LEMMA StoredType ==
    ASSUME NEW d \in LooseMessages, NEW member \in Strings, NEW v \in Seq(Nat),
           NEW h \in SUBSET AnyBlocks, NEW e, e = Stored(d, member, v, h)
    PROVE  /\ e \in LooseMessages /\ e.heap = h
           /\ e.on = d.on /\ e.pubType = d.pubType /\ e.nmType = d.nmType /\ e.dsms = d.dsms
           /\ e.count = d.count /\ e.val = d.val
<1>1. CASE member = "pubString"
  BY <1>1 DEF Stored, LooseMessages
<1>2. CASE member = "ids"
  BY <1>2 DEF Stored, LooseMessages
<1>3. CASE member = "nonce"
  BY <1>3 DEF Stored, LooseMessages
<1>4. CASE member = "footer"
  BY <1>4 DEF Stored, LooseMessages
<1>5. CASE member = "signature"
  BY <1>5 DEF Stored, LooseMessages
<1>6. CASE member = "sizes"
  BY <1>6 DEF Stored, LooseMessages
<1> QED
  BY <1>1, <1>2, <1>3, <1>4, <1>5, <1>6 DEF Strings

\* The message behind a section that allocated at most the block of one member.
Holds(d, e, member) ==
    /\ e.on = d.on /\ e.pubType = d.pubType /\ e.nmType = d.nmType /\ e.dsms = d.dsms
    /\ e.count = d.count /\ e.val = d.val
    /\ d.heap \subseteq e.heap /\ e.heap \subseteq d.heap \cup {member}

\* A byte string, read or not, costs the one block it is stored in.
LEMMA ReadStringType ==
    ASSUME NEW src \in Seq(Octet), NEW r \in States(src), NEW member \in Strings,
           NEW x, x = ReadString(src, r, member)
    PROVE  x \in States(src) /\ Holds(r.dst, x.dst, member)
<1> DEFINE y == DecodeArray(src, r.pos, 1)
           h == IF y.value = <<>> THEN r.dst.heap ELSE r.dst.heap \cup {member}
           e == Stored(r.dst, member, y.value, h)
<1>1. r.pos \in 0..Len(src) /\ r.dst \in LooseMessages /\ r.dst.heap \subseteq AnyBlocks
  BY DEF States, LooseMessages
<1>2. y \in Outcomes(src, Seq(Unsigned(1)))
  BY <1>1, ArrayType DEF Widths
<1>3. x = [r EXCEPT !.rv = y.rv, !.pos = y.pos, !.dst = e]
  BY DEF ReadString, Stored
<1>4. y.value \in Seq(Nat)
  <2>1. y.value \in Seq(Unsigned(1)) /\ Unsigned(1) \subseteq Nat
    BY <1>2 DEF Outcomes, Unsigned
  <2> DEFINE v == y.value
             U == Unsigned(1)
  <2>2. v \in Seq(U) /\ U \subseteq Nat
    BY <2>1
  <2> HIDE DEF v, U
  <2>3. v \in Seq(Nat)
    BY <2>2, SeqOfMore
  <2> QED
    BY <2>3 DEF v
<1>5. h \in SUBSET AnyBlocks /\ r.dst.heap \subseteq h /\ h \subseteq r.dst.heap \cup {member}
  BY <1>1 DEF AnyBlocks
<1> HIDE DEF y, h
<1>6. /\ e \in LooseMessages /\ e.heap = h
      /\ e.on = r.dst.on /\ e.pubType = r.dst.pubType /\ e.nmType = r.dst.nmType /\ e.dsms = r.dst.dsms
      /\ e.count = r.dst.count /\ e.val = r.dst.val
  BY <1>1, <1>4, <1>5, StoredType
<1> HIDE DEF e
<1>7. x \in States(src) /\ x.dst = e
  BY <1>2, <1>3, <1>6 DEF States, Outcomes
<1> QED
  BY <1>5, <1>6, <1>7 DEF Holds

\* How many numbers of w bytes the rest of the buffer holds, and how many of n
\* are read.
FitIn(c, pos, w)  == (c - pos) \div w
Got(c, pos, n, w) == IF n <= FitIn(c, pos, w) THEN n ELSE FitIn(c, pos, w)

Inside(c, pos, w, got) ==
    /\ got \in Nat /\ pos + w * got \in 0..c
    /\ \A i \in 1..got : pos + w * (i - 1) \in 0..c /\ (pos + w * (i - 1)) + w <= c

\* The numbers that are read lie in the buffer, and all of them do if they fit.
LEMMA GotFits ==
    ASSUME NEW c \in Nat, NEW pos \in 0..c, NEW n \in Nat, NEW w \in {1, 2},
           NEW got, got = Got(c, pos, n, w)
    PROVE  Inside(c, pos, w, got) /\ (n <= FitIn(c, pos, w) <=> pos + w * n <= c)
<1> DEFINE fit == FitIn(c, pos, w)
<1>0. got = (IF n <= fit THEN n ELSE fit) /\ fit = (c - pos) \div w
  BY DEF Got, FitIn
<1> HIDE DEF fit
<1>1. CASE w = 1
  <2>1. fit = c - pos
    BY <1>0, <1>1
  <2>2. got \in Nat /\ got <= c - pos
    BY <1>0, <2>1
  <2>3. \A i \in 1..got : pos + 1 * (i - 1) \in 0..c /\ (pos + 1 * (i - 1)) + 1 <= c
    BY <2>2
  <2>4. pos + 1 * got \in 0..c /\ (n <= fit <=> pos + 1 * n <= c)
    BY <2>1, <2>2
  <2> QED
    BY <1>1, <2>2, <2>3, <2>4 DEF Inside, fit
<1>2. CASE w = 2
  <2>1. fit \in Nat /\ 2 * fit <= c - pos /\ c - pos < 2 * fit + 2
    BY <1>0, <1>2
  <2>2. got \in Nat /\ got <= fit
    BY <1>0, <2>1
  <2>3. pos + 2 * got \in 0..c
    BY <2>1, <2>2
  <2>4. \A i \in 1..got : pos + 2 * (i - 1) \in 0..c /\ (pos + 2 * (i - 1)) + 2 <= c
    BY <2>1, <2>2
  <2>5. n <= fit <=> pos + 2 * n <= c
    BY <2>1
  <2> QED
    BY <1>2, <2>1, <2>2, <2>3, <2>4, <2>5 DEF Inside, fit
<1> QED
  BY <1>1, <1>2

\* An array of numbers.
LEMMA ReadNumbersType ==
    ASSUME NEW src \in Seq(Octet), NEW r \in States(src), NEW n \in Nat, NEW w \in {1, 2},
           NEW member \in Strings, NEW x, x = ReadNumbers(src, r, n, w, member)
    PROVE  /\ x \in States(src) /\ Holds(r.dst, x.dst, member)
           /\ n = 0 => x.dst.heap = r.dst.heap
<1> DEFINE p == r.pos
           c == Len(src)
           fit == FitIn(c, p, w)
           got == Got(c, p, n, w)
           v == [i \in 1..got |-> Num(src, p + w * (i - 1), w)]
           h == IF n > 0 THEN r.dst.heap \cup {member} ELSE r.dst.heap
           e == Stored(r.dst, member, v, h)
           rv == IF n <= fit THEN "Good" ELSE "BadDecodingError"
           q == p + w * got
<1>1. /\ p \in 0..c /\ c \in Nat /\ r.dst \in LooseMessages /\ r.dst.heap \subseteq AnyBlocks
      /\ w \in Widths
  BY SMTT(40) DEF States, LooseMessages, Widths
<1>2. /\ got \in Nat /\ q \in 0..c
      /\ \A i \in 1..got : p + w * (i - 1) \in 0..c /\ (p + w * (i - 1)) + w <= c
  <2>1. got = Got(c, p, n, w)
    OBVIOUS
  <2> HIDE DEF fit, got, c, p
  <2>2. Inside(c, p, w, got)
    BY <1>1, <2>1, GotFits
  <2> QED
    BY <2>2 DEF Inside
<1>3. \A i \in 1..got : Num(src, p + w * (i - 1), w) \in Nat
  <2> TAKE i \in 1..got
  <2> DEFINE k == p + w * (i - 1)
  <2>1. k \in 0..Len(src) /\ k + w <= Len(src)
    BY <1>2
  <2> HIDE DEF k
  <2>2. Num(src, k, w) \in Unsigned(w)
    BY <1>1, <2>1, NumType
  <2> QED
    BY <2>2 DEF Unsigned, k
<1>4. v \in Seq(Nat)
  <2> HIDE DEF got, p
  <2> QED
    BY <1>2, <1>3
<1>5. h \in SUBSET AnyBlocks /\ r.dst.heap \subseteq h /\ h \subseteq r.dst.heap \cup {member}
      /\ (n = 0 => h = r.dst.heap)
  BY <1>1 DEF AnyBlocks
<1>6. x = [r EXCEPT !.rv = rv, !.pos = q, !.dst = e]
  BY DEF ReadNumbers, Stored, FitIn, Got
<1>7. rv \in Codes
  BY DEF Codes
<1> HIDE DEF v, h, rv, q, got, fit, p, c
<1>8. /\ e \in LooseMessages /\ e.heap = h
      /\ e.on = r.dst.on /\ e.pubType = r.dst.pubType /\ e.nmType = r.dst.nmType /\ e.dsms = r.dst.dsms
      /\ e.count = r.dst.count /\ e.val = r.dst.val
  BY <1>1, <1>4, <1>5, StoredType
<1> HIDE DEF e
<1>9. q \in 0..Len(src)
  BY <1>2 DEF c
<1>10. x \in States(src) /\ x.dst = e
  BY <1>6, <1>7, <1>8, <1>9 DEF States
<1> QED
  BY <1>5, <1>8, <1>10 DEF Holds

\* The memory allocated in front of the payload, all of which clear frees.
EarlyBlocks(d) ==
    (IF "promoted" \in d.on THEN {"promoted"} ELSE {})
    \cup (IF "security" \in d.on THEN {"nonce"} ELSE {})
    \cup (IF d.nmType = 0 /\ "payloadHeader" \in d.on THEN {"ids"} ELSE {})
    \cup (IF "publisherId" \in d.on /\ d.pubType = StringId THEN {"pubString"} ELSE {})

Early(d) == d.dsms = <<>> /\ d.heap \subseteq EarlyBlocks(d)

\* The memory is accounted for: what clear does not free is the signature.
Tidy(d) == d.heap \subseteq Freed(d) \cup {"signature"}

\* clear frees every block of a message without a payload, and what it does not
\* free of any other is the signature.
LEMMA EarlyTidy ==
    /\ \A d : Early(d) => Tidy(d)
    /\ \A d, e : Early(d) /\ Grown(d, e) => Early(e)
    /\ \A d : Tidy(d) => Leaked(d) \subseteq {"signature"}
<1>1. \A d : EarlyBlocks(d) \subseteq Freed(d)
  BY DEF EarlyBlocks, Freed, HeaderTables
<1> QED
  BY <1>1 DEF Early, Tidy, Grown, EarlyBlocks, Leaked

\* A block that clear frees whatever else the message holds.
LEMMA EarlyHolds ==
    ASSUME NEW d, Early(d), NEW e, NEW member, Holds(d, e, member), member \in EarlyBlocks(d)
    PROVE  Early(e)
<1>1. EarlyBlocks(e) = EarlyBlocks(d)
  BY DEF Holds, EarlyBlocks
<1> QED
  BY <1>1 DEF Holds, Early

\* The message before decoding.
LEMMA BlankType == Blank \in LooseMessages /\ Blank.heap = {} /\ Blank.dsms = <<>> /\ Blank.on = {}
BY DEF Blank, LooseMessages

Start == [rv |-> "Good", pos |-> 0, last |-> 0, dst |-> Blank]

\* The flags allocate nothing.
Bare(src, x) == x \in States(src) /\ x.dst.heap = {} /\ x.dst.dsms = <<>>

NmTyped(r, n)   == [r EXCEPT !.dst.nmType = n]
PubTyped(r, n)  == [r EXCEPT !.dst.pubType = n]
Versioned(r, n) == [r EXCEPT !.dst.version = n]
CountSet(r, n)  == [r EXCEPT !.dst.count = n]

\* The version and the types are stored without memory.
LEMMA WithNumberType ==
    ASSUME NEW src, NEW r, Bare(src, r), NEW n \in Nat
    PROVE  Bare(src, NmTyped(r, n)) /\ Bare(src, PubTyped(r, n)) /\ Bare(src, Versioned(r, n))
BY DEF Bare, States, LooseMessages, NmTyped, PubTyped, Versioned

\* Flags are read without memory.
LEMMA FlagsBare ==
    ASSUME NEW src \in Seq(Octet), NEW r, Bare(src, r), NEW masks, DOMAIN masks \subseteq AllFeatures,
           NEW x, x = ReadFlags(src, r, masks)
    PROVE  Bare(src, x) /\ (x.rv = "Good" => x.last \in Nat)
<1>1. r \in States(src)
  BY DEF Bare
<1>2. x \in States(src) /\ Grown(r.dst, x.dst) /\ (x.rv = "Good" => x.last \in Unsigned(1))
  BY <1>1, ReadFlagsType
<1> QED
  BY <1>2 DEF Bare, Grown, Unsigned

\* Every flag byte is one of features.
LEMMA FlagsAreFeatures ==
    /\ DOMAIN NMFlags \subseteq AllFeatures /\ DOMAIN Ext1Flags \subseteq AllFeatures
    /\ DOMAIN Ext2Flags \subseteq AllFeatures /\ DOMAIN GroupFlags \subseteq AllFeatures
    /\ DOMAIN SecurityFlags \subseteq AllFeatures
BY DEF AllFeatures

\* The numbers that share a byte with flags.
LEMMA SmallNumbers == \A n \in Nat : n % 8 \in Nat /\ n % 16 \in Nat /\ (n \div 4) % 8 \in Nat
OBVIOUS

\* The second byte of extended flags is read without memory.
LEMMA Ext2Type ==
    ASSUME NEW src \in Seq(Octet), NEW r, Bare(src, r), NEW x, x = DecodeExtendedFlags2(src, r)
    PROVE  Bare(src, x)
<1> DEFINE a == ReadFlags(src, r, Ext2Flags)
           n == (a.last \div 4) % 8
<1>1. Bare(src, a) /\ (a.rv = "Good" => a.last \in Nat)
  BY FlagsBare, FlagsAreFeatures
<1>2. x = IF a.rv = "Good" THEN NmTyped(a, n) ELSE a
  BY DEF DecodeExtendedFlags2, Then, NmTyped
<1>3. a.rv = "Good" => n \in Nat
  BY <1>1, SmallNumbers
<1> HIDE DEF a, n
<1> QED
  BY <1>1, <1>2, <1>3, WithNumberType

\* The first byte of extended flags is read without memory.
LEMMA Ext1Type ==
    ASSUME NEW src \in Seq(Octet), NEW r, Bare(src, r), NEW x, x = DecodeExtendedFlags1(src, r)
    PROVE  Bare(src, x)
<1> DEFINE a == ReadFlags(src, r, Ext1Flags)
           n == a.last % 8
           s == PubTyped(a, n)
<1>1. Bare(src, a) /\ (a.rv = "Good" => a.last \in Nat)
  BY FlagsBare, FlagsAreFeatures
<1>2. x = IF a.rv = "Good" THEN (IF Bit(a.last, 128) THEN DecodeExtendedFlags2(src, s) ELSE s) ELSE a
  BY DEF DecodeExtendedFlags1, Then, PubTyped
<1>3. a.rv = "Good" => n \in Nat
  BY <1>1, SmallNumbers
<1> HIDE DEF a, n
<1>4. a.rv = "Good" => Bare(src, s)
  BY <1>1, <1>3, WithNumberType
<1> HIDE DEF s
<1> QED
  BY <1>1, <1>2, <1>4, Ext2Type

\* Nothing is allocated for the flags.
LEMMA DecodeFlagsType ==
    ASSUME NEW src \in Seq(Octet), NEW x, x = DecodeFlags(src)
    PROVE  Bare(src, x)
<1> DEFINE a == ReadFlags(src, Start, NMFlags)
           n == a.last % 16
           s == Versioned(a, n)
<1>0. Bare(src, Start)
  BY BlankType DEF Start, Bare, States, Codes
<1>1. Bare(src, a) /\ (a.rv = "Good" => a.last \in Nat)
  BY <1>0, FlagsBare, FlagsAreFeatures
<1>2. x = IF a.rv = "Good" THEN (IF Bit(a.last, 128) THEN DecodeExtendedFlags1(src, s) ELSE s) ELSE a
  BY DEF DecodeFlags, Then, Start, Versioned
<1>3. a.rv = "Good" => n \in Nat
  BY <1>1, SmallNumbers
<1> HIDE DEF a, n
<1>4. a.rv = "Good" => Bare(src, s)
  BY <1>1, <1>3, WithNumberType
<1> HIDE DEF s
<1> QED
  BY <1>1, <1>2, <1>4, Ext1Type

\* The sections in front of the payload.
EarlyState(src, x) == x \in States(src) /\ Early(x.dst)

\* More features and other integers cost no block, and none is put off.
LEMMA GrownEarly ==
    ASSUME NEW src, NEW r, EarlyState(src, r), NEW x \in States(src), Grown(r.dst, x.dst)
    PROVE  EarlyState(src, x)
BY EarlyTidy DEF EarlyState

\* A message without memory has nothing that clear leaves.
LEMMA BareEarly ==
    ASSUME NEW src, NEW x, Bare(src, x)
    PROVE  EarlyState(src, x)
BY DEF Bare, EarlyState, Early

\* The string of a publisher id is freed by the type that made it one.
LEMMA PublisherIdType ==
    ASSUME NEW src \in Seq(Octet), NEW r, EarlyState(src, r), NEW x, x = DecodePublisherId(src, r)
    PROVE  EarlyState(src, x)
<1> DEFINE t == r.dst.pubType
<1>0. r \in States(src) /\ t \in Nat
  BY DEF EarlyState, States, LooseMessages
<1>1. CASE ~ (r.rv = "Good" /\ "publisherId" \in r.dst.on)
  BY <1>1 DEF DecodePublisherId, When
<1>2. CASE r.rv = "Good" /\ "publisherId" \in r.dst.on /\ t < StringId
  <2> DEFINE w == PublisherIdWidth(t)
  <2>1. x = ReadNumber(src, r, "publisherId", w)
    <3>1. t # StringId
      BY <1>0, <1>2 DEF StringId
    <3> QED
      BY <1>2, <3>1 DEF DecodePublisherId, When
  <2>2. w \in Widths /\ "publisherId" \in NMFields
    BY DEF PublisherIdWidth, Widths, NMFields
  <2> HIDE DEF w
  <2>3. x \in States(src) /\ Grown(r.dst, x.dst)
    BY <1>0, <2>1, <2>2, ReadNumberType
  <2> QED
    BY <2>3, GrownEarly
<1>3. CASE r.rv = "Good" /\ "publisherId" \in r.dst.on /\ t = StringId
  <2>1. x = ReadString(src, r, "pubString")
    BY <1>3 DEF DecodePublisherId, When, StringId
  <2>2. x \in States(src) /\ Holds(r.dst, x.dst, "pubString")
    BY <1>0, <2>1, ReadStringType DEF Strings
  <2>3. "pubString" \in EarlyBlocks(r.dst) /\ Early(r.dst)
    BY <1>3 DEF EarlyBlocks, EarlyState
  <2> QED
    BY <2>2, <2>3, EarlyHolds DEF EarlyState
<1>4. CASE r.rv = "Good" /\ "publisherId" \in r.dst.on /\ ~ (t < StringId) /\ t # StringId
  <2>1. x = [r EXCEPT !.rv = "BadInternalError"]
    BY <1>4 DEF DecodePublisherId, When
  <2> QED
    BY <2>1 DEF EarlyState, States, Codes
<1> QED
  BY <1>1, <1>2, <1>3, <1>4

\* A run of optional integers allocates nothing.
LEMMA ClassType ==
    ASSUME NEW src \in Seq(Octet), NEW r, EarlyState(src, r), NEW layout \in Seq(NMFields \X Widths),
           NEW x, x = ReadSection(src, r, layout)
    PROVE  EarlyState(src, x)
<1>1. r \in States(src)
  BY DEF EarlyState
<1>2. x \in States(src) /\ Grown(r.dst, x.dst)
  BY <1>1, ReadSectionType
<1> QED
  BY <1>2, GrownEarly

\* The group header allocates nothing.
LEMMA GroupType ==
    ASSUME NEW src \in Seq(Octet), NEW r, EarlyState(src, r), NEW x, x = DecodeGroupHeader(src, r)
    PROVE  EarlyState(src, x)
<1> DEFINE a == ReadFlags(src, r, GroupFlags)
<1>1. CASE ~ (r.rv = "Good" /\ "groupHeader" \in r.dst.on)
  BY <1>1 DEF DecodeGroupHeader, When
<1>2. CASE r.rv = "Good" /\ "groupHeader" \in r.dst.on
  <2>1. x = ReadSection(src, a, GroupLayout)
    BY <1>2 DEF DecodeGroupHeader, When
  <2>2. a \in States(src) /\ Grown(r.dst, a.dst)
    BY ReadFlagsType, FlagsAreFeatures DEF EarlyState
  <2> HIDE DEF a
  <2>3. EarlyState(src, a)
    BY <2>2, GrownEarly
  <2> QED
    BY <2>1, <2>3, ClassType, LayoutsAre
<1> QED
  BY <1>1, <1>2

\* The count is stored without memory.
LEMMA CountDstType ==
    ASSUME NEW src, NEW r, EarlyState(src, r), NEW n \in Nat, NEW x, x = CountSet(r, n)
    PROVE  EarlyState(src, x) /\ x.rv = r.rv /\ x.pos = r.pos /\ x.dst.on = r.dst.on
           /\ x.dst.nmType = r.dst.nmType
<1>1. r \in States(src) /\ r.dst \in LooseMessages
  BY DEF EarlyState, States
<1>2. x \in States(src) /\ x.rv = r.rv /\ x.pos = r.pos /\ x.dst = [r.dst EXCEPT !.count = n]
  BY <1>1 DEF States, LooseMessages, CountSet
<1>3. Grown(r.dst, x.dst) /\ x.dst.on = r.dst.on /\ x.dst.nmType = r.dst.nmType
  <2> DEFINE d == r.dst
             e == x.dst
  <2>1. d \in LooseMessages /\ e = [d EXCEPT !.count = n]
    BY <1>1, <1>2
  <2> HIDE DEF d, e
  <2>2. Grown(d, e) /\ e.on = d.on /\ e.nmType = d.nmType
    BY <2>1 DEF Grown, LooseMessages
  <2> QED
    BY <2>2 DEF d, e
<1> QED
  BY <1>2, <1>3, GrownEarly

\* The table of writer ids is freed by the flag of its header.
LEMMA PayloadHeaderType ==
    ASSUME NEW src \in Seq(Octet), NEW r, EarlyState(src, r), NEW x, x = DecodePayloadHeader(src, r)
    PROVE  EarlyState(src, x)
<1>0. r \in States(src)
  BY DEF EarlyState
<1>1. CASE ~ (r.rv = "Good" /\ "payloadHeader" \in r.dst.on)
  BY <1>1 DEF DecodePayloadHeader, When
<1>2. CASE r.rv = "Good" /\ "payloadHeader" \in r.dst.on /\ r.dst.nmType # 0
  <2>1. x = [r EXCEPT !.rv = "BadNotImplemented"]
    BY <1>2 DEF DecodePayloadHeader, When
  <2> QED
    BY <2>1 DEF EarlyState, States, Codes
<1>3. CASE r.rv = "Good" /\ "payloadHeader" \in r.dst.on /\ r.dst.nmType = 0
  <2> DEFINE b == Take(src, r, 1)
             n == b.last
             c == CountSet(b, n)
  <2>1. x = IF b.rv = "Good" THEN ReadNumbers(src, c, n, 2, "ids") ELSE b
    BY <1>3 DEF DecodePayloadHeader, When, Then, CountSet
  <2>2. b \in States(src) /\ b.dst = r.dst
    BY <1>0, TakeType DEF Widths
  <2> HIDE DEF b
  <2>3. EarlyState(src, b) /\ n \in Nat
    BY <2>2 DEF EarlyState, States
  <2> HIDE DEF n
  <2>4. EarlyState(src, c) /\ c.dst.on = b.dst.on /\ c.dst.nmType = b.dst.nmType
    BY <2>3, CountDstType
  <2> HIDE DEF c
  <2>5. CASE b.rv # "Good"
    BY <2>1, <2>3, <2>5
  <2>6. CASE b.rv = "Good"
    <3>1. x = ReadNumbers(src, c, n, 2, "ids") /\ c \in States(src) /\ Early(c.dst)
      BY <2>1, <2>4, <2>6 DEF EarlyState
    <3>2. x \in States(src) /\ Holds(c.dst, x.dst, "ids")
      BY ZenonT(40), <2>3, <3>1, ReadNumbersType DEF Strings
    <3>3. "ids" \in EarlyBlocks(c.dst)
      BY <1>3, <2>2, <2>4 DEF EarlyBlocks
    <3> QED
      BY <3>1, <3>2, <3>3, EarlyHolds DEF EarlyState
  <2> QED
    BY <2>5, <2>6
<1> QED
  BY <1>1, <1>2, <1>3

---------------------------------------------------------------------------
(* The loops over the promoted fields and over the DataSetMessages. *)

\* g goes through the turns of a loop.
Turning(g, S, b, n, step) ==
    g[0] = b /\ \A i \in 1..n : g[i - 1] \in S => g[i] = step[<<g[i - 1], i>>]

\* There is one way to go through them.
LEMMA LoopAgrees ==
    ASSUME NEW S, NEW b, NEW n \in Nat, NEW step, NEW f, Loops(f, S, b, n, step),
           NEW g, Turning(g, S, b, n, step)
    PROVE  g[n] = f[n]
<1> DEFINE T == {k \in Nat : k <= n => g[k] = f[k]}
<1>1. f \in [0..n -> S] /\ f[0] = b /\ \A i \in 1..n : f[i] = step[<<f[i - 1], i>>]
  BY DEF Loops
<1>2. g[0] = b /\ \A i \in 1..n : g[i - 1] \in S => g[i] = step[<<g[i - 1], i>>]
  BY DEF Turning
<1>3. 0 \in T
  BY <1>1, <1>2
<1>4. ASSUME NEW k \in Nat, k \in T
      PROVE  k + 1 \in T
  <2> SUFFICES ASSUME k + 1 <= n PROVE g[k + 1] = f[k + 1]
    OBVIOUS
  <2> DEFINE j == k + 1
  <2>1. j \in 1..n /\ j - 1 = k /\ k \in 0..n /\ k <= n
    OBVIOUS
  <2>2. g[k] = f[k]
    BY <1>4, <2>1
  <2> HIDE DEF j
  <2>3. f[k] \in S
    BY <1>1, <2>1
  <2>4. g[j - 1] \in S /\ g[j - 1] = f[j - 1]
    BY <2>1, <2>2, <2>3
  <2>5. g[j] = step[<<g[j - 1], j>>]
    BY <1>2, <2>1, <2>4
  <2>6. f[j] = step[<<f[j - 1], j>>]
    BY <1>1, <2>1
  <2>7. g[j] = f[j]
    BY <2>4, <2>5, <2>6
  <2> QED
    BY <2>7 DEF j
<1>5. n \in T
  <2> HIDE DEF T
  <2> QED
    BY <1>3, <1>4, Induction
<1> QED
  BY <1>5

\* One promoted field, and the loop over them.
PromotedStep(src, n, end) == [p \in States(src) \X (1..n) |-> NextPromoted(src, p[1], p[2], end)]

WithPromoted(d, v) == [d EXCEPT !.promoted = Append(d.promoted, v), !.heap = d.heap \cup {"promoted"}]

\* One more promoted field, in the one array of them.
LEMMA WithPromotedType ==
    ASSUME NEW d \in LooseMessages, NEW v \in Variants, NEW e, e = WithPromoted(d, v)
    PROVE  e \in LooseMessages /\ Holds(d, e, "promoted")
<1> DEFINE s == Append(d.promoted, v)
           h == d.heap \cup {"promoted"}
<1>1. s \in Seq(Variants)
  <2> DEFINE V == Variants
             p == d.promoted
  <2>1. p \in Seq(V) /\ v \in V
    BY DEF LooseMessages
  <2> HIDE DEF V, p
  <2>2. Append(p, v) \in Seq(V)
    BY <2>1
  <2> QED
    BY <2>2 DEF p, V
<1>2. h \in SUBSET AnyBlocks
  BY DEF LooseMessages, AnyBlocks
<1>3. e = [d EXCEPT !.promoted = s, !.heap = h] /\ d.heap \subseteq h /\ h \subseteq d.heap \cup {"promoted"}
  BY DEF WithPromoted
<1> HIDE DEF s, h
<1> QED
  BY ZenonT(40), <1>1, <1>2, <1>3 DEF LooseMessages, Holds

\* A promoted field, decoded or not.
LEMMA PromoteType ==
    ASSUME NEW src, NEW r \in States(src), NEW v \in Outcomes(src, Variants), NEW x, x = Promote(r, v)
    PROVE  /\ x \in States(src) /\ Holds(r.dst, x.dst, "promoted") /\ x.rv = v.rv /\ x.pos = v.pos
           /\ x.dst = WithPromoted(r.dst, v.value)
<1> DEFINE e == WithPromoted(r.dst, v.value)
<1>1. x = [r EXCEPT !.rv = v.rv, !.pos = v.pos, !.dst = e]
  BY DEF Promote, WithPromoted
<1>2. e \in LooseMessages /\ Holds(r.dst, e, "promoted")
  <2> DEFINE d == r.dst
             u == v.value
  <2>1. d \in LooseMessages /\ u \in Variants
    BY DEF States, Outcomes
  <2> HIDE DEF d, u
  <2>2. WithPromoted(d, u) \in LooseMessages /\ Holds(d, WithPromoted(d, u), "promoted")
    BY <2>1, WithPromotedType
  <2> QED
    BY <2>2 DEF d, u
<1> HIDE DEF e
<1>3. x \in States(src) /\ x.dst = e /\ x.rv = v.rv /\ x.pos = v.pos
  BY <1>1, <1>2 DEF States, Outcomes
<1> QED
  BY <1>2, <1>3 DEF e

\* One turn of the loop over the promoted fields.
LEMMA NextPromotedType ==
    ASSUME NEW src \in Seq(Octet), NEW r \in States(src), NEW i, NEW end, NEW x, x = NextPromoted(src, r, i, end)
    PROVE  /\ x \in States(src)
           /\ x = r \/ Holds(r.dst, x.dst, "promoted")
           /\ r.rv # "Good" => x = r
<1> DEFINE v == DecodeVariant(src, r.pos)
<1>1. x = r \/ (x = Promote(r, v) /\ r.rv = "Good")
  BY DEF NextPromoted, Then
<1>2. v \in Outcomes(src, Variants)
  BY VariantType DEF States
<1> HIDE DEF v
<1>3. CASE x = r
  BY <1>3
<1>4. CASE x = Promote(r, v) /\ r.rv = "Good"
  BY <1>2, <1>4, PromoteType
<1> QED
  BY <1>1, <1>3, <1>4

\* The loop over the promoted fields, step by step.
LEMMA PromotedRuns ==
    ASSUME NEW src \in Seq(Octet), NEW r \in States(src), NEW size \in Nat, NEW n, n = Turns(src, size),
           NEW end, end = r.pos + size, NEW x, x = PromotedLoop(src, r, size)
    PROVE  n \in Nat /\ \E f : Loops(f, States(src), r, n, PromotedStep(src, n, end)) /\ x = f[n]
<1> DEFINE S == States(src)
           step == PromotedStep(src, n, end)
           Runs(f) == f = [i \in 0..n |-> IF i = 0 THEN r ELSE NextPromoted(src, f[i - 1], i, end)]
           F == CHOOSE f : Runs(f)
<1>1. n \in Nat
  <2> DEFINE k == Len(src)
  <2>1. k \in Nat /\ n = IF size > k THEN k + 1 ELSE size
    BY DEF Turns
  <2> HIDE DEF k
  <2> QED
    BY <2>1
<1>2. /\ step \in [S \X (1..n) -> S]
      /\ \A y \in S, i \in 1..n : step[<<y, i>>] = NextPromoted(src, y, i, end)
  <2>1. \A y \in S, i \in 1..n : NextPromoted(src, y, i, end) \in S
    BY NextPromotedType
  <2>2. step = [p \in S \X (1..n) |-> NextPromoted(src, p[1], p[2], end)]
    BY DEF PromotedStep
  <2> HIDE DEF S, step
  <2> QED
    BY <2>1, <2>2
<1>3. PICK f : Loops(f, S, r, n, step)
  <2>1. r \in S
    OBVIOUS
  <2> HIDE DEF S, step
  <2> QED
    BY <1>1, <1>2, <2>1, LoopExists
<1>4. \A i \in 1..n : f[i] = NextPromoted(src, f[i - 1], i, end)
  <2> TAKE i \in 1..n
  <2>1. i - 1 \in 0..n
    BY <1>1
  <2>2. f \in [0..n -> S] /\ f[i] = step[<<f[i - 1], i>>]
    BY <1>3 DEF Loops
  <2>3. f[i - 1] \in S
    BY <2>1, <2>2
  <2> HIDE DEF S, step
  <2> QED
    BY <1>2, <2>2, <2>3
<1>5. f \in [0..n -> S] /\ f[0] = r
  BY <1>3 DEF Loops
<1>6. Runs(f)
  <2> HIDE DEF S, step
  <2> QED
    BY <1>1, <1>4, <1>5
<1>7. Runs(F)
  BY <1>6
<1>8. Turning(F, S, r, n, step)
  <2>1. F[0] = r
    <3>1. 0 \in 0..n /\ F = [i \in 0..n |-> IF i = 0 THEN r ELSE NextPromoted(src, F[i - 1], i, end)]
      BY SMTT(40), <1>1, <1>7
    <3> HIDE DEF F
    <3> QED
      BY <3>1
  <2>2. ASSUME NEW i \in 1..n, F[i - 1] \in S
        PROVE  F[i] = step[<<F[i - 1], i>>]
    <3>1. i \in 0..n /\ i # 0
      BY <1>1
    <3>2. F[i] = NextPromoted(src, F[i - 1], i, end)
      BY <1>7, <3>1
    <3> DEFINE y == F[i - 1]
    <3> HIDE DEF S, step, F
    <3> QED
      BY <1>2, <2>2, <3>2
  <2> HIDE DEF F, step, S
  <2> QED
    BY <2>1, <2>2 DEF Turning
<1>9. x = F[n]
  <2> DEFINE m == IF size > Len(src) THEN Len(src) + 1 ELSE size
  <2>1. m = n
    BY DEF Turns
  <2>2. x = (CHOOSE h : h = [i \in 0..m |-> IF i = 0 THEN r ELSE NextPromoted(src, h[i - 1], i, r.pos + size)])[m]
    BY DEF PromotedLoop
  <2> HIDE DEF m
  <2> QED
    BY <2>1, <2>2
<1>10. F[n] = f[n]
  <2> HIDE DEF F, step, S
  <2> QED
    BY <1>1, <1>3, <1>8, LoopAgrees
<1> QED
  BY <1>1, <1>3, <1>9, <1>10

\* A message whose promoted fields clear frees.
PromotedState(src, x) == EarlyState(src, x) /\ "promoted" \in x.dst.on

\* The promoted fields are freed by their flag, however many were read.
LEMMA PromotedLoopType ==
    ASSUME NEW src \in Seq(Octet), NEW r, PromotedState(src, r), NEW size \in Nat,
           NEW x, x = PromotedLoop(src, r, size)
    PROVE  EarlyState(src, x)
<1> DEFINE n == Turns(src, size)
           end == r.pos + size
           step == PromotedStep(src, n, end)
           I == {p \in States(src) \X (0..n) : PromotedState(src, p[1])}
<1>0. r \in States(src)
  BY DEF PromotedState, EarlyState
<1>1. n \in Nat /\ \E f : Loops(f, States(src), r, n, step) /\ x = f[n]
  BY <1>0, PromotedRuns
<1>2. PICK f : Loops(f, States(src), r, n, step) /\ x = f[n]
  BY <1>1
<1>3. <<r, 0>> \in I
  BY <1>0, <1>1
<1>4. ASSUME NEW s \in States(src), NEW i \in 1..n, <<s, i - 1>> \in I
      PROVE  <<step[<<s, i>>], i>> \in I
  <2> DEFINE y == NextPromoted(src, s, i, end)
  <2>1. step[<<s, i>>] = y
    BY DEF PromotedStep
  <2>2. PromotedState(src, s)
    BY <1>4
  <2>3. y \in States(src) /\ (y = s \/ Holds(s.dst, y.dst, "promoted"))
    BY NextPromotedType
  <2> HIDE DEF y
  <2>4. PromotedState(src, y)
    <3>1. CASE y = s
      BY <2>2, <3>1
    <3>2. CASE Holds(s.dst, y.dst, "promoted")
      <4>1. Early(s.dst) /\ "promoted" \in EarlyBlocks(s.dst) /\ "promoted" \in s.dst.on
        BY <2>2 DEF PromotedState, EarlyState, EarlyBlocks
      <4>2. Early(y.dst)
        BY <3>2, <4>1, EarlyHolds
      <4>3. "promoted" \in y.dst.on
        BY <3>2, <4>1 DEF Holds
      <4> QED
        BY <2>3, <4>2, <4>3 DEF PromotedState, EarlyState
    <3> QED
      BY <2>3, <3>1, <3>2
  <2>5. i \in 0..n
    BY <1>1
  <2> HIDE DEF n, step
  <2> QED
    BY <2>1, <2>3, <2>4, <2>5
<1>5. <<x, n>> \in I
  <2>1. Preserves(I, States(src), n, step)
    BY <1>4 DEF Preserves
  <2>2. n \in 0..n
    BY <1>1
  <2> HIDE DEF I, n, step
  <2>3. \A i \in 0..n : f[i] \in States(src) /\ <<f[i], i>> \in I
    BY <1>1, <1>2, <1>3, <2>1, LoopKeeps
  <2> QED
    BY <1>2, <2>2, <2>3
<1> QED
  BY <1>5 DEF PromotedState

\* The section of the promoted fields.
LEMMA DecodePromotedType ==
    ASSUME NEW src \in Seq(Octet), NEW r, EarlyState(src, r), NEW x, x = DecodePromoted(src, r)
    PROVE  EarlyState(src, x)
<1>0. r \in States(src)
  BY DEF EarlyState
<1>1. CASE ~ (r.rv = "Good" /\ "promoted" \in r.dst.on)
  BY <1>1 DEF DecodePromoted, When
<1>2. CASE r.rv = "Good" /\ "promoted" \in r.dst.on
  <2> DEFINE b == Take(src, r, 2)
             n == b.last
  <2>1. x = IF b.rv = "Good" THEN PromotedLoop(src, b, n) ELSE b
    BY <1>2 DEF DecodePromoted, When, Then
  <2>2. b \in States(src) /\ b.dst = r.dst
    BY <1>0, TakeType DEF Widths
  <2> HIDE DEF b
  <2>3. PromotedState(src, b) /\ n \in Nat
    BY <1>2, <2>2 DEF EarlyState, PromotedState, States
  <2> HIDE DEF n
  <2> QED
    BY <2>1, <2>3, PromotedLoopType DEF PromotedState
<1> QED
  BY <1>1, <1>2

\* The nonce is freed by the flag of the security header.
LEMMA SecurityType ==
    ASSUME NEW src \in Seq(Octet), NEW r, EarlyState(src, r), NEW x, x = DecodeSecurityHeader(src, r)
    PROVE  EarlyState(src, x)
<1>0. r \in States(src)
  BY DEF EarlyState
<1>1. CASE ~ (r.rv = "Good" /\ "security" \in r.dst.on)
  BY <1>1 DEF DecodeSecurityHeader, When
<1>2. CASE r.rv = "Good" /\ "security" \in r.dst.on
  <2> DEFINE f == ReadFlags(src, r, SecurityFlags)
             t == ReadNumber(src, f, "tokenId", 4)
             b == Take(src, t, 1)
             n == b.last
             c == ReadNumbers(src, b, n, 1, "nonce")
  <2>1. x = IF b.rv = "Good"
            THEN (IF c.rv = "Good" /\ "footer" \in c.dst.on THEN ReadNumber(src, c, "footerSize", 2) ELSE c)
            ELSE b
    BY <1>2 DEF DecodeSecurityHeader, When, Then
  <2>2. f \in States(src) /\ Grown(r.dst, f.dst)
    BY <1>0, ReadFlagsType, FlagsAreFeatures
  <2> HIDE DEF f
  <2>3. t \in States(src) /\ Grown(f.dst, t.dst)
    BY <2>2, ReadNumberType DEF Widths, NMFields
  <2> HIDE DEF t
  <2>4. b \in States(src) /\ b.dst = t.dst
    BY <2>3, TakeType DEF Widths
  <2> HIDE DEF b
  <2>5. Grown(r.dst, b.dst)
    BY <2>2, <2>3, <2>4, GrownOn
  <2>6. EarlyState(src, b) /\ "nonce" \in EarlyBlocks(b.dst) /\ n \in Nat
    <3>1. EarlyState(src, b)
      BY <2>4, <2>5, GrownEarly
    <3>2. "security" \in b.dst.on
      BY <1>2, <2>5 DEF Grown
    <3> QED
      BY <2>4, <3>1, <3>2 DEF EarlyBlocks, States
  <2> HIDE DEF n
  <2>7. c \in States(src) /\ Holds(b.dst, c.dst, "nonce")
    BY <2>4, <2>6, ReadNumbersType DEF Strings
  <2> HIDE DEF c
  <2>8. EarlyState(src, c)
    BY <2>6, <2>7, EarlyHolds DEF EarlyState
  <2> DEFINE z == ReadNumber(src, c, "footerSize", 2)
  <2>9. z \in States(src) /\ Grown(c.dst, z.dst)
    BY <2>7, ReadNumberType DEF Widths, NMFields
  <2> HIDE DEF z
  <2>10. EarlyState(src, z)
    BY <2>8, <2>9, GrownEarly
  <2> QED
    BY <2>1, <2>6, <2>8, <2>10 DEF z
<1> QED
  BY <1>1, <1>2

\* The number of the messages that clear goes through.
PayloadCount(d) == IF "payloadHeader" \in d.on THEN d.count ELSE 1

\* The message behind a section that only adds to the payload and its memory.
Extended(d, e) ==
    /\ e.on = d.on /\ e.pubType = d.pubType /\ e.nmType = d.nmType /\ e.count = d.count /\ e.val = d.val
    /\ d.heap \subseteq e.heap
    /\ \A j \in DOMAIN d.dsms : j \in DOMAIN e.dsms /\ e.dsms[j] = d.dsms[j]

\* What was freed still is.
LEMMA TidyMore ==
    ASSUME NEW d, Tidy(d), NEW e, Extended(d, e), e.heap \subseteq d.heap \cup Freed(e) \cup {"signature"}
    PROVE  Tidy(e)
<1> DEFINE n == PayloadCount(d)
           Fields(x) == {j \in 1..n : j \in DOMAIN x.dsms /\ FreesFields(x.dsms[j])}
           LeadBlocks(x) == (IF "promoted" \in x.on THEN {"promoted"} ELSE {})
                             \cup (IF "security" \in x.on THEN {"nonce"} ELSE {})
                             \cup (IF x.nmType = 0 /\ "payloadHeader" \in x.on THEN HeaderTables ELSE {})
           TailBlocks(x) == (IF "footer" \in x.on /\ x.val["footerSize"] > 0 THEN {"footer"} ELSE {})
                             \cup (IF "publisherId" \in x.on /\ x.pubType = StringId THEN {"pubString"} ELSE {})
           BodyBlocks(x) == IF x.nmType = 0 /\ "dsms" \in x.heap
                            THEN {"dsms"} \cup {ToString(i) : i \in Fields(x)} ELSE {}
<1>1. PayloadCount(e) = n
  BY DEF PayloadCount, Extended
<1>2. Freed(d) = LeadBlocks(d) \cup BodyBlocks(d) \cup TailBlocks(d)
  BY DEF Freed, PayloadCount
<1>3. Freed(e) = LeadBlocks(e) \cup BodyBlocks(e) \cup TailBlocks(e)
  BY <1>1 DEF Freed, PayloadCount
<1> HIDE DEF n
<1>4. LeadBlocks(d) = LeadBlocks(e) /\ TailBlocks(d) = TailBlocks(e)
  BY DEF Extended
<1>5. Fields(d) \subseteq Fields(e)
  BY DEF Extended
<1>6. BodyBlocks(d) \subseteq BodyBlocks(e)
  <2> HIDE DEF Fields
  <2> QED
    BY <1>5 DEF Extended
<1> HIDE DEF LeadBlocks, BodyBlocks, TailBlocks
<1>7. Freed(d) \subseteq Freed(e)
  BY <1>2, <1>3, <1>4, <1>6
<1> QED
  BY <1>7 DEF Tidy

\* A payload of which k messages have been decoded.
PayloadState(src, x, n, k) ==
    /\ x \in States(src) /\ Tidy(x.dst) /\ x.dst.nmType = 0 /\ PayloadCount(x.dst) = n
    /\ "dsms" \in x.dst.heap
    /\ x.rv = "Good" => Len(x.dst.dsms) = k

WithDSM(d, m, h) == [d EXCEPT !.dsms = Append(d.dsms, m), !.heap = h]

\* One more DataSetMessage, and nothing else is changed.
LEMMA WithDSMType ==
    ASSUME NEW d \in LooseMessages, NEW m \in LooseDSMs, NEW h \in SUBSET AnyBlocks, d.heap \subseteq h,
           NEW e, e = WithDSM(d, m, h)
    PROVE  /\ e \in LooseMessages /\ Extended(d, e) /\ e.heap = h
           /\ Len(d.dsms) \in Nat /\ Len(e.dsms) = Len(d.dsms) + 1 /\ e.dsms[Len(d.dsms) + 1] = m
           /\ DOMAIN e.dsms = 1..(Len(d.dsms) + 1)
<1> DEFINE s == d.dsms
           t == Append(s, m)
<1>1. /\ t \in Seq(LooseDSMs) /\ Len(s) \in Nat /\ Len(t) = Len(s) + 1 /\ t[Len(s) + 1] = m
      /\ DOMAIN t = 1..(Len(s) + 1)
      /\ \A j \in DOMAIN s : j \in DOMAIN t /\ t[j] = s[j]
  <2> DEFINE M == LooseDSMs
  <2>1. s \in Seq(M) /\ m \in M
    BY DEF LooseMessages
  <2> HIDE DEF s, M
  <2> QED
    BY <2>1 DEF M
<1>2. e = [d EXCEPT !.dsms = t, !.heap = h]
  BY DEF WithDSM
<1> HIDE DEF t
<1>3. e \in LooseMessages /\ e.dsms = t /\ e.heap = h
  BY <1>1, <1>2 DEF LooseMessages
<1>4. e.on = d.on /\ e.pubType = d.pubType /\ e.nmType = d.nmType /\ e.count = d.count /\ e.val = d.val
  BY <1>2 DEF LooseMessages
<1> QED
  BY <1>1, <1>3, <1>4 DEF Extended

\* The blocks of the message with those of its i-th DataSetMessage.
OwnHeap(r, i, d) == IF d.dsm.owns THEN r.dst.heap \cup {ToString(i)} ELSE r.dst.heap

\* The state with one more message, whatever came of it.
Added(src, r, i, d, x) ==
    /\ x \in States(src) /\ x.rv = d.rv /\ x.pos = d.pos
    /\ x.dst = WithDSM(r.dst, d.dsm, OwnHeap(r, i, d))

\* One more message, decoded or not.
LEMMA AddMessageType ==
    ASSUME NEW src, NEW r \in States(src), NEW i \in Nat, NEW d \in Frames(src), NEW x, x = AddMessage(r, i, d)
    PROVE  Added(src, r, i, d, x)
<1> DEFINE h == OwnHeap(r, i, d)
           e == WithDSM(r.dst, d.dsm, h)
<1>1. r.dst \in LooseMessages /\ d.dsm \in LooseDSMs /\ r.dst.heap \subseteq AnyBlocks
  BY DEF States, Frames, LooseMessages
<1>2. h \in SUBSET AnyBlocks /\ r.dst.heap \subseteq h
  BY <1>1 DEF AnyBlocks, OwnHeap
<1>3. x = [r EXCEPT !.rv = d.rv, !.pos = d.pos, !.dst = e]
  BY DEF AddMessage, WithDSM, OwnHeap
<1> HIDE DEF h
<1>4. e \in LooseMessages
  <2> DEFINE c == r.dst
             m == d.dsm
  <2>1. c \in LooseMessages /\ m \in LooseDSMs /\ c.heap \subseteq h
    BY <1>1, <1>2
  <2> HIDE DEF c, m
  <2>2. WithDSM(c, m, h) \in LooseMessages
    BY <1>2, <2>1, WithDSMType
  <2> QED
    BY <2>2 DEF c, m
<1> HIDE DEF e
<1>5. x \in States(src) /\ x.dst = e /\ x.rv = d.rv /\ x.pos = d.pos
  BY <1>3, <1>4 DEF States, Frames
<1> QED
  BY <1>5 DEF e, h, Added

\* The fields of a message that has an array of them are freed by clear.
LEMMA NextDSMType ==
    ASSUME NEW src \in Seq(Octet), NEW n \in Nat, NEW i \in 1..n, NEW r, PayloadState(src, r, n, i - 1),
           NEW x, x = NextDSM(src, r, i)
    PROVE  PayloadState(src, x, n, i)
<1> DEFINE d == DecodeDSM(src, r.pos)
<1>0. r \in States(src) /\ r.dst \in LooseMessages
  BY DEF PayloadState, States
<1>1. x = IF r.rv = "Good" THEN AddMessage(r, i, d) ELSE r
  BY DEF NextDSM, Then
<1>2. d \in Frames(src) /\ OwnsInFrame(d)
  BY <1>0, DSMType DEF States
<1> HIDE DEF d
<1>3. CASE r.rv # "Good"
  BY <1>1, <1>3 DEF PayloadState
<1>4. CASE r.rv = "Good"
  <2> DEFINE h == OwnHeap(r, i, d)
             c == r.dst
             m == d.dsm
             e == WithDSM(c, m, h)
  <2>0. i \in Nat
    OBVIOUS
  <2>1. x \in States(src) /\ x.dst = e
    <3>1. x = AddMessage(r, i, d)
      BY <1>1, <1>4
    <3>2. Added(src, r, i, d, x)
      BY <1>0, <1>2, <2>0, <3>1, AddMessageType
    <3> QED
      BY <3>2 DEF Added
  <2>2. c \in LooseMessages /\ m \in LooseDSMs /\ h \in SUBSET AnyBlocks /\ c.heap \subseteq h
    <3>1. c \in LooseMessages /\ m \in LooseDSMs
      BY <1>0, <1>2 DEF Frames
    <3>2. c.heap \subseteq AnyBlocks
      BY <3>1 DEF LooseMessages
    <3>3. ToString(i) \in AnyBlocks
      BY <2>0 DEF AnyBlocks
    <3> QED
      BY <3>1, <3>2, <3>3 DEF OwnHeap
  <2>3. h \subseteq c.heap \cup (IF m.owns THEN {ToString(i)} ELSE {})
    BY DEF OwnHeap
  <2>4. Tidy(c) /\ c.nmType = 0 /\ PayloadCount(c) = n /\ "dsms" \in c.heap /\ Len(c.dsms) = i - 1
    BY <1>4 DEF PayloadState
  <2>5. m.owns => m.type \in {KeyFrame, DeltaFrame}
    BY <1>2 DEF OwnsInFrame
  <2> HIDE DEF h, c, m
  <2>6. /\ e \in LooseMessages /\ Extended(c, e) /\ e.heap = h
        /\ Len(c.dsms) \in Nat /\ Len(e.dsms) = Len(c.dsms) + 1 /\ e.dsms[Len(c.dsms) + 1] = m
        /\ DOMAIN e.dsms = 1..(Len(c.dsms) + 1)
    BY <2>2, WithDSMType
  <2> HIDE DEF e
  <2>7. Len(e.dsms) = i /\ e.dsms[i] = m /\ i \in DOMAIN e.dsms
    BY <2>4, <2>6
  <2>8. PayloadCount(e) = n /\ e.nmType = 0 /\ "dsms" \in e.heap
    BY <2>2, <2>4, <2>6 DEF Extended, PayloadCount
  <2>9. m.owns => ToString(i) \in Freed(e)
    <3>1. SUFFICES ASSUME m.owns PROVE ToString(i) \in Freed(e)
      OBVIOUS
    <3>2. FreesFields(e.dsms[i])
      BY <2>5, <2>7, <3>1 DEF FreesFields
    <3>3. i \in {j \in 1..n : j \in DOMAIN e.dsms /\ FreesFields(e.dsms[j])}
      BY <2>7, <3>2
    <3>4. ToString(i) \in {ToString(k) : k \in {j \in 1..n : j \in DOMAIN e.dsms /\ FreesFields(e.dsms[j])}}
      BY <3>3
    <3> QED
      BY <2>8, <3>4 DEF Freed, PayloadCount
  <2>10. e.heap \subseteq c.heap \cup Freed(e) \cup {"signature"}
    BY <2>3, <2>6, <2>9
  <2>11. Tidy(e)
    BY <2>4, <2>6, <2>10, TidyMore
  <2> QED
    BY <2>1, <2>7, <2>8, <2>11 DEF PayloadState
<1> QED
  BY <1>3, <1>4

\* The loop over the DataSetMessages.
DSMStep(src, n) == [p \in States(src) \X (1..n) |-> NextDSM(src, p[1], p[2])]

WithHeap(r, h) == [r EXCEPT !.dst.heap = h]

\* More blocks, and nothing else is changed.
LEMMA WithHeapType ==
    ASSUME NEW src, NEW r \in States(src), NEW h \in SUBSET AnyBlocks, r.dst.heap \subseteq h,
           NEW x, x = WithHeap(r, h)
    PROVE  /\ x \in States(src) /\ x.rv = r.rv /\ x.pos = r.pos /\ x.dst.dsms = r.dst.dsms
           /\ Extended(r.dst, x.dst) /\ x.dst.heap = h
<1> DEFINE d == r.dst
           e == [d EXCEPT !.heap = h]
<1>1. d \in LooseMessages
  BY DEF States
<1>2. x = [r EXCEPT !.dst = e]
  BY DEF WithHeap
<1> HIDE DEF d
<1>3. e \in LooseMessages /\ e.heap = h /\ e.dsms = d.dsms
      /\ e.on = d.on /\ e.pubType = d.pubType /\ e.nmType = d.nmType /\ e.count = d.count /\ e.val = d.val
  BY <1>1 DEF LooseMessages
<1> HIDE DEF e
<1>4. x \in States(src) /\ x.rv = r.rv /\ x.pos = r.pos /\ x.dst = e
  BY <1>2, <1>3 DEF States
<1> QED
  BY <1>3, <1>4 DEF Extended, d

\* Decoding a message stays in the buffer.
LEMMA NextDSMStays ==
    ASSUME NEW src \in Seq(Octet), NEW r \in States(src), NEW i \in Nat, NEW x, x = NextDSM(src, r, i)
    PROVE  x \in States(src)
<1> DEFINE d == DecodeDSM(src, r.pos)
<1>1. x = IF r.rv = "Good" THEN AddMessage(r, i, d) ELSE r
  BY DEF NextDSM, Then
<1>2. d \in Frames(src)
  BY DSMType DEF States
<1> HIDE DEF d
<1> QED
  BY <1>1, <1>2, AddMessageType DEF Added

\* The loop over the DataSetMessages, step by step.
LEMMA DSMRuns ==
    ASSUME NEW src \in Seq(Octet), NEW r \in States(src), NEW n \in Nat,
           NEW b, b = WithHeap(r, r.dst.heap \cup {"dsms"}), NEW x, x = DecodeDSMs(src, r, n)
    PROVE  /\ b \in States(src)
           /\ \E f : Loops(f, States(src), b, n, DSMStep(src, n)) /\ x = f[n]
<1> DEFINE S == States(src)
           step == DSMStep(src, n)
           Runs(f) == f = [i \in 0..n |-> IF i = 0 THEN b ELSE NextDSM(src, f[i - 1], i)]
           F == CHOOSE f : Runs(f)
<1>1. b \in S
  <2> DEFINE h == r.dst.heap \cup {"dsms"}
  <2>1. h \in SUBSET AnyBlocks /\ r.dst.heap \subseteq h
    BY DEF States, LooseMessages, AnyBlocks
  <2> HIDE DEF h
  <2>2. WithHeap(r, h) \in States(src)
    BY <2>1, WithHeapType
  <2> QED
    BY <2>2 DEF h
<1>2. /\ step \in [S \X (1..n) -> S]
      /\ \A y \in S, i \in 1..n : step[<<y, i>>] = NextDSM(src, y, i)
  <2>1. \A y \in S, i \in 1..n : NextDSM(src, y, i) \in S
    BY NextDSMStays
  <2>2. step = [p \in S \X (1..n) |-> NextDSM(src, p[1], p[2])]
    BY DEF DSMStep
  <2> HIDE DEF S, step
  <2> QED
    BY <2>1, <2>2
<1>3. PICK f : Loops(f, S, b, n, step)
  <2> HIDE DEF S, step
  <2> QED
    BY <1>1, <1>2, LoopExists
<1>4. \A i \in 1..n : f[i] = NextDSM(src, f[i - 1], i)
  <2> TAKE i \in 1..n
  <2>1. i - 1 \in 0..n
    OBVIOUS
  <2>2. f \in [0..n -> S] /\ f[i] = step[<<f[i - 1], i>>]
    BY <1>3 DEF Loops
  <2>3. f[i - 1] \in S
    BY <2>1, <2>2
  <2> HIDE DEF S, step
  <2> QED
    BY <1>2, <2>2, <2>3
<1>5. f \in [0..n -> S] /\ f[0] = b
  BY <1>3 DEF Loops
<1>6. Runs(f)
  <2> HIDE DEF S, step
  <2> QED
    BY <1>4, <1>5
<1>7. Runs(F)
  BY <1>6
<1>8. Turning(F, S, b, n, step)
  <2>1. F[0] = b
    <3>1. F = [i \in 0..n |-> IF i = 0 THEN b ELSE NextDSM(src, F[i - 1], i)]
      BY <1>7
    <3>2. 0 \in 0..n
      OBVIOUS
    <3> HIDE DEF F
    <3> QED
      BY <3>1, <3>2
  <2>2. ASSUME NEW i \in 1..n, F[i - 1] \in S
        PROVE  F[i] = step[<<F[i - 1], i>>]
    <3>1. i \in 0..n /\ i # 0
      OBVIOUS
    <3>2. F[i] = NextDSM(src, F[i - 1], i)
      BY <1>7, <3>1
    <3> HIDE DEF S, step, F
    <3> QED
      BY <1>2, <2>2, <3>2
  <2> HIDE DEF F, step, S
  <2> QED
    BY <2>1, <2>2 DEF Turning
<1>9. x = F[n]
  <2>1. b = [r EXCEPT !.dst.heap = @ \cup {"dsms"}]
    BY DEF WithHeap
  <2>2. x = (CHOOSE h : h = [i \in 0..n |-> IF i = 0 THEN [r EXCEPT !.dst.heap = @ \cup {"dsms"}]
                                            ELSE NextDSM(src, h[i - 1], i)])[n]
    BY DEF DecodeDSMs
  <2> QED
    BY ZenonT(40), <2>1, <2>2
<1>10. F[n] = f[n]
  <2> HIDE DEF F, step, S
  <2> QED
    BY <1>3, <1>8, LoopAgrees
<1> QED
  BY <1>1, <1>3, <1>9, <1>10

---------------------------------------------------------------------------
(* From the payload to the end: every block but the signature is freed. *)

TidyState(src, x) == x \in States(src) /\ Tidy(x.dst)

\* Before the payload nothing has been put off.
LEMMA EarlyTidyState ==
    ASSUME NEW src, NEW x, EarlyState(src, x)
    PROVE  TidyState(src, x)
BY EarlyTidy DEF EarlyState, TidyState

\* One more block that clear frees, or the signature.
LEMMA HoldsTidy ==
    ASSUME NEW d, Tidy(d), NEW e, NEW member, Holds(d, e, member),
           member \in Freed(e) \cup {"signature"} \/ e.heap = d.heap
    PROVE  Tidy(e)
<1>1. Extended(d, e)
  BY DEF Holds, Extended
<1>2. e.heap \subseteq d.heap \cup Freed(e) \cup {"signature"}
  BY DEF Holds
<1> QED
  BY <1>1, <1>2, TidyMore

\* The DataSetMessages.
LEMMA DecodeDSMsType ==
    ASSUME NEW src \in Seq(Octet), NEW r, TidyState(src, r), r.dst.nmType = 0, r.dst.dsms = <<>>,
           NEW n \in Nat, n = PayloadCount(r.dst), NEW x, x = DecodeDSMs(src, r, n)
    PROVE  TidyState(src, x)
<1> DEFINE h == r.dst.heap \cup {"dsms"}
           b == WithHeap(r, h)
           step == DSMStep(src, n)
           I == {p \in States(src) \X (0..n) : PayloadState(src, p[1], n, p[2])}
<1>0. r \in States(src)
  BY DEF TidyState
<1>1. b \in States(src) /\ \E f : Loops(f, States(src), b, n, step) /\ x = f[n]
  BY SMTT(40), <1>0, DSMRuns
<1>2. PICK f : Loops(f, States(src), b, n, step) /\ x = f[n]
  BY <1>1
<1>3. h \in SUBSET AnyBlocks /\ r.dst.heap \subseteq h
  BY <1>0 DEF States, LooseMessages, AnyBlocks
<1>4. PayloadState(src, b, n, 0)
  <2> DEFINE d == r.dst
             e == b.dst
  <2>1. h \subseteq d.heap \cup {"dsms"} /\ "dsms" \in h
    OBVIOUS
  <2> HIDE DEF h
  <2>2. /\ b \in States(src) /\ b.rv = r.rv /\ b.pos = r.pos /\ b.dst.dsms = r.dst.dsms
        /\ Extended(r.dst, b.dst) /\ b.dst.heap = h
    BY <1>0, <1>3, WithHeapType
  <2> HIDE DEF b
  <2>3. e.nmType = 0 /\ PayloadCount(e) = n /\ "dsms" \in e.heap
    BY <2>1, <2>2 DEF Extended, PayloadCount
  <2>4. "dsms" \in Freed(e)
    BY <2>3 DEF Freed
  <2>5. e.heap \subseteq d.heap \cup Freed(e) \cup {"signature"}
    BY <2>1, <2>2, <2>4
  <2>6. Tidy(d) /\ Extended(d, e)
    BY <2>2 DEF TidyState
  <2> HIDE DEF d, e
  <2>7. Tidy(e)
    BY <2>5, <2>6, TidyMore
  <2>8. Len(b.dst.dsms) = 0
    BY <2>2
  <2> QED
    BY <2>2, <2>3, <2>7, <2>8 DEF PayloadState, e
<1> HIDE DEF b
<1>5. <<b, 0>> \in I
  BY <1>1, <1>4
<1>6. ASSUME NEW s \in States(src), NEW i \in 1..n, <<s, i - 1>> \in I
      PROVE  <<step[<<s, i>>], i>> \in I
  <2> DEFINE y == NextDSM(src, s, i)
  <2>1. step[<<s, i>>] = y
    BY DEF DSMStep
  <2>2. PayloadState(src, s, n, i - 1)
    BY <1>6
  <2>3. PayloadState(src, y, n, i)
    BY <2>2, NextDSMType
  <2> HIDE DEF y
  <2>4. y \in States(src) /\ i \in 0..n
    BY <2>3 DEF PayloadState
  <2> HIDE DEF step
  <2> QED
    BY <2>1, <2>3, <2>4
<1>7. <<x, n>> \in I
  <2>1. Preserves(I, States(src), n, step)
    BY <1>6 DEF Preserves
  <2>2. n \in 0..n
    OBVIOUS
  <2> HIDE DEF I, step
  <2>3. \A i \in 0..n : f[i] \in States(src) /\ <<f[i], i>> \in I
    BY <1>2, <1>5, <2>1, LoopKeeps
  <2> QED
    BY <1>2, <2>2, <2>3
<1> QED
  BY <1>7 DEF PayloadState, TidyState

\* The table of sizes and the DataSetMessages, read to the end or not.
LEMMA DecodePayloadType ==
    ASSUME NEW src \in Seq(Octet), NEW r, EarlyState(src, r), NEW x, x = DecodePayload(src, r)
    PROVE  TidyState(src, x)
<1> DEFINE n == PayloadCount(r.dst)
           b == IF n > 1 THEN ReadNumbers(src, r, n, 2, "sizes") ELSE r
<1>1. x = IF r.rv # "Good" THEN r
          ELSE IF r.dst.nmType # 0 THEN [r EXCEPT !.rv = "BadNotImplemented"]
          ELSE IF b.rv # "Good" THEN b ELSE DecodeDSMs(src, b, n)
  BY DEF DecodePayload, Then, PayloadCount
<1>2. r \in States(src) /\ TidyState(src, r) /\ r.dst.dsms = <<>>
  BY EarlyTidyState DEF EarlyState, Early
<1>3. n \in Nat
  BY <1>2 DEF PayloadCount, States, LooseMessages
<1>4. CASE r.rv # "Good"
  BY <1>1, <1>2, <1>4
<1>5. CASE r.rv = "Good" /\ r.dst.nmType # 0
  <2> HIDE DEF b
  <2>1. x = [r EXCEPT !.rv = "BadNotImplemented"]
    BY <1>1, <1>5
  <2> QED
    BY <1>2, <2>1 DEF TidyState, States, Codes
<1>6. CASE r.rv = "Good" /\ r.dst.nmType = 0
  <2>1. TidyState(src, b) /\ b.dst.nmType = 0 /\ b.dst.dsms = <<>> /\ PayloadCount(b.dst) = n
    <3>1. CASE ~ (n > 1)
      BY <1>2, <1>6, <3>1
    <3>2. CASE n > 1
      <4>1. "payloadHeader" \in r.dst.on
        BY <3>2 DEF PayloadCount
      <4> HIDE DEF n
      <4>2. b = ReadNumbers(src, r, n, 2, "sizes")
        BY <3>2
      <4> HIDE DEF b
      <4>3. b \in States(src) /\ Holds(r.dst, b.dst, "sizes")
        BY <1>2, <1>3, <4>2, ReadNumbersType DEF Strings
      <4>4. b.dst.nmType = 0 /\ b.dst.dsms = <<>> /\ PayloadCount(b.dst) = n /\ "payloadHeader" \in b.dst.on
        BY <1>2, <1>6, <4>1, <4>3 DEF Holds, PayloadCount, n
      <4>5. "sizes" \in Freed(b.dst)
        BY <4>4 DEF Freed, HeaderTables
      <4>6. Tidy(b.dst)
        BY <1>2, <4>3, <4>5, HoldsTidy DEF TidyState
      <4> QED
        BY <4>3, <4>4, <4>6 DEF TidyState
    <3> QED
      BY <3>1, <3>2
  <2> HIDE DEF b, n
  <2> DEFINE y == DecodeDSMs(src, b, n)
  <2>2. TidyState(src, y)
    BY <1>3, <2>1, DecodeDSMsType
  <2>3. x = IF b.rv # "Good" THEN b ELSE y
    BY <1>1, <1>6
  <2> HIDE DEF y
  <2> QED
    BY <2>1, <2>2, <2>3
<1> QED
  BY <1>4, <1>5, <1>6

\* Only called with the security header, like the footer itself.
LEMMA DecodeFooterType ==
    ASSUME NEW src \in Seq(Octet), NEW r, TidyState(src, r), NEW x, x = DecodeFooter(src, r)
    PROVE  TidyState(src, x)
<1> DEFINE n == r.dst.val["footerSize"]
<1>0. r \in States(src) /\ Tidy(r.dst) /\ n \in Nat
  <2>1. r.dst.val \in [NMFields -> Nat]
    BY DEF TidyState, States, LooseMessages
  <2> QED
    BY <2>1 DEF TidyState, NMFields
<1>1. CASE ~ (r.rv = "Good" /\ "footer" \in r.dst.on)
  BY <1>1 DEF DecodeFooter, When
<1>2. CASE r.rv = "Good" /\ "footer" \in r.dst.on /\ n < 256
  <2>1. x = ReadNumbers(src, r, n, 1, "footer")
    BY <1>2 DEF DecodeFooter, When
  <2> HIDE DEF n
  <2>2. x \in States(src) /\ Holds(r.dst, x.dst, "footer") /\ (n = 0 => x.dst.heap = r.dst.heap)
    <3> DEFINE s == "footer"
               w == 1
    <3>1. s \in Strings /\ x = ReadNumbers(src, r, n, w, s)
      BY <2>1 DEF Strings
    <3>3. r \in States(src) /\ n \in Nat /\ w \in {1, 2}
      BY <1>0
    <3> HIDE DEF s, w
    <3>2. x \in States(src) /\ Holds(r.dst, x.dst, s) /\ (n = 0 => x.dst.heap = r.dst.heap)
      BY <3>1, <3>3, ReadNumbersType
    <3> QED
      BY <3>2 DEF s
  <2>3. "footer" \in x.dst.on /\ x.dst.val["footerSize"] = n
    BY <1>2, <2>2 DEF Holds, n
  <2>4. n > 0 => "footer" \in Freed(x.dst)
    BY <2>3 DEF Freed
  <2>5. "footer" \in Freed(x.dst) \cup {"signature"} \/ x.dst.heap = r.dst.heap
    BY <1>0, <2>2, <2>4
  <2>6. Tidy(x.dst)
    BY <1>0, <2>2, <2>5, HoldsTidy
  <2> QED
    BY <2>2, <2>6 DEF TidyState
<1>3. CASE r.rv = "Good" /\ "footer" \in r.dst.on /\ ~ (n < 256)
  <2> DEFINE h == r.dst.heap \cup {"footer"}
             y == WithHeap(r, h)
  <2>1. x = [y EXCEPT !.rv = "BadDecodingError"]
    BY <1>0, <1>3 DEF DecodeFooter, When, WithHeap, States
  <2>2. h \in SUBSET AnyBlocks /\ r.dst.heap \subseteq h
    BY <1>0 DEF States, LooseMessages, AnyBlocks, Strings
  <2>3. h \subseteq r.dst.heap \cup {"footer"}
    OBVIOUS
  <2> HIDE DEF h
  <2>4. /\ y \in States(src) /\ y.rv = r.rv /\ y.pos = r.pos /\ y.dst.dsms = r.dst.dsms
        /\ Extended(r.dst, y.dst) /\ y.dst.heap = h
    BY <1>0, <2>2, WithHeapType
  <2> HIDE DEF y
  <2>5. "footer" \in y.dst.on /\ y.dst.val["footerSize"] > 0
    BY <1>0, <1>3, <2>4 DEF Extended
  <2>6. "footer" \in Freed(y.dst)
    BY <2>5 DEF Freed
  <2>7. y.dst.heap \subseteq r.dst.heap \cup Freed(y.dst) \cup {"signature"}
    BY <2>3, <2>4, <2>6
  <2>8. Tidy(y.dst)
    BY <1>0, <2>4, <2>7, TidyMore
  <2> QED
    BY <2>1, <2>4, <2>8 DEF TidyState, States, Codes
<1> QED
  BY <1>1, <1>2, <1>3

\* The footer and the signature.
LEMMA DecodeTrailerType ==
    ASSUME NEW src \in Seq(Octet), NEW r, TidyState(src, r), NEW x, x = DecodeTrailer(src, r)
    PROVE  TidyState(src, x)
<1> DEFINE f == DecodeFooter(src, r)
           y == ReadString(src, f, "signature")
<1>1. x = IF r.rv = "Good" /\ "security" \in r.dst.on
          THEN (IF f.rv = "Good" /\ "signed" \in f.dst.on THEN y ELSE f) ELSE r
  BY DEF DecodeTrailer, When
<1>2. TidyState(src, f)
  BY DecodeFooterType
<1> HIDE DEF f
<1>3. f \in States(src) /\ Tidy(f.dst)
  BY <1>2 DEF TidyState
<1>4. y \in States(src) /\ Holds(f.dst, y.dst, "signature")
  BY <1>3, ReadStringType DEF Strings
<1> HIDE DEF y
<1>5. Tidy(y.dst)
  <2> DEFINE s == "signature"
  <2>1. s \in Freed(y.dst) \cup {"signature"} \/ y.dst.heap = f.dst.heap
    OBVIOUS
  <2>2. Holds(f.dst, y.dst, s)
    BY <1>4
  <2> HIDE DEF s
  <2> QED
    BY <1>3, <2>1, <2>2, HoldsTidy
<1>6. TidyState(src, y)
  BY <1>4, <1>5 DEF TidyState
<1> QED
  BY <1>1, <1>2, <1>6

\* Whatever bytes arrive, and whatever the decoders of the structured builtin types
\* (StructuredEnd) take of them as long as they stay inside: the decoder stays inside
\* them, and clear frees every block it has allocated for the message by the time it
\* stops, in success or in failure, but for the signature, which
\* UA_NetworkMessage_clear leaves out.
THEOREM DecodeTidy ==
    ASSUME NEW src \in Seq(Octet), NEW x, x = DecodeInternal(src)
    PROVE  /\ x.rv \in Codes /\ x.pos \in 0..Len(src) /\ x.dst \in LooseMessages
           /\ Leaked(x.dst) \subseteq {"signature"}
<1> DEFINE flags   == DecodeFlags(src)
           pub     == DecodePublisherId(src, flags)
           class   == ReadSection(src, pub, ClassLayout)
           group   == DecodeGroupHeader(src, class)
           header  == DecodePayloadHeader(src, group)
           stamps  == ReadSection(src, header, StampLayout)
           prom    == DecodePromoted(src, stamps)
           sec     == DecodeSecurityHeader(src, prom)
           payload == DecodePayload(src, sec)
<1>1. x = DecodeTrailer(src, payload)
  BY DEF DecodeInternal
<1>2. EarlyState(src, flags)
  BY DecodeFlagsType, BareEarly
<1> HIDE DEF flags
<1>3. EarlyState(src, pub)
  BY <1>2, PublisherIdType
<1> HIDE DEF pub
<1>4. EarlyState(src, class)
  <2>1. ClassLayout \in Seq(NMFields \X Widths)
    BY DEF ClassLayout, NMFields, Widths
  <2> HIDE DEF class
  <2> QED
    BY <1>3, <2>1, ClassType DEF class
<1> HIDE DEF class
<1>5. EarlyState(src, group)
  BY <1>4, GroupType
<1> HIDE DEF group
<1>6. EarlyState(src, header)
  BY <1>5, PayloadHeaderType
<1> HIDE DEF header
<1>7. EarlyState(src, stamps)
  <2>1. StampLayout \in Seq(NMFields \X Widths)
    BY DEF StampLayout, NMFields, Widths
  <2> QED
    BY <1>6, <2>1, ClassType
<1> HIDE DEF stamps
<1>8. EarlyState(src, prom)
  BY <1>7, DecodePromotedType
<1> HIDE DEF prom
<1>9. EarlyState(src, sec)
  BY <1>8, SecurityType
<1> HIDE DEF sec
<1>10. TidyState(src, payload)
  BY <1>9, DecodePayloadType
<1> HIDE DEF payload
<1>11. TidyState(src, x)
  BY <1>1, <1>10, DecodeTrailerType
<1>12. Leaked(x.dst) \subseteq {"signature"}
  BY <1>11, EarlyTidy DEF TidyState
<1> QED
  BY <1>11, <1>12 DEF TidyState, States

---------------------------------------------------------------------------
(* What the decoder makes of the bytes of a message: the pieces.           *)

Members == {"on", "version", "pubType", "nmType", "val", "pubString", "ids", "count",
            "promoted", "nonce", "footer", "signature", "dsms", "sizes"}

\* Only the members ms, and the memory, have changed.
Kept(d, e, ms) == \A f \in Members \ ms : e[f] = d[f]

\* Changes add up.
LEMMA KeptMore ==
    ASSUME NEW c, NEW d, NEW e, NEW S, NEW T, Kept(c, d, S), Kept(d, e, T)
    PROVE  Kept(c, e, S \cup T)
BY DEF Kept

\* A stored member is read back, and the others are kept.
LEMMA StoredKept ==
    ASSUME NEW d \in LooseMessages, NEW member \in Strings, NEW v, NEW h, NEW e, e = Stored(d, member, v, h)
    PROVE  Kept(d, e, {member}) /\ e[member] = v
BY DEF Stored, LooseMessages, Kept, Members, Strings

\* So are the features and the number fields.
LEMMA WithKept ==
    ASSUME NEW d \in LooseMessages, NEW s, NEW e, NEW f, e = WithOn(d, s), f = WithVal(d, s)
    PROVE  Kept(d, e, {"on"}) /\ e.on = s /\ Kept(d, f, {"val"}) /\ f.val = s
BY DEF WithOn, WithVal, LooseMessages, Kept, Members

\* A number is taken from the buffer.
LEMMA TakeReads ==
    ASSUME NEW src \in Seq(Octet), NEW r \in States(src), r.rv = "Good", NEW w \in Widths,
           NEW v \in Unsigned(w), Follows(src, r.pos, LE(v, w)), NEW x, x = Take(src, r, w)
    PROVE  /\ Reached(src, r.pos, LE(v, w), x)
           /\ x.rv = "Good" => x.last = v
<1> DEFINE k == Read(src, r.pos, w)
           b == LE(v, w)
<1>1. r.pos \in 0..Len(src) /\ r.pos \in Nat
  BY DEF States
<1>2. Reads(src, r.pos, b, k, v)
  BY <1>1, IntegerReads
<1>3. k \in Outcomes(src, Unsigned(w)) /\ Unsigned(w) \subseteq Nat
  BY <1>1, ReadType DEF Unsigned
<1>4. x = Took(r, k)
  BY DEF Take, Then
<1> HIDE DEF k, b
<1>5. x.rv = k.rv /\ x.pos = k.pos /\ x.last = k.value
  BY <1>3, <1>4, TookType
<1> QED
  BY <1>2, <1>5 DEF Reads, Reached, b

\* A byte of flags.
LEMMA FlagByteReads ==
    ASSUME NEW src \in Seq(Octet), NEW r \in States(src), r.rv = "Good", NEW v \in Octet,
           Follows(src, r.pos, <<v>>), NEW masks, NEW x, x = ReadFlags(src, r, masks)
    PROVE  /\ Reached(src, r.pos, <<v>>, x)
           /\ x.rv = "Good" => x.last = v
<1> DEFINE a == Take(src, r, 1)
           b == LE(v, 1)
<1>1. v \in Unsigned(1) /\ b = <<v>>
  BY OneByte
<1>2. Follows(src, r.pos, b)
  BY <1>1
<1>3. x = IF a.rv = "Good" THEN [a EXCEPT !.dst.on = a.dst.on \cup FlagsIn(a.last, masks)] ELSE a
  BY DEF ReadFlags, Then
<1>4. a \in States(src)
  BY TakeType DEF Widths
<1>5. Reached(src, r.pos, b, a) /\ (a.rv = "Good" => a.last = v)
  BY <1>1, <1>2, TakeReads DEF Widths
<1> HIDE DEF a, b
<1>6. x.rv = a.rv /\ x.pos = a.pos /\ x.last = a.last
  BY <1>3, <1>4 DEF States
<1> QED
  BY <1>1, <1>5, <1>6 DEF Reached

\* A number.
LEMMA NumberReads ==
    ASSUME NEW src \in Seq(Octet), NEW r \in States(src), r.rv = "Good", NEW w \in Widths,
           NEW v \in Unsigned(w), Follows(src, r.pos, LE(v, w)), NEW f, NEW x, x = ReadNumber(src, r, f, w)
    PROVE  /\ Reached(src, r.pos, LE(v, w), x)
           /\ x.rv = "Good" => x.last = v
<1> DEFINE a == Take(src, r, w)
           b == LE(v, w)
<1>3. x = IF a.rv = "Good" THEN [a EXCEPT !.dst.val[f] = a.last] ELSE a
  BY DEF ReadNumber, Then
<1>4. a \in States(src)
  BY TakeType
<1>5. Reached(src, r.pos, b, a) /\ (a.rv = "Good" => a.last = v)
  BY TakeReads
<1> HIDE DEF a, b
<1>6. x.rv = a.rv /\ x.pos = a.pos /\ x.last = a.last
  BY <1>3, <1>4 DEF States
<1> QED
  BY <1>5, <1>6 DEF Reached, b

NumbersAt(src, pos, s, n, w) ==
    /\ NumbersBytes(s, n, w) \in Seq(Octet) /\ Len(NumbersBytes(s, n, w)) = w * n
    /\ \A i \in 1..n : (pos + w * (i - 1)) + w <= Len(src) => Num(src, pos + w * (i - 1), w) = s[i]

\* The numbers of an array stand one after the other.
LEMMA NumbersReads ==
    ASSUME NEW src \in Seq(Octet), NEW pos \in Nat, NEW n \in Nat, NEW w \in {1, 2},
           NEW s, \A i \in 1..n : s[i] \in Unsigned(w), Follows(src, pos, NumbersBytes(s, n, w))
    PROVE  NumbersAt(src, pos, s, n, w)
<1> DEFINE t == [i \in 1..n |-> LE(s[i], w)]
           g == Stack(<<>>, t)
<1>1. w \in Widths /\ \A i \in 1..n : s[i] \in Nat
  BY DEF Widths, Unsigned
<1>2. t \in Seq(Seq(Octet)) /\ Len(t) = n /\ NumbersBytes(s, n, w) = FlattenSeq(t)
      /\ NumbersBytes(s, n, w) \in Seq(Octet) /\ Len(NumbersBytes(s, n, w)) = w * n
  <2>1. Piece(FlattenSeq([i \in 1..n |-> Must(LE(s[i], w))]), NumbersBytes(s, n, w), w * n) /\ t \in Seq(Seq(Octet))
    BY <1>1, NumbersPiece
  <2>2. Len(t) = n
    OBVIOUS
  <2> QED
    BY <2>1, <2>2, PieceType DEF NumbersBytes
<1>3. \A i \in 0..n : Len(Joined(t, i)) = w * i /\ Joined(t, i) \in Seq(Octet)
  <2> TAKE i \in 0..n
  <2> DEFINE u == [j \in 1..i |-> t[j]]
             v == [j \in 1..i |-> LE(s[j], w)]
  <2>1. u = v
    OBVIOUS
  <2>2. \A j \in 1..i : s[j] \in Nat
    BY <1>1
  <2>5. i \in Nat
    OBVIOUS
  <2>3. /\ Piece(FlattenSeq([j \in 1..i |-> Must(LE(s[j], w))]), NumbersBytes(s, i, w), w * i)
        /\ [j \in 1..i |-> LE(s[j], w)] \in Seq(Seq(Octet))
    BY <1>1, <2>2, <2>5, NumbersPiece
  <2>4. Joined(t, i) = NumbersBytes(s, i, w)
    BY <2>1 DEF Joined, NumbersBytes
  <2> QED
    BY <2>3, <2>4, PieceType
<1>4. /\ Stacks(g, t, n) /\ g[0] = <<>> /\ g[n] = <<>> \o FlattenSeq(t)
  <2>1. <<>> \in Seq(Octet)
    OBVIOUS
  <2> DEFINE e == <<>>
             l == Len(t)
  <2>2. e \in Seq(Octet) /\ g = Stack(e, t) /\ t \in Seq(Seq(Octet)) /\ l = n
    BY <1>2, <2>1
  <2> HIDE DEF t, e, g
  <2>3. Stacks(g, t, Len(t)) /\ g[0] = e /\ g[Len(t)] = e \o FlattenSeq(t) /\ Len(t) \in Nat
    BY SMTT(40), <2>2, StackStacks
  <2> HIDE DEF l
  <2>4. Stacks(g, t, l) /\ g[0] = e /\ g[l] = e \o FlattenSeq(t)
    BY <2>3 DEF l
  <2> QED
    BY <2>2, <2>4 DEF e
<1>5. \A i \in 0..n : g[i] \in Seq(Octet) /\ Len(g[i]) = w * i
  <2> TAKE i \in 0..n
  <2>1. g[i] = <<>> \o Joined(t, i)
    BY <1>2 DEF Stack
  <2> DEFINE j == Joined(t, i)
  <2>2. j \in Seq(Octet) /\ Len(j) = w * i /\ g[i] = <<>> \o j
    BY <1>3, <2>1
  <2> HIDE DEF j, g
  <2> QED
    BY <2>2
<1>6. g[n] = NumbersBytes(s, n, w)
  <2> DEFINE b == NumbersBytes(s, n, w)
  <2>1. b \in Seq(Octet) /\ g[n] = <<>> \o b
    BY <1>2, <1>4
  <2> HIDE DEF b, g
  <2> QED
    BY <2>1 DEF b
<1>7. ASSUME NEW i \in 1..n, (pos + w * (i - 1)) + w <= Len(src)
      PROVE  Num(src, pos + w * (i - 1), w) = s[i]
  <2> DEFINE a == g[i - 1]
             c == LE(s[i], w)
             p == pos + w * (i - 1)
  <2>1. Follows(src, pos, g[n])
    BY <1>6
  <2>2. i \in 0..n /\ i - 1 \in 0..n /\ i - 1 \in Nat
    OBVIOUS
  <2> HIDE DEF g, t
  <2>3. Starts(g[i], g[n])
    BY <1>4, <2>2, StacksStart
  <2>4. Follows(src, pos, g[i])
    BY <2>1, <2>3 DEF Starts
  <2>5. g[i] = a \o t[i] /\ t[i] = c /\ a \in Seq(Octet) /\ c \in Seq(Octet) /\ Len(a) = w * (i - 1)
    <3>1. g[i] = g[i - 1] \o t[i] /\ t[i] \in Seq(Octet)
      BY <1>4 DEF Stacks
    <3>2. t[i] = c
      BY DEF t
    <3> QED
      BY <1>5, <2>2, <3>1, <3>2
  <2>6. Follows(src, pos, a \o c)
    BY <2>4, <2>5
  <2> HIDE DEF a, c
  <2>7. Follows(src, pos + Len(a), c)
    BY <2>5, <2>6, FollowsConcat
  <2>8. p = pos + Len(a) /\ p \in Nat /\ p + w <= Len(src)
    <3>1. w * (i - 1) \in Nat
      BY <1>1, <2>2, WidthProduct
    <3> QED
      BY <1>7, <2>5, <3>1
  <2>9. Follows(src, p, c)
    BY <2>7, <2>8
  <2> HIDE DEF p
  <2>10. s[i] \in Unsigned(w)
    OBVIOUS
  <2>11. Num(src, p, w) = s[i]
    BY <1>1, <2>8, <2>9, <2>10, NumReads DEF c
  <2> QED
    BY <2>11 DEF p
<1> QED
  BY <1>2, <1>7 DEF NumbersAt

\* One read after the other.
LEMMA Chain ==
    ASSUME NEW src \in Seq(Octet), NEW pos \in Nat, NEW a \in Seq(Octet), NEW b \in Seq(Octet),
           NEW r, Reached(src, pos, a, r), Follows(src, pos, a \o b), NEW x,
           r.rv # "Good" => x.rv # "Good",
           r.rv = "Good" /\ Follows(src, r.pos, b) => Reached(src, r.pos, b, x)
    PROVE  Reached(src, pos, a \o b, x) /\ a \o b \in Seq(Octet) /\ (x.rv = "Good" => r.rv = "Good")
<1>1. Follows(src, pos, a) /\ Follows(src, pos + Len(a), b) /\ a \o b \in Seq(Octet)
  BY FollowsConcat
<1>2. Len(src) \in Nat
  OBVIOUS
<1>3. CASE r.rv = "Good"
  <2>1. r.pos = pos + Len(a) /\ (\A y : Reached(src, r.pos, b, y) => Reached(src, pos, a \o b, y))
    BY <1>2, <1>3, ReachedThere
  <2>2. Follows(src, r.pos, b)
    BY <1>1, <2>1
  <2> QED
    BY <1>1, <1>3, <2>1, <2>2
<1>4. CASE r.rv # "Good"
  <2>1. \A y : y.rv # "Good" => Reached(src, pos, a \o b, y)
    BY <1>2, <1>4, ReachedThere
  <2> QED
    BY <1>1, <1>4, <2>1
<1> QED
  BY <1>3, <1>4

\* What stands at the start is read first.
LEMMA FollowsFirst ==
    ASSUME NEW src, NEW pos \in Nat, NEW a \in Seq(Octet), NEW b \in Seq(Octet), Follows(src, pos, a \o b)
    PROVE  Follows(src, pos, a) /\ Follows(src, pos + Len(a), b) /\ a \o b \in Seq(Octet)
BY FollowsConcat

ReadInto(r, rv, q, e) == [r EXCEPT !.rv = rv, !.pos = q, !.dst = e]

HasStored(r, x, rv, q, member, v) ==
    x.rv = rv /\ x.pos = q /\ Kept(r.dst, x.dst, {member}) /\ x.dst[member] = v

\* A member is stored by a read that ends in the status rv at the offset q.
LEMMA StoredState ==
    ASSUME NEW src, NEW r \in States(src), NEW member \in Strings, NEW v, NEW h, NEW rv, NEW q,
           NEW e, e = Stored(r.dst, member, v, h), NEW x, x = ReadInto(r, rv, q, e)
    PROVE  HasStored(r, x, rv, q, member, v)
<1>1. r.dst \in LooseMessages
  BY DEF States
<1>2. Kept(r.dst, e, {member}) /\ e[member] = v
  BY <1>1, StoredKept
<1>3. x.rv = rv /\ x.pos = q /\ x.dst = e
  BY DEF States, ReadInto
<1> QED
  BY <1>2, <1>3 DEF HasStored

Copied(s, n) == [i \in 1..n |-> s[i]]

\* The bytes b have been read, and v has been stored for them.
HasRead(src, r, x, b, member, v) ==
    /\ Reached(src, r.pos, b, x)
    /\ x.rv = "Good" => Kept(r.dst, x.dst, {member}) /\ x.dst[member] = v

\* An array of numbers.
LEMMA ReadNumbersReads ==
    ASSUME NEW src \in Seq(Octet), NEW r \in States(src), NEW n \in Nat, NEW w \in {1, 2},
           NEW s, \A i \in 1..n : s[i] \in Unsigned(w), Follows(src, r.pos, NumbersBytes(s, n, w)),
           NEW member \in Strings, NEW x, x = ReadNumbers(src, r, n, w, member)
    PROVE  HasRead(src, r, x, NumbersBytes(s, n, w), member, Copied(s, n))
<1> DEFINE p == r.pos
           c == Len(src)
           fit == FitIn(c, p, w)
           got == Got(c, p, n, w)
           v == [i \in 1..got |-> Num(src, p + w * (i - 1), w)]
           h == IF n > 0 THEN r.dst.heap \cup {member} ELSE r.dst.heap
           e == Stored(r.dst, member, v, h)
           rv == IF n <= fit THEN "Good" ELSE "BadDecodingError"
           q == p + w * got
           b == NumbersBytes(s, n, w)
<1>1. /\ p \in 0..c /\ p \in Nat /\ c \in Nat
  BY DEF States
<1>2. x = ReadInto(r, rv, q, e)
  BY DEF ReadNumbers, Stored, FitIn, Got, ReadInto
<1>3. /\ b \in Seq(Octet) /\ Len(b) = w * n
      /\ \A i \in 1..n : (p + w * (i - 1)) + w <= c => Num(src, p + w * (i - 1), w) = s[i]
  <2>1. Follows(src, p, b)
    OBVIOUS
  <2> HIDE DEF p, c
  <2>2. NumbersAt(src, p, s, n, w)
    BY <1>1, <2>1, NumbersReads
  <2> QED
    BY <2>2 DEF c, NumbersAt
<1>4. /\ Inside(c, p, w, got) /\ (n <= fit <=> p + w * n <= c)
  <2>1. got = Got(c, p, n, w)
    OBVIOUS
  <2> HIDE DEF got, c, p
  <2>2. Inside(c, p, w, got) /\ (n <= FitIn(c, p, w) <=> p + w * n <= c)
    BY <1>1, <2>1, GotFits
  <2> QED
    BY <2>2
<1>5. n <= fit => got = n
  BY DEF Got
<1> HIDE DEF v, h, rv, q, got, fit, p, c, e
<1>6. x.rv = rv /\ x.pos = q /\ Kept(r.dst, x.dst, {member}) /\ x.dst[member] = v
  <2>1. e = Stored(r.dst, member, v, h)
    BY DEF e
  <2>2. HasStored(r, x, rv, q, member, v)
    BY <1>2, <2>1, StoredState
  <2> QED
    BY <2>2 DEF HasStored
<1>7. Reached(src, r.pos, b, x)
  <2>1. rv = "Good" <=> n <= fit
    BY DEF rv
  <2>2. n <= fit => q = p + w * n
    BY <1>5 DEF q
  <2> HIDE DEF b
  <2> QED
    BY <1>3, <1>4, <1>6, <2>1, <2>2 DEF Reached, p, c
<1>8. ASSUME x.rv = "Good" PROVE v = [i \in 1..n |-> s[i]]
  <2>1. n <= fit /\ got = n
    BY <1>5, <1>6, <1>8 DEF rv
  <2>2. \A i \in 1..n : (p + w * (i - 1)) + w <= c
    BY <1>4, <2>1 DEF Inside
  <2>3. \A i \in 1..n : Num(src, p + w * (i - 1), w) = s[i]
    BY <1>3, <2>2
  <2> QED
    BY <2>1, <2>3 DEF v
<1> QED
  BY <1>6, <1>7, <1>8 DEF HasRead, Copied, b

\* A byte string with its length in front of it.
LEMMA StringReads ==
    ASSUME NEW src \in Seq(Octet), NEW r \in States(src), NEW data \in Seq(Octet), Len(data) \in Unsigned(4),
           Follows(src, r.pos, EncodeArray(data, 1)),
           NEW member \in Strings, NEW x, x = ReadString(src, r, member)
    PROVE  HasRead(src, r, x, EncodeArray(data, 1), member, data)
<1> DEFINE y == DecodeArray(src, r.pos, 1)
           h == IF y.value = <<>> THEN r.dst.heap ELSE r.dst.heap \cup {member}
           e == Stored(r.dst, member, y.value, h)
           b == EncodeArray(data, 1)
<1>1. r.pos \in 0..Len(src)
  BY DEF States
<1>2. x = ReadInto(r, y.rv, y.pos, e)
  BY DEF ReadString, Stored, ReadInto
<1>3. data \in Seq(Unsigned(1))
  <2> DEFINE U == Unsigned(1)
  <2>1. Octet \subseteq U
    BY OneByte
  <2> HIDE DEF U
  <2>2. data \in Seq(U)
    BY <2>1, SeqOfMore
  <2> QED
    BY <2>2 DEF U
<1>4. Reads(src, r.pos, b, y, data)
  BY <1>1, <1>3, ArrayReads DEF Widths
<1> HIDE DEF y, h, e, b
<1>5. x.rv = y.rv /\ x.pos = y.pos /\ Kept(r.dst, x.dst, {member}) /\ x.dst[member] = y.value
  <2> DEFINE rv == y.rv
             q == y.pos
             v == y.value
  <2>1. e = Stored(r.dst, member, v, h) /\ x = ReadInto(r, rv, q, e)
    BY <1>2 DEF e
  <2> HIDE DEF rv, q, v
  <2>2. HasStored(r, x, rv, q, member, v)
    BY <2>1, StoredState
  <2> QED
    BY <2>2 DEF rv, q, v, HasStored
<1> QED
  BY <1>4, <1>5 DEF Reads, Reached, b, HasRead

\* Some of the number fields are those of the message m, the others as they were.
Over(v, u, T, m) == \A f \in NMFields : u[f] = IF f \in T THEN m.val[f] ELSE v[f]

\* Changes of number fields add up.
LEMMA OverMore ==
    ASSUME NEW u, NEW v, NEW w, NEW S, NEW T, NEW m, Over(u, v, S, m), Over(v, w, T, m)
    PROVE  Over(u, w, S \cup T, m)
BY DEF Over

\* No change at all.
LEMMA OverNone == \A v, m : Over(v, v, {}, m)
BY DEF Over

\* One number field.
LEMMA OneNumberReads ==
    ASSUME NEW src \in Seq(Octet), NEW r \in States(src), r.rv = "Good", NEW f \in NMFields, NEW w \in Widths,
           NEW m, m.val[f] \in Unsigned(w), Follows(src, r.pos, LE(m.val[f], w)),
           NEW x, x = ReadNumber(src, r, f, w)
    PROVE  /\ Reached(src, r.pos, LE(m.val[f], w), x)
           /\ x.rv = "Good" => Kept(r.dst, x.dst, {"val"}) /\ Over(r.dst.val, x.dst.val, {f}, m)
<1> DEFINE n == m.val[f]
           v == SetField(r.dst.val, f, x.last)
<1>1. Reached(src, r.pos, LE(n, w), x) /\ (x.rv = "Good" => x.last = n)
  BY NumberReads
<1>2. x \in States(src) /\ (x.rv = "Good" => x.dst = WithVal(r.dst, v))
  BY ReadNumberType
<1>3. ASSUME x.rv = "Good"
      PROVE  Kept(r.dst, x.dst, {"val"}) /\ Over(r.dst.val, x.dst.val, {f}, m)
  <2>1. r.dst \in LooseMessages /\ r.dst.val \in [NMFields -> Nat]
    BY DEF States, LooseMessages
  <2>2. Over(r.dst.val, v, {f}, m)
    BY <1>1, <1>3, <2>1 DEF Over, SetField
  <2> HIDE DEF v
  <2>3. Kept(r.dst, x.dst, {"val"}) /\ x.dst.val = v
    BY <1>2, <1>3, <2>1, WithKept
  <2> QED
    BY <2>2, <2>3
<1> QED
  BY <1>1, <1>3

\* The optional number fields of a layout.
FieldsIn(on, layout) == {f \in on : \E i \in 1..Len(layout) : layout[i][1] = f}

SameOn(d, m, layout) == \A i \in 1..Len(layout) : layout[i][1] \in d.on <=> layout[i][1] \in m.on

\* A message agrees with m in the fields of a layout, and has changed in them only.
HasSection(d, e, m, layout) ==
    Kept(d, e, {"val"}) /\ Over(d.val, e.val, FieldsIn(m.on, layout), m)

\* The optional fields of a section are read in the order they were written in.
LEMMA SectionReads ==
    ASSUME NEW src \in Seq(Octet), NEW r \in States(src), NEW layout \in Seq(NMFields \X Widths),
           NEW m, FieldsFit(m.val, layout), SameOn(r.dst, m, layout),
           NEW pos \in Nat, NEW g, Grows(g, m.on, m.val, layout), Reached(src, pos, g[0], r),
           Follows(src, pos, g[Len(layout)]), NEW x, x = ReadSection(src, r, layout)
    PROVE  /\ Reached(src, pos, g[Len(layout)], x)
           /\ x.rv = "Good" => r.rv = "Good" /\ HasSection(r.dst, x.dst, m, layout)
<1> DEFINE b == [rv |-> r.rv, pos |-> r.pos, val |-> r.dst.val]
           on == r.dst.on
           v == m.val
           y == ReadFields(src, b, on, layout)
           e == WithVal(r.dst, y.val)
<1>1. b \in Readers(src, NMFields) /\ r.dst \in LooseMessages
  BY DEF States, LooseMessages, Readers
<1>2. x = ReadInto(r, y.rv, y.pos, e)
  BY DEF ReadSection, TookSection, WithVal, ReadInto
<1>3. b.rv = r.rv /\ b.pos = r.pos /\ b.val = r.dst.val
  OBVIOUS
<1>4. Grows(g, on, v, layout)
  <2>1. \A i \in 1..Len(layout) : OptionalBytes(on, v, layout[i][1], layout[i][2])
                                    = OptionalBytes(m.on, v, layout[i][1], layout[i][2])
    BY DEF SameOn, OptionalBytes
  <2> QED
    BY <2>1 DEF Grows
<1>5. Reached(src, pos, g[0], b)
  BY <1>3 DEF Reached
<1>6. FieldsFit(v, layout)
  OBVIOUS
<1> HIDE DEF b, on, v
<1>7. /\ Reached(src, pos, g[Len(layout)], y) /\ y \in Readers(src, NMFields)
      /\ y.rv = "Good" => b.rv = "Good" /\ Filled(y, b, on, v, layout, NMFields)
  BY <1>1, <1>4, <1>5, <1>6, FieldsReads
<1> HIDE DEF y
<1>8. x.rv = y.rv /\ x.pos = y.pos /\ x.dst = e
  <2> HIDE DEF e
  <2> QED
    BY <1>2 DEF ReadInto, States
<1>9. Kept(r.dst, e, {"val"}) /\ e.val = y.val
  BY <1>1, WithKept
<1> HIDE DEF e
<1>10. ASSUME y.rv = "Good"
       PROVE  Over(r.dst.val, y.val, FieldsIn(m.on, layout), m)
  <2>1. Filled(y, b, on, v, layout, NMFields)
    BY <1>7, <1>10
  <2>2. \A f : f \in FieldsIn(m.on, layout) <=> (f \in on /\ \E i \in 1..Len(layout) : layout[i][1] = f)
    BY DEF FieldsIn, SameOn, on
  <2> QED
    BY <1>3, <2>1, <2>2 DEF Filled, Over, v
<1> QED
  BY <1>3, <1>7, <1>8, <1>9, <1>10 DEF Reached, HasSection

---------------------------------------------------------------------------
(* The flags. *)

\* The second extended flags.
HasExt2(d, e, m) ==
    /\ Kept(d, e, {"on", "nmType"}) /\ e.on = d.on \cup (m.on \cap DOMAIN Ext2Flags)
    /\ e.nmType = m.nmType

\* A byte of flags that is read gives its features.
LEMMA FlagsRead2 ==
    ASSUME NEW src \in Seq(Octet), NEW r, Bare(src, r), r.rv = "Good", NEW v \in Octet,
           Follows(src, r.pos, <<v>>), NEW masks, DOMAIN masks \subseteq AllFeatures,
           NEW x, x = ReadFlags(src, r, masks)
    PROVE  /\ Reached(src, r.pos, <<v>>, x) /\ Bare(src, x)
           /\ x.rv = "Good" => /\ x.last = v /\ v \in Nat
                               /\ Kept(r.dst, x.dst, {"on"}) /\ x.dst.on = r.dst.on \cup FlagsIn(v, masks)
<1>1. r \in States(src) /\ v \in Nat
  BY DEF Bare, Octet
<1>2. Reached(src, r.pos, <<v>>, x) /\ (x.rv = "Good" => x.last = v)
  BY <1>1, FlagByteReads
<1>3. Bare(src, x)
  BY FlagsBare
<1>4. x.rv = "Good" => x.dst = WithOn(r.dst, r.dst.on \cup FlagsIn(x.last, masks))
  <2> DEFINE a == Take(src, r, 1)
             e == WithOn(a.dst, a.dst.on \cup FlagsIn(a.last, masks))
  <2>1. a \in States(src) /\ a.dst = r.dst
    BY <1>1, TakeType DEF Widths
  <2>2. x = IF a.rv = "Good" THEN [a EXCEPT !.dst = e] ELSE a
    BY DEF ReadFlags, Then, WithOn
  <2>3. e = WithOn(r.dst, r.dst.on \cup FlagsIn(a.last, masks))
    BY <2>1
  <2> HIDE DEF a, e
  <2>4. x.rv = "Good" => x.dst = e /\ x.last = a.last
    BY <2>1, <2>2 DEF States
  <2> QED
    BY <2>3, <2>4
<1>5. ASSUME x.rv = "Good"
      PROVE  Kept(r.dst, x.dst, {"on"}) /\ x.dst.on = r.dst.on \cup FlagsIn(v, masks)
  <2> DEFINE s == r.dst.on \cup FlagsIn(v, masks)
  <2>1. r.dst \in LooseMessages /\ x.dst = WithOn(r.dst, s)
    BY <1>1, <1>2, <1>4, <1>5 DEF States
  <2> HIDE DEF s
  <2>2. Kept(r.dst, x.dst, {"on"}) /\ x.dst.on = s
    BY <2>1, WithKept
  <2> QED
    BY <2>2 DEF s
<1> QED
  BY <1>1, <1>2, <1>3, <1>5

\* The numbers in the flags are stored.
LEMMA TypedKept ==
    ASSUME NEW src, NEW r, Bare(src, r), NEW n
    PROVE  /\ Kept(r.dst, NmTyped(r, n).dst, {"nmType"}) /\ NmTyped(r, n).dst.nmType = n
           /\ Kept(r.dst, PubTyped(r, n).dst, {"pubType"}) /\ PubTyped(r, n).dst.pubType = n
           /\ Kept(r.dst, Versioned(r, n).dst, {"version"}) /\ Versioned(r, n).dst.version = n
           /\ NmTyped(r, n).rv = r.rv /\ PubTyped(r, n).rv = r.rv /\ Versioned(r, n).rv = r.rv
           /\ NmTyped(r, n).pos = r.pos /\ PubTyped(r, n).pos = r.pos /\ Versioned(r, n).pos = r.pos
BY DEF Bare, States, LooseMessages, NmTyped, PubTyped, Versioned, Kept, Members

\* The second byte of extended flags.
LEMMA Ext2Reads ==
    ASSUME NEW src \in Seq(Octet), NEW r, Bare(src, r), r.rv = "Good", NEW m \in NetworkMessages,
           Follows(src, r.pos, <<Ext2Flag(m)>>), NEW x, x = DecodeExtendedFlags2(src, r)
    PROVE  /\ Reached(src, r.pos, <<Ext2Flag(m)>>, x)
           /\ x.rv = "Good" => HasExt2(r.dst, x.dst, m)
<1> DEFINE v == Ext2Flag(m)
           a == ReadFlags(src, r, Ext2Flags)
           n == (a.last \div 4) % 8
           s == NmTyped(a, n)
<1>1. v \in Octet /\ FlagsIn(v, Ext2Flags) = m.on \cap DOMAIN Ext2Flags /\ (v \div 4) % 8 = m.nmType
  BY MessageFlags
<1>2. x = IF a.rv = "Good" THEN s ELSE a
  BY DEF DecodeExtendedFlags2, Then, NmTyped
<1>3. Follows(src, r.pos, <<v>>)
  OBVIOUS
<1> HIDE DEF v
<1>4. /\ Reached(src, r.pos, <<v>>, a) /\ Bare(src, a)
      /\ a.rv = "Good" => /\ a.last = v /\ v \in Nat
                          /\ Kept(r.dst, a.dst, {"on"}) /\ a.dst.on = r.dst.on \cup FlagsIn(v, Ext2Flags)
  BY <1>1, <1>3, FlagsRead2, FlagsAreFeatures
<1>5. a.rv = "Good" => n = m.nmType
  BY <1>1, <1>4
<1> HIDE DEF a, n
<1>6. Kept(a.dst, s.dst, {"nmType"}) /\ s.dst.nmType = n /\ s.rv = a.rv /\ s.pos = a.pos
  BY <1>4, TypedKept
<1> HIDE DEF s
<1>7. ASSUME a.rv = "Good" PROVE HasExt2(r.dst, s.dst, m)
  <2>1. Kept(r.dst, s.dst, {"on", "nmType"})
    BY <1>4, <1>6, <1>7 DEF Kept
  <2>2. s.dst.on = a.dst.on
    BY <1>6 DEF Kept, Members
  <2> QED
    BY <1>1, <1>4, <1>5, <1>6, <1>7, <2>1, <2>2 DEF HasExt2
<1> QED
  BY <1>2, <1>4, <1>6, <1>7 DEF Reached, v

\* The extended flags.
ExtBytes(m) == <<Ext1Flag(m)>> \o (IF ExtendedFlags2Enabled(m) THEN <<Ext2Flag(m)>> ELSE <<>>)

HasExt1(d, e, m) ==
    /\ Kept(d, e, {"on", "pubType", "nmType"})
    /\ e.on = d.on \cup (m.on \cap DOMAIN Ext1Flags) \cup (m.on \cap DOMAIN Ext2Flags)
    /\ e.pubType = m.pubType /\ e.nmType = m.nmType

\* The first, and the second behind it.
LEMMA Ext1Reads ==
    ASSUME NEW src \in Seq(Octet), NEW r, Bare(src, r), r.rv = "Good", NEW m \in NetworkMessages,
           r.dst.nmType = 0,
           Follows(src, r.pos, ExtBytes(m)), NEW x, x = DecodeExtendedFlags1(src, r)
    PROVE  /\ Reached(src, r.pos, ExtBytes(m), x) /\ ExtBytes(m) \in Seq(Octet)
           /\ x.rv = "Good" => HasExt1(r.dst, x.dst, m)
<1> DEFINE v == Ext1Flag(m)
           u == Ext2Flag(m)
           a == ReadFlags(src, r, Ext1Flags)
           n == a.last % 8
           s == PubTyped(a, n)
           b == <<v>>
           c == IF ExtendedFlags2Enabled(m) THEN <<u>> ELSE <<>>
<1>1. v \in Octet /\ FlagsIn(v, Ext1Flags) = m.on \cap DOMAIN Ext1Flags /\ v % 8 = m.pubType
      /\ (Bit(v, 128) <=> ExtendedFlags2Enabled(m)) /\ u \in Octet
  BY MessageFlags
<1>2. x = IF a.rv = "Good" THEN (IF Bit(a.last, 128) THEN DecodeExtendedFlags2(src, s) ELSE s) ELSE a
  BY DEF DecodeExtendedFlags1, Then, PubTyped
<1> HIDE DEF v, u
<1>3. b \in Seq(Octet) /\ c \in Seq(Octet)
  BY <1>1
<1>4. ExtBytes(m) = b \o c
  BY DEF ExtBytes, v, u
<1> HIDE DEF b, c
<1>5. r.pos \in Nat
  BY DEF Bare, States
<1>6. Follows(src, r.pos, b) /\ Follows(src, r.pos, b \o c)
  BY <1>3, <1>4, <1>5, FollowsFirst
<1>7. /\ Reached(src, r.pos, b, a) /\ Bare(src, a)
      /\ a.rv = "Good" => /\ a.last = v /\ v \in Nat
                          /\ Kept(r.dst, a.dst, {"on"}) /\ a.dst.on = r.dst.on \cup FlagsIn(v, Ext1Flags)
  <2>1. Follows(src, r.pos, <<v>>)
    BY <1>6 DEF b
  <2>2. /\ Reached(src, r.pos, <<v>>, a) /\ Bare(src, a)
        /\ a.rv = "Good" => /\ a.last = v /\ v \in Nat
                            /\ Kept(r.dst, a.dst, {"on"}) /\ a.dst.on = r.dst.on \cup FlagsIn(v, Ext1Flags)
    BY <1>1, <2>1, FlagsRead2, FlagsAreFeatures
  <2> QED
    BY <2>2 DEF b
<1>8. a.rv = "Good" => n = m.pubType /\ n \in Nat
  BY <1>1, <1>7, MessageHas
<1> HIDE DEF a, n
<1>9. Kept(a.dst, s.dst, {"pubType"}) /\ s.dst.pubType = n /\ s.rv = a.rv /\ s.pos = a.pos
  BY <1>7, TypedKept
<1>10. a.rv = "Good" => Bare(src, s)
  BY <1>7, <1>8, WithNumberType
<1> HIDE DEF s
<1>11. ASSUME a.rv = "Good"
       PROVE  /\ Kept(r.dst, s.dst, {"on", "pubType"}) /\ s.dst.pubType = m.pubType
              /\ s.dst.on = r.dst.on \cup (m.on \cap DOMAIN Ext1Flags) /\ s.dst.nmType = 0
  BY <1>1, <1>7, <1>8, <1>9, <1>11 DEF Kept, Members
<1>12. Reached(src, r.pos, b, s)
  BY <1>7, <1>9 DEF Reached
<1>13. CASE a.rv = "Good" /\ ExtendedFlags2Enabled(m)
  <2>1. x = DecodeExtendedFlags2(src, s) /\ c = <<u>>
    BY <1>1, <1>2, <1>7, <1>13 DEF c
  <2>2. Follows(src, s.pos, c) => /\ Reached(src, s.pos, c, x)
                                  /\ x.rv = "Good" => HasExt2(s.dst, x.dst, m)
    BY <1>9, <1>10, <1>13, <2>1, Ext2Reads DEF u
  <2>3. Reached(src, r.pos, b \o c, x) /\ b \o c \in Seq(Octet)
    BY <1>3, <1>5, <1>6, <1>9, <1>12, <1>13, <2>2, Chain
  <2>4. Follows(src, s.pos, c)
    <3>1. Follows(src, r.pos + Len(b), c)
      BY <1>3, <1>5, <1>6, FollowsFirst
    <3> QED
      BY <1>7, <1>9, <1>13, <3>1 DEF Reached
  <2>5. x.rv = "Good" => HasExt1(r.dst, x.dst, m)
    BY <1>11, <1>13, <2>2, <2>4 DEF HasExt1, HasExt2, Kept, Members
  <2> QED
    BY <1>4, <2>3, <2>5
<1>14. CASE a.rv = "Good" /\ ~ExtendedFlags2Enabled(m)
  <2>1. x = s /\ c = <<>> /\ m.nmType = 0 /\ m.on \cap DOMAIN Ext2Flags = {}
    BY <1>1, <1>2, <1>7, <1>14, Features DEF c, ExtendedFlags2Enabled
  <2>2. b \o c = b
    BY <1>3, <2>1
  <2>3. x.rv = "Good" => HasExt1(r.dst, x.dst, m)
    BY <1>11, <1>14, <2>1 DEF HasExt1, Kept
  <2> QED
    BY <1>3, <1>4, <1>12, <2>1, <2>2, <2>3
<1>15. CASE a.rv # "Good"
  <2>1. x = a
    BY <1>2, <1>15
  <2>2. Reached(src, r.pos, b \o c, x) /\ b \o c \in Seq(Octet)
    BY <1>3, <1>5, <1>6, <1>7, <1>15, <2>1, Chain
  <2> QED
    BY <1>4, <1>15, <2>1, <2>2
<1> QED
  BY <1>13, <1>14, <1>15

\* Nothing has been read yet.
LEMMA ReachedNone ==
    ASSUME NEW src \in Seq(Octet), NEW r \in States(src), r.rv = "Good"
    PROVE  Reached(src, r.pos, <<>>, r)
<1>1. Len(<<>>) = 0 /\ r.pos \in 0..Len(src)
  BY DEF States
<1> QED
  BY <1>1 DEF Reached

\* The features in the flags.
InFlags == DOMAIN NMFlags \cup DOMAIN Ext1Flags \cup DOMAIN Ext2Flags

HasFlags(d, m) ==
    /\ Kept(Blank, d, {"on", "version", "pubType", "nmType"})
    /\ d.on = m.on \cap InFlags /\ d.version = m.version /\ d.pubType = m.pubType /\ d.nmType = m.nmType

\* All of the flags.
LEMMA DecodeFlagsReads ==
    ASSUME NEW src \in Seq(Octet), NEW m \in NetworkMessages, Follows(src, 0, FlagsBytes(m)),
           NEW x, x = DecodeFlags(src)
    PROVE  /\ Reached(src, 0, FlagsBytes(m), x) /\ FlagsBytes(m) \in Seq(Octet) /\ x \in States(src)
           /\ x.rv = "Good" => HasFlags(x.dst, m)
<1> DEFINE r == Start
           v == NMFlag(m)
           a == ReadFlags(src, r, NMFlags)
           n == a.last % 16
           s == Versioned(a, n)
           b == <<v>>
           c == IF ExtendedFlags1Enabled(m) THEN ExtBytes(m) ELSE <<>>
           p == 0
<1>1. /\ v \in Octet /\ FlagsIn(v, NMFlags) = m.on \cap DOMAIN NMFlags /\ v % 16 = m.version
      /\ (Bit(v, 128) <=> ExtendedFlags1Enabled(m)) /\ Ext1Flag(m) \in Octet /\ Ext2Flag(m) \in Octet
  BY MessageFlags
<1>2. x = IF a.rv = "Good" THEN (IF Bit(a.last, 128) THEN DecodeExtendedFlags1(src, s) ELSE s) ELSE a
  BY DEF DecodeFlags, Then, Versioned, Start
<1>3. Bare(src, r) /\ r.rv = "Good" /\ r.pos = p /\ r.dst = Blank /\ p \in Nat
  <2>1. Len(src) \in Nat
    OBVIOUS
  <2> QED
    BY <2>1, BlankType DEF Start, Bare, States, Codes
<1>4. b \in Seq(Octet) /\ c \in Seq(Octet) /\ FlagsBytes(m) = b \o c
  <2> DEFINE e == <<Ext1Flag(m)>>
             f == <<Ext2Flag(m)>>
  <2>1. b \in Seq(Octet) /\ e \in Seq(Octet) /\ f \in Seq(Octet) /\ <<>> \in Seq(Octet)
    BY <1>1
  <2>2. CASE ExtendedFlags1Enabled(m) /\ ExtendedFlags2Enabled(m)
    <3>1. FlagsBytes(m) = (b \o e) \o f /\ c = e \o f
      BY <2>2 DEF FlagsBytes, ExtBytes
    <3> HIDE DEF b, c, e, f
    <3> QED
      BY SMTT(40), <2>1, <3>1, Regroup, OctetsConcat
  <2>3. CASE ExtendedFlags1Enabled(m) /\ ~ExtendedFlags2Enabled(m)
    <3>1. FlagsBytes(m) = (b \o e) \o <<>> /\ c = e \o <<>>
      BY <2>3 DEF FlagsBytes, ExtBytes
    <3> HIDE DEF b, c, e, f
    <3> QED
      BY <2>1, <3>1
  <2>4. CASE ~ExtendedFlags1Enabled(m)
    <3>1. ~ExtendedFlags2Enabled(m)
      BY <2>4 DEF ExtendedFlags1Enabled
    <3>2. FlagsBytes(m) = (b \o <<>>) \o <<>> /\ c = <<>>
      BY <2>4, <3>1 DEF FlagsBytes
    <3> HIDE DEF b, c
    <3> QED
      BY <2>1, <3>2
  <2> QED
    BY <2>2, <2>3, <2>4
<1> HIDE DEF r, v, b, c
<1>5. Follows(src, p, b \o c) /\ Follows(src, p, b) /\ b \o c \in Seq(Octet) /\ Follows(src, p + Len(b), c)
  BY <1>3, <1>4, FollowsFirst
<1>6. /\ Reached(src, p, b, a) /\ Bare(src, a)
      /\ a.rv = "Good" => /\ a.last = v /\ v \in Nat
                          /\ Kept(Blank, a.dst, {"on"}) /\ a.dst.on = Blank.on \cup FlagsIn(v, NMFlags)
  <2>1. Follows(src, r.pos, <<v>>)
    BY <1>3, <1>5 DEF b
  <2>2. /\ Reached(src, r.pos, <<v>>, a) /\ Bare(src, a)
        /\ a.rv = "Good" => /\ a.last = v /\ v \in Nat
                            /\ Kept(r.dst, a.dst, {"on"}) /\ a.dst.on = r.dst.on \cup FlagsIn(v, NMFlags)
    BY <1>1, <1>3, <2>1, FlagsRead2, FlagsAreFeatures
  <2> QED
    BY <1>3, <2>2 DEF b
<1>7. a.rv = "Good" => n = m.version /\ n \in Nat
  BY <1>1, <1>6, MessageHas
<1> HIDE DEF a, n, p
<1>8. Kept(a.dst, s.dst, {"version"}) /\ s.dst.version = n /\ s.rv = a.rv /\ s.pos = a.pos
  BY <1>6, TypedKept
<1>9. a.rv = "Good" => Bare(src, s)
  BY <1>6, <1>7, WithNumberType
<1> HIDE DEF s
<1>10. Blank.on = {} /\ Blank.pubType = 0 /\ Blank.nmType = 0
  BY DEF Blank
<1>11. ASSUME a.rv = "Good"
       PROVE  /\ Kept(Blank, s.dst, {"on", "version"}) /\ s.dst.version = m.version
              /\ s.dst.on = m.on \cap DOMAIN NMFlags /\ s.dst.nmType = 0 /\ s.dst.pubType = 0
  BY <1>1, <1>6, <1>7, <1>8, <1>10, <1>11 DEF Kept, Members
<1>12. Reached(src, p, b, s)
  BY <1>6, <1>8 DEF Reached
<1>13. CASE a.rv = "Good" /\ ExtendedFlags1Enabled(m)
  <2>1. x = DecodeExtendedFlags1(src, s) /\ c = ExtBytes(m)
    BY <1>1, <1>2, <1>6, <1>13 DEF c
  <2>2. Follows(src, s.pos, c) => /\ Reached(src, s.pos, c, x)
                                  /\ x.rv = "Good" => HasExt1(s.dst, x.dst, m)
    BY <1>8, <1>9, <1>11, <1>13, <2>1, Ext1Reads
  <2>3. Reached(src, p, b \o c, x)
    BY <1>3, <1>4, <1>5, <1>8, <1>12, <1>13, <2>2, Chain
  <2>4. Follows(src, s.pos, c)
    BY <1>5, <1>6, <1>8, <1>13 DEF Reached
  <2>5. x.rv = "Good" => HasFlags(x.dst, m)
    <3> SUFFICES ASSUME x.rv = "Good" PROVE HasFlags(x.dst, m)
      OBVIOUS
    <3>1. HasExt1(s.dst, x.dst, m)
      BY <2>2, <2>4
    <3>2. Kept(Blank, x.dst, {"on", "version", "pubType", "nmType"}) /\ x.dst.version = s.dst.version
      BY <1>11, <1>13, <3>1 DEF HasExt1, Kept, Members
    <3>3. x.dst.on = m.on \cap InFlags
      BY <1>11, <1>13, <3>1 DEF HasExt1, InFlags
    <3> QED
      BY <1>11, <1>13, <3>1, <3>2, <3>3 DEF HasExt1, HasFlags
  <2>6. x \in States(src)
    BY <1>9, <1>13, <2>1, Ext1Type DEF Bare
  <2> QED
    BY <1>4, <1>5, <2>3, <2>5, <2>6 DEF p
<1>14. CASE a.rv = "Good" /\ ~ExtendedFlags1Enabled(m)
  <2>1. x = s /\ c = <<>>
    BY <1>1, <1>2, <1>6, <1>14 DEF c
  <2>2. m.nmType = 0 /\ m.pubType = 0 /\ m.on \cap DOMAIN Ext1Flags = {} /\ m.on \cap DOMAIN Ext2Flags = {}
    BY <1>14, Features DEF ExtendedFlags2Enabled, ExtendedFlags1Enabled
  <2>3. b \o c = b
    BY <1>4, <2>1
  <2>4. x.rv = "Good" => HasFlags(x.dst, m)
    BY <1>11, <1>14, <2>1, <2>2 DEF HasFlags, Kept, InFlags
  <2> QED
    BY <1>4, <1>9, <1>12, <1>14, <2>1, <2>3, <2>4 DEF p, Bare
<1>15. CASE a.rv # "Good"
  <2>1. x = a
    BY <1>2, <1>15
  <2>2. Reached(src, p, b \o c, x)
    BY <1>3, <1>4, <1>5, <1>6, <1>15, <2>1, Chain
  <2> QED
    BY <1>4, <1>5, <1>6, <1>15, <2>1, <2>2 DEF p, Bare
<1> QED
  BY <1>13, <1>14, <1>15

\* What the later sections look at is as in the message m.
Ctx(d, m) ==
    /\ d.on \subseteq m.on /\ m.on \cap InFlags \subseteq d.on
    /\ d.pubType = m.pubType /\ d.nmType = m.nmType

\* A change of other members keeps it.
LEMMA CtxStays ==
    ASSUME NEW d, NEW e, NEW S, NEW m, Ctx(d, m), Kept(d, e, S), "on" \notin S,
           "pubType" \notin S, "nmType" \notin S
    PROVE  Ctx(e, m)
<1>1. {"on", "pubType", "nmType"} \subseteq Members \ S
  BY DEF Members
<1>2. \A f \in {"on", "pubType", "nmType"} : e[f] = d[f]
  BY <1>1 DEF Kept
<1>3. e.on = d.on /\ e.pubType = d.pubType /\ e.nmType = d.nmType
  BY <1>2
<1> QED
  BY <1>3 DEF Ctx

\* So does another feature of m.
LEMMA CtxGrows ==
    ASSUME NEW d, NEW e, NEW S, NEW m, Ctx(d, m), Kept(d, e, S),
           "pubType" \notin S, "nmType" \notin S, d.on \subseteq e.on, e.on \subseteq m.on
    PROVE  Ctx(e, m)
<1>1. {"pubType", "nmType"} \subseteq Members \ S
  BY DEF Members
<1>2. \A f \in {"pubType", "nmType"} : e[f] = d[f]
  BY <1>1 DEF Kept
<1>3. e.pubType = d.pubType /\ e.nmType = d.nmType
  BY <1>2
<1> QED
  BY <1>3 DEF Ctx

\* The features in the flags are known to the later sections.
LEMMA FlagsKnown ==
    ASSUME NEW d, NEW m, Ctx(d, m)
    PROVE  \A f \in {"publisherId", "groupHeader", "payloadHeader", "classId", "security", "timestamp",
                      "picoseconds", "chunk", "promoted"} : f \in d.on <=> f \in m.on
<1>1. {"publisherId", "groupHeader", "payloadHeader", "classId", "security", "timestamp", "picoseconds",
       "chunk", "promoted"} = InFlags
  BY Features DEF InFlags
<1> QED
  BY <1>1 DEF Ctx

---------------------------------------------------------------------------
(* The publisher id. *)

HasPublisher(d, e, m) ==
    /\ Kept(d, e, {"val", "pubString"})
    /\ Over(d.val, e.val, IF "publisherId" \in m.on /\ m.pubType # StringId THEN {"publisherId"} ELSE {}, m)
    /\ e.pubString = IF "publisherId" \in m.on /\ m.pubType = StringId THEN m.pubString ELSE d.pubString

\* The publisher id, of either kind.
LEMMA PublisherReads ==
    ASSUME NEW src \in Seq(Octet), NEW r \in States(src), r.rv = "Good", NEW m \in NetworkMessages,
           Ctx(r.dst, m), Follows(src, r.pos, PublisherBytes(m)), NEW x, x = DecodePublisherId(src, r)
    PROVE  /\ Reached(src, r.pos, PublisherBytes(m), x)
           /\ x.rv = "Good" => HasPublisher(r.dst, x.dst, m)
<1>1. "publisherId" \in r.dst.on <=> "publisherId" \in m.on
  BY FlagsKnown
<1>2. m.pubType \in 0..4 /\ r.dst.pubType = m.pubType
  BY MessageHas DEF Ctx
<1>3. CASE "publisherId" \notin m.on
  <2>1. x = r /\ PublisherBytes(m) = <<>>
    BY <1>1, <1>3 DEF DecodePublisherId, When, PublisherBytes
  <2> QED
    BY <1>3, <2>1, ReachedNone DEF HasPublisher, Over, Kept
<1>4. CASE "publisherId" \in m.on /\ m.pubType = StringId
  <2> DEFINE f == "pubString"
             s == m.pubString
  <2>1. x = ReadString(src, r, f) /\ PublisherBytes(m) = EncodeArray(s, 1)
    BY <1>1, <1>2, <1>4 DEF DecodePublisherId, When, PublisherBytes, StringId
  <2>2. s \in Seq(Octet) /\ Len(s) \in Unsigned(4) /\ f \in Strings
    BY MessageHas DEF Strings
  <2> HIDE DEF f, s
  <2>3. HasRead(src, r, x, EncodeArray(s, 1), f, s)
    BY <2>1, <2>2, StringReads
  <2>4. x.rv = "Good" => HasPublisher(r.dst, x.dst, m)
    BY <1>4, <2>3 DEF HasRead, HasPublisher, Over, Kept, Members, f, s
  <2> QED
    BY <2>1, <2>3, <2>4 DEF HasRead
<1>5. CASE "publisherId" \in m.on /\ m.pubType # StringId
  <2> DEFINE f == "publisherId"
             w == PublisherIdWidth(m.pubType)
  <2>1. x = ReadNumber(src, r, f, w) /\ PublisherBytes(m) = LE(m.val[f], w)
    BY <1>1, <1>2, <1>5 DEF DecodePublisherId, When, PublisherBytes, StringId
  <2>2. w \in Widths /\ m.val[f] \in Unsigned(w) /\ f \in NMFields
    BY <1>5, MessageHas DEF NMFields
  <2> HIDE DEF f, w
  <2>3. /\ Reached(src, r.pos, LE(m.val[f], w), x)
        /\ x.rv = "Good" => Kept(r.dst, x.dst, {"val"}) /\ Over(r.dst.val, x.dst.val, {f}, m)
    BY <2>1, <2>2, OneNumberReads
  <2>4. x.rv = "Good" => HasPublisher(r.dst, x.dst, m)
    BY <1>5, <2>3 DEF HasPublisher, Kept, Members, f
  <2> QED
    BY <2>1, <2>3, <2>4
<1> QED
  BY <1>3, <1>4, <1>5

---------------------------------------------------------------------------
(* The class id, the time stamp and the picoseconds: optional fields.      *)

\* The fields of the three layouts.
LEMMA LayoutFields ==
    ASSUME NEW on
    PROVE  /\ FieldsIn(on, ClassLayout) = on \cap {"classId"}
           /\ FieldsIn(on, GroupLayout) = on \cap DOMAIN GroupFlags
           /\ FieldsIn(on, StampLayout) = on \cap {"timestamp", "picoseconds"}
<1>1. /\ Len(ClassLayout) = 1 /\ ClassLayout[1][1] = "classId"
      /\ Len(StampLayout) = 2 /\ StampLayout[1][1] = "timestamp" /\ StampLayout[2][1] = "picoseconds"
      /\ Len(GroupLayout) = 4
  BY LayoutsAre
<1>2. /\ GroupLayout[1][1] = "writerGroupId" /\ GroupLayout[2][1] = "groupVersion"
      /\ GroupLayout[3][1] = "nmNumber" /\ GroupLayout[4][1] = "sequenceNumber"
  BY LayoutsAre
<1>3. FieldsIn(on, ClassLayout) = on \cap {"classId"}
  BY <1>1 DEF FieldsIn
<1>4. FieldsIn(on, StampLayout) = on \cap {"timestamp", "picoseconds"}
  BY <1>1 DEF FieldsIn
<1>5. FieldsIn(on, GroupLayout) = on \cap DOMAIN GroupFlags
  <2>1. DOMAIN GroupFlags = {"writerGroupId", "groupVersion", "nmNumber", "sequenceNumber"}
    BY Features
  <2>2. \A f : f \in DOMAIN GroupFlags <=> \E i \in 1..4 : GroupLayout[i][1] = f
    BY <1>2, <2>1
  <2> QED
    BY <1>1, <2>2 DEF FieldsIn
<1> QED
  BY <1>3, <1>4, <1>5

\* A section of optional fields, its presence known.
LEMMA OptionalsRead ==
    ASSUME NEW src \in Seq(Octet), NEW r \in States(src), r.rv = "Good",
           NEW layout \in Seq(NMFields \X Widths), NEW m, FieldsFit(m.val, layout), SameOn(r.dst, m, layout),
           NEW b, b = Fielded(<<>>, m.on, m.val, layout)[Len(layout)],
           Follows(src, r.pos, b), NEW x, x = ReadSection(src, r, layout)
    PROVE  /\ Reached(src, r.pos, b, x)
           /\ x.rv = "Good" => HasSection(r.dst, x.dst, m, layout)
<1> DEFINE e == <<>>
           g == Fielded(e, m.on, m.val, layout)
           on == m.on
           v == m.val
           p == r.pos
<1>1. e \in Seq(Octet) /\ b = g[Len(layout)] /\ p \in Nat
  BY DEF States
<1>2. Reached(src, p, e, r)
  BY ReachedNone
<1>3. FieldsFit(v, layout) /\ Follows(src, p, b) /\ g = Fielded(e, on, v, layout)
  OBVIOUS
<1> HIDE DEF e, on, v, p
<1>4. g[0] = e /\ Grows(g, on, v, layout)
  BY <1>1, <1>3, FieldedMore
<1> HIDE DEF g
<1>5. Reached(src, p, g[0], r) /\ Follows(src, p, g[Len(layout)]) /\ Grows(g, m.on, m.val, layout)
  BY <1>1, <1>2, <1>3, <1>4 DEF on, v
<1>6. /\ Reached(src, p, g[Len(layout)], x)
      /\ x.rv = "Good" => r.rv = "Good" /\ HasSection(r.dst, x.dst, m, layout)
  BY <1>1, <1>5, SectionReads
<1> QED
  BY <1>1, <1>6 DEF p

\* The class id.
LEMMA ClassReads ==
    ASSUME NEW src \in Seq(Octet), NEW r \in States(src), r.rv = "Good", NEW m \in NetworkMessages,
           Ctx(r.dst, m), Follows(src, r.pos, ClassBytes(m)), NEW x, x = ReadSection(src, r, ClassLayout)
    PROVE  /\ Reached(src, r.pos, ClassBytes(m), x)
           /\ x.rv = "Good" => HasSection(r.dst, x.dst, m, ClassLayout)
<1> DEFINE l == ClassLayout
           b == ClassBytes(m)
<1>1. l \in Seq(NMFields \X Widths) /\ FieldsFit(m.val, l) /\ Len(l) = 1 /\ l[1][1] = "classId"
  BY LayoutsAre, NumbersFit
<1>2. b = Fielded(<<>>, m.on, m.val, l)[Len(l)]
  BY <1>1 DEF ClassBytes, ClassTo
<1>3. SameOn(r.dst, m, l)
  BY <1>1, FlagsKnown DEF SameOn
<1>4. Follows(src, r.pos, b) /\ x = ReadSection(src, r, l)
  OBVIOUS
<1> HIDE DEF l, b
<1>5. Reached(src, r.pos, b, x) /\ (x.rv = "Good" => HasSection(r.dst, x.dst, m, l))
  BY <1>1, <1>2, <1>3, <1>4, OptionalsRead
<1> QED
  BY <1>5 DEF l, b

\* The time stamp and the picoseconds.
LEMMA StampReads ==
    ASSUME NEW src \in Seq(Octet), NEW r \in States(src), r.rv = "Good", NEW m \in NetworkMessages,
           Ctx(r.dst, m), Follows(src, r.pos, StampBytes(m)), NEW x, x = ReadSection(src, r, StampLayout)
    PROVE  /\ Reached(src, r.pos, StampBytes(m), x)
           /\ x.rv = "Good" => HasSection(r.dst, x.dst, m, StampLayout)
<1> DEFINE l == StampLayout
           b == StampBytes(m)
<1>1. l \in Seq(NMFields \X Widths) /\ FieldsFit(m.val, l) /\ Len(l) = 2 /\ l[1][1] = "timestamp"
      /\ l[2][1] = "picoseconds"
  BY LayoutsAre, NumbersFit
<1>2. b = Fielded(<<>>, m.on, m.val, l)[Len(l)]
  BY <1>1 DEF StampBytes, StampTo
<1>3. SameOn(r.dst, m, l)
  BY <1>1, FlagsKnown DEF SameOn
<1>4. Follows(src, r.pos, b) /\ x = ReadSection(src, r, l)
  OBVIOUS
<1> HIDE DEF l, b
<1>5. Reached(src, r.pos, b, x) /\ (x.rv = "Good" => HasSection(r.dst, x.dst, m, l))
  BY <1>1, <1>2, <1>3, <1>4, OptionalsRead
<1> QED
  BY <1>5 DEF l, b

---------------------------------------------------------------------------
(* The group header. *)

InGroup(m) == IF "groupHeader" \in m.on THEN m.on \cap DOMAIN GroupFlags ELSE {}

HasGroup(d, e, m) ==
    /\ Kept(d, e, {"on", "val"}) /\ e.on = d.on \cup InGroup(m)
    /\ Over(d.val, e.val, InGroup(m), m)

\* A byte of flags is read and its features are set.
LEMMA FlagsStored ==
    ASSUME NEW src \in Seq(Octet), NEW r \in States(src), r.rv = "Good", NEW v \in Octet,
           Follows(src, r.pos, <<v>>), NEW masks, DOMAIN masks \subseteq AllFeatures,
           NEW x, x = ReadFlags(src, r, masks)
    PROVE  /\ Reached(src, r.pos, <<v>>, x) /\ x \in States(src)
           /\ x.rv = "Good" => /\ Kept(r.dst, x.dst, {"on"})
                               /\ x.dst.on = r.dst.on \cup FlagsIn(v, masks)
<1> DEFINE a == Take(src, r, 1)
           e == WithOn(a.dst, a.dst.on \cup FlagsIn(a.last, masks))
<1>1. Reached(src, r.pos, <<v>>, x) /\ (x.rv = "Good" => x.last = v)
  BY FlagByteReads
<1>2. x \in States(src)
  BY ReadFlagsType
<1>3. a \in States(src) /\ a.dst = r.dst
  BY TakeType DEF Widths
<1>4. x = IF a.rv = "Good" THEN [a EXCEPT !.dst = e] ELSE a
  BY DEF ReadFlags, Then, WithOn
<1>5. e = WithOn(r.dst, r.dst.on \cup FlagsIn(a.last, masks))
  BY <1>3
<1> HIDE DEF a, e
<1>6. x.rv = "Good" => x.dst = e /\ x.last = a.last
  BY <1>3, <1>4 DEF States
<1>7. ASSUME x.rv = "Good"
      PROVE  Kept(r.dst, x.dst, {"on"}) /\ x.dst.on = r.dst.on \cup FlagsIn(v, masks)
  <2> DEFINE s == r.dst.on \cup FlagsIn(v, masks)
  <2>1. r.dst \in LooseMessages /\ x.dst = WithOn(r.dst, s)
    BY <1>1, <1>5, <1>6, <1>7 DEF States
  <2> HIDE DEF s
  <2>2. Kept(r.dst, x.dst, {"on"}) /\ x.dst.on = s
    BY <2>1, WithKept
  <2> QED
    BY <2>2 DEF s
<1> QED
  BY <1>1, <1>2, <1>7

\* The group header.
LEMMA GroupReads ==
    ASSUME NEW src \in Seq(Octet), NEW r \in States(src), r.rv = "Good", NEW m \in NetworkMessages,
           Ctx(r.dst, m), Follows(src, r.pos, GroupBytes(m)), NEW x, x = DecodeGroupHeader(src, r)
    PROVE  /\ Reached(src, r.pos, GroupBytes(m), x)
           /\ x.rv = "Good" => HasGroup(r.dst, x.dst, m)
<1> DEFINE a == ReadFlags(src, r, GroupFlags)
           v == GroupFlag(m)
           g == GroupTo(m)
           l == GroupLayout
           s == <<v>>
           p == r.pos
<1>1. "groupHeader" \in r.dst.on <=> "groupHeader" \in m.on
  BY FlagsKnown
<1>2. CASE "groupHeader" \notin m.on
  <2>1. x = r /\ GroupBytes(m) = <<>>
    BY <1>1, <1>2 DEF DecodeGroupHeader, When, GroupBytes
  <2>2. HasGroup(r.dst, r.dst, m)
    BY <1>2 DEF HasGroup, InGroup, Over, Kept
  <2> QED
    BY <2>1, <2>2, ReachedNone
<1>3. CASE "groupHeader" \in m.on
  <2>1. x = ReadSection(src, a, l) /\ GroupBytes(m) = g[4]
    BY <1>1, <1>3 DEF DecodeGroupHeader, When, GroupBytes
  <2>2. v \in Octet /\ FlagsIn(v, GroupFlags) = m.on \cap DOMAIN GroupFlags /\ p \in Nat
    <3>1. p \in Nat
      BY DEF States
    <3> DEFINE on == m.on
               k == FlagByte(on, GroupFlags)
    <3>2. k \in Octet /\ FlagsIn(k, GroupFlags) = on \cap DOMAIN GroupFlags
      BY GroupByte
    <3> QED
      BY <3>1, <3>2 DEF GroupFlag
  <2>3. s \in Seq(Octet) /\ g = Fielded(s, m.on, m.val, l)
    BY <2>2 DEF GroupTo
  <2>4. l \in Seq(NMFields \X Widths) /\ FieldsFit(m.val, l) /\ Len(l) = 4
    BY LayoutsAre, NumbersFit
  <2>5. \A i \in 1..4 : l[i][1] \in DOMAIN GroupFlags
    <3>1. /\ l[1][1] = "writerGroupId" /\ l[2][1] = "groupVersion"
          /\ l[3][1] = "nmNumber" /\ l[4][1] = "sequenceNumber"
      BY LayoutsAre
    <3> HIDE DEF l
    <3> QED
      BY <3>1, Features
  <2>6. Follows(src, p, g[4])
    BY <2>1
  <2> DEFINE on == m.on
             u == m.val
  <2>7. g = Fielded(s, on, u, l) /\ FieldsFit(u, l)
    BY <2>3, <2>4
  <2> HIDE DEF l, g, s, v, on, u
  <2>8. g[0] = s /\ Grows(g, on, u, l)
    BY ZenonT(60), <2>3, <2>4, <2>7, FieldedMore
  <2>9. Follows(src, p, g[0])
    BY <2>4, <2>6, <2>7, <2>8, GrowsFollow, <2>2
  <2>10. Follows(src, r.pos, <<v>>)
    BY <2>8, <2>9 DEF s
  <2>11. /\ Reached(src, r.pos, <<v>>, a) /\ a \in States(src)
         /\ a.rv = "Good" => /\ Kept(r.dst, a.dst, {"on"})
                             /\ a.dst.on = r.dst.on \cup FlagsIn(v, GroupFlags)
    BY <2>2, <2>10, FlagsStored, FlagsAreFeatures
  <2> HIDE DEF a
  <2>12. CASE a.rv # "Good"
    <3>1. x = a
      BY <2>1, <2>4, <2>11, <2>12, ReadSectionType
    <3>2. Len(g[0]) <= Len(g[4]) /\ g[0] \in Seq(Octet) /\ g[4] \in Seq(Octet)
      <4>1. \A i \in 0..Len(l) : g[i] \in Seq(Octet) /\ Len(g[0]) <= Len(g[i])
        BY <2>4, <2>7, <2>8, GrowsFollow
      <4>2. 0 \in 0..Len(l) /\ 4 \in 0..Len(l)
        BY <2>4
      <4> QED
        BY <4>1, <4>2
    <3>3. ~ (p + Len(g[0]) <= Len(src))
      BY <2>8, <2>11, <2>12 DEF Reached, s
    <3>4. ~ (p + Len(g[4]) <= Len(src))
      <4> DEFINE i == Len(g[0])
                 j == Len(g[4])
                 k == Len(src)
      <4>1. i \in Nat /\ j \in Nat /\ k \in Nat /\ i <= j /\ ~ (p + i <= k)
        BY <3>2, <3>3
      <4> HIDE DEF i, j, k, p
      <4>2. ~ (p + j <= k)
        BY <2>2, <4>1
      <4> QED
        BY <4>2 DEF j, k
    <3> QED
      BY <2>1, <2>12, <3>1, <3>4 DEF Reached
  <2>13. CASE a.rv = "Good"
    <3>1. Kept(r.dst, a.dst, {"on"}) /\ a.dst.on = r.dst.on \cup (m.on \cap DOMAIN GroupFlags)
      BY <2>2, <2>11, <2>13
    <3>2. SameOn(a.dst, m, l)
      BY <2>4, <2>5, <3>1 DEF SameOn, Ctx
    <3>3. Reached(src, p, g[0], a) /\ Grows(g, m.on, m.val, l) /\ FieldsFit(m.val, l)
          /\ Follows(src, p, g[Len(l)])
      BY <2>4, <2>6, <2>8, <2>7, <2>11 DEF s, on, u
    <3> HIDE DEF p
    <3>4. /\ Reached(src, p, g[Len(l)], x)
          /\ x.rv = "Good" => a.rv = "Good" /\ HasSection(a.dst, x.dst, m, l)
      BY <2>1, <2>2, <2>4, <2>11, <3>2, <3>3, SectionReads
    <3>5. FieldsIn(m.on, l) = InGroup(m) /\ InGroup(m) = m.on \cap DOMAIN GroupFlags
      BY <1>3, LayoutFields DEF InGroup, l
    <3>6. x.rv = "Good" => HasGroup(r.dst, x.dst, m)
      <4> SUFFICES ASSUME x.rv = "Good" PROVE HasGroup(r.dst, x.dst, m)
        OBVIOUS
      <4>1. Kept(a.dst, x.dst, {"val"}) /\ Over(a.dst.val, x.dst.val, InGroup(m), m)
        BY <3>4, <3>5 DEF HasSection
      <4>2. Kept(r.dst, x.dst, {"on", "val"}) /\ a.dst.val = r.dst.val /\ x.dst.on = a.dst.on
        BY <3>1, <4>1 DEF Kept, Members
      <4> QED
        BY <3>1, <3>5, <4>1, <4>2 DEF HasGroup
    <3> QED
      BY <2>1, <2>4, <3>4, <3>6 DEF p
  <2> QED
    BY <2>12, <2>13
<1> QED
  BY <1>2, <1>3

---------------------------------------------------------------------------
(* The payload header. *)

HasIds(d, e, m) ==
    /\ Kept(d, e, {"count", "ids"})
    /\ e.count = IF "payloadHeader" \in m.on THEN Len(m.ids) ELSE d.count
    /\ e.ids = IF "payloadHeader" \in m.on THEN m.ids ELSE d.ids

HasCount(r, x, n) ==
    x.rv = r.rv /\ x.pos = r.pos /\ Kept(r.dst, x.dst, {"count"}) /\ x.dst.count = n

\* The count of the payload header is stored.
LEMMA CountKept ==
    ASSUME NEW src, NEW r \in States(src), NEW n \in Nat, NEW x, x = CountSet(r, n)
    PROVE  x \in States(src) /\ HasCount(r, x, n)
BY DEF States, LooseMessages, CountSet, HasCount, Kept, Members

\* The numbers of one byte are the octets.
LEMMA OneByteNumbers == Unsigned(1) = Octet
BY DEF Unsigned, Limit, Octet

\* All of a sequence.
LEMMA CopiedAll ==
    ASSUME NEW U, NEW s \in Seq(U)
    PROVE  Copied(s, Len(s)) = s /\ Len(s) \in Nat /\ \A i \in 1..Len(s) : s[i] \in U
BY DEF Copied

\* A string of octets is its own array of numbers of one byte.
LEMMA OctetNumbers ==
    ASSUME NEW s \in Seq(Octet)
    PROVE  NumbersBytes(s, Len(s), 1) = s /\ \A i \in 1..Len(s) : s[i] \in Unsigned(1)
<1> DEFINE n == Len(s)
           w == 1
           b == NumbersBytes(s, n, w)
           p == 0
<1>1. n \in Nat /\ \A i \in 1..n : s[i] \in Octet
  OBVIOUS
<1>2. \A i \in 1..n : s[i] \in Unsigned(w)
  BY <1>1, OneByte
<1>3. b \in Seq(Octet)
  <2> DEFINE z == <<>>
  <2>1. z \in Seq(Octet) /\ Follows(z, p, b)
    BY DEF Follows
  <2>2. w \in {1, 2} /\ p \in Nat
    OBVIOUS
  <2> HIDE DEF z, p, n, w
  <2>3. NumbersAt(z, p, s, n, w)
    BY <1>1, <1>2, <2>1, <2>2, NumbersReads DEF b
  <2> QED
    BY <2>3 DEF NumbersAt
<1>4. Follows(b, p, b)
  BY DEF Follows
<1>5. NumbersAt(b, p, s, n, w)
  <2>1. w \in {1, 2} /\ p \in Nat /\ Follows(b, p, NumbersBytes(s, n, w))
    BY <1>4
  <2> HIDE DEF b, p, n, w
  <2> QED
    BY <1>1, <1>2, <1>3, <2>1, NumbersReads
<1>6. Len(b) = n /\ \A i \in 1..n : b[i] = s[i]
  <2>1. Len(b) = w * n /\ \A i \in 1..n : (p + w * (i - 1)) + w <= Len(b) => Num(b, p + w * (i - 1), w) = s[i]
    BY <1>5 DEF NumbersAt
  <2> HIDE DEF b, n
  <2>2. Len(b) = n /\ \A i \in 1..n : Num(b, i - 1, 1) = s[i]
    BY <1>1, <2>1
  <2>3. \A i \in 1..n : Num(b, i - 1, 1) = b[i]
    BY <1>1 DEF Num
  <2> QED
    BY <2>2, <2>3
<1> HIDE DEF b
<1>7. b = s
  BY <1>3, <1>6
<1> QED
  BY <1>2, <1>7 DEF b

\* The table of writer ids.
LEMMA IdsReads ==
    ASSUME NEW src \in Seq(Octet), NEW r \in States(src), r.rv = "Good", NEW m \in NetworkMessages,
           m.nmType = 0, Ctx(r.dst, m), Follows(src, r.pos, WriterBytes(m)),
           NEW x, x = DecodePayloadHeader(src, r)
    PROVE  /\ Reached(src, r.pos, WriterBytes(m), x)
           /\ x.rv = "Good" => HasIds(r.dst, x.dst, m)
<1>1. "payloadHeader" \in r.dst.on <=> "payloadHeader" \in m.on
  BY FlagsKnown
<1>2. r.dst.nmType = 0
  BY DEF Ctx
<1>3. CASE "payloadHeader" \notin m.on
  <2>1. x = r /\ WriterBytes(m) = <<>>
    BY <1>1, <1>3 DEF DecodePayloadHeader, When, WriterBytes
  <2> QED
    BY <1>3, <2>1, ReachedNone DEF HasIds, Kept
<1>4. CASE "payloadHeader" \in m.on
  <2> DEFINE a == Take(src, r, 1)
             s == m.ids
             n == Len(s)
             b == NumbersBytes(s, n, 2)
             c == CountSet(a, a.last)
             f == "ids"
             p == r.pos
             t == <<n>>
  <2>1. x = IF a.rv = "Good" THEN ReadNumbers(src, c, a.last, 2, f) ELSE a
    BY <1>1, <1>2, <1>4 DEF DecodePayloadHeader, When, Then, CountSet
  <2>2. WriterBytes(m) = t \o b
    BY <1>4 DEF WriterBytes
  <2>3. n \in Unsigned(1) /\ s \in Seq(Unsigned(2)) /\ n \in Nat
    <3>1. n \in Unsigned(1) /\ s \in Seq(Unsigned(2))
      BY MessageHas
    <3> HIDE DEF n, s
    <3>2. n \in Nat
      BY <3>1 DEF Unsigned
    <3> QED
      BY <3>1, <3>2
  <2>4. n \in Octet /\ t \in Seq(Octet) /\ LE(n, 1) = t
    <3>1. n \in Octet
      BY <2>3, OneByteNumbers
    <3> HIDE DEF n
    <3> QED
      BY <3>1, OneByte
  <2>5. f \in Strings /\ p \in Nat
    BY DEF Strings, States
  <2>6. Follows(src, p, t \o b)
    BY <2>2
  <2> DEFINE u == Unsigned(2)
  <2>7. Copied(s, n) = s /\ \A i \in 1..n : s[i] \in u
    <3>1. s \in Seq(u)
      BY <2>3
    <3> HIDE DEF u, s
    <3> QED
      BY <3>1, CopiedAll
  <2>8. b \in Seq(Octet)
    <3> DEFINE z == <<>>
               q == 0
               w == 2
    <3>1. z \in Seq(Octet) /\ Follows(z, q, b) /\ w \in {1, 2} /\ q \in Nat
      BY DEF Follows
    <3>2. \A i \in 1..n : s[i] \in Unsigned(w)
      BY <2>7
    <3> HIDE DEF z, q, n, w, s
    <3>3. NumbersAt(z, q, s, n, w)
      BY <2>3, <3>1, <3>2, NumbersReads DEF w
    <3> QED
      BY <3>3 DEF NumbersAt, w
  <2> HIDE DEF b, t
  <2>9. Follows(src, p, t) /\ Follows(src, p + Len(t), b) /\ t \o b \in Seq(Octet)
    BY <2>4, <2>5, <2>6, <2>8, FollowsFirst
  <2>10. Reached(src, p, t, a) /\ (a.rv = "Good" => a.last = n) /\ a \in States(src) /\ a.dst = r.dst
    <3>1. Follows(src, r.pos, LE(n, 1)) /\ 1 \in Widths
      BY <2>4, <2>9 DEF Widths
    <3> HIDE DEF n
    <3>2. Reached(src, r.pos, LE(n, 1), a) /\ (a.rv = "Good" => a.last = n)
      BY <2>3, <3>1, TakeReads
    <3>3. a \in States(src) /\ a.dst = r.dst
      BY <3>1, TakeType
    <3> QED
      BY <2>4, <3>2, <3>3
  <2> HIDE DEF a, p, f
  <2>11. CASE a.rv # "Good"
    <3>1. x.rv # "Good"
      BY <2>1, <2>11
    <3>2. Reached(src, p, t \o b, x)
      BY <2>4, <2>5, <2>6, <2>8, <2>10, <2>11, <3>1, Chain
    <3> QED
      BY <2>2, <3>1, <3>2 DEF p
  <2>12. CASE a.rv = "Good"
    <3>1. c = CountSet(a, n) /\ x = ReadNumbers(src, c, n, 2, f)
      BY <2>1, <2>10, <2>12
    <3>2. c \in States(src) /\ HasCount(a, c, n)
      <4> HIDE DEF c, n
      <4> QED
        BY <2>3, <2>10, <3>1, CountKept
    <3> HIDE DEF c
    <3>3. c.rv = a.rv /\ c.pos = a.pos /\ Kept(a.dst, c.dst, {"count"}) /\ c.dst.count = n
      BY <3>2 DEF HasCount
    <3>4. Follows(src, c.pos, b)
      BY <2>9, <2>10, <2>12, <3>3 DEF Reached
    <3>5. HasRead(src, c, x, b, f, s)
      <4> DEFINE w == 2
      <4>1. w \in {1, 2} /\ b = NumbersBytes(s, n, w) /\ x = ReadNumbers(src, c, n, w, f)
            /\ \A i \in 1..n : s[i] \in Unsigned(w)
        BY <2>7, <3>1 DEF b
      <4> HIDE DEF w, n, s, u
      <4>2. HasRead(src, c, x, NumbersBytes(s, n, w), f, Copied(s, n))
        BY <2>3, <2>5, <3>2, <3>4, <4>1, ReadNumbersReads
      <4> QED
        BY <2>7, <4>1, <4>2
    <3>6. Reached(src, p, t, c)
      BY <2>10, <3>3 DEF Reached
    <3>7. Reached(src, c.pos, b, x)
      BY <3>5 DEF HasRead
    <3>8. Reached(src, p, t \o b, x)
      BY <2>4, <2>5, <2>6, <2>8, <2>12, <3>3, <3>6, <3>7, Chain
    <3>9. x.rv = "Good" => HasIds(r.dst, x.dst, m)
      <4> SUFFICES ASSUME x.rv = "Good" PROVE HasIds(r.dst, x.dst, m)
        OBVIOUS
      <4>1. Kept(c.dst, x.dst, {f}) /\ x.dst[f] = s
        BY <3>5 DEF HasRead
      <4> HIDE DEF n, s
      <4>2. Kept(r.dst, x.dst, {"count", "ids"}) /\ x.dst.count = n /\ x.dst.ids = s
        BY <2>10, <3>3, <4>1 DEF Kept, Members, f
      <4> QED
        BY <1>4, <4>2 DEF HasIds, n, s
    <3> QED
      BY <2>2, <3>8, <3>9 DEF p
  <2> QED
    BY <2>11, <2>12
<1> QED
  BY <1>3, <1>4

---------------------------------------------------------------------------
(* The security header. *)

\* One byte is taken.
LEMMA TakeByteReads ==
    ASSUME NEW src \in Seq(Octet), NEW r \in States(src), r.rv = "Good", NEW v \in Octet,
           Follows(src, r.pos, <<v>>), NEW x, x = Take(src, r, 1)
    PROVE  /\ Reached(src, r.pos, <<v>>, x) /\ x \in States(src) /\ x.dst = r.dst
           /\ x.rv = "Good" => x.last = v
<1>1. v \in Unsigned(1) /\ LE(v, 1) = <<v>> /\ 1 \in Widths
  BY OneByte DEF Widths
<1>2. Follows(src, r.pos, LE(v, 1))
  BY <1>1
<1>3. Reached(src, r.pos, LE(v, 1), x) /\ (x.rv = "Good" => x.last = v)
  BY <1>1, <1>2, TakeReads
<1>4. x \in States(src) /\ x.dst = r.dst
  BY <1>1, TakeType
<1> QED
  BY <1>1, <1>3, <1>4

InSecurity(m) == IF "security" \in m.on THEN m.on \cap DOMAIN SecurityFlags ELSE {}

HasToken(d, e, m) ==
    /\ Kept(d, e, {"on", "val"}) /\ e.on = d.on \cup (m.on \cap DOMAIN SecurityFlags)
    /\ Over(d.val, e.val, {"tokenId"}, m)

TokenBytes(m) == <<SecurityFlag(m)>> \o LE(m.val["tokenId"], 4) \o <<Len(m.nonce)>>

TokenRead(src, r, b, x, m) ==
    /\ Reached(src, r.pos, b, x) /\ b \in Seq(Octet) /\ x \in States(src)
    /\ x.rv = "Good" => x.last = Len(m.nonce) /\ HasToken(r.dst, x.dst, m)

\* The flags, the token and the length of the nonce.
LEMMA TokenReads ==
    ASSUME NEW src \in Seq(Octet), NEW r \in States(src), r.rv = "Good", NEW m \in NetworkMessages,
           NEW b, b = TokenBytes(m),
           Follows(src, r.pos, b),
           NEW a, a = ReadFlags(src, r, SecurityFlags), NEW t, t = ReadNumber(src, a, "tokenId", 4),
           NEW x, x = Take(src, t, 1)
    PROVE  TokenRead(src, r, b, x, m)
<1> DEFINE v == SecurityFlag(m)
           n == Len(m.nonce)
           f == "tokenId"
           w == 4
           b1 == <<v>>
           b2 == LE(m.val[f], w)
           b3 == <<n>>
           p == r.pos
<1>1. /\ v \in Octet /\ FlagsIn(v, SecurityFlags) = m.on \cap DOMAIN SecurityFlags /\ n \in Octet
      /\ m.val[f] \in Unsigned(w) /\ f \in NMFields /\ w \in Widths /\ p \in Nat
  <2>1. v \in Octet /\ FlagsIn(v, SecurityFlags) = m.on \cap DOMAIN SecurityFlags /\ n \in Octet
    BY SecurityPiece
  <2>2. m.val[f] \in Unsigned(w) /\ f \in NMFields /\ w \in Widths
    BY MessageHas DEF NMFields, Widths
  <2> QED
    BY <2>1, <2>2 DEF States
<1>2. b = (b1 \o b2) \o b3
  BY DEF TokenBytes
<1> HIDE DEF v, n, f, w
<1>3. b1 \in Seq(Octet) /\ b2 \in Seq(Octet) /\ b3 \in Seq(Octet)
  <2>1. m.val[f] \in Nat /\ w \in Nat
    BY <1>1 DEF Unsigned, Widths
  <2> QED
    BY <1>1, <2>1, OneByte, LEType
<1>4. b1 \in Seq(Octet) /\ b1 \o b2 \in Seq(Octet)
  BY <1>3
<1> HIDE DEF b2, b3, p
<1>5. Follows(src, p, (b1 \o b2) \o b3)
  BY <1>2 DEF p
<1>6. Follows(src, p, b1 \o b2) /\ b \in Seq(Octet)
  <2> DEFINE c == b1 \o b2
  <2>1. c \in Seq(Octet) /\ Follows(src, p, c \o b3)
    BY <1>4, <1>5
  <2> HIDE DEF c
  <2>2. Follows(src, p, c) /\ c \o b3 \in Seq(Octet)
    BY <1>1, <1>3, <2>1, FollowsFirst
  <2> QED
    BY <1>2, <2>2 DEF c
<1>7. Follows(src, p, b1)
  BY <1>1, <1>3, <1>6, FollowsFirst
<1>8. /\ Reached(src, p, b1, a) /\ a \in States(src)
      /\ a.rv = "Good" => /\ Kept(r.dst, a.dst, {"on"})
                          /\ a.dst.on = r.dst.on \cup FlagsIn(v, SecurityFlags)
  <2>1. Follows(src, r.pos, <<v>>) /\ DOMAIN SecurityFlags \subseteq AllFeatures
    BY <1>7, FlagsAreFeatures DEF p
  <2>2. /\ Reached(src, r.pos, <<v>>, a) /\ a \in States(src)
        /\ a.rv = "Good" => /\ Kept(r.dst, a.dst, {"on"})
                            /\ a.dst.on = r.dst.on \cup FlagsIn(v, SecurityFlags)
    BY <1>1, <2>1, FlagsStored
  <2> QED
    BY <2>2 DEF p
<1> HIDE DEF b1
<1>9. t = ReadNumber(src, a, f, w)
  BY DEF f, w
<1>10. t \in States(src) /\ (a.rv # "Good" => t = a)
  BY <1>1, <1>8, <1>9, ReadNumberType
<1>11. ASSUME a.rv = "Good", Follows(src, a.pos, b2)
       PROVE  /\ Reached(src, a.pos, b2, t)
              /\ t.rv = "Good" => Kept(a.dst, t.dst, {"val"}) /\ Over(a.dst.val, t.dst.val, {f}, m)
  <2>1. Follows(src, a.pos, LE(m.val[f], w))
    BY <1>11 DEF b2
  <2>2. /\ Reached(src, a.pos, LE(m.val[f], w), t)
        /\ t.rv = "Good" => Kept(a.dst, t.dst, {"val"}) /\ Over(a.dst.val, t.dst.val, {f}, m)
    BY <1>1, <1>8, <1>9, <1>11, <2>1, OneNumberReads
  <2> QED
    BY <2>2 DEF b2
<1>12. Reached(src, p, b1 \o b2, t) /\ (t.rv = "Good" => a.rv = "Good")
  BY <1>1, <1>3, <1>6, <1>8, <1>10, <1>11, Chain
<1>13. x \in States(src) /\ x.dst = t.dst /\ (t.rv # "Good" => x = t)
  BY <1>10, TakeType DEF Widths
<1>14. ASSUME t.rv = "Good", Follows(src, t.pos, b3)
       PROVE  Reached(src, t.pos, b3, x) /\ (x.rv = "Good" => x.last = n)
  BY <1>1, <1>10, <1>14, TakeByteReads DEF b3
<1>15. Reached(src, p, (b1 \o b2) \o b3, x) /\ (x.rv = "Good" => t.rv = "Good")
  BY <1>1, <1>3, <1>4, <1>5, <1>12, <1>13, <1>14, Chain
<1>16. ASSUME x.rv = "Good" PROVE x.last = n /\ HasToken(r.dst, x.dst, m)
  <2>1. t.rv = "Good" /\ a.rv = "Good"
    BY <1>12, <1>15, <1>16
  <2>2. Follows(src, a.pos, b2) /\ Follows(src, t.pos, b3)
    <3>1. a.pos = p + Len(b1) /\ t.pos = p + Len(b1 \o b2)
      BY <1>8, <1>12, <2>1 DEF Reached
    <3>2. Follows(src, p + Len(b1), b2)
      BY <1>1, <1>3, <1>6, FollowsFirst
    <3>3. Follows(src, p + Len(b1 \o b2), b3)
      BY <1>1, <1>3, <1>4, <1>5, FollowsFirst
    <3> QED
      BY <3>1, <3>2, <3>3
  <2>3. x.last = n
    BY <1>14, <1>16, <2>1, <2>2
  <2>4. Kept(a.dst, t.dst, {"val"}) /\ Over(a.dst.val, t.dst.val, {f}, m)
    BY <1>11, <2>1, <2>2
  <2>5. Kept(r.dst, a.dst, {"on"}) /\ a.dst.on = r.dst.on \cup (m.on \cap DOMAIN SecurityFlags)
    BY <1>1, <1>8, <2>1
  <2>6. Kept(r.dst, t.dst, {"on", "val"}) /\ t.dst.on = a.dst.on /\ a.dst.val = r.dst.val
    BY <2>4, <2>5 DEF Kept, Members
  <2> QED
    BY <1>13, <2>3, <2>4, <2>5, <2>6 DEF HasToken, f
<1> QED
  BY <1>2, <1>6, <1>13, <1>15, <1>16 DEF p, n, TokenRead

\* An array of octets whose length is known.
LEMMA OctetsType ==
    ASSUME NEW src \in Seq(Octet), NEW r \in States(src), NEW s \in Seq(Octet),
           NEW member \in Strings, NEW x, x = ReadNumbers(src, r, Len(s), 1, member)
    PROVE  x \in States(src) /\ Holds(r.dst, x.dst, member)
<1> DEFINE n == Len(s)
           w == 1
<1>1. n \in Nat /\ w \in {1, 2} /\ x = ReadNumbers(src, r, n, w, member)
  OBVIOUS
<1> HIDE DEF n, w
<1>2. x \in States(src) /\ Holds(r.dst, x.dst, member) /\ (n = 0 => x.dst.heap = r.dst.heap)
  BY SMTT(60), <1>1, ReadNumbersType
<1> QED
  BY <1>2

\* Its octets are those that follow.
LEMMA OctetsRead ==
    ASSUME NEW src \in Seq(Octet), NEW r \in States(src), NEW s \in Seq(Octet),
           Follows(src, r.pos, s), NEW member \in Strings, NEW x, x = ReadNumbers(src, r, Len(s), 1, member)
    PROVE  HasRead(src, r, x, s, member, s) /\ x \in States(src) /\ x.dst.on = r.dst.on
<1> DEFINE n == Len(s)
           w == 1
           b == NumbersBytes(s, n, w)
<1>1. b = s /\ n \in Nat /\ Copied(s, n) = s /\ w \in {1, 2} /\ \A i \in 1..n : s[i] \in Unsigned(w)
  BY OctetNumbers, CopiedAll
<1>2. x = ReadNumbers(src, r, n, w, member) /\ Follows(src, r.pos, b)
  BY <1>1
<1>3. b = NumbersBytes(s, n, w)
  OBVIOUS
<1> HIDE DEF n, w, b
<1>4. HasRead(src, r, x, NumbersBytes(s, n, w), member, Copied(s, n))
  BY <1>1, <1>2, <1>3, ReadNumbersReads
<1>5. x \in States(src) /\ Holds(r.dst, x.dst, member)
  BY OctetsType
<1> QED
  BY <1>1, <1>3, <1>4, <1>5 DEF Holds

SecurityNumbers(m) == IF "security" \notin m.on THEN {}
                      ELSE IF "footer" \in m.on THEN {"tokenId", "footerSize"} ELSE {"tokenId"}

HasSecurity(d, e, m) ==
    /\ Kept(d, e, {"on", "val", "nonce"}) /\ e.on = d.on \cup InSecurity(m)
    /\ Over(d.val, e.val, SecurityNumbers(m), m)
    /\ e.nonce = IF "security" \in m.on THEN m.nonce ELSE d.nonce

HasNonce(d, e, m) ==
    /\ Kept(d, e, {"on", "val", "nonce"}) /\ e.on = d.on \cup (m.on \cap DOMAIN SecurityFlags)
    /\ Over(d.val, e.val, {"tokenId"}, m) /\ e.nonce = m.nonce

NonceBytes(m) == <<SecurityFlag(m)>> \o LE(m.val["tokenId"], 4) \o <<Len(m.nonce)>> \o m.nonce

\* The security header up to the nonce.
LEMMA NonceReads ==
    ASSUME NEW src \in Seq(Octet), NEW r \in States(src), r.rv = "Good", NEW m \in NetworkMessages,
           Follows(src, r.pos, NonceBytes(m)),
           NEW k, k = Take(src, ReadNumber(src, ReadFlags(src, r, SecurityFlags), "tokenId", 4), 1),
           NEW x, x = IF k.rv = "Good" THEN ReadNumbers(src, k, k.last, 1, "nonce") ELSE k
    PROVE  /\ Reached(src, r.pos, NonceBytes(m), x) /\ NonceBytes(m) \in Seq(Octet) /\ x \in States(src)
           /\ x.rv = "Good" => HasNonce(r.dst, x.dst, m)
<1> DEFINE b == TokenBytes(m)
           s == m.nonce
           a == ReadFlags(src, r, SecurityFlags)
           t == ReadNumber(src, a, "tokenId", 4)
           p == r.pos
           f == "nonce"
<1>1. /\ NonceBytes(m) = b \o s /\ k = Take(src, t, 1) /\ s \in Seq(Octet) /\ p \in Nat
      /\ f \in Strings
  <2>1. s \in Seq(Octet)
    BY MessageHas
  <2>2. NonceBytes(m) = b \o s
    BY DEF NonceBytes, TokenBytes
  <2> QED
    BY <2>1, <2>2 DEF States, Strings
<1>2. b \in Seq(Octet)
  <2> DEFINE b1 == <<SecurityFlag(m)>>
             b2 == LE(m.val["tokenId"], 4)
             b3 == <<Len(m.nonce)>>
  <2>1. b1 \in Seq(Octet) /\ b3 \in Seq(Octet)
    BY SecurityPiece
  <2>2. b2 \in Seq(Octet)
    <3>1. m.val["tokenId"] \in Nat
      BY MessageHas DEF Unsigned
    <3> QED
      BY <3>1, LEType
  <2>3. b = (b1 \o b2) \o b3
    BY DEF TokenBytes
  <2> HIDE DEF b, b1, b2, b3
  <2> QED
    BY <2>1, <2>2, <2>3
<1>3. a = ReadFlags(src, r, SecurityFlags) /\ t = ReadNumber(src, a, "tokenId", 4)
  OBVIOUS
<1> HIDE DEF a, t
<1>4. Follows(src, r.pos, b \o s) /\ k = Take(src, t, 1)
  BY <1>1
<1>5. b = TokenBytes(m)
  OBVIOUS
<1> HIDE DEF b
<1>6. Follows(src, r.pos, b) /\ Follows(src, p + Len(b), s) /\ b \o s \in Seq(Octet)
  <2> HIDE DEF s
  <2>1. Follows(src, p, b \o s)
    BY <1>4
  <2> HIDE DEF p
  <2>2. Follows(src, p, b) /\ Follows(src, p + Len(b), s) /\ b \o s \in Seq(Octet)
    BY <1>1, <1>2, <2>1, FollowsFirst
  <2> QED
    BY <2>2 DEF p
<1>7. /\ Reached(src, r.pos, b, k) /\ k \in States(src)
      /\ k.rv = "Good" => k.last = Len(m.nonce) /\ HasToken(r.dst, k.dst, m)
  <2>1. Follows(src, r.pos, b)
    BY <1>6
  <2> HIDE DEF s, p, f
  <2>2. TokenRead(src, r, b, k, m)
    BY <1>3, <1>4, <1>5, <2>1, TokenReads
  <2> QED
    BY <2>2 DEF TokenRead
<1> HIDE DEF s, p, f
<1>8. CASE k.rv # "Good"
  <2>1. x = k
    BY <1>8
  <2>2. Reached(src, p, b \o s, x)
    BY <1>1, <1>2, <1>4, <1>7, <1>8, <2>1, Chain DEF p
  <2> QED
    BY <1>1, <1>6, <1>7, <1>8, <2>1, <2>2 DEF p
<1>9. CASE k.rv = "Good"
  <2>1. x = ReadNumbers(src, k, Len(s), 1, f)
    BY <1>7, <1>9 DEF s, f
  <2>2. Follows(src, k.pos, s)
    BY <1>6, <1>7, <1>9 DEF Reached, p
  <2>3. HasRead(src, k, x, s, f, s) /\ x \in States(src)
    BY <1>1, <1>7, <2>1, <2>2, OctetsRead
  <2>4. Reached(src, k.pos, s, x)
    BY <2>3 DEF HasRead
  <2>5. Reached(src, p, b \o s, x)
    BY <1>1, <1>2, <1>4, <1>7, <1>9, <2>4, Chain DEF p
  <2>6. x.rv = "Good" => HasNonce(r.dst, x.dst, m)
    <3> SUFFICES ASSUME x.rv = "Good" PROVE HasNonce(r.dst, x.dst, m)
      OBVIOUS
    <3>1. Kept(k.dst, x.dst, {f}) /\ x.dst[f] = s
      BY <2>3 DEF HasRead
    <3>2. Kept(r.dst, k.dst, {"on", "val"}) /\ k.dst.on = r.dst.on \cup (m.on \cap DOMAIN SecurityFlags)
          /\ Over(r.dst.val, k.dst.val, {"tokenId"}, m)
      BY <1>7, <1>9 DEF HasToken
    <3>3. /\ Kept(r.dst, x.dst, {"on", "val", "nonce"}) /\ x.dst.on = k.dst.on
          /\ x.dst.val = k.dst.val /\ x.dst.nonce = m.nonce
      BY <3>1, <3>2 DEF Kept, Members, f, s
    <3> QED
      BY <3>2, <3>3 DEF HasNonce
  <2> QED
    BY <1>1, <1>6, <2>3, <2>5, <2>6 DEF p
<1> QED
  BY <1>8, <1>9

\* The security header.
LEMMA SecurityReads ==
    ASSUME NEW src \in Seq(Octet), NEW r \in States(src), r.rv = "Good", NEW m \in NetworkMessages,
           Ctx(r.dst, m), Follows(src, r.pos, SecurityBytes(m)), NEW x, x = DecodeSecurityHeader(src, r)
    PROVE  /\ Reached(src, r.pos, SecurityBytes(m), x)
           /\ x.rv = "Good" => HasSecurity(r.dst, x.dst, m)
<1>1. "security" \in r.dst.on <=> "security" \in m.on
  BY FlagsKnown
<1>2. CASE "security" \notin m.on
  <2>1. x = r /\ SecurityBytes(m) = <<>>
    BY <1>1, <1>2 DEF DecodeSecurityHeader, When, SecurityBytes
  <2>2. HasSecurity(r.dst, r.dst, m)
    BY <1>2 DEF HasSecurity, InSecurity, SecurityNumbers, Over, Kept
  <2> QED
    BY <2>1, <2>2, ReachedNone
<1>3. CASE "security" \in m.on
  <2> DEFINE k == Take(src, ReadNumber(src, ReadFlags(src, r, SecurityFlags), "tokenId", 4), 1)
             n == IF k.rv = "Good" THEN ReadNumbers(src, k, k.last, 1, "nonce") ELSE k
             b == NonceBytes(m)
             f == "footerSize"
             w == 2
             c == IF "footer" \in m.on THEN LE(m.val[f], w) ELSE <<>>
             p == r.pos
  <2>1. x = IF n.rv = "Good" /\ "footer" \in n.dst.on THEN ReadNumber(src, n, f, w) ELSE n
    BY <1>1, <1>3 DEF DecodeSecurityHeader, When, Then
  <2>2. SecurityBytes(m) = b \o c
    BY <1>3 DEF SecurityBytes, NonceBytes
  <2>3. m.val[f] \in Unsigned(w) /\ f \in NMFields /\ w \in Widths /\ p \in Nat
    <3>1. m.val[f] \in Unsigned(w)
      BY MessageHas
    <3> QED
      BY <3>1 DEF NMFields, Widths, States
  <2>4. c \in Seq(Octet)
    <3>1. LE(m.val[f], w) \in Seq(Octet)
      <4> HIDE DEF f, w
      <4>1. m.val[f] \in Nat /\ w \in Nat
        BY <2>3 DEF Unsigned, Widths
      <4> QED
        BY <4>1, LEType
    <3>2. <<>> \in Seq(Octet)
      OBVIOUS
    <3> QED
      BY <3>1, <3>2
  <2>5. b \in Seq(Octet)
    <3> DEFINE b1 == <<SecurityFlag(m)>>
               b2 == LE(m.val["tokenId"], 4)
               b3 == <<Len(m.nonce)>>
               b4 == m.nonce
    <3>2. b1 \in Seq(Octet) /\ b3 \in Seq(Octet) /\ b4 \in Seq(Octet)
      <4>1. b4 \in Seq(Octet)
        BY MessageHas
      <4>2. SecurityFlag(m) \in Octet /\ Len(m.nonce) \in Octet
        BY SecurityPiece
      <4> QED
        BY <4>1, <4>2
    <3>3. b2 \in Seq(Octet)
      <4>1. m.val["tokenId"] \in Nat
        BY MessageHas DEF Unsigned
      <4> QED
        BY <4>1, LEType
    <3>4. b = ((b1 \o b2) \o b3) \o b4
      BY DEF NonceBytes
    <3> HIDE DEF b, b1, b2, b3, b4
    <3> QED
      BY <3>2, <3>3, <3>4
  <2>6. Follows(src, p, b \o c)
    BY <2>2
  <2> HIDE DEF b, c
  <2>7. Follows(src, p, b) /\ Follows(src, p + Len(b), c)
    BY <2>3, <2>4, <2>5, <2>6, FollowsFirst
  <2>8. /\ Reached(src, p, b, n) /\ n \in States(src)
        /\ n.rv = "Good" => HasNonce(r.dst, n.dst, m)
    <3>1. Follows(src, r.pos, NonceBytes(m))
      BY <2>7 DEF b
    <3> HIDE DEF k
    <3>2. k = Take(src, ReadNumber(src, ReadFlags(src, r, SecurityFlags), "tokenId", 4), 1)
      BY DEF k
    <3> DEFINE y == n
    <3>3. y = IF k.rv = "Good" THEN ReadNumbers(src, k, k.last, 1, "nonce") ELSE k
      OBVIOUS
    <3> HIDE DEF y
    <3>4. /\ Reached(src, r.pos, NonceBytes(m), y) /\ y \in States(src)
          /\ y.rv = "Good" => HasNonce(r.dst, y.dst, m)
      BY <3>1, <3>2, <3>3, NonceReads
    <3> QED
      BY <3>4 DEF b, y
  <2> HIDE DEF n, f, w, p
  <2>9. n.rv = "Good" => ("footer" \in n.dst.on <=> "footer" \in m.on)
    <3>1. "footer" \in DOMAIN SecurityFlags
      BY Features
    <3> QED
      BY <2>8, <3>1 DEF HasNonce, Ctx
  <2>10. CASE n.rv # "Good"
    <3>1. x.rv # "Good"
      BY <2>1, <2>10
    <3>2. Reached(src, p, b \o c, x)
      BY <2>3, <2>4, <2>5, <2>6, <2>8, <2>10, <3>1, Chain
    <3> QED
      BY <2>2, <3>1, <3>2 DEF p
  <2>11. CASE n.rv = "Good" /\ "footer" \in m.on
    <3>1. x = ReadNumber(src, n, f, w) /\ c = LE(m.val[f], w)
      BY <2>1, <2>9, <2>11 DEF c
    <3>2. Follows(src, n.pos, LE(m.val[f], w))
      BY <2>7, <2>8, <2>11, <3>1 DEF Reached
    <3>3. /\ Reached(src, n.pos, LE(m.val[f], w), x)
          /\ x.rv = "Good" => Kept(n.dst, x.dst, {"val"}) /\ Over(n.dst.val, x.dst.val, {f}, m)
      BY <2>3, <2>8, <2>11, <3>1, <3>2, OneNumberReads
    <3>4. Reached(src, p, b \o c, x)
      BY <2>3, <2>4, <2>5, <2>6, <2>8, <2>11, <3>1, <3>3, Chain
    <3>5. x.rv = "Good" => HasSecurity(r.dst, x.dst, m)
      <4> SUFFICES ASSUME x.rv = "Good" PROVE HasSecurity(r.dst, x.dst, m)
        OBVIOUS
      <4>1. Kept(n.dst, x.dst, {"val"}) /\ Over(n.dst.val, x.dst.val, {f}, m)
        BY <3>3
      <4>2. HasNonce(r.dst, n.dst, m)
        BY <2>8, <2>11
      <4>3. Over(r.dst.val, x.dst.val, {"tokenId"} \cup {f}, m)
        BY <4>1, <4>2, OverMore DEF HasNonce
      <4>4. {"tokenId"} \cup {f} = SecurityNumbers(m) /\ InSecurity(m) = m.on \cap DOMAIN SecurityFlags
        BY <1>3, <2>11 DEF SecurityNumbers, InSecurity, f
      <4>5. Kept(r.dst, x.dst, {"on", "val", "nonce"}) /\ x.dst.on = n.dst.on /\ x.dst.nonce = n.dst.nonce
        BY <4>1, <4>2 DEF HasNonce, Kept, Members
      <4> QED
        BY <1>3, <4>2, <4>3, <4>4, <4>5 DEF HasNonce, HasSecurity
    <3> QED
      BY <2>2, <3>4, <3>5 DEF p
  <2>12. CASE n.rv = "Good" /\ "footer" \notin m.on
    <3>1. x = n /\ c = <<>>
      BY <2>1, <2>9, <2>12 DEF c
    <3>2. b \o c = b
      BY <2>5, <3>1
    <3>3. SecurityNumbers(m) = {"tokenId"} /\ InSecurity(m) = m.on \cap DOMAIN SecurityFlags
      BY <1>3, <2>12 DEF SecurityNumbers, InSecurity
    <3>4. HasSecurity(r.dst, x.dst, m)
      BY <1>3, <2>8, <2>12, <3>1, <3>3 DEF HasSecurity, HasNonce
    <3> QED
      BY <2>2, <2>8, <3>1, <3>2, <3>4 DEF p
  <2> QED
    BY <2>10, <2>11, <2>12
<1> QED
  BY <1>2, <1>3

---------------------------------------------------------------------------
(* The security footer and the signature. *)

HasFooter(m)    == {"security", "footer"} \subseteq m.on
HasSignature(m) == {"security", "signed"} \subseteq m.on

\* What the security header has left for the trailer.
Secured(d, m) ==
    /\ "security" \in d.on <=> "security" \in m.on
    /\ "footer" \in d.on <=> HasFooter(m)
    /\ "signed" \in d.on <=> HasSignature(m)
    /\ "footer" \in d.on => d.val["footerSize"] = m.val["footerSize"]

FooterBytes(m) == IF HasFooter(m) THEN m.footer ELSE <<>>

FooterRead(src, r, x, m) ==
    /\ Reached(src, r.pos, FooterBytes(m), x) /\ x \in States(src) /\ x.dst.on = r.dst.on
    /\ x.rv = "Good" => /\ Kept(r.dst, x.dst, {"footer"})
                        /\ x.dst.footer = IF HasFooter(m) THEN m.footer ELSE r.dst.footer

\* The footer.
LEMMA FooterReads ==
    ASSUME NEW src \in Seq(Octet), NEW r \in States(src), r.rv = "Good", NEW m \in NetworkMessages,
           Secured(r.dst, m), ~EndlessFooter(m), Follows(src, r.pos, FooterBytes(m)),
           NEW x, x = DecodeFooter(src, r)
    PROVE  FooterRead(src, r, x, m)
<1>1. CASE ~HasFooter(m)
  <2>1. x = r /\ FooterBytes(m) = <<>>
    BY <1>1 DEF DecodeFooter, When, FooterBytes, Secured
  <2> QED
    BY <1>1, <2>1, ReachedNone DEF FooterRead, Kept
<1>2. CASE HasFooter(m)
  <2> DEFINE s == m.footer
             f == "footer"
             n == m.val["footerSize"]
  <2>1. s \in Seq(Octet) /\ Len(s) = n
    BY MessageHas
  <2>2. n < 256
    BY <1>2 DEF EndlessFooter, HasFooter
  <2>3. x = ReadNumbers(src, r, n, 1, f)
    BY <1>2, <2>2 DEF DecodeFooter, When, Secured
  <2>4. Follows(src, r.pos, s) /\ FooterBytes(m) = s /\ f \in Strings
    BY <1>2 DEF FooterBytes, Strings
  <2> HIDE DEF s, f, n
  <2>5. x = ReadNumbers(src, r, Len(s), 1, f)
    BY <2>1, <2>3
  <2>6. HasRead(src, r, x, s, f, s) /\ x \in States(src) /\ x.dst.on = r.dst.on
    BY <2>1, <2>4, <2>5, OctetsRead
  <2> QED
    BY <1>2, <2>4, <2>6 DEF HasRead, FooterRead, f, s
<1> QED
  BY <1>1, <1>2

HasTrailer(d, e, m) ==
    /\ Kept(d, e, {"footer", "signature"})
    /\ e.footer = IF HasFooter(m) THEN m.footer ELSE d.footer
    /\ e.signature = IF HasSignature(m) THEN m.signature ELSE d.signature

\* The footer and the signature.
LEMMA TrailerReads ==
    ASSUME NEW src \in Seq(Octet), NEW r \in States(src), r.rv = "Good", NEW m \in NetworkMessages,
           Secured(r.dst, m), ~EndlessFooter(m), Follows(src, r.pos, TrailerBytes(m)),
           NEW x, x = DecodeTrailer(src, r)
    PROVE  /\ Reached(src, r.pos, TrailerBytes(m), x)
           /\ x.rv = "Good" => HasTrailer(r.dst, x.dst, m)
<1> DEFINE a == DecodeFooter(src, r)
           b == FooterBytes(m)
           c == IF HasSignature(m) THEN EncodeArray(m.signature, 1) ELSE <<>>
           p == r.pos
<1>1. TrailerBytes(m) = b \o c
  BY DEF TrailerBytes, FooterBytes, HasFooter, HasSignature
<1>2. m.footer \in Seq(Octet) /\ m.signature \in Seq(Octet) /\ Len(m.signature) \in Unsigned(4)
  BY MessageHas
<1>3. b \in Seq(Octet) /\ c \in Seq(Octet) /\ p \in Nat
  <2>1. EncodeArray(m.signature, 1) \in Seq(Octet)
    <3> DEFINE s == m.signature
    <3>1. s \in Seq(Octet) /\ Len(s) \in Unsigned(4)
      BY <1>2
    <3> HIDE DEF s
    <3>2. EncodeArray(s, 1) \in Seq(Octet)
      BY <3>1, StringBytes
    <3> QED
      BY <3>2 DEF s
  <2>2. <<>> \in Seq(Octet)
    OBVIOUS
  <2>3. b \in Seq(Octet)
    BY <1>2, <2>2 DEF FooterBytes
  <2> QED
    BY <2>1, <2>2, <2>3 DEF States
<1>4. Follows(src, p, b \o c)
  BY <1>1
<1> HIDE DEF b, c
<1>5. Follows(src, p, b) /\ Follows(src, p + Len(b), c)
  BY <1>3, <1>4, FollowsFirst
<1>6. CASE "security" \notin m.on
  <2>1. ~HasFooter(m) /\ ~HasSignature(m)
    BY <1>6 DEF HasFooter, HasSignature
  <2>2. x = r /\ TrailerBytes(m) = <<>>
    BY <1>6, <1>1, <2>1 DEF DecodeTrailer, When, Secured, b, c, FooterBytes
  <2> QED
    BY <2>1, <2>2, ReachedNone DEF HasTrailer, Kept
<1>7. CASE "security" \in m.on
  <2>1. x = IF a.rv = "Good" /\ "signed" \in a.dst.on THEN ReadString(src, a, "signature") ELSE a
    BY <1>7 DEF DecodeTrailer, When, Secured
  <2>2. FooterRead(src, r, a, m)
    BY <1>5, FooterReads DEF b
  <2> HIDE DEF a
  <2>3. Reached(src, p, b, a) /\ a \in States(src) /\ ("signed" \in a.dst.on <=> HasSignature(m))
    BY <2>2 DEF FooterRead, Secured, b
  <2> HIDE DEF p
  <2>4. CASE a.rv # "Good"
    <3>1. x = a
      BY <2>1, <2>4
    <3>2. Reached(src, p, b \o c, x)
      BY <1>3, <1>4, <2>3, <2>4, <3>1, Chain
    <3> QED
      BY <1>1, <2>4, <3>1, <3>2 DEF p
  <2>5. CASE a.rv = "Good" /\ HasSignature(m)
    <3> DEFINE s == m.signature
               f == "signature"
    <3>1. x = ReadString(src, a, f) /\ c = EncodeArray(s, 1)
      BY <2>1, <2>3, <2>5 DEF c
    <3>2. Follows(src, a.pos, EncodeArray(s, 1))
      BY <1>5, <2>3, <2>5, <3>1 DEF Reached
    <3>3. f \in Strings /\ s \in Seq(Octet) /\ Len(s) \in Unsigned(4)
      BY <1>2 DEF Strings
    <3> HIDE DEF f, s
    <3>4. HasRead(src, a, x, EncodeArray(s, 1), f, s)
      BY <2>3, <3>1, <3>2, <3>3, StringReads
    <3>5. Reached(src, a.pos, c, x)
      BY <3>1, <3>4 DEF HasRead
    <3>6. Reached(src, p, b \o c, x)
      BY <1>3, <1>4, <2>3, <2>5, <3>5, Chain
    <3>7. x.rv = "Good" => HasTrailer(r.dst, x.dst, m)
      <4> SUFFICES ASSUME x.rv = "Good" PROVE HasTrailer(r.dst, x.dst, m)
        OBVIOUS
      <4>1. Kept(a.dst, x.dst, {f}) /\ x.dst[f] = s
        BY <3>4 DEF HasRead
      <4>2. Kept(r.dst, a.dst, {"footer"}) /\ a.dst.footer = IF HasFooter(m) THEN m.footer ELSE r.dst.footer
        BY <2>2, <2>5 DEF FooterRead
      <4>3. Kept(r.dst, x.dst, {"footer", "signature"}) /\ x.dst.footer = a.dst.footer /\ x.dst.signature = s
        BY <4>1, <4>2 DEF Kept, Members, f
      <4> QED
        BY <2>5, <4>2, <4>3 DEF HasTrailer, s
    <3> QED
      BY <1>1, <3>6, <3>7 DEF p
  <2>6. CASE a.rv = "Good" /\ ~HasSignature(m)
    <3>1. x = a /\ c = <<>>
      BY <2>1, <2>3, <2>6 DEF c
    <3>2. b \o c = b
      BY <1>3, <3>1
    <3>3. HasTrailer(r.dst, x.dst, m)
      BY <2>2, <2>6, <3>1 DEF FooterRead, HasTrailer, Kept, Members
    <3> QED
      BY <1>1, <2>3, <3>1, <3>2, <3>3 DEF p
  <2> QED
    BY <2>4, <2>5, <2>6
<1> QED
  BY <1>6, <1>7

---------------------------------------------------------------------------
(* The promoted fields. *)

\* One element more.
LEMMA CopiedMore ==
    ASSUME NEW U, NEW s \in Seq(U), NEW k \in Nat, k + 1 <= Len(s)
    PROVE  Append(Copied(s, k), s[k + 1]) = Copied(s, k + 1) /\ Copied(s, 0) = <<>>
<1>1. Copied(s, k) = [i \in 1..k |-> s[i]] /\ Copied(s, k + 1) = [i \in 1..(k + 1) |-> s[i]]
  BY DEF Copied
<1>2. \A i \in 1..k : s[i] \in U
  OBVIOUS
<1>3. Len(Copied(s, k)) = k /\ Copied(s, k) \in Seq(U)
  BY <1>1, <1>2
<1>4. Append(Copied(s, k), s[k + 1]) = [i \in 1..(k + 1) |-> IF i <= k THEN Copied(s, k)[i] ELSE s[k + 1]]
  BY <1>3
<1>5. Copied(s, 0) = <<>>
  BY DEF Copied
<1> QED
  BY <1>1, <1>4, <1>5

\* k of the promoted fields s have been read behind p.
PromotedRead(src, p, g, r, s, y, k) ==
    /\ Reached(src, p, g[k], y)
    /\ y.rv = "Good" => Kept(r.dst, y.dst, {"promoted"}) /\ y.dst.promoted = Copied(s, k)

\* A promoted field is added.
LEMMA WithPromotedKept ==
    ASSUME NEW d \in LooseMessages, NEW v, NEW e, e = WithPromoted(d, v)
    PROVE  Kept(d, e, {"promoted"}) /\ e.promoted = Append(d.promoted, v)
<1> DEFINE s == Append(d.promoted, v)
           h == d.heap \cup {"promoted"}
<1>1. e = [d EXCEPT !.promoted = s, !.heap = h]
  BY DEF WithPromoted
<1> HIDE DEF s, h
<1>2. Kept(d, e, {"promoted"}) /\ e.promoted = s
  BY <1>1 DEF LooseMessages, Kept, Members
<1> QED
  BY <1>2 DEF s

\* The next field is read.
LEMMA PromoteReads ==
    ASSUME NEW src \in Seq(Octet), NEW p \in Nat, NEW s \in Seq(Variants),
           NEW b, \A j \in 1..Len(s) : b[j] = EncodeVariant(s[j]), NEW g, Stacks(g, b, Len(s)),
           NEW i \in 1..Len(s), Follows(src, p, g[i]), NEW r, NEW y \in States(src),
           PromotedRead(src, p, g, r, s, y, i - 1), y.rv = "Good",
           NEW x, x = Promote(y, DecodeVariant(src, y.pos))
    PROVE  PromotedRead(src, p, g, r, s, x, i)
<1> DEFINE k == i - 1
           n == Len(s)
           v == s[i]
           a == g[k]
           c == EncodeVariant(v)
           z == DecodeVariant(src, y.pos)
<1>1. n \in Nat /\ k \in Nat /\ k \in 0..n /\ k + 1 = i /\ k + 1 <= n /\ v \in Variants
  OBVIOUS
<1>2. a \in Seq(Octet) /\ c \in Seq(Octet) /\ g[i] = a \o c
  <2>1. b[i] = c
    OBVIOUS
  <2> HIDE DEF c, k, n
  <2> QED
    BY <1>1, <2>1 DEF Stacks, k, n
<1>3. /\ Reached(src, p, a, y) /\ Kept(r.dst, y.dst, {"promoted"}) /\ y.dst.promoted = Copied(s, k)
      /\ y.pos \in 0..Len(src)
  BY DEF PromotedRead, States
<1> HIDE DEF a, c, v, k
<1>4. Follows(src, p, a \o c)
  BY <1>2
<1>5. Follows(src, y.pos, c)
  <2>1. Follows(src, p + Len(a), c)
    BY <1>2, <1>4, FollowsFirst
  <2> QED
    BY <1>3, <2>1 DEF Reached
<1>6. z \in Outcomes(src, Variants)
  BY <1>3, VariantType
<1>7. Reads(src, y.pos, c, z, v)
  <2>1. Follows(src, y.pos, EncodeVariant(v))
    BY <1>5 DEF c
  <2>2. Reads(src, y.pos, EncodeVariant(v), DecodeVariant(src, y.pos), v)
    BY <1>1, <1>3, <2>1, VariantReads
  <2> QED
    BY <2>2 DEF c
<1>8. x = Promote(y, z)
  OBVIOUS
<1> HIDE DEF z
<1>9. x.rv = z.rv /\ x.pos = z.pos /\ x.dst = WithPromoted(y.dst, z.value)
  BY <1>6, <1>8, PromoteType
<1>10. Reached(src, y.pos, c, x) /\ (x.rv = "Good" => z.value = v)
  BY <1>7, <1>9 DEF Reads, Reached
<1>11. Reached(src, p, a \o c, x)
  BY <1>2, <1>3, <1>4, <1>10, Chain
<1>12. ASSUME x.rv = "Good"
       PROVE  Kept(r.dst, x.dst, {"promoted"}) /\ x.dst.promoted = Copied(s, i)
  <2>1. y.dst \in LooseMessages /\ x.dst = WithPromoted(y.dst, v)
    BY <1>9, <1>10, <1>12 DEF States
  <2>2. Kept(y.dst, x.dst, {"promoted"}) /\ x.dst.promoted = Append(y.dst.promoted, v)
    BY <2>1, WithPromotedKept
  <2>3. Append(Copied(s, k), s[k + 1]) = Copied(s, k + 1)
    <3> HIDE DEF n
    <3>1. k + 1 <= Len(s) /\ k \in Nat
      BY <1>1 DEF n
    <3> QED
      BY <3>1, CopiedMore
  <2>4. x.dst.promoted = Copied(s, i)
    BY <1>1, <1>3, <2>2, <2>3 DEF v
  <2> QED
    BY <1>3, <2>2, <2>4 DEF Kept
<1> QED
  BY <1>2, <1>11, <1>12 DEF PromotedRead

Lesser(a, b) == IF a < b THEN a ELSE b

\* A turn of the loop reads the next field as long as there is one.
LEMMA NextPromotedReads ==
    ASSUME NEW src \in Seq(Octet), NEW p \in Nat, NEW s \in Seq(Variants), Len(s) >= 1,
           NEW b, \A j \in 1..Len(s) : b[j] = EncodeVariant(s[j]), NEW g, Stacks(g, b, Len(s)), g[0] = <<>>,
           Follows(src, p, g[Len(s)]), NEW i \in Nat, i >= 1, NEW r, NEW y \in States(src),
           PromotedRead(src, p, g, r, s, y, Lesser(i - 1, Len(s))),
           NEW end, end = p + Len(g[Len(s)]), NEW x, x = NextPromoted(src, y, i, end)
    PROVE  PromotedRead(src, p, g, r, s, x, Lesser(i, Len(s)))
<1> DEFINE n == Len(s)
           k == i - 1
<1>1. n \in Nat /\ k \in Nat /\ n >= 1 /\ i = k + 1
  OBVIOUS
<1>2. \A j \in 1..n : b[j] \in Seq(Octet) /\ Len(b[j]) \in Nat /\ Len(b[j]) >= 1
  BY SMTT(40), VariantBytes
<1> HIDE DEF n
<1>3. \A j \in 0..n : Starts(g[j], g[n]) /\ g[j] \in Seq(Octet)
  BY <1>1, StacksStart DEF n
<1>4. CASE i <= n
  <2>1. i \in 1..n /\ k \in 0..n /\ n \in 0..n /\ i \in 0..n
    BY <1>1, <1>4
  <2>2. Lesser(k, n) = k /\ Lesser(i, n) = i
    BY <1>1, <1>4 DEF Lesser
  <2>3. PromotedRead(src, p, g, r, s, y, k) /\ i \in 1..Len(s)
    BY <2>1, <2>2 DEF n
  <2>4. g[i] = g[k] \o b[i] /\ g[k] \in Seq(Octet) /\ b[i] \in Seq(Octet)
    BY <1>2, <2>1 DEF Stacks, n
  <2>5. Len(g[i]) = Len(g[k]) + Len(b[i]) /\ Len(g[k]) \in Nat
    BY <2>4
  <2>6. Len(g[i]) <= Len(g[n]) /\ Len(g[n]) \in Nat
    BY <1>3, <2>1 DEF Starts
  <2> DEFINE lk == Len(g[k])
             li == Len(g[i])
             ln == Len(g[n])
             lb == Len(b[i])
  <2>7. lk < ln
    <3>1. li = lk + lb /\ lk \in Nat /\ li <= ln /\ ln \in Nat /\ lb \in Nat /\ lb >= 1
      BY <1>2, <2>1, <2>5, <2>6
    <3> HIDE DEF lk, li, ln, lb
    <3> QED
      BY <3>1
  <2>8. CASE y.rv # "Good"
    <3>1. x = y
      BY <2>8, NextPromotedType
    <3>2. ~ (p + lk <= Len(src))
      BY <2>3, <2>8 DEF PromotedRead, Reached
    <3>3. ~ (p + li <= Len(src))
      <4> DEFINE c == Len(src)
      <4>1. li = lk + lb /\ lk \in Nat /\ lb \in Nat /\ c \in Nat
        BY <1>2, <2>1, <2>5
      <4> HIDE DEF lk, li, lb, c
      <4> QED
        BY <3>2, <4>1 DEF c
    <3> QED
      BY <2>2, <2>8, <3>1, <3>3 DEF PromotedRead, Reached, n
  <2>9. CASE y.rv = "Good"
    <3>1. y.pos = p + lk
      BY <2>3, <2>9 DEF PromotedRead, Reached
    <3>2. ~ (y.pos >= end)
      <4>1. end = p + ln /\ lk \in Nat /\ ln \in Nat
        BY <2>5, <2>6 DEF n
      <4> HIDE DEF lk, ln
      <4> QED
        BY <2>7, <3>1, <4>1
    <3>3. x = Promote(y, DecodeVariant(src, y.pos))
      BY <2>9, <3>2 DEF NextPromoted, Then
    <3>4. Follows(src, p, g[i])
      BY <1>3, <2>1 DEF Starts, n
    <3> HIDE DEF k
    <3>5. PromotedRead(src, p, g, r, s, y, i - 1)
      BY <2>3 DEF k
    <3>6. PromotedRead(src, p, g, r, s, x, i)
      BY <2>3, <2>9, <3>3, <3>4, <3>5, PromoteReads
    <3> QED
      BY <2>2, <3>6 DEF n
  <2> QED
    BY <2>8, <2>9
<1>5. CASE ~ (i <= n)
  <2>1. Lesser(k, n) = n /\ Lesser(i, n) = n /\ i > 1
    BY <1>1, <1>5 DEF Lesser
  <2>2. PromotedRead(src, p, g, r, s, y, n)
    BY <2>1 DEF n
  <2>3. y.rv = "Good" => y.pos = end
    BY <2>2 DEF PromotedRead, Reached, n
  <2>4. y.rv = "Good" => y.pos >= end
    <3>1. y.pos \in Nat
      BY DEF States
    <3> QED
      BY <2>3, <3>1
  <2>5. x = y
    BY <2>1, <2>4 DEF NextPromoted, Then
  <2> QED
    BY <2>1, <2>2, <2>5 DEF n
<1> QED
  BY <1>4, <1>5

\* The loop over the promoted fields takes its turns.
PromotedTurns(src, r, size, x) ==
    /\ Turns(src, size) \in Nat
    /\ \E f : /\ Loops(f, States(src), r, Turns(src, size), PromotedStep(src, Turns(src, size), r.pos + size))
             /\ x = f[Turns(src, size)]

\* The promoted loop has made some number of turns.
LEMMA PromotedTurned ==
    ASSUME NEW src \in Seq(Octet), NEW r \in States(src), NEW size \in Nat, NEW x, x = PromotedLoop(src, r, size)
    PROVE  PromotedTurns(src, r, size, x)
<1> DEFINE n == Turns(src, size)
           end == r.pos + size
<1>1. n \in Nat /\ \E f : Loops(f, States(src), r, n, PromotedStep(src, n, end)) /\ x = f[n]
  BY PromotedRuns
<1> QED
  BY <1>1 DEF PromotedTurns

\* The loop over the promoted fields reads back every one of them.
LEMMA PromotedLoopReads ==
    ASSUME NEW src \in Seq(Octet), NEW r \in States(src), r.rv = "Good", r.dst.promoted = <<>>,
           NEW s \in Seq(Variants), Len(s) >= 1, NEW b, b = [j \in 1..Len(s) |-> EncodeVariant(s[j])],
           Follows(src, r.pos, FlattenSeq(b)), NEW size, size = Len(FlattenSeq(b)),
           NEW x, x = PromotedLoop(src, r, size)
    PROVE  HasRead(src, r, x, FlattenSeq(b), "promoted", s)
<1> DEFINE k == Len(s)
           n == Turns(src, size)
           z == <<>>
           g == Stack(z, b)
           c == Len(src)
           p == r.pos
           end == p + size
           step == PromotedStep(src, n, end)
<1>1. k \in Nat /\ c \in Nat /\ k >= 1 /\ p \in Nat /\ p \in 0..c
  BY DEF States
<1>2. \A j \in 1..k : b[j] = EncodeVariant(s[j]) /\ b[j] \in Seq(Octet) /\ Len(b[j]) >= 1
  BY VariantBytes
<1>3. b \in Seq(Seq(Octet)) /\ Len(b) = k
  <2> DEFINE T == Seq(Octet)
  <2>1. b = [j \in 1..k |-> b[j]] /\ \A j \in 1..k : b[j] \in T
    BY <1>2
  <2> HIDE DEF T, k
  <2>2. b \in [1..k -> T]
    BY <2>1
  <2>3. b \in Seq(T) /\ Len(b) = k
    BY <1>1, <2>2
  <2> QED
    BY <2>3 DEF T
<1>4. z \in Seq(Octet) /\ p \in 0..c
  BY DEF States
<1> HIDE DEF z, g, n, step, k
<1>5. Stacks(g, b, k) /\ g[0] = z /\ g[k] = z \o FlattenSeq(b)
  BY <1>3, <1>4, StackStacks DEF g
<1>6. \A i \in 0..k : Starts(g[i], g[k]) /\ g[i] \in Seq(Octet)
  BY <1>1, <1>5, StacksStart
<1>7. g[k] = FlattenSeq(b) /\ Len(g[k]) = size /\ size \in Nat /\ k \in 0..k
  <2>1. k \in 0..k
    BY <1>1
  <2>2. FlattenSeq(b) \in Seq(Octet)
    BY <1>3, FlattenType
  <2> DEFINE t == FlattenSeq(b)
  <2> HIDE DEF t
  <2>3. g[k] = t /\ t \in Seq(Octet)
    BY <1>5, <2>2 DEF z, t
  <2> QED
    BY <2>1, <2>3 DEF t
<1>8. n = (IF size > c THEN c + 1 ELSE size)
  BY DEF Turns, n
<1>9. PICK f : Loops(f, States(src), r, n, step) /\ x = f[n] /\ n \in Nat
  <2>1. size \in Nat
    BY <1>7
  <2>2. PromotedTurns(src, r, size, x)
    BY <2>1, PromotedTurned
  <2> QED
    BY <2>2 DEF PromotedTurns, n, step
<1> DEFINE I == {q \in States(src) \X (0..n) : PromotedRead(src, p, g, r, s, q[1], Lesser(q[2], k))}
<1>10. <<r, 0>> \in I
  <2>1. Lesser(0, k) = 0 /\ 0 \in 0..n
    BY <1>1, <1>9 DEF Lesser
  <2>2. Reached(src, p, g[0], r)
    BY <1>5, ReachedNone DEF z
  <2>3. Copied(s, 0) = <<>>
    BY DEF Copied
  <2>4. PromotedRead(src, p, g, r, s, r, 0)
    BY <2>2, <2>3 DEF PromotedRead, Kept
  <2> QED
    BY <2>1, <2>4
<1>11. Preserves(I, States(src), n, step)
  <2> SUFFICES \A y \in States(src), i \in 1..n : <<y, i - 1>> \in I => <<step[<<y, i>>], i>> \in I
    BY DEF Preserves
  <2> TAKE y \in States(src), i \in 1..n
  <2> HAVE <<y, i - 1>> \in I
  <2> DEFINE w == NextPromoted(src, y, i, end)
  <2>1. step[<<y, i>>] = w
    BY DEF step, PromotedStep
  <2>2. i \in 0..n /\ i \in Nat /\ i >= 1
    BY <1>9
  <2>3. PromotedRead(src, p, g, r, s, y, Lesser(i - 1, k))
    OBVIOUS
  <2>4. w \in States(src)
    BY NextPromotedType
  <2>5. PromotedRead(src, p, g, r, s, w, Lesser(i, k))
    <3>1. Follows(src, p, g[Len(s)]) /\ end = p + Len(g[Len(s)]) /\ g[0] = <<>>
      BY <1>5, <1>7 DEF k, z
    <3>2. \A j \in 1..Len(s) : b[j] = EncodeVariant(s[j])
      BY <1>2 DEF k
    <3>3. Stacks(g, b, Len(s))
      BY <1>5 DEF k
    <3>4. PromotedRead(src, p, g, r, s, y, Lesser(i - 1, Len(s)))
      BY <2>3 DEF k
    <3> HIDE DEF end, w
    <3>5. w = NextPromoted(src, y, i, end)
      BY DEF w
    <3> HIDE DEF p
    <3>6. p \in Nat
      BY <1>1
    <3>7. PromotedRead(src, p, g, r, s, w, Lesser(i, Len(s)))
      BY <2>2, <3>1, <3>2, <3>3, <3>4, <3>5, <3>6, NextPromotedReads
    <3> QED
      BY <3>7 DEF k
  <2> HIDE DEF w
  <2> QED
    BY <2>1, <2>2, <2>4, <2>5
<1>12. PromotedRead(src, p, g, r, s, x, Lesser(n, k))
  <2>1. n \in 0..n
    BY <1>9
  <2> HIDE DEF I
  <2>2. \A i \in 0..n : f[i] \in States(src) /\ <<f[i], i>> \in I
    BY <1>9, <1>10, <1>11, LoopKeeps
  <2>3. <<x, n>> \in I
    BY <1>9, <2>1, <2>2
  <2> QED
    BY <2>3 DEF I
<1>13. CASE ~ (n < k)
  <2>1. PromotedRead(src, p, g, r, s, x, k)
    BY <1>12, <1>13 DEF Lesser
  <2>2. Copied(s, k) = s
    BY CopiedAll DEF k
  <2> QED
    BY <1>7, <2>1, <2>2 DEF PromotedRead, HasRead
<1>14. CASE n < k
  <2>1. n \in 0..k
    BY <1>1, <1>9, <1>14
  <2>2. \A i \in 0..k : Len(g[i]) \in Nat /\ Len(g[i]) >= i
    <3> DEFINE l(i) == Len(g[i])
    <3>1. \A i \in 0..k : l(i) \in Nat /\ l(i) >= i
      BY <1>1, <1>2, <1>5, StacksLong
    <3> QED
      BY <3>1
  <2>3. n = c + 1
    <3>1. size >= k
      BY <1>7, <2>2
    <3> HIDE DEF c
    <3> QED
      BY <1>1, <1>7, <1>8, <1>14, <3>1
  <2>4. Len(g[n]) <= size
    BY <1>6, <1>7, <2>1 DEF Starts
  <2> DEFINE ln == Len(g[n])
  <2>5. ~ (p + ln <= c) /\ ~ (p + size <= c)
    <3>1. ln \in Nat /\ ln >= n
      BY <2>1, <2>2
    <3> HIDE DEF ln, c, p
    <3> QED
      BY <1>1, <1>7, <2>3, <2>4, <3>1 DEF ln
  <2>6. x.rv # "Good"
    BY <1>12, <1>14, <2>5 DEF Lesser, PromotedRead, Reached
  <2>7. Reached(src, p, FlattenSeq(b), x)
    BY <2>5, <2>6 DEF Reached
  <2> QED
    BY <2>6, <2>7 DEF HasRead
<1> QED
  BY <1>13, <1>14

\* With no bytes of promoted fields the loop takes no turn.
LEMMA NoPromotedReads ==
    ASSUME NEW src \in Seq(Octet), NEW r \in States(src), NEW x, x = PromotedLoop(src, r, 0)
    PROVE  x = r
<1>1. 0 \in Nat /\ Turns(src, 0) = 0
  <2> DEFINE c == Len(src)
  <2>1. c \in Nat /\ Turns(src, 0) = IF 0 > c THEN c + 1 ELSE 0
    BY DEF Turns
  <2> HIDE DEF c
  <2> QED
    BY <2>1
<1>2. PromotedTurns(src, r, 0, x)
  BY <1>1, PromotedTurned
<1> QED
  BY <1>1, <1>2 DEF PromotedTurns, Loops

\* The promoted fields of a message are read back, whether it has any.
LEMMA PromotedFieldsRead ==
    ASSUME NEW src \in Seq(Octet), NEW r \in States(src), r.rv = "Good", r.dst.promoted = <<>>,
           NEW m \in NetworkMessages, Follows(src, r.pos, FlattenSeq(PromotedOf(m))),
           NEW x, x = PromotedLoop(src, r, PromotedSize(m))
    PROVE  HasRead(src, r, x, FlattenSeq(PromotedOf(m)), "promoted", m.promoted)
<1> DEFINE s == m.promoted
           b == PromotedOf(m)
           size == PromotedSize(m)
<1>1. s \in Seq(Variants)
  <2> DEFINE U == {v \in Variants : ~v.arr}
             V == Variants
  <2>1. s \in Seq(U) /\ U \subseteq V
    BY MessageHas
  <2> HIDE DEF U, V, s
  <2>2. s \in Seq(V)
    BY <2>1, SeqOfMore
  <2> QED
    BY <2>2 DEF V
<1>2. b = [j \in 1..Len(s) |-> EncodeVariant(s[j])]
  BY DEF PromotedOf
<1>3. size = Len(FlattenSeq(b)) /\ size \in Nat
  BY PromotedPiece
<1>4. Follows(src, r.pos, FlattenSeq(b)) /\ x = PromotedLoop(src, r, size)
  OBVIOUS
<1> HIDE DEF b, size
<1>5. CASE Len(s) >= 1
  <2> HIDE DEF s
  <2>1. HasRead(src, r, x, FlattenSeq(b), "promoted", s)
    BY <1>1, <1>2, <1>3, <1>4, <1>5, PromotedLoopReads
  <2> QED
    BY <2>1 DEF b, s
<1>6. CASE ~ (Len(s) >= 1)
  <2>1. s = <<>> /\ b = <<>>
    <3>1. Len(s) = 0
      BY <1>1, <1>6
    <3>2. s = <<>>
      BY <1>1, <3>1
    <3> HIDE DEF s
    <3> QED
      BY <1>2, <3>1, <3>2
  <2>2. FlattenSeq(b) = <<>> /\ size = 0
    <3>1. FlattenSeq(<<>>) = <<>>
      BY FlattenEmpty
    <3> QED
      BY <1>3, <2>1, <3>1
  <2>3. x = r
    BY <1>4, <2>2, NoPromotedReads
  <2> HIDE DEF s
  <2>4. HasRead(src, r, x, FlattenSeq(b), "promoted", s)
    BY <2>1, <2>2, <2>3, ReachedNone DEF HasRead, Kept
  <2> QED
    BY <2>4 DEF b, s
<1> QED
  BY <1>5, <1>6

\* The promoted fields of the message, when it has them.
HasPromoted(d, e, m) ==
    /\ Kept(d, e, {"promoted"})
    /\ e.promoted = IF "promoted" \in m.on THEN m.promoted ELSE d.promoted

\* The promoted fields are read back when their size fits in the two bytes in
\* front of them.
LEMMA PromotedReads ==
    ASSUME NEW src \in Seq(Octet), NEW r \in States(src), r.rv = "Good", r.dst.promoted = <<>>,
           NEW m \in NetworkMessages, "promoted" \in m.on => PromotedSize(m) < 65536,
           Ctx(r.dst, m), Follows(src, r.pos, PromotedBytes(m)), NEW x, x = DecodePromoted(src, r)
    PROVE  /\ Reached(src, r.pos, PromotedBytes(m), x)
           /\ x.rv = "Good" => HasPromoted(r.dst, x.dst, m)
<1>1. "promoted" \in r.dst.on <=> "promoted" \in m.on
  BY FlagsKnown
<1>2. CASE "promoted" \notin m.on
  <2>1. x = r /\ PromotedBytes(m) = <<>>
    BY <1>1, <1>2 DEF DecodePromoted, When, PromotedBytes
  <2> QED
    BY <1>2, <2>1, ReachedNone DEF HasPromoted, Kept
<1>3. CASE "promoted" \in m.on
  <2> DEFINE a == Take(src, r, 2)
             n == PromotedSize(m)
             w == 2
             t == LE(n, w)
             b == FlattenSeq(PromotedOf(m))
             p == r.pos
  <2>1. x = IF a.rv = "Good" THEN PromotedLoop(src, a, a.last) ELSE a
    BY <1>1, <1>3 DEF DecodePromoted, When, Then
  <2>2. n \in Nat /\ b \in Seq(Octet)
    <3>1. n \in Nat /\ PromotedOf(m) \in Seq(Seq(Octet))
      BY PromotedPiece
    <3> QED
      BY <3>1, FlattenType
  <2>3. n % 65536 = n /\ n \in Unsigned(w) /\ w \in Widths
    <3>1. n < 65536
      BY <1>3
    <3> HIDE DEF n
    <3> QED
      BY SMT, <2>2, <3>1 DEF Unsigned, Limit, Widths
  <2>4. PromotedBytes(m) = t \o b
    <3> DEFINE q == n % 65536
    <3>1. PromotedBytes(m) = LE(q, 2) \o b
      BY <1>3 DEF PromotedBytes
    <3>2. q = n
      BY <2>3
    <3> HIDE DEF n, b, q
    <3> QED
      BY <3>1, <3>2
  <2>5. t \in Seq(Octet)
    BY <2>2, <2>3, LEType DEF Widths
  <2>6. p \in Nat /\ a = Take(src, r, w)
    BY DEF States
  <2> HIDE DEF w
  <2>7. Follows(src, p, t \o b)
    BY <2>4
  <2>8. Follows(src, p, t) /\ Follows(src, p + Len(t), b)
    <3> HIDE DEF t, b
    <3> QED
      BY <2>2, <2>5, <2>6, <2>7, FollowsFirst
  <2>9. Reached(src, p, t, a) /\ (a.rv = "Good" => a.last = n) /\ a \in States(src) /\ a.dst = r.dst
    <3>1. Follows(src, r.pos, LE(n, w))
      BY <2>8
    <3> HIDE DEF n, a
    <3>2. Reached(src, r.pos, LE(n, w), a) /\ (a.rv = "Good" => a.last = n)
      BY <2>3, <2>6, <3>1, TakeReads
    <3>3. a \in States(src) /\ a.dst = r.dst
      BY <2>3, <2>6, TakeType
    <3> QED
      BY <3>2, <3>3
  <2> HIDE DEF a, p, t, b
  <2>10. CASE a.rv # "Good"
    <3>1. x.rv # "Good"
      BY <2>1, <2>10
    <3>2. Reached(src, p, t \o b, x)
      BY <2>2, <2>5, <2>6, <2>7, <2>9, <2>10, <3>1, Chain
    <3> QED
      BY <2>4, <3>1, <3>2 DEF p
  <2>11. CASE a.rv = "Good"
    <3>1. x = PromotedLoop(src, a, n)
      BY <2>1, <2>9, <2>11
    <3>2. Follows(src, a.pos, b)
      BY <2>8, <2>9, <2>11 DEF Reached
    <3>3. a.dst.promoted = <<>>
      BY <2>9
    <3>4. HasRead(src, a, x, b, "promoted", m.promoted)
      <4>1. Follows(src, a.pos, FlattenSeq(PromotedOf(m))) /\ x = PromotedLoop(src, a, PromotedSize(m))
        BY <3>1, <3>2 DEF b
      <4>2. HasRead(src, a, x, FlattenSeq(PromotedOf(m)), "promoted", m.promoted)
        BY <2>9, <2>11, <3>3, <4>1, PromotedFieldsRead
      <4> QED
        BY <4>2 DEF b
    <3>5. Reached(src, a.pos, b, x)
      BY <3>4 DEF HasRead
    <3>6. Reached(src, p, t \o b, x)
      BY <2>2, <2>5, <2>6, <2>7, <2>9, <2>11, <3>5, Chain
    <3>7. x.rv = "Good" => HasPromoted(r.dst, x.dst, m)
      BY <1>3, <2>9, <3>4 DEF HasRead, HasPromoted
    <3> QED
      BY <2>4, <3>6, <3>7 DEF p
  <2> QED
    BY <2>10, <2>11
<1> QED
  BY <1>2, <1>3

---------------------------------------------------------------------------
(* The payload. *)

\* The DataSetMessages of m as its subscriber sees them.
ReceivedAll(m) == [i \in 1..DSMCount(m) |-> ReceivedDSM(m.dsms[i])]

\* k of the DataSetMessages of m have been read behind p.
DSMsRead(src, p, g, r, m, y, k) ==
    /\ Reached(src, p, g[k], y)
    /\ y.rv = "Good" => Kept(r.dst, y.dst, {"dsms"}) /\ y.dst.dsms = Copied(ReceivedAll(m), k)

\* A DataSetMessage is added.
LEMMA WithDSMKept ==
    ASSUME NEW d \in LooseMessages, NEW v, NEW h, NEW e, e = WithDSM(d, v, h)
    PROVE  Kept(d, e, {"dsms"}) /\ e.dsms = Append(d.dsms, v)
<1> DEFINE s == Append(d.dsms, v)
<1>1. e = [d EXCEPT !.dsms = s, !.heap = h]
  BY DEF WithDSM
<1> HIDE DEF s
<1>2. Kept(d, e, {"dsms"}) /\ e.dsms = s
  BY <1>1 DEF LooseMessages, Kept, Members
<1> QED
  BY <1>2 DEF s

\* A block is allocated.
LEMMA WithHeapKept ==
    ASSUME NEW src, NEW r \in States(src), NEW h, NEW x, x = WithHeap(r, h)
    PROVE  Kept(r.dst, x.dst, {}) /\ x.rv = r.rv /\ x.pos = r.pos
<1> DEFINE d == r.dst
           e == [d EXCEPT !.heap = h]
<1>1. d \in LooseMessages /\ x = [r EXCEPT !.dst = e]
  BY DEF States, WithHeap
<1> HIDE DEF d
<1>2. Kept(d, e, {})
  BY <1>1 DEF LooseMessages, Kept, Members
<1> HIDE DEF e
<1>3. x.dst = e /\ x.rv = r.rv /\ x.pos = r.pos
  BY <1>1 DEF States
<1> QED
  BY <1>2, <1>3 DEF d

\* A turn of the loop reads the next DataSetMessage.
LEMMA NextDSMReads ==
    ASSUME NEW src \in Seq(Octet), NEW p \in Nat, NEW m \in NetworkMessages, AllEncodable(m),
           NEW g, Stacks(g, DSMsOf(m), DSMCount(m)), NEW i \in 1..DSMCount(m), Follows(src, p, g[i]),
           NEW r, NEW y \in States(src), DSMsRead(src, p, g, r, m, y, i - 1),
           NEW x, x = NextDSM(src, y, i)
    PROVE  DSMsRead(src, p, g, r, m, x, i)
<1> DEFINE k == i - 1
           n == DSMCount(m)
           v == m.dsms[i]
           a == g[k]
           c == DSMBytes(v)
           z == DecodeDSM(src, y.pos)
           s == ReceivedAll(m)
           q == y.pos
<1>1. n \in Nat
  BY MessageHas
<1>2. k \in Nat /\ k \in 0..n /\ k + 1 = i /\ k + 1 <= n /\ i \in Nat
  BY <1>1
<1>3. v \in DataSetMessages /\ Encodable(v)
  BY SizesFit DEF AllEncodable
<1>4. a \in Seq(Octet) /\ c \in Seq(Octet) /\ g[i] = a \o c
  <2>1. DSMsOf(m)[i] = c
    BY DEF DSMsOf
  <2> HIDE DEF c, k, n
  <2> QED
    BY <1>2, <2>1 DEF Stacks, k, n
<1>5. /\ Reached(src, p, a, y) /\ q \in 0..Len(src) /\ q \in Nat
      /\ y.rv = "Good" => Kept(r.dst, y.dst, {"dsms"}) /\ y.dst.dsms = Copied(s, k)
  BY DEF DSMsRead, States
<1>6. x = IF y.rv = "Good" THEN AddMessage(y, i, z) ELSE y
  BY DEF NextDSM, Then
<1>7. z \in Frames(src)
  BY <1>5, DSMType
<1>8. Follows(src, p, a \o c)
  BY <1>4
<1>9. s \in Seq({ReceivedDSM(m.dsms[j]) : j \in 1..n}) /\ Len(s) = n /\ s[i] = ReceivedDSM(v)
  <2> DEFINE D == {ReceivedDSM(m.dsms[j]) : j \in 1..n}
  <2>1. s = [j \in 1..n |-> ReceivedDSM(m.dsms[j])] /\ s[i] = ReceivedDSM(v)
    BY DEF ReceivedAll
  <2>2. s \in [1..n -> D]
    BY <2>1
  <2> HIDE DEF D, s, n
  <2>3. s \in Seq(D) /\ Len(s) = n
    BY <1>1, <2>1, <2>2
  <2> QED
    BY <2>1, <2>3 DEF D
<1> DEFINE D == {ReceivedDSM(m.dsms[j]) : j \in 1..n}
<1> HIDE DEF a, c, v, k, z, s, D, n, q
<1>10. CASE y.rv # "Good"
  <2>1. x = y
    BY <1>6, <1>10
  <2>2. Reached(src, p, a \o c, x)
    BY <1>4, <1>5, <1>8, <1>10, <2>1, Chain
  <2> QED
    BY <1>4, <1>10, <2>1, <2>2 DEF DSMsRead
<1>11. CASE y.rv = "Good"
  <2>1. Added(src, y, i, z, x)
    BY <1>2, <1>6, <1>7, <1>11, AddMessageType
  <2>2. x.rv = z.rv /\ x.pos = z.pos /\ x.dst = WithDSM(y.dst, z.dsm, OwnHeap(y, i, z))
    BY <2>1 DEF Added
  <2>3. Follows(src, q, c)
    <3>1. Follows(src, p + Len(a), c)
      BY <1>4, <1>8, FollowsFirst
    <3> QED
      BY <1>5, <1>11, <3>1 DEF Reached, q
  <2>4. Reached(src, q, c, z) /\ (z.rv = "Good" => z.dsm = ReceivedDSM(v))
    <3>1. Follows(src, q, DSMBytes(v)) /\ z = DecodeDSM(src, q)
      BY <2>3 DEF c, z, q
    <3>2. Reached(src, q, DSMBytes(v), z) /\ (z.rv = "Good" => z.dsm = ReceivedDSM(v))
      BY <1>3, <1>5, <3>1, DSMReads
    <3> QED
      BY <3>2 DEF c
  <2>5. Reached(src, y.pos, c, x)
    BY <2>2, <2>4 DEF Reached, q
  <2>6. Reached(src, p, a \o c, x)
    BY <1>4, <1>5, <1>8, <1>11, <2>5, Chain
  <2>7. ASSUME x.rv = "Good"
        PROVE  Kept(r.dst, x.dst, {"dsms"}) /\ x.dst.dsms = Copied(s, i)
    <3> DEFINE h == OwnHeap(y, i, z)
               d == y.dst
               u == z.dsm
               e == x.dst
    <3>1. d \in LooseMessages /\ e = WithDSM(d, u, h)
      BY <2>2 DEF States
    <3>2. u = s[i]
      BY <1>9, <2>2, <2>4, <2>7
    <3> HIDE DEF h, d, u, e
    <3>3. Kept(d, e, {"dsms"}) /\ e.dsms = Append(d.dsms, u)
      BY <3>1, WithDSMKept
    <3>4. Append(Copied(s, k), s[k + 1]) = Copied(s, k + 1)
      <4>1. s \in Seq(D) /\ k + 1 <= Len(s)
        BY <1>2, <1>9 DEF D
      <4> QED
        BY <1>2, <4>1, CopiedMore
    <3>5. e.dsms = Copied(s, i)
      BY <1>2, <1>5, <1>11, <3>2, <3>3, <3>4 DEF d
    <3>6. Kept(r.dst, d, {"dsms"})
      BY <1>5, <1>11 DEF d
    <3>7. Kept(r.dst, e, {"dsms"})
      BY <3>3, <3>6 DEF Kept
    <3> QED
      BY <3>5, <3>7 DEF e
  <2> QED
    BY <1>4, <2>6, <2>7 DEF DSMsRead, s
<1> QED
  BY <1>10, <1>11

\* The loop over the DataSetMessages takes its turns.
DSMTurns(src, r, n, x) ==
    \E f : /\ Loops(f, States(src), WithHeap(r, r.dst.heap \cup {"dsms"}), n, DSMStep(src, n))
           /\ x = f[n]

\* The loop over the DataSetMessages has made some number of turns.
LEMMA DSMTurned ==
    ASSUME NEW src \in Seq(Octet), NEW r \in States(src), NEW n \in Nat, NEW x, x = DecodeDSMs(src, r, n)
    PROVE  DSMTurns(src, r, n, x) /\ WithHeap(r, r.dst.heap \cup {"dsms"}) \in States(src)
<1> DEFINE b == WithHeap(r, r.dst.heap \cup {"dsms"})
<1>1. b \in States(src) /\ \E f : Loops(f, States(src), b, n, DSMStep(src, n)) /\ x = f[n]
  BY DSMRuns
<1> QED
  BY <1>1 DEF DSMTurns

\* The loop over the DataSetMessages reads back every one of them.
LEMMA DSMLoopReads ==
    ASSUME NEW src \in Seq(Octet), NEW r \in States(src), r.rv = "Good", r.dst.dsms = <<>>,
           NEW m \in NetworkMessages, m.nmType = 0, AllEncodable(m),
           Follows(src, r.pos, FlattenSeq(DSMsOf(m))),
           NEW x, x = DecodeDSMs(src, r, DSMCount(m))
    PROVE  HasRead(src, r, x, FlattenSeq(DSMsOf(m)), "dsms", ReceivedAll(m))
<1> DEFINE n == DSMCount(m)
           b == DSMsOf(m)
           z == <<>>
           g == Stack(z, b)
           p == r.pos
           h == WithHeap(r, r.dst.heap \cup {"dsms"})
           step == DSMStep(src, n)
           s == ReceivedAll(m)
<1>1. n \in Nat /\ p \in Nat /\ n \in 0..n /\ 0 \in 0..n
  <2>1. n \in Nat
    BY MessageHas
  <2> HIDE DEF n
  <2> QED
    BY <2>1 DEF States
<1>2. b \in Seq(Seq(Octet)) /\ Len(b) = n
  BY PayloadPiece
<1>3. z \in Seq(Octet)
  OBVIOUS
<1> HIDE DEF z, g, b, n, step, h
<1>4. Stacks(g, b, n) /\ g[0] = z /\ g[n] = z \o FlattenSeq(b)
  BY <1>2, <1>3, StackStacks DEF g
<1>5. \A i \in 0..n : Starts(g[i], g[n]) /\ g[i] \in Seq(Octet)
  BY <1>1, <1>4, StacksStart
<1>6. g[n] = FlattenSeq(b)
  <2> DEFINE t == FlattenSeq(b)
  <2>1. t \in Seq(Octet)
    BY <1>2, FlattenType
  <2> HIDE DEF t
  <2>2. z \o t = t
    BY <2>1 DEF z
  <2> QED
    BY <1>4, <2>2 DEF t
<1>7. \A i \in 0..n : Follows(src, p, g[i])
  <2>1. Follows(src, p, g[n])
    BY <1>6 DEF b
  <2> QED
    BY <1>1, <1>5, <2>1 DEF Starts
<1>8. DSMTurns(src, r, n, x) /\ h \in States(src)
  BY <1>1, DSMTurned DEF n, h
<1>9. PICK f : Loops(f, States(src), h, n, step) /\ x = f[n]
  BY <1>8 DEF DSMTurns, h, step
<1>10. Kept(r.dst, h.dst, {}) /\ h.rv = r.rv /\ h.pos = r.pos
  BY WithHeapKept DEF h
<1> DEFINE I == {q \in States(src) \X (0..n) : DSMsRead(src, p, g, r, m, q[1], q[2])}
<1>11. <<h, 0>> \in I
  <2>1. Reached(src, p, g[0], h)
    <3>1. Reached(src, p, z, r)
      BY ReachedNone DEF z
    <3> QED
      BY <1>4, <1>10, <3>1 DEF Reached
  <2>2. Kept(r.dst, h.dst, {"dsms"}) /\ h.dst.dsms = <<>>
    BY <1>10 DEF Kept, Members
  <2>3. Copied(s, 0) = <<>>
    BY DEF Copied
  <2> HIDE DEF s
  <2>4. DSMsRead(src, p, g, r, m, h, 0)
    BY <2>1, <2>2, <2>3 DEF DSMsRead, s
  <2> QED
    BY <1>1, <1>8, <2>4
<1>12. Preserves(I, States(src), n, step)
  <2> SUFFICES \A y \in States(src), i \in 1..n : <<y, i - 1>> \in I => <<step[<<y, i>>], i>> \in I
    BY DEF Preserves
  <2> TAKE y \in States(src), i \in 1..n
  <2> HAVE <<y, i - 1>> \in I
  <2> DEFINE w == NextDSM(src, y, i)
  <2>1. step[<<y, i>>] = w
    BY DEF step, DSMStep
  <2>2. i \in 0..n /\ i \in Nat
    BY <1>1
  <2>3. DSMsRead(src, p, g, r, m, y, i - 1)
    OBVIOUS
  <2>4. w \in States(src)
    BY <2>2, NextDSMStays
  <2>5. DSMsRead(src, p, g, r, m, w, i)
    <3>1. Follows(src, p, g[i]) /\ Stacks(g, DSMsOf(m), DSMCount(m)) /\ i \in 1..DSMCount(m)
      BY <1>4, <1>7, <2>2 DEF n, b
    <3> HIDE DEF w, p
    <3>2. w = NextDSM(src, y, i)
      BY DEF w
    <3> QED
      BY <1>1, <2>3, <3>1, <3>2, NextDSMReads
  <2> HIDE DEF w
  <2> QED
    BY <2>1, <2>2, <2>4, <2>5
<1>13. DSMsRead(src, p, g, r, m, x, n)
  <2> HIDE DEF I
  <2>1. \A i \in 0..n : f[i] \in States(src) /\ <<f[i], i>> \in I
    BY <1>1, <1>9, <1>11, <1>12, LoopKeeps
  <2>2. <<x, n>> \in I
    BY <1>1, <1>9, <2>1
  <2> QED
    BY <2>2 DEF I
<1>14. Copied(s, n) = s
  BY DEF Copied, ReceivedAll, n
<1> HIDE DEF s
<1>15. HasRead(src, r, x, FlattenSeq(b), "dsms", s)
  BY <1>6, <1>13, <1>14 DEF DSMsRead, HasRead, s
<1> QED
  BY <1>15 DEF b, s

\* The table of sizes of a message, as its subscriber sees it, and its
\* DataSetMessages.
ReceivedSizes(m) == IF DSMCount(m) > 1 THEN TableOf(m) ELSE <<>>

HasPayload(d, e, m) ==
    Kept(d, e, {"sizes", "dsms"}) /\ e.sizes = ReceivedSizes(m) /\ e.dsms = ReceivedAll(m)

HasTable(d, e, m) == Kept(d, e, {"sizes"}) /\ e.sizes = ReceivedSizes(m)

\* The table of sizes is a byte string.
LEMMA TableType ==
    ASSUME NEW m \in NetworkMessages
    PROVE  TableBytes(m) \in Seq(Octet)
<1> DEFINE n == DSMCount(m)
           s == TableOf(m)
           z == <<>>
           q == 0
           w == 2
<1>1. n \in Nat /\ \A i \in 1..n : s[i] \in Unsigned(w)
  <2>1. n \in Nat
    BY MessageHas
  <2>2. \A i \in 1..n : SizeAt(m, i) \in Unsigned(2)
    BY SizesFit
  <2> QED
    BY <2>1, <2>2 DEF TableOf
<1>2. z \in Seq(Octet) /\ Follows(z, q, NumbersBytes(s, n, w)) /\ w \in {1, 2} /\ q \in Nat
  BY DEF Follows
<1>3. TableBytes(m) = IF n > 1 THEN NumbersBytes(s, n, w) ELSE <<>>
  BY DEF TableBytes
<1> HIDE DEF z, q, w, n, s
<1>4. NumbersAt(z, q, s, n, w)
  BY <1>1, <1>2, NumbersReads
<1>5. NumbersBytes(s, n, w) \in Seq(Octet)
  BY <1>4 DEF NumbersAt
<1> QED
  BY <1>3, <1>5

\* The table of sizes is read back.
LEMMA TableReads ==
    ASSUME NEW src \in Seq(Octet), NEW r \in States(src), r.rv = "Good", r.dst.sizes = <<>>,
           NEW m \in NetworkMessages, Follows(src, r.pos, TableBytes(m)),
           NEW x, x = IF DSMCount(m) > 1 THEN ReadNumbers(src, r, DSMCount(m), 2, "sizes") ELSE r
    PROVE  /\ Reached(src, r.pos, TableBytes(m), x) /\ TableBytes(m) \in Seq(Octet) /\ x \in States(src)
           /\ x.rv = "Good" => HasTable(r.dst, x.dst, m)
<1> DEFINE n == DSMCount(m)
           s == TableOf(m)
           b == TableBytes(m)
<1>1. n \in Nat /\ \A i \in 1..n : s[i] \in Unsigned(2)
  <2>1. n \in Nat
    BY MessageHas
  <2>2. \A i \in 1..n : SizeAt(m, i) \in Unsigned(2)
    BY SizesFit
  <2> QED
    BY <2>1, <2>2 DEF TableOf
<1>2. CASE n > 1
  <2> DEFINE w == 2
             f == "sizes"
             t == NumbersBytes(s, n, w)
  <2>1. w \in {1, 2} /\ f \in Strings
    BY DEF Strings
  <2>2. b = t /\ x = ReadNumbers(src, r, n, w, f)
    BY <1>2 DEF TableBytes
  <2>3. \A i \in 1..n : s[i] \in Unsigned(w)
    BY <1>1
  <2>4. Copied(s, n) = s
    BY DEF Copied, TableOf
  <2>5. r.pos \in Nat /\ Follows(src, r.pos, b)
    BY DEF States
  <2> HIDE DEF w, f, s, n, b
  <2>6. HasRead(src, r, x, t, f, s)
    BY <1>1, <2>1, <2>2, <2>3, <2>4, <2>5, ReadNumbersReads
  <2>7. x \in States(src)
    BY <1>1, <2>1, <2>2, ReadNumbersType
  <2>8. NumbersAt(src, r.pos, s, n, w)
    BY <1>1, <2>1, <2>2, <2>3, <2>5, NumbersReads
  <2>9. b \in Seq(Octet)
    BY <2>2, <2>8 DEF NumbersAt
  <2>10. x.rv = "Good" => HasTable(r.dst, x.dst, m)
    BY <1>2, <2>6 DEF HasRead, HasTable, f, s, ReceivedSizes, n
  <2> QED
    BY <2>2, <2>6, <2>7, <2>9, <2>10 DEF HasRead, b
<1>3. CASE ~ (n > 1)
  <2>1. x = r /\ b = <<>> /\ ReceivedSizes(m) = <<>>
    BY <1>3 DEF TableBytes, ReceivedSizes
  <2> HIDE DEF b
  <2>2. HasTable(r.dst, r.dst, m)
    BY <2>1 DEF HasTable, Kept
  <2> QED
    BY <2>1, <2>2, ReachedNone DEF b
<1> QED
  BY <1>2, <1>3

\* The payload is read back.
LEMMA PayloadReads ==
    ASSUME NEW src \in Seq(Octet), NEW r \in States(src), r.rv = "Good",
           r.dst.sizes = <<>>, r.dst.dsms = <<>>,
           NEW m \in NetworkMessages, m.nmType = 0, AllEncodable(m), Ctx(r.dst, m),
           PayloadCount(r.dst) = DSMCount(m),
           Follows(src, r.pos, PayloadBytes(m)), NEW x, x = DecodePayload(src, r)
    PROVE  /\ Reached(src, r.pos, PayloadBytes(m), x)
           /\ x.rv = "Good" => HasPayload(r.dst, x.dst, m)
<1> DEFINE n == DSMCount(m)
           y == IF n > 1 THEN ReadNumbers(src, r, n, 2, "sizes") ELSE r
           a == TableBytes(m)
           b == FlattenSeq(DSMsOf(m))
           p == r.pos
<1>1. x = IF y.rv = "Good" THEN DecodeDSMs(src, y, n) ELSE y
  <2>1. r.dst.nmType = 0
    BY DEF Ctx
  <2>2. (IF "payloadHeader" \in r.dst.on THEN r.dst.count ELSE 1) = n
    BY DEF PayloadCount
  <2> DEFINE k == IF "payloadHeader" \in r.dst.on THEN r.dst.count ELSE 1
  <2>3. x = IF r.rv = "Good"
            THEN (IF r.dst.nmType # 0 THEN [r EXCEPT !.rv = "BadNotImplemented"]
                  ELSE LET z == IF k > 1 THEN ReadNumbers(src, r, k, 2, "sizes") ELSE r
                       IN  IF z.rv = "Good" THEN DecodeDSMs(src, z, k) ELSE z)
            ELSE r
    BY DEF DecodePayload, Then
  <2> HIDE DEF k, n
  <2> QED
    BY <2>1, <2>2, <2>3 DEF k
<1>2. PayloadBytes(m) = a \o b
  BY DEF PayloadBytes
<1>3. p \in Nat /\ b \in Seq(Octet)
  <2>1. DSMsOf(m) \in Seq(Seq(Octet))
    BY PayloadPiece
  <2> QED
    BY <2>1, FlattenType DEF States
<1>4. a \in Seq(Octet)
  BY TableType
<1>5. Follows(src, p, a \o b)
  BY <1>2
<1>6. Follows(src, p, a) /\ Follows(src, p + Len(a), b)
  <2> HIDE DEF a, b, p
  <2> QED
    BY <1>3, <1>4, <1>5, FollowsFirst
<1>7. /\ Reached(src, p, a, y) /\ y \in States(src)
      /\ y.rv = "Good" => HasTable(r.dst, y.dst, m)
  BY <1>6, TableReads
<1> HIDE DEF y, a, b, p
<1>8. CASE y.rv # "Good"
  <2>1. x.rv # "Good"
    BY <1>1, <1>8
  <2>2. Reached(src, p, a \o b, x)
    BY <1>3, <1>4, <1>5, <1>7, <1>8, <2>1, Chain
  <2> QED
    BY <1>2, <2>1, <2>2 DEF p
<1>9. CASE y.rv = "Good"
  <2>1. x = DecodeDSMs(src, y, DSMCount(m))
    BY <1>1, <1>9
  <2>2. Follows(src, y.pos, b)
    BY <1>6, <1>7, <1>9 DEF Reached
  <2>3. y.dst.dsms = <<>> /\ Kept(r.dst, y.dst, {"sizes"}) /\ y.dst.sizes = ReceivedSizes(m)
    <3>1. HasTable(r.dst, y.dst, m)
      BY <1>7, <1>9
    <3> QED
      BY <3>1 DEF HasTable, Kept, Members
  <2>4. HasRead(src, y, x, b, "dsms", ReceivedAll(m))
    <3>1. Follows(src, y.pos, FlattenSeq(DSMsOf(m)))
      BY <2>2 DEF b
    <3>2. HasRead(src, y, x, FlattenSeq(DSMsOf(m)), "dsms", ReceivedAll(m))
      BY <1>7, <1>9, <2>1, <2>3, <3>1, DSMLoopReads
    <3> QED
      BY <3>2 DEF b
  <2>5. Reached(src, y.pos, b, x)
    BY <2>4 DEF HasRead
  <2>6. Reached(src, p, a \o b, x)
    BY <1>3, <1>4, <1>5, <1>7, <1>9, <2>5, Chain
  <2>7. x.rv = "Good" => HasPayload(r.dst, x.dst, m)
    <3> DEFINE t == ReceivedAll(m)
               u == ReceivedSizes(m)
    <3> HIDE DEF t, u
    <3>1. x.rv = "Good" => Kept(y.dst, x.dst, {"dsms"}) /\ x.dst.dsms = t
      BY <2>4 DEF HasRead, t
    <3>2. x.rv = "Good" => Kept(r.dst, x.dst, {"sizes", "dsms"}) /\ x.dst.dsms = t /\ x.dst.sizes = u
      BY <2>3, <3>1 DEF Kept, Members, u
    <3> QED
      BY <3>2 DEF HasPayload, t, u
  <2> QED
    BY <1>2, <2>6, <2>7 DEF p
<1> QED
  BY <1>8, <1>9

---------------------------------------------------------------------------
(* The message read so far: what its members hold behind section k, in the
   order flags, publisher id, class id, group header, payload header, time,
   promoted fields, security header. *)

PublisherNumbers(m) == IF "publisherId" \in m.on /\ m.pubType # StringId THEN {"publisherId"} ELSE {}
PublisherString(m)  == IF "publisherId" \in m.on /\ m.pubType = StringId THEN m.pubString ELSE <<>>

Present(s, there) == IF there THEN s ELSE <<>>

FeaturesBy(m, k) == (m.on \cap InFlags) \cup (IF k >= 4 THEN InGroup(m) ELSE {})
                    \cup (IF k >= 8 THEN InSecurity(m) ELSE {})

NumbersBy(m, k) == (IF k >= 2 THEN PublisherNumbers(m) ELSE {})
                   \cup (IF k >= 3 THEN FieldsIn(m.on, ClassLayout) ELSE {})
                   \cup (IF k >= 4 THEN InGroup(m) ELSE {})
                   \cup (IF k >= 6 THEN FieldsIn(m.on, StampLayout) ELSE {})
                   \cup (IF k >= 8 THEN SecurityNumbers(m) ELSE {})

NoNumbers == [f \in NMFields |-> 0]

Looks(d, m, k) ==
    /\ d.on = FeaturesBy(m, k) /\ d.version = m.version /\ d.pubType = m.pubType /\ d.nmType = m.nmType
    /\ Over(NoNumbers, d.val, NumbersBy(m, k), m)
    /\ d.pubString = IF k >= 2 THEN PublisherString(m) ELSE <<>>
    /\ d.count = IF k >= 5 /\ "payloadHeader" \in m.on THEN Len(m.ids) ELSE 0
    /\ d.ids = Present(m.ids, k >= 5 /\ "payloadHeader" \in m.on)
    /\ d.promoted = Present(m.promoted, k >= 7 /\ "promoted" \in m.on)
    /\ d.nonce = Present(m.nonce, k >= 8 /\ "security" \in m.on)
    /\ d.footer = <<>> /\ d.signature = <<>> /\ d.dsms = <<>> /\ d.sizes = <<>>

\* Behind the flags the decoder knows which sections follow.
LEMMA LooksCtx ==
    ASSUME NEW d, NEW m, NEW k, Looks(d, m, k)
    PROVE  Ctx(d, m)
BY DEF Looks, FeaturesBy, Ctx, InGroup, InSecurity

\* Section by section.
LEMMA LooksFlags ==
    ASSUME NEW d, NEW m, HasFlags(d, m)
    PROVE  Looks(d, m, 1)
<1>1. FeaturesBy(m, 1) = m.on \cap InFlags /\ NumbersBy(m, 1) = {}
  BY DEF FeaturesBy, NumbersBy
<1>2. /\ d.on = m.on \cap InFlags /\ d.version = m.version /\ d.pubType = m.pubType /\ d.nmType = m.nmType
      /\ Kept(Blank, d, {"on", "version", "pubType", "nmType"})
  BY DEF HasFlags
<1>3. /\ d.val = NoNumbers /\ d.pubString = <<>> /\ d.count = 0 /\ d.ids = <<>> /\ d.promoted = <<>>
      /\ d.nonce = <<>> /\ d.footer = <<>> /\ d.signature = <<>> /\ d.dsms = <<>> /\ d.sizes = <<>>
  BY <1>2 DEF Kept, Members, Blank, NoNumbers
<1>4. Over(NoNumbers, NoNumbers, {}, m)
  BY OverNone
<1>5. /\ Present(m.ids, 1 >= 5 /\ "payloadHeader" \in m.on) = <<>>
      /\ Present(m.promoted, 1 >= 7 /\ "promoted" \in m.on) = <<>>
      /\ Present(m.nonce, 1 >= 8 /\ "security" \in m.on) = <<>>
  BY DEF Present
<1>6. ~ (1 >= 2) /\ ~ (1 >= 5)
  OBVIOUS
<1>7. Over(NoNumbers, d.val, {}, m)
  BY <1>3, <1>4
<1> QED
  BY <1>1, <1>2, <1>3, <1>5, <1>6, <1>7 DEF Looks

\* The message looks right behind the publisher id.
LEMMA LooksPublisher ==
    ASSUME NEW d, NEW e, NEW m, Looks(d, m, 1), HasPublisher(d, e, m)
    PROVE  Looks(e, m, 2)
<1>1. FeaturesBy(m, 2) = FeaturesBy(m, 1) /\ NumbersBy(m, 2) = NumbersBy(m, 1) \cup PublisherNumbers(m)
  BY DEF FeaturesBy, NumbersBy
<1>2. Kept(d, e, {"val", "pubString"}) /\ Over(d.val, e.val, PublisherNumbers(m), m)
  BY DEF HasPublisher, PublisherNumbers
<1>3. e.pubString = PublisherString(m)
  BY DEF HasPublisher, PublisherString, Looks
<1>4. Over(NoNumbers, e.val, NumbersBy(m, 2), m)
  BY <1>1, <1>2, OverMore DEF Looks
<1> QED
  BY <1>1, <1>2, <1>3, <1>4 DEF Looks, Kept, Members, Present

\* The message looks right behind the class id.
LEMMA LooksClass ==
    ASSUME NEW d, NEW e, NEW m, Looks(d, m, 2), HasSection(d, e, m, ClassLayout)
    PROVE  Looks(e, m, 3)
<1>1. FeaturesBy(m, 3) = FeaturesBy(m, 2) /\ NumbersBy(m, 3) = NumbersBy(m, 2) \cup FieldsIn(m.on, ClassLayout)
  BY DEF FeaturesBy, NumbersBy
<1>2. Kept(d, e, {"val"}) /\ Over(d.val, e.val, FieldsIn(m.on, ClassLayout), m)
  BY DEF HasSection
<1>3. Over(NoNumbers, e.val, NumbersBy(m, 3), m)
  BY <1>1, <1>2, OverMore DEF Looks
<1> QED
  BY <1>1, <1>2, <1>3 DEF Looks, Kept, Members, Present

\* The message looks right behind the group header.
LEMMA LooksGroup ==
    ASSUME NEW d, NEW e, NEW m, Looks(d, m, 3), HasGroup(d, e, m)
    PROVE  Looks(e, m, 4)
<1>1. FeaturesBy(m, 4) = FeaturesBy(m, 3) \cup InGroup(m) /\ NumbersBy(m, 4) = NumbersBy(m, 3) \cup InGroup(m)
  BY DEF FeaturesBy, NumbersBy
<1>2. Kept(d, e, {"on", "val"}) /\ e.on = d.on \cup InGroup(m) /\ Over(d.val, e.val, InGroup(m), m)
  BY DEF HasGroup
<1>3. Over(NoNumbers, e.val, NumbersBy(m, 4), m)
  BY <1>1, <1>2, OverMore DEF Looks
<1> QED
  BY <1>1, <1>2, <1>3 DEF Looks, Kept, Members, Present

\* The message looks right behind the payload header.
LEMMA LooksIds ==
    ASSUME NEW d, NEW e, NEW m, Looks(d, m, 4), HasIds(d, e, m)
    PROVE  Looks(e, m, 5)
<1>1. FeaturesBy(m, 5) = FeaturesBy(m, 4) /\ NumbersBy(m, 5) = NumbersBy(m, 4)
  BY DEF FeaturesBy, NumbersBy
<1>2. Kept(d, e, {"count", "ids"})
  BY DEF HasIds
<1>3. /\ e.count = IF "payloadHeader" \in m.on THEN Len(m.ids) ELSE 0
      /\ e.ids = Present(m.ids, "payloadHeader" \in m.on)
  BY DEF HasIds, Looks, Present
<1> QED
  BY <1>1, <1>2, <1>3 DEF Looks, Kept, Members, Present

\* The message looks right behind the time stamps.
LEMMA LooksStamps ==
    ASSUME NEW d, NEW e, NEW m, Looks(d, m, 5), HasSection(d, e, m, StampLayout)
    PROVE  Looks(e, m, 6)
<1>1. FeaturesBy(m, 6) = FeaturesBy(m, 5) /\ NumbersBy(m, 6) = NumbersBy(m, 5) \cup FieldsIn(m.on, StampLayout)
  BY DEF FeaturesBy, NumbersBy
<1>2. Kept(d, e, {"val"}) /\ Over(d.val, e.val, FieldsIn(m.on, StampLayout), m)
  BY DEF HasSection
<1>3. Over(NoNumbers, e.val, NumbersBy(m, 6), m)
  BY <1>1, <1>2, OverMore DEF Looks
<1> QED
  BY <1>1, <1>2, <1>3 DEF Looks, Kept, Members, Present

\* The message looks right behind the promoted fields.
LEMMA LooksPromoted ==
    ASSUME NEW d, NEW e, NEW m, Looks(d, m, 6), HasPromoted(d, e, m)
    PROVE  Looks(e, m, 7)
<1>1. FeaturesBy(m, 7) = FeaturesBy(m, 6) /\ NumbersBy(m, 7) = NumbersBy(m, 6)
  BY DEF FeaturesBy, NumbersBy
<1>2. Kept(d, e, {"promoted"})
  BY DEF HasPromoted
<1>3. e.promoted = Present(m.promoted, "promoted" \in m.on)
  BY DEF HasPromoted, Looks, Present
<1> QED
  BY <1>1, <1>2, <1>3 DEF Looks, Kept, Members, Present

\* The message looks right behind the security header.
LEMMA LooksSecurity ==
    ASSUME NEW d, NEW e, NEW m, Looks(d, m, 7), HasSecurity(d, e, m)
    PROVE  Looks(e, m, 8)
<1>1. /\ FeaturesBy(m, 8) = FeaturesBy(m, 7) \cup InSecurity(m)
      /\ NumbersBy(m, 8) = NumbersBy(m, 7) \cup SecurityNumbers(m)
  BY DEF FeaturesBy, NumbersBy
<1>2. /\ Kept(d, e, {"on", "val", "nonce"}) /\ e.on = d.on \cup InSecurity(m)
      /\ Over(d.val, e.val, SecurityNumbers(m), m)
  BY DEF HasSecurity
<1>3. Over(NoNumbers, e.val, NumbersBy(m, 8), m)
  BY <1>1, <1>2, OverMore DEF Looks
<1>4. e.nonce = Present(m.nonce, "security" \in m.on)
  BY DEF HasSecurity, Looks, Present
<1> QED
  BY <1>1, <1>2, <1>3, <1>4 DEF Looks, Kept, Members, Present

---------------------------------------------------------------------------
(* The sections one behind the other. *)

\* Behind what has been read, the rest follows.
LEMMA BehindRead ==
    ASSUME NEW src \in Seq(Octet), NEW a \in Seq(Octet), NEW b \in Seq(Octet), NEW r, Reached(src, 0, a, r),
           Follows(src, 0, a \o b), r.rv = "Good"
    PROVE  Follows(src, r.pos, b)
<1>1. Follows(src, 0 + Len(a), b)
  BY FollowsFirst
<1>2. r.pos = 0 + Len(a)
  BY DEF Reached
<1> QED
  BY <1>1, <1>2

\* The first k sections have been read.
Stage(src, b, x, m, k) ==
    /\ EarlyState(src, x) /\ Reached(src, 0, b, x) /\ b \in Seq(Octet)
    /\ x.rv = "Good" => Looks(x.dst, m, k)

\* One more section has been read.
LEMMA StageMore ==
    ASSUME NEW src \in Seq(Octet), NEW a, NEW r, NEW m, NEW k, Stage(src, a, r, m, k),
           NEW b \in Seq(Octet), Follows(src, 0, a \o b), NEW x, EarlyState(src, x), NEW l,
           r.rv # "Good" => x.rv # "Good",
           r.rv = "Good" => Reached(src, r.pos, b, x) /\ (x.rv = "Good" => Looks(x.dst, m, l))
    PROVE  Stage(src, a \o b, x, m, l)
<1>1. a \in Seq(Octet) /\ Reached(src, 0, a, r) /\ 0 \in Nat
  BY DEF Stage
<1>2. Reached(src, 0, a \o b, x) /\ a \o b \in Seq(Octet) /\ (x.rv = "Good" => r.rv = "Good")
  BY <1>1, Chain
<1> QED
  BY <1>2 DEF Stage

\* The publisher id.
LEMMA PublisherStage ==
    ASSUME NEW src \in Seq(Octet), NEW m \in NetworkMessages, NEW a, NEW r, Stage(src, a, r, m, 1),
           Follows(src, 0, a \o PublisherBytes(m)), NEW x, x = DecodePublisherId(src, r)
    PROVE  Stage(src, a \o PublisherBytes(m), x, m, 2)
<1> DEFINE b == PublisherBytes(m)
           k == 1
           l == 2
<1>1. b \in Seq(Octet)
  BY PublisherPiece, PieceType
<1>2. EarlyState(src, r) /\ Reached(src, 0, a, r) /\ a \in Seq(Octet) /\ r \in States(src)
  BY DEF Stage, EarlyState
<1>3. EarlyState(src, x)
  BY <1>2, PublisherIdType
<1>4. r.rv # "Good" => x.rv # "Good"
  BY DEF DecodePublisherId, When
<1>5. ASSUME r.rv = "Good"
      PROVE  Reached(src, r.pos, b, x) /\ (x.rv = "Good" => Looks(x.dst, m, l))
  <2>1. Looks(r.dst, m, 1) /\ Ctx(r.dst, m)
    BY <1>5, LooksCtx DEF Stage
  <2>2. Follows(src, r.pos, PublisherBytes(m))
    <3>1. Follows(src, 0, a \o b)
      OBVIOUS
    <3> HIDE DEF b
    <3>2. Follows(src, r.pos, b)
      BY <1>1, <1>2, <1>5, <3>1, BehindRead
    <3> QED
      BY <3>2 DEF b
  <2>3. Reached(src, r.pos, PublisherBytes(m), x) /\ (x.rv = "Good" => HasPublisher(r.dst, x.dst, m))
    BY <1>2, <1>5, <2>1, <2>2, PublisherReads
  <2> QED
    BY <2>1, <2>3, LooksPublisher
<1> HIDE DEF b, k, l
<1>6. Stage(src, a, r, m, k) /\ Follows(src, 0, a \o b)
  BY DEF b, k
<1>7. Stage(src, a \o b, x, m, l)
  BY <1>1, <1>3, <1>4, <1>5, <1>6, StageMore
<1> QED
  BY <1>7 DEF b, l

\* The class id of the DataSet.
LEMMA ClassStage ==
    ASSUME NEW src \in Seq(Octet), NEW m \in NetworkMessages, NEW a, NEW r, Stage(src, a, r, m, 2),
           Follows(src, 0, a \o ClassBytes(m)), NEW x, x = ReadSection(src, r, ClassLayout)
    PROVE  Stage(src, a \o ClassBytes(m), x, m, 3)
<1> DEFINE b == ClassBytes(m)
           k == 2
           l == 3
<1>1. b \in Seq(Octet)
  BY ClassPiece, PieceType
<1>2. EarlyState(src, r) /\ Reached(src, 0, a, r) /\ a \in Seq(Octet) /\ r \in States(src)
  BY DEF Stage, EarlyState
<1>3. EarlyState(src, x) /\ (r.rv # "Good" => x = r)
  <2> DEFINE layout == ClassLayout
  <2>1. layout \in Seq(NMFields \X Widths) /\ x = ReadSection(src, r, layout)
    BY DEF ClassLayout, NMFields, Widths
  <2> HIDE DEF layout
  <2> QED
    BY <1>2, <2>1, ClassType, ReadSectionType
<1>4. r.rv # "Good" => x.rv # "Good"
  BY <1>3
<1>5. ASSUME r.rv = "Good"
      PROVE  Reached(src, r.pos, b, x) /\ (x.rv = "Good" => Looks(x.dst, m, l))
  <2>1. Looks(r.dst, m, 2) /\ Ctx(r.dst, m)
    BY <1>5, LooksCtx DEF Stage
  <2>2. Follows(src, r.pos, ClassBytes(m))
    <3>1. Follows(src, 0, a \o b)
      OBVIOUS
    <3> HIDE DEF b
    <3>2. Follows(src, r.pos, b)
      BY <1>1, <1>2, <1>5, <3>1, BehindRead
    <3> QED
      BY <3>2 DEF b
  <2>3. Reached(src, r.pos, ClassBytes(m), x) /\ (x.rv = "Good" => HasSection(r.dst, x.dst, m, ClassLayout))
    BY <1>2, <1>5, <2>1, <2>2, ClassReads
  <2> QED
    BY <2>1, <2>3, LooksClass
<1> HIDE DEF b, k, l
<1>6. Stage(src, a, r, m, k) /\ Follows(src, 0, a \o b)
  BY DEF b, k
<1>7. Stage(src, a \o b, x, m, l)
  BY <1>1, <1>3, <1>4, <1>5, <1>6, StageMore
<1> QED
  BY <1>7 DEF b, l

\* The group header.
LEMMA GroupStage ==
    ASSUME NEW src \in Seq(Octet), NEW m \in NetworkMessages, NEW a, NEW r, Stage(src, a, r, m, 3),
           Follows(src, 0, a \o GroupBytes(m)), NEW x, x = DecodeGroupHeader(src, r)
    PROVE  Stage(src, a \o GroupBytes(m), x, m, 4)
<1> DEFINE b == GroupBytes(m)
           k == 3
           l == 4
<1>1. b \in Seq(Octet)
  BY GroupPiece, PieceType
<1>2. EarlyState(src, r) /\ Reached(src, 0, a, r) /\ a \in Seq(Octet) /\ r \in States(src)
  BY DEF Stage, EarlyState
<1>3. EarlyState(src, x)
  BY <1>2, GroupType
<1>4. r.rv # "Good" => x.rv # "Good"
  BY DEF DecodeGroupHeader, When
<1>5. ASSUME r.rv = "Good"
      PROVE  Reached(src, r.pos, b, x) /\ (x.rv = "Good" => Looks(x.dst, m, l))
  <2>1. Looks(r.dst, m, 3) /\ Ctx(r.dst, m)
    BY <1>5, LooksCtx DEF Stage
  <2>2. Follows(src, r.pos, GroupBytes(m))
    <3>1. Follows(src, 0, a \o b)
      OBVIOUS
    <3> HIDE DEF b
    <3>2. Follows(src, r.pos, b)
      BY <1>1, <1>2, <1>5, <3>1, BehindRead
    <3> QED
      BY <3>2 DEF b
  <2>3. Reached(src, r.pos, GroupBytes(m), x) /\ (x.rv = "Good" => HasGroup(r.dst, x.dst, m))
    BY <1>2, <1>5, <2>1, <2>2, GroupReads
  <2> QED
    BY <2>1, <2>3, LooksGroup
<1> HIDE DEF b, k, l
<1>6. Stage(src, a, r, m, k) /\ Follows(src, 0, a \o b)
  BY DEF b, k
<1>7. Stage(src, a \o b, x, m, l)
  BY <1>1, <1>3, <1>4, <1>5, <1>6, StageMore
<1> QED
  BY <1>7 DEF b, l

\* The payload header.
LEMMA IdsStage ==
    ASSUME NEW src \in Seq(Octet), NEW m \in NetworkMessages, m.nmType = 0, ~NoWriters(m), NEW a, NEW r, Stage(src, a, r, m, 4),
           Follows(src, 0, a \o WriterBytes(m)), NEW x, x = DecodePayloadHeader(src, r)
    PROVE  Stage(src, a \o WriterBytes(m), x, m, 5)
<1> DEFINE b == WriterBytes(m)
           k == 4
           l == 5
<1>1. b \in Seq(Octet)
  BY WriterPiece, PieceType
<1>2. EarlyState(src, r) /\ Reached(src, 0, a, r) /\ a \in Seq(Octet) /\ r \in States(src)
  BY DEF Stage, EarlyState
<1>3. EarlyState(src, x)
  BY <1>2, PayloadHeaderType
<1>4. r.rv # "Good" => x.rv # "Good"
  BY DEF DecodePayloadHeader, When
<1>5. ASSUME r.rv = "Good"
      PROVE  Reached(src, r.pos, b, x) /\ (x.rv = "Good" => Looks(x.dst, m, l))
  <2>1. Looks(r.dst, m, 4) /\ Ctx(r.dst, m)
    BY <1>5, LooksCtx DEF Stage
  <2>2. Follows(src, r.pos, WriterBytes(m))
    <3>1. Follows(src, 0, a \o b)
      OBVIOUS
    <3> HIDE DEF b
    <3>2. Follows(src, r.pos, b)
      BY <1>1, <1>2, <1>5, <3>1, BehindRead
    <3> QED
      BY <3>2 DEF b
  <2>3. Reached(src, r.pos, WriterBytes(m), x) /\ (x.rv = "Good" => HasIds(r.dst, x.dst, m))
    BY <1>2, <1>5, <2>1, <2>2, IdsReads
  <2> QED
    BY <2>1, <2>3, LooksIds
<1> HIDE DEF b, k, l
<1>6. Stage(src, a, r, m, k) /\ Follows(src, 0, a \o b)
  BY DEF b, k
<1>7. Stage(src, a \o b, x, m, l)
  BY <1>1, <1>3, <1>4, <1>5, <1>6, StageMore
<1> QED
  BY <1>7 DEF b, l

\* The time.
LEMMA StampsStage ==
    ASSUME NEW src \in Seq(Octet), NEW m \in NetworkMessages, NEW a, NEW r, Stage(src, a, r, m, 5),
           Follows(src, 0, a \o StampBytes(m)), NEW x, x = ReadSection(src, r, StampLayout)
    PROVE  Stage(src, a \o StampBytes(m), x, m, 6)
<1> DEFINE b == StampBytes(m)
           k == 5
           l == 6
<1>1. b \in Seq(Octet)
  BY StampPiece, PieceType
<1>2. EarlyState(src, r) /\ Reached(src, 0, a, r) /\ a \in Seq(Octet) /\ r \in States(src)
  BY DEF Stage, EarlyState
<1>3. EarlyState(src, x) /\ (r.rv # "Good" => x = r)
  <2> DEFINE layout == StampLayout
  <2>1. layout \in Seq(NMFields \X Widths) /\ x = ReadSection(src, r, layout)
    BY DEF StampLayout, NMFields, Widths
  <2> HIDE DEF layout
  <2> QED
    BY <1>2, <2>1, ClassType, ReadSectionType
<1>4. r.rv # "Good" => x.rv # "Good"
  BY <1>3
<1>5. ASSUME r.rv = "Good"
      PROVE  Reached(src, r.pos, b, x) /\ (x.rv = "Good" => Looks(x.dst, m, l))
  <2>1. Looks(r.dst, m, 5) /\ Ctx(r.dst, m)
    BY <1>5, LooksCtx DEF Stage
  <2>2. Follows(src, r.pos, StampBytes(m))
    <3>1. Follows(src, 0, a \o b)
      OBVIOUS
    <3> HIDE DEF b
    <3>2. Follows(src, r.pos, b)
      BY <1>1, <1>2, <1>5, <3>1, BehindRead
    <3> QED
      BY <3>2 DEF b
  <2>3. Reached(src, r.pos, StampBytes(m), x) /\ (x.rv = "Good" => HasSection(r.dst, x.dst, m, StampLayout))
    BY <1>2, <1>5, <2>1, <2>2, StampReads
  <2> QED
    BY <2>1, <2>3, LooksStamps
<1> HIDE DEF b, k, l
<1>6. Stage(src, a, r, m, k) /\ Follows(src, 0, a \o b)
  BY DEF b, k
<1>7. Stage(src, a \o b, x, m, l)
  BY <1>1, <1>3, <1>4, <1>5, <1>6, StageMore
<1> QED
  BY <1>7 DEF b, l

\* The promoted fields.
LEMMA PromotedStage ==
    ASSUME NEW src \in Seq(Octet), NEW m \in NetworkMessages, "promoted" \in m.on => PromotedSize(m) < 65536, NEW a, NEW r, Stage(src, a, r, m, 6),
           Follows(src, 0, a \o PromotedBytes(m)), NEW x, x = DecodePromoted(src, r)
    PROVE  Stage(src, a \o PromotedBytes(m), x, m, 7)
<1> DEFINE b == PromotedBytes(m)
           k == 6
           l == 7
<1>1. b \in Seq(Octet)
  BY PromotedPiece, PieceType
<1>2. EarlyState(src, r) /\ Reached(src, 0, a, r) /\ a \in Seq(Octet) /\ r \in States(src)
  BY DEF Stage, EarlyState
<1>3. EarlyState(src, x)
  BY <1>2, DecodePromotedType
<1>4. r.rv # "Good" => x.rv # "Good"
  BY DEF DecodePromoted, When
<1>5. ASSUME r.rv = "Good"
      PROVE  Reached(src, r.pos, b, x) /\ (x.rv = "Good" => Looks(x.dst, m, l))
  <2>1. Looks(r.dst, m, 6) /\ Ctx(r.dst, m)
    BY <1>5, LooksCtx DEF Stage
  <2>0. r.dst.promoted = <<>>
    BY <2>1 DEF Looks, Present
  <2>2. Follows(src, r.pos, PromotedBytes(m))
    <3>1. Follows(src, 0, a \o b)
      OBVIOUS
    <3> HIDE DEF b
    <3>2. Follows(src, r.pos, b)
      BY <1>1, <1>2, <1>5, <3>1, BehindRead
    <3> QED
      BY <3>2 DEF b
  <2>3. Reached(src, r.pos, PromotedBytes(m), x) /\ (x.rv = "Good" => HasPromoted(r.dst, x.dst, m))
    BY <1>2, <1>5, <2>0, <2>1, <2>2, PromotedReads
  <2> QED
    BY <2>1, <2>3, LooksPromoted
<1> HIDE DEF b, k, l
<1>6. Stage(src, a, r, m, k) /\ Follows(src, 0, a \o b)
  BY DEF b, k
<1>7. Stage(src, a \o b, x, m, l)
  BY <1>1, <1>3, <1>4, <1>5, <1>6, StageMore
<1> QED
  BY <1>7 DEF b, l

\* The security header.
LEMMA SecurityStage ==
    ASSUME NEW src \in Seq(Octet), NEW m \in NetworkMessages, NEW a, NEW r, Stage(src, a, r, m, 7),
           Follows(src, 0, a \o SecurityBytes(m)), NEW x, x = DecodeSecurityHeader(src, r)
    PROVE  Stage(src, a \o SecurityBytes(m), x, m, 8)
<1> DEFINE b == SecurityBytes(m)
           k == 7
           l == 8
<1>1. b \in Seq(Octet)
  BY SecurityPiece, PieceType
<1>2. EarlyState(src, r) /\ Reached(src, 0, a, r) /\ a \in Seq(Octet) /\ r \in States(src)
  BY DEF Stage, EarlyState
<1>3. EarlyState(src, x)
  BY <1>2, SecurityType
<1>4. r.rv # "Good" => x.rv # "Good"
  BY DEF DecodeSecurityHeader, When
<1>5. ASSUME r.rv = "Good"
      PROVE  Reached(src, r.pos, b, x) /\ (x.rv = "Good" => Looks(x.dst, m, l))
  <2>1. Looks(r.dst, m, 7) /\ Ctx(r.dst, m)
    BY <1>5, LooksCtx DEF Stage
  <2>2. Follows(src, r.pos, SecurityBytes(m))
    <3>1. Follows(src, 0, a \o b)
      OBVIOUS
    <3> HIDE DEF b
    <3>2. Follows(src, r.pos, b)
      BY <1>1, <1>2, <1>5, <3>1, BehindRead
    <3> QED
      BY <3>2 DEF b
  <2>3. Reached(src, r.pos, SecurityBytes(m), x) /\ (x.rv = "Good" => HasSecurity(r.dst, x.dst, m))
    BY <1>2, <1>5, <2>1, <2>2, SecurityReads
  <2> QED
    BY <2>1, <2>3, LooksSecurity
<1> HIDE DEF b, k, l
<1>6. Stage(src, a, r, m, k) /\ Follows(src, 0, a \o b)
  BY DEF b, k
<1>7. Stage(src, a \o b, x, m, l)
  BY <1>1, <1>3, <1>4, <1>5, <1>6, StageMore
<1> QED
  BY <1>7 DEF b, l

\* The flags.
LEMMA FlagsStage ==
    ASSUME NEW src \in Seq(Octet), NEW m \in NetworkMessages, Follows(src, 0, FlagsBytes(m)),
           NEW x, x = DecodeFlags(src)
    PROVE  Stage(src, FlagsBytes(m), x, m, 1)
<1> DEFINE b == FlagsBytes(m)
<1>1. Reached(src, 0, b, x) /\ b \in Seq(Octet) /\ (x.rv = "Good" => HasFlags(x.dst, m))
  BY DecodeFlagsReads
<1>2. EarlyState(src, x)
  BY DecodeFlagsType, BareEarly
<1>3. x.rv = "Good" => Looks(x.dst, m, 1)
  BY <1>1, LooksFlags
<1> HIDE DEF b
<1>4. Stage(src, b, x, m, 1)
  BY <1>1, <1>2, <1>3 DEF Stage
<1> QED
  BY <1>4 DEF b

\* The message behind its payload: what the sections in front of it, and the
\* DataSetMessages with their table of sizes, hold.
Paid(d, m) ==
    /\ d.on = FeaturesBy(m, 8) /\ d.version = m.version /\ d.pubType = m.pubType /\ d.nmType = m.nmType
    /\ Over(NoNumbers, d.val, NumbersBy(m, 8), m)
    /\ d.pubString = PublisherString(m)
    /\ d.count = IF "payloadHeader" \in m.on THEN Len(m.ids) ELSE 0
    /\ d.ids = Present(m.ids, "payloadHeader" \in m.on)
    /\ d.promoted = Present(m.promoted, "promoted" \in m.on)
    /\ d.nonce = Present(m.nonce, "security" \in m.on)
    /\ d.sizes = ReceivedSizes(m) /\ d.dsms = ReceivedAll(m)

\* What a decoder hands over of message m.
Received(d, m) ==
    /\ Paid(d, m)
    /\ d.footer = Present(m.footer, HasFooter(m)) /\ d.signature = Present(m.signature, HasSignature(m))

PaidFor(d, m) == Paid(d, m) /\ d.footer = <<>> /\ d.signature = <<>>

\* The message looks right behind the payload.
LEMMA LooksPaid ==
    ASSUME NEW d, NEW e, NEW m, Looks(d, m, 8), HasPayload(d, e, m)
    PROVE  PaidFor(e, m)
<1>1. Kept(d, e, {"sizes", "dsms"}) /\ e.sizes = ReceivedSizes(m) /\ e.dsms = ReceivedAll(m)
  BY DEF HasPayload
<1>2. /\ d.on = FeaturesBy(m, 8) /\ d.version = m.version /\ d.pubType = m.pubType /\ d.nmType = m.nmType
      /\ Over(NoNumbers, d.val, NumbersBy(m, 8), m)
      /\ d.pubString = PublisherString(m)
      /\ d.footer = <<>> /\ d.signature = <<>>
  BY DEF Looks
<1>3. /\ d.count = IF "payloadHeader" \in m.on THEN Len(m.ids) ELSE 0
      /\ d.ids = Present(m.ids, "payloadHeader" \in m.on)
      /\ d.promoted = Present(m.promoted, "promoted" \in m.on)
      /\ d.nonce = Present(m.nonce, "security" \in m.on)
  BY DEF Looks, Present
<1> QED
  BY <1>1, <1>2, <1>3 DEF PaidFor, Paid, Kept, Members

\* The message looks right behind the trailer.
LEMMA LooksReceived ==
    ASSUME NEW d, NEW e, NEW m, PaidFor(d, m), HasTrailer(d, e, m)
    PROVE  Received(e, m)
<1>1. Kept(d, e, {"footer", "signature"})
  BY DEF HasTrailer
<1>2. e.footer = Present(m.footer, HasFooter(m)) /\ e.signature = Present(m.signature, HasSignature(m))
  BY DEF HasTrailer, PaidFor, Present
<1> QED
  BY <1>1, <1>2 DEF Received, PaidFor, Paid, Kept, Members

\* The decoder knows how many DataSetMessages there are, and what is behind them.
LEMMA LooksCount ==
    ASSUME NEW d, NEW m, Looks(d, m, 8)
    PROVE  PayloadCount(d) = DSMCount(m) /\ d.sizes = <<>> /\ d.dsms = <<>>
<1>1. "payloadHeader" \in d.on <=> "payloadHeader" \in m.on
  BY LooksCtx, FlagsKnown
<1>2. d.count = (IF "payloadHeader" \in m.on THEN Len(m.ids) ELSE 0) /\ d.sizes = <<>> /\ d.dsms = <<>>
  BY DEF Looks
<1> QED
  BY <1>1, <1>2 DEF PayloadCount, DSMCount

\* The decoder has what it needs to read the trailer.
LEMMA PaidSecured ==
    ASSUME NEW d, NEW m \in NetworkMessages, PaidFor(d, m)
    PROVE  Secured(d, m)
<1>1. d.on = FeaturesBy(m, 8) /\ Over(NoNumbers, d.val, NumbersBy(m, 8), m)
  BY DEF PaidFor, Paid
<1>2. d.on = (m.on \cap InFlags) \cup InGroup(m) \cup InSecurity(m)
  BY <1>1 DEF FeaturesBy
<1>3. /\ "security" \in d.on <=> "security" \in m.on
      /\ "footer" \in d.on <=> HasFooter(m)
      /\ "signed" \in d.on <=> HasSignature(m)
  BY <1>2 DEF InFlags, InGroup, InSecurity, HasFooter, HasSignature, NMFlags, Ext1Flags, Ext2Flags,
              GroupFlags, SecurityFlags
<1>4. HasFooter(m) => "footerSize" \in NumbersBy(m, 8)
  BY DEF HasFooter, NumbersBy, SecurityNumbers
<1>5. HasFooter(m) => d.val["footerSize"] = m.val["footerSize"]
  BY <1>1, <1>4 DEF Over, NMFields
<1> QED
  BY <1>3, <1>5 DEF Secured

---------------------------------------------------------------------------
(* The whole message. *)

\* Everything but the trailer is read back.
LEMMA PayloadStage ==
    ASSUME NEW src \in Seq(Octet), NEW m \in NetworkMessages, m.nmType = 0, AllEncodable(m),
           NEW a, NEW r, Stage(src, a, r, m, 8),
           Follows(src, 0, a \o PayloadBytes(m)), NEW x, x = DecodePayload(src, r)
    PROVE  /\ Reached(src, 0, a \o PayloadBytes(m), x) /\ a \o PayloadBytes(m) \in Seq(Octet)
           /\ x \in States(src) /\ (x.rv = "Good" => PaidFor(x.dst, m))
<1> DEFINE b == PayloadBytes(m)
<1>1. b \in Seq(Octet)
  BY PayloadPiece, PieceType
<1>2. EarlyState(src, r) /\ Reached(src, 0, a, r) /\ a \in Seq(Octet) /\ r \in States(src) /\ 0 \in Nat
  BY DEF Stage, EarlyState
<1>3. x \in States(src)
  BY <1>2, DecodePayloadType DEF TidyState
<1>4. r.rv # "Good" => x.rv # "Good"
  BY DEF DecodePayload, Then
<1>5. Follows(src, 0, a \o b)
  OBVIOUS
<1>6. ASSUME r.rv = "Good"
      PROVE  Reached(src, r.pos, b, x) /\ (x.rv = "Good" => PaidFor(x.dst, m))
  <2>1. Looks(r.dst, m, 8) /\ Ctx(r.dst, m)
    BY <1>6, LooksCtx DEF Stage
  <2>2. PayloadCount(r.dst) = DSMCount(m) /\ r.dst.sizes = <<>> /\ r.dst.dsms = <<>>
    BY <2>1, LooksCount
  <2>3. Follows(src, r.pos, PayloadBytes(m))
    <3> HIDE DEF b
    <3>1. Follows(src, r.pos, b)
      BY <1>1, <1>2, <1>5, <1>6, BehindRead
    <3> QED
      BY <3>1 DEF b
  <2>4. Reached(src, r.pos, PayloadBytes(m), x) /\ (x.rv = "Good" => HasPayload(r.dst, x.dst, m))
    BY <1>2, <1>6, <2>1, <2>2, <2>3, PayloadReads
  <2> QED
    BY <2>1, <2>4, LooksPaid
<1> HIDE DEF b
<1>7. Reached(src, 0, a \o b, x) /\ a \o b \in Seq(Octet) /\ (x.rv = "Good" => r.rv = "Good")
  BY <1>1, <1>2, <1>4, <1>5, <1>6, Chain
<1> QED
  BY <1>3, <1>6, <1>7 DEF b

\* The trailer is read back.
LEMMA TrailerStage ==
    ASSUME NEW src \in Seq(Octet), NEW m \in NetworkMessages, ~EndlessFooter(m),
           NEW a \in Seq(Octet), NEW r \in States(src), Reached(src, 0, a, r),
           r.rv = "Good" => PaidFor(r.dst, m),
           Follows(src, 0, a \o TrailerBytes(m)), NEW x, x = DecodeTrailer(src, r)
    PROVE  Reached(src, 0, a \o TrailerBytes(m), x) /\ (x.rv = "Good" => Received(x.dst, m))
<1> DEFINE b == TrailerBytes(m)
<1>1. b \in Seq(Octet) /\ 0 \in Nat
  BY TrailerPiece, PieceType
<1>2. r.rv # "Good" => x.rv # "Good"
  BY DEF DecodeTrailer, When
<1>3. Follows(src, 0, a \o b)
  OBVIOUS
<1>4. ASSUME r.rv = "Good"
      PROVE  Reached(src, r.pos, b, x) /\ (x.rv = "Good" => Received(x.dst, m))
  <2>1. PaidFor(r.dst, m) /\ Secured(r.dst, m)
    BY <1>4, PaidSecured
  <2>2. Follows(src, r.pos, TrailerBytes(m))
    <3> HIDE DEF b
    <3>1. Follows(src, r.pos, b)
      BY <1>1, <1>3, <1>4, BehindRead
    <3> QED
      BY <3>1 DEF b
  <2>3. Reached(src, r.pos, TrailerBytes(m), x) /\ (x.rv = "Good" => HasTrailer(r.dst, x.dst, m))
    BY <1>4, <2>1, <2>2, TrailerReads
  <2> QED
    BY <2>1, <2>3, LooksReceived
<1> HIDE DEF b
<1>5. Reached(src, 0, a \o b, x) /\ a \o b \in Seq(Octet) /\ (x.rv = "Good" => r.rv = "Good")
  BY <1>1, <1>2, <1>3, <1>4, Chain
<1> QED
  BY <1>4, <1>5 DEF b

\* UA_NetworkMessage_decodeBinary reads back what UA_NetworkMessage_encodeBinary
\* has written of a message both sides implement, whatever is behind it in the
\* buffer, and refuses every buffer that ends before the message does.
THEOREM MessageReads ==
    ASSUME NEW src \in Seq(Octet), NEW m \in NetworkMessages, Sendable(m),
           "promoted" \in m.on => PromotedSize(m) < 65536,
           Follows(src, 0, MessageBytes(m)), NEW x, x = DecodeInternal(src)
    PROVE  /\ Reached(src, 0, MessageBytes(m), x)
           /\ x.rv = "Good" => Received(x.dst, m)
<1> DEFINE flags   == DecodeFlags(src)
           pub     == DecodePublisherId(src, flags)
           class   == ReadSection(src, pub, ClassLayout)
           group   == DecodeGroupHeader(src, class)
           header  == DecodePayloadHeader(src, group)
           stamps  == ReadSection(src, header, StampLayout)
           prom    == DecodePromoted(src, stamps)
           sec     == DecodeSecurityHeader(src, prom)
           payload == DecodePayload(src, sec)
           b1 == FlagsBytes(m)
           b2 == b1 \o PublisherBytes(m)
           b3 == b2 \o ClassBytes(m)
           b4 == b3 \o GroupBytes(m)
           b5 == b4 \o WriterBytes(m)
           b6 == b5 \o StampBytes(m)
           b7 == b6 \o PromotedBytes(m)
           b8 == b7 \o SecurityBytes(m)
           b9 == b8 \o PayloadBytes(m)
           bx == b9 \o TrailerBytes(m)
<1>1. m.nmType = 0 /\ ~NoWriters(m) /\ AllEncodable(m) /\ ~EndlessFooter(m)
  BY DEF Sendable
<1>2. x = DecodeTrailer(src, payload)
  BY DEF DecodeInternal
<1>3. bx = MessageBytes(m)
  BY DEF MessageBytes
<1>4. Follows(src, 0, bx)
  BY <1>3
<1>5. /\ PublisherBytes(m) \in Seq(Octet) /\ ClassBytes(m) \in Seq(Octet) /\ GroupBytes(m) \in Seq(Octet)
      /\ StampBytes(m) \in Seq(Octet) /\ PromotedBytes(m) \in Seq(Octet) /\ SecurityBytes(m) \in Seq(Octet)
      /\ b1 \in Seq(Octet)
  BY FlagsPiece, PublisherPiece, ClassPiece, GroupPiece, StampPiece, PromotedPiece, SecurityPiece, PieceType
<1>6. WriterBytes(m) \in Seq(Octet) /\ PayloadBytes(m) \in Seq(Octet) /\ TrailerBytes(m) \in Seq(Octet)
  BY <1>1, WriterPiece, PayloadPiece, TrailerPiece, PieceType
<1>7. 0 \in Nat
  OBVIOUS
<1> HIDE DEF b1
<1>8. b2 \in Seq(Octet)
  BY <1>5
<1>9. b3 \in Seq(Octet)
  <2> HIDE DEF b2
  <2> QED
    BY <1>5, <1>8
<1>10. b4 \in Seq(Octet)
  <2> HIDE DEF b3
  <2> QED
    BY <1>5, <1>9
<1>11. b5 \in Seq(Octet)
  <2> HIDE DEF b4
  <2> QED
    BY <1>6, <1>10
<1>12. b6 \in Seq(Octet)
  <2> HIDE DEF b5
  <2> QED
    BY <1>5, <1>11
<1>13. b7 \in Seq(Octet)
  <2> HIDE DEF b6
  <2> QED
    BY <1>5, <1>12
<1>14. b8 \in Seq(Octet)
  <2> HIDE DEF b7
  <2> QED
    BY <1>5, <1>13
<1>15. b9 \in Seq(Octet)
  <2> HIDE DEF b8
  <2> QED
    BY <1>6, <1>14
<1>16. Follows(src, 0, b9)
  <2> HIDE DEF b9
  <2> QED
    BY <1>4, <1>6, <1>7, <1>15, FollowsFirst
<1>17. Follows(src, 0, b8)
  <2> HIDE DEF b8
  <2> QED
    BY <1>6, <1>7, <1>14, <1>16, FollowsFirst
<1>18. Follows(src, 0, b7)
  <2> HIDE DEF b7
  <2> QED
    BY <1>5, <1>7, <1>13, <1>17, FollowsFirst
<1>19. Follows(src, 0, b6)
  <2> HIDE DEF b6
  <2> QED
    BY <1>5, <1>7, <1>12, <1>18, FollowsFirst
<1>20. Follows(src, 0, b5)
  <2> HIDE DEF b5
  <2> QED
    BY <1>5, <1>7, <1>11, <1>19, FollowsFirst
<1>21. Follows(src, 0, b4)
  <2> HIDE DEF b4
  <2> QED
    BY <1>6, <1>7, <1>10, <1>20, FollowsFirst
<1>22. Follows(src, 0, b3)
  <2> HIDE DEF b3
  <2> QED
    BY <1>5, <1>7, <1>9, <1>21, FollowsFirst
<1>23. Follows(src, 0, b2)
  <2> HIDE DEF b2
  <2> QED
    BY <1>5, <1>7, <1>8, <1>22, FollowsFirst
<1>24. Follows(src, 0, b1)
  BY <1>5, <1>7, <1>23, FollowsFirst
<1>25. Stage(src, b1, flags, m, 1)
  BY <1>24, FlagsStage DEF b1
<1> HIDE DEF flags
<1>26. Stage(src, b2, pub, m, 2)
  BY <1>23, <1>25, PublisherStage
<1> HIDE DEF pub, b2
<1>27. Stage(src, b3, class, m, 3)
  BY <1>22, <1>26, ClassStage
<1> HIDE DEF class, b3
<1>28. Stage(src, b4, group, m, 4)
  BY <1>21, <1>27, GroupStage
<1> HIDE DEF group, b4
<1>29. Stage(src, b5, header, m, 5)
  BY <1>1, <1>20, <1>28, IdsStage
<1> HIDE DEF header, b5
<1>30. Stage(src, b6, stamps, m, 6)
  BY <1>19, <1>29, StampsStage
<1> HIDE DEF stamps, b6
<1>31. Stage(src, b7, prom, m, 7)
  BY <1>18, <1>30, PromotedStage
<1> HIDE DEF prom, b7
<1>32. Stage(src, b8, sec, m, 8)
  BY <1>17, <1>31, SecurityStage
<1> HIDE DEF sec, b8
<1>33. Reached(src, 0, b9, payload) /\ payload \in States(src) /\ (payload.rv = "Good" => PaidFor(payload.dst, m))
  BY <1>1, <1>16, <1>32, PayloadStage
<1> HIDE DEF payload, b9
<1>34. Reached(src, 0, bx, x) /\ (x.rv = "Good" => Received(x.dst, m))
  BY <1>1, <1>2, <1>4, <1>15, <1>33, TrailerStage
<1> HIDE DEF bx
<1> QED
  BY <1>3, <1>34

---------------------------------------------------------------------------
(* Messages of one packet. *)

\* A part of a byte string is not longer than the whole.
LEMMA PartFits ==
    ASSUME NEW a \in Seq(Octet), NEW b \in Seq(Octet), NEW c \in Seq(Octet)
    PROVE  Len(b) <= Len(a \o b \o c) /\ Len(b) \in Nat /\ a \o b \o c \in Seq(Octet)
OBVIOUS

\* Byte strings one behind the other are a byte string.
LEMMA FlattenBytes ==
    ASSUME NEW s \in Seq(Seq(Octet))
    PROVE  FlattenSeq(s) \in Seq(Octet)
<1>1. Joined(s, Len(s)) = FlattenSeq(s) /\ \A k \in 0..Len(s) : Joined(s, k) \in Seq(Octet)
  BY JoinedMore
<1>2. Len(s) \in 0..Len(s)
  OBVIOUS
<1> QED
  BY <1>1, <1>2

\* One of a number of byte strings is not longer than all of them.
LEMMA OneOfMany ==
    ASSUME NEW s \in Seq(Seq(Octet)), NEW i \in 1..Len(s), NEW t, t = FlattenSeq(s)
    PROVE  t \in Seq(Octet) /\ Len(s[i]) <= Len(t)
<1> DEFINE g == Stack(<<>>, s)
           n == Len(s)
           k == i - 1
<1>1. <<>> \in Seq(Octet)
  OBVIOUS
<1>2. Stacks(g, s, n) /\ g[n] = <<>> \o FlattenSeq(s) /\ n \in Nat
  BY <1>1, StackStacks
<1> HIDE DEF g
<1>3. k \in 0..n /\ i \in 0..n /\ n \in 0..n
  BY <1>2
<1>4. Starts(g[i], g[n]) /\ g[i] \in Seq(Octet) /\ g[n] \in Seq(Octet) /\ g[k] \in Seq(Octet)
  BY <1>2, <1>3, StacksStart
<1>5. s[i] \in Seq(Octet) /\ g[i] = g[k] \o s[i]
  BY <1>2 DEF Stacks
<1>6. Len(s[i]) <= Len(g[i])
  <2> DEFINE p == s[i]
             q == g[k]
  <2>1. p \in Seq(Octet) /\ q \in Seq(Octet) /\ g[i] = q \o p
    BY <1>4, <1>5
  <2> HIDE DEF p, q
  <2>2. Len(p) <= Len(q \o p)
    BY <2>1
  <2> QED
    BY <2>1, <2>2 DEF p
<1>7. g[n] = t
  <2>1. t \in Seq(Octet)
    BY FlattenBytes
  <2> QED
    BY <1>2, <2>1
<1>8. Len(g[i]) <= Len(g[n])
  BY <1>4 DEF Starts
<1> HIDE DEF n, k
<1>9. Len(s[i]) \in Nat /\ Len(g[i]) \in Nat /\ Len(g[n]) \in Nat
  <2> DEFINE p == s[i]
             q == g[i]
             r == g[n]
  <2>1. p \in Seq(Octet) /\ q \in Seq(Octet) /\ r \in Seq(Octet)
    BY <1>4, <1>5
  <2> HIDE DEF p, q, r
  <2>2. Len(p) \in Nat /\ Len(q) \in Nat /\ Len(r) \in Nat
    BY <2>1
  <2> QED
    BY <2>2 DEF p, q, r
<1> QED
  BY <1>4, <1>6, <1>7, <1>8, <1>9

\* The promoted fields and the payload are parts of the message.
LEMMA PartsFit ==
    ASSUME NEW m \in NetworkMessages, Sendable(m)
    PROVE  /\ PromotedBytes(m) \in Seq(Octet) /\ PayloadBytes(m) \in Seq(Octet)
           /\ Len(PromotedBytes(m)) <= Len(MessageBytes(m))
           /\ Len(PayloadBytes(m)) <= Len(MessageBytes(m))
<1> DEFINE b1 == FlagsBytes(m)
           b2 == PublisherBytes(m)
           b3 == ClassBytes(m)
           b4 == GroupBytes(m)
           b5 == WriterBytes(m)
           b6 == StampBytes(m)
           b7 == PromotedBytes(m)
           b8 == SecurityBytes(m)
           b9 == PayloadBytes(m)
           bx == TrailerBytes(m)
<1>1. m.nmType = 0 /\ ~NoWriters(m) /\ AllEncodable(m) /\ ~EndlessFooter(m)
  BY DEF Sendable
<1>2. /\ b1 \in Seq(Octet) /\ b2 \in Seq(Octet) /\ b3 \in Seq(Octet) /\ b4 \in Seq(Octet)
      /\ b6 \in Seq(Octet) /\ b7 \in Seq(Octet) /\ b8 \in Seq(Octet)
  BY FlagsPiece, PublisherPiece, ClassPiece, GroupPiece, StampPiece, PromotedPiece, SecurityPiece, PieceType
<1>3. b5 \in Seq(Octet) /\ b9 \in Seq(Octet) /\ bx \in Seq(Octet)
  BY <1>1, WriterPiece, PayloadPiece, TrailerPiece, PieceType
<1>4. MessageBytes(m) = b1 \o b2 \o b3 \o b4 \o b5 \o b6 \o b7 \o b8 \o b9 \o bx
  BY DEF MessageBytes
<1> HIDE DEF b1, b2, b3, b4, b5, b6, b7, b8, b9, bx
<1> DEFINE p == b1 \o b2 \o b3 \o b4 \o b5 \o b6
           q == p \o b7 \o b8
<1>5. p \in Seq(Octet)
  BY <1>2, <1>3
<1>6. MessageBytes(m) = q \o b9 \o bx
  BY <1>4
<1>7. q \in Seq(Octet) /\ Len(b7) \in Nat /\ Len(b7) <= Len(q)
  <2> HIDE DEF p
  <2> QED
    BY <1>2, <1>5, PartFits
<1> HIDE DEF q
<1>8. Len(b9) <= Len(q \o b9 \o bx) /\ Len(q) <= Len(q \o b9 \o bx)
  BY <1>3, <1>7
<1>9. Len(b7) <= Len(MessageBytes(m)) /\ Len(b9) <= Len(MessageBytes(m))
  BY <1>3, <1>6, <1>7, <1>8
<1> QED
  BY <1>2, <1>3, <1>9 DEF b7, b9

\* In a message of less than 65536 bytes the sizes of the promoted fields and of every
\* DataSetMessage can be written in two bytes.
LEMMA SizesOfPacket ==
    ASSUME NEW m \in NetworkMessages, Sendable(m), Len(MessageBytes(m)) < 65536
    PROVE  /\ "promoted" \in m.on => PromotedSize(m) < 65536
           /\ \A i \in 1..DSMCount(m) : DSMSize(m.dsms[i]) < 65536
<1> DEFINE l == Len(MessageBytes(m))
<1>1. l \in Nat
  BY MessagePiece, PieceType
<1>3. ASSUME "promoted" \in m.on
      PROVE  PromotedSize(m) < 65536
  <2> DEFINE f == FlattenSeq(PromotedOf(m))
             h == LE(PromotedSize(m) % 65536, 2)
  <2>1. PromotedOf(m) \in Seq(Seq(Octet)) /\ PromotedSize(m) \in Nat /\ Len(f) = PromotedSize(m)
    BY PromotedPiece
  <2>2. PromotedBytes(m) = h \o f
    BY <1>3 DEF PromotedBytes
  <2>3. f \in Seq(Octet)
    BY <2>1, FlattenBytes
  <2>4. h \in Seq(Octet)
    <3> DEFINE z == PromotedSize(m) % 65536
    <3>1. z \in Nat
      BY <2>1, SMT
    <3> HIDE DEF z
    <3>2. LE(z, 2) \in Seq(Octet)
      BY <3>1, LEType
    <3> QED
      BY <3>2 DEF z
  <2> HIDE DEF f, h
  <2>5. Len(f) <= Len(h \o f) /\ Len(h \o f) \in Nat
    BY <2>3, <2>4
  <2>6. Len(PromotedBytes(m)) <= l
    BY PartsFit
  <2> HIDE DEF l
  <2> QED
    BY <1>1, <2>1, <2>2, <2>5, <2>6, SMT DEF l
<1>4. ASSUME NEW i \in 1..DSMCount(m)
      PROVE  DSMSize(m.dsms[i]) < 65536
  <2> DEFINE d == m.dsms[i]
             s == DSMsOf(m)
             f == FlattenSeq(s)
             t == TableBytes(m)
  <2>1. d \in DataSetMessages /\ Encodable(d) /\ m.nmType = 0 /\ AllEncodable(m)
    BY SizesFit DEF Sendable, AllEncodable
  <2>2. Len(DSMBytes(d)) = DSMSize(d) /\ DSMSize(d) \in Nat
    BY <2>1, DSMPiece DEF Piece
  <2>3. s \in Seq(Seq(Octet)) /\ Len(s) = DSMCount(m)
    BY <2>1, PayloadPiece
  <2>4. s[i] = DSMBytes(d)
    BY DEF DSMsOf
  <2>5. f \in Seq(Octet) /\ Len(s[i]) <= Len(f)
    BY <2>3, OneOfMany
  <2>6. PayloadBytes(m) = t \o f
    BY DEF PayloadBytes
  <2>7. t \in Seq(Octet)
    BY TableType
  <2>8. Len(PayloadBytes(m)) <= l
    BY PartsFit
  <2> HIDE DEF f, t, s
  <2>9. Len(f) <= Len(t \o f) /\ Len(f) \in Nat /\ Len(t \o f) \in Nat
    BY <2>5, <2>7
  <2> HIDE DEF d, l
  <2>10. DSMSize(d) < 65536
    BY <1>1, <2>2, <2>4, <2>5, <2>6, <2>8, <2>9, SMT DEF l
  <2> QED
    BY <2>10 DEF d
<1> QED
  BY <1>3, <1>4
=============================================================================
