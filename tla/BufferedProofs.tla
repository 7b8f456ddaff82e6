--------------------------- MODULE BufferedProofs ---------------------------
(***************************************************************************)
(* The theorems of BufferedPath, for every set of messages, of numbers and *)
(* of receive buffers.  What is sent is, byte for byte, the encoding of    *)
(* the message as it is now, since an update writes every span in which    *)
(* the two differ (UpdateWrites).  What is received has the same spans     *)
(* again (DeliveredPieces), one for each field, and so an update in place  *)
(* stays within the fields (ReadWithin).  It makes the message what        *)
(* decoding would have given, or tears it where the datagram ends          *)
(* (UpdateWalks).                                                          *)
(***************************************************************************)
EXTENDS BufferedPath, LayoutProofs

---------------------------------------------------------------------------
(* What the publisher's update writes. *)

\* So it does when every changing value has an offset of its own.
LEMMA WriteableWrites ==
    ASSUME NEW m, Writeable(m), DSMCount(m) <= Len(m.dsms), DSMCount(m) \in Nat, Len(m.dsms) \in Nat,
           \A i \in 1..Len(m.dsms) : Len(m.dsms[i].fields) \in Nat /\ DOMAIN m.dsms[i].fields = 1..Len(m.dsms[i].fields),
           DOMAIN m.dsms = 1..Len(m.dsms)
    PROVE  WritesMarked(m)
<1> SUFFICES ASSUME NEW s \in Spans, NEW pos \in Nat, Legal(s, m, FALSE), s.mark # Unmarked
             PROVE  s.mark \in Writable /\ NewContent(OffsetAt(s, pos), m) = Marked(s, m)
  BY DEF WritesMarked
<1> DEFINE o == OffsetAt(s, pos)
<1>1. o.type = s.mark /\ o.dsm = s.dsm /\ o.field = s.field
  BY DEF OffsetAt
<1>2. s.mark \in Writable
  BY DEF Legal, Spans, Marks, Writeable, Unmarked, PublisherIdOffset, GroupIdOffset, WriterIdOffset,
         TimestampOffset, PicosecondsOffset
<1> HIDE DEF o
<1>3. CASE s.mark = SequenceOffset
  <2>1. NewContent(o, m) = LE(m.val["sequenceNumber"], 2)
    BY <1>1, <1>3 DEF NewContent, SequenceOffset, DSMSequenceOffset, DataValueOffset, VariantOffset
  <2>2. Marked(s, m) = LE(m.val["sequenceNumber"], 2)
    BY <1>3 DEF Marked, SequenceOffset, DSMSequenceOffset, DataValueOffset, VariantOffset, PublisherIdOffset,
                    GroupIdOffset, WriterIdOffset, TimestampOffset, PicosecondsOffset
  <2> QED
    BY <1>2, <2>1, <2>2 DEF o
<1>4. CASE s.mark = DSMSequenceOffset
  <2>1. NewContent(o, m) = LE(m.dsms[s.dsm].val["sequenceNr"], 2)
    BY <1>1, <1>4 DEF NewContent, SequenceOffset, DSMSequenceOffset, DataValueOffset, VariantOffset
  <2>2. Marked(s, m) = LE(m.dsms[s.dsm].val["sequenceNr"], 2)
    BY <1>4 DEF Marked, SequenceOffset, DSMSequenceOffset, DataValueOffset, VariantOffset, PublisherIdOffset,
                    GroupIdOffset, WriterIdOffset, TimestampOffset, PicosecondsOffset
  <2> QED
    BY <1>2, <2>1, <2>2 DEF o
<1>5. CASE s.mark \in {DataValueOffset, VariantOffset}
  <2> DEFINE d == m.dsms[s.dsm]
  <2>1. s.dsm \in 1..Len(m.dsms) /\ s.field \in 1..Len(d.fields)
        /\ (s.mark = DataValueOffset => d.enc = DataValueEncoding)
    BY <1>5 DEF Legal
  <2>2. ScalarFields(d) /\ Len(d.fields) \in Nat /\ DOMAIN d.fields = 1..Len(d.fields)
    BY <2>1 DEF Writeable
  <2> DEFINE v == d.fields[s.field].value
  <2>3. ~(v.arr /\ v.data # <<>>) /\ (d.enc = DataValueEncoding => Len(d.fields) <= 1)
    BY <2>1, <2>2 DEF ScalarFields
  <2>4. CASE s.mark = DataValueOffset
    <3>1. s.field = 1
      BY <2>1, <2>2, <2>3, <2>4
    <3>2. NewContent(o, m) = EncodeDataValue(d.fields[1])
      BY <1>1, <2>4 DEF NewContent, SequenceOffset, DSMSequenceOffset, DataValueOffset, VariantOffset
    <3>3. Marked(s, m) = EncodeDataValue(d.fields[s.field])
      BY <2>4 DEF Marked, SequenceOffset, DSMSequenceOffset, DataValueOffset, PublisherIdOffset, GroupIdOffset,
                  WriterIdOffset, TimestampOffset, PicosecondsOffset, VariantOffset
    <3> QED
      BY <1>2, <3>1, <3>2, <3>3 DEF o
  <2>5. CASE s.mark = VariantOffset
    <3>1. AsScalar(v) = v
      BY <2>3 DEF AsScalar
    <3>2. NewContent(o, m) = EncodeVariant(AsScalar(v))
      BY <1>1, <2>5 DEF NewContent, SequenceOffset, DSMSequenceOffset, DataValueOffset, VariantOffset
    <3>3. Marked(s, m) = EncodeVariant(v)
      BY <2>5 DEF Marked, SequenceOffset, DSMSequenceOffset, DataValueOffset, PublisherIdOffset, GroupIdOffset,
                  WriterIdOffset, TimestampOffset, PicosecondsOffset, VariantOffset
    <3> QED
      BY <1>2, <3>1, <3>2, <3>3 DEF o
  <2> QED
    BY <1>5, <2>4, <2>5
<1> QED
  BY <1>2, <1>3, <1>4, <1>5 DEF Writable, o

\* The publisher's update makes the encoding of the one message that of the other.
LEMMA UpdateWrites ==
    ASSUME NEW m \in NetworkMessages, NEW w \in NetworkMessages, Alike(m, w), Sendable(w), Writeable(w),
           NEW O, O = PublisherOffsets(w), NEW u, u = UpdateBufferedMessage(MessageBytes(m), O, w)
    PROVE  u.rv = "Good" /\ u.out = MessageBytes(w)
<1> DEFINE x == MessageBytes(m)
           y == MessageBytes(w)
           P == MessagePieces(w, FALSE)
<1>1. PICK q : Along(x, y, w, P, q, FALSE)
  BY MessageAlong
<1>2. O = Noting(P).offsets
  BY DEF Offsets, PublisherOffsets
<1>3. WritesMarked(w)
  <2>1. /\ w.dsms \in Seq(DataSetMessages) /\ DSMCount(w) <= Len(w.dsms) /\ DSMCount(w) \in Nat
    BY MessageHas
  <2>2. Len(w.dsms) \in Nat /\ DOMAIN w.dsms = 1..Len(w.dsms)
    BY <2>1
  <2>3. ASSUME NEW i \in 1..Len(w.dsms)
        PROVE  Len(w.dsms[i].fields) \in Nat /\ DOMAIN w.dsms[i].fields = 1..Len(w.dsms[i].fields)
    <3>1. w.dsms[i] \in DataSetMessages
      BY <2>1
    <3>2. w.dsms[i].fields \in Seq(DataValues) \cup Seq(DeltaFields)
      BY <3>1 DEF DataSetMessages
    <3> QED
      BY <3>2
  <2> QED
    BY <2>1, <2>2, <2>3, WriteableWrites
<1>4. u = UpdateBufferedMessage(x, O, w)
  OBVIOUS
<1>5. Publishing(x, y, w, P, q)
  BY <1>1 DEF Publishing
<1> HIDE DEF x, y, P
<1>6. u.rv = "Good" /\ u.out = y
  BY <1>2, <1>3, <1>4, <1>5, WritesAll
<1> QED
  BY <1>6 DEF y

---------------------------------------------------------------------------
(* What the application changes. *)

\* A Variant as its parts.
VariantOf(type, arr, data) == [type |-> type, arr |-> arr, data |-> data]
IsVariant(v) == v = VariantOf(v.type, v.arr, v.data)

\* All Variants are.
LEMMA VariantsAre ==
    ASSUME NEW v \in Variants
    PROVE  IsVariant(v) /\ v.data = [k \in DOMAIN v.data |-> v.data[k]]
<1>1. CASE v = EmptyVariant
  BY <1>1 DEF EmptyVariant, IsVariant, VariantOf
<1>2. CASE v # EmptyVariant
  <2>1. v \in [type : 1..25, arr : BOOLEAN, data : Seq(Unsigned(4))]
    BY <1>2 DEF Variants
  <2>2. v = VariantOf(v.type, v.arr, v.data)
    BY <2>1 DEF VariantOf
  <2>3. v.data \in Seq(Unsigned(4))
    BY <2>1
  <2> DEFINE e == v.data
  <2>4. e \in Seq(Unsigned(4))
    BY <2>3
  <2> HIDE DEF e
  <2>5. e = [k \in DOMAIN e |-> e[k]]
    BY <2>4
  <2> QED
    BY <2>2, <2>5 DEF IsVariant, e
<1> QED
  BY <1>1, <1>2

\* A Variant with another number.
LEMMA NewVariantIs ==
    ASSUME NEW v, IsVariant(v), NEW n, NEW u, u = NewVariant(v, n)
    PROVE  /\ u.type = v.type /\ u.arr = v.arr /\ u.data = NewNumbers(v.data, n)
           /\ u = VariantOf(v.type, v.arr, NewNumbers(v.data, n)) /\ IsVariant(u)
<1> DEFINE e == NewNumbers(v.data, n)
<1>1. u = [v EXCEPT !.data = e]
  BY DEF NewVariant
<1> HIDE DEF e
<1>2. v = [type |-> v.type, arr |-> v.arr, data |-> v.data]
  BY DEF IsVariant, VariantOf
<1>3. DOMAIN v = {"type", "arr", "data"}
  BY <1>2
<1>4. u.type = v.type /\ u.arr = v.arr /\ u.data = e
  BY <1>1, <1>3
<1>5. u = [f \in {"type", "arr", "data"} |-> u[f]]
  BY <1>1, <1>3
<1>6. u = [type |-> v.type, arr |-> v.arr, data |-> e]
  <2> DEFINE r == [type |-> v.type, arr |-> v.arr, data |-> e]
  <2>1. r = [f \in {"type", "arr", "data"} |-> r[f]] /\ r.type = u.type /\ r.arr = u.arr /\ r.data = u.data
    BY <1>4
  <2> HIDE DEF r
  <2> QED
    BY <1>5, <2>1 DEF r
<1> QED
  BY <1>4, <1>6 DEF e, IsVariant, VariantOf

\* The numbers written last are those that stay.
LEMMA NewVariantTwice ==
    ASSUME NEW v, IsVariant(v), NEW n, NEW k
    PROVE  NewVariant(NewVariant(v, n), k) = NewVariant(v, k)
<1> DEFINE u == NewVariant(v, n)
<1>1. u.type = v.type /\ u.arr = v.arr /\ u.data = NewNumbers(v.data, n) /\ IsVariant(u)
  BY NewVariantIs
<1>2. NewNumbers(NewNumbers(v.data, n), k) = NewNumbers(v.data, k)
  BY DEF NewNumbers
<1> HIDE DEF u
<1>3. NewVariant(u, k) = VariantOf(u.type, u.arr, NewNumbers(u.data, k))
  BY <1>1, NewVariantIs
<1>4. NewVariant(v, k) = VariantOf(v.type, v.arr, NewNumbers(v.data, k))
  BY NewVariantIs
<1>5. NewVariant(u, k) = NewVariant(v, k)
  BY <1>1, <1>2, <1>3, <1>4
<1> QED
  BY <1>5 DEF u

\* A field with another number.
FieldOf(on, value, val) == [on |-> on, value |-> value, val |-> val]
IsField(f) == f = FieldOf(f.on, f.value, f.val) /\ IsVariant(f.value)

\* So is a DataValue.
LEMMA FieldsAre ==
    ASSUME NEW f \in DataValues
    PROVE  IsField(f)
<1>1. f.value \in Variants
  BY DataValueHas
<1>2. f = FieldOf(f.on, f.value, f.val)
  BY DEF DataValues, FieldOf
<1> QED
  BY <1>1, <1>2, VariantsAre DEF IsField

\* A field with other numbers.
LEMMA NewFieldIs ==
    ASSUME NEW f, IsField(f), NEW n, NEW g, g = NewField(f, n)
    PROVE  /\ g.on = f.on /\ g.val = f.val /\ g.value = NewVariant(f.value, n)
           /\ g = FieldOf(f.on, NewVariant(f.value, n), f.val) /\ IsField(g)
<1> DEFINE u == NewVariant(f.value, n)
<1>1. g = [f EXCEPT !.value = u]
  BY DEF NewField
<1>2. IsVariant(u)
  BY NewVariantIs DEF IsField
<1> HIDE DEF u
<1>3. f = [on |-> f.on, value |-> f.value, val |-> f.val]
  BY DEF IsField, FieldOf
<1>4. DOMAIN f = {"on", "value", "val"}
  BY <1>3
<1>5. g.on = f.on /\ g.val = f.val /\ g.value = u
  BY <1>1, <1>4
<1>6. g = [x \in {"on", "value", "val"} |-> g[x]]
  BY <1>1, <1>4
<1>7. g = [on |-> f.on, value |-> u, val |-> f.val]
  <2> DEFINE r == [on |-> f.on, value |-> u, val |-> f.val]
  <2>1. r = [x \in {"on", "value", "val"} |-> r[x]] /\ r.on = g.on /\ r.value = g.value /\ r.val = g.val
    BY <1>5
  <2> HIDE DEF r
  <2> QED
    BY <1>6, <2>1 DEF r
<1> QED
  BY <1>2, <1>5, <1>7 DEF u, IsField, FieldOf

\* Other numbers once more: only the last ones count.
LEMMA NewFieldTwice ==
    ASSUME NEW f, IsField(f), NEW n, NEW k
    PROVE  NewField(NewField(f, n), k) = NewField(f, k)
<1> DEFINE g == NewField(f, n)
<1>1. g.on = f.on /\ g.val = f.val /\ g.value = NewVariant(f.value, n) /\ IsField(g)
  BY NewFieldIs
<1> HIDE DEF g
<1>2. NewField(g, k) = FieldOf(g.on, NewVariant(g.value, k), g.val)
  BY <1>1, NewFieldIs
<1>3. NewField(f, k) = FieldOf(f.on, NewVariant(f.value, k), f.val)
  BY NewFieldIs
<1>4. NewVariant(g.value, k) = NewVariant(f.value, k)
  BY <1>1, NewVariantTwice DEF IsField
<1>5. NewField(g, k) = NewField(f, k)
  BY <1>1, <1>2, <1>3, <1>4
<1> QED
  BY <1>5 DEF g

\* A number written twice.
LEMMA SetFieldTwice ==
    ASSUME NEW v, NEW f, NEW n, NEW k
    PROVE  SetField(SetField(v, f, n), f, k) = SetField(v, f, k)
<1>1. SetField(v, f, n) = [x \in DOMAIN v |-> IF x = f THEN n ELSE v[x]]
  BY DEF SetField
<1>2. SetField(SetField(v, f, n), f, k) = [x \in DOMAIN v |-> IF x = f THEN k ELSE SetField(v, f, n)[x]]
  BY <1>1 DEF SetField
<1>3. SetField(v, f, k) = [x \in DOMAIN v |-> IF x = f THEN k ELSE v[x]]
  BY DEF SetField
<1> QED
  BY <1>1, <1>2, <1>3

\* A DataSetMessage as its parts, and with other numbers.
DSMOf(on, type, enc, val, fields) == [on |-> on, type |-> type, enc |-> enc, val |-> val, fields |-> fields]
IsDSM(d) ==
    /\ d = DSMOf(d.on, d.type, d.enc, d.val, d.fields)
    /\ d.type = KeyFrame => \A i \in DOMAIN d.fields : IsField(d.fields[i])

\* A DataSetMessage is the record of its parts.
LEMMA DSMsAre ==
    ASSUME NEW d \in DataSetMessages
    PROVE  IsDSM(d)
<1>1. d = DSMOf(d.on, d.type, d.enc, d.val, d.fields)
  BY DEF DataSetMessages, DSMOf
<1>2. ASSUME d.type = KeyFrame
      PROVE  \A i \in DOMAIN d.fields : IsField(d.fields[i])
  <2> DEFINE s == d.fields
  <2>1. s \in Seq(DataValues)
    BY <1>2, DSMHas
  <2> HIDE DEF s
  <2>2. \A i \in DOMAIN s : IsField(s[i])
    BY <2>1, FieldsAre
  <2> QED
    BY <2>2 DEF s
<1> QED
  BY <1>1, <1>2 DEF IsDSM

\* A DataSetMessage with other numbers.
LEMMA NewDSMIs ==
    ASSUME NEW d, IsDSM(d), NEW n, NEW e, e = NewDSM(d, n)
    PROVE  /\ e.on = d.on /\ e.type = d.type /\ e.enc = d.enc /\ e.val = SetField(d.val, "sequenceNr", n)
           /\ e.fields = NewFields(d, n) /\ IsDSM(e)
           /\ e = DSMOf(d.on, d.type, d.enc, SetField(d.val, "sequenceNr", n), NewFields(d, n))
<1> DEFINE v == SetField(d.val, "sequenceNr", n)
           s == NewFields(d, n)
           F == {"on", "type", "enc", "val", "fields"}
<1>1. e = [d EXCEPT !.val = v, !.fields = s]
  BY DEF NewDSM, SetField
<1>2. d = [on |-> d.on, type |-> d.type, enc |-> d.enc, val |-> d.val, fields |-> d.fields]
  BY DEF IsDSM, DSMOf
<1> HIDE DEF v, s
<1>3. DOMAIN d = F
  BY <1>2
<1>4. e.on = d.on /\ e.type = d.type /\ e.enc = d.enc /\ e.val = v /\ e.fields = s
  BY <1>1, <1>3
<1>5. e = [f \in F |-> e[f]]
  BY <1>1, <1>3
<1>6. e = DSMOf(d.on, d.type, d.enc, v, s)
  <2> DEFINE r == DSMOf(d.on, d.type, d.enc, v, s)
  <2>1. r = [f \in F |-> r[f]] /\ r.on = e.on /\ r.type = e.type /\ r.enc = e.enc /\ r.val = e.val /\ r.fields = e.fields
    BY <1>4 DEF DSMOf
  <2> HIDE DEF r
  <2> QED
    BY <1>5, <2>1 DEF r
<1>7. ASSUME e.type = KeyFrame
      PROVE  \A i \in DOMAIN e.fields : IsField(e.fields[i])
  <2>1. s = [i \in DOMAIN d.fields |-> NewField(d.fields[i], n + i)]
    BY <1>4, <1>7 DEF s, NewFields
  <2>2. \A i \in DOMAIN d.fields : IsField(d.fields[i])
    BY <1>4, <1>7 DEF IsDSM
  <2>3. \A i \in DOMAIN d.fields : IsField(NewField(d.fields[i], n + i))
    BY <2>2, NewFieldIs
  <2>4. \A i \in DOMAIN s : IsField(s[i])
    BY <2>1, <2>3
  <2> QED
    BY <1>4, <2>4
<1>8. IsDSM(e)
  BY <1>4, <1>6, <1>7 DEF IsDSM
<1> QED
  BY <1>4, <1>6, <1>8 DEF v, s

\* Only its last numbers count.
LEMMA NewDSMTwice ==
    ASSUME NEW d, IsDSM(d), NEW n, NEW k
    PROVE  NewDSM(NewDSM(d, n), k) = NewDSM(d, k)
<1> DEFINE e == NewDSM(d, n)
<1>1. /\ e.on = d.on /\ e.type = d.type /\ e.enc = d.enc /\ e.val = SetField(d.val, "sequenceNr", n)
      /\ e.fields = NewFields(d, n) /\ IsDSM(e)
  BY NewDSMIs
<1> HIDE DEF e
<1>2. NewDSM(e, k) = DSMOf(e.on, e.type, e.enc, SetField(e.val, "sequenceNr", k), NewFields(e, k))
  BY <1>1, NewDSMIs
<1>3. NewDSM(d, k) = DSMOf(d.on, d.type, d.enc, SetField(d.val, "sequenceNr", k), NewFields(d, k))
  BY NewDSMIs
<1>4. SetField(e.val, "sequenceNr", k) = SetField(d.val, "sequenceNr", k)
  BY <1>1, SetFieldTwice
<1>5. NewFields(e, k) = NewFields(d, k)
  <2>1. CASE d.type # KeyFrame
    BY <1>1, <2>1 DEF NewFields
  <2>2. CASE d.type = KeyFrame
    <3>1. e.fields = [i \in DOMAIN d.fields |-> NewField(d.fields[i], n + i)]
      BY <1>1, <2>2 DEF NewFields
    <3>2. \A i \in DOMAIN d.fields : IsField(d.fields[i])
      BY <2>2 DEF IsDSM
    <3>3. /\ NewFields(e, k) = [i \in DOMAIN e.fields |-> NewField(e.fields[i], k + i)]
          /\ NewFields(d, k) = [i \in DOMAIN d.fields |-> NewField(d.fields[i], k + i)]
      BY <1>1, <2>2 DEF NewFields
    <3>4. DOMAIN e.fields = DOMAIN d.fields /\ \A i \in DOMAIN d.fields : e.fields[i] = NewField(d.fields[i], n + i)
      BY <3>1
    <3>5. \A i \in DOMAIN d.fields : NewField(e.fields[i], k + i) = NewField(d.fields[i], k + i)
      BY <3>2, <3>4, NewFieldTwice
    <3> QED
      BY <3>3, <3>4, <3>5
  <2> QED
    BY <2>1, <2>2
<1>6. NewDSM(e, k) = NewDSM(d, k)
  BY <1>1, <1>2, <1>3, <1>4, <1>5
<1> QED
  BY <1>6 DEF e

---------------------------------------------------------------------------
(* A message with other numbers. *)

\* The parts of a message.
MessageParts == {"on", "version", "pubType", "nmType", "val", "pubString", "nonce", "footer",
                 "signature", "ids", "sizes", "promoted", "dsms"}
IsMessage(m) == m = [f \in MessageParts |-> m[f]] /\ \A i \in DOMAIN m.dsms : IsDSM(m.dsms[i])

\* A NetworkMessage is the record of its parts.
LEMMA MessagesAre ==
    ASSUME NEW m \in NetworkMessages
    PROVE  IsMessage(m)
<1>1. m = [f \in MessageParts |-> m[f]]
  BY DEF NetworkMessages, MessageParts
<1>2. \A i \in DOMAIN m.dsms : IsDSM(m.dsms[i])
  <2> DEFINE s == m.dsms
  <2>1. s \in Seq(DataSetMessages)
    BY MessageHas
  <2> HIDE DEF s
  <2>2. \A i \in DOMAIN s : IsDSM(s[i])
    BY <2>1, DSMsAre
  <2> QED
    BY <2>2 DEF s
<1> QED
  BY <1>1, <1>2 DEF IsMessage

\* What stays of a message.
KeptAsWas(r, m) == \A f \in MessageParts \ {"val", "dsms"} : r[f] = m[f]

\* A message with other numbers keeps everything else.
LEMMA RenewedIs ==
    ASSUME NEW m, IsMessage(m), NEW n, NEW r, r = Renewed(m, n)
    PROVE  /\ KeptAsWas(r, m) /\ r.val = SetField(m.val, "sequenceNumber", n) /\ r.dsms = NewDSMs(m.dsms, n)
           /\ IsMessage(r)
<1> DEFINE v == SetField(m.val, "sequenceNumber", n)
           s == NewDSMs(m.dsms, n)
<1>1. r = [m EXCEPT !.val = v, !.dsms = s]
  BY DEF Renewed, SetField
<1> HIDE DEF v, s
<1>2. DOMAIN m = MessageParts
  BY DEF IsMessage
<1>3. "val" \in MessageParts /\ "dsms" \in MessageParts
  BY DEF MessageParts
<1>4. r.val = v /\ r.dsms = s /\ r = [f \in MessageParts |-> r[f]]
  BY <1>1, <1>2, <1>3
<1>5. KeptAsWas(r, m)
  BY <1>1, <1>2 DEF KeptAsWas
<1>6. \A i \in DOMAIN s : IsDSM(s[i])
  <2>1. \A i \in DOMAIN m.dsms : IsDSM(m.dsms[i])
    BY DEF IsMessage
  <2>2. \A i \in DOMAIN m.dsms : IsDSM(NewDSM(m.dsms[i], n))
    BY <2>1, NewDSMIs
  <2> QED
    BY <2>2 DEF s, NewDSMs
<1> QED
  BY <1>4, <1>5, <1>6 DEF v, s, IsMessage

\* The numbers written last are those that stay.
LEMMA RenewedTwice ==
    ASSUME NEW m, IsMessage(m), NEW n, NEW k
    PROVE  Renewed(Renewed(m, n), k) = Renewed(m, k)
<1> DEFINE r == Renewed(m, n)
           q == Renewed(r, k)
           p == Renewed(m, k)
<1>1. KeptAsWas(r, m) /\ r.val = SetField(m.val, "sequenceNumber", n) /\ r.dsms = NewDSMs(m.dsms, n) /\ IsMessage(r)
  BY RenewedIs
<1>2. KeptAsWas(p, m) /\ p.val = SetField(m.val, "sequenceNumber", k) /\ p.dsms = NewDSMs(m.dsms, k) /\ IsMessage(p)
  BY RenewedIs
<1> HIDE DEF r, p
<1>3. KeptAsWas(q, r) /\ q.val = SetField(r.val, "sequenceNumber", k) /\ q.dsms = NewDSMs(r.dsms, k) /\ IsMessage(q)
  BY <1>1, RenewedIs
<1> HIDE DEF q
<1>4. q.val = p.val
  BY <1>1, <1>2, <1>3, SetFieldTwice
<1>5. q.dsms = p.dsms
  <2>1. DOMAIN r.dsms = DOMAIN m.dsms /\ \A i \in DOMAIN m.dsms : r.dsms[i] = NewDSM(m.dsms[i], n)
    BY <1>1 DEF NewDSMs
  <2>2. \A i \in DOMAIN m.dsms : NewDSM(r.dsms[i], k) = NewDSM(m.dsms[i], k)
    BY <2>1, NewDSMTwice DEF IsMessage
  <2> QED
    BY <1>2, <1>3, <2>1, <2>2 DEF NewDSMs
<1>6. \A f \in MessageParts : q[f] = p[f]
  BY <1>1, <1>2, <1>3, <1>4, <1>5 DEF KeptAsWas
<1>7. q = p
  BY <1>2, <1>3, <1>6 DEF IsMessage
<1> QED
  BY <1>7 DEF q, p, r

\* Other numbers are as many as there were.
LEMMA NumbersAsMany ==
    ASSUME NEW e \in Seq(Nat), NEW n
    PROVE  Len(NewNumbers(e, n)) = Len(e) /\ (NewNumbers(e, n) = <<>> <=> e = <<>>)
<1> DEFINE g == NewNumbers(e, n)
<1>1. g = [k \in 1..Len(e) |-> n] /\ Len(e) \in Nat
  BY DEF NewNumbers
<1>2. g \in Seq({n}) /\ Len(g) = Len(e)
  BY <1>1
<1> HIDE DEF g
<1>3. g = <<>> <=> e = <<>>
  BY <1>2
<1> QED
  BY <1>2, <1>3 DEF g

\* The data of a Variant are numbers.
LEMMA DataNumbers ==
    ASSUME NEW v \in Variants
    PROVE  v.data \in Seq(Nat)
<1>1. CASE v = EmptyVariant
  BY <1>1 DEF EmptyVariant
<1>2. CASE v # EmptyVariant
  <2>1. v \in [type : 1..25, arr : BOOLEAN, data : Seq(Unsigned(4))]
    BY <1>2 DEF Variants
  <2> DEFINE e == v.data
             T == Unsigned(4)
  <2>2. e \in Seq(T)
    BY <2>1
  <2>3. \A x \in T : x \in Nat
    BY DEF Unsigned
  <2> HIDE DEF e, T
  <2>4. e \in Seq(Nat)
    BY <2>2, <2>3
  <2> QED
    BY <2>4 DEF e
<1> QED
  BY <1>1, <1>2

\* A field stays alike, and an array stays an array.
ArrayField(f) == f.value.arr /\ f.value.data # <<>>

\* The numbers of a field do not change what it looks like.
LEMMA AlikeNewField ==
    ASSUME NEW f \in DataValues, NEW n, NEW g, g = NewField(f, n)
    PROVE  AlikeField(g, f) /\ (ArrayField(g) <=> ArrayField(f))
<1> DEFINE v == f.value
<1>1. IsField(f) /\ v \in Variants
  BY FieldsAre, DataValueHas
<1>2. g.on = f.on /\ g.val = f.val /\ g.value = NewVariant(v, n)
  BY <1>1, NewFieldIs
<1>3. IsVariant(v) /\ v.data \in Seq(Nat)
  BY <1>1, VariantsAre, DataNumbers
<1>4. g.value.type = v.type /\ g.value.arr = v.arr /\ g.value.data = NewNumbers(v.data, n)
  BY <1>2, <1>3, NewVariantIs
<1>5. Len(g.value.data) = Len(v.data) /\ (g.value.data = <<>> <=> v.data = <<>>)
  BY <1>3, <1>4, NumbersAsMany
<1> QED
  BY <1>2, <1>4, <1>5 DEF AlikeField, ArrayField

\* And so does a DataSetMessage.
LEMMA AlikeNewDSM ==
    ASSUME NEW d \in DataSetMessages, NEW n, NEW e, e = NewDSM(d, n)
    PROVE  AlikeDSM(e, d) /\ (ScalarFields(e) <=> ScalarFields(d))
<1>1. IsDSM(d)
  BY DSMsAre
<1>2. /\ e.on = d.on /\ e.type = d.type /\ e.enc = d.enc /\ e.val = SetField(d.val, "sequenceNr", n)
      /\ e.fields = NewFields(d, n)
  BY <1>1, NewDSMIs
<1>3. \A f \in DSMFields \ {"sequenceNr"} : e.val[f] = d.val[f]
  <2>1. d.val \in [DSMFields -> Nat]
    BY DSMHas
  <2>2. DOMAIN d.val = DSMFields
    BY <2>1
  <2> QED
    BY <1>2, <2>2 DEF SetField
<1>4. CASE d.type # KeyFrame
  <2>1. e.fields = d.fields
    BY <1>2, <1>4 DEF NewFields
  <2> QED
    BY <1>2, <1>3, <1>4, <2>1 DEF AlikeDSM, ScalarFields
<1>5. CASE d.type = KeyFrame
  <2> DEFINE s == d.fields
             t == e.fields
  <2>1. s \in Seq(DataValues)
    BY <1>5, DSMHas
  <2>2. t = [i \in DOMAIN s |-> NewField(s[i], n + i)]
    BY <1>2, <1>5 DEF NewFields
  <2> HIDE DEF s, t
  <2>3. Len(s) \in Nat /\ DOMAIN s = 1..Len(s)
    BY <2>1
  <2>4. \A i \in 1..Len(s) : AlikeField(t[i], s[i]) /\ (ArrayField(t[i]) <=> ArrayField(s[i]))
    <3> TAKE i \in 1..Len(s)
    <3>1. s[i] \in DataValues /\ t[i] = NewField(s[i], n + i)
      BY <2>1, <2>2, <2>3
    <3> QED
      BY <3>1, AlikeNewField
  <2>5. Len(t) = Len(s) /\ DOMAIN t = 1..Len(s)
    <3> DEFINE T == {t[i] : i \in 1..Len(s)}
    <3>1. t = [i \in 1..Len(s) |-> t[i]]
      BY <2>2, <2>3
    <3>2. t \in Seq(T)
      BY <2>3, <3>1
    <3> QED
      BY <2>3, <3>1, <3>2
  <2>6. AlikeDSM(e, d)
    BY <1>2, <1>3, <1>5, <2>4, <2>5 DEF AlikeDSM, s, t
  <2>7. ScalarFields(e) <=> ScalarFields(d)
    <3>1. \A x : ScalarFields(x) <=> /\ x.type = KeyFrame
                                     /\ \A i \in DOMAIN x.fields : ~ArrayField(x.fields[i])
                                     /\ x.enc = DataValueEncoding => Len(x.fields) <= 1
      BY DEF ScalarFields, ArrayField
    <3> QED
      BY <1>2, <1>5, <2>3, <2>4, <2>5, <3>1 DEF s, t
  <2> QED
    BY <2>6, <2>7
<1> QED
  BY <1>4, <1>5

\* And so does the message.
LEMMA AlikeRenewed ==
    ASSUME NEW m \in NetworkMessages, NEW n, NEW r, r = Renewed(m, n)
    PROVE  Alike(r, m) /\ (Writeable(r) <=> Writeable(m)) /\ r.on = m.on
<1>1. IsMessage(m)
  BY MessagesAre
<1>2. KeptAsWas(r, m) /\ r.val = SetField(m.val, "sequenceNumber", n) /\ r.dsms = NewDSMs(m.dsms, n)
  BY <1>1, RenewedIs
<1>3. /\ r.on = m.on /\ r.version = m.version /\ r.pubType = m.pubType /\ r.nmType = m.nmType
      /\ r.pubString = m.pubString /\ r.nonce = m.nonce /\ r.footer = m.footer
      /\ r.signature = m.signature /\ r.ids = m.ids /\ r.promoted = m.promoted /\ r.sizes = m.sizes
  BY <1>2 DEF KeptAsWas, MessageParts
<1>4. \A f \in NMFields \ {"sequenceNumber"} : r.val[f] = m.val[f]
  <2>1. m.val \in [NMFields -> Nat]
    BY MessageHas
  <2>2. DOMAIN m.val = NMFields
    BY <2>1
  <2> QED
    BY <1>2, <2>2 DEF SetField
<1> DEFINE s == m.dsms
           t == r.dsms
<1>5. s \in Seq(DataSetMessages) /\ t = [i \in DOMAIN s |-> NewDSM(s[i], n)]
  BY <1>2, MessageHas DEF NewDSMs
<1> HIDE DEF s, t
<1>6. Len(s) \in Nat /\ DOMAIN s = 1..Len(s)
  BY <1>5
<1>7. \A i \in 1..Len(s) : AlikeDSM(t[i], s[i]) /\ (ScalarFields(t[i]) <=> ScalarFields(s[i]))
  <2> TAKE i \in 1..Len(s)
  <2>1. s[i] \in DataSetMessages /\ t[i] = NewDSM(s[i], n)
    BY <1>5, <1>6
  <2> QED
    BY <2>1, AlikeNewDSM
<1>8. Len(t) = Len(s) /\ DOMAIN t = 1..Len(s)
  <2> DEFINE T == {t[i] : i \in 1..Len(s)}
  <2>1. t = [i \in 1..Len(s) |-> t[i]]
    BY <1>5, <1>6
  <2>2. t \in Seq(T)
    BY <1>6, <2>1
  <2> QED
    BY <1>6, <2>1, <2>2
<1>9. Alike(r, m)
  BY <1>3, <1>4, <1>7, <1>8 DEF Alike, s, t
<1>10. Writeable(r) <=> Writeable(m)
  BY <1>3, <1>6, <1>7, <1>8 DEF Writeable, s, t
<1> QED
  BY <1>3, <1>9, <1>10

---------------------------------------------------------------------------
(* The publisher: what the buffer and the datagram hold. *)

\* A message as the application has changed it.
Family(b) == {b} \cup {Renewed(b, n) : n \in Values}

\* They are alike, and all of them or none can be written in place.
LEMMA FamilyIs ==
    ASSUME NEW b \in Messages, NEW m \in Family(b)
    PROVE  m \in NetworkMessages /\ Alike(m, b) /\ (Writeable(m) <=> Writeable(b)) /\ m.on = b.on
<1>1. b \in NetworkMessages
  BY MessagesAssumption
<1>2. CASE m = b
  BY <1>1, <1>2 DEF Alike, AlikeDSM, AlikeField
<1>3. ASSUME NEW n \in Values, m = Renewed(b, n)
      PROVE  m \in NetworkMessages /\ Alike(m, b) /\ (Writeable(m) <=> Writeable(b)) /\ m.on = b.on
  BY <1>1, <1>3, ValuesAssumption, AlikeRenewed
<1> QED
  BY <1>2, <1>3 DEF Family

\* One with other numbers is again one of them.
LEMMA FamilyGrows ==
    ASSUME NEW b \in Messages, NEW m \in Family(b), NEW n \in Values
    PROVE  Renewed(m, n) \in Family(b)
<1>1. IsMessage(b)
  BY MessagesAssumption, MessagesAre
<1>2. CASE m = b
  BY <1>2 DEF Family
<1>3. ASSUME NEW k \in Values, m = Renewed(b, k)
      PROVE  Renewed(m, n) \in Family(b)
  <2>1. Renewed(m, n) = Renewed(b, n)
    BY <1>1, <1>3, RenewedTwice
  <2> QED
    BY <2>1 DEF Family
<1> QED
  BY <1>2, <1>3 DEF Family

\* Two of a family are alike, have the same offsets, and are encoded.
LEMMA FamilyAlike ==
    ASSUME NEW b \in Messages, Sendable(b), NEW m \in Family(b), NEW w \in Family(b)
    PROVE  /\ Alike(m, w) /\ Sendable(w) /\ PublisherOffsets(w) = PublisherOffsets(b)
           /\ Encoding(w) = MessageBytes(w) /\ MessageBytes(w) \in Seq(Octet)
<1>1. /\ b \in NetworkMessages /\ m \in NetworkMessages /\ w \in NetworkMessages
      /\ Alike(m, b) /\ Alike(w, b)
  BY FamilyIs, MessagesAssumption
<1>2. Alike(b, w)
  BY <1>1, AlikeSymmetric
<1>3. Alike(m, w)
  BY <1>1, <1>2, AlikeTransitive
<1>4. Sendable(w)
  BY <1>1, AlikeSendable
<1>5. PublisherOffsets(w) = PublisherOffsets(b)
  <2>1. AllEncodable(b)
    BY DEF Sendable
  <2>2. MessagePieces(w, FALSE) = MessagePieces(b, FALSE)
    BY <1>1, <2>1, PiecesAlike
  <2> QED
    BY <2>2 DEF PublisherOffsets, Offsets
<1>6. Encoding(w) = MessageBytes(w) /\ MessageBytes(w) \in Seq(Octet)
  <2> DEFINE n == CalcSize(w)
             x == EncodeBinary(w, n)
  <2>1. n \in Nat
    BY <1>1, MessagePiece
  <2> HIDE DEF n
  <2>2. MessageBytes(w) \in Seq(Octet) /\ Len(MessageBytes(w)) = CalcSize(w)
        /\ (CalcSize(w) <= n => x.rv = "Good" /\ x.out = MessageBytes(w))
    BY <1>1, <1>4, <2>1, EncodeFits
  <2>3. CalcSize(w) <= n
    BY <2>1 DEF n
  <2> QED
    BY <2>2, <2>3 DEF Encoding, n
<1> QED
  BY <1>3, <1>4, <1>5, <1>6

\* The publisher has frozen message b: the buffer holds a message of its family, if every
\* changing value has an offset, and the datagram under way the one that was sent.
Frozen(b) ==
    /\ Sendable(b) /\ msg \in Family(b) /\ offsets.publisher = PublisherOffsets(b)
    /\ buffer \in Seq(Octet) /\ status \in UpdateCodes
    /\ Writeable(b) => \E m \in Family(b) : buffer = MessageBytes(m)

Sent(b) ==
    /\ sent \in Family(b) /\ sent.on \cap {"timestamp", "picoseconds"} = {}
    /\ Writeable(b) => datagram = MessageBytes(sent)
    /\ datagram \in Seq(Octet) /\ Len(datagram) = Len(buffer)

Unfrozen == msg = None /\ buffer = <<>> /\ status = "Good" /\ datagram = None

\* The first encoding.
LEMMA FreezeFrozen ==
    ASSUME NEW b \in Messages, Unfrozen, Freeze(b)
    PROVE  Frozen(b)' /\ datagram' = None
<1>1. b \in NetworkMessages
  BY MessagesAssumption
<1>2. /\ EncodeBinary(b, CalcSize(b)).rv = "Good" /\ msg' = b /\ buffer' = Encoding(b)
      /\ offsets' = [publisher |-> Offsets(b, FALSE), subscriber |-> Offsets(old', TRUE)]
      /\ status' = status /\ datagram' = datagram
  BY DEF Freeze
<1>3. Sendable(b)
  <2> DEFINE n == CalcSize(b)
             x == EncodeBinary(b, n)
  <2>1. n \in Nat
    BY <1>1, MessagePiece
  <2> HIDE DEF n
  <2>2. ~Sendable(b) => x.rv # "Good"
    BY <1>1, <2>1, EncodeFits
  <2> QED
    BY <1>2, <2>2 DEF n
<1>4. b \in Family(b)
  BY DEF Family
<1>5. Encoding(b) = MessageBytes(b) /\ MessageBytes(b) \in Seq(Octet)
  BY <1>3, <1>4, FamilyAlike
<1>6. offsets'.publisher = PublisherOffsets(b)
  BY <1>2 DEF PublisherOffsets
<1>7. status' \in UpdateCodes
  BY <1>2 DEF Unfrozen, UpdateCodes
<1> QED
  BY <1>2, <1>3, <1>4, <1>5, <1>6, <1>7 DEF Frozen, Unfrozen

\* A publication.
LEMMA PublishFrozen ==
    ASSUME NEW b \in Messages, Frozen(b), Publish
    PROVE  Frozen(b)' /\ (datagram' # None => Sent(b)')
<1> DEFINE r == UpdateBufferedMessage(buffer, offsets.publisher, msg)
           O == PublisherOffsets(msg)
<1>1. /\ buffer' = r.out /\ status' = r.rv /\ sent' = msg
      /\ datagram' = (IF r.rv = "Good" THEN r.out ELSE None) /\ msg' = msg /\ offsets' = offsets
  BY DEF Publish, Published
<1>2. Sendable(b) /\ msg \in Family(b) /\ buffer \in Seq(Octet) /\ offsets.publisher = PublisherOffsets(b)
  BY DEF Frozen
<1>3. msg \in NetworkMessages /\ Sendable(msg) /\ O = offsets.publisher /\ (Writeable(msg) <=> Writeable(b))
  BY <1>2, FamilyIs, FamilyAlike
<1>4. r = UpdateBufferedMessage(buffer, O, msg)
  BY <1>3
<1> HIDE DEF r
<1>5. /\ r.rv \in UpdateCodes /\ r.out \in Seq(Octet) /\ Len(r.out) = Len(buffer)
      /\ msg.on \cap {"timestamp", "picoseconds"} # {} => r.rv = "BadNotSupported"
  BY <1>2, <1>3, <1>4, UpdateStays
<1>6. ASSUME Writeable(b)
      PROVE  r.out = MessageBytes(msg)
  <2>1. PICK m \in Family(b) : buffer = MessageBytes(m)
    BY <1>6 DEF Frozen
  <2>2. m \in NetworkMessages /\ Alike(m, msg)
    BY <1>2, <2>1, FamilyIs, FamilyAlike
  <2>3. r = UpdateBufferedMessage(MessageBytes(m), O, msg)
    BY <1>4, <2>1
  <2> QED
    BY <1>3, <1>6, <2>2, <2>3, UpdateWrites
<1>7. Frozen(b)'
  <2>1. Writeable(b) => \E m \in Family(b) : buffer' = MessageBytes(m)
    BY <1>1, <1>2, <1>6
  <2> QED
    BY <1>1, <1>2, <1>5, <2>1 DEF Frozen
<1>8. ASSUME datagram' # None
      PROVE  Sent(b)'
  <2>1. r.rv = "Good" /\ datagram' = r.out
    BY <1>1, <1>8
  <2>2. msg.on \cap {"timestamp", "picoseconds"} = {}
    BY <1>5, <2>1
  <2> QED
    BY <1>1, <1>2, <1>5, <1>6, <2>1, <2>2 DEF Sent
<1> QED
  BY <1>7, <1>8

---------------------------------------------------------------------------
(* The offsets of the subscriber: the message it has decoded is cut into the
   same pieces as the message that was sent. *)

\* A value of a field takes as much room as it is received as it was sent.
LEMMA ReceivedSize ==
    ASSUME NEW v, NEW enc
    PROVE  ValueSizeIn(ReceivedIn(v, enc), enc) = ValueSizeIn(v, enc)
<1>1. CASE enc = VariantEncoding
  <2>1. ReceivedIn(v, enc) = OnlyValue(v.value)
    BY <1>1 DEF ReceivedIn
  <2>2. OnlyValue(v.value).value = v.value
    BY DEF OnlyValue, EmptyDataValue
  <2> QED
    BY <1>1, <2>1, <2>2 DEF ValueSizeIn
<1>2. CASE enc # VariantEncoding
  <2> DEFINE u == ReceivedValue(v)
  <2>1. u.on = v.on /\ u.value = IF "value" \in v.on THEN v.value ELSE EmptyVariant
    BY DEF ReceivedValue
  <2> HIDE DEF u
  <2>2. DataValueSize(u) = DataValueSize(v)
    BY <2>1 DEF DataValueSize
  <2> QED
    BY <1>2, <2>2 DEF ValueSizeIn, ReceivedIn, u
<1> QED
  BY <1>1, <1>2

\* The members of a DataSetMessage as it is received.
LEMMA ReceivedHas ==
    ASSUME NEW d \in DataSetMessages, NEW e, e = ReceivedDSM(d)
    PROVE  /\ e.on = d.on /\ e.type = d.type /\ e.enc = d.enc
           /\ d.type = KeepAlive => e.fields = <<>>
           /\ d.type # KeepAlive => e.fields = ReceivedTo(d, Len(d.fields)) /\ Len(e.fields) = Len(d.fields)
                                    /\ DOMAIN e.fields = 1..Len(d.fields)
                                    /\ \A i \in 1..Len(d.fields) : e.fields[i] = ReceivedField(d, i)
<1> DEFINE h == ReceivedHeader(d)
<1>1. /\ h.on = d.on /\ h.type = d.type /\ h.enc = d.enc /\ h.fields = <<>>
      /\ h = EmptyDSM(h.on, h.type, h.enc, h.val)
  BY DEF ReceivedHeader, EmptyDSM
<1>2. CASE d.type = KeepAlive
  BY <1>1, <1>2 DEF ReceivedDSM
<1>3. CASE d.type # KeepAlive
  <2> DEFINE s == ReceivedTo(d, Len(d.fields))
  <2>1. e = WithFields([h EXCEPT !.count = Len(d.fields), !.owns = TRUE], s)
    BY <1>3 DEF ReceivedDSM
  <2>2. Len(d.fields) \in Nat
    BY DSMHas DEF Unsigned
  <2>3. DOMAIN s = 1..Len(d.fields) /\ Len(s) = Len(d.fields)
        /\ \A i \in 1..Len(d.fields) : s[i] = ReceivedField(d, i)
    BY <2>2 DEF ReceivedTo
  <2> HIDE DEF s, h
  <2>4. e.on = h.on /\ e.type = h.type /\ e.enc = h.enc /\ e.fields = s
    BY <1>1, <2>1 DEF WithFields, EmptyDSM
  <2> QED
    BY <1>1, <1>3, <2>3, <2>4 DEF s
<1> QED
  BY <1>2, <1>3

\* A DataSetMessage is as long when it is received as it was when it was sent.
LEMMA ReceivedLength ==
    ASSUME NEW d \in DataSetMessages, Encodable(d), NEW e, e = ReceivedDSM(d)
    PROVE  DSMSize(e) = DSMSize(d) /\ HeaderSize(e) = HeaderSize(d)
<1>1. e.on = d.on /\ e.type = d.type /\ e.enc = d.enc
  BY ReceivedHas
<1>2. HeaderSize(e) = HeaderSize(d)
  BY <1>1 DEF HeaderSize, DataSetFlags2Enabled, SizeIf
<1>3. \A x : DSMSize(x) = HeaderSize(x) + (IF x.type \in {KeyFrame, DeltaFrame} /\ x.enc # RawData
                                           THEN 2 + SumFunction([i \in 1..Len(x.fields) |->
                                                   (IF x.type = DeltaFrame THEN 2 ELSE 0)
                                                   + ValueSizeIn(IF x.type = KeyFrame THEN x.fields[i] ELSE x.fields[i].value, x.enc)])
                                           ELSE 0)
  BY DEF DSMSize, SumOf, ValueSizeIn
<1>4. CASE d.type \in {KeyFrame, DeltaFrame} /\ d.enc # RawData
  <2> DEFINE n == Len(d.fields)
             FieldIn(x, i) == IF x.type = KeyFrame THEN x.fields[i] ELSE x.fields[i].value
             Z(x) == [i \in 1..Len(x.fields) |-> (IF x.type = DeltaFrame THEN 2 ELSE 0) + ValueSizeIn(FieldIn(x, i), x.enc)]
  <2>1. d.type # KeepAlive
    BY <1>4 DEF KeyFrame, DeltaFrame, KeepAlive
  <2>2. Len(e.fields) = n /\ \A i \in 1..n : e.fields[i] = ReceivedField(d, i)
    BY <2>1, ReceivedHas
  <2>3. ASSUME NEW i \in 1..n
        PROVE  FieldIn(e, i) = ReceivedIn(FieldIn(d, i), d.enc)
    <3>1. e.fields[i] = ReceivedField(d, i)
      BY <2>2
    <3>2. CASE d.type = KeyFrame
      BY <1>1, <3>1, <3>2 DEF ReceivedField
    <3>3. CASE d.type # KeyFrame
      <4> DEFINE u == ReceivedIn(d.fields[i].value, d.enc)
      <4>1. e.fields[i] = [index |-> d.fields[i].index, value |-> u]
        BY <3>1, <3>3 DEF ReceivedField
      <4> HIDE DEF u
      <4>2. e.fields[i].value = u
        BY <4>1
      <4> QED
        BY <1>1, <3>3, <4>2 DEF u
    <3> QED
      BY <3>2, <3>3
  <2>4. \A i \in 1..n : ValueSizeIn(FieldIn(e, i), e.enc) = ValueSizeIn(FieldIn(d, i), d.enc)
    <3> HIDE DEF FieldIn
    <3> QED
      BY <1>1, <2>3, ReceivedSize
  <2>5. Z(e) = Z(d)
    <3> HIDE DEF FieldIn
    <3> QED
      BY <1>1, <2>2, <2>4
  <2>6. DSMSize(e) = HeaderSize(e) + (2 + SumFunction(Z(e))) /\ DSMSize(d) = HeaderSize(d) + (2 + SumFunction(Z(d)))
    BY <1>1, <1>3, <1>4
  <2> QED
    BY <1>2, <2>5, <2>6
<1>5. CASE ~(d.type \in {KeyFrame, DeltaFrame} /\ d.enc # RawData)
  BY <1>1, <1>2, <1>3, <1>5
<1> QED
  BY <1>2, <1>4, <1>5

\* A DataSetMessage is cut into the same pieces.
LEMMA ReceivedPieces ==
    ASSUME NEW d \in DataSetMessages, Encodable(d), NEW e, e = ReceivedDSM(d)
    PROVE  DSMPieces(e) = DSMPieces(d)
<1>1. e.on = d.on /\ e.type = d.type /\ e.enc = d.enc
  BY ReceivedHas
<1>2. DSMSize(e) = DSMSize(d) /\ HeaderSize(e) = HeaderSize(d)
  BY ReceivedLength
<1>3. DSMFlagPieces(e) = DSMFlagPieces(d)
  BY <1>1 DEF DSMFlagPieces, DataSetFlags2Enabled
<1>4. SpanIf(e, "sequenceNr", 2, DSMSequenceOffset) = SpanIf(d, "sequenceNr", 2, DSMSequenceOffset)
  BY <1>1 DEF SpanIf
<1>5. RestSize(e) = RestSize(d)
  BY <1>1 DEF RestSize, SizeIf
<1>6. BodyPieces(e) = BodyPieces(d)
  <2>1. CASE d.type = KeyFrame /\ d.enc # RawData
    <3> DEFINE n == Len(d.fields)
               R(x) == [k \in DOMAIN x.fields |-> [FieldSpan(x, k) EXCEPT !.field = k]]
    <3>1. DOMAIN d.fields = 1..n
      BY <2>1, DSMHas
    <3>2. DOMAIN e.fields = 1..n /\ \A i \in 1..n : e.fields[i] = ReceivedField(d, i)
      BY <2>1, ReceivedHas DEF KeyFrame, KeepAlive
    <3>3. ASSUME NEW k \in 1..n
          PROVE  FieldSpan(e, k) = FieldSpan(d, k)
      <4>1. e.fields[k] = ReceivedIn(d.fields[k], d.enc)
        BY <2>1, <3>2 DEF ReceivedField
      <4>2. ValueSizeIn(e.fields[k], d.enc) = ValueSizeIn(d.fields[k], d.enc)
        BY <4>1, ReceivedSize
      <4>3. FieldSpan(e, k) = Span(ValueSizeIn(e.fields[k], d.enc), FieldMark(d.enc))
        BY <1>1 DEF FieldSpan, ValueSizeIn, FieldMark
      <4>4. FieldSpan(d, k) = Span(ValueSizeIn(d.fields[k], d.enc), FieldMark(d.enc))
        BY DEF FieldSpan, ValueSizeIn, FieldMark
      <4> QED
        BY <4>2, <4>3, <4>4
    <3>4. R(e) = R(d)
      BY <3>1, <3>2, <3>3
    <3>5. BodyPieces(e) = <<Span(2, Unmarked)>> \o R(e) /\ BodyPieces(d) = <<Span(2, Unmarked)>> \o R(d)
      BY <1>1, <2>1 DEF BodyPieces
    <3> QED
      BY <3>4, <3>5
  <2>2. CASE ~(d.type = KeyFrame /\ d.enc # RawData)
    BY <1>1, <1>2, <2>2 DEF BodyPieces
  <2> QED
    BY <2>1, <2>2
<1>7. \A x : DSMPieces(x) = DSMFlagPieces(x) \o SpanIf(x, "sequenceNr", 2, DSMSequenceOffset)
                            \o <<Span(RestSize(x), Unmarked)>> \o BodyPieces(x)
  BY DEF DSMPieces, RestSize, BodyPieces
<1> QED
  BY <1>3, <1>4, <1>5, <1>6, <1>7

\* What the subscriber knows of the features of the message it has received.
Knows(d, m) ==
    /\ \A f \in InFlags : f \in d.on <=> f \in m.on
    /\ "groupHeader" \in m.on => \A f \in DOMAIN GroupFlags : f \in d.on <=> f \in m.on
    /\ "security" \in m.on => \A f \in DOMAIN SecurityFlags : f \in d.on <=> f \in m.on

\* It reads every feature whose flags it is sent.
LEMMA ReceivedKnows ==
    ASSUME NEW d, NEW m, Received(d, m)
    PROVE  Knows(d, m)
<1>1. d.on = (m.on \cap InFlags) \cup InGroup(m) \cup InSecurity(m)
  BY DEF Received, Paid, FeaturesBy
<1> QED
  BY <1>1 DEF Knows, InGroup, InSecurity, InFlags, NMFlags, Ext1Flags, Ext2Flags, GroupFlags, SecurityFlags

\* The features by name.
LEMMA KnownFeatures ==
    ASSUME NEW d, NEW m, Knows(d, m)
    PROVE  /\ "publisherId" \in d.on <=> "publisherId" \in m.on
           /\ "groupHeader" \in d.on <=> "groupHeader" \in m.on
           /\ "payloadHeader" \in d.on <=> "payloadHeader" \in m.on
           /\ "classId" \in d.on <=> "classId" \in m.on
           /\ "security" \in d.on <=> "security" \in m.on
           /\ "timestamp" \in d.on <=> "timestamp" \in m.on
           /\ "picoseconds" \in d.on <=> "picoseconds" \in m.on
           /\ "chunk" \in d.on <=> "chunk" \in m.on
           /\ "promoted" \in d.on <=> "promoted" \in m.on
           /\ "groupHeader" \in m.on =>
                 /\ "writerGroupId" \in d.on <=> "writerGroupId" \in m.on
                 /\ "groupVersion" \in d.on <=> "groupVersion" \in m.on
                 /\ "nmNumber" \in d.on <=> "nmNumber" \in m.on
                 /\ "sequenceNumber" \in d.on <=> "sequenceNumber" \in m.on
           /\ "security" \in m.on => ("footer" \in d.on <=> "footer" \in m.on)
<1>1. {"publisherId", "groupHeader", "payloadHeader", "classId", "security", "timestamp", "picoseconds",
       "chunk", "promoted"} \subseteq InFlags
  BY DEF InFlags, NMFlags, Ext1Flags, Ext2Flags
<1>2. {"writerGroupId", "groupVersion", "nmNumber", "sequenceNumber"} \subseteq DOMAIN GroupFlags
  BY DEF GroupFlags
<1>3. "footer" \in DOMAIN SecurityFlags
  BY DEF SecurityFlags
<1> QED
  BY <1>1, <1>2, <1>3 DEF Knows

\* The message that is received is cut into the pieces of the one that was sent.
LEMMA DeliveredPieces ==
    ASSUME NEW m \in NetworkMessages, Sendable(m), NEW d, Received(d, m), NEW reader
    PROVE  MessagePieces(d, reader) = MessagePieces(m, reader) /\ DSMCount(d) = DSMCount(m)
<1>1. Knows(d, m)
  BY ReceivedKnows
<1>2. /\ d.pubType = m.pubType /\ d.nmType = m.nmType /\ d.pubString = PublisherString(m)
      /\ d.ids = Present(m.ids, "payloadHeader" \in m.on)
      /\ d.promoted = Present(m.promoted, "promoted" \in m.on)
      /\ d.nonce = Present(m.nonce, "security" \in m.on) /\ d.dsms = ReceivedAll(m)
  BY DEF Received, Paid
<1>3. DSMCount(d) = DSMCount(m)
  BY <1>1, <1>2, KnownFeatures DEF DSMCount, Present
<1>4. FlagsSize(d) = FlagsSize(m)
  <2>1. ExtendedFlags2Enabled(d) <=> ExtendedFlags2Enabled(m)
    BY <1>1, <1>2, KnownFeatures DEF ExtendedFlags2Enabled
  <2>2. ExtendedFlags1Enabled(d) <=> ExtendedFlags1Enabled(m)
    BY <1>1, <1>2, <2>1, KnownFeatures DEF ExtendedFlags1Enabled
  <2> QED
    BY <2>1, <2>2 DEF FlagsSize
<1>5. PublisherIdPiece(d, reader) = PublisherIdPiece(m, reader)
  BY <1>1, <1>2, KnownFeatures DEF PublisherIdPiece, SpanIf, PublisherString
<1>6. SpanIf(d, "classId", 16, Unmarked) = SpanIf(m, "classId", 16, Unmarked)
  BY <1>1, KnownFeatures DEF SpanIf
<1>7. GroupPieces(d, reader) = GroupPieces(m, reader)
  BY <1>1, KnownFeatures DEF GroupPieces, SpanIf
<1>8. PayloadHeaderPieces(d, reader) = PayloadHeaderPieces(m, reader)
  BY <1>1, <1>2, KnownFeatures DEF PayloadHeaderPieces, Present
<1>9. /\ SpanIf(d, "timestamp", 8, TimestampOffset) = SpanIf(m, "timestamp", 8, TimestampOffset)
      /\ SpanIf(d, "picoseconds", 2, PicosecondsOffset) = SpanIf(m, "picoseconds", 2, PicosecondsOffset)
  BY <1>1, KnownFeatures DEF SpanIf
<1>10. PromotedPieces(d) = PromotedPieces(m)
  <2>1. \A x : PromotedPieces(x) =
                 IF "promoted" \in x.on
                 THEN <<Span(2 + SumFunction([i \in 1..Len(x.promoted) |-> VariantSize(x.promoted[i])]), Unmarked)>>
                 ELSE <<>>
    BY DEF PromotedPieces, SpanIf, SumOf
  <2>2. CASE "promoted" \in m.on
    <3>1. "promoted" \in d.on /\ d.promoted = m.promoted
      BY <1>1, <1>2, <2>2, KnownFeatures DEF Present
    <3> QED
      BY <2>1, <2>2, <3>1
  <2>3. CASE "promoted" \notin m.on
    <3>1. "promoted" \notin d.on
      BY <1>1, <2>3, KnownFeatures
    <3> QED
      BY <2>1, <2>3, <3>1
  <2> QED
    BY <2>2, <2>3
<1>11. SecurityPieces(d) = SecurityPieces(m)
  BY <1>1, <1>2, KnownFeatures DEF SecurityPieces, SpanIf, Present
<1>12. TablePieces(d) = TablePieces(m)
  BY <1>3 DEF TablePieces
<1>13. PiecesOf(d) = PiecesOf(m)
  <2>1. ASSUME NEW i \in 1..DSMCount(m)
        PROVE  DSMPieces(d.dsms[i]) = DSMPieces(m.dsms[i])
    <3>1. d.dsms[i] = ReceivedDSM(m.dsms[i])
      BY <1>2 DEF ReceivedAll
    <3>2. m.dsms[i] \in DataSetMessages /\ Encodable(m.dsms[i])
      BY SizesFit DEF Sendable, AllEncodable
    <3> QED
      BY <3>1, <3>2, ReceivedPieces
  <2> QED
    BY <1>3, <2>1 DEF PiecesOf
<1> QED
  BY <1>3, <1>4, <1>5, <1>6, <1>7, <1>8, <1>9, <1>10, <1>11, <1>12, <1>13, MessagePiecesAre

---------------------------------------------------------------------------
(* The update of the subscriber, step by step. *)

ReadingOf(rv, stop, dst, next, pos, overrun) ==
    [rv |-> rv, stop |-> stop, dst |-> dst, next |-> next, pos |-> pos, overrun |-> overrun]
ReadingFrom(dst) == ReadingOf("Good", FALSE, dst, 1, 0, FALSE)

ReadCodes == {"Good", "BadNotSupported", "BadDecodingError"}

Reading(a) ==
    /\ a = ReadingOf(a.rv, a.stop, a.dst, a.next, a.pos, a.overrun)
    /\ a.rv \in ReadCodes /\ a.next \in Nat /\ 1 <= a.next

\* f is the run of updateBufferedNwMessage along the offsets O.
ReadBy(dst, O, src, f) ==
    /\ f[0] = ReadingFrom(dst)
    /\ \A k \in 1..Len(O) : f[k] = ReadNext(f[k - 1], O[k], src, 0)

\* The loop over the offsets reads them one by one.
LEMMA ReadRuns ==
    ASSUME NEW dst, NEW src, NEW O, Len(O) \in Nat
    PROVE  \E f : ReadBy(dst, O, src, f) /\ UpdateBufferedNwMessage(dst, O, src, 0) = f[Len(O)]
<1> DEFINE n == Len(O)
           zero == [rv |-> "Good", stop |-> FALSE, dst |-> dst, next |-> 1, pos |-> 0, overrun |-> FALSE]
           Runs(f, h) == f = [k \in 0..h |-> IF k = 0 THEN zero ELSE ReadNext(f[k - 1], O[k], src, 0)]
           Has(h) == \E f : Runs(f, h)
<1> HIDE DEF zero
<1>1. Has(0)
  <2>1. Runs([k \in 0..0 |-> zero], 0)
    OBVIOUS
  <2> QED
    BY <2>1
<1>2. ASSUME NEW h \in Nat, Has(h)
      PROVE  Has(h + 1)
  <2>1. PICK f : Runs(f, h)
    BY <1>2
  <2> DEFINE g == [k \in 0..(h + 1) |-> IF k = h + 1 THEN ReadNext(f[h], O[k], src, 0) ELSE f[k]]
  <2>2. ASSUME NEW k \in 0..(h + 1)
        PROVE  g[k] = IF k = 0 THEN zero ELSE ReadNext(g[k - 1], O[k], src, 0)
    <3>1. CASE k = h + 1
      <4>1. k # 0 /\ k - 1 = h /\ h # h + 1 /\ h \in 0..(h + 1)
        BY <3>1
      <4>2. g[h] = f[h]
        BY <4>1
      <4> QED
        BY <3>1, <4>1, <4>2
    <3>2. CASE k # h + 1
      <4>1. k \in 0..h /\ (k # 0 => k - 1 \in 0..(h + 1) /\ k - 1 # h + 1)
        BY <3>2
      <4>2. f[k] = IF k = 0 THEN zero ELSE ReadNext(f[k - 1], O[k], src, 0)
        BY <2>1, <4>1
      <4>3. g[k] = f[k] /\ (k # 0 => g[k - 1] = f[k - 1])
        BY <3>2, <4>1
      <4> QED
        BY <4>2, <4>3
    <3> QED
      BY <3>1, <3>2
  <2>3. Runs(g, h + 1)
    <3> DEFINE w == [k \in 0..(h + 1) |-> IF k = 0 THEN zero ELSE ReadNext(g[k - 1], O[k], src, 0)]
    <3>1. \A k \in 0..(h + 1) : g[k] = w[k]
      <4> TAKE k \in 0..(h + 1)
      <4>1. w[k] = IF k = 0 THEN zero ELSE ReadNext(g[k - 1], O[k], src, 0)
        OBVIOUS
      <4> HIDE DEF g, w
      <4> QED
        BY <2>2, <4>1
    <3>2. g = w
      <4>1. g = [k \in 0..(h + 1) |-> g[k]] /\ w = [k \in 0..(h + 1) |-> w[k]]
        OBVIOUS
      <4> HIDE DEF g, w
      <4> QED
        BY <3>1, <4>1
    <3> HIDE DEF g
    <3> QED
      BY <3>2
  <2> QED
    BY <2>3
<1> DEFINE T == {h \in Nat : Has(h)}
<1>3. Has(n)
  <2> HIDE DEF Has
  <2>1. 0 \in T /\ \A h \in Nat : h \in T => h + 1 \in T
    BY <1>1, <1>2
  <2>2. n \in T
    <3> HIDE DEF T
    <3> QED
      BY <2>1, Induction
  <2> QED
    BY <2>2
<1> DEFINE F == CHOOSE f : Runs(f, n)
<1>4. Runs(F, n)
  BY <1>3
<1>5. UpdateBufferedNwMessage(dst, O, src, 0) = F[n]
  BY DEF UpdateBufferedNwMessage, zero
<1> HIDE DEF F
<1>6. ReadBy(dst, O, src, F)
  <2>1. F[0] = zero
    BY <1>4
  <2>2. ASSUME NEW k \in 1..n
        PROVE  F[k] = ReadNext(F[k - 1], O[k], src, 0)
    <3>1. k \in 0..n /\ k # 0
      OBVIOUS
    <3> QED
      BY <1>4, <3>1
  <2> QED
    BY <2>1, <2>2 DEF ReadBy, zero, ReadingFrom, ReadingOf
<1> QED
  BY <1>5, <1>6

\* Whether a statuscode is returned at once.
Returning    == TRUE
NotReturning == FALSE

\* How b comes from a by one offset.
NextRead(a, o, src, b) ==
    /\ a.stop => b = a
    /\ ~a.stop =>
          \/ /\ o.type = PublisherIdOffset
             /\ b = SetNumber(a, Read(src, o.offset + 0, PublisherIdWidth(a.dst.pubType)), "publisherId", NotReturning)
          \/ /\ o.type = GroupIdOffset
             /\ b = SetNumber(a, Read(src, o.offset + 0, 2), "writerGroupId", Returning)
          \/ /\ o.type = WriterIdOffset
             /\ b = SetWriterId(a, Read(src, o.offset + 0, 2))
          \/ /\ o.type = SequenceOffset
             /\ b = SetNumber(a, Read(src, o.offset + 0, 2), "sequenceNumber", Returning)
          \/ /\ o.type = DataValueOffset
             /\ b = FillField(a, DecodeDataValue(src, o.offset + 0), DecodeDataValue(src, o.offset + 0).value)
          \/ /\ o.type = VariantOffset
             /\ b = FillField(a, DecodeVariant(src, o.offset + 0), WithValue(FieldNow(a), DecodeVariant(src, o.offset + 0)))
          \/ /\ o.type \notin FieldMarks \cup {GroupIdOffset, WriterIdOffset, SequenceOffset}
             /\ o.type = PublisherIdOffset => ~(a.dst.pubType < StringId)
             /\ b = [a EXCEPT !.rv = "BadNotSupported", !.stop = Returning]

\* What a reading does, by the kind of its offset.
LEMMA ReadNextIs ==
    ASSUME NEW a, NEW o, NEW src, NEW b, b = ReadNext(a, o, src, 0)
    PROVE  NextRead(a, o, src, b)
BY DEF ReadNext, ReadAt, SetVariant, SetDataValue, Returning, NotReturning, FieldMarks, PublisherIdOffset, GroupIdOffset,
       WriterIdOffset, SequenceOffset, DataValueOffset, VariantOffset, NextRead

\* The record with other members.
LEMMA ReadingSet ==
    ASSUME NEW a, Reading(a), NEW rv, NEW stop, NEW pos, NEW b, b = [a EXCEPT !.rv = rv, !.stop = stop, !.pos = pos]
    PROVE  b = ReadingOf(rv, stop, a.dst, a.next, pos, a.overrun)
<1> DEFINE M == {"rv", "stop", "dst", "next", "pos", "overrun"}
           e == ReadingOf(rv, stop, a.dst, a.next, pos, a.overrun)
<1>1. a = [rv |-> a.rv, stop |-> a.stop, dst |-> a.dst, next |-> a.next, pos |-> a.pos, overrun |-> a.overrun]
  BY DEF Reading, ReadingOf
<1>2. DOMAIN a = M
  BY <1>1
<1>3. b = [f \in M |-> b[f]] /\ e = [f \in M |-> e[f]]
  BY <1>2 DEF ReadingOf
<1>4. b.rv = e.rv /\ b.stop = e.stop /\ b.dst = e.dst /\ b.next = e.next /\ b.pos = e.pos /\ b.overrun = e.overrun
  BY <1>2 DEF ReadingOf
<1> HIDE DEF e
<1> QED
  BY <1>3, <1>4 DEF e

\* The members of the record.
LEMMA ReadingHas ==
    ASSUME NEW rv, NEW stop, NEW dst, NEW next, NEW pos, NEW overrun,
           NEW a, a = ReadingOf(rv, stop, dst, next, pos, overrun)
    PROVE  /\ a.rv = rv /\ a.stop = stop /\ a.dst = dst /\ a.next = next /\ a.pos = pos /\ a.overrun = overrun
           /\ rv \in ReadCodes /\ next \in Nat /\ 1 <= next => Reading(a)
BY DEF Reading, ReadingOf

\* A record with the members of another.
MembersOf(b, a) == b = [f \in DOMAIN a |-> b[f]]

\* It is a reading, too.
LEMMA ReadingBy ==
    ASSUME NEW a, Reading(a), NEW b, MembersOf(b, a)
    PROVE  b = ReadingOf(b.rv, b.stop, b.dst, b.next, b.pos, b.overrun)
<1> DEFINE M == {"rv", "stop", "dst", "next", "pos", "overrun"}
           e == ReadingOf(b.rv, b.stop, b.dst, b.next, b.pos, b.overrun)
<1>1. a = [rv |-> a.rv, stop |-> a.stop, dst |-> a.dst, next |-> a.next, pos |-> a.pos, overrun |-> a.overrun]
  BY DEF Reading, ReadingOf
<1>2. DOMAIN a = M
  BY <1>1
<1>3. b = [f \in M |-> b[f]] /\ e = [f \in M |-> e[f]]
  BY <1>2 DEF ReadingOf, MembersOf
<1>4. b.rv = e.rv /\ b.stop = e.stop /\ b.dst = e.dst /\ b.next = e.next /\ b.pos = e.pos /\ b.overrun = e.overrun
  BY DEF ReadingOf
<1> HIDE DEF e
<1> QED
  BY <1>3, <1>4 DEF e

\* A record with one or two other members.
LEMMA ReadingDst ==
    ASSUME NEW a, Reading(a), NEW d, NEW b, b = [a EXCEPT !.dst = d]
    PROVE  b = ReadingOf(a.rv, a.stop, d, a.next, a.pos, a.overrun)
<1>1. a = [rv |-> a.rv, stop |-> a.stop, dst |-> a.dst, next |-> a.next, pos |-> a.pos, overrun |-> a.overrun]
  BY DEF Reading, ReadingOf
<1>2. DOMAIN a = {"rv", "stop", "dst", "next", "pos", "overrun"}
  BY <1>1
<1>3. b.rv = a.rv /\ b.stop = a.stop /\ b.dst = d /\ b.next = a.next /\ b.pos = a.pos /\ b.overrun = a.overrun
  BY <1>2
<1>4. MembersOf(b, a)
  BY DEF MembersOf
<1>5. b = ReadingOf(b.rv, b.stop, b.dst, b.next, b.pos, b.overrun)
  BY <1>4, ReadingBy
<1> QED
  BY <1>3, <1>5

\* Another message and another field.
LEMMA ReadingDstNext ==
    ASSUME NEW a, Reading(a), NEW d, NEW k, NEW b, b = [a EXCEPT !.dst = d, !.next = k]
    PROVE  b = ReadingOf(a.rv, a.stop, d, k, a.pos, a.overrun)
<1>1. a = [rv |-> a.rv, stop |-> a.stop, dst |-> a.dst, next |-> a.next, pos |-> a.pos, overrun |-> a.overrun]
  BY DEF Reading, ReadingOf
<1>2. DOMAIN a = {"rv", "stop", "dst", "next", "pos", "overrun"}
  BY <1>1
<1>3. b.rv = a.rv /\ b.stop = a.stop /\ b.dst = d /\ b.next = k /\ b.pos = a.pos /\ b.overrun = a.overrun
  BY <1>2
<1>4. MembersOf(b, a)
  BY DEF MembersOf
<1>5. b = ReadingOf(b.rv, b.stop, b.dst, b.next, b.pos, b.overrun)
  BY <1>4, ReadingBy
<1> QED
  BY <1>3, <1>5

\* Another field, and whether it was beyond the last one.
LEMMA ReadingOver ==
    ASSUME NEW a, Reading(a), NEW k, NEW r, NEW b, b = [a EXCEPT !.next = k, !.overrun = r]
    PROVE  b = ReadingOf(a.rv, a.stop, a.dst, k, a.pos, r)
<1>1. a = [rv |-> a.rv, stop |-> a.stop, dst |-> a.dst, next |-> a.next, pos |-> a.pos, overrun |-> a.overrun]
  BY DEF Reading, ReadingOf
<1>2. DOMAIN a = {"rv", "stop", "dst", "next", "pos", "overrun"}
  BY <1>1
<1>3. b.rv = a.rv /\ b.stop = a.stop /\ b.dst = a.dst /\ b.next = k /\ b.pos = a.pos /\ b.overrun = r
  BY <1>2
<1>4. MembersOf(b, a)
  BY DEF MembersOf
<1>5. b = ReadingOf(b.rv, b.stop, b.dst, b.next, b.pos, b.overrun)
  BY <1>4, ReadingBy
<1> QED
  BY <1>3, <1>5

\* Another status, and whether the update returns with it.
LEMMA ReadingStop ==
    ASSUME NEW a, Reading(a), NEW r, NEW k, NEW b, b = [a EXCEPT !.rv = r, !.stop = k]
    PROVE  b = ReadingOf(r, k, a.dst, a.next, a.pos, a.overrun)
<1>1. a = [rv |-> a.rv, stop |-> a.stop, dst |-> a.dst, next |-> a.next, pos |-> a.pos, overrun |-> a.overrun]
  BY DEF Reading, ReadingOf
<1>2. DOMAIN a = {"rv", "stop", "dst", "next", "pos", "overrun"}
  BY <1>1
<1>3. b.rv = r /\ b.stop = k /\ b.dst = a.dst /\ b.next = a.next /\ b.pos = a.pos /\ b.overrun = a.overrun
  BY <1>2
<1>4. MembersOf(b, a)
  BY DEF MembersOf
<1>5. b = ReadingOf(b.rv, b.stop, b.dst, b.next, b.pos, b.overrun)
  BY <1>4, ReadingBy
<1> QED
  BY <1>3, <1>5

\* The message of the subscriber with one number, writer id or field put in.
WithNumber(d, f, v) == [d EXCEPT !.val[f] = v]
WithWriterId(d, v)  == [d EXCEPT !.ids[1] = v]
WithFirst(d, k, v)  == [d EXCEPT !.dsms[1].fields[k] = v]

\* The first DataSetMessage of d has n fields.
Shape(d, n) ==
    /\ "dsms" \in DOMAIN d /\ 1 \in DOMAIN d.dsms
    /\ "fields" \in DOMAIN d.dsms[1] /\ DOMAIN d.dsms[1].fields = 1..n

\* A number and a writer id leave the fields alone.
LEMMA ShapeKept ==
    ASSUME NEW d, NEW n, Shape(d, n), NEW f, NEW v
    PROVE  Shape(WithNumber(d, f, v), n) /\ Shape(WithWriterId(d, v), n)
<1>1. WithNumber(d, f, v).dsms = d.dsms /\ DOMAIN WithNumber(d, f, v) = DOMAIN d
  BY DEF WithNumber, Shape
<1>2. WithWriterId(d, v).dsms = d.dsms /\ DOMAIN WithWriterId(d, v) = DOMAIN d
  BY DEF WithWriterId, Shape
<1> QED
  BY <1>1, <1>2 DEF Shape

\* A value put into one field leaves as many of them.
LEMMA ShapeFilled ==
    ASSUME NEW d, NEW n, Shape(d, n), NEW k, NEW v, NEW e, e = WithFirst(d, k, v)
    PROVE  Shape(e, n)
<1> DEFINE s == d.dsms
           m == s[1]
           F == m.fields
           G == [F EXCEPT ![k] = v]
           p == [m EXCEPT !.fields = G]
           t == [s EXCEPT ![1] = p]
<1>1. e = [d EXCEPT !.dsms = t]
  BY DEF WithFirst
<1>2. "dsms" \in DOMAIN d /\ 1 \in DOMAIN s /\ "fields" \in DOMAIN m /\ DOMAIN F = 1..n
  BY DEF Shape
<1>3. DOMAIN G = 1..n
  BY <1>2
<1> HIDE DEF G
<1>4. DOMAIN p = DOMAIN m /\ p.fields = G
  BY <1>2
<1> HIDE DEF p
<1>5. DOMAIN t = DOMAIN s /\ t[1] = p
  BY <1>2
<1> HIDE DEF t
<1>6. DOMAIN e = DOMAIN d /\ e.dsms = t
  BY <1>1, <1>2
<1>7. DOMAIN e.dsms = DOMAIN s /\ e.dsms[1] = p
  BY <1>5, <1>6
<1>8. "fields" \in DOMAIN p /\ DOMAIN p.fields = 1..n
  BY <1>2, <1>3, <1>4
<1>9. "dsms" \in DOMAIN e /\ 1 \in DOMAIN e.dsms
  BY <1>2, <1>6, <1>7
<1> HIDE DEF s, m
<1> QED
  BY <1>7, <1>8, <1>9 DEF Shape

\* A number.
LEMMA SetNumberIs ==
    ASSUME NEW a, Reading(a), NEW x, x.rv \in ReadCodes, NEW f, NEW returns, NEW b, b = SetNumber(a, x, f, returns)
    PROVE  b = ReadingOf(x.rv, returns /\ x.rv # "Good", WithNumber(a.dst, f, IF x.rv = "Good" THEN x.value ELSE 0),
                         a.next, x.pos, a.overrun)
<1> DEFINE stop == returns /\ x.rv # "Good"
           v == IF x.rv = "Good" THEN x.value ELSE 0
           r == [a EXCEPT !.rv = x.rv, !.stop = stop, !.pos = x.pos]
           e == WithNumber(a.dst, f, v)
<1>1. b = [r EXCEPT !.dst.val[f] = v]
  BY DEF SetNumber, ReadOffset
<1> HIDE DEF stop, v
<1>2. r = ReadingOf(x.rv, stop, a.dst, a.next, x.pos, a.overrun)
  BY ReadingSet
<1> HIDE DEF r
<1>3. r.rv = x.rv /\ r.stop = stop /\ r.dst = a.dst /\ r.next = a.next /\ r.pos = x.pos /\ r.overrun = a.overrun /\ Reading(r)
  <2>1. a.next \in Nat /\ 1 <= a.next
    BY DEF Reading
  <2> QED
    BY <1>2, <2>1, ReadingHas
<1>4. b = [r EXCEPT !.dst = e]
  BY <1>1, <1>3 DEF WithNumber
<1> HIDE DEF e
<1>5. b = ReadingOf(x.rv, stop, e, a.next, x.pos, a.overrun)
  <2>1. b = ReadingOf(r.rv, r.stop, e, r.next, r.pos, r.overrun)
    BY <1>3, <1>4, ReadingDst
  <2> QED
    BY <1>3, <2>1
<1> QED
  BY <1>5 DEF e, v, stop

\* The writer id.
LEMMA SetWriterIdIs ==
    ASSUME NEW a, Reading(a), NEW x, x.rv \in ReadCodes, NEW b, b = SetWriterId(a, x)
    PROVE  b = ReadingOf(x.rv, Returning /\ x.rv # "Good", WithWriterId(a.dst, IF x.rv = "Good" THEN x.value ELSE 0),
                         a.next, x.pos, a.overrun)
<1> DEFINE stop == Returning /\ x.rv # "Good"
           v == IF x.rv = "Good" THEN x.value ELSE 0
           r == [a EXCEPT !.rv = x.rv, !.stop = stop, !.pos = x.pos]
           e == WithWriterId(a.dst, v)
<1>1. b = [r EXCEPT !.dst.ids[1] = v]
  BY DEF SetWriterId, ReadOffset, Returning
<1> HIDE DEF stop, v
<1>2. r = ReadingOf(x.rv, stop, a.dst, a.next, x.pos, a.overrun)
  BY ReadingSet
<1> HIDE DEF r
<1>3. r.rv = x.rv /\ r.stop = stop /\ r.dst = a.dst /\ r.next = a.next /\ r.pos = x.pos /\ r.overrun = a.overrun /\ Reading(r)
  <2>1. a.next \in Nat /\ 1 <= a.next
    BY DEF Reading
  <2> QED
    BY <1>2, <2>1, ReadingHas
<1>4. b = [r EXCEPT !.dst = e]
  BY <1>1, <1>3 DEF WithWriterId
<1> HIDE DEF e
<1>5. b = ReadingOf(x.rv, stop, e, a.next, x.pos, a.overrun)
  <2>1. b = ReadingOf(r.rv, r.stop, e, r.next, r.pos, r.overrun)
    BY <1>3, <1>4, ReadingDst
  <2> QED
    BY <1>3, <2>1
<1> QED
  BY <1>5 DEF e, v, stop

\* A field within the first DataSetMessage, and one behind its last.
LEMMA FillFieldIs ==
    ASSUME NEW a, Reading(a), NEW x, x.rv \in ReadCodes, NEW v, NEW b, b = FillField(a, x, v)
    PROVE  /\ a.next \in DOMAIN a.dst.dsms[1].fields
                => b = ReadingOf(x.rv, Returning /\ x.rv # "Good", WithFirst(a.dst, a.next, v),
                                 IF x.rv = "Good" THEN a.next + 1 ELSE a.next, x.pos, a.overrun)
           /\ a.next \notin DOMAIN a.dst.dsms[1].fields
                => b = ReadingOf(x.rv, Returning /\ x.rv # "Good", a.dst, a.next + 1, x.pos, Returning)
<1> DEFINE stop == Returning /\ x.rv # "Good"
           k == a.next
           r == [a EXCEPT !.rv = x.rv, !.stop = stop, !.pos = x.pos]
           e == WithFirst(a.dst, a.next, v)
           next == IF x.rv = "Good" THEN r.next + 1 ELSE r.next
<1>1. /\ a.next \in DOMAIN a.dst.dsms[1].fields => b = [r EXCEPT !.dst.dsms[1].fields[k] = v, !.next = next]
      /\ a.next \notin DOMAIN a.dst.dsms[1].fields => b = [r EXCEPT !.next = r.next + 1, !.overrun = TRUE]
  BY DEF FillField, ReadOffset, Returning
<1> HIDE DEF stop
<1>2. r = ReadingOf(x.rv, stop, a.dst, a.next, x.pos, a.overrun)
  BY ReadingSet
<1> HIDE DEF r
<1>3. r.rv = x.rv /\ r.stop = stop /\ r.dst = a.dst /\ r.next = a.next /\ r.pos = x.pos /\ r.overrun = a.overrun /\ Reading(r)
  <2>1. a.next \in Nat /\ 1 <= a.next
    BY DEF Reading
  <2> QED
    BY <1>2, <2>1, ReadingHas
<1>4. ASSUME a.next \in DOMAIN a.dst.dsms[1].fields
      PROVE  b = ReadingOf(x.rv, stop, e, IF x.rv = "Good" THEN a.next + 1 ELSE a.next, x.pos, a.overrun)
  <2>1. b = [r EXCEPT !.dst.dsms[1].fields[k] = v, !.next = next]
    BY <1>1, <1>4
  <2>2. next = IF x.rv = "Good" THEN a.next + 1 ELSE a.next
    BY <1>3
  <2> HIDE DEF next
  <2>3. b = [r EXCEPT !.dst = e, !.next = next]
    BY <2>1, <1>3 DEF WithFirst
  <2> HIDE DEF e
  <2>4. b = ReadingOf(x.rv, stop, e, next, x.pos, a.overrun)
    <3>1. b = ReadingOf(r.rv, r.stop, e, next, r.pos, r.overrun)
      BY <1>3, <2>3, ReadingDstNext
    <3> QED
      BY <1>3, <3>1
  <2> QED
    BY <2>2, <2>4
<1>5. ASSUME a.next \notin DOMAIN a.dst.dsms[1].fields
      PROVE  b = ReadingOf(x.rv, stop, a.dst, a.next + 1, x.pos, Returning)
  <2> DEFINE l == a.next + 1
             o == Returning
  <2>1. b = [r EXCEPT !.next = l, !.overrun = o]
    BY <1>1, <1>3, <1>5 DEF Returning
  <2> HIDE DEF l, o
  <2>2. b = ReadingOf(x.rv, stop, a.dst, l, x.pos, o)
    <3>1. b = ReadingOf(r.rv, r.stop, r.dst, l, r.pos, o)
      BY <1>3, <2>1, ReadingOver
    <3> QED
      BY <1>3, <3>1
  <2> QED
    BY <2>2 DEF l, o
<1> QED
  BY <1>4, <1>5 DEF stop

\* What is read succeeds or fails to decode.
LEMMA ReadCodesAre ==
    ASSUME NEW src, NEW pos, NEW w
    PROVE  /\ Read(src, pos, w).rv \in ReadCodes
           /\ DecodeVariant(src, pos).rv \in ReadCodes
           /\ DecodeDataValue(src, pos).rv \in ReadCodes
<1>1. \A r, x : OrFail(r, pos, x).rv \in ReadCodes
  BY DEF OrFail, ReadCodes
<1>2. Read(src, pos, w).rv \in ReadCodes
  BY DEF Read, ReadCodes
<1>3. DecodeVariant(src, pos).rv \in ReadCodes
  BY <1>1 DEF DecodeVariant
<1>4. DecodeDataValue(src, pos).rv \in ReadCodes
  BY <1>1 DEF DecodeDataValue
<1> QED
  BY <1>2, <1>3, <1>4

\* One step along no field: b has the next field and the shape of a.
StandsStill(a, b) ==
    /\ Reading(b) /\ b.next = a.next /\ b.overrun = a.overrun
    /\ \A n : Shape(a.dst, n) => Shape(b.dst, n)

\* One step along a field.
StepsOn(a, b) ==
    /\ Reading(b) /\ b.next \in {a.next, a.next + 1}
    /\ a.next \in DOMAIN a.dst.dsms[1].fields => b.overrun = a.overrun
    /\ \A n : Shape(a.dst, n) => Shape(b.dst, n)

\* A number that is read is no field.
LEMMA SetNumberStands ==
    ASSUME NEW a, Reading(a), NEW x, x.rv \in ReadCodes, NEW f, NEW returns, NEW b, b = SetNumber(a, x, f, returns)
    PROVE  StandsStill(a, b)
<1> DEFINE stop == returns /\ x.rv # "Good"
           v == IF x.rv = "Good" THEN x.value ELSE 0
           e == WithNumber(a.dst, f, v)
<1>1. b = ReadingOf(x.rv, stop, e, a.next, x.pos, a.overrun)
  BY SetNumberIs
<1>2. \A n : Shape(a.dst, n) => Shape(e, n)
  <2> HIDE DEF v
  <2> QED
    BY ShapeKept
<1> HIDE DEF stop, e
<1>3. a.next \in Nat /\ 1 <= a.next
  BY DEF Reading
<1>4. Reading(b) /\ b.dst = e /\ b.next = a.next /\ b.overrun = a.overrun
  BY <1>1, <1>3, ReadingHas
<1> QED
  BY <1>2, <1>4 DEF StandsStill

\* The writer id is no field.
LEMMA SetWriterIdStands ==
    ASSUME NEW a, Reading(a), NEW x, x.rv \in ReadCodes, NEW b, b = SetWriterId(a, x)
    PROVE  StandsStill(a, b)
<1> DEFINE stop == Returning /\ x.rv # "Good"
           v == IF x.rv = "Good" THEN x.value ELSE 0
           e == WithWriterId(a.dst, v)
<1>1. b = ReadingOf(x.rv, stop, e, a.next, x.pos, a.overrun)
  BY SetWriterIdIs
<1>2. \A n : Shape(a.dst, n) => Shape(e, n)
  <2> HIDE DEF v
  <2> QED
    BY ShapeKept
<1> HIDE DEF stop, e
<1>3. a.next \in Nat /\ 1 <= a.next
  BY DEF Reading
<1>4. Reading(b) /\ b.dst = e /\ b.next = a.next /\ b.overrun = a.overrun
  BY <1>1, <1>3, ReadingHas
<1> QED
  BY <1>2, <1>4 DEF StandsStill

\* An offset that is not supported is no field.
LEMMA GivingUpStands ==
    ASSUME NEW a, Reading(a), NEW stop, NEW b, b = [a EXCEPT !.rv = "BadNotSupported", !.stop = stop]
    PROVE  StandsStill(a, b)
<1> DEFINE r == "BadNotSupported"
<1>1. b = [a EXCEPT !.rv = r, !.stop = stop] /\ r \in ReadCodes
  BY DEF ReadCodes
<1> HIDE DEF r
<1>2. b = ReadingOf(r, stop, a.dst, a.next, a.pos, a.overrun)
  BY <1>1, ReadingStop
<1>3. a.next \in Nat /\ 1 <= a.next
  BY DEF Reading
<1>4. Reading(b) /\ b.dst = a.dst /\ b.next = a.next /\ b.overrun = a.overrun
  BY <1>1, <1>2, <1>3, ReadingHas
<1> QED
  BY <1>4 DEF StandsStill

\* A value that is read goes into one field.
LEMMA FillFieldSteps ==
    ASSUME NEW a, Reading(a), NEW x, x.rv \in ReadCodes, NEW v, NEW b, b = FillField(a, x, v)
    PROVE  StepsOn(a, b)
<1> DEFINE stop == Returning /\ x.rv # "Good"
           e == WithFirst(a.dst, a.next, v)
           k == IF x.rv = "Good" THEN a.next + 1 ELSE a.next
           o == Returning
           l == a.next + 1
<1>1. /\ a.next \in DOMAIN a.dst.dsms[1].fields => b = ReadingOf(x.rv, stop, e, k, x.pos, a.overrun)
      /\ a.next \notin DOMAIN a.dst.dsms[1].fields => b = ReadingOf(x.rv, stop, a.dst, l, x.pos, o)
  BY FillFieldIs
<1>2. \A n : Shape(a.dst, n) => Shape(e, n)
  BY ShapeFilled
<1>3. k \in Nat /\ 1 <= k /\ l \in Nat /\ 1 <= l /\ k \in {a.next, a.next + 1} /\ l \in {a.next, a.next + 1}
  BY DEF Reading
<1> HIDE DEF stop, e, k, o, l
<1>4. CASE a.next \in DOMAIN a.dst.dsms[1].fields
  <2>1. b = ReadingOf(x.rv, stop, e, k, x.pos, a.overrun)
    BY <1>1, <1>4
  <2>2. Reading(b) /\ b.dst = e /\ b.next = k /\ b.overrun = a.overrun
    BY <1>3, <2>1, ReadingHas
  <2> QED
    BY <1>2, <1>3, <2>2 DEF StepsOn
<1>5. CASE a.next \notin DOMAIN a.dst.dsms[1].fields
  <2>1. b = ReadingOf(x.rv, stop, a.dst, l, x.pos, o)
    BY <1>1, <1>5
  <2>2. Reading(b) /\ b.dst = a.dst /\ b.next = l
    BY <1>3, <2>1, ReadingHas
  <2> QED
    BY <1>3, <1>5, <2>2 DEF StepsOn
<1> QED
  BY <1>4, <1>5

\* One offset: only that of a field moves on to the next field.
LEMMA ReadSteps ==
    ASSUME NEW a, Reading(a), NEW o, NEW src, NEW b, b = ReadNext(a, o, src, 0)
    PROVE  StandsStill(a, b) \/ (o.type \in FieldMarks /\ StepsOn(a, b))
<1> DEFINE p == o.offset + 0
           x == Read(src, p, PublisherIdWidth(a.dst.pubType))
           y == Read(src, p, 2)
           u == DecodeDataValue(src, p)
           w == DecodeVariant(src, p)
           c == WithValue(FieldNow(a), w)
<1>1. x.rv \in ReadCodes /\ y.rv \in ReadCodes /\ u.rv \in ReadCodes /\ w.rv \in ReadCodes
  BY ReadCodesAre
<1>2. CASE a.stop
  <2>1. b = a
    <3>1. NextRead(a, o, src, b)
      BY ReadNextIs
    <3> QED
      BY <1>2, <3>1 DEF NextRead
  <2> QED
    BY <2>1 DEF StandsStill
<1>3. CASE ~a.stop
  <2>1. \/ b = SetNumber(a, x, "publisherId", NotReturning)
        \/ b = SetNumber(a, y, "writerGroupId", Returning)
        \/ b = SetWriterId(a, y)
        \/ b = SetNumber(a, y, "sequenceNumber", Returning)
        \/ o.type = DataValueOffset /\ b = FillField(a, u, u.value)
        \/ o.type = VariantOffset /\ b = FillField(a, w, c)
        \/ b = [a EXCEPT !.rv = "BadNotSupported", !.stop = Returning]
    <3>2. NextRead(a, o, src, b)
      BY ReadNextIs
    <3> QED
      BY <1>3, <3>2 DEF NextRead
  <2> DEFINE v == u.value
  <2> HIDE DEF x, y, u, w, c, p
  <2>2. CASE b = SetNumber(a, x, "publisherId", NotReturning)
    BY <1>1, <2>2, SetNumberStands
  <2>3. CASE b = SetNumber(a, y, "writerGroupId", Returning)
    BY <1>1, <2>3, SetNumberStands
  <2>4. CASE b = SetWriterId(a, y)
    BY <1>1, <2>4, SetWriterIdStands
  <2>5. CASE b = SetNumber(a, y, "sequenceNumber", Returning)
    BY <1>1, <2>5, SetNumberStands
  <2>6. CASE o.type = DataValueOffset /\ b = FillField(a, u, u.value)
    <3>1. StepsOn(a, b)
      BY <1>1, <2>6, FillFieldSteps
    <3> QED
      BY <2>6, <3>1 DEF FieldMarks
  <2>7. CASE o.type = VariantOffset /\ b = FillField(a, w, c)
    <3>1. StepsOn(a, b)
      BY <1>1, <2>7, FillFieldSteps
    <3> QED
      BY <2>7, <3>1 DEF FieldMarks
  <2>8. CASE b = [a EXCEPT !.rv = "BadNotSupported", !.stop = Returning]
    BY <2>8, GivingUpStands
  <2> QED
    BY <2>1, <2>2, <2>3, <2>4, <2>5, <2>6, <2>7, <2>8
<1> QED
  BY <1>2, <1>3

\* d has the fields of the first DataSetMessage of m, where that has offsets for them.
HasFields(d, m) == m.dsms[1].type = KeyFrame => Shape(d, Len(m.dsms[1].fields))

\* There is one DataSetMessage.
OneDSM(d, m) == DSMCount(m) = 1 /\ HasFields(d, m)

\* What the update keeps to, behind c fields.
Within(a, c, d, m) ==
    /\ Reading(a) /\ a.next <= c + 1
    /\ \A n : Shape(d, n) => Shape(a.dst, n)
    /\ OneDSM(d, m) => ~a.overrun

\* One reading more, of one piece more.
LEMMA WithinStep ==
    ASSUME NEW c \in Nat, NEW d, NEW m \in NetworkMessages, NEW a, Within(a, c, d, m), NEW o, NEW src, NEW b, b = ReadNext(a, o, src, 0),
           NEW s, o.type = s.mark, Numbered(s, c, m), NEW reader, Legal(s, m, reader)
    PROVE  Within(b, c + Weight(s), d, m)
<1>1. Reading(a) /\ a.next \in Nat /\ 1 <= a.next /\ a.next <= c + 1 /\ (OneDSM(d, m) => ~a.overrun)
      /\ \A n : Shape(d, n) => Shape(a.dst, n)
  BY DEF Within, Reading
<1>2. StandsStill(a, b) \/ (o.type \in FieldMarks /\ StepsOn(a, b))
  BY <1>1, ReadSteps
<1>3. CASE StandsStill(a, b)
  <2>1. Reading(b) /\ b.next = a.next /\ b.overrun = a.overrun /\ \A n : Shape(a.dst, n) => Shape(b.dst, n)
    BY <1>3 DEF StandsStill
  <2>2. Weight(s) \in Nat
    BY DEF Weight
  <2>3. b.next <= (c + Weight(s)) + 1
    BY <1>1, <2>1, <2>2
  <2> QED
    BY <1>1, <2>1, <2>3 DEF Within
<1>4. CASE o.type \in FieldMarks /\ StepsOn(a, b)
  <2>1. Reading(b) /\ b.next \in {a.next, a.next + 1} /\ \A n : Shape(a.dst, n) => Shape(b.dst, n)
    BY <1>4 DEF StepsOn
  <2>2. Weight(s) = 1 /\ s.mark \in FieldMarks
    BY <1>4 DEF Weight
  <2>3. b.next <= (c + Weight(s)) + 1
    BY <1>1, <2>1, <2>2
  <2>4. ASSUME OneDSM(d, m)
        PROVE  ~b.overrun
    <3> DEFINE n == Len(m.dsms[1].fields)
    <3>1. DSMCount(m) = 1 /\ HasFields(d, m)
      BY <2>4 DEF OneDSM
    <3>2. s.dsm \in 1..DSMCount(m) /\ s.field \in 1..Len(m.dsms[s.dsm].fields) /\ m.dsms[s.dsm].type = KeyFrame
      BY <2>2 DEF Legal, FieldMarks
    <3>3. s.dsm = 1 /\ s.field \in 1..n
      BY <3>1, <3>2
    <3>9. Shape(a.dst, n)
      BY <1>1, <3>1, <3>2, <3>3 DEF HasFields
    <3>4. s.field = c + 1
      BY <2>2, <3>1 DEF Numbered
    <3>8. n \in Nat
      <4>1. 1 \in 1..DSMCount(m)
        BY <3>1
      <4>2. m.dsms[1] \in DataSetMessages
        BY <4>1, SizesFit
      <4> QED
        BY <4>2, DSMHas DEF Unsigned
    <3> HIDE DEF n
    <3>5. a.next \in 1..n
      BY <1>1, <3>3, <3>4, <3>8
    <3>6. DOMAIN a.dst.dsms[1].fields = 1..n
      BY <3>9 DEF Shape
    <3>7. b.overrun = a.overrun
      BY <1>4, <3>5, <3>6 DEF StepsOn
    <3> QED
      BY <1>1, <2>4, <3>7
  <2> QED
    BY <1>1, <2>1, <2>3, <2>4 DEF Within
<1> QED
  BY <1>2, <1>3, <1>4

\* The offsets of the subscriber.
SubscriberPieces(m)  == MessagePieces(m, TRUE)
SubscriberOffsets(m) == Offsets(m, TRUE)

\* All of its pieces are those of the message.
LEMMA SubscriberPiecesAre ==
    ASSUME NEW m \in NetworkMessages, Sendable(m), NEW P, P = SubscriberPieces(m)
    PROVE  /\ P \in Seq(Spans) /\ \A k \in 1..Len(P) : \E reader : Legal(P[k], m, reader)
           /\ Tally(P, 0, FieldsUpTo(m, DSMCount(m)), m)
           /\ SubscriberOffsets(m) = Noting(P).offsets
<1> DEFINE reader == TRUE
           x == MessageBytes(m)
<1>1. reader \in BOOLEAN /\ P = MessagePieces(m, reader)
  BY DEF SubscriberPieces
<1> HIDE DEF reader, x
<1>2. Alike(m, m) /\ AllEncodable(m)
  BY DEF Alike, AlikeDSM, AlikeField, Sendable
<1>3. PICK q : Along(x, x, m, P, q, reader)
  BY <1>1, <1>2, MessageAlong DEF x
<1>4. P \in Seq(Spans) /\ Walk(P, 0, q, Good(x, x, m, reader))
  BY <1>3 DEF Along
<1>5. PICK L : WalkedBy(P, 0, q, Good(x, x, m, reader), L)
  BY <1>4 DEF Walk
<1>6. ASSUME NEW k \in 1..Len(P)
      PROVE  Legal(P[k], m, reader)
  <2>1. <<P[k], L[k - 1]>> \in Good(x, x, m, reader)
    BY <1>5 DEF WalkedBy
  <2>2. Holding(P[k], L[k - 1], x, x, m, reader)
    BY <2>1 DEF Good
  <2> QED
    BY <2>2 DEF Holding
<1>7. Tally(P, 0, FieldsUpTo(m, DSMCount(m)), m)
  BY <1>1, <1>2, MessageTally
<1>8. SubscriberOffsets(m) = Noting(P).offsets
  BY DEF SubscriberOffsets, SubscriberPieces, Offsets
<1> QED
  BY <1>4, <1>6, <1>7, <1>8

\* Along all offsets.
LEMMA ReadWithin ==
    ASSUME NEW m \in NetworkMessages, Sendable(m), NEW d, NEW src, NEW O, O = SubscriberOffsets(m),
           NEW u, u = UpdateBufferedNwMessage(d, O, src, 0)
    PROVE  Within(u, FieldsUpTo(m, DSMCount(m)), d, m)
<1> DEFINE P == SubscriberPieces(m)
           q == FieldsUpTo(m, DSMCount(m))
           n == Len(P)
           W == Weighed(P)
<1>1. P \in Seq(Spans) /\ (\A k \in 1..n : \E reader : Legal(P[k], m, reader)) /\ Tally(P, 0, q, m) /\ O = Noting(P).offsets
  BY SubscriberPiecesAre
<1> HIDE DEF P, q
<1>2. PICK M, J : Noticed(P, M, J, O)
  BY <1>1, NotingNotes
<1>3. PICK C : WalkedBy(W, 0, q, Counting(m), C)
  BY <1>1 DEF Tally, Walk
<1>4. Len(O) \in Nat /\ n \in Nat
  BY <1>1, <1>2 DEF Noticed
<1>5. PICK f : ReadBy(d, O, src, f) /\ u = f[Len(O)]
  BY <1>4, ReadRuns
<1>6. f[0] = ReadingFrom(d) /\ \A k \in 1..Len(O) : f[k] = ReadNext(f[k - 1], O[k], src, 0)
  BY <1>5 DEF ReadBy
<1>7. /\ J \in [0..n -> 0..Len(O)] /\ J[0] = 0 /\ J[n] = Len(O)
      /\ \A k \in 1..n : /\ P[k].mark = Unmarked => J[k] = J[k - 1]
                         /\ P[k].mark # Unmarked => J[k] = J[k - 1] + 1 /\ O[J[k]] = OffsetAt(P[k], M[k - 1])
  BY <1>2 DEF Noticed
<1>8. /\ Len(W) = n
      /\ \A k \in 1..n : W[k].size = Weight(P[k]) /\ W[k].mark = P[k].mark /\ W[k].field = P[k].field
  BY <1>1, WeighedType
<1> HIDE DEF W, n
<1>9. /\ C \in [0..n -> Nat] /\ C[0] = 0 /\ C[n] = q
      /\ \A k \in 1..n : C[k] = C[k - 1] + Weight(P[k]) /\ Numbered(W[k], C[k - 1], m)
  BY <1>3, <1>8 DEF WalkedBy, Counting
<1> DEFINE T == {k \in Nat : k <= n => Within(f[J[k]], C[k], d, m)}
<1>10. 0 \in T
  <2>1. f[J[0]] = ReadingFrom(d)
    BY <1>6, <1>7
  <2> DEFINE a == ReadingFrom(d)
  <2>2. a.rv = "Good" /\ a.dst = d /\ a.next = 1 /\ a.overrun = FALSE
        /\ a = ReadingOf(a.rv, a.stop, a.dst, a.next, a.pos, a.overrun)
    BY DEF ReadingFrom, ReadingOf
  <2> HIDE DEF a
  <2>3. Within(a, 0, d, m)
    BY <2>2 DEF Within, Reading, ReadCodes
  <2> QED
    BY <1>9, <2>1, <2>3 DEF a
<1>11. ASSUME NEW k \in Nat, k \in T
       PROVE  k + 1 \in T
  <2> SUFFICES ASSUME k + 1 <= n PROVE Within(f[J[k + 1]], C[k + 1], d, m)
    OBVIOUS
  <2> DEFINE j == k + 1
             a == f[J[k]]
             s == P[j]
             c == C[k]
             i == J[k]
  <2>1. j \in 1..n /\ j - 1 = k /\ k <= n /\ k \in 0..n /\ j \in 0..n
    BY <1>4
  <2>2. Within(a, c, d, m)
    BY <1>11, <2>1
  <2>3. c \in Nat /\ C[j] = c + Weight(s) /\ Numbered(W[j], c, m)
    BY <1>9, <2>1
  <2>4. Numbered(s, c, m)
    BY <1>8, <2>1, <2>3 DEF Numbered, Backed
  <2>5. PICK reader : Legal(s, m, reader)
    BY <1>1, <2>1 DEF n
  <2>6. CASE s.mark = Unmarked
    <3>1. J[j] = i
      BY <1>7, <2>1, <2>6
    <3>2. Weight(s) = 0
      BY <2>6 DEF Weight, FieldMarks, Unmarked, DataValueOffset, VariantOffset
    <3>3. C[j] = c
      BY <2>3, <3>2
    <3> QED
      BY <2>2, <3>1, <3>3
  <2>7. CASE s.mark # Unmarked
    <3> DEFINE o == O[J[j]]
               b == f[J[j]]
    <3>1. J[j] = i + 1 /\ o = OffsetAt(s, M[k])
      BY <1>7, <2>1, <2>7
    <3>2. i \in Nat /\ J[j] \in 0..Len(O)
      BY <1>7, <2>1
    <3>3. J[j] \in 1..Len(O) /\ J[j] - 1 = i
      BY <1>4, <3>1, <3>2
    <3>4. b = ReadNext(a, o, src, 0)
      BY <1>6, <3>3
    <3>5. o.type = s.mark
      BY <3>1 DEF OffsetAt
    <3> HIDE DEF a, b, s, c, i, j, o
    <3>6. Within(b, c + Weight(s), d, m)
      BY <2>2, <2>3, <2>4, <2>5, <3>4, <3>5, WithinStep
    <3> QED
      BY <2>3, <3>6 DEF b, j
  <2> QED
    BY <2>6, <2>7
<1>12. Within(f[J[n]], C[n], d, m)
  <2>1. \A k \in Nat : k \in T
    <3> HIDE DEF T
    <3> QED
      BY <1>10, <1>11, Induction
  <2> QED
    BY <1>4, <2>1
<1> QED
  BY <1>5, <1>7, <1>9, <1>12 DEF q

\* All fields of the first k DataSetMessages.
AllFields(m, k) == SumFunction([i \in 1..k |-> Len(m.dsms[i].fields)])

\* The fields of one DataSetMessage more, with offsets or without.
LEMMA AllFieldsMore ==
    ASSUME NEW m \in NetworkMessages
    PROVE  /\ AllFields(m, 0) = 0
           /\ \A k \in 1..Len(m.dsms) : AllFields(m, k) = AllFields(m, k - 1) + Len(m.dsms[k].fields)
                                        /\ Len(m.dsms[k].fields) \in Nat /\ AllFields(m, k - 1) \in Nat
<1> DEFINE n == Len(m.dsms)
           F == [i \in 1..n |-> Len(m.dsms[i].fields)]
<1>0. m.dsms \in Seq(DataSetMessages)
  BY MessageHas
<1>1. n \in Nat /\ \A i \in 1..n : m.dsms[i] \in DataSetMessages
  BY <1>0
<1>2. \A i \in 1..n : F[i] = Len(m.dsms[i].fields) /\ F[i] \in Nat
  <2> TAKE i \in 1..n
  <2>1. Len(m.dsms[i].fields) \in Nat
    BY <1>1, DSMHas DEF Unsigned
  <2> QED
    BY <2>1
<1> HIDE DEF n, F
<1>3. ASSUME NEW k \in 0..n
      PROVE  AllFields(m, k) = SumFunction([i \in 1..k |-> F[i]])
  <2>1. [i \in 1..k |-> Len(m.dsms[i].fields)] = [i \in 1..k |-> F[i]]
    BY <1>1, <1>2
  <2> QED
    BY <2>1 DEF AllFields
<1>4. AllFields(m, 0) = 0
  <2>0. 0 \in 0..n
    BY <1>1
  <2>1. AllFields(m, 0) = SumFunction([i \in 1..0 |-> F[i]])
    BY <1>3, <2>0
  <2> QED
    BY <2>1, SumEmpty
<1>5. ASSUME NEW k \in 1..n
      PROVE  AllFields(m, k) = AllFields(m, k - 1) + Len(m.dsms[k].fields)
             /\ Len(m.dsms[k].fields) \in Nat /\ AllFields(m, k - 1) \in Nat
  <2> DEFINE j == k - 1
  <2>1. j \in Nat /\ j + 1 = k /\ j \in 0..n /\ k \in 0..n
    BY <1>1
  <2>2. \A i \in 1..k : F[i] \in Nat
    BY <1>1, <1>2
  <2>3. F[k] = Len(m.dsms[k].fields) /\ F[k] \in Nat
    BY <1>2
  <2> HIDE DEF j
  <2>4. /\ SumFunction([i \in 1..(j + 1) |-> F[i]]) = SumFunction([i \in 1..j |-> F[i]]) + F[j + 1]
        /\ SumFunction([i \in 1..j |-> F[i]]) \in Nat
    BY <2>1, <2>2, SumAppend
  <2>5. AllFields(m, k) = AllFields(m, j) + F[k] /\ AllFields(m, j) \in Nat
    BY <1>3, <2>1, <2>4
  <2> QED
    BY <2>3, <2>5 DEF j
<1> QED
  BY <1>4, <1>5 DEF n

\* Those with offsets are some of them.
LEMMA FieldsUpToAll ==
    ASSUME NEW m \in NetworkMessages
    PROVE  /\ FieldsUpTo(m, DSMCount(m)) <= AllFields(m, Len(m.dsms)) /\ FieldsUpTo(m, DSMCount(m)) \in Nat
           /\ AllFields(m, Len(m.dsms)) \in Nat
<1> DEFINE n == Len(m.dsms)
           c == DSMCount(m)
           Up(k) == FieldsUpTo(m, IF k <= c THEN k ELSE c)
           T == {k \in Nat : k <= n => Up(k) <= AllFields(m, k) /\ Up(k) \in Nat /\ AllFields(m, k) \in Nat}
<1>0. m.dsms \in Seq(DataSetMessages) /\ DSMCount(m) <= Len(m.dsms) /\ DSMCount(m) \in Nat
  BY MessageHas
<1>1. n \in Nat /\ c \in Nat /\ c <= n
  BY <1>0
<1>2. /\ FieldsUpTo(m, 0) = 0
      /\ \A k \in 0..n : FieldsUpTo(m, k) \in Nat
      /\ \A k \in 1..n : FieldsUpTo(m, k) = FieldsUpTo(m, k - 1) + FieldsCounted(m.dsms[k])
  BY FieldsUpToMore
<1>3. /\ AllFields(m, 0) = 0
      /\ \A k \in 1..n : AllFields(m, k) = AllFields(m, k - 1) + Len(m.dsms[k].fields) /\ Len(m.dsms[k].fields) \in Nat
  BY AllFieldsMore
<1> HIDE DEF n, c
<1>4. 0 \in T
  BY <1>1, <1>2, <1>3
<1>5. ASSUME NEW k \in Nat, k \in T
      PROVE  k + 1 \in T
  <2> SUFFICES ASSUME k + 1 <= n
               PROVE  Up(k + 1) <= AllFields(m, k + 1) /\ Up(k + 1) \in Nat /\ AllFields(m, k + 1) \in Nat
    OBVIOUS
  <2> DEFINE j == k + 1
             l == Len(m.dsms[j].fields)
             g == FieldsCounted(m.dsms[j])
  <2>1. j \in 1..n /\ j - 1 = k /\ k <= n
    BY <1>1
  <2>2. Up(k) <= AllFields(m, k) /\ Up(k) \in Nat /\ AllFields(m, k) \in Nat
    BY <1>5, <2>1
  <2>3. AllFields(m, j) = AllFields(m, k) + l /\ l \in Nat
    BY <1>3, <2>1
  <2>4. FieldsUpTo(m, j) = FieldsUpTo(m, k) + g
    BY <1>2, <2>1
  <2>5. g <= l /\ g \in Nat
    BY <2>3 DEF FieldsCounted
  <2>6. CASE j <= c
    <3>1. Up(j) = FieldsUpTo(m, j) /\ Up(k) = FieldsUpTo(m, k)
      BY <2>1, <2>6, <1>1
    <3> HIDE DEF Up, j, l, g
    <3>2. Up(j) <= AllFields(m, j) /\ Up(j) \in Nat /\ AllFields(m, j) \in Nat
      BY <2>2, <2>3, <2>4, <2>5, <3>1
    <3> QED
      BY <3>2 DEF j
  <2>7. CASE ~(j <= c)
    <3>1. Up(j) = FieldsUpTo(m, c)
      BY <2>7
    <3>2. Up(k) = FieldsUpTo(m, c)
      BY <1>1, <2>7
    <3> HIDE DEF Up, j, l, g
    <3>3. Up(j) <= AllFields(m, j) /\ Up(j) \in Nat /\ AllFields(m, j) \in Nat
      BY <2>2, <2>3, <3>1, <3>2
    <3> QED
      BY <3>3 DEF j
  <2> QED
    BY <2>6, <2>7
<1>6. n \in T
  <2> HIDE DEF T
  <2> QED
    BY <1>1, <1>4, <1>5, Induction
<1>7. Up(n) = FieldsUpTo(m, c)
  BY <1>1
<1> QED
  BY <1>1, <1>6, <1>7 DEF n, c

\* Messages alike have as many fields.
LEMMA AlikeFields ==
    ASSUME NEW m \in NetworkMessages, NEW w \in NetworkMessages, Alike(m, w)
    PROVE  AllFields(m, Len(m.dsms)) = AllFields(w, Len(w.dsms))
<1> DEFINE n == Len(w.dsms)
<1>1. Len(m.dsms) = n /\ \A i \in 1..n : Len(m.dsms[i].fields) = Len(w.dsms[i].fields)
  BY DEF Alike, AlikeDSM
<1>2. [i \in 1..n |-> Len(m.dsms[i].fields)] = [i \in 1..n |-> Len(w.dsms[i].fields)]
  BY <1>1
<1> QED
  BY <1>1, <1>2 DEF AllFields

\* What the subscriber decodes is the message that was sent.
LEMMA DecodedIs ==
    ASSUME NEW b \in NetworkMessages, Sendable(b), CalcSize(b) <= MaxDatagram,
           NEW d, d = DecodeBinary(MessageBytes(b)).dst, NEW r, r = DecodeInternal(MessageBytes(b))
    PROVE  Received(d, b) /\ d \in LooseMessages /\ r.rv = "Good" /\ d = r.dst
<1> DEFINE src == MessageBytes(b)
           x == DecodeInternal(src)
           n == CalcSize(b)
<1>1. src \in Seq(Octet) /\ Len(src) = n /\ n \in Nat
  <2>1. n \in Nat
    BY MessagePiece
  <2> QED
    BY <2>1, EncodeFits
<1>2. Len(src) < 65536
  BY <1>1, SMT DEF MaxDatagram
<1>3. "promoted" \in b.on => PromotedSize(b) < 65536
  BY <1>2, SizesOfPacket
<1> HIDE DEF src
<1>4. Follows(src, 0, src)
  <2>1. \A i \in 1..Len(src) : 0 + i = i
    BY <1>1
  <2> QED
    BY <2>1 DEF Follows
<1>5. Follows(src, 0, MessageBytes(b))
  BY <1>4 DEF src
<1>6. Reached(src, 0, MessageBytes(b), x) /\ (x.rv = "Good" => Received(x.dst, b))
  BY <1>1, <1>3, <1>5, MessageReads
<1>7. x.dst \in LooseMessages
  BY <1>1, DecodeTidy
<1>8. d = ClearIfFailed(x).dst
  BY DEF DecodeBinary, src
<1> HIDE DEF x
<1>9. x.rv = "Good"
  <2>1. 0 + Len(src) <= Len(src)
    BY <1>1
  <2> QED
    BY <1>6, <2>1 DEF Reached, src
<1>10. d = x.dst
  BY <1>8, <1>9 DEF ClearIfFailed
<1>11. r = x
  BY DEF x, src
<1> QED
  BY <1>6, <1>7, <1>9, <1>10, <1>11

\* It has the same offsets, and the fields of its first DataSetMessage.
LEMMA DecodedHas ==
    ASSUME NEW b \in NetworkMessages, Sendable(b), NEW d \in LooseMessages, Received(d, b)
    PROVE  SubscriberOffsets(d) = SubscriberOffsets(b) /\ (DSMCount(b) = 1 => HasFields(d, b))
<1>1. SubscriberOffsets(d) = SubscriberOffsets(b)
  <2> DEFINE reader == TRUE
  <2> HIDE DEF reader
  <2>1. MessagePieces(d, reader) = MessagePieces(b, reader)
    BY DeliveredPieces
  <2> QED
    BY <2>1 DEF SubscriberOffsets, Offsets, reader
<1>2. ASSUME DSMCount(b) = 1, b.dsms[1].type = KeyFrame
      PROVE  Shape(d, Len(b.dsms[1].fields))
  <2> DEFINE e == d.dsms[1]
             c == b.dsms[1]
  <2>1. d.dsms = ReceivedAll(b)
    BY DEF Received, Paid
  <2>2. 1 \in DOMAIN d.dsms /\ e = ReceivedDSM(c)
    BY <1>2, <2>1 DEF ReceivedAll
  <2>3. "dsms" \in DOMAIN d /\ d.dsms \in Seq(LooseDSMs)
    BY DEF LooseMessages
  <2>4. e \in LooseDSMs
    BY <2>2, <2>3
  <2>5. c \in DataSetMessages
    BY <1>2, SizesFit
  <2>6. DOMAIN e.fields = 1..Len(c.fields)
    BY <1>2, <2>2, <2>5, ReceivedHas DEF KeyFrame, KeepAlive
  <2>7. "fields" \in DOMAIN e
    BY <2>4 DEF LooseDSMs
  <2> QED
    BY <2>2, <2>3, <2>6, <2>7 DEF Shape
<1> QED
  BY <1>1, <1>2 DEF HasFields

---------------------------------------------------------------------------
(* Messages with one key frame, the only ones the subscriber keeps up to date. *)

\* What Readable says of a message that has been sent.
Single(m) ==
    /\ DSMCount(m) = 1 /\ m.dsms[1].type = KeyFrame /\ "sequenceNr" \notin m.dsms[1].on
    /\ m.on \cap {"timestamp", "picoseconds"} = {} /\ ~("publisherId" \in m.on /\ m.pubType = StringId)

\* Its payload header, if there is one, has one writer.
LEMMA ReadableSingle ==
    ASSUME NEW m \in NetworkMessages, Sendable(m), Readable(m)
    PROVE  Single(m) /\ ("payloadHeader" \in m.on => Len(m.ids) = 1)
<1>1. /\ m.on \cap {"timestamp", "picoseconds"} = {} /\ Len(m.dsms) = 1 /\ "sequenceNr" \notin m.dsms[1].on
      /\ ~("publisherId" \in m.on /\ m.pubType = StringId)
      /\ \A i \in DOMAIN m.dsms : ScalarFields(m.dsms[i])
  BY DEF Readable, Writeable
<1>2. DSMCount(m) <= 1 /\ m.ids \in Seq(Unsigned(2)) /\ m.dsms \in Seq(DataSetMessages)
  <2>1. DSMCount(m) <= Len(m.dsms) /\ m.ids \in Seq(Unsigned(2)) /\ m.dsms \in Seq(DataSetMessages)
    BY MessageHas
  <2> QED
    BY <1>1, <2>1
<1>3. m.dsms[1].type = KeyFrame
  <2>1. 1 \in DOMAIN m.dsms
    BY <1>1, <1>2
  <2> QED
    BY <1>1, <2>1 DEF ScalarFields
<1>4. "payloadHeader" \in m.on => m.ids # <<>>
  BY DEF Sendable, NoWriters
<1>5. "payloadHeader" \in m.on => Len(m.ids) = 1
  <2> SUFFICES ASSUME "payloadHeader" \in m.on PROVE Len(m.ids) = 1
    OBVIOUS
  <2>1. Len(m.ids) <= 1 /\ m.ids # <<>>
    BY <1>2, <1>4 DEF DSMCount
  <2> DEFINE U == Unsigned(2)
             s == m.ids
  <2>2. s \in Seq(U) /\ Len(s) <= 1 /\ s # <<>>
    BY <1>2, <2>1
  <2> HIDE DEF U, s
  <2> DEFINE l == Len(s)
  <2>3. l \in Nat /\ l # 0 /\ l <= 1
    BY <2>2
  <2> HIDE DEF l
  <2>5. l = 1
    BY <2>3
  <2>4. Len(s) = 1
    BY <2>5 DEF l
  <2> QED
    BY <2>4 DEF s
<1>6. DSMCount(m) = 1
  BY <1>5 DEF DSMCount
<1> QED
  BY <1>1, <1>3, <1>5, <1>6 DEF Single

---------------------------------------------------------------------------
(* Two messages that agree but for what has an offset. *)

FixedMembers == {"on", "version", "pubType", "nmType", "pubString", "count", "promoted", "nonce",
                 "footer", "signature", "sizes", "heap"}
FrameParts   == {"on", "type", "enc", "val", "count", "owns"}

\* The mark of a number field, no mark at all for most of them.
NumberMark(f) ==
    IF f = "publisherId" THEN PublisherIdOffset
    ELSE IF f = "writerGroupId" THEN GroupIdOffset
    ELSE IF f = "sequenceNumber" THEN SequenceOffset ELSE "unmarked"

\* As many fields, and only values where the encoding has no more.
LikeFields(s, t, enc) ==
    Len(s) = Len(t) /\ \A i \in 1..Len(t) : enc = VariantEncoding => s[i] = OnlyValue(s[i].value)

\* d is e but for the fields of the DataSetMessage and the numbers marked in T.
Near(d, e, T) ==
    /\ d \in LooseMessages /\ e \in LooseMessages
    /\ \A f \in FixedMembers : d[f] = e[f]
    /\ \A f \in NMFields : NumberMark(f) \in T \/ d.val[f] = e.val[f]
    /\ Len(d.ids) = Len(e.ids) /\ (WriterIdOffset \in T \/ d.ids = e.ids)
    /\ Len(d.dsms) = 1 /\ Len(e.dsms) = 1
    /\ \A f \in FrameParts : d.dsms[1][f] = e.dsms[1][f]
    /\ LikeFields(d.dsms[1].fields, e.dsms[1].fields, e.dsms[1].enc)

\* More may differ.
LEMMA NearMore ==
    ASSUME NEW d, NEW e, NEW T, Near(d, e, T), NEW U, T \subseteq U
    PROVE  Near(d, e, U)
BY DEF Near

\* Two that are near a third one.
LEMMA NearTurn ==
    ASSUME NEW d, NEW e, NEW c, NEW T, Near(d, c, T), Near(e, c, T)
    PROVE  Near(d, e, T)
<1>1. d \in LooseMessages /\ e \in LooseMessages /\ \A f \in FixedMembers : d[f] = e[f]
  BY DEF Near
<1>2. \A f \in NMFields : NumberMark(f) \in T \/ d.val[f] = e.val[f]
  BY DEF Near
<1>3. /\ Len(d.ids) = Len(e.ids) /\ (WriterIdOffset \in T \/ d.ids = e.ids) /\ Len(d.dsms) = 1 /\ Len(e.dsms) = 1
      /\ \A f \in FrameParts : d.dsms[1][f] = e.dsms[1][f]
  BY DEF Near
<1>4. e.dsms[1].enc = c.dsms[1].enc
  BY DEF Near, FrameParts
<1>5. LikeFields(d.dsms[1].fields, e.dsms[1].fields, e.dsms[1].enc)
  BY <1>4 DEF Near, LikeFields
<1> QED
  BY <1>1, <1>2, <1>3, <1>5 DEF Near

\* Nothing differs.
LEMMA NearSame ==
    ASSUME NEW d, NEW e, Near(d, e, {}), FirstFields(d) = FirstFields(e)
    PROVE  d = e
<1>1. d \in LooseMessages /\ e \in LooseMessages
  BY DEF Near
<1>2. d.val = e.val
  <2>1. d.val \in [NMFields -> Nat] /\ e.val \in [NMFields -> Nat]
    BY <1>1 DEF LooseMessages
  <2>2. \A f \in NMFields : d.val[f] = e.val[f]
    BY DEF Near
  <2> QED
    BY <2>1, <2>2
<1>3. d.dsms = e.dsms
  <2> DEFINE s == d.dsms
             t == e.dsms
             M == LooseDSMs
  <2>1. s \in Seq(M) /\ t \in Seq(M) /\ Len(s) = 1 /\ Len(t) = 1
    BY <1>1 DEF LooseMessages, Near
  <2>2. \A f \in FrameParts : s[1][f] = t[1][f]
    BY DEF Near
  <2>3. s[1].fields = t[1].fields
    BY DEF FirstFields
  <2> HIDE DEF s, t
  <2>4. s[1] \in M /\ t[1] \in M
    BY <2>1
  <2>5. s[1] = t[1]
    BY <2>2, <2>3, <2>4 DEF FrameParts, LooseDSMs
  <2> HIDE DEF M
  <2>6. s = t
    BY <2>1, <2>5
  <2> QED
    BY <2>6 DEF s, t
<1>4. d.ids = e.ids /\ \A f \in FixedMembers : d[f] = e[f]
  BY DEF Near
<1>5. /\ d.on = e.on /\ d.version = e.version /\ d.pubType = e.pubType /\ d.nmType = e.nmType
      /\ d.pubString = e.pubString /\ d.count = e.count /\ d.promoted = e.promoted /\ d.nonce = e.nonce
      /\ d.footer = e.footer /\ d.signature = e.signature /\ d.sizes = e.sizes /\ d.heap = e.heap
  BY <1>4 DEF FixedMembers
<1> DEFINE D == {"on", "version", "pubType", "nmType", "val", "pubString", "ids", "count", "promoted",
                 "nonce", "footer", "signature", "dsms", "sizes", "heap"}
<1>6. d = [f \in D |-> d[f]] /\ e = [f \in D |-> e[f]]
  BY <1>1 DEF LooseMessages
<1>7. \A f \in D : d[f] = e[f]
  BY <1>2, <1>3, <1>4, <1>5
<1> HIDE DEF D
<1> QED
  BY <1>6, <1>7

\* The numbers that may have an offset.
MarkedNumbers == {"publisherId", "writerGroupId", "sequenceNumber"}

\* A number is set; when it is right it no longer differs.
LEMMA NearNumber ==
    ASSUME NEW d, NEW e, NEW T, Near(d, e, T), NEW f \in MarkedNumbers, NEW v \in Nat,
           NEW c, c = WithNumber(d, f, v), NumberMark(f) \in T
    PROVE  /\ Near(c, e, T) /\ FirstFields(c) = FirstFields(d)
           /\ v = e.val[f] => \A U : T \subseteq U \cup {NumberMark(f)} => Near(c, e, U)
<1> DEFINE s == [d.val EXCEPT ![f] = v]
<1>1. d \in LooseMessages /\ e \in LooseMessages /\ d.val \in [NMFields -> Nat] /\ f \in NMFields
  BY DEF Near, LooseMessages, NMFields, MarkedNumbers
<1>2. s \in [NMFields -> Nat] /\ s[f] = v /\ \A g \in NMFields \ {f} : s[g] = d.val[g]
  BY <1>1
<1>3. c = [d EXCEPT !.val = s]
  BY DEF WithNumber
<1> HIDE DEF s
<1>4. /\ c \in LooseMessages /\ c.val = s /\ c.ids = d.ids /\ c.dsms = d.dsms
      /\ \A g \in FixedMembers : c[g] = d[g]
  BY <1>1, <1>2, <1>3 DEF LooseMessages, FixedMembers
<1>5. FirstFields(c) = FirstFields(d)
  BY <1>4 DEF FirstFields
<1>6. Near(c, e, T)
  <2>1. \A g \in NMFields : NumberMark(g) \in T \/ c.val[g] = e.val[g]
    BY <1>2, <1>4 DEF Near
  <2> QED
    BY <1>4, <2>1 DEF Near
<1>7. ASSUME v = e.val[f], NEW U, T \subseteq U \cup {NumberMark(f)} PROVE Near(c, e, U)
  <2>1. \A g \in NMFields \ {f} : NumberMark(g) # NumberMark(f)
    BY DEF NumberMark, PublisherIdOffset, GroupIdOffset, SequenceOffset, MarkedNumbers
  <2>2. WriterIdOffset # NumberMark(f)
    BY DEF NumberMark, PublisherIdOffset, GroupIdOffset, SequenceOffset, WriterIdOffset, MarkedNumbers
  <2>3. \A g \in NMFields : NumberMark(g) \in U \/ c.val[g] = e.val[g]
    <3>1. \A g \in NMFields : NumberMark(g) \in T \/ d.val[g] = e.val[g]
      BY DEF Near
    <3> QED
      BY <1>2, <1>4, <1>7, <2>1, <3>1
  <2>4. WriterIdOffset \in U \/ c.ids = e.ids
    BY <1>4, <1>7, <2>2 DEF Near
  <2> QED
    BY <1>4, <2>3, <2>4 DEF Near
<1> QED
  BY <1>5, <1>6, <1>7

\* The writer id is set.
LEMMA NearWriter ==
    ASSUME NEW d, NEW e, NEW T, Near(d, e, T), NEW v \in Nat, 1 \in DOMAIN d.ids, Len(d.ids) = 1,
           NEW c, c = WithWriterId(d, v), WriterIdOffset \in T
    PROVE  /\ Near(c, e, T) /\ FirstFields(c) = FirstFields(d)
           /\ v = e.ids[1] => \A U : T \subseteq U \cup {WriterIdOffset} => Near(c, e, U)
<1> DEFINE i == d.ids
           j == e.ids
           s == [i EXCEPT ![1] = v]
<1>1. d \in LooseMessages /\ e \in LooseMessages /\ i \in Seq(Nat) /\ j \in Seq(Nat) /\ Len(i) = 1 /\ Len(j) = 1
  BY DEF Near, LooseMessages
<1>2. c = [d EXCEPT !.ids = s]
  BY DEF WithWriterId
<1>3. s \in Seq(Nat) /\ Len(s) = 1 /\ (v = j[1] => s = j)
  <2> HIDE DEF i, j
  <2> QED
    BY <1>1
<1> HIDE DEF s
<1>4. /\ c \in LooseMessages /\ c.ids = s /\ c.val = d.val /\ c.dsms = d.dsms
      /\ \A g \in FixedMembers : c[g] = d[g]
  BY <1>1, <1>2, <1>3 DEF LooseMessages, FixedMembers
<1>5. FirstFields(c) = FirstFields(d)
  BY <1>4 DEF FirstFields
<1>6. Near(c, e, T)
  BY <1>1, <1>3, <1>4 DEF Near
<1>7. ASSUME v = e.ids[1], NEW U, T \subseteq U \cup {WriterIdOffset} PROVE Near(c, e, U)
  <2>1. \A g \in NMFields : NumberMark(g) # WriterIdOffset
    BY DEF NumberMark, PublisherIdOffset, GroupIdOffset, SequenceOffset, WriterIdOffset
  <2>2. \A g \in NMFields : NumberMark(g) \in U \/ c.val[g] = e.val[g]
    <3>1. \A g \in NMFields : NumberMark(g) \in T \/ d.val[g] = e.val[g]
      BY DEF Near
    <3> QED
      BY <1>4, <1>7, <2>1, <3>1
  <2>3. c.ids = e.ids
    BY <1>3, <1>4, <1>7
  <2> QED
    BY <1>4, <2>2, <2>3 DEF Near
<1> QED
  BY <1>5, <1>6, <1>7

\* A field is filled.
LEMMA NearFilled ==
    ASSUME NEW d, NEW e, NEW T, Near(d, e, T), NEW k \in 1..Len(FirstFields(d)), NEW v \in LooseValues,
           e.dsms[1].enc = VariantEncoding => v = OnlyValue(v.value), NEW c, c = WithFirst(d, k, v)
    PROVE  /\ Near(c, e, T) /\ Len(FirstFields(c)) = Len(FirstFields(d)) /\ FirstFields(c)[k] = v
           /\ \A i \in 1..Len(FirstFields(d)) \ {k} : FirstFields(c)[i] = FirstFields(d)[i]
<1> DEFINE s == FirstFields(d)
           t == [s EXCEPT ![k] = v]
           u == [d.dsms[1] EXCEPT !.fields = t]
           w == [d.dsms EXCEPT ![1] = u]
           M == LooseDSMs
           z == d.dsms
           V == LooseValues \cup LooseDeltas
<1>1. d \in LooseMessages /\ e \in LooseMessages /\ z \in Seq(M) /\ Len(z) = 1
  BY DEF Near, LooseMessages
<1>2. z[1] \in M
  <2> HIDE DEF z, M
  <2> QED
    BY <1>1
<1>3. s \in Seq(V) /\ v \in V
  BY <1>2 DEF FirstFields, LooseDSMs
<1>4. t \in Seq(V) /\ Len(t) = Len(s) /\ t[k] = v /\ \A i \in 1..Len(s) \ {k} : t[i] = s[i]
  <2>1. s \in Seq(V) /\ v \in V /\ k \in 1..Len(s)
    BY <1>3
  <2> HIDE DEF s, V
  <2>2. t \in Seq(V) /\ Len(t) = Len(s) /\ t[k] = v /\ \A i \in 1..Len(s) \ {k} : t[i] = s[i]
    BY <2>1
  <2> QED
    BY <2>2
<1>5. c = [d EXCEPT !.dsms = w]
  BY DEF WithFirst, FirstFields
<1> HIDE DEF t
<1>6. u \in M /\ u.fields = t /\ \A f \in FrameParts : u[f] = z[1][f]
  <2> DEFINE y == z[1]
  <2>1. y \in LooseDSMs /\ t \in Seq(V) /\ u = [y EXCEPT !.fields = t]
    BY <1>2, <1>4
  <2> HIDE DEF y, u, z
  <2>2. u \in LooseDSMs /\ u.fields = t /\ \A f \in FrameParts : u[f] = y[f]
    BY <2>1 DEF LooseDSMs, FrameParts
  <2> QED
    BY <2>2 DEF y, M
<1> HIDE DEF u
<1>7. w \in Seq(M) /\ Len(w) = 1 /\ w[1] = u
  <2> HIDE DEF M, z
  <2>1. z \in Seq(M) /\ Len(z) = 1 /\ u \in M
    BY <1>1, <1>6
  <2>2. w = [z EXCEPT ![1] = u]
    BY DEF z
  <2> HIDE DEF w
  <2> QED
    BY <2>1, <2>2
<1> HIDE DEF w
<1>8. /\ c \in LooseMessages /\ c.dsms = w /\ c.val = d.val /\ c.ids = d.ids
      /\ \A g \in FixedMembers : c[g] = d[g]
  BY <1>1, <1>5, <1>7 DEF LooseMessages, FixedMembers
<1>9. FirstFields(c) = t /\ c.dsms[1] = u /\ Len(c.dsms) = 1
  BY <1>6, <1>7, <1>8 DEF FirstFields
<1>10. \A f \in FrameParts : c.dsms[1][f] = e.dsms[1][f]
  BY <1>6, <1>9 DEF Near
<1>11. LikeFields(t, e.dsms[1].fields, e.dsms[1].enc)
  <2> DEFINE r == e.dsms[1].fields
  <2>1. LikeFields(s, r, e.dsms[1].enc)
    BY DEF Near, FirstFields
  <2>2. \A i \in 1..Len(s) : e.dsms[1].enc = VariantEncoding => t[i] = OnlyValue(t[i].value)
    <3> TAKE i \in 1..Len(s)
    <3> HAVE e.dsms[1].enc = VariantEncoding
    <3>1. Len(s) = Len(r) /\ s[i] = OnlyValue(s[i].value)
      BY <2>1 DEF LikeFields
    <3>2. t[i] = v \/ t[i] = s[i]
      BY <1>4
    <3> QED
      BY <3>1, <3>2
  <2> HIDE DEF r, s
  <2> QED
    BY <1>4, <2>1, <2>2 DEF LikeFields, r
<1>12. c.dsms[1].fields = t
  BY <1>9 DEF FirstFields
<1>13. Near(c, e, T)
  <2>1. LikeFields(c.dsms[1].fields, e.dsms[1].fields, e.dsms[1].enc)
    BY <1>11, <1>12
  <2> QED
    BY <1>8, <1>9, <1>10, <2>1 DEF Near
<1> QED
  BY <1>4, <1>9, <1>13

\* What only has a value is the same from its value on.
LEMMA OnlyValueHas == \A v : OnlyValue(v).value = v /\ OnlyValue(v) = OnlyValue(OnlyValue(v).value)
<1> SUFFICES ASSUME NEW v PROVE OnlyValue(v).value = v
  OBVIOUS
<1> QED
  BY DEF OnlyValue, EmptyDataValue

\* The DataSetMessages of two such messages are received alike.
LEMMA FramesAlike ==
    ASSUME NEW d \in DataSetMessages, NEW e \in DataSetMessages, AlikeDSM(d, e), e.type = KeyFrame,
           "sequenceNr" \notin e.on, NEW r, r = ReceivedDSM(d), NEW s, s = ReceivedDSM(e)
    PROVE  (\A f \in FrameParts : r[f] = s[f]) /\ LikeFields(r.fields, s.fields, s.enc)
<1> DEFINE h == ReceivedHeader(d)
           g == ReceivedHeader(e)
<1>1. d.on = e.on /\ d.type = e.type /\ d.enc = e.enc /\ Len(d.fields) = Len(e.fields) /\ d.type # KeepAlive
  BY DEF AlikeDSM, KeyFrame, KeepAlive
<1>2. h = g
  <2> DEFINE u == [f \in DSMFields |-> IF f \in d.on THEN d.val[f] ELSE 0]
             v == [f \in DSMFields |-> IF f \in e.on THEN e.val[f] ELSE 0]
  <2>1. \A f \in DSMFields : u[f] = v[f]
    BY <1>1 DEF AlikeDSM
  <2>2. u = v
    BY <2>1
  <2>3. h = EmptyDSM(d.on, d.type, d.enc, u) /\ g = EmptyDSM(e.on, e.type, e.enc, v)
    BY DEF ReceivedHeader
  <2> HIDE DEF u, v
  <2> QED
    BY <1>1, <2>2, <2>3
<1>3. h = EmptyDSM(h.on, h.type, h.enc, h.val)
  BY DEF ReceivedHeader, EmptyDSM
<1> DEFINE n == Len(e.fields)
           p == ReceivedTo(d, n)
           q == ReceivedTo(e, n)
<1>4. r = WithFields([h EXCEPT !.count = n, !.owns = TRUE], p) /\ s = WithFields([h EXCEPT !.count = n, !.owns = TRUE], q)
  BY <1>1, <1>2 DEF ReceivedDSM
<1> HIDE DEF h, g, p, q
<1>5. \A f \in FrameParts : r[f] = s[f]
  BY <1>3, <1>4 DEF WithFields, EmptyDSM, FrameParts
<1>6. /\ s.enc = e.enc /\ Len(r.fields) = Len(s.fields) /\ Len(s.fields) = n
      /\ \A i \in 1..n : r.fields[i] = ReceivedField(d, i)
  BY <1>1, ReceivedHas
<1>7. ASSUME NEW i \in 1..n, e.enc = VariantEncoding PROVE r.fields[i] = OnlyValue(r.fields[i].value)
  BY <1>1, <1>6, <1>7, OnlyValueHas DEF ReceivedField, ReceivedIn
<1> HIDE DEF n
<1>8. LikeFields(r.fields, s.fields, s.enc)
  BY <1>6, <1>7 DEF LikeFields
<1> QED
  BY <1>5, <1>8

\* Only the sequence number of two such messages is another one.
LEMMA NumbersAlike ==
    ASSUME NEW m, NEW w, Alike(m, w), NEW d, Received(d, m), NEW e, Received(e, w), NEW f \in NMFields,
           f # "sequenceNumber" \/ ~({"groupHeader", "sequenceNumber"} \subseteq w.on)
    PROVE  d.val[f] = e.val[f]
<1>1. /\ m.on = w.on /\ m.pubType = w.pubType
      /\ \A g \in NMFields \ {"sequenceNumber"} : m.val[g] = w.val[g]
  BY AlikeHas
<1>2. NumbersBy(m, 8) = NumbersBy(w, 8)
  BY <1>1 DEF NumbersBy, PublisherNumbers, InGroup, SecurityNumbers
<1>3. d.val[f] = (IF f \in NumbersBy(w, 8) THEN m.val[f] ELSE 0) /\ e.val[f] = (IF f \in NumbersBy(w, 8) THEN w.val[f] ELSE 0)
  BY <1>2 DEF Received, Paid, Over, NoNumbers
<1>4. CASE f # "sequenceNumber"
  BY <1>1, <1>3, <1>4
<1>5. CASE f = "sequenceNumber"
  <2>1. f \notin PublisherNumbers(w) /\ f \notin SecurityNumbers(w) /\ f \notin InGroup(w)
    BY <1>5 DEF PublisherNumbers, SecurityNumbers, InGroup
  <2>2. f \notin FieldsIn(w.on, ClassLayout) /\ f \notin FieldsIn(w.on, StampLayout)
    BY <1>5 DEF FieldsIn, ClassLayout, StampLayout
  <2>3. f \notin NumbersBy(w, 8)
    BY <2>1, <2>2 DEF NumbersBy
  <2> QED
    BY <1>3, <2>3
<1> QED
  BY <1>4, <1>5

\* The heap of a decoded message is what it owns.
Kempt(d) == d \in LooseMessages /\ d.heap = Blocks(d) \cup {"dsms"}

\* Two such messages are decoded to messages near each other.
LEMMA FamilyNear ==
    ASSUME NEW m \in NetworkMessages, NEW w \in NetworkMessages, Alike(m, w), Single(w),
           NEW d, Kempt(d), Received(d, m), NEW e, Kempt(e), Received(e, w),
           NEW T, {"groupHeader", "sequenceNumber"} \subseteq w.on => SequenceOffset \in T
    PROVE  Near(d, e, T)
<1>1. /\ m.on = w.on /\ m.version = w.version /\ m.pubType = w.pubType /\ m.nmType = w.nmType
      /\ m.pubString = w.pubString /\ m.nonce = w.nonce /\ m.footer = w.footer
      /\ m.signature = w.signature /\ m.ids = w.ids /\ m.promoted = w.promoted
      /\ DSMCount(m) = DSMCount(w) /\ DSMCount(w) = 1
  BY AlikeHas DEF Single
<1>2. /\ FeaturesBy(m, 8) = FeaturesBy(w, 8) /\ PublisherString(m) = PublisherString(w)
      /\ HasFooter(m) = HasFooter(w) /\ HasSignature(m) = HasSignature(w)
      /\ ReceivedSizes(m) = <<>> /\ ReceivedSizes(w) = <<>>
  BY <1>1 DEF FeaturesBy, InGroup, InSecurity, PublisherString, HasFooter, HasSignature, ReceivedSizes
<1>3. /\ d.on = e.on /\ d.version = e.version /\ d.pubType = e.pubType /\ d.nmType = e.nmType
      /\ d.pubString = e.pubString /\ d.count = e.count /\ d.sizes = e.sizes
  BY <1>1, <1>2 DEF Received, Paid
<1>4. /\ d.ids = e.ids /\ d.promoted = e.promoted /\ d.nonce = e.nonce
      /\ d.footer = e.footer /\ d.signature = e.signature
  BY <1>1, <1>2 DEF Received, Paid
<1>5. \A f \in NMFields : NumberMark(f) \in T \/ d.val[f] = e.val[f]
  <2> TAKE f \in NMFields
  <2>1. CASE f = "sequenceNumber" /\ {"groupHeader", "sequenceNumber"} \subseteq w.on
    BY <2>1 DEF NumberMark
  <2>2. CASE ~(f = "sequenceNumber" /\ {"groupHeader", "sequenceNumber"} \subseteq w.on)
    BY <2>2, NumbersAlike
  <2> QED
    BY <2>1, <2>2
<1> DEFINE r == ReceivedDSM(m.dsms[1])
           s == ReceivedDSM(w.dsms[1])
<1>6. Len(d.dsms) = 1 /\ Len(e.dsms) = 1 /\ d.dsms[1] = r /\ e.dsms[1] = s /\ DOMAIN d.dsms = 1..1 /\ DOMAIN e.dsms = 1..1
  <2>1. d.dsms = ReceivedAll(m) /\ e.dsms = ReceivedAll(w)
    BY DEF Received, Paid
  <2> QED
    BY <1>1, <2>1 DEF ReceivedAll
<1>7. (\A f \in FrameParts : r[f] = s[f]) /\ LikeFields(r.fields, s.fields, s.enc)
  <2>1. m.dsms[1] \in DataSetMessages /\ w.dsms[1] \in DataSetMessages /\ AlikeDSM(m.dsms[1], w.dsms[1])
    BY <1>1, AlikeAt
  <2>2. w.dsms[1].type = KeyFrame /\ "sequenceNr" \notin w.dsms[1].on
    BY DEF Single
  <2> QED
    BY <2>1, <2>2, FramesAlike
<1> HIDE DEF r, s
<1>8. d.heap = e.heap
  <2>1. r.owns = s.owns
    BY <1>7 DEF FrameParts
  <2>2. \A j \in 1..1 : d.dsms[j].owns = e.dsms[j].owns
    BY <1>6, <2>1
  <2> DEFINE A == {j \in DOMAIN d.dsms : d.dsms[j].owns}
             B == {j \in DOMAIN e.dsms : e.dsms[j].owns}
  <2>3. A = B
    BY <1>6, <2>2
  <2>4. Owned(d.dsms) = {ToString(i) : i \in A} /\ Owned(e.dsms) = {ToString(i) : i \in B}
    BY DEF Owned
  <2> HIDE DEF A, B
  <2>5. Owned(d.dsms) = Owned(e.dsms)
    BY <2>3, <2>4
  <2>6. \A f \in Strings : d[f] = e[f]
    BY <1>3, <1>4 DEF Strings
  <2>7. {f \in Strings : d[f] # <<>>} = {f \in Strings : e[f] # <<>>}
    BY <2>6
  <2>8. Blocks(d) = Blocks(e)
    BY <1>4, <2>5, <2>7 DEF Blocks
  <2> QED
    BY <2>8 DEF Kempt
<1>9. \A f \in FixedMembers : d[f] = e[f]
  BY <1>3, <1>4, <1>8 DEF FixedMembers
<1>10. d \in LooseMessages /\ e \in LooseMessages
  BY DEF Kempt
<1>11. /\ \A f \in FrameParts : d.dsms[1][f] = e.dsms[1][f]
       /\ LikeFields(d.dsms[1].fields, e.dsms[1].fields, e.dsms[1].enc)
  BY <1>6, <1>7
<1> QED
  BY <1>4, <1>5, <1>6, <1>9, <1>10, <1>11 DEF Near

\* A message that is decoded is kempt.
LEMMA DecodedKempt ==
    ASSUME NEW b \in NetworkMessages, Sendable(b), CalcSize(b) <= MaxDatagram,
           NEW d, d = DecodeBinary(MessageBytes(b)).dst
    PROVE  Kempt(d) /\ Received(d, b)
<1> DEFINE r == DecodeInternal(MessageBytes(b))
<1>1. Received(d, b) /\ d \in LooseMessages /\ r.rv = "Good" /\ d = r.dst
  BY DecodedIs
<1>2. MessageBytes(b) \in Seq(Octet)
  BY EncodeFits
<1>3. r.dst.heap = Blocks(r.dst) \cup {"dsms"}
  BY <1>1, <1>2, DecodedAccounts
<1> QED
  BY <1>1, <1>3 DEF Kempt

---------------------------------------------------------------------------
(* Reading one value at its offset. *)

\* A decoder that finds n bytes returns v, and fails when one is missing.
Found(src, pos, n, x, v) ==
    /\ pos + n <= Len(src) => x.rv = "Good" /\ x.value = v
    /\ ~(pos + n <= Len(src)) => x.rv # "Good"

\* A number, wherever the datagram ends.
LEMMA NumberFound ==
    ASSUME NEW src \in Seq(Octet), NEW pos \in Nat, NEW n \in Widths, NEW v \in Unsigned(n), NEW b, b = LE(v, n),
           Follows(src, pos, b), NEW x, x = Read(src, pos, n)
    PROVE  Found(src, pos, Len(b), x, v) /\ v \in Nat
<1>1. Reads(src, pos, LE(v, n), x, v)
  BY IntegerReads
<1>2. v \in Nat
  BY DEF Unsigned
<1> QED
  BY <1>1, <1>2 DEF Reads, Found

\* A read behind the end of the datagram fails.
LEMMA BehindFails ==
    ASSUME NEW src \in Seq(Octet), NEW pos \in Nat, ~(pos <= Len(src)), NEW n \in Nat
    PROVE  /\ Read(src, pos, n).rv # "Good"
           /\ DecodeVariant(src, pos).rv # "Good" /\ DecodeVariant(src, pos).value = EmptyVariant
           /\ DecodeDataValue(src, pos).rv # "Good" /\ DecodeDataValue(src, pos).value = EmptyDataValue
<1>1. \A k \in Nat : Read(src, pos, k).rv = "BadDecodingError"
  BY DEF Read
<1> DEFINE b == Read(src, pos, 1)
           y == DecodeContent(src, b)
           on == FlagsIn(b.value, DataValueMask)
           v == VariantIf(src, b.pos, on)
           r == PartsRead(src, v.pos, on)
<1>2. b.rv = "BadDecodingError"
  BY <1>1
<1>3. DecodeVariant(src, pos) = IF b.rv = "Good" /\ y.rv = "Good" THEN y
                                ELSE [rv |-> "BadDecodingError", pos |-> pos, value |-> EmptyVariant]
  BY DecodeVariantIs
<1>4. DecodeDataValue(src, pos) =
             IF b.rv = "Good" /\ v.rv = "Good" /\ r.rv = "Good"
             THEN [rv |-> "Good", pos |-> r.pos,
                   value |-> [on |-> on, value |-> v.value, val |-> Clamped(r.val)]]
             ELSE [rv |-> "BadDecodingError", pos |-> pos, value |-> EmptyDataValue]
  BY DecodeDataValueIs
<1> HIDE DEF b, y, on, v, r
<1> QED
  BY <1>1, <1>2, <1>3, <1>4

\* A Variant that cannot be decoded is left empty, and a DataValue.
LEMMA FailedEmpty ==
    ASSUME NEW src, NEW pos
    PROVE  /\ DecodeVariant(src, pos).rv # "Good" => DecodeVariant(src, pos).value = EmptyVariant
           /\ DecodeDataValue(src, pos).rv # "Good" => DecodeDataValue(src, pos).value = EmptyDataValue
<1> DEFINE b == Read(src, pos, 1)
           y == DecodeContent(src, b)
           on == FlagsIn(b.value, DataValueMask)
           v == VariantIf(src, b.pos, on)
           r == PartsRead(src, v.pos, on)
<1>3. DecodeVariant(src, pos) = IF b.rv = "Good" /\ y.rv = "Good" THEN y
                                ELSE [rv |-> "BadDecodingError", pos |-> pos, value |-> EmptyVariant]
  BY DecodeVariantIs
<1>4. DecodeDataValue(src, pos) =
             IF b.rv = "Good" /\ v.rv = "Good" /\ r.rv = "Good"
             THEN [rv |-> "Good", pos |-> r.pos,
                   value |-> [on |-> on, value |-> v.value, val |-> Clamped(r.val)]]
             ELSE [rv |-> "BadDecodingError", pos |-> pos, value |-> EmptyDataValue]
  BY DecodeDataValueIs
<1> HIDE DEF b, y, on, v, r
<1> QED
  BY <1>3, <1>4

\* The Variant of a field.
LEMMA VariantFound ==
    ASSUME NEW src \in Seq(Octet), NEW pos \in Nat, NEW v \in Variants, NEW b, b = EncodeVariant(v),
           Follows(src, pos, b), NEW x, x = DecodeVariant(src, pos)
    PROVE  Found(src, pos, Len(b), x, v) /\ (x.rv # "Good" => x.value = EmptyVariant)
<1>1. Len(b) \in Nat
  BY VariantBytes
<1>2. CASE pos <= Len(src)
  <2>1. pos \in 0..Len(src)
    BY <1>2
  <2>2. Reads(src, pos, EncodeVariant(v), x, v)
    BY <2>1, VariantReads
  <2> QED
    BY <2>2, FailedEmpty DEF Reads, Found
<1>3. CASE ~(pos <= Len(src))
  <2>1. x.rv # "Good"
    BY <1>3, BehindFails
  <2>2. ~(pos + Len(b) <= Len(src))
    BY <1>1, <1>3
  <2> QED
    BY <2>1, <2>2, FailedEmpty DEF Found
<1> QED
  BY <1>2, <1>3

\* The DataValue of a field.
LEMMA DataValueFound ==
    ASSUME NEW src \in Seq(Octet), NEW pos \in Nat, NEW v \in DataValues, NEW b, b = EncodeDataValue(v),
           Follows(src, pos, b), NEW x, x = DecodeDataValue(src, pos)
    PROVE  Found(src, pos, Len(b), x, ReceivedValue(v)) /\ (x.rv # "Good" => x.value = EmptyDataValue)
<1>1. Len(b) \in Nat
  BY DataValueBytes
<1>2. CASE pos <= Len(src)
  <2>1. pos \in 0..Len(src)
    BY <1>2
  <2>2. Reads(src, pos, EncodeDataValue(v), x, ReceivedValue(v))
    BY <2>1, DataValueReads
  <2> QED
    BY <2>2, FailedEmpty DEF Reads, Found
<1>3. CASE ~(pos <= Len(src))
  <2>1. x.rv # "Good"
    BY <1>3, BehindFails
  <2>2. ~(pos + Len(b) <= Len(src))
    BY <1>1, <1>3
  <2> QED
    BY <2>1, <2>2, FailedEmpty DEF Found
<1> QED
  BY <1>2, <1>3

---------------------------------------------------------------------------
(* Reading a number. *)

\* A number has been read; when it was there it no longer differs.
Taken(a, b, e, T, mark, src, pos, n) ==
    /\ Reading(b) /\ Near(b.dst, e, T) /\ b.next = a.next /\ FirstFields(b.dst) = FirstFields(a.dst)
    /\ pos + n <= Len(src) => b.rv = "Good" /\ ~b.stop /\ \A U : T \subseteq U \cup {mark} => Near(b.dst, e, U)
    /\ ~(pos + n <= Len(src)) => b.rv # "Good"

\* A number of the message.
LEMMA NumberTaken ==
    ASSUME NEW src \in Seq(Octet), NEW pos \in Nat, NEW w \in Widths,
           NEW f \in MarkedNumbers,
           NEW e, e.val[f] \in Unsigned(w), NEW b, b = LE(e.val[f], w), Follows(src, pos, b),
           NEW T, NumberMark(f) \in T, NEW a, Reading(a), Near(a.dst, e, T), NEW returns,
           NEW x, x = Read(src, pos, w), NEW c, c = SetNumber(a, x, f, returns)
    PROVE  Taken(a, c, e, T, NumberMark(f), src, pos, Len(b))
<1> DEFINE v == e.val[f]
           u == IF x.rv = "Good" THEN x.value ELSE 0
           d == WithNumber(a.dst, f, u)
<1>1. Found(src, pos, Len(b), x, v) /\ v \in Nat
  BY NumberFound
<1>2. x.rv \in ReadCodes
  BY ReadCodesAre
<1>3. c = ReadingOf(x.rv, returns /\ x.rv # "Good", d, a.next, x.pos, a.overrun)
  BY <1>2, SetNumberIs
<1>4. u \in Nat /\ (x.rv = "Good" => u = v)
  <2>1. x.rv = "Good" => x.value = v
    BY <1>1 DEF Found
  <2> QED
    BY <1>1, <2>1
<1>5. a.next \in Nat /\ 1 <= a.next
  BY DEF Reading
<1> DEFINE stop == returns /\ x.rv # "Good"
<1> HIDE DEF u, d, stop
<1>6. c = ReadingOf(x.rv, stop, d, a.next, x.pos, a.overrun)
  BY <1>3 DEF stop
<1>7. c.rv = x.rv /\ c.stop = stop /\ c.dst = d /\ c.next = a.next /\ Reading(c)
  BY <1>2, <1>5, <1>6, ReadingHas
<1>8. d = WithNumber(a.dst, f, u)
  BY DEF d
<1>9. /\ Near(d, e, T) /\ FirstFields(d) = FirstFields(a.dst)
      /\ u = e.val[f] => \A U : T \subseteq U \cup {NumberMark(f)} => Near(d, e, U)
  BY <1>4, <1>8, NearNumber
<1>10. pos + Len(b) <= Len(src) => c.rv = "Good" /\ ~c.stop /\ u = e.val[f]
  BY <1>1, <1>4, <1>7 DEF Found, stop
<1>11. ~(pos + Len(b) <= Len(src)) => c.rv # "Good"
  BY <1>1, <1>7 DEF Found
<1> QED
  BY <1>7, <1>9, <1>10, <1>11 DEF Taken

\* The first writer id.
LEMMA WriterTaken ==
    ASSUME NEW src \in Seq(Octet), NEW pos \in Nat, NEW w \in Widths,
           NEW e, e.ids[1] \in Unsigned(w), NEW b, b = LE(e.ids[1], w), Follows(src, pos, b),
           NEW T, WriterIdOffset \in T, NEW a, Reading(a), Near(a.dst, e, T), Len(e.ids) = 1,
           NEW x, x = Read(src, pos, w), NEW c, c = SetWriterId(a, x)
    PROVE  Taken(a, c, e, T, WriterIdOffset, src, pos, Len(b))
<1> DEFINE v == e.ids[1]
           u == IF x.rv = "Good" THEN x.value ELSE 0
           d == WithWriterId(a.dst, u)
           stop == Returning /\ x.rv # "Good"
<1>1. Found(src, pos, Len(b), x, v) /\ v \in Nat
  BY NumberFound
<1>2. x.rv \in ReadCodes
  BY ReadCodesAre
<1>3. c = ReadingOf(x.rv, stop, d, a.next, x.pos, a.overrun)
  BY <1>2, SetWriterIdIs
<1>4. u \in Nat /\ (x.rv = "Good" => u = v)
  <2>1. x.rv = "Good" => x.value = v
    BY <1>1 DEF Found
  <2> QED
    BY <1>1, <2>1
<1>5. a.next \in Nat /\ 1 <= a.next
  BY DEF Reading
<1>12. Len(a.dst.ids) = 1 /\ 1 \in DOMAIN a.dst.ids
  <2> DEFINE i == a.dst.ids
  <2>1. i \in Seq(Nat) /\ Len(i) = 1
    BY DEF Near, LooseMessages
  <2> HIDE DEF i
  <2>2. 1 \in DOMAIN i
    BY <2>1
  <2> QED
    BY <2>1, <2>2 DEF i
<1> HIDE DEF u, d, stop
<1>7. c.rv = x.rv /\ c.stop = stop /\ c.dst = d /\ c.next = a.next /\ Reading(c)
  BY <1>2, <1>3, <1>5, ReadingHas
<1>8. d = WithWriterId(a.dst, u)
  BY DEF d
<1>9. /\ Near(d, e, T) /\ FirstFields(d) = FirstFields(a.dst)
      /\ u = e.ids[1] => \A U : T \subseteq U \cup {WriterIdOffset} => Near(d, e, U)
  BY <1>4, <1>8, <1>12, NearWriter
<1>10. pos + Len(b) <= Len(src) => c.rv = "Good" /\ ~c.stop /\ u = e.ids[1]
  BY <1>1, <1>4, <1>7 DEF Found, stop
<1>11. ~(pos + Len(b) <= Len(src)) => c.rv # "Good"
  BY <1>1, <1>7 DEF Found
<1> QED
  BY <1>7, <1>9, <1>10, <1>11 DEF Taken

---------------------------------------------------------------------------
(* Filling a field. *)

\* The next field has been filled with v, or there was none.
FieldSet(a, c, e, T, x, v) ==
    /\ Reading(c) /\ Near(c.dst, e, T) /\ c.rv = x.rv /\ (c.stop <=> x.rv # "Good")
    /\ a.next \in 1..Len(FirstFields(a.dst))
         => /\ c.next = IF x.rv = "Good" THEN a.next + 1 ELSE a.next
            /\ Len(FirstFields(c.dst)) = Len(FirstFields(a.dst)) /\ FirstFields(c.dst)[a.next] = v
            /\ \A i \in 1..Len(FirstFields(a.dst)) \ {a.next} : FirstFields(c.dst)[i] = FirstFields(a.dst)[i]
    /\ a.next \notin 1..Len(FirstFields(a.dst)) => c.dst = a.dst

\* A message that is near another one has fields.
LEMMA NearFields ==
    ASSUME NEW d, NEW e, NEW T, Near(d, e, T)
    PROVE  /\ FirstFields(d) \in Seq(LooseValues \cup LooseDeltas) /\ FirstFields(e) \in Seq(LooseValues \cup LooseDeltas)
           /\ Len(FirstFields(d)) = Len(FirstFields(e)) /\ Len(FirstFields(e)) \in Nat
           /\ DOMAIN FirstFields(d) = 1..Len(FirstFields(e))
           /\ \A i \in 1..Len(FirstFields(e)) :
                 e.dsms[1].enc = VariantEncoding => FirstFields(d)[i] = OnlyValue(FirstFields(d)[i].value)
<1> DEFINE M == LooseDSMs
           y == d.dsms
           z == e.dsms
           V == LooseValues \cup LooseDeltas
           s == FirstFields(d)
           t == FirstFields(e)
<1>1. y \in Seq(M) /\ z \in Seq(M) /\ Len(y) = 1 /\ Len(z) = 1
  BY DEF Near, LooseMessages
<1>2. y[1] \in M /\ z[1] \in M
  <2> HIDE DEF M, y, z
  <2> QED
    BY <1>1
<1>3. s \in Seq(V) /\ t \in Seq(V)
  BY <1>2 DEF LooseDSMs, FirstFields
<1>4. LikeFields(s, t, e.dsms[1].enc)
  BY DEF Near, FirstFields
<1> HIDE DEF s, t, V
<1>5. Len(t) \in Nat /\ Len(s) = Len(t) /\ DOMAIN s = 1..Len(t)
  BY <1>3, <1>4 DEF LikeFields
<1>6. \A i \in 1..Len(t) : e.dsms[1].enc = VariantEncoding => s[i] = OnlyValue(s[i].value)
  BY <1>4 DEF LikeFields
<1> QED
  BY <1>3, <1>5, <1>6 DEF s, t, V

\* A value is read into the next field.
LEMMA FieldFilled ==
    ASSUME NEW e, NEW T, NEW a, Reading(a), Near(a.dst, e, T), NEW x, x.rv \in ReadCodes, NEW v,
           a.next \in 1..Len(FirstFields(a.dst)) =>
               v \in LooseValues /\ (e.dsms[1].enc = VariantEncoding => v = OnlyValue(v.value)),
           NEW c, c = FillField(a, x, v)
    PROVE  FieldSet(a, c, e, T, x, v)
<1> DEFINE n == Len(FirstFields(a.dst))
           d == WithFirst(a.dst, a.next, v)
           next == IF x.rv = "Good" THEN a.next + 1 ELSE a.next
           more == a.next + 1
           stop == Returning /\ x.rv # "Good"
<1>1. a.next \in Nat /\ 1 <= a.next /\ next \in Nat /\ 1 <= next /\ more \in Nat /\ 1 <= more
  BY DEF Reading
<1>2. DOMAIN a.dst.dsms[1].fields = 1..n
  BY NearFields DEF FirstFields
<1>3. /\ a.next \in 1..n => c = ReadingOf(x.rv, stop, d, next, x.pos, a.overrun)
      /\ a.next \notin 1..n => c = ReadingOf(x.rv, stop, a.dst, more, x.pos, Returning)
  BY <1>2, FillFieldIs
<1>4. stop <=> x.rv # "Good"
  BY DEF Returning
<1>5. CASE a.next \in 1..n
  <2> HIDE DEF n, d, next, stop
  <2>1. c = ReadingOf(x.rv, stop, d, next, x.pos, a.overrun)
    BY <1>3, <1>5
  <2>2. Reading(c) /\ c.rv = x.rv /\ c.stop = stop /\ c.dst = d /\ c.next = next
    BY <1>1, <2>1, ReadingHas
  <2>3. d = WithFirst(a.dst, a.next, v) /\ a.next \in 1..Len(FirstFields(a.dst))
    BY <1>5 DEF d, n
  <2>5. v \in LooseValues /\ (e.dsms[1].enc = VariantEncoding => v = OnlyValue(v.value))
    BY <2>3
  <2>4. /\ Near(d, e, T) /\ Len(FirstFields(d)) = Len(FirstFields(a.dst)) /\ FirstFields(d)[a.next] = v
        /\ \A i \in 1..Len(FirstFields(a.dst)) \ {a.next} : FirstFields(d)[i] = FirstFields(a.dst)[i]
    <3> DEFINE y == a.dst
               k == a.next
    <3>1. Near(y, e, T) /\ k \in 1..Len(FirstFields(y)) /\ d = WithFirst(y, k, v)
      BY <2>3
    <3> HIDE DEF y, k
    <3>2. /\ Near(d, e, T) /\ Len(FirstFields(d)) = Len(FirstFields(y)) /\ FirstFields(d)[k] = v
          /\ \A i \in 1..Len(FirstFields(y)) \ {k} : FirstFields(d)[i] = FirstFields(y)[i]
      BY <2>5, <3>1, NearFilled
    <3> QED
      BY <3>2 DEF y, k
  <2> QED
    BY <1>4, <2>2, <2>3, <2>4 DEF FieldSet, next
<1>6. CASE a.next \notin 1..n
  <2>1. a.next \notin 1..Len(FirstFields(a.dst))
    BY <1>6
  <2> HIDE DEF n, d, next, stop, more
  <2>2. c = ReadingOf(x.rv, stop, a.dst, more, x.pos, Returning)
    BY <1>3, <1>6
  <2>3. Reading(c) /\ c.rv = x.rv /\ c.stop = stop /\ c.dst = a.dst
    BY <1>1, <2>2, ReadingHas
  <2> QED
    BY <1>4, <2>1, <2>3 DEF FieldSet
<1> QED
  BY <1>5, <1>6

---------------------------------------------------------------------------
(* How far an update has come. *)

\* The fields in front of the next one are those of new, the others what they had been.
Split(s, k, had, new) ==
    /\ k \in 1..(Len(new) + 1) /\ Len(s) = Len(new)
    /\ \A i \in 1..(k - 1) : s[i] = new[i]
    /\ \A i \in k..Len(new) : s[i] = had[i]

\* One field between them may be empty.
TornAt(s, k, had, new) ==
    /\ k \in 1..(Len(new) + 1) /\ Len(s) = Len(new)
    /\ \A i \in 1..(k - 1) : s[i] = new[i]
    /\ k <= Len(new) => s[k].value \in {EmptyVariant, had[k].value}
    /\ \A i \in (k + 1)..Len(new) : s[i] = had[i]

Torn(s, had, new) == \E k \in Nat : TornAt(s, k, had, new)

\* Between two fields it is torn as well.
LEMMA SplitTorn ==
    ASSUME NEW s, NEW k, NEW had, NEW new, Split(s, k, had, new), Len(new) \in Nat
    PROVE  Torn(s, had, new)
<1>1. k \in Nat /\ 1 <= k
  BY DEF Split
<1>2. k <= Len(new) => s[k] = had[k]
  BY <1>1 DEF Split
<1>3. \A i \in (k + 1)..Len(new) : s[i] = had[i]
  BY <1>1 DEF Split
<1> QED
  BY <1>1, <1>2, <1>3 DEF Split, TornAt, Torn

\* One more field is the new one.
LEMMA SplitMore ==
    ASSUME NEW s, NEW k, NEW had, NEW new, Split(s, k, had, new), Len(new) \in Nat, k <= Len(new),
           NEW t, Len(t) = Len(s), t[k] = new[k], \A i \in 1..Len(s) \ {k} : t[i] = s[i]
    PROVE  Split(t, k + 1, had, new)
<1> DEFINE n == Len(new)
<1>1. k \in 1..n /\ n \in Nat /\ Len(t) = n /\ Len(s) = n
  BY DEF Split
<1>2. \A i \in 1..((k + 1) - 1) : t[i] = new[i]
  <2> TAKE i \in 1..((k + 1) - 1)
  <2>1. CASE i = k
    BY <2>1
  <2>2. CASE i # k
    <3>1. i \in 1..(k - 1) /\ i \in 1..n
      BY <1>1, <2>2
    <3> QED
      BY <1>1, <2>2, <3>1 DEF Split
  <2> QED
    BY <2>1, <2>2
<1>3. \A i \in (k + 1)..n : t[i] = had[i]
  <2> TAKE i \in (k + 1)..n
  <2>1. i \in k..n /\ i \in 1..n /\ i # k
    BY <1>1
  <2> QED
    BY <1>1, <2>1 DEF Split
<1>4. k + 1 \in 1..(n + 1)
  BY <1>1
<1> QED
  BY <1>1, <1>2, <1>3, <1>4 DEF Split

\* The next field is empty.
LEMMA SplitEmpty ==
    ASSUME NEW s, NEW k, NEW had, NEW new, Split(s, k, had, new), Len(new) \in Nat, k <= Len(new),
           NEW t, Len(t) = Len(s), t[k].value = EmptyVariant, \A i \in 1..Len(s) \ {k} : t[i] = s[i]
    PROVE  Torn(t, had, new)
<1> DEFINE n == Len(new)
<1>1. k \in 1..n /\ n \in Nat /\ Len(t) = n /\ Len(s) = n
  BY DEF Split
<1>2. \A i \in 1..(k - 1) : t[i] = new[i]
  <2> TAKE i \in 1..(k - 1)
  <2>1. i \in 1..n /\ i # k
    BY <1>1
  <2> QED
    BY <1>1, <2>1 DEF Split
<1>3. \A i \in (k + 1)..n : t[i] = had[i]
  <2> TAKE i \in (k + 1)..n
  <2>1. i \in k..n /\ i \in 1..n /\ i # k
    BY <1>1
  <2> QED
    BY <1>1, <2>1 DEF Split
<1>4. TornAt(t, k, had, new) /\ k \in Nat
  BY <1>1, <1>2, <1>3 DEF TornAt
<1> QED
  BY <1>4 DEF Torn

\* The marks of what is set while it is read, and never left half-way.
LooseMarks == {PublisherIdOffset, GroupIdOffset, WriterIdOffset, SequenceOffset}

\* The marks differ.
LEMMA MarksDiffer ==
    /\ LooseMarks \cap FieldMarks = {} /\ Unmarked \notin LooseMarks \cup FieldMarks /\ DataValueOffset # VariantOffset
    /\ PublisherIdOffset \notin {GroupIdOffset, WriterIdOffset, SequenceOffset}
    /\ GroupIdOffset \notin {WriterIdOffset, SequenceOffset} /\ WriterIdOffset # SequenceOffset
    /\ Marks = LooseMarks \cup FieldMarks \cup {Unmarked, DSMSequenceOffset, TimestampOffset, PicosecondsOffset}
    /\ {DSMSequenceOffset, TimestampOffset, PicosecondsOffset} \cap (LooseMarks \cup FieldMarks \cup {Unmarked}) = {}
BY DEF LooseMarks, FieldMarks, Marks, Writable, Unmarked, SequenceOffset, DSMSequenceOffset, DataValueOffset, VariantOffset,
       PublisherIdOffset, GroupIdOffset, WriterIdOffset, TimestampOffset, PicosecondsOffset

\* One writer id takes two bytes.
LEMMA OneNumberBytes ==
    ASSUME NEW s, Len(s) = 1
    PROVE  NumbersBytes(s, Len(s), 2) = LE(s[1], 2)
<1> DEFINE t == [i \in 1..1 |-> LE(s[i], 2)]
<1>1. Len(t) = 1 /\ t[1] = LE(s[1], 2)
  OBVIOUS
<1>5. Len(t) \in Nat /\ Len(t) # 0
  BY <1>1
<1>2. NumbersBytes(s, Len(s), 2) = FlattenSeq(t)
  BY DEF NumbersBytes
<1> HIDE DEF t
<1>3. PICK f : Flattens(f, t, Len(t)) /\ FlattenSeq(t) = f[Len(t)]
  BY <1>5, FlattenIsLast
<1>4. f[1] = t[1]
  BY <1>1, <1>3 DEF Flattens
<1> QED
  BY <1>1, <1>2, <1>3, <1>4

\* The decoded message has the numbers of the one that was sent.
LEMMA BackedNumbers ==
    ASSUME NEW w \in NetworkMessages, NEW e, Received(e, w), NEW s, Backed(s, w),
           ~("publisherId" \in w.on /\ w.pubType = StringId)
    PROVE  /\ s.mark = PublisherIdOffset => e.val["publisherId"] = w.val["publisherId"]
           /\ s.mark = GroupIdOffset => e.val["writerGroupId"] = w.val["writerGroupId"]
           /\ s.mark = SequenceOffset => e.val["sequenceNumber"] = w.val["sequenceNumber"]
           /\ s.mark = WriterIdOffset => e.ids = w.ids /\ "payloadHeader" \in w.on
<1>1. \A f \in NumbersBy(w, 8) \cap NMFields : e.val[f] = w.val[f]
  BY DEF Received, Paid, Over
<1>2. s.mark = PublisherIdOffset => "publisherId" \in NumbersBy(w, 8) \cap NMFields
  BY DEF Backed, NumbersBy, PublisherNumbers, NMFields
<1>3. /\ s.mark = GroupIdOffset => "writerGroupId" \in NumbersBy(w, 8) \cap NMFields
      /\ s.mark = SequenceOffset => "sequenceNumber" \in NumbersBy(w, 8) \cap NMFields
  BY DEF Backed, NumbersBy, InGroup, GroupFlags, NMFields
<1>4. s.mark = WriterIdOffset => e.ids = w.ids /\ "payloadHeader" \in w.on
  BY DEF Backed, Received, Paid, Present
<1> QED
  BY <1>1, <1>2, <1>3, <1>4

\* A number at its offset is read.
LEMMA OffsetNumber ==
    ASSUME NEW src \in Seq(Octet), NEW pos \in Nat, NEW w \in NetworkMessages, Single(w),
           "payloadHeader" \in w.on => Len(w.ids) = 1, NEW e, Received(e, w), NEW s, s.mark \in LooseMarks, Backed(s, w),
           NEW b, b = Marked(s, w), Follows(src, pos, b), NEW T, s.mark \in T,
           NEW a, Reading(a), ~a.stop, Near(a.dst, e, T), NEW o, o = OffsetAt(s, pos), NEW c, c = ReadNext(a, o, src, 0)
    PROVE  Taken(a, c, e, T, s.mark, src, pos, Len(b))
<1>1. /\ s.mark = PublisherIdOffset => e.val["publisherId"] = w.val["publisherId"]
      /\ s.mark = GroupIdOffset => e.val["writerGroupId"] = w.val["writerGroupId"]
      /\ s.mark = SequenceOffset => e.val["sequenceNumber"] = w.val["sequenceNumber"]
      /\ s.mark = WriterIdOffset => e.ids = w.ids /\ "payloadHeader" \in w.on
  BY BackedNumbers DEF Single
<1>2. o.type = s.mark /\ o.offset + 0 = pos
  BY DEF OffsetAt
<1>3. NextRead(a, o, src, c)
  BY ReadNextIs
<1>4. /\ s.mark = GroupIdOffset => b = LE(w.val["writerGroupId"], 2)
      /\ s.mark = SequenceOffset => b = LE(w.val["sequenceNumber"], 2)
      /\ s.mark = WriterIdOffset => b = NumbersBytes(w.ids, Len(w.ids), 2)
  BY NumberMarks
<1> DEFINE two == 2
<1>5. two \in Widths /\ w.val["writerGroupId"] \in Unsigned(two) /\ w.val["sequenceNumber"] \in Unsigned(two)
  BY NumbersFit DEF Widths
<1>6. CASE s.mark = PublisherIdOffset
  <2> DEFINE f == "publisherId"
             n == PublisherIdWidth(w.pubType)
             x == Read(src, pos, n)
  <2>1. "publisherId" \in w.on /\ w.pubType # StringId
    BY <1>6 DEF Backed, Single
  <2>2. n \in Widths /\ w.val["publisherId"] \in Unsigned(n) /\ w.pubType \in 0..4
    BY <2>1, MessageHas
  <2>3. b = LE(e.val[f], n) /\ e.val[f] \in Unsigned(n)
    <3>1. Marked(s, w) = PublisherBytes(w)
      BY <1>6 DEF Marked, SequenceOffset, DSMSequenceOffset, DataValueOffset, VariantOffset, PublisherIdOffset,
                        GroupIdOffset, WriterIdOffset, TimestampOffset, PicosecondsOffset
    <3>2. PublisherBytes(w) = LE(w.val["publisherId"], n)
      BY <2>1 DEF PublisherBytes
    <3> QED
      BY <1>1, <1>6, <2>2, <3>1, <3>2
  <2>4. a.dst.pubType = w.pubType /\ w.pubType < StringId
    <3>1. a.dst.pubType = e.pubType
      BY DEF Near, FixedMembers
    <3>2. e.pubType = w.pubType
      BY DEF Received, Paid
    <3> QED
      BY <2>1, <2>2, <3>1, <3>2 DEF StringId
  <2>5. c = SetNumber(a, x, f, NotReturning)
    BY <1>2, <1>3, <1>6, <2>4, MarksDiffer DEF NextRead, LooseMarks, FieldMarks
  <2>6. f \in MarkedNumbers /\ NumberMark(f) = s.mark
    BY <1>6 DEF MarkedNumbers, NumberMark
  <2> HIDE DEF f, n
  <2> QED
    BY <2>2, <2>3, <2>5, <2>6, NumberTaken
<1>7. CASE s.mark = GroupIdOffset
  <2> DEFINE f == "writerGroupId"
             x == Read(src, pos, two)
  <2>1. b = LE(e.val[f], two) /\ e.val[f] \in Unsigned(two)
    BY <1>1, <1>4, <1>5, <1>7
  <2>2. c = SetNumber(a, x, f, Returning)
    BY <1>2, <1>3, <1>7, MarksDiffer DEF NextRead, LooseMarks, FieldMarks
  <2>3. f \in MarkedNumbers /\ NumberMark(f) = s.mark
    BY <1>7 DEF MarkedNumbers, NumberMark
  <2> HIDE DEF f, two
  <2> QED
    BY <1>5, <2>1, <2>2, <2>3, NumberTaken
<1>8. CASE s.mark = SequenceOffset
  <2> DEFINE f == "sequenceNumber"
             x == Read(src, pos, two)
  <2>1. b = LE(e.val[f], two) /\ e.val[f] \in Unsigned(two)
    BY <1>1, <1>4, <1>5, <1>8
  <2>2. c = SetNumber(a, x, f, Returning)
    BY <1>2, <1>3, <1>8, MarksDiffer DEF NextRead, LooseMarks, FieldMarks
  <2>3. f \in MarkedNumbers /\ NumberMark(f) = s.mark
    BY <1>8 DEF MarkedNumbers, NumberMark
  <2> HIDE DEF f, two
  <2> QED
    BY <1>5, <2>1, <2>2, <2>3, NumberTaken
<1>9. CASE s.mark = WriterIdOffset
  <2> DEFINE x == Read(src, pos, two)
             j == w.ids
  <2>1. Len(j) = 1 /\ e.ids = j
    BY <1>1, <1>9
  <2>2. b = LE(j[1], two)
    BY <1>4, <1>9, <2>1, OneNumberBytes
  <2>3. j[1] \in Unsigned(two)
    <3> DEFINE U == Unsigned(two)
    <3>1. j \in Seq(U)
      BY MessageHas
    <3> HIDE DEF U, j
    <3>3. 1 \in 1..Len(j)
      BY <2>1
    <3>2. j[1] \in U
      BY <3>1, <3>3
    <3> QED
      BY <3>2 DEF U
  <2>4. c = SetWriterId(a, x)
    BY <1>2, <1>3, <1>9, MarksDiffer DEF NextRead, LooseMarks, FieldMarks
  <2> HIDE DEF two, j
  <2>5. e.ids[1] \in Unsigned(two) /\ b = LE(e.ids[1], two) /\ Len(e.ids) = 1
    BY <2>1, <2>2, <2>3
  <2> QED
    BY <1>5, <1>9, <2>4, <2>5, WriterTaken
<1> QED
  BY <1>6, <1>7, <1>8, <1>9 DEF LooseMarks

\* What is read into the next field, and what it is when the offset is that of the field.
NextFilled(a, c, e, T, s, src, pos, n) ==
    \E x, v :
        /\ FieldSet(a, c, e, T, x, v)
        /\ pos + n <= Len(src) => x.rv = "Good" /\ (s.field = a.next => v = FirstFields(e)[s.field])
        /\ ~(pos + n <= Len(src)) => x.rv # "Good" /\ (a.next \in 1..Len(FirstFields(a.dst)) => v.value = EmptyVariant)

\* An empty DataValue is one a decoder may return.
LEMMA EmptyIsLoose == EmptyDataValue \in LooseValues /\ EmptyDataValue.value = EmptyVariant
<1>1. EmptyVariant \in Variants
  BY DEF Variants
<1> QED
  BY <1>1, PartsAre DEF EmptyDataValue, LooseValues

\* A field that only has a value keeps to that.
LEMMA ValueReplaced ==
    ASSUME NEW f, NEW u, f = OnlyValue(u), NEW x
    PROVE  /\ x.rv = "Good" => WithValue(f, x) = OnlyValue(x.value)
           /\ x.rv # "Good" => WithValue(f, x) = OnlyValue(EmptyVariant)
<1>1. f = [on |-> {"value"}, value |-> u, val |-> NoParts]
  BY DEF OnlyValue, EmptyDataValue
<1>2. f.on \cup {"value"} = {"value"}
  BY <1>1
<1> DEFINE on == f.on \cup {"value"}
<1>3. \A y : [f EXCEPT !.on = on, !.value = y] = OnlyValue(y)
  <2> HIDE DEF on
  <2>1. on = {"value"}
    BY <1>2 DEF on
  <2> QED
    BY <1>1, <2>1 DEF OnlyValue, EmptyDataValue
<1>4. [f EXCEPT !.value = EmptyVariant] = OnlyValue(EmptyVariant)
  BY <1>1 DEF OnlyValue, EmptyDataValue
<1> QED
  BY <1>3, <1>4 DEF WithValue

\* A Variant at its offset is read into the next field.
LEMMA OffsetVariant ==
    ASSUME NEW src \in Seq(Octet), NEW pos \in Nat, NEW f \in DataValues, NEW b, b = EncodeVariant(f.value),
           Follows(src, pos, b), NEW e, e.dsms[1].enc = VariantEncoding,
           NEW s, s.field \in 1..Len(FirstFields(e)), FirstFields(e)[s.field] = OnlyValue(f.value), NEW T, NEW a, Reading(a), Near(a.dst, e, T),
           NEW x, x = DecodeVariant(src, pos), NEW c, c = FillField(a, x, WithValue(FieldNow(a), x))
    PROVE  NextFilled(a, c, e, T, s, src, pos, Len(b))
<1> DEFINE v == WithValue(FieldNow(a), x)
           n == Len(FirstFields(a.dst))
<1>1. f.value \in Variants
  BY DEF DataValues
<1>2. Found(src, pos, Len(b), x, f.value) /\ (x.rv # "Good" => x.value = EmptyVariant)
  BY <1>1, VariantFound
<1>3. x.rv \in ReadCodes
  BY ReadCodesAre
<1>4. ASSUME a.next \in 1..n
      PROVE  /\ v \in LooseValues /\ v = OnlyValue(v.value)
             /\ x.rv = "Good" => v = OnlyValue(x.value)
             /\ x.rv # "Good" => v.value = EmptyVariant
  <2> DEFINE g == FirstFields(a.dst)[a.next]
  <2>1. FieldNow(a) = g /\ g = OnlyValue(g.value)
    <3>1. DOMAIN FirstFields(a.dst) = 1..n /\ Len(FirstFields(e)) = n
          /\ \A i \in 1..Len(FirstFields(e)) : FirstFields(a.dst)[i] = OnlyValue(FirstFields(a.dst)[i].value)
      BY NearFields
    <3> QED
      BY <1>4, <3>1 DEF FieldNow, FirstFields
  <2> HIDE DEF g
  <2>2. /\ x.rv = "Good" => v = OnlyValue(x.value)
        /\ x.rv # "Good" => v = OnlyValue(EmptyVariant)
    BY <2>1, ValueReplaced
  <2>3. EmptyVariant \in Variants /\ (x.rv = "Good" => x.value \in Variants)
    <3>1. EmptyVariant \in Variants
      BY EmptyIsLoose DEF LooseValues
    <3> QED
      BY <1>1, <1>2, <3>1 DEF Found, Reads
  <2> HIDE DEF v
  <2>4. CASE x.rv = "Good"
    BY <2>2, <2>3, <2>4, OnlyValueType, OnlyValueHas
  <2>5. CASE x.rv # "Good"
    BY <2>2, <2>3, <2>5, OnlyValueType, OnlyValueHas
  <2> QED
    BY <2>4, <2>5
<1> HIDE DEF v
<1>5. c = FillField(a, x, v)
  BY DEF v
<1>6. FieldSet(a, c, e, T, x, v)
  BY <1>3, <1>4, <1>5, FieldFilled
<1>7. ASSUME pos + Len(b) <= Len(src) PROVE x.rv = "Good" /\ x.value = f.value
  BY <1>2, <1>7 DEF Found
<1>8. ASSUME ~(pos + Len(b) <= Len(src)) PROVE x.rv # "Good"
  BY <1>2, <1>8 DEF Found
<1>9. ASSUME s.field = a.next PROVE a.next \in 1..n
  <2>1. Len(FirstFields(e)) = n
    BY NearFields
  <2> QED
    BY <1>9, <2>1
<1> QED
  BY <1>4, <1>6, <1>7, <1>8, <1>9 DEF NextFilled

\* A DataValue at its offset is read into the next field.
LEMMA OffsetDataValue ==
    ASSUME NEW src \in Seq(Octet), NEW pos \in Nat, NEW f \in DataValues, NEW b, b = EncodeDataValue(f),
           Follows(src, pos, b), NEW e, e.dsms[1].enc # VariantEncoding,
           NEW s, FirstFields(e)[s.field] = ReceivedValue(f), NEW T, NEW a, Reading(a), Near(a.dst, e, T),
           NEW x, x = DecodeDataValue(src, pos), NEW c, c = FillField(a, x, x.value)
    PROVE  NextFilled(a, c, e, T, s, src, pos, Len(b))
<1> DEFINE v == x.value
<1>1. Found(src, pos, Len(b), x, ReceivedValue(f)) /\ (x.rv # "Good" => v = EmptyDataValue)
  BY DataValueFound
<1>2. x.rv \in ReadCodes
  BY ReadCodesAre
<1>3. v \in LooseValues
  <2>1. CASE pos <= Len(src)
    <3>1. pos \in 0..Len(src)
      BY <2>1
    <3>2. x \in Outcomes(src, LooseValues)
      BY <3>1, DataValueType
    <3> QED
      BY <3>2 DEF Outcomes
  <2>2. CASE ~(pos <= Len(src))
    <3>1. x.rv # "Good"
      BY <2>2, BehindFails
    <3> QED
      BY <1>1, <3>1, EmptyIsLoose
  <2> QED
    BY <2>1, <2>2
<1>4. x.rv # "Good" => v.value = EmptyVariant
  BY <1>1, EmptyIsLoose
<1>5. ASSUME pos + Len(b) <= Len(src) PROVE x.rv = "Good" /\ v = FirstFields(e)[s.field]
  BY <1>1, <1>5 DEF Found
<1>6. ASSUME ~(pos + Len(b) <= Len(src)) PROVE x.rv # "Good"
  BY <1>1, <1>6 DEF Found
<1>7. c = FillField(a, x, v)
  OBVIOUS
<1> HIDE DEF v
<1>8. FieldSet(a, c, e, T, x, v)
  BY <1>2, <1>3, <1>7, FieldFilled
<1> QED
  BY <1>4, <1>5, <1>6, <1>8 DEF NextFilled

\* A field at its offset is read.
LEMMA OffsetField ==
    ASSUME NEW src \in Seq(Octet), NEW pos \in Nat, NEW w \in NetworkMessages, Single(w), NEW e, Received(e, w),
           NEW s, s.mark \in FieldMarks, NEW reader, Legal(s, w, reader),
           NEW b, b = Marked(s, w), Follows(src, pos, b), NEW T,
           NEW a, Reading(a), ~a.stop, Near(a.dst, e, T), NEW o, o = OffsetAt(s, pos), NEW c, c = ReadNext(a, o, src, 0)
    PROVE  NextFilled(a, c, e, T, s, src, pos, Len(b)) /\ s.field \in 1..Len(FirstFields(e))
<1> DEFINE d == w.dsms[1]
           f == d.fields[s.field]
<1>1. DSMCount(w) = 1 /\ d.type = KeyFrame
  BY DEF Single
<1>2. d \in DataSetMessages
  <2>1. 1 \in 1..DSMCount(w)
    BY <1>1
  <2> QED
    BY <2>1, SizesFit
<1>3. /\ s.dsm = 1 /\ s.field \in 1..Len(d.fields)
      /\ s.mark = DataValueOffset <=> d.enc # VariantEncoding
  <2>1. s.dsm \in 1..DSMCount(w)
    BY DEF Legal, FieldMarks
  <2>2. s.dsm = 1
    BY <1>1, <2>1
  <2> QED
    BY <2>2 DEF Legal, FieldMarks
<1>4. f \in DataValues
  <2>1. d.fields \in Seq(DataValues)
    BY <1>1, <1>2, DSMHas
  <2> QED
    BY <1>3, <2>1
<1>5. e.dsms[1] = ReceivedDSM(d)
  <2>1. e.dsms = ReceivedAll(w)
    BY DEF Received, Paid
  <2> QED
    BY <1>1, <2>1 DEF ReceivedAll
<1>6. /\ Len(FirstFields(e)) = Len(d.fields) /\ e.dsms[1].enc = d.enc
      /\ FirstFields(e)[s.field] = ReceivedField(d, s.field)
  <2> DEFINE r == ReceivedDSM(d)
  <2>1. d.type # KeepAlive
    BY <1>1 DEF KeyFrame, KeepAlive
  <2> HIDE DEF r
  <2>2. /\ r.enc = d.enc /\ Len(r.fields) = Len(d.fields)
        /\ \A i \in 1..Len(d.fields) : r.fields[i] = ReceivedField(d, i)
    BY <1>2, <2>1, ReceivedHas DEF r
  <2>3. e.dsms[1] = r
    BY <1>5 DEF r
  <2> QED
    BY <1>3, <2>2, <2>3 DEF FirstFields
<1>7. FirstFields(e)[s.field] = ReceivedIn(f, d.enc)
  BY <1>1, <1>6 DEF ReceivedField
<1>8. o.type = s.mark /\ o.offset + 0 = pos
  BY DEF OffsetAt
<1>9. NextRead(a, o, src, c)
  BY ReadNextIs
<1>10. s.field \in 1..Len(FirstFields(e))
  BY <1>3, <1>6
<1>11. CASE s.mark = VariantOffset
  <2> DEFINE x == DecodeVariant(src, pos)
  <2>1. c = FillField(a, x, WithValue(FieldNow(a), x))
    BY <1>8, <1>9, <1>11, MarksDiffer DEF NextRead, LooseMarks, FieldMarks
  <2>2. d.enc = VariantEncoding
    BY <1>3, <1>11, MarksDiffer
  <2>3. b = EncodeVariant(f.value)
    BY <1>3, <1>11 DEF Marked, SequenceOffset, DSMSequenceOffset, DataValueOffset, VariantOffset, PublisherIdOffset,
                        GroupIdOffset, WriterIdOffset, TimestampOffset, PicosecondsOffset
  <2>4. FirstFields(e)[s.field] = OnlyValue(f.value) /\ e.dsms[1].enc = VariantEncoding
    BY <1>6, <1>7, <2>2 DEF ReceivedIn
  <2> HIDE DEF x, f
  <2>5. x = DecodeVariant(src, pos)
    BY DEF x
  <2> QED
    BY <1>4, <1>10, <2>1, <2>3, <2>4, <2>5, OffsetVariant
<1>12. CASE s.mark = DataValueOffset
  <2> DEFINE x == DecodeDataValue(src, pos)
  <2>1. c = FillField(a, x, x.value)
    BY <1>8, <1>9, <1>12, MarksDiffer DEF NextRead, LooseMarks, FieldMarks
  <2>2. d.enc # VariantEncoding
    BY <1>3, <1>12
  <2>3. b = EncodeDataValue(f)
    BY <1>3, <1>12 DEF Marked, SequenceOffset, DSMSequenceOffset, DataValueOffset, VariantOffset, PublisherIdOffset,
                        GroupIdOffset, WriterIdOffset, TimestampOffset, PicosecondsOffset
  <2>4. FirstFields(e)[s.field] = ReceivedValue(f) /\ e.dsms[1].enc # VariantEncoding
    BY <1>6, <1>7, <2>2 DEF ReceivedIn
  <2> HIDE DEF x, f
  <2>5. x = DecodeDataValue(src, pos)
    BY DEF x
  <2> QED
    BY <1>4, <1>10, <2>1, <2>3, <2>4, <2>5, OffsetDataValue
<1> QED
  BY <1>10, <1>11, <1>12 DEF FieldMarks

---------------------------------------------------------------------------
(* The update, piece by piece. had are the fields before it. *)

\* The marks of the numbers behind the first k pieces.
Left(P, k) == LooseMarks \cap {P[j].mark : j \in (k + 1)..Len(P)}

\* Every value has been read so far.
Going(a, c, e, T, had) ==
    /\ a.rv = "Good" /\ ~a.stop /\ a.next = c + 1 /\ Near(a.dst, e, T)
    /\ Split(FirstFields(a.dst), a.next, had, FirstFields(e))

\* The datagram has ended.
Failing(a, e, had, src, l) ==
    /\ a.rv # "Good" /\ ~(l <= Len(src)) /\ Torn(FirstFields(a.dst), had, FirstFields(e))
    /\ ~a.stop => Split(FirstFields(a.dst), a.next, had, FirstFields(e))

Walked(a, c, e, T, U, had, src, l) ==
    /\ Reading(a) /\ Near(a.dst, e, U)
    /\ Going(a, c, e, T, had) \/ Failing(a, e, had, src, l)

\* One number.
LEMMA WalkNumber ==
    ASSUME NEW src \in Seq(Octet), NEW e, NEW T, NEW U, T \subseteq U, NEW had, NEW c \in Nat, NEW pos \in Nat, NEW n \in Nat,
           NEW a, Walked(a, c, e, T, U, had, src, pos), ~a.stop, NEW mark, NEW b, NEW V, T \subseteq V \cup {mark},
           Near(a.dst, e, T) => Taken(a, b, e, T, mark, src, pos, n),
           Near(a.dst, e, U) => Taken(a, b, e, U, mark, src, pos, n)
    PROVE  Walked(b, c, e, V, U, had, src, pos + n)
<1>1. Near(a.dst, e, U) /\ Taken(a, b, e, U, mark, src, pos, n)
  BY DEF Walked
<1>2. Reading(b) /\ Near(b.dst, e, U) /\ b.next = a.next /\ FirstFields(b.dst) = FirstFields(a.dst)
  BY <1>1 DEF Taken
<1>3. Len(FirstFields(e)) \in Nat
  BY <1>1, NearFields
<1>4. CASE Going(a, c, e, T, had) /\ pos + n <= Len(src)
  <2>1. Taken(a, b, e, T, mark, src, pos, n)
    BY <1>4 DEF Going
  <2>2. b.rv = "Good" /\ ~b.stop /\ Near(b.dst, e, V)
    BY <1>4, <2>1 DEF Taken
  <2>3. Going(b, c, e, V, had)
    BY <1>2, <1>4, <2>2 DEF Going
  <2> QED
    BY <1>2, <2>3 DEF Walked
<1>5. CASE Going(a, c, e, T, had) /\ ~(pos + n <= Len(src))
  <2>1. b.rv # "Good"
    BY <1>1, <1>5 DEF Taken
  <2>2. Split(FirstFields(b.dst), b.next, had, FirstFields(e))
    BY <1>2, <1>5 DEF Going
  <2>3. Torn(FirstFields(b.dst), had, FirstFields(e))
    BY <1>3, <2>2, SplitTorn
  <2> QED
    BY <1>2, <1>5, <2>1, <2>2, <2>3 DEF Failing, Walked
<1>6. CASE Failing(a, e, had, src, pos)
  <2>1. ~(pos + n <= Len(src))
    <3>1. Len(src) \in Nat /\ ~(pos <= Len(src))
      BY <1>6 DEF Failing
    <3> QED
      BY <3>1
  <2>2. b.rv # "Good"
    BY <1>1, <2>1 DEF Taken
  <2> QED
    BY <1>2, <1>6, <2>1, <2>2 DEF Failing, Walked
<1> QED
  BY <1>4, <1>5, <1>6 DEF Walked

\* One field.
LEMMA WalkField ==
    ASSUME NEW src \in Seq(Octet), NEW e, NEW T, NEW U, T \subseteq U, NEW had, NEW c \in Nat, NEW pos \in Nat, NEW n \in Nat,
           NEW a, Walked(a, c, e, T, U, had, src, pos), ~a.stop, NEW s, s.field = c + 1, s.field \in 1..Len(FirstFields(e)),
           NEW b, Near(a.dst, e, T) => NextFilled(a, b, e, T, s, src, pos, n),
           Near(a.dst, e, U) => NextFilled(a, b, e, U, s, src, pos, n)
    PROVE  Walked(b, c + 1, e, T, U, had, src, pos + n)
<1> DEFINE new == FirstFields(e)
           was == FirstFields(a.dst)
           now == FirstFields(b.dst)
<1>1. Near(a.dst, e, U) /\ NextFilled(a, b, e, U, s, src, pos, n) /\ Reading(a)
  BY DEF Walked
<1>2. Len(new) \in Nat /\ Len(was) = Len(new) /\ a.next \in Nat /\ Len(src) \in Nat
  BY <1>1, NearFields DEF Reading
<1>3. CASE Going(a, c, e, T, had)
  <2>1. a.next = s.field /\ a.next \in 1..Len(was) /\ Split(was, a.next, had, new)
    BY <1>2, <1>3 DEF Going
  <2>2. PICK x, v :
          /\ FieldSet(a, b, e, T, x, v)
          /\ pos + n <= Len(src) => x.rv = "Good" /\ v = new[a.next]
          /\ ~(pos + n <= Len(src)) => x.rv # "Good" /\ v.value = EmptyVariant
    <3>1. NextFilled(a, b, e, T, s, src, pos, n)
      BY <1>3 DEF Going
    <3> QED
      BY <2>1, <3>1 DEF NextFilled
  <2>3. /\ Reading(b) /\ Near(b.dst, e, T) /\ b.rv = x.rv /\ (b.stop <=> x.rv # "Good")
        /\ b.next = IF x.rv = "Good" THEN a.next + 1 ELSE a.next
        /\ Len(now) = Len(was) /\ now[a.next] = v
        /\ \A i \in 1..Len(was) \ {a.next} : now[i] = was[i]
    BY <2>1, <2>2 DEF FieldSet
  <2>4. Near(b.dst, e, U)
    BY <2>3, NearMore
  <2> HIDE DEF new, was, now
  <2>5. CASE pos + n <= Len(src)
    <3>1. b.rv = "Good" /\ ~b.stop /\ b.next = a.next + 1 /\ a.next = c + 1 /\ now[a.next] = new[a.next]
      BY <1>3, <2>2, <2>3, <2>5 DEF Going
    <3>4. a.next <= Len(new) /\ Len(now) = Len(was)
      BY <1>2, <2>1, <2>3
    <3> DEFINE k == a.next
    <3>5. /\ Split(was, k, had, new) /\ k <= Len(new) /\ now[k] = new[k]
          /\ \A i \in 1..Len(was) \ {k} : now[i] = was[i]
      BY <2>1, <2>3, <3>1, <3>4
    <3> HIDE DEF k
    <3>6. Split(now, k + 1, had, new)
      BY <1>2, <3>4, <3>5, SplitMore
    <3>2. Split(now, a.next + 1, had, new)
      BY <3>6 DEF k
    <3>3. Going(b, c + 1, e, T, had)
      BY <2>3, <3>1, <3>2 DEF Going, now, new
    <3> QED
      BY <2>3, <2>4, <3>3 DEF Walked
  <2>6. CASE ~(pos + n <= Len(src))
    <3>1. b.rv # "Good" /\ b.stop /\ now[a.next].value = EmptyVariant
      BY <2>2, <2>3, <2>6
    <3>2. Torn(now, had, new)
      BY <1>2, <2>1, <2>3, <3>1, SplitEmpty
    <3> QED
      BY <2>3, <2>4, <2>6, <3>1, <3>2 DEF Failing, Walked, now, new
  <2> QED
    BY <2>5, <2>6
<1>4. CASE Failing(a, e, had, src, pos)
  <2>1. Split(was, a.next, had, new) /\ ~(pos <= Len(src)) /\ Torn(was, had, new)
    BY <1>4 DEF Failing
  <2>2. ~(pos + n <= Len(src))
    BY <1>2, <2>1
  <2>3. PICK x, v : /\ FieldSet(a, b, e, U, x, v) /\ x.rv # "Good"
                    /\ a.next \in 1..Len(was) => v.value = EmptyVariant
    BY <1>1, <2>2 DEF NextFilled
  <2>4. Reading(b) /\ Near(b.dst, e, U) /\ b.rv # "Good" /\ b.stop
    BY <2>3 DEF FieldSet
  <2>5. Torn(now, had, new)
    <3>1. CASE a.next \in 1..Len(was)
      <4>1. Len(now) = Len(was) /\ now[a.next].value = EmptyVariant /\ \A i \in 1..Len(was) \ {a.next} : now[i] = was[i]
        BY <2>3, <3>1 DEF FieldSet
      <4> HIDE DEF new, was, now
      <4> QED
        BY <1>2, <2>1, <3>1, <4>1, SplitEmpty
    <3>2. CASE a.next \notin 1..Len(was)
      <4>1. b.dst = a.dst
        BY <2>3, <3>2 DEF FieldSet
      <4> QED
        BY <2>1, <4>1
    <3> QED
      BY <3>1, <3>2
  <2> QED
    BY <2>2, <2>4, <2>5 DEF Failing, Walked
<1> QED
  BY <1>3, <1>4 DEF Walked

\* One piece behind another, its mark is no longer one of those that are left.
LEMMA LeftMore ==
    ASSUME NEW P \in Seq(Spans), NEW k \in 1..Len(P), NEW mark, mark = P[k].mark
    PROVE  /\ Left(P, k - 1) \subseteq Left(P, k) \cup {mark} /\ Left(P, k) \subseteq Left(P, 0)
           /\ Left(P, k - 1) \subseteq Left(P, 0)
           /\ mark \in LooseMarks => mark \in Left(P, k - 1)
           /\ mark \notin LooseMarks => Left(P, k) = Left(P, k - 1)
<1>1. \A i \in 0..Len(P) : \A x : x \in Left(P, i) <=> x \in LooseMarks /\ \E j \in (i + 1)..Len(P) : P[j].mark = x
  BY DEF Left
<1>2. k \in 0..Len(P) /\ k - 1 \in 0..Len(P) /\ 0 \in 0..Len(P) /\ Len(P) \in Nat /\ (k - 1) + 1 = k
  OBVIOUS
<1>3. \A j : j \in k..Len(P) <=> j = k \/ j \in (k + 1)..Len(P)
  BY <1>2
<1>4. \A x : x \in Left(P, k - 1) <=> x \in Left(P, k) \/ (x \in LooseMarks /\ x = mark)
  <2> TAKE x
  <2>1. x \in Left(P, k - 1) <=> x \in LooseMarks /\ \E j \in k..Len(P) : P[j].mark = x
    BY <1>1, <1>2
  <2>2. x \in Left(P, k) <=> x \in LooseMarks /\ \E j \in (k + 1)..Len(P) : P[j].mark = x
    BY <1>1, <1>2
  <2> QED
    BY <1>3, <2>1, <2>2
<1>5. \A i \in 0..Len(P) : Left(P, i) \subseteq Left(P, 0)
  <2> TAKE i \in 0..Len(P)
  <2>1. ASSUME NEW x \in Left(P, i) PROVE x \in Left(P, 0)
    <3>1. PICK j \in (i + 1)..Len(P) : P[j].mark = x
      BY <1>1, <2>1
    <3>2. j \in (0 + 1)..Len(P)
      BY <1>2
    <3> QED
      BY <1>1, <1>2, <2>1, <3>1, <3>2
  <2> QED
    BY <2>1
<1>6. Left(P, k) \subseteq Left(P, 0) /\ Left(P, k - 1) \subseteq Left(P, 0)
  BY <1>2, <1>5
<1>7. mark \notin LooseMarks => Left(P, k) = Left(P, k - 1)
  BY <1>4
<1> QED
  BY <1>4, <1>6, <1>7

\* Behind the last piece none are left.
LEMMA LeftNone ==
    ASSUME NEW P \in Seq(Spans)
    PROVE  Left(P, Len(P)) = {}
<1>1. \A j : j \notin (Len(P) + 1)..Len(P)
  OBVIOUS
<1> QED
  BY <1>1 DEF Left

\* Behind its end the update stays where it is.
LEMMA WalkStopped ==
    ASSUME NEW src \in Seq(Octet), NEW e, NEW T, NEW U, NEW had, NEW c, NEW pos \in Nat, NEW n \in Nat,
           NEW a, Walked(a, c, e, T, U, had, src, pos), a.stop, NEW b, b = a, NEW V, NEW l
    PROVE  Walked(b, l, e, V, U, had, src, pos + n)
<1>1. Failing(a, e, had, src, pos)
  BY DEF Walked, Going
<1>2. ~(pos + n <= Len(src))
  <2>1. ~(pos <= Len(src)) /\ Len(src) \in Nat
    BY <1>1 DEF Failing
  <2> QED
    BY <2>1
<1>3. Failing(b, e, had, src, pos + n)
  BY <1>1, <1>2 DEF Failing
<1> QED
  BY <1>3 DEF Walked

\* A piece without an offset.
LEMMA WalkUnmarked ==
    ASSUME NEW src \in Seq(Octet), NEW e, NEW T, NEW U, NEW had, NEW c, NEW pos \in Nat, NEW n \in Nat,
           NEW a, Walked(a, c, e, T, U, had, src, pos), NEW b, b = a
    PROVE  Walked(b, c, e, T, U, had, src, pos + n)
<1>1. CASE Going(a, c, e, T, had)
  BY <1>1 DEF Walked
<1>2. CASE Failing(a, e, had, src, pos)
  <2>1. ~(pos + n <= Len(src))
    <3>1. ~(pos <= Len(src)) /\ Len(src) \in Nat
      BY <1>2 DEF Failing
    <3> QED
      BY <3>1
  <2>2. Failing(b, e, had, src, pos + n)
    BY <1>2, <2>1 DEF Failing
  <2> QED
    BY <2>2 DEF Walked
<1> QED
  BY <1>1, <1>2 DEF Walked

\* One piece.
LEMMA WalkPiece ==
    ASSUME NEW src \in Seq(Octet), NEW w \in NetworkMessages, Single(w), "payloadHeader" \in w.on => Len(w.ids) = 1,
           NEW e, Received(e, w), NEW s \in Spans, NEW reader, Legal(s, w, reader),
           NEW c \in Nat, Numbered(s, c, w), NEW pos \in Nat,
           s.mark # Unmarked => Follows(src, pos, Marked(s, w)) /\ Len(Marked(s, w)) = s.size,
           NEW T, NEW V, NEW U, T \subseteq U, T \subseteq V \cup {s.mark}, s.mark \in LooseMarks => s.mark \in T,
           s.mark \notin LooseMarks => V = T, NEW had, NEW a, Walked(a, c, e, T, U, had, src, pos),
           NEW o, o = OffsetAt(s, pos), NEW b, s.mark = Unmarked => b = a, s.mark # Unmarked => b = ReadNext(a, o, src, 0)
    PROVE  Walked(b, c + Weight(s), e, V, U, had, src, pos + s.size)
<1> DEFINE n == s.size
<1>1. n \in Nat /\ Reading(a) /\ Near(a.dst, e, U)
  BY DEF Spans, Walked
<1>2. s.mark \notin FieldMarks => c + Weight(s) = c
  BY DEF Weight
<1>3. CASE s.mark = Unmarked
  <2>1. V = T /\ c + Weight(s) = c
    BY <1>2, <1>3, MarksDiffer
  <2> QED
    BY <1>1, <1>3, <2>1, WalkUnmarked
<1>4. CASE s.mark # Unmarked /\ a.stop
  <2>1. b = a
    <3>1. NextRead(a, o, src, b)
      BY <1>4, ReadNextIs
    <3> QED
      BY <1>4, <3>1 DEF NextRead
  <2> DEFINE l == c + Weight(s)
  <2> HIDE DEF l
  <2>2. Walked(b, l, e, V, U, had, src, pos + n)
    BY <1>1, <1>4, <2>1, WalkStopped
  <2> QED
    BY <2>2 DEF l
<1>5. CASE s.mark \in LooseMarks /\ ~a.stop
  <2>1. s.mark # Unmarked /\ s.mark \notin FieldMarks
    BY <1>5, MarksDiffer
  <2> DEFINE y == Marked(s, w)
  <2>2. b = ReadNext(a, o, src, 0) /\ Follows(src, pos, y) /\ Len(y) = n
    BY <2>1
  <2>3. Backed(s, w) /\ s.mark \in T /\ s.mark \in U
    BY <1>5 DEF Numbered
  <2> HIDE DEF y
  <2>6. y = Marked(s, w)
    BY DEF y
  <2>4. Near(a.dst, e, T) => Taken(a, b, e, T, s.mark, src, pos, n)
    <3> SUFFICES ASSUME Near(a.dst, e, T) PROVE Taken(a, b, e, T, s.mark, src, pos, n)
      OBVIOUS
    <3>1. Taken(a, b, e, T, s.mark, src, pos, Len(y))
      BY <1>1, <1>5, <2>2, <2>3, <2>6, OffsetNumber
    <3> QED
      BY <2>2, <3>1
  <2>5. Near(a.dst, e, U) => Taken(a, b, e, U, s.mark, src, pos, n)
    <3>1. Taken(a, b, e, U, s.mark, src, pos, Len(y))
      BY <1>1, <1>5, <2>2, <2>3, <2>6, OffsetNumber
    <3> QED
      BY <2>2, <3>1
  <2>7. Walked(b, c, e, V, U, had, src, pos + n)
    BY <1>1, <1>5, <2>4, <2>5, WalkNumber
  <2> QED
    BY <1>2, <2>1, <2>7
<1>6. CASE s.mark \in FieldMarks /\ ~a.stop
  <2>1. s.mark # Unmarked /\ s.mark \notin LooseMarks
    BY <1>6, MarksDiffer
  <2> DEFINE y == Marked(s, w)
  <2>2. b = ReadNext(a, o, src, 0) /\ Follows(src, pos, y) /\ Len(y) = n /\ V = T
    BY <2>1
  <2>3. s.field = c + 1
    BY <1>6 DEF Numbered, Single
  <2> HIDE DEF y
  <2>6. y = Marked(s, w)
    BY DEF y
  <2>4. Near(a.dst, e, T) => NextFilled(a, b, e, T, s, src, pos, n)
    <3> SUFFICES ASSUME Near(a.dst, e, T) PROVE NextFilled(a, b, e, T, s, src, pos, n)
      OBVIOUS
    <3>1. NextFilled(a, b, e, T, s, src, pos, Len(y))
      BY <1>1, <1>6, <2>2, <2>6, OffsetField
    <3> QED
      BY <2>2, <3>1
  <2>5. (Near(a.dst, e, U) => NextFilled(a, b, e, U, s, src, pos, n)) /\ s.field \in 1..Len(FirstFields(e))
    <3>1. NextFilled(a, b, e, U, s, src, pos, Len(y)) /\ s.field \in 1..Len(FirstFields(e))
      BY <1>1, <1>6, <2>2, <2>6, OffsetField
    <3> QED
      BY <2>2, <3>1
  <2>7. Walked(b, c + 1, e, T, U, had, src, pos + n)
    BY <1>1, <1>6, <2>3, <2>4, <2>5, WalkField
  <2>8. Weight(s) = 1
    BY <1>6 DEF Weight
  <2> QED
    BY <2>2, <2>7, <2>8
<1>7. s.mark \in LooseMarks \cup FieldMarks \cup {Unmarked}
  <2>1. s.mark \in Marks
    BY DEF Spans
  <2>2. s.mark # TimestampOffset /\ s.mark # PicosecondsOffset
    BY DEF Legal, Single
  <2>3. s.mark # DSMSequenceOffset
    <3>1. ASSUME s.mark = DSMSequenceOffset PROVE FALSE
      <4>1. s.dsm \in 1..DSMCount(w) /\ "sequenceNr" \in w.dsms[s.dsm].on
        BY <3>1 DEF Legal
      <4>2. DSMCount(w) = 1 /\ "sequenceNr" \notin w.dsms[1].on
        BY DEF Single
      <4>3. s.dsm = 1
        BY <4>1, <4>2
      <4> QED
        BY <4>1, <4>2, <4>3
    <3> QED
      BY <3>1
  <2> QED
    BY <2>1, <2>2, <2>3, MarksDiffer
<1> QED
  BY <1>3, <1>4, <1>5, <1>6, <1>7

\* src is what a cut has left of y.
CutOf(src, y) == src \in Seq(Octet) /\ Len(src) <= Len(y) /\ \A i \in 1..Len(src) : src[i] = y[i]

\* In a cut datagram the bytes are where they are in the whole one.
LEMMA CutFollows ==
    ASSUME NEW y \in Seq(Octet), NEW src, CutOf(src, y), NEW pos \in Nat, NEW b \in Seq(Octet), Follows(y, pos, b)
    PROVE  Follows(src, pos, b)
<1>1. Len(y) \in Nat /\ Len(src) \in Nat /\ Len(src) <= Len(y) /\ \A i \in 1..Len(src) : src[i] = y[i]
  BY DEF CutOf
<1>2. \A i \in 1..Len(b) : pos + i <= Len(y) => y[pos + i] = b[i]
  BY DEF Follows
<1>3. ASSUME NEW i \in 1..Len(b), pos + i <= Len(src) PROVE src[pos + i] = b[i]
  <2>1. i \in Nat /\ 1 <= i
    OBVIOUS
  <2>2. pos + i \in 1..Len(src) /\ pos + i <= Len(y)
    BY <1>1, <1>3, <2>1
  <2> QED
    BY <1>1, <1>2, <2>2
<1> QED
  BY <1>3 DEF Follows

\* Before the first offset.
LEMMA WalkStart ==
    ASSUME NEW src \in Seq(Octet), NEW e, NEW U, NEW dst, Near(dst, e, U), NEW a, a = ReadingFrom(dst)
    PROVE  Walked(a, 0, e, U, U, FirstFields(dst), src, 0)
<1> DEFINE new == FirstFields(e)
           s == FirstFields(dst)
<1>1. /\ a.rv = "Good" /\ a.stop = FALSE /\ a.dst = dst /\ a.next = 1
      /\ a = ReadingOf(a.rv, a.stop, a.dst, a.next, a.pos, a.overrun)
  BY DEF ReadingFrom, ReadingOf
<1>2. Len(new) \in Nat /\ Len(s) = Len(new)
  BY NearFields
<1> HIDE DEF new, s
<1>3. Split(s, 1, s, new)
  BY <1>2 DEF Split
<1>4. Reading(a)
  BY <1>1 DEF Reading, ReadCodes
<1>5. Going(a, 0, e, U, s)
  BY <1>1, <1>3 DEF Going, s, new
<1> QED
  BY <1>1, <1>4, <1>5 DEF Walked, s

\* Behind the last one.
LEMMA WalkEnd ==
    ASSUME NEW e, NEW U, NEW had, NEW src \in Seq(Octet), NEW l, NEW c, c = Len(FirstFields(e)),
           NEW a, Walked(a, c, e, {}, U, had, src, l)
    PROVE  /\ Near(a.dst, e, U) /\ (a.rv = "Good" => a.dst = e)
           /\ a.rv # "Good" => Torn(FirstFields(a.dst), had, FirstFields(e)) /\ ~(l <= Len(src))
<1>1. CASE Going(a, c, e, {}, had)
  <2> DEFINE s == FirstFields(a.dst)
             new == FirstFields(e)
             S == LooseValues \cup LooseDeltas
  <2>1. Near(a.dst, e, {}) /\ Split(s, c + 1, had, new) /\ a.rv = "Good" /\ c \in Nat /\ c = Len(new)
    <3>1. Near(a.dst, e, {}) /\ Split(s, c + 1, had, new) /\ a.rv = "Good"
      BY <1>1 DEF Going
    <3> QED
      BY <3>1, NearFields
  <2>2. s \in Seq(S) /\ new \in Seq(S) /\ Len(s) = Len(new)
    BY <2>1, NearFields
  <2>6. (c + 1) - 1 = c
    BY <2>1
  <2>3. \A i \in 1..Len(new) : s[i] = new[i]
    BY <2>1, <2>6 DEF Split
  <2>4. s = new
    <3> HIDE DEF s, new, S
    <3> QED
      BY <2>2, <2>3
  <2>5. a.dst = e
    BY <2>1, <2>4, NearSame
  <2> QED
    BY <2>1, <2>5 DEF Walked
<1>2. CASE Failing(a, e, had, src, l)
  BY <1>2 DEF Failing, Walked
<1> QED
  BY <1>1, <1>2 DEF Walked

\* Every field has an offset.
LEMMA SingleFields ==
    ASSUME NEW w \in NetworkMessages, Sendable(w), Single(w), NEW e, Received(e, w)
    PROVE  FieldsUpTo(w, DSMCount(w)) = Len(FirstFields(e))
<1> DEFINE d == w.dsms[1]
           r == ReceivedDSM(d)
<1>1. DSMCount(w) = 1 /\ d.type = KeyFrame
  BY DEF Single
<1>2. d \in DataSetMessages /\ Encodable(d)
  <2>1. 1 \in 1..DSMCount(w)
    BY <1>1
  <2> QED
    BY <2>1, SizesFit DEF Sendable, AllEncodable
<1>3. d.type # KeepAlive
  BY <1>1 DEF KeyFrame, KeepAlive
<1>4. FieldsCounted(d) = Len(d.fields)
  BY <1>1, <1>2, <1>3 DEF Encodable, FieldsCounted
<1>5. Len(r.fields) = Len(d.fields)
  <2> HIDE DEF r
  <2>1. r = ReceivedDSM(d)
    BY DEF r
  <2> HIDE DEF d
  <2> QED
    BY <1>2, <1>3, <2>1, ReceivedHas
<1>6. e.dsms[1] = r
  <2>1. e.dsms = ReceivedAll(w)
    BY DEF Received, Paid
  <2> QED
    BY <1>1, <2>1 DEF ReceivedAll
<1>7. 1 \in 1..Len(w.dsms)
  <2>1. DSMCount(w) <= Len(w.dsms) /\ w.dsms \in Seq(DataSetMessages)
    BY MessageHas
  <2> DEFINE l == Len(w.dsms)
  <2>2. l \in Nat /\ 1 <= l
    BY <1>1, <2>1
  <2> HIDE DEF l
  <2>3. 1 \in 1..l
    BY <2>2
  <2> QED
    BY <2>3 DEF l
<1>8. FieldsUpTo(w, 1) = FieldsUpTo(w, 1 - 1) + FieldsCounted(d) /\ FieldsUpTo(w, 0) = 0
  BY <1>7, FieldsUpToMore
<1>9. Len(d.fields) \in Nat
  BY <1>2, DSMHas DEF Unsigned
<1>10. FieldsUpTo(w, 1) = Len(d.fields)
  <2> DEFINE l == Len(d.fields)
  <2>1. FieldsUpTo(w, 1) = 0 + l /\ l \in Nat
    BY <1>4, <1>8, <1>9
  <2> HIDE DEF l
  <2>2. FieldsUpTo(w, 1) = l
    BY <2>1
  <2> QED
    BY <2>2 DEF l
<1> QED
  BY <1>1, <1>5, <1>6, <1>10 DEF FirstFields

\* What the subscriber has after an update.
Refreshed(u, dst, e, U, src, y) ==
    /\ Near(u.dst, e, U) /\ (u.rv = "Good" => u.dst = e)
    /\ u.rv # "Good" => Torn(FirstFields(u.dst), FirstFields(dst), FirstFields(e)) /\ Len(src) < Len(y)

\* Along all offsets, in a datagram that may have been cut.
LEMMA UpdateWalks ==
    ASSUME NEW w \in NetworkMessages, Sendable(w), Single(w), "payloadHeader" \in w.on => Len(w.ids) = 1,
           NEW P, P = SubscriberPieces(w), NEW y, y = MessageBytes(w), NEW src, CutOf(src, y),
           NEW e, Received(e, w), NEW U, U = Left(P, 0), NEW dst, Near(dst, e, U),
           NEW O, O = SubscriberOffsets(w), NEW u, u = UpdateBufferedNwMessage(dst, O, src, 0)
    PROVE  Refreshed(u, dst, e, U, src, y)
<1> DEFINE reader == TRUE
           c == Len(FirstFields(e))
           n == Len(P)
           W == Weighed(P)
           had == FirstFields(dst)
<1>1. P = MessagePieces(w, reader) /\ reader \in BOOLEAN
  BY DEF SubscriberPieces
<1> HIDE DEF reader
<1>2. Alike(w, w)
  BY DEF Alike, AlikeDSM, AlikeField
<1>3. PICK q : Along(y, y, w, P, q, reader)
  BY <1>1, <1>2, MessageAlong
<1>4. y \in Seq(Octet) /\ P \in Seq(Spans) /\ q \in Nat /\ q <= Len(y) /\ src \in Seq(Octet) /\ Len(src) <= Len(y)
  BY <1>3 DEF Along, CutOf
<1>5. PICK L : WalkedBy(P, 0, q, Good(y, y, w, reader), L)
  BY <1>3 DEF Along, Walk
<1>6. L[0] = 0 /\ L[n] = q /\ \A k \in 1..n : L[k] = L[k - 1] + P[k].size /\ Holding(P[k], L[k - 1], y, y, w, reader)
  <2>1. \A k \in 1..n : <<P[k], L[k - 1]>> \in Good(y, y, w, reader) => Holding(P[k], L[k - 1], y, y, w, reader)
    BY DEF Good
  <2> QED
    BY <1>5, <2>1 DEF WalkedBy
<1>7. \A k \in 0..n : L[k] \in Nat
  BY <1>4, <1>5, PlacesGrow
<1>8. Tally(P, 0, FieldsUpTo(w, DSMCount(w)), w) /\ O = Noting(P).offsets
  BY SubscriberPiecesAre
<1>9. FieldsUpTo(w, DSMCount(w)) = c
  BY SingleFields
<1>10. PICK C : WalkedBy(W, 0, c, Counting(w), C)
  BY <1>8, <1>9 DEF Tally, Walk
<1>11. PICK M, J : Noticed(P, M, J, O)
  BY <1>4, <1>8, NotingNotes
<1>12. \A k \in 0..n : M[k] = L[k]
  BY <1>4, <1>5, <1>11, SamePlaces
<1>13. Len(O) \in Nat /\ n \in Nat
  BY <1>4, <1>11 DEF Noticed
<1>14. PICK f : ReadBy(dst, O, src, f) /\ u = f[Len(O)]
  BY <1>13, ReadRuns
<1>15. f[0] = ReadingFrom(dst) /\ \A k \in 1..Len(O) : f[k] = ReadNext(f[k - 1], O[k], src, 0)
  BY <1>14 DEF ReadBy
<1>16. /\ J \in [0..n -> 0..Len(O)] /\ J[0] = 0 /\ J[n] = Len(O)
       /\ \A k \in 1..n : /\ P[k].mark = Unmarked => J[k] = J[k - 1]
                          /\ P[k].mark # Unmarked => J[k] = J[k - 1] + 1 /\ O[J[k]] = OffsetAt(P[k], M[k - 1])
  BY <1>11 DEF Noticed
<1>17. /\ Len(W) = n
       /\ \A k \in 1..n : W[k].size = Weight(P[k]) /\ W[k].mark = P[k].mark /\ W[k].field = P[k].field
  BY <1>4, WeighedType
<1> HIDE DEF W
<1>18. /\ C \in [0..n -> Nat] /\ C[0] = 0 /\ C[n] = c
       /\ \A k \in 1..n : C[k] = C[k - 1] + Weight(P[k]) /\ Numbered(W[k], C[k - 1], w)
  BY <1>10, <1>17 DEF WalkedBy, Counting
<1> HIDE DEF n, c, had
<1> DEFINE T == {k \in Nat : k <= n => Walked(f[J[k]], C[k], e, Left(P, k), U, had, src, L[k])}
<1>19. 0 \in T
  <2> DEFINE a == ReadingFrom(dst)
  <2>1. f[J[0]] = a
    BY <1>15, <1>16
  <2> HIDE DEF a
  <2>2. Walked(a, 0, e, U, U, had, src, 0)
    BY <1>4, WalkStart DEF a, had
  <2>3. C[0] = 0 /\ L[0] = 0 /\ Left(P, 0) = U
    BY <1>6, <1>18
  <2>4. Walked(f[J[0]], C[0], e, Left(P, 0), U, had, src, L[0])
    BY <2>1, <2>2, <2>3
  <2> QED
    BY <2>4
<1>20. ASSUME NEW k \in Nat, k \in T
       PROVE  k + 1 \in T
  <2> SUFFICES ASSUME k + 1 <= n
               PROVE  Walked(f[J[k + 1]], C[k + 1], e, Left(P, k + 1), U, had, src, L[k + 1])
    OBVIOUS
  <2> DEFINE j == k + 1
             a == f[J[k]]
             b == f[J[j]]
             s == P[j]
             m == C[k]
             i == J[k]
             pos == L[k]
             o == OffsetAt(s, pos)
             t == Left(P, k)
             V == Left(P, j)
             z == Marked(s, w)
  <2>1. j \in 1..n /\ j - 1 = k /\ k <= n /\ k \in 0..n /\ j \in 0..n
    BY <1>13
  <2>2. Walked(a, m, e, t, U, had, src, pos)
    BY <1>20, <2>1
  <2>3. m \in Nat /\ C[j] = m + Weight(s) /\ Numbered(W[j], m, w) /\ pos \in Nat /\ s \in Spans
    <3>1. s \in Spans
      BY <1>4, <2>1 DEF n
    <3>2. m \in Nat
      BY <1>18, <2>1
    <3>3. C[j] = m + Weight(s) /\ Numbered(W[j], m, w)
      BY <1>18, <2>1
    <3>4. pos \in Nat
      BY <1>7, <2>1
    <3> QED
      BY <3>1, <3>2, <3>3, <3>4
  <2>4. Numbered(s, m, w)
    BY <1>17, <2>1, <2>3 DEF Numbered, Backed
  <2>5. L[j] = pos + s.size /\ Holding(s, pos, y, y, w, reader)
    BY <1>6, <2>1
  <2>6. Legal(s, w, reader) /\ (s.mark # Unmarked => z \in Seq(Octet) /\ Len(z) = s.size /\ Follows(y, pos, z))
    BY <2>5 DEF Holding
  <2>7. /\ t \subseteq V \cup {s.mark} /\ V \subseteq U /\ t \subseteq U
        /\ s.mark \in LooseMarks => s.mark \in t
        /\ s.mark \notin LooseMarks => V = t
    <3> DEFINE mark == s.mark
    <3>1. j \in 1..Len(P) /\ mark = P[j].mark
      BY <2>1 DEF n
    <3>3. Left(P, j - 1) = t
      BY <2>1
    <3> HIDE DEF j, mark
    <3>2. /\ Left(P, j - 1) \subseteq Left(P, j) \cup {mark} /\ Left(P, j) \subseteq Left(P, 0)
          /\ Left(P, j - 1) \subseteq Left(P, 0)
          /\ mark \in LooseMarks => mark \in Left(P, j - 1)
          /\ mark \notin LooseMarks => Left(P, j) = Left(P, j - 1)
      BY <1>4, <3>1, LeftMore
    <3> QED
      BY <3>2, <3>3 DEF mark
  <2>8. s.mark = Unmarked => b = a
    BY <1>16, <2>1
  <2>9. s.mark # Unmarked => b = ReadNext(a, o, src, 0)
    <3> SUFFICES ASSUME s.mark # Unmarked PROVE b = ReadNext(a, o, src, 0)
      OBVIOUS
    <3>1. J[j] = i + 1 /\ O[J[j]] = OffsetAt(s, M[k])
      BY <1>16, <2>1
    <3>2. i \in Nat /\ J[j] \in 0..Len(O) /\ M[k] = pos
      BY <1>12, <1>16, <2>1
    <3>3. J[j] \in 1..Len(O) /\ J[j] - 1 = i
      BY <1>13, <3>1, <3>2
    <3> QED
      BY <1>15, <3>1, <3>2, <3>3
  <2>10. o = OffsetAt(s, pos) /\ z = Marked(s, w)
    OBVIOUS
  <2> HIDE DEF a, b, s, m, pos, o, t, V, z, j, i
  <2>11. s.mark # Unmarked => Follows(src, pos, z) /\ Len(z) = s.size
    BY <1>4, <2>3, <2>6, CutFollows
  <2>12. Walked(b, m + Weight(s), e, V, U, had, src, pos + s.size)
    BY <1>4, <2>2, <2>3, <2>4, <2>6, <2>7, <2>8, <2>9, <2>10, <2>11, WalkPiece
  <2>13. Walked(b, C[j], e, V, U, had, src, L[j])
    BY <2>3, <2>5, <2>12
  <2> QED
    BY <2>13 DEF b, V, j
<1>21. Walked(f[J[n]], C[n], e, Left(P, n), U, had, src, L[n])
  <2>1. \A k \in Nat : k \in T
    <3> HIDE DEF T
    <3> QED
      BY <1>19, <1>20, Induction
  <2> QED
    BY <1>13, <2>1
<1>22. Left(P, n) = {}
  BY <1>4, LeftNone DEF n
<1>23. Walked(u, c, e, {}, U, had, src, q)
  BY <1>6, <1>14, <1>16, <1>18, <1>21, <1>22
<1>24. /\ Near(u.dst, e, U) /\ (u.rv = "Good" => u.dst = e)
       /\ u.rv # "Good" => Torn(FirstFields(u.dst), had, FirstFields(e)) /\ ~(q <= Len(src))
  BY <1>4, <1>23, WalkEnd DEF c
<1>25. ~(q <= Len(src)) => Len(src) < Len(y)
  <2>1. Len(src) \in Nat /\ Len(y) \in Nat
    BY <1>4
  <2> QED
    BY <1>4, <2>1
<1> QED
  BY <1>24, <1>25 DEF Refreshed, had

\* The sequence number of a group header has an offset.
LEMMA GroupMarked ==
    ASSUME NEW w \in NetworkMessages, NEW reader \in BOOLEAN, {"groupHeader", "sequenceNumber"} \subseteq w.on,
           NEW G, G = GroupPieces(w, reader)
    PROVE  HasMark(G, SequenceOffset)
<1> DEFINE mark == ForReader(reader, GroupIdOffset)
           s == Span(2, SequenceOffset)
           G1 == <<Span(1, Unmarked)>>
           G2 == SpanIf(w, "writerGroupId", 2, mark)
           G3 == SpanIf(w, "groupVersion", 4, Unmarked)
           G4 == SpanIf(w, "nmNumber", 2, Unmarked)
           S  == <<s>>
<1>1. G = G1 \o G2 \o G3 \o G4 \o S
  BY DEF GroupPieces, SpanIf
<1>2. mark \in Marks /\ Unmarked \in Marks /\ SequenceOffset \in Marks /\ 1 \in Nat /\ 2 \in Nat /\ 4 \in Nat
  BY MarksAre DEF ForReader
<1> HIDE DEF mark
<1>3. /\ Span(1, Unmarked) \in Spans /\ Span(2, mark) \in Spans /\ Span(4, Unmarked) \in Spans
      /\ Span(2, Unmarked) \in Spans /\ s \in Spans /\ s.mark = SequenceOffset
  BY <1>2 DEF Span, Spans
<1> HIDE DEF s
<1>4. G1 \in Seq(Spans) /\ G2 \in Seq(Spans) /\ G3 \in Seq(Spans) /\ G4 \in Seq(Spans) /\ S \in Seq(Spans)
  BY <1>3 DEF SpanIf
<1>5. HasMark(S, SequenceOffset)
  <2>1. 1 \in 1..Len(S) /\ S[1].mark = SequenceOffset
    BY <1>3
  <2> HIDE DEF S
  <2> QED
    BY <1>4, <2>1 DEF HasMark
<1> HIDE DEF G1, G2, G3, G4, S
<1> DEFINE A2 == G1 \o G2
           A3 == A2 \o G3
           A4 == A3 \o G4
<1>6. A2 \in Seq(Spans) /\ A3 \in Seq(Spans) /\ A4 \in Seq(Spans)
  BY <1>4, SpansConcat
<1>7. G = A4 \o S
  BY <1>1
<1> HIDE DEF A2, A3, A4
<1>8. HasMark(A4 \o S, SequenceOffset)
  BY <1>4, <1>5, <1>6, HasConcat
<1> QED
  BY <1>7, <1>8

\* So it is among those the subscriber reads.
LEMMA SequenceMarked ==
    ASSUME NEW w \in NetworkMessages, Sendable(w), {"groupHeader", "sequenceNumber"} \subseteq w.on,
           NEW P, P = SubscriberPieces(w)
    PROVE  SequenceOffset \in Left(P, 0)
<1> DEFINE reader == TRUE
           mark == SequenceOffset
<1>1. P = MessagePieces(w, reader) /\ reader \in BOOLEAN
  BY DEF SubscriberPieces
<1> HIDE DEF reader
<1> DEFINE P1 == <<Span(FlagsSize(w), Unmarked)>>
           P2 == PublisherIdPiece(w, reader)
           P3 == SpanIf(w, "classId", 16, Unmarked)
           P4 == GroupPieces(w, reader)
           P5 == PayloadHeaderPieces(w, reader)
           S1 == SpanIf(w, "timestamp", 8, TimestampOffset)
           S2 == SpanIf(w, "picoseconds", 2, PicosecondsOffset)
           P7 == PromotedPieces(w)
           P8 == SecurityPieces(w)
           P9 == TablePieces(w)
           D  == FlattenSeq(PiecesOf(w))
<1>2. P = P1 \o P2 \o P3 \o P4 \o P5 \o S1 \o S2 \o P7 \o P8 \o P9 \o D
  BY <1>1, MessagePiecesAre
<1>3. Alike(w, w) /\ AllEncodable(w)
  BY DEF Alike, AlikeDSM, AlikeField, Sendable
<1>4. P1 \in Seq(Spans) /\ P3 \in Seq(Spans) /\ S1 \in Seq(Spans) /\ S2 \in Seq(Spans) /\ P7 \in Seq(Spans)
      /\ P8 \in Seq(Spans) /\ P9 \in Seq(Spans)
  BY <1>1, <1>3, SectionsPlain DEF Plain
<1>5. P2 \in Seq(Spans)
  BY <1>1, PublisherPlain DEF Plain
<1>6. P4 \in Seq(Spans) /\ HasMark(P4, mark)
  BY <1>1, GroupMarked DEF HasMark
<1>7. P5 \in Seq(Spans)
  BY <1>1, WriterPlain DEF Plain
<1>8. D \in Seq(Spans)
  BY <1>3, DSMsLaid, LaidType
<1> HIDE DEF P1, P2, P3, P4, P5, S1, S2, P7, P8, P9, D, mark
<1> DEFINE A2 == P1 \o P2
           A3 == A2 \o P3
           A4 == A3 \o P4
           A5 == A4 \o P5
           A6 == A5 \o S1
           A7 == A6 \o S2
           A8 == A7 \o P7
           A9 == A8 \o P8
           B9 == A9 \o P9
           B  == B9 \o D
<1>9. P = B
  BY <1>2
<1>10. A2 \in Seq(Spans) /\ A3 \in Seq(Spans)
  BY <1>4, <1>5, SpansConcat
<1> HIDE DEF A2, A3
<1>11. HasMark(A4, mark) /\ A4 \in Seq(Spans)
  BY <1>6, <1>10, HasConcat
<1> HIDE DEF A4
<1>12. HasMark(A5, mark) /\ A5 \in Seq(Spans)
  BY <1>7, <1>11, HasConcat
<1> HIDE DEF A5
<1>13. HasMark(A6, mark) /\ A6 \in Seq(Spans)
  BY <1>4, <1>12, HasConcat
<1> HIDE DEF A6
<1>14. HasMark(A7, mark) /\ A7 \in Seq(Spans)
  BY <1>4, <1>13, HasConcat
<1> HIDE DEF A7
<1>15. HasMark(A8, mark) /\ A8 \in Seq(Spans)
  BY <1>4, <1>14, HasConcat
<1> HIDE DEF A8
<1>16. HasMark(A9, mark) /\ A9 \in Seq(Spans)
  BY <1>4, <1>15, HasConcat
<1> HIDE DEF A9
<1>17. HasMark(B9, mark) /\ B9 \in Seq(Spans)
  BY <1>4, <1>16, HasConcat
<1> HIDE DEF B9
<1>18. HasMark(B, mark)
  BY <1>8, <1>17, HasConcat
<1> HIDE DEF B
<1>19. PICK k \in 1..Len(P) : P[k].mark = SequenceOffset
  BY <1>9, <1>18 DEF HasMark, mark
<1>20. k \in (0 + 1)..Len(P)
  OBVIOUS
<1>21. SequenceOffset \in LooseMarks
  BY DEF LooseMarks
<1> QED
  BY <1>19, <1>20, <1>21 DEF Left

\* Whether a message is readable does not depend on its numbers.
LEMMA FamilyReadable ==
    ASSUME NEW b \in Messages, NEW m \in Family(b)
    PROVE  Readable(m) <=> Readable(b)
<1>1. m \in NetworkMessages /\ b \in NetworkMessages /\ Alike(m, b) /\ (Writeable(m) <=> Writeable(b)) /\ m.on = b.on
  BY FamilyIs, MessagesAssumption
<1>2. m.pubType = b.pubType /\ Len(m.dsms) = Len(b.dsms) /\ (Len(m.dsms) = 1 => m.dsms[1].on = b.dsms[1].on)
  BY <1>1 DEF Alike, AlikeDSM
<1> QED
  BY <1>1, <1>2 DEF Readable

\* What the subscriber decodes, and the offsets it reads numbers at.
Delivered(m) == DecodeBinary(MessageBytes(m)).dst
Places(m)    == Left(SubscriberPieces(m), 0)

\* The messages of a family are as long, and have the same pieces.
LEMMA FamilyPieces ==
    ASSUME NEW b \in NetworkMessages, NEW w \in NetworkMessages, Alike(w, b), Sendable(b), Sendable(w)
    PROVE  /\ SubscriberPieces(w) = SubscriberPieces(b) /\ SubscriberOffsets(w) = SubscriberOffsets(b)
           /\ CalcSize(w) = CalcSize(b) /\ MessageBytes(w) \in Seq(Octet)
<1> DEFINE reader == TRUE
           x == MessageBytes(w)
           y == MessageBytes(b)
           P == MessagePieces(b, reader)
<1>1. reader \in BOOLEAN
  OBVIOUS
<1> HIDE DEF reader
<1>2. MessagePieces(w, reader) = MessagePieces(b, reader)
  BY PiecesAlike DEF Sendable
<1>3. PICK q : Along(x, y, b, P, q, reader)
  BY <1>1, MessageAlong
<1>4. Len(x) = Len(y) /\ x \in Seq(Octet)
  BY <1>3 DEF Along
<1>5. \A m \in {w, b} : Len(MessageBytes(m)) = CalcSize(m)
  <2> SUFFICES ASSUME NEW m \in NetworkMessages, Sendable(m) PROVE Len(MessageBytes(m)) = CalcSize(m)
    OBVIOUS
  <2>1. CalcSize(m) \in Nat
    BY MessagePiece
  <2> QED
    BY <2>1, EncodeFits
<1>6. CalcSize(w) = CalcSize(b)
  BY <1>4, <1>5
<1>7. SubscriberPieces(w) = SubscriberPieces(b) /\ SubscriberOffsets(w) = SubscriberOffsets(b)
  BY <1>2 DEF SubscriberPieces, SubscriberOffsets, Offsets, reader
<1> QED
  BY <1>4, <1>6, <1>7

\* Two messages of a family are decoded to messages near each other.
LEMMA DeliveredNear ==
    ASSUME NEW b \in NetworkMessages, NEW w \in NetworkMessages, Alike(w, b), Sendable(b), Sendable(w),
           Single(b), CalcSize(b) <= MaxDatagram, CalcSize(w) <= MaxDatagram,
           NEW c, c = Delivered(b), NEW e, e = Delivered(w)
    PROVE  Near(e, c, Places(b)) /\ Received(e, w)
<1>1. Kempt(c) /\ Received(c, b) /\ Kempt(e) /\ Received(e, w)
  BY DecodedKempt DEF Delivered
<1>2. {"groupHeader", "sequenceNumber"} \subseteq b.on => SequenceOffset \in Places(b)
  BY SequenceMarked DEF Places
<1> DEFINE T == Places(b)
<1> HIDE DEF T
<1>3. Near(e, c, T)
  BY <1>1, <1>2, FamilyNear DEF T
<1> QED
  BY <1>1, <1>3 DEF T

\* A message of the family of b brings that of the subscriber up to date, wherever the
\* datagram ends.
LEMMA FamilyRefreshed ==
    ASSUME NEW b \in Messages, Sendable(b), Readable(b), CalcSize(b) <= MaxDatagram, NEW w \in Family(b),
           NEW y, y = MessageBytes(w), NEW src, CutOf(src, y), NEW dst, Near(dst, Delivered(b), Places(b)),
           NEW O, O = SubscriberOffsets(b), NEW u, u = UpdateBufferedNwMessage(dst, O, src, 0)
    PROVE  Refreshed(u, dst, Delivered(w), Places(b), src, y) /\ Near(u.dst, Delivered(b), Places(b))
<1> DEFINE c == Delivered(b)
           e == Delivered(w)
           P == SubscriberPieces(b)
           U == Places(b)
<1>1. b \in NetworkMessages /\ w \in NetworkMessages /\ Alike(w, b) /\ Readable(w) /\ b \in Family(b)
  BY FamilyIs, FamilyReadable, MessagesAssumption DEF Family
<1>2. Sendable(w) /\ Alike(b, w)
  BY <1>1, FamilyAlike
<1>3. Single(b) /\ Single(w) /\ ("payloadHeader" \in w.on => Len(w.ids) = 1)
  BY <1>1, <1>2, ReadableSingle
<1>4. SubscriberPieces(w) = P /\ SubscriberOffsets(w) = O /\ CalcSize(w) = CalcSize(b)
  BY <1>1, <1>2, FamilyPieces
<1>5. c = Delivered(b) /\ e = Delivered(w) /\ P = SubscriberPieces(w) /\ U = Left(P, 0) /\ Near(dst, c, U)
  BY <1>4 DEF Places
<1>6. U = Places(b) /\ U = Places(w)
  BY <1>4 DEF Places
<1> HIDE DEF c, e, P, U
<1>7. Near(e, c, U) /\ Received(e, w)
  BY <1>1, <1>2, <1>3, <1>4, <1>5, <1>6, DeliveredNear
<1>8. Near(c, e, U)
  BY <1>1, <1>2, <1>3, <1>4, <1>5, <1>6, DeliveredNear
<1>9. Near(dst, e, U)
  BY <1>5, <1>7, NearTurn
<1>10. Refreshed(u, dst, e, U, src, y)
  <2>1. O = SubscriberOffsets(w)
    BY <1>4
  <2> QED
    BY <1>1, <1>2, <1>3, <1>5, <1>7, <1>9, <2>1, UpdateWalks
<1>11. Near(u.dst, c, U)
  <2> DEFINE d == u.dst
  <2>1. Near(d, e, U)
    BY <1>10 DEF Refreshed
  <2> HIDE DEF d
  <2>2. Near(d, c, U)
    BY <1>8, <2>1, NearTurn
  <2> QED
    BY <2>2 DEF d
<1> QED
  BY <1>5, <1>6, <1>10, <1>11

\* What has been received is what a cut has left of the datagram.
LEMMA CutIs ==
    ASSUME datagram \in Seq(Octet), NEW size \in Nat, NEW src, src = Cut(size)
    PROVE  CutOf(src, datagram)
<1> DEFINE y == datagram
           n == IF Len(y) < size THEN Len(y) ELSE size
<1>1. Len(y) \in Nat /\ y \in Seq(Octet)
  OBVIOUS
<1>2. src = SubSeq(y, 1, n)
  BY DEF Cut
<1>3. n \in Nat /\ n <= Len(y)
  BY <1>1
<1> HIDE DEF y, n
<1>4. src \in Seq(Octet) /\ Len(src) = n /\ \A i \in 1..n : src[i] = y[i]
  BY <1>1, <1>2, <1>3
<1>5. CutOf(src, y)
  BY <1>3, <1>4 DEF CutOf
<1> QED
  BY <1>5 DEF y

---------------------------------------------------------------------------
(* The subscriber listens to the messages of b. *)

\* The last update: w was sent, and the fields before it were those of d.
Current(w, d) ==
    /\ ~update.cut => update.rv = "Good"
    /\ update.rv = "Good" => update.dst = Delivered(w)
    /\ update.rv # "Good" => Torn(FirstFields(update.dst), FirstFields(d), FirstFields(Delivered(w)))

Updated(b) ==
    /\ update.rv \in ReadCodes /\ update.of \in Family(b)
    /\ update.next \in 1..(FieldsUpTo(b, DSMCount(b)) + 1)
    /\ DSMCount(b) = 1 => ~update.overrun
    /\ Readable(b) => Current(update.of, old)

Listening(b) ==
    /\ offsets.subscriber = SubscriberOffsets(b) /\ CalcSize(b) <= MaxDatagram
    /\ DSMCount(b) = 1 => HasFields(Known, b)
    /\ Readable(b) => Near(Known, Delivered(b), Places(b))
    /\ update # None => Updated(b)

\* The first message it gets.
LEMMA FreezeListening ==
    ASSUME NEW b \in Messages, Unfrozen, update = None, Freeze(b)
    PROVE  Listening(b)'
<1>1. b \in NetworkMessages
  BY MessagesAssumption
<1>2. /\ EncodeBinary(b, CalcSize(b)).rv = "Good" /\ CalcSize(b) <= MaxDatagram /\ buffer' = Encoding(b)
      /\ old' = DecodeBinary(buffer').dst
      /\ offsets' = [publisher |-> Offsets(b, FALSE), subscriber |-> Offsets(old', TRUE)]
      /\ update' = update
  BY DEF Freeze
<1>3. Sendable(b) /\ buffer' = MessageBytes(b)
  <2>1. Frozen(b)'
    BY FreezeFrozen
  <2>2. Sendable(b)
    BY <2>1 DEF Frozen
  <2>3. b \in Family(b)
    BY DEF Family
  <2>4. Encoding(b) = MessageBytes(b)
    BY <2>2, <2>3, FamilyAlike
  <2> QED
    BY <1>2, <2>2, <2>4
<1>4. Received(old', b) /\ old' \in LooseMessages
  BY <1>1, <1>2, <1>3, DecodedIs
<1>5. SubscriberOffsets(old') = SubscriberOffsets(b) /\ (DSMCount(b) = 1 => HasFields(old', b))
  BY <1>1, <1>3, <1>4, DecodedHas
<1>6. offsets'.subscriber = SubscriberOffsets(old')
  BY <1>2 DEF SubscriberOffsets
<1>7. Known' = old' /\ old' = Delivered(b)
  BY <1>2, <1>3 DEF Known, Delivered
<1>8. ASSUME Readable(b)
      PROVE  Near(Known', Delivered(b), Places(b))
  <2>1. Single(b)
    BY <1>1, <1>3, <1>8, ReadableSingle
  <2>2. Alike(b, b)
    BY DEF Alike, AlikeDSM, AlikeField
  <2>3. Near(Delivered(b), Delivered(b), Places(b))
    BY <1>1, <1>2, <1>3, <2>1, <2>2, DeliveredNear
  <2> QED
    BY <1>7, <2>3
<1> QED
  BY <1>2, <1>5, <1>6, <1>7, <1>8 DEF Listening

\* An update.
LEMMA ReceiveListening ==
    ASSUME NEW b \in Messages, Frozen(b), Sent(b), Listening(b), NEW size \in CutSizes, Receive(size)
    PROVE  Listening(b)'
<1> DEFINE k == Known
           O == offsets.subscriber
           src == Cut(size)
           u == UpdateBufferedNwMessage(k, O, src, 0)
           q == FieldsUpTo(b, DSMCount(b))
           c == Len(src) < Len(datagram)
<1>1. /\ old' = Known /\ offsets' = offsets
      /\ update' = [rv |-> u.rv, dst |-> u.dst, next |-> u.next, overrun |-> u.overrun, of |-> sent, cut |-> c]
  BY DEF Receive
<1>2. /\ b \in NetworkMessages /\ Sendable(b) /\ sent \in Family(b) /\ O = SubscriberOffsets(b)
      /\ DSMCount(b) = 1 => HasFields(k, b)
      /\ Readable(b) => Near(k, Delivered(b), Places(b))
      /\ CalcSize(b) <= MaxDatagram
  BY MessagesAssumption DEF Frozen, Sent, Listening
<1>11. CutOf(src, datagram)
  <2>1. datagram \in Seq(Octet) /\ size \in Nat
    BY CutSizesAssumption DEF Sent
  <2> QED
    BY <2>1, CutIs
<1> DEFINE w == sent
           y == MessageBytes(w)
<1>12. w \in Family(b) /\ y = MessageBytes(w)
  BY <1>2
<1>13. Readable(b) => datagram = y
  BY DEF Readable, Sent
<1> HIDE DEF k, O, src, c, w, y
<1>14. u = UpdateBufferedNwMessage(k, O, src, 0)
  OBVIOUS
<1>3. Within(u, q, k, b)
  BY <1>2, ReadWithin
<1>4. q \in Nat
  BY <1>2, FieldsUpToAll
<1> HIDE DEF u, q
<1>5. /\ Reading(u) /\ u.rv \in ReadCodes /\ u.next \in Nat /\ 1 <= u.next /\ u.next <= q + 1
      /\ (\A n : Shape(k, n) => Shape(u.dst, n)) /\ (OneDSM(k, b) => ~u.overrun)
  BY <1>3 DEF Within, Reading
<1>6. /\ update'.rv = u.rv /\ update'.dst = u.dst /\ update'.next = u.next /\ update'.overrun = u.overrun
      /\ update'.of = w /\ update'.cut = c
  BY <1>1 DEF w
<1>7. DSMCount(b) = 1 => OneDSM(k, b)
  BY <1>2 DEF OneDSM
<1>8. DSMCount(b) = 1 => ~u.overrun /\ HasFields(u.dst, b)
  BY <1>5, <1>7 DEF OneDSM, HasFields
<1>15. Known' = k \/ Known' = u.dst
  BY <1>1, <1>6 DEF Known, k
<1>9. DSMCount(b) = 1 => HasFields(Known', b)
  BY <1>2, <1>8, <1>15
<1>16. ASSUME Readable(b)
       PROVE  Refreshed(u, k, Delivered(w), Places(b), src, y) /\ Near(u.dst, Delivered(b), Places(b))
  <2>1. CutOf(src, y) /\ Near(k, Delivered(b), Places(b))
    BY <1>2, <1>11, <1>13, <1>16
  <2> QED
    BY <1>2, <1>12, <1>14, <1>16, <2>1, FamilyRefreshed
<1>17. Readable(b) => Near(Known', Delivered(b), Places(b))
  BY <1>2, <1>15, <1>16
<1>18. Readable(b) => Current(update.of, old)'
  <2> SUFFICES ASSUME Readable(b)
               PROVE  /\ ~update'.cut => update'.rv = "Good"
                      /\ update'.rv = "Good" => update'.dst = Delivered(update'.of)
                      /\ update'.rv # "Good" => Torn(FirstFields(update'.dst), FirstFields(old'), FirstFields(Delivered(update'.of)))
    BY DEF Current
  <2>1. /\ u.rv = "Good" => u.dst = Delivered(w)
        /\ u.rv # "Good" => Torn(FirstFields(u.dst), FirstFields(k), FirstFields(Delivered(w))) /\ Len(src) < Len(y)
    BY <1>16 DEF Refreshed
  <2>2. c <=> Len(src) < Len(y)
    BY <1>13 DEF c
  <2>3. old' = k
    BY <1>1 DEF k
  <2> QED
    BY <1>6, <2>1, <2>2, <2>3
<1>10. Updated(b)'
  <2>1. u.next \in 1..(q + 1)
    BY <1>4, <1>5
  <2> QED
    BY <1>5, <1>6, <1>8, <1>12, <1>18, <2>1 DEF Updated, q
<1> QED
  BY <1>1, <1>2, <1>9, <1>10, <1>17 DEF Listening, O

\* At every moment the publisher and the subscriber are where a frozen message leaves them.
PathInv ==
    \/ Unfrozen /\ update = None
    \/ \E b \in Messages : Frozen(b) /\ (datagram # None => Sent(b)) /\ Listening(b)

\* Nothing is frozen at the start.
LEMMA InitPathInv == Init => PathInv
BY DEF Init, PathInv, Unfrozen

\* Every step.
LEMMA PathInductive == PathInv /\ [Next]_vars => PathInv'
<1> SUFFICES ASSUME PathInv, [Next]_vars
             PROVE  PathInv'
  OBVIOUS
<1>1. ASSUME Unfrozen, update = None
      PROVE  PathInv'
  <2>1. ASSUME NEW b \in Messages, Freeze(b)
        PROVE  PathInv'
    BY <1>1, <2>1, FreezeFrozen, FreezeListening DEF PathInv
  <2>2. CASE UNCHANGED vars
    BY <1>1, <2>2 DEF vars, Unfrozen, PathInv
  <2>3. ~Publish /\ ~Lose /\ (\A n : ~Change(n)) /\ (\A size : ~Receive(size))
    BY <1>1 DEF Unfrozen, Publish, Lose, Change, Receive
  <2> QED
    BY <2>1, <2>2, <2>3 DEF Next
<1>2. ASSUME NEW b \in Messages, Frozen(b), datagram # None => Sent(b), Listening(b)
      PROVE  PathInv'
  <2>0. msg # None
    BY <1>2, FamilyIs, MessagesAssumption DEF Frozen
  <2>1. ASSUME NEW n \in Values, Change(n)
        PROVE  PathInv'
    <3>1. /\ msg' = Renewed(msg, n) /\ buffer' = buffer /\ offsets' = offsets /\ status' = status
          /\ sent' = sent /\ datagram' = datagram /\ old' = old /\ update' = update
      BY <2>1 DEF Change
    <3>2. Renewed(msg, n) \in Family(b)
      BY <1>2, FamilyGrows DEF Frozen
    <3>3. Frozen(b)'
      BY <1>2, <3>1, <3>2 DEF Frozen
    <3>4. datagram' # None => Sent(b)'
      BY <1>2, <3>1 DEF Sent
    <3>5. Listening(b)'
      BY <1>2, <3>1 DEF Listening, Known, Updated, Current
    <3> QED
      BY <3>3, <3>4, <3>5 DEF PathInv
  <2>2. CASE Publish
    <3>1. offsets' = offsets /\ old' = old /\ update' = update
      BY <2>2 DEF Publish
    <3>2. Listening(b)'
      BY <1>2, <3>1 DEF Listening, Known, Updated, Current
    <3>3. Frozen(b)' /\ (datagram' # None => Sent(b)')
      BY <1>2, <2>2, PublishFrozen
    <3> QED
      BY <3>2, <3>3 DEF PathInv
  <2>3. ASSUME Lose \/ \E size \in CutSizes : Receive(size)
        PROVE  PathInv'
    <3>1. datagram' = None /\ msg' = msg /\ buffer' = buffer /\ offsets' = offsets /\ status' = status
      BY <2>3 DEF Lose, Receive
    <3>2. Frozen(b)'
      BY <1>2, <3>1 DEF Frozen
    <3>3. CASE Lose
      <4>1. old' = old /\ update' = update
        BY <3>3 DEF Lose
      <4>2. Listening(b)'
        BY <1>2, <3>1, <4>1 DEF Listening, Known, Updated, Current
      <4> QED
        BY <3>1, <3>2, <4>2 DEF PathInv
    <3>4. ASSUME NEW size \in CutSizes, Receive(size)
          PROVE  PathInv'
      <4>1. datagram # None
        BY <3>4 DEF Receive
      <4>2. Listening(b)'
        BY <1>2, <3>4, <4>1, ReceiveListening
      <4> QED
        BY <3>1, <3>2, <4>2 DEF PathInv
    <3> QED
      BY <2>3, <3>3, <3>4
  <2>4. CASE UNCHANGED vars
    <3>1. Frozen(b)' /\ (datagram' # None => Sent(b)') /\ Listening(b)'
      BY <1>2, <2>4 DEF vars, Frozen, Sent, Listening, Known, Updated, Current
    <3> QED
      BY <3>1 DEF PathInv
  <2>5. \A m : ~Freeze(m)
    BY <2>0 DEF Freeze
  <2> QED
    BY <2>1, <2>2, <2>3, <2>4, <2>5 DEF Next
<1> QED
  BY <1>1, <1>2 DEF PathInv

\* The offsets of both sides stay those of the message that was frozen, the buffer holds a
\* message of its family, and the subscriber's message keeps its fields, whatever datagrams
\* get lost or arrive cut.
THEOREM PathInvariance == Spec => []PathInv
BY InitPathInv, PathInductive, PTL DEF Spec

\* The offsets UA_NetworkMessage_calcSizeBinary notes are those of the encoder: the
\* publisher's update makes the encoding of the message as it is now, and no message goes
\* out with a time stamp of the past.
THEOREM UpdatesAreEncodings == Spec => []UpdatedIsEncoded
<1>1. PathInv => UpdatedIsEncoded
  <2> SUFFICES ASSUME PathInv, datagram # None
               PROVE  /\ sent.on \cap {"timestamp", "picoseconds"} = {}
                      /\ Writeable(sent) => datagram = Encoding(sent)
    BY DEF UpdatedIsEncoded
  <2>1. PICK b \in Messages : Frozen(b) /\ Sent(b)
    BY DEF PathInv, Unfrozen
  <2>2. Sendable(b) /\ sent \in Family(b)
    BY <2>1 DEF Frozen, Sent
  <2>3. Encoding(sent) = MessageBytes(sent) /\ (Writeable(sent) <=> Writeable(b))
    BY <2>2, FamilyIs, FamilyAlike
  <2> QED
    BY <2>1, <2>3 DEF Sent
<1> QED
  BY <1>1, PathInvariance, PTL

\* The buffer stays a sequence of bytes, updateBufferedMessage and updateBufferedNwMessage
\* return the codes they document, and an update ends behind one of the message's fields at
\* the latest.
THEOREM TypeCorrect == Spec => []TypeOK
<1>1. PathInv => TypeOK
  <2>1. ASSUME Unfrozen, update = None
        PROVE  TypeOK
    <3>1. buffer \in Seq(0..255) /\ status \in {"Good", "BadNotSupported", "BadEncodingError"} /\ datagram = None
      BY <2>1 DEF Unfrozen
    <3> QED
      BY Zenon, <2>1, <3>1 DEF TypeOK
  <2>2. ASSUME NEW b \in Messages, Frozen(b), datagram # None => Sent(b), Listening(b)
        PROVE  TypeOK
    <3>1. buffer \in Seq(0..255) /\ status \in {"Good", "BadNotSupported", "BadEncodingError"}
      BY <2>2 DEF Frozen, UpdateCodes, Octet
    <3>2. datagram # None => Len(datagram) = Len(buffer)
      BY <2>2 DEF Sent
    <3>3. ASSUME update # None
          PROVE  /\ update.rv \in {"Good", "BadNotSupported", "BadDecodingError"}
                 /\ update.next \in 1..(1 + SumOf(Len(update.of.dsms), LAMBDA i : Len(update.of.dsms[i].fields)))
      <4> DEFINE w == update.of
                 l == AllFields(w, Len(w.dsms))
                 q == FieldsUpTo(b, DSMCount(b))
      <4>1. update.rv \in ReadCodes /\ w \in Family(b) /\ update.next \in 1..(q + 1)
        BY <2>2, <3>3 DEF Listening, Updated
      <4>2. b \in NetworkMessages /\ w \in NetworkMessages /\ Alike(w, b)
        BY <4>1, FamilyIs, MessagesAssumption
      <4>3. l = AllFields(b, Len(b.dsms))
        BY <4>2, AlikeFields
      <4>4. q <= l /\ q \in Nat /\ l \in Nat
        BY <4>2, <4>3, FieldsUpToAll
      <4>5. SumOf(Len(update.of.dsms), LAMBDA i : Len(update.of.dsms[i].fields)) = l
        BY DEF SumOf, AllFields
      <4> HIDE DEF l, q
      <4>6. update.next \in 1..(1 + l)
        BY <4>1, <4>4
      <4> QED
        BY <4>1, <4>5, <4>6 DEF ReadCodes
    <3> QED
      BY <3>1, <3>2, <3>3 DEF TypeOK
  <2> QED
    BY <2>1, <2>2 DEF PathInv
<1> QED
  BY <1>1, PathInvariance, PTL

\* updateBufferedNwMessage never writes behind the last field of a message with one
\* DataSetMessage, whatever the datagram: "Considering one DSM in RT".
THEOREM UpdatesStayInFields == Spec => []WithinFields
<1>1. PathInv => WithinFields
  <2> SUFFICES ASSUME PathInv, update # None, update.overrun
               PROVE  Len(update.of.dsms) > 1
    BY DEF WithinFields
  <2>1. PICK b \in Messages : Frozen(b) /\ Listening(b)
    BY DEF PathInv
  <2> DEFINE w == update.of
             c == DSMCount(b)
             n == Len(b.dsms)
  <2>2. w \in Family(b) /\ c # 1
    BY <2>1 DEF Listening, Updated
  <2>3. b \in NetworkMessages /\ Alike(w, b)
    BY <2>2, FamilyIs, MessagesAssumption
  <2>4. Len(w.dsms) = n
    BY <2>3 DEF Alike
  <2>5. b.dsms \in Seq(DataSetMessages) /\ DSMCount(b) <= Len(b.dsms) /\ DSMCount(b) \in Nat
    BY <2>3, MessageHas
  <2>6. c <= n /\ c \in Nat /\ n \in Nat
    BY <2>5
  <2>7. c # 0
    <3>1. ~NoWriters(b) /\ b.nmType = 0
      BY <2>1 DEF Frozen, Sendable
    <3>2. "payloadHeader" \in b.on => b.ids # <<>> /\ b.ids \in Seq(Unsigned(2))
      BY <2>3, <3>1, MessageHas DEF NoWriters
    <3>3. "payloadHeader" \in b.on => Len(b.ids) # 0
      BY <3>2
    <3> QED
      BY <3>3 DEF DSMCount
  <2> HIDE DEF c, n
  <2>8. n > 1
    BY <2>2, <2>6, <2>7
  <2> QED
    BY <2>4, <2>8
<1> QED
  BY <1>1, PathInvariance, PTL

\* updateBufferedNwMessage succeeds with a whole datagram, and when it succeeds, the message
\* of the subscriber is what decoding the whole encoding would have given.
THEOREM UpdatesAreDecodings == Spec => []UpdatedIsDecoded
<1>1. PathInv => UpdatedIsDecoded
  <2> SUFFICES ASSUME PathInv, update # None, Readable(update.of)
               PROVE  /\ ~update.cut => update.rv = "Good"
                      /\ update.rv = "Good" => update.dst = DecodeBinary(Encoding(update.of)).dst
    BY DEF UpdatedIsDecoded
  <2>1. PICK b \in Messages : Frozen(b) /\ Listening(b)
    BY DEF PathInv
  <2>2. Sendable(b) /\ update.of \in Family(b) /\ (Readable(b) => Current(update.of, old))
    BY <2>1 DEF Frozen, Listening, Updated
  <2>3. Readable(b) /\ Encoding(update.of) = MessageBytes(update.of)
    BY <2>2, FamilyReadable, FamilyAlike
  <2> QED
    BY <2>2, <2>3 DEF Current, Delivered
<1> QED
  BY <1>1, PathInvariance, PTL

\* An update that fails half-way tears the fields of the subscriber's message in one place.
THEOREM UpdatesTearOnce == Spec => []TornInOnePlace
<1>1. PathInv => TornInOnePlace
  <2> DEFINE w == update.of
             new == FirstFields(DecodeBinary(Encoding(w)).dst)
             got == FirstFields(update.dst)
             had == FirstFields(old)
  <2> SUFFICES ASSUME PathInv, update # None, Readable(w), update.rv # "Good"
               PROVE  \E k \in 1..(Len(got) + 1) :
                          /\ \A i \in 1..(k - 1) : got[i] = new[i]
                          /\ k \in DOMAIN got => got[k].value \in {EmptyVariant, had[k].value}
                          /\ \A i \in (k + 1)..Len(got) : got[i] = had[i]
    BY DEF TornInOnePlace
  <2>1. PICK b \in Messages : Frozen(b) /\ Listening(b)
    BY DEF PathInv
  <2>2. Sendable(b) /\ w \in Family(b) /\ (Readable(b) => Current(w, old))
    BY <2>1 DEF Frozen, Listening, Updated
  <2>3. Readable(b) /\ Encoding(w) = MessageBytes(w)
    BY <2>2, FamilyReadable, FamilyAlike
  <2>4. Torn(got, had, new)
    BY <2>2, <2>3 DEF Current, Delivered
  <2>5. DOMAIN got = 1..Len(got)
    <3>1. Near(update.dst, Delivered(b), Places(b))
      BY <2>1, <2>3 DEF Listening, Known
    <3> QED
      BY <3>1, NearFields
  <2> HIDE DEF got, had, new
  <2>6. PICK k \in Nat : TornAt(got, k, had, new)
    BY <2>4 DEF Torn
  <2>7. k \in 1..(Len(got) + 1) /\ (k \in DOMAIN got => k <= Len(got))
    BY <2>5, <2>6 DEF TornAt
  <2> QED
    BY <2>6, <2>7 DEF TornAt
<1> QED
  BY <1>1, PathInvariance, PTL
=============================================================================
