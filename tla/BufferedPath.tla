---------------------------- MODULE BufferedPath ----------------------------
(***************************************************************************)
(* A message published over and over through one buffer: the writer group  *)
(* encodes it once, the application changes the values its offsets point   *)
(* to, each publication writes them into the buffer, and a subscriber that *)
(* has decoded the first message brings it up to date from the datagrams   *)
(* that arrive.  Datagrams may be lost or arrive cut.                      *)
(***************************************************************************)
EXTENDS BufferedMessage

CONSTANTS Messages,     \* the messages to publish
          Values,       \* the numbers the application writes
          CutSizes,     \* the receive buffer sizes
          None

VARIABLES msg,       \* the message of the writer group, as the application last changed it
          buffer,    \* its precomputed encoding
          offsets,   \* the offsets of the publisher and those of the subscriber
          status,    \* what updateBufferedMessage returned last
          sent,      \* msg at the last publication
          datagram,  \* the bytes under way, None if there are none
          old,       \* the message of the subscriber before the last update
          update     \* the last update of the subscriber, with the message sent and whether it was cut

vars == <<msg, buffer, offsets, status, sent, datagram, old, update>>

Init ==
    /\ msg = None
    /\ buffer = <<>>
    /\ offsets = [publisher |-> <<>>, subscriber |-> <<>>]
    /\ status = "Good"
    /\ sent = None
    /\ datagram = None
    /\ old = None
    /\ update = None

Encoding(m) == EncodeBinary(m, CalcSize(m)).out

\* The longest UDP datagram over IPv4.
MaxDatagram == 65507

\* The writer group is frozen: its message is sized, with its offsets, and encoded; one
\* that cannot be encoded is refused.  The subscriber receives the same message in one
\* datagram, decodes it, and notes the offsets in what it has got.
Freeze(m) ==
    /\ msg = None
    /\ EncodeBinary(m, CalcSize(m)).rv = "Good"
    /\ CalcSize(m) <= MaxDatagram
    /\ msg' = m
    /\ buffer' = Encoding(m)
    /\ old' = DecodeBinary(buffer').dst
    /\ offsets' = [publisher |-> Offsets(m, FALSE), subscriber |-> Offsets(old', TRUE)]
    /\ UNCHANGED <<status, sent, datagram, update>>

\* The application writes the values the offsets point to, none of another type.
NewNumbers(d, n) == [k \in DOMAIN d |-> n]
NewVariant(v, n) == [v EXCEPT !.data = NewNumbers(@, n)]
NewField(f, n) == [f EXCEPT !.value = NewVariant(@, n)]
NewFields(d, n) ==
    IF d.type # KeyFrame THEN d.fields ELSE [i \in DOMAIN d.fields |-> NewField(d.fields[i], n + i)]
NewDSM(d, n) == [d EXCEPT !.val["sequenceNr"] = n, !.fields = NewFields(d, n)]
NewDSMs(s, n) == [i \in DOMAIN s |-> NewDSM(s[i], n)]
Renewed(m, n) ==
    [m EXCEPT !.val["sequenceNumber"] = n, !.dsms = NewDSMs(m.dsms, n)]

\* The values fit the types of the fields, and the fields stay what they are.
ASSUME MessagesAssumption == Messages \subseteq NetworkMessages /\ None \notin NetworkMessages

ASSUME ValuesAssumption == \A m \in Messages, n \in Values : Renewed(m, n) \in NetworkMessages

ASSUME CutSizesAssumption == CutSizes \subseteq Nat

Change(n) ==
    /\ msg # None
    /\ msg' = Renewed(msg, n)
    /\ UNCHANGED <<buffer, offsets, status, sent, datagram, old, update>>

Published(r) ==
    /\ buffer' = r.out
    /\ status' = r.rv
    /\ sent' = msg
    /\ datagram' = IF r.rv = "Good" THEN r.out ELSE None

\* Assumption on the writer group, which is not in this repository: a buffer whose update
\* reports an error is not sent.  The update itself does no more than return the error.
Publish ==
    /\ msg # None
    /\ datagram = None
    /\ Published(UpdateBufferedMessage(buffer, offsets.publisher, msg))
    /\ UNCHANGED <<msg, offsets, old, update>>

Lose ==
    /\ datagram # None
    /\ datagram' = None
    /\ UNCHANGED <<msg, buffer, offsets, status, sent, old, update>>

Known == IF update = None THEN old ELSE update.dst

Cut(size) == SubSeq(datagram, 1, IF Len(datagram) < size THEN Len(datagram) ELSE size)

Receive(size) ==
    /\ datagram # None
    /\ old' = Known
    /\ LET u == UpdateBufferedNwMessage(Known, offsets.subscriber, Cut(size), 0)
       IN  update' = [rv |-> u.rv, dst |-> u.dst, next |-> u.next, overrun |-> u.overrun,
                      of |-> sent, cut |-> Len(Cut(size)) < Len(datagram)]
    /\ datagram' = None
    /\ UNCHANGED <<msg, buffer, offsets, status, sent>>

Next ==
    \/ \E m \in Messages : Freeze(m)
    \/ \E n \in Values : Change(n)
    \/ Publish
    \/ Lose
    \/ \E size \in CutSizes : Receive(size)

Spec == Init /\ [][Next]_vars

---------------------------------------------------------------------------
(* Which messages the fixed offsets are made for. *)

ScalarFields(d) ==
    /\ d.type = KeyFrame
    /\ \A i \in DOMAIN d.fields : ~(d.fields[i].value.arr /\ d.fields[i].value.data # <<>>)
    /\ d.enc = DataValueEncoding => Len(d.fields) <= 1

\* Those whose every changing value has an offset of its own.
Writeable(m) ==
    /\ m.on \cap {"timestamp", "picoseconds"} = {}
    /\ \A i \in DOMAIN m.dsms : ScalarFields(m.dsms[i])

\* The subscriber reads no sequence number of a DataSetMessage, and only one of these.
Readable(m) ==
    /\ Writeable(m)
    /\ Len(m.dsms) = 1
    /\ "sequenceNr" \notin m.dsms[1].on
    /\ ~("publisherId" \in m.on /\ m.pubType = StringId)

---------------------------------------------------------------------------
(* Properties. *)

TypeOK ==
    /\ buffer \in Seq(0..255)
    /\ status \in {"Good", "BadNotSupported", "BadEncodingError"}
    /\ datagram # None => Len(datagram) = Len(buffer)
    /\ update # None => /\ update.rv \in {"Good", "BadNotSupported", "BadDecodingError"}
                        /\ update.next \in 1..(1 + SumOf(Len(update.of.dsms), LAMBDA i : Len(update.of.dsms[i].fields)))

\* The offsets calcSize notes are those of the encoder: a message brought up to date in
\* place without an error is, byte for byte, the encoding of the message as it is now,
\* and one whose time stamp cannot be brought up to date is reported.
UpdatedIsEncoded ==
    datagram # None =>
        /\ sent.on \cap {"timestamp", "picoseconds"} = {}
        /\ Writeable(sent) => datagram = Encoding(sent)

\* Updating the message of the subscriber in place succeeds with a whole datagram, and
\* when it succeeds, also with a cut one, it gives what decoding all of it would give.
UpdatedIsDecoded ==
    update # None /\ Readable(update.of) =>
        /\ ~update.cut => update.rv = "Good"
        /\ update.rv = "Good" => update.dst = DecodeBinary(Encoding(update.of)).dst

FirstFields(d) == d.dsms[1].fields

\* An update that fails half-way tears the message of the subscriber in one place: the
\* fields in front have the new values, those behind the old ones, and the one the
\* datagram ends in has the old value or none.
TornInOnePlace ==
    update # None /\ Readable(update.of) /\ update.rv # "Good" =>
        LET new == FirstFields(DecodeBinary(Encoding(update.of)).dst)
            got == FirstFields(update.dst)
        IN  \E k \in 1..(Len(got) + 1) :
                /\ \A i \in 1..(k - 1) : got[i] = new[i]
                /\ k \in DOMAIN got => got[k].value \in {EmptyVariant, FirstFields(old)[k].value}
                /\ \A i \in (k + 1)..Len(got) : got[i] = FirstFields(old)[i]

\* "Considering one DSM in RT": with one DataSetMessage the update stays within its fields.
WithinFields ==
    update # None /\ update.overrun => Len(update.of.dsms) > 1

\* "Offsets for changes in the message buffer": a message that is sent holds the changes.
ChangesSent ==
    datagram # None => datagram = Encoding(sent)
=============================================================================
