---------------------------- MODULE MessagePath ----------------------------
(***************************************************************************)
(* One NetworkMessage on its way from a writer group to a subscriber:      *)
(* calcSize and encode into a buffer, one UDP datagram that may be lost or *)
(* cut to the receive buffer, decode, use, clear.  The functions are those *)
(* of NetworkMessage; this module adds who calls them, in which order, and *)
(* what is left behind.                                                    *)
(***************************************************************************)
EXTENDS NetworkMessage

CONSTANTS Messages,     \* the messages the writer group may publish
          Shortfalls,   \* how many bytes the encoding buffer may lack
          ReceiveSizes, \* the receive buffer sizes; 512 in subscription.cpp
          None          \* no message under way

\* The writer group hands over UA_NetworkMessage structs.
ASSUME MessagesAssumption == Messages \subseteq NetworkMessages /\ None \notin Messages

ASSUME ShortfallsAssumption == 0 \in Shortfalls /\ Shortfalls \subseteq Nat

ASSUME ReceiveSizesAssumption == ReceiveSizes \subseteq Nat

\* What fits one UDP datagram over IPv4: sending more is an error (EMSGSIZE).
MaxDatagram == 65507

VARIABLES phase,     \* "idle", "encoded", "received", "decoded"
          msg,       \* the message published
          cap,       \* the size of the buffer it is encoded into
          wire,      \* [rv, out] of encodeBinary
          datagram,  \* the bytes in the receive buffer
          result,    \* [rv, dst, leaked, uninit] of decodeBinary
          leaked     \* blocks no one can free any more

vars == <<phase, msg, cap, wire, datagram, result, leaked>>

Init ==
    /\ phase = "idle"
    /\ msg = None
    /\ cap = 0
    /\ wire = [rv |-> "Good", out |-> <<>>]
    /\ datagram = <<>>
    /\ result = [rv |-> "Good", dst |-> Blank, leaked |-> {}, uninit |-> FALSE]
    /\ leaked = {}

\* The publishing library sizes the buffer with calcSize; a shortfall stands
\* for a caller with a buffer of its own.
Encode(m, s) ==
    /\ phase = "idle"
    /\ s <= CalcSize(m)
    /\ msg' = m
    /\ cap' = CalcSize(m) - s
    /\ wire' = EncodeBinary(m, CalcSize(m) - s)
    /\ phase' = "encoded"
    /\ UNCHANGED <<datagram, result, leaked>>

\* Back to the state in which nothing is under way.
Reset ==
    /\ phase' = "idle"
    /\ msg' = None
    /\ cap' = 0
    /\ wire' = [rv |-> "Good", out |-> <<>>]
    /\ datagram' = <<>>
    /\ result' = [rv |-> "Good", dst |-> Blank, leaked |-> {}, uninit |-> FALSE]

\* An encoder that reports an error has nothing sent; UDP may lose the rest.
Lose ==
    /\ phase = "encoded"
    /\ Reset
    /\ UNCHANGED leaked

\* recv fills at most the receive buffer and drops the rest of the datagram.
Receive(size) ==
    /\ phase = "encoded"
    /\ wire.rv = "Good"
    /\ wire.out # <<>>
    /\ Len(wire.out) <= MaxDatagram
    /\ size > 0
    /\ datagram' = SubSeq(wire.out, 1, IF Len(wire.out) < size THEN Len(wire.out) ELSE size)
    /\ phase' = "received"
    /\ UNCHANGED <<msg, cap, wire, result, leaked>>

Decode ==
    /\ phase = "received"
    /\ result' = DecodeBinary(datagram)
    /\ leaked' = leaked \cup result'.leaked
    /\ phase' = "decoded"
    /\ UNCHANGED <<msg, cap, wire, datagram>>

\* The final clear of the decoded message.
Clear ==
    /\ phase = "decoded"
    /\ leaked' = leaked \cup Leaked(result.dst)
    /\ Reset

Next ==
    \/ \E m \in Messages, s \in Shortfalls : Encode(m, s)
    \/ Lose
    \/ \E size \in ReceiveSizes : Receive(size)
    \/ Decode
    \/ Clear

Spec == Init /\ [][Next]_vars

---------------------------------------------------------------------------
(* What a subscriber should be handed for message m, written from the
   message alone. *)

\* val restricted to the fields in S, zero elsewhere.
Only(val, S) == [f \in DOMAIN val |-> IF f \in S THEN val[f] ELSE 0]

DeliveredValue(d, enc) ==
    IF enc = VariantEncoding THEN OnlyValue(d.value)
    ELSE [on |-> d.on,
          value |-> IF "value" \in d.on THEN d.value ELSE EmptyVariant,
          val |-> [f \in DOMAIN d.val |->
                      CASE f \notin d.on -> 0
                        [] f \in d.on /\ f \in {"sourcePicoseconds", "serverPicoseconds"}
                              -> Clamp(d.val[f])
                        [] OTHER -> d.val[f]]]

DeliveredDSM(d) ==
    [on |-> d.on, type |-> d.type, enc |-> d.enc, val |-> Only(d.val, d.on),
     fields |-> CASE d.type = KeyFrame ->
                       [i \in DOMAIN d.fields |-> DeliveredValue(d.fields[i], d.enc)]
                  [] d.type = DeltaFrame ->
                       [i \in DOMAIN d.fields |->
                           [index |-> d.fields[i].index,
                            value |-> DeliveredValue(d.fields[i].value, d.enc)]]
                  [] OTHER -> <<>>,
     count |-> IF d.type = KeepAlive THEN 0 ELSE Len(d.fields),
     owns |-> d.type # KeepAlive]

\* The features that reach the wire: those of a header only with the header.
Transmitted(m) ==
    (m.on \cap (DOMAIN NMFlags \cup DOMAIN Ext1Flags \cup DOMAIN Ext2Flags))
    \cup (IF "groupHeader" \in m.on THEN m.on \cap DOMAIN GroupFlags ELSE {})
    \cup (IF "security" \in m.on THEN m.on \cap DOMAIN SecurityFlags ELSE {})

Delivered(m) ==
    LET on == Transmitted(m)
        n  == DSMCount(m)
        present == (on \ (IF m.pubType = StringId THEN {"publisherId"} ELSE {}))
                   \cup (IF "security" \in on THEN {"tokenId"} ELSE {})
                   \cup (IF "footer" \in on THEN {"footerSize"} ELSE {})
        bytes(f, s) == IF f \in on THEN s ELSE <<>>
    IN  [on |-> on, version |-> m.version, pubType |-> m.pubType, nmType |-> m.nmType,
         val |-> Only(m.val, present),
         pubString |-> IF "publisherId" \in on /\ m.pubType = StringId THEN m.pubString ELSE <<>>,
         ids |-> bytes("payloadHeader", m.ids),
         count |-> IF "payloadHeader" \in on THEN Len(m.ids) ELSE 0,
         promoted |-> bytes("promoted", m.promoted), nonce |-> bytes("security", m.nonce),
         footer |-> bytes("footer", m.footer), signature |-> bytes("signed", m.signature),
         dsms |-> [i \in 1..n |-> DeliveredDSM(m.dsms[i])],
         sizes |-> IF n <= 1 THEN <<>>
                   ELSE [i \in 1..n |-> IF m.sizes # <<>> /\ m.sizes[i] # 0 THEN m.sizes[i]
                                        ELSE DSMSize(m.dsms[i])],
         heap |-> {}]

WithoutHeap(d) == [d EXCEPT !.heap = {}]

\* A security footer that is longer than a byte can count.
LongFooter(m) == {"security", "footer"} \subseteq m.on /\ m.val["footerSize"] >= 256

\* The messages both sides implement.
Supported(m) ==
    /\ m.nmType = 0
    /\ "payloadHeader" \in m.on => m.ids # <<>>
    /\ \A i \in 1..DSMCount(m) :
          /\ m.dsms[i].type \in {KeyFrame, DeltaFrame, KeepAlive}
          /\ m.dsms[i].enc # RawData \/ m.dsms[i].type = KeepAlive
    /\ ~LongFooter(m)

---------------------------------------------------------------------------
(* Properties. *)

Statuscodes == {"Good", "BadDecodingError", "BadEncodingError", "BadNotImplemented",
                "BadInternalError"}
Blocks == {"pubString", "ids", "promoted", "nonce", "sizes", "dsms", "footer", "signature"}
          \cup {ToString(k) : k \in 1..255}

TypeOK ==
    /\ phase \in {"idle", "encoded", "received", "decoded"}
    /\ msg \in Messages \cup {None}
    /\ cap \in Nat
    /\ wire.rv \in Statuscodes /\ wire.out \in Seq(0..255)
    /\ datagram \in Seq(0..255)
    /\ result.rv \in Statuscodes
    /\ leaked \subseteq Blocks

\* calcSize is exact: a supported message fits a buffer of that size and fills
\* it, and a smaller buffer is reported, as long as every write of the message
\* is one whose statuscode the encoder returns.  A security footer that the byte
\* counter of the encoder cannot reach the end of is never reported as sent.
SizeExact ==
    /\ phase = "encoded" /\ Supported(msg) =>
          /\ cap = CalcSize(msg) => wire.rv = "Good" /\ Len(wire.out) = cap
          /\ cap < CalcSize(msg) /\ msg.on \cap {"timestamp", "picoseconds", "promoted"} = {}
                => wire.rv # "Good"
    /\ phase = "encoded" /\ LongFooter(msg) => wire.rv # "Good"

\* A datagram that arrives whole is decoded to the message that was published.
RoundTrip ==
    phase = "decoded" /\ cap = CalcSize(msg) /\ datagram = wire.out =>
        result.rv = "Good" /\ WithoutHeap(result.dst) = Delivered(msg)

\* A datagram cut anywhere by the receive buffer is refused.
TruncationDetected ==
    phase = "decoded" /\ cap = CalcSize(msg) /\ Len(datagram) < Len(wire.out) =>
        result.rv # "Good"

\* Whatever the decoder had allocated when it stopped, clear frees it all; the
\* one exception is the signature of a signed message, which clear leaves out.
OnlySignatureLeaks == leaked \subseteq {"signature"}

\* Clearing a partly decoded message reads only memory that was written.
ClearReadsWritten == ~result.uninit

---------------------------------------------------------------------------
(* The message path implements the datagram service. *)

Service == INSTANCE DatagramService WITH
    Content   <- {Delivered(m) : m \in {x \in Messages : Supported(x)}},
    NoContent <- None,
    pending   <- IF phase \in {"encoded", "received"} /\ wire.rv = "Good"
                 THEN Delivered(msg) ELSE None,
    delivered <- IF phase = "decoded" /\ result.rv = "Good"
                 THEN WithoutHeap(result.dst) ELSE None

\* Every message handed over is one that was published, unaltered; a failed or
\* cut message is dropped.
ImplementsService == Service!Spec
=============================================================================
