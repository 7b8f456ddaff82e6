-------------------------- MODULE SubscriberProofs --------------------------
(***************************************************************************)
(* The safety properties of Subscriber hold for every set of datagrams,    *)
(* every decoder that satisfies DecodedAssumption and CountAssumption, and *)
(* any number of arrivals.  One inductive invariant, IInv, carries them    *)
(* all; each of its parts says what the statement that comes next relies   *)
(* on.                                                                     *)
(***************************************************************************)
EXTENDS Subscriber, WireProofs

\* Exactly the two statements between allocation and clear have a buffer.
BufferInv == buffers = IF pc \in {"receive", "decode"} THEN 1 ELSE 0

Working == {"check", "messages", "message", "fields", "cleanup"}

\* networkMessage is zero except while listen() works on it.
MessageInv == pc \notin Working => message = ZeroMessage

\* There is one datagram in hand from receive() to the end of listen().
DatagramInv == Len(datagram) = IF pc \in Working \cup {"decode"} THEN 1 ELSE 0

\* The announced messages are there, and the loop stays below their number.
BoundsInv ==
    /\ message.count <= Len(message.dsms)
    /\ pc \in {"message", "fields"} => dsmIndex < message.count

\* A datagram received after a stop is the last: the way back to receive() leads
\* through the test of m_running.
StopInv ==
    /\ late <= 1
    /\ late = 1 => ~running
    /\ pc \in {"alloc", "receive"} => late = 0

\* Without a stop or an allocation failure, run() has not returned.
ReturnInv == pc = "returned" => ~running \/ retval = "BadOutOfMemory"

IInv ==
    /\ TypeOK /\ BufferInv /\ MessageInv /\ DatagramInv /\ BoundsInv /\ StopInv /\ ReturnInv

\* The message the memset of clear leaves is a NetworkMessage.
LEMMA ZeroIsARecord == ZeroMessage \in NetworkRecords
<1>1. <<>> \in Seq(MessageRecords)
  OBVIOUS
<1> QED
  BY <1>1 DEF ZeroMessage, NetworkRecords

\* The invariant holds when the subscriber has been constructed.
LEMMA InitIInv == Init => IInv
<1> SUFFICES ASSUME Init PROVE IInv
  OBVIOUS
<1>1. TypeOK
  <2>1. <<>> \in Seq(Datagrams) /\ <<>> \in Seq(Nat) /\ Len(<<>>) = 0
    OBVIOUS
  <2>2. queue \in Seq(Datagrams) /\ datagram \in Seq(Datagrams) /\ Len(datagram) <= 1
    BY <2>1 DEF Init
  <2>3. screen \in Seq(Nat) /\ before \in 0..Len(screen)
    BY <2>1 DEF Init
  <2>4. arrivals \in 0..MaxArrivals /\ message \in NetworkRecords
    BY ZeroIsARecord, MaxArrivalsAssumption DEF Init
  <2>5. /\ pc \in Outside /\ alive = "yes" /\ installed \in BOOLEAN /\ running \in BOOLEAN
        /\ retval = "Good" /\ buffers = 0 /\ dsmIndex = 0 /\ fieldIndex = 0 /\ late = 0
    BY DEF Init, Outside
  <2> QED
    BY <2>2, <2>3, <2>4, <2>5 DEF TypeOK
<1>2. BufferInv /\ MessageInv /\ DatagramInv /\ StopInv /\ ReturnInv
  BY DEF Init, BufferInv, MessageInv, DatagramInv, StopInv, ReturnInv, Working
<1>3. BoundsInv
  BY DEF Init, BoundsInv, ZeroMessage
<1> QED
  BY <1>1, <1>2, <1>3 DEF IInv

\* What the two assumptions say of the decoder's result for one datagram.
LEMMA DecodedMessage ==
    ASSUME NEW d \in Datagrams
    PROVE  Decoded[d] \in NetworkRecords /\ Decoded[d].count <= Len(Decoded[d].dsms)
BY DecodedAssumption, CountAssumption

\* The value of a readable field of a type that is shown.
LEMMA ReadableField ==
    ASSUME NEW d \in MessageRecords, NEW i, Readable(d, i)
    PROVE  WellKnown(d.fields[i]) => d.fields[i].data[1] \in Nat
<1>1. d.fields[i] \in FieldRecords
  BY DEF Readable, MessageRecords
<1> QED
  BY <1>1 DEF Readable, FieldRecords

---------------------------------------------------------------------------
(* Every step preserves the invariant. *)

\* A datagram or a signal disturbs nothing, at any statement.
LEMMA EnvironmentStep ==
    ASSUME IInv,
           (\E d \in Datagrams : Arrive(d)) \/ StopHandler \/ Terminate
    PROVE  IInv'
<1> USE DEF IInv, socket, loops, history
<1>1. CASE \E d \in Datagrams : Arrive(d)
  <2>1. TypeOK'
    BY <1>1, MaxArrivalsAssumption DEF Arrive, TypeOK
  <2> QED
    BY <1>1, <2>1 DEF Arrive, BufferInv, MessageInv, DatagramInv, BoundsInv, StopInv, ReturnInv
<1>2. CASE StopHandler
  BY <1>2 DEF StopHandler, TypeOK, BufferInv, MessageInv, DatagramInv, BoundsInv, StopInv, ReturnInv
<1>3. CASE Terminate
  BY <1>3 DEF Terminate, TypeOK, BufferInv, MessageInv, DatagramInv, BoundsInv, StopInv, ReturnInv
<1> QED
  BY <1>1, <1>2, <1>3

\* init(), the start of run() and the destructor find nothing allocated.
LEMMA CallerStep ==
    ASSUME IInv, InstallHandler \/ Run \/ Destroy
    PROVE  IInv'
<1> USE DEF IInv, socket, loops, history, Outside, InRun, Listening, Working
<1>1. CASE InstallHandler
  BY <1>1 DEF InstallHandler, TypeOK, BufferInv, MessageInv, DatagramInv, BoundsInv, StopInv,
              ReturnInv
<1>2. CASE Run
  BY <1>2 DEF Run, TypeOK, BufferInv, MessageInv, DatagramInv, BoundsInv, StopInv, ReturnInv
<1>3. CASE Destroy
  BY <1>3 DEF Destroy, TypeOK, BufferInv, MessageInv, DatagramInv, BoundsInv, StopInv, ReturnInv
<1> QED
  BY <1>1, <1>2, <1>3

\* From the test of m_running to the buffer with a datagram.
LEMMA ReceivingStep ==
    ASSUME IInv,
           LoopTest \/ Allocate \/ AllocationFails \/ ReceiveDatagram \/ ReceiveNothing
    PROVE  IInv'
<1> USE DEF IInv, socket, loops, history, At, Outside, InRun, Listening, Working
<1>1. CASE LoopTest
  BY <1>1 DEF LoopTest, Continue, TypeOK, BufferInv, MessageInv, DatagramInv, BoundsInv, StopInv,
              ReturnInv
<1>2. CASE Allocate
  BY <1>2 DEF Allocate, TypeOK, BufferInv, MessageInv, DatagramInv, BoundsInv, StopInv, ReturnInv
<1>3. CASE AllocationFails
  BY <1>3 DEF AllocationFails, TypeOK, BufferInv, MessageInv, DatagramInv, BoundsInv, StopInv,
              ReturnInv
<1>4. CASE ReceiveDatagram
  <2>1. Head(queue) \in Datagrams /\ Tail(queue) \in Seq(Datagrams)
    BY <1>4 DEF ReceiveDatagram, TypeOK
  <2>2. TypeOK'
    BY <1>4, <2>1 DEF ReceiveDatagram, TypeOK
  <2>3. BufferInv' /\ MessageInv' /\ DatagramInv' /\ BoundsInv' /\ ReturnInv'
    BY <1>4 DEF ReceiveDatagram, BufferInv, MessageInv, DatagramInv, BoundsInv, ReturnInv
  <2>4. StopInv'
    BY <1>4 DEF ReceiveDatagram, StopInv, TypeOK
  <2> QED
    BY <2>2, <2>3, <2>4
<1>5. CASE ReceiveNothing
  <2>1. pc' = "loop" /\ buffers' = 0 /\ retval' = "Good"
    BY <1>5 DEF ReceiveNothing, BufferInv, ResetLength, Releases, BufferSize, StatusAfterReceive
  <2> QED
    BY <1>5, <2>1 DEF ReceiveNothing, TypeOK, BufferInv, MessageInv, DatagramInv, BoundsInv,
                      StopInv, ReturnInv
<1> QED
  BY <1>1, <1>2, <1>3, <1>4, <1>5

\* From the decoder to the end of listen().
LEMMA ShowingStep ==
    ASSUME IInv,
           \/ Decode \/ Check \/ MessageLoop \/ EnterMessage
           \/ ShowField \/ ReadNothing \/ LeaveMessage \/ Cleanup
    PROVE  IInv'
<1> USE DEF IInv, socket, loops, history, At, Outside, InRun, Listening, Working
<1>1. CASE Decode
  <2>0. datagram \in Seq(Datagrams) /\ Len(datagram) = 1
    BY <1>1 DEF Decode, TypeOK, DatagramInv
  <2>1. datagram[1] \in Datagrams
    BY <2>0
  <2>2. message' \in NetworkRecords /\ message'.count <= Len(message'.dsms)
    BY <1>1, <2>1, DecodedMessage DEF Decode
  <2>3. buffers' = 0
    BY <1>1 DEF Decode, BufferInv, Releases, BufferSize
  <2>4. TypeOK'
    BY <1>1, <2>2, <2>3 DEF Decode, TypeOK
  <2>5. BoundsInv'
    BY <1>1, <2>2 DEF Decode, BoundsInv
  <2> QED
    BY <1>1, <2>3, <2>4, <2>5 DEF Decode, BufferInv, MessageInv, DatagramInv, StopInv, ReturnInv
<1>2. CASE Check
  BY <1>2 DEF Check, TypeOK, BufferInv, MessageInv, DatagramInv, BoundsInv, StopInv, ReturnInv
<1>3. CASE MessageLoop
  BY <1>3 DEF MessageLoop, MoreMessages, TypeOK, BufferInv, MessageInv, DatagramInv, BoundsInv,
              StopInv, ReturnInv
<1>4. CASE EnterMessage
  <2>1. TypeOK'
    BY <1>4 DEF EnterMessage, NextMessage, TypeOK
  <2> QED
    BY <1>4, <2>1 DEF EnterMessage, BufferInv, MessageInv, DatagramInv, BoundsInv, StopInv,
                      ReturnInv
<1>5. CASE ShowField
  <2>1. message.dsms[dsmIndex + 1] \in MessageRecords
    BY <1>5 DEF ShowField, TypeOK, BoundsInv, NetworkRecords
  <2>2. ThisMessage \in MessageRecords
    BY <2>1 DEF ThisMessage
  <2>3. WellKnown(ThisField) => ThisField.data[1] \in Nat
    BY <1>5, <2>2, ReadableField DEF ShowField, ThisField
  <2>4. screen' \in Seq(Nat) /\ Len(screen) <= Len(screen')
    BY <1>5, <2>3 DEF ShowField, TypeOK
  <2>5. TypeOK'
    BY <1>5, <2>4 DEF ShowField, TypeOK
  <2> QED
    BY <1>5, <2>5 DEF ShowField, BufferInv, MessageInv, DatagramInv, BoundsInv, StopInv, ReturnInv
<1>6. CASE ReadNothing
  BY <1>6 DEF ReadNothing, TypeOK, BufferInv, MessageInv, DatagramInv, BoundsInv, StopInv,
              ReturnInv
<1>7. CASE LeaveMessage
  <2>1. TypeOK'
    BY <1>7 DEF LeaveMessage, TypeOK
  <2> QED
    BY <1>7, <2>1 DEF LeaveMessage, BufferInv, MessageInv, DatagramInv, BoundsInv, StopInv,
                      ReturnInv
<1>8. CASE Cleanup
  BY <1>8, ZeroIsARecord DEF Cleanup, ZeroMessage, TypeOK, BufferInv, MessageInv, DatagramInv,
                             BoundsInv, StopInv, ReturnInv
<1> QED
  BY <1>1, <1>2, <1>3, <1>4, <1>5, <1>6, <1>7, <1>8

\* Every step of the program and its environment keeps the invariant.
LEMMA Inductive == IInv /\ [Next]_vars => IInv'
<1> SUFFICES ASSUME IInv, [Next]_vars PROVE IInv'
  OBVIOUS
<1>1. CASE Next
  BY <1>1, EnvironmentStep, CallerStep, ReceivingStep, ShowingStep DEF Next, Step
<1>2. CASE UNCHANGED vars
  BY <1>2 DEF vars, IInv, TypeOK, BufferInv, MessageInv, DatagramInv, BoundsInv, StopInv, ReturnInv
<1> QED
  BY <1>1, <1>2

\* The invariant holds in every reachable state of the subscriber.
THEOREM Invariance == Spec => []IInv
BY InitIInv, Inductive, PTL DEF Spec

---------------------------------------------------------------------------
(* The properties. *)

\* Type correctness: in particular there is never more than one receive buffer,
\* whatever path the calls of listen() took.
THEOREM TypeCorrect == Spec => []TypeOK
<1>1. IInv => TypeOK
  BY DEF IInv
<1> QED
  BY <1>1, Invariance, PTL

\* listen() gives back its buffer and its message on every path.
THEOREM NothingKept == Spec => []NoLeak
<1>1. IInv => NoLeak
  BY DEF IInv, BufferInv, MessageInv, NoLeak, Outside, Working
<1> QED
  BY <1>1, Invariance, PTL

\* At most one datagram is received after the stop handler has run.
THEOREM StopIsPrompt == Spec => []OneAfterStop
<1>1. IInv => OneAfterStop
  BY DEF IInv, StopInv, OneAfterStop
<1> QED
  BY <1>1, Invariance, PTL

\* run() returns only after a stop or a failed allocation.
THEOREM ReturnIsExplained == Spec => []ReturnsForAReason
<1>1. IInv => ReturnsForAReason
  BY DEF IInv, ReturnInv, ReturnsForAReason
<1> QED
  BY <1>1, Invariance, PTL

---------------------------------------------------------------------------
(* Subscriber implements DataSetViewer.  IInv says what is allocated and
   where the loops are; ShownInv adds what is on the screen: in front the
   lines of the datagrams done with, behind them those of the messages and
   fields the loops have passed. *)

\* The lines of the first n messages, and of the first n fields of one.
UpToMessage(m, n) == FlattenSeq([k \in 1..n |-> MessageLines(m.dsms[k])])
UpToField(d, n)   == FlattenSeq([k \in 1..n |-> LinesAt(d, k)])

InLoops == {"messages", "message", "fields"}

\* What the datagram in hand has put on the screen so far.
Progress ==
    CASE pc = "fields" -> UpToMessage(message, dsmIndex)
                          \o UpToField(message.dsms[dsmIndex + 1], fieldIndex)
      [] pc \in {"messages", "message"} -> UpToMessage(message, dsmIndex)
      [] pc = "cleanup" -> LinesOf(message)
      [] OTHER -> <<>>

\* networkMessage is what the decoder made of the datagram in hand.
DecodedInv == pc \in Working => message = Decoded[datagram[1]]

\* The loops run over a DataSet message, up to its ends, and only a key frame
\* has its fields shown.
LoopInv ==
    /\ pc \in InLoops => message.nmType = NETWORKMESSAGE_DATASET /\ dsmIndex <= message.count
    /\ pc = "fields" => /\ fieldIndex <= message.dsms[dsmIndex + 1].count
                        /\ message.dsms[dsmIndex + 1].type = DATASETMESSAGE_DATAKEYFRAME

ScreenInv == screen = SubSeq(screen, 1, before) \o Progress

ShownInv == DecodedInv /\ LoopInv /\ ScreenInv

---------------------------------------------------------------------------
(* Lines. *)

\* One sequence of lines more.
LEMMA FlattenStep ==
    ASSUME NEW F, NEW n \in Nat, \A k \in 1..(n + 1) : F[k] \in Seq(Nat)
    PROVE  FlattenSeq([k \in 1..(n + 1) |-> F[k]]) = FlattenSeq([k \in 1..n |-> F[k]]) \o F[n + 1]
<1> DEFINE s == [k \in 1..n |-> F[k]]
<1>1. s \in Seq(Seq(Nat)) /\ F[n + 1] \in Seq(Nat)
  OBVIOUS
<1>2. [k \in 1..(n + 1) |-> F[k]] = Append(s, F[n + 1])
  OBVIOUS
<1> QED
  BY <1>1, <1>2, FlattenAppend

\* The lines of a field are a sequence of lines, those of a missing one too.
LEMMA LinesAtType ==
    ASSUME NEW d \in MessageRecords, NEW i \in Nat
    PROVE  LinesAt(d, i) \in Seq(Nat)
<1>1. ASSUME NEW f \in FieldRecords PROVE FieldLines(f) \in Seq(Nat)
  BY DEF FieldRecords, FieldLines
<1>2. i \in DOMAIN d.fields => d.fields[i] \in FieldRecords
  BY DEF MessageRecords
<1> QED
  BY <1>1, <1>2 DEF LinesAt

\* The lines of the fields of one message, field by field.
LEMMA UpToFieldMore ==
    ASSUME NEW d \in MessageRecords, NEW n \in Nat
    PROVE  /\ UpToField(d, 0) = <<>>
           /\ n <= d.count => UpToField(d, n) \in Seq(Nat)
           /\ n < d.count => UpToField(d, n + 1) = UpToField(d, n) \o LinesAt(d, n + 1)
<1>0. d.count \in Nat
  BY DEF MessageRecords
<1> DEFINE F == [k \in 1..d.count |-> LinesAt(d, k)]
<1>1. \A k \in 1..d.count : F[k] \in Seq(Nat) /\ F[k] = LinesAt(d, k)
  BY <1>0, LinesAtType
<1>2. UpToField(d, 0) = <<>>
  <2>1. [k \in 1..0 |-> LinesAt(d, k)] = <<>>
    OBVIOUS
  <2> QED
    BY <2>1, FlattenEmpty DEF UpToField
<1>3. \A m \in Nat : m <= d.count => UpToField(d, m) = FlattenSeq([k \in 1..m |-> F[k]])
  <2> SUFFICES ASSUME NEW m \in Nat, m <= d.count
               PROVE  UpToField(d, m) = FlattenSeq([k \in 1..m |-> F[k]])
    OBVIOUS
  <2>1. [k \in 1..m |-> LinesAt(d, k)] = [k \in 1..m |-> F[k]]
    BY <1>0
  <2> QED
    BY <2>1 DEF UpToField
<1>4. ASSUME n <= d.count
      PROVE  UpToField(d, n) \in Seq(Nat)
  <2>1. \A k \in 1..n : F[k] \in Seq(Nat)
    <3> SUFFICES ASSUME NEW k \in 1..n PROVE F[k] \in Seq(Nat)
      OBVIOUS
    <3>1. k \in 1..d.count
      BY <1>0, <1>4
    <3> HIDE DEF F
    <3> QED
      BY <1>1, <3>1
  <2>2. [k \in 1..n |-> F[k]] \in Seq(Seq(Nat))
    <3> HIDE DEF F
    <3> QED
      BY <2>1
  <2> HIDE DEF F
  <2> QED
    BY <1>3, <1>4, <2>2, FlattenType
<1>5. ASSUME n < d.count
      PROVE  UpToField(d, n + 1) = UpToField(d, n) \o LinesAt(d, n + 1)
  <2>1. n + 1 \in Nat /\ n + 1 <= d.count /\ n <= d.count /\ n + 1 \in 1..d.count
    BY <1>0, <1>5
  <2>2. \A k \in 1..(n + 1) : F[k] \in Seq(Nat)
    <3> SUFFICES ASSUME NEW k \in 1..(n + 1) PROVE F[k] \in Seq(Nat)
      OBVIOUS
    <3>1. k \in 1..d.count
      BY <1>0, <2>1
    <3> HIDE DEF F
    <3> QED
      BY <1>1, <3>1
  <2>3. F[n + 1] = LinesAt(d, n + 1)
    BY <2>1
  <2> HIDE DEF F
  <2>4. FlattenSeq([k \in 1..(n + 1) |-> F[k]]) = FlattenSeq([k \in 1..n |-> F[k]]) \o F[n + 1]
    BY <2>2, FlattenStep
  <2> QED
    BY <1>3, <2>1, <2>3, <2>4
<1> QED
  BY <1>2, <1>4, <1>5

\* What a message has to show is what all its fields have to show, or nothing.
LEMMA MessageLinesAre ==
    ASSUME NEW d \in MessageRecords
    PROVE  /\ MessageLines(d) \in Seq(Nat)
           /\ d.type # DATASETMESSAGE_DATAKEYFRAME => MessageLines(d) = <<>>
           /\ d.type = DATASETMESSAGE_DATAKEYFRAME => MessageLines(d) = UpToField(d, d.count)
<1>1. d.count \in Nat /\ d.count <= d.count
  BY DEF MessageRecords
<1>2. UpToField(d, d.count) \in Seq(Nat)
  BY <1>1, UpToFieldMore
<1> QED
  BY <1>2 DEF MessageLines, UpToField

\* The lines of the messages, message by message.
LEMMA MessageStep ==
    ASSUME NEW m \in NetworkRecords, m.count <= Len(m.dsms), NEW n \in Nat
    PROVE  /\ UpToMessage(m, 0) = <<>>
           /\ n <= m.count => UpToMessage(m, n) \in Seq(Nat)
           /\ n < m.count => UpToMessage(m, n + 1) = UpToMessage(m, n) \o MessageLines(m.dsms[n + 1])
<1>0. m.dsms \in Seq(MessageRecords) /\ m.count \in Nat
  BY DEF NetworkRecords
<1> DEFINE F == [k \in 1..m.count |-> MessageLines(m.dsms[k])]
<1>1. \A k \in 1..m.count : F[k] \in Seq(Nat) /\ F[k] = MessageLines(m.dsms[k])
  BY <1>0, MessageLinesAre
<1>2. UpToMessage(m, 0) = <<>>
  <2>1. [k \in 1..0 |-> MessageLines(m.dsms[k])] = <<>>
    OBVIOUS
  <2> QED
    BY <2>1, FlattenEmpty DEF UpToMessage
<1>3. \A l \in Nat : l <= m.count => UpToMessage(m, l) = FlattenSeq([k \in 1..l |-> F[k]])
  <2> SUFFICES ASSUME NEW l \in Nat, l <= m.count
               PROVE  UpToMessage(m, l) = FlattenSeq([k \in 1..l |-> F[k]])
    OBVIOUS
  <2>1. [k \in 1..l |-> MessageLines(m.dsms[k])] = [k \in 1..l |-> F[k]]
    BY <1>0
  <2> QED
    BY <2>1 DEF UpToMessage
<1>4. ASSUME n <= m.count
      PROVE  UpToMessage(m, n) \in Seq(Nat)
  <2>1. \A k \in 1..n : F[k] \in Seq(Nat)
    <3> SUFFICES ASSUME NEW k \in 1..n PROVE F[k] \in Seq(Nat)
      OBVIOUS
    <3>1. k \in 1..m.count
      BY <1>0, <1>4
    <3> HIDE DEF F
    <3> QED
      BY <1>1, <3>1
  <2>2. [k \in 1..n |-> F[k]] \in Seq(Seq(Nat))
    <3> HIDE DEF F
    <3> QED
      BY <2>1
  <2> HIDE DEF F
  <2> QED
    BY <1>3, <1>4, <2>2, FlattenType
<1>5. ASSUME n < m.count
      PROVE  UpToMessage(m, n + 1) = UpToMessage(m, n) \o MessageLines(m.dsms[n + 1])
  <2>1. n + 1 \in Nat /\ n + 1 <= m.count /\ n <= m.count /\ n + 1 \in 1..m.count
    BY <1>0, <1>5
  <2>2. \A k \in 1..(n + 1) : F[k] \in Seq(Nat)
    <3> SUFFICES ASSUME NEW k \in 1..(n + 1) PROVE F[k] \in Seq(Nat)
      OBVIOUS
    <3>1. k \in 1..m.count
      BY <1>0, <2>1
    <3> HIDE DEF F
    <3> QED
      BY <1>1, <3>1
  <2>3. F[n + 1] = MessageLines(m.dsms[n + 1])
    BY <2>1
  <2> HIDE DEF F
  <2>4. FlattenSeq([k \in 1..(n + 1) |-> F[k]]) = FlattenSeq([k \in 1..n |-> F[k]]) \o F[n + 1]
    BY <2>2, FlattenStep
  <2> QED
    BY <1>3, <2>1, <2>3, <2>4
<1> QED
  BY <1>2, <1>4, <1>5

\* What a NetworkMessage has to show.
LEMMA LinesOfAre ==
    ASSUME NEW m \in NetworkRecords, m.count <= Len(m.dsms)
    PROVE  /\ LinesOf(m) \in Seq(Nat)
           /\ m.nmType # NETWORKMESSAGE_DATASET => LinesOf(m) = <<>>
           /\ m.nmType = NETWORKMESSAGE_DATASET => LinesOf(m) = UpToMessage(m, m.count)
<1>1. m.count \in Nat /\ m.count <= m.count
  BY DEF NetworkRecords
<1>2. UpToMessage(m, m.count) \in Seq(Nat)
  BY <1>1, MessageStep
<1> QED
  BY <1>2 DEF LinesOf, UpToMessage

\* Lines put on the screen come behind the lines that are there.
LEMMA Associative ==
    ASSUME NEW p \in Seq(Nat), NEW q \in Seq(Nat), NEW r \in Seq(Nat)
    PROVE  (p \o q) \o r = p \o (q \o r)
<1> DEFINE X == Nat
<1>1. p \in Seq(X) /\ q \in Seq(X) /\ r \in Seq(X)
  OBVIOUS
<1> HIDE DEF X
<1> QED
  BY SMTT(40), <1>1, ConcatAssociative

\* Printing only adds to the screen.
LEMMA ScreenGrows ==
    ASSUME NEW s \in Seq(Nat), NEW e \in Seq(Nat), NEW p \in Seq(Nat), NEW n \in 0..Len(s),
           s = SubSeq(s, 1, n) \o p
    PROVE  s \o e = SubSeq(s \o e, 1, n) \o (p \o e)
<1> DEFINE q == SubSeq(s, 1, n)
<1>1. SubSeq(s \o e, 1, n) = q
  OBVIOUS
<1>2. q \in Seq(Nat)
  OBVIOUS
<1>3. (q \o p) \o e = q \o (p \o e)
  <2> HIDE DEF q
  <2> QED
    BY <1>2, Associative
<1> QED
  BY <1>1, <1>3

---------------------------------------------------------------------------
(* Every step preserves what is known of the screen. *)

\* Nothing is shown before run() is entered.
LEMMA InitShown == Init => ShownInv
<1> SUFFICES ASSUME Init PROVE ShownInv
  OBVIOUS
<1>1. DecodedInv /\ LoopInv
  BY DEF Init, DecodedInv, LoopInv, Working, InLoops
<1>2. Progress = <<>>
  BY DEF Init, Progress
<1>3. screen = SubSeq(screen, 1, before) \o <<>>
  BY DEF Init
<1> QED
  BY <1>1, <1>2, <1>3 DEF ShownInv, ScreenInv

\* Outside the loops everything of a finished datagram counts as shown.
LEMMA NothingPending ==
    ASSUME TypeOK, screen = SubSeq(screen, 1, before)
    PROVE  screen = SubSeq(screen, 1, before) \o <<>>
BY DEF TypeOK

\* Steps that touch neither the message nor the screen nor the loops.
LEMMA QuietStep ==
    ASSUME IInv, ShownInv,
           UNCHANGED <<message, dsmIndex, fieldIndex, screen, before>>,
           \/ UNCHANGED <<pc, datagram>>
           \/ pc \notin Working /\ pc' \notin Working
    PROVE  ShownInv'
<1> USE DEF ShownInv
<1>1. CASE UNCHANGED <<pc, datagram>>
  BY <1>1 DEF DecodedInv, LoopInv, ScreenInv, Progress, InLoops
<1>2. CASE pc \notin Working /\ pc' \notin Working
  <2>1. Progress = <<>> /\ Progress' = <<>>
    BY <1>2 DEF Progress, Working
  <2> QED
    BY <1>2, <2>1 DEF DecodedInv, LoopInv, ScreenInv, InLoops, Working
<1> QED
  BY <1>1, <1>2

\* The messages in hand are those of a NetworkMessage.
LEMMA MessageTyped ==
    ASSUME IInv
    PROVE  /\ message \in NetworkRecords /\ message.count <= Len(message.dsms)
           /\ message.count \in Nat /\ dsmIndex \in Nat /\ fieldIndex \in Nat
           /\ dsmIndex < message.count => message.dsms[dsmIndex + 1] \in MessageRecords
BY DEF IInv, TypeOK, BoundsInv, NetworkRecords

\* The steps of the two loops of listen() keep the prefix shown in step with the indices.
LEMMA LoopsStep ==
    ASSUME IInv, ShownInv, Check \/ MessageLoop \/ EnterMessage \/ LeaveMessage
    PROVE  ShownInv'
<1> USE DEF ShownInv, loops, history, At
<1> DEFINE this == message.dsms[dsmIndex + 1]
<1>0. /\ message \in NetworkRecords /\ message.count <= Len(message.dsms)
      /\ message.count \in Nat /\ dsmIndex \in Nat /\ fieldIndex \in Nat
  BY MessageTyped
<1>1. CASE Check
  <2>1. DecodedInv' /\ LoopInv'
    BY <1>0, <1>1 DEF Check, DecodedInv, LoopInv, Working, InLoops
  <2>2. Progress = <<>>
    BY <1>1 DEF Check, Progress
  <2>3. CASE pc' = "messages"
    <3>1. Progress' = UpToMessage(message, 0)
      BY <1>1, <2>3 DEF Check, Progress
    <3> QED
      BY <1>0, <1>1, <2>1, <2>2, <3>1, MessageStep DEF Check, ScreenInv
  <2>4. CASE pc' = "cleanup"
    <3>1. Progress' = LinesOf(message)
      BY <1>1, <2>4 DEF Check, Progress
    <3>2. message.nmType # NETWORKMESSAGE_DATASET \/ message.count = 0
      BY <1>0, <1>1, <2>4 DEF Check
    <3>3. LinesOf(message) = <<>>
      BY <1>0, <3>2, LinesOfAre, MessageStep
    <3> QED
      BY <1>1, <2>1, <2>2, <3>1, <3>3 DEF Check, ScreenInv
  <2> QED
    BY <1>1, <2>3, <2>4 DEF Check
<1>2. CASE MessageLoop
  <2>1. DecodedInv' /\ LoopInv'
    BY <1>0, <1>2 DEF MessageLoop, MoreMessages, DecodedInv, LoopInv, Working, InLoops
  <2>2. Progress = UpToMessage(message, dsmIndex)
    BY <1>2 DEF MessageLoop, Progress
  <2>3. Progress' = UpToMessage(message, dsmIndex)
    <3>1. CASE MoreMessages
      BY <1>2, <3>1 DEF MessageLoop, Progress
    <3>2. CASE ~MoreMessages
      <4>1. dsmIndex = message.count /\ message.nmType = NETWORKMESSAGE_DATASET
        BY <1>0, <1>2, <3>2 DEF MessageLoop, MoreMessages, LoopInv, InLoops
      <4>2. Progress' = LinesOf(message)
        BY <1>2, <3>2 DEF MessageLoop, Progress
      <4> QED
        BY <1>0, <4>1, <4>2, LinesOfAre
    <3> QED
      BY <3>1, <3>2
  <2> QED
    BY <1>2, <2>1, <2>2, <2>3 DEF MessageLoop, ScreenInv
<1>3. CASE EnterMessage
  <2>1. dsmIndex < message.count /\ this \in MessageRecords
    BY <1>3, MessageTyped DEF EnterMessage, IInv, BoundsInv
  <2>2. Progress = UpToMessage(message, dsmIndex) /\ Progress \in Seq(Nat)
    BY <1>0, <1>3, <2>1, MessageStep DEF EnterMessage, Progress
  <2>3. CASE this.type = DATASETMESSAGE_DATAKEYFRAME
    <3>1. pc' = "fields" /\ fieldIndex' = 0 /\ dsmIndex' = dsmIndex /\ message' = message
      BY <1>3, <2>3 DEF EnterMessage
    <3>2. this.count \in Nat
      BY <2>1 DEF MessageRecords
    <3>3. DecodedInv' /\ LoopInv'
      BY <1>0, <1>3, <2>3, <3>1, <3>2
      DEF EnterMessage, DecodedInv, LoopInv, Working, InLoops
    <3>4. Progress' = UpToMessage(message, dsmIndex) \o UpToField(this, 0)
      BY <3>1 DEF Progress
    <3>5. UpToField(this, 0) = <<>>
      BY <2>1, UpToFieldMore
    <3>6. Progress' = Progress
      BY <2>2, <3>4, <3>5
    <3> QED
      BY <1>3, <3>3, <3>6 DEF EnterMessage, ScreenInv
  <2>4. CASE this.type # DATASETMESSAGE_DATAKEYFRAME
    <3>1. pc' = "messages" /\ dsmIndex' = dsmIndex + 1 /\ message' = message
      BY <1>3, <2>4 DEF EnterMessage, NextMessage
    <3>2. DecodedInv' /\ LoopInv'
      BY <1>0, <1>3, <2>1, <3>1 DEF EnterMessage, DecodedInv, LoopInv, Working, InLoops
    <3>3. Progress' = UpToMessage(message, dsmIndex + 1)
      BY <3>1 DEF Progress
    <3>4. UpToMessage(message, dsmIndex + 1) = UpToMessage(message, dsmIndex) \o MessageLines(this)
      BY <1>0, <2>1, MessageStep
    <3>5. MessageLines(this) = <<>>
      BY <2>1, <2>4, MessageLinesAre
    <3>6. Progress' = Progress
      BY <2>2, <3>3, <3>4, <3>5
    <3> QED
      BY <1>3, <3>2, <3>6 DEF EnterMessage, ScreenInv
  <2> QED
    BY <2>3, <2>4
<1>4. CASE LeaveMessage
  <2>1. dsmIndex < message.count /\ this \in MessageRecords
    BY <1>4, MessageTyped DEF LeaveMessage, IInv, BoundsInv
  <2>2. this.type = DATASETMESSAGE_DATAKEYFRAME /\ fieldIndex = this.count
    BY <1>0, <1>4, <2>1 DEF LeaveMessage, MoreFields, ThisMessage, LoopInv, MessageRecords
  <2>3. pc' = "messages" /\ dsmIndex' = dsmIndex + 1 /\ message' = message
    BY <1>4 DEF LeaveMessage
  <2>4. DecodedInv' /\ LoopInv'
    BY <1>0, <1>4, <2>1, <2>3 DEF LeaveMessage, DecodedInv, LoopInv, Working, InLoops
  <2>5. Progress = UpToMessage(message, dsmIndex) \o UpToField(this, fieldIndex)
    BY <1>4 DEF LeaveMessage, Progress
  <2>6. Progress' = UpToMessage(message, dsmIndex + 1)
    BY <2>3 DEF Progress
  <2>7. UpToMessage(message, dsmIndex + 1) = UpToMessage(message, dsmIndex) \o MessageLines(this)
    BY <1>0, <2>1, MessageStep
  <2>8. MessageLines(this) = UpToField(this, fieldIndex)
    BY <2>1, <2>2, MessageLinesAre
  <2>9. Progress' = Progress
    BY <2>5, <2>6, <2>7, <2>8
  <2> QED
    BY <1>4, <2>4, <2>9 DEF LeaveMessage, ScreenInv
<1> QED
  BY <1>1, <1>2, <1>3, <1>4

\* A field puts its lines on the screen, a field of no well-known type has none.
LEMMA FieldShown ==
    ASSUME IInv, ShownInv, ShowField
    PROVE  ShownInv'
<1> USE DEF ShownInv, At
<1> DEFINE this == message.dsms[dsmIndex + 1]
<1>0. /\ message \in NetworkRecords /\ message.count <= Len(message.dsms)
      /\ dsmIndex \in Nat /\ fieldIndex \in Nat /\ dsmIndex < message.count
      /\ this \in MessageRecords
  BY MessageTyped DEF ShowField, IInv, BoundsInv
<1>1. /\ pc = "fields" /\ pc' = "fields" /\ message' = message /\ dsmIndex' = dsmIndex
      /\ fieldIndex' = fieldIndex + 1 /\ before' = before /\ datagram' = datagram
  BY DEF ShowField
<1>2. fieldIndex < this.count /\ this.count \in Nat
  BY <1>0 DEF ShowField, MoreFields, ThisMessage, MessageRecords
<1>3. DecodedInv' /\ LoopInv'
  BY <1>0, <1>1, <1>2 DEF DecodedInv, LoopInv, Working, InLoops
<1>4. Progress = UpToMessage(message, dsmIndex) \o UpToField(this, fieldIndex)
  BY <1>1 DEF Progress
<1>5. Progress' = UpToMessage(message, dsmIndex) \o UpToField(this, fieldIndex + 1)
  BY <1>1 DEF Progress
<1>6. /\ UpToMessage(message, dsmIndex) \in Seq(Nat)
      /\ UpToField(this, fieldIndex) \in Seq(Nat)
      /\ UpToField(this, fieldIndex + 1) = UpToField(this, fieldIndex) \o FieldLines(ThisField)
  <2>1. dsmIndex <= message.count /\ fieldIndex <= this.count
    BY <1>0, <1>2 DEF NetworkRecords
  <2>3. LinesAt(this, fieldIndex + 1) = FieldLines(ThisField)
    BY DEF ShowField, Readable, ThisField, ThisMessage, LinesAt
  <2>2. UpToMessage(message, dsmIndex) \in Seq(Nat)
    BY <1>0, <2>1, MessageStep
  <2> HIDE DEF this
  <2> QED
    BY <1>0, <1>2, <2>1, <2>2, <2>3, UpToFieldMore
<1>7. FieldLines(ThisField) \in Seq(Nat)
  <2>1. LinesAt(this, fieldIndex + 1) = FieldLines(ThisField)
    BY DEF ShowField, Readable, ThisField, ThisMessage, LinesAt
  <2> HIDE DEF this
  <2> QED
    BY <1>0, <2>1, LinesAtType
<1>8. Progress' = Progress \o FieldLines(ThisField) /\ Progress \in Seq(Nat)
  <2> DEFINE p == UpToMessage(message, dsmIndex)
             q == UpToField(this, fieldIndex)
             r == FieldLines(ThisField)
  <2>1. Progress = p \o q /\ Progress' = p \o (q \o r)
    BY <1>4, <1>5, <1>6
  <2>2. p \in Seq(Nat) /\ q \in Seq(Nat) /\ r \in Seq(Nat)
    BY <1>6, <1>7
  <2> HIDE DEF p, q, r
  <2>3. (p \o q) \o r = p \o (q \o r)
    BY <2>2, Associative
  <2>4. p \o q \in Seq(Nat)
    BY <2>2
  <2> QED
    BY <2>1, <2>3, <2>4 DEF r
<1>9. screen \in Seq(Nat) /\ before \in 0..Len(screen)
  BY DEF IInv, TypeOK
<1>10. screen' = screen \o FieldLines(ThisField)
  BY <1>9 DEF ShowField, Readable, ThisField, ThisMessage, FieldLines
<1>11. screen' = SubSeq(screen', 1, before) \o Progress'
  <2>1. screen = SubSeq(screen, 1, before) \o Progress
    BY DEF ScreenInv
  <2>2. screen \o FieldLines(ThisField)
          = SubSeq(screen \o FieldLines(ThisField), 1, before) \o (Progress \o FieldLines(ThisField))
    <3> DEFINE p == Progress
               r == FieldLines(ThisField)
    <3> HIDE DEF p, r
    <3>1. screen \in Seq(Nat) /\ before \in 0..Len(screen) /\ p \in Seq(Nat) /\ r \in Seq(Nat)
      BY <1>7, <1>8, <1>9 DEF p, r
    <3>2. screen = SubSeq(screen, 1, before) \o p
      BY <2>1 DEF p
    <3>3. screen \o r = SubSeq(screen \o r, 1, before) \o (p \o r)
      BY ZenonT(40), <3>1, <3>2, ScreenGrows
    <3> QED
      BY <3>3 DEF p, r
  <2> QED
    BY <1>8, <1>10, <2>2
<1> QED
  BY <1>1, <1>3, <1>11 DEF ScreenInv

\* The decoder's message, and the end of listen() at which all of it is shown.
LEMMA EndsStep ==
    ASSUME IInv, ShownInv, Decode \/ Cleanup
    PROVE  ShownInv'
<1> USE DEF ShownInv, loops, history, At
<1>1. CASE Decode
  <2>1. DecodedInv' /\ LoopInv'
    BY <1>1 DEF Decode, DecodedInv, LoopInv, Working, InLoops
  <2>2. Progress = <<>> /\ Progress' = <<>>
    BY <1>1 DEF Decode, Progress
  <2> QED
    BY <1>1, <2>1, <2>2 DEF Decode, ScreenInv
<1>2. CASE Cleanup
  <2>1. DecodedInv' /\ LoopInv'
    BY <1>2 DEF Cleanup, DecodedInv, LoopInv, Working, InLoops
  <2>2. Progress' = <<>> /\ screen' = screen /\ before' = Len(screen)
    BY <1>2 DEF Cleanup, Progress
  <2>3. screen = SubSeq(screen, 1, Len(screen)) \o <<>>
    BY DEF IInv, TypeOK
  <2> QED
    BY <2>1, <2>2, <2>3 DEF ScreenInv
<1> QED
  BY <1>1, <1>2

\* Every step of the program and its environment.
LEMMA ShownInductive == IInv /\ ShownInv /\ [Next]_vars => ShownInv'
<1> SUFFICES ASSUME IInv, ShownInv, [Next]_vars PROVE ShownInv'
  OBVIOUS
<1> USE DEF loops, history, At, Outside, Working
<1>1. CASE \E d \in Datagrams : Arrive(d)
  BY <1>1, QuietStep DEF Arrive
<1>2. CASE StopHandler \/ Terminate \/ InstallHandler \/ ReadNothing
  BY <1>2, QuietStep DEF StopHandler, Terminate, InstallHandler, ReadNothing
<1>3. CASE Run \/ Destroy
  BY <1>3, QuietStep DEF Run, Destroy
<1>4. CASE LoopTest \/ Allocate \/ AllocationFails
  BY <1>4, QuietStep DEF LoopTest, Allocate, AllocationFails
<1>5. CASE ReceiveDatagram \/ ReceiveNothing
  BY <1>5, QuietStep DEF ReceiveDatagram, ReceiveNothing
<1>6. CASE Decode \/ Cleanup
  BY <1>6, EndsStep
<1>7. CASE Check \/ MessageLoop \/ EnterMessage \/ LeaveMessage
  BY <1>7, LoopsStep
<1>8. CASE ShowField
  BY <1>8, FieldShown
<1>9. CASE UNCHANGED vars
  BY <1>9, QuietStep DEF vars
<1> QED
  BY <1>1, <1>2, <1>3, <1>4, <1>5, <1>6, <1>7, <1>8, <1>9 DEF Next, Step

\* What is on the screen is known in every reachable state.
THEOREM ShownInvariance == Spec => []ShownInv
BY InitShown, ShownInductive, Invariance, PTL DEF Spec

---------------------------------------------------------------------------
(* Which datagrams end the program. *)

\* All fields a message announces can be read, if it is one whose fields are.
AllReadable(d) ==
    d.type = DATASETMESSAGE_DATAKEYFRAME => \A i \in 1..d.count : Readable(d, i)

\* What the loops have passed could be read.
ReadInv ==
    /\ pc \in InLoops => \A k \in 1..dsmIndex : AllReadable(message.dsms[k])
    /\ pc = "fields" => \A i \in 1..fieldIndex : Readable(ThisMessage, i)
    /\ CrashIffUnreadable

\* HasUnreadable in terms of the messages.
LEMMA UnreadableIs ==
    HasUnreadable(message) <=>
        /\ message.nmType = NETWORKMESSAGE_DATASET
        /\ \E k \in 1..message.count : ~AllReadable(message.dsms[k])
BY DEF HasUnreadable, AllReadable

\* The steps of the loops extend what has been read by what they pass.
LEMMA LoopsRead ==
    ASSUME IInv, ShownInv, ReadInv,
           \/ Check \/ MessageLoop \/ EnterMessage \/ LeaveMessage \/ ShowField \/ ReadNothing
    PROVE  ReadInv'
<1> USE DEF loops, history, At, InLoops
<1>0. /\ dsmIndex \in Nat /\ fieldIndex \in Nat /\ message.count \in Nat
      /\ LoopInv
  BY MessageTyped DEF ShownInv
<1>1. CASE Check
  <2>1. message' = message /\ dsmIndex' = 0 /\ alive' = "yes" /\ pc' \in {"messages", "cleanup"}
    BY <1>1 DEF Check
  <2>2. pc' = "cleanup" => ~HasUnreadable(message)
    BY <1>0, <1>1 DEF Check, HasUnreadable
  <2> QED
    BY <2>1, <2>2 DEF ReadInv, CrashIffUnreadable, HasUnreadable
<1>2. CASE MessageLoop
  <2>1. /\ UNCHANGED <<message, dsmIndex>> /\ alive' = "yes" /\ pc' \in {"message", "cleanup"}
        /\ \A k \in 1..dsmIndex : AllReadable(message.dsms[k])
    BY <1>2 DEF MessageLoop, ReadInv
  <2>2. pc' = "cleanup" => ~HasUnreadable(message)
    BY <1>0, <1>2, <2>1, UnreadableIs DEF MessageLoop, MoreMessages, LoopInv
  <2> QED
    BY <2>1, <2>2 DEF ReadInv, CrashIffUnreadable, HasUnreadable, AllReadable
<1>3. CASE EnterMessage
  <2>1. /\ message' = message /\ alive' = "yes"
        /\ \A k \in 1..dsmIndex : AllReadable(message.dsms[k])
    BY <1>3 DEF EnterMessage, ReadInv
  <2>2. CASE pc' = "fields" /\ fieldIndex' = 0 /\ dsmIndex' = dsmIndex
    BY <2>1, <2>2 DEF ReadInv, CrashIffUnreadable, AllReadable
  <2>3. CASE /\ message.dsms[dsmIndex + 1].type # DATASETMESSAGE_DATAKEYFRAME
             /\ pc' = "messages" /\ dsmIndex' = dsmIndex + 1
    BY <1>0, <2>1, <2>3 DEF ReadInv, CrashIffUnreadable, AllReadable
  <2> QED
    BY <1>3, <2>2, <2>3 DEF EnterMessage, NextMessage
<1>4. CASE LeaveMessage
  <2>1. /\ message' = message /\ alive' = "yes" /\ pc' = "messages" /\ dsmIndex' = dsmIndex + 1
        /\ \A k \in 1..dsmIndex : AllReadable(message.dsms[k])
        /\ \A i \in 1..fieldIndex : Readable(ThisMessage, i)
        /\ ~(fieldIndex < ThisMessage.count) /\ fieldIndex <= ThisMessage.count
    BY <1>0, <1>4 DEF LeaveMessage, ReadInv, MoreFields, LoopInv, ThisMessage
  <2>2. message.dsms[dsmIndex + 1] \in MessageRecords
    BY <1>4, MessageTyped DEF LeaveMessage, IInv, BoundsInv
  <2>3. fieldIndex = ThisMessage.count
    BY <1>0, <2>1, <2>2 DEF ThisMessage, MessageRecords
  <2>4. AllReadable(message.dsms[dsmIndex + 1])
    BY <2>1, <2>3 DEF AllReadable, ThisMessage
  <2> QED
    BY <1>0, <2>1, <2>4 DEF ReadInv, CrashIffUnreadable, AllReadable
<1>5. CASE ShowField
  <2>1. /\ UNCHANGED <<message, dsmIndex, pc>> /\ alive' = "yes" /\ pc = "fields"
        /\ fieldIndex' = fieldIndex + 1 /\ Readable(ThisMessage, fieldIndex + 1)
        /\ \A k \in 1..dsmIndex : AllReadable(message.dsms[k])
        /\ \A i \in 1..fieldIndex : Readable(ThisMessage, i)
    BY <1>5 DEF ShowField, ReadInv
  <2>2. ThisMessage' = ThisMessage
    BY <2>1 DEF ThisMessage
  <2> QED
    BY <1>0, <2>1, <2>2 DEF ReadInv, CrashIffUnreadable, AllReadable, Readable, WellKnown
<1>6. CASE ReadNothing
  <2>1. /\ UNCHANGED <<message, dsmIndex, fieldIndex, pc>> /\ pc = "fields"
        /\ ~Readable(ThisMessage, fieldIndex + 1) /\ fieldIndex < ThisMessage.count
    BY <1>6 DEF ReadNothing, MoreFields
  <2>2. /\ dsmIndex + 1 \in 1..message.count /\ message.nmType = NETWORKMESSAGE_DATASET
        /\ ThisMessage \in MessageRecords /\ ThisMessage.type = DATASETMESSAGE_DATAKEYFRAME
    BY <1>0, <2>1, MessageTyped DEF IInv, BoundsInv, LoopInv, ThisMessage
  <2>3. fieldIndex + 1 \in 1..ThisMessage.count
    BY <1>0, <2>1, <2>2 DEF MessageRecords
  <2>4. HasUnreadable(message)
    BY <2>1, <2>2, <2>3 DEF HasUnreadable, ThisMessage
  <2> QED
    BY <2>1, <2>4 DEF ReadInv, CrashIffUnreadable, HasUnreadable, AllReadable, Readable,
                      ThisMessage, WellKnown
<1> QED
  BY <1>1, <1>2, <1>3, <1>4, <1>5, <1>6

\* Every other step enters no loop and leaves none.
LEMMA ReadInductive == IInv /\ ShownInv /\ ReadInv /\ [Next]_vars => ReadInv'
<1> SUFFICES ASSUME IInv, ShownInv, ReadInv, [Next]_vars PROVE ReadInv'
  OBVIOUS
<1> USE DEF loops, history, At, Outside, InLoops
<1>1. CASE (\E d \in Datagrams : Arrive(d)) \/ StopHandler \/ Terminate \/ InstallHandler \/ UNCHANGED vars
  <2>1. UNCHANGED <<pc, message, dsmIndex, fieldIndex>> /\ (alive' = "crashed" => alive = "crashed")
    BY <1>1 DEF Arrive, StopHandler, Terminate, InstallHandler, vars
  <2> QED
    BY <2>1 DEF ReadInv, CrashIffUnreadable, HasUnreadable, AllReadable, Readable, ThisMessage,
                WellKnown
<1>2. CASE \/ Run \/ Destroy \/ LoopTest \/ Allocate \/ AllocationFails
           \/ ReceiveDatagram \/ ReceiveNothing \/ Decode \/ Cleanup
  <2>1. pc' \notin InLoops \cup {"cleanup"} /\ alive' = "yes"
    BY <1>2 DEF Run, Destroy, LoopTest, Allocate, AllocationFails, ReceiveDatagram,
                ReceiveNothing, Decode, Cleanup
  <2> QED
    BY <2>1 DEF ReadInv, CrashIffUnreadable
<1>3. CASE \/ Check \/ MessageLoop \/ EnterMessage \/ LeaveMessage \/ ShowField \/ ReadNothing
  BY <1>3, LoopsRead
<1> QED
  BY <1>1, <1>2, <1>3 DEF Next, Step

\* listen() ends the program on the datagrams that announce a field which
\* cannot be read, a missing one or an empty array of a type it shows, on all of
\* them and on no other, whatever the decoder makes of a datagram.
THEOREM CrashIsExplained == Spec => []CrashIffUnreadable
<1>1. Init => ReadInv
  BY DEF Init, ReadInv, CrashIffUnreadable, InLoops
<1>2. ReadInv => CrashIffUnreadable
  BY DEF ReadInv
<1> QED
  BY <1>1, <1>2, ReadInductive, Invariance, ShownInvariance, PTL DEF Spec

---------------------------------------------------------------------------
(* Every step is one of the viewer, or none. *)

inbox  == datagram \o queue
shown  == SubSeq(screen, 1, before)
status == CASE pc \notin InRun \/ alive # "yes"         -> "off"
            [] pc \in InRun /\ alive = "yes" /\ running -> "on"
            [] pc = "loop" /\ alive = "yes" /\ ~running -> "last"
            [] OTHER                                    -> "stopping"

ViewerStep == Viewer!Next \/ UNCHANGED <<inbox, shown, status>>

\* A subscriber that has just been constructed shows nothing.
LEMMA InitMaps == Init => Viewer!Init
<1> SUFFICES ASSUME Init PROVE Viewer!Init
  OBVIOUS
<1>1. <<>> \o <<>> = <<>> /\ SubSeq(<<>>, 1, 0) = <<>>
  OBVIOUS
<1> QED
  BY <1>1 DEF Init, Viewer!Init, InRun, Listening

\* A datagram arrives: it is the last of what is not yet shown.
LEMMA ArriveMaps ==
    ASSUME IInv, NEW d \in Datagrams, Arrive(d)
    PROVE  Viewer!Next
<1>1. datagram \in Seq(Datagrams) /\ queue \in Seq(Datagrams)
  BY DEF IInv, TypeOK
<1>2. datagram \o Append(queue, d) = Append(datagram \o queue, d)
  BY <1>1
<1>3. /\ queue' = Append(queue, d)
      /\ UNCHANGED <<datagram, screen, before, pc, alive, running>>
  BY DEF Arrive, history
<1> QED
  BY <1>2, <1>3 DEF Viewer!Next, Viewer!Arrive

\* Steps that do not show anything: the user's calls, the loops, the signals.
LEMMA StatusMaps ==
    ASSUME UNCHANGED <<inbox, shown>>,
           \/ status' = status
           \/ status = "off" /\ status' = "on"
           \/ status \in {"on", "stopping"} /\ status' \in {"stopping", "last"}
           \/ status # "off" /\ status' = "off"
    PROVE  ViewerStep
BY DEF ViewerStep, inbox, shown, status, Viewer!Next, Viewer!Start, Viewer!Stop, Viewer!End

\* What is shown does not change before the end of listen().
LEMMA ShownKept ==
    ASSUME IInv, before' = before,
           screen' = screen \/ \E n \in Nat : screen' = Append(screen, n)
    PROVE  shown' = shown
<1>1. screen \in Seq(Nat) /\ before \in 0..Len(screen)
  BY DEF IInv, TypeOK
<1>2. \A n \in Nat : SubSeq(Append(screen, n), 1, before) = SubSeq(screen, 1, before)
  BY <1>1
<1> QED
  BY <1>2 DEF shown

\* The environment and the calls outside run().
LEMMA OutsideMaps ==
    ASSUME IInv, StopHandler \/ Terminate \/ InstallHandler \/ Run \/ Destroy
    PROVE  ViewerStep
<1> USE DEF loops, history, socket, Outside, InRun, Listening, At
<1>1. CASE StopHandler
  <2>1. UNCHANGED <<inbox, shown>>
    BY <1>1 DEF StopHandler, inbox, shown
  <2>2. \/ status' = status
        \/ status \in {"on", "stopping"} /\ status' \in {"stopping", "last"}
    BY <1>1 DEF StopHandler, status
  <2> QED
    BY <2>1, <2>2, StatusMaps
<1>2. CASE Terminate
  <2>1. UNCHANGED <<inbox, shown>>
    BY <1>2 DEF Terminate, inbox, shown
  <2>2. status' = "off"
    BY <1>2 DEF Terminate, status
  <2> QED
    BY <2>1, <2>2, StatusMaps
<1>3. CASE InstallHandler
  <2>1. UNCHANGED <<inbox, shown, status>>
    BY <1>3 DEF InstallHandler, inbox, shown, status
  <2> QED
    BY <2>1, StatusMaps
<1>4. CASE Run
  <2>1. UNCHANGED <<inbox, shown>>
    BY <1>4 DEF Run, inbox, shown
  <2>2. status = "off" /\ status' = "on"
    BY <1>4 DEF Run, status
  <2> QED
    BY <2>1, <2>2, StatusMaps
<1>5. CASE Destroy
  <2>1. datagram = <<>> /\ queue' = <<>> /\ datagram' = <<>>
    BY <1>5 DEF Destroy, IInv, DatagramInv, TypeOK, Working
  <2>2. inbox' = <<>>
    BY <2>1 DEF inbox
  <2>3. status = "off" /\ status' = "off" /\ shown' = shown
    BY <1>5 DEF Destroy, status, shown
  <2> QED
    BY <2>2, <2>3 DEF ViewerStep, inbox, shown, status, Viewer!Next, Viewer!Discard
<1> QED
  BY <1>1, <1>2, <1>3, <1>4, <1>5

\* run() up to the datagram: a stop becomes visible at the latest when run()
\* looks at m_running again.
LEMMA ReceivingMaps ==
    ASSUME IInv, LoopTest \/ Allocate \/ AllocationFails \/ ReceiveDatagram \/ ReceiveNothing
    PROVE  ViewerStep
<1> USE DEF loops, history, socket, Outside, InRun, Listening, At
<1>1. CASE LoopTest
  <2>1. UNCHANGED <<inbox, shown>>
    BY <1>1 DEF LoopTest, inbox, shown
  <2>2. \/ status' = status
        \/ status # "off" /\ status' = "off"
    BY <1>1 DEF LoopTest, Continue, status, IInv, TypeOK
  <2> QED
    BY <2>1, <2>2, StatusMaps
<1>2. CASE Allocate
  <2>1. UNCHANGED <<inbox, shown, status>>
    BY <1>2 DEF Allocate, inbox, shown, status
  <2> QED
    BY <2>1, StatusMaps
<1>3. CASE AllocationFails
  <2>1. UNCHANGED <<inbox, shown>>
    BY <1>3 DEF AllocationFails, inbox, shown
  <2>2. \/ status' = status
        \/ status = "stopping" /\ status' = "last"
    BY <1>3 DEF AllocationFails, status, IInv, TypeOK
  <2> QED
    BY <2>1, <2>2, StatusMaps
<1>4. CASE ReceiveDatagram
  <2>1. datagram = <<>> /\ queue \in Seq(Datagrams) /\ queue # <<>>
    BY <1>4 DEF ReceiveDatagram, IInv, DatagramInv, TypeOK, Working
  <2>2. <<Head(queue)>> \o Tail(queue) = <<>> \o queue
    BY <2>1
  <2>3. UNCHANGED <<inbox, shown, status>>
    BY <1>4, <2>1, <2>2 DEF ReceiveDatagram, inbox, shown, status
  <2> QED
    BY <2>3, StatusMaps
<1>5. CASE ReceiveNothing
  <2>1. UNCHANGED <<inbox, shown>>
    BY <1>5 DEF ReceiveNothing, inbox, shown
  <2>2. \/ status' = status
        \/ status = "stopping" /\ status' = "last"
    BY <1>5 DEF ReceiveNothing, status, IInv, TypeOK
  <2> QED
    BY <2>1, <2>2, StatusMaps
<1> QED
  BY <1>1, <1>2, <1>3, <1>4, <1>5

\* listen() at work: nothing is shown until all of the datagram is.
LEMMA WorkingMaps ==
    ASSUME IInv,
           \/ Decode \/ Check \/ MessageLoop \/ EnterMessage
           \/ ShowField \/ ReadNothing \/ LeaveMessage
    PROVE  ViewerStep
<1> USE DEF loops, history, socket, Outside, InRun, Listening, At
<1>1. CASE Decode
  <2>1. UNCHANGED <<inbox, shown, status>>
    BY <1>1 DEF Decode, inbox, shown, status, IInv, TypeOK
  <2> QED
    BY <2>1, StatusMaps
<1>2. CASE Check
  <2>1. UNCHANGED <<inbox, shown, status>>
    BY <1>2 DEF Check, inbox, shown, status, IInv, TypeOK
  <2> QED
    BY <2>1, StatusMaps
<1>3. CASE MessageLoop
  <2>1. UNCHANGED <<inbox, shown, status>>
    BY <1>3 DEF MessageLoop, inbox, shown, status, IInv, TypeOK
  <2> QED
    BY <2>1, StatusMaps
<1>4. CASE EnterMessage \/ LeaveMessage
  <2>1. UNCHANGED <<inbox, shown, status>>
    BY <1>4 DEF EnterMessage, LeaveMessage, inbox, shown, status, IInv, TypeOK
  <2> QED
    BY <2>1, StatusMaps
<1>5. CASE ShowField
  <2>1. UNCHANGED <<inbox, status>>
    BY <1>5 DEF ShowField, inbox, status
  <2>2. ThisMessage \in MessageRecords
    BY <1>5, MessageTyped DEF ShowField, IInv, BoundsInv, ThisMessage
  <2>3. WellKnown(ThisField) => ThisField.data[1] \in Nat
    BY <1>5, <2>2, ReadableField DEF ShowField, ThisField
  <2>4. shown' = shown
    BY <1>5, <2>3, ShownKept DEF ShowField
  <2> QED
    BY <2>1, <2>4, StatusMaps
<1>6. CASE ReadNothing
  <2>1. UNCHANGED <<inbox, shown>>
    BY <1>6 DEF ReadNothing, inbox, shown
  <2>2. status # "off" /\ status' = "off"
    BY <1>6 DEF ReadNothing, status
  <2> QED
    BY <2>1, <2>2, StatusMaps
<1> QED
  BY <1>1, <1>2, <1>3, <1>4, <1>5, <1>6

\* The end of listen(): the datagram in hand has been shown, completely and once.
LEMMA CleanupMaps ==
    ASSUME IInv, ShownInv, Cleanup
    PROVE  Viewer!Show
<1> USE DEF InRun, Listening, At
<1>1. datagram \in Seq(Datagrams) /\ Len(datagram) = 1 /\ queue \in Seq(Datagrams)
  BY DEF Cleanup, IInv, DatagramInv, TypeOK, Working
<1> DEFINE d == datagram[1]
<1>2. d \in Datagrams /\ datagram = <<d>>
  BY <1>1
<1>3. inbox # <<>> /\ Head(inbox) = d /\ Tail(inbox) = queue
  <2>1. inbox = <<d>> \o queue
    BY <1>2 DEF inbox
  <2> HIDE DEF d
  <2> QED
    BY <1>1, <1>2, <2>1
<1>4. inbox' = Tail(inbox)
  <2>1. datagram' = <<>> /\ queue' = queue
    BY DEF Cleanup, socket
  <2>2. inbox' = <<>> \o queue
    BY <2>1 DEF inbox
  <2> QED
    BY <1>1, <1>3, <2>2
<1>5. screen = shown \o Shows[d]
  <2>1. message = Decoded[d] /\ Progress = LinesOf(message)
    BY DEF Cleanup, ShownInv, DecodedInv, Progress, Working
  <2> QED
    BY <1>2, <2>1, ShowsAssumption DEF ShownInv, ScreenInv, shown
<1>6. shown' = screen
  BY DEF Cleanup, shown, IInv, TypeOK
<1>7. /\ status \in {"on", "stopping"}
      /\ status' = IF status = "on" THEN "on" ELSE "last"
  BY DEF Cleanup, status, IInv, TypeOK
<1> QED
  BY <1>3, <1>4, <1>5, <1>6, <1>7 DEF Viewer!Show, inbox, shown, status

\* Every datagram that arrives is shown completely, once and in the order of
\* arrival, and after a stop at most the one being waited for: listen() and
\* run() implement the viewer, whatever the decoder makes of a datagram.
THEOREM Refinement == Spec => ImplementsViewer
<1>1. IInv /\ ShownInv /\ [Next]_vars => [Viewer!Next]_(Viewer!vars)
  <2> SUFFICES ASSUME IInv, ShownInv, [Next]_vars
               PROVE  ViewerStep
    BY DEF ViewerStep, Viewer!vars, inbox, shown, status
  <2>1. CASE \E d \in Datagrams : Arrive(d)
    BY <2>1, ArriveMaps DEF ViewerStep
  <2>2. CASE StopHandler \/ Terminate \/ InstallHandler \/ Run \/ Destroy
    BY <2>2, OutsideMaps
  <2>3. CASE LoopTest \/ Allocate \/ AllocationFails \/ ReceiveDatagram \/ ReceiveNothing
    BY <2>3, ReceivingMaps
  <2>4. CASE \/ Decode \/ Check \/ MessageLoop \/ EnterMessage
             \/ ShowField \/ ReadNothing \/ LeaveMessage
    BY <2>4, WorkingMaps
  <2>5. CASE Cleanup
    BY <2>5, CleanupMaps DEF ViewerStep, Viewer!Next
  <2>6. CASE UNCHANGED vars
    BY <2>6 DEF vars, ViewerStep, inbox, shown, status
  <2> QED
    BY <2>1, <2>2, <2>3, <2>4, <2>5, <2>6 DEF Next, Step
<1> QED
  BY <1>1, InitMaps, Invariance, ShownInvariance, PTL DEF Spec, ImplementsViewer, Viewer!Spec
=============================================================================
