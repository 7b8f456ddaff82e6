----------------------------- MODULE Subscriber -----------------------------
(***************************************************************************)
(* openPubSub::Subscriber (subscription.cpp): init(), run() and listen(),  *)
(* one step per statement that another party can come between, with        *)
(* datagrams that arrive and stop signals that are handled at any point.   *)
(*                                                                         *)
(* The decoder is a constant: Decoded[d] is what listen() finds in         *)
(* networkMessage after UA_NetworkMessage_decodeBinary has worked on       *)
(* datagram d; MCSubscriber takes it from NetworkMessage.  A message is a  *)
(* record of what listen() looks at:                                       *)
(*   nmType  networkMessageType, 0 = UA_NETWORKMESSAGE_DATASET             *)
(*   header  payloadHeaderEnabled                                          *)
(*   count   payloadHeader.dataSetPayloadHeader.count                      *)
(*   dsms    dataSetMessages, each with its type and, for a key frame, the *)
(*           fieldCount it announces and the entries of dataSetFields      *)
(***************************************************************************)
EXTENDS Integers, SequencesExt

CONSTANTS Datagrams,    \* the datagrams that may arrive
          Decoded,      \* what the decoder makes of each
          Shows,        \* the lines each should put on the screen
          MaxArrivals   \* bound: datagrams that arrive in one behaviour

FieldRecords   == [type : Nat, data : Seq(Nat)]
MessageRecords == [type : Nat, count : Nat, fields : Seq(FieldRecords)]
NetworkRecords == [nmType : Nat, header : BOOLEAN, count : Nat, dsms : Seq(MessageRecords)]

ASSUME DecodedAssumption == Decoded \in [Datagrams -> NetworkRecords]

\* A decoder that returns GOOD has filled as many messages as it announces,
\* one that fails has cleared the NetworkMessage.
ASSUME CountAssumption == \A d \in Datagrams : Decoded[d].count <= Len(Decoded[d].dsms)

ASSUME MaxArrivalsAssumption == MaxArrivals \in Nat

VARIABLES pc,         \* the next statement of the program
          alive,      \* "yes", "killed" by a signal, "crashed"
          installed,  \* init() has installed stopHandler
          running,    \* m_running
          retval,     \* retval of run()
          arrivals,   \* datagrams that arrived so far
          queue,      \* the socket's receive queue
          buffers,    \* receive buffers allocated and not freed
          datagram,   \* the datagram listen() is working on
          message,    \* networkMessage
          dsmIndex,   \* the loop counter j of listen()
          fieldIndex, \* the loop counter i of listen()
          screen,     \* the values logged (history)
          before,     \* Len(screen) when the datagram in hand was received (history)
          late        \* datagrams received in this run after a stop (history)

socket  == <<arrivals, queue>>
loops   == <<message, dsmIndex, fieldIndex>>
history == <<screen, before, late>>
vars == <<pc, alive, installed, running, retval, arrivals, queue, buffers, datagram,
          message, dsmIndex, fieldIndex, screen, before, late>>

BufferSize == 512

NETWORKMESSAGE_DATASET      == 0
DATASETMESSAGE_DATAKEYFRAME == 0

TYPES_BYTE     == 3
TYPES_UINT32   == 7
TYPES_DATETIME == 13

ZeroMessage == [nmType |-> 0, header |-> FALSE, count |-> 0, dsms |-> <<>>]

Outside == {"constructed", "returned"}
Listening == {"alloc", "receive", "decode", "check", "messages", "message", "fields", "cleanup"}
InRun == Listening \cup {"loop"}

\* ByteString_clear takes a length of zero for a buffer that owns no memory.
Releases(length) == IF length = 0 THEN 0 ELSE 1

Init ==
    /\ pc = "constructed" /\ alive = "yes" /\ installed = FALSE
    /\ running = TRUE /\ retval = "Good"
    /\ arrivals = 0 /\ queue = <<>>
    /\ buffers = 0 /\ datagram = <<>>
    /\ message = ZeroMessage /\ dsmIndex = 0 /\ fieldIndex = 0
    /\ screen = <<>> /\ before = 0 /\ late = 0

---------------------------------------------------------------------------
(* The environment. *)

\* UDP may lose, duplicate and reorder: what arrives is any datagram.
Arrive(d) ==
    /\ alive = "yes" /\ pc # "closed"
    /\ arrivals < MaxArrivals
    /\ arrivals' = arrivals + 1
    /\ queue' = Append(queue, d)
    /\ UNCHANGED <<pc, alive, installed, running, retval, buffers, datagram, loops, history>>

\* SIGINT or SIGTERM with the handler installed, between any two statements.
StopHandler ==
    /\ alive = "yes" /\ pc # "closed" /\ installed
    /\ running' = FALSE
    /\ UNCHANGED <<pc, alive, installed, retval, socket, buffers, datagram, loops, history>>

\* The same signal with the default disposition; the handler of a subscriber
\* that has been destroyed writes freed memory, which may end the process too.
Terminate ==
    /\ alive = "yes"
    /\ installed => pc = "closed"
    /\ alive' = "killed"
    /\ UNCHANGED <<pc, installed, running, retval, socket, buffers, datagram, loops, history>>

---------------------------------------------------------------------------
(* The program outside run(). *)

InstallHandler ==
    /\ alive = "yes" /\ pc \in Outside
    /\ installed' = TRUE
    /\ UNCHANGED <<pc, alive, running, retval, socket, buffers, datagram, loops, history>>

Run ==
    /\ alive = "yes" /\ pc \in Outside
    /\ running' = TRUE
    /\ retval' = "Good"
    /\ pc' = "loop"
    /\ late' = 0
    /\ UNCHANGED <<alive, installed, socket, buffers, datagram, loops, screen, before>>

Destroy ==
    /\ alive = "yes" /\ pc \in Outside
    /\ pc' = "closed"
    /\ queue' = <<>>
    /\ UNCHANGED <<alive, installed, running, retval, arrivals, buffers, datagram, loops, history>>

---------------------------------------------------------------------------
(* run() and listen(). *)

At(label) == alive = "yes" /\ pc = label

\* Mutant: only a failed listen() ends the loop.
ContinueUnlessFailed == retval = "Good"

Continue == running /\ retval = "Good"

LoopTest ==
    /\ At("loop")
    /\ pc' = IF Continue THEN "alloc" ELSE "returned"
    /\ UNCHANGED <<alive, installed, running, retval, socket, buffers, datagram, loops, history>>

Allocate ==
    /\ At("alloc")
    /\ buffers' = buffers + 1
    /\ pc' = "receive"
    /\ UNCHANGED <<alive, installed, running, retval, socket, datagram, loops, history>>

AllocationFails ==
    /\ At("alloc")
    /\ retval' = "BadOutOfMemory"
    /\ pc' = "loop"
    /\ UNCHANGED <<alive, installed, running, socket, buffers, datagram, loops, history>>

ReceiveDatagram ==
    /\ At("receive") /\ queue # <<>>
    /\ datagram' = <<Head(queue)>>
    /\ queue' = Tail(queue)
    /\ pc' = "decode"
    /\ late' = IF running THEN late ELSE late + 1
    /\ UNCHANGED <<alive, installed, running, retval, arrivals, buffers, loops, screen, before>>

\* Mutant: the length receive() has set is used as it is.
KeptLength(length) == length

\* The length the buffer is cleared with after receive() has delivered nothing.
ResetLength(length) == BufferSize

\* Mutant: the statuscode of receive() is passed on to run().
PassedOn(status) == status

\* What listen() returns when receive() delivers nothing or fails.
StatusAfterReceive(status) == "Good"

\* 100 ms without a datagram (the length is then 0), or a failed call, which a
\* signal causes as well.
ReceiveNothing ==
    /\ At("receive")
    /\ \E length \in {0, BufferSize}, status \in {"Good", "BadInternalError"} :
          /\ length # 0 => status # "Good"
          /\ status = "Good" => queue = <<>>
          /\ buffers' = buffers - Releases(ResetLength(length))
          /\ retval' = StatusAfterReceive(status)
    /\ pc' = "loop"
    /\ UNCHANGED <<alive, installed, running, socket, datagram, loops, history>>

\* memset, decodeBinary, whose statuscode is dropped, and the buffer's clear.
Decode ==
    /\ At("decode")
    /\ message' = Decoded[datagram[1]]
    /\ buffers' = buffers - Releases(BufferSize)
    /\ pc' = "check"
    /\ UNCHANGED <<alive, installed, running, retval, socket, datagram, dsmIndex, fieldIndex,
                   history>>

Check ==
    /\ At("check")
    /\ pc' = IF message.nmType = NETWORKMESSAGE_DATASET /\ (message.header => message.count >= 1)
             THEN "messages" ELSE "cleanup"
    /\ dsmIndex' = 0
    /\ UNCHANGED <<alive, installed, running, retval, socket, buffers, datagram, message,
                   fieldIndex, history>>

MoreMessages == dsmIndex < message.count

MessageLoop ==
    /\ At("messages")
    /\ pc' = IF MoreMessages THEN "message" ELSE "cleanup"
    /\ UNCHANGED <<alive, installed, running, retval, socket, buffers, datagram, loops, history>>

\* Mutant: the first message that is no key frame ends the loop.
BreakLoop == message.count

\* continue
NextMessage == dsmIndex + 1

EnterMessage ==
    /\ At("message")
    /\ IF message.dsms[dsmIndex + 1].type = DATASETMESSAGE_DATAKEYFRAME
       THEN pc' = "fields" /\ fieldIndex' = 0 /\ UNCHANGED dsmIndex
       ELSE pc' = "messages" /\ dsmIndex' = NextMessage /\ UNCHANGED fieldIndex
    /\ UNCHANGED <<alive, installed, running, retval, socket, buffers, datagram, message, history>>

ThisMessage == message.dsms[dsmIndex + 1]
ThisField   == ThisMessage.fields[fieldIndex + 1]

WellKnown(f) == f.type \in {TYPES_BYTE, TYPES_UINT32, TYPES_DATETIME}

\* Entry i of dataSetFields exists and, if its value is looked at, has one.
Readable(d, i) ==
    i \in DOMAIN d.fields /\ (WellKnown(d.fields[i]) => d.fields[i].data # <<>>)

\* Mutant: one iteration too many.
OneFieldTooMany == fieldIndex <= ThisMessage.count

\* The bound is the fieldCount of the message, not the length of its array.
MoreFields == fieldIndex < ThisMessage.count

ShowField ==
    /\ At("fields") /\ MoreFields
    /\ Readable(ThisMessage, fieldIndex + 1)
    /\ screen' = IF WellKnown(ThisField) THEN Append(screen, ThisField.data[1]) ELSE screen
    /\ fieldIndex' = fieldIndex + 1
    /\ UNCHANGED <<pc, alive, installed, running, retval, socket, buffers, datagram, message,
                   dsmIndex, before, late>>

\* The value of an empty array, and every field of a message without an array,
\* are read through a pointer to no memory.
ReadNothing ==
    /\ At("fields") /\ MoreFields
    /\ ~Readable(ThisMessage, fieldIndex + 1)
    /\ alive' = "crashed"
    /\ UNCHANGED <<pc, installed, running, retval, socket, buffers, datagram, loops, history>>

LeaveMessage ==
    /\ At("fields") /\ ~MoreFields
    /\ dsmIndex' = dsmIndex + 1
    /\ pc' = "messages"
    /\ UNCHANGED <<alive, installed, running, retval, socket, buffers, datagram, message,
                   fieldIndex, history>>

Cleanup ==
    /\ At("cleanup")
    /\ message' = ZeroMessage
    /\ datagram' = <<>>
    /\ before' = Len(screen)
    /\ pc' = "loop"
    /\ UNCHANGED <<alive, installed, running, retval, socket, buffers, dsmIndex, fieldIndex,
                   screen, late>>

---------------------------------------------------------------------------

Step ==
    \/ LoopTest \/ Allocate \/ AllocationFails \/ ReceiveDatagram \/ ReceiveNothing
    \/ Decode \/ Check \/ MessageLoop \/ EnterMessage \/ ShowField \/ ReadNothing
    \/ LeaveMessage \/ Cleanup

Next ==
    \/ \E d \in Datagrams : Arrive(d)
    \/ StopHandler \/ Terminate
    \/ InstallHandler \/ Run \/ Destroy
    \/ Step

Spec == Init /\ [][Next]_vars

\* run() never waits for longer than receive()'s 100 ms, so the thread that
\* calls it is scheduled again and again.
FairSpec == Spec /\ WF_vars(Step)

---------------------------------------------------------------------------
(* Properties. *)

TypeOK ==
    /\ pc \in Outside \cup InRun \cup {"closed"}
    /\ alive \in {"yes", "killed", "crashed"}
    /\ installed \in BOOLEAN
    /\ running \in BOOLEAN
    /\ retval \in {"Good", "BadOutOfMemory"}
    /\ arrivals \in 0..MaxArrivals
    /\ queue \in Seq(Datagrams)
    /\ buffers \in 0..1
    /\ datagram \in Seq(Datagrams) /\ Len(datagram) <= 1
    /\ message \in NetworkRecords
    /\ dsmIndex \in Nat
    /\ fieldIndex \in Nat
    /\ screen \in Seq(Nat)
    /\ before \in 0..Len(screen)
    /\ late \in Nat

\* Every listen() gives back what it took: whenever run() is about to listen
\* again, and after it, no receive buffer is allocated and networkMessage owns
\* nothing, on the paths of a timeout, an error, an undecodable datagram and a
\* datagram shown.
NoLeak == pc \in Outside \cup {"loop", "alloc"} => buffers = 0 /\ message = ZeroMessage

\* A message with an announced field that cannot be read: the field is missing,
\* or it is an empty array of a type whose value is shown.
HasUnreadable(m) ==
    /\ m.nmType = NETWORKMESSAGE_DATASET
    /\ \E k \in 1..m.count :
          /\ m.dsms[k].type = DATASETMESSAGE_DATAKEYFRAME
          /\ \E i \in 1..m.dsms[k].count : ~Readable(m.dsms[k], i)

\* listen() takes the bounds of its loops from counters and its elements from
\* arrays.  It ends the program on the datagrams that announce a field which
\* cannot be read, on all of them and on no other: no loop runs behind an array
\* that is as long as its counter says.
CrashIffUnreadable ==
    /\ alive = "crashed" => HasUnreadable(message)
    /\ pc = "cleanup" => ~HasUnreadable(message)

\* After the stop handler has run, at most one more datagram is received.
OneAfterStop == late <= 1

\* run() returns only because of a stop or because no buffer could be allocated;
\* a failing receive() or an undecodable datagram never ends it.
ReturnsForAReason == pc = "returned" => ~running \/ retval = "BadOutOfMemory"

\* A stop handled while run() loops ends run(), whatever arrives meanwhile.
StopEnds == (pc \in InRun /\ ~running /\ alive = "yes") ~> (pc \notin InRun \/ alive = "crashed")

\* Showing the well-known fields of a published message does not end the
\* program.
NeverCrashes == alive # "crashed"

\* A NetworkMessage with a key frame that has something to show is shown.
HasContent(m) ==
    \E k \in DOMAIN m.dsms :
        /\ m.dsms[k].type = DATASETMESSAGE_DATAKEYFRAME
        /\ \E f \in DOMAIN m.dsms[k].fields : WellKnown(m.dsms[k].fields[f])
ContentShown == pc = "cleanup" /\ HasContent(message) => Len(screen) > before

---------------------------------------------------------------------------
(* The subscriber implements the viewer: a datagram counts as shown when
   listen() has worked through it. *)

\* What a NetworkMessage has to show: the first element of every field of a
\* well-known type of its key frames.
FieldLines(f)   == IF WellKnown(f) /\ f.data # <<>> THEN <<f.data[1]>> ELSE <<>>
LinesAt(d, i)   == IF i \in DOMAIN d.fields THEN FieldLines(d.fields[i]) ELSE <<>>
MessageLines(d) == IF d.type # DATASETMESSAGE_DATAKEYFRAME THEN <<>>
                   ELSE FlattenSeq([i \in 1..d.count |-> LinesAt(d, i)])
LinesOf(m)      == IF m.nmType # NETWORKMESSAGE_DATASET THEN <<>>
                   ELSE FlattenSeq([k \in 1..m.count |-> MessageLines(m.dsms[k])])

\* What a datagram should show is what its message has to show.
ASSUME ShowsAssumption == \A d \in Datagrams : Shows[d] = LinesOf(Decoded[d])

Viewer == INSTANCE DataSetViewer WITH
    Content <- Datagrams,
    inbox   <- datagram \o queue,
    screen  <- SubSeq(screen, 1, before),
    status  <- CASE pc \notin InRun \/ alive # "yes"         -> "off"
                 [] pc \in InRun /\ alive = "yes" /\ running -> "on"
                 [] pc = "loop" /\ alive = "yes" /\ ~running -> "last"
                 [] OTHER                                    -> "stopping"

\* Every datagram is shown completely, once and in order, and at most one after
\* a stop.
ImplementsViewer == Viewer!Spec
=============================================================================
