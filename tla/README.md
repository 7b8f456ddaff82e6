# openPubSub in TLA+

openPubSub wraps the OPC UA PubSub part of open62541 in two C++ classes. A
`Server` configures what a publisher sends; a `Subscriber` receives UDP
datagrams, decodes them with the binary codec in `openPubSub/ua_pubsub/`, and
logs the values of well-known types.

## Inventory

| Component | State | Operations | Interacts with | What makes it correct |
|---|---|---|---|---|
| Builtin binary encoding (`ua_types_encoding_binary.c`) | position and end of a buffer | encode, decode and calcSize of every builtin type | called by the two codecs below | decode undoes encode; calcSize is the length written; no write or read behind the end; an error is reported |
| DataSetMessage codec (`ua_pubsub_networkmessage.c`) | a message under construction, its heap blocks | encode, decode, calcSize, free | builtin encoding | the same, and free gives back what decode took |
| NetworkMessage codec (same file) | flags, headers, payload, footer, signature, heap blocks | encode, decode, calcSize, clear | DataSetMessage codec | encoder, decoder and calcSize agree on the order and the conditions of some thirty optional parts |
| Real-time offsets (same file) | a prepared buffer with the offsets of what changes | updateBufferedMessage, updateBufferedNwMessage | builtin encoding | an update equals a full encoding; an error is not lost |
| Chunked encoding (`exchangeBuffer`) | the current chunk | exchange a full buffer | every encoder | the chunks put together are the whole encoding |
| Subscriber (`subscription.cpp`) | `m_running`, receive buffer, NetworkMessage, socket | init, run, listen, stopSubcription, destructor | signal handler, socket, codec | every datagram is shown completely and once; a stop ends run(); nothing leaks on any path |
| Server (`openPubSub.cpp`) | `m_running`, one ident each for connection, data set, group, writer | run, stopServer, add/remove/get calls | signal handler, open62541 server | an object is attached to the one its caller created before; a stop ends run() |
| Node data, traits, exceptions (`VariableNode.h`, `UATypes`, `Errors`) | a node id | assignment, conversion | open62541 server | not built (`openPubSub/CMakeLists.txt`) |
| String wrapper (`util/`) | a UA_String | construct, convert, compare | - | - |
| Generated and vendored headers | - | - | - | - |

What is hard here: the signal handler writes a flag of the object at any point
of the main loop; `listen()` drops the status of the decoder and goes on with
what is there; a decoder that stops half-way leaves heap blocks and counters
behind that one final clear has to sort out; the same optional sections are
spelled out three times, in the encoder, the decoder and calcSize; datagrams
are lost, foreign, or cut by the 512 byte buffer; an encoder that runs out of
buffer has it exchanged underneath and starts its attempt again; messages are
brought up to date in place, at offsets a third function has summed up.

## Modules

| Module | Models |
|---|---|
| `BinaryTypes` | integers, arrays, Variant, DataValue: encode, decode, size |
| `DataSetMessage` | the DataSetMessage codec |
| `NetworkMessage` | the NetworkMessage codec; uses the two above |
| `ChunkedEncoding` | `exchangeBuffer` and `encodeWithExchangeBuffer`: what an encoder does with buffers that fill up |
| `TypeEncoding` | encode and calcSize of every builtin type, of structures, optional members, unions and enumerations, as programs for `ChunkedEncoding` |
| `TypeDecoding` | decode of the same types, with the recursion limit and the filter of arrays |
| `TypePath` | a value sized, encoded whole or in chunks, cut, decoded |
| `BufferedMessage` | the fixed offsets calcSize notes, `updateBufferedMessage` and `updateBufferedNwMessage`; uses `NetworkMessage` |
| `BufferedPath` | a message published over and over through one buffer, and read in place |
| `DatagramService` | abstract: a message is delivered unaltered or not at all |
| `MessagePath` | size, encode, lose or cut, decode, clear; implements `DatagramService` |
| `DataSetViewer` | abstract: an inbox whose items are shown once, in order |
| `Subscriber` | `subscription.cpp` with signals and arrivals between any two statements; implements `DataSetViewer` |
| `SubscriberProofs` | the subscriber's invariants, and that it implements `DataSetViewer`, for every value of its constants |
| `Server` | the life of server objects in one program: constructor, init, run, stop, destructor, signals |
| `ServerProofs` | what a stop means, for any set of servers |
| `ServerConfiguration` | the PubSub add and remove calls and the identifiers the class keeps |
| `ConfigurationProofs` | to what the calls attach, for any number of entities |
| `WireProofs` | segments, integers, arrays, fields and the DataSetMessage codec, for every message and every byte string |
| `MessageProofs` | the encoder and the heap of the decoder of a NetworkMessage, and what the decoder reads from an encoding, whole or cut |
| `MessagePathProofs` | the invariants of `MessagePath`, and that it implements `DatagramService` |
| `LayoutProofs` | where the pieces of a message lie in its bytes, and that the offsets `calcSize` notes are those places |
| `BufferedProofs` | that a message updated in place is its encoding, and where the subscriber's update stays, for any messages, numbers and datagrams |
| `MessageShapes` | the messages of the two instances on messages |
| `MCDatagrams`, `MCMessagePath`, `MCSubscriber`, `MCTypePath`, `MCBufferedPath` | instances for TLC |

### The codec

`BinaryTypes`, `DataSetMessage` and `NetworkMessage` have no state: they define
functions from messages to bytes and back. Bytes are numbers 0..255 in
sequences. An encoder is a sequence of *segments*, each the bytes of one write
of the code together with what the code does with its statuscode: `Must`
returns it, `Try` overwrites it by the next one, `Halt` is a return statement.
`Write` runs the segments against a buffer of a given length. A decoder is a
function from the bytes and a position to a record with a status, the position
behind what was read, the value, and the heap blocks allocated so far, which is
how `Freed` and `Leaked` can compare what `UA_NetworkMessage_clear` frees with
what the decoder took.

The Variants a message is built from hold a builtin type of a fixed width. A
Variant that arrives may hold any: the array dimensions are read and dropped,
and of a String, a NodeId, an ExtensionObject or any other type without a fixed
width the model keeps where its content ends and not what it is. That end is the
constant `StructuredEnd`, an offset for every buffer, encoding byte and offset;
one outside the buffer is a failure. TLC gives it the decoder of strings
(`StringEnd`); the proofs hold for any. Two things are left out by it: the
blocks inside such a value, which its own decoder and the clear of the Variant
free, and the jump over the length of an ExtensionObject whose content is of a
type without members, which may end up to four bytes behind the buffer and is a
failure here (`TypeDecoding` has the jump).

A message is a record: `on` is the set of its enabled features (the booleans of
`UA_NetworkMessage` and its headers), `val` the values of its number fields,
and the rest its strings, ids, promoted fields and DataSetMessages.

### `MessagePath`

One message at a time: `Encode` asks calcSize for a buffer, makes it shorter by
a chosen number of bytes, and encodes; `Receive` copies at most the receive
buffer's size; `Decode` decodes and on failure clears; `Clear` is the final
clear of `listen()`. `Lose` drops the datagram. `Delivered` says, from the
message alone, what a subscriber should see, and `Supported` which messages
both sides implement (no raw data, no event messages).

### Types and chunks: `ChunkedEncoding`, `TypeEncoding`, `TypeDecoding`, `TypePath`

The messages of this library need only the small codec of `BinaryTypes`, which
the message modules use; the code behind it encodes any type. There an encoder
is a *program*: groups of steps, where the steps of a group are all taken and
their statuscodes or'ed, as `ret |= ...` does, and a group that fails is
returned. A step writes its bytes as a whole (`Direct`), splits them at any byte
(`Overlay`), is `encodeWithExchangeBuffer` around a program (`Exchanging`), or
asserts that a program did not report a full buffer (`Asserted`, with the line).
`RunStep` runs a program in a context: the chunks sent, the current one, how
often the callback still succeeds, and the assertions that failed.

`DataTypes` describes structures, structures with optional members, unions and
enumerations the way `UA_DataType` does, member by member; `custom` tells those of
the application from those of `UA_TYPES`, which are looked up first. Bit field
clusters are left out: the encoder takes them for structures, the decoder and
calcSize do not implement them (`ua_types_encoding_binary.c:1504`, `:1692`,
`:2015`). A decoder returns
status, position and value; the first failure ends it, because what the code
decodes after it is thrown away. `Normal` says what a value comes to at the
receiver (a known ExtensionObject in a Variant comes back unwrapped, an
enumeration as Int32, a text without bytes as NULL), `Encodable` and `Decodable`
which values the two sides take.

`TypePath` takes one value at a time: `EncodeWhole` into a buffer of the
calculated size, or one byte more or less, `EncodeChunked` with buffers of a
size and a callback that fails after a number of chunks, `Send` or `GiveUp`,
`Receive` of the first n bytes, `Clear`.

Two places in the code read a wrong address: the size of an optional scalar
(`Address` stands for what comes out) and the mask of optional members behind a
mandatory array (`Misplaced`; the constant `Strays` is what the address holds,
and both outcomes are explored).

### `BufferedMessage`, `BufferedPath`

`MessagePieces` is the sequence of the parts whose sizes
`UA_NetworkMessage_calcSizeBinary` adds up, each marked with the offset type the
code notes for it; `Noting` adds up their sizes and `Offsets` are those it
notes. The two updates go through the offsets one by one, with the statuscodes
the code keeps, overwrites or returns. `BufferedPath` freezes a message (offsets
and encoding once) if the encoder can finish it and a datagram can carry it,
lets the application change the values the offsets point to, publishes by
updating the buffer, loses or cuts datagrams, and updates the message of a
subscriber from what arrives. The open62541 writer group around it is external,
and one thing is assumed of it: that it does not send a buffer whose update
reported an error (`Published`). The code of this repository returns the error
and does no more; the writer group of open62541 1.1 logs it. What the properties
say of a datagram is therefore said of a buffer that was updated without an
error. Of a value that does not fit its place the code leaves the first numbers
in the buffer, the model none (`WriteOffset`); a value of the size the offset
was noted for always fits. The values written are of the fields' types
(`ValuesAssumption`: a message with other numbers is still a NetworkMessage).

### `Subscriber`

`pc` is the statement `run()` or `listen()` is about to execute. One action is
one statement or a group of statements no signal or arrival can be observed
between. `StopHandler` is SIGINT or SIGTERM with the handler installed,
`Terminate` without. The codec enters as the constant `Decoded`: what
`listen()` finds in `networkMessage` after the decoder has worked on a
datagram, its status dropped as `subscription.cpp:74` drops it: of each
DataSetMessage the type, the `fieldCount` that bounds the loop and the entries of
`dataSetFields`, which are two things: the decoder allocates the array for two of
the four field encodings only. `ReadNothing` is the read of an entry that is not
there, or of the value of an empty array, and ends the program. `MCDatagrams`
computes the table with `NetworkMessage`.

### `Server`

A program has one thread, so at most one `run()` is on the stack (`current`) and
the other calls are made outside it; `stopServer()` may also be called by a
callback inside an iteration. `UA_Server_run` is external, modelled after
open62541 1.1, the version `README.md:88` of the repository names: it starts up,
iterates, looks after every iteration at the flag it got a pointer to, and shuts
down when it is cleared (`at`). So a `run()` after a stop still does one
iteration. A `shutdownDelay` (`ua_server_internal.h:90`) would make it iterate
until its `endTime`; nothing in this repository sets one, and the model has
none. `target` is the global `__server`, `CtrlC` the handler with a living
target, `CtrlCWithoutTarget` the default disposition or a dangling pointer.
`stopped`, `interrupted`, `initialised`, `outcome` and `late` are history;
`late` counts the iterations the last `run()` has ended after a stop, whenever
that came.

### `ServerConfiguration`

`ident` holds the four identifiers of `Server::Impl` (null at first, because
`make_unique` zeroes the object). `created` is every entity the open62541 server
ever made, with the parents it was attached to; the position is the node id.
An add call creates its entity if the parents exist and have the right kind, and
writes the identifier; a refused call, whose statuscode the class drops, changes
nothing, but for `addWriterGroup`, whose second call then starts the group
before. A removal takes what the entity holds with it and leaves the identifier.
`addReaderGroup` passes a local identifier nobody has set (`openPubSub.cpp:318`,
`:328`): its group gets any entity as its parent, or none.

## Runs

| Run | Question | Answer |
|---|---|---|
| `path` | Is every message sized and decoded to what was published, whatever the two buffers cut off? | A whole datagram gives the message back (`RoundTrip`), a cut one is refused (`TruncationDetected`), and of all the blocks a half-way decoder holds only the signature is not freed (`OnlySignatureLeaks`). `calcSize` is exact for every supported message, and a footer of 256 bytes is never reported as sent (`SizeExact`). The path implements `DatagramService`. |
| `types` | Is every builtin type, structure, union and enumeration encoded, in one piece or in chunks, to what its decoder gives back? | Wherever the chunks end they are the encoding (`ChunksAreEncoding`), no retry goes back into a buffer that is gone, and of the assertions against that only two fail, harmlessly in a release build (`RetrySafe`); the size is exact but for the two cases named there (`SizeExact`); a value comes back unless it is nested too deep, is a Variant in a Variant, or an array too sparse for the filter, which are refused (`RoundTrip`); a cut message is refused at every byte (`CutRefused`), for structures with members. |
| `buffered` | Do the fixed offsets agree with encoder and decoder, and what does a failing update leave? | A buffer updated in place without an error is the encoding of the changed message (`UpdatedIsEncoded`), a message read in place is what decoding all of it gives (`UpdatedIsDecoded`), a failed read leaves new fields in front of one place and old ones behind it (`TornInOnePlace`), and nothing is written behind the fields of a single DataSetMessage (`WithinFields`). |
| `subscriber` | Does `run()` show what arrives, stop, and give back what it took? | What is received is shown completely, once and in order (`ImplementsViewer`); a stop ends `run()` (`StopEnds`) after at most one more datagram (`OneAfterStop`) and nothing but a stop or a failed allocation does (`ReturnsForAReason`); nothing is kept from one `listen()` to the next (`NoLeak`). The program crashes on exactly the messages that announce a field it cannot read: one that the decoder has made no entry for, or an empty array of a type whose value is shown (`CrashIffUnreadable`). |
| `life` | What does a stop do to a server, before, during and after `run()`? | It ends `run()` (`StopEndsRun`) and nothing else makes `run()` return (`ReturnsOnlyIfStopped`). It is for good: every `run()` that it meets or that comes later ends one more iteration and no second one (`StoppedForGood`). |
| `calls` | To what does a configuration call attach, after refused calls and removals? | A field, a writer group and a writer to the last entity created of the parent's kind, or to nothing (`AttachedToLatest`). After a refused call that may be an older one than the caller expects; of a reader group nothing is claimed. |

Six more runs each show one disagreement between the code and what its
comments say; TLC finds the state.

| Run | Property violated | What the code does |
|---|---|---|
| `uninit` | `ClearReadsWritten` | A delta frame cut in its fields is cleared element by element, the ones never written included (`ua_pubsub_networkmessage.c:1500`). |
| `diagnostic` | `DiagnosticKept` | The encoder of a DiagnosticInfo marks the inner DiagnosticInfo by bit 5, the decoder reads bit 5 as the inner status and bit 6 as the inner DiagnosticInfo (`ua_types_encoding_binary.c:1233`, `:1298`). |
| `offsets` | `ChangesSent` | The offsets of all DataValue fields point to the first field, which is written into the place of each (`ua_pubsub_networkmessage.c:1462`). |
| `crash` | `NeverCrashes` | An empty array of a well-known type is read through a sentinel pointer (`subscription.cpp:99`). |
| `headerless` | `ContentShown` | A message without payload header passes the check and its content is skipped, because the loop takes its bound from the header (`subscription.cpp:87`). |
| `ctrlc` | `CtrlCStops` | Of two servers set up by `init()` ctrl-c reaches the second (`openPubSub.cpp:64`). |

Four more deviations are stated as what the code does rather than as runs of
their own. A key frame of the reserved field encoding 3 is decoded as GOOD, with
a `fieldCount` and no fields (`ua_pubsub_networkmessage.c:1316-1343`), and
`listen()` reads the first of them (`subscription.cpp:96`):
`CrashIffUnreadable`. The clear never frees the signature, and nothing else is
lost: `OnlySignatureLeaks`. The status of the time stamp, the picoseconds and
the promoted fields is dropped, so a short buffer may be reported as success;
with a buffer of the calculated size that does not happen: `SizeExact` of
`path`. A footer of 256 bytes or more is counted by a byte and cannot be
encoded: the same property.

Deadlock is not checked in the subscriber and server runs, whose programs end;
in the `path`, `types` and `buffered` runs it is.

## Bounds

* Messages (`MCMessagePath`): the one `addWriterGroup` and `addDataSetWriter`
  configure; the same with each of the optional features toggled; every
  combination of the security flags and of the three parts whose status is
  dropped; every publisher id type, field encoding and message type; none, one
  and two DataSetMessages; and one with every feature. The optional parts are
  independent but for these groups, so an order or condition in which encoder,
  decoder and calcSize differ shows in one of them. Each field has a value of
  its own, so that fields read in the wrong order are told apart.
* Receive sizes 1..150 and 512: the longest message of the set is shorter than
  150 bytes (but for the one with the long footer), so it is cut at every byte.
  Send buffers are 0 to 60 bytes short.
* `MaxDatagram` = 65507, the longest UDP datagram over IPv4: `Receive` takes
  nothing longer, because the socket refuses to send it. No message of the run
  comes near; the proofs need it, because the promoted fields are preceded by a
  16-bit size. `Freeze` of `BufferedPath` takes no longer message, for the same
  reason.
* Integers are written with the width of the code (a byte is modulo 2^8) and
  have values below 2^24: three bytes and zeros behind them, which TLC's 32 bit
  integers hold; the wide types of the code differ from the narrow ones
  in the number of bytes only. Strings have up to 3 bytes.
* Values (`MCTypePath`): every builtin type with each of its forms (every NodeId
  form at its boundaries, empty, NULL and filled texts and arrays, an array with
  dimensions), ExtensionObjects of known and unknown types, scalars and arrays
  in Variants, structures in structures, with optional members, and unions.
  `MaxRecursion` = 2 instead of 100, with values nested to the limit and one
  beyond, for each kind that counts.
* Chunks of 19 to 32 bytes, fourteen sizes in a row, so that the end of a chunk
  moves through the writes of every value longer than that; the callback takes
  none, one, three or all of them. 19 bytes (`LargestGroup`) is the most any
  encoder writes in one piece, a NodeId with a Guid. With shorter chunks the
  retry of a structure repeats what was sent; open62541's chunks have at least
  8192 bytes.
* `BufferedPath`: the values 8 and 200 are written, so that an old, a new and the
  initial value differ; receive sizes 8, 17, 22 and 25 end a datagram in the
  header, in front of, inside and between the fields, and 512 ends none.
* Datagrams of the subscriber (`MCDatagrams`): one as configured, one of two
  messages with a delta frame first, one longer than 512 bytes, one without
  payload header, one with an empty array; and three that no encoder here sends:
  one that announces no message, one with a message of the reserved field encoding
  behind an ordinary one, and one with a String, an array with dimensions and a
  Byte. They are encoded and decoded by the codec modules.
* `MaxArrivals` = 3: one datagram in hand, one waiting, one more after the stop.
* Two servers; `late` counts to 2 in each `run()`, one more than is allowed.
* `MaxEntities` = 6: a connection, data set, group and writer, and two more
  that supersede any of them.

## Fairness

`Subscriber`: weak fairness of the program's statements (`Step`) as a whole. The
only wait is the 100 ms of `receive()`, after which it returns without a
datagram, so the thread always goes on. No signal, arrival or call from outside
`run()` is fair: a stop may never come, and datagrams may come forever.
`Server`: the same for `RunStep`; an iteration of `UA_Server_run` waits at most
for its next timer. The codec and configuration modules state no fairness.

## Proofs

TLAPS checks these for every value of the constants.

* `SubscriberProofs`: `TypeCorrect`, `NothingKept` (`NoLeak`),
  `CrashIsExplained` (`CrashIffUnreadable`), `StopIsPrompt` (`OneAfterStop`),
  `ReturnIsExplained` (`ReturnsForAReason`), for any datagrams, any decoder table
  and any number of arrivals. Assumed: the decoder yields records of the right
  shape (`DecodedAssumption`) and announces no more messages than it fills
  (`CountAssumption`; a decoder that fails clears the message, and the payload
  array is sized by the count), `MaxArrivals` is a number. Nothing is assumed of
  the number of fields a message announces. None of the properties is inductive.
  `NoLeak` says nothing of the statements in between, so `BufferInv` and
  `MessageInv` tie the buffer and the message to every `pc`; that no message with
  an unreadable field gets to the end needs that every message and field in front
  of the two counters could be read (`ReadInv`), and the other half that the
  announced messages exist (`BoundsInv`); `OneAfterStop` needs that no way leads
  from a late datagram back to `receive()` but through the test of `m_running`
  (`StopInv`). `DatagramInv` gives the decoder its datagram.
* `ServerProofs`: `TypeCorrect`, `ReturnMeansStopped`, `OneLateIteration`, for
  any set of servers. The invariant: the flag of an existing object is cleared
  if and only if a stop has cleared it (`FlagInv`), shutdown is reached with a
  cleared flag only (`ShutdownInv`), a `run()` that is about to iterate has ended
  no late iteration yet, and one that has and is at the test is that of a stopped
  object, so that the test ends it (`LateInv`).
* `ConfigurationProofs`: `LatestParents` and `TypeCorrect`, for any number of
  entities; of reader groups `LatestParents` says nothing. The invariant adds
  that each identifier is the greatest of its kind (`IdentIsLatest`) and that
  identifiers and parents name entities that were created. `AcceptedStep`
  carries it over one accepted call; the calls cite it. For `TypeCorrect`,
  `Bounds` adds that a group is started only while it exists; `MaxEntities` is
  assumed to be a number.

* `SubscriberProofs` also has the refinement of `DataSetViewer`
  (`ImplementsViewer`). `ShownInv` says where the screen stands at every `pc`: all
  lines of the datagrams received before, and of the one `listen()` is working on
  those of the messages and fields its two counters have passed.
  `ShownInvariance` proves it, and `Refinement` maps each statement to a step of
  the viewer or a stutter. `UpToField` and `UpToMessage` are what the loops over
  fields and messages have printed when they are at an index.
* The codec, for every message, buffer and byte string. `EncodeFits`: `calcSize`
  is the number of bytes it writes, what it cannot finish it reports, and a
  short buffer too, unless one of the three sections whose status is dropped is
  on. `DSMReads` and `MessageReads`: where the bytes of a DataSetMessage or a
  NetworkMessage follow, the decoder reads the message back (with picoseconds
  clamped and features without their header dropped), and it refuses as soon as
  a byte is missing. `DecodeTidy`: whatever the bytes, and whatever the decoders
  of structured types take of them inside a Variant (`StructuredEnd`), the
  decoder stays in them, and the blocks it has allocated for the message when it
  stops `clear` frees, but for the signature. Each is put together from one
  lemma per section in the order of the code; `Follows`, `Reached` and `Section`
  say how the sections of the encoder line up with those of the decoder.
* `MessagePathProofs`. `PathInv` is the inductive invariant: at every phase the
  variables are what the encoder, the network and the decoder make of one
  message of the writer group, and what arrives is a prefix of what was sent.
  `LeakInv` adds which blocks have been left behind. From them follow
  `SizeExact` (`SizeIsExact`), `OnlySignatureLeaks` (`ClearFreesAll`), `TypeOK`
  (`PathTypes`), `RoundTrip` (`DecodeInvertsEncode`) and `TruncationDetected`
  (`CutIsRefused`), by the lemmas on the codec. The refinement of
  `DatagramService` is proved step by step (one lemma per action):
  `CalculatedSizesServe` for buffers of the calculated size, and
  `ServiceRefinement` for shorter ones as long as none of the three sections is
  on whose status the encoder drops (`FirmlySized`).
* `BufferedProofs`: `UpdatesAreEncodings` (`UpdatedIsEncoded`), for any messages
  and any numbers the application writes, under the assumption on the writer
  group above. The property speaks of the message as it is now, but the offsets
  and the buffer were made of the message as it was when it was frozen. The
  inductive invariant (`PathInv`, `PathInvariance`) therefore ties them together
  by the messages that differ in the changing values only (`Family`): the
  offsets are those of the first message, and, if each changing value has an
  offset, the buffer is the encoding of some message of its family. That this is
  enough is `UpdateWrites`: the update turns the encoding of one of them into
  that of another. Its parts, in `LayoutProofs`: the offsets `calcSize` notes
  are the places of the marked pieces (`NotingNotes`), the encoder puts each
  piece in its place, with the same bytes in every message of the family if it
  is not marked (`MessageLaid`, one lemma per section), all of them have the
  same pieces (`PiecesAlike`), and writing the marked ones from left to right
  moves the place up to which the buffer is the new encoding (`WritesAll`). That
  the update of a time stamp is always reported is `UpdateStays`: its offset
  ends every update with an error.
* `BufferedProofs` also has the subscriber's half: `TypeCorrect` (`TypeOK`) and
  `UpdatesStayInFields` (`WithinFields`), for any datagrams that arrive, cut or
  whole. `PathInv` therefore also says that the offsets of the subscriber are
  those the published message would have given it, and that no update makes its
  message lose a field. The first needs that what is decoded has the same pieces
  as what was sent (`DeliveredPieces`, from `MessageReads`), the second that the
  offsets of fields are as many as the fields (`MessageTally`), so that the
  counter of `updateBufferedNwMessage` never passes their number by more than
  one (`ReadWithin`), whatever the readings return.
* And what that half is for: `UpdatesAreDecodings` (`UpdatedIsDecoded`) and
  `UpdatesTearOnce` (`TornInOnePlace`). An update that failed leaves a message
  that no encoding gives, and the next one starts from it, so the invariant
  cannot say that the subscriber's message is a decoded one. It says that it is
  `Near` one: they agree in all that no offset points to, and each of the rest
  is still to be read. Two messages of the family are decoded to messages near
  each other (`DeliveredNear`); this needs that the memory a decoded message
  owns is that of its members and no more (`DecodedAccounts`, in
  `LayoutProofs`). Along the offsets (`UpdateWalks`) the numbers that may differ
  are those whose offsets are left (`Left`), and the fields are the new ones in
  front of the counter and the old ones from there on (`Split`), until the
  datagram ends: from then on nothing is read any more, and the fields are
  `Torn` where it did.
* Assumed of the constants: the writer group hands over NetworkMessage structs
  (`MessagesAssumption`), and the sizes are numbers (`ShortfallsAssumption`,
  `ReceiveSizesAssumption`, `CutSizesAssumption`); and `ValuesAssumption`: what
  the application writes fits the types of the fields. A message is any record
  of the fields' types: any set of features, any strings of bytes, any number of
  ids, fields and messages the counters hold.
* The codec's loops are folds and recursive functions over sequences. The prover
  has no induction over them that could be used here; `WireProofs` proves what is
  needed by the least number principle: were a claim about the first n elements
  false for some n, take the least.

Only model-checked:

* the liveness properties `StopEnds` and `StopEndsRun`: fairness is out of the
  prover's reach;
* `TypePath`: its values are nested, and the modules compute them by RECURSIVE
  operators, which the prover does not take;
* `ImplementsService` for a short buffer and a message with one of the three
  sections whose status is dropped. The run has such messages.

## Not modelled

* Raw-data fields and event messages: the encoder and decoder reject them; the
  runs contain them so that the rejection is checked, nothing else is.
* The conversion of Float and Double on machines without IEEE 754
  (`ua_types_encoding_binary.c:301-402`); elsewhere they are the eight or four
  bytes the model has. Numbers of 2^24 and more.
* Failed allocations inside the codec, and with them the dropped status of
  `UA_NodeId_copy` (`:892`).
* Bit field clusters; the members of a value of a structured type inside a Variant
  of a PubSub message (`TypeDecoding` has them, for values on their own).
* Values a caller builds wrongly: a union with a selection beyond its members.
  A structure whose mandatory array is followed by an optional member is modelled
  but kept out of the properties (`MaskSound`), because its mask is made of what
  happens to be in memory; no type of this library has one.
* In the fixed-offset path, who owns the field values: an update decodes over a
  Variant without freeing what it held (`ua_pubsub_networkmessage.c:136`). The
  fields of the runs are numbers.
* `allocCustomBuffer`, which nothing calls, and a socket the subscriber's
  constructor could not open.
* The server's node calls and `addRepeatedCallback`, which keep nothing in the
  object; `VariableNode`, `UATypes` and `Errors`, which are not built; `util`;
  the vendored headers. Of the generated header the wrappers of a type are
  `EncodeWhole` and `Receive`; its 200 types differ in their descriptions only,
  which are not in this repository.

A server and a subscriber in one process are modelled apart, although they share
the disposition of the signals.

## Plan

Done: the codec and the message path, the subscriber, the server and its
configuration with their proofs, the structured types, chunked encoding, and the
fixed-offset path. What would come next:

1. `Process`: a server and a subscriber behind one signal disposition.
2. `PubSub`: `ServerConfiguration` publishing through `MessagePath` to
   `Subscriber`, against an abstract "what is configured is shown, or nothing".
3. Proofs: those of 1 and 2 as they come.
