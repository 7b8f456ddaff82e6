-------------------------- MODULE ChunkedEncoding --------------------------
(***************************************************************************)
(* Encoding into chunks (exchangeBuffer, encodeWithExchangeBuffer and      *)
(* Array_encodeBinaryOverlayable of ua_types_encoding_binary.c).  When the *)
(* buffer is full a callback sends it and puts a new one underneath the    *)
(* encoding under way, which starts again at the last good position.       *)
(*                                                                         *)
(* An encoder is a program: a sequence of groups of steps.  The steps of a *)
(* group are all taken and their statuscodes or'ed ("ret |= ..."); the     *)
(* statuscode of a group is returned when it is not GOOD.  A status rv is  *)
(* the set of the codes or'ed, {} for GOOD, so that rv = Full is           *)
(* "ret == UA_STATUSCODE_BADENCODINGLIMITSEXCEEDED".                       *)
(*                                                                         *)
(* A context is a record                                                   *)
(*   rv     the status                                                     *)
(*   sent   the chunks the callback has taken                              *)
(*   cur    the bytes before the current position of the current buffer    *)
(*   size   the size of each buffer                                        *)
(*   left   how often the callback still succeeds; NoCallback without one  *)
(*   failed the lines of the assertions that do not hold                   *)
(***************************************************************************)
EXTENDS BinaryTypes, SequencesExt

NoCallback == -1

Full == {"BadEncodingLimitsExceeded"}

Context(size, left) ==
    [rv |-> {}, sent |-> <<>>, cur |-> <<>>, size |-> size, left |-> left, failed |-> {}]

---------------------------------------------------------------------------
(* Programs. *)

\* A write that fits as a whole or not at all.
Direct(bytes) == [op |-> "direct", bytes |-> bytes]
\* The content of an overlayable array, split at any byte.
Overlay(bytes) == [op |-> "overlay", bytes |-> bytes]
\* encodeWithExchangeBuffer.
Exchanging(program) == [op |-> "exchanging", program |-> program]
\* Another encoder, called directly.
Call(program) == [op |-> "call", program |-> program]
\* The same, with UA_assert(ret != BADENCODINGLIMITSEXCEEDED) behind it.
Asserted(line, program) == [op |-> "asserted", program |-> program, line |-> line]
Failing(code) == [op |-> "failing", code |-> code]
\* The access of a member that is not there.
Stray == [op |-> "failing", code |-> "Crash"]

\* A step whose statuscode is returned at once.
Do(step) == << <<step>> >>

---------------------------------------------------------------------------
(* What a program does in a context. *)

Exchange(c) ==
    CASE c.left = NoCallback -> [c EXCEPT !.rv = {"BadEncodingError"}]
      [] c.left = 0          -> [c EXCEPT !.rv = {"BadSendFailed"}]
      [] OTHER -> [c EXCEPT !.rv = {}, !.sent = Append(@, c.cur), !.cur = <<>>, !.left = @ - 1]

\* Mutant: a write may end one byte behind the buffer.
RoomAndOne(c, n) == Len(c.cur) + n <= c.size + 1

Room(c, n) == Len(c.cur) + n <= c.size

WriteDirect(bytes, c) ==
    IF Room(c, Len(bytes)) THEN [c EXCEPT !.cur = @ \o bytes] ELSE [c EXCEPT !.rv = Full]

\* The loop of Array_encodeBinaryOverlayable: fill the buffer, exchange, go on.
RECURSIVE WriteOverlay(_, _)
WriteOverlay(bytes, c) ==
    LET possible == c.size - Len(c.cur)
        Rest(x)  == IF x.rv = {} THEN WriteOverlay(SubSeq(bytes, possible + 1, Len(bytes)), x)
                    ELSE x
    IN  IF Room(c, Len(bytes)) THEN [c EXCEPT !.cur = @ \o bytes]
        ELSE Rest(Exchange([c EXCEPT !.cur = @ \o SubSeq(bytes, 1, possible)]))

\* Mutant: what the failed attempt has written stays in the chunk.
KeptAttempt(c, r) == r

\* Set to the last known good position.  An exchange during the attempt would have
\* made that a position in a buffer already gone: the assertion of line 111.
RolledBack(c, r) ==
    [r EXCEPT !.cur = c.cur, !.failed = @ \cup IF Len(r.sent) = Len(c.sent) THEN {} ELSE {111}]

RECURSIVE RunStep(_, _)

RunGroup(group, c) ==
    FoldLeft(LAMBDA a, s : LET r == RunStep(s, [a EXCEPT !.rv = {}])
                           IN  [r EXCEPT !.rv = @ \cup a.rv],
             c, group)

Run(program, c) ==
    FoldLeft(LAMBDA a, g : IF a.rv = {} THEN RunGroup(g, a) ELSE a, c, program)

\* If encoding fails, exchange the buffer and try again.
Retry(program, c, r) ==
    IF r.rv # Full THEN r
    ELSE LET x == Exchange(RolledBack(c, r))
         IN  IF x.rv = {} THEN Run(program, x) ELSE x

RunStep(s, c) ==
    CASE s.op = "direct"     -> WriteDirect(s.bytes, c)
      [] s.op = "overlay"    -> WriteOverlay(s.bytes, c)
      [] s.op = "exchanging" -> Retry(s.program, c, Run(s.program, c))
      [] s.op = "call"       -> Run(s.program, c)
      [] s.op = "asserted"   -> LET r == Run(s.program, c)
                                IN  [r EXCEPT !.failed = @ \cup IF r.rv = Full THEN {s.line} ELSE {}]
      [] s.op = "failing"    -> [c EXCEPT !.rv = {s.code}]

\* The bytes a program writes, in one piece.
Unchunked(program) == Run(program, Context(100000, NoCallback)).cur
=============================================================================
