----------------------------- MODULE HttpReader -----------------------------
(***************************************************************************)
(* A socket with its buffer RecvBuf, and the two readers that look ahead   *)
(* in it: HTTPHandler::ReadHeader(), which looks for the empty line, and   *)
(* HTTPHandler::ReadBodyPart() with chunked encoding, which looks for the  *)
(* size line.  The server's answers come in pieces of any length: recv()   *)
(* returns what happens to be there.                                       *)
(*                                                                         *)
(* A byte is named by its position in the server's stream, so that RecvBuf *)
(* and every string here are sequences of positions; `stream` has the      *)
(* values.  Two calls are all there is to reading: Recv(Temp, false) looks *)
(* at a piece and leaves it in RecvBuf, RecvLength() takes bytes out.      *)
(***************************************************************************)
EXTENDS Integers, Sequences, SequencesExt, FiniteSetsExt

CONSTANTS
  Answers,               \* what a server may answer, see Answer below
  Requests,              \* bound: answers asked for on the connection
  MAXRECV,               \* the longest piece recv() returns
  MAXHTTPHEADERLENGTH,   \* the longest header
  MAXCHUNKHEADER,        \* 256: the longest look at a size line
  MAXDIGITS,             \* 7: the most digits of a chunk's size
  MAXCHUNK,              \* 1 MB: the largest chunk
  UINT                   \* 2^32: an unsigned int is less

(***************************************************************************)
(* Answers: `lead` blank bytes before it, a header that begins with        *)
(* another byte and ends with byte `head` ("crlf": with the first empty    *)
(* line, "lf": with the first pair of bare line feeds, "none": without     *)
(* either, at the end of a line and of the connection), and a chunked body *)
(* (or none), each chunk with the place in the body where it begins and    *)
(* the digits of its size.                                                 *)
(***************************************************************************)

CR == "CR"
LF == "LF"
Blank == {CR, LF}
DigitValue == [x0 |-> 0, x1 |-> 1, x2 |-> 2, x3 |-> 3]
Hex == DOMAIN DigitValue
Values == Blank \cup Hex \cup {"h", "d"}
Ends == [crlf |-> <<CR, LF, CR, LF>>, lf |-> <<LF, LF>>]

Value(digits) == FoldLeft(LAMBDA v, d : 16 * v + DigitValue[d], 0, digits)

\* The header's bytes that are `pattern' begin at byte i and end at byte j.
HeaderHas(a, pattern, i, j) ==
  /\ i \in a.lead + 1 .. j /\ j <= a.head /\ j - i + 1 = Len(pattern)
  /\ \A k \in DOMAIN pattern : a.text[i + k - 1] = pattern[k]

IsHeader(a) ==
  /\ a.lead \in Nat /\ a.head \in a.lead + 1 .. Len(a.text)
  /\ \A i \in 1 .. a.lead : a.text[i] \in Blank
  /\ a.text[a.lead + 1] \notin Blank
  /\ a.end \in {"crlf", "lf", "none"}
  /\ \A end \in DOMAIN Ends, i, j \in 1 .. a.head :
       HeaderHas(a, Ends[end], i, j) => a.end = end /\ j = a.head
  /\ a.end # "none" => \E i \in 1 .. a.head : HeaderHas(a, Ends[a.end], i, a.head)
  /\ a.text[a.head] \in Blank

SizeOf(chunk) == Value(chunk.digits)
DataAt(chunk) == chunk.at + Len(chunk.digits) + 2
ChunkEnd(chunk) == DataAt(chunk) + SizeOf(chunk) + 2

\* The digits, a CRLF, the data, a CRLF.
IsChunk(a, chunk) ==
  LET Byte(i) == a.text[a.head + i]
      CRLFAt(i) == Byte(i + 1) = CR /\ Byte(i + 2) = LF
  IN  /\ chunk.digits # <<>> /\ SizeOf(chunk) \in Nat
      /\ a.head + ChunkEnd(chunk) <= Len(a.text)
      /\ \A k \in DOMAIN chunk.digits : Byte(chunk.at + k) = chunk.digits[k]
      /\ CRLFAt(chunk.at + Len(chunk.digits))
      /\ \A i \in DataAt(chunk) + 1 .. DataAt(chunk) + SizeOf(chunk) : Byte(i) = "d"
      /\ CRLFAt(DataAt(chunk) + SizeOf(chunk))

\* One chunk behind the other; the last one, and no other, is empty.
IsBody(a) ==
  /\ a.chunks \in Seq([at : Nat, digits : Seq(Hex)])
  /\ IF a.chunks = <<>>
       THEN a.head = Len(a.text)
       ELSE a.end = "crlf" /\ a.chunks[1].at = 0
  /\ \A i \in DOMAIN a.chunks :
       /\ IsChunk(a, a.chunks[i])
       /\ IF i = Len(a.chunks)
            THEN SizeOf(a.chunks[i]) = 0 /\ a.head + ChunkEnd(a.chunks[i]) = Len(a.text)
            ELSE SizeOf(a.chunks[i]) > 0 /\ a.chunks[i + 1].at = ChunkEnd(a.chunks[i])

\* A look ahead is shorter than an unsigned int can count, and so is an answer
\* (of 4 GB).
ASSUME HttpReaderAssumption ==
  /\ {Requests, MAXRECV, MAXHTTPHEADERLENGTH, MAXCHUNKHEADER, MAXDIGITS, MAXCHUNK, UINT}
       \subseteq Nat \ {0}
  /\ Answers # {}
  /\ \A a \in Answers : a.text \in Seq(Values) /\ IsHeader(a) /\ IsBody(a)
  /\ MAXRECV < UINT /\ \A a \in Answers : Len(a.text) + 1 < UINT

VARIABLES
  asked,     \* how many answers were asked for
  answer,    \* the last of them
  stream,    \* the bytes of all of them
  supply,    \* the bytes of the stream that will come
  closed,    \* the connection ends with them, instead of falling silent
  taken,     \* bytes that recv() has returned
  buf,       \* RecvBuf
  eaten,     \* history: the bytes that left RecvBuf, in order
  pc,        \* where the reader is
  temp,      \* tempheader, Temp
  read,      \* read
  received,  \* received
  poscount,  \* poscount
  length,    \* the RecvLength() under way: how many bytes, and what then
  csize,     \* csize
  header,    \* headerT
  body,      \* history: the body parts returned for the current answer
  split,     \* history: a piece ended inside what the reader looks for
  failed     \* why the reader gave up: "", "stalled", "closed", "refused"

locals == <<temp, read, received, poscount, csize>>
server == <<asked, answer, stream, supply, closed>>
vars == <<server, taken, buf, eaten, pc, locals, length, header, body,
          split, failed>>

(***************************************************************************)
(* The server's stream.                                                    *)
(***************************************************************************)

Sent == Len(stream)
AnswerAt == Sent - Len(answer.text)                \* bytes before the answer
HeaderAt == AnswerAt + answer.lead
BodyAt == AnswerAt + answer.head

Bytes(a, b) == [i \in 1 .. b - a |-> a + i]        \* positions a + 1 .. b
Text(s) == [i \in DOMAIN s |-> stream[s[i]]]

\* string::find(): counted from 0, npos when there is none.
npos == -1
find(s, pattern) ==
  LET at == {i \in 0 .. Len(s) - Len(pattern) :
               \A k \in DOMAIN pattern : stream[s[i + k]] = pattern[k]}
  IN  IF at = {} THEN npos ELSE Min(at)
find_first_not_of(s, values) ==
  LET at == {i \in 0 .. Len(s) - 1 : stream[s[i + 1]] \notin values}
  IN  IF at = {} THEN npos ELSE Min(at)

From(s, i) == SubSeq(s, i + 1, Len(s))
Upto(s, i) == SubSeq(s, 1, i)

\* A piece that ends behind byte i cuts what a look ahead needs whole: the
\* empty line before its last byte, a size line with its CRLF, or the CRLF
\* behind a chunk.
Cuts(i) ==
  /\ i < Sent
  /\ \/ i = BodyAt - 1 /\ answer.end = "crlf"
     \/ i > BodyAt /\ stream[i] \in Hex
     \/ i > BodyAt /\ stream[i] = CR

(***************************************************************************)
(* Recv() without deleting: what is in RecvBuf again, or else a piece from *)
(* the socket.  Either way the piece is what RecvBuf has afterwards.       *)
(***************************************************************************)

Pieces ==
  IF buf # <<>> THEN {buf}
  ELSE {Bytes(taken, b) : b \in taken + 1 .. Min({taken + MAXRECV, supply})}

Recv(piece) ==
  /\ piece \in Pieces
  /\ taken' = Last(piece)
  /\ split' = (split \/ Cuts(Last(piece)))

GiveUp(why) == failed' = why /\ pc' = "failed" /\ UNCHANGED length
GoTo(place) == pc' = place /\ UNCHANGED <<length, failed>>
TakeLength(n, then) ==
  pc' = "length" /\ length' = [bytes |-> n, then |-> then] /\ UNCHANGED failed

\* A negative number given to `unsigned int sock_lengthT`.
Unsigned(n) == n % UINT

(***************************************************************************)
(* ReadHeader().                                                           *)
(***************************************************************************)

SkipBlanks(piece) ==
  /\ pc = "skip" /\ Recv(piece)
  /\ received' = received + Len(piece)
  /\ LET position == find_first_not_of(piece, Blank)
     IN  \/ /\ position # npos
            /\ eaten' = eaten \o Upto(piece, position)
            /\ buf' = From(piece, position)
            /\ temp' = From(piece, position)
            /\ read' = Len(piece) - position
            /\ GoTo("header")
         \/ /\ position = npos /\ received' > MAXHTTPHEADERLENGTH
            /\ buf' = piece /\ GiveUp("refused")
            /\ UNCHANGED <<eaten, temp, read>>
         \/ /\ position = npos /\ received' <= MAXHTTPHEADERLENGTH
            /\ eaten' = eaten \o piece /\ buf' = <<>> /\ GoTo("skip")
            /\ UNCHANGED <<temp, read>>
  /\ UNCHANGED <<server, poscount, csize, header, body>>

EmptyLine == find(temp, Ends.crlf)
BareEmptyLine == find(temp, Ends.lf)

\* The empty line is not there yet: what was seen goes to headerT.
KeepHeader ==
  /\ pc = "header" /\ EmptyLine = npos /\ BareEmptyLine = npos
  /\ header' = header \o Upto(buf, read)
  /\ eaten' = eaten \o Upto(buf, read)
  /\ buf' = From(buf, read)
  /\ poscount' = poscount + read
  /\ received' = received + read
  /\ IF received' > MAXHTTPHEADERLENGTH THEN GiveUp("refused") ELSE GoTo("more")
  /\ UNCHANGED <<server, taken, temp, read, csize, body, split>>

MoreHeader(piece) ==
  /\ pc = "more" /\ Recv(piece)
  /\ temp' = temp \o piece /\ read' = Len(piece) /\ buf' = piece
  /\ GoTo("header")
  /\ UNCHANGED <<server, eaten, received, poscount, csize, header, body>>

\* Mutant: the last CRLF is counted twice.
EndHeaderWhole ==
  /\ pc = "header" /\ EmptyLine # npos
  /\ TakeLength(Unsigned(EmptyLine - poscount + 4), "header")
  /\ UNCHANGED <<server, taken, buf, eaten, locals, header, body, split>>

\* `position - poscount + 2` is unsigned.
EndHeader ==
  /\ pc = "header" /\ EmptyLine # npos
  /\ TakeLength(Unsigned(EmptyLine - poscount + 2), "header")
  /\ UNCHANGED <<server, taken, buf, eaten, locals, header, body, split>>

EndBareHeader ==
  /\ pc = "header" /\ EmptyLine = npos /\ BareEmptyLine # npos
  /\ TakeLength(Unsigned(BareEmptyLine - poscount + 2), "bareheader")
  /\ UNCHANGED <<server, taken, buf, eaten, locals, header, body, split>>

\* The locals of the next ReadBodyPart().
NextChunk == temp' = <<>> /\ received' = 0

\* recv() returned 0.  "Did not receive last empty line?"
ClosedHeader ==
  /\ pc = "more" /\ Pieces = {} /\ closed
  /\ stream[Last(header)] \in Blank
  /\ \E place \in {"answered"} \cup (IF answer.chunks = <<>> THEN {} ELSE {"chunk"}) :
       GoTo(place)                    \* the lines that came may tell of chunks
  /\ NextChunk
  /\ UNCHANGED <<server, taken, buf, eaten, read, poscount, csize, header, body, split>>

\* Mutant: the end of the connection is not taken for an error.
NoPieceAgain ==
  /\ pc \in {"skip", "more", "chunk"} /\ Pieces = {}
  /\ UNCHANGED vars

\* Nothing comes: `read < 1`.
NoPiece ==
  /\ pc \in {"skip", "more", "chunk"} /\ Pieces = {}
  /\ ~ (pc = "more" /\ closed /\ stream[Last(header)] \in Blank)
  /\ GiveUp(IF supply < Sent THEN "stalled" ELSE "starved")
  /\ UNCHANGED <<server, taken, buf, eaten, locals, header, body, split>>

(***************************************************************************)
(* ReadBodyPart() with Chunked: one chunk.                                 *)
(***************************************************************************)

\* `skipped`: where a CRLF may be that is only skipped; `ahead`: what is taken
\* with a size line behind its digits and extensions.
SizeLineWith(piece, skipped, ahead) ==
  /\ pc = "chunk" /\ Recv(piece)
  /\ LET seen == temp \o piece
         position == find(seen, <<CR, LF>>)
         hpos == find_first_not_of(seen, Hex)
     IN  \/ /\ position = npos                          \* look again
            /\ temp' = seen /\ received' = received + Len(piece)
            /\ buf' = piece
            /\ IF received' > MAXCHUNKHEADER THEN GiveUp("refused") ELSE GoTo("chunk")
            /\ UNCHANGED <<eaten, csize>>
         \/ /\ position \in skipped                     \* the CRLF behind a chunk
            /\ eaten' = eaten \o Upto(piece, 2) /\ buf' = From(piece, 2)
            /\ temp' = <<>> /\ GoTo("chunk")
            /\ UNCHANGED <<received, csize>>
         \/ /\ position \notin skipped \cup {npos}
            /\ hpos \notin 1 .. MAXDIGITS
            /\ buf' = piece /\ GiveUp("refused")
            /\ UNCHANGED <<eaten, temp, received, csize>>
         \/ /\ position \notin skipped \cup {npos}
            /\ hpos \in 1 .. MAXDIGITS
            /\ csize' = Value(Text(Upto(seen, hpos)))
            /\ buf' = piece /\ TakeLength(position + ahead, "size")
            /\ UNCHANGED <<eaten, temp, received>>
  /\ UNCHANGED <<server, read, poscount, header, body>>

\* Mutant: the CRLF behind a chunk is not skipped.
SizeLineNoSkip(piece) == SizeLineWith(piece, {}, 2)

\* Mutant: the CRLF of the size line is left in the buffer.
SizeLineShort(piece) == SizeLineWith(piece, {0}, 0)

SizeLine(piece) == SizeLineWith(piece, {0}, 2)

(***************************************************************************)
(* RecvLength() and what its callers do with the result.                   *)
(***************************************************************************)

Then(got) ==
  CASE length.then = "header" ->
         /\ header' = header \o got /\ TakeLength(2, "emptyline")
         /\ UNCHANGED <<body, locals>>
    [] length.then = "bareheader" ->
         /\ header' = header \o got /\ GoTo("answered")
         /\ UNCHANGED <<body, locals>>
    [] length.then = "emptyline" ->
         /\ GoTo(IF answer.chunks = <<>> THEN "answered" ELSE "chunk")
         /\ NextChunk /\ UNCHANGED <<header, body, read, poscount, csize>>
    [] length.then = "size" ->
         /\ \/ csize = 0 /\ GoTo("answered")
            \/ csize \in 1 .. MAXCHUNK /\ TakeLength(csize, "data")
            \/ csize \notin 0 .. MAXCHUNK /\ GiveUp("refused")
         /\ UNCHANGED <<header, body, locals>>
    [] length.then = "data" ->
         /\ body' = body \o got /\ GoTo("chunk")
         /\ NextChunk /\ UNCHANGED <<header, read, poscount, csize>>

RecvLength ==
  /\ pc = "length" /\ length.bytes <= Len(buf)
  /\ eaten' = eaten \o Upto(buf, length.bytes)
  /\ buf' = From(buf, length.bytes)
  /\ Then(Upto(buf, length.bytes))
  /\ UNCHANGED <<server, taken, split>>

\* Mutant: the rest of the last piece is dropped.
RecvLengthDropsRest(b) ==
  /\ pc = "length" /\ length.bytes > Len(buf)
  /\ LET all == buf \o Bytes(taken, b)
     IN  /\ Len(all) >= length.bytes
         /\ Len(all) - length.bytes < MAXRECV
         /\ eaten' = eaten \o Upto(all, length.bytes)
         /\ buf' = <<>>
         /\ Then(Upto(all, length.bytes))
  /\ taken' = b
  /\ split' = (split \/ Cuts(b))
  /\ UNCHANGED <<server>>

\* The buffer and what comes behind it; the rest of the last piece stays.
RecvLengthMore(b) ==
  /\ pc = "length" /\ length.bytes > Len(buf)
  /\ LET all == buf \o Bytes(taken, b)
     IN  /\ Len(all) >= length.bytes
         /\ Len(all) - length.bytes < MAXRECV
         /\ eaten' = eaten \o Upto(all, length.bytes)
         /\ buf' = From(all, length.bytes)
         /\ Then(Upto(all, length.bytes))
  /\ taken' = b
  /\ split' = (split \/ Cuts(b))
  /\ UNCHANGED <<server>>

\* Too little comes: all of it is gone.
RecvLengthFails ==
  /\ pc = "length" /\ length.bytes > Len(buf) + supply - taken
  /\ eaten' = eaten \o buf \o Bytes(taken, supply)
  /\ buf' = <<>> /\ taken' = supply
  /\ GiveUp(IF supply < Sent THEN "stalled" ELSE "starved")
  /\ UNCHANGED <<server, locals, header, body, split>>

(***************************************************************************)
(* The connection.                                                         *)
(***************************************************************************)

Ask(a, bytes, closes) ==
  /\ pc = "answered" /\ ~ closed /\ supply = Sent
  /\ asked < Requests /\ (a.end = "none" => closes)
  /\ asked' = asked + 1 /\ answer' = a
  /\ stream' = stream \o a.text
  /\ supply' = supply + bytes
  /\ closed' = closes
  /\ pc' = "skip"
  /\ read' = 0 /\ received' = 0 /\ poscount' = 0
  /\ header' = <<>> /\ body' = <<>> /\ split' = FALSE
  /\ UNCHANGED <<taken, buf, eaten, temp, csize, length, failed>>

Init ==
  /\ asked = 0 /\ answer = (CHOOSE a \in Answers : TRUE) /\ stream = <<>>
  /\ supply = 0 /\ closed = FALSE
  /\ taken = 0 /\ buf = <<>> /\ eaten = <<>>
  /\ pc = "answered"
  /\ temp = <<>> /\ read = 0 /\ received = 0 /\ poscount = 0 /\ csize = 0
  /\ length = [bytes |-> 0, then |-> "header"]
  /\ header = <<>> /\ body = <<>>
  /\ split = FALSE /\ failed = ""

Reader ==
  \/ \E piece \in Pieces : SkipBlanks(piece) \/ MoreHeader(piece) \/ SizeLine(piece)
  \/ KeepHeader \/ EndHeader \/ EndBareHeader \/ ClosedHeader \/ NoPiece
  \/ RecvLength \/ RecvLengthFails
  \/ \E b \in taken + 1 .. supply : RecvLengthMore(b)

Next ==
  \/ Reader
  \/ \E a \in Answers, closes \in BOOLEAN :
       \E bytes \in 0 .. Len(a.text) : Ask(a, bytes, closes)

Spec == Init /\ [][Next]_vars

\* The reader goes on by itself: recv() waits RECVTIMEOUT seconds at most.
FairSpec == Spec /\ WF_vars(Reader)

(***************************************************************************)
(* Properties.                                                             *)
(***************************************************************************)

\* Types, and the bounds that the two limits put on what is looked at.
TypeOK ==
  /\ asked \in 0 .. Requests /\ answer \in Answers
  /\ taken \in 0 .. supply /\ supply <= Sent
  /\ closed \in BOOLEAN /\ split \in BOOLEAN
  /\ pc \in {"answered", "skip", "header", "more", "chunk", "length", "failed"}
  /\ failed \in {"", "stalled", "starved", "refused"}
  /\ Len(buf) <= MAXRECV
  /\ pc = "more" => received <= MAXHTTPHEADERLENGTH
  /\ pc = "chunk" => received <= MAXCHUNKHEADER

\* What leaves RecvBuf (sockethandler.cpp:348-477) and what is still in it are
\* the bytes that recv() returned, each once and in order, whatever the pieces
\* and wherever a RecvLength() had to wait.
InOrder == eaten \o buf = Bytes(0, taken)

HeaderBytes ==
  Bytes(HeaderAt, IF answer.end = "crlf" THEN BodyAt - 2 ELSE BodyAt)

\* When ReadHeader() returns true, headerT is the header of the answer asked for:
\* without the blanks before it, which may be the CRLF that the chunk reader left
\* behind, and without a byte of the body.  If the server closes the connection
\* early, whole lines of a header count as a header (httphandler.cpp:87-94).
HeaderExact ==
  asked # 0 /\ pc \in {"chunk", "answered"} =>
    \/ header = HeaderBytes
    \/ closed /\ supply < BodyAt /\ IsPrefix(header, Bytes(HeaderAt, BodyAt))
         /\ stream[Last(header)] \in Blank

DataBytes(upto) == {i \in BodyAt + 1 .. upto : stream[i] = "d"}

\* The parts that ReadBodyPart() returns are the chunks' data, in order and without
\* a gap, and nothing of their framing; and it says that the body is over only
\* after the last chunk.
BodyExact ==
  asked # 0 =>
    /\ \A i, j \in DOMAIN body : i < j => body[i] < body[j]
    /\ \E upto \in BodyAt .. Sent : Range(body) = DataBytes(upto)
    /\ pc = "answered" /\ supply = Sent => Range(body) = DataBytes(Sent)

\* `received' counts the first piece of a header twice (httphandler.cpp:27, 76), and
\* the CRLF behind the last chunk of the answer before.
Refusable ==
  \/ answer.head + 2 + MAXRECV > MAXHTTPHEADERLENGTH
  \/ \E i \in DOMAIN answer.chunks :
       Len(answer.chunks[i].digits) > MAXDIGITS \/ SizeOf(answer.chunks[i]) > MAXCHUNK

\* An answer that came in full is given up only because it is larger than the
\* limits, or because a piece ended inside what the readers look for: then
\* `position - poscount + 2` is below zero (httphandler.cpp:99), or the chunk
\* reader looks at the same bytes until it has counted more than 256
\* (httphandler.cpp:226, 264).
FailsOnlySplit == failed \in {"starved", "refused"} => split \/ Refusable

\* Each reader returns in the end, with an answer or without one: the look ahead
\* that cannot make progress is ended by its count.
ReaderEnds == pc \notin {"answered", "failed"} ~> pc \in {"answered", "failed"}

=============================================================================
