-------------------------- MODULE HttpReader_proofs --------------------------
(***************************************************************************)
(* A socket's buffer and its two readers, for every length of piece, every *)
(* limit and every set of answers: what leaves RecvBuf is what came in,    *)
(* the headers and bodies returned are those that were sent, and the       *)
(* reasons to give up are the known ones.                                  *)
(*                                                                         *)
(* First the buffer alone (BufferInv).  Then the place of the reader in    *)
(* the answer (Inv, Placed): after the skip the reader is in the header,   *)
(* after the header it is at a chunk, at a chunk's data, or behind them    *)
(* all; one lemma for each way a step ends, and the theorems last.         *)
(***************************************************************************)
EXTENDS HttpReader, SequenceTheorems, WellFoundedInduction, TLAPS

(***************************************************************************)
(* Numbers.                                                                *)
(***************************************************************************)

\* A set of numbers has a least member.
LEMMA LeastNat ==
  ASSUME NEW T \in SUBSET Nat, T # {}
  PROVE  \E m \in T : \A n \in T : m <= n
<1>1. PICK m \in T : \A n \in T : ~ (<<n, m>> \in OpToRel(<, Nat))
  BY WFMin, NatLessThanWellFounded
<1>2. ASSUME NEW n \in T PROVE m <= n
  <2>1. n \in Nat /\ m \in Nat
    OBVIOUS
  <2>2. ~ (n < m)
    BY <1>1, <2>1 DEF OpToRel
  <2>3. QED  BY <2>1, <2>2
<1>3. QED  BY <1>2

\* What Min() chooses.
LEMMA MinIsIn ==
  ASSUME NEW T \in SUBSET Nat, T # {}
  PROVE  Min(T) \in T /\ \A n \in T : Min(T) <= n
BY LeastNat DEF Min

\* find() and find_first_not_of() return a place in the string, or npos.
LEMMA FindsPlace ==
  ASSUME NEW s, NEW pattern, Len(s) \in Nat, Len(pattern) \in Nat
  PROVE  find(s, pattern) = npos
           \/ find(s, pattern) \in 0 .. Len(s) - Len(pattern)
<1> DEFINE at == {i \in 0 .. Len(s) - Len(pattern) :
                    \A k \in DOMAIN pattern : stream[s[i + k]] = pattern[k]}
<1>1. at \in SUBSET Nat
  OBVIOUS
<1>2. CASE at = {}
  BY <1>2 DEF find
<1>3. CASE at # {}
  <2>1. Min(at) \in at
    BY <1>1, <1>3, MinIsIn
  <2>2. find(s, pattern) = Min(at)
    BY <1>3 DEF find
  <2>3. QED  BY <2>1, <2>2
<1>4. QED  BY <1>2, <1>3

LEMMA FindsOther ==
  ASSUME NEW s, NEW values, Len(s) \in Nat
  PROVE  find_first_not_of(s, values) = npos
           \/ find_first_not_of(s, values) \in 0 .. Len(s) - 1
<1> DEFINE at == {i \in 0 .. Len(s) - 1 : stream[s[i + 1]] \notin values}
<1>1. at \in SUBSET Nat
  OBVIOUS
<1>2. CASE at = {}
  BY <1>2 DEF find_first_not_of
<1>3. CASE at # {}
  <2>1. Min(at) \in at
    BY <1>1, <1>3, MinIsIn
  <2>2. find_first_not_of(s, values) = Min(at)
    BY <1>3 DEF find_first_not_of
  <2>3. QED  BY <2>1, <2>2
<1>4. QED  BY <1>2, <1>3

(***************************************************************************)
(* Runs of bytes.                                                          *)
(***************************************************************************)

LEMMA Join ==
  ASSUME NEW a \in Nat, NEW b \in Nat, NEW c \in Nat, a <= b, b <= c
  PROVE  Bytes(a, b) \o Bytes(b, c) = Bytes(a, c)
BY DEF Bytes

LEMMA Cut ==
  ASSUME NEW a \in Nat, NEW c \in Nat, NEW n \in Nat, n <= c - a
  PROVE  /\ Upto(Bytes(a, c), n) = Bytes(a, a + n)
         /\ From(Bytes(a, c), n) = Bytes(a + n, c)
BY DEF Bytes, Upto, From

LEMMA Ends0 ==
  ASSUME NEW a \in Nat, NEW b \in Nat, a <= b
  PROVE  /\ Bytes(a, b) \in Seq(Nat)
         /\ Len(Bytes(a, b)) = b - a
         /\ Bytes(a, b) = <<>> <=> a = b
         /\ a < b => Last(Bytes(a, b)) = b
BY DEF Bytes, Last

(***************************************************************************)
(* The invariant: the buffer is what was received and is not eaten yet, a  *)
(* header's last piece is all of it, and what the chunk reader has looked  *)
(* at in vain begins with the byte that the buffer begins with.  Without   *)
(* that a CRLF could be skipped of which only one byte is in the buffer.   *)
(***************************************************************************)

SplitAt(n) == n <= taken /\ eaten = Bytes(0, n) /\ buf = Bytes(n, taken)

StartsCRLF(s) == Len(s) >= 2 /\ stream[s[1]] = CR /\ stream[s[2]] = LF

Callers == {"header", "bareheader", "emptyline", "size", "data"}

BufferInv ==
  /\ taken \in Nat /\ supply \in Nat /\ taken <= supply
  /\ \E n \in Nat : SplitAt(n)
  /\ length.bytes \in Nat /\ length.then \in Callers
  /\ poscount \in Nat /\ temp \in Seq(Nat)
  /\ pc = "header" => read = Len(buf)
  /\ pc = "chunk" /\ temp # <<>> => buf # <<>> /\ temp[1] = buf[1] /\ ~ StartsCRLF(temp)

LEMMA CRLFFound ==
  ASSUME NEW s \in Seq(Nat)
  PROVE  /\ find(s, <<CR, LF>>) = npos => ~ StartsCRLF(s)
         /\ find(s, <<CR, LF>>) = 0 => StartsCRLF(s)
<1> DEFINE at == {i \in 0 .. Len(s) - Len(<<CR, LF>>) :
                    \A k \in DOMAIN <<CR, LF>> : stream[s[i + k]] = <<CR, LF>>[k]}
<1>1. at \in SUBSET Nat
  OBVIOUS
<1>2. 0 \in at <=> StartsCRLF(s)
  BY DEF StartsCRLF
<1>3. find(s, <<CR, LF>>) = IF at = {} THEN npos ELSE Min(at)
  BY DEF find
<1>4. at # {} => Min(at) \in at
  BY <1>1, MinIsIn
<1> HIDE DEF at
<1>5. QED  BY <1>1, <1>2, <1>3, <1>4 DEF npos

\* A piece begins where the buffer begins, and there is one only if bytes came.
LEMMA PieceIs ==
  ASSUME BufferInv, NEW n \in Nat, SplitAt(n), NEW piece \in Pieces
  PROVE  /\ Last(piece) \in Nat /\ n <= Last(piece) /\ n # Last(piece)
         /\ taken <= Last(piece) /\ Last(piece) <= supply
         /\ piece = Bytes(n, Last(piece))
         /\ buf # <<>> => piece = buf
<1>1. CASE buf # <<>>
  <2>1. piece = buf /\ n # taken
    BY <1>1, Ends0 DEF Pieces, SplitAt, BufferInv
  <2>2. Last(piece) = taken
    BY <2>1, Ends0 DEF SplitAt, BufferInv
  <2>3. QED  BY <2>1, <2>2 DEF SplitAt, BufferInv
<1>2. CASE buf = <<>>
  <2>1. n = taken
    BY <1>2, Ends0 DEF SplitAt, BufferInv
  <2>2. PICK b \in taken + 1 .. Min({taken + MAXRECV, supply}) : piece = Bytes(taken, b)
    BY <1>2 DEF Pieces
  <2>3. Min({taken + MAXRECV, supply}) \in Nat /\ Min({taken + MAXRECV, supply}) <= supply
    <3>1. taken + MAXRECV \in Nat /\ supply \in Nat
      <4>1. MAXRECV \in Nat
        BY HttpReaderAssumption
      <4>2. taken \in Nat /\ supply \in Nat
        BY DEF BufferInv
      <4>3. QED  BY <4>1, <4>2
    <3>2. {taken + MAXRECV, supply} \in SUBSET Nat /\ {taken + MAXRECV, supply} # {}
      BY <3>1
    <3>3. QED  BY <3>1, <3>2, MinIsIn
  <2>4. b \in Nat /\ taken < b /\ b <= supply
    BY <2>2, <2>3 DEF BufferInv
  <2>5. Last(piece) = b
    BY <2>2, <2>4, Ends0 DEF BufferInv
  <2>6. QED  BY <1>2, <2>1, <2>2, <2>4, <2>5 DEF BufferInv
<1>3. QED  BY <1>1, <1>2

\* Taking k bytes of a run that begins where the eaten bytes end.
LEMMA Take ==
  ASSUME NEW n \in Nat, NEW c \in Nat, NEW k \in Nat, n + k <= c, eaten = Bytes(0, n),
         eaten' = eaten \o Upto(Bytes(n, c), k), buf' = From(Bytes(n, c), k),
         taken' = c
  PROVE  n + k \in Nat /\ SplitAt(n + k)' /\ Len(buf') = c - (n + k)
<1>1. n + k \in Nat /\ 0 \in Nat /\ 0 <= n /\ n <= n + k /\ k <= c - n
  OBVIOUS
<1>2. Upto(Bytes(n, c), k) = Bytes(n, n + k) /\ From(Bytes(n, c), k) = Bytes(n + k, c)
  BY <1>1, Cut
<1>3. Bytes(0, n) \o Bytes(n, n + k) = Bytes(0, n + k)
  BY <1>1, Join
<1>4. eaten' = Bytes(0, n + k) /\ buf' = Bytes(n + k, c)
  BY <1>2, <1>3
<1>5. Len(Bytes(n + k, c)) = c - (n + k)
  BY <1>1, Ends0
<1>6. QED  BY <1>1, <1>4, <1>5 DEF SplitAt

\* Taking nothing: only the end of the run may change.
LEMMA Leave ==
  ASSUME NEW n \in Nat, NEW c \in Nat, n <= c, eaten = Bytes(0, n),
         eaten' = eaten, buf' = Bytes(n, c), taken' = c
  PROVE  SplitAt(n)'
BY DEF SplitAt

LEMMA InitBuffer == Init => BufferInv
<1> SUFFICES ASSUME Init PROVE BufferInv
  OBVIOUS
<1>1. Bytes(0, 0) = <<>>
  BY Ends0
<1>2. taken = 0 /\ supply = 0 /\ eaten = <<>> /\ buf = <<>>
  BY DEF Init
<1>3. length.bytes = 0 /\ length.then = "header" /\ poscount = 0 /\ temp = <<>> /\ pc = "answered"
  BY DEF Init
<1>4. SplitAt(0)
  BY <1>1, <1>2 DEF SplitAt
<1>5. QED  BY <1>2, <1>3, <1>4 DEF BufferInv, Callers

LEMMA StepSkip ==
  ASSUME BufferInv, NEW piece \in Pieces, SkipBlanks(piece)
  PROVE  BufferInv'
<1>1. PICK n \in Nat : SplitAt(n)
  BY DEF BufferInv
<1>2. PICK c \in Nat : /\ c = Last(piece) /\ n <= c /\ n # c /\ taken <= c /\ c <= supply
                       /\ piece = Bytes(n, c)
  BY <1>1, PieceIs
<1> DEFINE position == find_first_not_of(piece, Blank)
<1>3. Len(piece) = c - n /\ piece \in Seq(Nat)
  BY <1>1, <1>2, Ends0
<1>4. position = npos \/ position \in 0 .. c - n - 1
  BY <1>3, FindsOther DEF BufferInv
<1>5. taken' = c /\ supply' = supply
  BY <1>2 DEF SkipBlanks, Recv, server
<1> HIDE DEF position
<1>6. CASE position # npos
  <2>1. /\ eaten' = eaten \o Upto(piece, position)
        /\ buf' = From(piece, position) /\ temp' = From(piece, position)
        /\ read' = Len(piece) - position /\ pc' = "header"
        /\ length' = length /\ poscount' = poscount
    BY <1>6 DEF SkipBlanks, position, GoTo
  <2>2. PICK k \in Nat : k = position /\ n + k <= c
    BY <1>2, <1>4, <1>6
  <2>3. eaten = Bytes(0, n)
    BY <1>1 DEF SplitAt
  <2>4. n + k \in Nat /\ SplitAt(n + k)' /\ Len(buf') = c - (n + k)
    <3>1. /\ eaten' = eaten \o Upto(Bytes(n, c), k) /\ buf' = From(Bytes(n, c), k)
          /\ taken' = c
      BY <1>2, <1>5, <2>1, <2>2
    <3>2. n \in Nat /\ c \in Nat
      BY <1>1, <1>2
    <3>3. QED  BY <2>2, <2>3, <3>1, <3>2, Take
  <2>5. read' = Len(buf')
    BY <1>3, <2>1, <2>2, <2>4
  <2>6. buf' \in Seq(Nat)
    BY <1>3, <2>1, <2>2 DEF From
  <2>7. QED  BY <1>2, <1>5, <2>1, <2>4, <2>5, <2>6 DEF BufferInv
<1>7. CASE position = npos /\ pc' = "failed"
  <2>1. buf' = piece /\ eaten' = eaten /\ temp' = temp
          /\ length' = length /\ poscount' = poscount
    BY <1>7 DEF SkipBlanks, position, GiveUp, GoTo, npos
  <2>2. SplitAt(n)'
    BY <1>1, <1>2, <1>5, <2>1, Leave DEF SplitAt
  <2>3. QED  BY <1>2, <1>5, <1>7, <2>1, <2>2 DEF BufferInv
<1>8. CASE position = npos /\ pc' = "skip"
  <2>1. buf' = <<>> /\ eaten' = eaten \o piece /\ temp' = temp
          /\ length' = length /\ poscount' = poscount
    BY <1>8 DEF SkipBlanks, position, GoTo, GiveUp, npos
  <2>2. eaten' = Bytes(0, c) /\ buf' = Bytes(c, c)
    <3>1. eaten = Bytes(0, n)
      BY <1>1 DEF SplitAt
    <3>2. n \in Nat /\ n <= c /\ 0 \in Nat /\ 0 <= n
      BY <1>1, <1>2
    <3>3. Bytes(0, n) \o Bytes(n, c) = Bytes(0, c)
      BY <1>2, <3>2, Join
    <3>4. Bytes(c, c) = <<>>
      BY <1>2, Ends0
    <3>5. QED  BY <1>2, <2>1, <3>1, <3>3, <3>4
  <2>3. SplitAt(c)'
    <3>1. c <= c
      BY <1>2
    <3>2. QED  BY <1>5, <2>2, <3>1 DEF SplitAt
  <2>4. QED  BY <1>2, <1>5, <1>8, <2>1, <2>3 DEF BufferInv
<1>9. QED  BY <1>6, <1>7, <1>8 DEF SkipBlanks, position, GoTo, GiveUp

\* Steps that leave the buffer alone.
LEMMA BufferKept ==
  ASSUME BufferInv, buf' = buf, eaten' = eaten, taken' = taken,
         supply' \in Nat, supply <= supply',
         length'.bytes \in Nat, length'.then \in Callers,
         poscount' \in Nat, temp' \in Seq(Nat),
         pc' # "header", pc' = "chunk" => temp' = <<>>
  PROVE  BufferInv'
<1>1. PICK n \in Nat : SplitAt(n)
  BY DEF BufferInv
<1>2. SplitAt(n)'
  BY <1>1 DEF SplitAt
<1>3. taken' <= supply'
  BY DEF BufferInv
<1>4. QED  BY <1>2, <1>3 DEF BufferInv

LEMMA Unsigneds ==
  ASSUME NEW x \in Int
  PROVE  Unsigned(x) \in Nat
BY HttpReaderAssumption DEF Unsigned

LEMMA StepHeaderEnds ==
  ASSUME BufferInv, EndHeader \/ EndBareHeader
  PROVE  BufferInv'
<1>1. Len(temp) \in Nat /\ Len(Ends.crlf) = 4 /\ Len(Ends.lf) = 2
  BY DEF BufferInv, Ends
<1>2. EmptyLine \in Int /\ BareEmptyLine \in Int
  BY <1>1, FindsPlace DEF EmptyLine, BareEmptyLine, npos
<1>3. Unsigned(EmptyLine - poscount + 2) \in Nat /\ Unsigned(BareEmptyLine - poscount + 2) \in Nat
  <2>1. EmptyLine - poscount + 2 \in Int /\ BareEmptyLine - poscount + 2 \in Int
    BY <1>2 DEF BufferInv
  <2>2. QED  BY <2>1, Unsigneds
<1>4. /\ buf' = buf /\ eaten' = eaten /\ taken' = taken /\ supply' = supply
      /\ temp' = temp /\ poscount' = poscount /\ pc' = "length"
  BY DEF EndHeader, EndBareHeader, TakeLength, server, locals
<1>5. length'.bytes \in Nat /\ length'.then \in Callers
  BY <1>3 DEF EndHeader, EndBareHeader, TakeLength, Callers
<1>6. QED  BY <1>4, <1>5, BufferKept DEF BufferInv

LEMMA StepNothing ==
  ASSUME BufferInv, ClosedHeader \/ NoPiece \/ UNCHANGED vars
  PROVE  BufferInv'
<1>1. CASE ClosedHeader
  <2>1. /\ buf' = buf /\ eaten' = eaten /\ taken' = taken /\ supply' = supply
        /\ temp' = <<>> /\ poscount' = poscount /\ pc' # "header" /\ length' = length
    BY <1>1 DEF ClosedHeader, GoTo, NextChunk, server
  <2>2. QED  BY <2>1, BufferKept DEF BufferInv
<1>2. CASE NoPiece
  <2>1. /\ buf' = buf /\ eaten' = eaten /\ taken' = taken /\ supply' = supply
        /\ temp' = temp /\ poscount' = poscount /\ pc' = "failed" /\ length' = length
    BY <1>2 DEF NoPiece, GiveUp, locals, server
  <2>2. QED  BY <2>1, BufferKept DEF BufferInv
<1>3. CASE UNCHANGED vars
  BY <1>3 DEF vars, locals, server, BufferInv, SplitAt, StartsCRLF
<1>4. QED  BY <1>1, <1>2, <1>3

LEMMA StepAsk ==
  ASSUME BufferInv, NEW a \in Answers, NEW bytes \in 0 .. Len(a.text),
         NEW closes \in BOOLEAN, Ask(a, bytes, closes)
  PROVE  BufferInv'
<1>1. /\ buf' = buf /\ eaten' = eaten /\ taken' = taken /\ supply' = supply + bytes
      /\ temp' = temp /\ poscount' = 0 /\ pc' = "skip" /\ length' = length
  BY DEF Ask
<1>2. bytes \in Nat
  BY HttpReaderAssumption
<1>3. QED  BY <1>1, <1>2, BufferKept DEF BufferInv

LEMMA StepKeep ==
  ASSUME BufferInv, KeepHeader
  PROVE  BufferInv'
<1>1. PICK n \in Nat : SplitAt(n)
  BY DEF BufferInv
<1>2. /\ eaten' = eaten \o Upto(buf, read) /\ buf' = From(buf, read)
      /\ taken' = taken /\ supply' = supply /\ temp' = temp
      /\ poscount' = poscount + read /\ length' = length
      /\ pc' \in {"failed", "more"} /\ read = Len(buf)
  BY DEF KeepHeader, GiveUp, GoTo, server, BufferInv
<1>3. n <= taken /\ eaten = Bytes(0, n) /\ buf = Bytes(n, taken)
  BY <1>1 DEF SplitAt
<1>4. taken \in Nat
  BY DEF BufferInv
<1>5. PICK k \in Nat : k = read /\ n + k <= taken
  <2>1. Len(Bytes(n, taken)) = taken - n
    BY <1>1, <1>3, <1>4, Ends0
  <2>2. QED  BY <1>1, <1>2, <1>3, <1>4, <2>1
<1>6. n + k \in Nat /\ SplitAt(n + k)'
  <2>1. /\ eaten' = eaten \o Upto(Bytes(n, taken), k)
        /\ buf' = From(Bytes(n, taken), k)
    BY <1>2, <1>3, <1>5
  <2>2. PICK c \in Nat : c = taken
    BY <1>4
  <2>3. QED  BY <1>1, <1>2, <1>3, <1>5, <2>1, <2>2, Take
<1>7. \E m \in Nat : SplitAt(m)'
  BY <1>6
<1>8. poscount' \in Nat
  BY <1>2, <1>5 DEF BufferInv
<1>9. QED  BY <1>2, <1>7, <1>8 DEF BufferInv

LEMMA StepMore ==
  ASSUME BufferInv, NEW piece \in Pieces, MoreHeader(piece)
  PROVE  BufferInv'
<1>1. PICK n \in Nat : SplitAt(n)
  BY DEF BufferInv
<1>2. PICK c \in Nat : /\ c = Last(piece) /\ n <= c /\ n # c /\ taken <= c /\ c <= supply
                       /\ piece = Bytes(n, c)
  BY <1>1, PieceIs
<1>3. /\ eaten' = eaten /\ buf' = piece /\ taken' = c /\ supply' = supply
      /\ temp' = temp \o piece /\ read' = Len(piece) /\ pc' = "header"
      /\ poscount' = poscount /\ length' = length
  BY <1>2 DEF MoreHeader, Recv, GoTo, server
<1>4. eaten = Bytes(0, n)
  BY <1>1 DEF SplitAt
<1>5. SplitAt(n)'
  BY <1>1, <1>2, <1>3, <1>4, Leave
<1>6. piece \in Seq(Nat)
  BY <1>1, <1>2, Ends0
<1>7. \E m \in Nat : SplitAt(m)'
  BY <1>5
<1>8. read' = Len(buf') /\ temp' \in Seq(Nat)
  BY <1>3, <1>6 DEF BufferInv
<1>9. taken' \in Nat /\ supply' \in Nat /\ taken' <= supply'
  BY <1>2, <1>3 DEF BufferInv
<1>10. QED  BY <1>3, <1>7, <1>8, <1>9 DEF BufferInv

LEMMA SomeBytes ==
  ASSUME NEW s \in Seq(Nat)
  PROVE  Len(s) \in Nat /\ (s # <<>> <=> Len(s) >= 1)
OBVIOUS

LEMMA FirstThen ==
  ASSUME NEW s \in Seq(Nat), NEW u \in Seq(Nat), Len(s) = 1, Len(u) >= 1
  PROVE  (s \o u)[2] = u[1]
<1>1. 2 \in 1 .. Len(s) + Len(u)
  BY LenProperties
<1>2. (s \o u)[2] = IF 2 <= Len(s) THEN s[2] ELSE u[2 - Len(s)]
  BY <1>1, ConcatProperties
<1>3. ~ (2 <= Len(s)) /\ 2 - Len(s) = 1
  OBVIOUS
<1>4. QED  BY <1>2, <1>3

LEMMA Between ==
  ASSUME NEW n \in Nat, NEW c \in Nat, n <= c, n # c
  PROVE  c - n >= 1
OBVIOUS

\* What a look at the size line leaves, wherever it ends.
LEMMA StepSizeLine ==
  ASSUME BufferInv, NEW piece \in Pieces, SizeLine(piece)
  PROVE  BufferInv'
<1>1. PICK n \in Nat : SplitAt(n)
  BY DEF BufferInv
<1>2. PICK c \in Nat : /\ c = Last(piece) /\ n <= c /\ n # c /\ taken <= c /\ c <= supply
                       /\ piece = Bytes(n, c) /\ (buf # <<>> => piece = buf)
  BY <1>1, PieceIs
<1> DEFINE seen == temp \o piece
           position == find(seen, <<CR, LF>>)
           hpos == find_first_not_of(seen, Hex)
<1>3. /\ taken' = c /\ supply' = supply /\ stream' = stream /\ poscount' = poscount
      /\ pc = "chunk"
  BY <1>2 DEF SizeLine, SizeLineWith, Recv, server
<1>4. /\ piece \in Seq(Nat) /\ Len(piece) = c - n /\ Len(piece) >= 1 /\ piece # <<>>
      /\ seen \in Seq(Nat)
  <2>1. piece \in Seq(Nat) /\ Len(piece) = c - n
    BY <1>1, <1>2, Ends0
  <2>2. Len(piece) >= 1
    BY <1>1, <1>2, <2>1, Between
  <2>3. temp \in Seq(Nat)
    BY DEF BufferInv
  <2>4. QED  BY <2>1, <2>2, <2>3
<1>5. eaten = Bytes(0, n)
  BY <1>1 DEF SplitAt
<1>6. taken' \in Nat /\ supply' \in Nat /\ taken' <= supply'
  BY <1>2, <1>3 DEF BufferInv
<1>7. position = npos \/ position \in Nat
  <2>1. Len(seen) \in Nat /\ Len(<<CR, LF>>) = 2
    BY <1>4
  <2> HIDE DEF seen
  <2>2. QED  BY <2>1, FindsPlace
<1>8. /\ position = npos => ~ StartsCRLF(seen)
      /\ position = 0 => StartsCRLF(seen)
  BY <1>4, CRLFFound
<1> HIDE DEF seen, position, hpos
<1>9. ASSUME position = npos
      PROVE  BufferInv'
  <2>1. /\ temp' = seen /\ buf' = piece /\ eaten' = eaten /\ length' = length
        /\ pc' \in {"failed", "chunk"}
    BY <1>9 DEF SizeLine, SizeLineWith, GiveUp, GoTo, seen, position, npos
  <2>2. SplitAt(n)'
    BY <1>1, <1>2, <1>3, <1>5, <2>1, Leave
  <2>3. temp'[1] = buf'[1]
    <3>1. CASE temp = <<>>
      BY <1>4, <2>1, <3>1 DEF seen
    <3>2. CASE temp # <<>>
      <4>1. temp[1] = buf[1] /\ piece = buf /\ temp \in Seq(Nat)
        BY <1>2, <1>3, <3>2 DEF BufferInv
      <4>2. seen[1] = temp[1]
        BY <1>4, <3>2, <4>1 DEF seen
      <4>3. QED  BY <2>1, <4>1, <4>2
    <3>3. QED  BY <3>1, <3>2
  <2>4. ~ StartsCRLF(temp)'
    BY <1>3, <1>8, <1>9, <2>1 DEF StartsCRLF
  <2>5. length'.bytes \in Nat /\ length'.then \in Callers /\ poscount' \in Nat
    BY <1>3, <2>1 DEF BufferInv
  <2>6. temp' \in Seq(Nat) /\ buf' # <<>> /\ pc' # "header"
    BY <1>4, <2>1
  <2>7. QED  BY <1>6, <2>2, <2>3, <2>4, <2>5, <2>6 DEF BufferInv
<1>10. ASSUME position = 0
       PROVE  BufferInv'
  <2>1. /\ temp' = <<>> /\ buf' = From(piece, 2) /\ eaten' = eaten \o Upto(piece, 2)
        /\ length' = length /\ pc' = "chunk"
    BY <1>10 DEF SizeLine, SizeLineWith, GoTo, seen, position, npos
  <2>2. temp = <<>>
    <3>1. SUFFICES ASSUME temp # <<>> PROVE FALSE
      OBVIOUS
    <3>2. /\ temp[1] = buf[1] /\ piece = buf /\ temp \in Seq(Nat) /\ ~ StartsCRLF(temp)
      BY <1>2, <1>3, <3>1 DEF BufferInv
    <3>3. Len(seen) >= 2 /\ stream[seen[1]] = CR /\ stream[seen[2]] = LF
      BY <1>8, <1>10 DEF StartsCRLF
    <3>4. seen[1] = temp[1]
      BY <1>4, <3>1, <3>2 DEF seen
    <3>5. CASE Len(temp) >= 2
      <4>1. seen[2] = temp[2]
        BY <1>4, <3>2, <3>5 DEF seen
      <4>2. QED  BY <3>2, <3>3, <3>4, <3>5, <4>1 DEF StartsCRLF
    <3>6. CASE Len(temp) < 2
      <4>1. Len(temp) = 1
        <5>1. Len(temp) \in Nat /\ Len(temp) >= 1
          BY <3>1, <3>2, SomeBytes
        <5>2. PICK k \in Nat : k = Len(temp)
          BY <5>1
        <5>3. k < 2 /\ k >= 1
          BY <3>6, <5>1, <5>2
        <5>4. k = 1
          BY <5>3
        <5>5. QED  BY <5>2, <5>4
      <4>2. seen[2] = piece[1]
        BY <1>4, <3>2, <4>1, FirstThen DEF seen
      <4>3. CR = LF
        BY <3>2, <3>3, <3>4, <4>2
      <4>4. QED  BY <4>3 DEF CR, LF
    <3>7. Len(temp) \in Nat
      BY <3>2, SomeBytes
    <3>8. QED  BY <3>5, <3>6, <3>7
  <2>3. seen = piece
    BY <1>4, <2>2 DEF seen
  <2>4. 2 <= c - n
    BY <1>4, <1>8, <1>10, <2>3 DEF StartsCRLF
  <2>5. n + 2 \in Nat /\ SplitAt(n + 2)'
    <3>1. 2 \in Nat /\ n + 2 <= c
      BY <1>1, <1>2, <2>4
    <3>2. /\ eaten' = eaten \o Upto(Bytes(n, c), 2) /\ buf' = From(Bytes(n, c), 2)
      BY <1>2, <2>1
    <3>3. QED  BY <1>1, <1>2, <1>3, <1>5, <3>1, <3>2, Take
  <2>6. length'.bytes \in Nat /\ length'.then \in Callers /\ poscount' \in Nat
    BY <1>3, <2>1 DEF BufferInv
  <2>7. QED  BY <1>6, <2>1, <2>5, <2>6 DEF BufferInv
<1>11. ASSUME position # npos, position # 0
       PROVE  BufferInv'
  <2>1. /\ temp' = temp /\ buf' = piece /\ eaten' = eaten
        /\ \/ pc' = "failed" /\ length' = length
           \/ pc' = "length" /\ length' = [bytes |-> position + 2, then |-> "size"]
    BY <1>11 DEF SizeLine, SizeLineWith, GiveUp, TakeLength, seen, position, npos
  <2>2. SplitAt(n)'
    BY <1>1, <1>2, <1>3, <1>5, <2>1, Leave
  <2>3. length'.bytes \in Nat /\ length'.then \in Callers
    BY <1>7, <1>11, <2>1 DEF BufferInv, Callers
  <2>4. poscount' \in Nat /\ temp' \in Seq(Nat) /\ pc' # "header" /\ pc' # "chunk"
    BY <1>3, <2>1 DEF BufferInv
  <2>5. QED  BY <1>6, <2>2, <2>3, <2>4 DEF BufferInv
<1>12. QED  BY <1>9, <1>10, <1>11

\* What the callers do with a result keeps all but the split.
LEMMA ThenKeeps ==
  ASSUME BufferInv, NEW got, Then(got)
  PROVE  /\ length'.bytes \in Nat /\ length'.then \in Callers
         /\ poscount' \in Nat /\ temp' \in Seq(Nat)
         /\ pc' # "header" /\ (pc' = "chunk" => temp' = <<>>)
<1>1. /\ length.bytes \in Nat /\ length.then \in Callers
      /\ poscount \in Nat /\ temp \in Seq(Nat)
  BY DEF BufferInv
<1>2. CASE length.then = "header"
  BY <1>1, <1>2 DEF Then, TakeLength, locals, Callers
<1>3. CASE length.then = "bareheader"
  BY <1>1, <1>3 DEF Then, GoTo, locals
<1>4. CASE length.then = "emptyline"
  BY <1>1, <1>4 DEF Then, GoTo, NextChunk
<1>5. CASE length.then = "size"
  <2>1. csize \in 1 .. MAXCHUNK => csize \in Nat
    BY HttpReaderAssumption
  <2>2. QED  BY <1>1, <1>5, <2>1 DEF Then, GoTo, GiveUp, TakeLength, locals, Callers
<1>6. CASE length.then = "data"
  BY <1>1, <1>6 DEF Then, GoTo, NextChunk
<1>7. QED  BY <1>1, <1>2, <1>3, <1>4, <1>5, <1>6 DEF Callers

LEMMA StepRecvLength ==
  ASSUME BufferInv, RecvLength
  PROVE  BufferInv'
<1>1. PICK n \in Nat : SplitAt(n)
  BY DEF BufferInv
<1>2. PICK k \in Nat : k = length.bytes
  BY DEF BufferInv
<1>3. PICK c \in Nat : c = taken
  BY DEF BufferInv
<1>4. n <= c /\ eaten = Bytes(0, n) /\ buf = Bytes(n, c)
  BY <1>1, <1>3 DEF SplitAt
<1>5. Len(buf) = c - n
  BY <1>1, <1>4, Ends0
<1>6. /\ k <= Len(buf) /\ Then(Upto(buf, length.bytes))
      /\ eaten' = eaten \o Upto(Bytes(n, c), k) /\ buf' = From(Bytes(n, c), k)
      /\ taken' = c /\ supply' = supply
  BY <1>2, <1>3, <1>4 DEF RecvLength, server
<1>7. n + k \in Nat /\ SplitAt(n + k)'
  <2>1. n + k <= c
    BY <1>1, <1>2, <1>3, <1>5, <1>6
  <2>2. QED  BY <1>1, <1>2, <1>3, <1>4, <1>6, <2>1, Take
<1>8. taken' \in Nat /\ supply' \in Nat /\ taken' <= supply'
  BY <1>3, <1>6 DEF BufferInv
<1>9. QED  BY <1>6, <1>7, <1>8, ThenKeeps DEF BufferInv

LEMMA StepRecvLengthMore ==
  ASSUME BufferInv, NEW b \in taken + 1 .. supply, RecvLengthMore(b)
  PROVE  BufferInv'
<1>1. PICK n \in Nat : SplitAt(n)
  BY DEF BufferInv
<1>2. PICK k \in Nat : k = length.bytes
  BY DEF BufferInv
<1>3. PICK c \in Nat : c = b /\ taken <= c /\ c <= supply
  BY DEF BufferInv
<1>4. n <= taken /\ taken \in Nat /\ eaten = Bytes(0, n) /\ buf = Bytes(n, taken)
  BY <1>1 DEF SplitAt, BufferInv
<1>5. n <= c /\ buf \o Bytes(taken, b) = Bytes(n, c) /\ Len(Bytes(n, c)) = c - n
  <2>1. n <= c
    BY <1>1, <1>3, <1>4
  <2>2. Bytes(n, taken) \o Bytes(taken, c) = Bytes(n, c)
    BY <1>1, <1>3, <1>4, Join
  <2>3. QED  BY <1>1, <1>3, <1>4, <2>1, <2>2, Ends0
<1>6. /\ k <= Len(Bytes(n, c)) /\ Then(Upto(buf \o Bytes(taken, b), length.bytes))
      /\ eaten' = eaten \o Upto(Bytes(n, c), k) /\ buf' = From(Bytes(n, c), k)
      /\ taken' = c /\ supply' = supply
  BY <1>2, <1>3, <1>5 DEF RecvLengthMore, server
<1>7. n + k \in Nat /\ SplitAt(n + k)'
  <2>1. n + k <= c
    BY <1>1, <1>2, <1>3, <1>5, <1>6
  <2>2. QED  BY <1>1, <1>2, <1>3, <1>4, <1>6, <2>1, Take
<1>8. taken' \in Nat /\ supply' \in Nat /\ taken' <= supply'
  BY <1>3, <1>6 DEF BufferInv
<1>9. QED  BY <1>6, <1>7, <1>8, ThenKeeps DEF BufferInv

LEMMA StepRecvLengthFails ==
  ASSUME BufferInv, RecvLengthFails
  PROVE  BufferInv'
<1>1. PICK n \in Nat : SplitAt(n)
  BY DEF BufferInv
<1>2. PICK c \in Nat : c = supply /\ taken <= c
  BY DEF BufferInv
<1>3. n <= taken /\ taken \in Nat /\ eaten = Bytes(0, n) /\ buf = Bytes(n, taken)
  BY <1>1 DEF SplitAt, BufferInv
<1>4. Bytes(0, n) \o Bytes(n, taken) = Bytes(0, taken)
  <2>1. 0 \in Nat /\ 0 <= n
    BY <1>1
  <2>2. QED  BY <1>1, <1>3, <2>1, Join
<1>5. Bytes(0, taken) \o Bytes(taken, c) = Bytes(0, c)
  <2>1. 0 \in Nat /\ 0 <= taken
    BY <1>3
  <2>2. QED  BY <1>2, <1>3, <2>1, Join
<1>6. Bytes(c, c) = <<>>
  BY <1>2, Ends0
<1>7. /\ eaten' = Bytes(0, c) /\ buf' = Bytes(c, c) /\ taken' = c /\ supply' = c
      /\ pc' = "failed" /\ length' = length /\ temp' = temp /\ poscount' = poscount
  BY <1>2, <1>3, <1>4, <1>5, <1>6 DEF RecvLengthFails, GiveUp, server, locals
<1>8. c <= c
  BY <1>2
<1>9. SplitAt(c)'
  BY <1>7, <1>8 DEF SplitAt
<1>10. QED  BY <1>2, <1>7, <1>8, <1>9 DEF BufferInv

LEMMA StepBuffer == BufferInv /\ [Next]_vars => BufferInv'
<1> SUFFICES ASSUME BufferInv, [Next]_vars PROVE BufferInv'
  OBVIOUS
<1>1. CASE \E piece \in Pieces : SkipBlanks(piece) \/ MoreHeader(piece) \/ SizeLine(piece)
  BY <1>1, StepSkip, StepMore, StepSizeLine
<1>2. CASE KeepHeader
  BY <1>2, StepKeep
<1>3. CASE EndHeader \/ EndBareHeader
  BY <1>3, StepHeaderEnds
<1>4. CASE ClosedHeader \/ NoPiece \/ UNCHANGED vars
  BY <1>4, StepNothing
<1>5. CASE RecvLength
  BY <1>5, StepRecvLength
<1>6. CASE RecvLengthFails
  BY <1>6, StepRecvLengthFails
<1>7. CASE \E b \in taken + 1 .. supply : RecvLengthMore(b)
  BY <1>7, StepRecvLengthMore
<1>8. CASE \E a \in Answers, closes \in BOOLEAN :
             \E bytes \in 0 .. Len(a.text) : Ask(a, bytes, closes)
  BY <1>8, StepAsk
<1>9. QED  BY <1>1, <1>2, <1>3, <1>4, <1>5, <1>6, <1>7, <1>8 DEF Next, Reader

\* Recv() and RecvLength() between them (sockethandler.cpp:348-477) deliver every
\* byte once and in order, for all answers, lengths of pieces and limits.
THEOREM EachByteOnce == Spec => []InOrder
<1>1. BufferInv => InOrder
  <2> SUFFICES ASSUME BufferInv PROVE InOrder
    OBVIOUS
  <2>1. PICK n \in Nat : SplitAt(n)
    BY DEF BufferInv
  <2>2. n <= taken /\ taken \in Nat /\ eaten = Bytes(0, n) /\ buf = Bytes(n, taken)
    BY <2>1 DEF SplitAt, BufferInv
  <2>3. 0 \in Nat /\ 0 <= n
    BY <2>1
  <2>4. Bytes(0, n) \o Bytes(n, taken) = Bytes(0, taken)
    BY <2>1, <2>2, <2>3, Join
  <2>5. QED  BY <2>2, <2>4 DEF InOrder
<1>2. QED  BY <1>1, InitBuffer, StepBuffer, PTL DEF Spec

(***************************************************************************)
(* Where the reader is in the answer.                                      *)
(***************************************************************************)

Eaten == Len(eaten)

\* The answer is the end of the stream.
StreamInv ==
  /\ asked \in 0 .. Requests /\ answer \in Answers /\ closed \in BOOLEAN /\ split \in BOOLEAN
  /\ stream \in Seq(Values) /\ supply <= Sent
  /\ asked = 0 => pc = "answered" /\ Sent = 0 /\ ~closed
  /\ asked # 0 =>
       /\ AnswerAt \in Nat
       /\ \A i \in 1 .. Len(answer.text) : stream[AnswerAt + i] = answer.text[i]
       /\ answer.end = "none" => closed

\* The limits of what is looked at, and the places where a reader gives up.
LimitInv ==
  /\ pc \in {"answered", "skip", "header", "more", "chunk", "length", "failed"}
  /\ failed \in {"", "stalled", "starved", "refused"}
  /\ pc # "failed" => failed = ""
  /\ received \in Nat /\ csize \in Nat /\ Len(buf) <= MAXRECV
  /\ pc = "more" => received <= MAXHTTPHEADERLENGTH
  /\ pc = "chunk" => received <= MAXCHUNKHEADER

Blanks(s, a, b) == \A i \in a + 1 .. b : s[i] \in Blank

\* Before the header: nothing but blanks, what the answer before has left of
\* them among them.
SkipInv ==
  /\ Eaten <= HeaderAt /\ Blanks(stream, Eaten, HeaderAt)
  /\ received - 2 <= Eaten - AnswerAt
  /\ header = <<>> /\ poscount = 0
  /\ buf = <<>> \/ taken <= AnswerAt

\* In the header: it is in headerT as far as it is eaten, and in tempheader as
\* far as it has come.
HeaderInv ==
  /\ poscount \in Nat /\ Eaten = HeaderAt + poscount
  /\ header = Bytes(HeaderAt, Eaten)
  /\ temp = Bytes(HeaderAt, taken) /\ HeaderAt < taken
  /\ answer.end # "none" => Eaten < BodyAt
  /\ answer.end = "crlf" /\ BodyAt - 1 \in {Eaten, taken} => split
  /\ received <= answer.lead + 2 + MAXRECV + poscount
  /\ pc = "more" => buf = <<>>

\* Taking the end of the header: as many bytes as it has, or, if it was cut,
\* more than there are.
HeaderEndInv ==
  /\ answer.end = "crlf" /\ HeaderAt <= Eaten /\ header = Bytes(HeaderAt, Eaten)
  /\ \/ Eaten <= BodyAt - 2 /\ length.bytes = BodyAt - 2 - Eaten
     \/ split /\ length.bytes > supply - Eaten

BareHeaderEndInv ==
  /\ answer.end = "lf" /\ HeaderAt <= Eaten /\ header = Bytes(HeaderAt, Eaten)
  /\ Eaten <= BodyAt /\ length.bytes = BodyAt - Eaten

EmptyLineInv ==
  /\ answer.end = "crlf" /\ header = HeaderBytes
  /\ Eaten = BodyAt - 2 /\ length.bytes = 2

\* The connection ended before the header did.
CutOff ==
  /\ closed /\ supply < BodyAt /\ taken = supply /\ buf = <<>>
  /\ IsPrefix(header, Bytes(HeaderAt, BodyAt)) /\ stream[Last(header)] \in Blank

Chunk(i) == answer.chunks[i]

\* Between chunks: at a size line, or at the CRLF before it.
BetweenChunks ==
  \E i \in DOMAIN answer.chunks :
    \/ Eaten = BodyAt + Chunk(i).at
    \/ i # Len(answer.chunks) /\ Eaten = BodyAt + ChunkEnd(Chunk(i)) - 2

NoCRLF(t, s) == \A k \in 1 .. Len(t) - 1 : ~ (s[t[k]] = CR /\ s[t[k + 1]] = LF)

\* The chunk reader looks at a piece that ends too early, again and again.
Stuck ==
  /\ split /\ NoCRLF(temp, stream)
  /\ buf # <<>> /\ NoCRLF(buf, stream) /\ stream[buf[1]] # LF

ChunkInv ==
  \/ CutOff /\ temp = <<>>
  \/ BetweenChunks /\ header = HeaderBytes /\ (temp # <<>> => Stuck)

SizeInv ==
  /\ header = HeaderBytes
  /\ \E i \in DOMAIN answer.chunks :
       /\ Eaten = BodyAt + Chunk(i).at /\ csize = SizeOf(Chunk(i))
       /\ length.bytes = Len(Chunk(i).digits) + 2

DataInv ==
  /\ header = HeaderBytes
  /\ \E i \in DOMAIN answer.chunks :
       /\ i # Len(answer.chunks) /\ Eaten = BodyAt + DataAt(Chunk(i))
       /\ csize = SizeOf(Chunk(i)) /\ length.bytes = csize

\* Nothing but a CRLF is left, unless the connection is over.
AnsweredInv ==
  /\ ~ closed => Sent - 2 <= Eaten /\ Eaten <= Sent /\ Blanks(stream, Eaten, Sent)
  /\ asked # 0 => CutOff \/ header = HeaderBytes

PlaceInv ==
  /\ pc = "answered" => AnsweredInv
  /\ pc = "skip" => SkipInv
  /\ pc \in {"header", "more"} => HeaderInv
  /\ pc = "chunk" => ChunkInv
  /\ pc = "length" => CASE length.then = "header" -> HeaderEndInv
                        [] length.then = "bareheader" -> BareHeaderEndInv
                        [] length.then = "emptyline" -> EmptyLineInv
                        [] length.then = "size" -> SizeInv
                        [] length.then = "data" -> DataInv

\* The numbers b are those of the data in s behind byte `from' and up to `upto'.
IsData(b, s, from, upto) ==
  /\ \A i, j \in DOMAIN b : i < j => b[i] < b[j]
  /\ Range(b) = {i \in from + 1 .. upto : s[i] = "d"}

InBody == pc = "chunk" \/ (pc = "length" /\ length.then \in {"size", "data"})

BodyInv ==
  /\ body \in Seq(Nat)
  /\ asked # 0 =>
       /\ pc \notin {"answered", "failed"} /\ ~ InBody => IsData(body, stream, BodyAt, BodyAt)
       /\ InBody => IsData(body, stream, BodyAt, IF CutOff THEN BodyAt ELSE Eaten)
       /\ pc = "answered" => IsData(body, stream, BodyAt, IF CutOff THEN BodyAt ELSE Sent)
       /\ pc = "failed" => \E upto \in BodyAt .. Sent : IsData(body, stream, BodyAt, upto)

Inv == BufferInv /\ StreamInv /\ LimitInv /\ PlaceInv /\ BodyInv /\ FailsOnlySplit

(***************************************************************************)
(* What the strings' operators find in a run of the stream.                *)
(***************************************************************************)

\* The pattern stands behind byte i.
PatternAt(pattern, i) == \A k \in DOMAIN pattern : stream[i + k] = pattern[k]

LEMMA FindIn ==
  ASSUME NEW a \in Nat, NEW c \in Nat, a <= c, NEW m \in Nat,
         NEW pattern, DOMAIN pattern = 1 .. m, Len(pattern) = m
  PROVE  /\ find(Bytes(a, c), pattern) = npos =>
              \A i \in Nat : a <= i /\ i + m <= c => ~ PatternAt(pattern, i)
         /\ find(Bytes(a, c), pattern) # npos =>
              \E p \in Nat : /\ p = find(Bytes(a, c), pattern) /\ a + p + m <= c
                             /\ PatternAt(pattern, a + p)
                             /\ \A i \in Nat : a <= i /\ i < a + p => ~ PatternAt(pattern, i)
<1> DEFINE s == Bytes(a, c)
           at == {i \in 0 .. Len(s) - Len(pattern) :
                    \A k \in DOMAIN pattern : stream[s[i + k]] = pattern[k]}
<1>1. Len(s) = c - a /\ \A i \in 1 .. c - a : s[i] = a + i
  BY DEF Bytes
<1>2. find(s, pattern) = IF at = {} THEN npos ELSE Min(at)
  BY DEF find
<1>3. ASSUME NEW i \in Nat
      PROVE  i \in at <=> a + i + m <= c /\ PatternAt(pattern, a + i)
  <2>1. i \in 0 .. Len(s) - Len(pattern) <=> a + i + m <= c
    BY <1>1
  <2>2. ASSUME a + i + m <= c, NEW k \in DOMAIN pattern
        PROVE  s[i + k] = a + i + k
    <3>1. i + k \in 1 .. c - a
      BY <2>2
    <3>2. s[i + k] = a + (i + k)
      BY <1>1, <3>1
    <3>3. QED  BY <3>2
  <2> HIDE DEF s
  <2>3. QED  BY <2>1, <2>2 DEF PatternAt
<1>4. at \in SUBSET Nat
  OBVIOUS
<1>5. at # {} => Min(at) \in at /\ \A n \in at : Min(at) <= n
  BY <1>4, MinIsIn
<1> HIDE DEF at, s
<1>6. ASSUME at = {}, NEW i \in Nat, a <= i, i + m <= c
      PROVE  ~ PatternAt(pattern, i)
  <2>1. PICK j \in Nat : j = i - a
    BY <1>6
  <2>2. a + j = i /\ a + j + m <= c
    BY <1>6, <2>1
  <2>3. j \notin at
    BY <1>6
  <2>4. QED  BY <1>3, <2>2, <2>3
<1>7. ASSUME at # {}
      PROVE  /\ Min(at) \in Nat /\ Min(at) # npos /\ a + Min(at) + m <= c
             /\ PatternAt(pattern, a + Min(at))
             /\ \A i \in Nat : a <= i /\ i < a + Min(at) => ~ PatternAt(pattern, i)
  <2>1. PICK p \in Nat : p = Min(at)
    BY <1>4, <1>5, <1>7
  <2>2. p \in at /\ \A n \in at : p <= n
    BY <1>5, <1>7, <2>1
  <2>3. a + p + m <= c /\ PatternAt(pattern, a + p)
    BY <1>3, <2>2
  <2>4. ASSUME NEW i \in Nat, a <= i, i < a + p
        PROVE  ~ PatternAt(pattern, i)
    <3>1. PICK j \in Nat : j = i - a
      BY <2>4
    <3>2. a + j = i /\ a + j + m <= c /\ ~ (p <= j)
      BY <2>3, <2>4, <3>1
    <3>3. j \notin at
      BY <2>2, <3>2
    <3>4. QED  BY <1>3, <3>2, <3>3
  <2>5. p # npos
    BY DEF npos
  <2>6. QED  BY <2>1, <2>3, <2>4, <2>5
<1>8. npos \notin Nat
  BY DEF npos
<1>9. QED  BY <1>2, <1>6, <1>7, <1>8 DEF s

LEMMA FindOtherIn ==
  ASSUME NEW a \in Nat, NEW c \in Nat, a <= c, NEW values
  PROVE  /\ find_first_not_of(Bytes(a, c), values) = npos =>
              \A i \in a + 1 .. c : stream[i] \in values
         /\ find_first_not_of(Bytes(a, c), values) # npos =>
              \E p \in Nat : /\ p = find_first_not_of(Bytes(a, c), values) /\ a + p < c
                             /\ stream[a + p + 1] \notin values
                             /\ \A i \in a + 1 .. a + p : stream[i] \in values
<1> DEFINE s == Bytes(a, c)
           at == {i \in 0 .. Len(s) - 1 : stream[s[i + 1]] \notin values}
<1>1. Len(s) = c - a /\ \A i \in 1 .. c - a : s[i] = a + i
  BY DEF Bytes
<1>2. find_first_not_of(s, values) = IF at = {} THEN npos ELSE Min(at)
  BY DEF find_first_not_of
<1>3. ASSUME NEW i \in a + 1 .. c
      PROVE  i - a - 1 \in at <=> stream[i] \notin values
  <2>1. i - a - 1 \in 0 .. Len(s) - 1 /\ i - a \in 1 .. c - a
    BY <1>1
  <2>2. s[i - a - 1 + 1] = i
    <3>1. s[i - a] = a + (i - a)
      BY <1>1, <2>1
    <3>2. i - a - 1 + 1 = i - a /\ a + (i - a) = i
      OBVIOUS
    <3>3. QED  BY <3>1, <3>2
  <2> HIDE DEF s
  <2>3. QED  BY <2>1, <2>2
<1>4. at \in SUBSET Nat /\ \A i \in at : a + i + 1 \in a + 1 .. c
  BY <1>1
<1>5. at # {} => Min(at) \in at /\ \A n \in at : Min(at) <= n
  BY <1>4, MinIsIn
<1> HIDE DEF at, s
<1>6. ASSUME at = {}, NEW i \in a + 1 .. c
      PROVE  stream[i] \in values
  BY <1>3, <1>6
<1>7. ASSUME at # {}
      PROVE  \E p \in Nat : /\ p = Min(at) /\ p # npos /\ a + p < c
                            /\ stream[a + p + 1] \notin values
                            /\ \A i \in a + 1 .. a + p : stream[i] \in values
  <2>1. PICK p \in Nat : p = Min(at)
    BY <1>4, <1>5, <1>7
  <2>2. p \in at /\ \A n \in at : p <= n
    BY <1>5, <1>7, <2>1
  <2>3. a + p + 1 \in a + 1 .. c /\ a + p + 1 - a - 1 = p
    BY <1>4, <2>2
  <2>4. stream[a + p + 1] \notin values
    BY <1>3, <2>2, <2>3
  <2>5. ASSUME NEW i \in a + 1 .. a + p
        PROVE  stream[i] \in values
    <3>1. i \in a + 1 .. c /\ ~ (p <= i - a - 1)
      BY <2>3
    <3>2. i - a - 1 \notin at
      BY <2>2, <3>1
    <3>3. QED  BY <1>3, <3>1, <3>2
  <2>6. p # npos /\ a + p < c
    BY <2>3 DEF npos
  <2>7. QED  BY <2>1, <2>4, <2>5, <2>6
<1>8. npos \notin Nat
  BY DEF npos
<1>9. QED  BY <1>2, <1>6, <1>7, <1>8 DEF s

(***************************************************************************)
(* Where the reader and the answer are.                                    *)
(***************************************************************************)

LEMMA Here ==
  ASSUME BufferInv
  PROVE  /\ Eaten \in Nat /\ taken \in Nat /\ supply \in Nat
         /\ Eaten <= taken /\ taken <= supply
         /\ eaten = Bytes(0, Eaten) /\ buf = Bytes(Eaten, taken)
         /\ Len(buf) = taken - Eaten /\ (buf = <<>> <=> Eaten = taken)
<1>1. PICK n \in Nat : SplitAt(n)
  BY DEF BufferInv
<1>2. n <= taken /\ taken \in Nat /\ eaten = Bytes(0, n) /\ buf = Bytes(n, taken)
  BY <1>1 DEF SplitAt, BufferInv
<1>3. Len(Bytes(0, n)) = n
  <2>1. 0 \in Nat /\ 0 <= n /\ n - 0 = n
    OBVIOUS
  <2>2. QED  BY <2>1, Ends0
<1>4. Eaten = n
  BY <1>2, <1>3 DEF Eaten
<1>5. QED  BY <1>2, <1>4, Ends0 DEF BufferInv

LEMMA HereSplit ==
  ASSUME BufferInv
  PROVE  SplitAt(Eaten)
BY Here DEF SplitAt

LEMMA Kinds ==
  /\ CR # LF /\ CR \notin Hex /\ LF \notin Hex /\ "d" \notin Blank \cup Hex
  /\ Blank = {CR, LF} /\ Blank \cap Hex = {}
BY DEF CR, LF, Hex, Blank, DigitValue

LEMMA Patterns ==
  /\ DOMAIN Ends.crlf = 1 .. 4 /\ Len(Ends.crlf) = 4
  /\ DOMAIN Ends.lf = 1 .. 2 /\ Len(Ends.lf) = 2
  /\ DOMAIN <<CR, LF>> = 1 .. 2 /\ Len(<<CR, LF>>) = 2
  /\ DOMAIN Ends = {"crlf", "lf"}
BY DEF Ends

\* The places of the answer: A, H, B and S bytes of the stream are before it,
\* before its header, before its body, and there.
LEMMA Places ==
  ASSUME BufferInv, StreamInv, asked # 0
  PROVE  \E A, H, B, S \in Nat :
           /\ A = AnswerAt /\ H = HeaderAt /\ B = BodyAt /\ S = Sent
           /\ A <= H /\ H < B /\ B <= S /\ supply <= S
           /\ answer.lead = H - A /\ answer.head = B - A /\ Len(answer.text) = S - A
           /\ UINT \in Nat /\ S - A + 1 < UINT
<1>1. answer \in Answers
  BY DEF StreamInv
<1>2. answer.text \in Seq(Values) /\ IsHeader(answer) /\ Len(answer.text) + 1 < UINT
      /\ UINT \in Nat
  BY <1>1, HttpReaderAssumption
<1>3. PICK L \in Nat : L = Len(answer.text)
  BY <1>2
<1>4. PICK lead \in Nat, head \in Nat : /\ lead = answer.lead /\ head = answer.head
                                        /\ lead < head /\ head <= L
  BY <1>2, <1>3 DEF IsHeader
<1>5. PICK S \in Nat : S = Sent
  BY DEF StreamInv, Sent
<1>6. PICK A \in Nat : A = AnswerAt
  BY DEF StreamInv
<1>7. A = S - L
  BY <1>3, <1>5, <1>6 DEF AnswerAt
<1>8. PICK H \in Nat, B \in Nat : H = A + lead /\ B = A + head
  BY <1>4, <1>6
<1>9. H = HeaderAt /\ B = BodyAt
  BY <1>4, <1>6, <1>8 DEF HeaderAt, BodyAt
<1>10. supply <= S /\ L + 1 < UINT
  BY <1>2, <1>3, <1>5 DEF StreamInv
<1>11. /\ A <= H /\ H < B /\ B <= S /\ lead = H - A /\ head = B - A /\ L = S - A
  BY <1>4, <1>7, <1>8
<1>12. S - A + 1 < UINT
  BY <1>10, <1>11
<1>13. /\ answer.lead = H - A /\ answer.head = B - A /\ Len(answer.text) = S - A
  BY <1>3, <1>4, <1>11
<1>14. QED  BY <1>2, <1>5, <1>6, <1>9, <1>10, <1>11, <1>12, <1>13

LEMMA AnswerByte ==
  ASSUME BufferInv, StreamInv, asked # 0, NEW i \in 1 .. Len(answer.text)
  PROVE  stream[AnswerAt + i] = answer.text[i]
BY DEF StreamInv

\* An end of a header is found where the answer's header ends, and only there.
LEMMA HeaderEnds ==
  ASSUME BufferInv, StreamInv, asked # 0, NEW end \in DOMAIN Ends, NEW m \in Nat,
         DOMAIN Ends[end] = 1 .. m, Len(Ends[end]) = m, m >= 1,
         NEW i \in Nat, HeaderAt <= i, i + m <= BodyAt, PatternAt(Ends[end], i)
  PROVE  answer.end = end /\ i + m = BodyAt
<1>1. answer \in Answers /\ IsHeader(answer)
  BY HttpReaderAssumption DEF StreamInv
<1>2. PICK A \in Nat, H \in Nat, B \in Nat, S \in Nat :
        /\ A = AnswerAt /\ H = HeaderAt /\ B = BodyAt /\ S = Sent
        /\ A <= H /\ H < B /\ B <= S
        /\ answer.lead = H - A /\ answer.head = B - A /\ Len(answer.text) = S - A
  BY Places
<1>3. PICK j \in Nat : j = i - A
  BY <1>2
<1>4. /\ j + 1 \in answer.lead + 1 .. j + m /\ j + m <= answer.head
      /\ j + m - (j + 1) + 1 = m
  BY <1>2, <1>3
<1>5. ASSUME NEW k \in 1 .. m
      PROVE  answer.text[j + 1 + k - 1] = Ends[end][k]
  <2>1. j + k \in 1 .. S - A /\ j + 1 + k - 1 = j + k /\ A + (j + k) = i + k
    BY <1>2, <1>3
  <2>2. stream[i + k] = answer.text[j + k]
    BY <1>2, <2>1, AnswerByte
  <2>3. stream[i + k] = Ends[end][k]
    BY DEF PatternAt
  <2>4. QED  BY <2>1, <2>2, <2>3
<1>6. HeaderHas(answer, Ends[end], j + 1, j + m)
  BY <1>4, <1>5 DEF HeaderHas
<1>7. j + 1 \in 1 .. answer.head /\ j + m \in 1 .. answer.head
  BY <1>2, <1>3
<1>8. answer.end = end /\ j + m = answer.head
  BY <1>1, <1>6, <1>7 DEF IsHeader
<1>9. j + m = B - A
  BY <1>2, <1>8
<1>10. i + m = B
  BY <1>2, <1>3, <1>9
<1>11. QED  BY <1>2, <1>8, <1>10

LEMMA HeaderHasEnd ==
  ASSUME BufferInv, StreamInv, asked # 0, answer.end # "none", NEW m \in Nat, m >= 1,
         DOMAIN Ends[answer.end] = 1 .. m, Len(Ends[answer.end]) = m
  PROVE  \E i \in Nat : HeaderAt <= i /\ i + m = BodyAt /\ PatternAt(Ends[answer.end], i)
<1>1. answer \in Answers /\ IsHeader(answer)
  BY HttpReaderAssumption DEF StreamInv
<1>2. PICK A \in Nat, H \in Nat, B \in Nat, S \in Nat :
        /\ A = AnswerAt /\ H = HeaderAt /\ B = BodyAt /\ S = Sent
        /\ A <= H /\ H < B /\ B <= S
        /\ answer.lead = H - A /\ answer.head = B - A /\ Len(answer.text) = S - A
  BY Places
<1>3. PICK j \in 1 .. answer.head : HeaderHas(answer, Ends[answer.end], j, answer.head)
  BY <1>1 DEF IsHeader
<1>4. /\ j \in Nat /\ H - A + 1 <= j /\ B - A - j + 1 = m
      /\ \A k \in 1 .. m : answer.text[j + k - 1] = Ends[answer.end][k]
  BY <1>2, <1>3 DEF HeaderHas
<1>5. PICK i \in Nat : i = A + j - 1
  BY <1>2, <1>4
<1>6. HeaderAt <= i /\ i + m = BodyAt
  BY <1>2, <1>4, <1>5
<1>7. ASSUME NEW k \in 1 .. m
      PROVE  stream[i + k] = Ends[answer.end][k]
  <2>1. PICK h \in Nat : h = j + k - 1 /\ h \in 1 .. S - A /\ A + h = i + k
    BY <1>2, <1>4, <1>5
  <2>2. stream[i + k] = answer.text[h]
    BY <1>2, <2>1, AnswerByte
  <2>3. QED  BY <1>4, <2>1, <2>2
<1>8. PatternAt(Ends[answer.end], i)
  BY <1>7 DEF PatternAt
<1>9. QED  BY <1>6, <1>8

LEMMA HeaderEdges ==
  ASSUME BufferInv, StreamInv, asked # 0
  PROVE  /\ \A i \in AnswerAt + 1 .. HeaderAt : stream[i] \in Blank
         /\ stream[HeaderAt + 1] \notin Blank
         /\ stream[BodyAt] \in Blank
         /\ answer.end \in {"crlf", "lf", "none"}
<1>1. answer \in Answers /\ IsHeader(answer)
  BY HttpReaderAssumption DEF StreamInv
<1>2. PICK A \in Nat, H \in Nat, B \in Nat, S \in Nat :
        /\ A = AnswerAt /\ H = HeaderAt /\ B = BodyAt /\ S = Sent
        /\ A <= H /\ H < B /\ B <= S
        /\ answer.lead = H - A /\ answer.head = B - A /\ Len(answer.text) = S - A
  BY Places
<1>3. ASSUME NEW i \in A + 1 .. H
      PROVE  stream[i] \in Blank
  <2>1. PICK j \in 1 .. answer.lead : j \in 1 .. S - A /\ i = A + j
    <3>1. i - A \in 1 .. answer.lead /\ i - A \in 1 .. S - A /\ i = A + (i - A)
      BY <1>2
    <3>2. QED  BY <3>1
  <2>2. QED  BY <1>1, <1>2, <2>1, AnswerByte DEF IsHeader
<1>4. /\ answer.lead + 1 \in 1 .. S - A /\ answer.head \in 1 .. S - A
      /\ H + 1 = A + (answer.lead + 1) /\ B = A + answer.head
  BY <1>2
<1>5. stream[H + 1] = answer.text[answer.lead + 1] /\ stream[B] = answer.text[answer.head]
  BY <1>2, <1>4, AnswerByte
<1>6. QED  BY <1>1, <1>2, <1>3, <1>5 DEF IsHeader

LEMMA HereNext ==
  ASSUME BufferInv'
  PROVE  /\ Eaten' \in Nat /\ taken' \in Nat /\ supply' \in Nat
         /\ Eaten' <= taken' /\ taken' <= supply'
         /\ eaten' = Bytes(0, Eaten') /\ buf' = Bytes(Eaten', taken')
         /\ Len(buf') = taken' - Eaten' /\ (buf' = <<>> <=> Eaten' = taken')
<1>1. PICK n \in Nat : SplitAt(n)'
  BY DEF BufferInv
<1>2. n <= taken' /\ taken' \in Nat /\ eaten' = Bytes(0, n) /\ buf' = Bytes(n, taken')
  BY <1>1 DEF SplitAt, BufferInv
<1>3. Len(Bytes(0, n)) = n
  <2>1. 0 \in Nat /\ 0 <= n /\ n - 0 = n
    OBVIOUS
  <2>2. QED  BY <2>1, Ends0
<1>4. Eaten' = n
  BY <1>2, <1>3 DEF Eaten
<1>5. QED  BY <1>2, <1>4, Ends0 DEF BufferInv

\* Bytes are taken from a run that begins where the reader is.
LEMMA Moved ==
  ASSUME BufferInv, NEW k \in Nat, NEW c \in Nat, Eaten + k <= c,
         eaten' = eaten \o Upto(Bytes(Eaten, c), k)
  PROVE  /\ Eaten' = Eaten + k
         /\ Upto(Bytes(Eaten, c), k) = Bytes(Eaten, Eaten + k)
         /\ From(Bytes(Eaten, c), k) = Bytes(Eaten + k, c)
<1>1. PICK n \in Nat : n = Eaten /\ eaten = Bytes(0, n)
  BY Here
<1>2. n + k \in Nat /\ 0 \in Nat /\ 0 <= n /\ n <= n + k /\ k <= c - n /\ 0 <= n + k
  BY <1>1
<1>3. Upto(Bytes(n, c), k) = Bytes(n, n + k) /\ From(Bytes(n, c), k) = Bytes(n + k, c)
  BY <1>1, <1>2, Cut
<1>4. Bytes(0, n) \o Bytes(n, n + k) = Bytes(0, n + k)
  BY <1>1, <1>2, Join
<1>5. Len(Bytes(0, n + k)) = n + k
  <2>1. n + k - 0 = n + k
    BY <1>2
  <2>2. QED  BY <1>2, <2>1, Ends0
<1>6. QED  BY <1>1, <1>3, <1>4, <1>5 DEF Eaten

LEMMA MovedAll ==
  ASSUME BufferInv, NEW c \in Nat, Eaten <= c, eaten' = eaten \o Bytes(Eaten, c)
  PROVE  Eaten' = c
<1>1. PICK n \in Nat : n = Eaten /\ eaten = Bytes(0, n)
  BY Here
<1>2. 0 \in Nat /\ 0 <= n /\ n <= c /\ 0 <= c /\ c - 0 = c
  BY <1>1
<1>3. Bytes(0, n) \o Bytes(n, c) = Bytes(0, c)
  BY <1>1, <1>2, Join
<1>4. Len(Bytes(0, c)) = c
  BY <1>2, Ends0
<1>5. QED  BY <1>1, <1>3, <1>4 DEF Eaten

LEMMA PieceAt ==
  ASSUME BufferInv, LimitInv, NEW piece \in Pieces
  PROVE  \E n, c \in Nat :
           /\ n = Eaten /\ c = Last(piece) /\ n < c /\ taken <= c /\ c <= supply
           /\ piece = Bytes(n, c) /\ Len(piece) = c - n /\ Len(piece) <= MAXRECV
           /\ buf # <<>> => piece = buf /\ c = taken
           /\ buf = <<>> => n = taken
<1>1. PICK n \in Nat : n = Eaten /\ SplitAt(n)
  BY Here, HereSplit
<1>2. PICK c \in Nat : /\ c = Last(piece) /\ n <= c /\ n # c /\ taken <= c /\ c <= supply
                       /\ piece = Bytes(n, c) /\ (buf # <<>> => piece = buf)
  BY <1>1, PieceIs
<1>3. Len(piece) = c - n /\ n < c
  <2>1. n <= c /\ n # c /\ n < c
    BY <1>2
  <2>2. QED  BY <1>2, <2>1, Ends0
<1>4. buf # <<>> => c = taken
  <2>1. ASSUME buf # <<>> PROVE c = taken
    <3>1. PICK t \in Nat : t = taken /\ n <= t
      BY <1>1, Here
    <3>2. buf = Bytes(n, t) /\ n # t
      BY <1>1, <2>1, <3>1, Here
    <3>3. Last(Bytes(n, t)) = t
      BY <1>1, <3>1, <3>2, Ends0
    <3>4. QED  BY <1>2, <2>1, <3>1, <3>2, <3>3
  <2>2. QED  BY <2>1
<1>5. buf = <<>> => n = taken
  BY <1>1, Here
<1>6. Len(piece) <= MAXRECV
  <2>1. CASE buf # <<>>
    BY <1>2, <2>1 DEF LimitInv
  <2>2. CASE buf = <<>>
    <3>1. PICK b \in taken + 1 .. Min({taken + MAXRECV, supply}) : piece = Bytes(taken, b)
      BY <2>2 DEF Pieces
    <3>2. PICK t \in Nat, r \in Nat, u \in Nat : t = taken /\ r = t + MAXRECV /\ u = supply
                                                 /\ MAXRECV \in Nat
      BY Here, HttpReaderAssumption
    <3>3. Min({r, u}) \in Nat /\ Min({r, u}) <= r
      <4>1. {r, u} \in SUBSET Nat /\ {r, u} # {}
        OBVIOUS
      <4>2. QED  BY <4>1, MinIsIn
    <3>4. b \in Nat /\ t < b /\ b <= t + MAXRECV
      BY <3>1, <3>2, <3>3
    <3>5. Len(Bytes(t, b)) = b - t
      BY <3>2, <3>4, Ends0
    <3>6. QED  BY <3>1, <3>2, <3>4, <3>5
  <2>3. QED  BY <2>1, <2>2
<1>7. QED  BY <1>1, <1>2, <1>3, <1>4, <1>5, <1>6

\* No piece is to be had only when all that will come was taken.
LEMMA NoPieces ==
  ASSUME BufferInv, Pieces = {}
  PROVE  buf = <<>> /\ taken = supply /\ Eaten = supply
<1>1. buf = <<>>
  BY DEF Pieces
<1>2. PICK t \in Nat, u \in Nat : t = taken /\ u = supply /\ t <= u
  BY Here
<1>3. PICK r \in Nat : r = taken + MAXRECV /\ t < r
  BY <1>2, HttpReaderAssumption
<1>4. Min({r, u}) \in {r, u}
  <2>1. {r, u} \in SUBSET Nat /\ {r, u} # {}
    OBVIOUS
  <2>2. QED  BY <2>1, MinIsIn
<1>5. taken + 1 .. Min({r, u}) = {}
  BY <1>1, <1>2, <1>3 DEF Pieces
<1>6. ~ (t < u)
  BY <1>2, <1>3, <1>4, <1>5
<1>7. QED  BY <1>1, <1>2, <1>6, Here

\* The reader's steps leave the server alone.
LEMMA SameAnswer ==
  ASSUME StreamInv, asked # 0, UNCHANGED server, split' \in BOOLEAN
  PROVE  /\ StreamInv' /\ asked' # 0 /\ stream' = stream /\ answer' = answer
         /\ closed' = closed /\ supply' = supply
         /\ Sent' = Sent /\ AnswerAt' = AnswerAt /\ HeaderAt' = HeaderAt /\ BodyAt' = BodyAt
         /\ HeaderBytes' = HeaderBytes /\ Refusable' = Refusable
<1>1. /\ asked' = asked /\ stream' = stream /\ answer' = answer
      /\ closed' = closed /\ supply' = supply
  BY DEF server
<1>2. /\ Sent' = Sent /\ AnswerAt' = AnswerAt /\ HeaderAt' = HeaderAt /\ BodyAt' = BodyAt
  BY <1>1 DEF Sent, AnswerAt, HeaderAt, BodyAt
<1>3. HeaderBytes' = HeaderBytes
  BY <1>1, <1>2 DEF HeaderBytes
<1>4. Refusable' = Refusable
  BY <1>1 DEF Refusable
<1>5. StreamInv'
  BY <1>1, <1>2 DEF StreamInv
<1>6. QED  BY <1>1, <1>2, <1>3, <1>4, <1>5

LEMMA Asked ==
  ASSUME StreamInv, pc # "answered"
  PROVE  asked # 0
BY DEF StreamInv

\* A step into "failed" has only to show how much of the body there is, and why.
LEMMA Fails ==
  ASSUME BufferInv, Inv, UNCHANGED server, pc # "answered", pc' = "failed",
         split' \in BOOLEAN, received' \in Nat, csize' \in Nat, Len(buf') <= MAXRECV,
         body' = body, NEW upto \in BodyAt .. Sent, IsData(body, stream, BodyAt, upto),
         failed' \in {"stalled", "starved", "refused"},
         failed' \in {"starved", "refused"} => split' \/ Refusable
  PROVE  StreamInv' /\ LimitInv' /\ PlaceInv' /\ BodyInv' /\ FailsOnlySplit'
<1>1. StreamInv /\ asked # 0 /\ body \in Seq(Nat)
  BY Asked DEF Inv, BodyInv
<1>2. /\ StreamInv' /\ asked' # 0 /\ stream' = stream /\ Sent' = Sent /\ BodyAt' = BodyAt
      /\ Refusable' = Refusable
  BY <1>1, SameAnswer
<1>3. LimitInv'
  BY DEF LimitInv
<1>4. PlaceInv'
  BY DEF PlaceInv
<1>5. BodyInv'
  BY <1>1, <1>2 DEF BodyInv, InBody
<1>6. FailsOnlySplit'
  BY <1>2 DEF FailsOnlySplit
<1>7. QED  BY <1>2, <1>3, <1>4, <1>5, <1>6

LEMMA CutsOrNot ==
  ASSUME NEW c, split' = (split \/ Cuts(c))
  PROVE  split' \in BOOLEAN
BY Zenon

LEMMA SkipKeeps ==
  ASSUME Inv, NEW piece \in Pieces, SkipBlanks(piece)
  PROVE  StreamInv' /\ LimitInv' /\ PlaceInv' /\ BodyInv' /\ FailsOnlySplit'
<1>1. /\ BufferInv /\ StreamInv /\ LimitInv /\ PlaceInv /\ BodyInv
      /\ pc = "skip" /\ asked # 0 /\ split \in BOOLEAN
  BY Asked DEF Inv, SkipBlanks, StreamInv
<1>2. SkipInv /\ IsData(body, stream, BodyAt, BodyAt) /\ body \in Seq(Nat)
  BY <1>1 DEF PlaceInv, BodyInv, InBody
<1>3. PICK A \in Nat, H \in Nat, B \in Nat, S \in Nat :
        /\ A = AnswerAt /\ H = HeaderAt /\ B = BodyAt /\ S = Sent
        /\ A <= H /\ H < B /\ B <= S
        /\ answer.lead = H - A /\ answer.head = B - A
  BY <1>1, Places
<1>4. PICK n \in Nat, c \in Nat :
        /\ n = Eaten /\ c = Last(piece) /\ n < c /\ taken <= c /\ c <= supply
        /\ piece = Bytes(n, c) /\ Len(piece) = c - n /\ Len(piece) <= MAXRECV
        /\ buf # <<>> => piece = buf /\ c = taken
        /\ buf = <<>> => n = taken
  BY <1>1, PieceAt
<1>5. /\ n <= H /\ \A i \in n + 1 .. H : stream[i] \in Blank
      /\ header = <<>> /\ poscount = 0 /\ (buf = <<>> \/ taken <= A)
  BY <1>2, <1>3, <1>4 DEF SkipInv, Blanks
<1>6. PICK r \in Nat : r = received /\ r - 2 <= n - A
  BY <1>1, <1>2, <1>3, <1>4 DEF LimitInv, SkipInv
<1>7. /\ taken' = c /\ split' = (split \/ Cuts(c)) /\ received' = r + (c - n)
      /\ UNCHANGED server /\ UNCHANGED <<poscount, csize, header, body>>
  BY <1>4, <1>6 DEF SkipBlanks, Recv
<1>8. received' \in Nat /\ csize' \in Nat /\ split' \in BOOLEAN
  <2>1. received' \in Nat
    <3>1. r + (c - n) \in Nat
      BY <1>4
    <3>2. QED  BY <1>7, <3>1
  <2>2. split' \in BOOLEAN
    BY <1>7, CutsOrNot
  <2>3. QED  BY <1>1, <1>7, <2>1, <2>2 DEF LimitInv
<1>9. /\ StreamInv' /\ asked' # 0 /\ stream' = stream /\ answer' = answer /\ closed' = closed
      /\ HeaderAt' = H /\ AnswerAt' = A /\ BodyAt' = B /\ Refusable' = Refusable
  BY <1>1, <1>3, <1>7, <1>8, SameAnswer
<1>10. IsData(body', stream', BodyAt', BodyAt')
  BY <1>2, <1>3, <1>7, <1>9
<1> DEFINE position == find_first_not_of(piece, Blank)
<1>11. stream[H + 1] \notin Blank
  BY <1>1, <1>3, HeaderEdges
<1>12. /\ position = npos => \A i \in n + 1 .. c : stream[i] \in Blank
       /\ position # npos =>
            \E p \in Nat : /\ p = position /\ n + p < c /\ stream[n + p + 1] \notin Blank
                           /\ \A i \in n + 1 .. n + p : stream[i] \in Blank
  <2>1. n <= c
    BY <1>4
  <2>2. QED  BY <1>4, <2>1, FindOtherIn
<1>13. position # npos => n + position = H /\ H < c /\ position \in Nat
  <2>1. SUFFICES ASSUME position # npos
                 PROVE  n + position = H /\ H < c /\ position \in Nat
    OBVIOUS
  <2>2. PICK p \in Nat : /\ p = position /\ n + p < c /\ stream[n + p + 1] \notin Blank
                         /\ \A i \in n + 1 .. n + p : stream[i] \in Blank
    BY <1>12, <2>1
  <2>3. ~ (n + p < H)
    <3>1. n + p < H => n + p + 1 \in n + 1 .. H
      BY <1>3
    <3>2. QED  BY <1>5, <2>2, <3>1
  <2>4. ~ (H < n + p)
    <3>1. H < n + p => H + 1 \in n + 1 .. n + p
      BY <1>3, <1>5
    <3>2. QED  BY <1>11, <2>2, <3>1
  <2>5. QED  BY <1>3, <2>2, <2>3, <2>4
<1>14. position = npos => c <= H
  <2>1. ~ (c <= H) => H + 1 \in n + 1 .. c
    BY <1>3, <1>5
  <2>2. QED  BY <1>11, <1>12, <2>1
<1>15. MAXRECV \in Nat /\ MAXHTTPHEADERLENGTH \in Nat
  BY HttpReaderAssumption
<1> HIDE DEF position
<1>16. CASE position # npos
  <2>1. /\ eaten' = eaten \o Upto(piece, position) /\ temp' = From(piece, position)
        /\ buf' = From(piece, position) /\ pc' = "header" /\ failed' = failed
    BY <1>16 DEF SkipBlanks, GoTo, position
  <2>2. PICK p \in Nat : p = position /\ n + p = H /\ H < c /\ n + p <= c
    BY <1>13, <1>16
  <2>3. Eaten' = H /\ From(piece, position) = Bytes(H, c)
    <3>1. Eaten + p <= c /\ eaten' = eaten \o Upto(Bytes(Eaten, c), p)
      BY <1>4, <2>1, <2>2
    <3>2. Eaten' = Eaten + p /\ From(Bytes(Eaten, c), p) = Bytes(Eaten + p, c)
      BY <1>1, <3>1, Moved
    <3>3. QED  BY <1>4, <2>2, <3>2
  <2>4. buf = <<>> /\ n = taken
    <3>1. ASSUME buf # <<>> PROVE FALSE
      <4>1. c <= A
        BY <1>4, <1>5, <3>1
      <4>2. QED  BY <1>3, <2>2, <4>1
    <3>2. QED  BY <1>4, <3>1
  <2>5. /\ Bytes(H, H) = <<>> /\ Len(Bytes(H, c)) = c - H
    BY <2>2, Ends0
  <2>6. HeaderInv'
    <3>1. /\ poscount' = 0 /\ Eaten' = HeaderAt' + poscount'
      BY <1>5, <1>7, <1>9, <2>3
    <3>2. header' = Bytes(HeaderAt', Eaten') /\ temp' = Bytes(HeaderAt', taken')
      BY <1>5, <1>7, <1>9, <2>1, <2>3, <2>5
    <3>3. HeaderAt' < taken' /\ Eaten' < BodyAt'
      BY <1>3, <1>7, <1>9, <2>2, <2>3
    <3>4. answer'.end = "crlf" /\ BodyAt' - 1 \in {Eaten', taken'} => split'
      <4>1. SUFFICES ASSUME answer.end = "crlf", B - 1 = H \/ B - 1 = c PROVE split'
        BY <1>7, <1>9, <2>3
      <4>2. B - 1 # H
        <5>1. PICK i \in Nat : HeaderAt <= i /\ i + 4 = BodyAt
          <6>1. answer.end # "none" /\ 4 \in Nat /\ 4 >= 1
            BY <4>1
          <6>2. QED  BY <1>1, <4>1, <6>1, HeaderHasEnd, Patterns
        <5>2. QED  BY <1>3, <5>1
      <4>3. c = B - 1 /\ c < S
        BY <1>3, <4>1, <4>2
      <4>4. QED  BY <1>3, <1>7, <4>1, <4>3 DEF Cuts
    <3>5. received' <= answer'.lead + 2 + MAXRECV + poscount'
      <4>1. r + (c - n) <= (H - A) + 2 + MAXRECV + 0
        <5>1. PICK M \in Nat : M = MAXRECV /\ c - n <= M
          BY <1>4, <1>15
        <5>2. QED  BY <1>3, <1>5, <1>6, <5>1
      <4>2. QED  BY <1>3, <1>7, <1>9, <3>1, <4>1
    <3>6. QED  BY <2>1, <3>1, <3>2, <3>3, <3>4, <3>5 DEF HeaderInv
  <2>7. LimitInv'
    <3>1. Len(buf') <= MAXRECV
      <4>1. PICK M \in Nat : M = MAXRECV /\ c - n <= M
        BY <1>4, <1>15
      <4>2. c - H <= M
        BY <1>5, <4>1
      <4>3. QED  BY <2>1, <2>3, <2>5, <4>1, <4>2
    <3>2. QED  BY <1>1, <1>8, <2>1, <3>1 DEF LimitInv
  <2>8. PlaceInv'
    BY <2>1, <2>6 DEF PlaceInv
  <2>9. BodyInv'
    BY <1>2, <1>7, <1>10, <2>1 DEF BodyInv, InBody
  <2>10. FailsOnlySplit'
    BY <1>1, <2>1 DEF FailsOnlySplit, LimitInv
  <2>11. QED  BY <1>9, <2>7, <2>8, <2>9, <2>10
<1>17. CASE position = npos /\ received' > MAXHTTPHEADERLENGTH
  <2>1. buf' = piece /\ pc' = "failed" /\ failed' = "refused"
    BY <1>8, <1>15, <1>17 DEF SkipBlanks, GiveUp, position, npos
  <2>2. Refusable
    <3>1. PICK M \in Nat, X \in Nat : M = MAXRECV /\ X = MAXHTTPHEADERLENGTH
      BY <1>15
    <3>2. X < r + (c - n) /\ c <= H
      BY <1>7, <1>14, <1>17, <3>1
    <3>3. (B - A) + 2 + M > X
      BY <1>3, <1>6, <3>2
    <3>4. QED  BY <1>3, <3>1, <3>3 DEF Refusable
  <2>3. BodyAt \in BodyAt .. Sent
    BY <1>3
  <2>4. Len(buf') <= MAXRECV /\ body' = body /\ pc # "answered"
    BY <1>1, <1>4, <1>7, <2>1
  <2>5. QED  BY <1>1, <1>2, <1>7, <1>8, <2>1, <2>2, <2>3, <2>4, Fails
<1>18. CASE position = npos /\ ~ (received' > MAXHTTPHEADERLENGTH)
  <2>1. buf' = <<>> /\ eaten' = eaten \o piece /\ pc' = "skip" /\ failed' = failed
    BY <1>18 DEF SkipBlanks, GoTo, position, npos
  <2>2. Eaten' = c
    <3>1. n <= c
      BY <1>4
    <3>2. QED  BY <1>1, <1>4, <2>1, <3>1, MovedAll
  <2>3. SkipInv'
    <3>1. c <= H /\ \A i \in c + 1 .. H : stream[i] \in Blank
      <4>1. \A i \in c + 1 .. H : i \in n + 1 .. H
        BY <1>4
      <4>2. QED  BY <1>5, <1>14, <1>18, <4>1
    <3>2. received' - 2 <= c - A
      <4>1. r + (c - n) - 2 <= c - A
        BY <1>3, <1>6
      <4>2. QED  BY <1>7, <4>1
    <3>3. QED  BY <1>5, <1>7, <1>9, <2>1, <2>2, <3>1, <3>2 DEF SkipInv, Blanks
  <2>4. LimitInv'
    <3>1. Len(buf') <= MAXRECV
      BY <1>15, <2>1
    <3>2. QED  BY <1>1, <1>8, <2>1, <3>1 DEF LimitInv
  <2>5. PlaceInv'
    BY <2>1, <2>3 DEF PlaceInv
  <2>6. BodyInv'
    BY <1>2, <1>7, <1>10, <2>1 DEF BodyInv, InBody
  <2>7. FailsOnlySplit'
    BY <1>1, <2>1 DEF FailsOnlySplit, LimitInv
  <2>8. QED  BY <1>9, <2>4, <2>5, <2>6, <2>7
<1>19. QED  BY <1>16, <1>17, <1>18

\* Only a header that ends with an empty line has a body.
LEMMA OnlyHeader ==
  ASSUME BufferInv, StreamInv, asked # 0, answer.end # "crlf" \/ answer.chunks = <<>>
  PROVE  BodyAt = Sent
<1>1. answer \in Answers /\ IsBody(answer)
  BY HttpReaderAssumption DEF StreamInv
<1>2. answer.head = Len(answer.text)
  BY <1>1 DEF IsBody
<1>3. PICK A \in Nat, B \in Nat, S \in Nat :
        B = BodyAt /\ S = Sent /\ answer.head = B - A /\ Len(answer.text) = S - A
  BY Places
<1>4. B - A = S - A
  BY <1>2, <1>3
<1>5. B = S
  BY <1>4
<1>6. QED  BY <1>3, <1>5

LEMMA FindsEnd ==
  ASSUME BufferInv, StreamInv, asked # 0, NEW end \in DOMAIN Ends, NEW m \in Nat,
         DOMAIN Ends[end] = 1 .. m, Len(Ends[end]) = m, m >= 1,
         temp = Bytes(HeaderAt, taken), HeaderAt < taken
  PROVE  /\ find(temp, Ends[end]) = npos /\ answer.end = end => taken < BodyAt
         /\ find(temp, Ends[end]) # npos /\ (answer.end = end \/ taken <= BodyAt) =>
              /\ answer.end = end /\ BodyAt <= taken
              /\ find(temp, Ends[end]) \in Nat /\ HeaderAt + find(temp, Ends[end]) + m = BodyAt
<1>1. PICK H \in Nat, B \in Nat : H = HeaderAt /\ B = BodyAt
  BY Places
<1>2. PICK t \in Nat : t = taken
  BY Here
<1>3. H < t /\ H <= t /\ temp = Bytes(H, t)
  BY <1>1, <1>2
<1>4. /\ find(temp, Ends[end]) = npos =>
           \A i \in Nat : H <= i /\ i + m <= t => ~ PatternAt(Ends[end], i)
      /\ find(temp, Ends[end]) # npos =>
           \E p \in Nat : /\ p = find(temp, Ends[end]) /\ H + p + m <= t
                          /\ PatternAt(Ends[end], H + p)
                          /\ \A i \in Nat : H <= i /\ i < H + p => ~ PatternAt(Ends[end], i)
  BY <1>1, <1>2, <1>3, FindIn
<1>5. answer.end = end =>
        \E i \in Nat : H <= i /\ i + m = B /\ PatternAt(Ends[end], i)
  <2>1. SUFFICES ASSUME answer.end = end
                 PROVE  \E i \in Nat : H <= i /\ i + m = B /\ PatternAt(Ends[end], i)
    OBVIOUS
  <2>2. answer.end # "none"
    BY <2>1, Patterns
  <2>3. QED  BY <1>1, <2>1, <2>2, HeaderHasEnd
<1>6. ASSUME find(temp, Ends[end]) = npos, answer.end = end
      PROVE  taken < BodyAt
  <2>1. PICK i \in Nat : H <= i /\ i + m = B /\ PatternAt(Ends[end], i)
    BY <1>5, <1>6
  <2>2. ~ (i + m <= t)
    BY <1>4, <1>6, <2>1
  <2>3. t < B
    BY <2>1, <2>2
  <2>4. QED  BY <1>1, <1>2, <2>3
<1>7. ASSUME find(temp, Ends[end]) # npos, answer.end = end \/ taken <= BodyAt
      PROVE  /\ answer.end = end /\ BodyAt <= taken
             /\ find(temp, Ends[end]) \in Nat /\ HeaderAt + find(temp, Ends[end]) + m = BodyAt
  <2>1. PICK p \in Nat : /\ p = find(temp, Ends[end]) /\ H + p + m <= t
                         /\ PatternAt(Ends[end], H + p)
                         /\ \A i \in Nat : H <= i /\ i < H + p => ~ PatternAt(Ends[end], i)
    BY <1>4, <1>7
  <2>2. H + p + m <= B
    <3>1. CASE answer.end = end
      <4>1. PICK i \in Nat : H <= i /\ i + m = B /\ PatternAt(Ends[end], i)
        BY <1>5, <3>1
      <4>2. ~ (i < H + p)
        BY <2>1, <4>1
      <4>3. QED  BY <4>1, <4>2
    <3>2. CASE taken <= BodyAt
      BY <1>1, <1>2, <2>1, <3>2
    <3>3. QED  BY <1>7, <3>1, <3>2
  <2>3. PICK i \in Nat : i = H + p
    OBVIOUS
  <2>4. HeaderAt <= i /\ i + m <= BodyAt /\ PatternAt(Ends[end], i)
    BY <1>1, <2>1, <2>2, <2>3
  <2>5. answer.end = end /\ i + m = B
    BY <1>1, <2>4, HeaderEnds
  <2>6. QED  BY <1>1, <1>2, <2>1, <2>3, <2>5
<1>8. QED  BY <1>6, <1>7

\* What is seen of a header, in short.
LEMMA HeaderSeen ==
  ASSUME Inv, pc \in {"header", "more"}
  PROVE  /\ BufferInv /\ StreamInv /\ LimitInv /\ asked # 0 /\ split \in BOOLEAN
         /\ HeaderInv /\ IsData(body, stream, BodyAt, BodyAt) /\ body \in Seq(Nat)
         /\ failed = ""
         /\ answer.end = "crlf" /\ EmptyLine = npos => taken < BodyAt
         /\ answer.end = "lf" /\ BareEmptyLine = npos => taken < BodyAt
         /\ answer.end = "none" => taken <= BodyAt
         /\ EmptyLine # npos =>
              /\ answer.end = "crlf" /\ BodyAt <= taken
              /\ EmptyLine \in Nat /\ HeaderAt + EmptyLine + 4 = BodyAt
         /\ EmptyLine = npos /\ BareEmptyLine # npos =>
              /\ answer.end = "lf"
              /\ BareEmptyLine \in Nat /\ HeaderAt + BareEmptyLine + 2 = BodyAt
<1>1. /\ BufferInv /\ StreamInv /\ LimitInv /\ asked # 0 /\ split \in BOOLEAN
      /\ HeaderInv /\ IsData(body, stream, BodyAt, BodyAt) /\ body \in Seq(Nat)
      /\ failed = ""
  BY Asked DEF Inv, StreamInv, PlaceInv, BodyInv, InBody, LimitInv
<1>2. temp = Bytes(HeaderAt, taken) /\ HeaderAt < taken
  BY <1>1 DEF HeaderInv
<1>3. answer.end # "crlf" => taken <= BodyAt
  <2>1. answer.end # "crlf" => BodyAt = Sent
    BY <1>1, OnlyHeader
  <2>2. taken <= Sent
    <3>1. PICK t \in Nat, u \in Nat : t = taken /\ u = supply /\ t <= u
      BY <1>1, Here
    <3>2. PICK S \in Nat : S = Sent /\ supply <= S
      BY <1>1, Places
    <3>3. QED  BY <3>1, <3>2
  <2>3. QED  BY <2>1, <2>2
<1>4. /\ EmptyLine = npos /\ answer.end = "crlf" => taken < BodyAt
      /\ EmptyLine # npos /\ (answer.end = "crlf" \/ taken <= BodyAt) =>
           /\ answer.end = "crlf" /\ BodyAt <= taken
           /\ EmptyLine \in Nat /\ HeaderAt + EmptyLine + 4 = BodyAt
  <2>1. "crlf" \in DOMAIN Ends /\ 4 \in Nat /\ 4 >= 1
    BY Patterns
  <2>2. QED  BY <1>1, <1>2, <2>1, Patterns, FindsEnd DEF EmptyLine
<1>5. /\ BareEmptyLine = npos /\ answer.end = "lf" => taken < BodyAt
      /\ BareEmptyLine # npos /\ (answer.end = "lf" \/ taken <= BodyAt) =>
           /\ answer.end = "lf" /\ BodyAt <= taken
           /\ BareEmptyLine \in Nat /\ HeaderAt + BareEmptyLine + 2 = BodyAt
  <2>1. "lf" \in DOMAIN Ends /\ 2 \in Nat /\ 2 >= 1
    BY Patterns
  <2>2. QED  BY <1>1, <1>2, <2>1, Patterns, FindsEnd DEF BareEmptyLine
<1>6. taken < BodyAt => taken <= BodyAt
  <2>1. PICK B \in Nat : B = BodyAt
    BY <1>1, Places
  <2>2. PICK t \in Nat : t = taken
    BY <1>1, Here
  <2>3. QED  BY <2>1, <2>2
<1>7. QED  BY <1>1, <1>3, <1>4, <1>5, <1>6

LEMMA KeepKeeps ==
  ASSUME Inv, KeepHeader
  PROVE  StreamInv' /\ LimitInv' /\ PlaceInv' /\ BodyInv' /\ FailsOnlySplit'
<1>1. pc = "header" /\ EmptyLine = npos /\ BareEmptyLine = npos
  BY DEF KeepHeader
<1>2. /\ BufferInv /\ StreamInv /\ LimitInv /\ asked # 0 /\ split \in BOOLEAN
      /\ HeaderInv /\ IsData(body, stream, BodyAt, BodyAt) /\ body \in Seq(Nat)
      /\ failed = ""
      /\ answer.end # "none" => taken < BodyAt
      /\ answer.end = "none" => taken <= BodyAt
  <2>1. answer.end \in {"crlf", "lf", "none"}
    BY <1>1, HeaderSeen, HeaderEdges
  <2>2. QED  BY <1>1, <2>1, HeaderSeen
<1>3. PICK A \in Nat, H \in Nat, B \in Nat, S \in Nat :
        /\ A = AnswerAt /\ H = HeaderAt /\ B = BodyAt /\ S = Sent
        /\ A <= H /\ H < B /\ B <= S
        /\ answer.lead = H - A /\ answer.head = B - A
  BY <1>2, Places
<1>4. PICK n \in Nat, t \in Nat : /\ n = Eaten /\ t = taken /\ n <= t
                                  /\ buf = Bytes(n, t) /\ Len(buf) = t - n
  BY <1>2, Here
<1>5. PICK r \in Nat, q \in Nat, M \in Nat :
        /\ r = received /\ q = poscount /\ M = MAXRECV
        /\ n = H + q /\ r <= H - A + 2 + M + q /\ H < t
        /\ header = Bytes(H, n) /\ temp = Bytes(H, t)
        /\ answer.end = "crlf" /\ BodyAt - 1 \in {Eaten, taken} => split
  BY <1>2, <1>3, <1>4, HttpReaderAssumption DEF HeaderInv, LimitInv
<1>6. read = t - n
  BY <1>1, <1>2, <1>4 DEF BufferInv
<1>7. /\ header' = header \o Upto(buf, t - n) /\ eaten' = eaten \o Upto(buf, t - n)
      /\ buf' = From(buf, t - n) /\ poscount' = q + (t - n) /\ received' = r + (t - n)
      /\ UNCHANGED server /\ UNCHANGED <<taken, temp, csize, body, split>>
  BY <1>5, <1>6 DEF KeepHeader
<1>8. PICK k \in Nat : k = t - n /\ n + k = t /\ n + k <= t
  BY <1>4
<1>9. Eaten' = t /\ Upto(buf, k) = Bytes(n, t) /\ buf' = Bytes(t, t)
  <2>1. Eaten + k <= t /\ eaten' = eaten \o Upto(Bytes(Eaten, t), k)
    BY <1>4, <1>7, <1>8
  <2>2. /\ Eaten' = Eaten + k /\ Upto(Bytes(Eaten, t), k) = Bytes(Eaten, Eaten + k)
        /\ From(Bytes(Eaten, t), k) = Bytes(Eaten + k, t)
    BY <1>2, <2>1, Moved
  <2>3. QED  BY <1>4, <1>7, <1>8, <2>2
<1>10. buf' = <<>> /\ header' = Bytes(H, t)
  <2>1. Bytes(t, t) = <<>>
    BY Ends0
  <2>2. H \in Nat /\ n \in Nat /\ t \in Nat /\ H <= n /\ n <= t
    BY <1>4, <1>5
  <2>3. Bytes(H, n) \o Bytes(n, t) = Bytes(H, t)
    BY <2>2, Join
  <2>4. QED  BY <1>5, <1>7, <1>8, <1>9, <2>1, <2>3
<1>11. PICK r2 \in Nat : r2 = received' /\ r2 = r + (t - n)
  BY <1>7, <1>8
<1>12. /\ StreamInv' /\ asked' # 0 /\ stream' = stream /\ answer' = answer /\ closed' = closed
       /\ HeaderAt' = H /\ AnswerAt' = A /\ BodyAt' = B /\ Refusable' = Refusable
  BY <1>2, <1>3, <1>7, SameAnswer
<1>13. MAXHTTPHEADERLENGTH \in Nat
  BY HttpReaderAssumption
<1>14. Len(buf') <= MAXRECV
  <2>1. Len(<<>>) = 0
    OBVIOUS
  <2>2. QED  BY <1>5, <1>10, <2>1
<1>15. CASE received' > MAXHTTPHEADERLENGTH
  <2>1. pc' = "failed" /\ failed' = "refused"
    BY <1>15 DEF KeepHeader, GiveUp
  <2>2. Refusable
    <3>1. PICK X \in Nat : X = MAXHTTPHEADERLENGTH /\ X < r2
      BY <1>11, <1>13, <1>15
    <3>2. t <= B
      <4>1. answer.end # "none" => t < B
        BY <1>2, <1>3, <1>4
      <4>2. answer.end = "none" => t <= B
        BY <1>2, <1>3, <1>4
      <4>3. QED  BY <4>1, <4>2
    <3>3. (B - A) + 2 + M > X
      BY <1>3, <1>5, <1>11, <3>1, <3>2
    <3>4. QED  BY <1>3, <1>5, <3>1, <3>3 DEF Refusable
  <2>3. BodyAt \in BodyAt .. Sent
    BY <1>3
  <2>4. received' \in Nat /\ csize' \in Nat /\ split' \in BOOLEAN /\ body' = body /\ pc # "answered"
    BY <1>1, <1>2, <1>7, <1>11 DEF LimitInv
  <2>5. QED  BY <1>2, <1>7, <1>14, <2>1, <2>2, <2>3, <2>4, Fails
<1>16. CASE ~ (received' > MAXHTTPHEADERLENGTH)
  <2>1. pc' = "more" /\ failed' = failed
    BY <1>16 DEF KeepHeader, GoTo
  <2>2. HeaderInv'
    <3>1. poscount' \in Nat /\ Eaten' = HeaderAt' + poscount'
      BY <1>5, <1>7, <1>8, <1>9, <1>12
    <3>2. header' = Bytes(HeaderAt', Eaten') /\ temp' = Bytes(HeaderAt', taken')
      BY <1>4, <1>5, <1>7, <1>9, <1>10, <1>12
    <3>3. HeaderAt' < taken' /\ (answer'.end # "none" => Eaten' < BodyAt')
      BY <1>2, <1>3, <1>4, <1>5, <1>7, <1>9, <1>12
    <3>4. answer'.end = "crlf" /\ BodyAt' - 1 \in {Eaten', taken'} => split'
      BY <1>3, <1>4, <1>5, <1>7, <1>9, <1>12
    <3>5. received' <= answer'.lead + 2 + MAXRECV + poscount'
      <4>1. r2 <= H - A + 2 + M + (q + (t - n))
        BY <1>5, <1>11
      <4>2. QED  BY <1>3, <1>5, <1>7, <1>11, <1>12, <4>1
    <3>6. QED  BY <1>10, <3>1, <3>2, <3>3, <3>4, <3>5 DEF HeaderInv
  <2>3. LimitInv'
    <3>1. received' <= MAXHTTPHEADERLENGTH
      BY <1>11, <1>13, <1>16
    <3>2. QED  BY <1>2, <1>7, <1>11, <1>14, <2>1, <3>1 DEF LimitInv
  <2>4. PlaceInv'
    BY <2>1, <2>2 DEF PlaceInv
  <2>5. BodyInv'
    BY <1>2, <1>3, <1>7, <1>12, <2>1 DEF BodyInv, InBody
  <2>6. FailsOnlySplit'
    BY <1>2, <2>1 DEF FailsOnlySplit
  <2>7. QED  BY <1>12, <2>3, <2>4, <2>5, <2>6
<1>17. QED  BY <1>15, <1>16

LEMMA MoreKeeps ==
  ASSUME Inv, NEW piece \in Pieces, MoreHeader(piece)
  PROVE  StreamInv' /\ LimitInv' /\ PlaceInv' /\ BodyInv' /\ FailsOnlySplit'
<1>1. pc = "more"
  BY DEF MoreHeader
<1>2. /\ BufferInv /\ StreamInv /\ LimitInv /\ asked # 0 /\ split \in BOOLEAN
      /\ HeaderInv /\ IsData(body, stream, BodyAt, BodyAt) /\ body \in Seq(Nat)
      /\ failed = ""
  BY <1>1, HeaderSeen
<1>3. PICK A \in Nat, H \in Nat, B \in Nat, S \in Nat :
        /\ A = AnswerAt /\ H = HeaderAt /\ B = BodyAt /\ S = Sent
        /\ A <= H /\ H < B /\ B <= S
        /\ answer.lead = H - A /\ answer.head = B - A
  BY <1>2, Places
<1>4. PICK n \in Nat, c \in Nat :
        /\ n = Eaten /\ c = Last(piece) /\ n < c /\ taken <= c /\ c <= supply
        /\ piece = Bytes(n, c) /\ Len(piece) = c - n /\ Len(piece) <= MAXRECV
        /\ buf = <<>> => n = taken
  BY <1>2, PieceAt
<1>5. /\ poscount \in Nat /\ n = H + poscount
      /\ received <= answer.lead + 2 + MAXRECV + poscount /\ H < taken
      /\ header = Bytes(H, n) /\ temp = Bytes(H, taken) /\ n = taken
      /\ answer.end = "crlf" /\ BodyAt - 1 \in {Eaten, taken} => split
      /\ answer.end # "none" => n < B
  BY <1>1, <1>2, <1>3, <1>4 DEF HeaderInv
<1>6. /\ eaten' = eaten /\ temp' = temp \o piece /\ buf' = piece /\ taken' = c
      /\ split' = (split \/ Cuts(c)) /\ pc' = "header" /\ failed' = failed
      /\ UNCHANGED server /\ UNCHANGED <<received, poscount, csize, header, body>>
  BY <1>4 DEF MoreHeader, Recv, GoTo
<1>7. split' \in BOOLEAN
  BY <1>6, CutsOrNot
<1>8. /\ StreamInv' /\ asked' # 0 /\ stream' = stream /\ answer' = answer /\ closed' = closed
      /\ HeaderAt' = H /\ AnswerAt' = A /\ BodyAt' = B /\ Refusable' = Refusable
  BY <1>2, <1>3, <1>6, <1>7, SameAnswer
<1>9. Eaten' = n
  BY <1>4, <1>6 DEF Eaten
<1>10. temp' = Bytes(H, c)
  <2>1. H \in Nat /\ n \in Nat /\ c \in Nat /\ H <= n /\ n <= c
    BY <1>4, <1>5
  <2>2. Bytes(H, n) \o Bytes(n, c) = Bytes(H, c)
    BY <2>1, Join
  <2>3. QED  BY <1>4, <1>5, <1>6, <2>2
<1>11. HeaderInv'
  <2>1. answer.end = "crlf" /\ B - 1 \in {n, c} => split'
    <3>1. SUFFICES ASSUME answer.end = "crlf", B - 1 = n \/ B - 1 = c PROVE split'
      OBVIOUS
    <3>2. CASE B - 1 = n
      BY <1>3, <1>4, <1>5, <1>6, <3>1, <3>2
    <3>3. CASE B - 1 = c
      <4>1. c < S
        BY <1>3, <3>3
      <4>2. QED  BY <1>3, <1>6, <3>1, <3>3, <4>1 DEF Cuts
    <3>4. QED  BY <3>1, <3>2, <3>3
  <2>2. H < c
    BY <1>4, <1>5
  <2>3. QED  BY <1>1, <1>3, <1>4, <1>5, <1>6, <1>8, <1>9, <1>10, <2>1, <2>2 DEF HeaderInv
<1>12. LimitInv'
  BY <1>2, <1>4, <1>6 DEF LimitInv
<1>13. PlaceInv'
  BY <1>6, <1>11 DEF PlaceInv
<1>14. BodyInv'
  BY <1>2, <1>3, <1>6, <1>8 DEF BodyInv, InBody
<1>15. FailsOnlySplit'
  BY <1>2, <1>6 DEF FailsOnlySplit
<1>16. QED  BY <1>8, <1>12, <1>13, <1>14, <1>15

LEMMA UnsignedIs ==
  /\ UINT \in Nat
  /\ \A x \in Nat : x < UINT => Unsigned(x) = x
  /\ Unsigned(-1) = UINT - 1
<1>1. PICK u \in Nat : u = UINT /\ u > 0
  BY HttpReaderAssumption
<1>2. ASSUME NEW x \in Nat, x < u PROVE x % u = x
  BY <1>1, <1>2
<1>3. (-1) % u = u - 1
  BY <1>1
<1>4. QED  BY <1>1, <1>2, <1>3 DEF Unsigned

LEMMA EndKeeps ==
  ASSUME Inv, EndHeader \/ EndBareHeader
  PROVE  StreamInv' /\ LimitInv' /\ PlaceInv' /\ BodyInv' /\ FailsOnlySplit'
<1>1. pc = "header"
  BY DEF EndHeader, EndBareHeader
<1>2. /\ BufferInv /\ StreamInv /\ LimitInv /\ asked # 0 /\ split \in BOOLEAN
      /\ HeaderInv /\ IsData(body, stream, BodyAt, BodyAt) /\ body \in Seq(Nat)
      /\ failed = ""
  BY <1>1, HeaderSeen
<1>3. PICK A \in Nat, H \in Nat, B \in Nat, S \in Nat :
        /\ A = AnswerAt /\ H = HeaderAt /\ B = BodyAt /\ S = Sent
        /\ A <= H /\ H < B /\ B <= S /\ supply <= S
        /\ S - A + 1 < UINT
  BY <1>2, Places
<1>4. PICK n \in Nat, u \in Nat : n = Eaten /\ u = supply
  BY <1>2, Here
<1>5. PICK q \in Nat : /\ q = poscount /\ n = H + q /\ header = Bytes(H, n)
                       /\ answer.end # "none" => n < B
                       /\ answer.end = "crlf" /\ BodyAt - 1 \in {Eaten, taken} => split
  BY <1>2, <1>3, <1>4 DEF HeaderInv
<1>6. /\ UNCHANGED <<server, taken, buf, eaten, locals, header, body, split>>
      /\ pc' = "length" /\ failed' = failed
  BY DEF EndHeader, EndBareHeader, TakeLength
<1>7. Eaten' = n
  BY <1>4, <1>6 DEF Eaten
<1>8. /\ StreamInv' /\ asked' # 0 /\ stream' = stream /\ answer' = answer /\ closed' = closed
      /\ HeaderAt' = H /\ AnswerAt' = A /\ BodyAt' = B /\ Refusable' = Refusable
      /\ supply' = supply
  BY <1>2, <1>3, <1>6, SameAnswer
<1>9. LimitInv'
  BY <1>2, <1>6 DEF LimitInv, locals
<1>10. FailsOnlySplit'
  BY <1>2, <1>6 DEF FailsOnlySplit
<1>11. UINT \in Nat
  BY UnsignedIs
<1>12. CASE EndHeader
  <2>1. EmptyLine # npos /\ length' = [bytes |-> Unsigned(EmptyLine - poscount + 2), then |-> "header"]
    BY <1>12 DEF EndHeader, TakeLength
  <2>2. PICK e \in Nat : e = EmptyLine /\ answer.end = "crlf" /\ H + e + 4 = B
    BY <1>1, <1>3, <2>1, HeaderSeen
  <2>3. n < B /\ e - q + 2 = B - 2 - n
    BY <1>5, <2>2
  <2>4. length'.bytes = Unsigned(B - 2 - n) /\ length'.then = "header"
    BY <1>5, <2>1, <2>2, <2>3
  <2>5. HeaderEndInv'
    <3>1. \/ n <= B - 2 /\ length'.bytes = B - 2 - n
          \/ split /\ length'.bytes > u - n
      <4>1. CASE n <= B - 2
        <5>1. B - 2 - n \in Nat /\ B - 2 - n < UINT
          <6>1. PICK w \in Nat : w = UINT /\ S - A + 1 < w
            BY <1>3, <1>11
          <6>2. A <= n
            BY <1>3, <1>5
          <6>3. QED  BY <1>3, <4>1, <6>1, <6>2
        <5>2. Unsigned(B - 2 - n) = B - 2 - n
          BY <5>1, UnsignedIs
        <5>3. QED  BY <2>4, <4>1, <5>2
      <4>2. CASE n = B - 1
        <5>1. split
          BY <1>3, <1>4, <1>5, <2>2, <4>2
        <5>2. B - 2 - n = -1
          BY <4>2
        <5>3. PICK w \in Nat : w = UINT /\ S - A + 1 < w
          BY <1>3, <1>11
        <5>4. length'.bytes = w - 1
          BY <2>4, <5>2, <5>3, UnsignedIs
        <5>5. u <= S /\ A <= n
          BY <1>3, <1>4, <1>5
        <5>6. w - 1 > u - n
          BY <5>3, <5>5
        <5>7. QED  BY <5>1, <5>4, <5>6
      <4>3. n <= B - 2 \/ n = B - 1
        BY <2>3
      <4>4. QED  BY <4>1, <4>2, <4>3
    <3>2. H <= n
      BY <1>5
    <3>3. QED  BY <1>4, <1>5, <1>6, <1>7, <1>8, <2>2, <3>1, <3>2 DEF HeaderEndInv
  <2>6. PlaceInv'
    BY <1>6, <2>4, <2>5 DEF PlaceInv
  <2>7. BodyInv'
    BY <1>2, <1>3, <1>6, <1>8, <2>4 DEF BodyInv, InBody
  <2>8. QED  BY <1>8, <1>9, <1>10, <2>6, <2>7
<1>13. CASE EndBareHeader
  <2>1. /\ EmptyLine = npos /\ BareEmptyLine # npos
        /\ length' = [bytes |-> Unsigned(BareEmptyLine - poscount + 2), then |-> "bareheader"]
    BY <1>13 DEF EndBareHeader, TakeLength
  <2>2. PICK e \in Nat : e = BareEmptyLine /\ answer.end = "lf" /\ H + e + 2 = B
    BY <1>1, <1>3, <2>1, HeaderSeen
  <2>3. n < B /\ e - q + 2 = B - n
    BY <1>5, <2>2
  <2>4. length'.bytes = Unsigned(B - n) /\ length'.then = "bareheader"
    BY <1>5, <2>1, <2>2, <2>3
  <2>5. B - n \in Nat /\ B - n < UINT
    <3>1. PICK w \in Nat : w = UINT /\ S - A + 1 < w
      BY <1>3, <1>11
    <3>2. A <= n
      BY <1>3, <1>5
    <3>3. QED  BY <1>3, <2>3, <3>1, <3>2
  <2>6. Unsigned(B - n) = B - n
    BY <2>5, UnsignedIs
  <2>7. H <= n /\ n <= B
    BY <1>5, <2>3
  <2>8. BareHeaderEndInv'
    BY <1>5, <1>6, <1>7, <1>8, <2>2, <2>4, <2>6, <2>7 DEF BareHeaderEndInv
  <2>9. PlaceInv'
    BY <1>6, <2>4, <2>8 DEF PlaceInv
  <2>10. BodyInv'
    BY <1>2, <1>3, <1>6, <1>8, <2>4 DEF BodyInv, InBody
  <2>11. QED  BY <1>8, <1>9, <1>10, <2>9, <2>10
<1>14. QED  BY <1>12, <1>13

\* What is at hand of a header that has ended early.
LEMMA HeaderPrefix ==
  ASSUME NEW a \in Nat, NEW n \in Nat, NEW b \in Nat, a < n, n <= b
  PROVE  IsPrefix(Bytes(a, n), Bytes(a, b)) /\ Last(Bytes(a, n)) = n
<1>1. Last(Bytes(a, n)) = n
  <2>1. a <= n
    OBVIOUS
  <2>2. QED  BY <2>1, Ends0
<1>2. Len(Bytes(a, n)) <= Len(Bytes(a, b))
  <2>1. a <= n /\ a <= b
    OBVIOUS
  <2>2. Len(Bytes(a, n)) = n - a /\ Len(Bytes(a, b)) = b - a
    BY <2>1, Ends0
  <2>3. QED  BY <2>2
<1>3. Bytes(a, n) = SubSeq(Bytes(a, b), 1, Len(Bytes(a, n)))
  <2>1. n - a \in Nat /\ n - a <= b - a /\ a + (n - a) = n
    OBVIOUS
  <2>2. Upto(Bytes(a, b), n - a) = Bytes(a, n)
    BY <2>1, Cut
  <2>3. Len(Bytes(a, n)) = n - a
    BY Ends0
  <2>4. QED  BY <2>2, <2>3 DEF Upto
<1>4. QED  BY <1>1, <1>2, <1>3 DEF IsPrefix

LEMMA ClosedKeeps ==
  ASSUME Inv, ClosedHeader
  PROVE  StreamInv' /\ LimitInv' /\ PlaceInv' /\ BodyInv' /\ FailsOnlySplit'
<1>1. pc = "more" /\ Pieces = {} /\ closed /\ stream[Last(header)] \in Blank
  BY DEF ClosedHeader
<1>2. /\ BufferInv /\ StreamInv /\ LimitInv /\ asked # 0 /\ split \in BOOLEAN
      /\ HeaderInv /\ IsData(body, stream, BodyAt, BodyAt) /\ body \in Seq(Nat)
      /\ failed = "" /\ (answer.end = "none" => taken <= BodyAt)
  BY <1>1, HeaderSeen
<1>3. PICK A \in Nat, H \in Nat, B \in Nat, S \in Nat :
        /\ A = AnswerAt /\ H = HeaderAt /\ B = BodyAt /\ S = Sent
        /\ A <= H /\ H < B /\ B <= S /\ supply <= S
  BY <1>2, Places
<1>4. PICK n \in Nat : n = Eaten /\ n = taken /\ n = supply /\ buf = <<>>
  BY <1>1, <1>2, NoPieces, Here
<1>5. H < n /\ header = Bytes(H, n) /\ (answer.end # "none" => n < B)
      /\ (answer.end = "none" => n <= B)
  BY <1>2, <1>3, <1>4 DEF HeaderInv
<1>6. /\ UNCHANGED server /\ UNCHANGED <<taken, buf, eaten, csize, header, body, split>>
      /\ temp' = <<>> /\ received' = 0 /\ failed' = failed
      /\ pc' \in {"answered", "chunk"} /\ (pc' = "chunk" => answer.chunks # <<>>)
  BY DEF ClosedHeader, NextChunk, GoTo
<1>7. /\ StreamInv' /\ asked' # 0 /\ stream' = stream /\ answer' = answer /\ closed' = closed
      /\ HeaderAt' = H /\ AnswerAt' = A /\ BodyAt' = B /\ Sent' = S /\ Refusable' = Refusable
      /\ supply' = supply /\ HeaderBytes' = HeaderBytes
  BY <1>2, <1>3, <1>6, SameAnswer
<1>8. n < B => CutOff /\ CutOff'
  <2>1. ASSUME n < B PROVE IsPrefix(header, Bytes(H, B))
    <3>1. n <= B
      BY <2>1
    <3>2. QED  BY <1>5, <3>1, HeaderPrefix
  <2>2. n < B => CutOff
    BY <1>1, <1>3, <1>4, <2>1 DEF CutOff
  <2>3. n < B => CutOff'
    BY <1>1, <1>3, <1>4, <1>6, <1>7, <2>1 DEF CutOff
  <2>4. QED  BY <2>2, <2>3
<1>9. ASSUME ~ (n < B)
      PROVE  /\ n = B /\ answer.end = "none" /\ B = S
             /\ header = HeaderBytes /\ ~ CutOff'
  <2>1. answer.end = "none" /\ n = B
    BY <1>5, <1>9
  <2>2. B = S
    BY <1>2, <1>3, <2>1, OnlyHeader
  <2>3. header = HeaderBytes
    BY <1>3, <1>5, <2>1 DEF HeaderBytes
  <2>4. ~ CutOff'
    BY <1>4, <1>7, <1>9 DEF CutOff
  <2>5. QED  BY <2>1, <2>2, <2>3, <2>4
<1>10. pc' = "chunk" => n < B
  <2>1. answer.chunks # <<>> => answer.end = "crlf"
    <3>1. answer \in Answers /\ IsBody(answer)
      BY <1>2, HttpReaderAssumption DEF StreamInv
    <3>2. QED  BY <3>1 DEF IsBody
  <2>2. QED  BY <1>5, <1>6, <2>1
<1>11. LimitInv'
  <2>1. 0 <= MAXCHUNKHEADER /\ 0 \in Nat
    BY HttpReaderAssumption
  <2>2. QED  BY <1>2, <1>6, <2>1 DEF LimitInv
<1>12. PlaceInv'
  <2>1. CASE pc' = "answered"
    <3>1. AnsweredInv'
      BY <1>1, <1>6, <1>7, <1>8, <1>9 DEF AnsweredInv
    <3>2. QED  BY <2>1, <3>1 DEF PlaceInv
  <2>2. CASE pc' = "chunk"
    <3>1. ChunkInv'
      BY <1>6, <1>8, <1>10, <2>2 DEF ChunkInv
    <3>2. QED  BY <2>2, <3>1 DEF PlaceInv
  <2>3. QED  BY <1>6, <2>1, <2>2
<1>13. BodyInv'
  <2>1. CASE n < B
    BY <1>2, <1>3, <1>6, <1>7, <1>8, <2>1 DEF BodyInv, InBody
  <2>2. CASE ~ (n < B)
    BY <1>2, <1>3, <1>6, <1>7, <1>9, <1>10, <2>2 DEF BodyInv, InBody
  <2>3. QED  BY <2>1, <2>2
<1>14. FailsOnlySplit'
  BY <1>2, <1>6 DEF FailsOnlySplit
<1>15. QED  BY <1>7, <1>11, <1>12, <1>13, <1>14

\* The places of a chunk in the stream: at bytes of the body before it, d digits
\* and z bytes of data in it.
ChunkIs(i, B, S, at, d, z) ==
  /\ B = BodyAt /\ S = Sent /\ at = Chunk(i).at /\ d = Len(Chunk(i).digits)
  /\ z = SizeOf(Chunk(i)) /\ d >= 1
  /\ DataAt(Chunk(i)) = at + d + 2 /\ ChunkEnd(Chunk(i)) = at + d + 2 + z + 2
  /\ B + at + d + 2 + z + 2 <= S
  /\ i \in 1 .. Len(answer.chunks) /\ Len(answer.chunks) \in Nat
  /\ i = Len(answer.chunks) => z = 0 /\ B + at + d + 2 + z + 2 = S
  /\ i # Len(answer.chunks) =>
       /\ z > 0 /\ i + 1 \in DOMAIN answer.chunks
       /\ Chunk(i + 1).at = at + d + 2 + z + 2

LEMMA ChunkPlaces ==
  ASSUME BufferInv, StreamInv, asked # 0, NEW i \in DOMAIN answer.chunks
  PROVE  \E B, S, at, d, z \in Nat : ChunkIs(i, B, S, at, d, z)
<1>1. answer \in Answers /\ IsBody(answer)
  BY HttpReaderAssumption DEF StreamInv
<1>2. PICK A \in Nat, B \in Nat, S \in Nat :
        /\ A = AnswerAt /\ B = BodyAt /\ S = Sent /\ A <= B
        /\ answer.head = B - A /\ Len(answer.text) = S - A
  <2>1. PICK A \in Nat, H \in Nat, B \in Nat, S \in Nat :
          /\ A = AnswerAt /\ H = HeaderAt /\ B = BodyAt /\ S = Sent
          /\ A <= H /\ H < B /\ B <= S
          /\ answer.head = B - A /\ Len(answer.text) = S - A
    BY Places
  <2>2. A <= B
    BY <2>1
  <2>3. QED  BY <2>1, <2>2
<1>3. /\ answer.chunks \in Seq([at : Nat, digits : Seq(Hex)])
      /\ IsChunk(answer, Chunk(i))
      /\ IF i = Len(answer.chunks)
            THEN SizeOf(Chunk(i)) = 0 /\ answer.head + ChunkEnd(Chunk(i)) = Len(answer.text)
            ELSE SizeOf(Chunk(i)) > 0 /\ Chunk(i + 1).at = ChunkEnd(Chunk(i))
  BY <1>1 DEF IsBody, Chunk
<1>4. Chunk(i) \in [at : Nat, digits : Seq(Hex)] /\ i \in 1 .. Len(answer.chunks)
      /\ DOMAIN answer.chunks = 1 .. Len(answer.chunks) /\ Len(answer.chunks) \in Nat
  <2>1. PICK l \in Nat : l = Len(answer.chunks) /\ DOMAIN answer.chunks = 1 .. l
    BY <1>3, LenProperties
  <2>2. i \in 1 .. l /\ answer.chunks[i] \in [at : Nat, digits : Seq(Hex)]
    BY <1>3, <2>1, ElementOfSeq
  <2>3. QED  BY <2>1, <2>2 DEF Chunk
<1>5. PICK at \in Nat, d \in Nat : at = Chunk(i).at /\ d = Len(Chunk(i).digits)
  BY <1>4
<1>6. d >= 1
  <2>1. Chunk(i).digits # <<>> /\ Chunk(i).digits \in Seq(Hex)
    BY <1>3, <1>4 DEF IsChunk
  <2>2. QED  BY <1>5, <2>1
<1>7. PICK z \in Nat : z = SizeOf(Chunk(i))
  BY <1>3 DEF IsChunk
<1>8. DataAt(Chunk(i)) = at + d + 2
  BY <1>5 DEF DataAt
<1>9. ChunkEnd(Chunk(i)) = at + d + 2 + z + 2
  BY <1>7, <1>8 DEF ChunkEnd
<1>10. PICK e \in Nat : e = at + d + 2 + z + 2
  OBVIOUS
<1>11. (B - A) + e <= S - A
  BY <1>2, <1>3, <1>9, <1>10 DEF IsChunk
<1>12. i = Len(answer.chunks) => z = 0 /\ (B - A) + e = S - A
  BY <1>2, <1>3, <1>7, <1>9, <1>10
<1>13. i # Len(answer.chunks) => z > 0 /\ Chunk(i + 1).at = e /\ i + 1 \in DOMAIN answer.chunks
  <2>1. PICK l \in Nat : l = Len(answer.chunks) /\ DOMAIN answer.chunks = 1 .. l /\ i \in 1 .. l
    BY <1>4
  <2>2. i # l => i + 1 \in 1 .. l
    BY <2>1
  <2>3. i # l => z > 0 /\ Chunk(i + 1).at = e
    BY <1>3, <1>7, <1>9, <1>10, <2>1
  <2>4. QED  BY <2>1, <2>2, <2>3
<1>14. B + at + d + 2 + z + 2 <= S
  BY <1>10, <1>11
<1>15. i = Len(answer.chunks) => z = 0 /\ B + at + d + 2 + z + 2 = S
  BY <1>10, <1>12
<1>16. i # Len(answer.chunks) =>
         z > 0 /\ i + 1 \in DOMAIN answer.chunks /\ Chunk(i + 1).at = at + d + 2 + z + 2
  BY <1>10, <1>13
<1>17. /\ B = BodyAt /\ S = Sent /\ at = Chunk(i).at /\ d = Len(Chunk(i).digits)
       /\ z = SizeOf(Chunk(i)) /\ d >= 1
       /\ i \in 1 .. Len(answer.chunks) /\ Len(answer.chunks) \in Nat
  BY <1>2, <1>4, <1>5, <1>6, <1>7
<1>18. ChunkIs(i, B, S, at, d, z)
  BY <1>8, <1>9, <1>14, <1>15, <1>16, <1>17 DEF ChunkIs
<1>19. QED  BY <1>18

LEMMA NoPieceKeeps ==
  ASSUME Inv, NoPiece
  PROVE  StreamInv' /\ LimitInv' /\ PlaceInv' /\ BodyInv' /\ FailsOnlySplit'
<1>1. pc \in {"skip", "more", "chunk"} /\ Pieces = {}
  BY DEF NoPiece
<1>2. /\ BufferInv /\ StreamInv /\ LimitInv /\ PlaceInv /\ BodyInv
      /\ asked # 0 /\ split \in BOOLEAN
  BY <1>1, Asked DEF Inv, StreamInv
<1>3. PICK A \in Nat, H \in Nat, B \in Nat, S \in Nat :
        /\ A = AnswerAt /\ H = HeaderAt /\ B = BodyAt /\ S = Sent
        /\ A <= H /\ H < B /\ B <= S /\ supply <= S
  BY <1>2, Places
<1>4. PICK n \in Nat : n = Eaten /\ n = taken /\ n = supply /\ buf = <<>>
  BY <1>1, <1>2, NoPieces, Here
<1>5. /\ UNCHANGED <<server, taken, buf, eaten, locals, header, body, split>>
      /\ pc' = "failed" /\ failed' = IF supply < Sent THEN "stalled" ELSE "starved"
  BY DEF NoPiece, GiveUp
<1>6. UNCHANGED server /\ received' = received /\ csize' = csize /\ split' = split
      /\ body' = body /\ buf' = buf
  BY <1>5 DEF locals
<1>7. \E upto \in BodyAt .. Sent : IsData(body, stream, BodyAt, upto)
  <2>1. CASE pc \in {"skip", "more"} \/ (pc = "chunk" /\ CutOff)
    <3>1. IsData(body, stream, BodyAt, BodyAt)
      BY <1>2, <2>1 DEF BodyInv, InBody
    <3>2. B \in B .. S
      BY <1>3
    <3>3. QED  BY <1>3, <3>1, <3>2
  <2>2. CASE pc = "chunk" /\ ~ CutOff
    <3>1. IsData(body, stream, BodyAt, Eaten)
      BY <1>2, <2>2 DEF BodyInv, InBody
    <3>2. BetweenChunks
      BY <1>2, <2>2 DEF PlaceInv, ChunkInv
    <3>3. B <= n
      <4>1. PICK i \in DOMAIN answer.chunks :
              \/ Eaten = BodyAt + Chunk(i).at
              \/ Eaten = BodyAt + ChunkEnd(Chunk(i)) - 2
        BY <3>2 DEF BetweenChunks
      <4>2. PICK at \in Nat, d \in Nat, z \in Nat :
              at = Chunk(i).at /\ ChunkEnd(Chunk(i)) = at + d + 2 + z + 2
        <5>1. PICK B1 \in Nat, S1 \in Nat, at \in Nat, d \in Nat, z \in Nat :
                ChunkIs(i, B1, S1, at, d, z)
          BY <1>2, ChunkPlaces
        <5>2. QED  BY <5>1 DEF ChunkIs
      <4>3. n = B + at \/ n = B + (at + d + 2 + z + 2) - 2
        BY <1>3, <1>4, <4>1, <4>2
      <4>4. QED  BY <4>3
    <3>4. n \in B .. S
      BY <1>3, <1>4, <3>3
    <3>5. QED  BY <1>3, <1>4, <3>1, <3>4
  <2>3. QED  BY <1>1, <2>1, <2>2
<1>8. supply < Sent
  <2>1. SUFFICES n # S
    BY <1>3, <1>4
  <2>2. CASE pc = "skip"
    <3>1. n <= H
      BY <1>2, <1>3, <1>4, <2>2 DEF PlaceInv, SkipInv
    <3>2. QED  BY <1>3, <3>1
  <2>3. CASE pc = "more"
    <3>1. HeaderInv
      BY <1>2, <2>3 DEF PlaceInv
    <3>2. CASE answer.end # "none"
      <4>1. n < B
        BY <1>3, <1>4, <3>1, <3>2 DEF HeaderInv
      <4>2. QED  BY <1>3, <4>1
    <3>3. CASE answer.end = "none"
      <4>1. closed
        BY <1>2, <3>3 DEF StreamInv
      <4>2. H < n /\ header = Bytes(H, n)
        BY <1>3, <1>4, <3>1 DEF HeaderInv
      <4>3. Last(header) = n
        <5>1. H <= n
          BY <4>2
        <5>2. QED  BY <4>2, <5>1, Ends0
      <4>4. stream[n] \notin Blank
        BY <2>3, <4>1, <4>3 DEF NoPiece
      <4>5. stream[B] \in Blank
        BY <1>2, <1>3, HeaderEdges
      <4>6. B = S
        BY <1>2, <1>3, <3>3, OnlyHeader
      <4>7. QED  BY <4>4, <4>5, <4>6
    <3>4. QED  BY <3>2, <3>3
  <2>4. CASE pc = "chunk"
    <3>1. CASE CutOff
      <4>1. n < B
        BY <1>3, <1>4, <3>1 DEF CutOff
      <4>2. QED  BY <1>3, <4>1
    <3>2. CASE BetweenChunks
      <4>1. PICK i \in DOMAIN answer.chunks :
              \/ Eaten = BodyAt + Chunk(i).at
              \/ Eaten = BodyAt + ChunkEnd(Chunk(i)) - 2
        BY <3>2 DEF BetweenChunks
      <4>2. PICK at \in Nat, d \in Nat, z \in Nat :
              /\ at = Chunk(i).at /\ ChunkEnd(Chunk(i)) = at + d + 2 + z + 2
              /\ B + at + d + 2 + z + 2 <= S
        <5>1. PICK B1 \in Nat, S1 \in Nat, at \in Nat, d \in Nat, z \in Nat :
                ChunkIs(i, B1, S1, at, d, z)
          BY <1>2, ChunkPlaces
        <5>2. B1 = B /\ S1 = S
          BY <1>3, <5>1 DEF ChunkIs
        <5>3. QED  BY <5>1, <5>2 DEF ChunkIs
      <4>3. n = B + at \/ n = B + (at + d + 2 + z + 2) - 2
        BY <1>3, <1>4, <4>1, <4>2
      <4>4. QED  BY <4>2, <4>3
    <3>3. QED  BY <1>2, <2>4, <3>1, <3>2 DEF PlaceInv, ChunkInv
  <2>5. QED  BY <1>1, <2>2, <2>3, <2>4
<1>9. PICK upto \in BodyAt .. Sent : IsData(body, stream, BodyAt, upto)
  BY <1>7
<1>10. failed' = "stalled"
  BY <1>5, <1>8
<1>11. /\ split' \in BOOLEAN /\ received' \in Nat /\ csize' \in Nat /\ Len(buf') <= MAXRECV
       /\ pc # "answered" /\ pc' = "failed"
  BY <1>1, <1>2, <1>5, <1>6 DEF LimitInv
<1>12. QED  BY <1>2, <1>6, <1>9, <1>10, <1>11, Fails

\* Its bytes: digits, CRLF, data, CRLF.
ChunkReads(i, B, at, d, z) ==
  /\ \A k \in 1 .. d : stream[B + at + k] = Chunk(i).digits[k]
                       /\ stream[B + at + k] \in Hex
  /\ stream[B + at + d + 1] = CR /\ stream[B + at + d + 2] = LF
  /\ \A k \in B + at + d + 3 .. B + at + d + 2 + z : stream[k] = "d"
  /\ stream[B + at + d + 2 + z + 1] = CR /\ stream[B + at + d + 2 + z + 2] = LF
  /\ DOMAIN Chunk(i).digits = 1 .. d /\ Chunk(i).digits \in Seq(Hex)

LEMMA ChunkBytes ==
  ASSUME BufferInv, StreamInv, asked # 0, NEW i \in DOMAIN answer.chunks,
         NEW B \in Nat, NEW S \in Nat, NEW at \in Nat, NEW d \in Nat, NEW z \in Nat,
         ChunkIs(i, B, S, at, d, z)
  PROVE  ChunkReads(i, B, at, d, z)
<1>1. answer \in Answers /\ IsBody(answer)
  BY HttpReaderAssumption DEF StreamInv
<1>2. PICK A \in Nat, h \in Nat : /\ A = AnswerAt /\ B = A + h /\ h = answer.head
                                  /\ Len(answer.text) = S - A
  <2>1. PICK A \in Nat, H \in Nat, B1 \in Nat, S1 \in Nat :
          /\ A = AnswerAt /\ H = HeaderAt /\ B1 = BodyAt /\ S1 = Sent
          /\ A <= H /\ H < B1 /\ B1 <= S1
          /\ answer.head = B1 - A /\ Len(answer.text) = S1 - A
    BY Places
  <2>2. B1 = B /\ S1 = S
    BY <2>1 DEF ChunkIs
  <2>3. PICK h \in Nat : h = B1 - A
    BY <2>1
  <2>4. QED  BY <2>1, <2>2, <2>3
<1>3. /\ at = Chunk(i).at /\ d = Len(Chunk(i).digits) /\ z = SizeOf(Chunk(i))
      /\ DataAt(Chunk(i)) = at + d + 2 /\ B + at + d + 2 + z + 2 <= S
  BY DEF ChunkIs
<1>fits. B + at + d + 2 + z + 2 <= S
  BY <1>3
<1>4. answer.chunks \in Seq([at : Nat, digits : Seq(Hex)]) /\ IsChunk(answer, Chunk(i))
  BY <1>1 DEF IsBody, Chunk
<1>5. Chunk(i).digits \in Seq(Hex) /\ DOMAIN Chunk(i).digits = 1 .. d
  <2>1. i \in 1 .. Len(answer.chunks)
    BY DEF ChunkIs
  <2>2. Chunk(i) \in [at : Nat, digits : Seq(Hex)]
    BY <1>4, <2>1, ElementOfSeq DEF Chunk
  <2>3. QED  BY <1>3, <2>2
<1>6. ASSUME NEW j \in 1 .. S - B
      PROVE  stream[B + j] = answer.text[h + j]
  <2>1. h + j \in 1 .. S - A /\ A + (h + j) = B + j
    <3>1. B = A + h
      BY <1>2
    <3>2. QED  BY <3>1
  <2>2. QED  BY <1>2, <2>1, AnswerByte
<1>7. /\ \A k \in 1 .. d : answer.text[h + (at + k)] = Chunk(i).digits[k]
      /\ answer.text[h + (at + d + 1)] = CR /\ answer.text[h + (at + d + 2)] = LF
      /\ \A k \in at + d + 2 + 1 .. at + d + 2 + z : answer.text[h + k] = "d"
      /\ answer.text[h + (at + d + 2 + z + 1)] = CR
      /\ answer.text[h + (at + d + 2 + z + 2)] = LF
  BY <1>2, <1>3, <1>4, <1>5 DEF IsChunk
<1>8. ASSUME NEW k \in 1 .. d
      PROVE  stream[B + at + k] = Chunk(i).digits[k] /\ stream[B + at + k] \in Hex
  <2>1. at + k \in 1 .. S - B /\ B + (at + k) = B + at + k
    BY <1>fits
  <2>2. stream[B + (at + k)] = answer.text[h + (at + k)]
    BY <1>6, <2>1
  <2>3. Chunk(i).digits[k] \in Hex
    BY <1>3, <1>5, ElementOfSeq
  <2>4. QED  BY <1>7, <2>1, <2>2, <2>3
<1>9. stream[B + at + d + 1] = CR /\ stream[B + at + d + 2] = LF
  <2>1. /\ at + d + 1 \in 1 .. S - B /\ B + (at + d + 1) = B + at + d + 1
        /\ at + d + 2 \in 1 .. S - B /\ B + (at + d + 2) = B + at + d + 2
    BY <1>fits
  <2>2. QED  BY <1>6, <1>7, <2>1
<1>10. stream[B + at + d + 2 + z + 1] = CR /\ stream[B + at + d + 2 + z + 2] = LF
  <2>1. /\ at + d + 2 + z + 1 \in 1 .. S - B
        /\ B + (at + d + 2 + z + 1) = B + at + d + 2 + z + 1
        /\ at + d + 2 + z + 2 \in 1 .. S - B
        /\ B + (at + d + 2 + z + 2) = B + at + d + 2 + z + 2
    BY <1>fits
  <2>2. QED  BY <1>6, <1>7, <2>1
<1>11. ASSUME NEW k \in B + at + d + 3 .. B + at + d + 2 + z
       PROVE  stream[k] = "d"
  <2>1. PICK j \in 1 .. S - B : j \in at + d + 2 + 1 .. at + d + 2 + z /\ B + j = k
    <3>1. k - B \in 1 .. S - B /\ k - B \in at + d + 2 + 1 .. at + d + 2 + z /\ B + (k - B) = k
      BY <1>fits
    <3>2. QED  BY <3>1
  <2>2. QED  BY <1>6, <1>7, <2>1
<1>12. QED  BY <1>5, <1>8, <1>9, <1>10, <1>11 DEF ChunkReads

\* Bytes without data in them, and with nothing else.
LEMMA NoData ==
  ASSUME NEW b, NEW s, NEW from \in Nat, NEW m \in Nat, NEW m2 \in Nat, m <= m2,
         IsData(b, s, from, m), \A k \in m + 1 .. m2 : s[k] # "d"
  PROVE  IsData(b, s, from, m2)
<1>1. {i \in from + 1 .. m : s[i] = "d"} = {i \in from + 1 .. m2 : s[i] = "d"}
  <2>1. ASSUME NEW i \in from + 1 .. m2, s[i] = "d"
        PROVE  i \in from + 1 .. m
    <3>1. ~ (i \in m + 1 .. m2)
      BY <2>1
    <3>2. QED  BY <3>1
  <2>2. \A i \in from + 1 .. m : i \in from + 1 .. m2
    OBVIOUS
  <2>3. QED  BY <2>1, <2>2
<1>2. QED  BY <1>1 DEF IsData

LEMMA OnlyData ==
  ASSUME NEW b \in Seq(Nat), NEW s, NEW from \in Nat, NEW m \in Nat, NEW m2 \in Nat,
         from <= m, m <= m2,
         IsData(b, s, from, m), \A k \in m + 1 .. m2 : s[k] = "d"
  PROVE  IsData(b \o Bytes(m, m2), s, from, m2) /\ b \o Bytes(m, m2) \in Seq(Nat)
<1> DEFINE t == Bytes(m, m2)
           c == b \o t
<1>1. /\ t \in Seq(Nat) /\ Len(t) = m2 - m
      /\ \A i \in 1 .. m2 - m : t[i] = m + i
  BY Ends0 DEF Bytes
<1>2. PICK l \in Nat, w \in Nat : l = Len(b) /\ w = m2 - m /\ DOMAIN b = 1 .. l
  BY LenProperties
<1> HIDE DEF t
<1>3. c \in Seq(Nat) /\ DOMAIN c = 1 .. l + w
  BY <1>1, <1>2
<1>4. /\ \A i \in 1 .. l : c[i] = b[i]
      /\ \A i \in l + 1 .. l + w : c[i] = m + (i - l)
  <2>1. \A i \in 1 .. l + w : c[i] = IF i <= l THEN b[i] ELSE t[i - l]
    BY <1>1, <1>2, ConcatProperties
  <2>2. \A i \in 1 .. l : c[i] = b[i]
    <3>1. ASSUME NEW i \in 1 .. l PROVE c[i] = b[i]
      <4>1. i \in 1 .. l + w /\ i <= l
        OBVIOUS
      <4>2. QED  BY <2>1, <4>1
    <3>2. QED  BY <3>1
  <2>3. ASSUME NEW i \in l + 1 .. l + w
        PROVE  c[i] = m + (i - l)
    <3>1. i \in 1 .. l + w /\ ~ (i <= l) /\ i - l \in 1 .. w
      OBVIOUS
    <3>2. QED  BY <1>1, <1>2, <2>1, <3>1
  <2>4. QED  BY <2>2, <2>3
<1>5. \A i \in 1 .. l : b[i] \in Nat /\ b[i] <= m /\ b[i] \in from + 1 .. m /\ s[b[i]] = "d"
  <2>1. ASSUME NEW i \in 1 .. l
        PROVE  b[i] \in {j \in from + 1 .. m : s[j] = "d"}
    <3>1. b[i] \in Range(b)
      BY <1>2 DEF Range
    <3>2. QED  BY <3>1 DEF IsData
  <2>2. QED  BY <2>1
<1> HIDE DEF c
<1>6. ASSUME NEW i \in DOMAIN c, NEW j \in DOMAIN c, i < j
      PROVE  c[i] < c[j]
  <2>1. i \in Nat /\ j \in Nat /\ 1 <= i /\ j <= l + w
    BY <1>3
  <2>2. CASE j <= l
    <3>1. i \in 1 .. l /\ j \in 1 .. l
      BY <1>6, <2>1, <2>2
    <3>2. b[i] < b[j]
      BY <1>2, <1>6, <3>1 DEF IsData
    <3>3. QED  BY <1>4, <3>1, <3>2
  <2>3. CASE i <= l /\ ~ (j <= l)
    <3>1. i \in 1 .. l /\ j \in l + 1 .. l + w
      BY <1>6, <2>1, <2>3
    <3>2. c[i] = b[i] /\ b[i] \in Nat /\ b[i] <= m /\ c[j] = m + (j - l)
      BY <1>4, <1>5, <3>1
    <3>3. j - l >= 1
      BY <3>1
    <3>4. b[i] < m + (j - l)
      <4>1. PICK y \in Nat : y = b[i] /\ y <= m
        BY <3>2
      <4>2. QED  BY <2>1, <3>3, <4>1
    <3>5. QED  BY <3>2, <3>4
  <2>4. CASE ~ (i <= l)
    <3>1. i \in l + 1 .. l + w /\ j \in l + 1 .. l + w
      BY <1>6, <2>1, <2>4
    <3>2. c[i] = m + (i - l) /\ c[j] = m + (j - l)
      BY <1>4, <3>1
    <3>3. QED  BY <1>6, <3>1, <3>2
  <2>5. QED  BY <2>2, <2>3, <2>4
<1>7. ASSUME NEW x \in Range(c)
      PROVE  x \in {i \in from + 1 .. m2 : s[i] = "d"}
  <2>1. PICK i \in 1 .. l + w : x = c[i]
    BY <1>3 DEF Range
  <2>2. CASE i <= l
    <3>1. i \in 1 .. l
      BY <2>2
    <3>2. x = b[i] /\ b[i] \in from + 1 .. m /\ s[b[i]] = "d"
      BY <1>4, <1>5, <2>1, <3>1
    <3>3. QED  BY <3>2
  <2>3. CASE ~ (i <= l)
    <3>1. i \in l + 1 .. l + w
      BY <2>3
    <3>2. x = m + (i - l)
      BY <1>4, <2>1, <3>1
    <3>3. x \in m + 1 .. m2 /\ x \in from + 1 .. m2
      BY <1>2, <3>1, <3>2
    <3>4. QED  BY <3>3
  <2>4. QED  BY <2>2, <2>3
<1>8. ASSUME NEW x \in from + 1 .. m2, s[x] = "d"
      PROVE  x \in Range(c)
  <2>1. CASE x <= m
    <3>1. x \in Range(b)
      <4>1. x \in from + 1 .. m
        BY <2>1
      <4>2. QED  BY <1>8, <4>1 DEF IsData
    <3>2. PICK i \in 1 .. l : x = b[i]
      BY <1>2, <3>1 DEF Range
    <3>3. i \in DOMAIN c /\ c[i] = x
      BY <1>3, <1>4, <3>2
    <3>4. QED  BY <3>3 DEF Range
  <2>2. CASE ~ (x <= m)
    <3>1. PICK i \in l + 1 .. l + w : i = l + (x - m)
      <4>1. l + (x - m) \in l + 1 .. l + w
        BY <1>2, <2>2
      <4>2. QED  BY <4>1
    <3>2. i \in DOMAIN c /\ c[i] = m + (i - l) /\ m + (i - l) = x
      BY <1>3, <1>4, <3>1
    <3>3. QED  BY <3>2 DEF Range
  <2>3. QED  BY <2>1, <2>2
<1>9. Range(c) = {i \in from + 1 .. m2 : s[i] = "d"}
  <2>1. ASSUME NEW x \in {i \in from + 1 .. m2 : s[i] = "d"}
        PROVE  x \in Range(c)
    BY <1>8, <2>1
  <2>2. QED  BY <1>7, <2>1
<1>10. QED  BY <1>3, <1>6, <1>9 DEF IsData, c, t

\* A step that does not fail has only to keep its place and the body.
LEMMA GoesOn ==
  ASSUME Inv, UNCHANGED server, pc \notin {"answered", "failed"}, pc' \in {"answered", "chunk", "length"},
         failed' = failed, split' \in BOOLEAN, received' \in Nat, csize' \in Nat,
         Len(buf') <= MAXRECV, pc' = "chunk" => received' <= MAXCHUNKHEADER
  PROVE  StreamInv' /\ LimitInv' /\ FailsOnlySplit'
<1>1. StreamInv /\ asked # 0 /\ failed = "" /\ LimitInv
  BY Asked DEF Inv, LimitInv
<1>2. StreamInv'
  BY <1>1, SameAnswer
<1>3. LimitInv'
  BY <1>1 DEF LimitInv
<1>4. FailsOnlySplit'
  BY <1>1 DEF FailsOnlySplit
<1>5. QED  BY <1>2, <1>3, <1>4

\* What RecvLength() is asked for, wherever it is: so many bytes are there.
LEMMA ThenKeepsPlace ==
  ASSUME Inv, pc = "length", NEW n \in Nat, n = Eaten, NEW k \in Nat, k = length.bytes,
         NEW u \in Nat, u = supply, n + k <= u, Eaten' = n + k,
         Then(Bytes(n, n + k)), UNCHANGED server, split => split', split' \in BOOLEAN,
         Len(buf') <= MAXRECV
  PROVE  StreamInv' /\ LimitInv' /\ PlaceInv' /\ BodyInv' /\ FailsOnlySplit'
<1>1. /\ BufferInv /\ StreamInv /\ LimitInv /\ PlaceInv /\ BodyInv
      /\ asked # 0 /\ failed = "" /\ received \in Nat /\ csize \in Nat /\ body \in Seq(Nat)
  BY Asked DEF Inv, LimitInv, BodyInv
<1>2. length.then \in Callers
  BY <1>1 DEF BufferInv
<1>3. PICK A \in Nat, H \in Nat, B \in Nat, S \in Nat :
        /\ A = AnswerAt /\ H = HeaderAt /\ B = BodyAt /\ S = Sent
        /\ A <= H /\ H < B /\ B <= S /\ supply <= S
  BY <1>1, Places
<1>4. /\ asked' # 0 /\ stream' = stream /\ answer' = answer /\ closed' = closed
      /\ supply' = supply /\ HeaderAt' = H /\ BodyAt' = B /\ Sent' = S
      /\ HeaderBytes' = HeaderBytes /\ Refusable' = Refusable
  BY <1>1, <1>3, SameAnswer
<1>5. 0 \in Nat /\ MAXCHUNKHEADER \in Nat /\ 0 <= MAXCHUNKHEADER
  BY HttpReaderAssumption
<1>6. B <= u => ~ CutOff'
  <2>1. CutOff' => u < B
    BY <1>4 DEF CutOff
  <2>2. QED  BY <2>1
<1>7. CASE length.then = "header"
  <2>1. HeaderEndInv
    BY <1>1, <1>7 DEF PlaceInv
  <2>2. k = B - 2 - n /\ n <= B - 2 /\ answer.end = "crlf" /\ H <= n /\ header = Bytes(H, n)
    <3>1. ~ (k > u - n)
      OBVIOUS
    <3>2. QED  BY <1>3, <2>1, <3>1 DEF HeaderEndInv
  <2>3. /\ header' = header \o Bytes(n, n + k) /\ pc' = "length" /\ failed' = failed
        /\ length' = [bytes |-> 2, then |-> "emptyline"] /\ body' = body
        /\ received' = received /\ csize' = csize
    BY <1>7 DEF Then, TakeLength, locals
  <2>4. n + k = B - 2
    BY <2>2
  <2>5. header' = Bytes(H, B - 2)
    <3>1. H \in Nat /\ n \in Nat /\ B - 2 \in Nat /\ H <= n /\ n <= B - 2
      BY <2>2
    <3>2. Bytes(H, n) \o Bytes(n, B - 2) = Bytes(H, B - 2)
      BY <3>1, Join
    <3>3. QED  BY <2>2, <2>3, <2>4, <3>2
  <2>6. EmptyLineInv'
    <3>1. header' = HeaderBytes'
      BY <1>3, <1>4, <2>2, <2>5 DEF HeaderBytes
    <3>2. QED  BY <1>4, <2>2, <2>3, <2>4, <3>1 DEF EmptyLineInv
  <2>7. PlaceInv'
    BY <2>3, <2>6 DEF PlaceInv
  <2>8. BodyInv'
    <3>1. IsData(body, stream, BodyAt, BodyAt)
      BY <1>1, <1>7 DEF BodyInv, InBody
    <3>2. QED  BY <1>1, <1>3, <1>4, <2>3, <3>1 DEF BodyInv, InBody
  <2>9. QED  BY <1>1, <2>3, <2>7, <2>8, GoesOn
<1>8. CASE length.then = "bareheader"
  <2>1. BareHeaderEndInv
    BY <1>1, <1>8 DEF PlaceInv
  <2>2. k = B - n /\ n <= B /\ answer.end = "lf" /\ H <= n /\ header = Bytes(H, n)
    BY <1>3, <2>1 DEF BareHeaderEndInv
  <2>3. /\ header' = header \o Bytes(n, n + k) /\ pc' = "answered" /\ failed' = failed
        /\ body' = body /\ received' = received /\ csize' = csize
    BY <1>8 DEF Then, GoTo, locals
  <2>4. n + k = B
    BY <2>2
  <2>5. header' = Bytes(H, B)
    <3>1. Bytes(H, n) \o Bytes(n, B) = Bytes(H, B)
      BY <2>2, Join
    <3>2. QED  BY <2>2, <2>3, <2>4, <3>1
  <2>6. B = S
    BY <1>1, <1>3, <2>2, OnlyHeader
  <2>7. AnsweredInv'
    <3>1. header' = HeaderBytes'
      BY <1>3, <1>4, <2>2, <2>5 DEF HeaderBytes
    <3>2. S - 2 <= n + k /\ n + k <= S
      BY <2>4, <2>6
    <3>3. Blanks(stream', Eaten', Sent')
      BY <1>4, <2>4, <2>6 DEF Blanks
    <3>4. QED  BY <1>4, <3>1, <3>2, <3>3 DEF AnsweredInv
  <2>8. PlaceInv'
    BY <2>3, <2>7 DEF PlaceInv
  <2>9. BodyInv'
    <3>1. IsData(body, stream, BodyAt, BodyAt)
      BY <1>1, <1>8 DEF BodyInv, InBody
    <3>2. ~ CutOff'
      BY <1>6, <2>4
    <3>3. QED  BY <1>1, <1>3, <1>4, <2>3, <2>6, <3>1, <3>2 DEF BodyInv, InBody
  <2>10. QED  BY <1>1, <2>3, <2>8, <2>9, GoesOn
<1>9. CASE length.then = "emptyline"
  <2>1. EmptyLineInv
    BY <1>1, <1>9 DEF PlaceInv
  <2>2. k = 2 /\ n = B - 2 /\ answer.end = "crlf" /\ header = HeaderBytes
    BY <1>3, <2>1 DEF EmptyLineInv
  <2>3. /\ header' = header /\ failed' = failed /\ body' = body
        /\ received' = 0 /\ csize' = csize /\ temp' = <<>>
        /\ pc' = IF answer.chunks = <<>> THEN "answered" ELSE "chunk"
    BY <1>9 DEF Then, GoTo, NextChunk
  <2>4. n + k = B
    BY <2>2
  <2>5. ~ CutOff'
    BY <1>6, <2>4
  <2>6. IsData(body, stream, BodyAt, BodyAt)
    BY <1>1, <1>9 DEF BodyInv, InBody
  <2>7. CASE answer.chunks = <<>>
    <3>1. B = S
      BY <1>1, <1>3, <2>7, OnlyHeader
    <3>2. AnsweredInv'
      <4>1. S - 2 <= n + k /\ n + k <= S
        BY <2>4, <3>1
      <4>2. Blanks(stream', Eaten', Sent')
        BY <1>4, <2>4, <3>1 DEF Blanks
      <4>3. QED  BY <1>4, <2>2, <2>3, <4>1, <4>2 DEF AnsweredInv
    <3>3. PlaceInv'
      BY <2>3, <2>7, <3>2 DEF PlaceInv
    <3>4. BodyInv'
      BY <1>1, <1>3, <1>4, <2>3, <2>5, <2>6, <2>7, <3>1 DEF BodyInv, InBody
    <3>5. QED  BY <1>1, <1>5, <2>3, <2>7, <3>3, <3>4, GoesOn
  <2>8. CASE answer.chunks # <<>>
    <3>1. ChunkInv'
      <4>1. 1 \in DOMAIN answer.chunks /\ answer.chunks[1].at = 0
        <5>1. answer \in Answers /\ IsBody(answer)
          BY <1>1, HttpReaderAssumption DEF StreamInv
        <5>2. answer.chunks \in Seq([at : Nat, digits : Seq(Hex)])
          BY <5>1 DEF IsBody
        <5>3. 1 \in DOMAIN answer.chunks
          BY <2>8, <5>2
        <5>4. QED  BY <2>8, <5>1, <5>3 DEF IsBody
      <4>2. Eaten' = BodyAt' + answer'.chunks[1].at
        BY <1>4, <2>4, <4>1
      <4>3. BetweenChunks'
        BY <1>4, <4>1, <4>2 DEF BetweenChunks, Chunk
      <4>4. QED  BY <1>4, <2>2, <2>3, <4>3 DEF ChunkInv
    <3>2. PlaceInv'
      BY <2>3, <2>8, <3>1 DEF PlaceInv
    <3>3. BodyInv'
      BY <1>1, <1>3, <1>4, <2>3, <2>4, <2>5, <2>6, <2>8 DEF BodyInv, InBody
    <3>4. QED  BY <1>1, <1>5, <2>3, <2>8, <3>2, <3>3, GoesOn
  <2>9. QED  BY <2>7, <2>8
<1>10. CASE length.then = "size"
  <2>1. SizeInv
    BY <1>1, <1>10 DEF PlaceInv
  <2>2. PICK i \in DOMAIN answer.chunks :
          /\ Eaten = BodyAt + Chunk(i).at /\ csize = SizeOf(Chunk(i))
          /\ length.bytes = Len(Chunk(i).digits) + 2
    BY <2>1 DEF SizeInv
  <2>3. PICK B1 \in Nat, S1 \in Nat, at \in Nat, d \in Nat, z \in Nat : ChunkIs(i, B1, S1, at, d, z)
    BY <1>1, ChunkPlaces
  <2>4. ChunkIs(i, B, S, at, d, z)
    <3>1. B1 = B /\ S1 = S
      BY <1>3, <2>3 DEF ChunkIs
    <3>2. QED  BY <2>3, <3>1
  <2>0. n = B + at /\ k = d + 2
    BY <1>3, <2>2, <2>4 DEF ChunkIs
  <2>5. /\ n = B + at /\ csize = z /\ k = d + 2 /\ header = HeaderBytes
        /\ z = SizeOf(Chunk(i)) /\ at = Chunk(i).at /\ DataAt(Chunk(i)) = at + d + 2
        /\ i = Len(answer.chunks) => z = 0 /\ B + at + d + 2 + z + 2 = S
        /\ i # Len(answer.chunks) => z > 0
    BY <2>0, <2>1, <2>2, <2>4 DEF ChunkIs, SizeInv
  <2>6. /\ header' = header /\ body' = body /\ received' = received /\ csize' = csize
        /\ \/ csize = 0 /\ pc' = "answered" /\ failed' = failed
           \/ /\ csize \in 1 .. MAXCHUNK /\ pc' = "length" /\ failed' = failed
              /\ length' = [bytes |-> csize, then |-> "data"]
           \/ csize \notin 0 .. MAXCHUNK /\ pc' = "failed" /\ failed' = "refused"
    BY <1>10 DEF Then, GoTo, GiveUp, TakeLength, locals
  <2>7. B <= n /\ n <= n + k /\ n + k = B + at + d + 2 /\ B <= u
    BY <2>0
  <2>8. ~ CutOff /\ ~ CutOff'
    <3>1. CutOff => u < B
      BY <1>3 DEF CutOff
    <3>2. QED  BY <1>6, <2>7, <3>1
  <2>9. IsData(body, stream, B, n)
    BY <1>1, <1>3, <1>10, <2>8 DEF BodyInv, InBody
  <2>10. /\ \A j \in 1 .. d : stream[B + at + j] \in Hex
         /\ stream[B + at + d + 1] = CR /\ stream[B + at + d + 2] = LF
         /\ stream[B + at + d + 2 + z + 1] = CR /\ stream[B + at + d + 2 + z + 2] = LF
    <3>1. ChunkReads(i, B, at, d, z)
      BY <1>1, <2>4, ChunkBytes
    <3>2. QED  BY <3>1 DEF ChunkReads
  <2>11. \A j \in n + 1 .. n + k : stream[j] # "d"
    <3>1. ASSUME NEW j \in n + 1 .. n + k PROVE stream[j] # "d"
      <4>1. CASE j <= n + d
        <5>1. j - n \in 1 .. d /\ B + at + (j - n) = j
          BY <2>0, <4>1
        <5>2. stream[j] \in Hex
          BY <2>10, <5>1
        <5>3. QED  BY <5>2, Kinds
      <4>2. CASE ~ (j <= n + d)
        <5>1. j = B + at + d + 1 \/ j = B + at + d + 2
          BY <2>0, <4>2
        <5>2. QED  BY <2>10, <5>1, Kinds
      <4>3. QED  BY <4>1, <4>2
    <3>2. QED  BY <3>1
  <2>12. IsData(body, stream, B, n + k)
    <3>1. n + k \in Nat
      OBVIOUS
    <3>2. QED  BY <2>7, <2>9, <2>11, <3>1, NoData
  <2>13. CASE csize = 0 /\ pc' = "answered" /\ failed' = failed
    <3>1. i = Len(answer.chunks)
      <4>1. ~ (z > 0)
        BY <2>5, <2>13
      <4>2. QED  BY <2>5, <4>1
    <3>2. S = n + k + 2 /\ z = 0
      <4>1. z = 0 /\ B + at + d + 2 + z + 2 = S
        BY <2>5, <3>1
      <4>2. QED  BY <2>0, <4>1
    <3>3. \A j \in n + k + 1 .. S : stream[j] \in Blank
      <4>1. ASSUME NEW j \in n + k + 1 .. S PROVE stream[j] \in Blank
        <5>1. j = B + at + d + 2 + z + 1 \/ j = B + at + d + 2 + z + 2
          BY <2>0, <3>2
        <5>2. QED  BY <2>10, <5>1, Kinds
      <4>2. QED  BY <4>1
    <3>4. AnsweredInv'
      <4>1. S - 2 <= n + k /\ n + k <= S
        BY <3>2
      <4>2. Blanks(stream', Eaten', Sent')
        BY <1>4, <3>3 DEF Blanks
      <4>3. QED  BY <1>4, <2>5, <2>6, <4>1, <4>2 DEF AnsweredInv
    <3>5. PlaceInv'
      BY <2>13, <3>4 DEF PlaceInv
    <3>6. IsData(body, stream, B, S)
      <4>1. \A j \in n + k + 1 .. S : stream[j] # "d"
        BY <3>3, Kinds
      <4>2. n + k \in Nat /\ n + k <= S
        BY <3>2
      <4>3. QED  BY <2>12, <4>1, <4>2, NoData
    <3>7. BodyInv'
      BY <1>1, <1>4, <2>6, <2>8, <2>13, <3>6 DEF BodyInv, InBody
    <3>8. QED  BY <1>1, <2>6, <2>13, <3>5, <3>7, GoesOn
  <2>14. CASE /\ csize \in 1 .. MAXCHUNK /\ pc' = "length" /\ failed' = failed
              /\ length' = [bytes |-> csize, then |-> "data"]
    <3>1. i # Len(answer.chunks)
      <4>1. z # 0
        BY <2>5, <2>14
      <4>2. QED  BY <2>5, <4>1
    <3>2. Eaten' = BodyAt' + DataAt(answer'.chunks[i])
      <4>1. n + k = B + (at + d + 2)
        BY <2>0
      <4>2. QED  BY <1>4, <2>5, <4>1 DEF Chunk
    <3>3. DataInv'
      BY <1>4, <2>5, <2>6, <2>14, <3>1, <3>2 DEF DataInv, Chunk
    <3>4. PlaceInv'
      BY <2>14, <3>3 DEF PlaceInv
    <3>5. BodyInv'
      BY <1>1, <1>4, <2>6, <2>8, <2>12, <2>14 DEF BodyInv, InBody
    <3>6. QED  BY <1>1, <2>6, <2>14, <3>4, <3>5, GoesOn
  <2>15. CASE csize \notin 0 .. MAXCHUNK /\ pc' = "failed" /\ failed' = "refused"
    <3>1. Refusable
      <4>1. SizeOf(answer.chunks[i]) > MAXCHUNK
        <5>1. MAXCHUNK \in Nat
          BY HttpReaderAssumption
        <5>2. z > MAXCHUNK
          BY <2>5, <2>15, <5>1
        <5>3. QED  BY <2>5, <5>2 DEF Chunk
      <4>2. QED  BY <4>1 DEF Refusable
    <3>2. n + k \in BodyAt .. Sent
      BY <1>3, <2>7
    <3>3. IsData(body, stream, BodyAt, n + k)
      BY <1>3, <2>12
    <3>4. received' \in Nat /\ csize' \in Nat /\ body' = body /\ pc # "answered"
      BY <1>1, <2>6
    <3>5. QED  BY <1>1, <2>15, <3>1, <3>2, <3>3, <3>4, Fails
  <2>16. QED  BY <2>6, <2>13, <2>14, <2>15
<1>11. CASE length.then = "data"
  <2>1. DataInv
    BY <1>1, <1>11 DEF PlaceInv
  <2>2. PICK i \in DOMAIN answer.chunks :
          /\ i # Len(answer.chunks) /\ Eaten = BodyAt + DataAt(Chunk(i))
          /\ csize = SizeOf(Chunk(i)) /\ length.bytes = csize
    BY <2>1 DEF DataInv
  <2>3. PICK B1 \in Nat, S1 \in Nat, at \in Nat, d \in Nat, z \in Nat : ChunkIs(i, B1, S1, at, d, z)
    BY <1>1, ChunkPlaces
  <2>4. ChunkIs(i, B, S, at, d, z)
    <3>1. B1 = B /\ S1 = S
      BY <1>3, <2>3 DEF ChunkIs
    <3>2. QED  BY <2>3, <3>1
  <2>5. /\ n = B + (at + d + 2) /\ k = z /\ header = HeaderBytes
        /\ ChunkEnd(Chunk(i)) = at + d + 2 + z + 2
    BY <1>3, <2>1, <2>2, <2>3, <2>4 DEF ChunkIs, DataInv
  <2>6. /\ header' = header /\ body' = body \o Bytes(n, n + k) /\ received' = 0
        /\ csize' = csize /\ temp' = <<>> /\ pc' = "chunk" /\ failed' = failed
    BY <1>11 DEF Then, GoTo, NextChunk
  <2>7. B <= n /\ n <= n + k /\ B <= u /\ n + k \in Nat
    BY <2>5
  <2>8. ~ CutOff /\ ~ CutOff'
    <3>1. CutOff => u < B
      BY <1>3 DEF CutOff
    <3>2. QED  BY <1>6, <2>7, <3>1
  <2>9. IsData(body, stream, B, n)
    BY <1>1, <1>3, <1>11, <2>8 DEF BodyInv, InBody
  <2>10. \A j \in B + at + d + 3 .. B + at + d + 2 + z : stream[j] = "d"
    <3>1. ChunkReads(i, B, at, d, z)
      BY <1>1, <2>4, ChunkBytes
    <3>2. QED  BY <3>1 DEF ChunkReads
  <2>11. \A j \in n + 1 .. n + k : stream[j] = "d"
    <3>1. n + 1 = B + at + d + 3 /\ n + k = B + at + d + 2 + z
      BY <2>5
    <3>2. QED  BY <2>10, <3>1
  <2>12. IsData(body', stream, B, n + k) /\ body' \in Seq(Nat)
    BY <1>1, <2>6, <2>7, <2>9, <2>11, OnlyData
  <2>13. ChunkInv'
    <3>1. n + k = B + (at + d + 2 + z + 2) - 2
      BY <2>5
    <3>2. Eaten' = BodyAt' + ChunkEnd(answer'.chunks[i]) - 2
      BY <1>4, <2>5, <3>1 DEF Chunk
    <3>3. BetweenChunks'
      BY <1>4, <2>2, <3>2 DEF BetweenChunks, Chunk
    <3>4. QED  BY <1>4, <2>5, <2>6, <3>3 DEF ChunkInv
  <2>14. PlaceInv'
    BY <2>6, <2>13 DEF PlaceInv
  <2>15. BodyInv'
    BY <1>4, <2>6, <2>8, <2>12 DEF BodyInv, InBody
  <2>16. QED  BY <1>1, <1>5, <2>6, <2>14, <2>15, GoesOn
<1>12. QED  BY <1>2, <1>7, <1>8, <1>9, <1>10, <1>11 DEF Callers

LEMMA RecvLengthKeeps ==
  ASSUME Inv, RecvLength, BufferInv'
  PROVE  StreamInv' /\ LimitInv' /\ PlaceInv' /\ BodyInv' /\ FailsOnlySplit'
<1>1. /\ BufferInv /\ LimitInv /\ StreamInv /\ split \in BOOLEAN
  BY DEF Inv, StreamInv
<1>2. PICK n \in Nat, t \in Nat, u \in Nat :
        /\ n = Eaten /\ t = taken /\ u = supply /\ n <= t /\ t <= u
        /\ buf = Bytes(n, t) /\ Len(buf) = t - n
  BY <1>1, Here
<1>3. PICK k \in Nat : k = length.bytes
  BY <1>1 DEF BufferInv
<1>4. /\ pc = "length" /\ k <= Len(buf) /\ eaten' = eaten \o Upto(buf, k)
      /\ buf' = From(buf, k) /\ Then(Upto(buf, k)) /\ UNCHANGED server
      /\ taken' = taken /\ split' = split
  BY <1>3 DEF RecvLength
<1>5. n + k <= t /\ n + k <= u
  BY <1>2, <1>4
<1>6. Eaten' = n + k /\ Upto(buf, k) = Bytes(n, n + k)
  <2>1. Eaten + k <= t /\ eaten' = eaten \o Upto(Bytes(Eaten, t), k)
    BY <1>2, <1>4, <1>5
  <2>2. Eaten' = Eaten + k /\ Upto(Bytes(Eaten, t), k) = Bytes(Eaten, Eaten + k)
    BY <1>1, <2>1, Moved
  <2>3. QED  BY <1>2, <2>2
<1>7. Len(buf') <= MAXRECV
  <2>1. Len(buf') = t - (n + k)
    BY <1>2, <1>4, <1>6, HereNext
  <2>2. PICK M \in Nat : M = MAXRECV /\ t - n <= M
    BY <1>1, <1>2, HttpReaderAssumption DEF LimitInv
  <2>3. t - (n + k) <= M
    BY <2>2
  <2>4. QED  BY <2>1, <2>2, <2>3
<1>8. Then(Bytes(n, n + k))
  BY <1>4, <1>6
<1>9. QED  BY <1>1, <1>2, <1>3, <1>4, <1>5, <1>6, <1>7, <1>8, ThenKeepsPlace

LEMMA RecvLengthMoreKeeps ==
  ASSUME Inv, NEW b \in taken + 1 .. supply, RecvLengthMore(b), BufferInv'
  PROVE  StreamInv' /\ LimitInv' /\ PlaceInv' /\ BodyInv' /\ FailsOnlySplit'
<1>1. /\ BufferInv /\ LimitInv /\ StreamInv /\ split \in BOOLEAN
  BY DEF Inv, StreamInv
<1>2. PICK n \in Nat, t \in Nat, u \in Nat :
        /\ n = Eaten /\ t = taken /\ u = supply /\ n <= t /\ t <= u
        /\ buf = Bytes(n, t) /\ Len(buf) = t - n
  BY <1>1, Here
<1>3. PICK k \in Nat : k = length.bytes
  BY <1>1 DEF BufferInv
<1>4. PICK c \in Nat : c = b /\ t < c /\ c <= u
  BY <1>2
<1>5. buf \o Bytes(t, c) = Bytes(n, c) /\ Len(Bytes(n, c)) = c - n
  <2>1. n <= c /\ t <= c
    BY <1>2, <1>4
  <2>2. Bytes(n, t) \o Bytes(t, c) = Bytes(n, c)
    BY <1>2, <2>1, Join
  <2>3. QED  BY <1>2, <2>1, <2>2, Ends0
<1>6. /\ pc = "length" /\ c - n >= k /\ c - n - k < MAXRECV
      /\ eaten' = eaten \o Upto(Bytes(n, c), k) /\ Then(Upto(Bytes(n, c), k))
      /\ taken' = c /\ split' = (split \/ Cuts(c)) /\ UNCHANGED server
  BY <1>2, <1>3, <1>4, <1>5 DEF RecvLengthMore
<1>7. n + k <= c /\ n + k <= u
  BY <1>4, <1>6
<1>8. Eaten' = n + k /\ Upto(Bytes(n, c), k) = Bytes(n, n + k)
  <2>1. Eaten + k <= c /\ eaten' = eaten \o Upto(Bytes(Eaten, c), k)
    BY <1>2, <1>6, <1>7
  <2>2. Eaten' = Eaten + k /\ Upto(Bytes(Eaten, c), k) = Bytes(Eaten, Eaten + k)
    BY <1>1, <2>1, Moved
  <2>3. QED  BY <1>2, <2>2
<1>9. Len(buf') <= MAXRECV
  <2>1. Len(buf') = c - (n + k)
    BY <1>6, <1>8, HereNext
  <2>2. PICK M \in Nat : M = MAXRECV /\ c - n - k < M
    BY <1>6, HttpReaderAssumption
  <2>3. c - (n + k) <= M
    BY <2>2
  <2>4. QED  BY <2>1, <2>2, <2>3
<1>10. split' \in BOOLEAN /\ (split => split')
  BY <1>6, CutsOrNot
<1>11. Then(Bytes(n, n + k))
  BY <1>6, <1>8
<1>12. QED  BY <1>1, <1>2, <1>3, <1>6, <1>7, <1>8, <1>9, <1>10, <1>11, ThenKeepsPlace

\* What is asked for would come, unless the end of the header was cut.
LEMMA RecvLengthFailsKeeps ==
  ASSUME Inv, RecvLengthFails
  PROVE  StreamInv' /\ LimitInv' /\ PlaceInv' /\ BodyInv' /\ FailsOnlySplit'
<1>1. /\ pc = "length" /\ length.bytes > Len(buf) + supply - taken
      /\ buf' = <<>> /\ UNCHANGED server /\ UNCHANGED <<locals, header, body, split>>
      /\ pc' = "failed" /\ failed' = IF supply < Sent THEN "stalled" ELSE "starved"
  BY DEF RecvLengthFails, GiveUp
<1>2. /\ BufferInv /\ StreamInv /\ LimitInv /\ PlaceInv /\ BodyInv
      /\ asked # 0 /\ split \in BOOLEAN
  BY <1>1, Asked DEF Inv, StreamInv
<1>3. PICK A \in Nat, H \in Nat, B \in Nat, S \in Nat :
        /\ A = AnswerAt /\ H = HeaderAt /\ B = BodyAt /\ S = Sent
        /\ A <= H /\ H < B /\ B <= S /\ supply <= S
  BY <1>2, Places
<1>4. PICK n \in Nat, t \in Nat, u \in Nat :
        /\ n = Eaten /\ t = taken /\ u = supply /\ n <= t /\ t <= u
        /\ Len(buf) = t - n
  BY <1>2, Here
<1>5. PICK k \in Nat : k = length.bytes /\ length.then \in Callers
  BY <1>2 DEF BufferInv
<1>6. n + k > u
  <2>1. k > t - n + u - t
    BY <1>1, <1>4, <1>5
  <2>2. QED  BY <2>1
<1>7. ASSUME length.then \in {"size", "data"}
      PROVE  B <= n /\ n + k <= S
  <2>1. CASE length.then = "size"
    <3>1. PICK i \in DOMAIN answer.chunks :
            Eaten = BodyAt + Chunk(i).at /\ length.bytes = Len(Chunk(i).digits) + 2
      BY <1>1, <1>2, <2>1 DEF PlaceInv, SizeInv
    <3>2. PICK B1 \in Nat, S1 \in Nat, at \in Nat, d \in Nat, z \in Nat :
            ChunkIs(i, B1, S1, at, d, z)
      BY <1>2, ChunkPlaces
    <3>3. /\ n = B + at /\ k = d + 2 /\ B + at + d + 2 + z + 2 <= S
      BY <1>3, <1>4, <1>5, <3>1, <3>2 DEF ChunkIs
    <3>4. QED  BY <3>3
  <2>2. CASE length.then = "data"
    <3>1. PICK i \in DOMAIN answer.chunks :
            /\ Eaten = BodyAt + DataAt(Chunk(i)) /\ length.bytes = SizeOf(Chunk(i))
      BY <1>1, <1>2, <2>2 DEF PlaceInv, DataInv
    <3>2. PICK B1 \in Nat, S1 \in Nat, at \in Nat, d \in Nat, z \in Nat :
            ChunkIs(i, B1, S1, at, d, z)
      BY <1>2, ChunkPlaces
    <3>3. /\ n = B + (at + d + 2) /\ k = z /\ B + at + d + 2 + z + 2 <= S
      BY <1>3, <1>4, <1>5, <3>1, <3>2 DEF ChunkIs
    <3>4. QED  BY <3>3
  <2>3. QED  BY <1>7, <2>1, <2>2
<1>8. u = S => split
  <2>1. SUFFICES ASSUME u = S PROVE split
    OBVIOUS
  <2>2. CASE length.then = "header"
    <3>1. \/ n <= B - 2 /\ k = B - 2 - n
          \/ split
      BY <1>1, <1>2, <1>3, <1>4, <1>5, <2>2 DEF PlaceInv, HeaderEndInv
    <3>2. ~ (k = B - 2 - n)
      BY <1>3, <1>6, <2>1
    <3>3. QED  BY <3>1, <3>2
  <2>3. CASE length.then = "bareheader"
    <3>1. k = B - n
      BY <1>1, <1>2, <1>3, <1>4, <1>5, <2>3 DEF PlaceInv, BareHeaderEndInv
    <3>2. QED  BY <1>3, <1>6, <2>1, <3>1
  <2>4. CASE length.then = "emptyline"
    <3>1. k = 2 /\ n = B - 2
      BY <1>1, <1>2, <1>3, <1>4, <1>5, <2>4 DEF PlaceInv, EmptyLineInv
    <3>2. QED  BY <1>3, <1>6, <2>1, <3>1
  <2>5. CASE length.then \in {"size", "data"}
    BY <1>6, <1>7, <2>1, <2>5
  <2>6. QED  BY <1>5, <2>2, <2>3, <2>4, <2>5 DEF Callers
<1>9. PICK upto \in BodyAt .. Sent : IsData(body, stream, BodyAt, upto)
  <2>1. B \in B .. S
    BY <1>3
  <2>2. CASE length.then \in {"size", "data"}
    <3>1. n \in B .. S
      <4>1. n <= u /\ u <= S
        BY <1>3, <1>4
      <4>2. B <= n
        BY <1>7, <2>2
      <4>3. QED  BY <4>1, <4>2
    <3>2. IsData(body, stream, BodyAt, IF CutOff THEN BodyAt ELSE Eaten)
      BY <1>1, <1>2, <2>2 DEF BodyInv, InBody
    <3>3. QED  BY <1>3, <1>4, <2>1, <3>1, <3>2
  <2>3. CASE length.then \notin {"size", "data"}
    <3>1. IsData(body, stream, BodyAt, BodyAt)
      BY <1>1, <1>2, <2>3 DEF BodyInv, InBody
    <3>2. QED  BY <1>3, <2>1, <3>1
  <2>4. QED  BY <2>2, <2>3
<1>10. failed' \in {"stalled", "starved"} /\ (failed' = "starved" => split')
  <2>1. ~ (supply < Sent) => split
    BY <1>3, <1>4, <1>8
  <2>2. QED  BY <1>1, <2>1
<1>11. /\ split' \in BOOLEAN /\ received' \in Nat /\ csize' \in Nat /\ body' = body
       /\ Len(buf') <= MAXRECV
  <2>1. Len(<<>>) = 0 /\ 0 <= MAXRECV
    BY HttpReaderAssumption
  <2>2. Len(buf') <= MAXRECV
    BY <1>1, <2>1
  <2>3. QED  BY <1>1, <1>2, <2>2 DEF LimitInv, locals
<1>12. pc # "answered"
  BY <1>1
<1>13. QED  BY <1>1, <1>2, <1>9, <1>10, <1>11, <1>12, Fails

LEMMA FindCRLF ==
  ASSUME NEW s \in Seq(Nat)
  PROVE  find(s, <<CR, LF>>) = npos <=> NoCRLF(s, stream)
<1> DEFINE at == {i \in 0 .. Len(s) - Len(<<CR, LF>>) :
                    \A k \in DOMAIN <<CR, LF>> : stream[s[i + k]] = <<CR, LF>>[k]}
<1>1. at \in SUBSET Nat
  OBVIOUS
<1>2. ASSUME NEW i \in Nat
      PROVE  i \in at <=> /\ i + 1 \in 1 .. Len(s) - 1
                          /\ stream[s[i + 1]] = CR /\ stream[s[i + 1 + 1]] = LF
  <2>1. i \in 0 .. Len(s) - Len(<<CR, LF>>) <=> i + 1 \in 1 .. Len(s) - 1
    OBVIOUS
  <2>2. (\A k \in DOMAIN <<CR, LF>> : stream[s[i + k]] = <<CR, LF>>[k])
          <=> stream[s[i + 1]] = CR /\ stream[s[i + 1 + 1]] = LF
    <3>1. DOMAIN <<CR, LF>> = {1, 2} /\ <<CR, LF>>[1] = CR /\ <<CR, LF>>[2] = LF
      OBVIOUS
    <3>2. i + 1 + 1 = i + 2
      OBVIOUS
    <3>3. QED  BY <3>1, <3>2
  <2>3. QED  BY <2>1, <2>2
<1>3. find(s, <<CR, LF>>) = IF at = {} THEN npos ELSE Min(at)
  BY DEF find
<1>4. at # {} => Min(at) \in Nat
  BY <1>1, MinIsIn
<1>5. at = {} <=> NoCRLF(s, stream)
  <2>1. ASSUME NEW k \in 1 .. Len(s) - 1, stream[s[k]] = CR, stream[s[k + 1]] = LF
        PROVE  at # {}
    <3>1. PICK i \in Nat : i + 1 = k
      <4>1. k - 1 \in Nat /\ (k - 1) + 1 = k
        OBVIOUS
      <4>2. QED  BY <4>1
    <3>2. i \in at
      BY <1>2, <2>1, <3>1
    <3>3. QED  BY <3>2
  <2>2. ASSUME NEW i \in at
        PROVE  ~ NoCRLF(s, stream)
    <3>1. i \in Nat
      BY <1>1
    <3>2. QED  BY <1>2, <3>1 DEF NoCRLF
  <2> HIDE DEF at
  <2>3. QED  BY <2>1, <2>2 DEF NoCRLF
<1> HIDE DEF at
<1>6. npos \notin Nat
  BY DEF npos
<1>7. QED  BY <1>3, <1>4, <1>5, <1>6

\* The reader looks at the CRLF behind a chunk, or at a size line, and sees it
\* whole or not.
LEMMA SeenWhole ==
  ASSUME BufferInv, NEW n \in Nat, NEW c \in Nat, n < c, NEW d \in Nat, n + d + 2 <= c,
         \A k \in 1 .. d : stream[n + k] \in Hex,
         stream[n + d + 1] = CR, stream[n + d + 2] = LF
  PROVE  /\ find(Bytes(n, c), <<CR, LF>>) = d
         /\ find_first_not_of(Bytes(n, c), Hex) = d
<1>1. n <= c
  OBVIOUS
<1>2. /\ find(Bytes(n, c), <<CR, LF>>) = npos =>
           \A i \in Nat : n <= i /\ i + 2 <= c => ~ PatternAt(<<CR, LF>>, i)
      /\ find(Bytes(n, c), <<CR, LF>>) # npos =>
           \E p \in Nat : /\ p = find(Bytes(n, c), <<CR, LF>>) /\ n + p + 2 <= c
                          /\ PatternAt(<<CR, LF>>, n + p)
                          /\ \A i \in Nat : n <= i /\ i < n + p => ~ PatternAt(<<CR, LF>>, i)
  <2> DEFINE crlf == <<CR, LF>>
  <2>1. PICK m \in Nat : m = 2
    OBVIOUS
  <2>3. DOMAIN crlf = 1 .. m /\ Len(crlf) = m
    BY <2>1, Patterns
  <2> HIDE DEF crlf
  <2>2. /\ find(Bytes(n, c), crlf) = npos =>
             \A i \in Nat : n <= i /\ i + m <= c => ~ PatternAt(crlf, i)
        /\ find(Bytes(n, c), crlf) # npos =>
             \E p \in Nat : /\ p = find(Bytes(n, c), crlf) /\ n + p + m <= c
                            /\ PatternAt(crlf, n + p)
                            /\ \A i \in Nat : n <= i /\ i < n + p => ~ PatternAt(crlf, i)
    BY <1>1, <2>3, FindIn
  <2>4. QED  BY <2>1, <2>2 DEF crlf
<1>3. \A i : PatternAt(<<CR, LF>>, i) <=> stream[i + 1] = CR /\ stream[i + 2] = LF
  <2>1. DOMAIN <<CR, LF>> = {1, 2} /\ <<CR, LF>>[1] = CR /\ <<CR, LF>>[2] = LF
    OBVIOUS
  <2>2. QED  BY <2>1 DEF PatternAt
<1>4. PatternAt(<<CR, LF>>, n + d)
  BY <1>3
<1>5. find(Bytes(n, c), <<CR, LF>>) # npos
  BY <1>2, <1>4
<1>6. PICK p \in Nat : /\ p = find(Bytes(n, c), <<CR, LF>>) /\ n + p + 2 <= c
                       /\ PatternAt(<<CR, LF>>, n + p)
                       /\ \A i \in Nat : n <= i /\ i < n + p => ~ PatternAt(<<CR, LF>>, i)
  BY <1>2, <1>5
<1>7. p <= d
  <2>1. n + d \in Nat /\ n <= n + d
    OBVIOUS
  <2>2. ~ (n + d < n + p)
    BY <1>4, <1>6, <2>1
  <2>3. QED  BY <2>2
<1>8. ~ (p < d)
  <2>1. SUFFICES ASSUME p < d PROVE FALSE
    OBVIOUS
  <2>2. p + 1 \in 1 .. d /\ n + p + 1 = n + (p + 1)
    BY <2>1
  <2>3. stream[n + p + 1] \in Hex
    BY <2>2
  <2>4. stream[n + p + 1] = CR
    BY <1>3, <1>6
  <2>5. QED  BY <2>3, <2>4, Kinds
<1>9. /\ find_first_not_of(Bytes(n, c), Hex) = npos =>
           \A i \in n + 1 .. c : stream[i] \in Hex
      /\ find_first_not_of(Bytes(n, c), Hex) # npos =>
           \E h \in Nat : /\ h = find_first_not_of(Bytes(n, c), Hex) /\ n + h < c
                          /\ stream[n + h + 1] \notin Hex
                          /\ \A i \in n + 1 .. n + h : stream[i] \in Hex
  BY <1>1, FindOtherIn
<1>10. n + d + 1 \in n + 1 .. c /\ stream[n + d + 1] \notin Hex
  BY Kinds
<1>11. PICK h \in Nat : /\ h = find_first_not_of(Bytes(n, c), Hex) /\ n + h < c
                        /\ stream[n + h + 1] \notin Hex
                        /\ \A i \in n + 1 .. n + h : stream[i] \in Hex
  BY <1>9, <1>10
<1>12. ~ (h < d)
  <2>1. SUFFICES ASSUME h < d PROVE FALSE
    OBVIOUS
  <2>2. h + 1 \in 1 .. d /\ n + h + 1 = n + (h + 1)
    BY <2>1
  <2>3. stream[n + h + 1] \in Hex
    BY <2>2
  <2>4. QED  BY <1>11, <2>3
<1>13. ~ (d < h)
  <2>1. d < h => n + d + 1 \in n + 1 .. n + h
    OBVIOUS
  <2>2. QED  BY <1>10, <1>11, <2>1
<1>14. p = d /\ h = d
  BY <1>7, <1>8, <1>12, <1>13
<1>15. QED  BY <1>6, <1>11, <1>14

LEMMA NoCRLFBytes ==
  ASSUME NEW n \in Nat, NEW c \in Nat, n <= c,
         \A i \in n + 1 .. c - 1 : stream[i] # CR
  PROVE  NoCRLF(Bytes(n, c), stream)
<1>1. Len(Bytes(n, c)) = c - n /\ \A k \in 1 .. c - n : Bytes(n, c)[k] = n + k
  BY DEF Bytes
<1>2. ASSUME NEW k \in 1 .. Len(Bytes(n, c)) - 1
      PROVE  stream[Bytes(n, c)[k]] # CR
  <2>1. k \in 1 .. c - n /\ n + k \in n + 1 .. c - 1
    BY <1>1
  <2>2. QED  BY <1>1, <2>1
<1>3. QED  BY <1>2 DEF NoCRLF

\* Two looks in vain, the second not beginning in the middle of a CRLF.
LEMMA NoCRLFJoin ==
  ASSUME NEW s \in Seq(Nat), NEW t \in Seq(Nat), t # <<>>,
         NoCRLF(s, stream), NoCRLF(t, stream), stream[t[1]] # LF
  PROVE  NoCRLF(s \o t, stream)
<1>1. PICK l \in Nat, w \in Nat : l = Len(s) /\ w = Len(t) /\ w >= 1
  OBVIOUS
<1> DEFINE c == s \o t
<1>2. /\ Len(c) = l + w
      /\ \A i \in 1 .. l + w : c[i] = IF i <= l THEN s[i] ELSE t[i - l]
  BY <1>1, ConcatProperties
<1> HIDE DEF c
<1>3. ASSUME NEW k \in 1 .. l + w - 1
      PROVE  ~ (stream[c[k]] = CR /\ stream[c[k + 1]] = LF)
  <2>0. k \in 1 .. l + w /\ k + 1 \in 1 .. l + w
    BY <1>1
  <2>1. CASE k + 1 <= l
    <3>1. c[k] = s[k] /\ c[k + 1] = s[k + 1] /\ k \in 1 .. l - 1
      BY <1>2, <2>0, <2>1
    <3>2. QED  BY <1>1, <3>1 DEF NoCRLF
  <2>2. CASE k = l
    <3>1. c[k + 1] = t[1]
      <4>1. ~ (k + 1 <= l) /\ k + 1 - l = 1
        BY <2>2
      <4>2. c[k + 1] = t[k + 1 - l]
        BY <1>2, <2>0, <4>1
      <4>3. QED  BY <4>1, <4>2
    <3>2. QED  BY <3>1
  <2>3. CASE l < k
    <3>1. PICK j \in Nat : j = k - l /\ j \in 1 .. w - 1 /\ k + 1 - l = j + 1
      BY <2>3
    <3>2. c[k] = t[j] /\ c[k + 1] = t[j + 1]
      BY <1>2, <2>0, <2>3, <3>1
    <3>3. QED  BY <1>1, <3>1, <3>2 DEF NoCRLF
  <2>4. QED  BY <2>1, <2>2, <2>3
<1>4. NoCRLF(c, stream)
  BY <1>2, <1>3 DEF NoCRLF
<1>5. QED  BY <1>4 DEF c

\* What a look in vain leaves, if it was cut and is not the second half of a CRLF.
LEMMA LooksAgain ==
  ASSUME Inv, NEW piece \in Pieces, SizeLine(piece), BufferInv', asked # 0,
         header = HeaderBytes, BetweenChunks, ~ CutOff, split', split' \in BOOLEAN,
         NoCRLF(temp \o piece, stream), NoCRLF(piece, stream), stream[piece[1]] # LF,
         piece # <<>>, temp \o piece \in Seq(Nat), Len(piece) <= MAXRECV
  PROVE  StreamInv' /\ LimitInv' /\ PlaceInv' /\ BodyInv' /\ FailsOnlySplit'
<1>1. /\ BufferInv /\ StreamInv /\ LimitInv /\ BodyInv /\ pc = "chunk"
      /\ body \in Seq(Nat) /\ received \in Nat
  BY DEF Inv, SizeLine, SizeLineWith, BodyInv, LimitInv
<1>2. find(temp \o piece, <<CR, LF>>) = npos
  BY FindCRLF
<1>3. /\ temp' = temp \o piece /\ received' = received + Len(piece) /\ buf' = piece
      /\ IF received' > MAXCHUNKHEADER THEN GiveUp("refused") ELSE GoTo("chunk")
      /\ UNCHANGED <<eaten, csize>> /\ UNCHANGED server /\ UNCHANGED <<header, body>>
  BY <1>2 DEF SizeLine, SizeLineWith, npos
<1>4. PICK B \in Nat, S \in Nat, n \in Nat, u \in Nat :
        B = BodyAt /\ S = Sent /\ n = Eaten /\ u = supply /\ u <= S /\ B <= S /\ n <= u
  <2>1. PICK A \in Nat, H \in Nat, B \in Nat, S \in Nat :
          /\ A = AnswerAt /\ H = HeaderAt /\ B = BodyAt /\ S = Sent
          /\ A <= H /\ H < B /\ B <= S /\ supply <= S
    BY <1>1, Places
  <2>2. PICK n \in Nat, t \in Nat, u \in Nat :
          n = Eaten /\ t = taken /\ u = supply /\ n <= t /\ t <= u
    BY <1>1, Here
  <2>3. n <= u
    BY <2>2
  <2>4. QED  BY <2>1, <2>2, <2>3
<1>5. /\ asked' # 0 /\ stream' = stream /\ answer' = answer /\ closed' = closed
      /\ supply' = supply /\ BodyAt' = BodyAt /\ Sent' = Sent /\ HeaderBytes' = HeaderBytes
  BY <1>1, <1>3, SameAnswer
<1>6. Eaten' = n
  BY <1>3, <1>4 DEF Eaten
<1>7. IsData(body, stream, BodyAt, Eaten)
  BY <1>1 DEF BodyInv, InBody
<1>8. B <= n
  <2>1. PICK i \in DOMAIN answer.chunks :
          \/ Eaten = BodyAt + Chunk(i).at
          \/ Eaten = BodyAt + ChunkEnd(Chunk(i)) - 2
    BY DEF BetweenChunks
  <2>2. PICK B1 \in Nat, S1 \in Nat, at \in Nat, d \in Nat, z \in Nat :
          ChunkIs(i, B1, S1, at, d, z)
    BY <1>1, ChunkPlaces
  <2>3. n = B + at \/ n = B + (at + d + 2 + z + 2) - 2
    BY <1>4, <2>1, <2>2 DEF ChunkIs
  <2>4. QED  BY <2>3
<1>9. received' \in Nat
  <2>1. piece \in Seq(Nat)
    BY <1>1, PieceAt, Ends0
  <2>2. QED  BY <1>1, <1>3, <2>1
<1>10. csize' \in Nat /\ Len(buf') <= MAXRECV
  BY <1>1, <1>3 DEF LimitInv
<1>11. CASE received' > MAXCHUNKHEADER
  <2>1. pc' = "failed" /\ failed' = "refused"
    BY <1>3, <1>11 DEF GiveUp
  <2>2. Eaten \in BodyAt .. Sent
    BY <1>4, <1>8
  <2>3. body' = body /\ pc # "answered"
    BY <1>1, <1>3
  <2>4. QED  BY <1>1, <1>3, <1>7, <1>9, <1>10, <2>1, <2>2, <2>3, Fails
<1>12. CASE ~ (received' > MAXCHUNKHEADER)
  <2>1. pc' = "chunk" /\ failed' = failed
    BY <1>3, <1>12 DEF GoTo
  <2>2. received' <= MAXCHUNKHEADER
    BY <1>9, <1>12, HttpReaderAssumption
  <2>3. Stuck'
    BY <1>3, <1>5 DEF Stuck
  <2>4. BetweenChunks'
    BY <1>4, <1>5, <1>6 DEF BetweenChunks, Chunk
  <2>5. PlaceInv'
    BY <1>3, <1>5, <2>1, <2>3, <2>4 DEF PlaceInv, ChunkInv
  <2>6. ~ CutOff'
    <3>1. CutOff' => u < B
      BY <1>4, <1>5 DEF CutOff
    <3>2. QED  BY <1>4, <1>8, <3>1
  <2>7. BodyInv'
    BY <1>1, <1>3, <1>4, <1>5, <1>6, <1>7, <2>1, <2>6 DEF BodyInv, InBody
  <2>8. QED  BY <1>1, <1>3, <1>9, <1>10, <2>1, <2>2, <2>5, <2>7, GoesOn
<1>13. QED  BY <1>11, <1>12

LEMMA SizeLineKeeps ==
  ASSUME Inv, NEW piece \in Pieces, SizeLine(piece), BufferInv'
  PROVE  StreamInv' /\ LimitInv' /\ PlaceInv' /\ BodyInv' /\ FailsOnlySplit'
<1>1. pc = "chunk"
  BY DEF SizeLine, SizeLineWith
<1>2. /\ BufferInv /\ StreamInv /\ LimitInv /\ PlaceInv /\ BodyInv /\ ChunkInv
      /\ asked # 0 /\ split \in BOOLEAN /\ body \in Seq(Nat) /\ temp \in Seq(Nat)
  BY <1>1, Asked DEF Inv, StreamInv, PlaceInv, BodyInv, BufferInv
<1>3. PICK A \in Nat, H \in Nat, B \in Nat, S \in Nat :
        /\ A = AnswerAt /\ H = HeaderAt /\ B = BodyAt /\ S = Sent
        /\ A <= H /\ H < B /\ B <= S /\ supply <= S
  BY <1>2, Places
<1>4. PICK n \in Nat, c \in Nat :
        /\ n = Eaten /\ c = Last(piece) /\ n < c /\ taken <= c /\ c <= supply
        /\ piece = Bytes(n, c) /\ Len(piece) = c - n /\ Len(piece) <= MAXRECV
        /\ buf # <<>> => piece = buf /\ c = taken
        /\ buf = <<>> => n = taken
  BY <1>2, PieceAt
<1>5. PICK u \in Nat : u = supply /\ u <= S /\ c <= u
  BY <1>2, <1>3, <1>4, Here
<1>6. piece \in Seq(Nat) /\ piece # <<>> /\ temp \o piece \in Seq(Nat) /\ piece[1] = n + 1
  <2>1. n <= c /\ n # c
    BY <1>4
  <2>2. piece \in Seq(Nat) /\ piece # <<>>
    BY <1>4, <2>1, Ends0
  <2>3. piece[1] = n + 1
    <3>1. 1 \in 1 .. c - n
      BY <1>4
    <3>2. QED  BY <1>4, <3>1 DEF Bytes
  <2>4. QED  BY <1>2, <2>2, <2>3
<1>7. /\ taken' = c /\ split' = (split \/ Cuts(c)) /\ UNCHANGED server
      /\ UNCHANGED <<header, body>>
  BY <1>4 DEF SizeLine, SizeLineWith, Recv
<1>8. split' \in BOOLEAN
  BY <1>7, CutsOrNot
<1>9. /\ asked' # 0 /\ stream' = stream /\ answer' = answer /\ closed' = closed
      /\ supply' = supply /\ BodyAt' = B /\ Sent' = S /\ HeaderBytes' = HeaderBytes
  BY <1>2, <1>3, <1>7, <1>8, SameAnswer
<1>10. ~ CutOff
  <2>1. ASSUME CutOff PROVE FALSE
    <3>1. buf = <<>> /\ taken = supply
      BY <2>1 DEF CutOff
    <3>2. n = u
      BY <1>4, <1>5, <3>1
    <3>3. QED  BY <1>4, <1>5, <3>2
  <2>2. QED  BY <2>1
<1>11. /\ BetweenChunks /\ header = HeaderBytes /\ (temp # <<>> => Stuck)
       /\ IsData(body, stream, B, n)
  BY <1>1, <1>2, <1>3, <1>4, <1>10 DEF ChunkInv, BodyInv, InBody
<1>12. CASE temp # <<>>
  <2>1. /\ split /\ NoCRLF(temp, stream) /\ buf # <<>> /\ NoCRLF(buf, stream)
        /\ stream[buf[1]] # LF
    BY <1>11, <1>12 DEF Stuck
  <2>2. piece = buf
    BY <1>4, <2>1
  <2>3. NoCRLF(temp \o piece, stream)
    BY <1>2, <1>6, <2>1, <2>2, NoCRLFJoin
  <2>4. split'
    BY <1>7, <2>1
  <2>5. QED  BY <1>2, <1>4, <1>6, <1>8, <1>10, <1>11, <2>1, <2>2, <2>3, <2>4, LooksAgain
<1>13. ASSUME temp = <<>>, Cuts(c), \A j \in n + 1 .. c - 1 : stream[j] # CR,
              stream[n + 1] # LF
       PROVE  StreamInv' /\ LimitInv' /\ PlaceInv' /\ BodyInv' /\ FailsOnlySplit'
  <2>1. n <= c
    BY <1>4
  <2>2. NoCRLF(piece, stream) /\ temp \o piece = piece
    BY <1>4, <1>6, <1>13, <2>1, NoCRLFBytes
  <2>3. split'
    BY <1>7, <1>13
  <2>4. NoCRLF(temp \o piece, stream) /\ stream[piece[1]] # LF
    BY <1>6, <1>13, <2>2
  <2>5. QED  BY <1>2, <1>4, <1>6, <1>8, <1>10, <1>11, <2>2, <2>3, <2>4, LooksAgain
<1>14. PICK i \in DOMAIN answer.chunks :
         \/ Eaten = BodyAt + Chunk(i).at
         \/ i # Len(answer.chunks) /\ Eaten = BodyAt + ChunkEnd(Chunk(i)) - 2
  BY <1>11 DEF BetweenChunks
<1>15. PICK at \in Nat, d \in Nat, z \in Nat : ChunkIs(i, B, S, at, d, z)
  <2>1. PICK B1 \in Nat, S1 \in Nat, at \in Nat, d \in Nat, z \in Nat :
          ChunkIs(i, B1, S1, at, d, z)
    BY <1>2, ChunkPlaces
  <2>2. B1 = B /\ S1 = S
    BY <1>3, <2>1 DEF ChunkIs
  <2>3. QED  BY <2>1, <2>2
<1>16. ChunkReads(i, B, at, d, z)
  BY <1>2, <1>15, ChunkBytes
<1>17. /\ \A k \in 1 .. d : stream[B + at + k] = Chunk(i).digits[k] /\ stream[B + at + k] \in Hex
       /\ stream[B + at + d + 1] = CR /\ stream[B + at + d + 2] = LF
       /\ stream[B + at + d + 2 + z + 1] = CR /\ stream[B + at + d + 2 + z + 2] = LF
       /\ DOMAIN Chunk(i).digits = 1 .. d /\ Chunk(i).digits \in Seq(Hex)
  BY <1>16 DEF ChunkReads
<1>18. B + at + d + 2 + z + 2 <= S /\ d >= 1
  BY <1>15 DEF ChunkIs
<1>19. /\ at = Chunk(i).at /\ d = Len(Chunk(i).digits) /\ z = SizeOf(Chunk(i))
       /\ ChunkEnd(Chunk(i)) = at + d + 2 + z + 2
       /\ i # Len(answer.chunks) =>
            /\ i + 1 \in DOMAIN answer.chunks
            /\ Chunk(i + 1).at = at + d + 2 + z + 2
  BY <1>15 DEF ChunkIs
<1>20. CASE temp = <<>> /\ n = B + at
  <2>1. \A k \in 1 .. d : stream[n + k] \in Hex /\ stream[n + k] = Chunk(i).digits[k]
    BY <1>17, <1>20
  <2>2. stream[n + d + 1] = CR /\ stream[n + d + 2] = LF
    BY <1>17, <1>20
  <2>3. CASE n + d + 2 <= c
    <3>1. /\ find(Bytes(n, c), <<CR, LF>>) = d
          /\ find_first_not_of(Bytes(n, c), Hex) = d
      BY <1>2, <1>4, <2>1, <2>2, <2>3, SeenWhole
    <3>2. temp \o piece = piece
      BY <1>6, <1>20
    <3>3. find(temp \o piece, <<CR, LF>>) = d /\ find_first_not_of(temp \o piece, Hex) = d
      BY <1>4, <3>1, <3>2
    <3>4. d # npos /\ d \notin {0} /\ d \notin {0} \cup {npos}
      BY <1>18 DEF npos
    <3>5. \/ /\ d \notin 1 .. MAXDIGITS /\ buf' = piece /\ GiveUp("refused")
             /\ UNCHANGED <<eaten, temp, received, csize>>
          \/ /\ d \in 1 .. MAXDIGITS /\ csize' = Value(Text(Upto(piece, d)))
             /\ buf' = piece /\ TakeLength(d + 2, "size")
             /\ UNCHANGED <<eaten, temp, received>>
      BY <3>2, <3>3, <3>4 DEF SizeLine, SizeLineWith
    <3>6. CASE d \notin 1 .. MAXDIGITS /\ buf' = piece /\ GiveUp("refused")
               /\ UNCHANGED <<eaten, temp, received, csize>>
      <4>1. Refusable
        <5>1. d > MAXDIGITS
          BY <1>18, <3>6, HttpReaderAssumption
        <5>2. Len(answer.chunks[i].digits) > MAXDIGITS
          BY <1>19, <5>1 DEF Chunk
        <5>3. QED  BY <5>2 DEF Refusable
      <4>2. n \in BodyAt .. Sent /\ IsData(body, stream, BodyAt, n)
        <5>1. B <= n /\ n <= S
          BY <1>18, <1>20
        <5>2. QED  BY <1>3, <1>11, <5>1
      <4>3. /\ pc' = "failed" /\ failed' = "refused" /\ body' = body
            /\ received' \in Nat /\ csize' \in Nat /\ Len(buf') <= MAXRECV
        BY <1>2, <1>4, <1>7, <3>6 DEF GiveUp, LimitInv
      <4>4. pc # "answered"
        BY <1>1
      <4>5. QED  BY <1>2, <1>7, <1>8, <4>1, <4>2, <4>3, <4>4, Fails
    <3>7. CASE /\ d \in 1 .. MAXDIGITS /\ csize' = Value(Text(Upto(piece, d)))
               /\ buf' = piece /\ TakeLength(d + 2, "size")
               /\ UNCHANGED <<eaten, temp, received>>
      <4>1. Text(Upto(piece, d)) = Chunk(i).digits
        <5>1. n + d <= c /\ d <= c - n
          BY <2>3
        <5>2. Upto(piece, d) = Bytes(n, n + d)
          BY <1>4, <5>1, Cut
        <5>3. DOMAIN Bytes(n, n + d) = 1 .. d /\ \A k \in 1 .. d : Bytes(n, n + d)[k] = n + k
          <6>1. n + d - n = d
            OBVIOUS
          <6>2. QED  BY <6>1 DEF Bytes
        <5>4. Text(Bytes(n, n + d)) = [k \in 1 .. d |-> Chunk(i).digits[k]]
          BY <2>1, <5>3 DEF Text
        <5>5. Chunk(i).digits = [k \in 1 .. d |-> Chunk(i).digits[k]]
          BY <1>17
        <5>6. QED  BY <5>2, <5>4, <5>5
      <4>2. csize' = z
        BY <1>19, <3>7, <4>1 DEF SizeOf
      <4>3. /\ pc' = "length" /\ failed' = failed /\ length' = [bytes |-> d + 2, then |-> "size"]
            /\ body' = body /\ header' = header /\ eaten' = eaten
            /\ received' \in Nat /\ csize' \in Nat /\ Len(buf') <= MAXRECV
        BY <1>2, <1>4, <1>7, <3>7, <4>2 DEF TakeLength, LimitInv
      <4>4. Eaten' = n
        BY <1>4, <4>3 DEF Eaten
      <4>5. SizeInv'
        <5>1. Eaten' = BodyAt' + answer'.chunks[i].at
          BY <1>9, <1>19, <1>20, <4>4 DEF Chunk
        <5>2. csize' = SizeOf(answer'.chunks[i]) /\ length'.bytes = Len(answer'.chunks[i].digits) + 2
          BY <1>9, <1>19, <4>2, <4>3 DEF Chunk
        <5>3. QED  BY <1>9, <1>11, <4>3, <5>1, <5>2 DEF SizeInv, Chunk
      <4>6. PlaceInv'
        BY <4>3, <4>5 DEF PlaceInv
      <4>7. ~ CutOff'
        <5>1. CutOff' => u < B
          BY <1>5, <1>9 DEF CutOff
        <5>2. B <= u
          BY <1>4, <1>5, <1>20
        <5>3. QED  BY <5>1, <5>2
      <4>8. BodyInv'
        BY <1>2, <1>9, <1>11, <4>3, <4>4, <4>7 DEF BodyInv, InBody
      <4>9. QED  BY <1>1, <1>7, <1>8, <4>3, <4>6, <4>8, GoesOn
    <3>8. QED  BY <3>5, <3>6, <3>7
  <2>4. CASE ~ (n + d + 2 <= c)
    <3>1. Cuts(c)
      <4>1. c < S /\ c > B
        BY <1>4, <1>18, <1>20, <2>4
      <4>2. stream[c] \in Hex \/ stream[c] = CR
        <5>1. CASE c = n + d + 1
          BY <2>2, <5>1
        <5>2. CASE c # n + d + 1
          <6>1. c - n \in 1 .. d /\ n + (c - n) = c
            BY <1>4, <2>4, <5>2
          <6>2. QED  BY <2>1, <6>1
        <5>3. QED  BY <5>1, <5>2
      <4>3. QED  BY <1>3, <4>1, <4>2 DEF Cuts
    <3>2. ASSUME NEW j \in n + 1 .. c - 1 PROVE stream[j] # CR
      <4>1. j - n \in 1 .. d /\ n + (j - n) = j
        BY <1>4, <2>4
      <4>2. stream[j] \in Hex
        BY <2>1, <4>1
      <4>3. QED  BY <4>2, Kinds
    <3>3. stream[n + 1] # LF
      <4>1. 1 \in 1 .. d
        BY <1>18
      <4>2. QED  BY <2>1, <4>1, Kinds
    <3>4. QED  BY <1>13, <1>20, <3>1, <3>2, <3>3
  <2>5. QED  BY <2>3, <2>4
<1>21. CASE temp = <<>> /\ i # Len(answer.chunks) /\ n = B + (at + d + 2 + z + 2) - 2
  <2>0. n = B + at + d + 2 + z
    BY <1>21
  <2>1. stream[n + 1] = CR /\ stream[n + 2] = LF
    BY <1>17, <2>0
  <2>2. CASE n + 2 <= c
    <3>1. find(Bytes(n, c), <<CR, LF>>) = 0
      <4>1. 0 \in Nat /\ n + 0 + 2 <= c /\ n + 0 + 1 = n + 1 /\ n + 0 + 2 = n + 2
        BY <2>2
      <4>2. \A k \in 1 .. 0 : stream[n + k] \in Hex
        OBVIOUS
      <4>3. QED  BY <1>2, <1>4, <2>1, <4>1, <4>2, SeenWhole
    <3>2. temp \o piece = piece
      BY <1>6, <1>21
    <3>3. find(temp \o piece, <<CR, LF>>) = 0
      BY <1>4, <3>1, <3>2
    <3>4. /\ eaten' = eaten \o Upto(piece, 2) /\ buf' = From(piece, 2)
          /\ temp' = <<>> /\ GoTo("chunk") /\ UNCHANGED <<received, csize>>
      BY <3>3 DEF SizeLine, SizeLineWith, npos
    <3>5. Eaten' = n + 2 /\ buf' = Bytes(n + 2, c)
      <4>1. Eaten + 2 <= c /\ eaten' = eaten \o Upto(Bytes(Eaten, c), 2) /\ 2 \in Nat
        BY <1>4, <2>2, <3>4
      <4>2. Eaten' = Eaten + 2 /\ From(Bytes(Eaten, c), 2) = Bytes(Eaten + 2, c)
        BY <1>2, <4>1, Moved
      <4>3. QED  BY <1>4, <3>4, <4>2
    <3>6. Len(buf') <= MAXRECV
      <4>1. Len(buf') = c - (n + 2)
        <5>1. n + 2 \in Nat /\ n + 2 <= c
          BY <2>2
        <5>2. QED  BY <3>5, <5>1, Ends0
      <4>2. PICK M \in Nat : M = MAXRECV /\ c - n <= M
        BY <1>4, HttpReaderAssumption
      <4>3. c - (n + 2) <= M
        BY <4>2
      <4>4. QED  BY <4>1, <4>2, <4>3
    <3>7. /\ pc' = "chunk" /\ failed' = failed /\ received' = received
          /\ received' \in Nat /\ csize' \in Nat /\ received' <= MAXCHUNKHEADER
      BY <1>1, <1>2, <3>4 DEF GoTo, LimitInv
    <3>8. ChunkInv'
      <4>1. n + 2 = B + (at + d + 2 + z + 2)
        BY <1>21
      <4>2. i + 1 \in DOMAIN answer'.chunks /\ Eaten' = BodyAt' + answer'.chunks[i + 1].at
        BY <1>9, <1>19, <1>21, <3>5, <4>1 DEF Chunk
      <4>3. BetweenChunks'
        BY <4>2 DEF BetweenChunks, Chunk
      <4>4. QED  BY <1>7, <1>9, <1>11, <3>4, <4>3 DEF ChunkInv
    <3>9. PlaceInv'
      BY <3>7, <3>8 DEF PlaceInv
    <3>10. ~ CutOff'
      <4>1. CutOff' => u < B
        BY <1>5, <1>9 DEF CutOff
      <4>2. B <= u
        BY <1>4, <1>5, <1>21
      <4>3. QED  BY <4>1, <4>2
    <3>11. IsData(body, stream, B, n + 2)
      <4>1. \A k \in n + 1 .. n + 2 : stream[k] # "d"
        <5>1. ASSUME NEW k \in n + 1 .. n + 2 PROVE stream[k] # "d"
          <6>1. k = n + 1 \/ k = n + 2
            OBVIOUS
          <6>2. QED  BY <2>1, <6>1, Kinds
        <5>2. QED  BY <5>1
      <4>2. n + 2 \in Nat /\ n <= n + 2
        OBVIOUS
      <4>3. QED  BY <1>11, <4>1, <4>2, NoData
    <3>12. BodyInv'
      BY <1>2, <1>7, <1>9, <3>5, <3>7, <3>10, <3>11 DEF BodyInv, InBody
    <3>13. QED  BY <1>1, <1>7, <1>8, <3>6, <3>7, <3>9, <3>12, GoesOn
  <2>3. CASE ~ (n + 2 <= c)
    <3>1. c = n + 1
      BY <1>4, <2>3
    <3>2. Cuts(c)
      <4>1. c < S /\ c > B
        BY <1>18, <2>0, <3>1
      <4>2. QED  BY <1>3, <2>1, <3>1, <4>1 DEF Cuts
    <3>3. \A j \in n + 1 .. c - 1 : stream[j] # CR
      BY <3>1
    <3>4. stream[n + 1] # LF
      BY <2>1, Kinds
    <3>5. QED  BY <1>13, <1>21, <3>2, <3>3, <3>4
  <2>4. QED  BY <2>2, <2>3
<1>22. \/ n = B + at
       \/ i # Len(answer.chunks) /\ n = B + (at + d + 2 + z + 2) - 2
  BY <1>3, <1>4, <1>14, <1>19
<1>23. QED  BY <1>12, <1>20, <1>21, <1>22

LEMMA AskKeeps ==
  ASSUME Inv, NEW a \in Answers, NEW bytes \in 0 .. Len(a.text), NEW closes \in BOOLEAN,
         Ask(a, bytes, closes), BufferInv'
  PROVE  StreamInv' /\ LimitInv' /\ PlaceInv' /\ BodyInv' /\ FailsOnlySplit'
<1>1. /\ BufferInv /\ StreamInv /\ LimitInv /\ PlaceInv /\ pc = "answered"
      /\ ~ closed /\ AnsweredInv
  BY DEF Inv, Ask, PlaceInv
<1>2. a.text \in Seq(Values) /\ IsHeader(a) /\ IsBody(a)
  BY HttpReaderAssumption
<1>3. PICK L \in Nat, lead \in Nat, head \in Nat :
        /\ L = Len(a.text) /\ lead = a.lead /\ head = a.head /\ lead < head /\ head <= L
  BY <1>2 DEF IsHeader
<1>4. PICK S \in Nat, n \in Nat, t \in Nat :
        /\ S = Sent /\ n = Eaten /\ t = taken /\ supply = S /\ t <= S
        /\ S - 2 <= n /\ n <= S
        /\ \A i \in n + 1 .. S : stream[i] \in Blank
  BY <1>1, Here DEF StreamInv, Sent, AnsweredInv, Blanks, Ask
<1>5. /\ asked < Requests /\ (a.end = "none" => closes)
      /\ asked' = asked + 1 /\ answer' = a /\ stream' = stream \o a.text
      /\ supply' = supply + bytes /\ closed' = closes /\ pc' = "skip" /\ received' = 0
      /\ poscount' = 0 /\ header' = <<>> /\ body' = <<>> /\ split' = FALSE
      /\ UNCHANGED <<taken, buf, eaten, csize, failed>>
  BY DEF Ask
<1>6. Eaten' = n /\ taken' = t
  BY <1>4, <1>5 DEF Eaten
<1>7. /\ stream \in Seq(Values) /\ stream' \in Seq(Values) /\ Sent' = S + L
      /\ \A i \in 1 .. S + L : stream'[i] = IF i <= S THEN stream[i] ELSE a.text[i - S]
  <2>1. stream \in Seq(Values) /\ S = Len(stream)
    BY <1>1, <1>4 DEF StreamInv, Sent
  <2>2. QED  BY <1>2, <1>3, <1>5, <2>1, ConcatProperties DEF Sent
<1>8. AnswerAt' = S
  BY <1>3, <1>5, <1>7 DEF AnswerAt
<1>9. HeaderAt' = S + lead /\ BodyAt' = S + head
  BY <1>3, <1>5, <1>8 DEF HeaderAt, BodyAt
<1>10. StreamInv'
  <2>1. ASSUME NEW i \in 1 .. L
        PROVE  stream'[S + i] = a.text[i]
    <3>1. S + i \in 1 .. S + L /\ ~ (S + i <= S) /\ S + i - S = i
      OBVIOUS
    <3>2. QED  BY <1>7, <3>1
  <2>2. supply' <= Sent'
    <3>1. S + bytes <= S + L /\ supply' = S + bytes
      BY <1>3, <1>4, <1>5
    <3>2. QED  BY <1>7, <3>1
  <2>3. asked' \in 0 .. Requests /\ asked' # 0
    <3>1. asked \in 0 .. Requests /\ Requests \in Nat
      BY <1>1, HttpReaderAssumption DEF StreamInv
    <3>2. QED  BY <1>5, <3>1
  <2>4. closed' \in BOOLEAN /\ split' \in BOOLEAN /\ answer' \in Answers
    BY <1>5
  <2>5. AnswerAt' \in Nat
    BY <1>8
  <2>6. \A i \in 1 .. Len(answer'.text) : stream'[AnswerAt' + i] = answer'.text[i]
    BY <1>3, <1>5, <1>8, <2>1
  <2>7. QED  BY <1>5, <1>7, <2>2, <2>3, <2>4, <2>5, <2>6 DEF StreamInv
<1>11. LimitInv'
  BY <1>1, <1>5 DEF LimitInv
<1>12. SkipInv'
  <2>1. n <= S + lead
    BY <1>4
  <2>2. ASSUME NEW i \in n + 1 .. S + lead
        PROVE  stream'[i] \in Blank
    <3>0. i \in 1 .. S + L /\ i \in Nat
      BY <1>3
    <3>1. CASE i <= S
      <4>1. i \in n + 1 .. S
        BY <3>1
      <4>2. QED  BY <1>4, <1>7, <3>0, <3>1, <4>1
    <3>2. CASE ~ (i <= S)
      <4>1. i - S \in 1 .. lead
        BY <3>2
      <4>2. a.text[i - S] \in Blank
        BY <1>2, <1>3, <4>1 DEF IsHeader
      <4>3. QED  BY <1>7, <3>0, <3>2, <4>2
    <3>3. QED  BY <3>1, <3>2
  <2>3. 0 - 2 <= n - S
    BY <1>4
  <2>4. QED  BY <1>4, <1>5, <1>6, <1>8, <1>9, <2>1, <2>2, <2>3 DEF SkipInv, Blanks
<1>13. PlaceInv'
  BY <1>5, <1>12 DEF PlaceInv
<1>14. BodyInv'
  <2>1. body' \in Seq(Nat) /\ DOMAIN body' = {}
    BY <1>5
  <2>2. S + head \in Nat /\ S + head + 1 .. S + head = {}
    OBVIOUS
  <2>3. IsData(body', stream', BodyAt', BodyAt')
    <3>1. Range(body') = {}
      BY <2>1 DEF Range
    <3>2. {i \in BodyAt' + 1 .. BodyAt' : stream'[i] = "d"} = {}
      BY <1>9, <2>2
    <3>3. QED  BY <2>1, <3>1, <3>2 DEF IsData
  <2>4. QED  BY <1>5, <2>1, <2>3 DEF BodyInv, InBody
<1>15. FailsOnlySplit'
  BY <1>1, <1>5 DEF FailsOnlySplit, LimitInv
<1>16. QED  BY <1>10, <1>11, <1>13, <1>14, <1>15

LEMMA InitPlace == Init => Inv
<1> SUFFICES ASSUME Init PROVE Inv
  OBVIOUS
<1>1. BufferInv
  BY InitBuffer
<1>2. /\ asked = 0 /\ answer = (CHOOSE a \in Answers : TRUE) /\ stream = <<>> /\ supply = 0
      /\ closed = FALSE /\ buf = <<>> /\ eaten = <<>> /\ pc = "answered" /\ received = 0
      /\ csize = 0 /\ body = <<>> /\ split = FALSE /\ failed = ""
  BY DEF Init
<1>3. Len(<<>>) = 0 /\ <<>> \in Seq(Values) /\ <<>> \in Seq(Nat)
  OBVIOUS
<1>4. Sent = 0 /\ Eaten = 0
  BY <1>2, <1>3 DEF Sent, Eaten
<1>5. StreamInv
  <2>1. answer \in Answers
    BY <1>2, HttpReaderAssumption
  <2>2. 0 \in 0 .. Requests
    BY HttpReaderAssumption
  <2>3. 0 <= 0
    OBVIOUS
  <2>4. asked \in 0 .. Requests /\ ~ (asked # 0) /\ ~ closed
    BY <1>2, <2>2
  <2>5. supply <= Sent /\ stream \in Seq(Values)
    BY <1>2, <1>3, <1>4, <2>3
  <2>6. closed \in BOOLEAN /\ split \in BOOLEAN
    BY <1>2, Zenon
  <2>7. QED  BY <1>2, <1>4, <2>1, <2>4, <2>5, <2>6, Zenon DEF StreamInv
<1>6. LimitInv
  <2>1. 0 <= MAXRECV
    BY HttpReaderAssumption
  <2>2. QED  BY <1>2, <1>3, <2>1 DEF LimitInv
<1>7. PlaceInv
  <2>1. \A i \in 0 + 1 .. 0 : stream[i] \in Blank
    OBVIOUS
  <2>2. AnsweredInv
    <3>1. 0 - 2 <= 0 /\ 0 <= 0
      OBVIOUS
    <3>2. Sent - 2 <= Eaten /\ Eaten <= Sent
      BY <1>4, <3>1
    <3>3. Blanks(stream, Eaten, Sent)
      BY <1>4, <2>1 DEF Blanks
    <3>4. asked = 0
      BY <1>2
    <3>5. QED  BY <3>2, <3>3, <3>4 DEF AnsweredInv
  <2>3. QED  BY <1>2, <2>2 DEF PlaceInv
<1>8. BodyInv
  BY <1>2, <1>3 DEF BodyInv
<1>9. FailsOnlySplit
  BY <1>2 DEF FailsOnlySplit
<1>10. QED  BY <1>1, <1>5, <1>6, <1>7, <1>8, <1>9 DEF Inv

LEMMA StandsStill ==
  ASSUME Inv, UNCHANGED vars
  PROVE  StreamInv' /\ LimitInv' /\ PlaceInv' /\ BodyInv' /\ FailsOnlySplit'
<1>1. /\ asked' = asked /\ answer' = answer /\ stream' = stream /\ supply' = supply
      /\ closed' = closed /\ taken' = taken /\ buf' = buf /\ eaten' = eaten /\ pc' = pc
      /\ temp' = temp /\ received' = received /\ poscount' = poscount /\ csize' = csize
      /\ length' = length /\ header' = header /\ body' = body /\ split' = split
      /\ failed' = failed
  BY DEF vars, server, locals
<1>2. /\ Sent' = Sent /\ AnswerAt' = AnswerAt /\ HeaderAt' = HeaderAt /\ BodyAt' = BodyAt
      /\ Eaten' = Eaten
  BY <1>1 DEF Sent, AnswerAt, HeaderAt, BodyAt, Eaten
<1>3. HeaderBytes' = HeaderBytes /\ Refusable' = Refusable /\ InBody' = InBody
      /\ CutOff' = CutOff
  BY <1>1, <1>2 DEF HeaderBytes, Refusable, InBody, CutOff
<1>4. StreamInv'
  BY <1>1, <1>2 DEF Inv, StreamInv
<1>5. LimitInv'
  BY <1>1 DEF Inv, LimitInv
<1>6. FailsOnlySplit'
  BY <1>1, <1>3 DEF Inv, FailsOnlySplit
<1>7. BodyInv'
  BY <1>1, <1>2, <1>3 DEF Inv, BodyInv
<1>8. PlaceInv'
  <2>1. AnsweredInv' = AnsweredInv
    BY <1>1, <1>2, <1>3 DEF AnsweredInv
  <2>2. SkipInv' = SkipInv
    BY <1>1, <1>2 DEF SkipInv
  <2>3. HeaderInv' = HeaderInv
    BY <1>1, <1>2 DEF HeaderInv
  <2>4. BetweenChunks' = BetweenChunks
    BY <1>1, <1>2 DEF BetweenChunks, Chunk
  <2>5. ChunkInv' = ChunkInv
    BY <1>1, <1>3, <2>4 DEF ChunkInv, Stuck
  <2>6. /\ HeaderEndInv' = HeaderEndInv /\ BareHeaderEndInv' = BareHeaderEndInv
        /\ EmptyLineInv' = EmptyLineInv
    BY <1>1, <1>2, <1>3 DEF HeaderEndInv, BareHeaderEndInv, EmptyLineInv
  <2>7. SizeInv' = SizeInv /\ DataInv' = DataInv
    BY <1>1, <1>2, <1>3 DEF SizeInv, DataInv, Chunk
  <2>8. QED  BY <1>1, <2>1, <2>2, <2>3, <2>5, <2>6, <2>7 DEF Inv, PlaceInv
<1>9. QED  BY <1>4, <1>5, <1>6, <1>7, <1>8

LEMMA StepPlace == Inv /\ [Next]_vars => Inv'
<1> SUFFICES ASSUME Inv, [Next]_vars PROVE Inv'
  OBVIOUS
<1>1. BufferInv'
  BY StepBuffer DEF Inv
<1> SUFFICES StreamInv' /\ LimitInv' /\ PlaceInv' /\ BodyInv' /\ FailsOnlySplit'
  BY <1>1 DEF Inv
<1>2. CASE \E piece \in Pieces : SkipBlanks(piece) \/ MoreHeader(piece) \/ SizeLine(piece)
  BY <1>1, <1>2, SkipKeeps, MoreKeeps, SizeLineKeeps
<1>3. CASE KeepHeader
  BY <1>3, KeepKeeps
<1>4. CASE EndHeader \/ EndBareHeader
  BY <1>4, EndKeeps
<1>5. CASE ClosedHeader
  BY <1>5, ClosedKeeps
<1>6. CASE NoPiece
  BY <1>6, NoPieceKeeps
<1>7. CASE RecvLength
  BY <1>1, <1>7, RecvLengthKeeps
<1>8. CASE RecvLengthFails
  BY <1>8, RecvLengthFailsKeeps
<1>9. CASE \E b \in taken + 1 .. supply : RecvLengthMore(b)
  BY <1>1, <1>9, RecvLengthMoreKeeps
<1>10. CASE \E a \in Answers, closes \in BOOLEAN :
              \E bytes \in 0 .. Len(a.text) : Ask(a, bytes, closes)
  BY <1>1, <1>10, AskKeeps
<1>11. CASE UNCHANGED vars
  BY <1>11, StandsStill
<1>12. QED  BY <1>2, <1>3, <1>4, <1>5, <1>6, <1>7, <1>8, <1>9, <1>10, <1>11 DEF Next, Reader

LEMMA InTheBody ==
  ASSUME Inv, asked # 0, InBody, ~ CutOff
  PROVE  BodyAt <= Eaten
<1>1. BufferInv /\ StreamInv /\ PlaceInv
  BY DEF Inv
<1>2. \E i \in DOMAIN answer.chunks :
        \/ Eaten = BodyAt + Chunk(i).at
        \/ Eaten = BodyAt + ChunkEnd(Chunk(i)) - 2
        \/ Eaten = BodyAt + DataAt(Chunk(i))
  BY <1>1 DEF InBody, PlaceInv, ChunkInv, BetweenChunks, SizeInv, DataInv
<1>3. PICK i \in DOMAIN answer.chunks :
        \/ Eaten = BodyAt + Chunk(i).at
        \/ Eaten = BodyAt + ChunkEnd(Chunk(i)) - 2
        \/ Eaten = BodyAt + DataAt(Chunk(i))
  BY <1>2
<1>4. PICK B \in Nat, S \in Nat, at \in Nat, d \in Nat, z \in Nat : ChunkIs(i, B, S, at, d, z)
  BY <1>1, ChunkPlaces
<1>5. B = BodyAt /\ (\/ Eaten = B + at
                     \/ Eaten = B + (at + d + 2 + z + 2) - 2
                     \/ Eaten = B + (at + d + 2))
  BY <1>3, <1>4 DEF ChunkIs
<1>6. PICK n \in Nat : n = Eaten
  BY <1>1, Here
<1>7. B <= n
  BY <1>5, <1>6
<1>8. QED  BY <1>5, <1>6, <1>7

LEMMA Placed == Spec => []Inv
BY InitPlace, StepPlace, PTL DEF Spec

\* The types, and the bounds on what a look ahead holds: RecvBuf never holds more
\* than one piece, and a look for the end of a header or of a size line goes on
\* only below its limit.
THEOREM TypeCorrect == Spec => []TypeOK
<1>1. Inv => TypeOK
  <2> SUFFICES ASSUME Inv PROVE TypeOK
    OBVIOUS
  <2>1. BufferInv /\ StreamInv /\ LimitInv
    BY DEF Inv
  <2>2. taken \in 0 .. supply
    <3>1. PICK t \in Nat, u \in Nat : t = taken /\ u = supply /\ t <= u
      BY <2>1, Here
    <3>2. QED  BY <3>1
  <2>3. QED  BY <2>1, <2>2 DEF StreamInv, LimitInv, TypeOK
<1>2. QED  BY <1>1, Placed, PTL

\* When ReadHeader() returns true (httphandler.cpp:20-108) it has returned the
\* answer's header, without the blanks before it and without a byte behind it.
THEOREM HeadersAreExact == Spec => []HeaderExact
<1>1. Inv => HeaderExact
  <2> SUFFICES ASSUME Inv, asked # 0, pc \in {"chunk", "answered"}
               PROVE  header = HeaderBytes \/ CutOff
    BY DEF HeaderExact, CutOff
  <2>1. CASE pc = "chunk"
    BY <2>1 DEF Inv, PlaceInv, ChunkInv
  <2>2. CASE pc = "answered"
    BY <2>2 DEF Inv, PlaceInv, AnsweredInv
  <2>3. QED  BY <2>1, <2>2
<1>2. QED  BY <1>1, Placed, PTL

\* What ReadBodyPart() returns (httphandler.cpp:177-289) is the chunks' data, each
\* byte once and in order, and all of it when it says that the body is over.
THEOREM BodiesAreExact == Spec => []BodyExact
<1>1. Inv => BodyExact
  <2> SUFFICES ASSUME Inv, asked # 0
               PROVE  \E upto \in BodyAt .. Sent :
                        /\ IsData(body, stream, BodyAt, upto)
                        /\ pc = "answered" /\ supply = Sent => upto = Sent
    BY DEF BodyExact, IsData, DataBytes
  <2>1. BufferInv /\ StreamInv /\ LimitInv /\ PlaceInv /\ BodyInv
    BY DEF Inv
  <2>2. PICK A \in Nat, H \in Nat, B \in Nat, S \in Nat :
          /\ A = AnswerAt /\ H = HeaderAt /\ B = BodyAt /\ S = Sent
          /\ A <= H /\ H < B /\ B <= S /\ supply <= S
    BY <2>1, Places
  <2>3. B \in B .. S /\ S \in B .. S
    BY <2>2
  <2>4. CASE pc = "answered"
    <3>1. supply = Sent => ~ CutOff
      BY <2>2 DEF CutOff
    <3>2. IsData(body, stream, BodyAt, IF CutOff THEN BodyAt ELSE Sent)
      BY <2>1, <2>4 DEF BodyInv
    <3>3. QED  BY <2>2, <2>3, <3>1, <3>2
  <2>5. CASE pc = "failed"
    BY <2>1, <2>5 DEF BodyInv
  <2>6. CASE pc \notin {"answered", "failed"} /\ (~ InBody \/ CutOff)
    BY <2>1, <2>2, <2>3, <2>6 DEF BodyInv
  <2>7. CASE pc \notin {"answered", "failed"} /\ InBody /\ ~ CutOff
    <3>1. IsData(body, stream, BodyAt, Eaten)
      BY <2>1, <2>7 DEF BodyInv
    <3>2. PICK n \in Nat, u \in Nat : n = Eaten /\ u = supply /\ n <= u
      <4>1. PICK n \in Nat, t \in Nat, u \in Nat :
              n = Eaten /\ t = taken /\ u = supply /\ n <= t /\ t <= u
        BY <2>1, Here
      <4>2. n <= u
        BY <4>1
      <4>3. QED  BY <4>1, <4>2
    <3>3. B <= n
      BY <2>1, <2>2, <2>7, <3>2, InTheBody
    <3>4. n \in B .. S
      BY <2>2, <3>2, <3>3
    <3>5. QED  BY <2>2, <2>7, <3>1, <3>2, <3>4
  <2>8. QED  BY <2>4, <2>5, <2>6, <2>7
<1>2. QED  BY <1>1, Placed, PTL

\* ReadHeader() and ReadBodyPart() give up an answer that came in full only because
\* a piece ended inside what they look for or because it is larger than the limits
\* allow for.
THEOREM FailuresAreKnown == Spec => []FailsOnlySplit
<1>1. Inv => FailsOnlySplit
  BY DEF Inv
<1>2. QED  BY <1>1, Placed, PTL
=============================================================================
