------------------------------ MODULE Chunked ------------------------------
(***************************************************************************)
(* HTTP/1.1 chunked transfer coding, http/http/internal/chunked.go: a      *)
(* chunkedWriter that frames a body onto a buffered connection, and a      *)
(* chunkedReader that takes it apart again from a bufio.Reader.            *)
(*                                                                         *)
(* The connection delivers bytes in order, in pieces of any length, and    *)
(* may be cut at any point.  A Read of the chunkedReader takes one step    *)
(* for every test of its loop that looks at what bufio.Reader holds, and   *)
(* blocks inside a step until the connection supplies more: where Read     *)
(* splits the stream is decided by how the pieces arrive and by the sizes  *)
(* of the caller's buffers.                                                *)
(*                                                                         *)
(* A byte is a name.  Hex digits may be payload too, and so may CR and LF. *)
(***************************************************************************)
EXTENDS Integers, Sequences, SequencesExt

CONSTANTS
  Payloads,     \* what the body's producer passes to chunkedWriter.Write
  MaxWrites,    \* bound on the number of such calls
  RawStreams,   \* streams of peers that do not use this chunkedWriter
  ReadSizes,    \* len(b) of the calls of chunkedReader.Read
  BufSize,      \* size of the bufio.Reader, and maxLineLength (4096)
  MaxHexDigits  \* the digits parseHexUint accepts (16 in the code)

Digits == <<"0", "1", "2", "3", "4", "5", "6", "7", "8", "9",
            "a", "b", "c", "d", "e", "f">>
Hex == {Digits[i] : i \in DOMAIN Digits}
HexVal == [d \in Hex |-> (CHOOSE i \in DOMAIN Digits : Digits[i] = d) - 1]
Bytes == Hex \cup {"CR", "LF", "SP", "SEMI", "x"}
CRLF == <<"CR", "LF">>

\* The number whose hex digits are v.
HexNumber(v) ==
  LET value[k \in 0 .. Len(v)] == IF k = 0 THEN 0 ELSE 16 * value[k - 1] + HexVal[v[k]]
  IN  value[Len(v)]

\* v is what %x writes of m, and no longer than parseHexUint accepts.
HexStrings == UNION {[1 .. k -> Hex] : k \in 1 .. MaxHexDigits}
Writes(v, m) == HexNumber(v) = m /\ (Len(v) = 1 \/ v[1] # "0")

\* A length is an int: its hex digits are never more than 16.
ASSUME PayloadsAssumption ==
  /\ Payloads \subseteq Seq(Bytes)
  /\ \A p \in Payloads : \E v \in HexStrings : Writes(v, Len(p))
ASSUME StreamsAssumption == RawStreams \subseteq Seq(Bytes)
\* The longest size line of this writer fits the reader's buffer.
ASSUME SizesAssumption ==
  /\ ReadSizes \subseteq Nat \ {0}
  /\ MaxHexDigits \in Nat \ {0}
  /\ BufSize \in Nat /\ BufSize > MaxHexDigits + 2
  /\ MaxWrites \in Nat

VARIABLES
  flushing,  \* the writer's Wire is a FlushAfterChunkWriter
  wpc,       \* step of the running chunkedWriter.Write, or the writer's end
  data,      \* its argument, while it runs or when it failed
  written,   \* the body: every payload whose Write returned nil, in order
  writes,    \* number of calls of Write
  wbuf,      \* bytes the buffered Wire has not put on the connection
  wire,      \* every byte put on the connection
  cut,       \* the connection has ended: nothing follows wire
  taken,     \* number of bytes of wire read by the bufio.Reader
  rbuf,      \* what the bufio.Reader holds: r.Buffered() = Len(rbuf)
  n,         \* cr.n, unread bytes of the current chunk
  err,       \* cr.err
  checkEnd,  \* cr.checkEnd
  rpc,       \* step of the running chunkedReader.Read
  room,      \* len(b) left, while a Read runs
  part,      \* what the running Read copied so far: its n is Len(part)
  got        \* what the completed Reads returned

writer == <<flushing, wpc, data, written, writes>>
conn == <<wbuf, wire, cut>>
bufio == <<taken, rbuf>>
reader == <<n, err, checkEnd>>
vars == <<writer, conn, bufio, reader, rpc, room, part, got>>

Errors == {"nil", "EOF", "ErrUnexpectedEOF", "ErrLineTooLong", "Malformed",
           "InvalidByte", "TooLarge"}

Init ==
  /\ flushing \in BOOLEAN
  /\ wpc = "idle" /\ data = <<>> /\ written = <<>> /\ writes = 0
  /\ wbuf = <<>> /\ wire = <<>> /\ cut = FALSE
  /\ taken = 0 /\ rbuf = <<>>
  /\ n = 0 /\ err = "nil" /\ checkEnd = FALSE
  /\ rpc = "idle" /\ room = 0 /\ part = <<>> /\ got = <<>>

-----------------------------------------------------------------------------
(* chunkedWriter *)

\* The digits %x writes of a length.
HexDigits(m) == CHOOSE v \in HexStrings : Writes(v, m)

\* The chunk-size line that fmt.Fprintf("%x\r\n") writes.
SizeLine(p) == HexDigits(Len(p)) \o CRLF

\* A call on Wire: the bytes join the buffer and some of it, perhaps all, is
\* put on the connection (a bufio.Writer spills when it is full).
WireWrite(bytes) ==
  \E k \in 0 .. Len(wbuf \o bytes) :
    /\ wire' = wire \o SubSeq(wbuf \o bytes, 1, k)
    /\ wbuf' = SubSeq(wbuf \o bytes, k + 1, Len(wbuf \o bytes))
    /\ UNCHANGED cut

WireIdle == ~cut /\ wpc = "idle"

\* Mutant: zero-length data is sent as a chunk.
WriteEvenEmpty(p) ==
  /\ WireIdle /\ writes < MaxWrites
  /\ writes' = writes + 1
  /\ wpc' = "data" /\ data' = p /\ WireWrite(SizeLine(p))
  /\ UNCHANGED <<flushing, written, bufio, reader, rpc, room, part, got>>

\* Write returns at once for zero-length data, which would look like the end
\* of the body; otherwise it first writes the size line.
Write(p) ==
  /\ WireIdle /\ writes < MaxWrites
  /\ writes' = writes + 1
  /\ UNCHANGED <<flushing, written, bufio, reader, rpc, room, part, got>>
  /\ \/ p = <<>> /\ UNCHANGED <<wpc, data, conn>>
     \/ p # <<>> /\ wpc' = "data" /\ data' = p /\ WireWrite(SizeLine(p))

WriteData ==
  /\ ~cut /\ wpc = "data"
  /\ wpc' = "crlf"
  /\ WireWrite(data)
  /\ UNCHANGED <<flushing, data, written, writes, bufio, reader, rpc, room, part, got>>

\* The footer, and the flush of a FlushAfterChunkWriter.
WriteFooter ==
  IF flushing
    THEN wire' = wire \o wbuf \o CRLF /\ wbuf' = <<>> /\ UNCHANGED cut
    ELSE WireWrite(CRLF)

FinishWrite ==
  /\ ~cut /\ wpc = "crlf"
  /\ WriteFooter
  /\ wpc' = "idle"
  /\ written' = written \o data
  /\ data' = <<>>
  /\ UNCHANGED <<flushing, writes, bufio, reader, rpc, room, part, got>>

\* Mutant: the sentinel chunk has no line end.
CloseUnterminated ==
  /\ WireIdle
  /\ wpc' = "closed"
  /\ WireWrite(<<"0">>)
  /\ UNCHANGED <<flushing, data, written, writes, bufio, reader, rpc, room, part, got>>

\* Close writes the sentinel chunk; it does not flush.
Close ==
  /\ WireIdle
  /\ wpc' = "closed"
  /\ WireWrite(<<"0">> \o CRLF)
  /\ UNCHANGED <<flushing, data, written, writes, bufio, reader, rpc, room, part, got>>

\* The owner of Wire flushes it after Close and ends the connection.
FinishBody ==
  /\ ~cut /\ wpc = "closed"
  /\ wpc' = "finished"
  /\ wire' = wire \o wbuf /\ wbuf' = <<>> /\ cut' = TRUE
  /\ UNCHANGED <<flushing, data, written, writes, bufio, reader, rpc, room, part, got>>

\* The connection is cut: what Wire still held is lost, and a Write in
\* progress returns its error (or io.ErrShortWrite) at its next call on Wire.
Cut ==
  /\ ~cut
  /\ cut' = TRUE /\ wbuf' = <<>>
  /\ wpc' = IF wpc \in {"data", "crlf"} THEN "failed" ELSE wpc
  /\ UNCHANGED <<flushing, data, written, writes, wire, bufio, reader, rpc, room, part, got>>

\* The stream comes from some other implementation.
RawPeer(s) ==
  /\ WireIdle /\ writes = 0
  /\ wire' = s /\ cut' = TRUE /\ wpc' = "raw"
  /\ UNCHANGED <<flushing, data, written, writes, wbuf, bufio, reader, rpc, room, part, got>>

-----------------------------------------------------------------------------
(* The chunk-size line *)

Spaces == {"SP", "CR", "LF"}

Trim(line) ==
  SubSeq(line, 1, SelectLastInSeq(line, LAMBDA b : b \notin Spaces))

removeChunkExtension(line) ==
  SubSeq(line, 1, SelectInSeq(line \o <<"SEMI">>, LAMBDA b : b = "SEMI") - 1)

\* parseHexUint looks at the bytes in order: the first bad one decides.
parseHexUint(v) ==
  LET bad == SelectInSeq(v, LAMBDA b : b \notin Hex)
  IN  IF bad \in 1 .. MaxHexDigits + 1 THEN [n |-> 0, err |-> "InvalidByte"]
      ELSE IF Len(v) > MaxHexDigits THEN [n |-> 0, err |-> "TooLarge"]
      ELSE [n |-> HexNumber(v), err |-> "nil"]

\* beginChunk once readChunkLine has taken `line', its LF included.
ChunkHeader(line) ==
  IF Len(line) >= BufSize THEN [n |-> 0, err |-> "ErrLineTooLong"]
  ELSE LET size == parseHexUint(removeChunkExtension(Trim(line)))
       IN  IF size = [n |-> 0, err |-> "nil"] THEN [n |-> 0, err |-> "EOF"] ELSE size

-----------------------------------------------------------------------------
(* chunkedReader *)

HasLF(s) == \E i \in 1 .. Len(s) : s[i] = "LF"
FirstLF(s) == SelectInSeq(s, LAMBDA b : b = "LF")
Drop(s, k) == SubSeq(s, k + 1, Len(s))

\* The loop is left: Read returns (n, cr.err).
ReturnFromRead(copied) ==
  /\ rpc' = "idle"
  /\ got' = got \o copied
  /\ part' = <<>>
  /\ room' = 0

\* The end of an iteration: the loop's condition is tested.
NextIteration(e, copied) ==
  \/ /\ e = "nil"
     /\ rpc' = "loop" /\ part' = copied /\ room' = room - (Len(copied) - Len(part))
     /\ UNCHANGED got
  \/ e # "nil" /\ ReturnFromRead(copied)

\* Once cr.err is set every Read returns it at once.
Read(size) ==
  /\ rpc = "idle"
  /\ UNCHANGED <<writer, conn, bufio, reader, part, got>>
  /\ \/ err = "nil" /\ rpc' = "loop" /\ room' = size
     \/ err # "nil" /\ UNCHANGED <<rpc, room>>

\* Data in hand and the footer not yet buffered.
FooterMayBlock == part # <<>> /\ Len(rbuf) < 2

\* Mutant: the header is read whatever is buffered.
HeaderNeverBlocks == FALSE

\* Data in hand and no complete header line buffered.
HeaderMayBlock == part # <<>> /\ ~HasLF(rbuf)

\* Which read of cr.r the loop comes to next.
Stage == IF checkEnd THEN "footer" ELSE IF n = 0 THEN "header" ELSE "data"

StopHere ==
  \/ Stage = "footer" /\ FooterMayBlock
  \/ Stage = "header" /\ HeaderMayBlock
  \/ Stage = "data" /\ room = 0

BreakLoop ==
  /\ rpc = "loop" /\ StopHere
  /\ ReturnFromRead(part)
  /\ UNCHANGED <<writer, conn, bufio, reader>>

EnterStage ==
  /\ rpc = "loop" /\ ~StopHere
  /\ rpc' = Stage
  /\ UNCHANGED <<writer, conn, bufio, reader, room, part, got>>

\* What the current read of cr.r needs in the buffer before it can return.
Satisfied ==
  \/ rpc = "footer" /\ Len(rbuf) >= 2
  \/ rpc = "header" /\ (HasLF(rbuf) \/ Len(rbuf) >= BufSize)
  \/ rpc = "data" /\ rbuf # <<>>

\* bufio.Reader reads from the connection, which returns what has arrived or
\* a part of it.  (io.ReadFull takes the first byte of a footer before the
\* second is there: rbuf then stands for that byte too.)
Fill(k) ==
  /\ rpc \in {"footer", "header", "data"} /\ ~Satisfied
  /\ k <= BufSize - Len(rbuf) /\ k <= Len(wire) - taken
  /\ rbuf' = rbuf \o SubSeq(wire, taken + 1, taken + k)
  /\ taken' = taken + k
  /\ UNCHANGED <<writer, conn, reader, rpc, room, part, got>>

AtEOF == cut /\ taken = Len(wire) /\ ~Satisfied

\* Mutant: the footer is skipped, not compared with CRLF.
FooterUnchecked == "nil"

FooterError == IF SubSeq(rbuf, 1, 2) = CRLF THEN "nil" ELSE "Malformed"

ReadFooter ==
  /\ rpc = "footer" /\ Satisfied
  /\ rbuf' = Drop(rbuf, 2)
  /\ err' = FooterError
  /\ checkEnd' = (FooterError # "nil")
  /\ NextIteration(FooterError, part)
  /\ UNCHANGED <<writer, conn, taken, n>>

\* io.ReadFull fails: its error is in a variable of the inner scope, cr.err
\* is still nil, and Read returns without an error.
FooterEOF ==
  /\ rpc = "footer" /\ AtEOF
  /\ rbuf' = <<>>
  /\ ReturnFromRead(part)
  /\ UNCHANGED <<writer, conn, taken, reader>>

\* What ReadSlice returns: up to the first LF, or the whole full buffer.
BufferedLine == IF HasLF(rbuf) THEN SubSeq(rbuf, 1, FirstLF(rbuf)) ELSE rbuf

\* beginChunk.
BeginChunk ==
  /\ rpc = "header" /\ Satisfied
  /\ \E line \in {BufferedLine} : \E header \in {ChunkHeader(line)} :
       /\ n' = header.n
       /\ err' = header.err
       /\ NextIteration(header.err, part)
       /\ rbuf' = Drop(rbuf, Len(line))
  /\ UNCHANGED <<writer, conn, taken, checkEnd>>

HeaderEOF ==
  /\ rpc = "header" /\ AtEOF
  /\ rbuf' = <<>>
  /\ err' = "ErrUnexpectedEOF"
  /\ ReturnFromRead(part)
  /\ UNCHANGED <<writer, conn, taken, n, checkEnd>>

\* Mutant: the caller's buffer is not capped at the end of the chunk.
CopiedPastChunk == Min({room, Len(rbuf)})

\* rbuf is capped at what is left of the chunk.
Copied == Min({room, n, Len(rbuf)})

ReadData ==
  /\ rpc = "data" /\ Satisfied
  /\ rbuf' = Drop(rbuf, Copied)
  /\ n' = n - Copied
  /\ checkEnd' = (n' = 0)
  /\ NextIteration("nil", part \o SubSeq(rbuf, 1, Copied))
  /\ UNCHANGED <<writer, conn, taken, err>>

DataEOF ==
  /\ rpc = "data" /\ AtEOF
  /\ err' = "ErrUnexpectedEOF"
  /\ ReturnFromRead(part)
  /\ UNCHANGED <<writer, conn, bufio, n, checkEnd>>

-----------------------------------------------------------------------------
WriterStep == WriteData \/ FinishWrite \/ FinishBody

ReaderStep ==
  \/ \E size \in ReadSizes : Read(size)
  \/ BreakLoop \/ EnterStage
  \/ \E k \in 1 .. BufSize : Fill(k)
  \/ ReadFooter \/ FooterEOF
  \/ BeginChunk \/ HeaderEOF
  \/ ReadData \/ DataEOF

Next ==
  \/ \E p \in Payloads : Write(p)
  \/ WriteData \/ FinishWrite
  \/ Close \/ FinishBody \/ Cut
  \/ \E s \in RawStreams : RawPeer(s)
  \/ \E size \in ReadSizes : Read(size)
  \/ BreakLoop \/ EnterStage
  \/ \E k \in 1 .. BufSize : Fill(k)
  \/ ReadFooter \/ FooterEOF
  \/ BeginChunk \/ HeaderEOF
  \/ ReadData \/ DataEOF

Spec == Init /\ [][Next]_vars

\* A Write that began goes on, a closed body is flushed, and the body's
\* consumer calls Read until it gets an error, as io.ReadAll does.  Nothing
\* makes the producer write or close.
FairSpec == Spec /\ WF_vars(WriterStep) /\ WF_vars(ReaderStep)

-----------------------------------------------------------------------------
(* What a stream means, whatever the pieces it arrives in *)

\* The chunk of stream w whose size line starts at position i: what w has of
\* its data, the error that ends the stream there, or "nil" and where the next
\* chunk starts.
ChunkAt(w, i) ==
  LET lfs == {j \in i .. Len(w) : w[j] = "LF"}
      header == ChunkHeader(SubSeq(w, i, Min(lfs)))
      last == Min(lfs) + header.n
  IN  IF lfs = {}
        THEN [body |-> <<>>, next |-> 0,
              err |-> IF Len(w) - i + 1 >= BufSize THEN "ErrLineTooLong"
                                                   ELSE "ErrUnexpectedEOF"]
      ELSE IF header.err # "nil" THEN [body |-> <<>>, next |-> 0, err |-> header.err]
      ELSE [body |-> SubSeq(w, Min(lfs) + 1, Min({last, Len(w)})), next |-> last + 3,
            err |-> IF Len(w) < last + 2 THEN "ErrUnexpectedEOF"
                    ELSE IF SubSeq(w, last + 1, last + 2) # CRLF THEN "Malformed"
                    ELSE "nil"]

\* The body from every position on, one chunk after the other, and how it ends.
Bodies(w) ==
  LET from[i \in 1 .. Len(w) + 1] ==
        LET c == ChunkAt(w, i)
        IN  IF c.err # "nil" THEN [body |-> c.body, err |-> c.err]
            ELSE [body |-> c.body \o from[c.next].body, err |-> from[c.next].err]
  IN  from

\* The body of stream w, found by position in the whole stream.
Decode(w) == Bodies(w)[1]

TypeOK ==
  /\ flushing \in BOOLEAN /\ cut \in BOOLEAN /\ checkEnd \in BOOLEAN
  /\ wpc \in {"idle", "data", "crlf", "closed", "finished", "failed", "raw"}
  /\ rpc \in {"idle", "loop", "footer", "header", "data"}
  /\ err \in Errors
  /\ writes \in 0 .. MaxWrites /\ taken \in 0 .. Len(wire)
  /\ n \in Nat /\ room \in Nat
  /\ Len(rbuf) <= BufSize
  /\ {data, written, wbuf, wire, rbuf, part, got} \subseteq Seq(Bytes)

\* chunkedReader.Read: however the stream is cut into pieces and whatever the
\* sizes of the callers' buffers, what the Reads return is always a prefix of
\* the body the stream encodes, and an error comes only after all of it and
\* is the one the stream ends with.
DecodesStream ==
  LET stream == Decode(wire)
  IN  /\ IsPrefix(got \o part, stream.body)
      /\ err # "nil" => got = stream.body /\ err = stream.err

\* chunkedWriter to chunkedReader: the consumer sees nothing but the bytes
\* the producer wrote, in order; io.EOF only once Close ran and the whole
\* body arrived; and, the connection cut at any point, never an error that
\* blames the encoding.
BodyIntact ==
  wpc # "raw" =>
    /\ IsPrefix(got, written \o data)
    /\ err = "EOF" => got = written /\ wpc \in {"closed", "finished"}
    /\ err \in {"nil", "EOF", "ErrUnexpectedEOF"}

\* FlushAfterChunkWriter and the early returns of Read together: a chunk that
\* was written reaches the consumer although the producer may write nothing
\* more for ever ("flush out chunks aggressively").
ChunksArrive ==
  (flushing /\ Len(got) < Len(written)) ~> (cut \/ Len(got) >= Len(written))

\* A body that was closed and flushed ends with io.EOF for its consumer, and
\* not before it got the whole of it.
CleanBodyEnds == (wpc = "finished") ~> (err = "EOF" /\ got = written)

\* TestIncompleteChunk ("ChunkedReader should report incomplete chunks"):
\* every consumer of an incomplete stream gets io.ErrUnexpectedEOF.
TruncationReported ==
  (cut /\ Decode(wire).err = "ErrUnexpectedEOF") ~> (err = "ErrUnexpectedEOF")
=============================================================================
