------------------------------- MODULE Framer -------------------------------
(***************************************************************************)
(* A Framer (http2/http2/frame.go) that writes frames to a connection and  *)
(* the peer's Framer that reads them, with readMetaFrame merging HEADERS   *)
(* and CONTINUATION frames, and the frame writers of a server connection   *)
(* (http2/http2/write.go) on top of the first.                             *)
(*                                                                         *)
(* Every call of a Write method is a step and so is every ReadFrame; the   *)
(* ReadFrame that readMetaFrame calls for the next CONTINUATION is a step  *)
(* of its own, with meta holding the state of readMetaFrame in between.    *)
(*                                                                         *)
(* A header field is [name, value], value being its length.  The HPACK     *)
(* representations are a field of the static table (one octet), literals   *)
(* (three: the kind, the name, the value) and an update of the size of the *)
(* dynamic table (one octet, no field).  The decoder refuses a literal     *)
(* with incremental indexing, the encoder's own choice for a field that    *)
(* fits its table (module Hpack has both tables): what depends on the size *)
(* the peer has allowed that table says so.                                *)
(***************************************************************************)
EXTENDS Frames

CONSTANTS
  Calls,         \* the calls of Write methods
  RawFrames,     \* what WriteRawFrame writes
  Writers,       \* the requests of a server connection
  Options,       \* the settings of the Framers, see Init
  MaxWrites,     \* bound on the number of writes
  MaxUnread,     \* bound on the frames that are not yet read
  maxReadSize,   \* SetMaxReadFrameSize of the reader
  MaxFragment,   \* maxFrameSize of splitHeaderBlock (16384)
  Static,        \* the static table: fields by octet
  LiteralOctet,  \* the first octet of a literal without indexing,
  NeverOctet,    \* of one that is never indexed
  IndexOctet,    \* and of one with incremental indexing
  SizeUpdate,    \* an update of the size of the dynamic table
  initialHeaderTableSize,
  NameAt,        \* header names by octet
  Lower,         \* the lower-case name of a header key, or NotASCII
  NotASCII,
  SortedKeys,    \* the header keys in their order
  WireNames,     \* names of lower-case token characters
  PseudoNames,   \* names that start with a colon
  BadValues,     \* values with control characters
  TETrailers,    \* the value "trailers"
  Overhead,      \* the size of a field is its length and this (32)
  DefaultList    \* the default MAX_HEADER_LIST_SIZE (16MB)

\* SETTINGS_MAX_FRAME_SIZE is at least what splitHeaderBlock relies on.
ASSUME SizeAssumption ==
  /\ maxReadSize \in 0 .. maxFrameSize /\ MaxFragment \in 1 .. maxReadSize
  /\ MaxWrites \in Nat /\ MaxUnread \in Nat /\ Overhead \in Nat \ {0}
  /\ DefaultList \in Nat \ {0} /\ initialHeaderTableSize \in Nat
\* The first octet tells the representations apart; every name that may be
\* written has an octet.
ASSUME HpackAssumption ==
  /\ {LiteralOctet, NeverOctet, IndexOctet, SizeUpdate} \subseteq Octets \ DOMAIN Static
  /\ IndexOctet \notin {LiteralOctet, NeverOctet, SizeUpdate}
  /\ SizeUpdate \notin {LiteralOctet, NeverOctet}
  /\ DOMAIN Static \subseteq Octets /\ DOMAIN NameAt \subseteq Octets
  /\ \A o \in DOMAIN Static : Static[o].value \in Nat
  /\ WireNames \subseteq Range(NameAt)
ASSUME OptionsAssumption ==
  Options \subseteq [illegalWrites : BOOLEAN, illegalReads : BOOLEAN,
                     metaHeaders : BOOLEAN, listSize : Nat, tableSize : Nat]

\* Frames of an unknown type have no Write method of their own.
ASSUME CallsAssumption == \A c \in Calls : IsCall(c)
\* No frame on the wire is a MetaHeadersFrame.
ASSUME RawAssumption == \A w \in RawFrames : w.type # "META" /\ w.payload \in Seq(Octets)

\* What the encoder has a representation of, and the header fields of a request.
Encodable == Range(Static) \cup [name : Range(NameAt), value : Octets]
ASSUME WritersAssumption ==
  /\ SortedKeys \in Seq(STRING)
  /\ \A w \in Writers :
       /\ w.kind \in {"writeResHeaders", "writePushPromise"} =>
            \A k \in DOMAIN w.h : w.h[k] \in Seq(Octets)
       /\ w.kind = "writeResHeaders" =>
            /\ w.status \in Seq(Encodable) /\ w.more \in Seq(Encodable)
            /\ w.trailers \in Seq(STRING)
       /\ w.kind = "write100Continue" => w.status \in Seq(Encodable)
       /\ w.kind = "writePushPromise" => w.request \in Seq(Encodable) /\ w.promised \in Uint32
       /\ w.kind = "writeSettings" => w.settings \in Seq(Setting)
       /\ w.kind = "writeGoAway" => w.maxStreamID \in Uint32 /\ w.code \in Uint32
       /\ w.kind = "writeData" => w.p \in Seq(Octets)
       /\ w.kind = "StreamError" => w.code \in Uint32
       /\ w.kind = "writePingAck" => w.data \in [1 .. 8 -> Octets]
       /\ w.kind = "writeWindowUpdate" => w.n \in Uint32
       /\ w.kind \in {"writeResHeaders", "writePushPromise", "write100Continue",
                      "writeSettings", "writeGoAway", "writeData", "handlerPanicRST",
                      "StreamError", "writePingAck", "writeSettingsAck", "writeWindowUpdate"}

VARIABLES
  opts,              \* AllowIllegalWrites, AllowIllegalReads, ReadMetaHeaders # nil,
                     \* MaxHeaderListSize, and the peer's SETTINGS_HEADER_TABLE_SIZE
  wire,              \* frames written and not yet read
  closed,            \* the connection was closed by the writer
  writes,            \* number of writes
  writeErr,          \* the error of the last write
  tableSizeUpdate,   \* Encoder.tableSizeUpdate
  lastHeaderStream,  \* of the reader
  meta,              \* readMetaFrame waiting for a CONTINUATION
  saveBuf,           \* Decoder.saveBuf
  outcome,           \* what ReadFrame returned last, Nothing while it has not
  sent,              \* the calls that wrote the frames of wire
  origin,            \* the call that wrote the frame read last
  block,             \* the header block of the frames read last
  trusted,           \* write.go alone has written, to a reader that follows the rules
  interrupted        \* a stream error was returned inside a header block

vars == <<opts, wire, closed, writes, writeErr, tableSizeUpdate, lastHeaderStream, meta,
          saveBuf, outcome, sent, origin, block, trusted, interrupted>>
reader == <<lastHeaderStream, meta, saveBuf, outcome, origin, block, interrupted>>
writer == <<closed, writes, writeErr, tableSizeUpdate, trusted>>

NoMeta == [stream |-> 0]
NoCall == [type |-> "none"]
NoBlock == [stream |-> 0, octets |-> <<>>, ended |-> TRUE]
Nothing == [frame |-> NoFrame, err |-> NoError]

\* The peer's SETTINGS have been received: if they say another size than the
\* one the encoder starts with, it has yet to tell.
Init ==
  /\ opts \in Options
  /\ tableSizeUpdate = (opts.tableSize # initialHeaderTableSize)
  /\ wire = <<>> /\ closed = FALSE /\ writes = 0 /\ writeErr = NoError
  /\ lastHeaderStream = 0 /\ meta = NoMeta /\ saveBuf = <<>> /\ outcome = Nothing
  /\ sent = <<>> /\ origin = NoCall /\ block = NoBlock
  /\ trusted = ~opts.illegalReads /\ interrupted = FALSE

maxHeaderListSize == IF opts.listSize = 0 THEN DefaultList ELSE opts.listSize

\* ConnectionError and the errors of the reader end the connection.
terminalReadFrameError(e) == e.kind \notin {"none", "stream"}

-----------------------------------------------------------------------------
(* Write methods *)

CanWrite == ~closed /\ writes < MaxWrites /\ Len(wire) < MaxUnread

WriteCall(c) ==
  LET r == WriteOf(c, opts.illegalWrites)
  IN  /\ CanWrite
      /\ writes' = writes + 1
      /\ writeErr' = r.err
      /\ wire' = IF r.err = NoError THEN Append(wire, r.frame) ELSE wire
      /\ sent' = IF r.err = NoError THEN Append(sent, c) ELSE sent
      /\ trusted' = FALSE
      /\ UNCHANGED <<opts, closed, tableSizeUpdate, reader>>

WriteRaw(w) ==
  LET r == WriteRawFrame(w)
  IN  /\ CanWrite
      /\ writes' = writes + 1
      /\ writeErr' = r.err
      /\ wire' = IF r.err = NoError THEN Append(wire, r.frame) ELSE wire
      /\ sent' = IF r.err = NoError THEN Append(sent, NoCall) ELSE sent
      /\ trusted' = FALSE
      /\ UNCHANGED <<opts, closed, tableSizeUpdate, reader>>

\* The connection breaks: what the reader had not yet read is lost from some
\* octet on, so at most one frame is cut short.
HangUp ==
  /\ ~closed
  /\ closed' = TRUE
  /\ trusted' = FALSE
  /\ \E n \in 0 .. Len(wire) : wire' = UpTo(wire, n) /\ sent' = UpTo(sent, n)
  /\ UNCHANGED <<opts, writes, writeErr, tableSizeUpdate, reader>>

-----------------------------------------------------------------------------
(* The writers of a server connection *)

FieldSize(f) == f.value + Overhead

\* The connection's encoder, which writeFrame methods get from writeContext.
HeaderEncoder == [maxSize |-> opts.tableSize, tableSizeUpdate |-> tableSizeUpdate]

\* No field of write.go is Sensitive.
shouldIndex(f, enc) == FieldSize(f) <= enc.maxSize

\* WriteField, without what the size update adds: the first octet of the
\* static table that has the field, or a literal.  A field that was indexed
\* before is written as a literal again; a peer that decodes has refused the
\* first one and reads no more.
Encode(f, enc) ==
  LET indexed == {o \in DOMAIN Static : Static[o] = f}
  IN  IF indexed # {} THEN <<Min(indexed)>>
      ELSE <<IF shouldIndex(f, enc) THEN IndexOctet ELSE LiteralOctet,
             CHOOSE o \in DOMAIN NameAt : NameAt[o] = f.name, f.value>>

\* The size update that the first of some fields brings, if one is due.
appendTableSize(fields, enc) ==
  IF enc.tableSizeUpdate /\ fields # <<>> THEN <<SizeUpdate>> ELSE <<>>

\* encKV of every field.
EncodeAll(fields, enc) ==
  appendTableSize(fields, enc) \o FlattenSeq([i \in DOMAIN fields |-> Encode(fields[i], enc)])

\* lowerHeader and asciiToLower, validWireHeaderFieldName and
\* httpguts.ValidHeaderFieldValue.
lowerHeader(k) == Lower[k]
validWireHeaderFieldName(n) == n \in WireNames
ValidHeaderFieldValue(v) == v \notin BadValues

\* What encodeHeaders does not skip of h, a function from keys to sequences
\* of values, in the order of keys.
encodeHeaders(h, keys) ==
  LET values(k) == IF k \in DOMAIN h THEN h[k] ELSE <<>>
      fields == FlattenSeq([i \in DOMAIN keys |->
                  [j \in DOMAIN values(keys[i]) |->
                     [name |-> lowerHeader(keys[i]), value |-> values(keys[i])[j]]]])
      written(f) == /\ f.name # NotASCII /\ validWireHeaderFieldName(f.name)
                    /\ ValidHeaderFieldValue(f.value)
                    /\ f.name = "transfer-encoding" => f.value = TETrailers
  IN  FlattenSeq([i \in DOMAIN fields |-> IF written(fields[i]) THEN <<fields[i]>> ELSE <<>>])

\* sorter.Keys.
Keys(h) ==
  FlattenSeq([i \in DOMAIN SortedKeys |->
                IF SortedKeys[i] \in DOMAIN h THEN <<SortedKeys[i]>> ELSE <<>>])

\* Mutant: a shorter fragment after the last full one is forgotten.
splitHeaderBlock_LastEarly(octets) ==
  LET n == (Len(octets) + MaxFragment - 1) \div MaxFragment
  IN  [i \in 1 .. n |->
         [frag |-> UpTo(From(octets, (i - 1) * MaxFragment), MaxFragment),
          first |-> i = 1, last |-> Len(octets) \div MaxFragment <= i]]

\* The fragments of a header block, with first and last marked.
splitHeaderBlock(octets) ==
  LET n == (Len(octets) + MaxFragment - 1) \div MaxFragment
  IN  [i \in 1 .. n |->
         [frag |-> UpTo(From(octets, (i - 1) * MaxFragment), MaxFragment),
          first |-> i = 1, last |-> i = n]]

ErrCodeInternal == 2

EndHeaders(last) == IF last THEN {END_HEADERS} ELSE {}
EndStream(end) == IF end THEN {END_STREAM} ELSE {}

Call(type, flags, stream, val) ==
  [type |-> type, flags |-> flags, stream |-> stream, val |-> val, pad |-> NoPad]

\* writeHeaderBlock, of writeResHeaders and of writePushPromise.
HeaderCall(w, part, first) ==
  IF part.first THEN first
  ELSE Call("CONTINUATION", EndHeaders(part.last), w.stream, [frag |-> part.frag])

\* The header fields of a request.  Of a response: the status, what is left of
\* h (of the keys in trailers only, if there are any), then content-type,
\* content-length and date, which are in w.more.  Of a promise: the pseudo
\* fields in w.request, then h.
HeaderFields(w) ==
  CASE w.kind = "writeResHeaders" ->
         w.status \o encodeHeaders(w.h, IF w.isTrailer THEN w.trailers ELSE Keys(w.h)) \o w.more
    [] w.kind = "writePushPromise" -> w.request \o encodeHeaders(w.h, Keys(w.h))
    [] w.kind = "write100Continue" -> w.status
    [] OTHER -> <<>>

\* writeResHeaders.writeFrame.
writeResHeaders(w, enc) ==
  LET parts == splitHeaderBlock(EncodeAll(HeaderFields(w), enc))
  IN  [i \in DOMAIN parts |->
         HeaderCall(w, parts[i],
           Call("HEADERS", EndStream(w.end) \cup EndHeaders(parts[i].last), w.stream,
                [frag |-> parts[i].frag, priority |-> NoPriority]))]

\* writePushPromise.writeFrame.
writePushPromise(w, enc) ==
  LET parts == splitHeaderBlock(EncodeAll(HeaderFields(w), enc))
  IN  [i \in DOMAIN parts |->
         HeaderCall(w, parts[i],
           Call("PUSH_PROMISE", EndHeaders(parts[i].last), w.stream,
                [promise |-> w.promised, frag |-> parts[i].frag]))]

\* write100ContinueHeadersFrame.writeFrame.
write100Continue(w, enc) ==
  <<Call("HEADERS", {END_HEADERS}, w.stream,
         [frag |-> EncodeAll(HeaderFields(w), enc), priority |-> NoPriority])>>

\* The writers that make one call.
writeSettings(w) == <<Call("SETTINGS", {}, 0, [settings |-> w.settings])>>
writeGoAway(w) ==
  <<Call("GOAWAY", {}, 0, [last |-> w.maxStreamID, code |-> w.code, debug |-> <<>>])>>
writeData(w) == <<Call("DATA", EndStream(w.end), w.stream, [data |-> w.p])>>
handlerPanicRST(w) == <<Call("RST_STREAM", {}, w.stream, [code |-> ErrCodeInternal])>>
writeStreamError(w) == <<Call("RST_STREAM", {}, w.stream, [code |-> w.code])>>
writePingAck(w) == <<Call("PING", {ACK}, 0, [data |-> w.data])>>
writeSettingsAck(w) == <<Call("SETTINGS", {ACK}, 0, [settings |-> <<>>])>>
writeWindowUpdate(w) == <<Call("WINDOW_UPDATE", {}, w.stream, [increment |-> w.n])>>

\* writeFramer: the calls of a request on the connection's Framer.
CallsOf(w, enc) ==
  CASE w.kind = "writeResHeaders" -> writeResHeaders(w, enc)
    [] w.kind = "writePushPromise" -> writePushPromise(w, enc)
    [] w.kind = "write100Continue" -> write100Continue(w, enc)
    [] w.kind = "writeSettings" -> writeSettings(w)
    [] w.kind = "writeGoAway" -> writeGoAway(w)
    [] w.kind = "writeData" -> writeData(w)
    [] w.kind = "handlerPanicRST" -> handlerPanicRST(w)
    [] w.kind = "StreamError" -> writeStreamError(w)
    [] w.kind = "writePingAck" -> writePingAck(w)
    [] w.kind = "writeSettingsAck" -> writeSettingsAck(w)
    [] w.kind = "writeWindowUpdate" -> writeWindowUpdate(w)

\* A block of no octets: a panic, or no frame at all for trailers.
EmptyBlock(w) ==
  w.kind \in {"writeResHeaders", "writePushPromise"} /\ HeaderFields(w) = <<>>

\* A PUSH_PROMISE with CONTINUATIONs, which checkFrameOrder does not expect,
\* or one that the promised stream makes larger than the peer reads.
LargePush(w, enc) ==
  /\ w.kind = "writePushPromise"
  /\ Len(CallsOf(w, enc)) > 1 \/ Len(CallsOf(w, enc)[1].val.frag) + 4 > maxReadSize

\* A field with a string that SetMaxStringLength does not allow the peer.
LongField(w) ==
  \E i \in DOMAIN HeaderFields(w) : HeaderFields(w)[i].value > maxHeaderListSize

\* The calls a request makes; the first error would end it, but these calls
\* fail for stream identifiers alone, which are the same in all of them.
writeFrame(w) ==
  LET calls == CallsOf(w, HeaderEncoder)
      results == [i \in DOMAIN calls |-> WriteOf(calls[i], opts.illegalWrites)]
      fails == \E i \in DOMAIN results : results[i].err # NoError
      frames == [i \in DOMAIN results |-> results[i].frame]
  IN  /\ CanWrite
      /\ EmptyBlock(w) => w.kind = "writeResHeaders" /\ w.isTrailer
      /\ writes' = writes + 1
      /\ writeErr' = IF fails THEN results[1].err ELSE NoError
      /\ wire' = IF fails THEN wire ELSE wire \o frames
      /\ sent' = IF fails THEN sent ELSE sent \o calls
      /\ tableSizeUpdate' = (tableSizeUpdate /\ HeaderFields(w) = <<>>)
      /\ trusted' = (trusted /\ ~fails /\ ~LargePush(w, HeaderEncoder) /\ ~LongField(w))
      /\ UNCHANGED <<opts, closed, reader>>

-----------------------------------------------------------------------------
(* The HPACK decoder *)

IsPseudo(f) == f.name \in PseudoNames

\* The emit function of readMetaFrame, on the state m of its call.
emit(m, f) ==
  LET wrong == \/ ~ValidHeaderFieldValue(f.value)
               \/ IsPseudo(f) /\ m.sawRegular
               \/ ~IsPseudo(f) /\ ~validWireHeaderFieldName(f.name)
      seen == [m EXCEPT !.sawRegular = @ \/ ~IsPseudo(f)]
  IN  IF wrong THEN [seen EXCEPT !.invalid = TRUE, !.emitEnabled = FALSE]
      ELSE IF FieldSize(f) > m.remainSize
        THEN [seen EXCEPT !.truncated = TRUE, !.emitEnabled = FALSE]
      ELSE [seen EXCEPT !.remainSize = @ - FieldSize(f), !.fields = Append(@, f)]

\* parseHeaderFieldRepr on a buffer that is not empty: the octets it takes
\* and the field or, for a size update, none; 0 octets if it needs more, or an
\* error.  The table is empty, so a size update may come anywhere.
Repr(buf) ==
  IF buf[1] \in DOMAIN Static THEN [takes |-> 1, fields |-> <<Static[buf[1]]>>, bad |-> FALSE]
  ELSE IF buf[1] = SizeUpdate THEN [takes |-> 1, fields |-> <<>>, bad |-> FALSE]
  ELSE IF \/ buf[1] \notin {LiteralOctet, NeverOctet}
          \/ Len(buf) > 1 /\ buf[2] \notin DOMAIN NameAt
    THEN [takes |-> 0, fields |-> <<>>, bad |-> TRUE]
  ELSE IF Len(buf) < 3 THEN [takes |-> 0, fields |-> <<>>, bad |-> FALSE]
  ELSE [takes |-> 3, fields |-> <<[name |-> NameAt[buf[2]], value |-> buf[3]]>>, bad |-> FALSE]

\* Write(p): the representations in what was saved and p, until more octets
\* are needed or one is refused; a field longer than the list may be
\* (SetMaxStringLength) is, by callEmit.  st.m is the state of readMetaFrame.
DecoderStep(st) ==
  LET r == Repr(st.buf)
      refused == r.bad \/ (r.fields # <<>> /\ r.fields[1].value > maxHeaderListSize)
  IN  IF st.stop \/ st.buf = <<>> THEN st
      ELSE IF refused \/ r.takes = 0 THEN [st EXCEPT !.stop = TRUE, !.bad = refused]
      ELSE [st EXCEPT !.buf = From(@, r.takes),
                      !.m = IF @.emitEnabled /\ r.fields # <<>> THEN emit(@, r.fields[1])
                            ELSE @]

DecoderWrite(m, saved, p) ==
  LET steps[n \in 0 .. Len(saved \o p)] ==
        IF n = 0 THEN [buf |-> saved \o p, m |-> m, stop |-> FALSE, bad |-> FALSE]
        ELSE DecoderStep(steps[n - 1])
  IN  steps[Len(saved \o p)]

-----------------------------------------------------------------------------
(* ReadFrame *)

\* Mutant: a CONTINUATION of any stream goes on with the header block.
checkFrameOrder_AnyStream(f) ==
  IF opts.illegalReads THEN NoError
  ELSE IF (f.type = "CONTINUATION") # (lastHeaderStream # 0)
    THEN ConnectionError("PROTOCOL_ERROR")
  ELSE NoError

checkFrameOrder(f) ==
  IF opts.illegalReads THEN NoError
  ELSE IF lastHeaderStream # 0 /\ (f.type # "CONTINUATION" \/ f.stream # lastHeaderStream)
    THEN ConnectionError("PROTOCOL_ERROR")
  ELSE IF lastHeaderStream = 0 /\ f.type = "CONTINUATION"
    THEN ConnectionError("PROTOCOL_ERROR")
  ELSE NoError

HeadersEnded(f) == END_HEADERS \in f.flags

\* lastHeaderStream after a frame that is in order.
HeaderStreamAfter(f) ==
  IF opts.illegalReads \/ f.type \notin {"HEADERS", "CONTINUATION"} THEN lastHeaderStream
  ELSE IF HeadersEnded(f) THEN 0 ELSE f.stream

\* The part of ReadFrame before readMetaFrame, on the wire frame w.  A frame
\* of which the connection's end cut something is not on the wire any more.
Received(w) ==
  LET parsed == ParseFrame(w)
  IN  IF Len(w.payload) > maxReadSize
        THEN [frame |-> NoFrame, err |-> OtherError("ErrFrameTooLarge")]
      ELSE IF parsed.err # NoError THEN parsed
      ELSE IF checkFrameOrder(parsed.frame) # NoError
        THEN [frame |-> NoFrame, err |-> checkFrameOrder(parsed.frame)]
      ELSE parsed

\* The header block that the frames read last are part of, by their headers.
BlockAfter(f) ==
  IF f.type = "HEADERS"
    THEN [stream |-> f.stream, octets |-> f.val.frag, ended |-> HeadersEnded(f)]
  ELSE IF f.type = "CONTINUATION" /\ f.stream = block.stream /\ ~block.ended
    THEN [block EXCEPT !.octets = @ \o f.val.frag, !.ended = HeadersEnded(f)]
  ELSE NoBlock

Return(frame, err) ==
  /\ outcome' = [frame |-> frame, err |-> err]
  /\ meta' = NoMeta
  /\ interrupted' = (interrupted \/ (err.kind = "stream" /\ lastHeaderStream' # 0))

\* checkPseudos: known names, each once, of a request or of a response.
checkPseudos(fields) ==
  LET pseudo == {i \in DOMAIN fields : IsPseudo(fields[i])}
      names == {fields[i].name : i \in pseudo}
      request == {":method", ":path", ":scheme", ":authority"}
  IN  /\ names \subseteq request \/ names \subseteq {":status"}
      /\ \A i, j \in pseudo : fields[i].name = fields[j].name => i = j

\* One turn of the loop of readMetaFrame, on the frame f and the state m, and
\* what follows the loop when f ends the header block.
readMetaFrame(m, f) ==
  LET d == DecoderWrite(m, saveBuf, f.val.frag)
      mh == [type |-> "META", flags |-> d.m.flags, stream |-> d.m.stream,
             val |-> [fields |-> d.m.fields, truncated |-> d.m.truncated,
                      priority |-> d.m.priority]]
  IN  \/ /\ d.bad
         /\ saveBuf' = <<>>
         /\ Return(NoFrame, ConnectionError("COMPRESSION_ERROR"))
      \/ /\ ~d.bad /\ ~HeadersEnded(f)
         /\ saveBuf' = d.buf
         /\ meta' = d.m
         /\ outcome' = Nothing
         /\ UNCHANGED interrupted
      \/ /\ ~d.bad /\ HeadersEnded(f)
         /\ saveBuf' = <<>>
         /\ IF d.buf # <<>> THEN Return(NoFrame, ConnectionError("COMPRESSION_ERROR"))
            ELSE IF d.m.invalid \/ ~checkPseudos(d.m.fields)
              THEN Return(NoFrame, StreamError(d.m.stream, "PROTOCOL_ERROR"))
            ELSE Return(mh, NoError)

\* The state readMetaFrame starts with.
NewMeta(f) ==
  [stream |-> f.stream, flags |-> f.flags, priority |-> f.val.priority, fields |-> <<>>,
   remainSize |-> maxHeaderListSize, sawRegular |-> FALSE, invalid |-> FALSE,
   truncated |-> FALSE, emitEnabled |-> TRUE]

\* Taking the next frame off the wire.
Consume ==
  /\ ~terminalReadFrameError(outcome.err)
  /\ wire # <<>>
  /\ wire' = Tail(wire) /\ sent' = Tail(sent) /\ origin' = Head(sent)
  /\ UNCHANGED <<opts, writer>>

\* A frame that is refused, in the loop of readMetaFrame or not.
ReadRefused ==
  LET r == Received(Head(wire))
  IN  /\ Consume
      /\ r.err # NoError
      /\ UNCHANGED <<lastHeaderStream, saveBuf>>
      /\ block' = NoBlock
      /\ Return(NoFrame, r.err)

\* A frame that ReadFrame returns as it is.
ReadFrame ==
  LET r == Received(Head(wire))
  IN  /\ Consume
      /\ r.err = NoError /\ meta = NoMeta
      /\ ~(r.frame.type = "HEADERS" /\ opts.metaHeaders)
      /\ lastHeaderStream' = HeaderStreamAfter(r.frame)
      /\ block' = BlockAfter(r.frame)
      /\ Return(r.frame, NoError)
      /\ UNCHANGED saveBuf

\* A HEADERS frame that readMetaFrame goes on with.
ReadMetaHeaders ==
  LET r == Received(Head(wire))
  IN  /\ Consume
      /\ r.err = NoError /\ meta = NoMeta
      /\ r.frame.type = "HEADERS" /\ opts.metaHeaders
      /\ lastHeaderStream' = HeaderStreamAfter(r.frame)
      /\ block' = BlockAfter(r.frame)
      /\ \/ /\ opts.illegalReads
            /\ Return(NoFrame, OtherError("errAllowIllegalReads"))
            /\ UNCHANGED saveBuf
         \/ /\ ~opts.illegalReads
            /\ readMetaFrame(NewMeta(r.frame), r.frame)

\* The CONTINUATION that readMetaFrame waits for.
ReadContinuation ==
  LET r == Received(Head(wire))
  IN  /\ Consume
      /\ r.err = NoError /\ meta # NoMeta
      /\ lastHeaderStream' = HeaderStreamAfter(r.frame)
      /\ block' = BlockAfter(r.frame)
      /\ readMetaFrame(meta, r.frame)

\* The connection ended: io.EOF, or ErrUnexpectedEOF within a frame.
ReadEnd ==
  /\ closed /\ wire = <<>> /\ ~terminalReadFrameError(outcome.err)
  /\ origin' = NoCall
  /\ block' = NoBlock
  /\ UNCHANGED <<opts, wire, sent, writer, saveBuf, lastHeaderStream>>
  /\ Return(NoFrame, OtherError("EOF"))

-----------------------------------------------------------------------------
Next ==
  \/ \E c \in Calls : WriteCall(c)
  \/ \E w \in RawFrames : WriteRaw(w)
  \/ \E w \in Writers : writeFrame(w)
  \/ HangUp
  \/ ReadRefused
  \/ ReadFrame
  \/ ReadMetaHeaders
  \/ ReadContinuation
  \/ ReadEnd

Spec == Init /\ [][Next]_vars

-----------------------------------------------------------------------------
\* The fields of a whole header block, by the positions of their representations
\* and without a limit.
FieldsFrom(octets) ==
  LET from[i \in 1 .. Len(octets) + 1] ==
        LET r == Repr(From(octets, i - 1))
        IN  IF i = Len(octets) + 1 \/ r.takes = 0 THEN <<>>
            ELSE r.fields \o from[i + r.takes]
  IN  from
FieldsOf(octets) == FieldsFrom(octets)[1]

\* The size of the first n fields.
ListSize(fields, n) ==
  LET sum[k \in 0 .. Len(fields)] ==
        IF k = 0 THEN 0 ELSE sum[k - 1] + FieldSize(fields[k])
  IN  sum[n]

\* MetaHeadersFrame: "the representation of one HEADERS frame and zero or more
\* contiguous CONTINUATION frames and the decoding of their HPACK-encoded
\* contents".  However the block was cut into fragments, Fields are those of
\* that stream's block and of no other: as many from its start as fit
\* MaxHeaderListSize, and Truncated tells whether that is all of them.
HeaderBlocksWhole ==
  outcome.frame.type = "META" =>
    LET all == FieldsOf(block.octets)
        n == Len(outcome.frame.val.fields)
    IN  /\ block.ended /\ block.stream = outcome.frame.stream
        /\ n <= Len(all) /\ outcome.frame.val.fields = UpTo(all, n)
        /\ ListSize(all, n) <= maxHeaderListSize
        /\ outcome.frame.val.truncated = (n < Len(all))
        /\ n < Len(all) => ListSize(all, n + 1) > maxHeaderListSize

\* As long as no frame was refused with a stream error while ReadFrame was in
\* the middle of a header block, every MetaHeadersFrame is the decoding of one
\* whole block.
BlocksIntact == ~interrupted => HeaderBlocksWhole

\* The bits a Write method sets for itself.
Own(flags) == flags \ {PADDED, PRIORITY}

\* What a call says, as far as the peer can know: the code of a GOAWAY is not
\* parsed (parseGoAwayFrame), and reserved bits are masked.
Said(f) ==
  IF f.type = "GOAWAY" THEN [last |-> Masked(f.val.last), debug |-> f.val.debug]
  ELSE IF f.type = "META" THEN [priority |-> f.val.priority]
  ELSE f.val

\* A frame written by a Write method without AllowIllegalWrites is read as
\* what the call said, whatever its padding and priority, or refused.
FramesSurvive ==
  outcome.frame.type \notin {"none", "META"} /\ origin # NoCall /\ ~opts.illegalWrites =>
    /\ outcome.frame.type = origin.type /\ outcome.frame.stream = Masked(origin.stream)
    /\ Own(outcome.frame.flags) = origin.flags
    /\ Said(outcome.frame) = Said(origin)

\* What the writers of a server connection write is never refused, neither for
\* its order nor for its size nor for its fields, in any sequence of requests,
\* and leaves no ReadFrame waiting in a header block; large PUSH_PROMISEs and
\* fields longer than the peer's whole header list apart, and provided that the
\* peer's SETTINGS_HEADER_TABLE_SIZE is 0, so that WriteField indexes nothing.
NeverRefused ==
  opts.tableSize = 0 =>
    /\ trusted => outcome.err = NoError
    /\ trusted /\ wire = <<>> => meta = NoMeta

\* The same of header blocks and without that restriction: what the encoder of a
\* server connection writes is decoded, as its comment in WriteField says ("the
\* peer decoder will do the same upon receiving this set of headers").
BlocksUnderstood == trusted => outcome.err # ConnectionError("COMPRESSION_ERROR")
=============================================================================
