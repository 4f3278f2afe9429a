------------------------------- MODULE Frames -------------------------------
(***************************************************************************)
(* The ten frame types of HTTP/2 as http2/http2/frame.go writes them to a  *)
(* payload of octets and parses them back.                                 *)
(*                                                                         *)
(* A wire frame is [type, flags, stream, payload]: the nine octets of the  *)
(* frame header, with the length implied by the payload, flags as a set of *)
(* bits and stream with its reserved bit.  A frame is [type, flags,        *)
(* stream, val], val being what the accessors of its Go type return.  The  *)
(* parameters of a Write method are such a frame, without the flags the    *)
(* method sets itself, and the padding pad (NoPad for a nil slice).        *)
(***************************************************************************)
EXTENDS Integers, Sequences, SequencesExt, FiniteSetsExt

CONSTANTS
  Octet,         \* number of values of an octet (256)
  LengthOctets,  \* octets of the length field of a frame header (3)
  NoPad,         \* a nil slice of padding
  InitialWindow  \* SettingInitialWindowSize (4)

\* The number of values of k octets.
Power[k \in Nat] == IF k = 0 THEN 1 ELSE Octet * Power[k - 1]

\* An octet holds the flag bits; the instance may have smaller octets.
ASSUME OctetAssumption ==
  /\ Octet \in Nat /\ Octet > 32 /\ Octet % 2 = 0
  /\ LengthOctets \in Nat \ {0}
  /\ InitialWindow \in 0 .. Power[2] - 1

Octets == 0 .. Octet - 1

FrameTypes ==
  {"DATA", "HEADERS", "PRIORITY", "RST_STREAM", "SETTINGS", "PUSH_PROMISE",
   "PING", "GOAWAY", "WINDOW_UPDATE", "CONTINUATION"}

\* The bits of Flags: END_STREAM and ACK are the same one.
END_STREAM == 1
ACK == 1
END_HEADERS == 4
PADDED == 8
PRIORITY == 32

\* 1<<31, the reserved bit of an identifier, and 1<<24 - 1.
HighBit == Power[4] \div 2
maxFrameSize == Power[LengthOctets] - 1

\* writeUint16 and writeUint32, and binary.BigEndian.Uint16 and Uint32.
BigEndian(v, n) == [i \in 1 .. n |-> (v \div Power[n - i]) % Octet]
Uint(p) ==
  LET v[k \in 0 .. Len(p)] == IF k = 0 THEN 0 ELSE v[k - 1] * Octet + p[k]
  IN  v[Len(p)]
Masked(v) == v % HighBit

\* p[n:] and p[:n], of what there is.
From(p, n) == SubSeq(p, n + 1, Len(p))
UpTo(p, n) == [i \in 1 .. Min({n, Len(p)}) |-> p[i]]
Zeros(n) == [i \in 1 .. n |-> 0]

-----------------------------------------------------------------------------
(* Errors *)

NoError == [kind |-> "none"]
ConnectionError(code) == [kind |-> "connection", code |-> code]
StreamError(id, code) == [kind |-> "stream", id |-> id, code |-> code]
\* Everything that is neither: ErrFrameTooLarge, io errors, errStreamID...
OtherError(what) == [kind |-> "other", code |-> what]

NoFrame == [type |-> "none"]

\* The checks of a function in their order: the error of the first whose
\* condition holds.
FirstError(checks) ==
  LET failing == {i \in DOMAIN checks : checks[i][1]}
  IN  IF failing = {} THEN NoError ELSE checks[Min(failing)][2]

\* A parser's result.
Parse(checks, w, val) ==
  LET e == FirstError(checks)
  IN  [err |-> e,
       frame |-> IF e # NoError THEN NoFrame
                 ELSE [type |-> w.type, flags |-> w.flags,
                       stream |-> Masked(w.stream), val |-> val]]

\* A Write method's result: startWrite and endWrite around its payload.
WriteFrame(checks, type, flags, stream, payload) ==
  LET tooLarge == <<Len(payload) > maxFrameSize, OtherError("ErrFrameTooLarge")>>
      e == FirstError(Append(checks, tooLarge))
  IN  [err |-> e,
       frame |-> IF e # NoError THEN NoFrame
                 ELSE [type |-> type, flags |-> flags, stream |-> stream,
                       payload |-> payload]]

validStreamIDOrZero(id) == id < HighBit
validStreamID(id) == id # 0 /\ id < HighBit

errStreamID == OtherError("errStreamID")
errDepStreamID == OtherError("errDepStreamID")
UnexpectedEOF == OtherError("ErrUnexpectedEOF")

\* A wire frame's stream as readFrameHeader sees it.
OnConnection(w) == Masked(w.stream) = 0

-----------------------------------------------------------------------------
(* Padding and priority, common to several types *)

\* readByte of the pad length, if the PADDED bit says there is one.
PadShort(w) == PADDED \in w.flags /\ w.payload = <<>>
PadLength(w) == IF PADDED \in w.flags /\ w.payload # <<>> THEN w.payload[1] ELSE 0
AfterPadLength(w) == IF PADDED \in w.flags /\ w.payload # <<>> THEN Tail(w.payload) ELSE w.payload

\* PriorityParam.
NoPriority == [dep |-> 0, exclusive |-> FALSE, weight |-> 0]
Priority(p) ==
  [dep |-> Masked(Uint(UpTo(p, 4))), exclusive |-> Uint(UpTo(p, 4)) >= HighBit,
   weight |-> p[5]]
\* v |= 1 << 31 of an identifier that may have the bit already.
PriorityOctets(prio) ==
  BigEndian(IF prio.exclusive THEN Masked(prio.dep) + HighBit ELSE prio.dep, 4)
    \o <<prio.weight>>

-----------------------------------------------------------------------------
(* DATA *)

parseDataFrame(w) ==
  LET p == AfterPadLength(w)
  IN  Parse(<< <<OnConnection(w), ConnectionError("PROTOCOL_ERROR")>>,
               <<PadShort(w), UnexpectedEOF>>,
               <<PadLength(w) > Len(p), ConnectionError("PROTOCOL_ERROR")>> >>,
            w, [data |-> UpTo(p, Len(p) - PadLength(w))])

WriteDataPadded(c, illegal) ==
  LET pad == IF c.pad = NoPad THEN <<>> ELSE c.pad
      length == IF c.pad = NoPad THEN <<>> ELSE <<Len(pad)>>
  IN  WriteFrame(<< <<~validStreamID(c.stream) /\ ~illegal, errStreamID>>,
                    <<Len(pad) >= Octet, OtherError("errPadLength")>>,
                    <<~illegal /\ \E i \in DOMAIN pad : pad[i] # 0, OtherError("errPadBytes")>> >>,
                 "DATA", c.flags \cup (IF c.pad = NoPad THEN {} ELSE {PADDED}), c.stream,
                 length \o c.val.data \o pad)

-----------------------------------------------------------------------------
(* SETTINGS *)

\* NumSettings and Setting: sixteen bits of identifier, 32 of value.
Settings(p) ==
  [i \in 1 .. Len(p) \div 6 |->
     [id |-> Uint(SubSeq(p, 6 * i - 5, 6 * i - 4)), val |-> Uint(SubSeq(p, 6 * i - 3, 6 * i))]]

\* Value: the first setting with that identifier, -1 if there is none.
Value(p, id) ==
  LET with == {i \in DOMAIN Settings(p) : Settings(p)[i].id = id}
  IN  IF with = {} THEN -1 ELSE Settings(p)[Min(with)].val

parseSettingsFrame(w) ==
  Parse(<< <<ACK \in w.flags /\ w.payload # <<>>, ConnectionError("FRAME_SIZE_ERROR")>>,
           <<~OnConnection(w), ConnectionError("PROTOCOL_ERROR")>>,
           <<Len(w.payload) % 6 # 0, ConnectionError("FRAME_SIZE_ERROR")>>,
           <<Value(w.payload, InitialWindow) >= HighBit,
             ConnectionError("FLOW_CONTROL_ERROR")>> >>,
        w, [settings |-> Settings(w.payload)])

\* WriteSettings, and WriteSettingsAck for a call with the ACK bit.
WriteSettings(c) ==
  WriteFrame(<<>>, "SETTINGS", c.flags, 0,
             FlattenSeq([i \in DOMAIN c.val.settings |->
                           BigEndian(c.val.settings[i].id, 2)
                             \o BigEndian(c.val.settings[i].val, 4)]))

-----------------------------------------------------------------------------
(* PING, GOAWAY and frames of an unknown type *)

parsePingFrame(w) ==
  Parse(<< <<Len(w.payload) # 8, ConnectionError("FRAME_SIZE_ERROR")>>,
           <<~OnConnection(w), ConnectionError("PROTOCOL_ERROR")>> >>,
        w, [data |-> w.payload])

WritePing(c) == WriteFrame(<<>>, "PING", c.flags, 0, c.val.data)

\* ErrCode is Uint32(p[:8]), which reads the first four octets: those of
\* LastStreamID.
parseGoAwayFrame(w) ==
  Parse(<< <<~OnConnection(w), ConnectionError("PROTOCOL_ERROR")>>,
           <<Len(w.payload) < 8, ConnectionError("FRAME_SIZE_ERROR")>> >>,
        w, [last |-> Masked(Uint(UpTo(w.payload, 4))), code |-> Uint(UpTo(w.payload, 4)),
            debug |-> From(w.payload, 8)])

WriteGoAway(c) ==
  WriteFrame(<<>>, "GOAWAY", {}, 0,
             BigEndian(Masked(c.val.last), 4) \o BigEndian(c.val.code, 4) \o c.val.debug)

parseUnknownFrame(w) == Parse(<<>>, w, [payload |-> w.payload])

-----------------------------------------------------------------------------
(* WINDOW_UPDATE *)

parseWindowUpdateFrame(w) ==
  LET inc == Masked(Uint(UpTo(w.payload, 4)))
  IN  Parse(<< <<Len(w.payload) # 4, ConnectionError("FRAME_SIZE_ERROR")>>,
               <<inc = 0 /\ OnConnection(w), ConnectionError("PROTOCOL_ERROR")>>,
               <<inc = 0, StreamError(Masked(w.stream), "PROTOCOL_ERROR")>> >>,
            w, [increment |-> inc])

WriteWindowUpdate(c, illegal) ==
  WriteFrame(<< <<c.val.increment \notin 1 .. HighBit - 1 /\ ~illegal,
                  OtherError("errWindowIncrement")>> >>,
             "WINDOW_UPDATE", {}, c.stream, BigEndian(c.val.increment, 4))

-----------------------------------------------------------------------------
(* HEADERS *)

\* Mutant: the padding is taken off the length that the payload had before the
\* priority was read.
parseHeadersFrame_LengthBefore(w) ==
  LET p == AfterPadLength(w)
      withPriority == PRIORITY \in w.flags
      rest == IF withPriority THEN From(p, 5) ELSE p
  IN  Parse(<< <<OnConnection(w), ConnectionError("PROTOCOL_ERROR")>>,
               <<PadShort(w), UnexpectedEOF>>,
               <<withPriority /\ Len(p) < 5, UnexpectedEOF>>,
               <<PadLength(w) > Len(rest), StreamError(Masked(w.stream), "PROTOCOL_ERROR")>> >>,
            w, [priority |-> IF withPriority THEN Priority(p) ELSE NoPriority,
                frag |-> UpTo(rest, Len(p) - PadLength(w))])

parseHeadersFrame(w) ==
  LET p == AfterPadLength(w)
      withPriority == PRIORITY \in w.flags
      rest == IF withPriority THEN From(p, 5) ELSE p
  IN  Parse(<< <<OnConnection(w), ConnectionError("PROTOCOL_ERROR")>>,
               <<PadShort(w), UnexpectedEOF>>,
               <<withPriority /\ Len(p) < 5, UnexpectedEOF>>,
               <<PadLength(w) > Len(rest), StreamError(Masked(w.stream), "PROTOCOL_ERROR")>> >>,
            w, [priority |-> IF withPriority THEN Priority(p) ELSE NoPriority,
                frag |-> UpTo(rest, Len(rest) - PadLength(w))])

\* HeadersFrameParam: pad is PadLength zeros, and none is not padded.
WriteHeaders(c, illegal) ==
  LET n == IF c.pad = NoPad THEN 0 ELSE Len(c.pad)
      prio == c.val.priority
  IN  WriteFrame(<< <<~validStreamID(c.stream) /\ ~illegal, errStreamID>>,
                    <<prio # NoPriority /\ ~validStreamIDOrZero(prio.dep) /\ ~illegal,
                      errDepStreamID>> >>,
                 "HEADERS",
                 c.flags \cup (IF n # 0 THEN {PADDED} ELSE {})
                         \cup (IF prio # NoPriority THEN {PRIORITY} ELSE {}),
                 c.stream,
                 (IF n # 0 THEN <<n>> ELSE <<>>)
                   \o (IF prio # NoPriority THEN PriorityOctets(prio) ELSE <<>>)
                   \o c.val.frag \o Zeros(n))

-----------------------------------------------------------------------------
(* PRIORITY, RST_STREAM and CONTINUATION *)

parsePriorityFrame(w) ==
  Parse(<< <<OnConnection(w), ConnectionError("PROTOCOL_ERROR")>>,
           <<Len(w.payload) # 5, ConnectionError("FRAME_SIZE_ERROR")>> >>,
        w, [priority |-> Priority(w.payload)])

WritePriority(c, illegal) ==
  WriteFrame(<< <<~validStreamID(c.stream) /\ ~illegal, errStreamID>>,
                <<~validStreamIDOrZero(c.val.priority.dep), errDepStreamID>> >>,
             "PRIORITY", {}, c.stream, PriorityOctets(c.val.priority))

parseRSTStreamFrame(w) ==
  Parse(<< <<Len(w.payload) # 4, ConnectionError("FRAME_SIZE_ERROR")>>,
           <<OnConnection(w), ConnectionError("PROTOCOL_ERROR")>> >>,
        w, [code |-> Uint(w.payload)])

WriteRSTStream(c, illegal) ==
  WriteFrame(<< <<~validStreamID(c.stream) /\ ~illegal, errStreamID>> >>,
             "RST_STREAM", {}, c.stream, BigEndian(c.val.code, 4))

parseContinuationFrame(w) ==
  Parse(<< <<OnConnection(w), ConnectionError("PROTOCOL_ERROR")>> >>, w, [frag |-> w.payload])

WriteContinuation(c, illegal) ==
  WriteFrame(<< <<~validStreamID(c.stream) /\ ~illegal, errStreamID>> >>,
             "CONTINUATION", c.flags, c.stream, c.val.frag)

-----------------------------------------------------------------------------
(* PUSH_PROMISE *)

parsePushPromise(w) ==
  LET p == AfterPadLength(w)
      rest == From(p, 4)
  IN  Parse(<< <<OnConnection(w), ConnectionError("PROTOCOL_ERROR")>>,
               <<PadShort(w) \/ Len(p) < 4, UnexpectedEOF>>,
               <<PadLength(w) > Len(rest), ConnectionError("PROTOCOL_ERROR")>> >>,
            w, [promise |-> Masked(Uint(UpTo(p, 4))),
                frag |-> UpTo(rest, Len(rest) - PadLength(w))])

WritePushPromise(c, illegal) ==
  LET n == IF c.pad = NoPad THEN 0 ELSE Len(c.pad)
  IN  WriteFrame(<< <<~validStreamID(c.stream) /\ ~illegal, errStreamID>>,
                    <<~validStreamID(c.val.promise) /\ ~illegal, errStreamID>> >>,
                 "PUSH_PROMISE", c.flags \cup (IF n # 0 THEN {PADDED} ELSE {}), c.stream,
                 (IF n # 0 THEN <<n>> ELSE <<>>)
                   \o BigEndian(c.val.promise, 4) \o c.val.frag \o Zeros(n))

-----------------------------------------------------------------------------
\* typeFrameParser.
ParseFrame(w) ==
  CASE w.type = "DATA" -> parseDataFrame(w)
    [] w.type = "HEADERS" -> parseHeadersFrame(w)
    [] w.type = "PRIORITY" -> parsePriorityFrame(w)
    [] w.type = "RST_STREAM" -> parseRSTStreamFrame(w)
    [] w.type = "SETTINGS" -> parseSettingsFrame(w)
    [] w.type = "PUSH_PROMISE" -> parsePushPromise(w)
    [] w.type = "PING" -> parsePingFrame(w)
    [] w.type = "GOAWAY" -> parseGoAwayFrame(w)
    [] w.type = "WINDOW_UPDATE" -> parseWindowUpdateFrame(w)
    [] w.type = "CONTINUATION" -> parseContinuationFrame(w)
    [] OTHER -> parseUnknownFrame(w)

\* The Write method for a call c, with AllowIllegalWrites or without.  An
\* unknown type can only be written by WriteRawFrame.
WriteOf(c, illegal) ==
  CASE c.type = "DATA" -> WriteDataPadded(c, illegal)
    [] c.type = "HEADERS" -> WriteHeaders(c, illegal)
    [] c.type = "PRIORITY" -> WritePriority(c, illegal)
    [] c.type = "RST_STREAM" -> WriteRSTStream(c, illegal)
    [] c.type = "SETTINGS" -> WriteSettings(c)
    [] c.type = "PUSH_PROMISE" -> WritePushPromise(c, illegal)
    [] c.type = "PING" -> WritePing(c)
    [] c.type = "GOAWAY" -> WriteGoAway(c)
    [] c.type = "WINDOW_UPDATE" -> WriteWindowUpdate(c, illegal)
    [] c.type = "CONTINUATION" -> WriteContinuation(c, illegal)

\* The Go types of the parameters.
Uint16 == 0 .. Power[2] - 1
Uint32 == 0 .. Power[4] - 1
PriorityParam == [dep : Uint32, exclusive : BOOLEAN, weight : Octets]
Setting == [id : Uint16, val : Uint32]

\* The methods with a uint8 for the length of their padding.
PadLengthParam(c) == c.pad = NoPad \/ Len(c.pad) \in Octets

\* A call that compiles: the flags that a method's parameters stand for and the
\* other parameters.  SETTINGS, PING and GOAWAY are not of a stream.
IsCall(c) ==
  /\ c.type \in FrameTypes
  /\ c.pad = NoPad \/ c.pad \in Seq(Octets)
  /\ c.type = "DATA" => c.flags \subseteq {END_STREAM} /\ c.val \in [data : Seq(Octets)]
  /\ c.type = "HEADERS" =>
       /\ c.flags \subseteq {END_STREAM, END_HEADERS} /\ PadLengthParam(c)
       /\ c.val \in [frag : Seq(Octets), priority : PriorityParam]
  /\ c.type = "PRIORITY" => c.flags = {} /\ c.val \in [priority : PriorityParam]
  /\ c.type = "RST_STREAM" => c.flags = {} /\ c.val \in [code : Uint32]
  /\ c.type = "SETTINGS" =>
       c.stream = 0 /\ c.flags \subseteq {ACK} /\ c.val \in [settings : Seq(Setting)]
  /\ c.type = "PUSH_PROMISE" =>
       /\ c.flags \subseteq {END_HEADERS} /\ PadLengthParam(c)
       /\ c.val \in [promise : Uint32, frag : Seq(Octets)]
  /\ c.type = "PING" =>
       c.stream = 0 /\ c.flags \subseteq {ACK} /\ c.val \in [data : [1 .. 8 -> Octets]]
  /\ c.type = "GOAWAY" =>
       /\ c.stream = 0 /\ c.flags = {}
       /\ c.val \in [last : Uint32, code : Uint32, debug : Seq(Octets)]
  /\ c.type = "WINDOW_UPDATE" => c.flags = {} /\ c.val \in [increment : Uint32]
  /\ c.type = "CONTINUATION" =>
       c.flags \subseteq {END_HEADERS} /\ c.val \in [frag : Seq(Octets)]

WriteRawFrame(w) == WriteFrame(<<>>, w.type, w.flags, w.stream, w.payload)
=============================================================================
