------------------------------ MODULE MCFramer ------------------------------
(* Framer with octets of six bits, which hold every flag: identifiers of    *)
(* 23 bits, frames of at most 12 octets and fragments of at most 8.         *)
EXTENDS Framer

Field(n, v) == [name |-> n, value |-> v]

\* Octets of the static table and of literals.
Method == 33
Status == 34
Literal == 0
Never == 16
Incremental == 20
Update == 24
Long == 35
MCStatic == (Method :> Field(":method", 1)) @@ (Status :> Field(":status", 1))
              @@ (Long :> Field("via", 6))
MCNameAt == <<"etag", "via", "Bad", ":unknown", "transfer-encoding", ":status">>
MCPseudoNames == {":method", ":path", ":status", ":unknown"}
MCWireNames == {"etag", "via", "transfer-encoding"}
\* Values: 1 and 2 are short, 3 is "trailers", 9 has a control character, 50 is
\* longer than any header list may be.
Etag(v) == <<Literal, 1, v>>

MCLower == ("Etag" :> "etag") @@ ("Via" :> "via") @@ ("Kelvin" :> NotASCII)
             @@ ("Bad Name" :> "bad name") @@ ("Transfer-Encoding" :> "transfer-encoding")
MCSortedKeys == <<"Bad Name", "Etag", "Kelvin", "Transfer-Encoding", "Via">>

Prio(d, x) == [dep |-> d, exclusive |-> x, weight |-> 7]
Headers(flags, s, frag) ==
  Call("HEADERS", flags, s, [frag |-> frag, priority |-> NoPriority])
Continuation(flags, s, frag) == Call("CONTINUATION", flags, s, [frag |-> frag])
Padded(c, n) == [c EXCEPT !.pad = Zeros(n)]

\* A field may be cut after one octet or two.
HeaderCalls ==
  {Headers({END_STREAM}, 1, <<Method, Literal>>),
   Headers({}, 3, <<Literal, 1>>),
   Padded(Headers({END_HEADERS}, 3, <<Status>>), 2),
   Padded([Headers({END_HEADERS}, 1, Etag(1)) EXCEPT !.val.priority = Prio(3, TRUE)], 1),
   Continuation({END_HEADERS}, 1, <<1, 2>>), Continuation({}, 1, <<1>>),
   Continuation({END_HEADERS}, 3, <<2>>), Continuation({END_HEADERS}, 1, <<2, Literal, 2, 1>>)}

OtherCalls ==
  {Padded(Call("DATA", {END_STREAM}, 1, [data |-> <<5, 6>>]), 2),
   Call("DATA", {}, 0, [data |-> <<5>>]),
   [Call("DATA", {}, 1, [data |-> <<5>>]) EXCEPT !.pad = <<1>>],
   Padded(Call("DATA", {}, 1, [data |-> <<>>]), Octet),
   Call("SETTINGS", {}, 0,
        [settings |-> <<[id |-> 3, val |-> Octet ^ 4 - 1], [id |-> InitialWindow, val |-> 1]>>]),
   Call("SETTINGS", {ACK}, 0, [settings |-> <<>>]),
   Call("PING", {}, 0, [data |-> <<1, 2, 3, 4, 5, 6, 7, 8>>]),
   Call("GOAWAY", {}, 0, [last |-> HighBit + 3, code |-> 1, debug |-> <<9>>]),
   Call("WINDOW_UPDATE", {}, HighBit + 1, [increment |-> HighBit - 1]),
   Call("WINDOW_UPDATE", {}, 3, [increment |-> 0]),
   Call("PRIORITY", {}, 3, [priority |-> Prio(1, FALSE)]),
   Call("PRIORITY", {}, 3, [priority |-> Prio(HighBit, FALSE)]),
   Call("RST_STREAM", {}, 1, [code |-> 8]),
   Padded(Call("PUSH_PROMISE", {END_HEADERS}, 1, [promise |-> 2, frag |-> <<Method>>]), 1),
   [Headers({END_HEADERS}, 1, <<>>) EXCEPT !.val.priority = Prio(HighBit + 1, FALSE)]}

MCCalls == HeaderCalls \cup OtherCalls

Raw(type, flags, s, p) == [type |-> type, flags |-> flags, stream |-> s, payload |-> p]

\* Whole header blocks with fields that are refused, or that do not fit.
Blocks ==
  {<<Literal, 3, 1>>, Etag(1) \o <<Method>>, <<Literal, 4, 1>>, <<Method, Method>>,
   <<Method, Status>>, Etag(9), Etag(50), <<Incremental, 1, 1>>, <<Literal>>,
   <<Method, Update, Never, 1, 2>>, <<Long>>,
   Etag(2) \o Etag(1) \o Etag(2), <<Literal, 9, 1>>}

MCRawFrames ==
  {Raw("HEADERS", {END_HEADERS}, HighBit + 1, b) : b \in Blocks} \cup
  {Raw("WINDOW_UPDATE", {}, 1, <<0, 0, 0, 0>>), Raw("WINDOW_UPDATE", {}, 0, <<0, 0, 0, 0>>),
   Raw("WINDOW_UPDATE", {}, 0, <<0>>), Raw("DATA", {PADDED}, 1, <<>>),
   Raw("DATA", {PADDED}, 1, <<2, 0>>), Raw("SETTINGS", {ACK}, 0, <<1>>),
   Raw("SETTINGS", {}, 0, <<1>>), Raw("SETTINGS", {}, 0, <<0, 4, 32, 0, 0, 0>>),
   Raw("SETTINGS", {}, 1, <<>>), Raw("PING", {}, 0, <<>>), Raw("PING", {}, 1, Zeros(8)),
   Raw("GOAWAY", {}, 0, <<>>), Raw("GOAWAY", {}, 1, Zeros(8)), Raw("PRIORITY", {}, 1, <<>>),
   Raw("PRIORITY", {}, 0, <<>>), Raw("RST_STREAM", {}, 1, <<>>),
   Raw("RST_STREAM", {}, 0, Zeros(4)), Raw("HEADERS", {PADDED}, 1, <<1>>),
   Raw("HEADERS", {PADDED}, 1, <<>>), Raw("HEADERS", {PRIORITY}, 1, <<0>>),
   Raw("HEADERS", {}, 0, <<>>), Raw("CONTINUATION", {}, 0, <<>>),
   Raw("PUSH_PROMISE", {}, 0, <<>>), Raw("PUSH_PROMISE", {}, 1, <<1>>),
   Raw("PUSH_PROMISE", {PADDED}, 1, <<1, 0, 0, 0, 2>>), Raw("PUSH_PROMISE", {}, 1, <<0, 0, 0, 2>>),
   Raw("UNKNOWN", {}, 1, <<7>>), Raw("UNKNOWN", {}, 0, Zeros(13)),
   Raw("UNKNOWN", {}, 0, Zeros(Octet))}

\* For the run on interrupted header blocks.
ZeroIncrement == {Raw("WINDOW_UPDATE", {}, 1, <<0, 0, 0, 0>>)}

Response(s, end, status, h, more) ==
  [kind |-> "writeResHeaders", stream |-> s, end |-> end, status |-> status, h |-> h,
   isTrailer |-> FALSE, trailers |-> <<>>, more |-> more]

MCWriters ==
  {Response(1, FALSE, <<Field(":status", 1)>>,
            ("Etag" :> <<1, 9, 2>>) @@ ("Kelvin" :> <<1>>) @@ ("Bad Name" :> <<1>>)
              @@ ("Transfer-Encoding" :> <<1, 3>>) @@ ("Via" :> <<2>>),
            <<Field("etag", 2), Field("via", 1)>>),
   Response(3, TRUE, <<>>, "Etag" :> <<1>>, <<>>),
   [Response(1, TRUE, <<>>, ("Etag" :> <<1>>) @@ ("Via" :> <<2>>), <<>>)
      EXCEPT !.isTrailer = TRUE, !.trailers = <<"Via", "Absent">>],
   [Response(1, TRUE, <<>>, "Etag" :> <<9>>, <<>>)
      EXCEPT !.isTrailer = TRUE, !.trailers = <<"Etag">>],
   Response(0, TRUE, <<Field(":status", 1)>>, "Etag" :> <<1>>, <<>>),
   Response(3, TRUE, <<Field(":status", 1)>>, "Via" :> <<6>>, <<>>),
   [kind |-> "writePushPromise", stream |-> 1, promised |-> 2,
    request |-> <<Field(":method", 1)>>, h |-> "Etag" :> <<1>>],
   [kind |-> "writePushPromise", stream |-> 1, promised |-> 2,
    request |-> <<Field(":method", 1)>>, h |-> "Etag" :> <<1, 2, 1>>],
   [kind |-> "write100Continue", stream |-> 3, status |-> <<Field(":status", 2)>>],
   [kind |-> "writeSettings", settings |-> <<[id |-> InitialWindow, val |-> 3]>>],
   [kind |-> "writeGoAway", maxStreamID |-> 3, code |-> 1],
   [kind |-> "writeData", stream |-> 1, end |-> TRUE, p |-> <<1, 2, 3>>],
   [kind |-> "handlerPanicRST", stream |-> 1],
   [kind |-> "StreamError", stream |-> 3, code |-> 8],
   [kind |-> "writePingAck", data |-> <<8, 7, 6, 5, 4, 3, 2, 1>>],
   [kind |-> "writeSettingsAck"],
   [kind |-> "writeWindowUpdate", stream |-> 0, n |-> 1]}

\* Fields of size 2 and 3 fit the table an encoder starts with.
TableSize == 3
Opt(iw, ir, m, size, table) ==
  [illegalWrites |-> iw, illegalReads |-> ir, metaHeaders |-> m, listSize |-> size,
   tableSize |-> table]
MCOptions ==
  {Opt(FALSE, FALSE, TRUE, 0, 0), Opt(FALSE, FALSE, TRUE, 5, 0),
   Opt(FALSE, FALSE, TRUE, 0, TableSize), Opt(FALSE, FALSE, FALSE, 0, 0),
   Opt(TRUE, TRUE, FALSE, 0, TableSize), Opt(FALSE, TRUE, TRUE, 0, 0)}
MetaOptions == {Opt(FALSE, FALSE, TRUE, 0, TableSize)}
=============================================================================
