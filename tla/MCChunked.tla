----------------------------- MODULE MCChunked -----------------------------
(* Chunked on a small instance: bodies of at most two chunks, one of which  *)
(* looks like a line break and a size, and streams of other peers.          *)
EXTENDS Chunked

MCPayloads == {<<>>, <<"x">>, <<"LF", "1">>}

\* An extension; a footer that is not CRLF; too many digits; a byte that is
\* no digit; an empty size line; a size line that does not fit the buffer.
MCRawStreams ==
  {<<"1", "SEMI", "x", "CR", "LF", "x", "CR", "LF", "0", "CR", "LF">>,
   <<"1", "CR", "LF", "x", "x", "x">>,
   <<"1", "0", "0", "CR", "LF">>,
   <<"x", "SP", "LF">>,
   <<"1", "LF", "x", "CR", "LF", "CR", "LF">>,
   <<"1", "CR", "LF", "x", "CR", "LF", "1", "SEMI", "x", "x", "x", "LF">>,
   <<"1", "LF", "x", "CR", "LF", "1", "SEMI", "x", "x", "x", "x", "x">>}
=============================================================================
