# A TLA+ model of go-runtime-inside-out

The repository is a study of Go's runtime and standard library: parts of them
are transcribed, commented at length, and some are still unfinished.  These
modules model the parts that are programs, as they are written there.  Where
the code differs from what its comments or tests say, the model follows the
code, and a run shows the difference.

## Inventory

| Part | State | Operations | Hard behaviour | What makes it correct | Modules |
|---|---|---|---|---|---|
| Bitmap arenas, `memory_and_heap/mheap.go` | `gcBitsArenas` (lock, `next` and `free` lists), the `free` index of every arena | `newMarkBits`, `newAllocBits`, `tryAlloc`, `newArenaMayUnlock` | lock-free claims; a lock dropped during a system call | no two bitmaps share a byte; no arena lost or in two lists; no throw, no deadlock | `GCBits`, `BitmapService`, `GCBitsProofs` |
| Span zeroing, `mheap.go` | `zeroedBase` of every arena, the span's `needzero` | `initSpan`, `allocNeedsZero` | load / compare-and-swap / reload races over several arenas | a span not marked needzero is clean; the overlap check has no false alarm | `SpanZeroing`, `SpanZeroingProofs` |
| Chunked coding, `http/http/internal/chunked.go` | the reader's `n`, `err`, `checkEnd`; buffers on both sides | `Read`, `Write`, `Close`, flushing | pieces of any length, resumption, early returns instead of blocking, a cut connection | the decoded body does not depend on the pieces; data in hand is delivered | `Chunked`, `ChunkedProofs` |
| HPACK, `http2/hpack` | two dynamic tables with maps by unique id, pending size updates, `firstField` | `WriteField`, `SetMaxDynamicTableSize(Limit)`, `Decoder.Write`, `Close` | two tables kept in step by a delayed stream | fields survive; tables agree; maps never point at evicted entries | `HeaderTable`, `Hpack`, `HpackProofs` |
| Page allocator, `mpagealloc*.go`, `mpallocbits.go`, `mpagecache.go`, `mranges.go` | bitmaps of pages, a radix tree of summaries, address ranges | `summarize`, `find`, `mergeSummaries`, `grow`; `allocRange`, `update`, `allocToCache` | bit arithmetic at word boundaries, summaries kept consistent | a summary is that of the bits below it; what is found is the first free run | `PageBits`, `PageBitsProofs`, `AddrRanges` |
| Heap growth, `mheap.grow`, `malloc.go`, `mem*.go` | `curArena`, arena hints, arena maps, memory states | `grow`, `sysAlloc`, `sysReserveAligned`, `sysMap`, `sysGrow` | refused and misplaced reservations, partial success of the operating system's calls | every arena is backed by memory that is ours, registered once, within the address space | `Heap`, `HeapProofs` |
| Metadata allocators, `persistentalloc1`, `mfixalloc.go`, `recordspan`, the mspan caches | per-P and global chunks, the list of chunks, free lists inside blocks, `allspans` | `persistentalloc`, `alloc`, `tryAllocMSpan`, `allocMSpanLocked`, `freeMSpanLocked` | a compare-and-swap list, a lock some threads need and some do not | disjoint, aligned blocks; no chunk lost; an mspan is in one place | `Metadata`, `HeapProofs` |
| Channels, `channels_and_select/chan.go` | `hchan`, wait queues of sudogs | `chansend`, `chanrecv`, `closechan` | unlocked fast paths, a buffer that wraps round, waiting before parking | values in order, neither lost nor repeated; nobody waits without a reason or for ever | `Channel`, `ChannelProofs` |
| Parking and run queues, `channels_and_select/proc.go` | goroutine states, `runnext`, rings, the global queue | `gopark`, `park_m`, `goready`, `runqput`, `runqputslow` | lock-free rings with thieves; a goroutine found before it is parked | a goroutine is readied when it waits, and is on one queue | `Sched`, `ChannelProofs` |
| HTTP/2 framer, `http2/http2/frame.go` | the stream whose header block is open, `readMetaFrame` in progress, the decoder's `saveBuf` | ten Write methods and parsers, `ReadFrame`, `checkFrameOrder`, `readMetaFrame` | frames that fail inside a header block, fields cut between frames, limits on the list while the decoder goes on | a frame is read as it was written or refused; a header block is decoded as a whole and alone | `Frames`, `Framer` |
| HTTP/2 frame writers, `write.go` | none of their own | `writeFrame` of eleven requests, `encodeHeaders`, `splitHeaderBlock` | blocks of one, several and no fragments; an encoder shared with every other request | the peer refuses nothing they write (which holds with an empty header table only, see Findings) | `Framer` |
| HTTP/1 server, textproto, MIME | connections, listeners; parsers | `Serve`, `trackConn`, `ReadMIMEHeader`, multipart scanning | accept retries and shutdown; boundaries split over reads | | later, if at all |
| Scheduler, netpoller, sync notes; calling convention; assembly | none | | prose, stubs and demonstrations | | not modelled |

How the parts interact.  `initSpan` is given pages by the page allocator, asks
`allocNeedsZero` whether to zero them, and takes mark and alloc bitmaps from
`newMarkBits`.  The page allocator takes address space from heap growth, which
gets its arenas' metadata from `persistentalloc`, as `fixalloc` does for mspans.  Channels park goroutines through
the scheduler's `gopark` and wake them through `goready`.  The HTTP/2 framer
feeds header block fragments to the HPACK decoder, and the frame writers use
the encoder.  The chunked coder stands between the HTTP/1 body and the
connection's buffered reader and writer.

`PROJECT.json` lists every part with its status, the source lines every
definition stands for, and the hazards of the code with the properties that
cover them.

## Modules

`GCBits` keeps `gcBitsArenas` and, for every thread, where it is in
`newMarkBits`.  Each atomic load, each fetch-and-add, each acquisition of the
lock and the call of `sysAlloc` is an action; what lies between is part of the
preceding one.  Lists of arenas are sequences, head first.  `throw` stops every
thread.  `TryCheck` and `TryXadd` are the two halves of `tryAlloc`, used at the
four places newMarkBits calls it (`site`).  `BitmapService` is what callers are
promised: a call takes, at one instant, aligned bytes nobody has.  `GCBits`
implements it (`ImplementsService`).

`SpanZeroing` counts addresses in pages.  Each thread repeatedly gets free
pages (external: the page allocator), runs `allocNeedsZero` on them with one
action per atomic operation, then uses and frees them (external: the mutator).
`dirty` remembers which pages were ever used.

`Chunked` joins a `chunkedWriter` over a buffered connection to a
`chunkedReader` over a `bufio.Reader`.  Bytes are names (`"CR"`, `"SEMI"`, hex
digits, `"x"` for the rest); payload may contain CR, LF and digits.  A Read takes a step for each look at the buffer and
waits, inside the step, for what the connection delivers.  The buffers and the
connection are external and may hold back, deliver or lose what their contracts
allow.  `Decode` is the reference: the body of a whole stream, computed by
position (`ChunkAt` is the chunk that starts at a position, `Bodies` the body
from every position on).  Errors of the connection other than its end are not modelled.

`HeaderTable` has the two layers of an HPACK table as operators on a record;
`Hpack` has an encoder, a stream and a decoder.  Each representation is passed
to the decoder in a Write of its own.  The decoder keeps no error of its own,
so the model records it (`rejected`) and the caller goes on: this is what allows
the other properties to be checked although the decoder reports an error for
every literal it adds (see Findings).  In HTTP/2 a caller closes the connection
on such an error.  Names, values and their lengths are abstract, `Overhead`
stands for the 32 octets of every entry, and lengths are chosen so that two or
three entries fill a table.

`Sched` has the goroutine states, `gopark` with its unlock function, `ready` and
the run queues, one action per atomic operation of `runqput` and `runqputslow`;
other Ps, which take goroutines from the queues, are external since `schedule`
is empty in the source.  `Channel` extends it with one channel.  What happens
under the channel's lock is one step, but for the two moments others can see:
`closed` set before the queues are emptied, and a goroutine that is queued and
not yet parked.  The fast paths take a step for each read.

`PageBits` has a chunk's bitmap, one action per operation that changes it, and
the search and summary algorithms as operators, translated shift by shift on
sets of bits, each loop a recursive function over its turns.  Because each is
compared with its definition on every bitmap, one state is one bitmap.

`Metadata` has `persistentalloc1` with an action for each atomic operation,
system call and lock, `fixalloc` of mspans on top of it, and `mheap`'s caches of
mspans.  `Heap` extends it with address space: `grow`, `sysAlloc` (by hint, then
anywhere), the arenas' metadata and `pageAlloc.grow`, under the heap lock, with
the ranges of `AddrRanges`.  The kernel is external; it may refuse, and it may
answer with another place than the one asked for.

`Frames` has the writer and the parser of each frame type as operators between
what a caller says and octets of a payload.  `Framer` has the state machine: a
writer, by the Write methods, by `WriteRawFrame` or by the requests of
`write.go`; a connection that may be cut; a reader.  `readMetaFrame` calls
`ReadFrame` again for each CONTINUATION; every such call is a step and `meta`
holds what `readMetaFrame` has so far.  `DecoderWrite` is the HPACK decoder
reduced to what the framer can see: octets that are a field, a part of one that
is kept in `saveBuf`, or an error; the dynamic table is in `Hpack`.  The
connection's encoder writes the index of a field of the static table, and a
literal otherwise, with incremental indexing if the field fits the peer's header
table (`opts.tableSize`, from its SETTINGS) and without if it does not; the first
field after a change of that size brings a size update.  A field that the encoder
has indexed is written as a literal again: a peer that decodes has refused the
literal by then and reads no more.  The buffer between the Framer and the connection is left out: `Flush` moves octets that
are already in order.

The `MC` modules give the constants values for TLC.

## Runs

| Run | Bounds | What it shows |
|---|---|---|
| `gcbits` | 2 threads, 3 arenas of 24 bytes, bitmaps of 8 and 24 bytes, 4 calls | All interleavings of two threads around an arena that fills up: overtaking between load and fetch-and-add, fresh arenas of both threads, recycled arenas, failing `sysAlloc`.  Three arenas are enough for two threads to map one each while a third is the head. |
| `span_zeroing` | 2 threads, 2 arenas of 3 pages, 3 spans | Spans within an arena and across the boundary, adjacent to another's, on fresh and reused pages. |
| `chunked` | 2 writes, read buffers of 1 and 3 bytes, a bufio buffer of 6, 7 raw streams | Every way of cutting the stream, every early return; the raw streams reach every error. |
| `chunked_truncated` | 1 write | The violation described below. |
| `hpack` | 4 fields out of 5, 2 resizes to 0 or 2 from 4, one static entry | Matches in either table, names indexed in either, evictions of some and of all entries, two resizes folded into one block, sensitive fields. |
| `hpack_bounded` | as `hpack` | The violation described below. |
| `channel` | 3 goroutines, 2 Ps with rings of 2, a channel without buffer and one with 2 slots, 4 operations | All operations, blocking or not, on open, full, empty, closed and nil channels; three goroutines give two waiters on one queue and somebody who closes or readies; a ring of 2 is full with the two other goroutines in it. |
| `pages` | chunks of 3 words of 5 bits | All 32768 bitmaps, with runs across one and two word boundaries and runs inside a word, and every number of pages searched for from the start of the chunk. |
| `heap` | 2 threads with a P and one without, chunks of 6 words, 5 regions, 3 calls; 8 arenas, one hint, free or taken, a heapArena of 4 words | Small and large blocks and mspans allocated while another thread pushes its chunk; growth at the hint, elsewhere and not at all, for one arena and for two.  `pageAlloc.grow` throws after the first growth of the heap, so further arenas, next to the first or not, come from the user arenas' calls of `sysAlloc`, which are external; for the same reason `inUse` stays empty and the operators of `AddrRanges` on several ranges carry no weight here. |
| `framer` | octets of 64 values, frames of at most 12 octets, fragments of 8, 4 writes of which one is unread | Every frame type padded and with priority, raw frames most of which are malformed, all requests of `write.go`, six settings of the Framers, with the default header table and with an empty one.  `FramesSurvive`: a frame is read as its call said, or refused; `NeverRefused`: with an empty header table what `write.go` writes is not refused, save a promise that does not fit (`LargePush`) and a field longer than the reader's limit (`LongField`); `BlocksIntact`: a header block is decoded as a whole.  Four writes allow a header block with two CONTINUATIONs and something after it or in between.  Octets of 64 values hold every flag and keep identifiers, four octets, within TLC's integers. |
| `framer_indexed` | as `framer`, requests of `write.go` to readers that decode, with the default header table | The violation described below. |
| `framer_interrupted` | as `framer`, headers and one WINDOW_UPDATE | The violation described below. |

The `hpack`, `channel`, `heap` and `framer` runs do not check deadlock: once the
bounded operations are over nothing remains to be done, a `throw` or a terminal
error stops everything, and goroutines may wait for each other for ever, as
programs with channels may.  In `GCBits` and `SpanZeroing` the bound on calls is
reached through an explicit `Stopped` step, so that any other standstill is a
deadlock.

Every property of a passing run has a mutant of the code in `PROJECT.json`
(operators commented "Mutant", next to the definition they replace) under which
TLC finds it violated.

Fairness.  `GCBits`: a thread inside a call keeps running (the operating system
schedules it, and a mutex that is released is eventually taken by the one
waiting, of two); nobody has to start a call.  `SpanZeroing`: a thread inside
`allocNeedsZero` keeps running.  `Chunked`: a Write that began goes on, a closed
body is flushed by the connection's owner, and the consumer reads until it gets
an error, as `io.ReadAll` does; nothing makes the producer write or close.
`Channel`, `Heap` and `Framer` state no fairness: `chansend` never gives back
the lock once it has found a receiver, `pageAlloc.grow` always throws, and a
peer may stop at any time, so that nothing is promised to happen.  What must not
be forgotten is stated as an invariant (`NobodyStranded`, `ChunksLinked`).

## Findings

* `chunked.go:91` tests `cr.err` where the error of `io.ReadFull` is in a
  shadowing `err`: a stream cut before the CRLF of a chunk makes `Read` return
  no bytes and no error for ever.  `TestIncompleteChunk` and
  `TestChunkEndReadError` expect the error.
* `hpack.go:391` drops the result of `parseFieldLiteral` and falls through to
  "invalid encoding" after it has added and emitted the field.  With the default
  header table the encoder indexes every field that the static table does not
  hold, so the block of a 100 Continue or of a response with an etag ends the
  connection of a reader that decodes it with COMPRESSION_ERROR
  (`framer_indexed`).
* `dynamicTable.add` (`hpack.go:213`) does not evict, so a dynamic table exceeds
  the size that is said to bound it.
* `frame.go:613`: the error of a frame's parser is returned before
  `checkFrameOrder` has seen the frame.  A stream error inside a header block,
  such as that of a WINDOW_UPDATE with a zero increment, ends `readMetaFrame` but
  not the connection; half a field stays in the decoder's `saveBuf` and the next
  `MetaHeadersFrame` of any stream starts with it.  `BlocksIntact` shows that
  nothing else breaks up a block.

### Observed

Seen while reading for the model, in the code as it is modelled or next to it;
no run of its own.

* HPACK: `firstField` is cleared by the first of the two size updates an encoder
  may send, so the decoder refuses the second while its table is not empty
  (`hpack.go:553`).  `TablesAgree` shows that the entries stay equal nevertheless.
* Channels: `chansend` takes a waiting receiver off the queue and returns with
  the channel locked, the call of `send` being commented out (`chan.go:215`).
  The comment at `chan.go:182` argues that a non-blocking send which returns
  false had a moment when the channel was open and not ready; `closechan`, which
  empties `recvq`, makes a channel with a waiting receiver closed and not ready
  at once, and there need not have been such a moment.  A sender woken by
  `closechan` returns true (`chan.go:291`).
* Heap growth: `addrRange.size` has its comparison the wrong way round
  (`mranges.go:35`), so `addrRanges.add` throws for every range and
  `pageAlloc.grow` never completes.  `subtract` uses `lessThan` where equality
  is meant.
* Page allocator, in code that the throw above makes unreachable: `setRange`
  overwrites words it should add to; `clearRange` starts the middle words at
  `i + 1`; `popcntRange` reads `b[64/i]`; `pageAlloc.allocRange` marks
  `allocRange(0, ei)`; `find` tests `i < len(entries)`; `allocToCache` shadows
  `chunk` and uses `chunkIdx(addr)`; `allocN` of the page cache shifts by `i`.
  `findSmallN` returns `searchIdx` for the new search index.
* Framer: the code of a GOAWAY is read from the octets of its last stream
  (`p[:8]`).  `ReadFrame` never invalidates the previous frame, although its
  comment says a frame is valid until the next call.  `checkFrameOrder` does not
  know that a PUSH_PROMISE opens a header block, so the CONTINUATION of a split
  one is refused, and `writePushPromise` makes frames four octets larger than
  `splitHeaderBlock` allows for; `NeverRefused` leaves these two cases out by
  name (`LargePush`).  It also leaves out a field longer than the reader's
  `maxHeaderListSize` (`LongField`), which the decoder refuses as a string too
  long where a longer list of short fields is only cut off, and every peer that
  has not set its header table to nothing.  Trailers whose fields are all skipped write no frame, and
  with it no END_STREAM.  A HEADERS frame refused with a stream error makes its
  CONTINUATION unexpected, which ends the connection.

## Proofs

`tlapm` checks every step.  The theorems hold for all values of the constants
that satisfy the assumptions named in the modules; what an assumption takes from
the code is said next to it.  An invariant a run checks is seldom inductive, and
each module has the invariant that is; most of those were checked by TLC before
they were proved.

* `GCBitsProofs`: `TypeCorrect`, `BitmapsDisjoint`, `NoMarkBitsOverflow`.  The
  inductive invariant `IInv` says that a bitmap ends at or below its arena's free
  index (so a fetch-and-add claims new bytes), that an arena that was mapped is
  in at most one list or one pair of hands, that an arena in a thread's hands
  and those on the free list carry no bitmaps, and that only the lock holder is
  between taking a fresh arena and giving it away.  `NoOverlap` alone is not
  inductive: nothing in it relates the bitmaps to the free index that the next
  one is taken from, and clearing a recycled arena would be unsafe if somebody's
  bitmap lay in it.  `ArenasKept` adds that an arena that was mapped is
  somewhere (`KeptInv`); `OvershootIsBounded` that an arena's free index exceeds
  its length by no more than the threads which are past the check and not yet at
  the fetch-and-add can account for (`FlightInv`).  `Refinement`: every step maps to a step of
  `BitmapService` or changes nothing of it.  Assumed: a bitmap fits an empty
  arena (`NElemsAssumption`), and there are finitely many threads
  (`ThreadsAssumption`).
* `SpanZeroingProofs`: `TypeCorrect`, `NeedZeroIsSound`, `OverlapCheckSound` and
  the action property `ZeroedBaseRises`.  The invariant relates `zeroedBase` to
  the pages that are used or already passed by a thread in the loop, and says
  what a thread's earlier reads allow it to conclude, since live spans are
  disjoint.
* `ChannelProofs`, of any number of goroutines and Ps, any even ring and any size
  of the channel.  First `TypeCorrect`, `WaitersJustified`, `ReadyIsSafe`,
  `StackShrinkSeesFlags`, `FastRecvHadMoment`, `NobodyForgotten`.  The invariant
  has a part for each thing a goroutine relies on: where it can be, who holds
  the lock, who is on the wait queues and why, whom a goroutine has still to
  ready, which flags a waiting one shows, what the locals of `runqput` are, and
  what a non-blocking operation has seen.  None of the six is inductive without
  the others: a receiver may be dequeued only because it is parked or parking
  under the lock, and so on.  On top of that, `NeverLostNorDoubled`:
  `OneRunQueue` counts, the invariant (`Unique`) does not; a goroutine's places
  form four sets, of which at most one has a member, and one at most.  And
  `FirstInFirstOut`: the invariant (`Fifo`) gives every accepted value its place:
  received, then in the buffer from `recvx` on, wrapping round, then in the hands
  of the waiting senders.
* `ChunkedProofs`, of any payloads, streams, buffers and pieces: `TypeCorrect`,
  `StreamDecoded`, `BodyArrives`.  How far a walk over the stream has come is said
  without recursion: `WalkedTo(w, X, i)` when every stream that begins with `w`
  has the body `X` and then what the walk finds from position `i` on.  `ReaderInv`
  says that what the Reads have returned is such an `X` with, inside a chunk, the
  chunk's bytes up to the one read last (`WithinAt`); that more bytes on the
  connection change nothing is a lemma about the walk.  `DecodesStream` alone is
  not inductive: it says nothing of the buffer, of `n` and of `checkEnd`, on which
  the next byte's meaning depends.  `WriterInv` says that what is on the connection
  is a prefix of whole chunks and the one being written (`Framed`), so that no cut
  makes it malformed.  Assumed: a length has at most `MaxHexDigits` digits
  (`PayloadsAssumption`) and a size line fits the reader's buffer
  (`SizesAssumption`; 18 bytes of 4096 in the code).
* `FramerProofs`, of any calls, raw frames, requests, tables and limits:
  `BlocksWhole` and `FramesRoundTrip`.  For the first, the walk over the representations of a block is treated as in
  `ChunkedProofs`; `Decoded` says that the decoder is so far with the octets read,
  that `saveBuf` is the rest of them, and that the fields are all those found
  (`Kept`), or those before the first that did not fit (`Stopped`), or that one was
  wrong (`Refused`).  The invariant (`Reading`) adds that `readMetaFrame` waits for
  the stream whose block it decodes and that nothing is left in `saveBuf` between
  two blocks; the second is what a stream error within a block breaks, and why
  `BlocksIntact` has its condition.  That only octets are on the wire
  (`RequestSound`, `WriteSound`) needs the encoder (`Encoding`, `Encoders`), with
  any table size and with a size update due or not: every name that may be
  written has an octet (`HpackAssumption`), and calls and requests have the types of their
  Go parameters (`CallsAssumption`, `RawAssumption`, `WritersAssumption`).
  `FramesRoundTrip` is `FramesSurvive`.  It says nothing of the frames that wait on
  the wire; the invariant (`Paired`) has them in line with the calls that wrote
  them, through every write, read and cut.  A frame that is read is then
  `ParseFrame` of what `WriteOf` made of its call, and there is one lemma for each
  of the ten types (`EveryFrameSurvives`): the parser finds the parts that the
  Write method joined (`PartsOf`, `PadOctet`, `FlatSix`), the numbers among them are
  the ones written (`BigEndianTwo`, `BigEndianFour`), and the highest bit of an
  identifier is the exclusive bit and nothing else (`PriorityIs`), which is what
  the checks of the Write method are for.
* `HeapProofs`, of any kernel, hints, threads and sizes.  First the metadata
  allocators as `Heap` uses them: `BlocksDisjoint`, `SpansInOnePlace`,
  `NoChunkLost`.  `MetaInv`: who holds which lock, chunks have one owner, blocks
  end below their owner's offset.  `SpanInv`: the mspans in hand, cached and free
  are distinct and recorded once, and what is not carved yet of a block, or on
  its way to the caller, is none of them.  `ChainInv`: some sequence of chunks
  without repetition is what one meets from `persistentChunks` on, and has every
  chunk but those being pushed; a pusher's chunk links to the head it has read.
  `SizesAssumption` bounds sizes and alignments as `persistentalloc1` itself does.
  On top of that `AddressSpaceBacked` and `ArenasInPlace`: the invariant follows
  one reservation through `sysAlloc`: what was got is aligned, free of arenas and
  within the address space until it is registered, one arena at a time.
* `PageBitsProofs`, of words of any width from 3 bits on and chunks of any number
  of words: `FirstFit`, `SummariesExact`, `MergesExact`.  The state is a bitmap and
  nothing more, so the invariant is its type (`WordsTyped`); the work is in the
  algorithms, which are recursive functions over words or turns.  Words become
  pages by `BitOfPage` (page `B(i) + j` is bit `j` of word `i`), and each loop has
  an invariant of its own.  `Shrink64` after it has removed `d` ones has the bits
  at which `d + 1` ones start (`Starts`).  `Searching`: the free run below the word
  is too short, nothing fits any lower, and no page below the first free one seen
  is free.  `EdgesInv`: no run before the open one is longer than `max`, unless it
  lies inside a word (`Inner`); with `max >= W - 2` no such run can be longer, and
  otherwise the second loop looks for it.  There `ShrinkZeros` leaves the word
  with each run of zeros shortened from above (`Smear`), whatever the widths of the
  shifts were, and each turn either proves that no run is longer or finds how much
  longer one is (`Looking`).  `Exact` is a summary that is right for the pages from
  `lo` to `hi`; `PackExact` says that packing keeps it, `MergeStepSound` that a turn
  of `mergeSummaries` makes one of two, `CountedExact` that there is only one for
  the whole chunk.
* `HpackProofs`: `TypeCorrect`, `MapsStayNewest`, `EveryFieldSurvives`,
  `TablesInStep`, `SizesAddUp`.  The first invariant (`IInv`) says that both
  tables are sound (`AddSound`, `EvictOldestSound`, `SearchFinds` are lemmas about one
  table) and that what travels is well formed.  The second (`SyncInv`) is about
  the lag: there is a sequence of snapshots, one more than there are
  representations on the stream, from the decoder's entries now to those it
  will have, in which each representation means what the encoder meant when it
  is read against its snapshot (`Replay`), and the last snapshot becomes the
  encoder's entries under the updates that are still pending (`Behind`).  A
  table cut to the smallest of several sizes is what cutting it to each in turn
  gives (`FitTwice`); a second update of a block may therefore be refused.
  Assumed: a peer's settings ask for no more than its decoder allows
  (`AllowedAssumption`; `NewDecoder` sets both to one value).

Facts about all numbers or all sequences (sums of entry sizes, chains of chunks,
walks along links, the turns of a loop, that a recursive function exists at all)
are proved by the least counterexample: a set of naturals that
has a member has a least one, which the library's theorem about well-founded
relations gives without an operator for the induction hypothesis.

Only model-checked:

* Liveness, which the prover has no rules for: `EveryCallReturns`,
  `AllocNeedsZeroReturns`, `ChunksArrive`, `CleanBodyEnds`.
* `NeverRefused`: it is about the requests of the instance, whose fields and
  identifiers are such that a peer without a header table has no reason to refuse
  them.
* The four violations, which need a counterexample and no proof.

## Not modelled

* `pageAlloc.update`, `allocRange`, `find`, `allocToCache` and the page cache:
  no program gets there, since `grow` throws before a page is free.  Their
  building blocks are in `PageBits`.
* `mspan.init` and the publication of a span in `initSpan`; `mheap.alloc` and
  `allocSpan` are unfinished.
* `select`: the poll order is all there is.  The futex lock: its contended path
  is missing; models take a mutex for granted.
* HPACK: varints, strings and Huffman codes, and the decoder's own setters.
* Framer: an error or a short write of the underlying writer (`frame.go:465`),
  the value of a size update, reuse of frames, logging, `HasDuplicates`.  Writers:
  `staysWithinBuffer` and the buffered writer, which have no caller.
* The HTTP/2 and HTTP/1 servers, whose `serve` is a stub; textproto and MIME,
  sequential parsers.
* The rounding of `sysGrow`'s ranges to physical pages
  (`mpagealloc_64bit.go:109`); statistics of the memory allocators; arithmetic overflow of sizes that no
  input can reach; recycling of bitmap arenas between collections, which is not
  in the repository; memory ordering weaker than sequential consistency (the
  code uses the runtime's sequentially consistent atomics in the places
  modelled).

## Plan

1. HPACK's varints and strings as operators with a round trip over small
   prefixes, in place of the octets `Framer` has for them.
2. The quoted-printable round trip and the multipart boundary scanner.
