------------------------------ MODULE Metadata ------------------------------
(***************************************************************************)
(* The allocators of the runtime's own data, memory_and_heap:              *)
(*   persistentalloc (malloc.go)  blocks that are never freed, cut off     *)
(*       256 KB chunks; every P has a chunk of its own, threads without a  *)
(*       P share one under globalAlloc.mutex; all chunks are linked        *)
(*       through their first word into persistentChunks, by                *)
(*       compare-and-swap;                                                 *)
(*   fixalloc (mfixalloc.go)  fixed-size objects cut off blocks of         *)
(*       persistentalloc and recycled through a list, here the allocator   *)
(*       of mspans;                                                        *)
(*   mheap.go's mspan cache of every P on top of it, and recordspan, which *)
(*       notes every new mspan in allspans.                                *)
(*                                                                         *)
(* A thread runs one call at a time.  call[t] is the running               *)
(* persistentalloc1: its arguments, what its caller does next (`then'),    *)
(* the local `chunks', and, once it has returned, its result p.            *)
(* Memory is counted in words; mmap gives a new region or fails, and a     *)
(* throw stops every thread.  The statistics (sysMemStat) are left out.    *)
(***************************************************************************)
EXTENDS Integers, Sequences, FiniteSets, SequencesExt

CONSTANTS
  Threads,      \* the Ms
  Ps,
  POf,          \* [Threads -> Ps \cup {NoP}]: the P an M runs with
  NoP,
  NoOne,        \* the owner of a free lock
  ChunkWords,   \* persistentChunkSize
  MaxBlock,     \* maxBlock: blocks this large have a region of their own
  Requests,     \* {<<size, align>>}: what other callers of persistentalloc ask
  MspanWords,   \* unsafe.Sizeof(mspan{})
  SpansPerFix,  \* mspans in a block of fixalloc (nalloc / size)
  CacheLen,     \* len(mspancache.buf), 128
  FirstSpans,   \* first capacity of allspans, 64 KB / PtrSize
  MaxRegions,   \* bound: regions mmap gives
  MaxCalls      \* bound: calls of all operations

\* No two Ms run with the same P.
ASSUME POfAssumption ==
  /\ POf \in [Threads -> Ps \cup {NoP}] /\ NoP \notin Ps
  /\ \A t, u \in Threads : POf[t] = POf[u] => t = u \/ POf[t] = NoP
\* persistentalloc throws unless the size is positive and the alignment is a
\* power of two up to _PageSize (1024 words); a chunk is four times MaxBlock.
ASSUME SizesAssumption ==
  /\ ChunkWords \in Nat /\ MaxBlock \in Nat /\ MaxBlock < ChunkWords
  /\ Requests \subseteq Nat \X {1, 2, 4, 8, 16, 32, 64, 128, 256, 512, 1024}
  /\ \A r \in Requests : r[1] > 0 /\ MaxBlock + r[2] <= ChunkWords
  /\ MspanWords \in Nat /\ MspanWords > 0 /\ SpansPerFix \in Nat /\ SpansPerFix > 0
  /\ SpansPerFix * MspanWords < MaxBlock
  /\ CacheLen \in Nat /\ CacheLen >= 2
ASSUME NoOneAssumption == NoOne \notin Threads
ASSUME BoundsAssumption == MaxRegions \in Nat /\ MaxCalls \in Nat

VARIABLES
  locks,       \* [{"global", "heap"} -> Threads \cup {NoOne}]
  persistent,  \* the persistentAlloc of every P, and globalAlloc's under NoP
  head,        \* persistentChunks
  link,        \* the first word of every chunk
  mapped,      \* regions mmap has given: 1..mapped
  blocks,      \* the blocks persistentalloc has returned
  pc, call,    \* the step of every thread, and its persistentalloc1
  spanalloc,   \* the fixalloc of mspans: list, chunk, left (nchunk / size)
  allspans, spansCap,
  mspancache,  \* [Ps -> Seq(mspan)]
  refill,      \* mspans allocMSpanLocked still puts into the cache
  live,        \* mspans in the hands of callers
  calls, thrown

lockVars == <<locks, pc, calls, thrown>>
persistVars == <<persistent, head, link, mapped, blocks, call>>
spanVars == <<spanalloc, allspans, spansCap, mspancache, refill, live>>
metaVars == <<lockVars, persistVars, spanVars>>

nil == 0
PtrSize == 1
NoCall == [size |-> 0, align |-> 0, then |-> "idle", chunks |-> nil, p |-> <<nil, 0>>]

alignUp(n, a) == ((n + a - 1) \div a) * a

MetaInit ==
  /\ locks = [l \in {"global", "heap"} |-> NoOne]
  /\ persistent = [o \in Ps \cup {NoP} |-> [base |-> nil, off |-> 0]]
  /\ head = nil /\ link = <<>> /\ mapped = 0 /\ blocks = {}
  /\ pc = [t \in Threads |-> "idle"]
  /\ call = [t \in Threads |-> NoCall]
  /\ spanalloc = [list |-> <<>>, chunk |-> <<nil, 0>>, left |-> 0]
  /\ allspans = <<>> /\ spansCap = 0
  /\ mspancache = [p \in Ps |-> <<>>]
  /\ refill = [t \in Threads |-> 0]
  /\ live = {} /\ calls = 0 /\ thrown = "none"

----------------------------------------------------------------------------
(* Steps. *)

\* A throw stops every thread.
At(t, label) == thrown = "none" /\ pc[t] = label

Goto(t, label) == pc' = [pc EXCEPT ![t] = label]

\* Thread t, which runs nothing, calls an operation.
Call(t) == At(t, "idle") /\ calls < MaxCalls /\ calls' = calls + 1

lock(l, t) == locks[l] = NoOne /\ locks' = [locks EXCEPT ![l] = t]
unlock(l) == [locks EXCEPT ![l] = NoOne]

throw(s) == thrown' = s

\* Thread t goes on in persistentalloc1(size, align), and then at `then'.
persistentalloc(t, size, align, then) ==
  /\ call' = [call EXCEPT ![t] = [NoCall EXCEPT !.size = size, !.align = align, !.then = then]]
  /\ Goto(t, "persistent")

----------------------------------------------------------------------------
(* persistentalloc1. *)

Owner(t) == POf[t]

\* A P's persistentAlloc needs no lock, the global one does.
acquire(t) ==
  /\ At(t, "persistent") /\ call[t].size < MaxBlock
  /\ IF Owner(t) = NoP THEN lock("global", t) ELSE UNCHANGED locks
  /\ Goto(t, "carve")
  /\ UNCHANGED <<calls, thrown, persistVars, spanVars>>

\* Back to the caller, with the result p.
Return(t, p) ==
  /\ call' = [call EXCEPT ![t] = [NoCall EXCEPT !.p = p]]
  /\ Goto(t, call[t].then)

\* Mutant: the chunk's first word is not skipped.
Take_AtBase(t, base, off) ==
  LET c == call[t] IN
  LET o == IF off = alignUp(PtrSize, c.align) /\ base # nil THEN 0 ELSE off IN
  /\ persistent' = [persistent EXCEPT ![Owner(t)] = [base |-> base, off |-> o + c.size]]
  /\ blocks' = blocks \cup {[region |-> base, off |-> o, size |-> c.size, for |-> c.then]}
  /\ locks' = IF Owner(t) = NoP THEN unlock("global") ELSE locks
  /\ Return(t, <<base, off>>)

\* The block at off is the caller's.
Take(t, base, off) ==
  LET c == call[t] IN
  /\ persistent' = [persistent EXCEPT ![Owner(t)] = [base |-> base, off |-> off + c.size]]
  /\ blocks' = blocks \cup {[region |-> base, off |-> off, size |-> c.size, for |-> c.then]}
  /\ locks' = IF Owner(t) = NoP THEN unlock("global") ELSE locks
  /\ Return(t, <<base, off>>)

Aligned(t) == alignUp(persistent[Owner(t)].off, call[t].align)

Fits(t) ==
  /\ Aligned(t) + call[t].size <= ChunkWords
  /\ persistent[Owner(t)].base # nil

carve(t) ==
  /\ At(t, "carve") /\ Fits(t)
  /\ Take(t, persistent[Owner(t)].base, Aligned(t))
  /\ UNCHANGED <<calls, thrown, head, link, mapped, spanVars>>

\* A fresh chunk; the rest of the old one is lost.
newChunk(t) ==
  /\ At(t, "carve") /\ ~Fits(t)
  /\ mapped < MaxRegions
  /\ mapped' = mapped + 1
  /\ persistent' = [persistent EXCEPT ![Owner(t)] = [base |-> mapped + 1, off |-> Aligned(t)]]
  /\ link' = Append(link, nil)
  /\ Goto(t, "link")
  /\ UNCHANGED <<locks, calls, thrown, head, blocks, call, spanVars>>

\* mmap fails.
outOfMemory(t) ==
  /\ At(t, "carve") /\ ~Fits(t)
  /\ persistent' = [persistent EXCEPT ![Owner(t)] = [base |-> nil, off |-> Aligned(t)]]
  /\ locks' = IF Owner(t) = NoP THEN unlock("global") ELSE locks
  /\ throw("runtime: cannot allocate memory")
  /\ UNCHANGED <<pc, calls, head, link, mapped, blocks, call, spanVars>>

\* The loop that pushes the chunk: read the head into its first word, ...
linkChunk(t) ==
  /\ At(t, "link")
  /\ link' = [link EXCEPT ![persistent[Owner(t)].base] = head]
  /\ call' = [call EXCEPT ![t].chunks = head]
  /\ Goto(t, "cas")
  /\ UNCHANGED <<locks, calls, thrown, persistent, head, mapped, blocks, spanVars>>

\* Mutant: the head is stored without looking whether it has moved.
Casuintptr_Store(t) == TRUE

Casuintptr(t) == head = call[t].chunks

\* ... and swap the head if it is still that one, or try again.
casChunk(t) ==
  /\ At(t, "cas")
  /\ \/ /\ Casuintptr(t)
        /\ head' = persistent[Owner(t)].base
        /\ Take(t, persistent[Owner(t)].base, alignUp(PtrSize, call[t].align))
     \/ /\ ~Casuintptr(t)
        /\ Goto(t, "link")
        /\ UNCHANGED <<locks, persistent, head, blocks, call>>
  /\ UNCHANGED <<calls, thrown, link, mapped, spanVars>>

\* A large block has a region of its own, which is not in persistentChunks.
largeBlock(t) ==
  /\ At(t, "persistent") /\ call[t].size >= MaxBlock
  /\ mapped < MaxRegions
  /\ mapped' = mapped + 1
  /\ link' = Append(link, nil)
  /\ blocks' = blocks \cup
       {[region |-> mapped + 1, off |-> 0, size |-> call[t].size, for |-> "large"]}
  /\ Return(t, <<mapped + 1, 0>>)
  /\ UNCHANGED <<locks, calls, thrown, persistent, head, spanVars>>

\* mmap has no large block: nil, for which mheap.sysAlloc throws.
noLargeBlock(t) ==
  /\ At(t, "persistent") /\ call[t].size >= MaxBlock
  /\ IF call[t].then = "arena"
     THEN throw("out of memory allocating heap arena metadata") /\ UNCHANGED <<pc, call>>
     ELSE Return(t, <<nil, 0>>) /\ UNCHANGED thrown
  /\ UNCHANGED <<locks, calls, persistent, head, link, mapped, blocks, spanVars>>

persistentSteps(t) ==
  \/ acquire(t) \/ carve(t) \/ newChunk(t) \/ outOfMemory(t) \/ linkChunk(t) \/ casChunk(t)
  \/ largeBlock(t) \/ noLargeBlock(t)

\* Some part of the runtime asks for memory that is never freed.
otherCaller(t) ==
  \E r \in Requests :
    /\ Call(t)
    /\ persistentalloc(t, r[1], r[2], "idle")
    /\ UNCHANGED <<locks, thrown, persistent, head, link, mapped, blocks, spanVars>>

----------------------------------------------------------------------------
(* fixalloc and the mspan caches.  h.lock is held, except in tryAllocMSpan.  *)

\* Where allocMSpanLocked puts mspan s: into the cache it refills, or, when
\* there is no P, into the caller's hands.
Deliver(t, s) ==
  IF Owner(t) = NoP
  THEN /\ live' = live \cup {s}
       /\ locks' = unlock("heap") /\ Goto(t, "idle")
       /\ UNCHANGED <<mspancache, refill>>
  ELSE /\ mspancache' = [mspancache EXCEPT ![Owner(t)] = Append(@, s)]
       /\ refill' = [refill EXCEPT ![t] = @ - 1]
       /\ Goto(t, IF refill[t] = 1 THEN "pull" ELSE "fixalloc")
       /\ UNCHANGED <<live, locks>>

\* Mutant: the recycled mspan stays on the list.
fixallocReuse_Kept(t) ==
  /\ At(t, "fixalloc") /\ spanalloc.list # <<>>
  /\ spanalloc' = [spanalloc EXCEPT !.list = SubSeq(@, 1, 1)]
  /\ Deliver(t, Head(spanalloc.list))
  /\ UNCHANGED <<calls, thrown, persistVars, allspans, spansCap>>

\* alloc, from the list of freed objects.
fixallocReuse(t) ==
  /\ At(t, "fixalloc") /\ spanalloc.list # <<>>
  /\ spanalloc' = [spanalloc EXCEPT !.list = Tail(@)]
  /\ Deliver(t, Head(spanalloc.list))
  /\ UNCHANGED <<calls, thrown, persistVars, allspans, spansCap>>

\* alloc, when the current block is used up: ask persistentalloc for another.
fixallocRefill(t) ==
  /\ At(t, "fixalloc") /\ spanalloc.list = <<>> /\ spanalloc.left = 0
  /\ persistentalloc(t, SpansPerFix * MspanWords, 1, "fixchunk")
  /\ UNCHANGED <<locks, calls, thrown, persistent, head, link, mapped, blocks, spanVars>>

fixallocChunk(t) ==
  /\ At(t, "fixchunk")
  /\ spanalloc' = [spanalloc EXCEPT !.chunk = call[t].p, !.left = SpansPerFix]
  /\ Goto(t, "fixalloc")
  /\ UNCHANGED <<locks, calls, thrown, persistVars, allspans, spansCap, mspancache, refill, live>>

\* recordspan: the first call of alloc for an mspan.
recordspan(s) ==
  /\ spansCap' = IF Len(allspans) < spansCap THEN spansCap
                 ELSE IF FirstSpans < (spansCap * 3) \div 2
                 THEN (spansCap * 3) \div 2 ELSE FirstSpans
  /\ allspans' = Append(allspans, s)

\* alloc, off the current block.  An mspan is named by where it lies.
fixallocCarve(t) ==
  /\ At(t, "fixalloc") /\ spanalloc.list = <<>> /\ spanalloc.left > 0
  /\ LET s == <<spanalloc.chunk[1], spanalloc.chunk[2]>> IN
     /\ recordspan(s)
     /\ spanalloc' = [spanalloc EXCEPT !.chunk = <<s[1], s[2] + MspanWords>>,
                                       !.left = @ - 1]
     /\ Deliver(t, s)
  /\ UNCHANGED <<calls, thrown, persistVars>>

\* The array of allspans is full and mmap has no memory for a larger one.
recordspanFails(t) ==
  /\ At(t, "fixalloc") /\ spanalloc.list = <<>> /\ spanalloc.left > 0
  /\ Len(allspans) >= spansCap
  /\ throw("runtime: cannot allocate memory")
  /\ UNCHANGED <<locks, pc, calls, persistVars, spanVars>>

allocMSpanLocked(t) ==
  /\ Call(t) /\ lock("heap", t)
  /\ LET cached == Owner(t) # NoP /\ mspancache[Owner(t)] # <<>> IN
     /\ Goto(t, IF cached THEN "pull" ELSE "fixalloc")
     /\ refill' = [refill EXCEPT ![t] =
                     IF Owner(t) = NoP \/ cached THEN 0 ELSE CacheLen \div 2]
  /\ UNCHANGED <<thrown, persistVars, spanalloc, allspans, spansCap, mspancache, live>>

\* The end of allocMSpanLocked: pull off the last entry of the cache.
pullCached(t) ==
  /\ At(t, "pull")
  /\ live' = live \cup {Last(mspancache[Owner(t)])}
  /\ mspancache' = [mspancache EXCEPT ![Owner(t)] = Front(@)]
  /\ locks' = unlock("heap") /\ Goto(t, "idle")
  /\ UNCHANGED <<calls, thrown, persistVars, spanalloc, allspans, spansCap, refill>>

\* Without the lock; nil when the thread has no P or its cache is empty.
tryAllocMSpan(t) ==
  /\ Call(t)
  /\ IF Owner(t) = NoP \/ mspancache[Owner(t)] = <<>>
     THEN UNCHANGED <<live, mspancache>>
     ELSE /\ live' = live \cup {Last(mspancache[Owner(t)])}
          /\ mspancache' = [mspancache EXCEPT ![Owner(t)] = Front(@)]
  /\ UNCHANGED <<locks, pc, thrown, persistVars, spanalloc, allspans, spansCap, refill>>

\* h.lock is taken and released around the call.
freeMSpanLocked(t) ==
  \E s \in live :
    /\ Call(t) /\ locks["heap"] = NoOne
    /\ live' = live \ {s}
    /\ IF Owner(t) # NoP /\ Len(mspancache[Owner(t)]) < CacheLen
       THEN /\ mspancache' = [mspancache EXCEPT ![Owner(t)] = Append(@, s)]
            /\ UNCHANGED spanalloc
       ELSE /\ spanalloc' = [spanalloc EXCEPT !.list = <<s>> \o @]
            /\ UNCHANGED mspancache
    /\ UNCHANGED <<locks, pc, thrown, persistVars, allspans, spansCap, refill>>

spanSteps(t) ==
  \/ allocMSpanLocked(t) \/ tryAllocMSpan(t) \/ freeMSpanLocked(t)
  \/ fixallocReuse(t) \/ fixallocRefill(t) \/ fixallocChunk(t)
  \/ fixallocCarve(t) \/ recordspanFails(t) \/ pullCached(t)

MetaStep(t) == otherCaller(t) \/ persistentSteps(t) \/ spanSteps(t)

----------------------------------------------------------------------------
(* Properties. *)

\* No two blocks of persistentalloc overlap, whatever mix of threads with and
\* without a P asked for them, and none reaches over the end of its chunk or
\* over the word that links the chunk (malloc.go, persistentalloc1).
MetadataDisjoint ==
  /\ \A b, c \in blocks : (b # c /\ b.region = c.region)
       => (b.off + b.size <= c.off \/ c.off + c.size <= b.off)
  /\ \A b \in blocks : b.for # "large" =>
       b.off >= PtrSize /\ b.off + b.size <= ChunkWords

\* The n-th chunk of persistentChunks, along the first words; nil past the end.
Walk ==
  LET at[n \in 0..mapped] ==
        IF n = 0 THEN head
        ELSE IF at[n - 1] = nil THEN nil ELSE link[at[n - 1]]
  IN at

\* Chunks whose push has not succeeded yet.
Pushing == {persistent[Owner(t)].base : t \in {u \in Threads : pc[u] \in {"link", "cas"}}}

\* persistentChunks holds every chunk but the ones that are being pushed: a
\* push that loses the race with another neither drops a chunk nor links one
\* twice (malloc.go, the loop around Casuintptr).
ChunksLinked ==
  /\ Walk[mapped] = nil
  /\ {Walk[n] : n \in 0..mapped} \ {nil}
       = 1..mapped \ (Pushing \cup {b.region : b \in {c \in blocks : c.for = "large"}})

\* Every mspan is recorded in allspans exactly once, and is in exactly one
\* place: a caller's hands, the cache of one P or the list of freed ones, in
\* spite of caches that are read without the lock (mheap.go, recordspan,
\* tryAllocMSpan, allocMSpanLocked, freeMSpanLocked; mfixalloc.go).
SpanOnePlace ==
  LET Count(s, seq) == Cardinality({i \in DOMAIN seq : seq[i] = s})
      Places(s) == Count(s, spanalloc.list) + Cardinality(live \cap {s})
                     + Cardinality({e \in Ps \X (1..CacheLen) :
                          e[2] <= Len(mspancache[e[1]]) /\ mspancache[e[1]][e[2]] = s})
      Known == live \cup ToSet(spanalloc.list)
                 \cup UNION {ToSet(mspancache[p]) : p \in Ps}
  IN /\ \A i, j \in DOMAIN allspans : allspans[i] = allspans[j] => i = j
     /\ ToSet(allspans) = Known
     /\ \A s \in Known : Places(s) = 1
=============================================================================
