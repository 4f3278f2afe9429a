----------------------------- MODULE HeapProofs -----------------------------
(***************************************************************************)
(* Proofs about the heap (Heap) and the allocators of the runtime's own    *)
(* data under it (Metadata), for any threads, processors, kernel, hints    *)
(* and sizes of blocks and arenas.                                         *)
(*                                                                         *)
(* First the allocators.  Their invariant holds as long as nothing was     *)
(* thrown: a throw stops every thread, possibly with a lock released       *)
(* early.  It has two parts, what the threads may do (ThreadsInv: locks,   *)
(* arguments of persistentalloc) and what the memory looks like            *)
(* (MemoryInv: chunks and blocks).  On top of it come where the mspans are *)
(* (SpanInv) and that a list goes through all chunks that are not being    *)
(* pushed (ChainInv).                                                      *)
(*                                                                         *)
(* Then the address space: where arenas lie and what is reserved and       *)
(* prepared.                                                               *)
(***************************************************************************)
EXTENDS Heap, FiniteSetTheorems, TLAPS

\* Where a thread can be; inside persistentalloc1; with a persistentAlloc in
\* hand; with a chunk that is not in persistentChunks yet.
Linking == {"link", "cas"}
Carving == {"carve"} \cup Linking
Persisting == {"persistent"} \cup Carving
UnderHeapLock == {"fixalloc", "fixchunk", "pull", "hint", "arenas", "arena", "nomemory"}
Labels == {"idle"} \cup Persisting \cup UnderHeapLock

Owners == Ps \cup {NoP}
LockNames == {"global", "heap"}
Alignments == {1, 2, 4, 8, 16, 32, 64, 128, 256, 512, 1024}
Thens == {"idle", "fixchunk", "arena"}
Calls == [size : Nat, align : Nat, then : Thens, chunks : Nat, p : Nat \X Nat]
Blocks == [region : Nat, off : Nat, size : Nat, for : Thens \cup {"large"}]

\* The arguments persistentalloc1 runs with at label l.
CallOK(c, l) ==
  l \in Persisting =>
    /\ c.size > 0 /\ c.align > 0 /\ MaxBlock + c.align <= ChunkWords
    /\ l \in Carving => c.size < MaxBlock
    /\ c.then = "fixchunk" => c.size = SpansPerFix * MspanWords

\* A thread at label l with the call c runs under h.lock.
NeedsHeap(c, l) == l \in UnderHeapLock \/ (l \in Persisting /\ c.then # "idle")

\* Of two threads with the same persistentAlloc, one is between acquire and
\* Take: no two have a P in common, and the global one has a lock.
ThreadsInv ==
  /\ locks \in [LockNames -> Threads \cup {NoOne}]
  /\ pc \in [Threads -> Labels]
  /\ call \in [Threads -> Calls]
  /\ \A t \in Threads :
       /\ CallOK(call[t], pc[t])
       /\ NeedsHeap(call[t], pc[t]) => locks["heap"] = t
       /\ (Owner(t) = NoP /\ pc[t] \in Carving) => locks["global"] = t

\* Types of the memory.
MemoryTypes ==
  /\ persistent \in [Owners -> [base : Nat, off : Nat]]
  /\ mapped \in Nat
  /\ blocks \subseteq Blocks

\* A chunk belongs to one persistentAlloc, and lies in a region mmap gave.
OwnChunks ==
  \A o \in Owners :
    /\ persistent[o].base <= mapped
    /\ \A q \in Owners : persistent[q].base = persistent[o].base /\ persistent[o].base # nil => q = o

\* A block lies in a region mmap gave; those of the current chunk of a
\* persistentAlloc lie below its offset.
BlocksBelow ==
  \A b \in blocks :
    /\ b.region > 0 /\ b.region <= mapped /\ b.size > 0
    /\ \A o \in Owners : persistent[o].base = b.region
         => b.for # "large" /\ b.off + b.size <= persistent[o].off

\* A chunk that is being pushed has no block yet.
FreshChunks ==
  \A t \in Threads : pc[t] \in Linking =>
    /\ persistent[Owner(t)].base # nil
    /\ \A b \in blocks : b.region # persistent[Owner(t)].base

\* The offset into a chunk is past its first word, once it is pushed.
FirstWordKept ==
  \A o \in Owners : persistent[o].base # nil =>
    persistent[o].off >= PtrSize \/ \E t \in Threads : Owner(t) = o /\ pc[t] \in Linking

MemoryInv == MemoryTypes /\ OwnChunks /\ BlocksBelow /\ FreshChunks /\ FirstWordKept

MetaInv == MetadataDisjoint /\ (thrown = "none" => ThreadsInv /\ MemoryInv)
-----------------------------------------------------------------------------
(***************************************************************************)
(* Facts about the operators.                                              *)
(***************************************************************************)
\* Rounding up: not below, and a word is rounded up to the alignment itself.
LEMMA AlignUpFacts ==
  ASSUME NEW n \in Nat, NEW a \in Nat, a > 0
  PROVE  alignUp(n, a) \in Nat /\ alignUp(n, a) >= n /\ alignUp(1, a) = a
<1> DEFINE q == (n + a - 1) \div a
<1> DEFINE r == (n + a - 1) % a
<1>1. q \in Nat /\ r \in Nat /\ r < a /\ n + a - 1 = a * q + r
  OBVIOUS
<1>2. alignUp(n, a) = q * a
  BY DEF alignUp
<1>3. q * a = a * q /\ a * q \in Nat
  BY <1>1
<1> HIDE DEF q, r
<1> DEFINE x == a * q
<1>4. x \in Nat /\ n + a - 1 = x + r /\ alignUp(n, a) = x
  BY <1>1, <1>2, <1>3
<1> HIDE DEF x
<1>5. x >= n
  BY <1>1, <1>4
<1>6. alignUp(1, a) = a
  <2>1. (1 + a - 1) \div a = 1
    <3>1. 1 + a - 1 = a
      OBVIOUS
    <3>2. a \div a = 1
      OBVIOUS
    <3> QED
      BY <3>1, <3>2
  <2> QED
    BY <2>1 DEF alignUp
<1> QED
  BY <1>4, <1>5, <1>6

\* Every thread has a persistentAlloc.
LEMMA OwnerType == \A t \in Threads : Owner(t) \in Owners
BY POfAssumption DEF Owner, Owners

\* Two threads with a persistentAlloc in hand have different ones.
LEMMA OneUser ==
  ASSUME ThreadsInv, NEW t \in Threads, NEW u \in Threads, Owner(t) = Owner(u),
         pc[t] \in Carving, pc[u] \in Carving
  PROVE  t = u
BY POfAssumption, NoOneAssumption DEF ThreadsInv, Owner

\* Taking a lock takes nothing from the others.
LEMMA LockTaken ==
  ASSUME NEW t \in Threads, NEW k \in LockNames, lock(k, t),
         locks \in [LockNames -> Threads \cup {NoOne}]
  PROVE  /\ locks' \in [LockNames -> Threads \cup {NoOne}] /\ locks'[k] = t
         /\ \A j \in LockNames : j # k => locks'[j] = locks[j]
         /\ \A u \in Threads, j \in LockNames : u # t /\ locks[j] = u => locks'[j] = u
BY NoOneAssumption DEF lock

\* Nor does releasing one's own.
LEMMA LockFreed ==
  ASSUME NEW t \in Threads, NEW k \in LockNames, locks[k] = t, locks' = unlock(k),
         locks \in [LockNames -> Threads \cup {NoOne}]
  PROVE  /\ locks' \in [LockNames -> Threads \cup {NoOne}]
         /\ \A j \in LockNames : j # k => locks'[j] = locks[j]
         /\ \A u \in Threads, j \in LockNames : u # t /\ locks[j] = u => locks'[j] = u
BY NoOneAssumption DEF unlock

\* A step of t to label l with call c: what is left to show is about t alone.
LEMMA ThreadStep ==
  ASSUME ThreadsInv, NEW t \in Threads, NEW l \in Labels, NEW c \in Calls,
         pc' = [pc EXCEPT ![t] = l], call' = [call EXCEPT ![t] = c],
         locks' \in [LockNames -> Threads \cup {NoOne}],
         \A u \in Threads, k \in LockNames : u # t /\ locks[k] = u => locks'[k] = u,
         CallOK(c, l), NeedsHeap(c, l) => locks'["heap"] = t,
         (Owner(t) = NoP /\ l \in Carving) => locks'["global"] = t
  PROVE  ThreadsInv'
<1>1. pc' \in [Threads -> Labels] /\ call' \in [Threads -> Calls]
  BY DEF ThreadsInv
<1>2. pc'[t] = l /\ call'[t] = c
  BY DEF ThreadsInv
<1>3. \A u \in Threads : u # t => pc'[u] = pc[u] /\ call'[u] = call[u]
  BY DEF ThreadsInv
<1>4. ASSUME NEW u \in Threads
      PROVE  /\ CallOK(call'[u], pc'[u])
             /\ NeedsHeap(call'[u], pc'[u]) => locks'["heap"] = u
             /\ (Owner(u) = NoP /\ pc'[u] \in Carving) => locks'["global"] = u
  <2>1. CASE u = t
    BY <1>2, <2>1
  <2>2. CASE u # t
    <3>1. pc'[u] = pc[u] /\ call'[u] = call[u]
      BY <1>3, <2>2
    <3>2. "heap" \in LockNames /\ "global" \in LockNames
      BY DEF LockNames
    <3> QED
      BY <2>2, <3>1, <3>2 DEF ThreadsInv
  <2> QED
    BY <2>1, <2>2
<1> QED
  BY <1>1, <1>4 DEF ThreadsInv, Owner

-----------------------------------------------------------------------------
(***************************************************************************)
(* What the threads may do: one lemma for each way an action moves one.    *)
(***************************************************************************)
\* What is left of a call after it has returned.
LEMMA ResultRecord ==
  ASSUME NEW p \in Nat \X Nat
  PROVE  /\ [NoCall EXCEPT !.p = p] \in Calls
         /\ [NoCall EXCEPT !.p = p].p = p
         /\ [NoCall EXCEPT !.p = p].then = "idle"
BY DEF NoCall, Calls, nil, Thens

\* A thread calls persistentalloc.
LEMMA ThreadAsks ==
  ASSUME ThreadsInv, NEW t \in Threads, NEW size \in Nat, NEW align \in Nat, NEW then \in Thens,
         persistentalloc(t, size, align, then), UNCHANGED locks,
         size > 0, align > 0, MaxBlock + align <= ChunkWords,
         then = "fixchunk" => size = SpansPerFix * MspanWords,
         then # "idle" => locks["heap"] = t
  PROVE  ThreadsInv'
<1> DEFINE c == [NoCall EXCEPT !.size = size, !.align = align, !.then = then]
<1>1. <<nil, 0>> \in Nat \X Nat
  BY DEF nil
<1>2. c \in Calls /\ c.size = size /\ c.align = align /\ c.then = then
  BY <1>1 DEF NoCall, Calls, nil
<1>3. call' = [call EXCEPT ![t] = c] /\ pc' = [pc EXCEPT ![t] = "persistent"]
  BY DEF persistentalloc, Goto
<1> HIDE DEF c
<1>4. /\ "persistent" \in Labels /\ "persistent" \in Persisting
      /\ "persistent" \notin Carving /\ "persistent" \notin UnderHeapLock
  BY DEF Labels, Persisting, Carving, Linking, UnderHeapLock
<1>5. CallOK(c, "persistent")
  BY <1>2, <1>4 DEF CallOK
<1>6. NeedsHeap(c, "persistent") => locks'["heap"] = t
  BY <1>2, <1>4 DEF NeedsHeap
<1>7. /\ locks' \in [LockNames -> Threads \cup {NoOne}]
      /\ \A u \in Threads, k \in LockNames : u # t /\ locks[k] = u => locks'[k] = u
  BY DEF ThreadsInv
<1> QED
  BY <1>2, <1>3, <1>4, <1>5, <1>6, <1>7, ThreadStep

\* The call of a thread stays as it is.
LEMMA SameCall ==
  ASSUME ThreadsInv, NEW t \in Threads, UNCHANGED call
  PROVE  call' = [call EXCEPT ![t] = call[t]] /\ call[t] \in Calls
BY DEF ThreadsInv

\* A thread outside persistentalloc moves on, without a change of locks.
LEMMA ThreadMoves ==
  ASSUME ThreadsInv, NEW t \in Threads, NEW l \in Labels \ Persisting, Goto(t, l),
         UNCHANGED <<locks, call>>, l \in UnderHeapLock => locks["heap"] = t
  PROVE  ThreadsInv'
<1>1. call' = [call EXCEPT ![t] = call[t]] /\ call[t] \in Calls /\ pc' = [pc EXCEPT ![t] = l]
  BY SameCall DEF Goto
<1>2. CallOK(call[t], l) /\ (NeedsHeap(call[t], l) => locks'["heap"] = t) /\ l \notin Carving
  BY DEF CallOK, NeedsHeap, Persisting
<1>3. /\ locks' \in [LockNames -> Threads \cup {NoOne}]
      /\ \A u \in Threads, k \in LockNames : u # t /\ locks[k] = u => locks'[k] = u
  BY DEF ThreadsInv
<1> QED
  BY <1>1, <1>2, <1>3, ThreadStep

\* A thread takes h.lock.
LEMMA ThreadLocks ==
  ASSUME ThreadsInv, NEW t \in Threads, NEW l \in UnderHeapLock, Goto(t, l), lock("heap", t),
         UNCHANGED call
  PROVE  ThreadsInv'
<1>1. call' = [call EXCEPT ![t] = call[t]] /\ call[t] \in Calls /\ pc' = [pc EXCEPT ![t] = l]
  BY SameCall DEF Goto
<1>2. l \in Labels /\ l \notin Persisting /\ l \notin Carving /\ "heap" \in LockNames
  BY DEF UnderHeapLock, Labels, Persisting, Carving, Linking, LockNames
<1>3. CallOK(call[t], l)
  BY <1>2 DEF CallOK
<1>4. /\ locks' \in [LockNames -> Threads \cup {NoOne}] /\ locks'["heap"] = t
      /\ \A u \in Threads, k \in LockNames : u # t /\ locks[k] = u => locks'[k] = u
  BY <1>2, LockTaken DEF ThreadsInv
<1> QED
  BY <1>1, <1>2, <1>3, <1>4, ThreadStep

\* A thread releases h.lock and is done.
LEMMA ThreadUnlocks ==
  ASSUME ThreadsInv, NEW t \in Threads, Goto(t, "idle"), locks["heap"] = t,
         locks' = unlock("heap"), UNCHANGED call
  PROVE  ThreadsInv'
<1>1. call' = [call EXCEPT ![t] = call[t]] /\ call[t] \in Calls /\ pc' = [pc EXCEPT ![t] = "idle"]
  BY SameCall DEF Goto
<1>2. /\ "idle" \in Labels /\ "idle" \notin Persisting /\ "idle" \notin Carving
      /\ "idle" \notin UnderHeapLock /\ "heap" \in LockNames
  BY DEF UnderHeapLock, Labels, Persisting, Carving, Linking, LockNames
<1>3. CallOK(call[t], "idle") /\ ~ NeedsHeap(call[t], "idle")
  BY <1>2 DEF CallOK, NeedsHeap
<1>4. /\ locks' \in [LockNames -> Threads \cup {NoOne}]
      /\ \A u \in Threads, k \in LockNames : u # t /\ locks[k] = u => locks'[k] = u
  BY <1>2, LockFreed DEF ThreadsInv
<1> QED
  BY <1>1, <1>2, <1>3, <1>4, ThreadStep

\* persistentalloc1 returns, having released its lock if it had one.
LEMMA ThreadReturns ==
  ASSUME ThreadsInv, NEW t \in Threads, NEW p \in Nat \X Nat, pc[t] \in Persisting, Return(t, p),
         \/ UNCHANGED locks
         \/ pc[t] \in Carving /\ Owner(t) = NoP /\ locks' = unlock("global")
  PROVE  ThreadsInv'
<1> DEFINE l == call[t].then
<1> DEFINE c == [NoCall EXCEPT !.p = p]
<1>1. c \in Calls /\ c.then = "idle"
  BY ResultRecord
<1>2. call' = [call EXCEPT ![t] = c] /\ pc' = [pc EXCEPT ![t] = l]
  BY DEF Return, Goto
<1>3. l \in Thens
  BY DEF ThreadsInv, Calls
<1> HIDE DEF c, l
<1>4. l \in Labels /\ l \notin Persisting /\ l \notin Carving /\ (l # "idle" => l \in UnderHeapLock)
  BY <1>3 DEF Thens, Labels, Persisting, Carving, Linking, UnderHeapLock
<1>5. CallOK(c, l)
  BY <1>4 DEF CallOK
<1>6. l # "idle" => locks["heap"] = t
  BY DEF ThreadsInv, NeedsHeap, l
<1>7. NeedsHeap(c, l) => l # "idle"
  BY <1>4 DEF NeedsHeap, UnderHeapLock
<1>8. /\ locks' \in [LockNames -> Threads \cup {NoOne}] /\ locks'["heap"] = locks["heap"]
      /\ \A u \in Threads, k \in LockNames : u # t /\ locks[k] = u => locks'[k] = u
  <2>1. CASE UNCHANGED locks
    BY <2>1 DEF ThreadsInv
  <2>2. CASE pc[t] \in Carving /\ Owner(t) = NoP /\ locks' = unlock("global")
    <3>1. locks["global"] = t /\ "global" \in LockNames /\ "heap" \in LockNames
      BY <2>2 DEF ThreadsInv, LockNames
    <3> QED
      BY <2>2, <3>1, LockFreed DEF ThreadsInv
  <2> QED
    BY <2>1, <2>2
<1> QED
  BY <1>1, <1>2, <1>4, <1>5, <1>6, <1>7, <1>8, ThreadStep

\* persistentalloc1 goes from one step to the next.
LEMMA ThreadCarves ==
  ASSUME ThreadsInv, NEW t \in Threads, NEW l \in Carving, Goto(t, l), pc[t] \in Persisting,
         call[t].size < MaxBlock, NEW n \in Nat,
         call' = call \/ call' = [call EXCEPT ![t].chunks = n],
         \/ pc[t] \in Carving /\ UNCHANGED locks
         \/ pc[t] = "persistent" /\ Owner(t) = NoP /\ lock("global", t)
         \/ pc[t] = "persistent" /\ Owner(t) # NoP /\ UNCHANGED locks
  PROVE  ThreadsInv'
<1>1. PICK c \in Calls : /\ call' = [call EXCEPT ![t] = c]
                         /\ c.size = call[t].size /\ c.align = call[t].align /\ c.then = call[t].then
  <2>1. call[t] \in Calls
    BY DEF ThreadsInv
  <2>2. CASE call' = call
    BY <2>1, <2>2, SameCall
  <2>3. CASE call' = [call EXCEPT ![t].chunks = n]
    <3> DEFINE c == [call[t] EXCEPT !.chunks = n]
    <3>1. call' = [call EXCEPT ![t] = c]
      BY <2>3
    <3>2. c \in Calls /\ c.size = call[t].size /\ c.align = call[t].align /\ c.then = call[t].then
      BY <2>1 DEF Calls
    <3> HIDE DEF c
    <3> QED
      BY <3>1, <3>2
  <2> QED
    BY <2>2, <2>3
<1>2. l \in Labels /\ l \in Persisting /\ l \notin UnderHeapLock /\ pc' = [pc EXCEPT ![t] = l]
  BY DEF Labels, Persisting, Carving, Linking, UnderHeapLock, Goto
<1>3. CallOK(c, l)
  BY <1>1, <1>2 DEF CallOK, ThreadsInv
<1>4. /\ locks' \in [LockNames -> Threads \cup {NoOne}] /\ locks'["heap"] = locks["heap"]
      /\ \A u \in Threads, k \in LockNames : u # t /\ locks[k] = u => locks'[k] = u
      /\ Owner(t) = NoP => locks'["global"] = t
  <2>1. CASE UNCHANGED locks /\ (pc[t] \in Carving \/ Owner(t) # NoP)
    BY <2>1 DEF ThreadsInv
  <2>2. CASE lock("global", t)
    <3>1. "global" \in LockNames /\ "heap" \in LockNames
      BY DEF LockNames
    <3> QED
      BY <2>2, <3>1, LockTaken DEF ThreadsInv
  <2> QED
    BY <2>1, <2>2
<1>5. NeedsHeap(c, l) => locks'["heap"] = t
  <2>1. NeedsHeap(c, l) => NeedsHeap(call[t], pc[t])
    BY <1>1, <1>2 DEF NeedsHeap
  <2> QED
    BY <1>4, <2>1 DEF ThreadsInv
<1> QED
  BY <1>1, <1>2, <1>3, <1>4, <1>5, ThreadStep

-----------------------------------------------------------------------------
(***************************************************************************)
(* What the memory looks like: chunks mapped, blocks cut off.              *)
(***************************************************************************)
\* Nothing is mapped or cut off, and no push starts or ends.
LEMMA MemoryKept ==
  ASSUME MemoryInv, NEW t \in Threads, NEW l, pc' = [pc EXCEPT ![t] = l],
         pc \in [Threads -> Labels], pc[t] \in Linking <=> l \in Linking,
         UNCHANGED <<persistent, mapped, blocks>>
  PROVE  MemoryInv'
<1>1. \A u \in Threads : pc'[u] \in Linking <=> pc[u] \in Linking
  OBVIOUS
<1>2. MemoryTypes' /\ OwnChunks' /\ BlocksBelow'
  BY DEF MemoryInv, MemoryTypes, OwnChunks, BlocksBelow
<1>3. FreshChunks' /\ FirstWordKept'
  BY <1>1 DEF MemoryInv, FreshChunks, FirstWordKept, Owner
<1> QED
  BY <1>2, <1>3 DEF MemoryInv

\* A new chunk: its region is new, and no block is in it.
LEMMA MemoryNewChunk ==
  ASSUME ThreadsInv, MemoryInv, NEW t \in Threads, newChunk(t)
  PROVE  MemoryInv'
<1> DEFINE o == Owner(t)
<1>1. /\ pc[t] = "carve" /\ pc' = [pc EXCEPT ![t] = "link"] /\ mapped' = mapped + 1
      /\ persistent' = [persistent EXCEPT ![o] = [base |-> mapped + 1, off |-> Aligned(t)]]
      /\ blocks' = blocks
  BY DEF newChunk, At, Goto
<1>2. o \in Owners /\ mapped \in Nat
  BY OwnerType DEF MemoryInv, MemoryTypes
<1>3. Aligned(t) \in Nat
  <2>1. persistent[o].off \in Nat /\ call[t].align \in Nat /\ call[t].align > 0
    BY <1>1, <1>2 DEF MemoryInv, MemoryTypes, ThreadsInv, CallOK, Calls, Persisting, Carving
  <2> QED
    BY <2>1, AlignUpFacts DEF Aligned
<1>4. /\ persistent'[o].base = mapped + 1 /\ persistent'[o].off \in Nat
      /\ \A q \in Owners : q # o => persistent'[q] = persistent[q]
  BY <1>1, <1>2, <1>3 DEF MemoryInv, MemoryTypes
<1>5. \A u \in Threads : u # t => pc'[u] = pc[u]
  BY <1>1 DEF ThreadsInv
<1>6. pc'[t] = "link"
  BY <1>1 DEF ThreadsInv
<1>7. \A u \in Threads : u # t /\ pc[u] \in Linking => Owner(u) # o
  BY <1>1, OneUser DEF Carving
<1> HIDE DEF o
<1>8. MemoryTypes'
  BY <1>1, <1>2, <1>3 DEF MemoryInv, MemoryTypes
<1>9. \A q \in Owners : persistent[q].base \in Nat /\ persistent[q].base <= mapped
  BY DEF MemoryInv, MemoryTypes, OwnChunks
<1>10. OwnChunks'
  BY <1>1, <1>2, <1>4, <1>9 DEF MemoryInv, OwnChunks
<1>11. \A b \in blocks : b.region \in Nat /\ b.region <= mapped
  BY DEF MemoryInv, MemoryTypes, BlocksBelow, Blocks
<1>12. BlocksBelow'
  <2> SUFFICES ASSUME NEW b \in blocks
               PROVE  /\ b.region > 0 /\ b.region <= mapped + 1 /\ b.size > 0
                      /\ \A q \in Owners : persistent'[q].base = b.region
                           => b.for # "large" /\ b.off + b.size <= persistent'[q].off
    BY <1>1 DEF BlocksBelow
  <2>1. b.region # mapped + 1 /\ b.region <= mapped + 1
    BY <1>2, <1>11
  <2> QED
    BY <1>4, <2>1 DEF MemoryInv, BlocksBelow
<1>13. FreshChunks'
  <2> SUFFICES ASSUME NEW u \in Threads, pc'[u] \in Linking
               PROVE  /\ persistent'[Owner(u)].base # nil
                      /\ \A b \in blocks : b.region # persistent'[Owner(u)].base
    BY <1>1 DEF FreshChunks, Owner
  <2>1. CASE u = t
    BY <1>2, <1>4, <1>11, <2>1 DEF nil, o
  <2>2. CASE u # t
    <3>1. persistent'[Owner(u)] = persistent[Owner(u)] /\ pc[u] \in Linking
      BY <1>4, <1>5, <1>7, <2>2, OwnerType
    <3> QED
      BY <3>1 DEF MemoryInv, FreshChunks
  <2> QED
    BY <2>1, <2>2
<1>14. FirstWordKept'
  <2> SUFFICES ASSUME NEW q \in Owners, persistent'[q].base # nil
               PROVE  persistent'[q].off >= PtrSize \/ \E u \in Threads : Owner(u) = q /\ pc'[u] \in Linking
    BY DEF FirstWordKept, Owner
  <2>1. CASE q = o
    BY <1>6, <2>1 DEF o, Linking
  <2>2. CASE q # o
    <3>1. persistent'[q] = persistent[q]
      BY <1>4, <2>2
    <3>2. persistent[q].off >= PtrSize \/ \E u \in Threads : Owner(u) = q /\ pc[u] \in Linking
      BY <3>1 DEF MemoryInv, FirstWordKept
    <3>3. ASSUME NEW u \in Threads, Owner(u) = q PROVE u # t
      BY <2>2, <3>3 DEF o
    <3> QED
      BY <1>5, <3>1, <3>2, <3>3
  <2> QED
    BY <2>1, <2>2
<1> QED
  BY <1>8, <1>10, <1>12, <1>13, <1>14 DEF MemoryInv

\* A block is cut off the chunk of t, above every other block of it.
LEMMA MemoryTake ==
  ASSUME ThreadsInv, MemoryInv, MetadataDisjoint, NEW t \in Threads, pc[t] \in Carving,
         NEW base, base = persistent[Owner(t)].base, base # nil, NEW off \in Nat, off >= PtrSize,
         off + call[t].size <= ChunkWords,
         \A b \in blocks : b.region = base => b.off + b.size <= off,
         Take(t, base, off), UNCHANGED mapped
  PROVE  MemoryInv' /\ MetadataDisjoint'
<1> DEFINE o == Owner(t)
<1> DEFINE n == [region |-> base, off |-> off, size |-> call[t].size, for |-> call[t].then]
<1>1. /\ persistent' = [persistent EXCEPT ![o] = [base |-> base, off |-> off + call[t].size]]
      /\ blocks' = blocks \cup {n} /\ pc' = [pc EXCEPT ![t] = call[t].then]
  BY DEF Take, Return, Goto
<1>2. o \in Owners /\ mapped \in Nat /\ base \in Nat /\ base <= mapped /\ base > 0
  BY OwnerType DEF MemoryInv, MemoryTypes, OwnChunks, nil
<1>3. call[t].size \in Nat /\ call[t].size > 0 /\ call[t].then \in Thens
  BY DEF ThreadsInv, CallOK, Calls, Persisting
<1>4. n \in Blocks /\ n.region = base /\ n.off = off /\ n.size = call[t].size /\ n.for # "large"
  BY <1>2, <1>3 DEF Blocks, Thens
<1>5. /\ persistent'[o].base = base /\ persistent'[o].off = off + call[t].size
      /\ \A q \in Owners : q # o => persistent'[q] = persistent[q]
      /\ \A q \in Owners : persistent'[q].base = persistent[q].base
  BY <1>1, <1>2 DEF MemoryInv, MemoryTypes
<1>6. \A u \in Threads : u # t => pc'[u] = pc[u]
  BY <1>1 DEF ThreadsInv
<1>7. pc'[t] \notin Linking
  BY <1>1, <1>3 DEF ThreadsInv, Thens, Linking
<1>8. \A u \in Threads : u # t /\ pc[u] \in Linking => Owner(u) # o
  BY OneUser DEF Carving
<1>9. MemoryTypes'
  BY <1>1, <1>2, <1>3, <1>4 DEF MemoryInv, MemoryTypes
<1> HIDE DEF n, o
<1>10. OwnChunks'
  BY <1>5 DEF MemoryInv, OwnChunks
<1>11. \A b \in blocks : b.region \in Nat /\ b.off \in Nat /\ b.size \in Nat /\ b.size > 0
  BY DEF MemoryInv, MemoryTypes, BlocksBelow, Blocks
<1>12. BlocksBelow'
  <2> SUFFICES ASSUME NEW b \in blocks'
               PROVE  /\ b.region > 0 /\ b.region <= mapped /\ b.size > 0
                      /\ \A q \in Owners : persistent'[q].base = b.region
                           => b.for # "large" /\ b.off + b.size <= persistent'[q].off
    BY DEF BlocksBelow
  <2>1. CASE b = n
    <3>1. \A q \in Owners : persistent'[q].base = base => q = o
      BY <1>2, <1>5, <1>10 DEF OwnChunks
    <3> QED
      BY <1>2, <1>3, <1>4, <1>5, <2>1, <3>1
  <2>2. CASE b \in blocks
    <3>1. ASSUME NEW q \in Owners, persistent'[q].base = b.region
          PROVE  b.for # "large" /\ b.off + b.size <= persistent'[q].off
      <4>1. b.for # "large" /\ b.off + b.size <= persistent[q].off
        BY <1>5, <2>2, <3>1 DEF MemoryInv, BlocksBelow
      <4>2. CASE q = o
        BY <1>3, <1>5, <1>11, <2>2, <3>1, <4>1, <4>2
      <4>3. CASE q # o
        BY <1>5, <4>1, <4>3
      <4> QED
        BY <4>2, <4>3
    <3> QED
      BY <2>2, <3>1 DEF MemoryInv, BlocksBelow
  <2> QED
    BY <1>1, <2>1, <2>2
<1>13. FreshChunks'
  <2> SUFFICES ASSUME NEW u \in Threads, pc'[u] \in Linking
               PROVE  /\ persistent'[Owner(u)].base # nil
                      /\ \A b \in blocks' : b.region # persistent'[Owner(u)].base
    BY DEF FreshChunks, Owner
  <2>1. u # t /\ pc[u] \in Linking /\ Owner(u) # o /\ Owner(u) \in Owners
    BY <1>6, <1>7, <1>8, OwnerType
  <2>2. persistent'[Owner(u)].base # nil /\ \A b \in blocks : b.region # persistent'[Owner(u)].base
    BY <1>5, <2>1 DEF MemoryInv, FreshChunks
  <2>3. persistent'[Owner(u)].base # base
    BY <1>2, <1>5, <1>10, <2>1, <2>2 DEF OwnChunks
  <2> QED
    BY <1>1, <1>4, <2>2, <2>3
<1>14. FirstWordKept'
  <2> SUFFICES ASSUME NEW q \in Owners, persistent'[q].base # nil
               PROVE  persistent'[q].off >= PtrSize \/ \E u \in Threads : Owner(u) = q /\ pc'[u] \in Linking
    BY DEF FirstWordKept, Owner
  <2>1. CASE q = o
    BY <1>3, <1>5, <2>1 DEF PtrSize
  <2>2. CASE q # o
    <3>1. persistent'[q] = persistent[q]
      BY <1>5, <2>2
    <3>2. persistent[q].off >= PtrSize \/ \E u \in Threads : Owner(u) = q /\ pc[u] \in Linking
      BY <3>1 DEF MemoryInv, FirstWordKept
    <3>3. ASSUME NEW u \in Threads, Owner(u) = q PROVE u # t
      BY <2>2, <3>3 DEF o
    <3> QED
      BY <1>6, <3>1, <3>2, <3>3
  <2> QED
    BY <2>1, <2>2
<1>15. MetadataDisjoint'
  <2>1. \A b \in blocks : b.region = n.region => b.off + b.size <= n.off
    BY <1>4
  <2>2. n.off >= PtrSize /\ n.off + n.size <= ChunkWords
    BY <1>4
  <2> QED
    BY <1>1, <2>1, <2>2 DEF MetadataDisjoint
<1> QED
  BY <1>9, <1>10, <1>12, <1>13, <1>14, <1>15 DEF MemoryInv

\* A large block has a region of its own.
LEMMA MemoryLarge ==
  ASSUME ThreadsInv, MemoryInv, MetadataDisjoint, NEW t \in Threads, largeBlock(t)
  PROVE  MemoryInv' /\ MetadataDisjoint'
<1> DEFINE n == [region |-> mapped + 1, off |-> 0, size |-> call[t].size, for |-> "large"]
<1>1. /\ pc[t] = "persistent" /\ pc' = [pc EXCEPT ![t] = call[t].then] /\ mapped' = mapped + 1
      /\ persistent' = persistent /\ blocks' = blocks \cup {n}
  BY DEF largeBlock, At, Return, Goto
<1>2. mapped \in Nat /\ call[t].size \in Nat /\ call[t].size > 0 /\ call[t].then \in Thens
  BY <1>1 DEF MemoryInv, MemoryTypes, ThreadsInv, CallOK, Calls, Persisting
<1>3. n \in Blocks /\ n.region = mapped + 1 /\ n.size = call[t].size /\ n.for = "large"
  BY <1>2 DEF Blocks
<1>4. \A u \in Threads : pc'[u] \in Linking <=> pc[u] \in Linking
  BY <1>1, <1>2 DEF ThreadsInv, Thens, Linking
<1>5. MemoryTypes'
  BY <1>1, <1>2, <1>3 DEF MemoryInv, MemoryTypes
<1> HIDE DEF n
<1>6. \A q \in Owners : persistent[q].base \in Nat /\ persistent[q].base <= mapped
  BY DEF MemoryInv, MemoryTypes, OwnChunks
<1>7. OwnChunks'
  BY <1>1, <1>2, <1>6 DEF MemoryInv, OwnChunks
<1>8. \A b \in blocks : b.region \in Nat /\ b.region <= mapped
  BY DEF MemoryInv, MemoryTypes, BlocksBelow, Blocks
<1>9. BlocksBelow'
  <2> SUFFICES ASSUME NEW b \in blocks'
               PROVE  /\ b.region > 0 /\ b.region <= mapped + 1 /\ b.size > 0
                      /\ \A q \in Owners : persistent[q].base = b.region
                           => b.for # "large" /\ b.off + b.size <= persistent[q].off
    BY <1>1 DEF BlocksBelow
  <2>1. CASE b = n
    BY <1>2, <1>3, <1>6, <2>1
  <2>2. CASE b \in blocks
    BY <1>2, <1>8, <2>2 DEF MemoryInv, BlocksBelow
  <2> QED
    BY <1>1, <2>1, <2>2
<1>10. FreshChunks'
  <2>1. \A u \in Threads : persistent[Owner(u)].base # mapped + 1
    BY <1>2, <1>6, OwnerType
  <2> QED
    BY <1>1, <1>3, <1>4, <2>1 DEF MemoryInv, FreshChunks, Owner
<1>11. FirstWordKept'
  BY <1>1, <1>4 DEF MemoryInv, FirstWordKept, Owner
<1>12. MetadataDisjoint'
  <2>1. \A b \in blocks : b.region # n.region
    BY <1>2, <1>3, <1>8
  <2> QED
    BY <1>1, <1>3, <2>1 DEF MetadataDisjoint
<1> QED
  BY <1>5, <1>7, <1>9, <1>10, <1>11, <1>12 DEF MemoryInv

-----------------------------------------------------------------------------
(***************************************************************************)
(* The steps of persistentalloc1.                                          *)
(***************************************************************************)
\* A thread at label l holds h.lock if the label says so.
LEMMA HoldsHeap ==
  ASSUME ThreadsInv, NEW t \in Threads, pc[t] \in UnderHeapLock
  PROVE  locks["heap"] = t
BY DEF ThreadsInv, NeedsHeap

\* The blocks of the region base end at off or before.
EndBy(base, off) == \A b \in blocks : b.region = base => b.off + b.size <= off

\* A block is cut off the current chunk.
LEMMA CarveStep ==
  ASSUME MetaInv, NEW t \in Threads, carve(t)
  PROVE  MetaInv' /\ \E base, off \in Nat : Take(t, base, off) /\ EndBy(base, off)
<1> DEFINE o == Owner(t)
<1>1. /\ thrown = "none" /\ pc[t] = "carve" /\ Fits(t) /\ thrown' = thrown /\ mapped' = mapped
      /\ Take(t, persistent[o].base, Aligned(t))
  BY DEF carve, At
<1>2. ThreadsInv /\ MemoryInv /\ MetadataDisjoint
  BY <1>1 DEF MetaInv
<1>3. pc[t] \in Carving /\ pc[t] \in Persisting /\ pc[t] \notin Linking
  BY <1>1 DEF Carving, Persisting, Linking
<1>4. o \in Owners /\ persistent[o].off \in Nat /\ persistent[o].base \in Nat
  BY <1>2, OwnerType DEF MemoryInv, MemoryTypes
<1>5. Aligned(t) \in Nat /\ Aligned(t) >= persistent[o].off
  <2>1. call[t].align \in Nat /\ call[t].align > 0
    BY <1>2, <1>3 DEF ThreadsInv, CallOK, Calls
  <2> QED
    BY <1>4, <2>1, AlignUpFacts DEF Aligned
<1>6. persistent[o].base # nil /\ Aligned(t) + call[t].size <= ChunkWords
  BY <1>1 DEF Fits
<1>7. persistent[o].off >= PtrSize
  <2>1. ASSUME NEW u \in Threads, Owner(u) = o, pc[u] \in Linking PROVE FALSE
    <3>1. u = t
      BY <1>2, <1>3, <2>1, OneUser DEF Carving
    <3> QED
      BY <1>3, <2>1, <3>1
  <2> QED
    BY <1>2, <1>4, <1>6, <2>1 DEF MemoryInv, FirstWordKept
<1>8. \A b \in blocks : b.region = persistent[o].base => b.off + b.size <= Aligned(t)
  <2> SUFFICES ASSUME NEW b \in blocks, b.region = persistent[o].base
               PROVE  b.off + b.size <= Aligned(t)
    OBVIOUS
  <2>1. b.off \in Nat /\ b.size \in Nat /\ b.off + b.size <= persistent[o].off
    BY <1>2, <1>4 DEF MemoryInv, MemoryTypes, BlocksBelow, Blocks
  <2> QED
    BY <1>4, <1>5, <2>1
<1>9. Aligned(t) >= PtrSize
  BY <1>4, <1>5, <1>7 DEF PtrSize
<1>10. MemoryInv' /\ MetadataDisjoint'
  BY <1>1, <1>2, <1>3, <1>5, <1>6, <1>8, <1>9, MemoryTake
<1>11. ThreadsInv'
  <2>1. <<persistent[o].base, Aligned(t)>> \in Nat \X Nat
    BY <1>4, <1>5
  <2>2. Return(t, <<persistent[o].base, Aligned(t)>>)
        /\ locks' = IF Owner(t) = NoP THEN unlock("global") ELSE locks
    BY <1>1 DEF Take
  <2> QED
    BY <1>2, <1>3, <2>1, <2>2, ThreadReturns
<1>12. \E base, off \in Nat : Take(t, base, off) /\ EndBy(base, off)
  BY <1>1, <1>4, <1>5, <1>8, Zenon DEF EndBy
<1> QED
  BY <1>1, <1>10, <1>11, <1>12 DEF MetaInv

\* The chunk is pushed and its first block cut off, or the push starts again.
LEMMA CasStep ==
  ASSUME MetaInv, NEW t \in Threads, casChunk(t)
  PROVE  /\ MetaInv'
         /\ \/ \E base, off \in Nat : Take(t, base, off) /\ EndBy(base, off)
            \/ Goto(t, "link") /\ UNCHANGED <<locks, persistent, head, blocks, call>>
<1> DEFINE o == Owner(t)
<1> DEFINE off == alignUp(PtrSize, call[t].align)
<1>1. thrown = "none" /\ pc[t] = "cas" /\ thrown' = thrown /\ mapped' = mapped
  BY DEF casChunk, At
<1>2. ThreadsInv /\ MemoryInv /\ MetadataDisjoint
  BY <1>1 DEF MetaInv
<1>3. pc[t] \in Carving /\ pc[t] \in Persisting /\ pc[t] \in Linking
  BY <1>1 DEF Carving, Persisting, Linking
<1>4. CASE Take(t, persistent[o].base, off)
  <2>1. o \in Owners /\ persistent[o].base \in Nat
    BY <1>2, OwnerType DEF MemoryInv, MemoryTypes
  <2>2. /\ call[t].align \in Nat /\ call[t].align > 0 /\ call[t].size \in Nat
        /\ MaxBlock + call[t].align <= ChunkWords /\ call[t].size < MaxBlock
    BY <1>2, <1>3 DEF ThreadsInv, CallOK, Calls
  <2>3. off = call[t].align
    BY <2>2, AlignUpFacts DEF PtrSize
  <2>4. off \in Nat /\ off >= PtrSize /\ off + call[t].size <= ChunkWords
    BY <2>2, <2>3, SizesAssumption DEF PtrSize
  <2>5. persistent[o].base # nil /\ \A b \in blocks : b.region # persistent[o].base
    BY <1>2, <1>3 DEF MemoryInv, FreshChunks
  <2> HIDE DEF off
  <2>6. MemoryInv' /\ MetadataDisjoint'
    BY <1>1, <1>2, <1>3, <1>4, <2>4, <2>5, MemoryTake
  <2>7. ThreadsInv'
    <3>1. <<persistent[o].base, off>> \in Nat \X Nat
      BY <2>1, <2>4
    <3>2. Return(t, <<persistent[o].base, off>>)
          /\ locks' = IF Owner(t) = NoP THEN unlock("global") ELSE locks
      BY <1>4 DEF Take
    <3> QED
      BY <1>2, <1>3, <3>1, <3>2, ThreadReturns
  <2>8. EndBy(persistent[o].base, off)
    BY <2>5 DEF EndBy
  <2>9. \E base, k \in Nat : Take(t, base, k) /\ EndBy(base, k)
    BY <1>4, <2>1, <2>4, <2>8, Zenon
  <2> QED
    BY <1>1, <2>6, <2>7, <2>9 DEF MetaInv
<1>5. CASE Goto(t, "link") /\ UNCHANGED <<locks, persistent, head, blocks, call>>
  <2>1. "link" \in Linking /\ "link" \in Carving
    BY DEF Linking, Carving
  <2>2. call[t].size < MaxBlock /\ 0 \in Nat
    BY <1>2, <1>3 DEF ThreadsInv, CallOK
  <2>3. ThreadsInv'
    BY <1>2, <1>3, <1>5, <2>1, <2>2, ThreadCarves
  <2>4. MemoryInv'
    BY <1>1, <1>2, <1>3, <1>5, <2>1, MemoryKept DEF Goto, ThreadsInv
  <2> QED
    BY <1>1, <1>2, <1>5, <2>3, <2>4 DEF MetaInv, MetadataDisjoint
<1> QED
  BY <1>4, <1>5 DEF casChunk

\* The other steps between the call and the block.
LEMMA PersistStep ==
  ASSUME MetaInv, head \in Nat, NEW t \in Threads, persistentSteps(t)
  PROVE  MetaInv'
<1>1. CASE acquire(t)
  <2>1. /\ thrown = "none" /\ pc[t] = "persistent" /\ Goto(t, "carve") /\ call[t].size < MaxBlock
        /\ IF Owner(t) = NoP THEN lock("global", t) ELSE UNCHANGED locks
        /\ UNCHANGED <<thrown, persistent, mapped, blocks, call>>
    BY <1>1 DEF acquire, At, persistVars
  <2>2. /\ "carve" \in Carving /\ "carve" \notin Linking /\ pc[t] \in Persisting /\ 0 \in Nat
        /\ pc[t] \notin Linking
    BY <2>1 DEF Carving, Linking, Persisting
  <2>3. ThreadsInv /\ MemoryInv /\ MetadataDisjoint
    BY <2>1 DEF MetaInv
  <2>4. ThreadsInv'
    BY <2>1, <2>2, <2>3, ThreadCarves
  <2>5. MemoryInv'
    BY <2>1, <2>2, <2>3, MemoryKept DEF Goto, ThreadsInv
  <2> QED
    BY <2>1, <2>3, <2>4, <2>5 DEF MetaInv, MetadataDisjoint
<1>2. CASE newChunk(t)
  <2>1. /\ thrown = "none" /\ pc[t] = "carve" /\ Goto(t, "link")
        /\ UNCHANGED <<thrown, blocks, call, locks>>
    BY <1>2 DEF newChunk, At
  <2>2. "link" \in Carving /\ pc[t] \in Persisting /\ pc[t] \in Carving /\ 0 \in Nat
    BY <2>1 DEF Carving, Linking, Persisting
  <2>3. ThreadsInv /\ MemoryInv /\ MetadataDisjoint
    BY <2>1 DEF MetaInv
  <2>4. call[t].size < MaxBlock
    BY <2>2, <2>3 DEF ThreadsInv, CallOK
  <2>5. ThreadsInv'
    BY <2>1, <2>2, <2>3, <2>4, ThreadCarves
  <2>6. MemoryInv'
    BY <1>2, <2>3, MemoryNewChunk
  <2> QED
    BY <2>1, <2>3, <2>5, <2>6 DEF MetaInv, MetadataDisjoint
<1>3. CASE outOfMemory(t)
  <2>1. thrown' # "none" /\ blocks' = blocks
    BY <1>3 DEF outOfMemory, throw
  <2> QED
    BY <2>1 DEF MetaInv, MetadataDisjoint
<1>4. CASE linkChunk(t)
  <2>1. /\ thrown = "none" /\ pc[t] = "link" /\ Goto(t, "cas")
        /\ call' = [call EXCEPT ![t].chunks = head]
        /\ UNCHANGED <<thrown, persistent, mapped, blocks, locks>>
    BY <1>4 DEF linkChunk, At
  <2>2. "cas" \in Carving /\ "cas" \in Linking /\ pc[t] \in Persisting /\ pc[t] \in Carving
        /\ pc[t] \in Linking
    BY <2>1 DEF Carving, Linking, Persisting
  <2>3. ThreadsInv /\ MemoryInv /\ MetadataDisjoint
    BY <2>1 DEF MetaInv
  <2>4. call[t].size < MaxBlock
    BY <2>2, <2>3 DEF ThreadsInv, CallOK
  <2>5. ThreadsInv'
    BY <2>1, <2>2, <2>3, <2>4, ThreadCarves
  <2>6. MemoryInv'
    BY <2>1, <2>2, <2>3, MemoryKept DEF Goto, ThreadsInv
  <2> QED
    BY <2>1, <2>3, <2>5, <2>6 DEF MetaInv, MetadataDisjoint
<1>5. CASE largeBlock(t)
  <2>1. /\ thrown = "none" /\ pc[t] = "persistent" /\ Return(t, <<mapped + 1, 0>>)
        /\ UNCHANGED <<thrown, locks>>
    BY <1>5 DEF largeBlock, At
  <2>2. ThreadsInv /\ MemoryInv /\ MetadataDisjoint
    BY <2>1 DEF MetaInv
  <2>3. <<mapped + 1, 0>> \in Nat \X Nat /\ pc[t] \in Persisting
    BY <2>1, <2>2 DEF MemoryInv, MemoryTypes, Persisting
  <2>4. ThreadsInv'
    BY <2>1, <2>2, <2>3, ThreadReturns
  <2>5. MemoryInv' /\ MetadataDisjoint'
    BY <1>5, <2>2, MemoryLarge
  <2> QED
    BY <2>1, <2>4, <2>5 DEF MetaInv
<1>6. CASE noLargeBlock(t)
  <2>1. /\ thrown = "none" /\ pc[t] = "persistent"
        /\ UNCHANGED <<locks, persistent, mapped, blocks>>
    BY <1>6 DEF noLargeBlock, At
  <2>2. ThreadsInv /\ MemoryInv /\ MetadataDisjoint
    BY <2>1 DEF MetaInv
  <2>3. CASE Return(t, <<nil, 0>>)
    <3>1. <<nil, 0>> \in Nat \X Nat /\ pc[t] \in Persisting /\ pc[t] \notin Linking
      BY <2>1 DEF nil, Persisting, Linking
    <3>2. ThreadsInv'
      BY <2>1, <2>2, <2>3, <3>1, ThreadReturns
    <3>3. pc' = [pc EXCEPT ![t] = call[t].then] /\ call[t].then \notin Linking
      BY <2>2, <2>3 DEF Return, Goto, ThreadsInv, Calls, Thens, Linking
    <3>4. MemoryInv'
      BY <2>1, <2>2, <3>1, <3>3, MemoryKept DEF ThreadsInv
    <3> QED
      BY <2>1, <2>2, <3>2, <3>4 DEF MetaInv, MetadataDisjoint
  <2>4. CASE throw("out of memory allocating heap arena metadata")
    BY <2>1, <2>2, <2>4 DEF throw, MetaInv, MetadataDisjoint
  <2> QED
    BY <1>6, <2>3, <2>4 DEF noLargeBlock
<1> QED
  BY <1>1, <1>2, <1>3, <1>4, <1>5, <1>6, CarveStep, CasStep DEF persistentSteps
-----------------------------------------------------------------------------
(***************************************************************************)
(* The steps around persistentalloc1, which leave the memory alone.        *)
(***************************************************************************)
\* A step outside persistentalloc1 that keeps ThreadsInv, or throws.
LEMMA QuietStep ==
  ASSUME MetaInv, NEW t \in Threads, thrown = "none", pc[t] \notin Linking,
         UNCHANGED <<persistent, mapped, blocks>>,
         thrown' = "none" => ThreadsInv' /\ \E l \in Labels \ Linking : pc' = [pc EXCEPT ![t] = l]
  PROVE  MetaInv'
<1>1. ThreadsInv /\ MemoryInv /\ MetadataDisjoint
  BY DEF MetaInv
<1>2. thrown' = "none" => MemoryInv'
  BY <1>1, MemoryKept DEF ThreadsInv
<1> QED
  BY <1>1, <1>2 DEF MetaInv, MetadataDisjoint

\* Nothing about the threads changes.
LEMMA ThreadsKept ==
  ASSUME ThreadsInv, NEW t \in Threads, UNCHANGED <<locks, pc, call>>
  PROVE  ThreadsInv' /\ pc' = [pc EXCEPT ![t] = pc[t]]
BY DEF ThreadsInv, Owner

\* A call of persistentalloc from outside.
LEMMA OtherCallerStep ==
  ASSUME MetaInv, NEW t \in Threads, otherCaller(t)
  PROVE  MetaInv'
<1>1. PICK r \in Requests : /\ At(t, "idle") /\ persistentalloc(t, r[1], r[2], "idle")
                            /\ UNCHANGED <<locks, thrown, persistent, mapped, blocks>>
  BY DEF otherCaller, Call
<1>2. r[1] \in Nat /\ r[2] \in Nat /\ r[1] > 0 /\ r[2] > 0 /\ MaxBlock + r[2] <= ChunkWords
  BY SizesAssumption
<1>3. thrown = "none" /\ pc[t] \notin Linking /\ ThreadsInv
  BY <1>1 DEF At, MetaInv, Linking
<1>4. "idle" \in Thens /\ "persistent" \in Labels \ Linking
  BY DEF Thens, Labels, Persisting, Linking
<1>5. ThreadsInv'
  BY <1>1, <1>2, <1>3, <1>4, ThreadAsks
<1>6. pc' = [pc EXCEPT ![t] = "persistent"]
  BY <1>1 DEF persistentalloc, Goto
<1> QED
  BY <1>1, <1>3, <1>4, <1>5, <1>6, QuietStep

\* The steps of fixalloc and of the mspan caches.
LEMMA SpanThreads ==
  ASSUME ThreadsInv, NEW t \in Threads, spanSteps(t), thrown' = "none"
  PROVE  ThreadsInv' /\ \E l \in Labels \ Linking : pc' = [pc EXCEPT ![t] = l]
<1>1. /\ {"idle", "pull", "fixalloc", "persistent"} \subseteq Labels \ Linking
      /\ {"idle", "pull", "fixalloc"} \subseteq Labels \ Persisting
      /\ {"pull", "fixalloc", "fixchunk"} \subseteq UnderHeapLock
      /\ "idle" \notin UnderHeapLock /\ "fixchunk" \in Thens
  BY DEF Labels, Persisting, Carving, Linking, UnderHeapLock, Thens
<1>2. CASE allocMSpanLocked(t)
  <2>1. lock("heap", t) /\ UNCHANGED call /\ \E l \in {"pull", "fixalloc"} : Goto(t, l)
    BY <1>2 DEF allocMSpanLocked, persistVars
  <2> QED
    BY <1>1, <2>1, ThreadLocks DEF Goto
<1>3. CASE tryAllocMSpan(t) \/ freeMSpanLocked(t)
  <2>1. pc[t] = "idle" /\ UNCHANGED <<locks, pc, call>>
    BY <1>3 DEF tryAllocMSpan, freeMSpanLocked, Call, At, persistVars
  <2> QED
    BY <1>1, <2>1, ThreadsKept
<1>4. CASE fixallocReuse(t) \/ fixallocCarve(t)
  <2>1. pc[t] = "fixalloc" /\ UNCHANGED call /\ \E s : Deliver(t, s)
    BY <1>4 DEF fixallocReuse, fixallocCarve, At, persistVars
  <2>2. locks["heap"] = t
    BY <1>1, <2>1, HoldsHeap
  <2>3. CASE locks' = unlock("heap") /\ Goto(t, "idle")
    BY <1>1, <2>1, <2>2, <2>3, ThreadUnlocks DEF Goto
  <2>4. ASSUME NEW l \in {"pull", "fixalloc"}, UNCHANGED locks, Goto(t, l)
        PROVE  ThreadsInv' /\ \E k \in Labels \ Linking : pc' = [pc EXCEPT ![t] = k]
    BY <1>1, <2>1, <2>2, <2>4, ThreadMoves DEF Goto
  <2>5. (locks' = unlock("heap") /\ Goto(t, "idle"))
        \/ \E l \in {"pull", "fixalloc"} : UNCHANGED locks /\ Goto(t, l)
    BY <2>1 DEF Deliver
  <2> QED
    BY <2>3, <2>4, <2>5
<1>5. CASE fixallocRefill(t)
  <2>1. /\ pc[t] = "fixalloc" /\ UNCHANGED locks
        /\ persistentalloc(t, SpansPerFix * MspanWords, 1, "fixchunk")
    BY <1>5 DEF fixallocRefill, At
  <2>2. locks["heap"] = t
    BY <1>1, <2>1, HoldsHeap
  <2>3. SpansPerFix * MspanWords \in Nat /\ SpansPerFix * MspanWords > 0
    <3>1. SpansPerFix \in Nat /\ SpansPerFix > 0 /\ MspanWords \in Nat /\ MspanWords > 0
      BY SizesAssumption
    <3> QED
      BY <3>1
  <2>4. 1 \in Nat /\ 1 > 0 /\ MaxBlock + 1 <= ChunkWords
    BY SizesAssumption
  <2>5. ThreadsInv'
    BY <1>1, <2>1, <2>2, <2>3, <2>4, ThreadAsks
  <2> QED
    BY <1>1, <2>1, <2>5 DEF persistentalloc, Goto
<1>6. CASE fixallocChunk(t)
  <2>1. pc[t] = "fixchunk" /\ UNCHANGED <<locks, call>> /\ Goto(t, "fixalloc")
    BY <1>6 DEF fixallocChunk, At, persistVars
  <2>2. locks["heap"] = t
    BY <1>1, <2>1, HoldsHeap
  <2> QED
    BY <1>1, <2>1, <2>2, ThreadMoves DEF Goto
<1>7. CASE recordspanFails(t)
  BY <1>7 DEF recordspanFails, throw
<1>8. CASE pullCached(t)
  <2>1. pc[t] = "pull" /\ UNCHANGED call /\ Goto(t, "idle") /\ locks' = unlock("heap")
    BY <1>8 DEF pullCached, At, persistVars
  <2>2. locks["heap"] = t
    BY <1>1, <2>1, HoldsHeap
  <2> QED
    BY <1>1, <2>1, <2>2, ThreadUnlocks DEF Goto
<1> QED
  BY <1>2, <1>3, <1>4, <1>5, <1>6, <1>7, <1>8 DEF spanSteps

\* They leave the memory alone.
LEMMA SpanStep ==
  ASSUME MetaInv, NEW t \in Threads, spanSteps(t)
  PROVE  MetaInv'
<1>1. /\ thrown = "none" /\ pc[t] \notin Linking /\ UNCHANGED <<persistent, mapped, blocks>>
  BY DEF spanSteps, allocMSpanLocked, tryAllocMSpan, freeMSpanLocked, fixallocReuse,
         fixallocRefill, fixallocChunk, fixallocCarve, recordspanFails, pullCached, Call, At,
         persistVars, Linking
<1> QED
  BY <1>1, SpanThreads, QuietStep DEF MetaInv

\* The steps of grow and sysAlloc: h.lock is held from the first to the last.
LEMMA ArenaThreads ==
  ASSUME ThreadsInv, arenasCap \in Nat, NEW t \in Threads, ArenaStep(t), thrown' = "none"
  PROVE  ThreadsInv' /\ \E l \in Labels \ Linking : pc' = [pc EXCEPT ![t] = l]
<1>1. /\ {"idle", "hint", "arenas", "arena", "nomemory", "persistent"} \subseteq Labels \ Linking
      /\ {"idle", "hint", "arenas", "nomemory"} \subseteq Labels \ Persisting
      /\ {"hint", "arenas", "arena", "nomemory"} \subseteq UnderHeapLock
      /\ "idle" \notin UnderHeapLock /\ "arena" \in Thens
  BY DEF Labels, Persisting, Carving, Linking, UnderHeapLock, Thens
<1>2. CASE userArena(t)
  <2>1. lock("heap", t) /\ Goto(t, "hint") /\ UNCHANGED call
    BY <1>2 DEF userArena, persistVars
  <2> QED
    BY <1>1, <2>1, ThreadLocks DEF Goto
<1>3. CASE grow(t)
  <2>1. CASE lock("heap", t) /\ Goto(t, "hint")
    <3>1. UNCHANGED call
      BY <1>3 DEF grow, persistVars
    <3> QED
      BY <1>1, <2>1, <3>1, ThreadLocks DEF Goto
  <2>2. CASE UNCHANGED <<locks, pc>>
    <3>1. UNCHANGED call /\ pc[t] = "idle"
      BY <1>3 DEF grow, Call, At, persistVars
    <3> QED
      BY <1>1, <2>2, <3>1, ThreadsKept
  <2> QED
    BY <1>3, <2>1, <2>2 DEF grow
<1>4. ASSUME pc[t] \in {"hint", "arena"}, UNCHANGED <<locks, call>>,
             NEW l \in {"arenas", "nomemory"}, Goto(t, l)
      PROVE  ThreadsInv' /\ \E k \in Labels \ Linking : pc' = [pc EXCEPT ![t] = k]
  <2>1. locks["heap"] = t
    BY <1>1, <1>4, HoldsHeap
  <2> QED
    BY <1>1, <1>4, <2>1, ThreadMoves DEF Goto
<1>5. CASE tryHint(t)
  <2>1. /\ pc[t] = "hint" /\ UNCHANGED <<locks, call>>
        /\ Goto(t, "arenas") \/ UNCHANGED pc
    BY <1>5 DEF tryHint, At, persistVars
  <2> QED
    BY <1>1, <1>4, <2>1, ThreadsKept
<1>6. CASE anyPlace(t)
  <2>1. /\ pc[t] = "hint" /\ UNCHANGED <<locks, call>>
        /\ Goto(t, "arenas") \/ Goto(t, "nomemory")
    BY <1>6 DEF anyPlace, At, persistVars
  <2> QED
    BY <1>4, <2>1
<1>7. CASE publishArena(t)
  <2>1. pc[t] = "arena" /\ UNCHANGED <<locks, call>> /\ Goto(t, "arenas")
    BY <1>7 DEF publishArena, At, persistVars
  <2> QED
    BY <1>4, <2>1
<1>8. ASSUME pc[t] \in {"arena", "arenas"}, UNCHANGED locks, NEW size \in Nat, size > 0,
             persistentalloc(t, size, PtrSize, "arena")
      PROVE  ThreadsInv' /\ \E k \in Labels \ Linking : pc' = [pc EXCEPT ![t] = k]
  <2>1. locks["heap"] = t
    BY <1>1, <1>8, HoldsHeap
  <2>2. PtrSize \in Nat /\ PtrSize > 0 /\ MaxBlock + PtrSize <= ChunkWords
    BY SizesAssumption DEF PtrSize
  <2>3. ThreadsInv'
    BY <1>1, <1>8, <2>1, <2>2, ThreadAsks
  <2>4. pc' = [pc EXCEPT ![t] = "persistent"]
    BY <1>8 DEF persistentalloc, Goto
  <2> QED
    BY <1>1, <2>3, <2>4
<1>9. CASE nextArena(t)
  <2>1. /\ thrown = "none" /\ pc[t] = "arenas" /\ UNCHANGED locks
        /\ (throw(Misplaced) /\ Misplaced # "none")
             \/ persistentalloc(t, HeapArenaWords, PtrSize, "arena")
    BY <1>9 DEF nextArena, At
  <2>2. persistentalloc(t, HeapArenaWords, PtrSize, "arena")
    BY <2>1 DEF throw
  <2> QED
    BY <1>8, <2>1, <2>2, HeapAssumption
<1>10. CASE growAllArenas(t)
  <2>1. /\ pc[t] = "arena" /\ UNCHANGED locks
        /\ arenasCap' = IF arenasCap = 0 THEN FirstArenas ELSE 2 * arenasCap
        /\ persistentalloc(t, arenasCap', PtrSize, "arena")
    BY <1>10 DEF growAllArenas, At
  <2>2. arenasCap' \in Nat /\ arenasCap' > 0
    BY <2>1, HeapAssumption
  <2> QED
    BY <1>8, <2>1, <2>2
<1>11. CASE noMemory(t) \/ returnArena(t) \/ growInto(t)
  <2>1. /\ pc[t] \in {"nomemory", "arenas"} /\ locks' = unlock("heap") /\ Goto(t, "idle")
        /\ UNCHANGED call
    BY <1>11 DEF noMemory, returnArena, growInto, At, persistVars
  <2>2. locks["heap"] = t
    BY <1>1, <2>1, HoldsHeap
  <2> QED
    BY <1>1, <2>1, <2>2, ThreadUnlocks DEF Goto
<1>12. CASE noArenaMap(t) \/ sysMapFails(t)
  BY <1>12 DEF noArenaMap, sysMapFails, throw
<1> QED
  BY <1>2, <1>3, <1>5, <1>6, <1>7, <1>9, <1>10, <1>11, <1>12 DEF ArenaStep

\* They leave the memory of the metadata alone, and start in a program that runs.
LEMMA ArenaQuiet ==
  ASSUME NEW t \in Threads, ArenaStep(t)
  PROVE  /\ thrown = "none" /\ pc[t] \notin Persisting
         /\ UNCHANGED <<persistent, mapped, blocks, head, link, spanVars>>
<1>1. CASE userArena(t) \/ grow(t)
  BY <1>1 DEF userArena, grow, Call, At, persistVars, Persisting, Carving, Linking
<1>2. CASE tryHint(t)
  BY <1>2 DEF tryHint, At, persistVars, Persisting, Carving, Linking
<1>3. CASE anyPlace(t)
  BY <1>3 DEF anyPlace, At, persistVars, Persisting, Carving, Linking
<1>4. CASE nextArena(t) \/ growAllArenas(t) \/ publishArena(t)
  BY <1>4 DEF nextArena, growAllArenas, publishArena, At, persistVars, Persisting, Carving, Linking
<1>5. CASE noMemory(t) \/ returnArena(t) \/ growInto(t)
  BY <1>5 DEF noMemory, returnArena, growInto, At, persistVars, Persisting, Carving, Linking
<1>6. CASE noArenaMap(t) \/ sysMapFails(t)
  BY <1>6 DEF noArenaMap, sysMapFails, At, persistVars, Persisting, Carving, Linking
<1> QED
  BY <1>1, <1>2, <1>3, <1>4, <1>5, <1>6 DEF ArenaStep

-----------------------------------------------------------------------------
(***************************************************************************)
(* The invariant.                                                          *)
(***************************************************************************)
IInv == MetaInv /\ head \in Nat /\ arenasCap \in Nat

\* The head of persistentChunks and the capacity of allArenas are numbers.
LEMMA CountersStep ==
  ASSUME IInv, NEW t \in Threads, (MetaStep(t) /\ UNCHANGED arenaVars) \/ ArenaStep(t)
  PROVE  head' \in Nat /\ arenasCap' \in Nat
<1>1. CASE ArenaStep(t)
  <2>1. head' = head
    BY <1>1, ArenaQuiet
  <2>2. arenasCap' = arenasCap \/ growAllArenas(t)
    BY <1>1 DEF ArenaStep, userArena, grow, tryHint, anyPlace, nextArena, growAllArenas,
                publishArena, noMemory, returnArena, growInto, noArenaMap, sysMapFails, arenaVars
  <2>3. arenasCap' \in Nat
    BY <2>2, HeapAssumption DEF IInv, growAllArenas
  <2> QED
    BY <2>1, <2>3 DEF IInv
<1>2. CASE MetaStep(t) /\ UNCHANGED arenaVars
  <2>1. arenasCap' = arenasCap
    BY <1>2 DEF arenaVars
  <2>2. CASE casChunk(t)
    <3>1. thrown = "none" /\ head' \in {head, persistent[Owner(t)].base}
      BY <2>2 DEF casChunk, At
    <3>2. persistent[Owner(t)].base \in Nat
      BY <3>1, OwnerType DEF IInv, MetaInv, MemoryInv, MemoryTypes
    <3> QED
      BY <2>1, <3>1, <3>2 DEF IInv
  <2>3. CASE ~ casChunk(t)
    <3>1. head' = head
      BY <1>2, <2>3 DEF MetaStep, otherCaller, persistentSteps, acquire, carve, newChunk,
             outOfMemory, linkChunk, largeBlock, noLargeBlock, spanSteps, allocMSpanLocked,
             tryAllocMSpan, freeMSpanLocked, fixallocReuse, fixallocRefill, fixallocChunk,
             fixallocCarve, recordspanFails, pullCached, persistVars
    <3> QED
      BY <2>1, <3>1 DEF IInv
  <2> QED
    BY <2>2, <2>3
<1> QED
  BY <1>1, <1>2

\* Initially nothing is mapped.
LEMMA InitLemma == Init => IInv
<1> SUFFICES ASSUME Init PROVE IInv
  OBVIOUS
<1> USE DEF Init, MetaInit
<1>1. NoCall \in Calls /\ "idle" \in Labels
  BY DEF NoCall, Calls, nil, Thens, Labels
<1>2. \A t \in Threads : /\ CallOK(call[t], pc[t]) /\ ~ NeedsHeap(call[t], pc[t])
                         /\ pc[t] \notin Carving
  BY DEF CallOK, NeedsHeap, Persisting, Carving, Linking, UnderHeapLock
<1>3. ThreadsInv
  BY <1>1, <1>2 DEF ThreadsInv, LockNames
<1>4. \A o \in Owners : persistent[o] = [base |-> nil, off |-> 0]
  BY DEF Owners
<1>5. persistent \in [Owners -> [base : Nat, off : Nat]]
  BY DEF Owners, nil
<1>6. MemoryTypes /\ OwnChunks /\ BlocksBelow /\ FirstWordKept
  BY <1>4, <1>5 DEF MemoryTypes, OwnChunks, BlocksBelow, FirstWordKept, nil
<1>7. FreshChunks
  BY DEF FreshChunks, Linking
<1> QED
  BY <1>3, <1>6, <1>7 DEF IInv, MetaInv, MemoryInv, MetadataDisjoint, nil

\* Nothing changes.
LEMMA StutterLemma == IInv /\ UNCHANGED vars => IInv'
<1> SUFFICES ASSUME IInv, UNCHANGED vars PROVE IInv'
  OBVIOUS
<1>1. UNCHANGED <<persistent, mapped, blocks, head, thrown, locks, pc, call, arenasCap>>
  BY DEF vars, metaVars, lockVars, persistVars, arenaVars
<1>2. ThreadsInv => ThreadsInv'
  BY <1>1 DEF ThreadsInv, Owner
<1>3. MemoryInv => MemoryInv'
  BY <1>1 DEF MemoryInv, MemoryTypes, OwnChunks, BlocksBelow, FreshChunks, FirstWordKept, Owner
<1> QED
  BY <1>1, <1>2, <1>3 DEF IInv, MetaInv, MetadataDisjoint

\* IInv is an invariant of the heap and its metadata allocators.
THEOREM Invariance == Spec => []IInv
<1>1. IInv /\ [Next]_vars => IInv'
  <2> SUFFICES ASSUME IInv, NEW t \in Threads, (MetaStep(t) /\ UNCHANGED arenaVars) \/ ArenaStep(t)
               PROVE  IInv'
    BY StutterLemma DEF Next
  <2>1. head' \in Nat /\ arenasCap' \in Nat
    BY CountersStep
  <2>2. CASE ArenaStep(t)
    <3>1. /\ thrown = "none" /\ pc[t] \notin Linking /\ UNCHANGED <<persistent, mapped, blocks>>
      BY <2>2, ArenaQuiet DEF Persisting, Carving
    <3>2. MetaInv'
      BY <2>2, <3>1, ArenaThreads, QuietStep DEF IInv, MetaInv
    <3> QED
      BY <2>1, <3>2 DEF IInv
  <2>3. CASE MetaStep(t)
    <3>1. MetaInv'
      BY <2>3, OtherCallerStep, PersistStep, SpanStep DEF MetaStep, IInv
    <3> QED
      BY <2>1, <3>1 DEF IInv
  <2> QED
    BY <2>2, <2>3
<1> QED
  BY <1>1, InitLemma, PTL DEF Spec

\* No two blocks of persistentalloc overlap, and none reaches over its chunk or
\* the word that links it, for any threads with and without a P, any sizes and
\* alignments that persistentalloc1 accepts, and any answers of mmap.
THEOREM BlocksDisjoint == Spec => []MetadataDisjoint
BY Invariance, PTL DEF IInv, MetaInv

-----------------------------------------------------------------------------
(***************************************************************************)
(* mspans: every one is in one place.                                      *)
(***************************************************************************)
\* An mspan is named by the region and the word where it lies.
Spans == Nat \X Nat

\* A sequence has no mspan twice.
Distinct(s) == \A i, j \in 1 .. Len(s) : s[i] = s[j] => i = j

\* The mspans on the list L, in the caches C and in the hands V of callers.
KnownIn(L, C, V) == V \cup ToSet(L) \cup UNION {ToSet(C[p]) : p \in Ps}

\* None of them is in two places, and no cache is larger than its array.
Tidy(L, C, V) ==
  /\ Distinct(L) /\ V \cap ToSet(L) = {}
  /\ \A p \in Ps :
       /\ Distinct(C[p]) /\ Len(C[p]) <= CacheLen
       /\ V \cap ToSet(C[p]) = {} /\ ToSet(L) \cap ToSet(C[p]) = {}
       /\ \A q \in Ps : q # p => ToSet(C[p]) \cap ToSet(C[q]) = {}

\* The members of a sequence are what stands at its positions.
LEMMA InToSet ==
  ASSUME NEW S, NEW s \in Seq(S), NEW x
  PROVE  x \in ToSet(s) <=> \E i \in 1 .. Len(s) : s[i] = x
<1>1. DOMAIN s = 1 .. Len(s)
  OBVIOUS
<1>2. x \in ToSet(s) <=> \E i \in DOMAIN s : s[i] = x
  BY Zenon DEF ToSet
<1> QED
  BY <1>1, <1>2, Zenon

\* Putting an mspan at the front of a list.
LEMMA Pushed ==
  ASSUME NEW S, NEW s \in Seq(S), NEW x \in S
  PROVE  /\ <<x>> \o s \in Seq(S) /\ ToSet(<<x>> \o s) = ToSet(s) \cup {x}
         /\ (Distinct(s) /\ x \notin ToSet(s)) => Distinct(<<x>> \o s)
<1> DEFINE r == <<x>> \o s
<1>1. /\ r \in Seq(S) /\ Len(r) = Len(s) + 1 /\ Len(s) \in Nat /\ r[1] = x
      /\ \A i \in 1 .. Len(s) : r[i + 1] = s[i]
  OBVIOUS
<1> HIDE DEF r
<1>2. \A i \in 1 .. Len(s) : i + 1 \in 1 .. Len(r) /\ r[i + 1] = s[i] /\ i + 1 # 1
  BY <1>1
<1>3. \A j \in 1 .. Len(r) : j # 1 => j - 1 \in 1 .. Len(s) /\ s[j - 1] = r[j]
  BY <1>1
<1>4. ToSet(r) = ToSet(s) \cup {x}
  <2>1. \A y : y \in ToSet(r) <=> \E j \in 1 .. Len(r) : r[j] = y
    BY <1>1, InToSet
  <2>2. \A y : y \in ToSet(s) <=> \E i \in 1 .. Len(s) : s[i] = y
    BY InToSet
  <2>3. ASSUME NEW y PROVE y \in ToSet(r) <=> y \in ToSet(s) \/ y = x
    <3>1. ASSUME y \in ToSet(r), y # x PROVE y \in ToSet(s)
      <4>1. PICK j \in 1 .. Len(r) : r[j] = y
        BY <2>1, <3>1
      <4> QED
        BY <1>1, <1>3, <2>2, <3>1, <4>1
    <3>2. ASSUME y \in ToSet(s) PROVE y \in ToSet(r)
      <4>1. PICK i \in 1 .. Len(s) : s[i] = y
        BY <2>2, <3>2
      <4> QED
        BY <1>2, <2>1, <4>1
    <3>3. x \in ToSet(r)
      <4>1. 1 \in 1 .. Len(r)
        BY <1>1
      <4> QED
        BY <1>1, <2>1, <4>1
    <3> QED
      BY <3>1, <3>2, <3>3
  <2> QED
    BY <2>3
<1>5. ASSUME Distinct(s), x \notin ToSet(s) PROVE Distinct(r)
  <2>1. \A i \in 1 .. Len(s) : s[i] # x
    BY <1>5, InToSet
  <2>2. Distinct(r)
    <3> SUFFICES ASSUME NEW i \in 1 .. Len(r), NEW j \in 1 .. Len(r), r[i] = r[j] PROVE i = j
      BY DEF Distinct
    <3>1. CASE i = 1 \/ j = 1
      BY <1>1, <1>3, <2>1, <3>1
    <3>2. CASE i # 1 /\ j # 1
      <4>1. i - 1 = j - 1
        BY <1>3, <1>5, <3>2 DEF Distinct
      <4> QED
        BY <1>1, <4>1
    <3> QED
      BY <3>1, <3>2
  <2> QED
    BY <2>2
<1> QED
  BY <1>1, <1>4, <1>5 DEF r

\* Putting an mspan at the end of a cache.
LEMMA Appended ==
  ASSUME NEW S, NEW s \in Seq(S), NEW x \in S, NEW a \in Seq(S), Len(a) = Len(s) + 1,
         a[Len(s) + 1] = x, \A i \in 1 .. Len(s) : a[i] = s[i]
  PROVE  /\ ToSet(a) = ToSet(s) \cup {x}
         /\ (Distinct(s) /\ x \notin ToSet(s)) => Distinct(a)
<1>1. Len(s) \in Nat
  OBVIOUS
<1>2. /\ a \in Seq(S) /\ Len(a) = Len(s) + 1 /\ a[Len(s) + 1] = x
      /\ \A i \in 1 .. Len(s) : a[i] = s[i]
  OBVIOUS
<1>3. \A i \in 1 .. Len(s) : i \in 1 .. Len(a) /\ i # Len(s) + 1
  BY <1>1, <1>2
<1>4. \A j \in 1 .. Len(a) : j # Len(s) + 1 => j \in 1 .. Len(s)
  BY <1>1, <1>2
<1>5. ToSet(a) = ToSet(s) \cup {x}
  <2>1. \A y : y \in ToSet(a) <=> \E j \in 1 .. Len(a) : a[j] = y
    BY <1>2, InToSet
  <2>2. \A y : y \in ToSet(s) <=> \E i \in 1 .. Len(s) : s[i] = y
    BY InToSet
  <2>3. ASSUME NEW y PROVE y \in ToSet(a) <=> y \in ToSet(s) \/ y = x
    <3>1. ASSUME y \in ToSet(a), y # x PROVE y \in ToSet(s)
      <4>1. PICK j \in 1 .. Len(a) : a[j] = y
        BY <2>1, <3>1
      <4> QED
        BY <1>2, <1>4, <2>2, <3>1, <4>1
    <3>2. ASSUME y \in ToSet(s) PROVE y \in ToSet(a)
      <4>1. PICK i \in 1 .. Len(s) : s[i] = y
        BY <2>2, <3>2
      <4> QED
        BY <1>2, <1>3, <2>1, <4>1
    <3>3. x \in ToSet(a)
      <4>1. Len(s) + 1 \in 1 .. Len(a)
        BY <1>1, <1>2
      <4> QED
        BY <1>2, <2>1, <4>1
    <3> QED
      BY <3>1, <3>2, <3>3
  <2> QED
    BY <2>3
<1>6. ASSUME Distinct(s), x \notin ToSet(s) PROVE Distinct(a)
  <2>0. \A i \in 1 .. Len(s) : s[i] # x
    BY <1>6, InToSet
  <2> SUFFICES ASSUME NEW i \in 1 .. Len(a), NEW j \in 1 .. Len(a), a[i] = a[j] PROVE i = j
    BY DEF Distinct
  <2>1. CASE i = Len(s) + 1 \/ j = Len(s) + 1
    BY <1>2, <1>4, <2>0, <2>1
  <2>2. CASE i # Len(s) + 1 /\ j # Len(s) + 1
    BY <1>2, <1>4, <1>6, <2>2 DEF Distinct
  <2> QED
    BY <2>1, <2>2
<1> QED
  BY <1>5, <1>6

\* Taking the head off a list, or the last entry off a cache.
LEMMA Popped ==
  ASSUME NEW S, NEW s \in Seq(S), s # <<>>, Distinct(s)
  PROVE  /\ Tail(s) \in Seq(S) /\ Head(s) \in S /\ Distinct(Tail(s))
         /\ ToSet(s) = ToSet(Tail(s)) \cup {Head(s)} /\ Head(s) \notin ToSet(Tail(s))
         /\ Front(s) \in Seq(S) /\ Last(s) \in S /\ Distinct(Front(s))
         /\ ToSet(s) = ToSet(Front(s)) \cup {Last(s)} /\ Last(s) \notin ToSet(Front(s))
         /\ Len(Front(s)) <= Len(s)
<1> DEFINE r == Tail(s)
<1> DEFINE f == Front(s)
<1> DEFINE n == Len(s)
<1>1. /\ n \in Nat /\ n > 0 /\ r \in Seq(S) /\ Len(r) = n - 1 /\ Head(s) = s[1]
      /\ \A i \in 1 .. n - 1 : r[i] = s[i + 1]
  OBVIOUS
<1>2. /\ f \in Seq(S) /\ Len(f) = n - 1 /\ \A i \in 1 .. n - 1 : f[i] = s[i]
  BY <1>1 DEF Front
<1>3. Last(s) = s[n] /\ s[n] \in S /\ s[1] \in S
  BY <1>1 DEF Last
<1> HIDE DEF r, f, n
<1>4. \A i \in 1 .. Len(r) : i + 1 \in 1 .. n /\ s[i + 1] = r[i] /\ i + 1 # 1
  BY <1>1
<1>5. \A j \in 1 .. n : j # 1 => j - 1 \in 1 .. Len(r) /\ r[j - 1] = s[j]
  BY <1>1
<1>6. \A i \in 1 .. Len(f) : i \in 1 .. n /\ s[i] = f[i] /\ i # n
  BY <1>1, <1>2
<1>7. \A j \in 1 .. n : j # n => j \in 1 .. Len(f) /\ f[j] = s[j]
  BY <1>1, <1>2
<1>8. 1 \in 1 .. n /\ n \in 1 .. n
  BY <1>1
<1>9. ToSet(s) = ToSet(r) \cup {s[1]}
  <2>1. \A y : y \in ToSet(s) <=> \E j \in 1 .. n : s[j] = y
    BY InToSet DEF n
  <2>2. \A y : y \in ToSet(r) <=> \E i \in 1 .. Len(r) : r[i] = y
    BY <1>1, InToSet
  <2>3. ASSUME NEW y PROVE y \in ToSet(s) <=> y \in ToSet(r) \/ y = s[1]
    <3>1. ASSUME y \in ToSet(s), y # s[1] PROVE y \in ToSet(r)
      <4>1. PICK j \in 1 .. n : s[j] = y
        BY <2>1, <3>1
      <4> QED
        BY <1>5, <2>2, <3>1, <4>1
    <3>2. ASSUME y \in ToSet(r) PROVE y \in ToSet(s)
      <4>1. PICK i \in 1 .. Len(r) : r[i] = y
        BY <2>2, <3>2
      <4> QED
        BY <1>4, <2>1, <4>1
    <3>3. s[1] \in ToSet(s)
      BY <1>8, <2>1
    <3> QED
      BY <3>1, <3>2, <3>3
  <2> QED
    BY <2>3
<1>10. ToSet(s) = ToSet(f) \cup {s[n]}
  <2>1. \A y : y \in ToSet(s) <=> \E j \in 1 .. n : s[j] = y
    BY InToSet DEF n
  <2>2. \A y : y \in ToSet(f) <=> \E i \in 1 .. Len(f) : f[i] = y
    BY <1>2, InToSet
  <2>3. ASSUME NEW y PROVE y \in ToSet(s) <=> y \in ToSet(f) \/ y = s[n]
    <3>1. ASSUME y \in ToSet(s), y # s[n] PROVE y \in ToSet(f)
      <4>1. PICK j \in 1 .. n : s[j] = y
        BY <2>1, <3>1
      <4> QED
        BY <1>7, <2>2, <3>1, <4>1
    <3>2. ASSUME y \in ToSet(f) PROVE y \in ToSet(s)
      <4>1. PICK i \in 1 .. Len(f) : f[i] = y
        BY <2>2, <3>2
      <4> QED
        BY <1>6, <2>1, <4>1
    <3>3. s[n] \in ToSet(s)
      BY <1>8, <2>1
    <3> QED
      BY <3>1, <3>2, <3>3
  <2> QED
    BY <2>3
<1>11. \A i, j \in 1 .. n : s[i] = s[j] => i = j
  BY DEF Distinct, n
<1>12. s[1] \notin ToSet(r)
  <2>1. \A i \in 1 .. Len(r) : r[i] # s[1]
    <3> TAKE i \in 1 .. Len(r)
    <3>1. r[i] = s[i + 1] /\ i + 1 \in 1 .. n /\ 1 \in 1 .. n /\ i + 1 # 1
      BY <1>4, <1>8
    <3> QED
      BY <1>11, <3>1
  <2> QED
    BY <1>1, <2>1, InToSet
<1>13. s[n] \notin ToSet(f)
  <2>1. \A i \in 1 .. Len(f) : f[i] # s[n]
    BY <1>6, <1>8, <1>11
  <2> QED
    BY <1>2, <2>1, InToSet
<1>14. Distinct(r)
  <2> SUFFICES ASSUME NEW i \in 1 .. Len(r), NEW j \in 1 .. Len(r), r[i] = r[j] PROVE i = j
    BY DEF Distinct
  <2>1. i + 1 = j + 1
    BY <1>4, <1>11
  <2> QED
    BY <1>1, <2>1
<1>15. Distinct(f)
  BY <1>6, <1>11 DEF Distinct
<1>16. Len(f) <= n
  BY <1>1, <1>2
<1> QED
  BY <1>1, <1>2, <1>3, <1>9, <1>10, <1>12, <1>13, <1>14, <1>15, <1>16 DEF r, f, n

\* What it is to be in some place.
LEMMA InKnown ==
  ASSUME NEW L, NEW C, NEW V, NEW x
  PROVE  x \in KnownIn(L, C, V) <=> x \in V \/ x \in ToSet(L) \/ \E p \in Ps : x \in ToSet(C[p])
BY Zenon DEF KnownIn

\* An mspan is taken off the list.
LEMMA TakeOffList ==
  ASSUME NEW L \in Seq(Spans), NEW C \in [Ps -> Seq(Spans)], NEW V, Tidy(L, C, V), L # <<>>
  PROVE  /\ Tail(L) \in Seq(Spans) /\ Head(L) \in Spans /\ Tidy(Tail(L), C, V)
         /\ Head(L) \notin KnownIn(Tail(L), C, V)
         /\ KnownIn(L, C, V) = KnownIn(Tail(L), C, V) \cup {Head(L)}
<1> DEFINE R == Tail(L)
<1> DEFINE s == Head(L)
<1>1. /\ R \in Seq(Spans) /\ s \in Spans /\ Distinct(R)
      /\ ToSet(L) = ToSet(R) \cup {s} /\ s \notin ToSet(R)
  BY Popped DEF Tidy
<1> HIDE DEF R, s
<1>2. Tidy(R, C, V)
  BY <1>1 DEF Tidy
<1>3. s \notin V /\ \A p \in Ps : s \notin ToSet(C[p])
  BY <1>1 DEF Tidy
<1>4. s \notin KnownIn(R, C, V)
  BY <1>1, <1>3, InKnown
<1>5. \A x : x \in KnownIn(L, C, V) <=> x \in KnownIn(R, C, V) \cup {s}
  BY <1>1, InKnown
<1> QED
  BY <1>1, <1>2, <1>4, <1>5 DEF R, s

\* The caches D are the caches C without the last of p's.
Shrunk(C, D, p) ==
  /\ C \in [Ps -> Seq(Spans)] /\ p \in Ps /\ C[p] # <<>> /\ D = [q \in Ps |-> D[q]]
  /\ D[p] = Front(C[p]) /\ \A q \in Ps : q # p => D[q] = C[q]

\* An mspan is taken off the end of a cache.
LEMMA TakeOffCache ==
  ASSUME NEW L, NEW C, NEW V, Tidy(L, C, V), NEW p, NEW D, Shrunk(C, D, p)
  PROVE  /\ D \in [Ps -> Seq(Spans)] /\ Last(C[p]) \in Spans /\ Tidy(L, D, V)
         /\ Last(C[p]) \notin KnownIn(L, D, V)
         /\ KnownIn(L, C, V) = KnownIn(L, D, V) \cup {Last(C[p])}
<1> DEFINE s == Last(C[p])
<1>0. /\ C \in [Ps -> Seq(Spans)] /\ p \in Ps /\ C[p] # <<>> /\ D = [q \in Ps |-> D[q]]
      /\ D[p] = Front(C[p]) /\ \A q \in Ps : q # p => D[q] = C[q]
  BY DEF Shrunk
<1>1. C[p] \in Seq(Spans) /\ Distinct(C[p]) /\ Len(C[p]) <= CacheLen /\ D[p] = Front(C[p])
  BY <1>0 DEF Tidy
<1>2. /\ D[p] \in Seq(Spans) /\ s \in Spans /\ Distinct(D[p])
      /\ ToSet(C[p]) = ToSet(D[p]) \cup {s} /\ s \notin ToSet(D[p]) /\ Len(D[p]) <= Len(C[p])
  BY <1>0, <1>1, Popped
<1>3. \A q \in Ps : q # p => D[q] = C[q]
  BY <1>0
<1>4. D \in [Ps -> Seq(Spans)]
  <2>1. \A q \in Ps : D[q] \in Seq(Spans)
    BY <1>0, <1>2
  <2> QED
    BY <1>0, <2>1
<1> HIDE DEF s
<1>5. Len(D[p]) <= CacheLen
  BY <1>1, <1>2, SizesAssumption
<1>6. \A q \in Ps : ToSet(D[q]) \subseteq ToSet(C[q]) /\ Distinct(D[q]) /\ Len(D[q]) <= CacheLen
  BY <1>0, <1>2, <1>3, <1>5 DEF Tidy
<1>7. Tidy(L, D, V)
  <2>1. \A q \in Ps : V \cap ToSet(D[q]) = {} /\ ToSet(L) \cap ToSet(D[q]) = {}
    BY <1>6 DEF Tidy
  <2>2. \A q, r \in Ps : q # r => ToSet(D[q]) \cap ToSet(D[r]) = {}
    BY <1>6 DEF Tidy
  <2> QED
    BY <1>6, <2>1, <2>2 DEF Tidy
<1>8. s \notin V /\ s \notin ToSet(L) /\ \A q \in Ps : s \notin ToSet(D[q])
  BY <1>0, <1>2, <1>3 DEF Tidy
<1>9. s \notin KnownIn(L, D, V)
  BY <1>8, InKnown
<1>10. \A x : x \in KnownIn(L, C, V) <=> x \in KnownIn(L, D, V) \cup {s}
  <2>1. \A x : x \in KnownIn(L, C, V) <=> x \in V \/ x \in ToSet(L) \/ \E q \in Ps : x \in ToSet(C[q])
    BY InKnown
  <2>2. \A x : x \in KnownIn(L, D, V) <=> x \in V \/ x \in ToSet(L) \/ \E q \in Ps : x \in ToSet(D[q])
    BY InKnown
  <2> QED
    BY <1>0, <1>2, <1>3, <2>1, <2>2
<1> QED
  BY <1>2, <1>3, <1>4, <1>7, <1>9, <1>10 DEF s

\* An mspan is given up by its caller.
LEMMA TakeOffHands ==
  ASSUME NEW L, NEW C, NEW V, Tidy(L, C, V), NEW s \in V
  PROVE  /\ Tidy(L, C, V \ {s}) /\ s \notin KnownIn(L, C, V \ {s})
         /\ KnownIn(L, C, V) = KnownIn(L, C, V \ {s}) \cup {s}
<1> DEFINE W == V \ {s}
<1>1. W \subseteq V /\ s \notin W /\ V = W \cup {s}
  OBVIOUS
<1> HIDE DEF W
<1>2. Tidy(L, C, W)
  BY <1>1 DEF Tidy
<1>3. s \notin ToSet(L) /\ \A p \in Ps : s \notin ToSet(C[p])
  BY DEF Tidy
<1>4. s \notin KnownIn(L, C, W)
  BY <1>1, <1>3, InKnown
<1>5. \A x : x \in KnownIn(L, C, V) <=> x \in KnownIn(L, C, W) \cup {s}
  BY <1>1, InKnown
<1> QED
  BY <1>2, <1>4, <1>5 DEF W

\* An mspan that is nowhere is put into a caller's hands.
LEMMA PutInHands ==
  ASSUME NEW L, NEW C, NEW V, Tidy(L, C, V), NEW s, s \notin KnownIn(L, C, V)
  PROVE  /\ Tidy(L, C, V \cup {s})
         /\ KnownIn(L, C, V \cup {s}) = KnownIn(L, C, V) \cup {s}
<1> DEFINE W == V \cup {s}
<1>1. \A x : x \in W <=> x \in V \/ x = s
  OBVIOUS
<1> HIDE DEF W
<1>2. s \notin V /\ s \notin ToSet(L) /\ \A p \in Ps : s \notin ToSet(C[p])
  BY InKnown
<1>3. Tidy(L, C, W)
  BY <1>1, <1>2 DEF Tidy
<1>4. \A x : x \in KnownIn(L, C, W) <=> x \in KnownIn(L, C, V) \cup {s}
  BY <1>1, InKnown
<1> QED
  BY <1>3, <1>4 DEF W

\* ... onto the list ...
LEMMA PutOnList ==
  ASSUME NEW L \in Seq(Spans), NEW C, NEW V, Tidy(L, C, V), NEW s \in Spans, s \notin KnownIn(L, C, V)
  PROVE  /\ <<s>> \o L \in Seq(Spans) /\ Tidy(<<s>> \o L, C, V)
         /\ KnownIn(<<s>> \o L, C, V) = KnownIn(L, C, V) \cup {s}
<1> DEFINE R == <<s>> \o L
<1>1. s \notin V /\ s \notin ToSet(L) /\ \A p \in Ps : s \notin ToSet(C[p])
  BY InKnown
<1>2. R \in Seq(Spans) /\ Distinct(R) /\ ToSet(R) = ToSet(L) \cup {s}
  BY <1>1, Pushed DEF Tidy
<1> HIDE DEF R
<1>3. Tidy(R, C, V)
  BY <1>1, <1>2 DEF Tidy
<1>4. \A x : x \in KnownIn(R, C, V) <=> x \in KnownIn(L, C, V) \cup {s}
  BY <1>2, InKnown
<1> QED
  BY <1>2, <1>3, <1>4 DEF R

\* The caches D are the caches C with s at the end of p's, which had room.
Grown(C, D, p, s) ==
  /\ C \in [Ps -> Seq(Spans)] /\ p \in Ps /\ s \in Spans /\ Len(C[p]) < CacheLen
  /\ D \in [Ps -> Seq(Spans)] /\ \A q \in Ps : q # p => D[q] = C[q]
  /\ Len(D[p]) = Len(C[p]) + 1 /\ D[p][Len(C[p]) + 1] = s
  /\ \A i \in 1 .. Len(C[p]) : D[p][i] = C[p][i]

\* ... or at the end of a cache that has room.
LEMMA PutInCache ==
  ASSUME NEW L, NEW C, NEW V, Tidy(L, C, V), NEW s, s \notin KnownIn(L, C, V),
         NEW p, NEW D, Grown(C, D, p, s)
  PROVE  Tidy(L, D, V) /\ KnownIn(L, D, V) = KnownIn(L, C, V) \cup {s}
<1>0. /\ C \in [Ps -> Seq(Spans)] /\ p \in Ps /\ s \in Spans /\ Len(C[p]) < CacheLen
      /\ D \in [Ps -> Seq(Spans)] /\ \A q \in Ps : q # p => D[q] = C[q]
      /\ Len(D[p]) = Len(C[p]) + 1 /\ D[p][Len(C[p]) + 1] = s
      /\ \A i \in 1 .. Len(C[p]) : D[p][i] = C[p][i]
  BY DEF Grown
<1>1. s \notin V /\ s \notin ToSet(L) /\ \A q \in Ps : s \notin ToSet(C[q])
  BY InKnown
<1>2. C[p] \in Seq(Spans) /\ Distinct(C[p]) /\ s \notin ToSet(C[p])
  BY <1>0, <1>1 DEF Tidy
<1>3. /\ D[p] \in Seq(Spans) /\ Distinct(D[p]) /\ ToSet(D[p]) = ToSet(C[p]) \cup {s}
      /\ Len(D[p]) = Len(C[p]) + 1
  <2>1. D[p] \in Seq(Spans)
    BY <1>0
  <2>2. ToSet(D[p]) = ToSet(C[p]) \cup {s} /\ Distinct(D[p])
    BY <1>0, <1>2, <2>1, Appended
  <2> QED
    BY <1>0, <2>1, <2>2
<1>4. \A q \in Ps : q # p => D[q] = C[q]
  BY <1>0
<1>6. Len(D[p]) <= CacheLen
  BY <1>0, <1>2, <1>3, SizesAssumption
<1>7. \A q \in Ps : Distinct(D[q]) /\ Len(D[q]) <= CacheLen
  BY <1>0, <1>3, <1>4, <1>6 DEF Tidy
<1>8. \A q \in Ps : V \cap ToSet(D[q]) = {} /\ ToSet(L) \cap ToSet(D[q]) = {}
  <2> TAKE q \in Ps
  <2>1. CASE q = p
    BY <1>0, <1>1, <1>3, <2>1 DEF Tidy
  <2>2. CASE q # p
    BY <1>4, <2>2 DEF Tidy
  <2> QED
    BY <2>1, <2>2
<1>9. \A q, r \in Ps : q # r => ToSet(D[q]) \cap ToSet(D[r]) = {}
  <2> SUFFICES ASSUME NEW q \in Ps, NEW r \in Ps, q # r PROVE ToSet(D[q]) \cap ToSet(D[r]) = {}
    OBVIOUS
  <2>1. ToSet(C[q]) \cap ToSet(C[r]) = {} /\ s \notin ToSet(C[q]) /\ s \notin ToSet(C[r])
    BY <1>1 DEF Tidy
  <2>2. CASE q = p
    BY <1>0, <1>3, <1>4, <2>1, <2>2
  <2>3. CASE q # p
    BY <1>3, <1>4, <2>1, <2>3
  <2> QED
    BY <2>2, <2>3
<1>10. Tidy(L, D, V)
  BY <1>7, <1>8, <1>9 DEF Tidy
<1>11. \A x : x \in KnownIn(L, D, V) <=> x \in KnownIn(L, C, V) \cup {s}
  <2>1. \A x : x \in KnownIn(L, C, V) <=> x \in V \/ x \in ToSet(L) \/ \E q \in Ps : x \in ToSet(C[q])
    BY InKnown
  <2>2. \A x : x \in KnownIn(L, D, V) <=> x \in V \/ x \in ToSet(L) \/ \E q \in Ps : x \in ToSet(D[q])
    BY InKnown
  <2>3. ASSUME NEW x
        PROVE  (\E q \in Ps : x \in ToSet(D[q])) <=> (\E q \in Ps : x \in ToSet(C[q])) \/ x = s
    BY <1>0, <1>3, <1>4
  <2> QED
    BY <2>1, <2>2, <2>3
<1> QED
  BY <1>10, <1>11

\* The mspans known now; the words of a block of fixalloc.
Known == KnownIn(spanalloc.list, mspancache, live)
FixWords == SpansPerFix * MspanWords

\* The n words from p lie in one of the blocks B that fixalloc got.
InFix(B, p, n) ==
  \E b \in B : /\ b.for = "fixchunk" /\ b.region = p[1]
               /\ b.off <= p[2] /\ p[2] + n <= b.off + b.size

\* None of the mspans K begins in the n words from p.
Untouched(K, p, n) == \A s \in K : s[1] = p[1] => s[2] < p[2] \/ s[2] >= p[2] + n

\* The n words from p can be cut into mspans.
Fresh(K, B, p, n) == p \in Spans /\ InFix(B, p, n) /\ Untouched(K, p, n)

\* Types of the allocators of mspans.
SpanTypes ==
  /\ spanalloc \in [list : Seq(Spans), chunk : Spans, left : Nat]
  /\ mspancache \in [Ps -> Seq(Spans)] /\ live \subseteq Spans
  /\ allspans \in Seq(Spans) /\ refill \in [Threads -> Int]

\* Every mspan is recorded once and is in one place.
SpanPlaces ==
  /\ SpanTypes /\ Tidy(spanalloc.list, mspancache, live)
  /\ Distinct(allspans) /\ ToSet(allspans) = Known

\* Every mspan lies in a block of fixalloc.
Carved == \A s \in Known : InFix(blocks, s, MspanWords)

\* The rest of the current block of fixalloc is not used yet.
Uncarved == spanalloc.left > 0 =>
  Fresh(Known, blocks, spanalloc.chunk, spanalloc.left * MspanWords)

\* Thread t is in fixalloc.
Fixing(t) ==
  pc[t] \in {"fixalloc", "fixchunk"} \/ (pc[t] \in Persisting /\ call[t].then = "fixchunk")

\* A block on its way to fixalloc is not used yet; the cache that is being
\* refilled has room for what is to come, and one that is pulled from is not empty.
Refilling(t) ==
  /\ pc[t] = "fixchunk" => Fresh(Known, blocks, call[t].p, FixWords)
  /\ (Fixing(t) /\ Owner(t) # NoP) =>
       refill[t] >= 1 /\ Len(mspancache[Owner(t)]) + refill[t] <= CacheLen
  /\ pc[t] = "pull" => Owner(t) # NoP /\ mspancache[Owner(t)] # <<>>

SpanInv ==
  SpanPlaces /\ (thrown = "none" => Carved /\ Uncarved /\ \A t \in Threads : Refilling(t))

\* More blocks do no harm.
LEMMA FreshKept ==
  ASSUME NEW K, NEW B, NEW A, B \subseteq A, NEW p, NEW n, Fresh(K, B, p, n)
  PROVE  Fresh(K, A, p, n)
BY DEF Fresh, InFix

\* A step of t outside the allocators of mspans.
LEMMA SpansAside ==
  ASSUME SpanInv, NEW t \in Threads, thrown = "none", UNCHANGED spanVars, blocks \subseteq blocks',
         \A u \in Threads : u # t => pc'[u] = pc[u] /\ call'[u] = call[u],
         thrown' = "none" => /\ Fixing(t)' => Fixing(t)
                             /\ pc'[t] # "pull"
                             /\ pc'[t] = "fixchunk" => Fresh(Known, blocks', call'[t].p, FixWords)
  PROVE  SpanInv'
<1>1. /\ spanalloc' = spanalloc /\ mspancache' = mspancache /\ live' = live
      /\ allspans' = allspans /\ refill' = refill
  BY DEF spanVars
<1>2. Known' = Known
  BY <1>1 DEF Known
<1>3. SpanPlaces'
  BY <1>1, <1>2 DEF SpanInv, SpanPlaces, SpanTypes
<1>4. ASSUME thrown' = "none" PROVE Carved' /\ Uncarved' /\ \A u \in Threads : Refilling(u)'
  <2>1. Carved'
    BY <1>2 DEF SpanInv, Carved, InFix
  <2>2. Uncarved'
    BY <1>1, <1>2, FreshKept DEF SpanInv, Uncarved
  <2>3. ASSUME NEW u \in Threads PROVE Refilling(u)'
    <3>1. Refilling(u)
      BY DEF SpanInv
    <3>2. CASE u = t
      <4>1. pc'[t] = "fixchunk" => Fresh(Known', blocks', call'[t].p, FixWords)
        BY <1>2, <1>4
      <4> QED
        BY <1>1, <1>4, <3>1, <3>2, <4>1 DEF Refilling, Owner
    <3>3. CASE u # t
      <4>1. pc'[u] = pc[u] /\ call'[u] = call[u] /\ (Fixing(u)' <=> Fixing(u))
        BY <3>3 DEF Fixing
      <4>2. pc'[u] = "fixchunk" => Fresh(Known', blocks', call'[u].p, FixWords)
        BY <1>2, <3>1, <4>1, FreshKept DEF Refilling
      <4> QED
        BY <1>1, <3>1, <4>1, <4>2 DEF Refilling, Owner
    <3> QED
      BY <3>2, <3>3
  <2> QED
    BY <2>1, <2>2, <2>3
<1> QED
  BY <1>3, <1>4 DEF SpanInv

\* A step of t in them: what the other threads know stays true.
LEMMA OthersKept ==
  ASSUME NEW t \in Threads, NEW u \in Threads, u # t, Refilling(u),
         pc'[u] = pc[u], call'[u] = call[u], refill'[u] = refill[u], blocks' = blocks,
         \A p \in Ps : p # Owner(t) => mspancache'[p] = mspancache[p],
         Known' = Known \/ pc[u] # "fixchunk"
  PROVE  Refilling(u)'
<1>1. Fixing(u)' <=> Fixing(u)
  BY DEF Fixing
<1>2. Owner(u) # NoP => Owner(u) \in Ps /\ Owner(u) # Owner(t)
  BY POfAssumption DEF Owner
<1>3. Owner(u) # NoP => mspancache'[Owner(u)] = mspancache[Owner(u)]
  BY <1>2
<1> QED
  BY <1>1, <1>3 DEF Refilling, Owner

\* A step of t that moves mspans from place to place.
LEMMA SpansMoved ==
  ASSUME SpanInv, NEW t \in Threads, thrown = "none", blocks' = blocks, allspans' = allspans,
         SpanTypes', Tidy(spanalloc.list, mspancache, live)', Known' = Known,
         spanalloc'.chunk = spanalloc.chunk, spanalloc'.left = spanalloc.left,
         \A u \in Threads : u # t => /\ pc'[u] = pc[u] /\ call'[u] = call[u]
                                     /\ refill'[u] = refill[u],
         \A p \in Ps : p # Owner(t) => mspancache'[p] = mspancache[p],
         Refilling(t)'
  PROVE  SpanInv'
<1>1. SpanPlaces'
  BY DEF SpanInv, SpanPlaces
<1>2. Carved' /\ Uncarved'
  BY DEF SpanInv, Carved, Uncarved
<1>3. \A u \in Threads : Refilling(u)'
  BY OthersKept DEF SpanInv
<1> QED
  BY <1>1, <1>2, <1>3 DEF SpanInv

\* Where the other threads are when t goes to l.
LEMMA PcOthers ==
  ASSUME ThreadsInv, NEW t \in Threads, NEW l, Goto(t, l)
  PROVE  pc'[t] = l /\ \A u \in Threads : u # t => pc'[u] = pc[u]
BY DEF ThreadsInv, Goto

\* persistentalloc1 returns, or goes from one step to the next.
LEMMA PersistSpans ==
  ASSUME IInv, SpanInv, NEW t \in Threads, persistentSteps(t)
  PROVE  SpanInv'
<1>1. /\ thrown = "none" /\ UNCHANGED spanVars /\ pc[t] \in Persisting
  BY DEF persistentSteps, acquire, carve, newChunk, outOfMemory, linkChunk, casChunk, largeBlock,
         noLargeBlock, At, Persisting, Carving, Linking
<1>2. MetaInv /\ ThreadsInv /\ MemoryInv
  BY <1>1 DEF IInv, MetaInv
<1>3. pc[t] # "fixchunk" /\ pc[t] # "pull"
  BY <1>1 DEF Persisting, Carving, Linking
<1>4. ASSUME NEW l \in Carving, Goto(t, l), blocks' = blocks,
             \A u \in Threads : u # t => call'[u] = call[u], call'[t].then = call[t].then
      PROVE  SpanInv'
  <2>1. pc'[t] = l /\ \A u \in Threads : u # t => pc'[u] = pc[u]
    BY <1>2, <1>4, PcOthers
  <2>2. l # "pull" /\ l # "fixchunk"
    BY DEF Carving, Linking
  <2>3. Fixing(t)' => Fixing(t)
    BY <1>1, <1>4, <2>1 DEF Fixing, Carving, Linking
  <2> QED
    BY <1>1, <1>4, <2>1, <2>2, <2>3, SpansAside
<1>5. ASSUME NEW p \in Nat \X Nat, Return(t, p), blocks \subseteq blocks',
             call[t].then = "fixchunk" => Fresh(Known, blocks', p, FixWords)
      PROVE  SpanInv'
  <2>1. call' = [call EXCEPT ![t] = [NoCall EXCEPT !.p = p]] /\ Goto(t, call[t].then)
    BY <1>5 DEF Return
  <2>2. \A u \in Threads : u # t => call'[u] = call[u]
    BY <1>2, <2>1 DEF ThreadsInv
  <2>3. call'[t].p = p
    BY <1>2, <2>1, ResultRecord DEF ThreadsInv
  <2>4. pc'[t] = call[t].then /\ \A u \in Threads : u # t => pc'[u] = pc[u]
    BY <1>2, <2>1, PcOthers
  <2>5. call[t].then \in Thens
    BY <1>2 DEF ThreadsInv, Calls
  <2>6. pc'[t] # "pull" /\ pc'[t] \notin Persisting /\ pc'[t] # "fixalloc"
    BY <2>4, <2>5 DEF Thens, Persisting, Carving, Linking
  <2>7. Fixing(t)' => Fixing(t)
    BY <1>1, <2>4, <2>6 DEF Fixing
  <2>8. pc'[t] = "fixchunk" => Fresh(Known, blocks', call'[t].p, FixWords)
    BY <1>5, <2>3, <2>4
  <2> QED
    BY <1>1, <1>5, <2>2, <2>4, <2>6, <2>7, <2>8, SpansAside
<1>6. ASSUME NEW base \in Nat, NEW off \in Nat, Take(t, base, off), EndBy(base, off),
             pc[t] \in Carving
      PROVE  SpanInv'
  <2> DEFINE n == [region |-> base, off |-> off, size |-> call[t].size, for |-> call[t].then]
  <2> DEFINE p == <<base, off>>
  <2>1. blocks' = blocks \cup {n} /\ Return(t, p)
    BY <1>6 DEF Take
  <2>2. n.region = base /\ n.off = off /\ n.size = call[t].size /\ n.for = call[t].then
    OBVIOUS
  <2>3. p \in Nat \X Nat /\ p[1] = base /\ p[2] = off
    OBVIOUS
  <2>4. call[t].then = "fixchunk" => call[t].size = FixWords
    BY <1>1, <1>2 DEF ThreadsInv, CallOK, FixWords
  <2>5. FixWords \in Nat
    BY SizesAssumption DEF FixWords
  <2> HIDE DEF n, p
  <2>6. ASSUME call[t].then = "fixchunk" PROVE InFix(blocks', p, FixWords)
    BY <2>1, <2>2, <2>3, <2>4, <2>5, <2>6 DEF InFix
  <2>7. ASSUME NEW s \in Known, s[1] = base PROVE s[2] < off
    <3>1. s \in Spans /\ InFix(blocks, s, MspanWords)
      <4>1. s \in Spans
        <5>1. ToSet(allspans) = Known /\ allspans \in Seq(Spans)
          BY DEF SpanInv, SpanPlaces, SpanTypes
        <5>2. PICK i \in 1 .. Len(allspans) : allspans[i] = s
          BY <5>1, InToSet
        <5> QED
          BY <5>1, <5>2
      <4> QED
        BY <1>1, <4>1 DEF SpanInv, Carved
    <3>2. PICK b \in blocks : b.region = base /\ b.off <= s[2] /\ s[2] + MspanWords <= b.off + b.size
      BY <2>7, <3>1 DEF InFix
    <3>3. b.off \in Nat /\ b.size \in Nat /\ b.off + b.size <= off
      BY <1>2, <1>6, <3>2 DEF MemoryInv, MemoryTypes, Blocks, EndBy
    <3>4. s[2] \in Nat /\ MspanWords \in Nat /\ MspanWords > 0
      BY <3>1, SizesAssumption DEF Spans
    <3> QED
      BY <3>2, <3>3, <3>4
  <2>8. Untouched(Known, p, FixWords)
    BY <2>3, <2>7 DEF Untouched
  <2>9. call[t].then = "fixchunk" => Fresh(Known, blocks', p, FixWords)
    BY <2>3, <2>6, <2>8 DEF Fresh, Spans
  <2> QED
    BY <1>5, <2>1, <2>3, <2>9
<1>7. CASE acquire(t)
  BY <1>4, <1>7 DEF acquire, persistVars, Carving
<1>8. CASE carve(t)
  <2>1. pc[t] \in Carving /\ \E base, off \in Nat : Take(t, base, off) /\ EndBy(base, off)
    BY <1>2, <1>8, CarveStep DEF carve, At, Carving
  <2> QED
    BY <1>6, <2>1
<1>9. CASE newChunk(t)
  BY <1>4, <1>9 DEF newChunk, Carving, Linking
<1>10. CASE outOfMemory(t)
  <2>1. thrown' # "none" /\ blocks' = blocks /\ pc' = pc /\ call' = call
    BY <1>10 DEF outOfMemory, throw
  <2> QED
    BY <1>1, <2>1, SpansAside
<1>11. CASE linkChunk(t)
  <2>1. /\ Goto(t, "cas") /\ blocks' = blocks /\ "cas" \in Carving
        /\ call' = [call EXCEPT ![t].chunks = head]
    BY <1>11 DEF linkChunk, Carving, Linking
  <2>2. call[t] \in Calls /\ call \in [Threads -> Calls]
    BY <1>2 DEF ThreadsInv
  <2>3. \A u \in Threads : u # t => call'[u] = call[u]
    BY <2>1, <2>2
  <2>4. call'[t].then = call[t].then
    BY <2>1, <2>2 DEF Calls
  <2> QED
    BY <1>4, <2>1, <2>3, <2>4
<1>12. CASE casChunk(t)
  <2>1. pc[t] \in Carving /\ "link" \in Carving
    BY <1>12 DEF casChunk, At, Carving, Linking
  <2>2. \/ \E base, off \in Nat : Take(t, base, off) /\ EndBy(base, off)
        \/ Goto(t, "link") /\ UNCHANGED <<locks, persistent, head, blocks, call>>
    BY <1>2, <1>12, CasStep
  <2> QED
    BY <1>4, <1>6, <2>1, <2>2
<1>13. ASSUME call[t].size >= MaxBlock PROVE call[t].then # "fixchunk"
  BY <1>1, <1>2, <1>13, SizesAssumption DEF ThreadsInv, CallOK, Calls
<1>14. CASE largeBlock(t)
  <2>1. call[t].size >= MaxBlock /\ blocks \subseteq blocks' /\ Return(t, <<mapped + 1, 0>>)
    BY <1>14 DEF largeBlock
  <2>2. <<mapped + 1, 0>> \in Nat \X Nat
    BY <1>2 DEF MemoryInv, MemoryTypes
  <2> QED
    BY <1>5, <1>13, <2>1, <2>2
<1>15. CASE noLargeBlock(t)
  <2>1. call[t].size >= MaxBlock /\ blocks' = blocks
    BY <1>15 DEF noLargeBlock
  <2>2. CASE Return(t, <<nil, 0>>)
    <3>1. <<nil, 0>> \in Nat \X Nat
      BY DEF nil
    <3> QED
      BY <1>5, <1>13, <2>1, <2>2, <3>1
  <2>3. CASE thrown' # "none" /\ UNCHANGED <<pc, call>>
    BY <1>1, <2>1, <2>3, SpansAside
  <2> QED
    BY <1>15, <2>2, <2>3 DEF noLargeBlock, throw
<1> QED
  BY <1>7, <1>8, <1>9, <1>10, <1>11, <1>12, <1>14, <1>15 DEF persistentSteps

\* A call of persistentalloc from outside, and the steps of grow and sysAlloc.
LEMMA AsideSpans ==
  ASSUME IInv, SpanInv, NEW t \in Threads, otherCaller(t) \/ ArenaStep(t)
  PROVE  SpanInv'
<1>1. /\ thrown = "none" /\ UNCHANGED spanVars /\ blocks' = blocks /\ pc[t] \notin Persisting
  <2>1. CASE otherCaller(t)
    BY <2>1 DEF otherCaller, Call, At, Persisting, Carving, Linking
  <2>2. CASE ArenaStep(t)
    BY <2>2, ArenaQuiet
  <2> QED
    BY <2>1, <2>2
<1>2. ThreadsInv /\ arenasCap \in Nat
  BY <1>1 DEF IInv, MetaInv
<1>3. ASSUME NEW size, NEW align, NEW then \in {"idle", "arena"}, persistentalloc(t, size, align, then)
      PROVE  SpanInv'
  <2> DEFINE c == [NoCall EXCEPT !.size = size, !.align = align, !.then = then]
  <2>1. call' = [call EXCEPT ![t] = c] /\ Goto(t, "persistent")
    BY <1>3 DEF persistentalloc
  <2>2. c.then = then
    BY DEF NoCall
  <2> HIDE DEF c
  <2>3. call'[t] = c /\ \A u \in Threads : u # t => call'[u] = call[u]
    BY <1>2, <2>1 DEF ThreadsInv
  <2>4. pc'[t] = "persistent" /\ \A u \in Threads : u # t => pc'[u] = pc[u]
    BY <1>2, <2>1, PcOthers
  <2>5. ~ Fixing(t)'
    BY <2>2, <2>3, <2>4 DEF Fixing
  <2> QED
    BY <1>1, <2>3, <2>4, <2>5, SpansAside
<1>4. ASSUME UNCHANGED call, NEW l \in {"idle", "hint", "arenas", "nomemory"},
             Goto(t, l) \/ (pc' = pc /\ pc[t] = l)
      PROVE  SpanInv'
  <2>1. pc'[t] = l /\ \A u \in Threads : u # t => pc'[u] = pc[u]
    BY <1>2, <1>4, PcOthers
  <2>2. ~ Fixing(t)'
    BY <2>1 DEF Fixing, Persisting, Carving, Linking
  <2> QED
    BY <1>1, <1>4, <2>1, <2>2, SpansAside
<1>5. ASSUME thrown' # "none", UNCHANGED <<pc, call>> PROVE SpanInv'
  BY <1>1, <1>5, SpansAside
<1>6. CASE otherCaller(t)
  BY <1>3, <1>6 DEF otherCaller
<1>7. CASE userArena(t) \/ grow(t)
  <2>1. UNCHANGED call /\ pc[t] = "idle" /\ (Goto(t, "hint") \/ pc' = pc)
    BY <1>7 DEF userArena, grow, Call, At, persistVars
  <2> QED
    BY <1>4, <2>1
<1>8. CASE tryHint(t)
  <2>1. UNCHANGED call /\ pc[t] = "hint" /\ (Goto(t, "arenas") \/ pc' = pc)
    BY <1>8 DEF tryHint, At, persistVars
  <2> QED
    BY <1>4, <2>1
<1>9. CASE anyPlace(t)
  <2>1. UNCHANGED call /\ (Goto(t, "arenas") \/ Goto(t, "nomemory"))
    BY <1>9 DEF anyPlace, persistVars
  <2> QED
    BY <1>4, <2>1
<1>10. CASE publishArena(t)
  BY <1>4, <1>10 DEF publishArena, persistVars
<1>11. CASE noMemory(t) \/ returnArena(t) \/ growInto(t)
  <2>1. UNCHANGED call /\ Goto(t, "idle")
    BY <1>11 DEF noMemory, returnArena, growInto, persistVars
  <2> QED
    BY <1>4, <2>1
<1>12. CASE nextArena(t)
  BY <1>3, <1>5, <1>12 DEF nextArena, throw
<1>13. CASE growAllArenas(t)
  BY <1>3, <1>13 DEF growAllArenas
<1>14. CASE noArenaMap(t) \/ sysMapFails(t)
  BY <1>5, <1>14 DEF noArenaMap, sysMapFails, throw, persistVars
<1> QED
  BY <1>6, <1>7, <1>8, <1>9, <1>10, <1>11, <1>12, <1>13, <1>14 DEF ArenaStep

\* Of two threads under h.lock, one.
LEMMA OneUnderLock ==
  ASSUME ThreadsInv, NEW t \in Threads, NEW u \in Threads, pc[t] \in UnderHeapLock,
         pc[u] \in UnderHeapLock
  PROVE  t = u
BY HoldsHeap

\* allocMSpanLocked puts the mspan s, which is nowhere, where it belongs.
LEMMA Delivered ==
  ASSUME IInv, SpanInv, thrown = "none", NEW t \in Threads, pc[t] = "fixalloc",
         NEW L \in Seq(Spans), Tidy(L, mspancache, live), NEW s \in Spans,
         s \notin KnownIn(L, mspancache, live), Deliver(t, s), call' = call
  PROVE  /\ mspancache' \in [Ps -> Seq(Spans)] /\ live' \subseteq Spans /\ refill' \in [Threads -> Int]
         /\ Tidy(L, mspancache', live')
         /\ KnownIn(L, mspancache', live') = KnownIn(L, mspancache, live) \cup {s}
         /\ \A u \in Threads : u # t => pc'[u] = pc[u] /\ refill'[u] = refill[u]
         /\ \A p \in Ps : p # Owner(t) => mspancache'[p] = mspancache[p]
         /\ Refilling(t)'
<1>1. ThreadsInv /\ SpanTypes /\ Refilling(t) /\ Owner(t) \in Owners
  BY OwnerType DEF IInv, MetaInv, SpanInv, SpanPlaces
<1>2. CASE Owner(t) = NoP
  <2>1. live' = live \cup {s} /\ Goto(t, "idle") /\ mspancache' = mspancache /\ refill' = refill
    BY <1>2 DEF Deliver
  <2>2. pc'[t] = "idle" /\ \A u \in Threads : u # t => pc'[u] = pc[u]
    BY <1>1, <2>1, PcOthers
  <2>3. Tidy(L, mspancache, live') /\ KnownIn(L, mspancache, live') = KnownIn(L, mspancache, live) \cup {s}
    BY <2>1, PutInHands
  <2>4. Refilling(t)'
    BY <2>2 DEF Refilling, Fixing, Persisting, Carving, Linking
  <2>5. live' \subseteq Spans /\ mspancache' \in [Ps -> Seq(Spans)] /\ refill' \in [Threads -> Int]
    BY <1>1, <2>1 DEF SpanTypes
  <2> QED
    BY <2>1, <2>2, <2>3, <2>4, <2>5
<1>3. CASE Owner(t) # NoP
  <2> DEFINE p == Owner(t)
  <2>1. /\ mspancache' = [mspancache EXCEPT ![p] = Append(mspancache[p], s)]
        /\ refill' = [refill EXCEPT ![t] = refill[t] - 1]
        /\ Goto(t, IF refill[t] = 1 THEN "pull" ELSE "fixalloc")
        /\ live' = live
    BY <1>3 DEF Deliver
  <2>2. p \in Ps /\ mspancache \in [Ps -> Seq(Spans)] /\ refill \in [Threads -> Int]
        /\ live \subseteq Spans
    BY <1>1, <1>3 DEF Owners, SpanTypes
  <2>3. refill[t] >= 1 /\ Len(mspancache[p]) + refill[t] <= CacheLen
    BY <1>1, <1>3 DEF Refilling, Fixing
  <2>4. Len(mspancache[p]) < CacheLen /\ Len(mspancache[p]) \in Nat
    BY <2>2, <2>3, SizesAssumption
  <2>5. Grown(mspancache, mspancache', p, s)
    <3>1. mspancache[p] \in Seq(Spans) /\ mspancache'[p] = Append(mspancache[p], s)
      BY <2>1, <2>2
    <3>2. /\ mspancache' \in [Ps -> Seq(Spans)]
          /\ \A q \in Ps : q # p => mspancache'[q] = mspancache[q]
      BY <2>1, <2>2
    <3>3. /\ Len(Append(mspancache[p], s)) = Len(mspancache[p]) + 1
          /\ Append(mspancache[p], s)[Len(mspancache[p]) + 1] = s
          /\ \A i \in 1 .. Len(mspancache[p]) : Append(mspancache[p], s)[i] = mspancache[p][i]
      BY <3>1
    <3> QED
      BY <2>2, <2>4, <3>1, <3>2, <3>3, Zenon DEF Grown
  <2> HIDE DEF p
  <2>6. /\ Tidy(L, mspancache', live)
        /\ KnownIn(L, mspancache', live) = KnownIn(L, mspancache, live) \cup {s}
    BY <2>5, PutInCache
  <2>7. refill'[t] = refill[t] - 1 /\ refill' \in [Threads -> Int]
        /\ \A u \in Threads : u # t => refill'[u] = refill[u]
    BY <2>1, <2>2
  <2>8. /\ pc'[t] = (IF refill[t] = 1 THEN "pull" ELSE "fixalloc")
        /\ \A u \in Threads : u # t => pc'[u] = pc[u]
    BY <1>1, <2>1, PcOthers
  <2>9. mspancache'[p] # <<>>
    BY <2>4, <2>5 DEF Grown
  <2>10. pc'[t] = "fixalloc" => refill'[t] >= 1
    BY <2>2, <2>3, <2>7, <2>8
  <2>11. Len(mspancache'[p]) + refill'[t] <= CacheLen
    BY <2>2, <2>3, <2>4, <2>5, <2>7, SizesAssumption DEF Grown
  <2>12. pc'[t] # "fixchunk" /\ (Fixing(t)' => pc'[t] = "fixalloc")
    BY <2>8 DEF Fixing, Persisting, Carving, Linking
  <2>13. Refilling(t)'
    BY <1>3, <2>9, <2>10, <2>11, <2>12 DEF Refilling, Owner, p
  <2> QED
    BY <2>1, <2>2, <2>5, <2>6, <2>7, <2>8, <2>13 DEF p, Grown
<1> QED
  BY <1>2, <1>3

\* An mspan goes from the end of a cache into a caller's hands.
LEMMA CacheToHands ==
  ASSUME NEW L, NEW C, NEW V, Tidy(L, C, V), NEW p, NEW D, Shrunk(C, D, p), NEW W,
         W = V \cup {Last(C[p])}
  PROVE  /\ D \in [Ps -> Seq(Spans)] /\ Last(C[p]) \in Spans /\ Tidy(L, D, W)
         /\ KnownIn(L, D, W) = KnownIn(L, C, V)
<1> DEFINE s == Last(C[p])
<1>1. /\ D \in [Ps -> Seq(Spans)] /\ s \in Spans /\ Tidy(L, D, V)
      /\ s \notin KnownIn(L, D, V) /\ KnownIn(L, C, V) = KnownIn(L, D, V) \cup {s}
  BY TakeOffCache
<1>2. W = V \cup {s}
  OBVIOUS
<1> HIDE DEF s
<1>3. Tidy(L, D, W) /\ KnownIn(L, D, W) = KnownIn(L, D, V) \cup {s}
  <2>1. Tidy(L, D, V) /\ s \notin KnownIn(L, D, V)
    BY <1>1
  <2> QED
    BY <1>2, <2>1, PutInHands
<1> QED
  BY <1>1, <1>3 DEF s

\* The last mspan of a cache goes into the caller's hands.
LEMMA Pulled ==
  ASSUME SpanInv, NEW p, Shrunk(mspancache, mspancache', p), live' = live \cup {Last(mspancache[p])},
         UNCHANGED <<spanalloc, allspans, refill>>
  PROVE  /\ SpanTypes' /\ Tidy(spanalloc.list, mspancache, live)' /\ Known' = Known
         /\ \A q \in Ps : q # p => mspancache'[q] = mspancache[q]
<1> DEFINE s == Last(mspancache[p])
<1> DEFINE L == spanalloc.list
<1>1. SpanTypes /\ Tidy(L, mspancache, live)
  BY DEF SpanInv, SpanPlaces
<1> HIDE DEF L
<1>3. /\ mspancache' \in [Ps -> Seq(Spans)] /\ s \in Spans /\ Tidy(L, mspancache', live')
      /\ KnownIn(L, mspancache', live') = KnownIn(L, mspancache, live)
  BY <1>1, CacheToHands
<1> HIDE DEF s
<1>5. live' = live \cup {s} /\ L = spanalloc'.list
  BY DEF s, L
<1>6. SpanTypes'
  BY <1>1, <1>3, <1>5 DEF SpanTypes
<1>7. Known' = Known
  <2>1. Known' = KnownIn(L, mspancache', live')
    BY DEF Known, L
  <2>2. Known = KnownIn(L, mspancache, live)
    BY DEF Known, L
  <2> QED
    BY <1>3, <2>1, <2>2
<1>8. Tidy(spanalloc.list, mspancache, live)'
  BY <1>3, <1>5
<1> QED
  BY <1>6, <1>7, <1>8 DEF Shrunk

\* A call of allocMSpanLocked starts.
LEMMA AllocStarts ==
  ASSUME IInv, SpanInv, NEW t \in Threads, allocMSpanLocked(t)
  PROVE  SpanInv'
<1> DEFINE cached == Owner(t) # NoP /\ mspancache[Owner(t)] # <<>>
<1>1. /\ thrown = "none" /\ blocks' = blocks /\ call' = call
      /\ UNCHANGED <<spanalloc, allspans, mspancache, live>>
      /\ Goto(t, IF cached THEN "pull" ELSE "fixalloc")
      /\ refill' = [refill EXCEPT ![t] = IF Owner(t) = NoP \/ cached THEN 0 ELSE CacheLen \div 2]
  BY DEF allocMSpanLocked, Call, At, persistVars
<1>2. ThreadsInv /\ SpanTypes /\ Owner(t) \in Owners
  BY <1>1, OwnerType DEF IInv, MetaInv, SpanInv, SpanPlaces
<1>3. CacheLen \div 2 \in Nat /\ CacheLen \div 2 >= 1 /\ CacheLen \div 2 <= CacheLen
  BY SizesAssumption
<1>4. /\ refill' \in [Threads -> Int] /\ \A u \in Threads : u # t => refill'[u] = refill[u]
      /\ refill'[t] = IF Owner(t) = NoP \/ cached THEN 0 ELSE CacheLen \div 2
  BY <1>1, <1>2, <1>3 DEF SpanTypes
<1>5. /\ pc'[t] = IF cached THEN "pull" ELSE "fixalloc"
      /\ \A u \in Threads : u # t => pc'[u] = pc[u]
  BY <1>1, <1>2, PcOthers
<1>6. SpanTypes' /\ Known' = Known /\ Tidy(spanalloc.list, mspancache, live)'
  BY <1>1, <1>2, <1>4 DEF SpanTypes, Known, SpanInv, SpanPlaces
<1>7. Refilling(t)'
  <2>1. pc'[t] # "fixchunk" /\ (Fixing(t)' => ~ cached)
    BY <1>5 DEF Fixing, Persisting, Carving, Linking
  <2>2. pc'[t] = "pull" => cached
    BY <1>5
  <2>3. ~ cached /\ Owner(t) # NoP => Len(mspancache[Owner(t)]) = 0
    BY <1>2 DEF SpanTypes, Owners
  <2>4. (~ cached /\ Owner(t) # NoP) =>
          refill'[t] >= 1 /\ Len(mspancache[Owner(t)]) + refill'[t] <= CacheLen
    BY <1>3, <1>4, <2>3
  <2> QED
    BY <1>1, <2>1, <2>2, <2>4 DEF Refilling, Owner
<1> QED
  BY <1>1, <1>4, <1>5, <1>6, <1>7, SpansMoved

\* The end of allocMSpanLocked, and tryAllocMSpan.
LEMMA PullSpans ==
  ASSUME IInv, SpanInv, NEW t \in Threads, pullCached(t) \/ tryAllocMSpan(t)
  PROVE  SpanInv'
<1>1. /\ thrown = "none" /\ blocks' = blocks /\ call' = call
      /\ UNCHANGED <<spanalloc, allspans, spansCap, refill>>
      /\ Goto(t, "idle") \/ (pc[t] = "idle" /\ pc' = pc)
  BY DEF pullCached, tryAllocMSpan, Call, At, persistVars
<1>2. ThreadsInv /\ SpanTypes /\ Owner(t) \in Owners
  BY <1>1, OwnerType DEF IInv, MetaInv, SpanInv, SpanPlaces
<1>3. pc'[t] = "idle" /\ \A u \in Threads : u # t => pc'[u] = pc[u]
  BY <1>1, <1>2, PcOthers
<1>4. ~ Fixing(t)'
  BY <1>3 DEF Fixing, Persisting, Carving, Linking
<1>5. CASE UNCHANGED <<live, mspancache>>
  BY <1>1, <1>3, <1>4, <1>5, SpansAside DEF spanVars
<1>6. ASSUME Owner(t) # NoP, mspancache[Owner(t)] # <<>>,
             live' = live \cup {Last(mspancache[Owner(t)])},
             mspancache' = [mspancache EXCEPT ![Owner(t)] = Front(mspancache[Owner(t)])]
      PROVE  SpanInv'
  <2>1. Owner(t) \in Ps
    BY <1>2, <1>6 DEF Owners
  <2>2. /\ SpanTypes' /\ Tidy(spanalloc.list, mspancache, live)' /\ Known' = Known
        /\ \A q \in Ps : q # Owner(t) => mspancache'[q] = mspancache[q]
    <3>1. mspancache \in [Ps -> Seq(Spans)]
      BY <1>2 DEF SpanTypes
    <3>2. Shrunk(mspancache, mspancache', Owner(t))
      BY <1>6, <2>1, <3>1 DEF Shrunk
    <3>3. /\ live' = live \cup {Last(mspancache[Owner(t)])}
          /\ UNCHANGED <<spanalloc, allspans, refill>>
      BY <1>1, <1>6
    <3> QED
      BY <3>2, <3>3, Pulled
  <2>3. Refilling(t)'
    BY <1>3, <1>4 DEF Refilling
  <2> QED
    BY <1>1, <1>3, <2>2, <2>3, SpansMoved
<1>7. CASE pullCached(t)
  <2>1. Owner(t) # NoP /\ mspancache[Owner(t)] # <<>>
    BY <1>1, <1>7 DEF SpanInv, Refilling, pullCached, At
  <2> QED
    BY <1>6, <1>7, <2>1 DEF pullCached
<1>8. CASE tryAllocMSpan(t)
  BY <1>5, <1>6, <1>8 DEF tryAllocMSpan
<1> QED
  BY <1>7, <1>8

\* A caller gives an mspan back.
LEMMA FreeSpans ==
  ASSUME IInv, SpanInv, NEW t \in Threads, freeMSpanLocked(t)
  PROVE  SpanInv'
<1> DEFINE L == spanalloc.list
<1>1. PICK s \in live :
        /\ live' = live \ {s}
        /\ IF Owner(t) # NoP /\ Len(mspancache[Owner(t)]) < CacheLen
           THEN /\ mspancache' = [mspancache EXCEPT ![Owner(t)] = Append(mspancache[Owner(t)], s)]
                /\ UNCHANGED spanalloc
           ELSE /\ spanalloc' = [spanalloc EXCEPT !.list = <<s>> \o L]
                /\ UNCHANGED mspancache
  BY DEF freeMSpanLocked
<1>2. /\ thrown = "none" /\ pc[t] = "idle" /\ blocks' = blocks /\ call' = call /\ pc' = pc
      /\ UNCHANGED <<allspans, refill>>
  BY DEF freeMSpanLocked, Call, At, persistVars
<1>3. ThreadsInv /\ SpanTypes /\ Owner(t) \in Owners /\ Tidy(L, mspancache, live)
  BY <1>2, OwnerType DEF IInv, MetaInv, SpanInv, SpanPlaces
<1>4. s \in Spans /\ L \in Seq(Spans) /\ mspancache \in [Ps -> Seq(Spans)] /\ live' \subseteq Spans
  BY <1>1, <1>3 DEF SpanTypes
<1>5. /\ Tidy(L, mspancache, live') /\ s \notin KnownIn(L, mspancache, live')
      /\ KnownIn(L, mspancache, live) = KnownIn(L, mspancache, live') \cup {s}
  <2>1. /\ Tidy(L, mspancache, live \ {s}) /\ s \notin KnownIn(L, mspancache, live \ {s})
        /\ KnownIn(L, mspancache, live) = KnownIn(L, mspancache, live \ {s}) \cup {s}
    BY <1>3, TakeOffHands
  <2> QED
    BY <1>1, <2>1
<1>6. Refilling(t)'
  BY <1>2 DEF Refilling, Fixing, Persisting, Carving, Linking
<1>7. CASE Owner(t) # NoP /\ Len(mspancache[Owner(t)]) < CacheLen
  <2> DEFINE p == Owner(t)
  <2>1. /\ mspancache' = [mspancache EXCEPT ![p] = Append(mspancache[p], s)] /\ spanalloc' = spanalloc
        /\ p \in Ps
    BY <1>1, <1>3, <1>7 DEF Owners
  <2>2. Grown(mspancache, mspancache', p, s)
    <3>1. mspancache[p] \in Seq(Spans) /\ mspancache'[p] = Append(mspancache[p], s)
      BY <1>4, <2>1
    <3>2. /\ mspancache' \in [Ps -> Seq(Spans)]
          /\ \A q \in Ps : q # p => mspancache'[q] = mspancache[q]
      BY <1>4, <2>1
    <3>3. /\ Len(Append(mspancache[p], s)) = Len(mspancache[p]) + 1
          /\ Append(mspancache[p], s)[Len(mspancache[p]) + 1] = s
          /\ \A i \in 1 .. Len(mspancache[p]) : Append(mspancache[p], s)[i] = mspancache[p][i]
      BY <1>4, <3>1
    <3> QED
      BY <1>4, <1>7, <2>1, <3>1, <3>2, <3>3, Zenon DEF Grown
  <2> HIDE DEF L, p
  <2>3. /\ Tidy(L, mspancache', live')
        /\ KnownIn(L, mspancache', live') = KnownIn(L, mspancache, live') \cup {s}
    BY <1>5, <2>2, PutInCache
  <2>4. SpanTypes'
    BY <1>2, <1>3, <1>4, <2>1, <2>2 DEF SpanTypes, Grown
  <2>5. Known' = Known
    BY <1>5, <2>1, <2>3 DEF Known, L
  <2>6. Tidy(spanalloc.list, mspancache, live)'
    BY <2>1, <2>3 DEF L
  <2>7. \A q \in Ps : q # Owner(t) => mspancache'[q] = mspancache[q]
    BY <2>2 DEF Grown, p
  <2> QED
    BY <1>2, <1>6, <2>1, <2>4, <2>5, <2>6, <2>7, SpansMoved
<1>8. CASE ~ (Owner(t) # NoP /\ Len(mspancache[Owner(t)]) < CacheLen)
  <2> DEFINE R == <<s>> \o L
  <2>1. spanalloc' = [spanalloc EXCEPT !.list = R] /\ mspancache' = mspancache
    BY <1>1, <1>8
  <2>2. /\ R \in Seq(Spans) /\ Tidy(R, mspancache, live')
        /\ KnownIn(R, mspancache, live') = KnownIn(L, mspancache, live') \cup {s}
    BY <1>4, <1>5, PutOnList
  <2> HIDE DEF R
  <2>3. /\ spanalloc' \in [list : Seq(Spans), chunk : Spans, left : Nat] /\ spanalloc'.list = R
        /\ spanalloc'.chunk = spanalloc.chunk /\ spanalloc'.left = spanalloc.left
    BY <1>3, <2>1, <2>2 DEF SpanTypes
  <2>4. SpanTypes'
    BY <1>2, <1>3, <1>4, <2>1, <2>3 DEF SpanTypes
  <2>5. Known' = Known
    BY <1>5, <2>1, <2>2, <2>3 DEF Known
  <2>6. Tidy(spanalloc.list, mspancache, live)'
    BY <2>1, <2>2, <2>3
  <2> QED
    BY <1>2, <1>6, <2>1, <2>3, <2>4, <2>5, <2>6, SpansMoved
<1> QED
  BY <1>7, <1>8

\* fixalloc gives an mspan of its list.
LEMMA ReuseSpans ==
  ASSUME IInv, SpanInv, NEW t \in Threads, fixallocReuse(t)
  PROVE  SpanInv'
<1> DEFINE L == spanalloc.list
<1> DEFINE R == Tail(L)
<1> DEFINE s == Head(L)
<1>1. /\ thrown = "none" /\ pc[t] = "fixalloc" /\ L # <<>> /\ blocks' = blocks /\ call' = call
      /\ spanalloc' = [spanalloc EXCEPT !.list = R] /\ Deliver(t, s) /\ allspans' = allspans
  BY DEF fixallocReuse, At, persistVars
<1>2. SpanTypes /\ Tidy(L, mspancache, live) /\ L \in Seq(Spans) /\ mspancache \in [Ps -> Seq(Spans)]
  BY DEF SpanInv, SpanPlaces, SpanTypes
<1>3. /\ R \in Seq(Spans) /\ s \in Spans /\ Tidy(R, mspancache, live)
      /\ s \notin KnownIn(R, mspancache, live)
      /\ KnownIn(L, mspancache, live) = KnownIn(R, mspancache, live) \cup {s}
  BY <1>1, <1>2, TakeOffList
<1>4. /\ spanalloc' \in [list : Seq(Spans), chunk : Spans, left : Nat] /\ spanalloc'.list = R
      /\ spanalloc'.chunk = spanalloc.chunk /\ spanalloc'.left = spanalloc.left
  BY <1>1, <1>2, <1>3 DEF SpanTypes
<1> HIDE DEF R, s
<1>5. /\ mspancache' \in [Ps -> Seq(Spans)] /\ live' \subseteq Spans /\ refill' \in [Threads -> Int]
      /\ Tidy(R, mspancache', live')
      /\ KnownIn(R, mspancache', live') = KnownIn(R, mspancache, live) \cup {s}
      /\ \A u \in Threads : u # t => pc'[u] = pc[u] /\ refill'[u] = refill[u]
      /\ \A p \in Ps : p # Owner(t) => mspancache'[p] = mspancache[p]
      /\ Refilling(t)'
  BY <1>1, <1>3, Delivered
<1>6. SpanTypes'
  BY <1>1, <1>2, <1>4, <1>5 DEF SpanTypes
<1>7. Known' = Known /\ Tidy(spanalloc.list, mspancache, live)'
  BY <1>3, <1>4, <1>5 DEF Known
<1> QED
  BY <1>1, <1>4, <1>5, <1>6, <1>7, SpansMoved

\* fixalloc asks for a block.
LEMMA RefillSpans ==
  ASSUME IInv, SpanInv, NEW t \in Threads, fixallocRefill(t)
  PROVE  SpanInv'
<1>1. /\ thrown = "none" /\ pc[t] = "fixalloc" /\ blocks' = blocks /\ UNCHANGED spanVars
      /\ Goto(t, "persistent") /\ \E c : call' = [call EXCEPT ![t] = c]
  BY DEF fixallocRefill, At, persistentalloc
<1>2. ThreadsInv
  BY <1>1 DEF IInv, MetaInv
<1>3. pc'[t] = "persistent" /\ \A u \in Threads : u # t => pc'[u] = pc[u] /\ call'[u] = call[u]
  BY <1>1, <1>2, PcOthers DEF ThreadsInv
<1>4. Fixing(t)
  BY <1>1 DEF Fixing
<1> QED
  BY <1>1, <1>3, <1>4, SpansAside

\* fixalloc has its block.
LEMMA ChunkSpans ==
  ASSUME IInv, SpanInv, NEW t \in Threads, fixallocChunk(t)
  PROVE  SpanInv'
<1>1. /\ thrown = "none" /\ pc[t] = "fixchunk" /\ blocks' = blocks /\ call' = call
      /\ spanalloc' = [spanalloc EXCEPT !.chunk = call[t].p, !.left = SpansPerFix]
      /\ UNCHANGED <<allspans, mspancache, refill, live>> /\ Goto(t, "fixalloc")
  BY DEF fixallocChunk, At, persistVars
<1>2. ThreadsInv /\ SpanPlaces /\ Carved /\ \A u \in Threads : Refilling(u)
  BY <1>1 DEF IInv, MetaInv, SpanInv
<1>3. Fresh(Known, blocks, call[t].p, FixWords)
  BY <1>1, <1>2 DEF Refilling
<1>4. call[t].p \in Spans /\ SpansPerFix \in Nat
  BY <1>3, SizesAssumption DEF Fresh
<1>5. /\ spanalloc' \in [list : Seq(Spans), chunk : Spans, left : Nat]
      /\ spanalloc'.list = spanalloc.list /\ spanalloc'.chunk = call[t].p
      /\ spanalloc'.left = SpansPerFix
  BY <1>1, <1>2, <1>4 DEF SpanPlaces, SpanTypes
<1>6. Known' = Known
  BY <1>1, <1>5 DEF Known
<1>7. SpanPlaces'
  BY <1>1, <1>2, <1>5, <1>6 DEF SpanPlaces, SpanTypes
<1>8. Carved' /\ Uncarved'
  BY <1>1, <1>2, <1>3, <1>5, <1>6 DEF Carved, Uncarved, FixWords
<1>9. pc'[t] = "fixalloc" /\ \A u \in Threads : u # t => pc'[u] = pc[u]
  BY <1>1, <1>2, PcOthers
<1>10. Refilling(t)'
  <2>1. Fixing(t)
    BY <1>1 DEF Fixing
  <2> QED
    BY <1>1, <1>2, <1>9, <2>1 DEF Refilling, Owner
<1>11. ASSUME NEW u \in Threads, u # t PROVE Refilling(u)'
  <2>1. Refilling(u) /\ pc'[u] = pc[u] /\ call'[u] = call[u] /\ refill'[u] = refill[u]
    BY <1>1, <1>2, <1>9, <1>11
  <2> QED
    BY <1>1, <1>6, <1>11, <2>1, OthersKept
<1> QED
  BY <1>7, <1>8, <1>10, <1>11 DEF SpanInv

\* The first n words of what can be cut into mspans, and the rest.
LEMMA FreshCut ==
  ASSUME NEW K \in SUBSET Spans, NEW B \in SUBSET Blocks, NEW c \in Spans, NEW w \in Nat, w > 0,
         NEW m \in Nat, Fresh(K, B, c, w + m)
  PROVE  /\ c \notin K /\ InFix(B, c, w)
         /\ Fresh(K \cup {c}, B, <<c[1], c[2] + w>>, m)
<1> DEFINE d == <<c[1], c[2] + w>>
<1>1. c[1] \in Nat /\ c[2] \in Nat /\ d \in Spans /\ d[1] = c[1] /\ d[2] = c[2] + w
  BY DEF Spans
<1>2. PICK b \in B : /\ b.for = "fixchunk" /\ b.region = c[1]
                     /\ b.off <= c[2] /\ c[2] + (w + m) <= b.off + b.size
  BY DEF Fresh, InFix
<1>3. b.off \in Nat /\ b.size \in Nat
  BY DEF Blocks
<1> HIDE DEF d
<1>4. InFix(B, c, w)
  <2>1. c[2] + w <= b.off + b.size
    BY <1>1, <1>2, <1>3
  <2> QED
    BY <1>2, <2>1 DEF InFix
<1>5. InFix(B, d, m)
  <2>1. b.off <= d[2] /\ d[2] + m <= b.off + b.size
    BY <1>1, <1>2, <1>3
  <2> QED
    BY <1>1, <1>2, <2>1 DEF InFix
<1>6. c \notin K
  BY <1>1 DEF Fresh, Untouched
<1>7. Untouched(K \cup {c}, d, m)
  <2> SUFFICES ASSUME NEW s \in K \cup {c}, s[1] = d[1] PROVE s[2] < d[2] \/ s[2] >= d[2] + m
    BY DEF Untouched
  <2>1. CASE s = c
    BY <1>1, <2>1
  <2>2. CASE s \in K
    <3>1. s[2] \in Nat /\ (s[2] < c[2] \/ s[2] >= c[2] + (w + m))
      BY <1>1, <2>2 DEF Fresh, Untouched, Spans
    <3> QED
      BY <1>1, <3>1
  <2> QED
    BY <2>1, <2>2
<1> QED
  BY <1>1, <1>4, <1>5, <1>6, <1>7 DEF Fresh, d

\* fixalloc cuts an mspan off its block.
LEMMA CarveSpans ==
  ASSUME IInv, SpanInv, NEW t \in Threads, fixallocCarve(t)
  PROVE  SpanInv'
<1> DEFINE L == spanalloc.list
<1> DEFINE s == spanalloc.chunk
<1> DEFINE d == <<s[1], s[2] + MspanWords>>
<1> DEFINE n == spanalloc.left - 1
<1>1. SpanPlaces /\ L \in Seq(Spans) /\ s \in Spans /\ spanalloc.left \in Nat
      /\ allspans \in Seq(Spans) /\ s = <<s[1], s[2]>> /\ d \in Spans
  <2>1. SpanPlaces /\ L \in Seq(Spans) /\ s \in Spans /\ spanalloc.left \in Nat /\ allspans \in Seq(Spans)
    BY DEF SpanInv, SpanPlaces, SpanTypes
  <2>2. MspanWords \in Nat
    BY SizesAssumption
  <2> HIDE DEF s
  <2> QED
    BY <2>1, <2>2 DEF Spans
<1>2. /\ thrown = "none" /\ pc[t] = "fixalloc" /\ spanalloc.left > 0
      /\ blocks' = blocks /\ call' = call
  BY DEF fixallocCarve, At, persistVars
<1>3. /\ allspans' = Append(allspans, s) /\ Deliver(t, s)
      /\ spanalloc' = [spanalloc EXCEPT !.chunk = d, !.left = n]
  BY <1>1 DEF fixallocCarve, recordspan
<1>4. ThreadsInv /\ MemoryInv /\ Carved /\ Uncarved /\ \A u \in Threads : Refilling(u)
  BY <1>2 DEF IInv, MetaInv, SpanInv
<1>5. n \in Nat /\ MspanWords \in Nat /\ MspanWords > 0
      /\ spanalloc.left * MspanWords = MspanWords + n * MspanWords /\ n * MspanWords \in Nat
  <2>1. n \in Nat /\ MspanWords \in Nat /\ MspanWords > 0 /\ spanalloc.left = n + 1
    BY <1>1, <1>2, SizesAssumption
  <2> HIDE DEF n
  <2> QED
    BY <2>1
<1>6. Known \subseteq Spans /\ blocks \subseteq Blocks
  <2>1. ToSet(allspans) = Known
    BY <1>1 DEF SpanPlaces
  <2>2. ASSUME NEW x \in Known PROVE x \in Spans
    <3>1. PICK i \in 1 .. Len(allspans) : allspans[i] = x
      BY <1>1, <2>1, InToSet
    <3> QED
      BY <1>1, <3>1
  <2> QED
    BY <1>4, <2>2 DEF MemoryInv, MemoryTypes
<1>7. /\ spanalloc' \in [list : Seq(Spans), chunk : Spans, left : Nat]
      /\ spanalloc'.list = L /\ spanalloc'.chunk = d /\ spanalloc'.left = n
  <2>1. spanalloc \in [list : Seq(Spans), chunk : Spans, left : Nat]
    BY <1>1 DEF SpanPlaces, SpanTypes
  <2> HIDE DEF n, d
  <2> QED
    BY <1>1, <1>3, <1>5, <2>1
<1>8. Fresh(Known, blocks, s, MspanWords + n * MspanWords)
  BY <1>2, <1>4, <1>5 DEF Uncarved
<1> DEFINE m == n * MspanWords
<1> HIDE DEF m, n
<1>9. /\ s \notin Known /\ InFix(blocks, s, MspanWords)
      /\ Fresh(Known \cup {s}, blocks, d, m)
  BY <1>1, <1>5, <1>6, <1>8, FreshCut DEF m
<1> HIDE DEF d
<1>10. Tidy(L, mspancache, live) /\ s \notin KnownIn(L, mspancache, live)
  BY <1>1, <1>9 DEF SpanPlaces, Known
<1>11. /\ mspancache' \in [Ps -> Seq(Spans)] /\ live' \subseteq Spans /\ refill' \in [Threads -> Int]
       /\ Tidy(L, mspancache', live')
       /\ KnownIn(L, mspancache', live') = KnownIn(L, mspancache, live) \cup {s}
       /\ \A u \in Threads : u # t => pc'[u] = pc[u] /\ refill'[u] = refill[u]
       /\ \A p \in Ps : p # Owner(t) => mspancache'[p] = mspancache[p]
       /\ Refilling(t)'
  <2> HIDE DEF L, s
  <2> QED
    BY <1>1, <1>2, <1>3, <1>10, Delivered
<1>12. Known' = Known \cup {s} /\ Tidy(spanalloc.list, mspancache, live)'
  BY <1>7, <1>11 DEF Known
<1>13. allspans' \in Seq(Spans) /\ Distinct(allspans') /\ ToSet(allspans') = Known \cup {s}
  <2>1. Distinct(allspans) /\ ToSet(allspans) = Known
    BY <1>1 DEF SpanPlaces
  <2> DEFINE a == Append(allspans, s)
  <2>2. /\ a \in Seq(Spans) /\ Len(a) = Len(allspans) + 1 /\ a[Len(allspans) + 1] = s
        /\ \A i \in 1 .. Len(allspans) : a[i] = allspans[i]
    BY <1>1
  <2>3. allspans' = a
    BY <1>3
  <2> HIDE DEF a, s
  <2>4. ToSet(a) = ToSet(allspans) \cup {s} /\ Distinct(a)
    BY <1>1, <1>9, <2>1, <2>2, Appended
  <2> QED
    BY <2>1, <2>2, <2>3, <2>4
<1>14. SpanPlaces'
  BY <1>7, <1>11, <1>12, <1>13 DEF SpanPlaces, SpanTypes
<1>15. Carved'
  BY <1>2, <1>4, <1>9, <1>12 DEF Carved
<1>16. Uncarved'
  BY <1>2, <1>7, <1>9, <1>12 DEF Uncarved, m
<1>17. ASSUME NEW u \in Threads, u # t PROVE Refilling(u)'
  <2>1. pc[u] # "fixchunk"
    BY <1>2, <1>4, <1>17, OneUnderLock DEF UnderHeapLock
  <2>2. Refilling(u) /\ pc'[u] = pc[u] /\ call'[u] = call[u] /\ refill'[u] = refill[u]
    BY <1>2, <1>4, <1>11, <1>17
  <2> QED
    BY <1>2, <1>11, <1>17, <2>1, <2>2, OthersKept
<1> QED
  BY <1>11, <1>14, <1>15, <1>16, <1>17 DEF SpanInv

\* Nothing is in a sequence of length 0.
LEMMA EmptyToSet ==
  ASSUME NEW S, NEW s \in Seq(S), Len(s) = 0
  PROVE  ToSet(s) = {} /\ Distinct(s)
<1>1. \A x : x \in ToSet(s) <=> \E i \in 1 .. Len(s) : s[i] = x
  BY InToSet
<1>2. 1 .. Len(s) = {}
  OBVIOUS
<1> QED
  BY <1>1, <1>2 DEF Distinct

\* Initially there is no mspan.
LEMMA SpanInit == Init => SpanInv
<1> SUFFICES ASSUME Init PROVE SpanInv
  OBVIOUS
<1>1. ToSet(<<>>) = {} /\ Distinct(<<>>)
  <2>1. <<>> \in Seq(Spans) /\ Len(<<>>) = 0
    OBVIOUS
  <2> QED
    BY <2>1, EmptyToSet
<1> USE DEF Init, MetaInit
<1>2. spanalloc.list = <<>> /\ spanalloc.left = 0 /\ \A p \in Ps : mspancache[p] = <<>>
  OBVIOUS
<1>3. Distinct(<<>>)
  BY <1>1
<1>4. Tidy(spanalloc.list, mspancache, live)
  BY <1>1, <1>2, <1>3, SizesAssumption DEF Tidy
<1>5. Known = {}
  <2>1. \A x : x \notin KnownIn(spanalloc.list, mspancache, live)
    BY <1>1, <1>2, InKnown
  <2> QED
    BY <2>1 DEF Known
<1>6. SpanTypes
  <2>1. <<nil, 0>> \in Spans
    BY DEF Spans, nil
  <2> QED
    BY <2>1 DEF SpanTypes
<1>7. SpanPlaces
  BY <1>1, <1>3, <1>4, <1>5, <1>6 DEF SpanPlaces
<1>8. Carved /\ Uncarved
  BY <1>2, <1>5 DEF Carved, Uncarved
<1>9. \A t \in Threads : Refilling(t)
  BY DEF Refilling, Fixing, Persisting, Carving, Linking
<1> QED
  BY <1>7, <1>8, <1>9 DEF SpanInv

\* Nothing changes.
LEMMA SpanStutter == SpanInv /\ UNCHANGED vars => SpanInv'
<1> SUFFICES ASSUME SpanInv, UNCHANGED vars PROVE SpanInv'
  OBVIOUS
<1>1. UNCHANGED <<spanalloc, allspans, mspancache, refill, live, blocks, thrown, pc, call>>
  BY DEF vars, metaVars, lockVars, persistVars, spanVars
<1>2. Known' = Known
  BY <1>1 DEF Known
<1>3. SpanPlaces'
  BY <1>1, <1>2 DEF SpanInv, SpanPlaces, SpanTypes
<1>4. (Carved => Carved') /\ (Uncarved => Uncarved')
  BY <1>1, <1>2 DEF Carved, Uncarved
<1>5. \A t \in Threads : Refilling(t) => Refilling(t)'
  BY <1>1, <1>2 DEF Refilling, Fixing, Owner
<1> QED
  BY <1>1, <1>3, <1>4, <1>5 DEF SpanInv

\* SpanInv is an invariant of the heap and its metadata allocators.
THEOREM SpanInvariance == Spec => []SpanInv
<1>1. IInv /\ SpanInv /\ [Next]_vars => SpanInv'
  <2> SUFFICES ASSUME IInv, SpanInv, NEW t \in Threads, MetaStep(t) \/ ArenaStep(t) PROVE SpanInv'
    BY SpanStutter DEF Next
  <2>1. CASE recordspanFails(t)
    <3>1. /\ thrown = "none" /\ thrown' # "none" /\ UNCHANGED spanVars /\ blocks' = blocks
          /\ pc' = pc /\ call' = call
      BY <2>1 DEF recordspanFails, At, throw, persistVars
    <3> QED
      BY <3>1, SpansAside
  <2> QED
    BY <2>1, PersistSpans, AsideSpans, AllocStarts, PullSpans, FreeSpans, ReuseSpans, RefillSpans,
       ChunkSpans, CarveSpans DEF MetaStep, spanSteps
<1> QED
  BY <1>1, SpanInit, Invariance, PTL DEF Spec

\* A set with exactly one member, or with none, counts 1, or 0.
LEMMA CountOne ==
  ASSUME NEW A
  PROVE  /\ (\A y : y \notin A) => Cardinality(A) = 0
         /\ \A x : x \in A /\ (\A y : y \in A => y = x) => Cardinality(A) = 1
<1>1. ASSUME \A y : y \notin A PROVE Cardinality(A) = 0
  <2>1. A = {}
    BY <1>1
  <2> QED
    BY <2>1, FS_EmptySet
<1>2. ASSUME NEW x, x \in A, \A y : y \in A => y = x PROVE Cardinality(A) = 1
  <2>1. A = {x}
    BY <1>2
  <2> QED
    BY <2>1, FS_Singleton
<1> QED
  BY <1>1, <1>2

\* Every mspan is recorded once in allspans and is in one place: what is on the
\* list of fixalloc, in the cache of a P or in a caller's hands is nowhere else,
\* for any threads, processors, sizes of blocks and of caches, although a cache
\* is read and changed without h.lock.
THEOREM SpansInOnePlace == Spec => []SpanOnePlace
<1>1. SpanInv => SpanOnePlace
  <2> SUFFICES ASSUME SpanInv PROVE SpanOnePlace
    OBVIOUS
  <2> DEFINE L == spanalloc.list
  <2> DEFINE C == mspancache
  <2>1. /\ Tidy(L, C, live) /\ Distinct(allspans) /\ ToSet(allspans) = Known /\ L \in Seq(Spans)
        /\ C \in [Ps -> Seq(Spans)] /\ allspans \in Seq(Spans)
    BY DEF SpanInv, SpanPlaces, SpanTypes
  <2>2. \A i, j \in DOMAIN allspans : allspans[i] = allspans[j] => i = j
    BY <2>1 DEF Distinct
  <2>3. Known = live \cup ToSet(spanalloc.list) \cup UNION {ToSet(mspancache[p]) : p \in Ps}
    BY DEF Known, KnownIn
  <2>4. ASSUME NEW s \in Known
        PROVE  Cardinality({i \in DOMAIN L : L[i] = s}) + Cardinality(live \cap {s})
                 + Cardinality({e \in Ps \X (1 .. CacheLen) :
                     e[2] <= Len(C[e[1]]) /\ C[e[1]][e[2]] = s}) = 1
    <3> DEFINE N1 == {i \in DOMAIN L : L[i] = s}
    <3> DEFINE N2 == live \cap {s}
    <3> DEFINE N3 == {e \in Ps \X (1 .. CacheLen) : e[2] <= Len(C[e[1]]) /\ C[e[1]][e[2]] = s}
    <3>1. \A i : i \in N1 <=> i \in 1 .. Len(L) /\ L[i] = s
      BY <2>1
    <3>2. \A x : x \in N2 <=> x \in live /\ x = s
      OBVIOUS
    <3>3. \A e \in N3 : e[1] \in Ps /\ e[2] \in 1 .. Len(C[e[1]]) /\ C[e[1]][e[2]] = s /\ e = <<e[1], e[2]>>
      BY <2>1, SizesAssumption
    <3>4. \A p \in Ps : \A i \in 1 .. Len(C[p]) : C[p][i] = s => <<p, i>> \in N3
      <4> SUFFICES ASSUME NEW p \in Ps, NEW i \in 1 .. Len(C[p]), C[p][i] = s PROVE <<p, i>> \in N3
        OBVIOUS
      <4>1. Len(C[p]) \in Nat /\ Len(C[p]) <= CacheLen /\ CacheLen \in Nat
        BY <2>1, SizesAssumption DEF Tidy
      <4> QED
        BY <4>1
    <3> HIDE DEF N1, N2, N3, L, C
    <3>5. s \in ToSet(L) <=> \E i \in 1 .. Len(L) : L[i] = s
      BY <2>1, InToSet
    <3>6. ASSUME NEW p \in Ps PROVE s \in ToSet(C[p]) <=> \E i \in 1 .. Len(C[p]) : C[p][i] = s
      <4>1. C[p] \in Seq(Spans)
        BY <2>1
      <4> QED
        BY <4>1, InToSet
    <3>7. s \in live \/ s \in ToSet(L) \/ \E p \in Ps : s \in ToSet(C[p])
      BY InKnown DEF Known, L, C
    <3>8. s \notin ToSet(L) => Cardinality(N1) = 0
      BY <3>1, <3>5, CountOne
    <3>9. s \notin live => Cardinality(N2) = 0
      BY <3>2, CountOne
    <3>10. ASSUME \A p \in Ps : s \notin ToSet(C[p]) PROVE Cardinality(N3) = 0
      <4>1. \A e : e \notin N3
        BY <3>3, <3>6, <3>10
      <4> QED
        BY <4>1, CountOne
    <3>11. CASE s \in live
      <4>1. s \notin ToSet(L) /\ \A p \in Ps : s \notin ToSet(C[p])
        BY <2>1, <3>11 DEF Tidy
      <4>2. Cardinality(N2) = 1
        BY <3>2, <3>11, CountOne
      <4> QED
        BY <3>8, <3>10, <4>1, <4>2 DEF N1, N2, N3
    <3>12. CASE s \in ToSet(L)
      <4>1. s \notin live /\ \A p \in Ps : s \notin ToSet(C[p])
        BY <2>1, <3>12 DEF Tidy
      <4>2. PICK i \in 1 .. Len(L) : L[i] = s
        BY <3>5, <3>12
      <4>3. i \in N1 /\ \A j : j \in N1 => j = i
        BY <2>1, <3>1, <4>2 DEF Tidy, Distinct
      <4>4. Cardinality(N1) = 1
        BY <4>3, CountOne
      <4> QED
        BY <3>9, <3>10, <4>1, <4>4 DEF N1, N2, N3
    <3>13. ASSUME NEW p \in Ps, s \in ToSet(C[p])
           PROVE  Cardinality(N1) + Cardinality(N2) + Cardinality(N3) = 1
      <4>1. s \notin live /\ s \notin ToSet(L) /\ \A q \in Ps : s \in ToSet(C[q]) => q = p
        BY <2>1, <3>13 DEF Tidy
      <4>2. PICK i \in 1 .. Len(C[p]) : C[p][i] = s
        BY <3>6, <3>13
      <4>3. <<p, i>> \in N3
        BY <3>4, <4>2
      <4>4. ASSUME NEW e \in N3 PROVE e = <<p, i>>
        <5>1. e[1] \in Ps /\ e[2] \in 1 .. Len(C[e[1]]) /\ C[e[1]][e[2]] = s /\ e = <<e[1], e[2]>>
          BY <3>3
        <5>2. e[1] = p
          BY <3>6, <4>1, <5>1
        <5>3. e[2] = i
          BY <2>1, <4>2, <5>1, <5>2 DEF Tidy, Distinct
        <5> QED
          BY <5>1, <5>2, <5>3
      <4>5. Cardinality(N3) = 1
        BY <4>3, <4>4, CountOne
      <4> QED
        BY <3>8, <3>9, <4>1, <4>5
    <3> QED
      BY <3>7, <3>11, <3>12, <3>13 DEF N1, N2, N3
  <2> QED
    BY <2>1, <2>2, <2>3, <2>4 DEF SpanOnePlace
<1> QED
  BY <1>1, SpanInvariance, PTL

-----------------------------------------------------------------------------
(***************************************************************************)
(* The list of chunks, persistentChunks.  Walk is a recursive function: it *)
(* is shown to be what it should be along a sequence L of chunks, which    *)
(* the invariant keeps; no chunk that is being pushed is in L.             *)
(***************************************************************************)
\* The n-th of L, counted from 0; nil past its end.
Nth(L, n) == IF n < Len(L) THEN L[n + 1] ELSE nil

\* L is the list from h along the first words k, and its members are R.
Chain(L, h, k, R) ==
  /\ L \in Seq(Nat) /\ Distinct(L) /\ ToSet(L) = R
  /\ h = Nth(L, 0)
  /\ \A i \in 1 .. Len(L) : k[L[i]] = Nth(L, i)

LargeRegions == {b.region : b \in {c \in blocks : c.for = "large"}}
Linked == (1 .. mapped) \ (Pushing \cup LargeRegions)

\* A thread that is about to swap the head has what it read in the first word.
ChainInv ==
  /\ mapped \in Nat /\ link \in Seq(Nat) /\ Len(link) = mapped
  /\ \E L : Chain(L, head, link, Linked)
  /\ thrown = "none" => \A t \in Threads :
       pc[t] = "cas" => link[persistent[Owner(t)].base] = call[t].chunks

\* Chunks that are being pushed, thread by thread.
LEMMA InPushing ==
  ASSUME NEW x
  PROVE  x \in Pushing <=> \E u \in Threads : pc[u] \in Linking /\ x = persistent[Owner(u)].base
BY Zenon DEF Pushing, Linking

\* The same after a step.
LEMMA InPushingNext ==
  ASSUME NEW x
  PROVE  x \in Pushing' <=> \E u \in Threads : pc'[u] \in Linking /\ x = persistent'[Owner(u)].base
BY Zenon DEF Pushing, Linking, Owner

\* The first words of other chunks do not matter.
LEMMA ChainKept ==
  ASSUME NEW L, NEW h, NEW k, NEW j, NEW R, Chain(L, h, k, R), \A x \in R : j[x] = k[x]
  PROVE  Chain(L, h, j, R)
<1>1. \A i \in 1 .. Len(L) : L[i] \in R
  BY InToSet DEF Chain
<1> QED
  BY <1>1 DEF Chain

\* A chunk whose first word is the head goes before the list.
LEMMA ChainPushed ==
  ASSUME NEW L, NEW h, NEW k, NEW R, Chain(L, h, k, R), NEW b \in Nat, b \notin R, k[b] = h,
         NEW Q, Q = R \cup {b}
  PROVE  \E M : Chain(M, b, k, Q)
<1> DEFINE M == <<b>> \o L
<1>1. L \in Seq(Nat) /\ Distinct(L) /\ ToSet(L) = R /\ h = Nth(L, 0) /\ Len(L) \in Nat
  BY DEF Chain
<1>2. M \in Seq(Nat) /\ ToSet(M) = Q /\ Distinct(M)
  BY <1>1, Pushed
<1>3. Len(M) = Len(L) + 1 /\ M[1] = b /\ \A i \in 1 .. Len(L) : M[i + 1] = L[i]
  BY <1>1
<1> HIDE DEF M
<1>4. b = Nth(M, 0)
  BY <1>1, <1>3 DEF Nth
<1>5. ASSUME NEW i \in 1 .. Len(M) PROVE k[M[i]] = Nth(M, i)
  <2>1. CASE i = 1
    <3>1. Nth(M, 1) = Nth(L, 0)
      BY <1>1, <1>3 DEF Nth
    <3> QED
      BY <1>1, <1>3, <2>1, <3>1
  <2>2. CASE i # 1
    <3>1. i - 1 \in 1 .. Len(L) /\ M[i] = L[i - 1]
      BY <1>1, <1>3, <2>2
    <3>2. k[L[i - 1]] = Nth(L, i - 1)
      BY <3>1 DEF Chain
    <3>3. Nth(L, i - 1) = Nth(M, i)
      BY <1>1, <1>3, <2>2 DEF Nth
    <3> QED
      BY <3>1, <3>2, <3>3
  <2> QED
    BY <2>1, <2>2
<1> QED
  BY <1>2, <1>4, <1>5 DEF Chain

\* Nothing is pushed, and no push begins or ends.
LEMMA ChainStays ==
  ASSUME ChainInv, NEW t \in Threads, thrown = "none", UNCHANGED <<head, link, mapped>>,
         LargeRegions' = LargeRegions,
         \A u \in Threads : u # t => pc'[u] = pc[u] /\ call'[u].chunks = call[u].chunks,
         pc'[t] \in Linking <=> pc[t] \in Linking, pc'[t] # "cas",
         \A u \in Threads : pc[u] \in Linking => persistent'[Owner(u)].base = persistent[Owner(u)].base
  PROVE  ChainInv'
<1>1. \A u \in Threads : pc'[u] \in Linking <=> pc[u] \in Linking
  OBVIOUS
<1>2. Pushing' = Pushing
  <2>1. ASSUME NEW x PROVE x \in Pushing' <=> x \in Pushing
    <3>1. x \in Pushing <=> \E u \in Threads : pc[u] \in Linking /\ x = persistent[Owner(u)].base
      BY InPushing
    <3>2. x \in Pushing' <=> \E u \in Threads : pc'[u] \in Linking /\ x = persistent'[Owner(u)].base
      BY InPushingNext
    <3> QED
      BY <1>1, <3>1, <3>2
  <2> QED
    BY <2>1
<1>3. Linked' = Linked
  BY <1>2 DEF Linked
<1>4. \A u \in Threads : pc'[u] = "cas" => link'[persistent'[Owner(u)].base] = call'[u].chunks
  BY DEF ChainInv, Linking
<1> QED
  BY <1>3, <1>4 DEF ChainInv, Owner

\* A region that is new and not in the list leaves it as it is.
LEMMA ChainMapped ==
  ASSUME ChainInv, thrown = "none", IInv, NEW t \in Threads, mapped' = mapped + 1, head' = head,
         link' = Append(link, nil), Linked' = Linked,
         \A u \in Threads : pc'[u] = "cas" =>
            /\ pc[u] = "cas" /\ call'[u].chunks = call[u].chunks
            /\ persistent'[Owner(u)].base = persistent[Owner(u)].base
  PROVE  ChainInv'
<1>1. mapped \in Nat /\ link \in Seq(Nat) /\ Len(link) = mapped /\ ThreadsInv /\ MemoryInv
  BY DEF ChainInv, IInv, MetaInv
<1>2. /\ link' \in Seq(Nat) /\ Len(link') = mapped' /\ mapped' \in Nat
      /\ \A x \in 1 .. mapped : link'[x] = link[x]
  BY <1>1 DEF nil
<1>3. PICK L : Chain(L, head, link, Linked)
  BY DEF ChainInv
<1>4. \A x \in Linked : link'[x] = link[x]
  BY <1>2 DEF Linked
<1>5. Chain(L, head, link', Linked)
  BY <1>3, <1>4, ChainKept
<1>6. ASSUME NEW u \in Threads, pc'[u] = "cas"
      PROVE  link'[persistent'[Owner(u)].base] = call'[u].chunks
  <2> DEFINE b == persistent[Owner(u)].base
  <2>1. pc[u] = "cas" /\ pc[u] \in Linking /\ Owner(u) \in Owners
    BY <1>6, OwnerType DEF Linking
  <2>2. b \in 1 .. mapped
    BY <1>1, <2>1 DEF MemoryInv, MemoryTypes, FreshChunks, OwnChunks, nil
  <2>3. link[b] = call[u].chunks
    BY <2>1 DEF ChainInv
  <2> QED
    BY <1>2, <1>6, <2>2, <2>3
<1> QED
  BY <1>2, <1>5, <1>6 DEF ChainInv, Owner

\* A chunk is mapped, and is going to be pushed.
LEMMA ChainNewChunk ==
  ASSUME ChainInv, IInv, NEW t \in Threads, newChunk(t)
  PROVE  ChainInv'
<1> DEFINE o == Owner(t)
<1>1. /\ thrown = "none" /\ pc[t] = "carve" /\ Goto(t, "link") /\ mapped' = mapped + 1 /\ head' = head
      /\ persistent' = [persistent EXCEPT ![o] = [base |-> mapped + 1, off |-> Aligned(t)]]
      /\ link' = Append(link, nil) /\ blocks' = blocks /\ call' = call
  BY DEF newChunk, At
<1>2. ThreadsInv /\ MemoryInv /\ mapped \in Nat
  BY <1>1 DEF IInv, MetaInv, ChainInv
<1>3. pc'[t] = "link" /\ \A u \in Threads : u # t => pc'[u] = pc[u]
  BY <1>1, <1>2, PcOthers
<1>4. \A u \in Threads : u # t /\ pc[u] \in Linking => Owner(u) # o
  BY <1>1, <1>2, OneUser DEF Carving, Linking
<1>5. /\ persistent'[o].base = mapped + 1 /\ o \in Owners
      /\ \A q \in Owners : q # o => persistent'[q].base = persistent[q].base
  BY <1>1, <1>2, OwnerType DEF MemoryInv, MemoryTypes
<1>6. \A u \in Threads : Owner(u) \in Owners
  BY OwnerType
<1>7. pc[t] \notin Linking /\ pc'[t] \in Linking /\ pc'[t] # "cas"
  BY <1>1, <1>3 DEF Linking
<1> HIDE DEF o
<1>8. ASSUME NEW x PROVE x \in Pushing' <=> x \in Pushing \/ x = mapped + 1
  <2>1. x \in Pushing <=> \E u \in Threads : pc[u] \in Linking /\ x = persistent[Owner(u)].base
    BY InPushing
  <2>2. x \in Pushing' <=> \E u \in Threads : pc'[u] \in Linking /\ x = persistent'[Owner(u)].base
    BY InPushingNext
  <2>3. \A u \in Threads : u # t /\ pc[u] \in Linking =>
            pc'[u] \in Linking /\ persistent'[Owner(u)].base = persistent[Owner(u)].base
    BY <1>3, <1>4, <1>5, <1>6
  <2>4. \A u \in Threads : u # t /\ pc'[u] \in Linking => pc[u] \in Linking
    BY <1>3
  <2>5. pc'[t] \in Linking /\ persistent'[Owner(t)].base = mapped + 1
    BY <1>5, <1>7 DEF o
  <2> QED
    BY <1>7, <2>1, <2>2, <2>3, <2>4, <2>5
<1>9. Linked' = Linked
  <2>1. LargeRegions' = LargeRegions
    BY <1>1 DEF LargeRegions
  <2>2. Linked' = (1 .. (mapped + 1)) \ (Pushing' \cup LargeRegions)
    BY <1>1, <2>1 DEF Linked
  <2>3. \A x \in 1 .. (mapped + 1) : x # mapped + 1 <=> x \in 1 .. mapped
    BY <1>2
  <2>4. 1 .. mapped \subseteq 1 .. (mapped + 1) /\ mapped + 1 \notin 1 .. mapped
    BY <1>2
  <2> QED
    BY <1>8, <2>2, <2>3, <2>4 DEF Linked
<1>10. \A u \in Threads : pc'[u] = "cas" =>
            /\ pc[u] = "cas" /\ call'[u].chunks = call[u].chunks
            /\ persistent'[Owner(u)].base = persistent[Owner(u)].base
  BY <1>1, <1>3, <1>4, <1>5, <1>6, <1>7 DEF Linking
<1> QED
  BY <1>1, <1>9, <1>10, ChainMapped

\* A large block has a region of its own.
LEMMA ChainLarge ==
  ASSUME ChainInv, IInv, NEW t \in Threads, largeBlock(t)
  PROVE  ChainInv'
<1> DEFINE n == [region |-> mapped + 1, off |-> 0, size |-> call[t].size, for |-> "large"]
<1>1. /\ thrown = "none" /\ pc[t] = "persistent" /\ mapped' = mapped + 1 /\ head' = head
      /\ link' = Append(link, nil) /\ persistent' = persistent /\ Return(t, <<mapped + 1, 0>>)
      /\ blocks' = blocks \cup {n}
  BY DEF largeBlock, At
<1>2. ThreadsInv /\ MemoryInv /\ mapped \in Nat
  BY <1>1 DEF IInv, MetaInv, ChainInv
<1>3. /\ pc'[t] = call[t].then /\ \A u \in Threads : u # t => pc'[u] = pc[u]
      /\ \A u \in Threads : u # t => call'[u] = call[u]
  BY <1>1, <1>2, PcOthers DEF Return, ThreadsInv
<1>4. pc[t] \notin Linking /\ pc'[t] \notin Linking
  <2>1. call[t].then \in Thens
    BY <1>2 DEF ThreadsInv, Calls
  <2> QED
    BY <1>1, <1>3, <2>1 DEF Linking, Thens
<1>5. ASSUME NEW x PROVE x \in Pushing' <=> x \in Pushing
  <2>1. x \in Pushing <=> \E u \in Threads : pc[u] \in Linking /\ x = persistent[Owner(u)].base
    BY InPushing
  <2>2. x \in Pushing' <=> \E u \in Threads : pc'[u] \in Linking /\ x = persistent'[Owner(u)].base
    BY InPushingNext
  <2>3. \A u \in Threads : pc'[u] \in Linking <=> pc[u] \in Linking
    BY <1>3, <1>4
  <2> QED
    BY <1>1, <2>1, <2>2, <2>3
<1>6. ASSUME NEW x PROVE x \in LargeRegions' <=> x \in LargeRegions \/ x = mapped + 1
  <2>1. n.region = mapped + 1 /\ n.for = "large"
    OBVIOUS
  <2> HIDE DEF n
  <2>2. x \in LargeRegions <=> \E c \in blocks : c.for = "large" /\ x = c.region
    BY DEF LargeRegions
  <2>3. x \in LargeRegions' <=> \E c \in blocks' : c.for = "large" /\ x = c.region
    BY DEF LargeRegions
  <2> QED
    BY <1>1, <2>1, <2>2, <2>3
<1>7. Linked' = Linked
  <2>1. Linked' = (1 .. (mapped + 1)) \ (Pushing' \cup LargeRegions')
    BY <1>1 DEF Linked
  <2>2. \A x \in 1 .. (mapped + 1) : x # mapped + 1 <=> x \in 1 .. mapped
    BY <1>2
  <2>3. 1 .. mapped \subseteq 1 .. (mapped + 1) /\ mapped + 1 \notin 1 .. mapped
    BY <1>2
  <2> QED
    BY <1>5, <1>6, <2>1, <2>2, <2>3 DEF Linked
<1>8. \A u \in Threads : pc'[u] = "cas" =>
            /\ pc[u] = "cas" /\ call'[u].chunks = call[u].chunks
            /\ persistent'[Owner(u)].base = persistent[Owner(u)].base
  BY <1>1, <1>3, <1>4 DEF Linking
<1> QED
  BY <1>1, <1>7, <1>8, ChainMapped

\* The chunk of a thread that pushes one: nobody else's, not in the list.
LEMMA PushedChunk ==
  ASSUME ThreadsInv, MemoryInv, NEW t \in Threads, pc[t] \in Linking
  PROVE  /\ persistent[Owner(t)].base \in 1 .. mapped
         /\ persistent[Owner(t)].base \in Nat
         /\ persistent[Owner(t)].base \notin Linked
         /\ \A u \in Threads : u # t /\ pc[u] \in Linking =>
              persistent[Owner(u)].base # persistent[Owner(t)].base
<1> DEFINE b == persistent[Owner(t)].base
<1>1. Owner(t) \in Owners /\ \A u \in Threads : Owner(u) \in Owners
  BY OwnerType
<1>2. b \in Nat /\ b # nil /\ b <= mapped /\ mapped \in Nat
  BY <1>1 DEF MemoryInv, MemoryTypes, FreshChunks, OwnChunks
<1>3. b \in Pushing
  BY InPushing
<1>4. ASSUME NEW u \in Threads, u # t, pc[u] \in Linking, persistent[Owner(u)].base = b PROVE FALSE
  <2>1. Owner(u) = Owner(t)
    BY <1>1, <1>2, <1>4 DEF MemoryInv, OwnChunks
  <2> QED
    BY <1>4, <2>1, OneUser DEF Carving
<1> QED
  BY <1>2, <1>3, <1>4 DEF Linked, nil

\* The head is read into the first word of the chunk.
LEMMA ChainLinks ==
  ASSUME ChainInv, IInv, NEW t \in Threads, linkChunk(t)
  PROVE  ChainInv'
<1> DEFINE b == persistent[Owner(t)].base
<1>1. /\ thrown = "none" /\ pc[t] = "link" /\ Goto(t, "cas") /\ link' = [link EXCEPT ![b] = head]
      /\ call' = [call EXCEPT ![t].chunks = head]
      /\ UNCHANGED <<head, mapped, persistent, blocks>>
  BY DEF linkChunk, At
<1>2. ThreadsInv /\ MemoryInv /\ mapped \in Nat /\ link \in Seq(Nat) /\ Len(link) = mapped /\ head \in Nat
  BY <1>1 DEF IInv, MetaInv, ChainInv
<1>3. pc[t] \in Linking
  BY <1>1 DEF Linking
<1>4. /\ b \in 1 .. mapped /\ b \notin Linked
      /\ \A u \in Threads : u # t /\ pc[u] \in Linking => persistent[Owner(u)].base # b
  BY <1>2, <1>3, PushedChunk
<1>5. pc'[t] = "cas" /\ \A u \in Threads : u # t => pc'[u] = pc[u]
  BY <1>1, <1>2, PcOthers
<1>6. call'[t].chunks = head /\ \A u \in Threads : u # t => call'[u] = call[u]
  BY <1>1, <1>2 DEF ThreadsInv, Calls
<1> HIDE DEF b
<1>7. /\ link' \in Seq(Nat) /\ Len(link') = mapped' /\ link'[b] = head
      /\ \A x \in 1 .. mapped : x # b => link'[x] = link[x]
  BY <1>1, <1>2, <1>4
<1>8. \A u \in Threads : pc'[u] \in Linking <=> pc[u] \in Linking
  BY <1>3, <1>5 DEF Linking
<1>9. Linked' = Linked
  <2>1. ASSUME NEW x PROVE x \in Pushing' <=> x \in Pushing
    <3>1. x \in Pushing <=> \E u \in Threads : pc[u] \in Linking /\ x = persistent[Owner(u)].base
      BY InPushing
    <3>2. x \in Pushing' <=> \E u \in Threads : pc'[u] \in Linking /\ x = persistent'[Owner(u)].base
      BY InPushingNext
    <3> QED
      BY <1>1, <1>8, <3>1, <3>2
  <2> QED
    BY <1>1, <2>1 DEF Linked, LargeRegions
<1>10. PICK L : Chain(L, head, link, Linked)
  BY DEF ChainInv
<1>11. \A x \in Linked : link'[x] = link[x]
  BY <1>4, <1>7 DEF Linked
<1>12. Chain(L, head, link', Linked)
  BY <1>10, <1>11, ChainKept
<1>13. ASSUME NEW u \in Threads, pc'[u] = "cas"
       PROVE  link'[persistent'[Owner(u)].base] = call'[u].chunks
  <2>1. CASE u = t
    BY <1>1, <1>6, <1>7, <2>1 DEF b
  <2>2. CASE u # t
    <3>1. pc[u] = "cas" /\ pc[u] \in Linking
      BY <1>5, <1>13, <2>2 DEF Linking
    <3>2. persistent[Owner(u)].base \in 1 .. mapped
      BY <1>2, <3>1, PushedChunk
    <3>3. link[persistent[Owner(u)].base] = call[u].chunks
      BY <1>1, <3>1 DEF ChainInv
    <3>4. link'[persistent[Owner(u)].base] = link[persistent[Owner(u)].base]
      BY <1>4, <1>7, <2>2, <3>1, <3>2
    <3> QED
      BY <1>1, <1>6, <2>2, <3>3, <3>4
  <2> QED
    BY <2>1, <2>2
<1> QED
  BY <1>1, <1>2, <1>7, <1>9, <1>12, <1>13 DEF ChainInv, Owner

\* Taking a block makes none of the large ones, and keeps the chunk.
LEMMA TakeFacts ==
  ASSUME ThreadsInv, MemoryInv, NEW t \in Threads, NEW base \in Nat, NEW off \in Nat,
         Take(t, base, off), base = persistent[Owner(t)].base
  PROVE  /\ LargeRegions' = LargeRegions
         /\ \A q \in Owners : persistent'[q].base = persistent[q].base
         /\ pc'[t] \notin Linking
         /\ \A u \in Threads : u # t => pc'[u] = pc[u] /\ call'[u] = call[u]
<1> DEFINE n == [region |-> base, off |-> off, size |-> call[t].size, for |-> call[t].then]
<1>1. /\ persistent' = [persistent EXCEPT ![Owner(t)] = [base |-> base, off |-> off + call[t].size]]
      /\ blocks' = blocks \cup {n} /\ Return(t, <<base, off>>)
  BY DEF Take
<1>2. call[t].then \in Thens
  BY DEF ThreadsInv, Calls
<1>3. n.for # "large"
  BY <1>2 DEF Thens
<1>4. LargeRegions' = LargeRegions
  <2> HIDE DEF n
  <2>1. {c \in blocks' : c.for = "large"} = {c \in blocks : c.for = "large"}
    BY <1>1, <1>3
  <2> QED
    BY <2>1 DEF LargeRegions
<1>5. \A q \in Owners : persistent'[q].base = persistent[q].base
  BY <1>1, OwnerType DEF MemoryInv, MemoryTypes
<1>6. pc'[t] = call[t].then /\ \A u \in Threads : u # t => pc'[u] = pc[u] /\ call'[u] = call[u]
  BY <1>1, PcOthers DEF Return, ThreadsInv
<1>7. pc'[t] \notin Linking
  BY <1>2, <1>6 DEF Thens, Linking
<1> QED
  BY <1>4, <1>5, <1>6, <1>7

\* The head is swapped: the chunk goes before the list.
LEMMA ChainSwapped ==
  ASSUME ChainInv, IInv, NEW t \in Threads, casChunk(t), Casuintptr(t)
  PROVE  ChainInv'
<1> DEFINE b == persistent[Owner(t)].base
<1> DEFINE off == alignUp(PtrSize, call[t].align)
<1>1. /\ thrown = "none" /\ pc[t] = "cas" /\ head = call[t].chunks /\ head' = b
      /\ Take(t, b, off) /\ UNCHANGED <<link, mapped>>
  BY DEF casChunk, Casuintptr, At
<1>2. ThreadsInv /\ MemoryInv /\ mapped \in Nat /\ link \in Seq(Nat) /\ Len(link) = mapped
  BY <1>1 DEF IInv, MetaInv, ChainInv
<1>3. pc[t] \in Linking
  BY <1>1 DEF Linking
<1>4. /\ b \in 1 .. mapped /\ b \in Nat /\ b \notin Linked
      /\ \A u \in Threads : u # t /\ pc[u] \in Linking => persistent[Owner(u)].base # b
  BY <1>2, <1>3, PushedChunk
<1>5. off \in Nat
  <2>1. call[t].align \in Nat /\ call[t].align > 0 /\ PtrSize \in Nat
    BY <1>2, <1>3 DEF ThreadsInv, CallOK, Calls, Persisting, Carving, PtrSize
  <2> QED
    BY <2>1, AlignUpFacts
<1>6. link[b] = head
  BY <1>1 DEF ChainInv
<1> HIDE DEF off
<1>7. /\ LargeRegions' = LargeRegions
      /\ \A q \in Owners : persistent'[q].base = persistent[q].base
      /\ pc'[t] \notin Linking
      /\ \A u \in Threads : u # t => pc'[u] = pc[u] /\ call'[u] = call[u]
  BY <1>1, <1>2, <1>4, <1>5, TakeFacts
<1>8. \A u \in Threads : persistent'[Owner(u)].base = persistent[Owner(u)].base
  BY <1>7, OwnerType
<1>9. ASSUME NEW x PROVE x \in Pushing' <=> x \in Pushing /\ x # b
  <2>1. x \in Pushing <=> \E u \in Threads : pc[u] \in Linking /\ x = persistent[Owner(u)].base
    BY InPushing
  <2>2. x \in Pushing' <=> \E u \in Threads : pc'[u] \in Linking /\ x = persistent'[Owner(u)].base
    BY InPushingNext
  <2>3. ASSUME x \in Pushing' PROVE x \in Pushing /\ x # b
    <3>1. PICK u \in Threads : pc'[u] \in Linking /\ x = persistent'[Owner(u)].base
      BY <2>2, <2>3
    <3>2. u # t /\ pc[u] \in Linking /\ x = persistent[Owner(u)].base
      BY <1>7, <1>8, <3>1
    <3> QED
      BY <1>4, <2>1, <3>2
  <2>4. ASSUME x \in Pushing, x # b PROVE x \in Pushing'
    <3>1. PICK u \in Threads : pc[u] \in Linking /\ x = persistent[Owner(u)].base
      BY <2>1, <2>4
    <3>2. u # t
      BY <2>4, <3>1
    <3> QED
      BY <1>7, <1>8, <2>2, <3>1, <3>2
  <2> QED
    BY <2>3, <2>4
<1>10. b \in Pushing
  BY <1>3, InPushing
<1>11. b \notin LargeRegions
  <2>1. \A c \in blocks : c.region # b
    BY <1>2, <1>3 DEF MemoryInv, FreshChunks
  <2> QED
    BY <2>1 DEF LargeRegions
<1> HIDE DEF b
<1>12. Linked' = Linked \cup {b}
  <2>1. Linked' = (1 .. mapped) \ (Pushing' \cup LargeRegions)
    BY <1>1, <1>7 DEF Linked
  <2> QED
    BY <1>4, <1>9, <1>10, <1>11, <2>1 DEF Linked
<1>13. PICK L : Chain(L, head, link, Linked)
  BY DEF ChainInv
<1>14. \E M : Chain(M, b, link, Linked')
  BY <1>4, <1>6, <1>12, <1>13, ChainPushed
<1>15. \A u \in Threads : pc'[u] = "cas" => link'[persistent'[Owner(u)].base] = call'[u].chunks
  BY <1>1, <1>7, <1>8 DEF ChainInv, Linking
<1> QED
  BY <1>1, <1>2, <1>14, <1>15 DEF ChainInv, Owner

\* persistentalloc1.
LEMMA ChainPersist ==
  ASSUME ChainInv, IInv, NEW t \in Threads, persistentSteps(t)
  PROVE  ChainInv'
<1>1. /\ thrown = "none" /\ pc[t] \in Persisting
  BY DEF persistentSteps, acquire, carve, newChunk, outOfMemory, linkChunk, casChunk, largeBlock,
         noLargeBlock, At, Persisting, Carving, Linking
<1>2. MetaInv /\ ThreadsInv /\ MemoryInv
  BY <1>1 DEF IInv, MetaInv
<1>3. CASE acquire(t)
  <2>1. pc[t] = "persistent" /\ Goto(t, "carve") /\ UNCHANGED <<head, link, mapped, blocks, call, persistent>>
    BY <1>3 DEF acquire, At, persistVars
  <2>2. pc'[t] = "carve" /\ \A u \in Threads : u # t => pc'[u] = pc[u]
    BY <1>2, <2>1, PcOthers
  <2>3. LargeRegions' = LargeRegions
    BY <2>1 DEF LargeRegions
  <2> QED
    BY <1>1, <2>1, <2>2, <2>3, ChainStays DEF Linking
<1>4. CASE carve(t)
  <2> DEFINE b == persistent[Owner(t)].base
  <2>1. pc[t] = "carve" /\ UNCHANGED <<head, link, mapped>> /\ Take(t, b, Aligned(t))
    BY <1>4 DEF carve, At
  <2>2. b \in Nat /\ Aligned(t) \in Nat
    <3>1. Owner(t) \in Owners /\ call[t].align \in Nat /\ call[t].align > 0
      BY <1>1, <1>2, OwnerType DEF ThreadsInv, CallOK, Calls
    <3>2. b \in Nat /\ persistent[Owner(t)].off \in Nat
      BY <1>2, <3>1 DEF MemoryInv, MemoryTypes
    <3> QED
      BY <3>1, <3>2, AlignUpFacts DEF Aligned
  <2>3. /\ LargeRegions' = LargeRegions
        /\ \A q \in Owners : persistent'[q].base = persistent[q].base
        /\ pc'[t] \notin Linking
        /\ \A u \in Threads : u # t => pc'[u] = pc[u] /\ call'[u] = call[u]
    BY <1>2, <2>1, <2>2, TakeFacts
  <2>4. pc[t] \notin Linking /\ pc'[t] # "cas"
    BY <2>1, <2>3 DEF Linking
  <2>5. \A u \in Threads : persistent'[Owner(u)].base = persistent[Owner(u)].base
    BY <2>3, OwnerType
  <2> QED
    BY <1>1, <2>1, <2>3, <2>4, <2>5, ChainStays
<1>5. CASE outOfMemory(t)
  <2>1. /\ pc[t] = "carve" /\ UNCHANGED <<head, link, mapped, pc, call, blocks>>
        /\ persistent' = [persistent EXCEPT ![Owner(t)] = [base |-> nil, off |-> Aligned(t)]]
    BY <1>5 DEF outOfMemory, At
  <2>2. \A u \in Threads : pc[u] \in Linking => Owner(u) # Owner(t)
    BY <1>2, <2>1, OneUser DEF Carving, Linking
  <2>3. \A u \in Threads : pc[u] \in Linking => persistent'[Owner(u)].base = persistent[Owner(u)].base
    BY <1>2, <2>1, <2>2, OwnerType DEF MemoryInv, MemoryTypes
  <2>4. LargeRegions' = LargeRegions
    BY <2>1 DEF LargeRegions
  <2> QED
    BY <1>1, <2>1, <2>3, <2>4, ChainStays
<1>6. CASE casChunk(t)
  <2>1. CASE ~ Casuintptr(t)
    <3>1. pc[t] = "cas" /\ Goto(t, "link") /\ UNCHANGED <<head, link, mapped, blocks, call, persistent>>
      BY <1>6, <2>1 DEF casChunk, At
    <3>2. pc'[t] = "link" /\ \A u \in Threads : u # t => pc'[u] = pc[u]
      BY <1>2, <3>1, PcOthers
    <3>3. LargeRegions' = LargeRegions
      BY <3>1 DEF LargeRegions
    <3> QED
      BY <1>1, <3>1, <3>2, <3>3, ChainStays DEF Linking
  <2> QED
    BY <1>6, <2>1, ChainSwapped
<1>7. CASE noLargeBlock(t)
  <2>1. /\ pc[t] = "persistent" /\ UNCHANGED <<head, link, mapped, blocks, persistent>>
        /\ (UNCHANGED <<pc, call>> \/ Return(t, <<nil, 0>>))
    BY <1>7 DEF noLargeBlock, At
  <2>2. call[t].then \in Thens
    BY <1>2 DEF ThreadsInv, Calls
  <2>3. /\ pc'[t] \in {"persistent", call[t].then}
        /\ \A u \in Threads : u # t => pc'[u] = pc[u] /\ call'[u] = call[u]
    BY <1>2, <2>1, PcOthers DEF Return, ThreadsInv
  <2>4. pc'[t] \notin Linking /\ pc[t] \notin Linking /\ pc'[t] # "cas"
    BY <2>1, <2>2, <2>3 DEF Linking, Thens
  <2>5. LargeRegions' = LargeRegions
    BY <2>1 DEF LargeRegions
  <2> QED
    BY <1>1, <2>1, <2>3, <2>4, <2>5, ChainStays
<1> QED
  BY <1>3, <1>4, <1>5, <1>6, <1>7, ChainNewChunk, ChainLarge, ChainLinks DEF persistentSteps

\* The steps outside persistentalloc1.
LEMMA ChainAside ==
  ASSUME ChainInv, IInv, NEW t \in Threads, otherCaller(t) \/ spanSteps(t) \/ ArenaStep(t)
  PROVE  ChainInv'
<1>1. /\ thrown = "none" /\ pc[t] \notin Linking
      /\ UNCHANGED <<head, link, mapped, blocks, persistent>>
  <2>1. CASE otherCaller(t) \/ spanSteps(t)
    BY <2>1 DEF otherCaller, spanSteps, allocMSpanLocked, tryAllocMSpan, freeMSpanLocked, fixallocReuse,
         fixallocRefill, fixallocChunk, fixallocCarve, recordspanFails, pullCached, Call, At,
         persistVars, Linking
  <2>2. CASE ArenaStep(t)
    BY <2>2, ArenaQuiet DEF Persisting, Carving
  <2> QED
    BY <2>1, <2>2
<1>2. ThreadsInv
  BY <1>1 DEF IInv, MetaInv
<1>3. LargeRegions' = LargeRegions
  BY <1>1 DEF LargeRegions
<1>4. ASSUME NEW size, NEW align, NEW then, persistentalloc(t, size, align, then)
      PROVE  ChainInv'
  <2>1. Goto(t, "persistent") /\ \A u \in Threads : u # t => call'[u] = call[u]
    BY <1>2, <1>4 DEF persistentalloc, ThreadsInv
  <2>2. pc'[t] = "persistent" /\ \A u \in Threads : u # t => pc'[u] = pc[u]
    BY <1>2, <2>1, PcOthers
  <2> QED
    BY <1>1, <1>3, <2>1, <2>2, ChainStays DEF Linking
<1>5. ASSUME UNCHANGED call, NEW l \in {"idle", "pull", "fixalloc", "hint", "arenas", "nomemory"}, Goto(t, l)
      PROVE  ChainInv'
  <2>1. pc'[t] = l /\ \A u \in Threads : u # t => pc'[u] = pc[u]
    BY <1>2, <1>5, PcOthers
  <2>2. pc'[t] \notin Linking /\ pc'[t] # "cas"
    BY <2>1 DEF Linking
  <2> QED
    BY <1>1, <1>3, <1>5, <2>1, <2>2, ChainStays
<1>6. ASSUME UNCHANGED <<pc, call>> PROVE ChainInv'
  BY <1>1, <1>3, <1>6, ChainStays DEF Linking
<1>7. CASE otherCaller(t)
  BY <1>4, <1>7 DEF otherCaller
<1>8. CASE spanSteps(t)
  <2>1. CASE allocMSpanLocked(t) \/ fixallocChunk(t) \/ pullCached(t)
    <3>1. UNCHANGED call /\ \E l \in {"idle", "pull", "fixalloc"} : Goto(t, l)
      BY <2>1 DEF allocMSpanLocked, fixallocChunk, pullCached, persistVars
    <3> QED
      BY <1>5, <3>1
  <2>2. CASE tryAllocMSpan(t) \/ freeMSpanLocked(t) \/ recordspanFails(t)
    BY <1>6, <2>2 DEF tryAllocMSpan, freeMSpanLocked, recordspanFails, persistVars
  <2>3. CASE fixallocReuse(t) \/ fixallocCarve(t)
    <3>1. UNCHANGED call /\ \E s : Deliver(t, s)
      BY <2>3 DEF fixallocReuse, fixallocCarve, persistVars
    <3>2. \E l \in {"idle", "pull", "fixalloc"} : Goto(t, l)
      BY <3>1 DEF Deliver
    <3> QED
      BY <1>5, <3>1, <3>2
  <2>4. CASE fixallocRefill(t)
    BY <1>4, <2>4 DEF fixallocRefill
  <2> QED
    BY <1>8, <2>1, <2>2, <2>3, <2>4 DEF spanSteps
<1>9. CASE ArenaStep(t)
  <2>1. CASE userArena(t) \/ grow(t)
    <3>1. UNCHANGED call /\ (Goto(t, "hint") \/ pc' = pc)
      BY <2>1 DEF userArena, grow, persistVars
    <3> QED
      BY <1>5, <1>6, <3>1
  <2>2. CASE tryHint(t)
    <3>1. UNCHANGED call /\ (Goto(t, "arenas") \/ pc' = pc)
      BY <2>2 DEF tryHint, persistVars
    <3> QED
      BY <1>5, <1>6, <3>1
  <2>3. CASE anyPlace(t)
    <3>1. UNCHANGED call /\ (Goto(t, "arenas") \/ Goto(t, "nomemory"))
      BY <2>3 DEF anyPlace, persistVars
    <3> QED
      BY <1>5, <3>1
  <2>4. CASE publishArena(t)
    BY <1>5, <2>4 DEF publishArena, persistVars
  <2>5. CASE noMemory(t) \/ returnArena(t) \/ growInto(t)
    <3>1. UNCHANGED call /\ Goto(t, "idle")
      BY <2>5 DEF noMemory, returnArena, growInto, persistVars
    <3> QED
      BY <1>5, <3>1
  <2>6. CASE nextArena(t)
    BY <1>4, <1>6, <2>6 DEF nextArena
  <2>7. CASE growAllArenas(t)
    BY <1>4, <2>7 DEF growAllArenas
  <2>8. CASE noArenaMap(t) \/ sysMapFails(t)
    BY <1>6, <2>8 DEF noArenaMap, sysMapFails, persistVars
  <2> QED
    BY <1>9, <2>1, <2>2, <2>3, <2>4, <2>5, <2>6, <2>7, <2>8 DEF ArenaStep
<1> QED
  BY <1>7, <1>8, <1>9

\* Initially the list is empty.
LEMMA ChainInit == Init => ChainInv
<1> SUFFICES ASSUME Init PROVE ChainInv
  OBVIOUS
<1>1. head = nil /\ link = <<>> /\ mapped = 0 /\ pc = [t \in Threads |-> "idle"]
  BY DEF Init, MetaInit
<1>2. Linked = {}
  BY <1>1 DEF Linked
<1>3. ToSet(<<>>) = {} /\ Distinct(<<>>) /\ <<>> \in Seq(Nat) /\ Len(<<>>) = 0
  <2>1. <<>> \in Seq(Nat) /\ Len(<<>>) = 0
    OBVIOUS
  <2> DEFINE e == <<>>
  <2>2. e \in Seq(Nat) /\ Len(e) = 0
    BY <2>1
  <2> HIDE DEF e
  <2>3. ToSet(e) = {} /\ Distinct(e)
    BY <2>2, EmptyToSet
  <2> QED
    BY <2>1, <2>3 DEF e
<1>4. Chain(<<>>, head, link, Linked)
  BY <1>1, <1>2, <1>3 DEF Chain, Nth
<1> QED
  BY <1>1, <1>3, <1>4 DEF ChainInv

\* A step that changes nothing.
LEMMA ChainStutter == ChainInv /\ UNCHANGED vars => ChainInv'
<1> SUFFICES ASSUME ChainInv, UNCHANGED vars PROVE ChainInv'
  OBVIOUS
<1>1. UNCHANGED <<head, link, mapped, persistent, blocks, pc, call, thrown>>
  BY DEF vars, metaVars, lockVars, persistVars
<1>2. Linked' = Linked
  BY <1>1 DEF Linked, Pushing, LargeRegions, Owner
<1> QED
  BY <1>1, <1>2 DEF ChainInv, Owner

\* A sequence threads the chunks in every reachable state.
THEOREM ChainInvariance == Spec => []ChainInv
<1>1. Init => ChainInv
  BY ChainInit
<1>2. IInv /\ ChainInv /\ [Next]_vars => ChainInv'
  BY ChainPersist, ChainAside, ChainStutter DEF Next, MetaStep
<1> QED
  BY <1>1, <1>2, Invariance, PTL DEF Spec

\* A nonempty set of natural numbers has a least one.
LEMMA LeastNatural ==
  ASSUME NEW T, T \subseteq Nat, T # {}
  PROVE  \E x \in T : \A y \in T : ~ (y < x)
<1> DEFINE R == OpToRel(<, Nat)
<1>1. IsWellFoundedOn(R, Nat)
  BY NatLessThanWellFounded
<1> HIDE DEF R
<1>2. PICK x \in T : \A y \in T : ~ (<<y, x>> \in R)
  BY <1>1, WFMin
<1>3. \A y \in T : y < x => <<y, x>> \in R
  BY <1>2 DEF R, OpToRel
<1> QED
  BY <1>2, <1>3

\* The equation of Walk.
WalkOf(f) ==
  [n \in 0 .. mapped |-> IF n = 0 THEN head ELSE IF f[n - 1] = nil THEN nil ELSE link[f[n - 1]]]

\* If something solves it, Walk does.
LEMMA WalkSolves ==
  ASSUME NEW g, g = WalkOf(g)
  PROVE  Walk = WalkOf(Walk)
<1>1. Walk = CHOOSE f : f = WalkOf(f)
  BY DEF Walk, WalkOf
<1> QED
  BY <1>1

\* Walk goes along the sequence.
LEMMA WalkIs ==
  ASSUME mapped \in Nat, NEW L, Chain(L, head, link, Linked)
  PROVE  \A n \in 0 .. mapped : Walk[n] = Nth(L, n)
<1> DEFINE g == [n \in 0 .. mapped |-> Nth(L, n)]
<1>1. L \in Seq(Nat) /\ Len(L) \in Nat /\ head = Nth(L, 0)
  BY DEF Chain
<1>2. ASSUME NEW i \in 1 .. Len(L) PROVE L[i] # nil /\ link[L[i]] = Nth(L, i)
  <2>1. L[i] \in Linked
    BY <1>1, InToSet DEF Chain
  <2> QED
    BY <2>1 DEF Linked, nil, Chain
<1>3. ASSUME NEW n \in 0 .. mapped, n # 0
      PROVE  /\ n - 1 \in 0 .. mapped
             /\ Nth(L, n) = IF Nth(L, n - 1) = nil THEN nil ELSE link[Nth(L, n - 1)]
  <2>1. n - 1 \in 0 .. mapped /\ n \in Nat
    BY <1>3
  <2>2. CASE n - 1 < Len(L)
    <3>1. n \in 1 .. Len(L) /\ Nth(L, n - 1) = L[n]
      BY <1>1, <1>3, <2>1, <2>2 DEF Nth
    <3> QED
      BY <1>2, <2>1, <3>1
  <2>3. CASE ~ (n - 1 < Len(L))
    <3>1. Nth(L, n - 1) = nil /\ Nth(L, n) = nil
      BY <1>1, <1>3, <2>1, <2>3 DEF Nth
    <3> QED
      BY <2>1, <3>1
  <2> QED
    BY <2>2, <2>3
<1>4. g = WalkOf(g)
  <2>1. ASSUME NEW n \in 0 .. mapped
        PROVE  Nth(L, n) = IF n = 0 THEN head ELSE IF g[n - 1] = nil THEN nil ELSE link[g[n - 1]]
    <3>1. CASE n = 0
      BY <1>1, <3>1
    <3>2. CASE n # 0
      <4>1. g[n - 1] = Nth(L, n - 1)
        BY <1>3, <3>2
      <4> QED
        BY <1>3, <3>2, <4>1
    <3> QED
      BY <3>1, <3>2
  <2> QED
    BY <2>1 DEF WalkOf
<1>5. Walk = WalkOf(Walk)
  BY <1>4, WalkSolves
<1>6. \A n \in 0 .. mapped :
        Walk[n] = IF n = 0 THEN head ELSE IF Walk[n - 1] = nil THEN nil ELSE link[Walk[n - 1]]
  <2> DEFINE W == Walk
  <2>1. W = WalkOf(W)
    BY <1>5
  <2> HIDE DEF W
  <2>2. \A n \in 0 .. mapped :
          WalkOf(W)[n] = IF n = 0 THEN head ELSE IF W[n - 1] = nil THEN nil ELSE link[W[n - 1]]
    BY DEF WalkOf
  <2> QED
    BY <2>1, <2>2 DEF W
<1> DEFINE T == {n \in 0 .. mapped : Walk[n] # Nth(L, n)}
<1>7. ASSUME T # {} PROVE FALSE
  <2>1. T \subseteq Nat
    OBVIOUS
  <2>2. PICK x \in T : \A y \in T : ~ (y < x)
    BY <1>7, <2>1, LeastNatural
  <2>3. x \in 0 .. mapped /\ Walk[x] # Nth(L, x)
    OBVIOUS
  <2>4. x # 0
    BY <1>1, <1>6, <2>3
  <2>5. x - 1 \in 0 .. mapped /\ x - 1 < x /\ Walk[x - 1] = Nth(L, x - 1)
    BY <2>2, <2>3, <2>4
  <2> QED
    BY <1>3, <1>6, <2>3, <2>4, <2>5
<1> QED
  BY <1>7

\* A list without duplicates is not longer than the number of regions.
LEMMA ChainShort ==
  ASSUME mapped \in Nat, NEW L, Chain(L, head, link, Linked)
  PROVE  Len(L) <= mapped /\ Len(L) \in Nat
<1> DEFINE S == 1 .. Len(L)
<1>1. L \in Seq(Nat) /\ Len(L) \in Nat /\ Distinct(L)
  BY DEF Chain
<1>2. \A i \in S : L[i] \in 1 .. mapped
  BY <1>1, InToSet DEF Chain, Linked
<1> DEFINE f == [i \in S |-> L[i]]
<1>3. f \in Injection(S, 1 .. mapped)
  <2>1. f \in [S -> 1 .. mapped]
    BY <1>2
  <2>2. \A i, j \in S : f[i] = f[j] => i = j
    BY <1>1 DEF Distinct
  <2> HIDE DEF f, S
  <2> QED
    BY <2>1, <2>2, Zenon DEF Injection, IsInjective
<1>4. /\ IsFiniteSet(1 .. mapped) /\ Cardinality(1 .. mapped) = mapped
      /\ Cardinality(S) = Len(L)
  <2>1. 1 \in Int /\ mapped \in Int /\ Len(L) \in Int
    BY <1>1
  <2>2. /\ IsFiniteSet(1 .. mapped) /\ Cardinality(1 .. mapped) = IF 1 > mapped THEN 0 ELSE mapped - 1 + 1
        /\ Cardinality(S) = IF 1 > Len(L) THEN 0 ELSE Len(L) - 1 + 1
    BY <2>1, FS_Interval
  <2> HIDE DEF S
  <2> QED
    BY <1>1, <2>2
<1>5. Cardinality(S) <= Cardinality(1 .. mapped)
  BY <1>3, <1>4, FS_Injection
<1> QED
  BY <1>1, <1>4, <1>5

\* persistentChunks holds every chunk but the ones that are being pushed, for
\* any number of threads that race for the head (malloc.go, the loop around
\* Casuintptr).
THEOREM NoChunkLost == Spec => []ChunksLinked
<1>1. ChainInv => ChunksLinked
  <2> SUFFICES ASSUME ChainInv PROVE ChunksLinked
    OBVIOUS
  <2>1. mapped \in Nat
    BY DEF ChainInv
  <2>2. PICK L : Chain(L, head, link, Linked)
    BY DEF ChainInv
  <2>3. \A n \in 0 .. mapped : Walk[n] = Nth(L, n)
    BY <2>1, <2>2, WalkIs
  <2>4. Len(L) <= mapped /\ Len(L) \in Nat /\ L \in Seq(Nat) /\ ToSet(L) = Linked
    BY <2>1, <2>2, ChainShort DEF Chain
  <2>5. Walk[mapped] = nil
    <3>1. mapped \in 0 .. mapped /\ Nth(L, mapped) = nil
      BY <2>1, <2>4 DEF Nth
    <3> QED
      BY <2>3, <3>1
  <2>6. ASSUME NEW x PROVE x \in {Walk[n] : n \in 0 .. mapped} \ {nil} <=> x \in Linked
    <3>1. ASSUME NEW n \in 0 .. mapped, x = Walk[n], x # nil PROVE x \in Linked
      <4>1. x = Nth(L, n)
        BY <2>3, <3>1
      <4>2. n + 1 \in 1 .. Len(L) /\ x = L[n + 1]
        BY <2>1, <2>4, <3>1, <4>1 DEF Nth
      <4> QED
        BY <2>4, <4>2, InToSet
    <3>2. ASSUME x \in Linked PROVE x # nil /\ \E n \in 0 .. mapped : x = Walk[n]
      <4>1. PICK i \in 1 .. Len(L) : L[i] = x
        BY <2>4, <3>2, InToSet
      <4>2. i - 1 \in 0 .. mapped /\ Nth(L, i - 1) = x
        BY <2>1, <2>4, <4>1 DEF Nth
      <4>3. x # nil
        BY <3>2 DEF Linked, nil
      <4> QED
        BY <2>3, <4>2, <4>3
    <3> QED
      BY <3>1, <3>2
  <2> QED
    BY <2>5, <2>6 DEF ChunksLinked, Linked, LargeRegions
<1> QED
  BY <1>1, ChainInvariance, PTL

-----------------------------------------------------------------------------
(***************************************************************************)
(* Address space.                                                          *)
(***************************************************************************)
\* A number of whole arenas.
Whole(x) == x \in Nat /\ x % ArenaUnits = 0

\* The units of the arenas A.
Slots(A) == {x \in Nat : Arena(x) \in A}

\* Thread t registers the arenas it got; it is between two of them.
InLoop(t) == pc[t] = "arena" \/ (pc[t] \in Persisting /\ call[t].then = "arena")
Placing(t) == pc[t] = "arenas" \/ InLoop(t)

HintType == [addr : Nat, down : BOOLEAN]
AskType == [ask : Nat, n : Nat, register : BOOLEAN, v : Nat, size : Nat, ri : Nat]

\* Types of the heap.
HeapTypes ==
  /\ reserved \subseteq Nat /\ arenas \subseteq Nat /\ allArenas \in Seq(Nat)
  /\ hints \in Seq(HintType)
  /\ curArena \in [base : Nat, end : Nat]
  /\ asked \in AskType

\* A hint is the address of an arena; one that is used downwards has room
\* below it for any request.
HintsOK ==
  \A i \in 1 .. Len(hints) :
    hints[i].addr > 0 /\ Whole(hints[i].addr) /\ (hints[i].down => hints[i].addr >= Low)

\* The rest of the current arena is reserved.
RestReserved ==
  curArena.base <= curArena.end /\ Units(curArena.base, curArena.end - curArena.base) \subseteq reserved

\* What sysAlloc is asked for.
AskOK == asked.n > 0 /\ Whole(asked.n) /\ Low > asked.n /\ asked.ask <= asked.n

\* The place sysAlloc got: whole arenas of the address space, those from ri on
\* reserved and not yet in the index.
PlaceOK ==
  /\ Whole(asked.v) /\ Whole(asked.size) /\ asked.size > 0 /\ asked.v + asked.size <= Limit
  /\ asked.ask <= asked.size /\ Units(asked.v, asked.size) \subseteq reserved
  /\ reserved = Slots(arenas \cup (asked.ri .. LastArena))
  /\ arenas \cap (asked.ri .. LastArena) = {}

\* The steps of grow and sysAlloc, of the thread that holds h.lock.
StepsOK ==
  /\ \A t \in Threads : pc[t] = "hint" => AskOK
  /\ \A t \in Threads : Placing(t) => PlaceOK
  /\ \A t \in Threads : InLoop(t) => asked.ri <= LastArena
  /\ (\A t \in Threads : ~ Placing(t)) => reserved = Slots(arenas)

\* Also in a program that was stopped.
Lasting ==
  /\ thrown \notin {"memory reservation exceeds address space limit",
                    "misrounded allocation is sysAlloc", "arena already initialized"}
  /\ Distinct(allArenas) /\ ToSet(allArenas) \subseteq arenas
  /\ (locks["heap"] = NoOne => reserved = Slots(arenas))
  /\ prepared \subseteq reserved /\ reserved \cap other = {}

HeapInv == HeapTypes /\ Lasting /\ (thrown = "none" => HintsOK /\ RestReserved /\ StepsOK)
-----------------------------------------------------------------------------
(***************************************************************************)
(* Units and arenas.                                                       *)
(***************************************************************************)
\* Multiples of a grow with the factor.
LEMMA TimesGrows ==
  ASSUME NEW a \in Nat, a > 0, NEW q \in Int, NEW r \in Int
  PROVE  /\ q <= r => a * q <= a * r
         /\ q < r => a * q + a <= a * r
<1>1. ASSUME NEW d \in Nat, r = q + d PROVE a * q <= a * r
  <2>1. a * r = a * q + a * d /\ a * d >= 0
    BY <1>1
  <2> QED
    BY <2>1
<1>2. ASSUME NEW d \in Nat, r = q + 1 + d PROVE a * q + a <= a * r
  <2>1. a * r = a * q + a + a * d /\ a * d >= 0
    BY <1>2
  <2> QED
    BY <2>1
<1>3. q <= r => r - q \in Nat /\ r = q + (r - q)
  OBVIOUS
<1>4. q < r => r - q - 1 \in Nat /\ r = q + 1 + (r - q - 1)
  OBVIOUS
<1> QED
  BY <1>1, <1>2, <1>3, <1>4

\* Quotient and remainder are what they should be.
LEMMA DivFacts ==
  ASSUME NEW a \in Nat, a > 0, NEW x \in Nat
  PROVE  /\ x \div a \in Nat /\ x % a \in Nat /\ x % a < a
         /\ x = a * (x \div a) + (x % a)
<1> DEFINE q == x \div a
<1> DEFINE r == x % a
<1>1. q \in Nat /\ r \in Nat /\ r < a
  OBVIOUS
<1>2. x = a * q + r
  OBVIOUS
<1> QED
  BY <1>1, <1>2

\* There is only one quotient, and one remainder.
LEMMA DivUnique ==
  ASSUME NEW a \in Nat, a > 0, NEW q \in Nat, NEW r \in Nat, r < a, NEW x \in Nat, x = a * q + r
  PROVE  x \div a = q /\ x % a = r
<1> DEFINE p == x \div a
<1> DEFINE s == x % a
<1>1. p \in Nat /\ s \in Nat /\ s < a /\ x = a * p + s
  BY DivFacts
<1> HIDE DEF p, s
<1>2. /\ p < q => a * p + a <= a * q
      /\ q < p => a * q + a <= a * p
  BY <1>1, TimesGrows
<1>3. a * p \in Nat /\ a * q \in Nat
  BY <1>1
<1>4. p = q
  <2> DEFINE y == a * p
  <2> DEFINE z == a * q
  <2>1. /\ y \in Nat /\ z \in Nat /\ y + s = z + r /\ (p < q => y + a <= z) /\ (q < p => z + a <= y)
    BY <1>1, <1>2, <1>3
  <2> HIDE DEF y, z
  <2> QED
    BY <1>1, <2>1
<1>5. s = r
  BY <1>1, <1>3, <1>4
<1> QED
  BY <1>4, <1>5 DEF p, s

\* Whole arenas are those that begin where an arena begins.
LEMMA WholeIs ==
  ASSUME NEW x \in Nat
  PROVE  /\ Arena(x) \in Nat /\ ArenaUnits * Arena(x) <= x /\ x < ArenaUnits * Arena(x) + ArenaUnits
         /\ ArenaUnits * Arena(x) \in Nat
         /\ Whole(x) => x = ArenaUnits * Arena(x)
<1>1. ArenaUnits \in Nat /\ ArenaUnits > 0
  BY HeapAssumption
<1>2. /\ Arena(x) \in Nat /\ x % ArenaUnits \in Nat /\ x % ArenaUnits < ArenaUnits
      /\ x = ArenaUnits * Arena(x) + (x % ArenaUnits)
  BY <1>1, DivFacts DEF Arena
<1>3. ArenaUnits * Arena(x) \in Nat
  BY <1>1, <1>2
<1> DEFINE y == ArenaUnits * Arena(x)
<1> DEFINE r == x % ArenaUnits
<1>4. y \in Nat /\ r \in Nat /\ r < ArenaUnits /\ x = y + r
  BY <1>2, <1>3, Zenon
<1>5. Whole(x) => r = 0
  BY DEF Whole
<1> HIDE DEF y, r
<1>6. y <= x /\ x < y + ArenaUnits /\ (Whole(x) => x = y)
  BY <1>1, <1>4, <1>5
<1> QED
  BY <1>2, <1>3, <1>6, Zenon DEF y

\* Multiples of an arena are whole.
LEMMA WholeTimes ==
  ASSUME NEW q \in Nat
  PROVE  Whole(ArenaUnits * q) /\ Arena(ArenaUnits * q) = q
<1>1. ArenaUnits \in Nat /\ ArenaUnits > 0 /\ ArenaUnits * q \in Nat
  BY HeapAssumption
<1>2. (ArenaUnits * q) \div ArenaUnits = q /\ (ArenaUnits * q) % ArenaUnits = 0
  <2> DEFINE x == ArenaUnits * q
  <2>1. x \in Nat /\ x = ArenaUnits * q + 0
    BY <1>1
  <2> HIDE DEF x
  <2>2. x \div ArenaUnits = q /\ x % ArenaUnits = 0
    BY <1>1, <2>1, DivUnique
  <2> QED
    BY <2>2 DEF x
<1> QED
  BY <1>1, <1>2 DEF Whole, Arena

\* Sums and differences of whole arenas are whole.
LEMMA WholeSum ==
  ASSUME NEW x, NEW y, Whole(x), Whole(y)
  PROVE  /\ Whole(x + y) /\ Arena(x + y) = Arena(x) + Arena(y)
         /\ x >= y => Whole(x - y)
<1> DEFINE i == Arena(x)
<1> DEFINE j == Arena(y)
<1>1. x \in Nat /\ y \in Nat /\ ArenaUnits \in Nat /\ ArenaUnits > 0
  BY HeapAssumption DEF Whole
<1>2. i \in Nat /\ j \in Nat /\ x = ArenaUnits * i /\ y = ArenaUnits * j
  BY <1>1, WholeIs
<1> HIDE DEF i, j
<1>3. x + y = ArenaUnits * (i + j) /\ i + j \in Nat
  BY <1>1, <1>2
<1>4. Whole(x + y) /\ Arena(x + y) = i + j
  BY <1>3, WholeTimes
<1>5. ASSUME x >= y PROVE Whole(x - y)
  <2>1. i >= j
    <3>1. i < j => ArenaUnits * i + ArenaUnits <= ArenaUnits * j
      BY <1>1, <1>2, TimesGrows
    <3> QED
      BY <1>1, <1>2, <1>5, <3>1
  <2>2. x - y = ArenaUnits * (i - j) /\ i - j \in Nat
    BY <1>1, <1>2, <2>1
  <2> QED
    BY <2>2, WholeTimes
<1> QED
  BY <1>4, <1>5 DEF i, j

\* Rounding up gives whole arenas, less than one arena more.
LEMMA WholeAlign ==
  ASSUME NEW n \in Nat
  PROVE  /\ Whole(alignUp(n, ArenaUnits)) /\ alignUp(n, ArenaUnits) >= n
         /\ alignUp(n, ArenaUnits) < n + ArenaUnits
<1> DEFINE a == ArenaUnits
<1> DEFINE q == (n + a - 1) \div a
<1>1. a \in Nat /\ a > 0 /\ n + a - 1 \in Nat
  BY HeapAssumption
<1>2. q \in Nat /\ a * q <= n + a - 1 /\ n + a - 1 < a * q + a
  <2>1. /\ q \in Nat /\ (n + a - 1) % a \in Nat /\ (n + a - 1) % a < a
        /\ n + a - 1 = a * q + ((n + a - 1) % a)
    BY <1>1, DivFacts
  <2>2. a * q \in Nat
    BY <1>1, <2>1
  <2> QED
    BY <1>1, <2>1, <2>2
<1>3. alignUp(n, ArenaUnits) = a * q /\ a * q \in Nat
  <2>1. alignUp(n, ArenaUnits) = q * a
    BY DEF alignUp
  <2> HIDE DEF q
  <2> QED
    BY <1>1, <1>2, <2>1
<1> HIDE DEF q
<1>4. Whole(a * q)
  BY <1>2, WholeTimes
<1> QED
  BY <1>1, <1>2, <1>3, <1>4

\* n whole arenas from p, where an arena begins: their units are those of the
\* arenas from p's to the last one's.
LEMMA WholeUnits ==
  ASSUME NEW p, NEW n, Whole(p), Whole(n), n > 0
  PROVE  /\ Units(p, n) = Slots(Arena(p) .. Arena(p + n - 1))
         /\ Arena(p) \in Nat /\ Arena(p + n - 1) \in Nat /\ Arena(p) <= Arena(p + n - 1)
         /\ Units(p, n) \subseteq Nat
<1> DEFINE a == ArenaUnits
<1> DEFINE i == Arena(p)
<1> DEFINE j == Arena(p + n - 1)
<1>1. p \in Nat /\ n \in Nat /\ a \in Nat /\ a > 0 /\ p + n - 1 \in Nat
  BY HeapAssumption DEF Whole
<1>2. i \in Nat /\ p = a * i
  BY <1>1, WholeIs
<1>3. j \in Nat /\ a * j <= p + n - 1 /\ p + n - 1 < a * j + a /\ a * j \in Nat
  BY <1>1, WholeIs
<1>4. p + n = a * j + a
  <2> DEFINE k == Arena(p + n)
  <2>1. Whole(p + n)
    BY WholeSum
  <2>2. k \in Nat /\ p + n = a * k
    BY <1>1, <2>1, WholeIs
  <2> HIDE DEF i, j, k
  <2>3. j < k => a * j + a <= a * k
    BY <1>1, <1>3, <2>2, TimesGrows
  <2>4. k <= j => a * k <= a * j
    BY <1>1, <1>3, <2>2, TimesGrows
  <2>5. ~ (k <= j)
    BY <1>1, <1>3, <2>2, <2>4
  <2>6. j < k
    BY <1>3, <2>2, <2>5
  <2> QED
    BY <1>1, <1>3, <2>2, <2>3, <2>6
<1> HIDE DEF i, j
<1>5. i <= j
  <2>1. j < i => a * j + a <= a * i
    BY <1>1, <1>2, <1>3, TimesGrows
  <2> QED
    BY <1>1, <1>2, <1>3, <1>4, <2>1
<1>6. ASSUME NEW x \in Nat PROVE x \in Units(p, n) <=> Arena(x) \in i .. j
  <2> DEFINE q == Arena(x)
  <2>1. q \in Nat /\ a * q <= x /\ x < a * q + a /\ a * q \in Nat
    BY WholeIs
  <2> HIDE DEF q
  <2>2. /\ q < i => a * q + a <= a * i
        /\ i <= q => a * i <= a * q
        /\ j < q => a * j + a <= a * q
        /\ q <= j => a * q <= a * j
    BY <1>1, <1>2, <1>3, <2>1, TimesGrows
  <2>3. x \in Units(p, n) <=> p <= x /\ x < p + n
    BY <1>1 DEF Units
  <2>4. p <= x <=> i <= q
    BY <1>1, <1>2, <2>1, <2>2
  <2>5. x < p + n <=> q <= j
    BY <1>1, <1>3, <1>4, <2>1, <2>2
  <2> QED
    BY <1>2, <1>3, <2>1, <2>3, <2>4, <2>5 DEF q
<1>7. Units(p, n) \subseteq Nat
  BY <1>1 DEF Units
<1>8. Units(p, n) = Slots(i .. j)
  BY <1>6, <1>7 DEF Slots
<1> QED
  BY <1>2, <1>3, <1>5, <1>7, <1>8 DEF i, j

\* One arena.
LEMMA SlotUnits ==
  ASSUME NEW a \in Nat
  PROVE  Units(a * ArenaUnits, ArenaUnits) = Slots({a})
<1>1. Whole(ArenaUnits * a) /\ Arena(ArenaUnits * a) = a
  BY WholeTimes
<1>2. ArenaUnits \in Nat /\ ArenaUnits > 0
  BY HeapAssumption
<1>3. Whole(ArenaUnits) /\ Arena(ArenaUnits) = 1
  <2>1. ArenaUnits * 1 = ArenaUnits
    BY <1>2
  <2> QED
    BY <2>1, WholeTimes
<1> DEFINE p == ArenaUnits * a
<1>4. Units(p, ArenaUnits) = Slots(Arena(p) .. Arena(p + ArenaUnits - 1))
  BY <1>1, <1>2, <1>3, WholeUnits
<1>5. Arena(p + ArenaUnits - 1) = a
  <2>1. p + ArenaUnits - 1 = ArenaUnits * a + (ArenaUnits - 1) /\ p + ArenaUnits - 1 \in Nat
    BY <1>2
  <2>2. ArenaUnits - 1 \in Nat /\ ArenaUnits - 1 < ArenaUnits
    BY <1>2
  <2> DEFINE x == p + ArenaUnits - 1
  <2> DEFINE r == ArenaUnits - 1
  <2>3. x = ArenaUnits * a + r /\ x \in Nat /\ r \in Nat /\ r < ArenaUnits
    BY <2>1, <2>2
  <2> HIDE DEF x, r
  <2>4. x \div ArenaUnits = a
    BY <1>2, <2>3, DivUnique
  <2> QED
    BY <2>4 DEF Arena, x
<1>6. p = a * ArenaUnits
  BY <1>2
<1>7. a .. a = {a}
  OBVIOUS
<1> QED
  BY <1>1, <1>4, <1>5, <1>6, <1>7

-----------------------------------------------------------------------------
(***************************************************************************)
(* The steps of the metadata allocators.                                   *)
(***************************************************************************)
\* grow and sysAlloc run under h.lock.
LEMMA PlacingHolds ==
  ASSUME ThreadsInv, NEW t \in Threads, Placing(t) \/ pc[t] \in {"hint", "arenas"}
  PROVE  locks["heap"] = t
<1>1. NeedsHeap(call[t], pc[t])
  BY DEF Placing, InLoop, NeedsHeap, UnderHeapLock
<1> QED
  BY <1>1 DEF ThreadsInv

\* Thread t does not begin, end or leave a step of sysAlloc.
Stays(t) ==
  /\ \A u \in Threads : u # t => pc'[u] = pc[u] /\ call'[u] = call[u]
  /\ (Placing(t)' <=> Placing(t)) /\ (InLoop(t)' <=> InLoop(t)) /\ (pc'[t] = "hint" <=> pc[t] = "hint")

\* A step of t outside grow and sysAlloc.
LEMMA ArenasAside ==
  ASSUME HeapInv, NEW t \in Threads, thrown = "none", UNCHANGED arenaVars,
         thrown' = "none" => Stays(t) /\ ThreadsInv',
         thrown' # "none" => locks'["heap"] = locks["heap"],
         thrown' \notin {"memory reservation exceeds address space limit",
                         "misrounded allocation is sysAlloc", "arena already initialized"}
  PROVE  HeapInv'
<1>1. /\ other' = other /\ reserved' = reserved /\ prepared' = prepared /\ hints' = hints
      /\ arenas' = arenas /\ allArenas' = allArenas /\ curArena' = curArena /\ asked' = asked
  BY DEF arenaVars
<1>2. HeapTypes'
  BY <1>1 DEF HeapInv, HeapTypes
<1>3. HintsOK' /\ RestReserved' /\ (AskOK' <=> AskOK) /\ (PlaceOK' <=> PlaceOK)
      /\ LastArena' = LastArena
  BY <1>1 DEF HeapInv, HintsOK, RestReserved, AskOK, PlaceOK, LastArena, Whole, Slots
<1>4. ASSUME thrown' = "none" PROVE StepsOK'
  <2>1. \A u \in Threads : (Placing(u)' <=> Placing(u)) /\ (InLoop(u)' <=> InLoop(u))
                            /\ (pc'[u] = "hint" <=> pc[u] = "hint")
    BY <1>4 DEF Stays, Placing, InLoop
  <2>2. StepsOK
    BY DEF HeapInv
  <2> QED
    BY <1>1, <1>3, <2>1, <2>2 DEF StepsOK
<1>5. ASSUME locks'["heap"] = NoOne PROVE reserved' = Slots(arenas')
  <2>1. CASE thrown' = "none"
    <3>1. \A u \in Threads : ~ Placing(u)'
      BY <1>5, <2>1, NoOneAssumption, PlacingHolds DEF ThreadsInv, Placing, InLoop, NeedsHeap, UnderHeapLock
    <3> QED
      BY <1>4, <2>1, <3>1 DEF StepsOK
  <2>2. CASE thrown' # "none"
    BY <1>1, <1>5, <2>2 DEF HeapInv, Lasting
  <2> QED
    BY <2>1, <2>2
<1>6. Lasting'
  BY <1>1, <1>5 DEF HeapInv, Lasting
<1> QED
  BY <1>2, <1>3, <1>4, <1>6 DEF HeapInv

\* persistentalloc1, for whomever it runs.
LEMMA PersistArenas ==
  ASSUME IInv, IInv', HeapInv, NEW t \in Threads, persistentSteps(t), UNCHANGED arenaVars
  PROVE  HeapInv'
<1>1. /\ thrown = "none" /\ pc[t] \in Persisting
      /\ thrown' \in {"none", "runtime: cannot allocate memory",
                      "out of memory allocating heap arena metadata"}
  BY DEF persistentSteps, acquire, carve, newChunk, outOfMemory, linkChunk, casChunk, largeBlock,
         noLargeBlock, At, Persisting, Carving, Linking, throw
<1>2. ThreadsInv /\ MetaInv /\ MemoryInv
  BY <1>1 DEF IInv, MetaInv
<1>3. thrown' = "none" => ThreadsInv'
  BY DEF IInv, MetaInv
<1>4. pc[t] \notin {"hint", "arenas", "arena"}
  BY <1>1 DEF Persisting, Carving, Linking
<1>5. ASSUME thrown' = "none", NEW l \in Carving, Goto(t, l),
             \A u \in Threads : u # t => call'[u] = call[u], call'[t].then = call[t].then
      PROVE  HeapInv'
  <2>1. pc'[t] = l /\ \A u \in Threads : u # t => pc'[u] = pc[u]
    BY <1>2, <1>5, PcOthers
  <2>2. l \notin {"hint", "arenas", "arena"} /\ l \in Persisting
    BY DEF Persisting, Carving, Linking
  <2>3. Stays(t)
    BY <1>1, <1>4, <1>5, <2>1, <2>2 DEF Stays, Placing, InLoop
  <2> QED
    BY <1>1, <1>3, <1>5, <2>3, ArenasAside
<1>6. ASSUME thrown' = "none", NEW p \in Nat \X Nat, Return(t, p)
      PROVE  HeapInv'
  <2>1. call' = [call EXCEPT ![t] = [NoCall EXCEPT !.p = p]] /\ Goto(t, call[t].then)
    BY <1>6 DEF Return
  <2>2. \A u \in Threads : u # t => call'[u] = call[u]
    BY <1>2, <2>1 DEF ThreadsInv
  <2>3. pc'[t] = call[t].then /\ \A u \in Threads : u # t => pc'[u] = pc[u]
    BY <1>2, <2>1, PcOthers
  <2>4. call[t].then \in Thens
    BY <1>2 DEF ThreadsInv, Calls
  <2>5. pc'[t] \notin Persisting /\ pc'[t] \notin {"hint", "arenas"}
    BY <2>3, <2>4 DEF Thens, Persisting, Carving, Linking
  <2>6. Stays(t)
    BY <1>1, <1>4, <2>2, <2>3, <2>5 DEF Stays, Placing, InLoop
  <2> QED
    BY <1>1, <1>3, <1>6, <2>6, ArenasAside
<1>7. CASE acquire(t)
  <2>1. Goto(t, "carve") /\ "carve" \in Carving /\ call' = call /\ thrown' = "none"
    BY <1>1, <1>7 DEF acquire, persistVars, Carving
  <2> QED
    BY <1>5, <2>1
<1>8. CASE carve(t)
  <2>1. thrown' = "none" /\ \E base, off \in Nat : Take(t, base, off)
    BY <1>1, <1>2, <1>8, CarveStep DEF carve
  <2>2. ASSUME NEW base \in Nat, NEW off \in Nat, Take(t, base, off) PROVE HeapInv'
    <3>1. Return(t, <<base, off>>) /\ <<base, off>> \in Nat \X Nat
      BY <2>2 DEF Take
    <3> QED
      BY <1>6, <2>1, <3>1
  <2> QED
    BY <2>1, <2>2
<1>9. CASE newChunk(t)
  <2>1. Goto(t, "link") /\ "link" \in Carving /\ call' = call /\ thrown' = "none"
    BY <1>1, <1>9 DEF newChunk, Carving, Linking
  <2> QED
    BY <1>5, <2>1
<1>10. CASE outOfMemory(t)
  <2>1. thrown' # "none" /\ locks' = IF Owner(t) = NoP THEN unlock("global") ELSE locks
    BY <1>10 DEF outOfMemory, throw
  <2>2. locks'["heap"] = locks["heap"]
    BY <1>2, <2>1 DEF ThreadsInv, unlock, LockNames
  <2> QED
    BY <1>1, <2>1, <2>2, ArenasAside
<1>11. CASE linkChunk(t)
  <2>1. /\ Goto(t, "cas") /\ "cas" \in Carving /\ thrown' = "none"
        /\ call' = [call EXCEPT ![t].chunks = head]
    BY <1>1, <1>11 DEF linkChunk, Carving, Linking
  <2>2. call[t] \in Calls /\ call \in [Threads -> Calls]
    BY <1>2 DEF ThreadsInv
  <2>3. \A u \in Threads : u # t => call'[u] = call[u]
    BY <2>1, <2>2
  <2>4. call'[t].then = call[t].then
    BY <2>1, <2>2 DEF Calls
  <2> QED
    BY <1>5, <2>1, <2>3, <2>4
<1>12. CASE casChunk(t)
  <2>1. thrown' = "none" /\ "link" \in Carving
    BY <1>1, <1>12 DEF casChunk, Carving, Linking
  <2>2. \/ \E base, off \in Nat : Take(t, base, off)
        \/ Goto(t, "link") /\ call' = call
    BY <1>2, <1>12, CasStep
  <2>3. ASSUME NEW base \in Nat, NEW off \in Nat, Take(t, base, off) PROVE HeapInv'
    <3>1. Return(t, <<base, off>>) /\ <<base, off>> \in Nat \X Nat
      BY <2>3 DEF Take
    <3> QED
      BY <1>6, <2>1, <3>1
  <2>4. CASE Goto(t, "link") /\ call' = call
    BY <1>5, <2>1, <2>4
  <2> QED
    BY <2>2, <2>3, <2>4
<1>13. CASE largeBlock(t)
  <2>1. thrown' = "none" /\ Return(t, <<mapped + 1, 0>>) /\ <<mapped + 1, 0>> \in Nat \X Nat
    BY <1>1, <1>2, <1>13 DEF largeBlock, MemoryInv, MemoryTypes
  <2> QED
    BY <1>6, <2>1
<1>14. CASE noLargeBlock(t)
  <2>1. \/ thrown' = "none" /\ Return(t, <<nil, 0>>)
        \/ thrown' # "none" /\ locks' = locks
    BY <1>1, <1>14 DEF noLargeBlock, throw
  <2>2. <<nil, 0>> \in Nat \X Nat
    BY DEF nil
  <2>3. CASE thrown' = "none" /\ Return(t, <<nil, 0>>)
    BY <1>6, <2>2, <2>3
  <2>4. CASE thrown' # "none" /\ locks' = locks
    BY <1>1, <2>4, ArenasAside
  <2> QED
    BY <2>1, <2>3, <2>4
<1> QED
  BY <1>7, <1>8, <1>9, <1>10, <1>11, <1>12, <1>13, <1>14 DEF persistentSteps

\* The allocators of mspans, and other callers of persistentalloc.
LEMMA SpansArenas ==
  ASSUME IInv, IInv', HeapInv, NEW t \in Threads, otherCaller(t) \/ spanSteps(t), UNCHANGED arenaVars
  PROVE  HeapInv'
<1>1. /\ thrown = "none" /\ pc[t] \in {"idle", "fixalloc", "fixchunk", "pull"}
      /\ thrown' \in {"none", "runtime: cannot allocate memory"}
      /\ thrown' # "none" => locks' = locks
  BY DEF otherCaller, spanSteps, allocMSpanLocked, tryAllocMSpan, freeMSpanLocked, fixallocReuse,
         fixallocRefill, fixallocChunk, fixallocCarve, recordspanFails, pullCached, Call, At, throw
<1>2. ThreadsInv
  BY <1>1 DEF IInv, MetaInv
<1>3. thrown' = "none" => ThreadsInv'
  BY DEF IInv, MetaInv
<1>4. pc[t] \notin Persisting /\ pc[t] \notin {"hint", "arenas", "arena"}
  BY <1>1 DEF Persisting, Carving, Linking
<1>5. ASSUME NEW size, NEW align, NEW then \in {"idle", "fixchunk"}, persistentalloc(t, size, align, then)
      PROVE  Stays(t)
  <2> DEFINE c == [NoCall EXCEPT !.size = size, !.align = align, !.then = then]
  <2>1. call' = [call EXCEPT ![t] = c] /\ Goto(t, "persistent")
    BY <1>5 DEF persistentalloc
  <2>2. c.then = then
    BY DEF NoCall
  <2> HIDE DEF c
  <2>3. call'[t] = c /\ \A u \in Threads : u # t => call'[u] = call[u]
    BY <1>2, <2>1 DEF ThreadsInv
  <2>4. pc'[t] = "persistent" /\ \A u \in Threads : u # t => pc'[u] = pc[u]
    BY <1>2, <2>1, PcOthers
  <2> QED
    BY <1>4, <2>2, <2>3, <2>4 DEF Stays, Placing, InLoop
<1>6. ASSUME UNCHANGED call, NEW l \in {"idle", "pull", "fixalloc"}, Goto(t, l) \/ (pc' = pc /\ pc[t] = l)
      PROVE  Stays(t)
  <2>1. pc'[t] = l /\ \A u \in Threads : u # t => pc'[u] = pc[u]
    BY <1>2, <1>6, PcOthers
  <2>2. pc'[t] \notin Persisting /\ pc'[t] \notin {"hint", "arenas", "arena"}
    BY <2>1 DEF Persisting, Carving, Linking
  <2> QED
    BY <1>4, <1>6, <2>1, <2>2 DEF Stays, Placing, InLoop
<1>7. thrown' = "none" => Stays(t)
  <2>1. CASE otherCaller(t)
    BY <1>5, <2>1 DEF otherCaller
  <2>2. CASE fixallocRefill(t)
    BY <1>5, <2>2 DEF fixallocRefill
  <2>3. CASE allocMSpanLocked(t) \/ fixallocChunk(t) \/ pullCached(t)
    <3>1. UNCHANGED call /\ \E l \in {"idle", "pull", "fixalloc"} : Goto(t, l)
      BY <2>3 DEF allocMSpanLocked, fixallocChunk, pullCached, persistVars
    <3> QED
      BY <1>6, <3>1
  <2>4. CASE tryAllocMSpan(t) \/ freeMSpanLocked(t)
    <3>1. UNCHANGED <<call, pc>> /\ pc[t] = "idle"
      BY <2>4 DEF tryAllocMSpan, freeMSpanLocked, persistVars, Call, At
    <3> QED
      BY <1>6, <3>1
  <2>5. CASE fixallocReuse(t) \/ fixallocCarve(t)
    <3>1. UNCHANGED call /\ \E s : Deliver(t, s)
      BY <2>5 DEF fixallocReuse, fixallocCarve, persistVars
    <3>2. \E l \in {"idle", "pull", "fixalloc"} : Goto(t, l)
      BY <3>1 DEF Deliver
    <3> QED
      BY <1>6, <3>1, <3>2
  <2>6. CASE recordspanFails(t)
    BY <2>6 DEF recordspanFails, throw
  <2> QED
    BY <2>1, <2>2, <2>3, <2>4, <2>5, <2>6 DEF spanSteps
<1> QED
  BY <1>1, <1>3, <1>7, ArenasAside

-----------------------------------------------------------------------------
(***************************************************************************)
(* The record of a running sysAlloc.                                       *)
(***************************************************************************)
\* Nothing is asked for.
LEMMA NoAskType == NoAsk \in AskType
BY DEF NoAsk, AskType

\* The next arena.
LEMMA AskNext ==
  ASSUME NEW q \in AskType, NEW x \in Nat
  PROVE  /\ [q EXCEPT !.ri = x] \in AskType /\ [q EXCEPT !.ri = x].ri = x
         /\ [q EXCEPT !.ri = x].ask = q.ask /\ [q EXCEPT !.ri = x].v = q.v
         /\ [q EXCEPT !.ri = x].size = q.size
BY DEF AskType

-----------------------------------------------------------------------------
(***************************************************************************)
(* The steps of grow and sysAlloc.                                         *)
(***************************************************************************)
\* No thread but t is in sysAlloc.
Alone(t) == \A u \in Threads : u # t => ~ Placing(u) /\ pc[u] # "hint"

\* That is so when t has h.lock, or nobody has.
LEMMA AloneLemma ==
  ASSUME ThreadsInv, NEW t \in Threads, locks["heap"] \in {t, NoOne}
  PROVE  Alone(t)
BY PlacingHolds, NoOneAssumption DEF Alone

\* Outside sysAlloc the reserved units are those of the arenas.
LEMMA NotPlacing ==
  ASSUME HeapInv, thrown = "none", NEW t \in Threads, Alone(t), ~ Placing(t)
  PROVE  reserved = Slots(arenas)
BY DEF HeapInv, StepsOK, Alone

\* A step of t, which is alone there: what is left to show is about t.
LEMMA ArenaStepped ==
  ASSUME NEW t \in Threads, Alone(t),
         \A u \in Threads : u # t => pc'[u] = pc[u] /\ call'[u] = call[u],
         pc'[t] = "hint" => AskOK', Placing(t)' => PlaceOK',
         InLoop(t)' => asked'.ri <= LastArena', ~ Placing(t)' => reserved' = Slots(arenas')
  PROVE  StepsOK'
<1>1. \A u \in Threads : u # t => ~ Placing(u)' /\ ~ InLoop(u)' /\ pc'[u] # "hint"
  BY DEF Alone, Placing, InLoop
<1>2. (\A u \in Threads : ~ Placing(u)') => reserved' = Slots(arenas')
  OBVIOUS
<1> QED
  BY <1>1, <1>2 DEF StepsOK, Slots

\* What holds in a program that was stopped, too.
LEMMA LastingStep ==
  ASSUME thrown' \notin {"memory reservation exceeds address space limit",
                         "misrounded allocation is sysAlloc", "arena already initialized"},
         thrown' = "none" => ThreadsInv' /\ StepsOK',
         thrown' # "none" => reserved' = Slots(arenas'),
         Distinct(allArenas'), ToSet(allArenas') \subseteq arenas',
         prepared' \subseteq reserved', reserved' \cap other' = {}
  PROVE  Lasting'
<1>1. ASSUME locks'["heap"] = NoOne, thrown' = "none" PROVE reserved' = Slots(arenas')
  <2>1. \A u \in Threads : ~ Placing(u)'
    BY <1>1, NoOneAssumption DEF ThreadsInv, Placing, InLoop, NeedsHeap, UnderHeapLock
  <2> QED
    BY <1>1, <2>1 DEF StepsOK, Slots
<1> QED
  BY <1>1 DEF Lasting, Slots

\* A call of sysAlloc: what it is asked for.
LEMMA AskStarts ==
  ASSUME IInv, IInv', HeapInv, NEW t \in Threads, userArena(t) \/ (grow(t) /\ pc' # pc)
  PROVE  HeapInv'
<1>1. PICK ask \in Asks :
        /\ thrown = "none" /\ pc[t] = "idle" /\ lock("heap", t) /\ Goto(t, "hint")
        /\ \/ asked' = [NoAsk EXCEPT !.n = alignUp(ask, ArenaUnits)]
           \/ asked' = [NoAsk EXCEPT !.ask = ask, !.n = alignUp(ask, ArenaUnits), !.register = TRUE]
        /\ UNCHANGED <<thrown, call, other, reserved, prepared, hints, arenas, allArenas, curArena>>
  <2>1. CASE userArena(t)
    BY <2>1 DEF userArena, Call, At, persistVars
  <2>2. CASE grow(t) /\ pc' # pc
    BY <2>2 DEF grow, Call, At, persistVars
  <2> QED
    BY <2>1, <2>2
<1>2. ThreadsInv
  BY <1>1 DEF IInv, MetaInv
<1>3. thrown' = "none" /\ ThreadsInv'
  BY <1>1 DEF IInv, MetaInv
<1>4. Alone(t) /\ ~ Placing(t)
  BY <1>1, <1>2, AloneLemma DEF lock, Placing, InLoop, Persisting, Carving, Linking
<1>5. reserved = Slots(arenas)
  BY <1>1, <1>4, NotPlacing
<1>6. pc'[t] = "hint" /\ \A u \in Threads : u # t => pc'[u] = pc[u]
  BY <1>1, <1>2, PcOthers
<1> DEFINE n == alignUp(ask, ArenaUnits)
<1>7. n \in Nat /\ n > 0 /\ Whole(n) /\ Low > n /\ ask <= n /\ ask \in Nat
  <2>1. ask \in Nat /\ ask > 0 /\ Low > n /\ ArenaUnits \in Nat
    BY HeapAssumption
  <2>2. Whole(n) /\ n >= ask
    BY <2>1, WholeAlign
  <2> QED
    BY <2>1, <2>2 DEF Whole
<1> HIDE DEF n
<1>8. AskOK' /\ asked' \in AskType
  <2>1. \/ asked' = [NoAsk EXCEPT !.n = n]
        \/ asked' = [NoAsk EXCEPT !.ask = ask, !.n = n, !.register = TRUE]
    BY <1>1 DEF n
  <2>2. PICK a \in {0, ask}, b \in BOOLEAN :
          asked' = [ask |-> a, n |-> n, register |-> b, v |-> 0, size |-> 0, ri |-> 0]
    BY <2>1 DEF NoAsk
  <2>3. asked'.n = n /\ asked'.ask = a /\ a \in Nat /\ a <= n
    BY <1>7, <2>2
  <2>4. asked' \in AskType
    BY <1>7, <2>2, <2>3 DEF AskType
  <2> QED
    BY <1>7, <2>3, <2>4 DEF AskOK, Whole
<1>9. ~ Placing(t)' /\ ~ InLoop(t)'
  BY <1>6 DEF Placing, InLoop, Persisting, Carving, Linking
<1>10. HeapTypes' /\ HintsOK' /\ RestReserved'
  BY <1>1, <1>8 DEF HeapInv, HeapTypes, HintsOK, RestReserved, Whole
<1>11. reserved' = Slots(arenas')
  BY <1>1, <1>5 DEF Slots
<1>12. StepsOK'
  BY <1>1, <1>4, <1>6, <1>8, <1>9, <1>11, ArenaStepped
<1>13. Lasting'
  BY <1>1, <1>3, <1>12, LastingStep DEF HeapInv, Lasting
<1> QED
  BY <1>10, <1>12, <1>13 DEF HeapInv

\* The registration of an arena begins, or a larger allArenas is asked for.
LEMMA ArenaMetadata ==
  ASSUME IInv, IInv', HeapInv, NEW t \in Threads, nextArena(t) \/ growAllArenas(t)
  PROVE  HeapInv'
<1>1. /\ thrown = "none" /\ Placing(t) /\ asked.ri <= LastArena
      /\ pc[t] \in {"arenas", "arena"}
      /\ UNCHANGED <<locks, other, reserved, prepared, hints, arenas, allArenas, curArena, asked>>
  <2>1. CASE nextArena(t)
    BY <2>1 DEF nextArena, At, Placing
  <2>2. CASE growAllArenas(t)
    BY <2>2 DEF growAllArenas, At, Placing, InLoop, HeapInv, StepsOK
  <2> QED
    BY <2>1, <2>2
<1>2. ThreadsInv
  BY <1>1 DEF IInv, MetaInv
<1>3. PlaceOK
  BY <1>1 DEF HeapInv, StepsOK
<1>4. Misplaced = "none"
  <2>1. asked.v \in Nat /\ asked.size \in Nat /\ asked.ri \in Nat /\ LastArena \in Nat
    <3>1. asked.v \in Nat /\ asked.size \in Nat /\ asked.ri \in Nat /\ asked.v + asked.size - 1 \in Nat
      BY <1>3 DEF HeapInv, HeapTypes, PlaceOK, AskType, Whole
    <3> QED
      BY <3>1, WholeIs DEF LastArena
  <2>2. asked.ri \in asked.ri .. LastArena
    BY <1>1, <2>1
  <2>3. asked.ri \notin arenas
    BY <1>3, <2>2 DEF PlaceOK
  <2>4. ~ (asked.v + asked.size > Limit) /\ asked.v % ArenaUnits = 0
    BY <1>3, <2>1, HeapAssumption DEF PlaceOK, Whole
  <2> QED
    BY <2>3, <2>4 DEF Misplaced
<1>5. thrown' = "none" /\ \E w : persistentalloc(t, w, PtrSize, "arena")
  BY <1>1, <1>4 DEF nextArena, growAllArenas
<1>6. PICK w : persistentalloc(t, w, PtrSize, "arena")
  BY <1>5
<1> DEFINE c == [NoCall EXCEPT !.size = w, !.align = PtrSize, !.then = "arena"]
<1>7. call' = [call EXCEPT ![t] = c] /\ Goto(t, "persistent")
  BY <1>6 DEF persistentalloc
<1>8. c.then = "arena"
  BY DEF NoCall
<1> HIDE DEF c
<1>9. call'[t] = c /\ \A u \in Threads : u # t => call'[u] = call[u]
  BY <1>2, <1>7 DEF ThreadsInv
<1>10. pc'[t] = "persistent" /\ \A u \in Threads : u # t => pc'[u] = pc[u]
  BY <1>2, <1>7, PcOthers
<1>11. Alone(t) /\ Placing(t)' /\ pc'[t] # "hint"
  <2>1. locks["heap"] = t
    BY <1>1, <1>2, PlacingHolds
  <2> QED
    BY <1>2, <1>8, <1>9, <1>10, <2>1, AloneLemma DEF Placing, InLoop, Persisting
<1>12. PlaceOK' /\ asked'.ri <= LastArena'
  BY <1>1, <1>3 DEF PlaceOK, LastArena, Slots, Whole
<1>13. HeapTypes' /\ HintsOK' /\ RestReserved'
  BY <1>1 DEF HeapInv, HeapTypes, HintsOK, RestReserved, Whole
<1>14. StepsOK'
  BY <1>9, <1>10, <1>11, <1>12, ArenaStepped
<1>15. ThreadsInv'
  BY <1>5 DEF IInv, MetaInv
<1>16. Lasting'
  BY <1>1, <1>5, <1>14, <1>15, LastingStep DEF HeapInv, Lasting
<1> QED
  BY <1>1, <1>13, <1>14, <1>16 DEF HeapInv

\* An arena is registered.
LEMMA ArenaPublished ==
  ASSUME IInv, IInv', HeapInv, NEW t \in Threads, publishArena(t)
  PROVE  HeapInv'
<1> DEFINE r == asked.ri
<1>1. /\ thrown = "none" /\ pc[t] = "arena" /\ arenas' = arenas \cup {r}
      /\ asked' = [asked EXCEPT !.ri = @ + 1] /\ Goto(t, "arenas")
      /\ allArenas' = IF asked.register THEN Append(allArenas, r) ELSE allArenas
      /\ UNCHANGED <<locks, thrown, call, other, reserved, prepared, hints, curArena>>
  BY DEF publishArena, At, persistVars
<1>2. ThreadsInv
  BY <1>1 DEF IInv, MetaInv
<1>3. thrown' = "none" /\ ThreadsInv'
  BY <1>1 DEF IInv, MetaInv
<1>4. Placing(t) /\ InLoop(t)
  BY <1>1 DEF Placing, InLoop
<1>5. PlaceOK /\ r <= LastArena
  BY <1>1, <1>4 DEF HeapInv, StepsOK
<1>6. Alone(t)
  BY <1>2, <1>4, PlacingHolds, AloneLemma
<1>7. pc'[t] = "arenas" /\ \A u \in Threads : u # t => pc'[u] = pc[u]
  BY <1>1, <1>2, PcOthers
<1>8. /\ asked' \in AskType
      /\ asked'.ask = asked.ask /\ asked'.v = asked.v /\ asked'.size = asked.size
      /\ asked'.ri = r + 1 /\ r \in Nat
  <2>1. asked \in AskType
    BY DEF HeapInv, HeapTypes
  <2>2. r \in Nat
    BY <2>1 DEF AskType
  <2> HIDE DEF r
  <2>3. asked' = [asked EXCEPT !.ri = r + 1] /\ r + 1 \in Nat
    BY <1>1, <2>2 DEF r
  <2> QED
    BY <2>1, <2>2, <2>3, AskNext
<1>9. LastArena' = LastArena /\ LastArena \in Nat
  <2>1. asked.v + asked.size - 1 \in Nat
    BY <1>5 DEF PlaceOK, Whole
  <2> QED
    BY <1>8, <2>1, WholeIs DEF LastArena
<1>10. /\ r .. LastArena = {r} \cup ((r + 1) .. LastArena) /\ r \notin (r + 1) .. LastArena
       /\ r \notin arenas
  BY <1>5, <1>8, <1>9 DEF PlaceOK
<1> HIDE DEF r
<1>11. PlaceOK'
  <2>1. arenas' \cup ((r + 1) .. LastArena) = arenas \cup (r .. LastArena)
    BY <1>1, <1>10
  <2>2. arenas' \cap ((r + 1) .. LastArena) = {}
    <3>1. arenas \cap (r .. LastArena) = {}
      BY <1>5 DEF PlaceOK, r
    <3> QED
      BY <1>1, <1>10, <3>1
  <2>3. reserved' = Slots(arenas' \cup (asked'.ri .. LastArena'))
    <3>1. reserved' = Slots(arenas \cup (r .. LastArena))
      BY <1>1, <1>5 DEF PlaceOK, r
    <3> QED
      BY <1>8, <1>9, <2>1, <3>1
  <2>4. arenas' \cap (asked'.ri .. LastArena') = {}
    BY <1>8, <1>9, <2>2
  <2>5. Units(asked'.v, asked'.size) \subseteq reserved'
    BY <1>1, <1>5, <1>8 DEF PlaceOK
  <2> QED
    BY <1>5, <1>8, <2>3, <2>4, <2>5 DEF PlaceOK, Whole, Slots
<1>12. Distinct(allArenas') /\ ToSet(allArenas') \subseteq arenas' /\ allArenas' \in Seq(Nat)
  <2>0. Distinct(allArenas) /\ ToSet(allArenas) \subseteq arenas /\ allArenas \in Seq(Nat)
    BY DEF HeapInv, Lasting, HeapTypes
  <2>1. CASE ~ asked.register
    BY <1>1, <2>0, <2>1
  <2>2. CASE asked.register
    <3> DEFINE a == Append(allArenas, r)
    <3>1. /\ a \in Seq(Nat) /\ Len(a) = Len(allArenas) + 1 /\ a[Len(allArenas) + 1] = r
          /\ \A i \in 1 .. Len(allArenas) : a[i] = allArenas[i]
      BY <1>8, <2>0
    <3>2. allArenas' = a
      BY <1>1, <2>2
    <3> HIDE DEF a
    <3>3. r \notin ToSet(allArenas) /\ r \in Nat
      BY <1>8, <1>10, <2>0
    <3>4. ToSet(a) = ToSet(allArenas) \cup {r} /\ Distinct(a)
      BY <2>0, <3>1, <3>3, Appended
    <3> QED
      BY <1>1, <2>0, <3>1, <3>2, <3>4
  <2> QED
    BY <2>1, <2>2
<1>13. HeapTypes' /\ HintsOK' /\ RestReserved'
  BY <1>1, <1>8, <1>12 DEF HeapInv, HeapTypes, HintsOK, RestReserved, Whole
<1>14. Placing(t)' /\ ~ InLoop(t)' /\ pc'[t] # "hint"
  BY <1>7 DEF Placing, InLoop, Persisting, Carving, Linking
<1>15. StepsOK'
  BY <1>1, <1>6, <1>7, <1>11, <1>14, ArenaStepped
<1>16. Lasting'
  BY <1>1, <1>3, <1>12, <1>15, LastingStep DEF HeapInv, Lasting
<1> QED
  BY <1>13, <1>15, <1>16 DEF HeapInv

\* The ways pageAlloc.grow throws.
LEMMA PagesThrow ==
  ASSUME NEW b, NEW n, PagesGrow(b, n)
  PROVE  thrown' \in {thrown, "bad prune", "attempted to add zero-sized address range"}
BY DEF PagesGrow

\* A step that ends sysAlloc, or does not begin it: [base, base+n) of the
\* reserved units is prepared, the current arena begins after it.
LEMMA ArenaEnds ==
  ASSUME IInv', HeapInv, NEW t \in Threads, thrown = "none", Alone(t), reserved = Slots(arenas),
         pc'[t] = "idle", \A u \in Threads : u # t => pc'[u] = pc[u] /\ call'[u] = call[u],
         thrown' \in {thrown, "bad prune", "attempted to add zero-sized address range"},
         asked' \in {asked, NoAsk}, curArena' \in [base : Nat, end : Nat],
         prepared' \subseteq reserved, RestReserved',
         UNCHANGED <<other, reserved, hints, arenas, allArenas>>
  PROVE  HeapInv'
<1>1. HeapTypes'
  BY NoAskType DEF HeapInv, HeapTypes
<1>2. HintsOK'
  BY DEF HeapInv, HintsOK, Whole
<1>3. ~ Placing(t)' /\ ~ InLoop(t)' /\ pc'[t] # "hint"
  BY DEF Placing, InLoop, Persisting, Carving, Linking
<1>4. reserved' = Slots(arenas')
  BY DEF Slots
<1>5. StepsOK'
  BY <1>3, <1>4, ArenaStepped
<1>6. thrown' = "none" => ThreadsInv'
  BY DEF IInv, MetaInv
<1>7. thrown' \notin {"memory reservation exceeds address space limit",
                      "misrounded allocation is sysAlloc", "arena already initialized"}
  OBVIOUS
<1>8. Distinct(allArenas') /\ ToSet(allArenas') \subseteq arenas' /\ reserved' \cap other' = {}
      /\ prepared' \subseteq reserved'
  BY DEF HeapInv, Lasting
<1>9. Lasting'
  BY <1>4, <1>5, <1>6, <1>7, <1>8, LastingStep
<1> QED
  BY <1>1, <1>2, <1>5, <1>9 DEF HeapInv

\* Units of a part of a range.
LEMMA PartOfUnits ==
  ASSUME NEW p \in Nat, NEW n \in Nat, NEW q \in Nat, NEW m \in Nat, p <= q, q + m <= p + n
  PROVE  Units(q, m) \subseteq Units(p, n)
BY DEF Units

\* Units of two ranges that touch.
LEMMA UnitsOfTwo ==
  ASSUME NEW p \in Nat, NEW n \in Nat, NEW m \in Nat
  PROVE  Units(p, n + m) = Units(p, n) \cup Units(p + n, m)
BY DEF Units

\* grow finds room in the current arena.
LEMMA GrowInPlace ==
  ASSUME IInv, IInv', HeapInv, NEW t \in Threads, grow(t), pc' = pc
  PROVE  HeapInv'
<1> DEFINE b == curArena.base
<1> DEFINE e == curArena.end
<1>1. ThreadsInv /\ thrown = "none" /\ pc[t] = "idle" /\ locks["heap"] = NoOne
  BY DEF grow, Call, At, IInv, MetaInv
<1>2. PICK ask \in Asks :
        /\ ~ (b + ask > e)
        /\ curArena' = [base |-> b + ask, end |-> e]
        /\ prepared' = prepared \cup Units(b, ask)
        /\ PagesGrow(b, ask)
        /\ UNCHANGED <<call, asked, other, reserved, hints, arenas, allArenas>>
  <2>1. ~ Goto(t, "hint")
    BY <1>1 DEF Goto, ThreadsInv
  <2> QED
    BY <2>1 DEF grow, GrowTo, sysMap, persistVars
<1>3. b \in Nat /\ e \in Nat /\ ask \in Nat /\ b + ask <= e
  BY <1>2, HeapAssumption DEF HeapInv, HeapTypes
<1>4. Units(b, e - b) \subseteq reserved
  BY <1>1 DEF HeapInv, RestReserved
<1> HIDE DEF b, e
<1>5. Units(b, ask) \subseteq reserved /\ Units(b + ask, e - (b + ask)) \subseteq reserved
  <2>1. e - b \in Nat /\ b + ask \in Nat /\ e - (b + ask) \in Nat /\ b + ask <= b + (e - b)
        /\ (b + ask) + (e - (b + ask)) <= b + (e - b) /\ b <= b /\ b <= b + ask
    BY <1>3
  <2> QED
    BY <1>3, <1>4, <2>1, PartOfUnits
<1>6. RestReserved' /\ curArena' \in [base : Nat, end : Nat]
  <2>1. curArena'.base = b + ask /\ curArena'.end = e
    BY <1>2
  <2> QED
    BY <1>2, <1>3, <1>5, <2>1 DEF RestReserved, Units
<1>7. prepared' \subseteq reserved
  BY <1>2, <1>5 DEF HeapInv, Lasting
<1>8. Alone(t) /\ ~ Placing(t)
  BY <1>1, AloneLemma DEF Placing, InLoop, Persisting, Carving, Linking
<1>9. reserved = Slots(arenas)
  BY <1>1, <1>8, NotPlacing
<1>10. thrown' \in {thrown, "bad prune", "attempted to add zero-sized address range"}
  BY <1>2, PagesThrow
<1> QED
  BY <1>1, <1>2, <1>6, <1>7, <1>8, <1>9, <1>10, ArenaEnds

\* The last arena is registered: every reserved unit is one of an arena.
LEMMA AllPlaced ==
  ASSUME HeapInv, thrown = "none", NEW t \in Threads, pc[t] = "arenas", asked.ri > LastArena
  PROVE  reserved = Slots(arenas) /\ PlaceOK
<1>1. PlaceOK
  BY DEF HeapInv, StepsOK, Placing
<1>2. asked.ri \in Nat /\ LastArena \in Nat
  <2>1. asked.ri \in Nat /\ asked.v + asked.size - 1 \in Nat
    BY <1>1 DEF HeapInv, HeapTypes, PlaceOK, AskType, Whole
  <2> QED
    BY <2>1, WholeIs DEF LastArena
<1>3. asked.ri .. LastArena = {}
  BY <1>2
<1>4. arenas \cup (asked.ri .. LastArena) = arenas
  BY <1>3
<1> QED
  BY <1>1, <1>4 DEF PlaceOK

\* grow prepares part of what it got.
LEMMA GrowIntoNew ==
  ASSUME HeapInv, thrown = "none", PlaceOK, NEW t \in Threads, growInto(t)
  PROVE  /\ prepared' \subseteq reserved /\ RestReserved' /\ curArena' \in [base : Nat, end : Nat]
         /\ thrown' \in {thrown, "bad prune", "attempted to add zero-sized address range"}
<1> DEFINE b == curArena.base
<1> DEFINE e == curArena.end
<1> DEFINE v == asked.v
<1> DEFINE n == asked.size
<1> DEFINE k == asked.ask
<1>1. /\ b \in Nat /\ e \in Nat /\ b <= e /\ Units(b, e - b) \subseteq reserved
      /\ v \in Nat /\ n \in Nat /\ k \in Nat /\ k <= n /\ Units(v, n) \subseteq reserved
      /\ prepared \subseteq reserved /\ reserved' = reserved
  BY DEF HeapInv, HeapTypes, RestReserved, Lasting, PlaceOK, AskType, Whole, growInto
<1>2. /\ b \in Nat /\ e - b \in Nat /\ v + k \in Nat /\ n - k \in Nat
  BY <1>1
<1>3. ASSUME NEW p \in Nat, p + k <= v + n, Units(p, v + n - p) \subseteq reserved,
             GrowTo(p, k, v + n)
      PROVE  /\ prepared' \subseteq reserved /\ RestReserved' /\ curArena' \in [base : Nat, end : Nat]
             /\ thrown' \in {thrown, "bad prune", "attempted to add zero-sized address range"}
  <2>1. /\ curArena' = [base |-> p + k, end |-> v + n] /\ prepared' = prepared \cup Units(p, k)
        /\ PagesGrow(p, k)
    BY <1>3 DEF GrowTo, sysMap
  <2> HIDE DEF b, e, v, n, k
  <2>2. curArena'.base = p + k /\ curArena'.end = v + n
    BY <2>1
  <2>3. Units(p, k) \subseteq reserved /\ Units(p + k, (v + n) - (p + k)) \subseteq reserved
    <3>1. v + n - p \in Nat /\ p + k \in Nat /\ (v + n) - (p + k) \in Nat /\ p + k <= p + (v + n - p)
          /\ (p + k) + ((v + n) - (p + k)) <= p + (v + n - p) /\ p <= p /\ p <= p + k
      BY <1>1, <1>3
    <3> QED
      BY <1>1, <1>3, <3>1, PartOfUnits
  <2>4. RestReserved'
    BY <1>1, <1>3, <2>2, <2>3 DEF RestReserved, Units
  <2>5. curArena' \in [base : Nat, end : Nat]
    BY <1>1, <1>3, <2>1
  <2> QED
    BY <1>1, <2>1, <2>3, <2>4, <2>5, PagesThrow
<1>4. CASE v # e /\ e - b # 0
  <2>1. prepared' = prepared \cup Units(b, e - b) /\ PagesGrow(b, e - b) /\ curArena' = curArena
    BY <1>4 DEF growInto, sysMap
  <2>2. RestReserved' /\ curArena' \in [base : Nat, end : Nat]
    BY <1>1, <2>1 DEF RestReserved, HeapInv, HeapTypes, Units
  <2> QED
    BY <1>1, <2>1, <2>2, PagesThrow
<1>5. CASE v # e /\ e - b = 0
  <2>1. GrowTo(v, k, v + n)
    BY <1>5 DEF growInto
  <2>2. v + k <= v + n /\ v + n - v = n
    BY <1>1
  <2> HIDE DEF b, e, v, n, k
  <2> QED
    BY <1>1, <1>3, <2>1, <2>2
<1>6. CASE v = e
  <2>1. GrowTo(b, k, v + n)
    BY <1>6 DEF growInto
  <2> HIDE DEF b, e, v, n, k
  <2>2. b + k <= v + n /\ v + n - b = (e - b) + n /\ b + (e - b) = v
    BY <1>1, <1>6
  <2>3. Units(b, (e - b) + n) = Units(b, e - b) \cup Units(b + (e - b), n)
    BY <1>1, <1>2, UnitsOfTwo
  <2> QED
    BY <1>1, <1>3, <2>1, <2>2, <2>3
<1> QED
  BY <1>4, <1>5, <1>6

\* sysAlloc has returned.
LEMMA AllocReturns ==
  ASSUME IInv, IInv', HeapInv, NEW t \in Threads, noMemory(t) \/ returnArena(t) \/ growInto(t)
  PROVE  HeapInv'
<1>1. /\ thrown = "none" /\ pc[t] \in {"nomemory", "arenas"} /\ Goto(t, "idle") /\ asked' = NoAsk
      /\ UNCHANGED <<call, other, reserved, hints, arenas, allArenas>>
  BY DEF noMemory, returnArena, growInto, At, persistVars
<1>2. ThreadsInv
  BY <1>1 DEF IInv, MetaInv
<1>3. Alone(t)
  <2>1. pc[t] \in UnderHeapLock
    BY <1>1 DEF UnderHeapLock
  <2> QED
    BY <1>2, <2>1, HoldsHeap, AloneLemma
<1>4. pc'[t] = "idle" /\ \A u \in Threads : u # t => pc'[u] = pc[u]
  BY <1>1, <1>2, PcOthers
<1>5. curArena \in [base : Nat, end : Nat] /\ RestReserved /\ prepared \subseteq reserved
  BY <1>1 DEF HeapInv, HeapTypes, Lasting
<1>6. UNCHANGED <<curArena, prepared, thrown>> =>
        /\ prepared' \subseteq reserved /\ RestReserved' /\ curArena' \in [base : Nat, end : Nat]
        /\ thrown' \in {thrown, "bad prune", "attempted to add zero-sized address range"}
  BY <1>1, <1>5 DEF RestReserved, Units
<1>7. CASE noMemory(t)
  <2>1. UNCHANGED <<curArena, prepared, thrown>> /\ pc[t] = "nomemory"
    BY <1>7 DEF noMemory, At
  <2>2. ~ Placing(t)
    BY <2>1 DEF Placing, InLoop, Persisting, Carving, Linking
  <2>3. reserved = Slots(arenas)
    BY <1>1, <1>3, <2>2, NotPlacing
  <2> QED
    BY <1>1, <1>3, <1>4, <1>6, <2>1, <2>3, ArenaEnds
<1>8. CASE returnArena(t)
  <2>1. UNCHANGED <<curArena, prepared, thrown>> /\ pc[t] = "arenas" /\ asked.ri > LastArena
    BY <1>8 DEF returnArena, At
  <2>2. reserved = Slots(arenas)
    BY <1>1, <2>1, AllPlaced
  <2> QED
    BY <1>1, <1>3, <1>4, <1>6, <2>1, <2>2, ArenaEnds
<1>9. CASE growInto(t)
  <2>1. pc[t] = "arenas" /\ asked.ri > LastArena
    BY <1>9 DEF growInto, At
  <2>2. reserved = Slots(arenas) /\ PlaceOK
    BY <1>1, <2>1, AllPlaced
  <2>3. /\ prepared' \subseteq reserved /\ RestReserved' /\ curArena' \in [base : Nat, end : Nat]
        /\ thrown' \in {thrown, "bad prune", "attempted to add zero-sized address range"}
    BY <1>1, <1>9, <2>2, GrowIntoNew
  <2> QED
    BY <1>1, <1>3, <1>4, <2>2, <2>3, ArenaEnds
<1> QED
  BY <1>7, <1>8, <1>9

-----------------------------------------------------------------------------
(***************************************************************************)
(* sysAlloc gets a place.                                                  *)
(***************************************************************************)
\* New units of whole arenas, none reserved before: no arena is there yet.
LEMMA NewArenas ==
  ASSUME NEW A, A \subseteq Nat, NEW p, NEW n, Whole(p), Whole(n), n > 0,
         Slots(A) \cap Units(p, n) = {}
  PROVE  /\ Slots(A) \cup Units(p, n) = Slots(A \cup (Arena(p) .. Arena(p + n - 1)))
         /\ A \cap (Arena(p) .. Arena(p + n - 1)) = {}
<1> DEFINE B == Arena(p) .. Arena(p + n - 1)
<1>1. Units(p, n) = Slots(B) /\ B \subseteq Nat
  BY WholeUnits
<1> HIDE DEF B
<1>2. Slots(A) \cup Units(p, n) = Slots(A \cup B)
  BY <1>1 DEF Slots
<1>3. ASSUME NEW a \in A \cap B PROVE FALSE
  <2>1. Arena(ArenaUnits * a) = a /\ ArenaUnits * a \in Nat
    BY <1>1, <1>3, WholeTimes DEF Whole
  <2>2. ArenaUnits * a \in Slots(A) /\ ArenaUnits * a \in Units(p, n)
    BY <1>1, <1>3, <2>1 DEF Slots
  <2> QED
    BY <2>2
<1> QED
  BY <1>2, <1>3 DEF B

\* What the kernel gives, other than nil.
LEMMA Reserves ==
  ASSUME NEW p, NEW n \in Nat, NEW v \in sysReserve(p, n), v # nil
  PROVE  v \in Nat /\ v >= Low /\ v + n <= Limit /\ Units(v, n) \subseteq Free
<1>1. v \in Low .. (Limit - n) /\ Units(v, n) \subseteq Free
  BY DEF sysReserve
<1>2. Low \in Nat /\ Limit \in Nat
  BY HeapAssumption
<1> QED
  BY <1>1, <1>2

\* A place was found: the state before registration.
LEMMA ArenasFound ==
  ASSUME IInv, IInv', HeapInv, NEW t \in Threads, thrown = "none", pc[t] = "hint",
         NEW v, NEW n, Whole(v), Whole(n), n > 0, asked.ask <= n, v + n <= Limit,
         Units(v, n) \subseteq Free, reserved' = reserved \cup Units(v, n),
         asked' = [asked EXCEPT !.v = v, !.size = n, !.ri = Arena(v)], Goto(t, "arenas"),
         hints' \in Seq(HintType), HintsOK',
         UNCHANGED <<thrown, call, other, prepared, arenas, allArenas, curArena>>
  PROVE  HeapInv'
<1>1. ThreadsInv /\ ThreadsInv' /\ thrown' = "none"
  BY DEF IInv, MetaInv
<1>2. Alone(t) /\ ~ Placing(t)
  BY <1>1, PlacingHolds, AloneLemma DEF Placing, InLoop, Persisting, Carving, Linking
<1>3. reserved = Slots(arenas)
  BY <1>2, NotPlacing
<1>4. pc'[t] = "arenas" /\ \A u \in Threads : u # t => pc'[u] = pc[u]
  BY <1>1, PcOthers
<1>5. v \in Nat /\ n \in Nat /\ Arena(v) \in Nat /\ asked \in AskType
  <2>1. v \in Nat /\ n \in Nat
    BY DEF Whole
  <2>2. Arena(v) \in Nat
    BY <2>1, WholeIs
  <2> QED
    BY <2>1, <2>2 DEF HeapInv, HeapTypes
<1>6. /\ asked' \in AskType /\ asked'.ri = Arena(v) /\ asked'.v = v /\ asked'.size = n
      /\ asked'.ask = asked.ask
  BY <1>5 DEF AskType
<1>7. reserved \cap Units(v, n) = {} /\ other \cap Units(v, n) = {} /\ Units(v, n) \subseteq Nat
  BY <1>5 DEF Free, Units
<1>8. LastArena' = Arena(v + n - 1)
  <2>1. LastArena' = Arena(asked'.v + asked'.size - 1)
    BY DEF LastArena, Arena
  <2> QED
    BY <1>6, <2>1
<1>9. /\ reserved \cup Units(v, n) = Slots(arenas \cup (Arena(v) .. Arena(v + n - 1)))
      /\ arenas \cap (Arena(v) .. Arena(v + n - 1)) = {}
  <2>1. arenas \subseteq Nat /\ Slots(arenas) \cap Units(v, n) = {}
    BY <1>3, <1>7 DEF HeapInv, HeapTypes
  <2>2. /\ Slots(arenas) \cup Units(v, n) = Slots(arenas \cup (Arena(v) .. Arena(v + n - 1)))
        /\ arenas \cap (Arena(v) .. Arena(v + n - 1)) = {}
    BY <2>1, NewArenas
  <2> QED
    BY <1>3, <2>2
<1>10. PlaceOK'
  <2>1. /\ reserved' = Slots(arenas' \cup (asked'.ri .. LastArena'))
        /\ arenas' \cap (asked'.ri .. LastArena') = {}
    BY <1>6, <1>8, <1>9
  <2>2. /\ Whole(asked'.v) /\ Whole(asked'.size) /\ asked'.size > 0
        /\ asked'.v + asked'.size <= Limit /\ asked'.ask <= asked'.size
        /\ Units(asked'.v, asked'.size) \subseteq reserved'
    BY <1>6
  <2> QED
    BY <2>1, <2>2 DEF PlaceOK, Whole, Units, Slots
<1>11. HeapTypes'
  BY <1>6, <1>7 DEF HeapInv, HeapTypes
<1>12. RestReserved'
  BY DEF HeapInv, RestReserved, Units
<1>13. Placing(t)' /\ ~ InLoop(t)' /\ pc'[t] # "hint"
  BY <1>4 DEF Placing, InLoop, Persisting, Carving, Linking
<1>14. StepsOK'
  BY <1>2, <1>4, <1>10, <1>13, ArenaStepped
<1>15. /\ Distinct(allArenas') /\ ToSet(allArenas') \subseteq arenas'
       /\ prepared' \subseteq reserved' /\ reserved' \cap other' = {}
  BY <1>7 DEF HeapInv, Lasting
<1>16. Lasting'
  BY <1>1, <1>14, <1>15, LastingStep
<1> QED
  BY <1>11, <1>12, <1>14, <1>16 DEF HeapInv

\* A hint failed: nothing is kept of what the kernel gave instead.
LEMMA HintFailed ==
  ASSUME IInv, IInv', HeapInv, NEW t \in Threads, thrown = "none", pc[t] = "hint",
         hints # <<>>, hints' = Tail(hints), reserved' = reserved,
         UNCHANGED <<thrown, pc, call, locks, other, prepared, arenas, allArenas, curArena, asked>>
  PROVE  HeapInv'
<1>1. HeapTypes'
  BY DEF HeapInv, HeapTypes
<1>2. HintsOK'
  <2>1. Len(hints') = Len(hints) - 1 /\ Len(hints) \in Nat
        /\ \A i \in 1 .. Len(hints') : hints'[i] = hints[i + 1] /\ i + 1 \in 1 .. Len(hints)
    BY DEF HeapInv, HeapTypes
  <2>2. \A i \in 1 .. Len(hints) :
          hints[i].addr > 0 /\ Whole(hints[i].addr) /\ (hints[i].down => hints[i].addr >= Low)
    BY DEF HeapInv, HintsOK
  <2> QED
    BY <2>1, <2>2 DEF HintsOK, Whole
<1>3. RestReserved' /\ Lasting'
  BY DEF HeapInv, RestReserved, Lasting, Units, Slots
<1>4. (AskOK' <=> AskOK) /\ (PlaceOK' <=> PlaceOK) /\ LastArena' = LastArena
  BY DEF AskOK, PlaceOK, LastArena, Whole, Units, Slots
<1>5. \A u \in Threads : (Placing(u)' <=> Placing(u)) /\ (InLoop(u)' <=> InLoop(u))
  BY DEF Placing, InLoop
<1>6. StepsOK'
  BY <1>4, <1>5 DEF HeapInv, StepsOK, Slots
<1> QED
  BY <1>1, <1>2, <1>3, <1>6 DEF HeapInv

\* The first hint is tried.
LEMMA HintTried ==
  ASSUME IInv, IInv', HeapInv, NEW t \in Threads, tryHint(t)
  PROVE  HeapInv'
<1> DEFINE n == asked.n
<1> DEFINE h == Head(hints)
<1> DEFINE p == IF h.down THEN h.addr - n ELSE h.addr
<1> DEFINE usable == p >= 0 /\ p + n <= Limit
<1> DEFINE moved == IF h.down THEN p ELSE p + n
<1>1. /\ thrown = "none" /\ pc[t] = "hint" /\ hints # <<>>
      /\ UNCHANGED <<locks, call, thrown, other, prepared, arenas, allArenas, curArena>>
  BY DEF tryHint, At, persistVars
<1>2. PICK v \in IF usable THEN sysReserve(p, n) ELSE {nil} :
        IF v = p
        THEN /\ reserved' = reserved \cup Units(v, n)
             /\ hints' = [hints EXCEPT ![1].addr = moved]
             /\ asked' = [asked EXCEPT !.v = v, !.size = n, !.ri = Arena(v)]
             /\ Goto(t, "arenas")
        ELSE /\ reserved' = IF v = nil THEN reserved
                            ELSE sysFreeOS(reserved \cup Units(v, n), v, n)
             /\ hints' = Tail(hints)
             /\ UNCHANGED <<asked, pc>>
  BY DEF tryHint
<1>3. AskOK /\ HintsOK /\ hints \in Seq(HintType) /\ asked \in AskType
  BY <1>1 DEF HeapInv, HeapTypes, StepsOK
<1>4. n \in Nat /\ n > 0 /\ Whole(n) /\ Low > n /\ asked.ask <= n /\ Low \in Nat /\ Limit \in Nat
  BY <1>3, HeapAssumption DEF AskOK, AskType
<1>5. /\ h = hints[1] /\ 1 \in 1 .. Len(hints) /\ Len(hints) \in Nat /\ h.addr \in Nat
      /\ h.addr > 0 /\ Whole(h.addr) /\ (h.down => h.addr >= Low)
  <2>1. h = hints[1] /\ 1 \in 1 .. Len(hints) /\ Len(hints) \in Nat
    BY <1>1, <1>3
  <2>2. hints[1].addr > 0 /\ Whole(hints[1].addr) /\ (hints[1].down => hints[1].addr >= Low)
    BY <1>3, <2>1 DEF HintsOK
  <2> QED
    BY <2>1, <2>2 DEF Whole
<1>6. p \in Nat /\ p > 0 /\ Whole(p) /\ p # nil
  <2>1. h.down => h.addr >= n /\ h.addr - n > 0
    BY <1>4, <1>5
  <2>2. h.down => Whole(h.addr - n)
    BY <1>4, <1>5, <2>1, WholeSum
  <2> QED
    BY <1>4, <1>5, <2>1, <2>2 DEF nil
<1> HIDE DEF n, h, p
<1>7. v # nil => v \in Nat /\ v >= Low /\ v + n <= Limit /\ Units(v, n) \subseteq Free
  <2>1. v # nil => v \in sysReserve(p, n)
    BY <1>2
  <2> QED
    BY <1>4, <2>1, Reserves
<1>8. CASE v = p
  <2>1. v # nil /\ Whole(v) /\ v > 0
    BY <1>6, <1>8
  <2>2. /\ reserved' = reserved \cup Units(v, n)
        /\ hints' = [hints EXCEPT ![1].addr = moved]
        /\ asked' = [asked EXCEPT !.v = v, !.size = n, !.ri = Arena(v)]
        /\ Goto(t, "arenas")
    BY <1>2, <1>8
  <2>3. moved \in Nat /\ moved > 0 /\ Whole(moved) /\ (h.down => moved >= Low)
    <3>1. Whole(p + n)
      BY <1>4, <1>6, WholeSum
    <3> QED
      BY <1>4, <1>6, <1>7, <1>8, <2>1, <3>1
  <2> HIDE DEF moved
  <2>4. /\ hints' \in Seq(HintType) /\ Len(hints') = Len(hints)
        /\ hints'[1].addr = moved /\ hints'[1].down = h.down
        /\ \A i \in 1 .. Len(hints) : i # 1 => hints'[i] = hints[i]
    <3> DEFINE g == [hints[1] EXCEPT !.addr = moved]
    <3>1. hints[1] \in HintType
      BY <1>3, <1>5
    <3>2. g \in HintType /\ g.addr = moved /\ g.down = h.down
      BY <1>5, <2>3, <3>1 DEF HintType
    <3>3. hints' = [hints EXCEPT ![1] = g]
      BY <2>2
    <3> HIDE DEF g
    <3> QED
      BY <1>3, <1>5, <3>2, <3>3
  <2>5. HintsOK'
    <3> SUFFICES ASSUME NEW i \in 1 .. Len(hints)
                 PROVE  /\ hints'[i].addr > 0 /\ Whole(hints'[i].addr)
                        /\ (hints'[i].down => hints'[i].addr >= Low)
      BY <2>4 DEF HintsOK, Whole
    <3>1. CASE i = 1
      BY <2>3, <2>4, <3>1
    <3>2. CASE i # 1
      BY <1>3, <2>4, <3>2 DEF HintsOK
    <3> QED
      BY <3>1, <3>2
  <2>6. v + n <= Limit /\ Units(v, n) \subseteq Free
    BY <1>7, <2>1
  <2>7. /\ reserved' = reserved \cup Units(v, n)
        /\ asked' = [asked EXCEPT !.v = v, !.size = n, !.ri = Arena(v)] /\ Goto(t, "arenas")
    BY <2>2
  <2>8. hints' \in Seq(HintType)
    BY <2>4
  <2> QED
    BY <1>1, <1>4, <2>1, <2>5, <2>6, <2>7, <2>8, ArenasFound
<1>9. CASE v # p
  <2>1. reserved' = reserved
    <3>1. v # nil => (reserved \cup Units(v, n)) \ Units(v, n) = reserved
      BY <1>7 DEF Free
    <3> QED
      BY <1>2, <1>9, <3>1 DEF sysFreeOS
  <2>2. hints' = Tail(hints) /\ UNCHANGED <<asked, pc>>
    BY <1>2, <1>9
  <2> QED
    BY <1>1, <2>1, <2>2, HintFailed
<1> QED
  BY <1>8, <1>9

\* sysReserveAligned keeps whole arenas of what it got, and nothing else.
LEMMA AlignedPart ==
  ASSUME NEW v \in Nat, NEW n \in Nat, Whole(n), n > 0, reserved \cap Units(v, n + ArenaUnits) = {}
  PROVE  \E p, m \in Nat :
           /\ Whole(p) /\ Whole(m) /\ m >= n /\ v <= p /\ p + m <= v + n + ArenaUnits
           /\ ReserveAligned(v, n) = [v |-> p, size |-> m, reserved |-> reserved \cup Units(p, m)]
<1>1. ArenaUnits \in Nat /\ ArenaUnits > 0
  BY HeapAssumption
<1>2. CASE v % ArenaUnits = 0
  <2> DEFINE m == n + ArenaUnits
  <2>1. Whole(ArenaUnits)
    <3>1. ArenaUnits * 1 = ArenaUnits
      BY <1>1
    <3> QED
      BY <3>1, WholeTimes
  <2>2. Whole(v) /\ Whole(m) /\ m \in Nat /\ m >= n /\ v <= v /\ v + m <= v + n + ArenaUnits
    <3>1. Whole(m)
      BY <2>1, WholeSum
    <3>2. Whole(v)
      BY <1>2 DEF Whole
    <3> QED
      BY <1>1, <3>1, <3>2
  <2>3. ReserveAligned(v, n) = [v |-> v, size |-> m, reserved |-> reserved \cup Units(v, m)]
    BY <1>2 DEF ReserveAligned
  <2> HIDE DEF m
  <2> QED
    BY <2>2, <2>3
<1>3. CASE v % ArenaUnits # 0
  <2> DEFINE a == alignUp(v, ArenaUnits)
  <2> DEFINE r1 == sysFreeOS(reserved \cup Units(v, n + ArenaUnits), v, a - v)
  <2> DEFINE len == (v + n + ArenaUnits) - (a + n)
  <2>1. Whole(a) /\ a >= v /\ a < v + ArenaUnits /\ a \in Nat
    BY WholeAlign DEF Whole
  <2>2. len > 0 /\ a + n <= v + n + ArenaUnits
    BY <1>1, <2>1
  <2>3. ReserveAligned(v, n) = [v |-> a, size |-> n, reserved |-> sysFreeOS(r1, a + n, len)]
    BY <1>3, <2>2 DEF ReserveAligned
  <2> HIDE DEF a
  <2>4. sysFreeOS(r1, a + n, len) = reserved \cup Units(a, n)
    <3>1. Units(v, n + ArenaUnits) \ (Units(v, a - v) \cup Units(a + n, len)) = Units(a, n)
      BY <1>1, <2>1 DEF Units
    <3>2. Units(v, a - v) \subseteq Units(v, n + ArenaUnits) /\ Units(a + n, len) \subseteq Units(v, n + ArenaUnits)
      BY <1>1, <2>1 DEF Units
    <3> HIDE DEF len
    <3> QED
      BY <3>1, <3>2 DEF sysFreeOS
  <2>5. n >= n
    OBVIOUS
  <2> HIDE DEF len, r1
  <2> QED
    BY <2>1, <2>2, <2>3, <2>4, <2>5
<1> QED
  BY <1>2, <1>3

\* No hint is left: any place, and two new hints at its ends.
LEMMA AnyPlaceTaken ==
  ASSUME IInv, IInv', HeapInv, NEW t \in Threads, anyPlace(t)
  PROVE  HeapInv'
<1> DEFINE n == asked.n
<1>1. /\ thrown = "none" /\ pc[t] = "hint"
      /\ UNCHANGED <<locks, call, thrown, other, prepared, arenas, allArenas, curArena>>
  BY DEF anyPlace, At, persistVars
<1>2. AskOK /\ HintsOK /\ asked \in AskType /\ ThreadsInv /\ ThreadsInv'
  BY <1>1 DEF HeapInv, HeapTypes, StepsOK, IInv, MetaInv
<1>3. /\ n \in Nat /\ n > 0 /\ Whole(n) /\ asked.ask <= n /\ asked.ask \in Nat
      /\ Low \in Nat /\ Low > 0 /\ Limit \in Nat /\ ArenaUnits \in Nat
  BY <1>2, HeapAssumption DEF AskOK, AskType
<1>4. PICK v \in sysReserve(nil, n + ArenaUnits) :
        IF v = nil
        THEN /\ Goto(t, "nomemory")
             /\ UNCHANGED <<reserved, hints, asked>>
        ELSE LET r == ReserveAligned(v, n) IN
             /\ reserved' = r.reserved
             /\ hints' = <<[addr |-> r.v + r.size, down |-> FALSE], [addr |-> r.v, down |-> TRUE]>>
             /\ asked' = [asked EXCEPT !.v = r.v, !.size = r.size, !.ri = Arena(r.v)]
             /\ Goto(t, "arenas")
  BY DEF anyPlace
<1>5. CASE v = nil
  <2>1. Goto(t, "nomemory") /\ UNCHANGED <<reserved, hints, asked>>
    BY <1>4, <1>5
  <2>2. Alone(t) /\ ~ Placing(t)
    BY <1>1, <1>2, PlacingHolds, AloneLemma DEF Placing, InLoop, Persisting, Carving, Linking
  <2>3. reserved = Slots(arenas)
    BY <1>1, <2>2, NotPlacing
  <2>4. pc'[t] = "nomemory" /\ \A u \in Threads : u # t => pc'[u] = pc[u]
    BY <1>2, <2>1, PcOthers
  <2>5. ~ Placing(t)' /\ ~ InLoop(t)' /\ pc'[t] # "hint"
    BY <2>4 DEF Placing, InLoop, Persisting, Carving, Linking
  <2>6. HeapTypes' /\ HintsOK' /\ RestReserved'
    BY <1>1, <2>1 DEF HeapInv, HeapTypes, HintsOK, RestReserved, Whole, Units
  <2>7. reserved' = Slots(arenas')
    BY <1>1, <2>1, <2>3 DEF Slots
  <2>8. StepsOK'
    BY <1>1, <2>2, <2>4, <2>5, <2>7, ArenaStepped
  <2>9. Lasting'
    BY <1>1, <1>2, <2>1, <2>8, LastingStep DEF HeapInv, Lasting
  <2> QED
    BY <2>6, <2>8, <2>9 DEF HeapInv
<1>6. CASE v # nil
  <2> HIDE DEF n
  <2>1. v \in Nat /\ v >= Low /\ v + (n + ArenaUnits) <= Limit /\ Units(v, n + ArenaUnits) \subseteq Free
    <3>1. n + ArenaUnits \in Nat
      BY <1>3
    <3> QED
      BY <1>6, <3>1, Reserves
  <2>2. reserved \cap Units(v, n + ArenaUnits) = {}
    BY <2>1 DEF Free
  <2>3. PICK p \in Nat, m \in Nat :
          /\ Whole(p) /\ Whole(m) /\ m >= n /\ v <= p /\ p + m <= v + n + ArenaUnits
          /\ ReserveAligned(v, n) = [v |-> p, size |-> m, reserved |-> reserved \cup Units(p, m)]
    BY <1>3, <2>1, <2>2, AlignedPart
  <2>4. /\ reserved' = reserved \cup Units(p, m)
        /\ hints' = <<[addr |-> p + m, down |-> FALSE], [addr |-> p, down |-> TRUE]>>
        /\ asked' = [asked EXCEPT !.v = p, !.size = m, !.ri = Arena(p)]
        /\ Goto(t, "arenas")
    BY <1>4, <1>6, <2>3
  <2>5. m > 0 /\ p >= Low /\ p + m <= Limit /\ asked.ask <= m /\ p + m \in Nat /\ p + m > 0 /\ p > 0
    BY <1>3, <2>1, <2>3
  <2>6. Units(p, m) \subseteq Free
    <3>1. n + ArenaUnits \in Nat /\ p + m <= v + (n + ArenaUnits)
      BY <1>3, <2>1, <2>3
    <3> QED
      BY <2>1, <2>3, <3>1, PartOfUnits
  <2>7. hints' \in Seq(HintType) /\ HintsOK'
    <3> DEFINE f == [addr |-> p + m, down |-> FALSE]
    <3> DEFINE g == [addr |-> p, down |-> TRUE]
    <3>1. /\ f \in HintType /\ g \in HintType /\ f.addr = p + m /\ ~ f.down /\ g.addr = p
      BY <2>5 DEF HintType
    <3>2. Whole(p + m)
      BY <2>3, WholeSum
    <3>3. hints' = <<f, g>>
      BY <2>4
    <3> HIDE DEF f, g
    <3>4. hints' \in Seq(HintType) /\ Len(hints') = 2 /\ hints'[1] = f /\ hints'[2] = g
      BY <3>1, <3>3
    <3>5. ASSUME NEW i \in 1 .. 2
          PROVE  /\ hints'[i].addr > 0 /\ Whole(hints'[i].addr)
                 /\ (hints'[i].down => hints'[i].addr >= Low)
      <4>1. CASE i = 1
        BY <2>5, <3>1, <3>2, <3>4, <4>1
      <4>2. CASE i = 2
        BY <2>3, <2>5, <3>1, <3>4, <4>2
      <4> QED
        BY <4>1, <4>2
    <3> QED
      BY <3>4, <3>5 DEF HintsOK, Whole
  <2>8. /\ reserved' = reserved \cup Units(p, m)
        /\ asked' = [asked EXCEPT !.v = p, !.size = m, !.ri = Arena(p)] /\ Goto(t, "arenas")
        /\ Whole(p) /\ Whole(m)
    BY <2>3, <2>4
  <2> QED
    BY <1>1, <2>5, <2>6, <2>7, <2>8, ArenasFound
<1> QED
  BY <1>5, <1>6

\* The kernel refuses memory: the program is stopped.
LEMMA AllocFails ==
  ASSUME HeapInv, NEW t \in Threads, noArenaMap(t) \/ sysMapFails(t)
  PROVE  HeapInv'
<1>1. /\ thrown = "none" /\ UNCHANGED arenaVars /\ locks' = locks /\ thrown' # "none"
      /\ thrown' \in {"out of memory allocating heap arena map", "runtime: out of memory"}
  BY DEF noArenaMap, sysMapFails, At, throw
<1> QED
  BY <1>1, ArenasAside

-----------------------------------------------------------------------------
(***************************************************************************)
(* Arenas are where they should be.                                        *)
(***************************************************************************)
\* Initially nothing is reserved.
LEMMA HeapStarts == Init => HeapInv
<1> SUFFICES ASSUME Init PROVE HeapInv
  OBVIOUS
<1>1. /\ reserved = {} /\ prepared = {} /\ arenas = {} /\ allArenas = <<>> /\ hints = arenaHints
      /\ curArena = [base |-> 0, end |-> 0] /\ asked = NoAsk /\ thrown = "none"
      /\ pc = [t \in Threads |-> "idle"]
  BY DEF Init, MetaInit
<1>2. Slots(arenas) = {}
  BY <1>1 DEF Slots
<1>3. Hints \in Seq(Nat) /\ \A i \in DOMAIN Hints : Hints[i] > 0 /\ Hints[i] % ArenaUnits = 0
  BY HeapAssumption
<1>4. hints \in Seq(HintType) /\ HintsOK
  <2>1. DOMAIN Hints = 1 .. Len(Hints) /\ Len(Hints) \in Nat /\ \A i \in 1 .. Len(Hints) : Hints[i] \in Nat
    BY <1>3
  <2>2. hints = [i \in 1 .. Len(Hints) |-> [addr |-> Hints[i], down |-> FALSE]]
    BY <1>1, <2>1 DEF arenaHints
  <2>3. \A i \in 1 .. Len(Hints) : [addr |-> Hints[i], down |-> FALSE] \in HintType
    BY <2>1 DEF HintType
  <2>4. hints \in Seq(HintType) /\ Len(hints) = Len(Hints)
    BY <2>1, <2>2, <2>3
  <2>5. \A i \in 1 .. Len(Hints) : hints[i].addr = Hints[i] /\ ~ hints[i].down
    BY <2>2
  <2> QED
    BY <1>3, <2>1, <2>4, <2>5 DEF HintsOK, Whole
<1>5. HeapTypes
  BY <1>1, <1>4, NoAskType DEF HeapTypes
<1>6. RestReserved
  BY <1>1 DEF RestReserved, Units
<1>7. \A t \in Threads : ~ Placing(t) /\ ~ InLoop(t) /\ pc[t] # "hint"
  BY <1>1 DEF Placing, InLoop, Persisting, Carving, Linking
<1>8. StepsOK
  BY <1>1, <1>2, <1>7 DEF StepsOK
<1>9. Distinct(allArenas) /\ ToSet(allArenas) = {}
  <2>1. allArenas \in Seq(Nat) /\ Len(allArenas) = 0
    BY <1>1
  <2> QED
    BY <2>1, EmptyToSet
<1>10. Lasting
  BY <1>1, <1>2, <1>9 DEF Lasting
<1> QED
  BY <1>4, <1>5, <1>6, <1>8, <1>10 DEF HeapInv

\* A step that changes nothing.
LEMMA HeapStutter == HeapInv /\ UNCHANGED vars => HeapInv'
<1> SUFFICES ASSUME HeapInv, UNCHANGED vars PROVE HeapInv'
  OBVIOUS
<1>1. UNCHANGED <<locks, pc, call, thrown, other, reserved, prepared, hints, arenas, allArenas,
                  curArena, asked>>
  BY DEF vars, metaVars, lockVars, persistVars, arenaVars
<1>2. HeapTypes' /\ Lasting' /\ (HintsOK' <=> HintsOK) /\ (RestReserved' <=> RestReserved)
  BY <1>1 DEF HeapInv, HeapTypes, Lasting, HintsOK, RestReserved, Whole, Units, Slots
<1>3. (AskOK' <=> AskOK) /\ (PlaceOK' <=> PlaceOK) /\ LastArena' = LastArena
  BY <1>1 DEF AskOK, PlaceOK, LastArena, Whole, Units, Slots
<1>4. \A u \in Threads : (Placing(u)' <=> Placing(u)) /\ (InLoop(u)' <=> InLoop(u))
  BY <1>1 DEF Placing, InLoop
<1>5. StepsOK' <=> StepsOK
  BY <1>1, <1>3, <1>4 DEF StepsOK, Slots
<1> QED
  BY <1>1, <1>2, <1>5 DEF HeapInv

\* The invariant of the heap's address space.
THEOREM HeapInvariance == Spec => []HeapInv
<1>1. Init => HeapInv
  BY HeapStarts
<1>2. IInv /\ IInv' /\ HeapInv /\ [Next]_vars => HeapInv'
  <2> SUFFICES ASSUME IInv, IInv', HeapInv, [Next]_vars PROVE HeapInv'
    OBVIOUS
  <2>1. CASE UNCHANGED vars
    BY <2>1, HeapStutter
  <2>2. ASSUME NEW t \in Threads, MetaStep(t), UNCHANGED arenaVars PROVE HeapInv'
    BY <2>2, PersistArenas, SpansArenas DEF MetaStep
  <2>3. ASSUME NEW t \in Threads, ArenaStep(t) PROVE HeapInv'
    <3>1. CASE grow(t)
      BY <3>1, AskStarts, GrowInPlace
    <3> QED
      BY <2>3, <3>1, AskStarts, HintTried, AnyPlaceTaken, ArenaMetadata, ArenaPublished,
         AllocReturns, AllocFails DEF ArenaStep
  <2> QED
    BY <2>1, <2>2, <2>3 DEF Next
<1> QED
  BY <1>1, <1>2, Invariance, PTL DEF Spec

\* Whenever no sysAlloc runs, the reserved address space is exactly that of the
\* arenas in the index, whatever places the kernel chose and whichever ends of
\* a reservation were given back; what is prepared is reserved (malloc.go,
\* mheap.sysAlloc, sysReserveAligned; mheap.go, grow).
THEOREM AddressSpaceBacked == Spec => []ArenasBacked
<1>1. HeapInv => ArenasBacked
  <2> SUFFICES ASSUME HeapInv PROVE ArenasBacked
    OBVIOUS
  <2>1. arenas \subseteq Nat /\ Lasting
    BY DEF HeapInv, HeapTypes
  <2>2. Slots(arenas) = UNION {Slots({a}) : a \in arenas}
    BY DEF Slots
  <2>3. \A a \in arenas : Units(a * ArenaUnits, ArenaUnits) = Slots({a})
    BY <2>1, SlotUnits
  <2>4. Slots(arenas) = UNION {Units(a * ArenaUnits, ArenaUnits) : a \in arenas}
    <3> HIDE DEF Slots
    <3> QED
      BY <2>2, <2>3
  <2> QED
    BY <2>1, <2>4 DEF ArenasBacked, Lasting
<1> QED
  BY <1>1, HeapInvariance, PTL

\* The checks of sysAlloc never fail: every place it gets is aligned, inside
\* the index and new to it, whatever the kernel answers, and an arena is
\* registered once (malloc.go, mheap.sysAlloc).
THEOREM ArenasInPlace == Spec => []ArenasPlaced
<1>1. HeapInv => ArenasPlaced
  <2> SUFFICES ASSUME HeapInv PROVE ArenasPlaced
    OBVIOUS
  <2>1. Lasting /\ DOMAIN allArenas = 1 .. Len(allArenas)
    BY DEF HeapInv, HeapTypes
  <2> QED
    BY <2>1 DEF ArenasPlaced, Lasting, Distinct
<1> QED
  BY <1>1, HeapInvariance, PTL
=============================================================================
