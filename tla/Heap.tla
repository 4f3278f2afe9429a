-------------------------------- MODULE Heap --------------------------------
(***************************************************************************)
(* How the heap gets address space, memory_and_heap/mheap.go and malloc.go:*)
(* mheap.grow asks mheap.sysAlloc for arenas, which reserves them at a     *)
(* hint or wherever the kernel likes, and registers every arena; grow then *)
(* prepares the memory it asked for and hands it to the page allocator     *)
(* (pageAlloc.grow, mpagealloc.go).  The arenas' metadata come from        *)
(* Metadata's persistentalloc, under h.lock.                               *)
(*                                                                         *)
(* Addresses count units of one palloc chunk, from 0 to Limit; an arena    *)
(* has ArenaUnits of them.  The kernel (mmap, munmap) is external: it      *)
(* honours a hint whose place is free, picks any free place otherwise, and *)
(* may fail; some units belong to other mappings.  Overflow of the 64-bit  *)
(* address is an address below 0.  The 32-bit only branches are left out.  *)
(***************************************************************************)
EXTENDS Metadata, AddrRanges

CONSTANTS
  Limit,           \* units of the address space, 1<<arenaBits arenas
  ArenaUnits,      \* heapArenaBytes
  Low,             \* the kernel maps nothing below this address
  Others,          \* sets of units other mappings may hold
  Hints,           \* addresses of the hints mallocinit makes, in order
  Asks,            \* units grow and the user arenas ask for
  HeapArenaWords,  \* unsafe.Sizeof(heapArena{})
  FirstArenas,     \* physPageSize / PtrSize, first capacity of allArenas
  Levels           \* summaryLevels: chunks of an entry, entries of a block

\* The first hints are addresses of arenas, none of them nil; the kernel maps
\* nothing so low that the place below an arena could wrap round.
ASSUME HeapAssumption ==
  /\ ArenaUnits \in Nat /\ ArenaUnits > 0
  /\ Limit \in Nat /\ Limit % ArenaUnits = 0
  /\ Hints \in Seq(Nat)
  /\ \A i \in DOMAIN Hints : Hints[i] > 0 /\ Hints[i] % ArenaUnits = 0
  /\ Low \in Nat /\ Low > 0 /\ Asks \subseteq Nat
  /\ \A a \in Asks : a > 0 /\ Low > alignUp(a, ArenaUnits)
  /\ HeapArenaWords \in Nat /\ HeapArenaWords > 0
  /\ FirstArenas \in Nat /\ FirstArenas > 0

VARIABLES
  other,           \* units of other mappings
  reserved,        \* units sysReserve got and sysFreeOS did not give back
  prepared,        \* units sysMap made accessible
  hints,           \* mheap_.arenaHints
  l2,              \* h.arenas[0] is not nil
  arenas,          \* indices of h.arenas[0] that are not nil
  allArenas, arenasCap,
  curArena,
  asked,           \* the running grow and sysAlloc: ask, n, register, v, size, ri
  pages            \* the page allocator: sumLen, sumMapped, start, end, inUse

arenaVars == <<other, reserved, prepared, hints, l2, arenas, allArenas, arenasCap,
               curArena, asked, pages>>
vars == <<metaVars, arenaVars>>

Units(p, n) == p..(p + n - 1)
Arena(p) == p \div ArenaUnits
NoAsk == [ask |-> 0, n |-> 0, register |-> FALSE, v |-> 0, size |-> 0, ri |-> 0]

\* The addresses the kernel maps at.
AddrSpace == Low..(Limit - 1)

\* The hints of mallocinit.
arenaHints == [i \in DOMAIN Hints |-> [addr |-> Hints[i], down |-> FALSE]]

\* The page allocator after pageAlloc.init.
NoPages == [sumLen |-> [l \in DOMAIN Levels |-> 0], sumMapped |-> {},
            start |-> 0, end |-> 0, inUse |-> <<>>]

\* mallocinit and mheap.init have run.
Init ==
  /\ MetaInit
  /\ other \in Others
  /\ reserved = {} /\ prepared = {} /\ l2 = FALSE /\ arenas = {}
  /\ hints = arenaHints
  /\ allArenas = <<>> /\ arenasCap = 0
  /\ curArena = [base |-> 0, end |-> 0]
  /\ asked = NoAsk
  /\ pages = NoPages

----------------------------------------------------------------------------
(* The kernel. *)

Free == AddrSpace \ (other \cup reserved)

\* mmap of n units at p: p if it is free, else some other place, else nil.
sysReserve(p, n) ==
  LET places == {v \in Low..(Limit - n) : Units(v, n) \subseteq Free} IN
  IF p \in places THEN {p} ELSE places \cup {nil}

\* Mutant: the kernel's other place is not given back.
sysFreeOS_NoOp(r, v, n) == r

sysFreeOS(r, v, n) == r \ Units(v, n)

sysMap(v, n) == prepared' = prepared \cup Units(v, n)

----------------------------------------------------------------------------
(* sysAlloc. *)

\* A user of arena space of its own, which does not register it.
userArena(t) ==
  \E n \in Asks :
    /\ Call(t) /\ lock("heap", t)
    /\ asked' = [NoAsk EXCEPT !.n = alignUp(n, ArenaUnits)]
    /\ Goto(t, "hint")
    /\ UNCHANGED <<thrown, persistVars, spanVars, other, reserved, prepared, hints,
                   l2, arenas, allArenas, arenasCap, curArena, pages>>

\* Try the first hint: keep it, moved past the new space, or drop it.
tryHint(t) ==
  /\ At(t, "hint") /\ hints # <<>>
  /\ LET n == asked.n
         h == Head(hints)
         p == IF h.down THEN h.addr - n ELSE h.addr
         usable == p >= 0 /\ p + n <= Limit
     IN \E v \in IF usable THEN sysReserve(p, n) ELSE {nil} :
          IF v = p
          THEN /\ reserved' = reserved \cup Units(v, n)
               /\ hints' = [hints EXCEPT ![1].addr = IF h.down THEN p ELSE p + n]
               /\ asked' = [asked EXCEPT !.v = v, !.size = n, !.ri = Arena(v)]
               /\ Goto(t, "arenas")
          ELSE /\ reserved' = IF v = nil THEN reserved
                              ELSE sysFreeOS(reserved \cup Units(v, n), v, n)
               /\ hints' = Tail(hints)
               /\ UNCHANGED <<asked, pc>>
  /\ UNCHANGED <<locks, calls, thrown, persistVars, spanVars, other, prepared, l2,
                 arenas, allArenas, arenasCap, curArena, pages>>

\* Mutant: the reservation is trimmed at its end only.
ReserveAligned_FrontKept(v, n) ==
  [v |-> v, size |-> n, reserved |-> reserved \cup Units(v, n)]

\* sysReserveAligned: one arena more than asked for, trimmed if it is not
\* aligned.  The result and the units that stay reserved.
ReserveAligned(v, n) ==
  IF v % ArenaUnits = 0
  THEN [v |-> v, size |-> n + ArenaUnits,
        reserved |-> reserved \cup Units(v, n + ArenaUnits)]
  ELSE LET a   == alignUp(v, ArenaUnits)
           r1  == sysFreeOS(reserved \cup Units(v, n + ArenaUnits), v, a - v)
           len == (v + n + ArenaUnits) - (a + n)
       IN [v |-> a, size |-> n,
           reserved |-> IF len > 0 THEN sysFreeOS(r1, a + n, len) ELSE r1]

\* All hints failed: any place, and hints to extend it upwards and downwards.
anyPlace(t) ==
  /\ At(t, "hint") /\ hints = <<>>
  /\ \E v \in sysReserve(nil, asked.n + ArenaUnits) :
       IF v = nil
       THEN /\ Goto(t, "nomemory")
            /\ UNCHANGED <<reserved, hints, asked>>
       ELSE LET r == ReserveAligned(v, asked.n) IN
            /\ reserved' = r.reserved
            /\ hints' = <<[addr |-> r.v + r.size, down |-> FALSE],
                          [addr |-> r.v, down |-> TRUE]>>
            /\ asked' = [asked EXCEPT !.v = r.v, !.size = r.size, !.ri = Arena(r.v)]
            /\ Goto(t, "arenas")
  /\ UNCHANGED <<locks, calls, thrown, persistVars, spanVars, other, prepared, l2,
                 arenas, allArenas, arenasCap, curArena, pages>>

\* The checks before the loop and in it, and the loop's end.  What sysAlloc
\* throws when it must, else "none".
Misplaced ==
  IF asked.v + asked.size > Limit THEN "memory reservation exceeds address space limit"
  ELSE IF asked.v % ArenaUnits # 0 THEN "misrounded allocation is sysAlloc"
  ELSE IF asked.ri \in arenas THEN "arena already initialized"
  ELSE "none"

LastArena == Arena(asked.v + asked.size - 1)

\* One arena: its heapArena struct.
nextArena(t) ==
  /\ At(t, "arenas") /\ asked.ri <= LastArena
  /\ IF Misplaced # "none"
     THEN throw(Misplaced) /\ UNCHANGED <<pc, call, l2>>
     ELSE /\ l2' = TRUE /\ UNCHANGED thrown
          /\ persistentalloc(t, HeapArenaWords, PtrSize, "arena")
  /\ UNCHANGED <<locks, calls, persistent, head, link, mapped, blocks, spanVars, other,
                 reserved, prepared, hints, arenas, allArenas, arenasCap, curArena, asked, pages>>

\* The array of 2^22 pointers cannot be mapped.
noArenaMap(t) ==
  /\ At(t, "arenas") /\ ~l2 /\ Misplaced = "none"
  /\ throw("out of memory allocating heap arena map")
  /\ UNCHANGED <<locks, pc, calls, persistVars, spanVars, arenaVars>>

\* allArenas is full: twice the capacity, the old array is left to its readers.
growAllArenas(t) ==
  /\ At(t, "arena") /\ asked.register /\ Len(allArenas) = arenasCap
  /\ arenasCap' = IF arenasCap = 0 THEN FirstArenas ELSE 2 * arenasCap
  /\ persistentalloc(t, arenasCap', PtrSize, "arena")
  /\ UNCHANGED <<locks, calls, thrown, persistent, head, link, mapped, blocks, spanVars, other,
                 reserved, prepared, hints, l2, arenas, allArenas, curArena, asked, pages>>

\* The arena is published.
publishArena(t) ==
  /\ At(t, "arena") /\ (asked.register => Len(allArenas) < arenasCap)
  /\ allArenas' = IF asked.register THEN Append(allArenas, asked.ri) ELSE allArenas
  /\ arenas' = arenas \cup {asked.ri}
  /\ asked' = [asked EXCEPT !.ri = @ + 1]
  /\ Goto(t, "arenas")
  /\ UNCHANGED <<locks, calls, thrown, persistVars, spanVars, other, reserved, prepared,
                 hints, l2, arenasCap, curArena, pages>>

----------------------------------------------------------------------------
(* The page allocator. *)

\* addrsToSummaryRange and blockAlignSummaryRange.
SummaryRange(l, r) ==
  LET lo == r.base \div Levels[l].chunks
      hi == r.limit \div Levels[l].chunks + 1
      e  == Levels[l].block
  IN <<(lo \div e) * e, alignUp(hi, e)>>

\* sysGrow: the part of every level that must be mapped for r, less what the
\* neighbours in inUse need.  Only a range whose size is not 0 is mapped.
SysGrow(r) ==
  LET i == findSucc(pages.inUse, r.base)
      entries(l, s) == LET m == SummaryRange(l, s) IN makeAddrRange(m[1], m[2])
      below(l, s) == IF i = 0 THEN s ELSE subtract(s, entries(l, pages.inUse[i]))
      above(l, s) == IF i = Len(pages.inUse) THEN s
                     ELSE subtract(s, entries(l, pages.inUse[i + 1]))
      need(l) == above(l, below(l, entries(l, r)))
      bad(l) ==
        \/ i > 0 /\ BadPrune(entries(l, r), entries(l, pages.inUse[i]))
        \/ i < Len(pages.inUse) /\ BadPrune(below(l, entries(l, r)),
                                           entries(l, pages.inUse[i + 1]))
  IN [len    |-> [l \in DOMAIN Levels |->
                    LET m == SummaryRange(l, r)[2] IN
                    IF m > pages.sumLen[l] THEN m ELSE pages.sumLen[l]],
      mapped |-> {l \in DOMAIN Levels : Size(need(l)) # 0},
      thrown |-> \E l \in DOMAIN Levels : bad(l)]

\* pageAlloc.grow of [base, base+size), up to the call of inUse.add, which
\* throws for every range it can be given.
PagesGrow(base, size) ==
  LET r == makeAddrRange(base, base + size)
      s == SysGrow(r)
  IN /\ pages' = [sumLen    |-> s.len,
                  sumMapped |-> pages.sumMapped \cup s.mapped,
                  start     |-> IF pages.start = 0 \/ r.base < pages.start
                                THEN r.base ELSE pages.start,
                  end       |-> IF r.limit > pages.end THEN r.limit ELSE pages.end,
                  inUse     |-> IF AddThrows(r) THEN pages.inUse ELSE add(pages.inUse, r)]
     /\ thrown' = IF s.thrown THEN "bad prune"
                  ELSE IF AddThrows(r) THEN "attempted to add zero-sized address range"
                  ELSE thrown

----------------------------------------------------------------------------
(* grow. *)

\* Grow into the space [base, end).
GrowTo(base, ask, end) ==
  /\ curArena' = [base |-> base + ask, end |-> end]
  /\ sysMap(base, ask)
  /\ PagesGrow(base, ask)

\* Not enough room in the current arena: sysAlloc is asked for the full amount.
grow(t) ==
  \E ask \in Asks :
    /\ Call(t) /\ locks["heap"] = NoOne
    /\ IF curArena.base + ask > curArena.end
       THEN /\ lock("heap", t) /\ Goto(t, "hint")
            /\ asked' = [NoAsk EXCEPT !.ask = ask, !.n = alignUp(ask, ArenaUnits),
                                     !.register = TRUE]
            /\ UNCHANGED <<thrown, prepared, curArena, pages>>
       ELSE /\ GrowTo(curArena.base, ask, curArena.end)
            /\ UNCHANGED <<locks, pc, asked>>
    /\ UNCHANGED <<persistVars, spanVars, other, reserved, hints, l2, arenas,
                   allArenas, arenasCap>>

\* sysAlloc has returned nil.
noMemory(t) ==
  /\ At(t, "nomemory")
  /\ locks' = unlock("heap") /\ asked' = NoAsk /\ Goto(t, "idle")
  /\ UNCHANGED <<calls, thrown, persistVars, spanVars, other, reserved, prepared, hints,
                 l2, arenas, allArenas, arenasCap, curArena, pages>>

\* sysAlloc has returned [v, v+size) to a user arena.
returnArena(t) ==
  /\ At(t, "arenas") /\ asked.ri > LastArena /\ ~asked.register
  /\ locks' = unlock("heap") /\ asked' = NoAsk /\ Goto(t, "idle")
  /\ UNCHANGED <<calls, thrown, persistVars, spanVars, other, reserved, prepared, hints,
                 l2, arenas, allArenas, arenasCap, curArena, pages>>

\* sysAlloc has returned [v, v+size) to grow: the rest of the current arena, if
\* any, goes to the page allocator first, then the new space is prepared.
growInto(t) ==
  /\ At(t, "arenas") /\ asked.ri > LastArena /\ asked.register
  /\ LET fresh == asked.v # curArena.end
         rest  == curArena.end - curArena.base
         base  == IF fresh THEN asked.v ELSE curArena.base
         early == fresh /\ rest # 0
     IN IF early
        THEN /\ sysMap(curArena.base, rest)
             /\ PagesGrow(curArena.base, rest)
             /\ UNCHANGED curArena
        ELSE GrowTo(base, asked.ask, asked.v + asked.size)
  /\ locks' = unlock("heap") /\ asked' = NoAsk /\ Goto(t, "idle")
  /\ UNCHANGED <<calls, persistVars, spanVars, other, reserved, hints, l2, arenas,
                 allArenas, arenasCap>>

\* sysMap cannot map the pages it is told to.
sysMapFails(t) ==
  /\ At(t, "arenas") /\ asked.ri > LastArena /\ asked.register
  /\ throw("runtime: out of memory")
  /\ UNCHANGED <<locks, pc, calls, persistVars, spanVars, arenaVars>>

ArenaStep(t) ==
  \/ userArena(t) \/ tryHint(t) \/ anyPlace(t) \/ nextArena(t) \/ noArenaMap(t)
  \/ growAllArenas(t) \/ publishArena(t) \/ grow(t) \/ noMemory(t)
  \/ returnArena(t) \/ growInto(t) \/ sysMapFails(t)

Next ==
  \E t \in Threads :
    \/ MetaStep(t) /\ UNCHANGED arenaVars
    \/ ArenaStep(t)

Spec == Init /\ [][Next]_vars

----------------------------------------------------------------------------
(* Properties. *)

\* Whenever no sysAlloc runs, the reserved units are exactly those of the
\* arenas in the index: a place the kernel chose instead of the hint, and the
\* unaligned ends of a reservation, are given back, and no arena is known
\* without memory; what is prepared is reserved (malloc.go, mheap.sysAlloc,
\* sysReserveAligned; mheap.go, grow).
ArenasBacked ==
  /\ locks["heap"] = NoOne =>
       reserved = UNION {Units(a * ArenaUnits, ArenaUnits) : a \in arenas}
  /\ prepared \subseteq reserved
  /\ reserved \cap other = {}

\* The checks sysAlloc makes on the place it got never fail, whatever the
\* kernel answers and however hints are used up and made again: an arena is
\* aligned, inside the index and registered once ("should be impossible",
\* malloc.go).
ArenasPlaced ==
  /\ thrown \notin {"memory reservation exceeds address space limit",
                    "misrounded allocation is sysAlloc", "arena already initialized"}
  /\ \A i, j \in DOMAIN allArenas : allArenas[i] = allArenas[j] => i = j
  /\ ToSet(allArenas) \subseteq arenas
=============================================================================
