----------------------------- MODULE SpanZeroing -----------------------------
(***************************************************************************)
(* Which newly allocated spans must be zeroed before use: mheap.initSpan   *)
(* and mheap.allocNeedsZero of memory_and_heap/mheap.go.                   *)
(*                                                                         *)
(* Every heap arena keeps zeroedBase, the offset below which its pages may *)
(* have been used.  Threads that have been given disjoint page ranges read *)
(* and raise it concurrently, with atomic loads and compare-and-swaps and  *)
(* no lock.  Addresses are counted in pages, so that pageSize is 1 and     *)
(* heapArenaBytes is ArenaPages.                                           *)
(*                                                                         *)
(* External: the page allocator gives a thread pages nobody else has; the  *)
(* mutator writes to a span and gives it back.                             *)
(***************************************************************************)
EXTENDS Integers

CONSTANTS
  Threads,     \* threads that allocate spans
  ArenaPages,  \* pages of an arena
  NumArenas,   \* number of arenas of the heap
  MaxSpans     \* bound on the number of spans allocated

ASSUME ArenaPagesAssumption == ArenaPages \in Nat /\ ArenaPages > 0
ASSUME NumArenasAssumption == NumArenas \in Nat
ASSUME MaxSpansAssumption == MaxSpans \in Nat

VARIABLES
  zeroedBase,  \* heapArena.zeroedBase of every arena
  dirty,       \* pages some mutator has ever had
  spans,       \* number of spans allocated so far
  pc,          \* where every thread is in the life of its span
  start, end,  \* the pages of its span: start .. end - 1
  base,        \* base, as allocNeedsZero advances it
  seen,        \* the local zeroedBase
  needZero,    \* the result of allocNeedsZero, span.needzero after it
  thrown       \* throw("potentially overlapping in-use allocations detected")

vars == <<zeroedBase, dirty, spans, pc, start, end, base, seen, needZero, thrown>>
span == <<start, end>>

HeapPages == 0 .. NumArenas * ArenaPages - 1
ArenaIdxs == 0 .. NumArenas - 1
Pcs == {"idle", "load", "cas", "reload", "ready", "inuse"}

\* arenaIndex(base) and base % heapArenaBytes.
arenaIndex(p) == p \div ArenaPages
arenaBase(p) == p % ArenaPages

\* Mutant: the reach into the arena is not capped at its end.
ArenaLimitUncapped(t) == arenaBase(base[t]) + (end[t] - base[t])

\* How far into the arena the rest of the span reaches, capped at its end.
\* end[t] - base[t] is npage.
arenaLimit(t) ==
  LET limit == arenaBase(base[t]) + (end[t] - base[t])
  IN  IF limit > ArenaPages THEN ArenaPages ELSE limit

Pages(t) == start[t] .. end[t] - 1
Owning(t) == pc[t] # "idle"

Init ==
  /\ zeroedBase = [a \in ArenaIdxs |-> 0]
  /\ dirty = {}
  /\ spans = 0
  /\ pc = [t \in Threads |-> "idle"]
  /\ start = [t \in Threads |-> 0]
  /\ end = [t \in Threads |-> 0]
  /\ base = [t \in Threads |-> 0]
  /\ seen = [t \in Threads |-> 0]
  /\ needZero = [t \in Threads |-> FALSE]
  /\ thrown = FALSE

-----------------------------------------------------------------------------
At(t, label) == ~ thrown /\ pc[t] = label

\* External: the page allocator's promise, pages that no live span has.
Free(lo, hi) == \A u \in Threads : Owning(u) => hi <= start[u] \/ end[u] <= lo

\* initSpan is called with the pages lo .. hi - 1 and calls allocNeedsZero.
InitSpan(t) ==
  /\ At(t, "idle")
  /\ spans < MaxSpans
  /\ spans' = spans + 1
  /\ \E lo \in HeapPages, hi \in 1 .. NumArenas * ArenaPages :
       /\ lo < hi
       /\ Free(lo, hi)
       /\ start' = [start EXCEPT ![t] = lo]
       /\ end' = [end EXCEPT ![t] = hi]
       /\ base' = [base EXCEPT ![t] = lo]
  /\ pc' = [pc EXCEPT ![t] = "load"]
  /\ UNCHANGED <<zeroedBase, dirty, seen, needZero, thrown>>

\* The end of the outer loop's body: base moves forward to the next arena, or
\* the loop is over and initSpan records needzero in the span.
NextArena(t) ==
  LET next == base[t] + (arenaLimit(t) - arenaBase(base[t]))
  IN  /\ base' = [base EXCEPT ![t] = next]
      /\ pc' = [pc EXCEPT ![t] = IF next < end[t] THEN "load" ELSE "ready"]

\* The inner loop's condition, with z just read: go on to the compare-and-swap
\* or leave the loop.
Raise(t, z) ==
  IF arenaLimit(t) > z
    THEN pc' = [pc EXCEPT ![t] = "cas"] /\ UNCHANGED base
    ELSE NextArena(t)

\* Mutant: zeroing only when the whole range lies below what has been used.
WhollyBelowZeroed(t, z) == arenaLimit(t) <= z

\* Part of the span lies below what has been used: it needs zeroing.
BelowZeroed(t, z) == arenaBase(base[t]) < z

\* The outer loop's atomic load of zeroedBase.
LoadZeroedBase(t) ==
  /\ At(t, "load")
  /\ LET z == zeroedBase[arenaIndex(base[t])] IN
       /\ seen' = [seen EXCEPT ![t] = z]
       /\ needZero' = [needZero EXCEPT ![t] = @ \/ BelowZeroed(t, z)]
       /\ Raise(t, z)
  /\ UNCHANGED <<zeroedBase, dirty, spans, span, thrown>>

\* Mutant: a plain store in place of the compare-and-swap.
StoreZeroedBase(t) ==
  /\ At(t, "cas")
  /\ zeroedBase' = [zeroedBase EXCEPT ![arenaIndex(base[t])] = arenaLimit(t)]
  /\ NextArena(t)
  /\ UNCHANGED <<dirty, spans, span, seen, needZero, thrown>>

\* atomic.Casuintptr(&ha.zeroedBase, zeroedBase, arenaLimit)
CasZeroedBase(t) ==
  /\ At(t, "cas")
  /\ LET a == arenaIndex(base[t]) IN
       IF zeroedBase[a] = seen[t]
         THEN /\ zeroedBase' = [zeroedBase EXCEPT ![a] = arenaLimit(t)]
              /\ NextArena(t)
         ELSE /\ pc' = [pc EXCEPT ![t] = "reload"]
              /\ UNCHANGED <<zeroedBase, base>>
  /\ UNCHANGED <<dirty, spans, span, seen, needZero, thrown>>

\* Mutant: a neighbour that ends exactly where we begin counts as intruder.
IntrudedInclusive(t, z) == z <= arenaLimit(t) /\ z >= arenaBase(base[t])

\* The sanity check after a failed swap: zeroedBase moved into our pages.
Intruded(t, z) == z <= arenaLimit(t) /\ z > arenaBase(base[t])

\* Mutant: the value read after a failed swap is not kept for the next one.
ReloadNotKept(t) ==
  /\ At(t, "reload")
  /\ LET z == zeroedBase[arenaIndex(base[t])] IN
       IF Intruded(t, z)
         THEN thrown' = TRUE /\ UNCHANGED <<pc, base>>
         ELSE Raise(t, z) /\ UNCHANGED thrown
  /\ UNCHANGED <<zeroedBase, dirty, spans, span, seen, needZero>>

\* The load after a failed swap, with the check that may throw.
ReloadZeroedBase(t) ==
  /\ At(t, "reload")
  /\ LET z == zeroedBase[arenaIndex(base[t])] IN
       /\ seen' = [seen EXCEPT ![t] = z]
       /\ IF Intruded(t, z)
            THEN thrown' = TRUE /\ UNCHANGED <<pc, base>>
            ELSE Raise(t, z) /\ UNCHANGED thrown
  /\ UNCHANGED <<zeroedBase, dirty, spans, span, needZero>>

\* External: the mutator starts writing to the span (after zeroing it, when
\* needzero says so).
UseSpan(t) ==
  /\ At(t, "ready")
  /\ dirty' = dirty \cup Pages(t)
  /\ pc' = [pc EXCEPT ![t] = "inuse"]
  /\ UNCHANGED <<zeroedBase, spans, span, base, seen, needZero, thrown>>

\* External: the span is freed, used or not, and its pages can be given again;
\* the locals of the call that initialised it are gone.
FreeSpan(t) ==
  /\ At(t, "ready") \/ At(t, "inuse")
  /\ pc' = [pc EXCEPT ![t] = "idle"]
  /\ start' = [start EXCEPT ![t] = 0]
  /\ end' = [end EXCEPT ![t] = 0]
  /\ base' = [base EXCEPT ![t] = 0]
  /\ seen' = [seen EXCEPT ![t] = 0]
  /\ needZero' = [needZero EXCEPT ![t] = FALSE]
  /\ UNCHANGED <<zeroedBase, dirty, spans, thrown>>

InAllocNeedsZero(t) ==
  LoadZeroedBase(t) \/ CasZeroedBase(t) \/ ReloadZeroedBase(t)

Stopped ==
  /\ thrown \/ (spans = MaxSpans /\ \A t \in Threads : pc[t] = "idle")
  /\ UNCHANGED vars

Next ==
  \/ Stopped
  \/ \E t \in Threads :
       InitSpan(t) \/ InAllocNeedsZero(t) \/ UseSpan(t) \/ FreeSpan(t)

\* A thread inside allocNeedsZero keeps running; the mutator may do nothing.
Spec == Init /\ [][Next]_vars
FairSpec == Spec /\ \A t \in Threads : WF_vars(InAllocNeedsZero(t))

-----------------------------------------------------------------------------
(***************************************************************************)
(* Properties.                                                             *)
(***************************************************************************)
\* Every variable has its type.
TypeOK ==
  /\ zeroedBase \in [ArenaIdxs -> 0 .. ArenaPages]
  /\ dirty \subseteq HeapPages
  /\ spans \in 0 .. MaxSpans
  /\ pc \in [Threads -> Pcs]
  /\ start \in [Threads -> Nat]
  /\ end \in [Threads -> 0 .. NumArenas * ArenaPages]
  /\ base \in [Threads -> Nat]
  /\ seen \in [Threads -> 0 .. ArenaPages]
  /\ needZero \in [Threads -> BOOLEAN]
  /\ thrown \in BOOLEAN

\* A span that initSpan hands out without needzero has only pages that nobody
\* ever used, even when other threads were raising zeroedBase of the same
\* arenas between this thread's loads and swaps.
NeedZeroSound ==
  \A t \in Threads : (pc[t] = "ready" /\ ~ needZero[t]) => Pages(t) \cap dirty = {}

\* throw("potentially overlapping in-use allocations detected") is unreachable
\* while the page allocator hands out disjoint pages: the check after a failed
\* swap has no false alarm.
NoFalseAlarm == ~ thrown

\* "Increases monotonically until it hits heapArenaBytes": no step, of any
\* thread with a stale zeroedBase, ever lowers it.
ZeroedBaseMonotone ==
  [][\A a \in ArenaIdxs : zeroedBase'[a] >= zeroedBase[a]]_vars

\* allocNeedsZero returns: a swap fails only because zeroedBase rose, and it
\* cannot rise for ever, so the loop does not spin for ever.
AllocNeedsZeroReturns ==
  \A t \in Threads : pc[t] \in {"load", "cas", "reload"} ~> (pc[t] = "ready" \/ thrown)
=============================================================================
