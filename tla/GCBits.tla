------------------------------- MODULE GCBits -------------------------------
(***************************************************************************)
(* The allocator of mark/alloc bitmaps of memory_and_heap/mheap.go:        *)
(* gcBitsArena.tryAlloc, newMarkBits, newAllocBits and newArenaMayUnlock.  *)
(*                                                                         *)
(* Many threads ask for bitmaps at once.  A bitmap is carved from the head *)
(* arena by a fetch-and-add on its free index, without a lock; only when   *)
(* the head is exhausted does a thread take gcBitsArenas.lock, and it      *)
(* drops that lock again while the operating system maps a fresh arena.    *)
(*                                                                         *)
(* Grain of the actions.  Every load and every fetch-and-add of an arena's *)
(* free index, every acquisition of the lock and the call to sysAlloc is a *)
(* step of its own.  What a thread does between one of these and the next  *)
(* (writes to its locals, to an arena no other thread can reach, to the    *)
(* lists only the lock holder touches, and the release of the lock) is     *)
(* part of the preceding step.                                             *)
(*                                                                         *)
(* An arena list is the sequence of its arenas, head first: pushing on it  *)
(* is `a.next = head; head = a'.                                           *)
(***************************************************************************)
EXTENDS Integers, Sequences, FiniteSets

CONSTANTS
  Threads,   \* threads (Ms) that allocate span bitmaps
  Arenas,    \* the arenas the operating system may hand out
  BitsLen,   \* len(gcBitsArena.bits), in bytes (65520 in the code)
  NElems,    \* the numbers of elements of the spans being initialised
  MaxCalls,  \* bound on the number of calls of newMarkBits
  Nil        \* the nil pointer

\* blocksNeeded * 8: the bytes newMarkBits asks for, one bit per element
\* rounded up to whole 8-byte blocks.
BytesNeeded(nelems) == ((nelems + 63) \div 64) * 8

ASSUME BitsLenAssumption == BitsLen \in Nat /\ BitsLen % 8 = 0
\* A bitmap always fits an empty arena: the largest span has 1024 elements,
\* that is 128 of 65520 bytes.
ASSUME NElemsAssumption ==
  NElems \subseteq {n \in Nat : n > 0 /\ BytesNeeded(n) <= BitsLen}
ASSUME MaxCallsAssumption == MaxCalls \in Nat
ASSUME ThreadsAssumption == IsFiniteSet(Threads)
ASSUME NilAssumption == Nil \notin Arenas /\ Nil \notin Threads

VARIABLES
  lock,      \* holder of gcBitsArenas.lock, or Nil
  nextList,  \* gcBitsArenas.next and what it links to
  freeList,  \* gcBitsArenas.free and what it links to
  free,      \* the free index of every arena
  mapped,    \* the arenas sysAlloc has returned so far
  pc,        \* where every thread is
  site,      \* which of the four calls of tryAlloc a thread is in
  need,      \* bytesNeeded
  arena,     \* the receiver b of the running tryAlloc
  fresh,     \* the arena newArenaMayUnlock returned
  call,      \* the number of the thread's current call
  calls,     \* number of calls started
  bitmaps,   \* the bitmaps returned to callers
  thrown     \* the argument of throw, or "none"

vars == <<lock, nextList, freeList, free, mapped, pc, site, need, arena, fresh,
          call, calls, bitmaps, thrown>>
lists == <<nextList, freeList>>
request == <<need, call, calls>>

\* A bitmap: the bytes start .. end - 1 of an arena, returned by one call.
Bitmaps ==
  [call : 1 .. MaxCalls, arena : Arenas, start : 0 .. BitsLen, end : 0 .. BitsLen]

Pcs == {"idle", "check", "xadd", "lock", "newArena", "sysAlloc", "relock"}
Sites == {"head", "locked", "again", "fresh"}
Throws == {"none", "markBits overflow", "cannot allocate memory"}

HeadOf(list) == IF list = <<>> THEN Nil ELSE Head(list)

Init ==
  /\ lock = Nil
  /\ nextList = <<>>
  /\ freeList = <<>>
  /\ free = [a \in Arenas |-> 0]
  /\ mapped = {}
  /\ pc = [t \in Threads |-> "idle"]
  /\ site = [t \in Threads |-> "head"]
  /\ need = [t \in Threads |-> 0]
  /\ arena = [t \in Threads |-> Nil]
  /\ fresh = [t \in Threads |-> Nil]
  /\ call = [t \in Threads |-> 0]
  /\ calls = 0
  /\ bitmaps = {}
  /\ thrown = "none"

-----------------------------------------------------------------------------
\* Thread t is at the step `label'; a throw stops every thread.
At(t, label) == thrown = "none" /\ pc[t] = label

\* Start tryAlloc on b, as the call of newMarkBits named s.
StartTry(t, s, b) ==
  /\ pc' = [pc EXCEPT ![t] = "check"]
  /\ site' = [site EXCEPT ![t] = s]
  /\ arena' = [arena EXCEPT ![t] = b]

\* tryAlloc returned nil: what newMarkBits does next.
TryFailed(t) ==
  \/ /\ site[t] = "head"
     /\ pc' = [pc EXCEPT ![t] = "lock"]
     /\ UNCHANGED <<site, arena, thrown>>
  \/ /\ site[t] = "locked"
     /\ pc' = [pc EXCEPT ![t] = "newArena"]
     /\ UNCHANGED <<site, arena, thrown>>
  \/ /\ site[t] = "again"
     /\ StartTry(t, "fresh", fresh[t])
     /\ UNCHANGED thrown
  \/ /\ site[t] = "fresh"
     /\ thrown' = "markBits overflow"
     /\ UNCHANGED <<pc, site, arena>>

\* Mutant: the return after putting the fresh arena back forgets to unlock.
UnlockForgotten(t) == lock' = IF site[t] \in {"head", "again"} THEN lock ELSE Nil

\* gcBitsArenas.lock is released by every return but the lock-free one.
UnlockFrom(t) == lock' = IF site[t] = "head" THEN lock ELSE Nil

\* Mutant: the fresh arena that was not needed is dropped, not put back.
TrySucceededLeaks(t, start) ==
  /\ bitmaps' = bitmaps \cup
       {[call |-> call[t], arena |-> arena[t], start |-> start, end |-> start + need[t]]}
  /\ nextList' = IF site[t] = "fresh" THEN <<fresh[t]>> \o nextList ELSE nextList
  /\ UnlockFrom(t)
  /\ pc' = [pc EXCEPT ![t] = "idle"]
  /\ fresh' = [fresh EXCEPT ![t] = Nil]
  /\ UNCHANGED <<site, arena, freeList>>

\* tryAlloc returned the bitmap that starts at `start': newMarkBits returns it,
\* after putting a fresh arena it did not need on the free list, or publishing
\* the one it took the bitmap from as the new head.
TrySucceeded(t, start) ==
  /\ bitmaps' = bitmaps \cup
       {[call |-> call[t], arena |-> arena[t], start |-> start, end |-> start + need[t]]}
  /\ freeList' = IF site[t] = "again" THEN <<fresh[t]>> \o freeList ELSE freeList
  /\ nextList' = IF site[t] = "fresh" THEN <<fresh[t]>> \o nextList ELSE nextList
  /\ UnlockFrom(t)
  /\ pc' = [pc EXCEPT ![t] = "idle"]
  /\ fresh' = [fresh EXCEPT ![t] = Nil]
  /\ UNCHANGED <<site, arena>>

-----------------------------------------------------------------------------
\* newMarkBits (and newAllocBits, which only calls it): the first atomic load
\* of gcBitsArenas.next.
NewMarkBits(t) ==
  /\ At(t, "idle")
  /\ calls < MaxCalls
  /\ \E n \in NElems : need' = [need EXCEPT ![t] = BytesNeeded(n)]
  /\ calls' = calls + 1
  /\ call' = [call EXCEPT ![t] = calls + 1]
  /\ StartTry(t, "head", HeadOf(nextList))
  /\ UNCHANGED <<lock, lists, free, mapped, fresh, bitmaps, thrown>>

\* Mutants: the load takes an exact fit for an overflow; it only tests for nil.
ExhaustedOffByOne(b, bytes) == b = Nil \/ free[b] + bytes >= BitsLen
ExhaustedNilOnly(b, bytes) == b = Nil

\* The arena b has no room for `bytes' more, as far as the atomic load tells.
Exhausted(b, bytes) == b = Nil \/ free[b] + bytes > BitsLen

\* tryAlloc, first half: nil receiver, or the load of b.free shows no room.
TryCheck(t) ==
  /\ At(t, "check")
  /\ IF Exhausted(arena[t], need[t])
       THEN TryFailed(t)
       ELSE /\ pc' = [pc EXCEPT ![t] = "xadd"]
            /\ UNCHANGED <<site, arena, thrown>>
  /\ UNCHANGED <<lock, lists, free, mapped, fresh, request, bitmaps>>

\* Mutant: no second look at the length after the fetch-and-add.
ClaimedUnchecked(end) == TRUE

\* Only the part of the arena below its length is ever handed out.
Claimed(end) == end <= BitsLen

\* Mutant: the bitmap is returned from the end of the claimed bytes.
TryXaddReturnsEnd(t) ==
  /\ At(t, "xadd")
  /\ LET end == free[arena[t]] + need[t] IN
       /\ free' = [free EXCEPT ![arena[t]] = end]
       /\ IF Claimed(end)
            THEN TrySucceeded(t, end) /\ UNCHANGED thrown
            ELSE TryFailed(t) /\ UNCHANGED <<lock, lists, fresh, bitmaps>>
  /\ UNCHANGED <<mapped, request>>

\* tryAlloc, second half: the fetch-and-add, which other threads may have
\* overtaken since the load.
TryXadd(t) ==
  /\ At(t, "xadd")
  /\ LET end == free[arena[t]] + need[t] IN
       /\ free' = [free EXCEPT ![arena[t]] = end]
       /\ IF Claimed(end)
            THEN TrySucceeded(t, end - need[t]) /\ UNCHANGED thrown
            ELSE TryFailed(t) /\ UNCHANGED <<lock, lists, fresh, bitmaps>>
  /\ UNCHANGED <<mapped, request>>

\* lock(&gcBitsArenas.lock), then tryAlloc on what the head is by now.
Lock(t) ==
  /\ At(t, "lock")
  /\ lock = Nil
  /\ lock' = t
  /\ StartTry(t, "locked", HeadOf(nextList))
  /\ UNCHANGED <<lists, free, mapped, fresh, request, bitmaps, thrown>>

\* newArenaMayUnlock hands out arena a, cleared, to the lock holder t, who
\* tries the head once more.
TakeFresh(t, a) ==
  /\ fresh' = [fresh EXCEPT ![t] = a]
  /\ free' = [free EXCEPT ![a] = 0]
  /\ StartTry(t, "again", HeadOf(nextList))

\* Mutant: the arena is used but stays on the free list.
PopFreeKeepsHead(t) ==
  /\ At(t, "newArena")
  /\ freeList # <<>>
  /\ TakeFresh(t, Head(freeList))
  /\ UNCHANGED <<lock, lists, mapped, request, bitmaps, thrown>>

\* newArenaMayUnlock with a cached arena: pop it and clear it.
PopFree(t) ==
  /\ At(t, "newArena")
  /\ freeList # <<>>
  /\ TakeFresh(t, Head(freeList))
  /\ freeList' = Tail(freeList)
  /\ UNCHANGED <<lock, nextList, mapped, request, bitmaps, thrown>>

\* newArenaMayUnlock without one: unlock, and go to the operating system.
DropLock(t) ==
  /\ At(t, "newArena")
  /\ freeList = <<>>
  /\ lock' = Nil
  /\ pc' = [pc EXCEPT ![t] = "sysAlloc"]
  /\ UNCHANGED <<lists, free, mapped, site, arena, fresh, request, bitmaps, thrown>>

\* sysAlloc maps an arena nobody has, or fails and the runtime throws.
SysAlloc(t) ==
  /\ At(t, "sysAlloc")
  /\ \/ \E a \in Arenas \ mapped :
          /\ mapped' = mapped \cup {a}
          /\ fresh' = [fresh EXCEPT ![t] = a]
          /\ pc' = [pc EXCEPT ![t] = "relock"]
          /\ UNCHANGED thrown
     \/ /\ thrown' = "cannot allocate memory"
        /\ UNCHANGED <<mapped, fresh, pc>>
  /\ UNCHANGED <<lock, lists, free, site, arena, request, bitmaps>>

\* lock(&gcBitsArenas.lock) again, with the new arena in hand.
Relock(t) ==
  /\ At(t, "relock")
  /\ lock = Nil
  /\ lock' = t
  /\ TakeFresh(t, fresh[t])
  /\ UNCHANGED <<lists, mapped, request, bitmaps, thrown>>

Step(t) ==
  \/ NewMarkBits(t) \/ TryCheck(t) \/ TryXadd(t) \/ Lock(t)
  \/ PopFree(t) \/ DropLock(t) \/ SysAlloc(t) \/ Relock(t)

\* The program has thrown, or all the calls the model makes have returned.
Stopped ==
  /\ thrown # "none" \/ (calls = MaxCalls /\ \A t \in Threads : pc[t] = "idle")
  /\ UNCHANGED vars

Next == Stopped \/ \E t \in Threads : Step(t)

\* Inside a call a thread keeps running; nothing obliges it to start one.
Progress(t) == pc[t] # "idle" /\ Step(t)

Spec == Init /\ [][Next]_vars
FairSpec == Spec /\ \A t \in Threads : WF_vars(Progress(t))
-----------------------------------------------------------------------------
(***************************************************************************)
(* Properties.                                                             *)
(***************************************************************************)
\* Every variable has its type.
TypeOK ==
  /\ lock \in Threads \cup {Nil}
  /\ nextList \in Seq(Arenas)
  /\ freeList \in Seq(Arenas)
  /\ free \in [Arenas -> Nat]
  /\ mapped \subseteq Arenas
  /\ pc \in [Threads -> Pcs]
  /\ site \in [Threads -> Sites]
  /\ need \in [Threads -> Nat]
  /\ arena \in [Threads -> Arenas \cup {Nil}]
  /\ fresh \in [Threads -> Arenas \cup {Nil}]
  /\ call \in [Threads -> 0 .. MaxCalls]
  /\ calls \in 0 .. MaxCalls
  /\ bitmaps \subseteq Bitmaps
  /\ thrown \in Throws

\* No two spans ever share a byte of their bitmaps, whatever the interleaving
\* of the unlocked loads and fetch-and-adds of tryAlloc with the arena changes
\* made under the lock.
NoOverlap ==
  \A x, y \in bitmaps :
    \/ x.call = y.call
    \/ x.arena # y.arena
    \/ x.end <= y.start
    \/ y.end <= x.start

\* "this cannot race and is guaranteed to succeed": newMarkBits never reaches
\* throw("markBits overflow"), since nobody else can reach the fresh arena.
FreshNeverFull == thrown # "markBits overflow"

\* An arena is in one place: on the next list, on the free list, or in the
\* hands of the one thread newArenaMayUnlock returned it to; none is in two
\* places (or twice in one), and none that was mapped is lost.
HeldBy(a) == {t \in Threads : fresh[t] = a}
Places(a) ==
  Cardinality({i \in 1 .. Len(nextList) : nextList[i] = a})
    + Cardinality({i \in 1 .. Len(freeList) : freeList[i] = a})
    + Cardinality(HeldBy(a))
OnePlace == \A a \in Arenas : Places(a) = IF a \in mapped THEN 1 ELSE 0

\* The free index of an arena overshoots its length by at most what the other
\* threads had in flight between their load and their fetch-and-add, however
\* many calls fail on it afterwards: it can neither wrap round nor come back
\* into range.
OvershootBounded ==
  \A a \in Arenas, m \in {BytesNeeded(n) : n \in NElems} :
    (\A n \in NElems : BytesNeeded(n) <= m)
      => free[a] <= BitsLen + (Cardinality(Threads) - 1) * m

\* The calls, seen from outside, are those of the abstract allocator: each one
\* takes effect at one step, with a bitmap nobody else has, and the program
\* stops only when the operating system refuses memory.
Service == INSTANCE BitmapService WITH
  Sizes <- {BytesNeeded(n) : n \in NElems},
  serving <- [t \in Threads |-> IF pc[t] = "idle" THEN 0 ELSE need[t]],
  granted <- {[arena |-> m.arena, start |-> m.start, end |-> m.end] : m \in bitmaps},
  failed <- thrown
ImplementsService == Service!Spec

\* Every call of newMarkBits returns unless the program throws: no path keeps
\* the lock or waits for a lock that is never released.
EveryCallReturns ==
  \A t \in Threads : pc[t] # "idle" ~> (pc[t] = "idle" \/ thrown # "none")
=============================================================================
