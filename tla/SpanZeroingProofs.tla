-------------------------- MODULE SpanZeroingProofs --------------------------
(***************************************************************************)
(* Proofs about SpanZeroing, for any number of threads, arenas and pages:  *)
(* a span handed out without needzero has never been used, and the check   *)
(* for overlapping allocations has no false alarm.                         *)
(***************************************************************************)
EXTENDS SpanZeroing, TLAPS

InLoop(t) == pc[t] \in {"load", "cas", "reload"}
Swapping(t) == pc[t] \in {"cas", "reload"}

\* Where base goes when the current arena is done.
After(t) == base[t] + (arenaLimit(t) - arenaBase(base[t]))

\* The page p lies below the zeroedBase of its arena.
Below(p) == arenaBase(p) < zeroedBase[arenaIndex(p)]

\* A live span is a non-empty range of heap pages, and base walks over it.
SpanInv ==
  \A t \in Threads : Owning(t) =>
    /\ start[t] < end[t] /\ start[t] <= base[t] /\ base[t] <= end[t]
    /\ InLoop(t) => base[t] < end[t]
    /\ ~ InLoop(t) => base[t] = end[t]

\* The page allocator's promise: live spans share no page.
DisjointInv ==
  \A t, u \in Threads :
    (t # u /\ Owning(t) /\ Owning(u)) => (end[t] <= start[u] \/ end[u] <= start[t])

\* Used pages, and the pages of a span base has passed, lie below zeroedBase.
BelowInv ==
  /\ \A p \in dirty : Below(p)
  /\ \A t \in Threads : Owning(t) => \A p \in start[t] .. base[t] - 1 : Below(p)

\* The value a thread read: not above zeroedBase, below the thread's limit,
\* and what others made of it since is outside the thread's pages.
SeenInv ==
  \A t \in Threads : Swapping(t) =>
    LET z == zeroedBase[arenaIndex(base[t])] IN
    /\ seen[t] <= z
    /\ seen[t] < arenaLimit(t)
    /\ z = seen[t] \/ z <= arenaBase(base[t]) \/ z > arenaLimit(t)
    /\ pc[t] = "reload" => z # seen[t]

\* The pages looked at so far are unused if needZero is still false.
Examined(t) == IF Swapping(t) THEN After(t) ELSE base[t]
UnusedInv ==
  \A t \in Threads :
    (Owning(t) /\ pc[t] # "inuse" /\ ~ needZero[t])
      => \A p \in start[t] .. Examined(t) - 1 : p \notin dirty

IInv ==
  TypeOK /\ SpanInv /\ DisjointInv /\ BelowInv /\ SeenInv /\ UnusedInv /\ ~ thrown
-----------------------------------------------------------------------------
(***************************************************************************)
(* Pages, arenas and offsets.                                              *)
(***************************************************************************)
\* arenaIndex and arenaBase split a page number.
LEMMA SplitLemma ==
  ASSUME NEW p \in Nat
  PROVE  /\ arenaIndex(p) \in Nat /\ arenaBase(p) \in 0 .. ArenaPages - 1
         /\ p = ArenaPages * arenaIndex(p) + arenaBase(p)
BY ArenaPagesAssumption DEF arenaIndex, arenaBase

\* Pages that are k apart and fit the arena of the first are in one arena.
LEMMA SameArenaLemma ==
  ASSUME NEW p \in Nat, NEW k \in Nat, arenaBase(p) + k < ArenaPages
  PROVE  arenaIndex(p + k) = arenaIndex(p) /\ arenaBase(p + k) = arenaBase(p) + k
BY ArenaPagesAssumption DEF arenaIndex, arenaBase

\* Pages of one arena are as far apart as their offsets.
LEMMA OffsetLemma ==
  ASSUME NEW p \in Nat, NEW q \in Nat, arenaIndex(p) = arenaIndex(q)
  PROVE  arenaBase(p) - arenaBase(q) = p - q
BY ArenaPagesAssumption DEF arenaIndex, arenaBase

\* A page of the heap is in one of its arenas.
LEMMA HeapPageLemma ==
  ASSUME NEW p \in Nat, p < NumArenas * ArenaPages
  PROVE  arenaIndex(p) \in ArenaIdxs
<1> DEFINE x == arenaIndex(p)
<1>1. x \in Nat /\ ArenaPages * x <= p /\ ArenaPages * x \in Nat
  BY ArenaPagesAssumption DEF arenaIndex
<1> HIDE DEF x
<1>2. x < NumArenas
  <2> SUFFICES ASSUME x >= NumArenas PROVE FALSE
    BY <1>1, NumArenasAssumption
  <2>1. x - NumArenas \in Nat
    BY <1>1, NumArenasAssumption
  <2>2. ArenaPages * (x - NumArenas) \in Nat
    BY <2>1, ArenaPagesAssumption
  <2>3. ArenaPages * (x - NumArenas) = ArenaPages * x - NumArenas * ArenaPages
    BY <1>1, ArenaPagesAssumption, NumArenasAssumption
  <2> QED BY <1>1, <2>2, <2>3, ArenaPagesAssumption, NumArenasAssumption
<1> QED BY <1>1, <1>2, NumArenasAssumption DEF x, ArenaIdxs

\* What the loop body of allocNeedsZero covers: the pages from base up to the
\* end of the span or of the arena, all of them in the arena of base.
LEMMA SegmentLemma ==
  ASSUME TypeOK, SpanInv, NEW t \in Threads, InLoop(t)
  PROVE  /\ base[t] \in Nat /\ end[t] \in Nat /\ start[t] \in Nat /\ base[t] < end[t]
         /\ arenaIndex(base[t]) \in ArenaIdxs
         /\ arenaBase(base[t]) \in 0 .. ArenaPages - 1
         /\ arenaLimit(t) \in 1 .. ArenaPages /\ arenaBase(base[t]) < arenaLimit(t)
         /\ After(t) \in Nat /\ base[t] < After(t) /\ After(t) <= end[t]
         /\ \A p \in base[t] .. After(t) - 1 :
              /\ arenaIndex(p) = arenaIndex(base[t])
              /\ arenaBase(p) = arenaBase(base[t]) + (p - base[t])
              /\ arenaBase(p) < arenaLimit(t)
<1>1. /\ base[t] \in Nat /\ end[t] \in Nat /\ start[t] \in Nat /\ base[t] < end[t]
      /\ end[t] <= NumArenas * ArenaPages
  BY ArenaPagesAssumption, NumArenasAssumption DEF TypeOK, SpanInv, Owning, InLoop
<1>2. base[t] < NumArenas * ArenaPages
  BY <1>1, ArenaPagesAssumption, NumArenasAssumption
<1>3. arenaIndex(base[t]) \in ArenaIdxs /\ arenaBase(base[t]) \in 0 .. ArenaPages - 1
  BY <1>1, <1>2, HeapPageLemma, SplitLemma
<1>4. /\ arenaLimit(t) \in 1 .. ArenaPages /\ arenaBase(base[t]) < arenaLimit(t)
      /\ arenaLimit(t) - arenaBase(base[t]) <= end[t] - base[t]
  BY <1>1, <1>3, ArenaPagesAssumption DEF arenaLimit
<1>5. After(t) \in Nat /\ base[t] < After(t) /\ After(t) <= end[t]
  BY <1>1, <1>3, <1>4, ArenaPagesAssumption DEF After
<1>6. ASSUME NEW p \in base[t] .. After(t) - 1
      PROVE  /\ arenaIndex(p) = arenaIndex(base[t])
             /\ arenaBase(p) = arenaBase(base[t]) + (p - base[t])
             /\ arenaBase(p) < arenaLimit(t)
  <2> DEFINE k == p - base[t]
  <2>1. k \in Nat /\ p = base[t] + k /\ arenaBase(base[t]) + k < arenaLimit(t)
    BY <1>1, <1>3, <1>4, ArenaPagesAssumption DEF After
  <2> HIDE DEF k
  <2>2. arenaBase(base[t]) + k < ArenaPages
    BY <1>3, <1>4, <2>1, ArenaPagesAssumption
  <2>3. arenaIndex(base[t] + k) = arenaIndex(base[t])
        /\ arenaBase(base[t] + k) = arenaBase(base[t]) + k
    BY <1>1, <2>1, <2>2, SameArenaLemma
  <2> QED BY <2>1, <2>3 DEF k
<1> QED BY <1>1, <1>3, <1>4, <1>5, <1>6

-----------------------------------------------------------------------------
(***************************************************************************)
(* The inductive invariant.                                                *)
(***************************************************************************)
\* Nothing is allocated or used initially.
LEMMA InitLemma == Init => IInv
<1> SUFFICES ASSUME Init PROVE IInv
  OBVIOUS
<1> USE DEF Init
<1>0. NumArenas * ArenaPages \in Nat
  BY ArenaPagesAssumption, NumArenasAssumption
<1>1. TypeOK
  <2>1. 0 \in 0 .. NumArenas * ArenaPages /\ 0 \in 0 .. ArenaPages /\ 0 \in 0 .. MaxSpans /\ 0 \in Nat
    BY <1>0, ArenaPagesAssumption, MaxSpansAssumption
  <2>2. /\ needZero \in [Threads -> BOOLEAN] /\ thrown \in BOOLEAN
        /\ pc \in [Threads -> Pcs] /\ dirty \subseteq HeapPages
    BY DEF Pcs
  <2>3. /\ zeroedBase \in [ArenaIdxs -> 0 .. ArenaPages]
        /\ start \in [Threads -> Nat] /\ base \in [Threads -> Nat]
        /\ end \in [Threads -> 0 .. NumArenas * ArenaPages]
        /\ seen \in [Threads -> 0 .. ArenaPages]
        /\ spans \in 0 .. MaxSpans
    BY <2>1, Zenon
  <2> QED BY <2>2, <2>3 DEF TypeOK
<1>2. SpanInv /\ DisjointInv /\ SeenInv /\ UnusedInv
  BY DEF SpanInv, DisjointInv, SeenInv, UnusedInv, Owning, Swapping
<1>3. BelowInv /\ ~ thrown
  BY DEF BelowInv, Owning
<1> QED BY <1>1, <1>2, <1>3 DEF IInv

\* The pages of a live span and the used pages are heap pages.
LEMMA KnownPages ==
  ASSUME TypeOK, SpanInv
  PROVE  /\ \A p \in dirty : p \in Nat /\ arenaIndex(p) \in ArenaIdxs
         /\ \A t \in Threads : Owning(t) =>
              \A p \in start[t] .. end[t] - 1 : p \in Nat /\ arenaIndex(p) \in ArenaIdxs
<1>0. NumArenas * ArenaPages \in Nat
  BY ArenaPagesAssumption, NumArenasAssumption
<1>1. ASSUME NEW p \in dirty PROVE p \in Nat /\ arenaIndex(p) \in ArenaIdxs
  <2>1. p \in Nat /\ p < NumArenas * ArenaPages
    BY <1>0 DEF TypeOK, HeapPages
  <2> QED BY <2>1, HeapPageLemma
<1>2. ASSUME NEW t \in Threads, NEW p \in start[t] .. end[t] - 1
      PROVE  p \in Nat /\ arenaIndex(p) \in ArenaIdxs
  <2>1. p \in Nat /\ p < NumArenas * ArenaPages
    BY <1>0 DEF TypeOK
  <2> QED BY <2>1, HeapPageLemma
<1> QED BY <1>1, <1>2

\* A thread is done with its current arena: zeroedBase of that arena has
\* reached the thread's limit, whether the thread or another one raised it.
LEMMA AdvanceLemma ==
  ASSUME IInv, NEW t \in Threads, InLoop(t), NextArena(t),
         UNCHANGED <<dirty, spans, start, end, thrown>>,
         zeroedBase' \in [ArenaIdxs -> 0 .. ArenaPages],
         zeroedBase'[arenaIndex(base[t])] >= arenaLimit(t),
         \A a \in ArenaIdxs :
           \/ zeroedBase'[a] = zeroedBase[a]
           \/ /\ a = arenaIndex(base[t]) /\ zeroedBase'[a] = arenaLimit(t)
              /\ zeroedBase[a] < arenaLimit(t),
         seen' \in [Threads -> 0 .. ArenaPages],
         \A u \in Threads : u # t => seen'[u] = seen[u],
         needZero' \in [Threads -> BOOLEAN],
         \A u \in Threads : u # t => needZero'[u] = needZero[u],
         ~ needZero'[t] => \A p \in start[t] .. After(t) - 1 : p \notin dirty
  PROVE  IInv'
<1> USE DEF IInv
<1>1. /\ base' = [base EXCEPT ![t] = After(t)]
      /\ pc' = [pc EXCEPT ![t] = IF After(t) < end[t] THEN "load" ELSE "ready"]
  BY DEF NextArena, After
<1>2. /\ base[t] \in Nat /\ end[t] \in Nat /\ start[t] \in Nat /\ base[t] < end[t]
      /\ arenaIndex(base[t]) \in ArenaIdxs /\ arenaBase(base[t]) \in 0 .. ArenaPages - 1
      /\ arenaLimit(t) \in 1 .. ArenaPages /\ arenaBase(base[t]) < arenaLimit(t)
      /\ After(t) \in Nat /\ base[t] < After(t) /\ After(t) <= end[t]
      /\ \A p \in base[t] .. After(t) - 1 :
              /\ arenaIndex(p) = arenaIndex(base[t])
              /\ arenaBase(p) = arenaBase(base[t]) + (p - base[t])
              /\ arenaBase(p) < arenaLimit(t)
  BY SegmentLemma
<1>3. \A a \in ArenaIdxs : zeroedBase'[a] \in Nat /\ zeroedBase[a] \in Nat /\ zeroedBase'[a] >= zeroedBase[a]
  BY <1>2, ArenaPagesAssumption DEF TypeOK
<1>4. TypeOK'
  BY <1>1, <1>2 DEF TypeOK, Pcs
<1>5. SpanInv' /\ DisjointInv'
  BY <1>1, <1>2 DEF SpanInv, DisjointInv, Owning, InLoop, TypeOK
<1>6. BelowInv'
  <2>1. \A p \in dirty : Below(p)'
    BY <1>3, KnownPages, SplitLemma DEF BelowInv, Below
  <2>2. ASSUME NEW u \in Threads, Owning(u)', NEW p \in start[u] .. base'[u] - 1
        PROVE  Below(p)'
    <3>1. Owning(u) /\ start[u] \in Nat /\ base[u] \in Nat /\ base[u] <= end[u] /\ end[u] \in Nat
      BY <1>1, <1>2, <2>2 DEF Owning, InLoop, SpanInv, TypeOK
    <3>2. CASE p \in start[u] .. base[u] - 1
      <4>1. p \in start[u] .. end[u] - 1
        BY <3>1, <3>2
      <4>2. p \in Nat /\ arenaIndex(p) \in ArenaIdxs
        BY <3>1, <4>1, KnownPages
      <4>3. Below(p) /\ arenaBase(p) \in Nat
        BY <3>1, <3>2, <4>2, SplitLemma DEF BelowInv
      <4> QED BY <1>3, <4>2, <4>3 DEF Below
    <3>3. CASE p \notin start[u] .. base[u] - 1
      <4>1. u = t /\ p \in base[t] .. After(t) - 1
        BY <1>1, <1>2, <2>2, <3>1, <3>3 DEF TypeOK
      <4>2. arenaIndex(p) = arenaIndex(base[t]) /\ arenaBase(p) < arenaLimit(t) /\ arenaBase(p) \in Nat
        BY <1>2, <4>1, SplitLemma
      <4> QED BY <1>2, <1>3, <4>2, ArenaPagesAssumption DEF Below
    <3> QED BY <3>2, <3>3
  <2> QED BY <2>1, <2>2 DEF BelowInv
<1>7. SeenInv'
  <2> SUFFICES ASSUME NEW u \in Threads, Swapping(u)'
               PROVE  LET z == zeroedBase'[arenaIndex(base'[u])] IN
                      /\ seen'[u] <= z
                      /\ seen'[u] < arenaLimit(u)'
                      /\ z = seen'[u] \/ z <= arenaBase(base'[u]) \/ z > arenaLimit(u)'
                      /\ pc'[u] = "reload" => z # seen'[u]
    BY DEF SeenInv
  <2>1. u # t /\ Swapping(u) /\ InLoop(u) /\ Owning(u) /\ Owning(t)
    BY <1>1 DEF Swapping, InLoop, Owning, TypeOK
  <2>2. base'[u] = base[u] /\ pc'[u] = pc[u] /\ seen'[u] = seen[u] /\ arenaLimit(u)' = arenaLimit(u)
    BY <1>1, <2>1 DEF arenaLimit, TypeOK
  <2>3. /\ base[u] \in Nat /\ arenaIndex(base[u]) \in ArenaIdxs
        /\ arenaBase(base[u]) \in 0 .. ArenaPages - 1
        /\ arenaLimit(u) \in 1 .. ArenaPages
        /\ After(u) \in Nat /\ base[u] < After(u) /\ After(u) <= end[u]
    BY <2>1, SegmentLemma
  <2> DEFINE y == zeroedBase[arenaIndex(base[u])]
             z == zeroedBase'[arenaIndex(base[u])]
  <2>4. /\ seen[u] <= y /\ seen[u] < arenaLimit(u)
        /\ y = seen[u] \/ y <= arenaBase(base[u]) \/ y > arenaLimit(u)
        /\ pc[u] = "reload" => y # seen[u]
    BY <2>1 DEF SeenInv
  <2>5. seen[u] \in Nat /\ y \in Nat /\ z \in Nat
    BY <1>3, <2>3, ArenaPagesAssumption DEF TypeOK
  <2>6. CASE z = y
    BY <2>2, <2>4, <2>6
  <2>7. CASE z # y
    <3>1. arenaIndex(base[u]) = arenaIndex(base[t]) /\ z = arenaLimit(t) /\ y < arenaLimit(t)
      BY <2>3, <2>7
    <3>2. arenaBase(base[u]) - arenaBase(base[t]) = base[u] - base[t]
      BY <1>2, <2>3, <3>1, OffsetLemma
    <3>3. end[t] <= start[u] \/ end[u] <= start[t]
      BY <2>1 DEF DisjointInv
    <3>4. start[u] <= base[u] /\ start[t] <= base[t] /\ start[u] \in Nat /\ end[u] \in Nat
      BY <2>1, <2>3, ArenaPagesAssumption, NumArenasAssumption DEF SpanInv, TypeOK
    <3>5. After(t) <= base[u] \/ After(u) <= base[t]
      BY <1>2, <2>3, <3>3, <3>4
    <3>6. arenaLimit(t) <= arenaBase(base[u]) \/ arenaLimit(u) <= arenaBase(base[t])
      BY <1>2, <2>3, <3>2, <3>5 DEF After
    <3>7. z <= arenaBase(base[u]) \/ z > arenaLimit(u)
      BY <1>2, <2>3, <3>1, <3>6
    <3> QED BY <1>2, <2>2, <2>4, <2>5, <3>1, <3>7
  <2> QED BY <2>6, <2>7
<1>8. UnusedInv'
  <2> SUFFICES ASSUME NEW u \in Threads, Owning(u)', pc'[u] # "inuse", ~ needZero'[u],
                      NEW p \in start[u] .. Examined(u)' - 1
               PROVE  p \notin dirty
    BY DEF UnusedInv
  <2>1. CASE u = t
    <3>1. Examined(u)' = After(t)
      BY <1>1, <1>2, <2>1 DEF Examined, Swapping, TypeOK
    <3> QED BY <2>1, <3>1
  <2>2. CASE u # t
    <3>1. Examined(u)' = Examined(u) /\ pc'[u] = pc[u] /\ needZero'[u] = needZero[u]
      BY <1>1, <2>2 DEF Examined, Swapping, After, arenaLimit, TypeOK
    <3> QED BY <2>2, <3>1 DEF UnusedInv, Owning
  <2> QED BY <2>1, <2>2
<1> QED BY <1>4, <1>5, <1>6, <1>7, <1>8

\* A thread goes to its compare-and-swap with the zeroedBase it has just read.
LEMMA ToSwapLemma ==
  ASSUME IInv, NEW t \in Threads, InLoop(t),
         pc' = [pc EXCEPT ![t] = "cas"],
         UNCHANGED <<zeroedBase, dirty, spans, start, end, base, thrown>>,
         seen' = [seen EXCEPT ![t] = zeroedBase[arenaIndex(base[t])]],
         arenaLimit(t) > zeroedBase[arenaIndex(base[t])],
         needZero' \in [Threads -> BOOLEAN],
         \A u \in Threads : u # t => needZero'[u] = needZero[u],
         ~ needZero'[t] => \A p \in start[t] .. After(t) - 1 : p \notin dirty
  PROVE  IInv'
<1> USE DEF IInv
<1>1. /\ arenaIndex(base[t]) \in ArenaIdxs
      /\ zeroedBase[arenaIndex(base[t])] \in 0 .. ArenaPages
  BY SegmentLemma DEF TypeOK
<1>2. TypeOK'
  BY <1>1 DEF TypeOK, Pcs
<1>3. SpanInv' /\ DisjointInv' /\ BelowInv'
  BY DEF SpanInv, DisjointInv, BelowInv, Below, Owning, InLoop, TypeOK
<1>4. \A u \in Threads : arenaLimit(u)' = arenaLimit(u) /\ After(u)' = After(u)
  BY DEF After, arenaLimit
<1>5. SeenInv'
  <2> SUFFICES ASSUME NEW u \in Threads, Swapping(u)'
               PROVE  LET z == zeroedBase[arenaIndex(base[u])] IN
                      /\ seen'[u] <= z
                      /\ seen'[u] < arenaLimit(u)
                      /\ z = seen'[u] \/ z <= arenaBase(base[u]) \/ z > arenaLimit(u)
                      /\ pc'[u] = "reload" => z # seen'[u]
    BY <1>4 DEF SeenInv
  <2>1. CASE u = t
    BY <1>1, <2>1, SegmentLemma, ArenaPagesAssumption DEF TypeOK
  <2>2. CASE u # t
    BY <2>2 DEF SeenInv, Swapping, TypeOK
  <2> QED BY <2>1, <2>2
<1>6. UnusedInv'
  <2> SUFFICES ASSUME NEW u \in Threads, Owning(u)', pc'[u] # "inuse", ~ needZero'[u],
                      NEW p \in start[u] .. Examined(u)' - 1
               PROVE  p \notin dirty
    BY DEF UnusedInv
  <2>1. CASE u = t
    <3>1. Examined(u)' = After(t)
      BY <1>4, <2>1 DEF Examined, Swapping, TypeOK
    <3> QED BY <2>1, <3>1
  <2>2. CASE u # t
    <3>1. Examined(u)' = Examined(u) /\ pc'[u] = pc[u] /\ needZero'[u] = needZero[u]
      BY <1>4, <2>2 DEF Examined, Swapping, TypeOK
    <3> QED BY <2>2, <3>1 DEF UnusedInv, Owning
  <2> QED BY <2>1, <2>2
<1> QED BY <1>2, <1>3, <1>5, <1>6

\* If the load finds base at or above zeroedBase, the pages up to the limit
\* have never been used.
LEMMA UnusedLemma ==
  ASSUME IInv, NEW t \in Threads, pc[t] = "load", ~ needZero[t],
         ~ BelowZeroed(t, zeroedBase[arenaIndex(base[t])])
  PROVE  \A p \in start[t] .. After(t) - 1 : p \notin dirty
<1> USE DEF IInv
<1> SUFFICES ASSUME NEW p \in start[t] .. After(t) - 1, p \in dirty PROVE FALSE
  OBVIOUS
<1>1. InLoop(t) /\ Owning(t) /\ Examined(t) = base[t]
  BY DEF InLoop, Owning, Examined, Swapping
<1>2. base[t] \in Nat /\ start[t] \in Nat /\ After(t) \in Nat
  BY <1>1, SegmentLemma
<1>3. p \in base[t] .. After(t) - 1
  BY <1>1, <1>2 DEF UnusedInv
<1>4. arenaIndex(p) = arenaIndex(base[t]) /\ arenaBase(p) = arenaBase(base[t]) + (p - base[t])
  BY <1>1, <1>3, SegmentLemma
<1>5. /\ arenaBase(p) < zeroedBase[arenaIndex(base[t])]
      /\ zeroedBase[arenaIndex(base[t])] \in Nat /\ arenaBase(base[t]) \in Nat
  BY <1>1, <1>4, SegmentLemma, ArenaPagesAssumption DEF BelowInv, Below, TypeOK
<1> QED BY <1>2, <1>3, <1>4, <1>5 DEF BelowZeroed

\* A new span: its pages are nobody else's, and none is examined yet.
LEMMA InitSpanLemma ==
  ASSUME IInv, NEW t \in Threads, InitSpan(t)
  PROVE  IInv'
<1> USE DEF IInv
<1>0. NumArenas * ArenaPages \in Nat
  BY ArenaPagesAssumption, NumArenasAssumption
<1>1. /\ pc[t] = "idle" /\ spans < MaxSpans /\ spans' = spans + 1
      /\ pc' = [pc EXCEPT ![t] = "load"]
      /\ UNCHANGED <<zeroedBase, dirty, seen, needZero, thrown>>
  BY DEF InitSpan, At
<1>2. PICK lo \in HeapPages, hi \in 1 .. NumArenas * ArenaPages :
        /\ lo < hi /\ Free(lo, hi)
        /\ start' = [start EXCEPT ![t] = lo]
        /\ end' = [end EXCEPT ![t] = hi]
        /\ base' = [base EXCEPT ![t] = lo]
  BY DEF InitSpan
<1>3. lo \in Nat /\ hi \in Nat /\ hi <= NumArenas * ArenaPages
  BY <1>0 DEF HeapPages
<1>4. TypeOK'
  BY <1>0, <1>1, <1>2, <1>3, MaxSpansAssumption DEF TypeOK, Pcs
<1>5. SpanInv'
  BY <1>1, <1>2, <1>3 DEF SpanInv, Owning, InLoop, TypeOK
<1>6. DisjointInv'
  BY <1>1, <1>2, <1>3 DEF DisjointInv, Free, Owning, TypeOK
<1>7. BelowInv'
  <2>1. \A p \in dirty' : Below(p)'
    BY <1>1 DEF BelowInv, Below
  <2>2. ASSUME NEW u \in Threads, Owning(u)', NEW p \in start'[u] .. base'[u] - 1
        PROVE  Below(p)'
    <3>1. u # t
      BY <1>2, <1>3, <2>2 DEF TypeOK
    <3>2. Owning(u) /\ start'[u] = start[u] /\ base'[u] = base[u]
      BY <1>1, <1>2, <2>2, <3>1 DEF Owning, TypeOK
    <3> QED BY <1>1, <2>2, <3>2 DEF BelowInv, Below
  <2> QED BY <2>1, <2>2 DEF BelowInv
<1>8. SeenInv'
  <2> SUFFICES ASSUME NEW u \in Threads, Swapping(u)'
               PROVE  LET z == zeroedBase'[arenaIndex(base'[u])] IN
                      /\ seen'[u] <= z
                      /\ seen'[u] < arenaLimit(u)'
                      /\ z = seen'[u] \/ z <= arenaBase(base'[u]) \/ z > arenaLimit(u)'
                      /\ pc'[u] = "reload" => z # seen'[u]
    BY DEF SeenInv
  <2>1. u # t /\ Swapping(u)
    BY <1>1 DEF Swapping, TypeOK
  <2>2. /\ base'[u] = base[u] /\ pc'[u] = pc[u] /\ arenaLimit(u)' = arenaLimit(u)
        /\ UNCHANGED <<zeroedBase, seen>>
    BY <1>1, <1>2, <2>1 DEF arenaLimit, TypeOK
  <2> QED BY <2>1, <2>2 DEF SeenInv
<1>9. UnusedInv'
  <2> SUFFICES ASSUME NEW u \in Threads, Owning(u)', pc'[u] # "inuse", ~ needZero'[u],
                      NEW p \in start'[u] .. Examined(u)' - 1
               PROVE  p \notin dirty'
    BY DEF UnusedInv
  <2>1. CASE u = t
    <3>1. Examined(u)' = lo /\ start'[u] = lo
      BY <1>1, <1>2, <2>1 DEF Examined, Swapping, TypeOK
    <3> QED BY <1>3, <3>1
  <2>2. CASE u # t
    <3>1. /\ Examined(u)' = Examined(u) /\ pc'[u] = pc[u] /\ start'[u] = start[u]
          /\ UNCHANGED <<needZero, dirty>>
      BY <1>1, <1>2, <2>2 DEF Examined, Swapping, After, arenaLimit, TypeOK
    <3> QED BY <2>2, <3>1 DEF UnusedInv, Owning
  <2> QED BY <2>1, <2>2
<1> QED BY <1>1, <1>4, <1>5, <1>6, <1>7, <1>8, <1>9

\* The first load of the loop body.
LEMMA LoadLemma ==
  ASSUME IInv, NEW t \in Threads, LoadZeroedBase(t)
  PROVE  IInv'
<1> USE DEF IInv
<1> DEFINE z == zeroedBase[arenaIndex(base[t])]
<1>1. /\ pc[t] = "load" /\ InLoop(t)
      /\ seen' = [seen EXCEPT ![t] = z]
      /\ needZero' = [needZero EXCEPT ![t] = @ \/ BelowZeroed(t, z)]
      /\ Raise(t, z)
      /\ UNCHANGED <<zeroedBase, dirty, spans, start, end, thrown>>
  BY DEF LoadZeroedBase, At, InLoop, span
<1>2. z \in 0 .. ArenaPages /\ arenaLimit(t) \in 1 .. ArenaPages
  BY <1>1, SegmentLemma DEF TypeOK
<1>3. /\ needZero' \in [Threads -> BOOLEAN]
      /\ \A u \in Threads : u # t => needZero'[u] = needZero[u]
      /\ ~ needZero'[t] => ~ needZero[t] /\ ~ BelowZeroed(t, z)
  BY <1>1 DEF TypeOK, BelowZeroed
<1>4. ~ needZero'[t] => \A p \in start[t] .. After(t) - 1 : p \notin dirty
  BY <1>1, <1>3, UnusedLemma
<1>5. /\ seen' \in [Threads -> 0 .. ArenaPages]
      /\ \A u \in Threads : u # t => seen'[u] = seen[u]
  BY <1>1, <1>2 DEF TypeOK
<1>6. CASE arenaLimit(t) > z
  <2>1. pc' = [pc EXCEPT ![t] = "cas"] /\ UNCHANGED base
    BY <1>1, <1>6 DEF Raise
  <2> QED BY <1>1, <1>3, <1>4, <1>6, <2>1, ToSwapLemma
<1>7. CASE ~ (arenaLimit(t) > z)
  <2>1. NextArena(t)
    BY <1>1, <1>7 DEF Raise
  <2>2. zeroedBase'[arenaIndex(base[t])] >= arenaLimit(t)
    BY <1>1, <1>2, <1>7, ArenaPagesAssumption
  <2>3. zeroedBase' \in [ArenaIdxs -> 0 .. ArenaPages] /\ \A a \in ArenaIdxs : zeroedBase'[a] = zeroedBase[a]
    BY <1>1 DEF TypeOK
  <2> QED BY <1>1, <1>3, <1>4, <1>5, <2>1, <2>2, <2>3, AdvanceLemma
<1> QED BY <1>6, <1>7

\* The compare-and-swap: it succeeds on the value read, or somebody raised it.
LEMMA CasLemma ==
  ASSUME IInv, NEW t \in Threads, CasZeroedBase(t)
  PROVE  IInv'
<1> USE DEF IInv
<1> DEFINE a == arenaIndex(base[t])
<1>1. /\ pc[t] = "cas" /\ InLoop(t) /\ Swapping(t) /\ Owning(t)
      /\ UNCHANGED <<dirty, spans, start, end, seen, needZero, thrown>>
  BY DEF CasZeroedBase, At, InLoop, Swapping, Owning, span
<1>2. a \in ArenaIdxs /\ arenaLimit(t) \in 1 .. ArenaPages
  BY <1>1, SegmentLemma
<1>3. seen[t] <= zeroedBase[a] /\ seen[t] < arenaLimit(t)
  BY <1>1 DEF SeenInv
<1>4. ~ needZero[t] => \A p \in start[t] .. After(t) - 1 : p \notin dirty
  BY <1>1 DEF UnusedInv, Examined
<1>5. CASE zeroedBase[a] = seen[t]
  <2>1. zeroedBase' = [zeroedBase EXCEPT ![a] = arenaLimit(t)] /\ NextArena(t)
    BY <1>5 DEF CasZeroedBase
  <2>2. zeroedBase' \in [ArenaIdxs -> 0 .. ArenaPages] /\ zeroedBase'[a] = arenaLimit(t)
    BY <1>2, <2>1 DEF TypeOK
  <2>3. zeroedBase'[arenaIndex(base[t])] >= arenaLimit(t)
    BY <1>2, <2>2
  <2>4. \A b \in ArenaIdxs :
           \/ zeroedBase'[b] = zeroedBase[b]
           \/ /\ b = arenaIndex(base[t]) /\ zeroedBase'[b] = arenaLimit(t)
              /\ zeroedBase[b] < arenaLimit(t)
    BY <1>2, <1>3, <1>5, <2>1 DEF TypeOK
  <2>5. seen' \in [Threads -> 0 .. ArenaPages] /\ needZero' \in [Threads -> BOOLEAN]
    BY <1>1 DEF TypeOK
  <2> QED BY <1>1, <1>4, <2>1, <2>2, <2>3, <2>4, <2>5, AdvanceLemma
<1>6. CASE zeroedBase[a] # seen[t]
  <2>1. pc' = [pc EXCEPT ![t] = "reload"] /\ UNCHANGED <<zeroedBase, base>>
    BY <1>6 DEF CasZeroedBase
  <2>2. TypeOK'
    BY <1>1, <2>1 DEF TypeOK, Pcs
  <2>3. SpanInv' /\ DisjointInv' /\ BelowInv'
    BY <1>1, <2>1 DEF SpanInv, DisjointInv, BelowInv, Below, Owning, InLoop, TypeOK
  <2>4. \A u \in Threads : arenaLimit(u)' = arenaLimit(u) /\ After(u)' = After(u)
    BY <1>1, <2>1 DEF After, arenaLimit
  <2>5. SeenInv'
    BY <1>1, <1>6, <2>1, <2>4 DEF SeenInv, Swapping, TypeOK
  <2>6. UnusedInv'
    BY <1>1, <2>1, <2>4 DEF UnusedInv, Examined, Swapping, Owning, TypeOK
  <2> QED BY <1>1, <2>2, <2>3, <2>5, <2>6
<1> QED BY <1>5, <1>6

\* The load after a failed swap: the check that would throw is false.
LEMMA ReloadLemma ==
  ASSUME IInv, NEW t \in Threads, ReloadZeroedBase(t)
  PROVE  IInv'
<1> USE DEF IInv
<1> DEFINE z == zeroedBase[arenaIndex(base[t])]
<1>1. /\ pc[t] = "reload" /\ InLoop(t) /\ Swapping(t) /\ Owning(t)
      /\ seen' = [seen EXCEPT ![t] = z]
      /\ UNCHANGED <<zeroedBase, dirty, spans, start, end, needZero>>
  BY DEF ReloadZeroedBase, At, InLoop, Swapping, Owning, span
<1>2. /\ z \in 0 .. ArenaPages /\ arenaLimit(t) \in 1 .. ArenaPages
      /\ arenaBase(base[t]) \in 0 .. ArenaPages - 1
  BY <1>1, SegmentLemma DEF TypeOK
<1>3. z <= arenaBase(base[t]) \/ z > arenaLimit(t)
  BY <1>1 DEF SeenInv
<1>4. Raise(t, z) /\ UNCHANGED thrown
  BY <1>2, <1>3, ArenaPagesAssumption DEF ReloadZeroedBase, Intruded
<1>5. ~ needZero[t] => \A p \in start[t] .. After(t) - 1 : p \notin dirty
  BY <1>1 DEF UnusedInv, Examined
<1>6. needZero' \in [Threads -> BOOLEAN]
  BY <1>1 DEF TypeOK
<1>7. /\ seen' \in [Threads -> 0 .. ArenaPages]
      /\ \A u \in Threads : u # t => seen'[u] = seen[u]
  BY <1>1, <1>2 DEF TypeOK
<1>8. CASE arenaLimit(t) > z
  <2>1. pc' = [pc EXCEPT ![t] = "cas"] /\ UNCHANGED base
    BY <1>4, <1>8 DEF Raise
  <2> QED BY <1>1, <1>4, <1>5, <1>6, <1>8, <2>1, ToSwapLemma
<1>9. CASE ~ (arenaLimit(t) > z)
  <2>1. NextArena(t)
    BY <1>4, <1>9 DEF Raise
  <2>2. zeroedBase'[arenaIndex(base[t])] >= arenaLimit(t)
    BY <1>1, <1>2, <1>9, ArenaPagesAssumption
  <2>3. zeroedBase' \in [ArenaIdxs -> 0 .. ArenaPages] /\ \A a \in ArenaIdxs : zeroedBase'[a] = zeroedBase[a]
    BY <1>1 DEF TypeOK
  <2> QED BY <1>1, <1>4, <1>5, <1>6, <1>7, <2>1, <2>2, <2>3, AdvanceLemma
<1> QED BY <1>8, <1>9

\* The mutator dirties pages that are its own and below zeroedBase.
LEMMA UseLemma ==
  ASSUME IInv, NEW t \in Threads, UseSpan(t)
  PROVE  IInv'
<1> USE DEF IInv
<1>1. /\ pc[t] = "ready" /\ Owning(t) /\ ~ InLoop(t)
      /\ dirty' = dirty \cup Pages(t) /\ pc' = [pc EXCEPT ![t] = "inuse"]
      /\ UNCHANGED <<zeroedBase, spans, start, end, base, seen, needZero, thrown>>
  BY DEF UseSpan, At, Owning, InLoop, span
<1>0. NumArenas * ArenaPages \in Nat
  BY ArenaPagesAssumption, NumArenasAssumption
<1>2. Pages(t) \subseteq HeapPages
  BY <1>0 DEF Pages, HeapPages, TypeOK
<1>3. TypeOK'
  BY <1>1, <1>2 DEF TypeOK, Pcs
<1>4. SpanInv' /\ DisjointInv'
  BY <1>1 DEF SpanInv, DisjointInv, Owning, InLoop, TypeOK
<1>5. base[t] = end[t]
  BY <1>1 DEF SpanInv
<1>6. BelowInv'
  BY <1>1, <1>5 DEF BelowInv, Below, Owning, Pages, TypeOK
<1>7. \A u \in Threads : arenaLimit(u)' = arenaLimit(u) /\ After(u)' = After(u)
  BY <1>1 DEF After, arenaLimit
<1>8. SeenInv'
  BY <1>1, <1>7 DEF SeenInv, Swapping, TypeOK
<1>9. UnusedInv'
  <2> SUFFICES ASSUME NEW u \in Threads, Owning(u)', pc'[u] # "inuse", ~ needZero[u],
                      NEW p \in start[u] .. Examined(u)' - 1
               PROVE  p \notin dirty'
    BY <1>1 DEF UnusedInv
  <2>1. u # t /\ Owning(u) /\ pc'[u] = pc[u] /\ Examined(u)' = Examined(u)
    BY <1>1, <1>7 DEF Owning, Examined, Swapping, TypeOK
  <2>2. p \notin dirty
    BY <2>1 DEF UnusedInv
  <2>3. /\ start[u] \in Nat /\ end[u] \in Nat /\ start[t] \in Nat /\ end[t] \in Nat
        /\ Examined(u) \in Nat /\ Examined(u) <= end[u]
    <3>1. CASE Swapping(u)
      <4>1. InLoop(u) /\ Examined(u) = After(u)
        BY <3>1 DEF InLoop, Swapping, Examined
      <4> QED BY <1>0, <4>1, SegmentLemma DEF TypeOK
    <3>2. CASE ~ Swapping(u)
      BY <1>0, <2>1, <3>2 DEF Examined, SpanInv, TypeOK
    <3> QED BY <3>1, <3>2
  <2>4. p \notin Pages(t)
    BY <1>1, <2>1, <2>3 DEF DisjointInv, Pages
  <2> QED BY <1>1, <2>2, <2>4
<1> QED BY <1>1, <1>3, <1>4, <1>6, <1>8, <1>9

\* A freed span leaves its pages below zeroedBase.
LEMMA FreeLemma ==
  ASSUME IInv, NEW t \in Threads, FreeSpan(t)
  PROVE  IInv'
<1> USE DEF IInv
<1>0. NumArenas * ArenaPages \in Nat
  BY ArenaPagesAssumption, NumArenasAssumption
<1>1. /\ pc' = [pc EXCEPT ![t] = "idle"]
      /\ start' = [start EXCEPT ![t] = 0] /\ end' = [end EXCEPT ![t] = 0]
      /\ base' = [base EXCEPT ![t] = 0] /\ seen' = [seen EXCEPT ![t] = 0]
      /\ needZero' = [needZero EXCEPT ![t] = FALSE]
      /\ UNCHANGED <<zeroedBase, dirty, spans, thrown>>
  BY DEF FreeSpan
<1>2. TypeOK'
  <2>1. needZero' \in [Threads -> BOOLEAN]
    BY <1>1 DEF TypeOK
  <2> QED BY <1>0, <1>1, <2>1, ArenaPagesAssumption DEF TypeOK, Pcs
<1>3. SpanInv' /\ DisjointInv'
  BY <1>1 DEF SpanInv, DisjointInv, Owning, InLoop, TypeOK
<1>4. BelowInv'
  BY <1>1 DEF BelowInv, Below, Owning, TypeOK
<1>5. ASSUME NEW u \in Threads, u # t
      PROVE  /\ pc'[u] = pc[u] /\ start'[u] = start[u] /\ end'[u] = end[u]
             /\ base'[u] = base[u] /\ seen'[u] = seen[u] /\ needZero'[u] = needZero[u]
             /\ arenaLimit(u)' = arenaLimit(u) /\ Examined(u)' = Examined(u)
  BY <1>1, <1>5 DEF Examined, Swapping, After, arenaLimit, TypeOK
<1>6. pc'[t] = "idle"
  BY <1>1 DEF TypeOK
<1>7. SeenInv'
  BY <1>1, <1>5, <1>6 DEF SeenInv, Swapping
<1>8. UnusedInv'
  BY <1>1, <1>5, <1>6 DEF UnusedInv, Owning
<1> QED BY <1>1, <1>2, <1>3, <1>4, <1>7, <1>8

\* IInv is an invariant of SpanZeroing.
THEOREM Invariance == Spec => []IInv
<1>1. IInv /\ [Next]_vars => IInv'
  <2> SUFFICES ASSUME IInv, [Next]_vars PROVE IInv'
    OBVIOUS
  <2>1. CASE UNCHANGED vars
    BY <2>1 DEF vars, IInv, TypeOK, SpanInv, DisjointInv, BelowInv, Below, SeenInv, UnusedInv,
                Owning, InLoop, Swapping, Examined, After, arenaLimit
  <2>2. ASSUME NEW t \in Threads,
               InitSpan(t) \/ InAllocNeedsZero(t) \/ UseSpan(t) \/ FreeSpan(t)
        PROVE  IInv'
    BY <2>2, InitSpanLemma, LoadLemma, CasLemma, ReloadLemma, UseLemma, FreeLemma
       DEF InAllocNeedsZero
  <2> QED BY <2>1, <2>2 DEF Next, Stopped
<1> QED BY <1>1, InitLemma, PTL DEF Spec

\* Every variable keeps its type: allocNeedsZero never stores a zeroedBase
\* beyond the end of an arena, and only pages of the heap are ever used.
THEOREM TypeCorrect == Spec => []TypeOK
<1>1. IInv => TypeOK
  BY DEF IInv
<1> QED BY <1>1, Invariance, PTL

\* A span that initSpan hands out without needzero has only pages that nobody
\* ever used: for any number of threads and arenas.
THEOREM NeedZeroIsSound == Spec => []NeedZeroSound
<1>1. IInv => NeedZeroSound
  <2> SUFFICES ASSUME IInv, NEW t \in Threads, pc[t] = "ready", ~ needZero[t]
               PROVE  Pages(t) \cap dirty = {}
    BY DEF NeedZeroSound
  <2>1. Owning(t) /\ Examined(t) = end[t]
    BY DEF IInv, SpanInv, Owning, InLoop, Examined, Swapping
  <2> QED BY <2>1 DEF IInv, UnusedInv, Pages
<1> QED BY <1>1, Invariance, PTL

\* allocNeedsZero never reports overlapping allocations when there are none.
THEOREM OverlapCheckSound == Spec => []NoFalseAlarm
<1>1. IInv => NoFalseAlarm
  BY DEF IInv, NoFalseAlarm
<1> QED BY <1>1, Invariance, PTL

\* zeroedBase "increases monotonically": a swap succeeds only on the value the
\* thread read, which is below the limit it stores, however stale its other
\* knowledge is; for any number of threads and arenas.
THEOREM ZeroedBaseRises == Spec => ZeroedBaseMonotone
<1> DEFINE Rises == \A a \in ArenaIdxs : zeroedBase'[a] >= zeroedBase[a]
<1>1. ASSUME TypeOK, zeroedBase' = zeroedBase PROVE Rises
  BY <1>1, ArenaPagesAssumption DEF TypeOK
<1>2. ASSUME IInv, NEW t \in Threads, CasZeroedBase(t) PROVE Rises
  <2>1. Swapping(t) /\ InLoop(t)
    BY <1>2 DEF CasZeroedBase, At, Swapping, InLoop
  <2>2. /\ arenaIndex(base[t]) \in ArenaIdxs /\ arenaLimit(t) \in 1 .. ArenaPages
        /\ seen[t] < arenaLimit(t)
    BY <1>2, <2>1, SegmentLemma DEF IInv, SeenInv
  <2>3. CASE zeroedBase[arenaIndex(base[t])] = seen[t]
    BY <1>2, <2>2, <2>3, ArenaPagesAssumption DEF CasZeroedBase, IInv, TypeOK
  <2>4. CASE zeroedBase[arenaIndex(base[t])] # seen[t]
    BY <1>1, <1>2, <2>4 DEF CasZeroedBase, IInv
  <2> QED BY <2>3, <2>4
<1>3. IInv /\ [Next]_vars => [Rises]_vars
  <2> SUFFICES ASSUME IInv, Next PROVE Rises
    OBVIOUS
  <2>1. CASE Stopped
    BY <1>1, <2>1 DEF Stopped, vars, IInv
  <2>2. ASSUME NEW t \in Threads,
               InitSpan(t) \/ InAllocNeedsZero(t) \/ UseSpan(t) \/ FreeSpan(t)
        PROVE  Rises
    <3>1. CASE CasZeroedBase(t)
      BY <1>2, <3>1
    <3>2. CASE ~ CasZeroedBase(t)
      <4>1. zeroedBase' = zeroedBase
        BY <2>2, <3>2 DEF InitSpan, InAllocNeedsZero, LoadZeroedBase, ReloadZeroedBase,
                          UseSpan, FreeSpan
      <4> QED BY <1>1, <4>1 DEF IInv
    <3> QED BY <3>1, <3>2
  <2> QED BY <2>1, <2>2 DEF Next
<1> QED BY <1>3, Invariance, PTL DEF Spec, ZeroedBaseMonotone
=============================================================================
