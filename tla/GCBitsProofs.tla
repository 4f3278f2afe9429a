---------------------------- MODULE GCBitsProofs ----------------------------
(***************************************************************************)
(* Proofs about GCBits, for any finite set of threads, any arenas and any  *)
(* length of an arena.  The inductive invariant IInv gives that no two     *)
(* bitmaps overlap and that newMarkBits never throws "markBits overflow";  *)
(* on top of it come that no arena is lost (KeptInv), how far a free index *)
(* can overshoot (FlightInv), and that the allocator implements            *)
(* BitmapService (Aligned).                                                *)
(***************************************************************************)
EXTENDS GCBits, FiniteSetTheorems, TLAPS

\* A thread runs tryAlloc.
Trying(t) == pc[t] \in {"check", "xadd"}

\* A thread is between lock and unlock of gcBitsArenas.lock.
Holding(t) == pc[t] = "newArena" \/ (Trying(t) /\ site[t] # "head")

\* A thread has a fresh arena that no list holds.
HasFresh(t) == pc[t] = "relock" \/ (Trying(t) /\ site[t] \in {"again", "fresh"})

\* A list has no arena twice.
Distinct(s) == \A i, j \in 1 .. Len(s) : s[i] = s[j] => i = j

\* The lock is held exactly by the thread that is between lock and unlock.
LockInv == \A t \in Threads : Holding(t) <=> lock = t

\* A running request is for at least one byte, fits an empty arena, and belongs
\* to a call that was counted.
NeedInv ==
  \A t \in Threads :
    pc[t] # "idle" => need[t] > 0 /\ need[t] <= BitsLen /\ call[t] > 0

\* tryAlloc runs on a published arena, or on the thread's own fresh one.
ArenaInv ==
  \A t \in Threads :
    /\ pc[t] = "xadd" => arena[t] # Nil
    /\ (Trying(t) /\ site[t] = "fresh") => arena[t] = fresh[t]
    /\ (Trying(t) /\ site[t] # "fresh" /\ arena[t] # Nil) => arena[t] \in Range(nextList)

\* Lists hold mapped arenas, once each, and no arena is on both.
ListInv ==
  /\ Range(nextList) \subseteq mapped
  /\ Range(freeList) \subseteq mapped
  /\ Range(nextList) \cap Range(freeList) = {}
  /\ Distinct(freeList)

\* A fresh arena is mapped, on no list, in one thread's hands, and empty once
\* the thread has the lock again.
FreshInv ==
  \A t \in Threads :
    /\ HasFresh(t) <=> fresh[t] # Nil
    /\ fresh[t] # Nil =>
         /\ fresh[t] \in mapped
         /\ fresh[t] \notin Range(nextList)
         /\ fresh[t] \notin Range(freeList)
         /\ \A u \in Threads : fresh[u] = fresh[t] => u = t
    /\ (HasFresh(t) /\ pc[t] # "relock") => free[fresh[t]] = 0

\* A bitmap lies below the free index of a published arena.
BitmapInv ==
  \A m \in bitmaps :
    m.arena \in Range(nextList) /\ m.start < m.end /\ m.end <= free[m.arena]

IInv ==
  /\ TypeOK /\ LockInv /\ NeedInv /\ ArenaInv /\ ListInv /\ FreshInv /\ BitmapInv
  /\ NoOverlap /\ FreshNeverFull
-----------------------------------------------------------------------------
(***************************************************************************)
(* Lists: pushing an arena on one, popping its head.                       *)
(***************************************************************************)
\* Pushing a fresh arena (`fresh.next = head; head = fresh') adds it, and only
\* it, to the list.
LEMMA PushLemma ==
  ASSUME NEW S, NEW s \in Seq(S), NEW a \in S
  PROVE  /\ <<a>> \o s \in Seq(S)
         /\ Range(<<a>> \o s) = {a} \cup Range(s)
         /\ (Distinct(s) /\ a \notin Range(s)) => Distinct(<<a>> \o s)
<1> DEFINE r == <<a>> \o s
<1>1. r \in Seq(S) /\ Len(r) = Len(s) + 1 /\ Len(s) \in Nat
  OBVIOUS
<1>2. r[1] = a /\ \A i \in 1 .. Len(s) : r[i + 1] = s[i]
  OBVIOUS
<1>3. \A i \in 1 .. Len(r) : i = 1 \/ (i - 1 \in 1 .. Len(s) /\ r[i] = s[i - 1])
  BY <1>1
<1> HIDE DEF r
<1>4. Range(r) \subseteq {a} \cup Range(s)
  BY <1>1, <1>2, <1>3 DEF Range
<1>5. a \in Range(r)
  BY <1>1, <1>2 DEF Range
<1>6. Range(s) \subseteq Range(r)
  <2> SUFFICES ASSUME NEW x \in Range(s) PROVE x \in Range(r)
    OBVIOUS
  <2>1. PICK i \in 1 .. Len(s) : x = s[i]
    BY DEF Range
  <2>2. i + 1 \in 1 .. Len(r) /\ x = r[i + 1]
    BY <1>1, <1>2, <2>1
  <2> QED BY <2>2 DEF Range
<1>7. ASSUME Distinct(s), a \notin Range(s)  PROVE Distinct(r)
  <2> SUFFICES ASSUME NEW i \in 1 .. Len(r), NEW j \in 1 .. Len(r), r[i] = r[j]
               PROVE  i = j
    BY DEF Distinct
  <2>1. \A k \in 1 .. Len(r) : k # 1 => r[k] \in Range(s)
    BY <1>3 DEF Range
  <2>2. (i = 1) <=> (j = 1)
    BY <1>2, <1>7, <2>1
  <2>3. CASE i # 1
    <3>1. /\ i - 1 \in 1 .. Len(s) /\ r[i] = s[i - 1]
          /\ j - 1 \in 1 .. Len(s) /\ r[j] = s[j - 1]
      BY <1>3, <2>2, <2>3
    <3>2. i - 1 = j - 1
      BY <1>7, <3>1 DEF Distinct
    <3> QED BY <1>1, <3>2
  <2> QED BY <2>2, <2>3
<1> QED BY <1>1, <1>4, <1>5, <1>6, <1>7 DEF r

\* Popping the head (`result = head; head = head.next') removes it, and only it.
LEMMA PopLemma ==
  ASSUME NEW S, NEW s \in Seq(S), s # <<>>
  PROVE  /\ Head(s) \in S /\ Head(s) \in Range(s)
         /\ Tail(s) \in Seq(S)
         /\ Range(Tail(s)) \subseteq Range(s)
         /\ Distinct(s) => Distinct(Tail(s)) /\ Head(s) \notin Range(Tail(s))
<1> DEFINE r == Tail(s)
<1>1. Len(s) \in Nat /\ Len(s) > 0 /\ r \in Seq(S) /\ Len(r) = Len(s) - 1
  OBVIOUS
<1>2. Head(s) = s[1] /\ \A i \in 1 .. Len(r) : r[i] = s[i + 1]
  OBVIOUS
<1> HIDE DEF r
<1>3. Head(s) \in S /\ Head(s) \in Range(s)
  BY <1>1, <1>2 DEF Range
<1>4. \A i \in 1 .. Len(r) : i + 1 \in 1 .. Len(s)
  BY <1>1
<1>5. Range(r) \subseteq Range(s)
  BY <1>2, <1>4 DEF Range
<1>6. ASSUME Distinct(s)  PROVE Distinct(r) /\ Head(s) \notin Range(r)
  BY <1>1, <1>2, <1>4, <1>6 DEF Distinct, Range
<1> QED BY <1>1, <1>3, <1>5, <1>6 DEF r

\* The head of a list is on it, or the list is empty.
LEMMA HeadOfLemma ==
  ASSUME NEW s \in Seq(Arenas)
  PROVE  HeadOf(s) \in Arenas \cup {Nil} /\ (HeadOf(s) # Nil => HeadOf(s) \in Range(s))
BY PopLemma DEF HeadOf

\* A request rounds up to a positive number of whole blocks and fits an arena.
LEMMA BytesNeededLemma ==
  ASSUME NEW n \in NElems
  PROVE  BytesNeeded(n) \in Nat /\ BytesNeeded(n) > 0 /\ BytesNeeded(n) <= BitsLen
<1>1. n \in Nat /\ n > 0 /\ BytesNeeded(n) <= BitsLen
  BY NElemsAssumption
<1>2. (n + 63) \div 64 \in Nat /\ (n + 63) \div 64 > 0
  BY <1>1
<1> QED BY <1>1, <1>2 DEF BytesNeeded
-----------------------------------------------------------------------------
(***************************************************************************)
(* The inductive invariant.                                                *)
(***************************************************************************)
\* Initially there is no arena, no request and no bitmap.
LEMMA InitLemma == Init => IInv
<1> SUFFICES ASSUME Init PROVE IInv
  OBVIOUS
<1> USE DEF Init
<1>1. TypeOK
  BY MaxCallsAssumption DEF TypeOK, Pcs, Sites, Throws
<1>2. LockInv /\ NeedInv /\ ArenaInv
  BY NilAssumption DEF LockInv, NeedInv, ArenaInv, Holding, Trying
<1>3. Range(nextList) = {} /\ Range(freeList) = {} /\ Distinct(freeList)
  BY DEF Range, Distinct
<1>4. ListInv /\ FreshInv
  BY <1>3 DEF ListInv, FreshInv, HasFresh, Trying
<1>5. BitmapInv /\ NoOverlap /\ FreshNeverFull
  BY DEF BitmapInv, NoOverlap, FreshNeverFull
<1> QED BY <1>1, <1>2, <1>4, <1>5 DEF IInv

\* newMarkBits starts: the arena it loads is published.
LEMMA NewMarkBitsLemma ==
  ASSUME IInv, NEW t \in Threads, NewMarkBits(t)
  PROVE  IInv'
<1> USE DEF NewMarkBits, StartTry, At, lists, IInv
<1>1. PICK n \in NElems : need' = [need EXCEPT ![t] = BytesNeeded(n)]
  OBVIOUS
<1>2. BytesNeeded(n) \in Nat /\ BytesNeeded(n) > 0 /\ BytesNeeded(n) <= BitsLen
  BY BytesNeededLemma
<1>3. HeadOf(nextList) \in Arenas \cup {Nil}
      /\ (HeadOf(nextList) # Nil => HeadOf(nextList) \in Range(nextList))
  BY HeadOfLemma DEF TypeOK
<1>4. TypeOK'
  BY <1>1, <1>2, <1>3, MaxCallsAssumption DEF TypeOK, Pcs, Sites
<1>5. LockInv'
  BY DEF LockInv, Holding, Trying, TypeOK
<1>6. NeedInv'
  BY <1>1, <1>2, MaxCallsAssumption DEF NeedInv, TypeOK
<1>7. ArenaInv'
  BY <1>3 DEF ArenaInv, Trying, TypeOK
<1>8. ListInv' /\ BitmapInv' /\ NoOverlap' /\ FreshNeverFull'
  BY DEF ListInv, BitmapInv, NoOverlap, FreshNeverFull
<1>9. FreshInv'
  BY DEF FreshInv, HasFresh, Trying, TypeOK
<1> QED BY <1>4, <1>5, <1>6, <1>7, <1>8, <1>9

\* tryAlloc fails on a published arena: free indices of published arenas may
\* have grown, and the thread goes on to the lock, a fresh arena, or its own.
LEMMA TryFailedLemma ==
  ASSUME IInv, NEW t \in Threads, Trying(t), thrown = "none", site[t] # "fresh",
         TryFailed(t),
         UNCHANGED <<lock, nextList, freeList, mapped, fresh, need, call, calls, bitmaps>>,
         free' \in [Arenas -> Nat],
         \A a \in Arenas : free'[a] >= free[a],
         \A a \in Arenas : a \notin Range(nextList) => free'[a] = free[a]
  PROVE  IInv'
<1> USE DEF IInv
<1>1. \/ site[t] = "head" /\ pc' = [pc EXCEPT ![t] = "lock"] /\ UNCHANGED <<site, arena, thrown>>
      \/ site[t] = "locked" /\ pc' = [pc EXCEPT ![t] = "newArena"]
         /\ UNCHANGED <<site, arena, thrown>>
      \/ site[t] = "again" /\ StartTry(t, "fresh", fresh[t]) /\ UNCHANGED thrown
  BY DEF TryFailed
<1>2. fresh[t] \in Arenas \cup {Nil} /\ (site[t] = "again" => fresh[t] # Nil)
  BY DEF TypeOK, FreshInv, HasFresh
<1>3. TypeOK'
  BY <1>1, <1>2 DEF TypeOK, Pcs, Sites, StartTry
<1>4. LockInv'
  BY <1>1 DEF LockInv, Holding, Trying, StartTry, TypeOK
<1>5. NeedInv'
  BY <1>1 DEF NeedInv, Trying, StartTry, TypeOK
<1>6. ArenaInv'
  BY <1>1, <1>2 DEF ArenaInv, Trying, StartTry, TypeOK
<1>7. ListInv' /\ NoOverlap'
  BY DEF ListInv, NoOverlap
<1>8. FreshNeverFull'
  BY <1>1 DEF FreshNeverFull
<1>9. FreshInv'
  <2>1. \A u \in Threads : u # t => pc'[u] = pc[u] /\ site'[u] = site[u]
    BY <1>1 DEF StartTry, TypeOK
  <2>2. (HasFresh(t)' <=> HasFresh(t)) /\ pc'[t] # "relock" /\ pc[t] # "relock"
    BY <1>1 DEF HasFresh, Trying, StartTry, TypeOK
  <2>3. \A u \in Threads : (HasFresh(u)' <=> HasFresh(u)) /\ (pc'[u] = "relock" <=> pc[u] = "relock")
    BY <2>1, <2>2 DEF HasFresh, Trying
  <2>4. \A u \in Threads : fresh[u] # Nil => fresh[u] \in Arenas /\ free'[fresh[u]] = free[fresh[u]]
    BY DEF FreshInv, TypeOK
  <2> QED BY <2>3, <2>4 DEF FreshInv
<1>10. BitmapInv'
  <2> SUFFICES ASSUME NEW m \in bitmaps
               PROVE  m.arena \in Range(nextList) /\ m.start < m.end /\ m.end <= free'[m.arena]
    BY DEF BitmapInv
  <2>1. m.arena \in Arenas /\ m.end \in Nat /\ free[m.arena] \in Nat /\ free'[m.arena] \in Nat
    BY BitsLenAssumption DEF TypeOK, Bitmaps
  <2> QED BY <2>1 DEF BitmapInv
<1> QED BY <1>3, <1>4, <1>5, <1>6, <1>7, <1>8, <1>9, <1>10

\* tryAlloc on the thread's own fresh arena finds it empty: there is room.
LEMMA FreshFits ==
  ASSUME IInv, NEW t \in Threads, Trying(t), site[t] = "fresh"
  PROVE  /\ arena[t] = fresh[t] /\ arena[t] \in Arenas
         /\ free[arena[t]] = 0 /\ need[t] \in Nat /\ need[t] > 0 /\ need[t] <= BitsLen
<1>1. HasFresh(t) /\ pc[t] # "relock" /\ pc[t] # "idle"
  BY DEF HasFresh, Trying
<1>2. arena[t] = fresh[t] /\ fresh[t] # Nil /\ fresh[t] \in Arenas /\ free[fresh[t]] = 0
  BY <1>1 DEF IInv, ArenaInv, FreshInv, TypeOK
<1> QED BY <1>1, <1>2 DEF IInv, NeedInv, TypeOK

\* The load of tryAlloc changes nothing but where the thread is.
LEMMA TryCheckLemma ==
  ASSUME IInv, NEW t \in Threads, TryCheck(t)
  PROVE  IInv'
<1> USE DEF IInv
<1>1. pc[t] = "check" /\ Trying(t) /\ thrown = "none"
  BY DEF TryCheck, At, Trying
<1>2. UNCHANGED <<lock, nextList, freeList, mapped, fresh, need, call, calls, bitmaps, free>>
  BY DEF TryCheck, lists, request
<1>3. CASE Exhausted(arena[t], need[t])
  <2>1. TryFailed(t)
    BY <1>3 DEF TryCheck
  <2>2. site[t] # "fresh"
    <3> SUFFICES ASSUME site[t] = "fresh" PROVE FALSE
      OBVIOUS
    <3>1. arena[t] # Nil /\ ~ (free[arena[t]] + need[t] > BitsLen)
      BY <1>1, FreshFits, NilAssumption, BitsLenAssumption
    <3> QED BY <3>1, <1>3 DEF Exhausted
  <2>3. /\ free' \in [Arenas -> Nat]
        /\ \A a \in Arenas : free'[a] >= free[a]
        /\ \A a \in Arenas : a \notin Range(nextList) => free'[a] = free[a]
    BY <1>2 DEF TypeOK
  <2> QED BY <1>1, <1>2, <2>1, <2>2, <2>3, TryFailedLemma
<1>4. CASE ~ Exhausted(arena[t], need[t])
  <2>1. pc' = [pc EXCEPT ![t] = "xadd"] /\ UNCHANGED <<site, arena, thrown>> /\ arena[t] # Nil
    BY <1>4 DEF TryCheck, Exhausted
  <2>2. TypeOK'
    BY <1>2, <2>1 DEF TypeOK, Pcs
  <2>3. LockInv' /\ NeedInv' /\ ArenaInv'
    BY <1>1, <1>2, <2>1 DEF LockInv, NeedInv, ArenaInv, Holding, Trying, TypeOK
  <2>4. ListInv' /\ NoOverlap' /\ BitmapInv' /\ FreshNeverFull'
    BY <1>2, <2>1 DEF ListInv, NoOverlap, BitmapInv, FreshNeverFull
  <2>5. FreshInv'
    BY <1>1, <1>2, <2>1 DEF FreshInv, HasFresh, Trying, TypeOK
  <2> QED BY <2>2, <2>3, <2>4, <2>5
<1> QED BY <1>3, <1>4

\* The fetch-and-add claims bytes above every bitmap of the arena, so that the
\* bitmap it returns overlaps none; a claim past the end returns nothing.
LEMMA TryXaddLemma ==
  ASSUME IInv, NEW t \in Threads, TryXadd(t)
  PROVE  IInv'
<1> USE DEF IInv
<1> DEFINE end == free[arena[t]] + need[t]
<1>1. pc[t] = "xadd" /\ Trying(t) /\ thrown = "none"
  BY DEF TryXadd, At, Trying
<1>2. arena[t] \in Arenas /\ free[arena[t]] \in Nat /\ need[t] \in Nat /\ need[t] > 0
      /\ need[t] <= BitsLen /\ call[t] \in 1 .. MaxCalls
  BY <1>1, MaxCallsAssumption DEF ArenaInv, NeedInv, TypeOK
<1>3. free' = [free EXCEPT ![arena[t]] = end] /\ UNCHANGED <<mapped, need, call, calls>>
  BY DEF TryXadd, request
<1>4. /\ free' \in [Arenas -> Nat]
      /\ free'[arena[t]] = end
      /\ \A a \in Arenas : free'[a] >= free[a]
      /\ \A a \in Arenas : a # arena[t] => free'[a] = free[a]
  BY <1>2, <1>3 DEF TypeOK
<1>5. CASE ~ Claimed(end)
  <2>1. TryFailed(t) /\ UNCHANGED <<lock, nextList, freeList, fresh, bitmaps>>
    BY <1>5 DEF TryXadd, lists
  <2>2. site[t] # "fresh"
    BY <1>1, <1>5, FreshFits, BitsLenAssumption DEF Claimed
  <2>3. arena[t] \in Range(nextList)
    BY <1>1, <1>2, <2>2, NilAssumption DEF ArenaInv
  <2> QED BY <1>1, <1>3, <1>4, <2>1, <2>2, <2>3, TryFailedLemma
<1>6. CASE Claimed(end)
  <2> DEFINE m == [call |-> call[t], arena |-> arena[t], start |-> end - need[t], end |-> end]
  <2>1. /\ bitmaps' = bitmaps \cup {m}
        /\ freeList' = IF site[t] = "again" THEN <<fresh[t]>> \o freeList ELSE freeList
        /\ nextList' = IF site[t] = "fresh" THEN <<fresh[t]>> \o nextList ELSE nextList
        /\ lock' = IF site[t] = "head" THEN lock ELSE Nil
        /\ pc' = [pc EXCEPT ![t] = "idle"]
        /\ fresh' = [fresh EXCEPT ![t] = Nil]
        /\ UNCHANGED <<site, arena, thrown>>
    <3>1. end - need[t] + need[t] = end
      BY <1>2
    <3>2. TrySucceeded(t, end - need[t]) /\ UNCHANGED thrown
      BY <1>6 DEF TryXadd
    <3> QED BY <3>1, <3>2 DEF TrySucceeded, UnlockFrom
  <2>2. m \in Bitmaps /\ m.arena = arena[t] /\ m.start = free[arena[t]] /\ m.end = end
        /\ m.start < m.end
    BY <1>2, <1>6, BitsLenAssumption DEF Bitmaps, Claimed
  <2> HIDE DEF m, end
  <2>3. site[t] \in {"again", "fresh"} =>
          /\ fresh[t] \in Arenas /\ fresh[t] \in mapped
          /\ fresh[t] \notin Range(nextList) /\ fresh[t] \notin Range(freeList)
          /\ \A u \in Threads : fresh[u] = fresh[t] => u = t
    BY <1>1 DEF FreshInv, HasFresh, TypeOK
  <2>4. /\ nextList' \in Seq(Arenas)
        /\ Range(nextList)' = IF site[t] = "fresh" THEN {fresh[t]} \cup Range(nextList)
                                                  ELSE Range(nextList)
    BY <2>1, <2>3, PushLemma DEF TypeOK
  <2>5. /\ freeList' \in Seq(Arenas)
        /\ Range(freeList)' = IF site[t] = "again" THEN {fresh[t]} \cup Range(freeList)
                                                  ELSE Range(freeList)
        /\ Distinct(freeList)'
    BY <2>1, <2>3, PushLemma DEF TypeOK, ListInv
  <2>6. arena[t] \in Range(nextList)'
    BY <1>1, <1>2, <2>4, NilAssumption DEF ArenaInv
  <2>7. TypeOK'
    BY <1>3, <1>4, <2>1, <2>2, <2>4, <2>5 DEF TypeOK, Pcs
  <2>8. LockInv'
    BY <1>1, <2>1, NilAssumption DEF LockInv, Holding, Trying, TypeOK
  <2>9. NeedInv'
    BY <1>3, <2>1 DEF NeedInv, TypeOK
  <2>10. ArenaInv'
    BY <1>1, <2>1, <2>4 DEF ArenaInv, Trying, TypeOK
  <2>11. ListInv'
    BY <1>3, <2>3, <2>4, <2>5 DEF ListInv
  <2>12. FreshNeverFull'
    BY <2>1 DEF FreshNeverFull
  <2>13. FreshInv'
    <3> SUFFICES ASSUME NEW u \in Threads
                 PROVE  /\ (HasFresh(u) <=> fresh[u] # Nil)'
                        /\ (fresh[u] # Nil =>
                             /\ fresh[u] \in mapped
                             /\ fresh[u] \notin Range(nextList)
                             /\ fresh[u] \notin Range(freeList)
                             /\ \A v \in Threads : fresh[v] = fresh[u] => v = u)'
                        /\ ((HasFresh(u) /\ pc[u] # "relock") => free[fresh[u]] = 0)'
      BY DEF FreshInv
    <3>1. CASE u = t
      BY <2>1, <3>1 DEF HasFresh, Trying, TypeOK
    <3>2. CASE u # t
      <4>1. fresh'[u] = fresh[u] /\ pc'[u] = pc[u] /\ site'[u] = site[u] /\ (HasFresh(u)' <=> HasFresh(u))
        BY <2>1, <3>2 DEF HasFresh, Trying, TypeOK
      <4>2. ASSUME fresh[u] # Nil
            PROVE  fresh[u] # arena[t] /\ fresh[u] # fresh[t] /\ fresh[u] \in Arenas
        <5>1. fresh[u] \in Arenas /\ fresh[u] \notin Range(nextList) /\ fresh[u] # fresh[t]
          BY <3>2, <4>2 DEF FreshInv, TypeOK
        <5> QED BY <1>1, <1>2, <5>1, NilAssumption DEF ArenaInv
      <4>3. (HasFresh(u) <=> fresh[u] # Nil)'
        BY <4>1 DEF FreshInv
      <4>4. ((HasFresh(u) /\ pc[u] # "relock") => free[fresh[u]] = 0)'
        BY <1>4, <4>1, <4>2 DEF FreshInv
      <4>5. ASSUME fresh[u] # Nil
            PROVE  /\ fresh[u] \in mapped'
                   /\ fresh[u] \notin Range(nextList)'
                   /\ fresh[u] \notin Range(freeList)'
                   /\ \A v \in Threads : fresh'[v] = fresh[u] => v = u
        BY <1>3, <2>1, <2>4, <2>5, <4>2, <4>5 DEF FreshInv, TypeOK
      <4> QED BY <4>1, <4>3, <4>4, <4>5
    <3> QED BY <3>1, <3>2
  <2>14. \A x \in bitmaps : x.arena \in Arenas /\ x.start \in Nat /\ x.end \in Nat
    BY BitsLenAssumption DEF TypeOK, Bitmaps
  <2>15. BitmapInv'
    <3> SUFFICES ASSUME NEW x \in bitmaps'
                 PROVE  x.arena \in Range(nextList)' /\ x.start < x.end /\ x.end <= free'[x.arena]
      BY DEF BitmapInv
    <3>1. CASE x = m
      BY <1>2, <1>4, <2>2, <2>6, <3>1 DEF end
    <3>2. CASE x \in bitmaps
      <4>1. free'[x.arena] >= free[x.arena] /\ free[x.arena] \in Nat /\ free'[x.arena] \in Nat
        BY <1>4, <2>14, <3>2 DEF TypeOK
      <4> QED BY <2>4, <2>14, <3>2, <4>1 DEF BitmapInv
    <3> QED BY <2>1, <3>1, <3>2
  <2>16. \A x \in bitmaps : x.arena = m.arena => x.end <= m.start
    BY <2>2 DEF BitmapInv
  <2>17. NoOverlap'
    BY <2>1, <2>16 DEF NoOverlap
  <2> QED BY <2>7, <2>8, <2>9, <2>10, <2>11, <2>12, <2>13, <2>15, <2>17
<1> QED BY <1>5, <1>6

\* Taking the lock and looking at the head again.
LEMMA LockLemma ==
  ASSUME IInv, NEW t \in Threads, Lock(t)
  PROVE  IInv'
<1> USE DEF IInv, Lock, StartTry, At, lists, request
<1>1. HeadOf(nextList) \in Arenas \cup {Nil}
      /\ (HeadOf(nextList) # Nil => HeadOf(nextList) \in Range(nextList))
  BY HeadOfLemma DEF TypeOK
<1>2. TypeOK'
  BY <1>1 DEF TypeOK, Pcs, Sites
<1>3. LockInv'
  BY NilAssumption DEF LockInv, Holding, Trying, TypeOK
<1>4. NeedInv' /\ ArenaInv'
  BY <1>1 DEF NeedInv, ArenaInv, Trying, TypeOK
<1>5. ListInv' /\ BitmapInv' /\ NoOverlap' /\ FreshNeverFull'
  BY DEF ListInv, BitmapInv, NoOverlap, FreshNeverFull
<1>6. FreshInv'
  BY DEF FreshInv, HasFresh, Trying, TypeOK
<1> QED BY <1>2, <1>3, <1>4, <1>5, <1>6

\* Popping a cached arena moves it from the free list to the thread's hands.
LEMMA PopFreeLemma ==
  ASSUME IInv, NEW t \in Threads, PopFree(t)
  PROVE  IInv'
<1> USE DEF IInv
<1> DEFINE a == Head(freeList)
<1>1. /\ pc[t] = "newArena" /\ thrown = "none" /\ freeList # <<>>
      /\ fresh' = [fresh EXCEPT ![t] = a]
      /\ free' = [free EXCEPT ![a] = 0]
      /\ pc' = [pc EXCEPT ![t] = "check"]
      /\ site' = [site EXCEPT ![t] = "again"]
      /\ arena' = [arena EXCEPT ![t] = HeadOf(nextList)]
      /\ freeList' = Tail(freeList)
      /\ UNCHANGED <<lock, nextList, mapped, need, call, calls, bitmaps, thrown>>
  BY DEF PopFree, At, TakeFresh, StartTry, request
<1>2. /\ a \in Arenas /\ a \in Range(freeList) /\ a \notin Range(freeList')
      /\ freeList' \in Seq(Arenas) /\ Range(freeList') \subseteq Range(freeList)
      /\ Distinct(freeList')
  BY <1>1, PopLemma DEF TypeOK, ListInv
<1> HIDE DEF a
<1>3. HeadOf(nextList) \in Arenas \cup {Nil}
      /\ (HeadOf(nextList) # Nil => HeadOf(nextList) \in Range(nextList))
  BY HeadOfLemma DEF TypeOK
<1>4. a \in mapped /\ a \notin Range(nextList) /\ \A u \in Threads : fresh[u] # a
  BY <1>2, NilAssumption DEF ListInv, FreshInv
<1>5. TypeOK'
  BY <1>1, <1>2, <1>3 DEF TypeOK, Pcs, Sites
<1>6. LockInv'
  BY <1>1 DEF LockInv, Holding, Trying, TypeOK
<1>7. NeedInv' /\ ArenaInv'
  BY <1>1, <1>3 DEF NeedInv, ArenaInv, Trying, TypeOK
<1>8. ListInv' /\ NoOverlap' /\ FreshNeverFull'
  BY <1>1, <1>2 DEF ListInv, NoOverlap, FreshNeverFull
<1>9. FreshInv'
  BY <1>1, <1>2, <1>4, NilAssumption DEF FreshInv, HasFresh, Trying, TypeOK
<1>10. BitmapInv'
  BY <1>1, <1>4 DEF BitmapInv, TypeOK, Bitmaps
<1> QED BY <1>5, <1>6, <1>7, <1>8, <1>9, <1>10

\* Dropping the lock on the way to the operating system.
LEMMA DropLockLemma ==
  ASSUME IInv, NEW t \in Threads, DropLock(t)
  PROVE  IInv'
<1> USE DEF IInv, DropLock, At, lists, request
<1>1. TypeOK'
  BY DEF TypeOK, Pcs
<1>2. LockInv'
  BY NilAssumption DEF LockInv, Holding, Trying, TypeOK
<1>3. NeedInv' /\ ArenaInv'
  BY DEF NeedInv, ArenaInv, Trying, TypeOK
<1>4. ListInv' /\ BitmapInv' /\ NoOverlap' /\ FreshNeverFull'
  BY DEF ListInv, BitmapInv, NoOverlap, FreshNeverFull
<1>5. FreshInv'
  BY DEF FreshInv, HasFresh, Trying, TypeOK
<1> QED BY <1>1, <1>2, <1>3, <1>4, <1>5

\* A newly mapped arena is on no list and in nobody else's hands.
LEMMA SysAllocLemma ==
  ASSUME IInv, NEW t \in Threads, SysAlloc(t)
  PROVE  IInv'
<1> USE DEF IInv
<1>1. /\ pc[t] = "sysAlloc" /\ thrown = "none"
      /\ UNCHANGED <<lock, nextList, freeList, free, site, arena, need, call, calls, bitmaps>>
  BY DEF SysAlloc, At, lists, request
<1>2. CASE thrown' = "cannot allocate memory" /\ UNCHANGED <<mapped, fresh, pc>>
  <2>1. TypeOK' /\ FreshNeverFull'
    BY <1>1, <1>2 DEF TypeOK, Throws, FreshNeverFull
  <2>2. LockInv' /\ NeedInv' /\ ArenaInv' /\ ListInv'
    BY <1>1, <1>2 DEF LockInv, NeedInv, ArenaInv, ListInv, Holding, Trying
  <2>3. FreshInv' /\ BitmapInv' /\ NoOverlap'
    BY <1>1, <1>2 DEF FreshInv, BitmapInv, NoOverlap, HasFresh, Trying
  <2> QED BY <2>1, <2>2, <2>3
<1>3. ASSUME NEW a \in Arenas \ mapped, mapped' = mapped \cup {a},
             fresh' = [fresh EXCEPT ![t] = a], pc' = [pc EXCEPT ![t] = "relock"],
             UNCHANGED thrown
      PROVE  IInv'
  <2>1. a \notin Range(nextList) /\ a \notin Range(freeList) /\ \A u \in Threads : fresh[u] # a
    BY NilAssumption DEF ListInv, FreshInv
  <2>2. TypeOK' /\ FreshNeverFull'
    BY <1>1, <1>3 DEF TypeOK, Pcs, FreshNeverFull
  <2>3. LockInv'
    BY <1>1, <1>3 DEF LockInv, Holding, Trying, TypeOK
  <2>4. NeedInv' /\ ArenaInv'
    BY <1>1, <1>3 DEF NeedInv, ArenaInv, Trying, TypeOK
  <2>5. ListInv' /\ BitmapInv' /\ NoOverlap'
    BY <1>1, <1>3 DEF ListInv, BitmapInv, NoOverlap
  <2>6. FreshInv'
    BY <1>1, <1>3, <2>1, NilAssumption DEF FreshInv, HasFresh, Trying, TypeOK
  <2> QED BY <2>2, <2>3, <2>4, <2>5, <2>6
<1> QED BY <1>2, <1>3 DEF SysAlloc

\* Taking the lock again, with the mapped arena cleared.
LEMMA RelockLemma ==
  ASSUME IInv, NEW t \in Threads, Relock(t)
  PROVE  IInv'
<1> USE DEF IInv
<1>1. /\ pc[t] = "relock" /\ thrown = "none" /\ lock = Nil /\ lock' = t
      /\ fresh' = [fresh EXCEPT ![t] = fresh[t]]
      /\ free' = [free EXCEPT ![fresh[t]] = 0]
      /\ pc' = [pc EXCEPT ![t] = "check"]
      /\ site' = [site EXCEPT ![t] = "again"]
      /\ arena' = [arena EXCEPT ![t] = HeadOf(nextList)]
      /\ UNCHANGED <<nextList, freeList, mapped, need, call, calls, bitmaps, thrown>>
  BY DEF Relock, At, TakeFresh, StartTry, lists, request
<1>2. fresh' = fresh /\ fresh[t] \in Arenas /\ fresh[t] \notin Range(nextList)
  BY <1>1 DEF FreshInv, HasFresh, TypeOK
<1>3. HeadOf(nextList) \in Arenas \cup {Nil}
      /\ (HeadOf(nextList) # Nil => HeadOf(nextList) \in Range(nextList))
  BY HeadOfLemma DEF TypeOK
<1>4. TypeOK' /\ FreshNeverFull'
  BY <1>1, <1>2, <1>3 DEF TypeOK, Pcs, Sites, FreshNeverFull
<1>5. LockInv'
  BY <1>1, NilAssumption DEF LockInv, Holding, Trying, TypeOK
<1>6. NeedInv' /\ ArenaInv'
  BY <1>1, <1>3 DEF NeedInv, ArenaInv, Trying, TypeOK
<1>7. ListInv' /\ NoOverlap'
  BY <1>1 DEF ListInv, NoOverlap
<1>8. FreshInv'
  BY <1>1, <1>2 DEF FreshInv, HasFresh, Trying, TypeOK
<1>9. BitmapInv'
  BY <1>1, <1>2 DEF BitmapInv, TypeOK, Bitmaps
<1> QED BY <1>4, <1>5, <1>6, <1>7, <1>8, <1>9

\* IInv is an invariant of GCBits: one lemma per action.
THEOREM Invariance == Spec => []IInv
<1>1. IInv /\ [Next]_vars => IInv'
  <2> SUFFICES ASSUME IInv, [Next]_vars PROVE IInv'
    OBVIOUS
  <2>1. CASE UNCHANGED vars
    BY <2>1 DEF vars, IInv, TypeOK, LockInv, NeedInv, ArenaInv, ListInv, FreshInv, BitmapInv,
                NoOverlap, FreshNeverFull, Holding, Trying, HasFresh
  <2>2. ASSUME NEW t \in Threads, Step(t) PROVE IInv'
    BY <2>2, NewMarkBitsLemma, TryCheckLemma, TryXaddLemma, LockLemma, PopFreeLemma,
       DropLockLemma, SysAllocLemma, RelockLemma DEF Step
  <2> QED BY <2>1, <2>2 DEF Next, Stopped
<1> QED BY <1>1, InitLemma, PTL DEF Spec

\* Every variable of the bitmap allocator keeps its type; in particular every
\* bitmap lies inside the bits of its arena.
THEOREM TypeCorrect == Spec => []TypeOK
BY Invariance, PTL DEF IInv

\* No two spans ever share a byte of their bitmaps, for any number of threads
\* running newMarkBits and newArenaMayUnlock in any order.
THEOREM BitmapsDisjoint == Spec => []NoOverlap
BY Invariance, PTL DEF IInv

\* newMarkBits never throws "markBits overflow": nobody else allocates from
\* the fresh arena before it is published.
THEOREM NoMarkBitsOverflow == Spec => []FreshNeverFull
BY Invariance, PTL DEF IInv

-----------------------------------------------------------------------------
(***************************************************************************)
(* Arenas are neither lost nor kept twice.                                 *)
(***************************************************************************)
\* Every mapped arena is on a list or in the hands of a thread.
Somewhere ==
  \A a \in mapped : \/ a \in Range(nextList) \/ a \in Range(freeList)
                    \/ \E t \in Threads : fresh[t] = a
KeptInv == Distinct(nextList) /\ Somewhere

\* The members of a list are what stands at its positions.
LEMMA InRange ==
  ASSUME NEW S, NEW s \in Seq(S), NEW x
  PROVE  x \in Range(s) <=> \E i \in 1 .. Len(s) : s[i] = x
<1>1. DOMAIN s = 1 .. Len(s)
  OBVIOUS
<1>2. x \in Range(s) <=> \E i \in DOMAIN s : s[i] = x
  BY Zenon DEF Range
<1> QED
  BY <1>1, <1>2, Zenon

\* Popping the head of a list leaves every other arena on it.
LEMMA PopKeeps ==
  ASSUME NEW S, NEW s \in Seq(S), s # <<>>
  PROVE  Range(s) = Range(Tail(s)) \cup {Head(s)}
<1>1. /\ Len(s) \in Nat /\ Len(s) > 0 /\ Len(Tail(s)) = Len(s) - 1 /\ Tail(s) \in Seq(S)
      /\ Head(s) = s[1] /\ \A i \in 1 .. Len(s) - 1 : Tail(s)[i] = s[i + 1]
  OBVIOUS
<1>2. ASSUME NEW x \in Range(s), x # Head(s) PROVE x \in Range(Tail(s))
  <2>1. PICK i \in 1 .. Len(s) : x = s[i]
    BY <1>2 DEF Range
  <2>2. i - 1 \in 1 .. Len(s) - 1 /\ Tail(s)[i - 1] = x
    BY <1>1, <1>2, <2>1
  <2> QED
    BY <1>1, <2>2, InRange
<1> QED
  BY <1>2, PopLemma

\* A step that leaves the lists, the arenas in hand and the mapped ones alone.
LEMMA KeptStutter ==
  ASSUME KeptInv, UNCHANGED <<nextList, freeList, fresh, mapped>>
  PROVE  KeptInv'
BY DEF KeptInv, Somewhere, Distinct

\* A bitmap is returned: the fresh arena, if there is one, goes to a list.
LEMMA KeptSucceeded ==
  ASSUME IInv, KeptInv, NEW t \in Threads, pc[t] = "xadd", NEW start, TrySucceeded(t, start),
         UNCHANGED mapped
  PROVE  KeptInv'
<1>1. /\ freeList' = (IF site[t] = "again" THEN <<fresh[t]>> \o freeList ELSE freeList)
      /\ nextList' = (IF site[t] = "fresh" THEN <<fresh[t]>> \o nextList ELSE nextList)
      /\ fresh' = [fresh EXCEPT ![t] = Nil]
  BY DEF TrySucceeded
<1>2. \A u \in Threads : u # t => fresh'[u] = fresh[u]
  BY <1>1 DEF IInv, TypeOK
<1>3. nextList \in Seq(Arenas) /\ freeList \in Seq(Arenas) /\ fresh[t] \in Arenas \cup {Nil}
  BY DEF IInv, TypeOK
<1>4. CASE site[t] \notin {"again", "fresh"}
  <2>1. fresh[t] = Nil
    BY <1>4 DEF IInv, FreshInv, HasFresh
  <2> QED
    BY <1>1, <1>2, <1>4, <2>1, NilAssumption DEF KeptInv, Somewhere, Distinct, IInv, TypeOK
<1>5. CASE site[t] \in {"again", "fresh"}
  <2>1. fresh[t] # Nil /\ fresh[t] \in Arenas /\ fresh[t] \notin Range(nextList)
    BY <1>3, <1>5 DEF IInv, FreshInv, HasFresh, Trying
  <2>2. /\ Range(nextList') \cup Range(freeList') = {fresh[t]} \cup Range(nextList) \cup Range(freeList)
        /\ Distinct(nextList')
    <3>1. CASE site[t] = "again"
      <4>1. Range(freeList') = {fresh[t]} \cup Range(freeList) /\ nextList' = nextList
        BY <1>1, <1>3, <2>1, <3>1, PushLemma
      <4> QED
        BY <4>1 DEF KeptInv
    <3>2. CASE site[t] = "fresh"
      <4>1. /\ Range(nextList') = {fresh[t]} \cup Range(nextList) /\ freeList' = freeList
            /\ Distinct(nextList')
        BY <1>1, <1>3, <2>1, <3>2, PushLemma DEF KeptInv
      <4> QED
        BY <4>1
    <3> QED
      BY <1>5, <3>1, <3>2
  <2> QED
    BY <1>2, <2>2 DEF KeptInv, Somewhere
<1> QED
  BY <1>4, <1>5

\* Every step keeps every arena in a place.
LEMMA KeptStep ==
  ASSUME IInv, KeptInv, NEW t \in Threads, Step(t)
  PROVE  KeptInv'
<1>1. CASE NewMarkBits(t) \/ TryCheck(t) \/ Lock(t) \/ DropLock(t)
  BY <1>1, KeptStutter DEF NewMarkBits, TryCheck, Lock, DropLock, lists
<1>2. CASE TryXadd(t)
  <2>1. pc[t] = "xadd" /\ UNCHANGED mapped
    BY <1>2 DEF TryXadd, At
  <2>2. \/ \E start : TrySucceeded(t, start)
        \/ UNCHANGED <<nextList, freeList, fresh, mapped>>
    BY <1>2 DEF TryXadd, lists
  <2> QED
    BY <2>1, <2>2, KeptSucceeded, KeptStutter
<1>3. CASE PopFree(t)
  <2> DEFINE a == Head(freeList)
  <2>1. /\ pc[t] = "newArena" /\ freeList # <<>> /\ fresh' = [fresh EXCEPT ![t] = a]
        /\ freeList' = Tail(freeList) /\ UNCHANGED <<nextList, mapped>>
    BY <1>3 DEF PopFree, At, TakeFresh
  <2>2. fresh[t] = Nil
    BY <2>1 DEF IInv, FreshInv, HasFresh, Trying
  <2>3. Range(freeList) = Range(freeList') \cup {a}
    BY <2>1, PopKeeps DEF IInv, TypeOK
  <2>4. fresh'[t] = a /\ \A u \in Threads : u # t => fresh'[u] = fresh[u]
    BY <2>1 DEF IInv, TypeOK
  <2> HIDE DEF a
  <2>5. Nil \notin mapped
    BY NilAssumption DEF IInv, TypeOK
  <2>6. Somewhere'
    BY <2>1, <2>2, <2>3, <2>4, <2>5 DEF KeptInv, Somewhere
  <2> QED
    BY <2>1, <2>6 DEF KeptInv, Distinct
<1>4. CASE SysAlloc(t)
  <2>1. pc[t] = "sysAlloc" /\ UNCHANGED <<nextList, freeList>>
    BY <1>4 DEF SysAlloc, At, lists
  <2>2. fresh[t] = Nil
    BY <2>1 DEF IInv, FreshInv, HasFresh, Trying
  <2>3. ASSUME NEW a \in Arenas \ mapped, mapped' = mapped \cup {a},
               fresh' = [fresh EXCEPT ![t] = a]
        PROVE  KeptInv'
    <3>1. fresh'[t] = a /\ \A u \in Threads : u # t => fresh'[u] = fresh[u]
      BY <2>3 DEF IInv, TypeOK
    <3>2. Nil \notin mapped
      BY NilAssumption DEF IInv, TypeOK
    <3>3. Somewhere'
      BY <2>1, <2>2, <2>3, <3>1, <3>2 DEF KeptInv, Somewhere
    <3> QED
      BY <2>1, <3>3 DEF KeptInv, Distinct
  <2> QED
    BY <1>4, <2>1, <2>3, KeptStutter DEF SysAlloc
<1>5. CASE Relock(t)
  <2>1. fresh' = [fresh EXCEPT ![t] = fresh[t]] /\ UNCHANGED <<nextList, freeList, mapped>>
    BY <1>5 DEF Relock, TakeFresh, lists
  <2>2. fresh' = fresh
    BY <2>1 DEF IInv, TypeOK
  <2> QED
    BY <2>1, <2>2, KeptStutter
<1> QED
  BY <1>1, <1>2, <1>3, <1>4, <1>5 DEF Step

\* A set whose members are all equal has cardinality 0 or 1.
LEMMA OneMember ==
  ASSUME NEW S, \A x, y \in S : x = y
  PROVE  Cardinality(S) = IF S = {} THEN 0 ELSE 1
<1>1. CASE S = {}
  BY <1>1, FS_EmptySet
<1>2. CASE S # {}
  <2>1. PICK a : S = {a}
    BY <1>2
  <2> QED
    BY <1>2, <2>1, FS_Singleton
<1> QED
  BY <1>1, <1>2

\* An arena is on the next list, on the free list or in the hands of one
\* thread, in one place only, and none that sysAlloc returned is ever lost,
\* although the lock is dropped while the operating system maps one.
THEOREM ArenasKept == Spec => []OnePlace
<1>1. Init => KeptInv
  BY DEF Init, KeptInv, Somewhere, Distinct
<1>2. IInv /\ KeptInv /\ [Next]_vars => KeptInv'
  BY KeptStep, KeptStutter DEF Next, Stopped, vars
<1>3. IInv /\ KeptInv => OnePlace
  <2> SUFFICES ASSUME IInv, KeptInv, NEW a \in Arenas
               PROVE  Places(a) = IF a \in mapped THEN 1 ELSE 0
    BY DEF OnePlace
  <2> DEFINE N == {i \in 1 .. Len(nextList) : nextList[i] = a}
  <2> DEFINE F == {i \in 1 .. Len(freeList) : freeList[i] = a}
  <2>1. (N # {} <=> a \in Range(nextList)) /\ (F # {} <=> a \in Range(freeList))
    <3>1. nextList \in Seq(Arenas) /\ freeList \in Seq(Arenas)
      BY DEF IInv, TypeOK
    <3> QED
      BY <3>1, InRange
  <2>2. \A x, y \in N : x = y
    BY DEF KeptInv, Distinct
  <2>3. \A x, y \in F : x = y
    BY DEF IInv, ListInv, Distinct
  <2>4. \A x, y \in HeldBy(a) : x = y
    BY NilAssumption DEF IInv, FreshInv, HeldBy
  <2>5. HeldBy(a) # {} <=> \E t \in Threads : fresh[t] = a
    BY DEF HeldBy
  <2>6. /\ Cardinality(N) = IF a \in Range(nextList) THEN 1 ELSE 0
        /\ Cardinality(F) = IF a \in Range(freeList) THEN 1 ELSE 0
        /\ Cardinality(HeldBy(a)) = IF \E t \in Threads : fresh[t] = a THEN 1 ELSE 0
    <3> HIDE DEF N, F
    <3> QED
      BY <2>1, <2>2, <2>3, <2>4, <2>5, OneMember
  <2>7. Places(a) = Cardinality(N) + Cardinality(F) + Cardinality(HeldBy(a))
    BY DEF Places
  <2>8. /\ a \in mapped <=> \/ a \in Range(nextList) \/ a \in Range(freeList)
                            \/ \E t \in Threads : fresh[t] = a
        /\ ~ (a \in Range(nextList) /\ a \in Range(freeList))
        /\ (\E t \in Threads : fresh[t] = a) => a \notin Range(nextList) /\ a \notin Range(freeList)
    BY NilAssumption DEF KeptInv, Somewhere, IInv, ListInv, FreshInv
  <2> HIDE DEF N, F
  <2> QED
    BY <2>6, <2>7, <2>8
<1> QED
  BY <1>1, <1>2, <1>3, Invariance, PTL DEF Spec

-----------------------------------------------------------------------------
(***************************************************************************)
(* How far the free index of an arena can overshoot.                       *)
(*                                                                         *)
(* A thread between its load and its fetch-and-add is in flight.  When a   *)
(* thread loads the index there is room for its request, so the index plus *)
(* that request plus the largest request of every other thread in flight   *)
(* stays within the limit; every fetch-and-add trades one thread in flight *)
(* for at most the largest request.                                        *)
(***************************************************************************)
\* The threads that will add to the free index of a whatever it is by then.
InFlight(a) == {u \in Threads : pc[u] = "xadd" /\ arena[u] = a}

\* The sizes that no request exceeds (there is at most one).
Largest ==
  {m \in {BytesNeeded(n) : n \in NElems} : \A n \in NElems : BytesNeeded(n) <= m}

\* Where the free index stops for good.
Limit(m) == BitsLen + (Cardinality(Threads) - 1) * m

\* With free index f and the threads of X in flight, asking for w, the limit
\* will not be passed: some thread of X asked for what was there at its load.
Within(X, f, w, m) ==
  /\ f <= Limit(m)
  /\ X # {} => \E u \in X : f + w[u] + (Cardinality(X) - 1) * m <= Limit(m)

\* A thread inside a call asks for the size of some span's bitmap.
NeedSized == \A t \in Threads : pc[t] # "idle" => \E n \in NElems : need[t] = BytesNeeded(n)

FlightInv == \A a \in Arenas, m \in Largest : Within(InFlight(a), free[a], need, m)

\* A largest request is a request, and bounds the others.
LEMMA LargestFacts ==
  ASSUME NEW m \in Largest
  PROVE  m \in Nat /\ m <= BitsLen /\ \A n \in NElems : BytesNeeded(n) <= m
BY BytesNeededLemma DEF Largest

\* Products with m, as the provers need them.
LEMMA Products ==
  ASSUME NEW m \in Nat, NEW c \in Nat, NEW d \in Nat
  PROVE  /\ c * m \in Nat
         /\ (c - 1) * m = c * m - m
         /\ (c + 1) * m = c * m + m
         /\ c <= d => c * m <= d * m
<1>1. c * m \in Nat /\ (c - 1) * m = c * m - m /\ (c + 1) * m = c * m + m
  OBVIOUS
<1>2. ASSUME c <= d PROVE c * m <= d * m
  <2>1. PICK e \in Nat : d = c + e
    <3>1. d - c \in Nat /\ d = c + (d - c)
      BY <1>2
    <3> QED
      BY <3>1
  <2>2. d * m = c * m + e * m /\ e * m \in Nat /\ c * m \in Nat
    BY <2>1
  <2> QED
    BY <2>2
<1> QED
  BY <1>1, <1>2

\* Subsets of the threads can be counted.
LEMMA CountThreads ==
  ASSUME NEW X \in SUBSET Threads
  PROVE  /\ IsFiniteSet(X) /\ Cardinality(X) \in Nat /\ Cardinality(Threads) \in Nat
         /\ Cardinality(X) <= Cardinality(Threads)
         /\ X # {} => Cardinality(X) > 0
<1>1. IsFiniteSet(X) /\ Cardinality(X) <= Cardinality(Threads)
  BY ThreadsAssumption, FS_Subset
<1>2. Cardinality(X) \in Nat /\ Cardinality(Threads) \in Nat
  BY <1>1, ThreadsAssumption, FS_CardinalityType
<1>3. X # {} => Cardinality(X) # 0
  BY <1>1, FS_EmptySet
<1> QED
  BY <1>1, <1>2, <1>3

\* The limit, written without a difference of cardinalities.
LEMMA LimitFacts ==
  ASSUME NEW m \in Nat
  PROVE  /\ Limit(m) \in Int
         /\ Limit(m) = BitsLen + Cardinality(Threads) * m - m
         /\ Cardinality(Threads) * m \in Nat /\ Cardinality(Threads) \in Nat
<1>1. Cardinality(Threads) \in Nat
  BY CountThreads
<1>2. /\ Cardinality(Threads) * m \in Nat
      /\ (Cardinality(Threads) - 1) * m = Cardinality(Threads) * m - m
  BY <1>1, Products
<1> DEFINE all == Cardinality(Threads) * m
<1> DEFINE others == (Cardinality(Threads) - 1) * m
<1>3. Limit(m) = BitsLen + others
  BY DEF Limit
<1>4. all \in Nat /\ others = all - m
  BY <1>2
<1> HIDE DEF all, others
<1>5. Limit(m) \in Int /\ Limit(m) = BitsLen + all - m
  BY <1>3, <1>4, BitsLenAssumption
<1> QED
  BY <1>1, <1>4, <1>5 DEF all

\* The load of tryAlloc saw room: t joins the threads in flight.
LEMMA WithinLoad ==
  ASSUME NEW m \in Nat, NEW X \in SUBSET Threads, NEW t \in Threads \ X, NEW f \in Nat, NEW w,
         w[t] \in Nat, w[t] <= m, f + w[t] <= BitsLen, Within(X, f, w, m)
  PROVE  Within(X \cup {t}, f, w, m)
<1> DEFINE Y == X \cup {t}
<1> DEFINE c == Cardinality(Y)
<1> DEFINE d == Cardinality(Threads)
<1>1. c \in Nat /\ d \in Nat /\ c <= d /\ c > 0
  BY CountThreads
<1> HIDE DEF c, d
<1>2. c * m \in Nat /\ d * m \in Nat /\ (c - 1) * m = c * m - m /\ c * m <= d * m
  BY <1>1, Products
<1>3. Limit(m) = BitsLen + d * m - m /\ Limit(m) \in Int
  BY LimitFacts DEF d
<1>4. f + w[t] + (c - 1) * m <= Limit(m)
  BY <1>2, <1>3, BitsLenAssumption
<1> QED
  BY <1>4 DEF Within, c

\* The fetch-and-add of t: its request is added, and it is no longer in flight.
LEMMA WithinClaim ==
  ASSUME NEW m \in Nat, NEW X \in SUBSET Threads, NEW t \in X, NEW f \in Nat, NEW w,
         \A u \in X : w[u] \in Nat /\ w[u] <= m, Within(X, f, w, m)
  PROVE  Within(X \ {t}, f + w[t], w, m)
<1> DEFINE Y == X \ {t}
<1> DEFINE c == Cardinality(X)
<1> DEFINE L == Limit(m)
<1>1. c \in Nat /\ c > 0 /\ IsFiniteSet(X)
  BY CountThreads
<1>2. Cardinality(Y) = c - 1
  BY <1>1, FS_RemoveElement
<1>3. PICK x \in X : f + w[x] + (c - 1) * m <= L
  BY DEF Within
<1>4. L \in Int
  BY LimitFacts
<1> HIDE DEF c, L, Y
<1>5. /\ (c - 1) * m = c * m - m /\ c * m \in Nat /\ (c - 1) * m \in Nat
      /\ (c - 1 - 1) * m = (c - 1) * m - m
  <2>1. c - 1 \in Nat
    BY <1>1
  <2> QED
    BY <1>1, <2>1, Products
<1>6. ASSUME Y = {} PROVE c - 1 = 0 /\ x = t
  BY <1>2, <1>6, FS_EmptySet DEF Y
<1>7. w[t] \in Nat /\ w[x] \in Nat /\ w[t] <= m /\ w[x] <= m
  OBVIOUS
<1>8. CASE x = t
  <2>1. f + w[t] <= L
    BY <1>3, <1>4, <1>5, <1>7, <1>8
  <2>2. ASSUME NEW u \in Y PROVE f + w[t] + w[u] + (c - 1 - 1) * m <= L
    <3>1. w[u] \in Nat /\ w[u] <= m
      BY DEF Y
    <3> QED
      BY <1>3, <1>4, <1>5, <1>7, <1>8, <3>1
  <2> QED
    BY <1>2, <2>1, <2>2 DEF Within, L, Y
<1>9. CASE x # t
  <2>1. x \in Y /\ Y # {}
    BY <1>9 DEF Y
  <2>2. c - 1 >= 1
    <3>1. c - 1 # 0
      <4>1. IsFiniteSet(Y)
        BY <1>1, FS_RemoveElement DEF Y
      <4> QED
        BY <1>2, <2>1, <4>1, FS_EmptySet
    <3> QED
      BY <1>1, <3>1
  <2>3. (c - 1) * m >= m
    <3>1. 1 * m <= (c - 1) * m
      <4>1. c - 1 \in Nat /\ 1 \in Nat
        BY <1>1
      <4> QED
        BY <2>2, <4>1, Products
    <3> QED
      BY <3>1
  <2>4. f + w[t] <= L
    BY <1>3, <1>4, <1>5, <1>7, <2>3
  <2>5. f + w[t] + w[x] + (c - 1 - 1) * m <= L
    BY <1>3, <1>4, <1>5, <1>7
  <2> QED
    BY <1>2, <2>1, <2>4, <2>5 DEF Within, L, Y
<1> QED
  BY <1>8, <1>9

\* Nobody joins or leaves the threads in flight, and the index may only fall.
LEMMA WithinKeep ==
  ASSUME NEW m \in Nat, NEW X \in SUBSET Threads, NEW f \in Nat, NEW g \in Nat, NEW w, NEW z,
         g <= f, \A u \in X : w[u] \in Nat /\ z[u] = w[u], Within(X, f, w, m)
  PROVE  Within(X, g, z, m)
<1> DEFINE e == (Cardinality(X) - 1) * m
<1> DEFINE L == Limit(m)
<1>1. L \in Int
  BY LimitFacts
<1>2. e \in Int
  BY CountThreads, Products
<1>3. f <= L /\ (X # {} => \E u \in X : f + w[u] + e <= L)
  BY DEF Within
<1> HIDE DEF e, L
<1>4. g <= L
  BY <1>1, <1>3
<1>5. ASSUME NEW u \in X, f + w[u] + e <= L PROVE g + z[u] + e <= L
  BY <1>1, <1>2, <1>5
<1>6. X # {} => \E u \in X : g + z[u] + e <= L
  BY <1>3, <1>5
<1> QED
  BY <1>4, <1>6 DEF Within, e, L

\* A request in progress is one of the sizes: nobody changes it.
LEMMA NeedSizedStep ==
  ASSUME IInv, NeedSized, NEW t \in Threads, Step(t)
  PROVE  NeedSized'
<1>1. \A u \in Threads : u # t => need'[u] = need[u] /\ pc'[u] = pc[u]
  BY DEF Step, NewMarkBits, TryCheck, TryXadd, Lock, PopFree, DropLock, SysAlloc, Relock,
         TryFailed, TrySucceeded, TakeFresh, StartTry, request, IInv, TypeOK
<1>2. CASE NewMarkBits(t)
  <2>1. \E n \in NElems : need'[t] = BytesNeeded(n)
    BY <1>2 DEF NewMarkBits, IInv, TypeOK
  <2> QED
    BY <1>1, <2>1 DEF NeedSized
<1>3. CASE ~ NewMarkBits(t)
  <2>1. pc[t] # "idle" /\ need' = need
    BY <1>3 DEF Step, At, TryCheck, TryXadd, Lock, PopFree, DropLock, SysAlloc, Relock, request
  <2> QED
    BY <1>1, <2>1 DEF NeedSized
<1> QED
  BY <1>2, <1>3

\* A thread inside a call asks for at most the largest request.
LEMMA NeedBounded ==
  ASSUME IInv, NeedSized, NEW m \in Largest, NEW t \in Threads, pc[t] # "idle"
  PROVE  need[t] \in Nat /\ need[t] <= m
BY LargestFacts DEF IInv, TypeOK, NeedSized

\* A step of t that starts or ends no fetch-and-add, and at most clears an
\* arena.
LEMMA FlightKeep ==
  ASSUME IInv, NeedSized, FlightInv, NEW t \in Threads, pc[t] # "xadd", pc'[t] # "xadd",
         free' \in [Arenas -> Nat], \A a \in Arenas : free'[a] <= free[a],
         \A u \in Threads : u # t => need'[u] = need[u] /\ pc'[u] = pc[u] /\ arena'[u] = arena[u]
  PROVE  FlightInv'
<1> SUFFICES ASSUME NEW a \in Arenas, NEW m \in Largest
             PROVE  Within(InFlight(a)', free'[a], need', m)
  BY DEF FlightInv
<1>1. m \in Nat
  BY LargestFacts
<1>2. InFlight(a)' = InFlight(a)
  BY DEF InFlight
<1>3. /\ free[a] \in Nat /\ free'[a] \in Nat /\ free'[a] <= free[a]
      /\ InFlight(a) \in SUBSET Threads
      /\ \A u \in InFlight(a) : need[u] \in Nat /\ need'[u] = need[u]
  BY DEF IInv, TypeOK, InFlight
<1>4. Within(InFlight(a), free[a], need, m)
  BY DEF FlightInv
<1> HIDE DEF InFlight
<1> QED
  BY <1>1, <1>2, <1>3, <1>4, WithinKeep

\* The load of tryAlloc.
LEMMA FlightCheck ==
  ASSUME IInv, NeedSized, FlightInv, NEW t \in Threads, TryCheck(t)
  PROVE  FlightInv'
<1>1. pc[t] = "check" /\ need' = need /\ free' = free
  BY DEF TryCheck, At, request
<1>2. CASE Exhausted(arena[t], need[t])
  <2>1. TryFailed(t)
    BY <1>2 DEF TryCheck
  <2>2. pc'[t] # "xadd"
    BY <1>1, <2>1 DEF TryFailed, StartTry, IInv, TypeOK
  <2>3. \A u \in Threads : u # t => need'[u] = need[u] /\ pc'[u] = pc[u] /\ arena'[u] = arena[u]
    BY <1>1, <2>1 DEF TryFailed, StartTry, IInv, TypeOK
  <2>4. free' \in [Arenas -> Nat] /\ \A a \in Arenas : free'[a] <= free[a]
    BY <1>1 DEF IInv, TypeOK
  <2> QED
    BY <1>1, <2>2, <2>3, <2>4, FlightKeep
<1>3. CASE ~ Exhausted(arena[t], need[t])
  <2>1. /\ pc' = [pc EXCEPT ![t] = "xadd"] /\ arena' = arena /\ arena[t] # Nil
        /\ ~ (free[arena[t]] + need[t] > BitsLen)
    BY <1>3 DEF TryCheck, Exhausted
  <2>2. /\ arena[t] \in Arenas /\ need[t] \in Nat
        /\ free[arena[t]] \in Nat /\ free[arena[t]] + need[t] <= BitsLen
    <3>1. arena[t] \in Arenas /\ need[t] \in Nat
      BY <2>1 DEF IInv, TypeOK
    <3>2. free[arena[t]] \in Nat
      BY <3>1 DEF IInv, TypeOK
    <3> QED
      BY <2>1, <3>1, <3>2, BitsLenAssumption
  <2> SUFFICES ASSUME NEW a \in Arenas, NEW m \in Largest
               PROVE  Within(InFlight(a)', free[a], need, m)
    BY <1>1 DEF FlightInv
  <2>3. Within(InFlight(a), free[a], need, m) /\ InFlight(a) \in SUBSET Threads /\ m \in Nat
    BY LargestFacts DEF FlightInv, InFlight
  <2>4. CASE a = arena[t]
    <3>1. InFlight(a)' = InFlight(a) \cup {t} /\ t \in Threads \ InFlight(a)
      BY <1>1, <2>1, <2>4 DEF InFlight, IInv, TypeOK
    <3>2. need[t] <= m
      BY <1>1, NeedBounded
    <3> HIDE DEF InFlight
    <3> QED
      BY <2>2, <2>3, <2>4, <3>1, <3>2, WithinLoad
  <2>5. CASE a # arena[t]
    <3>1. InFlight(a)' = InFlight(a)
      BY <2>1, <2>5 DEF InFlight, IInv, TypeOK
    <3> QED
      BY <2>3, <3>1
  <2> QED
    BY <2>4, <2>5
<1> QED
  BY <1>2, <1>3

\* The fetch-and-add.
LEMMA FlightXadd ==
  ASSUME IInv, NeedSized, FlightInv, NEW t \in Threads, TryXadd(t)
  PROVE  FlightInv'
<1>1. /\ pc[t] = "xadd" /\ need' = need
      /\ free' = [free EXCEPT ![arena[t]] = free[arena[t]] + need[t]]
      /\ TryFailed(t) \/ \E start : TrySucceeded(t, start)
  BY DEF TryXadd, At, request
<1>2. /\ pc'[t] # "xadd" \/ thrown' # "none"
      /\ \A u \in Threads : u # t => pc'[u] = pc[u] /\ arena'[u] = arena[u]
  BY <1>1 DEF TryFailed, TrySucceeded, StartTry, IInv, TypeOK
<1>3. pc'[t] # "xadd"
  <2>1. FreshNeverFull'
    BY TryXaddLemma DEF IInv
  <2> QED
    BY <1>1, <2>1 DEF TryFailed, TrySucceeded, StartTry, IInv, TypeOK, FreshNeverFull
<1>4. arena[t] \in Arenas /\ need[t] \in Nat /\ t \in InFlight(arena[t])
  BY <1>1 DEF IInv, TypeOK, ArenaInv, InFlight
<1> SUFFICES ASSUME NEW a \in Arenas, NEW m \in Largest
             PROVE  Within(InFlight(a)', free'[a], need, m)
  BY <1>1 DEF FlightInv
<1>5. Within(InFlight(a), free[a], need, m) /\ InFlight(a) \in SUBSET Threads /\ m \in Nat
      /\ free[a] \in Nat
  BY LargestFacts DEF FlightInv, InFlight, IInv, TypeOK
<1>6. CASE a = arena[t]
  <2>1. InFlight(a)' = InFlight(a) \ {t}
    BY <1>2, <1>3, <1>6 DEF InFlight
  <2>2. free'[a] = free[a] + need[t]
    BY <1>1, <1>4, <1>6 DEF IInv, TypeOK
  <2>3. \A u \in InFlight(a) : need[u] \in Nat /\ need[u] <= m
    BY NeedBounded DEF InFlight
  <2>4. t \in InFlight(a)
    BY <1>4, <1>6
  <2> HIDE DEF InFlight
  <2>5. Within(InFlight(a) \ {t}, free[a] + need[t], need, m)
    BY <1>5, <2>3, <2>4, WithinClaim
  <2> QED
    BY <2>1, <2>2, <2>5
<1>7. CASE a # arena[t]
  <2>1. InFlight(a)' = InFlight(a)
    BY <1>2, <1>3, <1>7 DEF InFlight
  <2>2. free'[a] = free[a]
    BY <1>1, <1>4, <1>7 DEF IInv, TypeOK
  <2> QED
    BY <1>5, <2>1, <2>2
<1> QED
  BY <1>6, <1>7

\* Every step leaves the free indices within the limit.
LEMMA FlightStep ==
  ASSUME IInv, NeedSized, FlightInv, NEW t \in Threads, Step(t)
  PROVE  FlightInv'
<1>1. CASE TryCheck(t) \/ TryXadd(t)
  BY <1>1, FlightCheck, FlightXadd
<1>2. CASE ~ (TryCheck(t) \/ TryXadd(t))
  <2>1. pc[t] # "xadd" /\ pc'[t] # "xadd"
    BY <1>2 DEF Step, NewMarkBits, Lock, PopFree, DropLock, SysAlloc, Relock, At, TakeFresh,
                StartTry, IInv, TypeOK
  <2>2. \A u \in Threads : u # t => need'[u] = need[u] /\ pc'[u] = pc[u] /\ arena'[u] = arena[u]
    BY <1>2 DEF Step, NewMarkBits, Lock, PopFree, DropLock, SysAlloc, Relock, TakeFresh,
                StartTry, request, IInv, TypeOK
  <2>3. free' = free \/ \E b : free' = [free EXCEPT ![b] = 0]
    BY <1>2 DEF Step, NewMarkBits, Lock, PopFree, DropLock, SysAlloc, Relock, TakeFresh
  <2>4. free \in [Arenas -> Nat]
    BY DEF IInv, TypeOK
  <2>5. ASSUME NEW b, free' = [free EXCEPT ![b] = 0]
        PROVE  free' \in [Arenas -> Nat] /\ \A a \in Arenas : free'[a] <= free[a]
    <3>1. \A a \in Arenas : free'[a] = IF a = b THEN 0 ELSE free[a]
      BY <2>4, <2>5
    <3>2. free' = [a \in Arenas |-> IF a = b THEN 0 ELSE free[a]]
      BY <2>4, <2>5
    <3> QED
      BY <2>4, <3>1, <3>2
  <2>6. free' \in [Arenas -> Nat] /\ \A a \in Arenas : free'[a] <= free[a]
    BY <2>3, <2>4, <2>5
  <2> QED
    BY <2>1, <2>2, <2>6, FlightKeep
<1> QED
  BY <1>1, <1>2

\* Initially every index is 0 and nobody is in flight.
LEMMA FlightInit == Init => NeedSized /\ FlightInv
<1> SUFFICES ASSUME Init PROVE NeedSized /\ FlightInv
  OBVIOUS
<1>1. NeedSized
  BY DEF Init, NeedSized
<1>2. ASSUME NEW a \in Arenas, NEW m \in Largest PROVE Within(InFlight(a), free[a], need, m)
  <2>1. InFlight(a) = {} /\ free[a] = 0
    BY DEF Init, InFlight
  <2>2. m \in Nat /\ m <= BitsLen
    BY LargestFacts
  <2>3. 0 <= Limit(m)
    <3>1. Limit(m) = BitsLen + Cardinality(Threads) * m - m /\ Cardinality(Threads) * m \in Nat
      BY <2>2, LimitFacts
    <3> DEFINE all == Cardinality(Threads) * m
    <3> HIDE DEF all
    <3>2. Limit(m) = BitsLen + all - m /\ all \in Nat
      BY <3>1 DEF all
    <3> QED
      BY <2>2, <3>2, BitsLenAssumption
  <2> HIDE DEF InFlight
  <2> QED
    BY <2>1, <2>3 DEF Within
<1> QED
  BY <1>1, <1>2 DEF FlightInv

\* The free index of an arena never passes its length by more than one largest
\* request for every thread but one, for any number of threads and calls: the
\* fetch-and-adds that lose the race cannot make it wrap round.
THEOREM OvershootIsBounded == Spec => []OvershootBounded
<1>1. Init => NeedSized /\ FlightInv
  BY FlightInit
<1>2. IInv /\ NeedSized /\ FlightInv /\ [Next]_vars => NeedSized' /\ FlightInv'
  <2> SUFFICES ASSUME IInv, NeedSized, FlightInv, [Next]_vars PROVE NeedSized' /\ FlightInv'
    OBVIOUS
  <2>1. CASE UNCHANGED vars
    <3>1. need' = need /\ pc' = pc /\ arena' = arena /\ free' = free
      BY <2>1 DEF vars
    <3> QED
      BY <3>1 DEF NeedSized, FlightInv, InFlight
  <2>2. CASE \E t \in Threads : Step(t)
    BY <2>2, NeedSizedStep, FlightStep
  <2> QED
    BY <2>1, <2>2 DEF Next, Stopped
<1>3. FlightInv => OvershootBounded
  BY DEF FlightInv, OvershootBounded, Within, Limit, Largest
<1> QED
  BY <1>1, <1>2, <1>3, Invariance, PTL DEF Spec

-----------------------------------------------------------------------------
(***************************************************************************)
(* GCBits implements BitmapService: a call asks when it starts, is granted *)
(* its bitmap by its last fetch-and-add, and everything between the two is *)
(* invisible.                                                              *)
(***************************************************************************)
\* Free indices are multiples of 8 bytes: so are all requests.
Aligned == \A a \in Arenas : free[a] % 8 = 0

\* What the caller sees of the requests and of the bitmaps.
Serving == [t \in Threads |-> IF pc[t] = "idle" THEN 0 ELSE need[t]]
Granted == {[arena |-> m.arena, start |-> m.start, end |-> m.end] : m \in bitmaps}

\* Whole blocks are multiples of 8 bytes, and sums of multiples are.
LEMMA Multiples ==
  /\ \A k \in Nat : (k * 8) % 8 = 0
  /\ \A i, j \in Nat : i % 8 = 0 /\ j % 8 = 0 => (i + j) % 8 = 0
OBVIOUS

\* A running request is for whole blocks.
LEMMA NeedAligned ==
  ASSUME NeedSized, NEW t \in Threads, pc[t] # "idle"
  PROVE  need[t] % 8 = 0 /\ \E s \in {BytesNeeded(n) : n \in NElems} : need[t] = s
<1>1. PICK n \in NElems : need[t] = BytesNeeded(n)
  BY DEF NeedSized
<1>2. n \in Nat
  BY NElemsAssumption
<1>3. (n + 63) \div 64 \in Nat
  BY <1>2
<1> QED
  BY <1>1, <1>3, Multiples DEF BytesNeeded

\* A free index is cleared, kept, or moved by a request.
LEMMA AlignedStep ==
  ASSUME IInv, NeedSized, Aligned, NEW t \in Threads, Step(t)
  PROVE  Aligned'
<1>1. free \in [Arenas -> Nat]
  BY DEF IInv, TypeOK
<1>2. CASE TryXadd(t)
  <2>1. pc[t] = "xadd" /\ free' = [free EXCEPT ![arena[t]] = free[arena[t]] + need[t]]
    BY <1>2 DEF TryXadd, At
  <2>2. arena[t] \in Arenas /\ need[t] \in Nat /\ need[t] % 8 = 0
    BY <2>1, NeedAligned DEF IInv, TypeOK, ArenaInv
  <2>3. (free[arena[t]] + need[t]) % 8 = 0
    BY <1>1, <2>2, Multiples DEF Aligned
  <2> QED
    BY <1>1, <2>1, <2>2, <2>3 DEF Aligned
<1>3. CASE ~ TryXadd(t)
  <2>1. free' = free \/ \E b : free' = [free EXCEPT ![b] = 0]
    BY <1>3 DEF Step, NewMarkBits, TryCheck, Lock, PopFree, DropLock, SysAlloc, Relock, TakeFresh
  <2>2. ASSUME NEW b, free' = [free EXCEPT ![b] = 0] PROVE Aligned'
    <3>1. \A a \in Arenas : free'[a] = 0 \/ free'[a] = free[a]
      BY <1>1, <2>2
    <3> QED
      BY <3>1 DEF Aligned
  <2> QED
    BY <2>1, <2>2 DEF Aligned
<1> QED
  BY <1>2, <1>3

\* The first load of newMarkBits is a request.
LEMMA AskStep ==
  ASSUME IInv, NEW t \in Threads, NewMarkBits(t)
  PROVE  Service!Next
<1>1. PICK n \in NElems : need' = [need EXCEPT ![t] = BytesNeeded(n)]
  BY DEF NewMarkBits
<1>2. /\ thrown = "none" /\ pc[t] = "idle" /\ pc' = [pc EXCEPT ![t] = "check"]
      /\ UNCHANGED <<bitmaps, thrown>>
  BY DEF NewMarkBits, At, StartTry
<1>3. Serving' = [Serving EXCEPT ![t] = BytesNeeded(n)]
  BY <1>1, <1>2 DEF Serving, IInv, TypeOK
<1>4. Serving[t] = 0 /\ UNCHANGED <<Granted, thrown>>
  BY <1>2 DEF Serving, Granted
<1>5. Service!Ask(t)
  BY <1>3, <1>4 DEF Service!Ask, Serving, Granted
<1> QED
  BY <1>2, <1>5 DEF Service!Next

\* The fetch-and-add that stays inside the arena is a grant: its bytes are above
\* those of every bitmap granted before.
LEMMA GrantStep ==
  ASSUME IInv, NeedSized, Aligned, NEW t \in Threads, TryXadd(t),
         Claimed(free[arena[t]] + need[t])
  PROVE  Service!Next
<1> DEFINE lo == free[arena[t]]
<1> DEFINE hi == lo + need[t]
<1> DEFINE g == [arena |-> arena[t], start |-> lo, end |-> hi]
<1>1. /\ pc[t] = "xadd" /\ thrown = "none" /\ need' = need /\ thrown' = thrown
      /\ TrySucceeded(t, hi - need[t])
  BY DEF TryXadd, At, request
<1>2. /\ arena[t] \in Arenas /\ lo \in Nat /\ need[t] \in Nat /\ need[t] > 0
      /\ lo % 8 = 0 /\ lo + need[t] <= BitsLen
  BY <1>1 DEF IInv, TypeOK, ArenaInv, NeedInv, Aligned, Claimed
<1>3. hi - need[t] = lo /\ hi - need[t] + need[t] = hi
  BY <1>2
<1>4. /\ pc' = [pc EXCEPT ![t] = "idle"]
      /\ bitmaps' = bitmaps \cup
           {[call |-> call[t], arena |-> arena[t], start |-> lo, end |-> hi]}
  BY <1>1, <1>3 DEF TrySucceeded
<1>5. Serving[t] = need[t] /\ Serving' = [Serving EXCEPT ![t] = 0]
  BY <1>1, <1>4 DEF Serving, IInv, TypeOK
<1>6. Granted' = Granted \cup {g}
  <2> DEFINE m == [call |-> call[t], arena |-> arena[t], start |-> lo, end |-> hi]
  <2> DEFINE Seen(x) == [arena |-> x.arena, start |-> x.start, end |-> x.end]
  <2>1. bitmaps' = bitmaps \cup {m} /\ Seen(m) = g
    BY <1>4
  <2>2. Granted = {Seen(x) : x \in bitmaps} /\ Granted' = {Seen(x) : x \in bitmaps'}
    BY DEF Granted
  <2> HIDE DEF m, Seen, g
  <2> QED
    BY <2>1, <2>2
<1>7. \A x \in Granted : Service!Disjoint(g, x)
  BY DEF Granted, IInv, BitmapInv, Service!Disjoint
<1>8. g \in Service!Grants(t)
  <2>1. lo \in {i \in 0 .. BitsLen - need[t] : i % 8 = 0}
    BY <1>2, BitsLenAssumption
  <2>2. Service!Grants(t) =
          {[arena |-> a, start |-> s, end |-> s + need[t]] :
             a \in Arenas, s \in {i \in 0 .. BitsLen - need[t] : i % 8 = 0}}
    BY <1>5 DEF Service!Grants, Serving
  <2> QED
    BY <1>2, <2>1, <2>2
<1>9. Service!Grant(t)
  <2> HIDE DEF g
  <2>1. Serving[t] # 0
    BY <1>2, <1>5
  <2> QED
    BY <1>1, <1>5, <1>6, <1>7, <1>8, <2>1 DEF Service!Grant, Serving, Granted
<1> QED
  BY <1>1, <1>9 DEF Service!Next

\* Steps between the request and the grant cannot be seen from outside.
LEMMA InvisibleStep ==
  ASSUME IInv, NEW t \in Threads, pc[t] # "idle", NEW label \in Pcs \ {"idle"},
         pc' = [pc EXCEPT ![t] = label], UNCHANGED <<need, bitmaps, thrown>>
  PROVE  UNCHANGED Service!vars
<1>1. Serving' = Serving
  BY DEF Serving, IInv, TypeOK
<1>2. Granted' = Granted
  BY DEF Granted
<1> QED
  BY <1>1, <1>2 DEF Service!vars, Serving, Granted

\* Every step of the allocator is a step of the service, or invisible.
LEMMA ServiceStep ==
  ASSUME IInv, NeedSized, Aligned, NEW t \in Threads, Step(t)
  PROVE  Service!Next \/ UNCHANGED Service!vars
<1>1. CASE NewMarkBits(t)
  BY <1>1, AskStep
<1>2. ASSUME pc[t] \in {"check", "xadd"}, TryFailed(t), UNCHANGED <<need, bitmaps>>, FreshNeverFull'
      PROVE  UNCHANGED Service!vars
  <2>1. \E label \in Pcs \ {"idle"} : pc' = [pc EXCEPT ![t] = label] /\ UNCHANGED thrown
    BY <1>2 DEF TryFailed, StartTry, FreshNeverFull, Pcs
  <2> QED
    BY <1>2, <2>1, InvisibleStep
<1>3. CASE TryCheck(t)
  <2>1. pc[t] = "check" /\ UNCHANGED <<need, bitmaps>>
    BY <1>3 DEF TryCheck, At, request
  <2>2. FreshNeverFull'
    BY <1>3, TryCheckLemma DEF IInv
  <2>3. CASE pc' = [pc EXCEPT ![t] = "xadd"] /\ UNCHANGED thrown
    BY <2>1, <2>3, InvisibleStep DEF Pcs
  <2> QED
    BY <1>2, <1>3, <2>1, <2>2, <2>3 DEF TryCheck
<1>4. CASE TryXadd(t)
  <2>1. CASE Claimed(free[arena[t]] + need[t])
    BY <1>4, <2>1, GrantStep
  <2>2. CASE ~ Claimed(free[arena[t]] + need[t])
    <3>1. pc[t] = "xadd" /\ TryFailed(t) /\ UNCHANGED <<need, bitmaps>>
      BY <1>4, <2>2 DEF TryXadd, At, request
    <3>2. FreshNeverFull'
      BY <1>4, TryXaddLemma DEF IInv
    <3> QED
      BY <1>2, <3>1, <3>2
  <2> QED
    BY <2>1, <2>2
<1>5. CASE Lock(t) \/ PopFree(t) \/ DropLock(t) \/ Relock(t)
  <2>1. pc[t] # "idle" /\ UNCHANGED <<need, bitmaps, thrown>>
    BY <1>5 DEF Lock, PopFree, DropLock, Relock, At, request
  <2>2. \E label \in Pcs \ {"idle"} : pc' = [pc EXCEPT ![t] = label]
    BY <1>5 DEF Lock, PopFree, DropLock, Relock, TakeFresh, StartTry, Pcs
  <2> QED
    BY <2>1, <2>2, InvisibleStep
<1>6. CASE SysAlloc(t)
  <2>1. pc[t] = "sysAlloc" /\ thrown = "none" /\ UNCHANGED <<need, bitmaps>>
    BY <1>6 DEF SysAlloc, At, request
  <2>2. CASE pc' = [pc EXCEPT ![t] = "relock"] /\ UNCHANGED thrown
    BY <2>1, <2>2, InvisibleStep DEF Pcs
  <2>3. CASE thrown' = "cannot allocate memory" /\ UNCHANGED pc
    <3>1. Service!OutOfMemory
      BY <2>1, <2>3 DEF Service!OutOfMemory
    <3> QED
      BY <2>1, <3>1 DEF Service!Next
  <2> QED
    BY <1>6, <2>2, <2>3 DEF SysAlloc
<1> QED
  BY <1>1, <1>3, <1>4, <1>5, <1>6 DEF Step

\* newMarkBits implements the abstract allocator: seen from outside, every call
\* is granted its bitmap in one step, aligned, inside an arena and overlapping
\* nothing granted before, and only the operating system can stop the program.
THEOREM Refinement == Spec => ImplementsService
<1>1. Init => Service!Init
  BY DEF Init, Service!Init
<1>2. Init => NeedSized /\ Aligned
  BY FlightInit DEF Init, Aligned
<1>3. IInv /\ NeedSized /\ Aligned /\ [Next]_vars => NeedSized' /\ Aligned'
  <2> SUFFICES ASSUME IInv, NeedSized, Aligned, [Next]_vars PROVE NeedSized' /\ Aligned'
    OBVIOUS
  <2>1. CASE UNCHANGED vars
    BY <2>1 DEF vars, NeedSized, Aligned
  <2>2. CASE \E t \in Threads : Step(t)
    BY <2>2, NeedSizedStep, AlignedStep
  <2> QED
    BY <2>1, <2>2 DEF Next, Stopped
<1>4. IInv /\ NeedSized /\ Aligned /\ [Next]_vars => [Service!Next]_(Service!vars)
  <2> SUFFICES ASSUME IInv, NeedSized, Aligned, [Next]_vars
               PROVE  Service!Next \/ UNCHANGED Service!vars
    OBVIOUS
  <2>1. CASE UNCHANGED vars
    BY <2>1 DEF vars, Service!vars
  <2>2. CASE \E t \in Threads : Step(t)
    BY <2>2, ServiceStep
  <2> QED
    BY <2>1, <2>2 DEF Next, Stopped
<1> QED
  BY <1>1, <1>2, <1>3, <1>4, Invariance, PTL DEF Spec, ImplementsService, Service!Spec
=============================================================================
