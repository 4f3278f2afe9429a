---------------------------- MODULE HpackProofs ----------------------------
(***************************************************************************)
(* The name and value maps of HPACK tables, proved for every set of names  *)
(* and values, every static table, every sequence of writes and resizes.   *)
(*                                                                         *)
(* The argument has two layers.  Lemmas about one table: adding an entry   *)
(* and evicting the n oldest keep both maps on the newest live entries.    *)
(* Then an inductive invariant of Spec: both tables are well formed and    *)
(* have such maps, and what travels on the stream is well formed, so that  *)
(* the decoder only ever adds fields.                                      *)
(***************************************************************************)
EXTENDS Hpack, FiniteSetTheorems, SequenceTheorems, NaturalsInduction,
        WellFoundedInduction, TLAPS

\* A well-formed table.  The accounted size is left out: it is the sum of a
\* sequence, and nothing here depends on it.
Shape(t) ==
  /\ DOMAIN t = {"ents", "evictCount", "byName", "byNameValue", "size", "maxSize"}
  /\ t.ents \in Seq(Fields)
  /\ t.evictCount \in Nat
  /\ t.byName \in [Names -> Nat]
  /\ t.byNameValue \in [Names \X Values -> Nat]
  /\ t.maxSize \in Nat

Sound(t) == Shape(t) /\ NewestByName(t) /\ NewestByPair(t)

\* A new table is empty and so are its maps.
LEMMA NewTableSound ==
  ASSUME NEW max \in Nat
  PROVE  Sound(NewTable(max))
BY DEF NewTable, Sound, Shape, NewestByName, NewestByPair

\* addEntry: the new entry is the newest of its name and pair, and the ids
\* of the others stay what they were.
LEMMA AddSound ==
  ASSUME NEW t, Sound(t), NEW f \in Fields
  PROVE  Sound(add(t, f))
<1> DEFINE u == add(t, f)
<1>1. /\ DOMAIN u = DOMAIN t
      /\ u.ents = Append(t.ents, f)
      /\ u.evictCount = t.evictCount
      /\ u.byName = [t.byName EXCEPT ![f.name] = Len(t.ents) + 1 + t.evictCount]
      /\ u.byNameValue = [t.byNameValue EXCEPT ![Pair(f)] = Len(t.ents) + 1 + t.evictCount]
      /\ u.maxSize = t.maxSize
  BY DEF add, addEntry, IdOf, Sound, Shape
<1>2. f.name \in Names /\ Pair(f) \in Names \X Values
  BY DEF Fields, Pair
<1>3. /\ Len(u.ents) = Len(t.ents) + 1
      /\ u.ents[Len(t.ents) + 1] = f
      /\ \A k \in 1 .. Len(t.ents) : u.ents[k] = t.ents[k]
      /\ Len(t.ents) \in Nat
  BY <1>1 DEF Sound, Shape
<1>4. Shape(u)
  BY <1>1, <1>2, <1>3 DEF Sound, Shape
<1> HIDE DEF u
<1>a. \A k \in 1 .. Len(u.ents) : k \in 1 .. Len(t.ents) \/ k = Len(t.ents) + 1
  BY <1>3
<1>5. NewestByName(u)
  <2> SUFFICES ASSUME NEW x \in Names
               PROVE  \/ /\ u.byName[x] = 0
                         /\ \A k \in 1 .. Len(u.ents) : u.ents[k].name # x
                      \/ \E k \in 1 .. Len(u.ents) :
                           /\ u.byName[x] = IdOf(u, k)
                           /\ u.ents[k].name = x
                           /\ \A j \in k + 1 .. Len(u.ents) : u.ents[j].name # x
    BY DEF NewestByName
  <2>1. CASE x = f.name
    <3>1. /\ u.byName[x] = IdOf(u, Len(t.ents) + 1)
          /\ u.ents[Len(t.ents) + 1].name = x
          /\ \A j \in Len(t.ents) + 1 + 1 .. Len(u.ents) : FALSE
          /\ Len(t.ents) + 1 \in 1 .. Len(u.ents)
      BY <2>1, <1>1, <1>2, <1>3 DEF IdOf, Sound, Shape
    <3> QED BY <3>1
  <2>2. CASE x # f.name
    <3>1. u.byName[x] = t.byName[x]
      BY <2>2, <1>1, <1>2 DEF Sound, Shape
    <3>2. CASE t.byName[x] = 0 /\ \A k \in 1 .. Len(t.ents) : t.ents[k].name # x
      BY <2>2, <3>1, <3>2, <1>3, <1>a, Zenon
    <3>3. CASE \E k \in 1 .. Len(t.ents) :
                 /\ t.byName[x] = IdOf(t, k)
                 /\ t.ents[k].name = x
                 /\ \A j \in k + 1 .. Len(t.ents) : t.ents[j].name # x
      <4> PICK k \in 1 .. Len(t.ents) :
                 /\ t.byName[x] = IdOf(t, k)
                 /\ t.ents[k].name = x
                 /\ \A j \in k + 1 .. Len(t.ents) : t.ents[j].name # x
        BY <3>3
      <4>1. k \in 1 .. Len(u.ents) /\ u.byName[x] = IdOf(u, k) /\ u.ents[k].name = x
        BY <3>1, <1>1, <1>3 DEF IdOf
      <4>2. ASSUME NEW j \in k + 1 .. Len(u.ents)
            PROVE  u.ents[j].name # x
        <5>1. CASE j = Len(t.ents) + 1
          BY <5>1, <2>2, <1>3
        <5>2. CASE j # Len(t.ents) + 1
          <6>1. j \in k + 1 .. Len(t.ents) /\ u.ents[j] = t.ents[j]
            BY <5>2, <1>3
          <6> QED BY <6>1
        <5> QED BY <5>1, <5>2
      <4> QED BY <4>1, <4>2
    <3> QED BY <3>2, <3>3 DEF Sound, NewestByName
  <2> QED BY <2>1, <2>2
<1>6. NewestByPair(u)
  <2> SUFFICES ASSUME NEW p \in Names \X Values
               PROVE  \/ /\ u.byNameValue[p] = 0
                         /\ \A k \in 1 .. Len(u.ents) : Pair(u.ents[k]) # p
                      \/ \E k \in 1 .. Len(u.ents) :
                           /\ u.byNameValue[p] = IdOf(u, k)
                           /\ Pair(u.ents[k]) = p
                           /\ \A j \in k + 1 .. Len(u.ents) : Pair(u.ents[j]) # p
    BY DEF NewestByPair
  <2>1. CASE p = Pair(f)
    <3>1. /\ u.byNameValue[p] = IdOf(u, Len(t.ents) + 1)
          /\ Pair(u.ents[Len(t.ents) + 1]) = p
          /\ \A j \in Len(t.ents) + 1 + 1 .. Len(u.ents) : FALSE
          /\ Len(t.ents) + 1 \in 1 .. Len(u.ents)
      BY <2>1, <1>1, <1>2, <1>3 DEF IdOf, Sound, Shape
    <3> QED BY <3>1
  <2>2. CASE p # Pair(f)
    <3>1. u.byNameValue[p] = t.byNameValue[p]
      BY <2>2, <1>1, <1>2 DEF Sound, Shape
    <3>2. CASE t.byNameValue[p] = 0 /\ \A k \in 1 .. Len(t.ents) : Pair(t.ents[k]) # p
      BY <2>2, <3>1, <3>2, <1>3, <1>a, Zenon
    <3>3. CASE \E k \in 1 .. Len(t.ents) :
                 /\ t.byNameValue[p] = IdOf(t, k)
                 /\ Pair(t.ents[k]) = p
                 /\ \A j \in k + 1 .. Len(t.ents) : Pair(t.ents[j]) # p
      <4> PICK k \in 1 .. Len(t.ents) :
                 /\ t.byNameValue[p] = IdOf(t, k)
                 /\ Pair(t.ents[k]) = p
                 /\ \A j \in k + 1 .. Len(t.ents) : Pair(t.ents[j]) # p
        BY <3>3
      <4>1. k \in 1 .. Len(u.ents) /\ u.byNameValue[p] = IdOf(u, k) /\ Pair(u.ents[k]) = p
        BY <3>1, <1>1, <1>3 DEF IdOf
      <4>2. ASSUME NEW j \in k + 1 .. Len(u.ents)
            PROVE  Pair(u.ents[j]) # p
        <5>1. CASE j = Len(t.ents) + 1
          BY <5>1, <2>2, <1>3
        <5>2. CASE j # Len(t.ents) + 1
          <6>1. j \in k + 1 .. Len(t.ents) /\ u.ents[j] = t.ents[j]
            BY <5>2, <1>3
          <6> QED BY <6>1
        <5> QED BY <5>1, <5>2
      <4> QED BY <4>1, <4>2
    <3> QED BY <3>2, <3>3 DEF Sound, NewestByPair
  <2> QED BY <2>1, <2>2
<1> QED BY <1>4, <1>5, <1>6 DEF Sound, u

\* The number of entries evict drops is at most the number there are, so
\* evictOldest does not panic.
LEMMA SurplusInRange ==
  ASSUME NEW t, t.ents \in Seq(Fields)
  PROVE  Surplus(t) \in 0 .. Len(t.ents)
<1> DEFINE S == {k \in 0 .. Len(t.ents) - 1 : SizeWithout(t)[k] > t.maxSize}
<1>1. Len(t.ents) \in Nat
  OBVIOUS
<1>2. CASE Len(t.ents) = 0
  <2>1. S = {}
    BY <1>2
  <2> QED BY <1>2, <2>1, FS_EmptySet DEF Surplus
<1>3. CASE Len(t.ents) # 0
  <2> DEFINE last == Len(t.ents) - 1
  <2>1. last \in Nat /\ last + 1 = Len(t.ents)
    BY <1>1, <1>3
  <2>2. S \in SUBSET Nat /\ \A s \in S : s <= last
    BY <1>1
  <2> HIDE DEF S, last
  <2>3. IsFiniteSet(S) /\ Cardinality(S) <= last + 1
    BY <2>1, <2>2, FS_BoundedSetOfNaturals
  <2>4. Cardinality(S) \in Nat
    BY <2>3, FS_CardinalityType
  <2> QED BY <1>1, <2>1, <2>3, <2>4 DEF Surplus, S
<1> QED BY <1>2, <1>3

\* evictOldest: an id that named an evicted entry is cleared, and every other
\* id still names the entry it named.
LEMMA EvictOldestSound ==
  ASSUME NEW t, Sound(t), NEW n \in 0 .. Len(t.ents)
  PROVE  Sound(evictOldest(t, n))
<1> DEFINE u == evictOldest(t, n)
<1>1. /\ DOMAIN u = DOMAIN t
      /\ u.ents = SubSeq(t.ents, n + 1, Len(t.ents))
      /\ u.evictCount = t.evictCount + n
      /\ u.byName = [x \in Names |-> IF ClearsName(t, n, x) THEN 0 ELSE t.byName[x]]
      /\ u.byNameValue = [p \in Names \X Values |->
                            IF ClearsPair(t, n, p) THEN 0 ELSE t.byNameValue[p]]
      /\ u.maxSize = t.maxSize
  BY DEF evictOldest, Sound, Shape
<1>2. /\ u.ents \in Seq(Fields)
      /\ Len(u.ents) = Len(t.ents) - n
      /\ Len(t.ents) \in Nat
      /\ \A k \in 1 .. Len(t.ents) - n : u.ents[k] = t.ents[k + n]
  BY <1>1 DEF Sound, Shape
<1>3. Shape(u)
  BY <1>1, <1>2 DEF Sound, Shape
<1> HIDE DEF u
<1>4. NewestByName(u)
  <2> SUFFICES ASSUME NEW x \in Names
               PROVE  \/ /\ u.byName[x] = 0
                         /\ \A k \in 1 .. Len(u.ents) : u.ents[k].name # x
                      \/ \E k \in 1 .. Len(u.ents) :
                           /\ u.byName[x] = IdOf(u, k)
                           /\ u.ents[k].name = x
                           /\ \A j \in k + 1 .. Len(u.ents) : u.ents[j].name # x
    BY DEF NewestByName
  <2>1. CASE t.byName[x] = 0 /\ \A k \in 1 .. Len(t.ents) : t.ents[k].name # x
    BY <2>1, <1>1, <1>2
  <2>2. CASE \E k \in 1 .. Len(t.ents) :
               /\ t.byName[x] = IdOf(t, k)
               /\ t.ents[k].name = x
               /\ \A j \in k + 1 .. Len(t.ents) : t.ents[j].name # x
    <3> PICK k \in 1 .. Len(t.ents) :
               /\ t.byName[x] = IdOf(t, k)
               /\ t.ents[k].name = x
               /\ \A j \in k + 1 .. Len(t.ents) : t.ents[j].name # x
      BY <2>2
    <3>1. CASE k <= n
      <4>1. ClearsName(t, n, x)
        BY <3>1, <1>2 DEF ClearsName
      <4>2. ASSUME NEW i \in 1 .. Len(u.ents) PROVE u.ents[i].name # x
        <5>1. i + n \in k + 1 .. Len(t.ents) /\ u.ents[i] = t.ents[i + n]
          BY <3>1, <1>2
        <5> QED BY <5>1
      <4> QED BY <4>1, <4>2, <1>1
    <3>2. CASE k > n
      <4>1. ~ClearsName(t, n, x)
        BY <3>2, <1>2 DEF ClearsName, IdOf, Sound, Shape
      <4>2. u.byName[x] = IdOf(u, k - n)
        BY <4>1, <3>2, <1>1, <1>2 DEF IdOf, Sound, Shape
      <4>3. k - n \in 1 .. Len(u.ents) /\ u.ents[k - n].name = x
        <5>1. k - n \in 1 .. Len(u.ents) /\ u.ents[k - n] = t.ents[k]
          BY <3>2, <1>2
        <5> QED BY <5>1
      <4>4. ASSUME NEW j \in k - n + 1 .. Len(u.ents) PROVE u.ents[j].name # x
        <5>1. j + n \in k + 1 .. Len(t.ents) /\ u.ents[j] = t.ents[j + n]
          BY <3>2, <1>2
        <5> QED BY <5>1
      <4> QED BY <4>2, <4>3, <4>4
    <3>3. k <= n \/ k > n
      BY <1>2
    <3> QED BY <3>1, <3>2, <3>3
  <2> QED BY <2>1, <2>2 DEF Sound, NewestByName
<1>5. NewestByPair(u)
  <2> SUFFICES ASSUME NEW p \in Names \X Values
               PROVE  \/ /\ u.byNameValue[p] = 0
                         /\ \A k \in 1 .. Len(u.ents) : Pair(u.ents[k]) # p
                      \/ \E k \in 1 .. Len(u.ents) :
                           /\ u.byNameValue[p] = IdOf(u, k)
                           /\ Pair(u.ents[k]) = p
                           /\ \A j \in k + 1 .. Len(u.ents) : Pair(u.ents[j]) # p
    BY DEF NewestByPair
  <2>1. CASE t.byNameValue[p] = 0 /\ \A k \in 1 .. Len(t.ents) : Pair(t.ents[k]) # p
    <3>1. u.byNameValue[p] = 0
      BY <2>1, <1>1
    <3>2. ASSUME NEW k \in 1 .. Len(u.ents) PROVE Pair(u.ents[k]) # p
      <4>1. k + n \in 1 .. Len(t.ents) /\ u.ents[k] = t.ents[k + n]
        BY <1>2
      <4> QED BY <4>1, <2>1
    <3> QED BY <3>1, <3>2
  <2>2. CASE \E k \in 1 .. Len(t.ents) :
               /\ t.byNameValue[p] = IdOf(t, k)
               /\ Pair(t.ents[k]) = p
               /\ \A j \in k + 1 .. Len(t.ents) : Pair(t.ents[j]) # p
    <3> PICK k \in 1 .. Len(t.ents) :
               /\ t.byNameValue[p] = IdOf(t, k)
               /\ Pair(t.ents[k]) = p
               /\ \A j \in k + 1 .. Len(t.ents) : Pair(t.ents[j]) # p
      BY <2>2
    <3>1. CASE k <= n
      <4>1. ClearsPair(t, n, p)
        BY <3>1, <1>2 DEF ClearsPair
      <4>2. ASSUME NEW i \in 1 .. Len(u.ents) PROVE Pair(u.ents[i]) # p
        <5>1. i + n \in k + 1 .. Len(t.ents) /\ u.ents[i] = t.ents[i + n]
          BY <3>1, <1>2
        <5> QED BY <5>1
      <4> QED BY <4>1, <4>2, <1>1
    <3>2. CASE k > n
      <4>1. ~ClearsPair(t, n, p)
        BY <3>2, <1>2 DEF ClearsPair, IdOf, Sound, Shape
      <4>2. u.byNameValue[p] = IdOf(u, k - n)
        BY <4>1, <3>2, <1>1, <1>2 DEF IdOf, Sound, Shape
      <4>3. k - n \in 1 .. Len(u.ents) /\ Pair(u.ents[k - n]) = p
        <5>1. k - n \in 1 .. Len(u.ents) /\ u.ents[k - n] = t.ents[k]
          BY <3>2, <1>2
        <5> QED BY <5>1
      <4>4. ASSUME NEW j \in k - n + 1 .. Len(u.ents) PROVE Pair(u.ents[j]) # p
        <5>1. j + n \in k + 1 .. Len(t.ents) /\ u.ents[j] = t.ents[j + n]
          BY <3>2, <1>2
        <5> QED BY <5>1
      <4> QED BY <4>2, <4>3, <4>4
    <3>3. k <= n \/ k > n
      BY <1>2
    <3> QED BY <3>1, <3>2, <3>3
  <2> QED BY <2>1, <2>2 DEF Sound, NewestByPair
<1> QED BY <1>3, <1>4, <1>5 DEF Sound, u

\* setMaxSize, and the eviction that is part of it.
LEMMA SetMaxSizeSound ==
  ASSUME NEW t, Sound(t), NEW v \in Nat
  PROVE  Sound(setMaxSize(t, v)) /\ setMaxSize(t, v).maxSize = v
<1> DEFINE s == [t EXCEPT !.maxSize = v]
           e == evictOldest(s, Surplus(s))
<1>1. /\ DOMAIN s = DOMAIN t /\ s.maxSize = v
      /\ s.ents = t.ents /\ s.evictCount = t.evictCount
      /\ s.byName = t.byName /\ s.byNameValue = t.byNameValue
  BY DEF Sound, Shape
<1>2. Sound(s)
  BY <1>1 DEF Sound, Shape, NewestByName, NewestByPair, IdOf
<1>3. Surplus(s) \in 0 .. Len(s.ents)
  BY <1>2, SurplusInRange DEF Sound, Shape
<1> HIDE DEF s
<1>4. Sound(e)
  BY <1>2, <1>3, EvictOldestSound
<1>5. e.maxSize = v
  BY <1>1, <1>2 DEF evictOldest, Sound, Shape
<1> DEFINE u == [e EXCEPT !.size = SizeWithout(s)[Surplus(s)]]
<1> HIDE DEF e
<1>6. /\ DOMAIN u = DOMAIN e /\ u.maxSize = e.maxSize
      /\ u.ents = e.ents /\ u.evictCount = e.evictCount
      /\ u.byName = e.byName /\ u.byNameValue = e.byNameValue
  BY <1>4 DEF Sound, Shape
<1>7. Sound(u)
  BY <1>4, <1>6 DEF Sound, Shape, NewestByName, NewestByPair, IdOf
<1>8. setMaxSize(t, v) = u
  BY DEF setMaxSize, evict, u, e, s
<1> QED BY <1>5, <1>6, <1>7, <1>8

\* The two parts of what search returns.
LEMMA FoundParts ==
  ASSUME NEW a, NEW b, NEW r, r = [i |-> a, match |-> b]
  PROVE  r.i = a /\ r.match = b
OBVIOUS

\* The entry of a dynamic table that HPACK index i stands for.
EntryAt(t, i) == t.ents[Len(t.ents) + 1 - i]

\* search on a sound dynamic table: idToIndex does not panic, and the index,
\* if it is not 0, is that of the newest entry with the field's name, or its
\* name and value.
LEMMA SearchFinds ==
  ASSUME NEW t, Sound(t), NEW f \in Fields
  PROVE  /\ search(t, f, FALSE).i \in 0 .. Len(t.ents)
         /\ search(t, f, FALSE).match \in BOOLEAN
         /\ search(t, f, FALSE).i # 0 => EntryAt(t, search(t, f, FALSE).i).name = f.name
         /\ search(t, f, FALSE).match =>
              /\ search(t, f, FALSE).i # 0
              /\ Pair(EntryAt(t, search(t, f, FALSE).i)) = Pair(f)
              /\ ~f.sensitive
<1>1. /\ f.name \in Names /\ Pair(f) \in Names \X Values
      /\ t.ents \in Seq(Fields) /\ Len(t.ents) \in Nat /\ t.evictCount \in Nat
  BY DEF Fields, Pair, Sound, Shape
<1>2. ASSUME NEW k \in 1 .. Len(t.ents)
      PROVE  /\ idToIndex(t, IdOf(t, k), FALSE) \in 1 .. Len(t.ents)
             /\ EntryAt(t, idToIndex(t, IdOf(t, k), FALSE)) = t.ents[k]
  <2>1. idToIndex(t, IdOf(t, k), FALSE) = Len(t.ents) + 1 - k
    BY <1>1 DEF idToIndex, IdOf
  <2>2. Len(t.ents) + 1 - k \in 1 .. Len(t.ents) /\ Len(t.ents) + 1 - (Len(t.ents) + 1 - k) = k
    BY <1>1
  <2> QED BY <2>1, <2>2 DEF EntryAt
<1>3. CASE ~f.sensitive /\ t.byNameValue[Pair(f)] # 0
  <2>1. PICK k \in 1 .. Len(t.ents) :
               t.byNameValue[Pair(f)] = IdOf(t, k) /\ Pair(t.ents[k]) = Pair(f)
    BY <1>1, <1>3 DEF Sound, NewestByPair
  <2>2. search(t, f, FALSE) = [i |-> idToIndex(t, IdOf(t, k), FALSE), match |-> TRUE]
    BY <1>3, <2>1, Zenon DEF search
  <2>3. t.ents[k].name = f.name
    BY <2>1 DEF Pair
  <2> DEFINE e == idToIndex(t, IdOf(t, k), FALSE)
  <2>4. e \in 1 .. Len(t.ents) /\ EntryAt(t, e) = t.ents[k]
    BY <1>2
  <2> HIDE DEF e
  <2>5. e \in 0 .. Len(t.ents) /\ e # 0
    BY <1>1, <2>4
  <2>6. EntryAt(t, e).name = f.name /\ Pair(EntryAt(t, e)) = Pair(f)
    BY <2>1, <2>3, <2>4
  <2>7. search(t, f, FALSE) = [i |-> e, match |-> TRUE]
    BY <2>2 DEF e
  <2>8. search(t, f, FALSE).i = e /\ search(t, f, FALSE).match = TRUE
    BY <2>7, FoundParts, Zenon
  <2> QED BY <1>3, <2>5, <2>6, <2>8, Zenon
<1>4. CASE ~(~f.sensitive /\ t.byNameValue[Pair(f)] # 0) /\ t.byName[f.name] # 0
  <2>1. PICK k \in 1 .. Len(t.ents) :
               t.byName[f.name] = IdOf(t, k) /\ t.ents[k].name = f.name
    BY <1>1, <1>4 DEF Sound, NewestByName
  <2>2. search(t, f, FALSE) = [i |-> idToIndex(t, IdOf(t, k), FALSE), match |-> FALSE]
    BY <1>4, <2>1, Zenon DEF search
  <2> DEFINE e == idToIndex(t, IdOf(t, k), FALSE)
  <2>3. e \in 1 .. Len(t.ents) /\ EntryAt(t, e) = t.ents[k]
    BY <1>2
  <2> HIDE DEF e
  <2>4. e \in 0 .. Len(t.ents) /\ EntryAt(t, e).name = f.name
    BY <1>1, <2>1, <2>3
  <2>5. search(t, f, FALSE) = [i |-> e, match |-> FALSE]
    BY <2>2 DEF e
  <2>6. search(t, f, FALSE).i = e /\ search(t, f, FALSE).match = FALSE
    BY <2>5, FoundParts, Zenon
  <2> QED BY <2>4, <2>6, Zenon
<1>5. CASE ~(~f.sensitive /\ t.byNameValue[Pair(f)] # 0) /\ t.byName[f.name] = 0
  <2>1. search(t, f, FALSE) = [i |-> 0, match |-> FALSE]
    BY <1>5, Zenon DEF search
  <2>2. 0 \in 0 .. Len(t.ents)
    BY <1>1
  <2>3. search(t, f, FALSE).i = 0 /\ search(t, f, FALSE).match = FALSE
    BY <2>1, FoundParts, Zenon
  <2> QED BY <2>2, <2>3, Zenon
<1> QED BY <1>3, <1>4, <1>5

-----------------------------------------------------------------------------
(* What travels on the stream *)

\* As Representations, and a literal whose index is 0 has a name.
Wire ==
  [kind : {"indexed"}, idx : Nat, of : Fields]
    \cup [kind : {"literal"}, it : IndexTypes, idx : Nat \ {0},
          name : {NoName}, value : Values, of : Fields]
    \cup [kind : {"literal"}, it : IndexTypes, idx : {0},
          name : Names, value : Values, of : Fields]
    \cup [kind : {"size"}, size : Nat]
    \cup [kind : {"end"}]

\* The static table is sound as well.
LEMMA StaticSound == Sound(Static)
BY StaticAssumption DEF Sound, Shape, Tables

\* search on the static table, whose ids are its indices.
LEMMA StaticFinds ==
  ASSUME NEW f \in Fields
  PROVE  /\ search(Static, f, TRUE).i \in 0 .. Len(Static.ents)
         /\ search(Static, f, TRUE).match \in BOOLEAN
         /\ search(Static, f, TRUE).i # 0 =>
              Static.ents[search(Static, f, TRUE).i].name = f.name
         /\ search(Static, f, TRUE).match =>
              /\ search(Static, f, TRUE).i # 0
              /\ Pair(Static.ents[search(Static, f, TRUE).i]) = Pair(f)
              /\ ~f.sensitive
<1>1. /\ f.name \in Names /\ Pair(f) \in Names \X Values
      /\ Static.ents \in Seq(Fields) /\ Len(Static.ents) \in Nat
  BY StaticSound DEF Fields, Pair, Sound, Shape
<1>2. ASSUME NEW k \in 1 .. Len(Static.ents)
      PROVE  idToIndex(Static, IdOf(Static, k), TRUE) = k
  BY <1>1, StaticAssumption DEF idToIndex, IdOf
<1>3. CASE ~f.sensitive /\ Static.byNameValue[Pair(f)] # 0
  <2>1. PICK k \in 1 .. Len(Static.ents) :
               /\ Static.byNameValue[Pair(f)] = IdOf(Static, k)
               /\ Pair(Static.ents[k]) = Pair(f)
    BY <1>1, <1>3, StaticAssumption DEF NewestByPair
  <2>2. search(Static, f, TRUE) = [i |-> idToIndex(Static, IdOf(Static, k), TRUE), match |-> TRUE]
    BY <1>3, <2>1, Zenon DEF search
  <2>3. search(Static, f, TRUE).i = k /\ search(Static, f, TRUE).match = TRUE
    <3>1. search(Static, f, TRUE) = [i |-> k, match |-> TRUE]
      BY <1>2, <2>2
    <3> QED BY <3>1, FoundParts, Zenon
  <2>4. Static.ents[k].name = f.name /\ k # 0 /\ k \in 0 .. Len(Static.ents)
    BY <1>1, <2>1 DEF Pair
  <2> QED BY <1>3, <2>1, <2>3, <2>4, Zenon
<1>4. CASE ~(~f.sensitive /\ Static.byNameValue[Pair(f)] # 0) /\ Static.byName[f.name] # 0
  <2>1. PICK k \in 1 .. Len(Static.ents) :
               Static.byName[f.name] = IdOf(Static, k) /\ Static.ents[k].name = f.name
    BY <1>1, <1>4, StaticAssumption DEF NewestByName
  <2>2. search(Static, f, TRUE) = [i |-> idToIndex(Static, IdOf(Static, k), TRUE), match |-> FALSE]
    BY <1>4, <2>1, Zenon DEF search
  <2>3. search(Static, f, TRUE).i = k /\ search(Static, f, TRUE).match = FALSE
    <3>1. search(Static, f, TRUE) = [i |-> k, match |-> FALSE]
      BY <1>2, <2>2
    <3> QED BY <3>1, FoundParts, Zenon
  <2>4. k \in 0 .. Len(Static.ents)
    BY <1>1
  <2> QED BY <2>1, <2>3, <2>4, Zenon
<1>5. CASE ~(~f.sensitive /\ Static.byNameValue[Pair(f)] # 0) /\ Static.byName[f.name] = 0
  <2>1. search(Static, f, TRUE) = [i |-> 0, match |-> FALSE]
    BY <1>5, Zenon DEF search
  <2>2. search(Static, f, TRUE).i = 0 /\ search(Static, f, TRUE).match = FALSE
    BY <2>1, FoundParts, Zenon
  <2>3. 0 \in 0 .. Len(Static.ents)
    BY <1>1
  <2> QED BY <2>2, <2>3, Zenon
<1> QED BY <1>3, <1>4, <1>5

\* searchTable returns an index.
LEMMA SearchTableIndex ==
  ASSUME Sound(enc), NEW f \in Fields
  PROVE  searchTable(f).i \in Nat
<1> DEFINE s == search(Static, f, TRUE)
           d == search(enc, f, FALSE)
<1>1. s.i \in Nat
  <2>1. s.i \in 0 .. Len(Static.ents)
    BY StaticFinds, Zenon
  <2>2. Len(Static.ents) \in Nat
    BY StaticSound DEF Sound, Shape
  <2> HIDE DEF s
  <2> QED BY <2>1, <2>2
<1>2. d.i \in Nat
  <2>1. d.i \in 0 .. Len(enc.ents)
    BY SearchFinds, Zenon
  <2>2. Len(enc.ents) \in Nat
    BY DEF Sound, Shape
  <2> HIDE DEF d
  <2> QED BY <2>1, <2>2
<1>3. Len(Static.ents) \in Nat
  BY StaticSound DEF Sound, Shape
<1> HIDE DEF s, d
<1>4. CASE ~s.match /\ (d.match \/ (s.i = 0 /\ d.i # 0))
  <2>1. searchTable(f) = [i |-> d.i + Len(Static.ents), match |-> d.match]
    BY <1>4, Zenon DEF searchTable, s, d
  <2>2. searchTable(f).i = d.i + Len(Static.ents)
    BY <2>1, FoundParts, Zenon
  <2> QED BY <1>2, <1>3, <2>2
<1>5. CASE ~(~s.match /\ (d.match \/ (s.i = 0 /\ d.i # 0)))
  <2>1. searchTable(f) = s
    BY <1>5, Zenon DEF searchTable, s, d
  <2> QED BY <1>1, <2>1
<1> QED BY <1>4, <1>5

\* What WriteField sends is well formed.
LEMMA SentIsWire ==
  ASSUME NEW f \in Fields, NEW i \in Nat
  PROVE  /\ Indexed(i, f) \in Wire
         /\ Literal(TypeOf(f), i, f) \in Wire
<1>1. Indexed(i, f) \in Wire
  BY DEF Indexed, Wire
<1>2. TypeOf(f) \in IndexTypes
  BY Zenon DEF TypeOf, IndexTypes
<1>3. f.name \in Names /\ f.value \in Values
  BY DEF Fields
<1>4. ASSUME NEW it \in IndexTypes
      PROVE  Literal(it, i, f) \in Wire
  <2>1. CASE i = 0
    <3>1. Literal(it, i, f) = [kind |-> "literal", it |-> it, idx |-> 0,
                               name |-> f.name, value |-> f.value, of |-> f]
      BY <2>1 DEF Literal
    <3>2. Literal(it, i, f) \in [kind : {"literal"}, it : IndexTypes, idx : {0},
                                 name : Names, value : Values, of : Fields]
      BY <3>1, <1>3
    <3> QED BY <3>2, Zenon DEF Wire
  <2>2. CASE i # 0
    <3>1. Literal(it, i, f) = [kind |-> "literal", it |-> it, idx |-> i,
                               name |-> NoName, value |-> f.value, of |-> f]
      BY <2>2 DEF Literal
    <3>2. Literal(it, i, f) \in [kind : {"literal"}, it : IndexTypes, idx : Nat \ {0},
                                 name : {NoName}, value : Values, of : Fields]
      BY <3>1, <1>3, <2>2
    <3> QED BY <3>2, Zenon DEF Wire
  <2> QED BY <2>1, <2>2
<1> QED BY <1>1, <1>2, <1>4, Zenon

\* So are the size updates.
LEMMA SizeUpdatesAreWire ==
  ASSUME Sound(enc), minSize \in Nat
  PROVE  SizeUpdates \in Seq(Wire)
<1>1. SizeUpdate(minSize) \in Wire /\ SizeUpdate(enc.maxSize) \in Wire
  BY DEF SizeUpdate, Wire, Sound, Shape
<1>2. <<>> \in Seq(Wire) /\ <<SizeUpdate(minSize)>> \in Seq(Wire)
      /\ <<SizeUpdate(enc.maxSize)>> \in Seq(Wire)
  BY <1>1
<1>3. (IF minSize < enc.maxSize THEN <<SizeUpdate(minSize)>> ELSE <<>>) \in Seq(Wire)
  BY <1>2
<1> DEFINE least == IF minSize < enc.maxSize THEN <<SizeUpdate(minSize)>> ELSE <<>>
<1>4. SizeUpdates = <<>> \/ SizeUpdates = least \o <<SizeUpdate(enc.maxSize)>>
  BY Zenon DEF SizeUpdates
<1> HIDE DEF least
<1>5. least \in Seq(Wire)
  BY <1>3 DEF least
<1>6. least \o <<SizeUpdate(enc.maxSize)>> \in Seq(Wire)
  BY <1>2, <1>5, ConcatProperties, Zenon
<1> QED BY <1>2, <1>4, <1>6, Zenon

\* An index beyond the m static entries, counted from the newest of n.
LEMMA ReversedIndex ==
  ASSUME NEW m \in Nat, NEW n \in Nat, NEW i \in Nat, i \in 1 .. n + m, ~(i <= m)
  PROVE  (n - (i - m)) + 1 \in 1 .. n
OBVIOUS

\* What an index the decoder knows stands for.
LEMMA AtIsField ==
  ASSUME Sound(dec), NEW i \in Nat, Known(i)
  PROVE  at(i) \in Fields
<1>1. /\ Static.ents \in Seq(Fields) /\ dec.ents \in Seq(Fields)
      /\ Len(Static.ents) \in Nat /\ Len(dec.ents) \in Nat
      /\ i \in 1 .. Len(dec.ents) + Len(Static.ents)
  BY StaticSound DEF Sound, Shape, Known, maxTableIndex
<1>2. CASE i <= Len(Static.ents)
  BY <1>1, <1>2 DEF at
<1>3. CASE ~(i <= Len(Static.ents))
  <2>1. (Len(dec.ents) - (i - Len(Static.ents))) + 1 \in 1 .. Len(dec.ents)
    BY <1>1, <1>3, ReversedIndex, Zenon
  <2>2. at(i) = dec.ents[(Len(dec.ents) - (i - Len(Static.ents))) + 1]
    BY <1>3, Zenon DEF at
  <2>3. \A k \in 1 .. Len(dec.ents) : dec.ents[k] \in Fields
    BY <1>1
  <2> QED BY <2>1, <2>2, <2>3, Zenon
<1> QED BY <1>2, <1>3

-----------------------------------------------------------------------------
(* The inductive invariant *)

IInv ==
  /\ Sound(enc) /\ Sound(dec)
  /\ stream \in Seq(Wire)
  /\ minSize \in Nat /\ maxSizeLimit \in Nat

\* Both tables are new.
LEMMA InitInv == Init => IInv
<1> SUFFICES ASSUME Init PROVE IInv
  OBVIOUS
<1>1. Sound(enc) /\ Sound(dec)
  BY NewTableSound, SizesAssumption DEF Init
<1> QED BY <1>1, SizesAssumption DEF Init, IInv

\* WriteField adds the field it sends as a literal, if it should.
LEMMA WriteFieldInv ==
  ASSUME IInv, NEW f \in Sent, WriteField(f)
  PROVE  IInv'
<1> DEFINE found == searchTable(f)
<1>1. f \in Fields
  BY SentAssumption
<1>2. found.i \in Nat
  BY <1>1, SearchTableIndex DEF IInv
<1> HIDE DEF found
<1>3. \/ /\ stream' = stream \o SizeUpdates \o <<Indexed(found.i, f)>>
         /\ enc' = enc
      \/ /\ stream' = stream \o SizeUpdates \o <<Literal(TypeOf(f), found.i, f)>>
         /\ enc' = enc \/ enc' = add(enc, f)
  BY DEF WriteField, found
<1>4. minSize' \in Nat /\ maxSizeLimit' = maxSizeLimit /\ dec' = dec
  BY SizesAssumption DEF WriteField, decoder, IInv
<1>5. Sound(enc')
  BY <1>1, <1>3, AddSound, Zenon DEF IInv
<1>6. stream' \in Seq(Wire)
  <2>1. stream \o SizeUpdates \in Seq(Wire)
    BY SizeUpdatesAreWire, ConcatProperties, Zenon DEF IInv
  <2>2. ASSUME NEW r \in Wire PROVE <<r>> \in Seq(Wire)
    OBVIOUS
  <2>3. PICK r \in Wire : stream' = stream \o SizeUpdates \o <<r>>
    BY <1>1, <1>2, <1>3, SentIsWire, Zenon
  <2> QED BY <2>1, <2>2, <2>3, ConcatProperties, Zenon
<1> QED BY <1>4, <1>5, <1>6 DEF IInv

\* The end of a block adds its mark to the stream.
LEMMA EndBlockInv ==
  ASSUME IInv, EndBlock
  PROVE  IInv'
<1>1. EndOfBlock \in Wire
  BY DEF EndOfBlock, Wire
<1>2. /\ stream' = Append(stream, EndOfBlock)
      /\ enc' = enc /\ dec' = dec /\ minSize' = minSize /\ maxSizeLimit' = maxSizeLimit
  BY DEF EndBlock, decoder
<1> QED BY <1>1, <1>2 DEF IInv

\* A change of the size resizes the encoder's table.
LEMMA ResizeInv ==
  ASSUME IInv, NEW v \in Sizes,
         SetMaxDynamicTableSize(v) \/ SetMaxDynamicTableSizeLimit(v)
  PROVE  IInv'
<1>1. v \in Nat
  BY SizesAssumption
<1>2. CASE SetMaxDynamicTableSize(v)
  <2> DEFINE w == IF v > maxSizeLimit THEN maxSizeLimit ELSE v
  <2>1. w \in Nat
    BY <1>1 DEF IInv
  <2>2. /\ minSize' = IF w < minSize THEN w ELSE minSize
        /\ enc' = setMaxSize(enc, w)
        /\ maxSizeLimit' = maxSizeLimit /\ stream' = stream /\ dec' = dec
    BY <1>2 DEF SetMaxDynamicTableSize, decoder
  <2> HIDE DEF w
  <2>3. Sound(enc')
    BY <2>1, <2>2, SetMaxSizeSound DEF IInv
  <2>4. minSize' \in Nat
    BY <2>1, <2>2 DEF IInv
  <2> QED BY <2>2, <2>3, <2>4 DEF IInv
<1>3. CASE SetMaxDynamicTableSizeLimit(v)
  <2>1. /\ enc' = setMaxSize(enc, v) \/ enc' = enc
        /\ maxSizeLimit' = v /\ minSize' = minSize /\ stream' = stream /\ dec' = dec
    BY <1>3 DEF SetMaxDynamicTableSizeLimit, decoder
  <2>2. Sound(enc')
    BY <1>1, <2>1, SetMaxSizeSound, Zenon DEF IInv
  <2> QED BY <1>1, <2>1, <2>2 DEF IInv
<1> QED BY <1>2, <1>3

\* The decoder adds the literals it is told to index, and resizes its table.
LEMMA WriteInv ==
  ASSUME IInv, Write
  PROVE  IInv'
<1> DEFINE r == Head(stream)
<1>1. /\ stream' = Tail(stream) /\ stream # <<>>
      /\ enc' = enc /\ minSize' = minSize /\ maxSizeLimit' = maxSizeLimit
  BY DEF Write, encoder
<1>2. r \in Wire /\ stream' \in Seq(Wire)
  BY <1>1 DEF IInv
<1>3. \/ parseFieldIndexed(r)
      \/ parseFieldLiteral(r)
      \/ parseDynamicTableSizeUpdate(r)
  BY DEF Write
<1> HIDE DEF r
<1>4. CASE parseFieldIndexed(r)
  <2>1. dec' = dec
    BY <1>4 DEF parseFieldIndexed
  <2> QED BY <1>1, <1>2, <2>1 DEF IInv
<1>5. CASE parseFieldLiteral(r)
  <2>1. r.kind = "literal"
    BY <1>5 DEF parseFieldLiteral
  <2>2. /\ r.idx \in Nat /\ r.value \in Values
        /\ r.idx = 0 => r.name \in Names
    BY <1>2, <2>1 DEF Wire
  <2> DEFINE name == IF r.idx = 0 THEN r.name ELSE at(r.idx).name
             f == [name |-> name, value |-> r.value, sensitive |-> FALSE]
  <2>3. CASE dec' = dec
    BY <1>1, <1>2, <2>3 DEF IInv
  <2>4. CASE dec' = add(dec, f) /\ (r.idx = 0 \/ Known(r.idx))
    <3>1. name \in Names
      <4>1. CASE r.idx = 0
        BY <4>1, <2>2
      <4>2. CASE r.idx # 0
        <5>1. at(r.idx) \in Fields
          BY <2>2, <2>4, <4>2, AtIsField DEF IInv
        <5>2. at(r.idx).name \in Names
          BY <5>1 DEF Fields
        <5> QED BY <4>2, <5>2
      <4> QED BY <4>1, <4>2
    <3> HIDE DEF name
    <3>2. f \in Fields
      BY <2>2, <3>1 DEF Fields
    <3> HIDE DEF f
    <3>3. Sound(dec')
      BY <2>4, <3>2, AddSound DEF IInv
    <3> QED BY <1>1, <1>2, <3>3 DEF IInv
  <2>5. dec' = dec \/ (dec' = add(dec, f) /\ (r.idx = 0 \/ Known(r.idx)))
    BY <1>5 DEF parseFieldLiteral
  <2> QED BY <2>3, <2>4, <2>5
<1>6. CASE parseDynamicTableSizeUpdate(r)
  <2>1. r.kind = "size"
    BY <1>6 DEF parseDynamicTableSizeUpdate
  <2>2. r.size \in Nat
    BY <1>2, <2>1 DEF Wire
  <2>3. dec' = dec \/ dec' = setMaxSize(dec, r.size)
    BY <1>6 DEF parseDynamicTableSizeUpdate
  <2>4. Sound(dec')
    BY <2>2, <2>3, SetMaxSizeSound, Zenon DEF IInv
  <2> QED BY <1>1, <1>2, <2>4 DEF IInv
<1> QED BY <1>3, <1>4, <1>5, <1>6

\* Close only takes the mark off the stream.
LEMMA CloseInv ==
  ASSUME IInv, Close
  PROVE  IInv'
<1>1. /\ stream' = Tail(stream) /\ stream # <<>> /\ enc' = enc /\ dec' = dec
      /\ minSize' = minSize /\ maxSizeLimit' = maxSizeLimit
  BY DEF Close, encoder
<1>2. stream' \in Seq(Wire)
  BY <1>1 DEF IInv
<1> QED BY <1>1, <1>2 DEF IInv

\* Both tables stay sound in every behaviour.
THEOREM Invariance == Spec => []IInv
<1>1. IInv /\ [Next]_vars => IInv'
  <2> SUFFICES ASSUME IInv, [Next]_vars PROVE IInv'
    OBVIOUS
  <2>1. ASSUME NEW f \in Sent, WriteField(f) PROVE IInv'
    BY <2>1, WriteFieldInv
  <2>2. CASE EndBlock
    BY <2>2, EndBlockInv
  <2>3. ASSUME NEW v \in Sizes,
               SetMaxDynamicTableSize(v) \/ SetMaxDynamicTableSizeLimit(v)
        PROVE  IInv'
    BY <2>3, ResizeInv
  <2>4. CASE Write
    BY <2>4, WriteInv
  <2>5. CASE Close
    BY <2>5, CloseInv
  <2>6. CASE UNCHANGED vars
    <3>1. /\ enc' = enc /\ dec' = dec /\ stream' = stream
          /\ minSize' = minSize /\ maxSizeLimit' = maxSizeLimit
      BY <2>6 DEF vars, encoder, decoder
    <3> QED BY <3>1 DEF IInv
  <2> QED BY <2>1, <2>2, <2>3, <2>4, <2>5, <2>6 DEF Next
<1> QED BY InitInv, <1>1, PTL DEF Spec

\* addEntry and evictOldest keep byName and byNameValue of both tables on
\* the newest entries, for every table size and every sequence of fields.
THEOREM MapsStayNewest == Spec => []MapsNewest
<1>1. IInv => MapsNewest
  BY DEF IInv, Sound, MapsNewest
<1> QED BY Invariance, <1>1, PTL

-----------------------------------------------------------------------------
(***************************************************************************)
(* The size of entries.  Sums(s) has the sizes of all beginnings of s; a   *)
(* least counterexample takes the place of induction on their length.      *)
(***************************************************************************)
\* A set of naturals that is not empty has a least member.
LEMMA LeastNatural ==
  ASSUME NEW T, T \subseteq Nat, T # {}
  PROVE  \E x \in T : \A y \in T : x <= y
<1> DEFINE R == OpToRel(<, Nat)
<1>1. IsWellFoundedOn(R, Nat)
  BY NatLessThanWellFounded
<1> HIDE DEF R
<1>2. PICK x \in T : \A y \in T : ~ (<<y, x>> \in R)
  BY <1>1, WFMin
<1>3. \A y \in T : y < x => <<y, x>> \in R
  BY <1>2 DEF R, OpToRel
<1>4. \A y \in T : ~ (y < x)
  BY <1>2, <1>3
<1> QED BY <1>4

SumsTo(s, n, f) == [k \in 0 .. n |-> IF k = 0 THEN 0 ELSE f[k - 1] + Size(s[k])]
Sums(s) == CHOOSE f : f = SumsTo(s, Len(s), f)
Total(s) == Sums(s)[Len(s)]

\* HeaderField.Size is positive, whatever the name and the value.
LEMMA SizePositive ==
  ASSUME NEW f \in Fields
  PROVE  Size(f) \in Nat /\ Size(f) > 0
BY LengthAssumption DEF Fields, Size

\* The sums exist: a shortest beginning without them would get them from
\* those of the one before.
LEMMA SumsExist ==
  ASSUME NEW s \in Seq(Fields)
  PROVE  \A n \in 0 .. Len(s) : \E f : f = SumsTo(s, n, f)
<1> DEFINE Missing == {n \in 0 .. Len(s) : ~ \E f : f = SumsTo(s, n, f)}
<1> SUFFICES ASSUME Missing # {} PROVE FALSE
  OBVIOUS
<1>0. Len(s) \in Nat
  OBVIOUS
<1>1. Missing \subseteq Nat
  BY <1>0
<1>2. PICK x \in Missing : \A y \in Missing : x <= y
  BY <1>1, LeastNatural
<1>3. CASE x = 0
  <2> DEFINE g == [k \in 0 .. 0 |-> 0]
  <2>1. g = SumsTo(s, 0, g)
    BY DEF SumsTo
  <2> QED BY <1>2, <1>3, <2>1
<1>4. CASE x # 0
  <2>1. x - 1 \in 0 .. Len(s) /\ x \in 0 .. Len(s) /\ ~ (x <= x - 1)
    BY <1>0, <1>4
  <2>2. PICK f : f = SumsTo(s, x - 1, f)
    BY <1>2, <2>1
  <2> DEFINE g == [k \in 0 .. x |-> IF k = x THEN f[x - 1] + Size(s[x]) ELSE f[k]]
  <2>3. ASSUME NEW k \in 0 .. x
        PROVE  g[k] = IF k = 0 THEN 0 ELSE g[k - 1] + Size(s[k])
    <3>1. CASE k = 0
      <4>1. f[0] = 0
        BY <2>1, <2>2 DEF SumsTo
      <4> QED BY <1>4, <3>1, <4>1
    <3>2. CASE k = x
      <4>1. g[k - 1] = f[x - 1]
        BY <2>1, <3>2
      <4> QED BY <1>4, <3>2, <4>1
    <3>3. CASE k # 0 /\ k # x
      <4>1. k \in 0 .. x - 1 /\ k - 1 \in 0 .. x /\ k - 1 # x
        BY <2>1, <3>3
      <4>2. f[k] = f[k - 1] + Size(s[k])
        BY <2>2, <3>3, <4>1 DEF SumsTo
      <4> QED BY <3>3, <4>1, <4>2
    <3> QED BY <3>1, <3>2, <3>3
  <2>4. g = SumsTo(s, x, g)
    BY <2>3 DEF SumsTo
  <2> QED BY <2>4
<1> QED BY <1>3, <1>4

\* What Sums computes.
LEMMA SumsStep ==
  ASSUME NEW s \in Seq(Fields)
  PROVE  /\ Sums(s)[0] = 0
         /\ \A k \in 1 .. Len(s) : Sums(s)[k] = Sums(s)[k - 1] + Size(s[k])
<1>0. Len(s) \in Nat
  OBVIOUS
<1>1. \E f : f = SumsTo(s, Len(s), f)
  BY <1>0, SumsExist
<1>2. Sums(s) = SumsTo(s, Len(s), Sums(s))
  BY <1>1, Zenon DEF Sums
<1> QED BY <1>0, <1>2 DEF SumsTo

\* Sums are naturals.
LEMMA SumsNatural ==
  ASSUME NEW s \in Seq(Fields)
  PROVE  \A n \in 0 .. Len(s) : Sums(s)[n] \in Nat
<1> DEFINE Bad == {n \in 0 .. Len(s) : Sums(s)[n] \notin Nat}
<1> SUFFICES ASSUME Bad # {} PROVE FALSE
  OBVIOUS
<1>0. Len(s) \in Nat
  OBVIOUS
<1>1. Bad \subseteq Nat
  BY <1>0
<1>2. PICK x \in Bad : \A y \in Bad : x <= y
  BY <1>1, LeastNatural
<1>3. x # 0
  BY <1>2, SumsStep
<1>4. x - 1 \in 0 .. Len(s) /\ x \in 1 .. Len(s) /\ ~ (x <= x - 1)
  BY <1>0, <1>3
<1>5. Sums(s)[x - 1] \in Nat
  BY <1>2, <1>4
<1>6. s[x] \in Fields
  BY <1>4
<1> QED BY <1>2, <1>4, <1>5, <1>6, SumsStep, SizePositive

\* g begins c above h and takes the same steps.
Parallel(n, g, h, c) ==
  /\ n \in Nat /\ c \in Int /\ g[0] = h[0] + c
  /\ \A k \in 0 .. n : h[k] \in Int
  /\ \A k \in 1 .. n : \E d \in Int : g[k] = g[k - 1] + d /\ h[k] = h[k - 1] + d

\* Then it stays c above h.
LEMMA SameSteps ==
  ASSUME NEW n, NEW g, NEW h, NEW c, Parallel(n, g, h, c)
  PROVE  \A k \in 0 .. n : g[k] = h[k] + c
<1> USE DEF Parallel
<1> DEFINE Bad == {k \in 0 .. n : g[k] # h[k] + c}
<1> SUFFICES ASSUME Bad # {} PROVE FALSE
  OBVIOUS
<1>1. Bad \subseteq Nat
  OBVIOUS
<1>2. PICK x \in Bad : \A y \in Bad : x <= y
  BY <1>1, LeastNatural
<1>3. x # 0
  BY <1>2
<1>4. x - 1 \in 0 .. n /\ x \in 1 .. n /\ ~ (x <= x - 1)
  BY <1>3
<1>5. g[x - 1] = h[x - 1] + c
  BY <1>2, <1>4
<1>6. PICK d \in Int : g[x] = g[x - 1] + d /\ h[x] = h[x - 1] + d
  BY <1>4
<1>7. h[x - 1] \in Int /\ h[x] \in Int
  BY <1>4
<1> QED BY <1>2, <1>5, <1>6, <1>7

\* Longer beginnings are bigger.
LEMMA SumsRise ==
  ASSUME NEW s \in Seq(Fields), NEW i \in 0 .. Len(s)
  PROVE  \A j \in i + 1 .. Len(s) : Sums(s)[i] < Sums(s)[j]
<1> DEFINE Bad == {j \in i + 1 .. Len(s) : ~ (Sums(s)[i] < Sums(s)[j])}
<1> SUFFICES ASSUME Bad # {} PROVE FALSE
  OBVIOUS
<1>0. Len(s) \in Nat
  OBVIOUS
<1>1. Bad \subseteq Nat
  BY <1>0
<1>2. PICK x \in Bad : \A y \in Bad : x <= y
  BY <1>1, LeastNatural
<1>3. x \in 1 .. Len(s) /\ x - 1 \in 0 .. Len(s) /\ ~ (x <= x - 1)
  BY <1>0
<1>4. s[x] \in Fields
  BY <1>3
<1>5. /\ Sums(s)[x] = Sums(s)[x - 1] + Size(s[x])
      /\ Sums(s)[x] \in Nat /\ Sums(s)[x - 1] \in Nat /\ Sums(s)[i] \in Nat
      /\ Size(s[x]) \in Nat /\ Size(s[x]) > 0
  BY <1>3, <1>4, SumsStep, SumsNatural, SizePositive
<1>6. CASE x - 1 = i
  BY <1>2, <1>5, <1>6
<1>7. CASE x - 1 # i
  <2>1. x - 1 \in i + 1 .. Len(s)
    BY <1>3, <1>7
  <2>2. Sums(s)[i] < Sums(s)[x - 1]
    BY <1>2, <1>3, <2>1
  <2> QED BY <1>2, <1>5, <2>2
<1> QED BY <1>6, <1>7

\* The size of one more entry is added to the total.
LEMMA AppendTotal ==
  ASSUME NEW s \in Seq(Fields), NEW f \in Fields
  PROVE  Total(Append(s, f)) = Total(s) + Size(f)
<1> DEFINE a == Append(s, f)
<1>1. /\ a \in Seq(Fields) /\ Len(s) \in Nat /\ Len(a) = Len(s) + 1 /\ a[Len(s) + 1] = f
      /\ \A k \in 1 .. Len(s) : a[k] = s[k]
  OBVIOUS
<1> HIDE DEF a
<1>2. \A k \in 0 .. Len(s) : Sums(s)[k] \in Int
  BY SumsNatural
<1>3. Sums(a)[0] = Sums(s)[0] + 0
  BY <1>1, SumsStep
<1>4. ASSUME NEW k \in 1 .. Len(s)
      PROVE  \E d \in Int : Sums(a)[k] = Sums(a)[k - 1] + d /\ Sums(s)[k] = Sums(s)[k - 1] + d
  <2>1. k \in 1 .. Len(a) /\ a[k] = s[k] /\ s[k] \in Fields
    BY <1>1
  <2>2. Size(s[k]) \in Int
    BY <2>1, SizePositive
  <2>3. Sums(a)[k] = Sums(a)[k - 1] + Size(s[k]) /\ Sums(s)[k] = Sums(s)[k - 1] + Size(s[k])
    BY <1>1, <2>1, SumsStep
  <2> QED BY <2>2, <2>3
<1>5. \A k \in 0 .. Len(s) : Sums(a)[k] = Sums(s)[k] + 0
  <2>1. Parallel(Len(s), Sums(a), Sums(s), 0)
    BY <1>1, <1>2, <1>3, <1>4 DEF Parallel
  <2> QED BY <2>1, SameSteps
<1>6. Sums(a)[Len(s)] = Sums(s)[Len(s)]
  BY <1>1, <1>2, <1>5
<1>7. Sums(a)[Len(s) + 1] = Sums(a)[Len(s)] + Size(f)
  BY <1>1, SumsStep
<1> QED BY <1>1, <1>6, <1>7 DEF Total, a

\* What is left of s without its first n entries.
Drop(s, n) == SubSeq(s, n + 1, Len(s))

\* The parts of a sequence that Drop leaves.
LEMMA DropParts ==
  ASSUME NEW s \in Seq(Fields), NEW n \in 0 .. Len(s)
  PROVE  /\ Drop(s, n) \in Seq(Fields) /\ Len(Drop(s, n)) = Len(s) - n
         /\ Len(s) \in Nat /\ Len(s) - n \in Nat
         /\ \A k \in 1 .. Len(s) - n : Drop(s, n)[k] = s[k + n]
BY DEF Drop

\* The sizes of the rest are those of the whole without the first n.
LEMMA DropSums ==
  ASSUME NEW s \in Seq(Fields), NEW n \in 0 .. Len(s)
  PROVE  /\ \A k \in 0 .. Len(s) - n : Sums(Drop(s, n))[k] = Sums(s)[k + n] - Sums(s)[n]
         /\ Total(Drop(s, n)) = Total(s) - Sums(s)[n]
<1> DEFINE a == Drop(s, n)
           m == Len(s) - n
           h == [k \in 0 .. m |-> Sums(s)[k + n]]
           c == 0 - Sums(s)[n]
<1>1. /\ a \in Seq(Fields) /\ Len(s) \in Nat /\ Len(a) = m /\ m \in Nat
      /\ \A k \in 1 .. m : a[k] = s[k + n]
  BY DropParts
<1> HIDE DEF a
<1>2. \A k \in 0 .. m : k + n \in 0 .. Len(s) /\ h[k] \in Int
  BY <1>1, SumsNatural
<1>3. h[0] = Sums(s)[n] /\ Sums(s)[n] \in Int /\ c \in Int
  BY <1>1, <1>2, SumsNatural
<1>4. Sums(a)[0] = h[0] + c
  BY <1>1, <1>3, SumsStep
<1>5. ASSUME NEW k \in 1 .. m
      PROVE  \E d \in Int : Sums(a)[k] = Sums(a)[k - 1] + d /\ h[k] = h[k - 1] + d
  <2>1. k \in 1 .. Len(a) /\ k + n \in 1 .. Len(s) /\ a[k] = s[k + n]
    BY <1>1
  <2>2. s[k + n] \in Fields
    BY <2>1
  <2>3. Size(s[k + n]) \in Int
    BY <2>2, SizePositive
  <2>4. Sums(a)[k] = Sums(a)[k - 1] + Size(s[k + n])
    BY <1>1, <2>1, SumsStep
  <2>5. Sums(s)[k + n] = Sums(s)[(k + n) - 1] + Size(s[k + n])
    BY <2>1, SumsStep
  <2>6. h[k] = Sums(s)[k + n] /\ h[k - 1] = Sums(s)[(k + n) - 1]
    <3>1. k \in 0 .. m /\ k - 1 \in 0 .. m /\ (k - 1) + n = (k + n) - 1
      BY <1>1
    <3> QED BY <3>1
  <2> QED BY <2>3, <2>4, <2>5, <2>6
<1> HIDE DEF c
<1>6. \A k \in 0 .. m : Sums(a)[k] = h[k] + c
  <2> HIDE DEF h, m
  <2>1. Parallel(m, Sums(a), h, c)
    BY <1>1, <1>2, <1>3, <1>4, <1>5 DEF Parallel
  <2> QED BY <2>1, SameSteps
<1>7. \A k \in 0 .. m : Sums(a)[k] = Sums(s)[k + n] - Sums(s)[n]
  BY <1>2, <1>3, <1>6 DEF c
<1>8. Sums(a)[m] = Sums(s)[Len(s)] - Sums(s)[n]
  BY <1>1, <1>7
<1> QED BY <1>1, <1>7, <1>8 DEF Total, a

\* The equation of SizeWithout.
LeftOf(t, f) ==
  [k \in 0 .. Len(t.ents) |-> IF k = 0 THEN t.size ELSE f[k - 1] - Size(t.ents[k])]

\* SizeWithout takes the beginnings off the accounted size.
LEMMA SizeWithoutIs ==
  ASSUME NEW t, t.ents \in Seq(Fields), t.size \in Int
  PROVE  \A k \in 0 .. Len(t.ents) : SizeWithout(t)[k] = t.size - Sums(t.ents)[k]
<1> DEFINE n == Len(t.ents)
           g == [k \in 0 .. n |-> t.size - Sums(t.ents)[k]]
           w == SizeWithout(t)
<1>1. n \in Nat /\ \A k \in 0 .. n : Sums(t.ents)[k] \in Int
  BY SumsNatural
<1>2. g[0] = t.size /\ \A k \in 0 .. n : g[k] \in Int
  BY <1>1, SumsStep
<1>3. ASSUME NEW k \in 1 .. n
      PROVE  g[k] = g[k - 1] - Size(t.ents[k]) /\ Size(t.ents[k]) \in Int
  <2>1. k \in 0 .. n /\ k - 1 \in 0 .. n /\ t.ents[k] \in Fields
    BY <1>1
  <2>2. Size(t.ents[k]) \in Int
    BY <2>1, SizePositive
  <2>3. Sums(t.ents)[k] = Sums(t.ents)[k - 1] + Size(t.ents[k])
    BY SumsStep
  <2>4. /\ Sums(t.ents)[k - 1] \in Int
        /\ g[k] = t.size - Sums(t.ents)[k] /\ g[k - 1] = t.size - Sums(t.ents)[k - 1]
    BY <1>1, <2>1
  <2> QED BY <2>2, <2>3, <2>4
<1>4. g = LeftOf(t, g)
  <2>1. ASSUME NEW k \in 0 .. n
        PROVE  g[k] = IF k = 0 THEN t.size ELSE g[k - 1] - Size(t.ents[k])
    <3>1. k = 0 \/ k \in 1 .. n
      BY <1>1
    <3> HIDE DEF g
    <3> QED BY <1>2, <1>3, <3>1
  <2>2. DOMAIN g = 0 .. n /\ g = [k \in DOMAIN g |-> g[k]]
    OBVIOUS
  <2> HIDE DEF g
  <2> QED BY <2>1, <2>2 DEF LeftOf
<1>5. w = CHOOSE f : f = LeftOf(t, f)
  BY DEF SizeWithout, LeftOf
<1>6. w = LeftOf(t, w)
  BY <1>4, <1>5, Zenon
<1> HIDE DEF w, g
<1>7. w[0] = t.size /\ \A k \in 1 .. n : w[k] = w[k - 1] - Size(t.ents[k])
  <2>1. \A k \in 0 .. n : w[k] = LeftOf(t, w)[k]
    BY <1>6
  <2>2. LeftOf(t, w)[0] = t.size
    BY <1>1 DEF LeftOf
  <2>3. \A k \in 1 .. n : LeftOf(t, w)[k] = w[k - 1] - Size(t.ents[k])
    BY <1>1 DEF LeftOf
  <2> QED BY <1>1, <2>1, <2>2, <2>3
<1>8. \A k \in 0 .. n : w[k] \in Int
  <2> DEFINE Bad == {k \in 0 .. n : w[k] \notin Int}
  <2> SUFFICES ASSUME Bad # {} PROVE FALSE
    OBVIOUS
  <2>0. Bad \subseteq Nat
    BY <1>1
  <2>1. PICK x \in Bad : \A y \in Bad : x <= y
    BY <2>0, LeastNatural
  <2>2. x # 0
    BY <1>7, <2>1
  <2>3. x \in 1 .. n /\ x - 1 \in 0 .. n /\ ~ (x <= x - 1)
    BY <1>1, <2>2
  <2>4. w[x - 1] \in Int
    BY <2>1, <2>3
  <2> QED BY <1>3, <1>7, <2>1, <2>3, <2>4
<1>9. ASSUME NEW k \in 1 .. n
      PROVE  \E d \in Int : w[k] = w[k - 1] + d /\ g[k] = g[k - 1] + d
  <2>1. k - 1 \in 0 .. n
    BY <1>1
  <2> DEFINE d == 0 - Size(t.ents[k])
  <2>2. /\ w[k] = w[k - 1] - Size(t.ents[k]) /\ w[k - 1] \in Int
        /\ g[k] = g[k - 1] - Size(t.ents[k]) /\ g[k - 1] \in Int
        /\ Size(t.ents[k]) \in Int
    BY <1>2, <1>3, <1>7, <1>8, <2>1
  <2>3. d \in Int /\ w[k] = w[k - 1] + d /\ g[k] = g[k - 1] + d
    BY <2>2
  <2> QED BY <2>3
<1>10. Parallel(n, w, g, 0)
  BY <1>1, <1>2, <1>7, <1>9 DEF Parallel
<1>11. \A k \in 0 .. n : w[k] = g[k] + 0
  BY <1>10, SameSteps
<1>12. \A k \in 0 .. n : g[k] = t.size - Sums(t.ents)[k]
  BY DEF g
<1> QED
  BY <1>2, <1>11, <1>12 DEF w

-----------------------------------------------------------------------------
(***************************************************************************)
(* Eviction.  evict drops the fewest entries after which the rest fits.    *)
(***************************************************************************)
Accounted(t) == t.size = Total(t.ents)

\* n is the least number of entries to drop from s so that v is enough.
Cut(s, v, n) ==
  /\ n \in 0 .. Len(s)
  /\ Total(s) - Sums(s)[n] <= v
  /\ \A k \in 0 .. n - 1 : Total(s) - Sums(s)[k] > v

\* u is what is left of s when the size is set to v.
IsFit(s, v, u) == \E n \in 0 .. Len(s) : Cut(s, v, n) /\ u = Drop(s, n)

\* The total is a natural.
LEMMA TotalNatural ==
  ASSUME NEW s \in Seq(Fields)
  PROVE  Total(s) \in Nat /\ Len(s) \in Nat
BY SumsNatural DEF Total

\* Something can be dropped to fit any size: everything, at worst.
LEMMA CutExists ==
  ASSUME NEW s \in Seq(Fields), NEW v \in Nat
  PROVE  \E n \in 0 .. Len(s) : Cut(s, v, n)
<1> DEFINE Enough == {n \in 0 .. Len(s) : Total(s) - Sums(s)[n] <= v}
<1>1. Len(s) \in Nat /\ Total(s) \in Nat /\ Total(s) = Sums(s)[Len(s)]
  BY TotalNatural DEF Total
<1>2. Len(s) \in Enough /\ Enough \subseteq Nat
  BY <1>1
<1>3. PICK n \in Enough : \A y \in Enough : n <= y
  BY <1>2, LeastNatural
<1>4. ASSUME NEW k \in 0 .. n - 1
      PROVE  Total(s) - Sums(s)[k] > v
  <2>1. k \in 0 .. Len(s) /\ k \notin Enough
    BY <1>1, <1>3
  <2>2. Sums(s)[k] \in Nat
    BY <2>1, SumsNatural
  <2> QED BY <1>1, <2>1, <2>2
<1> QED BY <1>3, <1>4 DEF Cut

\* There is one such number.
LEMMA CutUnique ==
  ASSUME NEW s \in Seq(Fields), NEW v \in Nat, NEW n, NEW m, Cut(s, v, n), Cut(s, v, m)
  PROVE  n = m
<1>1. n \in 0 .. Len(s) /\ m \in 0 .. Len(s) /\ Len(s) \in Nat /\ Total(s) \in Nat
  BY TotalNatural DEF Cut
<1>2. Sums(s)[n] \in Nat /\ Sums(s)[m] \in Nat
  BY <1>1, SumsNatural
<1>3. CASE n < m
  BY <1>1, <1>2, <1>3 DEF Cut
<1>4. CASE m < n
  BY <1>1, <1>2, <1>4 DEF Cut
<1> QED BY <1>1, <1>3, <1>4

\* evict counts the entries it must drop right.
LEMMA SurplusIs ==
  ASSUME NEW t, t.ents \in Seq(Fields), t.maxSize \in Nat, Accounted(t),
         NEW n, Cut(t.ents, t.maxSize, n)
  PROVE  Surplus(t) = n
<1> DEFINE s == t.ents
           S == {k \in 0 .. Len(s) - 1 : SizeWithout(t)[k] > t.maxSize}
<1>1. Len(s) \in Nat /\ Total(s) \in Nat /\ t.size = Total(s) /\ n \in 0 .. Len(s)
  BY TotalNatural DEF Accounted, Cut
<1>2. \A k \in 0 .. Len(s) : SizeWithout(t)[k] = Total(s) - Sums(s)[k] /\ Sums(s)[k] \in Nat
  BY <1>1, SizeWithoutIs, SumsNatural
<1>3. ASSUME NEW k \in 0 .. Len(s) - 1
      PROVE  SizeWithout(t)[k] > t.maxSize <=> k \in 0 .. n - 1
  <2>1. k \in 0 .. Len(s)
    BY <1>1
  <2>2. CASE k < n
    <3>1. k \in 0 .. n - 1
      BY <1>1, <2>2
    <3>2. Total(s) - Sums(s)[k] > t.maxSize
      BY <3>1 DEF Cut
    <3> QED BY <1>2, <2>1, <3>1, <3>2
  <2>3. CASE ~ (k < n)
    <3>1. Sums(s)[n] <= Sums(s)[k]
      <4>1. CASE k = n
        BY <1>2, <2>1, <4>1
      <4>2. CASE k # n
        <5>1. k \in n + 1 .. Len(s)
          BY <1>1, <2>3, <4>2
        <5>2. Sums(s)[n] < Sums(s)[k]
          BY <1>1, <5>1, SumsRise
        <5> QED BY <1>1, <1>2, <2>1, <5>2
      <4> QED BY <4>1, <4>2
    <3>2. Total(s) - Sums(s)[n] <= t.maxSize
      BY DEF Cut
    <3>3. ~ (Total(s) - Sums(s)[k] > t.maxSize)
      BY <1>1, <1>2, <2>1, <3>1, <3>2
    <3> QED BY <1>1, <1>2, <2>1, <2>3, <3>3
  <2> QED BY <2>2, <2>3
<1>4. S = 0 .. n - 1
  BY <1>1, <1>3
<1>5. Cardinality(0 .. n - 1) = n
  BY <1>1, FS_Interval
<1> QED BY <1>4, <1>5 DEF Surplus

\* setMaxSize keeps the newest entries that fit, and accounts for them.
LEMMA SetMaxSizeFits ==
  ASSUME NEW t, Sound(t), Accounted(t), NEW v \in Nat
  PROVE  /\ IsFit(t.ents, v, setMaxSize(t, v).ents)
         /\ Accounted(setMaxSize(t, v))
<1> DEFINE s == [t EXCEPT !.maxSize = v]
<1>1. /\ s.maxSize = v /\ s.ents = t.ents /\ s.size = t.size /\ t.ents \in Seq(Fields)
      /\ DOMAIN s = {"ents", "evictCount", "byName", "byNameValue", "size", "maxSize"}
  BY DEF Sound, Shape
<1>2. PICK n \in 0 .. Len(t.ents) : Cut(t.ents, v, n)
  BY <1>1, CutExists
<1> HIDE DEF s
<1>3. Accounted(s)
  BY <1>1 DEF Accounted
<1>4. Surplus(s) = n
  BY <1>1, <1>2, <1>3, SurplusIs
<1> DEFINE e == evictOldest(s, n)
           u == [e EXCEPT !.size = SizeWithout(s)[n]]
<1>5. e.ents = Drop(t.ents, n) /\ DOMAIN e = DOMAIN s
  BY <1>1 DEF evictOldest, Drop
<1> HIDE DEF e
<1>6. u.ents = Drop(t.ents, n) /\ u.size = SizeWithout(s)[n]
  BY <1>1, <1>5
<1>7. setMaxSize(t, v) = u
  BY <1>4 DEF setMaxSize, evict, e, s
<1>8. SizeWithout(s)[n] = Total(t.ents) - Sums(t.ents)[n]
  <2>1. s.size \in Int /\ s.size = Total(t.ents)
    BY <1>1, TotalNatural DEF Accounted
  <2> QED BY <1>1, <1>2, <2>1, SizeWithoutIs
<1>9. Total(Drop(t.ents, n)) = Total(t.ents) - Sums(t.ents)[n]
  BY <1>1, <1>2, DropSums
<1> HIDE DEF u
<1> QED BY <1>2, <1>6, <1>7, <1>8, <1>9 DEF IsFit, Accounted

\* add accounts for what it adds.
LEMMA AddAccounted ==
  ASSUME NEW t, Sound(t), Accounted(t), NEW f \in Fields
  PROVE  Accounted(add(t, f)) /\ add(t, f).ents = Append(t.ents, f)
<1>1. /\ add(t, f).ents = Append(t.ents, f) /\ add(t, f).size = t.size + Size(f)
      /\ t.ents \in Seq(Fields)
  BY DEF add, addEntry, Sound, Shape
<1> QED BY <1>1, AppendTotal DEF Accounted

\* What fits already stays.
LEMMA FitAlready ==
  ASSUME NEW s \in Seq(Fields), NEW v \in Nat, Total(s) <= v
  PROVE  IsFit(s, v, s)
<1>1. Len(s) \in Nat /\ Total(s) \in Nat
  BY TotalNatural
<1>2. Cut(s, v, 0)
  BY <1>1, SumsStep DEF Cut
<1>3. s = Drop(s, 0)
  BY <1>1 DEF Drop
<1> QED BY <1>1, <1>2, <1>3 DEF IsFit

\* What is left is a sequence of fields that fits.
LEMMA FitParts ==
  ASSUME NEW s \in Seq(Fields), NEW v \in Nat, NEW u, IsFit(s, v, u)
  PROVE  u \in Seq(Fields) /\ Total(u) <= v
<1>1. PICK n \in 0 .. Len(s) : Cut(s, v, n) /\ u = Drop(s, n)
  BY DEF IsFit
<1>2. Total(u) = Total(s) - Sums(s)[n]
  BY <1>1, DropSums
<1>3. u \in Seq(Fields) /\ Len(u) = Len(s) - n
  BY <1>1, DropParts
<1> QED BY <1>1, <1>2, <1>3 DEF Cut

\* Nothing is left of nothing.
LEMMA FitOfNothing ==
  ASSUME NEW s, s = <<>>, NEW v, NEW u, IsFit(s, v, u)
  PROVE  u = <<>>
<1>1. PICK n \in 0 .. Len(s) : u = Drop(s, n)
  BY DEF IsFit
<1>2. n \in 0 .. Len(s) /\ Len(s) = 0 /\ s \in Seq(Fields)
  OBVIOUS
<1>3. u \in Seq(Fields) /\ Len(u) = Len(s) - n
  BY <1>1, <1>2, DropParts
<1>4. Len(u) = 0
  BY <1>2, <1>3
<1> QED BY <1>3, <1>4

\* There is one way to fit.
LEMMA FitUnique ==
  ASSUME NEW s \in Seq(Fields), NEW v \in Nat, NEW u, NEW w, IsFit(s, v, u), IsFit(s, v, w)
  PROVE  u = w
<1>1. PICK n \in 0 .. Len(s) : Cut(s, v, n) /\ u = Drop(s, n)
  BY DEF IsFit
<1>2. PICK m \in 0 .. Len(s) : Cut(s, v, m) /\ w = Drop(s, m)
  BY DEF IsFit
<1>3. n = m
  BY <1>1, <1>2, CutUnique
<1> QED BY <1>1, <1>2, <1>3

\* Two changes of the size leave what the smaller one alone would leave.
LEMMA FitTwice ==
  ASSUME NEW s \in Seq(Fields), NEW v \in Nat, NEW w \in Nat, NEW u, NEW x,
         IsFit(s, v, u), IsFit(u, w, x)
  PROVE  IsFit(s, IF w < v THEN w ELSE v, x)
<1> DEFINE y == IF w < v THEN w ELSE v
<1>1. PICK n \in 0 .. Len(s) : Cut(s, v, n) /\ u = Drop(s, n)
  BY DEF IsFit
<1>2. PICK m \in 0 .. Len(u) : Cut(u, w, m) /\ x = Drop(u, m)
  BY DEF IsFit
<1>3. /\ u \in Seq(Fields) /\ Len(u) = Len(s) - n /\ Len(s) \in Nat
      /\ \A k \in 1 .. Len(u) : u[k] = s[k + n]
  BY <1>1, DropParts
<1>4. n + m \in 0 .. Len(s)
  BY <1>3
<1>5. /\ \A k \in 0 .. Len(u) : Sums(u)[k] = Sums(s)[k + n] - Sums(s)[n]
      /\ Total(u) = Total(s) - Sums(s)[n]
  BY <1>1, <1>3, DropSums
<1>6. /\ Total(s) \in Nat /\ \A k \in 0 .. Len(s) : Sums(s)[k] \in Nat
      /\ y \in Nat
  BY TotalNatural, SumsNatural
<1>7. \A k \in 0 .. Len(u) : Total(u) - Sums(u)[k] = Total(s) - Sums(s)[k + n]
  <2> SUFFICES ASSUME NEW k \in 0 .. Len(u)
               PROVE  Total(u) - Sums(u)[k] = Total(s) - Sums(s)[k + n]
    OBVIOUS
  <2>1. k + n \in 0 .. Len(s)
    BY <1>3
  <2>2. Sums(s)[k + n] \in Nat /\ Sums(s)[n] \in Nat
    BY <1>6, <2>1
  <2> QED BY <1>5, <1>6, <2>2
<1>8. Total(s) - Sums(s)[n + m] <= y
  <2>1. Total(s) - Sums(s)[m + n] <= w
    BY <1>2, <1>7 DEF Cut
  <2>2. m + n = n + m
    BY <1>4
  <2>3. Total(s) - Sums(s)[n + m] <= v
    <3>1. Sums(s)[n] <= Sums(s)[n + m]
      <4>1. CASE m = 0
        BY <1>3, <1>6, <4>1
      <4>2. CASE m # 0
        <5>1. n + m \in n + 1 .. Len(s)
          BY <1>4, <1>3, <4>2
        <5>2. Sums(s)[n] < Sums(s)[n + m]
          BY <5>1, SumsRise
        <5> QED BY <1>4, <1>6, <5>2
      <4> QED BY <4>1, <4>2
    <3>2. Total(s) - Sums(s)[n] <= v
      BY <1>1 DEF Cut
    <3> QED BY <1>4, <1>6, <3>1, <3>2
  <2> QED BY <2>1, <2>2, <2>3
<1>9. ASSUME NEW k \in 0 .. n + m - 1
      PROVE  Total(s) - Sums(s)[k] > y
  <2>0. k \in 0 .. Len(s)
    BY <1>3, <1>4
  <2>1. CASE k < n
    <3>1. k \in 0 .. n - 1
      BY <1>3, <2>1
    <3>2. Total(s) - Sums(s)[k] > v
      BY <1>1, <3>1 DEF Cut
    <3> QED BY <1>6, <2>0, <3>2
  <2>2. CASE ~ (k < n)
    <3>1. k - n \in 0 .. m - 1 /\ k - n \in 0 .. Len(u) /\ (k - n) + n = k
      BY <1>3, <2>2
    <3>2. Total(u) - Sums(u)[k - n] > w
      BY <1>2, <3>1 DEF Cut
    <3>3. Total(s) - Sums(s)[k] > w
      BY <1>7, <3>1, <3>2
    <3> QED BY <1>6, <2>0, <3>3
  <2> QED BY <2>1, <2>2
<1>10. Cut(s, y, n + m)
  BY <1>4, <1>8, <1>9 DEF Cut
<1>11. x = Drop(s, n + m)
  <2>1. Drop(s, n + m) \in Seq(Fields) /\ Len(Drop(s, n + m)) = Len(s) - (n + m)
        /\ \A k \in 1 .. Len(s) - (n + m) : Drop(s, n + m)[k] = s[k + (n + m)]
    BY <1>4, DropParts
  <2>2. x \in Seq(Fields) /\ Len(x) = Len(u) - m /\ \A k \in 1 .. Len(u) - m : x[k] = u[k + m]
    BY <1>2, <1>3, DropParts
  <2>3. ASSUME NEW k \in 1 .. Len(x) PROVE x[k] = Drop(s, n + m)[k]
    <3>1. k + m \in 1 .. Len(u) /\ (k + m) + n = k + (n + m) /\ k \in 1 .. Len(s) - (n + m)
          /\ k \in 1 .. Len(u) - m
      BY <1>3, <2>2
    <3> QED BY <1>3, <2>1, <2>2, <3>1
  <2>4. Len(x) = Len(Drop(s, n + m))
    BY <1>3, <2>1, <2>2
  <2> HIDE DEF Drop
  <2> QED BY <2>1, <2>2, <2>3, <2>4, SeqEqual
<1> QED BY <1>4, <1>10, <1>11 DEF IsFit

-----------------------------------------------------------------------------
(***************************************************************************)
(* The decoder behind the encoder.  A sequence S of snapshots has the      *)
(* entries of the decoder's table before it reads each representation of   *)
(* the stream, and after the last one.                                     *)
(***************************************************************************)
\* Index i exists when the entries of the dynamic table are T, and stands for
\* this entry.
InTables(T, i) == i \in 1 .. Len(T) + Len(Static.ents)
EntryOf(T, i) ==
  IF i <= Len(Static.ents) THEN Static.ents[i]
  ELSE T[(Len(T) - (i - Len(Static.ents))) + 1]

\* Representation r means what was written and turns entries T into U.  Only
\* a size update at the start of a block may have to evict.
MeansIndexed(r, T, U) ==
  /\ r.kind = "indexed" /\ U = T
  /\ InTables(T, r.idx) /\ Pair(EntryOf(T, r.idx)) = Pair(r.of) /\ ~ r.of.sensitive
MeansLiteral(r, T, U) ==
  /\ r.kind = "literal"
  /\ r.idx = 0 => r.name = r.of.name
  /\ r.idx # 0 => InTables(T, r.idx) /\ EntryOf(T, r.idx).name = r.of.name
  /\ r.value = r.of.value
  /\ r.it = "indexedNever" <=> r.of.sensitive
  /\ U = IF r.it = "indexedTrue" THEN Append(T, r.of) ELSE T
MeansSize(r, T, U, start) ==
  /\ r.kind = "size" /\ r.size <= Allowed
  /\ IsFit(T, r.size, U)
  /\ U = T \/ start
Means(r, T, U, start) ==
  \/ MeansIndexed(r, T, U)
  \/ MeansLiteral(r, T, U)
  \/ MeansSize(r, T, U, start)
  \/ r.kind = "end" /\ U = T

\* The representation at position j of stream st is the first of a block.
Starts(st, first, j) == IF j = 1 THEN first ELSE st[j - 1].kind = "end"

Replay(S, st, first) ==
  /\ S \in Seq(Seq(Fields)) /\ st \in Seq(Wire) /\ Len(S) = Len(st) + 1
  /\ \A j \in 1 .. Len(st) : Means(st[j], S[j], S[j + 1], Starts(st, first, j))

\* Snapshots A and stream b are S and st with one more.
Extends(S, st, first, r, U, A, b) ==
  /\ Replay(S, st, first)
  /\ r \in Wire /\ U \in Seq(Fields)
  /\ Means(r, S[Len(st) + 1], U, Starts(st, first, Len(st) + 1))
  /\ A = Append(S, U) /\ b = Append(st, r)

\* One more representation, one more snapshot.
LEMMA ReplayExtends ==
  ASSUME NEW S, NEW st, NEW first, NEW r, NEW U, NEW A, NEW b,
         Extends(S, st, first, r, U, A, b)
  PROVE  /\ Replay(A, b, first)
         /\ Len(st) \in Nat /\ Len(b) = Len(st) + 1 /\ b[Len(st) + 1] = r
         /\ A[1] = S[1] /\ A[Len(b) + 1] = U
<1>0. /\ Replay(S, st, first) /\ r \in Wire /\ U \in Seq(Fields)
      /\ Means(r, S[Len(st) + 1], U, Starts(st, first, Len(st) + 1))
      /\ A = Append(S, U) /\ b = Append(st, r)
  BY DEF Extends
<1>1. /\ S \in Seq(Seq(Fields)) /\ st \in Seq(Wire) /\ Len(S) = Len(st) + 1
      /\ Len(st) \in Nat
  BY <1>0 DEF Replay
<1>2. /\ A \in Seq(Seq(Fields)) /\ Len(A) = Len(st) + 2
      /\ A[Len(st) + 2] = U /\ \A j \in 1 .. Len(st) + 1 : A[j] = S[j]
  BY <1>0, <1>1
<1>3. /\ b \in Seq(Wire) /\ Len(b) = Len(st) + 1
      /\ b[Len(st) + 1] = r /\ \A j \in 1 .. Len(st) : b[j] = st[j]
  BY <1>0, <1>1
<1>4. \A j \in 1 .. Len(st) + 1 : Starts(b, first, j) = Starts(st, first, j)
  <2> SUFFICES ASSUME NEW j \in 1 .. Len(st) + 1
               PROVE  Starts(b, first, j) = Starts(st, first, j)
    OBVIOUS
  <2>0. j # 1 => j - 1 \in 1 .. Len(st)
    BY <1>1
  <2>1. j # 1 => b[j - 1] = st[j - 1]
    BY <1>3, <2>0
  <2> QED BY <2>1 DEF Starts
<1>5. ASSUME NEW j \in 1 .. Len(b)
      PROVE  Means(b[j], A[j], A[j + 1], Starts(b, first, j))
  <2>1. CASE j = Len(st) + 1
    <3>0. j \in 1 .. Len(st) + 1 /\ j + 1 = Len(st) + 2
      BY <1>1, <2>1
    <3>1. b[j] = r /\ A[j] = S[Len(st) + 1] /\ A[j + 1] = U /\ j \in 1 .. Len(st) + 1
      BY <1>2, <1>3, <2>1, <3>0
    <3>2. Starts(b, first, j) = Starts(st, first, Len(st) + 1)
      BY <1>4, <2>1, <3>1
    <3> QED BY <1>0, <3>1, <3>2
  <2>2. CASE j # Len(st) + 1
    <3>0. j \in 1 .. Len(st) /\ j \in 1 .. Len(st) + 1 /\ j + 1 \in 1 .. Len(st) + 1
      BY <1>1, <1>3, <2>2
    <3>1. /\ j \in 1 .. Len(st) /\ b[j] = st[j] /\ A[j] = S[j] /\ A[j + 1] = S[j + 1]
          /\ j \in 1 .. Len(st) + 1
      BY <1>2, <1>3, <3>0, Zenon
    <3>2. Starts(b, first, j) = Starts(st, first, j)
      BY <1>4, <3>1
    <3>3. Means(st[j], S[j], S[j + 1], Starts(st, first, j))
      BY <1>0, <3>1 DEF Replay
    <3> QED BY <3>1, <3>2, <3>3
  <2> QED BY <2>1, <2>2
<1>6. Replay(A, b, first)
  BY <1>1, <1>2, <1>3, <1>5 DEF Replay
<1>7. A[1] = S[1] /\ A[Len(b) + 1] = U
  <2>1. Len(b) + 1 = Len(st) + 2
    BY <1>1, <1>3
  <2> QED BY <1>1, <1>2, <2>1
<1> QED BY <1>1, <1>3, <1>6, <1>7

\* The first representation is read, and its snapshot goes.
LEMMA ReplayAdvances ==
  ASSUME NEW S, NEW st, NEW first, Replay(S, st, first), st # <<>>,
         NEW next, next = (st[1].kind = "end")
  PROVE  /\ Replay(Tail(S), Tail(st), next)
         /\ Len(Tail(st)) = Len(st) - 1 /\ Len(st) \in Nat /\ Len(st) > 0
         /\ Tail(S)[1] = S[2]
         /\ Tail(S)[Len(st)] = S[Len(st) + 1]
         /\ Starts(Tail(st), next, Len(st)) = Starts(st, first, Len(st) + 1)
         /\ Means(st[1], S[1], S[2], first)
<1> DEFINE A == Tail(S)
           b == Tail(st)
<1>1. /\ S \in Seq(Seq(Fields)) /\ st \in Seq(Wire) /\ Len(S) = Len(st) + 1
      /\ Len(st) \in Nat /\ Len(st) > 0
  BY DEF Replay
<1>2. /\ A \in Seq(Seq(Fields)) /\ Len(A) = Len(st)
      /\ \A j \in 1 .. Len(st) : A[j] = S[j + 1]
  BY <1>1
<1>3. /\ b \in Seq(Wire) /\ Len(b) = Len(st) - 1
      /\ \A j \in 1 .. Len(st) - 1 : b[j] = st[j + 1]
  BY <1>1
<1> HIDE DEF A, b
<1>4. \A j \in 1 .. Len(st) : Starts(b, next, j) = Starts(st, first, j + 1)
  <2> SUFFICES ASSUME NEW j \in 1 .. Len(st)
               PROVE  Starts(b, next, j) = Starts(st, first, j + 1)
    OBVIOUS
  <2>1. j # 1 => b[j - 1] = st[j]
    BY <1>1, <1>3
  <2>2. j + 1 # 1 /\ (j + 1) - 1 = j
    BY <1>1
  <2> QED BY <2>1, <2>2 DEF Starts
<1>5. ASSUME NEW j \in 1 .. Len(b)
      PROVE  Means(b[j], A[j], A[j + 1], Starts(b, next, j))
  <2>0. j + 1 \in 1 .. Len(st) /\ j \in 1 .. Len(st) /\ j \in 1 .. Len(st) - 1
    BY <1>1, <1>3
  <2>1. /\ j + 1 \in 1 .. Len(st) /\ j \in 1 .. Len(st) /\ b[j] = st[j + 1]
        /\ A[j] = S[j + 1] /\ A[j + 1] = S[(j + 1) + 1]
    BY <1>2, <1>3, <2>0
  <2>2. Starts(b, next, j) = Starts(st, first, j + 1)
    BY <1>4, <2>1
  <2>3. Means(st[j + 1], S[j + 1], S[(j + 1) + 1], Starts(st, first, j + 1))
    BY <2>1 DEF Replay
  <2> QED BY <2>1, <2>2, <2>3
<1>6. Replay(A, b, next)
  BY <1>1, <1>2, <1>3, <1>5 DEF Replay
<1>7. A[1] = S[2] /\ A[Len(st)] = S[Len(st) + 1]
  BY <1>1, <1>2
<1>8. Starts(b, next, Len(st)) = Starts(st, first, Len(st) + 1)
  BY <1>1, <1>4
<1>9. Means(st[1], S[1], S[2], first)
  <2>1. 1 \in 1 .. Len(st) /\ 1 + 1 = 2 /\ Starts(st, first, 1) = first
    BY <1>1 DEF Starts
  <2> QED BY <2>1 DEF Replay
<1> QED BY <1>1, <1>3, <1>6, <1>7, <1>8, <1>9 DEF A, b

\* What searchTable finds is in one of the tables, under the index it returns.
LEMMA SearchTableFinds ==
  ASSUME Sound(enc), NEW f \in Fields
  PROVE  /\ searchTable(f).match \in BOOLEAN
         /\ searchTable(f).i # 0 =>
              /\ InTables(enc.ents, searchTable(f).i)
              /\ EntryOf(enc.ents, searchTable(f).i).name = f.name
         /\ searchTable(f).match =>
              /\ searchTable(f).i # 0
              /\ Pair(EntryOf(enc.ents, searchTable(f).i)) = Pair(f)
              /\ ~f.sensitive
<1> DEFINE s == search(Static, f, TRUE)
           d == search(enc, f, FALSE)
           m == Len(Static.ents)
           n == Len(enc.ents)
<1>1. /\ s.i \in 0 .. m /\ s.match \in BOOLEAN
      /\ s.i # 0 => Static.ents[s.i].name = f.name
      /\ s.match => s.i # 0 /\ Pair(Static.ents[s.i]) = Pair(f) /\ ~f.sensitive
  BY StaticFinds, Zenon
<1>2. /\ d.i \in 0 .. n /\ d.match \in BOOLEAN
      /\ d.i # 0 => EntryAt(enc, d.i).name = f.name
      /\ d.match => d.i # 0 /\ Pair(EntryAt(enc, d.i)) = Pair(f) /\ ~f.sensitive
  BY SearchFinds, Zenon
<1>3. m \in Nat /\ n \in Nat
  BY StaticSound DEF Sound, Shape
<1> HIDE DEF s, d, m, n
<1>4. CASE ~s.match /\ (d.match \/ (s.i = 0 /\ d.i # 0))
  <2>1. searchTable(f) = [i |-> d.i + m, match |-> d.match]
    BY <1>4, Zenon DEF searchTable, s, d, m
  <2>2. searchTable(f).i = d.i + m /\ searchTable(f).match = d.match
    <3> DEFINE a == d.i + m
               b == d.match
    <3>1. searchTable(f) = [i |-> a, match |-> b]
      BY <2>1
    <3> HIDE DEF a, b
    <3>2. PICK x : x = searchTable(f)
      OBVIOUS
    <3>3. x.i = a /\ x.match = b
      BY <3>1, <3>2, FoundParts
    <3> QED BY <3>2, <3>3 DEF a, b
  <2>3. d.i # 0
    BY <1>2, <1>4
  <2>4. d.i + m \in 1 .. n + m /\ ~ (d.i + m <= m) /\ d.i + m # 0
        /\ (n - ((d.i + m) - m)) + 1 = n + 1 - d.i
    BY <1>2, <1>3, <2>3
  <2>5. InTables(enc.ents, d.i + m)
    BY <2>4 DEF InTables, m, n
  <2>6. EntryOf(enc.ents, d.i + m) = EntryAt(enc, d.i)
    BY <2>4 DEF EntryOf, EntryAt, m, n
  <2> QED BY <1>2, <2>2, <2>3, <2>4, <2>5, <2>6, Zenon
<1>5. CASE ~(~s.match /\ (d.match \/ (s.i = 0 /\ d.i # 0)))
  <2>1. searchTable(f) = s
    BY <1>5, Zenon DEF searchTable, s, d
  <2>2. s.i # 0 => InTables(enc.ents, s.i) /\ EntryOf(enc.ents, s.i) = Static.ents[s.i]
    <3>1. s.i # 0 => s.i \in 1 .. n + m /\ s.i <= m
      BY <1>1, <1>3
    <3> QED BY <3>1 DEF InTables, EntryOf, m, n
  <2> QED BY <1>1, <2>1, <2>2, Zenon
<1> QED BY <1>4, <1>5

\* The parts of a literal.
LEMMA LiteralParts ==
  ASSUME NEW f, NEW it, NEW i
  PROVE  /\ Literal(it, i, f).kind = "literal" /\ Literal(it, i, f).idx = i
         /\ Literal(it, i, f).it = it
         /\ i = 0 => Literal(it, i, f).name = f.name
         /\ Literal(it, i, f).value = f.value /\ Literal(it, i, f).of = f
BY DEF Literal

\* What WriteField sends for a field means that field, to a decoder with the
\* encoder's entries.
LEMMA FieldMeans ==
  ASSUME Sound(enc), NEW f \in Fields, NEW start
  PROVE  /\ searchTable(f).match =>
              Means(Indexed(searchTable(f).i, f), enc.ents, enc.ents, start)
         /\ ~searchTable(f).match =>
              Means(Literal(TypeOf(f), searchTable(f).i, f), enc.ents,
                    IF shouldIndex(f) THEN Append(enc.ents, f) ELSE enc.ents, start)
<1> DEFINE i == searchTable(f).i
           match == searchTable(f).match
           r == Literal(TypeOf(f), i, f)
           U == IF shouldIndex(f) THEN Append(enc.ents, f) ELSE enc.ents
<1>1. /\ i # 0 => InTables(enc.ents, i) /\ EntryOf(enc.ents, i).name = f.name
      /\ match => i # 0 /\ Pair(EntryOf(enc.ents, i)) = Pair(f) /\ ~f.sensitive
  BY SearchTableFinds, Zenon
<1> HIDE DEF i, match
<1>2. match => Means(Indexed(i, f), enc.ents, enc.ents, start)
  <2>1. match => MeansIndexed(Indexed(i, f), enc.ents, enc.ents)
    <3> DEFINE q == Indexed(i, f)
    <3>1. q.kind = "indexed" /\ q.idx = i /\ q.of = f
      BY DEF Indexed
    <3> HIDE DEF q
    <3>2. match => MeansIndexed(q, enc.ents, enc.ents)
      BY <1>1, <3>1, Zenon DEF MeansIndexed
    <3> QED BY <3>2 DEF q
  <2> QED BY <2>1, Zenon DEF Means
<1>3. TypeOf(f) = "indexedNever" <=> f.sensitive
  BY DEF TypeOf
<1>4. TypeOf(f) = "indexedTrue" <=> shouldIndex(f)
  BY DEF TypeOf, shouldIndex
<1>5. /\ r.kind = "literal" /\ r.idx = i /\ r.it = TypeOf(f) /\ (i = 0 => r.name = f.name)
      /\ r.value = f.value /\ r.of = f
  BY LiteralParts
<1> HIDE DEF r
<1>6. U = IF r.it = "indexedTrue" THEN Append(enc.ents, f) ELSE enc.ents
  BY <1>4, <1>5, Zenon
<1>7. MeansLiteral(r, enc.ents, U)
  <2> HIDE DEF U
  <2> QED BY <1>1, <1>3, <1>5, <1>6, Zenon DEF MeansLiteral
<1>8. Means(r, enc.ents, U, start)
  BY <1>7, Zenon DEF Means
<1> QED BY <1>2, <1>8 DEF i, match, r

-----------------------------------------------------------------------------
(***************************************************************************)
(* The inductive invariant of what the decoder will have.                  *)
(***************************************************************************)
\* The smallest size the next update will ask for.
Smallest == IF minSize < enc.maxSize THEN minSize ELSE enc.maxSize

\* Entries T, which the decoder has once it has read the stream, are the
\* encoder's but for the resizes that WriteField has yet to send.
Behind(T) ==
  /\ ~ tableSizeUpdate => enc.ents = T /\ minSize = Unset
  /\ tableSizeUpdate => /\ ~ inBlock
                        /\ IsFit(T, Smallest, enc.ents)
                        /\ minSize <= enc.maxSize \/ T = <<>>
  /\ fields = 0 => T = <<>>

LagInv ==
  \E S : Replay(S, stream, firstField) /\ S[1] = dec.ents /\ Behind(S[Len(stream) + 1])

\* Sizes that may be sent are allowed; a block that was ended is one the
\* decoder will see ended.
PlainInv ==
  /\ Accounted(enc) /\ Accounted(dec)
  /\ enc.maxSize <= Allowed /\ maxSizeLimit < Unset
  /\ tableSizeUpdate \in BOOLEAN /\ inBlock \in BOOLEAN /\ firstField \in BOOLEAN
  /\ fields \in Nat /\ (fields = 0 => ~ inBlock)
  /\ ~ inBlock => Starts(stream, firstField, Len(stream) + 1)

SyncInv == IInv /\ PlainInv /\ LagInv /\ FieldsSurvive

\* Nothing fits everything.
LEMMA FitNothing ==
  ASSUME NEW v \in Nat
  PROVE  IsFit(<<>>, v, <<>>)
<1> PICK s : s = <<>>
  OBVIOUS
<1>1. s \in Seq(Fields) /\ Len(s) = 0
  OBVIOUS
<1>2. Total(s) = 0
  BY <1>1, SumsStep DEF Total
<1>3. Total(s) <= v
  BY <1>2
<1>4. IsFit(s, v, s)
  BY <1>1, <1>3, FitAlready
<1> QED BY <1>4

\* At first both tables are empty and so is the stream.
LEMMA InitSync == Init => SyncInv
<1> SUFFICES ASSUME Init PROVE SyncInv
  OBVIOUS
<1> DEFINE S == << <<>> >>
<1>1. /\ enc.ents = <<>> /\ enc.size = 0 /\ enc.maxSize = InitialSize
      /\ dec.ents = <<>> /\ dec.size = 0 /\ stream = <<>> /\ Len(stream) = 0
  BY DEF Init, NewTable
<1>2. Total(<<>>) = 0
  <2>1. <<>> \in Seq(Fields) /\ Len(<<>>) = 0
    OBVIOUS
  <2> QED BY <2>1, SumsStep DEF Total
<1>3. PlainInv
  <2>1. Starts(stream, firstField, 1)
    BY DEF Init, Starts
  <2>2. InitialSize <= Allowed /\ InitialSize < Unset
    BY SizesAssumption, AllowedAssumption
  <2>3. Accounted(enc) /\ Accounted(dec)
    BY <1>1, <1>2 DEF Accounted
  <2>4. 0 + 1 = 1 /\ 0 \in Nat
    OBVIOUS
  <2> QED BY <1>1, <2>1, <2>2, <2>3, <2>4 DEF Init, PlainInv
<1>4. Replay(S, stream, firstField) /\ S[1] = dec.ents
  <2>1. <<>> \in Seq(Fields) /\ S \in Seq(Seq(Fields)) /\ Len(S) = 1 /\ S[1] = <<>>
    OBVIOUS
  <2>2. stream \in Seq(Wire)
    BY <1>1
  <2> QED BY <1>1, <2>1, <2>2 DEF Replay
<1>5. Behind(S[Len(stream) + 1])
  <2>1. S[Len(stream) + 1] = <<>>
    BY <1>1
  <2> QED BY <1>1, <2>1 DEF Init, Behind
<1>6. LagInv
  BY <1>4, <1>5 DEF LagInv
<1>7. FieldsSurvive
  BY DEF Init, FieldsSurvive
<1> QED BY <1>3, <1>6, <1>7, InitInv DEF SyncInv

\* The mark at the end of a block changes no entry.
LEMMA EndBlockSync ==
  ASSUME SyncInv, EndBlock
  PROVE  SyncInv'
<1>1. /\ inBlock /\ inBlock' = FALSE /\ stream' = Append(stream, EndOfBlock)
      /\ enc' = enc /\ dec' = dec /\ minSize' = minSize /\ maxSizeLimit' = maxSizeLimit
      /\ tableSizeUpdate' = tableSizeUpdate /\ fields' = fields /\ firstField' = firstField
      /\ emitted' = emitted /\ meant' = meant /\ rejected' = rejected
  BY DEF EndBlock, decoder
<1>2. IInv'
  BY EndBlockInv DEF SyncInv
<1>3. PICK S, T : /\ Replay(S, stream, firstField) /\ S[1] = dec.ents
                  /\ T = S[Len(stream) + 1] /\ Behind(T)
  BY DEF SyncInv, LagInv
<1>4. EndOfBlock \in Wire /\ EndOfBlock.kind = "end"
  BY DEF EndOfBlock, Wire
<1>5. T \in Seq(Fields)
  BY <1>3 DEF Replay
<1>6. Means(EndOfBlock, T, T, Starts(stream, firstField, Len(stream) + 1))
  BY <1>4, Zenon DEF Means
<1>a. PICK A : A = Append(S, T)
  OBVIOUS
<1>7. /\ Replay(A, stream', firstField') /\ A[1] = dec'.ents
      /\ Len(stream') = Len(stream) + 1 /\ Len(stream) \in Nat
      /\ A[Len(stream') + 1] = T /\ stream'[Len(stream) + 1] = EndOfBlock
  <2>1. Means(EndOfBlock, S[Len(stream) + 1], T, Starts(stream, firstField, Len(stream) + 1))
    BY <1>3, <1>6
  <2>2. /\ Replay(A, stream', firstField) /\ A[1] = S[1]
        /\ Len(stream') = Len(stream) + 1 /\ Len(stream) \in Nat
        /\ A[Len(stream') + 1] = T /\ stream'[Len(stream) + 1] = EndOfBlock
    <3>1. Extends(S, stream, firstField, EndOfBlock, T, A, stream')
      BY <1>a, <1>1, <1>3, <1>4, <1>5, <2>1, Zenon DEF Extends
    <3> QED BY <3>1, ReplayExtends
  <2> QED BY <1>1, <1>3, <2>2, Zenon
<1>8. Behind(T)'
  BY <1>1, <1>3 DEF Behind, Smallest
<1>9. LagInv'
  BY <1>7, <1>8 DEF LagInv
<1>10. PlainInv'
  <2>1. Starts(stream, firstField, Len(stream) + 1)'
    <3>1. Len(stream') + 1 # 1 /\ (Len(stream') + 1) - 1 = Len(stream) + 1
      BY <1>7
    <3> QED BY <1>4, <1>7, <3>1 DEF Starts
  <2> QED BY <1>1, <2>1 DEF SyncInv, PlainInv, Accounted
<1>11. FieldsSurvive'
  BY <1>1 DEF SyncInv, FieldsSurvive
<1> QED BY <1>2, <1>9, <1>10, <1>11 DEF SyncInv

\* Entries X were fitted to T and are now fitted to size w: the smallest of
\* all sizes asked for since the last update is enough to find what is left.
LEMMA ResizeFits ==
  ASSUME NEW T \in Seq(Fields), NEW X, NEW Y, NEW w \in Nat, IsFit(X, w, Y),
         NEW least \in Nat, NEW max \in Nat, NEW pending,
         ~ pending => X = T /\ w < least,
         pending => /\ IsFit(T, IF least < max THEN least ELSE max, X)
                    /\ least <= max \/ T = <<>>
  PROVE  IsFit(T, IF w < least THEN w ELSE least, Y)
<1>1. CASE ~ pending
  BY <1>1
<1>2. CASE pending /\ least <= max
  <2>1. (IF least < max THEN least ELSE max) = least
    BY <1>2
  <2>2. IsFit(T, least, X)
    BY <1>2, <2>1
  <2> QED BY <2>2, FitTwice
<1>3. CASE pending /\ T = <<>>
  <2> DEFINE v == IF least < max THEN least ELSE max
             y == IF w < least THEN w ELSE least
  <2>1. v \in Nat /\ y \in Nat /\ IsFit(T, v, X)
    BY <1>3
  <2> HIDE DEF v, y
  <2>2. X = <<>>
    BY <1>3, <2>1, FitOfNothing
  <2>3. Y = <<>>
    BY <2>2, FitOfNothing
  <2>4. IsFit(T, y, Y)
    BY <1>3, <2>1, <2>2, <2>3, FitNothing
  <2> QED BY <2>4 DEF y
<1> QED BY <1>1, <1>2, <1>3

\* A change of the size is passed on with the next field.
LEMMA SetMaxSync ==
  ASSUME SyncInv, NEW v \in Sizes, SetMaxDynamicTableSize(v)
  PROVE  SyncInv'
<1> DEFINE w == IF v > maxSizeLimit THEN maxSizeLimit ELSE v
<1>0. v \in Nat /\ v <= Allowed /\ v < Unset /\ Unset \in Nat /\ Allowed \in Nat
  BY SizesAssumption, AllowedAssumption
<1>1. /\ ~ inBlock /\ inBlock' = inBlock /\ stream' = stream
      /\ minSize' = IF w < minSize THEN w ELSE minSize
      /\ enc' = setMaxSize(enc, w)
      /\ dec' = dec /\ maxSizeLimit' = maxSizeLimit
      /\ tableSizeUpdate' = TRUE /\ fields' = fields /\ firstField' = firstField
      /\ emitted' = emitted /\ meant' = meant /\ rejected' = rejected
  BY DEF SetMaxDynamicTableSize, decoder
<1>2. IInv'
  BY ResizeInv DEF SyncInv
<1>3. /\ w \in Nat /\ w <= Allowed /\ w < Unset
      /\ minSize \in Nat /\ maxSizeLimit \in Nat /\ enc.maxSize \in Nat
  BY <1>0 DEF SyncInv, PlainInv, IInv, Sound, Shape
<1> HIDE DEF w
<1>4. /\ enc'.maxSize = w /\ IsFit(enc.ents, w, enc'.ents) /\ Accounted(enc')
  BY <1>1, <1>3, SetMaxSizeSound, SetMaxSizeFits DEF SyncInv, PlainInv, IInv
<1>5. PICK S, T : /\ Replay(S, stream, firstField) /\ S[1] = dec.ents
                  /\ T = S[Len(stream) + 1] /\ Behind(T)
  BY DEF SyncInv, LagInv
<1>6. T \in Seq(Fields)
  BY <1>5 DEF Replay
<1>7. IsFit(T, IF w < minSize THEN w ELSE minSize, enc'.ents)
  <2>1. ~ tableSizeUpdate => enc.ents = T /\ w < minSize
    BY <1>3, <1>5 DEF Behind
  <2>2. tableSizeUpdate => /\ IsFit(T, IF minSize < enc.maxSize THEN minSize ELSE enc.maxSize, enc.ents)
                           /\ minSize <= enc.maxSize \/ T = <<>>
    BY <1>5 DEF Behind, Smallest
  <2> QED BY <1>3, <1>4, <1>6, <2>1, <2>2, ResizeFits
<1>8. Behind(T)'
  <2>1. minSize' <= enc'.maxSize
    BY <1>1, <1>3, <1>4
  <2>2. Smallest' = minSize'
    BY <1>1, <1>3, <1>4 DEF Smallest
  <2>3. IsFit(T, Smallest', enc'.ents)
    BY <1>1, <1>7, <2>2
  <2>4. fields = 0 => T = <<>>
    BY <1>5 DEF Behind
  <2> QED BY <1>1, <2>1, <2>3, <2>4 DEF Behind
<1>9. LagInv'
  <2>1. Replay(S, stream', firstField') /\ S[1] = dec'.ents /\ S[Len(stream') + 1] = T
    BY <1>1, <1>5
  <2> QED BY <1>8, <2>1 DEF LagInv
<1>10. PlainInv'
  BY <1>1, <1>3, <1>4 DEF SyncInv, PlainInv, Accounted
<1>11. FieldsSurvive'
  BY <1>1 DEF SyncInv, FieldsSurvive
<1> QED BY <1>2, <1>9, <1>10, <1>11 DEF SyncInv

\* The limit is set while both tables are still empty.
LEMMA SetLimitSync ==
  ASSUME SyncInv, NEW v \in Sizes, SetMaxDynamicTableSizeLimit(v)
  PROVE  SyncInv'
<1>0. v \in Nat /\ v <= Allowed /\ v < Unset
  BY SizesAssumption, AllowedAssumption
<1>1. /\ fields = 0 /\ fields' = fields /\ maxSizeLimit' = v
      /\ inBlock' = inBlock /\ stream' = stream /\ minSize' = minSize
      /\ dec' = dec /\ firstField' = firstField
      /\ emitted' = emitted /\ meant' = meant /\ rejected' = rejected
      /\ \/ tableSizeUpdate' = TRUE /\ enc' = setMaxSize(enc, v)
         \/ tableSizeUpdate' = tableSizeUpdate /\ enc' = enc
  BY DEF SetMaxDynamicTableSizeLimit, decoder
<1>2. IInv'
  BY ResizeInv DEF SyncInv
<1>3. minSize \in Nat /\ enc.maxSize \in Nat /\ enc.ents \in Seq(Fields)
  BY DEF SyncInv, IInv, Sound, Shape
<1>4. PICK S, T : /\ Replay(S, stream, firstField) /\ S[1] = dec.ents
                  /\ T = S[Len(stream) + 1] /\ Behind(T)
  BY DEF SyncInv, LagInv
<1>5. T = <<>> /\ T \in Seq(Fields)
  BY <1>1, <1>4 DEF Behind, Replay
<1>6. Smallest \in Nat
  BY <1>3 DEF Smallest
<1>7. enc.ents = <<>>
  <2>1. CASE ~ tableSizeUpdate
    BY <1>4, <1>5, <2>1 DEF Behind
  <2>2. CASE tableSizeUpdate
    <3>1. IsFit(T, Smallest, enc.ents)
      BY <1>4, <2>2 DEF Behind
    <3> QED BY <1>5, <3>1, FitOfNothing
  <2> QED BY <2>1, <2>2
<1>8. CASE tableSizeUpdate' = tableSizeUpdate /\ enc' = enc
  <2>1. Behind(T)'
    BY <1>1, <1>4, <1>8 DEF Behind, Smallest
  <2>2. LagInv'
    <3>1. Replay(S, stream', firstField') /\ S[1] = dec'.ents /\ S[Len(stream') + 1] = T
      BY <1>1, <1>4
    <3> QED BY <2>1, <3>1 DEF LagInv
  <2>3. PlainInv' /\ FieldsSurvive'
    BY <1>0, <1>1, <1>8 DEF SyncInv, PlainInv, Accounted, FieldsSurvive
  <2> QED BY <1>2, <2>2, <2>3 DEF SyncInv
<1>9. CASE tableSizeUpdate' = TRUE /\ enc' = setMaxSize(enc, v)
  <2>1. /\ enc'.maxSize = v /\ IsFit(enc.ents, v, enc'.ents) /\ Accounted(enc')
    BY <1>0, <1>9, SetMaxSizeSound, SetMaxSizeFits DEF SyncInv, PlainInv, IInv
  <2>2. enc'.ents = <<>>
    BY <1>7, <2>1, FitOfNothing
  <2>3. ~ inBlock
    BY <1>1 DEF SyncInv, PlainInv
  <2>4. Behind(T)'
    <3>1. Smallest' \in Nat
      BY <1>0, <1>1, <1>3, <2>1 DEF Smallest
    <3>2. IsFit(T, Smallest', enc'.ents)
      BY <1>5, <2>2, <3>1, FitNothing
    <3> QED BY <1>1, <1>5, <1>9, <2>3, <3>2 DEF Behind
  <2>5. LagInv'
    <3>1. Replay(S, stream', firstField') /\ S[1] = dec'.ents /\ S[Len(stream') + 1] = T
      BY <1>1, <1>4
    <3> QED BY <2>4, <3>1 DEF LagInv
  <2>6. PlainInv' /\ FieldsSurvive'
    BY <1>0, <1>1, <2>1 DEF SyncInv, PlainInv, Accounted, FieldsSurvive
  <2> QED BY <1>2, <2>5, <2>6 DEF SyncInv
<1> QED BY <1>1, <1>8, <1>9

\* A size update means what it says.
LEMMA SizeMeans ==
  ASSUME NEW v \in Nat, v <= Allowed, NEW T, NEW U, NEW start,
         IsFit(T, v, U), U = T \/ start
  PROVE  Means(SizeUpdate(v), T, U, start) /\ SizeUpdate(v) \in Wire
<1>1. SizeUpdate(v).kind = "size" /\ SizeUpdate(v).size = v /\ SizeUpdate(v) \in Wire
  BY DEF SizeUpdate, Wire
<1>2. MeansSize(SizeUpdate(v), T, U, start)
  BY <1>1 DEF MeansSize
<1> QED BY <1>1, <1>2, Zenon DEF Means

\* Sequences built one element at a time.
LEMMA AppendConcat ==
  ASSUME NEW S, NEW s \in Seq(S), NEW a \in S, NEW b \in S
  PROVE  /\ s \o <<>> = s
         /\ s \o <<a>> = Append(s, a)
         /\ s \o (<<>> \o <<a>>) = Append(s, a)
         /\ s \o (<<a>> \o <<b>>) = Append(Append(s, a), b)
OBVIOUS

\* The size updates that precede the next field bring the decoder to the
\* encoder's entries.
LEMMA UpdatesCatchUp ==
  ASSUME SyncInv
  PROVE  \E S : /\ Replay(S, stream \o SizeUpdates, firstField) /\ S[1] = dec.ents
                /\ S[Len(stream \o SizeUpdates) + 1] = enc.ents
<1>1. PICK S, T : /\ Replay(S, stream, firstField) /\ S[1] = dec.ents
                  /\ T = S[Len(stream) + 1] /\ Behind(T)
  BY DEF SyncInv, LagInv
<1>2. T \in Seq(Fields) /\ stream \in Seq(Wire) /\ enc.ents \in Seq(Fields)
  BY <1>1 DEF Replay, SyncInv, IInv, Sound, Shape
<1> DEFINE low == minSize
           max == enc.maxSize
<1>3. low \in Nat /\ max \in Nat /\ max <= Allowed /\ Allowed \in Nat
  BY SizesAssumption DEF SyncInv, PlainInv, IInv, Sound, Shape
<1>4. CASE ~ tableSizeUpdate
  <2>1. SizeUpdates = <<>> /\ enc.ents = T
    BY <1>1, <1>4 DEF SizeUpdates, Behind
  <2>2. stream \o SizeUpdates = stream
    BY <1>2, <2>1
  <2> QED BY <1>1, <2>1, <2>2
<1>5. CASE tableSizeUpdate
  <2>1. /\ IsFit(T, Smallest, enc.ents)
        /\ Starts(stream, firstField, Len(stream) + 1)
    BY <1>1, <1>5 DEF Behind, SyncInv, PlainInv
  <2> DEFINE final == SizeUpdate(max)
  <2>2. CASE low < max
    <3> DEFINE first == SizeUpdate(low)
    <3>1. SizeUpdates = <<first>> \o <<final>>
      BY <1>5, <2>2 DEF SizeUpdates
    <3>2. IsFit(T, low, enc.ents)
      BY <2>1, <2>2 DEF Smallest
    <3>3. low <= Allowed
      BY <1>3, <2>2
    <3>4. /\ first \in Wire
          /\ Means(first, S[Len(stream) + 1], enc.ents, Starts(stream, firstField, Len(stream) + 1))
      BY <1>1, <1>3, <2>1, <3>2, <3>3, SizeMeans
    <3>5. IsFit(enc.ents, max, enc.ents)
      <4>1. Total(enc.ents) <= low /\ Total(enc.ents) \in Nat
        BY <1>2, <1>3, <3>2, FitParts, TotalNatural
      <4>2. Total(enc.ents) <= max
        BY <1>3, <2>2, <4>1
      <4> QED BY <1>2, <1>3, <4>2, FitAlready
    <3>6. PICK A : A = Append(S, enc.ents)
      OBVIOUS
    <3>7. PICK x : x = Append(stream, first)
      OBVIOUS
    <3> HIDE DEF first, final
    <3>8. /\ Replay(A, x, firstField) /\ A[1] = S[1] /\ A[Len(x) + 1] = enc.ents
      <4>1. Extends(S, stream, firstField, first, enc.ents, A, x)
        BY <1>1, <1>2, <3>4, <3>6, <3>7, Zenon DEF Extends
      <4> QED BY <4>1, ReplayExtends
    <3>9. /\ final \in Wire
          /\ Means(final, A[Len(x) + 1], enc.ents, Starts(x, firstField, Len(x) + 1))
      BY <1>3, <3>5, <3>8, SizeMeans DEF final
    <3>10. PICK B : B = Append(A, enc.ents)
      OBVIOUS
    <3>11. PICK y : y = Append(x, final)
      OBVIOUS
    <3>12. /\ Replay(B, y, firstField) /\ B[1] = A[1] /\ B[Len(y) + 1] = enc.ents
      <4>1. Extends(A, x, firstField, final, enc.ents, B, y)
        BY <1>2, <3>8, <3>9, <3>10, <3>11, Zenon DEF Extends
      <4> QED BY <4>1, ReplayExtends
    <3>13. stream \o SizeUpdates = y
      BY <1>2, <3>1, <3>4, <3>7, <3>9, <3>11, AppendConcat
    <3> QED BY <1>1, <3>8, <3>12, <3>13
  <2>3. CASE ~ (low < max)
    <3>1. SizeUpdates = <<>> \o <<final>>
      BY <1>5, <2>3 DEF SizeUpdates
    <3>2. IsFit(T, max, enc.ents)
      BY <2>1, <2>3 DEF Smallest
    <3>3. /\ final \in Wire
          /\ Means(final, S[Len(stream) + 1], enc.ents, Starts(stream, firstField, Len(stream) + 1))
      BY <1>1, <1>3, <2>1, <3>2, SizeMeans
    <3>4. PICK A : A = Append(S, enc.ents)
      OBVIOUS
    <3>5. PICK x : x = Append(stream, final)
      OBVIOUS
    <3> HIDE DEF final
    <3>6. /\ Replay(A, x, firstField) /\ A[1] = S[1] /\ A[Len(x) + 1] = enc.ents
      <4>1. Extends(S, stream, firstField, final, enc.ents, A, x)
        BY <1>1, <1>2, <3>3, <3>4, <3>5, Zenon DEF Extends
      <4> QED BY <4>1, ReplayExtends
    <3>7. stream \o SizeUpdates = x
      BY <1>2, <3>1, <3>3, <3>5, AppendConcat
    <3> QED BY <1>1, <3>6, <3>7
  <2> QED BY <2>2, <2>3
<1> QED BY <1>4, <1>5

\* WriteField sends what makes the decoder end up with the encoder's entries.
LEMMA WriteFieldSync ==
  ASSUME SyncInv, NEW f \in Sent, WriteField(f)
  PROVE  SyncInv'
<1> DEFINE found == searchTable(f)
           sent == stream \o SizeUpdates
<1>0. f \in Fields /\ Sound(enc) /\ Accounted(enc) /\ fields \in Nat /\ found.i \in Nat
  BY SentAssumption, SearchTableIndex DEF SyncInv, IInv, PlainInv
<1>1. /\ minSize' = IF tableSizeUpdate THEN Unset ELSE minSize
      /\ tableSizeUpdate' = FALSE /\ inBlock' = TRUE /\ fields' = fields + 1
      /\ maxSizeLimit' = maxSizeLimit /\ dec' = dec /\ firstField' = firstField
      /\ emitted' = emitted /\ meant' = meant /\ rejected' = rejected
  BY DEF WriteField, decoder
<1>2. IInv'
  BY WriteFieldInv DEF SyncInv
<1>3. PICK S : Replay(S, sent, firstField) /\ S[1] = dec.ents /\ S[Len(sent) + 1] = enc.ents
  BY UpdatesCatchUp
<1>4. sent \in Seq(Wire) /\ Len(sent) \in Nat /\ enc.ents \in Seq(Fields)
  BY <1>0, <1>3 DEF Replay, Sound, Shape
<1> HIDE DEF sent, found
<1>5. PICK r, U : /\ r \in Wire /\ U \in Seq(Fields)
                  /\ stream' = sent \o <<r>> /\ enc'.ents = U
                  /\ Means(r, enc.ents, U, Starts(sent, firstField, Len(sent) + 1))
                  /\ enc'.maxSize = enc.maxSize /\ Accounted(enc')
  <2>1. CASE found.match
    <3>1. stream' = sent \o <<Indexed(found.i, f)>> /\ enc' = enc
      BY <2>1 DEF WriteField, sent, found
    <3>2. Indexed(found.i, f) \in Wire
      BY <1>0, SentIsWire
    <3>3. Means(Indexed(found.i, f), enc.ents, enc.ents, Starts(sent, firstField, Len(sent) + 1))
      BY <1>0, <2>1, FieldMeans, Zenon DEF found
    <3> QED BY <1>0, <1>4, <3>1, <3>2, <3>3
  <2>2. CASE ~ found.match
    <3> DEFINE U == IF shouldIndex(f) THEN Append(enc.ents, f) ELSE enc.ents
    <3>1. /\ stream' = sent \o <<Literal(TypeOf(f), found.i, f)>>
          /\ enc' = IF shouldIndex(f) THEN add(enc, f) ELSE enc
      BY <2>2 DEF WriteField, sent, found
    <3>2. Literal(TypeOf(f), found.i, f) \in Wire
      BY <1>0, SentIsWire
    <3>3. Means(Literal(TypeOf(f), found.i, f), enc.ents, U, Starts(sent, firstField, Len(sent) + 1))
      BY <1>0, <2>2, FieldMeans, Zenon DEF found
    <3>4. enc'.ents = U /\ U \in Seq(Fields) /\ Accounted(enc') /\ enc'.maxSize = enc.maxSize
      <4>1. CASE shouldIndex(f)
        <5>1. enc' = add(enc, f)
          BY <3>1, <4>1
        <5>2. add(enc, f).maxSize = enc.maxSize
          BY <1>0 DEF add, addEntry, Sound, Shape
        <5>3. Accounted(add(enc, f)) /\ add(enc, f).ents = Append(enc.ents, f)
          BY <1>0, AddAccounted
        <5> QED BY <1>0, <1>4, <4>1, <5>1, <5>2, <5>3
      <4>2. CASE ~ shouldIndex(f)
        BY <1>0, <1>4, <3>1, <4>2
      <4> QED BY <4>1, <4>2
    <3> HIDE DEF U
    <3> QED BY <3>1, <3>2, <3>3, <3>4
  <2> QED BY <2>1, <2>2
<1>6. PICK A : A = Append(S, U)
  OBVIOUS
<1>7. stream' = Append(sent, r)
  BY <1>4, <1>5, AppendConcat
<1>8. /\ Replay(A, stream', firstField) /\ A[1] = S[1] /\ A[Len(stream') + 1] = U
  <2>1. Means(r, S[Len(sent) + 1], U, Starts(sent, firstField, Len(sent) + 1))
    BY <1>3, <1>5
  <2>2. Extends(S, sent, firstField, r, U, A, stream')
    BY <1>3, <1>5, <1>6, <1>7, <2>1, Zenon DEF Extends
  <2> QED BY <2>2, ReplayExtends
<1>9. Behind(U)'
  <2>1. minSize' = Unset
    BY <1>1 DEF SyncInv, LagInv, Behind
  <2>2. fields' # 0
    BY <1>0, <1>1
  <2> QED BY <1>1, <1>5, <2>1, <2>2 DEF Behind
<1>10. LagInv'
  BY <1>1, <1>3, <1>8, <1>9 DEF LagInv
<1>11. PlainInv'
  <2>1. fields' \in Nat /\ fields' # 0
    BY <1>0, <1>1
  <2>2. Accounted(dec')
    BY <1>1 DEF SyncInv, PlainInv
  <2>3. /\ enc'.maxSize <= Allowed /\ maxSizeLimit' < Unset
        /\ tableSizeUpdate' \in BOOLEAN /\ inBlock' = TRUE /\ firstField' \in BOOLEAN
    BY <1>1, <1>5 DEF SyncInv, PlainInv
  <2> QED BY <1>5, <2>1, <2>2, <2>3 DEF PlainInv
<1>12. FieldsSurvive'
  BY <1>1 DEF SyncInv, FieldsSurvive
<1> QED BY <1>2, <1>10, <1>11, <1>12 DEF SyncInv

\* Fields of the same name, value and sensitivity are the same.
LEMMA SameField ==
  ASSUME NEW o \in Fields, NEW b, b = o.sensitive
  PROVE  o = [name |-> o.name, value |-> o.value, sensitive |-> b]
BY DEF Fields

\* What a representation carries along is a field.
LEMMA WireParts ==
  ASSUME NEW r \in Wire
  PROVE  /\ r.kind \in {"indexed", "literal", "size", "end"}
         /\ r.kind \in {"indexed", "literal"} => r.of \in Fields /\ r.idx \in Nat
         /\ r.kind = "size" => r.size \in Nat
BY DEF Wire

\* An index means the entry it was written for.
LEMMA IndexedSync ==
  ASSUME SyncInv, NEW r \in Wire, parseFieldIndexed(r), NEW U,
         MeansIndexed(r, dec.ents, U)
  PROVE  dec'.ents = U /\ Accounted(dec') /\ FieldsSurvive'
<1>1. /\ r.kind = "indexed" /\ U = dec.ents /\ InTables(dec.ents, r.idx)
      /\ Pair(EntryOf(dec.ents, r.idx)) = Pair(r.of) /\ ~ r.of.sensitive
  BY DEF MeansIndexed
<1>2. r.of \in Fields /\ r.idx \in Nat
  BY <1>1, WireParts
<1>3. Known(r.idx) /\ at(r.idx) = EntryOf(dec.ents, r.idx)
  BY <1>1 DEF InTables, EntryOf, Known, maxTableIndex, at
<1>4. at(r.idx) \in Fields
  BY <1>2, <1>3, AtIsField DEF SyncInv, IInv
<1>5. /\ emitted' = [at(r.idx) EXCEPT !.sensitive = FALSE] /\ meant' = r.of
      /\ rejected' = rejected /\ dec' = dec
  BY <1>3 DEF parseFieldIndexed, Emit
<1>6. at(r.idx).name = r.of.name /\ at(r.idx).value = r.of.value
  BY <1>1, <1>3 DEF Pair
<1>7. emitted' = [name |-> r.of.name, value |-> r.of.value, sensitive |-> FALSE]
  <2>1. PICK e \in Fields : e = at(r.idx)
    BY <1>4
  <2>2. [e EXCEPT !.sensitive = FALSE] = [name |-> e.name, value |-> e.value, sensitive |-> FALSE]
    <3> DEFINE x == [e EXCEPT !.sensitive = FALSE]
    <3>1. /\ DOMAIN e = {"name", "value", "sensitive"}
          /\ x = [k \in DOMAIN e |-> IF k = "sensitive" THEN FALSE ELSE e[k]]
      BY DEF Fields
    <3> HIDE DEF x
    <3>2. /\ x = [k \in {"name", "value", "sensitive"} |-> x[k]]
          /\ x["name"] = e.name /\ x["value"] = e.value /\ x["sensitive"] = FALSE
      BY <3>1
    <3>3. x = [name |-> e.name, value |-> e.value, sensitive |-> FALSE]
      BY <3>2
    <3> QED BY <3>3 DEF x
  <2> QED BY <1>5, <1>6, <2>1, <2>2
<1>8. FALSE = r.of.sensitive
  BY <1>1, <1>2 DEF Fields
<1>9. emitted' = meant'
  BY <1>2, <1>5, <1>7, <1>8, SameField
<1> QED BY <1>1, <1>5, <1>9 DEF SyncInv, PlainInv, FieldsSurvive

\* A literal is the field it was written for, and is added as such.
LEMMA LiteralSync ==
  ASSUME SyncInv, NEW r \in Wire, parseFieldLiteral(r), NEW U,
         MeansLiteral(r, dec.ents, U)
  PROVE  dec'.ents = U /\ Accounted(dec') /\ FieldsSurvive'
<1>1. /\ r.kind = "literal" /\ (r.idx = 0 => r.name = r.of.name)
      /\ r.idx # 0 => InTables(dec.ents, r.idx) /\ EntryOf(dec.ents, r.idx).name = r.of.name
      /\ r.value = r.of.value /\ (r.it = "indexedNever" <=> r.of.sensitive)
      /\ U = IF r.it = "indexedTrue" THEN Append(dec.ents, r.of) ELSE dec.ents
  BY DEF MeansLiteral
<1>2. r.of \in Fields /\ r.idx \in Nat
  BY <1>1, WireParts
<1>3. r.idx = 0 \/ Known(r.idx)
  BY <1>1, <1>2 DEF InTables, Known, maxTableIndex
<1>4. r.idx # 0 => at(r.idx).name = r.of.name
  BY <1>1 DEF EntryOf, at
<1> DEFINE f == [name |-> IF r.idx = 0 THEN r.name ELSE at(r.idx).name,
                 value |-> r.value, sensitive |-> FALSE]
<1>5. f = [name |-> r.of.name, value |-> r.of.value, sensitive |-> FALSE]
  BY <1>1, <1>4
<1>6. /\ rejected' = rejected \cup Overriding(r)
      /\ dec' = IF r.it = "indexedTrue" THEN add(dec, f) ELSE dec
      /\ emitted' = [f EXCEPT !.sensitive = (r.it = "indexedNever")] /\ meant' = r.of
  <2>1. ~ (r.idx > 0 /\ ~ Known(r.idx))
    BY <1>2, <1>3
  <2> QED BY <2>1, Zenon DEF parseFieldLiteral, Emit
<1>7. "invalid index" \notin rejected'
  BY <1>6 DEF Overriding, SyncInv, FieldsSurvive
<1>8. (r.it = "indexedNever") = r.of.sensitive
  <2>1. (r.it = "indexedNever") \in BOOLEAN /\ r.of.sensitive \in BOOLEAN
    BY <1>2 DEF Fields
  <2> QED BY <1>1, <2>1
<1> HIDE DEF f
<1>9. emitted' = meant'
  <2>1. emitted' = [name |-> r.of.name, value |-> r.of.value, sensitive |-> (r.it = "indexedNever")]
    BY <1>5, <1>6
  <2> QED BY <1>2, <1>6, <1>8, <2>1, SameField
<1>10. dec'.ents = U /\ Accounted(dec')
  <2>1. CASE r.it = "indexedTrue"
    <3>1. FALSE = r.of.sensitive
      BY <1>8, <2>1
    <3>2. f = r.of
      BY <1>2, <1>5, <3>1, SameField
    <3>3. dec' = add(dec, r.of) /\ U = Append(dec.ents, r.of)
      BY <1>1, <1>6, <2>1, <3>2
    <3>4. Accounted(add(dec, r.of)) /\ add(dec, r.of).ents = Append(dec.ents, r.of)
      BY <1>2, AddAccounted DEF SyncInv, IInv, PlainInv
    <3> QED BY <3>3, <3>4
  <2>2. CASE r.it # "indexedTrue"
    BY <1>1, <1>6, <2>2 DEF SyncInv, PlainInv
  <2> QED BY <2>1, <2>2
<1> QED BY <1>7, <1>9, <1>10 DEF FieldsSurvive

\* A size update evicts as the encoder did, or is refused when there is
\* nothing to evict.
LEMMA SizeSync ==
  ASSUME SyncInv, NEW r \in Wire, parseDynamicTableSizeUpdate(r), NEW U,
         MeansSize(r, dec.ents, U, firstField)
  PROVE  dec'.ents = U /\ Accounted(dec') /\ FieldsSurvive'
<1>1. /\ r.kind = "size" /\ r.size <= Allowed /\ IsFit(dec.ents, r.size, U)
      /\ U = dec.ents \/ firstField
  BY DEF MeansSize
<1>2. r.size \in Nat /\ Allowed \in Nat
  BY <1>1, WireParts, SizesAssumption
<1>3. FieldsSurvive'
  BY DEF parseDynamicTableSizeUpdate, Reject, NoEmit, SyncInv, FieldsSurvive
<1>4. CASE dec' = dec /\ ~ firstField
  BY <1>1, <1>3, <1>4 DEF SyncInv, PlainInv
<1>5. CASE dec' = setMaxSize(dec, r.size)
  <2>1. IsFit(dec.ents, r.size, dec'.ents) /\ Accounted(dec')
    BY <1>2, <1>5, SetMaxSizeFits DEF SyncInv, IInv, PlainInv
  <2>2. dec.ents \in Seq(Fields)
    BY DEF SyncInv, IInv, Sound, Shape
  <2>3. dec'.ents = U
    BY <1>1, <1>2, <2>1, <2>2, FitUnique
  <2> QED BY <1>3, <2>1, <2>3
<1>6. (dec' = dec /\ ~ firstField) \/ dec' = setMaxSize(dec, r.size)
  <2>1. ~ (r.size > Allowed)
    BY <1>1, <1>2
  <2> QED BY <2>1, Zenon DEF parseDynamicTableSizeUpdate
<1> QED BY <1>4, <1>5, <1>6

\* The rest of a step of the decoder: the first snapshot goes.
LEMMA DecoderAdvances ==
  ASSUME SyncInv, IInv', stream # <<>>, stream' = Tail(stream), UNCHANGED encoder,
         firstField' = (stream[1].kind = "end"),
         Accounted(dec'), FieldsSurvive',
         \A U : Means(stream[1], dec.ents, U, firstField) => dec'.ents = U
  PROVE  SyncInv'
<1>1. PICK S, T : /\ Replay(S, stream, firstField) /\ S[1] = dec.ents
                  /\ T = S[Len(stream) + 1] /\ Behind(T)
  BY DEF SyncInv, LagInv
<1>2. /\ enc' = enc /\ minSize' = minSize /\ maxSizeLimit' = maxSizeLimit
      /\ tableSizeUpdate' = tableSizeUpdate /\ inBlock' = inBlock /\ fields' = fields
  BY DEF encoder
<1>3. /\ Replay(Tail(S), Tail(stream), firstField')
      /\ Len(Tail(stream)) = Len(stream) - 1 /\ Len(stream) \in Nat /\ Len(stream) > 0
      /\ Tail(S)[1] = S[2] /\ Tail(S)[Len(stream)] = S[Len(stream) + 1]
      /\ Starts(Tail(stream), firstField', Len(stream)) = Starts(stream, firstField, Len(stream) + 1)
      /\ Means(stream[1], S[1], S[2], firstField)
  BY <1>1, ReplayAdvances
<1>4. dec'.ents = S[2]
  BY <1>1, <1>3
<1>5. Len(stream') + 1 = Len(stream)
  BY <1>3
<1>6. Behind(T)'
  BY <1>1, <1>2 DEF Behind, Smallest
<1>7. LagInv'
  <2>1. PICK A : A = Tail(S)
    OBVIOUS
  <2>2. Replay(A, stream', firstField') /\ A[1] = dec'.ents /\ A[Len(stream') + 1] = T
    BY <1>1, <1>3, <1>4, <1>5, <2>1
  <2> QED BY <1>6, <2>2 DEF LagInv
<1>8. PlainInv'
  <2>1. ~ inBlock' => Starts(stream', firstField', Len(stream') + 1)
    BY <1>2, <1>3, <1>5 DEF SyncInv, PlainInv
  <2>2. firstField' \in BOOLEAN
    OBVIOUS
  <2> QED BY <1>2, <2>1, <2>2 DEF SyncInv, PlainInv, Accounted
<1> QED BY <1>7, <1>8 DEF SyncInv

\* The decoder reads a representation as the encoder meant it.
LEMMA WriteSync ==
  ASSUME SyncInv, Write
  PROVE  SyncInv'
<1>1. /\ stream # <<>> /\ stream' = Tail(stream) /\ UNCHANGED encoder
      /\ Head(stream) = stream[1] /\ stream[1] \in Wire
      /\ Head(stream).kind # "end" /\ firstField' = FALSE
  BY DEF Write, SyncInv, IInv
<1>2. IInv'
  BY WriteInv DEF SyncInv
<1>3. PICK r \in Wire : r = stream[1]
  BY <1>1
<1>4. ASSUME NEW U, Means(r, dec.ents, U, firstField)
      PROVE  dec'.ents = U /\ Accounted(dec') /\ FieldsSurvive'
  <2>1. parseFieldIndexed(r) \/ parseFieldLiteral(r) \/ parseDynamicTableSizeUpdate(r)
    BY <1>1, <1>3 DEF Write
  <2>2. r.kind # "end"
    BY <1>1, <1>3
  <2>3. CASE parseFieldIndexed(r)
    <3>1. r.kind = "indexed"
      BY <2>3 DEF parseFieldIndexed
    <3>2. MeansIndexed(r, dec.ents, U)
      BY <1>4, <3>1 DEF Means, MeansLiteral, MeansSize
    <3> QED BY <2>3, <3>2, IndexedSync
  <2>4. CASE parseFieldLiteral(r)
    <3>1. r.kind = "literal"
      BY <2>4 DEF parseFieldLiteral
    <3>2. MeansLiteral(r, dec.ents, U)
      BY <1>4, <3>1 DEF Means, MeansIndexed, MeansSize
    <3> QED BY <2>4, <3>2, LiteralSync
  <2>5. CASE parseDynamicTableSizeUpdate(r)
    <3>1. r.kind = "size"
      BY <2>5 DEF parseDynamicTableSizeUpdate
    <3>2. MeansSize(r, dec.ents, U, firstField)
      BY <1>4, <3>1 DEF Means, MeansIndexed, MeansLiteral
    <3> QED BY <2>5, <3>2, SizeSync
  <2> QED BY <2>1, <2>3, <2>4, <2>5
<1>5. \E U : Means(r, dec.ents, U, firstField)
  <2>1. PICK S : Replay(S, stream, firstField) /\ S[1] = dec.ents
    BY DEF SyncInv, LagInv
  <2>2. 1 \in 1 .. Len(stream) /\ Starts(stream, firstField, 1) = firstField
    BY <1>1 DEF Starts, SyncInv, IInv
  <2>3. Means(stream[1], S[1], S[1 + 1], Starts(stream, firstField, 1))
    BY <2>1, <2>2 DEF Replay
  <2> QED BY <1>3, <2>1, <2>2, <2>3
<1>6. Accounted(dec') /\ FieldsSurvive'
  BY <1>4, <1>5
<1>7. \A U : Means(stream[1], dec.ents, U, firstField) => dec'.ents = U
  BY <1>3, <1>4
<1>8. firstField' = (stream[1].kind = "end")
  BY <1>1
<1> QED BY <1>1, <1>2, <1>6, <1>7, <1>8, DecoderAdvances

\* The end of a block changes no entry.
LEMMA CloseSync ==
  ASSUME SyncInv, Close
  PROVE  SyncInv'
<1>1. /\ stream # <<>> /\ stream' = Tail(stream) /\ UNCHANGED encoder
      /\ Head(stream) = stream[1] /\ Head(stream).kind = "end" /\ firstField' = TRUE
      /\ dec' = dec /\ emitted' = emitted /\ meant' = meant /\ rejected' = rejected
  BY DEF Close, SyncInv, IInv
<1>2. IInv'
  BY CloseInv DEF SyncInv
<1>3. Accounted(dec') /\ FieldsSurvive'
  BY <1>1 DEF SyncInv, PlainInv, FieldsSurvive
<1>4. \A U : Means(stream[1], dec.ents, U, firstField) => dec'.ents = U
  BY <1>1 DEF Means, MeansIndexed, MeansLiteral, MeansSize
<1>5. firstField' = (stream[1].kind = "end")
  BY <1>1
<1> QED BY <1>1, <1>2, <1>3, <1>4, <1>5, DecoderAdvances

\* In every behaviour the decoder is behind the encoder and nothing else.
THEOREM SyncInvariance == Spec => []SyncInv
<1>1. SyncInv /\ [Next]_vars => SyncInv'
  <2> SUFFICES ASSUME SyncInv, [Next]_vars PROVE SyncInv'
    OBVIOUS
  <2>1. ASSUME NEW f \in Sent, WriteField(f) PROVE SyncInv'
    BY <2>1, WriteFieldSync
  <2>2. CASE EndBlock
    BY <2>2, EndBlockSync
  <2>3. ASSUME NEW v \in Sizes, SetMaxDynamicTableSize(v) PROVE SyncInv'
    BY <2>3, SetMaxSync
  <2>4. ASSUME NEW v \in Sizes, SetMaxDynamicTableSizeLimit(v) PROVE SyncInv'
    BY <2>4, SetLimitSync
  <2>5. CASE Write
    BY <2>5, WriteSync
  <2>6. CASE Close
    BY <2>6, CloseSync
  <2>7. CASE UNCHANGED vars
    <3>1. /\ enc' = enc /\ minSize' = minSize /\ maxSizeLimit' = maxSizeLimit
          /\ tableSizeUpdate' = tableSizeUpdate /\ inBlock' = inBlock /\ fields' = fields
          /\ stream' = stream /\ dec' = dec /\ firstField' = firstField
          /\ emitted' = emitted /\ meant' = meant /\ rejected' = rejected
      BY <2>7 DEF vars, encoder, decoder
    <3>2. IInv' /\ PlainInv' /\ FieldsSurvive'
      BY <3>1 DEF SyncInv, IInv, PlainInv, FieldsSurvive
    <3>3. LagInv'
      BY <3>1 DEF SyncInv, LagInv, Behind, Smallest
    <3> QED BY <3>2, <3>3 DEF SyncInv
  <2> QED BY <2>1, <2>2, <2>3, <2>4, <2>5, <2>6, <2>7 DEF Next
<1> QED BY <1>1, InitSync, PTL DEF Spec

\* The decoder's user gets the fields the encoder's user wrote, and no index
\* is unknown, for every table size, every sequence of fields and resizes and
\* however far the decoder lags behind.
THEOREM EveryFieldSurvives == Spec => []FieldsSurvive
<1>1. SyncInv => FieldsSurvive
  BY DEF SyncInv
<1> QED BY <1>1, SyncInvariance, PTL

\* Once the decoder has read everything and no update is pending, both tables
\* have the same entries, although evictions are sent as at most two updates
\* and the second may be refused.
THEOREM TablesInStep == Spec => []TablesAgree
<1>1. SyncInv => TablesAgree
  <2> SUFFICES ASSUME SyncInv, stream = <<>>, ~ tableSizeUpdate
               PROVE  dec.ents = enc.ents /\ dec.size = enc.size
    BY DEF TablesAgree
  <2>1. PICK S : S[1] = dec.ents /\ Behind(S[Len(stream) + 1])
    BY DEF SyncInv, LagInv
  <2>2. Len(stream) + 1 = 1
    OBVIOUS
  <2>3. dec.ents = enc.ents
    BY <2>1, <2>2 DEF Behind
  <2> QED BY <2>3 DEF SyncInv, PlainInv, Accounted
<1> QED BY <1>1, SyncInvariance, PTL

\* Each table accounts for exactly the sizes of its entries, whatever was
\* added and evicted.
THEOREM SizesAddUp == Spec => []SizeAccounted
<1>1. ASSUME NEW t, Sound(t), Accounted(t)
      PROVE  t.size = SizeWithout([t EXCEPT !.size = 0])[Len(t.ents)] * (-1)
  <2> DEFINE u == [t EXCEPT !.size = 0]
  <2>1. u.ents = t.ents /\ u.size = 0 /\ t.ents \in Seq(Fields)
    BY <1>1 DEF Sound, Shape
  <2> HIDE DEF u
  <2>2. SizeWithout(u)[Len(t.ents)] = 0 - Total(t.ents)
    BY <2>1, SizeWithoutIs DEF Total
  <2>3. Total(t.ents) \in Nat /\ t.size = Total(t.ents)
    BY <1>1, <2>1, TotalNatural DEF Accounted
  <2>4. t.size = SizeWithout(u)[Len(t.ents)] * (-1)
    BY <2>2, <2>3
  <2> QED BY <2>4 DEF u
<1>2. SyncInv => SizeAccounted
  BY <1>1 DEF SyncInv, IInv, PlainInv, SizeAccounted
<1> QED BY <1>2, SyncInvariance, PTL

-----------------------------------------------------------------------------
(* Types *)

\* A function with the fields of a table, which accounts for its entries, is
\* a table.
LEMMA TableShape ==
  ASSUME NEW u, Sound(u), Accounted(u), u = [k \in DOMAIN u |-> u[k]]
  PROVE  u \in Tables
<1>1. u.size \in Int
  BY TotalNatural DEF Sound, Shape, Accounted
<1> QED BY <1>1 DEF Sound, Shape, Tables

\* add returns a table.
LEMMA AddTable ==
  ASSUME NEW t, Sound(t), Accounted(t), NEW f \in Fields
  PROVE  add(t, f) \in Tables
<1>1. Sound(add(t, f)) /\ Accounted(add(t, f))
  BY AddSound, AddAccounted
<1>2. add(t, f) = [k \in DOMAIN add(t, f) |-> add(t, f)[k]]
  BY DEF add
<1> QED BY <1>1, <1>2, TableShape

\* So does setMaxSize.
LEMMA SetMaxSizeTable ==
  ASSUME NEW t, Sound(t), Accounted(t), NEW v \in Nat
  PROVE  setMaxSize(t, v) \in Tables
<1>1. Sound(setMaxSize(t, v)) /\ Accounted(setMaxSize(t, v))
  BY SetMaxSizeSound, SetMaxSizeFits
<1>2. setMaxSize(t, v) = [k \in DOMAIN setMaxSize(t, v) |-> setMaxSize(t, v)[k]]
  BY DEF setMaxSize, evict
<1> QED BY <1>1, <1>2, TableShape

\* What the other invariants say nothing of.
TypeInv ==
  /\ enc \in Tables /\ dec \in Tables
  /\ emitted \in Fields \cup {NoField}
  /\ fields \in 0 .. MaxFields /\ resizes \in 0 .. MaxResizes

\* The encoder's part of a step.
LEMMA EncoderTypes ==
  ASSUME SyncInv, TypeInv, Next, UNCHANGED decoder
  PROVE  TypeInv'
<1>0. /\ Sound(enc) /\ Accounted(enc)
      /\ MaxFields \in Nat /\ MaxResizes \in Nat \ {0} /\ maxSizeLimit \in Nat
  BY SizesAssumption DEF SyncInv, IInv, PlainInv
<1>1. dec' = dec /\ emitted' = emitted
  BY DEF decoder
<1>2. CASE UNCHANGED encoder
  BY <1>1, <1>2 DEF encoder, TypeInv
<1>3. ASSUME NEW f \in Sent, WriteField(f) PROVE TypeInv'
  <2>1. f \in Fields
    BY SentAssumption
  <2>2. add(enc, f) \in Tables
    BY <1>0, <2>1, AddTable
  <2>3. enc' = enc \/ enc' = add(enc, f)
    BY <1>3 DEF WriteField
  <2>4. resizes' = resizes /\ fields' = fields + 1 /\ fields < MaxFields
    BY <1>3 DEF WriteField
  <2>5. fields' \in 0 .. MaxFields
    BY <1>0, <2>4 DEF TypeInv
  <2> QED BY <1>1, <2>2, <2>3, <2>4, <2>5 DEF TypeInv
<1>4. CASE EndBlock
  BY <1>1, <1>4 DEF EndBlock, TypeInv
<1>5. ASSUME NEW v \in Sizes,
             SetMaxDynamicTableSize(v) \/ SetMaxDynamicTableSizeLimit(v)
      PROVE  TypeInv'
  <2>1. v \in Nat
    BY SizesAssumption
  <2>2. setMaxSize(enc, v) \in Tables /\ setMaxSize(enc, maxSizeLimit) \in Tables
    BY <1>0, <2>1, SetMaxSizeTable
  <2>3. enc' = enc \/ enc' = setMaxSize(enc, v) \/ enc' = setMaxSize(enc, maxSizeLimit)
    BY <1>5 DEF SetMaxDynamicTableSize, SetMaxDynamicTableSizeLimit
  <2>4. fields' = fields /\ resizes' = resizes + 1
    BY <1>5 DEF SetMaxDynamicTableSize, SetMaxDynamicTableSizeLimit
  <2>5. resizes' \in 0 .. MaxResizes
    BY <1>0, <1>5, <2>4 DEF TypeInv, SetMaxDynamicTableSize, SetMaxDynamicTableSizeLimit
  <2> QED BY <1>1, <2>2, <2>3, <2>4, <2>5 DEF TypeInv
<1>6. CASE Write \/ Close
  BY <1>2, <1>6 DEF Write, Close
<1> QED BY <1>3, <1>4, <1>5, <1>6 DEF Next

\* What add and setMaxSize return is a function, whatever they are given.
LEMMA TablesAreFunctions ==
  /\ \A t, f : add(t, f) = [k \in DOMAIN add(t, f) |-> add(t, f)[k]]
  /\ \A t, v : setMaxSize(t, v) = [k \in DOMAIN setMaxSize(t, v) |-> setMaxSize(t, v)[k]]
BY DEF add, setMaxSize, evict

\* The decoder's part of a step.
LEMMA DecoderTypes ==
  ASSUME SyncInv, SyncInv', TypeInv, Write \/ Close
  PROVE  TypeInv'
<1>1. /\ enc' = enc /\ fields' = fields /\ resizes' = resizes
      /\ Sound(dec') /\ Accounted(dec') /\ emitted' = meant' /\ emitted = meant
  BY DEF Write, Close, encoder, SyncInv, IInv, PlainInv, FieldsSurvive
<1>2. CASE Close
  BY <1>1, <1>2 DEF Close, TypeInv
<1>3. CASE Write
  <2>1. PICK r \in Wire : \/ parseFieldIndexed(r)
                          \/ parseFieldLiteral(r)
                          \/ parseDynamicTableSizeUpdate(r)
    <3>1. Head(stream) \in Wire
      BY <1>3 DEF Write, SyncInv, IInv
    <3> QED BY <1>3, <3>1 DEF Write
  <2>2. dec' = dec \/ (\E f : dec' = add(dec, f)) \/ (\E v : dec' = setMaxSize(dec, v))
    BY <2>1, Zenon DEF parseFieldIndexed, parseFieldLiteral, parseDynamicTableSizeUpdate
  <2>3. dec' \in Tables
    <3>1. CASE dec' = dec
      BY <3>1 DEF TypeInv
    <3>2. CASE dec' = [k \in DOMAIN dec' |-> dec'[k]]
      <4>1. PICK u : u = dec'
        OBVIOUS
      <4>2. Sound(u) /\ Accounted(u) /\ u = [k \in DOMAIN u |-> u[k]]
        BY <1>1, <3>2, <4>1
      <4> QED BY <4>1, <4>2, TableShape
    <3> QED BY <2>2, <3>1, <3>2, TablesAreFunctions
  <2>4. emitted' = emitted \/ (meant' = r.of /\ r.kind \in {"indexed", "literal"})
    BY <2>1, Zenon
    DEF parseFieldIndexed, parseFieldLiteral, parseDynamicTableSizeUpdate, Emit, NoEmit
  <2>5. r.kind \in {"indexed", "literal"} => r.of \in Fields
    BY WireParts
  <2> QED BY <1>1, <2>3, <2>4, <2>5 DEF TypeInv
<1> QED BY <1>2, <1>3

\* What is on the wire is a representation.
LEMMA WireTyped == Wire \subseteq Representations
BY DEF Wire, Representations

\* Every variable keeps its type: neither side ever holds a table, a field or
\* a representation that is none, and the counters stay within their bounds.
THEOREM TypeCorrect == Spec => []TypeOK
<1>1. Init => TypeInv
  <2> SUFFICES ASSUME Init PROVE TypeInv
    OBVIOUS
  <2>1. PICK u : u = NewTable(InitialSize)
    OBVIOUS
  <2>2. Sound(u) /\ u = [k \in DOMAIN u |-> u[k]]
    <3>1. Sound(NewTable(InitialSize))
      BY NewTableSound, SizesAssumption
    <3>2. NewTable(InitialSize)
            = [k \in DOMAIN NewTable(InitialSize) |-> NewTable(InitialSize)[k]]
      BY DEF NewTable
    <3> QED BY <2>1, <3>1, <3>2
  <2>3. Accounted(u)
    BY <2>1, InitSync DEF Init, SyncInv, PlainInv
  <2>4. u \in Tables
    BY <2>2, <2>3, TableShape
  <2> QED BY <2>1, <2>4, SizesAssumption DEF Init, TypeInv
<1>2. SyncInv /\ SyncInv' /\ TypeInv /\ [Next]_vars => TypeInv'
  <2> SUFFICES ASSUME SyncInv, SyncInv', TypeInv, [Next]_vars PROVE TypeInv'
    OBVIOUS
  <2>1. CASE Write \/ Close
    BY <2>1, DecoderTypes
  <2>2. CASE Next /\ UNCHANGED decoder
    BY <2>2, EncoderTypes
  <2>3. CASE UNCHANGED vars
    BY <2>3 DEF vars, encoder, decoder, TypeInv
  <2>4. Next => Write \/ Close \/ UNCHANGED decoder
    BY DEF Next, WriteField, EndBlock, SetMaxDynamicTableSize, SetMaxDynamicTableSizeLimit
  <2> QED BY <2>1, <2>2, <2>3, <2>4
<1>3. SyncInv /\ TypeInv => TypeOK
  <2> SUFFICES ASSUME SyncInv, TypeInv PROVE TypeOK
    OBVIOUS
  <2>1. stream \in Seq(Representations)
    BY WireTyped DEF SyncInv, IInv
  <2>2. meant = emitted
    BY DEF SyncInv, FieldsSurvive
  <2> QED BY <2>1, <2>2 DEF SyncInv, IInv, PlainInv, TypeInv, TypeOK
<1> QED BY <1>1, <1>2, <1>3, SyncInvariance, PTL DEF Spec
=============================================================================
