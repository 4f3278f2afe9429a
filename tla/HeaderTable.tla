---------------------------- MODULE HeaderTable ----------------------------
(***************************************************************************)
(* HPACK tables: headerFieldTable of http2/hpack/tables.go and the         *)
(* dynamicTable of http2/hpack/hpack.go built on it, as operators on a     *)
(* record.  The encoder and the decoder each keep one.                     *)
(*                                                                         *)
(* ents holds the entries, oldest first.  Every entry ever added has a     *)
(* unique id: the one at position k of ents has id k + evictCount.  The    *)
(* maps byName and byNameValue hold ids, 0 meaning absent, as a lookup in  *)
(* a Go map does.                                                          *)
(***************************************************************************)
EXTENDS Integers, Sequences, FiniteSets

CONSTANTS
  Names,      \* header field names
  Values,     \* header field values
  Length,     \* the length in octets of every name and value
  Overhead    \* what an entry costs beyond its name and value (32)

ASSUME LengthAssumption ==
  Length \in [Names \cup Values -> Nat] /\ Overhead \in Nat \ {0}

Fields == [name : Names, value : Values, sensitive : BOOLEAN]

\* HeaderField.Size.  (The 32-bit sum is taken to be exact: the encoding
\* cannot carry a field long enough to overflow it.)
Size(f) == Length[f.name] + Length[f.value] + Overhead

\* What an entry of a table keeps of a field: Sensitive is never looked at.
Pair(f) == <<f.name, f.value>>

Tables ==
  [ents : Seq(Fields), evictCount : Nat,
   byName : [Names -> Nat], byNameValue : [Names \X Values -> Nat],
   size : Int, maxSize : Nat]

\* init and the setMaxSize of a constructor.
NewTable(max) ==
  [ents |-> <<>>, evictCount |-> 0,
   byName |-> [x \in Names |-> 0],
   byNameValue |-> [p \in Names \X Values |-> 0],
   size |-> 0, maxSize |-> max]

IdOf(t, k) == k + t.evictCount

addEntry(t, f) ==
  LET id == IdOf(t, Len(t.ents) + 1)
  IN  [t EXCEPT !.byName[f.name] = id,
                !.byNameValue[Pair(f)] = id,
                !.ents = Append(@, f)]

\* Mutant: an evicted entry clears its name although a newer one has it.
ClearsNameAlways(t, n, x) == \E k \in 1 .. n : t.ents[k].name = x

\* Evicting the n oldest entries deletes a key when the id it holds is that
\* of an evicted entry.
ClearsName(t, n, x) ==
  \E k \in 1 .. n : t.ents[k].name = x /\ t.byName[x] = IdOf(t, k)
ClearsPair(t, n, p) ==
  \E k \in 1 .. n : Pair(t.ents[k]) = p /\ t.byNameValue[p] = IdOf(t, k)

evictOldest(t, n) ==
  [t EXCEPT
     !.byName = [x \in Names |-> IF ClearsName(t, n, x) THEN 0 ELSE t.byName[x]],
     !.byNameValue = [p \in Names \X Values |->
                        IF ClearsPair(t, n, p) THEN 0 ELSE t.byNameValue[p]],
     !.ents = SubSeq(@, n + 1, Len(@)),
     !.evictCount = @ + n]

-----------------------------------------------------------------------------
(* dynamicTable *)

\* The size left once the k oldest entries are gone.
SizeWithout(t) ==
  LET left[k \in 0 .. Len(t.ents)] ==
        IF k = 0 THEN t.size ELSE left[k - 1] - Size(t.ents[k])
  IN  left

\* How many entries evict drops: as long as the table is too big it drops
\* one more, and the size only shrinks on the way.
Surplus(t) ==
  Cardinality({k \in 0 .. Len(t.ents) - 1 : SizeWithout(t)[k] > t.maxSize})

evict(t) == [evictOldest(t, Surplus(t)) EXCEPT !.size = SizeWithout(t)[Surplus(t)]]

setMaxSize(t, v) == evict([t EXCEPT !.maxSize = v])

\* Mutant: the new entry is not accounted for.
AddUncounted(t, f) == addEntry(t, f)

\* add does not evict.
add(t, f) == [addEntry(t, f) EXCEPT !.size = @ + Size(f)]

-----------------------------------------------------------------------------
(* Searching *)

\* idToIndex: index 1 is the newest entry of a dynamic table, the oldest of
\* the static one.
idToIndex(t, id, static) ==
  LET k == id - t.evictCount - 1
  IN  IF static THEN k + 1 ELSE Len(t.ents) - k

\* search: a match of name and value unless the field is sensitive, else a
\* match of the name, else index 0.
search(t, f, static) ==
  LET pairId == IF f.sensitive THEN 0 ELSE t.byNameValue[Pair(f)]
      nameId == t.byName[f.name]
  IN  IF pairId # 0 THEN [i |-> idToIndex(t, pairId, static), match |-> TRUE]
      ELSE IF nameId # 0 THEN [i |-> idToIndex(t, nameId, static), match |-> FALSE]
      ELSE [i |-> 0, match |-> FALSE]

-----------------------------------------------------------------------------
(* What the maps must hold *)

\* A name maps to the id of its newest entry, and to 0 if it has none.
NewestByName(t) ==
  \A x \in Names :
    \/ /\ t.byName[x] = 0
       /\ \A k \in 1 .. Len(t.ents) : t.ents[k].name # x
    \/ \E k \in 1 .. Len(t.ents) :
         /\ t.byName[x] = IdOf(t, k)
         /\ t.ents[k].name = x
         /\ \A j \in k + 1 .. Len(t.ents) : t.ents[j].name # x

\* So does a name and value pair.
NewestByPair(t) ==
  \A p \in Names \X Values :
    \/ /\ t.byNameValue[p] = 0
       /\ \A k \in 1 .. Len(t.ents) : Pair(t.ents[k]) # p
    \/ \E k \in 1 .. Len(t.ents) :
         /\ t.byNameValue[p] = IdOf(t, k)
         /\ Pair(t.ents[k]) = p
         /\ \A j \in k + 1 .. Len(t.ents) : Pair(t.ents[j]) # p
=============================================================================
