----------------------------- MODULE AddrRanges -----------------------------
(***************************************************************************)
(* Ranges of addresses, memory_and_heap/mranges.go.  Addresses are the     *)
(* linearised ones (offAddr, after arenaBaseOffset is subtracted), in      *)
(* which lessThan and lessEqual are < and <=; a list of ranges is sorted   *)
(* by base.                                                                *)
(***************************************************************************)
EXTENDS Integers, Sequences

makeAddrRange(base, limit) == [base |-> base, limit |-> limit]

\* size: the test is the wrong way round, a range that is not empty has size 0.
Size(a) == IF a.base < a.limit THEN 0 ELSE a.limit - a.base

contains(a, addr) == a.base <= addr /\ addr < a.limit

\* subtract throws when b lies inside a and would split it.
BadPrune(a, b) == a.base < b.base /\ b.limit <= a.limit

subtract(a, b) ==
  IF b.base < a.base /\ a.limit <= b.limit THEN makeAddrRange(0, 0)
  ELSE IF b.limit < a.limit /\ a.base < b.limit THEN [a EXCEPT !.base = b.limit]
  ELSE IF a.base < b.base /\ b.base < a.limit THEN [a EXCEPT !.limit = b.base]
  ELSE a

\* iterMax: how many candidates findSucc leaves to its linear search.
IterMax == 8

\* The number of ranges that start at or below addr: narrowed down by halves,
\* then one by one.
findSucc(ranges, addr) ==
  LET narrow[b \in 0..Len(ranges), t \in 0..Len(ranges)] ==
        LET i == ((t - b) \div 2) + b IN
        IF t - b <= IterMax THEN <<b, t>>
        ELSE IF contains(ranges[i + 1], addr) THEN <<i + 1, i + 1>>
        ELSE IF addr < ranges[i + 1].base THEN narrow[b, i]
        ELSE narrow[i + 1, t]
      n == narrow[0, Len(ranges)]
      above == {i \in n[1]..(n[2] - 1) : addr < ranges[i + 1].base}
  IN IF above = {} THEN n[2]
     ELSE CHOOSE i \in above : \A j \in above : i <= j

\* add: what it throws, or the list with r in it, joined to its neighbours.
AddThrows(r) == Size(r) = 0

add(ranges, r) ==
  LET i    == findSucc(ranges, r.base)
      down == i > 0 /\ ranges[i].limit = r.base
      up   == i < Len(ranges) /\ r.limit = ranges[i + 1].base
  IN SubSeq(ranges, 1, IF down THEN i - 1 ELSE i)
       \o <<makeAddrRange(IF down THEN ranges[i].base ELSE r.base,
                          IF up THEN ranges[i + 1].limit ELSE r.limit)>>
       \o SubSeq(ranges, IF up THEN i + 2 ELSE i + 1, Len(ranges))
=============================================================================
