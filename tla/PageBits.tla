------------------------------ MODULE PageBits ------------------------------
(***************************************************************************)
(* The bitmap of one chunk of the page allocator,                          *)
(* memory_and_heap/mpallocbits.go, and the summaries of mpagealloc.go that *)
(* are computed from it: which pages of the chunk are allocated, where the *)
(* first run of npages free pages is, and the packed triple (start, max,   *)
(* end) the radix tree keeps for the chunk.                                *)
(*                                                                         *)
(* A word of the bitmap is the set of its bits that are 1 (allocated       *)
(* pages); shifts and masks are operations on such sets, so the bit tricks *)
(* of the code are kept and the word may have any number of bits.          *)
(***************************************************************************)
EXTENDS Integers, Sequences, FiniteSets, FiniteSetsExt

CONSTANTS
  W,      \* bits of a word (64)
  Words   \* words of a chunk (len(pageBits), 8)

ASSUME WAssumption == W \in Nat /\ W >= 3
ASSUME WordsAssumption == Words \in Nat \ {0}

VARIABLE bits   \* the pallocBits of the chunk: [0..Words-1 -> SUBSET Bit]

Bit == 0..(W - 1)
pallocChunkPages == W * Words
Page == 0..(pallocChunkPages - 1)
None == -1      \* ^uint(0), "no such index"

----------------------------------------------------------------------------
(* Words. *)

\* x >> k
Shr(x, k) == {i - k : i \in {b \in x : b >= k}}

\* ^x
Not(x) == Bit \ x

TrailingZeros64(x) == IF x = {} THEN W ELSE Min(x)

LeadingZeros64(x) == IF x = {} THEN W ELSE W - 1 - Max(x)

\* x&(x+1) == 0: no 0 below the highest 1
OnesAtBottom(x) == x = 0..(Cardinality(x) - 1)

----------------------------------------------------------------------------
(* Bits. *)

get(b, i) == (i % W) \in b[i \div W]

set(b, i) == [b EXCEPT ![i \div W] = @ \cup {i % W}]

\* The case of one word does not return: the assignments for the leading and
\* the trailing word follow, and they replace the word.
setRange(b, i, n) ==
  IF n = 1 THEN set(b, i)
  ELSE LET j  == i + n - 1
           b1 == [b EXCEPT ![i \div W] = (i % W)..(W - 1)]
           b2 == [k \in DOMAIN b |->
                    IF i \div W < k /\ k < j \div W THEN Bit ELSE b1[k]]
       IN [b2 EXCEPT ![j \div W] = 0..(j % W)]

setAll(b) == [k \in DOMAIN b |-> Bit]

block64(b, i) == b[i \div W]

setBlock64(b, i, v) == [b EXCEPT ![i \div W] = @ \cup v]

----------------------------------------------------------------------------
(* Summaries. *)

\* The largest value a field holds: the root of the tree is the chunk here.
maxPackedValue == pallocChunkPages

\* A field that does not fit is cut; only the summary of an entirely free root
\* has such fields, and it is represented by a bit of its own.
packPallocSum(start, max, end) ==
  IF max = maxPackedValue
  THEN [start |-> max, max |-> max, end |-> max]
  ELSE [start |-> start % maxPackedValue, max |-> max % maxPackedValue,
        end |-> end % maxPackedValue]

\* Mutant: the run that ends in the first word is not compared with max.
EdgesStep_StaleMax(e, x) ==
  LET c == e.cur + TrailingZeros64(x)
  IN IF x = {} THEN [e EXCEPT !.cur = @ + W]
     ELSE [start |-> IF e.start = None THEN c ELSE e.start,
           max   |-> IF e.start = None THEN e.max ELSE Max({e.max, c}),
           cur   |-> LeadingZeros64(x)]

\* The first loop of summarize: start, the longest run of zeros that touches
\* the edge of a word, and the run that is still open; e is that before word x.
EdgesStep(e, x) ==
  LET c == e.cur + TrailingZeros64(x)
  IN IF x = {} THEN [e EXCEPT !.cur = @ + W]
     ELSE [start |-> IF e.start = None THEN c ELSE e.start,
           max   |-> Max({e.max, c}),
           cur   |-> LeadingZeros64(x)]

Edges(b) ==
  LET at[i \in 0..Len(b)] ==
        IF i = 0 THEN [start |-> None, max |-> 0, cur |-> 0]
        ELSE EdgesStep(at[i - 1], b[i])
  IN at[Len(b)]

\* One turn of the loop that shrinks all runs of zeros of x by p places (except
\* those at the top), when the runs of ones have length k at least; p = 0 ends
\* it, with x = {} when no zeros are left below the highest one.
ZerosStep(s) ==
  LET y == s.x \cup Shr(s.x, IF s.p <= s.k THEN s.p ELSE s.k)
  IN IF s.p = 0 THEN s
     ELSE IF OnesAtBottom(y) THEN [x |-> {}, p |-> 0, k |-> s.k]
     ELSE IF s.p <= s.k THEN [x |-> y, p |-> 0, k |-> s.k]
     ELSE [x |-> y, p |-> s.p - s.k, k |-> 2 * s.k]

ShrinkZeros(x, p, k) ==
  LET at[i \in 0..p] ==
        IF i = 0 THEN [x |-> x, p |-> p, k |-> k] ELSE ZerosStep(at[i - 1])
  IN at[p]

\* One turn of the loop over a word for runs longer than max; the lowest bit of
\* x is 1, or x = {} and the word is done with.
InsideStep(s) ==
  LET r == ShrinkZeros(s.x, s.p, s.k)
      y == Shr(r.x, TrailingZeros64(Not(r.x)))
      j == TrailingZeros64(y)
      z == Shr(y, j)
  IN IF s.x = {} THEN s
     ELSE IF r.x = {} THEN [s EXCEPT !.x = {}]
     ELSE [x |-> IF OnesAtBottom(z) THEN {} ELSE z,
           p |-> j, k |-> r.k, max |-> s.max + j]

\* max after the word w: each turn but the last raises it.
LongestInside(w, max) ==
  LET x == Shr(w, TrailingZeros64(w))
      at[i \in 0..W] ==
        IF i = 0 THEN [x |-> IF OnesAtBottom(x) THEN {} ELSE x,
                       p |-> max, k |-> 1, max |-> max]
        ELSE InsideStep(at[i - 1])
  IN at[W].max

Inside(b, max) ==
  LET at[i \in 0..Len(b)] ==
        IF i = 0 THEN max ELSE LongestInside(b[i], at[i - 1])
  IN at[Len(b)]

\* summarize, of a sequence of words.
summarize(b) ==
  LET e   == Edges(b)
      max == Max({e.max, e.cur})
      n   == W * Len(b)
  IN IF e.start = None THEN packPallocSum(n, n, n)
     ELSE IF max >= W - 2 THEN packPallocSum(e.start, max, e.cur)
     ELSE packPallocSum(e.start, Inside(b, max), e.cur)

\* Mutant: a run that crosses into the next block is not seen.
MergeStep_NoCross(acc, s, i, pages) ==
  [start |-> IF acc.start = i * pages THEN acc.start + s.start ELSE acc.start,
   max   |-> Max({acc.max, s.max}),
   end   |-> IF s.end = pages THEN acc.end + pages ELSE s.end]

\* A turn of the loop of mergeSummaries: i blocks of `pages' pages, with the
\* summary acc, and the next block, with s.
MergeStep(acc, s, i, pages) ==
  [start |-> IF acc.start = i * pages THEN acc.start + s.start ELSE acc.start,
   max   |-> Max({acc.max, acc.end + s.start, s.max}),
   end   |-> IF s.end = pages THEN acc.end + pages ELSE s.end]

mergeSummaries(sums, pages) ==
  LET at[i \in 1..Len(sums)] ==
        IF i = 1 THEN sums[1] ELSE MergeStep(at[i - 1], sums[i], i - 1, pages)
      m == at[Len(sums)]
  IN packPallocSum(m.start, m.max, m.end)

----------------------------------------------------------------------------
(* Searches.  The result is <<the index of the run, the new searchIdx>>. *)

\* Mutant: the last shift is by k, not by the p that is left.
ShrinkStep_TooFar(s) ==
  IF s.p = 0 \/ s.c = {} THEN s
  ELSE IF s.p <= s.k THEN [c |-> s.c \cap Shr(s.c, s.k), p |-> 0, k |-> s.k]
  ELSE [c |-> s.c \cap Shr(s.c, s.k), p |-> s.p - s.k, k |-> 2 * s.k]

\* One turn of the loop that removes the top p ones of every run of ones of c;
\* k is the width of the runs of zeros.
ShrinkStep(s) ==
  IF s.p = 0 \/ s.c = {} THEN s
  ELSE IF s.p <= s.k THEN [c |-> s.c \cap Shr(s.c, s.p), p |-> 0, k |-> s.k]
  ELSE [c |-> s.c \cap Shr(s.c, s.k), p |-> s.p - s.k, k |-> 2 * s.k]

\* c after the turns of the loop; there are fewer than n.
Shrink64(c, n) ==
  LET at[i \in 0..n] ==
        IF i = 0 THEN [c |-> c, p |-> n - 1, k |-> 1] ELSE ShrinkStep(at[i - 1])
  IN at[n].c

\* The lowest bit of the first n consecutive ones of c, or W.
findBitRange64(c, n) == TrailingZeros64(Shrink64(c, n))

\* The first free page of word i, which has one.
FirstFree(b, i) == i * W + TrailingZeros64(Not(b[i]))

find1(b, searchIdx) ==
  LET open == {i \in (searchIdx \div W)..(Words - 1) : b[i] # Bit}
  IN IF open = {} THEN None ELSE FirstFree(b, Min(open))

\* The first free page the search meets, once it is known.
FirstSeen(b, i, new) == IF new = None THEN FirstFree(b, i) ELSE new

\* findSmallN at word i: s.idx is the index it returns, None before it does;
\* s.end is the length of the free run below the word.  A run inside the word is
\* returned with searchIdx, not with newSearchIdx.
SmallStep(b, npages, searchIdx, i, s) ==
  LET seen == FirstSeen(b, i, s.new)
      j    == findBitRange64(Not(b[i]), npages)
  IN IF s.idx # None THEN s
     ELSE IF b[i] = Bit THEN [s EXCEPT !.end = 0]
     ELSE IF s.end + TrailingZeros64(b[i]) >= npages
     THEN [s EXCEPT !.idx = i * W - s.end, !.new = seen]
     ELSE IF j < W THEN [s EXCEPT !.idx = i * W + j, !.new = searchIdx]
     ELSE [s EXCEPT !.end = LeadingZeros64(b[i]), !.new = seen]

SmallWords(b, npages, searchIdx, first) ==
  LET at[i \in first..Words] ==
        IF i = first THEN [idx |-> None, new |-> None, end |-> 0]
        ELSE SmallStep(b, npages, searchIdx, i - 1, at[i - 1])
  IN at[Words]

findSmallN(b, npages, searchIdx) ==
  LET s == SmallWords(b, npages, searchIdx, searchIdx \div W) IN <<s.idx, s.new>>

\* findLargeN at word i: s.size is the length of the free run below the word,
\* which starts at s.start.
LargeStep(b, npages, i, s) ==
  LET seen == FirstSeen(b, i, s.new)
      zs   == TrailingZeros64(b[i])
      top  == LeadingZeros64(b[i])
  IN IF s.idx # None THEN s
     ELSE IF b[i] = Bit THEN [s EXCEPT !.size = 0]
     ELSE IF s.size > 0 /\ zs + s.size >= npages
     THEN [s EXCEPT !.idx = s.start, !.new = seen]
     ELSE IF s.size = 0 \/ zs < W
     THEN [s EXCEPT !.start = i * W + W - top, !.size = top, !.new = seen]
     ELSE [s EXCEPT !.size = @ + W, !.new = seen]

LargeWords(b, npages, first) ==
  LET at[i \in first..Words] ==
        IF i = first THEN [idx |-> None, new |-> None, start |-> None, size |-> 0]
        ELSE LargeStep(b, npages, i - 1, at[i - 1])
  IN at[Words]

findLargeN(b, npages, searchIdx) ==
  LET s == LargeWords(b, npages, searchIdx \div W)
  IN <<IF s.idx = None /\ s.size >= npages THEN s.start ELSE s.idx, s.new>>

find(b, npages, searchIdx) ==
  IF npages = 1 THEN LET p == find1(b, searchIdx) IN <<p, p>>
  ELSE IF npages <= W THEN findSmallN(b, npages, searchIdx)
  ELSE findLargeN(b, npages, searchIdx)

----------------------------------------------------------------------------
(* The chunk and its allocations. *)

\* The pages a run of n pages at i consists of; all of them free.
Run(i, n) == i..(i + n - 1)
FreeRun(b, i, n) == \A p \in Run(i, n) : ~get(b, p)

Init == bits = [k \in 0..(Words - 1) |-> {}]

\* allocRange: the caller has found the pages [i, i+n) free.
allocRange(i, n) ==
  /\ i + n <= pallocChunkPages
  /\ FreeRun(bits, i, n)
  /\ bits' = setRange(bits, i, n)

allocAll == bits' = setAll(bits)

\* allocPages64: the free pages of a block go to a page cache together.
allocPages64(i) == bits' = setBlock64(bits, i, Not(block64(bits, i)))

Next ==
  \/ \E i \in Page, n \in 1..pallocChunkPages : allocRange(i, n)
  \/ allocAll
  \/ \E i \in Page : allocPages64(i)

Spec == Init /\ [][Next]_bits

----------------------------------------------------------------------------
(* What the algorithms must compute. *)

\* The bitmap as a sequence of words.
AsSeq(b) == [k \in 1..Words |-> b[k - 1]]

\* The number of free pages from page i on.
FreeFrom(b, i) ==
  CHOOSE n \in 0..(pallocChunkPages - i) :
    /\ FreeRun(b, i, n)
    /\ i + n < pallocChunkPages => get(b, i + n)

\* start, max and end read off the bitmap page by page.
Counted(b) ==
  LET free == [i \in Page |-> FreeFrom(b, i)]
      last == {i \in Page : free[i] > 0 /\ i + free[i] = pallocChunkPages}
  IN [start |-> free[0],
      max   |-> Max({free[i] : i \in Page}),
      end   |-> IF last = {} THEN 0 ELSE pallocChunkPages - Min(last)]

\* summarize, which looks inside a word only when no run at the edge of a word
\* is long enough, and there by shrinking all runs at once, computes the
\* longest runs of free pages (mpallocbits.go, summarize).
SummaryExact == summarize(AsSeq(bits)) = Counted(bits)

\* Merging the summaries of the parts gives the summary of the whole: what the
\* radix tree assumes at every level (mpagealloc.go, mergeSummaries).
MergeExact ==
  mergeSummaries([k \in 1..Words |-> summarize(<<bits[k - 1]>>)], W)
    = Counted(bits)

\* find is first fit by address for every npages, which zeroedBase relies on;
\* it fails only when no run is long enough; and no page below the searchIdx
\* it returns is free (mpallocbits.go, find, find1, findSmallN, findLargeN).
FindFirstFit ==
  LET free == [i \in Page |-> FreeFrom(bits, i)] IN
  \A n \in 1..pallocChunkPages :
    LET fits == {i \in Page : free[i] >= n}
        r    == find(bits, n, 0)
    IN /\ r[1] = IF fits = {} THEN None ELSE Min(fits)
       /\ r[1] # None => \A p \in 0..(r[2] - 1) : get(bits, p)
=============================================================================
