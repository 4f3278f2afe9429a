--------------------------- MODULE PageBitsProofs ---------------------------
(***************************************************************************)
(* Proofs about the bitmap of a chunk (PageBits): find is first fit,       *)
(* summarize and mergeSummaries are exact, for words of any width and      *)
(* chunks of any number of words.                                          *)
(*                                                                         *)
(* A run of pages is followed page by page, and the words are only looked  *)
(* at through BitOfPage: page B(i) + j is bit j of word i, where B(i) is   *)
(* the first page of word i.                                               *)
(***************************************************************************)
EXTENDS PageBits, NaturalsInduction, WellFoundedInduction, FiniteSetTheorems, TLAPS

\* Types: a word is a set of bits.
Bitmap == [0..(Words - 1) -> SUBSET Bit]

\* The first page of word i.
B(i) == i * W

\* n pages from page q on are free and in the chunk.
Fit(b, n, q) == q \in Nat /\ q + n <= pallocChunkPages /\ FreeRun(b, q, n)

-----------------------------------------------------------------------------
(***************************************************************************)
(* Least numbers.  A least counterexample takes the place of induction.    *)
(***************************************************************************)
\* A set of naturals that is not empty has a least member.
LEMMA LeastNatural ==
  ASSUME NEW T, T \subseteq Nat, T # {}
  PROVE  \E x \in T : \A y \in T : x <= y
<1> DEFINE R == OpToRel(<, Nat)
<1>1. IsWellFoundedOn(R, Nat)
  BY NatLessThanWellFounded
<1> HIDE DEF R
<1>2. PICK x \in T : \A y \in T : ~ (<<y, x>> \in R)
  BY <1>1, WFMin
<1>3. \A y \in T : y < x => <<y, x>> \in R
  BY <1>2 DEF R, OpToRel
<1>4. \A y \in T : ~ (y < x)
  BY <1>2, <1>3
<1> QED BY <1>4

\* Min of a set of naturals that is not empty is its least member.
LEMMA MinOfNaturals ==
  ASSUME NEW T, T \subseteq Nat, T # {}
  PROVE  Min(T) \in T /\ \A y \in T : Min(T) <= y
<1>1. \E x \in T : \A y \in T : x <= y
  BY LeastNatural
<1> QED BY <1>1 DEF Min

\* Min of a set with a least member is that member.
LEMMA MinIs ==
  ASSUME NEW T, T \subseteq Nat, NEW x \in T, \A y \in T : x <= y
  PROVE  Min(T) = x
<1>1. Min(T) \in T /\ \A y \in T : Min(T) <= y
  BY DEF Min
<1>m. PICK m : m = Min(T)
  OBVIOUS
<1>2. m \in Nat /\ x \in Nat /\ m <= x /\ x <= m
  BY <1>1, <1>m
<1>3. m = x
  BY <1>2
<1> QED BY <1>3, <1>m

\* A set of naturals with a bound has a greatest member, which is its Max.
LEMMA MaxOfNaturals ==
  ASSUME NEW T, T \subseteq Nat, T # {}, NEW h \in Nat, \A y \in T : y <= h
  PROVE  Max(T) \in T /\ \A y \in T : y <= Max(T)
<1> DEFINE U == {u \in Nat : \A y \in T : y <= u}
<1>1. U \subseteq Nat /\ U # {}
  OBVIOUS
<1>2. PICK u \in U : \A v \in U : u <= v
  BY <1>1, LeastNatural
<1>3. u \in T
  <2> SUFFICES ASSUME u \notin T PROVE FALSE
    OBVIOUS
  <2>1. \A y \in T : y \in Nat /\ y <= u /\ y # u
    BY <1>2
  <2>y. PICK x : x \in T
    OBVIOUS
  <2>2. u # 0
    BY <2>1, <2>y, <1>2
  <2>3. u - 1 \in Nat /\ ~ (u <= u - 1)
    BY <1>2, <2>2
  <2>4. \A y \in T : y <= u - 1
    BY <1>2, <2>1
  <2> QED BY <1>2, <2>3, <2>4
<1>4. \E x \in T : \A y \in T : x >= y
  BY <1>2, <1>3
<1>5. Max(T) \in T /\ \A y \in T : Max(T) >= y
  BY <1>4 DEF Max
<1> QED BY <1>5

-----------------------------------------------------------------------------
(***************************************************************************)
(* Words and pages.                                                        *)
(***************************************************************************)
\* Division with remainder.
LEMMA DivMod ==
  ASSUME NEW a \in Nat, NEW w \in Nat, w > 0
  PROVE  /\ a \div w \in Nat /\ a % w \in 0..(w - 1)
         /\ a = (a \div w) * w + (a % w)
<1>1. a = (a \div w) * w + (a % w)
  OBVIOUS
<1>2. a % w \in 0..(w - 1)
  OBVIOUS
<1>3. a \div w \in Nat
  OBVIOUS
<1> QED BY <1>1, <1>2, <1>3

\* The quotient and the remainder of a number given by them.
LEMMA DivModIs ==
  ASSUME NEW q \in Nat, NEW w \in Nat, w > 0, NEW r \in 0..(w - 1)
  PROVE  q = (q * w + r) \div w /\ r = (q * w + r) % w
<1>1. q = (q * w + r) \div w
  OBVIOUS
<1>2. r = (q * w + r) % w
  OBVIOUS
<1> QED BY <1>1, <1>2

\* The first pages of the words.
LEMMA Bases ==
  /\ W \in Nat /\ W > 0 /\ Words \in Nat /\ Words > 0
  /\ pallocChunkPages \in Nat /\ pallocChunkPages > 0
  /\ B(0) = 0 /\ B(Words) = pallocChunkPages
  /\ \A i \in 0..Words : B(i) \in Nat /\ B(i) <= pallocChunkPages
  /\ \A i \in 0..(Words - 1) : B(i + 1) = B(i) + W /\ B(i) + W <= pallocChunkPages
<1>0. W \in Nat /\ W > 0 /\ Words \in Nat /\ Words > 0
  BY WAssumption, WordsAssumption
<1>1. \A a, b \in Nat : a * b \in Nat /\ (a > 0 /\ b > 0 => a * b > 0) /\ a * b = b * a
  OBVIOUS
<1>2. pallocChunkPages \in Nat /\ pallocChunkPages > 0 /\ B(Words) = pallocChunkPages
  BY <1>0, <1>1 DEF pallocChunkPages, B
<1>3. B(0) = 0
  BY <1>0 DEF B
<1>4. ASSUME NEW i \in 0..Words PROVE B(i) \in Nat /\ B(i) <= pallocChunkPages
  <2>1. PICK d \in Nat : d = Words - i
    BY <1>0
  <2>2. ASSUME NEW w \in Nat, NEW n \in Nat, NEW m \in Nat PROVE (n + m) * w = n * w + m * w
    OBVIOUS
  <2>3. (i + d) * W = i * W + d * W
    BY <1>0, <2>2
  <2>4. i \in Nat /\ i + d = Words
    BY <1>0, <2>1
  <2>5. i * W \in Nat /\ d * W \in Nat
    BY <1>0, <1>1, <2>4
  <2>6. Words * W = i * W + d * W
    BY <2>3, <2>4
  <2> QED BY <1>0, <1>2, <2>5, <2>6 DEF B
<1>5. ASSUME NEW i \in 0..(Words - 1) PROVE B(i + 1) = B(i) + W
  <2>1. ASSUME NEW w \in Nat, NEW n \in Nat PROVE (n + 1) * w = n * w + w
    OBVIOUS
  <2> QED BY <1>0, <2>1 DEF B
<1>6. ASSUME NEW i \in 0..(Words - 1) PROVE B(i) + W <= pallocChunkPages
  <2>1. i + 1 \in 0..Words
    BY <1>0
  <2> QED BY <1>4, <1>5, <2>1
<1> QED BY <1>0, <1>2, <1>3, <1>4, <1>5, <1>6

\* Page B(i) + j is bit j of word i.
LEMMA BitOfPage ==
  ASSUME NEW b, NEW i \in 0..(Words - 1), NEW j \in Bit
  PROVE  get(b, B(i) + j) <=> j \in b[i]
<1>1. W \in Nat /\ W > 0 /\ i \in Nat /\ j \in 0..(W - 1)
  BY Bases DEF Bit
<1>2. i = (i * W + j) \div W /\ j = (i * W + j) % W
  BY <1>1, DivModIs
<1> QED BY <1>2 DEF get, B

\* Every page is a bit of a word.
LEMMA PageOfBit ==
  ASSUME NEW p \in Nat, p < pallocChunkPages
  PROVE  \E i \in 0..(Words - 1), j \in Bit : p = B(i) + j
<1>1. p \div W \in Nat /\ p % W \in 0..(W - 1) /\ p = (p \div W) * W + (p % W)
  BY Bases, DivMod
<1> DEFINE i == p \div W
<1>2. i < Words
  <2> SUFFICES ASSUME i >= Words PROVE FALSE
    BY <1>1, Bases
  <2>1. PICK d \in Nat : d = i - Words
    BY <1>1, Bases
  <2>2. i = Words + d
    BY <1>1, <2>1, Bases
  <2>3. ASSUME NEW w \in Nat, NEW n \in Nat, NEW m \in Nat PROVE (n + m) * w = n * w + m * w /\ m * w \in Nat /\ n * w = w * n
    OBVIOUS
  <2>4. i * W = Words * W + d * W /\ d * W \in Nat /\ Words * W = W * Words
    BY <2>2, <2>3, Bases
  <2> QED BY <1>1, <2>4, Bases DEF pallocChunkPages
<1> QED BY <1>1, <1>2, Bases DEF B, Bit

\* The lowest one of a word.
LEMMA TrailingZerosIs ==
  ASSUME NEW x \in SUBSET Bit
  PROVE  /\ TrailingZeros64(x) \in 0..W
         /\ \A j \in Bit : j < TrailingZeros64(x) => j \notin x
         /\ TrailingZeros64(x) < W => TrailingZeros64(x) \in x
         /\ x # {} => TrailingZeros64(x) < W
<1>0. W \in Nat /\ W > 0 /\ x \subseteq Nat /\ Bit \subseteq Nat
  BY Bases DEF Bit
<1>1. CASE x = {}
  BY <1>0, <1>1 DEF TrailingZeros64
<1>2. CASE x # {}
  <2>m. PICK m : m = Min(x)
    OBVIOUS
  <2>1. m \in x /\ \A y \in x : m <= y
    BY <1>0, <1>2, <2>m, MinOfNaturals
  <2>2. TrailingZeros64(x) = m
    BY <1>2, <2>m DEF TrailingZeros64
  <2>3. m \in 0..(W - 1)
    BY <2>1 DEF Bit
  <2> QED BY <1>0, <2>1, <2>2, <2>3
<1> QED BY <1>1, <1>2

\* The highest one of a word.
LEMMA LeadingZerosIs ==
  ASSUME NEW x \in SUBSET Bit
  PROVE  /\ LeadingZeros64(x) \in 0..W
         /\ \A j \in Bit : j >= W - LeadingZeros64(x) => j \notin x
         /\ x # {} => LeadingZeros64(x) < W /\ (W - 1) - LeadingZeros64(x) \in x
         /\ x = {} => LeadingZeros64(x) = W
<1>0. W \in Nat /\ W > 0 /\ x \subseteq Nat /\ \A y \in x : y <= W
  BY Bases DEF Bit
<1>1. CASE x = {}
  BY <1>0, <1>1 DEF LeadingZeros64
<1>2. CASE x # {}
  <2>m. PICK m : m = Max(x)
    OBVIOUS
  <2>1. m \in x /\ \A y \in x : y <= m
    BY <1>0, <1>2, <2>m, MaxOfNaturals
  <2>2. LeadingZeros64(x) = W - 1 - m
    BY <1>2, <2>m DEF LeadingZeros64
  <2>3. m \in 0..(W - 1)
    BY <2>1 DEF Bit
  <2>4. \A j \in Bit : j >= W - (W - 1 - m) => j \notin x
    BY <1>0, <2>1, <2>3 DEF Bit
  <2>5. (W - 1) - (W - 1 - m) = m /\ W - 1 - m \in 0..W /\ W - 1 - m < W
    BY <1>0, <2>3
  <2> QED BY <1>2, <2>1, <2>2, <2>4, <2>5
<1> QED BY <1>1, <1>2

\* The free pages at the bottom of word i.
LEMMA FreeBelow ==
  ASSUME NEW b \in Bitmap, NEW i \in 0..(Words - 1), NEW t, t = TrailingZeros64(b[i])
  PROVE  /\ t \in 0..W
         /\ \A p \in Nat : B(i) <= p /\ p < B(i) + t => ~get(b, p)
         /\ t < W => get(b, B(i) + t)
<1>0. W \in Nat /\ b[i] \in SUBSET Bit /\ B(i) \in Nat
  BY Bases DEF Bitmap
<1>1. /\ t \in 0..W
      /\ \A j \in Bit : j < t => j \notin b[i]
      /\ t < W => t \in b[i]
  BY <1>0, TrailingZerosIs
<1>2. ASSUME NEW p \in Nat, B(i) <= p, p < B(i) + t PROVE ~get(b, p)
  <2>1. PICK j \in Nat : j = p - B(i)
    BY <1>0, <1>2
  <2>2. j \in Bit /\ j < t /\ p = B(i) + j
    BY <1>0, <1>1, <1>2, <2>1 DEF Bit
  <2> QED BY <1>1, <2>2, BitOfPage
<1>3. ASSUME t < W PROVE get(b, B(i) + t)
  <2>1. t \in Bit
    BY <1>0, <1>1, <1>3 DEF Bit
  <2> QED BY <1>1, <1>3, <2>1, BitOfPage
<1> QED BY <1>1, <1>2, <1>3

\* The free pages at the top of word i.
LEMMA FreeAbove ==
  ASSUME NEW b \in Bitmap, NEW i \in 0..(Words - 1), NEW l, l = LeadingZeros64(b[i])
  PROVE  /\ l \in 0..W
         /\ \A p \in Nat : B(i) + W - l <= p /\ p < B(i) + W => ~get(b, p)
         /\ b[i] # {} => l < W /\ get(b, B(i) + W - 1 - l)
         /\ b[i] = {} => l = W
<1>0. W \in Nat /\ b[i] \in SUBSET Bit /\ B(i) \in Nat
  BY Bases DEF Bitmap
<1>1. /\ l \in 0..W
      /\ \A j \in Bit : j >= W - l => j \notin b[i]
      /\ b[i] # {} => l < W /\ (W - 1) - l \in b[i]
      /\ b[i] = {} => l = W
  BY <1>0, LeadingZerosIs
<1>2. ASSUME NEW p \in Nat, B(i) + W - l <= p, p < B(i) + W PROVE ~get(b, p)
  <2>1. PICK j \in Nat : j = p - B(i)
    BY <1>0, <1>1, <1>2
  <2>2. j \in Bit /\ j >= W - l /\ p = B(i) + j
    BY <1>0, <1>1, <1>2, <2>1 DEF Bit
  <2> QED BY <1>1, <2>2, BitOfPage
<1>3. ASSUME b[i] # {} PROVE get(b, B(i) + W - 1 - l)
  <2>1. PICK j \in Nat : j = (W - 1) - l
    BY <1>0, <1>1, <1>3
  <2>2. j \in Bit /\ j \in b[i] /\ B(i) + W - 1 - l = B(i) + j
    BY <1>0, <1>1, <1>3, <2>1 DEF Bit
  <2> QED BY <2>2, BitOfPage
<1> QED BY <1>1, <1>2, <1>3

\* The first free page of word i, which has one.
LEMMA FirstFreeIs ==
  ASSUME NEW b \in Bitmap, NEW i \in 0..(Words - 1), b[i] # Bit
  PROVE  /\ FirstFree(b, i) \in Nat /\ B(i) <= FirstFree(b, i) /\ FirstFree(b, i) < B(i) + W
         /\ \A p \in Nat : B(i) <= p /\ p < FirstFree(b, i) => get(b, p)
         /\ ~get(b, FirstFree(b, i))
<1>t. PICK t : t = TrailingZeros64(Not(b[i]))
  OBVIOUS
<1>a. W \in Nat /\ b[i] \in SUBSET Bit /\ B(i) \in Nat
  BY Bases DEF Bitmap
<1>b. PICK h \in Bit : h \notin b[i]
  BY <1>a
<1>0. W \in Nat /\ B(i) \in Nat /\ Not(b[i]) \in SUBSET Bit /\ Not(b[i]) # {}
  BY <1>a, <1>b DEF Not
<1>1. t \in 0..W /\ (\A j \in Bit : j < t => j \notin Not(b[i])) /\ t < W /\ t \in Not(b[i])
  BY <1>0, <1>t, TrailingZerosIs
<1>2. FirstFree(b, i) = B(i) + t
  BY <1>t DEF FirstFree, B
<1>3. ASSUME NEW p \in Nat, B(i) <= p, p < B(i) + t PROVE get(b, p)
  <2>1. PICK j \in Nat : j = p - B(i)
    BY <1>0, <1>1, <1>3
  <2>2. j \in Bit /\ j < t /\ p = B(i) + j
    BY <1>0, <1>1, <1>3, <2>1 DEF Bit
  <2>3. j \in b[i]
    BY <1>1, <2>2 DEF Not
  <2> QED BY <2>2, <2>3, BitOfPage
<1>4. ~get(b, B(i) + t)
  <2>1. t \in Bit /\ t \notin b[i]
    BY <1>1 DEF Not
  <2> QED BY <2>1, BitOfPage
<1>5. t \in Nat /\ B(i) + t \in Nat
  BY <1>0, <1>1
<1> QED BY <1>0, <1>1, <1>2, <1>3, <1>4, <1>5

\* The pages of a full word.
LEMMA FullWord ==
  ASSUME NEW b \in Bitmap, NEW i \in 0..(Words - 1), b[i] = Bit,
         NEW p \in Nat, B(i) <= p, p < B(i) + W
  PROVE  get(b, p)
<1>0. W \in Nat /\ B(i) \in Nat
  BY Bases
<1>1. PICK j \in Nat : j = p - B(i)
  BY <1>0
<1>2. j \in Bit /\ p = B(i) + j
  BY <1>0, <1>1 DEF Bit
<1> QED BY <1>2, BitOfPage

-----------------------------------------------------------------------------
(***************************************************************************)
(* Runs of free pages.                                                     *)
(***************************************************************************)
\* FreeFrom is the length of the free run at page i.
LEMMA FreeFromIs ==
  ASSUME NEW b, NEW i \in Page
  PROVE  /\ FreeFrom(b, i) \in 0..(pallocChunkPages - i)
         /\ FreeRun(b, i, FreeFrom(b, i))
         /\ i + FreeFrom(b, i) < pallocChunkPages => get(b, i + FreeFrom(b, i))
<1>P. PICK P \in Nat : P = pallocChunkPages
  BY Bases
<1>0. i \in Nat /\ i < P
  BY <1>P DEF Page
<1> DEFINE T == {m \in Nat : i + m >= P \/ get(b, i + m)}
<1>1. P - i \in Nat /\ P - i \in T
  BY <1>0
<1>2. T \subseteq Nat /\ T # {}
  BY <1>1
<1>3. PICK m \in T : \A y \in T : m <= y
  BY <1>2, LeastNatural
<1>4. m \in Nat /\ m <= P - i
  BY <1>0, <1>1, <1>3
<1>5. m \in 0..(P - i) /\ (i + m < P => get(b, i + m))
  BY <1>0, <1>3, <1>4
<1>6. FreeRun(b, i, m)
  <2> SUFFICES ASSUME NEW p \in i..(i + m - 1) PROVE ~get(b, p)
    BY DEF FreeRun, Run
  <2>1. PICK k \in Nat : k = p - i
    BY <1>0
  <2>2. i + k = p /\ ~(m <= k)
    BY <1>0, <1>4, <2>1
  <2>3. k \notin T
    BY <1>3, <2>2
  <2> QED BY <2>2, <2>3
<1> HIDE DEF T
<1>7. \E n \in 0..(pallocChunkPages - i) :
        FreeRun(b, i, n) /\ (i + n < pallocChunkPages => get(b, i + n))
  BY <1>P, <1>5, <1>6
<1> QED BY <1>7 DEF FreeFrom

\* It is long enough when n pages fit.
LEMMA FreeFromFits ==
  ASSUME NEW b, NEW i \in Page, NEW n \in Nat
  PROVE  FreeFrom(b, i) >= n <=> Fit(b, n, i)
<1>P. PICK P \in Nat : P = pallocChunkPages
  BY Bases
<1>0. i \in Nat /\ i < P
  BY <1>P DEF Page
<1>f. PICK f \in 0..(P - i) : f = FreeFrom(b, i) /\ FreeRun(b, i, f) /\ (i + f < P => get(b, i + f))
  BY <1>P, FreeFromIs
<1>1. ASSUME f >= n PROVE Fit(b, n, i)
  <2>1. i + n <= P
    BY <1>0, <1>1
  <2>2. FreeRun(b, i, n)
    BY <1>0, <1>1, <1>f DEF FreeRun, Run
  <2> QED BY <1>0, <1>P, <2>1, <2>2 DEF Fit
<1>2. ASSUME Fit(b, n, i), ~(f >= n) PROVE FALSE
  <2>1. i + n <= P /\ \A p \in i..(i + n - 1) : ~get(b, p)
    BY <1>2, <1>P DEF Fit, FreeRun, Run
  <2>2. i + f < P /\ i + f \in i..(i + n - 1)
    BY <1>0, <1>2, <2>1
  <2> QED BY <1>f, <2>1, <2>2
<1> QED BY <1>f, <1>1, <1>2

-----------------------------------------------------------------------------
(***************************************************************************)
(* findBitRange64.                                                         *)
(***************************************************************************)
\* The bits at which m consecutive ones of c start.
Starts(c, m) == {j \in Bit : \A k \in j..(j + m - 1) : k \in c}

\* x >> d has the bits d places down.
LEMMA ShrIs ==
  ASSUME NEW x \in SUBSET Nat, NEW d \in Nat, NEW j \in Nat
  PROVE  j \in Shr(x, d) <=> j + d \in x
<1>1. ASSUME j \in Shr(x, d) PROVE j + d \in x
  <2>1. PICK i \in {y \in x : y >= d} : j = i - d
    BY <1>1 DEF Shr
  <2>2. i \in x /\ i \in Nat /\ j + d = i
    BY <2>1
  <2> QED BY <2>2
<1>2. ASSUME j + d \in x PROVE j \in Shr(x, d)
  <2>1. PICK i \in x : i = j + d
    BY <1>2
  <2>2. i \in {y \in x : y >= d} /\ j = i - d
    BY <2>1
  <2> QED BY <2>2 DEF Shr
<1> QED BY <1>1, <1>2

\* Runs of m ones at two places, at most m apart, are one run.
LEMMA StartsShift ==
  ASSUME NEW c \in SUBSET Bit, NEW m \in Nat, NEW d \in Nat, 1 <= d, d <= m
  PROVE  Starts(c, m) \cap Shr(Starts(c, m), d) = Starts(c, m + d)
<1>0. W \in Nat /\ Bit \subseteq Nat /\ Starts(c, m) \in SUBSET Nat /\ Starts(c, m) \subseteq Bit
  BY Bases DEF Bit, Starts
<1>1. ASSUME NEW j \in Starts(c, m), j \in Shr(Starts(c, m), d)
      PROVE  j \in Starts(c, m + d)
  <2>1. j \in Bit /\ j \in Nat
    BY <1>0, <1>1
  <2>2. j + d \in Starts(c, m)
    BY <1>0, <1>1, <2>1, ShrIs
  <2>3. \A k \in j..(j + m - 1) : k \in c
    BY <1>1 DEF Starts
  <2>4. \A k \in (j + d)..((j + d) + m - 1) : k \in c
    BY <2>2 DEF Starts
  <2>5. ASSUME NEW k \in j..(j + (m + d) - 1) PROVE k \in c
    <3>1. k \in j..(j + m - 1) \/ k \in (j + d)..((j + d) + m - 1)
      BY <2>1
    <3> QED BY <2>3, <2>4, <3>1
  <2> QED BY <2>1, <2>5 DEF Starts
<1>2. ASSUME NEW j \in Starts(c, m + d)
      PROVE  j \in Starts(c, m) /\ j \in Shr(Starts(c, m), d)
  <2>1. j \in Bit /\ j \in Nat /\ \A k \in j..(j + (m + d) - 1) : k \in c
    BY <1>0, <1>2 DEF Starts
  <2>2. j \in Starts(c, m)
    <3>1. \A k \in j..(j + m - 1) : k \in j..(j + (m + d) - 1)
      BY <2>1
    <3> QED BY <2>1, <3>1 DEF Starts
  <2>3. j + d \in Starts(c, m)
    <3>1. \A k \in (j + d)..((j + d) + m - 1) : k \in j..(j + (m + d) - 1)
      BY <2>1
    <3>2. j + d \in j..(j + (m + d) - 1)
      BY <2>1
    <3>3. j + d \in Bit
      BY <2>1, <3>2
    <3> QED BY <2>1, <3>1, <3>3 DEF Starts
  <2> QED BY <1>0, <2>1, <2>2, <2>3, ShrIs
<1>3. Starts(c, m + d) \subseteq Starts(c, m) \cap Shr(Starts(c, m), d)
  BY <1>2
<1>4. Starts(c, m) \cap Shr(Starts(c, m), d) \subseteq Starts(c, m + d)
  BY <1>1
<1> QED BY <1>3, <1>4

\* The first N turns of the loop.
TurnsTo(c, n, N, g) ==
  [i \in 0..N |-> IF i = 0 THEN [c |-> c, p |-> n - 1, k |-> 1] ELSE ShrinkStep(g[i - 1])]

\* They exist.
LEMMA TurnsExist ==
  ASSUME NEW c, NEW n, NEW N \in Nat
  PROVE  \E g : g = TurnsTo(c, n, N, g)
<1> DEFINE Missing == {m \in 0..N : ~ \E g : g = TurnsTo(c, n, m, g)}
<1>0. N \in 0..N
  OBVIOUS
<1> SUFFICES ASSUME Missing # {} PROVE FALSE
  BY <1>0
<1>1. Missing \subseteq Nat
  OBVIOUS
<1>2. PICK x \in Missing : \A y \in Missing : x <= y
  BY <1>1, LeastNatural
<1>3. CASE x = 0
  <2> DEFINE g == [k \in 0..0 |-> [c |-> c, p |-> n - 1, k |-> 1]]
  <2>1. g = TurnsTo(c, n, 0, g)
    BY DEF TurnsTo
  <2> QED BY <1>2, <1>3, <2>1
<1>4. CASE x # 0
  <2>1. x - 1 \in 0..N /\ x \in 0..N /\ ~ (x <= x - 1)
    BY <1>4
  <2>2. PICK f : f = TurnsTo(c, n, x - 1, f)
    BY <1>2, <2>1
  <2> DEFINE g == [k \in 0..x |-> IF k = x THEN ShrinkStep(f[x - 1]) ELSE f[k]]
  <2>3. ASSUME NEW k \in 0..x
        PROVE  g[k] = IF k = 0 THEN [c |-> c, p |-> n - 1, k |-> 1] ELSE ShrinkStep(g[k - 1])
    <3>1. CASE k = 0
      <4>1. f[0] = [c |-> c, p |-> n - 1, k |-> 1]
        BY <2>1, <2>2 DEF TurnsTo
      <4> QED BY <1>4, <3>1, <4>1
    <3>2. CASE k = x
      <4>1. g[k - 1] = f[x - 1]
        BY <2>1, <3>2
      <4> QED BY <1>4, <3>2, <4>1
    <3>3. CASE k # 0 /\ k # x
      <4>1. k \in 0..(x - 1) /\ k - 1 \in 0..x /\ k - 1 # x
        BY <2>1, <3>3
      <4>2. f[k] = ShrinkStep(f[k - 1])
        BY <2>2, <3>3, <4>1 DEF TurnsTo
      <4>3. g[k] = f[k] /\ g[k - 1] = f[k - 1]
        BY <3>3, <4>1
      <4> QED BY <3>3, <4>2, <4>3
    <3> QED BY <3>1, <3>2, <3>3
  <2>4. g = TurnsTo(c, n, x, g)
    BY <2>3 DEF TurnsTo
  <2> QED BY <1>2, <2>4
<1> QED BY <1>3, <1>4

\* Shrink64 is what the last of them leaves.
LEMMA Shrink64Is ==
  ASSUME NEW c, NEW n \in Nat
  PROVE  \E g : g = TurnsTo(c, n, n, g) /\ Shrink64(c, n) = g[n].c
<1>1. \E g : g = TurnsTo(c, n, n, g)
  BY TurnsExist
<1>2. PICK g : g = CHOOSE h : h = TurnsTo(c, n, n, h)
  OBVIOUS
<1>3. g = TurnsTo(c, n, n, g)
  BY <1>1, <1>2
<1>4. Shrink64(c, n) = g[n].c
  BY <1>2 DEF Shrink64, TurnsTo
<1> HIDE <1>2
<1> QED BY <1>3, <1>4

\* Before every turn: c has the bits at which n - p ones start, and k is no
\* more than n - p; p is 0 after n turns at most, unless c is.
Shrinking(c, n, i, s) ==
  /\ s.p \in Nat /\ s.p < n /\ s.k \in Nat /\ 1 <= s.k /\ s.k <= n - s.p
  /\ s.c = Starts(c, n - s.p)
  /\ s.p = 0 \/ s.c = {} \/ s.p <= n - 1 - i

\* A turn keeps it so.
LEMMA ShrinkStepSound ==
  ASSUME NEW c \in SUBSET Bit, NEW n \in Nat, NEW i \in Nat, NEW s, Shrinking(c, n, i, s)
  PROVE  Shrinking(c, n, i + 1, ShrinkStep(s))
<1>p. PICK p \in Nat : p = s.p /\ p < n
  BY DEF Shrinking
<1>k. PICK k \in Nat : k = s.k /\ 1 <= k /\ k <= n - p
  BY <1>p DEF Shrinking
<1>m. PICK m \in Nat : m = n - p /\ k <= m
  BY <1>p, <1>k
<1>c. s.c = Starts(c, m)
  BY <1>p, <1>m DEF Shrinking
<1>1. CASE s.p = 0 \/ s.c = {}
  <2>1. ShrinkStep(s) = s
    BY <1>1 DEF ShrinkStep
  <2> QED BY <1>1, <2>1 DEF Shrinking
<1>2. CASE ~(s.p = 0 \/ s.c = {}) /\ p <= k
  <2>1. ShrinkStep(s) = [c |-> s.c \cap Shr(s.c, p), p |-> 0, k |-> k]
    BY <1>p, <1>k, <1>2 DEF ShrinkStep
  <2>2. p # 0 /\ 1 <= p /\ p <= m /\ m + p = n
    BY <1>p, <1>k, <1>m, <1>2
  <2>3. s.c \cap Shr(s.c, p) = Starts(c, m + p)
    BY <1>c, <2>2, StartsShift
  <2>r. PICK r : r = ShrinkStep(s)
    OBVIOUS
  <2>4. r.p = 0 /\ r.k = k /\ r.c = Starts(c, n)
    BY <2>1, <2>2, <2>3, <2>r
  <2>5. n - 0 = n /\ k <= n - 0 /\ 0 < n
    BY <1>p, <1>k
  <2>6. Shrinking(c, n, i + 1, r)
    BY <1>k, <2>4, <2>5 DEF Shrinking
  <2> QED BY <2>6, <2>r
<1>3. CASE ~(s.p = 0 \/ s.c = {}) /\ ~(p <= k)
  <2>1. ShrinkStep(s) = [c |-> s.c \cap Shr(s.c, k), p |-> p - k, k |-> 2 * k]
    BY <1>p, <1>k, <1>3 DEF ShrinkStep
  <2>2. m + k = n - (p - k) /\ p - k \in Nat /\ p - k < n
    BY <1>p, <1>k, <1>m, <1>3
  <2>3. s.c \cap Shr(s.c, k) = Starts(c, m + k)
    BY <1>c, <1>k, <1>m, StartsShift
  <2>4. p <= n - 1 - i
    BY <1>3, <1>p DEF Shrinking
  <2>5. p - k <= n - 1 - (i + 1) /\ 2 * k \in Nat /\ 1 <= 2 * k /\ 2 * k <= n - (p - k)
    BY <1>p, <1>k, <1>m, <2>4
  <2>r. PICK r : r = ShrinkStep(s)
    OBVIOUS
  <2>6. r.p = p - k /\ r.k = 2 * k /\ r.c = Starts(c, n - (p - k))
    BY <2>1, <2>2, <2>3, <2>r
  <2>7. Shrinking(c, n, i + 1, r)
    BY <2>2, <2>5, <2>6 DEF Shrinking
  <2> QED BY <2>7, <2>r
<1> QED BY <1>1, <1>2, <1>3

\* What is left is where n ones start.
LEMMA Shrink64Starts ==
  ASSUME NEW c \in SUBSET Bit, NEW n \in Nat, n >= 1
  PROVE  Shrink64(c, n) = Starts(c, n)
<1>1. PICK g : g = TurnsTo(c, n, n, g) /\ Shrink64(c, n) = g[n].c
  BY Shrink64Is
<1>2. g[0] = [c |-> c, p |-> n - 1, k |-> 1]
  BY <1>1 DEF TurnsTo
<1>3. ASSUME NEW i \in 0..(n - 1) PROVE g[i + 1] = ShrinkStep(g[i])
  <2>1. i + 1 \in 0..n /\ i + 1 # 0 /\ (i + 1) - 1 = i
    OBVIOUS
  <2>2. g[i + 1] = ShrinkStep(g[(i + 1) - 1])
    BY <1>1, <2>1 DEF TurnsTo
  <2> QED BY <2>1, <2>2
<1>4. Shrinking(c, n, 0, g[0])
  <2>1. c = Starts(c, n - (n - 1))
    <3>1. Bit \subseteq Nat /\ n - (n - 1) = 1
      BY Bases DEF Bit
    <3>2. \A j \in Bit : j..(j + 1 - 1) = {j}
      BY <3>1
    <3>3. Starts(c, 1) = {j \in Bit : j \in c}
      BY <3>2 DEF Starts
    <3> QED BY <3>1, <3>3
  <2>2. g[0].c = c /\ g[0].p = n - 1 /\ g[0].k = 1
    BY <1>2
  <2>3. n - 1 \in Nat /\ n - 1 < n /\ 1 <= n - (n - 1) /\ n - 1 <= n - 1 - 0
    OBVIOUS
  <2> QED BY <2>1, <2>2, <2>3 DEF Shrinking
<1>5. \A i \in 0..n : Shrinking(c, n, i, g[i])
  <2> DEFINE Bad == {i \in 0..n : ~Shrinking(c, n, i, g[i])}
  <2> SUFFICES ASSUME Bad # {} PROVE FALSE
    OBVIOUS
  <2>1. Bad \subseteq Nat
    OBVIOUS
  <2>2. PICK x \in Bad : \A y \in Bad : x <= y
    BY <2>1, LeastNatural
  <2>3. x # 0 /\ x \in 0..n
    BY <1>4, <2>2
  <2>4. PICK i \in Nat : i = x - 1 /\ i \in 0..(n - 1) /\ i \in 0..n /\ ~(x <= i) /\ i + 1 = x
    BY <2>3
  <2>5. Shrinking(c, n, i, g[i])
    BY <2>2, <2>4
  <2>6. Shrinking(c, n, i + 1, g[i + 1])
    BY <1>3, <2>4, <2>5, ShrinkStepSound
  <2> QED BY <2>2, <2>4, <2>6
<1>6. Shrinking(c, n, n, g[n])
  BY <1>5
<1>7. CASE g[n].p = 0
  BY <1>1, <1>6, <1>7 DEF Shrinking
<1>8. CASE g[n].p # 0
  <2>1. g[n].c = {} /\ g[n].p \in Nat /\ g[n].p < n
    BY <1>6, <1>8 DEF Shrinking
  <2>2. PICK m \in Nat : m = n - g[n].p /\ m <= n
    BY <2>1
  <2>3. Starts(c, m) = {}
    BY <1>6, <2>1, <2>2 DEF Shrinking
  <2>4. ASSUME NEW j \in Starts(c, n) PROVE FALSE
    <3>1. j \in Bit /\ j \in Nat /\ \A k \in j..(j + n - 1) : k \in c
      BY <2>4, Bases DEF Starts, Bit
    <3>2. \A k \in j..(j + m - 1) : k \in j..(j + n - 1)
      BY <2>2, <3>1
    <3>3. j \in Starts(c, m)
      BY <3>1, <3>2 DEF Starts
    <3> QED BY <2>3, <3>3
  <2> QED BY <1>1, <2>1, <2>4
<1> QED BY <1>7, <1>8

\* findBitRange64 gives the lowest bit at which n consecutive ones start.
LEMMA findBitRange64Is ==
  ASSUME NEW c \in SUBSET Bit, NEW n \in Nat, n >= 1, NEW j, j = findBitRange64(c, n)
  PROVE  /\ j \in 0..W
         /\ j < W => j \in Bit /\ \A k \in j..(j + n - 1) : k \in c
         /\ \A q \in Nat : (\A k \in q..(q + n - 1) : k \in c) => j <= q /\ j < W
<1>0. W \in Nat /\ Bit \subseteq Nat /\ Starts(c, n) \in SUBSET Bit
  BY Bases DEF Bit, Starts
<1>1. j = TrailingZeros64(Starts(c, n))
  BY Shrink64Starts DEF findBitRange64
<1>2. /\ j \in 0..W
      /\ \A k \in Bit : k < j => k \notin Starts(c, n)
      /\ j < W => j \in Starts(c, n)
      /\ Starts(c, n) # {} => j < W
  BY <1>0, <1>1, TrailingZerosIs
<1>3. ASSUME NEW q \in Nat, \A k \in q..(q + n - 1) : k \in c PROVE j <= q /\ j < W
  <2>1. q \in q..(q + n - 1)
    OBVIOUS
  <2>2. q \in Bit
    BY <1>3, <2>1
  <2>3. q \in Starts(c, n)
    BY <1>3, <2>2 DEF Starts
  <2> QED BY <1>0, <1>2, <2>2, <2>3
<1>4. ASSUME j < W PROVE j \in Bit /\ \A k \in j..(j + n - 1) : k \in c
  BY <1>2, <1>4 DEF Starts
<1> QED BY <1>2, <1>3, <1>4

-----------------------------------------------------------------------------
(***************************************************************************)
(* Searches, word by word.                                                 *)
(***************************************************************************)
\* No page below new, the first free page seen before word i, is free.
Seen(b, i, new) ==
  \/ new = None /\ \A p \in Nat : p < B(i) => get(b, p)
  \/ new \in Nat /\ \A p \in Nat : p < new => get(b, p)

\* The search is at word i: the e pages below it are free and fewer than n, and
\* no n pages fit any lower.
Searching(b, n, i, e, new) ==
  /\ e \in Nat /\ e < n /\ e <= B(i)
  /\ \A p \in Nat : B(i) - e <= p /\ p < B(i) => ~get(b, p)
  /\ \A q \in Nat : Fit(b, n, q) => q >= B(i) - e
  /\ Seen(b, i, new)

\* r is the lowest place where n pages fit, and no page below new is free.
Found(b, n, r, new) ==
  /\ Fit(b, n, r)
  /\ \A q \in Nat : Fit(b, n, q) => r <= q
  /\ new \in Nat /\ \A p \in Nat : p < new => get(b, p)

\* Where n pages fit, none is allocated.
LEMMA FitFree ==
  ASSUME NEW b, NEW n \in Nat, NEW q \in Nat, Fit(b, n, q), NEW p \in Nat, q <= p, p < q + n
  PROVE  ~get(b, p)
<1>1. p \in q..(q + n - 1)
  OBVIOUS
<1> QED BY <1>1 DEF Fit, FreeRun, Run

\* n free pages of the chunk fit.
LEMMA FreeFit ==
  ASSUME NEW b, NEW n \in Nat, NEW q \in Nat, q + n <= pallocChunkPages,
         \A p \in Nat : q <= p /\ p < q + n => ~get(b, p)
  PROVE  Fit(b, n, q)
<1>1. \A p \in q..(q + n - 1) : p \in Nat /\ q <= p /\ p < q + n
  OBVIOUS
<1> QED BY <1>1 DEF Fit, FreeRun, Run

\* The search starts at word 0.
LEMMA SearchStarts ==
  ASSUME NEW b, NEW n \in Nat, n >= 1
  PROVE  Searching(b, n, 0, 0, None)
<1>1. B(0) = 0
  BY Bases
<1>2. Seen(b, 0, None)
  BY <1>1 DEF Seen
<1> QED BY <1>1, <1>2 DEF Searching

\* The first free page is seen in the first word that is not full.
LEMMA FirstSeenIs ==
  ASSUME NEW b \in Bitmap, NEW i \in 0..(Words - 1), b[i] # Bit, NEW new, Seen(b, i, new)
  PROVE  /\ FirstSeen(b, i, new) \in Nat
         /\ \A p \in Nat : p < FirstSeen(b, i, new) => get(b, p)
<1>f. PICK f \in Nat : f = FirstFree(b, i) /\ \A p \in Nat : B(i) <= p /\ p < f => get(b, p)
  BY FirstFreeIs
<1>1. CASE new = None
  <2>1. \A p \in Nat : p < B(i) => get(b, p)
    BY <1>1 DEF Seen, None
  <2>2. B(i) \in Nat
    BY Bases
  <2>3. \A p \in Nat : p < f => get(b, p)
    BY <1>f, <2>1, <2>2
  <2> QED BY <1>f, <1>1, <2>3 DEF FirstSeen
<1>2. CASE new # None
  BY <1>2 DEF Seen, FirstSeen
<1> QED BY <1>1, <1>2

\* Past a full word.
LEMMA PastFull ==
  ASSUME NEW b \in Bitmap, NEW n \in Nat, n >= 1, NEW i \in 0..(Words - 1), b[i] = Bit,
         NEW e, NEW new, Searching(b, n, i, e, new)
  PROVE  Searching(b, n, i + 1, 0, new)
<1>0. W \in Nat /\ W > 0 /\ B(i) \in Nat /\ B(i + 1) = B(i) + W
  BY Bases
<1>e. PICK d \in Nat : d = e /\ d < n /\ d <= B(i) /\ \A q \in Nat : Fit(b, n, q) => q >= B(i) - d
  BY DEF Searching
<1>1. \A p \in Nat : B(i) <= p /\ p < B(i) + W => get(b, p)
  BY FullWord
<1>2. ASSUME NEW q \in Nat, Fit(b, n, q) PROVE q >= B(i) + W
  <2> SUFFICES ASSUME q < B(i) + W PROVE FALSE
    BY <1>0
  <2>1. q >= B(i) - d
    BY <1>e, <1>2
  <2>2. CASE q >= B(i)
    <3>1. get(b, q)
      BY <1>1, <2>2
    <3> QED BY <1>2, <3>1, FitFree
  <2>3. CASE q < B(i)
    <3>1. q <= B(i) /\ B(i) < q + n
      BY <1>0, <1>e, <2>1, <2>3
    <3>2. ~get(b, B(i))
      BY <1>0, <1>2, <3>1, FitFree
    <3>3. get(b, B(i))
      BY <1>0, <1>1
    <3> QED BY <3>2, <3>3
  <2> QED BY <1>0, <2>2, <2>3
<1>3. Seen(b, i + 1, new)
  <2>1. Seen(b, i, new)
    BY DEF Searching
  <2>2. CASE new = None
    <3>1. \A p \in Nat : p < B(i) => get(b, p)
      BY <2>1, <2>2 DEF Seen, None
    <3>2. \A p \in Nat : p < B(i + 1) => get(b, p)
      BY <1>0, <1>1, <3>1
    <3> QED BY <2>2, <3>2 DEF Seen
  <2>3. CASE new # None
    BY <2>1, <2>3 DEF Seen
  <2> QED BY <2>2, <2>3
<1>4. \A q \in Nat : Fit(b, n, q) => q >= B(i + 1) - 0
  BY <1>0, <1>2
<1>5. \A p \in Nat : ~(B(i + 1) - 0 <= p /\ p < B(i + 1))
  BY <1>0
<1>6. 0 \in Nat /\ 0 < n /\ 0 <= B(i + 1)
  BY <1>0
<1> QED BY <1>3, <1>4, <1>5, <1>6 DEF Searching

\* n pages that begin in the run below word i fit.
LEMMA RunEnds ==
  ASSUME NEW b \in Bitmap, NEW n \in Nat, NEW i \in 0..(Words - 1), b[i] # Bit,
         NEW e, NEW new, Searching(b, n, i, e, new), e + TrailingZeros64(b[i]) >= n
  PROVE  Found(b, n, B(i) - e, FirstSeen(b, i, new))
<1>0. W \in Nat /\ W > 0 /\ B(i) \in Nat /\ B(i) + W <= pallocChunkPages /\ pallocChunkPages \in Nat
  BY Bases
<1>t. PICK t \in 0..W : t = TrailingZeros64(b[i]) /\ \A p \in Nat : B(i) <= p /\ p < B(i) + t => ~get(b, p)
  BY FreeBelow
<1>1. /\ e \in Nat /\ e < n /\ e <= B(i) /\ e + t >= n
      /\ \A p \in Nat : B(i) - e <= p /\ p < B(i) => ~get(b, p)
      /\ \A q \in Nat : Fit(b, n, q) => q >= B(i) - e
  BY <1>t DEF Searching
<1>r. PICK r \in Nat : r = B(i) - e
  BY <1>0, <1>1
<1>2. r + n <= pallocChunkPages
  BY <1>0, <1>1, <1>r
<1>3. ASSUME NEW p \in Nat, r <= p, p < r + n PROVE ~get(b, p)
  <2>1. CASE p < B(i)
    BY <1>0, <1>1, <1>3, <1>r, <2>1
  <2>2. CASE p >= B(i)
    <3>1. p < B(i) + t
      BY <1>0, <1>1, <1>3, <1>r
    <3> QED BY <1>t, <2>2, <3>1
  <2> QED BY <1>0, <2>1, <2>2
<1>4. Fit(b, n, r)
  BY <1>2, <1>3, FreeFit
<1>5. \A q \in Nat : Fit(b, n, q) => r <= q
  BY <1>0, <1>1, <1>r
<1>6. Seen(b, i, new)
  BY DEF Searching
<1>7. FirstSeen(b, i, new) \in Nat /\ \A p \in Nat : p < FirstSeen(b, i, new) => get(b, p)
  BY <1>6, FirstSeenIs
<1> QED BY <1>r, <1>4, <1>5, <1>7 DEF Found

\* The run below word i ends in the word before n pages: what fits lies above
\* the allocated page that ends it.
LEMMA RunTooShort ==
  ASSUME NEW b \in Bitmap, NEW n \in Nat, NEW i \in 0..(Words - 1),
         NEW e, NEW new, Searching(b, n, i, e, new),
         e + TrailingZeros64(b[i]) < n, TrailingZeros64(b[i]) < W,
         NEW q \in Nat, Fit(b, n, q)
  PROVE  q > B(i) + TrailingZeros64(b[i])
<1>0. W \in Nat /\ W > 0 /\ B(i) \in Nat
  BY Bases
<1>t. PICK t \in 0..W : t = TrailingZeros64(b[i]) /\ get(b, B(i) + t)
  BY FreeBelow
<1>1. e \in Nat /\ e <= B(i) /\ e + t < n /\ q >= B(i) - e
  BY <1>t DEF Searching
<1> SUFFICES ASSUME q <= B(i) + t PROVE FALSE
  BY <1>0, <1>t
<1>2. B(i) + t \in Nat /\ B(i) + t < q + n
  BY <1>0, <1>1
<1>3. ~get(b, B(i) + t)
  BY <1>2, FitFree
<1> QED BY <1>t, <1>3

\* Past a word that is neither full nor free, in which n pages do not fit.
LEMMA PastPartial ==
  ASSUME NEW b \in Bitmap, NEW n \in Nat, n >= 1, NEW i \in 0..(Words - 1), b[i] # Bit, b[i] # {},
         NEW e, NEW new, Searching(b, n, i, e, new),
         e + TrailingZeros64(b[i]) < n,
         \A q \in Nat : B(i) <= q /\ q + n <= B(i) + W => ~Fit(b, n, q)
  PROVE  Searching(b, n, i + 1, LeadingZeros64(b[i]), FirstSeen(b, i, new))
<1>0. /\ W \in Nat /\ W > 0 /\ B(i) \in Nat /\ B(i + 1) = B(i) + W
      /\ B(i) + W <= pallocChunkPages /\ pallocChunkPages \in Nat
  BY Bases
<1>l. PICK l \in 0..W : /\ l = LeadingZeros64(b[i]) /\ l < W /\ get(b, B(i) + W - 1 - l)
                        /\ \A p \in Nat : B(i) + W - l <= p /\ p < B(i) + W => ~get(b, p)
  BY FreeAbove
<1>t. PICK t \in 0..W : t = TrailingZeros64(b[i]) /\ t < W
  <2>1. b[i] \in SUBSET Bit
    BY DEF Bitmap
  <2> QED BY <2>1, TrailingZerosIs
<1>1. l < n
  <2> SUFFICES ASSUME n <= l PROVE FALSE
    BY <1>l
  <2>1. PICK q \in Nat : q = B(i) + W - l
    BY <1>0, <1>l
  <2>2. q + n <= pallocChunkPages /\ B(i) <= q /\ q + n <= B(i) + W
    BY <1>0, <1>l, <2>1
  <2>3. \A p \in Nat : q <= p /\ p < q + n => ~get(b, p)
    BY <1>0, <1>l, <2>1, <2>2
  <2>4. Fit(b, n, q)
    BY <2>2, <2>3, FreeFit
  <2> QED BY <2>2, <2>4
<1>2. ASSUME NEW q \in Nat, Fit(b, n, q) PROVE q >= B(i) + W - l
  <2> SUFFICES ASSUME q <= B(i) + W - 1 - l PROVE FALSE
    BY <1>0, <1>l
  <2>1. q > B(i) + t
    BY <1>t, <1>2, RunTooShort
  <2>2. ~(q + n <= B(i) + W)
    BY <1>0, <1>2, <1>t, <2>1
  <2>3. PICK h \in Nat : h = B(i) + W - 1 - l
    BY <1>0, <1>l
  <2>4. q <= h /\ h < q + n
    BY <1>0, <1>l, <2>2, <2>3
  <2>5. ~get(b, h)
    BY <1>2, <2>4, FitFree
  <2> QED BY <1>l, <2>3, <2>5
<1>3. PICK f \in Nat : f = FirstSeen(b, i, new) /\ \A p \in Nat : p < f => get(b, p)
  <2>1. Seen(b, i, new)
    BY DEF Searching
  <2> QED BY <2>1, FirstSeenIs
<1>4. Seen(b, i + 1, f)
  BY <1>3 DEF Seen
<1>5. l \in Nat /\ l <= B(i + 1)
  BY <1>0, <1>l
<1>6. \A p \in Nat : B(i + 1) - l <= p /\ p < B(i + 1) => ~get(b, p)
  BY <1>0, <1>l
<1>7. \A q \in Nat : Fit(b, n, q) => q >= B(i + 1) - l
  BY <1>0, <1>2
<1>8. Searching(b, n, i + 1, l, f)
  BY <1>1, <1>4, <1>5, <1>6, <1>7 DEF Searching
<1> QED BY <1>3, <1>8, <1>l

\* Past a free word.
LEMMA PastFree ==
  ASSUME NEW b \in Bitmap, NEW n \in Nat, n >= 1, NEW i \in 0..(Words - 1), b[i] = {},
         NEW e, NEW new, Searching(b, n, i, e, new), e + W < n
  PROVE  Searching(b, n, i + 1, e + W, FirstSeen(b, i, new))
<1>0. W \in Nat /\ W > 0 /\ B(i) \in Nat /\ B(i + 1) = B(i) + W
  BY Bases
<1>1. /\ e \in Nat /\ e <= B(i)
      /\ \A p \in Nat : B(i) - e <= p /\ p < B(i) => ~get(b, p)
      /\ \A q \in Nat : Fit(b, n, q) => q >= B(i) - e
  BY DEF Searching
<1>b. b[i] # Bit
  BY <1>0 DEF Bit
<1>2. \A p \in Nat : B(i) <= p /\ p < B(i) + W => ~get(b, p)
  <2>1. PICK l : l = LeadingZeros64(b[i])
    OBVIOUS
  <2>2. l = W /\ \A p \in Nat : B(i) + W - l <= p /\ p < B(i) + W => ~get(b, p)
    BY <2>1, FreeAbove
  <2>3. B(i) + W - l = B(i)
    BY <1>0, <2>2
  <2> QED BY <2>2, <2>3
<1>3. PICK f \in Nat : f = FirstSeen(b, i, new) /\ \A p \in Nat : p < f => get(b, p)
  <2>1. Seen(b, i, new)
    BY DEF Searching
  <2> QED BY <1>b, <2>1, FirstSeenIs
<1>4. Seen(b, i + 1, f)
  BY <1>3 DEF Seen
<1>5. e + W \in Nat /\ e + W <= B(i + 1) /\ B(i + 1) - (e + W) = B(i) - e
  BY <1>0, <1>1
<1>6. \A p \in Nat : B(i) - e <= p /\ p < B(i + 1) => ~get(b, p)
  BY <1>0, <1>1, <1>2
<1>7. Searching(b, n, i + 1, e + W, f)
  BY <1>1, <1>4, <1>5, <1>6 DEF Searching
<1> QED BY <1>3, <1>7

\* At the end of the chunk nothing fits.
LEMMA SearchEnds ==
  ASSUME NEW b, NEW n \in Nat, NEW e, NEW new, Searching(b, n, Words, e, new), NEW q \in Nat
  PROVE  ~Fit(b, n, q)
<1> SUFFICES ASSUME Fit(b, n, q) PROVE FALSE
  OBVIOUS
<1>0. B(Words) = pallocChunkPages /\ pallocChunkPages \in Nat
  BY Bases
<1>1. e \in Nat /\ e < n /\ q >= B(Words) - e
  BY DEF Searching
<1>2. q + n <= pallocChunkPages
  BY DEF Fit
<1> QED BY <1>0, <1>1, <1>2

-----------------------------------------------------------------------------
(***************************************************************************)
(* findSmallN and findLargeN.                                              *)
(***************************************************************************)
\* The result of a search: the lowest fit, or None where there is none.
Answers(b, n, r) ==
  \/ r[1] # None /\ Found(b, n, r[1], r[2])
  \/ r[1] = None /\ \A q \in Nat : ~Fit(b, n, q)

\* The search begins with the first word.
LEMMA FirstWord == 0 \div W = 0
<1>1. W \in Nat /\ W > 0 /\ 0 \in 0..(W - 1)
  BY Bases
<1>2. 0 = (0 * W + 0) \div W
  BY <1>1, DivModIs
<1>3. 0 * W + 0 = 0
  BY <1>1
<1> QED BY <1>2, <1>3

\* The first N words of findSmallN.
SmallsTo(b, n, N, g) ==
  [i \in 0..N |-> IF i = 0 THEN [idx |-> None, new |-> None, end |-> 0]
                  ELSE SmallStep(b, n, 0, i - 1, g[i - 1])]

\* They exist.
LEMMA SmallsExist ==
  ASSUME NEW b, NEW n, NEW N \in Nat
  PROVE  \E g : g = SmallsTo(b, n, N, g)
<1> DEFINE Missing == {m \in 0..N : ~ \E g : g = SmallsTo(b, n, m, g)}
<1>0. N \in 0..N
  OBVIOUS
<1> SUFFICES ASSUME Missing # {} PROVE FALSE
  BY <1>0
<1>1. Missing \subseteq Nat
  OBVIOUS
<1>2. PICK x \in Missing : \A y \in Missing : x <= y
  BY <1>1, LeastNatural
<1>3. CASE x = 0
  <2> DEFINE g == [k \in 0..0 |-> [idx |-> None, new |-> None, end |-> 0]]
  <2>1. g = SmallsTo(b, n, 0, g)
    BY DEF SmallsTo
  <2> QED BY <1>2, <1>3, <2>1
<1>4. CASE x # 0
  <2>1. x - 1 \in 0..N /\ x \in 0..N /\ ~ (x <= x - 1)
    BY <1>4
  <2>2. PICK f : f = SmallsTo(b, n, x - 1, f)
    BY <1>2, <2>1
  <2> DEFINE g == [k \in 0..x |-> IF k = x THEN SmallStep(b, n, 0, x - 1, f[x - 1]) ELSE f[k]]
  <2>3. ASSUME NEW k \in 0..x
        PROVE  g[k] = IF k = 0 THEN [idx |-> None, new |-> None, end |-> 0]
                      ELSE SmallStep(b, n, 0, k - 1, g[k - 1])
    <3>1. CASE k = 0
      <4>1. f[0] = [idx |-> None, new |-> None, end |-> 0]
        BY <2>1, <2>2 DEF SmallsTo
      <4> QED BY <1>4, <3>1, <4>1
    <3>2. CASE k = x
      <4>1. g[k - 1] = f[x - 1]
        BY <2>1, <3>2
      <4> QED BY <1>4, <3>2, <4>1
    <3>3. CASE k # 0 /\ k # x
      <4>1. k \in 0..(x - 1) /\ k - 1 \in 0..x /\ k - 1 # x
        BY <2>1, <3>3
      <4>2. f[k] = SmallStep(b, n, 0, k - 1, f[k - 1])
        BY <2>2, <3>3, <4>1 DEF SmallsTo
      <4>3. g[k] = f[k] /\ g[k - 1] = f[k - 1]
        BY <3>3, <4>1
      <4> QED BY <3>3, <4>2, <4>3
    <3> QED BY <3>1, <3>2, <3>3
  <2>4. g = SmallsTo(b, n, x, g)
    BY <2>3 DEF SmallsTo
  <2> QED BY <1>2, <2>4
<1> QED BY <1>3, <1>4

\* findSmallN is their last.
LEMMA findSmallNIs ==
  ASSUME NEW b, NEW n
  PROVE  \E g : g = SmallsTo(b, n, Words, g) /\ findSmallN(b, n, 0) = <<g[Words].idx, g[Words].new>>
<1>1. \E g : g = SmallsTo(b, n, Words, g)
  BY Bases, SmallsExist
<1>2. PICK g : g = CHOOSE h : h = SmallsTo(b, n, Words, h)
  OBVIOUS
<1>3. g = SmallsTo(b, n, Words, g)
  BY <1>1, <1>2
<1>5. SmallWords(b, n, 0, 0) = g[Words]
  BY <1>2 DEF SmallWords, SmallsTo
<1>4. findSmallN(b, n, 0) = <<g[Words].idx, g[Words].new>>
  BY <1>5, FirstWord DEF findSmallN
<1> HIDE <1>2
<1> QED BY <1>3, <1>4

\* Before word i, findSmallN has found what it looks for, or goes on.
SmallInv(b, n, i, s) ==
  /\ s.idx # None => Found(b, n, s.idx, s.new)
  /\ s.idx = None => Searching(b, n, i, s.end, s.new)

\* The state of the search is a record of these fields.
IsSmall(s) == \E x, y, z : s = [idx |-> x, new |-> y, end |-> z]

\* A word keeps it so.
LEMMA SmallStepSound ==
  ASSUME NEW b \in Bitmap, NEW n \in Nat, n >= 1, n <= W, NEW i \in 0..(Words - 1),
         NEW s, IsSmall(s), SmallInv(b, n, i, s)
  PROVE  /\ SmallInv(b, n, i + 1, SmallStep(b, n, 0, i, s))
         /\ IsSmall(SmallStep(b, n, 0, i, s))
<1>0. /\ W \in Nat /\ W > 0 /\ B(i) \in Nat /\ B(i) = i * W
      /\ B(i) + W <= pallocChunkPages /\ pallocChunkPages \in Nat
  BY Bases DEF B
<1>r. PICK r : r = SmallStep(b, n, 0, i, s)
  OBVIOUS
<1> SUFFICES SmallInv(b, n, i + 1, r) /\ IsSmall(r)
  BY <1>r
<1>q. PICK idx, new, end : s = [idx |-> idx, new |-> new, end |-> end]
  BY DEF IsSmall
<1>s. s.idx = idx /\ s.new = new /\ s.end = end
  BY <1>q
<1>1. CASE idx # None
  <2>1. r = s
    BY <1>r, <1>q, <1>s, <1>1 DEF SmallStep
  <2>2. SmallInv(b, n, i + 1, s)
    BY <1>s, <1>1 DEF SmallInv
  <2> QED BY <2>1, <2>2
<1>2. CASE idx = None
  <2>s. Searching(b, n, i, end, new)
    BY <1>s, <1>2 DEF SmallInv
  <2>e. end \in Nat /\ end <= B(i)
    BY <2>s DEF Searching
  <2>t. PICK t \in 0..W : t = TrailingZeros64(b[i])
    BY FreeBelow
  <2>f. PICK f : f = FirstSeen(b, i, new)
    OBVIOUS
  <2>j. PICK j : j = findBitRange64(Not(b[i]), n)
    OBVIOUS
  <2>1. CASE b[i] = Bit
    <3>1. r = [idx |-> idx, new |-> new, end |-> 0]
      BY <1>r, <1>q, <1>s, <1>2, <2>1 DEF SmallStep
    <3>2. Searching(b, n, i + 1, 0, new)
      BY <2>1, <2>s, PastFull
    <3>3. r.idx = None /\ r.new = new /\ r.end = 0
      BY <1>2, <3>1
    <3>4. SmallInv(b, n, i + 1, r)
      BY <3>2, <3>3 DEF SmallInv
    <3> QED BY <3>1, <3>4 DEF IsSmall
  <2>2. CASE b[i] # Bit /\ end + t >= n
    <3>1. r = [idx |-> i * W - end, new |-> f, end |-> end]
      BY <1>r, <1>q, <1>s, <1>2, <2>2, <2>t, <2>f DEF SmallStep
    <3>2. Found(b, n, B(i) - end, f)
      BY <2>2, <2>s, <2>t, <2>f, RunEnds
    <3>3. r.idx = B(i) - end /\ r.new = f
      BY <1>0, <3>1
    <3>4. B(i) - end # None
      BY <1>0, <2>e DEF None
    <3>5. SmallInv(b, n, i + 1, r)
      BY <3>2, <3>3, <3>4 DEF SmallInv
    <3> QED BY <3>1, <3>5 DEF IsSmall
  <2>3. CASE b[i] # Bit /\ ~(end + t >= n)
    <3>n. Not(b[i]) \in SUBSET Bit /\ b[i] \in SUBSET Bit
      BY DEF Not, Bitmap
    <3>j. /\ j \in 0..W
          /\ j < W => j \in Bit /\ \A k \in j..(j + n - 1) : k \in Not(b[i])
          /\ \A q \in Nat : (\A k \in q..(q + n - 1) : k \in Not(b[i])) => j <= q /\ j < W
      <4>1. PICK c \in SUBSET Bit : c = Not(b[i])
        BY <3>n
      <4>2. j = findBitRange64(c, n)
        BY <2>j, <4>1
      <4>3. /\ j \in 0..W
            /\ j < W => j \in Bit /\ \A k \in j..(j + n - 1) : k \in c
            /\ \A q \in Nat : (\A k \in q..(q + n - 1) : k \in c) => j <= q /\ j < W
        BY <4>2, findBitRange64Is
      <4> QED BY <4>1, <4>3
    <3>t. end + t < n /\ t < W
      BY <1>0, <2>3, <2>e
    <3>w. ASSUME NEW q \in Nat, B(i) <= q, q + n <= B(i) + W, Fit(b, n, q)
          PROVE  j < W /\ B(i) + j <= q
      <4>1. PICK d \in Nat : d = q - B(i)
        BY <1>0, <3>w
      <4>2. ASSUME NEW k \in d..(d + n - 1) PROVE k \in Not(b[i])
        <5>1. k \in Bit /\ B(i) + k \in Nat /\ q <= B(i) + k /\ B(i) + k < q + n
          BY <1>0, <3>w, <4>1 DEF Bit
        <5>2. ~get(b, B(i) + k)
          BY <3>w, <5>1, FitFree
        <5> QED BY <5>1, <5>2, BitOfPage DEF Not
      <4>3. j <= d /\ j < W
        BY <3>j, <4>2
      <4> QED BY <1>0, <3>j, <4>1, <4>3
    <3>1. CASE j < W
      <4>1. r = [idx |-> i * W + j, new |-> 0, end |-> end]
        BY <1>r, <1>q, <1>s, <1>2, <2>3, <2>t, <2>j, <3>1 DEF SmallStep
      <4>2. j \in Nat /\ j \in Bit /\ \A k \in j..(j + n - 1) : k \in Not(b[i])
        BY <3>j, <3>1
      <4>3. PICK q \in Nat : q = B(i) + j
        BY <1>0, <4>2
      <4>4. j + n <= W
        <5>1. j + n - 1 \in j..(j + n - 1)
          BY <4>2
        <5>2. j + n - 1 \in Bit
          BY <3>n, <4>2, <5>1
        <5> QED BY <1>0, <4>2, <5>2 DEF Bit
      <4>5. ASSUME NEW p \in Nat, q <= p, p < q + n PROVE ~get(b, p)
        <5>1. PICK k \in Nat : k = p - B(i)
          BY <1>0, <4>2, <4>3, <4>5
        <5>2. k \in j..(j + n - 1) /\ p = B(i) + k
          BY <1>0, <4>2, <4>3, <4>5, <5>1
        <5>3. k \in Bit /\ k \notin b[i]
          BY <4>2, <5>2 DEF Not
        <5> QED BY <5>2, <5>3, BitOfPage
      <4>6. q + n <= pallocChunkPages
        BY <1>0, <4>2, <4>3, <4>4
      <4>7. Fit(b, n, q)
        BY <4>5, <4>6, FreeFit
      <4>8. ASSUME NEW o \in Nat, Fit(b, n, o) PROVE q <= o
        <5> SUFFICES ASSUME o < q PROVE FALSE
          OBVIOUS
        <5>1. o > B(i) + t
          BY <2>s, <2>t, <3>t, <4>8, RunTooShort
        <5>2. B(i) <= o /\ o + n <= B(i) + W
          BY <1>0, <2>t, <4>2, <4>3, <4>4, <5>1
        <5>3. B(i) + j <= o
          BY <3>w, <4>8, <5>2
        <5> QED BY <4>3, <5>3
      <4>9. Found(b, n, q, 0)
        BY <4>7, <4>8 DEF Found
      <4>10. r.idx = q /\ r.new = 0 /\ q # None
        BY <1>0, <4>1, <4>3 DEF None
      <4>11. SmallInv(b, n, i + 1, r)
        BY <4>9, <4>10 DEF SmallInv
      <4> QED BY <4>1, <4>11 DEF IsSmall
    <3>2. CASE ~(j < W)
      <4>l. PICK l : l = LeadingZeros64(b[i])
        OBVIOUS
      <4>1. r = [idx |-> idx, new |-> f, end |-> l]
        BY <1>r, <1>q, <1>s, <1>2, <2>3, <2>t, <2>f, <2>j, <3>2, <4>l DEF SmallStep
      <4>2. b[i] # {}
        <5>1. b[i] = {} => TrailingZeros64(b[i]) = W
          BY DEF TrailingZeros64
        <5> QED BY <1>0, <2>t, <3>t, <5>1
      <4>3. \A q \in Nat : B(i) <= q /\ q + n <= B(i) + W => ~Fit(b, n, q)
        BY <3>w, <3>2
      <4>4. Searching(b, n, i + 1, l, f)
        BY <2>3, <2>s, <2>t, <2>f, <3>t, <4>l, <4>2, <4>3, PastPartial
      <4>5. r.idx = None /\ r.new = f /\ r.end = l
        BY <1>2, <4>1
      <4>6. SmallInv(b, n, i + 1, r)
        BY <4>4, <4>5 DEF SmallInv
      <4> QED BY <4>1, <4>6 DEF IsSmall
    <3> QED BY <3>1, <3>2
  <2> QED BY <2>1, <2>2, <2>3
<1> QED BY <1>1, <1>2

\* findSmallN is first fit.
LEMMA findSmallNFirst ==
  ASSUME NEW b \in Bitmap, NEW n \in Nat, n >= 1, n <= W
  PROVE  Answers(b, n, findSmallN(b, n, 0))
<1>1. PICK g : g = SmallsTo(b, n, Words, g) /\ findSmallN(b, n, 0) = <<g[Words].idx, g[Words].new>>
  BY findSmallNIs
<1> DEFINE Good(i) == /\ SmallInv(b, n, i, g[i])
                      /\ IsSmall(g[i])
<1>w. Words \in Nat /\ Words > 0
  BY Bases
<1>2. Good(0)
  <2>1. g[0] = [idx |-> None, new |-> None, end |-> 0]
    BY <1>1, <1>w DEF SmallsTo
  <2>2. Searching(b, n, 0, 0, None)
    BY SearchStarts
  <2>3. g[0].idx = None /\ g[0].new = None /\ g[0].end = 0
    BY <2>1
  <2>4. SmallInv(b, n, 0, g[0])
    BY <2>2, <2>3 DEF SmallInv
  <2> QED BY <2>1, <2>4 DEF IsSmall
<1>3. ASSUME NEW i \in 0..(Words - 1), Good(i) PROVE Good(i + 1)
  <2>1. i + 1 \in 0..Words /\ i + 1 # 0 /\ (i + 1) - 1 = i
    BY <1>w
  <2>2. g[i + 1] = SmallStep(b, n, 0, (i + 1) - 1, g[(i + 1) - 1])
    BY <1>1, <2>1 DEF SmallsTo
  <2>3. g[i + 1] = SmallStep(b, n, 0, i, g[i])
    BY <2>1, <2>2
  <2>5. PICK s : s = g[i]
    OBVIOUS
  <2>6. SmallInv(b, n, i, s) /\ IsSmall(s)
    BY <1>3, <2>5
  <2>7. SmallInv(b, n, i + 1, SmallStep(b, n, 0, i, s)) /\ IsSmall(SmallStep(b, n, 0, i, s))
    BY <2>6, SmallStepSound
  <2> QED BY <2>3, <2>5, <2>7
<1>4. Good(Words)
  <2> DEFINE Bad == {i \in 0..Words : ~Good(i)}
  <2>0. Words \in 0..Words
    BY <1>w
  <2> HIDE DEF Good
  <2> SUFFICES ASSUME Bad # {} PROVE FALSE
    BY <2>0
  <2>1. Bad \subseteq Nat
    BY <1>w
  <2>2. PICK x \in Bad : \A y \in Bad : x <= y
    BY <2>1, LeastNatural
  <2>3. x # 0 /\ x \in 0..Words
    BY <1>2, <2>2
  <2>4. PICK i \in 0..(Words - 1) : i \in 0..Words /\ ~(x <= i) /\ i + 1 = x
    <3>1. x - 1 \in 0..(Words - 1) /\ x - 1 \in 0..Words /\ ~(x <= x - 1) /\ (x - 1) + 1 = x
      BY <1>w, <2>3
    <3> QED BY <3>1
  <2>5. Good(i)
    BY <2>2, <2>4
  <2>6. Good(i + 1)
    BY <1>3, <2>4, <2>5
  <2> QED BY <2>2, <2>4, <2>6
<1>5. PICK r : r = findSmallN(b, n, 0)
  OBVIOUS
<1>6. r[1] = g[Words].idx /\ r[2] = g[Words].new
  BY <1>1, <1>5
<1>7. CASE r[1] = None
  <2>1. Searching(b, n, Words, g[Words].end, g[Words].new)
    BY <1>4, <1>6, <1>7 DEF SmallInv
  <2>2. \A q \in Nat : ~Fit(b, n, q)
    BY <2>1, SearchEnds
  <2> QED BY <1>5, <1>7, <2>2 DEF Answers
<1>8. CASE r[1] # None
  <2>1. Found(b, n, r[1], r[2])
    BY <1>4, <1>6, <1>8 DEF SmallInv
  <2> QED BY <1>5, <1>8, <2>1 DEF Answers
<1> QED BY <1>7, <1>8

\* The first N words of findLargeN.
LargesTo(b, n, N, g) ==
  [i \in 0..N |-> IF i = 0 THEN [idx |-> None, new |-> None, start |-> None, size |-> 0]
                  ELSE LargeStep(b, n, i - 1, g[i - 1])]

\* They exist.
LEMMA LargesExist ==
  ASSUME NEW b, NEW n, NEW N \in Nat
  PROVE  \E g : g = LargesTo(b, n, N, g)
<1> DEFINE Missing == {m \in 0..N : ~ \E g : g = LargesTo(b, n, m, g)}
<1>0. N \in 0..N
  OBVIOUS
<1> SUFFICES ASSUME Missing # {} PROVE FALSE
  BY <1>0
<1>1. Missing \subseteq Nat
  OBVIOUS
<1>2. PICK x \in Missing : \A y \in Missing : x <= y
  BY <1>1, LeastNatural
<1>3. CASE x = 0
  <2> DEFINE g == [k \in 0..0 |-> [idx |-> None, new |-> None, start |-> None, size |-> 0]]
  <2>1. g = LargesTo(b, n, 0, g)
    BY DEF LargesTo
  <2> QED BY <1>2, <1>3, <2>1
<1>4. CASE x # 0
  <2>1. x - 1 \in 0..N /\ x \in 0..N /\ ~ (x <= x - 1)
    BY <1>4
  <2>2. PICK f : f = LargesTo(b, n, x - 1, f)
    BY <1>2, <2>1
  <2> DEFINE g == [k \in 0..x |-> IF k = x THEN LargeStep(b, n, x - 1, f[x - 1]) ELSE f[k]]
  <2>3. ASSUME NEW k \in 0..x
        PROVE  g[k] = IF k = 0 THEN [idx |-> None, new |-> None, start |-> None, size |-> 0]
                      ELSE LargeStep(b, n, k - 1, g[k - 1])
    <3>1. CASE k = 0
      <4>1. f[0] = [idx |-> None, new |-> None, start |-> None, size |-> 0]
        BY <2>1, <2>2 DEF LargesTo
      <4> QED BY <1>4, <3>1, <4>1
    <3>2. CASE k = x
      <4>1. g[k - 1] = f[x - 1]
        BY <2>1, <3>2
      <4> QED BY <1>4, <3>2, <4>1
    <3>3. CASE k # 0 /\ k # x
      <4>1. k \in 0..(x - 1) /\ k - 1 \in 0..x /\ k - 1 # x
        BY <2>1, <3>3
      <4>2. f[k] = LargeStep(b, n, k - 1, f[k - 1])
        BY <2>2, <3>3, <4>1 DEF LargesTo
      <4>3. g[k] = f[k] /\ g[k - 1] = f[k - 1]
        BY <3>3, <4>1
      <4> QED BY <3>3, <4>2, <4>3
    <3> QED BY <3>1, <3>2, <3>3
  <2>4. g = LargesTo(b, n, x, g)
    BY <2>3 DEF LargesTo
  <2> QED BY <1>2, <2>4
<1> QED BY <1>3, <1>4

\* findLargeN is their last.
LEMMA findLargeNIs ==
  ASSUME NEW b, NEW n
  PROVE  \E g : /\ g = LargesTo(b, n, Words, g)
                /\ findLargeN(b, n, 0) =
                     <<IF g[Words].idx = None /\ g[Words].size >= n
                       THEN g[Words].start ELSE g[Words].idx, g[Words].new>>
<1>1. \E g : g = LargesTo(b, n, Words, g)
  BY Bases, LargesExist
<1>2. PICK g : g = CHOOSE h : h = LargesTo(b, n, Words, h)
  OBVIOUS
<1>3. g = LargesTo(b, n, Words, g)
  BY <1>1, <1>2
<1>5. LargeWords(b, n, 0) = g[Words]
  BY <1>2 DEF LargeWords, LargesTo
<1>4. findLargeN(b, n, 0) =
        <<IF g[Words].idx = None /\ g[Words].size >= n
          THEN g[Words].start ELSE g[Words].idx, g[Words].new>>
  BY <1>5, FirstWord DEF findLargeN
<1> HIDE <1>2
<1> QED BY <1>3, <1>4

\* Before word i, findLargeN has found what it looks for, or goes on; it knows
\* where the run below the word starts.
LargeInv(b, n, i, s) ==
  /\ s.idx # None => Found(b, n, s.idx, s.new)
  /\ s.idx = None => Searching(b, n, i, s.size, s.new) /\ (s.size > 0 => s.start = B(i) - s.size)

\* The state of the search is a record of these fields.
IsLarge(s) == \E x, y, z, w : s = [idx |-> x, new |-> y, start |-> z, size |-> w]

\* A word keeps it so: more than W pages never fit into one word.
LEMMA LargeStepSound ==
  ASSUME NEW b \in Bitmap, NEW n \in Nat, n > W, NEW i \in 0..(Words - 1),
         NEW s, IsLarge(s), LargeInv(b, n, i, s)
  PROVE  /\ LargeInv(b, n, i + 1, LargeStep(b, n, i, s))
         /\ IsLarge(LargeStep(b, n, i, s))
<1>0. /\ W \in Nat /\ W > 0 /\ B(i) \in Nat /\ B(i) = i * W /\ B(i + 1) = B(i) + W /\ n >= 1
      /\ B(i) + W <= pallocChunkPages /\ pallocChunkPages \in Nat
  BY Bases DEF B
<1>r. PICK r : r = LargeStep(b, n, i, s)
  OBVIOUS
<1> SUFFICES LargeInv(b, n, i + 1, r) /\ IsLarge(r)
  BY <1>r
<1>q. PICK idx, new, start, size : s = [idx |-> idx, new |-> new, start |-> start, size |-> size]
  BY DEF IsLarge
<1>s. s.idx = idx /\ s.new = new /\ s.start = start /\ s.size = size
  BY <1>q
<1>1. CASE idx # None
  <2>1. r = s
    BY <1>r, <1>q, <1>s, <1>1 DEF LargeStep
  <2>2. LargeInv(b, n, i + 1, s)
    BY <1>s, <1>1 DEF LargeInv
  <2> QED BY <2>1, <2>2
<1>2. CASE idx = None
  <2>s. Searching(b, n, i, size, new) /\ (size > 0 => start = B(i) - size)
    BY <1>s, <1>2 DEF LargeInv
  <2>e. size \in Nat /\ size <= B(i) /\ size < n
    BY <2>s DEF Searching
  <2>t. PICK t \in 0..W : t = TrailingZeros64(b[i])
    BY FreeBelow
  <2>l. PICK l \in 0..W : l = LeadingZeros64(b[i]) /\ (b[i] = {} => l = W)
    BY FreeAbove
  <2>f. PICK f : f = FirstSeen(b, i, new)
    OBVIOUS
  <2>w. b[i] \in SUBSET Bit /\ (b[i] # {} => t < W) /\ (b[i] = {} => t = W)
    <3>1. b[i] \in SUBSET Bit
      BY DEF Bitmap
    <3>2. b[i] # {} => t < W
      BY <2>t, <3>1, TrailingZerosIs
    <3>3. b[i] = {} => t = W
      BY <2>t DEF TrailingZeros64
    <3> QED BY <3>1, <3>2, <3>3
  <2>1. CASE b[i] = Bit
    <3>1. r = [idx |-> idx, new |-> new, start |-> start, size |-> 0]
      BY <1>r, <1>q, <1>s, <1>2, <2>1 DEF LargeStep
    <3>2. Searching(b, n, i + 1, 0, new)
      BY <1>0, <2>1, <2>s, PastFull
    <3>3. r.idx = None /\ r.new = new /\ r.size = 0
      BY <1>2, <3>1
    <3>4. LargeInv(b, n, i + 1, r)
      BY <3>2, <3>3 DEF LargeInv
    <3> QED BY <3>1, <3>4 DEF IsLarge
  <2>2. CASE b[i] # Bit /\ size > 0 /\ t + size >= n
    <3>1. r = [idx |-> start, new |-> f, start |-> start, size |-> size]
      BY <1>r, <1>q, <1>s, <1>2, <2>2, <2>t, <2>f DEF LargeStep
    <3>2. Found(b, n, B(i) - size, f)
      <4>1. size + t >= n
        BY <1>0, <2>2, <2>e
      <4> QED BY <2>2, <2>s, <2>t, <2>f, <4>1, RunEnds
    <3>3. r.idx = B(i) - size /\ r.new = f
      BY <2>2, <2>s, <3>1
    <3>4. B(i) - size # None
      BY <1>0, <2>e DEF None
    <3>5. LargeInv(b, n, i + 1, r)
      BY <3>2, <3>3, <3>4 DEF LargeInv
    <3> QED BY <3>1, <3>5 DEF IsLarge
  <2>3. CASE b[i] # Bit /\ ~(size > 0 /\ t + size >= n) /\ b[i] # {}
    <3>1. r = [idx |-> idx, new |-> f, start |-> i * W + W - l, size |-> l]
      BY <1>r, <1>q, <1>s, <1>2, <2>3, <2>t, <2>f, <2>l, <2>w DEF LargeStep
    <3>2. size + t < n
      BY <1>0, <2>3, <2>e
    <3>3. \A q \in Nat : B(i) <= q /\ q + n <= B(i) + W => ~Fit(b, n, q)
      BY <1>0
    <3>4. Searching(b, n, i + 1, l, f)
      BY <1>0, <2>3, <2>s, <2>t, <2>f, <2>l, <3>2, <3>3, PastPartial
    <3>5. r.idx = None /\ r.new = f /\ r.size = l /\ r.start = B(i + 1) - l
      BY <1>0, <1>2, <3>1
    <3>6. LargeInv(b, n, i + 1, r)
      BY <3>4, <3>5 DEF LargeInv
    <3> QED BY <3>1, <3>6 DEF IsLarge
  <2>4. CASE b[i] # Bit /\ ~(size > 0 /\ t + size >= n) /\ b[i] = {}
    <3>1. size + W < n
      BY <1>0, <2>4, <2>e, <2>w
    <3>2. Searching(b, n, i + 1, size + W, f)
      BY <1>0, <2>4, <2>s, <2>f, <3>1, PastFree
    <3>3. CASE size = 0
      <4>1. r = [idx |-> idx, new |-> f, start |-> i * W + W - l, size |-> l]
        BY <1>r, <1>q, <1>s, <1>2, <2>4, <2>t, <2>f, <2>l, <3>3 DEF LargeStep
      <4>2. l = size + W
        BY <1>0, <2>4, <2>l, <3>3
      <4>3. r.idx = None /\ r.new = f /\ r.size = size + W /\ r.start = B(i + 1) - (size + W)
        BY <1>0, <1>2, <2>e, <4>1, <4>2
      <4>4. LargeInv(b, n, i + 1, r)
        BY <3>2, <4>3 DEF LargeInv
      <4> QED BY <4>1, <4>4 DEF IsLarge
    <3>4. CASE size # 0
      <4>1. ~(size = 0 \/ t < W) /\ size > 0
        BY <1>0, <2>4, <2>e, <2>w, <3>4
      <4>2. r = [idx |-> idx, new |-> f, start |-> start, size |-> size + W]
        BY <1>r, <1>q, <1>s, <1>2, <2>4, <2>t, <2>f, <4>1 DEF LargeStep
      <4>3. B(i) - size = B(i + 1) - (size + W)
        BY <1>0, <2>e
      <4>4. r.idx = None /\ r.new = f /\ r.size = size + W /\ r.start = B(i + 1) - (size + W)
        BY <1>2, <2>s, <4>1, <4>2, <4>3
      <4>5. LargeInv(b, n, i + 1, r)
        BY <3>2, <4>4 DEF LargeInv
      <4> QED BY <4>2, <4>5 DEF IsLarge
    <3> QED BY <3>3, <3>4
  <2> QED BY <2>1, <2>2, <2>3, <2>4
<1> QED BY <1>1, <1>2

\* findLargeN is first fit.
LEMMA findLargeNFirst ==
  ASSUME NEW b \in Bitmap, NEW n \in Nat, n > W
  PROVE  Answers(b, n, findLargeN(b, n, 0))
<1>1. PICK g : /\ g = LargesTo(b, n, Words, g)
               /\ findLargeN(b, n, 0) =
                    <<IF g[Words].idx = None /\ g[Words].size >= n
                      THEN g[Words].start ELSE g[Words].idx, g[Words].new>>
  BY findLargeNIs
<1> DEFINE Good(i) == /\ LargeInv(b, n, i, g[i])
                      /\ IsLarge(g[i])
<1>w. Words \in Nat /\ Words > 0 /\ n >= 1
  BY Bases
<1>2. Good(0)
  <2>1. g[0] = [idx |-> None, new |-> None, start |-> None, size |-> 0]
    BY <1>1, <1>w DEF LargesTo
  <2>2. Searching(b, n, 0, 0, None)
    BY <1>w, SearchStarts
  <2>3. g[0].idx = None /\ g[0].new = None /\ g[0].size = 0
    BY <2>1
  <2>4. LargeInv(b, n, 0, g[0])
    BY <2>2, <2>3 DEF LargeInv
  <2> QED BY <2>1, <2>4 DEF IsLarge
<1>3. ASSUME NEW i \in 0..(Words - 1), Good(i) PROVE Good(i + 1)
  <2>1. i + 1 \in 0..Words /\ i + 1 # 0 /\ (i + 1) - 1 = i
    BY <1>w
  <2>2. g[i + 1] = LargeStep(b, n, (i + 1) - 1, g[(i + 1) - 1])
    BY <1>1, <2>1 DEF LargesTo
  <2>3. g[i + 1] = LargeStep(b, n, i, g[i])
    BY <2>1, <2>2
  <2>5. PICK s : s = g[i]
    OBVIOUS
  <2>6. LargeInv(b, n, i, s) /\ IsLarge(s)
    BY <1>3, <2>5
  <2>7. LargeInv(b, n, i + 1, LargeStep(b, n, i, s)) /\ IsLarge(LargeStep(b, n, i, s))
    BY <2>6, LargeStepSound
  <2> QED BY <2>3, <2>5, <2>7
<1>4. Good(Words)
  <2> DEFINE Bad == {i \in 0..Words : ~Good(i)}
  <2>0. Words \in 0..Words
    BY <1>w
  <2> HIDE DEF Good
  <2> SUFFICES ASSUME Bad # {} PROVE FALSE
    BY <2>0
  <2>1. Bad \subseteq Nat
    BY <1>w
  <2>2. PICK x \in Bad : \A y \in Bad : x <= y
    BY <2>1, LeastNatural
  <2>3. x # 0 /\ x \in 0..Words
    BY <1>2, <2>2
  <2>4. PICK i \in 0..(Words - 1) : i \in 0..Words /\ ~(x <= i) /\ i + 1 = x
    <3>1. x - 1 \in 0..(Words - 1) /\ x - 1 \in 0..Words /\ ~(x <= x - 1) /\ (x - 1) + 1 = x
      BY <1>w, <2>3
    <3> QED BY <3>1
  <2>5. Good(i)
    BY <2>2, <2>4
  <2>6. Good(i + 1)
    BY <1>3, <2>4, <2>5
  <2> QED BY <2>2, <2>4, <2>6
<1>5. PICK r : r = findLargeN(b, n, 0)
  OBVIOUS
<1>6. CASE g[Words].idx = None
  <2>1. Searching(b, n, Words, g[Words].size, g[Words].new)
    BY <1>4, <1>6 DEF LargeInv
  <2>2. \A q \in Nat : ~Fit(b, n, q)
    BY <2>1, SearchEnds
  <2>3. ~(g[Words].size >= n)
    BY <2>1 DEF Searching
  <2>4. r[1] = None
    BY <1>1, <1>5, <1>6, <2>3
  <2> QED BY <1>5, <2>2, <2>4 DEF Answers
<1>7. CASE g[Words].idx # None
  <2>1. r[1] = g[Words].idx /\ r[2] = g[Words].new
    BY <1>1, <1>5, <1>7
  <2>2. Found(b, n, r[1], r[2])
    BY <1>4, <1>7, <2>1 DEF LargeInv
  <2> QED BY <1>5, <1>7, <2>1, <2>2 DEF Answers
<1> QED BY <1>6, <1>7

-----------------------------------------------------------------------------
(***************************************************************************)
(* find.                                                                   *)
(***************************************************************************)
\* Words lie in order.
LEMMA BasesOrdered ==
  ASSUME NEW i \in 0..Words, NEW k \in 0..Words, i <= k
  PROVE  B(i) <= B(k)
<1>0. W \in Nat /\ Words \in Nat /\ i \in Nat /\ k \in Nat
  BY Bases
<1>1. PICK d \in Nat : d = k - i
  BY <1>0
<1>2. ASSUME NEW w \in Nat, NEW n \in Nat, NEW m \in Nat
      PROVE  (n + m) * w = n * w + m * w /\ m * w \in Nat /\ n * w \in Nat
  OBVIOUS
<1>3. (i + d) * W = i * W + d * W /\ d * W \in Nat /\ i * W \in Nat
  BY <1>0, <1>2
<1>4. i + d = k
  BY <1>0, <1>1
<1>5. k * W = i * W + d * W
  BY <1>3, <1>4
<1> QED BY <1>3, <1>5 DEF B

\* find1 is first fit for one page.
LEMMA find1First ==
  ASSUME NEW b \in Bitmap, NEW p, p = find1(b, 0)
  PROVE  Answers(b, 1, <<p, p>>)
<1> DEFINE open == {i \in 0..(Words - 1) : b[i] # Bit}
<1>0. /\ W \in Nat /\ W > 0 /\ Words \in Nat /\ Words > 0
      /\ pallocChunkPages \in Nat
  BY Bases
<1>1. p = IF open = {} THEN None ELSE FirstFree(b, Min(open))
  BY FirstWord DEF find1
<1>2. ASSUME NEW i \in 0..(Words - 1), \A k \in 0..(Words - 1) : k < i => b[k] = Bit,
             NEW o \in Nat, o < B(i)
      PROVE  get(b, o)
  <2>0. B(i) \in Nat /\ B(i) <= pallocChunkPages
    BY <1>0, Bases
  <2>1. PICK k \in 0..(Words - 1), j \in Bit : o = B(k) + j
    BY <1>2, <2>0, <1>0, PageOfBit
  <2>2. B(k) \in Nat /\ j \in Nat
    BY <1>0, Bases DEF Bit
  <2>3. k < i
    <3> SUFFICES ASSUME i <= k PROVE FALSE
      BY <1>0
    <3>1. i \in 0..Words /\ k \in 0..Words
      BY <1>0
    <3>2. B(i) <= B(k)
      BY <3>1, BasesOrdered
    <3> QED BY <1>2, <2>0, <2>1, <2>2, <3>2
  <2>4. b[k] = Bit
    BY <1>2, <2>3
  <2> QED BY <2>1, <2>4, BitOfPage
<1>3. CASE open = {}
  <2>1. p = None
    BY <1>1, <1>3
  <2>2. ASSUME NEW q \in Nat, Fit(b, 1, q) PROVE FALSE
    <3>1. q < pallocChunkPages /\ ~get(b, q)
      <4>1. q + 1 <= pallocChunkPages
        BY <2>2 DEF Fit
      <4>2. ~get(b, q)
        BY <2>2, FitFree
      <4> QED BY <1>0, <4>1, <4>2
    <3>2. PICK k \in 0..(Words - 1), j \in Bit : q = B(k) + j
      BY <3>1, PageOfBit
    <3>3. b[k] = Bit
      BY <1>3
    <3> QED BY <3>1, <3>2, <3>3, BitOfPage
  <2> QED BY <2>1, <2>2 DEF Answers
<1>4. CASE open # {}
  <2>1. open \subseteq Nat
    BY <1>0
  <2>2. PICK i : i = Min(open)
    OBVIOUS
  <2>3. i \in open /\ \A k \in open : i <= k
    BY <1>4, <2>1, <2>2, MinOfNaturals
  <2>4. i \in 0..(Words - 1) /\ b[i] # Bit
    BY <2>3
  <2>5. p = FirstFree(b, i)
    BY <1>1, <1>4, <2>2
  <2>6. \A k \in 0..(Words - 1) : k < i => b[k] = Bit
    BY <1>0, <2>3, <2>4
  <2>7. /\ p \in Nat /\ B(i) <= p /\ p < B(i) + W
        /\ \A o \in Nat : B(i) <= o /\ o < p => get(b, o)
        /\ ~get(b, p)
    BY <2>4, <2>5, FirstFreeIs
  <2> HIDE DEF open
  <2>8. B(i) \in Nat /\ B(i) + W <= pallocChunkPages
    BY <1>0, <2>4, Bases
  <2>9. \A o \in Nat : o < p => get(b, o)
    BY <1>2, <2>4, <2>6, <2>7, <2>8
  <2>10. Fit(b, 1, p)
    <3>1. p + 1 <= pallocChunkPages
      BY <1>0, <2>7, <2>8
    <3>2. \A o \in Nat : p <= o /\ o < p + 1 => ~get(b, o)
      BY <2>7
    <3> QED BY <2>7, <3>1, <3>2, FreeFit
  <2>11. ASSUME NEW q \in Nat, Fit(b, 1, q) PROVE p <= q
    <3>1. ~get(b, q)
      BY <2>11, FitFree
    <3> QED BY <2>7, <2>9, <3>1
  <2>12. Found(b, 1, p, p)
    BY <2>7, <2>9, <2>10, <2>11 DEF Found
  <2>13. p # None
    BY <2>7 DEF None
  <2> QED BY <2>12, <2>13 DEF Answers
<1> QED BY <1>3, <1>4

\* find is first fit for any number of pages.
LEMMA findFirst ==
  ASSUME NEW b \in Bitmap, NEW n \in Nat, n >= 1
  PROVE  Answers(b, n, find(b, n, 0))
<1>0. W \in Nat
  BY Bases
<1>1. CASE n = 1
  <2>1. PICK p : p = find1(b, 0)
    OBVIOUS
  <2>2. Answers(b, 1, <<p, p>>)
    BY <2>1, find1First
  <2> QED BY <1>1, <2>1, <2>2 DEF find
<1>2. CASE n # 1 /\ n <= W
  BY <1>2, findSmallNFirst DEF find
<1>3. CASE n # 1 /\ ~(n <= W)
  BY <1>0, <1>3, findLargeNFirst DEF find
<1> QED BY <1>1, <1>2, <1>3

\* What the answer is worth, in the words of FindFirstFit.
LEMMA AnswersFirstFit ==
  ASSUME bits \in Bitmap
  PROVE  FindFirstFit
<1> DEFINE free == [i \in Page |-> FreeFrom(bits, i)]
<1> DEFINE fits(n) == {i \in Page : free[i] >= n}
<1>0. pallocChunkPages \in Nat
  BY Bases
<1> SUFFICES ASSUME NEW n \in 1..pallocChunkPages
             PROVE  /\ find(bits, n, 0)[1] = IF fits(n) = {} THEN None ELSE Min(fits(n))
                    /\ find(bits, n, 0)[1] # None
                         => \A p \in 0..(find(bits, n, 0)[2] - 1) : get(bits, p)
  BY DEF FindFirstFit
<1>n. n \in Nat /\ n >= 1
  BY <1>0
<1>f. PICK F : F = fits(n)
  OBVIOUS
<1>1. F = {i \in Page : Fit(bits, n, i)}
  BY <1>f, <1>n, FreeFromFits
<1>2. ASSUME NEW q \in Nat, Fit(bits, n, q) PROVE q \in F
  <2>1. q + n <= pallocChunkPages
    BY <1>2 DEF Fit
  <2>2. q \in Page
    BY <1>0, <1>n, <2>1 DEF Page
  <2> QED BY <1>1, <1>2, <2>2
<1>3. F \subseteq Nat
  BY <1>0, <1>1 DEF Page
<1>r. PICK r : r = find(bits, n, 0)
  OBVIOUS
<1> HIDE DEF fits
<1>4. Answers(bits, n, r)
  BY <1>n, <1>r, findFirst
<1>5. CASE r[1] = None
  <2>1. \A q \in Nat : ~Fit(bits, n, q)
    BY <1>4, <1>5 DEF Answers
  <2>2. F = {}
    BY <1>1, <1>3, <2>1
  <2> QED BY <1>5, <1>f, <1>r, <2>2
<1>6. CASE r[1] # None
  <2>1. Found(bits, n, r[1], r[2])
    BY <1>4, <1>6 DEF Answers
  <2>2. PICK m \in Nat : m = r[1] /\ Fit(bits, n, m)
    BY <2>1 DEF Found, Fit
  <2>3. \A q \in Nat : Fit(bits, n, q) => m <= q
    BY <2>1, <2>2 DEF Found
  <2>4. m \in F
    BY <1>2, <2>2
  <2>5. \A q \in F : m <= q
    BY <1>1, <1>3, <2>3
  <2>6. Min(F) = m
    BY <1>3, <2>4, <2>5, MinIs
  <2>7. PICK w \in Nat : w = r[2] /\ \A p \in Nat : p < w => get(bits, p)
    BY <2>1 DEF Found
  <2>8. \A p \in 0..(w - 1) : get(bits, p)
    BY <2>7
  <2>9. F # {}
    BY <2>4
  <2> QED BY <1>f, <1>r, <2>2, <2>6, <2>7, <2>8, <2>9
<1> QED BY <1>5, <1>6

-----------------------------------------------------------------------------
(***************************************************************************)
(* summarize, inside a word.                                               *)
(***************************************************************************)
\* Bits q, ..., q + L - 1 of word w are 0.
Zeros(w, q, L) == \A i \in Nat : q <= i /\ i < q + L => i \notin w

\* Runs of zeros of w with a 1 above are no longer than m, if they start at
\* bit o or above it; if they start below it.
ShortFrom(w, o, m) ==
  \A q, L \in Nat : o <= q /\ Zeros(w, q, L) /\ (\E h \in w : q + L <= h) => L <= m
ShortBelow(w, o, m) ==
  \A q, L \in Nat : q < o /\ Zeros(w, q, L) /\ (\E h \in w : q + L <= h) => L <= m

\* w with every run of zeros shortened by d, from above.
Smear(w, d) == {y \in Bit : \E i \in y..(y + d) : i \in w}

\* A shifted word is a word.
LEMMA ShrWord ==
  ASSUME NEW x \in SUBSET Bit, NEW d \in Nat
  PROVE  Shr(x, d) \in SUBSET Bit
<1> SUFFICES ASSUME NEW j \in Shr(x, d) PROVE j \in Bit
  OBVIOUS
<1>0. W \in Nat
  BY Bases
<1>1. PICK i \in {y \in x : y >= d} : j = i - d
  BY DEF Shr
<1>2. i \in 0..(W - 1) /\ i >= d
  BY <1>1 DEF Bit
<1> QED BY <1>0, <1>1, <1>2 DEF Bit

\* The bits of a shifted word.
LEMMA ShrBits ==
  ASSUME NEW x \in SUBSET Bit, NEW d \in Nat, NEW j \in Nat
  PROVE  j \in Shr(x, d) <=> j + d \in x
<1>1. x \in SUBSET Nat
  BY Bases DEF Bit
<1> QED BY <1>1, ShrIs

\* Two shifts are one.
LEMMA ShrTwice ==
  ASSUME NEW x \in SUBSET Bit, NEW d \in Nat, NEW o \in Nat
  PROVE  Shr(Shr(x, o), d) = Shr(x, o + d)
<1>1. Shr(x, o) \in SUBSET Bit /\ o + d \in Nat
  BY ShrWord
<1>2. Shr(Shr(x, o), d) \subseteq Bit /\ Shr(x, o + d) \subseteq Bit /\ Bit \subseteq Nat
  BY <1>1, ShrWord, Bases DEF Bit
<1>3. ASSUME NEW j \in Nat PROVE j \in Shr(Shr(x, o), d) <=> j \in Shr(x, o + d)
  <2>1. j \in Shr(Shr(x, o), d) <=> j + d \in Shr(x, o)
    BY <1>1, ShrBits
  <2>2. j + d \in Nat /\ (j + d) + o = j + (o + d)
    OBVIOUS
  <2>3. j + d \in Shr(x, o) <=> (j + d) + o \in x
    BY <2>2, ShrBits
  <2>4. j \in Shr(x, o + d) <=> j + (o + d) \in x
    BY <1>1, ShrBits
  <2> QED BY <2>1, <2>2, <2>3, <2>4
<1> QED BY <1>2, <1>3

\* A shift of nothing.
LEMMA ShrNone ==
  ASSUME NEW x \in SUBSET Bit
  PROVE  Shr(x, 0) = x
<1>1. Shr(x, 0) \subseteq Bit /\ Bit \subseteq Nat
  BY ShrWord, Bases DEF Bit
<1>2. \A j \in Nat : j \in Shr(x, 0) <=> j \in x
  <2>1. \A j \in Nat : j + 0 = j
    OBVIOUS
  <2> QED BY <2>1, ShrBits
<1> QED BY <1>1, <1>2

\* Smearing by d and then by no more than d + 1 is smearing by the sum.
LEMMA SmearMore ==
  ASSUME NEW w \in SUBSET Bit, NEW d \in Nat, NEW k \in Nat, k <= d + 1, NEW o \in Nat
  PROVE  Shr(Smear(w, d), o) \cup Shr(Shr(Smear(w, d), o), k) = Shr(Smear(w, d + k), o)
<1>0. /\ W \in Nat /\ Bit \subseteq Nat /\ d + k \in Nat
      /\ Smear(w, d) \in SUBSET Bit /\ Smear(w, d + k) \in SUBSET Bit
  BY Bases DEF Bit, Smear
<1>x. PICK x : x = Shr(Smear(w, d), o)
  OBVIOUS
<1>y. PICK y : y = Shr(x, k)
  OBVIOUS
<1>z. PICK z : z = Shr(Smear(w, d + k), o)
  OBVIOUS
<1>1. x \in SUBSET Bit /\ y \in SUBSET Bit /\ z \in SUBSET Bit
  <2>1. x \in SUBSET Bit
    BY <1>0, <1>x, ShrWord
  <2> QED BY <1>0, <1>y, <1>z, <2>1, ShrWord
<1>2. ASSUME NEW j \in Nat PROVE j \in x \/ j \in y <=> j \in z
  <2>1. j \in x <=> j + o \in Smear(w, d)
    BY <1>0, <1>x, ShrBits
  <2>2. j \in y <=> j + k \in x
    BY <1>1, <1>y, ShrBits
  <2>3. j + k \in x <=> (j + k) + o \in Smear(w, d)
    BY <1>0, <1>x, ShrBits
  <2>4. j \in z <=> j + o \in Smear(w, d + k)
    BY <1>0, <1>z, ShrBits
  <2>a. PICK a \in Nat : a = j + o
    OBVIOUS
  <2>5. (j + k) + o = a + k
    BY <2>a
  <2>6. ASSUME a \in Smear(w, d) PROVE a \in Smear(w, d + k)
    <3>1. a \in Bit /\ \E i \in a..(a + d) : i \in w
      BY <2>6 DEF Smear
    <3>2. PICK i \in a..(a + d) : i \in w
      BY <3>1
    <3>3. i \in a..(a + (d + k))
      BY <2>a, <3>2
    <3> QED BY <3>1, <3>2, <3>3 DEF Smear
  <2>7. ASSUME a + k \in Smear(w, d) PROVE a \in Smear(w, d + k)
    <3>1. a + k \in Bit /\ \E i \in (a + k)..(a + k + d) : i \in w
      BY <2>7 DEF Smear
    <3>2. PICK i \in (a + k)..(a + k + d) : i \in w
      BY <3>1
    <3>3. i \in a..(a + (d + k)) /\ a \in Bit
      BY <1>0, <2>a, <3>1, <3>2 DEF Bit
    <3> QED BY <3>2, <3>3 DEF Smear
  <2>8. ASSUME a \in Smear(w, d + k) PROVE a \in Smear(w, d) \/ a + k \in Smear(w, d)
    <3>1. a \in Bit /\ \E i \in a..(a + (d + k)) : i \in w
      BY <2>8 DEF Smear
    <3>2. PICK i \in a..(a + (d + k)) : i \in w
      BY <3>1
    <3>3. CASE i <= a + d
      <4>1. i \in a..(a + d)
        BY <2>a, <3>2, <3>3
      <4> QED BY <3>1, <3>2, <4>1 DEF Smear
    <3>4. CASE ~(i <= a + d)
      <4>1. i \in 0..(W - 1)
        BY <3>2 DEF Bit
      <4>2. i \in (a + k)..(a + k + d) /\ a + k \in Bit
        BY <1>0, <2>a, <3>2, <3>4, <4>1 DEF Bit
      <4> QED BY <3>2, <4>2 DEF Smear
    <3> QED BY <3>3, <3>4
  <2> QED BY <2>1, <2>2, <2>3, <2>4, <2>5, <2>6, <2>7, <2>8, <2>a
<1>3. x \cup y = z
  BY <1>0, <1>1, <1>2
<1> QED BY <1>3, <1>x, <1>y, <1>z

\* Without zeros below its highest 1, every bit below a 1 is 1.
LEMMA AtBottom ==
  ASSUME NEW x \in SUBSET Bit, OnesAtBottom(x), NEW h \in x, NEW z \in Nat, z <= h
  PROVE  z \in x
<1>0. W \in Nat /\ IsFiniteSet(Bit)
  BY Bases, FS_Interval DEF Bit
<1>1. IsFiniteSet(x)
  BY <1>0, FS_Subset
<1>2. PICK c \in Nat : c = Cardinality(x)
  BY <1>1, FS_CardinalityType
<1>3. x = 0..(c - 1)
  BY <1>2 DEF OnesAtBottom
<1>4. h \in 0..(c - 1)
  BY <1>3
<1>5. z \in 0..(c - 1)
  BY <1>2, <1>4
<1> QED BY <1>3, <1>5

\* Otherwise a 0 lies below a 1.
LEMMA NotAtBottom ==
  ASSUME NEW x \in SUBSET Bit, ~OnesAtBottom(x)
  PROVE  \E z \in Nat, h \in x : z < h /\ z \notin x
<1> SUFFICES ASSUME \A h \in x, z \in Nat : z < h => z \in x PROVE FALSE
  OBVIOUS
<1>0. W \in Nat /\ x \subseteq Nat /\ \A y \in x : y <= W
  BY Bases DEF Bit
<1>1. CASE x = {}
  <2>1. Cardinality(x) = 0
    BY <1>1, FS_EmptySet
  <2>2. x = 0..(0 - 1)
    BY <1>1
  <2> QED BY <2>1, <2>2 DEF OnesAtBottom
<1>2. CASE x # {}
  <2>1. PICK h : h = Max(x)
    OBVIOUS
  <2>2. h \in x /\ \A y \in x : y <= h
    BY <1>0, <1>2, <2>1, MaxOfNaturals
  <2>3. h \in Nat
    BY <1>0, <2>2
  <2>4. x = 0..h
    <3>1. \A y \in x : y \in 0..h
      BY <1>0, <2>2, <2>3
    <3>2. \A y \in 0..h : y \in x
      <4> SUFFICES ASSUME NEW y \in 0..h PROVE y \in x
        OBVIOUS
      <4>1. y \in Nat /\ (y = h \/ y < h)
        BY <2>3
      <4> QED BY <2>2, <4>1
    <3> QED BY <3>1, <3>2
  <2>5. Cardinality(0..h) = h + 1
    <3>1. Cardinality(0..h) = IF 0 > h THEN 0 ELSE h - 0 + 1
      BY <2>3, FS_Interval
    <3> QED BY <2>3, <3>1
  <2>6. Cardinality(x) = h + 1
    BY <2>4, <2>5
  <2>7. (h + 1) - 1 = h
    BY <2>3
  <2>8. x = 0..(Cardinality(x) - 1)
    BY <2>4, <2>6, <2>7
  <2> QED BY <2>8 DEF OnesAtBottom
<1> QED BY <1>1, <1>2

\* When no zeros are left below the highest 1, no run was longer than m.
LEMMA NothingLonger ==
  ASSUME NEW w \in SUBSET Bit, NEW d \in Nat, NEW m \in Nat, d <= m, NEW o \in Nat,
         OnesAtBottom(Shr(Smear(w, d), o))
  PROVE  ShortFrom(w, o, m)
<1> SUFFICES ASSUME NEW q \in Nat, NEW L \in Nat, o <= q, Zeros(w, q, L), NEW h \in w, q + L <= h,
                    ~(L <= m)
             PROVE  FALSE
  BY DEF ShortFrom
<1>0. W \in Nat /\ Bit \subseteq Nat /\ Smear(w, d) \in SUBSET Bit /\ h \in Bit /\ h \in Nat
  BY Bases DEF Bit, Smear
<1>x. PICK x : x = Shr(Smear(w, d), o)
  OBVIOUS
<1>1. x \in SUBSET Bit /\ OnesAtBottom(x)
  BY <1>0, <1>x, ShrWord
<1>2. q \notin Smear(w, d)
  <2> SUFFICES ASSUME q \in Smear(w, d) PROVE FALSE
    OBVIOUS
  <2>1. PICK i \in q..(q + d) : i \in w
    BY DEF Smear
  <2>2. i \in Nat /\ q <= i /\ i < q + L
    BY <2>1
  <2> QED BY <2>1, <2>2 DEF Zeros
<1>3. h \in Smear(w, d)
  <2>1. h \in h..(h + d)
    BY <1>0
  <2> QED BY <1>0, <2>1 DEF Smear
<1>4. PICK y \in Nat : y = q - o
  OBVIOUS
<1>5. PICK g \in Nat : g = h - o
  BY <1>0
<1>6. y + o = q /\ g + o = h /\ y <= g
  BY <1>0, <1>4, <1>5
<1>7. y \notin x /\ g \in x
  BY <1>0, <1>2, <1>3, <1>6, <1>x, ShrBits
<1>8. y \in x
  BY <1>1, <1>6, <1>7, AtBottom
<1> QED BY <1>7, <1>8

\* The first N turns of ShrinkZeros.
ZeroesTo(x, p, k, N, g) ==
  [i \in 0..N |-> IF i = 0 THEN [x |-> x, p |-> p, k |-> k]
                  ELSE ZerosStep(g[i - 1])]

\* They exist.
LEMMA ZeroesExist ==
  ASSUME NEW x, NEW p, NEW k, NEW N \in Nat
  PROVE  \E g : g = ZeroesTo(x, p, k, N, g)
<1> DEFINE Missing == {m \in 0..N : ~ \E g : g = ZeroesTo(x, p, k, m, g)}
<1>0. N \in 0..N
  OBVIOUS
<1> SUFFICES ASSUME Missing # {} PROVE FALSE
  BY <1>0
<1>1. Missing \subseteq Nat
  OBVIOUS
<1>2. PICK u \in Missing : \A y \in Missing : u <= y
  BY <1>1, LeastNatural
<1>3. CASE u = 0
  <2> DEFINE g == [j \in 0..0 |-> [x |-> x, p |-> p, k |-> k]]
  <2>1. g = ZeroesTo(x, p, k, 0, g)
    BY DEF ZeroesTo
  <2> QED BY <1>2, <1>3, <2>1
<1>4. CASE u # 0
  <2>1. u - 1 \in 0..N /\ u \in 0..N /\ ~ (u <= u - 1)
    BY <1>4
  <2>2. PICK f : f = ZeroesTo(x, p, k, u - 1, f)
    BY <1>2, <2>1
  <2> DEFINE g == [j \in 0..u |-> IF j = u THEN ZerosStep(f[u - 1]) ELSE f[j]]
  <2>3. ASSUME NEW j \in 0..u
        PROVE  g[j] = IF j = 0 THEN [x |-> x, p |-> p, k |-> k]
                      ELSE ZerosStep(g[j - 1])
    <3>1. CASE j = 0
      <4>1. f[0] = [x |-> x, p |-> p, k |-> k]
        BY <2>1, <2>2 DEF ZeroesTo
      <4> QED BY <1>4, <3>1, <4>1
    <3>2. CASE j = u
      <4>1. g[j - 1] = f[u - 1]
        BY <2>1, <3>2
      <4> QED BY <1>4, <3>2, <4>1
    <3>3. CASE j # 0 /\ j # u
      <4>1. j \in 0..(u - 1) /\ j - 1 \in 0..u /\ j - 1 # u
        BY <2>1, <3>3
      <4>2. f[j] = ZerosStep(f[j - 1])
        BY <2>2, <3>3, <4>1 DEF ZeroesTo
      <4>3. g[j] = f[j] /\ g[j - 1] = f[j - 1]
        BY <3>3, <4>1
      <4> QED BY <3>3, <4>2, <4>3
    <3> QED BY <3>1, <3>2, <3>3
  <2>4. g = ZeroesTo(x, p, k, u, g)
    BY <2>3 DEF ZeroesTo
  <2> QED BY <1>2, <2>4
<1> QED BY <1>3, <1>4

\* ShrinkZeros is what the last of them leaves.
LEMMA ShrinkZerosIs ==
  ASSUME NEW x, NEW p \in Nat, NEW k
  PROVE  \E g : g = ZeroesTo(x, p, k, p, g) /\ ShrinkZeros(x, p, k) = g[p]
<1>1. \E g : g = ZeroesTo(x, p, k, p, g)
  BY ZeroesExist
<1>2. PICK g : g = CHOOSE h : h = ZeroesTo(x, p, k, p, h)
  OBVIOUS
<1>3. g = ZeroesTo(x, p, k, p, g)
  BY <1>1, <1>2
<1>4. ShrinkZeros(x, p, k) = g[p]
  BY <1>2 DEF ShrinkZeros, ZeroesTo
<1> HIDE <1>2
<1> QED BY <1>3, <1>4

\* Before every turn, with all runs to be shortened by m: they have been
\* shortened by m - p, some are left, and k is no more than m - p + 1; or none is
\* left, and no run was longer than m.
Zeroing(w, o, m, n, s) ==
  \/ s.x = {} /\ s.p = 0 /\ ShortFrom(w, o, m)
  \/ /\ s.p \in Nat /\ s.p <= m /\ s.p <= n
     /\ s.k \in Nat /\ 1 <= s.k /\ s.k <= m - s.p + 1
     /\ s.x = Shr(Smear(w, m - s.p), o) /\ ~OnesAtBottom(s.x)

\* A turn keeps it so; with n turns left, p is n at most.
LEMMA ZerosStepSound ==
  ASSUME NEW w \in SUBSET Bit, NEW o \in Nat, NEW m \in Nat, NEW n \in Nat, n > 0,
         NEW s, Zeroing(w, o, m, n, s)
  PROVE  Zeroing(w, o, m, n - 1, ZerosStep(s))
<1>1. CASE s.p = 0
  <2>1. ZerosStep(s) = s
    BY <1>1 DEF ZerosStep
  <2>2. s.p <= n - 1
    BY <1>1
  <2> QED BY <2>1, <2>2 DEF Zeroing
<1>2. CASE s.p # 0
  <2>p. PICK p \in Nat : p = s.p /\ p <= m /\ p <= n /\ p > 0
    BY <1>2 DEF Zeroing
  <2>k. PICK k \in Nat : k = s.k /\ 1 <= k /\ k <= m - p + 1
    BY <1>2, <2>p DEF Zeroing
  <2>d. PICK d \in Nat : d = m - p
    BY <2>p
  <2>x. s.x = Shr(Smear(w, d), o)
    BY <1>2, <2>p, <2>d DEF Zeroing
  <2>t. PICK t \in Nat : t = (IF p <= k THEN p ELSE k) /\ 1 <= t /\ t <= d + 1 /\ t <= p
    BY <2>p, <2>k, <2>d
  <2>y. PICK y : y = s.x \cup Shr(s.x, t)
    OBVIOUS
  <2>1. y = Shr(Smear(w, d + t), o)
    BY <2>x, <2>t, <2>y, SmearMore
  <2>2. d + t \in Nat /\ d + t <= m
    BY <2>p, <2>d, <2>t
  <2>r. PICK r : r = ZerosStep(s)
    OBVIOUS
  <2>3. CASE OnesAtBottom(y)
    <3>1. r = [x |-> {}, p |-> 0, k |-> s.k]
      BY <1>2, <2>3, <2>p, <2>k, <2>t, <2>y, <2>r DEF ZerosStep
    <3>2. ShortFrom(w, o, m)
      BY <2>1, <2>2, <2>3, NothingLonger
    <3>3. r.x = {} /\ r.p = 0
      BY <3>1
    <3> QED BY <2>r, <3>2, <3>3 DEF Zeroing
  <2>4. CASE ~OnesAtBottom(y) /\ p <= k
    <3>1. r = [x |-> y, p |-> 0, k |-> k]
      BY <1>2, <2>4, <2>p, <2>k, <2>t, <2>y, <2>r DEF ZerosStep
    <3>2. r.x = y /\ r.p = 0 /\ r.k = k
      BY <3>1
    <3>3. d + t = m - 0 /\ 0 <= m /\ 0 <= n - 1 /\ k <= m - 0 + 1
      BY <2>4, <2>p, <2>k, <2>d, <2>t
    <3>4. y = Shr(Smear(w, m - 0), o)
      BY <2>1, <3>3
    <3>5. Zeroing(w, o, m, n - 1, r)
      BY <2>4, <2>k, <3>2, <3>3, <3>4 DEF Zeroing
    <3> QED BY <2>r, <3>5
  <2>5. CASE ~OnesAtBottom(y) /\ ~(p <= k)
    <3>1. r = [x |-> y, p |-> p - k, k |-> 2 * k]
      BY <1>2, <2>5, <2>p, <2>k, <2>t, <2>y, <2>r DEF ZerosStep
    <3>2. r.x = y /\ r.p = p - k /\ r.k = 2 * k
      BY <3>1
    <3>3. /\ d + t = m - (p - k) /\ p - k \in Nat /\ p - k <= m /\ p - k <= n - 1
          /\ 2 * k \in Nat /\ 1 <= 2 * k /\ 2 * k <= m - (p - k) + 1
      BY <2>5, <2>p, <2>k, <2>d, <2>t
    <3>4. y = Shr(Smear(w, m - (p - k)), o)
      BY <2>1, <3>3
    <3>5. Zeroing(w, o, m, n - 1, r)
      BY <2>5, <3>2, <3>3, <3>4 DEF Zeroing
    <3> QED BY <2>r, <3>5
  <2> QED BY <2>3, <2>4, <2>5
<1> QED BY <1>1, <1>2

\* What ShrinkZeros leaves of a word whose runs have been shortened by m - p.
LEMMA ShrinkZerosSound ==
  ASSUME NEW w \in SUBSET Bit, NEW o \in Nat, NEW m \in Nat, NEW p \in Nat, p <= m,
         NEW k \in Nat, 1 <= k, k <= m - p + 1,
         NEW x, x = Shr(Smear(w, m - p), o), ~OnesAtBottom(x)
  PROVE  Zeroing(w, o, m, 0, ShrinkZeros(x, p, k))
<1>1. PICK g : g = ZeroesTo(x, p, k, p, g) /\ ShrinkZeros(x, p, k) = g[p]
  BY ShrinkZerosIs
<1>2. Zeroing(w, o, m, p - 0, g[0])
  <2>1. g[0] = [x |-> x, p |-> p, k |-> k]
    BY <1>1 DEF ZeroesTo
  <2>2. g[0].x = x /\ g[0].p = p /\ g[0].k = k /\ p <= p - 0
    BY <2>1
  <2> QED BY <2>2 DEF Zeroing
<1>3. ASSUME NEW i \in 0..(p - 1), Zeroing(w, o, m, p - i, g[i])
      PROVE  Zeroing(w, o, m, p - (i + 1), g[i + 1])
  <2>1. i + 1 \in 0..p /\ i + 1 # 0 /\ (i + 1) - 1 = i /\ p - (i + 1) = (p - i) - 1
    OBVIOUS
  <2>2. g[i + 1] = ZerosStep(g[(i + 1) - 1])
    BY <1>1, <2>1 DEF ZeroesTo
  <2>3. g[i + 1] = ZerosStep(g[i])
    BY <2>1, <2>2
  <2>4. PICK n \in Nat : n = p - i /\ n > 0
    OBVIOUS
  <2>5. PICK s : s = g[i]
    OBVIOUS
  <2>6. Zeroing(w, o, m, n, s)
    BY <1>3, <2>4, <2>5
  <2>7. Zeroing(w, o, m, n - 1, ZerosStep(s))
    BY <2>4, <2>6, ZerosStepSound
  <2> QED BY <2>1, <2>3, <2>4, <2>5, <2>7
<1>4. Zeroing(w, o, m, p - p, g[p])
  <2> DEFINE Bad == {i \in 0..p : ~Zeroing(w, o, m, p - i, g[i])}
  <2>0. p \in 0..p
    OBVIOUS
  <2> SUFFICES ASSUME Bad # {} PROVE FALSE
    BY <2>0
  <2>1. Bad \subseteq Nat
    OBVIOUS
  <2>2. PICK u \in Bad : \A y \in Bad : u <= y
    BY <2>1, LeastNatural
  <2>3. u # 0 /\ u \in 0..p
    BY <1>2, <2>2
  <2>4. PICK i \in 0..(p - 1) : i \in 0..p /\ ~(u <= i) /\ i + 1 = u
    <3>1. u - 1 \in 0..(p - 1) /\ u - 1 \in 0..p /\ ~(u <= u - 1) /\ (u - 1) + 1 = u
      BY <2>3
    <3> QED BY <3>1
  <2>5. Zeroing(w, o, m, p - i, g[i])
    BY <2>2, <2>4
  <2>6. Zeroing(w, o, m, p - (i + 1), g[i + 1])
    BY <1>3, <2>4, <2>5
  <2> QED BY <2>2, <2>4, <2>6
<1>5. p - p = 0
  OBVIOUS
<1> QED BY <1>1, <1>4, <1>5

\* Word w has a run of m zeros.
HasZeros(w, m) == \E q \in Nat : q + m <= W /\ Zeros(w, q, m)

\* x is s shifted by o; it has a ones at the bottom, and z zeros above them.
Lowest(s, o, x, a, y, z) ==
  /\ x = Shr(s, o) /\ ~OnesAtBottom(x)
  /\ a = TrailingZeros64(Not(x)) /\ y = Shr(x, a) /\ z = TrailingZeros64(y)

\* The lowest run of zeros, in terms of s.
LEMMA LowestRun ==
  ASSUME NEW s \in SUBSET Bit, NEW o \in Nat, NEW x, NEW a, NEW y, NEW z, Lowest(s, o, x, a, y, z)
  PROVE  /\ a \in Nat /\ z \in Nat /\ z >= 1
         /\ Shr(y, z) = Shr(s, o + a + z)
         /\ \A t \in Nat : o <= t /\ t < o + a => t \in s
         /\ \A t \in Nat : o + a <= t /\ t < o + a + z => t \notin s
         /\ o + a + z \in s
<1>d. /\ x = Shr(s, o) /\ ~OnesAtBottom(x)
      /\ a = TrailingZeros64(Not(x)) /\ y = Shr(x, a) /\ z = TrailingZeros64(y)
  BY DEF Lowest
<1>0. W \in Nat /\ Bit \subseteq Nat /\ x \in SUBSET Bit /\ Not(x) \in SUBSET Bit
  BY <1>d, Bases, ShrWord DEF Bit, Not
<1>1. PICK e \in Nat, h \in x : e < h /\ e \notin x
  BY <1>d, <1>0, NotAtBottom
<1>2. h \in 0..(W - 1)
  BY <1>0, <1>1 DEF Bit
<1>3. e \in Not(x)
  BY <1>0, <1>1, <1>2 DEF Not, Bit
<1>4. a \in 0..W /\ a < W /\ a \in Not(x) /\ \A j \in Bit : j < a => j \notin Not(x)
  BY <1>d, <1>0, <1>3, TrailingZerosIs
<1>5. a \in Nat /\ a \notin x /\ \A j \in Bit : j < a => j \in x
  BY <1>4 DEF Not
<1>6. a <= e
  <2>1. e \in Bit
    BY <1>3 DEF Not
  <2> QED BY <1>1, <1>3, <1>4, <2>1
<1>7. y = Shr(s, o + a) /\ y \in SUBSET Bit
  BY <1>d, <1>0, <1>5, ShrTwice, ShrWord
<1>8. PICK f \in Nat : f = h - a /\ f + a = h
  BY <1>1, <1>2, <1>5, <1>6
<1>9. f \in y
  <2>1. f + a \in x
    BY <1>1, <1>8
  <2> QED BY <1>d, <1>0, <1>5, <2>1, ShrBits
<1>10. 0 \notin y
  <2>1. 0 + a = a /\ 0 \in Nat
    BY <1>5
  <2> QED BY <1>d, <1>0, <1>5, <2>1, ShrBits
<1>11. z \in 0..W /\ z < W /\ z \in y /\ \A j \in Bit : j < z => j \notin y
  BY <1>d, <1>7, <1>9, TrailingZerosIs
<1>12. z \in Nat /\ z # 0 /\ z >= 1
  BY <1>10, <1>11
<1>13. Shr(y, z) = Shr(s, o + a + z)
  <2>1. o + a \in Nat
    BY <1>5
  <2> QED BY <1>d, <1>7, <1>12, <2>1, ShrTwice
<1>14. ASSUME NEW t \in Nat, o <= t, t < o + a PROVE t \in s
  <2>1. PICK j \in Nat : j = t - o /\ j + o = t
    BY <1>14
  <2>2. j \in Bit /\ j < a
    BY <1>0, <1>4, <1>5, <1>14, <2>1 DEF Bit
  <2>3. j \in x
    BY <1>5, <2>2
  <2> QED BY <1>d, <2>1, <2>3, ShrBits
<1>15. ASSUME NEW t \in Nat, o + a <= t, t < o + a + z PROVE t \notin s
  <2>1. PICK j \in Nat : j = t - (o + a) /\ j + (o + a) = t
    BY <1>5, <1>15
  <2>2. j \in Bit /\ j < z
    BY <1>0, <1>5, <1>11, <1>15, <2>1 DEF Bit
  <2>3. j \notin y
    BY <1>11, <2>2
  <2>4. o + a \in Nat
    BY <1>5
  <2> QED BY <1>7, <2>1, <2>3, <2>4, ShrBits
<1>16. o + a + z \in s
  <2>1. o + a \in Nat /\ z + (o + a) = o + a + z
    BY <1>5, <1>12
  <2> QED BY <1>7, <1>11, <1>12, <2>1, ShrBits
<1> QED BY <1>5, <1>12, <1>13, <1>14, <1>15, <1>16

\* That run was the longest so far: m + z zeros, before the shortening by m.
LEMMA LongerRun ==
  ASSUME NEW w \in SUBSET Bit, NEW m \in Nat, NEW o \in Nat, NEW a \in Nat, NEW z \in Nat, z >= 1,
         \A t \in Nat : o <= t /\ t < o + a => t \in Smear(w, m),
         \A t \in Nat : o + a <= t /\ t < o + a + z => t \notin Smear(w, m),
         o + a + z \in Smear(w, m),
         ShortBelow(w, o, m)
  PROVE  HasZeros(w, m + z) /\ ShortBelow(w, o + a + z, m + z)
<1>0. W \in Nat /\ Bit = 0..(W - 1)
  BY Bases DEF Bit
<1>q. PICK q \in Nat : q = o + a
  OBVIOUS
<1>e. PICK e \in Nat : e = q + z /\ e = o + a + z
  BY <1>q
<1>1. PICK h \in e..(e + m) : h \in w
  <2>1. e \in Smear(w, m)
    BY <1>e
  <2> QED BY <2>1 DEF Smear
<1>2. h \in Nat /\ h <= W - 1 /\ e <= h
  BY <1>0, <1>1, <1>e
<1>3. Zeros(w, q, m + z)
  <2> SUFFICES ASSUME NEW i \in Nat, q <= i, i < q + (m + z), i \in w PROVE FALSE
    BY DEF Zeros
  <2>t. PICK t \in Nat : t = (IF i < e THEN i ELSE e - 1) /\ q <= t /\ t < e /\ t <= i /\ i <= t + m
    <3>1. e - 1 \in Nat /\ q <= e - 1
      BY <1>e
    <3> QED BY <1>e, <3>1
  <2>1. t \notin Smear(w, m)
    BY <1>e, <1>q, <2>t
  <2>2. t \in Bit
    BY <1>0, <1>2, <2>t
  <2>3. i \in t..(t + m)
    BY <2>t
  <2> QED BY <2>1, <2>2, <2>3 DEF Smear
<1>4. q + (m + z) <= W
  <2>1. ~(h < q + (m + z))
    BY <1>1, <1>2, <1>3, <1>e DEF Zeros
  <2> QED BY <1>0, <1>2, <2>1
<1>5. HasZeros(w, m + z)
  BY <1>3, <1>4 DEF HasZeros
<1>6. ASSUME NEW r \in Nat, NEW L \in Nat, r < e, Zeros(w, r, L), NEW g \in w, r + L <= g
      PROVE  L <= m + z
  <2>1. CASE r < o
    <3>1. L <= m
      BY <1>6, <2>1 DEF ShortBelow
    <3> QED BY <3>1
  <2>2. CASE o <= r /\ r < q
    <3>1. r \in Smear(w, m)
      BY <1>q, <2>2
    <3>2. PICK i \in r..(r + m) : i \in w
      BY <3>1 DEF Smear
    <3>3. i \in Nat /\ r <= i /\ i <= r + m
      BY <3>2
    <3>4. ~(i < r + L)
      BY <1>6, <3>2, <3>3 DEF Zeros
    <3> QED BY <3>3, <3>4
  <2>3. CASE q <= r
    <3>1. h <= e + m
      BY <1>1, <1>e
    <3>2. ~(h < r + L)
      BY <1>1, <1>2, <1>6 DEF Zeros
    <3> QED BY <1>2, <1>6, <1>e, <2>3, <3>1, <3>2
  <2> QED BY <1>q, <2>1, <2>2, <2>3
<1>7. ShortBelow(w, e, m + z)
  BY <1>6 DEF ShortBelow
<1> QED BY <1>5, <1>7, <1>e

\* The word is searched from bit o on: what is left of it has had its runs
\* shortened by max - p.
Turning(w, o, s) ==
  /\ s.p \in Nat /\ s.p <= s.max
  /\ s.k \in Nat /\ 1 <= s.k /\ s.k <= s.max - s.p + 1
  /\ s.x = Shr(Smear(w, s.max - s.p), o) /\ ~OnesAtBottom(s.x)
  /\ ShortBelow(w, o, s.max)

\* After i turns: max is that of before, m, or the length of a run; it has grown
\* by every turn, or nothing longer is left.
Looking(w, m, i, s) ==
  /\ s.max \in Nat /\ s.max >= m /\ (s.max = m \/ HasZeros(w, s.max))
  /\ s.x = {} => ShortFrom(w, 0, s.max)
  /\ s.x # {} => /\ \E o \in Nat : Turning(w, o, s)
                 /\ s.max >= i /\ (i = 0 \/ HasZeros(w, s.max))

\* What is short below o and from o on is short everywhere.
LEMMA ShortAll ==
  ASSUME NEW w, NEW o \in Nat, NEW m \in Nat, NEW n \in Nat, n <= m,
         ShortBelow(w, o, n), ShortFrom(w, o, m)
  PROVE  ShortFrom(w, 0, m)
<1> SUFFICES ASSUME NEW q \in Nat, NEW L \in Nat, Zeros(w, q, L), \E h \in w : q + L <= h
             PROVE  L <= m
  BY DEF ShortFrom
<1>1. CASE q < o
  <2>1. L <= n
    BY <1>1 DEF ShortBelow
  <2> QED BY <2>1
<1>2. CASE o <= q
  BY <1>2 DEF ShortFrom
<1> QED BY <1>1, <1>2

\* The state of the search inside a word is a record of these fields.
IsInside(s) == \E x, p, k, max : s = [x |-> x, p |-> p, k |-> k, max |-> max]

\* A turn keeps it so.
LEMMA InsideStepSound ==
  ASSUME NEW w \in SUBSET Bit, NEW m \in Nat, NEW i \in Nat, NEW s, IsInside(s), Looking(w, m, i, s)
  PROVE  Looking(w, m, i + 1, InsideStep(s)) /\ IsInside(InsideStep(s))
<1>v. PICK v : v = InsideStep(s)
  OBVIOUS
<1> SUFFICES Looking(w, m, i + 1, v) /\ IsInside(v)
  BY <1>v
<1>1. CASE s.x = {}
  <2>1. v = s
    BY <1>1, <1>v DEF InsideStep
  <2>2. Looking(w, m, i + 1, s)
    BY <1>1 DEF Looking
  <2> QED BY <2>1, <2>2
<1>2. CASE s.x # {}
  <2>s. PICK sx, sp, sk, sm : s = [x |-> sx, p |-> sp, k |-> sk, max |-> sm]
    BY DEF IsInside
  <2>f. s.x = sx /\ s.p = sp /\ s.k = sk /\ s.max = sm
    BY <2>s
  <2>1. sm \in Nat /\ sm >= m /\ sm >= i
    BY <1>2, <2>f DEF Looking
  <2>2. PICK o \in Nat : Turning(w, o, s)
    BY <1>2 DEF Looking
  <2>3. /\ sp \in Nat /\ sp <= sm /\ sk \in Nat /\ 1 <= sk /\ sk <= sm - sp + 1
        /\ sx = Shr(Smear(w, sm - sp), o) /\ ~OnesAtBottom(sx) /\ ShortBelow(w, o, sm)
    BY <2>2, <2>f DEF Turning
  <2>r. PICK r : r = ShrinkZeros(sx, sp, sk)
    OBVIOUS
  <2>4. Zeroing(w, o, sm, 0, r)
    BY <2>1, <2>3, <2>r, ShrinkZerosSound
  <2>5. CASE r.x = {}
    <3>1. v = [x |-> {}, p |-> sp, k |-> sk, max |-> sm]
      BY <1>2, <1>v, <2>5, <2>r, <2>s, <2>f DEF InsideStep
    <3>2. ShortFrom(w, o, sm)
      <4>1. CASE r.x = {} /\ r.p = 0 /\ ShortFrom(w, o, sm)
        BY <4>1
      <4>2. CASE /\ r.p \in Nat /\ r.p <= 0
                 /\ r.x = Shr(Smear(w, sm - r.p), o) /\ ~OnesAtBottom(r.x)
        <5>1. {} \in SUBSET Bit
          OBVIOUS
        <5>2. \E e \in Nat, h \in {} : e < h /\ e \notin {}
          BY <2>5, <4>2, <5>1, NotAtBottom
        <5> QED BY <5>2
      <4> QED BY <2>4, <4>1, <4>2 DEF Zeroing
    <3>3. ShortFrom(w, 0, sm)
      BY <2>1, <2>3, <3>2, ShortAll
    <3>4. v.x = {} /\ v.max = sm
      BY <3>1
    <3>5. sm = m \/ HasZeros(w, sm)
      BY <2>f DEF Looking
    <3>6. Looking(w, m, i + 1, v)
      BY <2>1, <3>3, <3>4, <3>5 DEF Looking
    <3> QED BY <3>1, <3>6 DEF IsInside
  <2>6. CASE r.x # {}
    <3>1. /\ r.p \in Nat /\ r.p <= 0 /\ r.k \in Nat /\ 1 <= r.k /\ r.k <= sm - r.p + 1
          /\ r.x = Shr(Smear(w, sm - r.p), o) /\ ~OnesAtBottom(r.x)
      BY <2>4, <2>6 DEF Zeroing
    <3>2. r.p = 0 /\ sm - r.p = sm
      BY <2>1, <3>1
    <3>S. PICK S \in SUBSET Bit : S = Smear(w, sm)
      BY DEF Smear
    <3>x. PICK x : x = r.x /\ x = Shr(S, o) /\ ~OnesAtBottom(x)
      BY <3>1, <3>2, <3>S
    <3>a. PICK a : a = TrailingZeros64(Not(x))
      OBVIOUS
    <3>y. PICK y : y = Shr(x, a)
      OBVIOUS
    <3>z. PICK z : z = TrailingZeros64(y)
      OBVIOUS
    <3>3. /\ a \in Nat /\ z \in Nat /\ z >= 1
          /\ Shr(y, z) = Shr(S, o + a + z)
          /\ \A t \in Nat : o <= t /\ t < o + a => t \in S
          /\ \A t \in Nat : o + a <= t /\ t < o + a + z => t \notin S
          /\ o + a + z \in S
      <4>1. Lowest(S, o, x, a, y, z)
        BY <3>x, <3>a, <3>y, <3>z DEF Lowest
      <4> QED BY <4>1, LowestRun
    <3>4. HasZeros(w, sm + z) /\ ShortBelow(w, o + a + z, sm + z)
      BY <2>1, <2>3, <3>3, <3>S, LongerRun
    <3>u. PICK u : u = Shr(y, z)
      OBVIOUS
    <3>5. v = [x |-> IF OnesAtBottom(u) THEN {} ELSE u, p |-> z, k |-> r.k, max |-> sm + z]
      BY <1>2, <1>v, <2>6, <2>r, <2>s, <2>f, <3>x, <3>a, <3>y, <3>z, <3>u DEF InsideStep
    <3>e. PICK e \in Nat : e = o + a + z
      BY <3>3
    <3>6. v.p = z /\ v.k = r.k /\ v.max = sm + z
      BY <3>5
    <3>7. sm + z \in Nat /\ sm + z >= m /\ sm + z >= i + 1 /\ (sm + z) - z = sm
      BY <2>1, <3>3
    <3>8. u = Shr(Smear(w, sm), e)
      BY <3>3, <3>S, <3>u, <3>e
    <3>9. CASE OnesAtBottom(u)
      <4>1. v.x = {}
        BY <3>5, <3>9
      <4>2. ShortFrom(w, e, sm + z)
        BY <2>1, <3>3, <3>7, <3>8, <3>9, NothingLonger
      <4>3. ShortFrom(w, 0, sm + z)
        BY <3>4, <3>7, <3>e, <4>2, ShortAll
      <4>4. Looking(w, m, i + 1, v)
        BY <3>4, <3>6, <3>7, <4>1, <4>3 DEF Looking
      <4> QED BY <3>5, <4>4 DEF IsInside
    <3>10. CASE ~OnesAtBottom(u)
      <4>1. v.x = u
        BY <3>5, <3>10
      <4>2. z <= sm + z /\ r.k <= (sm + z) - z + 1
        BY <2>1, <3>1, <3>2, <3>3, <3>7
      <4>3. u = Shr(Smear(w, (sm + z) - z), e)
        BY <3>7, <3>8
      <4>4. Turning(w, e, v)
        BY <3>1, <3>3, <3>4, <3>6, <3>10, <3>e, <4>1, <4>2, <4>3 DEF Turning
      <4>5. v.x # {}
        <5>1. \E b \in Nat, h \in u : b < h /\ b \notin u
          <6>1. u \in SUBSET Bit
            BY <3>8, <3>S, ShrWord
          <6> QED BY <3>10, <6>1, NotAtBottom
        <5> QED BY <4>1, <5>1
      <4>6. Looking(w, m, i + 1, v)
        BY <3>4, <3>6, <3>7, <4>4, <4>5 DEF Looking
      <4> QED BY <3>5, <4>6 DEF IsInside
    <3> QED BY <3>9, <3>10
  <2> QED BY <2>5, <2>6
<1> QED BY <1>1, <1>2

\* The first N turns of LongestInside.
InsidesTo(x, max, N, g) ==
  [i \in 0..N |-> IF i = 0 THEN [x |-> IF OnesAtBottom(x) THEN {} ELSE x, p |-> max, k |-> 1, max |-> max]
                  ELSE InsideStep(g[i - 1])]

\* They exist.
LEMMA InsidesExist ==
  ASSUME NEW x, NEW max, NEW N \in Nat
  PROVE  \E g : g = InsidesTo(x, max, N, g)
<1> DEFINE Missing == {m \in 0..N : ~ \E g : g = InsidesTo(x, max, m, g)}
<1>0. N \in 0..N
  OBVIOUS
<1> SUFFICES ASSUME Missing # {} PROVE FALSE
  BY <1>0
<1>1. Missing \subseteq Nat
  OBVIOUS
<1>2. PICK u \in Missing : \A y \in Missing : u <= y
  BY <1>1, LeastNatural
<1>3. CASE u = 0
  <2> DEFINE g == [j \in 0..0 |-> [x |-> IF OnesAtBottom(x) THEN {} ELSE x, p |-> max, k |-> 1, max |-> max]]
  <2>1. g = InsidesTo(x, max, 0, g)
    BY DEF InsidesTo
  <2> QED BY <1>2, <1>3, <2>1
<1>4. CASE u # 0
  <2>1. u - 1 \in 0..N /\ u \in 0..N /\ ~ (u <= u - 1)
    BY <1>4
  <2>2. PICK f : f = InsidesTo(x, max, u - 1, f)
    BY <1>2, <2>1
  <2> DEFINE g == [j \in 0..u |-> IF j = u THEN InsideStep(f[u - 1]) ELSE f[j]]
  <2>3. ASSUME NEW j \in 0..u
        PROVE  g[j] = IF j = 0 THEN [x |-> IF OnesAtBottom(x) THEN {} ELSE x, p |-> max, k |-> 1, max |-> max]
                      ELSE InsideStep(g[j - 1])
    <3>1. CASE j = 0
      <4>1. f[0] = [x |-> IF OnesAtBottom(x) THEN {} ELSE x, p |-> max, k |-> 1, max |-> max]
        BY <2>1, <2>2 DEF InsidesTo
      <4> QED BY <1>4, <3>1, <4>1
    <3>2. CASE j = u
      <4>1. g[j - 1] = f[u - 1]
        BY <2>1, <3>2
      <4> QED BY <1>4, <3>2, <4>1
    <3>3. CASE j # 0 /\ j # u
      <4>1. j \in 0..(u - 1) /\ j - 1 \in 0..u /\ j - 1 # u
        BY <2>1, <3>3
      <4>2. f[j] = InsideStep(f[j - 1])
        BY <2>2, <3>3, <4>1 DEF InsidesTo
      <4>3. g[j] = f[j] /\ g[j - 1] = f[j - 1]
        BY <3>3, <4>1
      <4> QED BY <3>3, <4>2, <4>3
    <3> QED BY <3>1, <3>2, <3>3
  <2>4. g = InsidesTo(x, max, u, g)
    BY <2>3 DEF InsidesTo
  <2> QED BY <1>2, <2>4
<1> QED BY <1>3, <1>4

\* LongestInside is what the last of them leaves.
LEMMA LongestInsideIs ==
  ASSUME NEW w, NEW max, NEW x, x = Shr(w, TrailingZeros64(w))
  PROVE  \E g : g = InsidesTo(x, max, W, g) /\ LongestInside(w, max) = g[W].max
<1>1. \E g : g = InsidesTo(x, max, W, g)
  BY Bases, InsidesExist
<1>2. PICK g : g = CHOOSE h : h = InsidesTo(x, max, W, h)
  OBVIOUS
<1>3. g = InsidesTo(x, max, W, g)
  BY <1>1, <1>2
<1>4. LongestInside(w, max) = g[W].max
  BY <1>2 DEF LongestInside, InsidesTo
<1> HIDE <1>2
<1> QED BY <1>3, <1>4

\* LongestInside gives the longest run of zeros of a word, if it is longer than
\* max and than those at both ends.
LEMMA LongestInsideSound ==
  ASSUME NEW w \in SUBSET Bit, w # {}, NEW m \in Nat,
         TrailingZeros64(w) <= m, LeadingZeros64(w) <= m, NEW r, r = LongestInside(w, m)
  PROVE  /\ r \in Nat /\ r >= m /\ (r = m \/ HasZeros(w, r))
         /\ \A q, L \in Nat : q + L <= W /\ Zeros(w, q, L) => L <= r
<1>0. W \in Nat /\ W > 0 /\ Bit = 0..(W - 1)
  BY Bases DEF Bit
<1>t. PICK t \in Nat : t = TrailingZeros64(w) /\ t <= m /\ t \in w
  <2>1. TrailingZeros64(w) \in 0..W /\ TrailingZeros64(w) \in w
    BY <1>0, TrailingZerosIs
  <2> QED BY <1>0, <2>1
<1>x. PICK x : x = Shr(w, TrailingZeros64(w)) /\ x = Shr(w, t)
  BY <1>t
<1>1. PICK g : g = InsidesTo(x, m, W, g) /\ r = g[W].max
  BY <1>x, LongestInsideIs
<1>2. Smear(w, m - m) = w
  <2>1. m - m = 0
    OBVIOUS
  <2>2. \A y \in Bit : y..(y + 0) = {y}
    BY <1>0
  <2>3. Smear(w, 0) = {y \in Bit : y \in w}
    BY <2>2 DEF Smear
  <2> QED BY <2>1, <2>3
<1>3. ShortBelow(w, t, m)
  <2> SUFFICES ASSUME NEW q \in Nat, NEW L \in Nat, q < t, Zeros(w, q, L) PROVE L <= m
    BY DEF ShortBelow
  <2>1. ~(t < q + L)
    BY <1>t DEF Zeros
  <2> QED BY <1>t, <2>1
<1> DEFINE Good(i) == Looking(w, m, i, g[i]) /\ IsInside(g[i])
<1>4. Good(0)
  <2>0. g[0] = [x |-> IF OnesAtBottom(x) THEN {} ELSE x, p |-> m, k |-> 1, max |-> m]
    BY <1>0, <1>1 DEF InsidesTo
  <2>i. IsInside(g[0])
    BY <2>0, Zenon DEF IsInside
  <2>1. g[0].p = m /\ g[0].k = 1 /\ g[0].max = m /\ IsInside(g[0])
    BY <2>0, <2>i
  <2>2. CASE OnesAtBottom(x)
    <3>1. g[0].x = {}
      BY <2>0, <2>2
    <3>2. OnesAtBottom(Shr(Smear(w, 0), t))
      <4>1. m - m = 0
        OBVIOUS
      <4> QED BY <1>2, <1>x, <2>2, <4>1
    <3>3. ShortFrom(w, t, m)
      BY <3>2, NothingLonger
    <3>4. ShortFrom(w, 0, m)
      BY <1>3, <3>3, ShortAll
    <3> QED BY <2>1, <3>1, <3>4 DEF Looking
  <2>3. CASE ~OnesAtBottom(x)
    <3>1. g[0].x = x
      BY <2>0, <2>3
    <3>2. x = Shr(Smear(w, m - m), t)
      BY <1>2, <1>x
    <3>3. Turning(w, t, g[0])
      BY <1>3, <2>1, <2>3, <3>1, <3>2 DEF Turning
    <3>4. x # {}
      <4>1. \E b \in Nat, h \in x : b < h /\ b \notin x
        <5>1. x \in SUBSET Bit
          BY <1>x, ShrWord
        <5> QED BY <2>3, <5>1, NotAtBottom
      <4> QED BY <4>1
    <3> QED BY <2>1, <3>1, <3>3, <3>4 DEF Looking
  <2> QED BY <2>2, <2>3
<1>5. ASSUME NEW i \in 0..(W - 1), Good(i) PROVE Good(i + 1)
  <2>1. i \in Nat /\ i + 1 \in 0..W /\ i + 1 # 0 /\ (i + 1) - 1 = i
    BY <1>0
  <2>2. g[i + 1] = InsideStep(g[(i + 1) - 1])
    BY <1>1, <2>1 DEF InsidesTo
  <2>3. PICK s : s = g[i]
    OBVIOUS
  <2>4. g[i + 1] = InsideStep(s)
    BY <2>1, <2>2, <2>3
  <2>5. Looking(w, m, i, s) /\ IsInside(s)
    BY <1>5, <2>3
  <2>6. Looking(w, m, i + 1, InsideStep(s)) /\ IsInside(InsideStep(s))
    BY <2>1, <2>5, InsideStepSound
  <2> QED BY <2>4, <2>6
<1>6. Good(W)
  <2> DEFINE Bad == {i \in 0..W : ~Good(i)}
  <2>0. W \in 0..W
    BY <1>0
  <2> HIDE DEF Good
  <2> SUFFICES ASSUME Bad # {} PROVE FALSE
    BY <2>0
  <2>1. Bad \subseteq Nat
    BY <1>0
  <2>2. PICK u \in Bad : \A y \in Bad : u <= y
    BY <2>1, LeastNatural
  <2>3. u # 0 /\ u \in 0..W
    BY <1>4, <2>2
  <2>4. PICK i \in 0..(W - 1) : i \in 0..W /\ ~(u <= i) /\ i + 1 = u
    <3>1. u - 1 \in 0..(W - 1) /\ u - 1 \in 0..W /\ ~(u <= u - 1) /\ (u - 1) + 1 = u
      BY <1>0, <2>3
    <3> QED BY <3>1
  <2>5. Good(i)
    BY <2>2, <2>4
  <2>6. Good(i + 1)
    BY <1>5, <2>4, <2>5
  <2> QED BY <2>2, <2>4, <2>6
<1>s. PICK s : s = g[W] /\ Looking(w, m, W, s) /\ r = s.max
  BY <1>1, <1>6
<1>7. r \in Nat /\ r >= m /\ (r = m \/ HasZeros(w, r))
  BY <1>s DEF Looking
<1>8. s.x = {}
  <2> SUFFICES ASSUME s.x # {} PROVE FALSE
    OBVIOUS
  <2>1. r >= W /\ HasZeros(w, r)
    BY <1>0, <1>s DEF Looking
  <2>2. PICK q \in Nat : q + r <= W /\ Zeros(w, q, r)
    BY <2>1 DEF HasZeros
  <2>3. t <= W - 1
    BY <1>0, <1>t
  <2>4. q <= t /\ t < q + r
    BY <1>0, <1>7, <1>t, <2>1, <2>2, <2>3
  <2> QED BY <1>t, <2>2, <2>4 DEF Zeros
<1>9. ShortFrom(w, 0, r)
  BY <1>8, <1>s DEF Looking
<1>10. ASSUME NEW q \in Nat, NEW L \in Nat, q + L <= W, Zeros(w, q, L) PROVE L <= r
  <2>l. PICK l \in Nat : l = LeadingZeros64(w) /\ l <= m /\ (W - 1) - l \in w /\ l < W
    <3>1. LeadingZeros64(w) \in 0..W /\ LeadingZeros64(w) < W /\ (W - 1) - LeadingZeros64(w) \in w
      BY LeadingZerosIs
    <3> QED BY <1>0, <3>1
  <2>h. PICK h \in Nat : h = (W - 1) - l /\ h \in w
    BY <1>0, <2>l
  <2>1. CASE q + L <= h
    BY <1>9, <1>10, <2>h, <2>1 DEF ShortFrom
  <2>2. CASE ~(q + L <= h)
    <3>1. ~(q <= h /\ h < q + L)
      BY <1>10, <2>h DEF Zeros
    <3>2. h < q
      BY <2>2, <3>1
    <3> QED BY <1>0, <1>7, <1>10, <2>l, <2>h, <3>2
  <2> QED BY <2>1, <2>2
<1> QED BY <1>7, <1>10

-----------------------------------------------------------------------------
(***************************************************************************)
(* summarize, across words.                                                *)
(***************************************************************************)
\* The L pages from q on are free.
Clear(b, q, L) == \A p \in Nat : q <= p /\ p < q + L => ~get(b, p)

\* Of the pages lo, ..., hi - 1: the s first are free and the next is not; the
\* e last; m in a row are free and no more.
StartIs(b, lo, hi, s) ==
  s \in Nat /\ lo + s <= hi /\ Clear(b, lo, s) /\ (lo + s < hi => get(b, lo + s))
EndIs(b, lo, hi, e) ==
  e \in Nat /\ lo + e <= hi /\ Clear(b, hi - e, e) /\ (lo + e < hi => get(b, hi - e - 1))
HasRun(b, lo, hi, m) == \E q \in Nat : lo <= q /\ q + m <= hi /\ Clear(b, q, m)
MaxIs(b, lo, hi, m) ==
  /\ m \in Nat /\ HasRun(b, lo, hi, m)
  /\ \A q, L \in Nat : lo <= q /\ q + L <= hi /\ Clear(b, q, L) => L <= m
Exact(b, lo, hi, s, m, e) == StartIs(b, lo, hi, s) /\ MaxIs(b, lo, hi, m) /\ EndIs(b, lo, hi, e)

\* The pages lie inside a word and touch none of its edges.
Inner(q, L) == \E k \in 0..(Words - 1) : B(k) < q /\ q + L < B(k) + W

\* A clear run ends below an allocated page or begins above it.
LEMMA ClearSide ==
  ASSUME NEW b, NEW q \in Nat, NEW L \in Nat, Clear(b, q, L), NEW p \in Nat, get(b, p)
  PROVE  q + L <= p \/ p < q
<1>1. ~(q <= p /\ p < q + L)
  BY DEF Clear
<1> QED BY <1>1

\* The larger of two.
LEMMA MaxOfTwo ==
  ASSUME NEW a \in Nat, NEW c \in Nat
  PROVE  /\ Max({a, c}) \in Nat /\ Max({a, c}) >= a /\ Max({a, c}) >= c
         /\ Max({a, c}) = a \/ Max({a, c}) = c
<1>1. {a, c} \subseteq Nat /\ {a, c} # {} /\ a + c \in Nat /\ \A y \in {a, c} : y <= a + c
  OBVIOUS
<1>2. PICK m : m = Max({a, c})
  OBVIOUS
<1>3. m \in {a, c} /\ \A y \in {a, c} : y <= m
  BY <1>1, <1>2, MaxOfNaturals
<1> QED BY <1>2, <1>3

\* Runs of a word are runs of pages.
LEMMA ZerosClear ==
  ASSUME NEW b \in Bitmap, NEW k \in 0..(Words - 1), NEW q \in Nat, NEW L \in Nat,
         q + L <= W, Zeros(b[k], q, L)
  PROVE  Clear(b, B(k) + q, L)
<1> SUFFICES ASSUME NEW p \in Nat, B(k) + q <= p, p < B(k) + q + L PROVE ~get(b, p)
  BY DEF Clear
<1>0. W \in Nat /\ B(k) \in Nat
  BY Bases
<1>1. PICK j \in Nat : j = p - B(k)
  BY <1>0
<1>2. j \in Bit /\ q <= j /\ j < q + L /\ p = B(k) + j
  BY <1>0, <1>1 DEF Bit
<1>3. j \notin b[k]
  BY <1>2 DEF Zeros
<1> QED BY <1>2, <1>3, BitOfPage

\* And runs of pages inside a word are runs of the word.
LEMMA ClearZeros ==
  ASSUME NEW b \in Bitmap, NEW k \in 0..(Words - 1), NEW q \in Nat, NEW L \in Nat,
         B(k) + q + L <= B(k) + W, Clear(b, B(k) + q, L)
  PROVE  Zeros(b[k], q, L)
<1> SUFFICES ASSUME NEW i \in Nat, q <= i, i < q + L PROVE i \notin b[k]
  BY DEF Zeros
<1>0. W \in Nat /\ B(k) \in Nat
  BY Bases
<1>1. i \in Bit /\ B(k) + i \in Nat /\ B(k) + q <= B(k) + i /\ B(k) + i < B(k) + q + L
  BY <1>0 DEF Bit
<1>2. ~get(b, B(k) + i)
  BY <1>1 DEF Clear
<1> QED BY <1>1, <1>2, BitOfPage

\* Words do not overlap.
LEMMA BasesApart ==
  ASSUME NEW i \in 0..(Words - 1), NEW k \in 0..(Words - 1)
  PROVE  B(i) = B(k) \/ B(i) + W <= B(k) \/ B(k) + W <= B(i)
<1>0. Words \in Nat /\ B(i + 1) = B(i) + W /\ B(k + 1) = B(k) + W
  BY Bases
<1>1. CASE i = k
  BY <1>1
<1>2. CASE i < k
  <2>1. i + 1 \in 0..Words /\ k \in 0..Words /\ i + 1 <= k
    BY <1>0, <1>2
  <2>2. B(i + 1) <= B(k)
    BY <2>1, BasesOrdered
  <2> QED BY <1>0, <2>2
<1>3. CASE k < i
  <2>1. k + 1 \in 0..Words /\ i \in 0..Words /\ k + 1 <= i
    BY <1>0, <1>3
  <2>2. B(k + 1) <= B(i)
    BY <2>1, BasesOrdered
  <2> QED BY <1>0, <2>2
<1> QED BY <1>0, <1>1, <1>2, <1>3

\* The first loop has seen the pages lo, ..., hi - 1: all are free, or start is
\* right, cur is the run still open, and no run before that is longer than max
\* unless it lies inside a word.
EdgesInv(b, lo, hi, start, max, cur) ==
  \/ start = None /\ max = 0 /\ cur = hi - lo /\ lo <= hi /\ Clear(b, lo, hi - lo)
  \/ /\ start \in Nat /\ lo + start < hi /\ Clear(b, lo, start) /\ get(b, lo + start)
     /\ cur \in Nat /\ lo + cur < hi /\ Clear(b, hi - cur, cur) /\ get(b, hi - cur - 1)
     /\ max \in Nat /\ HasRun(b, lo, hi, max)
     /\ \A q, L \in Nat : lo <= q /\ q + L <= hi - cur /\ Clear(b, q, L) => L <= max \/ Inner(q, L)

\* Past a free word.
LEMMA EdgesPastFree ==
  ASSUME NEW b \in Bitmap, NEW k \in 0..(Words - 1), b[k] = {},
         NEW lo \in Nat, NEW start, NEW max, NEW cur, EdgesInv(b, lo, B(k), start, max, cur)
  PROVE  EdgesInv(b, lo, B(k + 1), start, max, cur + W)
<1>0. W \in Nat /\ W > 0 /\ B(k) \in Nat /\ B(k + 1) = B(k) + W
  BY Bases
<1>1. \A p \in Nat : B(k) <= p /\ p < B(k) + W => ~get(b, p)
  <2>1. PICK l : l = LeadingZeros64(b[k])
    OBVIOUS
  <2>2. l = W /\ \A p \in Nat : B(k) + W - l <= p /\ p < B(k) + W => ~get(b, p)
    BY <2>1, FreeAbove
  <2>3. B(k) + W - l = B(k)
    BY <1>0, <2>2
  <2> QED BY <2>2, <2>3
<1>2. CASE start = None
  <2>1. max = 0 /\ cur = B(k) - lo /\ lo <= B(k) /\ Clear(b, lo, B(k) - lo)
    BY <1>2 DEF EdgesInv, None
  <2>2. cur + W = B(k + 1) - lo /\ lo <= B(k + 1)
    BY <1>0, <2>1
  <2>3. Clear(b, lo, B(k + 1) - lo)
    <3> SUFFICES ASSUME NEW p \in Nat, lo <= p, p < lo + (B(k + 1) - lo) PROVE ~get(b, p)
      BY DEF Clear
    <3>1. p < B(k) + W
      BY <1>0
    <3>2. CASE p < B(k)
      <4>1. p < lo + (B(k) - lo)
        BY <1>0, <3>2
      <4> QED BY <2>1, <4>1 DEF Clear
    <3>3. CASE B(k) <= p
      BY <1>1, <3>1, <3>3
    <3> QED BY <1>0, <3>2, <3>3
  <2> QED BY <1>2, <2>1, <2>2, <2>3 DEF EdgesInv
<1>3. CASE start # None
  <2>1. /\ start \in Nat /\ lo + start < B(k) /\ Clear(b, lo, start) /\ get(b, lo + start)
        /\ cur \in Nat /\ lo + cur < B(k) /\ Clear(b, B(k) - cur, cur) /\ get(b, B(k) - cur - 1)
        /\ max \in Nat /\ HasRun(b, lo, B(k), max)
        /\ \A q, L \in Nat : lo <= q /\ q + L <= B(k) - cur /\ Clear(b, q, L) => L <= max \/ Inner(q, L)
    BY <1>3 DEF EdgesInv
  <2>2. /\ B(k + 1) - (cur + W) = B(k) - cur /\ cur + W \in Nat
        /\ lo + start < B(k + 1) /\ lo + (cur + W) < B(k + 1)
    BY <1>0, <2>1
  <2>3. Clear(b, B(k) - cur, cur + W)
    <3> SUFFICES ASSUME NEW p \in Nat, B(k) - cur <= p, p < (B(k) - cur) + (cur + W) PROVE ~get(b, p)
      BY DEF Clear
    <3>1. p < B(k) + W
      BY <1>0, <2>1
    <3>2. CASE p < B(k)
      <4>1. p < (B(k) - cur) + cur
        BY <1>0, <2>1, <3>2
      <4> QED BY <2>1, <4>1 DEF Clear
    <3>3. CASE B(k) <= p
      BY <1>1, <3>1, <3>3
    <3> QED BY <1>0, <3>2, <3>3
  <2>4. HasRun(b, lo, B(k + 1), max)
    <3>1. PICK q \in Nat : lo <= q /\ q + max <= B(k) /\ Clear(b, q, max)
      BY <2>1 DEF HasRun
    <3>2. q + max <= B(k + 1)
      BY <1>0, <2>1, <3>1
    <3> QED BY <3>1, <3>2 DEF HasRun
  <2> QED BY <2>1, <2>2, <2>3, <2>4 DEF EdgesInv
<1> QED BY <1>2, <1>3

\* Past a word with an allocated page.
LEMMA EdgesPastTaken ==
  ASSUME NEW b \in Bitmap, NEW k \in 0..(Words - 1), b[k] # {},
         NEW lo \in Nat, NEW start, NEW max, NEW cur, EdgesInv(b, lo, B(k), start, max, cur),
         NEW c, c = cur + TrailingZeros64(b[k])
  PROVE  EdgesInv(b, lo, B(k + 1), IF start = None THEN c ELSE start, Max({max, c}), LeadingZeros64(b[k]))
<1>0. W \in Nat /\ W > 0 /\ B(k) \in Nat /\ B(k + 1) = B(k) + W
  BY Bases
<1>t. PICK t \in Nat : /\ t = TrailingZeros64(b[k]) /\ t < W /\ get(b, B(k) + t)
                       /\ \A p \in Nat : B(k) <= p /\ p < B(k) + t => ~get(b, p)
  <2>1. b[k] \in SUBSET Bit
    BY DEF Bitmap
  <2>2. TrailingZeros64(b[k]) < W
    BY <2>1, TrailingZerosIs
  <2>3. PICK t : t = TrailingZeros64(b[k])
    OBVIOUS
  <2>4. t \in 0..W /\ get(b, B(k) + t) /\ \A p \in Nat : B(k) <= p /\ p < B(k) + t => ~get(b, p)
    BY <2>2, <2>3, FreeBelow
  <2> QED BY <1>0, <2>2, <2>3, <2>4
<1>l. PICK l \in Nat : /\ l = LeadingZeros64(b[k]) /\ l < W /\ get(b, B(k) + W - 1 - l)
                       /\ \A p \in Nat : B(k) + W - l <= p /\ p < B(k) + W => ~get(b, p)
  <2>1. PICK l : l = LeadingZeros64(b[k])
    OBVIOUS
  <2>2. /\ l \in 0..W /\ l < W /\ get(b, B(k) + W - 1 - l)
        /\ \A p \in Nat : B(k) + W - l <= p /\ p < B(k) + W => ~get(b, p)
    BY <2>1, FreeAbove
  <2> QED BY <1>0, <2>1, <2>2
<1>c. /\ cur \in Nat /\ lo + cur <= B(k) /\ Clear(b, B(k) - cur, cur) /\ max \in Nat
      /\ start = None => lo = B(k) - cur /\ max = 0
      /\ start # None => /\ start \in Nat /\ lo + start < B(k) /\ get(b, lo + start) /\ Clear(b, lo, start)
                         /\ get(b, B(k) - cur - 1) /\ lo + cur < B(k) /\ HasRun(b, lo, B(k), max)
                         /\ \A q, L \in Nat : lo <= q /\ q + L <= B(k) - cur /\ Clear(b, q, L) => L <= max \/ Inner(q, L)
  <2>1. CASE start = None
    <3>1. max = 0 /\ cur = B(k) - lo /\ lo <= B(k) /\ Clear(b, lo, B(k) - lo)
      BY <2>1 DEF EdgesInv, None
    <3>2. lo = B(k) - cur /\ cur \in Nat /\ lo + cur <= B(k)
      BY <1>0, <3>1
    <3>3. Clear(b, B(k) - cur, cur)
      BY <3>1, <3>2
    <3> QED BY <2>1, <3>1, <3>2, <3>3
  <2>2. CASE start # None
    BY <1>0, <2>2 DEF EdgesInv
  <2> QED BY <2>1, <2>2
<1>1. c \in Nat /\ c = cur + t
  BY <1>c, <1>t
<1>2. Clear(b, B(k) - cur, c)
  <2> SUFFICES ASSUME NEW p \in Nat, B(k) - cur <= p, p < (B(k) - cur) + c PROVE ~get(b, p)
    BY DEF Clear
  <2>1. CASE p < B(k)
    <3>1. p < (B(k) - cur) + cur
      BY <1>0, <1>c, <2>1
    <3> QED BY <1>c, <3>1 DEF Clear
  <2>2. CASE B(k) <= p
    <3>1. p < B(k) + t
      BY <1>0, <1>1, <1>c, <1>t
    <3> QED BY <1>t, <2>2, <3>1
  <2> QED BY <1>0, <2>1, <2>2
<1>m. PICK m \in Nat : m = Max({max, c}) /\ m >= max /\ m >= c /\ (m = max \/ m = c)
  BY <1>1, <1>c, MaxOfTwo
<1>3. HasRun(b, lo, B(k + 1), m)
  <2>1. HasRun(b, lo, B(k + 1), c)
    <3>1. PICK q \in Nat : q = B(k) - cur
      BY <1>0, <1>c
    <3>2. lo <= q /\ q + c <= B(k + 1) /\ Clear(b, q, c)
      BY <1>0, <1>1, <1>2, <1>c, <1>t, <3>1
    <3> QED BY <3>2 DEF HasRun
  <2>2. CASE m = c
    BY <2>1, <2>2
  <2>3. CASE m # c /\ start = None
    BY <1>1, <1>c, <1>m, <2>3
  <2>4. CASE m # c /\ start # None
    <3>1. PICK q \in Nat : lo <= q /\ q + max <= B(k) /\ Clear(b, q, max)
      BY <1>c, <2>4 DEF HasRun
    <3>2. q + max <= B(k + 1)
      BY <1>0, <1>c, <3>1
    <3>3. m = max
      BY <1>m, <2>4
    <3> QED BY <3>1, <3>2, <3>3 DEF HasRun
  <2> QED BY <2>2, <2>3, <2>4
<1>h. PICK h \in Nat : h = B(k) + W - 1 - l /\ get(b, h)
  BY <1>0, <1>l
<1>d. PICK d \in Nat : d = B(k) + t /\ get(b, d)
  BY <1>0, <1>t
<1>4. ASSUME NEW q \in Nat, NEW L \in Nat, lo <= q, q + L <= B(k + 1) - l, Clear(b, q, L)
      PROVE  L <= m \/ Inner(q, L)
  <2>0. CASE L = 0
    BY <1>m, <2>0
  <2>1. CASE L # 0 /\ q + L <= B(k) - cur
    <3>1. start # None
      BY <1>0, <1>4, <1>c, <2>1
    <3>2. L <= max \/ Inner(q, L)
      BY <1>4, <1>c, <2>1, <3>1
    <3> QED BY <1>c, <1>m, <3>2
  <2>2. CASE L # 0 /\ ~(q + L <= B(k) - cur) /\ q + L <= d
    <3>1. q >= B(k) - cur
      <4>1. CASE start = None
        BY <1>4, <1>c, <4>1
      <4>2. CASE start # None
        <5>1. PICK p \in Nat : p = B(k) - cur - 1 /\ get(b, p)
          BY <1>0, <1>c, <4>2
        <5>2. q + L <= p \/ p < q
          BY <1>4, <5>1, ClearSide
        <5> QED BY <1>0, <1>c, <2>2, <5>1, <5>2
      <4> QED BY <4>1, <4>2
    <3> QED BY <1>0, <1>1, <1>c, <1>d, <1>m, <1>t, <2>2, <3>1
  <2>3. CASE L # 0 /\ ~(q + L <= d)
    <3>1. d < q
      BY <1>4, <1>d, <2>3, ClearSide
    <3>2. q + L <= h
      <4>1. q + L <= h \/ h < q
        BY <1>4, <1>h, ClearSide
      <4> QED BY <1>0, <1>4, <1>h, <1>l, <2>3, <4>1
    <3>3. B(k) < q /\ q + L < B(k) + W
      BY <1>0, <1>d, <1>h, <1>l, <1>t, <3>1, <3>2
    <3> QED BY <3>3 DEF Inner
  <2> QED BY <1>0, <1>c, <2>0, <2>1, <2>2, <2>3
<1>5. /\ B(k + 1) - l - 1 = h /\ lo + l < B(k + 1) /\ get(b, B(k + 1) - l - 1)
      /\ Clear(b, B(k + 1) - l, l)
  <2>1. B(k + 1) - l - 1 = h /\ lo + l < B(k + 1)
    BY <1>0, <1>c, <1>h, <1>l
  <2>2. Clear(b, B(k + 1) - l, l)
    <3> SUFFICES ASSUME NEW p \in Nat, B(k + 1) - l <= p, p < (B(k + 1) - l) + l PROVE ~get(b, p)
      BY DEF Clear
    <3>1. B(k) + W - l <= p /\ p < B(k) + W
      BY <1>0, <1>l
    <3> QED BY <1>l, <3>1
  <2> QED BY <1>h, <2>1, <2>2
<1>s. PICK s \in Nat : s = (IF start = None THEN c ELSE start)
  BY <1>1, <1>c
<1>6. lo + s < B(k + 1) /\ Clear(b, lo, s) /\ get(b, lo + s)
  <2>1. CASE start = None
    <3>1. s = c /\ lo = B(k) - cur /\ lo + c = d
      BY <1>0, <1>1, <1>c, <1>d, <1>s, <2>1
    <3>2. Clear(b, lo, s)
      BY <1>2, <3>1
    <3>3. lo + s < B(k + 1) /\ get(b, lo + s)
      BY <1>0, <1>d, <1>t, <3>1
    <3> QED BY <3>2, <3>3
  <2>2. CASE start # None
    <3>1. s = start
      BY <1>s, <2>2
    <3> QED BY <1>0, <1>c, <2>2, <3>1
  <2> QED BY <2>1, <2>2
<1>7. EdgesInv(b, lo, B(k + 1), s, m, l)
  BY <1>3, <1>4, <1>5, <1>6, <1>l DEF EdgesInv
<1> QED BY <1>7, <1>l, <1>m, <1>s

\* The first N words of the first loop of summarize.
EdgesTo(w, N, g) ==
  [i \in 0..N |-> IF i = 0 THEN [start |-> None, max |-> 0, cur |-> 0]
                  ELSE EdgesStep(g[i - 1], w[i])]

\* They exist.
LEMMA EdgesExist ==
  ASSUME NEW w, NEW N \in Nat
  PROVE  \E g : g = EdgesTo(w, N, g)
<1> DEFINE Missing == {m \in 0..N : ~ \E g : g = EdgesTo(w, m, g)}
<1>0. N \in 0..N
  OBVIOUS
<1> SUFFICES ASSUME Missing # {} PROVE FALSE
  BY <1>0
<1>1. Missing \subseteq Nat
  OBVIOUS
<1>2. PICK u \in Missing : \A y \in Missing : u <= y
  BY <1>1, LeastNatural
<1>3. CASE u = 0
  <2> DEFINE g == [j \in 0..0 |-> [start |-> None, max |-> 0, cur |-> 0]]
  <2>1. g = EdgesTo(w, 0, g)
    BY DEF EdgesTo
  <2> QED BY <1>2, <1>3, <2>1
<1>4. CASE u # 0
  <2>1. u - 1 \in 0..N /\ u \in 0..N /\ ~ (u <= u - 1)
    BY <1>4
  <2>2. PICK f : f = EdgesTo(w, u - 1, f)
    BY <1>2, <2>1
  <2> DEFINE g == [j \in 0..u |-> IF j = u THEN EdgesStep(f[u - 1], w[u]) ELSE f[j]]
  <2>3. ASSUME NEW j \in 0..u
        PROVE  g[j] = IF j = 0 THEN [start |-> None, max |-> 0, cur |-> 0]
                      ELSE EdgesStep(g[j - 1], w[j])
    <3>1. CASE j = 0
      <4>1. f[0] = [start |-> None, max |-> 0, cur |-> 0]
        BY <2>1, <2>2 DEF EdgesTo
      <4> QED BY <1>4, <3>1, <4>1
    <3>2. CASE j = u
      <4>1. g[j - 1] = f[u - 1]
        BY <2>1, <3>2
      <4> QED BY <1>4, <3>2, <4>1
    <3>3. CASE j # 0 /\ j # u
      <4>1. j \in 0..(u - 1) /\ j - 1 \in 0..u /\ j - 1 # u
        BY <2>1, <3>3
      <4>2. f[j] = EdgesStep(f[j - 1], w[j])
        BY <2>2, <3>3, <4>1 DEF EdgesTo
      <4>3. g[j] = f[j] /\ g[j - 1] = f[j - 1]
        BY <3>3, <4>1
      <4> QED BY <3>3, <4>2, <4>3
    <3> QED BY <3>1, <3>2, <3>3
  <2>4. g = EdgesTo(w, u, g)
    BY <2>3 DEF EdgesTo
  <2> QED BY <1>2, <2>4
<1> QED BY <1>3, <1>4

\* Edges is what the last of them leaves.
LEMMA EdgesIs ==
  ASSUME NEW w, NEW N \in Nat, Len(w) = N
  PROVE  \E g : g = EdgesTo(w, N, g) /\ Edges(w) = g[N]
<1>1. \E g : g = EdgesTo(w, N, g)
  BY EdgesExist
<1>2. PICK g : g = CHOOSE h : h = EdgesTo(w, N, h)
  OBVIOUS
<1>3. g = EdgesTo(w, N, g)
  BY <1>1, <1>2
<1>4. Edges(w) = g[N]
  BY <1>2 DEF Edges, EdgesTo
<1> HIDE <1>2
<1> QED BY <1>3, <1>4

\* w has the words of the chunk from word f on, N of them.
Window(b, f, N, w) ==
  /\ f \in Nat /\ N \in Nat /\ N >= 1 /\ f + N <= Words
  /\ Len(w) = N /\ \A i \in 1..N : w[i] = b[f + i - 1]

\* The state of the first loop is a record of these fields.
IsEdges(e) == \E x, y, z : e = [start |-> x, max |-> y, cur |-> z]

\* What it knows before page hi.
EdgesAt(b, lo, hi, e) == IsEdges(e) /\ EdgesInv(b, lo, hi, e.start, e.max, e.cur)

\* A turn of the first loop of summarize.
LEMMA EdgesStepSound ==
  ASSUME NEW b \in Bitmap, NEW k \in 0..(Words - 1), NEW lo \in Nat, NEW e, EdgesAt(b, lo, B(k), e)
  PROVE  EdgesAt(b, lo, B(k + 1), EdgesStep(e, b[k]))
<1>e. PICK x, y, z : e = [start |-> x, max |-> y, cur |-> z]
  BY DEF EdgesAt, IsEdges
<1>f. e.start = x /\ e.max = y /\ e.cur = z
  BY <1>e
<1>i. EdgesInv(b, lo, B(k), x, y, z)
  BY <1>f DEF EdgesAt
<1>r. PICK r : r = EdgesStep(e, b[k])
  OBVIOUS
<1>1. CASE b[k] = {}
  <2>1. r = [start |-> x, max |-> y, cur |-> z + W]
    BY <1>1, <1>e, <1>f, <1>r DEF EdgesStep
  <2>2. r.start = x /\ r.max = y /\ r.cur = z + W
    BY <2>1
  <2>3. IsEdges(r)
    BY <2>1, Zenon DEF IsEdges
  <2>4. EdgesInv(b, lo, B(k + 1), x, y, z + W)
    BY <1>1, <1>i, EdgesPastFree
  <2> QED BY <1>r, <2>2, <2>3, <2>4 DEF EdgesAt
<1>2. CASE b[k] # {}
  <2>c. PICK c : c = z + TrailingZeros64(b[k])
    OBVIOUS
  <2>s. PICK s : s = (IF x = None THEN c ELSE x)
    OBVIOUS
  <2>m. PICK m : m = Max({y, c})
    OBVIOUS
  <2>l. PICK l : l = LeadingZeros64(b[k])
    OBVIOUS
  <2>1. r = [start |-> s, max |-> m, cur |-> l]
    BY <1>2, <1>f, <1>r, <2>c, <2>s, <2>m, <2>l DEF EdgesStep
  <2>2. r.start = s /\ r.max = m /\ r.cur = l
    BY <2>1
  <2>3. IsEdges(r)
    BY <2>1, Zenon DEF IsEdges
  <2>4. EdgesInv(b, lo, B(k + 1), IF x = None THEN c ELSE x, Max({y, c}), LeadingZeros64(b[k]))
    BY <1>2, <1>i, <2>c, EdgesPastTaken
  <2>5. EdgesInv(b, lo, B(k + 1), s, m, l)
    BY <2>4, <2>s, <2>m, <2>l
  <2> QED BY <1>r, <2>2, <2>3, <2>5 DEF EdgesAt
<1> QED BY <1>1, <1>2

\* The first loop of summarize.
LEMMA EdgesSound ==
  ASSUME NEW b \in Bitmap, NEW f, NEW N, NEW w, Window(b, f, N, w)
  PROVE  EdgesAt(b, B(f), B(f + N), Edges(w))
<1>0. /\ f \in Nat /\ N \in Nat /\ N >= 1 /\ f + N <= Words /\ Words \in Nat
      /\ Len(w) = N /\ \A i \in 1..N : w[i] = b[f + i - 1]
  BY Bases DEF Window
<1>b. PICK lo \in Nat : lo = B(f)
  <2>1. f \in 0..Words
    BY <1>0
  <2>2. B(f) \in Nat
    BY <2>1, Bases
  <2> QED BY <2>2
<1>1. PICK g : g = EdgesTo(w, N, g) /\ Edges(w) = g[N]
  BY <1>0, EdgesIs
<1> DEFINE Good(i) == EdgesAt(b, lo, B(f + i), g[i])
<1>2. Good(0)
  <2>1. g[0] = [start |-> None, max |-> 0, cur |-> 0]
    BY <1>0, <1>1 DEF EdgesTo
  <2>2. g[0].start = None /\ g[0].max = 0 /\ g[0].cur = 0
    BY <2>1
  <2>3. IsEdges(g[0])
    BY <2>1, Zenon DEF IsEdges
  <2>4. B(f + 0) = lo /\ lo - lo = 0 /\ lo <= lo
    BY <1>0, <1>b
  <2>5. Clear(b, lo, lo - lo)
    BY <2>4 DEF Clear
  <2>6. EdgesInv(b, lo, lo, None, 0, 0)
    BY <2>4, <2>5 DEF EdgesInv
  <2> QED BY <2>2, <2>3, <2>4, <2>6 DEF EdgesAt
<1>3. ASSUME NEW i \in 0..(N - 1), Good(i) PROVE Good(i + 1)
  <2>1. i + 1 \in 0..N /\ i + 1 \in 1..N /\ i + 1 # 0 /\ (i + 1) - 1 = i /\ f + (i + 1) - 1 = f + i
    BY <1>0
  <2>2. g[i + 1] = EdgesStep(g[(i + 1) - 1], w[i + 1])
    BY <1>1, <2>1 DEF EdgesTo
  <2>3. PICK k \in 0..(Words - 1) : k = f + i /\ k + 1 = f + (i + 1)
    BY <1>0
  <2>4. w[i + 1] = b[k]
    BY <1>0, <2>1, <2>3
  <2>5. PICK e : e = g[i]
    OBVIOUS
  <2>6. g[i + 1] = EdgesStep(e, b[k])
    BY <2>1, <2>2, <2>4, <2>5
  <2>7. EdgesAt(b, lo, B(k), e)
    BY <1>3, <2>3, <2>5
  <2>8. EdgesAt(b, lo, B(k + 1), EdgesStep(e, b[k]))
    BY <2>7, EdgesStepSound
  <2> QED BY <2>3, <2>6, <2>8
<1>4. Good(N)
  <2> DEFINE Bad == {i \in 0..N : ~Good(i)}
  <2>0. N \in 0..N
    BY <1>0
  <2> HIDE DEF Good
  <2> SUFFICES ASSUME Bad # {} PROVE FALSE
    BY <2>0
  <2>1. Bad \subseteq Nat
    BY <1>0
  <2>2. PICK x \in Bad : \A y \in Bad : x <= y
    BY <2>1, LeastNatural
  <2>3. x # 0 /\ x \in 0..N
    BY <1>2, <2>2
  <2>4. PICK i \in 0..(N - 1) : i \in 0..N /\ ~(x <= i) /\ i + 1 = x
    <3>1. x - 1 \in 0..(N - 1) /\ x - 1 \in 0..N /\ ~(x <= x - 1) /\ (x - 1) + 1 = x
      BY <1>0, <2>3
    <3> QED BY <3>1
  <2>5. Good(i)
    BY <2>2, <2>4
  <2>6. Good(i + 1)
    BY <1>3, <2>4, <2>5
  <2> QED BY <2>2, <2>4, <2>6
<1> QED BY <1>1, <1>4, <1>b

\* The first N words of the second loop of summarize.
InnersTo(w, max, N, g) ==
  [i \in 0..N |-> IF i = 0 THEN max
                  ELSE LongestInside(w[i], g[i - 1])]

\* They exist.
LEMMA InnersExist ==
  ASSUME NEW w, NEW max, NEW N \in Nat
  PROVE  \E g : g = InnersTo(w, max, N, g)
<1> DEFINE Missing == {m \in 0..N : ~ \E g : g = InnersTo(w, max, m, g)}
<1>0. N \in 0..N
  OBVIOUS
<1> SUFFICES ASSUME Missing # {} PROVE FALSE
  BY <1>0
<1>1. Missing \subseteq Nat
  OBVIOUS
<1>2. PICK u \in Missing : \A y \in Missing : u <= y
  BY <1>1, LeastNatural
<1>3. CASE u = 0
  <2> DEFINE g == [j \in 0..0 |-> max]
  <2>1. g = InnersTo(w, max, 0, g)
    BY DEF InnersTo
  <2> QED BY <1>2, <1>3, <2>1
<1>4. CASE u # 0
  <2>1. u - 1 \in 0..N /\ u \in 0..N /\ ~ (u <= u - 1)
    BY <1>4
  <2>2. PICK f : f = InnersTo(w, max, u - 1, f)
    BY <1>2, <2>1
  <2> DEFINE g == [j \in 0..u |-> IF j = u THEN LongestInside(w[u], f[u - 1]) ELSE f[j]]
  <2>3. ASSUME NEW j \in 0..u
        PROVE  g[j] = IF j = 0 THEN max
                      ELSE LongestInside(w[j], g[j - 1])
    <3>1. CASE j = 0
      <4>1. f[0] = max
        BY <2>1, <2>2 DEF InnersTo
      <4> QED BY <1>4, <3>1, <4>1
    <3>2. CASE j = u
      <4>1. g[j - 1] = f[u - 1]
        BY <2>1, <3>2
      <4> QED BY <1>4, <3>2, <4>1
    <3>3. CASE j # 0 /\ j # u
      <4>1. j \in 0..(u - 1) /\ j - 1 \in 0..u /\ j - 1 # u
        BY <2>1, <3>3
      <4>2. f[j] = LongestInside(w[j], f[j - 1])
        BY <2>2, <3>3, <4>1 DEF InnersTo
      <4>3. g[j] = f[j] /\ g[j - 1] = f[j - 1]
        BY <3>3, <4>1
      <4> QED BY <3>3, <4>2, <4>3
    <3> QED BY <3>1, <3>2, <3>3
  <2>4. g = InnersTo(w, max, u, g)
    BY <2>3 DEF InnersTo
  <2> QED BY <1>2, <2>4
<1> QED BY <1>3, <1>4

\* Inside is what the last of them leaves.
LEMMA InsideIs ==
  ASSUME NEW w, NEW max, NEW N \in Nat, Len(w) = N
  PROVE  \E g : g = InnersTo(w, max, N, g) /\ Inside(w, max) = g[N]
<1>1. \E g : g = InnersTo(w, max, N, g)
  BY InnersExist
<1>2. PICK g : g = CHOOSE h : h = InnersTo(w, max, N, h)
  OBVIOUS
<1>3. g = InnersTo(w, max, N, g)
  BY <1>1, <1>2
<1>4. Inside(w, max) = g[N]
  BY <1>2 DEF Inside, InnersTo
<1> HIDE <1>2
<1> QED BY <1>3, <1>4

\* Runs of free pages are no longer than m, or lie inside a word.
ShortOrInner(b, lo, hi, m) ==
  \A q, L \in Nat : lo <= q /\ q + L <= hi /\ Clear(b, q, L) => L <= m \/ Inner(q, L)

\* Then a word has an allocated page, and its zeros at both ends are no more.
LEMMA WordEdges ==
  ASSUME NEW b \in Bitmap, NEW k \in 0..(Words - 1), NEW lo \in Nat, NEW hi \in Nat,
         lo <= B(k), B(k) + W <= hi, NEW m \in Nat, m < W, ShortOrInner(b, lo, hi, m)
  PROVE  b[k] # {} /\ TrailingZeros64(b[k]) <= m /\ LeadingZeros64(b[k]) <= m
<1>0. W \in Nat /\ W > 0 /\ B(k) \in Nat
  BY Bases
<1>1. ASSUME NEW q \in Nat, NEW L \in Nat, Inner(q, L), B(k) <= q, q + L <= B(k) + W, L > 0
      PROVE  q # B(k) /\ q + L # B(k) + W
  <2>1. PICK i \in 0..(Words - 1) : B(i) < q /\ q + L < B(i) + W
    BY <1>1 DEF Inner
  <2>2. B(i) = B(k) \/ B(i) + W <= B(k) \/ B(k) + W <= B(i)
    BY BasesApart
  <2>3. B(i) \in Nat
    BY Bases
  <2> QED BY <1>0, <1>1, <2>1, <2>2, <2>3
<1>t. PICK t \in 0..W : t = TrailingZeros64(b[k]) /\ \A p \in Nat : B(k) <= p /\ p < B(k) + t => ~get(b, p)
  <2>1. PICK t : t = TrailingZeros64(b[k])
    OBVIOUS
  <2> QED BY <2>1, FreeBelow
<1>l. PICK l \in 0..W : /\ l = LeadingZeros64(b[k])
                        /\ \A p \in Nat : B(k) + W - l <= p /\ p < B(k) + W => ~get(b, p)
                        /\ b[k] = {} => l = W
  <2>1. PICK l : l = LeadingZeros64(b[k])
    OBVIOUS
  <2> QED BY <2>1, FreeAbove
<1>2. t <= m
  <2> SUFFICES ASSUME t > m PROVE FALSE
    BY <1>0
  <2>1. t \in Nat /\ Clear(b, B(k), t) /\ lo <= B(k) /\ B(k) + t <= hi
    BY <1>0, <1>t DEF Clear
  <2>2. Inner(B(k), t)
    BY <1>0, <2>1 DEF ShortOrInner
  <2>3. t > 0 /\ B(k) <= B(k) /\ B(k) + t <= B(k) + W
    BY <1>0, <2>1
  <2> QED BY <1>0, <1>1, <2>1, <2>2, <2>3
<1>3. l <= m
  <2> SUFFICES ASSUME l > m PROVE FALSE
    BY <1>0
  <2>q. PICK q \in Nat : q = B(k) + W - l
    BY <1>0
  <2>1. l \in Nat /\ q + l = B(k) + W /\ lo <= q /\ q + l <= hi /\ l > 0 /\ B(k) <= q
    BY <1>0, <2>q
  <2>2. Clear(b, q, l)
    BY <1>0, <1>l, <2>q, <2>1 DEF Clear
  <2>3. Inner(q, l)
    BY <1>0, <2>1, <2>2 DEF ShortOrInner
  <2> QED BY <1>0, <1>1, <2>1, <2>3
<1>4. b[k] # {}
  BY <1>0, <1>3, <1>l
<1> QED BY <1>2, <1>3, <1>4, <1>t, <1>l

\* The second loop has looked into i words from word f on, beginning with M.
Looked(b, f, lo, hi, M, i, m) ==
  /\ m \in Nat /\ m >= M /\ HasRun(b, lo, hi, m)
  /\ \A k \in Nat : f <= k /\ k < f + i =>
       \A q, L \in Nat : q + L <= W /\ Zeros(b[k], q, L) => L <= m

\* A turn of the second loop.
LEMMA InnerStepSound ==
  ASSUME NEW b \in Bitmap, NEW f \in Nat, NEW i \in Nat, NEW k \in 0..(Words - 1), k = f + i,
         NEW lo \in Nat, NEW hi \in Nat, lo <= B(k), B(k) + W <= hi,
         NEW M \in Nat, M < W, ShortOrInner(b, lo, hi, M), NEW m, Looked(b, f, lo, hi, M, i, m)
  PROVE  Looked(b, f, lo, hi, M, i + 1, LongestInside(b[k], m))
<1>0. W \in Nat /\ B(k) \in Nat /\ b[k] \in SUBSET Bit
  BY Bases DEF Bitmap
<1>m. m \in Nat /\ m >= M /\ HasRun(b, lo, hi, m)
  BY DEF Looked
<1>1. b[k] # {} /\ TrailingZeros64(b[k]) <= M /\ LeadingZeros64(b[k]) <= M
  BY WordEdges
<1>2. TrailingZeros64(b[k]) \in 0..W /\ LeadingZeros64(b[k]) \in 0..W
  BY <1>0, TrailingZerosIs, LeadingZerosIs
<1>3. TrailingZeros64(b[k]) <= m /\ LeadingZeros64(b[k]) <= m
  BY <1>0, <1>1, <1>2, <1>m
<1>w. PICK w : w = b[k] /\ w \in SUBSET Bit /\ w # {} /\ TrailingZeros64(w) <= m /\ LeadingZeros64(w) <= m
  BY <1>0, <1>1, <1>3
<1>r. PICK r : r = LongestInside(w, m)
  OBVIOUS
<1>4. /\ r \in Nat /\ r >= m /\ (r = m \/ HasZeros(w, r))
      /\ \A q, L \in Nat : q + L <= W /\ Zeros(w, q, L) => L <= r
  BY <1>m, <1>r, <1>w, LongestInsideSound
<1>5. HasRun(b, lo, hi, r)
  <2>1. CASE r = m
    BY <1>m, <2>1
  <2>2. CASE HasZeros(w, r)
    <3>1. PICK q \in Nat : q + r <= W /\ Zeros(b[k], q, r)
      BY <1>w, <2>2 DEF HasZeros
    <3>2. Clear(b, B(k) + q, r)
      BY <1>4, <3>1, ZerosClear
    <3>3. B(k) + q \in Nat /\ lo <= B(k) + q /\ (B(k) + q) + r <= hi
      BY <1>0, <1>4, <3>1
    <3> QED BY <3>2, <3>3 DEF HasRun
  <2> QED BY <1>4, <2>1, <2>2
<1>6. ASSUME NEW j \in Nat, f <= j, j < f + (i + 1), NEW q \in Nat, NEW L \in Nat, q + L <= W, Zeros(b[j], q, L)
      PROVE  L <= r
  <2>1. CASE j = k
    BY <1>4, <1>6, <1>w, <2>1
  <2>2. CASE j # k
    <3>1. j < f + i
      BY <1>6, <2>2
    <3>2. L <= m
      BY <1>6, <3>1 DEF Looked
    <3> QED BY <1>4, <1>m, <3>2
  <2> QED BY <2>1, <2>2
<1>7. r >= M
  BY <1>4, <1>m
<1>8. Looked(b, f, lo, hi, M, i + 1, r)
  BY <1>4, <1>5, <1>6, <1>7 DEF Looked
<1> QED BY <1>8, <1>r, <1>w

\* The words between f and f + N lie between their first pages.
LEMMA WindowBases ==
  ASSUME NEW f \in Nat, NEW N \in Nat, f + N <= Words
  PROVE  /\ B(f) \in Nat /\ B(f + N) \in Nat /\ B(f) <= B(f + N)
         /\ \A k \in 0..(Words - 1) : f <= k /\ k < f + N => B(f) <= B(k) /\ B(k) + W <= B(f + N)
         /\ \A k \in 0..(Words - 1) : k < f => B(k) + W <= B(f)
         /\ \A k \in 0..(Words - 1) : f + N <= k => B(f + N) <= B(k)
<1>0. Words \in Nat /\ f \in 0..Words /\ f + N \in 0..Words /\ f <= f + N
  BY Bases
<1>1. B(f) \in Nat /\ B(f + N) \in Nat
  BY <1>0, Bases
<1>2. B(f) <= B(f + N)
  BY <1>0, BasesOrdered
<1>3. ASSUME NEW k \in 0..(Words - 1)
      PROVE  k \in 0..Words /\ k + 1 \in 0..Words /\ B(k + 1) = B(k) + W
  BY <1>0, Bases
<1>4. ASSUME NEW k \in 0..(Words - 1), f <= k, k < f + N PROVE B(f) <= B(k) /\ B(k) + W <= B(f + N)
  <2>1. k + 1 <= f + N
    BY <1>4
  <2>2. B(f) <= B(k) /\ B(k + 1) <= B(f + N)
    BY <1>0, <1>3, <1>4, <2>1, BasesOrdered
  <2> QED BY <1>3, <2>2
<1>5. ASSUME NEW k \in 0..(Words - 1), k < f PROVE B(k) + W <= B(f)
  <2>1. k + 1 <= f
    BY <1>5
  <2>2. B(k + 1) <= B(f)
    BY <1>0, <1>3, <2>1, BasesOrdered
  <2> QED BY <1>3, <2>2
<1>6. ASSUME NEW k \in 0..(Words - 1), f + N <= k PROVE B(f + N) <= B(k)
  BY <1>0, <1>3, <1>6, BasesOrdered
<1> QED BY <1>1, <1>2, <1>4, <1>5, <1>6

\* The second loop of summarize finds the longest run, once no run at the edge of
\* a word is longer than M.
LEMMA InsideSound ==
  ASSUME NEW b \in Bitmap, NEW f, NEW N, NEW w, Window(b, f, N, w),
         NEW M \in Nat, M < W, HasRun(b, B(f), B(f + N), M), ShortOrInner(b, B(f), B(f + N), M)
  PROVE  MaxIs(b, B(f), B(f + N), Inside(w, M))
<1>0. /\ f \in Nat /\ N \in Nat /\ N >= 1 /\ f + N <= Words /\ Words \in Nat /\ W \in Nat
      /\ Len(w) = N /\ \A i \in 1..N : w[i] = b[f + i - 1]
  BY Bases DEF Window
<1>b. PICK lo \in Nat : lo = B(f)
  BY <1>0, WindowBases
<1>c. PICK hi \in Nat : hi = B(f + N)
  BY <1>0, WindowBases
<1>h. HasRun(b, lo, hi, M) /\ ShortOrInner(b, lo, hi, M)
  BY <1>b, <1>c
<1>k. /\ \A k \in 0..(Words - 1) : f <= k /\ k < f + N => lo <= B(k) /\ B(k) + W <= hi
      /\ \A k \in 0..(Words - 1) : k < f => B(k) + W <= lo
      /\ \A k \in 0..(Words - 1) : f + N <= k => hi <= B(k)
  BY <1>0, <1>b, <1>c, WindowBases
<1>1. PICK g : g = InnersTo(w, M, N, g) /\ Inside(w, M) = g[N]
  BY <1>0, InsideIs
<1> DEFINE Good(i) == Looked(b, f, lo, hi, M, i, g[i])
<1>2. Good(0)
  <2>1. g[0] = M
    BY <1>0, <1>1 DEF InnersTo
  <2>2. \A k \in Nat : ~(f <= k /\ k < f + 0)
    BY <1>0
  <2>3. Looked(b, f, lo, hi, M, 0, M)
    BY <1>h, <2>2 DEF Looked
  <2> QED BY <2>1, <2>3
<1>3. ASSUME NEW i \in 0..(N - 1), Good(i) PROVE Good(i + 1)
  <2>1. i + 1 \in 0..N /\ i + 1 \in 1..N /\ i + 1 # 0 /\ (i + 1) - 1 = i /\ f + (i + 1) - 1 = f + i /\ i \in Nat
    BY <1>0
  <2>2. g[i + 1] = LongestInside(w[i + 1], g[(i + 1) - 1])
    BY <1>1, <2>1 DEF InnersTo
  <2>3. PICK k \in 0..(Words - 1) : k = f + i /\ f <= k /\ k < f + N
    <3>1. f + i \in 0..(Words - 1) /\ f <= f + i /\ f + i < f + N
      BY <1>0
    <3> QED BY <3>1
  <2>4. w[i + 1] = b[k]
    BY <1>0, <2>1, <2>3
  <2>5. PICK m : m = g[i]
    OBVIOUS
  <2>6. g[i + 1] = LongestInside(b[k], m)
    BY <2>1, <2>2, <2>4, <2>5
  <2>7. Looked(b, f, lo, hi, M, i, m) /\ lo <= B(k) /\ B(k) + W <= hi
    BY <1>3, <1>k, <2>3, <2>5
  <2>8. Looked(b, f, lo, hi, M, i + 1, LongestInside(b[k], m))
    BY <1>0, <1>h, <2>1, <2>3, <2>7, InnerStepSound
  <2> QED BY <2>6, <2>8
<1>4. Good(N)
  <2> DEFINE Bad == {i \in 0..N : ~Good(i)}
  <2>0. N \in 0..N
    BY <1>0
  <2> HIDE DEF Good
  <2> SUFFICES ASSUME Bad # {} PROVE FALSE
    BY <2>0
  <2>1. Bad \subseteq Nat
    BY <1>0
  <2>2. PICK x \in Bad : \A y \in Bad : x <= y
    BY <2>1, LeastNatural
  <2>3. x # 0 /\ x \in 0..N
    BY <1>2, <2>2
  <2>4. PICK i \in 0..(N - 1) : i \in 0..N /\ ~(x <= i) /\ i + 1 = x
    <3>1. x - 1 \in 0..(N - 1) /\ x - 1 \in 0..N /\ ~(x <= x - 1) /\ (x - 1) + 1 = x
      BY <1>0, <2>3
    <3> QED BY <3>1
  <2>5. Good(i)
    BY <2>2, <2>4
  <2>6. Good(i + 1)
    BY <1>3, <2>4, <2>5
  <2> QED BY <2>2, <2>4, <2>6
<1>r. PICK r : r = Inside(w, M) /\ Looked(b, f, lo, hi, M, N, r)
  BY <1>1, <1>4
<1>5. r \in Nat /\ r >= M /\ HasRun(b, lo, hi, r)
  BY <1>r DEF Looked
<1>6. ASSUME NEW q \in Nat, NEW L \in Nat, lo <= q, q + L <= hi, Clear(b, q, L) PROVE L <= r
  <2>1. CASE L = 0
    BY <1>5, <2>1
  <2>2. CASE L <= M
    BY <1>5, <2>2
  <2>3. CASE L # 0 /\ Inner(q, L)
    <3>1. PICK k \in 0..(Words - 1) : B(k) < q /\ q + L < B(k) + W
      BY <2>3 DEF Inner
    <3>2. k \in Nat /\ B(k) \in Nat
      BY Bases
    <3>3. f <= k /\ k < f + N
      <4>1. CASE k < f
        <5>1. B(k) + W <= lo
          BY <1>k, <4>1
        <5> QED BY <1>0, <1>6, <3>1, <3>2, <5>1
      <4>2. CASE f + N <= k
        <5>1. hi <= B(k)
          BY <1>k, <4>2
        <5> QED BY <1>6, <2>3, <3>1, <3>2, <5>1
      <4> QED BY <1>0, <3>2, <4>1, <4>2
    <3>0. PICK B0 \in Nat : B0 = B(k)
      BY <3>2
    <3>4. PICK j \in Nat : j = q - B0 /\ B0 + j = q
      BY <3>0, <3>1
    <3>a. q + L < B0 + W
      BY <3>0, <3>1
    <3>b. j + L <= W /\ B0 + j + L <= B0 + W
      BY <1>0, <3>4, <3>a
    <3>5. B(k) + j + L <= B(k) + W /\ j + L <= W /\ B(k) + j = q
      BY <3>0, <3>4, <3>b
    <3>6. Zeros(b[k], j, L)
      BY <1>6, <3>5, ClearZeros
    <3> QED BY <1>r, <3>2, <3>3, <3>5, <3>6 DEF Looked
  <2> QED BY <1>6, <1>h, <2>1, <2>2, <2>3 DEF ShortOrInner
<1>7. MaxIs(b, lo, hi, r)
  BY <1>5, <1>6 DEF MaxIs
<1> QED BY <1>7, <1>b, <1>c, <1>r

\* Runs at both ends are no longer than the longest.
LEMMA ExactBounds ==
  ASSUME NEW b, NEW lo \in Nat, NEW hi \in Nat, lo <= hi, NEW s, NEW m, NEW e, Exact(b, lo, hi, s, m, e)
  PROVE  s \in Nat /\ m \in Nat /\ e \in Nat /\ s <= m /\ e <= m /\ lo + m <= hi
<1>1. s \in Nat /\ lo + s <= hi /\ Clear(b, lo, s)
  BY DEF Exact, StartIs
<1>2. e \in Nat /\ lo + e <= hi /\ Clear(b, hi - e, e)
  BY DEF Exact, EndIs
<1>3. /\ m \in Nat /\ HasRun(b, lo, hi, m)
      /\ \A q, L \in Nat : lo <= q /\ q + L <= hi /\ Clear(b, q, L) => L <= m
  BY DEF Exact, MaxIs
<1>4. lo + m <= hi
  <2>1. PICK q \in Nat : lo <= q /\ q + m <= hi
    BY <1>3 DEF HasRun
  <2> QED BY <1>3, <2>1
<1>5. s <= m
  BY <1>1, <1>3
<1>6. PICK q \in Nat : q = hi - e /\ lo <= q /\ q + e <= hi
  BY <1>2
<1>7. e <= m
  BY <1>2, <1>3, <1>6
<1> QED BY <1>1, <1>2, <1>3, <1>4, <1>5, <1>7

\* Packing loses nothing of the summary of a part of the chunk, or of the chunk.
LEMMA PackExact ==
  ASSUME NEW b, NEW lo \in Nat, NEW hi \in Nat, lo <= hi, hi - lo <= pallocChunkPages,
         NEW s, NEW m, NEW e, Exact(b, lo, hi, s, m, e)
  PROVE  packPallocSum(s, m, e) = [start |-> s, max |-> m, end |-> e]
<1>P. PICK P \in Nat : P = pallocChunkPages /\ P > 0
  BY Bases
<1>0. s \in Nat /\ m \in Nat /\ e \in Nat /\ s <= m /\ e <= m /\ lo + m <= hi
  BY ExactBounds
<1>1. CASE m = P
  <2>1. PICK q \in Nat : lo <= q /\ q + m <= hi /\ Clear(b, q, m)
    BY DEF Exact, MaxIs, HasRun
  <2>2. q = lo /\ hi = lo + P
    BY <1>0, <1>1, <1>P, <2>1
  <2>3. Clear(b, lo, P)
    BY <1>1, <2>1, <2>2
  <2>4. s = P
    <3> SUFFICES ASSUME s # P PROVE FALSE
      OBVIOUS
    <3>1. lo + s < hi /\ lo <= lo + s /\ lo + s < lo + P /\ lo + s \in Nat
      BY <1>0, <1>1, <1>P, <2>2
    <3>2. get(b, lo + s)
      BY <3>1 DEF Exact, StartIs
    <3> QED BY <2>3, <3>1, <3>2 DEF Clear
  <2>5. e = P
    <3> SUFFICES ASSUME e # P PROVE FALSE
      OBVIOUS
    <3>1. PICK p \in Nat : p = hi - e - 1 /\ lo <= p /\ p < lo + P
      <4>1. hi - e - 1 \in Nat /\ lo <= hi - e - 1 /\ hi - e - 1 < lo + P
        BY <1>0, <1>1, <1>P, <2>2
      <4> QED BY <4>1
    <3>2. lo + e < hi
      BY <1>0, <1>1, <1>P, <2>2
    <3>3. get(b, p)
      BY <3>1, <3>2 DEF Exact, EndIs
    <3> QED BY <2>3, <3>1, <3>3 DEF Clear
  <2> QED BY <1>1, <1>P, <2>4, <2>5 DEF packPallocSum, maxPackedValue
<1>2. CASE m # P
  <2>1. s \in 0..(P - 1) /\ m \in 0..(P - 1) /\ e \in 0..(P - 1)
    BY <1>0, <1>2, <1>P
  <2>2. ASSUME NEW x \in 0..(P - 1) PROVE x % P = x
    <3>1. x = (0 * P + x) % P
      BY <1>P, DivModIs
    <3>2. 0 * P + x = x
      BY <1>P
    <3> QED BY <3>1, <3>2
  <2>3. s % P = s /\ m % P = m /\ e % P = e
    BY <2>1, <2>2
  <2> QED BY <1>2, <1>P, <2>3 DEF packPallocSum, maxPackedValue
<1> QED BY <1>1, <1>2

\* Where all pages are free.
LEMMA ExactFree ==
  ASSUME NEW b, NEW lo \in Nat, NEW hi \in Nat, lo <= hi, NEW n \in Nat, n = hi - lo, Clear(b, lo, n)
  PROVE  Exact(b, lo, hi, n, n, n)
<1>1. lo + n = hi /\ hi - n = lo /\ ~(lo + n < hi) /\ lo + n <= hi
  OBVIOUS
<1>2. StartIs(b, lo, hi, n) /\ EndIs(b, lo, hi, n)
  BY <1>1 DEF StartIs, EndIs
<1>3. HasRun(b, lo, hi, n)
  BY <1>1 DEF HasRun
<1>4. \A q, L \in Nat : lo <= q /\ q + L <= hi => L <= n
  BY <1>1
<1> QED BY <1>2, <1>3, <1>4 DEF Exact, MaxIs

\* The longest run at the edges of the words, the one still open included.
LEMMA EdgesEnd ==
  ASSUME NEW b, NEW lo \in Nat, NEW hi \in Nat, NEW start, start # None, NEW max, NEW cur,
         EdgesInv(b, lo, hi, start, max, cur), NEW M, M = Max({max, cur})
  PROVE  /\ M \in Nat /\ HasRun(b, lo, hi, M) /\ ShortOrInner(b, lo, hi, M)
         /\ StartIs(b, lo, hi, start) /\ EndIs(b, lo, hi, cur)
<1>1. /\ start \in Nat /\ lo + start < hi /\ Clear(b, lo, start) /\ get(b, lo + start)
      /\ cur \in Nat /\ lo + cur < hi /\ Clear(b, hi - cur, cur) /\ get(b, hi - cur - 1)
      /\ max \in Nat /\ HasRun(b, lo, hi, max)
      /\ \A q, L \in Nat : lo <= q /\ q + L <= hi - cur /\ Clear(b, q, L) => L <= max \/ Inner(q, L)
  BY DEF EdgesInv
<1>2. M \in Nat /\ M >= max /\ M >= cur /\ (M = max \/ M = cur)
  BY <1>1, MaxOfTwo
<1>3. HasRun(b, lo, hi, M)
  <2>1. PICK q \in Nat : q = hi - cur /\ lo <= q /\ q + cur <= hi
    <3>1. hi - cur \in Nat /\ lo <= hi - cur /\ (hi - cur) + cur <= hi
      BY <1>1
    <3> QED BY <3>1
  <2>2. HasRun(b, lo, hi, cur)
    BY <1>1, <2>1 DEF HasRun
  <2> QED BY <1>1, <1>2, <2>2
<1>4. ASSUME NEW q \in Nat, NEW L \in Nat, lo <= q, q + L <= hi, Clear(b, q, L)
      PROVE  L <= M \/ Inner(q, L)
  <2>1. CASE q + L <= hi - cur
    <3>1. L <= max \/ Inner(q, L)
      BY <1>1, <1>4, <2>1
    <3> QED BY <1>1, <1>2, <3>1
  <2>2. CASE ~(q + L <= hi - cur)
    <3>1. PICK p \in Nat : p = hi - cur - 1 /\ get(b, p)
      BY <1>1
    <3>2. q + L <= p \/ p < q
      BY <1>4, <3>1, ClearSide
    <3>3. L <= cur
      BY <1>1, <1>4, <2>2, <3>1, <3>2
    <3> QED BY <1>1, <1>2, <3>3
  <2> QED BY <2>1, <2>2
<1>5. StartIs(b, lo, hi, start) /\ EndIs(b, lo, hi, cur)
  BY <1>1 DEF StartIs, EndIs
<1> QED BY <1>2, <1>3, <1>4, <1>5 DEF ShortOrInner

\* The summary z is exact for the pages lo, ..., hi - 1.
Sums(b, lo, hi, z) ==
  \E s, m, e : z = [start |-> s, max |-> m, end |-> e] /\ Exact(b, lo, hi, s, m, e)

\* The length of a window in pages.
LEMMA WindowPages ==
  ASSUME NEW f \in Nat, NEW N \in Nat, f + N <= Words
  PROVE  W * N \in Nat /\ W * N = B(f + N) - B(f) /\ W * N <= pallocChunkPages
<1>0. W \in Nat /\ Words \in Nat /\ f + N \in 0..Words
  BY Bases
<1>1. ASSUME NEW w \in Nat, NEW n \in Nat, NEW m \in Nat
      PROVE  (n + m) * w = n * w + m * w /\ m * w \in Nat /\ n * w \in Nat /\ w * m = m * w
  OBVIOUS
<1>2. (f + N) * W = f * W + N * W /\ N * W \in Nat /\ f * W \in Nat /\ W * N = N * W
  BY <1>0, <1>1
<1>3. B(f + N) <= pallocChunkPages /\ pallocChunkPages \in Nat
  BY <1>0, Bases
<1> QED BY <1>2, <1>3 DEF B

\* summarize is exact, for any words of the chunk in a row.
LEMMA summarizeExact ==
  ASSUME NEW b \in Bitmap, NEW f, NEW N, NEW w, Window(b, f, N, w)
  PROVE  Sums(b, B(f), B(f + N), summarize(w))
<1>0. f \in Nat /\ N \in Nat /\ f + N <= Words /\ Len(w) = N /\ W \in Nat /\ W >= 3
  BY WAssumption DEF Window
<1>b. PICK lo \in Nat : lo = B(f)
  BY <1>0, WindowBases
<1>c. PICK hi \in Nat : hi = B(f + N) /\ lo <= hi
  BY <1>0, <1>b, WindowBases
<1>n. PICK n \in Nat : n = W * Len(w) /\ n = hi - lo /\ n <= pallocChunkPages
  BY <1>0, <1>b, <1>c, WindowPages
<1>l. hi - lo <= pallocChunkPages
  BY <1>n
<1>e. PICK e : e = Edges(w) /\ EdgesInv(b, lo, hi, e.start, e.max, e.cur)
  BY <1>b, <1>c, EdgesSound DEF EdgesAt
<1>M. PICK M : M = Max({e.max, e.cur})
  OBVIOUS
<1>z. PICK z : z = summarize(w)
  OBVIOUS
<1>1. CASE e.start = None
  <2>1. z = packPallocSum(n, n, n)
    BY <1>1, <1>e, <1>n, <1>z DEF summarize
  <2>2. Clear(b, lo, n)
    BY <1>1, <1>n, <1>e DEF EdgesInv, None
  <2>3. Exact(b, lo, hi, n, n, n)
    BY <1>c, <1>n, <2>2, ExactFree
  <2>4. z = [start |-> n, max |-> n, end |-> n]
    BY <1>c, <1>l, <2>1, <2>3, PackExact
  <2>5. Sums(b, lo, hi, z)
    BY <2>3, <2>4, Zenon DEF Sums
  <2> QED BY <1>b, <1>c, <1>z, <2>5
<1>2. CASE e.start # None
  <2>1. /\ M \in Nat /\ HasRun(b, lo, hi, M) /\ ShortOrInner(b, lo, hi, M)
        /\ StartIs(b, lo, hi, e.start) /\ EndIs(b, lo, hi, e.cur)
    BY <1>2, <1>e, <1>M, EdgesEnd
  <2>2. ASSUME NEW m, MaxIs(b, lo, hi, m), z = packPallocSum(e.start, m, e.cur)
        PROVE  Sums(b, lo, hi, z)
    <3>1. Exact(b, lo, hi, e.start, m, e.cur)
      BY <2>1, <2>2 DEF Exact
    <3>2. z = [start |-> e.start, max |-> m, end |-> e.cur]
      BY <1>c, <1>l, <2>2, <3>1, PackExact
    <3> QED BY <3>1, <3>2, Zenon DEF Sums
  <2>3. CASE M >= W - 2
    <3>1. z = packPallocSum(e.start, M, e.cur)
      BY <1>2, <1>e, <1>M, <1>z, <2>3 DEF summarize
    <3>2. ASSUME NEW q \in Nat, NEW L \in Nat, lo <= q, q + L <= hi, Clear(b, q, L) PROVE L <= M
      <4>1. CASE Inner(q, L)
        <5>1. PICK k \in 0..(Words - 1) : B(k) < q /\ q + L < B(k) + W
          BY <4>1 DEF Inner
        <5>2. B(k) \in Nat
          BY Bases
        <5> QED BY <1>0, <2>1, <2>3, <5>1, <5>2
      <4>2. CASE ~Inner(q, L)
        BY <2>1, <3>2, <4>2 DEF ShortOrInner
      <4> QED BY <4>1, <4>2
    <3>3. MaxIs(b, lo, hi, M)
      BY <2>1, <3>2 DEF MaxIs
    <3>4. Sums(b, lo, hi, z)
      BY <2>2, <3>1, <3>3
    <3> QED BY <1>b, <1>c, <1>z, <3>4
  <2>4. CASE ~(M >= W - 2)
    <3>1. z = packPallocSum(e.start, Inside(w, M), e.cur)
      BY <1>2, <1>e, <1>M, <1>z, <2>4 DEF summarize
    <3>2. M < W
      BY <1>0, <2>1, <2>4
    <3>3. HasRun(b, B(f), B(f + N), M) /\ ShortOrInner(b, B(f), B(f + N), M)
      BY <1>b, <1>c, <2>1
    <3>4. MaxIs(b, B(f), B(f + N), Inside(w, M))
      BY <2>1, <3>2, <3>3, InsideSound
    <3>5. MaxIs(b, lo, hi, Inside(w, M))
      BY <1>b, <1>c, <3>4
    <3>6. Sums(b, lo, hi, z)
      BY <2>2, <3>1, <3>5
    <3> QED BY <1>b, <1>c, <1>z, <3>6
  <2> QED BY <2>3, <2>4
<1> QED BY <1>1, <1>2

\* A free run is a clear one.
LEMMA RunClear ==
  ASSUME NEW b, NEW q \in Nat, NEW L \in Nat
  PROVE  FreeRun(b, q, L) <=> Clear(b, q, L)
<1>1. ASSUME FreeRun(b, q, L), NEW p \in Nat, q <= p, p < q + L PROVE ~get(b, p)
  <2>1. p \in q..(q + L - 1)
    BY <1>1
  <2> QED BY <1>1, <2>1 DEF FreeRun, Run
<1>2. ASSUME Clear(b, q, L), NEW p \in q..(q + L - 1) PROVE ~get(b, p)
  <2>1. p \in Nat /\ q <= p /\ p < q + L
    OBVIOUS
  <2> QED BY <1>2, <2>1 DEF Clear
<1> QED BY <1>1, <1>2 DEF FreeRun, Run, Clear

\* The exact summary of the chunk is the one counted page by page.
LEMMA CountedExact ==
  ASSUME NEW b, NEW s, NEW m, NEW e, Exact(b, 0, pallocChunkPages, s, m, e)
  PROVE  Counted(b) = [start |-> s, max |-> m, end |-> e]
<1>P. PICK P \in Nat : P = pallocChunkPages /\ P > 0 /\ Page = 0..(P - 1)
  BY Bases DEF Page
<1>f. PICK f : f = [i \in Page |-> FreeFrom(b, i)]
  OBVIOUS
<1>l. PICK last : last = {i \in Page : f[i] > 0 /\ i + f[i] = P}
  OBVIOUS
<1>m. PICK S : S = {f[i] : i \in Page}
  OBVIOUS
<1>1. Counted(b) = [start |-> f[0], max |-> Max(S),
                    end |-> IF last = {} THEN 0 ELSE P - Min(last)]
  BY <1>P, <1>f, <1>l, <1>m DEF Counted
<1>2. /\ s \in Nat /\ 0 + s <= P /\ Clear(b, 0, s) /\ (0 + s < P => get(b, 0 + s))
      /\ e \in Nat /\ 0 + e <= P /\ Clear(b, P - e, e) /\ (0 + e < P => get(b, P - e - 1))
      /\ m \in Nat /\ HasRun(b, 0, P, m)
      /\ \A q, L \in Nat : 0 <= q /\ q + L <= P /\ Clear(b, q, L) => L <= m
  BY <1>P DEF Exact, StartIs, EndIs, MaxIs
<1>3. ASSUME NEW i \in Page
      PROVE  /\ f[i] \in Nat /\ i \in Nat /\ i + f[i] <= P /\ Clear(b, i, f[i])
             /\ i + f[i] < P => get(b, i + f[i])
             /\ f[i] = FreeFrom(b, i)
  <2>1. f[i] = FreeFrom(b, i)
    BY <1>f
  <2>2. /\ f[i] \in 0..(P - i) /\ FreeRun(b, i, f[i])
        /\ i + f[i] < P => get(b, i + f[i])
    BY <1>P, <2>1, FreeFromIs
  <2>3. i \in Nat /\ f[i] \in Nat /\ i + f[i] <= P
    BY <1>P, <2>2
  <2> QED BY <2>1, <2>2, <2>3, RunClear
<1>4. ASSUME NEW i \in Page, NEW n \in Nat, i + n <= P, Clear(b, i, n) PROVE f[i] >= n
  <2>1. i \in Nat
    BY <1>P
  <2>2. Fit(b, n, i)
    BY <1>4, <1>P, <2>1, RunClear DEF Fit
  <2>3. FreeFrom(b, i) >= n
    BY <2>2, FreeFromFits
  <2> QED BY <1>3, <2>3
<1>5. f[0] = s
  <2>1. 0 \in Page
    BY <1>P
  <2>2. f[0] >= s
    BY <1>2, <1>4, <2>1
  <2>3. CASE f[0] > s
    <3>1. f[0] \in Nat /\ 0 + f[0] <= P /\ Clear(b, 0, f[0])
      BY <1>3, <2>1
    <3>2. 0 + s < P /\ 0 + s \in Nat /\ 0 <= 0 + s /\ 0 + s < 0 + f[0]
      BY <1>2, <1>P, <2>3, <3>1
    <3> QED BY <1>2, <3>1, <3>2 DEF Clear
  <2> QED BY <1>2, <1>3, <2>1, <2>2, <2>3
<1>6. Max(S) = m
  <2>1. S \subseteq Nat /\ S # {} /\ \A y \in S : y <= P
    <3>1. 0 \in Page
      BY <1>P
    <3>2. ASSUME NEW y \in S PROVE y \in Nat /\ y <= P
      <4>1. PICK i \in Page : y = f[i]
        BY <1>m
      <4> QED BY <1>3, <1>P, <4>1
    <3> QED BY <1>m, <3>1, <3>2
  <2>2. PICK M : M = Max(S)
    OBVIOUS
  <2>3. M \in S /\ \A y \in S : y <= M
    BY <1>P, <2>1, <2>2, MaxOfNaturals
  <2>4. M \in Nat /\ M <= m
    <3>1. PICK i \in Page : M = f[i]
      BY <1>m, <2>3
    <3>2. f[i] \in Nat /\ i \in Nat /\ i + f[i] <= P /\ Clear(b, i, f[i])
      BY <1>3
    <3>3. f[i] <= m
      BY <1>2, <3>2
    <3> QED BY <3>1, <3>2, <3>3
  <2>5. m <= M
    <3>1. CASE m = 0
      BY <2>4, <3>1
    <3>2. CASE m # 0
      <4>1. PICK q \in Nat : q + m <= P /\ Clear(b, q, m)
        BY <1>2 DEF HasRun
      <4>2. q \in Page
        BY <1>2, <1>P, <3>2, <4>1
      <4>3. f[q] >= m
        BY <1>2, <1>4, <4>1, <4>2
      <4>4. f[q] \in S /\ f[q] \in Nat
        BY <1>3, <1>m, <4>2
      <4>5. f[q] <= M
        BY <2>3, <4>4
      <4> QED BY <1>2, <2>4, <4>3, <4>4, <4>5
    <3> QED BY <3>1, <3>2
  <2> QED BY <1>2, <2>2, <2>4, <2>5
<1>7. ASSUME NEW i \in last PROVE i \in Nat /\ e > 0 /\ P - e <= i
  <2>1. i \in Page /\ f[i] > 0 /\ i + f[i] = P
    BY <1>l
  <2>2. f[i] \in Nat /\ i \in Nat /\ Clear(b, i, f[i])
    BY <1>3, <2>1
  <2>3. P - e <= i
    <3> SUFFICES ASSUME ~(P - e <= i) PROVE FALSE
      OBVIOUS
    <3>1. PICK p \in Nat : p = P - e - 1 /\ i <= p /\ p < i + f[i]
      <4>1. P - e - 1 \in Nat /\ i <= P - e - 1 /\ P - e - 1 < i + f[i]
        BY <1>2, <1>P, <2>1, <2>2
      <4> QED BY <4>1
    <3>2. get(b, p)
      BY <1>2, <1>P, <2>2, <3>1
    <3> QED BY <2>2, <3>1, <3>2 DEF Clear
  <2>4. e > 0
    BY <1>2, <1>P, <2>1, <2>2, <2>3
  <2> QED BY <2>2, <2>3, <2>4
<1>8. ASSUME e > 0 PROVE P - e \in last
  <2>1. PICK i \in Page : i = P - e /\ i \in Nat /\ i + e = P
    <3>1. P - e \in 0..(P - 1) /\ P - e \in Nat /\ (P - e) + e = P
      BY <1>2, <1>8, <1>P
    <3> QED BY <1>P, <3>1
  <2>2. f[i] >= e
    BY <1>2, <1>4, <2>1
  <2>3. f[i] \in Nat /\ i + f[i] <= P
    BY <1>3
  <2>4. f[i] > 0 /\ i + f[i] = P
    BY <1>2, <1>8, <1>P, <2>1, <2>2, <2>3
  <2> QED BY <1>l, <2>1, <2>4
<1>9. (IF last = {} THEN 0 ELSE P - Min(last)) = e
  <2>1. CASE e = 0
    <3>1. last = {}
      BY <1>7, <2>1
    <3> QED BY <2>1, <3>1
  <2>2. CASE e # 0
    <3>1. P - e \in last
      BY <1>2, <1>8, <2>2
    <3>2. P - e \in Nat /\ last \subseteq Nat /\ \A y \in last : P - e <= y
      BY <1>2, <1>7, <1>P
    <3>3. Min(last) = P - e
      BY <3>1, <3>2, MinIs
    <3>4. P - (P - e) = e /\ last # {}
      BY <1>2, <3>1
    <3> QED BY <3>3, <3>4
  <2> QED BY <2>1, <2>2
<1> QED BY <1>1, <1>5, <1>6, <1>9

\* A sum that is exact for the chunk is the one counted.
LEMMA SumsCounted ==
  ASSUME NEW b, NEW z, Sums(b, 0, pallocChunkPages, z)
  PROVE  z = Counted(b)
<1>1. PICK s, m, e : z = [start |-> s, max |-> m, end |-> e] /\ Exact(b, 0, pallocChunkPages, s, m, e)
  BY DEF Sums
<1> QED BY <1>1, CountedExact

\* summarize gives what is counted page by page.
LEMMA SummaryCounted ==
  ASSUME NEW b \in Bitmap
  PROVE  summarize(AsSeq(b)) = Counted(b)
<1>0. Words \in Nat /\ Words >= 1 /\ B(0) = 0 /\ B(Words) = pallocChunkPages
  BY Bases
<1>1. PICK w : w = AsSeq(b)
  OBVIOUS
<1>2. Len(w) = Words /\ \A i \in 1..Words : w[i] = b[i - 1]
  BY <1>0, <1>1 DEF AsSeq
<1>3. Window(b, 0, Words, w)
  <2>1. \A i \in 1..Words : 0 + i - 1 = i - 1
    BY <1>0
  <2> QED BY <1>0, <1>2, <2>1 DEF Window
<1>4. Sums(b, B(0), B(0 + Words), summarize(w))
  BY <1>3, summarizeExact
<1>5. Sums(b, 0, pallocChunkPages, summarize(w))
  <2>1. 0 + Words = Words
    BY <1>0
  <2> QED BY <1>0, <1>4, <2>1
<1> QED BY <1>1, <1>5, SumsCounted

-----------------------------------------------------------------------------
(***************************************************************************)
(* mergeSummaries.                                                         *)
(***************************************************************************)
\* The first N summaries of mergeSummaries.
MergesTo(sums, pages, N, g) ==
  [i \in 1..N |-> IF i = 1 THEN sums[1]
                  ELSE MergeStep(g[i - 1], sums[i], i - 1, pages)]

\* They exist.
LEMMA MergesExist ==
  ASSUME NEW sums, NEW pages, NEW N \in Nat, N >= 1
  PROVE  \E g : g = MergesTo(sums, pages, N, g)
<1> DEFINE Missing == {m \in 1..N : ~ \E g : g = MergesTo(sums, pages, m, g)}
<1>0. N \in 1..N
  OBVIOUS
<1> SUFFICES ASSUME Missing # {} PROVE FALSE
  BY <1>0
<1>1. Missing \subseteq Nat
  OBVIOUS
<1>2. PICK u \in Missing : \A y \in Missing : u <= y
  BY <1>1, LeastNatural
<1>3. CASE u = 1
  <2> DEFINE g == [j \in 1..1 |-> sums[1]]
  <2>1. g = MergesTo(sums, pages, 1, g)
    BY DEF MergesTo
  <2> QED BY <1>2, <1>3, <2>1
<1>4. CASE u # 1
  <2>1. u - 1 \in 1..N /\ u \in 1..N /\ ~ (u <= u - 1)
    BY <1>4
  <2>2. PICK f : f = MergesTo(sums, pages, u - 1, f)
    BY <1>2, <2>1
  <2> DEFINE g == [j \in 1..u |-> IF j = u THEN MergeStep(f[u - 1], sums[u], u - 1, pages) ELSE f[j]]
  <2>3. ASSUME NEW j \in 1..u
        PROVE  g[j] = IF j = 1 THEN sums[1]
                      ELSE MergeStep(g[j - 1], sums[j], j - 1, pages)
    <3>1. CASE j = 1
      <4>1. f[1] = sums[1]
        BY <2>1, <2>2 DEF MergesTo
      <4> QED BY <1>4, <3>1, <4>1
    <3>2. CASE j = u
      <4>1. g[j - 1] = f[u - 1]
        BY <2>1, <3>2
      <4> QED BY <1>4, <3>2, <4>1
    <3>3. CASE j # 1 /\ j # u
      <4>1. j \in 1..(u - 1) /\ j - 1 \in 1..u /\ j - 1 # u
        BY <2>1, <3>3
      <4>2. f[j] = MergeStep(f[j - 1], sums[j], j - 1, pages)
        BY <2>2, <3>3, <4>1 DEF MergesTo
      <4>3. g[j] = f[j] /\ g[j - 1] = f[j - 1]
        BY <3>3, <4>1
      <4> QED BY <3>3, <4>2, <4>3
    <3> QED BY <3>1, <3>2, <3>3
  <2>4. g = MergesTo(sums, pages, u, g)
    BY <2>3 DEF MergesTo
  <2> QED BY <1>2, <2>4
<1> QED BY <1>3, <1>4

\* mergeSummaries packs their last.
LEMMA mergeSummariesIs ==
  ASSUME NEW sums, NEW pages, NEW N \in Nat, N >= 1, Len(sums) = N
  PROVE  \E g : /\ g = MergesTo(sums, pages, N, g)
                /\ mergeSummaries(sums, pages) = packPallocSum(g[N].start, g[N].max, g[N].end)
<1>1. \E g : g = MergesTo(sums, pages, N, g)
  BY MergesExist
<1>2. PICK g : g = CHOOSE h : h = MergesTo(sums, pages, N, h)
  OBVIOUS
<1>3. g = MergesTo(sums, pages, N, g)
  BY <1>1, <1>2
<1>4. mergeSummaries(sums, pages) = packPallocSum(g[N].start, g[N].max, g[N].end)
  BY <1>2 DEF mergeSummaries, MergesTo
<1> HIDE <1>2
<1> QED BY <1>3, <1>4

\* The largest of three.
LEMMA MaxOfThree ==
  ASSUME NEW a \in Nat, NEW c \in Nat, NEW d \in Nat
  PROVE  /\ Max({a, c, d}) \in Nat /\ Max({a, c, d}) >= a /\ Max({a, c, d}) >= c /\ Max({a, c, d}) >= d
         /\ Max({a, c, d}) = a \/ Max({a, c, d}) = c \/ Max({a, c, d}) = d
<1>1. /\ {a, c, d} \subseteq Nat /\ {a, c, d} # {} /\ a + c + d \in Nat
      /\ \A y \in {a, c, d} : y <= a + c + d
  OBVIOUS
<1>2. PICK m : m = Max({a, c, d})
  OBVIOUS
<1>3. m \in {a, c, d} /\ \A y \in {a, c, d} : y <= m
  BY <1>1, <1>2, MaxOfNaturals
<1> QED BY <1>2, <1>3

\* Two runs that meet are one.
LEMMA ClearJoins ==
  ASSUME NEW b, NEW q \in Nat, NEW L \in Nat, NEW M \in Nat, Clear(b, q, L), Clear(b, q + L, M)
  PROVE  Clear(b, q, L + M)
<1> SUFFICES ASSUME NEW p \in Nat, q <= p, p < q + (L + M) PROVE ~get(b, p)
  BY DEF Clear
<1>1. CASE p < q + L
  BY <1>1 DEF Clear
<1>2. CASE q + L <= p
  <2>1. p < (q + L) + M
    OBVIOUS
  <2> QED BY <1>2, <2>1 DEF Clear
<1> QED BY <1>1, <1>2

\* The summary of two parts that meet at page x, from theirs: start.
LEMMA MergeStart ==
  ASSUME NEW b, NEW x \in Nat, NEW y \in Nat, x <= y, NEW s, StartIs(b, 0, x, s),
         NEW t, StartIs(b, x, y, t)
  PROVE  StartIs(b, 0, y, IF s = x THEN s + t ELSE s)
<1>1. s \in Nat /\ 0 + s <= x /\ Clear(b, 0, s) /\ (0 + s < x => get(b, 0 + s))
  BY DEF StartIs
<1>2. t \in Nat /\ x + t <= y /\ Clear(b, x, t) /\ (x + t < y => get(b, x + t))
  BY DEF StartIs
<1>3. CASE s = x
  <2>1. 0 + s = x
    BY <1>3
  <2>2. Clear(b, 0, s + t)
    BY <1>1, <1>2, <2>1, ClearJoins
  <2>3. s + t \in Nat /\ 0 + (s + t) <= y /\ 0 + (s + t) = x + t
    BY <1>1, <1>2, <1>3
  <2>4. StartIs(b, 0, y, s + t)
    BY <1>2, <2>2, <2>3 DEF StartIs
  <2> QED BY <1>3, <2>4
<1>4. CASE s # x
  <2>1. 0 + s < x /\ 0 + s <= y
    BY <1>1, <1>4
  <2>2. StartIs(b, 0, y, s)
    BY <1>1, <2>1 DEF StartIs
  <2> QED BY <1>4, <2>2
<1> QED BY <1>3, <1>4

\* End.
LEMMA MergeEnd ==
  ASSUME NEW b, NEW x \in Nat, NEW y \in Nat, x <= y, NEW e, EndIs(b, 0, x, e),
         NEW d, EndIs(b, x, y, d), NEW n \in Nat, y = x + n
  PROVE  EndIs(b, 0, y, IF d = n THEN e + n ELSE d)
<1>1. e \in Nat /\ 0 + e <= x /\ Clear(b, x - e, e) /\ (0 + e < x => get(b, x - e - 1))
  BY DEF EndIs
<1>2. d \in Nat /\ x + d <= y /\ Clear(b, y - d, d) /\ (x + d < y => get(b, y - d - 1))
  BY DEF EndIs
<1>3. CASE d = n
  <2>1. y - (e + n) = x - e /\ x - e \in Nat /\ (x - e) + e = x /\ y - d = x
    BY <1>1, <1>3
  <2>2. PICK q \in Nat : q = x - e /\ q + e = x
    BY <2>1
  <2>3. Clear(b, q, e) /\ Clear(b, q + e, n)
    BY <1>1, <1>2, <1>3, <2>1, <2>2
  <2>4. Clear(b, q, e + n)
    BY <1>1, <2>3, ClearJoins
  <2>5. e + n \in Nat /\ 0 + (e + n) <= y /\ (0 + (e + n) < y => 0 + e < x)
    BY <1>1
  <2>6. Clear(b, y - (e + n), e + n)
    BY <2>1, <2>2, <2>4
  <2>7. 0 + (e + n) < y => get(b, y - (e + n) - 1)
    BY <1>1, <2>1, <2>5
  <2>8. EndIs(b, 0, y, e + n)
    BY <2>5, <2>6, <2>7 DEF EndIs
  <2> QED BY <1>3, <2>8
<1>4. CASE d # n
  <2>1. x + d < y /\ 0 + d <= y
    BY <1>2, <1>4
  <2>2. EndIs(b, 0, y, d)
    BY <1>2, <2>1 DEF EndIs
  <2> QED BY <1>4, <2>2
<1> QED BY <1>3, <1>4

\* And max: the longest run lies on one side, or crosses from one to the other.
LEMMA MergeMax ==
  ASSUME NEW b, NEW x \in Nat, NEW y \in Nat, x <= y,
         NEW m, MaxIs(b, 0, x, m), NEW k, MaxIs(b, x, y, k),
         NEW e, EndIs(b, 0, x, e), NEW t, StartIs(b, x, y, t)
  PROVE  MaxIs(b, 0, y, Max({m, e + t, k}))
<1>1. e \in Nat /\ 0 + e <= x /\ Clear(b, x - e, e) /\ (0 + e < x => get(b, x - e - 1))
  BY DEF EndIs
<1>2. t \in Nat /\ x + t <= y /\ Clear(b, x, t) /\ (x + t < y => get(b, x + t))
  BY DEF StartIs
<1>3. /\ m \in Nat /\ HasRun(b, 0, x, m)
      /\ \A q, L \in Nat : 0 <= q /\ q + L <= x /\ Clear(b, q, L) => L <= m
  BY DEF MaxIs
<1>4. /\ k \in Nat /\ HasRun(b, x, y, k)
      /\ \A q, L \in Nat : x <= q /\ q + L <= y /\ Clear(b, q, L) => L <= k
  BY DEF MaxIs
<1>M. PICK M \in Nat : /\ M = Max({m, e + t, k}) /\ M >= m /\ M >= e + t /\ M >= k
                       /\ (M = m \/ M = e + t \/ M = k)
  <2>1. e + t \in Nat
    BY <1>1, <1>2
  <2>2. PICK M : M = Max({m, e + t, k})
    OBVIOUS
  <2>3. M \in Nat /\ M >= m /\ M >= e + t /\ M >= k /\ (M = m \/ M = e + t \/ M = k)
    BY <1>3, <1>4, <2>1, <2>2, MaxOfThree
  <2> QED BY <2>2, <2>3
<1>5. HasRun(b, 0, y, M)
  <2>1. HasRun(b, 0, y, m)
    <3>1. PICK q \in Nat : q + m <= x /\ Clear(b, q, m)
      BY <1>3 DEF HasRun
    <3>2. 0 <= q /\ q + m <= y
      BY <1>3, <3>1
    <3> QED BY <3>1, <3>2 DEF HasRun
  <2>2. HasRun(b, 0, y, k)
    <3>1. PICK q \in Nat : x <= q /\ q + k <= y /\ Clear(b, q, k)
      BY <1>4 DEF HasRun
    <3> QED BY <3>1 DEF HasRun
  <2>3. HasRun(b, 0, y, e + t)
    <3>1. PICK q \in Nat : q = x - e /\ q + e = x
      BY <1>1
    <3>2. Clear(b, q, e) /\ Clear(b, q + e, t)
      BY <1>1, <1>2, <3>1
    <3>3. Clear(b, q, e + t)
      BY <1>1, <1>2, <3>2, ClearJoins
    <3>4. 0 <= q /\ q + (e + t) <= y
      BY <1>1, <1>2, <3>1
    <3> QED BY <3>3, <3>4 DEF HasRun
  <2> QED BY <1>M, <2>1, <2>2, <2>3
<1>6. ASSUME NEW q \in Nat, NEW L \in Nat, q + L <= y, Clear(b, q, L) PROVE L <= M
  <2>1. CASE q + L <= x
    <3>1. L <= m
      BY <1>3, <1>6, <2>1
    <3> QED BY <1>3, <1>M, <3>1
  <2>2. CASE x <= q
    <3>1. L <= k
      BY <1>4, <1>6, <2>2
    <3> QED BY <1>4, <1>M, <3>1
  <2>3. CASE ~(q + L <= x) /\ ~(x <= q)
    <3>1. x - e <= q
      <4>1. CASE 0 + e < x
        <5>1. PICK p \in Nat : p = x - e - 1 /\ get(b, p)
          BY <1>1, <4>1
        <5>2. q + L <= p \/ p < q
          BY <1>6, <5>1, ClearSide
        <5> QED BY <1>1, <2>3, <5>1, <5>2
      <4>2. CASE ~(0 + e < x)
        BY <1>1, <4>2
      <4> QED BY <4>1, <4>2
    <3>2. q + L <= x + t
      <4>1. CASE x + t < y
        <5>1. x + t \in Nat /\ get(b, x + t)
          BY <1>2, <4>1
        <5>2. q + L <= x + t \/ x + t < q
          BY <1>6, <5>1, ClearSide
        <5> QED BY <1>2, <2>3, <5>2
      <4>2. CASE ~(x + t < y)
        BY <1>2, <1>6, <4>2
      <4> QED BY <4>1, <4>2
    <3> QED BY <1>1, <1>2, <1>M, <3>1, <3>2
  <2> QED BY <2>1, <2>2, <2>3
<1>7. MaxIs(b, 0, y, M)
  BY <1>5, <1>6 DEF MaxIs
<1> QED BY <1>7, <1>M

\* A turn of mergeSummaries: the next word joins those before it.
LEMMA MergeStepSound ==
  ASSUME NEW b, NEW i \in 0..(Words - 1), NEW z, Sums(b, 0, B(i), z), NEW v, Sums(b, B(i), B(i + 1), v)
  PROVE  Sums(b, 0, B(i + 1), MergeStep(z, v, i, W))
<1>0. W \in Nat /\ B(i) \in Nat /\ B(i + 1) \in Nat /\ B(i + 1) = B(i) + W /\ B(i) <= B(i + 1)
  BY Bases
<1>x. PICK x \in Nat : x = B(i) /\ x = i * W
  BY <1>0 DEF B
<1>y. PICK y \in Nat : y = B(i + 1) /\ y = x + W /\ x <= y
  BY <1>0, <1>x
<1>1. PICK s, m, e : z = [start |-> s, max |-> m, end |-> e] /\ Exact(b, 0, x, s, m, e)
  BY <1>x DEF Sums
<1>2. PICK t, k, d : v = [start |-> t, max |-> k, end |-> d] /\ Exact(b, x, y, t, k, d)
  BY <1>x, <1>y DEF Sums
<1>3. z.start = s /\ z.max = m /\ z.end = e /\ v.start = t /\ v.max = k /\ v.end = d
  BY <1>1, <1>2
<1>s. PICK S : S = (IF s = x THEN s + t ELSE s)
  OBVIOUS
<1>m. PICK M : M = Max({m, e + t, k})
  OBVIOUS
<1>e. PICK E : E = (IF d = W THEN e + W ELSE d)
  OBVIOUS
<1>r. PICK r : r = MergeStep(z, v, i, W)
  OBVIOUS
<1>4. r = [start |-> S, max |-> M, end |-> E]
  BY <1>3, <1>x, <1>s, <1>m, <1>e, <1>r DEF MergeStep
<1>5. StartIs(b, 0, y, S)
  BY <1>1, <1>2, <1>y, <1>s, MergeStart DEF Exact
<1>6. MaxIs(b, 0, y, M)
  BY <1>1, <1>2, <1>y, <1>m, MergeMax DEF Exact
<1>7. EndIs(b, 0, y, E)
  BY <1>0, <1>1, <1>2, <1>y, <1>e, MergeEnd DEF Exact
<1>8. Exact(b, 0, y, S, M, E)
  BY <1>5, <1>6, <1>7 DEF Exact
<1>9. Sums(b, 0, y, r)
  BY <1>4, <1>8, Zenon DEF Sums
<1> QED BY <1>9, <1>r, <1>y

\* Merging the summaries of the words gives what is counted page by page.
LEMMA MergeCounted ==
  ASSUME NEW b \in Bitmap
  PROVE  mergeSummaries([k \in 1..Words |-> summarize(<<b[k - 1]>>)], W) = Counted(b)
<1>0. Words \in Nat /\ Words >= 1 /\ B(0) = 0 /\ B(Words) = pallocChunkPages /\ pallocChunkPages \in Nat
  BY Bases
<1>a. PICK sums : sums = [k \in 1..Words |-> summarize(<<b[k - 1]>>)]
  OBVIOUS
<1>b. Len(sums) = Words
  BY <1>0, <1>a
<1>1. ASSUME NEW i \in 0..(Words - 1) PROVE Sums(b, B(i), B(i + 1), sums[i + 1])
  <2>1. i + 1 \in 1..Words /\ (i + 1) - 1 = i /\ i \in Nat /\ i + 1 <= Words
    BY <1>0
  <2>2. sums[i + 1] = summarize(<<b[i]>>)
    BY <1>a, <2>1
  <2>w. PICK w : w = <<b[i]>>
    OBVIOUS
  <2>3. Len(w) = 1 /\ w[1] = b[i]
    BY <2>w
  <2>4. \A j \in 1..1 : j = 1 /\ i + j - 1 = i
    BY <2>1
  <2>5. Window(b, i, 1, w)
    BY <2>1, <2>3, <2>4 DEF Window
  <2>6. Sums(b, B(i), B(i + 1), summarize(w))
    BY <2>5, summarizeExact
  <2> QED BY <2>2, <2>6, <2>w
<1>2. PICK g : /\ g = MergesTo(sums, W, Words, g)
               /\ mergeSummaries(sums, W) = packPallocSum(g[Words].start, g[Words].max, g[Words].end)
  BY <1>0, <1>b, mergeSummariesIs
<1> DEFINE Good(i) == Sums(b, 0, B(i), g[i])
<1>3. Good(1)
  <2>1. g[1] = sums[1]
    BY <1>0, <1>2 DEF MergesTo
  <2>2. 0 \in 0..(Words - 1) /\ 0 + 1 = 1
    BY <1>0
  <2>3. Sums(b, B(0), B(0 + 1), sums[0 + 1])
    BY <1>1, <2>2
  <2> QED BY <1>0, <2>1, <2>2, <2>3
<1>4. ASSUME NEW i \in 1..(Words - 1), Good(i) PROVE Good(i + 1)
  <2>1. i + 1 \in 1..Words /\ i + 1 # 1 /\ (i + 1) - 1 = i /\ i \in 0..(Words - 1)
    BY <1>0
  <2>2. g[i + 1] = MergeStep(g[(i + 1) - 1], sums[i + 1], (i + 1) - 1, W)
    BY <1>2, <2>1 DEF MergesTo
  <2>z. PICK z : z = g[i]
    OBVIOUS
  <2>v. PICK v : v = sums[i + 1]
    OBVIOUS
  <2>3. g[i + 1] = MergeStep(z, v, i, W)
    BY <2>1, <2>2, <2>z, <2>v
  <2>4. Sums(b, 0, B(i), z) /\ Sums(b, B(i), B(i + 1), v)
    BY <1>1, <1>4, <2>1, <2>z, <2>v
  <2>5. Sums(b, 0, B(i + 1), MergeStep(z, v, i, W))
    BY <2>1, <2>4, MergeStepSound
  <2> QED BY <2>3, <2>5
<1>5. Good(Words)
  <2> DEFINE Bad == {i \in 1..Words : ~Good(i)}
  <2>0. Words \in 1..Words
    BY <1>0
  <2> HIDE DEF Good
  <2> SUFFICES ASSUME Bad # {} PROVE FALSE
    BY <2>0
  <2>1. Bad \subseteq Nat
    BY <1>0
  <2>2. PICK x \in Bad : \A y \in Bad : x <= y
    BY <2>1, LeastNatural
  <2>3. x # 1 /\ x \in 1..Words
    BY <1>3, <2>2
  <2>4. PICK i \in 1..(Words - 1) : i \in 1..Words /\ ~(x <= i) /\ i + 1 = x
    <3>1. x - 1 \in 1..(Words - 1) /\ x - 1 \in 1..Words /\ ~(x <= x - 1) /\ (x - 1) + 1 = x
      BY <1>0, <2>3
    <3> QED BY <3>1
  <2>5. Good(i)
    BY <2>2, <2>4
  <2>6. Good(i + 1)
    BY <1>4, <2>4, <2>5
  <2> QED BY <2>2, <2>4, <2>6
<1>z. PICK z : z = g[Words] /\ Sums(b, 0, pallocChunkPages, z)
  BY <1>0, <1>5
<1>6. PICK s, m, e : z = [start |-> s, max |-> m, end |-> e] /\ Exact(b, 0, pallocChunkPages, s, m, e)
  BY <1>z DEF Sums
<1>7. z.start = s /\ z.max = m /\ z.end = e
  BY <1>6
<1>8. packPallocSum(s, m, e) = z
  <2>1. 0 <= pallocChunkPages /\ pallocChunkPages - 0 <= pallocChunkPages
    BY <1>0
  <2> QED BY <1>0, <1>6, <2>1, PackExact
<1>9. mergeSummaries(sums, W) = z
  BY <1>2, <1>7, <1>8, <1>z
<1> QED BY <1>9, <1>a, <1>z, SumsCounted

-----------------------------------------------------------------------------
(***************************************************************************)
(* The chunk.                                                              *)
(***************************************************************************)
\* Setting bits keeps words words.
LEMMA setRangeTyped ==
  ASSUME NEW b \in Bitmap, NEW i \in Nat, NEW n \in Nat, n >= 1
  PROVE  setRange(b, i, n) \in Bitmap
<1>0. W \in Nat /\ W > 0
  BY Bases
<1>1. i % W \in 0..(W - 1)
  BY <1>0, DivMod
<1>2. PICK j \in Nat : j = i + n - 1
  OBVIOUS
<1>3. j % W \in 0..(W - 1)
  BY <1>0, DivMod
<1>4. CASE n = 1
  <2>1. setRange(b, i, n) = [b EXCEPT ![i \div W] = @ \cup {i % W}]
    BY <1>4 DEF setRange, set
  <2> QED BY <1>1, <2>1 DEF Bitmap, Bit
<1>5. CASE n # 1
  <2>x. PICK x : x = (i % W)..(W - 1)
    OBVIOUS
  <2>y. PICK y : y = 0..(j % W)
    OBVIOUS
  <2>1. x \subseteq Bit /\ y \subseteq Bit
    BY <1>0, <1>1, <1>3, <2>x, <2>y DEF Bit
  <2>c. PICK c : c = [b EXCEPT ![i \div W] = x]
    OBVIOUS
  <2>2. c \in Bitmap
    BY <2>1, <2>c DEF Bitmap
  <2>d. PICK d : d = [k \in DOMAIN b |-> IF i \div W < k /\ k < j \div W THEN Bit ELSE c[k]]
    OBVIOUS
  <2>3. d \in Bitmap
    BY <2>2, <2>d DEF Bitmap
  <2>4. setRange(b, i, n) = [d EXCEPT ![j \div W] = y]
    BY <1>2, <1>5, <2>x, <2>y, <2>c, <2>d DEF setRange
  <2> QED BY <2>1, <2>3, <2>4 DEF Bitmap
<1> QED BY <1>4, <1>5

\* Every word of the chunk is a set of bits, whatever is allocated.
THEOREM WordsTyped == Spec => [](bits \in Bitmap)
<1>1. Init => bits \in Bitmap
  BY DEF Init, Bitmap
<1>2. bits \in Bitmap /\ [Next]_bits => (bits \in Bitmap)'
  <2> SUFFICES ASSUME bits \in Bitmap, [Next]_bits PROVE bits' \in Bitmap
    OBVIOUS
  <2>0. pallocChunkPages \in Nat
    BY Bases
  <2>1. ASSUME NEW i \in Page, NEW n \in 1..pallocChunkPages, allocRange(i, n) PROVE bits' \in Bitmap
    <3>1. i \in Nat /\ n \in Nat /\ n >= 1
      BY <2>0 DEF Page
    <3> QED BY <2>1, <3>1, setRangeTyped DEF allocRange
  <2>2. ASSUME allocAll PROVE bits' \in Bitmap
    BY <2>2 DEF allocAll, setAll, Bitmap
  <2>3. ASSUME NEW i \in Page, allocPages64(i) PROVE bits' \in Bitmap
    <3>1. Not(block64(bits, i)) \subseteq Bit
      BY DEF Not
    <3> QED BY <2>3, <3>1 DEF allocPages64, setBlock64, Bitmap
  <2>4. ASSUME UNCHANGED bits PROVE bits' \in Bitmap
    BY <2>4
  <2> QED BY <2>1, <2>2, <2>3, <2>4 DEF Next
<1> QED BY <1>1, <1>2, PTL DEF Spec

\* find is first fit by address in every bitmap the chunk can have, fails only
\* when nothing fits, and no page below the searchIdx it returns is free
\* (mpallocbits.go, find).
THEOREM FirstFit == Spec => []FindFirstFit
<1>1. bits \in Bitmap => FindFirstFit
  BY AnswersFirstFit
<1> QED BY <1>1, WordsTyped, PTL

\* summarize, which looks inside a word only where it must and there shrinks all
\* runs at once, computes start, max and end as they are counted page by page,
\* in every bitmap the chunk can have (mpallocbits.go, summarize).
THEOREM SummariesExact == Spec => []SummaryExact
<1>1. bits \in Bitmap => SummaryExact
  BY SummaryCounted DEF SummaryExact
<1> QED BY <1>1, WordsTyped, PTL

\* Merging the summaries of the words of a chunk, as the radix tree does on every
\* level, gives the summary of the chunk (mpagealloc.go, mergeSummaries).
THEOREM MergesExact == Spec => []MergeExact
<1>1. bits \in Bitmap => MergeExact
  BY MergeCounted DEF MergeExact
<1> QED BY <1>1, WordsTyped, PTL
=============================================================================
