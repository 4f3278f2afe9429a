---------------------------- MODULE FramerProofs ----------------------------
(***************************************************************************)
(* A MetaHeadersFrame is the decoding of one whole header block, and a     *)
(* frame is read as the call that wrote it said: proofs about Framer for   *)
(* any calls, raw frames, requests and limits, however a block is cut into *)
(* fragments and whatever else is on the wire.                             *)
(*                                                                         *)
(* FieldsFrom walks the representations of a block.  How far the walk has  *)
(* come is said without recursion: every block that begins with the octets *)
(* known so far has the fields found before that position and then those   *)
(* the walk finds from there on.                                           *)
(*                                                                         *)
(* Every frame on the wire is kept in line with its call.  What a parser   *)
(* makes of a payload follows from the parts the Write method joined it of *)
(* and from the digits of the numbers in it.                               *)
(***************************************************************************)
EXTENDS Framer, NaturalsInduction, WellFoundedInduction, SequenceTheorems, TLAPS

-----------------------------------------------------------------------------
(***************************************************************************)
(* Sequences, by their elements.                                           *)
(***************************************************************************)
\* A piece of a sequence.
LEMMA Piece ==
  ASSUME NEW S, NEW s \in Seq(S), NEW a \in Nat, NEW b \in Nat,
         1 <= a, a <= b + 1, b <= Len(s)
  PROVE  /\ SubSeq(s, a, b) \in Seq(S)
         /\ Len(SubSeq(s, a, b)) = b - a + 1
         /\ \A k \in 1 .. b - a + 1 : SubSeq(s, a, b)[k] = s[a + k - 1]
<1>1. Len(s) \in Nat /\ a \in 1 .. Len(s) + 1 /\ b \in a - 1 .. Len(s)
  OBVIOUS
<1> QED BY <1>1, SubSeqProperties

\* Two sequences after each other.
LEMMA Joined ==
  ASSUME NEW S, NEW s \in Seq(S), NEW t \in Seq(S)
  PROVE  /\ s \o t \in Seq(S)
         /\ Len(s \o t) = Len(s) + Len(t)
         /\ \A k \in 1 .. Len(s) : (s \o t)[k] = s[k]
         /\ \A k \in 1 .. Len(t) : (s \o t)[Len(s) + k] = t[k]
OBVIOUS

\* The elements of a sequence.
LEMMA Elements ==
  ASSUME NEW S, NEW s \in Seq(S)
  PROVE  \A i \in 1 .. Len(s) : s[i] \in S
OBVIOUS

\* One element after a sequence.
LEMMA OneMore ==
  ASSUME NEW S, NEW s \in Seq(S), NEW x \in S
  PROVE  /\ s \o <<x>> \in Seq(S) /\ Len(s \o <<x>>) = Len(s) + 1
         /\ (s \o <<x>>)[Len(s) + 1] = x
         /\ \A k \in 1 .. Len(s) : (s \o <<x>>)[k] = s[k]
<1>1. <<x>> \in Seq(S) /\ Len(<<x>>) = 1 /\ <<x>>[1] = x
  OBVIOUS
<1>t. PICK t \in Seq(S) : t = <<x>> /\ Len(t) = 1 /\ t[1] = x
  BY <1>1
<1>2. /\ s \o t \in Seq(S) /\ Len(s \o t) = Len(s) + Len(t)
      /\ \A k \in 1 .. Len(s) : (s \o t)[k] = s[k]
      /\ \A k \in 1 .. Len(t) : (s \o t)[Len(s) + k] = t[k]
  BY Joined
<1>3. 1 \in 1 .. 1
  OBVIOUS
<1> QED BY <1>t, <1>2, <1>3

\* Sequences with the same elements are the same.
LEMMA SameElements ==
  ASSUME NEW S, NEW s \in Seq(S), NEW t \in Seq(S), Len(s) = Len(t),
         \A k \in 1 .. Len(s) : s[k] = t[k]
  PROVE  s = t
OBVIOUS

\* x is s followed by t.
JoinOf(x, s, t) == x = s \o t

\* Joined, of a named sequence.
LEMMA JoinedAs ==
  ASSUME NEW S, NEW s \in Seq(S), NEW t \in Seq(S), NEW x, JoinOf(x, s, t)
  PROVE  /\ x \in Seq(S)
         /\ Len(x) = Len(s) + Len(t)
         /\ \A k \in 1 .. Len(s) : x[k] = s[k]
         /\ \A k \in 1 .. Len(t) : x[Len(s) + k] = t[k]
BY Joined DEF JoinOf

\* Three sequences in a row, put together in either order.
LEMMA Regrouped ==
  ASSUME NEW S, NEW s \in Seq(S), NEW t \in Seq(S), NEW u \in Seq(S),
         NEW st, JoinOf(st, s, t), NEW tu, JoinOf(tu, t, u), NEW x, JoinOf(x, st, u)
  PROVE  JoinOf(x, s, tu)
<1>1. /\ st \in Seq(S) /\ Len(st) = Len(s) + Len(t)
      /\ \A k \in 1 .. Len(s) : st[k] = s[k]
      /\ \A k \in 1 .. Len(t) : st[Len(s) + k] = t[k]
  BY JoinedAs
<1>2. /\ tu \in Seq(S) /\ Len(tu) = Len(t) + Len(u)
      /\ \A k \in 1 .. Len(t) : tu[k] = t[k]
      /\ \A k \in 1 .. Len(u) : tu[Len(t) + k] = u[k]
  BY JoinedAs
<1>3. /\ x \in Seq(S) /\ Len(x) = Len(st) + Len(u)
      /\ \A k \in 1 .. Len(st) : x[k] = st[k]
      /\ \A k \in 1 .. Len(u) : x[Len(st) + k] = u[k]
  <2>1. st \in Seq(S)
    BY <1>1
  <2> HIDE <1>1
  <2> QED BY <2>1, JoinedAs
<1>y. PICK y : y = s \o tu
  OBVIOUS
<1>4. /\ y \in Seq(S) /\ Len(y) = Len(s) + Len(tu)
      /\ \A k \in 1 .. Len(s) : y[k] = s[k]
      /\ \A k \in 1 .. Len(tu) : y[Len(s) + k] = tu[k]
  BY <1>2, <1>y, Joined
<1>n. Len(s) \in Nat /\ Len(t) \in Nat /\ Len(u) \in Nat
  OBVIOUS
<1>5. Len(x) = Len(y) /\ Len(x) = Len(s) + Len(t) + Len(u)
  BY <1>1, <1>2, <1>3, <1>4, <1>n
<1>6. ASSUME NEW k \in 1 .. Len(x) PROVE x[k] = y[k]
  <2>1. CASE k \in 1 .. Len(s)
    <3>1. k \in 1 .. Len(st)
      BY <1>1, <1>n, <2>1
    <3> QED BY <1>1, <1>3, <1>4, <2>1, <3>1
  <2>2. ASSUME NEW j \in 1 .. Len(t), k = Len(s) + j PROVE x[k] = y[k]
    <3>1. k \in 1 .. Len(st) /\ j \in 1 .. Len(tu)
      BY <1>1, <1>2, <1>n, <2>2
    <3>2. x[k] = st[k] /\ st[k] = t[j]
      BY <1>1, <1>3, <2>2, <3>1
    <3>3. y[k] = tu[j] /\ tu[j] = t[j]
      BY <1>2, <1>4, <2>2, <3>1
    <3> QED BY <3>2, <3>3
  <2>3. ASSUME NEW j \in 1 .. Len(u), k = Len(s) + Len(t) + j PROVE x[k] = y[k]
    <3>1. k = Len(st) + j /\ Len(t) + j \in 1 .. Len(tu) /\ k = Len(s) + (Len(t) + j)
      BY <1>1, <1>2, <1>n, <2>3
    <3>2. x[k] = u[j]
      BY <1>3, <3>1
    <3>3. y[k] = tu[Len(t) + j] /\ tu[Len(t) + j] = u[j]
      BY <1>2, <1>4, <3>1
    <3> QED BY <3>2, <3>3
  <2>4. \/ k \in 1 .. Len(s)
        \/ k - Len(s) \in 1 .. Len(t) /\ k = Len(s) + (k - Len(s))
        \/ /\ k - Len(s) - Len(t) \in 1 .. Len(u)
           /\ k = Len(s) + Len(t) + (k - Len(s) - Len(t))
    BY <1>5, <1>n
  <2> QED BY <2>1, <2>2, <2>3, <2>4
<1>7. x = y
  BY <1>3, <1>4, <1>5, <1>6, SameElements
<1> QED BY <1>7, <1>y DEF JoinOf

\* A beginning of a sequence has its elements.
LEMMA PrefixElements ==
  ASSUME NEW S, NEW s \in Seq(S), NEW t \in Seq(S)
  PROVE  IsPrefix(s, t) <=> Len(s) <= Len(t) /\ \A k \in 1 .. Len(s) : s[k] = t[k]
<1>1. /\ SubSeq(s, 1, Len(s)) \in Seq(S) /\ Len(SubSeq(s, 1, Len(s))) = Len(s)
      /\ \A k \in 1 .. Len(s) : SubSeq(s, 1, Len(s))[k] = s[k]
  BY Piece
<1>2. ASSUME Len(s) <= Len(t)
      PROVE  /\ SubSeq(t, 1, Len(s)) \in Seq(S) /\ Len(SubSeq(t, 1, Len(s))) = Len(s)
             /\ \A k \in 1 .. Len(s) : SubSeq(t, 1, Len(s))[k] = t[k]
  BY <1>2, Piece
<1>3. ASSUME IsPrefix(s, t) PROVE Len(s) <= Len(t) /\ \A k \in 1 .. Len(s) : s[k] = t[k]
  BY <1>1, <1>2, <1>3 DEF IsPrefix
<1>4. ASSUME Len(s) <= Len(t), \A k \in 1 .. Len(s) : s[k] = t[k] PROVE IsPrefix(s, t)
  <2>p. PICK p \in Seq(S) : p = SubSeq(s, 1, Len(s))
    BY <1>1
  <2>q. PICK q \in Seq(S) : q = SubSeq(t, 1, Len(s))
    BY <1>2, <1>4
  <2>1. Len(p) = Len(s) /\ Len(q) = Len(s) /\ \A k \in 1 .. Len(s) : p[k] = q[k]
    BY <1>1, <1>2, <1>4, <2>p, <2>q
  <2>2. p = q
    BY <2>1, SameElements
  <2> QED BY <1>4, <2>2, <2>p, <2>q DEF IsPrefix
<1> QED BY <1>3, <1>4

\* What follows a sequence leaves it a beginning.
LEMMA PrefixOfJoined ==
  ASSUME NEW S, NEW s \in Seq(S), NEW t \in Seq(S)
  PROVE  IsPrefix(s, s \o t)
<1>1. s \o t \in Seq(S) /\ Len(s \o t) = Len(s) + Len(t) /\ Len(s) \in Nat /\ Len(t) \in Nat
  BY Joined
<1>2. \A k \in 1 .. Len(s) : (s \o t)[k] = s[k]
  BY Joined
<1>p. PICK p \in Seq(S) : p = s \o t
  BY <1>1
<1>3. Len(s) <= Len(p) /\ \A k \in 1 .. Len(s) : s[k] = p[k]
  BY <1>1, <1>2, <1>p
<1>4. IsPrefix(s, p)
  BY <1>3, PrefixElements
<1> QED BY <1>4, <1>p

\* Being a beginning is transitive.
LEMMA PrefixTransitive ==
  ASSUME NEW S, NEW s \in Seq(S), NEW t \in Seq(S), NEW u \in Seq(S),
         IsPrefix(s, t), IsPrefix(t, u)
  PROVE  IsPrefix(s, u)
<1>1. Len(s) <= Len(t) /\ \A k \in 1 .. Len(s) : s[k] = t[k]
  BY PrefixElements
<1>2. Len(t) <= Len(u) /\ \A k \in 1 .. Len(t) : t[k] = u[k]
  BY PrefixElements
<1>3. Len(s) <= Len(u) /\ \A k \in 1 .. Len(s) : s[k] = u[k]
  BY <1>1, <1>2
<1> QED BY <1>3, PrefixElements

-----------------------------------------------------------------------------
(***************************************************************************)
(* Least numbers.  A least counterexample takes the place of induction.    *)
(***************************************************************************)
\* A set of naturals that is not empty has a least member.
LEMMA LeastNatural ==
  ASSUME NEW T, T \subseteq Nat, T # {}
  PROVE  \E x \in T : \A y \in T : x <= y
<1> DEFINE R == OpToRel(<, Nat)
<1>1. IsWellFoundedOn(R, Nat)
  BY NatLessThanWellFounded
<1> HIDE DEF R
<1>2. PICK x \in T : \A y \in T : ~ (<<y, x>> \in R)
  BY <1>1, WFMin
<1>3. \A y \in T : y < x => <<y, x>> \in R
  BY <1>2 DEF R, OpToRel
<1>4. \A y \in T : ~ (y < x)
  BY <1>2, <1>3
<1> QED BY <1>4

\* Min of a set with a least member is that member.
LEMMA MinIs ==
  ASSUME NEW T, T \subseteq Nat, NEW x \in T, \A y \in T : x <= y
  PROVE  Min(T) = x
<1>1. Min(T) \in T /\ \A y \in T : Min(T) <= y
  BY DEF Min
<1>m. PICK m : m = Min(T)
  OBVIOUS
<1>2. m \in Nat /\ x \in Nat /\ m <= x /\ x <= m
  BY <1>1, <1>m
<1>3. m = x
  BY <1>2
<1> QED BY <1>3, <1>m

\* A set of naturals with a bound has a greatest member.
LEMMA GreatestNatural ==
  ASSUME NEW N \in Nat, NEW T, T \subseteq 0 .. N, T # {}
  PROVE  \E x \in T : \A y \in T : y <= x
<1> DEFINE U == {N - y : y \in T}
<1>0. \A y \in T : y \in Nat /\ N - y \in Nat
  OBVIOUS
<1>1. U \subseteq Nat /\ U # {}
  BY <1>0, Zenon
<1>2. PICK u \in U : \A y \in U : u <= y
  BY <1>1, LeastNatural
<1>3. PICK x \in T : u = N - x
  OBVIOUS
<1>4. ASSUME NEW y \in T PROVE y <= x
  <2>1. N - y \in U
    OBVIOUS
  <2>2. u <= N - y /\ y \in 0 .. N /\ x \in 0 .. N
    BY <1>2, <2>1
  <2> QED BY <1>3, <2>2
<1> QED BY <1>4

\* The smaller of two numbers.
LEMMA MinOfTwo ==
  ASSUME NEW a \in Nat, NEW b \in Nat
  PROVE  Min({a, b}) = IF a <= b THEN a ELSE b
<1>1. CASE a <= b
  <2>1. {a, b} \subseteq Nat /\ a \in {a, b} /\ \A y \in {a, b} : a <= y
    BY <1>1
  <2> QED BY <1>1, <2>1, MinIs
<1>2. CASE ~ (a <= b)
  <2>1. {a, b} \subseteq Nat /\ b \in {a, b} /\ \A y \in {a, b} : b <= y
    BY <1>2
  <2> QED BY <1>2, <2>1, MinIs
<1> QED BY <1>1, <1>2

-----------------------------------------------------------------------------
(***************************************************************************)
(* What is left of a sequence.                                             *)
(***************************************************************************)
\* p[k:].
LEMMA Rest ==
  ASSUME NEW S, NEW s \in Seq(S), NEW k \in Nat, k <= Len(s)
  PROVE  /\ From(s, k) \in Seq(S)
         /\ Len(From(s, k)) = Len(s) - k
         /\ \A j \in 1 .. Len(s) - k : From(s, k)[j] = s[k + j]
<1>n. PICK n \in Nat : n = Len(s)
  OBVIOUS
<1>a. PICK a \in Nat : a = k + 1 /\ 1 <= a /\ a <= n + 1
  BY <1>n
<1>1. SubSeq(s, a, n) \in Seq(S)
  BY <1>n, <1>a, Piece
<1>2. Len(SubSeq(s, a, n)) = n - a + 1
  BY <1>n, <1>a, Piece
<1>3. \A j \in 1 .. n - a + 1 : SubSeq(s, a, n)[j] = s[a + j - 1]
  BY <1>n, <1>a, Piece
<1>4. From(s, k) = SubSeq(s, a, n)
  BY <1>n, <1>a DEF From
<1>5. n - a + 1 = n - k
  BY <1>a
<1>6. ASSUME NEW j \in 1 .. n - k PROVE SubSeq(s, a, n)[j] = s[k + j]
  <2>1. a + j - 1 = k + j
    BY <1>a
  <2> QED BY <1>3, <1>5, <2>1
<1> QED BY <1>1, <1>2, <1>4, <1>5, <1>6, <1>n

\* p[k:][t:].
LEMMA RestOfRest ==
  ASSUME NEW S, NEW s \in Seq(S), NEW k \in Nat, NEW t \in Nat, k + t <= Len(s)
  PROVE  From(From(s, k), t) = From(s, k + t)
<1>n. PICK n \in Nat : n = Len(s) /\ k <= n /\ k + t \in Nat /\ k + t <= n /\ t <= n - k
  OBVIOUS
<1>r. PICK r \in Seq(S) : /\ r = From(s, k) /\ Len(r) = n - k
                          /\ \A j \in 1 .. n - k : r[j] = s[k + j]
  <2>1. /\ From(s, k) \in Seq(S) /\ Len(From(s, k)) = Len(s) - k
        /\ \A j \in 1 .. Len(s) - k : From(s, k)[j] = s[k + j]
    BY <1>n, Rest
  <2> QED BY <1>n, <2>1
<1>p. PICK p \in Seq(S) : /\ p = From(r, t) /\ Len(p) = n - k - t
                          /\ \A j \in 1 .. n - k - t : p[j] = r[t + j]
  <2>1. t <= Len(r)
    BY <1>n, <1>r
  <2>2. /\ From(r, t) \in Seq(S) /\ Len(From(r, t)) = Len(r) - t
        /\ \A j \in 1 .. Len(r) - t : From(r, t)[j] = r[t + j]
    BY <2>1, Rest
  <2> QED BY <1>r, <2>2
<1>q. PICK q \in Seq(S) : /\ q = From(s, k + t) /\ Len(q) = n - (k + t)
                          /\ \A j \in 1 .. n - (k + t) : q[j] = s[k + t + j]
  <2>m. PICK m \in Nat : m = k + t /\ m <= Len(s)
    BY <1>n
  <2>2. /\ From(s, m) \in Seq(S) /\ Len(From(s, m)) = Len(s) - m
        /\ \A j \in 1 .. Len(s) - m : From(s, m)[j] = s[m + j]
    BY <2>m, Rest
  <2> QED BY <1>n, <2>m, <2>2
<1>1. Len(p) = Len(q) /\ Len(p) = n - k - t
  <2>1. Len(p) = n - k - t
    BY <1>p
  <2>2. Len(q) = n - (k + t)
    BY <1>q
  <2> QED BY <2>1, <2>2
<1>2. ASSUME NEW j \in 1 .. Len(p) PROVE p[j] = q[j]
  <2>1. j \in 1 .. n - k - t /\ j \in 1 .. n - (k + t) /\ t + j \in 1 .. n - k
    BY <1>1, <1>n
  <2>2. k + (t + j) = k + t + j
    BY <2>1
  <2> QED BY <1>p, <1>q, <1>r, <2>1, <2>2
<1>3. p = q
  BY <1>1, <1>2, SameElements
<1> QED BY <1>3, <1>p, <1>q, <1>r

\* What follows s follows the rest of s.
LEMMA RestJoined ==
  ASSUME NEW S, NEW s \in Seq(S), NEW u \in Seq(S), NEW k \in Nat, k <= Len(s),
         NEW x, JoinOf(x, s, u)
  PROVE  From(s, k) \o u = From(x, k)
<1>n. PICK n \in Nat : n = Len(s) /\ k <= n
  OBVIOUS
<1>l. PICK l \in Nat : l = Len(u)
  OBVIOUS
<1>x. /\ x \in Seq(S) /\ Len(x) = n + l
      /\ \A j \in 1 .. n : x[j] = s[j]
      /\ \A j \in 1 .. l : x[n + j] = u[j]
  BY <1>n, <1>l, JoinedAs
<1>r. PICK r \in Seq(S) : /\ r = From(s, k) /\ Len(r) = n - k
                          /\ \A j \in 1 .. n - k : r[j] = s[k + j]
  <2>1. /\ From(s, k) \in Seq(S) /\ Len(From(s, k)) = Len(s) - k
        /\ \A j \in 1 .. Len(s) - k : From(s, k)[j] = s[k + j]
    BY <1>n, Rest
  <2> QED BY <1>n, <2>1
<1>p. PICK p \in Seq(S) : /\ p = r \o u /\ Len(p) = n - k + l
                          /\ \A j \in 1 .. n - k : p[j] = r[j]
                          /\ \A j \in 1 .. l : p[n - k + j] = u[j]
  <2>1. /\ r \o u \in Seq(S) /\ Len(r \o u) = Len(r) + Len(u)
        /\ \A j \in 1 .. Len(r) : (r \o u)[j] = r[j]
        /\ \A j \in 1 .. Len(u) : (r \o u)[Len(r) + j] = u[j]
    BY Joined
  <2>2. Len(r) = n - k /\ Len(u) = l
    BY <1>l, <1>r
  <2> QED BY <2>1, <2>2
<1>q. PICK q \in Seq(S) : /\ q = From(x, k) /\ Len(q) = n + l - k
                          /\ \A j \in 1 .. n + l - k : q[j] = x[k + j]
  <2>1. k <= Len(x) /\ x \in Seq(S)
    BY <1>n, <1>l, <1>x
  <2>2. /\ From(x, k) \in Seq(S) /\ Len(From(x, k)) = Len(x) - k
        /\ \A j \in 1 .. Len(x) - k : From(x, k)[j] = x[k + j]
    BY <2>1, Rest
  <2> QED BY <1>x, <2>2
<1>1. Len(p) = Len(q) /\ Len(p) = n - k + l
  BY <1>n, <1>p, <1>q
<1>2. ASSUME NEW j \in 1 .. Len(p) PROVE p[j] = q[j]
  <2>0. j \in 1 .. n + l - k /\ q[j] = x[k + j]
    BY <1>1, <1>n, <1>q
  <2>1. CASE j <= n - k
    <3>1. j \in 1 .. n - k /\ k + j \in 1 .. n
      BY <1>1, <1>n, <2>1
    <3> QED BY <1>p, <1>r, <1>x, <2>0, <3>1
  <2>2. CASE ~ (j <= n - k)
    <3>i. PICK i \in 1 .. l : j = n - k + i /\ k + j = n + i
      <4>1. j - (n - k) \in 1 .. l /\ j = n - k + (j - (n - k)) /\ k + j = n + (j - (n - k))
        BY <1>1, <1>n, <1>l, <2>2
      <4> QED BY <4>1
    <3> QED BY <1>p, <1>x, <2>0, <3>i
  <2> QED BY <2>1, <2>2
<1>3. p = q
  BY <1>1, <1>2, SameElements
<1> QED BY <1>3, <1>p, <1>q, <1>r

\* The rest of a beginning of s begins the rest of s.
LEMMA RestOfPrefix ==
  ASSUME NEW S, NEW s \in Seq(S), NEW z \in Seq(S), IsPrefix(s, z), NEW k \in Nat, k <= Len(s)
  PROVE  IsPrefix(From(s, k), From(z, k))
<1>0. Len(s) <= Len(z) /\ Len(s) \in Nat /\ Len(z) \in Nat /\ \A j \in 1 .. Len(s) : s[j] = z[j]
  BY PrefixElements
<1>p. PICK p \in Seq(S) : /\ p = From(s, k) /\ Len(p) = Len(s) - k
                          /\ \A j \in 1 .. Len(s) - k : p[j] = s[k + j]
  <2>1. /\ From(s, k) \in Seq(S) /\ Len(From(s, k)) = Len(s) - k
        /\ \A j \in 1 .. Len(s) - k : From(s, k)[j] = s[k + j]
    BY Rest
  <2> QED BY <2>1
<1>q. PICK q \in Seq(S) : /\ q = From(z, k) /\ Len(q) = Len(z) - k
                          /\ \A j \in 1 .. Len(z) - k : q[j] = z[k + j]
  <2>1. k <= Len(z)
    BY <1>0
  <2>2. /\ From(z, k) \in Seq(S) /\ Len(From(z, k)) = Len(z) - k
        /\ \A j \in 1 .. Len(z) - k : From(z, k)[j] = z[k + j]
    BY <2>1, Rest
  <2> QED BY <2>2
<1>1. Len(p) <= Len(q)
  BY <1>0, <1>p, <1>q
<1>2. ASSUME NEW j \in 1 .. Len(p) PROVE p[j] = q[j]
  <2>1. j \in 1 .. Len(s) - k /\ j \in 1 .. Len(z) - k /\ k + j \in 1 .. Len(s)
    BY <1>0, <1>p
  <2> QED BY <1>0, <1>p, <1>q, <2>1
<1>3. IsPrefix(p, q)
  BY <1>1, <1>2, PrefixElements
<1> QED BY <1>3, <1>p, <1>q

-----------------------------------------------------------------------------
(***************************************************************************)
(* One representation.                                                     *)
(***************************************************************************)
\* A field has a size.
LEMMA FieldFacts ==
  ASSUME NEW f \in Encodable
  PROVE  f.value \in Nat /\ FieldSize(f) \in Nat
<1>1. Octet \in Nat
  BY OctetAssumption
<1>2. f.value \in Nat
  <2>1. CASE f \in Range(Static)
    BY <2>1, HpackAssumption DEF Range
  <2>2. CASE f \in [name : Range(NameAt), value : Octets]
    BY <1>1, <2>2 DEF Octets
  <2> QED BY <2>1, <2>2 DEF Encodable
<1> QED BY <1>2, SizeAssumption DEF FieldSize

\* What a representation yields: a field, or nothing.
Yield(F) == F \in Seq(Encodable) /\ (F = <<>> \/ (F = <<F[1]>> /\ F[1] \in Encodable))

\* A size update.
LEMMA YieldNothing == Yield(<<>>)
<1>1. <<>> \in Seq(Encodable)
  OBVIOUS
<1> QED BY <1>1 DEF Yield

\* A field.
LEMMA YieldOne ==
  ASSUME NEW f \in Encodable
  PROVE  Yield(<<f>>)
<1>1. <<f>> \in Seq(Encodable) /\ <<f>>[1] = f
  OBVIOUS
<1> QED BY <1>1 DEF Yield

\* What parseHeaderFieldRepr takes is there, and is a field or a size update.
LEMMA ReprType ==
  ASSUME NEW buf \in Seq(Octets), Len(buf) >= 1
  PROVE  /\ Repr(buf).takes \in {0, 1, 3} /\ Repr(buf).takes <= Len(buf)
         /\ Yield(Repr(buf).fields)
         /\ Repr(buf).bad \in BOOLEAN
<1>0. Len(buf) \in Nat /\ \A j \in 1 .. Len(buf) : buf[j] \in Octets
  OBVIOUS
<1>1. CASE buf[1] \in DOMAIN Static
  <2>1. Repr(buf) = [takes |-> 1, fields |-> <<Static[buf[1]]>>, bad |-> FALSE]
    BY <1>1 DEF Repr
  <2>2. Static[buf[1]] \in Encodable
    BY <1>1 DEF Encodable, Range
  <2>3. Yield(<<Static[buf[1]]>>)
    BY <2>2, YieldOne
  <2> QED BY <1>0, <2>1, <2>3
<1>2. CASE buf[1] \notin DOMAIN Static
  <2> DEFINE wrong == \/ buf[1] \notin {LiteralOctet, NeverOctet}
                      \/ Len(buf) > 1 /\ buf[2] \notin DOMAIN NameAt
  <2>0. CASE buf[1] = SizeUpdate
    <3>1. Repr(buf) = [takes |-> 1, fields |-> <<>>, bad |-> FALSE]
      BY <1>2, <2>0 DEF Repr
    <3> QED BY <1>0, <3>1, YieldNothing
  <2>1. CASE buf[1] # SizeUpdate /\ wrong
    <3>1. Repr(buf) = [takes |-> 0, fields |-> <<>>, bad |-> TRUE]
      BY <1>2, <2>1 DEF Repr
    <3> QED BY <1>0, <3>1, YieldNothing
  <2>2. CASE buf[1] # SizeUpdate /\ ~wrong /\ Len(buf) < 3
    <3>1. Repr(buf) = [takes |-> 0, fields |-> <<>>, bad |-> FALSE]
      BY <1>2, <2>2 DEF Repr
    <3> QED BY <1>0, <3>1, YieldNothing
  <2>3. CASE buf[1] # SizeUpdate /\ ~wrong /\ ~ (Len(buf) < 3)
    <3>1. Repr(buf) = [takes |-> 3, fields |-> <<[name |-> NameAt[buf[2]], value |-> buf[3]]>>,
                       bad |-> FALSE]
      BY <1>2, <2>3 DEF Repr
    <3>2. buf[2] \in DOMAIN NameAt /\ buf[3] \in Octets /\ 3 <= Len(buf)
      BY <1>0, <2>3
    <3>3. [name |-> NameAt[buf[2]], value |-> buf[3]] \in Encodable
      BY <3>2 DEF Encodable, Range
    <3>4. Yield(<<[name |-> NameAt[buf[2]], value |-> buf[3]]>>)
      BY <3>3, YieldOne
    <3> QED BY <1>0, <3>1, <3>2, <3>4
  <2> QED BY <2>0, <2>1, <2>2, <2>3
<1> QED BY <1>1, <1>2

\* A representation that is complete is not changed by what follows it.
LEMMA ReprStays ==
  ASSUME NEW buf \in Seq(Octets), NEW more \in Seq(Octets), IsPrefix(buf, more),
         Len(buf) >= 1, Repr(buf).takes # 0
  PROVE  Repr(more) = Repr(buf)
<1>0. /\ Len(buf) \in Nat /\ Len(more) \in Nat /\ Len(buf) <= Len(more)
      /\ \A j \in 1 .. Len(buf) : buf[j] = more[j]
  BY PrefixElements
<1>1. buf[1] = more[1]
  BY <1>0
<1>2. CASE buf[1] \in DOMAIN Static
  BY <1>1, <1>2 DEF Repr
<1>3. CASE buf[1] \notin DOMAIN Static /\ buf[1] = SizeUpdate
  BY <1>1, <1>3 DEF Repr
<1>4. CASE buf[1] \notin DOMAIN Static /\ buf[1] # SizeUpdate
  <2>1. /\ ~ (\/ buf[1] \notin {LiteralOctet, NeverOctet}
              \/ Len(buf) > 1 /\ buf[2] \notin DOMAIN NameAt)
        /\ ~ (Len(buf) < 3)
    BY <1>4 DEF Repr
  <2>2. Len(buf) >= 3 /\ Len(more) >= 3 /\ buf[2] = more[2] /\ buf[3] = more[3]
    BY <1>0, <2>1
  <2> QED BY <1>1, <1>4, <2>1, <2>2 DEF Repr
<1> QED BY <1>2, <1>3, <1>4

-----------------------------------------------------------------------------
(***************************************************************************)
(* The walk over the representations of a header block.                    *)
(***************************************************************************)
\* The representation at position i.
ReprAt(o, i) == Repr(From(o, i - 1))

\* The representation at i yields F, and the next one is at k.
FieldAt(o, i, F, k) ==
  /\ i <= Len(o) /\ ReprAt(o, i).takes # 0
  /\ F = ReprAt(o, i).fields /\ k = i + ReprAt(o, i).takes

\* It is a field or nothing, and ends within the block.
LEMMA FieldAtType ==
  ASSUME NEW o \in Seq(Octets), NEW i \in Nat, 1 <= i, NEW F, NEW k, FieldAt(o, i, F, k)
  PROVE  Yield(F) /\ k \in Nat /\ i < k /\ k <= Len(o) + 1
<1>n. PICK n \in Nat : n = Len(o) /\ i <= n
  BY DEF FieldAt
<1>j. PICK j \in Nat : j = i - 1 /\ j <= n /\ i = j + 1
  BY <1>n
<1>1. From(o, j) \in Seq(Octets) /\ Len(From(o, j)) = n - j
  BY <1>n, <1>j, Rest
<1>b. PICK b \in Seq(Octets) : b = From(o, j) /\ Len(b) = n - j
  BY <1>1
<1>2. Len(b) >= 1
  BY <1>n, <1>j, <1>b
<1>3. /\ Repr(b).takes \in {0, 1, 3} /\ Repr(b).takes <= Len(b)
      /\ Yield(Repr(b).fields)
  BY <1>2, ReprType
<1>4. ReprAt(o, i) = Repr(b)
  BY <1>b, <1>j DEF ReprAt
<1>5. Repr(b).takes # 0 /\ F = Repr(b).fields /\ k = i + Repr(b).takes
  BY <1>4 DEF FieldAt
<1>6. Yield(F)
  BY <1>3, <1>5
<1>t. PICK t \in {1, 3} : t = Repr(b).takes /\ t <= n - j /\ k = i + t
  BY <1>3, <1>5, <1>b
<1>7. k \in Nat /\ i < k /\ k <= n + 1
  BY <1>t, <1>j, <1>n
<1> QED BY <1>6, <1>7, <1>n

\* More octets do not change it.
LEMMA FieldStays ==
  ASSUME NEW o \in Seq(Octets), NEW z \in Seq(Octets), IsPrefix(o, z),
         NEW i \in Nat, 1 <= i, NEW F, NEW k, FieldAt(o, i, F, k)
  PROVE  FieldAt(z, i, F, k)
<1>n. PICK n \in Nat : n = Len(o) /\ i <= n
  BY DEF FieldAt
<1>0. n <= Len(z) /\ Len(z) \in Nat
  BY <1>n, PrefixElements
<1>j. PICK j \in Nat : j = i - 1 /\ j <= n /\ i = j + 1 /\ j <= Len(z)
  BY <1>0, <1>n
<1>1. From(o, j) \in Seq(Octets) /\ Len(From(o, j)) = n - j
  BY <1>n, <1>j, Rest
<1>b. PICK b \in Seq(Octets) : b = From(o, j) /\ Len(b) = n - j
  BY <1>1
<1>2. From(z, j) \in Seq(Octets)
  BY <1>j, Rest
<1>c. PICK c \in Seq(Octets) : c = From(z, j)
  BY <1>2
<1>3. IsPrefix(From(o, j), From(z, j))
  BY <1>n, <1>j, RestOfPrefix
<1>4. IsPrefix(b, c)
  BY <1>3, <1>b, <1>c
<1>5. ReprAt(o, i) = Repr(b) /\ ReprAt(z, i) = Repr(c)
  BY <1>b, <1>c, <1>j DEF ReprAt
<1>6. Repr(b).takes # 0
  BY <1>5 DEF FieldAt
<1>7. Len(b) >= 1
  BY <1>n, <1>j, <1>b
<1>8. Repr(c) = Repr(b)
  BY <1>4, <1>6, <1>7, ReprStays
<1>9. i <= Len(z)
  BY <1>0, <1>n
<1> QED BY <1>5, <1>8, <1>9 DEF FieldAt

\* The fields from i on, given those g from later positions.
FieldsStep(o, i, g) ==
  IF i = Len(o) + 1 \/ ReprAt(o, i).takes = 0 THEN <<>>
  ELSE ReprAt(o, i).fields \o g[i + ReprAt(o, i).takes]
FieldsTo(o, m, g) == [i \in m .. Len(o) + 1 |-> FieldsStep(o, i, g)]

\* The walks exist: a last position without one would get its walk from
\* those of the positions after it.
LEMMA FieldsExist ==
  ASSUME NEW o \in Seq(Octets)
  PROVE  \A d \in 0 .. Len(o) + 1 : \E g : g = FieldsTo(o, Len(o) + 2 - d, g)
<1> DEFINE Missing == {d \in 0 .. Len(o) + 1 : ~ \E g : g = FieldsTo(o, Len(o) + 2 - d, g)}
<1> SUFFICES ASSUME Missing # {} PROVE FALSE
  OBVIOUS
<1>0. Len(o) \in Nat
  OBVIOUS
<1>1. Missing \subseteq Nat
  BY <1>0
<1>2. PICK x \in Missing : \A y \in Missing : x <= y
  BY <1>1, LeastNatural
<1>3. CASE x = 0
  <2> DEFINE g == [k \in {} |-> 0]
  <2>1. (Len(o) + 2 - 0) .. Len(o) + 1 = {}
    BY <1>0
  <2>2. g = FieldsTo(o, Len(o) + 2 - 0, g)
    BY <2>1 DEF FieldsTo
  <2> QED BY <1>2, <1>3, <2>2
<1>4. CASE x # 0
  <2>1. x - 1 \in 0 .. Len(o) + 1 /\ x \in 0 .. Len(o) + 1 /\ ~ (x <= x - 1)
    BY <1>0, <1>4
  <2>2. PICK f : f = FieldsTo(o, Len(o) + 2 - (x - 1), f)
    BY <1>2, <2>1
  <2>0. /\ Len(o) + 2 - x \in Nat /\ 1 <= Len(o) + 2 - x
        /\ Len(o) + 2 - x <= Len(o) + 1
    BY <1>0, <1>4, <2>1
  <2>m. PICK m \in Nat : m = Len(o) + 2 - x /\ 1 <= m /\ m <= Len(o) + 1
    BY <2>0
  <2>3. Len(o) + 2 - (x - 1) = m + 1
    BY <1>0, <2>1, <2>m
  <2>4. \A i \in m + 1 .. Len(o) + 1 : f[i] = FieldsStep(o, i, f)
    BY <2>2, <2>3 DEF FieldsTo
  <2> DEFINE g == [i \in m .. Len(o) + 1 |-> IF i = m THEN FieldsStep(o, m, f) ELSE f[i]]
  <2>5. \A i \in m + 1 .. Len(o) + 1 : g[i] = f[i]
    BY <1>0, <2>m
  <2>6. ASSUME NEW i \in m .. Len(o) + 1 PROVE FieldsStep(o, i, g) = FieldsStep(o, i, f)
    <3>1. CASE i = Len(o) + 1 \/ ReprAt(o, i).takes = 0
      BY <3>1 DEF FieldsStep
    <3>2. CASE ~ (i = Len(o) + 1 \/ ReprAt(o, i).takes = 0)
      <4>1. i \in Nat /\ 1 <= i /\ i <= Len(o)
        BY <1>0, <2>m, <3>2
      <4>k. PICK k, h : FieldAt(o, i, h, k) /\ k = i + ReprAt(o, i).takes
        <5>1. FieldAt(o, i, ReprAt(o, i).fields, i + ReprAt(o, i).takes)
          BY <3>2, <4>1 DEF FieldAt
        <5> QED BY <5>1
      <4>2. k \in Nat /\ i < k /\ k <= Len(o) + 1
        BY <4>1, <4>k, FieldAtType
      <4>3. k \in m + 1 .. Len(o) + 1
        BY <1>0, <2>m, <4>2
      <4>4. g[k] = f[k]
        BY <2>5, <4>3
      <4>t. PICK t : t = ReprAt(o, i).takes
        OBVIOUS
      <4>5. g[i + t] = f[i + t]
        BY <4>4, <4>k, <4>t
      <4> HIDE DEF g
      <4>6. FieldsStep(o, i, g) = ReprAt(o, i).fields \o g[i + t]
        BY <3>2, <4>t DEF FieldsStep
      <4>7. FieldsStep(o, i, f) = ReprAt(o, i).fields \o f[i + t]
        BY <3>2, <4>t DEF FieldsStep
      <4> QED BY <4>5, <4>6, <4>7
    <3> QED BY <3>1, <3>2
  <2>7. ASSUME NEW i \in m .. Len(o) + 1 PROVE g[i] = FieldsStep(o, i, g)
    <3>1. CASE i = m
      BY <2>6, <3>1
    <3>2. CASE i # m
      <4>1. i \in m + 1 .. Len(o) + 1
        BY <1>0, <2>m, <3>2
      <4> QED BY <2>4, <2>5, <2>6, <4>1
    <3> QED BY <3>1, <3>2
  <2>8. g = FieldsTo(o, m, g)
    BY <2>7 DEF FieldsTo
  <2> QED BY <2>8, <2>m
<1> QED BY <1>3, <1>4

\* What FieldsFrom computes.
LEMMA FieldsAre ==
  ASSUME NEW o \in Seq(Octets), NEW i \in Nat, 1 <= i, i <= Len(o) + 1
  PROVE  FieldsFrom(o)[i] = FieldsStep(o, i, FieldsFrom(o))
<1>0. Len(o) \in Nat /\ Len(o) + 1 \in 0 .. Len(o) + 1 /\ Len(o) + 2 - (Len(o) + 1) = 1
  OBVIOUS
<1>1. \E g : g = FieldsTo(o, 1, g)
  <2>1. \E g : g = FieldsTo(o, Len(o) + 2 - (Len(o) + 1), g)
    BY <1>0, FieldsExist
  <2> QED BY <1>0, <2>1
<1>f. PICK f : f = FieldsFrom(o)
  OBVIOUS
<1>2. FieldsFrom(o) = CHOOSE g : g = FieldsTo(o, 1, g)
  BY DEF FieldsFrom, FieldsTo, FieldsStep, ReprAt
<1>3. f = FieldsTo(o, 1, f)
  BY <1>1, <1>2, <1>f
<1> HIDE <1>2, <1>f
<1>4. i \in 1 .. Len(o) + 1
  BY <1>0
<1>5. f[i] = FieldsStep(o, i, f)
  BY <1>3, <1>4 DEF FieldsTo
<1> QED BY <1>5, <1>f

\* Nothing comes after the last octet.
LEMMA FieldsEnd ==
  ASSUME NEW o \in Seq(Octets)
  PROVE  FieldsFrom(o)[Len(o) + 1] = <<>>
<1>i. PICK i \in Nat : i = Len(o) + 1 /\ 1 <= i
  OBVIOUS
<1>1. FieldsFrom(o)[i] = FieldsStep(o, i, FieldsFrom(o))
  BY <1>i, FieldsAre
<1>2. FieldsFrom(o)[i] = <<>>
  BY <1>1, <1>i DEF FieldsStep
<1> QED BY <1>2, <1>i

\* A field, and what follows it.
LEMMA FieldsGoOn ==
  ASSUME NEW o \in Seq(Octets), NEW i \in Nat, 1 <= i, NEW F, NEW k, FieldAt(o, i, F, k)
  PROVE  FieldsFrom(o)[i] = F \o FieldsFrom(o)[k]
<1>0. i <= Len(o) /\ ReprAt(o, i).takes # 0 /\ F = ReprAt(o, i).fields
      /\ k = i + ReprAt(o, i).takes
  BY DEF FieldAt
<1>n. Len(o) \in Nat /\ i <= Len(o) + 1 /\ i # Len(o) + 1
  BY <1>0
<1>1. FieldsFrom(o)[i] = FieldsStep(o, i, FieldsFrom(o))
  BY <1>n, FieldsAre
<1>2. ~ (i = Len(o) + 1 \/ ReprAt(o, i).takes = 0)
  BY <1>0, <1>n
<1> QED BY <1>0, <1>1, <1>2 DEF FieldsStep

\* The walk finds fields.
LEMMA FieldsType ==
  ASSUME NEW o \in Seq(Octets)
  PROVE  \A i \in 1 .. Len(o) + 1 : FieldsFrom(o)[i] \in Seq(Encodable)
<1> DEFINE Bad == {i \in 1 .. Len(o) + 1 : FieldsFrom(o)[i] \notin Seq(Encodable)}
<1> SUFFICES ASSUME Bad # {} PROVE FALSE
  OBVIOUS
<1>0. Len(o) \in Nat /\ Len(o) + 1 \in Nat /\ Bad \subseteq 0 .. Len(o) + 1
  OBVIOUS
<1>1. PICK x \in Bad : \A y \in Bad : y <= x
  BY <1>0, GreatestNatural
<1>2. x \in Nat /\ 1 <= x /\ x <= Len(o) + 1 /\ FieldsFrom(o)[x] \notin Seq(Encodable)
  BY <1>0, <1>1
<1>3. ASSUME NEW y \in Nat, x < y, y <= Len(o) + 1 PROVE FieldsFrom(o)[y] \in Seq(Encodable)
  BY <1>0, <1>1, <1>2, <1>3
<1> HIDE DEF Bad
<1>4. FieldsFrom(o)[x] = FieldsStep(o, x, FieldsFrom(o))
  BY <1>2, FieldsAre
<1>5. CASE x = Len(o) + 1 \/ ReprAt(o, x).takes = 0
  <2>1. FieldsFrom(o)[x] = <<>>
    BY <1>4, <1>5 DEF FieldsStep
  <2>2. <<>> \in Seq(Encodable)
    OBVIOUS
  <2> QED BY <1>2, <2>1, <2>2
<1>6. CASE ~ (x = Len(o) + 1 \/ ReprAt(o, x).takes = 0)
  <2>1. x <= Len(o)
    BY <1>0, <1>2, <1>6
  <2>k. PICK k, F : FieldAt(o, x, F, k)
    <3>1. FieldAt(o, x, ReprAt(o, x).fields, x + ReprAt(o, x).takes)
      BY <1>6, <2>1 DEF FieldAt
    <3> QED BY <3>1
  <2>2. Yield(F) /\ k \in Nat /\ x < k /\ k <= Len(o) + 1
    BY <1>2, <2>k, FieldAtType
  <2>g. PICK g \in Seq(Encodable) : g = FieldsFrom(o)[k]
    BY <1>3, <2>2
  <2>3. FieldsFrom(o)[x] = F \o g
    BY <1>2, <2>k, <2>g, FieldsGoOn
  <2>4. F \in Seq(Encodable)
    BY <2>2 DEF Yield
  <2>5. F \o g \in Seq(Encodable)
    BY <2>4, Joined
  <2> QED BY <1>2, <2>3, <2>5
<1> QED BY <1>5, <1>6

-----------------------------------------------------------------------------
(***************************************************************************)
(* How far the walk has come.                                              *)
(***************************************************************************)
\* Every block that begins with o has the fields X first and then those the
\* walk finds from i on.
WalkedTo(o, X, i) ==
  /\ X \in Seq(Encodable) /\ i \in Nat /\ 1 <= i /\ i <= Len(o) + 1
  /\ \A z \in Seq(Octets) : IsPrefix(o, z) => FieldsOf(z) = X \o FieldsFrom(z)[i]

\* Before the first field.
LEMMA WalkStarts ==
  ASSUME NEW o \in Seq(Octets)
  PROVE  WalkedTo(o, <<>>, 1)
<1>1. ASSUME NEW z \in Seq(Octets) PROVE FieldsOf(z) = <<>> \o FieldsFrom(z)[1]
  <2>1. 1 \in 1 .. Len(z) + 1
    OBVIOUS
  <2>2. FieldsFrom(z)[1] \in Seq(Encodable)
    BY <2>1, FieldsType
  <2>g. PICK g \in Seq(Encodable) : g = FieldsFrom(z)[1]
    BY <2>2
  <2>3. <<>> \o g = g
    OBVIOUS
  <2> QED BY <2>3, <2>g DEF FieldsOf
<1>2. <<>> \in Seq(Encodable) /\ 1 \in Nat /\ 1 <= 1 /\ 1 <= Len(o) + 1
  OBVIOUS
<1> QED BY <1>1, <1>2 DEF WalkedTo

\* More octets change nothing before the place reached.
LEMMA WalkStays ==
  ASSUME NEW o \in Seq(Octets), NEW u \in Seq(Octets), IsPrefix(o, u),
         NEW X, NEW i, WalkedTo(o, X, i)
  PROVE  WalkedTo(u, X, i)
<1>1. /\ X \in Seq(Encodable) /\ i \in Nat /\ 1 <= i /\ i <= Len(o) + 1
      /\ \A z \in Seq(Octets) : IsPrefix(o, z) => FieldsOf(z) = X \o FieldsFrom(z)[i]
  BY DEF WalkedTo
<1>2. Len(o) <= Len(u) /\ Len(o) \in Nat /\ Len(u) \in Nat
  BY PrefixElements
<1>3. i <= Len(u) + 1
  BY <1>1, <1>2
<1>4. ASSUME NEW z \in Seq(Octets), IsPrefix(u, z) PROVE IsPrefix(o, z)
  BY <1>4, PrefixTransitive
<1> QED BY <1>1, <1>3, <1>4 DEF WalkedTo

\* A block begins with itself.
LEMMA PrefixOfItself ==
  ASSUME NEW S, NEW s \in Seq(S)
  PROVE  IsPrefix(s, s)
BY PrefixElements

\* At the end of the block the fields found are all of them.
LEMMA WalkEnds ==
  ASSUME NEW o \in Seq(Octets), NEW X, NEW i, WalkedTo(o, X, i), i = Len(o) + 1
  PROVE  FieldsOf(o) = X /\ X \in Seq(Encodable)
<1>1. IsPrefix(o, o)
  BY PrefixOfItself
<1>2. X \in Seq(Encodable) /\ FieldsOf(o) = X \o FieldsFrom(o)[i]
  BY <1>1 DEF WalkedTo
<1>3. FieldsFrom(o)[i] = <<>>
  BY FieldsEnd
<1>x. PICK x \in Seq(Encodable) : x = X
  BY <1>2
<1>4. x \o <<>> = x
  OBVIOUS
<1> QED BY <1>2, <1>3, <1>4, <1>x

\* One representation further.
LEMMA WalkGoesOn ==
  ASSUME NEW o \in Seq(Octets), NEW X, NEW i, WalkedTo(o, X, i), NEW F, NEW k, FieldAt(o, i, F, k)
  PROVE  WalkedTo(o, X \o F, k)
<1>1. X \in Seq(Encodable) /\ i \in Nat /\ 1 <= i /\ i <= Len(o) + 1
  BY DEF WalkedTo
<1>2. Yield(F) /\ k \in Nat /\ i < k /\ k <= Len(o) + 1
  BY <1>1, FieldAtType
<1>x. PICK x \in Seq(Encodable) : x = X
  BY <1>1
<1>s. PICK s \in Seq(Encodable) : s = F
  <2>1. F \in Seq(Encodable)
    BY <1>2 DEF Yield
  <2> QED BY <2>1
<1>y. PICK y \in Seq(Encodable) : y = x \o s
  <2>1. x \o s \in Seq(Encodable)
    BY Joined
  <2> QED BY <2>1
<1>3. ASSUME NEW z \in Seq(Octets), IsPrefix(o, z) PROVE FieldsOf(z) = y \o FieldsFrom(z)[k]
  <2>1. FieldsOf(z) = x \o FieldsFrom(z)[i]
    BY <1>3, <1>x DEF WalkedTo
  <2>2. FieldAt(z, i, F, k)
    BY <1>1, <1>3, FieldStays
  <2>3. k \in Nat /\ 1 <= k /\ k <= Len(z) + 1
    <3>1. k <= Len(z) + 1
      BY <1>1, <2>2, FieldAtType
    <3> QED BY <1>1, <1>2, <3>1
  <2>g. PICK g \in Seq(Encodable) : g = FieldsFrom(z)[k]
    <3>1. k \in 1 .. Len(z) + 1
      BY <2>3
    <3>2. FieldsFrom(z)[k] \in Seq(Encodable)
      BY <3>1, FieldsType
    <3> QED BY <3>2
  <2>h. PICK h : JoinOf(h, s, g)
    BY DEF JoinOf
  <2>4. FieldsFrom(z)[i] = h
    <3>1. FieldsFrom(z)[i] = F \o FieldsFrom(z)[k]
      BY <1>1, <2>2, FieldsGoOn
    <3> QED BY <1>s, <2>g, <2>h, <3>1 DEF JoinOf
  <2>w. PICK w : JoinOf(w, y, g)
    BY DEF JoinOf
  <2>5. JoinOf(y, x, s)
    BY <1>y DEF JoinOf
  <2>6. JoinOf(w, x, h)
    BY <2>5, <2>h, <2>w, Regrouped
  <2> QED BY <2>1, <2>4, <2>6, <2>w, <2>g DEF JoinOf
<1>4. 1 <= k
  BY <1>1, <1>2
<1>5. WalkedTo(o, y, k)
  BY <1>2, <1>3, <1>4 DEF WalkedTo
<1> QED BY <1>5, <1>s, <1>x, <1>y

-----------------------------------------------------------------------------
(***************************************************************************)
(* The size of a header list.                                              *)
(***************************************************************************)
\* The sizes of the beginnings of X, up to the first m fields.
SumsTo(X, m, g) == [k \in 0 .. m |-> IF k = 0 THEN 0 ELSE g[k - 1] + FieldSize(X[k])]
Sums(X) == CHOOSE g : g = SumsTo(X, Len(X), g)

\* ListSize is one of these.
LEMMA ListSizeIs ==
  ASSUME NEW X, NEW n
  PROVE  ListSize(X, n) = Sums(X)[n]
BY DEF ListSize, Sums, SumsTo

\* They exist: a shortest beginning without them would get them from those of
\* the one before.
LEMMA SumsExist ==
  ASSUME NEW X \in Seq(Encodable)
  PROVE  \A m \in 0 .. Len(X) : \E f : f = SumsTo(X, m, f)
<1> DEFINE Missing == {m \in 0 .. Len(X) : ~ \E f : f = SumsTo(X, m, f)}
<1> SUFFICES ASSUME Missing # {} PROVE FALSE
  OBVIOUS
<1>0. Len(X) \in Nat
  OBVIOUS
<1>1. Missing \subseteq Nat
  BY <1>0
<1>2. PICK x \in Missing : \A y \in Missing : x <= y
  BY <1>1, LeastNatural
<1>3. CASE x = 0
  <2> DEFINE g == [k \in 0 .. 0 |-> 0]
  <2>1. g = SumsTo(X, 0, g)
    BY DEF SumsTo
  <2> QED BY <1>2, <1>3, <2>1
<1>4. CASE x # 0
  <2>1. x - 1 \in 0 .. Len(X) /\ x \in 0 .. Len(X) /\ ~ (x <= x - 1)
    BY <1>0, <1>4
  <2>2. PICK f : f = SumsTo(X, x - 1, f)
    BY <1>2, <2>1
  <2> DEFINE g == [k \in 0 .. x |-> IF k = x THEN f[x - 1] + FieldSize(X[x]) ELSE f[k]]
  <2>3. ASSUME NEW k \in 0 .. x
        PROVE  g[k] = IF k = 0 THEN 0 ELSE g[k - 1] + FieldSize(X[k])
    <3>1. CASE k = 0
      <4>1. f[0] = 0
        BY <2>1, <2>2 DEF SumsTo
      <4> QED BY <1>4, <3>1, <4>1
    <3>2. CASE k = x
      <4>1. g[k - 1] = f[x - 1]
        BY <2>1, <3>2
      <4> QED BY <1>4, <3>2, <4>1
    <3>3. CASE k # 0 /\ k # x
      <4>1. k \in 0 .. x - 1 /\ k - 1 \in 0 .. x /\ k - 1 # x
        BY <2>1, <3>3
      <4>2. f[k] = f[k - 1] + FieldSize(X[k])
        BY <2>2, <3>3, <4>1 DEF SumsTo
      <4> QED BY <3>3, <4>1, <4>2
    <3> QED BY <3>1, <3>2, <3>3
  <2>4. g = SumsTo(X, x, g)
    BY <2>3 DEF SumsTo
  <2> QED BY <2>4
<1> QED BY <1>3, <1>4

\* What the sizes are.
LEMMA SumsAre ==
  ASSUME NEW X \in Seq(Encodable)
  PROVE  /\ Sums(X)[0] = 0
         /\ \A k \in 1 .. Len(X) : Sums(X)[k] = Sums(X)[k - 1] + FieldSize(X[k])
<1>0. Len(X) \in Nat /\ Len(X) \in 0 .. Len(X)
  OBVIOUS
<1>1. \E f : f = SumsTo(X, Len(X), f)
  BY <1>0, SumsExist
<1>f. PICK f : f = Sums(X)
  OBVIOUS
<1>2. f = SumsTo(X, Len(X), f)
  BY <1>1, <1>f DEF Sums
<1> HIDE <1>f
<1>3. \A k \in 0 .. Len(X) : f[k] = IF k = 0 THEN 0 ELSE f[k - 1] + FieldSize(X[k])
  BY <1>2 DEF SumsTo
<1>4. f[0] = 0 /\ \A k \in 1 .. Len(X) : f[k] = f[k - 1] + FieldSize(X[k])
  BY <1>0, <1>3
<1> QED BY <1>4, <1>f

\* They are natural numbers.
LEMMA SumsType ==
  ASSUME NEW X \in Seq(Encodable)
  PROVE  \A k \in 0 .. Len(X) : Sums(X)[k] \in Nat
<1> DEFINE Bad == {k \in 0 .. Len(X) : Sums(X)[k] \notin Nat}
<1> SUFFICES ASSUME Bad # {} PROVE FALSE
  OBVIOUS
<1>0. Len(X) \in Nat
  OBVIOUS
<1>1. Bad \subseteq Nat
  BY <1>0
<1>2. PICK x \in Bad : \A y \in Bad : x <= y
  BY <1>1, LeastNatural
<1>3. x # 0
  BY SumsAre, <1>2
<1>4. x - 1 \in 0 .. Len(X) /\ x \in 1 .. Len(X) /\ ~ (x <= x - 1)
  BY <1>0, <1>3
<1>5. Sums(X)[x - 1] \in Nat
  BY <1>2, <1>4
<1>6. FieldSize(X[x]) \in Nat
  <2>1. X[x] \in Encodable
    BY <1>4
  <2> QED BY <2>1, FieldFacts
<1>7. Sums(X)[x] = Sums(X)[x - 1] + FieldSize(X[x])
  BY <1>4, SumsAre
<1>8. Sums(X)[x] \in Nat
  BY <1>5, <1>6, <1>7
<1> QED BY <1>2, <1>8

\* The size of the first fields does not depend on those that follow.
LEMMA SumsOfPrefix ==
  ASSUME NEW X \in Seq(Encodable), NEW Y \in Seq(Encodable), IsPrefix(X, Y)
  PROVE  \A k \in 0 .. Len(X) : Sums(X)[k] = Sums(Y)[k]
<1> DEFINE Bad == {k \in 0 .. Len(X) : Sums(X)[k] # Sums(Y)[k]}
<1> SUFFICES ASSUME Bad # {} PROVE FALSE
  OBVIOUS
<1>0. /\ Len(X) \in Nat /\ Len(Y) \in Nat /\ Len(X) <= Len(Y)
      /\ \A j \in 1 .. Len(X) : X[j] = Y[j]
  BY PrefixElements
<1>1. Bad \subseteq Nat
  BY <1>0
<1>2. PICK x \in Bad : \A y \in Bad : x <= y
  BY <1>1, LeastNatural
<1>3. x # 0
  BY SumsAre, <1>2
<1>4. x - 1 \in 0 .. Len(X) /\ x \in 1 .. Len(X) /\ x \in 1 .. Len(Y) /\ ~ (x <= x - 1)
  BY <1>0, <1>3
<1>5. Sums(X)[x - 1] = Sums(Y)[x - 1]
  BY <1>2, <1>4
<1>6. Sums(X)[x] = Sums(X)[x - 1] + FieldSize(X[x])
  BY <1>4, SumsAre
<1>7. Sums(Y)[x] = Sums(Y)[x - 1] + FieldSize(Y[x])
  BY <1>4, SumsAre
<1>8. X[x] = Y[x]
  BY <1>0, <1>4
<1> QED BY <1>2, <1>5, <1>6, <1>7, <1>8

-----------------------------------------------------------------------------
(***************************************************************************)
(* The decoder.                                                            *)
(***************************************************************************)
\* m has the parts of the state of readMetaFrame.
IsMeta(m) ==
  m = [stream |-> m.stream, flags |-> m.flags, priority |-> m.priority, fields |-> m.fields,
       remainSize |-> m.remainSize, sawRegular |-> m.sawRegular, invalid |-> m.invalid,
       truncated |-> m.truncated, emitEnabled |-> m.emitEnabled]

\* The first n fields of X.
LEMMA FirstFields ==
  ASSUME NEW X \in Seq(Encodable), NEW n \in 0 .. Len(X)
  PROVE  /\ UpTo(X, n) \in Seq(Encodable) /\ Len(UpTo(X, n)) = n
         /\ UpTo(X, n) = [i \in 1 .. n |-> X[i]]
<1>1. n \in Nat /\ Len(X) \in Nat /\ n <= Len(X)
  OBVIOUS
<1>l. PICK l \in Nat : l = Len(X) /\ n <= l
  BY <1>1
<1>2. Min({n, l}) = n
  BY <1>1, <1>l, MinOfTwo
<1>3. UpTo(X, n) = [i \in 1 .. n |-> X[i]]
  BY <1>2, <1>l DEF UpTo
<1>4. [i \in 1 .. n |-> X[i]] \in [1 .. n -> Encodable]
  BY <1>1
<1>5. [i \in 1 .. n |-> X[i]] \in Seq(Encodable) /\ Len([i \in 1 .. n |-> X[i]]) = n
  BY <1>1, <1>4
<1> QED BY <1>3, <1>5

\* All of X was found, and m has as much of it as the limit L allows.
Kept(m, X, L) ==
  /\ m.invalid = FALSE /\ m.truncated = FALSE /\ m.emitEnabled = TRUE
  /\ m.fields = X /\ m.remainSize \in Nat /\ m.remainSize = L - Sums(X)[Len(X)]
Stopped(m, X, L) ==
  /\ m.truncated = TRUE /\ m.emitEnabled = FALSE
  /\ \E n \in 0 .. Len(X) : /\ n < Len(X) /\ m.fields = UpTo(X, n)
                            /\ Sums(X)[n] <= L /\ L < Sums(X)[n + 1]
Refused(m) == m.invalid = TRUE /\ m.emitEnabled = FALSE
Limited(m, X, L) == IsMeta(m) /\ (Kept(m, X, L) \/ Stopped(m, X, L) \/ Refused(m))

\* The emit function refuses the field, or finds it too large, or takes it.
EmitRefuses(m, e) == e.invalid = TRUE /\ e.emitEnabled = FALSE
EmitStops(m, f, e) ==
  /\ FieldSize(f) > m.remainSize
  /\ e.truncated = TRUE /\ e.emitEnabled = FALSE /\ e.fields = m.fields
EmitTakes(m, f, e) ==
  /\ ~ (FieldSize(f) > m.remainSize)
  /\ e.invalid = m.invalid /\ e.truncated = m.truncated /\ e.emitEnabled = m.emitEnabled
  /\ e.fields = Append(m.fields, f) /\ e.remainSize = m.remainSize - FieldSize(f)

\* These are all its cases.
LEMMA EmitIs ==
  ASSUME NEW m, IsMeta(m), NEW f, NEW e, e = emit(m, f)
  PROVE  /\ IsMeta(e) /\ e.stream = m.stream
         /\ EmitRefuses(m, e) \/ EmitStops(m, f, e) \/ EmitTakes(m, f, e)
<1>p. PICK a, b, c, d, g, h, i, j, k :
        /\ m = [stream |-> a, flags |-> b, priority |-> c, fields |-> d, remainSize |-> g,
                sawRegular |-> h, invalid |-> i, truncated |-> j, emitEnabled |-> k]
        /\ a = m.stream /\ d = m.fields /\ g = m.remainSize /\ i = m.invalid
        /\ j = m.truncated /\ k = m.emitEnabled
  BY DEF IsMeta
<1>q. PICK q : q = (h \/ ~ IsPseudo(f))
  OBVIOUS
<1>s. PICK s : s = [stream |-> a, flags |-> b, priority |-> c, fields |-> d, remainSize |-> g,
                    sawRegular |-> q, invalid |-> i, truncated |-> j, emitEnabled |-> k]
  OBVIOUS
<1>1. [m EXCEPT !.sawRegular = @ \/ ~ IsPseudo(f)] = s
  BY <1>p, <1>q, <1>s
<1>2. \/ e = [s EXCEPT !.invalid = TRUE, !.emitEnabled = FALSE]
      \/ /\ FieldSize(f) > m.remainSize
         /\ e = [s EXCEPT !.truncated = TRUE, !.emitEnabled = FALSE]
      \/ /\ ~ (FieldSize(f) > m.remainSize)
         /\ e = [s EXCEPT !.remainSize = @ - FieldSize(f), !.fields = Append(@, f)]
  BY <1>1 DEF emit
<1>3. CASE e = [s EXCEPT !.invalid = TRUE, !.emitEnabled = FALSE]
  <2>1. e = [stream |-> a, flags |-> b, priority |-> c, fields |-> d, remainSize |-> g,
             sawRegular |-> q, invalid |-> TRUE, truncated |-> j, emitEnabled |-> FALSE]
    BY <1>s, <1>3
  <2> QED BY <1>p, <2>1 DEF IsMeta, EmitRefuses
<1>4. CASE /\ FieldSize(f) > m.remainSize
           /\ e = [s EXCEPT !.truncated = TRUE, !.emitEnabled = FALSE]
  <2>1. e = [stream |-> a, flags |-> b, priority |-> c, fields |-> d, remainSize |-> g,
             sawRegular |-> q, invalid |-> i, truncated |-> TRUE, emitEnabled |-> FALSE]
    BY <1>s, <1>4
  <2> QED BY <1>p, <1>4, <2>1 DEF IsMeta, EmitStops
<1>5. CASE /\ ~ (FieldSize(f) > m.remainSize)
           /\ e = [s EXCEPT !.remainSize = @ - FieldSize(f), !.fields = Append(@, f)]
  <2>1. e = [stream |-> a, flags |-> b, priority |-> c, fields |-> Append(d, f),
             remainSize |-> g - FieldSize(f),
             sawRegular |-> q, invalid |-> i, truncated |-> j, emitEnabled |-> k]
    BY <1>s, <1>5
  <2>2. IsMeta(e) /\ e.stream = m.stream
    BY <1>p, <2>1 DEF IsMeta
  <2>3. /\ e.invalid = i /\ e.truncated = j /\ e.emitEnabled = k
        /\ e.fields = Append(d, f) /\ e.remainSize = g - FieldSize(f)
    BY <2>1
  <2>4. /\ e.invalid = m.invalid /\ e.truncated = m.truncated /\ e.emitEnabled = m.emitEnabled
        /\ e.fields = Append(m.fields, f) /\ e.remainSize = m.remainSize - FieldSize(f)
    BY <1>p, <2>3
  <2>5. EmitTakes(m, f, e)
    BY <1>5, <2>4 DEF EmitTakes
  <2> QED BY <2>2, <2>5
<1> QED BY <1>2, <1>3, <1>4, <1>5

\* A field more.
LEMMA EmitLimited ==
  ASSUME NEW X \in Seq(Encodable), NEW f \in Encodable, NEW L \in Nat, NEW m, Limited(m, X, L),
         NEW e, e = IF m.emitEnabled THEN emit(m, f) ELSE m
  PROVE  Limited(e, X \o <<f>>, L) /\ e.stream = m.stream
<1>0. IsMeta(m) /\ (Kept(m, X, L) \/ Stopped(m, X, L) \/ Refused(m))
  BY DEF Limited
<1>y. PICK Y \in Seq(Encodable) :
        /\ Y = X \o <<f>> /\ Len(Y) = Len(X) + 1 /\ Y[Len(X) + 1] = f
        /\ \A k \in 1 .. Len(X) : Y[k] = X[k]
  <2>1. /\ X \o <<f>> \in Seq(Encodable) /\ Len(X \o <<f>>) = Len(X) + 1
        /\ (X \o <<f>>)[Len(X) + 1] = f
        /\ \A k \in 1 .. Len(X) : (X \o <<f>>)[k] = X[k]
    BY OneMore
  <2> QED BY <2>1
<1>n. Len(X) \in Nat /\ Len(Y) \in Nat /\ Len(Y) = Len(X) + 1
  BY <1>y
<1>1. IsPrefix(X, Y)
  <2>1. Len(X) <= Len(Y)
    BY <1>n
  <2>2. \A k \in 1 .. Len(X) : X[k] = Y[k]
    BY <1>y
  <2> HIDE <1>y, <1>n
  <2> QED BY <2>1, <2>2, PrefixElements
<1>2. \A k \in 0 .. Len(X) : Sums(Y)[k] = Sums(X)[k] /\ Sums(X)[k] \in Nat
  BY <1>1, SumsOfPrefix, SumsType
<1>3. Sums(Y)[Len(X) + 1] = Sums(X)[Len(X)] + FieldSize(f) /\ FieldSize(f) \in Nat
  <2>1. Len(X) + 1 \in 1 .. Len(Y) /\ Len(X) + 1 - 1 = Len(X) /\ Len(X) \in 0 .. Len(X)
    BY <1>n
  <2>2. Sums(Y)[Len(X) + 1] = Sums(Y)[Len(X) + 1 - 1] + FieldSize(Y[Len(X) + 1])
    BY <2>1, SumsAre
  <2>3. FieldSize(f) \in Nat
    BY FieldFacts
  <2> QED BY <1>2, <1>y, <2>1, <2>2, <2>3
<1>4. CASE Refused(m)
  <2>1. e = m
    BY <1>4 DEF Refused
  <2> QED BY <1>0, <1>4, <2>1 DEF Limited
<1>5. CASE Stopped(m, X, L)
  <2>1. e = m
    BY <1>5 DEF Stopped
  <2>n. PICK n \in 0 .. Len(X) : /\ n < Len(X) /\ m.fields = UpTo(X, n)
                                 /\ Sums(X)[n] <= L /\ L < Sums(X)[n + 1]
    BY <1>5 DEF Stopped
  <2>2. n \in 0 .. Len(X) /\ n + 1 \in 0 .. Len(X) /\ n \in 0 .. Len(Y) /\ n < Len(Y)
    BY <1>n, <2>n
  <2>3. UpTo(Y, n) = UpTo(X, n)
    <3>1. UpTo(X, n) = [i \in 1 .. n |-> X[i]]
      BY <2>2, FirstFields
    <3>2. UpTo(Y, n) = [i \in 1 .. n |-> Y[i]]
      BY <2>2, FirstFields
    <3>3. \A i \in 1 .. n : Y[i] = X[i]
      BY <1>n, <1>y, <2>2
    <3> QED BY <3>1, <3>2, <3>3
  <2>4. Sums(Y)[n] = Sums(X)[n] /\ Sums(Y)[n + 1] = Sums(X)[n + 1]
    BY <1>2, <2>2
  <2>5. Stopped(m, Y, L)
    BY <1>5, <2>n, <2>2, <2>3, <2>4 DEF Stopped
  <2> QED BY <1>0, <1>y, <2>1, <2>5 DEF Limited
<1>6. CASE Kept(m, X, L)
  <2>0. /\ m.invalid = FALSE /\ m.truncated = FALSE /\ m.emitEnabled = TRUE
        /\ m.fields = X /\ m.remainSize \in Nat /\ m.remainSize = L - Sums(X)[Len(X)]
    BY <1>6 DEF Kept
  <2>1. e = emit(m, f)
    BY <2>0
  <2>2. /\ IsMeta(e) /\ e.stream = m.stream
        /\ EmitRefuses(m, e) \/ EmitStops(m, f, e) \/ EmitTakes(m, f, e)
    BY <1>0, <2>1, EmitIs
  <2>s. PICK s \in Nat : s = Sums(X)[Len(X)] /\ Sums(Y)[Len(X)] = s
                         /\ Sums(Y)[Len(X) + 1] = s + FieldSize(f)
    <3>1. Len(X) \in 0 .. Len(X)
      BY <1>n
    <3> QED BY <1>2, <1>3, <3>1
  <2>3. CASE EmitRefuses(m, e)
    <3>1. Refused(e)
      BY <2>3 DEF EmitRefuses, Refused
    <3> QED BY <2>2, <3>1 DEF Limited
  <2>4. CASE EmitStops(m, f, e)
    <3>1. /\ FieldSize(f) > L - s /\ e.truncated = TRUE /\ e.emitEnabled = FALSE
          /\ e.fields = X /\ L - s \in Nat
      BY <2>0, <2>4, <2>s DEF EmitStops
    <3>l. PICK l \in Nat : l = Len(X)
      BY <1>n
    <3>2. l \in 0 .. Len(Y) /\ l < Len(Y)
      BY <1>n, <3>l
    <3>3. UpTo(Y, l) = X
      <4>1. UpTo(Y, l) = [i \in 1 .. l |-> Y[i]]
        BY <3>2, FirstFields
      <4>2. \A i \in 1 .. l : Y[i] = X[i]
        BY <1>y, <3>l
      <4>3. X = [i \in 1 .. l |-> X[i]]
        BY <3>l
      <4> QED BY <4>1, <4>2, <4>3
    <3>4. s <= L /\ L < s + FieldSize(f)
      BY <1>3, <3>1, <2>s
    <3>5. Sums(Y)[l] <= L /\ L < Sums(Y)[l + 1]
      BY <2>s, <3>4, <3>l
    <3>6. Stopped(e, Y, L)
      BY <3>1, <3>2, <3>3, <3>5 DEF Stopped
    <3> QED BY <1>y, <2>2, <3>6 DEF Limited
  <2>5. CASE EmitTakes(m, f, e)
    <3>1. /\ ~ (FieldSize(f) > L - s) /\ e.invalid = FALSE /\ e.truncated = FALSE
          /\ e.emitEnabled = TRUE /\ e.fields = Append(X, f)
          /\ e.remainSize = L - s - FieldSize(f) /\ L - s \in Nat
      <4>1. m.remainSize = L - s
        BY <2>0, <2>s
      <4>2. /\ ~ (FieldSize(f) > m.remainSize)
            /\ e.invalid = m.invalid /\ e.truncated = m.truncated
            /\ e.emitEnabled = m.emitEnabled
            /\ e.fields = Append(m.fields, f) /\ e.remainSize = m.remainSize - FieldSize(f)
        BY <2>5 DEF EmitTakes
      <4>3. /\ e.invalid = FALSE /\ e.truncated = FALSE /\ e.emitEnabled = TRUE
            /\ e.fields = Append(X, f)
        BY <2>0, <4>2, Zenon
      <4>4. ~ (FieldSize(f) > L - s) /\ e.remainSize = L - s - FieldSize(f) /\ L - s \in Nat
        BY <2>0, <4>1, <4>2, Zenon
      <4> QED BY <4>3, <4>4, Zenon
    <3>z. PICK z \in Nat : z = FieldSize(f)
      BY <1>3
    <3>y. ~ (z > L - s) /\ e.remainSize = L - s - z
      BY <3>1, <3>z, Zenon
    <3>2. e.remainSize \in Nat /\ e.remainSize = L - (s + FieldSize(f))
      <4>1. L - s - z \in Nat /\ L - s - z = L - (s + z)
        BY <3>y
      <4> QED BY <3>y, <3>z, <4>1
    <3>3. Append(X, f) = X \o <<f>>
      OBVIOUS
    <3>4. e.remainSize = L - Sums(Y)[Len(Y)]
      BY <1>n, <2>s, <3>2
    <3>5. Kept(e, Y, L)
      BY <1>y, <3>1, <3>2, <3>3, <3>4 DEF Kept
    <3> QED BY <1>y, <2>2, <3>5 DEF Limited
  <2> QED BY <2>2, <2>3, <2>4, <2>5
<1> QED BY <1>0, <1>4, <1>5, <1>6

\* A representation more, with a field or without.
LEMMA YieldLimited ==
  ASSUME NEW X \in Seq(Encodable), NEW F, Yield(F), NEW L \in Nat, NEW m, Limited(m, X, L),
         NEW e, e = IF m.emitEnabled /\ F # <<>> THEN emit(m, F[1]) ELSE m
  PROVE  Limited(e, X \o F, L) /\ e.stream = m.stream
<1>1. CASE F = <<>>
  <2>1. X \o <<>> = X
    OBVIOUS
  <2>2. e = m
    BY <1>1
  <2>3. X \o F = X
    BY <1>1, <2>1
  <2> QED BY <2>2, <2>3
<1>2. CASE F # <<>>
  <2>f. PICK f \in Encodable : f = F[1] /\ F = <<f>>
    BY <1>2 DEF Yield
  <2>1. e = IF m.emitEnabled THEN emit(m, f) ELSE m
    BY <1>2, <2>f
  <2>2. Limited(e, X \o <<f>>, L) /\ e.stream = m.stream
    BY <2>1, EmitLimited
  <2> QED BY <2>2, <2>f
<1> QED BY <1>1, <1>2

\* The octets o are decoded but for buf, and m has the fields that fit L.
Decoded(m, buf, o, L) ==
  \E X, i : WalkedTo(o, X, i) /\ buf = From(o, i - 1) /\ Limited(m, X, L)

\* The state of the decoder's loop.
StepOK(st, o, L, id) ==
  /\ st = [buf |-> st.buf, m |-> st.m, stop |-> st.stop, bad |-> st.bad]
  /\ st.m.stream = id
  /\ \/ st.bad = TRUE /\ st.stop = TRUE
     \/ st.bad = FALSE /\ Decoded(st.m, st.buf, o, L)

\* One turn of the loop.
LEMMA DecoderStepOK ==
  ASSUME NEW o \in Seq(Octets), maxHeaderListSize \in Nat, NEW st, NEW id,
         StepOK(st, o, maxHeaderListSize, id), NEW t, t = DecoderStep(st)
  PROVE  StepOK(t, o, maxHeaderListSize, id)
<1>L. PICK L \in Nat : L = maxHeaderListSize
  OBVIOUS
<1>r. PICK r : r = Repr(st.buf)
  OBVIOUS
<1>c. PICK refused \in BOOLEAN : refused = (r.bad \/ (r.fields # <<>> /\ r.fields[1].value > L))
  OBVIOUS
<1>0. /\ st = [buf |-> st.buf, m |-> st.m, stop |-> st.stop, bad |-> st.bad]
      /\ st.m.stream = id
      /\ \/ st.bad = TRUE /\ st.stop = TRUE
         \/ st.bad = FALSE /\ Decoded(st.m, st.buf, o, L)
  BY <1>L DEF StepOK
<1>1. t = IF st.stop \/ st.buf = <<>> THEN st
          ELSE IF refused \/ r.takes = 0 THEN [st EXCEPT !.stop = TRUE, !.bad = refused]
          ELSE [st EXCEPT !.buf = From(@, r.takes),
                          !.m = IF @.emitEnabled /\ r.fields # <<>> THEN emit(@, r.fields[1])
                                ELSE @]
  BY <1>L, <1>r, <1>c DEF DecoderStep
<1>2. CASE st.stop \/ st.buf = <<>>
  BY <1>1, <1>2
<1>3. CASE ~ (st.stop \/ st.buf = <<>>)
  <2>0. st.bad = FALSE /\ Decoded(st.m, st.buf, o, L) /\ st.buf # <<>>
    BY <1>0, <1>3
  <2>b. PICK b, m, q : st = [buf |-> b, m |-> m, stop |-> q, bad |-> FALSE]
                       /\ b = st.buf /\ m = st.m
    BY <1>0, <2>0
  <2>1. CASE refused \/ r.takes = 0
    <3>1. t = [st EXCEPT !.stop = TRUE, !.bad = refused]
      BY <1>1, <1>3, <2>1
    <3>2. t = [buf |-> b, m |-> m, stop |-> TRUE, bad |-> refused]
      BY <2>b, <3>1
    <3>3. t = [buf |-> t.buf, m |-> t.m, stop |-> t.stop, bad |-> t.bad] /\ t.m = m /\ t.buf = b
          /\ t.stop = TRUE /\ t.bad = refused
      BY <3>2
    <3>4. \/ t.bad = TRUE /\ t.stop = TRUE
          \/ t.bad = FALSE /\ Decoded(t.m, t.buf, o, L)
      BY <2>0, <2>b, <3>3
    <3> QED BY <1>0, <1>L, <2>b, <3>3, <3>4 DEF StepOK
  <2>2. CASE ~ (refused \/ r.takes = 0)
    <3>x. PICK X, i : WalkedTo(o, X, i) /\ b = From(o, i - 1) /\ Limited(m, X, L)
      BY <2>0, <2>b DEF Decoded
    <3>e. PICK e : e = IF m.emitEnabled /\ r.fields # <<>> THEN emit(m, r.fields[1]) ELSE m
      OBVIOUS
    <3>c. PICK c : c = From(b, r.takes)
      OBVIOUS
    <3>1. t = [buf |-> c, m |-> e, stop |-> q, bad |-> FALSE]
      <4>1. t = [st EXCEPT !.buf = From(@, r.takes),
                           !.m = IF @.emitEnabled /\ r.fields # <<>> THEN emit(@, r.fields[1])
                                 ELSE @]
        BY <1>1, <1>3, <2>2
      <4> QED BY <2>b, <3>e, <3>c, <4>1
    <3>i. X \in Seq(Encodable) /\ i \in Nat /\ 1 <= i /\ i <= Len(o) + 1
      BY <3>x DEF WalkedTo
    <3>j. PICK j \in Nat : j = i - 1 /\ i = j + 1 /\ j <= Len(o)
      BY <3>i
    <3>2. b \in Seq(Octets) /\ Len(b) = Len(o) - j
      BY <3>x, <3>j, Rest
    <3>3. Len(b) >= 1
      BY <2>0, <2>b, <3>2
    <3>4. i <= Len(o)
      BY <3>2, <3>3, <3>i, <3>j
    <3>5. r = ReprAt(o, i) /\ r = Repr(b)
      BY <1>r, <2>b, <3>x DEF ReprAt
    <3>k. PICK k : k = i + r.takes
      OBVIOUS
    <3>f. PICK F : F = r.fields
      OBVIOUS
    <3>6. FieldAt(o, i, F, k)
      BY <2>2, <3>4, <3>5, <3>k, <3>f DEF FieldAt
    <3>7. Yield(F) /\ k \in Nat /\ i < k /\ k <= Len(o) + 1
      BY <3>i, <3>6, FieldAtType
    <3>8. WalkedTo(o, X \o F, k)
      BY <3>x, <3>6, WalkGoesOn
    <3>9. Limited(e, X \o F, L) /\ e.stream = m.stream
      BY <3>e, <3>f, <3>i, <3>7, <3>x, YieldLimited
    <3>10. c = From(o, k - 1)
      <4>0. Repr(b).takes \in {0, 1, 3} /\ Repr(b).takes <= Len(b)
        BY <3>2, <3>3, ReprType
      <4>1. r.takes \in Nat /\ r.takes <= Len(b)
        BY <3>5, <4>0
      <4>2. j + r.takes <= Len(o) /\ j + r.takes = k - 1
        BY <3>2, <3>i, <3>j, <3>k, <4>1
      <4>t. PICK s \in Nat : s = r.takes /\ j + s <= Len(o) /\ j + s = k - 1
        BY <4>1, <4>2
      <4>3. From(From(o, j), s) = From(o, j + s)
        BY <4>t, RestOfRest
      <4> QED BY <3>c, <3>j, <3>x, <4>3, <4>t
    <3>11. Decoded(e, c, o, L)
      BY <3>8, <3>9, <3>10 DEF Decoded
    <3>12. /\ t = [buf |-> t.buf, m |-> t.m, stop |-> t.stop, bad |-> t.bad]
           /\ t.m = e /\ t.buf = c /\ t.bad = FALSE
      BY <3>1
    <3> QED BY <1>0, <1>L, <2>b, <3>9, <3>11, <3>12 DEF StepOK
  <2> QED BY <2>1, <2>2
<1> QED BY <1>2, <1>3

\* The turns of the loop, the first n of them.
StepsTo(st, n, g) == [k \in 0 .. n |-> IF k = 0 THEN st ELSE DecoderStep(g[k - 1])]

\* They exist.
LEMMA StepsExist ==
  ASSUME NEW st, NEW N \in Nat
  PROVE  \A n \in 0 .. N : \E g : g = StepsTo(st, n, g)
<1> DEFINE Missing == {n \in 0 .. N : ~ \E g : g = StepsTo(st, n, g)}
<1> SUFFICES ASSUME Missing # {} PROVE FALSE
  OBVIOUS
<1>1. Missing \subseteq Nat
  OBVIOUS
<1>2. PICK x \in Missing : \A y \in Missing : x <= y
  BY <1>1, LeastNatural
<1>3. CASE x = 0
  <2> DEFINE g == [k \in 0 .. 0 |-> st]
  <2>1. g = StepsTo(st, 0, g)
    BY DEF StepsTo
  <2> QED BY <1>2, <1>3, <2>1
<1>4. CASE x # 0
  <2>1. x - 1 \in 0 .. N /\ x \in 0 .. N /\ ~ (x <= x - 1)
    BY <1>4
  <2>2. PICK f : f = StepsTo(st, x - 1, f)
    BY <1>2, <2>1
  <2> DEFINE g == [k \in 0 .. x |-> IF k = x THEN DecoderStep(f[x - 1]) ELSE f[k]]
  <2>3. ASSUME NEW k \in 0 .. x
        PROVE  g[k] = IF k = 0 THEN st ELSE DecoderStep(g[k - 1])
    <3>1. CASE k = 0
      <4>1. f[0] = st
        BY <2>1, <2>2 DEF StepsTo
      <4> QED BY <1>4, <3>1, <4>1
    <3>2. CASE k = x
      <4>1. g[k - 1] = f[x - 1]
        BY <2>1, <3>2
      <4> QED BY <1>4, <3>2, <4>1
    <3>3. CASE k # 0 /\ k # x
      <4>1. k \in 0 .. x - 1 /\ k - 1 \in 0 .. x /\ k - 1 # x
        BY <2>1, <3>3
      <4>2. f[k] = DecoderStep(f[k - 1])
        BY <2>2, <3>3, <4>1 DEF StepsTo
      <4>3. g[k] = f[k] /\ g[k - 1] = f[k - 1]
        BY <3>3, <4>1
      <4> QED BY <3>3, <4>2, <4>3
    <3> QED BY <3>1, <3>2, <3>3
  <2>4. g = StepsTo(st, x, g)
    BY <2>3 DEF StepsTo
  <2> QED BY <2>4
<1> QED BY <1>3, <1>4

\* Decoder.Write on octets p that follow those of o.
LEMMA DecoderWriteOK ==
  ASSUME NEW o \in Seq(Octets), NEW p \in Seq(Octets), maxHeaderListSize \in Nat,
         NEW m, NEW saved, Decoded(m, saved, o, maxHeaderListSize),
         NEW x, JoinOf(x, o, p), NEW d, d = DecoderWrite(m, saved, p)
  PROVE  StepOK(d, x, maxHeaderListSize, m.stream)
<1>L. PICK L \in Nat : L = maxHeaderListSize
  OBVIOUS
<1>X. PICK X, i : WalkedTo(o, X, i) /\ saved = From(o, i - 1) /\ Limited(m, X, L)
  BY <1>L DEF Decoded
<1>i. i \in Nat /\ 1 <= i /\ i <= Len(o) + 1
  BY <1>X DEF WalkedTo
<1>j. PICK j \in Nat : j = i - 1 /\ j <= Len(o)
  BY <1>i
<1>1. saved \in Seq(Octets)
  BY <1>X, <1>j, Rest
<1>b. PICK b \in Seq(Octets) : b = saved \o p
  <2>1. saved \o p \in Seq(Octets)
    BY <1>1, Joined
  <2> QED BY <2>1
<1>2. b = From(x, i - 1)
  <2>1. From(o, j) \o p = From(x, j)
    BY <1>j, RestJoined
  <2> QED BY <1>X, <1>b, <1>j, <2>1
<1>3. x \in Seq(Octets) /\ IsPrefix(o, x)
  <2>1. x \in Seq(Octets)
    BY JoinedAs
  <2>2. IsPrefix(o, o \o p)
    BY PrefixOfJoined
  <2> QED BY <2>1, <2>2 DEF JoinOf
<1>4. WalkedTo(x, X, i)
  BY <1>3, <1>X, WalkStays
<1>s. PICK s : s = [buf |-> b, m |-> m, stop |-> FALSE, bad |-> FALSE]
  OBVIOUS
<1>5. StepOK(s, x, maxHeaderListSize, m.stream)
  <2>1. Decoded(m, b, x, L)
    BY <1>2, <1>4, <1>X DEF Decoded
  <2>2. /\ s = [buf |-> s.buf, m |-> s.m, stop |-> s.stop, bad |-> s.bad]
        /\ s.m = m /\ s.buf = b /\ s.bad = FALSE
    BY <1>s
  <2> QED BY <1>L, <2>1, <2>2 DEF StepOK
<1>n. PICK n \in Nat : n = Len(b)
  OBVIOUS
<1>6. d = (CHOOSE g : g = StepsTo(s, n, g))[n]
  BY <1>b, <1>n, <1>s DEF DecoderWrite, StepsTo
<1>7. \E g : g = StepsTo(s, n, g)
  <2>1. n \in 0 .. n
    OBVIOUS
  <2> QED BY <2>1, StepsExist
<1>g. PICK g : g = StepsTo(s, n, g) /\ d = g[n]
  BY <1>6, <1>7
<1>8. g[0] = s /\ \A k \in 1 .. n : g[k] = DecoderStep(g[k - 1])
  <2>1. \A k \in 0 .. n : g[k] = IF k = 0 THEN s ELSE DecoderStep(g[k - 1])
    BY <1>g DEF StepsTo
  <2> QED BY <2>1
<1> DEFINE Bad == {k \in 0 .. n : ~ StepOK(g[k], x, maxHeaderListSize, m.stream)}
<1>9. ASSUME Bad # {} PROVE FALSE
  <2>1. Bad \subseteq Nat
    OBVIOUS
  <2>2. PICK y \in Bad : \A z \in Bad : y <= z
    BY <1>9, <2>1, LeastNatural
  <2>3. y \in 0 .. n /\ ~ StepOK(g[y], x, maxHeaderListSize, m.stream)
    BY <2>2
  <2>4. y # 0
    BY <1>5, <1>8, <2>3
  <2>5. y - 1 \in 0 .. n /\ y \in 1 .. n /\ ~ (y <= y - 1)
    BY <2>3, <2>4
  <2>6. StepOK(g[y - 1], x, maxHeaderListSize, m.stream)
    BY <2>2, <2>5
  <2>7. g[y] = DecoderStep(g[y - 1])
    BY <1>8, <2>5
  <2>8. StepOK(g[y], x, maxHeaderListSize, m.stream)
    BY <1>3, <2>6, <2>7, DecoderStepOK
  <2> QED BY <2>3, <2>8
<1>10. n \in 0 .. n /\ StepOK(g[n], x, maxHeaderListSize, m.stream)
  <2>1. n \in 0 .. n
    OBVIOUS
  <2> QED BY <1>9, <2>1
<1> QED BY <1>10, <1>g

-----------------------------------------------------------------------------
(***************************************************************************)
(* What is written: octets.                                                *)
(***************************************************************************)
\* The first powers of Octet.
PowersTo(n, g) == [k \in 0 .. n |-> IF k = 0 THEN 1 ELSE Octet * g[k - 1]]

\* They exist.
LEMMA PowersExist ==
  ASSUME NEW N \in Nat
  PROVE  \E g : g = PowersTo(N, g)
<1> DEFINE Missing == {n \in 0 .. N : ~ \E g : g = PowersTo(n, g)}
<1>0. N \in 0 .. N
  OBVIOUS
<1> SUFFICES ASSUME Missing # {} PROVE FALSE
  BY <1>0
<1>1. Missing \subseteq Nat
  OBVIOUS
<1>2. PICK x \in Missing : \A y \in Missing : x <= y
  BY <1>1, LeastNatural
<1>3. CASE x = 0
  <2> DEFINE g == [k \in 0 .. 0 |-> 1]
  <2>1. g = PowersTo(0, g)
    BY DEF PowersTo
  <2> QED BY <1>2, <1>3, <2>1
<1>4. CASE x # 0
  <2>1. x - 1 \in 0 .. N /\ x \in 0 .. N /\ ~ (x <= x - 1)
    BY <1>4
  <2>2. PICK f : f = PowersTo(x - 1, f)
    BY <1>2, <2>1
  <2> DEFINE g == [k \in 0 .. x |-> IF k = x THEN Octet * f[x - 1] ELSE f[k]]
  <2>3. ASSUME NEW k \in 0 .. x
        PROVE  g[k] = IF k = 0 THEN 1 ELSE Octet * g[k - 1]
    <3>1. CASE k = 0
      <4>1. f[0] = 1
        BY <2>1, <2>2 DEF PowersTo
      <4> QED BY <1>4, <3>1, <4>1
    <3>2. CASE k = x
      <4>1. g[k - 1] = f[x - 1]
        BY <2>1, <3>2
      <4> QED BY <1>4, <3>2, <4>1
    <3>3. CASE k # 0 /\ k # x
      <4>1. k \in 0 .. x - 1 /\ k - 1 \in 0 .. x /\ k - 1 # x
        BY <2>1, <3>3
      <4>2. f[k] = Octet * f[k - 1]
        BY <2>2, <3>3, <4>1 DEF PowersTo
      <4>3. g[k] = f[k] /\ g[k - 1] = f[k - 1]
        BY <3>3, <4>1
      <4> QED BY <3>3, <4>2, <4>3
    <3> QED BY <3>1, <3>2, <3>3
  <2>4. g = PowersTo(x, g)
    BY <2>3 DEF PowersTo
  <2> QED BY <2>4
<1> QED BY <1>3, <1>4

\* And are the same however many there are.
LEMMA PowersSame ==
  ASSUME NEW n \in Nat, NEW g, g = PowersTo(n, g), NEW m \in Nat, NEW h, h = PowersTo(m, h),
         NEW j \in Nat, j <= n, j <= m
  PROVE  g[j] = h[j]
<1> DEFINE Bad == {k \in 0 .. j : g[k] # h[k]}
<1>0. j \in 0 .. j
  OBVIOUS
<1> SUFFICES ASSUME Bad # {} PROVE FALSE
  BY <1>0
<1>1. Bad \subseteq Nat
  OBVIOUS
<1>2. PICK x \in Bad : \A y \in Bad : x <= y
  BY <1>1, LeastNatural
<1>3. x \in 0 .. n /\ x \in 0 .. m /\ x \in 0 .. j
  BY <1>2
<1>4. CASE x = 0
  <2>1. g[0] = 1
    BY <1>3, <1>4 DEF PowersTo
  <2>2. h[0] = 1
    BY <1>3, <1>4 DEF PowersTo
  <2> QED BY <1>2, <1>4, <2>1, <2>2
<1>5. CASE x # 0
  <2>1. x - 1 \in 0 .. j /\ ~ (x <= x - 1)
    BY <1>3, <1>5
  <2>2. g[x - 1] = h[x - 1]
    BY <1>2, <2>1
  <2>3. g[x] = Octet * g[x - 1]
    BY <1>3, <1>5 DEF PowersTo
  <2>4. h[x] = Octet * h[x - 1]
    BY <1>3, <1>5 DEF PowersTo
  <2> QED BY <1>2, <2>2, <2>3, <2>4
<1> QED BY <1>4, <1>5

\* Power is what it says.
LEMMA PowerIs ==
  /\ Power[0] = 1
  /\ \A k \in Nat : Power[k + 1] = Octet * Power[k]
<1> DEFINE f == [k \in Nat |-> (CHOOSE g : g = PowersTo(k, g))[k]]
<1>1. ASSUME NEW k \in Nat PROVE \E g : g = PowersTo(k, g) /\ f[k] = g[k]
  <2>1. \E g : g = PowersTo(k, g)
    BY PowersExist
  <2> QED BY <2>1
<1>2. ASSUME NEW k \in Nat PROVE f[k] = IF k = 0 THEN 1 ELSE Octet * f[k - 1]
  <2>1. PICK g : g = PowersTo(k, g) /\ f[k] = g[k]
    BY <1>1
  <2> HIDE DEF f
  <2>0. k \in 0 .. k
    OBVIOUS
  <2>2. CASE k = 0
    BY <2>0, <2>1, <2>2 DEF PowersTo
  <2>3. CASE k # 0
    <3>1. k - 1 \in Nat /\ k - 1 <= k
      BY <2>3
    <3>2. PICK h : h = PowersTo(k - 1, h) /\ f[k - 1] = h[k - 1]
      BY <1>1, <3>1
    <3>3. g[k - 1] = h[k - 1]
      <4>1. PICK i \in Nat : i = k - 1 /\ i <= k /\ i <= i
        BY <3>1
      <4>2. h = PowersTo(i, h)
        BY <3>2, <4>1
      <4>3. g[i] = h[i]
        BY <2>1, <4>1, <4>2, PowersSame
      <4> QED BY <4>1, <4>3
    <3>4. g[k] = Octet * g[k - 1]
      BY <2>0, <2>1, <2>3 DEF PowersTo
    <3> QED BY <2>1, <2>3, <3>2, <3>3, <3>4
  <2> QED BY <2>2, <2>3
<1>3. f = [k \in Nat |-> IF k = 0 THEN 1 ELSE Octet * f[k - 1]]
  <2>1. f = [k \in Nat |-> f[k]]
    OBVIOUS
  <2> HIDE DEF f
  <2> QED BY <1>2, <2>1
<1>4. Power = [k \in Nat |-> IF k = 0 THEN 1 ELSE Octet * Power[k - 1]]
  <2>1. \E p : p = [k \in Nat |-> IF k = 0 THEN 1 ELSE Octet * p[k - 1]]
    BY <1>3
  <2> QED BY <2>1 DEF Power
<1>5. \A k \in Nat : Power[k] = IF k = 0 THEN 1 ELSE Octet * Power[k - 1]
  BY <1>4
<1> HIDE <1>4
<1>6. Power[0] = 1
  BY <1>5
<1>7. ASSUME NEW k \in Nat PROVE Power[k + 1] = Octet * Power[k]
  <2>1. k + 1 \in Nat /\ k + 1 # 0 /\ (k + 1) - 1 = k
    OBVIOUS
  <2>2. Power[k + 1] = Octet * Power[(k + 1) - 1]
    BY <1>5, <2>1
  <2> QED BY <2>1, <2>2
<1> QED BY <1>6, <1>7

\* The powers that writeUint32 divides by.
LEMMA PowerSmall == \A k \in 0 .. 4 : Power[k] \in Nat /\ Power[k] > 0
<1>o. Octet \in Nat /\ Octet > 0
  BY OctetAssumption
<1>1. ASSUME NEW k \in Nat, Power[k] \in Nat, Power[k] > 0
      PROVE  Power[k + 1] \in Nat /\ Power[k + 1] > 0
  <2>1. Power[k + 1] = Octet * Power[k]
    BY PowerIs
  <2>2. \A a, b \in Nat : a > 0 /\ b > 0 => a * b \in Nat /\ a * b > 0
    OBVIOUS
  <2> QED BY <1>o, <1>1, <2>1, <2>2
<1>2. Power[0] \in Nat /\ Power[0] > 0
  BY PowerIs
<1>3. Power[1] \in Nat /\ Power[1] > 0
  BY <1>1, <1>2
<1>4. Power[2] \in Nat /\ Power[2] > 0
  BY <1>1, <1>3
<1>5. Power[3] \in Nat /\ Power[3] > 0
  BY <1>1, <1>4
<1>6. Power[4] \in Nat /\ Power[4] > 0
  BY <1>1, <1>5
<1>7. \A k \in 0 .. 4 : k = 0 \/ k = 1 \/ k = 2 \/ k = 3 \/ k = 4
  OBVIOUS
<1> QED BY <1>2, <1>3, <1>4, <1>5, <1>6, <1>7

\* writeUint32 writes four octets.
LEMMA FourOctets ==
  ASSUME NEW v \in Nat
  PROVE  BigEndian(v, 4) \in Seq(Octets)
<1>o. Octet \in Nat /\ Octet > 0
  BY OctetAssumption
<1>1. ASSUME NEW i \in 1 .. 4 PROVE (v \div Power[4 - i]) % Octet \in Octets
  <2>1. 4 - i \in 0 .. 4
    OBVIOUS
  <2>p. PICK p \in Nat : p = Power[4 - i] /\ p > 0
    BY <2>1, PowerSmall
  <2>2. v \div p \in Int
    BY <2>p
  <2>3. (v \div p) % Octet \in 0 .. Octet - 1
    BY <1>o, <2>2
  <2> QED BY <2>3, <2>p DEF Octets
<1>2. BigEndian(v, 4) = [i \in 1 .. 4 |-> (v \div Power[4 - i]) % Octet]
  BY DEF BigEndian
<1> HIDE DEF Octets
<1>3. BigEndian(v, 4) \in [1 .. 4 -> Octets]
  BY <1>1, <1>2
<1> QED BY <1>3, SeqDef

\* The state of FlattenSeq.
FlatTo(s, n, g) == [i \in 1 .. n |-> IF i = 1 THEN s[i] ELSE g[i - 1] \o s[i]]

\* It exists, and has sequences of the elements.
LEMMA FlatExists ==
  ASSUME NEW S, NEW s \in Seq(Seq(S))
  PROVE  \E g : g = FlatTo(s, Len(s), g)
<1> DEFINE Missing == {n \in 0 .. Len(s) : ~ \E g : g = FlatTo(s, n, g)}
<1>0. Len(s) \in 0 .. Len(s)
  OBVIOUS
<1> SUFFICES ASSUME Missing # {} PROVE FALSE
  BY <1>0
<1>1. Missing \subseteq Nat
  OBVIOUS
<1>2. PICK x \in Missing : \A y \in Missing : x <= y
  BY <1>1, LeastNatural
<1>3. CASE x = 0
  <2> DEFINE g == [k \in 1 .. 0 |-> s[1]]
  <2>1. g = FlatTo(s, 0, g)
    BY DEF FlatTo
  <2> QED BY <1>2, <1>3, <2>1
<1>4. CASE x # 0
  <2>1. x - 1 \in 0 .. Len(s) /\ x \in 0 .. Len(s) /\ ~ (x <= x - 1)
    BY <1>4
  <2>2. PICK f : f = FlatTo(s, x - 1, f)
    BY <1>2, <2>1
  <2> DEFINE g == [k \in 1 .. x |-> IF k = x THEN (IF x = 1 THEN s[1] ELSE f[x - 1] \o s[x])
                                    ELSE f[k]]
  <2>3. ASSUME NEW k \in 1 .. x
        PROVE  g[k] = IF k = 1 THEN s[k] ELSE g[k - 1] \o s[k]
    <3>1. CASE k = x /\ k = 1
      BY <3>1
    <3>2. CASE k = x /\ k # 1
      <4>1. k - 1 \in 1 .. x /\ k - 1 # x
        BY <2>1, <3>2
      <4>2. g[k - 1] = f[x - 1]
        BY <3>2, <4>1
      <4> QED BY <3>2, <4>2
    <3>3. CASE k # x
      <4>1. k \in 1 .. x - 1
        BY <2>1, <3>3
      <4>2. f[k] = IF k = 1 THEN s[k] ELSE f[k - 1] \o s[k]
        BY <2>2, <4>1 DEF FlatTo
      <4>3. g[k] = f[k] /\ (k # 1 => g[k - 1] = f[k - 1])
        BY <2>1, <4>1
      <4> QED BY <4>2, <4>3
    <3> QED BY <3>1, <3>2, <3>3
  <2>4. g = FlatTo(s, x, g)
    BY <2>3 DEF FlatTo
  <2> QED BY <2>4
<1> QED BY <1>3, <1>4

\* Sequences put after each other are a sequence.
LEMMA Flat ==
  ASSUME NEW S, NEW s \in Seq(Seq(S)), NEW r, r = FlattenSeq(s)
  PROVE  r \in Seq(S)
<1>n. PICK n \in Nat : n = Len(s)
  OBVIOUS
<1>1. CASE n = 0
  <2>1. r = s /\ s = <<>>
    BY <1>1, <1>n DEF FlattenSeq
  <2> QED BY <2>1
<1>2. CASE n # 0
  <2>1. r = (CHOOSE g : g = FlatTo(s, n, g))[n]
    BY <1>2, <1>n DEF FlattenSeq, FlatTo
  <2>g. PICK g : g = FlatTo(s, n, g) /\ r = g[n]
    <3>1. \E g : g = FlatTo(s, n, g)
      BY <1>n, FlatExists
    <3> QED BY <2>1, <3>1
  <2>2. \A k \in 1 .. n : g[k] = IF k = 1 THEN s[k] ELSE g[k - 1] \o s[k]
    BY <2>g DEF FlatTo
  <2>3. \A k \in 1 .. n : s[k] \in Seq(S)
    BY <1>n
  <2> DEFINE Bad == {k \in 1 .. n : g[k] \notin Seq(S)}
  <2>4. ASSUME Bad # {} PROVE FALSE
    <3>1. Bad \subseteq Nat
      OBVIOUS
    <3>2. PICK x \in Bad : \A y \in Bad : x <= y
      BY <2>4, <3>1, LeastNatural
    <3>3. x \in 1 .. n /\ g[x] \notin Seq(S)
      BY <3>2
    <3>4. x # 1
      BY <2>2, <2>3, <3>3
    <3>5. x - 1 \in 1 .. n /\ ~ (x <= x - 1)
      BY <3>3, <3>4
    <3>6. g[x - 1] \in Seq(S)
      BY <3>2, <3>5
    <3>7. g[x - 1] \o s[x] \in Seq(S)
      BY <2>3, <3>3, <3>6, Joined
    <3>8. g[x] = g[x - 1] \o s[x]
      BY <2>2, <3>3, <3>4
    <3> QED BY <3>3, <3>7, <3>8
  <2>5. n \in 1 .. n
    BY <1>2
  <2> QED BY <2>4, <2>5, <2>g
<1> QED BY <1>1, <1>2

\* A short octet string.
LEMMA OneOctet == ASSUME NEW S, NEW x \in S PROVE <<x>> \in Seq(S)
OBVIOUS

\* p[n:], for any n.
LEMMA RestType ==
  ASSUME NEW S, NEW p \in Seq(S), NEW n \in Nat
  PROVE  From(p, n) \in Seq(S)
<1>1. CASE n <= Len(p)
  <2>1. 1 <= n + 1 /\ n + 1 <= Len(p) + 1 /\ n + 1 \in Nat /\ Len(p) \in Nat /\ Len(p) <= Len(p)
    BY <1>1
  <2>2. SubSeq(p, n + 1, Len(p)) \in Seq(S)
    BY <2>1, Piece
  <2> QED BY <2>2 DEF From
<1>2. CASE n > Len(p)
  <2>1. Len(p) - (n + 1) + 1 \in Int /\ Len(p) - (n + 1) + 1 < 0
    BY <1>2
  <2>2. SubSeq(p, n + 1, Len(p)) = <<>>
    BY <2>1
  <2> QED BY <2>2 DEF From
<1> QED BY <1>1, <1>2

\* p[:n], for any n.
LEMMA UpToType ==
  ASSUME NEW S, NEW p \in Seq(S), NEW n \in Nat
  PROVE  UpTo(p, n) \in Seq(S)
<1>1. Min({n, Len(p)}) = IF n <= Len(p) THEN n ELSE Len(p)
  BY MinOfTwo
<1>m. PICK m \in Nat : m = Min({n, Len(p)}) /\ m <= Len(p)
  BY <1>1
<1>2. UpTo(p, n) = [i \in 1 .. m |-> p[i]]
  BY <1>m DEF UpTo
<1>3. \A i \in 1 .. m : p[i] \in S
  BY <1>m
<1> QED BY <1>2, <1>3

\* The representation of a field.
LEMMA EncodeType ==
  ASSUME NEW f \in Encodable, NEW enc
  PROVE  Encode(f, enc) \in Seq(Octets)
<1>i. PICK indexed : indexed = {o \in DOMAIN Static : Static[o] = f}
  OBVIOUS
<1>0. indexed \subseteq Octets /\ indexed \subseteq Nat
  BY <1>i, HpackAssumption DEF Octets
<1>1. CASE indexed # {}
  <2>1. PICK x \in indexed : \A y \in indexed : x <= y
    BY <1>0, <1>1, LeastNatural
  <2>2. Min(indexed) = x
    BY <1>0, <2>1, MinIs
  <2>3. Encode(f, enc) = <<Min(indexed)>>
    BY <1>1, <1>i DEF Encode
  <2>4. x \in Octets
    BY <1>0
  <2>5. <<x>> \in Seq(Octets)
    BY <2>4, OneOctet
  <2> QED BY <2>2, <2>3, <2>5
<1>2. CASE indexed = {}
  <2>1. f \notin Range(Static)
    BY <1>2, <1>i DEF Range
  <2>2. f.name \in Range(NameAt) /\ f.value \in Octets
    BY <2>1 DEF Encodable
  <2>3. \E o \in DOMAIN NameAt : NameAt[o] = f.name
    BY <2>2 DEF Range
  <2>o. PICK o \in DOMAIN NameAt : o = CHOOSE x \in DOMAIN NameAt : NameAt[x] = f.name
    BY <2>3
  <2>l. PICK l \in Octets : l = IF shouldIndex(f, enc) THEN IndexOctet ELSE LiteralOctet
    BY HpackAssumption
  <2>4. Encode(f, enc) = <<l, o, f.value>>
    BY <1>2, <1>i, <2>l, <2>o DEF Encode
  <2>5. o \in Octets
    BY HpackAssumption
  <2> QED BY <2>2, <2>4, <2>5
<1> QED BY <1>1, <1>2

\* encKV of several fields.
LEMMA EncodeAllType ==
  ASSUME NEW fields \in Seq(Encodable), NEW enc
  PROVE  EncodeAll(fields, enc) \in Seq(Octets)
<1>s. PICK s : s = [i \in DOMAIN fields |-> Encode(fields[i], enc)]
  OBVIOUS
<1>1. \A i \in 1 .. Len(fields) : Encode(fields[i], enc) \in Seq(Octets)
  BY EncodeType
<1>2. s = [i \in 1 .. Len(fields) |-> Encode(fields[i], enc)]
  BY <1>s
<1>3. s \in Seq(Seq(Octets))
  BY <1>1, <1>2
<1>f. PICK flat \in Seq(Octets) : flat = FlattenSeq(s)
  BY <1>3, Flat
<1>u. PICK update \in Seq(Octets) : update = appendTableSize(fields, enc)
  <2>1. SizeUpdate \in Octets
    BY HpackAssumption
  <2>2. <<SizeUpdate>> \in Seq(Octets) /\ <<>> \in Seq(Octets)
    BY <2>1, OneOctet
  <2> QED BY <2>2 DEF appendTableSize
<1>4. update \o flat \in Seq(Octets)
  BY Joined
<1> QED BY <1>4, <1>f, <1>s, <1>u DEF EncodeAll

\* What is left of the header fields of a request.
LEMMA encodeHeadersType ==
  ASSUME NEW h, \A k \in DOMAIN h : h[k] \in Seq(Octets), NEW keys \in Seq(STRING)
  PROVE  encodeHeaders(h, keys) \in Seq(Encodable)
<1> DEFINE values(k) == IF k \in DOMAIN h THEN h[k] ELSE <<>>
           pairs == [i \in DOMAIN keys |->
                       [j \in DOMAIN values(keys[i]) |->
                          [name |-> lowerHeader(keys[i]), value |-> values(keys[i])[j]]]]
           written(f) == /\ f.name # NotASCII /\ validWireHeaderFieldName(f.name)
                         /\ ValidHeaderFieldValue(f.value)
                         /\ f.name = "transfer-encoding" => f.value = TETrailers
           Names == {lowerHeader(keys[i]) : i \in 1 .. Len(keys)}
           Pairs == [name : Names, value : Octets]
<1>1. ASSUME NEW i \in 1 .. Len(keys)
      PROVE  [j \in DOMAIN values(keys[i]) |->
                [name |-> lowerHeader(keys[i]), value |-> values(keys[i])[j]]] \in Seq(Pairs)
  <2>v. PICK v : v = values(keys[i])
    OBVIOUS
  <2>x. PICK x \in Names : x = lowerHeader(keys[i])
    OBVIOUS
  <2>1. v \in Seq(Octets)
    BY <2>v
  <2>2. \A j \in 1 .. Len(v) : [name |-> x, value |-> v[j]] \in Pairs
    BY <2>1
  <2> HIDE DEF Pairs, Names, values
  <2>3. [j \in 1 .. Len(v) |-> [name |-> x, value |-> v[j]]] \in Seq(Pairs)
    BY <2>1, <2>2
  <2> QED BY <2>1, <2>3, <2>v, <2>x
<1>2. pairs \in Seq(Seq(Pairs))
  <2> HIDE DEF Pairs, Names, values
  <2>1. pairs = [i \in 1 .. Len(keys) |->
                   [j \in DOMAIN values(keys[i]) |->
                      [name |-> lowerHeader(keys[i]), value |-> values(keys[i])[j]]]]
    OBVIOUS
  <2> HIDE DEF pairs
  <2> QED BY <1>1, <2>1
<1>f. PICK fields : fields = FlattenSeq(pairs)
  OBVIOUS
<1>3. fields \in Seq(Pairs)
  <2> HIDE DEF pairs, Pairs
  <2> QED BY <1>2, <1>f, Flat
<1>s. PICK s : s = [i \in DOMAIN fields |-> IF written(fields[i]) THEN <<fields[i]>> ELSE <<>>]
  OBVIOUS
<1>4. ASSUME NEW i \in 1 .. Len(fields)
      PROVE  (IF written(fields[i]) THEN <<fields[i]>> ELSE <<>>) \in Seq(Encodable)
  <2>1. CASE written(fields[i])
    <3>g. PICK g : g = fields[i]
      OBVIOUS
    <3>1. g \in Pairs
      <4> HIDE DEF Pairs, written
      <4> QED BY <1>3, <3>g
    <3>2. g.name \in WireNames
      BY <2>1, <3>g DEF validWireHeaderFieldName
    <3>3. g.name \in Range(NameAt) /\ g.value \in Octets
      BY <3>1, <3>2, HpackAssumption
    <3>4. g = [name |-> g.name, value |-> g.value]
      BY <3>1
    <3>5. g \in Encodable
      BY <3>3, <3>4 DEF Encodable
    <3>6. <<g>> \in Seq(Encodable)
      BY <3>5, OneOctet
    <3> HIDE DEF written
    <3> QED BY <2>1, <3>6, <3>g
  <2>2. CASE ~ written(fields[i])
    <3>1. <<>> \in Seq(Encodable)
      OBVIOUS
    <3> HIDE DEF written
    <3> QED BY <2>2, <3>1
  <2> QED BY <2>1, <2>2
<1>5. s \in Seq(Seq(Encodable))
  <2> HIDE DEF written, Pairs
  <2>1. s = [i \in 1 .. Len(fields) |-> IF written(fields[i]) THEN <<fields[i]>> ELSE <<>>]
    BY <1>3, <1>s
  <2> QED BY <1>3, <1>4, <2>1
<1>6. encodeHeaders(h, keys) = FlattenSeq(s)
  BY <1>f, <1>s DEF encodeHeaders
<1> QED BY <1>5, <1>6, Flat

\* The keys that are written.
LEMMA KeysType ==
  ASSUME NEW h
  PROVE  Keys(h) \in Seq(STRING)
<1>0. SortedKeys \in Seq(STRING)
  BY WritersAssumption
<1>s. PICK s : s = [i \in DOMAIN SortedKeys |->
                      IF SortedKeys[i] \in DOMAIN h THEN <<SortedKeys[i]>> ELSE <<>>]
  OBVIOUS
<1>1. ASSUME NEW i \in 1 .. Len(SortedKeys)
      PROVE  (IF SortedKeys[i] \in DOMAIN h THEN <<SortedKeys[i]>> ELSE <<>>) \in Seq(STRING)
  <2>1. SortedKeys[i] \in STRING
    BY <1>0
  <2>2. <<SortedKeys[i]>> \in Seq(STRING) /\ <<>> \in Seq(STRING)
    BY <2>1, OneOctet
  <2> QED BY <2>2
<1>2. s = [i \in 1 .. Len(SortedKeys) |->
             IF SortedKeys[i] \in DOMAIN h THEN <<SortedKeys[i]>> ELSE <<>>]
  BY <1>0, <1>s
<1>3. s \in Seq(Seq(STRING))
  BY <1>0, <1>1, <1>2
<1> QED BY <1>3, <1>s, Flat DEF Keys

\* Fragments of octets, in a sequence.
LEMMA splitHeaderBlockType ==
  ASSUME NEW octets \in Seq(Octets)
  PROVE  \E n \in Int : /\ DOMAIN splitHeaderBlock(octets) = 1 .. n
                        /\ \A i \in 1 .. n : splitHeaderBlock(octets)[i].frag \in Seq(Octets)
<1>F. PICK F \in Nat : F = MaxFragment /\ F >= 1
  <2>1. MaxFragment \in 1 .. maxReadSize
    BY SizeAssumption
  <2>2. \A a, b : a \in 1 .. b => a \in Int /\ 1 <= a
    OBVIOUS
  <2> QED BY <2>1, <2>2
<1>n. PICK n \in Int : n = (Len(octets) + F - 1) \div F
  <2>1. Len(octets) + F - 1 \in Int
    OBVIOUS
  <2>2. \A a \in Int : a \div F \in Int
    BY <1>F
  <2> QED BY <2>1, <2>2
<1>1. splitHeaderBlock(octets) =
        [i \in 1 .. n |->
           [frag |-> UpTo(From(octets, (i - 1) * F), F), first |-> i = 1, last |-> i = n]]
  BY <1>F, <1>n DEF splitHeaderBlock
<1>2. ASSUME NEW i \in 1 .. n
      PROVE  UpTo(From(octets, (i - 1) * F), F) \in Seq(Octets)
  <2>k. PICK k \in Nat : k = (i - 1) * F
    <3>1. i - 1 \in Nat
      OBVIOUS
    <3>2. \A a, b \in Nat : a * b \in Nat
      OBVIOUS
    <3> QED BY <3>1, <3>2
  <2>r. PICK r \in Seq(Octets) : r = From(octets, k)
    BY RestType
  <2>1. UpTo(r, F) \in Seq(Octets)
    BY UpToType
  <2> QED BY <2>1, <2>k, <2>r
<1>s. PICK s : s = splitHeaderBlock(octets)
  OBVIOUS
<1>3. DOMAIN s = 1 .. n
  BY <1>1, <1>s
<1>4. ASSUME NEW i \in 1 .. n PROVE s[i].frag \in Seq(Octets)
  <2>1. s[i].frag = UpTo(From(octets, (i - 1) * F), F)
    BY <1>1, <1>s
  <2> QED BY <1>2, <2>1
<1> QED BY <1>3, <1>4, <1>s

\* A call that writes octets.
SoundCall(c) ==
  /\ c.type \in FrameTypes
  /\ c.type \in {"HEADERS", "CONTINUATION"} => c.val.frag \in Seq(Octets)
  /\ c.type = "HEADERS" =>
       /\ c.val.priority \in [dep : Nat, exclusive : BOOLEAN, weight : Octets]
       /\ c.pad = NoPad \/ Len(c.pad) \in Octets

\* A call that compiles does.
LEMMA CallSound == ASSUME NEW c, IsCall(c) PROVE SoundCall(c)
<1>1. c.type \in FrameTypes
  BY DEF IsCall
<1>2. c.type \in {"HEADERS", "CONTINUATION"} => c.val.frag \in Seq(Octets)
  BY DEF IsCall
<1>3. ASSUME c.type = "HEADERS"
      PROVE  /\ c.val.priority \in [dep : Nat, exclusive : BOOLEAN, weight : Octets]
             /\ c.pad = NoPad \/ Len(c.pad) \in Octets
  <2>1. c.val.priority \in PriorityParam /\ (c.pad = NoPad \/ Len(c.pad) \in Octets)
    BY <1>3 DEF IsCall, PadLengthParam
  <2>2. Uint32 \subseteq Nat
    BY PowerSmall DEF Uint32
  <2>3. c.val.priority \in [dep : Nat, exclusive : BOOLEAN, weight : Octets]
    BY <2>1, <2>2 DEF PriorityParam
  <2> QED BY <2>1, <2>3
<1> QED BY <1>1, <1>2, <1>3 DEF SoundCall

\* A sequence of calls.
AreCalls(s) ==
  \E n \in Int : DOMAIN s = 1 .. n /\ s = [i \in 1 .. n |-> s[i]] /\ \A i \in 1 .. n : IsCall(s[i])

\* One call.
LEMMA OneCall == ASSUME NEW c, IsCall(c) PROVE AreCalls(<<c>>)
<1>1. DOMAIN <<c>> = 1 .. 1 /\ <<c>> = [i \in 1 .. 1 |-> <<c>>[i]] /\ <<c>>[1] = c
  OBVIOUS
<1>2. \A i \in 1 .. 1 : i = 1
  OBVIOUS
<1> QED BY <1>1, <1>2 DEF AreCalls

\* 0 is an octet.
LEMMA ZeroOctet == 0 \in Octets
BY OctetAssumption DEF Octets

\* 2 is a uint32, and so is 0.
LEMMA SmallNumbers == 0 \in Uint32 /\ ErrCodeInternal \in Uint32
<1>p. PICK p \in Nat : p = Power[3] /\ p > 0
  BY PowerSmall
<1>q. PICK q \in Nat : p = q + 1
  <2>1. p - 1 \in Nat /\ p = (p - 1) + 1
    BY <1>p
  <2> QED BY <2>1
<1>o. PICK o \in Nat : o = Octet /\ o > 32
  BY OctetAssumption
<1>1. Power[4] = o * p
  <2>1. Power[3 + 1] = Octet * Power[3]
    BY PowerIs
  <2> QED BY <1>o, <1>p, <2>1
<1>2. o * p = o * q + o /\ o * q \in Nat
  BY <1>q
<1>3. Power[4] \in Nat /\ Power[4] > 32
  BY <1>1, <1>2, <1>o
<1> QED BY <1>3 DEF Uint32, ErrCodeInternal

\* The priority of a call without one.
LEMMA NoPriorityParam == NoPriority \in PriorityParam
BY ZeroOctet, SmallNumbers DEF NoPriority, PriorityParam

\* A header of a response, or trailers.
LEMMA ResHeadersSound ==
  ASSUME NEW w \in Writers, w.kind = "writeResHeaders", NEW enc
  PROVE  AreCalls(writeResHeaders(w, enc))
<1>w. /\ \A k \in DOMAIN w.h : w.h[k] \in Seq(Octets)
      /\ w.status \in Seq(Encodable) /\ w.more \in Seq(Encodable)
      /\ w.trailers \in Seq(STRING)
  BY WritersAssumption
<1>h. PICK h, status, more, trailers :
        /\ h = w.h /\ status = w.status /\ more = w.more /\ trailers = w.trailers
        /\ \A k \in DOMAIN h : h[k] \in Seq(Octets)
        /\ status \in Seq(Encodable) /\ more \in Seq(Encodable) /\ trailers \in Seq(STRING)
  BY <1>w
<1>k. PICK keys : keys = IF w.isTrailer THEN trailers ELSE Keys(h)
  OBVIOUS
<1>1. keys \in Seq(STRING)
  <2>1. Keys(h) \in Seq(STRING)
    BY KeysType
  <2> QED BY <1>h, <1>k, <2>1
<1>e. PICK e : e = encodeHeaders(h, keys)
  OBVIOUS
<1>2. e \in Seq(Encodable)
  BY <1>1, <1>e, <1>h, encodeHeadersType
<1>a. PICK a \in Seq(Encodable) : a = status \o e
  <2>1. status \o e \in Seq(Encodable)
    BY <1>2, <1>h, Joined
  <2> QED BY <2>1
<1>f. PICK fields \in Seq(Encodable) : fields = a \o more
  <2>1. a \o more \in Seq(Encodable)
    BY <1>h, Joined
  <2> QED BY <2>1
<1>o. PICK octets \in Seq(Octets) : octets = EncodeAll(fields, enc)
  BY EncodeAllType
<1>p. PICK parts : parts = splitHeaderBlock(octets)
  OBVIOUS
<1>n. PICK n \in Int : DOMAIN parts = 1 .. n /\ \A i \in 1 .. n : parts[i].frag \in Seq(Octets)
  BY <1>p, splitHeaderBlockType
<1>s. PICK s : s = writeResHeaders(w, enc)
  OBVIOUS
<1>3. s = [i \in 1 .. n |->
             HeaderCall(w, parts[i],
               Call("HEADERS", EndStream(w.end) \cup EndHeaders(parts[i].last), w.stream,
                    [frag |-> parts[i].frag, priority |-> NoPriority]))]
  <2>0. HeaderFields(w)
          = w.status \o encodeHeaders(w.h, IF w.isTrailer THEN w.trailers ELSE Keys(w.h)) \o w.more
    BY DEF HeaderFields
  <2>1. splitHeaderBlock(EncodeAll(HeaderFields(w), enc)) = parts
    BY <1>h, <1>k, <1>e, <1>a, <1>f, <1>o, <1>p, <2>0, Zenon
  <2> QED BY <1>n, <1>s, <2>1, Zenon DEF writeResHeaders
<1>4. ASSUME NEW i \in 1 .. n PROVE IsCall(s[i])
  <2>0. parts[i].frag \in Seq(Octets)
    BY <1>n
  <2>1. /\ EndStream(w.end) \cup EndHeaders(parts[i].last) \subseteq {END_STREAM, END_HEADERS}
        /\ EndHeaders(parts[i].last) \subseteq {END_HEADERS}
    BY DEF EndStream, EndHeaders
  <2>2. IsCall(Call("HEADERS", EndStream(w.end) \cup EndHeaders(parts[i].last), w.stream,
                    [frag |-> parts[i].frag, priority |-> NoPriority]))
    BY <2>0, <2>1, NoPriorityParam DEF IsCall, Call, FrameTypes, PadLengthParam
  <2>3. IsCall(Call("CONTINUATION", EndHeaders(parts[i].last), w.stream, [frag |-> parts[i].frag]))
    BY <2>0, <2>1 DEF IsCall, Call, FrameTypes
  <2> QED BY <1>3, <2>2, <2>3 DEF HeaderCall
<1>5. DOMAIN s = 1 .. n /\ s = [i \in 1 .. n |-> s[i]]
  BY <1>3
<1>6. AreCalls(s)
  BY <1>4, <1>5 DEF AreCalls
<1> QED BY <1>6, <1>s

\* A promise.
LEMMA PushPromiseSound ==
  ASSUME NEW w \in Writers, w.kind = "writePushPromise", NEW enc
  PROVE  AreCalls(writePushPromise(w, enc))
<1>w. /\ \A k \in DOMAIN w.h : w.h[k] \in Seq(Octets)
      /\ w.request \in Seq(Encodable) /\ w.promised \in Uint32
  BY WritersAssumption
<1>h. PICK h, request :
        /\ h = w.h /\ request = w.request
        /\ \A k \in DOMAIN h : h[k] \in Seq(Octets)
        /\ request \in Seq(Encodable)
  BY <1>w
<1>k. PICK keys \in Seq(STRING) : keys = Keys(h)
  BY KeysType
<1>e. PICK e : e = encodeHeaders(h, keys)
  OBVIOUS
<1>2. e \in Seq(Encodable)
  BY <1>e, <1>h, encodeHeadersType
<1>f. PICK fields \in Seq(Encodable) : fields = request \o e
  <2>1. request \o e \in Seq(Encodable)
    BY <1>2, <1>h, Joined
  <2> QED BY <2>1
<1>o. PICK octets \in Seq(Octets) : octets = EncodeAll(fields, enc)
  BY EncodeAllType
<1>p. PICK parts : parts = splitHeaderBlock(octets)
  OBVIOUS
<1>n. PICK n \in Int : DOMAIN parts = 1 .. n /\ \A i \in 1 .. n : parts[i].frag \in Seq(Octets)
  BY <1>p, splitHeaderBlockType
<1>s. PICK s : s = writePushPromise(w, enc)
  OBVIOUS
<1>3. s = [i \in 1 .. n |->
             HeaderCall(w, parts[i],
               Call("PUSH_PROMISE", EndHeaders(parts[i].last), w.stream,
                    [promise |-> w.promised, frag |-> parts[i].frag]))]
  <2>0. HeaderFields(w) = w.request \o encodeHeaders(w.h, Keys(w.h))
    BY DEF HeaderFields
  <2>1. splitHeaderBlock(EncodeAll(HeaderFields(w), enc)) = parts
    BY <1>h, <1>k, <1>e, <1>f, <1>o, <1>p, <2>0, Zenon
  <2> QED BY <1>n, <1>s, <2>1, Zenon DEF writePushPromise
<1>4. ASSUME NEW i \in 1 .. n PROVE IsCall(s[i])
  <2>0. parts[i].frag \in Seq(Octets)
    BY <1>n
  <2>1. EndHeaders(parts[i].last) \subseteq {END_HEADERS}
    BY DEF EndHeaders
  <2>2. IsCall(Call("PUSH_PROMISE", EndHeaders(parts[i].last), w.stream,
                    [promise |-> w.promised, frag |-> parts[i].frag]))
    BY <1>w, <2>0, <2>1 DEF IsCall, Call, FrameTypes, PadLengthParam
  <2>3. IsCall(Call("CONTINUATION", EndHeaders(parts[i].last), w.stream, [frag |-> parts[i].frag]))
    BY <2>0, <2>1 DEF IsCall, Call, FrameTypes
  <2> QED BY <1>3, <2>2, <2>3 DEF HeaderCall
<1>5. DOMAIN s = 1 .. n /\ s = [i \in 1 .. n |-> s[i]]
  BY <1>3
<1>6. AreCalls(s)
  BY <1>4, <1>5 DEF AreCalls
<1> QED BY <1>6, <1>s

\* The calls of any request.
LEMMA RequestSound ==
  ASSUME NEW w \in Writers, NEW enc
  PROVE  AreCalls(CallsOf(w, enc))
<1>1. CASE w.kind = "writeResHeaders"
  <2>1. CallsOf(w, enc) = writeResHeaders(w, enc)
    BY <1>1 DEF CallsOf
  <2> QED BY <1>1, <2>1, ResHeadersSound
<1>2. CASE w.kind = "writePushPromise"
  <2>1. CallsOf(w, enc) = writePushPromise(w, enc)
    BY <1>2 DEF CallsOf
  <2> QED BY <1>2, <2>1, PushPromiseSound
<1>3. CASE w.kind = "write100Continue"
  <2>c. PICK c : c = Call("HEADERS", {END_HEADERS}, w.stream,
                          [frag |-> EncodeAll(HeaderFields(w), enc), priority |-> NoPriority])
    OBVIOUS
  <2>s. PICK status \in Seq(Encodable) : status = HeaderFields(w)
    BY <1>3, WritersAssumption DEF HeaderFields
  <2>o. PICK octets \in Seq(Octets) : octets = EncodeAll(status, enc)
    BY EncodeAllType
  <2>2. IsCall(c)
    BY <2>c, <2>o, <2>s, NoPriorityParam DEF IsCall, Call, FrameTypes, PadLengthParam
  <2>3. CallsOf(w, enc) = <<c>>
    BY <1>3, <2>c DEF CallsOf, write100Continue
  <2> QED BY <2>2, <2>3, OneCall
<1>4. ASSUME NEW c, CallsOf(w, enc) = <<c>>, IsCall(c)
      PROVE  AreCalls(CallsOf(w, enc))
  BY <1>4, OneCall
<1>5. CASE w.kind = "writeSettings"
  <2>c. PICK c : c = Call("SETTINGS", {}, 0, [settings |-> w.settings])
    OBVIOUS
  <2>1. CallsOf(w, enc) = <<c>>
    BY <1>5, <2>c DEF CallsOf, writeSettings
  <2>2. w.settings \in Seq(Setting)
    BY <1>5, WritersAssumption
  <2>3. IsCall(c)
    BY <2>2, <2>c DEF IsCall, Call, FrameTypes
  <2> QED BY <1>4, <2>1, <2>3
<1>6. CASE w.kind = "writeGoAway"
  <2>c. PICK c : c = Call("GOAWAY", {}, 0, [last |-> w.maxStreamID, code |-> w.code, debug |-> <<>>])
    OBVIOUS
  <2>1. CallsOf(w, enc) = <<c>>
    BY <1>6, <2>c DEF CallsOf, writeGoAway
  <2>2. w.maxStreamID \in Uint32 /\ w.code \in Uint32
    BY <1>6, WritersAssumption
  <2>3. IsCall(c)
    BY <2>2, <2>c DEF IsCall, Call, FrameTypes
  <2> QED BY <1>4, <2>1, <2>3
<1>7. CASE w.kind = "writeData"
  <2>c. PICK c : c = Call("DATA", EndStream(w.end), w.stream, [data |-> w.p])
    OBVIOUS
  <2>1. CallsOf(w, enc) = <<c>>
    BY <1>7, <2>c DEF CallsOf, writeData
  <2>2. w.p \in Seq(Octets)
    BY <1>7, WritersAssumption
  <2>3. IsCall(c)
    BY <2>2, <2>c DEF IsCall, Call, FrameTypes, EndStream
  <2> QED BY <1>4, <2>1, <2>3
<1>8. CASE w.kind = "handlerPanicRST"
  <2>c. PICK c : c = Call("RST_STREAM", {}, w.stream, [code |-> ErrCodeInternal])
    OBVIOUS
  <2>1. CallsOf(w, enc) = <<c>>
    BY <1>8, <2>c DEF CallsOf, handlerPanicRST
  <2>3. IsCall(c)
    BY <2>c, SmallNumbers DEF IsCall, Call, FrameTypes
  <2> QED BY <1>4, <2>1, <2>3
<1>9. CASE w.kind = "StreamError"
  <2>c. PICK c : c = Call("RST_STREAM", {}, w.stream, [code |-> w.code])
    OBVIOUS
  <2>1. CallsOf(w, enc) = <<c>>
    BY <1>9, <2>c DEF CallsOf, writeStreamError
  <2>2. w.code \in Uint32
    BY <1>9, WritersAssumption
  <2>3. IsCall(c)
    BY <2>2, <2>c DEF IsCall, Call, FrameTypes
  <2> QED BY <1>4, <2>1, <2>3
<1>10. CASE w.kind = "writePingAck"
  <2>c. PICK c : c = Call("PING", {ACK}, 0, [data |-> w.data])
    OBVIOUS
  <2>1. CallsOf(w, enc) = <<c>>
    BY <1>10, <2>c DEF CallsOf, writePingAck
  <2>2. w.data \in [1 .. 8 -> Octets]
    BY <1>10, WritersAssumption
  <2>3. IsCall(c)
    BY <2>2, <2>c DEF IsCall, Call, FrameTypes
  <2> QED BY <1>4, <2>1, <2>3
<1>11. CASE w.kind = "writeSettingsAck"
  <2>c. PICK c : c = Call("SETTINGS", {ACK}, 0, [settings |-> <<>>])
    OBVIOUS
  <2>1. CallsOf(w, enc) = <<c>>
    BY <1>11, <2>c DEF CallsOf, writeSettingsAck
  <2>3. IsCall(c)
    BY <2>c DEF IsCall, Call, FrameTypes
  <2> QED BY <1>4, <2>1, <2>3
<1>12. CASE w.kind = "writeWindowUpdate"
  <2>c. PICK c : c = Call("WINDOW_UPDATE", {}, w.stream, [increment |-> w.n])
    OBVIOUS
  <2>1. CallsOf(w, enc) = <<c>>
    BY <1>12, <2>c DEF CallsOf, writeWindowUpdate
  <2>2. w.n \in Uint32
    BY <1>12, WritersAssumption
  <2>3. IsCall(c)
    BY <2>2, <2>c DEF IsCall, Call, FrameTypes
  <2> QED BY <1>4, <2>1, <2>3
<1>13. w.kind \in {"writeResHeaders", "writePushPromise", "write100Continue",
                   "writeSettings", "writeGoAway", "writeData", "handlerPanicRST",
                   "StreamError", "writePingAck", "writeSettingsAck", "writeWindowUpdate"}
  BY WritersAssumption
<1> QED
  BY <1>1, <1>2, <1>3, <1>5, <1>6, <1>7, <1>8, <1>9, <1>10, <1>11, <1>12, <1>13

\* 1<<31 is positive.
LEMMA HighBitPositive == HighBit \in Nat /\ HighBit > 0
<1>o. Octet \in Nat /\ Octet >= 2
  BY OctetAssumption
<1>p. PICK p \in Nat : p = Power[3] /\ p >= 1
  BY PowerSmall
<1>1. Power[4] = Octet * p
  <2>1. Power[3 + 1] = Octet * Power[3]
    BY PowerIs
  <2> QED BY <1>p, <2>1
<1>2. Octet * p >= 2 /\ Octet * p \in Nat
  <2>1. ASSUME NEW a \in Nat, a >= 2, NEW b \in Nat, b >= 1 PROVE a * b >= 2 /\ a * b \in Nat
    BY <2>1
  <2> QED BY <1>o, <1>p, <2>1
<1>q. PICK q \in Nat : q = Power[4] /\ q >= 2
  BY <1>1, <1>2
<1>3. q \div 2 \in Nat /\ q \div 2 > 0
  BY <1>q
<1> QED BY <1>3, <1>q DEF HighBit

\* A priority is written in octets.
LEMMA PriorityType ==
  ASSUME NEW prio \in [dep : Nat, exclusive : BOOLEAN, weight : Octets]
  PROVE  PriorityOctets(prio) \in Seq(Octets)
<1>d. PICK d \in Nat : d = prio.dep
  OBVIOUS
<1>v. PICK v \in Nat : v = IF prio.exclusive THEN Masked(prio.dep) + HighBit ELSE prio.dep
  <2>h. PICK h \in Nat : h = HighBit /\ h > 0
    BY HighBitPositive
  <2>1. d % h \in Nat
    BY <2>h
  <2> QED BY <1>d, <2>1, <2>h DEF Masked
<1>x. PICK x \in Seq(Octets) : x = BigEndian(v, 4)
  BY FourOctets
<1>y. PICK y \in Seq(Octets) : y = <<prio.weight>>
  <2>1. prio.weight \in Octets
    OBVIOUS
  <2> QED BY <2>1, OneOctet
<1>1. x \o y \in Seq(Octets)
  BY Joined
<1> QED BY <1>1, <1>v, <1>x, <1>y, Zenon DEF PriorityOctets

\* A frame on the wire.
SoundFrame(f) ==
  /\ f.type # "META"
  /\ f.type \in {"HEADERS", "CONTINUATION"} => f.payload \in Seq(Octets)

\* startWrite and endWrite, when nothing is wrong.
LEMMA WrittenAs ==
  ASSUME NEW checks, NEW type, NEW flags, NEW stream, NEW payload,
         NEW r, r = WriteFrame(checks, type, flags, stream, payload), r.err = NoError
  PROVE  r.frame.type = type /\ r.frame.payload = payload
<1>e. PICK e : e = FirstError(Append(checks,
                     <<Len(payload) > maxFrameSize, OtherError("ErrFrameTooLarge")>>))
  OBVIOUS
<1>1. r = [err |-> e,
           frame |-> IF e # NoError THEN NoFrame
                     ELSE [type |-> type, flags |-> flags, stream |-> stream,
                           payload |-> payload]]
  BY <1>e DEF WriteFrame
<1>2. e = NoError
  BY <1>1
<1> QED BY <1>1, <1>2

\* What WriteHeaders writes.
LEMMA HeadersOctets ==
  ASSUME NEW c, SoundCall(c), c.type = "HEADERS", NEW illegal,
         NEW r, r = WriteOf(c, illegal), r.err = NoError
  PROVE  SoundFrame(r.frame)
<1>n. PICK n \in Octets : n = IF c.pad = NoPad THEN 0 ELSE Len(c.pad)
  BY ZeroOctet DEF SoundCall
<1>p. PICK prio \in [dep : Nat, exclusive : BOOLEAN, weight : Octets] : prio = c.val.priority
  BY DEF SoundCall
<1>f. PICK frag \in Seq(Octets) : frag = c.val.frag
  BY DEF SoundCall
<1>x. PICK x \in Seq(Octets) : x = IF n # 0 THEN <<n>> ELSE <<>>
  <2>1. <<n>> \in Seq(Octets) /\ <<>> \in Seq(Octets)
    BY OneOctet
  <2> QED BY <2>1
<1>y. PICK y \in Seq(Octets) : y = IF prio # NoPriority THEN PriorityOctets(prio) ELSE <<>>
  <2>1. PriorityOctets(prio) \in Seq(Octets)
    BY PriorityType
  <2>2. <<>> \in Seq(Octets)
    OBVIOUS
  <2> QED BY <2>1, <2>2
<1>z. PICK z \in Seq(Octets) : z = Zeros(n)
  <2>1. n \in Nat
    BY DEF Octets
  <2>2. [i \in 1 .. n |-> 0] \in Seq(Octets)
    BY <2>1, ZeroOctet
  <2> QED BY <2>2 DEF Zeros
<1>a. PICK a \in Seq(Octets) : a = x \o y
  <2>1. x \o y \in Seq(Octets)
    BY Joined
  <2> QED BY <2>1
<1>b. PICK b \in Seq(Octets) : b = a \o frag
  <2>1. a \o frag \in Seq(Octets)
    BY Joined
  <2> QED BY <2>1
<1>c. PICK d \in Seq(Octets) : d = b \o z
  <2>1. b \o z \in Seq(Octets)
    BY Joined
  <2> QED BY <2>1
<1>1. r = WriteHeaders(c, illegal)
  BY DEF WriteOf
<1>2. \E checks, flags : r = WriteFrame(checks, "HEADERS", flags, c.stream, d)
  BY <1>1, <1>a, <1>b, <1>c, <1>f, <1>n, <1>p, <1>x, <1>y, <1>z, Zenon DEF WriteHeaders
<1>3. r.frame.type = "HEADERS" /\ r.frame.payload = d
  BY <1>2, WrittenAs
<1> QED BY <1>3 DEF SoundFrame

\* What a Write method writes.
LEMMA WriteSound ==
  ASSUME NEW c, SoundCall(c), NEW illegal, NEW r, r = WriteOf(c, illegal), r.err = NoError
  PROVE  SoundFrame(r.frame)
<1>0. c.type \in FrameTypes
  BY DEF SoundCall
<1>1. CASE c.type = "HEADERS"
  BY <1>1, HeadersOctets
<1>2. CASE c.type = "CONTINUATION"
  <2>1. r = WriteContinuation(c, illegal)
    BY <1>2 DEF WriteOf
  <2>2. \E checks : r = WriteFrame(checks, "CONTINUATION", c.flags, c.stream, c.val.frag)
    BY <2>1, Zenon DEF WriteContinuation
  <2>3. r.frame.type = "CONTINUATION" /\ r.frame.payload = c.val.frag
    BY <2>2, WrittenAs
  <2> QED BY <1>2, <2>3 DEF SoundCall, SoundFrame
<1>3. ASSUME NEW checks, NEW type, NEW flags, NEW stream, NEW payload,
             r = WriteFrame(checks, type, flags, stream, payload),
             type \in FrameTypes \ {"HEADERS", "CONTINUATION"}
      PROVE  SoundFrame(r.frame)
  <2>1. r.frame.type = type
    BY <1>3, WrittenAs
  <2> QED BY <1>3, <2>1 DEF SoundFrame, FrameTypes
<1>4. \A t \in {"DATA", "PRIORITY", "RST_STREAM", "SETTINGS", "PUSH_PROMISE", "PING", "GOAWAY",
                "WINDOW_UPDATE"} : t \in FrameTypes \ {"HEADERS", "CONTINUATION"}
  BY DEF FrameTypes
<1>5. ASSUME c.type = "DATA" PROVE SoundFrame(r.frame)
  <2>1. r = WriteDataPadded(c, illegal)
    BY <1>5 DEF WriteOf
  <2>2. \E checks, flags, stream, payload : r = WriteFrame(checks, "DATA", flags, stream, payload)
    BY <2>1, Zenon DEF WriteDataPadded
  <2> QED BY <1>3, <1>4, <2>2
<1>6. ASSUME c.type = "PRIORITY" PROVE SoundFrame(r.frame)
  <2>1. r = WritePriority(c, illegal)
    BY <1>6 DEF WriteOf
  <2>2. \E checks, flags, stream, payload :
          r = WriteFrame(checks, "PRIORITY", flags, stream, payload)
    BY <2>1, Zenon DEF WritePriority
  <2> QED BY <1>3, <1>4, <2>2
<1>7. ASSUME c.type = "RST_STREAM" PROVE SoundFrame(r.frame)
  <2>1. r = WriteRSTStream(c, illegal)
    BY <1>7 DEF WriteOf
  <2>2. \E checks, flags, stream, payload :
          r = WriteFrame(checks, "RST_STREAM", flags, stream, payload)
    BY <2>1, Zenon DEF WriteRSTStream
  <2> QED BY <1>3, <1>4, <2>2
<1>8. ASSUME c.type = "SETTINGS" PROVE SoundFrame(r.frame)
  <2>1. r = WriteSettings(c)
    BY <1>8 DEF WriteOf
  <2>2. \E checks, flags, stream, payload :
          r = WriteFrame(checks, "SETTINGS", flags, stream, payload)
    BY <2>1, Zenon DEF WriteSettings
  <2> QED BY <1>3, <1>4, <2>2
<1>9. ASSUME c.type = "PUSH_PROMISE" PROVE SoundFrame(r.frame)
  <2>1. r = WritePushPromise(c, illegal)
    BY <1>9 DEF WriteOf
  <2>2. \E checks, flags, stream, payload :
          r = WriteFrame(checks, "PUSH_PROMISE", flags, stream, payload)
    BY <2>1, Zenon DEF WritePushPromise
  <2> QED BY <1>3, <1>4, <2>2
<1>10. ASSUME c.type = "PING" PROVE SoundFrame(r.frame)
  <2>1. r = WritePing(c)
    BY <1>10 DEF WriteOf
  <2>2. \E checks, flags, stream, payload : r = WriteFrame(checks, "PING", flags, stream, payload)
    BY <2>1, Zenon DEF WritePing
  <2> QED BY <1>3, <1>4, <2>2
<1>11. ASSUME c.type = "GOAWAY" PROVE SoundFrame(r.frame)
  <2>1. r = WriteGoAway(c)
    BY <1>11 DEF WriteOf
  <2>2. \E checks, flags, stream, payload : r = WriteFrame(checks, "GOAWAY", flags, stream, payload)
    BY <2>1, Zenon DEF WriteGoAway
  <2> QED BY <1>3, <1>4, <2>2
<1>12. ASSUME c.type = "WINDOW_UPDATE" PROVE SoundFrame(r.frame)
  <2>1. r = WriteWindowUpdate(c, illegal)
    BY <1>12 DEF WriteOf
  <2>2. \E checks, flags, stream, payload :
          r = WriteFrame(checks, "WINDOW_UPDATE", flags, stream, payload)
    BY <2>1, Zenon DEF WriteWindowUpdate
  <2> QED BY <1>3, <1>4, <2>2
<1> QED
  BY <1>0, <1>1, <1>2, <1>5, <1>6, <1>7, <1>8, <1>9, <1>10, <1>11, <1>12 DEF FrameTypes

\* What WriteRawFrame writes.
LEMMA RawSound ==
  ASSUME NEW w \in RawFrames, NEW r, r = WriteRawFrame(w), r.err = NoError
  PROVE  SoundFrame(r.frame)
<1>1. \E checks, flags, stream : r = WriteFrame(checks, w.type, flags, stream, w.payload)
  BY Zenon DEF WriteRawFrame
<1>2. r.frame.type = w.type /\ r.frame.payload = w.payload
  BY <1>1, WrittenAs
<1> QED BY <1>2, RawAssumption DEF SoundFrame

\* The encoders of a connection, and what a request may write with one.
Encoders == [maxSize : Nat, tableSizeUpdate : BOOLEAN]
Requested(w, enc) == {CallsOf(w, enc)[i] : i \in DOMAIN CallsOf(w, enc)}
AllRequested == UNION {Requested(w, enc) : w \in Writers, enc \in Encoders}

\* A call of a request.
LEMMA RequestedCall ==
  ASSUME NEW w \in Writers, NEW enc \in Encoders, NEW i \in DOMAIN CallsOf(w, enc),
         NEW c, c = CallsOf(w, enc)[i]
  PROVE  c \in AllRequested
<1>s. PICK S : S = Requested(w, enc)
  OBVIOUS
<1>1. c \in S
  BY <1>s DEF Requested
<1>2. S \in {Requested(x, e) : x \in Writers, e \in Encoders}
  BY <1>s
<1> QED BY <1>1, <1>2 DEF AllRequested

\* All that may be on the wire.
Sent ==
  {f \in {WriteOf(c, b).frame : c \in Calls, b \in BOOLEAN}
           \cup {WriteRawFrame(w).frame : w \in RawFrames}
           \cup {WriteOf(c, b).frame : c \in AllRequested, b \in BOOLEAN} :
     SoundFrame(f)}

\* The encoder's flag is set or not.
Encoding == opts \in Options /\ tableSizeUpdate \in BOOLEAN

\* So the encoder is one of these.
LEMMA EncoderType == Encoding => HeaderEncoder \in Encoders
BY OptionsAssumption DEF Encoding, HeaderEncoder, Encoders

\* At the start.
LEMMA EncodingInit == Init => Encoding
BY DEF Init, Encoding

\* And after every step.
LEMMA EncodingStep == Encoding /\ [Next]_vars => Encoding'
<1> SUFFICES ASSUME Encoding, [Next]_vars PROVE Encoding'
  OBVIOUS
<1>1. CASE UNCHANGED vars
  BY <1>1 DEF Encoding, vars
<1>2. ASSUME NEW c \in Calls, WriteCall(c) PROVE Encoding'
  BY <1>2 DEF Encoding, WriteCall
<1>3. ASSUME NEW w \in RawFrames, WriteRaw(w) PROVE Encoding'
  BY <1>3 DEF Encoding, WriteRaw
<1>4. ASSUME NEW w \in Writers, writeFrame(w) PROVE Encoding'
  <2>1. opts' = opts /\ tableSizeUpdate' = (tableSizeUpdate /\ HeaderFields(w) = <<>>)
    BY <1>4 DEF writeFrame
  <2> QED BY <2>1 DEF Encoding
<1>5. CASE HangUp
  BY <1>5 DEF Encoding, HangUp
<1>6. CASE Consume
  BY <1>6 DEF Encoding, Consume, writer
<1>7. CASE ReadEnd
  BY <1>7 DEF Encoding, ReadEnd, writer
<1>8. ReadRefused \/ ReadFrame \/ ReadMetaHeaders \/ ReadContinuation => Consume
  BY DEF ReadRefused, ReadFrame, ReadMetaHeaders, ReadContinuation
<1> QED BY <1>1, <1>2, <1>3, <1>4, <1>5, <1>6, <1>7, <1>8 DEF Next

-----------------------------------------------------------------------------
(***************************************************************************)
(* What is parsed.                                                         *)
(***************************************************************************)
\* The errors of this package.
Failure(e) == e.kind # "none"
LEMMA Failures ==
  /\ \A x : Failure(ConnectionError(x))
  /\ \A x, y : Failure(StreamError(x, y))
  /\ \A x : Failure(OtherError(x))
BY DEF Failure, ConnectionError, StreamError, OtherError

\* Checks that return one.
GoodChecks(checks) ==
  \E n \in Nat : DOMAIN checks = 1 .. n /\ \A i \in 1 .. n : Failure(checks[i][2])

\* Four of them, three, two, one or none.
LEMMA GoodFour ==
  ASSUME NEW a, NEW b, NEW c, NEW d, NEW e, NEW f, NEW g, NEW h,
         Failure(e), Failure(f), Failure(g), Failure(h)
  PROVE  GoodChecks(<< <<a, e>>, <<b, f>>, <<c, g>>, <<d, h>> >>)
<1>s. PICK s : s = << <<a, e>>, <<b, f>>, <<c, g>>, <<d, h>> >>
  OBVIOUS
<1>1. DOMAIN s = 1 .. 4 /\ s[1][2] = e /\ s[2][2] = f /\ s[3][2] = g /\ s[4][2] = h
  BY <1>s
<1>2. \A i \in 1 .. 4 : i = 1 \/ i = 2 \/ i = 3 \/ i = 4
  OBVIOUS
<1>3. GoodChecks(s)
  BY <1>1, <1>2 DEF GoodChecks
<1> QED BY <1>3, <1>s

\* Three checks.
LEMMA GoodThree ==
  ASSUME NEW a, NEW b, NEW c, NEW e, NEW f, NEW g, Failure(e), Failure(f), Failure(g)
  PROVE  GoodChecks(<< <<a, e>>, <<b, f>>, <<c, g>> >>)
<1>s. PICK s : s = << <<a, e>>, <<b, f>>, <<c, g>> >>
  OBVIOUS
<1>1. DOMAIN s = 1 .. 3 /\ s[1][2] = e /\ s[2][2] = f /\ s[3][2] = g
  BY <1>s
<1>2. \A i \in 1 .. 3 : i = 1 \/ i = 2 \/ i = 3
  OBVIOUS
<1>3. GoodChecks(s)
  BY <1>1, <1>2 DEF GoodChecks
<1> QED BY <1>3, <1>s

\* Two checks.
LEMMA GoodTwo ==
  ASSUME NEW a, NEW b, NEW e, NEW f, Failure(e), Failure(f)
  PROVE  GoodChecks(<< <<a, e>>, <<b, f>> >>)
<1>s. PICK s : s = << <<a, e>>, <<b, f>> >>
  OBVIOUS
<1>1. DOMAIN s = 1 .. 2 /\ s[1][2] = e /\ s[2][2] = f
  BY <1>s
<1>2. \A i \in 1 .. 2 : i = 1 \/ i = 2
  OBVIOUS
<1>3. GoodChecks(s)
  BY <1>1, <1>2 DEF GoodChecks
<1> QED BY <1>3, <1>s

\* One check.
LEMMA GoodOne ==
  ASSUME NEW a, NEW e, Failure(e)
  PROVE  GoodChecks(<< <<a, e>> >>)
<1>s. PICK s : s = << <<a, e>> >>
  OBVIOUS
<1>1. DOMAIN s = 1 .. 1 /\ s[1][2] = e
  BY <1>s
<1>2. \A i \in 1 .. 1 : i = 1
  OBVIOUS
<1>3. GoodChecks(s)
  BY <1>1, <1>2 DEF GoodChecks
<1> QED BY <1>3, <1>s

\* No check.
LEMMA GoodNone == GoodChecks(<<>>)
<1>1. DOMAIN <<>> = 1 .. 0 /\ \A i \in 1 .. 0 : FALSE
  OBVIOUS
<1> QED BY <1>1 DEF GoodChecks

\* The first check that holds is among them.
LEMMA FirstErrorIs ==
  ASSUME NEW checks, GoodChecks(checks)
  PROVE  /\ FirstError(checks) = NoError \/ Failure(FirstError(checks))
         /\ 1 \in DOMAIN checks /\ checks[1][1] => Failure(FirstError(checks))
<1>n. PICK n \in Nat : DOMAIN checks = 1 .. n /\ \A i \in 1 .. n : Failure(checks[i][2])
  BY DEF GoodChecks
<1>f. PICK failing : failing = {i \in DOMAIN checks : checks[i][1]}
  OBVIOUS
<1>1. CASE failing = {}
  <2>1. FirstError(checks) = NoError
    BY <1>1, <1>f DEF FirstError
  <2>2. ~ (1 \in DOMAIN checks /\ checks[1][1])
    BY <1>1, <1>f
  <2> QED BY <2>1, <2>2
<1>2. CASE failing # {}
  <2>1. failing \subseteq Nat /\ failing \subseteq 1 .. n
    BY <1>f, <1>n
  <2>2. PICK x \in failing : \A y \in failing : x <= y
    BY <1>2, <2>1, LeastNatural
  <2>3. Min(failing) = x
    BY <2>1, <2>2, MinIs
  <2>4. FirstError(checks) = checks[x][2]
    BY <1>2, <1>f, <2>3 DEF FirstError
  <2>5. Failure(checks[x][2])
    BY <1>n, <2>1
  <2> QED BY <2>4, <2>5
<1> QED BY <1>1, <1>2

\* What a parser returns.
ParsedAs(r, w) == \E checks, val : r = Parse(checks, w, val) /\ GoodChecks(checks)

\* Every parser.
LEMMA EveryParser == ASSUME NEW w PROVE ParsedAs(ParseFrame(w), w)
<1>e. /\ \A x : Failure(ConnectionError(x))
      /\ \A x, y : Failure(StreamError(x, y))
      /\ \A x : Failure(OtherError(x))
      /\ Failure(UnexpectedEOF)
  BY Failures DEF UnexpectedEOF
<1>1. ParsedAs(parseDataFrame(w), w)
  BY <1>e, GoodThree, Zenon DEF parseDataFrame, ParsedAs
<1>2. ParsedAs(parseHeadersFrame(w), w)
  BY <1>e, GoodFour, Zenon DEF parseHeadersFrame, ParsedAs
<1>3. ParsedAs(parsePriorityFrame(w), w)
  BY <1>e, GoodTwo, Zenon DEF parsePriorityFrame, ParsedAs
<1>4. ParsedAs(parseRSTStreamFrame(w), w)
  BY <1>e, GoodTwo, Zenon DEF parseRSTStreamFrame, ParsedAs
<1>5. ParsedAs(parseSettingsFrame(w), w)
  BY <1>e, GoodFour, Zenon DEF parseSettingsFrame, ParsedAs
<1>6. ParsedAs(parsePushPromise(w), w)
  BY <1>e, GoodThree, Zenon DEF parsePushPromise, ParsedAs
<1>7. ParsedAs(parsePingFrame(w), w)
  BY <1>e, GoodTwo, Zenon DEF parsePingFrame, ParsedAs
<1>8. ParsedAs(parseGoAwayFrame(w), w)
  BY <1>e, GoodTwo, Zenon DEF parseGoAwayFrame, ParsedAs
<1>9. ParsedAs(parseWindowUpdateFrame(w), w)
  BY <1>e, GoodThree, Zenon DEF parseWindowUpdateFrame, ParsedAs
<1>10. ParsedAs(parseContinuationFrame(w), w)
  BY <1>e, GoodOne, Zenon DEF parseContinuationFrame, ParsedAs
<1>11. ParsedAs(parseUnknownFrame(w), w)
  BY GoodNone, Zenon DEF parseUnknownFrame, ParsedAs
<1> QED
  BY <1>1, <1>2, <1>3, <1>4, <1>5, <1>6, <1>7, <1>8, <1>9, <1>10, <1>11 DEF ParseFrame

\* The result of Parse.
LEMMA ParseIs ==
  ASSUME NEW checks, NEW w, NEW val, NEW r, r = Parse(checks, w, val)
  PROVE  r.err = FirstError(checks)
BY DEF Parse

\* And the frame, when nothing is wrong.
LEMMA ParsedValue ==
  ASSUME NEW checks, NEW w, NEW val, NEW r, r = Parse(checks, w, val), r.err = NoError
  PROVE  r.frame = [type |-> w.type, flags |-> w.flags, stream |-> Masked(w.stream), val |-> val]
<1>e. PICK e : e = FirstError(checks)
  OBVIOUS
<1>1. r = [err |-> e,
           frame |-> IF e # NoError THEN NoFrame
                     ELSE [type |-> w.type, flags |-> w.flags,
                           stream |-> Masked(w.stream), val |-> val]]
  BY <1>e DEF Parse
<1> QED BY <1>1

\* An error of a parser is one of the package's, and a frame is of its type.
LEMMA ParsedFrame ==
  ASSUME NEW w, NEW r, r = ParseFrame(w)
  PROVE  /\ r.err = NoError \/ Failure(r.err)
         /\ r.err = NoError => r.frame.type = w.type
<1>1. PICK checks, val : r = Parse(checks, w, val) /\ GoodChecks(checks)
  BY EveryParser DEF ParsedAs
<1>2. FirstError(checks) = NoError \/ Failure(FirstError(checks))
  BY <1>1, FirstErrorIs
<1>3. r.err = FirstError(checks)
  BY <1>1, ParseIs
<1>4. ASSUME r.err = NoError PROVE r.frame.type = w.type
  <2>1. r.frame = [type |-> w.type, flags |-> w.flags, stream |-> Masked(w.stream), val |-> val]
    BY <1>1, <1>4, ParsedValue
  <2> QED BY <2>1
<1> QED BY <1>2, <1>3, <1>4

\* p[:n], for any integer n.
LEMMA UpToInt ==
  ASSUME NEW S, NEW p \in Seq(S), NEW n \in Int
  PROVE  UpTo(p, n) \in Seq(S)
<1>1. CASE n >= 0
  BY <1>1, UpToType
<1>2. CASE n < 0
  <2>l. PICK l \in Nat : l = Len(p)
    OBVIOUS
  <2>1. Min({n, l}) = n
    <3>1. \E x \in {n, l} : \A y \in {n, l} : x <= y
      BY <1>2
    <3>2. Min({n, l}) \in {n, l} /\ \A y \in {n, l} : Min({n, l}) <= y
      BY <3>1 DEF Min
    <3> QED BY <1>2, <3>2
  <2>2. UpTo(p, n) = [i \in 1 .. n |-> p[i]]
    BY <2>1, <2>l DEF UpTo
  <2>3. 1 .. n = 1 .. 0
    BY <1>2
  <2>4. [i \in 1 .. 0 |-> p[i]] \in Seq(S)
    OBVIOUS
  <2> QED BY <2>2, <2>3, <2>4
<1> QED BY <1>1, <1>2

\* A HEADERS frame is of a stream and has a fragment.
LEMMA HeadersParsed ==
  ASSUME NEW w, SoundFrame(w), w.type = "HEADERS", NEW r, r = ParseFrame(w), r.err = NoError
  PROVE  r.frame.stream # 0 /\ r.frame.val.frag \in Seq(Octets)
<1>0. w.payload \in Seq(Octets)
  BY DEF SoundFrame
<1>q. PICK q \in Seq(Octets) : q = w.payload
  BY <1>0
<1>p. PICK p \in Seq(Octets) : p = AfterPadLength(w)
  <2>1. q # <<>> => Tail(q) \in Seq(Octets)
    OBVIOUS
  <2> QED BY <1>q, <2>1 DEF AfterPadLength
<1>t. PICK rest \in Seq(Octets) : rest = IF PRIORITY \in w.flags THEN From(p, 5) ELSE p
  <2>1. From(p, 5) \in Seq(Octets)
    BY RestType
  <2> QED BY <2>1
<1>n. PICK n \in Int : n = Len(rest) - PadLength(w)
  <2>1. PadLength(w) \in Int
    <3>1. ASSUME q # <<>> PROVE q[1] \in Int
      <4>1. 1 \in 1 .. Len(q)
        BY <3>1
      <4>2. q[1] \in Octets
        BY <4>1
      <4> QED BY <4>2 DEF Octets
    <3> QED BY <1>q, <3>1 DEF PadLength
  <2> QED BY <2>1
<1>f. PICK frag \in Seq(Octets) : frag = UpTo(rest, n)
  BY UpToInt
<1>1. r = parseHeadersFrame(w)
  BY DEF ParseFrame
<1>a. PICK a, b, c, x : /\ a = PadShort(w) /\ b = (PRIORITY \in w.flags /\ Len(p) < 5)
                        /\ c = (PadLength(w) > Len(rest))
                        /\ x = IF PRIORITY \in w.flags THEN Priority(p) ELSE NoPriority
  OBVIOUS
<1>e. PICK e, f : e = UnexpectedEOF /\ f = StreamError(Masked(w.stream), "PROTOCOL_ERROR")
  OBVIOUS
<1>c. PICK checks : checks = << <<OnConnection(w), ConnectionError("PROTOCOL_ERROR")>>,
                                <<a, e>>, <<b, e>>, <<c, f>> >>
  OBVIOUS
<1>2. r = Parse(checks, w, [priority |-> x, frag |-> frag])
  BY <1>1, <1>a, <1>c, <1>e, <1>f, <1>n, <1>p, <1>t, Zenon DEF parseHeadersFrame
<1>g. GoodChecks(checks)
  <2>1. Failure(e) /\ Failure(f) /\ Failure(ConnectionError("PROTOCOL_ERROR"))
    BY <1>e, Failures DEF UnexpectedEOF
  <2> QED BY <1>c, <2>1, GoodFour, Zenon
<1>d. 1 \in DOMAIN checks /\ checks[1][1] = OnConnection(w)
  BY <1>c
<1>3. r.err = FirstError(checks)
  BY <1>2, ParseIs
<1>4. r.frame = [type |-> w.type, flags |-> w.flags, stream |-> Masked(w.stream),
                 val |-> [priority |-> x, frag |-> frag]]
  BY <1>2, ParsedValue
<1>5. OnConnection(w) => Failure(FirstError(checks))
  BY <1>d, <1>g, FirstErrorIs
<1>6. ~ OnConnection(w)
  BY <1>3, <1>5 DEF Failure, NoError
<1> QED BY <1>4, <1>6 DEF OnConnection

\* And a CONTINUATION.
LEMMA ContinuationParsed ==
  ASSUME NEW w, SoundFrame(w), w.type = "CONTINUATION", NEW r, r = ParseFrame(w), r.err = NoError
  PROVE  r.frame.stream # 0 /\ r.frame.val.frag \in Seq(Octets)
<1>0. w.payload \in Seq(Octets)
  BY DEF SoundFrame
<1>1. r = parseContinuationFrame(w)
  BY DEF ParseFrame
<1>s. PICK s : s = << <<OnConnection(w), ConnectionError("PROTOCOL_ERROR")>> >>
  OBVIOUS
<1>2. r = Parse(s, w, [frag |-> w.payload])
  BY <1>1, <1>s DEF parseContinuationFrame
<1>3. GoodChecks(s)
  BY <1>s, GoodOne, Failures, Zenon
<1>4. 1 \in DOMAIN s /\ s[1][1] = OnConnection(w)
  BY <1>s
<1>5. r.err = FirstError(s)
  BY <1>2, ParseIs
<1>6. r.frame = [type |-> w.type, flags |-> w.flags, stream |-> Masked(w.stream),
                 val |-> [frag |-> w.payload]]
  BY <1>2, ParsedValue
<1>7. OnConnection(w) => Failure(FirstError(s))
  BY <1>3, <1>4, FirstErrorIs
<1>8. ~ OnConnection(w)
  BY <1>5, <1>7 DEF Failure, NoError
<1> QED BY <1>0, <1>6, <1>8 DEF OnConnection

\* The part of ReadFrame before readMetaFrame.
LEMMA ReceivedIs ==
  ASSUME NEW w, SoundFrame(w), NEW r, r = Received(w)
  PROVE  /\ r.err = NoError \/ Failure(r.err)
         /\ r.err = NoError =>
              /\ r.frame.type = w.type /\ checkFrameOrder(r.frame) = NoError
              /\ r.frame.type \in {"HEADERS", "CONTINUATION"} =>
                   r.frame.stream # 0 /\ r.frame.val.frag \in Seq(Octets)
<1>p. PICK p : p = ParseFrame(w)
  OBVIOUS
<1>o. PICK o : o = checkFrameOrder(p.frame)
  OBVIOUS
<1>1. r = IF Len(w.payload) > maxReadSize
            THEN [frame |-> NoFrame, err |-> OtherError("ErrFrameTooLarge")]
          ELSE IF p.err # NoError THEN p
          ELSE IF o # NoError THEN [frame |-> NoFrame, err |-> o]
          ELSE p
  BY <1>o, <1>p DEF Received
<1>2. o = NoError \/ Failure(o)
  BY <1>o, Failures DEF checkFrameOrder
<1>3. p.err = NoError \/ Failure(p.err)
  BY <1>p, ParsedFrame
<1>4. Failure(OtherError("ErrFrameTooLarge")) /\ ~ Failure(NoError)
  BY Failures DEF Failure, NoError
<1>5. r.err = NoError \/ Failure(r.err)
  BY <1>1, <1>2, <1>3, <1>4
<1>6. ASSUME r.err = NoError PROVE r = p /\ o = NoError /\ p.err = NoError
  BY <1>1, <1>2, <1>3, <1>4, <1>6
<1>7. ASSUME r.err = NoError
      PROVE  /\ r.frame.type = w.type /\ checkFrameOrder(r.frame) = NoError
             /\ r.frame.type \in {"HEADERS", "CONTINUATION"} =>
                  r.frame.stream # 0 /\ r.frame.val.frag \in Seq(Octets)
  <2>1. r.frame.type = w.type
    BY <1>6, <1>7, <1>p, ParsedFrame
  <2>2. checkFrameOrder(r.frame) = NoError
    BY <1>6, <1>7, <1>o
  <2>3. CASE w.type = "HEADERS"
    BY <1>6, <1>7, <1>p, <2>1, <2>2, <2>3, HeadersParsed
  <2>4. CASE w.type = "CONTINUATION"
    BY <1>6, <1>7, <1>p, <2>1, <2>2, <2>4, ContinuationParsed
  <2> QED BY <2>1, <2>2, <2>3, <2>4
<1> QED BY <1>5, <1>7

-----------------------------------------------------------------------------
(***************************************************************************)
(* The reader.                                                             *)
(***************************************************************************)
\* readMetaFrame waits for a CONTINUATION of the stream whose block it decodes.
Waiting ==
  /\ ~opts.illegalReads
  /\ lastHeaderStream # 0 /\ meta.stream = lastHeaderStream
  /\ \E o \in Seq(Octets) :
       /\ block = [stream |-> lastHeaderStream, octets |-> o, ended |-> FALSE]
       /\ Decoded(meta, saveBuf, o, maxHeaderListSize)

\* The decoder has no octets left over between two blocks.
NothingLeft == meta = NoMeta /\ ~terminalReadFrameError(outcome.err) => saveBuf = <<>>

\* BlocksIntact, made inductive.
Reading ==
  /\ opts \in Options
  /\ wire \in Seq(Sent)
  /\ ~interrupted => NothingLeft /\ (meta # NoMeta => Waiting) /\ HeaderBlocksWhole

\* The limit on a header list is a number.
LEMMA LimitType == opts \in Options => maxHeaderListSize \in Nat
BY OptionsAssumption, SizeAssumption DEF maxHeaderListSize

\* AllowIllegalWrites is set or not.
LEMMA IllegalType == opts \in Options => opts.illegalWrites \in BOOLEAN
BY OptionsAssumption

\* At the start.
LEMMA ReadingInit == Init => Reading
<1> SUFFICES ASSUME Init PROVE Reading
  OBVIOUS
<1>1. opts \in Options /\ wire \in Seq(Sent)
  BY DEF Init
<1>2. NothingLeft /\ meta = NoMeta
  BY DEF Init, NothingLeft
<1>3. HeaderBlocksWhole
  BY DEF Init, HeaderBlocksWhole, Nothing, NoFrame
<1> QED BY <1>1, <1>2, <1>3 DEF Reading

\* Steps of the writer.
LEMMA ReaderUnchanged ==
  ASSUME Reading, UNCHANGED <<opts, reader>>, wire' \in Seq(Sent)
  PROVE  Reading'
<1>1. /\ opts' = opts /\ lastHeaderStream' = lastHeaderStream /\ meta' = meta
      /\ saveBuf' = saveBuf /\ outcome' = outcome /\ block' = block /\ interrupted' = interrupted
  BY DEF reader
<1>2. maxHeaderListSize' = maxHeaderListSize
  BY <1>1 DEF maxHeaderListSize
<1>3. NothingLeft => NothingLeft'
  BY <1>1 DEF NothingLeft
<1>4. Waiting => Waiting'
  BY <1>1, <1>2 DEF Waiting
<1>5. HeaderBlocksWhole => HeaderBlocksWhole'
  BY <1>1, <1>2, Zenon DEF HeaderBlocksWhole
<1> QED BY <1>1, <1>3, <1>4, <1>5 DEF Reading

\* A frame is put on the wire.
LEMMA SentFrame ==
  ASSUME NEW s \in Seq(Sent), NEW f \in Sent
  PROVE  Append(s, f) \in Seq(Sent)
OBVIOUS

\* A call of a Write method.
LEMMA WriteCallReading ==
  ASSUME Reading, NEW c \in Calls, WriteCall(c)
  PROVE  Reading'
<1>r. PICK r : r = WriteOf(c, opts.illegalWrites)
  OBVIOUS
<1>1. /\ wire' = IF r.err = NoError THEN Append(wire, r.frame) ELSE wire
      /\ UNCHANGED <<opts, reader>>
  BY <1>r DEF WriteCall
<1>2. ASSUME r.err = NoError PROVE r.frame \in Sent
  <2>1. SoundCall(c)
    BY CallsAssumption, CallSound
  <2>2. SoundFrame(r.frame)
    BY <1>2, <1>r, <2>1, WriteSound
  <2>3. opts.illegalWrites \in BOOLEAN
    BY IllegalType DEF Reading
  <2> QED BY <1>r, <2>2, <2>3 DEF Sent
<1>3. wire \in Seq(Sent)
  BY DEF Reading
<1>4. wire' \in Seq(Sent)
  BY <1>1, <1>2, <1>3, SentFrame
<1> QED BY <1>1, <1>4, ReaderUnchanged

\* A call of WriteRawFrame.
LEMMA WriteRawReading ==
  ASSUME Reading, NEW w \in RawFrames, WriteRaw(w)
  PROVE  Reading'
<1>r. PICK r : r = WriteRawFrame(w)
  OBVIOUS
<1>1. /\ wire' = IF r.err = NoError THEN Append(wire, r.frame) ELSE wire
      /\ UNCHANGED <<opts, reader>>
  BY <1>r DEF WriteRaw
<1>2. ASSUME r.err = NoError PROVE r.frame \in Sent
  <2>2. SoundFrame(r.frame)
    BY <1>2, <1>r, RawSound
  <2> QED BY <1>r, <2>2 DEF Sent
<1>3. wire \in Seq(Sent)
  BY DEF Reading
<1>4. wire' \in Seq(Sent)
  BY <1>1, <1>2, <1>3, SentFrame
<1> QED BY <1>1, <1>4, ReaderUnchanged

\* A request of the server connection.
LEMMA WriteFrameReading ==
  ASSUME Encoding, Reading, NEW w \in Writers, writeFrame(w)
  PROVE  Reading'
<1>e. PICK enc \in Encoders : enc = HeaderEncoder
  BY EncoderType
<1>c. PICK calls : calls = CallsOf(w, enc)
  OBVIOUS
<1>b. PICK b \in BOOLEAN : b = opts.illegalWrites
  BY IllegalType DEF Reading
<1>n. PICK n \in Int : DOMAIN calls = 1 .. n /\ \A i \in 1 .. n : IsCall(calls[i])
  BY <1>c, RequestSound DEF AreCalls
<1>r. PICK results : results = [i \in 1 .. n |-> WriteOf(calls[i], b)]
  OBVIOUS
<1>f. PICK frames : frames = [i \in 1 .. n |-> results[i].frame]
  OBVIOUS
<1>x. PICK fails \in BOOLEAN : fails = (\E i \in 1 .. n : results[i].err # NoError)
  OBVIOUS
<1>1. wire' = (IF fails THEN wire ELSE wire \o frames) /\ UNCHANGED <<opts, reader>>
  <2>1. [i \in DOMAIN CallsOf(w, HeaderEncoder) |->
           WriteOf(CallsOf(w, HeaderEncoder)[i], opts.illegalWrites)] = results
    BY <1>b, <1>c, <1>e, <1>n, <1>r
  <2>2. DOMAIN results = 1 .. n
    BY <1>r
  <2> QED BY <1>f, <1>x, <2>1, <2>2 DEF writeFrame
<1>2. ASSUME ~ fails PROVE frames \in Seq(Sent)
  <2>1. ASSUME NEW i \in 1 .. n PROVE frames[i] \in Sent
    <3>c. PICK c : c = calls[i]
      OBVIOUS
    <3>d. PICK r : r = WriteOf(c, b)
      OBVIOUS
    <3>1. r.err = NoError /\ results[i] = r /\ frames[i] = r.frame
      BY <1>2, <1>f, <1>r, <1>x, <3>c, <3>d
    <3>2. SoundCall(c)
      BY <1>n, <3>c, CallSound
    <3>3. SoundFrame(r.frame)
      BY <3>1, <3>2, <3>d, WriteSound
    <3>4. c \in AllRequested
      BY <1>c, <1>n, <3>c, RequestedCall
    <3> QED BY <3>1, <3>3, <3>4, <3>d DEF Sent
  <2> HIDE DEF Sent
  <2> QED BY <1>f, <2>1
<1>3. wire \in Seq(Sent)
  BY DEF Reading
<1>4. wire' \in Seq(Sent)
  <2>1. CASE fails
    BY <1>1, <1>3, <2>1
  <2>2. CASE ~ fails
    <3>1. wire \o frames \in Seq(Sent)
      BY <1>2, <1>3, <2>2, Joined
    <3> QED BY <1>1, <2>2, <3>1
  <2> QED BY <2>1, <2>2
<1> QED BY <1>1, <1>4, ReaderUnchanged

\* The connection breaks.
LEMMA HangUpReading ==
  ASSUME Reading, HangUp
  PROVE  Reading'
<1>1. wire \in Seq(Sent)
  BY DEF Reading
<1>2. PICK n \in 0 .. Len(wire) : wire' = UpTo(wire, n)
  BY DEF HangUp
<1>3. n \in Nat
  BY <1>1
<1>4. wire' \in Seq(Sent)
  BY <1>1, <1>2, <1>3, UpToType
<1>5. UNCHANGED <<opts, reader>>
  BY DEF HangUp
<1> QED BY <1>4, <1>5, ReaderUnchanged

\* The frame that is taken off the wire.
LEMMA Consumed ==
  ASSUME Reading, Consume
  PROVE  /\ wire' \in Seq(Sent) /\ opts' = opts /\ SoundFrame(Head(wire))
         /\ ~terminalReadFrameError(outcome.err)
<1>1. wire \in Seq(Sent) /\ wire # <<>> /\ wire' = Tail(wire)
  BY DEF Reading, Consume
<1>2. Head(wire) \in Sent /\ Tail(wire) \in Seq(Sent)
  BY <1>1, HeadTailProperties
<1>3. SoundFrame(Head(wire))
  BY <1>2 DEF Sent
<1> QED BY <1>1, <1>2, <1>3 DEF Consume

\* A frame is refused.
LEMMA ReadRefusedReading ==
  ASSUME Reading, ReadRefused
  PROVE  Reading'
<1>r. PICK r : r = Received(Head(wire))
  OBVIOUS
<1>1. /\ Consume /\ r.err # NoError /\ lastHeaderStream' = lastHeaderStream /\ saveBuf' = saveBuf
      /\ outcome' = [frame |-> NoFrame, err |-> r.err] /\ meta' = NoMeta
      /\ interrupted' = (interrupted \/ (r.err.kind = "stream" /\ lastHeaderStream' # 0))
  BY <1>r DEF ReadRefused, Return
<1>2. /\ wire' \in Seq(Sent) /\ opts' = opts /\ SoundFrame(Head(wire))
      /\ ~terminalReadFrameError(outcome.err)
  BY <1>1, Consumed
<1>3. Failure(r.err)
  BY <1>1, <1>2, <1>r, ReceivedIs
<1>4. HeaderBlocksWhole'
  BY <1>1 DEF HeaderBlocksWhole, NoFrame
<1>5. ASSUME ~interrupted' PROVE NothingLeft'
  <2>0. ~interrupted /\ NothingLeft /\ (meta # NoMeta => Waiting)
    BY <1>1, <1>5 DEF Reading
  <2>1. CASE r.err.kind = "stream"
    <3>1. lastHeaderStream = 0
      BY <1>1, <1>5, <2>1
    <3>2. meta = NoMeta
      BY <2>0, <3>1 DEF Waiting
    <3>3. saveBuf = <<>>
      BY <1>2, <2>0, <3>2 DEF NothingLeft
    <3> QED BY <1>1, <3>3 DEF NothingLeft
  <2>2. CASE r.err.kind # "stream"
    <3>1. terminalReadFrameError(r.err)
      BY <1>3, <2>2 DEF Failure, terminalReadFrameError
    <3>2. outcome'.err = r.err
      BY <1>1
    <3> QED BY <3>1, <3>2 DEF NothingLeft, terminalReadFrameError
  <2> QED BY <2>1, <2>2
<1>6. opts' \in Options
  BY <1>2 DEF Reading
<1> QED BY <1>1, <1>2, <1>4, <1>5, <1>6 DEF Reading

\* A frame is returned as it is.
LEMMA ReadFrameReading ==
  ASSUME Reading, ReadFrame
  PROVE  Reading'
<1>r. PICK r : r = Received(Head(wire))
  OBVIOUS
<1>1. /\ Consume /\ r.err = NoError /\ meta = NoMeta /\ saveBuf' = saveBuf
      /\ outcome' = [frame |-> r.frame, err |-> NoError] /\ meta' = NoMeta
      /\ interrupted' = (interrupted \/ (NoError.kind = "stream" /\ lastHeaderStream' # 0))
  BY <1>r DEF ReadFrame, Return
<1>2. /\ wire' \in Seq(Sent) /\ opts' = opts /\ SoundFrame(Head(wire))
      /\ ~terminalReadFrameError(outcome.err)
  BY <1>1, Consumed
<1>3. r.frame.type # "META"
  <2>w. PICK w : w = Head(wire)
    OBVIOUS
  <2>1. r.frame.type = w.type
    BY <1>1, <1>2, <1>r, <2>w, ReceivedIs
  <2> QED BY <1>2, <2>1, <2>w DEF SoundFrame
<1>4. HeaderBlocksWhole'
  BY <1>1, <1>3 DEF HeaderBlocksWhole
<1>5. ASSUME ~interrupted' PROVE NothingLeft'
  <2>0. ~interrupted /\ NothingLeft
    BY <1>1, <1>5 DEF Reading
  <2>1. saveBuf = <<>>
    BY <1>1, <1>2, <2>0 DEF NothingLeft
  <2> QED BY <1>1, <2>1 DEF NothingLeft
<1>6. opts' \in Options
  BY <1>2 DEF Reading
<1> QED BY <1>1, <1>2, <1>4, <1>5, <1>6 DEF Reading

\* The connection has ended.
LEMMA ReadEndReading ==
  ASSUME Reading, ReadEnd
  PROVE  Reading'
<1>1. /\ wire' = wire /\ opts' = opts /\ meta' = NoMeta
      /\ outcome' = [frame |-> NoFrame, err |-> OtherError("EOF")]
  BY DEF ReadEnd, Return
<1>2. HeaderBlocksWhole'
  BY <1>1 DEF HeaderBlocksWhole, NoFrame
<1>3. NothingLeft'
  BY <1>1 DEF NothingLeft, terminalReadFrameError, OtherError
<1> QED BY <1>1, <1>2, <1>3 DEF Reading

\* A whole block is decoded, and no field was wrong.
LEMMA WholeBlock ==
  ASSUME NEW x \in Seq(Octets), NEW L \in Nat, NEW m, Decoded(m, <<>>, x, L), m.invalid = FALSE
  PROVE  LET all == FieldsOf(x)
             n == Len(m.fields)
         IN  /\ n <= Len(all) /\ m.fields = UpTo(all, n)
             /\ ListSize(all, n) <= L
             /\ m.truncated = (n < Len(all))
             /\ n < Len(all) => ListSize(all, n + 1) > L
<1>X. PICK X, i : WalkedTo(x, X, i) /\ <<>> = From(x, i - 1) /\ Limited(m, X, L)
  BY DEF Decoded
<1>i. X \in Seq(Encodable) /\ i \in Nat /\ 1 <= i /\ i <= Len(x) + 1
  BY <1>X DEF WalkedTo
<1>j. PICK j \in Nat : j = i - 1 /\ j <= Len(x)
  BY <1>i
<1>1. Len(From(x, j)) = Len(x) - j
  BY <1>j, Rest
<1>2. i = Len(x) + 1
  <2>1. Len(x) - j = 0
    BY <1>1, <1>j, <1>X
  <2> QED BY <1>i, <1>j, <2>1
<1>3. FieldsOf(x) = X
  BY <1>2, <1>X, WalkEnds
<1>l. PICK l \in Nat : l = Len(X)
  BY <1>i
<1>4. \A k \in 0 .. l : Sums(X)[k] \in Nat
  BY <1>i, <1>l, SumsType
<1>5. Kept(m, X, L) \/ Stopped(m, X, L)
  BY <1>X DEF Limited, Refused
<1>n. PICK n \in 0 .. l :
        /\ m.fields = UpTo(X, n) /\ Sums(X)[n] <= L /\ m.truncated = (n < l)
        /\ n < l => Sums(X)[n + 1] > L
  <2>1. CASE Kept(m, X, L)
    <3>1. l \in 0 .. l
      OBVIOUS
    <3>2. m.fields = X /\ m.truncated = FALSE /\ m.remainSize \in Nat
          /\ m.remainSize = L - Sums(X)[l]
      BY <1>l, <2>1 DEF Kept
    <3>3. UpTo(X, l) = X
      <4>1. UpTo(X, l) = [k \in 1 .. l |-> X[k]]
        BY <1>i, <1>l, <3>1, FirstFields
      <4>2. X = [k \in 1 .. l |-> X[k]]
        BY <1>i, <1>l
      <4> QED BY <4>1, <4>2
    <3>4. Sums(X)[l] <= L
      BY <1>4, <3>1, <3>2
    <3>5. m.truncated = (l < l)
      <4>1. (l < l) = FALSE
        OBVIOUS
      <4> QED BY <3>2, <4>1
    <3> QED BY <3>1, <3>2, <3>3, <3>4, <3>5
  <2>2. CASE Stopped(m, X, L)
    <3>n. PICK n \in 0 .. l : /\ n < l /\ m.fields = UpTo(X, n)
                              /\ Sums(X)[n] <= L /\ L < Sums(X)[n + 1]
      BY <1>l, <2>2 DEF Stopped
    <3>1. m.truncated = (n < l)
      BY <2>2, <3>n DEF Stopped
    <3>2. Sums(X)[n + 1] > L
      BY <3>n
    <3> QED BY <3>1, <3>2, <3>n
  <2> QED BY <1>5, <2>1, <2>2
<1>6. Len(m.fields) = n
  <2>1. Len(UpTo(X, n)) = n
    BY <1>i, <1>l, FirstFields
  <2> QED BY <1>n, <2>1
<1>7. ListSize(X, n) = Sums(X)[n] /\ ListSize(X, n + 1) = Sums(X)[n + 1]
  BY ListSizeIs
<1>8. /\ n <= l /\ m.fields = UpTo(X, n) /\ ListSize(X, n) <= L /\ m.truncated = (n < l)
      /\ n < l => ListSize(X, n + 1) > L
  BY <1>7, <1>n
<1> QED BY <1>3, <1>6, <1>8, <1>l

\* A turn of the loop of readMetaFrame, for the HEADERS frame or for a
\* CONTINUATION.
LEMMA MetaTurn ==
  ASSUME opts \in Options, opts' = opts, wire' \in Seq(Sent), ~interrupted, ~opts.illegalReads,
         NEW m, NEW f, NEW o \in Seq(Octets), NEW p \in Seq(Octets), p = f.val.frag,
         NEW x, JoinOf(x, o, p), Decoded(m, saveBuf, o, maxHeaderListSize),
         m.stream = f.stream, f.stream # 0, f.type \in {"HEADERS", "CONTINUATION"},
         lastHeaderStream' = HeaderStreamAfter(f),
         NEW ended \in BOOLEAN, ended = HeadersEnded(f),
         block' = [stream |-> f.stream, octets |-> x, ended |-> ended],
         readMetaFrame(m, f)
  PROVE  Reading'
<1>L. PICK L \in Nat : L = maxHeaderListSize /\ L = maxHeaderListSize'
  <2>1. maxHeaderListSize' = maxHeaderListSize
    BY DEF maxHeaderListSize
  <2> QED BY <2>1, LimitType
<1>d. PICK d : d = DecoderWrite(m, saveBuf, p)
  OBVIOUS
<1>q. PICK id : id = f.stream /\ id # 0 /\ id = m.stream
  OBVIOUS
<1>0. StepOK(d, x, maxHeaderListSize, m.stream)
  BY <1>d, <1>L, DecoderWriteOK
<1>1. /\ d.m.stream = id
      /\ \/ d.bad = TRUE /\ d.stop = TRUE
         \/ d.bad = FALSE /\ Decoded(d.m, d.buf, x, L)
  BY <1>0, <1>L, <1>q DEF StepOK
<1>x. x \in Seq(Octets)
  BY JoinedAs
<1>h. lastHeaderStream' = IF ended THEN 0 ELSE id
  BY <1>q DEF HeaderStreamAfter
<1>2. ASSUME NEW frame, NEW err, Return(frame, err), saveBuf' = <<>>,
             err.kind = "stream" => ended, HeaderBlocksWhole'
      PROVE  Reading'
  <2>1. meta' = NoMeta /\ interrupted' = (interrupted \/ (err.kind = "stream" /\ lastHeaderStream' # 0))
    BY <1>2 DEF Return
  <2>2. NothingLeft'
    BY <1>2 DEF NothingLeft
  <2> QED BY <1>2, <2>1, <2>2 DEF Reading
<1>3. ASSUME NEW err, Return(NoFrame, err) PROVE HeaderBlocksWhole'
  <2>1. outcome' = [frame |-> NoFrame, err |-> err]
    BY <1>3 DEF Return
  <2>2. outcome'.frame.type # "META"
    BY <2>1 DEF NoFrame
  <2> QED BY <2>2 DEF HeaderBlocksWhole
<1>4. CASE /\ d.bad
           /\ saveBuf' = <<>>
           /\ Return(NoFrame, ConnectionError("COMPRESSION_ERROR"))
  <2>1. ConnectionError("COMPRESSION_ERROR").kind # "stream"
    BY DEF ConnectionError
  <2>2. HeaderBlocksWhole'
    BY <1>3, <1>4
  <2> QED BY <1>2, <1>4, <2>1, <2>2
<1>5. CASE /\ ~d.bad /\ ~HeadersEnded(f)
           /\ saveBuf' = d.buf
           /\ meta' = d.m
           /\ outcome' = Nothing
           /\ UNCHANGED interrupted
  <2>0. d.bad = FALSE /\ Decoded(d.m, d.buf, x, L) /\ ended = FALSE
    BY <1>1, <1>5
  <2>1. HeaderBlocksWhole'
    BY <1>5 DEF HeaderBlocksWhole, Nothing, NoFrame
  <2>2. meta'.stream = id /\ meta' # NoMeta
    BY <1>1, <1>5, <1>q DEF NoMeta
  <2>3. NothingLeft'
    BY <2>2 DEF NothingLeft
  <2>4. /\ ~opts'.illegalReads /\ lastHeaderStream' = id
        /\ block' = [stream |-> lastHeaderStream', octets |-> x, ended |-> FALSE]
        /\ Decoded(meta', saveBuf', x, maxHeaderListSize')
    BY <1>5, <1>h, <1>L, <1>q, <2>0
  <2>5. Waiting'
    BY <1>q, <1>x, <2>2, <2>4 DEF Waiting
  <2> QED BY <2>1, <2>3, <2>5 DEF Reading
<1>m. PICK mh : mh = [type |-> "META", flags |-> d.m.flags, stream |-> d.m.stream,
                      val |-> [fields |-> d.m.fields, truncated |-> d.m.truncated,
                               priority |-> d.m.priority]]
  OBVIOUS
<1>6. CASE /\ ~d.bad /\ HeadersEnded(f)
           /\ saveBuf' = <<>>
           /\ IF d.buf # <<>> THEN Return(NoFrame, ConnectionError("COMPRESSION_ERROR"))
              ELSE IF d.m.invalid \/ ~checkPseudos(d.m.fields)
                THEN Return(NoFrame, StreamError(d.m.stream, "PROTOCOL_ERROR"))
              ELSE Return(mh, NoError)
  <2>0. d.bad = FALSE /\ Decoded(d.m, d.buf, x, L) /\ ended = TRUE
    BY <1>1, <1>6
  <2>1. CASE d.buf # <<>>
    <3>1. Return(NoFrame, ConnectionError("COMPRESSION_ERROR"))
      BY <1>6, <2>1
    <3>2. HeaderBlocksWhole'
      BY <1>3, <3>1
    <3> QED BY <1>2, <1>6, <2>0, <3>1, <3>2
  <2>2. CASE d.buf = <<>> /\ (d.m.invalid \/ ~checkPseudos(d.m.fields))
    <3>1. Return(NoFrame, StreamError(d.m.stream, "PROTOCOL_ERROR"))
      BY <1>6, <2>2
    <3>2. HeaderBlocksWhole'
      BY <1>3, <3>1
    <3> QED BY <1>2, <1>6, <2>0, <3>1, <3>2
  <2>3. CASE d.buf = <<>> /\ ~ (d.m.invalid \/ ~checkPseudos(d.m.fields))
    <3>1. Return(mh, NoError)
      BY <1>6, <2>3
    <3>e. PICK e : e = d.m
      OBVIOUS
    <3>2. Decoded(e, <<>>, x, L) /\ e.invalid = FALSE
      <4>1. d.m.invalid = FALSE
        <5>1. PICK X : Limited(d.m, X, L)
          BY <2>0 DEF Decoded
        <5> QED BY <2>3, <5>1 DEF Limited, Kept, Stopped, Refused
      <4> QED BY <2>0, <2>3, <3>e, <4>1
    <3>a. PICK all : all = FieldsOf(x)
      OBVIOUS
    <3>n. PICK n : n = Len(e.fields)
      OBVIOUS
    <3>3. /\ n <= Len(all) /\ e.fields = UpTo(all, n) /\ ListSize(all, n) <= L
          /\ e.truncated = (n < Len(all))
          /\ n < Len(all) => ListSize(all, n + 1) > L
      BY <1>x, <3>2, <3>a, <3>n, WholeBlock
    <3>4. outcome' = [frame |-> mh, err |-> NoError]
      BY <3>1 DEF Return
    <3>5. /\ outcome'.frame.val.fields = e.fields /\ outcome'.frame.val.truncated = e.truncated
          /\ outcome'.frame.stream = id
      BY <1>1, <1>m, <3>4, <3>e
    <3>6. block'.octets = x /\ block'.ended = TRUE /\ block'.stream = id
      BY <1>q, <2>0
    <3>7. HeaderBlocksWhole'
      <4>1. FieldsOf(block'.octets) = all /\ Len(outcome'.frame.val.fields) = n
        BY <3>5, <3>6, <3>a, <3>n
      <4>2. block'.ended /\ block'.stream = outcome'.frame.stream
        BY <3>5, <3>6
      <4>3. /\ Len(outcome'.frame.val.fields) <= Len(FieldsOf(block'.octets))
            /\ outcome'.frame.val.fields
                 = UpTo(FieldsOf(block'.octets), Len(outcome'.frame.val.fields))
        BY <3>3, <3>5, <4>1, Zenon
      <4>4. ListSize(FieldsOf(block'.octets), Len(outcome'.frame.val.fields)) <= maxHeaderListSize'
        BY <1>L, <3>3, <4>1, Zenon
      <4>5. outcome'.frame.val.truncated
              = (Len(outcome'.frame.val.fields) < Len(FieldsOf(block'.octets)))
        BY <3>3, <3>5, <4>1, Zenon
      <4>6. Len(outcome'.frame.val.fields) < Len(FieldsOf(block'.octets)) =>
              ListSize(FieldsOf(block'.octets), Len(outcome'.frame.val.fields) + 1)
                > maxHeaderListSize'
        BY <1>L, <3>3, <4>1, Zenon
      <4> QED BY <4>2, <4>3, <4>4, <4>5, <4>6, Zenon DEF HeaderBlocksWhole
    <3> QED BY <1>2, <1>6, <2>0, <3>1, <3>7
  <2> QED BY <2>1, <2>2, <2>3
<1> QED
  BY <1>4, <1>5, <1>6, <1>d, <1>m DEF readMetaFrame

\* A HEADERS frame that readMetaFrame goes on with.
LEMMA ReadMetaHeadersReading ==
  ASSUME Reading, ReadMetaHeaders
  PROVE  Reading'
<1>w. PICK w : w = Head(wire)
  OBVIOUS
<1>r. PICK r : r = Received(w)
  OBVIOUS
<1>f. PICK f : f = r.frame
  OBVIOUS
<1>1. /\ Consume /\ r.err = NoError /\ meta = NoMeta /\ f.type = "HEADERS"
      /\ lastHeaderStream' = HeaderStreamAfter(f)
      /\ block' = BlockAfter(f)
      /\ \/ opts.illegalReads /\ Return(NoFrame, OtherError("errAllowIllegalReads"))
         \/ ~opts.illegalReads /\ readMetaFrame(NewMeta(f), f)
  BY <1>f, <1>r, <1>w DEF ReadMetaHeaders
<1>2. /\ wire' \in Seq(Sent) /\ opts' = opts /\ SoundFrame(w)
      /\ ~terminalReadFrameError(outcome.err)
  BY <1>1, <1>w, Consumed
<1>3. opts \in Options /\ opts' \in Options
  BY <1>2 DEF Reading
<1>4. f.stream # 0 /\ f.val.frag \in Seq(Octets)
  BY <1>1, <1>2, <1>f, <1>r, ReceivedIs
<1>p. PICK p \in Seq(Octets) : p = f.val.frag
  BY <1>4
<1>5. CASE opts.illegalReads /\ Return(NoFrame, OtherError("errAllowIllegalReads"))
  <2>1. /\ outcome' = [frame |-> NoFrame, err |-> OtherError("errAllowIllegalReads")]
        /\ meta' = NoMeta
    BY <1>5 DEF Return
  <2>2. HeaderBlocksWhole'
    BY <2>1 DEF HeaderBlocksWhole, NoFrame
  <2>3. NothingLeft'
    BY <2>1 DEF NothingLeft, terminalReadFrameError, OtherError
  <2> QED BY <1>2, <1>3, <2>1, <2>2, <2>3 DEF Reading
<1>6. CASE ~opts.illegalReads /\ readMetaFrame(NewMeta(f), f) /\ ~interrupted
  <2>m. PICK m : m = NewMeta(f)
    OBVIOUS
  <2>1. saveBuf = <<>>
    BY <1>1, <1>2, <1>6 DEF Reading, NothingLeft
  <2>o. PICK o \in Seq(Octets) : o = <<>> /\ Len(o) = 0
    <3>1. <<>> \in Seq(Octets) /\ Len(<<>>) = 0
      OBVIOUS
    <3> QED BY <3>1, Zenon
  <2>2. Decoded(m, saveBuf, o, maxHeaderListSize)
    <3>L. PICK L \in Nat : L = maxHeaderListSize
      BY <1>3, LimitType
    <3>1. WalkedTo(o, <<>>, 1)
      BY WalkStarts
    <3>2. saveBuf = From(o, 1 - 1)
      BY <2>1, <2>o DEF From
    <3>3. IsMeta(m) /\ m.invalid = FALSE /\ m.truncated = FALSE /\ m.emitEnabled = TRUE
          /\ m.fields = <<>> /\ m.remainSize = L
      BY <2>m, <3>L DEF NewMeta, IsMeta
    <3>X. PICK X \in Seq(Encodable) : X = <<>> /\ Len(X) = 0
      <4>1. <<>> \in Seq(Encodable) /\ Len(<<>>) = 0
        OBVIOUS
      <4> QED BY <4>1, Zenon
    <3>4. Sums(X)[0] = 0
      BY SumsAre
    <3>5. Kept(m, X, L)
      BY <3>3, <3>4, <3>X DEF Kept
    <3>6. Limited(m, X, L)
      BY <3>3, <3>5 DEF Limited
    <3> QED BY <3>1, <3>2, <3>6, <3>L, <3>X DEF Decoded
  <2>3. JoinOf(p, o, p)
    BY <2>o DEF JoinOf
  <2>4. m.stream = f.stream
    BY <2>m DEF NewMeta
  <2>e. PICK ended \in BOOLEAN : ended = HeadersEnded(f)
    <3>1. CASE END_HEADERS \in f.flags
      <4>1. TRUE = HeadersEnded(f)
        BY <3>1 DEF HeadersEnded
      <4> QED BY <4>1
    <3>2. CASE END_HEADERS \notin f.flags
      <4>1. FALSE = HeadersEnded(f)
        BY <3>2 DEF HeadersEnded
      <4> QED BY <4>1
    <3> QED BY <3>1, <3>2
  <2>5. block' = [stream |-> f.stream, octets |-> p, ended |-> ended]
    BY <1>1, <1>p, <2>e DEF BlockAfter
  <2>6. readMetaFrame(m, f)
    BY <1>6, <2>m
  <2>7. f.type \in {"HEADERS", "CONTINUATION"}
    BY <1>1
  <2> QED
    BY <1>1, <1>2, <1>3, <1>4, <1>6, <1>p, <2>2, <2>3, <2>4, <2>5, <2>6, <2>7, <2>e, MetaTurn
<1>7. CASE ~opts.illegalReads /\ readMetaFrame(NewMeta(f), f) /\ interrupted
  <2>1. interrupted'
    BY <1>7 DEF readMetaFrame, Return
  <2> QED BY <1>2, <1>3, <2>1 DEF Reading
<1> QED BY <1>1, <1>5, <1>6, <1>7

\* The CONTINUATION that readMetaFrame waits for.
LEMMA ReadContinuationReading ==
  ASSUME Reading, ReadContinuation
  PROVE  Reading'
<1>w. PICK w : w = Head(wire)
  OBVIOUS
<1>r. PICK r : r = Received(w)
  OBVIOUS
<1>f. PICK f : f = r.frame
  OBVIOUS
<1>1. /\ Consume /\ r.err = NoError /\ meta # NoMeta
      /\ lastHeaderStream' = HeaderStreamAfter(f)
      /\ block' = BlockAfter(f)
      /\ readMetaFrame(meta, f)
  BY <1>f, <1>r, <1>w DEF ReadContinuation
<1>2. /\ wire' \in Seq(Sent) /\ opts' = opts /\ SoundFrame(w)
      /\ ~terminalReadFrameError(outcome.err)
  BY <1>1, <1>w, Consumed
<1>3. opts \in Options /\ opts' \in Options
  BY <1>2 DEF Reading
<1>4. CASE ~interrupted
  <2>0. Waiting
    BY <1>1, <1>4 DEF Reading
  <2>1. ~opts.illegalReads /\ lastHeaderStream # 0 /\ meta.stream = lastHeaderStream
    BY <2>0 DEF Waiting
  <2>o. PICK o \in Seq(Octets) :
          /\ block = [stream |-> lastHeaderStream, octets |-> o, ended |-> FALSE]
          /\ Decoded(meta, saveBuf, o, maxHeaderListSize)
    BY <2>0 DEF Waiting
  <2>2. checkFrameOrder(f) = NoError
    BY <1>1, <1>2, <1>f, <1>r, ReceivedIs
  <2>3. f.type = "CONTINUATION" /\ f.stream = lastHeaderStream
    BY <2>1, <2>2 DEF checkFrameOrder, ConnectionError, NoError
  <2>4. f.val.frag \in Seq(Octets)
    BY <1>1, <1>2, <1>f, <1>r, <2>3, ReceivedIs
  <2>p. PICK p \in Seq(Octets) : p = f.val.frag
    BY <2>4
  <2>x. PICK x : x = o \o p
    OBVIOUS
  <2>5. JoinOf(x, o, p)
    BY <2>x DEF JoinOf
  <2>e. PICK ended \in BOOLEAN : ended = HeadersEnded(f)
    <3>1. CASE END_HEADERS \in f.flags
      <4>1. TRUE = HeadersEnded(f)
        BY <3>1 DEF HeadersEnded
      <4> QED BY <4>1
    <3>2. CASE END_HEADERS \notin f.flags
      <4>1. FALSE = HeadersEnded(f)
        BY <3>2 DEF HeadersEnded
      <4> QED BY <4>1
    <3> QED BY <3>1, <3>2
  <2>6. block' = [stream |-> f.stream, octets |-> x, ended |-> ended]
    <3>1. block' = [block EXCEPT !.octets = @ \o p, !.ended = ended]
      BY <1>1, <2>3, <2>e, <2>o, <2>p DEF BlockAfter
    <3> QED BY <2>3, <2>o, <2>x, <3>1
  <2>m. PICK m : m = meta
    OBVIOUS
  <2>7. Decoded(m, saveBuf, o, maxHeaderListSize) /\ m.stream = f.stream /\ readMetaFrame(m, f)
    BY <1>1, <2>1, <2>3, <2>m, <2>o
  <2>8. f.type \in {"HEADERS", "CONTINUATION"} /\ f.stream # 0
    BY <2>1, <2>3
  <2> QED
    BY <1>1, <1>2, <1>3, <1>4, <2>1, <2>5, <2>6, <2>7, <2>8, <2>e, <2>p, MetaTurn
<1>5. CASE interrupted
  <2>1. interrupted'
    BY <1>1, <1>5 DEF readMetaFrame, Return
  <2> QED BY <1>2, <1>3, <2>1 DEF Reading
<1> QED BY <1>4, <1>5

\* Every step keeps the reader in order.
LEMMA ReadingStep == Encoding /\ Reading /\ [Next]_vars => Reading'
<1> SUFFICES ASSUME Encoding, Reading, [Next]_vars PROVE Reading'
  OBVIOUS
<1>1. ASSUME NEW c \in Calls, WriteCall(c) PROVE Reading'
  BY <1>1, WriteCallReading
<1>2. ASSUME NEW w \in RawFrames, WriteRaw(w) PROVE Reading'
  BY <1>2, WriteRawReading
<1>3. ASSUME NEW w \in Writers, writeFrame(w) PROVE Reading'
  BY <1>3, WriteFrameReading
<1>4. CASE HangUp
  BY <1>4, HangUpReading
<1>5. CASE ReadRefused
  BY <1>5, ReadRefusedReading
<1>6. CASE ReadFrame
  BY <1>6, ReadFrameReading
<1>7. CASE ReadMetaHeaders
  BY <1>7, ReadMetaHeadersReading
<1>8. CASE ReadContinuation
  BY <1>8, ReadContinuationReading
<1>9. CASE ReadEnd
  BY <1>9, ReadEndReading
<1>10. CASE UNCHANGED vars
  <2>1. UNCHANGED <<opts, reader>> /\ wire' = wire
    BY <1>10 DEF vars, reader
  <2>2. wire' \in Seq(Sent)
    BY <2>1 DEF Reading
  <2> QED BY <2>1, <2>2, ReaderUnchanged
<1> QED
  BY <1>1, <1>2, <1>3, <1>4, <1>5, <1>6, <1>7, <1>8, <1>9, <1>10 DEF Next

\* Every MetaHeadersFrame is the decoding of one whole header block of its
\* stream, up to MaxHeaderListSize, whatever was written and however the block
\* was cut into a HEADERS frame and CONTINUATIONs (Framer.ReadFrame and
\* readMetaFrame), as long as no stream error was returned within a block.
THEOREM BlocksWhole == Spec => []BlocksIntact
<1>1. Reading => BlocksIntact
  BY DEF Reading, BlocksIntact
<1>2. Spec => []Encoding
  BY EncodingInit, EncodingStep, PTL DEF Spec
<1> QED BY <1>1, <1>2, ReadingInit, ReadingStep, PTL DEF Spec
-----------------------------------------------------------------------------
(***************************************************************************)
(* Numbers on the wire: what Uint reads is what BigEndian wrote.           *)
(***************************************************************************)
\* Division with a remainder.
LEMMA Division ==
  ASSUME NEW a \in Nat, NEW b \in Nat, b > 0
  PROVE  /\ a \div b \in Nat /\ a % b \in Nat
         /\ a = (a \div b) * b + (a % b) /\ a % b < b
<1>1. a = b * (a \div b) + (a % b)
  OBVIOUS
<1>2. a % b \in Nat /\ a % b < b
  OBVIOUS
<1>3. a \div b \in Nat
  OBVIOUS
<1>4. \A x, y \in Nat : x * y = y * x
  OBVIOUS
<1>5. b * (a \div b) = (a \div b) * b
  BY <1>3, <1>4
<1> QED BY <1>1, <1>2, <1>3, <1>5

\* The quotient is the only one.
LEMMA QuotientIs ==
  ASSUME NEW a \in Nat, NEW b \in Nat, b > 0, NEW q \in Nat, NEW r \in Nat, r < b, a = q * b + r
  PROVE  a \div b = q /\ a % b = r
<1>1. PICK x, y \in Nat : x = a \div b /\ y = a % b /\ a = x * b + y /\ y < b
  BY Division
<1>2. CASE x > q
  <2>1. PICK d \in Nat : x = q + 1 + d
    <3>1. x - q - 1 \in Nat /\ x = q + 1 + (x - q - 1)
      BY <1>2
    <3> QED BY <3>1
  <2>2. x * b = q * b + b + d * b
    BY <2>1
  <2>3. d * b \in Nat
    OBVIOUS
  <2>4. q * b \in Nat /\ x * b \in Nat
    OBVIOUS
  <2> QED BY <1>1, <2>2, <2>3, <2>4
<1>3. CASE x < q
  <2>1. PICK d \in Nat : q = x + 1 + d
    <3>1. q - x - 1 \in Nat /\ q = x + 1 + (q - x - 1)
      BY <1>3
    <3> QED BY <3>1
  <2>2. q * b = x * b + b + d * b
    BY <2>1
  <2>3. d * b \in Nat
    OBVIOUS
  <2>4. q * b \in Nat /\ x * b \in Nat
    OBVIOUS
  <2> QED BY <1>1, <2>2, <2>3, <2>4
<1>4. CASE x = q
  <2>1. q * b \in Nat
    OBVIOUS
  <2>2. x * b = q * b
    BY <1>4
  <2> QED BY <1>1, <1>4, <2>1, <2>2
<1> QED BY <1>2, <1>3, <1>4

\* Dividing twice.
LEMMA DividedTwice ==
  ASSUME NEW v \in Nat, NEW a \in Nat, a > 0, NEW b \in Nat, b > 0
  PROVE  (v \div a) \div b = v \div (b * a)
<1>1. PICK x, r \in Nat : x = v \div a /\ v = x * a + r /\ r < a
  BY Division
<1>2. PICK q, s \in Nat : q = x \div b /\ x = q * b + s /\ s < b
  BY Division
<1>3. PICK m \in Nat : m = b * a /\ m > 0
  <2>1. b * a \in Nat /\ b * a > 0
    OBVIOUS
  <2> QED BY <2>1
<1>4. PICK t \in Nat : t = s * a + r
  <2>1. s * a \in Nat
    OBVIOUS
  <2> QED BY <2>1
<1>5. x * a = q * m + s * a
  BY <1>2, <1>3
<1>6. t < m
  <2>1. PICK d \in Nat : b = s + 1 + d
    <3>1. b - s - 1 \in Nat /\ b = s + 1 + (b - s - 1)
      BY <1>2
    <3> QED BY <3>1
  <2>2. m = s * a + a + d * a
    BY <1>3, <2>1
  <2>3. d * a \in Nat /\ s * a \in Nat
    OBVIOUS
  <2> QED BY <1>1, <1>4, <2>2, <2>3
<1>7. v = q * m + t
  <2>1. q * m \in Nat /\ s * a \in Nat /\ x * a \in Nat
    OBVIOUS
  <2> QED BY <1>1, <1>4, <1>5, <2>1
<1>8. v \div m = q
  BY <1>3, <1>6, <1>7, QuotientIs
<1> QED BY <1>1, <1>2, <1>3, <1>8

\* The state of Uint.
UintTo(p, n, g) == [k \in 0 .. n |-> IF k = 0 THEN 0 ELSE g[k - 1] * Octet + p[k]]

\* Uint16 and Uint32, by their octets.
LEMMA UintOfTwo ==
  ASSUME NEW p \in Seq(Octets), Len(p) = 2
  PROVE  Uint(p) = p[1] * Octet + p[2]
<1>o. Octet \in Nat /\ p[1] \in Nat /\ p[2] \in Nat
  <2>1. 1 \in 1 .. Len(p) /\ 2 \in 1 .. Len(p)
    OBVIOUS
  <2>s. \A i \in 1 .. Len(p) : p[i] \in Octets
    BY Elements, Zenon
  <2>2. p[1] \in Octets /\ p[2] \in Octets
    BY <2>1, <2>s, Zenon
  <2> QED BY <2>2, OctetAssumption DEF Octets
<1>1. Uint(p) = (CHOOSE g : g = UintTo(p, 2, g))[2]
  BY DEF Uint, UintTo
<1>2. \E g : g = UintTo(p, 2, g)
  <2> DEFINE g == [k \in 0 .. 2 |-> IF k = 0 THEN 0 ELSE IF k = 1 THEN p[1] ELSE p[1] * Octet + p[2]]
  <2>0. g[0] = 0 /\ g[1] = p[1] /\ 0 * Octet + p[1] = p[1]
    BY <1>o
  <2>1. ASSUME NEW k \in 0 .. 2 PROVE g[k] = IF k = 0 THEN 0 ELSE g[k - 1] * Octet + p[k]
    <3>1. k = 0 \/ k = 1 \/ k = 2
      OBVIOUS
    <3>2. g[2] = p[1] * Octet + p[2]
      OBVIOUS
    <3> HIDE DEF g
    <3> QED BY <2>0, <3>1, <3>2
  <2>2. g = [k \in 0 .. 2 |-> g[k]]
    OBVIOUS
  <2> HIDE DEF g
  <2>3. g = UintTo(p, 2, g)
    BY <2>1, <2>2 DEF UintTo
  <2> QED BY <2>3
<1>3. PICK g : g = UintTo(p, 2, g) /\ Uint(p) = g[2]
  BY <1>1, <1>2
<1>4. \A k \in 0 .. 2 : g[k] = IF k = 0 THEN 0 ELSE g[k - 1] * Octet + p[k]
  BY <1>3 DEF UintTo
<1>5. g[0] = 0
  BY <1>4
<1>6. g[1] = p[1]
  <2>1. g[1] = 0 * Octet + p[1]
    BY <1>4, <1>5
  <2> QED BY <1>o, <2>1
<1>7. g[2] = p[1] * Octet + p[2]
  BY <1>4, <1>6
<1> QED BY <1>3, <1>7

\* Four octets.
LEMMA UintOfFour ==
  ASSUME NEW p \in Seq(Octets), Len(p) = 4
  PROVE  Uint(p) = ((p[1] * Octet + p[2]) * Octet + p[3]) * Octet + p[4]
<1>o. Octet \in Nat /\ p[1] \in Nat /\ p[2] \in Nat /\ p[3] \in Nat /\ p[4] \in Nat
  <2>1. 1 \in 1 .. Len(p) /\ 2 \in 1 .. Len(p) /\ 3 \in 1 .. Len(p) /\ 4 \in 1 .. Len(p)
    BY Len(p) = 4
  <2>s. \A i \in 1 .. Len(p) : p[i] \in Octets
    BY Elements, Zenon
  <2>2. p[1] \in Octets /\ p[2] \in Octets /\ p[3] \in Octets /\ p[4] \in Octets
    BY <2>1, <2>s
  <2>3. Octet \in Nat /\ Octets \subseteq Nat
    BY OctetAssumption DEF Octets
  <2> QED BY <2>2, <2>3
<1>1. Uint(p) = (CHOOSE g : g = UintTo(p, 4, g))[4]
  BY DEF Uint, UintTo
<1>2. \E g : g = UintTo(p, 4, g)
  <2>b. PICK b : b = p[1] * Octet + p[2]
    OBVIOUS
  <2>c. PICK c : c = b * Octet + p[3]
    OBVIOUS
  <2>d. PICK d : d = c * Octet + p[4]
    OBVIOUS
  <2> DEFINE g == [k \in 0 .. 4 |-> IF k = 0 THEN 0 ELSE IF k = 1 THEN p[1]
                                   ELSE IF k = 2 THEN b ELSE IF k = 3 THEN c ELSE d]
  <2>0. /\ g[0] = 0 /\ g[1] = p[1] /\ g[2] = b /\ g[3] = c /\ g[4] = d
        /\ 0 * Octet + p[1] = p[1]
    BY <1>o
  <2>2. g = [k \in 0 .. 4 |-> g[k]]
    OBVIOUS
  <2> HIDE DEF g
  <2>1. ASSUME NEW k \in 0 .. 4 PROVE g[k] = IF k = 0 THEN 0 ELSE g[k - 1] * Octet + p[k]
    <3>1. k = 0 \/ k = 1 \/ k = 2 \/ k = 3 \/ k = 4
      OBVIOUS
    <3> QED BY <2>0, <2>b, <2>c, <2>d, <3>1
  <2>3. g = UintTo(p, 4, g)
    BY <2>1, <2>2 DEF UintTo
  <2> QED BY <2>3
<1>3. PICK g : g = UintTo(p, 4, g) /\ Uint(p) = g[4]
  BY <1>1, <1>2
<1>4. \A k \in 0 .. 4 : g[k] = IF k = 0 THEN 0 ELSE g[k - 1] * Octet + p[k]
  BY <1>3 DEF UintTo
<1>5. g[0] = 0
  BY <1>4
<1>6. g[1] = p[1]
  <2>1. g[1] = 0 * Octet + p[1]
    BY <1>4, <1>5
  <2> QED BY <1>o, <2>1
<1>7. g[2] = p[1] * Octet + p[2]
  BY <1>4, <1>6
<1>8. g[3] = g[2] * Octet + p[3]
  BY <1>4
<1>9. g[4] = g[3] * Octet + p[4]
  BY <1>4
<1> QED BY <1>3, <1>7, <1>8, <1>9

\* What is left of a number after one more octet.
LEMMA OneOctetLess ==
  ASSUME NEW v \in Nat, NEW k \in 0 .. 3
  PROVE  /\ v \div Power[k] \in Nat /\ v \div Power[k + 1] \in Nat
         /\ v \div Power[k] = (v \div Power[k + 1]) * Octet + ((v \div Power[k]) % Octet)
<1>o. Octet \in Nat /\ Octet > 0
  BY OctetAssumption
<1>0. k \in 0 .. 4 /\ k \in Nat /\ k + 1 \in 0 .. 4
  OBVIOUS
<1>p. PICK p \in Nat : p = Power[k] /\ p > 0
  BY <1>0, PowerSmall
<1>q. PICK q \in Nat : q = Power[k + 1] /\ q > 0 /\ q = Octet * p
  BY <1>0, <1>p, PowerSmall, PowerIs
<1>x. PICK x \in Nat : x = v \div p
  BY <1>p, Division
<1>1. x = (x \div Octet) * Octet + (x % Octet)
  BY <1>o, Division
<1>2. x \div Octet = v \div q
  BY <1>o, <1>p, <1>q, <1>x, DividedTwice
<1>3. v \div q \in Nat
  BY <1>q, Division
<1> QED BY <1>1, <1>2, <1>3, <1>p, <1>q, <1>x

\* A number of n octets has no more of them.
LEMMA NoOctetLeft ==
  ASSUME NEW b \in Nat, b > 0, NEW v \in 0 .. b - 1
  PROVE  v \div b = 0
<1>1. v \in Nat /\ v < b /\ 0 * b + v = v
  OBVIOUS
<1> QED BY <1>1, QuotientIs

\* writeUint32 and Uint32.
LEMMA BigEndianFour ==
  ASSUME NEW v \in Uint32
  PROVE  /\ BigEndian(v, 4) \in Seq(Octets) /\ Len(BigEndian(v, 4)) = 4
         /\ Uint(BigEndian(v, 4)) = v
<1>0. Power[4] \in Nat /\ Power[4] > 0 /\ Power[0] = 1
  BY PowerSmall, PowerIs
<1>1. v \in Nat /\ v \in 0 .. Power[4] - 1
  BY <1>0 DEF Uint32
<1>b. PICK b \in Seq(Octets) : b = BigEndian(v, 4)
  BY <1>1, FourOctets
<1>q. PICK q0, q1, q2, q3, q4 :
        /\ q0 = v \div Power[0] /\ q1 = v \div Power[1] /\ q2 = v \div Power[2]
        /\ q3 = v \div Power[3] /\ q4 = v \div Power[4]
  OBVIOUS
<1>2. b = [i \in 1 .. 4 |-> (v \div Power[4 - i]) % Octet]
  BY <1>b DEF BigEndian
<1>3. /\ Len(b) = 4 /\ b[1] = q3 % Octet /\ b[2] = q2 % Octet
      /\ b[3] = q1 % Octet /\ b[4] = q0 % Octet
  BY <1>2, <1>q
<1>4. /\ q3 \in Nat /\ q4 \in Nat /\ q3 = q4 * Octet + (q3 % Octet)
      /\ q2 \in Nat /\ q2 = q3 * Octet + (q2 % Octet)
      /\ q1 \in Nat /\ q1 = q2 * Octet + (q1 % Octet)
      /\ q0 \in Nat /\ q0 = q1 * Octet + (q0 % Octet)
  <2>1. /\ 0 \in 0 .. 3 /\ 1 \in 0 .. 3 /\ 2 \in 0 .. 3 /\ 3 \in 0 .. 3
        /\ 0 + 1 = 1 /\ 1 + 1 = 2 /\ 2 + 1 = 3 /\ 3 + 1 = 4
    OBVIOUS
  <2>2. q3 \in Nat /\ q4 \in Nat /\ q3 = q4 * Octet + (q3 % Octet)
    BY <1>1, <1>q, <2>1, OneOctetLess
  <2>3. q2 \in Nat /\ q2 = q3 * Octet + (q2 % Octet)
    BY <1>1, <1>q, <2>1, OneOctetLess
  <2>4. q1 \in Nat /\ q1 = q2 * Octet + (q1 % Octet)
    BY <1>1, <1>q, <2>1, OneOctetLess
  <2>5. q0 \in Nat /\ q0 = q1 * Octet + (q0 % Octet)
    BY <1>1, <1>q, <2>1, OneOctetLess
  <2> QED BY <2>2, <2>3, <2>4, <2>5
<1>5. q4 = 0
  BY <1>0, <1>1, <1>q, NoOctetLeft
<1>6. q0 = v
  BY <1>0, <1>1, <1>q
<1>7. q3 % Octet = q3
  <2>1. Octet \in Nat /\ Octet > 0
    BY OctetAssumption
  <2>2. q3 % Octet \in Nat
    BY <1>4, <2>1, Division
  <2>3. 0 * Octet = 0
    BY <2>1
  <2> QED BY <1>4, <1>5, <2>2, <2>3
<1>8. Uint(b) = ((b[1] * Octet + b[2]) * Octet + b[3]) * Octet + b[4]
  BY <1>3, UintOfFour
<1>9. b[1] * Octet + b[2] = q2
  BY <1>3, <1>4, <1>7
<1>10. q2 * Octet + b[3] = q1 /\ q1 * Octet + b[4] = q0
  BY <1>3, <1>4
<1>11. Uint(b) = v
  BY <1>6, <1>8, <1>9, <1>10
<1> QED BY <1>11, <1>3, <1>b

\* writeUint16 and Uint16.
LEMMA BigEndianTwo ==
  ASSUME NEW v \in Uint16
  PROVE  /\ BigEndian(v, 2) \in Seq(Octets) /\ Len(BigEndian(v, 2)) = 2
         /\ Uint(BigEndian(v, 2)) = v
<1>0. Power[2] \in Nat /\ Power[2] > 0 /\ Power[0] = 1
  BY PowerSmall, PowerIs
<1>1. v \in Nat /\ v \in 0 .. Power[2] - 1
  BY <1>0 DEF Uint16
<1>o. Octet \in Nat /\ Octet > 0
  BY OctetAssumption
<1>q. PICK q0, q1, q2 :
        q0 = v \div Power[0] /\ q1 = v \div Power[1] /\ q2 = v \div Power[2]
  OBVIOUS
<1>4. /\ q1 \in Nat /\ q2 \in Nat /\ q1 = q2 * Octet + (q1 % Octet)
      /\ q0 \in Nat /\ q0 = q1 * Octet + (q0 % Octet)
  <2>1. 0 \in 0 .. 3 /\ 1 \in 0 .. 3 /\ 0 + 1 = 1 /\ 1 + 1 = 2
    OBVIOUS
  <2>4. q1 \in Nat /\ q2 \in Nat /\ q1 = q2 * Octet + (q1 % Octet)
    BY <1>1, <1>q, <2>1, OneOctetLess
  <2>5. q0 \in Nat /\ q0 = q1 * Octet + (q0 % Octet)
    BY <1>1, <1>q, <2>1, OneOctetLess
  <2> QED BY <2>4, <2>5
<1>2. BigEndian(v, 2) = [i \in 1 .. 2 |-> (v \div Power[2 - i]) % Octet]
  BY DEF BigEndian
<1>b. PICK b : b = BigEndian(v, 2)
  OBVIOUS
<1>3. Len(b) = 2 /\ b[1] = q1 % Octet /\ b[2] = q0 % Octet /\ b = [i \in 1 .. 2 |-> b[i]]
  BY <1>2, <1>b, <1>q
<1>5. b \in Seq(Octets)
  <2>1. q1 % Octet \in 0 .. Octet - 1 /\ q0 % Octet \in 0 .. Octet - 1
    BY <1>4, <1>o, Division
  <2>2. \A i \in 1 .. 2 : i = 1 \/ i = 2
    OBVIOUS
  <2>3. \A i \in 1 .. 2 : b[i] \in Octets
    BY <1>3, <2>1, <2>2 DEF Octets
  <2> QED BY <1>3, <2>3
<1>6. q2 = 0
  BY <1>0, <1>1, <1>q, NoOctetLeft
<1>7. q0 = v
  BY <1>0, <1>1, <1>q
<1>8. q1 % Octet = q1
  <2>2. q1 % Octet \in Nat
    BY <1>4, <1>o, Division
  <2>3. 0 * Octet = 0
    BY <1>o
  <2> QED BY <1>4, <1>6, <2>2, <2>3
<1>9. Uint(b) = b[1] * Octet + b[2]
  BY <1>3, <1>5, UintOfTwo
<1>10. Uint(b) = v
  BY <1>3, <1>4, <1>7, <1>8, <1>9
<1> QED BY <1>10, <1>3, <1>5, <1>b

-----------------------------------------------------------------------------
(***************************************************************************)
(* Payloads, by their parts, and writes that passed their checks.          *)
(***************************************************************************)
\* The parts of two sequences in a row.
LEMMA PartsOf ==
  ASSUME NEW S, NEW s \in Seq(S), NEW t \in Seq(S), NEW n, n = Len(s)
  PROVE  UpTo(s \o t, n) = s /\ From(s \o t, n) = t
<1>x. PICK x : x = s \o t
  OBVIOUS
<1>1. /\ x \in Seq(S) /\ Len(x) = n + Len(t)
      /\ \A k \in 1 .. n : x[k] = s[k]
      /\ \A k \in 1 .. Len(t) : x[n + k] = t[k]
  BY <1>x, Joined
<1>n. n \in Nat /\ Len(t) \in Nat
  OBVIOUS
<1>2. UpTo(x, n) = s
  <2>1. Min({n, Len(x)}) = n
    <3>l. PICK l \in Nat : l = Len(x) /\ n <= l
      BY <1>1, <1>n
    <3> QED BY <1>n, <3>l, MinOfTwo
  <2>2. UpTo(x, n) = [i \in 1 .. n |-> x[i]]
    BY <2>1 DEF UpTo
  <2>3. [i \in 1 .. n |-> x[i]] = [i \in 1 .. n |-> s[i]]
    BY <1>1
  <2>4. s = [i \in 1 .. n |-> s[i]]
    OBVIOUS
  <2> QED BY <2>2, <2>3, <2>4
<1>3. From(x, n) = t
  <2>l. PICK l \in Nat : l = Len(x) /\ l = n + Len(t)
    BY <1>1, <1>n
  <2>0. n + 1 \in Nat /\ 1 <= n + 1 /\ n + 1 <= l + 1 /\ l <= Len(x) /\ l - (n + 1) + 1 = Len(t)
    BY <1>n, <2>l
  <2>y. PICK y : y = SubSeq(x, n + 1, l)
    OBVIOUS
  <2>1. /\ y \in Seq(S) /\ Len(y) = l - (n + 1) + 1
        /\ \A k \in 1 .. l - (n + 1) + 1 : y[k] = x[n + 1 + k - 1]
    BY <1>1, <2>0, <2>y, Piece
  <2>2. ASSUME NEW k \in 1 .. Len(y) PROVE y[k] = t[k]
    <3>1. k \in 1 .. Len(t) /\ k \in 1 .. l - (n + 1) + 1 /\ n + 1 + k - 1 = n + k
      BY <1>n, <2>0, <2>1
    <3> QED BY <1>1, <2>1, <3>1
  <2>3. y = t
    BY <2>0, <2>1, <2>2, SameElements
  <2> QED BY <2>3, <2>l, <2>y DEF From
<1> QED BY <1>2, <1>3, <1>x

\* What is before the padding.
LEMMA BeforePadding ==
  ASSUME NEW S, NEW s \in Seq(S), NEW t \in Seq(S), NEW n, n = Len(t)
  PROVE  UpTo(s \o t, Len(s \o t) - n) = s
<1>1. Len(s \o t) - n = Len(s)
  <2>1. Len(s \o t) = Len(s) + Len(t) /\ Len(s) \in Nat /\ Len(t) \in Nat
    BY Joined
  <2> QED BY <2>1
<1> QED BY <1>1, PartsOf

\* Three sequences in a row, from the left and from the right.
FromLeft(x, s, t, u) == x = (s \o t) \o u
FromRight(x, s, t, u) == x = s \o (t \o u)

\* They are the same.
LEMMA Grouped ==
  ASSUME NEW S, NEW s \in Seq(S), NEW t \in Seq(S), NEW u \in Seq(S),
         NEW x, FromLeft(x, s, t, u)
  PROVE  FromRight(x, s, t, u)
<1>p. PICK p, q : JoinOf(p, s, t) /\ JoinOf(q, t, u)
  BY Zenon DEF JoinOf
<1>1. JoinOf(x, p, u)
  BY <1>p, Zenon DEF FromLeft, JoinOf
<1>2. JoinOf(x, s, q)
  BY <1>1, <1>p, Regrouped
<1> QED BY <1>2, <1>p, Zenon DEF FromRight, JoinOf

\* Four sequences in a row.
InARow(x, a, b, c, d) == x = a \o b \o c \o d
Nested(x, a, b, c, d) == x = a \o (b \o (c \o d))

\* The same, from the left and from the right.
LEMMA FourParts ==
  ASSUME NEW S, NEW a \in Seq(S), NEW b \in Seq(S), NEW c \in Seq(S), NEW d \in Seq(S),
         NEW x, InARow(x, a, b, c, d)
  PROVE  Nested(x, a, b, c, d)
<1>1. a \o b \in Seq(S) /\ c \o d \in Seq(S)
  BY Joined
<1>p. PICK p \in Seq(S), q \in Seq(S) : p = a \o b /\ q = c \o d
  BY <1>1
<1>2. FromLeft(x, p, c, d)
  BY <1>p, Zenon DEF FromLeft, InARow
<1>3. FromRight(x, p, c, d)
  BY <1>2, Grouped
<1>4. FromLeft(x, a, b, q)
  BY <1>3, <1>p, Zenon DEF FromLeft, FromRight
<1>5. FromRight(x, a, b, q)
  BY <1>4, Grouped
<1> QED BY <1>5, <1>p, Zenon DEF FromRight, Nested

\* The length of the padding, if there is one, and what comes after it.
LEMMA PadOctet ==
  ASSUME NEW w, NEW padded \in BOOLEAN, padded <=> PADDED \in w.flags,
         NEW n \in Nat, padded \/ n = 0, NEW body \in Seq(Nat),
         w.payload = (IF padded THEN <<n>> ELSE <<>>) \o body
  PROVE  PadLength(w) = n /\ AfterPadLength(w) = body
<1>1. CASE padded
  <2>0. <<n>> \in Seq(Nat) /\ Len(<<n>>) = 1 /\ <<n>>[1] = n
    OBVIOUS
  <2>x. PICK x \in Seq(Nat) : x = <<n>> /\ Len(x) = 1 /\ x[1] = n
    BY <2>0
  <2>p. PICK p : p = x \o body
    OBVIOUS
  <2>1. /\ p \in Seq(Nat) /\ Len(p) = 1 + Len(body)
        /\ \A k \in 1 .. 1 : p[k] = x[k]
        /\ \A k \in 1 .. Len(body) : p[1 + k] = body[k]
    BY <2>p, <2>x, Joined
  <2>2. w.payload = p
    BY <1>1, <2>p, <2>x
  <2>3. p[1] = n /\ p # <<>>
    <3>1. 1 \in 1 .. 1
      OBVIOUS
    <3>2. Len(p) # 0
      BY <2>1
    <3> QED BY <2>1, <2>x, <3>1, <3>2
  <2>4. Tail(p) = body
    <3>1. /\ Tail(p) \in Seq(Nat) /\ Len(Tail(p)) = Len(p) - 1
          /\ \A i \in 1 .. Len(p) - 1 : Tail(p)[i] = p[i + 1]
      BY <2>1, <2>3
    <3>2. Len(Tail(p)) = Len(body) /\ Len(body) \in Nat
      BY <2>1, <3>1
    <3>3. ASSUME NEW k \in 1 .. Len(Tail(p)) PROVE Tail(p)[k] = body[k]
      <4>1. k \in 1 .. Len(p) - 1 /\ k \in 1 .. Len(body) /\ k + 1 = 1 + k
        BY <3>1, <3>2
      <4> QED BY <2>1, <3>1, <4>1
    <3> QED BY <3>1, <3>2, <3>3, SameElements
  <2> QED BY <1>1, <2>2, <2>3, <2>4 DEF PadLength, AfterPadLength
<1>2. CASE ~ padded
  <2>1. w.payload = body
    <3>1. w.payload = <<>> \o body
      BY <1>2
    <3> QED BY <3>1
  <2> QED BY <1>2, <2>1 DEF PadLength, AfterPadLength
<1> QED BY <1>1, <1>2

\* A frame on the wire, by its parts.
WireFrame(type, flags, stream, payload) ==
  [type |-> type, flags |-> flags, stream |-> stream, payload |-> payload]

\* What is written without an error.
LEMMA WrittenFrame ==
  ASSUME NEW checks, NEW type, NEW flags, NEW stream, NEW payload,
         NEW r, r = WriteFrame(checks, type, flags, stream, payload), r.err = NoError
  PROVE  r.frame = WireFrame(type, flags, stream, payload)
<1>e. PICK e : e = FirstError(Append(checks,
                     <<Len(payload) > maxFrameSize, OtherError("ErrFrameTooLarge")>>))
  OBVIOUS
<1>1. r = [err |-> e,
           frame |-> IF e # NoError THEN NoFrame
                     ELSE [type |-> type, flags |-> flags, stream |-> stream,
                           payload |-> payload]]
  BY <1>e DEF WriteFrame
<1>2. e = NoError
  BY <1>1
<1> QED BY <1>1, <1>2 DEF WireFrame

\* A write without error has passed its checks.
LEMMA WritePassed ==
  ASSUME NEW S, NEW checks \in Seq(S), \A i \in 1 .. Len(checks) : Failure(checks[i][2]),
         NEW type, NEW flags, NEW stream, NEW payload,
         NEW r, r = WriteFrame(checks, type, flags, stream, payload), r.err = NoError
  PROVE  /\ r.frame = WireFrame(type, flags, stream, payload)
         /\ \A i \in 1 .. Len(checks) : ~ checks[i][1]
<1>t. PICK t : t = <<Len(payload) > maxFrameSize, OtherError("ErrFrameTooLarge")>>
  OBVIOUS
<1>a. PICK all : all = Append(checks, t)
  OBVIOUS
<1>e. PICK e : e = FirstError(all)
  OBVIOUS
<1>1. r = [err |-> e,
           frame |-> IF e # NoError THEN NoFrame
                     ELSE [type |-> type, flags |-> flags, stream |-> stream,
                           payload |-> payload]]
  BY <1>a, <1>e, <1>t DEF WriteFrame
<1>2. e = NoError
  BY <1>1
<1>n. PICK n \in Nat : n = Len(checks)
  OBVIOUS
<1>3. /\ DOMAIN all = 1 .. n + 1 /\ all[n + 1] = t
      /\ \A i \in 1 .. n : all[i] = checks[i]
  <2>c. PICK T : S \subseteq T /\ t \in T
    BY S \subseteq S \cup {t} /\ t \in S \cup {t}
  <2>1. checks \in Seq(T)
    BY <2>c
  <2> QED BY <1>a, <1>n, <2>1, <2>c, AppendProperties
<1>4. ASSUME NEW i \in 1 .. n, checks[i][1] PROVE FALSE
  <2>f. PICK failing : failing = {k \in DOMAIN all : all[k][1]}
    OBVIOUS
  <2>1. i \in failing /\ failing \subseteq Nat
    BY <1>3, <1>4, <2>f
  <2>2. PICK x \in failing : \A y \in failing : x <= y
    BY <2>1, LeastNatural
  <2>3. Min(failing) = x /\ x <= i
    BY <2>1, <2>2, MinIs
  <2>4. e = all[x][2]
    BY <1>e, <2>1, <2>3, <2>f DEF FirstError
  <2>5. x \in 1 .. n /\ all[x] = checks[x]
    <3>1. x \in 1 .. n + 1
      BY <1>3, <2>2, <2>f
    <3>2. x \in 1 .. n
      BY <1>4, <2>3, <3>1
    <3> QED BY <1>3, <3>2
  <2>6. Failure(e)
    BY <1>n, <2>4, <2>5
  <2> QED BY <1>2, <2>6 DEF Failure, NoError
<1> QED BY <1>1, <1>2, <1>4, <1>n DEF WireFrame

\* One check, or two, by name.
OneCheck(s, a, e) == s = << <<a, e>> >>
TwoChecks(s, a, e, b, f) == s = << <<a, e>>, <<b, f>> >>

\* One check.
LEMMA WritePassedOne ==
  ASSUME NEW a \in BOOLEAN, NEW e, Failure(e), NEW type, NEW flags, NEW stream, NEW payload,
         NEW s, OneCheck(s, a, e),
         NEW r, r = WriteFrame(s, type, flags, stream, payload), r.err = NoError
  PROVE  /\ r.frame = WireFrame(type, flags, stream, payload)
         /\ ~ a
<1>1. s \in Seq({<<a, e>>}) /\ Len(s) = 1 /\ s[1][1] = a /\ s[1][2] = e
  BY DEF OneCheck
<1>2. \A i \in 1 .. 1 : i = 1
  OBVIOUS
<1>3. \A i \in 1 .. Len(s) : Failure(s[i][2])
  BY <1>1, <1>2
<1>4. 1 \in 1 .. Len(s)
  BY <1>1
<1>5. /\ r.frame = WireFrame(type, flags, stream, payload)
      /\ \A i \in 1 .. Len(s) : ~ s[i][1]
  BY <1>1, <1>3, WritePassed
<1> QED BY <1>1, <1>4, <1>5

\* Two checks.
LEMMA WritePassedTwo ==
  ASSUME NEW a \in BOOLEAN, NEW e, NEW b \in BOOLEAN, NEW f, Failure(e), Failure(f),
         NEW type, NEW flags, NEW stream, NEW payload,
         NEW s, TwoChecks(s, a, e, b, f),
         NEW r, r = WriteFrame(s, type, flags, stream, payload), r.err = NoError
  PROVE  /\ r.frame = WireFrame(type, flags, stream, payload)
         /\ ~ a /\ ~ b
<1>1. /\ s \in Seq({<<a, e>>, <<b, f>>}) /\ Len(s) = 2
      /\ s[1][1] = a /\ s[1][2] = e /\ s[2][1] = b /\ s[2][2] = f
  BY DEF TwoChecks
<1>2. \A i \in 1 .. 2 : i = 1 \/ i = 2
  OBVIOUS
<1>3. \A i \in 1 .. Len(s) : Failure(s[i][2])
  BY <1>1, <1>2
<1>4. 1 \in 1 .. Len(s) /\ 2 \in 1 .. Len(s)
  BY <1>1
<1>5. /\ r.frame = WireFrame(type, flags, stream, payload)
      /\ \A i \in 1 .. Len(s) : ~ s[i][1]
  BY <1>1, <1>3, WritePassed
<1> QED BY <1>1, <1>4, <1>5

\* Octets are numbers.
LEMMA OctetString == ASSUME NEW s \in Seq(Octets) PROVE s \in Seq(Nat)
<1>1. Octets \subseteq Nat
  BY OctetAssumption DEF Octets
<1>2. ASSUME NEW i \in 1 .. Len(s) PROVE s[i] \in Nat
  <2>1. s[i] \in Octets
    OBVIOUS
  <2> QED BY <1>1, <2>1
<1>3. s = [i \in 1 .. Len(s) |-> s[i]] /\ Len(s) \in Nat
  OBVIOUS
<1> QED BY <1>2, <1>3

-----------------------------------------------------------------------------
(***************************************************************************)
(* Frames that are read as what the call said, one lemma per frame type.   *)
(***************************************************************************)
\* A frame says what the call said.
AsCalled(f, c) ==
  /\ f.type = c.type /\ f.stream = Masked(c.stream)
  /\ Own(f.flags) = c.flags /\ Said(f) = Said(c)

\* What was written and then parsed, without an error.
Passes(c, r, p) ==
  /\ r = WriteOf(c, FALSE) /\ r.err = NoError
  /\ p = ParseFrame(r.frame) /\ p.err = NoError

\* The bits of a method's parameters, and those that it sets for padding and priority.
LEMMA OwnBits ==
  ASSUME NEW flags, flags \subseteq {END_STREAM, ACK, END_HEADERS}
  PROVE  /\ Own(flags) = flags /\ Own(flags \cup {PADDED}) = flags
         /\ Own(flags \cup {PRIORITY}) = flags /\ Own(flags \cup {PADDED} \cup {PRIORITY}) = flags
         /\ PADDED \notin flags /\ PRIORITY \notin flags /\ PADDED # PRIORITY
BY DEF Own, END_STREAM, ACK, END_HEADERS, PADDED, PRIORITY

\* Identifiers without the reserved bit.
LEMMA MaskedIs ==
  /\ HighBit \in Nat /\ HighBit > 0 /\ 2 * HighBit = Power[4]
  /\ \A v \in 0 .. HighBit - 1 : Masked(v) = v /\ Masked(v + HighBit) = v /\ v \in Uint32
                                 /\ v + HighBit \in Uint32
  /\ \A v \in Nat : Masked(v) \in 0 .. HighBit - 1
<1>h. PICK h \in Nat : h = HighBit /\ h > 0
  BY HighBitPositive
<1>1. 2 * h = Power[4]
  <2>o. Octet \in Nat /\ Octet % 2 = 0
    BY OctetAssumption
  <2>p. PICK p \in Nat : p = Power[3]
    BY PowerSmall
  <2>1. Power[4] = Octet * p
    <3>1. Power[3 + 1] = Octet * Power[3]
      BY PowerIs
    <3> QED BY <2>p, <3>1
  <2>k. PICK k \in Nat : Octet = 2 * k
    <3>1. Octet \div 2 \in Nat /\ Octet = 2 * (Octet \div 2)
      BY <2>o
    <3> QED BY <3>1
  <2>m. PICK m \in Nat : m = k * p
    <3>1. k * p \in Nat
      OBVIOUS
    <3> QED BY <3>1
  <2>2. Power[4] = 2 * m
    BY <2>1, <2>k, <2>m
  <2>3. HighBit = m
    BY <2>2 DEF HighBit
  <2> QED BY <1>h, <2>2, <2>3
<1>2. ASSUME NEW v \in 0 .. h - 1 PROVE v % h = v /\ (v + h) % h = v
  <2>1. v \in Nat /\ v + h \in Nat /\ v < h /\ v = 0 * h + v /\ v + h = 1 * h + v
    OBVIOUS
  <2> QED BY <1>h, <2>1, QuotientIs
<1>3. ASSUME NEW v \in Nat PROVE v % h \in 0 .. h - 1
  BY <1>h, Division
<1>4. \A v \in 0 .. h - 1 : v \in Uint32 /\ v + h \in Uint32
  BY <1>1, <1>h DEF Uint32
<1> QED BY <1>1, <1>2, <1>3, <1>4, <1>h DEF Masked

\* The first four octets of a payload.
LEMMA FirstFour ==
  ASSUME NEW v \in Uint32, NEW t \in Seq(Nat), NEW p, p = BigEndian(v, 4) \o t
  PROVE  Uint(UpTo(p, 4)) = v /\ From(p, 4) = t
<1>b. PICK b \in Seq(Nat) : b = BigEndian(v, 4) /\ Len(b) = 4 /\ Uint(b) = v
  <2>1. /\ BigEndian(v, 4) \in Seq(Octets) /\ Len(BigEndian(v, 4)) = 4
        /\ Uint(BigEndian(v, 4)) = v
    BY BigEndianFour
  <2>2. BigEndian(v, 4) \in Seq(Nat)
    BY <2>1, OctetString
  <2> QED BY <2>1, <2>2
<1>1. UpTo(b \o t, 4) = b /\ From(b \o t, 4) = t
  BY <1>b, PartsOf
<1>2. p = b \o t
  BY <1>b, Zenon
<1> QED BY <1>1, <1>2, <1>b

\* Four octets and no more.
LEMMA OnlyFour ==
  ASSUME NEW v \in Uint32
  PROVE  Uint(UpTo(BigEndian(v, 4), 4)) = v /\ Uint(BigEndian(v, 4)) = v
<1>1. /\ BigEndian(v, 4) \in Seq(Octets) /\ Len(BigEndian(v, 4)) = 4
      /\ Uint(BigEndian(v, 4)) = v
  BY BigEndianFour
<1>b. PICK b \in Seq(Octets) : b = BigEndian(v, 4) /\ Len(b) = 4 /\ Uint(b) = v
  BY <1>1
<1>2. b \o <<>> = b
  OBVIOUS
<1>3. UpTo(b \o <<>>, 4) = b
  <2>0. <<>> \in Seq(Octets)
    OBVIOUS
  <2>e. PICK e \in Seq(Octets) : e = <<>>
    BY <2>0
  <2>1. UpTo(b \o e, 4) = b
    BY <1>b, PartsOf
  <2> QED BY <2>1, <2>e
<1>4. UpTo(b, 4) = b
  BY <1>2, <1>3
<1> QED BY <1>4, <1>b, Zenon

\* WriteContinuation and parseContinuationFrame.
LEMMA ContinuationSurvives ==
  ASSUME NEW c, IsCall(c), c.type = "CONTINUATION", NEW r, NEW p, Passes(c, r, p)
  PROVE  AsCalled(p.frame, c)
<1>0. c.flags \subseteq {END_HEADERS} /\ c.val \in [frag : Seq(Octets)]
  BY DEF IsCall
<1>n. r.err = NoError /\ p.err = NoError
  BY DEF Passes
<1>1. r = WriteContinuation(c, FALSE)
  BY DEF Passes, WriteOf
<1>2. r.frame = WireFrame("CONTINUATION", c.flags, c.stream, c.val.frag)
  <2>1. \E checks : r = WriteFrame(checks, "CONTINUATION", c.flags, c.stream, c.val.frag)
    BY <1>1, Zenon DEF WriteContinuation
  <2> QED BY <1>n, <2>1, WrittenFrame
<1>w. PICK w : w = r.frame /\ p = ParseFrame(w)
  BY DEF Passes
<1>t. w.type = c.type
  BY <1>2, <1>w DEF WireFrame
<1>3. p = parseContinuationFrame(w)
  BY <1>t, <1>w DEF ParseFrame
<1>4. p.frame = [type |-> w.type, flags |-> w.flags, stream |-> Masked(w.stream),
                 val |-> [frag |-> w.payload]]
  BY <1>3, <1>n, ParsedValue DEF parseContinuationFrame
<1>5. p.frame = [type |-> "CONTINUATION", flags |-> c.flags, stream |-> Masked(c.stream),
                 val |-> [frag |-> c.val.frag]]
  BY <1>2, <1>4, <1>w DEF WireFrame
<1>6. Own(c.flags) = c.flags
  BY <1>0, OwnBits
<1>7. c.val = [frag |-> c.val.frag]
  BY <1>0
<1> QED BY <1>5, <1>6, <1>7 DEF AsCalled, Said

\* WriteRSTStream and parseRSTStreamFrame.
LEMMA RSTStreamSurvives ==
  ASSUME NEW c, IsCall(c), c.type = "RST_STREAM", NEW r, NEW p, Passes(c, r, p)
  PROVE  AsCalled(p.frame, c)
<1>0. c.flags = {} /\ c.val \in [code : Uint32]
  BY DEF IsCall
<1>v. PICK v \in Uint32 : v = c.val.code /\ c.val = [code |-> v]
  BY <1>0
<1>n. r.err = NoError /\ p.err = NoError
  BY DEF Passes
<1>1. r = WriteRSTStream(c, FALSE)
  BY DEF Passes, WriteOf
<1>2. r.frame = WireFrame("RST_STREAM", {}, c.stream, BigEndian(v, 4))
  <2>1. \E checks : r = WriteFrame(checks, "RST_STREAM", {}, c.stream, BigEndian(v, 4))
    BY <1>1, <1>v, Zenon DEF WriteRSTStream
  <2> QED BY <1>n, <2>1, WrittenFrame
<1>w. PICK w : w = r.frame /\ p = ParseFrame(w)
  BY DEF Passes
<1>t. w.type = c.type
  BY <1>2, <1>w DEF WireFrame
<1>3. p = parseRSTStreamFrame(w)
  BY <1>t, <1>w DEF ParseFrame
<1>4. p.frame = [type |-> w.type, flags |-> w.flags, stream |-> Masked(w.stream),
                 val |-> [code |-> Uint(w.payload)]]
  BY <1>3, <1>n, ParsedValue DEF parseRSTStreamFrame
<1>u. Uint(BigEndian(v, 4)) = v
  BY OnlyFour
<1>5. p.frame = [type |-> "RST_STREAM", flags |-> {}, stream |-> Masked(c.stream),
                 val |-> [code |-> v]]
  BY <1>2, <1>4, <1>u, <1>w DEF WireFrame
<1>6. Own({}) = {}
  BY OwnBits
<1> QED BY <1>0, <1>5, <1>6, <1>v DEF AsCalled, Said

\* WritePing and parsePingFrame.
LEMMA PingSurvives ==
  ASSUME NEW c, IsCall(c), c.type = "PING", NEW r, NEW p, Passes(c, r, p)
  PROVE  AsCalled(p.frame, c)
<1>0. c.stream = 0 /\ c.flags \subseteq {ACK} /\ c.val \in [data : [1 .. 8 -> Octets]]
  BY DEF IsCall
<1>n. r.err = NoError /\ p.err = NoError
  BY DEF Passes
<1>1. r = WritePing(c)
  BY DEF Passes, WriteOf
<1>2. r.frame = WireFrame("PING", c.flags, 0, c.val.data)
  <2>2. r = WriteFrame(<<>>, "PING", c.flags, 0, c.val.data)
    BY <1>1 DEF WritePing
  <2> QED BY <1>n, <2>2, WrittenFrame
<1>w. PICK w : w = r.frame /\ p = ParseFrame(w)
  BY DEF Passes
<1>t. w.type = c.type
  BY <1>2, <1>w DEF WireFrame
<1>3. p = parsePingFrame(w)
  BY <1>t, <1>w DEF ParseFrame
<1>4. p.frame = [type |-> w.type, flags |-> w.flags, stream |-> Masked(w.stream),
                 val |-> [data |-> w.payload]]
  BY <1>3, <1>n, ParsedValue DEF parsePingFrame
<1>5. p.frame = [type |-> "PING", flags |-> c.flags, stream |-> Masked(0),
                 val |-> [data |-> c.val.data]]
  BY <1>2, <1>4, <1>w DEF WireFrame
<1>6. Own(c.flags) = c.flags
  BY <1>0, OwnBits
<1>7. c.val = [data |-> c.val.data]
  BY <1>0
<1> QED BY <1>0, <1>5, <1>6, <1>7 DEF AsCalled, Said

\* WriteWindowUpdate and parseWindowUpdateFrame.
LEMMA WindowUpdateSurvives ==
  ASSUME NEW c, IsCall(c), c.type = "WINDOW_UPDATE", NEW r, NEW p, Passes(c, r, p)
  PROVE  AsCalled(p.frame, c)
<1>0. c.flags = {} /\ c.val \in [increment : Uint32]
  BY DEF IsCall
<1>v. PICK v \in Uint32 : v = c.val.increment /\ c.val = [increment |-> v]
  BY <1>0
<1>n. r.err = NoError /\ p.err = NoError
  BY DEF Passes
<1>1. r = WriteWindowUpdate(c, FALSE)
  BY DEF Passes, WriteOf
<1>2. /\ r.frame = WireFrame("WINDOW_UPDATE", {}, c.stream, BigEndian(v, 4))
      /\ v \in 1 .. HighBit - 1
  <2>a. PICK a \in BOOLEAN : a = (v \notin 1 .. HighBit - 1 /\ ~FALSE)
    OBVIOUS
  <2>e. PICK e : e = OtherError("errWindowIncrement")
    OBVIOUS
  <2>s. PICK s : OneCheck(s, a, e)
    BY DEF OneCheck
  <2>1. r = WriteFrame(s, "WINDOW_UPDATE", {}, c.stream, BigEndian(v, 4))
    BY <1>1, <1>v, <2>a, <2>e, <2>s, Zenon DEF WriteWindowUpdate, OneCheck
  <2>2. Failure(e)
    BY <2>e, Failures
  <2>3. r.frame = WireFrame("WINDOW_UPDATE", {}, c.stream, BigEndian(v, 4)) /\ ~ a
    BY <1>n, <2>1, <2>2, <2>s, WritePassedOne
  <2> QED BY <2>3, <2>a
<1>w. PICK w : w = r.frame /\ p = ParseFrame(w)
  BY DEF Passes
<1>t. w.type = c.type
  BY <1>2, <1>w DEF WireFrame
<1>3. p = parseWindowUpdateFrame(w)
  BY <1>t, <1>w DEF ParseFrame
<1>4. p.frame = [type |-> w.type, flags |-> w.flags, stream |-> Masked(w.stream),
                 val |-> [increment |-> Masked(Uint(UpTo(w.payload, 4)))]]
  <2>1. \E checks : p = Parse(checks, w, [increment |-> Masked(Uint(UpTo(w.payload, 4)))])
    BY <1>3, Zenon DEF parseWindowUpdateFrame
  <2> QED BY <1>n, <2>1, ParsedValue
<1>u. Uint(UpTo(BigEndian(v, 4), 4)) = v /\ Masked(v) = v
  <2>1. v \in 0 .. HighBit - 1
    BY <1>2, MaskedIs
  <2> QED BY <2>1, OnlyFour, MaskedIs
<1>5. p.frame = [type |-> "WINDOW_UPDATE", flags |-> {}, stream |-> Masked(c.stream),
                 val |-> [increment |-> v]]
  BY <1>2, <1>4, <1>u, <1>w DEF WireFrame
<1>6. Own({}) = {}
  BY OwnBits
<1> QED BY <1>0, <1>5, <1>6, <1>v DEF AsCalled, Said

\* The octets of a priority whose dependency is an identifier.
LEMMA PriorityIs ==
  ASSUME NEW prio \in PriorityParam, prio.dep < HighBit, NEW t \in Seq(Nat)
  PROVE  /\ PriorityOctets(prio) \in Seq(Nat) /\ Len(PriorityOctets(prio)) = 5
         /\ Priority(PriorityOctets(prio) \o t) = prio
<1>h. PICK h \in Nat : h = HighBit /\ h > 0
  BY MaskedIs
<1>d. PICK d \in 0 .. h - 1 : d = prio.dep
  <2>1. Power[4] \in Nat /\ prio.dep \in 0 .. Power[4] - 1
    BY PowerSmall DEF PriorityParam, Uint32
  <2> QED BY <1>h, <2>1
<1>e. PICK exclusive \in BOOLEAN : exclusive = prio.exclusive
  BY DEF PriorityParam
<1>g. PICK weight \in Nat : weight = prio.weight
  <2>1. prio.weight \in Octets /\ Octets \subseteq Nat
    BY OctetAssumption DEF PriorityParam, Octets
  <2> QED BY <2>1
<1>p. prio = [dep |-> d, exclusive |-> exclusive, weight |-> weight]
  BY <1>d, <1>e, <1>g DEF PriorityParam
<1>m. Masked(d) = d /\ Masked(d + h) = d /\ d \in Uint32 /\ d + h \in Uint32 /\ d \in Nat
  <2>1. d \in 0 .. HighBit - 1 /\ d \in Nat
    BY <1>h
  <2>2. /\ Masked(d) = d /\ Masked(d + HighBit) = d /\ d \in Uint32
        /\ d + HighBit \in Uint32
    BY <2>1, MaskedIs
  <2> QED BY <1>h, <2>1, <2>2
<1>v. PICK v \in Uint32 : v = IF exclusive THEN d + h ELSE d
  BY <1>m
<1>1. Masked(v) = d /\ (v >= h <=> exclusive)
  <2>1. d < h /\ d + h >= h /\ ~ (d >= h)
    BY <1>h
  <2> QED BY <1>m, <1>v, <2>1
<1>b. PICK b \in Seq(Nat) : b = BigEndian(v, 4) /\ Len(b) = 4
  <2>1. BigEndian(v, 4) \in Seq(Octets) /\ Len(BigEndian(v, 4)) = 4
    BY BigEndianFour
  <2> QED BY <2>1, OctetString
<1>x. PICK x \in Seq(Nat) : x = <<weight>> /\ Len(x) = 1 /\ x[1] = weight
  <2>0. <<weight>> \in Seq(Nat) /\ Len(<<weight>>) = 1 /\ <<weight>>[1] = weight
    OBVIOUS
  <2> QED BY <2>0
<1>l. Len(b) = 4 /\ Len(x) = 1
  BY <1>b, <1>x
<1>o. PriorityOctets(prio) = b \o x
  <2>1. (IF prio.exclusive THEN Masked(prio.dep) + HighBit ELSE prio.dep) = v
    BY <1>d, <1>e, <1>h, <1>m, <1>v
  <2> QED BY <1>b, <1>g, <1>x, <2>1, Zenon DEF PriorityOctets
<1>3. b \o x \in Seq(Nat) /\ Len(b \o x) = 5
  <2>1. b \o x \in Seq(Nat) /\ Len(b \o x) = Len(b) + Len(x)
    BY Joined
  <2> QED BY <1>l, <2>1
<1>4. x \o t \in Seq(Nat) /\ (b \o x) \o t = b \o (x \o t)
  <2>1. x \o t \in Seq(Nat)
    BY Joined
  <2>y. PICK y : y = (b \o x) \o t /\ FromLeft(y, b, x, t)
    BY Zenon DEF FromLeft
  <2>r. FromRight(y, b, x, t)
    BY <2>y, Grouped
  <2>2. (b \o x) \o t = b \o (x \o t)
    BY <2>r, <2>y, Zenon DEF FromRight
  <2> QED BY <2>1, <2>2
<1>q. PICK q : q = (b \o x) \o t
  OBVIOUS
<1>5. Uint(UpTo(q, 4)) = v
  BY <1>4, <1>b, <1>q, FirstFour
<1>6. q[5] = weight
  <2>y. PICK y : y = b \o x
    OBVIOUS
  <2>0. \A k \in 1 .. Len(x) : (b \o x)[Len(b) + k] = x[k]
    BY Joined
  <2>1. y \in Seq(Nat) /\ Len(y) = 5 /\ \A k \in 1 .. Len(x) : y[Len(b) + k] = x[k]
    BY <1>3, <2>0, <2>y
  <2>2. \A k \in 1 .. Len(y) : q[k] = y[k]
    BY <1>q, <2>1, <2>y, Joined
  <2>3. 1 \in 1 .. Len(x) /\ 5 \in 1 .. Len(y) /\ Len(b) + 1 = 5
    BY <1>l, <2>1
  <2> QED BY <1>x, <2>1, <2>2, <2>3
<1>7. Priority(q) = [dep |-> Masked(v), exclusive |-> v >= HighBit, weight |-> weight]
  BY <1>5, <1>6 DEF Priority
<1>8. Priority(q) = prio
  <2>1. (v >= HighBit) = exclusive
    BY <1>1, <1>h
  <2> QED BY <1>1, <1>7, <1>p, <2>1
<1> QED BY <1>3, <1>8, <1>o, <1>q

\* WritePriority and parsePriorityFrame.
LEMMA PrioritySurvives ==
  ASSUME NEW c, IsCall(c), c.type = "PRIORITY", NEW r, NEW p, Passes(c, r, p)
  PROVE  AsCalled(p.frame, c)
<1>0. c.flags = {} /\ c.val \in [priority : PriorityParam]
  BY DEF IsCall
<1>v. PICK prio \in PriorityParam : prio = c.val.priority /\ c.val = [priority |-> prio]
  BY <1>0
<1>n. r.err = NoError /\ p.err = NoError
  BY DEF Passes
<1>1. r = WritePriority(c, FALSE)
  BY DEF Passes, WriteOf
<1>2. /\ r.frame = WireFrame("PRIORITY", {}, c.stream, PriorityOctets(prio))
      /\ prio.dep < HighBit
  <2>a. PICK a \in BOOLEAN : a = (~validStreamID(c.stream) /\ ~FALSE)
    OBVIOUS
  <2>b. PICK b \in BOOLEAN : b = ~validStreamIDOrZero(prio.dep)
    OBVIOUS
  <2>s. PICK s : TwoChecks(s, a, errStreamID, b, errDepStreamID)
    BY DEF TwoChecks
  <2>1. r = WriteFrame(s, "PRIORITY", {}, c.stream, PriorityOctets(prio))
    BY <1>1, <1>v, <2>a, <2>b, <2>s, Zenon DEF WritePriority, TwoChecks
  <2>2. Failure(errStreamID) /\ Failure(errDepStreamID)
    BY Failures DEF errStreamID, errDepStreamID
  <2>3. r.frame = WireFrame("PRIORITY", {}, c.stream, PriorityOctets(prio)) /\ ~ b
    BY <1>n, <2>1, <2>2, <2>s, WritePassedTwo
  <2> QED BY <2>3, <2>b DEF validStreamIDOrZero
<1>w. PICK w : w = r.frame /\ p = ParseFrame(w)
  BY DEF Passes
<1>t. w.type = c.type
  BY <1>2, <1>w DEF WireFrame
<1>3. p = parsePriorityFrame(w)
  BY <1>t, <1>w DEF ParseFrame
<1>4. p.frame = [type |-> w.type, flags |-> w.flags, stream |-> Masked(w.stream),
                 val |-> [priority |-> Priority(w.payload)]]
  BY <1>3, <1>n, ParsedValue DEF parsePriorityFrame
<1>u. Priority(PriorityOctets(prio)) = prio
  <2>e. PICK e \in Seq(Nat) : e = <<>>
    <3>1. <<>> \in Seq(Nat)
      OBVIOUS
    <3> QED BY <3>1
  <2>o. PICK o : o = PriorityOctets(prio)
    OBVIOUS
  <2>1. o \in Seq(Nat) /\ Priority(o \o e) = prio
    BY <1>2, <2>o, PriorityIs
  <2>2. o \o e = o
    BY <2>1, <2>e
  <2> QED BY <2>1, <2>2, <2>o
<1>5. p.frame = [type |-> "PRIORITY", flags |-> {}, stream |-> Masked(c.stream),
                 val |-> [priority |-> prio]]
  BY <1>2, <1>4, <1>u, <1>w DEF WireFrame
<1>6. Own({}) = {}
  BY OwnBits
<1> QED BY <1>0, <1>5, <1>6, <1>v DEF AsCalled, Said

\* WriteGoAway and parseGoAwayFrame, as far as it parses.
LEMMA GoAwaySurvives ==
  ASSUME NEW c, IsCall(c), c.type = "GOAWAY", NEW r, NEW p, Passes(c, r, p)
  PROVE  AsCalled(p.frame, c)
<1>0. c.stream = 0 /\ c.flags = {} /\ c.val \in [last : Uint32, code : Uint32, debug : Seq(Octets)]
  BY DEF IsCall
<1>v. PICK last \in Uint32, code \in Uint32, debug \in Seq(Octets) :
        last = c.val.last /\ code = c.val.code /\ debug = c.val.debug
  BY <1>0
<1>m. PICK m \in Uint32 : m = Masked(last) /\ Masked(m) = m
  <2>1. last \in Nat
    BY PowerSmall DEF Uint32
  <2>2. Masked(last) \in 0 .. HighBit - 1
    BY <2>1, MaskedIs
  <2> QED BY <2>2, MaskedIs
<1>x. PICK x \in Seq(Nat), y \in Seq(Nat), z \in Seq(Nat) :
        /\ x = BigEndian(m, 4) /\ y = BigEndian(code, 4) /\ z = debug
        /\ Len(x) = 4 /\ Len(y) = 4
  <2>1. /\ BigEndian(m, 4) \in Seq(Octets) /\ Len(BigEndian(m, 4)) = 4
        /\ BigEndian(code, 4) \in Seq(Octets) /\ Len(BigEndian(code, 4)) = 4
    BY BigEndianFour
  <2> QED BY <2>1, OctetString
<1>l. Len(x) = 4 /\ Len(y) = 4
  BY <1>x
<1>n. r.err = NoError /\ p.err = NoError
  BY DEF Passes
<1>1. r = WriteGoAway(c)
  BY DEF Passes, WriteOf
<1>2. r.frame = WireFrame("GOAWAY", {}, 0, x \o y \o z)
  <2>1. r = WriteFrame(<<>>, "GOAWAY", {}, 0, x \o y \o z)
    BY <1>1, <1>m, <1>v, <1>x, Zenon DEF WriteGoAway
  <2> QED BY <1>n, <2>1, WrittenFrame
<1>w. PICK w : w = r.frame /\ p = ParseFrame(w)
  BY DEF Passes
<1>t. w.type = c.type
  BY <1>2, <1>w DEF WireFrame
<1>3. p = parseGoAwayFrame(w)
  BY <1>t, <1>w DEF ParseFrame
<1>4. p.frame = [type |-> w.type, flags |-> w.flags, stream |-> Masked(w.stream),
                 val |-> [last |-> Masked(Uint(UpTo(w.payload, 4))),
                          code |-> Uint(UpTo(w.payload, 4)), debug |-> From(w.payload, 8)]]
  BY <1>3, <1>n, ParsedValue DEF parseGoAwayFrame
<1>q. PICK q : q = x \o y \o z
  OBVIOUS
<1>u. Uint(UpTo(q, 4)) = m
  <2>1. y \o z \in Seq(Nat) /\ q = x \o (y \o z)
    <3>1. y \o z \in Seq(Nat)
      BY Joined
    <3>v. PICK v : v = (x \o y) \o z /\ FromLeft(v, x, y, z)
      BY Zenon DEF FromLeft
    <3>r. FromRight(v, x, y, z)
      BY <3>v, Grouped
    <3>2. (x \o y) \o z = x \o (y \o z)
      BY <3>r, <3>v, Zenon DEF FromRight
    <3> QED BY <1>q, <3>1, <3>2
  <2> QED BY <1>x, <2>1, FirstFour
<1>d. From(q, 8) = z
  <2>1. x \o y \in Seq(Nat) /\ Len(x \o y) = 8
    <3>1. x \o y \in Seq(Nat) /\ Len(x \o y) = Len(x) + Len(y)
      BY Joined
    <3> QED BY <1>l, <3>1
  <2>y. PICK e \in Seq(Nat) : e = x \o y /\ Len(e) = 8
    BY <2>1
  <2>2. From(e \o z, 8) = z
    BY <2>y, PartsOf
  <2> QED BY <1>q, <2>2, <2>y
<1>f. w = WireFrame("GOAWAY", {}, 0, q)
  BY <1>2, <1>q, <1>w
<1>5. p.frame = [type |-> "GOAWAY", flags |-> {}, stream |-> Masked(0),
                 val |-> [last |-> m, code |-> m, debug |-> z]]
  BY <1>4, <1>d, <1>f, <1>m, <1>u DEF WireFrame
<1>6. Own({}) = {}
  BY OwnBits
<1> QED BY <1>0, <1>5, <1>6, <1>m, <1>v, <1>x DEF AsCalled, Said

\* WriteDataPadded and parseDataFrame.
LEMMA DataSurvives ==
  ASSUME NEW c, IsCall(c), c.type = "DATA", NEW r, NEW p, Passes(c, r, p)
  PROVE  AsCalled(p.frame, c)
<1>0. /\ c.flags \subseteq {END_STREAM} /\ c.val \in [data : Seq(Octets)]
      /\ c.pad = NoPad \/ c.pad \in Seq(Octets)
  BY DEF IsCall
<1>d. PICK data \in Seq(Nat) : data = c.val.data /\ c.val = [data |-> data]
  BY <1>0, OctetString
<1>p. PICK pad \in Seq(Nat) : pad = IF c.pad = NoPad THEN <<>> ELSE c.pad
  <2>1. <<>> \in Seq(Nat)
    OBVIOUS
  <2> QED BY <1>0, <2>1, OctetString
<1>k. PICK k \in Nat : k = Len(pad)
  OBVIOUS
<1>b. PICK padded \in BOOLEAN : padded <=> c.pad # NoPad
  OBVIOUS
<1>z. padded \/ k = 0
  BY <1>b, <1>k, <1>p
<1>x. PICK x \in Seq(Nat) : x = IF padded THEN <<k>> ELSE <<>>
  <2>1. <<k>> \in Seq(Nat) /\ <<>> \in Seq(Nat)
    OBVIOUS
  <2> QED BY <2>1
<1>y. PICK body \in Seq(Nat) : body = data \o pad
  <2>1. data \o pad \in Seq(Nat)
    BY Joined
  <2> QED BY <2>1
<1>f. PICK flags : flags = c.flags \cup (IF padded THEN {PADDED} ELSE {})
  OBVIOUS
<1>g. Own(flags) = c.flags /\ (padded <=> PADDED \in flags)
  BY <1>0, <1>f, OwnBits
<1>n. r.err = NoError /\ p.err = NoError
  BY DEF Passes
<1>1. r = WriteDataPadded(c, FALSE)
  BY DEF Passes, WriteOf
<1>2. r.frame = WireFrame("DATA", flags, c.stream, x \o body)
  <2>1. (IF c.pad = NoPad THEN {} ELSE {PADDED}) = (IF padded THEN {PADDED} ELSE {})
    BY <1>b
  <2>2. x = IF c.pad = NoPad THEN <<>> ELSE <<Len(pad)>>
    BY <1>b, <1>k, <1>x
  <2>3. x \o data \o pad = x \o body
    <3>v. PICK v : v = (x \o data) \o pad /\ FromLeft(v, x, data, pad)
      BY Zenon DEF FromLeft
    <3>r. FromRight(v, x, data, pad)
      BY <3>v, Grouped
    <3>1. (x \o data) \o pad = x \o (data \o pad)
      BY <3>r, <3>v, Zenon DEF FromRight
    <3> QED BY <1>y, <3>1, Zenon
  <2>4. \E checks : r = WriteFrame(checks, "DATA", flags, c.stream, x \o data \o pad)
    BY <1>1, <1>d, <1>f, <1>p, <2>1, <2>2, Zenon DEF WriteDataPadded
  <2> QED BY <1>n, <2>3, <2>4, WrittenFrame
<1>w. PICK w : w = r.frame /\ p = ParseFrame(w)
  BY DEF Passes
<1>t. /\ w.type = "DATA" /\ w.flags = flags /\ w.stream = c.stream
      /\ w.payload = x \o body
  BY <1>2, <1>w DEF WireFrame
<1>3. p = parseDataFrame(w)
  BY <1>t, <1>w DEF ParseFrame
<1>a. PadLength(w) = k /\ AfterPadLength(w) = body
  <2>1. padded <=> PADDED \in w.flags
    BY <1>g, <1>t
  <2>2. w.payload = (IF padded THEN <<k>> ELSE <<>>) \o body
    BY <1>t, <1>x, Zenon
  <2> QED BY <1>z, <2>1, <2>2, PadOctet
<1>4. p.frame = [type |-> w.type, flags |-> w.flags, stream |-> Masked(w.stream),
                 val |-> [data |-> UpTo(body, Len(body) - k)]]
  <2>1. \E checks : p = Parse(checks, w, [data |-> UpTo(body, Len(body) - k)])
    BY <1>3, <1>a, Zenon DEF parseDataFrame
  <2> QED BY <1>n, <2>1, ParsedValue
<1>u. UpTo(body, Len(body) - k) = data
  BY <1>k, <1>y, BeforePadding
<1>5. p.frame = [type |-> "DATA", flags |-> flags, stream |-> Masked(c.stream),
                 val |-> [data |-> data]]
  BY <1>4, <1>t, <1>u
<1> QED BY <1>5, <1>d, <1>g DEF AsCalled, Said

\* The padding of HEADERS and PUSH_PROMISE.
LEMMA ZeroPadding ==
  ASSUME NEW c, PadLengthParam(c)
  PROVE  \E n \in Nat : /\ n = IF c.pad = NoPad THEN 0 ELSE Len(c.pad)
                        /\ Zeros(n) \in Seq(Nat) /\ Len(Zeros(n)) = n
                        /\ (IF n # 0 THEN <<n>> ELSE <<>>) \in Seq(Nat)
<1>1. Octets \subseteq Nat
  BY OctetAssumption DEF Octets
<1>n. PICK n \in Nat : n = IF c.pad = NoPad THEN 0 ELSE Len(c.pad)
  BY <1>1 DEF PadLengthParam
<1>2. Zeros(n) \in Seq(Nat) /\ Len(Zeros(n)) = n
  BY DEF Zeros
<1>3. <<n>> \in Seq(Nat) /\ <<>> \in Seq(Nat)
  OBVIOUS
<1> QED BY <1>2, <1>3, <1>n

\* WritePushPromise and parsePushPromise.
LEMMA PushPromiseSurvives ==
  ASSUME NEW c, IsCall(c), c.type = "PUSH_PROMISE", NEW r, NEW p, Passes(c, r, p)
  PROVE  AsCalled(p.frame, c)
<1>0. /\ c.flags \subseteq {END_HEADERS} /\ PadLengthParam(c)
      /\ c.val \in [promise : Uint32, frag : Seq(Octets)]
  BY DEF IsCall
<1>d. PICK frag \in Seq(Nat), promise \in Uint32 :
        frag = c.val.frag /\ promise = c.val.promise /\ c.val = [promise |-> promise, frag |-> frag]
  BY <1>0, OctetString
<1>k. PICK k \in Nat : /\ k = IF c.pad = NoPad THEN 0 ELSE Len(c.pad)
                       /\ Zeros(k) \in Seq(Nat) /\ Len(Zeros(k)) = k
                       /\ (IF k # 0 THEN <<k>> ELSE <<>>) \in Seq(Nat)
  BY <1>0, ZeroPadding
<1>z. PICK z \in Seq(Nat) : z = Zeros(k) /\ Len(z) = k
  BY <1>k
<1>b. PICK padded \in BOOLEAN : padded <=> k # 0
  OBVIOUS
<1>x. PICK x \in Seq(Nat) : x = IF k # 0 THEN <<k>> ELSE <<>>
  BY <1>k
<1>e. PICK e \in Seq(Nat) : e = BigEndian(promise, 4)
  <2>1. BigEndian(promise, 4) \in Seq(Octets)
    BY BigEndianFour
  <2> QED BY <2>1, OctetString
<1>h. PICK rest \in Seq(Nat) : rest = frag \o z
  <2>1. frag \o z \in Seq(Nat)
    BY Joined
  <2> QED BY <2>1
<1>y. PICK body \in Seq(Nat) : body = e \o rest
  <2>1. e \o rest \in Seq(Nat)
    BY Joined
  <2> QED BY <2>1
<1>f. PICK flags : flags = c.flags \cup (IF k # 0 THEN {PADDED} ELSE {})
  OBVIOUS
<1>g. Own(flags) = c.flags /\ (padded <=> PADDED \in flags)
  BY <1>0, <1>b, <1>f, OwnBits
<1>n. r.err = NoError /\ p.err = NoError
  BY DEF Passes
<1>1. r = WritePushPromise(c, FALSE)
  BY DEF Passes, WriteOf
<1>2. r.frame = WireFrame("PUSH_PROMISE", flags, c.stream, x \o body) /\ promise < HighBit
  <2>a. PICK a \in BOOLEAN : a = (~validStreamID(c.stream) /\ ~FALSE)
    OBVIOUS
  <2>b. PICK b \in BOOLEAN : b = (~validStreamID(promise) /\ ~FALSE)
    OBVIOUS
  <2>s. PICK s : TwoChecks(s, a, errStreamID, b, errStreamID)
    BY DEF TwoChecks
  <2>1. r = WriteFrame(s, "PUSH_PROMISE", flags, c.stream, x \o e \o frag \o z)
    BY <1>1, <1>d, <1>e, <1>f, <1>k, <1>x, <1>z, <2>a, <2>b, <2>s, Zenon
       DEF WritePushPromise, TwoChecks
  <2>2. x \o e \o frag \o z = x \o body
    <3>o. PICK o : InARow(o, x, e, frag, z)
      BY DEF InARow
    <3>1. Nested(o, x, e, frag, z)
      BY <3>o, FourParts
    <3> QED BY <1>h, <1>y, <3>1, <3>o, Zenon DEF InARow, Nested
  <2>3. r = WriteFrame(s, "PUSH_PROMISE", flags, c.stream, x \o body)
    BY <2>1, <2>2, Zenon
  <2>4. Failure(errStreamID)
    BY Failures DEF errStreamID
  <2>5. r.frame = WireFrame("PUSH_PROMISE", flags, c.stream, x \o body) /\ ~ b
    BY <1>n, <2>3, <2>4, <2>s, WritePassedTwo
  <2> QED BY <2>5, <2>b DEF validStreamID
<1>w. PICK w : w = r.frame /\ p = ParseFrame(w)
  BY DEF Passes
<1>t. /\ w.type = "PUSH_PROMISE" /\ w.flags = flags /\ w.stream = c.stream
      /\ w.payload = x \o body
  BY <1>2, <1>w DEF WireFrame
<1>3. p = parsePushPromise(w)
  BY <1>t, <1>w DEF ParseFrame
<1>a. PadLength(w) = k /\ AfterPadLength(w) = body
  <2>1. padded <=> PADDED \in w.flags
    BY <1>g, <1>t
  <2>2. (IF padded THEN <<k>> ELSE <<>>) = x /\ (padded \/ k = 0)
    BY <1>b, <1>x
  <2>3. w.payload = (IF padded THEN <<k>> ELSE <<>>) \o body
    BY <1>t, <2>2, Zenon
  <2> QED BY <2>1, <2>2, <2>3, PadOctet
<1>u. Uint(UpTo(body, 4)) = promise /\ From(body, 4) = rest
  BY <1>e, <1>y, FirstFour
<1>4. p.frame = [type |-> w.type, flags |-> w.flags, stream |-> Masked(w.stream),
                 val |-> [promise |-> Masked(promise), frag |-> UpTo(rest, Len(rest) - k)]]
  <2>1. \E checks : p = Parse(checks, w, [promise |-> Masked(promise), frag |-> UpTo(rest, Len(rest) - k)])
    BY <1>3, <1>a, <1>u, Zenon DEF parsePushPromise
  <2> QED BY <1>n, <2>1, ParsedValue
<1>v. UpTo(rest, Len(rest) - k) = frag
  BY <1>h, <1>z, BeforePadding
<1>m. Masked(promise) = promise
  <2>1. promise \in 0 .. HighBit - 1
    BY <1>2, MaskedIs, PowerSmall DEF Uint32
  <2> QED BY <2>1, MaskedIs
<1>5. p.frame = [type |-> "PUSH_PROMISE", flags |-> flags, stream |-> Masked(c.stream),
                 val |-> [promise |-> promise, frag |-> frag]]
  BY <1>4, <1>m, <1>t, <1>v
<1> QED BY <1>5, <1>d, <1>g DEF AsCalled, Said

\* WriteHeaders and parseHeadersFrame.
LEMMA HeadersSurvive ==
  ASSUME NEW c, IsCall(c), c.type = "HEADERS", NEW r, NEW p, Passes(c, r, p)
  PROVE  AsCalled(p.frame, c)
<1>0. /\ c.flags \subseteq {END_STREAM, END_HEADERS} /\ PadLengthParam(c)
      /\ c.val \in [frag : Seq(Octets), priority : PriorityParam]
  BY DEF IsCall
<1>d. PICK frag \in Seq(Nat), prio \in PriorityParam :
        frag = c.val.frag /\ prio = c.val.priority /\ c.val = [frag |-> frag, priority |-> prio]
  BY <1>0, OctetString
<1>k. PICK k \in Nat : /\ k = IF c.pad = NoPad THEN 0 ELSE Len(c.pad)
                       /\ Zeros(k) \in Seq(Nat) /\ Len(Zeros(k)) = k
                       /\ (IF k # 0 THEN <<k>> ELSE <<>>) \in Seq(Nat)
  BY <1>0, ZeroPadding
<1>z. PICK z \in Seq(Nat) : z = Zeros(k) /\ Len(z) = k
  BY <1>k
<1>b. PICK padded \in BOOLEAN, given \in BOOLEAN : (padded <=> k # 0) /\ (given <=> prio # NoPriority)
  OBVIOUS
<1>x. PICK x \in Seq(Nat) : x = IF k # 0 THEN <<k>> ELSE <<>>
  BY <1>k
<1>f. PICK flags : flags = c.flags \cup (IF k # 0 THEN {PADDED} ELSE {})
                                   \cup (IF prio # NoPriority THEN {PRIORITY} ELSE {})
  OBVIOUS
<1>g. Own(flags) = c.flags /\ (padded <=> PADDED \in flags) /\ (given <=> PRIORITY \in flags)
  <2>1. flags = c.flags \cup (IF padded THEN {PADDED} ELSE {}) \cup (IF given THEN {PRIORITY} ELSE {})
    BY <1>b, <1>f
  <2>2. c.flags \subseteq {END_STREAM, ACK, END_HEADERS}
    BY <1>0
  <2>3. PADDED \notin c.flags /\ PRIORITY \notin c.flags /\ PADDED # PRIORITY
    BY <2>2, OwnBits
  <2>4. (padded <=> PADDED \in flags) /\ (given <=> PRIORITY \in flags)
    BY <2>1, <2>3
  <2>5. Own(flags) = c.flags
    BY <2>1, <2>3 DEF Own
  <2> QED BY <2>4, <2>5
<1>h. PICK rest \in Seq(Nat) : rest = frag \o z
  <2>1. frag \o z \in Seq(Nat)
    BY Joined
  <2> QED BY <2>1
<1>n. r.err = NoError /\ p.err = NoError
  BY DEF Passes
<1>1. r = WriteHeaders(c, FALSE)
  BY DEF Passes, WriteOf
<1>c. PICK payload : payload = x \o (IF prio # NoPriority THEN PriorityOctets(prio) ELSE <<>>)
                                 \o frag \o z
  OBVIOUS
<1>2. r.frame = WireFrame("HEADERS", flags, c.stream, payload) /\ (given => prio.dep < HighBit)
  <2>a. PICK a \in BOOLEAN : a = (~validStreamID(c.stream) /\ ~FALSE)
    OBVIOUS
  <2>b. PICK b \in BOOLEAN : b = (prio # NoPriority /\ ~validStreamIDOrZero(prio.dep) /\ ~FALSE)
    OBVIOUS
  <2>s. PICK s : TwoChecks(s, a, errStreamID, b, errDepStreamID)
    BY DEF TwoChecks
  <2>1. r = WriteFrame(s, "HEADERS", flags, c.stream, payload)
    BY <1>1, <1>c, <1>d, <1>f, <1>k, <1>x, <1>z, <2>a, <2>b, <2>s, Zenon
       DEF WriteHeaders, TwoChecks
  <2>4. Failure(errStreamID) /\ Failure(errDepStreamID)
    BY Failures DEF errStreamID, errDepStreamID
  <2>5. r.frame = WireFrame("HEADERS", flags, c.stream, payload) /\ ~ b
    BY <1>n, <2>1, <2>4, <2>s, WritePassedTwo
  <2> QED BY <1>b, <2>5, <2>b DEF validStreamIDOrZero
<1>e. PICK e \in Seq(Nat) : /\ e = IF prio # NoPriority THEN PriorityOctets(prio) ELSE <<>>
                            /\ given => Len(e) = 5 /\ Priority(e \o rest) = prio
  <2>1. CASE given
    <3>o. PICK o : o = PriorityOctets(prio)
      OBVIOUS
    <3>1. o \in Seq(Nat) /\ Len(o) = 5 /\ Priority(o \o rest) = prio
      BY <1>2, <2>1, <3>o, PriorityIs
    <3> QED BY <1>b, <2>1, <3>1, <3>o
  <2>2. CASE ~ given
    <3>1. <<>> \in Seq(Nat)
      OBVIOUS
    <3> QED BY <1>b, <2>2, <3>1
  <2> QED BY <2>1, <2>2
<1>y. PICK body \in Seq(Nat) : body = e \o rest
  <2>1. e \o rest \in Seq(Nat)
    BY Joined
  <2> QED BY <2>1
<1>l. payload = x \o body
  <2>1. InARow(payload, x, e, frag, z)
    BY <1>c, <1>e, Zenon DEF InARow
  <2>2. Nested(payload, x, e, frag, z)
    BY <2>1, FourParts
  <2> QED BY <1>h, <1>y, <2>2, Zenon DEF Nested
<1>w. PICK w : w = r.frame /\ p = ParseFrame(w)
  BY DEF Passes
<1>t. /\ w.type = "HEADERS" /\ w.flags = flags /\ w.stream = c.stream
      /\ w.payload = x \o body
  BY <1>2, <1>l, <1>w DEF WireFrame
<1>3. p = parseHeadersFrame(w)
  BY <1>t, <1>w DEF ParseFrame
<1>a. PadLength(w) = k /\ AfterPadLength(w) = body
  <2>1. padded <=> PADDED \in w.flags
    BY <1>g, <1>t
  <2>2. (IF padded THEN <<k>> ELSE <<>>) = x /\ (padded \/ k = 0)
    BY <1>b, <1>x
  <2>3. w.payload = (IF padded THEN <<k>> ELSE <<>>) \o body
    BY <1>t, <2>2, Zenon
  <2> QED BY <2>1, <2>2, <2>3, PadOctet
<1>u. /\ (IF PRIORITY \in w.flags THEN From(body, 5) ELSE body) = rest
      /\ (IF PRIORITY \in w.flags THEN Priority(body) ELSE NoPriority) = prio
  <2>0. PRIORITY \in w.flags <=> given
    BY <1>g, <1>t
  <2>1. CASE given
    <3>1. From(e \o rest, 5) = rest
      BY <1>e, <2>1, PartsOf
    <3> QED BY <1>e, <1>y, <2>0, <2>1, <3>1
  <2>2. CASE ~ given
    <3>1. e = <<>> /\ prio = NoPriority
      BY <1>b, <1>e, <2>2
    <3>2. body = rest
      BY <1>y, <3>1
    <3> QED BY <2>0, <2>2, <3>1, <3>2
  <2> QED BY <2>1, <2>2
<1>4. p.frame = [type |-> w.type, flags |-> w.flags, stream |-> Masked(w.stream),
                 val |-> [priority |-> prio, frag |-> UpTo(rest, Len(rest) - k)]]
  <2>1. \E checks : p = Parse(checks, w, [priority |-> prio, frag |-> UpTo(rest, Len(rest) - k)])
    BY <1>3, <1>a, <1>u, Zenon DEF parseHeadersFrame
  <2> QED BY <1>n, <2>1, ParsedValue
<1>v. UpTo(rest, Len(rest) - k) = frag
  BY <1>h, <1>z, BeforePadding
<1>5. p.frame = [type |-> "HEADERS", flags |-> flags, stream |-> Masked(c.stream),
                 val |-> [priority |-> prio, frag |-> frag]]
  BY <1>4, <1>t, <1>v
<1>6. c.val = [priority |-> prio, frag |-> frag]
  BY <1>d
<1> QED BY <1>5, <1>6, <1>g DEF AsCalled, Said

\* Pieces of six octets, and FlattenSeq of them.
SixEach(s) == s \in Seq(Seq(Octets)) /\ \A i \in 1 .. Len(s) : Len(s[i]) = 6
IsFlattened(r, s) == r = FlattenSeq(s)

\* Element 6i - 6 + j is element j of piece i.
LEMMA FlatSix ==
  ASSUME NEW s, SixEach(s), NEW r, IsFlattened(r, s)
  PROVE  /\ r \in Seq(Octets) /\ Len(r) = 6 * Len(s)
         /\ \A i \in 1 .. Len(s) : \A j \in 1 .. 6 : r[6 * i - 6 + j] = s[i][j]
<1>s. s \in Seq(Seq(Octets)) /\ \A i \in 1 .. Len(s) : Len(s[i]) = 6
  BY DEF SixEach
<1>n. PICK n \in Nat : n = Len(s)
  BY <1>s
<1>0. \A k \in 1 .. n : s[k] \in Seq(Octets) /\ Len(s[k]) = 6
  BY <1>n, <1>s
<1>1. CASE n = 0
  <2>1. r = s /\ s = <<>>
    BY <1>1, <1>n, <1>s DEF FlattenSeq, IsFlattened
  <2>2. r \in Seq(Octets) /\ Len(r) = 0
    BY <2>1
  <2>3. \A i \in 1 .. Len(s) : FALSE
    BY <1>1, <1>n
  <2> QED BY <1>1, <1>n, <2>2, <2>3
<1>2. CASE n # 0
  <2>1. r = (CHOOSE g : g = FlatTo(s, n, g))[n]
    BY <1>2, <1>n, <1>s DEF FlattenSeq, FlatTo, IsFlattened
  <2>g. PICK g : g = FlatTo(s, n, g) /\ r = g[n]
    <3>1. \E g : g = FlatTo(s, n, g)
      BY <1>n, <1>s, FlatExists
    <3> QED BY <2>1, <3>1
  <2>2. \A k \in 1 .. n : g[k] = IF k = 1 THEN s[k] ELSE g[k - 1] \o s[k]
    BY <2>g DEF FlatTo
  <2> DEFINE Good(k) == /\ g[k] \in Seq(Octets) /\ Len(g[k]) = 6 * k
                        /\ \A i \in 1 .. k : \A j \in 1 .. 6 : g[k][6 * i - 6 + j] = s[i][j]
  <2>3. Good(1)
    <3>1. 1 \in 1 .. n
      BY <1>2
    <3>2. g[1] = s[1] /\ s[1] \in Seq(Octets) /\ Len(s[1]) = 6
      BY <1>0, <2>2, <3>1
    <3>3. \A i \in 1 .. 1 : \A j \in 1 .. 6 : i = 1 /\ 6 * i - 6 + j = j
      OBVIOUS
    <3> QED BY <3>2, <3>3
  <2>4. ASSUME NEW k \in 1 .. n, k # 1, Good(k - 1) PROVE Good(k)
    <3>a. PICK a \in Seq(Octets) : a = g[k - 1]
      BY <2>4
    <3>b. PICK b \in Seq(Octets) : b = s[k] /\ Len(b) = 6
      BY <1>0
    <3>x. PICK x : x = a \o b
      OBVIOUS
    <3>1. /\ x \in Seq(Octets) /\ Len(x) = Len(a) + Len(b)
          /\ \A i \in 1 .. Len(a) : x[i] = a[i]
          /\ \A i \in 1 .. Len(b) : x[Len(a) + i] = b[i]
      BY <3>x, Joined
    <3>g. Len(g[k - 1]) = 6 * (k - 1)
      BY <2>4
    <3>h. Len(a) = 6 * (k - 1)
      BY <3>a, <3>g
    <3>i. Len(b) = 6
      BY <3>b
    <3>2. Len(a) = 6 * k - 6 /\ Len(b) = 6
      BY <3>h, <3>i
    <3>3. g[k] = x
      BY <2>2, <2>4, <3>a, <3>b, <3>x
    <3>4. Len(x) = 6 * k
      BY <3>1, <3>2
    <3>5. ASSUME NEW i \in 1 .. k, NEW j \in 1 .. 6 PROVE x[6 * i - 6 + j] = s[i][j]
      <4>1. CASE i = k
        <5>1. x[Len(a) + j] = b[j]
          BY <3>1, <3>2
        <5>2. 6 * i - 6 + j = Len(a) + j
          BY <3>2, <4>1
        <5> QED BY <3>b, <4>1, <5>1, <5>2
      <4>2. CASE i # k
        <5>1. i \in 1 .. k - 1 /\ 6 * i - 6 + j \in 1 .. Len(a)
          BY <3>2, <4>2
        <5>2. a[6 * i - 6 + j] = s[i][j]
          BY <2>4, <3>a, <5>1
        <5> QED BY <3>1, <5>1, <5>2
      <4> QED BY <4>1, <4>2
    <3> QED BY <3>1, <3>3, <3>4, <3>5
  <2> HIDE DEF Good
  <2> DEFINE Bad == {k \in 1 .. n : ~ Good(k)}
  <2>5. ASSUME Bad # {} PROVE FALSE
    <3>1. Bad \subseteq Nat
      OBVIOUS
    <3>2. PICK x \in Bad : \A y \in Bad : x <= y
      BY <2>5, <3>1, LeastNatural
    <3>3. x \in 1 .. n /\ ~ Good(x)
      BY <3>2
    <3>4. x # 1
      BY <2>3, <3>3
    <3>5. x - 1 \in 1 .. n /\ ~ (x <= x - 1)
      BY <3>3, <3>4
    <3>6. Good(x - 1)
      BY <3>2, <3>5
    <3> QED BY <2>4, <3>3, <3>4, <3>6
  <2>6. n \in 1 .. n
    BY <1>2
  <2>7. Good(n)
    BY <2>5, <2>6
  <2> QED BY <1>n, <2>7, <2>g DEF Good
<1> QED BY <1>1, <1>2

\* The six octets of a setting.
SettingOctets(piece, id, val) == piece = BigEndian(id, 2) \o BigEndian(val, 4)

\* Setting i of what WriteSettings wrote.
LEMMA OneSetting ==
  ASSUME NEW id \in Uint16, NEW val \in Uint32, NEW q \in Seq(Octets), NEW a \in Nat,
         a + 6 <= Len(q),
         NEW piece, SettingOctets(piece, id, val),
         \A j \in 1 .. 6 : q[a + j] = piece[j]
  PROVE  /\ Uint(SubSeq(q, a + 1, a + 2)) = id
         /\ Uint(SubSeq(q, a + 3, a + 6)) = val
<1>b. PICK b \in Seq(Octets) : b = BigEndian(id, 2) /\ Len(b) = 2 /\ Uint(b) = id
  <2>1. /\ BigEndian(id, 2) \in Seq(Octets) /\ Len(BigEndian(id, 2)) = 2
        /\ Uint(BigEndian(id, 2)) = id
    BY BigEndianTwo
  <2> QED BY <2>1
<1>c. PICK c \in Seq(Octets) : c = BigEndian(val, 4) /\ Len(c) = 4 /\ Uint(c) = val
  <2>1. /\ BigEndian(val, 4) \in Seq(Octets) /\ Len(BigEndian(val, 4)) = 4
        /\ Uint(BigEndian(val, 4)) = val
    BY BigEndianFour
  <2> QED BY <2>1
<1>l. Len(b) = 2 /\ Len(c) = 4
  BY <1>b, <1>c
<1>1. (\A j \in 1 .. Len(b) : piece[j] = b[j]) /\ \A j \in 1 .. Len(c) : piece[Len(b) + j] = c[j]
  <2>1. piece = b \o c
    BY <1>b, <1>c, Zenon DEF SettingOctets
  <2>2. (\A j \in 1 .. Len(b) : (b \o c)[j] = b[j]) /\ \A j \in 1 .. Len(c) : (b \o c)[Len(b) + j] = c[j]
    BY Joined
  <2> QED BY <2>1, <2>2
<1>2. SubSeq(q, a + 1, a + 2) = b
  <2>x. PICK x : x = SubSeq(q, a + 1, a + 2)
    OBVIOUS
  <2>0. a + 1 \in Nat /\ a + 2 \in Nat /\ 1 <= a + 1 /\ a + 1 <= a + 2 + 1 /\ a + 2 <= Len(q)
        /\ a + 2 - (a + 1) + 1 = 2
    OBVIOUS
  <2>1. /\ x \in Seq(Octets) /\ Len(x) = a + 2 - (a + 1) + 1
        /\ \A k \in 1 .. a + 2 - (a + 1) + 1 : x[k] = q[a + 1 + k - 1]
    BY <2>0, <2>x, Piece
  <2>2. ASSUME NEW k \in 1 .. Len(x) PROVE x[k] = b[k]
    <3>1. k \in 1 .. 2 /\ k \in 1 .. 6 /\ k \in 1 .. Len(b) /\ a + 1 + k - 1 = a + k
      BY <1>l, <2>0, <2>1
    <3>2. x[k] = q[a + k] /\ q[a + k] = piece[k]
      BY <2>0, <2>1, <3>1
    <3> QED BY <1>1, <3>1, <3>2
  <2>3. Len(x) = Len(b)
    BY <1>l, <2>0, <2>1
  <2>4. x = b
    BY <2>1, <2>2, <2>3, SameElements
  <2> QED BY <2>4, <2>x
<1>3. SubSeq(q, a + 3, a + 6) = c
  <2>x. PICK x : x = SubSeq(q, a + 3, a + 6)
    OBVIOUS
  <2>0. a + 3 \in Nat /\ a + 6 \in Nat /\ 1 <= a + 3 /\ a + 3 <= a + 6 + 1 /\ a + 6 <= Len(q)
        /\ a + 6 - (a + 3) + 1 = 4
    OBVIOUS
  <2>1. /\ x \in Seq(Octets) /\ Len(x) = a + 6 - (a + 3) + 1
        /\ \A k \in 1 .. a + 6 - (a + 3) + 1 : x[k] = q[a + 3 + k - 1]
    BY <2>0, <2>x, Piece
  <2>2. ASSUME NEW k \in 1 .. Len(x) PROVE x[k] = c[k]
    <3>1. /\ k \in 1 .. 4 /\ 2 + k \in 1 .. 6 /\ k \in 1 .. Len(c) /\ a + 3 + k - 1 = a + (2 + k)
          /\ Len(b) + k = 2 + k
      BY <1>l, <2>0, <2>1
    <3>2. x[k] = q[a + (2 + k)] /\ q[a + (2 + k)] = piece[2 + k]
      BY <2>0, <2>1, <3>1
    <3> QED BY <1>1, <3>1, <3>2
  <2>3. Len(x) = Len(c)
    BY <1>l, <2>0, <2>1
  <2>4. x = c
    BY <2>1, <2>2, <2>3, SameElements
  <2> QED BY <2>4, <2>x
<1> QED BY <1>2, <1>3, <1>b, <1>c

\* WriteSettings and parseSettingsFrame.
LEMMA SettingsSurvive ==
  ASSUME NEW c, IsCall(c), c.type = "SETTINGS", NEW r, NEW p, Passes(c, r, p)
  PROVE  AsCalled(p.frame, c)
<1>0. c.stream = 0 /\ c.flags \subseteq {ACK} /\ c.val \in [settings : Seq(Setting)]
  BY DEF IsCall
<1>v. PICK settings \in Seq(Setting) : settings = c.val.settings /\ c.val = [settings |-> settings]
  BY <1>0
<1>k. PICK k \in Nat : k = Len(settings) /\ DOMAIN settings = 1 .. k
  OBVIOUS
<1>s. PICK s : s = [i \in 1 .. k |-> BigEndian(settings[i].id, 2) \o BigEndian(settings[i].val, 4)]
  OBVIOUS
<1>i. ASSUME NEW i \in 1 .. k
      PROVE  /\ settings[i].id \in Uint16 /\ settings[i].val \in Uint32
             /\ settings[i] = [id |-> settings[i].id, val |-> settings[i].val]
             /\ s[i] = BigEndian(settings[i].id, 2) \o BigEndian(settings[i].val, 4)
             /\ s[i] \in Seq(Octets) /\ Len(s[i]) = 6
  <2>1. settings[i] \in Setting
    BY <1>k
  <2>2. /\ settings[i].id \in Uint16 /\ settings[i].val \in Uint32
        /\ settings[i] = [id |-> settings[i].id, val |-> settings[i].val]
    BY <2>1 DEF Setting
  <2>a. PICK a \in Seq(Octets) : a = BigEndian(settings[i].id, 2) /\ Len(a) = 2
    BY <2>2, BigEndianTwo
  <2>b. PICK b \in Seq(Octets) : b = BigEndian(settings[i].val, 4) /\ Len(b) = 4
    BY <2>2, BigEndianFour
  <2>l. Len(a) = 2 /\ Len(b) = 4
    BY <2>a, <2>b
  <2>3. a \o b \in Seq(Octets) /\ Len(a \o b) = Len(a) + Len(b)
    BY Joined
  <2>4. a \o b \in Seq(Octets) /\ Len(a \o b) = 6
    BY <2>3, <2>l
  <2>5. s[i] = a \o b
    BY <1>s, <2>a, <2>b
  <2> QED BY <2>2, <2>4, <2>5, <2>a, <2>b
<1>q. PICK q : q = FlattenSeq(s) /\ IsFlattened(q, s)
  BY DEF IsFlattened
<1>l. /\ q \in Seq(Octets) /\ Len(q) = 6 * k
      /\ \A i \in 1 .. k : \A j \in 1 .. 6 : q[6 * i - 6 + j] = s[i][j]
  <2>1. s \in Seq(Seq(Octets)) /\ Len(s) = k
    <3>1. s = [i \in 1 .. k |-> s[i]] /\ \A i \in 1 .. k : s[i] \in Seq(Octets)
      BY <1>i, <1>s
    <3> QED BY <3>1
  <2>2. \A i \in 1 .. Len(s) : Len(s[i]) = 6
    BY <1>i, <2>1
  <2>3. /\ q \in Seq(Octets) /\ Len(q) = 6 * Len(s)
        /\ \A i \in 1 .. Len(s) : \A j \in 1 .. 6 : q[6 * i - 6 + j] = s[i][j]
    <3>1. IsFlattened(q, s)
      BY <1>q
    <3>2. SixEach(s)
      BY <2>1, <2>2 DEF SixEach
    <3> QED BY <3>1, <3>2, FlatSix
  <2> QED BY <2>1, <2>3
<1>n. r.err = NoError /\ p.err = NoError
  BY DEF Passes
<1>1. r = WriteSettings(c)
  BY DEF Passes, WriteOf
<1>2. r.frame = WireFrame("SETTINGS", c.flags, 0, q)
  <2>1. [i \in DOMAIN c.val.settings |->
           BigEndian(c.val.settings[i].id, 2) \o BigEndian(c.val.settings[i].val, 4)] = s
    BY <1>k, <1>s, <1>v
  <2>2. r = WriteFrame(<<>>, "SETTINGS", c.flags, 0, q)
    BY <1>1, <1>q, <2>1, Zenon DEF WriteSettings
  <2> QED BY <1>n, <2>2, WrittenFrame
<1>w. PICK w : w = r.frame /\ p = ParseFrame(w)
  BY DEF Passes
<1>t. w.type = "SETTINGS" /\ w.flags = c.flags /\ w.stream = 0 /\ w.payload = q
  BY <1>2, <1>w DEF WireFrame
<1>3. p = parseSettingsFrame(w)
  BY <1>t, <1>w DEF ParseFrame
<1>4. p.frame = [type |-> w.type, flags |-> w.flags, stream |-> Masked(w.stream),
                 val |-> [settings |-> Settings(w.payload)]]
  <2>1. \E checks : p = Parse(checks, w, [settings |-> Settings(w.payload)])
    BY <1>3, Zenon DEF parseSettingsFrame
  <2> QED BY <1>n, <2>1, ParsedValue
<1>u. Settings(q) = settings
  <2>1. Len(q) \div 6 = k
    BY <1>l
  <2>2. Settings(q) = [i \in 1 .. k |->
          [id |-> Uint(SubSeq(q, 6 * i - 5, 6 * i - 4)), val |-> Uint(SubSeq(q, 6 * i - 3, 6 * i))]]
    BY <2>1 DEF Settings
  <2>3. ASSUME NEW i \in 1 .. k
        PROVE  [id |-> Uint(SubSeq(q, 6 * i - 5, 6 * i - 4)), val |-> Uint(SubSeq(q, 6 * i - 3, 6 * i))]
                 = settings[i]
    <3>a. PICK a \in Nat : a = 6 * i - 6 /\ a + 6 <= Len(q)
      BY <1>l
    <3>d. PICK id \in Uint16, val \in Uint32 : id = settings[i].id /\ val = settings[i].val
      BY <1>i
    <3>p. PICK piece : piece = s[i]
      OBVIOUS
    <3>1. /\ piece = BigEndian(id, 2) \o BigEndian(val, 4)
          /\ settings[i] = [id |-> id, val |-> val]
      BY <1>i, <3>d, <3>p
    <3>2. \A j \in 1 .. 6 : q[a + j] = piece[j]
      BY <1>l, <3>a, <3>p
    <3>3. q \in Seq(Octets)
      BY <1>l
    <3>s. SettingOctets(piece, id, val)
      BY <3>1 DEF SettingOctets
    <3>b. a + 6 <= Len(q)
      BY <3>a
    <3>4. /\ Uint(SubSeq(q, a + 1, a + 2)) = id
          /\ Uint(SubSeq(q, a + 3, a + 6)) = val
      BY <3>2, <3>3, <3>b, <3>s, OneSetting
    <3>5. a + 1 = 6 * i - 5 /\ a + 2 = 6 * i - 4 /\ a + 3 = 6 * i - 3 /\ a + 6 = 6 * i
      BY <3>a
    <3>6. Uint(SubSeq(q, 6 * i - 5, 6 * i - 4)) = id /\ Uint(SubSeq(q, 6 * i - 3, 6 * i)) = val
      BY <3>4, <3>5
    <3> QED BY <3>1, <3>6
  <2>4. settings = [i \in 1 .. k |-> settings[i]]
    BY <1>k
  <2> QED BY <2>2, <2>3, <2>4
<1>5. p.frame = [type |-> "SETTINGS", flags |-> c.flags, stream |-> Masked(0),
                 val |-> [settings |-> settings]]
  BY <1>4, <1>t, <1>u
<1>6. Own(c.flags) = c.flags
  BY <1>0, OwnBits
<1> QED BY <1>0, <1>5, <1>6, <1>v DEF AsCalled, Said

\* Every frame type.
LEMMA EveryFrameSurvives ==
  ASSUME NEW c, IsCall(c), NEW r, NEW p, Passes(c, r, p)
  PROVE  AsCalled(p.frame, c)
<1>1. c.type \in FrameTypes
  BY DEF IsCall
<1> QED
  BY <1>1, DataSurvives, HeadersSurvive, PrioritySurvives, RSTStreamSurvives, SettingsSurvive,
     PushPromiseSurvives, PingSurvives, GoAwaySurvives, WindowUpdateSurvives,
     ContinuationSurvives DEF FrameTypes

-----------------------------------------------------------------------------
(***************************************************************************)
(* Frames and the calls that wrote them.                                   *)
(***************************************************************************)
\* What a call of a Write method, without AllowIllegalWrites, has written.
Wrote(c, r) == r = WriteOf(c, FALSE) /\ r.err = NoError

\* The frame w was written by the call c, or by WriteRawFrame.
WrittenBy(w, c) == c = NoCall \/ (IsCall(c) /\ \E r : Wrote(c, r) /\ w = r.frame)

\* The calls of this connection.
Called == Calls \cup {NoCall} \cup AllRequested

\* Frames and the calls that wrote them.
Lined(ws, cs) == ws \in Seq(Sent) /\ cs \in Seq(Called) /\ Len(ws) = Len(cs)
Matched(ws, cs) == \A i \in 1 .. Len(ws) : WrittenBy(ws[i], cs[i])

\* One more frame.
LEMMA MatchedMore ==
  ASSUME NEW ws, NEW cs, Lined(ws, cs), NEW w \in Sent, NEW c \in Called
  PROVE  /\ Lined(Append(ws, w), Append(cs, c))
         /\ Matched(ws, cs) /\ WrittenBy(w, c) => Matched(Append(ws, w), Append(cs, c))
<1>1. ws \in Seq(Sent) /\ cs \in Seq(Called) /\ Len(ws) = Len(cs)
  BY DEF Lined
<1>a. PICK x : x = Append(ws, w)
  OBVIOUS
<1>b. PICK y : y = Append(cs, c)
  OBVIOUS
<1>2. /\ x \in Seq(Sent) /\ Len(x) = Len(ws) + 1
      /\ \A i \in 1 .. Len(ws) : x[i] = ws[i]
      /\ x[Len(ws) + 1] = w
  BY <1>1, <1>a
<1>3. /\ y \in Seq(Called) /\ Len(y) = Len(cs) + 1
      /\ \A i \in 1 .. Len(cs) : y[i] = cs[i]
      /\ y[Len(cs) + 1] = c
  BY <1>1, <1>b
<1>4. Lined(x, y)
  BY <1>1, <1>2, <1>3 DEF Lined
<1>5. ASSUME Matched(ws, cs), WrittenBy(w, c) PROVE Matched(x, y)
  <2>1. ASSUME NEW i \in 1 .. Len(x) PROVE WrittenBy(x[i], y[i])
    <3>0. Len(ws) \in Nat
      BY <1>1
    <3>1. CASE i \in 1 .. Len(ws)
      <4>1. x[i] = ws[i] /\ y[i] = cs[i]
        BY <1>1, <1>2, <1>3, <3>1
      <4>2. WrittenBy(ws[i], cs[i])
        BY <1>5, <3>1 DEF Matched
      <4> QED BY <4>1, <4>2
    <3>2. CASE i \notin 1 .. Len(ws)
      <4>1. i = Len(ws) + 1
        BY <1>2, <3>0, <3>2
      <4>2. x[i] = w /\ y[i] = c
        BY <1>1, <1>2, <1>3, <4>1
      <4> QED BY <1>5, <4>2
    <3> QED BY <3>1, <3>2
  <2> QED BY <2>1 DEF Matched
<1> QED BY <1>4, <1>5, <1>a, <1>b

\* Several more.
LEMMA MatchedJoined ==
  ASSUME NEW ws, NEW cs, Lined(ws, cs), NEW vs, NEW ds, Lined(vs, ds)
  PROVE  /\ Lined(ws \o vs, cs \o ds)
         /\ Matched(ws, cs) /\ Matched(vs, ds) => Matched(ws \o vs, cs \o ds)
<1>1. /\ ws \in Seq(Sent) /\ cs \in Seq(Called) /\ Len(ws) = Len(cs)
      /\ vs \in Seq(Sent) /\ ds \in Seq(Called) /\ Len(vs) = Len(ds)
  BY DEF Lined
<1>a. PICK x : x = ws \o vs
  OBVIOUS
<1>b. PICK y : y = cs \o ds
  OBVIOUS
<1>2. /\ x \in Seq(Sent) /\ Len(x) = Len(ws) + Len(vs)
      /\ \A i \in 1 .. Len(ws) : x[i] = ws[i]
      /\ \A i \in 1 .. Len(vs) : x[Len(ws) + i] = vs[i]
  <2>1. ws \in Seq(Sent) /\ vs \in Seq(Sent)
    BY <1>1
  <2> QED BY <1>a, <2>1, Joined
<1>3. /\ y \in Seq(Called) /\ Len(y) = Len(cs) + Len(ds)
      /\ \A i \in 1 .. Len(cs) : y[i] = cs[i]
      /\ \A i \in 1 .. Len(ds) : y[Len(cs) + i] = ds[i]
  <2>1. cs \in Seq(Called) /\ ds \in Seq(Called)
    BY <1>1
  <2> QED BY <1>b, <2>1, Joined
<1>4. Lined(x, y)
  BY <1>1, <1>2, <1>3 DEF Lined
<1>5. ASSUME Matched(ws, cs), Matched(vs, ds) PROVE Matched(x, y)
  <2>1. ASSUME NEW i \in 1 .. Len(x) PROVE WrittenBy(x[i], y[i])
    <3>0. /\ Len(ws) \in Nat /\ Len(vs) \in Nat /\ Len(x) = Len(ws) + Len(vs)
          /\ Len(ws) = Len(cs) /\ Len(vs) = Len(ds)
      BY <1>1, <1>2
    <3>1. CASE i \in 1 .. Len(ws)
      <4>1. x[i] = ws[i] /\ y[i] = cs[i]
        BY <1>1, <1>2, <1>3, <3>1
      <4>2. WrittenBy(ws[i], cs[i])
        BY <1>5, <3>1 DEF Matched
      <4> QED BY <4>1, <4>2
    <3>2. CASE i \notin 1 .. Len(ws)
      <4>j. PICK j \in 1 .. Len(vs) : i = Len(ws) + j
        <5>1. i - Len(ws) \in 1 .. Len(vs) /\ i = Len(ws) + (i - Len(ws))
          BY <3>0, <3>2
        <5> QED BY <5>1
      <4>1. x[Len(ws) + j] = vs[j] /\ y[Len(cs) + j] = ds[j]
        BY <1>2, <1>3, <3>0
      <4>2. WrittenBy(vs[j], ds[j])
        BY <1>5 DEF Matched
      <4>3. x[i] = vs[j] /\ y[i] = ds[j]
        BY <3>0, <4>1, <4>j
      <4> QED BY <4>2, <4>3
    <3> QED BY <3>1, <3>2
  <2> QED BY <2>1 DEF Matched
<1> QED BY <1>4, <1>5, <1>a, <1>b

\* The first frame is taken.
LEMMA MatchedTail ==
  ASSUME NEW ws, NEW cs, Lined(ws, cs), ws # <<>>
  PROVE  /\ Lined(Tail(ws), Tail(cs))
         /\ Matched(ws, cs) => WrittenBy(Head(ws), Head(cs)) /\ Matched(Tail(ws), Tail(cs))
<1>1. /\ ws \in Seq(Sent) /\ cs \in Seq(Called) /\ Len(ws) = Len(cs) /\ Len(ws) \in Nat /\ Len(ws) >= 1
  BY DEF Lined
<1>a. PICK x : x = Tail(ws)
  OBVIOUS
<1>b. PICK y : y = Tail(cs)
  OBVIOUS
<1>c. cs # <<>>
  BY <1>1
<1>2. /\ x \in Seq(Sent) /\ Len(x) = Len(ws) - 1 /\ Head(ws) = ws[1]
      /\ \A i \in 1 .. Len(x) : x[i] = ws[i + 1]
  BY <1>1, <1>a
<1>3. /\ y \in Seq(Called) /\ Len(y) = Len(cs) - 1 /\ Head(cs) = cs[1]
      /\ \A i \in 1 .. Len(y) : y[i] = cs[i + 1]
  BY <1>1, <1>b, <1>c
<1>4. Lined(x, y)
  BY <1>1, <1>2, <1>3 DEF Lined
<1>5. ASSUME Matched(ws, cs) PROVE WrittenBy(Head(ws), Head(cs)) /\ Matched(x, y)
  <2>1. WrittenBy(ws[1], cs[1])
    BY <1>1, <1>5 DEF Matched
  <2>2. ASSUME NEW i \in 1 .. Len(x) PROVE WrittenBy(x[i], y[i])
    <3>1. i + 1 \in 1 .. Len(ws) /\ x[i] = ws[i + 1] /\ y[i] = cs[i + 1]
      BY <1>1, <1>2, <1>3
    <3>2. WrittenBy(ws[i + 1], cs[i + 1])
      BY <1>5, <3>1 DEF Matched
    <3> QED BY <3>1, <3>2
  <2> QED BY <1>2, <1>3, <2>1, <2>2 DEF Matched
<1> QED BY <1>4, <1>5, <1>a, <1>b

\* The rest is lost.
LEMMA MatchedUpTo ==
  ASSUME NEW ws, NEW cs, Lined(ws, cs), NEW n \in 0 .. Len(ws)
  PROVE  /\ Lined(UpTo(ws, n), UpTo(cs, n))
         /\ Matched(ws, cs) => Matched(UpTo(ws, n), UpTo(cs, n))
<1>1. /\ ws \in Seq(Sent) /\ cs \in Seq(Called) /\ Len(ws) = Len(cs) /\ Len(ws) \in Nat
  BY DEF Lined
<1>0. n \in Nat /\ n <= Len(ws) /\ Min({n, Len(ws)}) = n /\ \A k \in 1 .. n : k \in 1 .. Len(ws)
  BY <1>1, MinOfTwo
<1>a. PICK x : x = [k \in 1 .. n |-> ws[k]]
  OBVIOUS
<1>b. PICK y : y = [k \in 1 .. n |-> cs[k]]
  OBVIOUS
<1>2. x \in Seq(Sent) /\ Len(x) = n /\ \A k \in 1 .. n : x[k] = ws[k]
  BY <1>0, <1>1, <1>a
<1>3. y \in Seq(Called) /\ Len(y) = n /\ \A k \in 1 .. n : y[k] = cs[k]
  BY <1>0, <1>1, <1>b
<1>4. Lined(x, y)
  BY <1>0, <1>2, <1>3 DEF Lined
<1>5. ASSUME Matched(ws, cs) PROVE Matched(x, y)
  <2>1. ASSUME NEW i \in 1 .. Len(x) PROVE WrittenBy(x[i], y[i])
    <3>1. i \in 1 .. Len(ws) /\ x[i] = ws[i] /\ y[i] = cs[i]
      BY <1>0, <1>2, <1>3
    <3>2. WrittenBy(ws[i], cs[i])
      BY <1>5, <3>1 DEF Matched
    <3> QED BY <3>1, <3>2
  <2> QED BY <2>1 DEF Matched
<1>6. x = UpTo(ws, n) /\ y = UpTo(cs, n)
  BY <1>0, <1>1, <1>a, <1>b DEF UpTo
<1> QED BY <1>4, <1>5, <1>6

-----------------------------------------------------------------------------
(***************************************************************************)
(* The round trip.                                                         *)
(***************************************************************************)
\* FramesSurvive, made inductive.
Paired ==
  /\ Lined(wire, sent)
  /\ ~opts.illegalWrites => Matched(wire, sent)
  /\ FramesSurvive

\* At the start.
LEMMA PairedInit == Init => Paired
<1> SUFFICES ASSUME Init PROVE Paired
  OBVIOUS
<1>1. wire = <<>> /\ sent = <<>> /\ outcome = Nothing
  BY DEF Init
<1>2. Lined(wire, sent)
  BY <1>1 DEF Lined
<1>3. Matched(wire, sent)
  BY <1>1 DEF Matched
<1>4. outcome.frame.type = "none"
  BY <1>1 DEF Nothing, NoFrame
<1>5. FramesSurvive
  BY <1>4 DEF FramesSurvive
<1> QED BY <1>2, <1>3, <1>5 DEF Paired

\* Steps of the writer.
LEMMA PairedUnread ==
  ASSUME Paired, UNCHANGED <<opts, reader>>, Lined(wire', sent'),
         ~opts.illegalWrites => Matched(wire', sent')
  PROVE  Paired'
<1>1. opts' = opts /\ outcome' = outcome /\ origin' = origin
  BY DEF reader
<1>2. FramesSurvive
  BY DEF Paired
<1>3. FramesSurvive'
  BY <1>1, <1>2, Zenon DEF FramesSurvive
<1> QED BY <1>1, <1>3 DEF Paired

\* What is written without AllowIllegalWrites.
LEMMA WroteIs ==
  ASSUME NEW c, NEW b \in BOOLEAN, ~b, NEW r, r = WriteOf(c, b), r.err = NoError
  PROVE  Wrote(c, r)
<1>1. b = FALSE
  OBVIOUS
<1>2. r = WriteOf(c, FALSE)
  BY <1>1, Zenon
<1> QED BY <1>2, Zenon DEF Wrote

\* A call of a Write method.
LEMMA WriteCallPaired ==
  ASSUME Reading, Paired, NEW c \in Calls, WriteCall(c)
  PROVE  Paired'
<1>b. PICK b \in BOOLEAN : b = opts.illegalWrites
  BY IllegalType DEF Reading
<1>r. PICK r : r = WriteOf(c, b)
  OBVIOUS
<1>1. /\ wire' = IF r.err = NoError THEN Append(wire, r.frame) ELSE wire
      /\ sent' = IF r.err = NoError THEN Append(sent, c) ELSE sent
      /\ UNCHANGED <<opts, reader>>
  BY <1>b, <1>r DEF WriteCall
<1>2. Lined(wire, sent) /\ (~b => Matched(wire, sent))
  BY <1>b DEF Paired
<1>3. CASE r.err = NoError
  <2>1. wire' = Append(wire, r.frame) /\ sent' = Append(sent, c)
    BY <1>1, <1>3
  <2>2. r.frame \in Sent
    <3>1. SoundCall(c)
      BY CallsAssumption, CallSound
    <3>2. SoundFrame(r.frame)
      BY <1>3, <1>r, <3>1, WriteSound
    <3> QED BY <1>r, <3>2 DEF Sent
  <2>3. c \in Called
    BY DEF Called
  <2>4. ASSUME ~b PROVE WrittenBy(r.frame, c)
    <3>1. Wrote(c, r)
      BY <1>3, <1>r, <2>4, WroteIs
    <3> QED BY <3>1, CallsAssumption DEF WrittenBy
  <2>5. Lined(wire', sent') /\ (~b => Matched(wire', sent'))
    BY <1>2, <2>1, <2>2, <2>3, <2>4, MatchedMore
  <2> QED BY <1>1, <1>b, <2>5, PairedUnread
<1>4. CASE r.err # NoError
  <2>1. wire' = wire /\ sent' = sent
    BY <1>1, <1>4
  <2>2. Lined(wire', sent') /\ (~b => Matched(wire', sent'))
    BY <1>2, <2>1
  <2> QED BY <1>1, <1>b, <2>2, PairedUnread
<1> QED BY <1>3, <1>4

\* A call of WriteRawFrame.
LEMMA WriteRawPaired ==
  ASSUME Paired, NEW w \in RawFrames, WriteRaw(w)
  PROVE  Paired'
<1>r. PICK r : r = WriteRawFrame(w)
  OBVIOUS
<1>1. /\ wire' = IF r.err = NoError THEN Append(wire, r.frame) ELSE wire
      /\ sent' = IF r.err = NoError THEN Append(sent, NoCall) ELSE sent
      /\ UNCHANGED <<opts, reader>>
  BY <1>r DEF WriteRaw
<1>2. Lined(wire, sent) /\ (~opts.illegalWrites => Matched(wire, sent))
  BY DEF Paired
<1>3. CASE r.err = NoError
  <2>1. wire' = Append(wire, r.frame) /\ sent' = Append(sent, NoCall)
    BY <1>1, <1>3
  <2>2. r.frame \in Sent
    <3>1. SoundFrame(r.frame)
      BY <1>3, <1>r, RawSound
    <3> QED BY <1>r, <3>1 DEF Sent
  <2>3. NoCall \in Called
    BY DEF Called
  <2>4. WrittenBy(r.frame, NoCall)
    BY DEF WrittenBy
  <2>5. Lined(wire', sent') /\ (~opts.illegalWrites => Matched(wire', sent'))
    BY <1>2, <2>1, <2>2, <2>3, <2>4, MatchedMore
  <2> QED BY <1>1, <2>5, PairedUnread
<1>4. CASE r.err # NoError
  <2>1. wire' = wire /\ sent' = sent
    BY <1>1, <1>4
  <2>2. Lined(wire', sent') /\ (~opts.illegalWrites => Matched(wire', sent'))
    BY <1>2, <2>1
  <2> QED BY <1>1, <2>2, PairedUnread
<1> QED BY <1>3, <1>4

\* A request of the server connection.
LEMMA WriteFramePaired ==
  ASSUME Encoding, Reading, Paired, NEW w \in Writers, writeFrame(w)
  PROVE  Paired'
<1>e. PICK enc \in Encoders : enc = HeaderEncoder
  BY EncoderType
<1>c. PICK calls : calls = CallsOf(w, enc)
  OBVIOUS
<1>b. PICK b \in BOOLEAN : b = opts.illegalWrites
  BY IllegalType DEF Reading
<1>n. PICK n \in Int : /\ DOMAIN calls = 1 .. n /\ calls = [i \in 1 .. n |-> calls[i]]
                       /\ \A i \in 1 .. n : IsCall(calls[i])
  BY <1>c, RequestSound DEF AreCalls
<1>r. PICK results : results = [i \in 1 .. n |-> WriteOf(calls[i], b)]
  OBVIOUS
<1>f. PICK frames : frames = [i \in 1 .. n |-> results[i].frame]
  OBVIOUS
<1>x. PICK fails \in BOOLEAN : fails = (\E i \in 1 .. n : results[i].err # NoError)
  OBVIOUS
<1>1. /\ wire' = (IF fails THEN wire ELSE wire \o frames)
      /\ sent' = (IF fails THEN sent ELSE sent \o calls)
      /\ UNCHANGED <<opts, reader>>
  <2>1. [i \in DOMAIN CallsOf(w, HeaderEncoder) |->
           WriteOf(CallsOf(w, HeaderEncoder)[i], opts.illegalWrites)] = results
    BY <1>b, <1>c, <1>e, <1>n, <1>r
  <2>2. DOMAIN results = 1 .. n
    BY <1>r
  <2> QED BY <1>c, <1>e, <1>f, <1>x, <2>1, <2>2 DEF writeFrame
<1>2. Lined(wire, sent) /\ (~b => Matched(wire, sent))
  BY <1>b DEF Paired
<1>3. CASE ~ fails
  <2>1. ASSUME NEW i \in 1 .. n
        PROVE  /\ frames[i] \in Sent /\ calls[i] \in Called
               /\ ~b => WrittenBy(frames[i], calls[i])
    <3>c. PICK c : c = calls[i] /\ IsCall(c)
      BY <1>n
    <3>d. PICK r : r = WriteOf(c, b)
      OBVIOUS
    <3>1. r.err = NoError /\ results[i] = r /\ frames[i] = r.frame
      BY <1>3, <1>f, <1>r, <1>x, <3>c, <3>d
    <3>2. SoundFrame(r.frame)
      BY <3>1, <3>c, <3>d, CallSound, WriteSound
    <3>3. c \in AllRequested
      BY <1>c, <1>n, <3>c, RequestedCall
    <3>5. frames[i] \in Sent
      BY <3>1, <3>2, <3>3, <3>d DEF Sent
    <3>6. calls[i] \in Called
      BY <3>3, <3>c, Zenon DEF Called
    <3>7. ASSUME ~b PROVE WrittenBy(frames[i], calls[i])
      <4>1. Wrote(c, r)
        BY <3>1, <3>7, <3>d, WroteIs
      <4> QED BY <3>1, <3>c, <4>1 DEF WrittenBy
    <3> QED BY <3>5, <3>6, <3>7
  <2>2. /\ frames \in Seq(Sent) /\ calls \in Seq(Called)
        /\ Len(frames) = Len(calls) /\ \A i \in 1 .. Len(frames) : i \in 1 .. n
    <3> HIDE DEF Sent, Called
    <3>1. frames \in Seq(Sent) /\ DOMAIN frames = 1 .. n
      BY <1>f, <2>1
    <3>2. calls \in Seq(Called) /\ DOMAIN calls = 1 .. n
      BY <1>n, <2>1
    <3>3. DOMAIN frames = 1 .. Len(frames) /\ DOMAIN calls = 1 .. Len(calls)
          /\ Len(frames) \in Nat /\ Len(calls) \in Nat
      BY <3>1, <3>2
    <3>4. 1 .. n = 1 .. Len(frames) /\ 1 .. n = 1 .. Len(calls)
      BY <3>1, <3>2, <3>3, Zenon
    <3>5. Len(frames) = Len(calls)
      <4>k. PICK k \in Nat, l \in Nat : k = Len(frames) /\ l = Len(calls)
        BY <3>3
      <4>1. \A i \in Nat : i \in 1 .. k <=> i \in 1 .. l
        BY <3>4, <4>k
      <4>2. k = l
        BY <4>1
      <4> QED BY <4>2, <4>k
    <3> QED BY <3>1, <3>2, <3>4, <3>5
  <2>3. Lined(frames, calls)
    BY <2>2 DEF Lined
  <2>4. ~b => Matched(frames, calls)
    BY <2>1, <2>2 DEF Matched
  <2>5. Lined(wire', sent') /\ (~b => Matched(wire', sent'))
    BY <1>1, <1>2, <1>3, <2>3, <2>4, MatchedJoined
  <2> QED BY <1>1, <1>b, <2>5, PairedUnread
<1>4. CASE fails
  <2>1. wire' = wire /\ sent' = sent
    BY <1>1, <1>4
  <2>2. Lined(wire', sent') /\ (~b => Matched(wire', sent'))
    BY <1>2, <2>1
  <2> QED BY <1>1, <1>b, <2>2, PairedUnread
<1> QED BY <1>3, <1>4

\* The connection breaks.
LEMMA HangUpPaired ==
  ASSUME Paired, HangUp
  PROVE  Paired'
<1>1. Lined(wire, sent) /\ (~opts.illegalWrites => Matched(wire, sent))
  BY DEF Paired
<1>2. PICK n \in 0 .. Len(wire) : wire' = UpTo(wire, n) /\ sent' = UpTo(sent, n)
  BY DEF HangUp
<1>3. Lined(wire', sent') /\ (~opts.illegalWrites => Matched(wire', sent'))
  BY <1>1, <1>2, MatchedUpTo
<1>4. UNCHANGED <<opts, reader>>
  BY DEF HangUp
<1> QED BY <1>3, <1>4, PairedUnread

\* The frame that is taken off the wire, and its call.
LEMMA ConsumedPaired ==
  ASSUME Paired, Consume, FramesSurvive'
  PROVE  Paired'
<1>1. /\ wire # <<>> /\ opts' = opts
      /\ wire' = Tail(wire) /\ sent' = Tail(sent)
  BY DEF Consume
<1>2. Lined(wire, sent) /\ (~opts.illegalWrites => Matched(wire, sent))
  BY DEF Paired
<1>3. Lined(wire', sent') /\ (~opts.illegalWrites => Matched(wire', sent'))
  BY <1>1, <1>2, MatchedTail
<1> QED BY <1>1, <1>3 DEF Paired

\* What has no frame, or a MetaHeadersFrame, says nothing of a call.
LEMMA NothingSaid ==
  ASSUME outcome'.frame.type \in {"none", "META"}
  PROVE  FramesSurvive'
BY DEF FramesSurvive

\* A frame is refused.
LEMMA ReadRefusedPaired ==
  ASSUME Paired, ReadRefused
  PROVE  Paired'
<1>1. Consume /\ outcome'.frame = NoFrame
  BY DEF ReadRefused, Return
<1>2. FramesSurvive'
  BY <1>1, NothingSaid DEF NoFrame
<1> QED BY <1>1, <1>2, ConsumedPaired

\* Any turn of readMetaFrame.
LEMMA MetaSaid ==
  ASSUME NEW m, NEW f, readMetaFrame(m, f)
  PROVE  outcome'.frame.type \in {"none", "META"}
<1>1. NoFrame.type = "none" /\ Nothing.frame.type = "none"
  BY DEF NoFrame, Nothing
<1> QED BY <1>1 DEF readMetaFrame, Return

\* A HEADERS frame that readMetaFrame goes on with.
LEMMA ReadMetaHeadersPaired ==
  ASSUME Paired, ReadMetaHeaders
  PROVE  Paired'
<1>r. PICK r : r = Received(Head(wire))
  OBVIOUS
<1>1. /\ Consume
      /\ outcome'.frame = NoFrame \/ readMetaFrame(NewMeta(r.frame), r.frame)
  BY <1>r DEF ReadMetaHeaders, Return
<1>2. outcome'.frame.type \in {"none", "META"}
  BY <1>1, MetaSaid DEF NoFrame
<1>3. FramesSurvive'
  BY <1>2, NothingSaid
<1> QED BY <1>1, <1>3, ConsumedPaired

\* The CONTINUATION that it waits for.
LEMMA ReadContinuationPaired ==
  ASSUME Paired, ReadContinuation
  PROVE  Paired'
<1>r. PICK r : r = Received(Head(wire))
  OBVIOUS
<1>1. Consume /\ readMetaFrame(meta, r.frame)
  BY <1>r DEF ReadContinuation
<1>2. outcome'.frame.type \in {"none", "META"}
  BY <1>1, MetaSaid
<1>3. FramesSurvive'
  BY <1>2, NothingSaid
<1> QED BY <1>1, <1>3, ConsumedPaired

\* The connection has ended.
LEMMA ReadEndPaired ==
  ASSUME Paired, ReadEnd
  PROVE  Paired'
<1>1. /\ wire' = wire /\ sent' = sent /\ opts' = opts /\ outcome'.frame = NoFrame
  BY DEF ReadEnd, Return
<1>2. FramesSurvive'
  BY <1>1, NothingSaid DEF NoFrame
<1> QED BY <1>1, <1>2 DEF Paired

\* What is received without an error is what was parsed.
LEMMA ReceivedParsed ==
  ASSUME NEW w, SoundFrame(w), NEW r, r = Received(w), r.err = NoError, NEW p, p = ParseFrame(w)
  PROVE  r = p /\ p.err = NoError
<1>o. PICK o : o = checkFrameOrder(p.frame)
  OBVIOUS
<1>1. r = IF Len(w.payload) > maxReadSize
            THEN [frame |-> NoFrame, err |-> OtherError("ErrFrameTooLarge")]
          ELSE IF p.err # NoError THEN p
          ELSE IF o # NoError THEN [frame |-> NoFrame, err |-> o]
          ELSE p
  BY <1>o DEF Received
<1>2. o = NoError \/ Failure(o)
  BY <1>o, Failures DEF checkFrameOrder
<1>3. p.err = NoError \/ Failure(p.err)
  BY ParsedFrame
<1>4. Failure(OtherError("ErrFrameTooLarge")) /\ ~ Failure(NoError)
  BY Failures DEF Failure, NoError
<1> QED BY <1>1, <1>2, <1>3, <1>4

\* A frame is returned as it is.
LEMMA ReadFramePaired ==
  ASSUME Reading, Paired, ReadFrame
  PROVE  Paired'
<1>w. PICK w : w = Head(wire)
  OBVIOUS
<1>c. PICK c : c = Head(sent)
  OBVIOUS
<1>r. PICK q : q = Received(w)
  OBVIOUS
<1>1. Consume /\ q.err = NoError /\ outcome'.frame = q.frame
  BY <1>r, <1>w DEF ReadFrame, Return
<1>2. opts' = opts /\ origin' = c /\ wire # <<>>
  BY <1>1, <1>c DEF Consume
<1>p. PICK p : p = ParseFrame(w)
  OBVIOUS
<1>3. q = p /\ p.err = NoError
  <2>1. SoundFrame(w)
    BY <1>1, <1>w, Consumed
  <2> QED BY <1>1, <1>p, <1>r, <2>1, ReceivedParsed
<1>4. ASSUME c # NoCall, ~opts.illegalWrites PROVE AsCalled(p.frame, c)
  <2>1. Lined(wire, sent) /\ Matched(wire, sent)
    BY <1>4 DEF Paired
  <2>2. WrittenBy(w, c)
    BY <1>2, <1>c, <1>w, <2>1, MatchedTail
  <2>3. PICK r : IsCall(c) /\ Wrote(c, r) /\ w = r.frame
    BY <1>4, <2>2 DEF WrittenBy
  <2>4. Passes(c, r, p)
    BY <1>3, <1>p, <2>3, Zenon DEF Passes, Wrote
  <2> QED BY <2>3, <2>4, EveryFrameSurvives
<1>5. FramesSurvive'
  BY <1>1, <1>2, <1>3, <1>4 DEF AsCalled, FramesSurvive
<1> QED BY <1>1, <1>5, ConsumedPaired

\* Every step keeps the frames and their calls in line.
LEMMA PairedStep == Encoding /\ Reading /\ Paired /\ [Next]_vars => Paired'
<1> SUFFICES ASSUME Encoding, Reading, Paired, [Next]_vars PROVE Paired'
  OBVIOUS
<1>1. ASSUME NEW c \in Calls, WriteCall(c) PROVE Paired'
  BY <1>1, WriteCallPaired
<1>2. ASSUME NEW w \in RawFrames, WriteRaw(w) PROVE Paired'
  BY <1>2, WriteRawPaired
<1>3. ASSUME NEW w \in Writers, writeFrame(w) PROVE Paired'
  BY <1>3, WriteFramePaired
<1>4. CASE HangUp
  BY <1>4, HangUpPaired
<1>5. CASE ReadRefused
  BY <1>5, ReadRefusedPaired
<1>6. CASE ReadFrame
  BY <1>6, ReadFramePaired
<1>7. CASE ReadMetaHeaders
  BY <1>7, ReadMetaHeadersPaired
<1>8. CASE ReadContinuation
  BY <1>8, ReadContinuationPaired
<1>9. CASE ReadEnd
  BY <1>9, ReadEndPaired
<1>10. CASE UNCHANGED vars
  <2>1. UNCHANGED <<opts, reader>> /\ wire' = wire /\ sent' = sent
    BY <1>10 DEF vars, reader
  <2>2. Lined(wire', sent') /\ (~opts.illegalWrites => Matched(wire', sent'))
    BY <2>1 DEF Paired
  <2> QED BY <2>1, <2>2, PairedUnread
<1> QED
  BY <1>1, <1>2, <1>3, <1>4, <1>5, <1>6, <1>7, <1>8, <1>9, <1>10 DEF Next

\* What a Write method was called with, without AllowIllegalWrites, is what the
\* peer's ReadFrame returns for that frame, if it does not refuse it: the type,
\* the flags, the stream and every parameter but the code of a GOAWAY, for any
\* octets, padding and priority (the Write methods and the parsers of frame.go).
THEOREM FramesRoundTrip == Spec => []FramesSurvive
<1>0. Spec => []Encoding
  BY EncodingInit, EncodingStep, PTL DEF Spec
<1>1. Spec => []Reading
  BY <1>0, ReadingInit, ReadingStep, PTL DEF Spec
<1>2. Paired => FramesSurvive
  BY DEF Paired
<1> QED BY <1>0, <1>1, <1>2, PairedInit, PairedStep, PTL DEF Spec
=============================================================================
