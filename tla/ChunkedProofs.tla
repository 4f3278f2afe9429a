---------------------------- MODULE ChunkedProofs ----------------------------
(***************************************************************************)
(* What is written in chunks is read back, and what is read is what the    *)
(* stream says: proofs about Chunked for any payloads, streams, sizes of   *)
(* the buffers and ways the connection cuts the stream into pieces.        *)
(*                                                                         *)
(* Decode walks the chunks of a stream.  That the walk has come to some    *)
(* position is said without recursion: every stream that begins with the   *)
(* bytes known so far decodes to what was found before that position and   *)
(* then to what the walk finds from there on.                              *)
(***************************************************************************)
EXTENDS Chunked, NaturalsInduction, WellFoundedInduction, SequenceTheorems, TLAPS

-----------------------------------------------------------------------------
(***************************************************************************)
(* Sequences, by their elements.                                           *)
(***************************************************************************)
\* A piece of a sequence.
LEMMA Piece ==
  ASSUME NEW S, NEW s \in Seq(S), NEW a \in Nat, NEW b \in Nat,
         1 <= a, a <= b + 1, b <= Len(s)
  PROVE  /\ SubSeq(s, a, b) \in Seq(S)
         /\ Len(SubSeq(s, a, b)) = b - a + 1
         /\ \A k \in 1 .. b - a + 1 : SubSeq(s, a, b)[k] = s[a + k - 1]
<1>1. Len(s) \in Nat /\ a \in 1 .. Len(s) + 1 /\ b \in a - 1 .. Len(s)
  OBVIOUS
<1> QED BY <1>1, SubSeqProperties

\* Two sequences after each other.
LEMMA Joined ==
  ASSUME NEW S, NEW s \in Seq(S), NEW t \in Seq(S)
  PROVE  /\ s \o t \in Seq(S)
         /\ Len(s \o t) = Len(s) + Len(t)
         /\ \A k \in 1 .. Len(s) : (s \o t)[k] = s[k]
         /\ \A k \in 1 .. Len(t) : (s \o t)[Len(s) + k] = t[k]
OBVIOUS

\* One element after a sequence.
LEMMA OneMore ==
  ASSUME NEW S, NEW s \in Seq(S), NEW x \in S
  PROVE  /\ s \o <<x>> \in Seq(S) /\ Len(s \o <<x>>) = Len(s) + 1
         /\ (s \o <<x>>)[Len(s) + 1] = x
         /\ \A k \in 1 .. Len(s) : (s \o <<x>>)[k] = s[k]
<1>1. <<x>> \in Seq(S) /\ Len(<<x>>) = 1 /\ <<x>>[1] = x
  OBVIOUS
<1>t. PICK t \in Seq(S) : t = <<x>> /\ Len(t) = 1 /\ t[1] = x
  BY <1>1
<1>2. /\ s \o t \in Seq(S) /\ Len(s \o t) = Len(s) + Len(t)
      /\ \A k \in 1 .. Len(s) : (s \o t)[k] = s[k]
      /\ \A k \in 1 .. Len(t) : (s \o t)[Len(s) + k] = t[k]
  BY Joined
<1>3. 1 \in 1 .. 1
  OBVIOUS
<1> QED BY <1>t, <1>2, <1>3

\* Sequences with the same elements are the same.
LEMMA SameElements ==
  ASSUME NEW S, NEW s \in Seq(S), NEW t \in Seq(S), Len(s) = Len(t),
         \A k \in 1 .. Len(s) : s[k] = t[k]
  PROVE  s = t
OBVIOUS

\* x is s followed by t.
JoinOf(x, s, t) == x = s \o t

\* Joined, of a named sequence.
LEMMA JoinedAs ==
  ASSUME NEW S, NEW s \in Seq(S), NEW t \in Seq(S), NEW x, JoinOf(x, s, t)
  PROVE  /\ x \in Seq(S)
         /\ Len(x) = Len(s) + Len(t)
         /\ \A k \in 1 .. Len(s) : x[k] = s[k]
         /\ \A k \in 1 .. Len(t) : x[Len(s) + k] = t[k]
BY Joined DEF JoinOf

\* Three sequences in a row, put together in either order.
LEMMA Regrouped ==
  ASSUME NEW S, NEW s \in Seq(S), NEW t \in Seq(S), NEW u \in Seq(S),
         NEW st, JoinOf(st, s, t), NEW tu, JoinOf(tu, t, u), NEW x, JoinOf(x, st, u)
  PROVE  JoinOf(x, s, tu)
<1>1. /\ st \in Seq(S) /\ Len(st) = Len(s) + Len(t)
      /\ \A k \in 1 .. Len(s) : st[k] = s[k]
      /\ \A k \in 1 .. Len(t) : st[Len(s) + k] = t[k]
  BY JoinedAs
<1>2. /\ tu \in Seq(S) /\ Len(tu) = Len(t) + Len(u)
      /\ \A k \in 1 .. Len(t) : tu[k] = t[k]
      /\ \A k \in 1 .. Len(u) : tu[Len(t) + k] = u[k]
  BY JoinedAs
<1>3. /\ x \in Seq(S) /\ Len(x) = Len(st) + Len(u)
      /\ \A k \in 1 .. Len(st) : x[k] = st[k]
      /\ \A k \in 1 .. Len(u) : x[Len(st) + k] = u[k]
  <2>1. st \in Seq(S)
    BY <1>1
  <2> HIDE <1>1
  <2> QED BY <2>1, JoinedAs
<1>y. PICK y : y = s \o tu
  OBVIOUS
<1>4. /\ y \in Seq(S) /\ Len(y) = Len(s) + Len(tu)
      /\ \A k \in 1 .. Len(s) : y[k] = s[k]
      /\ \A k \in 1 .. Len(tu) : y[Len(s) + k] = tu[k]
  BY <1>2, <1>y, Joined
<1>n. Len(s) \in Nat /\ Len(t) \in Nat /\ Len(u) \in Nat
  OBVIOUS
<1>5. Len(x) = Len(y) /\ Len(x) = Len(s) + Len(t) + Len(u)
  BY <1>1, <1>2, <1>3, <1>4, <1>n
<1>6. ASSUME NEW k \in 1 .. Len(x) PROVE x[k] = y[k]
  <2>1. CASE k \in 1 .. Len(s)
    <3>1. k \in 1 .. Len(st)
      BY <1>1, <1>n, <2>1
    <3> QED BY <1>1, <1>3, <1>4, <2>1, <3>1
  <2>2. ASSUME NEW j \in 1 .. Len(t), k = Len(s) + j PROVE x[k] = y[k]
    <3>1. k \in 1 .. Len(st) /\ j \in 1 .. Len(tu)
      BY <1>1, <1>2, <1>n, <2>2
    <3>2. x[k] = st[k] /\ st[k] = t[j]
      BY <1>1, <1>3, <2>2, <3>1
    <3>3. y[k] = tu[j] /\ tu[j] = t[j]
      BY <1>2, <1>4, <2>2, <3>1
    <3> QED BY <3>2, <3>3
  <2>3. ASSUME NEW j \in 1 .. Len(u), k = Len(s) + Len(t) + j PROVE x[k] = y[k]
    <3>1. k = Len(st) + j /\ Len(t) + j \in 1 .. Len(tu) /\ k = Len(s) + (Len(t) + j)
      BY <1>1, <1>2, <1>n, <2>3
    <3>2. x[k] = u[j]
      BY <1>3, <3>1
    <3>3. y[k] = tu[Len(t) + j] /\ tu[Len(t) + j] = u[j]
      BY <1>2, <1>4, <3>1
    <3> QED BY <3>2, <3>3
  <2>4. \/ k \in 1 .. Len(s)
        \/ k - Len(s) \in 1 .. Len(t) /\ k = Len(s) + (k - Len(s))
        \/ /\ k - Len(s) - Len(t) \in 1 .. Len(u)
           /\ k = Len(s) + Len(t) + (k - Len(s) - Len(t))
    BY <1>5, <1>n
  <2> QED BY <2>1, <2>2, <2>3, <2>4
<1>7. x = y
  BY <1>3, <1>4, <1>5, <1>6, SameElements
<1> QED BY <1>7, <1>y DEF JoinOf

\* Two adjacent pieces of a sequence are one piece.
LEMMA AdjacentPieces ==
  ASSUME NEW S, NEW s \in Seq(S), NEW a \in Nat, NEW b \in Nat, NEW c \in Nat,
         1 <= a, a <= b + 1, b <= c, c <= Len(s)
  PROVE  SubSeq(s, a, b) \o SubSeq(s, b + 1, c) = SubSeq(s, a, c)
<1>1. /\ SubSeq(s, a, b) \in Seq(S) /\ Len(SubSeq(s, a, b)) = b - a + 1
      /\ \A k \in 1 .. b - a + 1 : SubSeq(s, a, b)[k] = s[a + k - 1]
  BY Piece
<1>2. /\ SubSeq(s, b + 1, c) \in Seq(S) /\ Len(SubSeq(s, b + 1, c)) = c - b
      /\ \A k \in 1 .. c - b : SubSeq(s, b + 1, c)[k] = s[b + k]
  <2>1. /\ SubSeq(s, b + 1, c) \in Seq(S) /\ Len(SubSeq(s, b + 1, c)) = c - (b + 1) + 1
        /\ \A k \in 1 .. c - (b + 1) + 1 : SubSeq(s, b + 1, c)[k] = s[b + 1 + k - 1]
    <3>1. b + 1 \in Nat /\ 1 <= b + 1 /\ b + 1 <= c + 1
      OBVIOUS
    <3>2. SubSeq(s, b + 1, c) \in Seq(S)
      BY <3>1, Piece
    <3>3. Len(SubSeq(s, b + 1, c)) = c - (b + 1) + 1
      BY <3>1, Piece
    <3>4. \A k \in 1 .. c - (b + 1) + 1 : SubSeq(s, b + 1, c)[k] = s[b + 1 + k - 1]
      BY <3>1, Piece
    <3> QED BY <3>2, <3>3, <3>4
  <2>2. c - (b + 1) + 1 = c - b
    OBVIOUS
  <2>3. ASSUME NEW k \in 1 .. c - b PROVE SubSeq(s, b + 1, c)[k] = s[b + k]
    <3>1. b + 1 + k - 1 = b + k
      OBVIOUS
    <3> QED BY <2>1, <2>2, <3>1
  <2> QED BY <2>1, <2>2, <2>3
<1>3. /\ SubSeq(s, a, c) \in Seq(S) /\ Len(SubSeq(s, a, c)) = c - a + 1
      /\ \A k \in 1 .. c - a + 1 : SubSeq(s, a, c)[k] = s[a + k - 1]
  BY Piece
<1>p. PICK p \in Seq(S) : p = SubSeq(s, a, b)
  BY <1>1
<1>q. PICK q \in Seq(S) : q = SubSeq(s, b + 1, c)
  BY <1>2
<1>r. PICK r \in Seq(S) : r = SubSeq(s, a, c)
  BY <1>3
<1>4. /\ p \o q \in Seq(S) /\ Len(p \o q) = Len(p) + Len(q)
      /\ \A k \in 1 .. Len(p) : (p \o q)[k] = p[k]
      /\ \A k \in 1 .. Len(q) : (p \o q)[Len(p) + k] = q[k]
  BY Joined
<1>5. ASSUME NEW k \in 1 .. c - a + 1 PROVE (p \o q)[k] = r[k]
  <2>1. CASE k <= b - a + 1
    <3>1. k \in 1 .. b - a + 1 /\ k \in 1 .. Len(p)
      BY <1>1, <1>p, <2>1
    <3>2. (p \o q)[k] = p[k] /\ p[k] = s[a + k - 1]
      BY <1>1, <1>4, <1>p, <3>1
    <3>3. r[k] = s[a + k - 1]
      BY <1>3, <1>r
    <3> QED BY <3>2, <3>3
  <2>2. CASE ~ (k <= b - a + 1)
    <3>1. k - (b - a + 1) \in 1 .. c - b /\ k = (b - a + 1) + (k - (b - a + 1))
      BY <2>2
    <3>j. PICK j : j = k - (b - a + 1)
      OBVIOUS
    <3>l. Len(p) = b - a + 1 /\ Len(q) = c - b
      BY <1>1, <1>2, <1>p, <1>q
    <3>e. j \in 1 .. Len(q) /\ k = Len(p) + j
      BY <3>1, <3>j, <3>l
    <3>f. (p \o q)[k] = q[j]
      BY <1>4, <3>e
    <3>2. (p \o q)[k] = q[k - (b - a + 1)]
      BY <3>f, <3>j
    <3>3. q[k - (b - a + 1)] = s[b + (k - (b - a + 1))]
      BY <1>2, <1>q, <3>1
    <3>4. r[k] = s[a + k - 1] /\ a + k - 1 = b + (k - (b - a + 1))
      BY <1>3, <1>r
    <3> QED BY <3>2, <3>3, <3>4
  <2> QED BY <2>1, <2>2
<1>6. p \o q = r
  <2>1. Len(p \o q) = Len(r) /\ Len(r) = c - a + 1
    BY <1>1, <1>2, <1>3, <1>4, <1>p, <1>q, <1>r
  <2> QED BY <1>4, <1>5, <2>1, SameElements
<1> QED BY <1>6, <1>p, <1>q, <1>r

\* A beginning of a sequence has its elements.
LEMMA PrefixElements ==
  ASSUME NEW S, NEW s \in Seq(S), NEW t \in Seq(S)
  PROVE  IsPrefix(s, t) <=> Len(s) <= Len(t) /\ \A k \in 1 .. Len(s) : s[k] = t[k]
<1>1. /\ SubSeq(s, 1, Len(s)) \in Seq(S) /\ Len(SubSeq(s, 1, Len(s))) = Len(s)
      /\ \A k \in 1 .. Len(s) : SubSeq(s, 1, Len(s))[k] = s[k]
  BY Piece
<1>2. ASSUME Len(s) <= Len(t)
      PROVE  /\ SubSeq(t, 1, Len(s)) \in Seq(S) /\ Len(SubSeq(t, 1, Len(s))) = Len(s)
             /\ \A k \in 1 .. Len(s) : SubSeq(t, 1, Len(s))[k] = t[k]
  BY <1>2, Piece
<1>3. ASSUME IsPrefix(s, t) PROVE Len(s) <= Len(t) /\ \A k \in 1 .. Len(s) : s[k] = t[k]
  BY <1>1, <1>2, <1>3 DEF IsPrefix
<1>4. ASSUME Len(s) <= Len(t), \A k \in 1 .. Len(s) : s[k] = t[k] PROVE IsPrefix(s, t)
  <2>p. PICK p \in Seq(S) : p = SubSeq(s, 1, Len(s))
    BY <1>1
  <2>q. PICK q \in Seq(S) : q = SubSeq(t, 1, Len(s))
    BY <1>2, <1>4
  <2>1. Len(p) = Len(s) /\ Len(q) = Len(s) /\ \A k \in 1 .. Len(s) : p[k] = q[k]
    BY <1>1, <1>2, <1>4, <2>p, <2>q
  <2>2. p = q
    BY <2>1, SameElements
  <2> QED BY <1>4, <2>2, <2>p, <2>q DEF IsPrefix
<1> QED BY <1>3, <1>4

\* What follows a sequence leaves it a beginning.
LEMMA PrefixOfJoined ==
  ASSUME NEW S, NEW s \in Seq(S), NEW t \in Seq(S)
  PROVE  IsPrefix(s, s \o t)
<1>1. s \o t \in Seq(S) /\ Len(s \o t) = Len(s) + Len(t) /\ Len(s) \in Nat /\ Len(t) \in Nat
  BY Joined
<1>2. \A k \in 1 .. Len(s) : (s \o t)[k] = s[k]
  BY Joined
<1>p. PICK p \in Seq(S) : p = s \o t
  BY <1>1
<1>3. Len(s) <= Len(p) /\ \A k \in 1 .. Len(s) : s[k] = p[k]
  BY <1>1, <1>2, <1>p
<1>4. IsPrefix(s, p)
  BY <1>3, PrefixElements
<1> QED BY <1>4, <1>p

\* Being a beginning is transitive.
LEMMA PrefixTransitive ==
  ASSUME NEW S, NEW s \in Seq(S), NEW t \in Seq(S), NEW u \in Seq(S),
         IsPrefix(s, t), IsPrefix(t, u)
  PROVE  IsPrefix(s, u)
<1>1. Len(s) <= Len(t) /\ \A k \in 1 .. Len(s) : s[k] = t[k]
  BY PrefixElements
<1>2. Len(t) <= Len(u) /\ \A k \in 1 .. Len(t) : t[k] = u[k]
  BY PrefixElements
<1>3. Len(s) <= Len(u) /\ \A k \in 1 .. Len(s) : s[k] = u[k]
  BY <1>1, <1>2
<1> QED BY <1>3, PrefixElements

\* A piece of a beginning of a sequence is a piece of the sequence.
LEMMA PieceOfPrefix ==
  ASSUME NEW S, NEW s \in Seq(S), NEW t \in Seq(S), IsPrefix(s, t),
         NEW a \in Nat, NEW b \in Nat, 1 <= a, a <= b + 1, b <= Len(s)
  PROVE  SubSeq(s, a, b) = SubSeq(t, a, b)
<1>1. Len(s) <= Len(t) /\ \A k \in 1 .. Len(s) : s[k] = t[k]
  BY PrefixElements
<1>2. /\ SubSeq(s, a, b) \in Seq(S) /\ Len(SubSeq(s, a, b)) = b - a + 1
      /\ \A k \in 1 .. b - a + 1 : SubSeq(s, a, b)[k] = s[a + k - 1]
  BY Piece
<1>0. b <= Len(t)
  BY <1>1
<1>3. /\ SubSeq(t, a, b) \in Seq(S) /\ Len(SubSeq(t, a, b)) = b - a + 1
      /\ \A k \in 1 .. b - a + 1 : SubSeq(t, a, b)[k] = t[a + k - 1]
  BY <1>0, Piece
<1>p. PICK p \in Seq(S) : p = SubSeq(s, a, b)
  BY <1>2
<1>q. PICK q \in Seq(S) : q = SubSeq(t, a, b)
  BY <1>3
<1>4. \A k \in 1 .. b - a + 1 : a + k - 1 \in 1 .. Len(s)
  OBVIOUS
<1>5. \A k \in 1 .. b - a + 1 : p[k] = q[k]
  BY <1>1, <1>2, <1>3, <1>4, <1>p, <1>q
<1>6. Len(p) = Len(q) /\ Len(p) = b - a + 1
  BY <1>2, <1>3, <1>p, <1>q
<1>7. p = q
  BY <1>5, <1>6, SameElements
<1> QED BY <1>7, <1>p, <1>q

-----------------------------------------------------------------------------
(***************************************************************************)
(* Least numbers.  A least counterexample takes the place of induction.    *)
(***************************************************************************)
\* A set of naturals that is not empty has a least member.
LEMMA LeastNatural ==
  ASSUME NEW T, T \subseteq Nat, T # {}
  PROVE  \E x \in T : \A y \in T : x <= y
<1> DEFINE R == OpToRel(<, Nat)
<1>1. IsWellFoundedOn(R, Nat)
  BY NatLessThanWellFounded
<1> HIDE DEF R
<1>2. PICK x \in T : \A y \in T : ~ (<<y, x>> \in R)
  BY <1>1, WFMin
<1>3. \A y \in T : y < x => <<y, x>> \in R
  BY <1>2 DEF R, OpToRel
<1>4. \A y \in T : ~ (y < x)
  BY <1>2, <1>3
<1> QED BY <1>4

\* Min of a set with a least member is that member.
LEMMA MinIs ==
  ASSUME NEW T, T \subseteq Nat, NEW x \in T, \A y \in T : x <= y
  PROVE  Min(T) = x
<1>1. Min(T) \in T /\ \A y \in T : Min(T) <= y
  BY DEF Min
<1>m. PICK m : m = Min(T)
  OBVIOUS
<1>2. m \in Nat /\ x \in Nat /\ m <= x /\ x <= m
  BY <1>1, <1>m
<1>3. m = x
  BY <1>2
<1> QED BY <1>3, <1>m

\* Max of a set with a greatest member is that member.
LEMMA MaxIs ==
  ASSUME NEW T, T \subseteq Nat, NEW x \in T, \A y \in T : y <= x
  PROVE  Max(T) = x
<1>0. \A y \in T : x >= y
  OBVIOUS
<1>1. Max(T) \in T /\ \A y \in T : Max(T) >= y
  BY <1>0 DEF Max
<1>m. PICK m : m = Max(T)
  OBVIOUS
<1>2. m \in Nat /\ x \in Nat /\ m <= x /\ x <= m
  BY <1>1, <1>m
<1>3. m = x
  BY <1>2
<1> QED BY <1>3, <1>m

\* A set of naturals with a bound has a greatest member.
LEMMA GreatestNatural ==
  ASSUME NEW N \in Nat, NEW T, T \subseteq 0 .. N, T # {}
  PROVE  \E x \in T : \A y \in T : y <= x
<1> DEFINE U == {N - y : y \in T}
<1>0. \A y \in T : y \in Nat /\ N - y \in Nat
  OBVIOUS
<1>1. U \subseteq Nat /\ U # {}
  BY <1>0, Zenon
<1>2. PICK u \in U : \A y \in U : u <= y
  BY <1>1, LeastNatural
<1>3. PICK x \in T : u = N - x
  OBVIOUS
<1>4. ASSUME NEW y \in T PROVE y <= x
  <2>1. N - y \in U
    OBVIOUS
  <2>2. u <= N - y /\ y \in 0 .. N /\ x \in 0 .. N
    BY <1>2, <2>1
  <2> QED BY <1>3, <2>2
<1> QED BY <1>4

-----------------------------------------------------------------------------
(***************************************************************************)
(* Hex numbers.                                                            *)
(***************************************************************************)
\* The sixteen digits have numbers, "0" has 0, and no byte that has a part
\* in the framing is one.
LEMMA DigitFacts ==
  /\ HexVal \in [Hex -> Nat] /\ "0" \in Hex /\ HexVal["0"] = 0
  /\ Hex \subseteq Bytes /\ CRLF \in Seq(Bytes) /\ CRLF[1] = "CR" /\ CRLF[2] = "LF"
  /\ Len(CRLF) = 2 /\ "SEMI" \in Bytes
  /\ "CR" \notin Hex /\ "LF" \notin Hex /\ "SP" \notin Hex /\ "SEMI" \notin Hex
<1>1. DOMAIN Digits = 1 .. 16 /\ Digits[1] = "0"
  BY DEF Digits
<1>2. Hex = {"0", "1", "2", "3", "4", "5", "6", "7", "8", "9", "a", "b", "c", "d", "e", "f"}
  BY DEF Hex, Digits
<1>3. ASSUME NEW d \in Hex PROVE HexVal[d] \in Nat
  <2>1. PICK i \in 1 .. 16 : Digits[i] = d
    BY <1>1 DEF Hex
  <2>2. PICK j : j = CHOOSE k \in DOMAIN Digits : Digits[k] = d
    OBVIOUS
  <2>3. j \in 1 .. 16
    BY <1>1, <2>1, <2>2
  <2>4. HexVal[d] = j - 1
    BY <2>2 DEF HexVal
  <2> HIDE <2>2
  <2> QED BY <2>3, <2>4
<1>4. HexVal["0"] = 0
  <2>2. PICK j : j = CHOOSE k \in DOMAIN Digits : Digits[k] = "0"
    OBVIOUS
  <2>3. j \in 1 .. 16 /\ Digits[j] = "0"
    BY <1>1, <2>2
  <2>4. HexVal["0"] = j - 1
    BY <1>2, <2>2 DEF HexVal
  <2> HIDE <2>2
  <2>5. j = 1
    BY <2>3 DEF Digits
  <2> QED BY <2>4, <2>5
<1>5. HexVal \in [Hex -> Nat]
  BY <1>3 DEF HexVal
<1>6. CRLF \in Seq(Bytes) /\ CRLF[1] = "CR" /\ CRLF[2] = "LF" /\ Len(CRLF) = 2
  BY DEF CRLF, Bytes
<1>7. Hex \subseteq Bytes /\ "SEMI" \in Bytes
  BY DEF Bytes
<1> QED BY <1>2, <1>4, <1>5, <1>6, <1>7

\* The numbers of all beginnings of v up to the first m digits.
HexSumsTo(v, m, f) ==
  [k \in 0 .. m |-> IF k = 0 THEN 0 ELSE 16 * f[k - 1] + HexVal[v[k]]]
HexSums(v) == CHOOSE f : f = HexSumsTo(v, Len(v), f)

\* HexNumber is the last of these numbers.
LEMMA HexNumberIs ==
  ASSUME NEW v
  PROVE  HexNumber(v) = HexSums(v)[Len(v)]
BY DEF HexNumber, HexSums, HexSumsTo

\* They exist: a shortest beginning without them would get them from those
\* of the one before.
LEMMA HexSumsExist ==
  ASSUME NEW v \in Seq(Hex)
  PROVE  \A m \in 0 .. Len(v) : \E f : f = HexSumsTo(v, m, f)
<1> DEFINE Missing == {m \in 0 .. Len(v) : ~ \E f : f = HexSumsTo(v, m, f)}
<1> SUFFICES ASSUME Missing # {} PROVE FALSE
  OBVIOUS
<1>0. Len(v) \in Nat
  OBVIOUS
<1>1. Missing \subseteq Nat
  BY <1>0
<1>2. PICK x \in Missing : \A y \in Missing : x <= y
  BY <1>1, LeastNatural
<1>3. CASE x = 0
  <2> DEFINE g == [k \in 0 .. 0 |-> 0]
  <2>1. g = HexSumsTo(v, 0, g)
    BY DEF HexSumsTo
  <2> QED BY <1>2, <1>3, <2>1
<1>4. CASE x # 0
  <2>1. x - 1 \in 0 .. Len(v) /\ x \in 0 .. Len(v) /\ ~ (x <= x - 1)
    BY <1>0, <1>4
  <2>2. PICK f : f = HexSumsTo(v, x - 1, f)
    BY <1>2, <2>1
  <2> DEFINE g == [k \in 0 .. x |-> IF k = x THEN 16 * f[x - 1] + HexVal[v[x]] ELSE f[k]]
  <2>3. ASSUME NEW k \in 0 .. x
        PROVE  g[k] = IF k = 0 THEN 0 ELSE 16 * g[k - 1] + HexVal[v[k]]
    <3>1. CASE k = 0
      <4>1. f[0] = 0
        BY <2>1, <2>2 DEF HexSumsTo
      <4> QED BY <1>4, <3>1, <4>1
    <3>2. CASE k = x
      <4>1. g[k - 1] = f[x - 1]
        BY <2>1, <3>2
      <4> QED BY <1>4, <3>2, <4>1
    <3>3. CASE k # 0 /\ k # x
      <4>1. k \in 0 .. x - 1 /\ k - 1 \in 0 .. x /\ k - 1 # x
        BY <2>1, <3>3
      <4>2. f[k] = 16 * f[k - 1] + HexVal[v[k]]
        BY <2>2, <3>3, <4>1 DEF HexSumsTo
      <4> QED BY <3>3, <4>1, <4>2
    <3> QED BY <3>1, <3>2, <3>3
  <2>4. g = HexSumsTo(v, x, g)
    BY <2>3 DEF HexSumsTo
  <2> QED BY <2>4
<1> QED BY <1>3, <1>4

\* What the numbers of the beginnings are.
LEMMA HexSumsAre ==
  ASSUME NEW v \in Seq(Hex)
  PROVE  /\ HexSums(v)[0] = 0
         /\ \A k \in 1 .. Len(v) : HexSums(v)[k] = 16 * HexSums(v)[k - 1] + HexVal[v[k]]
<1>0. Len(v) \in Nat /\ Len(v) \in 0 .. Len(v)
  OBVIOUS
<1>1. \E f : f = HexSumsTo(v, Len(v), f)
  BY <1>0, HexSumsExist
<1>f. PICK f : f = HexSums(v)
  OBVIOUS
<1>2. f = HexSumsTo(v, Len(v), f)
  BY <1>1, <1>f DEF HexSums
<1> HIDE <1>f
<1>3. \A k \in 0 .. Len(v) : f[k] = IF k = 0 THEN 0 ELSE 16 * f[k - 1] + HexVal[v[k]]
  BY <1>2 DEF HexSumsTo
<1>4. f[0] = 0 /\ \A k \in 1 .. Len(v) : f[k] = 16 * f[k - 1] + HexVal[v[k]]
  BY <1>0, <1>3
<1> QED BY <1>4, <1>f

\* parseHexUint computes a natural number.
LEMMA HexNumberType ==
  ASSUME NEW v \in Seq(Hex)
  PROVE  HexNumber(v) \in Nat
<1> DEFINE Bad == {k \in 0 .. Len(v) : HexSums(v)[k] \notin Nat}
<1>0. Len(v) \in Nat
  OBVIOUS
<1>1. Bad = {}
  <2> SUFFICES ASSUME Bad # {} PROVE FALSE
    OBVIOUS
  <2>1. Bad \subseteq Nat
    BY <1>0
  <2>2. PICK x \in Bad : \A y \in Bad : x <= y
    BY <2>1, LeastNatural
  <2>3. x # 0
    BY HexSumsAre, <2>2
  <2>4. x - 1 \in 0 .. Len(v) /\ x \in 1 .. Len(v) /\ ~ (x <= x - 1)
    BY <1>0, <2>3
  <2>5. HexSums(v)[x - 1] \in Nat
    BY <2>2, <2>4
  <2>6. HexVal[v[x]] \in Nat
    <3>1. v[x] \in Hex
      BY <2>4
    <3> QED BY <3>1, DigitFacts
  <2>7. HexSums(v)[x] = 16 * HexSums(v)[x - 1] + HexVal[v[x]]
    BY <2>4, HexSumsAre
  <2>8. HexSums(v)[x] \in Nat
    BY <2>5, <2>6, <2>7
  <2> QED BY <2>2, <2>8
<1>2. HexSums(v)[Len(v)] \in Nat
  BY <1>0, <1>1
<1> QED BY <1>2, HexNumberIs

\* The sentinel chunk of Close has size 0.
LEMMA HexNumberOfZero == HexNumber(<<"0">>) = 0
<1>0. "0" \in Hex /\ HexVal["0"] = 0
  BY DigitFacts
<1>1. <<"0">> \in Seq(Hex) /\ Len(<<"0">>) = 1 /\ <<"0">>[1] = "0"
  BY <1>0
<1>v. PICK v \in Seq(Hex) : v = <<"0">> /\ Len(v) = 1 /\ v[1] = "0"
  BY <1>1
<1>w. v \in Seq(Hex) /\ Len(v) = 1 /\ v[1] = "0"
  BY <1>v
<1>2. HexSums(v)[0] = 0 /\ HexSums(v)[1] = 16 * HexSums(v)[0] + HexVal[v[1]]
  <2>1. 1 \in 1 .. Len(v) /\ 1 - 1 = 0
    BY <1>w
  <2>2. /\ HexSums(v)[0] = 0
        /\ \A k \in 1 .. Len(v) : HexSums(v)[k] = 16 * HexSums(v)[k - 1] + HexVal[v[k]]
    BY HexSumsAre
  <2> QED BY <2>1, <2>2
<1>3. HexSums(v)[1] = 0
  BY <1>0, <1>2, <1>w
<1>4. HexNumber(v) = 0
  BY <1>3, <1>v, HexNumberIs
<1> QED BY <1>4, <1>v

-----------------------------------------------------------------------------
(***************************************************************************)
(* The chunk-size line.                                                    *)
(***************************************************************************)
\* Trim and removeChunkExtension return a beginning of the line.
LEMMA LineParts ==
  ASSUME NEW line \in Seq(Bytes)
  PROVE  Trim(line) \in Seq(Bytes) /\ removeChunkExtension(line) \in Seq(Bytes)
<1>0. Len(line) \in Nat
  OBVIOUS
<1>1. Trim(line) \in Seq(Bytes)
  <2> DEFINE I == {i \in 1 .. Len(line) : line[i] \notin Spaces}
  <2>1. PICK e \in 0 .. Len(line) : e = SelectLastInSeq(line, LAMBDA b : b \notin Spaces)
    <3>1. CASE I = {}
      BY <1>0, <3>1 DEF SelectLastInSeq
    <3>2. CASE I # {}
      <4>0. I \subseteq 0 .. Len(line) /\ I \subseteq Nat
        BY <1>0
      <4>1. PICK x \in I : \A y \in I : y <= x
        BY <1>0, <3>2, <4>0, GreatestNatural
      <4>2. Max(I) = x
        BY <4>0, <4>1, MaxIs
      <4>3. SelectLastInSeq(line, LAMBDA b : b \notin Spaces) = x
        BY <3>2, <4>2 DEF SelectLastInSeq
      <4> QED BY <4>0, <4>3
    <3> QED BY <3>1, <3>2
  <2>2. SubSeq(line, 1, e) \in Seq(Bytes)
    BY <1>0, Piece
  <2> QED BY <2>1, <2>2 DEF Trim
<1>2. removeChunkExtension(line) \in Seq(Bytes)
  <2>s. "SEMI" \in Bytes
    BY DigitFacts
  <2>l. PICK l \in Seq(Bytes) : l = line \o <<"SEMI">> /\ Len(l) = Len(line) + 1 /\ l[Len(line) + 1] = "SEMI"
    BY <1>0, <2>s, OneMore
  <2>m. Len(l) = Len(line) + 1 /\ l[Len(line) + 1] = "SEMI"
    BY <2>l
  <2> DEFINE I == {i \in 1 .. Len(l) : l[i] = "SEMI"}
  <2>0. Len(line) + 1 \in I /\ I \subseteq Nat
    BY <1>0, <2>m
  <2>1. PICK x \in I : \A y \in I : x <= y
    BY <2>0, LeastNatural
  <2>2. Min(I) = x
    BY <2>0, <2>1, MinIs
  <2>3. SelectInSeq(line \o <<"SEMI">>, LAMBDA b : b = "SEMI") = x
    BY <2>0, <2>2, <2>l DEF SelectInSeq
  <2>4. x \in Nat /\ 1 <= x /\ x <= Len(line) + 1
    BY <2>m, <1>0, <2>1
  <2> HIDE DEF I
  <2>5. SubSeq(line, 1, x - 1) \in Seq(Bytes)
    <3>1. x - 1 \in Nat /\ 1 <= (x - 1) + 1 /\ x - 1 <= Len(line)
      BY <2>4, <1>0
    <3> QED BY <3>1, Piece
  <2> QED BY <2>3, <2>5 DEF removeChunkExtension
<1> QED BY <1>1, <1>2

\* Where the first bad byte of v is: 0 exactly when all are digits.
LEMMA BadByte ==
  ASSUME NEW v \in Seq(Bytes)
  PROVE  \E bad \in 0 .. Len(v) : /\ bad = SelectInSeq(v, LAMBDA b : b \notin Hex)
                                  /\ bad = 0 <=> v \in Seq(Hex)
<1>0. Len(v) \in Nat
  OBVIOUS
<1> DEFINE I == {i \in 1 .. Len(v) : v[i] \notin Hex}
<1>1. CASE I = {}
  <2>1. SelectInSeq(v, LAMBDA b : b \notin Hex) = 0
    BY <1>1 DEF SelectInSeq
  <2>2. \A i \in 1 .. Len(v) : v[i] \in Hex
    BY <1>1
  <2>3. v \in Seq(Hex)
    BY <2>2
  <2>4. 0 \in 0 .. Len(v)
    BY <1>0
  <2>5. 0 = SelectInSeq(v, LAMBDA b : b \notin Hex) /\ (0 = 0 <=> v \in Seq(Hex))
    BY <2>1, <2>3
  <2> QED BY <2>4, <2>5
<1>2. CASE I # {}
  <2>0. I \subseteq Nat
    BY <1>0
  <2>1. PICK x \in I : \A y \in I : x <= y
    BY <1>2, <2>0, LeastNatural
  <2>2. Min(I) = x
    BY <2>0, <2>1, MinIs
  <2>3. SelectInSeq(v, LAMBDA b : b \notin Hex) = x
    BY <1>2, <2>2 DEF SelectInSeq
  <2>4. x # 0 /\ x \in 0 .. Len(v) /\ x \in 1 .. Len(v) /\ v[x] \notin Hex
    BY <1>0, <2>1
  <2>5. v \notin Seq(Hex)
    BY <2>4
  <2> QED BY <2>3, <2>4, <2>5
<1> QED BY <1>1, <1>2

\* parseHexUint accepts exactly the digits that are not too many.
LEMMA ParseType ==
  ASSUME NEW v \in Seq(Bytes)
  PROVE  \/ parseHexUint(v) \in {[n |-> 0, err |-> "InvalidByte"], [n |-> 0, err |-> "TooLarge"]}
         \/ v \in Seq(Hex) /\ parseHexUint(v) = [n |-> HexNumber(v), err |-> "nil"]
<1>0. Len(v) \in Nat /\ MaxHexDigits \in Nat
  BY SizesAssumption
<1>1. PICK bad \in 0 .. Len(v) : /\ bad = SelectInSeq(v, LAMBDA b : b \notin Hex)
                                 /\ bad = 0 <=> v \in Seq(Hex)
  BY BadByte
<1>2. parseHexUint(v) =
        IF bad \in 1 .. MaxHexDigits + 1 THEN [n |-> 0, err |-> "InvalidByte"]
        ELSE IF Len(v) > MaxHexDigits THEN [n |-> 0, err |-> "TooLarge"]
        ELSE [n |-> HexNumber(v), err |-> "nil"]
  BY <1>1 DEF parseHexUint
<1>3. bad \in 1 .. MaxHexDigits + 1 \/ Len(v) > MaxHexDigits \/ bad = 0
  BY <1>0
<1> QED BY <1>1, <1>2, <1>3

\* beginChunk ends with a size of at least one byte or with an error.
LEMMA HeaderType ==
  ASSUME NEW line \in Seq(Bytes)
  PROVE  /\ ChunkHeader(line).n \in Nat
         /\ ChunkHeader(line).err \in Errors \ {"ErrUnexpectedEOF"}
         /\ ChunkHeader(line).err = "nil" => ChunkHeader(line).n > 0
<1>0. BufSize \in Nat /\ Len(line) \in Nat
  BY SizesAssumption
<1>1. Trim(line) \in Seq(Bytes)
  BY LineParts
<1>2. removeChunkExtension(Trim(line)) \in Seq(Bytes)
  BY <1>1, LineParts
<1>3. PICK v \in Seq(Bytes) : v = removeChunkExtension(Trim(line))
  BY <1>2
<1>4. PICK size : size = parseHexUint(v)
  OBVIOUS
<1>5. \/ size \in {[n |-> 0, err |-> "InvalidByte"], [n |-> 0, err |-> "TooLarge"]}
      \/ v \in Seq(Hex) /\ size = [n |-> HexNumber(v), err |-> "nil"]
  BY <1>4, ParseType
<1>6. ChunkHeader(line) =
        IF Len(line) >= BufSize THEN [n |-> 0, err |-> "ErrLineTooLong"]
        ELSE IF size = [n |-> 0, err |-> "nil"] THEN [n |-> 0, err |-> "EOF"] ELSE size
  BY <1>3, <1>4 DEF ChunkHeader
<1> HIDE <1>3, <1>4
<1>h. PICK h : h = ChunkHeader(line)
  OBVIOUS
<1>7. CASE size \in {[n |-> 0, err |-> "InvalidByte"], [n |-> 0, err |-> "TooLarge"]}
  <2>1. \E e \in {"ErrLineTooLong", "EOF", "InvalidByte", "TooLarge"} : h = [n |-> 0, err |-> e]
    BY <1>6, <1>7, <1>h
  <2>2. h.n \in Nat /\ h.err \in Errors \ {"ErrUnexpectedEOF"} /\ (h.err = "nil" => h.n > 0)
    BY <2>1 DEF Errors
  <2> QED BY <1>h, <2>2
<1>8. CASE v \in Seq(Hex) /\ size = [n |-> HexNumber(v), err |-> "nil"]
  <2>1. PICK m \in Nat : m = HexNumber(v)
    BY <1>8, HexNumberType
  <2>2. size = [n |-> m, err |-> "nil"]
    BY <1>8, <2>1
  <2> HIDE <2>1
  <2>3. CASE m = 0
    <3>1. \E e \in {"ErrLineTooLong", "EOF"} : h = [n |-> 0, err |-> e]
      BY <1>6, <1>h, <2>2, <2>3
    <3>2. h.n \in Nat /\ h.err \in Errors \ {"ErrUnexpectedEOF"} /\ (h.err = "nil" => h.n > 0)
      BY <3>1 DEF Errors
    <3> QED BY <1>h, <3>2
  <2>4. CASE m # 0
    <3>1. size # [n |-> 0, err |-> "nil"]
      BY <2>2, <2>4
    <3>2. h = [n |-> 0, err |-> "ErrLineTooLong"] \/ h = [n |-> m, err |-> "nil"]
      BY <1>6, <1>h, <2>2, <3>1
    <3>3. m > 0
      BY <2>4
    <3>4. h.n \in Nat /\ h.err \in Errors \ {"ErrUnexpectedEOF"} /\ (h.err = "nil" => h.n > 0)
      BY <3>2, <3>3 DEF Errors
    <3> QED BY <1>h, <3>4
  <2> QED BY <2>3, <2>4
<1> QED BY <1>5, <1>7, <1>8

\* What fmt.Fprintf("%x\r\n") and Close write is what beginChunk reads.
LEMMA HeaderOfDigits ==
  ASSUME NEW v \in Seq(Hex), Len(v) \in 1 .. MaxHexDigits
  PROVE  ChunkHeader(v \o CRLF) =
           IF HexNumber(v) = 0 THEN [n |-> 0, err |-> "EOF"]
                               ELSE [n |-> HexNumber(v), err |-> "nil"]
<1>0. /\ BufSize \in Nat /\ Len(v) \in Nat /\ MaxHexDigits \in Nat
      /\ BufSize > MaxHexDigits + 2 /\ Len(v) <= MaxHexDigits /\ 1 <= Len(v)
  BY SizesAssumption
<1>v. v \in Seq(Bytes) /\ \A i \in 1 .. Len(v) : v[i] \in Hex
  <2>1. Hex \subseteq Bytes
    BY DigitFacts
  <2> QED BY <2>1
<1>l. PICK l \in Seq(Bytes) :
        /\ l = v \o CRLF /\ Len(l) = Len(v) + 2
        /\ \A i \in 1 .. Len(v) : l[i] = v[i]
        /\ l[Len(v) + 1] = "CR" /\ l[Len(v) + 2] = "LF"
  <2>1. /\ v \o CRLF \in Seq(Bytes) /\ Len(v \o CRLF) = Len(v) + Len(CRLF)
        /\ \A k \in 1 .. Len(v) : (v \o CRLF)[k] = v[k]
        /\ \A k \in 1 .. Len(CRLF) : (v \o CRLF)[Len(v) + k] = CRLF[k]
    <3>1. CRLF \in Seq(Bytes)
      BY DigitFacts
    <3> QED BY <1>v, <3>1, Joined
  <2>2. Len(CRLF) = 2 /\ CRLF[1] = "CR" /\ CRLF[2] = "LF"
    BY DigitFacts
  <2>c. PICK c : c = v \o CRLF
    OBVIOUS
  <2>3. /\ c \in Seq(Bytes) /\ Len(c) = Len(v) + 2
        /\ \A k \in 1 .. Len(v) : c[k] = v[k]
        /\ \A k \in 1 .. 2 : c[Len(v) + k] = CRLF[k]
    BY <2>1, <2>2, <2>c
  <2>4. c[Len(v) + 1] = "CR" /\ c[Len(v) + 2] = "LF"
    BY <2>2, <2>3
  <2> QED BY <2>3, <2>4, <2>c
<1>1. Trim(l) = v
  <2> DEFINE I == {i \in 1 .. Len(l) : l[i] \notin Spaces}
  <2>1. Len(v) \in I
    <3>1. v[Len(v)] \in Hex
      BY <1>0, <1>v
    <3>2. v[Len(v)] \notin Spaces
      BY <3>1, DigitFacts DEF Spaces
    <3> QED BY <1>0, <1>l, <3>2
  <2>2. \A i \in I : i <= Len(v)
    <3> SUFFICES ASSUME NEW i \in 1 .. Len(l), l[i] \notin Spaces, ~ (i <= Len(v)) PROVE FALSE
      OBVIOUS
    <3>1. i = Len(v) + 1 \/ i = Len(v) + 2
      BY <1>0, <1>l
    <3> QED BY <1>l, <3>1 DEF Spaces
  <2>3. I \subseteq Nat
    BY <1>0, <1>l
  <2>4. Max(I) = Len(v)
    BY <2>1, <2>2, <2>3, MaxIs
  <2>5. SelectLastInSeq(l, LAMBDA b : b \notin Spaces) = Len(v)
    BY <2>1, <2>4 DEF SelectLastInSeq
  <2>6. SubSeq(l, 1, Len(v)) = v
    <3>1. /\ SubSeq(l, 1, Len(v)) \in Seq(Bytes) /\ Len(SubSeq(l, 1, Len(v))) = Len(v)
          /\ \A k \in 1 .. Len(v) : SubSeq(l, 1, Len(v))[k] = l[k]
      BY <1>0, <1>l, Piece
    <3>p. PICK p \in Seq(Bytes) : p = SubSeq(l, 1, Len(v))
      BY <3>1
    <3>2. Len(p) = Len(v) /\ \A k \in 1 .. Len(p) : p[k] = v[k]
      BY <1>l, <3>1, <3>p
    <3>3. p = v
      BY <1>v, <3>2, SameElements
    <3> QED BY <3>3, <3>p
  <2> QED BY <2>5, <2>6 DEF Trim
<1>2. removeChunkExtension(v) = v
  <2>s. "SEMI" \in Bytes
    BY DigitFacts
  <2>t. PICK u : u = v \o <<"SEMI">>
    OBVIOUS
  <2>u. /\ u \in Seq(Bytes) /\ Len(u) = Len(v) + 1
        /\ u[Len(v) + 1] = "SEMI" /\ \A i \in 1 .. Len(v) : u[i] = v[i]
    BY <1>v, <2>s, <2>t, OneMore
  <2> DEFINE I == {i \in 1 .. Len(u) : u[i] = "SEMI"}
  <2>1. Len(v) + 1 \in I /\ I \subseteq Nat
    BY <1>0, <2>u
  <2>2. \A i \in I : Len(v) + 1 <= i
    <3> SUFFICES ASSUME NEW i \in 1 .. Len(u), u[i] = "SEMI", ~ (Len(v) + 1 <= i) PROVE FALSE
      OBVIOUS
    <3>1. i \in 1 .. Len(v)
      BY <1>0, <2>u
    <3>2. u[i] \in Hex
      BY <1>v, <2>u, <3>1
    <3> QED BY <3>2, DigitFacts
  <2>3. Min(I) = Len(v) + 1
    BY <2>1, <2>2, MinIs
  <2>4. SelectInSeq(v \o <<"SEMI">>, LAMBDA b : b = "SEMI") = Len(v) + 1
    BY <2>1, <2>3, <2>t DEF SelectInSeq
  <2>5. SubSeq(v, 1, (Len(v) + 1) - 1) = v
    <3>1. (Len(v) + 1) - 1 = Len(v)
      BY <1>0
    <3>2. SubSeq(v, 1, Len(v)) = v
      BY <1>0
    <3> QED BY <3>1, <3>2
  <2> QED BY <2>4, <2>5 DEF removeChunkExtension
<1>3. parseHexUint(v) = [n |-> HexNumber(v), err |-> "nil"]
  <2>1. PICK bad \in 0 .. Len(v) : /\ bad = SelectInSeq(v, LAMBDA b : b \notin Hex)
                                   /\ bad = 0 <=> v \in Seq(Hex)
    BY <1>v, BadByte
  <2>2. bad = 0
    BY <2>1
  <2>3. ~ (bad \in 1 .. MaxHexDigits + 1) /\ ~ (Len(v) > MaxHexDigits)
    BY <1>0, <2>2
  <2> QED BY <2>1, <2>3 DEF parseHexUint
<1>m. PICK m \in Nat : m = HexNumber(v)
  BY HexNumberType
<1>4. ~ (Len(l) >= BufSize)
  BY <1>0, <1>l
<1>5. ChunkHeader(l) = IF [n |-> m, err |-> "nil"] = [n |-> 0, err |-> "nil"]
                         THEN [n |-> 0, err |-> "EOF"] ELSE [n |-> m, err |-> "nil"]
  BY <1>1, <1>2, <1>3, <1>4, <1>m DEF ChunkHeader
<1>6. [n |-> m, err |-> "nil"] = [n |-> 0, err |-> "nil"] <=> m = 0
  OBVIOUS
<1>7. ChunkHeader(l) = IF m = 0 THEN [n |-> 0, err |-> "EOF"] ELSE [n |-> m, err |-> "nil"]
  BY <1>5, <1>6
<1> QED BY <1>7, <1>l, <1>m

-----------------------------------------------------------------------------
(***************************************************************************)
(* One chunk of a stream.                                                  *)
(***************************************************************************)
\* The line that starts at i ends at f; or no line that starts at i ends.
LineAt(w, i, f) ==
  /\ i \in Nat /\ f \in Nat /\ 1 <= i /\ i <= f /\ f <= Len(w)
  /\ w[f] = "LF" /\ \A j \in i .. f - 1 : w[j] # "LF"
NoLine(w, i) == \A j \in i .. Len(w) : w[j] # "LF"

\* What follows a size line that ends at f and says m.
DataAt(w, f, m) ==
  [body |-> SubSeq(w, f + 1, IF f + m <= Len(w) THEN f + m ELSE Len(w)),
   next |-> f + m + 3,
   err |-> IF Len(w) < f + m + 2 THEN "ErrUnexpectedEOF"
           ELSE IF SubSeq(w, f + m + 1, f + m + 2) # CRLF THEN "Malformed"
           ELSE "nil"]

\* A line either ends or does not.
LEMMA LineOrNot ==
  ASSUME NEW w \in Seq(Bytes), NEW i \in Nat, 1 <= i
  PROVE  (\E f : LineAt(w, i, f)) \/ NoLine(w, i)
<1> DEFINE T == {j \in i .. Len(w) : w[j] = "LF"}
<1> SUFFICES ASSUME ~ NoLine(w, i) PROVE \E f : LineAt(w, i, f)
  OBVIOUS
<1>0. Len(w) \in Nat
  OBVIOUS
<1>1. T # {} /\ T \subseteq Nat
  BY <1>0 DEF NoLine
<1>2. PICK f \in T : \A y \in T : f <= y
  BY <1>1, LeastNatural
<1>3. f \in Nat /\ i <= f /\ f <= Len(w) /\ w[f] = "LF"
  BY <1>0, <1>2
<1>4. ASSUME NEW j \in i .. f - 1, w[j] = "LF" PROVE FALSE
  <2>1. j \in T /\ ~ (f <= j)
    BY <1>0, <1>3, <1>4
  <2> QED BY <1>2, <2>1
<1> QED BY <1>3, <1>4 DEF LineAt

\* Where ChunkAt finds the end of a line.
LEMMA LineEnd ==
  ASSUME NEW w \in Seq(Bytes), NEW i, NEW f, LineAt(w, i, f)
  PROVE  /\ {j \in i .. Len(w) : w[j] = "LF"} # {}
         /\ Min({j \in i .. Len(w) : w[j] = "LF"}) = f
<1> DEFINE T == {j \in i .. Len(w) : w[j] = "LF"}
<1>0. /\ i \in Nat /\ f \in Nat /\ 1 <= i /\ i <= f /\ f <= Len(w) /\ Len(w) \in Nat
      /\ w[f] = "LF" /\ \A j \in i .. f - 1 : w[j] # "LF"
  BY DEF LineAt
<1>1. f \in T /\ T \subseteq Nat
  BY <1>0
<1>2. ASSUME NEW y \in T PROVE f <= y
  BY <1>0
<1> QED BY <1>1, <1>2, MinIs

\* A stream that ends within the size line.
LEMMA ChunkNoLine ==
  ASSUME NEW w \in Seq(Bytes), NEW i \in Nat, NoLine(w, i)
  PROVE  ChunkAt(w, i) = [body |-> <<>>, next |-> 0,
                          err |-> IF Len(w) - i + 1 >= BufSize THEN "ErrLineTooLong"
                                                               ELSE "ErrUnexpectedEOF"]
<1>1. {j \in i .. Len(w) : w[j] = "LF"} = {}
  BY DEF NoLine
<1> QED BY <1>1 DEF ChunkAt

\* A size line that beginChunk refuses, or the last one.
LEMMA ChunkBadLine ==
  ASSUME NEW w \in Seq(Bytes), NEW i, NEW f, LineAt(w, i, f),
         ChunkHeader(SubSeq(w, i, f)).err # "nil"
  PROVE  ChunkAt(w, i) = [body |-> <<>>, next |-> 0, err |-> ChunkHeader(SubSeq(w, i, f)).err]
<1>T. PICK T : T = {j \in i .. Len(w) : w[j] = "LF"}
  OBVIOUS
<1>1. T # {} /\ Min(T) = f
  BY <1>T, LineEnd
<1>h. PICK h : h = ChunkHeader(SubSeq(w, i, f))
  OBVIOUS
<1>2. h.err # "nil"
  BY <1>h
<1>3. ChunkAt(w, i) = [body |-> <<>>, next |-> 0, err |-> h.err]
  BY <1>T, <1>1, <1>h, <1>2 DEF ChunkAt
<1> QED BY <1>3, <1>h

\* The smaller of two numbers.
LEMMA MinOfTwo ==
  ASSUME NEW a \in Nat, NEW b \in Nat
  PROVE  Min({a, b}) = IF a <= b THEN a ELSE b
<1>1. CASE a <= b
  <2>1. {a, b} \subseteq Nat /\ a \in {a, b} /\ \A y \in {a, b} : a <= y
    BY <1>1
  <2> QED BY <1>1, <2>1, MinIs
<1>2. CASE ~ (a <= b)
  <2>1. {a, b} \subseteq Nat /\ b \in {a, b} /\ \A y \in {a, b} : b <= y
    BY <1>2
  <2> QED BY <1>2, <2>1, MinIs
<1> QED BY <1>1, <1>2

\* A size line that beginChunk accepts.
LEMMA ChunkLine ==
  ASSUME NEW w \in Seq(Bytes), NEW i, NEW f, LineAt(w, i, f),
         NEW m \in Nat, ChunkHeader(SubSeq(w, i, f)).err = "nil",
         ChunkHeader(SubSeq(w, i, f)).n = m
  PROVE  ChunkAt(w, i) = DataAt(w, f, m)
<1>T. PICK T : T = {j \in i .. Len(w) : w[j] = "LF"}
  OBVIOUS
<1>1. T # {} /\ Min(T) = f
  BY <1>T, LineEnd
<1>h. PICK h : h = ChunkHeader(SubSeq(w, i, f))
  OBVIOUS
<1>2. h.err = "nil" /\ h.n = m
  BY <1>h
<1>3. f \in Nat /\ f + m \in Nat /\ Len(w) \in Nat
  BY DEF LineAt
<1>4. Min({f + m, Len(w)}) = IF f + m <= Len(w) THEN f + m ELSE Len(w)
  BY <1>3, MinOfTwo
<1>5. ChunkAt(w, i) =
        [body |-> SubSeq(w, f + 1, Min({f + m, Len(w)})), next |-> f + m + 3,
         err |-> IF Len(w) < f + m + 2 THEN "ErrUnexpectedEOF"
                 ELSE IF SubSeq(w, f + m + 1, f + m + 2) # CRLF THEN "Malformed"
                 ELSE "nil"]
  BY <1>T, <1>1, <1>h, <1>2 DEF ChunkAt
<1> QED BY <1>4, <1>5 DEF DataAt

\* The bytes of a line.
LEMMA LineBytes ==
  ASSUME NEW w \in Seq(Bytes), NEW i, NEW f, LineAt(w, i, f)
  PROVE  SubSeq(w, i, f) \in Seq(Bytes) /\ Len(SubSeq(w, i, f)) = f - i + 1
<1>1. i \in Nat /\ f \in Nat /\ 1 <= i /\ i <= f + 1 /\ f <= Len(w)
  BY DEF LineAt
<1> QED BY <1>1, Piece

\* What a chunk of DataAt consists of.
LEMMA DataType ==
  ASSUME NEW w \in Seq(Bytes), NEW f \in Nat, f <= Len(w), NEW m \in Nat
  PROVE  /\ DataAt(w, f, m).body \in Seq(Bytes)
         /\ DataAt(w, f, m).err \in Errors
         /\ DataAt(w, f, m).next = f + m + 3
         /\ DataAt(w, f, m).err = "nil" => f + m + 2 <= Len(w)
<1>0. Len(w) \in Nat
  OBVIOUS
<1>e. PICK e \in Nat : /\ e = (IF f + m <= Len(w) THEN f + m ELSE Len(w))
                       /\ f <= e /\ e <= Len(w)
  BY <1>0
<1>1. SubSeq(w, f + 1, e) \in Seq(Bytes)
  BY <1>e, Piece
<1>2. DataAt(w, f, m).body = SubSeq(w, f + 1, e)
  BY <1>e DEF DataAt
<1>3. DataAt(w, f, m).err \in {"ErrUnexpectedEOF", "Malformed", "nil"}
  BY DEF DataAt
<1>4. DataAt(w, f, m).err = "nil" => ~ (Len(w) < f + m + 2)
  BY DEF DataAt
<1>5. DataAt(w, f, m).next = f + m + 3
  BY DEF DataAt
<1> QED BY <1>0, <1>1, <1>2, <1>3, <1>4, <1>5 DEF Errors

\* Every chunk that does not end the stream is followed by a later one.
LEMMA ChunkType ==
  ASSUME NEW w \in Seq(Bytes), NEW i \in Nat, 1 <= i, i <= Len(w) + 1
  PROVE  /\ ChunkAt(w, i).body \in Seq(Bytes)
         /\ ChunkAt(w, i).err \in Errors
         /\ ChunkAt(w, i).err = "nil" =>
              /\ ChunkAt(w, i).next \in Nat
              /\ i < ChunkAt(w, i).next /\ ChunkAt(w, i).next <= Len(w) + 1
<1>0. Len(w) \in Nat
  OBVIOUS
<1>1. CASE NoLine(w, i)
  <2>1. PICK e \in {"ErrLineTooLong", "ErrUnexpectedEOF"} :
          ChunkAt(w, i) = [body |-> <<>>, next |-> 0, err |-> e]
    BY <1>1, ChunkNoLine
  <2> QED BY <2>1 DEF Errors
<1>2. ASSUME NEW f, LineAt(w, i, f)
      PROVE  /\ ChunkAt(w, i).body \in Seq(Bytes)
             /\ ChunkAt(w, i).err \in Errors
             /\ ChunkAt(w, i).err = "nil" =>
                  /\ ChunkAt(w, i).next \in Nat
                  /\ i < ChunkAt(w, i).next /\ ChunkAt(w, i).next <= Len(w) + 1
  <2>1. SubSeq(w, i, f) \in Seq(Bytes)
    BY <1>2, LineBytes
  <2>h. PICK h : h = ChunkHeader(SubSeq(w, i, f))
    OBVIOUS
  <2>2. h.n \in Nat /\ h.err \in Errors
    BY <2>1, <2>h, HeaderType
  <2>3. CASE h.err # "nil"
    <3>1. ChunkAt(w, i) = [body |-> <<>>, next |-> 0, err |-> h.err]
      BY <1>2, <2>3, <2>h, ChunkBadLine
    <3> QED BY <2>2, <2>3, <3>1
  <2>4. CASE h.err = "nil"
    <3>1. PICK m \in Nat : m = h.n
      BY <2>2
    <3>2. ChunkAt(w, i) = DataAt(w, f, m)
      BY <1>2, <2>4, <2>h, <3>1, ChunkLine
    <3>3. f \in Nat /\ f <= Len(w) /\ i <= f
      BY <1>2 DEF LineAt
    <3>4. /\ DataAt(w, f, m).body \in Seq(Bytes)
          /\ DataAt(w, f, m).err \in Errors
          /\ DataAt(w, f, m).next = f + m + 3
          /\ DataAt(w, f, m).err = "nil" => f + m + 2 <= Len(w)
      BY <3>3, DataType
    <3>5. f + m + 3 \in Nat /\ i < f + m + 3 /\ (f + m + 2 <= Len(w) => f + m + 3 <= Len(w) + 1)
      BY <1>0, <3>3
    <3> QED BY <3>2, <3>4, <3>5
  <2> QED BY <2>3, <2>4
<1> QED BY <1>1, <1>2, LineOrNot

-----------------------------------------------------------------------------
(***************************************************************************)
(* The walk over the chunks of a stream.                                   *)
(***************************************************************************)
\* The walk from i, given the walks g from later positions.
StepFrom(w, i, g) ==
  IF ChunkAt(w, i).err # "nil" THEN [body |-> ChunkAt(w, i).body, err |-> ChunkAt(w, i).err]
  ELSE [body |-> ChunkAt(w, i).body \o g[ChunkAt(w, i).next].body,
        err |-> g[ChunkAt(w, i).next].err]
WalksFrom(w, m, g) == [i \in m .. Len(w) + 1 |-> StepFrom(w, i, g)]

\* The walks exist: a last position without one would get its walk from
\* those of the positions after it.
LEMMA WalksExist ==
  ASSUME NEW w \in Seq(Bytes)
  PROVE  \A d \in 0 .. Len(w) + 1 : \E g : g = WalksFrom(w, Len(w) + 2 - d, g)
<1> DEFINE Missing == {d \in 0 .. Len(w) + 1 : ~ \E g : g = WalksFrom(w, Len(w) + 2 - d, g)}
<1> SUFFICES ASSUME Missing # {} PROVE FALSE
  OBVIOUS
<1>0. Len(w) \in Nat
  OBVIOUS
<1>1. Missing \subseteq Nat
  BY <1>0
<1>2. PICK x \in Missing : \A y \in Missing : x <= y
  BY <1>1, LeastNatural
<1>3. CASE x = 0
  <2> DEFINE g == [k \in {} |-> 0]
  <2>1. (Len(w) + 2 - 0) .. Len(w) + 1 = {}
    BY <1>0
  <2>2. g = WalksFrom(w, Len(w) + 2 - 0, g)
    BY <2>1 DEF WalksFrom
  <2> QED BY <1>2, <1>3, <2>2
<1>4. CASE x # 0
  <2>1. x - 1 \in 0 .. Len(w) + 1 /\ x \in 0 .. Len(w) + 1 /\ ~ (x <= x - 1)
    BY <1>0, <1>4
  <2>2. PICK f : f = WalksFrom(w, Len(w) + 2 - (x - 1), f)
    BY <1>2, <2>1
  <2>0. /\ Len(w) + 2 - x \in Nat /\ 1 <= Len(w) + 2 - x
        /\ Len(w) + 2 - x <= Len(w) + 1
    BY <1>0, <1>4, <2>1
  <2>m. PICK m \in Nat : m = Len(w) + 2 - x /\ 1 <= m /\ m <= Len(w) + 1
    BY <2>0
  <2>3. Len(w) + 2 - (x - 1) = m + 1
    BY <1>0, <2>1, <2>m
  <2>4. \A i \in m + 1 .. Len(w) + 1 : f[i] = StepFrom(w, i, f)
    BY <2>2, <2>3 DEF WalksFrom
  <2> DEFINE g == [i \in m .. Len(w) + 1 |-> IF i = m THEN StepFrom(w, m, f) ELSE f[i]]
  <2>5. \A i \in m + 1 .. Len(w) + 1 : g[i] = f[i]
    BY <1>0, <2>m
  <2>6. ASSUME NEW i \in m .. Len(w) + 1 PROVE StepFrom(w, i, g) = StepFrom(w, i, f)
    <3>1. CASE ChunkAt(w, i).err # "nil"
      BY <3>1 DEF StepFrom
    <3>2. CASE ChunkAt(w, i).err = "nil"
      <4>1. i \in Nat /\ 1 <= i /\ i <= Len(w) + 1
        BY <1>0, <2>m
      <4>2. /\ ChunkAt(w, i).next \in Nat
            /\ i < ChunkAt(w, i).next /\ ChunkAt(w, i).next <= Len(w) + 1
        BY <3>2, <4>1, ChunkType
      <4>3. ChunkAt(w, i).next \in m + 1 .. Len(w) + 1
        BY <1>0, <2>m, <4>2
      <4>4. g[ChunkAt(w, i).next] = f[ChunkAt(w, i).next]
        BY <2>5, <4>3
      <4> QED BY <3>2, <4>4 DEF StepFrom
    <3> QED BY <3>1, <3>2
  <2>7. ASSUME NEW i \in m .. Len(w) + 1 PROVE g[i] = StepFrom(w, i, g)
    <3>1. CASE i = m
      BY <2>6, <3>1
    <3>2. CASE i # m
      <4>1. i \in m + 1 .. Len(w) + 1
        BY <1>0, <2>m, <3>2
      <4> QED BY <2>4, <2>5, <2>6, <4>1
    <3> QED BY <3>1, <3>2
  <2>8. g = WalksFrom(w, m, g)
    BY <2>7 DEF WalksFrom
  <2> QED BY <2>8, <2>m
<1> QED BY <1>3, <1>4

\* What Bodies computes.
LEMMA BodiesAre ==
  ASSUME NEW w \in Seq(Bytes), NEW i \in Nat, 1 <= i, i <= Len(w) + 1
  PROVE  Bodies(w)[i] = StepFrom(w, i, Bodies(w))
<1>0. Len(w) \in Nat /\ Len(w) + 1 \in 0 .. Len(w) + 1 /\ Len(w) + 2 - (Len(w) + 1) = 1
  OBVIOUS
<1>1. \E g : g = WalksFrom(w, 1, g)
  <2>1. \E g : g = WalksFrom(w, Len(w) + 2 - (Len(w) + 1), g)
    BY <1>0, WalksExist
  <2> QED BY <1>0, <2>1
<1>f. PICK f : f = Bodies(w)
  OBVIOUS
<1>2. Bodies(w) = CHOOSE g : g = WalksFrom(w, 1, g)
  BY DEF Bodies, WalksFrom, StepFrom
<1>3. f = WalksFrom(w, 1, f)
  BY <1>1, <1>2, <1>f
<1> HIDE <1>2, <1>f
<1>4. i \in 1 .. Len(w) + 1
  BY <1>0
<1>5. f[i] = StepFrom(w, i, f)
  BY <1>3, <1>4 DEF WalksFrom
<1> QED BY <1>5, <1>f

\* A chunk that ends the stream.
LEMMA BodyEnds ==
  ASSUME NEW w \in Seq(Bytes), NEW i \in Nat, 1 <= i, i <= Len(w) + 1,
         ChunkAt(w, i).err # "nil"
  PROVE  /\ Bodies(w)[i].body = ChunkAt(w, i).body
         /\ Bodies(w)[i].err = ChunkAt(w, i).err
<1>1. Bodies(w)[i] = StepFrom(w, i, Bodies(w))
  BY BodiesAre
<1> QED BY <1>1 DEF StepFrom

\* The next chunk after the one at i starts at k.
GoesTo(w, i, k) == ChunkAt(w, i).err = "nil" /\ k = ChunkAt(w, i).next

\* A chunk with another one after it.
LEMMA BodyStep ==
  ASSUME NEW w \in Seq(Bytes), NEW i \in Nat, 1 <= i, i <= Len(w) + 1, NEW k, GoesTo(w, i, k)
  PROVE  Bodies(w)[i] = [body |-> ChunkAt(w, i).body \o Bodies(w)[k].body, err |-> Bodies(w)[k].err]
<1>1. Bodies(w)[i] = StepFrom(w, i, Bodies(w))
  BY BodiesAre
<1>2. ChunkAt(w, i).err = "nil" /\ k = ChunkAt(w, i).next
  BY DEF GoesTo
<1> QED BY <1>1, <1>2 DEF StepFrom

\* Its data comes first.
LEMMA NextBody ==
  ASSUME NEW w \in Seq(Bytes), NEW i \in Nat, 1 <= i, i <= Len(w) + 1, NEW k, GoesTo(w, i, k)
  PROVE  Bodies(w)[i].body = ChunkAt(w, i).body \o Bodies(w)[k].body
<1>b. PICK b : b = ChunkAt(w, i).body \o Bodies(w)[k].body
  OBVIOUS
<1>e. PICK e : e = Bodies(w)[k].err
  OBVIOUS
<1>1. Bodies(w)[i] = [body |-> b, err |-> e]
  BY <1>b, <1>e, BodyStep
<1>2. Bodies(w)[i].body = b
  BY <1>1
<1> QED BY <1>2, <1>b

\* The end is that of the rest.
LEMMA NextErr ==
  ASSUME NEW w \in Seq(Bytes), NEW i \in Nat, 1 <= i, i <= Len(w) + 1, NEW k, GoesTo(w, i, k)
  PROVE  Bodies(w)[i].err = Bodies(w)[k].err
<1>b. PICK b : b = ChunkAt(w, i).body \o Bodies(w)[k].body
  OBVIOUS
<1>e. PICK e : e = Bodies(w)[k].err
  OBVIOUS
<1>1. Bodies(w)[i] = [body |-> b, err |-> e]
  BY <1>b, <1>e, BodyStep
<1>2. Bodies(w)[i].err = e
  BY <1>1
<1> QED BY <1>2, <1>e

\* The walk finds bytes and ends with an error.
LEMMA BodyType ==
  ASSUME NEW w \in Seq(Bytes)
  PROVE  \A i \in 1 .. Len(w) + 1 :
           Bodies(w)[i].body \in Seq(Bytes) /\ Bodies(w)[i].err \in Errors \ {"nil"}
<1> DEFINE Good(i) == Bodies(w)[i].body \in Seq(Bytes) /\ Bodies(w)[i].err \in Errors \ {"nil"}
<1> DEFINE Bad == {i \in 1 .. Len(w) + 1 : ~ Good(i)}
<1> SUFFICES ASSUME Bad # {} PROVE FALSE
  OBVIOUS
<1>0. Len(w) \in Nat /\ Len(w) + 1 \in Nat /\ Bad \subseteq 0 .. Len(w) + 1
  OBVIOUS
<1>1. PICK x \in Bad : \A y \in Bad : y <= x
  BY <1>0, GreatestNatural
<1>2. x \in Nat /\ 1 <= x /\ x <= Len(w) + 1 /\ ~ Good(x)
  BY <1>0, <1>1
<1>3. ASSUME NEW y \in Nat, x < y, y <= Len(w) + 1 PROVE Good(y)
  BY <1>0, <1>1, <1>2, <1>3
<1> HIDE DEF Bad
<1>4. /\ ChunkAt(w, x).body \in Seq(Bytes)
      /\ ChunkAt(w, x).err \in Errors
      /\ ChunkAt(w, x).err = "nil" =>
           /\ ChunkAt(w, x).next \in Nat
           /\ x < ChunkAt(w, x).next /\ ChunkAt(w, x).next <= Len(w) + 1
  BY <1>2, ChunkType
<1>5. CASE ChunkAt(w, x).err # "nil"
  <2>1. /\ Bodies(w)[x].body = ChunkAt(w, x).body
        /\ Bodies(w)[x].err = ChunkAt(w, x).err
    BY <1>2, <1>5, BodyEnds
  <2> QED BY <1>2, <1>4, <1>5, <2>1
<1>6. CASE ChunkAt(w, x).err = "nil"
  <2>k. PICK k \in Nat : k = ChunkAt(w, x).next /\ x < k /\ k <= Len(w) + 1
    BY <1>4, <1>6
  <2>g. GoesTo(w, x, k)
    BY <1>6, <2>k DEF GoesTo
  <2>1. /\ Bodies(w)[x].body = ChunkAt(w, x).body \o Bodies(w)[k].body
        /\ Bodies(w)[x].err = Bodies(w)[k].err
    BY <1>2, <2>g, NextBody, NextErr
  <2>2. Good(k)
    BY <1>3, <2>k
  <2>3. ChunkAt(w, x).body \o Bodies(w)[k].body \in Seq(Bytes)
    BY <1>4, <2>2, Joined
  <2> QED BY <1>2, <2>1, <2>2, <2>3
<1> QED BY <1>5, <1>6

\* More bytes after a line leave the line.
LEMMA LineStays ==
  ASSUME NEW w \in Seq(Bytes), NEW z \in Seq(Bytes), IsPrefix(w, z),
         NEW i, NEW f, LineAt(w, i, f)
  PROVE  LineAt(z, i, f) /\ SubSeq(w, i, f) = SubSeq(z, i, f)
<1>1. Len(w) <= Len(z) /\ \A k \in 1 .. Len(w) : w[k] = z[k]
  BY PrefixElements
<1>2. /\ i \in Nat /\ f \in Nat /\ 1 <= i /\ i <= f /\ f <= Len(w) /\ i <= f + 1
      /\ w[f] = "LF" /\ \A j \in i .. f - 1 : w[j] # "LF"
  BY DEF LineAt
<1>3. Len(w) \in Nat /\ Len(z) \in Nat
  OBVIOUS
<1>4. f \in 1 .. Len(w) /\ \A j \in i .. f - 1 : j \in 1 .. Len(w)
  BY <1>2, <1>3
<1>5. z[f] = "LF" /\ \A j \in i .. f - 1 : z[j] # "LF"
  BY <1>1, <1>2, <1>4
<1>6. f <= Len(z)
  BY <1>1, <1>2, <1>3
<1>7. LineAt(z, i, f)
  BY <1>2, <1>5, <1>6 DEF LineAt
<1> QED BY <1>2, <1>7, PieceOfPrefix

\* A chunk is decided once the bytes that decide it are there; until then
\* its data can only grow.
LEMMA ChunkStays ==
  ASSUME NEW w \in Seq(Bytes), NEW z \in Seq(Bytes), IsPrefix(w, z),
         NEW i \in Nat, 1 <= i, i <= Len(w) + 1
  PROVE  \/ ChunkAt(z, i) = ChunkAt(w, i) /\ ChunkAt(w, i).err # "ErrUnexpectedEOF"
         \/ ChunkAt(w, i).err = "ErrUnexpectedEOF" /\ IsPrefix(ChunkAt(w, i).body, ChunkAt(z, i).body)
<1>0. /\ Len(w) \in Nat /\ Len(z) \in Nat /\ Len(w) <= Len(z) /\ BufSize \in Nat
      /\ \A k \in 1 .. Len(w) : w[k] = z[k]
  BY PrefixElements, SizesAssumption
<1>z. i <= Len(z) + 1
  BY <1>0
<1>1. CASE NoLine(w, i)
  <2>1. ChunkAt(w, i) = [body |-> <<>>, next |-> 0,
                          err |-> IF Len(w) - i + 1 >= BufSize THEN "ErrLineTooLong"
                                                               ELSE "ErrUnexpectedEOF"]
    BY <1>1, ChunkNoLine
  <2>2. CASE ~ (Len(w) - i + 1 >= BufSize)
    <3>1. ChunkAt(w, i).err = "ErrUnexpectedEOF" /\ ChunkAt(w, i).body = <<>>
      BY <2>1, <2>2
    <3>2. ChunkAt(z, i).body \in Seq(Bytes)
      BY <1>z, ChunkType
    <3>3. IsPrefix(<<>>, ChunkAt(z, i).body)
      <4>e. PICK e \in Seq(Bytes) : e = <<>> /\ Len(e) = 0
        <5>1. <<>> \in Seq(Bytes) /\ Len(<<>>) = 0
          OBVIOUS
        <5> QED BY <5>1
      <4>b. PICK b \in Seq(Bytes) : b = ChunkAt(z, i).body
        BY <3>2
      <4>1. Len(e) <= Len(b) /\ \A k \in 1 .. Len(e) : e[k] = b[k]
        BY <4>e
      <4>2. IsPrefix(e, b)
        BY <4>1, PrefixElements
      <4> QED BY <4>2, <4>b, <4>e
    <3> QED BY <3>1, <3>3
  <2>3. CASE Len(w) - i + 1 >= BufSize
    <3>1. ChunkAt(w, i) = [body |-> <<>>, next |-> 0, err |-> "ErrLineTooLong"]
      BY <2>1, <2>3
    <3>2. CASE NoLine(z, i)
      <4>1. Len(z) - i + 1 >= BufSize
        BY <1>0, <2>3
      <4>2. ChunkAt(z, i) = [body |-> <<>>, next |-> 0, err |-> "ErrLineTooLong"]
        BY <3>2, <4>1, ChunkNoLine
      <4> QED BY <3>1, <4>2
    <3>3. ASSUME NEW f, LineAt(z, i, f)
          PROVE  ChunkAt(z, i) = [body |-> <<>>, next |-> 0, err |-> "ErrLineTooLong"]
      <4>1. f \in Nat /\ i <= f /\ f <= Len(z) /\ z[f] = "LF"
        BY <3>3 DEF LineAt
      <4>2. f > Len(w)
        <5> SUFFICES ASSUME ~ (f > Len(w)) PROVE FALSE
          OBVIOUS
        <5>1. f \in i .. Len(w) /\ f \in 1 .. Len(w)
          BY <1>0, <4>1
        <5> QED BY <1>0, <1>1, <4>1, <5>1 DEF NoLine
      <4>l. PICK l \in Seq(Bytes) : l = SubSeq(z, i, f) /\ Len(l) = f - i + 1
        BY <3>3, LineBytes
      <4>3. Len(l) >= BufSize
        BY <1>0, <2>3, <4>1, <4>2, <4>l
      <4>4. ChunkHeader(l).err = "ErrLineTooLong"
        BY <4>3 DEF ChunkHeader
      <4>5. ChunkHeader(SubSeq(z, i, f)).err = "ErrLineTooLong"
        BY <4>4, <4>l
      <4> QED BY <3>3, <4>5, ChunkBadLine
    <3> QED BY <3>1, <3>2, <3>3, LineOrNot
  <2> QED BY <2>2, <2>3
<1>2. ASSUME NEW f, LineAt(w, i, f)
      PROVE  \/ ChunkAt(z, i) = ChunkAt(w, i) /\ ChunkAt(w, i).err # "ErrUnexpectedEOF"
             \/ /\ ChunkAt(w, i).err = "ErrUnexpectedEOF"
                /\ IsPrefix(ChunkAt(w, i).body, ChunkAt(z, i).body)
  <2>1. LineAt(z, i, f) /\ SubSeq(w, i, f) = SubSeq(z, i, f)
    <3>1. IsPrefix(w, z) /\ LineAt(w, i, f)
      BY <1>2
    <3>2. LineAt(z, i, f)
      BY <3>1, LineStays, Zenon
    <3>3. f \in Nat /\ i <= f + 1 /\ f <= Len(w)
      BY <3>1 DEF LineAt
    <3>4. SubSeq(w, i, f) = SubSeq(z, i, f)
      BY <3>1, <3>3, PieceOfPrefix
    <3> QED BY <3>2, <3>4
  <2>2. SubSeq(w, i, f) \in Seq(Bytes)
    BY <1>2, LineBytes
  <2>h. PICK h : h = ChunkHeader(SubSeq(w, i, f))
    OBVIOUS
  <2>3. h.n \in Nat /\ h.err # "ErrUnexpectedEOF" /\ h = ChunkHeader(SubSeq(z, i, f))
    BY <2>1, <2>2, <2>h, HeaderType
  <2>4. CASE h.err # "nil"
    <3>1. ChunkAt(w, i) = [body |-> <<>>, next |-> 0, err |-> h.err]
      BY <1>2, <2>4, <2>h, ChunkBadLine
    <3>2. ChunkAt(z, i) = [body |-> <<>>, next |-> 0, err |-> h.err]
      BY <2>1, <2>3, <2>4, ChunkBadLine
    <3> QED BY <2>3, <3>1, <3>2
  <2>5. CASE h.err = "nil"
    <3>m. PICK m \in Nat : m = h.n
      BY <2>3
    <3>1. ChunkAt(w, i) = DataAt(w, f, m)
      BY <1>2, <2>5, <2>h, <3>m, ChunkLine
    <3>2. ChunkAt(z, i) = DataAt(z, f, m)
      BY <2>1, <2>3, <2>5, <3>m, ChunkLine
    <3>3. f \in Nat /\ f <= Len(w) /\ 1 <= f
      BY <1>2 DEF LineAt
    <3>4. CASE Len(w) < f + m + 2
      <4>1. DataAt(w, f, m).err = "ErrUnexpectedEOF"
        BY <3>4 DEF DataAt
      <4>e. PICK e \in Nat : /\ e = (IF f + m <= Len(w) THEN f + m ELSE Len(w))
                             /\ f <= e /\ e <= Len(w)
        BY <1>0, <3>3
      <4>d. PICK d \in Nat : /\ d = (IF f + m <= Len(z) THEN f + m ELSE Len(z))
                             /\ e <= d /\ d <= Len(z)
        BY <1>0, <3>3, <4>e
      <4>2. DataAt(w, f, m).body = SubSeq(w, f + 1, e) /\ DataAt(z, f, m).body = SubSeq(z, f + 1, d)
        BY <4>e, <4>d DEF DataAt
      <4> HIDE <4>e, <4>d
      <4>r. f <= e /\ e <= Len(w) /\ e <= d /\ d <= Len(z) /\ e <= Len(z)
        BY <1>0, <4>e, <4>d
      <4>3. SubSeq(w, f + 1, e) = SubSeq(z, f + 1, e)
        BY <3>3, <4>r, PieceOfPrefix
      <4>4. SubSeq(z, f + 1, e) \o SubSeq(z, e + 1, d) = SubSeq(z, f + 1, d)
        BY <3>3, <4>r, AdjacentPieces
      <4>5. SubSeq(z, f + 1, e) \in Seq(Bytes) /\ SubSeq(z, e + 1, d) \in Seq(Bytes)
        BY <3>3, <4>r, Piece
      <4>6. IsPrefix(SubSeq(z, f + 1, e), SubSeq(z, f + 1, e) \o SubSeq(z, e + 1, d))
        BY <4>5, PrefixOfJoined
      <4> QED BY <3>1, <3>2, <4>1, <4>2, <4>3, <4>4, <4>6
    <3>5. CASE ~ (Len(w) < f + m + 2)
      <4>1. /\ f + m <= Len(w) /\ f + m <= Len(z) /\ ~ (Len(z) < f + m + 2)
            /\ f + m + 1 \in Nat /\ f + m + 2 \in Nat /\ f + m + 2 <= Len(w)
            /\ f + 1 \in Nat /\ f + m \in Nat
        BY <1>0, <3>3, <3>5
      <4>2. SubSeq(w, f + 1, f + m) = SubSeq(z, f + 1, f + m)
        BY <3>3, <4>1, PieceOfPrefix
      <4>3. SubSeq(w, f + m + 1, f + m + 2) = SubSeq(z, f + m + 1, f + m + 2)
        BY <3>3, <4>1, PieceOfPrefix
      <4>4. DataAt(w, f, m) = DataAt(z, f, m)
        BY <3>5, <4>1, <4>2, <4>3 DEF DataAt
      <4>5. DataAt(w, f, m).err # "ErrUnexpectedEOF"
        BY <3>5 DEF DataAt
      <4> QED BY <3>1, <3>2, <4>4, <4>5
    <3> QED BY <3>4, <3>5
  <2> QED BY <2>4, <2>5
<1> QED BY <1>1, <1>2, LineOrNot

\* The same bytes before two sequences.
LEMMA PrefixAfter ==
  ASSUME NEW S, NEW p \in Seq(S), NEW s \in Seq(S), NEW t \in Seq(S), IsPrefix(s, t)
  PROVE  IsPrefix(p \o s, p \o t)
<1>1. Len(s) <= Len(t) /\ \A k \in 1 .. Len(s) : s[k] = t[k]
  BY PrefixElements
<1>a. PICK a : a = p \o s
  OBVIOUS
<1>b. PICK b : b = p \o t
  OBVIOUS
<1>2. /\ a \in Seq(S) /\ Len(a) = Len(p) + Len(s)
      /\ \A k \in 1 .. Len(p) : a[k] = p[k]
      /\ \A k \in 1 .. Len(s) : a[Len(p) + k] = s[k]
  BY <1>a, Joined
<1>3. /\ b \in Seq(S) /\ Len(b) = Len(p) + Len(t)
      /\ \A k \in 1 .. Len(p) : b[k] = p[k]
      /\ \A k \in 1 .. Len(t) : b[Len(p) + k] = t[k]
  BY <1>b, Joined
<1>0. Len(p) \in Nat /\ Len(s) \in Nat /\ Len(t) \in Nat
  OBVIOUS
<1>4. ASSUME NEW k \in 1 .. Len(a) PROVE a[k] = b[k]
  <2>1. CASE k <= Len(p)
    BY <1>0, <1>2, <1>3, <2>1
  <2>2. CASE ~ (k <= Len(p))
    <3>1. PICK j \in 1 .. Len(s) : k = Len(p) + j /\ j \in 1 .. Len(t)
      <4>1. k - Len(p) \in 1 .. Len(s) /\ k - Len(p) \in 1 .. Len(t) /\ k = Len(p) + (k - Len(p))
        BY <1>0, <1>1, <1>2, <2>2
      <4> QED BY <4>1
    <3> QED BY <1>1, <1>2, <1>3, <3>1
  <2> QED BY <2>1, <2>2
<1>5. Len(a) <= Len(b)
  BY <1>0, <1>1, <1>2, <1>3
<1>6. IsPrefix(a, b)
  BY <1>2, <1>3, <1>4, <1>5, PrefixElements
<1> QED BY <1>6, <1>a, <1>b

\* What a longer stream adds to the walk from i.
Grows(w, z, i) ==
  /\ IsPrefix(Bodies(w)[i].body, Bodies(z)[i].body)
  /\ Bodies(w)[i].err # "ErrUnexpectedEOF" =>
       Bodies(z)[i].body = Bodies(w)[i].body /\ Bodies(z)[i].err = Bodies(w)[i].err

\* More bytes add to the body, and change an error only if it was that the
\* stream ends too early.
LEMMA BodyGrows ==
  ASSUME NEW w \in Seq(Bytes), NEW z \in Seq(Bytes), IsPrefix(w, z)
  PROVE  \A i \in 1 .. Len(w) + 1 : Grows(w, z, i)
<1> DEFINE Bad == {i \in 1 .. Len(w) + 1 : ~ Grows(w, z, i)}
<1> SUFFICES ASSUME Bad # {} PROVE FALSE
  OBVIOUS
<1>0. Len(w) \in Nat /\ Len(z) \in Nat /\ Len(w) + 1 \in Nat /\ Bad \subseteq 0 .. Len(w) + 1
  OBVIOUS
<1>1. PICK x \in Bad : \A y \in Bad : y <= x
  BY <1>0, GreatestNatural
<1>2. x \in Nat /\ 1 <= x /\ x <= Len(w) + 1 /\ ~ Grows(w, z, x)
  BY <1>0, <1>1
<1>3. ASSUME NEW y \in Nat, x < y, y <= Len(w) + 1 PROVE Grows(w, z, y)
  BY <1>0, <1>1, <1>2, <1>3
<1> HIDE DEF Bad
<1>4. x <= Len(z) + 1
  <2>1. Len(w) <= Len(z)
    BY PrefixElements
  <2> QED BY <1>0, <1>2, <2>1
<1>5. /\ ChunkAt(w, x).body \in Seq(Bytes)
      /\ ChunkAt(w, x).err = "nil" =>
           /\ ChunkAt(w, x).next \in Nat
           /\ x < ChunkAt(w, x).next /\ ChunkAt(w, x).next <= Len(w) + 1
  BY <1>2, ChunkType
<1>6. /\ ChunkAt(z, x).body \in Seq(Bytes)
      /\ ChunkAt(z, x).err = "nil" =>
           /\ ChunkAt(z, x).next \in Nat
           /\ x < ChunkAt(z, x).next /\ ChunkAt(z, x).next <= Len(z) + 1
  BY <1>2, <1>4, ChunkType
<1>7. CASE ChunkAt(z, x) = ChunkAt(w, x) /\ ChunkAt(w, x).err # "ErrUnexpectedEOF"
  <2>1. CASE ChunkAt(w, x).err # "nil"
    <3>1. Bodies(w)[x].body = ChunkAt(w, x).body /\ Bodies(w)[x].err = ChunkAt(w, x).err
      BY <1>2, <2>1, BodyEnds
    <3>2. Bodies(z)[x].body = ChunkAt(w, x).body /\ Bodies(z)[x].err = ChunkAt(w, x).err
      BY <1>2, <1>4, <1>7, <2>1, BodyEnds
    <3>3. IsPrefix(ChunkAt(w, x).body, ChunkAt(w, x).body)
      BY <1>5, PrefixElements
    <3> QED BY <1>2, <3>1, <3>2, <3>3 DEF Grows
  <2>2. CASE ChunkAt(w, x).err = "nil"
    <3>k. PICK k \in Nat : k = ChunkAt(w, x).next /\ x < k /\ k <= Len(w) + 1 /\ k <= Len(z) + 1
      BY <1>5, <1>6, <1>7, <2>2
    <3>1. /\ Bodies(w)[x].body = ChunkAt(w, x).body \o Bodies(w)[k].body
          /\ Bodies(w)[x].err = Bodies(w)[k].err
      <4>1. GoesTo(w, x, k)
        BY <2>2, <3>k DEF GoesTo
      <4>2. Bodies(w)[x].body = ChunkAt(w, x).body \o Bodies(w)[k].body
        BY <1>2, <4>1, NextBody
      <4>3. Bodies(w)[x].err = Bodies(w)[k].err
        BY <1>2, <4>1, NextErr
      <4> QED BY <4>2, <4>3
    <3>2. /\ Bodies(z)[x].body = ChunkAt(z, x).body \o Bodies(z)[k].body
          /\ Bodies(z)[x].err = Bodies(z)[k].err
      <4>1. GoesTo(z, x, k)
        BY <1>7, <2>2, <3>k DEF GoesTo
      <4>2. Bodies(z)[x].body = ChunkAt(z, x).body \o Bodies(z)[k].body
        BY <1>2, <1>4, <4>1, NextBody
      <4>3. Bodies(z)[x].err = Bodies(z)[k].err
        BY <1>2, <1>4, <4>1, NextErr
      <4> QED BY <4>2, <4>3
    <3>3. Grows(w, z, k)
      BY <1>3, <3>k
    <3>4. Bodies(w)[k].body \in Seq(Bytes) /\ Bodies(z)[k].body \in Seq(Bytes)
      <4>1. k \in 1 .. Len(w) + 1 /\ k \in 1 .. Len(z) + 1
        BY <1>0, <1>2, <3>k
      <4> QED BY <4>1, BodyType
    <3>5. IsPrefix(ChunkAt(w, x).body \o Bodies(w)[k].body, ChunkAt(w, x).body \o Bodies(z)[k].body)
      BY <1>5, <3>3, <3>4, PrefixAfter DEF Grows
    <3> QED BY <1>2, <1>7, <3>1, <3>2, <3>3, <3>5 DEF Grows
  <2> QED BY <2>1, <2>2
<1>8. CASE /\ ChunkAt(w, x).err = "ErrUnexpectedEOF"
           /\ IsPrefix(ChunkAt(w, x).body, ChunkAt(z, x).body)
  <2>1. Bodies(w)[x].body = ChunkAt(w, x).body /\ Bodies(w)[x].err = "ErrUnexpectedEOF"
    BY <1>2, <1>8, BodyEnds
  <2>2. IsPrefix(ChunkAt(z, x).body, Bodies(z)[x].body)
    <3>1. CASE ChunkAt(z, x).err # "nil"
      <4>1. Bodies(z)[x].body = ChunkAt(z, x).body
        BY <1>2, <1>4, <3>1, BodyEnds
      <4>2. IsPrefix(ChunkAt(z, x).body, ChunkAt(z, x).body)
        BY <1>6, PrefixElements
      <4> QED BY <4>1, <4>2
    <3>2. CASE ChunkAt(z, x).err = "nil"
      <4>k. PICK k \in Nat : k = ChunkAt(z, x).next /\ x < k /\ k <= Len(z) + 1
        BY <1>6, <3>2
      <4>g. GoesTo(z, x, k)
        BY <3>2, <4>k DEF GoesTo
      <4>1. Bodies(z)[x].body = ChunkAt(z, x).body \o Bodies(z)[k].body
        BY <1>2, <1>4, <4>g, NextBody
      <4>2. Bodies(z)[k].body \in Seq(Bytes)
        <5>1. k \in 1 .. Len(z) + 1
          BY <1>0, <1>2, <4>k
        <5> QED BY <5>1, BodyType
      <4>3. IsPrefix(ChunkAt(z, x).body, ChunkAt(z, x).body \o Bodies(z)[k].body)
        BY <1>6, <4>2, PrefixOfJoined
      <4> QED BY <4>1, <4>3
    <3> QED BY <3>1, <3>2
  <2>3. Bodies(z)[x].body \in Seq(Bytes)
    <3>1. x \in 1 .. Len(z) + 1
      BY <1>0, <1>2, <1>4
    <3> QED BY <3>1, BodyType
  <2>4. IsPrefix(ChunkAt(w, x).body, Bodies(z)[x].body)
    BY <1>5, <1>6, <1>8, <2>2, <2>3, PrefixTransitive
  <2> QED BY <1>2, <2>1, <2>4 DEF Grows
<1> QED BY <1>2, <1>7, <1>8, ChunkStays

-----------------------------------------------------------------------------
(***************************************************************************)
(* How far the walk has come.                                              *)
(***************************************************************************)
\* Every stream that begins with w has X first and then what the walk finds
\* from i on.
WalkedTo(w, X, i) ==
  /\ X \in Seq(Bytes) /\ i \in Nat /\ 1 <= i /\ i <= Len(w) + 1
  /\ \A z \in Seq(Bytes) :
       IsPrefix(w, z) => /\ Decode(z).body = X \o Bodies(z)[i].body
                         /\ Decode(z).err = Bodies(z)[i].err

\* And a chunk of m bytes starts there, with a size line that ends at f.
InChunk(w, X, i, f, m) ==
  /\ WalkedTo(w, X, i) /\ LineAt(w, i, f)
  /\ m \in Nat /\ m > 0
  /\ ChunkHeader(SubSeq(w, i, f)).err = "nil" /\ ChunkHeader(SubSeq(w, i, f)).n = m

\* Before the first byte.
LEMMA WalkStarts == WalkedTo(<<>>, <<>>, 1)
<1>e. PICK e \in Seq(Bytes) : e = <<>> /\ Len(e) = 0
  <2>1. <<>> \in Seq(Bytes) /\ Len(<<>>) = 0
    OBVIOUS
  <2> QED BY <2>1
<1>1. ASSUME NEW z \in Seq(Bytes)
      PROVE  /\ Decode(z).body = e \o Bodies(z)[1].body
             /\ Decode(z).err = Bodies(z)[1].err
  <2>1. Bodies(z)[1].body \in Seq(Bytes)
    <3>1. 1 \in 1 .. Len(z) + 1
      OBVIOUS
    <3> QED BY <3>1, BodyType
  <2>b. PICK b \in Seq(Bytes) : b = Bodies(z)[1].body
    BY <2>1
  <2>2. e \o b = b
    BY <1>e
  <2> QED BY <2>2, <2>b DEF Decode
<1>2. e \in Seq(Bytes) /\ 1 \in Nat /\ 1 <= 1 /\ 1 <= Len(e) + 1
  BY <1>e
<1>3. WalkedTo(e, e, 1)
  BY <1>1, <1>2 DEF WalkedTo
<1> QED BY <1>3, <1>e

\* More bytes change nothing before the place reached.
LEMMA WalkStays ==
  ASSUME NEW w \in Seq(Bytes), NEW u \in Seq(Bytes), IsPrefix(w, u),
         NEW X, NEW i, WalkedTo(w, X, i)
  PROVE  WalkedTo(u, X, i)
<1>1. /\ X \in Seq(Bytes) /\ i \in Nat /\ 1 <= i /\ i <= Len(w) + 1
      /\ \A z \in Seq(Bytes) :
           IsPrefix(w, z) => /\ Decode(z).body = X \o Bodies(z)[i].body
                             /\ Decode(z).err = Bodies(z)[i].err
  BY DEF WalkedTo
<1>2. Len(w) <= Len(u) /\ Len(w) \in Nat /\ Len(u) \in Nat
  BY PrefixElements
<1>3. i <= Len(u) + 1
  BY <1>1, <1>2
<1>4. ASSUME NEW z \in Seq(Bytes), IsPrefix(u, z) PROVE IsPrefix(w, z)
  BY <1>4, PrefixTransitive
<1> QED BY <1>1, <1>3, <1>4 DEF WalkedTo

\* Nor of the chunk being read.
LEMMA InChunkStays ==
  ASSUME NEW w \in Seq(Bytes), NEW u \in Seq(Bytes), IsPrefix(w, u),
         NEW X, NEW i, NEW f, NEW m, InChunk(w, X, i, f, m)
  PROVE  InChunk(u, X, i, f, m)
<1>1. /\ WalkedTo(w, X, i) /\ LineAt(w, i, f) /\ m \in Nat /\ m > 0
      /\ ChunkHeader(SubSeq(w, i, f)).err = "nil" /\ ChunkHeader(SubSeq(w, i, f)).n = m
  BY DEF InChunk
<1>2. WalkedTo(u, X, i)
  BY <1>1, WalkStays
<1>3. LineAt(u, i, f)
  BY <1>1, LineStays
<1>4. i \in Nat /\ f \in Nat /\ 1 <= i /\ i <= f + 1 /\ f <= Len(w)
  BY <1>1 DEF LineAt
<1>5. SubSeq(w, i, f) = SubSeq(u, i, f)
  BY <1>4, PieceOfPrefix
<1> QED BY <1>1, <1>2, <1>3, <1>5 DEF InChunk

\* Where the chunk being read ends the stream, that is all.
LEMMA WalkEnds ==
  ASSUME NEW w \in Seq(Bytes), NEW X, NEW i, WalkedTo(w, X, i),
         ChunkAt(w, i).err # "nil"
  PROVE  /\ Decode(w).body = X \o ChunkAt(w, i).body
         /\ Decode(w).err = ChunkAt(w, i).err
<1>1. IsPrefix(w, w)
  BY PrefixElements
<1>2. /\ X \in Seq(Bytes) /\ i \in Nat /\ 1 <= i /\ i <= Len(w) + 1
      /\ Decode(w).body = X \o Bodies(w)[i].body
      /\ Decode(w).err = Bodies(w)[i].err
  BY <1>1 DEF WalkedTo
<1>3. Bodies(w)[i].body = ChunkAt(w, i).body
  BY <1>2, BodyEnds
<1>4. Bodies(w)[i].err = ChunkAt(w, i).err
  BY <1>2, BodyEnds
<1> QED BY <1>2, <1>3, <1>4

\* A chunk that is all there, with its footer, is behind the walk.
LEMMA ChunkDone ==
  ASSUME NEW w \in Seq(Bytes), NEW X, NEW i, NEW f, NEW m, InChunk(w, X, i, f, m),
         f + m + 2 <= Len(w), SubSeq(w, f + m + 1, f + m + 2) = CRLF
  PROVE  WalkedTo(w, X \o SubSeq(w, f + 1, f + m), f + m + 3)
<1>1. /\ WalkedTo(w, X, i) /\ LineAt(w, i, f) /\ m \in Nat /\ m > 0
      /\ ChunkHeader(SubSeq(w, i, f)).err = "nil" /\ ChunkHeader(SubSeq(w, i, f)).n = m
  BY DEF InChunk
<1>2. /\ i \in Nat /\ 1 <= i /\ i <= f /\ f \in Nat /\ f <= Len(w) /\ Len(w) \in Nat
  BY <1>1 DEF LineAt
<1>3. /\ X \in Seq(Bytes) /\ i <= Len(w) + 1
      /\ \A z \in Seq(Bytes) :
           IsPrefix(w, z) => /\ Decode(z).body = X \o Bodies(z)[i].body
                             /\ Decode(z).err = Bodies(z)[i].err
  BY <1>1 DEF WalkedTo
<1>4. /\ f + m + 3 \in Nat /\ 1 <= f + m + 3 /\ f + m + 3 <= Len(w) + 1
      /\ f + m \in Nat /\ f + 1 \in Nat /\ 1 <= f + 1 /\ f + 1 <= (f + m) + 1
      /\ f + m <= Len(w) /\ ~ (Len(w) < f + m + 2)
  BY <1>1, <1>2
<1>d. PICK d \in Seq(Bytes) : d = SubSeq(w, f + 1, f + m)
  <2>1. SubSeq(w, f + 1, f + m) \in Seq(Bytes)
    BY <1>4, Piece
  <2> QED BY <2>1
<1>5. ChunkAt(w, i) = [body |-> d, next |-> f + m + 3, err |-> "nil"]
  <2>1. ChunkAt(w, i) = DataAt(w, f, m)
    BY <1>1, ChunkLine
  <2> QED BY <1>4, <1>d, <2>1 DEF DataAt
<1>6. X \o d \in Seq(Bytes)
  BY <1>3, Joined
<1>7. ASSUME NEW z \in Seq(Bytes), IsPrefix(w, z)
      PROVE  /\ Decode(z).body = (X \o d) \o Bodies(z)[f + m + 3].body
             /\ Decode(z).err = Bodies(z)[f + m + 3].err
  <2>0. Len(w) <= Len(z) /\ Len(z) \in Nat
    BY <1>7, PrefixElements
  <2>a. i <= f /\ f <= Len(w) /\ Len(w) \in Nat /\ i \in Nat /\ f \in Nat
    BY <1>2
  <2>e. f + m + 3 \in Nat /\ 1 <= f + m + 3 /\ f + m + 3 <= Len(w) + 1
    BY <1>4
  <2>c. i <= Len(z) + 1
    BY <2>0, <2>a
  <2>d. f + m + 3 \in 1 .. Len(z) + 1
    BY <2>0, <2>a, <2>e
  <2>1. i <= Len(z) + 1 /\ f + m + 3 \in 1 .. Len(z) + 1
    BY <2>c, <2>d
  <2>2. ChunkAt(z, i) = ChunkAt(w, i)
    <3>1. ChunkAt(w, i).err # "ErrUnexpectedEOF"
      BY <1>5
    <3> QED BY <1>2, <1>3, <1>7, <3>1, ChunkStays
  <2>3. ChunkAt(z, i).err = "nil" /\ f + m + 3 = ChunkAt(z, i).next /\ ChunkAt(z, i).body = d
    BY <1>5, <2>2
  <2>k. PICK k : k = f + m + 3
    OBVIOUS
  <2>g. GoesTo(z, i, k)
    BY <2>3, <2>k DEF GoesTo
  <2>h. Bodies(z)[i].body = ChunkAt(z, i).body \o Bodies(z)[k].body
    BY <1>2, <2>1, <2>g, NextBody
  <2>4. Bodies(z)[i].body = ChunkAt(z, i).body \o Bodies(z)[f + m + 3].body
    BY <2>h, <2>k
  <2>j. Bodies(z)[i].err = Bodies(z)[k].err
    BY <1>2, <2>1, <2>g, NextErr
  <2>5. Bodies(z)[i].err = Bodies(z)[f + m + 3].err
    BY <2>j, <2>k
  <2>b. PICK b \in Seq(Bytes) : b = Bodies(z)[f + m + 3].body
    <3>1. Bodies(z)[f + m + 3].body \in Seq(Bytes)
      BY <2>1, BodyType
    <3> QED BY <3>1
  <2>6. (X \o d) \o b = X \o (d \o b)
    <3>j. PICK p, q, x : JoinOf(p, X, d) /\ JoinOf(q, d, b) /\ JoinOf(x, p, b)
      BY DEF JoinOf
    <3>1. X \in Seq(Bytes)
      BY <1>3
    <3>2. JoinOf(x, X, q)
      BY <3>j, <3>1, Regrouped
    <3> QED BY <3>j, <3>2 DEF JoinOf
  <2>7. Decode(z).body = X \o Bodies(z)[i].body /\ Decode(z).err = Bodies(z)[i].err
    BY <1>3, <1>7
  <2> QED BY <2>3, <2>4, <2>5, <2>6, <2>7, <2>b
<1>8. WalkedTo(w, X \o d, f + m + 3)
  BY <1>4, <1>6, <1>7 DEF WalkedTo
<1> QED BY <1>8, <1>d

-----------------------------------------------------------------------------
(***************************************************************************)
(* Types.  Nothing is on the wire before the first Write, so a stream of   *)
(* another peer does not take away what the reader has taken.              *)
(***************************************************************************)
Fresh ==
  /\ wpc = "idle" /\ writes = 0 => wire = <<>> /\ wbuf = <<>>
  /\ wpc \in {"data", "crlf"} => data \in Payloads /\ data # <<>> /\ writes > 0
  /\ wpc \in {"idle", "closed", "finished"} => data = <<>>
  /\ wpc \in {"finished", "failed", "raw"} => cut

\* TypeOK, part by part.
LEMMA Types ==
  ASSUME TypeOK
  PROVE  /\ flushing \in BOOLEAN /\ cut \in BOOLEAN /\ checkEnd \in BOOLEAN
         /\ wpc \in {"idle", "data", "crlf", "closed", "finished", "failed", "raw"}
         /\ rpc \in {"idle", "loop", "footer", "header", "data"}
         /\ err \in Errors
         /\ writes \in 0 .. MaxWrites /\ taken \in 0 .. Len(wire) /\ taken \in Nat
         /\ taken <= Len(wire) /\ Len(wire) \in Nat /\ Len(rbuf) \in Nat
         /\ n \in Nat /\ room \in Nat
         /\ Len(rbuf) <= BufSize /\ BufSize \in Nat
         /\ data \in Seq(Bytes) /\ written \in Seq(Bytes) /\ wbuf \in Seq(Bytes)
         /\ wire \in Seq(Bytes) /\ rbuf \in Seq(Bytes) /\ part \in Seq(Bytes)
         /\ got \in Seq(Bytes)
<1>1. /\ data \in Seq(Bytes) /\ written \in Seq(Bytes) /\ wbuf \in Seq(Bytes)
      /\ wire \in Seq(Bytes) /\ rbuf \in Seq(Bytes) /\ part \in Seq(Bytes)
      /\ got \in Seq(Bytes)
  BY DEF TypeOK
<1>2. Len(wire) \in Nat /\ Len(rbuf) \in Nat
  BY <1>1
<1>3. taken \in 0 .. Len(wire)
  BY DEF TypeOK
<1>4. taken \in Nat /\ taken <= Len(wire)
  BY <1>2, <1>3
<1>5. BufSize \in Nat
  BY SizesAssumption
<1> QED BY <1>1, <1>2, <1>3, <1>4, <1>5 DEF TypeOK

\* The reader rests while the writer or the connection takes a step.
ReaderRests == UNCHANGED <<bufio, reader, rpc, room, part, got>>

\* A step of the writer: more bytes may follow those on the wire.
LEMMA WriterTypes ==
  ASSUME TypeOK, ReaderRests, flushing' = flushing,
         wpc' \in {"idle", "data", "crlf", "closed", "finished", "failed", "raw"},
         data' \in Seq(Bytes), written' \in Seq(Bytes), writes' \in 0 .. MaxWrites,
         wire' \in Seq(Bytes), wbuf' \in Seq(Bytes), IsPrefix(wire, wire'), cut' \in BOOLEAN
  PROVE  TypeOK'
<1>0. /\ checkEnd' = checkEnd /\ rpc' = rpc /\ err' = err /\ taken' = taken /\ n' = n
      /\ room' = room /\ rbuf' = rbuf /\ part' = part /\ got' = got
  BY DEF ReaderRests, bufio, reader
<1>1. /\ flushing \in BOOLEAN /\ checkEnd \in BOOLEAN
      /\ rpc \in {"idle", "loop", "footer", "header", "data"} /\ err \in Errors
      /\ n \in Nat /\ room \in Nat /\ Len(rbuf) <= BufSize
      /\ rbuf \in Seq(Bytes) /\ part \in Seq(Bytes) /\ got \in Seq(Bytes)
  BY Types
<1>2. taken \in 0 .. Len(wire')
  <2>1. wire \in Seq(Bytes) /\ taken \in 0 .. Len(wire) /\ Len(wire) \in Nat
    BY Types
  <2>2. Len(wire) <= Len(wire')
    BY <2>1, PrefixElements
  <2> QED BY <2>1, <2>2
<1>3. {data', written', wbuf', wire', rbuf', part', got'} \subseteq Seq(Bytes)
  BY <1>0, <1>1
<1> QED BY <1>0, <1>1, <1>2, <1>3 DEF TypeOK

\* A step of the reader.
LEMMA ReaderTypes ==
  ASSUME TypeOK, UNCHANGED <<writer, conn>>,
         taken' \in 0 .. Len(wire), rbuf' \in Seq(Bytes), Len(rbuf') <= BufSize,
         n' \in Nat, err' \in Errors, checkEnd' \in BOOLEAN,
         rpc' \in {"idle", "loop", "footer", "header", "data"}, room' \in Nat,
         part' \in Seq(Bytes), got' \in Seq(Bytes)
  PROVE  TypeOK'
<1>0. /\ flushing' = flushing /\ wpc' = wpc /\ data' = data /\ written' = written
      /\ writes' = writes /\ wbuf' = wbuf /\ wire' = wire /\ cut' = cut
  BY DEF writer, conn
<1>1. /\ flushing \in BOOLEAN /\ cut \in BOOLEAN
      /\ wpc \in {"idle", "data", "crlf", "closed", "finished", "failed", "raw"}
      /\ writes \in 0 .. MaxWrites
      /\ data \in Seq(Bytes) /\ written \in Seq(Bytes) /\ wbuf \in Seq(Bytes)
      /\ wire \in Seq(Bytes)
  BY Types
<1>2. {data', written', wbuf', wire', rbuf', part', got'} \subseteq Seq(Bytes)
  BY <1>0, <1>1
<1> QED BY <1>0, <1>1, <1>2 DEF TypeOK

\* Wire takes the bytes; what it puts on the connection follows what was there.
LEMMA WireTakes ==
  ASSUME wire \in Seq(Bytes), wbuf \in Seq(Bytes), NEW b \in Seq(Bytes), WireWrite(b)
  PROVE  /\ wire' \in Seq(Bytes) /\ wbuf' \in Seq(Bytes) /\ IsPrefix(wire, wire')
         /\ wire' \o wbuf' = (wire \o wbuf) \o b /\ cut' = cut
<1>0. wbuf \o b \in Seq(Bytes)
  BY Joined
<1>t. PICK t \in Seq(Bytes) : t = wbuf \o b
  BY <1>0
<1>1. PICK k \in 0 .. Len(t) : /\ wire' = wire \o SubSeq(t, 1, k)
                               /\ wbuf' = SubSeq(t, k + 1, Len(t)) /\ cut' = cut
  BY <1>t DEF WireWrite
<1>2. Len(t) \in Nat /\ k \in Nat /\ k <= Len(t) /\ k + 1 \in Nat /\ 1 <= k + 1 /\ 1 <= k + 1
  OBVIOUS
<1>p. PICK p \in Seq(Bytes) : p = SubSeq(t, 1, k)
  <2>1. SubSeq(t, 1, k) \in Seq(Bytes)
    BY <1>2, Piece
  <2> QED BY <2>1
<1>q. PICK q \in Seq(Bytes) : q = SubSeq(t, k + 1, Len(t))
  <2>1. SubSeq(t, k + 1, Len(t)) \in Seq(Bytes)
    BY <1>2, Piece
  <2> QED BY <2>1
<1>3. p \o q = t
  <2>1. SubSeq(t, 1, k) \o SubSeq(t, k + 1, Len(t)) = SubSeq(t, 1, Len(t))
    <3>1. 1 \in Nat /\ 1 <= 1 /\ Len(t) <= Len(t)
      BY <1>2
    <3> QED BY <1>2, <3>1, AdjacentPieces
  <2>2. SubSeq(t, 1, Len(t)) = t
    OBVIOUS
  <2> QED BY <1>p, <1>q, <2>1, <2>2
<1>4. wire \o p \in Seq(Bytes) /\ IsPrefix(wire, wire \o p)
  BY PrefixOfJoined, Joined
<1>5. (wire \o p) \o q = wire \o (p \o q)
  <2>j. PICK v, u, x : JoinOf(v, wire, p) /\ JoinOf(u, p, q) /\ JoinOf(x, v, q)
    BY DEF JoinOf
  <2>1. JoinOf(x, wire, u)
    BY <2>j, Regrouped
  <2> QED BY <2>j, <2>1 DEF JoinOf
<1>6. (wire \o wbuf) \o b = wire \o (wbuf \o b)
  <2>j. PICK v, u, x : JoinOf(v, wire, wbuf) /\ JoinOf(u, wbuf, b) /\ JoinOf(x, v, b)
    BY DEF JoinOf
  <2>1. JoinOf(x, wire, u)
    BY <2>j, Regrouped
  <2> QED BY <2>j, <2>1 DEF JoinOf
<1>7. wire' = wire \o p /\ wbuf' = q /\ cut' = cut
  BY <1>1, <1>p, <1>q
<1>8. wire' \o wbuf' = (wire \o wbuf) \o b
  <2>1. wire' \o wbuf' = (wire \o p) \o q
    BY <1>7
  <2> QED BY <1>3, <1>5, <1>6, <1>t, <2>1
<1> QED BY <1>4, <1>7, <1>8

\* The flush of a FlushAfterChunkWriter leaves nothing behind.
LEMMA FooterTakes ==
  ASSUME wire \in Seq(Bytes), wbuf \in Seq(Bytes), WriteFooter
  PROVE  /\ wire' \in Seq(Bytes) /\ wbuf' \in Seq(Bytes) /\ IsPrefix(wire, wire')
         /\ wire' \o wbuf' = (wire \o wbuf) \o CRLF /\ cut' = cut
<1>c. CRLF \in Seq(Bytes)
  BY DigitFacts
<1>1. CASE ~ flushing
  BY <1>1, <1>c, WireTakes DEF WriteFooter
<1>2. CASE flushing
  <2>1. wire' = (wire \o wbuf) \o CRLF /\ wbuf' = <<>> /\ cut' = cut
    BY <1>2 DEF WriteFooter
  <2>k. PICK c \in Seq(Bytes) : c = CRLF
    BY <1>c
  <2>2. (wire \o wbuf) \o c = wire \o (wbuf \o c) /\ wbuf \o c \in Seq(Bytes)
    OBVIOUS
  <2>t. PICK t \in Seq(Bytes) : t = wbuf \o c
    BY <2>2
  <2>3. wire \o t \in Seq(Bytes) /\ IsPrefix(wire, wire \o t)
    BY PrefixOfJoined, Joined
  <2>u. PICK u \in Seq(Bytes) : u = wire \o t
    BY <2>3
  <2>4. u \o <<>> = u
    OBVIOUS
  <2>5. wire' = u /\ wbuf' = <<>> /\ u = (wire \o wbuf) \o CRLF
    BY <2>1, <2>2, <2>k, <2>t, <2>u
  <2>6. <<>> \in Seq(Bytes)
    OBVIOUS
  <2> QED BY <2>1, <2>3, <2>4, <2>5, <2>6, <2>u
<1> QED BY <1>1, <1>2

\* %x writes a length that an int can hold.
LEMMA SizeLineIs ==
  ASSUME NEW p \in Payloads, p # <<>>
  PROVE  \E v \in Seq(Hex) : /\ SizeLine(p) = v \o CRLF /\ Len(v) \in 1 .. MaxHexDigits
                             /\ HexNumber(v) = Len(p)
<1>1. \E v \in HexStrings : Writes(v, Len(p))
  BY PayloadsAssumption
<1>2. HexDigits(Len(p)) \in HexStrings /\ Writes(HexDigits(Len(p)), Len(p))
  BY <1>1 DEF HexDigits
<1>v. PICK v \in HexStrings : v = HexDigits(Len(p))
  BY <1>2
<1>3. PICK k \in 1 .. MaxHexDigits : v \in [1 .. k -> Hex]
  BY DEF HexStrings
<1>4. k \in Nat
  BY SizesAssumption
<1>5. v \in Seq(Hex) /\ Len(v) = k
  BY <1>3, <1>4
<1> QED BY <1>2, <1>3, <1>5, <1>v DEF SizeLine, Writes

\* The bytes Write and Close put on Wire.
LEMMA SizeLineType ==
  ASSUME NEW p \in Payloads, p # <<>>
  PROVE  SizeLine(p) \in Seq(Bytes) /\ p \in Seq(Bytes)
<1>1. PICK v \in Seq(Hex) : SizeLine(p) = v \o CRLF
  BY SizeLineIs
<1>2. Hex \subseteq Bytes /\ CRLF \in Seq(Bytes)
  BY DigitFacts
<1>3. v \in Seq(Bytes)
  BY <1>2
<1> QED BY <1>1, <1>2, <1>3, Joined, PayloadsAssumption

\* What every step of the writer or the connection does to the reader: it
\* finds more bytes after those it knows.
Advances == ReaderRests /\ IsPrefix(wire, wire') /\ ~ cut
TypesAdvance == TypeOK' /\ Fresh' /\ Advances

\* Write.
LEMMA WriteTypes ==
  ASSUME TypeOK, Fresh, NEW p \in Payloads, Write(p)
  PROVE  TypesAdvance
<1>0. /\ ~ cut /\ wpc = "idle" /\ writes < MaxWrites /\ writes' = writes + 1
      /\ flushing' = flushing /\ written' = written /\ ReaderRests
  BY DEF Write, WireIdle, ReaderRests
<1>t. /\ wire \in Seq(Bytes) /\ wbuf \in Seq(Bytes) /\ data \in Seq(Bytes)
      /\ written \in Seq(Bytes) /\ writes \in 0 .. MaxWrites /\ cut \in BOOLEAN
  BY Types
<1>1. writes' \in 0 .. MaxWrites /\ writes' > 0
  BY <1>0, <1>t, SizesAssumption
<1>2. CASE p = <<>>
  <2>1. wpc' = wpc /\ data' = data /\ wbuf' = wbuf /\ wire' = wire /\ cut' = cut
    BY <1>2 DEF Write, conn
  <2>2. IsPrefix(wire, wire')
    BY <1>t, <2>1, PrefixElements
  <2>3. wpc' \in {"idle", "data", "crlf", "closed", "finished", "failed", "raw"}
    BY <1>0, <2>1
  <2>4. TypeOK'
    BY <1>0, <1>1, <1>t, <2>1, <2>2, <2>3, WriterTypes
  <2>5. Fresh'
    BY <1>0, <1>1, <2>1 DEF Fresh
  <2> QED BY <1>0, <2>2, <2>4, <2>5 DEF TypesAdvance, Advances
<1>3. CASE p # <<>>
  <2>1. wpc' = "data" /\ data' = p /\ WireWrite(SizeLine(p))
    BY <1>3 DEF Write
  <2>2. SizeLine(p) \in Seq(Bytes) /\ p \in Seq(Bytes)
    BY <1>3, SizeLineType
  <2>3. wire' \in Seq(Bytes) /\ wbuf' \in Seq(Bytes) /\ IsPrefix(wire, wire') /\ cut' = cut
    BY <1>t, <2>1, <2>2, WireTakes
  <2>4. TypeOK'
    BY <1>0, <1>1, <1>t, <2>1, <2>2, <2>3, WriterTypes
  <2>5. Fresh'
    BY <1>1, <1>3, <2>1 DEF Fresh
  <2> QED BY <1>0, <2>3, <2>4, <2>5 DEF TypesAdvance, Advances
<1> QED BY <1>2, <1>3

\* The data of a chunk.
LEMMA WriteDataTypes ==
  ASSUME TypeOK, Fresh, WriteData
  PROVE  TypesAdvance
<1>0. /\ ~ cut /\ wpc = "data" /\ wpc' = "crlf" /\ WireWrite(data) /\ data' = data
      /\ flushing' = flushing /\ written' = written /\ writes' = writes /\ ReaderRests
  BY DEF WriteData, ReaderRests
<1>t. /\ wire \in Seq(Bytes) /\ wbuf \in Seq(Bytes) /\ data \in Seq(Bytes)
      /\ written \in Seq(Bytes) /\ writes \in 0 .. MaxWrites /\ cut \in BOOLEAN
  BY Types
<1>1. wire' \in Seq(Bytes) /\ wbuf' \in Seq(Bytes) /\ IsPrefix(wire, wire') /\ cut' = cut
  BY <1>0, <1>t, WireTakes
<1>2. TypeOK'
  BY <1>0, <1>1, <1>t, WriterTypes
<1>3. Fresh'
  BY <1>0 DEF Fresh
<1> QED BY <1>0, <1>1, <1>2, <1>3 DEF TypesAdvance, Advances

\* The footer of a chunk.
LEMMA FinishWriteTypes ==
  ASSUME TypeOK, Fresh, FinishWrite
  PROVE  TypesAdvance
<1>0. /\ ~ cut /\ wpc = "crlf" /\ wpc' = "idle" /\ WriteFooter /\ data' = <<>>
      /\ flushing' = flushing /\ written' = written \o data /\ writes' = writes /\ ReaderRests
  BY DEF FinishWrite, ReaderRests
<1>t. /\ wire \in Seq(Bytes) /\ wbuf \in Seq(Bytes) /\ data \in Seq(Bytes)
      /\ written \in Seq(Bytes) /\ writes \in 0 .. MaxWrites /\ cut \in BOOLEAN
  BY Types
<1>1. wire' \in Seq(Bytes) /\ wbuf' \in Seq(Bytes) /\ IsPrefix(wire, wire') /\ cut' = cut
  BY <1>0, <1>t, FooterTakes
<1>2. written' \in Seq(Bytes) /\ data' \in Seq(Bytes)
  BY <1>0, <1>t, Joined
<1>3. TypeOK'
  BY <1>0, <1>1, <1>2, <1>t, WriterTypes
<1>4. Fresh'
  BY <1>0 DEF Fresh
<1> QED BY <1>0, <1>1, <1>3, <1>4 DEF TypesAdvance, Advances

\* The bytes of the sentinel chunk.
LEMMA SentinelType == <<"0">> \o CRLF \in Seq(Bytes)
<1>1. "0" \in Bytes /\ CRLF \in Seq(Bytes)
  BY DigitFacts
<1>2. <<"0">> \in Seq(Bytes)
  BY <1>1
<1> QED BY <1>1, <1>2, Joined

\* Close.
LEMMA CloseTypes ==
  ASSUME TypeOK, Fresh, Close
  PROVE  TypesAdvance
<1>0. /\ ~ cut /\ wpc = "idle" /\ wpc' = "closed" /\ WireWrite(<<"0">> \o CRLF) /\ data' = data
      /\ flushing' = flushing /\ written' = written /\ writes' = writes /\ ReaderRests
  BY DEF Close, WireIdle, ReaderRests
<1>t. /\ wire \in Seq(Bytes) /\ wbuf \in Seq(Bytes) /\ data \in Seq(Bytes)
      /\ written \in Seq(Bytes) /\ writes \in 0 .. MaxWrites /\ cut \in BOOLEAN
  BY Types
<1>1. wire' \in Seq(Bytes) /\ wbuf' \in Seq(Bytes) /\ IsPrefix(wire, wire') /\ cut' = cut
  BY <1>0, <1>t, SentinelType, WireTakes
<1>2. TypeOK'
  BY <1>0, <1>1, <1>t, WriterTypes
<1>3. Fresh'
  BY <1>0 DEF Fresh
<1> QED BY <1>0, <1>1, <1>2, <1>3 DEF TypesAdvance, Advances

\* The last flush, and the end of the connection.
LEMMA FinishBodyTypes ==
  ASSUME TypeOK, Fresh, FinishBody
  PROVE  TypesAdvance
<1>0. /\ ~ cut /\ wpc = "closed" /\ wpc' = "finished" /\ wire' = wire \o wbuf /\ wbuf' = <<>>
      /\ cut' = TRUE /\ data' = data
      /\ flushing' = flushing /\ written' = written /\ writes' = writes /\ ReaderRests
  BY DEF FinishBody, ReaderRests
<1>t. /\ wire \in Seq(Bytes) /\ wbuf \in Seq(Bytes) /\ data \in Seq(Bytes)
      /\ written \in Seq(Bytes) /\ writes \in 0 .. MaxWrites
  BY Types
<1>1. wire \o wbuf \in Seq(Bytes) /\ IsPrefix(wire, wire \o wbuf) /\ <<>> \in Seq(Bytes)
  BY <1>t, Joined, PrefixOfJoined
<1>2. wire' \in Seq(Bytes) /\ wbuf' \in Seq(Bytes) /\ IsPrefix(wire, wire')
  BY <1>0, <1>1
<1>3. TypeOK'
  BY <1>0, <1>2, <1>t, WriterTypes
<1>4. Fresh'
  BY <1>0 DEF Fresh
<1> QED BY <1>0, <1>2, <1>3, <1>4 DEF TypesAdvance, Advances

\* The connection fails.
LEMMA CutTypes ==
  ASSUME TypeOK, Fresh, Cut
  PROVE  TypesAdvance
<1>0. /\ ~ cut /\ wire' = wire /\ wbuf' = <<>> /\ cut' = TRUE /\ data' = data
      /\ wpc' = (IF wpc \in {"data", "crlf"} THEN "failed" ELSE wpc)
      /\ flushing' = flushing /\ written' = written /\ writes' = writes /\ ReaderRests
  BY DEF Cut, ReaderRests
<1>t. /\ wire \in Seq(Bytes) /\ wbuf \in Seq(Bytes) /\ data \in Seq(Bytes)
      /\ written \in Seq(Bytes) /\ writes \in 0 .. MaxWrites
      /\ wpc \in {"idle", "data", "crlf", "closed", "finished", "failed", "raw"}
  BY Types
<1>1. wire' \in Seq(Bytes) /\ wbuf' \in Seq(Bytes) /\ IsPrefix(wire, wire')
  BY <1>0, <1>t, PrefixElements
<1>2. wpc' \in {"idle", "data", "crlf", "closed", "finished", "failed", "raw"}
  BY <1>0, <1>t
<1>3. TypeOK'
  BY <1>0, <1>1, <1>2, <1>t, WriterTypes
<1>4. Fresh'
  BY <1>0, <1>t DEF Fresh
<1> QED BY <1>0, <1>1, <1>3, <1>4 DEF TypesAdvance, Advances

\* A stream of another peer begins after nothing.
LEMMA RawPeerTypes ==
  ASSUME TypeOK, Fresh, NEW s \in RawStreams, RawPeer(s)
  PROVE  TypesAdvance
<1>0. /\ ~ cut /\ wpc = "idle" /\ writes = 0 /\ wire' = s /\ cut' = TRUE /\ wpc' = "raw"
      /\ data' = data /\ wbuf' = wbuf
      /\ flushing' = flushing /\ written' = written /\ writes' = writes /\ ReaderRests
  BY DEF RawPeer, WireIdle, ReaderRests
<1>t. /\ wire \in Seq(Bytes) /\ wbuf \in Seq(Bytes) /\ data \in Seq(Bytes)
      /\ written \in Seq(Bytes) /\ writes \in 0 .. MaxWrites
  BY Types
<1>1. wire = <<>> /\ s \in Seq(Bytes)
  BY <1>0, StreamsAssumption DEF Fresh
<1>2. Len(wire) = 0 /\ Len(wire) <= Len(s)
  BY <1>1
<1>3. IsPrefix(wire, s)
  <2>1. s \in Seq(Bytes)
    BY <1>1
  <2>2. Len(wire) <= Len(s) /\ \A k \in 1 .. Len(wire) : wire[k] = s[k]
    BY <1>2
  <2> QED BY <1>t, <2>1, <2>2, PrefixElements
<1>4. TypeOK'
  BY <1>0, <1>1, <1>3, <1>t, WriterTypes
<1>5. Fresh'
  BY <1>0 DEF Fresh
<1> QED BY <1>0, <1>3, <1>4, <1>5 DEF TypesAdvance, Advances

-----------------------------------------------------------------------------
(***************************************************************************)
(* The reader.  What it has read of the stream and returned is always what *)
(* the walk over the whole stream finds first.                             *)
(***************************************************************************)
\* The bufio.Reader holds the bytes it took last.
Buffered ==
  /\ Len(rbuf) <= taken
  /\ \A k \in 1 .. Len(rbuf) : rbuf[k] = wire[taken - Len(rbuf) + k]

\* The step that Read is at goes with n and checkEnd.
Stages ==
  /\ rpc = "idle" => part = <<>>
  /\ err # "nil" => rpc = "idle"
  /\ rpc = "footer" => checkEnd
  /\ rpc = "header" => ~ checkEnd /\ n = 0
  /\ rpc = "data" => ~ checkEnd /\ n > 0
  /\ checkEnd /\ err = "nil" => n = 0

\* pos bytes of the stream w are read, all but the last `rest' bytes of a
\* chunk among them; or the stream has ended within its footer.
WithinAt(w, ended, seen, pos, rest, X, i, f, m) ==
  /\ InChunk(w, X, i, f, m)
  /\ rest \in Nat /\ rest <= m /\ f + m - rest <= Len(w)
  /\ seen = X \o SubSeq(w, f + 1, f + m - rest)
  /\ \/ pos = f + m - rest
     \/ rest = 0 /\ ended /\ pos = Len(w) /\ Len(w) < f + m + 2

Between == WalkedTo(wire, got \o part, (taken - Len(rbuf)) + 1)
Within ==
  \E X, i, f, m : WithinAt(wire, cut, got \o part, taken - Len(rbuf), n, X, i, f, m)
Over ==
  /\ part = <<>> /\ Decode(wire).body = got /\ Decode(wire).err = err
  /\ err = "ErrUnexpectedEOF" => cut

Progress ==
  /\ err = "nil" /\ n = 0 /\ ~ checkEnd => Between
  /\ err = "nil" /\ (n > 0 \/ checkEnd) => Within
  /\ err # "nil" => Over

ReaderInv == Buffered /\ Stages /\ Progress

\* A chunk stays what it is when bytes follow.
LEMMA WithinStays ==
  ASSUME NEW w \in Seq(Bytes), NEW u \in Seq(Bytes), IsPrefix(w, u), NEW ended,
         NEW seen, NEW pos, NEW rest, NEW X, NEW i, NEW f, NEW m,
         WithinAt(w, FALSE, seen, pos, rest, X, i, f, m)
  PROVE  WithinAt(u, ended, seen, pos, rest, X, i, f, m)
<1>1. /\ InChunk(w, X, i, f, m)
      /\ rest \in Nat /\ rest <= m /\ f + m - rest <= Len(w)
      /\ seen = X \o SubSeq(w, f + 1, f + m - rest)
      /\ pos = f + m - rest
  BY DEF WithinAt
<1>2. InChunk(u, X, i, f, m)
  BY <1>1, InChunkStays
<1>3. /\ f \in Nat /\ m \in Nat /\ Len(w) <= Len(u) /\ Len(w) \in Nat /\ Len(u) \in Nat
  <2>1. Len(w) <= Len(u)
    BY PrefixElements
  <2> QED BY <1>1, <2>1 DEF InChunk, LineAt
<1>4. /\ f + m - rest <= Len(u) /\ f + 1 \in Nat /\ f + m - rest \in Nat /\ 1 <= f + 1
      /\ f + 1 <= (f + m - rest) + 1
  BY <1>1, <1>3
<1>5. SubSeq(w, f + 1, f + m - rest) = SubSeq(u, f + 1, f + m - rest)
  <2>a. PICK a \in Nat : a = f + 1
    BY <1>4
  <2>b. PICK b \in Nat : b = f + m - rest
    BY <1>4
  <2>1. 1 <= a /\ a <= b + 1 /\ b <= Len(w)
    BY <1>1, <1>4, <2>a, <2>b
  <2>2. SubSeq(w, a, b) = SubSeq(u, a, b)
    BY <2>1, PieceOfPrefix
  <2> QED BY <2>2, <2>a, <2>b
<1> QED BY <1>1, <1>2, <1>4, <1>5 DEF WithinAt

\* The reader's invariant survives every step of the writer.
LEMMA ReaderInvAdvances ==
  ASSUME TypeOK, ReaderInv, TypesAdvance
  PROVE  ReaderInv'
<1>0. /\ checkEnd' = checkEnd /\ rpc' = rpc /\ err' = err /\ taken' = taken /\ n' = n
      /\ room' = room /\ rbuf' = rbuf /\ part' = part /\ got' = got
      /\ ~ cut /\ IsPrefix(wire, wire') /\ TypeOK'
  BY DEF TypesAdvance, Advances, ReaderRests, bufio, reader
<1>t. wire \in Seq(Bytes) /\ taken \in Nat /\ taken <= Len(wire) /\ Len(rbuf) \in Nat /\ cut \in BOOLEAN
  BY Types
<1>w. PICK u \in Seq(Bytes) : u = wire'
  BY <1>0 DEF TypeOK
<1>1. Len(wire) <= Len(u) /\ \A k \in 1 .. Len(wire) : wire[k] = u[k]
  BY <1>0, <1>t, <1>w, PrefixElements
<1>p. IsPrefix(wire, u)
  BY <1>0, <1>w
<1>2. Buffered'
  <2>1. Len(rbuf) <= taken /\ \A k \in 1 .. Len(rbuf) : rbuf[k] = wire[taken - Len(rbuf) + k]
    BY DEF ReaderInv, Buffered
  <2>2. \A k \in 1 .. Len(rbuf) : taken - Len(rbuf) + k \in 1 .. Len(wire)
    BY <1>t, <2>1
  <2>3. \A k \in 1 .. Len(rbuf) : rbuf[k] = u[taken - Len(rbuf) + k]
    BY <1>1, <2>1, <2>2
  <2> QED BY <1>0, <1>w, <2>1, <2>3 DEF Buffered
<1>3. Stages'
  BY <1>0 DEF ReaderInv, Stages
<1>4. ASSUME err = "nil", n = 0, ~ checkEnd PROVE Between'
  <2>1. WalkedTo(wire, got \o part, (taken - Len(rbuf)) + 1)
    BY <1>4 DEF ReaderInv, Progress, Between
  <2>2. WalkedTo(u, got \o part, (taken - Len(rbuf)) + 1)
    BY <1>p, <1>t, <2>1, WalkStays
  <2> QED BY <1>0, <1>w, <2>2 DEF Between
<1>5. ASSUME err = "nil", n > 0 \/ checkEnd PROVE Within'
  <2>1. PICK X, i, f, m : WithinAt(wire, cut, got \o part, taken - Len(rbuf), n, X, i, f, m)
    BY <1>5 DEF ReaderInv, Progress, Within
  <2>2. cut = FALSE
    BY <1>0, <1>t
  <2>3. WithinAt(wire, FALSE, got \o part, taken - Len(rbuf), n, X, i, f, m)
    BY <2>1, <2>2
  <2>4. WithinAt(u, cut', got \o part, taken - Len(rbuf), n, X, i, f, m)
    BY <1>p, <1>t, <2>3, WithinStays
  <2> QED BY <1>0, <1>w, <2>4 DEF Within
<1>6. ASSUME err # "nil" PROVE Over'
  <2>1. part = <<>> /\ Decode(wire).body = got /\ Decode(wire).err = err /\ err # "ErrUnexpectedEOF"
    BY <1>0, <1>6 DEF ReaderInv, Progress, Over
  <2>2. Grows(wire, u, 1)
    <3>1. 1 \in 1 .. Len(wire) + 1
      BY <1>t
    <3> QED BY <1>p, <1>t, <3>1, BodyGrows
  <2>3. Decode(u).body = got /\ Decode(u).err = err
    BY <2>1, <2>2 DEF Grows, Decode
  <2> QED BY <1>0, <1>w, <2>1, <2>3 DEF Over
<1>7. Progress'
  BY <1>0, <1>4, <1>5, <1>6 DEF Progress
<1> QED BY <1>2, <1>3, <1>7 DEF ReaderInv

\* What the buffer holds is a piece of the stream.
LEMMA BufferedPiece ==
  ASSUME TypeOK, Buffered, NEW a \in Nat, NEW b \in Nat, 1 <= a, a <= b + 1, b <= Len(rbuf),
         NEW pos, pos = taken - Len(rbuf)
  PROVE  /\ pos \in Nat /\ pos + b <= Len(wire)
         /\ SubSeq(rbuf, a, b) = SubSeq(wire, pos + a, pos + b)
<1>t. /\ wire \in Seq(Bytes) /\ rbuf \in Seq(Bytes) /\ taken \in Nat /\ taken <= Len(wire)
      /\ Len(rbuf) \in Nat /\ Len(wire) \in Nat
  BY Types
<1>0. Len(rbuf) <= taken /\ \A k \in 1 .. Len(rbuf) : rbuf[k] = wire[taken - Len(rbuf) + k]
  BY DEF Buffered
<1>1. pos \in Nat /\ pos + b <= Len(wire) /\ pos + Len(rbuf) = taken
  BY <1>0, <1>t
<1>2. \A k \in 1 .. Len(rbuf) : rbuf[k] = wire[pos + k]
  BY <1>0
<1>3. /\ SubSeq(rbuf, a, b) \in Seq(Bytes) /\ Len(SubSeq(rbuf, a, b)) = b - a + 1
      /\ \A k \in 1 .. b - a + 1 : SubSeq(rbuf, a, b)[k] = rbuf[a + k - 1]
  BY <1>t, Piece
<1>4. /\ pos + a \in Nat /\ pos + b \in Nat /\ 1 <= pos + a /\ pos + a <= (pos + b) + 1
      /\ (pos + b) - (pos + a) + 1 = b - a + 1
  BY <1>1, <1>t
<1>5. /\ SubSeq(wire, pos + a, pos + b) \in Seq(Bytes)
      /\ Len(SubSeq(wire, pos + a, pos + b)) = b - a + 1
      /\ \A k \in 1 .. b - a + 1 : SubSeq(wire, pos + a, pos + b)[k] = wire[pos + a + k - 1]
  <2>1. /\ SubSeq(wire, pos + a, pos + b) \in Seq(Bytes)
        /\ Len(SubSeq(wire, pos + a, pos + b)) = (pos + b) - (pos + a) + 1
        /\ \A k \in 1 .. (pos + b) - (pos + a) + 1 :
             SubSeq(wire, pos + a, pos + b)[k] = wire[pos + a + k - 1]
    BY <1>1, <1>4, <1>t, Piece
  <2> QED BY <1>4, <2>1
<1>p. PICK p \in Seq(Bytes) : p = SubSeq(rbuf, a, b)
  BY <1>3
<1>q. PICK q \in Seq(Bytes) : q = SubSeq(wire, pos + a, pos + b)
  BY <1>5
<1>6. ASSUME NEW k \in 1 .. b - a + 1 PROVE p[k] = q[k]
  <2>1. a + k - 1 \in 1 .. Len(rbuf) /\ pos + (a + k - 1) = pos + a + k - 1
    BY <1>1, <1>t
  <2>2. p[k] = rbuf[a + k - 1] /\ q[k] = wire[pos + a + k - 1]
    BY <1>3, <1>5, <1>p, <1>q
  <2>3. rbuf[a + k - 1] = wire[pos + (a + k - 1)]
    BY <1>2, <2>1
  <2> QED BY <2>1, <2>2, <2>3
<1>7. Len(p) = Len(q) /\ Len(p) = b - a + 1
  BY <1>3, <1>5, <1>p, <1>q
<1>8. p = q
  BY <1>6, <1>7, SameElements
<1> QED BY <1>1, <1>8, <1>p, <1>q

\* Bytes taken out of the buffer.
LEMMA TakeBytes ==
  ASSUME TypeOK, Buffered, NEW c \in Nat, c <= Len(rbuf),
         rbuf' = Drop(rbuf, c), taken' = taken, wire' = wire
  PROVE  /\ rbuf' \in Seq(Bytes) /\ Len(rbuf') = Len(rbuf) - c /\ Len(rbuf') <= BufSize
         /\ Buffered'
<1>t. /\ wire \in Seq(Bytes) /\ rbuf \in Seq(Bytes) /\ taken \in Nat /\ taken <= Len(wire)
      /\ Len(rbuf) \in Nat /\ Len(wire) \in Nat /\ Len(rbuf) <= BufSize /\ BufSize \in Nat
  BY Types
<1>0. Len(rbuf) <= taken /\ \A k \in 1 .. Len(rbuf) : rbuf[k] = wire[taken - Len(rbuf) + k]
  BY DEF Buffered
<1>1. /\ c + 1 \in Nat /\ 1 <= c + 1 /\ c + 1 <= Len(rbuf) + 1 /\ Len(rbuf) <= Len(rbuf)
      /\ Len(rbuf) - (c + 1) + 1 = Len(rbuf) - c
  BY <1>t
<1>2. /\ SubSeq(rbuf, c + 1, Len(rbuf)) \in Seq(Bytes)
      /\ Len(SubSeq(rbuf, c + 1, Len(rbuf))) = Len(rbuf) - (c + 1) + 1
      /\ \A k \in 1 .. Len(rbuf) - (c + 1) + 1 :
           SubSeq(rbuf, c + 1, Len(rbuf))[k] = rbuf[c + 1 + k - 1]
  <2>b. PICK b \in Nat : b = Len(rbuf)
    BY <1>t
  <2>1. rbuf \in Seq(Bytes) /\ c + 1 \in Nat /\ 1 <= c + 1 /\ c + 1 <= b + 1 /\ b <= Len(rbuf)
    BY <1>1, <1>t, <2>b
  <2>2. /\ SubSeq(rbuf, c + 1, b) \in Seq(Bytes)
        /\ Len(SubSeq(rbuf, c + 1, b)) = b - (c + 1) + 1
        /\ \A k \in 1 .. b - (c + 1) + 1 : SubSeq(rbuf, c + 1, b)[k] = rbuf[c + 1 + k - 1]
    BY <2>1, Piece
  <2> QED BY <2>2, <2>b
<1>r. PICK r \in Seq(Bytes) : r = SubSeq(rbuf, c + 1, Len(rbuf))
  BY <1>2
<1>3. rbuf' = r
  BY <1>r DEF Drop
<1>4. Len(r) = Len(rbuf) - c /\ \A k \in 1 .. Len(rbuf) - c : r[k] = rbuf[c + 1 + k - 1]
  BY <1>1, <1>2, <1>r
<1>5. ASSUME NEW k \in 1 .. Len(r) PROVE r[k] = wire[taken - Len(r) + k]
  <2>1. /\ c + 1 + k - 1 \in 1 .. Len(rbuf) /\ k \in 1 .. Len(rbuf) - c
        /\ taken - Len(rbuf) + (c + 1 + k - 1) = taken - Len(r) + k
    <3>1. c \in Nat /\ Len(rbuf) \in Nat /\ taken \in Nat /\ c <= Len(rbuf)
      BY <1>t
    <3>2. Len(r) = Len(rbuf) - c
      BY <1>4
    <3> QED BY <3>1, <3>2
  <2> QED BY <1>0, <1>4, <2>1
<1>6. Len(r) <= taken /\ Len(r) <= BufSize
  BY <1>0, <1>4, <1>t
<1> QED BY <1>3, <1>4, <1>5, <1>6 DEF Buffered

\* Read returns what it has copied.
LEMMA Returned ==
  ASSUME TypeOK, NEW c \in Seq(Bytes), ReturnFromRead(c)
  PROVE  /\ rpc' = "idle" /\ room' \in Nat /\ part' = <<>> /\ part' \in Seq(Bytes)
         /\ got' \in Seq(Bytes) /\ got' = got \o c /\ got' \o part' = got \o c
<1>1. rpc' = "idle" /\ got' = got \o c /\ part' = <<>> /\ room' = 0
  BY DEF ReturnFromRead
<1>2. got \in Seq(Bytes)
  BY Types
<1>g. PICK g \in Seq(Bytes) : g = got \o c
  <2>1. got \o c \in Seq(Bytes)
    BY <1>2, Joined
  <2> QED BY <2>1
<1>3. g \o <<>> = g /\ <<>> \in Seq(Bytes)
  OBVIOUS
<1> QED BY <1>1, <1>3, <1>g

\* A step of the reader that touches neither the buffer nor the chunk.
LEMMA ReaderInvSame ==
  ASSUME TypeOK, ReaderInv, UNCHANGED <<writer, conn, bufio, reader>>,
         got' \o part' = got \o part, Stages', err # "nil" => got' = got /\ part' = part
  PROVE  ReaderInv'
<1>0. /\ checkEnd' = checkEnd /\ err' = err /\ taken' = taken /\ n' = n
      /\ rbuf' = rbuf /\ wire' = wire /\ cut' = cut
  BY DEF bufio, reader, conn
<1>1. Buffered'
  BY <1>0 DEF ReaderInv, Buffered
<1>2. Between => Between'
  BY <1>0 DEF Between
<1>3. Within => Within'
  BY <1>0 DEF Within
<1>4. err # "nil" /\ Over => Over'
  BY <1>0 DEF Over
<1>5. Progress'
  BY <1>0, <1>2, <1>3, <1>4 DEF ReaderInv, Progress
<1> QED BY <1>1, <1>5 DEF ReaderInv

\* What a step of the reader leaves true.
ReaderStays == TypeOK' /\ ReaderInv'

\* A call of Read.
LEMMA ReadInv ==
  ASSUME TypeOK, ReaderInv, NEW size \in ReadSizes, Read(size)
  PROVE  ReaderStays
<1>0. /\ rpc = "idle" /\ UNCHANGED <<writer, conn, bufio, reader>> /\ part' = part /\ got' = got
      /\ \/ err = "nil" /\ rpc' = "loop" /\ room' = size
         \/ err # "nil" /\ rpc' = rpc /\ room' = room
  BY DEF Read
<1>t. /\ taken \in 0 .. Len(wire) /\ rbuf \in Seq(Bytes) /\ Len(rbuf) <= BufSize /\ n \in Nat
      /\ err \in Errors /\ checkEnd \in BOOLEAN /\ room \in Nat /\ part \in Seq(Bytes)
      /\ got \in Seq(Bytes)
  BY Types
<1>1. size \in Nat
  BY SizesAssumption
<1>2. /\ taken' = taken /\ rbuf' = rbuf /\ n' = n /\ err' = err /\ checkEnd' = checkEnd
  BY <1>0 DEF bufio, reader
<1>3. rpc' \in {"idle", "loop", "footer", "header", "data"} /\ room' \in Nat
  BY <1>0, <1>1, <1>t
<1>4. TypeOK'
  BY <1>0, <1>2, <1>3, <1>t, ReaderTypes
<1>5. Stages'
  BY <1>0, <1>2 DEF ReaderInv, Stages
<1>6. ReaderInv'
  BY <1>0, <1>5, ReaderInvSame
<1> QED BY <1>4, <1>6 DEF ReaderStays

\* Read leaves its loop.
LEMMA BreakLoopInv ==
  ASSUME TypeOK, ReaderInv, BreakLoop
  PROVE  ReaderStays
<1>0. rpc = "loop" /\ ReturnFromRead(part) /\ UNCHANGED <<writer, conn, bufio, reader>>
  BY DEF BreakLoop
<1>t. /\ taken \in 0 .. Len(wire) /\ rbuf \in Seq(Bytes) /\ Len(rbuf) <= BufSize /\ n \in Nat
      /\ err \in Errors /\ checkEnd \in BOOLEAN /\ part \in Seq(Bytes)
  BY Types
<1>1. /\ rpc' = "idle" /\ room' \in Nat /\ part' = <<>> /\ part' \in Seq(Bytes)
      /\ got' \in Seq(Bytes) /\ got' \o part' = got \o part
  BY <1>0, <1>t, Returned
<1>2. /\ taken' = taken /\ rbuf' = rbuf /\ n' = n /\ err' = err /\ checkEnd' = checkEnd
  BY <1>0 DEF bufio, reader
<1>3. TypeOK'
  BY <1>0, <1>1, <1>2, <1>t, ReaderTypes
<1>4. Stages' /\ err = "nil"
  BY <1>0, <1>1, <1>2 DEF ReaderInv, Stages
<1>5. ReaderInv'
  BY <1>0, <1>1, <1>4, ReaderInvSame
<1> QED BY <1>3, <1>5 DEF ReaderStays

\* Read comes to its next read of cr.r.
LEMMA EnterStageInv ==
  ASSUME TypeOK, ReaderInv, EnterStage
  PROVE  ReaderStays
<1>0. /\ rpc = "loop" /\ rpc' = Stage /\ UNCHANGED <<writer, conn, bufio, reader>>
      /\ room' = room /\ part' = part /\ got' = got
  BY DEF EnterStage
<1>t. /\ taken \in 0 .. Len(wire) /\ rbuf \in Seq(Bytes) /\ Len(rbuf) <= BufSize /\ n \in Nat
      /\ err \in Errors /\ checkEnd \in BOOLEAN /\ room \in Nat /\ part \in Seq(Bytes)
      /\ got \in Seq(Bytes)
  BY Types
<1>2. /\ taken' = taken /\ rbuf' = rbuf /\ n' = n /\ err' = err /\ checkEnd' = checkEnd
  BY <1>0 DEF bufio, reader
<1>3. rpc' \in {"idle", "loop", "footer", "header", "data"} /\ rpc' # "idle"
  BY <1>0 DEF Stage
<1>4. TypeOK'
  BY <1>0, <1>2, <1>3, <1>t, ReaderTypes
<1>5. err = "nil"
  BY <1>0 DEF ReaderInv, Stages
<1>6. n # 0 => n > 0
  BY <1>t
<1>7. Stages'
  BY <1>0, <1>2, <1>3, <1>5, <1>6 DEF ReaderInv, Stages, Stage
<1>8. ReaderInv'
  BY <1>0, <1>5, <1>7, ReaderInvSame
<1> QED BY <1>4, <1>8 DEF ReaderStays

\* The bufio.Reader takes more bytes.
LEMMA FillInv ==
  ASSUME TypeOK, ReaderInv, NEW k \in 1 .. BufSize, Fill(k)
  PROVE  ReaderStays
<1>0. /\ k <= BufSize - Len(rbuf) /\ k <= Len(wire) - taken
      /\ rbuf' = rbuf \o SubSeq(wire, taken + 1, taken + k) /\ taken' = taken + k
      /\ UNCHANGED <<writer, conn, reader>> /\ rpc' = rpc /\ room' = room
      /\ part' = part /\ got' = got
  BY DEF Fill
<1>t. /\ taken \in Nat /\ taken <= Len(wire) /\ Len(wire) \in Nat /\ rbuf \in Seq(Bytes)
      /\ Len(rbuf) \in Nat /\ Len(rbuf) <= BufSize /\ BufSize \in Nat /\ n \in Nat
      /\ err \in Errors /\ checkEnd \in BOOLEAN /\ room \in Nat /\ part \in Seq(Bytes)
      /\ got \in Seq(Bytes) /\ rpc \in {"idle", "loop", "footer", "header", "data"}
      /\ wire \in Seq(Bytes)
  BY Types
<1>1. n' = n /\ err' = err /\ checkEnd' = checkEnd /\ wire' = wire /\ cut' = cut
  BY <1>0 DEF reader, conn
<1>b. Len(rbuf) <= taken /\ \A j \in 1 .. Len(rbuf) : rbuf[j] = wire[taken - Len(rbuf) + j]
  BY DEF ReaderInv, Buffered
<1>2. /\ taken + 1 \in Nat /\ taken + k \in Nat /\ 1 <= taken + 1 /\ taken + 1 <= (taken + k) + 1
      /\ taken + k <= Len(wire) /\ (taken + k) - (taken + 1) + 1 = k /\ k \in Nat
  BY <1>0, <1>t
<1>q. PICK q \in Seq(Bytes) : /\ q = SubSeq(wire, taken + 1, taken + k) /\ Len(q) = k
                              /\ \A j \in 1 .. k : q[j] = wire[taken + 1 + j - 1]
  <2>1. /\ SubSeq(wire, taken + 1, taken + k) \in Seq(Bytes)
        /\ Len(SubSeq(wire, taken + 1, taken + k)) = (taken + k) - (taken + 1) + 1
        /\ \A j \in 1 .. (taken + k) - (taken + 1) + 1 :
             SubSeq(wire, taken + 1, taken + k)[j] = wire[taken + 1 + j - 1]
    BY <1>2, <1>t, Piece
  <2> QED BY <1>2, <2>1
<1>r. PICK r \in Seq(Bytes) : /\ r = rbuf \o q /\ Len(r) = Len(rbuf) + k
                              /\ \A j \in 1 .. Len(rbuf) : r[j] = rbuf[j]
                              /\ \A j \in 1 .. k : r[Len(rbuf) + j] = q[j]
  <2>1. /\ rbuf \o q \in Seq(Bytes) /\ Len(rbuf \o q) = Len(rbuf) + Len(q)
        /\ \A j \in 1 .. Len(rbuf) : (rbuf \o q)[j] = rbuf[j]
        /\ \A j \in 1 .. Len(q) : (rbuf \o q)[Len(rbuf) + j] = q[j]
    BY <1>t, Joined
  <2> QED BY <1>q, <2>1
<1>3. rbuf' = r
  BY <1>0, <1>q, <1>r
<1>4. /\ Len(r) = Len(rbuf) + k /\ \A j \in 1 .. Len(rbuf) : r[j] = rbuf[j]
      /\ \A j \in 1 .. k : r[Len(rbuf) + j] = wire[taken + 1 + j - 1]
  BY <1>q, <1>r
<1>5. ASSUME NEW j \in 1 .. Len(r) PROVE r[j] = wire[(taken + k) - Len(r) + j]
  <2>0. (taken + k) - Len(r) + j = taken - Len(rbuf) + j
    BY <1>2, <1>4, <1>t
  <2>1. CASE j <= Len(rbuf)
    <3>1. j \in 1 .. Len(rbuf)
      BY <1>t, <2>1
    <3> QED BY <1>4, <1>b, <2>0, <3>1
  <2>2. CASE ~ (j <= Len(rbuf))
    <3>1. PICK h \in 1 .. k : j = Len(rbuf) + h
      <4>1. j - Len(rbuf) \in 1 .. k /\ j = Len(rbuf) + (j - Len(rbuf))
        BY <1>2, <1>4, <1>t, <2>2
      <4> QED BY <4>1
    <3>2. taken + 1 + h - 1 = taken - Len(rbuf) + j
      BY <1>2, <1>t, <3>1
    <3> QED BY <1>4, <2>0, <3>1, <3>2
  <2> QED BY <2>1, <2>2
<1>6. /\ Len(r) <= taken + k /\ Len(r) <= BufSize /\ taken + k \in 0 .. Len(wire)
      /\ (taken + k) - Len(r) = taken - Len(rbuf)
  BY <1>0, <1>2, <1>4, <1>b, <1>t
<1>7. Buffered'
  BY <1>0, <1>1, <1>3, <1>5, <1>6 DEF Buffered
<1>8. TypeOK'
  BY <1>0, <1>1, <1>3, <1>6, <1>t, ReaderTypes
<1>9. Stages'
  BY <1>0, <1>1 DEF ReaderInv, Stages
<1>10. taken' - Len(rbuf') = taken - Len(rbuf)
  BY <1>0, <1>3, <1>6
<1>11. (Between => Between') /\ (Within => Within') /\ (Over => Over')
  BY <1>0, <1>1, <1>10 DEF Between, Within, Over
<1>12. Progress'
  BY <1>0, <1>1, <1>11 DEF ReaderInv, Progress
<1> QED BY <1>7, <1>8, <1>9, <1>12 DEF ReaderInv, ReaderStays

\* The chunk that the reader is in.
LEMMA InChunkIs ==
  ASSUME NEW w \in Seq(Bytes), NEW X, NEW i, NEW f, NEW m, InChunk(w, X, i, f, m)
  PROVE  /\ ChunkAt(w, i) = DataAt(w, f, m) /\ WalkedTo(w, X, i)
         /\ f \in Nat /\ f <= Len(w) /\ m \in Nat /\ m > 0 /\ X \in Seq(Bytes)
<1>1. /\ WalkedTo(w, X, i) /\ LineAt(w, i, f) /\ m \in Nat /\ m > 0
      /\ ChunkHeader(SubSeq(w, i, f)).err = "nil" /\ ChunkHeader(SubSeq(w, i, f)).n = m
  BY DEF InChunk
<1>2. ChunkAt(w, i) = DataAt(w, f, m)
  BY <1>1, ChunkLine
<1>3. f \in Nat /\ f <= Len(w) /\ X \in Seq(Bytes)
  BY <1>1 DEF LineAt, WalkedTo
<1> QED BY <1>1, <1>2, <1>3

\* The footer of a chunk is read and compared.
LEMMA ReadFooterInv ==
  ASSUME TypeOK, ReaderInv, ReadFooter
  PROVE  ReaderStays
<1>0. /\ rpc = "footer" /\ Satisfied /\ rbuf' = Drop(rbuf, 2) /\ err' = FooterError
      /\ checkEnd' = (FooterError # "nil") /\ NextIteration(FooterError, part)
      /\ UNCHANGED <<writer, conn>> /\ taken' = taken /\ n' = n
  BY DEF ReadFooter
<1>t. /\ taken \in 0 .. Len(wire) /\ taken \in Nat /\ taken <= Len(wire) /\ Len(wire) \in Nat
      /\ rbuf \in Seq(Bytes) /\ Len(rbuf) \in Nat /\ n \in Nat /\ room \in Nat
      /\ part \in Seq(Bytes) /\ got \in Seq(Bytes) /\ wire \in Seq(Bytes)
  BY Types
<1>w. wire' = wire /\ cut' = cut
  BY <1>0 DEF conn
<1>1. Len(rbuf) >= 2 /\ 2 <= Len(rbuf)
  BY <1>0, <1>t DEF Satisfied
<1>2. err = "nil" /\ checkEnd /\ n = 0 /\ Buffered
  BY <1>0 DEF ReaderInv, Stages
<1>3. rbuf' \in Seq(Bytes) /\ Len(rbuf') = Len(rbuf) - 2 /\ Len(rbuf') <= BufSize /\ Buffered'
  BY <1>0, <1>1, <1>2, <1>w, TakeBytes
<1>p. PICK pos : pos = taken - Len(rbuf)
  OBVIOUS
<1>4. pos \in Nat /\ pos + 2 <= Len(wire) /\ SubSeq(rbuf, 1, 2) = SubSeq(wire, pos + 1, pos + 2)
  <2>1. 1 \in Nat /\ 2 \in Nat /\ 1 <= 1 /\ 1 <= 2 + 1 /\ 2 <= Len(rbuf)
    BY <1>1
  <2>2. pos \in Nat /\ pos + 2 <= Len(wire)
    BY <1>2, <1>p, <2>1, BufferedPiece
  <2>3. SubSeq(rbuf, 1, 2) = SubSeq(wire, pos + 1, pos + 2)
    BY <1>2, <1>p, <2>1, BufferedPiece
  <2> QED BY <2>2, <2>3
<1>5. PICK X, i, f, m : WithinAt(wire, cut, got \o part, pos, 0, X, i, f, m)
  BY <1>2, <1>p DEF ReaderInv, Progress, Within
<1>6. /\ InChunk(wire, X, i, f, m) /\ got \o part = X \o SubSeq(wire, f + 1, f + m - 0)
      /\ pos = f + m - 0 \/ pos = Len(wire)
  BY <1>5 DEF WithinAt
<1>7. /\ ChunkAt(wire, i) = DataAt(wire, f, m) /\ WalkedTo(wire, X, i)
      /\ f \in Nat /\ f <= Len(wire) /\ m \in Nat
  BY <1>6, <1>t, InChunkIs
<1>8. pos = f + m /\ f + m - 0 = f + m
  BY <1>4, <1>6, <1>7, <1>t
<1>9. got \o part = X \o SubSeq(wire, f + 1, f + m) /\ f + m + 2 <= Len(wire)
  BY <1>4, <1>6, <1>8
<1>q. taken' - Len(rbuf') = pos + 2
  <2>1. taken' = taken /\ Len(rbuf') = Len(rbuf) - 2
    BY <1>0, <1>3
  <2> QED BY <1>p, <1>t, <2>1
<1>10. CASE SubSeq(rbuf, 1, 2) = CRLF
  <2>1. err' = "nil" /\ checkEnd' = FALSE /\ NextIteration("nil", part)
    BY <1>0, <1>10 DEF FooterError
  <2>2. rpc' = "loop" /\ part' = part /\ got' = got /\ room' = room - (Len(part) - Len(part))
    BY <2>1 DEF NextIteration
  <2>3. room' \in Nat
    BY <1>t, <2>2
  <2>4. TypeOK'
    BY <1>0, <1>3, <1>t, <2>1, <2>2, <2>3, ReaderTypes DEF Errors
  <2>5. SubSeq(wire, f + m + 1, f + m + 2) = CRLF
    BY <1>4, <1>8, <1>10
  <2>6. WalkedTo(wire, X \o SubSeq(wire, f + 1, f + m), f + m + 3)
    BY <1>6, <1>9, <1>t, <2>5, ChunkDone
  <2>7. f + m + 3 = (pos + 2) + 1
    BY <1>7, <1>8
  <2>8. WalkedTo(wire, got \o part, (pos + 2) + 1)
    BY <1>9, <2>6, <2>7
  <2>9. Between'
    BY <1>q, <1>w, <2>2, <2>8 DEF Between
  <2>10. Stages'
    BY <2>1, <2>2 DEF Stages
  <2>11. Progress'
    BY <1>0, <1>2, <2>1, <2>9 DEF Progress
  <2> QED BY <1>3, <2>4, <2>10, <2>11 DEF ReaderInv, ReaderStays
<1>11. CASE SubSeq(rbuf, 1, 2) # CRLF
  <2>1. err' = "Malformed" /\ checkEnd' = TRUE /\ NextIteration("Malformed", part)
    BY <1>0, <1>11 DEF FooterError
  <2>2. ReturnFromRead(part)
    BY <2>1 DEF NextIteration
  <2>3. /\ rpc' = "idle" /\ room' \in Nat /\ part' = <<>> /\ part' \in Seq(Bytes)
        /\ got' \in Seq(Bytes) /\ got' = got \o part
    BY <1>t, <2>2, Returned
  <2>4. TypeOK'
    BY <1>0, <1>3, <1>t, <2>1, <2>3, ReaderTypes DEF Errors
  <2>5. SubSeq(wire, f + m + 1, f + m + 2) # CRLF
    BY <1>4, <1>8, <1>11
  <2>6. ~ (Len(wire) < f + m + 2) /\ f + m <= Len(wire)
    BY <1>7, <1>9, <1>t
  <2>7. ChunkAt(wire, i).err = "Malformed" /\ ChunkAt(wire, i).body = SubSeq(wire, f + 1, f + m)
    BY <1>7, <2>5, <2>6 DEF DataAt
  <2>8. Decode(wire).body = X \o ChunkAt(wire, i).body /\ Decode(wire).err = ChunkAt(wire, i).err
    BY <1>7, <1>t, <2>7, WalkEnds
  <2>9. Decode(wire).body = got' /\ Decode(wire).err = "Malformed"
    BY <1>9, <2>3, <2>7, <2>8
  <2>10. Over'
    BY <1>w, <2>1, <2>3, <2>9 DEF Over
  <2>11. Stages'
    BY <2>1, <2>3 DEF Stages
  <2>12. Progress'
    BY <2>1, <2>10 DEF Progress
  <2> QED BY <1>3, <2>4, <2>11, <2>12 DEF ReaderInv, ReaderStays
<1> QED BY <1>10, <1>11

\* The stream ends within a footer: Read returns and stays where it is.
LEMMA FooterEOFInv ==
  ASSUME TypeOK, ReaderInv, FooterEOF
  PROVE  ReaderStays
<1>0. /\ rpc = "footer" /\ AtEOF /\ rbuf' = <<>> /\ ReturnFromRead(part)
      /\ UNCHANGED <<writer, conn>> /\ taken' = taken /\ UNCHANGED reader
  BY DEF FooterEOF
<1>t. /\ taken \in 0 .. Len(wire) /\ taken \in Nat /\ taken <= Len(wire) /\ Len(wire) \in Nat
      /\ rbuf \in Seq(Bytes) /\ Len(rbuf) \in Nat /\ n \in Nat /\ room \in Nat
      /\ part \in Seq(Bytes) /\ got \in Seq(Bytes) /\ wire \in Seq(Bytes)
      /\ err \in Errors /\ checkEnd \in BOOLEAN /\ BufSize \in Nat
  BY Types
<1>w. wire' = wire /\ cut' = cut /\ n' = n /\ err' = err /\ checkEnd' = checkEnd
  BY <1>0 DEF conn, reader
<1>1. cut /\ taken = Len(wire) /\ Len(rbuf) < 2
  BY <1>0, <1>t DEF AtEOF, Satisfied
<1>2. err = "nil" /\ checkEnd /\ n = 0
  BY <1>0 DEF ReaderInv, Stages
<1>b. Len(rbuf) <= taken
  BY DEF ReaderInv, Buffered
<1>3. /\ rpc' = "idle" /\ room' \in Nat /\ part' = <<>> /\ part' \in Seq(Bytes)
      /\ got' \in Seq(Bytes) /\ got' \o part' = got \o part
  BY <1>0, <1>t, Returned
<1>r. PICK r \in Seq(Bytes) : r = rbuf' /\ Len(r) = 0
  <2>1. <<>> \in Seq(Bytes) /\ Len(<<>>) = 0
    OBVIOUS
  <2> QED BY <1>0, <2>1
<1>4. Len(rbuf') = 0 /\ Len(rbuf') <= BufSize /\ rbuf' \in Seq(Bytes)
  BY <1>r, <1>t
<1>5. TypeOK'
  BY <1>0, <1>3, <1>4, <1>t, <1>w, ReaderTypes
<1>6. Buffered'
  <2>1. Len(rbuf') <= taken' /\ \A k \in 1 .. Len(rbuf') : rbuf'[k] = wire'[taken' - Len(rbuf') + k]
    BY <1>0, <1>4, <1>t
  <2> QED BY <2>1 DEF Buffered
<1>7. Stages'
  BY <1>2, <1>3, <1>w DEF Stages
<1>8. PICK X, i, f, m : WithinAt(wire, cut, got \o part, taken - Len(rbuf), n, X, i, f, m)
  BY <1>2 DEF ReaderInv, Progress, Within
<1>9. /\ InChunk(wire, X, i, f, m)
      /\ n \in Nat /\ n <= m /\ f + m - n <= Len(wire)
      /\ got \o part = X \o SubSeq(wire, f + 1, f + m - n)
      /\ taken - Len(rbuf) = f + m - n \/ Len(wire) < f + m + 2
  BY <1>8 DEF WithinAt
<1>10. f \in Nat /\ m \in Nat
  BY <1>9, <1>t, InChunkIs
<1>11. Len(wire) < f + m + 2
  BY <1>1, <1>2, <1>9, <1>10, <1>t
<1>12. taken' - Len(rbuf') = Len(wire)
  BY <1>0, <1>1, <1>4, <1>t
<1>13. WithinAt(wire, cut, got \o part, Len(wire), n, X, i, f, m)
  BY <1>1, <1>2, <1>9, <1>11 DEF WithinAt
<1>14. Within'
  BY <1>3, <1>12, <1>13, <1>w DEF Within
<1>15. Progress'
  BY <1>2, <1>14, <1>w DEF Progress
<1> QED BY <1>5, <1>6, <1>7, <1>15 DEF ReaderInv, ReaderStays

\* A line that fills the buffer ends the stream, wherever it ends.
LEMMA LongLine ==
  ASSUME NEW w \in Seq(Bytes), NEW i \in Nat, 1 <= i, i + BufSize - 1 <= Len(w),
         \A j \in i .. i + BufSize - 1 : w[j] # "LF"
  PROVE  ChunkAt(w, i) = [body |-> <<>>, next |-> 0, err |-> "ErrLineTooLong"]
<1>0. BufSize \in Nat /\ Len(w) \in Nat
  BY SizesAssumption
<1>1. CASE NoLine(w, i)
  <2>1. Len(w) - i + 1 >= BufSize
    BY <1>0
  <2> QED BY <1>1, <2>1, ChunkNoLine
<1>2. ASSUME NEW f, LineAt(w, i, f)
      PROVE  ChunkAt(w, i) = [body |-> <<>>, next |-> 0, err |-> "ErrLineTooLong"]
  <2>1. f \in Nat /\ i <= f /\ f <= Len(w) /\ w[f] = "LF"
    BY <1>2 DEF LineAt
  <2>2. f > i + BufSize - 1
    <3> SUFFICES ASSUME ~ (f > i + BufSize - 1) PROVE FALSE
      OBVIOUS
    <3>1. f \in i .. i + BufSize - 1
      BY <1>0, <2>1
    <3> QED BY <2>1, <3>1
  <2>l. PICK l \in Seq(Bytes) : l = SubSeq(w, i, f) /\ Len(l) = f - i + 1
    BY <1>2, LineBytes
  <2>3. Len(l) >= BufSize
    BY <1>0, <2>1, <2>2, <2>l
  <2>4. ChunkHeader(l).err = "ErrLineTooLong"
    BY <2>3 DEF ChunkHeader
  <2>5. ChunkHeader(SubSeq(w, i, f)).err = "ErrLineTooLong"
    BY <2>4, <2>l
  <2> QED BY <1>2, <2>5, ChunkBadLine
<1> QED BY <1>1, <1>2, LineOrNot

\* The first LF of the buffer.
LEMMA FirstLFIs ==
  ASSUME NEW s \in Seq(Bytes), HasLF(s)
  PROVE  /\ FirstLF(s) \in Nat /\ 1 <= FirstLF(s) /\ FirstLF(s) <= Len(s) /\ s[FirstLF(s)] = "LF"
         /\ \A j \in 1 .. FirstLF(s) - 1 : s[j] # "LF"
<1> DEFINE I == {j \in 1 .. Len(s) : s[j] = "LF"}
<1>0. Len(s) \in Nat
  OBVIOUS
<1>1. I # {} /\ I \subseteq Nat
  BY <1>0 DEF HasLF
<1>2. PICK x \in I : \A y \in I : x <= y
  BY <1>1, LeastNatural
<1>3. Min(I) = x
  BY <1>1, <1>2, MinIs
<1>4. FirstLF(s) = x
  BY <1>1, <1>3 DEF FirstLF, SelectInSeq
<1>5. x \in Nat /\ 1 <= x /\ x <= Len(s) /\ s[x] = "LF"
  BY <1>0, <1>2
<1>6. ASSUME NEW j \in 1 .. x - 1, s[j] = "LF" PROVE FALSE
  <2>1. j \in I /\ ~ (x <= j)
    BY <1>0, <1>5, <1>6
  <2> QED BY <1>2, <2>1
<1> QED BY <1>4, <1>5, <1>6

\* Nothing is read after the size line yet.
LEMMA NothingAfter ==
  ASSUME NEW w \in Seq(Bytes), NEW X \in Seq(Bytes), NEW f \in Nat, f <= Len(w)
  PROVE  X \o SubSeq(w, f + 1, f) = X
<1>1. SubSeq(w, f + 1, f) \in Seq(Bytes) /\ Len(SubSeq(w, f + 1, f)) = f - (f + 1) + 1
  BY Piece
<1>0. f - (f + 1) + 1 = 0
  OBVIOUS
<1>e. PICK e \in Seq(Bytes) : e = SubSeq(w, f + 1, f) /\ Len(e) = 0
  <2>1. SubSeq(w, f + 1, f) \in Seq(Bytes) /\ Len(SubSeq(w, f + 1, f)) = 0
    BY <1>0, <1>1
  <2> QED BY <2>1
<1>2. Len(e) = 0
  BY <1>e
<1>3. e = <<>>
  BY <1>2
<1>4. X \o <<>> = X
  OBVIOUS
<1> QED BY <1>3, <1>4, <1>e

\* What is left to show of a step that reads the size line `line'.
LEMMA HeaderEnds ==
  ASSUME TypeOK, NEW pos, NEW e, WalkedTo(wire, got \o part, pos + 1), err' = e,
         e # "nil", e # "ErrUnexpectedEOF" \/ cut, ReturnFromRead(part), wire' = wire, cut' = cut,
         ChunkAt(wire, pos + 1).body = <<>>, ChunkAt(wire, pos + 1).err = e
  PROVE  /\ Over' /\ rpc' = "idle" /\ room' \in Nat /\ part' \in Seq(Bytes)
         /\ part' = <<>> /\ got' \in Seq(Bytes)
<1>t. wire \in Seq(Bytes) /\ got \in Seq(Bytes) /\ part \in Seq(Bytes)
  BY Types
<1>1. /\ rpc' = "idle" /\ room' \in Nat /\ part' = <<>> /\ part' \in Seq(Bytes)
      /\ got' \in Seq(Bytes) /\ got' = got \o part
  BY <1>t, Returned
<1>2. /\ Decode(wire).body = (got \o part) \o ChunkAt(wire, pos + 1).body
      /\ Decode(wire).err = ChunkAt(wire, pos + 1).err
  BY <1>t, WalkEnds
<1>s. PICK s \in Seq(Bytes) : s = got \o part
  <2>1. got \o part \in Seq(Bytes)
    BY <1>t, Joined
  <2> QED BY <2>1
<1>3. s \o <<>> = s
  OBVIOUS
<1>4. Decode(wire).body = got' /\ Decode(wire).err = e
  BY <1>1, <1>2, <1>3, <1>s
<1> QED BY <1>1, <1>4 DEF Over

\* A size line is read.
LEMMA BeginChunkInv ==
  ASSUME TypeOK, ReaderInv, BeginChunk
  PROVE  ReaderStays
<1>0. /\ rpc = "header" /\ Satisfied /\ UNCHANGED <<writer, conn>> /\ taken' = taken
      /\ checkEnd' = checkEnd
  BY DEF BeginChunk
<1>l. PICK line : line = BufferedLine
  OBVIOUS
<1>h. PICK h : h = ChunkHeader(line)
  OBVIOUS
<1>1. n' = h.n /\ err' = h.err /\ NextIteration(h.err, part) /\ rbuf' = Drop(rbuf, Len(line))
  BY <1>h, <1>l DEF BeginChunk
<1>t. /\ taken \in 0 .. Len(wire) /\ taken \in Nat /\ taken <= Len(wire) /\ Len(wire) \in Nat
      /\ rbuf \in Seq(Bytes) /\ Len(rbuf) \in Nat /\ n \in Nat /\ room \in Nat
      /\ part \in Seq(Bytes) /\ got \in Seq(Bytes) /\ wire \in Seq(Bytes)
      /\ err \in Errors /\ checkEnd \in BOOLEAN /\ BufSize \in Nat
  BY Types
<1>w. wire' = wire /\ cut' = cut
  BY <1>0 DEF conn
<1>2. err = "nil" /\ checkEnd = FALSE /\ n = 0 /\ Buffered
  BY <1>0, <1>t DEF ReaderInv, Stages
<1>p. PICK pos : pos = taken - Len(rbuf)
  OBVIOUS
<1>3. WalkedTo(wire, got \o part, pos + 1)
  BY <1>2, <1>p DEF ReaderInv, Progress, Between
<1>b. /\ pos \in Nat /\ pos + Len(rbuf) = taken
      /\ \A k \in 1 .. Len(rbuf) : rbuf[k] = wire[pos + k]
  BY <1>2, <1>p, <1>t DEF Buffered
<1>4. CASE HasLF(rbuf)
  <2>x. PICK x \in Nat : /\ x = FirstLF(rbuf) /\ 1 <= x /\ x <= Len(rbuf) /\ rbuf[x] = "LF"
                         /\ \A j \in 1 .. x - 1 : rbuf[j] # "LF"
    BY <1>4, <1>t, FirstLFIs
  <2>1. line = SubSeq(rbuf, 1, x)
    BY <1>4, <1>l, <2>x DEF BufferedLine
  <2>2. line \in Seq(Bytes) /\ Len(line) = x
    <3>1. SubSeq(rbuf, 1, x) \in Seq(Bytes) /\ Len(SubSeq(rbuf, 1, x)) = x - 1 + 1
      BY <1>t, <2>x, Piece
    <3> QED BY <2>1, <3>1
  <2>3. line = SubSeq(wire, pos + 1, pos + x)
    <3>1. 1 \in Nat /\ 1 <= 1 /\ 1 <= x + 1 /\ x <= Len(rbuf)
      BY <2>x
    <3>2. SubSeq(rbuf, 1, x) = SubSeq(wire, pos + 1, pos + x)
      BY <1>2, <1>p, <3>1, BufferedPiece
    <3> QED BY <2>1, <3>2
  <2>4. /\ pos + 1 \in Nat /\ pos + x \in Nat /\ 1 <= pos + 1 /\ pos + 1 <= pos + x
        /\ pos + x <= Len(wire)
    BY <1>b, <1>t, <2>x
  <2>5. LineAt(wire, pos + 1, pos + x)
    <3>1. x \in 1 .. Len(rbuf)
      BY <1>t, <2>x
    <3>2. wire[pos + x] = "LF"
      BY <1>b, <2>x, <3>1
    <3>3. ASSUME NEW j \in pos + 1 .. (pos + x) - 1 PROVE wire[j] # "LF"
      <4>1. PICK k \in 1 .. x - 1 : j = pos + k /\ k \in 1 .. Len(rbuf)
        <5>0. pos \in Nat /\ x \in Nat /\ Len(rbuf) \in Nat /\ x <= Len(rbuf)
          BY <1>b, <1>t, <2>x
        <5>1. j - pos \in 1 .. x - 1 /\ j = pos + (j - pos) /\ j - pos \in 1 .. Len(rbuf)
          BY <5>0
        <5> QED BY <5>1
      <4> QED BY <1>b, <2>x, <4>1
    <3> QED BY <2>4, <3>2, <3>3 DEF LineAt
  <2>6. /\ h.n \in Nat /\ h.err \in Errors \ {"ErrUnexpectedEOF"}
        /\ h.err = "nil" => h.n > 0
    BY <1>h, <2>2, HeaderType
  <2>7. rbuf' \in Seq(Bytes) /\ Len(rbuf') = Len(rbuf) - x /\ Len(rbuf') <= BufSize /\ Buffered'
    <3>1. rbuf' = Drop(rbuf, x)
      BY <1>1, <2>2
    <3> QED BY <1>0, <1>2, <1>w, <2>x, <3>1, TakeBytes
  <2>8. taken' - Len(rbuf') = pos + x
    <3>1. taken' = taken /\ Len(rbuf') = Len(rbuf) - x
      BY <1>0, <2>7
    <3> QED BY <1>p, <1>t, <3>1
  <2>9. CASE h.err = "nil"
    <3>1. /\ rpc' = "loop" /\ part' = part /\ got' = got /\ err' = "nil"
          /\ room' = room - (Len(part) - Len(part))
      BY <1>1, <2>9 DEF NextIteration
    <3>2. room' \in Nat
      BY <1>t, <3>1
    <3>m. PICK m \in Nat : m = h.n /\ m > 0
      BY <2>6, <2>9
    <3>3. n' = m /\ n' \in Nat
      BY <1>1, <3>m
    <3>4. TypeOK'
      BY <1>0, <1>t, <2>7, <3>1, <3>2, <3>3, ReaderTypes DEF Errors
    <3>5. InChunk(wire, got \o part, pos + 1, pos + x, m)
      BY <1>3, <1>h, <2>3, <2>5, <2>9, <3>m DEF InChunk
    <3>s. PICK s \in Seq(Bytes) : s = got \o part
      <4>1. got \o part \in Seq(Bytes)
        BY <1>t, Joined
      <4> QED BY <4>1
    <3>6. s = s \o SubSeq(wire, (pos + x) + 1, (pos + x) + m - m)
      <4>1. (pos + x) + m - m = pos + x
        BY <2>4
      <4>2. s \o SubSeq(wire, (pos + x) + 1, pos + x) = s
        BY <1>t, <2>4, NothingAfter
      <4> QED BY <4>1, <4>2
    <3>7. m <= m /\ (pos + x) + m - m <= Len(wire) /\ pos + x = (pos + x) + m - m
      BY <2>4
    <3>8. WithinAt(wire, cut, s, pos + x, m, s, pos + 1, pos + x, m)
      BY <3>5, <3>6, <3>7, <3>s DEF WithinAt
    <3>9. Within'
      BY <1>w, <2>8, <3>1, <3>3, <3>8, <3>s DEF Within
    <3>10. Progress'
      BY <1>0, <1>2, <3>1, <3>3, <3>9, <3>m DEF Progress
    <3>11. Stages'
      BY <1>0, <1>2, <3>1 DEF Stages
    <3> QED BY <2>7, <3>4, <3>10, <3>11 DEF ReaderInv, ReaderStays
  <2>10. CASE h.err # "nil"
    <3>1. ReturnFromRead(part)
      BY <1>1, <2>10 DEF NextIteration
    <3>2. ChunkAt(wire, pos + 1) = [body |-> <<>>, next |-> 0, err |-> h.err]
      BY <1>h, <1>t, <2>3, <2>5, <2>10, ChunkBadLine
    <3>e. PICK e : e = h.err /\ e # "nil" /\ e # "ErrUnexpectedEOF" /\ e \in Errors /\ err' = e
      BY <1>1, <2>6, <2>10
    <3>3. ChunkAt(wire, pos + 1).body = <<>> /\ ChunkAt(wire, pos + 1).err = e
      BY <3>2, <3>e
    <3>4. /\ Over' /\ rpc' = "idle" /\ room' \in Nat /\ part' \in Seq(Bytes)
          /\ part' = <<>> /\ got' \in Seq(Bytes)
      BY <1>3, <1>w, <3>1, <3>3, <3>e, HeaderEnds
    <3>5. n' \in Nat /\ err' \in Errors
      BY <1>1, <2>6, <3>e
    <3>6. TypeOK'
      BY <1>0, <1>t, <2>7, <3>4, <3>5, ReaderTypes
    <3>7. Stages'
      BY <1>0, <1>2, <3>4 DEF Stages
    <3>8. Progress'
      BY <3>4, <3>e DEF Progress
    <3> QED BY <2>7, <3>6, <3>7, <3>8 DEF ReaderInv, ReaderStays
  <2> QED BY <2>9, <2>10
<1>5. CASE ~ HasLF(rbuf)
  <2>1. line = rbuf /\ Len(rbuf) >= BufSize
    BY <1>0, <1>5, <1>l DEF BufferedLine, Satisfied
  <2>2. h = [n |-> 0, err |-> "ErrLineTooLong"]
    BY <1>h, <2>1 DEF ChunkHeader
  <2>3. n' = 0 /\ err' = "ErrLineTooLong" /\ ReturnFromRead(part)
    BY <1>1, <2>2 DEF NextIteration
  <2>4. rbuf' \in Seq(Bytes) /\ Len(rbuf') <= BufSize /\ Buffered'
    <3>1. rbuf' = Drop(rbuf, Len(rbuf))
      BY <1>1, <2>1
    <3>c. PICK c \in Nat : c = Len(rbuf) /\ c <= Len(rbuf)
      BY <1>t
    <3>2. rbuf' = Drop(rbuf, c)
      BY <3>1, <3>c
    <3> QED BY <1>0, <1>2, <1>w, <3>2, <3>c, TakeBytes
  <2>5. ASSUME NEW j \in pos + 1 .. (pos + 1) + BufSize - 1 PROVE wire[j] # "LF"
    <3>1. PICK k \in 1 .. Len(rbuf) : j = pos + k
      <4>1. j - pos \in 1 .. Len(rbuf) /\ j = pos + (j - pos)
        BY <1>b, <1>t, <2>1
      <4> QED BY <4>1
    <3> QED BY <1>5, <1>b, <3>1 DEF HasLF
  <2>6. pos + 1 \in Nat /\ 1 <= pos + 1 /\ (pos + 1) + BufSize - 1 <= Len(wire)
    BY <1>b, <1>t, <2>1
  <2>7. ChunkAt(wire, pos + 1) = [body |-> <<>>, next |-> 0, err |-> "ErrLineTooLong"]
    BY <1>t, <2>5, <2>6, LongLine
  <2>8. ChunkAt(wire, pos + 1).body = <<>> /\ ChunkAt(wire, pos + 1).err = "ErrLineTooLong"
    BY <2>7
  <2>9. /\ Over' /\ rpc' = "idle" /\ room' \in Nat /\ part' \in Seq(Bytes)
        /\ part' = <<>> /\ got' \in Seq(Bytes)
    BY <1>3, <1>w, <2>3, <2>8, HeaderEnds
  <2>10. n' \in Nat /\ err' \in Errors /\ err' # "nil"
    BY <2>3 DEF Errors
  <2>11. TypeOK'
    BY <1>0, <1>t, <2>4, <2>9, <2>10, ReaderTypes
  <2>12. Stages'
    BY <1>0, <1>2, <2>9 DEF Stages
  <2>13. Progress'
    BY <2>9, <2>10 DEF Progress
  <2> QED BY <2>4, <2>11, <2>12, <2>13 DEF ReaderInv, ReaderStays
<1> QED BY <1>4, <1>5

\* The stream ends within a size line.
LEMMA HeaderEOFInv ==
  ASSUME TypeOK, ReaderInv, HeaderEOF
  PROVE  ReaderStays
<1>0. /\ rpc = "header" /\ AtEOF /\ rbuf' = <<>> /\ err' = "ErrUnexpectedEOF"
      /\ ReturnFromRead(part) /\ UNCHANGED <<writer, conn>> /\ taken' = taken /\ n' = n
      /\ checkEnd' = checkEnd
  BY DEF HeaderEOF
<1>t. /\ taken \in 0 .. Len(wire) /\ taken \in Nat /\ taken <= Len(wire) /\ Len(wire) \in Nat
      /\ rbuf \in Seq(Bytes) /\ Len(rbuf) \in Nat /\ n \in Nat /\ room \in Nat
      /\ part \in Seq(Bytes) /\ got \in Seq(Bytes) /\ wire \in Seq(Bytes)
      /\ err \in Errors /\ checkEnd \in BOOLEAN /\ BufSize \in Nat
  BY Types
<1>w. wire' = wire /\ cut' = cut
  BY <1>0 DEF conn
<1>1. cut /\ taken = Len(wire) /\ ~ HasLF(rbuf) /\ ~ (Len(rbuf) >= BufSize)
  BY <1>0 DEF AtEOF, Satisfied
<1>2. err = "nil" /\ checkEnd = FALSE /\ n = 0 /\ Buffered
  BY <1>0, <1>t DEF ReaderInv, Stages
<1>p. PICK pos : pos = taken - Len(rbuf)
  OBVIOUS
<1>3. WalkedTo(wire, got \o part, pos + 1)
  BY <1>2, <1>p DEF ReaderInv, Progress, Between
<1>b. /\ pos \in Nat /\ pos + Len(rbuf) = taken
      /\ \A k \in 1 .. Len(rbuf) : rbuf[k] = wire[pos + k]
  BY <1>2, <1>p, <1>t DEF Buffered
<1>4. NoLine(wire, pos + 1)
  <2>1. ASSUME NEW j \in pos + 1 .. Len(wire) PROVE wire[j] # "LF"
    <3>1. PICK k \in 1 .. Len(rbuf) : j = pos + k
      <4>1. j - pos \in 1 .. Len(rbuf) /\ j = pos + (j - pos)
        BY <1>1, <1>b, <1>t
      <4> QED BY <4>1
    <3> QED BY <1>1, <1>b, <3>1 DEF HasLF
  <2> QED BY <2>1 DEF NoLine
<1>5. ~ (Len(wire) - (pos + 1) + 1 >= BufSize) /\ pos + 1 \in Nat
  BY <1>1, <1>b, <1>t
<1>6. ChunkAt(wire, pos + 1) = [body |-> <<>>, next |-> 0, err |-> "ErrUnexpectedEOF"]
  BY <1>4, <1>5, <1>t, ChunkNoLine
<1>7. ChunkAt(wire, pos + 1).body = <<>> /\ ChunkAt(wire, pos + 1).err = "ErrUnexpectedEOF"
  BY <1>6
<1>8. /\ Over' /\ rpc' = "idle" /\ room' \in Nat /\ part' \in Seq(Bytes)
      /\ part' = <<>> /\ got' \in Seq(Bytes)
  BY <1>0, <1>1, <1>3, <1>7, <1>w, HeaderEnds
<1>r. PICK r \in Seq(Bytes) : r = rbuf' /\ Len(r) = 0
  <2>1. <<>> \in Seq(Bytes) /\ Len(<<>>) = 0
    OBVIOUS
  <2> QED BY <1>0, <2>1
<1>9. Len(rbuf') = 0 /\ Len(rbuf') <= BufSize /\ rbuf' \in Seq(Bytes)
  BY <1>r, <1>t
<1>10. Buffered'
  <2>1. Len(rbuf') <= taken' /\ \A k \in 1 .. Len(rbuf') : rbuf'[k] = wire'[taken' - Len(rbuf') + k]
    BY <1>0, <1>9, <1>t
  <2> QED BY <2>1 DEF Buffered
<1>11. err' \in Errors /\ err' # "nil"
  BY <1>0 DEF Errors
<1>12. TypeOK'
  BY <1>0, <1>8, <1>9, <1>11, <1>t, ReaderTypes
<1>13. Stages'
  BY <1>0, <1>2, <1>8 DEF Stages
<1>14. Progress'
  BY <1>8, <1>11 DEF Progress
<1> QED BY <1>10, <1>12, <1>13, <1>14 DEF ReaderInv, ReaderStays

\* The smallest of three numbers is one that is not greater than the others.
LEMMA CopiedIs ==
  ASSUME TypeOK
  PROVE  Copied \in Nat /\ Copied <= room /\ Copied <= n /\ Copied <= Len(rbuf)
<1>t. room \in Nat /\ n \in Nat /\ Len(rbuf) \in Nat
  BY Types
<1> DEFINE T == {room, n, Len(rbuf)}
<1>1. T \subseteq Nat /\ T # {}
  BY <1>t
<1>2. PICK x \in T : \A y \in T : x <= y
  BY <1>1, LeastNatural
<1>3. Min(T) = x
  BY <1>1, <1>2, MinIs
<1>4. Copied = x
  BY <1>3 DEF Copied
<1> QED BY <1>1, <1>2, <1>4

\* Data of the chunk is copied.
LEMMA ReadDataInv ==
  ASSUME TypeOK, ReaderInv, ReadData
  PROVE  ReaderStays
<1>c. PICK c : c = Copied
  OBVIOUS
<1>0. /\ rpc = "data" /\ rbuf' = Drop(rbuf, c) /\ n' = n - c /\ checkEnd' = (n' = 0)
      /\ NextIteration("nil", part \o SubSeq(rbuf, 1, c))
      /\ UNCHANGED <<writer, conn>> /\ taken' = taken /\ err' = err
  BY <1>c DEF ReadData
<1>t. /\ taken \in 0 .. Len(wire) /\ taken \in Nat /\ taken <= Len(wire) /\ Len(wire) \in Nat
      /\ rbuf \in Seq(Bytes) /\ Len(rbuf) \in Nat /\ n \in Nat /\ room \in Nat
      /\ part \in Seq(Bytes) /\ got \in Seq(Bytes) /\ wire \in Seq(Bytes)
      /\ err \in Errors /\ checkEnd \in BOOLEAN /\ BufSize \in Nat /\ Len(part) \in Nat
  BY Types
<1>w. wire' = wire /\ cut' = cut
  BY <1>0 DEF conn
<1>1. c \in Nat /\ c <= room /\ c <= n /\ c <= Len(rbuf)
  BY <1>c, CopiedIs
<1>2. err = "nil" /\ checkEnd = FALSE /\ n > 0 /\ Buffered
  BY <1>0, <1>t DEF ReaderInv, Stages
<1>p. PICK pos : pos = taken - Len(rbuf)
  OBVIOUS
<1>3. pos \in Nat /\ pos + c <= Len(wire)
  <2>1. 1 \in Nat /\ 1 <= 1 /\ 1 <= c + 1
    BY <1>1
  <2> QED BY <1>1, <1>2, <1>p, <2>1, BufferedPiece
<1>d. PICK d \in Seq(Bytes) : d = SubSeq(rbuf, 1, c) /\ Len(d) = c /\ d = SubSeq(wire, pos + 1, pos + c)
  <2>1. 1 \in Nat /\ 1 <= 1 /\ 1 <= c + 1 /\ c - 1 + 1 = c
    BY <1>1
  <2>2. SubSeq(rbuf, 1, c) = SubSeq(wire, pos + 1, pos + c)
    BY <1>1, <1>2, <1>p, <2>1, BufferedPiece
  <2>3. SubSeq(rbuf, 1, c) \in Seq(Bytes) /\ Len(SubSeq(rbuf, 1, c)) = c - 1 + 1
    BY <1>1, <1>t, <2>1, Piece
  <2>4. Len(SubSeq(rbuf, 1, c)) = c
    BY <2>1, <2>3
  <2> QED BY <2>2, <2>3, <2>4
<1>4. rbuf' \in Seq(Bytes) /\ Len(rbuf') = Len(rbuf) - c /\ Len(rbuf') <= BufSize /\ Buffered'
  BY <1>0, <1>1, <1>2, <1>w, TakeBytes
<1>5. taken' - Len(rbuf') = pos + c
  <2>1. taken' = taken /\ Len(rbuf') = Len(rbuf) - c
    BY <1>0, <1>4
  <2> QED BY <1>1, <1>p, <1>t, <2>1
<1>6. /\ rpc' = "loop" /\ part' = part \o d /\ got' = got
      /\ room' = room - (Len(part \o d) - Len(part))
  BY <1>0, <1>d DEF NextIteration
<1>7. part \o d \in Seq(Bytes) /\ Len(part \o d) = Len(part) + c
  <2>1. Len(d) = c
    BY <1>d
  <2> QED BY <1>t, <2>1, Joined
<1>8. room' \in Nat /\ n' \in Nat /\ checkEnd' \in BOOLEAN
  BY <1>0, <1>1, <1>6, <1>7, <1>t
<1>9. TypeOK'
  <2>1. part' \in Seq(Bytes) /\ got' \in Seq(Bytes) /\ err' \in Errors
    BY <1>0, <1>6, <1>7, <1>t
  <2>2. rpc' \in {"idle", "loop", "footer", "header", "data"}
    BY <1>6
  <2> QED BY <1>0, <1>4, <1>8, <1>t, <2>1, <2>2, ReaderTypes
<1>10. Stages'
  BY <1>0, <1>2, <1>6 DEF Stages
<1>11. PICK X, i, f, m : WithinAt(wire, cut, got \o part, pos, n, X, i, f, m)
  BY <1>2, <1>p DEF ReaderInv, Progress, Within
<1>12. /\ InChunk(wire, X, i, f, m)
       /\ n <= m /\ f + m - n <= Len(wire)
       /\ got \o part = X \o SubSeq(wire, f + 1, f + m - n)
       /\ pos = f + m - n
  BY <1>2, <1>11 DEF WithinAt
<1>13. f \in Nat /\ m \in Nat /\ X \in Seq(Bytes)
  BY <1>12, <1>t, InChunkIs
<1>14. /\ f + m - n' = pos + c /\ n' <= m /\ f + m - n' <= Len(wire)
       /\ f + 1 \in Nat /\ 1 <= f + 1 /\ f + 1 <= pos + 1 /\ pos <= pos + c /\ pos + c \in Nat
       /\ pos <= Len(wire)
  BY <1>0, <1>1, <1>3, <1>12, <1>13, <1>t
<1>15. got' \o part' = X \o SubSeq(wire, f + 1, pos + c)
  <2>e. PICK e \in Seq(Bytes) : e = SubSeq(wire, f + 1, pos)
    <3>1. SubSeq(wire, f + 1, pos) \in Seq(Bytes)
      BY <1>3, <1>14, <1>t, Piece
    <3> QED BY <3>1
  <2>1. e \o d = SubSeq(wire, f + 1, pos + c)
    <3>1. SubSeq(wire, f + 1, pos) \o SubSeq(wire, pos + 1, pos + c) = SubSeq(wire, f + 1, pos + c)
      <4>z. PICK z \in Nat : z = pos + c
        BY <1>14
      <4>a. PICK a \in Nat : a = f + 1
        BY <1>14
      <4>1. /\ wire \in Seq(Bytes) /\ pos \in Nat /\ 1 <= a /\ a <= pos + 1 /\ pos <= z
            /\ z <= Len(wire)
        BY <1>3, <1>14, <1>t, <4>a, <4>z
      <4>2. SubSeq(wire, a, pos) \o SubSeq(wire, pos + 1, z) = SubSeq(wire, a, z)
        BY <4>1, AdjacentPieces
      <4> QED BY <4>2, <4>a, <4>z
    <3>2. d = SubSeq(wire, pos + 1, pos + c)
      BY <1>d
    <3> QED BY <2>e, <3>1, <3>2
  <2>2. got \o part = X \o e
    BY <1>12, <2>e
  <2>3. (got \o part) \o d = got \o (part \o d)
    <3>j. PICK p, q, x : JoinOf(p, got, part) /\ JoinOf(q, part, d) /\ JoinOf(x, p, d)
      BY DEF JoinOf
    <3>1. JoinOf(x, got, q)
      BY <1>t, <3>j, Regrouped
    <3> QED BY <3>j, <3>1 DEF JoinOf
  <2>4. (X \o e) \o d = X \o (e \o d)
    BY <1>13
  <2>5. got' \o part' = got \o (part \o d)
    BY <1>6
  <2> QED BY <2>1, <2>2, <2>3, <2>4, <2>5
<1>16. WithinAt(wire, cut, got' \o part', pos + c, n', X, i, f, m)
  BY <1>8, <1>12, <1>14, <1>15 DEF WithinAt
<1>17. Within'
  BY <1>5, <1>16, <1>w DEF Within
<1>18. n' = 0 \/ n' > 0
  BY <1>8
<1>19. Progress'
  BY <1>0, <1>2, <1>17, <1>18 DEF Progress
<1> QED BY <1>4, <1>9, <1>10, <1>19 DEF ReaderInv, ReaderStays

\* The stream ends within the data of a chunk.
LEMMA DataEOFInv ==
  ASSUME TypeOK, ReaderInv, DataEOF
  PROVE  ReaderStays
<1>0. /\ rpc = "data" /\ AtEOF /\ err' = "ErrUnexpectedEOF" /\ ReturnFromRead(part)
      /\ UNCHANGED <<writer, conn>> /\ UNCHANGED bufio /\ n' = n /\ checkEnd' = checkEnd
  BY DEF DataEOF
<1>t. /\ taken \in 0 .. Len(wire) /\ taken \in Nat /\ taken <= Len(wire) /\ Len(wire) \in Nat
      /\ rbuf \in Seq(Bytes) /\ Len(rbuf) \in Nat /\ n \in Nat /\ room \in Nat
      /\ part \in Seq(Bytes) /\ got \in Seq(Bytes) /\ wire \in Seq(Bytes)
      /\ err \in Errors /\ checkEnd \in BOOLEAN /\ Len(rbuf) <= BufSize
  BY Types
<1>w. wire' = wire /\ cut' = cut /\ taken' = taken /\ rbuf' = rbuf
  BY <1>0 DEF conn, bufio
<1>1. cut /\ taken = Len(wire) /\ rbuf = <<>>
  BY <1>0 DEF AtEOF, Satisfied
<1>l. Len(rbuf) = 0
  BY <1>1
<1>2. err = "nil" /\ checkEnd = FALSE /\ n > 0
  BY <1>0, <1>t DEF ReaderInv, Stages
<1>3. PICK X, i, f, m : WithinAt(wire, cut, got \o part, taken - Len(rbuf), n, X, i, f, m)
  BY <1>2 DEF ReaderInv, Progress, Within
<1>4. /\ InChunk(wire, X, i, f, m)
      /\ n <= m /\ f + m - n <= Len(wire)
      /\ got \o part = X \o SubSeq(wire, f + 1, f + m - n)
      /\ taken - Len(rbuf) = f + m - n
  BY <1>2, <1>3 DEF WithinAt
<1>5. /\ ChunkAt(wire, i) = DataAt(wire, f, m) /\ WalkedTo(wire, X, i)
      /\ f \in Nat /\ m \in Nat
  BY <1>4, <1>t, InChunkIs
<1>6. /\ f + m - n = Len(wire) /\ Len(wire) < f + m + 2 /\ ~ (f + m <= Len(wire))
  <2>1. taken - 0 = f + m - n /\ taken = Len(wire)
    BY <1>1, <1>4, <1>l
  <2> QED BY <1>2, <1>5, <1>t, <2>1
<1>7. /\ ChunkAt(wire, i).err = "ErrUnexpectedEOF"
      /\ ChunkAt(wire, i).body = SubSeq(wire, f + 1, Len(wire))
  BY <1>5, <1>6 DEF DataAt
<1>8. Decode(wire).body = X \o ChunkAt(wire, i).body /\ Decode(wire).err = ChunkAt(wire, i).err
  BY <1>5, <1>7, <1>t, WalkEnds
<1>9. /\ rpc' = "idle" /\ room' \in Nat /\ part' = <<>> /\ part' \in Seq(Bytes)
      /\ got' \in Seq(Bytes) /\ got' = got \o part
  BY <1>0, <1>t, Returned
<1>10. Decode(wire).body = got' /\ Decode(wire).err = "ErrUnexpectedEOF"
  BY <1>4, <1>6, <1>7, <1>8, <1>9
<1>11. Over'
  BY <1>0, <1>1, <1>9, <1>10, <1>w DEF Over
<1>12. Buffered'
  BY <1>w DEF ReaderInv, Buffered
<1>13. Stages'
  BY <1>0, <1>2, <1>9 DEF Stages
<1>14. Progress'
  BY <1>0, <1>11 DEF Progress
<1>15. TypeOK'
  BY <1>0, <1>9, <1>t, <1>w, ReaderTypes DEF Errors
<1> QED BY <1>12, <1>13, <1>14, <1>15 DEF ReaderInv, ReaderStays

-----------------------------------------------------------------------------
(***************************************************************************)
(* The reader's invariant in every behaviour.                              *)
(***************************************************************************)
IInv == TypeOK /\ Fresh /\ ReaderInv

\* A step of the writer or the connection, or one of the reader.
Outside ==
  \/ \E p \in Payloads : Write(p)
  \/ WriteData \/ FinishWrite
  \/ Close \/ FinishBody \/ Cut
  \/ \E s \in RawStreams : RawPeer(s)

\* Next is one or the other.
LEMMA NextIs == Next <=> Outside \/ ReaderStep
BY DEF Next, Outside, ReaderStep

\* Steps of the writer and the connection.
LEMMA OutsideTypes ==
  ASSUME TypeOK, Fresh, Outside
  PROVE  TypesAdvance
<1>1. ASSUME NEW p \in Payloads, Write(p) PROVE TypesAdvance
  BY <1>1, WriteTypes
<1>2. CASE WriteData
  BY <1>2, WriteDataTypes
<1>3. CASE FinishWrite
  BY <1>3, FinishWriteTypes
<1>4. CASE Close
  BY <1>4, CloseTypes
<1>5. CASE FinishBody
  BY <1>5, FinishBodyTypes
<1>6. CASE Cut
  BY <1>6, CutTypes
<1>7. ASSUME NEW s \in RawStreams, RawPeer(s) PROVE TypesAdvance
  BY <1>7, RawPeerTypes
<1> QED BY <1>1, <1>2, <1>3, <1>4, <1>5, <1>6, <1>7 DEF Outside

\* Steps of the reader.
LEMMA ReaderStepInv ==
  ASSUME TypeOK, ReaderInv, ReaderStep
  PROVE  ReaderStays
<1>1. ASSUME NEW size \in ReadSizes, Read(size) PROVE ReaderStays
  BY <1>1, ReadInv
<1>2. CASE BreakLoop
  BY <1>2, BreakLoopInv
<1>3. CASE EnterStage
  BY <1>3, EnterStageInv
<1>4. ASSUME NEW k \in 1 .. BufSize, Fill(k) PROVE ReaderStays
  BY <1>4, FillInv
<1>5. CASE ReadFooter
  BY <1>5, ReadFooterInv
<1>6. CASE FooterEOF
  BY <1>6, FooterEOFInv
<1>7. CASE BeginChunk
  BY <1>7, BeginChunkInv
<1>8. CASE HeaderEOF
  BY <1>8, HeaderEOFInv
<1>9. CASE ReadData
  BY <1>9, ReadDataInv
<1>10. CASE DataEOF
  BY <1>10, DataEOFInv
<1> QED BY <1>1, <1>2, <1>3, <1>4, <1>5, <1>6, <1>7, <1>8, <1>9, <1>10 DEF ReaderStep

\* The reader writes nothing.
LEMMA ReaderStepKeeps ==
  ASSUME ReaderStep
  PROVE  UNCHANGED <<writer, conn>>
BY DEF ReaderStep, Read, BreakLoop, EnterStage, Fill, ReadFooter, FooterEOF, BeginChunk,
       HeaderEOF, ReadData, DataEOF

\* Before the first step.
LEMMA InitInv ==
  ASSUME Init
  PROVE  IInv
<1>0. /\ wpc = "idle" /\ data = <<>> /\ written = <<>> /\ writes = 0 /\ flushing \in BOOLEAN
      /\ wbuf = <<>> /\ wire = <<>> /\ cut = FALSE /\ taken = 0 /\ rbuf = <<>>
      /\ n = 0 /\ err = "nil" /\ checkEnd = FALSE
      /\ rpc = "idle" /\ room = 0 /\ part = <<>> /\ got = <<>>
  BY DEF Init
<1>1. <<>> \in Seq(Bytes) /\ Len(<<>>) = 0
  OBVIOUS
<1>2. Len(wire) = 0 /\ Len(rbuf) = 0
  BY <1>0, <1>1
<1>3. TypeOK
  <2>1. {data, written, wbuf, wire, rbuf, part, got} \subseteq Seq(Bytes)
    BY <1>0, <1>1
  <2>2. writes \in 0 .. MaxWrites /\ taken \in 0 .. Len(wire) /\ Len(rbuf) <= BufSize
    BY <1>0, <1>2, SizesAssumption
  <2> QED BY <1>0, <2>1, <2>2 DEF TypeOK, Errors
<1>4. Fresh
  BY <1>0 DEF Fresh
<1>5. Buffered
  <2>1. 0 <= 0 /\ 1 .. 0 = {}
    OBVIOUS
  <2> QED BY <1>0, <1>2, <2>1 DEF Buffered
<1>6. Stages
  BY <1>0 DEF Stages
<1>7. Between
  <2>1. got \o part = <<>>
    BY <1>0
  <2>2. (taken - Len(rbuf)) + 1 = 1
    BY <1>0, <1>2
  <2> QED BY <1>0, <2>1, <2>2, WalkStarts DEF Between
<1>8. Progress
  BY <1>0, <1>7 DEF Progress
<1> QED BY <1>3, <1>4, <1>5, <1>6, <1>8 DEF IInv, ReaderInv

\* Every state of every behaviour.
THEOREM Invariance == Spec => []IInv
<1>1. IInv /\ [Next]_vars => IInv'
  <2> SUFFICES ASSUME IInv, [Next]_vars PROVE IInv'
    OBVIOUS
  <2>0. TypeOK /\ Fresh /\ ReaderInv
    BY DEF IInv
  <2>1. CASE Outside
    <3>1. TypesAdvance
      BY <2>0, <2>1, OutsideTypes
    <3>2. ReaderInv'
      BY <2>0, <3>1, ReaderInvAdvances
    <3> QED BY <3>1, <3>2 DEF IInv, TypesAdvance
  <2>2. CASE ReaderStep
    <3>1. TypeOK' /\ ReaderInv'
      BY <2>0, <2>2, ReaderStepInv DEF ReaderStays
    <3>2. Fresh'
      BY <2>0, <2>2, ReaderStepKeeps DEF Fresh, writer, conn
    <3> QED BY <3>1, <3>2 DEF IInv
  <2>3. CASE UNCHANGED vars
    <3>1. /\ UNCHANGED <<writer, conn, bufio, reader>> /\ rpc' = rpc /\ room' = room
          /\ part' = part /\ got' = got
      BY <2>3 DEF vars
    <3>2. /\ flushing' = flushing /\ wpc' = wpc /\ data' = data /\ written' = written
          /\ writes' = writes /\ wbuf' = wbuf /\ wire' = wire /\ cut' = cut
          /\ checkEnd' = checkEnd /\ err' = err /\ taken' = taken /\ n' = n /\ rbuf' = rbuf
      BY <3>1 DEF writer, conn, bufio, reader
    <3>3. TypeOK' /\ Fresh'
      BY <2>0, <3>1, <3>2 DEF TypeOK, Fresh
    <3>4. Stages'
      BY <2>0, <3>1, <3>2 DEF ReaderInv, Stages
    <3>5. ReaderInv'
      BY <2>0, <3>1, <3>4, ReaderInvSame
    <3> QED BY <3>3, <3>5 DEF IInv
  <2> QED BY <2>1, <2>2, <2>3, NextIs
<1>2. Init => IInv
  BY InitInv
<1> QED BY <1>1, <1>2, PTL DEF Spec

\* The type invariant, for any payloads, streams and sizes.
THEOREM TypeCorrect == Spec => []TypeOK
<1>1. IInv => TypeOK
  BY DEF IInv
<1> QED BY Invariance, <1>1, PTL

\* What the invariant says of the bytes returned so far.
LEMMA InvDecodes ==
  ASSUME IInv
  PROVE  DecodesStream
<1>t. /\ n \in Nat /\ part \in Seq(Bytes) /\ got \in Seq(Bytes) /\ wire \in Seq(Bytes)
      /\ Len(wire) \in Nat /\ checkEnd \in BOOLEAN /\ n >= 0
  BY Types DEF IInv
<1>p. Progress
  BY DEF IInv, ReaderInv
<1>s. PICK s \in Seq(Bytes) : s = got \o part
  <2>1. got \o part \in Seq(Bytes)
    BY <1>t, Joined
  <2> QED BY <2>1
<1>w. IsPrefix(wire, wire)
  BY <1>t, PrefixElements
<1>1. CASE err = "nil" /\ n = 0 /\ ~ checkEnd
  <2>i. PICK i : i = (taken - Len(rbuf)) + 1
    OBVIOUS
  <2>1. WalkedTo(wire, s, i)
    BY <1>1, <1>p, <1>s, <2>i DEF Progress, Between
  <2>2. Decode(wire).body = s \o Bodies(wire)[i].body /\ i \in Nat /\ 1 <= i /\ i <= Len(wire) + 1
    BY <1>t, <1>w, <2>1 DEF WalkedTo
  <2>3. Bodies(wire)[i].body \in Seq(Bytes)
    <3>1. i \in 1 .. Len(wire) + 1
      BY <1>t, <2>2
    <3> QED BY <1>t, <3>1, BodyType
  <2>4. IsPrefix(s, s \o Bodies(wire)[i].body)
    BY <2>3, PrefixOfJoined
  <2> QED BY <1>1, <1>s, <2>2, <2>4 DEF DecodesStream
<1>2. CASE err = "nil" /\ (n > 0 \/ checkEnd)
  <2>1. PICK X, i, f, m : WithinAt(wire, cut, got \o part, taken - Len(rbuf), n, X, i, f, m)
    BY <1>2, <1>p DEF Progress, Within
  <2>2. /\ InChunk(wire, X, i, f, m) /\ n <= m /\ f + m - n <= Len(wire)
        /\ s = X \o SubSeq(wire, f + 1, f + m - n)
    BY <1>s, <2>1 DEF WithinAt
  <2>3. /\ ChunkAt(wire, i) = DataAt(wire, f, m) /\ WalkedTo(wire, X, i)
        /\ f \in Nat /\ f <= Len(wire) /\ m \in Nat /\ X \in Seq(Bytes)
    BY <1>t, <2>2, InChunkIs
  <2>4. /\ Decode(wire).body = X \o Bodies(wire)[i].body /\ i \in Nat /\ 1 <= i
        /\ i <= Len(wire) + 1
    BY <1>t, <1>w, <2>3 DEF WalkedTo
  <2>5. IsPrefix(SubSeq(wire, f + 1, f + m - n), Bodies(wire)[i].body)
    <3>l. /\ n \in Nat /\ f \in Nat /\ m \in Nat /\ Len(wire) \in Nat /\ f <= Len(wire)
          /\ n <= m /\ f + m - n <= Len(wire)
      BY <1>t, <2>2, <2>3
    <3>e. PICK e \in Nat : /\ e = (IF f + m <= Len(wire) THEN f + m ELSE Len(wire))
                           /\ f <= e /\ e <= Len(wire) /\ f + m - n <= e
      <4>1. CASE f + m <= Len(wire)
        BY <3>l, <4>1
      <4>2. CASE ~ (f + m <= Len(wire))
        BY <3>l, <4>2
      <4> QED BY <4>1, <4>2
    <3>g. PICK g \in Nat : g = f + m - n /\ f <= g /\ g <= e
      BY <3>l, <3>e
    <3>1. ChunkAt(wire, i).body = SubSeq(wire, f + 1, e)
      BY <2>3, <3>e DEF DataAt
    <3>a. PICK a \in Nat : a = f + 1 /\ 1 <= a /\ a <= g + 1
      BY <2>3, <3>g
    <3>r. wire \in Seq(Bytes) /\ g <= e /\ e <= Len(wire) /\ g <= Len(wire) /\ g + 1 \in Nat
          /\ 1 <= g + 1 /\ g + 1 <= e + 1 /\ a <= e + 1
      BY <1>t, <3>a, <3>e, <3>g
    <3>2. SubSeq(wire, a, g) \o SubSeq(wire, g + 1, e) = SubSeq(wire, a, e)
      <4>1. 1 <= a /\ a <= g + 1 /\ g <= e /\ e <= Len(wire) /\ wire \in Seq(Bytes)
        BY <3>a, <3>r
      <4> HIDE <3>a, <3>r
      <4> QED BY <4>1, AdjacentPieces
    <3>3. SubSeq(wire, a, g) \in Seq(Bytes) /\ SubSeq(wire, g + 1, e) \in Seq(Bytes)
      BY <3>a, <3>r, Piece
    <3>4. IsPrefix(SubSeq(wire, a, g), SubSeq(wire, a, g) \o SubSeq(wire, g + 1, e))
      BY <3>3, PrefixOfJoined
    <3>5. IsPrefix(SubSeq(wire, a, g), ChunkAt(wire, i).body)
      BY <3>1, <3>2, <3>4, <3>a
    <3>6. /\ ChunkAt(wire, i).body \in Seq(Bytes)
          /\ ChunkAt(wire, i).err = "nil" =>
               /\ ChunkAt(wire, i).next \in Nat
               /\ i < ChunkAt(wire, i).next /\ ChunkAt(wire, i).next <= Len(wire) + 1
      BY <1>t, <2>4, ChunkType
    <3>7. Bodies(wire)[i].body \in Seq(Bytes)
      <4>1. i \in 1 .. Len(wire) + 1
        BY <1>t, <2>4
      <4> QED BY <1>t, <4>1, BodyType
    <3>8. IsPrefix(ChunkAt(wire, i).body, Bodies(wire)[i].body)
      <4>1. CASE ChunkAt(wire, i).err # "nil"
        <5>1. Bodies(wire)[i].body = ChunkAt(wire, i).body
          BY <1>t, <2>4, <4>1, BodyEnds
        <5>2. IsPrefix(ChunkAt(wire, i).body, ChunkAt(wire, i).body)
          BY <3>6, PrefixElements
        <5> QED BY <5>1, <5>2
      <4>2. CASE ChunkAt(wire, i).err = "nil"
        <5>k. PICK k \in Nat : k = ChunkAt(wire, i).next /\ i < k /\ k <= Len(wire) + 1
          BY <3>6, <4>2
        <5>1. Bodies(wire)[i].body = ChunkAt(wire, i).body \o Bodies(wire)[k].body
          <6>1. wire \in Seq(Bytes) /\ i \in Nat /\ 1 <= i /\ i <= Len(wire) + 1
            BY <1>t, <2>4
          <6>2. GoesTo(wire, i, k)
            BY <4>2, <5>k DEF GoesTo
          <6>w. PICK w \in Seq(Bytes) : w = wire
            BY <1>t
          <6>3. i \in Nat /\ 1 <= i /\ i <= Len(w) + 1 /\ GoesTo(w, i, k)
            BY <6>1, <6>2, <6>w
          <6>5. Bodies(w)[i].body = ChunkAt(w, i).body \o Bodies(w)[k].body
            BY <6>3, NextBody
          <6> QED BY <6>5, <6>w
        <5>2. Bodies(wire)[k].body \in Seq(Bytes)
          <6>1. k \in 1 .. Len(wire) + 1
            BY <1>t, <2>4, <5>k
          <6> QED BY <1>t, <6>1, BodyType
        <5>3. IsPrefix(ChunkAt(wire, i).body, ChunkAt(wire, i).body \o Bodies(wire)[k].body)
          BY <3>6, <5>2, PrefixOfJoined
        <5> QED BY <5>1, <5>3
      <4> QED BY <4>1, <4>2
    <3>9. IsPrefix(SubSeq(wire, a, g), Bodies(wire)[i].body)
      BY <3>3, <3>5, <3>6, <3>7, <3>8, PrefixTransitive
    <3> QED BY <3>9, <3>a, <3>g
  <2>d. PICK d \in Seq(Bytes) : d = SubSeq(wire, f + 1, f + m - n)
    <3>1. /\ f + 1 \in Nat /\ f + m - n \in Nat /\ 1 <= f + 1 /\ f + 1 <= (f + m - n) + 1
      BY <1>t, <2>2, <2>3
    <3>2. SubSeq(wire, f + 1, f + m - n) \in Seq(Bytes)
      BY <1>t, <2>2, <3>1, Piece
    <3> QED BY <3>2
  <2>6. IsPrefix(X \o d, X \o Bodies(wire)[i].body)
    <3>1. Bodies(wire)[i].body \in Seq(Bytes)
      <4>1. i \in 1 .. Len(wire) + 1
        BY <1>t, <2>4
      <4> QED BY <1>t, <4>1, BodyType
    <3>2. IsPrefix(d, Bodies(wire)[i].body)
      BY <2>5, <2>d
    <3> QED BY <2>3, <3>1, <3>2, PrefixAfter
  <2>7. IsPrefix(s, Decode(wire).body)
    BY <2>2, <2>4, <2>6, <2>d
  <2> QED BY <1>2, <1>s, <2>7 DEF DecodesStream
<1>3. CASE err # "nil"
  <2>1. part = <<>> /\ Decode(wire).body = got /\ Decode(wire).err = err
    BY <1>3, <1>p DEF Progress, Over
  <2>2. got \o <<>> = got
    BY <1>t
  <2>3. IsPrefix(got, got)
    BY <1>t, PrefixElements
  <2> QED BY <2>1, <2>2, <2>3 DEF DecodesStream
<1>4. n = 0 \/ n > 0
  BY <1>t
<1> QED BY <1>1, <1>2, <1>3, <1>4

\* chunkedReader.Read returns the body that the stream encodes, and its
\* error, for every stream and every way it arrives.
THEOREM StreamDecoded == Spec => []DecodesStream
<1>1. IInv => DecodesStream
  BY InvDecodes
<1> QED BY Invariance, <1>1, PTL

-----------------------------------------------------------------------------
(* The writer: what the stream, with what Wire still holds, has been so far *)

\* Whole chunks only, with body X between them.
Complete(pre, X) == pre \in Seq(Bytes) /\ WalkedTo(pre, X, Len(pre) + 1)

Sentinel == <<"0">> \o CRLF

\* The stream `full' when the writer is at pc, with body X before the chunk of
\* payload p.
Framed(pc, full, X, p) ==
  \/ pc = "idle" /\ Complete(full, X)
  \/ \E pre : /\ Complete(pre, X)
              /\ \/ /\ pc \in {"data", "failed"} /\ p \in Payloads /\ p # <<>>
                    /\ full = pre \o SizeLine(p)
                 \/ /\ pc \in {"crlf", "failed"} /\ p \in Payloads /\ p # <<>>
                    /\ full = (pre \o SizeLine(p)) \o p
                 \/ pc \in {"closed", "finished"} /\ full = pre \o Sentinel

\* w is pre, of i - 1 bytes, and then a line of the digits v.
Adds(w, i, pre, v) == w = pre \o (v \o CRLF) /\ i = Len(pre) + 1

\* Hex digits, CR, LF after whole chunks are the line of the next chunk.
LEMMA SizeLineAt ==
  ASSUME NEW pre \in Seq(Bytes), NEW v \in Seq(Hex), NEW w, NEW i, Adds(w, i, pre, v)
  PROVE  /\ w \in Seq(Bytes) /\ Len(w) = Len(pre) + Len(v) + 2
         /\ LineAt(w, i, Len(w)) /\ SubSeq(w, i, Len(w)) = v \o CRLF
<1>0. w = pre \o (v \o CRLF) /\ i = Len(pre) + 1
  BY DEF Adds
<1>h. Hex \subseteq Bytes /\ CRLF \in Seq(Bytes) /\ Len(CRLF) = 2 /\ CRLF[1] = "CR"
      /\ CRLF[2] = "LF" /\ "LF" \notin Hex
  BY DigitFacts
<1>v. v \in Seq(Bytes) /\ Len(v) \in Nat /\ Len(pre) \in Nat
      /\ \A k \in 1 .. Len(v) : v[k] \in Hex
  BY <1>h
<1>s. PICK s : s = v \o CRLF
  OBVIOUS
<1>1. /\ s \in Seq(Bytes) /\ Len(s) = Len(v) + 2
      /\ \A k \in 1 .. Len(v) : s[k] = v[k]
      /\ \A k \in 1 .. 2 : s[Len(v) + k] = CRLF[k]
  <2>1. v \in Seq(Bytes) /\ CRLF \in Seq(Bytes)
    BY <1>h, <1>v
  <2>2. v \o CRLF \in Seq(Bytes)
    BY <2>1, Joined
  <2>3. Len(v \o CRLF) = Len(v) + Len(CRLF)
    BY <2>1, Joined
  <2>4. \A k \in 1 .. Len(v) : (v \o CRLF)[k] = v[k]
    BY <2>1, Joined
  <2>5. \A k \in 1 .. Len(CRLF) : (v \o CRLF)[Len(v) + k] = CRLF[k]
    BY <2>1, Joined
  <2> QED BY <1>h, <1>s, <2>2, <2>3, <2>4, <2>5
<1>2. s[Len(v) + 1] = "CR" /\ s[Len(v) + 2] = "LF"
  BY <1>1, <1>h
<1>3. \A k \in 1 .. Len(v) + 1 : s[k] # "LF"
  <2> TAKE k \in 1 .. Len(v) + 1
  <2>1. CASE k = Len(v) + 1
    BY <1>2, <2>1
  <2>2. CASE k # Len(v) + 1
    <3>1. k \in 1 .. Len(v)
      BY <1>v, <2>2
    <3> QED BY <1>1, <1>v, <1>h, <3>1
  <2> QED BY <2>1, <2>2
<1>4. /\ w \in Seq(Bytes) /\ Len(w) = Len(pre) + Len(s)
      /\ \A k \in 1 .. Len(s) : w[Len(pre) + k] = s[k]
  <2>0. s \in Seq(Bytes) /\ w = pre \o s
    BY <1>0, <1>1, <1>s
  <2>1. pre \o s \in Seq(Bytes)
    BY <2>0, Joined
  <2>2. Len(pre \o s) = Len(pre) + Len(s)
    BY <2>0, Joined
  <2>3. \A k \in 1 .. Len(s) : (pre \o s)[Len(pre) + k] = s[k]
    BY <2>0, Joined
  <2> QED BY <2>0, <2>1, <2>2, <2>3
<1>5. Len(w) = Len(pre) + Len(v) + 2
  BY <1>1, <1>4
<1>6. LineAt(w, i, Len(w))
  <2>1. i \in Nat /\ Len(w) \in Nat /\ 1 <= i /\ i <= Len(w)
    BY <1>0, <1>v, <1>5
  <2>2. w[Len(w)] = "LF"
    <3>1. Len(v) + 2 \in 1 .. Len(s) /\ Len(w) = Len(pre) + (Len(v) + 2)
      BY <1>1, <1>4, <1>v
    <3> QED BY <1>2, <1>4, <3>1
  <2>3. ASSUME NEW j \in i .. Len(w) - 1 PROVE w[j] # "LF"
    <3>1. PICK k \in 1 .. Len(v) + 1 : j = Len(pre) + k
      <4>1. j - Len(pre) \in 1 .. Len(v) + 1 /\ j = Len(pre) + (j - Len(pre))
        BY <1>0, <1>5, <1>v
      <4> QED BY <4>1
    <3>2. k \in 1 .. Len(s)
      BY <1>1, <1>v, <3>1
    <3> QED BY <1>3, <1>4, <3>1, <3>2
  <2> QED BY <2>1, <2>2, <2>3 DEF LineAt
<1>7. SubSeq(w, i, Len(w)) = s
  <2>1. i \in Nat /\ Len(w) \in Nat /\ 1 <= i /\ i <= Len(w) + 1 /\ Len(w) <= Len(w)
    BY <1>0, <1>v, <1>5
  <2>t. PICK t : t = SubSeq(w, i, Len(w))
    OBVIOUS
  <2>b. PICK b \in Nat : b = Len(w)
    BY <2>1
  <2>2. /\ t \in Seq(Bytes) /\ Len(t) = Len(w) - i + 1
        /\ \A k \in 1 .. Len(w) - i + 1 : t[k] = w[i + k - 1]
    <3>0. w \in Seq(Bytes) /\ i \in Nat /\ 1 <= i /\ i <= b + 1 /\ b <= Len(w)
      BY <1>4, <2>1, <2>b
    <3>1. SubSeq(w, i, b) \in Seq(Bytes)
      BY <3>0, Piece
    <3>2. Len(SubSeq(w, i, b)) = b - i + 1
      BY <3>0, Piece
    <3>3. \A k \in 1 .. b - i + 1 : SubSeq(w, i, b)[k] = w[i + k - 1]
      BY <3>0, Piece
    <3> QED BY <2>b, <2>t, <3>1, <3>2, <3>3
  <2>3. Len(t) = Len(s)
    BY <1>0, <1>4, <1>1, <1>v, <2>2
  <2>4. ASSUME NEW k \in 1 .. Len(t) PROVE t[k] = s[k]
    <3>1. k \in 1 .. Len(w) - i + 1 /\ k \in 1 .. Len(s) /\ i + k - 1 = Len(pre) + k
      BY <1>0, <1>v, <2>2, <2>3
    <3> QED BY <1>4, <2>2, <3>1
  <2>5. t = s
    BY <1>1, <2>2, <2>3, <2>4, SameElements
  <2> QED BY <2>5, <2>t
<1> QED BY <1>4, <1>5, <1>6, <1>7, <1>s

\* Write's size line opens a chunk of the payload's length.
LEMMA HeaderSent ==
  ASSUME NEW pre, NEW X, Complete(pre, X), NEW p \in Payloads, p # <<>>,
         NEW w, w = pre \o SizeLine(p)
  PROVE  /\ w \in Seq(Bytes) /\ p \in Seq(Bytes) /\ Len(p) \in Nat /\ Len(w) \in Nat
         /\ InChunk(w, X, Len(pre) + 1, Len(w), Len(p))
<1>0. pre \in Seq(Bytes) /\ WalkedTo(pre, X, Len(pre) + 1) /\ Len(pre) \in Nat
  BY DEF Complete
<1>p. p \in Seq(Bytes) /\ Len(p) \in Nat /\ Len(p) > 0
  <2>1. p \in Seq(Bytes)
    BY SizeLineType
  <2> QED BY <2>1
<1>v. PICK v \in Seq(Hex) : /\ SizeLine(p) = v \o CRLF /\ Len(v) \in 1 .. MaxHexDigits
                            /\ HexNumber(v) = Len(p)
  BY SizeLineIs
<1>i. PICK i : i = Len(pre) + 1
  OBVIOUS
<1>1. w = pre \o (v \o CRLF)
  BY <1>v
<1>2. w \in Seq(Bytes) /\ LineAt(w, i, Len(w)) /\ SubSeq(w, i, Len(w)) = v \o CRLF
  <2>1. Adds(w, i, pre, v)
    BY <1>1, <1>i DEF Adds
  <2> QED BY <1>0, <2>1, SizeLineAt
<1>3. ChunkHeader(v \o CRLF) = [n |-> Len(p), err |-> "nil"]
  <2>1. ChunkHeader(v \o CRLF) =
           IF HexNumber(v) = 0 THEN [n |-> 0, err |-> "EOF"]
                               ELSE [n |-> HexNumber(v), err |-> "nil"]
    BY <1>v, HeaderOfDigits
  <2> QED BY <1>p, <1>v, <2>1
<1>4. ChunkHeader(SubSeq(w, i, Len(w))).err = "nil" /\ ChunkHeader(SubSeq(w, i, Len(w))).n = Len(p)
  BY <1>2, <1>3
<1>5. IsPrefix(pre, w)
  <2>1. SizeLine(p) \in Seq(Bytes)
    BY SizeLineType
  <2> QED BY <1>0, <2>1, PrefixOfJoined
<1>6. WalkedTo(w, X, i)
  BY <1>0, <1>2, <1>5, <1>i, WalkStays
<1>7. InChunk(w, X, i, Len(w), Len(p))
  BY <1>2, <1>4, <1>6, <1>p DEF InChunk
<1> QED BY <1>2, <1>7, <1>i, <1>p

\* A chunk with its footer makes the stream whole again, its payload after the
\* body so far.
LEMMA ChunkSent ==
  ASSUME NEW pre, NEW X, Complete(pre, X), NEW p \in Payloads, p # <<>>,
         NEW z, z = ((pre \o SizeLine(p)) \o p) \o CRLF
  PROVE  Complete(z, X \o p)
<1>w. PICK w : w = pre \o SizeLine(p)
  OBVIOUS
<1>1. /\ w \in Seq(Bytes) /\ p \in Seq(Bytes) /\ Len(p) \in Nat /\ Len(w) \in Nat
      /\ InChunk(w, X, Len(pre) + 1, Len(w), Len(p))
  BY <1>w, HeaderSent
<1>c. CRLF \in Seq(Bytes) /\ Len(CRLF) = 2
  BY DigitFacts
<1>u. PICK u : u = w \o p
  OBVIOUS
<1>2. /\ u \in Seq(Bytes) /\ Len(u) = Len(w) + Len(p)
      /\ \A k \in 1 .. Len(w) : u[k] = w[k]
      /\ \A k \in 1 .. Len(p) : u[Len(w) + k] = p[k]
  BY <1>1, <1>u, Joined
<1>3. z = u \o CRLF
  BY <1>w, <1>u
<1>4. /\ z \in Seq(Bytes) /\ Len(z) = Len(u) + 2
      /\ \A k \in 1 .. Len(u) : z[k] = u[k]
      /\ \A k \in 1 .. 2 : z[Len(u) + k] = CRLF[k]
  <2>0. u \in Seq(Bytes) /\ CRLF \in Seq(Bytes)
    BY <1>2, <1>c
  <2>1. u \o CRLF \in Seq(Bytes)
    BY <2>0, Joined
  <2>2. Len(u \o CRLF) = Len(u) + Len(CRLF)
    BY <2>0, Joined
  <2>3. \A k \in 1 .. Len(u) : (u \o CRLF)[k] = u[k]
    BY <2>0, Joined
  <2>4. \A k \in 1 .. Len(CRLF) : (u \o CRLF)[Len(u) + k] = CRLF[k]
    BY <2>0, Joined
  <2> QED BY <1>3, <1>c, <2>1, <2>2, <2>3, <2>4
<1>f. PICK f \in Nat : f = Len(w)
  BY <1>1
<1>m. PICK m \in Nat : m = Len(p)
  BY <1>1
<1>i. PICK i : i = Len(pre) + 1
  OBVIOUS
<1>5. Len(z) = f + m + 2 /\ Len(u) = f + m
  BY <1>2, <1>4, <1>f, <1>m
<1>6. IsPrefix(w, z)
  <2>1. IsPrefix(w, u)
    BY <1>1, <1>u, PrefixOfJoined
  <2>2. IsPrefix(u, z)
    BY <1>2, <1>c, <1>3, PrefixOfJoined
  <2> QED BY <1>1, <1>2, <1>4, <2>1, <2>2, PrefixTransitive
<1>7. InChunk(z, X, i, f, m)
  <2>1. InChunk(w, X, i, f, m)
    BY <1>1, <1>f, <1>m, <1>i
  <2> QED BY <1>1, <1>4, <1>6, <2>1, InChunkStays
<1>8. SubSeq(z, f + m + 1, f + m + 2) = CRLF
  <2>a. PICK a \in Nat : a = f + m + 1 /\ 1 <= a
    OBVIOUS
  <2>b. PICK b \in Nat : b = f + m + 2 /\ a <= b + 1 /\ b <= Len(z) /\ b - a + 1 = 2
    BY <1>5, <2>a
  <2>t. PICK t : t = SubSeq(z, a, b)
    OBVIOUS
  <2>1. /\ t \in Seq(Bytes) /\ Len(t) = b - a + 1
        /\ \A k \in 1 .. b - a + 1 : t[k] = z[a + k - 1]
    <3>0. z \in Seq(Bytes) /\ 1 <= a /\ a <= b + 1 /\ b <= Len(z)
      BY <1>4, <2>a, <2>b
    <3>1. SubSeq(z, a, b) \in Seq(Bytes)
      BY <3>0, Piece
    <3>2. Len(SubSeq(z, a, b)) = b - a + 1
      BY <3>0, Piece
    <3>3. \A k \in 1 .. b - a + 1 : SubSeq(z, a, b)[k] = z[a + k - 1]
      BY <3>0, Piece
    <3> QED BY <2>t, <3>1, <3>2, <3>3
  <2>2. Len(t) = Len(CRLF)
    BY <2>1, <2>b, <1>c
  <2>3. ASSUME NEW k \in 1 .. Len(t) PROVE t[k] = CRLF[k]
    <3>1. k \in 1 .. 2 /\ k \in 1 .. b - a + 1 /\ a + k - 1 = Len(u) + k
      BY <1>5, <1>c, <2>a, <2>b, <2>2
    <3> QED BY <1>4, <2>1, <3>1
  <2>4. t = CRLF
    BY <1>c, <2>1, <2>2, <2>3, SameElements
  <2> QED BY <2>4, <2>t, <2>a, <2>b
<1>9. SubSeq(z, f + 1, f + m) = p
  <2>a. PICK a \in Nat : a = f + 1 /\ 1 <= a
    OBVIOUS
  <2>b. PICK b \in Nat : b = f + m /\ a <= b + 1 /\ b <= Len(z) /\ b - a + 1 = m /\ b = Len(u)
    BY <1>5, <2>a
  <2>t. PICK t : t = SubSeq(z, a, b)
    OBVIOUS
  <2>1. /\ t \in Seq(Bytes) /\ Len(t) = b - a + 1
        /\ \A k \in 1 .. b - a + 1 : t[k] = z[a + k - 1]
    <3>0. z \in Seq(Bytes) /\ 1 <= a /\ a <= b + 1 /\ b <= Len(z)
      BY <1>4, <2>a, <2>b
    <3>1. SubSeq(z, a, b) \in Seq(Bytes)
      BY <3>0, Piece
    <3>2. Len(SubSeq(z, a, b)) = b - a + 1
      BY <3>0, Piece
    <3>3. \A k \in 1 .. b - a + 1 : SubSeq(z, a, b)[k] = z[a + k - 1]
      BY <3>0, Piece
    <3> QED BY <2>t, <3>1, <3>2, <3>3
  <2>2. Len(t) = Len(p)
    BY <2>1, <2>b, <1>m
  <2>3. ASSUME NEW k \in 1 .. Len(t) PROVE t[k] = p[k]
    <3>1. k \in 1 .. Len(p) /\ k \in 1 .. b - a + 1 /\ a + k - 1 = Len(w) + k
      BY <1>f, <1>m, <2>a, <2>b, <2>2
    <3>2. Len(w) + k \in 1 .. Len(u)
      BY <1>1, <1>2, <3>1
    <3>3. t[k] = z[Len(w) + k]
      BY <2>1, <3>1
    <3>4. z[Len(w) + k] = u[Len(w) + k]
      BY <1>4, <3>2
    <3>5. u[Len(w) + k] = p[k]
      BY <1>2, <3>1
    <3> QED BY <3>3, <3>4, <3>5
  <2>4. t = p
    BY <1>1, <2>1, <2>2, <2>3, SameElements
  <2> QED BY <2>4, <2>t, <2>a, <2>b
<1>10. f + m + 2 <= Len(z)
  BY <1>5
<1>11. WalkedTo(z, X \o SubSeq(z, f + 1, f + m), f + m + 3)
  BY <1>4, <1>7, <1>8, <1>10, ChunkDone
<1>12. f + m + 3 = Len(z) + 1
  BY <1>5
<1> QED BY <1>4, <1>9, <1>11, <1>12 DEF Complete

\* Whole chunks decode to their body, and the end is unexpected.
LEMMA CompleteDecodes ==
  ASSUME NEW w, NEW X, Complete(w, X)
  PROVE  X \in Seq(Bytes) /\ Decode(w).body = X /\ Decode(w).err = "ErrUnexpectedEOF"
<1>0. w \in Seq(Bytes) /\ WalkedTo(w, X, Len(w) + 1) /\ Len(w) \in Nat
  BY DEF Complete
<1>i. PICK i \in Nat : i = Len(w) + 1
  BY <1>0
<1>1. NoLine(w, i)
  BY <1>0, <1>i DEF NoLine
<1>2. ~ (Len(w) - i + 1 >= BufSize)
  BY <1>0, <1>i, SizesAssumption
<1>3. ChunkAt(w, i) = [body |-> <<>>, next |-> 0, err |-> "ErrUnexpectedEOF"]
  BY <1>0, <1>1, <1>2, ChunkNoLine
<1>4. ChunkAt(w, i).err = "ErrUnexpectedEOF" /\ ChunkAt(w, i).body = <<>>
  BY <1>3
<1>w. WalkedTo(w, X, i)
  BY <1>0, <1>i
<1>5. Decode(w).body = X \o ChunkAt(w, i).body
  BY <1>0, <1>4, <1>w, WalkEnds
<1>6. Decode(w).err = ChunkAt(w, i).err
  BY <1>0, <1>4, <1>w, WalkEnds
<1>7. X \in Seq(Bytes)
  BY <1>w DEF WalkedTo
<1>8. X \o <<>> = X
  BY <1>7
<1> QED BY <1>4, <1>5, <1>6, <1>7, <1>8

\* A chunk of which the first d bytes of data came and no footer.
LEMMA OpenDecodes ==
  ASSUME NEW w \in Seq(Bytes), NEW X, NEW i, NEW f, NEW m, InChunk(w, X, i, f, m),
         Len(w) <= f + m
  PROVE  /\ Decode(w).body = X \o SubSeq(w, f + 1, Len(w))
         /\ Decode(w).err = "ErrUnexpectedEOF"
<1>1. /\ ChunkAt(w, i) = DataAt(w, f, m) /\ WalkedTo(w, X, i)
      /\ f \in Nat /\ f <= Len(w) /\ m \in Nat /\ Len(w) \in Nat
  BY InChunkIs
<1>2. Len(w) < f + m + 2 /\ (f + m <= Len(w) => f + m = Len(w))
  BY <1>1
<1>3. DataAt(w, f, m).err = "ErrUnexpectedEOF" /\ DataAt(w, f, m).body = SubSeq(w, f + 1, Len(w))
  <2>e. PICK e : e = SubSeq(w, f + 1, Len(w))
    OBVIOUS
  <2>k. PICK k : k = f + m + 3
    OBVIOUS
  <2>1. DataAt(w, f, m) = [body |-> e, next |-> k, err |-> "ErrUnexpectedEOF"]
    BY <1>2, <2>e, <2>k DEF DataAt
  <2>2. DataAt(w, f, m).err = "ErrUnexpectedEOF" /\ DataAt(w, f, m).body = e
    BY <2>1
  <2> QED BY <2>2, <2>e
<1>4. ChunkAt(w, i).err = "ErrUnexpectedEOF" /\ ChunkAt(w, i).body = SubSeq(w, f + 1, Len(w))
  BY <1>1, <1>3
<1>5. Decode(w).body = X \o ChunkAt(w, i).body
  BY <1>1, <1>4, WalkEnds
<1>6. Decode(w).err = ChunkAt(w, i).err
  BY <1>1, <1>4, WalkEnds
<1> QED BY <1>4, <1>5, <1>6

\* Write has sent the size line.
LEMMA HeaderDecodes ==
  ASSUME NEW pre, NEW X, Complete(pre, X), NEW p \in Payloads, p # <<>>,
         NEW w, w = pre \o SizeLine(p)
  PROVE  /\ w \in Seq(Bytes) /\ Decode(w).body \in Seq(Bytes)
         /\ IsPrefix(Decode(w).body, X \o p) /\ Decode(w).err = "ErrUnexpectedEOF"
<1>1. w \in Seq(Bytes) /\ p \in Seq(Bytes) /\ Len(p) \in Nat /\ Len(w) \in Nat
  BY HeaderSent
<1>2. InChunk(w, X, Len(pre) + 1, Len(w), Len(p))
  BY HeaderSent
<1>f. PICK f \in Nat : f = Len(w)
  BY <1>1
<1>m. PICK m \in Nat : m = Len(p)
  BY <1>1
<1>i. PICK i : i = Len(pre) + 1
  OBVIOUS
<1>3. InChunk(w, X, i, f, m) /\ Len(w) <= f + m /\ f <= Len(w)
  BY <1>2, <1>f, <1>m, <1>i
<1>4. Decode(w).body = X \o SubSeq(w, f + 1, Len(w))
  BY <1>1, <1>3, OpenDecodes
<1>5. Decode(w).err = "ErrUnexpectedEOF"
  BY <1>1, <1>3, OpenDecodes
<1>6. X \in Seq(Bytes)
  BY DEF Complete, WalkedTo
<1>7. X \o SubSeq(w, f + 1, f) = X
  BY <1>1, <1>3, <1>6, NothingAfter
<1>8. Decode(w).body = X
  BY <1>4, <1>7, <1>f
<1>9. IsPrefix(X, X \o p)
  BY <1>1, <1>6, PrefixOfJoined
<1> QED BY <1>1, <1>5, <1>6, <1>8, <1>9

\* Write has sent the data too.
LEMMA DataDecodes ==
  ASSUME NEW pre, NEW X, Complete(pre, X), NEW p \in Payloads, p # <<>>,
         NEW u, u = (pre \o SizeLine(p)) \o p
  PROVE  /\ u \in Seq(Bytes) /\ X \in Seq(Bytes) /\ Decode(u).body = X \o p
         /\ Decode(u).err = "ErrUnexpectedEOF"
<1>w. PICK w : w = pre \o SizeLine(p)
  OBVIOUS
<1>1. w \in Seq(Bytes) /\ p \in Seq(Bytes) /\ Len(p) \in Nat /\ Len(w) \in Nat
  BY <1>w, HeaderSent
<1>2. InChunk(w, X, Len(pre) + 1, Len(w), Len(p))
  BY <1>w, HeaderSent
<1>u. u = w \o p
  BY <1>w
<1>3. u \in Seq(Bytes)
  BY <1>1, <1>u, Joined
<1>4. Len(u) = Len(w) + Len(p)
  BY <1>1, <1>u, Joined
<1>5. \A k \in 1 .. Len(p) : u[Len(w) + k] = p[k]
  BY <1>1, <1>u, Joined
<1>6. IsPrefix(w, u)
  BY <1>1, <1>u, PrefixOfJoined
<1>f. PICK f \in Nat : f = Len(w)
  BY <1>1
<1>m. PICK m \in Nat : m = Len(p)
  BY <1>1
<1>i. PICK i : i = Len(pre) + 1
  OBVIOUS
<1>7. InChunk(w, X, i, f, m)
  BY <1>2, <1>f, <1>m, <1>i
<1>8. InChunk(u, X, i, f, m)
  BY <1>1, <1>3, <1>6, <1>7, InChunkStays
<1>9. Len(u) = f + m /\ Len(u) <= f + m
  BY <1>4, <1>f, <1>m
<1>10. Decode(u).body = X \o SubSeq(u, f + 1, Len(u))
  BY <1>3, <1>8, <1>9, OpenDecodes
<1>11. Decode(u).err = "ErrUnexpectedEOF"
  BY <1>3, <1>8, <1>9, OpenDecodes
<1>12. SubSeq(u, f + 1, Len(u)) = p
  <2>a. PICK a \in Nat : a = f + 1 /\ 1 <= a
    OBVIOUS
  <2>b. PICK b \in Nat : b = Len(u) /\ a <= b + 1 /\ b <= Len(u) /\ b - a + 1 = m
    BY <1>9, <2>a
  <2>t. PICK t : t = SubSeq(u, a, b)
    OBVIOUS
  <2>0. u \in Seq(Bytes) /\ 1 <= a /\ a <= b + 1 /\ b <= Len(u)
    BY <1>3, <2>a, <2>b
  <2>1. t \in Seq(Bytes)
    BY <2>0, <2>t, Piece
  <2>2. Len(t) = b - a + 1
    BY <2>0, <2>t, Piece
  <2>3. \A k \in 1 .. b - a + 1 : t[k] = u[a + k - 1]
    BY <2>0, <2>t, Piece
  <2>4. Len(t) = Len(p)
    BY <2>2, <2>b, <1>m
  <2>5. ASSUME NEW k \in 1 .. Len(t) PROVE t[k] = p[k]
    <3>1. k \in 1 .. Len(p) /\ k \in 1 .. b - a + 1 /\ a + k - 1 = Len(w) + k
      BY <1>f, <1>m, <2>a, <2>b, <2>2, <2>4
    <3> QED BY <1>5, <2>3, <3>1
  <2>6. t = p
    BY <1>1, <2>1, <2>4, <2>5, SameElements
  <2> QED BY <2>6, <2>t, <2>a, <2>b
<1>13. X \in Seq(Bytes)
  BY DEF Complete, WalkedTo
<1> QED BY <1>3, <1>10, <1>11, <1>12, <1>13

\* Close's sentinel is a size line of zero: the body ends there.
LEMMA SentinelDecodes ==
  ASSUME NEW pre, NEW X, Complete(pre, X), NEW w, w = pre \o Sentinel
  PROVE  w \in Seq(Bytes) /\ X \in Seq(Bytes) /\ Decode(w).body = X /\ Decode(w).err = "EOF"
<1>0. pre \in Seq(Bytes) /\ WalkedTo(pre, X, Len(pre) + 1) /\ X \in Seq(Bytes)
  BY DEF Complete, WalkedTo
<1>v. PICK v : v = <<"0">>
  OBVIOUS
<1>1. v \in Seq(Hex) /\ Len(v) = 1
  <2>1. "0" \in Hex
    BY DigitFacts
  <2> QED BY <1>v, <2>1
<1>2. Len(v) \in 1 .. MaxHexDigits
  BY <1>1, SizesAssumption
<1>i. PICK i : i = Len(pre) + 1
  OBVIOUS
<1>3. w = pre \o (v \o CRLF)
  BY <1>v DEF Sentinel
<1>a. Adds(w, i, pre, v)
  BY <1>3, <1>i DEF Adds
<1>4. w \in Seq(Bytes)
  BY <1>0, <1>1, <1>a, SizeLineAt
<1>5. LineAt(w, i, Len(w))
  BY <1>0, <1>1, <1>a, SizeLineAt
<1>6. SubSeq(w, i, Len(w)) = v \o CRLF
  BY <1>0, <1>1, <1>a, SizeLineAt
<1>7. ChunkHeader(v \o CRLF) = [n |-> 0, err |-> "EOF"]
  <2>1. ChunkHeader(v \o CRLF) =
           IF HexNumber(v) = 0 THEN [n |-> 0, err |-> "EOF"]
                               ELSE [n |-> HexNumber(v), err |-> "nil"]
    BY <1>1, <1>2, HeaderOfDigits
  <2>2. HexNumber(v) = 0
    BY <1>v, HexNumberOfZero
  <2> QED BY <2>1, <2>2
<1>8. ChunkHeader(SubSeq(w, i, Len(w))).err = "EOF"
  BY <1>6, <1>7
<1>9. ChunkAt(w, i) = [body |-> <<>>, next |-> 0, err |-> ChunkHeader(SubSeq(w, i, Len(w))).err]
  BY <1>4, <1>5, <1>8, ChunkBadLine
<1>10. ChunkAt(w, i).body = <<>> /\ ChunkAt(w, i).err = "EOF"
  BY <1>8, <1>9
<1>11. WalkedTo(w, X, i)
  <2>1. IsPrefix(pre, w)
    <3>1. v \o CRLF \in Seq(Bytes)
      BY <1>v, SentinelType
    <3> QED BY <1>0, <1>3, <3>1, PrefixOfJoined
  <2> QED BY <1>0, <1>4, <1>i, <2>1, WalkStays
<1>12. Decode(w).body = X \o ChunkAt(w, i).body
  BY <1>4, <1>10, <1>11, WalkEnds
<1>13. Decode(w).err = ChunkAt(w, i).err
  BY <1>4, <1>10, <1>11, WalkEnds
<1>14. X \o <<>> = X
  BY <1>0
<1> QED BY <1>0, <1>4, <1>10, <1>12, <1>13, <1>14

\* What the writer's stream decodes to is never more than the producer wrote,
\* and never an error of the encoding.
LEMMA FramedDecodes ==
  ASSUME NEW pc, NEW full, NEW X \in Seq(Bytes), NEW p \in Seq(Bytes), Framed(pc, full, X, p)
  PROVE  /\ full \in Seq(Bytes) /\ Decode(full).body \in Seq(Bytes)
         /\ IsPrefix(Decode(full).body, X \o p)
         /\ Decode(full).err \in {"EOF", "ErrUnexpectedEOF"}
         /\ Decode(full).err = "EOF" => Decode(full).body = X /\ pc \in {"closed", "finished"}
<1>1. IsPrefix(X, X \o p) /\ X \o p \in Seq(Bytes)
  BY PrefixOfJoined, Joined
<1>2. IsPrefix(X \o p, X \o p)
  <2>y. PICK y \in Seq(Bytes) : y = X \o p
    BY <1>1
  <2>1. IsPrefix(y, y)
    BY PrefixElements
  <2> QED BY <2>1, <2>y
<1>3. CASE pc = "idle" /\ Complete(full, X)
  <2>1. Decode(full).body = X /\ Decode(full).err = "ErrUnexpectedEOF"
    BY <1>3, CompleteDecodes
  <2>2. full \in Seq(Bytes)
    BY <1>3 DEF Complete
  <2> QED BY <1>1, <2>1, <2>2
<1>4. ASSUME NEW pre, Complete(pre, X), p \in Payloads, p # <<>>, full = pre \o SizeLine(p)
      PROVE  /\ full \in Seq(Bytes) /\ Decode(full).body \in Seq(Bytes)
             /\ IsPrefix(Decode(full).body, X \o p) /\ Decode(full).err = "ErrUnexpectedEOF"
  BY <1>4, HeaderDecodes
<1>5. ASSUME NEW pre, Complete(pre, X), p \in Payloads, p # <<>>,
             full = (pre \o SizeLine(p)) \o p
      PROVE  full \in Seq(Bytes) /\ Decode(full).body = X \o p
             /\ Decode(full).err = "ErrUnexpectedEOF"
  BY <1>5, DataDecodes
<1>6. ASSUME NEW pre, Complete(pre, X), full = pre \o Sentinel
      PROVE  full \in Seq(Bytes) /\ Decode(full).body = X /\ Decode(full).err = "EOF"
  BY <1>6, SentinelDecodes
<1>7. \/ pc = "idle" /\ Complete(full, X)
      \/ \E pre : /\ Complete(pre, X) /\ p \in Payloads /\ p # <<>>
                  /\ full = pre \o SizeLine(p)
      \/ \E pre : /\ Complete(pre, X) /\ p \in Payloads /\ p # <<>>
                  /\ full = (pre \o SizeLine(p)) \o p
      \/ pc \in {"closed", "finished"} /\ \E pre : Complete(pre, X) /\ full = pre \o Sentinel
  BY DEF Framed
<1>8. CASE \E pre : /\ Complete(pre, X) /\ p \in Payloads /\ p # <<>>
                    /\ full = pre \o SizeLine(p)
  <2>1. /\ full \in Seq(Bytes) /\ Decode(full).body \in Seq(Bytes)
        /\ IsPrefix(Decode(full).body, X \o p) /\ Decode(full).err = "ErrUnexpectedEOF"
    BY <1>4, <1>8
  <2> QED BY <2>1
<1>9. CASE \E pre : /\ Complete(pre, X) /\ p \in Payloads /\ p # <<>>
                    /\ full = (pre \o SizeLine(p)) \o p
  <2>1. full \in Seq(Bytes) /\ Decode(full).body = X \o p /\ Decode(full).err = "ErrUnexpectedEOF"
    BY <1>5, <1>9
  <2> QED BY <1>1, <1>2, <2>1
<1>10. CASE pc \in {"closed", "finished"} /\ \E pre : Complete(pre, X) /\ full = pre \o Sentinel
  <2>1. full \in Seq(Bytes) /\ Decode(full).body = X /\ Decode(full).err = "EOF"
    BY <1>6, <1>10
  <2> QED BY <1>1, <1>10, <2>1
<1> QED BY <1>3, <1>7, <1>8, <1>9, <1>10

\* Whatever was cut off, the stream is a prefix of one that this writer sends.
WriterInv ==
  wpc # "raw" => \E full \in Seq(Bytes) :
                   /\ IsPrefix(wire, full) /\ (~ cut => full = wire \o wbuf)
                   /\ Framed(wpc, full, written, data)

\* The stream after a call on Wire.
LEMMA WriterInvSends ==
  ASSUME NEW full \in Seq(Bytes), wire' \in Seq(Bytes), wbuf' \in Seq(Bytes),
         wire' \o wbuf' = full, Framed(wpc', full, written', data')
  PROVE  WriterInv'
<1>1. IsPrefix(wire', wire' \o wbuf')
  BY PrefixOfJoined
<1> QED BY <1>1 DEF WriterInv

\* Before it: nothing was cut off.
LEMMA WriterInvNow ==
  ASSUME TypeOK, WriterInv, ~ cut, wpc # "raw"
  PROVE  /\ wire \in Seq(Bytes) /\ wbuf \in Seq(Bytes) /\ wire \o wbuf \in Seq(Bytes)
         /\ Framed(wpc, wire \o wbuf, written, data)
<1>1. wire \in Seq(Bytes) /\ wbuf \in Seq(Bytes)
  BY Types
<1>2. wire \o wbuf \in Seq(Bytes)
  BY <1>1, Joined
<1>3. Framed(wpc, wire \o wbuf, written, data)
  BY DEF WriterInv
<1> QED BY <1>1, <1>2, <1>3

\* Between the Writes.
LEMMA FramedIdle ==
  ASSUME NEW full, NEW X, NEW p, Framed("idle", full, X, p)
  PROVE  Complete(full, X)
BY DEF Framed
\* The size line was sent.
LEMMA FramedData ==
  ASSUME NEW full, NEW X, NEW p, Framed("data", full, X, p)
  PROVE  \E pre : Complete(pre, X) /\ p \in Payloads /\ p # <<>> /\ full = pre \o SizeLine(p)
BY DEF Framed

\* Write.
LEMMA WriteFrames ==
  ASSUME TypeOK, WriterInv, NEW p \in Payloads, Write(p)
  PROVE  WriterInv'
<1>0. ~ cut /\ wpc = "idle" /\ written' = written
  BY DEF Write, WireIdle
<1>1. /\ wire \in Seq(Bytes) /\ wbuf \in Seq(Bytes) /\ wire \o wbuf \in Seq(Bytes)
      /\ Framed(wpc, wire \o wbuf, written, data)
  BY <1>0, WriterInvNow
<1>2. CASE p = <<>> /\ UNCHANGED <<wpc, data, conn>>
  <2>1. wpc' = wpc /\ data' = data /\ wire' = wire /\ wbuf' = wbuf
    BY <1>2 DEF conn
  <2>2. Framed(wpc', wire \o wbuf, written', data')
    BY <1>0, <1>1, <2>1
  <2>3. wire' \in Seq(Bytes) /\ wbuf' \in Seq(Bytes) /\ wire' \o wbuf' = wire \o wbuf
    BY <1>1, <2>1
  <2> QED BY <1>1, <2>2, <2>3, WriterInvSends
<1>3. CASE p # <<>> /\ wpc' = "data" /\ data' = p /\ WireWrite(SizeLine(p))
  <2>b. PICK b \in Seq(Bytes) : b = SizeLine(p)
    BY <1>3, SizeLineType
  <2>1. WireWrite(b)
    BY <1>3, <2>b
  <2>2. /\ wire' \in Seq(Bytes) /\ wbuf' \in Seq(Bytes)
        /\ wire' \o wbuf' = (wire \o wbuf) \o b
    BY <1>1, <2>1, WireTakes
  <2>p. PICK pre \in Seq(Bytes) : pre = wire \o wbuf
    BY <1>1
  <2>3. Complete(pre, written)
    BY <1>0, <1>1, <2>p, FramedIdle
  <2>f. PICK full : full = pre \o b
    OBVIOUS
  <2>4. full \in Seq(Bytes)
    BY <2>f, Joined
  <2>5. full = pre \o SizeLine(p)
    BY <2>f, <2>b
  <2>6. Framed(wpc', full, written', data')
    BY <1>0, <1>3, <2>3, <2>5 DEF Framed
  <2>7. wire' \o wbuf' = full
    BY <2>2, <2>p, <2>f
  <2> QED BY <2>2, <2>4, <2>6, <2>7, WriterInvSends
<1> QED BY <1>2, <1>3 DEF Write

\* WriteData.
LEMMA WriteDataFrames ==
  ASSUME TypeOK, WriterInv, WriteData
  PROVE  WriterInv'
<1>0. ~ cut /\ wpc = "data" /\ wpc' = "crlf" /\ written' = written /\ data' = data
      /\ WireWrite(data)
  BY DEF WriteData
<1>1. /\ wire \in Seq(Bytes) /\ wbuf \in Seq(Bytes) /\ wire \o wbuf \in Seq(Bytes)
      /\ Framed(wpc, wire \o wbuf, written, data)
  BY <1>0, WriterInvNow
<1>2. data \in Seq(Bytes)
  BY Types
<1>3. /\ wire' \in Seq(Bytes) /\ wbuf' \in Seq(Bytes)
      /\ wire' \o wbuf' = (wire \o wbuf) \o data
  BY <1>0, <1>1, <1>2, WireTakes
<1>w. PICK w \in Seq(Bytes) : w = wire \o wbuf
  BY <1>1
<1>4. PICK pre : Complete(pre, written) /\ data \in Payloads /\ data # <<>>
                 /\ w = pre \o SizeLine(data)
  BY <1>0, <1>1, <1>w, FramedData
<1>f. PICK full : full = w \o data
  OBVIOUS
<1>5. full \in Seq(Bytes)
  BY <1>2, <1>f, Joined
<1>6. full = (pre \o SizeLine(data)) \o data
  BY <1>4, <1>f
<1>7. Framed(wpc', full, written', data')
  BY <1>0, <1>4, <1>6 DEF Framed
<1>8. wire' \o wbuf' = full
  BY <1>3, <1>w, <1>f
<1> QED BY <1>3, <1>5, <1>7, <1>8, WriterInvSends

\* FinishWrite.
LEMMA FinishWriteFrames ==
  ASSUME TypeOK, WriterInv, FinishWrite
  PROVE  WriterInv'
<1>0. ~ cut /\ wpc = "crlf" /\ wpc' = "idle" /\ written' = written \o data /\ WriteFooter
  BY DEF FinishWrite
<1>1. /\ wire \in Seq(Bytes) /\ wbuf \in Seq(Bytes) /\ wire \o wbuf \in Seq(Bytes)
      /\ Framed(wpc, wire \o wbuf, written, data)
  BY <1>0, WriterInvNow
<1>3. /\ wire' \in Seq(Bytes) /\ wbuf' \in Seq(Bytes)
      /\ wire' \o wbuf' = (wire \o wbuf) \o CRLF
  BY <1>0, <1>1, FooterTakes
<1>w. PICK w \in Seq(Bytes) : w = wire \o wbuf
  BY <1>1
<1>4. PICK pre : Complete(pre, written) /\ data \in Payloads /\ data # <<>>
                 /\ w = (pre \o SizeLine(data)) \o data
  <2>1. Framed("crlf", w, written, data)
    BY <1>0, <1>1, <1>w
  <2>x. PICK X, p : X = written /\ p = data
    OBVIOUS
  <2>2. Framed("crlf", w, X, p)
    BY <2>1, <2>x
  <2>3. PICK pre : /\ Complete(pre, X) /\ p \in Payloads /\ p # <<>>
                   /\ w = (pre \o SizeLine(p)) \o p
    BY <2>2 DEF Framed
  <2> QED BY <2>3, <2>x
<1>f. PICK full : full = w \o CRLF
  OBVIOUS
<1>5. full = ((pre \o SizeLine(data)) \o data) \o CRLF
  BY <1>4, <1>f
<1>x. PICK X : X = written
  OBVIOUS
<1>p. PICK p \in Payloads : p = data
  BY <1>4
<1>6. Complete(full, X \o p)
  <2>1. Complete(pre, X) /\ p # <<>> /\ full = ((pre \o SizeLine(p)) \o p) \o CRLF
    BY <1>4, <1>5, <1>x, <1>p
  <2> QED BY <2>1, ChunkSent
<1>7. full \in Seq(Bytes)
  BY <1>6 DEF Complete
<1>8. Framed(wpc', full, written', data')
  BY <1>0, <1>6, <1>x, <1>p DEF Framed
<1>9. wire' \o wbuf' = full
  BY <1>3, <1>w, <1>f
<1> QED BY <1>3, <1>7, <1>8, <1>9, WriterInvSends

\* Close.
LEMMA CloseFrames ==
  ASSUME TypeOK, WriterInv, Close
  PROVE  WriterInv'
<1>0. ~ cut /\ wpc = "idle" /\ wpc' = "closed" /\ written' = written /\ WireWrite(Sentinel)
  BY DEF Close, WireIdle, Sentinel
<1>1. /\ wire \in Seq(Bytes) /\ wbuf \in Seq(Bytes) /\ wire \o wbuf \in Seq(Bytes)
      /\ Framed(wpc, wire \o wbuf, written, data)
  BY <1>0, WriterInvNow
<1>b. PICK b \in Seq(Bytes) : b = Sentinel
  BY SentinelType DEF Sentinel
<1>2. WireWrite(b)
  BY <1>0, <1>b
<1>3. /\ wire' \in Seq(Bytes) /\ wbuf' \in Seq(Bytes)
      /\ wire' \o wbuf' = (wire \o wbuf) \o b
  BY <1>1, <1>2, WireTakes
<1>p. PICK pre \in Seq(Bytes) : pre = wire \o wbuf
  BY <1>1
<1>4. Complete(pre, written)
  BY <1>0, <1>1, <1>p, FramedIdle
<1>f. PICK full : full = pre \o b
  OBVIOUS
<1>5. full \in Seq(Bytes)
  BY <1>f, Joined
<1>6. full = pre \o Sentinel
  BY <1>f, <1>b
<1>7. Framed(wpc', full, written', data')
  BY <1>0, <1>4, <1>6 DEF Framed
<1>8. wire' \o wbuf' = full
  BY <1>3, <1>p, <1>f
<1> QED BY <1>3, <1>5, <1>7, <1>8, WriterInvSends

\* FinishBody.
LEMMA FinishBodyFrames ==
  ASSUME TypeOK, WriterInv, FinishBody
  PROVE  WriterInv'
<1>0. /\ ~ cut /\ wpc = "closed" /\ wpc' = "finished" /\ written' = written /\ data' = data
      /\ wire' = wire \o wbuf /\ cut'
  BY DEF FinishBody
<1>1. /\ wire \in Seq(Bytes) /\ wbuf \in Seq(Bytes) /\ wire \o wbuf \in Seq(Bytes)
      /\ Framed(wpc, wire \o wbuf, written, data)
  BY <1>0, WriterInvNow
<1>f. PICK full \in Seq(Bytes) : full = wire \o wbuf
  BY <1>1
<1>2. Framed(wpc', full, written', data')
  BY <1>0, <1>1, <1>f DEF Framed
<1>3. IsPrefix(full, full)
  BY PrefixElements
<1> QED BY <1>0, <1>2, <1>3, <1>f DEF WriterInv

\* Cut.
LEMMA CutFrames ==
  ASSUME TypeOK, WriterInv, Cut
  PROVE  WriterInv'
<1>0. /\ cut' /\ written' = written /\ data' = data /\ wire' = wire
      /\ wpc' = IF wpc \in {"data", "crlf"} THEN "failed" ELSE wpc
  BY DEF Cut
<1>1. CASE wpc = "raw"
  BY <1>0, <1>1 DEF WriterInv
<1>2. CASE wpc # "raw"
  <2>1. PICK full \in Seq(Bytes) : IsPrefix(wire, full) /\ Framed(wpc, full, written, data)
    BY <1>2 DEF WriterInv
  <2>2. Framed(wpc', full, written, data)
    BY <1>0, <2>1 DEF Framed
  <2> QED BY <1>0, <2>1, <2>2 DEF WriterInv
<1> QED BY <1>1, <1>2

\* Every step of the writer and the connection.
LEMMA OutsideFrames ==
  ASSUME TypeOK, WriterInv, Outside
  PROVE  WriterInv'
<1>1. ASSUME NEW s \in RawStreams, RawPeer(s) PROVE WriterInv'
  BY <1>1 DEF RawPeer, WriterInv
<1>2. ASSUME NEW p \in Payloads, Write(p) PROVE WriterInv'
  BY <1>2, WriteFrames
<1> QED
  BY <1>1, <1>2, WriteDataFrames, FinishWriteFrames, CloseFrames, FinishBodyFrames, CutFrames
     DEF Outside

\* WriterInv reads the writer's and the connection's variables only.
LEMMA WriterInvSame ==
  ASSUME WriterInv, UNCHANGED <<writer, conn>>
  PROVE  WriterInv'
<1>1. wpc' = wpc /\ written' = written /\ data' = data /\ wire' = wire /\ wbuf' = wbuf
      /\ cut' = cut
  BY DEF writer, conn
<1>2. CASE wpc = "raw"
  BY <1>1, <1>2 DEF WriterInv
<1>3. CASE wpc # "raw"
  <2>1. PICK full \in Seq(Bytes) : /\ IsPrefix(wire, full) /\ (~ cut => full = wire \o wbuf)
                                   /\ Framed(wpc, full, written, data)
    BY <1>3 DEF WriterInv
  <2>2. /\ IsPrefix(wire', full) /\ (~ cut' => full = wire' \o wbuf')
        /\ Framed(wpc', full, written', data')
    BY <1>1, <2>1
  <2> QED BY <2>2 DEF WriterInv
<1> QED BY <1>2, <1>3

\* The stream this writer sends, in every state of every behaviour: whole
\* chunks and what a Write in progress or Close added to them.
THEOREM WriterInvariance == Spec => []WriterInv
<1>1. Init => WriterInv
  <2> SUFFICES ASSUME Init PROVE WriterInv
    OBVIOUS
  <2>1. wpc = "idle" /\ written = <<>> /\ wbuf = <<>> /\ wire = <<>>
    BY DEF Init
  <2>0. <<>> \in Seq(Bytes)
    OBVIOUS
  <2>e. PICK e \in Seq(Bytes) : e = <<>>
    BY <2>0
  <2>2. Len(e) + 1 = 1
    BY <2>e
  <2>3. WalkedTo(e, e, Len(e) + 1)
    BY <2>2, <2>e, WalkStarts
  <2>4. Complete(e, e)
    BY <2>3 DEF Complete
  <2>5. Framed(wpc, e, written, data)
    BY <2>1, <2>4, <2>e DEF Framed
  <2>6. IsPrefix(e, e)
    BY PrefixElements
  <2>7. e = e \o e
    BY <2>e
  <2>8. IsPrefix(wire, e) /\ e = wire \o wbuf
    BY <2>1, <2>6, <2>7, <2>e
  <2> QED BY <2>5, <2>8 DEF WriterInv
<1>2. TypeOK /\ WriterInv /\ [Next]_vars => WriterInv'
  <2> SUFFICES ASSUME TypeOK, WriterInv, [Next]_vars PROVE WriterInv'
    OBVIOUS
  <2>1. CASE Outside
    BY <2>1, OutsideFrames
  <2>2. CASE ReaderStep
    BY <2>2, ReaderStepKeeps, WriterInvSame
  <2>3. CASE UNCHANGED vars
    <3>1. UNCHANGED <<writer, conn>>
      BY <2>3 DEF vars
    <3> QED BY <3>1, WriterInvSame
  <2> QED BY <2>1, <2>2, <2>3, NextIs
<1> QED BY <1>1, <1>2, TypeCorrect, PTL DEF Spec

\* What the reader returned and what the writer sent, together.
LEMMA InvIntact ==
  ASSUME TypeOK, DecodesStream, WriterInv
  PROVE  BodyIntact
<1> SUFFICES ASSUME wpc # "raw"
             PROVE  /\ IsPrefix(got, written \o data)
                    /\ err = "EOF" => got = written /\ wpc \in {"closed", "finished"}
                    /\ err \in {"nil", "EOF", "ErrUnexpectedEOF"}
  BY DEF BodyIntact
<1>t. /\ got \in Seq(Bytes) /\ part \in Seq(Bytes) /\ wire \in Seq(Bytes)
      /\ written \in Seq(Bytes) /\ data \in Seq(Bytes) /\ Len(wire) \in Nat
  BY Types
<1>1. PICK full \in Seq(Bytes) : IsPrefix(wire, full) /\ Framed(wpc, full, written, data)
  BY DEF WriterInv
<1>2. /\ Decode(full).body \in Seq(Bytes)
      /\ IsPrefix(Decode(full).body, written \o data)
      /\ Decode(full).err \in {"EOF", "ErrUnexpectedEOF"}
      /\ Decode(full).err = "EOF" => Decode(full).body = written /\ wpc \in {"closed", "finished"}
  BY <1>t, <1>1, FramedDecodes
<1>3. Grows(wire, full, 1)
  <2>1. 1 \in 1 .. Len(wire) + 1
    BY <1>t
  <2> QED BY <1>t, <1>1, <2>1, BodyGrows
<1>4. /\ IsPrefix(Decode(wire).body, Decode(full).body)
      /\ Decode(wire).err # "ErrUnexpectedEOF" =>
           Decode(full).body = Decode(wire).body /\ Decode(full).err = Decode(wire).err
  BY <1>3 DEF Grows, Decode
<1>5. Decode(wire).body \in Seq(Bytes)
  <2>1. 1 \in 1 .. Len(wire) + 1
    BY <1>t
  <2> QED BY <1>t, <2>1, BodyType DEF Decode
<1>6. /\ IsPrefix(got \o part, Decode(wire).body)
      /\ err # "nil" => got = Decode(wire).body /\ err = Decode(wire).err
  BY DEF DecodesStream
<1>7. IsPrefix(got, written \o data)
  <2>1. IsPrefix(got, got \o part) /\ got \o part \in Seq(Bytes) /\ written \o data \in Seq(Bytes)
    BY <1>t, PrefixOfJoined, Joined
  <2>s. PICK s \in Seq(Bytes) : s = got \o part
    BY <2>1
  <2>b. PICK b \in Seq(Bytes) : b = Decode(wire).body
    BY <1>5
  <2>c. PICK c \in Seq(Bytes) : c = Decode(full).body
    BY <1>2
  <2>d. PICK d \in Seq(Bytes) : d = written \o data
    BY <2>1
  <2>2. IsPrefix(got, s) /\ IsPrefix(s, b) /\ IsPrefix(b, c) /\ IsPrefix(c, d)
    BY <1>2, <1>4, <1>6, <2>1, <2>s, <2>b, <2>c, <2>d
  <2>3. IsPrefix(s, c)
    BY <2>2, PrefixTransitive
  <2>4. IsPrefix(s, d)
    BY <2>2, <2>3, PrefixTransitive
  <2>5. IsPrefix(got, d)
    BY <1>t, <2>2, <2>4, PrefixTransitive
  <2> QED BY <2>5, <2>d
<1>8. err = "EOF" => got = written /\ wpc \in {"closed", "finished"}
  BY <1>2, <1>4, <1>6
<1>9. err \in {"nil", "EOF", "ErrUnexpectedEOF"}
  BY <1>2, <1>4, <1>6
<1> QED BY <1>7, <1>8, <1>9

\* chunkedWriter to chunkedReader over a connection that may be cut anywhere:
\* the consumer gets what the producer wrote and nothing else, io.EOF only
\* after all of it, and no error that blames the encoding.
THEOREM BodyArrives == Spec => []BodyIntact
<1>1. TypeOK /\ DecodesStream /\ WriterInv => BodyIntact
  BY InvIntact
<1> QED BY <1>1, TypeCorrect, StreamDecoded, WriterInvariance, PTL
=============================================================================
