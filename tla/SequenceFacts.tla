--------------------------- MODULE SequenceFacts ---------------------------
(***************************************************************************)
(* Facts on numbers, and what the operators on sequences that the models   *)
(* use return.                                                             *)
(***************************************************************************)
EXTENDS Integers, Sequences, SequencesExt, SequenceTheorems, WellFoundedInduction, TLAPS

\* A set of natural numbers has a least one.
LEMMA LeastOf ==
  ASSUME NEW S, S \subseteq Nat, S # {}
  PROVE  \E k \in S : \A j \in S : k <= j
<1>1. PICK k \in S : \A j \in S : ~(<<j, k>> \in OpToRel(<, Nat))
  BY NatLessThanWellFounded, WFMin
<1>2. ASSUME NEW j \in S PROVE k <= j
  <2>1. j \in Nat /\ k \in Nat
    OBVIOUS
  <2>2. ~(j < k)
    BY <1>1, <2>1 DEF OpToRel
  <2> QED BY <2>1, <2>2
<1> QED BY <1>2

\* Division leaves one remainder.
LEMMA Division ==
  ASSUME NEW s \in Nat \ {0}, NEW a \in Nat
  PROVE  \E k \in Nat : a = s * k + (a % s)
<1> DEFINE R == {r \in Nat : \E k \in Nat : a = s * k + r}
<1>1. R \subseteq Nat /\ R # {}
  <2>1. a = s * 0 + a
    OBVIOUS
  <2> QED BY <2>1
<1> HIDE DEF R
<1>2. PICK r \in R : \A j \in R : r <= j
  BY <1>1, LeastOf
<1>3. PICK k \in Nat : r \in Nat /\ a = s * k + r
  BY <1>2 DEF R
<1>4. r < s
  <2> SUFFICES ASSUME ~(r < s) PROVE FALSE
    OBVIOUS
  <2>1. r - s \in Nat /\ ~(r <= r - s)
    BY <1>3
  <2>2. s * (k + 1) = s * k + s /\ s * k \in Nat
    BY <1>3
  <2>3. a = s * (k + 1) + (r - s)
    BY <1>3, <2>2
  <2>4. r - s \in R
    BY <2>1, <2>3 DEF R
  <2> QED BY <1>2, <2>1, <2>4
<1>5. (s * k + r) % s = r
  BY <1>3, <1>4
<1> QED BY <1>3, <1>5

\* Counting on from a multiple.
LEMMA FromMultiple ==
  ASSUME NEW s \in Nat \ {0}, NEW a \in Nat, a % s = 0
  PROVE  (a + s) % s = 0 /\ \A r \in 0 .. s - 1 : (a + r) % s = r
<1>1. PICK k \in Nat : a = s * k + (a % s)
  BY Division
<1>2. \A r \in 0 .. s - 1 : (s * k + r) % s = r
  OBVIOUS
<1>3. a + s = s * (k + 1) + 0
  <2>1. s * (k + 1) = s * k + s /\ s * k \in Nat
    BY Z3
  <2> QED BY <1>1, <2>1
<1>4. (s * (k + 1) + 0) % s = 0
  <2>1. \A j \in Nat : (s * j + 0) % s = 0
    OBVIOUS
  <2>2. k + 1 \in Nat
    OBVIOUS
  <2> QED BY <2>1, <2>2
<1>5. \A r \in 0 .. s - 1 : a + r = s * k + r
  BY <1>1
<1> QED BY <1>2, <1>3, <1>4, <1>5

\* The first element and the others.
LEMMA HeadTail ==
  ASSUME NEW S, NEW q \in Seq(S), q # <<>>
  PROVE  /\ Head(q) \in S /\ Head(q) = q[1] /\ 1 \in DOMAIN q
         /\ Tail(q) \in Seq(S)
         /\ \A j \in DOMAIN Tail(q) : j + 1 \in DOMAIN q /\ Tail(q)[j] = q[j + 1] /\ j \in Nat
OBVIOUS

LEMMA Appended ==
  ASSUME NEW S, NEW q \in Seq(S), NEW e \in S
  PROVE  Append(q, e) \in Seq(S)
OBVIOUS

\* Taking an element out of a sequence leaves a sequence without it.
LEMMA Removal ==
  ASSUME NEW S, NEW q \in Seq(S), NEW k \in 1 .. Len(q)
  PROVE  LET r == RemoveAt(q, k)
         IN  /\ r \in Seq(S)
             /\ Len(r) = Len(q) - 1
             /\ \A j \in 1 .. Len(r) : r[j] = q[IF j < k THEN j ELSE j + 1]
<1> DEFINE a == SubSeq(q, 1, k - 1)
           b == SubSeq(q, k + 1, Len(q))
<1>1. /\ a \in Seq(S) /\ Len(a) = k - 1
      /\ \A j \in 1 .. k - 1 : a[j] = q[j]
  OBVIOUS
<1>2. /\ b \in Seq(S) /\ Len(b) = Len(q) - k
      /\ \A j \in 1 .. Len(q) - k : b[j] = q[k + j]
  OBVIOUS
<1> HIDE DEF a, b
<1> DEFINE r == a \o b
<1>3. RemoveAt(q, k) = r
  BY DEF RemoveAt, a, b
<1>4. r \in Seq(S) /\ Len(r) = Len(q) - 1
  <2>1. a \in Seq(S) /\ b \in Seq(S)
    BY <1>1, <1>2
  <2>2. r \in Seq(S) /\ Len(r) = Len(a) + Len(b)
    BY <2>1, ConcatProperties
  <2>3. Len(q) \in Nat /\ k \in Nat
    OBVIOUS
  <2> QED BY <1>1, <1>2, <2>2, <2>3
<1>5. ASSUME NEW j \in 1 .. Len(r)
      PROVE  r[j] = q[IF j < k THEN j ELSE j + 1]
  <2>1. CASE j < k
    BY <1>1, <1>2, <2>1
  <2>2. CASE ~(j < k)
    <3>1. r[j] = b[j - (k - 1)]
      BY <1>1, <1>2, <1>4, <2>2
    <3>2. j - (k - 1) \in 1 .. Len(q) - k
      BY <1>4, <2>2
    <3> QED BY <1>2, <3>1, <3>2, <2>2
  <2> QED BY <2>1, <2>2
<1> HIDE DEF r
<1> QED BY <1>3, <1>4, <1>5

\* A piece of a sequence is a sequence of the same elements.
LEMMA Piece ==
  ASSUME NEW S, NEW q \in Seq(S), NEW a \in Nat \ {0}, NEW b \in 0 .. Len(q)
  PROVE  /\ SubSeq(q, a, b) \in Seq(S)
         /\ Len(SubSeq(q, a, b)) = IF a <= b THEN b - a + 1 ELSE 0
         /\ \A k \in 1 .. Len(SubSeq(q, a, b)) : SubSeq(q, a, b)[k] = q[a + k - 1]
<1>1. \A k \in a .. b : q[k] \in S
  OBVIOUS
<1> QED BY <1>1

\* A piece is a sequence of whatever its own elements are.
LEMMA PieceOf ==
  ASSUME NEW S, NEW T, NEW q \in Seq(T), NEW a \in Nat \ {0}, NEW b \in 0 .. Len(q),
         \A k \in a .. b : q[k] \in S
  PROVE  SubSeq(q, a, b) \in Seq(S)
OBVIOUS

\* All of a sequence is a piece of it.
LEMMA AllOfIt ==
  ASSUME NEW S, NEW q \in Seq(S)
  PROVE  SubSeq(q, 1, Len(q)) = q
<1>1. Len(q) \in Nat
  OBVIOUS
<1>2. /\ SubSeq(q, 1, Len(q)) \in Seq(S) /\ Len(SubSeq(q, 1, Len(q))) = Len(q)
      /\ \A k \in 1 .. Len(q) : SubSeq(q, 1, Len(q))[k] = q[k]
  BY <1>1, Piece
<1> QED BY <1>2, SeqEqual

\* Two adjacent pieces are one piece.
LEMMA Adjacent ==
  ASSUME NEW S, NEW q \in Seq(S), NEW a \in Nat \ {0}, NEW b \in Nat, NEW c \in 0 .. Len(q),
         a <= b + 1, b <= c
  PROVE  SubSeq(q, a, b) \o SubSeq(q, b + 1, c) = SubSeq(q, a, c)
<1> DEFINE x == SubSeq(q, a, b)
           y == SubSeq(q, b + 1, c)
           z == SubSeq(q, a, c)
<1>1. /\ x \in Seq(S) /\ Len(x) = b - a + 1
      /\ \A k \in 1 .. Len(x) : x[k] = q[a + k - 1]
  BY Piece
<1>2. /\ y \in Seq(S) /\ Len(y) = c - b
      /\ \A k \in 1 .. Len(y) : y[k] = q[b + k]
  BY Piece
<1>3. /\ z \in Seq(S) /\ Len(z) = c - a + 1
      /\ \A k \in 1 .. Len(z) : z[k] = q[a + k - 1]
  BY Piece
<1> HIDE DEF x, y, z
<1>4. /\ x \o y \in Seq(S) /\ Len(x \o y) = Len(x) + Len(y)
      /\ \A k \in 1 .. Len(x) + Len(y) :
           (x \o y)[k] = IF k <= Len(x) THEN x[k] ELSE y[k - Len(x)]
  BY <1>1, <1>2, ConcatProperties
<1>5. ASSUME NEW k \in 1 .. Len(z) PROVE (x \o y)[k] = z[k]
  <2>1. k \in 1 .. Len(x) + Len(y) /\ k \in Int /\ Len(x) \in Int
    BY <1>1, <1>2, <1>3
  <2>2. CASE k <= Len(x)
    BY <1>1, <1>3, <1>4, <2>1, <2>2
  <2>3. CASE ~(k <= Len(x))
    <3>1. (x \o y)[k] = y[k - Len(x)] /\ k - Len(x) \in 1 .. Len(y)
      BY <1>4, <2>1, <2>3
    <3>2. y[k - Len(x)] = q[b + (k - Len(x))]
      BY <1>2, <3>1
    <3>3. b + (k - Len(x)) = a + k - 1
      BY <1>1, <2>1
    <3> QED BY <1>3, <3>1, <3>2, <3>3
  <2> QED BY <2>2, <2>3
<1>6. x \o y = z
  <2>1. Len(x \o y) = Len(z)
    BY <1>1, <1>2, <1>3, <1>4
  <2> QED BY <1>3, <1>4, <1>5, <2>1, SeqEqual
<1> QED BY <1>6 DEF x, y, z

\* The elements of a concatenation, those of the second part by their place in it.
LEMMA Joined ==
  ASSUME NEW S, NEW p \in Seq(S), NEW q \in Seq(S)
  PROVE  /\ p \o q \in Seq(S) /\ Len(p) \in Nat /\ Len(q) \in Nat
         /\ Len(p \o q) = Len(p) + Len(q)
         /\ \A k \in 1 .. Len(p) : (p \o q)[k] = p[k]
         /\ \A k \in 1 .. Len(q) : (p \o q)[Len(p) + k] = q[k]
<1>1. Len(p) \in Nat /\ Len(q) \in Nat
  OBVIOUS
<1>2. /\ p \o q \in Seq(S) /\ Len(p \o q) = Len(p) + Len(q)
      /\ \A k \in 1 .. Len(p) + Len(q) :
           (p \o q)[k] = IF k <= Len(p) THEN p[k] ELSE q[k - Len(p)]
  BY ConcatProperties
<1>3. ASSUME NEW k \in 1 .. Len(p) PROVE (p \o q)[k] = p[k]
  BY <1>1, <1>2
<1>4. ASSUME NEW k \in 1 .. Len(q) PROVE (p \o q)[Len(p) + k] = q[k]
  <2>1. /\ Len(p) + k \in 1 .. Len(p) + Len(q) /\ ~(Len(p) + k <= Len(p))
        /\ (Len(p) + k) - Len(p) = k
    BY <1>1
  <2>2. (p \o q)[Len(p) + k] = q[(Len(p) + k) - Len(p)]
    BY <1>2, <2>1
  <2> QED BY <2>1, <2>2
<1> QED BY <1>1, <1>2, <1>3, <1>4

\* Three sequences in a row.
LEMMA Together ==
  ASSUME NEW S, NEW p \in Seq(S), NEW q \in Seq(S), NEW r \in Seq(S)
  PROVE  (p \o q) \o r = p \o (q \o r)
<1> DEFINE x == (p \o q) \o r
           y == p \o (q \o r)
<1>1. /\ p \o q \in Seq(S) /\ Len(p) \in Nat /\ Len(q) \in Nat /\ Len(r) \in Nat
      /\ Len(p \o q) = Len(p) + Len(q)
      /\ \A k \in 1 .. Len(p) : (p \o q)[k] = p[k]
      /\ \A k \in 1 .. Len(q) : (p \o q)[Len(p) + k] = q[k]
  BY Joined
<1>2. /\ q \o r \in Seq(S) /\ Len(q \o r) = Len(q) + Len(r)
      /\ \A k \in 1 .. Len(q) : (q \o r)[k] = q[k]
      /\ \A k \in 1 .. Len(r) : (q \o r)[Len(q) + k] = r[k]
  BY Joined
<1>3. /\ x \in Seq(S) /\ Len(x) = Len(p) + Len(q) + Len(r)
      /\ \A k \in 1 .. Len(p) + Len(q) : x[k] = (p \o q)[k]
      /\ \A k \in 1 .. Len(r) : x[Len(p) + Len(q) + k] = r[k]
  BY <1>1, Joined
<1>4. /\ y \in Seq(S) /\ Len(y) = Len(p) + (Len(q) + Len(r))
      /\ \A k \in 1 .. Len(p) : y[k] = p[k]
      /\ \A k \in 1 .. Len(q) + Len(r) : y[Len(p) + k] = (q \o r)[k]
  BY <1>1, <1>2, Joined
<1> HIDE DEF x, y
<1>5. ASSUME NEW k \in 1 .. Len(x) PROVE x[k] = y[k]
  <2>1. CASE k <= Len(p)
    <3>1. k \in 1 .. Len(p) /\ k \in 1 .. Len(p) + Len(q)
      BY <1>1, <1>3, <2>1
    <3>2. x[k] = p[k] /\ y[k] = p[k]
      BY <1>1, <1>3, <1>4, <3>1
    <3> QED BY <3>2
  <2>2. CASE Len(p) < k /\ k <= Len(p) + Len(q)
    <3>1. k - Len(p) \in 1 .. Len(q) /\ Len(p) + (k - Len(p)) = k
          /\ k - Len(p) \in 1 .. Len(q) + Len(r) /\ k \in 1 .. Len(p) + Len(q)
      BY <1>1, <2>2
    <3>2. x[k] = q[k - Len(p)]
      BY <1>1, <1>3, <3>1
    <3>3. y[k] = q[k - Len(p)]
      BY <1>2, <1>4, <3>1
    <3> QED BY <3>2, <3>3
  <2>3. CASE Len(p) + Len(q) < k
    <3> DEFINE i == k - (Len(p) + Len(q))
    <3>1. i \in 1 .. Len(r) /\ Len(p) + Len(q) + i = k /\ Len(p) + (Len(q) + i) = k
          /\ Len(q) + i \in 1 .. Len(q) + Len(r)
      BY <1>1, <1>3, <2>3
    <3> HIDE DEF i
    <3>2. x[k] = r[i]
      BY <1>3, <3>1
    <3>3. y[k] = r[i]
      BY <1>2, <1>4, <3>1
    <3> QED BY <3>2, <3>3
  <2> QED BY <1>1, <1>3, <2>1, <2>2, <2>3
<1>6. Len(x) = Len(y)
  BY <1>1, <1>3, <1>4
<1>7. x = y
  BY <1>3, <1>4, <1>5, <1>6, SeqEqual
<1> QED BY <1>7 DEF x, y
=============================================================================
