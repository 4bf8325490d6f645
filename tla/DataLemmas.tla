----------------------------- MODULE DataLemmas -----------------------------
(***************************************************************************)
(* Facts about the data of the model that the proofs share: induction over *)
(* the naturals, remainders by a divisor that is not a numeral, and the    *)
(* byte strings of ByteStreams.                                            *)
(***************************************************************************)
EXTENDS ByteStreams, SequenceTheorems, WellFoundedInduction, TLAPS

-----------------------------------------------------------------------------
\* A set of naturals that is not empty has a least element (the first segment that
\* is not acknowledged, the first index that is missing).
LEMMA LeastNatural ==
  ASSUME NEW T \in SUBSET Nat, T # {}
  PROVE  \E x \in T : \A y \in T : x <= y
<1> DEFINE R == OpToRel(<, Nat)
<1>1. IsWellFoundedOn(R, Nat)
  BY NatLessThanWellFounded, Zenon
<1>2. \A y, x \in Nat : <<y, x>> \in R <=> y < x
  BY DEF OpToRel
<1> HIDE DEF R
<1>3. PICK x \in T : \A y \in T : ~ (<<y, x>> \in R)
  BY <1>1, WFMin, Zenon
<1>4. ASSUME NEW y \in T PROVE x <= y
  <2>1. x \in Nat /\ y \in Nat
    BY <1>3
  <2>2. ~ (y < x)
    BY <1>2, <1>3, <2>1, Zenon
  <2> QED BY <2>1, <2>2
<1> QED BY <1>4

\* Induction, for the set of the numbers that have a property (the number of turns
\* a loop has taken, a position in a queue).
LEMMA SetInduction ==
  ASSUME NEW S, 0 \in S, \A n \in Nat : n \in S => n + 1 \in S
  PROVE  Nat \subseteq S
<1> SUFFICES ASSUME Nat \ S # {} PROVE FALSE
  OBVIOUS
<1>1. PICK x \in Nat \ S : \A y \in Nat \ S : x <= y
  BY LeastNatural, Zenon
<1>2. x # 0 /\ x - 1 \in Nat
  BY <1>1
<1>3. x - 1 \in S
  BY <1>1, <1>2
<1>4. (x - 1) + 1 \in S
  BY <1>2, <1>3
<1> QED BY <1>1, <1>4

-----------------------------------------------------------------------------
\* A remainder by n is one of 0 .. n - 1 (every index and counter that the
\* code reduces with % or by the width of an unsigned).
LEMMA ModRange ==
  ASSUME NEW n \in Nat, n >= 1, NEW i \in Int
  PROVE  i % n \in 0 .. n - 1
  BY SMT

\* Reduction changes nothing below n.
LEMMA ModSmall ==
  ASSUME NEW n \in Nat, n >= 1, NEW i \in Int, 0 <= i, i < n
  PROVE  i % n = i
  BY SMT

\* A product with a larger factor is larger by at least the other factor.
LEMMA ProductGrows ==
  ASSUME NEW m \in Nat, m >= 1, NEW p \in Int, NEW q \in Int, p >= q + 1
  PROVE  m * p >= m * q + m
  BY SMT

\* A number is its quotient times the divisor, and the remainder.
LEMMA DivMod ==
  ASSUME NEW m \in Nat, m >= 1, NEW i \in Int
  PROVE  /\ i \div m \in Int /\ i % m \in 0 .. m - 1
         /\ i = m * (i \div m) + (i % m)
  BY SMT

\* Quotient and remainder are unique.
LEMMA DivModUnique ==
  ASSUME NEW m \in Nat, m >= 1, NEW p \in Int, NEW q \in Int,
         NEW r \in 0 .. m - 1, NEW s \in 0 .. m - 1, m * p + r = m * q + s
  PROVE  p = q /\ r = s
<1>1. ~(p >= q + 1)
  BY ProductGrows
<1>2. ~(q >= p + 1)
  BY ProductGrows
<1> QED BY <1>1, <1>2

\* Adding multiples of the divisor does not change the remainder.
LEMMA ModOfSum ==
  ASSUME NEW m \in Nat, m >= 1, NEW q \in Int, NEW r \in 0 .. m - 1
  PROVE  (m * q + r) % m = r
<1> DEFINE i == m * q + r
           p == i \div m
           s == i % m
<1>1. i \in Int
  OBVIOUS
<1>2. p \in Int /\ s \in 0 .. m - 1 /\ i = m * p + s
  BY <1>1, DivMod
<1>3. m * q + r = m * p + s
  BY <1>2
<1> HIDE DEF p, s
<1>4. r = s
  BY <1>2, <1>3, DivModUnique
<1> QED BY <1>4 DEF s

\* A sum may be reduced on the way.
LEMMA ModAdd ==
  ASSUME NEW m \in Nat, m >= 1, NEW i \in Int, NEW j \in Int
  PROVE  ((i % m) + j) % m = (i + j) % m
<1> DEFINE q == i \div m
           r == i % m
           l == r + j
           p == l \div m
           t == l % m
<1>1. q \in Int /\ r \in Int /\ i = m * q + r
  BY DivMod
<1> HIDE DEF q, r
<1>2. l \in Int
  BY <1>1
<1> HIDE DEF l
<1>3. p \in Int /\ t \in 0 .. m - 1 /\ l = m * p + t
  BY <1>2, DivMod
<1> HIDE DEF p
<1>4. p + q \in Int /\ i + j = m * (p + q) + (l % m)
  BY <1>1, <1>3 DEF l
<1>5. (m * (p + q) + (l % m)) % m = l % m
  BY <1>3, <1>4, ModOfSum, Zenon
<1> QED BY <1>4, <1>5 DEF l, r

\* Past n it subtracts n once (an index that steps over the end of the ring).
LEMMA ModOver ==
  ASSUME NEW n \in Nat, n >= 1, NEW i \in Int, n <= i, i < n + n
  PROVE  i % n = i - n
  BY SMT

\* Below zero it adds n once (a difference of two reduced numbers).
LEMMA ModUnder ==
  ASSUME NEW n \in Nat, n >= 1, NEW i \in Int, -n <= i, i < 0
  PROVE  i % n = i + n
  BY SMT

\* A counter that wraps keeps its distance to another one when it is advanced
\* by n and the distance stays below the modulus.
LEMMA CounterAdvance ==
  ASSUME NEW u \in Nat, u >= 1,
         NEW w \in 0 .. u - 1, NEW r \in 0 .. u - 1,
         NEW s \in Nat, NEW n \in Nat,
         (w - r) % u = s, s + n < u
  PROVE  (((w + n) % u) - r) % u = s + n
<1>1. w - r = s \/ w - r = s - u
  <2>1. CASE w >= r
    BY <2>1, ModSmall
  <2>2. CASE w < r
    BY <2>2, ModUnder
  <2> QED BY <2>1, <2>2
<1>2. (w + n) % u = w + n \/ (w + n) % u = w + n - u
  <2>1. CASE w + n < u
    BY <2>1, ModSmall
  <2>2. CASE w + n >= u
    <3> DEFINE y == w + n
    <3>1. y \in Int /\ u <= y /\ y < u + u
      BY <2>2
    <3> HIDE DEF y
    <3>2. y % u = y - u
      BY <3>1, ModOver
    <3> QED BY <3>2 DEF y
  <2> QED BY <2>1, <2>2
<1>3. (w + n) % u \in 0 .. u - 1
  <2>1. w + n \in Int
    OBVIOUS
  <2> QED BY <2>1, ModRange
<1> DEFINE x == (w + n) % u
<1>4. x - r = s + n \/ x - r = s + n - u
  BY <1>1, <1>2, <1>3
<1> HIDE DEF x
<1>5. x \in Int /\ x - r \in Int
  BY <1>3 DEF x
<1>6. CASE x - r = s + n
  BY <1>5, <1>6, ModSmall DEF x
<1>7. CASE x - r = s + n - u
  BY <1>5, <1>7, ModUnder DEF x
<1> QED BY <1>4, <1>6, <1>7 DEF x

\* The same when the other counter, behind by s, catches up by n.
LEMMA CounterCatchUp ==
  ASSUME NEW u \in Nat, u >= 1,
         NEW w \in 0 .. u - 1, NEW r \in 0 .. u - 1,
         NEW s \in Nat, NEW n \in Nat,
         (w - r) % u = s, n <= s
  PROVE  (w - ((r + n) % u)) % u = s - n
<1>0. s \in 0 .. u - 1
  <2>1. w - r \in Int
    OBVIOUS
  <2> QED BY <2>1, ModRange
<1>1. w - r = s \/ w - r = s - u
  <2>1. CASE w >= r
    BY <2>1, ModSmall
  <2>2. CASE w < r
    BY <2>2, ModUnder
  <2> QED BY <2>1, <2>2
<1>2. (r + n) % u = r + n \/ (r + n) % u = r + n - u
  <2>1. CASE r + n < u
    BY <2>1, ModSmall
  <2>2. CASE r + n >= u
    <3> DEFINE y == r + n
    <3>1. y \in Int /\ u <= y /\ y < u + u
      BY <1>0, <2>2
    <3> HIDE DEF y
    <3>2. y % u = y - u
      BY <3>1, ModOver, Zenon
    <3> QED BY <3>2 DEF y
  <2> QED BY <2>1, <2>2
<1> DEFINE x == (r + n) % u
<1>3. x \in 0 .. u - 1
  <2>1. r + n \in Int
    OBVIOUS
  <2> QED BY <2>1, ModRange
<1>4. w - x = s - n \/ w - x = s - n - u
  BY <1>0, <1>1, <1>2, <1>3
<1> HIDE DEF x
<1>5. x \in Int /\ w - x \in Int
  BY <1>3
<1>6. (w - x) % u = s - n
  <2> DEFINE d == w - x
  <2>1. d \in Int /\ s - n \in 0 .. u - 1 /\ (d = s - n \/ d = s - n - u)
    BY <1>0, <1>4, <1>5
  <2> HIDE DEF d
  <2>2. ASSUME d = s - n PROVE d % u = s - n
    BY <2>1, <2>2, ModSmall
  <2>3. ASSUME d = s - n - u PROVE d % u = s - n
    <3>1. -u <= d /\ d < 0 /\ d + u = s - n
      BY <2>1, <2>3
    <3> QED BY <2>1, <3>1, ModUnder
  <2>4. d % u = s - n
    BY <2>1, <2>2, <2>3
  <2> QED BY <2>4 DEF d
<1> QED BY <1>6 DEF x

\* An index that is reduced once more after a further step is the index
\* reduced at the end.
LEMMA IndexAdvance ==
  ASSUME NEW c \in Nat, c >= 1, NEW h \in 0 .. c - 1,
         NEW s \in Nat, NEW n \in Nat, s + n <= c
  PROVE  (((h + s) % c) + n) % c = (h + s + n) % c
<1> DEFINE a == h + s
           b == h + s + n
<1>0. a \in Nat /\ b \in Nat /\ a < c + c /\ b < c + c /\ a <= b /\ b = a + n /\ b - c < c
  OBVIOUS
<1> HIDE DEF a, b
<1>1. ((a % c) + n) % c = b % c
  <2>1. CASE a < c
    BY <1>0, <2>1, ModSmall
  <2>2. CASE a >= c
    <3>. a \in Int /\ c <= a /\ a < c + c
      BY <1>0, <2>2
    <3>0. a % c = a - c
      BY ModOver, Zenon
    <3>1. b % c = b - c
      BY <1>0, <2>2, ModOver
    <3>2. (b - c) % c = b - c
      BY <1>0, <2>2, ModSmall
    <3>3. a - c + n = b - c
      BY <1>0
    <3> QED BY <3>0, <3>1, <3>2, <3>3
  <2> QED BY <1>0, <2>1, <2>2
<1> QED BY <1>1 DEF a, b

\* Counted from the slot s places after h, the slot j places after h is j - s
\* places on, or c - (s - j) places on around the ring.
LEMMA RingDistance ==
  ASSUME NEW c \in Nat, c >= 1, NEW h \in 0 .. c - 1,
         NEW s \in 0 .. c, NEW j \in 0 .. c - 1
  PROVE  (((h + j) % c) - ((h + s) % c)) % c = IF j >= s THEN j - s ELSE c - (s - j)
<1> DEFINE a == h + j
           b == h + s
           d == IF j >= s THEN j - s ELSE c - (s - j)
<1>0. /\ a \in Nat /\ b \in Nat /\ a < c + c /\ b < c + c
      /\ d \in Nat /\ (a - b = d \/ a - b = d - c)
  OBVIOUS
<1>1. d < c
  OBVIOUS
<1> HIDE DEF a, b, d
<1>2. a % c = a \/ a % c = a - c
  <2>1. CASE a < c
    BY <1>0, <2>1, ModSmall
  <2>2. CASE a >= c
    <3>. a \in Int /\ c <= a /\ a < c + c
      BY <1>0, <2>2
    <3> QED BY ModOver, Zenon
  <2> QED BY <1>0, <2>1, <2>2
<1>3. b % c = b \/ b % c = b - c
  <2>1. CASE b < c
    BY <1>0, <2>1, ModSmall
  <2>2. CASE b >= c
    <3>. b \in Int /\ c <= b /\ b < c + c
      BY <1>0, <2>2
    <3> QED BY ModOver, Zenon
  <2> QED BY <1>0, <2>1, <2>2
<1>4. a % c \in 0 .. c - 1 /\ b % c \in 0 .. c - 1
  BY <1>0, ModRange
<1> DEFINE e == (a % c) - (b % c)
<1>5. e \in Int /\ (e = d \/ e = d - c)
  BY <1>0, <1>1, <1>2, <1>3, <1>4
<1> HIDE DEF e
<1>6. e % c = d
  <2>1. ASSUME e = d PROVE e % c = d
    BY <1>0, <1>1, <2>1, ModSmall
  <2>2. ASSUME e = d - c PROVE e % c = d
    <3>1. -c <= e /\ e < 0 /\ e + c = d
      BY <1>0, <1>1, <2>2
    <3> QED BY <1>5, <3>1, ModUnder
  <2> QED BY <1>5, <2>1, <2>2
<1> QED BY <1>6 DEF a, b, d, e

-----------------------------------------------------------------------------
\* n bytes of the stream are a string of length n (every payload and substring).
LEMMA BytesSeq ==
  ASSUME NEW i \in Int, NEW n \in Nat
  PROVE  /\ Bytes(i, n) \in Seq(Int)
         /\ Len(Bytes(i, n)) = n
         /\ \A k \in 1 .. n : Bytes(i, n)[k] = i + k - 1
  BY DEF Bytes

\* A string that holds the right byte at every place is that part of the stream.
LEMMA BytesEqual ==
  ASSUME NEW s \in Seq(Int), NEW i \in Int, NEW n \in Nat, Len(s) = n,
         \A k \in 1 .. n : s[k] = i + k - 1
  PROVE  s = Bytes(i, n)
  BY BytesSeq, SeqEqual

\* The empty string is every empty part of the stream.
LEMMA BytesEmpty ==
  ASSUME NEW i \in Int
  PROVE  Bytes(i, 0) = <<>>
<1> DEFINE n == 0
<1>1. n \in Nat /\ Len(<<>>) = n /\ <<>> \in Seq(Int) /\ \A k \in 1 .. n : FALSE
  BY EmptySeq
<1> HIDE DEF n
<1>2. <<>> = Bytes(i, n)
  BY <1>1, BytesEqual, Zenon
<1> QED BY <1>2 DEF n

\* substr from an offset on is the part of the stream that starts there.
LEMMA BytesDrop ==
  ASSUME NEW i \in Int, NEW n \in Nat, NEW a \in 0 .. n
  PROVE  SubSeq(Bytes(i, n), a + 1, n) = Bytes(i + a, n - a)
<1> DEFINE s == Bytes(i, n)
           t == SubSeq(s, a + 1, n)
           j == i + a
           m == n - a
<1>1. s \in Seq(Int) /\ Len(s) = n /\ \A k \in 1 .. n : s[k] = i + k - 1
  BY BytesSeq
<1>2. m \in Nat /\ j \in Int
  OBVIOUS
<1> HIDE DEF s
<1>3. t \in Seq(Int) /\ Len(t) = m /\ \A k \in 1 .. m : t[k] = s[a + k]
  BY <1>1
<1>4. \A k \in 1 .. m : t[k] = j + k - 1
  BY <1>1, <1>3
<1> HIDE DEF t, m, j
<1>5. t = Bytes(j, m)
  BY <1>2, <1>3, <1>4, BytesEqual
<1> QED BY <1>5 DEF s, t, m, j

\* The first bytes of a part of the stream are the part of that length.
LEMMA BytesTake ==
  ASSUME NEW i \in Int, NEW n \in Nat, NEW a \in 0 .. n
  PROVE  SubSeq(Bytes(i, n), 1, a) = Bytes(i, a)
<1> DEFINE s == Bytes(i, n)
           t == SubSeq(s, 1, a)
<1>1. s \in Seq(Int) /\ Len(s) = n /\ \A k \in 1 .. n : s[k] = i + k - 1
  BY BytesSeq
<1> HIDE DEF s
<1>3. t \in Seq(Int) /\ Len(t) = a /\ \A k \in 1 .. a : t[k] = s[k]
  BY <1>1
<1> HIDE DEF t
<1>5. t = Bytes(i, a)
  BY <1>1, <1>3, BytesEqual
<1> QED BY <1>5 DEF s, t

\* Two parts of the stream that follow each other make one part.
LEMMA BytesConcat ==
  ASSUME NEW i \in Int, NEW n \in Nat, NEW m \in Nat
  PROVE  Bytes(i, n) \o Bytes(i + n, m) = Bytes(i, n + m)
<1> DEFINE s == Bytes(i, n)
           t == Bytes(i + n, m)
           u == s \o t
<1>1. s \in Seq(Int) /\ Len(s) = n /\ \A k \in 1 .. n : s[k] = i + k - 1
  BY BytesSeq
<1>2. t \in Seq(Int) /\ Len(t) = m /\ \A k \in 1 .. m : t[k] = (i + n) + k - 1
  BY BytesSeq
<1> HIDE DEF s, t
<1>3. /\ u \in Seq(Int) /\ Len(u) = n + m
      /\ \A k \in 1 .. n + m : u[k] = IF k <= n THEN s[k] ELSE t[k - n]
  <2>1. /\ u \in Seq(Int) /\ Len(u) = Len(s) + Len(t)
        /\ \A k \in 1 .. Len(s) + Len(t) : u[k] = IF k <= Len(s) THEN s[k] ELSE t[k - Len(s)]
    BY <1>1, <1>2, ConcatProperties, Zenon
  <2> QED BY <1>1, <1>2, <2>1, Zenon
<1>4. ASSUME NEW k \in 1 .. n + m
      PROVE  u[k] = i + k - 1
  <2>1. CASE k <= n
    BY <1>1, <1>3, <2>1
  <2>2. CASE ~(k <= n)
    <3>1. k - n \in 1 .. m
      BY <2>2
    <3>2. u[k] = t[k - n] /\ t[k - n] = (i + n) + (k - n) - 1
      BY <1>2, <1>3, <2>2, <3>1
    <3> QED BY <3>2
  <2> QED BY <2>1, <2>2, Zenon
<1> HIDE DEF u
<1>5. u = Bytes(i, n + m)
  BY <1>3, <1>4, BytesEqual
<1> QED BY <1>5 DEF s, t, u

\* The byte streams that hold numbered bytes.
Streams == [capacity : Nat, buf : Seq(Int), written : 0 .. UIntMod - 1,
            read : 0 .. UIntMod - 1, ended : BOOLEAN, error : BOOLEAN]

StreamOK(s) == s \in Streams /\ Len(s.buf) <= s.capacity

\* A new stream is empty (the constructor of ByteStream).
LEMMA NewStreamOK ==
  ASSUME NEW c \in Nat
  PROVE  StreamOK(NewStream(c)) /\ NewStream(c).buf = <<>>
  BY UIntAssumption, EmptySeq DEF StreamOK, Streams, NewStream

\* Reading from a stream that holds the bytes from i on returns the first ones and
\* leaves the others.
LEMMA PoppedBytes ==
  ASSUME NEW s, StreamOK(s), NEW i \in Int, s.buf = Bytes(i, Len(s.buf)),
         NEW len \in Nat, len <= Len(s.buf)
  PROVE  /\ StreamOK(Popped(s, len))
         /\ Popped(s, len).buf = Bytes(i + len, Len(s.buf) - len)
         /\ Len(Popped(s, len).buf) = Len(s.buf) - len
         /\ Popped(s, len).ended = s.ended
         /\ Popped(s, len).capacity = s.capacity
         /\ Popped(s, len).written = s.written
         /\ Peek(s, len) = Bytes(i, len)
<1> DEFINE n == Len(s.buf)
           p == Popped(s, len)
<1>1. s \in Streams /\ n \in Nat /\ n <= s.capacity
  BY LenProperties DEF StreamOK, Streams
<1>2. min(len, n) = len
  BY <1>1 DEF min
<1>3. s.buf = Bytes(i, n)
  OBVIOUS
<1>4. p = [s EXCEPT !.buf = SubSeq(s.buf, len + 1, n), !.read = (s.read + len) % UIntMod]
  BY <1>2 DEF Popped
<1>5. Peek(s, len) = SubSeq(s.buf, 1, len)
  BY <1>2 DEF Peek
<1> HIDE DEF n, p
<1>0. len \in 0 .. n
  BY <1>1 DEF n
<1>6. SubSeq(Bytes(i, n), len + 1, n) = Bytes(i + len, n - len)
  BY <1>0, <1>1, BytesDrop
<1>7. SubSeq(Bytes(i, n), 1, len) = Bytes(i, len)
  BY <1>0, <1>1, BytesTake
<1>8. Bytes(i + len, n - len) \in Seq(Int) /\ Len(Bytes(i + len, n - len)) = n - len
  <2>1. i + len \in Int /\ n - len \in Nat
    BY <1>1 DEF n
  <2> QED BY <2>1, BytesSeq
<1>9. (s.read + len) % UIntMod \in 0 .. UIntMod - 1
  <2>1. s.read + len \in Int /\ UIntMod \in Nat /\ UIntMod >= 1
    BY <1>1, UIntAssumption DEF Streams
  <2> QED BY <2>1, ModRange, Zenon
<1>10. p = [s EXCEPT !.buf = Bytes(i + len, n - len), !.read = (s.read + len) % UIntMod]
  BY <1>3, <1>4, <1>6, Zenon
<1>11. p \in Streams /\ p.buf = Bytes(i + len, n - len) /\ p.ended = s.ended
       /\ p.capacity = s.capacity /\ p.written = s.written
  BY <1>1, <1>8, <1>9, <1>10, Zenon DEF Streams
<1>12. StreamOK(p) /\ Len(p.buf) = n - len
  BY <1>0, <1>1, <1>8, <1>11 DEF StreamOK, Streams
<1>13. Peek(s, len) = Bytes(i, len)
  BY <1>3, <1>5, <1>7
<1> QED BY <1>11, <1>12, <1>13 DEF n, p

\* Writing the bytes that come next to a stream that holds the bytes from i on
\* keeps them in order, as many as fit.
LEMMA WrittenBytes ==
  ASSUME NEW s, StreamOK(s), NEW i \in Int, s.buf = Bytes(i, Len(s.buf)),
         NEW n \in Nat
  PROVE  LET data == Bytes(i + Len(s.buf), n)
             w    == Written(s, data)
             k    == Accepted(s, data)
         IN  /\ StreamOK(w)
             /\ k \in 0 .. n /\ k = min(n, s.capacity - Len(s.buf))
             /\ w.buf = Bytes(i, Len(s.buf) + k)
             /\ Len(w.buf) = Len(s.buf) + k
             /\ w.ended = s.ended /\ w.capacity = s.capacity
             /\ w.written = (s.written + k) % UIntMod
<1> DEFINE m == Len(s.buf)
           data == Bytes(i + m, n)
           w    == Written(s, data)
           k    == Accepted(s, data)
<1>1. s \in Streams /\ m \in Nat /\ m <= s.capacity /\ s.capacity \in Nat
  BY LenProperties DEF StreamOK, Streams
<1>2. Len(data) = n
  <2> DEFINE j == i + m
  <2>1. j \in Int
    BY <1>1
  <2> HIDE DEF j
  <2>2. Len(Bytes(j, n)) = n
    BY <2>1, BytesSeq
  <2> QED BY <2>2 DEF j
<1>3. k = min(n, s.capacity - m)
  BY <1>2 DEF Accepted, RemainingCapacity
<1>4. k \in 0 .. n /\ m + k <= s.capacity
  BY <1>1, <1>3 DEF min
<1>5. w = [s EXCEPT !.buf = s.buf \o SubSeq(data, 1, k), !.written = (s.written + k) % UIntMod]
  BY DEF Written
<1>6. s.buf = Bytes(i, m)
  OBVIOUS
<1> HIDE DEF m, k, w
<1>7. SubSeq(data, 1, k) = Bytes(i + m, k)
  <2> DEFINE j == i + m
  <2>1. j \in Int
    BY <1>1
  <2> HIDE DEF j
  <2>2. SubSeq(Bytes(j, n), 1, k) = Bytes(j, k)
    BY <1>4, <2>1, BytesTake
  <2> QED BY <2>2 DEF j
<1>8. s.buf \o SubSeq(data, 1, k) = Bytes(i, m + k)
  <2>1. k \in Nat
    BY <1>4
  <2>2. Bytes(i, m) \o Bytes(i + m, k) = Bytes(i, m + k)
    BY <1>1, <2>1, BytesConcat, Zenon
  <2> QED BY <1>6, <1>7, <2>2, Zenon
<1>9. Bytes(i, m + k) \in Seq(Int) /\ Len(Bytes(i, m + k)) = m + k
  <2>1. m + k \in Nat
    BY <1>1, <1>4
  <2> QED BY <2>1, BytesSeq
<1>10. (s.written + k) % UIntMod \in 0 .. UIntMod - 1
  <2>1. s.written + k \in Int /\ UIntMod \in Nat /\ UIntMod >= 1
    BY <1>1, <1>4, UIntAssumption DEF Streams
  <2> QED BY <2>1, ModRange, Zenon
<1>11. w = [s EXCEPT !.buf = Bytes(i, m + k), !.written = (s.written + k) % UIntMod]
  BY <1>5, <1>8, Zenon
<1>12. w \in Streams /\ w.buf = Bytes(i, m + k) /\ w.ended = s.ended
       /\ w.capacity = s.capacity /\ w.written = (s.written + k) % UIntMod
  BY <1>1, <1>9, <1>10, <1>11, Zenon DEF Streams
<1> QED BY <1>3, <1>4, <1>9, <1>12 DEF StreamOK, m, k, w

\* Ending a stream leaves its bytes alone (end_input).
LEMMA EndedOK ==
  ASSUME NEW s, StreamOK(s)
  PROVE  /\ StreamOK(Ended(s)) /\ Ended(s).ended
         /\ Ended(s).buf = s.buf /\ Ended(s).capacity = s.capacity
         /\ Ended(s).written = s.written
<1> DEFINE yes == TRUE
           e   == Ended(s)
<1>1. s \in Streams /\ e = [s EXCEPT !.ended = yes] /\ yes \in BOOLEAN /\ yes
  BY DEF StreamOK, Ended
<1> HIDE DEF yes, e
<1>2. /\ e \in Streams /\ e.ended = yes /\ e.buf = s.buf /\ e.capacity = s.capacity
      /\ e.written = s.written
  BY <1>1, Zenon DEF Streams
<1> QED BY <1>1, <1>2 DEF StreamOK, e

\* The stream s, which holds the bytes up to i, and the n bytes that follow.
Longer(s, i, n) ==
  [capacity |-> s.capacity, buf |-> Bytes(i - Len(s.buf), Len(s.buf) + n),
   written |-> (s.written + n) % UIntMod, read |-> s.read,
   ended |-> s.ended, error |-> s.error]

\* What a stream that holds the bytes up to i is after the next n were written, all
\* of which fit.
LEMMA WrittenFits ==
  ASSUME NEW s, StreamOK(s), NEW i \in Int, s.buf = Bytes(i - Len(s.buf), Len(s.buf)),
         NEW n \in Nat, n <= s.capacity - Len(s.buf)
  PROVE  /\ Accepted(s, Bytes(i, n)) = n
         /\ Written(s, Bytes(i, n)) = Longer(s, i, n)
         /\ StreamOK(Written(s, Bytes(i, n)))
<1> DEFINE m    == Len(s.buf)
           data == Bytes(i, n)
           w    == Written(s, data)
           j    == i - m
           b    == Bytes(j, m + n)
           c    == (s.written + n) % UIntMod
<1>1. /\ s \in Streams /\ m \in Nat /\ s.capacity \in Nat /\ j \in Int /\ m + n \in Nat
      /\ j + m = i
  BY LenProperties DEF StreamOK, Streams
<1>2. Len(data) = n
  BY BytesSeq
<1>3. Accepted(s, data) = n
  BY <1>1, <1>2 DEF Accepted, RemainingCapacity, min
<1>4. SubSeq(data, 1, n) = data
  <2>1. n \in 0 .. n
    OBVIOUS
  <2> QED BY <2>1, BytesTake
<1>5. s.buf \o data = b
  <2>1. s.buf = Bytes(j, m)
    OBVIOUS
  <2> HIDE DEF j
  <2>2. Bytes(j, m) \o Bytes(j + m, n) = Bytes(j, m + n)
    BY <1>1, BytesConcat, Zenon
  <2> QED BY <1>1, <2>1, <2>2, Zenon
<1>6. w = [s EXCEPT !.buf = b, !.written = c]
  BY <1>3, <1>4, <1>5, Zenon DEF Written
<1>7. b \in Seq(Int) /\ Len(b) = m + n
  <2> HIDE DEF j
  <2>1. Bytes(j, m + n) \in Seq(Int) /\ Len(Bytes(j, m + n)) = m + n
    BY <1>1, BytesSeq, Zenon
  <2> QED BY <2>1
<1>8. c \in 0 .. UIntMod - 1
  <2>1. s.written + n \in Int /\ UIntMod \in Nat /\ UIntMod >= 1
    BY <1>1, UIntAssumption DEF Streams
  <2> QED BY <2>1, ModRange, Zenon
<1> HIDE DEF w, b, c
<1>9. /\ w \in Streams /\ w.buf = b /\ w.capacity = s.capacity
      /\ w = [capacity |-> s.capacity, buf |-> b, written |-> c, read |-> s.read,
              ended |-> s.ended, error |-> s.error]
  BY <1>1, <1>6, <1>7, <1>8, Zenon DEF Streams
<1>10. StreamOK(w)
  BY <1>1, <1>7, <1>9, SMTT(30) DEF StreamOK
<1> QED BY <1>3, <1>9, <1>10 DEF w, b, c, Longer

\* A write that is cut off writes what is accepted.
LEMMA WrittenCut ==
  ASSUME NEW s, StreamOK(s), NEW i \in Int, NEW n \in Nat,
         NEW k, k = Accepted(s, Bytes(i, n))
  PROVE  /\ k \in Nat /\ k <= n /\ k <= s.capacity - Len(s.buf)
         /\ k = n \/ k = s.capacity - Len(s.buf)
         /\ Written(s, Bytes(i, n)) = Written(s, Bytes(i, k))
<1>1. /\ s.capacity \in Nat /\ Len(s.buf) \in Nat /\ Len(s.buf) <= s.capacity
  BY LenProperties DEF StreamOK, Streams
<1>2. Len(Bytes(i, n)) = n
  BY BytesSeq
<1>3. k = min(n, s.capacity - Len(s.buf))
  BY <1>2 DEF Accepted, RemainingCapacity
<1>4. k \in 0 .. n /\ k \in Nat /\ k <= s.capacity - Len(s.buf)
      /\ (k = n \/ k = s.capacity - Len(s.buf))
  BY <1>1, <1>3 DEF min
<1>5. Len(Bytes(i, k)) = k
  BY <1>4, BytesSeq
<1>6. Accepted(s, Bytes(i, k)) = k
  BY <1>1, <1>4, <1>5 DEF Accepted, RemainingCapacity, min
<1>7. k \in 0 .. k
  BY <1>4
<1>8. SubSeq(Bytes(i, n), 1, k) = Bytes(i, k) /\ SubSeq(Bytes(i, k), 1, k) = Bytes(i, k)
  BY <1>4, <1>7, BytesTake, Zenon
<1>9. Written(s, Bytes(i, n)) = Written(s, Bytes(i, k))
  BY <1>6, <1>8, Zenon DEF Written
<1> QED BY <1>4, <1>9

\* Two writes are one.
LEMMA WrittenTwice ==
  ASSUME NEW s, StreamOK(s), NEW i \in Int, s.buf = Bytes(i - Len(s.buf), Len(s.buf)),
         NEW n \in Nat, NEW m \in Nat, n + m <= s.capacity - Len(s.buf),
         NEW w, w = Written(s, Bytes(i, n))
  PROVE  Written(w, Bytes(i + n, m)) = Written(s, Bytes(i, n + m))
<1> DEFINE b == Len(s.buf)
           j == i - b
           l == i + n
           z == s.written + n
<1>1. /\ s \in Streams /\ b \in Nat /\ s.capacity \in Nat /\ n + m \in Nat
      /\ n <= s.capacity - b /\ UIntMod \in Nat /\ UIntMod >= 1 /\ s.written \in Nat
  BY LenProperties, UIntAssumption DEF StreamOK, Streams
<1>2. w = Longer(s, i, n) /\ StreamOK(w)
  BY <1>1, WrittenFits
<1>3. Written(s, Bytes(i, n + m)) = Longer(s, i, n + m)
  <2> DEFINE nm == n + m
  <2>1. nm \in Nat /\ nm <= s.capacity - Len(s.buf)
    BY <1>1
  <2> HIDE DEF nm
  <2>2. Written(s, Bytes(i, nm)) = Longer(s, i, nm)
    BY <2>1, WrittenFits
  <2> QED BY <2>2 DEF nm
<1>4. /\ w.capacity = s.capacity /\ w.buf = Bytes(j, b + n) /\ w.read = s.read
      /\ w.ended = s.ended /\ w.error = s.error
      /\ w.written = z % UIntMod
  BY <1>2 DEF Longer
<1>5. /\ l \in Int /\ j \in Int /\ b + n \in Nat /\ l - (b + n) = j
      /\ m <= s.capacity - (b + n) /\ (b + n) + m = b + (n + m)
  <2>1. n + m <= s.capacity - b
    OBVIOUS
  <2> HIDE DEF b
  <2> QED BY <1>1, <2>1
<1>6. Len(w.buf) = b + n
  <2> HIDE DEF j, b
  <2> QED BY <1>4, <1>5, BytesSeq
<1>7. Written(w, Bytes(l, m)) = Longer(w, l, m)
  <2>1. w.buf = Bytes(l - Len(w.buf), Len(w.buf)) /\ m <= w.capacity - Len(w.buf)
    BY <1>4, <1>5, <1>6, Zenon
  <2> HIDE DEF l
  <2> QED BY <1>2, <1>5, <2>1, WrittenFits, Zenon
<1>8. ((z % UIntMod) + m) % UIntMod = (s.written + (n + m)) % UIntMod
  <2>1. z \in Int /\ m \in Int /\ s.written + (n + m) = z + m
    BY <1>1
  <2> HIDE DEF z
  <2>2. ((z % UIntMod) + m) % UIntMod = (z + m) % UIntMod
    BY <1>1, <2>1, ModAdd, Zenon
  <2> QED BY <2>1, <2>2
<1>9. Longer(w, l, m) = Longer(s, i, n + m)
  <2>1. l - Len(w.buf) = i - Len(s.buf) /\ Len(w.buf) + m = Len(s.buf) + (n + m)
    BY <1>5, <1>6, Zenon
  <2>2. Bytes(l - Len(w.buf), Len(w.buf) + m) = Bytes(i - Len(s.buf), Len(s.buf) + (n + m))
    BY <2>1, Zenon
  <2>3. (w.written + m) % UIntMod = (s.written + (n + m)) % UIntMod
    BY <1>4, <1>8
  <2> HIDE DEF l, z
  <2> QED BY <1>4, <2>2, <2>3, Zenon DEF Longer
<1> QED BY <1>3, <1>7, <1>9
=============================================================================
