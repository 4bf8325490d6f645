--------------------------- MODULE WrappingProofs ---------------------------
(***************************************************************************)
(* What wrap and unwrap promise, for every size M of the sequence space,   *)
(* every initial sequence number and every checkpoint.                     *)
(***************************************************************************)
EXTENDS WrappingIntegers, DataLemmas

\* Two numbers that differ by a multiple of M.
Congruent(a, b) == \E k \in Int : a = b + M * k

\* Congruence is symmetric and transitive.
LEMMA CongruentSym ==
  ASSUME NEW a \in Int, NEW b \in Int, Congruent(a, b)
  PROVE  Congruent(b, a)
<1> PICK k \in Int : a = b + M * k
  BY DEF Congruent
<1>1. M \in Int
  BY MAssumption
<1>2. b = a + M * (-k)
  BY <1>1
<1> QED BY <1>2 DEF Congruent

\* Congruence passes along: unwrap's candidate is compared with n through num.
LEMMA CongruentTrans ==
  ASSUME NEW a \in Int, NEW b \in Int, NEW c \in Int, Congruent(a, b), Congruent(b, c)
  PROVE  Congruent(a, c)
<1> PICK k \in Int : a = b + M * k
  BY DEF Congruent
<1> PICK j \in Int : b = c + M * j
  BY DEF Congruent
<1>1. M \in Int
  BY MAssumption
<1>2. a = c + M * (j + k)
  BY <1>1
<1> QED BY <1>2 DEF Congruent

\* A number is congruent to its remainder.
LEMMA CongruentMod ==
  ASSUME NEW i \in Int
  PROVE  i % M \in 0 .. M - 1 /\ Congruent(i, i % M)
<1>1. i \div M \in Int /\ i % M \in 0 .. M - 1 /\ i = M * (i \div M) + (i % M)
  BY MAssumption, DivMod
<1>2. i = (i % M) + M * (i \div M)
  BY <1>1, MAssumption
<1> QED BY <1>1, <1>2 DEF Congruent

\* Congruent numbers have the same remainder.
LEMMA CongruentUnique ==
  ASSUME NEW i \in Int, NEW r \in 0 .. M - 1, Congruent(i, r)
  PROVE  i % M = r
<1> PICK k \in Int : i = r + M * k
  BY DEF Congruent
<1>1. M \in Nat /\ M >= 1
  BY MAssumption
<1>2. i = M * k + r
  BY <1>1
<1> QED BY <1>1, <1>2, ModOfSum

\* The absolute numbers that wrap to n are those congruent to n - isn.
LEMMA WrapsTo ==
  ASSUME NEW n \in WrappingInt32, NEW isn \in WrappingInt32, NEW b \in Nat
  PROVE  wrap(b, isn) = n <=> Congruent(b, n - isn)
<1>0. M \in Nat /\ n \in 0 .. M - 1 /\ isn \in 0 .. M - 1 /\ isn + b \in Int
  BY MAssumption DEF WrappingInt32
<1>1. ASSUME wrap(b, isn) = n
      PROVE  Congruent(b, n - isn)
  <2>1. Congruent(isn + b, n)
    BY <1>0, <1>1, CongruentMod DEF wrap
  <2> PICK k \in Int : isn + b = n + M * k
    BY <2>1 DEF Congruent
  <2>2. b = (n - isn) + M * k
    BY <1>0
  <2> QED BY <2>2 DEF Congruent
<1>2. ASSUME Congruent(b, n - isn)
      PROVE  wrap(b, isn) = n
  <2> PICK k \in Int : b = (n - isn) + M * k
    BY <1>2 DEF Congruent
  <2>1. isn + b = n + M * k
    BY <1>0
  <2>2. Congruent(isn + b, n)
    BY <2>1 DEF Congruent
  <2> QED BY <1>0, <2>2, CongruentUnique DEF wrap
<1> QED BY <1>1, <1>2

\* unwrap returns a candidate, at most half the space below the checkpoint, and at
\* most half the space above it unless it is the lowest candidate of all.
LEMMA UnwrapNear ==
  ASSUME NEW n \in WrappingInt32, NEW isn \in WrappingInt32, NEW checkpoint \in Nat
  PROVE  LET a == unwrap(n, isn, checkpoint)
         IN  /\ a \in Nat
             /\ Congruent(a, n - isn)
             /\ 2 * (checkpoint - a) <= M
             /\ 2 * (a - checkpoint) <= M \/ a < M
<1> DEFINE num  == (n - isn) % M
           q    == checkpoint \div M
           base == q * M
           ret  == base + num
           a    == unwrap(n, isn, checkpoint)
<1>0. M \in Nat /\ M >= 4 /\ n - isn \in Int
  BY MAssumption DEF WrappingInt32
<1>1. num \in 0 .. M - 1 /\ Congruent(n - isn, num)
  BY <1>0, CongruentMod
<1>2. q \in Int /\ checkpoint % M \in 0 .. M - 1 /\ checkpoint = M * q + (checkpoint % M)
  BY <1>0, DivMod
<1>3. q >= 0
  <2>1. SUFFICES ASSUME 0 >= q + 1 PROVE FALSE
    BY <1>2
  <2>2. M * 0 >= M * q + M
    BY <1>0, <1>2, <2>1, ProductGrows
  <2> QED BY <1>0, <1>2, <2>2
<1>4. base \in Int /\ base = M * q
  BY <1>0, <1>2
<1>5. base \in Nat /\ (base = 0 \/ base >= M)
  <2>1. CASE q = 0
    BY <1>0, <1>4, <2>1
  <2>2. CASE q >= 1
    <3>1. M * q >= M * 0 + M
      BY <1>0, <1>2, <2>2, ProductGrows
    <3> QED BY <1>0, <1>4, <3>1
  <2> QED BY <1>2, <1>3, <2>1, <2>2
<1>6. base <= checkpoint /\ checkpoint < base + M
  BY <1>0, <1>2, <1>4
<1>7. /\ a = IF ret > checkpoint
             THEN IF ret > M - 1 /\ ret - checkpoint > checkpoint - ret + M
                  THEN ret - M ELSE ret
             ELSE IF checkpoint - ret > ret + M - checkpoint THEN ret + M ELSE ret
  BY DEF unwrap
<1>8. Congruent(num, n - isn)
  BY <1>0, <1>1, CongruentSym
<1>9. /\ Congruent(ret, num) /\ Congruent(ret - M, num) /\ Congruent(ret + M, num)
  <2>1. ret = num + M * q /\ ret - M = num + M * (q - 1) /\ ret + M = num + M * (q + 1)
    BY <1>0, <1>1, <1>2, <1>4
  <2>2. q - 1 \in Int /\ q + 1 \in Int
    BY <1>2
  <2> QED BY <1>2, <2>1, <2>2 DEF Congruent
<1> HIDE DEF num, q, base, a
<1>10. a \in Int /\ Congruent(a, num)
  BY <1>0, <1>1, <1>4, <1>7, <1>9
<1>11. Congruent(a, n - isn)
  BY <1>0, <1>1, <1>8, <1>10, CongruentTrans
<1>12. a \in Nat /\ 2 * (checkpoint - a) <= M /\ (2 * (a - checkpoint) <= M \/ a < M)
  BY <1>0, <1>1, <1>5, <1>6, <1>7
<1> QED BY <1>11, <1>12 DEF a

\* wrapping_integers.cc:25: unwrap gives back the number that was wrapped when it
\* is less than half the space away from the checkpoint.
THEOREM UnwrapUndoesWrap ==
  ASSUME NEW isn \in WrappingInt32, NEW checkpoint \in Nat, NEW x \in Nat,
         x - checkpoint < M \div 2, checkpoint - x < M \div 2
  PROVE  unwrap(wrap(x, isn), isn, checkpoint) = x
<1> DEFINE n == wrap(x, isn)
           a == unwrap(n, isn, checkpoint)
<1>0. M \in Nat /\ M >= 4 /\ isn \in Int /\ isn + x \in Int
  BY MAssumption DEF WrappingInt32
<1>1. n \in WrappingInt32
  BY <1>0, CongruentMod DEF wrap, WrappingInt32
<1>2. /\ a \in Nat
      /\ Congruent(a, n - isn)
      /\ 2 * (checkpoint - a) <= M
      /\ 2 * (a - checkpoint) <= M \/ a < M
  BY <1>1, UnwrapNear
<1>3. Congruent(x, n - isn)
  BY <1>1, WrapsTo
<1>4. Congruent(a, x)
  <2>1. n - isn \in Int
    BY <1>0, <1>1 DEF WrappingInt32
  <2> QED BY <1>2, <1>3, <2>1, CongruentSym, CongruentTrans
<1> PICK k \in Int : a = x + M * k
  BY <1>4 DEF Congruent
<1>5. 2 * (x - checkpoint) < M /\ 2 * (checkpoint - x) < M
  BY <1>0, MAssumption
<1> HIDE DEF a
<1>6. ~(k >= 1)
  <2>1. SUFFICES ASSUME k >= 1 PROVE FALSE
    OBVIOUS
  <2>2. M * k >= M * 0 + M
    BY <1>0, <2>1, ProductGrows
  <2> QED BY <1>0, <1>2, <1>5, <2>2
<1>7. ~(k <= -1)
  <2>1. SUFFICES ASSUME 0 >= k + 1 PROVE FALSE
    OBVIOUS
  <2>2. M * 0 >= M * k + M
    BY <1>0, <2>1, ProductGrows
  <2> QED BY <1>0, <1>2, <1>5, <2>2
<1>8. a = x
  BY <1>0, <1>6, <1>7
<1> QED BY <1>8 DEF a

\* wrapping_integers.cc:25: no absolute number that wraps to n is closer to the
\* checkpoint than the one unwrap returns, which wraps to n itself.
THEOREM UnwrapIsNearest ==
  ASSUME NEW n \in WrappingInt32, NEW isn \in WrappingInt32, NEW checkpoint \in Nat
  PROVE  LET a == unwrap(n, isn, checkpoint)
             Distance(b) == IF b > checkpoint THEN b - checkpoint ELSE checkpoint - b
         IN  /\ a \in Nat /\ wrap(a, isn) = n
             /\ \A b \in Nat : wrap(b, isn) = n => Distance(a) <= Distance(b)
<1> DEFINE a == unwrap(n, isn, checkpoint)
           Distance(b) == IF b > checkpoint THEN b - checkpoint ELSE checkpoint - b
<1>0. M \in Nat /\ M >= 4 /\ n - isn \in Int
  BY MAssumption DEF WrappingInt32
<1>1. /\ a \in Nat
      /\ Congruent(a, n - isn)
      /\ 2 * (checkpoint - a) <= M
      /\ 2 * (a - checkpoint) <= M \/ a < M
  BY UnwrapNear
<1>2. wrap(a, isn) = n
  BY <1>1, WrapsTo
<1> HIDE DEF a
<1>3. ASSUME NEW b \in Nat, wrap(b, isn) = n
      PROVE  Distance(a) <= Distance(b)
  <2>1. Congruent(b, a)
    BY <1>0, <1>1, <1>3, WrapsTo, CongruentSym, CongruentTrans
  <2> PICK k \in Int : b = a + M * k
    BY <2>1 DEF Congruent
  <2>2. CASE k >= 1
    <3>1. M * k >= M * 0 + M
      BY <1>0, <2>2, ProductGrows
    <3> QED BY <1>0, <1>1, <3>1
  <2>3. CASE k <= -1
    <3>1. M * 0 >= M * k + M
      BY <1>0, <2>3, ProductGrows
    <3> QED BY <1>0, <1>1, <3>1
  <2>4. CASE k = 0
    BY <1>0, <1>1, <2>4
  <2> QED BY <2>2, <2>3, <2>4
<1> QED BY <1>1, <1>2, <1>3 DEF a
=============================================================================
