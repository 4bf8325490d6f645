----------------------------- MODULE Iteration -----------------------------
(***************************************************************************)
(* The states a loop goes through, for the proofs about the loops of the   *)
(* code: a loop is the operator Step, applied again and again.             *)
(***************************************************************************)
EXTENDS Integers, TLAPS

CONSTANT Step(_)

\* Induction over the turns (SetInduction of DataLemmas, which the modules that
\* instantiate this one extend).
Induction ==
  \A S : 0 \in S /\ (\A n \in Nat : n \in S => n + 1 \in S) => Nat \subseteq S

\* The state after k turns of a loop that starts in state s.
Iterate(s) ==
  LET state[k \in Nat] == IF k = 0 THEN s ELSE Step(state[k - 1])
  IN  state

\* h is the first n turns of the loop.
Begins(h, n, s) == h = [k \in 0 .. n |-> IF k = 0 THEN s ELSE Step(h[k - 1])]

\* A loop has a first n turns, for every n.
LEMMA BeginsExists ==
  ASSUME Induction, NEW s
  PROVE  \A n \in Nat : \E h : Begins(h, n, s)
<1> DEFINE A == {n \in Nat : \E h : Begins(h, n, s)}
<1>1. 0 \in A
  <2> DEFINE h == [k \in 0 .. 0 |-> s]
  <2>1. Begins(h, 0, s)
    BY DEF Begins
  <2> QED BY <2>1
<1>2. ASSUME NEW n \in Nat, n \in A
      PROVE  n + 1 \in A
  <2> PICK h : Begins(h, n, s)
    BY <1>2
  <2> DEFINE j == [k \in 0 .. n + 1 |-> IF k <= n THEN h[k] ELSE Step(h[n])]
             Def(k) == IF k = 0 THEN s ELSE Step(j[k - 1])
  <2>1. ASSUME NEW k \in 0 .. n + 1
        PROVE  j[k] = Def(k)
    <3>1. CASE k = 0
      BY <3>1 DEF Begins
    <3>2. CASE k # 0 /\ k <= n
      <4>1. k \in 0 .. n /\ k - 1 \in 0 .. n + 1 /\ k - 1 <= n
        BY <3>2
      <4>2. j[k] = h[k] /\ j[k - 1] = h[k - 1]
        BY <3>2, <4>1
      <4>3. h[k] = Step(h[k - 1])
        BY <3>2, <4>1 DEF Begins
      <4> QED BY <3>2, <4>2, <4>3
    <3>3. CASE k = n + 1
      <4>1. k # 0 /\ k - 1 = n /\ n \in 0 .. n + 1 /\ ~(k <= n)
        BY <3>3
      <4>2. j[k] = Step(h[n]) /\ j[n] = h[n]
        BY <4>1
      <4> QED BY <4>1, <4>2
    <3> QED BY <3>1, <3>2, <3>3
  <2>2. j = [k \in 0 .. n + 1 |-> Def(k)]
    BY <2>1
  <2>3. Begins(j, n + 1, s)
    BY <2>2 DEF Begins
  <2> QED BY <2>3
<1> HIDE DEF A
<1>3. Nat \subseteq A
  BY <1>1, <1>2 DEF Induction
<1> QED BY <1>3 DEF A

\* The first n turns do not depend on how many turns follow.
LEMMA BeginsAgree ==
  ASSUME Induction, NEW s, NEW n \in Nat, NEW g, NEW h, Begins(g, n, s), Begins(h, n + 1, s)
  PROVE  g[n] = h[n]
<1> DEFINE B == {k \in Nat : k <= n => g[k] = h[k]}
<1>1. 0 \in B
  BY DEF Begins
<1>2. ASSUME NEW k \in Nat, k \in B
      PROVE  k + 1 \in B
  <2>1. CASE k + 1 <= n
    <3>1. k + 1 \in 0 .. n /\ k + 1 \in 0 .. n + 1 /\ (k + 1) - 1 = k /\ k + 1 # 0
      BY <2>1
    <3>2. g[k + 1] = Step(g[k]) /\ h[k + 1] = Step(h[k])
      BY <3>1 DEF Begins
    <3>3. g[k] = h[k]
      BY <1>2, <2>1
    <3> QED BY <3>2, <3>3
  <2> QED BY <2>1
<1> HIDE DEF B
<1>3. n \in B
  BY <1>1, <1>2 DEF Induction
<1> QED BY <1>3 DEF B

\* The turns of a loop follow each other: the recursion that defines Iterate has a
\* solution.
THEOREM IterateFollows ==
  ASSUME Induction, NEW s
  PROVE  /\ Iterate(s)[0] = s
         /\ \A k \in Nat : Iterate(s)[k + 1] = Step(Iterate(s)[k])
<1> DEFINE Def(g) == [k \in Nat |-> IF k = 0 THEN s ELSE Step(g[k - 1])]
           run    == [n \in Nat |-> CHOOSE h : Begins(h, n, s)]
           w      == [n \in Nat |-> run[n][n]]
<1>1. \A n \in Nat : Begins(run[n], n, s)
  BY BeginsExists
<1> HIDE DEF run
<1>2. ASSUME NEW k \in Nat
      PROVE  w[k] = IF k = 0 THEN s ELSE Step(w[k - 1])
  <2>1. CASE k = 0
    <3>1. Begins(run[0], 0, s) /\ 0 \in 0 .. 0
      BY <1>1
    <3>2. run[0][0] = s
      BY <3>1 DEF Begins
    <3> QED BY <2>1, <3>2
  <2>2. CASE k # 0
    <3>1. k - 1 \in Nat /\ k \in 0 .. k /\ (k - 1) + 1 = k
      BY <2>2
    <3>2. Begins(run[k], k, s) /\ Begins(run[k - 1], k - 1, s)
      BY <1>1, <3>1
    <3>3. run[k][k] = Step(run[k][k - 1])
      BY <2>2, <3>1, <3>2 DEF Begins
    <3>4. run[k - 1][k - 1] = run[k][k - 1]
      BY <3>1, <3>2, BeginsAgree
    <3> QED BY <2>2, <3>1, <3>3, <3>4
  <2> QED BY <2>1, <2>2
<1>3. w = Def(w)
  BY <1>2
<1> HIDE DEF w
<1>4. Iterate(s) = CHOOSE g : g = Def(g)
  BY DEF Iterate
<1>5. Iterate(s) = Def(Iterate(s))
  BY <1>3, <1>4
<1> HIDE DEF Iterate
<1> QED BY <1>5
=============================================================================
