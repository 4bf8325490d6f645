------------------------- MODULE ReassemblerProofs -------------------------
(***************************************************************************)
(* What push_substring does with a substring, for every capacity, every    *)
(* overlap and every state that a StreamReassembler can be in.             *)
(***************************************************************************)
EXTENDS Reassembler, DataLemmas, FiniteSetTheorems

-----------------------------------------------------------------------------
(* The inductive invariant, of a reassembler r. *)

\* The entries of _mp are parts of the stream with gaps between them.
Stored(mp) ==
  /\ mp = [key \in DOMAIN mp |-> mp[key]]
  /\ DOMAIN mp \subseteq Nat /\ IsFiniteSet(DOMAIN mp)
  /\ \A key \in DOMAIN mp : Len(mp[key]) \in Nat /\ mp[key] = Bytes(key, Len(mp[key]))
  /\ \A k1, k2 \in DOMAIN mp : k1 < k2 => k1 + Len(mp[k1]) < k2

\* _output holds the bytes before _nidx.
Assembled(r) ==
  /\ StreamOK(r.output) /\ r.nidx \in Nat /\ Len(r.output.buf) <= r.nidx
  /\ r.output.buf = Bytes(r.nidx - Len(r.output.buf), Len(r.output.buf))
  /\ r.output.written = r.nidx % UIntMod

Counted(r) ==
  /\ IsFiniteSet(Held(r))
  /\ r.unassembled_bytes \in Nat /\ r.unassembled_bytes = Cardinality(Held(r))

\* What holds at every turn of the loops.
LoopInv(r) ==
  /\ r = [output |-> r.output, mp |-> r.mp, nidx |-> r.nidx, eof |-> r.eof,
          eidx |-> r.eidx, unassembled_bytes |-> r.unassembled_bytes]
  /\ Stored(r.mp) /\ Assembled(r) /\ Counted(r)

RInv(r) == LoopInv(r) /\ \A key \in DOMAIN r.mp : key > r.nidx

-----------------------------------------------------------------------------
(* Erasing an entry. *)

\* An entry of _mp covers as many indices as it has bytes.
LEMMA SpanSize ==
  ASSUME NEW r, Stored(r.mp), NEW key \in DOMAIN r.mp
  PROVE  /\ key \in Nat /\ Len(r.mp[key]) \in Nat
         /\ Span(r, key) \subseteq Held(r)
         /\ IsFiniteSet(Span(r, key)) /\ Cardinality(Span(r, key)) = Len(r.mp[key])
<1> DEFINE n == Len(r.mp[key])
           e == key + n - 1
<1>1. key \in Nat /\ n \in Nat
  BY DEF Stored
<1>2. Span(r, key) = key .. e
  BY DEF Span
<1>3. e \in Int /\ key \in Int /\ (key > e <=> n = 0) /\ (n # 0 => e - key + 1 = n)
  BY <1>1
<1>4. IsFiniteSet(key .. e) /\ Cardinality(key .. e) = n
  <2> HIDE DEF e
  <2>1. IsFiniteSet(key .. e) /\ Cardinality(key .. e) = IF key > e THEN 0 ELSE e - key + 1
    BY <1>3, FS_Interval
  <2> QED BY <1>3, <2>1
<1>5. Span(r, key) \subseteq Held(r)
  BY DEF Held
<1> QED BY <1>1, <1>2, <1>4, <1>5

\* Entries do not overlap.
LEMMA SpansApart ==
  ASSUME NEW r, Stored(r.mp), NEW k1 \in DOMAIN r.mp, NEW k2 \in DOMAIN r.mp, k1 # k2
  PROVE  Span(r, k1) \cap Span(r, k2) = {}
<1>1. /\ k1 \in Nat /\ k2 \in Nat /\ Len(r.mp[k1]) \in Nat /\ Len(r.mp[k2]) \in Nat
      /\ k1 < k2 => k1 + Len(r.mp[k1]) < k2
      /\ k2 < k1 => k2 + Len(r.mp[k2]) < k1
  BY DEF Stored
<1> QED BY <1>1 DEF Span

\* Erasing an entry removes its bytes, no others, and counts them off.
LEMMA EraseInv ==
  ASSUME NEW r, LoopInv(r), NEW key \in DOMAIN r.mp, NEW t, t = Erase(r, key)
  PROVE  /\ LoopInv(t)
         /\ t.output = r.output /\ t.nidx = r.nidx /\ t.eof = r.eof /\ t.eidx = r.eidx
         /\ DOMAIN t.mp = DOMAIN r.mp \ {key}
         /\ \A k \in DOMAIN t.mp : t.mp[k] = r.mp[k]
         /\ Held(t) = Held(r) \ Span(r, key)
         /\ Cardinality(DOMAIN t.mp) = Cardinality(DOMAIN r.mp) - 1
<1> DEFINE D  == DOMAIN r.mp \ {key}
           mp == Restrict(r.mp, D)
           u  == r.unassembled_bytes - Len(r.mp[key])
<1>1. Stored(r.mp) /\ Assembled(r) /\ Counted(r)
  BY DEF LoopInv
<1>2. mp = [k \in D |-> r.mp[k]]
  BY DEF Restrict
<1>3. DOMAIN mp = D /\ \A k \in D : mp[k] = r.mp[k]
  BY <1>2
<1>4. t = [r EXCEPT !.unassembled_bytes = u, !.mp = mp]
  BY DEF Erase
<1> HIDE DEF mp, u
<1>5. /\ t = [output |-> t.output, mp |-> t.mp, nidx |-> t.nidx, eof |-> t.eof,
              eidx |-> t.eidx, unassembled_bytes |-> t.unassembled_bytes]
      /\ t.output = r.output /\ t.mp = mp /\ t.nidx = r.nidx /\ t.eof = r.eof
      /\ t.eidx = r.eidx /\ t.unassembled_bytes = u
  BY <1>4, Zenon DEF LoopInv
<1>6. IsFiniteSet(D) /\ Cardinality(D) = Cardinality(DOMAIN r.mp) - 1
  <2> DEFINE K == DOMAIN r.mp
  <2>1. IsFiniteSet(K) /\ key \in K
    BY <1>1 DEF Stored
  <2> HIDE DEF K
  <2>2. /\ IsFiniteSet(K \ {key})
        /\ Cardinality(K \ {key}) = IF key \in K THEN Cardinality(K) - 1 ELSE Cardinality(K)
    BY <2>1, FS_RemoveElement
  <2> QED BY <2>1, <2>2 DEF K
<1>7. Stored(mp)
  <2>1. mp = [k \in DOMAIN mp |-> mp[k]]
    BY <1>2, <1>3
  <2> QED BY <1>1, <1>3, <1>6, <2>1 DEF Stored
<1>8. Held(t) = Held(r) \ Span(r, key)
  <2>1. \A k \in D : Span(t, k) = Span(r, k)
    BY <1>3, <1>5 DEF Span
  <2>2. \A k \in D : Span(r, k) \cap Span(r, key) = {}
    BY <1>1, SpansApart
  <2>3. Held(t) = UNION {Span(r, k) : k \in D}
    BY <1>3, <1>5, <2>1 DEF Held
  <2>4. Held(r) = UNION {Span(r, k) : k \in DOMAIN r.mp}
    BY DEF Held
  <2> QED BY <2>2, <2>3, <2>4
<1>9. Counted(t)
  <2> DEFINE S == Span(r, key)
             H == Held(r)
  <2>1. S \subseteq H /\ Cardinality(S) = Len(r.mp[key]) /\ Len(r.mp[key]) \in Nat
    BY <1>1, SpanSize
  <2>2. IsFiniteSet(H) /\ r.unassembled_bytes = Cardinality(H)
    BY <1>1 DEF Counted
  <2>3. IsFiniteSet(H \ S) /\ Cardinality(H \ S) = Cardinality(H) - Cardinality(H \cap S)
    BY <2>2, FS_Difference
  <2>4. H \cap S = S
    BY <2>1
  <2>5. Cardinality(H \ S) \in Nat
    BY <2>3, FS_CardinalityType
  <2>6. u = Cardinality(H \ S)
    BY <2>1, <2>2, <2>3, <2>4, Zenon DEF u
  <2> QED BY <1>5, <1>8, <2>3, <2>5, <2>6 DEF Counted
<1>10. Assembled(t)
  BY <1>1, <1>5 DEF Assembled
<1>11. LoopInv(t)
  BY <1>5, <1>7, <1>9, <1>10 DEF LoopInv
<1> QED BY <1>3, <1>5, <1>6, <1>8, <1>11

-----------------------------------------------------------------------------
(* Writing to _output. *)

\* t is s after more bytes were assembled, all of which _output had room for.
Advances(s, t) ==
  /\ t.nidx \in Nat /\ t.nidx >= s.nidx /\ t.nidx - s.nidx <= RemainingCapacity(s.output)
  /\ t.output = Written(s.output, Bytes(s.nidx, t.nidx - s.nidx))
  /\ t.eof = s.eof /\ t.eidx = s.eidx

\* Assembling moves the start of the window and the bytes in _output together, so
\* that the right edge stays where it is.
LEMMA AdvancesAssembled ==
  ASSUME NEW s, Assembled(s), NEW t, Advances(s, t)
  PROVE  /\ Assembled(t) /\ Edge(t) = Edge(s) /\ Edge(s) \in Nat /\ t.nidx <= Edge(s)
         /\ t.output.capacity = s.output.capacity /\ t.output.ended = s.output.ended
         /\ Len(t.output.buf) = Len(s.output.buf) + (t.nidx - s.nidx)
<1> DEFINE o == s.output
           n == t.nidx - s.nidx
           i == s.nidx
           b == Len(o.buf)
<1>1. /\ StreamOK(o) /\ i \in Nat /\ b \in Nat /\ b <= i /\ o.capacity \in Nat
      /\ o.buf = Bytes(i - b, b) /\ o.written = i % UIntMod /\ b <= o.capacity
  BY LenProperties DEF Assembled, StreamOK, Streams
<1>2. n \in Nat /\ n <= o.capacity - b /\ t.output = Written(o, Bytes(i, n)) /\ t.nidx = i + n
      /\ t.nidx \in Nat
  BY <1>1 DEF Advances, RemainingCapacity
<1>3. StreamOK(t.output) /\ t.output = Longer(o, i, n)
  <2> HIDE DEF o, n, i
  <2> QED BY <1>1, <1>2, WrittenFits DEF b
<1>4. /\ t.output.capacity = o.capacity /\ t.output.buf = Bytes(i - b, b + n)
      /\ t.output.written = (o.written + n) % UIntMod /\ t.output.ended = o.ended
  BY <1>3 DEF Longer
<1>5. Len(t.output.buf) = b + n
  <2> DEFINE j == i - b
             m == b + n
  <2> HIDE DEF n, i, b, o
  <2>1. j \in Int /\ m \in Nat
    BY <1>1, <1>2
  <2> HIDE DEF j, m
  <2>2. Len(Bytes(j, m)) = m
    BY <2>1, BytesSeq
  <2> QED BY <1>4, <2>2 DEF j, m
<1>6. (o.written + n) % UIntMod = t.nidx % UIntMod
  <2>1. UIntMod \in Nat /\ UIntMod >= 1 /\ i \in Int /\ n \in Int
    BY <1>1, <1>2, UIntAssumption
  <2> HIDE DEF n, i
  <2>2. ((i % UIntMod) + n) % UIntMod = (i + n) % UIntMod
    BY <2>1, ModAdd, Zenon
  <2> QED BY <1>1, <1>2, <2>2
<1>7. t.nidx - Len(t.output.buf) = i - b /\ Len(t.output.buf) <= t.nidx
  <2> HIDE DEF n, i, b
  <2> QED BY <1>1, <1>2, <1>5
<1>8. Assembled(t)
  BY <1>2, <1>3, <1>4, <1>5, <1>6, <1>7 DEF Assembled
<1>9. /\ Edge(t) = Edge(s) /\ Edge(s) \in Nat /\ t.nidx <= Edge(s)
  <2>1. Edge(s) = i + (o.capacity - b) /\ Edge(t) = t.nidx + (o.capacity - Len(t.output.buf))
    BY <1>4 DEF Edge, RemainingCapacity
  <2> HIDE DEF n, i, b, o
  <2> QED BY <1>1, <1>2, <1>5, <2>1, SMTT(30)
<1> QED BY <1>4, <1>5, <1>8, <1>9

\* Assembling after assembling is assembling.
LEMMA AdvancesTransitive ==
  ASSUME NEW s, Assembled(s), NEW t, Advances(s, t), NEW u, Advances(t, u)
  PROVE  Advances(s, u)
<1> DEFINE n == t.nidx - s.nidx
           m == u.nidx - t.nidx
           o == s.output
           i == s.nidx
<1>1. /\ Assembled(t) /\ Len(t.output.buf) = Len(o.buf) + n
      /\ t.output.capacity = o.capacity
  BY AdvancesAssembled
<1>2. /\ StreamOK(o) /\ i \in Nat /\ Len(o.buf) \in Nat /\ o.capacity \in Nat
      /\ o.buf = Bytes(i - Len(o.buf), Len(o.buf))
  BY LenProperties DEF Assembled, StreamOK, Streams
<1>3. /\ n \in Nat /\ t.nidx = i + n /\ t.output = Written(o, Bytes(i, n))
      /\ n <= o.capacity - Len(o.buf)
  BY <1>2 DEF Advances, RemainingCapacity
<1>4. /\ m \in Nat /\ u.nidx = t.nidx + m /\ u.output = Written(t.output, Bytes(t.nidx, m))
      /\ m <= t.output.capacity - Len(t.output.buf) /\ u.nidx \in Nat
  <2>1. t.nidx \in Nat /\ u.nidx \in Nat /\ u.nidx >= t.nidx
    BY DEF Advances
  <2> QED BY <2>1 DEF Advances, RemainingCapacity
<1>5. n + m <= o.capacity - Len(o.buf) /\ u.nidx - i = n + m /\ u.nidx >= i
  <2> HIDE DEF n, m, o, i
  <2> QED BY <1>1, <1>2, <1>3, <1>4, SMTT(30)
<1>6. Written(t.output, Bytes(i + n, m)) = Written(o, Bytes(i, n + m))
  <2>1. i \in Int
    BY <1>2
  <2> HIDE DEF n, m, o, i
  <2> QED BY <1>2, <1>3, <1>4, <1>5, <2>1, WrittenTwice
<1>7. u.output = Written(o, Bytes(i, u.nidx - i))
  <2> HIDE DEF n, m, o, i
  <2> QED BY <1>3, <1>4, <1>5, <1>6
<1>8. u.eof = s.eof /\ u.eidx = s.eidx
  BY DEF Advances
<1> QED BY <1>4, <1>5, <1>7, <1>8 DEF Advances, RemainingCapacity

\* Doing nothing is assembling nothing.
LEMMA AdvancesReflexive ==
  ASSUME NEW s, Assembled(s)
  PROVE  Advances(s, s)
<1> DEFINE o == s.output
           i == s.nidx
           n == 0
           b == Len(o.buf)
<1>1. /\ StreamOK(o) /\ i \in Nat /\ b \in Nat /\ b <= i /\ o.capacity \in Nat
      /\ o.buf = Bytes(i - b, b) /\ b <= o.capacity /\ o \in Streams
      /\ n \in Nat /\ n <= o.capacity - b /\ b + n = b
  BY LenProperties DEF Assembled, StreamOK, Streams
<1>2. Written(o, Bytes(i, n)) = Longer(o, i, n)
  <2> HIDE DEF n
  <2> QED BY <1>1, WrittenFits, SMTT(30)
<1>3. Longer(o, i, n) = o
  <2>1. (o.written + n) % UIntMod = o.written
    <3>1. o.written \in Nat /\ o.written < UIntMod /\ UIntMod \in Nat /\ UIntMod >= 1
      BY <1>1, UIntAssumption DEF Streams
    <3> QED BY <3>1, ModSmall
  <2>2. o = [capacity |-> o.capacity, buf |-> o.buf, written |-> o.written, read |-> o.read,
             ended |-> o.ended, error |-> o.error]
    BY <1>1 DEF Streams
  <2> HIDE DEF n, o, i
  <2> QED BY <1>1, <2>1, <2>2 DEF Longer, b
<1>4. i - i = 0 /\ i >= i /\ n <= RemainingCapacity(o)
  BY <1>1 DEF RemainingCapacity
<1> QED BY <1>1, <1>2, <1>3, <1>4 DEF Advances

\* Assembling a substring that starts at or before _nidx takes the bytes that are
\* new, as many as _output has room for.
LEMMA AssembleInv ==
  ASSUME NEW r, LoopInv(r), NEW index \in Nat, NEW n \in Nat, index <= r.nidx,
         NEW t, t = Assemble(r, Bytes(index, n), index)
  PROVE  /\ LoopInv(t) /\ Advances(r, t) /\ t.mp = r.mp
         /\ t.nidx <= index + n \/ t.nidx = r.nidx
         /\ index + n <= Edge(r) => index + n <= t.nidx
<1> DEFINE o   == r.output
           i   == r.nidx
           d   == i - index
           new == SubSeq(Bytes(index, n), d + 1, n)
           m   == IF d <= n THEN n - d ELSE 0
           k   == Accepted(o, Bytes(i, m))
<1>1. /\ Stored(r.mp) /\ Assembled(r) /\ Counted(r) /\ StreamOK(o) /\ i \in Nat
      /\ Len(o.buf) \in Nat /\ o.capacity \in Nat
  BY LenProperties DEF LoopInv, Assembled, StreamOK, Streams
<1>2. d \in Nat /\ m \in Nat /\ index + d = i
  BY <1>1
<1>3. new = Bytes(i, m)
  <2>1. CASE d <= n
    <3>1. d \in 0 .. n
      BY <1>2, <2>1
    <3> HIDE DEF d
    <3>2. new = Bytes(index + d, n - d)
      BY <3>1, BytesDrop
    <3> QED BY <1>2, <2>1, <3>2
  <2>2. CASE ~(d <= n)
    <3>1. Bytes(index, n) \in Seq(Int) /\ Len(Bytes(index, n)) = n
      BY BytesSeq
    <3>2. d + 1 > n
      BY <1>2, <2>2
    <3>3. new = <<>>
      BY <1>2, <3>1, <3>2
    <3>4. m = 0 /\ Bytes(i, 0) = <<>>
      BY <1>1, <2>2, BytesEmpty
    <3> QED BY <3>3, <3>4, Zenon
  <2> QED BY <2>1, <2>2
<1>4. Len(Bytes(index, n)) = n
  BY BytesSeq
<1>5. t = [r EXCEPT !.output = Written(o, Bytes(i, m)), !.nidx = i + k]
  BY <1>3, <1>4, Zenon DEF Assemble
<1> HIDE DEF k, m
<1>6. /\ k \in Nat /\ k <= m /\ k <= o.capacity - Len(o.buf)
      /\ k = m \/ k = o.capacity - Len(o.buf)
      /\ Written(o, Bytes(i, m)) = Written(o, Bytes(i, k))
  <2>1. i \in Int /\ k = Accepted(o, Bytes(i, m))
    BY <1>1 DEF k
  <2> HIDE DEF o, i
  <2> QED BY <1>1, <1>2, <2>1, WrittenCut
<1> DEFINE w == Written(o, Bytes(i, k))
<1>7. t = [r EXCEPT !.output = w, !.nidx = i + k]
  BY <1>5, <1>6
<1> HIDE DEF w
<1>8. /\ t = [output |-> t.output, mp |-> t.mp, nidx |-> t.nidx, eof |-> t.eof,
              eidx |-> t.eidx, unassembled_bytes |-> t.unassembled_bytes]
      /\ t.output = w /\ t.mp = r.mp /\ t.nidx = i + k /\ t.eof = r.eof
      /\ t.eidx = r.eidx /\ t.unassembled_bytes = r.unassembled_bytes
  BY <1>7, Zenon DEF LoopInv
<1>9. t.nidx - i = k /\ t.nidx >= i /\ t.nidx \in Nat
  BY <1>1, <1>6, <1>8
<1>10. Advances(r, t)
  BY <1>6, <1>8, <1>9 DEF Advances, RemainingCapacity, w
<1>11. Assembled(t)
  BY <1>1, <1>10, AdvancesAssembled
<1>12. Held(t) = Held(r)
  BY <1>8 DEF Held, Span
<1>13. LoopInv(t)
  BY <1>1, <1>8, <1>11, <1>12 DEF LoopInv, Counted
<1>14. t.nidx <= index + n \/ t.nidx = i
  BY <1>1, <1>2, <1>6, <1>8 DEF m
<1>15. index + n <= Edge(r) => index + n <= t.nidx
  <2>1. Edge(r) = i + (o.capacity - Len(o.buf))
    BY DEF Edge, RemainingCapacity
  <2> HIDE DEF o, i
  <2> QED BY <1>1, <1>2, <1>6, <1>8, <2>1 DEF m, d
<1> QED BY <1>8, <1>10, <1>13, <1>14, <1>15

-----------------------------------------------------------------------------
(* Assembling what is stored. *)

\* The least of a set of natural numbers, and the greatest.
LEMMA MinIsLeast ==
  ASSUME NEW T \in SUBSET Nat, T # {}
  PROVE  Min(T) \in T /\ \A y \in T : Min(T) <= y
<1>1. \E x \in T : \A y \in T : x <= y
  BY LeastNatural
<1> QED BY <1>1, Zenon DEF Min

\* Every entry of _mp, and every byte before _nidx, is had.
LEMMA HaveNumbers ==
  ASSUME NEW r, LoopInv(r)
  PROVE  /\ r.nidx \in Nat /\ Edge(r) \in Nat /\ r.nidx <= Edge(r)
         /\ Held(r) \subseteq Nat /\ Have(r) \subseteq Nat
         /\ 0 .. r.nidx - 1 \subseteq Have(r)
         /\ Cardinality(DOMAIN r.mp) \in Nat
<1>1. Stored(r.mp) /\ Assembled(r)
  BY DEF LoopInv
<1>2. r.nidx \in Nat
  BY <1>1 DEF Assembled
<1>3. Advances(r, r)
  BY <1>1, AdvancesReflexive
<1>4. Edge(r) \in Nat /\ r.nidx <= Edge(r)
  BY <1>1, <1>3, AdvancesAssembled
<1>5. ASSUME NEW key \in DOMAIN r.mp PROVE Span(r, key) \subseteq Nat
  BY <1>1 DEF Stored, Span
<1>6. Held(r) \subseteq Nat
  BY <1>5 DEF Held
<1>7. Cardinality(DOMAIN r.mp) \in Nat
  BY <1>1, FS_CardinalityType DEF Stored
<1> QED BY <1>2, <1>4, <1>6, <1>7 DEF Have

\* One turn of the loop: the first entry is assembled as far as _output has room
\* and erased, or no entry is left that _nidx has reached.
LEMMA TakeInv ==
  ASSUME NEW s, LoopInv(s), NEW t, t = Take(s)
  PROVE  /\ LoopInv(t) /\ Advances(s, t) /\ Have(t) \subseteq Have(s)
         /\ DOMAIN t.mp \subseteq DOMAIN s.mp
         /\ Have(s) \subseteq 0 .. Edge(s) - 1 => Have(t) = Have(s)
         /\ \/ t = s /\ \A key \in DOMAIN s.mp : key > s.nidx
            \/ /\ Cardinality(DOMAIN t.mp) = Cardinality(DOMAIN s.mp) - 1
               /\ ~\A key \in DOMAIN s.mp : key > s.nidx
<1> DEFINE K   == DOMAIN s.mp
           key == Min(K)
<1>1. Stored(s.mp) /\ Assembled(s) /\ K \subseteq Nat /\ s.nidx \in Nat
  BY DEF LoopInv, Stored, Assembled
<1>2. K # {} => key \in K /\ \A k \in K : key <= k
  BY <1>1, MinIsLeast
<1>3. CASE K # {} /\ key <= s.nidx
  <2> DEFINE n == Len(s.mp[key])
             a == Assemble(s, s.mp[key], key)
  <2>1. key \in Nat /\ key \in K /\ n \in Nat /\ s.mp[key] = Bytes(key, n)
    BY <1>1, <1>2, <1>3 DEF Stored
  <2>2. t = Erase(a, key)
    BY <1>3 DEF Take
  <2> HIDE DEF key, n
  <2>3. a = Assemble(s, Bytes(key, n), key)
    BY <2>1
  <2> HIDE DEF a
  <2>4. /\ LoopInv(a) /\ Advances(s, a) /\ a.mp = s.mp
        /\ a.nidx <= key + n \/ a.nidx = s.nidx
        /\ key + n <= Edge(s) => key + n <= a.nidx
    BY <1>3, <2>1, <2>3, AssembleInv
  <2>5. /\ LoopInv(t)
        /\ t.output = a.output /\ t.nidx = a.nidx /\ t.eof = a.eof /\ t.eidx = a.eidx
        /\ DOMAIN t.mp = DOMAIN a.mp \ {key}
        /\ Held(t) = Held(a) \ Span(a, key)
        /\ Cardinality(DOMAIN t.mp) = Cardinality(DOMAIN a.mp) - 1
    BY <2>1, <2>2, <2>4, EraseInv
  <2>6. Advances(s, t)
    BY <2>4, <2>5 DEF Advances
  <2>7. Held(t) = Held(s) \ Span(s, key) /\ Span(s, key) = key .. key + n - 1
        /\ Span(s, key) \subseteq Held(s)
    <3>1. Held(a) = Held(s) /\ Span(a, key) = Span(s, key)
      BY <2>4 DEF Held, Span
    <3>2. Span(s, key) \subseteq Held(s)
      BY <1>1, <2>1, SpanSize
    <3> QED BY <2>5, <3>1, <3>2, Zenon DEF Span, n
  <2>8. t.nidx \in Nat /\ t.nidx >= s.nidx
    BY <2>6 DEF Advances
  <2>9. 0 .. t.nidx - 1 \subseteq (0 .. s.nidx - 1) \cup (key .. key + n - 1)
    BY <1>1, <1>3, <2>1, <2>4, <2>5, <2>8
  <2>10. Have(t) \subseteq Have(s)
    BY <2>7, <2>9 DEF Have
  <2>11. ASSUME Have(s) \subseteq 0 .. Edge(s) - 1 PROVE Have(t) = Have(s)
    <3>1. key .. key + n - 1 \subseteq 0 .. t.nidx - 1
      <4>1. CASE n = 0
        BY <2>1, <4>1
      <4>2. CASE n # 0
        <5>1. key + n - 1 \in Have(s)
          BY <2>1, <2>7, <4>2 DEF Have
        <5>2. key + n <= Edge(s)
          BY <2>1, <2>11, <5>1, HaveNumbers
        <5> QED BY <2>1, <2>4, <2>5, <2>8, <5>2
      <4> QED BY <4>1, <4>2
    <3>2. 0 .. s.nidx - 1 \subseteq 0 .. t.nidx - 1
      BY <1>1, <2>8
    <3>3. Have(s) \subseteq Have(t)
      BY <2>7, <3>1, <3>2 DEF Have
    <3> QED BY <2>10, <3>3
  <2>12. ~(key > s.nidx)
    BY <1>1, <1>3, <2>1
  <2>13. DOMAIN t.mp \subseteq DOMAIN s.mp
    BY <2>4, <2>5
  <2> QED BY <2>1, <2>4, <2>5, <2>6, <2>10, <2>11, <2>12, <2>13
<1>4. CASE ~(K # {} /\ key <= s.nidx)
  <2>1. t = s
    BY <1>4 DEF Take
  <2>2. \A k \in K : k > s.nidx
    <3>1. ASSUME NEW k \in K PROVE k > s.nidx
      <4>1. key \in K /\ key <= k
        BY <1>2
      <4>2. key \in Nat /\ k \in Nat /\ key > s.nidx
        BY <1>1, <1>4, <4>1
      <4> QED BY <1>1, <4>1, <4>2
    <3> QED BY <3>1
  <2>3. Advances(s, t)
    BY <1>1, <2>1, AdvancesReflexive
  <2> QED BY <2>1, <2>2, <2>3
<1> QED BY <1>3, <1>4

-----------------------------------------------------------------------------
(* Merging a substring with what is stored. *)

\* The q bytes from i on are the n bytes from i on and the m bytes from j on.
Joins(i, n, j, m, q) ==
  /\ Bytes(i, n) \o SubSeq(Bytes(j, m), i + n - j + 1, m) = Bytes(i, q)
  /\ i .. i + q - 1 = (i .. i + n - 1) \cup (j .. j + m - 1)
  /\ i + q = i + n \/ i + q = j + m

\* Two parts of the stream of which the second starts within, or right after, the
\* first are joined to one.
LEMMA MergedBytes ==
  ASSUME NEW i \in Nat, NEW n \in Nat, NEW j \in Nat, NEW m \in Nat, i <= j, j <= i + n
  PROVE  \E q \in Nat : Joins(i, n, j, m, q)
<1> DEFINE d == i + n - j
<1>1. d \in Nat /\ j + d = i + n /\ i \in Int /\ j \in Int
  OBVIOUS
<1>2. CASE d <= m
  <2> DEFINE a == i + n
             b == m - d
             q == n + b
  <2>1. d \in 0 .. m /\ b \in Nat /\ q \in Nat /\ j + d = a /\ i + q = j + m
    BY <1>2
  <2> HIDE DEF d, b
  <2>2. SubSeq(Bytes(j, m), d + 1, m) = Bytes(j + d, m - d)
    BY <1>1, <2>1, BytesDrop, Zenon
  <2>3. Bytes(i, n) \o Bytes(i + n, b) = Bytes(i, n + b)
    BY <1>1, <2>1, BytesConcat, Zenon
  <2>4. Bytes(i, n) \o SubSeq(Bytes(j, m), d + 1, m) = Bytes(i, q)
    BY <2>1, <2>2, <2>3, Zenon DEF b
  <2> HIDE DEF q
  <2>5. i .. i + q - 1 = (i .. i + n - 1) \cup (j .. j + m - 1)
    BY <2>1
  <2> QED BY <2>1, <2>4, <2>5, Zenon DEF d, Joins
<1>3. CASE ~(d <= m)
  <2>1. Bytes(j, m) \in Seq(Int) /\ Len(Bytes(j, m)) = m
    BY BytesSeq
  <2>2. SubSeq(Bytes(j, m), d + 1, m) = <<>>
    BY <1>1, <1>3, <2>1
  <2>3. Bytes(i, n) \in Seq(Int)
    BY BytesSeq
  <2>4. Bytes(i, n) \o SubSeq(Bytes(j, m), d + 1, m) = Bytes(i, n)
    BY <2>2, <2>3, ConcatEmptySeq, Zenon
  <2>5. i .. i + n - 1 = (i .. i + n - 1) \cup (j .. j + m - 1)
    BY <1>3
  <2> QED BY <2>4, <2>5 DEF Joins
<1> QED BY <1>2, <1>3

\* The greatest of a bounded set of natural numbers.
LEMMA MaxIsGreatest ==
  ASSUME NEW T \in SUBSET Nat, T # {}, NEW b \in Nat, \A y \in T : y <= b
  PROVE  Max(T) \in T /\ \A y \in T : y <= Max(T)
<1> DEFINE U == {u \in Nat : \A y \in T : y <= u}
<1>1. U \in SUBSET Nat /\ U # {}
  OBVIOUS
<1> HIDE DEF U
<1>2. PICK x \in U : \A y \in U : x <= y
  BY <1>1, LeastNatural
<1>3. x \in Nat /\ \A y \in T : y <= x
  BY DEF U
<1>4. x \in T
  <2> SUFFICES ASSUME x \notin T PROVE FALSE
    OBVIOUS
  <2>1. \A y \in T : y <= x - 1
    BY <1>3
  <2>2. x - 1 \in Nat
    <3>1. PICK y \in T : TRUE
      BY Zenon
    <3>2. y \in Nat /\ y <= x - 1
      BY <2>1
    <3> QED BY <1>3, <3>2
  <2>3. x - 1 \in U
    BY <2>1, <2>2 DEF U
  <2> QED BY <1>2, <1>3, <2>3
<1>5. \E z \in T : \A y \in T : z >= y
  BY <1>3, <1>4
<1>6. Max(T) \in T /\ \A y \in T : Max(T) >= y
  BY <1>5, Zenon DEF Max
<1> QED BY <1>6

\* What holds while w.str is merged.
WInv(w) ==
  /\ w = [index |-> w.index, str |-> w.str, r |-> w.r]
  /\ w.index \in Nat /\ Len(w.str) \in Nat /\ w.str = Bytes(w.index, Len(w.str))
  /\ RInv(w.r) /\ w.index > w.r.nidx

\* The indices of what is stored and of what is being merged.
All(w) == Held(w.r) \cup (w.index .. w.index + Len(w.str) - 1)

\* Merging changes nothing but _mp and the count.
Same(r, t) == t.output = r.output /\ t.nidx = r.nidx /\ t.eof = r.eof /\ t.eidx = r.eidx

\* No entry at or after w.str touches it.
ClearAfter(w) == \A key \in DOMAIN w.r.mp : key >= w.index => key > w.index + Len(w.str)

\* No entry before w.str touches it.
ClearBefore(w) == \A key \in DOMAIN w.r.mp : key < w.index => key + Len(w.r.mp[key]) < w.index

\* The keys of the entries, and where w.str starts.
Keys(w) == DOMAIN w.r.mp \cup {w.index}

\* Replacing an entry and w.str by their union q bytes long, from p on.
LEMMA MergeInv ==
  ASSUME NEW w, WInv(w), NEW key \in DOMAIN w.r.mp, NEW p \in Nat, NEW q \in Nat,
         p > w.r.nidx,
         p .. p + q - 1 = Span(w.r, key) \cup (w.index .. w.index + Len(w.str) - 1),
         NEW v, v = [index |-> p, str |-> Bytes(p, q), r |-> Erase(w.r, key)]
  PROVE  /\ WInv(v) /\ All(v) = All(w) /\ Same(w.r, v.r)
         /\ v.index = p /\ Len(v.str) = q
         /\ DOMAIN v.r.mp = DOMAIN w.r.mp \ {key}
         /\ \A k \in DOMAIN v.r.mp : v.r.mp[k] = w.r.mp[k]
         /\ Cardinality(DOMAIN v.r.mp) = Cardinality(DOMAIN w.r.mp) - 1
<1> DEFINE r == w.r
           e == Erase(r, key)
<1>1. LoopInv(r) /\ Stored(r.mp) /\ \A k \in DOMAIN r.mp : k > r.nidx
  BY DEF WInv, RInv, LoopInv
<1> HIDE DEF e
<1>2. /\ LoopInv(e)
      /\ e.output = r.output /\ e.nidx = r.nidx /\ e.eof = r.eof /\ e.eidx = r.eidx
      /\ DOMAIN e.mp = DOMAIN r.mp \ {key}
      /\ \A k \in DOMAIN e.mp : e.mp[k] = r.mp[k]
      /\ Held(e) = Held(r) \ Span(r, key)
      /\ Cardinality(DOMAIN e.mp) = Cardinality(DOMAIN r.mp) - 1
  BY <1>1, EraseInv DEF e
<1>3. v.index = p /\ v.str = Bytes(p, q) /\ v.r = e
  BY DEF e
<1>4. Len(Bytes(p, q)) = q
  BY BytesSeq
<1>5. RInv(e)
  BY <1>1, <1>2 DEF RInv
<1>6. v = [index |-> v.index, str |-> v.str, r |-> v.r]
  BY <1>3 DEF e
<1>7. WInv(v)
  BY <1>2, <1>3, <1>4, <1>5, <1>6 DEF WInv
<1>8. Span(r, key) \subseteq Held(r)
  BY <1>1, SpanSize
<1>9. All(v) = All(w)
  BY <1>2, <1>3, <1>4, <1>8 DEF All
<1> QED BY <1>2, <1>3, <1>4, <1>7, <1>9, Zenon DEF Same

\* One turn of the loop over the entries after w.str.
LEMMA AbsorbInv ==
  ASSUME NEW w, WInv(w), NEW v, v = Absorb(w)
  PROVE  /\ WInv(v) /\ All(v) = All(w) /\ Same(w.r, v.r) /\ v.index = w.index
         /\ Keys(v) \subseteq Keys(w)
         /\ \/ v = w /\ ClearAfter(w)
            \/ /\ Cardinality(DOMAIN v.r.mp) = Cardinality(DOMAIN w.r.mp) - 1
               /\ ~ClearAfter(w)
<1> DEFINE r     == w.r
           i     == w.index
           n     == Len(w.str)
           after == {key \in DOMAIN r.mp : key >= i}
           key   == Min(after)
           next  == r.mp[key]
           m     == Len(next)
<1>1. /\ LoopInv(r) /\ Stored(r.mp) /\ DOMAIN r.mp \subseteq Nat /\ i \in Nat /\ n \in Nat
      /\ w.str = Bytes(i, n) /\ i > r.nidx
  BY DEF WInv, RInv, LoopInv, Stored
<1>2. after # {} => key \in after /\ \A k \in after : key <= k
  BY <1>1, MinIsLeast, Zenon
<1>3. CASE after # {} /\ key <= i + n
  <2>1. key \in DOMAIN r.mp /\ key \in Nat /\ key >= i /\ m \in Nat /\ next = Bytes(key, m)
    BY <1>1, <1>2, <1>3, Zenon DEF Stored
  <2>2. v = [index |-> i, str |-> w.str \o SubSeq(next, i + n - key + 1, m),
             r |-> Erase(r, key)]
    BY <1>3, Zenon DEF Absorb, Touches
  <2> HIDE DEF key, next, m
  <2>3. PICK q \in Nat : Joins(i, n, key, m, q)
    <3>1. i \in Nat /\ n \in Nat /\ key \in Nat /\ m \in Nat /\ i <= key /\ key <= i + n
      BY <1>1, <1>3, <2>1
    <3> HIDE DEF i, n
    <3> QED BY <3>1, MergedBytes
  <2>4. v = [index |-> i, str |-> Bytes(i, q), r |-> Erase(r, key)]
    BY <1>1, <2>1, <2>2, <2>3, Zenon DEF Joins
  <2>5. Span(r, key) = key .. key + m - 1
    BY DEF Span, m, next
  <2>6. /\ WInv(v) /\ All(v) = All(w) /\ Same(w.r, v.r) /\ v.index = i
        /\ DOMAIN v.r.mp = DOMAIN r.mp \ {key}
        /\ Cardinality(DOMAIN v.r.mp) = Cardinality(DOMAIN r.mp) - 1
    <3>1. i .. i + q - 1 = Span(w.r, key) \cup (w.index .. w.index + Len(w.str) - 1)
      BY <2>3, <2>5 DEF Joins
    <3>2. i \in Nat /\ i > w.r.nidx /\ key \in DOMAIN w.r.mp
      BY <1>1, <2>1
    <3> HIDE DEF i
    <3> QED BY <2>4, <3>1, <3>2, MergeInv
  <2>7. ~(key > i + n)
    BY <1>1, <1>3, <2>1
  <2>8. ~ClearAfter(w)
    BY <2>1, <2>7 DEF ClearAfter
  <2>9. Keys(v) \subseteq Keys(w)
    BY <2>6 DEF Keys
  <2> QED BY <2>6, <2>8, <2>9
<1>4. CASE ~(after # {} /\ key <= i + n)
  <2>1. v = w
    BY <1>4, Zenon DEF Absorb, Touches
  <2>2. ASSUME NEW k \in DOMAIN r.mp, k >= i PROVE k > i + n
    <3>1. key \in after /\ key <= k
      BY <1>2, <2>2
    <3>2. key \in Nat /\ k \in Nat /\ ~(key <= i + n)
      BY <1>1, <1>4, <3>1, Zenon
    <3> HIDE DEF key, i, n
    <3> QED BY <1>1, <3>1, <3>2
  <2>3. ClearAfter(w)
    BY <2>2 DEF ClearAfter
  <2> QED BY <2>1, <2>3 DEF Same
<1> QED BY <1>3, <1>4

\* The last entry before w.str is merged if it reaches it: afterwards w.str touches
\* no entry.
LEMMA JoinLastInv ==
  ASSUME NEW w, WInv(w), ClearAfter(w), NEW v, v = JoinLast(w)
  PROVE  /\ WInv(v) /\ All(v) = All(w) /\ Same(w.r, v.r)
         /\ ClearAfter(v) /\ ClearBefore(v) /\ Keys(v) \subseteq Keys(w)
<1> DEFINE r      == w.r
           i      == w.index
           n      == Len(w.str)
           before == {key \in DOMAIN r.mp : key < i}
           key    == Max(before)
           last   == r.mp[key]
           m      == Len(last)
<1>1. /\ LoopInv(r) /\ Stored(r.mp) /\ DOMAIN r.mp \subseteq Nat /\ i \in Nat /\ n \in Nat
      /\ w.str = Bytes(i, n) /\ i > r.nidx /\ r.nidx \in Nat
      /\ \A k \in DOMAIN r.mp : k > r.nidx
  BY DEF WInv, RInv, LoopInv, Stored, Assembled
<1>2. before # {} => key \in before /\ \A k \in before : k <= key
  <2>1. before \in SUBSET Nat /\ \A k \in before : k <= i
    BY <1>1
  <2> HIDE DEF before, i
  <2> QED BY <1>1, <2>1, MaxIsGreatest, Zenon
<1>3. CASE before # {} /\ key + m >= i
  <2>1. /\ key \in DOMAIN r.mp /\ key \in Nat /\ key < i /\ m \in Nat /\ last = Bytes(key, m)
        /\ key > r.nidx
    BY <1>1, <1>2, <1>3, Zenon DEF Stored
  <2>2. v = [index |-> key, str |-> last \o SubSeq(w.str, (key + m) - i + 1, n),
             r |-> Erase(r, key)]
    BY <1>3, Zenon DEF JoinLast
  <2> HIDE DEF key, last, m
  <2>3. PICK q \in Nat : Joins(key, m, i, n, q)
    <3>1. i \in Nat /\ n \in Nat /\ key \in Nat /\ m \in Nat /\ key <= i /\ i <= key + m
      BY <1>1, <1>3, <2>1
    <3> HIDE DEF i, n
    <3> QED BY <3>1, MergedBytes
  <2>4. v = [index |-> key, str |-> Bytes(key, q), r |-> Erase(r, key)]
    <3>1. (key + m) - i + 1 = key + m - i + 1
      BY <1>1, <2>1
    <3> QED BY <1>1, <2>1, <2>2, <2>3, <3>1, Zenon DEF Joins
  <2>5. Span(r, key) = key .. key + m - 1
    BY DEF Span, m, last
  <2>6. /\ WInv(v) /\ All(v) = All(w) /\ Same(w.r, v.r) /\ v.index = key /\ Len(v.str) = q
        /\ DOMAIN v.r.mp = DOMAIN r.mp \ {key}
        /\ \A k \in DOMAIN v.r.mp : v.r.mp[k] = r.mp[k]
    <3>1. key .. key + q - 1 = Span(w.r, key) \cup (w.index .. w.index + Len(w.str) - 1)
      BY <2>3, <2>5 DEF Joins
    <3>2. key \in DOMAIN w.r.mp /\ key > w.r.nidx
      BY <2>1
    <3> QED BY <2>1, <2>4, <3>1, <3>2, MergeInv
  <2>7. key + q = key + m \/ key + q = i + n
    BY <2>3 DEF Joins
  <2>8. ASSUME NEW k \in DOMAIN v.r.mp, k >= key
        PROVE  k > key + q
    <3>1. k \in DOMAIN r.mp /\ k \in Nat /\ k > key
      BY <1>1, <2>1, <2>6, <2>8
    <3>2. k > key + m
      BY <1>1, <2>1, <3>1 DEF Stored, m, last
    <3>3. k >= i
      BY <1>1, <1>3, <2>1, <3>1, <3>2
    <3>4. k > i + n
      BY <3>1, <3>3 DEF ClearAfter
    <3> QED BY <2>7, <3>2, <3>4
  <2>9. ClearAfter(v)
    BY <2>6, <2>8 DEF ClearAfter
  <2>10. ASSUME NEW k \in DOMAIN v.r.mp, k < key
         PROVE  k + Len(v.r.mp[k]) < key
    <3>1. k \in DOMAIN r.mp /\ v.r.mp[k] = r.mp[k]
      BY <2>6
    <3> QED BY <1>1, <2>1, <2>10, <3>1 DEF Stored
  <2>11. ClearBefore(v)
    BY <2>6, <2>10 DEF ClearBefore
  <2>12. Keys(v) \subseteq Keys(w)
    BY <2>1, <2>6 DEF Keys
  <2> QED BY <2>6, <2>9, <2>11, <2>12
<1>4. CASE ~(before # {} /\ key + m >= i)
  <2>1. v = w
    BY <1>4, Zenon DEF JoinLast
  <2>2. ASSUME NEW k \in DOMAIN r.mp, k < i PROVE k + Len(r.mp[k]) < i
    <3>1. k \in before
      BY <2>2
    <3>2. key \in DOMAIN r.mp /\ k <= key /\ key \in Nat /\ k \in Nat /\ key < i
      BY <1>1, <1>2, <3>1, Zenon
    <3>3. m \in Nat /\ ~(key + m >= i)
      BY <1>1, <1>4, <3>1, <3>2 DEF Stored
    <3>4. CASE k = key
      BY <1>1, <3>2, <3>3, <3>4
    <3>5. CASE k # key
      <4>1. k < key
        <5> HIDE DEF key
        <5> QED BY <3>2, <3>5
      <4>2. k + Len(r.mp[k]) < key /\ Len(r.mp[k]) \in Nat
        BY <1>1, <3>2, <4>1 DEF Stored
      <4> HIDE DEF key, i
      <4> QED BY <1>1, <3>2, <4>2
    <3> QED BY <3>4, <3>5
  <2>3. ClearBefore(w)
    BY <2>2 DEF ClearBefore
  <2> QED BY <2>1, <2>3 DEF Same
<1> QED BY <1>3, <1>4

\* What touches no entry is stored as an entry of its own, as far as there is room.
LEMMA KeepInv ==
  ASSUME NEW w, WInv(w), ClearAfter(w), ClearBefore(w), NEW t, t = Keep(w)
  PROVE  /\ RInv(t) /\ Same(w.r, t) /\ Held(t) \subseteq All(w) /\ DOMAIN t.mp = Keys(w)
         /\ All(w) \subseteq 0 .. Edge(w.r) - 1 => Held(t) = All(w)
<1> DEFINE r    == w.r
           i    == w.index
           l    == Len(w.str)
           K    == DOMAIN r.mp
           room == r.output.capacity - r.unassembled_bytes - Len(r.output.buf)
           n    == StoreSize(room, w.str)
           mp   == emplace(r.mp, i, SubSeq(w.str, 1, n))
           u    == r.unassembled_bytes + n
           I    == i .. i + n - 1
           H    == Held(r)
<1>1. /\ LoopInv(r) /\ Stored(r.mp) /\ Assembled(r) /\ Counted(r)
      /\ K \subseteq Nat /\ i \in Nat /\ l \in Nat
      /\ w.str = Bytes(i, l) /\ i > r.nidx /\ r.nidx \in Nat
      /\ \A k \in K : k > r.nidx
      /\ \A k \in K : Len(r.mp[k]) \in Nat
  BY DEF WInv, RInv, LoopInv, Stored, Assembled
<1>2. /\ r.output.capacity \in Nat /\ Len(r.output.buf) \in Nat
      /\ r.unassembled_bytes \in Nat /\ room \in Int
  BY <1>1, LenProperties DEF Assembled, StreamOK, Streams, Counted
<1>3. n \in 0 .. l /\ n \in Nat /\ (room >= l => n = l)
  <2> HIDE DEF room
  <2> QED BY <1>1, <1>2 DEF StoreSize, min
<1>4. t = [r EXCEPT !.unassembled_bytes = u, !.mp = mp]
  BY DEF Keep
<1>5. SubSeq(w.str, 1, n) = Bytes(i, n)
  <2>1. i \in Int
    BY <1>1
  <2> HIDE DEF n, i, l
  <2> QED BY <1>1, <1>3, <2>1, BytesTake, Zenon
<1>6. \A k \in K : k < i => k + Len(r.mp[k]) < i
  BY DEF ClearBefore
<1>7. \A k \in K : k >= i => k > i + l
  BY DEF ClearAfter
<1>8. i \notin K
  BY <1>1, <1>7
<1> HIDE DEF n, room
<1>9. /\ mp = [k \in K \cup {i} |-> IF k \in K THEN r.mp[k] ELSE Bytes(i, n)]
  BY <1>5, Zenon DEF emplace
<1> HIDE DEF mp, u, r, i, l
<1>10. /\ DOMAIN mp = K \cup {i} /\ mp[i] = Bytes(i, n) /\ \A k \in K : mp[k] = r.mp[k]
  BY <1>8, <1>9
<1>11. Len(mp[i]) = n
  BY <1>1, <1>3, <1>10, BytesSeq
<1>12. Stored(mp)
  <2>1. IsFiniteSet(K \cup {i})
    <3>1. IsFiniteSet(K)
      BY <1>1 DEF Stored
    <3> HIDE DEF K
    <3> QED BY <3>1, FS_AddElement
  <2>2. mp = [k \in DOMAIN mp |-> mp[k]]
    BY <1>9, <1>10
  <2>3. \A k \in DOMAIN mp : Len(mp[k]) \in Nat /\ mp[k] = Bytes(k, Len(mp[k]))
    BY <1>1, <1>3, <1>10, <1>11 DEF Stored
  <2>4. ASSUME NEW k1 \in DOMAIN mp, NEW k2 \in DOMAIN mp, k1 < k2
        PROVE  k1 + Len(mp[k1]) < k2
    <3>1. CASE k1 \in K /\ k2 \in K
      BY <1>1, <1>10, <2>4, <3>1 DEF Stored
    <3>2. CASE k1 \in K /\ k2 = i
      BY <1>6, <1>10, <2>4, <3>2
    <3>3. CASE k1 = i /\ k2 \in K
      <4>1. k2 \in Nat /\ k2 > i + l
        BY <1>1, <1>7, <2>4, <3>3
      <4> QED BY <1>1, <1>3, <1>11, <3>3, <4>1
    <3>4. CASE k1 = i /\ k2 = i
      BY <1>1, <2>4, <3>4
    <3> QED BY <1>10, <3>1, <3>2, <3>3, <3>4
  <2>5. DOMAIN mp \subseteq Nat
    BY <1>1, <1>10
  <2> QED BY <1>10, <2>1, <2>2, <2>3, <2>4, <2>5 DEF Stored
<1>13. /\ t = [output |-> t.output, mp |-> t.mp, nidx |-> t.nidx, eof |-> t.eof,
               eidx |-> t.eidx, unassembled_bytes |-> t.unassembled_bytes]
       /\ t.output = r.output /\ t.mp = mp /\ t.nidx = r.nidx /\ t.eof = r.eof
       /\ t.eidx = r.eidx /\ t.unassembled_bytes = u
  BY <1>1, <1>4, Zenon DEF LoopInv
<1>14. Held(t) = H \cup I
  <2>1. \A k \in K : Span(t, k) = Span(r, k)
    BY <1>10, <1>13 DEF Span
  <2>2. Span(t, i) = I
    BY <1>11, <1>13 DEF Span
  <2>3. Held(t) = UNION {Span(t, k) : k \in K \cup {i}}
    BY <1>10, <1>13 DEF Held
  <2>4. H = UNION {Span(r, k) : k \in K}
    BY DEF Held
  <2> QED BY <2>1, <2>2, <2>3, <2>4, Zenon
<1>15. H \cap (i .. i + l - 1) = {}
  <2>1. ASSUME NEW k \in K PROVE Span(r, k) \cap (i .. i + l - 1) = {}
    <3>1. k \in Nat /\ Len(r.mp[k]) \in Nat
      BY <1>1
    <3>2. k + Len(r.mp[k]) < i \/ k > i + l
      BY <1>1, <1>6, <1>7, <3>1
    <3> QED BY <1>1, <3>1, <3>2 DEF Span
  <2> QED BY <2>1 DEF Held
<1>16. IsFiniteSet(H) /\ r.unassembled_bytes = Cardinality(H) /\ Cardinality(H) \in Nat
  BY <1>1, FS_CardinalityType DEF Counted
<1>17. I \subseteq i .. i + l - 1
  BY <1>1, <1>3
<1>18. ASSUME NEW k \in Nat
       PROVE  IsFiniteSet(i .. i + k - 1) /\ Cardinality(i .. i + k - 1) = k
  <2> DEFINE e == i + k - 1
  <2>1. e \in Int /\ i \in Int /\ (i > e <=> k = 0) /\ (k # 0 => e - i + 1 = k)
    BY <1>1
  <2> HIDE DEF e
  <2>2. IsFiniteSet(i .. e) /\ Cardinality(i .. e) = IF i > e THEN 0 ELSE e - i + 1
    BY <2>1, FS_Interval
  <2> QED BY <2>1, <2>2 DEF e
<1>19. Counted(t)
  <2>1. IsFiniteSet(I) /\ Cardinality(I) = n
    BY <1>3, <1>18
  <2>2. H \cap I = {}
    BY <1>15, <1>17
  <2> HIDE DEF H, I
  <2>3. /\ IsFiniteSet(H \cup I)
        /\ Cardinality(H \cup I) = Cardinality(H) + Cardinality(I) - Cardinality(H \cap I)
    BY <1>16, <2>1, FS_Union
  <2>4. Cardinality(H \cap I) = 0
    BY <2>2, FS_EmptySet
  <2>5. Cardinality(H \cup I) = u /\ u \in Nat
    BY <1>3, <1>16, <2>1, <2>3, <2>4 DEF u
  <2> QED BY <1>13, <1>14, <2>3, <2>5 DEF Counted
<1>20. Assembled(t)
  BY <1>1, <1>13 DEF Assembled
<1>21. RInv(t)
  <2>1. \A k \in DOMAIN t.mp : k > t.nidx
    BY <1>1, <1>10, <1>13
  <2> QED BY <1>12, <1>13, <1>19, <1>20, <2>1 DEF RInv, LoopInv
<1>22. Same(w.r, t)
  BY <1>13 DEF Same, r
<1>23. All(w) = H \cup (i .. i + l - 1)
  BY DEF All, H, r, i, l
<1>24. Held(t) \subseteq All(w)
  BY <1>14, <1>17, <1>23
<1>25. ASSUME All(w) \subseteq 0 .. Edge(w.r) - 1 PROVE Held(t) = All(w)
  <2> DEFINE L == i .. i + l - 1
             E == Edge(r)
             W == (r.nidx + 1) .. E - 1
  <2>1. E \in Nat /\ r.nidx <= E /\ E = r.nidx + (r.output.capacity - Len(r.output.buf))
    BY <1>1, HaveNumbers DEF Edge, RemainingCapacity
  <2>2. H \cup L \subseteq W
    <3>1. ASSUME NEW x \in H \cup L PROVE x \in Nat /\ x > r.nidx
      <4>1. CASE x \in H
        <5>1. PICK k \in K : x \in Span(r, k)
          BY <4>1 DEF Held
        <5> QED BY <1>1, <5>1 DEF Span
      <4>2. CASE x \in L
        BY <1>1, <4>2
      <4> QED BY <4>1, <4>2
    <3>2. H \cup L \subseteq 0 .. E - 1
      BY <1>23, <1>25 DEF r
    <3> QED BY <1>1, <2>1, <3>1, <3>2
  <2>3. IsFiniteSet(L) /\ Cardinality(L) = l
    BY <1>1, <1>18, Zenon
  <2>4. H \cap L = {}
    BY <1>15
  <2>5. IsFiniteSet(W) /\ Cardinality(W) <= E - r.nidx
    <3> DEFINE a == r.nidx + 1
               b == E - 1
    <3> HIDE DEF E
    <3>1. a \in Int /\ b \in Int /\ (a > b \/ b - a + 1 <= E - r.nidx) /\ 0 <= E - r.nidx
      BY <1>1, <2>1
    <3> HIDE DEF a, b
    <3>2. IsFiniteSet(a .. b) /\ Cardinality(a .. b) = IF a > b THEN 0 ELSE b - a + 1
      BY <3>1, FS_Interval
    <3> QED BY <3>1, <3>2 DEF a, b
  <2> HIDE DEF H, L, W, E
  <2>6. /\ IsFiniteSet(H \cup L)
        /\ Cardinality(H \cup L) = Cardinality(H) + Cardinality(L) - Cardinality(H \cap L)
    BY <1>16, <2>3, FS_Union
  <2>7. Cardinality(H \cap L) = 0
    BY <2>4, FS_EmptySet
  <2>8. Cardinality(H \cup L) <= Cardinality(W) /\ Cardinality(W) \in Nat
    BY <2>2, <2>5, FS_Subset, FS_CardinalityType
  <2>9. r.unassembled_bytes + l <= r.output.capacity - Len(r.output.buf)
    <3> DEFINE x == Cardinality(H \cup L)
               y == Cardinality(W)
               z == r.output.capacity - Len(r.output.buf)
    <3>1. x = r.unassembled_bytes + l
      BY <1>1, <1>2, <1>16, <2>3, <2>6, <2>7
    <3>2. y \in Nat /\ x <= y /\ y <= E - r.nidx
      BY <2>5, <2>8
    <3>3. E - r.nidx = z /\ z \in Int
      BY <1>1, <1>2, <2>1
    <3>4. r.unassembled_bytes + l \in Nat
      BY <1>1, <1>2
    <3> HIDE DEF x, y, z
    <3>5. r.unassembled_bytes + l <= z
      BY <3>1, <3>2, <3>3, <3>4
    <3> QED BY <3>5 DEF z
  <2>10. room >= l
    BY <1>1, <1>2, <2>9 DEF room
  <2>11. n = l
    BY <1>3, <2>10
  <2> QED BY <1>14, <1>23, <2>11
<1>26. DOMAIN t.mp = Keys(w)
  BY <1>10, <1>13 DEF Keys, r, i
<1> QED BY <1>21, <1>22, <1>24, <1>25, <1>26

-----------------------------------------------------------------------------
(* The end of the stream, the reader and the constructor. *)

\* _output after push_substring, which left the members as in t: o is what was
\* written to it.
Finished(o, t) == IF Complete(t) THEN Ended(o) ELSE o

\* Noting where the stream ends changes nothing else.
LEMMA MarkInv ==
  ASSUME NEW r, RInv(r), NEW e, NEW t, t = Mark(r, e)
  PROVE  /\ RInv(t) /\ Have(t) = Have(r) /\ Edge(t) = Edge(r)
         /\ t.output = r.output /\ t.mp = r.mp /\ t.nidx = r.nidx
         /\ t.eof /\ t.eof \in BOOLEAN /\ t.eidx = e
<1> DEFINE yes == TRUE
<1>1. LoopInv(r) /\ yes \in BOOLEAN /\ yes
  BY DEF RInv
<1>2. t = [r EXCEPT !.eidx = e, !.eof = yes]
  BY DEF Mark
<1> HIDE DEF yes
<1>3. /\ t = [output |-> t.output, mp |-> t.mp, nidx |-> t.nidx, eof |-> t.eof,
              eidx |-> t.eidx, unassembled_bytes |-> t.unassembled_bytes]
      /\ t.output = r.output /\ t.mp = r.mp /\ t.nidx = r.nidx
      /\ t.unassembled_bytes = r.unassembled_bytes /\ t.eof = yes /\ t.eidx = e
  <2>1. r = [output |-> r.output, mp |-> r.mp, nidx |-> r.nidx, eof |-> r.eof,
             eidx |-> r.eidx, unassembled_bytes |-> r.unassembled_bytes]
    BY <1>1 DEF LoopInv
  <2> DEFINE v == [r EXCEPT !.eidx = e]
  <2>2. /\ v = [output |-> v.output, mp |-> v.mp, nidx |-> v.nidx, eof |-> v.eof,
                eidx |-> v.eidx, unassembled_bytes |-> v.unassembled_bytes]
        /\ v.output = r.output /\ v.mp = r.mp /\ v.nidx = r.nidx
        /\ v.unassembled_bytes = r.unassembled_bytes /\ v.eidx = e
    BY <2>1
  <2>3. t = [v EXCEPT !.eof = yes]
    BY <1>2
  <2> HIDE DEF v
  <2>4. /\ t = [output |-> t.output, mp |-> t.mp, nidx |-> t.nidx, eof |-> t.eof,
                eidx |-> t.eidx, unassembled_bytes |-> t.unassembled_bytes]
        /\ t.output = v.output /\ t.mp = v.mp /\ t.nidx = v.nidx
        /\ t.unassembled_bytes = v.unassembled_bytes /\ t.eof = yes /\ t.eidx = v.eidx
    BY <2>2, <2>3
  <2> QED BY <2>2, <2>4
<1>4. t.eof /\ t.eof \in BOOLEAN
  BY <1>1, <1>3, Zenon
<1>5. Held(t) = Held(r) /\ Have(t) = Have(r) /\ Edge(t) = Edge(r)
  BY <1>3 DEF Held, Span, Have, Edge
<1>6. RInv(t)
  BY <1>3, <1>5 DEF RInv, LoopInv, Assembled, Counted
<1> QED BY <1>3, <1>4, <1>5, <1>6

\* Ending _output changes nothing else.
LEMMA FinishInv ==
  ASSUME NEW p, RInv(p), NEW t, t = Finish(p)
  PROVE  /\ RInv(t) /\ Have(t) = Have(p) /\ Edge(t) = Edge(p)
         /\ t.mp = p.mp /\ t.nidx = p.nidx /\ t.eof = p.eof /\ t.eidx = p.eidx
         /\ t.output = Finished(p.output, t)
         /\ t.output.capacity = p.output.capacity
         /\ Complete(t) => t.output.ended
         /\ ~Complete(t) => t.output.ended = p.output.ended
<1> DEFINE o == Ended(p.output)
<1>1. LoopInv(p) /\ Assembled(p)
  BY DEF RInv, LoopInv
<1>2. /\ StreamOK(o) /\ o.ended /\ o.buf = p.output.buf /\ o.capacity = p.output.capacity
      /\ o.written = p.output.written
  BY <1>1, EndedOK DEF Assembled
<1>3. t = IF Complete(p) THEN [p EXCEPT !.output = o] ELSE p
  BY DEF Finish
<1> HIDE DEF o
<1>4. /\ t = [output |-> t.output, mp |-> t.mp, nidx |-> t.nidx, eof |-> t.eof,
              eidx |-> t.eidx, unassembled_bytes |-> t.unassembled_bytes]
      /\ t.mp = p.mp /\ t.nidx = p.nidx /\ t.eof = p.eof /\ t.eidx = p.eidx
      /\ t.unassembled_bytes = p.unassembled_bytes
      /\ Complete(p) => t.output = o
      /\ ~Complete(p) => t.output = p.output
  BY <1>1, <1>3 DEF LoopInv
<1>5. Complete(t) <=> Complete(p)
  BY <1>4 DEF Complete
<1>6. /\ StreamOK(t.output) /\ t.output.buf = p.output.buf
      /\ t.output.capacity = p.output.capacity /\ t.output.written = p.output.written
      /\ Complete(t) => t.output.ended
      /\ ~Complete(t) => t.output.ended = p.output.ended
  BY <1>1, <1>2, <1>4, <1>5 DEF Assembled
<1>7. Held(t) = Held(p) /\ Have(t) = Have(p) /\ Edge(t) = Edge(p)
  BY <1>4, <1>6 DEF Held, Span, Have, Edge, RemainingCapacity
<1>8. Assembled(t)
  BY <1>1, <1>4, <1>6 DEF Assembled
<1>9. RInv(t)
  BY <1>4, <1>7, <1>8 DEF RInv, LoopInv, Counted
<1>10. t.output = Finished(p.output, t)
  BY <1>4, <1>5 DEF Finished, o
<1> QED BY <1>4, <1>6, <1>7, <1>9, <1>10

\* A reader takes bytes that are assembled: the window moves right.
LEMMA ReadInv ==
  ASSUME NEW r, RInv(r), NEW len \in Nat, len <= Len(r.output.buf),
         NEW t, t = [r EXCEPT !.output = Popped(@, len)]
  PROVE  /\ RInv(t) /\ Edge(t) = Edge(r) + len /\ Have(t) = Have(r)
         /\ t.mp = r.mp /\ t.nidx = r.nidx /\ t.eof = r.eof /\ t.eidx = r.eidx
         /\ t.output = Popped(r.output, len)
         /\ t.output.ended = r.output.ended /\ t.output.capacity = r.output.capacity
<1> DEFINE o == Popped(r.output, len)
           b == Len(r.output.buf)
           i == r.nidx - b
<1>1. /\ LoopInv(r) /\ Assembled(r) /\ StreamOK(r.output) /\ b \in Nat /\ r.nidx \in Nat
      /\ i \in Int /\ b <= r.nidx /\ r.output.buf = Bytes(i, b) /\ r.output.capacity \in Nat
  BY LenProperties DEF RInv, LoopInv, Assembled, StreamOK, Streams
<1> HIDE DEF i
<1>2. StreamOK(o) /\ o.buf = Bytes(i + len, b - len)
      /\ o.written = r.output.written /\ o.ended = r.output.ended
      /\ o.capacity = r.output.capacity
  BY <1>1, PoppedBytes
<1>3. Len(o.buf) = b - len
  <2> DEFINE j == i + len
             m == b - len
  <2>1. j \in Int /\ m \in Nat
    <3>1. i \in Int /\ b \in Nat /\ len <= b
      BY <1>1
    <3> HIDE DEF b
    <3> QED BY <3>1
  <2> HIDE DEF j, m
  <2>2. Len(Bytes(j, m)) = m
    BY <2>1, BytesSeq
  <2> QED BY <1>2, <2>2 DEF j, m
<1>4. t = [r EXCEPT !.output = o]
  OBVIOUS
<1> HIDE DEF o
<1>5. /\ t = [output |-> t.output, mp |-> t.mp, nidx |-> t.nidx, eof |-> t.eof,
              eidx |-> t.eidx, unassembled_bytes |-> t.unassembled_bytes]
      /\ t.output = o /\ t.mp = r.mp /\ t.nidx = r.nidx /\ t.eof = r.eof
      /\ t.eidx = r.eidx /\ t.unassembled_bytes = r.unassembled_bytes
  BY <1>1, <1>4 DEF LoopInv
<1>6. i + len = r.nidx - Len(o.buf) /\ Len(o.buf) <= r.nidx
  BY <1>1, <1>3 DEF i
<1>7. Assembled(t)
  BY <1>1, <1>2, <1>3, <1>5, <1>6 DEF Assembled
<1>8. Held(t) = Held(r) /\ Have(t) = Have(r)
  BY <1>5 DEF Held, Span, Have
<1>9. Edge(t) = Edge(r) + len
  BY <1>1, <1>2, <1>3, <1>5, SMTT(30) DEF Edge, RemainingCapacity
<1>10. RInv(t)
  BY <1>5, <1>7, <1>8 DEF RInv, LoopInv, Counted
<1> QED BY <1>2, <1>5, <1>8, <1>9, <1>10 DEF o

\* A new reassembler holds nothing.
LEMMA NewReassemblerInv ==
  ASSUME NEW c \in Nat
  PROVE  /\ RInv(NewReassembler(c)) /\ Have(NewReassembler(c)) = {}
         /\ ~NewReassembler(c).output.ended
<1> DEFINE r  == NewReassembler(c)
           no == FALSE
<1>1. StreamOK(NewStream(c)) /\ NewStream(c).buf = <<>> /\ NewStream(c).written = 0
      /\ ~NewStream(c).ended
  BY NewStreamOK DEF NewStream
<1>2. r = [output |-> NewStream(c), mp |-> <<>>, nidx |-> 0, eof |-> no, eidx |-> 0,
           unassembled_bytes |-> 0]
  BY DEF NewReassembler
<1> HIDE DEF r, no
<1>3. /\ r = [output |-> r.output, mp |-> r.mp, nidx |-> r.nidx, eof |-> r.eof,
              eidx |-> r.eidx, unassembled_bytes |-> r.unassembled_bytes]
      /\ r.output = NewStream(c) /\ r.mp = <<>> /\ r.nidx = 0 /\ r.unassembled_bytes = 0
  BY <1>2
<1>4. DOMAIN r.mp = {} /\ r.mp = [key \in DOMAIN r.mp |-> r.mp[key]]
  BY <1>3
<1>5. IsFiniteSet({}) /\ Cardinality({}) = 0
  BY FS_EmptySet
<1>6. Held(r) = {} /\ Have(r) = {}
  BY <1>3, <1>4 DEF Held, Have
<1>7. Stored(r.mp)
  BY <1>4, <1>5 DEF Stored
<1>8. Counted(r)
  BY <1>3, <1>5, <1>6 DEF Counted
<1>9. Assembled(r)
  <2> DEFINE z == 0
  <2>1. Len(<<>>) = z /\ Bytes(z, z) = <<>> /\ z - z = z /\ z <= z /\ z \in Nat
    BY BytesEmpty
  <2>2. z % UIntMod = z
    BY UIntAssumption, ModSmall
  <2> HIDE DEF z
  <2>3. r.nidx = z /\ r.output.written = z
    BY <1>1, <1>3 DEF z
  <2> QED BY <1>1, <1>3, <2>1, <2>2, <2>3 DEF Assembled
<1> QED BY <1>1, <1>3, <1>4, <1>6, <1>7, <1>8, <1>9 DEF RInv, LoopInv, r

-----------------------------------------------------------------------------
(* The loops. *)

DrainLoop == INSTANCE Iteration WITH Step <- Take

\* The whole loop: it stops because every turn erases an entry, and it leaves
\* nothing in _mp that _nidx has reached.
LEMMA DrainInv ==
  ASSUME NEW s, LoopInv(s), NEW t, t = Drain(s)
  PROVE  /\ RInv(t) /\ Advances(s, t) /\ Have(t) \subseteq Have(s)
         /\ DOMAIN t.mp \subseteq DOMAIN s.mp
         /\ Have(s) \subseteq 0 .. Edge(s) - 1 => Have(t) = Have(s)
<1> DEFINE turn    == DrainLoop!Iterate(s)
           N(k)    == Cardinality(DOMAIN turn[k].mp)
           Done(k) == \A key \in DOMAIN turn[k].mp : key > turn[k].nidx
           Good(k) == /\ LoopInv(turn[k]) /\ Advances(s, turn[k])
                      /\ Have(turn[k]) \subseteq Have(s)
                      /\ DOMAIN turn[k].mp \subseteq DOMAIN s.mp
                      /\ Have(s) \subseteq 0 .. Edge(s) - 1 => Have(turn[k]) = Have(s)
                      /\ Done(k) \/ N(k) + k <= Cardinality(DOMAIN s.mp)
           A       == {k \in Nat : Good(k)}
<1>1. turn[0] = s /\ \A k \in Nat : turn[k + 1] = Take(turn[k])
  <2>1. DrainLoop!Induction
    BY SetInduction DEF DrainLoop!Induction
  <2> QED BY <2>1, DrainLoop!IterateFollows
<1>2. t = turn[Cardinality(DOMAIN s.mp)]
  BY DEF Drain, DrainLoop!Iterate
<1> HIDE DEF turn
<1>3. Assembled(s) /\ Advances(s, s) /\ Cardinality(DOMAIN s.mp) \in Nat
  BY AdvancesReflexive, HaveNumbers DEF LoopInv
<1>4. 0 \in A
  <2>1. N(0) + 0 <= Cardinality(DOMAIN s.mp)
    BY <1>1, <1>3
  <2> QED BY <1>1, <1>3, <2>1
<1>5. ASSUME NEW k \in Nat, k \in A
      PROVE  k + 1 \in A
  <2> DEFINE u == turn[k]
             v == turn[k + 1]
  <2>1. /\ LoopInv(u) /\ Advances(s, u) /\ v = Take(u) /\ Have(u) \subseteq Have(s)
        /\ DOMAIN u.mp \subseteq DOMAIN s.mp
        /\ Have(s) \subseteq 0 .. Edge(s) - 1 => Have(u) = Have(s)
        /\ Done(k) \/ N(k) + k <= Cardinality(DOMAIN s.mp)
    BY <1>1, <1>5
  <2>2. /\ LoopInv(v) /\ Advances(u, v) /\ Have(v) \subseteq Have(u)
        /\ DOMAIN v.mp \subseteq DOMAIN u.mp
        /\ Have(u) \subseteq 0 .. Edge(u) - 1 => Have(v) = Have(u)
        /\ \/ v = u /\ Done(k)
           \/ N(k + 1) = N(k) - 1 /\ ~Done(k)
    <3> HIDE DEF u, v
    <3>1. /\ LoopInv(v) /\ Advances(u, v) /\ Have(v) \subseteq Have(u)
          /\ DOMAIN v.mp \subseteq DOMAIN u.mp
          /\ Have(u) \subseteq 0 .. Edge(u) - 1 => Have(v) = Have(u)
          /\ \/ v = u /\ \A key \in DOMAIN u.mp : key > u.nidx
             \/ /\ Cardinality(DOMAIN v.mp) = Cardinality(DOMAIN u.mp) - 1
                /\ ~\A key \in DOMAIN u.mp : key > u.nidx
      BY <2>1, TakeInv
    <3> QED BY <3>1 DEF u, v
  <2>3. Advances(s, v) /\ Edge(u) = Edge(s)
    BY <1>3, <2>1, <2>2, AdvancesTransitive, AdvancesAssembled
  <2>4. N(k) \in Nat /\ N(k + 1) \in Nat
    BY <2>1, <2>2, HaveNumbers
  <2>5. Done(k + 1) \/ N(k + 1) + (k + 1) <= Cardinality(DOMAIN s.mp)
    <3>1. CASE v = u /\ Done(k)
      BY <3>1
    <3>2. CASE N(k + 1) = N(k) - 1 /\ ~Done(k)
      <4> HIDE DEF N
      <4> QED BY <1>3, <2>1, <2>4, <3>2
    <3> QED BY <2>2, <3>1, <3>2
  <2> QED BY <2>1, <2>2, <2>3, <2>5
<1> DEFINE c == Cardinality(DOMAIN s.mp)
<1>6. c \in A
  <2> HIDE DEF A
  <2>1. Nat \subseteq A
    BY <1>4, <1>5, SetInduction
  <2> QED BY <1>3, <2>1
<1>7. Done(c)
  <2>1. CASE N(c) + c <= c
    <3>1. N(c) \in Nat
      BY <1>6, HaveNumbers
    <3>2. N(c) = 0
      BY <1>3, <2>1, <3>1
    <3>3. IsFiniteSet(DOMAIN turn[c].mp)
      BY <1>6 DEF LoopInv, Stored
    <3>4. DOMAIN turn[c].mp = {}
      BY <3>2, <3>3, FS_EmptySet
    <3> QED BY <3>4
  <2> QED BY <1>6, <2>1
<1> QED BY <1>2, <1>6, <1>7 DEF RInv

AbsorbLoop == INSTANCE Iteration WITH Step <- Absorb

\* The whole loop: it stops because every turn erases an entry.
LEMMA AbsorbAllInv ==
  ASSUME NEW w, WInv(w), NEW v, v = AbsorbAll(w)
  PROVE  /\ WInv(v) /\ All(v) = All(w) /\ Same(w.r, v.r) /\ v.index = w.index
         /\ ClearAfter(v) /\ Keys(v) \subseteq Keys(w)
<1> DEFINE turn    == AbsorbLoop!Iterate(w)
           N(k)    == Cardinality(DOMAIN turn[k].r.mp)
           c       == Cardinality(DOMAIN w.r.mp)
           Good(k) == /\ WInv(turn[k]) /\ All(turn[k]) = All(w) /\ Same(w.r, turn[k].r)
                      /\ turn[k].index = w.index /\ Keys(turn[k]) \subseteq Keys(w)
                      /\ ClearAfter(turn[k]) \/ N(k) + k <= c
           A       == {k \in Nat : Good(k)}
<1>1. turn[0] = w /\ \A k \in Nat : turn[k + 1] = Absorb(turn[k])
  <2>1. AbsorbLoop!Induction
    BY SetInduction DEF AbsorbLoop!Induction
  <2> QED BY <2>1, AbsorbLoop!IterateFollows
<1>2. v = turn[c]
  BY DEF AbsorbAll, AbsorbLoop!Iterate
<1> HIDE DEF turn
<1>3. \A x : WInv(x) => Cardinality(DOMAIN x.r.mp) \in Nat
  BY HaveNumbers DEF WInv, RInv
<1>4. 0 \in A
  <2>1. N(0) + 0 <= c
    BY <1>1, <1>3
  <2> QED BY <1>1, <2>1 DEF Same
<1>5. ASSUME NEW k \in Nat, k \in A
      PROVE  k + 1 \in A
  <2> DEFINE x == turn[k]
             y == turn[k + 1]
  <2>1. /\ WInv(x) /\ All(x) = All(w) /\ Same(w.r, x.r) /\ x.index = w.index
        /\ ClearAfter(x) \/ N(k) + k <= c
        /\ y = Absorb(x) /\ Keys(x) \subseteq Keys(w)
    BY <1>1, <1>5
  <2>2. /\ WInv(y) /\ All(y) = All(x) /\ Same(x.r, y.r) /\ y.index = x.index
        /\ Keys(y) \subseteq Keys(x)
        /\ \/ y = x /\ ClearAfter(x)
           \/ N(k + 1) = N(k) - 1 /\ ~ClearAfter(x)
    <3> HIDE DEF x, y
    <3>1. /\ WInv(y) /\ All(y) = All(x) /\ Same(x.r, y.r) /\ y.index = x.index
          /\ Keys(y) \subseteq Keys(x)
          /\ \/ y = x /\ ClearAfter(x)
             \/ /\ Cardinality(DOMAIN y.r.mp) = Cardinality(DOMAIN x.r.mp) - 1
                /\ ~ClearAfter(x)
      BY <2>1, AbsorbInv
    <3> QED BY <3>1 DEF x, y
  <2>3. N(k) \in Nat /\ N(k + 1) \in Nat /\ c \in Nat
    BY <1>3, <2>1, <2>2
  <2>4. ClearAfter(y) \/ N(k + 1) + (k + 1) <= c
    <3> HIDE DEF N, c
    <3>1. CASE y = x /\ ClearAfter(x)
      BY <3>1
    <3>2. CASE N(k + 1) = N(k) - 1 /\ ~ClearAfter(x)
      BY <2>1, <2>3, <3>2
    <3> QED BY <2>2, <3>1, <3>2
  <2>5. Same(w.r, y.r)
    BY <2>1, <2>2 DEF Same
  <2> QED BY <2>1, <2>2, <2>4, <2>5
<1>6. c \in A
  <2>1. c \in Nat
    BY <1>3
  <2> HIDE DEF A, c
  <2>2. Nat \subseteq A
    BY <1>4, <1>5, SetInduction
  <2> QED BY <2>1, <2>2
<1>7. ClearAfter(turn[c])
  <2>1. CASE N(c) + c <= c
    <3>1. N(c) \in Nat /\ c \in Nat
      BY <1>3, <1>6
    <3>2. N(c) = 0
      BY <2>1, <3>1
    <3>3. IsFiniteSet(DOMAIN turn[c].r.mp)
      BY <1>6, Zenon DEF WInv, RInv, LoopInv, Stored
    <3>4. DOMAIN turn[c].r.mp = {}
      BY <3>2, <3>3, FS_EmptySet
    <3> QED BY <3>4 DEF ClearAfter
  <2> QED BY <1>6, <2>1
<1> QED BY <1>2, <1>6, <1>7

-----------------------------------------------------------------------------
(* push_substring. *)

\* A substring beyond _nidx is merged with what is stored: nothing is lost that
\* fits the capacity.
LEMMA StoreInv ==
  ASSUME NEW r, RInv(r), NEW index \in Nat, NEW n \in Nat, index > r.nidx,
         NEW t, t = Store(r, Bytes(index, n), index)
  PROVE  /\ RInv(t) /\ Same(r, t) /\ DOMAIN t.mp \subseteq DOMAIN r.mp \cup {index}
         /\ Held(t) \subseteq Held(r) \cup (index .. index + n - 1)
         /\ Held(r) \cup (index .. index + n - 1) \subseteq 0 .. Edge(r) - 1
            => Held(t) = Held(r) \cup (index .. index + n - 1)
<1> DEFINE w == [index |-> index, str |-> Bytes(index, n), r |-> r]
           v == AbsorbAll(w)
           x == JoinLast(v)
<1>1. Len(Bytes(index, n)) = n
  BY BytesSeq
<1>2. w.index = index /\ w.str = Bytes(index, n) /\ w.r = r
      /\ w = [index |-> w.index, str |-> w.str, r |-> w.r]
  OBVIOUS
<1>3. t = Keep(x)
  BY DEF Store
<1> HIDE DEF w
<1>4. WInv(w)
  BY <1>1, <1>2 DEF WInv
<1> HIDE DEF v
<1>5. /\ WInv(v) /\ All(v) = All(w) /\ Same(w.r, v.r) /\ ClearAfter(v)
      /\ Keys(v) \subseteq Keys(w)
  BY <1>4, AbsorbAllInv DEF v
<1> HIDE DEF x
<1>6. /\ WInv(x) /\ All(x) = All(v) /\ Same(v.r, x.r) /\ ClearAfter(x) /\ ClearBefore(x)
      /\ Keys(x) \subseteq Keys(v)
  BY <1>5, JoinLastInv DEF x
<1>7. /\ RInv(t) /\ Same(x.r, t) /\ Held(t) \subseteq All(x) /\ DOMAIN t.mp = Keys(x)
      /\ All(x) \subseteq 0 .. Edge(x.r) - 1 => Held(t) = All(x)
  BY <1>3, <1>6, KeepInv
<1>8. All(x) = Held(r) \cup (index .. index + n - 1)
  BY <1>1, <1>2, <1>5, <1>6 DEF All
<1>9. Same(r, t) /\ Edge(x.r) = Edge(r)
  BY <1>2, <1>5, <1>6, <1>7 DEF Same, Edge
<1>10. DOMAIN t.mp \subseteq DOMAIN r.mp \cup {index}
  BY <1>2, <1>5, <1>6, <1>7 DEF Keys
<1> QED BY <1>7, <1>8, <1>9, <1>10

\* However a substring lies to _nidx and to what is stored, _output only grows by
\* the bytes that follow, and nothing is lost that fits the capacity.
LEMMA MergedInv ==
  ASSUME NEW r, RInv(r), NEW index \in Nat, NEW n \in Nat,
         NEW t, t = Merged(r, Bytes(index, n), index)
  PROVE  /\ RInv(t) /\ Advances(r, t) /\ DOMAIN t.mp \subseteq DOMAIN r.mp \cup {index}
         /\ Have(t) \subseteq Have(r) \cup (index .. index + n - 1)
         /\ Have(r) \cup (index .. index + n - 1) \subseteq 0 .. Edge(r) - 1
            => Have(t) = Have(r) \cup (index .. index + n - 1)
<1> DEFINE I == index .. index + n - 1
<1>1. /\ LoopInv(r) /\ Assembled(r) /\ Len(Bytes(index, n)) = n /\ Advances(r, r)
      /\ r.nidx \in Nat /\ Edge(r) \in Nat
  <2>1. LoopInv(r) /\ Assembled(r)
    BY DEF RInv, LoopInv
  <2>2. index \in Int
    OBVIOUS
  <2>3. Len(Bytes(index, n)) = n
    BY <2>2, BytesSeq
  <2>4. r.nidx \in Nat /\ Edge(r) \in Nat
    BY <2>1, HaveNumbers
  <2>5. Advances(r, r)
    BY <2>1, AdvancesReflexive
  <2> QED BY <2>1, <2>3, <2>4, <2>5
<1>2. CASE index > r.nidx
  <2>1. t = Store(r, Bytes(index, n), index)
    BY <1>2 DEF Merged
  <2>2. /\ RInv(t) /\ Same(r, t) /\ Held(t) \subseteq Held(r) \cup I
        /\ DOMAIN t.mp \subseteq DOMAIN r.mp \cup {index}
        /\ Held(r) \cup I \subseteq 0 .. Edge(r) - 1 => Held(t) = Held(r) \cup I
    BY <1>2, <2>1, StoreInv
  <2>3. Advances(r, t)
    BY <1>1, <2>2 DEF Same, Advances
  <2>4. t.nidx = r.nidx
    BY <2>2 DEF Same
  <2> HIDE DEF I
  <2> QED BY <2>2, <2>3, <2>4 DEF Have, I
<1>3. CASE index <= r.nidx /\ n > r.nidx - index
  <2> DEFINE a == Assemble(r, Bytes(index, n), index)
  <2>1. t = Drain(a)
    BY <1>1, <1>3 DEF Merged
  <2> HIDE DEF a
  <2>2. /\ LoopInv(a) /\ Advances(r, a) /\ a.mp = r.mp
        /\ a.nidx <= index + n \/ a.nidx = r.nidx
        /\ index + n <= Edge(r) => index + n <= a.nidx
    BY <1>1, <1>3, AssembleInv DEF a
  <2>3. /\ RInv(t) /\ Advances(a, t) /\ Have(t) \subseteq Have(a)
        /\ DOMAIN t.mp \subseteq DOMAIN a.mp
        /\ Have(a) \subseteq 0 .. Edge(a) - 1 => Have(t) = Have(a)
    BY <2>1, <2>2, DrainInv
  <2>4. Advances(r, t) /\ Edge(a) = Edge(r)
    BY <1>1, <2>2, <2>3, AdvancesTransitive, AdvancesAssembled
  <2>5. Held(a) = Held(r)
    BY <2>2 DEF Held, Span
  <2>6. a.nidx \in Nat /\ a.nidx >= r.nidx
    BY <2>2 DEF Advances
  <2>7. 0 .. a.nidx - 1 \subseteq (0 .. r.nidx - 1) \cup I
    BY <1>1, <1>3, <2>2, <2>6
  <2>8. Have(a) \subseteq Have(r) \cup I
    BY <2>5, <2>7 DEF Have
  <2>9. ASSUME Have(r) \cup I \subseteq 0 .. Edge(r) - 1
        PROVE  Have(t) = Have(r) \cup I
    <3>1. index + n <= Edge(r)
      <4>1. n > 0 /\ index + n - 1 \in I
        BY <1>1, <1>3
      <4>2. index + n - 1 \in 0 .. Edge(r) - 1
        BY <2>9, <4>1
      <4> QED BY <1>1, <4>2
    <3>2. I \subseteq 0 .. a.nidx - 1 /\ 0 .. r.nidx - 1 \subseteq 0 .. a.nidx - 1
      BY <1>1, <2>2, <2>6, <3>1
    <3>3. Have(a) = Have(r) \cup I
      BY <2>5, <2>8, <3>2 DEF Have
    <3> QED BY <2>3, <2>4, <2>9, <3>3
  <2>10. Have(t) \subseteq Have(r) \cup I /\ DOMAIN t.mp \subseteq DOMAIN r.mp \cup {index}
    BY <2>2, <2>3, <2>8
  <2> QED BY <2>3, <2>4, <2>9, <2>10, Zenon
<1>4. CASE index <= r.nidx /\ ~(n > r.nidx - index)
  <2>1. t = r
    BY <1>1, <1>4 DEF Merged
  <2>2. I \subseteq 0 .. r.nidx - 1
    BY <1>1, <1>4
  <2>3. Have(t) = Have(r) \cup I
    BY <2>1, <2>2 DEF Have
  <2>4. DOMAIN t.mp \subseteq DOMAIN r.mp \cup {index}
    BY <2>1
  <2> QED BY <1>1, <2>1, <2>3, <2>4, Zenon
<1>5. \/ index > r.nidx
      \/ index <= r.nidx /\ n > r.nidx - index
      \/ index <= r.nidx /\ ~(n > r.nidx - index)
  BY <1>1
<1> QED BY <1>2, <1>3, <1>4, <1>5, Zenon

\* push_substring keeps the invariant; it moves _nidx forward over the bytes it
\* writes and the right edge of the window not at all; and it loses no byte that
\* fits the capacity.
THEOREM PushSubstringInv ==
  ASSUME NEW r, RInv(r), NEW index \in Nat, NEW n \in Nat, NEW eof,
         NEW t, t = PushSubstring(r, Bytes(index, n), index, eof)
  PROVE  /\ RInv(t) /\ Edge(t) = Edge(r) /\ t.nidx \in Nat /\ t.nidx >= r.nidx
         /\ t.output = Finished(Written(r.output, Bytes(r.nidx, t.nidx - r.nidx)), t)
         /\ t.output.capacity = r.output.capacity
         /\ Complete(t) => t.output.ended
         /\ ~Complete(t) => t.output.ended = r.output.ended
         /\ eof => t.eof /\ t.eof \in BOOLEAN /\ t.eidx = index + n
         /\ ~eof => t.eof = r.eof /\ t.eidx = r.eidx
         /\ DOMAIN t.mp \subseteq DOMAIN r.mp \cup {index}
         /\ Have(t) \subseteq Have(r) \cup (index .. index + n - 1)
         /\ Have(r) \cup (index .. index + n - 1) \subseteq 0 .. Edge(r) - 1
            => Have(t) = Have(r) \cup (index .. index + n - 1)
<1> DEFINE I == index .. index + n - 1
           d == Bytes(index, n)
<1>1. Len(d) = n
  BY BytesSeq
<1>2. ASSUME NEW m, RInv(m), Have(m) = Have(r), Edge(m) = Edge(r), m.output = r.output,
             m.mp = r.mp, m.nidx = r.nidx, t = Finish(Merged(m, d, index))
      PROVE  /\ RInv(t) /\ Edge(t) = Edge(r) /\ t.nidx \in Nat /\ t.nidx >= r.nidx
             /\ t.output = Finished(Written(r.output, Bytes(r.nidx, t.nidx - r.nidx)), t)
             /\ t.output.capacity = r.output.capacity
             /\ Complete(t) => t.output.ended
             /\ ~Complete(t) => t.output.ended = r.output.ended
             /\ t.eof = m.eof /\ t.eidx = m.eidx
             /\ DOMAIN t.mp \subseteq DOMAIN r.mp \cup {index}
             /\ Have(t) \subseteq Have(r) \cup I
             /\ Have(r) \cup I \subseteq 0 .. Edge(r) - 1 => Have(t) = Have(r) \cup I
  <2> DEFINE p == Merged(m, d, index)
  <2>1. t = Finish(p)
    BY <1>2
  <2> HIDE DEF p
  <2>2. /\ RInv(p) /\ Advances(m, p) /\ Have(p) \subseteq Have(m) \cup I
        /\ DOMAIN p.mp \subseteq DOMAIN m.mp \cup {index}
        /\ Have(m) \cup I \subseteq 0 .. Edge(m) - 1 => Have(p) = Have(m) \cup I
    BY <1>2, MergedInv, Zenon DEF p
  <2>3. Assembled(m)
    BY <1>2 DEF RInv, LoopInv
  <2>4. /\ Edge(p) = Edge(m) /\ p.output.capacity = m.output.capacity
        /\ p.output.ended = m.output.ended
    BY <2>2, <2>3, AdvancesAssembled
  <2>5. /\ p.nidx \in Nat /\ p.nidx >= m.nidx
        /\ p.output = Written(m.output, Bytes(m.nidx, p.nidx - m.nidx))
        /\ p.eof = m.eof /\ p.eidx = m.eidx
    BY <2>2 DEF Advances
  <2>6. /\ RInv(t) /\ Have(t) = Have(p) /\ Edge(t) = Edge(p)
        /\ t.mp = p.mp /\ t.nidx = p.nidx /\ t.eof = p.eof /\ t.eidx = p.eidx
        /\ t.output = Finished(p.output, t)
        /\ t.output.capacity = p.output.capacity
        /\ Complete(t) => t.output.ended
        /\ ~Complete(t) => t.output.ended = p.output.ended
    BY <2>1, <2>2, FinishInv
  <2>7. t.output = Finished(Written(r.output, Bytes(r.nidx, t.nidx - r.nidx)), t)
    BY <1>2, <2>5, <2>6
  <2> HIDE DEF I
  <2>8. Have(t) \subseteq Have(r) \cup I
    BY <1>2, <2>2, <2>6
  <2>9. Have(r) \cup I \subseteq 0 .. Edge(r) - 1 => Have(t) = Have(r) \cup I
    BY <1>2, <2>2, <2>6, Zenon
  <2>10. DOMAIN t.mp \subseteq DOMAIN r.mp \cup {index}
    BY <1>2, <2>2, <2>6
  <2> QED BY <1>2, <2>2, <2>4, <2>5, <2>6, <2>7, <2>8, <2>9, <2>10, Zenon
<1> HIDE DEF I, d
<1>3. CASE eof
  <2> DEFINE m == Mark(r, index + n)
  <2>1. t = Finish(Merged(m, d, index))
    BY <1>1, <1>3 DEF PushSubstring, d
  <2> HIDE DEF m
  <2>2. /\ RInv(m) /\ Have(m) = Have(r) /\ Edge(m) = Edge(r)
        /\ m.output = r.output /\ m.mp = r.mp /\ m.nidx = r.nidx
        /\ m.eof /\ m.eof \in BOOLEAN /\ m.eidx = index + n
    BY MarkInv DEF m
  <2> QED BY <1>2, <1>3, <2>1, <2>2, Zenon DEF I
<1>4. CASE ~eof
  <2>1. t = Finish(Merged(r, d, index))
    BY <1>4 DEF PushSubstring, d
  <2> QED BY <1>2, <1>4, <2>1, Zenon DEF I
<1> QED BY <1>3, <1>4, Zenon

-----------------------------------------------------------------------------
(* A stream of a given length. *)

\* All bytes come from a stream of len bytes, and _output ends with its last byte.
OfStream(r, len) ==
  /\ RInv(r) /\ Have(r) \subseteq 0 .. len - 1
  /\ r.eof \in BOOLEAN /\ (r.eof => r.eidx = len)
  /\ r.output.ended <=> r.eof /\ r.nidx = len

\* _nidx stays within the stream.
LEMMA WithinStream ==
  ASSUME NEW r, LoopInv(r), NEW len \in Nat, Have(r) \subseteq 0 .. len - 1
  PROVE  r.nidx \in 0 .. len
<1>1. r.nidx \in Nat /\ 0 .. r.nidx - 1 \subseteq Have(r)
  BY HaveNumbers
<1>2. r.nidx > 0 => r.nidx - 1 \in 0 .. r.nidx - 1
  BY <1>1
<1>3. r.nidx > 0 => r.nidx - 1 \in 0 .. len - 1
  BY <1>1, <1>2, Zenon
<1> QED BY <1>1, <1>3

\* A new reassembler is at the start of a stream that has not ended.
LEMMA NewOfStream ==
  ASSUME NEW c \in Nat, NEW len \in Nat
  PROVE  OfStream(NewReassembler(c), len)
<1> DEFINE r == NewReassembler(c)
<1>1. RInv(r) /\ Have(r) = {} /\ ~r.output.ended
  BY NewReassemblerInv
<1>2. r.eof = FALSE
  BY DEF NewReassembler
<1> HIDE DEF r
<1>3. Have(r) \subseteq 0 .. len - 1 /\ r.eof \in BOOLEAN /\ ~r.eof
  BY <1>1, <1>2, Zenon
<1> QED BY <1>1, <1>3, Zenon DEF OfStream, r

\* Pushing a substring of the stream, marked eof only at its end, ends _output exactly
\* when the last byte has been assembled and the mark was seen.
LEMMA PushOfStream ==
  ASSUME NEW r, NEW len \in Nat, OfStream(r, len), NEW index \in Nat, NEW n \in Nat,
         index .. index + n - 1 \subseteq 0 .. len - 1,
         NEW eof, eof => index + n = len,
         NEW t, t = PushSubstring(r, Bytes(index, n), index, eof)
  PROVE  OfStream(t, len)
<1>1. /\ RInv(r) /\ Have(r) \subseteq 0 .. len - 1
      /\ r.eof \in BOOLEAN /\ (r.eof => r.eidx = len)
      /\ r.output.ended <=> r.eof /\ r.nidx = len
  BY DEF OfStream
<1>2. /\ RInv(t) /\ t.nidx \in Nat /\ t.nidx >= r.nidx
      /\ Complete(t) => t.output.ended
      /\ ~Complete(t) => t.output.ended = r.output.ended
      /\ eof => t.eof /\ t.eof \in BOOLEAN /\ t.eidx = index + n
      /\ ~eof => t.eof = r.eof /\ t.eidx = r.eidx
      /\ Have(t) \subseteq Have(r) \cup (index .. index + n - 1)
  BY <1>1, PushSubstringInv
<1>3. Have(t) \subseteq 0 .. len - 1
  BY <1>1, <1>2, Zenon
<1>4. r.nidx \in 0 .. len /\ t.nidx \in 0 .. len
  BY <1>1, <1>2, <1>3, WithinStream DEF RInv
<1>5. t.eof \in BOOLEAN /\ (t.eof => t.eidx = len) /\ (r.eof => t.eof)
  BY <1>1, <1>2, Zenon
<1>6. t.nidx >= len <=> t.nidx = len
  BY <1>4
<1>7. Complete(t) <=> t.eof /\ t.nidx = len
  BY <1>5, <1>6, Zenon DEF Complete
<1>8. r.nidx = len => t.nidx = len
  BY <1>2, <1>4
<1>9. t.output.ended <=> t.eof /\ t.nidx = len
  BY <1>1, <1>2, <1>5, <1>7, <1>8, Zenon
<1> QED BY <1>2, <1>3, <1>5, <1>9, Zenon DEF OfStream

\* Reading changes none of it.
LEMMA ReadOfStream ==
  ASSUME NEW r, NEW len \in Nat, OfStream(r, len),
         NEW k \in Nat, k <= Len(r.output.buf),
         NEW t, t = [r EXCEPT !.output = Popped(@, k)]
  PROVE  OfStream(t, len)
<1>1. RInv(r)
  BY DEF OfStream
<1>2. /\ RInv(t) /\ Have(t) = Have(r) /\ t.nidx = r.nidx /\ t.eof = r.eof /\ t.eidx = r.eidx
      /\ t.output.ended = r.output.ended
  BY <1>1, ReadInv
<1> QED BY <1>2, Zenon DEF OfStream
=============================================================================
