-------------------------- MODULE ByteStreamProofs --------------------------
(***************************************************************************)
(* Proofs about the ring buffer of byte_stream.cc for every capacity,      *)
(* every byte alphabet and every counter width.                            *)
(***************************************************************************)
EXTENDS ByteStream, DataLemmas

\* The inductive invariant: the guard of the loop in write only stops at a
\* full ring because _tail, _head and _sz agree.
IInv == TypeOK /\ RingInv /\ CountersAgree

\* A string passed to write has a length and characters.
LEMMA DataIsSeq ==
  ASSUME NEW data \in Data
  PROVE  data \in Seq(Byte) /\ Len(data) \in 0 .. MaxLen
  BY RingAssumption DEF Data

\* The loop of write stores as many bytes as fit: its guard, which compares
\* _tail with _head, fails exactly when the ring is full.
LEMMA WriteCountIsMin ==
  ASSUME TypeOK, RingInv, NEW data \in Data
  PROVE  WriteCount(data) = min(Len(data), Capacity - sz)
<1> DEFINE m == min(Len(data), Capacity - sz)
           Stop(k) == WriteStops(data, k) /\ \A j \in 0 .. k - 1 : ~WriteStops(data, j)
<1>0. /\ Capacity \in Nat /\ Capacity >= 1
      /\ head \in Int /\ 0 <= head /\ head < Capacity
      /\ sz \in Int /\ 0 <= sz /\ sz <= Capacity
      /\ tail = (head + sz) % Capacity
  BY RingAssumption DEF TypeOK, RingInv
<1>1. Len(data) \in Nat /\ m \in 0 .. Len(data)
  BY <1>0, DataIsSeq, RingAssumption DEF min
<1>m. (m = Len(data) \/ m = Capacity - sz) /\ m <= Len(data) /\ m <= Capacity - sz
  BY <1>0, <1>1 DEF min
<1> HIDE DEF m
<1>2. WriteStops(data, m)
  <2>1. CASE m = Len(data)
    BY <2>1 DEF WriteStops
  <2>2. CASE m = Capacity - sz
    <3>1. CASE head + sz < Capacity
      <4>1. tail = head + sz
        BY <1>0, <3>1, ModSmall
      <4>2. tail + m = head + Capacity
        BY <1>0, <2>2, <4>1
      <4>3. (head + Capacity) % Capacity = head
        BY <1>0, ModOver
      <4>4. (tail + m) % Capacity = head
        BY <4>2, <4>3
      <4>5. sz + m = Capacity
        BY <1>0, <2>2
      <4> QED BY <4>4, <4>5 DEF WriteStops
    <3>2. CASE head + sz >= Capacity
      <4>1. tail = head + sz - Capacity
        BY <1>0, <3>2, ModOver
      <4>2. tail + m = head
        BY <1>0, <2>2, <4>1
      <4>3. (tail + m) % Capacity = head
        BY <1>0, <4>2, ModSmall
      <4> QED BY <1>0, <2>2, <4>3 DEF WriteStops
    <3> QED BY <1>0, <3>1, <3>2
  <2> QED BY <1>m, <2>1, <2>2
<1>3. \A j \in 0 .. m - 1 : ~WriteStops(data, j)
  BY <1>0, <1>1, <1>m DEF WriteStops
<1>4. Stop(m)
  BY <1>2, <1>3
<1>5. \A k \in 0 .. Len(data) : Stop(k) => k = m
  BY <1>1, <1>4
<1> QED
  BY <1>1, <1>4, <1>5 DEF WriteCount, m

-----------------------------------------------------------------------------
\* A write keeps the invariant: _tail follows the bytes it stores, even when
\* it wraps, and the write counter follows _sz.
LEMMA WriteInv ==
  ASSUME IInv, NEW data \in Data, write(data), kept' \in BOOLEAN
  PROVE  IInv'
<1> DEFINE n == WriteCount(data)
<1>1. /\ Capacity \in Nat /\ Capacity >= 1
      /\ UIntMod \in Nat /\ UIntMod >= 1 /\ Capacity < UIntMod
      /\ head \in 0 .. Capacity - 1 /\ tail \in 0 .. Capacity - 1 /\ sz \in Nat
      /\ write_bytes \in 0 .. UIntMod - 1 /\ read_bytes \in 0 .. UIntMod - 1
  BY RingAssumption, UIntAssumption DEF IInv, TypeOK
<1>2. n \in Nat /\ n <= Len(data) /\ sz + n <= Capacity /\ Len(data) \in Nat
  <2>1. n = min(Len(data), Capacity - sz)
    BY WriteCountIsMin DEF IInv
  <2>2. Len(data) \in Nat /\ sz \in 0 .. Capacity
    BY DataIsSeq DEF IInv, TypeOK
  <2> QED BY <1>1, <2>1, <2>2 DEF min
<1>3. /\ sz' = sz + n
      /\ tail' = (tail + n) % Capacity
      /\ write_bytes' = (write_bytes + n) % UIntMod
      /\ UNCHANGED <<head, read_bytes, input_ended, error, got>>
  BY DEF write
<1>4. buf' \in [0 .. Capacity -> Byte]
  <2>1. ASSUME NEW i \in 0 .. Capacity, (i - tail) % Capacity < n
        PROVE  data[((i - tail) % Capacity) + 1] \in Byte
    <3> DEFINE t == (i - tail) % Capacity
    <3>1. i - tail \in Int
      BY <1>1
    <3>2. t \in 0 .. Capacity - 1
      BY <1>1, <3>1, ModRange
    <3>3. t < n
      BY <2>1
    <3> HIDE DEF t
    <3>4. t + 1 \in 1 .. Len(data)
      BY <1>1, <1>2, <3>2, <3>3
    <3>5. data[t + 1] \in Byte
      BY <3>4, DataIsSeq, ElementOfSeq
    <3> QED BY <3>5 DEF t
  <2>2. buf \in [0 .. Capacity -> Byte]
    BY DEF IInv, TypeOK
  <2> QED BY <2>1, <2>2 DEF write
<1> HIDE DEF n
<1>5. TypeOK'
  <2>1. tail + n \in Int /\ write_bytes + n \in Int
    BY <1>1, <1>2
  <2>2. tail' \in 0 .. Capacity - 1
    BY <1>1, <1>3, <2>1, ModRange, Zenon
  <2>3. write_bytes' \in 0 .. UIntMod - 1
    BY <1>1, <1>3, <2>1, ModRange, Zenon
  <2>4. sz' \in 0 .. Capacity
    BY <1>1, <1>2, <1>3
  <2> QED BY <1>3, <1>4, <2>2, <2>3, <2>4 DEF IInv, TypeOK
<1>6. RingInv'
  <2>1. tail = (head + sz) % Capacity
    BY DEF IInv, RingInv
  <2>2. (((head + sz) % Capacity) + n) % Capacity = (head + sz + n) % Capacity
    BY <1>1, <1>2, IndexAdvance, Zenon
  <2>3. head + (sz + n) = head + sz + n
    BY <1>1, <1>2
  <2> QED BY <1>3, <2>1, <2>2, <2>3 DEF RingInv
<1>7. CountersAgree'
  <2>1. (write_bytes - read_bytes) % UIntMod = sz
    BY DEF IInv, CountersAgree
  <2>2. sz + n < UIntMod
    BY <1>1, <1>2
  <2>3. (((write_bytes + n) % UIntMod) - read_bytes) % UIntMod = sz + n
    BY <1>1, <1>2, <2>1, <2>2, CounterAdvance
  <2> QED BY <1>3, <2>3 DEF CountersAgree
<1> QED BY <1>5, <1>6, <1>7 DEF IInv

\* So does taking n of the sz bytes away, which pop_output and read both do.
LEMMA TakeInv ==
  ASSUME IInv, NEW n \in 0 .. sz,
         head' = (head + n) % Capacity,
         sz' = sz - n,
         read_bytes' = (read_bytes + n) % UIntMod,
         UNCHANGED <<buf, tail, write_bytes, input_ended, error>>,
         got' \in Seq(Byte), kept' \in BOOLEAN
  PROVE  IInv'
<1>1. /\ Capacity \in Nat /\ Capacity >= 1
      /\ UIntMod \in Nat /\ UIntMod >= 1 /\ Capacity < UIntMod
      /\ head \in 0 .. Capacity - 1 /\ sz \in Nat /\ sz <= Capacity
      /\ write_bytes \in 0 .. UIntMod - 1 /\ read_bytes \in 0 .. UIntMod - 1
      /\ n \in Nat /\ n <= sz
  BY RingAssumption, UIntAssumption DEF IInv, TypeOK
<1>2. TypeOK'
  <2>1. head + n \in Int /\ read_bytes + n \in Int
    BY <1>1
  <2>2. head' \in 0 .. Capacity - 1
    BY <1>1, <2>1, ModRange
  <2>3. read_bytes' \in 0 .. UIntMod - 1
    BY <1>1, <2>1, ModRange
  <2>4. sz' \in 0 .. Capacity
    BY <1>1
  <2> QED BY <2>2, <2>3, <2>4 DEF IInv, TypeOK
<1>3. RingInv'
  <2>1. tail = (head + sz) % Capacity
    BY DEF IInv, RingInv
  <2>2. sz - n \in Nat /\ n + (sz - n) <= Capacity
    BY <1>1
  <2>3. (((head + n) % Capacity) + (sz - n)) % Capacity = (head + n + (sz - n)) % Capacity
    BY <1>1, <2>2, IndexAdvance
  <2>4. head + n + (sz - n) = head + sz
    BY <1>1
  <2> QED BY <2>1, <2>3, <2>4 DEF RingInv
<1>4. CountersAgree'
  <2>1. (write_bytes - read_bytes) % UIntMod = sz
    BY DEF IInv, CountersAgree
  <2>2. (write_bytes - ((read_bytes + n) % UIntMod)) % UIntMod = sz - n
    BY <1>1, <2>1, CounterCatchUp
  <2> QED BY <2>2 DEF CountersAgree
<1> QED BY <1>2, <1>3, <1>4 DEF IInv

\* What peek_output and read return is a string of at most sz characters.
LEMMA FrontIsSeq ==
  ASSUME IInv, NEW len \in 0 .. MaxLen
  PROVE  Front(len) \in Seq(Byte) /\ min(len, sz) \in 0 .. sz
<1>1. /\ Capacity \in Nat /\ Capacity >= 1 /\ MaxLen \in Nat
      /\ head \in 0 .. Capacity - 1 /\ sz \in 0 .. Capacity
      /\ buf \in [0 .. Capacity -> Byte]
  BY RingAssumption DEF IInv, TypeOK
<1>2. min(len, sz) \in 0 .. sz /\ min(len, sz) \in Nat
  BY <1>1 DEF min
<1>3. ASSUME NEW i \in 1 .. min(len, sz)
      PROVE  buf[(head + i - 1) % Capacity] \in Byte
  <2>1. head + i - 1 \in Int
    BY <1>1, <1>2
  <2>2. (head + i - 1) % Capacity \in 0 .. Capacity - 1
    BY <1>1, <2>1, ModRange, Zenon
  <2>3. (head + i - 1) % Capacity \in 0 .. Capacity
    BY <1>1, <2>2
  <2> QED BY <1>1, <2>3
<1> QED BY <1>2, <1>3, IsASeq DEF Front

\* TypeOK, the ring invariant and the agreement of the counters hold in every
\* reachable state of a ByteStream of any capacity.
THEOREM Invariance == Spec => [](TypeOK /\ RingInv /\ CountersAgree)
<1>1. Init => IInv
  <2> SUFFICES ASSUME Init PROVE IInv
    OBVIOUS
  <2>1. /\ Capacity \in Nat /\ Capacity >= 1 /\ UIntMod \in Nat /\ UIntMod >= 2
        /\ Blank \in Byte
    BY RingAssumption, UIntAssumption
  <2>2. 0 % Capacity = 0 /\ 0 % UIntMod = 0 /\ 0 + 0 = 0 /\ 0 - 0 = 0
    BY <2>1, ModSmall
  <2>3. TypeOK
    <3>1. buf \in [0 .. Capacity -> Byte]
      BY <2>1 DEF Init
    <3>2. got \in Seq(Byte)
      BY EmptySeq DEF Init
    <3>3. /\ head \in 0 .. Capacity - 1 /\ tail \in 0 .. Capacity - 1 /\ sz \in 0 .. Capacity
          /\ read_bytes \in 0 .. UIntMod - 1 /\ write_bytes \in 0 .. UIntMod - 1
      BY <2>1 DEF Init
    <3>4. input_ended \in BOOLEAN /\ error \in BOOLEAN /\ kept \in BOOLEAN
      BY Zenon DEF Init
    <3> QED BY <3>1, <3>2, <3>3, <3>4 DEF TypeOK
  <2>4. RingInv /\ CountersAgree
    BY <2>2 DEF Init, RingInv, CountersAgree
  <2> QED BY <2>3, <2>4 DEF IInv
<1>2. IInv /\ [Next]_vars => IInv'
  <2> SUFFICES ASSUME IInv, [Next]_vars PROVE IInv'
    OBVIOUS
  <2>0. UNCHANGED kept => kept' \in BOOLEAN
    BY Zenon DEF IInv, TypeOK
  <2>1. ASSUME NEW data \in Data, write(data), kept' = (kept /\ Keeps(data)) PROVE IInv'
    <3>1. kept' \in BOOLEAN
      BY <2>1, Zenon
    <3> QED BY <2>1, <3>1, WriteInv
  <2>2. ASSUME NEW len \in 0 .. MaxLen, peek_output(len), UNCHANGED kept PROVE IInv'
    BY <2>2, FrontIsSeq DEF peek_output, IInv, TypeOK, RingInv, CountersAgree
  <2>3. ASSUME NEW len \in 0 .. MaxLen, pop_output(len), UNCHANGED kept PROVE IInv'
    <3>1. got' \in Seq(Byte)
      BY <2>3 DEF pop_output, IInv, TypeOK
    <3> QED BY <2>0, <2>3, <3>1, FrontIsSeq, TakeInv DEF pop_output
  <2>4. ASSUME NEW len \in 0 .. MaxLen, read(len), UNCHANGED kept PROVE IInv'
    BY <2>0, <2>4, FrontIsSeq, TakeInv DEF read
  <2>5. CASE end_input /\ UNCHANGED kept
    BY <2>5 DEF end_input, IInv, TypeOK, RingInv, CountersAgree
  <2>6. CASE set_error /\ UNCHANGED kept
    BY <2>6 DEF set_error, IInv, TypeOK, RingInv, CountersAgree
  <2>7. CASE UNCHANGED vars
    BY <2>7 DEF vars, IInv, TypeOK, RingInv, CountersAgree
  <2> QED BY <2>1, <2>2, <2>3, <2>4, <2>5, <2>6, <2>7 DEF Next
<1> QED BY <1>1, <1>2, PTL DEF Spec, IInv

-----------------------------------------------------------------------------
\* The string the ring stands for has sz characters.
LEMMA ContentsIsSeq ==
  ASSUME IInv
  PROVE  Contents \in Seq(Byte) /\ Len(Contents) = sz
<1>1. /\ Capacity \in Nat /\ Capacity >= 1
      /\ head \in 0 .. Capacity - 1 /\ sz \in 0 .. Capacity /\ sz \in Nat
      /\ buf \in [0 .. Capacity -> Byte]
  BY RingAssumption DEF IInv, TypeOK
<1>2. ASSUME NEW i \in 1 .. sz
      PROVE  buf[(head + i - 1) % Capacity] \in Byte
  <2>1. head + i - 1 \in Int
    BY <1>1
  <2>2. (head + i - 1) % Capacity \in 0 .. Capacity - 1
    BY <1>1, <2>1, ModRange, Zenon
  <2>3. (head + i - 1) % Capacity \in 0 .. Capacity
    BY <1>1, <2>2
  <2> QED BY <1>1, <2>3
<1>3. Contents \in [1 .. sz -> Byte]
  BY <1>2 DEF Contents
<1> QED BY <1>1, <1>3, IsASeq, LenProperties

\* write appends the bytes it accepts: the slots it overwrites are none of
\* those that hold unread bytes.
LEMMA ContentsWritten ==
  ASSUME IInv, NEW data \in Data, write(data)
  PROVE  Contents' = Contents \o SubSeq(data, 1, min(Len(data), Capacity - sz))
<1> DEFINE n == min(Len(data), Capacity - sz)
<1>1. /\ Capacity \in Nat /\ Capacity >= 1 /\ sz \in Nat /\ sz \in 0 .. Capacity
      /\ head \in 0 .. Capacity - 1
      /\ tail = (head + sz) % Capacity /\ tail \in 0 .. Capacity - 1
      /\ data \in Seq(Byte) /\ Len(data) \in Nat
  BY RingAssumption, DataIsSeq DEF IInv, TypeOK, RingInv
<1>2. n \in Nat /\ n <= Len(data) /\ sz + n <= Capacity
  BY <1>1 DEF min
<1>3. n = WriteCount(data)
  BY WriteCountIsMin DEF IInv
<1>4. /\ buf' = [i \in 0 .. Capacity |->
                   IF i < Capacity /\ (i - tail) % Capacity < n
                   THEN data[((i - tail) % Capacity) + 1] ELSE buf[i]]
      /\ sz' = sz + n /\ head' = head
  BY <1>3 DEF write
<1> HIDE DEF n
<1>5. SubSeq(data, 1, n) \in Seq(Byte) /\ Len(SubSeq(data, 1, n)) = n
      /\ \A k \in 1 .. n : SubSeq(data, 1, n)[k] = data[k]
  BY <1>1, <1>2, SubSeqProperties
<1>6. Contents \in Seq(Byte) /\ Len(Contents) = sz
  BY ContentsIsSeq
<1>7. ASSUME NEW i \in 1 .. sz + n
      PROVE  Contents'[i] = (Contents \o SubSeq(data, 1, n))[i]
  <2> DEFINE p == (head + (i - 1)) % Capacity
             t == (p - tail) % Capacity
  <2>0. i \in Nat /\ i - 1 \in 0 .. Capacity - 1 /\ head + i - 1 = head + (i - 1)
        /\ head + (i - 1) \in Int
    BY <1>1, <1>2
  <2>1. p \in 0 .. Capacity - 1
    BY <1>1, <2>0, ModRange
  <2>2. t = IF i - 1 >= sz THEN (i - 1) - sz ELSE Capacity - (sz - (i - 1))
    BY <1>1, <2>0, RingDistance, Zenon
  <2>3. Contents'[i] = buf'[p]
    BY <1>4, <2>0 DEF Contents
  <2> HIDE DEF p
  <2>4. buf'[p] = IF t < n THEN data[t + 1] ELSE buf[p]
    BY <1>1, <1>4, <2>1
  <2> HIDE DEF t
  <2>5. CASE i <= sz
    <3>1. ~(t < n)
      BY <1>1, <1>2, <2>0, <2>2, <2>5
    <3>2. Contents[i] = buf[p]
      BY <1>1, <2>0, <2>5 DEF Contents, p
    <3>3. (Contents \o SubSeq(data, 1, n))[i] = Contents[i]
      BY <1>1, <1>5, <1>6, <2>0, <2>5, ConcatProperties
    <3> QED BY <2>3, <2>4, <3>1, <3>2, <3>3, Zenon
  <2>6. CASE i > sz
    <3>1. t < n /\ t + 1 = i - sz /\ i - sz \in 1 .. n
      BY <1>1, <1>2, <2>0, <2>2, <2>6
    <3>2. (Contents \o SubSeq(data, 1, n))[i] = SubSeq(data, 1, n)[i - sz]
      BY <1>1, <1>2, <1>5, <1>6, <2>0, <2>6, ConcatProperties
    <3> QED BY <1>5, <2>3, <2>4, <3>1, <3>2, Zenon
  <2>7. i <= sz \/ i > sz
    BY <1>1, <2>0
  <2> QED BY <2>5, <2>6, <2>7, Zenon
<1>8. Contents' = [i \in 1 .. sz + n |-> Contents'[i]]
  BY <1>4 DEF Contents
<1>9. Contents \o SubSeq(data, 1, n)
        = [i \in 1 .. sz + n |-> (Contents \o SubSeq(data, 1, n))[i]]
  <2>1. /\ Contents \o SubSeq(data, 1, n) \in Seq(Byte)
        /\ Len(Contents \o SubSeq(data, 1, n)) = sz + n
    BY <1>5, <1>6, ConcatProperties
  <2> QED BY <2>1, LenProperties
<1>10. Contents' = Contents \o SubSeq(data, 1, n)
  BY <1>7, <1>8, <1>9, Zenon
<1> QED BY <1>10 DEF n

\* Taking n bytes away leaves the rest of the string in order.
LEMMA ContentsTaken ==
  ASSUME IInv, NEW n \in 0 .. sz,
         head' = (head + n) % Capacity, sz' = sz - n, buf' = buf
  PROVE  Contents' = SubSeq(Contents, n + 1, Len(Contents))
<1>1. /\ Capacity \in Nat /\ Capacity >= 1 /\ sz \in Nat /\ sz <= Capacity
      /\ head \in 0 .. Capacity - 1 /\ n \in Nat /\ n <= sz
  BY RingAssumption DEF IInv, TypeOK
<1>2. Contents \in Seq(Byte) /\ Len(Contents) = sz
  BY ContentsIsSeq
<1>3. /\ SubSeq(Contents, n + 1, sz) = [i \in 1 .. sz - n |-> Contents[n + i]]
  BY <1>1, <1>2, Z3
<1>4. Contents' = [i \in 1 .. sz - n |-> Contents'[i]]
  BY DEF Contents
<1>5. ASSUME NEW i \in 1 .. sz - n
      PROVE  Contents'[i] = Contents[n + i]
  <2>1. i - 1 \in Nat /\ n + (i - 1) <= Capacity /\ n + i \in 1 .. sz
    BY <1>1
  <2>2. (((head + n) % Capacity) + (i - 1)) % Capacity = (head + n + (i - 1)) % Capacity
    BY <1>1, <2>1, IndexAdvance
  <2>3. head + n + (i - 1) = head + (n + i) - 1
    BY <1>1
  <2>4. (head + n) % Capacity \in Int
    BY <1>1, ModRange
  <2>5. ((head + n) % Capacity) + i - 1 = ((head + n) % Capacity) + (i - 1)
    BY <2>1, <2>4
  <2> QED BY <2>1, <2>2, <2>3, <2>5 DEF Contents
<1> QED BY <1>2, <1>3, <1>4, <1>5

\* What peek_output copies is the front of that string.
LEMMA FrontIsPrefix ==
  ASSUME IInv, NEW len \in 0 .. MaxLen
  PROVE  Front(len) = SubSeq(Contents, 1, min(len, Len(Contents)))
<1>1. sz \in Nat /\ MaxLen \in Nat
  BY RingAssumption DEF IInv, TypeOK
<1>2. Contents \in Seq(Byte) /\ Len(Contents) = sz
  BY ContentsIsSeq
<1>3. min(len, sz) \in Nat /\ min(len, sz) <= sz
  BY <1>1 DEF min
<1>4. SubSeq(Contents, 1, min(len, sz)) = [i \in 1 .. min(len, sz) |-> Contents[i]]
  BY <1>2, <1>3
<1>5. \A i \in 1 .. min(len, sz) : Contents[i] = buf[(head + i - 1) % Capacity]
  BY <1>1, <1>3 DEF Contents
<1> QED BY <1>2, <1>4, <1>5 DEF Front

-----------------------------------------------------------------------------
\* The value of a stream, and the set such values are taken from.
Record(c, b, w, r, e, x) ==
  [capacity |-> c, buf |-> b, written |-> w, read |-> r, ended |-> e, error |-> x]

Records(C, B, W, R, E, X) ==
  [capacity : C, buf : B, written : W, read : R, ended : E, error : X]

\* The value the ring stands for.
str == Record(Capacity, Contents, write_bytes, read_bytes, input_ended, error)

\* Stream values with the same fields are the same value.
LEMMA SameFields ==
  ASSUME NEW C, NEW B, NEW W, NEW R, NEW E, NEW X,
         NEW s \in Records(C, B, W, R, E, X), NEW t \in Records(C, B, W, R, E, X),
         s.capacity = t.capacity, s.buf = t.buf, s.written = t.written,
         s.read = t.read, s.ended = t.ended, s.error = t.error
  PROVE  s = t
  BY SMT DEF Records

\* The update Written makes.
LEMMA WrittenRecord ==
  ASSUME NEW b2, NEW w2
  PROVE  [str EXCEPT !.buf = b2, !.written = w2]
           = Record(Capacity, b2, w2, read_bytes, input_ended, error)
<1> DEFINE S == Records({Capacity}, {Contents, b2}, {write_bytes, w2},
                        {read_bytes}, {input_ended}, {error})
           s == [str EXCEPT !.buf = b2, !.written = w2]
           t == Record(Capacity, b2, w2, read_bytes, input_ended, error)
<1>1. str \in S /\ str.capacity = Capacity /\ str.read = read_bytes /\ str.ended = input_ended /\ str.error = error
  BY DEF str, Record, Records
<1>2. /\ t \in S /\ t.capacity = Capacity /\ t.buf = b2 /\ t.written = w2
      /\ t.read = read_bytes /\ t.ended = input_ended /\ t.error = error
  BY DEF Record, Records
<1> HIDE DEF t
<1>3. s \in S
  BY <1>1, Zenon DEF Records
<1>4. /\ s.capacity = Capacity /\ s.buf = b2 /\ s.written = w2
      /\ s.read = read_bytes /\ s.ended = input_ended /\ s.error = error
  BY <1>1, SMT DEF Records
<1> HIDE DEF s, S
<1>5. s = t
  BY <1>2, <1>3, <1>4, SameFields DEF S
<1> QED BY <1>5 DEF s, t

\* The update Popped makes.
LEMMA PoppedRecord ==
  ASSUME NEW b2, NEW r2
  PROVE  [str EXCEPT !.buf = b2, !.read = r2]
           = Record(Capacity, b2, write_bytes, r2, input_ended, error)
<1> DEFINE S == Records({Capacity}, {Contents, b2}, {write_bytes},
                        {read_bytes, r2}, {input_ended}, {error})
           s == [str EXCEPT !.buf = b2, !.read = r2]
           t == Record(Capacity, b2, write_bytes, r2, input_ended, error)
<1>1. str \in S /\ str.capacity = Capacity /\ str.written = write_bytes /\ str.ended = input_ended /\ str.error = error
  BY DEF str, Record, Records
<1>2. /\ t \in S /\ t.capacity = Capacity /\ t.buf = b2 /\ t.written = write_bytes
      /\ t.read = r2 /\ t.ended = input_ended /\ t.error = error
  BY DEF Record, Records
<1> HIDE DEF t
<1>3. s \in S
  BY <1>1, Zenon DEF Records
<1>4. /\ s.capacity = Capacity /\ s.buf = b2 /\ s.written = write_bytes
      /\ s.read = r2 /\ s.ended = input_ended /\ s.error = error
  BY <1>1, SMT DEF Records
<1> HIDE DEF s, S
<1>5. s = t
  BY <1>2, <1>3, <1>4, SameFields DEF S
<1> QED BY <1>5 DEF s, t

\* The updates Ended and Failed make.
LEMMA MarkedRecord ==
  ASSUME NEW mark
  PROVE  /\ [str EXCEPT !.ended = mark]
              = Record(Capacity, Contents, write_bytes, read_bytes, mark, error)
         /\ [str EXCEPT !.error = mark]
              = Record(Capacity, Contents, write_bytes, read_bytes, input_ended, mark)
  BY SMT DEF str, Record

\* Each call of byte_stream.cc, whatever the caller does, is the operator of
\* ByteStreams that stands for it in the other modules.
THEOREM CallsAreOperators == Spec => Calls!Spec
<1>1. Init => Calls!Init
  <2> SUFFICES ASSUME Init PROVE Calls!Init
    OBVIOUS
  <2>1. Contents = <<>>
    BY DEF Init, Contents
  <2> QED BY <2>1, Zenon DEF Init, Calls!Init, Calls!NewStream
<1>2. IInv /\ [Next]_vars => [Calls!Next]_(Calls!vars)
  <2> SUFFICES ASSUME IInv, [Next]_vars PROVE [Calls!Next]_(Calls!vars)
    OBVIOUS
  <2>0. Len(Contents) = sz
    BY ContentsIsSeq
  <2>p. ASSUME NEW len \in 0 .. MaxLen
        PROVE  Calls!Popped(str, len)
                 = Record(Capacity, SubSeq(Contents, min(len, sz) + 1, Len(Contents)),
                          write_bytes, (read_bytes + min(len, sz)) % UIntMod,
                          input_ended, error)
    <3>1. str.buf = Contents /\ str.read = read_bytes
      BY DEF str, Record
    <3>2. Calls!min(len, Len(Contents)) = min(len, sz)
      BY <2>0 DEF Calls!min, min
    <3>3. \A b2, r2 : [str EXCEPT !.buf = b2, !.read = r2]
                        = Record(Capacity, b2, write_bytes, r2, input_ended, error)
      BY PoppedRecord, Zenon
    <3> QED BY <3>1, <3>2, <3>3, Zenon DEF Calls!Popped
  <2>1. ASSUME NEW data \in Data, write(data) PROVE Calls!Next
    <3> DEFINE n == min(Len(data), Capacity - sz)
    <3>1. Contents' = Contents \o SubSeq(data, 1, n)
      BY <2>1, ContentsWritten, Zenon
    <3>2. /\ write_bytes' = (write_bytes + n) % UIntMod
          /\ UNCHANGED <<read_bytes, input_ended, error, got>>
      BY <2>1, WriteCountIsMin DEF write, IInv
    <3>3. Calls!Accepted(str, data) = n
      BY <2>0 DEF Calls!Accepted, Calls!RemainingCapacity, Calls!min, min, str, Record
    <3>4. Calls!Written(str, data)
            = Record(Capacity, Contents \o SubSeq(data, 1, n), (write_bytes + n) % UIntMod,
                     read_bytes, input_ended, error)
      <4>1. str.buf = Contents /\ str.written = write_bytes
        BY DEF str, Record
      <4>2. \A b2, w2 : [str EXCEPT !.buf = b2, !.written = w2]
                          = Record(Capacity, b2, w2, read_bytes, input_ended, error)
        BY WrittenRecord, Zenon
      <4> HIDE DEF n
      <4> QED BY <3>3, <4>1, <4>2, Zenon DEF Calls!Written
    <3>5. Calls!write(data)
      BY <3>1, <3>2, <3>4 DEF Calls!write, str, Record
    <3>6. data \in Calls!Data
      BY <2>1 DEF Data, Calls!Data
    <3> QED BY <3>5, <3>6 DEF Calls!Next
  <2>2. ASSUME NEW len \in 0 .. MaxLen, peek_output(len) PROVE Calls!Next
    <3>1. Contents' = Contents
      BY <2>2 DEF peek_output, Contents
    <3>2. Calls!peek_output(len)
      BY <2>2, <3>1, FrontIsPrefix DEF peek_output, Calls!peek_output, Calls!Peek, Calls!min, min
    <3> QED BY <3>2 DEF Calls!Next
  <2>3. ASSUME NEW len \in 0 .. MaxLen, pop_output(len) PROVE Calls!Next
    <3>1. Contents' = SubSeq(Contents, min(len, sz) + 1, Len(Contents))
      BY <2>3, FrontIsSeq, ContentsTaken, Zenon DEF pop_output
    <3>2. Calls!pop_output(len)
      BY <2>3, <2>p, <3>1 DEF pop_output, Calls!pop_output, str, Record
    <3> QED BY <3>2 DEF Calls!Next
  <2>4. ASSUME NEW len \in 0 .. MaxLen, read(len) PROVE Calls!Next
    <3>1. Contents' = SubSeq(Contents, min(len, sz) + 1, Len(Contents))
      BY <2>4, FrontIsSeq, ContentsTaken, Zenon DEF read
    <3>2. Calls!read(len)
      <4>1. Calls!Peek(str, len) = Front(len)
        BY FrontIsPrefix DEF Calls!Peek, Calls!min, min, str, Record
      <4> QED BY <2>4, <2>p, <3>1, <4>1 DEF read, Calls!read, str, Record
    <3> QED BY <3>2 DEF Calls!Next
  <2>5. CASE end_input
    <3>1. Contents' = Contents
      BY <2>5 DEF end_input, Contents
    <3>2. Calls!end_input
      <4>1. PICK mark : mark = TRUE
        OBVIOUS
      <4>2. [str EXCEPT !.ended = mark]
              = Record(Capacity, Contents, write_bytes, read_bytes, mark, error)
        BY MarkedRecord, Zenon
      <4>3. Calls!Ended(str) = [str EXCEPT !.ended = mark]
        BY <4>1 DEF Calls!Ended
      <4> QED BY <2>5, <3>1, <4>1, <4>2, <4>3 DEF end_input, Calls!end_input, str, Record
    <3> QED BY <3>2 DEF Calls!Next
  <2>6. CASE set_error
    <3>1. Contents' = Contents
      BY <2>6 DEF set_error, Contents
    <3>2. Calls!set_error
      <4>1. PICK mark : mark = TRUE
        OBVIOUS
      <4>2. [str EXCEPT !.error = mark]
              = Record(Capacity, Contents, write_bytes, read_bytes, input_ended, mark)
        BY MarkedRecord, Zenon
      <4>3. Calls!Failed(str) = [str EXCEPT !.error = mark]
        BY <4>1 DEF Calls!Failed
      <4> QED BY <2>6, <3>1, <4>1, <4>2, <4>3 DEF set_error, Calls!set_error, str, Record
    <3> QED BY <3>2 DEF Calls!Next
  <2>7. CASE UNCHANGED vars
    BY <2>7 DEF vars, Contents, Calls!vars
  <2> QED BY <2>1, <2>2, <2>3, <2>4, <2>5, <2>6, <2>7 DEF Next
<1>3. Spec => []IInv
  BY Invariance, PTL DEF IInv
<1> QED BY <1>1, <1>2, <1>3, PTL DEF Spec, Calls!Spec

-----------------------------------------------------------------------------
\* While the caller keeps to the interface the totals have not wrapped.
TotalsExact == kept => write_bytes = read_bytes + sz

\* What a write of a caller who keeps to the interface does to the totals.
LEMMA KeptWrite ==
  ASSUME IInv, NEW data \in Data, write(data), Keeps(data)
  PROVE  /\ write_bytes' = write_bytes + min(Len(data), Capacity - sz)
         /\ sz' = sz + min(Len(data), Capacity - sz)
         /\ read_bytes' = read_bytes
<1> DEFINE n == min(Len(data), Capacity - sz)
<1>1. WriteCount(data) = n
  BY WriteCountIsMin DEF IInv
<1>2. /\ Len(data) \in Nat /\ sz \in 0 .. Capacity /\ Capacity \in Nat
      /\ write_bytes \in 0 .. UIntMod - 1 /\ UIntMod \in Nat /\ UIntMod >= 1
  BY DataIsSeq, RingAssumption, UIntAssumption DEF IInv, TypeOK
<1>3. n \in Nat
  BY <1>2 DEF min
<1>4. /\ write_bytes' = (write_bytes + n) % UIntMod
      /\ sz' = sz + n /\ read_bytes' = read_bytes
  BY <1>1 DEF write
<1>5. write_bytes + n < UIntMod
  BY <1>1 DEF Keeps
<1> HIDE DEF n
<1>6. (write_bytes + n) % UIntMod = write_bytes + n
  BY <1>2, <1>3, <1>5, ModSmall
<1>7. write_bytes' = write_bytes + n /\ sz' = sz + n /\ read_bytes' = read_bytes
  BY <1>4, <1>6
<1> QED BY <1>7 DEF n

\* What taking bytes away does to the total of the bytes popped.
LEMMA KeptTake ==
  ASSUME IInv, write_bytes = read_bytes + sz, NEW n \in 0 .. sz,
         read_bytes' = (read_bytes + n) % UIntMod
  PROVE  read_bytes' = read_bytes + n
<1>1. /\ sz \in Nat /\ n \in Nat /\ n <= sz /\ read_bytes \in Nat
      /\ write_bytes < UIntMod /\ UIntMod \in Nat /\ UIntMod >= 1
  BY RingAssumption, UIntAssumption DEF IInv, TypeOK
<1>2. read_bytes + n \in 0 .. UIntMod - 1
  BY <1>1
<1>3. (read_bytes + n) % UIntMod = read_bytes + n
  BY <1>1, <1>2, ModSmall
<1> QED BY <1>3

\* A step of a caller who keeps to the interface keeps the totals exact.
LEMMA TotalsStayExact ==
  ASSUME IInv, TotalsExact, [Next]_vars
  PROVE  TotalsExact'
<1> SUFFICES ASSUME kept' PROVE write_bytes' = read_bytes' + sz'
  BY DEF TotalsExact
<1>0. /\ sz \in Nat /\ read_bytes \in Nat /\ Capacity \in Nat /\ sz <= Capacity
  BY RingAssumption, UIntAssumption DEF IInv, TypeOK
<1>1. ASSUME NEW data \in Data, write(data), kept' = (kept /\ Keeps(data))
      PROVE  write_bytes' = read_bytes' + sz'
  <2>1. kept /\ Keeps(data)
    BY <1>1, Zenon
  <2>2. write_bytes = read_bytes + sz
    BY <2>1 DEF TotalsExact
  <2>3. min(Len(data), Capacity - sz) \in Nat
    BY <1>0, DataIsSeq DEF min
  <2> QED BY <1>0, <1>1, <2>1, <2>2, <2>3, KeptWrite
<1>2. ASSUME NEW len \in 0 .. MaxLen, pop_output(len) \/ read(len), UNCHANGED kept
      PROVE  write_bytes' = read_bytes' + sz'
  <2>1. kept
    BY <1>2
  <2>2. write_bytes = read_bytes + sz
    BY <2>1 DEF TotalsExact
  <2>3. min(len, sz) \in 0 .. sz
    BY FrontIsSeq
  <2>4. /\ read_bytes' = (read_bytes + min(len, sz)) % UIntMod
        /\ sz' = sz - min(len, sz) /\ write_bytes' = write_bytes
    BY <1>2 DEF pop_output, read
  <2>5. read_bytes' = read_bytes + min(len, sz)
    BY <2>2, <2>3, <2>4, KeptTake
  <2> QED BY <1>0, <2>2, <2>3, <2>4, <2>5
<1>3. ASSUME UNCHANGED <<kept, write_bytes, read_bytes, sz>>
      PROVE  write_bytes' = read_bytes' + sz'
  BY <1>3 DEF TotalsExact
<1> QED BY <1>1, <1>2, <1>3, Zenon DEF Next, vars, peek_output, end_input, set_error

\* The ring buffer does what byte_stream.hh says, for every caller who writes
\* nothing after end_input and no more than the totals can count: each call of
\* byte_stream.cc is then the call of the same name of ByteStreamSpec.
THEOREM Refinement == Spec => ImplementsFifo
<1>1. Init => Fifo!Init /\ TotalsExact
  <2> SUFFICES ASSUME Init PROVE Fifo!Init /\ TotalsExact
    OBVIOUS
  <2>1. Contents = <<>>
    BY DEF Init, Contents
  <2>2. Fifo!Init
    BY <2>1, Zenon DEF Init, Fifo!Init
  <2>3. TotalsExact
    BY DEF Init, TotalsExact
  <2> QED BY <2>2, <2>3
<1>2. IInv /\ TotalsExact /\ [Next]_vars => TotalsExact'
  BY TotalsStayExact
<1>3. IInv /\ TotalsExact /\ [Next]_vars => [kept' => Fifo!Next]_vars
  <2> SUFFICES ASSUME IInv, TotalsExact, Next, kept' PROVE Fifo!Next
    OBVIOUS
  <2>0. Len(Contents) = sz
    BY ContentsIsSeq
  <2>m. \A a, b : Fifo!min(a, b) = min(a, b)
    BY DEF Fifo!min, min
  <2>1. ASSUME NEW data \in Data, write(data), kept' = (kept /\ Keeps(data)) PROVE Fifo!Next
    <3> DEFINE n == min(Len(data), Capacity - sz)
    <3>1. Keeps(data)
      BY <2>1, Zenon
    <3>2. Contents' = Contents \o SubSeq(data, 1, n)
      BY <2>1, ContentsWritten, Zenon
    <3>3. write_bytes' = write_bytes + n
      BY <2>1, <3>1, KeptWrite, Zenon
    <3>4. UNCHANGED <<read_bytes, input_ended, error, got>>
      BY <2>1 DEF write
    <3>5. Fifo!min(Len(data), Capacity - Len(Contents)) = n
      BY <2>0, <2>m, Zenon
    <3>6. input_ended => data = <<>>
      BY <3>1 DEF Keeps
    <3> HIDE DEF n
    <3>7. Fifo!write(data)
      BY <3>2, <3>3, <3>4, <3>5, <3>6, Zenon DEF Fifo!write
    <3>8. data \in Fifo!Data
      BY DEF Data, Fifo!Data
    <3> QED BY <3>7, <3>8 DEF Fifo!Next
  <2>p. ASSUME NEW len \in 0 .. MaxLen, pop_output(len) \/ read(len), UNCHANGED kept
        PROVE  Fifo!Pop(len)
    <3>1. write_bytes = read_bytes + sz
      BY <2>p DEF TotalsExact
    <3>2. min(len, sz) \in 0 .. sz
      BY FrontIsSeq
    <3>3. /\ head' = (head + min(len, sz)) % Capacity /\ sz' = sz - min(len, sz) /\ buf' = buf
          /\ read_bytes' = (read_bytes + min(len, sz)) % UIntMod
          /\ UNCHANGED <<write_bytes, input_ended, error>>
      BY <2>p DEF pop_output, read
    <3>4. Contents' = SubSeq(Contents, min(len, sz) + 1, Len(Contents))
      BY <3>2, <3>3, ContentsTaken, Zenon
    <3>5. read_bytes' = read_bytes + min(len, sz)
      BY <3>1, <3>2, <3>3, KeptTake, Zenon
    <3>6. Fifo!min(len, Len(Contents)) = min(len, sz)
      BY <2>0, <2>m, Zenon
    <3> QED BY <3>3, <3>4, <3>5, <3>6, Zenon DEF Fifo!Pop
  <2>f. ASSUME NEW len \in 0 .. MaxLen
        PROVE  Front(len) = Fifo!Peeked(len)
    BY FrontIsPrefix, <2>m, Zenon DEF Fifo!Peeked
  <2>2. ASSUME NEW len \in 0 .. MaxLen, peek_output(len) PROVE Fifo!Next
    <3>1. Contents' = Contents
      BY <2>2 DEF peek_output, Contents
    <3>2. Fifo!peek_output(len)
      BY <2>2, <2>f, <3>1, Zenon DEF peek_output, Fifo!peek_output
    <3> QED BY <3>2 DEF Fifo!Next
  <2>3. ASSUME NEW len \in 0 .. MaxLen, pop_output(len), UNCHANGED kept PROVE Fifo!Next
    <3>1. Fifo!pop_output(len)
      BY <2>3, <2>p, Zenon DEF pop_output, Fifo!pop_output
    <3> QED BY <3>1 DEF Fifo!Next
  <2>4. ASSUME NEW len \in 0 .. MaxLen, read(len), UNCHANGED kept PROVE Fifo!Next
    <3>1. Fifo!read(len)
      BY <2>4, <2>p, <2>f, Zenon DEF read, Fifo!read
    <3> QED BY <3>1 DEF Fifo!Next
  <2>5. CASE end_input
    <3>1. Contents' = Contents
      BY <2>5 DEF end_input, Contents
    <3>2. Fifo!end_input
      BY <2>5, <3>1, Zenon DEF end_input, Fifo!end_input
    <3> QED BY <3>2 DEF Fifo!Next
  <2>6. CASE set_error
    <3>1. Contents' = Contents
      BY <2>6 DEF set_error, Contents
    <3>2. Fifo!set_error
      BY <2>6, <3>1, Zenon DEF set_error, Fifo!set_error
    <3> QED BY <3>2 DEF Fifo!Next
  <2> QED BY <2>1, <2>2, <2>3, <2>4, <2>5, <2>6, Zenon DEF Next
<1>4. Spec => []IInv
  BY Invariance, PTL DEF IInv
<1> QED BY <1>1, <1>2, <1>3, <1>4, PTL DEF Spec, ImplementsFifo
=============================================================================
