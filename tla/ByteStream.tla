----------------------------- MODULE ByteStream -----------------------------
(***************************************************************************)
(* libsponge/byte_stream.cc: the ring buffer behind a ByteStream.  The     *)
(* variables are the members of the class without their underscore; `got`  *)
(* is the string the last peek_output or read returned.  `kept` is no     *)
(* member: it says whether the caller has kept to byte_stream.hh so far.   *)
(***************************************************************************)
EXTENDS ByteStreams

CONSTANTS Capacity, Byte, MaxLen,
          Blank       \* the character the constructor fills _buf with

ASSUME RingAssumption == /\ Capacity \in Nat /\ Capacity >= 1
                         /\ Capacity < UIntMod
                         /\ MaxLen \in Nat
                         /\ Blank \in Byte

VARIABLES buf, head, tail, sz, read_bytes, write_bytes, input_ended, error, got, kept
vars == <<buf, head, tail, sz, read_bytes, write_bytes, input_ended, error, got, kept>>

Data == UNION {[1 .. n -> Byte] : n \in 0 .. MaxLen}

TypeOK == /\ buf \in [0 .. Capacity -> Byte]
          /\ head \in 0 .. Capacity - 1
          /\ tail \in 0 .. Capacity - 1
          /\ sz \in 0 .. Capacity
          /\ read_bytes \in 0 .. UIntMod - 1
          /\ write_bytes \in 0 .. UIntMod - 1
          /\ input_ended \in BOOLEAN
          /\ error \in BOOLEAN
          /\ got \in Seq(Byte)
          /\ kept \in BOOLEAN

Init == /\ buf = [i \in 0 .. Capacity |-> Blank]
        /\ head = 0 /\ tail = 0 /\ sz = 0
        /\ read_bytes = 0 /\ write_bytes = 0
        /\ input_ended = FALSE /\ error = FALSE
        /\ got = <<>>
        /\ kept = TRUE

\* The loop of write stops after k bytes: the data is used up, or its guard
\* (_tail != _head || _sz != _capacity) is false.
WriteStops(data, k) == \/ k = Len(data)
                       \/ (tail + k) % Capacity = head /\ sz + k = Capacity

\* The bytes the loop stores: the first k at which it stops.
WriteCount(data) ==
  CHOOSE k \in 0 .. Len(data) :
    WriteStops(data, k) /\ \A j \in 0 .. k - 1 : ~WriteStops(data, j)

write(data) ==
  LET n == WriteCount(data)
      Turn(i) == (i - tail) % Capacity     \* the iteration that stores at i
  IN  /\ buf' = [i \in 0 .. Capacity |->
                   IF i < Capacity /\ Turn(i) < n THEN data[Turn(i) + 1] ELSE buf[i]]
      /\ tail' = (tail + n) % Capacity
      /\ sz' = sz + n
      /\ write_bytes' = (write_bytes + n) % UIntMod
      /\ UNCHANGED <<head, read_bytes, input_ended, error, got>>

\* A mistake: the index is advanced before the byte is taken.
FrontLate(len) == [i \in 1 .. min(len, sz) |-> buf[(head + i) % Capacity]]

Front(len) == [i \in 1 .. min(len, sz) |-> buf[(head + i - 1) % Capacity]]

peek_output(len) ==
  /\ got' = Front(len)
  /\ UNCHANGED <<buf, head, tail, sz, read_bytes, write_bytes, input_ended, error>>

\* A mistake: _head stays where it is.
pop_output_KeepsHead(len) ==
  LET n == min(len, sz)
  IN  /\ sz' = sz - n
      /\ read_bytes' = (read_bytes + n) % UIntMod
      /\ UNCHANGED <<buf, head, tail, write_bytes, input_ended, error, got>>

pop_output(len) ==
  LET n == min(len, sz)
  IN  /\ head' = (head + n) % Capacity
      /\ sz' = sz - n
      /\ read_bytes' = (read_bytes + n) % UIntMod
      /\ UNCHANGED <<buf, tail, write_bytes, input_ended, error, got>>

\* A mistake: the bytes read are the bytes asked for.
read_CountsLen(len) ==
  LET n == min(len, sz)
  IN  /\ got' = Front(len)
      /\ head' = (head + n) % Capacity
      /\ sz' = sz - n
      /\ read_bytes' = (read_bytes + len) % UIntMod
      /\ UNCHANGED <<buf, tail, write_bytes, input_ended, error>>

read(len) ==
  LET n == min(len, sz)
  IN  /\ got' = Front(len)
      /\ head' = (head + n) % Capacity
      /\ sz' = sz - n
      /\ read_bytes' = (read_bytes + n) % UIntMod
      /\ UNCHANGED <<buf, tail, write_bytes, input_ended, error>>

end_input == /\ input_ended' = TRUE
             /\ UNCHANGED <<buf, head, tail, sz, read_bytes, write_bytes, error, got>>

set_error == /\ error' = TRUE
             /\ UNCHANGED <<buf, head, tail, sz, read_bytes, write_bytes, input_ended, got>>

\* What byte_stream.hh asks of the caller of write: no bytes after end_input, and
\* no more in all than the totals can count.
Keeps(data) == /\ input_ended => data = <<>>
               /\ write_bytes + WriteCount(data) < UIntMod

Next == \/ \E data \in Data : write(data) /\ kept' = (kept /\ Keeps(data))
        \/ \E len \in 0 .. MaxLen :
             (peek_output(len) \/ pop_output(len) \/ read(len)) /\ UNCHANGED kept
        \/ end_input /\ UNCHANGED kept
        \/ set_error /\ UNCHANGED kept

Spec == Init /\ [][Next]_vars

-----------------------------------------------------------------------------
\* _tail is where the byte after the last stored one goes, although it, _head
\* and _sz are updated by different calls and each wraps on its own: the guard
\* of the loop in write tells a full ring from an empty one only because of it.
RingInv == tail = (head + sz) % Capacity

\* The two 32-bit counters, which wrap at different times, always differ by
\* the number of bytes in the buffer.
CountersAgree == (write_bytes - read_bytes) % UIntMod = sz

\* The first-in first-out buffer the ring stands for.
Contents == [i \in 1 .. sz |-> buf[(head + i - 1) % Capacity]]

\* Every call, whatever the caller does, is the operator of ByteStreams by which the
\* other classes make it.
Calls == INSTANCE ByteStreamCalls WITH
           stream <- [capacity |-> Capacity, buf |-> Contents,
                      written |-> write_bytes, read |-> read_bytes,
                      ended |-> input_ended, error |-> error]

Fifo == INSTANCE ByteStreamSpec WITH
          buffer <- Contents, bytes_written <- write_bytes, bytes_read <- read_bytes

\* As long as the caller writes nothing after end_input and less than 2^32 bytes,
\* every call does to the first-in first-out buffer and to its totals what
\* byte_stream.hh says, however often the ring has gone round.  The code checks
\* neither of the two: write (byte_stream.cc:18) takes bytes after end_input, where
\* byte_stream.hh:10 says that "no more bytes can be written", and the "Total number
\* of bytes written" (byte_stream.hh:85) starts again at 0.
ImplementsFifo == Fifo!Init /\ [][kept' => Fifo!Next]_vars
=============================================================================
