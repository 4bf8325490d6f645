---------------------------- MODULE ByteStreams ----------------------------
(***************************************************************************)
(* A ByteStream as the other classes see it (the public interface of       *)
(* libsponge/byte_stream.hh): a bounded first-in first-out buffer of bytes *)
(* with an end mark, an error mark and two counters.  That the ring buffer *)
(* of byte_stream.cc implements these operators, also where they do more   *)
(* than byte_stream.hh says, is proved in ByteStreamProofs.                *)
(*                                                                         *)
(* The counters _read_bytes and _write_bytes are `unsigned`: UIntMod       *)
(* stands for 2^32.                                                        *)
(***************************************************************************)
EXTENDS Integers, Sequences

CONSTANT UIntMod

ASSUME UIntAssumption == UIntMod \in Nat /\ UIntMod >= 2

min(a, b) == IF a <= b THEN a ELSE b

\* The n bytes of a stream from index i on, for the classes that move bytes
\* without looking at them: the byte at index i is i itself.
Bytes(i, n) == [k \in 1 .. n |-> i + k - 1]

NewStream(capacity) ==
  [capacity |-> capacity, buf |-> <<>>, written |-> 0, read |-> 0,
   ended |-> FALSE, error |-> FALSE]

RemainingCapacity(s) == s.capacity - Len(s.buf)

\* What write returns: the number of bytes accepted.
Accepted(s, data) == min(Len(data), RemainingCapacity(s))

Written(s, data) ==
  LET n == Accepted(s, data)
  IN  [s EXCEPT !.buf = @ \o SubSeq(data, 1, n),
                !.written = (@ + n) % UIntMod]

Peek(s, len) == SubSeq(s.buf, 1, min(len, Len(s.buf)))

Popped(s, len) ==
  LET n == min(len, Len(s.buf))
  IN  [s EXCEPT !.buf = SubSeq(@, n + 1, Len(@)),
                !.read = (@ + n) % UIntMod]

Ended(s) == [s EXCEPT !.ended = TRUE]

Failed(s) == [s EXCEPT !.error = TRUE]

BufferEmpty(s) == s.buf = <<>>

Eof(s) == s.ended /\ BufferEmpty(s)
=============================================================================
