--------------------------- MODULE ByteStreamSpec ---------------------------
(***************************************************************************)
(* What byte_stream.hh promises of a ByteStream: the buffer between the    *)
(* "input" and the "output" side, the totals of the bytes written and      *)
(* popped, which are numbers without a bound, the end of the input, after  *)
(* which no more bytes can be written, and the error.  `got` is the string *)
(* the last peek_output or read returned.                                  *)
(***************************************************************************)
EXTENDS Integers, Sequences

CONSTANTS Capacity,   \* the constructor's argument
          Byte,       \* the values of a char
          MaxLen      \* bound on the length of one write, peek, pop or read

VARIABLES buffer, bytes_written, bytes_read, input_ended, error, got
vars == <<buffer, bytes_written, bytes_read, input_ended, error, got>>

Data == UNION {[1 .. n -> Byte] : n \in 0 .. MaxLen}

min(a, b) == IF a <= b THEN a ELSE b

Init == /\ buffer = <<>>
        /\ bytes_written = 0 /\ bytes_read = 0
        /\ input_ended = FALSE /\ error = FALSE
        /\ got = <<>>

\* As many bytes as will fit; none once the input has ended.
write(data) ==
  LET n == min(Len(data), Capacity - Len(buffer))
  IN  /\ input_ended => data = <<>>
      /\ buffer' = buffer \o SubSeq(data, 1, n)
      /\ bytes_written' = bytes_written + n
      /\ UNCHANGED <<bytes_read, input_ended, error, got>>

Peeked(len) == SubSeq(buffer, 1, min(len, Len(buffer)))

peek_output(len) == /\ got' = Peeked(len)
                    /\ UNCHANGED <<buffer, bytes_written, bytes_read, input_ended, error>>

\* The next len bytes leave the buffer.
Pop(len) ==
  LET n == min(len, Len(buffer))
  IN  /\ buffer' = SubSeq(buffer, n + 1, Len(buffer))
      /\ bytes_read' = bytes_read + n
      /\ UNCHANGED <<bytes_written, input_ended, error>>

pop_output(len) == Pop(len) /\ UNCHANGED got

read(len) == Pop(len) /\ got' = Peeked(len)

end_input == /\ input_ended' = TRUE
             /\ UNCHANGED <<buffer, bytes_written, bytes_read, error, got>>

set_error == /\ error' = TRUE
             /\ UNCHANGED <<buffer, bytes_written, bytes_read, input_ended, got>>

Next == \/ \E data \in Data : write(data)
        \/ \E len \in 0 .. MaxLen : peek_output(len) \/ pop_output(len) \/ read(len)
        \/ end_input
        \/ set_error

Spec == Init /\ [][Next]_vars
=============================================================================
