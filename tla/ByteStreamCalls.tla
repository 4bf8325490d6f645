-------------------------- MODULE ByteStreamCalls --------------------------
(***************************************************************************)
(* The calls of a ByteStream as the other classes make them: each is one   *)
(* of the operators of ByteStreams on a single value, whatever the caller  *)
(* does.  `got` is the string the last peek_output or read returned.       *)
(***************************************************************************)
EXTENDS ByteStreams

CONSTANTS Capacity,   \* the constructor's argument
          Byte,       \* the values of a char
          MaxLen      \* bound on the length of one write, peek, pop or read

VARIABLES stream, got
vars == <<stream, got>>

Data == UNION {[1 .. n -> Byte] : n \in 0 .. MaxLen}

Init == stream = NewStream(Capacity) /\ got = <<>>

write(data) == stream' = Written(stream, data) /\ UNCHANGED got

peek_output(len) == got' = Peek(stream, len) /\ UNCHANGED stream

pop_output(len) == stream' = Popped(stream, len) /\ UNCHANGED got

read(len) == stream' = Popped(stream, len) /\ got' = Peek(stream, len)

end_input == stream' = Ended(stream) /\ UNCHANGED got

set_error == stream' = Failed(stream) /\ UNCHANGED got

Next == \/ \E data \in Data : write(data)
        \/ \E len \in 0 .. MaxLen : peek_output(len) \/ pop_output(len) \/ read(len)
        \/ end_input
        \/ set_error

Spec == Init /\ [][Next]_vars
=============================================================================
