--------------------------- MODULE ReassemblySpec ---------------------------
(***************************************************************************)
(* What a StreamReassembler promises to a sender that respects the window: *)
(* no byte it was given is ever forgotten, and the output holds the stream *)
(* up to the first byte that is missing.  How the bytes are kept does not  *)
(* show.                                                                   *)
(***************************************************************************)
EXTENDS ByteStreams, FiniteSetsExt

CONSTANTS Capacity, StreamLen

VARIABLES have,    \* the indices of the bytes pushed so far
          fin,     \* whether the end of the stream is known
          output   \* the ByteStream the reader sees

vars == <<have, fin, output>>

FirstMissing(S) == Min((0 .. StreamLen) \ S)

Init == /\ have = {}
        /\ fin = FALSE
        /\ output = NewStream(Capacity)

push_substring(index, n, eof) ==
  LET all  == have \cup (index .. index + n - 1)
      from == FirstMissing(have)
      to   == FirstMissing(all)
      new  == Written(output, Bytes(from, to - from))
  IN  /\ index + n <= from + RemainingCapacity(output)
      /\ eof => index + n = StreamLen
      /\ have' = all
      /\ fin' = (fin \/ eof)
      /\ output' = IF fin' /\ to = StreamLen THEN Ended(new) ELSE new

read(len) == /\ len \in 1 .. Len(output.buf)
             /\ output' = Popped(output, len)
             /\ UNCHANGED <<have, fin>>

Next == \/ \E index \in 0 .. StreamLen : \E n \in 0 .. StreamLen - index :
             \E eof \in BOOLEAN : push_substring(index, n, eof)
        \/ \E len \in 1 .. Capacity : read(len)

Spec == Init /\ [][Next]_vars
=============================================================================
