------------------------- MODULE StreamReassembler -------------------------
(***************************************************************************)
(* A StreamReassembler and its callers: substrings of a stream, in any     *)
(* order and with any overlap, and a reader.                               *)
(***************************************************************************)
EXTENDS Reassembler

CONSTANTS Capacity,    \* the constructor's argument
          StreamLen,   \* length of the stream the substrings come from
          Overrun      \* how far a substring may reach past the window

ASSUME ReassemblerAssumption ==
  /\ Capacity \in Nat /\ Capacity >= 1
  /\ StreamLen \in Nat
  /\ Overrun \in Nat

VARIABLE reasm

Init == reasm = NewReassembler(Capacity)

\* Only a substring that ends the stream is marked eof.
push_substring(index, n, eof) ==
  /\ index + n <= Edge(reasm) + Overrun
  /\ eof => index + n = StreamLen
  /\ reasm' = PushSubstring(reasm, Bytes(index, n), index, eof)

\* The owner of stream_out reads.
read(len) ==
  /\ len \in 1 .. Len(reasm.output.buf)
  /\ reasm' = [reasm EXCEPT !.output = Popped(@, len)]

Next == \/ \E index \in 0 .. StreamLen : \E n \in 0 .. StreamLen - index :
             \E eof \in BOOLEAN : push_substring(index, n, eof)
        \/ \E len \in 1 .. Capacity : read(len)

Spec == Init /\ [][Next]_reasm

-----------------------------------------------------------------------------
\* However substrings overlap, what is kept in _mp lies beyond _nidx and is
\* merged: between two entries, and before the first, at least one byte is
\* missing (the loops of push_substring look at one neighbour at a time).
Separated == GapsBetween(reasm)

\* stream_reassembler.hh:48-49: a byte that was pushed more than once is counted
\* once by unassembled_bytes.
CountedOnce == reasm.unassembled_bytes = Cardinality(Held(reasm))

\* Every byte is where the sender put it, however the substrings overlap: none is
\* missing from _output, repeated in it or out of order.
InPlace == BytesInPlace(reasm)

\* The output ends exactly when the last byte of the stream and the end mark
\* have both arrived, in whichever order.
EndsWhenComplete == reasm.output.ended <=> reasm.eof /\ reasm.nidx = StreamLen
=============================================================================
