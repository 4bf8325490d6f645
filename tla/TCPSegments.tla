---------------------------- MODULE TCPSegments ----------------------------
(***************************************************************************)
(* A TCPSegment (tcp_helpers/tcp_segment.hh) with the fields of its header *)
(* (tcp_helpers/tcp_header.hh) that libsponge reads.                       *)
(***************************************************************************)
EXTENDS Integers, Sequences

\* A bool used in arithmetic.
BoolToNat(b) == IF b THEN 1 ELSE 0

\* A segment as the constructor leaves it, but for its seqno.
NewSegment(seqno) ==
  [seqno |-> seqno, syn |-> FALSE, fin |-> FALSE, rst |-> FALSE,
   ack |-> FALSE, ackno |-> 0, win |-> 0, payload |-> <<>>]

length_in_sequence_space(seg) ==
  Len(seg.payload) + BoolToNat(seg.syn) + BoolToNat(seg.fin)
=============================================================================
