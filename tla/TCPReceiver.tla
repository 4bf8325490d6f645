---------------------------- MODULE TCPReceiver ----------------------------
(***************************************************************************)
(* libsponge/tcp_receiver.cc.  The record `rcv` holds the members of the   *)
(* class without their underscore.  The peer's stream takes the absolute   *)
(* sequence numbers 0 (SYN), 1 .. StreamLen (its bytes) and StreamLen + 1  *)
(* (FIN); a segment carries a range of them, and the network may lose,     *)
(* repeat and reorder segments: any range may arrive at any time that the  *)
(* peer may have sent by then.                                             *)
(***************************************************************************)
EXTENDS Reassembler, WrappingIntegers, TCPSegments

CONSTANTS Capacity,    \* the constructor's argument
          StreamLen    \* length of the peer's stream

ASSUME ReceiverAssumption == /\ Capacity \in Nat /\ Capacity >= 1
                             /\ StreamLen \in Nat

VARIABLES rcv,
          peer_isn,    \* the peer's initial sequence number
          arrived      \* the sequence numbers that arrived within the window
vars == <<rcv, peer_isn, arrived>>

SeqLen == StreamLen + 2

NewReceiver(capacity) ==
  [reassembler |-> NewReassembler(capacity), syn_arrived |-> FALSE, isn |-> 0,
   ackno |-> 0]

\* A mistake: the window also shrinks by the bytes waiting for reassembly.
WindowLessUnassembled(r) ==
  RemainingCapacity(r.reassembler.output) - r.reassembler.unassembled_bytes

window_size(r) == RemainingCapacity(r.reassembler.output)

\* What ackno returns when it has a value, that is when _syn_arrived.
AckNo(r) == wrap(r.ackno, r.isn)

\* A mistake: the SYN is counted as a byte of the stream.
StreamIndexAfterSyn(idx, seg) == idx - 1

StreamIndex(idx, seg) == idx - 1 + BoolToNat(seg.syn)

\* A mistake: the FIN is never acknowledged.
NextAckNoFin(reasm, seg) == reasm.nidx + 1

\* A mistake: a FIN is counted when it arrives and when the stream ends.
NextAckFinTwice(reasm, seg) ==
  reasm.nidx + 1 + BoolToNat(seg.fin) + BoolToNat(reasm.output.ended)

\* A mistake: a FIN is acknowledged when it is seen, ahead of the bytes before it.
NextAckFinSeen(reasm, seg) == reasm.nidx + 1 + BoolToNat(reasm.eof)

NextAck(reasm, seg) == reasm.nidx + 1 + BoolToNat(reasm.output.ended)

SegmentReceived(r, seg) ==
  LET s     == IF seg.syn THEN [r EXCEPT !.syn_arrived = TRUE, !.isn = seg.seqno] ELSE r
      idx   == unwrap(seg.seqno, s.isn, s.ackno)
      reasm == PushSubstring(s.reassembler, seg.payload, StreamIndex(idx, seg), seg.fin)
  IN  IF ~s.syn_arrived \/ (idx = 0 /\ ~seg.syn) \/ idx >= window_size(s) + s.ackno
      THEN s
      ELSE [s EXCEPT !.reassembler = reasm, !.ackno = NextAck(reasm, seg)]

-----------------------------------------------------------------------------
\* The first sequence number past the window.
WindowEnd(r) == r.ackno + window_size(r)

\* The segment that carries the n sequence numbers from a on.
Segment(a, n) ==
  LET syn == a = 0 /\ n > 0
      fin == n > 0 /\ a + n = SeqLen
      i   == a - 1 + BoolToNat(syn)
  IN  [NewSegment(wrap(a, peer_isn)) EXCEPT
         !.syn = syn, !.fin = fin,
         !.payload = Bytes(i, n - BoolToNat(syn) - BoolToNat(fin))]

\* The peer sends what fits the window, and one number past it when it is zero;
\* nothing arrives half the sequence space late.
MaySend(a, n) ==
  /\ a + n <= WindowEnd(rcv) \/ (window_size(rcv) = 0 /\ a = WindowEnd(rcv) /\ n = 1)
  /\ rcv.ackno - a < M \div 2 /\ a - rcv.ackno < M \div 2

Init == /\ rcv = NewReceiver(Capacity)
        /\ peer_isn \in WrappingInt32
        /\ arrived = {}

segment_received(a, n) ==
  /\ MaySend(a, n)
  /\ rcv' = SegmentReceived(rcv, Segment(a, n))
  /\ arrived' = IF rcv'.syn_arrived
                THEN arrived \cup {i \in a .. a + n - 1 : i < WindowEnd(rcv)}
                ELSE arrived
  /\ UNCHANGED peer_isn

\* The owner of stream_out reads.
read(len) ==
  /\ len \in 1 .. Len(rcv.reassembler.output.buf)
  /\ rcv' = [rcv EXCEPT !.reassembler.output = Popped(@, len)]
  /\ UNCHANGED <<peer_isn, arrived>>

Next == \/ \E a \in 0 .. SeqLen : \E n \in 0 .. SeqLen - a : segment_received(a, n)
        \/ \E len \in 1 .. Capacity : read(len)

Spec == Init /\ [][Next]_vars

-----------------------------------------------------------------------------
Substrings == {Bytes(i, n) : i, n \in 0 .. StreamLen}

TypeOK ==
  LET r == rcv.reassembler
  IN  /\ r.output \in [capacity : {Capacity}, buf : Substrings,
                       written : 0 .. UIntMod - 1, read : 0 .. UIntMod - 1,
                       ended : BOOLEAN, error : BOOLEAN]
      /\ DOMAIN r.mp \subseteq 0 .. StreamLen + 1  \* an empty segment after the FIN
      /\ Range(r.mp) \subseteq Substrings
      /\ r.nidx \in 0 .. StreamLen
      /\ r.eof \in BOOLEAN
      /\ r.eidx \in {0, StreamLen}
      /\ r.unassembled_bytes \in 0 .. StreamLen
      /\ rcv.syn_arrived \in BOOLEAN
      /\ rcv.isn \in WrappingInt32
      /\ rcv.ackno \in 0 .. SeqLen

\* unwrap recovers the absolute number that was wrapped whenever it lies less
\* than half the 32-bit space from the checkpoint, in either direction and across
\* a wrap-around (TCPReceiver::segment_received unwraps around _ackno).
RoundTrip ==
  \A x \in 0 .. SeqLen + M :
    (x - rcv.ackno < M \div 2 /\ rcv.ackno - x < M \div 2)
      => unwrap(wrap(x, peer_isn), peer_isn, rcv.ackno) = x

\* wrapping_integers.cc:25: unwrap returns "the 64-bit sequence number that
\* wraps to `n` and is closest to `checkpoint`", here for every 32-bit n and the
\* checkpoints a receiver goes through: no absolute number with the same wrapped
\* value is nearer.
Nearest ==
  \A n \in WrappingInt32 :
    LET a == unwrap(n, peer_isn, rcv.ackno)
        Distance(b) == IF b > rcv.ackno THEN b - rcv.ackno ELSE rcv.ackno - b
    IN  /\ a >= 0
        /\ wrap(a, peer_isn) = n
        /\ \A b \in 0 .. SeqLen + M : wrap(b, peer_isn) = n => Distance(a) <= Distance(b)

\* tcp_receiver.hh:41-42: the ackno is "the sequence number of the first byte in
\* the stream that the receiver hasn't received", counting SYN and FIN, however
\* segments overlap, repeat and overtake each other: what arrives within the
\* window is never asked for again, and what has not arrived is never
\* acknowledged.
AckIsFirstMissing == rcv.ackno = Min((0 .. SeqLen) \ arrived)

\* The bytes reach the reader in order, and the receiver stays within its
\* capacity (stream_reassembler.hh:32-33), although it checks only where a segment
\* starts.
AssembledInOrder ==
  LET r == rcv.reassembler
  IN  /\ BytesInPlace(r) /\ GapsBetween(r)
      /\ Len(r.output.buf) + r.unassembled_bytes <= Capacity

Assembly == INSTANCE ReassemblySpec WITH
              have   <- Have(rcv.reassembler),
              fin    <- rcv.reassembler.eof,
              output <- rcv.reassembler.output

\* Behind the window that the receiver enforces, the reassembler forgets no byte
\* it was given and moves _nidx to the first one missing: neither the truncation
\* to store_size nor a full _output ever loses a byte.
ImplementsReassembly == Assembly!Spec

\* The window never takes back what it offered: its right edge, ackno plus
\* window_size, only moves right, whatever arrives or is read.
EdgeNeverMovesLeft == [][WindowEnd(rcv') >= WindowEnd(rcv) /\ rcv'.ackno >= rcv.ackno]_vars
=============================================================================
