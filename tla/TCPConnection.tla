--------------------------- MODULE TCPConnection ---------------------------
(***************************************************************************)
(* libsponge/tcp_connection.cc: the handlers of TCPConnection, which move  *)
(* segments between its TCPReceiver, its TCPSender and its owner.  The     *)
(* record `conn` holds the members of the class without their underscore;  *)
(* each handler is an operator from one value of it to the next.           *)
(***************************************************************************)
EXTENDS ByteStreams, WrappingIntegers, TCPSegments

CONSTANTS RecvCapacity, SendCapacity, RtTimeout, FixedIsn,   \* TCPConfig
          MaxPayload, MaxRetx,                               \* TCPConfig, static
          LingerTime,    \* 10 * TCPConfig::rt_timeout
          StreamLen      \* bound: length of the stream either side writes

VARIABLE conn

S == INSTANCE TCPSender WITH snd <- conn.sender, MaxWindow <- RecvCapacity, MaxBackoff <- 0

R == INSTANCE TCPReceiver WITH rcv <- conn.receiver, Capacity <- RecvCapacity,
                               peer_isn <- 0, arrived <- {}

NewConnection ==
  [receiver |-> R!NewReceiver(RecvCapacity), sender |-> S!NewSender, segments_out |-> <<>>,
   linger_after_streams_finish |-> TRUE, linger_time |-> 0, active |-> TRUE]

inbound_stream(c) == c.receiver.reassembler.output

\* Both streams are marked and the connection is over.
Reset(c) ==
  [c EXCEPT !.receiver.reassembler.output = Failed(@),
            !.sender.stream = Failed(@),
            !.active = FALSE]

\* The segment is sent without the receiver's ackno, and stays in the sender's
\* queue as well.
send_rst(c) ==
  LET s == S!SendEmptySegment(c.sender)
      q == s.segments_out
  IN  Reset([c EXCEPT !.sender = s,
                      !.segments_out = <<[q[Len(q)] EXCEPT !.rst = TRUE]>>])

\* A mistake: the bytes in flight are not looked at.
StreamsFinishedUnacked(c) == Eof(inbound_stream(c)) /\ Eof(c.sender.stream)

StreamsFinished(c) ==
  Eof(inbound_stream(c)) /\ Eof(c.sender.stream) /\ c.sender.bytes_in_flight = 0

\* A mistake: nobody lingers.
try_clean_closed_AtOnce(c) == IF StreamsFinished(c) THEN [c EXCEPT !.active = FALSE] ELSE c

try_clean_closed(c) ==
  IF StreamsFinished(c) /\ (~c.linger_after_streams_finish \/ c.linger_time >= LingerTime)
  THEN [c EXCEPT !.active = FALSE]
  ELSE c

\* A segment gets the receiver's ackno and window when it leaves the sender's
\* queue; the window fits 16 bits.
Stamped(c, seg) ==
  IF c.receiver.syn_arrived
  THEN [seg EXCEPT !.ack = TRUE,
                   !.ackno = R!AckNo(c.receiver),
                   !.win = R!window_size(c.receiver)]
  ELSE seg

update_queue(c) ==
  LET q == c.sender.segments_out
  IN  [c EXCEPT !.segments_out = @ \o [i \in 1 .. Len(q) |-> Stamped(c, q[i])],
                !.sender.segments_out = <<>>]

FilledWindow(c) == update_queue([c EXCEPT !.sender = S!FillWindow(@)])

EmptySegmentSent(c) == update_queue([c EXCEPT !.sender = S!SendEmptySegment(@)])

\* What an acknowledgment does to the sender.
AckTaken(c, seg) ==
  LET acked == [c EXCEPT !.sender = S!AckReceived(@, seg.ackno, seg.win)]
  IN  IF ~seg.ack THEN c
      ELSE IF acked.sender.next_seqno # 0 THEN FilledWindow(acked) ELSE acked

\* A mistake: whoever receives a FIN need not linger, even after its own FIN.
ClosingNoticedAlways(c) ==
  IF Eof(inbound_stream(c)) THEN [c EXCEPT !.linger_after_streams_finish = FALSE] ELSE c

\* The peer ended its stream first.
ClosingNoticed(c) ==
  IF Eof(inbound_stream(c)) /\ ~Eof(c.sender.stream)
  THEN [c EXCEPT !.linger_after_streams_finish = FALSE]
  ELSE c

\* The answer to a segment: the SYN of a passive open, or an empty segment for
\* one that takes sequence numbers or for a keep-alive.
Replied(c, seg) ==
  IF length_in_sequence_space(seg) # 0 /\ c.receiver.syn_arrived
  THEN IF c.sender.next_seqno = 0 /\ seg.syn THEN FilledWindow(c) ELSE EmptySegmentSent(c)
  ELSE IF c.receiver.syn_arrived /\ seg.seqno = (R!AckNo(c.receiver) - 1) % M
       THEN EmptySegmentSent(c)
       ELSE c

SegmentReceived(c, seg) ==
  LET heard == [c EXCEPT !.linger_time = 0]
      taken == AckTaken([heard EXCEPT !.receiver = R!SegmentReceived(@, seg)], seg)
  IN  IF seg.rst THEN Reset(heard)
      ELSE Replied(try_clean_closed(ClosingNoticed(taken)), seg)

Write(c, data) == FilledWindow([c EXCEPT !.sender.stream = Written(@, data)])

EndInputStream(c) == FilledWindow([c EXCEPT !.sender.stream = Ended(@)])

Connect(c) == FilledWindow(c)

\* _linger_time is counted up to LingerTime, which is all it is compared with.
Tick(c, ms) ==
  LET ticked == update_queue([c EXCEPT !.sender = S!Tick(@, ms)])
      later  == [ticked EXCEPT !.linger_time = min(@ + ms, LingerTime)]
  IN  IF later.sender.timer.consecutive_retransmissions > MaxRetx
      THEN send_rst(later)
      ELSE try_clean_closed(later)

\* What the destructor leaves behind.
Destructed(c) == IF c.active THEN send_rst(c) ELSE c
=============================================================================
