----------------------------- MODULE TCPSender -----------------------------
(***************************************************************************)
(* libsponge/tcp_sender.cc: the class TCPSender and its retransmission     *)
(* Timer.  The record `snd` holds the members of the classes without their *)
(* underscore.  The owner, TCPConnection, calls fill_window after whatever *)
(* may open the window or add to the stream and then takes segments_out    *)
(* away, so those are part of the actions.                                 *)
(***************************************************************************)
EXTENDS ByteStreams, WrappingIntegers, TCPSegments

CONSTANTS SendCapacity,  \* TCPConfig::send_capacity
          MaxPayload,    \* TCPConfig::MAX_PAYLOAD_SIZE
          RtTimeout,     \* TCPConfig::rt_timeout
          FixedIsn,      \* TCPConfig::fixed_isn
          MaxRetx,       \* TCPConfig::MAX_RETX_ATTEMPTS
          StreamLen,     \* bound: length of the stream the application writes
          MaxWindow,     \* bound: largest window the peer advertises
          MaxBackoff     \* bound: largest _base_RTO (any acknowledgment resets the
                         \* count of retransmissions but not _base_RTO)

ASSUME SenderAssumption ==
  /\ {SendCapacity, MaxPayload, RtTimeout} \subseteq Nat \ {0}
  /\ FixedIsn \in WrappingInt32
  /\ {MaxRetx, StreamLen, MaxWindow, MaxBackoff} \subseteq Nat

VARIABLE snd

-----------------------------------------------------------------------------
NewTimer == [running |-> FALSE, RTO |-> RtTimeout, base_RTO |-> RtTimeout,
             consecutive_retransmissions |-> 0, outstandings |-> <<>>]

NewSender ==
  [isn |-> FixedIsn, segments_out |-> <<>>, stream |-> NewStream(SendCapacity),
   next_seqno |-> 0, bytes_in_flight |-> 0, window_size |-> 1, ackno |-> 0,
   fin_sended |-> FALSE, timer |-> NewTimer]

on(t) == [t EXCEPT !.running = TRUE]

push_outstanding(t, seg, end_seqno) ==
  [t EXCEPT !.outstandings = Append(@, [seg |-> seg, end_seqno |-> end_seqno])]

Expired(t, ticks) == t.running /\ t.RTO <= ticks

tick_handle(t, ticks, window_size) ==
  LET base == IF window_size # 0 THEN 2 * t.base_RTO ELSE t.base_RTO
  IN  IF Expired(t, ticks)
      THEN [t EXCEPT !.consecutive_retransmissions = @ + BoolToNat(window_size # 0),
                     !.base_RTO = base,
                     !.RTO = base]
      ELSE [t EXCEPT !.RTO = IF t.running THEN @ - ticks ELSE @]

\* The number of outstanding segments that the loop of ack_handle pops.
Acked(t, ackno) ==
  CHOOSE k \in 0 .. Len(t.outstandings) :
    /\ \A j \in 1 .. k : t.outstandings[j].end_seqno <= ackno
    /\ k < Len(t.outstandings) => t.outstandings[k + 1].end_seqno > ackno

\* A mistake: the timer is restarted by every acknowledgment.
ack_handle_Restarts(t, ackno) ==
  LET k    == Acked(t, ackno)
      rest == SubSeq(t.outstandings, k + 1, Len(t.outstandings))
  IN  [running |-> t.running /\ rest # <<>>, RTO |-> RtTimeout, base_RTO |-> RtTimeout,
       consecutive_retransmissions |-> 0, outstandings |-> rest]

\* A mistake: the timer runs on when everything is acknowledged.
ack_handle_KeepsRunning(t, ackno) ==
  LET k == Acked(t, ackno)
  IN  [running |-> t.running,
       RTO |-> IF k > 0 THEN RtTimeout ELSE t.RTO,
       base_RTO |-> IF k > 0 THEN RtTimeout ELSE t.base_RTO,
       consecutive_retransmissions |-> 0,
       outstandings |-> SubSeq(t.outstandings, k + 1, Len(t.outstandings))]

ack_handle(t, ackno) ==
  LET k    == Acked(t, ackno)
      rest == SubSeq(t.outstandings, k + 1, Len(t.outstandings))
  IN  [running |-> t.running /\ rest # <<>>,
       RTO |-> IF k > 0 THEN RtTimeout ELSE t.RTO,
       base_RTO |-> IF k > 0 THEN RtTimeout ELSE t.base_RTO,
       consecutive_retransmissions |-> 0,
       outstandings |-> rest]

\* A mistake: SYN and FIN are not counted.
AckedPayload(t, ackno) ==
  LET total[k \in 0 .. Len(t.outstandings)] ==
        IF k = 0 THEN 0 ELSE total[k - 1] + Len(t.outstandings[k].seg.payload)
  IN  total[Acked(t, ackno)]

\* The sequence numbers that the first k outstanding segments take.
LengthOfFirst(outstandings) ==
  LET total[k \in 0 .. Len(outstandings)] ==
        IF k = 0 THEN 0
        ELSE total[k - 1] + length_in_sequence_space(outstandings[k].seg)
  IN  total

\* What ack_handle returns: the sequence numbers of the popped segments.
AckedLength(t, ackno) == LengthOfFirst(t.outstandings)[Acked(t, ackno)]

-----------------------------------------------------------------------------
\* A mistake: a zero window is taken as it is, so that nothing probes it.
EndSeqnoNoProbe(s) == s.ackno + s.window_size

\* A mistake: every window is probed one number past its end, not only a zero one.
EndSeqnoAlwaysProbes(s) == s.ackno + s.window_size + 1

EndSeqno(s) == s.ackno + (IF s.window_size > 0 THEN s.window_size ELSE 1)

\* The condition of the loop in fill_window.
MoreToSend(s) ==
  /\ ~s.fin_sended
  /\ s.next_seqno < EndSeqno(s)
  /\ ~BufferEmpty(s.stream) \/ s.next_seqno = 0 \/ Eof(s.stream)

\* A mistake: the FIN goes with bytes still to be read.
FinGoesWhenEnded(s, rest, seg) ==
  length_in_sequence_space(seg) < EndSeqno(s) - s.next_seqno /\ rest.ended

\* Whether seg, after which `rest` is left of the stream, gets the FIN.
FinGoes(s, rest, seg) ==
  length_in_sequence_space(seg) < EndSeqno(s) - s.next_seqno /\ Eof(rest)

\* The bytes that the next segment takes from the stream.
ReadLen(s) ==
  min(min(EndSeqno(s) - s.next_seqno - BoolToNat(s.next_seqno = 0), Len(s.stream.buf)),
      MaxPayload)

\* The segment that the next turn of the loop in fill_window sends.
NextSegment(s) ==
  LET data == [NewSegment(wrap(s.next_seqno, s.isn)) EXCEPT
                 !.syn = s.next_seqno = 0, !.payload = Peek(s.stream, ReadLen(s))]
  IN  [data EXCEPT !.fin = FinGoes(s, Popped(s.stream, ReadLen(s)), data)]

\* One turn of the loop in fill_window.
SendSegment(s) ==
  LET seg  == NextSegment(s)
      next == s.next_seqno + length_in_sequence_space(seg)
  IN  [s EXCEPT
         !.stream = Popped(@, ReadLen(s)),
         !.fin_sended = seg.fin,
         !.bytes_in_flight = @ + length_in_sequence_space(seg),
         !.next_seqno = next,
         !.segments_out = Append(@, seg),
         !.timer = push_outstanding(on(@), seg, next)]

Turn(s) == IF MoreToSend(s) THEN SendSegment(s) ELSE s

\* The sender after k turns.
Turns(s) ==
  LET turn[k \in Nat] == IF k = 0 THEN s ELSE Turn(turn[k - 1])
  IN  turn

\* The loop: every turn takes at least one sequence number.
FillWindow(s) == IF MoreToSend(s) THEN Turns(s)[EndSeqno(s) - s.next_seqno] ELSE s

AckReceived(s, ackno, window_size) ==
  LET abs == unwrap(ackno, s.isn, s.next_seqno)
  IN  IF abs > s.next_seqno THEN s
      ELSE [s EXCEPT !.ackno = abs,
                     !.window_size = window_size,
                     !.bytes_in_flight = @ - AckedLength(s.timer, abs),
                     !.timer = ack_handle(@, abs)]

Tick(s, ms) ==
  [s EXCEPT !.segments_out = IF Expired(s.timer, ms)
                             THEN Append(@, s.timer.outstandings[1].seg) ELSE @,
            !.timer = tick_handle(@, ms, s.window_size)]

SendEmptySegment(s) ==
  [s EXCEPT !.segments_out = Append(@, NewSegment(wrap(s.next_seqno, s.isn)))]

-----------------------------------------------------------------------------
\* The owner takes segments_out away after every call.
Drained(s) == [s EXCEPT !.segments_out = <<>>]

\* The bytes of the stream that are in segments, and those written so far.
BytesSent(s) == s.next_seqno - BoolToNat(s.next_seqno > 0) - BoolToNat(s.fin_sended)
BytesWritten(s) == BytesSent(s) + Len(s.stream.buf)

Init == snd = NewSender

\* TCPConnection::connect
connect == snd' = FillWindow(Drained(snd))

\* TCPConnection::write and end_input_stream; the application does not write
\* after it ended the stream.
write(n) ==
  /\ ~snd.stream.ended
  /\ BytesWritten(snd) + n <= StreamLen
  /\ snd' = FillWindow([Drained(snd) EXCEPT !.stream = Written(@, Bytes(BytesWritten(snd), n))])

end_input ==
  /\ ~snd.stream.ended
  /\ snd' = FillWindow([Drained(snd) EXCEPT !.stream = Ended(@)])

\* TCPConnection::segment_received, once the SYN was sent.
ack_received(ackno, window_size) ==
  /\ snd.next_seqno # 0
  /\ snd' = FillWindow(AckReceived(Drained(snd), ackno, window_size))

\* TCPConnection::tick, which gives up after MaxRetx retransmissions.
tick(ms) == /\ snd.timer.consecutive_retransmissions <= MaxRetx
            /\ snd.timer.base_RTO <= MaxBackoff
            /\ snd' = Tick(Drained(snd), ms)

send_empty_segment == snd' = SendEmptySegment(Drained(snd))

\* Acknowledgments may say anything here.
Next == \/ connect
        \/ \E n \in 1 .. StreamLen : write(n)
        \/ end_input
        \/ \E ackno \in WrappingInt32, window_size \in 0 .. MaxWindow :
             ack_received(ackno, window_size)
        \/ \E ms \in 1 .. RtTimeout : tick(ms)
        \/ send_empty_segment

Spec == Init /\ [][Next]_snd

-----------------------------------------------------------------------------
Start(o) == o.end_seqno - length_in_sequence_space(o.seg)

\* bytes_in_flight is exactly what the outstanding segments carry, and they are
\* the unbroken run of sequence numbers up to _next_seqno, whatever
\* acknowledgments arrive in whatever order (it is a counter that ack_received
\* lowers and fill_window raises, and TCPConnection closes when it is 0).
InFlight ==
  LET outs == snd.timer.outstandings
      n    == Len(outs)
  IN  /\ snd.bytes_in_flight = IF n = 0 THEN 0 ELSE snd.next_seqno - Start(outs[1])
      /\ n > 0 => outs[n].end_seqno = snd.next_seqno
      /\ \A i \in 1 .. n - 1 : outs[i].end_seqno = Start(outs[i + 1])

\* The timer runs exactly while something is outstanding (tick_handle takes the
\* front of the queue without looking whether there is one), and when it stops
\* it is back at its initial timeout.
TimerRuns ==
  /\ snd.timer.running <=> snd.timer.outstandings # <<>>
  /\ ~snd.timer.running => snd.timer.RTO = RtTimeout /\ snd.timer.base_RTO = RtTimeout

\* However the window cuts the stream into segments, each outstanding one says
\* where its bytes belong, the unsent bytes follow on, and only the end of the
\* ended stream carries the FIN.
SegmentsInPlace ==
  /\ \A i \in 1 .. Len(snd.timer.outstandings) :
       LET o   == snd.timer.outstandings[i]
           seg == o.seg
       IN  /\ seg.seqno = wrap(Start(o), snd.isn)
           /\ seg.syn <=> Start(o) = 0
           /\ seg.payload = Bytes(Start(o) - 1 + BoolToNat(seg.syn), Len(seg.payload))
           /\ Len(seg.payload) <= MaxPayload
           /\ seg.fin => /\ i = Len(snd.timer.outstandings)
                         /\ Eof(snd.stream) /\ snd.fin_sended
  /\ snd.stream.buf = Bytes(BytesSent(snd), Len(snd.stream.buf))

\* tests/send_extra.cc:95: "Timer doesn't restart without ACK of new data": the
\* timeout is extended only by its own expiry or by an acknowledgment that
\* covers a whole outstanding segment.
RestartsOnNewData ==
  [][snd'.timer.RTO > snd.timer.RTO
       => \/ snd.timer.outstandings = <<>>
          \/ snd'.timer.outstandings = <<>>
          \/ snd'.timer.outstandings[1] # snd.timer.outstandings[1]
          \/ snd'.segments_out = <<snd.timer.outstandings[1].seg>>]_snd
=============================================================================
