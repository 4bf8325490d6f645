-------------------------- MODULE TCPSenderProofs --------------------------
(***************************************************************************)
(* The retransmission queue, the timer and the segments of a TCPSender,    *)
(* for every capacity, payload size, timeout, window, sequence space and   *)
(* stream, and for every order of calls and acknowledgments.               *)
(***************************************************************************)
EXTENDS TCPSender, WrappingProofs

-----------------------------------------------------------------------------
(* The inductive invariant, of a sender s. *)

Segments == [seqno : WrappingInt32, syn : BOOLEAN, fin : BOOLEAN, rst : BOOLEAN,
             ack : BOOLEAN, ackno : Int, win : Int, payload : Seq(Int)]

Outstandings == [seg : Segments, end_seqno : Nat]

TimerOK(t) ==
  /\ t = [running |-> t.running, RTO |-> t.RTO, base_RTO |-> t.base_RTO,
          consecutive_retransmissions |-> t.consecutive_retransmissions,
          outstandings |-> t.outstandings]
  /\ t.RTO \in Nat /\ t.base_RTO \in Nat /\ t.consecutive_retransmissions \in Nat
  /\ t.outstandings \in Seq(Outstandings)

SenderOK(s) ==
  /\ s = [isn |-> s.isn, segments_out |-> s.segments_out, stream |-> s.stream,
          next_seqno |-> s.next_seqno, bytes_in_flight |-> s.bytes_in_flight,
          window_size |-> s.window_size, ackno |-> s.ackno,
          fin_sended |-> s.fin_sended, timer |-> s.timer]
  /\ s.isn \in WrappingInt32
  /\ StreamOK(s.stream)
  /\ s.next_seqno \in Nat /\ s.window_size \in Nat /\ s.ackno \in Nat
  /\ TimerOK(s.timer)

\* The outstanding segments are an unbroken run of sequence numbers.
Unbroken(outs) == \A i \in 1 .. Len(outs) - 1 : outs[i].end_seqno = Start(outs[i + 1])

Flight(s) ==
  LET outs == s.timer.outstandings
      n    == Len(outs)
  IN  /\ s.bytes_in_flight = IF n = 0 THEN 0 ELSE s.next_seqno - Start(outs[1])
      /\ n > 0 => outs[n].end_seqno = s.next_seqno
      /\ Unbroken(outs)

Timed(t) ==
  /\ t.running <=> t.outstandings # <<>>
  /\ ~t.running => t.RTO = RtTimeout /\ t.base_RTO = RtTimeout

\* An outstanding segment says where its bytes belong.
WellMade(o, isn) ==
  /\ o.seg.seqno = wrap(Start(o), isn)
  /\ o.seg.syn <=> Start(o) = 0
  /\ o.seg.payload = Bytes(Start(o) - 1 + BoolToNat(o.seg.syn), Len(o.seg.payload))
  /\ Len(o.seg.payload) <= MaxPayload

Placed(s) ==
  LET outs == s.timer.outstandings
  IN  /\ \A i \in 1 .. Len(outs) :
           /\ WellMade(outs[i], s.isn)
           /\ outs[i].seg.fin => i = Len(outs) /\ s.fin_sended
      /\ s.fin_sended => Eof(s.stream)
      /\ s.stream.buf = Bytes(BytesSent(s), Len(s.stream.buf))

SInv(s) == SenderOK(s) /\ Flight(s) /\ Timed(s.timer) /\ Placed(s)

-----------------------------------------------------------------------------
(* Segments. *)

\* A segment takes as many sequence numbers as it has bytes and flags
\* (TCPSegment::length_in_sequence_space).
LEMMA SegmentLength ==
  ASSUME NEW seg \in Segments
  PROVE  /\ length_in_sequence_space(seg) \in Nat
         /\ Len(seg.payload) \in Nat
         /\ length_in_sequence_space(seg) >= Len(seg.payload)
<1>1. seg.payload \in Seq(Int)
  BY DEF Segments
<1>2. Len(seg.payload) \in Nat
  BY <1>1
<1>3. BoolToNat(seg.syn) \in Nat /\ BoolToNat(seg.fin) \in Nat
  BY DEF BoolToNat
<1> QED BY <1>2, <1>3 DEF length_in_sequence_space

\* The start of an outstanding segment is a number.
LEMMA StartIsInt ==
  ASSUME NEW o \in Outstandings
  PROVE  Start(o) \in Int
  BY SegmentLength DEF Outstandings, Start

\* A turn of the loop in fill_window sends the next bytes of the stream, at least
\* one sequence number and no more than the window has room for.
LEMMA NextSegmentFits ==
  ASSUME NEW s, SInv(s), MoreToSend(s),
         NEW seg, seg = NextSegment(s), NEW n, n = ReadLen(s)
  PROVE  /\ seg \in Segments
         /\ n \in 0 .. Len(s.stream.buf) /\ n <= MaxPayload
         /\ seg.seqno = wrap(s.next_seqno, s.isn)
         /\ seg.syn <=> s.next_seqno = 0
         /\ seg.payload = Bytes(BytesSent(s), n) /\ Len(seg.payload) = n
         /\ seg.fin => Eof(Popped(s.stream, n))
         /\ length_in_sequence_space(seg) >= 1
         /\ s.next_seqno + length_in_sequence_space(seg) <= EndSeqno(s)
<1> DEFINE b    == Len(s.stream.buf)
           syn  == s.next_seqno = 0
           room == EndSeqno(s) - s.next_seqno
           data == [NewSegment(wrap(s.next_seqno, s.isn)) EXCEPT
                      !.syn = syn, !.payload = Peek(s.stream, n)]
           rest == Popped(s.stream, n)
           fin  == FinGoes(s, rest, data)
<1>1. /\ StreamOK(s.stream) /\ s.next_seqno \in Nat /\ EndSeqno(s) \in Nat
      /\ s.isn \in WrappingInt32
      /\ s.stream.buf = Bytes(BytesSent(s), b) /\ ~s.fin_sended
      /\ room \in Nat /\ room >= 1
  BY DEF SInv, SenderOK, Placed, MoreToSend, EndSeqno
<1>2. b \in Nat /\ MaxPayload \in Nat /\ MaxPayload >= 1
  BY <1>1, SenderAssumption, SMTT(30) DEF StreamOK, Streams
<1>3. BytesSent(s) \in Int /\ BytesSent(s) = s.next_seqno - 1 + BoolToNat(syn)
  BY <1>1 DEF BytesSent, BoolToNat
<1>4. n = min(min(room - BoolToNat(syn), b), MaxPayload)
  BY DEF ReadLen
<1>5. /\ n \in 0 .. b /\ n <= MaxPayload /\ n + BoolToNat(syn) <= room
      /\ b > 0 /\ ~syn => n >= 1
  BY <1>1, <1>2, <1>4, SMTT(30) DEF min, BoolToNat
<1>6. Peek(s.stream, n) = Bytes(BytesSent(s), n) /\ rest.buf = Bytes(BytesSent(s) + n, b - n)
  BY <1>1, <1>3, <1>5, PoppedBytes
<1>7. Bytes(BytesSent(s), n) \in Seq(Int) /\ Len(Bytes(BytesSent(s), n)) = n
  BY <1>3, <1>5, BytesSeq
<1> DEFINE d == wrap(s.next_seqno, s.isn)
           p == Peek(s.stream, n)
<1>8. d \in WrappingInt32 /\ p \in Seq(Int) /\ Len(p) = n
  <2>1. s.isn + s.next_seqno \in Int /\ M \in Nat /\ M >= 1
    BY <1>1, MAssumption DEF WrappingInt32
  <2> QED BY <1>6, <1>7, <2>1, ModRange, Zenon DEF wrap, WrappingInt32
<1> DEFINE no == FALSE
<1>9. seg = [data EXCEPT !.fin = fin]
  BY DEF NextSegment
<1>10. data = [[seqno |-> d, syn |-> no, fin |-> no, rst |-> no, ack |-> no, ackno |-> 0,
                win |-> 0, payload |-> <<>>] EXCEPT !.syn = syn, !.payload = p]
  BY DEF NewSegment
<1>11. ~no /\ no \in BOOLEAN
  OBVIOUS
<1> HIDE DEF syn, d, p, no, data
<1>12. data = [seqno |-> d, syn |-> syn, fin |-> no, rst |-> no, ack |-> no, ackno |-> 0,
               win |-> 0, payload |-> p]
  BY <1>10, Zenon
<1>13. data.syn = syn /\ data.payload = p /\ data.fin = no
  BY <1>12
<1>14. length_in_sequence_space(data) = n + BoolToNat(syn)
  BY <1>5, <1>8, <1>11, <1>13 DEF length_in_sequence_space, BoolToNat
<1>15. fin <=> n + BoolToNat(syn) < room /\ Eof(rest)
  BY <1>14 DEF FinGoes
<1>16. fin \in BOOLEAN /\ syn \in BOOLEAN
  BY DEF fin, syn, FinGoes
<1> HIDE DEF fin
<1>17. seg = [seqno |-> d, syn |-> syn, fin |-> fin, rst |-> no, ack |-> no,
              ackno |-> 0, win |-> 0, payload |-> p]
  BY <1>9, <1>12
<1>18. seg \in Segments
  BY <1>8, <1>11, <1>17, <1>16 DEF Segments
<1>19. seg.seqno = d /\ seg.syn = syn /\ seg.fin = fin /\ seg.payload = p
  BY <1>17
<1>20. length_in_sequence_space(seg) = n + BoolToNat(syn) + BoolToNat(fin)
  BY <1>8, <1>19 DEF length_in_sequence_space
<1>21. length_in_sequence_space(seg) >= 1
  <2>1. CASE syn
    BY <1>5, <1>20, <2>1 DEF BoolToNat
  <2>2. CASE ~syn /\ b > 0
    BY <1>5, <1>20, <2>2 DEF BoolToNat
  <2>3. CASE ~syn /\ ~(b > 0)
    <3>1. b = 0 /\ n = 0
      BY <1>2, <1>5, <2>3
    <3>2. s.stream.buf = <<>>
      BY <1>1, <1>3, <3>1, BytesEmpty
    <3>3. Eof(s.stream)
      BY <2>3, <3>2 DEF MoreToSend, BufferEmpty, syn
    <3>4. Eof(rest)
      <4>1. rest.ended = s.stream.ended /\ rest.buf = Bytes(BytesSent(s), 0)
        BY <1>1, <1>3, <1>5, <3>1, PoppedBytes
      <4> QED BY <1>3, <3>3, <4>1, BytesEmpty DEF Eof, BufferEmpty
    <3> QED BY <1>1, <1>15, <1>20, <2>3, <3>1, <3>4 DEF BoolToNat
  <2> QED BY <2>1, <2>2, <2>3
<1>22. s.next_seqno + length_in_sequence_space(seg) <= EndSeqno(s)
  BY <1>1, <1>5, <1>15, <1>20 DEF BoolToNat
<1> QED BY <1>5, <1>6, <1>8, <1>15, <1>18, <1>19, <1>21, <1>22, Zenon DEF d, p, syn

\* What a turn of the loop in fill_window assigns.
LEMMA SendSegmentFields ==
  ASSUME NEW s, SInv(s), MoreToSend(s), NEW seg, seg = NextSegment(s),
         NEW t, t = SendSegment(s)
  PROVE  /\ SenderOK(t)
         /\ t.isn = s.isn /\ t.window_size = s.window_size /\ t.ackno = s.ackno
         /\ t.stream = Popped(s.stream, ReadLen(s))
         /\ t.fin_sended = seg.fin
         /\ t.bytes_in_flight = s.bytes_in_flight + length_in_sequence_space(seg)
         /\ t.next_seqno = s.next_seqno + length_in_sequence_space(seg)
         /\ t.timer.outstandings = Append(s.timer.outstandings,
                                          [seg |-> seg, end_seqno |-> t.next_seqno])
         /\ t.timer.running
         /\ t.timer.RTO = s.timer.RTO /\ t.timer.base_RTO = s.timer.base_RTO
<1> DEFINE len  == length_in_sequence_space(seg)
           next == s.next_seqno + len
           up   == on(s.timer)
           tm   == push_outstanding(up, seg, next)
           o    == [seg |-> seg, end_seqno |-> next]
           rest == Popped(s.stream, ReadLen(s))
           outs == Append(s.timer.outstandings, o)
           yes  == TRUE
<1>1. SenderOK(s) /\ TimerOK(s.timer) /\ StreamOK(s.stream)
  BY DEF SInv, SenderOK
<1>2. seg \in Segments /\ len \in Nat /\ next \in Nat
  BY <1>1, NextSegmentFits, SegmentLength DEF SenderOK
<1>3. o \in Outstandings
  BY <1>2 DEF Outstandings
<1>4. up = [s.timer EXCEPT !.running = yes] /\ yes
  BY DEF on
<1>5. tm = [up EXCEPT !.outstandings = Append(up.outstandings, o)]
  BY DEF push_outstanding
<1>6. t = [s EXCEPT !.stream = rest, !.fin_sended = seg.fin,
                    !.bytes_in_flight = s.bytes_in_flight + len, !.next_seqno = next,
                    !.segments_out = Append(s.segments_out, seg), !.timer = tm]
  BY DEF SendSegment
<1> HIDE DEF len, next, up, tm, o, rest, yes
<1>7. /\ up = [running |-> up.running, RTO |-> up.RTO, base_RTO |-> up.base_RTO,
               consecutive_retransmissions |-> up.consecutive_retransmissions,
               outstandings |-> up.outstandings]
      /\ up.running = yes /\ up.RTO = s.timer.RTO /\ up.base_RTO = s.timer.base_RTO
      /\ up.consecutive_retransmissions = s.timer.consecutive_retransmissions
      /\ up.outstandings = s.timer.outstandings
  BY <1>1, <1>4, Zenon DEF TimerOK
<1>8. /\ tm = [running |-> tm.running, RTO |-> tm.RTO, base_RTO |-> tm.base_RTO,
               consecutive_retransmissions |-> tm.consecutive_retransmissions,
               outstandings |-> tm.outstandings]
      /\ tm.running = yes /\ tm.RTO = s.timer.RTO /\ tm.base_RTO = s.timer.base_RTO
      /\ tm.consecutive_retransmissions = s.timer.consecutive_retransmissions
      /\ tm.outstandings = outs
  BY <1>5, <1>7, Zenon
<1>9. TimerOK(tm)
  BY <1>1, <1>3, <1>8, AppendProperties DEF TimerOK
<1>10. /\ t = [isn |-> t.isn, segments_out |-> t.segments_out, stream |-> t.stream,
               next_seqno |-> t.next_seqno, bytes_in_flight |-> t.bytes_in_flight,
               window_size |-> t.window_size, ackno |-> t.ackno,
               fin_sended |-> t.fin_sended, timer |-> t.timer]
       /\ t.isn = s.isn /\ t.window_size = s.window_size /\ t.ackno = s.ackno
       /\ t.stream = rest /\ t.fin_sended = seg.fin
       /\ t.bytes_in_flight = s.bytes_in_flight + len
       /\ t.next_seqno = next /\ t.timer = tm
  BY <1>1, <1>6, Zenon DEF SenderOK
<1>11. StreamOK(rest)
  <2>1. ReadLen(s) \in Nat /\ ReadLen(s) <= Len(s.stream.buf)
    BY <1>1, NextSegmentFits DEF StreamOK, Streams
  <2>2. s.stream.buf = Bytes(BytesSent(s), Len(s.stream.buf)) /\ BytesSent(s) \in Int
    BY <1>1 DEF SInv, Placed, BytesSent, BoolToNat, SenderOK
  <2> QED BY <1>1, <2>1, <2>2, PoppedBytes DEF rest
<1>12. SenderOK(t)
  BY <1>1, <1>2, <1>9, <1>10, <1>11 DEF SenderOK
<1> QED BY <1>4, <1>8, <1>10, <1>12 DEF len, next, o, rest

\* A turn of the loop keeps the invariant and moves on within the window.
LEMMA SendSegmentInv ==
  ASSUME NEW s, SInv(s), MoreToSend(s), NEW t, t = SendSegment(s)
  PROVE  /\ SInv(t)
         /\ t.next_seqno > s.next_seqno /\ t.next_seqno <= EndSeqno(s)
<1> DEFINE seg  == NextSegment(s)
           n    == ReadLen(s)
           len  == length_in_sequence_space(seg)
           o    == [seg |-> seg, end_seqno |-> t.next_seqno]
           a    == s.timer.outstandings
           c    == t.timer.outstandings
           b    == Len(s.stream.buf)
<1>1. /\ seg \in Segments
      /\ n \in 0 .. b /\ n <= MaxPayload
      /\ seg.seqno = wrap(s.next_seqno, s.isn)
      /\ seg.syn <=> s.next_seqno = 0
      /\ seg.payload = Bytes(BytesSent(s), n) /\ Len(seg.payload) = n
      /\ seg.fin => Eof(Popped(s.stream, n))
      /\ len >= 1 /\ s.next_seqno + len <= EndSeqno(s)
  BY NextSegmentFits
<1>2. /\ SenderOK(t)
      /\ t.isn = s.isn /\ t.window_size = s.window_size /\ t.ackno = s.ackno
      /\ t.stream = Popped(s.stream, n)
      /\ t.fin_sended = seg.fin
      /\ t.bytes_in_flight = s.bytes_in_flight + len
      /\ t.next_seqno = s.next_seqno + len
      /\ c = Append(a, o)
      /\ t.timer.running
      /\ t.timer.RTO = s.timer.RTO /\ t.timer.base_RTO = s.timer.base_RTO
  BY SendSegmentFields
<1>3. /\ SenderOK(s) /\ Flight(s) /\ Timed(s.timer) /\ Placed(s) /\ ~s.fin_sended
      /\ s.next_seqno \in Nat /\ StreamOK(s.stream) /\ a \in Seq(Outstandings)
  BY DEF SInv, SenderOK, TimerOK, MoreToSend
<1>4. len \in Nat /\ len = n + BoolToNat(seg.syn) + BoolToNat(seg.fin) /\ n \in Nat /\ b \in Nat
  BY <1>1, <1>3, SegmentLength DEF length_in_sequence_space, StreamOK, Streams
<1>5. t.next_seqno \in Nat /\ o \in Outstandings
  BY <1>1, <1>3, <1>4, <1>2 DEF Outstandings, SenderOK
<1>6. Start(o) = s.next_seqno /\ o.seg = seg /\ o.end_seqno = t.next_seqno
  BY <1>2, <1>3, <1>4 DEF Start
<1> HIDE DEF o, seg, len, n, a, c, b
<1>7. /\ c \in Seq(Outstandings) /\ Len(c) = Len(a) + 1 /\ Len(a) \in Nat
      /\ \A i \in 1 .. Len(a) : c[i] = a[i]
      /\ c[Len(a) + 1] = o
  BY <1>2, <1>3, <1>5, AppendProperties, LenProperties
<1>8. Flight(t)
  <2>1. /\ s.bytes_in_flight = IF Len(a) = 0 THEN 0 ELSE s.next_seqno - Start(a[1])
        /\ Len(a) > 0 => a[Len(a)].end_seqno = s.next_seqno
        /\ \A i \in 1 .. Len(a) - 1 : a[i].end_seqno = Start(a[i + 1])
    BY <1>3 DEF Flight, Unbroken, a
  <2>2. c[Len(c)].end_seqno = t.next_seqno
    BY <1>6, <1>7
  <2>3. ASSUME NEW i \in 1 .. Len(c) - 1
        PROVE  c[i].end_seqno = Start(c[i + 1])
    <3>1. CASE i < Len(a)
      <4>1. i \in 1 .. Len(a) - 1 /\ i \in 1 .. Len(a) /\ i + 1 \in 1 .. Len(a)
        BY <1>7, <3>1
      <4> QED BY <1>7, <2>1, <4>1
    <3>2. CASE i = Len(a)
      <4>1. c[i] = a[i] /\ c[i + 1] = o /\ a[i].end_seqno = s.next_seqno
        BY <1>7, <2>1, <3>2
      <4> QED BY <1>6, <4>1
    <3> QED BY <1>7, <3>1, <3>2
  <2>4. t.bytes_in_flight = t.next_seqno - Start(c[1])
    <3>1. CASE Len(a) = 0
      <4>1. c[1] = o
        BY <1>7, <3>1
      <4> QED BY <1>2, <1>3, <1>4, <1>6, <2>1, <3>1, <4>1
    <3>2. CASE Len(a) # 0
      <4>1. c[1] = a[1] /\ a[1] \in Outstandings
        BY <1>3, <1>7, <3>2, ElementOfSeq
      <4>2. Start(a[1]) \in Int
        BY <4>1, StartIsInt
      <4> QED BY <1>2, <1>3, <1>4, <2>1, <3>2, <4>1, <4>2
    <3> QED BY <3>1, <3>2
  <2>5. Unbroken(c)
    BY <2>3 DEF Unbroken
  <2> QED BY <1>7, <2>2, <2>4, <2>5 DEF Flight, c
<1>9. Timed(t.timer)
  <2>1. c # <<>>
    BY <1>2, <1>3, <1>5, AppendProperties
  <2> QED BY <1>2, <2>1 DEF Timed, c
<1>10. BytesSent(s) \in Int /\ BytesSent(s) = s.next_seqno - 1 + BoolToNat(seg.syn)
  BY <1>1, <1>3 DEF BytesSent, BoolToNat
<1>11. Placed(t)
  <2>1. WellMade(o, t.isn)
    BY <1>1, <1>2, <1>6, <1>10 DEF WellMade
  <2>2. /\ \A i \in 1 .. Len(a) : WellMade(a[i], s.isn) /\ ~a[i].seg.fin
        /\ s.stream.buf = Bytes(BytesSent(s), b)
    BY <1>3 DEF Placed, a, b
  <2>3. ASSUME NEW i \in 1 .. Len(c)
        PROVE  /\ WellMade(c[i], t.isn)
               /\ c[i].seg.fin => i = Len(c) /\ t.fin_sended
    <3>1. CASE i <= Len(a)
      <4>1. i \in 1 .. Len(a)
        BY <1>7, <3>1
      <4> QED BY <1>2, <1>7, <2>2, <4>1
    <3>2. CASE i = Len(a) + 1
      <4>1. c[i] = o /\ i = Len(c)
        BY <1>7, <3>2
      <4> QED BY <1>2, <1>6, <2>1, <4>1
    <3> QED BY <1>7, <3>1, <3>2
  <2>4. t.fin_sended => Eof(t.stream)
    BY <1>1, <1>2
  <2>5. t.stream.buf = Bytes(BytesSent(s) + n, b - n) /\ Len(t.stream.buf) = b - n
    <3>1. s.stream.buf = Bytes(BytesSent(s), Len(s.stream.buf)) /\ BytesSent(s) \in Int
      BY <1>10, <2>2 DEF b
    <3>2. n \in Nat /\ n <= Len(s.stream.buf)
      BY <1>1, <1>4 DEF b
    <3>3. /\ Popped(s.stream, n).buf = Bytes(BytesSent(s) + n, Len(s.stream.buf) - n)
          /\ Len(Popped(s.stream, n).buf) = Len(s.stream.buf) - n
      BY <1>3, <3>1, <3>2, PoppedBytes, Zenon
    <3> QED BY <1>2, <3>3 DEF b
  <2>6. BytesSent(t) = BytesSent(s) + n
    <3>1. BytesSent(t) = t.next_seqno - 1 - BoolToNat(seg.fin)
      BY <1>1, <1>2, <1>3, <1>4 DEF BytesSent, BoolToNat
    <3>2. BoolToNat(seg.syn) \in Nat /\ BoolToNat(seg.fin) \in Nat
      BY DEF BoolToNat
    <3> QED BY <1>2, <1>3, <1>4, <1>10, <3>1, <3>2, SMTT(30)
  <2> QED BY <2>3, <2>4, <2>5, <2>6 DEF Placed, c
<1> QED BY <1>1, <1>2, <1>3, <1>4, <1>8, <1>9, <1>11 DEF SInv

-----------------------------------------------------------------------------
(* The loop of fill_window. *)

Loop == INSTANCE Iteration WITH Step <- Turn

\* The turns of the loop follow each other.
LEMMA TurnsFollow ==
  ASSUME NEW s
  PROVE  /\ Turns(s)[0] = s
         /\ \A k \in Nat : Turns(s)[k + 1] = Turn(Turns(s)[k])
<1>1. Turns(s) = Loop!Iterate(s)
  BY DEF Turns, Loop!Iterate
<1>2. Loop!Induction
  BY SetInduction DEF Loop!Induction
<1> QED BY <1>1, <1>2, Loop!IterateFollows

\* t is s after segments were sent: what was outstanding still is, in front of
\* the new segments, and neither the window nor the timeout changed.
Sends(s, t) ==
  LET a == s.timer.outstandings
      c == t.timer.outstandings
  IN  /\ t.isn = s.isn /\ t.window_size = s.window_size /\ t.ackno = s.ackno
      /\ t.timer.RTO = s.timer.RTO
      /\ t.next_seqno >= s.next_seqno
      /\ Len(c) >= Len(a)
      /\ \A i \in 1 .. Len(a) : c[i] = a[i]
      /\ \A i \in Len(a) + 1 .. Len(c) : c[i].end_seqno > s.next_seqno

\* The numbers of an invariant state.
LEMMA SenderNumbers ==
  ASSUME NEW s, SInv(s)
  PROVE  /\ s.next_seqno \in Nat /\ EndSeqno(s) \in Nat
         /\ s.timer.outstandings \in Seq(Outstandings)
         /\ Len(s.timer.outstandings) \in Nat
         /\ \A i \in 1 .. Len(s.timer.outstandings) :
              /\ s.timer.outstandings[i] \in Outstandings
              /\ s.timer.outstandings[i].end_seqno \in Nat
<1>1. /\ s.next_seqno \in Nat /\ s.window_size \in Nat /\ s.ackno \in Nat
      /\ s.timer.outstandings \in Seq(Outstandings)
  BY DEF SInv, SenderOK, TimerOK
<1>2. EndSeqno(s) \in Nat
  BY <1>1 DEF EndSeqno
<1>3. ASSUME NEW o \in Outstandings
      PROVE  o.end_seqno \in Nat
  BY DEF Outstandings
<1> QED BY <1>1, <1>2, <1>3, LenProperties, ElementOfSeq

\* Sending more after sending is sending.
LEMMA SendsTransitive ==
  ASSUME NEW s, NEW t, NEW u, SInv(s), SInv(t), SInv(u), Sends(s, t), Sends(t, u)
  PROVE  Sends(s, u)
<1> DEFINE a == s.timer.outstandings
           c == t.timer.outstandings
           e == u.timer.outstandings
<1>1. /\ Len(a) \in Nat /\ Len(c) \in Nat /\ Len(e) \in Nat
      /\ s.next_seqno \in Nat /\ t.next_seqno \in Nat /\ u.next_seqno \in Nat
      /\ \A i \in 1 .. Len(e) : e[i].end_seqno \in Nat
  BY SenderNumbers
<1>2. /\ Len(c) >= Len(a) /\ t.next_seqno >= s.next_seqno
      /\ \A i \in 1 .. Len(a) : c[i] = a[i]
      /\ \A i \in Len(a) + 1 .. Len(c) : c[i].end_seqno > s.next_seqno
  BY DEF Sends
<1>3. /\ Len(e) >= Len(c) /\ u.next_seqno >= t.next_seqno
      /\ \A i \in 1 .. Len(c) : e[i] = c[i]
      /\ \A i \in Len(c) + 1 .. Len(e) : e[i].end_seqno > t.next_seqno
  BY DEF Sends
<1> HIDE DEF a, c, e
<1>4. ASSUME NEW i \in 1 .. Len(a)
      PROVE  e[i] = a[i]
  <2>1. i \in 1 .. Len(c)
    BY <1>1, <1>2
  <2> QED BY <1>2, <1>3, <2>1
<1>5. ASSUME NEW i \in Len(a) + 1 .. Len(e)
      PROVE  e[i].end_seqno > s.next_seqno
  <2>1. CASE i <= Len(c)
    <3>1. i \in 1 .. Len(c) /\ i \in Len(a) + 1 .. Len(c)
      BY <1>1, <2>1
    <3> QED BY <1>2, <1>3, <3>1
  <2>2. CASE i > Len(c)
    <3>1. i \in Len(c) + 1 .. Len(e) /\ i \in 1 .. Len(e)
      BY <1>1, <2>2
    <3> QED BY <1>1, <1>2, <1>3, <3>1
  <2> QED BY <1>1, <2>1, <2>2
<1>6. Len(e) >= Len(a) /\ u.next_seqno >= s.next_seqno
  BY <1>1, <1>2, <1>3
<1>7. /\ u.isn = s.isn /\ u.window_size = s.window_size /\ u.ackno = s.ackno
      /\ u.timer.RTO = s.timer.RTO
  BY DEF Sends
<1> QED BY <1>4, <1>5, <1>6, <1>7 DEF Sends, a, e

\* One turn of the loop, whether or not it sends.
LEMMA TurnInv ==
  ASSUME NEW s, SInv(s), NEW t, t = Turn(s)
  PROVE  /\ SInv(t) /\ Sends(s, t)
         /\ MoreToSend(s) => t.next_seqno > s.next_seqno
         /\ ~MoreToSend(s) => t = s
<1>1. CASE MoreToSend(s)
  <2>1. t = SendSegment(s)
    BY <1>1 DEF Turn
  <2>2. SInv(t) /\ t.next_seqno > s.next_seqno
    BY <1>1, <2>1, SendSegmentInv
  <2> DEFINE a == s.timer.outstandings
             c == t.timer.outstandings
             o == [seg |-> NextSegment(s), end_seqno |-> t.next_seqno]
  <2>3. /\ t.isn = s.isn /\ t.window_size = s.window_size /\ t.ackno = s.ackno
        /\ c = Append(a, o) /\ t.timer.RTO = s.timer.RTO
    BY <1>1, <2>1, SendSegmentFields
  <2>4. a \in Seq(Outstandings) /\ s.next_seqno \in Nat /\ t.next_seqno \in Nat
    BY <2>2, SenderNumbers
  <2>5. o \in Outstandings /\ o.end_seqno = t.next_seqno
    BY <1>1, <2>4, NextSegmentFits DEF Outstandings
  <2> HIDE DEF o, a, c
  <2>6. /\ Len(c) = Len(a) + 1 /\ Len(a) \in Nat
        /\ \A i \in 1 .. Len(a) : c[i] = a[i]
        /\ c[Len(a) + 1] = o
    BY <2>3, <2>4, <2>5, AppendProperties, LenProperties
  <2>7. ASSUME NEW i \in Len(a) + 1 .. Len(c)
        PROVE  c[i].end_seqno > s.next_seqno
    <3>1. i = Len(a) + 1
      BY <2>6
    <3> QED BY <2>2, <2>5, <2>6, <3>1
  <2>8. Len(c) >= Len(a) /\ t.next_seqno >= s.next_seqno
    BY <2>2, <2>4, <2>6
  <2>9. Sends(s, t)
    BY <2>3, <2>6, <2>7, <2>8 DEF Sends, a, c
  <2> QED BY <1>1, <2>2, <2>9
<1>2. CASE ~MoreToSend(s)
  <2>1. t = s
    BY <1>2 DEF Turn
  <2>2. Len(s.timer.outstandings) \in Nat /\ s.next_seqno \in Nat
    BY SenderNumbers
  <2>3. Sends(s, s)
    BY <2>2 DEF Sends
  <2> QED BY <1>2, <2>1, <2>3
<1> QED BY <1>1, <1>2

\* fill_window keeps the invariant, only adds to what is outstanding, and stops
\* only when there is nothing more that it may send: the number of turns that
\* FillWindow takes is all the turns that the loop has.
THEOREM FillWindowSends ==
  ASSUME NEW s, SInv(s), NEW t, t = FillWindow(s)
  PROVE  SInv(t) /\ Sends(s, t) /\ ~MoreToSend(t)
<1>0. s.next_seqno \in Nat /\ EndSeqno(s) \in Nat /\ Len(s.timer.outstandings) \in Nat
  BY SenderNumbers
<1>1. Sends(s, s)
  BY <1>0 DEF Sends
<1>2. CASE ~MoreToSend(s)
  BY <1>1, <1>2 DEF FillWindow
<1>3. CASE MoreToSend(s)
  <2> DEFINE turn == Turns(s)
             n    == EndSeqno(s) - s.next_seqno
             Good(k) == /\ SInv(turn[k]) /\ Sends(s, turn[k])
                        /\ MoreToSend(turn[k]) => turn[k].next_seqno >= s.next_seqno + k
             A    == {k \in Nat : Good(k)}
  <2>1. turn[0] = s /\ \A k \in Nat : turn[k + 1] = Turn(turn[k])
    BY TurnsFollow
  <2> HIDE DEF turn
  <2>2. 0 \in A
    <3>1. SInv(turn[0]) /\ Sends(s, turn[0])
      BY <1>1, <2>1
    <3>2. s.next_seqno >= s.next_seqno + 0
      BY <1>0
    <3>3. turn[0].next_seqno >= s.next_seqno + 0
      BY <2>1, <3>2
    <3> QED BY <3>1, <3>3
  <2>3. ASSUME NEW k \in Nat, k \in A
        PROVE  k + 1 \in A
    <3> DEFINE u == turn[k]
               v == turn[k + 1]
    <3>1. SInv(u) /\ Sends(s, u) /\ v = Turn(u)
      BY <2>1, <2>3
    <3>2. /\ SInv(v) /\ Sends(u, v)
          /\ MoreToSend(u) => v.next_seqno > u.next_seqno
          /\ ~MoreToSend(u) => v = u
      BY <3>1, TurnInv
    <3>3. Sends(s, v)
      BY <3>1, <3>2, SendsTransitive
    <3>4. u.next_seqno \in Nat /\ v.next_seqno \in Nat
      BY <3>1, <3>2, SenderNumbers
    <3>5. MoreToSend(v) => v.next_seqno >= s.next_seqno + (k + 1)
      <4>1. MoreToSend(u) => u.next_seqno >= s.next_seqno + k
        BY <2>3
      <4> HIDE DEF u, v
      <4>2. MoreToSend(v) => MoreToSend(u)
        BY <3>2
      <4> QED BY <1>0, <3>2, <3>4, <4>1, <4>2
    <3> QED BY <3>2, <3>3, <3>5
  <2> HIDE DEF A
  <2>4. Nat \subseteq A
    BY <2>2, <2>3, SetInduction
  <2>5. n \in Nat
    BY <1>0, <1>3 DEF MoreToSend
  <2>6. Good(n)
    BY <2>4, <2>5 DEF A
  <2>7. t = turn[n]
    BY <1>3 DEF FillWindow, turn
  <2> HIDE DEF n
  <2>8. SInv(t) /\ Sends(s, t) /\ (MoreToSend(t) => t.next_seqno >= s.next_seqno + n)
    BY <2>6, <2>7
  <2>9. EndSeqno(t) = EndSeqno(s)
    BY <2>8 DEF Sends, EndSeqno
  <2>10. t.next_seqno \in Nat
    BY <2>8, SenderNumbers
  <2>11. ~MoreToSend(t)
    BY <1>0, <2>8, <2>9, <2>10 DEF MoreToSend, n
  <2> QED BY <2>8, <2>11
<1> QED BY <1>2, <1>3

-----------------------------------------------------------------------------
(* Acknowledgments. *)

\* The loop of ack_handle has one stopping point.
LEMMA AckedStops ==
  ASSUME NEW t, NEW ackno \in Nat, t.outstandings \in Seq(Outstandings),
         NEW k, k = Acked(t, ackno), NEW n, n = Len(t.outstandings)
  PROVE  /\ k \in 0 .. n
         /\ \A j \in 1 .. k : t.outstandings[j].end_seqno <= ackno
         /\ k < n => t.outstandings[k + 1].end_seqno > ackno
<1> DEFINE outs == t.outstandings
           Stop(i) == /\ \A j \in 1 .. i : outs[j].end_seqno <= ackno
                      /\ i < n => outs[i + 1].end_seqno > ackno
           T == {i \in 0 .. n : i < n => outs[i + 1].end_seqno > ackno}
<1>1. n \in Nat /\ \A i \in 1 .. n : outs[i] \in Outstandings
  BY LenProperties, ElementOfSeq
<1>2. \A i \in 1 .. n : outs[i].end_seqno \in Nat
  BY <1>1 DEF Outstandings
<1>3. T \in SUBSET Nat /\ T # {}
  <2>1. n \in T
    BY <1>1
  <2> QED BY <1>1, <2>1
<1>4. PICK x \in T : \A y \in T : x <= y
  BY <1>3, LeastNatural, Zenon
<1>5. x \in 0 .. n /\ (x < n => outs[x + 1].end_seqno > ackno)
  BY <1>4
<1>6. ASSUME NEW j \in 1 .. x
      PROVE  outs[j].end_seqno <= ackno
  <2>1. j - 1 \in 0 .. n /\ j \in 1 .. n /\ j - 1 < n /\ (j - 1) + 1 = j /\ ~(x <= j - 1)
    BY <1>1, <1>5
  <2>2. j - 1 \notin T
    BY <1>4, <2>1
  <2>3. ~(outs[j].end_seqno > ackno)
    BY <2>1, <2>2
  <2> QED BY <1>2, <2>1, <2>3
<1>7. \E i \in 0 .. n : Stop(i)
  BY <1>5, <1>6
<1>8. k = CHOOSE i \in 0 .. n : Stop(i)
  BY DEF Acked
<1> HIDE DEF Stop
<1>9. k \in 0 .. n /\ Stop(k)
  BY <1>7, <1>8
<1> QED BY <1>9 DEF Stop

\* The first k segments of an unbroken run take the numbers from the start of the
\* first to the end of the k-th.
LEMMA LengthOfRun ==
  ASSUME NEW outs \in Seq(Outstandings), Unbroken(outs), NEW k \in 0 .. Len(outs)
  PROVE  LengthOfFirst(outs)[k]
           = IF k = 0 THEN 0 ELSE outs[k].end_seqno - Start(outs[1])
<1> DEFINE n      == Len(outs)
           L(i)   == length_in_sequence_space(outs[i].seg)
           Def(g) == [i \in 0 .. n |-> IF i = 0 THEN 0 ELSE g[i - 1] + L(i)]
           w      == [i \in 0 .. n |-> IF i = 0 THEN 0
                                       ELSE outs[i].end_seqno - Start(outs[1])]
           f      == LengthOfFirst(outs)
           A      == {i \in Nat : i \in 0 .. n => f[i] = w[i]}
<1>1. n \in Nat /\ \A i \in 1 .. n : outs[i] \in Outstandings
  BY LenProperties, ElementOfSeq
<1>2. ASSUME NEW i \in 1 .. n
      PROVE  /\ outs[i].end_seqno \in Nat /\ L(i) \in Nat
             /\ Start(outs[i]) = outs[i].end_seqno - L(i)
             /\ Start(outs[i]) \in Int
  BY <1>1, SegmentLength DEF Outstandings, Start
<1>3. \A i \in 1 .. n - 1 : outs[i].end_seqno = Start(outs[i + 1])
  BY DEF Unbroken
<1>4. ASSUME NEW i \in 0 .. n
      PROVE  w[i] = IF i = 0 THEN 0 ELSE w[i - 1] + L(i)
  <2>1. CASE i = 0
    BY <2>1
  <2>2. CASE i = 1
    <3>1. 1 \in 1 .. n /\ i # 0 /\ i - 1 = 0 /\ 0 \in 0 .. n
      BY <1>1, <2>2
    <3>2. w[i] = outs[1].end_seqno - Start(outs[1]) /\ w[i - 1] = 0
      BY <2>2, <3>1
    <3> QED BY <1>2, <2>2, <3>1, <3>2
  <2>3. CASE i > 1
    <3>1. /\ i - 1 \in 1 .. n - 1 /\ i \in 1 .. n /\ i - 1 \in 0 .. n /\ i - 1 # 0 /\ i # 0
          /\ 1 \in 1 .. n /\ (i - 1) + 1 = i /\ i - 1 \in 1 .. n
      BY <1>1, <2>3
    <3>2. /\ w[i] = outs[i].end_seqno - Start(outs[1])
          /\ w[i - 1] = outs[i - 1].end_seqno - Start(outs[1])
      BY <3>1
    <3>3. outs[i - 1].end_seqno = outs[i].end_seqno - L(i)
      BY <1>2, <1>3, <3>1, Zenon
    <3>4. outs[i].end_seqno \in Nat /\ L(i) \in Nat /\ Start(outs[1]) \in Int
      BY <1>2, <3>1
    <3> HIDE DEF w, L
    <3>5. w[i] = w[i - 1] + L(i)
      BY <3>2, <3>3, <3>4
    <3> QED BY <3>1, <3>5
  <2> QED BY <1>1, <2>1, <2>2, <2>3
<1>5. w = Def(w)
  BY <1>4
<1>6. f = CHOOSE g : g = Def(g)
  BY DEF LengthOfFirst
<1>7. f = Def(f)
  <2> HIDE DEF f, w
  <2> QED BY <1>5, <1>6, Zenon
<1> HIDE DEF f, L
<1>8. \A i \in 0 .. n : f[i] = IF i = 0 THEN 0 ELSE f[i - 1] + L(i)
  BY <1>7
<1> HIDE DEF w
<1>9. 0 \in A
  BY <1>1, <1>4, <1>8
<1>10. ASSUME NEW i \in Nat, i \in A
       PROVE  i + 1 \in A
  <2>1. CASE i + 1 <= n
    <3>1. i + 1 \in 0 .. n /\ i \in 0 .. n /\ i + 1 # 0 /\ (i + 1) - 1 = i
      BY <1>1, <2>1
    <3>2. f[i + 1] = f[i] + L(i + 1) /\ w[i + 1] = w[i] + L(i + 1)
      BY <1>4, <1>8, <3>1
    <3> QED BY <1>10, <3>1, <3>2
  <2>2. CASE ~(i + 1 <= n)
    BY <1>1, <2>2
  <2> QED BY <2>1, <2>2
<1> HIDE DEF A
<1>11. Nat \subseteq A
  BY <1>9, <1>10, SetInduction
<1>12. k \in Nat /\ k \in 0 .. n
  BY <1>1
<1>13. f[k] = w[k]
  BY <1>11, <1>12 DEF A
<1> QED BY <1>12, <1>13 DEF f, w

\* An acknowledgment, whatever it says, keeps the invariant: what it takes off
\* bytes_in_flight is what it takes out of the queue.
LEMMA AckReceivedInv ==
  ASSUME NEW s, SInv(s), NEW ackno \in WrappingInt32, NEW window_size \in Nat,
         NEW t, t = AckReceived(s, ackno, window_size)
  PROVE  /\ SInv(t)
         /\ t.segments_out = s.segments_out /\ t.next_seqno = s.next_seqno
         /\ \/ t.timer.RTO = s.timer.RTO
            \/ /\ Len(s.timer.outstandings) > 0
               /\ s.timer.outstandings[1].end_seqno <= s.next_seqno
               /\ Len(t.timer.outstandings) > 0
                    => s.timer.outstandings[1] # t.timer.outstandings[1]
<1> DEFINE abs == unwrap(ackno, s.isn, s.next_seqno)
           k   == Acked(s.timer, abs)
           a   == s.timer.outstandings
           c   == t.timer.outstandings
           n   == Len(a)
<1>1. CASE abs > s.next_seqno
  BY <1>1 DEF AckReceived
<1>2. CASE ~(abs > s.next_seqno)
  <2>1. /\ SenderOK(t)
        /\ abs \in Nat /\ k \in 0 .. n
        /\ \A j \in 1 .. k : a[j].end_seqno <= abs
        /\ k < n => a[k + 1].end_seqno > abs
        /\ t.isn = s.isn /\ t.stream = s.stream /\ t.next_seqno = s.next_seqno
        /\ t.fin_sended = s.fin_sended /\ t.segments_out = s.segments_out
        /\ t.bytes_in_flight = s.bytes_in_flight - LengthOfFirst(a)[k]
        /\ c = SubSeq(a, k + 1, n)
        /\ t.timer.running <=> s.timer.running /\ c # <<>>
        /\ t.timer.RTO = IF k > 0 THEN RtTimeout ELSE s.timer.RTO
        /\ t.timer.base_RTO = IF k > 0 THEN RtTimeout ELSE s.timer.base_RTO
    <3>0. /\ abs = unwrap(ackno, s.isn, s.next_seqno) /\ k = Acked(s.timer, abs)
          /\ a = s.timer.outstandings /\ c = t.timer.outstandings /\ n = Len(a)
      OBVIOUS
    <3> HIDE DEF abs, k, a, c, n
    <3> DEFINE tm   == ack_handle(s.timer, abs)
               rest == SubSeq(a, k + 1, Len(a))
               run  == s.timer.running /\ rest # <<>>
               RTO  == IF k > 0 THEN RtTimeout ELSE s.timer.RTO
               base == IF k > 0 THEN RtTimeout ELSE s.timer.base_RTO
               b    == s.bytes_in_flight - LengthOfFirst(a)[k]
    <3>1. /\ SenderOK(s) /\ TimerOK(s.timer) /\ a \in Seq(Outstandings) /\ Len(a) \in Nat
          /\ s.isn \in WrappingInt32 /\ s.next_seqno \in Nat
      BY <3>0, SenderNumbers DEF SInv, SenderOK
    <3>2. abs \in Nat
      BY <3>0, <3>1, UnwrapNear, Zenon
    <3>3. /\ k \in 0 .. Len(a)
          /\ \A j \in 1 .. k : a[j].end_seqno <= abs
          /\ k < Len(a) => a[k + 1].end_seqno > abs
      BY <3>0, <3>1, <3>2, AckedStops
    <3>4. tm = [running |-> run, RTO |-> RTO, base_RTO |-> base,
                consecutive_retransmissions |-> 0, outstandings |-> rest]
      BY <3>0 DEF ack_handle
    <3>5. t = [s EXCEPT !.ackno = abs, !.window_size = window_size, !.bytes_in_flight = b,
                        !.timer = tm]
      BY <1>2, <3>0 DEF AckReceived, AckedLength
    <3>6. rest \in Seq(Outstandings)
      BY <3>1, <3>3, SubSeqProperties
    <3>7. RTO \in Nat /\ base \in Nat
      BY <3>1, SenderAssumption DEF TimerOK
    <3> HIDE DEF tm, run, RTO, base, b, rest
    <3>8. TimerOK(tm) /\ tm.running = run /\ tm.RTO = RTO /\ tm.base_RTO = base
          /\ tm.outstandings = rest
      BY <3>4, <3>6, <3>7 DEF TimerOK
    <3>9. /\ t = [isn |-> t.isn, segments_out |-> t.segments_out, stream |-> t.stream,
                  next_seqno |-> t.next_seqno, bytes_in_flight |-> t.bytes_in_flight,
                  window_size |-> t.window_size, ackno |-> t.ackno,
                  fin_sended |-> t.fin_sended, timer |-> t.timer]
          /\ t.isn = s.isn /\ t.window_size = window_size /\ t.ackno = abs
          /\ t.stream = s.stream /\ t.fin_sended = s.fin_sended
          /\ t.segments_out = s.segments_out
          /\ t.bytes_in_flight = b
          /\ t.next_seqno = s.next_seqno /\ t.timer = tm
      BY <3>1, <3>5, Zenon DEF SenderOK
    <3>10. SenderOK(t)
      BY <3>1, <3>2, <3>8, <3>9 DEF SenderOK
    <3> QED BY <3>0, <3>2, <3>3, <3>8, <3>9, <3>10, Zenon DEF run, RTO, base, b, rest
  <2>2. /\ a \in Seq(Outstandings) /\ n \in Nat /\ s.next_seqno \in Nat
        /\ \A i \in 1 .. n : a[i] \in Outstandings /\ a[i].end_seqno \in Nat
    BY SenderNumbers
  <2>3. /\ s.bytes_in_flight = IF n = 0 THEN 0 ELSE s.next_seqno - Start(a[1])
        /\ n > 0 => a[n].end_seqno = s.next_seqno
        /\ Unbroken(a)
    BY DEF SInv, Flight
  <2>4. LengthOfFirst(a)[k] = IF k = 0 THEN 0 ELSE a[k].end_seqno - Start(a[1])
    BY <2>1, <2>2, <2>3, LengthOfRun, Zenon
  <2>5. Timed(s.timer) /\ Placed(s)
    BY DEF SInv
  <2>6. \A i \in 1 .. n : Start(a[i]) \in Int
    BY <2>2, StartIsInt
  <2> HIDE DEF a, c, n, k, abs
  <2>7. /\ c \in Seq(Outstandings) /\ Len(c) = n - k
        /\ \A i \in 1 .. n - k : c[i] = a[k + i]
    BY <2>1, <2>2, SubSeqProperties DEF n
  <2>8. \A i \in 1 .. n - 1 : a[i].end_seqno = Start(a[i + 1])
    BY <2>3 DEF Unbroken, n
  <2>9. Flight(t)
    <3>1. ASSUME NEW i \in 1 .. Len(c) - 1
          PROVE  c[i].end_seqno = Start(c[i + 1])
      <4>1. /\ i \in 1 .. n - k /\ i + 1 \in 1 .. n - k /\ k + i \in 1 .. n - 1
            /\ k + (i + 1) = (k + i) + 1
        BY <2>1, <2>2, <2>7
      <4>2. c[i] = a[k + i] /\ c[i + 1] = a[(k + i) + 1]
        BY <2>7, <4>1
      <4> QED BY <2>8, <4>1, <4>2
    <3>2. ASSUME Len(c) > 0
          PROVE  c[Len(c)].end_seqno = t.next_seqno
      <4>0. k \in 0 .. n /\ n \in Nat /\ Len(c) = n - k
        BY <2>1, <2>2, <2>7, Zenon
      <4>1. Len(c) \in 1 .. n - k /\ k + Len(c) = n /\ n > 0
        BY <3>2, <4>0
      <4> QED BY <2>1, <2>3, <2>7, <4>1, Zenon
    <3>3. t.bytes_in_flight = IF Len(c) = 0 THEN 0 ELSE t.next_seqno - Start(c[1])
      <4>1. CASE k = 0
        <5>1. CASE n = 0
          BY <2>1, <2>3, <2>4, <2>7, <4>1, <5>1
        <5>2. CASE n # 0
          <6>1. 1 \in 1 .. n - k /\ k + 1 = 1 /\ 1 \in 1 .. n
            BY <2>2, <4>1, <5>2
          <6>2. c[1] = a[1] /\ Len(c) # 0
            BY <2>2, <2>7, <4>1, <5>2, <6>1
          <6> QED BY <2>1, <2>2, <2>3, <2>4, <2>6, <4>1, <5>2, <6>1, <6>2
        <5> QED BY <5>1, <5>2
      <4>2. CASE k > 0 /\ k = n
        <5>1. /\ Len(c) = 0 /\ 1 \in 1 .. n /\ n # 0 /\ k # 0
              /\ a[k].end_seqno = s.next_seqno /\ Start(a[1]) \in Int
          <6>1. k \in 0 .. n /\ n \in Nat /\ Len(c) = n - k
            BY <2>1, <2>2, <2>7, Zenon
          <6>2. Len(c) = 0 /\ 1 \in 1 .. n /\ n > 0 /\ n # 0 /\ k # 0
            BY <4>2, <6>1
          <6> QED BY <2>3, <2>6, <4>2, <6>2, Zenon
        <5> QED BY <2>1, <2>2, <2>3, <2>4, <5>1
      <4>3. CASE k > 0 /\ k < n
        <5>1. /\ 1 \in 1 .. n - k /\ k \in 1 .. n - 1 /\ k # 0 /\ n # 0 /\ Len(c) # 0
              /\ 1 \in 1 .. n /\ k \in 1 .. n
          <6>1. k \in 0 .. n /\ n \in Nat /\ Len(c) = n - k
            BY <2>1, <2>2, <2>7, Zenon
          <6> QED BY <4>3, <6>1
        <5>2. c[1] = a[k + 1] /\ Start(c[1]) = a[k].end_seqno
          BY <2>7, <2>8, <5>1
        <5>3. Start(a[1]) \in Int /\ a[k].end_seqno \in Nat
          BY <2>2, <2>6, <5>1
        <5> QED BY <2>1, <2>2, <2>3, <2>4, <5>1, <5>2, <5>3
      <4> QED BY <2>1, <2>2, <4>1, <4>2, <4>3
    <3>4. Unbroken(c)
      BY <3>1 DEF Unbroken
    <3> QED BY <3>2, <3>3, <3>4 DEF Flight, c
  <2>10. Timed(t.timer)
    <3>1. c # <<>> => s.timer.outstandings # <<>>
      <4>1. a = <<>> => n = 0
        BY <2>2 DEF n
      <4>2. c # <<>> => Len(c) # 0
        BY <2>7, EmptySeq
      <4> QED BY <2>1, <2>2, <2>7, <4>1, <4>2 DEF a
    <3>2. ASSUME ~t.timer.running
          PROVE  t.timer.RTO = RtTimeout /\ t.timer.base_RTO = RtTimeout
      <4>1. CASE k > 0
        BY <2>1, <4>1
      <4>2. CASE ~(k > 0)
        <5>1. k = 0
          BY <2>1, <2>2, <4>2
        <5>2. c = a
          BY <2>1, <2>2, <5>1 DEF n
        <5>3. ~s.timer.running
          BY <2>1, <2>5, <3>2, <5>2, Zenon DEF Timed, a
        <5> QED BY <2>1, <2>5, <4>2, <5>3 DEF Timed
      <4> QED BY <4>1, <4>2
    <3>3. t.timer.running <=> c # <<>>
      BY <2>1, <2>5, <3>1 DEF Timed
    <3> QED BY <3>2, <3>3 DEF Timed, c
  <2>11. Placed(t)
    <3>1. /\ \A i \in 1 .. n : /\ WellMade(a[i], s.isn)
                               /\ a[i].seg.fin => i = n /\ s.fin_sended
          /\ s.fin_sended => Eof(s.stream)
          /\ s.stream.buf = Bytes(BytesSent(s), Len(s.stream.buf))
      BY <2>5 DEF Placed, a, n
    <3>2. ASSUME NEW i \in 1 .. Len(c)
          PROVE  /\ WellMade(c[i], t.isn)
                 /\ c[i].seg.fin => i = Len(c) /\ t.fin_sended
      <4>1. i \in 1 .. n - k /\ k + i \in 1 .. n /\ (k + i = n => i = Len(c))
        BY <2>1, <2>2, <2>7
      <4>2. c[i] = a[k + i]
        BY <2>7, <4>1
      <4> QED BY <2>1, <3>1, <4>1, <4>2, Zenon
    <3>3. BytesSent(t) = BytesSent(s)
      BY <2>1 DEF BytesSent
    <3> QED BY <2>1, <3>1, <3>2, <3>3, Zenon DEF Placed, c
  <2>12. ASSUME t.timer.RTO # s.timer.RTO
         PROVE  /\ n > 0 /\ a[1].end_seqno <= s.next_seqno
                /\ Len(c) > 0 => a[1] # c[1]
    <3>1. k > 0
      BY <2>1, <2>12
    <3>2. 1 \in 1 .. k /\ 1 \in 1 .. n /\ n > 0
      BY <2>1, <2>2, <3>1
    <3>3. a[1].end_seqno \in Nat /\ a[1].end_seqno <= abs
      BY <2>1, <2>2, <3>2
    <3>4. a[1].end_seqno <= s.next_seqno
      BY <1>2, <2>1, <2>2, <3>3
    <3>5. ASSUME Len(c) > 0
          PROVE  a[1] # c[1]
      <4>1. 1 \in 1 .. n - k /\ k < n /\ k + 1 \in 1 .. n
        BY <2>1, <2>2, <2>7, <3>5
      <4>2. c[1] = a[k + 1] /\ a[k + 1].end_seqno > abs /\ a[k + 1].end_seqno \in Nat
        BY <2>1, <2>2, <2>7, <4>1
      <4>3. ~(a[k + 1].end_seqno <= abs)
        BY <2>1, <4>2
      <4> QED BY <3>3, <4>2, <4>3
    <3> QED BY <3>2, <3>4, <3>5
  <2>13. SInv(t)
    BY <2>1, <2>9, <2>10, <2>11 DEF SInv
  <2> QED BY <2>1, <2>12, <2>13 DEF a, c, n
<1> QED BY <1>1, <1>2

-----------------------------------------------------------------------------
(* The other calls. *)

\* Taking segments_out away, or adding to it, leaves the rest alone
\* (send_empty_segment keeps no copy of what it sends).
LEMMA SegmentsOutInv ==
  ASSUME NEW s, SInv(s), NEW q, NEW t, t = [s EXCEPT !.segments_out = q]
  PROVE  /\ SInv(t) /\ t.segments_out = q
         /\ t.stream = s.stream /\ t.timer = s.timer /\ t.next_seqno = s.next_seqno
         /\ t.fin_sended = s.fin_sended
<1>1. SenderOK(s)
  BY DEF SInv
<1>2. /\ t = [isn |-> t.isn, segments_out |-> t.segments_out, stream |-> t.stream,
              next_seqno |-> t.next_seqno, bytes_in_flight |-> t.bytes_in_flight,
              window_size |-> t.window_size, ackno |-> t.ackno,
              fin_sended |-> t.fin_sended, timer |-> t.timer]
      /\ t.isn = s.isn /\ t.segments_out = q /\ t.stream = s.stream
      /\ t.next_seqno = s.next_seqno /\ t.bytes_in_flight = s.bytes_in_flight
      /\ t.window_size = s.window_size /\ t.ackno = s.ackno
      /\ t.fin_sended = s.fin_sended /\ t.timer = s.timer
  BY <1>1 DEF SenderOK
<1>3. SenderOK(t)
  BY <1>1, <1>2 DEF SenderOK
<1>4. Flight(t) /\ Timed(t.timer)
  BY <1>2 DEF SInv, Flight
<1>5. BytesSent(t) = BytesSent(s)
  BY <1>2 DEF BytesSent
<1>6. Placed(t)
  BY <1>2, <1>5 DEF SInv, Placed
<1> QED BY <1>2, <1>3, <1>4, <1>6 DEF SInv

\* A change of the stream that only adds to it, or ends it, before the FIN is sent.
LEMMA StreamInv ==
  ASSUME NEW s, SInv(s), ~s.fin_sended, NEW x, StreamOK(x),
         x.buf = Bytes(BytesSent(s), Len(x.buf)), NEW t, t = [s EXCEPT !.stream = x]
  PROVE  /\ SInv(t) /\ t.timer = s.timer /\ t.segments_out = s.segments_out
         /\ t.next_seqno = s.next_seqno
<1>1. SenderOK(s)
  BY DEF SInv
<1>2. /\ t = [isn |-> t.isn, segments_out |-> t.segments_out, stream |-> t.stream,
              next_seqno |-> t.next_seqno, bytes_in_flight |-> t.bytes_in_flight,
              window_size |-> t.window_size, ackno |-> t.ackno,
              fin_sended |-> t.fin_sended, timer |-> t.timer]
      /\ t.isn = s.isn /\ t.segments_out = s.segments_out /\ t.stream = x
      /\ t.next_seqno = s.next_seqno /\ t.bytes_in_flight = s.bytes_in_flight
      /\ t.window_size = s.window_size /\ t.ackno = s.ackno
      /\ t.fin_sended = s.fin_sended /\ t.timer = s.timer
  BY <1>1 DEF SenderOK
<1>3. SenderOK(t)
  BY <1>1, <1>2 DEF SenderOK
<1>4. Flight(t) /\ Timed(t.timer)
  BY <1>2 DEF SInv, Flight
<1>5. BytesSent(t) = BytesSent(s)
  BY <1>2 DEF BytesSent
<1>6. Placed(t)
  BY <1>2, <1>5 DEF SInv, Placed
<1> QED BY <1>2, <1>3, <1>4, <1>6 DEF SInv

\* A tick only moves the timer: it counts down, or it expires and sends the first
\* outstanding segment once more, which exists.
LEMMA TickInv ==
  ASSUME NEW s, SInv(s), NEW ms \in Nat, NEW t, t = Tick(s, ms)
  PROVE  /\ SInv(t) /\ t.timer.outstandings = s.timer.outstandings
         /\ \/ /\ s.timer.outstandings # <<>>
               /\ t.segments_out = Append(s.segments_out, s.timer.outstandings[1].seg)
            \/ t.timer.RTO <= s.timer.RTO
<1> DEFINE u    == s.timer
           x    == Expired(u, ms)
           w    == s.window_size
           tm   == tick_handle(u, ms, w)
           base == IF w # 0 THEN 2 * u.base_RTO ELSE u.base_RTO
           q    == IF x THEN Append(s.segments_out, u.outstandings[1].seg)
                   ELSE s.segments_out
           RTO  == IF x THEN base ELSE IF u.running THEN u.RTO - ms ELSE u.RTO
           bs   == IF x THEN base ELSE u.base_RTO
           cr   == IF x THEN u.consecutive_retransmissions + BoolToNat(w # 0)
                   ELSE u.consecutive_retransmissions
<1>1. SenderOK(s) /\ TimerOK(u) /\ Timed(u) /\ w \in Nat
  BY DEF SInv, SenderOK
<1>2. u.RTO \in Nat /\ u.base_RTO \in Nat /\ u.consecutive_retransmissions \in Nat
  BY <1>1 DEF TimerOK
<1>3. RTO \in Nat /\ bs \in Nat /\ cr \in Nat
  BY <1>1, <1>2 DEF Expired, BoolToNat
<1>4. x => u.outstandings # <<>> /\ u.running
  BY <1>1 DEF Expired, Timed
<1>5. ~x => RTO <= u.RTO
  BY <1>2
<1>6. ~u.running => ~x /\ RTO = u.RTO /\ bs = u.base_RTO
  BY DEF Expired
<1>7. tm = IF x THEN [u EXCEPT !.consecutive_retransmissions = cr, !.base_RTO = bs,
                               !.RTO = RTO]
           ELSE [u EXCEPT !.RTO = RTO]
  BY DEF tick_handle
<1>8. t = [s EXCEPT !.segments_out = q, !.timer = tm]
  BY DEF Tick
<1>9. ~x => cr = u.consecutive_retransmissions /\ bs = u.base_RTO
  OBVIOUS
<1>10. x => q = Append(s.segments_out, u.outstandings[1].seg)
  OBVIOUS
<1> HIDE DEF u, x, w, tm, base, q, RTO, bs, cr
<1>11. /\ tm = [running |-> tm.running, RTO |-> tm.RTO, base_RTO |-> tm.base_RTO,
                consecutive_retransmissions |-> tm.consecutive_retransmissions,
                outstandings |-> tm.outstandings]
       /\ tm.running = u.running /\ tm.RTO = RTO /\ tm.base_RTO = bs
       /\ tm.consecutive_retransmissions = cr /\ tm.outstandings = u.outstandings
  <2>1. CASE x
    BY <1>1, <1>7, <2>1, Zenon DEF TimerOK
  <2>2. CASE ~x
    BY <1>1, <1>7, <1>9, <2>2 DEF TimerOK
  <2> QED BY <2>1, <2>2
<1>12. TimerOK(tm)
  BY <1>1, <1>3, <1>11 DEF TimerOK
<1>13. Timed(tm)
  BY <1>1, <1>6, <1>11 DEF Timed
<1>14. /\ t = [isn |-> t.isn, segments_out |-> t.segments_out, stream |-> t.stream,
               next_seqno |-> t.next_seqno, bytes_in_flight |-> t.bytes_in_flight,
               window_size |-> t.window_size, ackno |-> t.ackno,
               fin_sended |-> t.fin_sended, timer |-> t.timer]
       /\ t.isn = s.isn /\ t.segments_out = q /\ t.stream = s.stream
       /\ t.next_seqno = s.next_seqno /\ t.bytes_in_flight = s.bytes_in_flight
       /\ t.window_size = s.window_size /\ t.ackno = s.ackno
       /\ t.fin_sended = s.fin_sended /\ t.timer = tm
  BY <1>1, <1>8, Zenon DEF SenderOK
<1>15. SenderOK(t)
  BY <1>1, <1>12, <1>14 DEF SenderOK
<1>16. t.timer.outstandings = s.timer.outstandings
  BY <1>11, <1>14 DEF u
<1>17. Flight(t)
  BY <1>14, <1>16 DEF SInv, Flight
<1>18. BytesSent(t) = BytesSent(s)
  BY <1>14 DEF BytesSent
<1>19. Placed(t)
  BY <1>14, <1>16, <1>18 DEF SInv, Placed
<1>20. SInv(t)
  BY <1>13, <1>14, <1>15, <1>17, <1>19 DEF SInv
<1> QED BY <1>4, <1>5, <1>10, <1>11, <1>14, <1>16, <1>20 DEF u

-----------------------------------------------------------------------------
(* The specification. *)

\* The step from s to t extends the timeout only for the reasons that
\* RestartsOnNewData names.
Restarted(s, t) ==
  t.timer.RTO > s.timer.RTO
    => \/ s.timer.outstandings = <<>>
       \/ t.timer.outstandings = <<>>
       \/ t.timer.outstandings[1] # s.timer.outstandings[1]
       \/ t.segments_out = <<s.timer.outstandings[1].seg>>

\* fill_window after a call that left the timeout alone.
LEMMA FillsAfterCall ==
  ASSUME NEW s, SInv(s), NEW u, SInv(u), u.timer.RTO = s.timer.RTO,
         NEW t, t = FillWindow(u)
  PROVE  SInv(t) /\ Restarted(s, t)
<1>1. SInv(t) /\ Sends(u, t)
  BY FillWindowSends
<1>2. t.timer.RTO = s.timer.RTO /\ s.timer.RTO \in Nat
  BY <1>1 DEF Sends, SInv, SenderOK, TimerOK
<1>3. ~(t.timer.RTO > s.timer.RTO)
  BY <1>2
<1> QED BY <1>1, <1>3 DEF Restarted

\* fill_window after an acknowledgment.
LEMMA FillsAfterAck ==
  ASSUME NEW s, SInv(s), NEW ackno \in WrappingInt32, NEW window_size \in Nat,
         NEW u, u = AckReceived(s, ackno, window_size), NEW t, t = FillWindow(u)
  PROVE  SInv(t) /\ Restarted(s, t)
<1> DEFINE a == s.timer.outstandings
           c == u.timer.outstandings
           e == t.timer.outstandings
<1>1. /\ SInv(u)
      /\ \/ u.timer.RTO = s.timer.RTO
         \/ /\ Len(a) > 0 /\ a[1].end_seqno <= u.next_seqno
            /\ Len(c) > 0 => a[1] # c[1]
  BY AckReceivedInv
<1>2. CASE u.timer.RTO = s.timer.RTO
  BY <1>1, <1>2, FillsAfterCall
<1>3. CASE /\ Len(a) > 0 /\ a[1].end_seqno <= u.next_seqno
           /\ Len(c) > 0 => a[1] # c[1]
  <2>1. SInv(t) /\ Sends(u, t)
    BY <1>1, FillWindowSends
  <2>2. /\ Len(c) \in Nat /\ Len(e) \in Nat /\ e \in Seq(Outstandings) /\ Len(a) \in Nat
        /\ u.next_seqno \in Nat
        /\ \A i \in 1 .. Len(a) : a[i].end_seqno \in Nat
        /\ \A i \in 1 .. Len(e) : e[i].end_seqno \in Nat
    BY <1>1, <2>1, SenderNumbers
  <2>3. /\ Len(e) >= Len(c)
        /\ \A i \in 1 .. Len(c) : e[i] = c[i]
        /\ \A i \in Len(c) + 1 .. Len(e) : e[i].end_seqno > u.next_seqno
    BY <2>1 DEF Sends
  <2>4. e = <<>> \/ e[1] # a[1]
    <3> HIDE DEF a, c, e
    <3>1. CASE Len(e) = 0
      BY <2>2, <3>1, EmptySeq
    <3>2. CASE Len(c) > 0
      <4>1. 1 \in 1 .. Len(c)
        BY <2>2, <3>2
      <4> QED BY <1>3, <2>3, <3>2, <4>1
    <3>3. CASE Len(c) = 0 /\ Len(e) # 0
      <4>1. 1 \in Len(c) + 1 .. Len(e) /\ 1 \in 1 .. Len(a) /\ 1 \in 1 .. Len(e)
        BY <1>3, <2>2, <3>3
      <4>2. e[1].end_seqno > u.next_seqno
        BY <2>3, <4>1
      <4>3. e[1].end_seqno # a[1].end_seqno
        BY <1>3, <2>2, <4>1, <4>2
      <4> QED BY <4>3
    <3> QED BY <2>2, <3>1, <3>2, <3>3
  <2> QED BY <2>1, <2>4 DEF Restarted
<1> QED BY <1>1, <1>2, <1>3

\* A new sender has nothing in flight and a stopped timer.
LEMMA NewSenderInv == SInv(NewSender)
<1> DEFINE no == FALSE
           tm == NewTimer
           s  == NewSender
<1>1. /\ tm = [running |-> no, RTO |-> RtTimeout, base_RTO |-> RtTimeout,
               consecutive_retransmissions |-> 0, outstandings |-> <<>>]
      /\ s = [isn |-> FixedIsn, segments_out |-> <<>>, stream |-> NewStream(SendCapacity),
              next_seqno |-> 0, bytes_in_flight |-> 0, window_size |-> 1, ackno |-> 0,
              fin_sended |-> no, timer |-> tm]
      /\ ~no
  BY DEF NewTimer, NewSender
<1>2. RtTimeout \in Nat /\ FixedIsn \in WrappingInt32 /\ SendCapacity \in Nat
  BY SenderAssumption
<1>3. StreamOK(NewStream(SendCapacity)) /\ NewStream(SendCapacity).buf = <<>>
  BY <1>2, NewStreamOK
<1> HIDE DEF no, tm, s
<1>4. TimerOK(tm) /\ tm.outstandings = <<>> /\ tm.running = no /\ tm.RTO = RtTimeout
      /\ tm.base_RTO = RtTimeout
  BY <1>1, <1>2, EmptySeq DEF TimerOK
<1>5. /\ s.stream = NewStream(SendCapacity) /\ s.next_seqno = 0 /\ s.bytes_in_flight = 0
      /\ s.window_size = 1 /\ s.ackno = 0 /\ s.fin_sended = no /\ s.timer = tm
      /\ s.isn = FixedIsn
      /\ s = [isn |-> s.isn, segments_out |-> s.segments_out, stream |-> s.stream,
              next_seqno |-> s.next_seqno, bytes_in_flight |-> s.bytes_in_flight,
              window_size |-> s.window_size, ackno |-> s.ackno,
              fin_sended |-> s.fin_sended, timer |-> s.timer]
  BY <1>1
<1>6. SenderOK(s)
  BY <1>2, <1>3, <1>4, <1>5 DEF SenderOK
<1>7. Flight(s) /\ Timed(s.timer)
  BY <1>1, <1>4, <1>5 DEF Flight, Timed, Unbroken
<1>8. BytesSent(s) = 0
  BY <1>1, <1>5 DEF BytesSent, BoolToNat
<1>9. s.stream.buf = Bytes(0, 0) /\ Len(s.stream.buf) = 0
  BY <1>3, <1>5, BytesEmpty
<1>10. Placed(s)
  BY <1>1, <1>4, <1>5, <1>8, <1>9 DEF Placed
<1> QED BY <1>6, <1>7, <1>10 DEF SInv, s

\* Every call keeps the invariant and restarts the timer only on new data.
LEMMA SenderStep ==
  ASSUME SInv(snd), [Next]_snd
  PROVE  SInv(snd') /\ Restarted(snd, snd')
<1> DEFINE d == Drained(snd)
<1>1. /\ SInv(d) /\ d.segments_out = <<>> /\ d.stream = snd.stream /\ d.timer = snd.timer
      /\ d.next_seqno = snd.next_seqno /\ d.fin_sended = snd.fin_sended
  BY SegmentsOutInv DEF Drained
<1>2. /\ StreamOK(d.stream) /\ BytesSent(d) \in Int /\ Len(d.stream.buf) \in Nat
      /\ d.stream.buf = Bytes(BytesSent(d), Len(d.stream.buf))
      /\ BytesSent(d) = BytesSent(snd)
      /\ d.fin_sended => d.stream.ended
  BY <1>1 DEF SInv, SenderOK, StreamOK, Streams, Placed, BytesSent, BoolToNat, Eof
<1>3. snd.timer.RTO \in Nat
  BY DEF SInv, SenderOK, TimerOK
<1>4. CASE connect
  BY <1>1, <1>4, FillsAfterCall DEF connect
<1>5. ASSUME NEW n \in 1 .. StreamLen, write(n)
      PROVE  SInv(snd') /\ Restarted(snd, snd')
  <2> DEFINE data == Bytes(BytesWritten(snd), n)
             x    == Written(d.stream, data)
             u    == [d EXCEPT !.stream = x]
  <2>1. snd' = FillWindow(u) /\ ~snd.stream.ended
    BY <1>5 DEF write
  <2>2. BytesWritten(snd) = BytesSent(d) + Len(d.stream.buf) /\ n \in Nat
    BY <1>1, <1>2, SenderAssumption DEF BytesWritten
  <2>3. StreamOK(x) /\ x.buf = Bytes(BytesSent(d), Len(x.buf))
    <3> DEFINE i == BytesSent(d)
               p == d.stream
    <3>1. x = Written(p, Bytes(i + Len(p.buf), n))
      BY <2>2
    <3>2. StreamOK(p) /\ i \in Int /\ p.buf = Bytes(i, Len(p.buf))
      BY <1>2
    <3> HIDE DEF i, p, x
    <3> DEFINE new == Bytes(i + Len(p.buf), n)
    <3>3. /\ StreamOK(Written(p, new))
          /\ Written(p, new).buf = Bytes(i, Len(p.buf) + Accepted(p, new))
          /\ Len(Written(p, new).buf) = Len(p.buf) + Accepted(p, new)
      BY <2>2, <3>2, WrittenBytes
    <3> QED BY <3>1, <3>3 DEF i
  <2> HIDE DEF d, x
  <2>4. SInv(u) /\ u.timer = d.timer
    BY <1>1, <1>2, <2>1, <2>3, StreamInv
  <2> QED BY <1>1, <2>1, <2>4, FillsAfterCall, Zenon
<1>6. CASE end_input
  <2> DEFINE x == Ended(d.stream)
             u == [d EXCEPT !.stream = x]
  <2>1. snd' = FillWindow(u) /\ ~snd.stream.ended
    BY <1>6 DEF end_input
  <2>2. StreamOK(x) /\ x.buf = Bytes(BytesSent(d), Len(x.buf))
    BY <1>2, EndedOK
  <2> HIDE DEF d, x
  <2>3. SInv(u) /\ u.timer = d.timer
    BY <1>1, <1>2, <2>1, <2>2, StreamInv
  <2> QED BY <1>1, <2>1, <2>3, FillsAfterCall, Zenon
<1>7. ASSUME NEW ackno \in WrappingInt32, NEW window_size \in 0 .. MaxWindow,
             ack_received(ackno, window_size)
      PROVE  SInv(snd') /\ Restarted(snd, snd')
  <2>1. snd' = FillWindow(AckReceived(d, ackno, window_size))
    BY <1>7 DEF ack_received
  <2>2. window_size \in Nat
    BY SenderAssumption
  <2> HIDE DEF d
  <2>3. SInv(snd') /\ Restarted(d, snd')
    BY <1>1, <2>1, <2>2, FillsAfterAck
  <2> QED BY <1>1, <2>3 DEF Restarted
<1>8. ASSUME NEW ms \in 1 .. RtTimeout, tick(ms)
      PROVE  SInv(snd') /\ Restarted(snd, snd')
  <2>1. snd' = Tick(d, ms) /\ ms \in Nat
    BY <1>8, SenderAssumption DEF tick
  <2> DEFINE t == snd'
  <2> HIDE DEF d
  <2>2. /\ SInv(t)
        /\ \/ t.segments_out = Append(d.segments_out, d.timer.outstandings[1].seg)
           \/ t.timer.RTO <= d.timer.RTO
    BY <1>1, <2>1, TickInv, Zenon
  <2>3. t.timer.RTO \in Nat
    BY <2>2 DEF SInv, SenderOK, TimerOK
  <2> HIDE DEF t
  <2>4. Restarted(snd, t)
    <3>1. CASE t.timer.RTO <= d.timer.RTO
      BY <1>1, <1>3, <2>3, <3>1 DEF Restarted
    <3>2. CASE t.segments_out = Append(d.segments_out, d.timer.outstandings[1].seg)
      BY <1>1, <3>2 DEF Restarted
    <3> QED BY <2>2, <3>1, <3>2
  <2> QED BY <2>2, <2>4 DEF t
<1>9. CASE send_empty_segment
  <2> DEFINE q == Append(d.segments_out, NewSegment(wrap(d.next_seqno, d.isn)))
  <2>1. snd' = [d EXCEPT !.segments_out = q]
    BY <1>9 DEF send_empty_segment, SendEmptySegment
  <2> HIDE DEF d, q
  <2>2. SInv(snd') /\ snd'.timer = snd.timer
    BY <1>1, <2>1, SegmentsOutInv
  <2> QED BY <1>3, <2>2 DEF Restarted
<1>10. CASE UNCHANGED snd
  BY <1>3, <1>10 DEF Restarted
<1> QED BY <1>4, <1>5, <1>6, <1>7, <1>8, <1>9, <1>10 DEF Next

\* SInv is an inductive invariant.
LEMMA SenderInvariance == Spec => []SInv(snd)
<1>1. Init => SInv(snd)
  BY NewSenderInv DEF Init
<1>2. SInv(snd) /\ [Next]_snd => SInv(snd)'
  BY SenderStep
<1> QED BY <1>1, <1>2, PTL DEF Spec

\* bytes_in_flight counts the outstanding segments, the timer runs exactly while
\* there are any, and each says where its bytes belong, for every capacity,
\* payload size, timeout, sequence space and order of calls and acknowledgments.
THEOREM SenderSafe == Spec => [](InFlight /\ TimerRuns /\ SegmentsInPlace)
<1>1. SInv(snd) => InFlight /\ TimerRuns
  BY DEF SInv, Flight, Timed, Unbroken, InFlight, TimerRuns
<1>2. SInv(snd) => SegmentsInPlace
  BY Zenon DEF SInv, Placed, WellMade, SegmentsInPlace
<1> QED BY <1>1, <1>2, SenderInvariance, PTL

\* The timeout is extended only by its own expiry or by an acknowledgment that
\* covers a whole outstanding segment (ack_handle, tick_handle).
THEOREM SenderRestarts == Spec => RestartsOnNewData
<1>1. SInv(snd) /\ [Next]_snd => Restarted(snd, snd')
  BY SenderStep
<1> QED BY <1>1, SenderInvariance, PTL DEF Spec, RestartsOnNewData, Restarted
=============================================================================
