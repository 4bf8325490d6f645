------------------------- MODULE TCPReceiverProofs -------------------------
(***************************************************************************)
(* The safety of a TCPReceiver and its refinement, for every size of the   *)
(* sequence space, every stream and every capacity.                        *)
(***************************************************************************)
EXTENDS TCPReceiver, WrappingProofs, ReassemblerProofs

-----------------------------------------------------------------------------
(* Sequence numbers. *)

\* In every state of the right type a segment's number is unwrapped to the
\* absolute number it was wrapped from, as far as half the space around _ackno
\* (TCPReceiver::segment_received).
THEOREM ReceiverRoundTrip ==
  TypeOK /\ peer_isn \in WrappingInt32 => RoundTrip
<1> SUFFICES ASSUME TypeOK, peer_isn \in WrappingInt32,
                    NEW x \in 0 .. SeqLen + M,
                    x - rcv.ackno < M \div 2 /\ rcv.ackno - x < M \div 2
             PROVE  unwrap(wrap(x, peer_isn), peer_isn, rcv.ackno) = x
  BY DEF RoundTrip
<1>1. SeqLen \in Nat /\ M \in Nat
  BY ReceiverAssumption, MAssumption DEF SeqLen
<1>2. rcv.ackno \in Nat /\ x \in Nat
  BY <1>1 DEF TypeOK
<1> QED BY <1>2, UnwrapUndoesWrap

\* In every state of the right type, any 32-bit number is unwrapped to the nearest
\* absolute number that wraps to it (TCPReceiver::segment_received).
THEOREM ReceiverNearest ==
  TypeOK /\ peer_isn \in WrappingInt32 => Nearest
<1> SUFFICES ASSUME TypeOK, peer_isn \in WrappingInt32 PROVE Nearest
  OBVIOUS
<1>1. SeqLen \in Nat /\ M \in Nat
  BY ReceiverAssumption, MAssumption DEF SeqLen
<1>2. rcv.ackno \in Nat
  BY <1>1 DEF TypeOK
<1>3. \A b \in 0 .. SeqLen + M : b \in Nat
  BY <1>1
<1> DEFINE c == rcv.ackno
<1>4. c \in Nat
  BY <1>2
<1> HIDE DEF c
<1>5. ASSUME NEW n \in WrappingInt32
      PROVE  LET a == unwrap(n, peer_isn, c)
                 Distance(b) == IF b > c THEN b - c ELSE c - b
             IN  /\ a >= 0
                 /\ wrap(a, peer_isn) = n
                 /\ \A b \in 0 .. SeqLen + M : wrap(b, peer_isn) = n => Distance(a) <= Distance(b)
  <2> DEFINE a == unwrap(n, peer_isn, c)
             Distance(b) == IF b > c THEN b - c ELSE c - b
  <2>1. /\ a \in Nat /\ wrap(a, peer_isn) = n
        /\ \A b \in Nat : wrap(b, peer_isn) = n => Distance(a) <= Distance(b)
    BY <1>4, UnwrapIsNearest
  <2> HIDE DEF a, Distance
  <2>2. a >= 0 /\ wrap(a, peer_isn) = n
        /\ \A b \in 0 .. SeqLen + M : wrap(b, peer_isn) = n => Distance(a) <= Distance(b)
    BY <1>3, <2>1
  <2> QED BY <2>2 DEF a, Distance
<1> QED BY <1>5 DEF c, Nearest

-----------------------------------------------------------------------------
(* The inductive invariant. *)

\* The reassembler q holds bytes of the stream that fit the window.
Bounded(q) ==
  /\ OfStream(q, StreamLen) /\ Have(q) \subseteq 0 .. Edge(q) - 1
  /\ q.output.capacity = Capacity
  /\ q.eidx \in {0, StreamLen} /\ DOMAIN q.mp \subseteq 0 .. StreamLen + 1

\* The sequence number k is the SYN, a byte the reassembler has, or the FIN.
Known(r, k) ==
  \/ k = 0 /\ r.syn_arrived
  \/ k \in 1 .. StreamLen /\ k - 1 \in Have(r.reassembler)
  \/ k = StreamLen + 1 /\ r.reassembler.eof

\* The receiver r knows the sequence numbers in S of the peer whose first is isn.
RecvInv(r, isn, S) ==
  /\ r = [reassembler |-> r.reassembler, syn_arrived |-> r.syn_arrived, isn |-> r.isn,
          ackno |-> r.ackno]
  /\ isn \in WrappingInt32
  /\ Bounded(r.reassembler)
  /\ r.syn_arrived \in BOOLEAN
  /\ r.syn_arrived => /\ r.isn = isn
                      /\ r.ackno = r.reassembler.nidx + 1 + BoolToNat(r.reassembler.output.ended)
  /\ ~r.syn_arrived => /\ r.isn = 0 /\ r.ackno = 0
                       /\ Have(r.reassembler) = {} /\ ~r.reassembler.eof
  /\ S = {k \in 0 .. SeqLen - 1 : Known(r, k)}

VInv == RecvInv(rcv, peer_isn, arrived)

-----------------------------------------------------------------------------
(* The numbers of a state. *)

\* What a bounded reassembler has: the bytes up to _nidx, which is the first one
\* missing.
LEMMA BoundedNumbers ==
  ASSUME NEW q, Bounded(q)
  PROVE  /\ RInv(q) /\ LoopInv(q) /\ q.nidx \in 0 .. StreamLen /\ q.nidx \in Nat
         /\ Edge(q) \in Nat /\ q.nidx <= Edge(q)
         /\ 0 .. q.nidx - 1 \subseteq Have(q) /\ q.nidx \notin Have(q)
         /\ Have(q) \subseteq 0 .. StreamLen - 1
         /\ q.eof \in BOOLEAN /\ q.output.ended \in BOOLEAN
         /\ q.output.ended <=> q.eof /\ q.nidx = StreamLen
         /\ RemainingCapacity(q.output) \in Nat
         /\ Edge(q) = q.nidx + RemainingCapacity(q.output)
<1>1. /\ RInv(q) /\ LoopInv(q) /\ Assembled(q) /\ Stored(q.mp) /\ Have(q) \subseteq 0 .. StreamLen - 1
      /\ q.eof \in BOOLEAN /\ (q.output.ended <=> q.eof /\ q.nidx = StreamLen)
      /\ \A key \in DOMAIN q.mp : key > q.nidx
  BY Zenon DEF Bounded, OfStream, RInv, LoopInv
<1>2. /\ q.nidx \in Nat /\ Edge(q) \in Nat /\ q.nidx <= Edge(q)
      /\ 0 .. q.nidx - 1 \subseteq Have(q)
  BY <1>1, HaveNumbers
<1>3. q.nidx \in 0 .. StreamLen
  BY <1>1, ReceiverAssumption, WithinStream
<1>4. q.nidx \notin Have(q)
  <2>1. q.nidx \notin 0 .. q.nidx - 1
    BY <1>2
  <2>2. ASSUME NEW key \in DOMAIN q.mp PROVE q.nidx \notin Span(q, key)
    <3>1. key \in Nat /\ Len(q.mp[key]) \in Nat /\ key > q.nidx
      BY <1>1 DEF Stored
    <3> QED BY <1>2, <3>1 DEF Span
  <2> QED BY <2>1, <2>2 DEF Have, Held
<1>5. q.output.ended \in BOOLEAN /\ RemainingCapacity(q.output) \in Nat
  BY <1>1, LenProperties DEF Assembled, StreamOK, Streams, RemainingCapacity
<1> QED BY <1>1, <1>2, <1>3, <1>4, <1>5, Zenon DEF Edge

\* The receiver's window lies right of what it acknowledged, and counts the SYN and
\* the FIN on top of what the reassembler's does.
LEMMA WindowNumbers ==
  ASSUME NEW r, NEW isn, NEW S, RecvInv(r, isn, S)
  PROVE  /\ r.ackno \in 0 .. SeqLen /\ r.ackno \in Nat /\ SeqLen = StreamLen + 2
         /\ window_size(r) \in Nat
         /\ WindowEnd(r) \in Nat /\ WindowEnd(r) >= 1
         /\ WindowEnd(r) = Edge(r.reassembler)
                           + (IF r.syn_arrived
                              THEN 1 + BoolToNat(r.reassembler.output.ended) ELSE 0)
<1> DEFINE q == r.reassembler
           e == BoolToNat(q.output.ended)
<1>1. /\ q.nidx \in 0 .. StreamLen /\ q.nidx \in Nat
      /\ Edge(q) \in Nat /\ RemainingCapacity(q.output) \in Nat
      /\ Edge(q) = q.nidx + RemainingCapacity(q.output)
      /\ 0 .. q.nidx - 1 \subseteq Have(q) /\ LoopInv(q)
  BY BoundedNumbers DEF RecvInv
<1>2. e \in {0, 1}
  BY DEF BoolToNat
<1>3. StreamLen \in Nat /\ Capacity \in Nat /\ Capacity >= 1
  BY ReceiverAssumption
<1>4. window_size(r) = RemainingCapacity(q.output)
  BY DEF window_size
<1>5. CASE r.syn_arrived
  <2>1. r.ackno = q.nidx + 1 + e
    BY <1>5 DEF RecvInv
  <2> HIDE DEF e, q
  <2>2. WindowEnd(r) = Edge(q) + (1 + e)
    BY <1>1, <1>2, <1>4, <2>1 DEF WindowEnd
  <2>3. /\ r.ackno \in 0 .. SeqLen /\ r.ackno \in Nat /\ SeqLen = StreamLen + 2
        /\ Edge(q) + (1 + e) \in Nat /\ Edge(q) + (1 + e) >= 1
    BY <1>1, <1>2, <1>3, <2>1 DEF SeqLen
  <2> QED BY <1>1, <1>4, <1>5, <2>2, <2>3 DEF e, q
<1>6. CASE ~r.syn_arrived
  <2>1. r.ackno = 0 /\ Have(q) = {}
    BY <1>6 DEF RecvInv
  <2>2. q.nidx = 0
    <3>1. q.nidx > 0 => 0 \in 0 .. q.nidx - 1
      BY <1>1
    <3> QED BY <1>1, <2>1, <3>1
  <2>3. RemainingCapacity(q.output) = Capacity
    <3>1. Len(q.output.buf) \in Nat /\ Len(q.output.buf) <= q.nidx
      BY <1>1, LenProperties DEF LoopInv, Assembled, StreamOK, Streams
    <3>2. q.output.capacity = Capacity
      BY DEF RecvInv, Bounded
    <3> QED BY <1>3, <2>2, <3>1, <3>2 DEF RemainingCapacity
  <2> HIDE DEF q
  <2>4. WindowEnd(r) = Edge(q) + 0 /\ Edge(q) = Capacity
    BY <1>1, <1>3, <1>4, <2>1, <2>2, <2>3 DEF WindowEnd
  <2>5. 0 \in 0 .. SeqLen /\ SeqLen = StreamLen + 2
    BY <1>3 DEF SeqLen
  <2> QED BY <1>1, <1>3, <1>4, <1>6, <2>1, <2>4, <2>5 DEF q
<1> QED BY <1>5, <1>6

-----------------------------------------------------------------------------
(* Pushing what a segment carries. *)

\* q became t by taking in the bytes from i on, m of them: none is lost, _nidx goes over
\* those that follow on and the right edge of the window stays.
Pushed(q, t, i, m, fin) ==
  /\ Bounded(t) /\ Edge(t) = Edge(q) /\ t.nidx >= q.nidx
  /\ Have(t) = Have(q) \cup (i .. i + m - 1)
  /\ t.eof <=> q.eof \/ fin
  /\ t.output = Finished(Written(q.output, Bytes(q.nidx, t.nidx - q.nidx)), t)
  /\ Complete(t) <=> t.eof /\ t.nidx = StreamLen

\* A substring of the stream that fits the window is taken in whole.
LEMMA PushInWindow ==
  ASSUME NEW q, Bounded(q), NEW i \in 0 .. StreamLen + 1, NEW m \in Nat,
         i .. i + m - 1 \subseteq 0 .. StreamLen - 1, i .. i + m - 1 \subseteq 0 .. Edge(q) - 1,
         NEW fin, fin => i + m = StreamLen,
         NEW t, t = PushSubstring(q, Bytes(i, m), i, fin)
  PROVE  Pushed(q, t, i, m, fin)
<1> DEFINE I == i .. i + m - 1
<1>1. /\ RInv(q) /\ q.eof \in BOOLEAN /\ StreamLen \in Nat /\ i \in Nat
      /\ OfStream(q, StreamLen) /\ Have(q) \subseteq 0 .. Edge(q) - 1
      /\ q.output.capacity = Capacity /\ q.eidx \in {0, StreamLen}
      /\ DOMAIN q.mp \subseteq 0 .. StreamLen + 1
  BY BoundedNumbers, ReceiverAssumption DEF Bounded
<1>2. /\ Edge(t) = Edge(q) /\ t.nidx \in Nat /\ t.nidx >= q.nidx
      /\ t.output = Finished(Written(q.output, Bytes(q.nidx, t.nidx - q.nidx)), t)
      /\ t.output.capacity = q.output.capacity
      /\ fin => t.eof /\ t.eof \in BOOLEAN /\ t.eidx = i + m
      /\ ~fin => t.eof = q.eof /\ t.eidx = q.eidx
      /\ DOMAIN t.mp \subseteq DOMAIN q.mp \cup {i}
      /\ Have(q) \cup I \subseteq 0 .. Edge(q) - 1 => Have(t) = Have(q) \cup I
  BY <1>1, PushSubstringInv
<1>3. OfStream(t, StreamLen)
  BY <1>1, PushOfStream
<1>4. Have(q) \cup I \subseteq 0 .. Edge(q) - 1
  BY <1>1, Zenon
<1>5. Have(t) = Have(q) \cup I
  BY <1>2, <1>4, Zenon
<1>6. t.eidx \in {0, StreamLen} /\ DOMAIN t.mp \subseteq 0 .. StreamLen + 1
  <2>1. DOMAIN q.mp \cup {i} \subseteq 0 .. StreamLen + 1
    BY <1>1, Zenon
  <2>2. t.eidx = StreamLen \/ t.eidx = q.eidx
    BY <1>2, Zenon
  <2> QED BY <1>1, <1>2, <2>1, <2>2, Zenon
<1>7. Bounded(t)
  BY <1>1, <1>2, <1>3, <1>4, <1>5, <1>6, Zenon DEF Bounded
<1>8. t.eof <=> q.eof \/ fin
  BY <1>2, Zenon
<1>9. Complete(t) <=> t.eof /\ t.nidx = StreamLen
  <2>1. t.nidx \in 0 .. StreamLen /\ (t.eof => t.eidx = StreamLen)
    BY <1>3, <1>7, BoundedNumbers DEF OfStream
  <2>2. t.nidx >= StreamLen <=> t.nidx = StreamLen
    BY <1>1, <2>1
  <2> QED BY <2>1, <2>2, Zenon DEF Complete
<1> QED BY <1>2, <1>5, <1>7, <1>8, <1>9, Zenon DEF Pushed

\* The sequence number k is the SYN, if there is one, one of the m bytes from i on, or the
\* FIN, if there is one.
InSegment(k, i, m, syn, fin) ==
  \/ k = 0 /\ syn = 1
  \/ k - 1 \in i .. i + m - 1
  \/ k = StreamLen + 1 /\ fin = 1

\* What a segment with the n sequence numbers from a on carries.
Carries(a, n, syn, fin, i, m) ==
  /\ a \in 0 .. SeqLen /\ n \in 0 .. SeqLen - a /\ (a > 0 \/ n > 0)
  /\ syn \in {0, 1} /\ (syn = 1 <=> a = 0 /\ n > 0)
  /\ fin \in {0, 1} /\ (fin = 1 <=> n > 0 /\ a + n = SeqLen)
  /\ i = a - 1 + syn /\ m = n - syn - fin

\* The n sequence numbers from a on are the SYN, m bytes of the stream from i on, and
\* the FIN.
LEMMA SegmentRange ==
  ASSUME NEW a, NEW n, NEW syn, NEW fin, NEW i, NEW m, Carries(a, n, syn, fin, i, m)
  PROVE  /\ i \in 0 .. StreamLen + 1 /\ i \in Nat /\ m \in Nat
         /\ i .. i + m - 1 \subseteq 0 .. StreamLen - 1
         /\ fin = 1 => i + m = StreamLen
         /\ i + m <= a + n - 1
         /\ i + m <= StreamLen \/ (m = 0 /\ fin = 0)
         /\ \A k \in Int : k \in a .. a + n - 1 <=> InSegment(k, i, m, syn, fin)
<1>1. /\ SeqLen = StreamLen + 2 /\ StreamLen \in Nat
      /\ a \in Nat /\ n \in Nat /\ a + n <= StreamLen + 2 /\ (a > 0 \/ n > 0)
      /\ syn \in {0, 1} /\ (syn = 1 <=> a = 0 /\ n > 0)
      /\ fin \in {0, 1} /\ (fin = 1 <=> n > 0 /\ a + n = SeqLen)
      /\ i = a - 1 + syn /\ m = n - syn - fin
  BY ReceiverAssumption DEF SeqLen, Carries
<1>2. /\ i \in 0 .. StreamLen + 1 /\ i \in Nat /\ m \in Nat
      /\ fin = 1 => i + m = StreamLen
      /\ i + m <= a + n - 1
      /\ i + m <= StreamLen \/ (m = 0 /\ fin = 0)
  BY <1>1
<1>3. i .. i + m - 1 \subseteq 0 .. StreamLen - 1
  BY <1>1, <1>2
<1>4. ASSUME NEW k \in Int
      PROVE  k \in a .. a + n - 1 <=> InSegment(k, i, m, syn, fin)
  BY <1>1, <1>2 DEF InSegment
<1> QED BY <1>2, <1>3, <1>4

\* A segment with the fields the peer sets.
Made(seqno, syn, fin, payload) ==
  [NewSegment(seqno) EXCEPT !.syn = syn, !.fin = fin, !.payload = payload]

\* The fields of a segment.
LEMMA SegmentFields ==
  ASSUME NEW seqno, NEW syn, NEW fin, NEW payload
  PROVE  /\ Made(seqno, syn, fin, payload).seqno = seqno
         /\ Made(seqno, syn, fin, payload).syn = syn
         /\ Made(seqno, syn, fin, payload).fin = fin
         /\ Made(seqno, syn, fin, payload).payload = payload
<1> DEFINE no == FALSE
<1>1. NewSegment(seqno) = [seqno |-> seqno, syn |-> no, fin |-> no, rst |-> no, ack |-> no,
                           ackno |-> 0, win |-> 0, payload |-> <<>>]
  BY DEF NewSegment
<1> HIDE DEF no
<1> QED BY <1>1 DEF Made

-----------------------------------------------------------------------------
(* Receiving a segment. *)

\* The reassembler t is q, or q after a push that the abstract specification allows.
Follows(q, t) ==
  \/ t = q
  \/ \E i \in 0 .. StreamLen : \E m \in 0 .. StreamLen - i : \E fin \in BOOLEAN :
       /\ i + m <= Edge(q) /\ (fin => i + m = StreamLen)
       /\ Pushed(q, t, i, m, fin)

\* A segment within the window carries only bytes that fit it, also after the FIN, when
\* the window counts one number more.
LEMMA AcceptPush ==
  ASSUME NEW r, NEW isn, NEW S, RecvInv(r, isn, S),
         NEW a, NEW n, NEW syn, NEW fin, NEW i, NEW m, Carries(a, n, syn, fin, i, m),
         a + n <= WindowEnd(r), NEW eof, eof <=> fin = 1,
         NEW t, t = PushSubstring(r.reassembler, Bytes(i, m), i, eof)
  PROVE  Pushed(r.reassembler, t, i, m, eof) /\ Follows(r.reassembler, t)
<1> DEFINE q == r.reassembler
<1>1. /\ i \in 0 .. StreamLen + 1 /\ i \in Nat /\ m \in Nat
      /\ i .. i + m - 1 \subseteq 0 .. StreamLen - 1
      /\ fin = 1 => i + m = StreamLen
      /\ i + m <= a + n - 1
      /\ i + m <= StreamLen \/ (m = 0 /\ fin = 0)
  <2>1. i \in 0 .. StreamLen + 1 /\ i \in Nat /\ m \in Nat
    BY SegmentRange
  <2>2. i .. i + m - 1 \subseteq 0 .. StreamLen - 1
    BY SegmentRange
  <2>3. (fin = 1 => i + m = StreamLen) /\ i + m <= a + n - 1
    BY SegmentRange
  <2>4. i + m <= StreamLen \/ (m = 0 /\ fin = 0)
    BY SegmentRange
  <2> QED BY <2>1, <2>2, <2>3, <2>4
<1>2. /\ Bounded(q) /\ q.nidx \in Nat /\ Edge(q) \in Nat /\ q.nidx <= Edge(q)
      /\ q.output.ended <=> q.eof /\ q.nidx = StreamLen
  <2>1. Bounded(q)
    BY DEF RecvInv
  <2> HIDE DEF q
  <2> QED BY <2>1, BoundedNumbers
<1>3. StreamLen \in Nat /\ a \in Nat /\ n \in Nat
  BY ReceiverAssumption DEF SeqLen, Carries
<1>4. WindowEnd(r) <= Edge(q) + 1 \/ Edge(q) >= StreamLen
  <2>1. WindowEnd(r) = Edge(q) + (IF r.syn_arrived THEN 1 + BoolToNat(q.output.ended) ELSE 0)
    BY WindowNumbers
  <2> HIDE DEF q
  <2>2. CASE q.output.ended
    BY <1>2, <1>3, <2>2
  <2>3. CASE ~q.output.ended
    BY <1>2, <2>1, <2>3 DEF BoolToNat
  <2> QED BY <2>2, <2>3
<1>5. i + m <= Edge(q) \/ (m = 0 /\ fin = 0)
  <2>1. WindowEnd(r) \in Nat
    BY WindowNumbers
  <2> HIDE DEF q
  <2> QED BY <1>1, <1>2, <1>3, <1>4, <2>1
<1>6. i .. i + m - 1 \subseteq 0 .. Edge(q) - 1
  <2> HIDE DEF q
  <2> QED BY <1>1, <1>2, <1>5
<1> HIDE DEF q
<1>7. Pushed(q, t, i, m, eof)
  <2>1. eof => i + m = StreamLen
    BY <1>1
  <2>2. t = PushSubstring(q, Bytes(i, m), i, eof)
    BY DEF q
  <2> QED BY <1>1, <1>2, <1>6, <2>1, <2>2, PushInWindow
<1>8. Follows(q, t)
  <2>1. CASE i + m <= Edge(q) /\ i + m <= StreamLen
    <3>1. i \in 0 .. StreamLen /\ m \in 0 .. StreamLen - i
      BY <1>1, <1>3, <2>1
    <3>2. CASE fin = 1
      <4>1. Pushed(q, t, i, m, TRUE)
        BY <1>7, <3>2, Zenon DEF Pushed
      <4> QED BY <1>1, <2>1, <3>1, <3>2, <4>1, Zenon DEF Follows
    <3>3. CASE fin # 1
      <4>1. Pushed(q, t, i, m, FALSE)
        BY <1>7, <3>3, Zenon DEF Pushed
      <4> QED BY <2>1, <3>1, <4>1, Zenon DEF Follows
    <3> QED BY <3>2, <3>3
  <2>2. CASE m = 0 /\ fin = 0
    <3> DEFINE z == 0
    <3>1. i .. i + m - 1 = z .. z + z - 1 /\ z \in 0 .. StreamLen /\ z \in 0 .. StreamLen - z
          /\ z + z <= Edge(q) /\ fin # 1
      BY <1>1, <1>2, <1>3, <2>2
    <3> HIDE DEF z
    <3>2. Pushed(q, t, z, z, FALSE)
      BY <1>7, <3>1, Zenon DEF Pushed
    <3> QED BY <3>1, <3>2, Zenon DEF Follows
  <2> QED BY <1>1, <1>5, <2>1, <2>2
<1> QED BY <1>7, <1>8 DEF q

\* The receiver t knows the peer's isn and acknowledges all that its reassembler assembled.
Acknowledges(t, isn) ==
  /\ t = [reassembler |-> t.reassembler, syn_arrived |-> t.syn_arrived, isn |-> t.isn,
          ackno |-> t.ackno]
  /\ t.syn_arrived /\ t.syn_arrived \in BOOLEAN /\ t.isn = isn
  /\ t.ackno = t.reassembler.nidx + 1 + BoolToNat(t.reassembler.output.ended)

\* The receiver's state after such a segment: what it acknowledges follows from what it
\* has, and neither the acknowledgment nor the window moves back.
LEMMA AcceptInv ==
  ASSUME NEW r, NEW isn, NEW S, RecvInv(r, isn, S),
         NEW a, NEW n, NEW syn, NEW fin, NEW i, NEW m, Carries(a, n, syn, fin, i, m),
         a + n <= WindowEnd(r), NEW eof, eof <=> fin = 1, r.syn_arrived \/ syn = 1,
         NEW t, Pushed(r.reassembler, t.reassembler, i, m, eof), Acknowledges(t, isn),
         NEW T, T = S \cup {k \in a .. a + n - 1 : k < WindowEnd(r)}
  PROVE  /\ RecvInv(t, isn, T)
         /\ t.ackno >= r.ackno /\ WindowEnd(t) >= WindowEnd(r)
<1> DEFINE q == r.reassembler
           p == t.reassembler
<1>1. /\ \A k \in Int : k \in a .. a + n - 1 <=> InSegment(k, i, m, syn, fin)
      /\ i .. i + m - 1 \subseteq 0 .. StreamLen - 1
  BY SegmentRange
<1>2. /\ Bounded(q) /\ (syn # 1 => r.syn_arrived) /\ isn \in WrappingInt32
      /\ S = {k \in 0 .. SeqLen - 1 : Known(r, k)}
  BY DEF RecvInv
<1>3. /\ Bounded(p) /\ Edge(p) = Edge(q) /\ p.nidx >= q.nidx
      /\ Have(p) = Have(q) \cup (i .. i + m - 1)
      /\ p.eof <=> q.eof \/ eof
  BY Zenon DEF Pushed
<1>4. StreamLen \in Nat /\ SeqLen = StreamLen + 2 /\ a \in Nat /\ n \in Nat
      /\ a + n <= SeqLen /\ WindowEnd(r) \in Nat
  BY ReceiverAssumption, WindowNumbers DEF SeqLen, Carries
<1>5. T = S \cup (a .. a + n - 1)
  BY <1>4
<1>6. ASSUME NEW k \in 0 .. SeqLen - 1
      PROVE  k \in T <=> Known(t, k)
  <2>1. k \in Int /\ (k - 1 \in 0 .. StreamLen - 1 <=> k \in 1 .. StreamLen)
    BY <1>4
  <2>2. k \in T <=> Known(r, k) \/ InSegment(k, i, m, syn, fin)
    BY <1>1, <1>2, <1>5, <2>1
  <2>3. k \in 1 .. StreamLen /\ k - 1 \in Have(p)
          <=> (k \in 1 .. StreamLen /\ k - 1 \in Have(q)) \/ k - 1 \in i .. i + m - 1
    BY <1>1, <1>3, <2>1, Zenon
  <2>4. k = 0 /\ t.syn_arrived <=> (k = 0 /\ r.syn_arrived) \/ (k = 0 /\ syn = 1)
    BY <1>2, Zenon DEF Acknowledges
  <2>5. k = StreamLen + 1 /\ p.eof
          <=> (k = StreamLen + 1 /\ q.eof) \/ (k = StreamLen + 1 /\ fin = 1)
    BY <1>3, Zenon
  <2>6. Known(r, k) \/ InSegment(k, i, m, syn, fin) <=> Known(t, k)
    BY <2>3, <2>4, <2>5, Zenon DEF Known, InSegment
  <2> QED BY <2>2, <2>6, Zenon
<1>7. T = {k \in 0 .. SeqLen - 1 : Known(t, k)}
  <2>1. T \subseteq 0 .. SeqLen - 1
    BY <1>2, <1>4, <1>5
  <2> QED BY <1>6, <2>1, Zenon
<1>8. RecvInv(t, isn, T)
  BY <1>2, <1>3, <1>7, Zenon DEF RecvInv, Acknowledges
<1>9. /\ q.nidx \in Nat /\ p.nidx \in Nat /\ q.nidx \in 0 .. StreamLen /\ p.nidx \in 0 .. StreamLen
      /\ Edge(q) \in Nat /\ (q.output.ended => p.output.ended)
  <2> HIDE DEF p, q
  <2>1. /\ q.nidx \in Nat /\ q.nidx \in 0 .. StreamLen /\ Edge(q) \in Nat
        /\ q.output.ended <=> q.eof /\ q.nidx = StreamLen
    BY <1>2, BoundedNumbers
  <2>2. /\ p.nidx \in Nat /\ p.nidx \in 0 .. StreamLen
        /\ p.output.ended <=> p.eof /\ p.nidx = StreamLen
    BY <1>3, BoundedNumbers
  <2>3. q.nidx = StreamLen => p.nidx = StreamLen
    <3>1. p.nidx >= q.nidx /\ p.nidx \in 0 .. StreamLen
      BY <1>3, <2>2, Zenon
    <3> QED BY <1>4, <3>1
  <2> QED BY <1>3, <2>1, <2>2, <2>3, Zenon
<1> DEFINE e == BoolToNat(q.output.ended)
           f == BoolToNat(p.output.ended)
<1>10. e \in {0, 1} /\ f \in {0, 1} /\ e <= f
  BY <1>9 DEF BoolToNat
<1>11. t.ackno = p.nidx + 1 + f /\ WindowEnd(t) = Edge(p) + (1 + f)
  <2>1. t.syn_arrived /\ t.ackno = p.nidx + 1 + f
    BY DEF Acknowledges
  <2> QED BY <1>8, <2>1, WindowNumbers
<1>12. CASE r.syn_arrived
  <2>1. r.ackno = q.nidx + 1 + e /\ WindowEnd(r) = Edge(q) + (1 + e)
    BY <1>12, WindowNumbers, Zenon DEF RecvInv
  <2> HIDE DEF e, f, p, q
  <2> QED BY <1>3, <1>8, <1>9, <1>10, <1>11, <2>1
<1>13. CASE ~r.syn_arrived
  <2>1. r.ackno = 0 /\ WindowEnd(r) = Edge(q) + 0
    BY <1>13, WindowNumbers, Zenon DEF RecvInv
  <2> HIDE DEF e, f, p, q
  <2> QED BY <1>3, <1>8, <1>9, <1>10, <1>11, <2>1
<1> QED BY <1>12, <1>13

\* The receiver s is r once it has looked at the SYN of a segment that carries the numbers
\* from a on.
Synced(r, s, isn, a, seg) ==
  /\ s = [reassembler |-> s.reassembler, syn_arrived |-> s.syn_arrived, isn |-> s.isn,
          ackno |-> s.ackno]
  /\ s.reassembler = r.reassembler /\ s.ackno = r.ackno /\ s.syn_arrived \in BOOLEAN
  /\ ~seg.syn => s = r
  /\ seg.syn => s.syn_arrived
  /\ s.syn_arrived => s.isn = isn /\ unwrap(seg.seqno, s.isn, s.ackno) = a
  /\ WindowEnd(s) = WindowEnd(r)

\* The receiver once it has looked at the SYN of a segment: the sequence number of the SYN
\* is the peer's first, so that every later one is unwrapped to the number the peer meant.
LEMMA Synchronised ==
  ASSUME NEW r, NEW isn, NEW S, RecvInv(r, isn, S), NEW a \in 0 .. SeqLen,
         r.ackno - a < M \div 2, a - r.ackno < M \div 2,
         NEW seg, seg.seqno = wrap(a, isn), seg.syn => a = 0,
         NEW s, s = IF seg.syn THEN [r EXCEPT !.syn_arrived = TRUE, !.isn = seg.seqno] ELSE r
  PROVE  Synced(r, s, isn, a, seg)
<1> DEFINE yes == TRUE
           v   == [r EXCEPT !.syn_arrived = yes]
           u   == [v EXCEPT !.isn = seg.seqno]
<1>1. /\ r = [reassembler |-> r.reassembler, syn_arrived |-> r.syn_arrived, isn |-> r.isn,
              ackno |-> r.ackno]
      /\ isn \in WrappingInt32 /\ r.syn_arrived \in BOOLEAN /\ (r.syn_arrived => r.isn = isn)
  BY Zenon DEF RecvInv
<1>2. s = IF seg.syn THEN u ELSE r
  OBVIOUS
<1>3. yes \in BOOLEAN /\ yes
  OBVIOUS
<1> HIDE DEF yes
<1>4. /\ v = [reassembler |-> v.reassembler, syn_arrived |-> v.syn_arrived, isn |-> v.isn,
              ackno |-> v.ackno]
      /\ v.reassembler = r.reassembler /\ v.ackno = r.ackno /\ v.syn_arrived = yes
  BY <1>1
<1> HIDE DEF v
<1>5. /\ u = [reassembler |-> u.reassembler, syn_arrived |-> u.syn_arrived, isn |-> u.isn,
              ackno |-> u.ackno]
      /\ u.reassembler = v.reassembler /\ u.ackno = v.ackno /\ u.syn_arrived = v.syn_arrived
      /\ u.isn = seg.seqno
  BY <1>4
<1> HIDE DEF u
<1>6. a \in Nat /\ r.ackno \in Nat
  BY WindowNumbers, ReceiverAssumption DEF SeqLen
<1>7. seg.syn => seg.seqno = isn
  <2>1. isn \in Nat /\ isn < M /\ M \in Nat
    BY <1>1, MAssumption DEF WrappingInt32
  <2>2. (isn + 0) % M = isn
    BY <2>1, MAssumption, ModSmall
  <2> QED BY <2>2, Zenon DEF wrap
<1>8. /\ s = [reassembler |-> s.reassembler, syn_arrived |-> s.syn_arrived, isn |-> s.isn,
              ackno |-> s.ackno]
      /\ s.reassembler = r.reassembler /\ s.ackno = r.ackno /\ s.syn_arrived \in BOOLEAN
      /\ ~seg.syn => s = r
      /\ seg.syn => s.syn_arrived
      /\ s.syn_arrived => s.isn = isn
  <2>1. CASE seg.syn
    <3>1. s = u
      BY <1>2, <2>1
    <3>2. s.syn_arrived = yes /\ s.isn = isn /\ s.reassembler = r.reassembler /\ s.ackno = r.ackno
      BY <1>4, <1>5, <1>7, <2>1, <3>1, Zenon
    <3> QED BY <1>3, <1>5, <2>1, <3>1, <3>2, Zenon
  <2>2. CASE ~seg.syn
    <3>1. s = r
      BY <1>2, <2>2
    <3> QED BY <1>1, <2>2, <3>1, Zenon
  <2> QED BY <2>1, <2>2, Zenon
<1>9. unwrap(wrap(a, isn), isn, r.ackno) = a
  BY <1>1, <1>6, UnwrapUndoesWrap
<1>10. s.syn_arrived => unwrap(seg.seqno, s.isn, s.ackno) = a
  BY <1>8, <1>9, Zenon
<1>11. WindowEnd(s) = WindowEnd(r)
  BY <1>8 DEF WindowEnd, window_size
<1> QED BY <1>8, <1>10, <1>11, Zenon DEF Synced

\* The peer may have sent seg, with the n sequence numbers from a on, to the receiver r.
Sent(r, isn, a, n, seg) ==
  /\ a \in 0 .. SeqLen /\ n \in 0 .. SeqLen - a
  /\ a + n <= WindowEnd(r) \/ (window_size(r) = 0 /\ a = WindowEnd(r) /\ n = 1)
  /\ r.ackno - a < M \div 2 /\ a - r.ackno < M \div 2
  /\ seg.seqno = wrap(a, isn)
  /\ seg.syn <=> a = 0 /\ n > 0
  /\ seg.fin <=> n > 0 /\ a + n = SeqLen
  /\ seg.payload = Bytes(a - 1 + BoolToNat(seg.syn),
                         n - BoolToNat(seg.syn) - BoolToNat(seg.fin))

\* The sequence numbers known after it, when it makes r into t.
Learned(S, r, t, a, n) ==
  IF t.syn_arrived THEN S \cup {k \in a .. a + n - 1 : k < WindowEnd(r)} ELSE S

\* Whatever segment arrives that the peer may have sent, the receiver keeps its invariant,
\* takes back nothing and does to the reassembler nothing that its specification forbids.
LEMMA ReceiveInv ==
  ASSUME NEW r, NEW isn, NEW S, RecvInv(r, isn, S),
         NEW a, NEW n, NEW seg, Sent(r, isn, a, n, seg),
         NEW t, t = SegmentReceived(r, seg), NEW T, T = Learned(S, r, t, a, n)
  PROVE  /\ RecvInv(t, isn, T) /\ Follows(r.reassembler, t.reassembler)
         /\ t.ackno >= r.ackno /\ WindowEnd(t) >= WindowEnd(r)
<1> DEFINE s   == IF seg.syn THEN [r EXCEPT !.syn_arrived = TRUE, !.isn = seg.seqno] ELSE r
           idx == unwrap(seg.seqno, s.isn, s.ackno)
           syn == BoolToNat(seg.syn)
           fin == BoolToNat(seg.fin)
           i   == a - 1 + syn
           m   == n - syn - fin
           p   == PushSubstring(s.reassembler, seg.payload, StreamIndex(idx, seg), seg.fin)
           Dropped == ~s.syn_arrived \/ (idx = 0 /\ ~seg.syn) \/ idx >= window_size(s) + s.ackno
<1>0. /\ a \in 0 .. SeqLen /\ n \in 0 .. SeqLen - a
      /\ a + n <= WindowEnd(r) \/ (window_size(r) = 0 /\ a = WindowEnd(r) /\ n = 1)
      /\ r.ackno - a < M \div 2 /\ a - r.ackno < M \div 2
      /\ seg.seqno = wrap(a, isn)
      /\ seg.syn <=> a = 0 /\ n > 0
      /\ seg.fin <=> n > 0 /\ a + n = SeqLen
      /\ seg.payload = Bytes(i, m)
  BY Zenon DEF Sent
<1>1. t = IF Dropped THEN s ELSE [s EXCEPT !.reassembler = p, !.ackno = NextAck(p, seg)]
  BY DEF SegmentReceived
<1>2. StreamIndex(idx, seg) = idx - 1 + syn
  BY DEF StreamIndex
<1> HIDE DEF s
<1>3. /\ s = [reassembler |-> s.reassembler, syn_arrived |-> s.syn_arrived, isn |-> s.isn,
              ackno |-> s.ackno]
      /\ s.reassembler = r.reassembler /\ s.ackno = r.ackno /\ s.syn_arrived \in BOOLEAN
      /\ ~seg.syn => s = r
      /\ seg.syn => s.syn_arrived
      /\ s.syn_arrived => s.isn = isn /\ idx = a
      /\ WindowEnd(s) = WindowEnd(r)
  <2>1. seg.syn => a = 0
    BY <1>0, Zenon
  <2>2. s = IF seg.syn THEN [r EXCEPT !.syn_arrived = TRUE, !.isn = seg.seqno] ELSE r
    BY DEF s
  <2>3. Synced(r, s, isn, a, seg)
    <3>1. /\ a \in 0 .. SeqLen /\ seg.seqno = wrap(a, isn)
          /\ r.ackno - a < M \div 2 /\ a - r.ackno < M \div 2
      BY <1>0
    <3> QED BY <2>1, <2>2, <3>1, Synchronised, Zenon
  <2> QED BY <2>3, Zenon DEF Synced
<1> HIDE DEF idx
<1>4. /\ a \in Nat /\ n \in Nat /\ WindowEnd(r) \in Nat /\ WindowEnd(r) >= 1
      /\ r.ackno \in Nat /\ window_size(r) \in Nat
  BY <1>0, ReceiverAssumption, WindowNumbers DEF SeqLen
<1>5. window_size(s) + s.ackno = WindowEnd(r)
  <2>1. window_size(s) = window_size(r)
    BY <1>3 DEF window_size
  <2> QED BY <1>3, <1>4, <2>1 DEF WindowEnd
<1>6. syn \in {0, 1} /\ fin \in {0, 1} /\ (syn = 1 <=> seg.syn) /\ (fin = 1 <=> seg.fin)
  BY DEF BoolToNat
<1>7. CASE Dropped
  <2>1. t = s
    BY <1>1, <1>7
  <2>2. ~seg.syn
    <3>1. SUFFICES ASSUME seg.syn PROVE FALSE
      OBVIOUS
    <3>2. s.syn_arrived /\ idx = a /\ a = 0
      BY <1>0, <1>3, <3>1, Zenon
    <3>3. a >= WindowEnd(r)
      BY <1>5, <1>7, <3>1, <3>2
    <3> QED BY <1>4, <3>2, <3>3
  <2>3. t = r
    BY <1>3, <2>1, <2>2
  <2>4. T = S
    <3>1. CASE ~t.syn_arrived
      BY <3>1 DEF Learned
    <3>2. CASE t.syn_arrived
      <4>1. idx = a /\ (a = 0 \/ a >= WindowEnd(r))
        BY <1>3, <1>5, <1>7, <2>1, <3>2
      <4>2. a = 0 => n = 0
        BY <1>0, <1>4, <2>2
      <4>3. \A k \in a .. a + n - 1 : ~(k < WindowEnd(r))
        BY <1>4, <4>1, <4>2
      <4> QED BY <3>2, <4>3 DEF Learned
    <3> QED BY <3>1, <3>2
  <2>5. t.ackno >= r.ackno /\ WindowEnd(t) >= WindowEnd(r)
    BY <1>4, <2>3
  <2> QED BY <2>3, <2>4, <2>5, Zenon DEF Follows
<1>8. CASE ~Dropped
  <2>1. s.syn_arrived /\ idx = a /\ (a > 0 \/ n > 0) /\ a + n <= WindowEnd(r)
    <3>1. s.syn_arrived /\ idx = a /\ ~(a = 0 /\ ~seg.syn) /\ ~(a >= WindowEnd(r))
      BY <1>3, <1>5, <1>8, Zenon
    <3> QED BY <1>0, <1>4, <3>1
  <2>2. p = PushSubstring(r.reassembler, Bytes(i, m), i, seg.fin)
    BY <1>0, <1>2, <1>3, <2>1
  <2>3. t = [s EXCEPT !.reassembler = p, !.ackno = NextAck(p, seg)]
    BY <1>1, <1>8
  <2> DEFINE ack == NextAck(p, seg)
  <2>4. ack = p.nidx + 1 + BoolToNat(p.output.ended)
    BY DEF NextAck
  <2> HIDE DEF p, ack
  <2>5. /\ t = [reassembler |-> t.reassembler, syn_arrived |-> t.syn_arrived, isn |-> t.isn,
                ackno |-> t.ackno]
        /\ t.reassembler = p /\ t.ackno = ack /\ t.syn_arrived = s.syn_arrived /\ t.isn = s.isn
    <3>1. t = [s EXCEPT !.reassembler = p, !.ackno = ack]
      BY <2>3 DEF ack
    <3>2. s = [reassembler |-> s.reassembler, syn_arrived |-> s.syn_arrived, isn |-> s.isn,
               ackno |-> s.ackno]
      BY <1>3, Zenon
    <3>3. t = [reassembler |-> p, syn_arrived |-> s.syn_arrived, isn |-> s.isn, ackno |-> ack]
      BY <3>1, <3>2, Zenon
    <3> QED BY <3>3
  <2>6. /\ Acknowledges(t, isn) /\ T = S \cup {k \in a .. a + n - 1 : k < WindowEnd(r)}
        /\ r.syn_arrived \/ syn = 1
    <3>1. /\ t.syn_arrived /\ t.syn_arrived \in BOOLEAN /\ t.isn = isn
          /\ r.syn_arrived \/ syn = 1
      BY <1>3, <1>6, <2>1, <2>5, Zenon
    <3>2. T = S \cup {k \in a .. a + n - 1 : k < WindowEnd(r)}
      BY <3>1 DEF Learned
    <3> QED BY <2>4, <2>5, <3>1, <3>2, Zenon DEF Acknowledges
  <2>7. Carries(a, n, syn, fin, i, m) /\ (seg.fin <=> fin = 1)
    BY <1>0, <1>6, <2>1, Zenon DEF Carries
  <2> HIDE DEF syn, fin, i, m
  <2>8. Pushed(r.reassembler, p, i, m, seg.fin) /\ Follows(r.reassembler, p)
    BY <2>1, <2>2, <2>7, AcceptPush
  <2>9. /\ RecvInv(t, isn, T) /\ t.ackno >= r.ackno /\ WindowEnd(t) >= WindowEnd(r)
    <3>1. Pushed(r.reassembler, t.reassembler, i, m, seg.fin)
      BY <2>5, <2>8, Zenon
    <3> QED BY <2>1, <2>6, <2>7, <3>1, AcceptInv
  <2> QED BY <2>5, <2>8, <2>9, Zenon
<1> QED BY <1>7, <1>8, Zenon

\* The receiver r after a reader took len bytes.
ReadBy(r, len) == [r EXCEPT !.reassembler.output = Popped(@, len)]

\* A reader only moves the window to the right.
LEMMA ReaderInv ==
  ASSUME NEW r, NEW isn, NEW S, RecvInv(r, isn, S),
         NEW len \in Nat, len <= Len(r.reassembler.output.buf),
         NEW t, t = ReadBy(r, len)
  PROVE  /\ RecvInv(t, isn, S) /\ t.ackno = r.ackno /\ WindowEnd(t) >= WindowEnd(r)
         /\ t.reassembler.output = Popped(r.reassembler.output, len)
         /\ Have(t.reassembler) = Have(r.reassembler)
         /\ t.reassembler.eof = r.reassembler.eof
<1> DEFINE q == r.reassembler
           p == [q EXCEPT !.output = Popped(@, len)]
<1>1. /\ r = [reassembler |-> r.reassembler, syn_arrived |-> r.syn_arrived, isn |-> r.isn,
              ackno |-> r.ackno]
      /\ Bounded(q)
  BY Zenon DEF RecvInv
<1>2. t = [r EXCEPT !.reassembler = p]
  BY DEF ReadBy
<1> HIDE DEF p, q
<1>3. /\ t = [reassembler |-> t.reassembler, syn_arrived |-> t.syn_arrived, isn |-> t.isn,
              ackno |-> t.ackno]
      /\ t.reassembler = p /\ t.syn_arrived = r.syn_arrived /\ t.isn = r.isn
      /\ t.ackno = r.ackno
  BY <1>1, <1>2
<1>4. RInv(q) /\ OfStream(q, StreamLen) /\ Edge(q) \in Nat /\ StreamLen \in Nat
  BY <1>1, BoundedNumbers, ReceiverAssumption DEF Bounded
<1>5. /\ Edge(p) = Edge(q) + len /\ Have(p) = Have(q)
      /\ p.mp = q.mp /\ p.nidx = q.nidx /\ p.eof = q.eof /\ p.eidx = q.eidx
      /\ p.output = Popped(q.output, len)
      /\ p.output.ended = q.output.ended /\ p.output.capacity = q.output.capacity
      /\ OfStream(p, StreamLen)
  <2>1. len <= Len(q.output.buf)
    BY DEF q
  <2> QED BY <1>4, <2>1, ReadInv, ReadOfStream DEF p
<1>6. Bounded(p)
  <2>1. 0 .. Edge(q) - 1 \subseteq 0 .. Edge(p) - 1
    BY <1>4, <1>5
  <2> QED BY <1>1, <1>5, <2>1, Zenon DEF Bounded
<1>7. {k \in 0 .. SeqLen - 1 : Known(t, k)} = {k \in 0 .. SeqLen - 1 : Known(r, k)}
  BY <1>3, <1>5, Zenon DEF Known, q
<1>8. RecvInv(t, isn, S)
  BY <1>3, <1>5, <1>6, <1>7, Zenon DEF RecvInv, q
<1>9. WindowEnd(t) >= WindowEnd(r)
  <2> DEFINE d == IF r.syn_arrived THEN 1 + BoolToNat(q.output.ended) ELSE 0
  <2>1. WindowEnd(r) = Edge(q) + d /\ d \in Nat
    BY WindowNumbers DEF q, BoolToNat
  <2>2. WindowEnd(t) = Edge(p) + d
    BY <1>3, <1>5, <1>8, WindowNumbers
  <2> HIDE DEF d
  <2> QED BY <1>4, <1>5, <2>1, <2>2
<1> QED BY <1>3, <1>5, <1>8, <1>9 DEF q

-----------------------------------------------------------------------------
(* The invariant. *)

\* A new receiver has the invariant.
LEMMA InitVInv == Init => VInv
<1> SUFFICES ASSUME Init PROVE VInv
  OBVIOUS
<1> DEFINE q == NewReassembler(Capacity)
<1>1. Capacity \in Nat /\ StreamLen \in Nat
  BY ReceiverAssumption
<1>2. RInv(q) /\ Have(q) = {} /\ OfStream(q, StreamLen)
  BY <1>1, NewReassemblerInv, NewOfStream
<1>3. q.output.capacity = Capacity /\ q.eidx = 0 /\ DOMAIN q.mp = {} /\ ~q.eof
  BY DEF NewReassembler, NewStream
<1>4. /\ rcv = [reassembler |-> q, syn_arrived |-> FALSE, isn |-> 0, ackno |-> 0]
      /\ peer_isn \in WrappingInt32 /\ arrived = {}
  BY DEF Init, NewReceiver
<1> HIDE DEF q
<1>5. Bounded(q)
  BY <1>2, <1>3, Zenon DEF Bounded
<1>6. /\ rcv = [reassembler |-> rcv.reassembler, syn_arrived |-> rcv.syn_arrived,
                isn |-> rcv.isn, ackno |-> rcv.ackno]
      /\ rcv.reassembler = q /\ rcv.syn_arrived = FALSE /\ rcv.isn = 0 /\ rcv.ackno = 0
  BY <1>4
<1>7. \A k : ~Known(rcv, k)
  BY <1>2, <1>3, <1>6, Zenon DEF Known
<1>8. arrived = {k \in 0 .. SeqLen - 1 : Known(rcv, k)}
  BY <1>4, <1>7, Zenon
<1> QED BY <1>2, <1>3, <1>4, <1>5, <1>6, <1>8, Zenon DEF VInv, RecvInv

\* The segments of the peer are those of Receiving a segment.
LEMMA SegmentIs ==
  ASSUME NEW a, NEW n, NEW seg, seg = Segment(a, n)
  PROVE  /\ seg.seqno = wrap(a, peer_isn)
         /\ seg.syn <=> a = 0 /\ n > 0
         /\ seg.fin <=> n > 0 /\ a + n = SeqLen
         /\ seg.payload = Bytes(a - 1 + BoolToNat(seg.syn),
                                n - BoolToNat(seg.syn) - BoolToNat(seg.fin))
<1>1. PICK syn : syn = (a = 0 /\ n > 0)
  OBVIOUS
<1>2. PICK fin : fin = (n > 0 /\ a + n = SeqLen)
  OBVIOUS
<1>3. PICK d : d = Bytes(a - 1 + BoolToNat(syn), n - BoolToNat(syn) - BoolToNat(fin))
  OBVIOUS
<1>4. seg = Made(wrap(a, peer_isn), syn, fin, d)
  BY <1>1, <1>2, <1>3, Zenon DEF Segment, Made
<1>5. seg.seqno = wrap(a, peer_isn) /\ seg.syn = syn /\ seg.fin = fin /\ seg.payload = d
  <2> DEFINE m == Made(wrap(a, peer_isn), syn, fin, d)
  <2>1. m.seqno = wrap(a, peer_isn) /\ m.syn = syn /\ m.fin = fin /\ m.payload = d
    BY SegmentFields
  <2> HIDE DEF m
  <2>2. seg = m
    BY <1>4 DEF m
  <2> QED BY <2>1, <2>2
<1>6. seg.payload = Bytes(a - 1 + BoolToNat(seg.syn),
                          n - BoolToNat(seg.syn) - BoolToNat(seg.fin))
  BY <1>3, <1>5, Zenon
<1> QED BY <1>1, <1>2, <1>5, <1>6, Zenon

\* What every step of the receiver does.
Step ==
  /\ VInv'
  /\ rcv'.ackno >= rcv.ackno /\ WindowEnd(rcv') >= WindowEnd(rcv)

\* The arrival of a segment.
LEMMA SegmentStep ==
  ASSUME VInv, NEW a \in 0 .. SeqLen, NEW n \in 0 .. SeqLen - a, segment_received(a, n)
  PROVE  Step /\ Follows(rcv.reassembler, rcv'.reassembler)
<1> DEFINE seg == Segment(a, n)
<1>1. /\ rcv' = SegmentReceived(rcv, seg) /\ peer_isn' = peer_isn
      /\ arrived' = Learned(arrived, rcv, rcv', a, n)
  BY DEF segment_received, Learned
<1>2. Sent(rcv, peer_isn, a, n, seg)
  <2>1. /\ a + n <= WindowEnd(rcv) \/ (window_size(rcv) = 0 /\ a = WindowEnd(rcv) /\ n = 1)
        /\ rcv.ackno - a < M \div 2 /\ a - rcv.ackno < M \div 2
    BY DEF segment_received, MaySend
  <2> HIDE DEF seg
  <2>2. /\ seg.seqno = wrap(a, peer_isn)
        /\ seg.syn <=> a = 0 /\ n > 0
        /\ seg.fin <=> n > 0 /\ a + n = SeqLen
        /\ seg.payload = Bytes(a - 1 + BoolToNat(seg.syn),
                               n - BoolToNat(seg.syn) - BoolToNat(seg.fin))
    BY SegmentIs, Zenon DEF seg
  <2> QED BY <2>1, <2>2, Zenon DEF Sent
<1> HIDE DEF seg
<1>3. RecvInv(rcv, peer_isn, arrived)
  BY DEF VInv
<1>4. /\ RecvInv(rcv', peer_isn, arrived') /\ Follows(rcv.reassembler, rcv'.reassembler)
      /\ rcv'.ackno >= rcv.ackno /\ WindowEnd(rcv') >= WindowEnd(rcv)
  BY <1>1, <1>2, <1>3, ReceiveInv
<1> QED BY <1>1, <1>4 DEF Step, VInv

\* A read.
LEMMA ReadStep ==
  ASSUME VInv, NEW len \in 1 .. Capacity, read(len)
  PROVE  /\ Step
         /\ rcv'.reassembler.output = Popped(rcv.reassembler.output, len)
         /\ Have(rcv'.reassembler) = Have(rcv.reassembler)
         /\ rcv'.reassembler.eof = rcv.reassembler.eof
<1>1. /\ rcv' = ReadBy(rcv, len)
      /\ len \in 1 .. Len(rcv.reassembler.output.buf)
      /\ UNCHANGED <<peer_isn, arrived>>
  BY DEF read, ReadBy
<1>2. len \in Nat /\ len <= Len(rcv.reassembler.output.buf)
  BY <1>1
<1>3. RecvInv(rcv, peer_isn, arrived)
  BY DEF VInv
<1>4. /\ RecvInv(rcv', peer_isn, arrived) /\ rcv'.ackno = rcv.ackno
      /\ WindowEnd(rcv') >= WindowEnd(rcv)
      /\ rcv'.reassembler.output = Popped(rcv.reassembler.output, len)
      /\ Have(rcv'.reassembler) = Have(rcv.reassembler)
      /\ rcv'.reassembler.eof = rcv.reassembler.eof
  BY <1>1, <1>2, <1>3, ReaderInv
<1>5. rcv'.ackno >= rcv.ackno
  BY <1>3, <1>4, WindowNumbers
<1> QED BY <1>1, <1>4, <1>5 DEF Step, VInv

\* Every step keeps the invariant and takes nothing back.
LEMMA NextStep == VInv /\ [Next]_vars => Step
<1> SUFFICES ASSUME VInv, [Next]_vars PROVE Step
  OBVIOUS
<1>1. CASE Next
  BY <1>1, SegmentStep, ReadStep, Zenon DEF Next
<1>2. CASE UNCHANGED vars
  <2>1. rcv' = rcv /\ peer_isn' = peer_isn /\ arrived' = arrived
    BY <1>2 DEF vars
  <2>2. rcv.ackno \in Nat /\ WindowEnd(rcv) \in Nat
    BY WindowNumbers DEF VInv
  <2>3. rcv.ackno >= rcv.ackno /\ WindowEnd(rcv) >= WindowEnd(rcv)
    BY <2>2
  <2> QED BY <2>1, <2>3, Zenon DEF Step, VInv
<1> QED BY <1>1, <1>2

-----------------------------------------------------------------------------
(* What the invariant says. *)

\* A number of a set that is at most every other is its least.
LEMMA MinIs ==
  ASSUME NEW T \in SUBSET Nat, NEW x \in T, \A y \in T : x <= y
  PROVE  Min(T) = x
<1>1. Min(T) \in T /\ Min(T) <= x
  BY MinIsLeast
<1>2. x \in Nat /\ Min(T) \in Nat /\ x <= Min(T)
  BY <1>1, Zenon
<1> QED BY <1>1, <1>2

\* What waits for reassembly lies right of the first missing byte and within the
\* window, so it fits the capacity together with what waits for the reader.
LEMMA HeldFits ==
  ASSUME NEW q, Bounded(q)
  PROVE  /\ q.unassembled_bytes \in 0 .. StreamLen
         /\ Len(q.output.buf) + q.unassembled_bytes <= Capacity
<1>1. /\ LoopInv(q) /\ RInv(q) /\ q.nidx \in Nat /\ Edge(q) \in Nat /\ q.nidx <= Edge(q)
      /\ Have(q) \subseteq 0 .. StreamLen - 1 /\ StreamLen \in Nat
      /\ Edge(q) = q.nidx + RemainingCapacity(q.output)
      /\ RemainingCapacity(q.output) \in Nat
  BY BoundedNumbers, ReceiverAssumption
<1>2. Held(q) \subseteq Have(q)
  BY DEF Have
<1>3. Held(q) \subseteq q.nidx .. Edge(q) - 1
  <2>1. ASSUME NEW x \in Held(q) PROVE x \in q.nidx .. Edge(q) - 1
    <3>1. PICK key \in DOMAIN q.mp : x \in Span(q, key)
      BY DEF Held
    <3>2. key \in Nat /\ Len(q.mp[key]) \in Nat /\ key > q.nidx
      BY <1>1 DEF RInv, LoopInv, Stored
    <3>3. x \in 0 .. Edge(q) - 1
      BY <1>2 DEF Bounded
    <3> QED BY <1>1, <3>1, <3>2, <3>3 DEF Span
  <2> QED BY <2>1
<1>4. q.unassembled_bytes = Cardinality(Held(q)) /\ q.unassembled_bytes \in Nat
  BY <1>1 DEF LoopInv, Counted
<1>5. q.unassembled_bytes <= RemainingCapacity(q.output)
  <2> DEFINE a == q.nidx
             b == Edge(q) - 1
             H == Held(q)
  <2>1. a \in Int /\ b \in Int /\ H \subseteq a .. b
    BY <1>1, <1>3
  <2> HIDE DEF a, b, H
  <2>2. IsFiniteSet(a .. b) /\ Cardinality(a .. b) = IF a > b THEN 0 ELSE b - a + 1
    BY <2>1, FS_Interval
  <2>3. Cardinality(H) <= Cardinality(a .. b)
    BY <2>1, <2>2, FS_Subset, Zenon
  <2>4. (IF a > b THEN 0 ELSE b - a + 1) = RemainingCapacity(q.output)
    BY <1>1 DEF a, b
  <2> QED BY <1>4, <2>2, <2>3, <2>4 DEF H
<1>6. q.unassembled_bytes <= StreamLen
  <2> DEFINE b == StreamLen - 1
             H == Held(q)
  <2>1. b \in Int /\ H \subseteq 0 .. b
    BY <1>1, <1>2
  <2> HIDE DEF b, H
  <2>2. IsFiniteSet(0 .. b) /\ Cardinality(0 .. b) = IF 0 > b THEN 0 ELSE b - 0 + 1
    BY <2>1, FS_Interval
  <2>3. Cardinality(H) <= Cardinality(0 .. b)
    BY <2>1, <2>2, FS_Subset, Zenon
  <2>4. (IF 0 > b THEN 0 ELSE b - 0 + 1) = StreamLen
    BY <1>1 DEF b
  <2> QED BY <1>4, <2>2, <2>3, <2>4 DEF H
<1>7. Len(q.output.buf) \in Nat /\ RemainingCapacity(q.output) = Capacity - Len(q.output.buf)
  BY <1>1, LenProperties DEF Bounded, RemainingCapacity, LoopInv, Assembled, StreamOK, Streams
<1>8. Capacity \in Nat
  BY ReceiverAssumption
<1> QED BY <1>1, <1>4, <1>5, <1>6, <1>7, <1>8

\* Whatever is kept is a part of the stream.
LEMMA KeptSubstrings ==
  ASSUME NEW q, Bounded(q)
  PROVE  q.output.buf \in Substrings /\ Range(q.mp) \subseteq Substrings
<1>1. /\ LoopInv(q) /\ q.nidx \in 0 .. StreamLen
      /\ Have(q) \subseteq 0 .. StreamLen - 1 /\ StreamLen \in Nat
  BY BoundedNumbers, ReceiverAssumption
<1>2. q.output.buf \in Substrings
  <2> DEFINE n == Len(q.output.buf)
             i == q.nidx - n
  <2>1. /\ n \in Nat /\ n <= q.nidx /\ q.output.buf = Bytes(i, n)
    BY <1>1, LenProperties DEF LoopInv, Assembled, StreamOK, Streams
  <2>2. i \in 0 .. StreamLen /\ n \in 0 .. StreamLen
    BY <1>1, <2>1
  <2> HIDE DEF n, i
  <2> QED BY <2>1, <2>2 DEF Substrings
<1>3. ASSUME NEW key \in DOMAIN q.mp PROVE q.mp[key] \in Substrings
  <2> DEFINE n == Len(q.mp[key])
  <2>1. key \in Nat /\ n \in Nat /\ q.mp[key] = Bytes(key, n)
    BY <1>1 DEF LoopInv, Stored
  <2>2. Span(q, key) = key .. key + n - 1
    BY DEF Span
  <2>3. Span(q, key) \subseteq Have(q)
    BY DEF Held, Have
  <2> HIDE DEF n
  <2>4. CASE n = 0
    <3>1. q.mp[key] = Bytes(0, 0)
      BY <2>1, <2>4, BytesEmpty
    <3>2. 0 \in 0 .. StreamLen
      BY <1>1
    <3> QED BY <3>1, <3>2 DEF Substrings
  <2>5. CASE n > 0
    <3>1. key \in key .. key + n - 1 /\ key + n - 1 \in key .. key + n - 1
      BY <2>1, <2>5
    <3>2. key \in 0 .. StreamLen - 1 /\ key + n - 1 \in 0 .. StreamLen - 1
      BY <1>1, <2>2, <2>3, <3>1, Zenon
    <3>3. key \in 0 .. StreamLen /\ n \in 0 .. StreamLen
      BY <1>1, <2>1, <2>5, <3>2
    <3> QED BY <2>1, <3>3 DEF Substrings
  <2> QED BY <2>1, <2>4, <2>5
<1>4. Range(q.mp) = {q.mp[key] : key \in DOMAIN q.mp}
  BY DEF Range
<1> QED BY <1>2, <1>3, <1>4

\* The receiver acknowledges the numbers it knows up to the first it does not.
LEMMA AckMissing ==
  ASSUME NEW r, NEW isn, NEW S, RecvInv(r, isn, S)
  PROVE  r.ackno \notin S /\ \A k \in 0 .. r.ackno - 1 : k \in S
<1> DEFINE q == r.reassembler
           e == BoolToNat(q.output.ended)
<1>1. /\ q.nidx \in 0 .. StreamLen /\ q.nidx \in Nat
      /\ 0 .. q.nidx - 1 \subseteq Have(q) /\ q.nidx \notin Have(q)
      /\ q.eof \in BOOLEAN /\ (q.output.ended <=> q.eof /\ q.nidx = StreamLen)
  BY BoundedNumbers DEF RecvInv
<1>2. StreamLen \in Nat /\ SeqLen = StreamLen + 2
  BY ReceiverAssumption DEF SeqLen
<1>3. S = {k \in 0 .. SeqLen - 1 : Known(r, k)}
  BY DEF RecvInv
<1>4. CASE ~r.syn_arrived
  <2>1. r.ackno = 0
    BY <1>4 DEF RecvInv
  <2>2. ~Known(r, 0)
    BY <1>2, <1>4 DEF Known
  <2> QED BY <1>3, <2>1, <2>2
<1>5. CASE r.syn_arrived /\ q.output.ended
  <2>1. r.ackno = q.nidx + 1 + 1 /\ q.nidx = StreamLen /\ q.eof
    BY <1>1, <1>5 DEF RecvInv, BoolToNat
  <2>2. r.ackno \notin S
    BY <1>2, <1>3, <2>1
  <2>3. ASSUME NEW k \in 0 .. r.ackno - 1 PROVE k \in S
    <3>1. k \in 0 .. SeqLen - 1 /\ (k = 0 \/ k = StreamLen + 1 \/ k \in 1 .. StreamLen)
      BY <1>2, <2>1
    <3>2. k \in 1 .. StreamLen => k - 1 \in 0 .. q.nidx - 1
      BY <1>2, <2>1
    <3>3. Known(r, k)
      BY <1>1, <1>5, <2>1, <3>1, <3>2, Zenon DEF Known
    <3> QED BY <1>3, <3>1, <3>3
  <2> QED BY <2>2, <2>3
<1>6. CASE r.syn_arrived /\ ~q.output.ended
  <2>1. r.ackno = q.nidx + 1 + 0
    BY <1>6 DEF RecvInv, BoolToNat
  <2>2. r.ackno \in Nat /\ r.ackno # 0 /\ r.ackno - 1 = q.nidx
    BY <1>1, <2>1
  <2>3. r.ackno = StreamLen + 1 => q.nidx = StreamLen
    BY <1>1, <1>2, <2>1
  <2>4. ~Known(r, r.ackno)
    BY <1>1, <1>6, <2>2, <2>3, Zenon DEF Known
  <2>5. ASSUME NEW k \in 0 .. r.ackno - 1 PROVE k \in S
    <3>1. /\ k \in 0 .. SeqLen - 1 /\ (k = 0 \/ k \in 1 .. StreamLen)
          /\ k \in 1 .. StreamLen => k - 1 \in 0 .. q.nidx - 1
      BY <1>1, <1>2, <2>1
    <3>2. Known(r, k)
      BY <1>1, <1>6, <3>1, Zenon DEF Known
    <3> QED BY <1>3, <3>1, <3>2
  <2> QED BY <1>3, <2>4, <2>5
<1> QED BY <1>4, <1>5, <1>6

\* The invariant says what the runs check.
LEMMA VInvSafe == VInv => TypeOK /\ AckIsFirstMissing /\ AssembledInOrder
<1> SUFFICES ASSUME VInv PROVE TypeOK /\ AckIsFirstMissing /\ AssembledInOrder
  OBVIOUS
<1> DEFINE q == rcv.reassembler
<1>1. RecvInv(rcv, peer_isn, arrived) /\ Bounded(q)
  BY DEF VInv, RecvInv
<1>2. /\ RInv(q) /\ LoopInv(q) /\ Stored(q.mp) /\ Assembled(q) /\ StreamOK(q.output)
      /\ q.nidx \in 0 .. StreamLen /\ q.eof \in BOOLEAN
  BY <1>1, BoundedNumbers DEF LoopInv, Assembled
<1>3. /\ q.unassembled_bytes \in 0 .. StreamLen
      /\ Len(q.output.buf) + q.unassembled_bytes <= Capacity
  BY <1>1, HeldFits
<1>4. rcv.ackno \in 0 .. SeqLen /\ rcv.ackno \in Nat /\ SeqLen \in Nat
  BY <1>1, WindowNumbers, ReceiverAssumption
<1>5. TypeOK
  <2>1. q.output.buf \in Substrings /\ Range(q.mp) \subseteq Substrings
    BY <1>1, KeptSubstrings
  <2>2. q.output \in Streams /\ q.output.capacity = Capacity
    BY <1>1, <1>2 DEF Bounded, StreamOK
  <2> DEFINE o == q.output
  <2>3. /\ o = [capacity |-> o.capacity, buf |-> o.buf, written |-> o.written,
                read |-> o.read, ended |-> o.ended, error |-> o.error]
        /\ o.written \in 0 .. UIntMod - 1 /\ o.read \in 0 .. UIntMod - 1
        /\ o.ended \in BOOLEAN /\ o.error \in BOOLEAN
    BY <2>2 DEF Streams
  <2>4. o \in [capacity : {Capacity}, buf : Substrings,
               written : 0 .. UIntMod - 1, read : 0 .. UIntMod - 1,
               ended : BOOLEAN, error : BOOLEAN]
    <3>1. o.capacity = Capacity /\ o.buf \in Substrings
      BY <2>1, <2>2
    <3> HIDE DEF o
    <3> QED BY <2>3, <3>1
  <2>5. rcv.isn \in WrappingInt32 /\ rcv.syn_arrived \in BOOLEAN
    <3>1. 0 \in WrappingInt32
      BY MAssumption DEF WrappingInt32
    <3> QED BY <1>1, <3>1, Zenon DEF RecvInv
  <2>6. q.eidx \in {0, StreamLen} /\ DOMAIN q.mp \subseteq 0 .. StreamLen + 1
    BY <1>1, Zenon DEF Bounded
  <2> QED BY <1>2, <1>3, <1>4, <2>1, <2>4, <2>5, <2>6, Zenon DEF TypeOK
<1>6. AckIsFirstMissing
  <2> DEFINE T == (0 .. SeqLen) \ arrived
  <2>1. rcv.ackno \notin arrived /\ \A k \in 0 .. rcv.ackno - 1 : k \in arrived
    BY <1>1, AckMissing
  <2>2. T \in SUBSET Nat /\ rcv.ackno \in T /\ \A y \in T : rcv.ackno <= y
    BY <1>4, <2>1
  <2> HIDE DEF T
  <2>3. Min(T) = rcv.ackno
    BY <2>2, MinIs, Zenon
  <2> QED BY <2>3 DEF T, AckIsFirstMissing
<1>7. AssembledInOrder
  <2>1. BytesInPlace(q)
    BY <1>2 DEF BytesInPlace, Stored, Assembled
  <2>2. GapsBetween(q)
    BY <1>2 DEF GapsBetween, RInv, Stored
  <2> QED BY <1>3, <2>1, <2>2 DEF AssembledInOrder
<1> QED BY <1>5, <1>6, <1>7

\* What a receiver guarantees for every size of the sequence space, every stream, every
\* capacity and every order, loss and repetition of segments: the ackno is the first number
\* that has not arrived, the bytes come out in order, and a reader and the segments never
\* push the receiver past its capacity.
THEOREM ReceiverSafe ==
  Spec => [](TypeOK /\ AckIsFirstMissing /\ AssembledInOrder /\ RoundTrip /\ Nearest)
<1>1. VInv => TypeOK /\ AckIsFirstMissing /\ AssembledInOrder /\ RoundTrip /\ Nearest
  <2>1. VInv => peer_isn \in WrappingInt32
    BY DEF VInv, RecvInv
  <2> QED BY <2>1, VInvSafe, ReceiverRoundTrip, ReceiverNearest
<1>2. VInv /\ [Next]_vars => VInv'
  BY NextStep DEF Step
<1> QED BY <1>1, <1>2, InitVInv, PTL DEF Spec

\* The right edge of the window and the ackno only move right, whatever arrives or is read
\* (TCPReceiver::segment_received, window_size).
THEOREM ReceiverEdge == Spec => EdgeNeverMovesLeft
<1>1. VInv /\ [Next]_vars => VInv'
  BY NextStep DEF Step
<1>2. VInv /\ [Next]_vars
        => [WindowEnd(rcv') >= WindowEnd(rcv) /\ rcv'.ackno >= rcv.ackno]_vars
  BY NextStep DEF Step
<1> QED BY <1>1, <1>2, InitVInv, PTL DEF Spec, EdgeNeverMovesLeft

-----------------------------------------------------------------------------
(* The refinement. *)

\* The first byte missing is the one at _nidx.
LEMMA MissingIsNidx ==
  ASSUME NEW q, Bounded(q)
  PROVE  Assembly!FirstMissing(Have(q)) = q.nidx
<1> DEFINE T == (0 .. StreamLen) \ Have(q)
<1>1. /\ q.nidx \in 0 .. StreamLen /\ q.nidx \in Nat /\ StreamLen \in Nat
      /\ 0 .. q.nidx - 1 \subseteq Have(q) /\ q.nidx \notin Have(q)
  BY BoundedNumbers, ReceiverAssumption
<1>2. T \in SUBSET Nat /\ q.nidx \in T /\ \A y \in T : q.nidx <= y
  BY <1>1
<1> HIDE DEF T
<1>3. Min(T) = q.nidx
  BY <1>2, MinIs, Zenon
<1>4. Assembly!FirstMissing(Have(q)) = Min(T)
  BY DEF Assembly!FirstMissing, Assembly!Min, Min, T
<1> QED BY <1>3, <1>4

\* The operators of the abstract specification are those of the ByteStream.
LEMMA SameStream ==
  /\ \A o, d : Assembly!Written(o, d) = Written(o, d)
  /\ \A o, n : Assembly!Popped(o, n) = Popped(o, n)
  /\ \A o : Assembly!Ended(o) = Ended(o)
  /\ \A o : Assembly!RemainingCapacity(o) = RemainingCapacity(o)
  /\ \A i, n : Assembly!Bytes(i, n) = Bytes(i, n)
  /\ \A c : Assembly!NewStream(c) = NewStream(c)
  BY DEF Assembly!Written, Written, Assembly!Popped, Popped, Assembly!Ended, Ended,
         Assembly!RemainingCapacity, RemainingCapacity, Assembly!Bytes, Bytes,
         Assembly!NewStream, NewStream, Assembly!Accepted, Accepted, Assembly!min, min

\* A push within the window is a push of the abstract specification.
LEMMA PushRefines ==
  ASSUME VInv, VInv', Follows(rcv.reassembler, rcv'.reassembler)
  PROVE  [Assembly!Next]_(Assembly!vars)
<1> DEFINE q == rcv.reassembler
           t == rcv'.reassembler
<1>1. Bounded(q) /\ Bounded(t)
  BY DEF VInv, RecvInv
<1>2. CASE t = q
  BY <1>2 DEF Assembly!vars
<1>3. ASSUME NEW i \in 0 .. StreamLen, NEW m \in 0 .. StreamLen - i, NEW fin \in BOOLEAN,
             i + m <= Edge(q), fin => i + m = StreamLen, Pushed(q, t, i, m, fin)
      PROVE  Assembly!push_substring(i, m, fin)
  <2> DEFINE all == Have(q) \cup (i .. i + m - 1)
             new == Written(q.output, Bytes(q.nidx, t.nidx - q.nidx))
  <2>1. /\ Have(t) = all
        /\ t.eof <=> q.eof \/ fin
        /\ t.output = Finished(new, t)
        /\ Complete(t) <=> t.eof /\ t.nidx = StreamLen
    BY <1>3, Zenon DEF Pushed
  <2>2. /\ Assembly!FirstMissing(Have(q)) = q.nidx
        /\ Assembly!FirstMissing(all) = t.nidx
    <3>1. Assembly!FirstMissing(Have(q)) = q.nidx /\ Assembly!FirstMissing(Have(t)) = t.nidx
      BY <1>1, MissingIsNidx
    <3> QED BY <2>1, <3>1, Zenon
  <2>3. i + m <= q.nidx + Assembly!RemainingCapacity(q.output)
    BY <1>3, SameStream DEF Edge
  <2>4. Assembly!Written(q.output, Assembly!Bytes(q.nidx, t.nidx - q.nidx)) = new
    BY SameStream
  <2>5. t.eof = (q.eof \/ fin)
    <3>1. t.eof \in BOOLEAN
      BY <1>1, BoundedNumbers
    <3> QED BY <2>1, <3>1, Zenon
  <2>6. t.output = IF t.eof /\ t.nidx = StreamLen THEN Assembly!Ended(new) ELSE new
    <3>1. Assembly!Ended(new) = Ended(new)
      BY SameStream
    <3> HIDE DEF new
    <3> QED BY <2>1, <3>1, Zenon DEF Finished
  <2> HIDE DEF all, new
  <2>7. /\ Have(q)' = all /\ q.eof' = (q.eof \/ fin)
        /\ q.output' = IF q.eof' /\ t.nidx = StreamLen THEN Assembly!Ended(new) ELSE new
    BY <2>1, <2>5, <2>6
  <2> QED BY <1>3, <2>2, <2>3, <2>4, <2>7, Zenon DEF Assembly!push_substring, all
<1> QED BY <1>2, <1>3, Zenon DEF Follows, Assembly!Next

\* A read is a read of the abstract specification.
LEMMA ReadRefines ==
  ASSUME VInv, NEW len \in 1 .. Capacity, read(len)
  PROVE  Assembly!Next
<1>1. /\ rcv'.reassembler.output = Popped(rcv.reassembler.output, len)
      /\ Have(rcv'.reassembler) = Have(rcv.reassembler)
      /\ rcv'.reassembler.eof = rcv.reassembler.eof
  BY ReadStep
<1>2. len \in 1 .. Len(rcv.reassembler.output.buf)
  BY DEF read
<1>3. Assembly!Popped(rcv.reassembler.output, len) = Popped(rcv.reassembler.output, len)
  BY SameStream
<1>4. Assembly!read(len)
  BY <1>1, <1>2, <1>3 DEF Assembly!read
<1> QED BY <1>4 DEF Assembly!Next

\* Behind the window that TCPReceiver::segment_received enforces, push_substring forgets no
\* byte and assembles up to the first one missing, for every stream and capacity: neither
\* the truncation to store_size nor a full _output ever loses a byte.
THEOREM ReceiverRefines == Spec => ImplementsReassembly
<1>1. Init => Assembly!Init
  <2> SUFFICES ASSUME Init PROVE Assembly!Init
    OBVIOUS
  <2> DEFINE q == NewReassembler(Capacity)
  <2>1. rcv.reassembler = q
    BY DEF Init, NewReceiver
  <2>2. Have(q) = {}
    BY ReceiverAssumption, NewReassemblerInv
  <2>3. q.eof = FALSE /\ q.output = NewStream(Capacity)
    BY DEF NewReassembler
  <2>4. Assembly!NewStream(Capacity) = NewStream(Capacity)
    BY SameStream
  <2> HIDE DEF q
  <2> QED BY <2>1, <2>2, <2>3, <2>4 DEF Assembly!Init
<1>2. VInv /\ [Next]_vars => VInv'
  BY NextStep DEF Step
<1>3. VInv /\ [Next]_vars => [Assembly!Next]_(Assembly!vars)
  <2> SUFFICES ASSUME VInv, [Next]_vars PROVE [Assembly!Next]_(Assembly!vars)
    OBVIOUS
  <2>1. VInv'
    BY <1>2
  <2>2. ASSUME NEW a \in 0 .. SeqLen, NEW n \in 0 .. SeqLen - a, segment_received(a, n)
        PROVE  [Assembly!Next]_(Assembly!vars)
    <3>1. Follows(rcv.reassembler, rcv'.reassembler)
      BY <2>2, SegmentStep
    <3> QED BY <2>1, <3>1, PushRefines
  <2>3. ASSUME NEW len \in 1 .. Capacity, read(len)
        PROVE  [Assembly!Next]_(Assembly!vars)
    BY <2>3, ReadRefines
  <2>4. CASE UNCHANGED vars
    BY <2>4 DEF vars, Assembly!vars
  <2> QED BY <2>2, <2>3, <2>4, Zenon DEF Next
<1> QED BY <1>1, <1>2, <1>3, InitVInv, PTL DEF Spec, Assembly!Spec, ImplementsReassembly
=============================================================================
