----------------------------- MODULE TCPNetwork -----------------------------
(***************************************************************************)
(* Two TCPConnections and the network between them.  Each is driven by the *)
(* event loop of its TCPSpongeSocket (tcp_helpers/tcp_sponge_socket.cc):   *)
(* rule 1 delivers a segment, rule 2 passes on what the application        *)
(* writes, rule 3 what it reads, and rule 4 empties segments_out.  Rule 4  *)
(* is part of every action here: to wait for it is to be delayed by the    *)
(* network.                                                                *)
(***************************************************************************)
EXTENDS ByteStreams, WrappingIntegers, TCPSegments, TCPState, SequencesExt

CONSTANTS Client, Server,
          Isn,           \* the initial sequence number of either side
          WriteLen,      \* the length of the stream either side writes
          RecvCapacity, SendCapacity, RtTimeout, MaxPayload, MaxRetx, LingerTime,
          MaxNet,        \* bound: segments on their way to one side; more are lost
          MaxLost,       \* bound: segments the network loses by itself
          MaxBackoff,    \* bound: largest _base_RTO that is still awaited
          Ticking,       \* bound: the sides whose clock runs
          Reorder        \* whether segments may overtake each other

Side == {Client, Server}
Other(e) == IF e = Client THEN Server ELSE Client

ASSUME NetworkAssumption ==
  /\ Client # Server
  /\ Isn \in [Side -> WrappingInt32]
  /\ WriteLen \in [Side -> Nat]
  /\ {RecvCapacity, SendCapacity, RtTimeout, MaxPayload, LingerTime} \subseteq Nat \ {0}
  /\ {MaxRetx, MaxNet, MaxLost, MaxBackoff} \subseteq Nat
  /\ Ticking \subseteq Side
  /\ Reorder \in BOOLEAN

VARIABLES peers,   \* the TCPConnection of either side
          net,     \* the segments on their way to either side
          lost     \* how many the network has lost
vars == <<peers, net, lost>>

C(e) == INSTANCE TCPConnection WITH conn <- peers[e], FixedIsn <- Isn[e],
                                    StreamLen <- WriteLen[Other(e)]

Init == /\ peers = [e \in Side |-> C(e)!NewConnection]
        /\ net = [e \in Side |-> <<>>]
        /\ lost = 0

\* The connection of e becomes c; `rest` is left on the way to e.
Becomes(e, c, rest) ==
  LET queue == net[Other(e)] \o c.segments_out
  IN  /\ peers' = [peers EXCEPT ![e] = [c EXCEPT !.segments_out = <<>>]]
      /\ net' = [net EXCEPT ![e] = rest,
                            ![Other(e)] = SubSeq(queue, 1, min(Len(queue), MaxNet))]

\* The states in which the loops of connect and of listen_and_accept go on.
Connecting == {Official("SYN_SENT")}
Accepting == {Official("LISTEN"), Official("SYN_RCVD"), Official("SYN_SENT")}

\* connect or listen_and_accept has returned to the application.
Usable(e) ==
  LET c == peers[e]
  IN  /\ c.sender.next_seqno > 0
      /\ state(c) \notin (IF e = Client THEN Connecting ELSE Accepting)

connect == /\ peers[Client].sender.next_seqno = 0
           /\ Becomes(Client, C(Client)!Connect(peers[Client]), net[Client])
           /\ UNCHANGED lost

write(e, n) ==
  LET c       == peers[e]
      written == C(e)!S!BytesWritten(c.sender)
  IN  /\ c.active /\ ~c.sender.stream.ended /\ Usable(e)
      /\ n <= RemainingCapacity(c.sender.stream)
      /\ written + n <= WriteLen[e]
      /\ Becomes(e, C(e)!Write(c, Bytes(written, n)), net[e])
      /\ UNCHANGED lost

\* The application has closed its side of the pipe; rule 2 notices when there is
\* room for more bytes.
end_input_stream(e) ==
  LET c == peers[e]
  IN  /\ c.active /\ ~c.sender.stream.ended /\ Usable(e)
      /\ RemainingCapacity(c.sender.stream) > 0
      /\ C(e)!S!BytesWritten(c.sender) = WriteLen[e]
      /\ Becomes(e, C(e)!EndInputStream(c), net[e])
      /\ UNCHANGED lost

read(e, len) ==
  /\ len \in 1 .. Len(peers[e].receiver.reassembler.output.buf)
  /\ peers' = [peers EXCEPT ![e].receiver.reassembler.output = Popped(@, len)]
  /\ UNCHANGED <<net, lost>>

segment_received(e, i) ==
  /\ peers[e].active
  /\ Reorder \/ i = 1
  /\ Becomes(e, C(e)!SegmentReceived(peers[e], net[e][i]), RemoveAt(net[e], i))
  /\ UNCHANGED lost

lose(e, i) ==
  /\ lost < MaxLost
  /\ lost' = lost + 1
  /\ net' = [net EXCEPT ![e] = RemoveAt(@, i)]
  /\ UNCHANGED peers

tick(e) == /\ e \in Ticking
           /\ peers[e].active
           /\ peers[e].sender.timer.base_RTO <= MaxBackoff
           /\ Becomes(e, C(e)!Tick(peers[e], RtTimeout), net[e])
           /\ UNCHANGED lost

Next == \/ connect
        \/ \E e \in Side :
             \/ \E n \in 1 .. WriteLen[e] : write(e, n)
             \/ end_input_stream(e)
             \/ \E len \in 1 .. RecvCapacity : read(e, len)
             \/ \E i \in 1 .. Len(net[e]) : segment_received(e, i) \/ lose(e, i)
             \/ tick(e)

Spec == Init /\ [][Next]_vars

-----------------------------------------------------------------------------
Clean(e) == ~peers[e].receiver.reassembler.output.error

\* The reader of either side gets the bytes the other side wrote, in order and
\* without a gap, and sees the end of the stream only after all of them.
StreamIntact ==
  \A e \in Side :
    LET r == peers[e].receiver.reassembler
        s == peers[Other(e)].sender
    IN  /\ C(e)!R!AssembledInOrder
        /\ r.nidx <= C(e)!S!BytesSent(s)
        /\ r.output.ended => s.fin_sended /\ r.nidx = WriteLen[Other(e)]

\* The sequence numbers that a receiver really has.
Got(r) == BoolToNat(r.syn_arrived) + r.reassembler.nidx + BoolToNat(r.reassembler.output.ended)

\* A sequence number leaves the sender's books only when the peer's receiver has
\* assembled it, in whatever order the acknowledgments arrive
\* (TCPSender::ack_received takes any ackno up to _next_seqno).
AckedIsReceived ==
  \A e \in Side : LET s == peers[e].sender
                  IN  s.next_seqno - s.bytes_in_flight <= Got(peers[Other(e)].receiver)

\* A connection that is over without an error has delivered everything: the peer
\* has its whole stream and its FIN, and it has the peer's
\* (tcp_connection.hh:88-91: active() is true "if either stream is still
\* running").
CleanCloseIsComplete ==
  \A e \in Side :
    ~peers[e].active /\ Clean(e)
      => /\ peers[Other(e)].receiver.ackno = WriteLen[e] + 2
         /\ peers[e].receiver.ackno = WriteLen[Other(e)] + 2

\* A connection that closes without lingering leaves nobody behind: the peer
\* already has the acknowledgment of its FIN (tcp_connection.hh:19-21: it lingers
\* "in case the remote TCPConnection doesn't know we've received its whole
\* stream").
NobodyLeftBehind ==
  \A e \in Side :
    ~peers[e].active /\ Clean(e) /\ ~peers[e].linger_after_streams_finish
      => peers[Other(e)].sender.bytes_in_flight = 0

\* When nothing overtakes anything, a connection is never stuck: while it has bytes
\* or a FIN left to send, something is outstanding and the timer runs, so that a
\* retransmission will draw an answer.  A zero window is probed
\* (TCPSender::fill_window, Timer::ack_handle).
NeverStuckInOrder ==
  \A e \in Side :
    LET s == peers[e].sender
    IN  peers[e].active /\ s.next_seqno > 0 /\ ~s.timer.running
          => BufferEmpty(s.stream) /\ (s.stream.ended => s.fin_sended)

\* A sender never runs past the window its peer has offered, even when an old
\* acknowledgment offers a wider one; into a zero window it sends one number
\* (tests/send_extra.cc:236: "Don't add FIN if this would make the segment exceed
\* the receiver's window").
WithinWindow ==
  \A e \in Side :
    LET r == peers[Other(e)].receiver
        n == peers[e].sender.next_seqno
    IN  n <= r.ackno + C(e)!R!window_size(r) \/ n = r.ackno + 1

\* The arrows of the diagram of RFC 793, and two pairs of arrows that one segment
\* takes together: an acknowledgment that makes room for the FIN and brings the
\* peer's, and the last segment of the handshake with a FIN.
Arrows ==
  {<<Official(a[1]), Official(a[2])>> : a \in
     {<<"LISTEN", "SYN_SENT">>, <<"LISTEN", "SYN_RCVD">>, <<"SYN_SENT", "SYN_RCVD">>,
      <<"SYN_SENT", "ESTABLISHED">>, <<"SYN_RCVD", "ESTABLISHED">>,
      <<"ESTABLISHED", "FIN_WAIT_1">>, <<"ESTABLISHED", "CLOSE_WAIT">>,
      <<"FIN_WAIT_1", "FIN_WAIT_2">>, <<"FIN_WAIT_1", "CLOSING">>, <<"FIN_WAIT_1", "TIME_WAIT">>,
      <<"FIN_WAIT_2", "TIME_WAIT">>, <<"CLOSING", "TIME_WAIT">>, <<"TIME_WAIT", "CLOSED">>,
      <<"CLOSE_WAIT", "LAST_ACK">>, <<"LAST_ACK", "CLOSED">>,
      <<"ESTABLISHED", "CLOSING">>, <<"SYN_RCVD", "CLOSE_WAIT">>}
     \cup (StateName \X {"RESET"})}

OfficialStates == {Official(name) : name \in StateName}

\* A connection that goes from one official state to another in one step goes
\* along the arrows of RFC 793 (tcp_state.hh:19-22: "To test that Sponge follows
\* the TCP spec, we use this class to compare the official states with Sponge's
\* sender/receiver states").
FollowsDiagram ==
  [][\A e \in Side : peers'[e] # peers[e] =>
       \A s \in {state(peers[e])} \cap OfficialStates, t \in {state(peers'[e])} \cap OfficialStates :
         s # t => <<s, t>> \in Arrows]_peers
=============================================================================
