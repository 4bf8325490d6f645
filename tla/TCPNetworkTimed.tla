-------------------------- MODULE TCPNetworkTimed --------------------------
(***************************************************************************)
(* TCPNetwork with clocks: time passes for both sides alike, and only when *)
(* nothing is on its way, that is, the timeout is longer than a round      *)
(* trip.  Segments still get lost.                                         *)
(***************************************************************************)
EXTENDS TCPNetworkMC

\* What e sends when RtTimeout milliseconds have passed.
Ticked(e) == IF peers[e].active THEN C(e)!Tick(peers[e], RtTimeout) ELSE peers[e]

\* The event loop of either side ticks (tcp_sponge_socket.cc, _tcp_loop).
tick_all ==
  /\ \A e \in Side : peers[e].active => net[e] = <<>>
  /\ peers' = [e \in Side |-> [Ticked(e) EXCEPT !.segments_out = <<>>]]
  /\ net' = [e \in Side |-> net[e] \o Ticked(Other(e)).segments_out]
  /\ UNCHANGED lost

input(e) == end_input_stream(e) \/ \E n \in 1 .. WriteLen[e] : write(e, n)

output(e) == \E len \in 1 .. RecvCapacity : read(e, len)

arrival(e) == net[e] # <<>> /\ segment_received(e, 1)

loss(e) == net[e] # <<>> /\ lose(e, 1)

TimedNext ==
  connect \/ tick_all \/ \E e \in Side : input(e) \/ output(e) \/ arrival(e) \/ loss(e)

\* When a step of the kind is possible and changes something.
CanConnect == peers[Client].sender.next_seqno = 0
CanInput(e) == /\ Usable(e) /\ peers[e].active /\ ~peers[e].sender.stream.ended
               /\ RemainingCapacity(peers[e].sender.stream) > 0
CanArrive(e) == peers[e].active /\ net[e] # <<>>
CanTick == (\A e \in Side : ~CanArrive(e)) /\ (\E e \in Side : Ticked(e) # peers[e])

CanOutput(e) == ~BufferEmpty(peers[e].receiver.reassembler.output)

\* As long as the network loses fewer segments than MaxRetx (one attempt may meet
\* a full receiver), both connections close in the end, without an error on
\* either side: no window stays shut, no acknowledgment is awaited for ever, and
\* lingering for ten timeouts (TCPConnection::try_clean_closed) is long enough to
\* acknowledge the peer's last retransmission.
BothCloseCleanly == <>[](\A e \in Side : ~peers[e].active /\ Clean(e))
=============================================================================
