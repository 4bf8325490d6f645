---------------------------- MODULE SpongeSocket ----------------------------
(***************************************************************************)
(* tcp_helpers/tcp_sponge_socket.cc: a TCPSpongeSocket and its two         *)
(* threads.  The owner connects, runs bidirectional_stream_copy and then   *)
(* wait_until_closed, as apps/tcp_udp.cc does, or destructs the socket     *)
(* before that.  The TCPConnection thread runs the event loop with the     *)
(* rules of _initialize_TCP.  A step is what one thread does between two   *)
(* system calls that the other can notice: one poll, one callback or one   *)
(* tick.                                                                   *)
(*                                                                         *)
(* At the other end of an orderly network is a TCPConnection that listens, *)
(* or nobody at all.                                                       *)
(***************************************************************************)
EXTENDS StreamCopy, WrappingIntegers, TCPSegments, TCPState

CONSTANTS OwnIsn, PeerIsn,   \* the initial sequence numbers
          PeerLen,           \* bound: bytes the peer writes
          RecvCapacity, SendCapacity, RtTimeout, MaxPayload, MaxRetx, LingerTime,
          PeerResets,        \* whether the peer may reset the connection
          Destructs          \* whether the owner may destruct the open socket

ASSUME SocketAssumption ==
  /\ {OwnIsn, PeerIsn} \subseteq WrappingInt32
  /\ {InputLen, PeerLen, MaxRetx} \subseteq Nat
  /\ {PipeCapacity, CopyCapacity, RecvCapacity, SendCapacity, RtTimeout, MaxPayload, LingerTime}
       \subseteq Nat \ {0}
  /\ {PeerResets, Destructs} \subseteq BOOLEAN

VARIABLES sock,    \* the members of the socket that its TCP thread uses
          loop,    \* _eventloop, and where the thread is
          pipe,    \* the socket pair: `up` from the owner to the thread, `down` back
          owner,   \* where the owner is
          copy,    \* the variables of bidirectional_stream_copy, and its loop
          peer,    \* the TCPConnection at the other end, and whether it is there
          net,     \* the segments on their way to either end
          crash    \* what has ended the process
vars == <<sock, loop, pipe, owner, copy, peer, net, crash>>

T == INSTANCE TCPConnection WITH conn <- sock.tcp, FixedIsn <- OwnIsn, StreamLen <- PeerLen
P == INSTANCE TCPConnection WITH conn <- peer.tcp, FixedIsn <- PeerIsn, StreamLen <- InputLen

-----------------------------------------------------------------------------
\* The rules of _initialize_TCP; x is a value of sock.
ThreadReads(r) == r \in {1, 2}
ThreadAtEof(x, r) == r = 2 /\ x.eof
ThreadClosed(x, r) == FALSE

ThreadInterest(x, r) ==
  LET inbound == T!inbound_stream(x.tcp)
  IN  CASE r = 1 -> x.tcp.active
        [] r = 2 -> /\ x.tcp.active /\ ~x.outbound_shutdown
                    /\ RemainingCapacity(x.tcp.sender.stream) > 0
        [] r = 3 -> \/ ~BufferEmpty(inbound)
                    \/ (Eof(inbound) \/ inbound.error) /\ ~x.inbound_shutdown
        [] r = 4 -> x.tcp.segments_out # <<>>

OutboundEnded(x) == [x EXCEPT !.tcp = T!EndInputStream(@), !.outbound_shutdown = TRUE]

ThreadCancel(x, r) == IF r = 2 THEN OutboundEnded(x) ELSE x

L == INSTANCE EventLoop WITH Reads <- ThreadReads, AtEof <- ThreadAtEof, Closed <- ThreadClosed,
                             Interest <- ThreadInterest, Cancel <- ThreadCancel

\* Rule 1.
SegmentRead(x, seg) == [x EXCEPT !.tcp = T!SegmentReceived(@, seg)]

\* Rule 2: what is read, and what becomes of it.
FromOwner(x) == Data(pipe.up, RemainingCapacity(x.tcp.sender.stream))

OwnerRead(x) ==
  LET eof == x.eof \/ ReadsEof(pipe.up, RemainingCapacity(x.tcp.sender.stream))
      w   == [x EXCEPT !.tcp = T!Write(@, FromOwner(x)), !.eof = eof]
  IN  IF eof THEN OutboundEnded(w) ELSE w

AcceptsLess(x) == Accepted(x.tcp.sender.stream, FromOwner(x)) # Len(FromOwner(x))

InboundOver(inbound) == Eof(inbound) \/ inbound.error

\* Rule 3: what is written, and what becomes of it.
ToOwner(x) == LET inbound == T!inbound_stream(x.tcp) IN Peek(inbound, Len(inbound.buf))

\* A mistake: a partial write is taken for a whole one.
OwnerWritten_PopsAll(x) ==
  LET y == [x EXCEPT !.tcp.receiver.reassembler.output = Popped(@, Len(ToOwner(x)))]
  IN  [y EXCEPT !.inbound_shutdown = @ \/ InboundOver(T!inbound_stream(y.tcp))]

OwnerWritten(x) ==
  LET n == Taken(pipe.down, ToOwner(x))
      y == [x EXCEPT !.tcp.receiver.reassembler.output = Popped(@, n)]
  IN  [y EXCEPT !.inbound_shutdown = @ \/ InboundOver(T!inbound_stream(y.tcp))]

\* A mistake: the queue is not emptied.
SegmentsWritten_Kept(x) == x

\* Rule 4.
SegmentsWritten(x) == [x EXCEPT !.tcp.segments_out = <<>>]

-----------------------------------------------------------------------------
Init ==
  /\ sock = [tcp |-> T!NewConnection, eof |-> FALSE, outbound_shutdown |-> FALSE,
             inbound_shutdown |-> FALSE, abort |-> FALSE]
  /\ loop = [L!NewLoop(<<1, 2, 3, 4>>) EXCEPT !.pc = "idle"]
  /\ pipe = [up |-> NewQueue, down |-> NewQueue]
  /\ owner = "start"
  /\ copy = [vars |-> NewCopy, loop |-> E!NewLoop(<<1, 2, 3, 4>>)]
  /\ \E there \in BOOLEAN : peer = [tcp |-> P!NewConnection, there |-> there]
  /\ net = [in |-> <<>>, out |-> <<>>]
  /\ crash = "none"

HungUp == pipe.up.shut /\ pipe.down.shut

\* connect, up to its loop.
connect ==
  /\ owner = "start"
  /\ owner' = "connect"
  /\ sock' = [sock EXCEPT !.tcp = T!Connect(@)]
  /\ loop' = [loop EXCEPT !.pc = "poll"]
  /\ UNCHANGED <<pipe, copy, peer, net, crash>>

\* The beginning of wait_next_event in _tcp_loop; it waits TCP_TICK_MS at most.
ThreadReady == {r \in 1 .. 4 : CASE r = 1 -> net.in # <<>>
                                 [] r = 2 -> Readable(pipe.up)
                                 [] r = 3 -> Writable(pipe.down)
                                 [] r = 4 -> TRUE}

thread_poll ==
  /\ loop.pc = "poll"
  /\ \E setup \in {L!SetUp(sock, loop.rules)} :
       /\ sock' = setup.owner
       /\ loop' = IF L!SomethingToPoll(setup)
                  THEN L!Polled(setup, ThreadReady, IF HungUp THEN {2, 3} ELSE {})
                  ELSE [loop EXCEPT !.pc = "exit", !.rules = setup.rules]
  /\ UNCHANGED <<pipe, owner, copy, peer, net, crash>>

ThreadTurn(r) == loop.pc = "results" /\ loop.todo # <<>> /\ L!Turn(loop) = r /\ r \in loop.ready

\* The process ends, and both threads with it.
Crashes(what) ==
  /\ crash' = what
  /\ owner' = "crashed"
  /\ loop' = [loop EXCEPT !.pc = "over", !.todo = <<>>, !.ready = {}]

\* The callback of r leaves x; then the check for a busy wait.
Called(x, r, serviced) ==
  /\ sock' = x
  /\ IF L!BusyWait(x, r, serviced)
     THEN Crashes("busy wait")
     ELSE loop' = L!Advanced(loop) /\ UNCHANGED <<owner, crash>>

rule_1 ==
  /\ ThreadTurn(1)
  /\ Called(SegmentRead(sock, Head(net.in)), 1, TRUE)
  /\ net' = [net EXCEPT !.in = Tail(@)]
  /\ UNCHANGED <<pipe, copy, peer>>

rule_2 ==
  /\ ThreadTurn(2)
  /\ IF AcceptsLess(sock)
     THEN Crashes("accepted less") /\ UNCHANGED sock
     ELSE Called(OwnerRead(sock), 2, TRUE)
  /\ pipe' = [pipe EXCEPT !.up = AfterRead(@, RemainingCapacity(sock.tcp.sender.stream))]
  /\ UNCHANGED <<copy, peer, net>>

rule_3 ==
  /\ ThreadTurn(3)
  /\ IF BreaksPipe(pipe.down, ToOwner(sock))
     THEN Crashes("SIGPIPE") /\ UNCHANGED <<sock, pipe>>
     ELSE /\ Called(OwnerWritten(sock), 3, TRUE)
          /\ LET down == AfterWrite(pipe.down, ToOwner(sock))
                 over == InboundOver(T!inbound_stream(OwnerWritten(sock).tcp))
             IN  pipe' = [pipe EXCEPT !.down = IF over THEN ShutDown(down) ELSE down]
  /\ UNCHANGED <<copy, peer, net>>

\* A lossy adapter may drop all of the segments and not touch its descriptor; here
\* that is what happens when nobody is at the other end.
rule_4 ==
  /\ ThreadTurn(4)
  /\ Called(SegmentsWritten(sock), 4, peer.there)
  /\ net' = [net EXCEPT !.out = IF peer.there THEN @ \o sock.tcp.segments_out ELSE @]
  /\ UNCHANGED <<pipe, copy, peer>>

\* A rule whose descriptor has hung up.
thread_cancel ==
  /\ loop.pc = "results" /\ loop.todo # <<>> /\ L!MustCancel(loop)
  /\ sock' = ThreadCancel(sock, L!Turn(loop))
  /\ loop' = L!Erased(loop)
  /\ UNCHANGED <<pipe, owner, copy, peer, net, crash>>

\* connect leaves its loop, and the thread starts one of its own.  While it is in
\* that loop the connection is active, so rule 1 is left to poll.
LeavesConnect(x) == owner = "connect" /\ state(x.tcp) # Official("SYN_SENT")

Quiet == net.in = <<>> /\ net.out = <<>> /\ sock.tcp.segments_out = <<>>

\* The rest of a turn of _tcp_loop.  RtTimeout milliseconds pass at once for both
\* ends, and only when nothing is on its way: a segment takes less than that.
thread_tick(ms) ==
  /\ loop.pc = "results" /\ loop.todo = <<>> /\ ~sock.abort
  /\ ms > 0 => Quiet
  /\ LET x == IF sock.tcp.active THEN [sock EXCEPT !.tcp = T!Tick(@, ms)] ELSE sock
         p == IF peer.there /\ peer.tcp.active /\ ms > 0 THEN P!Tick(peer.tcp, ms) ELSE peer.tcp
     IN  /\ sock' = x
         /\ peer' = [peer EXCEPT !.tcp = [p EXCEPT !.segments_out = <<>>]]
         /\ net' = [net EXCEPT !.in = @ \o p.segments_out]
         /\ owner' = IF LeavesConnect(x) THEN "copy" ELSE owner
  /\ loop' = [loop EXCEPT !.pc = "poll", !.ready = {}]
  /\ UNCHANGED <<pipe, copy, crash>>

\* The end of _tcp_main: the destructor of the TCPConnection resets it, and what it
\* puts in segments_out goes with it.
main_exit ==
  /\ owner # "connect"
  /\ \/ loop.pc = "exit"
     \/ loop.pc = "results" /\ loop.todo = <<>> /\ sock.abort
  /\ pipe' = [up |-> ShutDown(pipe.up), down |-> ShutDown(pipe.down)]
  /\ sock' = [sock EXCEPT !.tcp = [T!Destructed(@) EXCEPT !.segments_out = <<>>]]
  /\ loop' = [loop EXCEPT !.pc = "over", !.ready = {}]
  /\ UNCHANGED <<owner, copy, peer, net, crash>>

-----------------------------------------------------------------------------
\* The owner: bidirectional_stream_copy, one poll or one callback at a time.
CopyReady == {r \in 1 .. 4 : CASE r \in {1, 4} -> TRUE
                               [] r = 2 -> Writable(pipe.up)
                               [] r = 3 -> Readable(pipe.down)}

copy_poll ==
  /\ owner = "copy" /\ copy.loop.pc = "poll"
  /\ \E setup \in {E!SetUp(copy.vars, copy.loop.rules)} :
       IF ~E!SomethingToPoll(setup)
       THEN /\ copy' = [vars |-> setup.owner, loop |-> E!NewLoop(<<>>)]
            /\ owner' = "copied"
       ELSE /\ copy' = [vars |-> setup.owner,
                        loop |-> E!Polled(setup, CopyReady, IF HungUp THEN {2, 3} ELSE {})]
            /\ copy'.loop.todo # <<>>
            /\ owner' = owner
  /\ UNCHANGED <<sock, loop, pipe, peer, net, crash>>

CopyTurn(r) ==
  /\ owner = "copy" /\ copy.loop.pc = "results"
  /\ E!Turn(copy.loop) = r /\ r \in copy.loop.ready

\* The loop goes back to poll after the last of the results.
Looped(l) == IF l.todo = <<>> THEN [l EXCEPT !.pc = "poll", !.ready = {}] ELSE l

Copied(a) == copy' = [vars |-> a, loop |-> Looped(E!Advanced(copy.loop))]

copy_1 ==
  /\ CopyTurn(1)
  /\ Copied(InputRead(copy.vars))
  /\ UNCHANGED <<sock, loop, pipe, owner, peer, net, crash>>

copy_2 ==
  /\ CopyTurn(2)
  /\ IF BreaksPipe(pipe.up, ToSocket(copy.vars))
     THEN Crashes("SIGPIPE") /\ UNCHANGED <<copy, pipe>>
     ELSE /\ Copied(SocketWritten(copy.vars, pipe))
          /\ pipe' = PipeWritten(copy.vars, pipe)
          /\ UNCHANGED <<loop, owner, crash>>
  /\ UNCHANGED <<sock, peer, net>>

copy_3 ==
  /\ CopyTurn(3)
  /\ Copied(SocketRead(copy.vars, pipe))
  /\ pipe' = PipeRead(copy.vars, pipe)
  /\ UNCHANGED <<sock, loop, owner, peer, net, crash>>

copy_4 ==
  /\ CopyTurn(4)
  /\ \E n \in 0 .. Len(copy.vars.inbound.buf) :
       (n = 0 => BufferEmpty(copy.vars.inbound)) /\ Copied(OutputWritten(copy.vars, n))
  /\ UNCHANGED <<sock, loop, pipe, owner, peer, net, crash>>

copy_cancel ==
  /\ owner = "copy" /\ copy.loop.pc = "results" /\ E!MustCancel(copy.loop)
  /\ copy' = [vars |-> Cancel(copy.vars, E!Turn(copy.loop)), loop |-> Looped(E!Erased(copy.loop))]
  /\ UNCHANGED <<sock, loop, pipe, owner, peer, net, crash>>

wait_until_closed ==
  /\ owner = "copied"
  /\ owner' = "wait"
  /\ pipe' = [up |-> ShutDown(pipe.up), down |-> ShutDown(pipe.down)]
  /\ UNCHANGED <<sock, loop, copy, peer, net, crash>>

\* A mistake: the thread is not told.
destruct_Silently ==
  /\ Destructs /\ owner = "copy" /\ copy.loop.pc = "poll"
  /\ owner' = "destruct"
  /\ copy' = [copy EXCEPT !.loop = E!NewLoop(<<>>)]
  /\ UNCHANGED <<sock, loop, pipe, peer, net, crash>>

\* The owner leaves the copy between two turns of its loop, which goes with it: the
\* destructor while the thread may be joined.
destruct ==
  /\ Destructs /\ owner = "copy" /\ copy.loop.pc = "poll"
  /\ owner' = "destruct"
  /\ sock' = [sock EXCEPT !.abort = TRUE]
  /\ copy' = [copy EXCEPT !.loop = E!NewLoop(<<>>)]
  /\ UNCHANGED <<loop, pipe, peer, net, crash>>

join ==
  /\ owner \in {"wait", "destruct"} /\ loop.pc = "over"
  /\ owner' = "done"
  /\ UNCHANGED <<sock, loop, pipe, copy, peer, net, crash>>

-----------------------------------------------------------------------------
\* The peer becomes c, and sends what it has to send.
PeerBecomes(c, out) ==
  /\ peer' = [peer EXCEPT !.tcp = [c EXCEPT !.segments_out = <<>>]]
  /\ net' = [in |-> net.in \o c.segments_out, out |-> out]
  /\ UNCHANGED <<sock, loop, pipe, owner, copy, crash>>

PeerUsable == /\ peer.there /\ peer.tcp.active
              /\ peer.tcp.sender.next_seqno > 0
              /\ ~IsIn(peer.tcp, {"LISTEN", "SYN_RCVD", "SYN_SENT"})

PeerWritten == peer.tcp.sender.next_seqno - 1 + Len(peer.tcp.sender.stream.buf)

\* Its application reads whatever has arrived; the acknowledgment has left by then.
peer_receives ==
  /\ peer.tcp.active /\ net.out # <<>>
  /\ LET c == P!SegmentReceived(peer.tcp, Head(net.out))
     IN  PeerBecomes([c EXCEPT !.receiver.reassembler.output = Popped(@, RecvCapacity)],
                     Tail(net.out))

\* It writes all it has, as much at a time as fits, and ends its stream.
PeerMayWrite ==
  /\ PeerUsable /\ ~peer.tcp.sender.stream.ended
  /\ RemainingCapacity(peer.tcp.sender.stream) > 0

peer_writes ==
  /\ PeerMayWrite
  /\ PeerBecomes(IF PeerWritten < PeerLen
                 THEN P!Write(peer.tcp, Bytes(PeerWritten, PeerLen - PeerWritten))
                 ELSE P!EndInputStream(peer.tcp),
                 net.out)

peer_resets ==
  /\ PeerResets /\ PeerUsable
  /\ PeerBecomes(P!send_rst(peer.tcp), net.out)

Next ==
  \/ connect \/ thread_poll \/ rule_1 \/ rule_2 \/ rule_3 \/ rule_4 \/ thread_cancel
  \/ thread_tick(0) \/ thread_tick(RtTimeout) \/ main_exit
  \/ copy_poll \/ copy_1 \/ copy_2 \/ copy_3 \/ copy_4 \/ copy_cancel
  \/ wait_until_closed \/ destruct \/ join
  \/ peer_receives \/ peer_writes \/ peer_resets

\* When each of the four can go on, and the steps that are its own.
ThreadCan == loop.pc \notin {"idle", "over"}
ThreadMoves == loop' # loop

OwnerCan ==
  \/ owner \in {"start", "copied"}
  \/ owner \in {"wait", "destruct"} /\ loop.pc = "over"
  \/ owner = "copy" /\ copy.loop.pc = "results"
  \/ owner = "copy" /\ LET setup == E!SetUp(copy.vars, copy.loop.rules)
                       IN  E!SomethingToPoll(setup) => setup.events \cap CopyReady # {} \/ HungUp
OwnerMoves == owner' # owner \/ copy' # copy

PeerCan == PeerMayWrite \/ (peer.tcp.active /\ net.out # <<>>)
PeerMoves == peer' # peer /\ loop' = loop

TimeCan == /\ loop.pc = "results" /\ loop.todo = <<>> /\ ~sock.abort /\ Quiet /\ sock.tcp.active
           /\ \/ sock.tcp.linger_time < LingerTime \/ sock.tcp.sender.timer.running
              \/ peer.tcp.sender.timer.running
TimeMoves == loop.pc = "results" /\ loop'.pc = "poll" /\ (sock' # sock \/ peer' # peer)

\* poll leaves no ready descriptor out, no thread waits for ever for a processor,
\* the peer goes on, and time passes as long as the loop turns.
Fairness ==
  /\ []<>~ThreadCan \/ []<><<ThreadMoves>>_vars
  /\ []<>~OwnerCan \/ []<><<OwnerMoves>>_vars
  /\ []<>~PeerCan \/ []<><<PeerMoves>>_vars
  /\ <>[]~TimeCan \/ []<><<TimeMoves>>_vars

Spec == Init /\ [][Next]_vars /\ Fairness

-----------------------------------------------------------------------------
WasReset == T!inbound_stream(sock.tcp).error

\* What either application gets is what the other one wrote, in order, through
\* the two threads, the socket pair and their buffers; and it meets the end of it
\* only after the last byte, or because the connection was reset (rules 2 and 3
\* of _initialize_TCP and the four of bidirectional_stream_copy).
EndToEnd ==
  LET got == P!inbound_stream(peer.tcp)
  IN  /\ copy.vars.output = Bytes(0, Len(copy.vars.output))
      /\ copy.vars.output_closed => WasReset \/ Len(copy.vars.output) = PeerLen
      /\ P!R!AssembledInOrder
      /\ got.ended => copy.vars.input_eof /\ peer.tcp.receiver.reassembler.nidx = InputLen

\* No exception and no signal ends the process while the connection is in order:
\* TCPConnection::write takes all that was read for it, no callback leaves the
\* loop busy (eventloop.cc:135-138), and nothing is written to an end of the pipe
\* that is shut.  After a reset the pipe may break.
OnlyAResetBreaksThePipe == crash # "none" => crash = "SIGPIPE" /\ WasReset

\* The owner gets away: connect returns, the copy comes to its end, and
\* wait_until_closed or the destructor joins the thread (tcp_sponge_socket.cc:186,
\* 198), unless a broken pipe has ended the process.
OwnerGetsAway == <>(owner = "done" \/ crash # "none")

\* A socket that is gone with its connection reset has told the peer
\* (tcp_sponge_socket.hh:75: "When a connected socket is destructed, it will send
\* a RST").
PeerIsTold ==
  owner = "done" /\ WasReset /\ peer.there
    => ~peer.tcp.active \/ \E i \in 1 .. Len(net.out) : net.out[i].rst
=============================================================================
