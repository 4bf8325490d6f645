---------------------------- MODULE TCPBenchmark ----------------------------
(***************************************************************************)
(* apps/tcp_benchmark.cc beside the two sides of TCPNetworkTimed: x, the   *)
(* client, sends a stream to y, the server, which has ended its own before *)
(* it began.  Every turn of the loop moves all segments, those of x in     *)
(* reverse order if `reorder` says so, and lets a timeout pass.  net stays *)
(* empty.                                                                  *)
(***************************************************************************)
EXTENDS TCPNetworkTimed

CONSTANTS BenchCapacity,  \* TCPConfig::DEFAULT_CAPACITY, in payloads
          BenchLen        \* bound: the length of string_to_send

ASSUME BenchAssumption == BenchCapacity \in Nat \ {0} /\ BenchLen \in Nat

VARIABLE bench  \* the locals of main_loop, the segments that move_segments has taken,
                \* and how far the loop is; NoBench when the network runs

NoBench == [at |-> "nowhere"]
InBenchmark == bench # NoBench
At(place) == bench.at = place

B(e) == INSTANCE TCPConnection WITH conn <- peers[e], FixedIsn <- Isn[e], StreamLen <- BenchLen,
                                    RecvCapacity <- BenchCapacity, SendCapacity <- BenchCapacity

\* main_loop before its first turn.
StartBench(len, reorder) ==
  /\ peers = [e \in Side |-> IF e = Client THEN B(e)!Connect(B(e)!NewConnection)
                             ELSE B(e)!EndInputStream(B(e)!NewConnection)]
  /\ net = [e \in Side |-> <<>>] /\ lost = 0
  /\ bench = [at |-> "write", len |-> len, reorder |-> reorder, bytes_to_send |-> Bytes(0, len),
              x_closed |-> FALSE, segments |-> <<>>, string_received |-> <<>>]

-----------------------------------------------------------------------------
\* What x has room for.
Want == min(RemainingCapacity(peers[Client].sender.stream), Len(bench.bytes_to_send))

\* write input into x
write_input ==
  /\ At("write") /\ Want > 0
  /\ LET bytes == bench.bytes_to_send
     IN  /\ peers' = [peers EXCEPT ![Client] = B(Client)!Write(@, SubSeq(bytes, 1, Want))]
         /\ bench' = [bench EXCEPT !.bytes_to_send = SubSeq(@, Want + 1, Len(@))]
  /\ UNCHANGED <<net, lost>>

\* The order in which move_segments hands over what it has taken from x.
Moved(segments) == IF bench.reorder THEN Reverse(segments) ELSE segments

\* x is closed once, and move_segments takes what x has to send.
close_x ==
  LET closes == bench.bytes_to_send = <<>> /\ ~bench.x_closed
      x      == IF closes THEN B(Client)!EndInputStream(peers[Client]) ELSE peers[Client]
  IN  /\ At("write") /\ Want = 0
      /\ bench' = [bench EXCEPT !.at = "there", !.x_closed = @ \/ closes,
                                !.segments = Moved(x.segments_out)]
      /\ peers' = [peers EXCEPT ![Client] = [x EXCEPT !.segments_out = <<>>]]
      /\ UNCHANGED <<net, lost>>

\* move_segments hands over the next one.
move_segment(e) ==
  /\ At(IF e = Server THEN "there" ELSE "back") /\ bench.segments # <<>>
  /\ peers' = [peers EXCEPT ![e] = B(e)!SegmentReceived(@, Head(bench.segments))]
  /\ bench' = [bench EXCEPT !.segments = Tail(@)]
  /\ UNCHANGED <<net, lost>>

\* move_segments takes what y has to send.
turn_back ==
  /\ At("there") /\ bench.segments = <<>>
  /\ bench' = [bench EXCEPT !.at = "back", !.segments = peers[Server].segments_out]
  /\ peers' = [peers EXCEPT ![Server].segments_out = <<>>]
  /\ UNCHANGED <<net, lost>>

y_eof(c) == Eof(c[Server].receiver.reassembler.output)

\* read output from y, and time passes; then main_loop goes on or not.
pass ==
  LET stream == peers[Server].receiver.reassembler.output
      read_y == [peers EXCEPT ![Server].receiver.reassembler.output = Popped(@, Len(@.buf))]
  IN  /\ At("back") /\ bench.segments = <<>>
      /\ peers' = [e \in Side |-> B(e)!Tick(read_y[e], RtTimeout)]
      /\ bench' = [bench EXCEPT !.string_received = @ \o stream.buf,
                                !.at = IF y_eof(peers') /\ \A e \in Side : ~peers'[e].active
                                       THEN "end" ELSE "write"]
      /\ UNCHANGED <<net, lost>>

loop == InBenchmark /\ (write_input \/ close_x \/ turn_back \/ pass \/ \E e \in Side : move_segment(e))

BenchInit ==
  \/ Init /\ bench = NoBench
  \/ \E len \in 0 .. BenchLen, reorder \in BOOLEAN : StartBench(len, reorder)

BenchNext ==
  \/ ~InBenchmark /\ TimedNext /\ UNCHANGED bench
  \/ loop

Running(P) == ~InBenchmark /\ P

\* _tcp_loop waits TCP_TICK_MS at most before it ticks, and poll leaves no ready
\* descriptor out; the applications write, end and read their streams; the loop
\* of the benchmark goes on by itself.  This is weak fairness of each kind of
\* step, with its guard in the place of ENABLED; only the loop changes bench.
Fairness ==
  /\ []<>~Running(CanConnect) \/ []<><<connect>>_vars
  /\ []<>~Running(CanTick) \/ []<><<tick_all>>_vars
  /\ \A e \in Side : /\ []<>~Running(CanInput(e)) \/ []<><<input(e)>>_vars
                     /\ []<>~Running(CanArrive(e)) \/ []<><<arrival(e)>>_vars
                     /\ []<>~Running(CanOutput(e)) \/ []<><<output(e)>>_vars
  /\ []<>(~InBenchmark \/ At("end")) \/ []<><<bench' # bench>>_bench

BenchSpec == BenchInit /\ [][BenchNext]_<<vars, bench>> /\ Fairness

-----------------------------------------------------------------------------
\* The benchmark never ends with "strings sent vs. received don't match"
\* (tcp_benchmark.cc:87): when y's stream is over, what was read from it is what
\* was written to x, though every bunch of segments comes the wrong way round.
StringsMatch ==
  InBenchmark /\ y_eof(peers) /\ bench.at \in {"write", "end"}
    => bench.string_received = Bytes(0, bench.len)
=============================================================================
