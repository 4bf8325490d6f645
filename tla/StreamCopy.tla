----------------------------- MODULE StreamCopy -----------------------------
(***************************************************************************)
(* apps/bidirectional_stream_copy.cc: the four rules between the standard  *)
(* streams and a socket.  The record `a` holds the local variables of the  *)
(* function; the socket is the pair of queues `pipe`, of which it writes   *)
(* `up` and reads `down`.  Standard input is a file of InputLen bytes.     *)
(***************************************************************************)
EXTENDS FileDescriptors

CONSTANTS CopyCapacity,  \* buffer_size
          InputLen       \* bound: bytes of standard input

NewCopy ==
  [outbound |-> NewStream(CopyCapacity), inbound |-> NewStream(CopyCapacity),
   outbound_shutdown |-> FALSE, inbound_shutdown |-> FALSE,
   input |-> 0,                 \* bytes read from standard input
   input_eof |-> FALSE, socket_eof |-> FALSE,
   output |-> <<>>, output_closed |-> FALSE]

Reads(r) == r \in {1, 3}
AtEof(a, r) == IF r = 1 THEN a.input_eof ELSE a.socket_eof
Closed(a, r) == r = 4 /\ a.output_closed

\* Neither stream of the copy is ever set to an error.
Interest(a, r) ==
  CASE r = 1 -> RemainingCapacity(a.outbound) > 0
    [] r = 2 -> ~BufferEmpty(a.outbound) \/ (Eof(a.outbound) /\ ~a.outbound_shutdown)
    [] r = 3 -> RemainingCapacity(a.inbound) > 0
    [] r = 4 -> ~BufferEmpty(a.inbound) \/ (Eof(a.inbound) /\ ~a.inbound_shutdown)

Cancel(a, r) ==
  IF r \in {1, 2} THEN [a EXCEPT !.outbound = Ended(@)] ELSE [a EXCEPT !.inbound = Ended(@)]

E == INSTANCE EventLoop

\* Rule 1.
InputRead(a) ==
  LET n   == min(RemainingCapacity(a.outbound), InputLen - a.input)
      eof == RemainingCapacity(a.outbound) > 0 /\ n = 0
      w   == Written(a.outbound, Bytes(a.input, n))
  IN  [a EXCEPT !.input = @ + n, !.input_eof = @ \/ eof,
                !.outbound = IF eof THEN Ended(w) ELSE w]

\* Rule 2: what is written to the socket, and then.
ToSocket(a) == Peek(a.outbound, Len(a.outbound.buf))

SocketWritten(a, pipe) ==
  LET rest == Popped(a.outbound, Taken(pipe.up, ToSocket(a)))
  IN  [a EXCEPT !.outbound = rest, !.outbound_shutdown = @ \/ Eof(rest)]

PipeWritten(a, pipe) ==
  LET up == AfterWrite(pipe.up, ToSocket(a))
  IN  [pipe EXCEPT !.up = IF Eof(SocketWritten(a, pipe).outbound) THEN ShutDown(up) ELSE up]

\* Rule 3.
SocketRead(a, pipe) ==
  LET limit == RemainingCapacity(a.inbound)
      w     == Written(a.inbound, Data(pipe.down, limit))
      eof   == a.socket_eof \/ ReadsEof(pipe.down, limit)
  IN  [a EXCEPT !.socket_eof = eof, !.inbound = IF eof THEN Ended(w) ELSE w]

PipeRead(a, pipe) == [pipe EXCEPT !.down = AfterRead(@, RemainingCapacity(a.inbound))]

\* Rule 4; standard output takes n of the bytes.
OutputWritten(a, n) ==
  LET rest == Popped(a.inbound, n)
  IN  [a EXCEPT !.output = @ \o Peek(a.inbound, n), !.inbound = rest,
                !.output_closed = @ \/ Eof(rest), !.inbound_shutdown = @ \/ Eof(rest)]
=============================================================================
