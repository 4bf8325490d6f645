------------------------------ MODULE TCPState ------------------------------
(***************************************************************************)
(* tcp_helpers/tcp_state.cc: the state of a TCPConnection as a TCPState,   *)
(* and the TCPState that stands for each official state of RFC 793.        *)
(***************************************************************************)
EXTENDS ByteStreams

\* state_summary of a TCPReceiver.
ReceiverSummary(r) ==
  CASE r.reassembler.output.error -> "error"
    [] ~r.reassembler.output.error /\ ~r.syn_arrived -> "LISTEN"
    [] OTHER -> IF r.reassembler.output.ended THEN "FIN_RECV" ELSE "SYN_RECV"

\* state_summary of a TCPSender; `_next_seqno < bytes_written() + 2` compares
\* with what the stream has taken.
SenderSummary(s) ==
  IF s.stream.error THEN "error"
  ELSE IF s.next_seqno = 0 THEN "CLOSED"
  ELSE IF s.next_seqno = s.bytes_in_flight THEN "SYN_SENT"
  ELSE IF ~Eof(s.stream) \/ s.next_seqno < s.stream.written + 2 THEN "SYN_ACKED"
  ELSE IF s.bytes_in_flight > 0 THEN "FIN_SENT" ELSE "FIN_ACKED"

\* TCPConnection::state.
state(c) ==
  [receiver |-> ReceiverSummary(c.receiver), sender |-> SenderSummary(c.sender),
   active |-> c.active, linger |-> c.active /\ c.linger_after_streams_finish]

\* The constructor from an official state.
Official(name) ==
  LET Live(r, s, linger) == [receiver |-> r, sender |-> s, active |-> TRUE, linger |-> linger]
      Over(r, s) == [receiver |-> r, sender |-> s, active |-> FALSE, linger |-> FALSE]
  IN  CASE name = "LISTEN"      -> Live("LISTEN", "CLOSED", TRUE)
        [] name = "SYN_RCVD"    -> Live("SYN_RECV", "SYN_SENT", TRUE)
        [] name = "SYN_SENT"    -> Live("LISTEN", "SYN_SENT", TRUE)
        [] name = "ESTABLISHED" -> Live("SYN_RECV", "SYN_ACKED", TRUE)
        [] name = "CLOSE_WAIT"  -> Live("FIN_RECV", "SYN_ACKED", FALSE)
        [] name = "LAST_ACK"    -> Live("FIN_RECV", "FIN_SENT", FALSE)
        [] name = "CLOSING"     -> Live("FIN_RECV", "FIN_SENT", TRUE)
        [] name = "FIN_WAIT_1"  -> Live("SYN_RECV", "FIN_SENT", TRUE)
        [] name = "FIN_WAIT_2"  -> Live("SYN_RECV", "FIN_ACKED", TRUE)
        [] name = "TIME_WAIT"   -> Live("FIN_RECV", "FIN_ACKED", TRUE)
        [] name = "RESET"       -> Over("error", "error")
        [] name = "CLOSED"      -> Over("FIN_RECV", "FIN_ACKED")

StateName == {"LISTEN", "SYN_RCVD", "SYN_SENT", "ESTABLISHED", "CLOSE_WAIT", "LAST_ACK",
              "CLOSING", "FIN_WAIT_1", "FIN_WAIT_2", "TIME_WAIT", "RESET", "CLOSED"}

IsIn(c, names) == \E name \in names : state(c) = Official(name)
=============================================================================
