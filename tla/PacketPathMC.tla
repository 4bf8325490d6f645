---------------------------- MODULE PacketPathMC ----------------------------
(***************************************************************************)
(* Segments for PacketPath: the two that open a connection or fail to, and *)
(* one with data of an odd length, a zero at its end and numbers that use  *)
(* all their bytes.  The data is long enough for a TCP header that begins  *)
(* four bytes late.                                                        *)
(***************************************************************************)
EXTENDS PacketPath

Syn == [header |-> [NewTCPHeader EXCEPT !.syn = TRUE, !.seqno = <<65535, 65535>>, !.win = 64000],
        payload |-> <<>>]

SynRst == [Syn EXCEPT !.header.rst = TRUE]

Data == [header |-> [NewTCPHeader EXCEPT !.ack = TRUE, !.fin = TRUE, !.seqno = <<32768, 1>>,
                                         !.ackno = <<1, 43981>>, !.win = 258],
         payload |-> <<104, 255, 1, 7, 0>>]

MCSegments == {Syn, SynRst, Data}
=============================================================================
