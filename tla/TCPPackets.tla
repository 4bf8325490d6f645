----------------------------- MODULE TCPPackets -----------------------------
(***************************************************************************)
(* tcp_helpers/tcp_header.cc and tcp_segment.cc: a TCP segment as bytes.   *)
(***************************************************************************)
EXTENDS NetParsers

TCPHeaderLength == 20

NewTCPHeader ==
  [sport |-> 0, dport |-> 0, seqno |-> <<0, 0>>, ackno |-> <<0, 0>>, doff |-> 5,
   urg |-> FALSE, ack |-> FALSE, psh |-> FALSE, rst |-> FALSE, syn |-> FALSE, fin |-> FALSE,
   win |-> 0, cksum |-> 0, uptr |-> 0]

TCPLayout ==
  << <<"sport", 2>>, <<"dport", 2>>, <<"seqno", 4>>, <<"ackno", 4>>, <<"off", 1>>, <<"fl", 1>>,
     <<"win", 2>>, <<"cksum", 2>>, <<"uptr", 2>> >>

\* The members of the header, from the fields that hold them.
TCPFields(f) ==
  [sport |-> f["sport"], dport |-> f["dport"], seqno |-> f["seqno"], ackno |-> f["ackno"],
   doff |-> f["off"] \div 16, urg |-> Bit(f["fl"], 5), ack |-> Bit(f["fl"], 4),
   psh |-> Bit(f["fl"], 3), rst |-> Bit(f["fl"], 2), syn |-> Bit(f["fl"], 1),
   fin |-> Bit(f["fl"], 0), win |-> f["win"], cksum |-> f["cksum"], uptr |-> f["uptr"]]

\* The options of a header are skipped.
SkipTCPOptions(p, h) ==
  [p |-> IF h.doff < 5 THEN p ELSE remove_prefix(p, 4 * h.doff - TCPHeaderLength), h |-> h]

\* TCPHeader::parse.  Its result HeaderTooShort is not looked at by the caller.
ParseTCPHeader(p) ==
  LET read == ParseFields(p, TCPLayout, TCPHeaderLength)
  IN  SkipTCPOptions(read.p, TCPFields(read.h))

\* TCPHeader::serialize, for the offset it accepts.
SerializeTCPHeader(h) ==
  LET fl == Flag(h.urg, 5) + Flag(h.ack, 4) + Flag(h.psh, 3) + Flag(h.rst, 2)
            + Flag(h.syn, 1) + Flag(h.fin, 0)
      f  == [sport |-> h.sport, dport |-> h.dport, seqno |-> h.seqno, ackno |-> h.ackno,
             off |-> h.doff * 16, fl |-> fl, win |-> h.win, cksum |-> h.cksum, uptr |-> h.uptr]
  IN  UnparseFields(f, TCPLayout) \o [i \in 1 .. 4 * h.doff - TCPHeaderLength |-> 0]

\* A mistake: the checksum is not looked at.
SegmentOf_NoSum(read, sum) == [header |-> read.h, payload |-> read.p.buffer, res |-> read.p.error]

\* TCPSegment::parse
SegmentOf(read, sum) ==
  [header |-> read.h, payload |-> read.p.buffer,
   res |-> IF sum # 0 THEN "BadChecksum" ELSE read.p.error]

ParseSegment(buffer, datagram_layer_checksum) ==
  SegmentOf(ParseTCPHeader(NetParser(buffer)),
            value(add(NewChecksum(datagram_layer_checksum), buffer)))

\* TCPSegment::serialize: header and payload are summed by two calls.
SerializeSegment(seg, datagram_layer_checksum) ==
  LET zero == [seg.header EXCEPT !.cksum = 0]
      sum  == value(add(add(NewChecksum(datagram_layer_checksum), SerializeTCPHeader(zero)),
                        seg.payload))
  IN  SerializeTCPHeader([zero EXCEPT !.cksum = sum]) \o seg.payload

\* TCPHeader::operator==, which leaves out the ports and the checksum.
SameHeader(h1, h2) ==
  \A f \in DOMAIN NewTCPHeader \ {"sport", "dport", "cksum"} : h1[f] = h2[f]
=============================================================================
