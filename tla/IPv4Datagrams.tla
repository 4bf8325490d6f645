--------------------------- MODULE IPv4Datagrams ---------------------------
(***************************************************************************)
(* tcp_helpers/ipv4_header.cc and ipv4_datagram.cc.  A datagram is its     *)
(* header and its payload, a sequence of bytes.                            *)
(***************************************************************************)
EXTENDS NetParsers

IPv4HeaderLength == 20
PROTO_TCP == 6

\* The header as the constructor leaves it.
NewIPv4Header ==
  [ver |-> 4, hlen |-> 5, tos |-> 0, len |-> 0, id |-> 0, df |-> TRUE, mf |-> FALSE,
   offset |-> 0, ttl |-> 128, proto |-> PROTO_TCP, cksum |-> 0,
   src |-> <<0, 0>>, dst |-> <<0, 0>>]

IPv4Layout ==
  << <<"first", 1>>, <<"tos", 1>>, <<"len", 2>>, <<"id", 2>>, <<"fo", 2>>,
     <<"ttl", 1>>, <<"proto", 1>>, <<"cksum", 2>>, <<"src", 4>>, <<"dst", 4>> >>

payload_length(h) == (h.len - 4 * h.hlen) % 65536

\* The members of the header, from the fields that hold them.
IPv4Fields(f) ==
  [ver |-> f["first"] \div 16, hlen |-> f["first"] % 16, tos |-> f["tos"], len |-> f["len"],
   id |-> f["id"], df |-> Bit(f["fo"], 14), mf |-> Bit(f["fo"], 13), offset |-> f["fo"] % 8192,
   ttl |-> f["ttl"], proto |-> f["proto"], cksum |-> f["cksum"], src |-> f["src"], dst |-> f["dst"]]

\* What IPv4Header::parse returns once the fields are read and the parser is p:
\* the parser it leaves, the header and the result.
CheckIPv4Header(buffer, p, h) ==
  LET Result(q, res) == [p |-> q, h |-> h, res |-> res]
  IN  IF Len(buffer) < 4 * h.hlen THEN Result(p, "PacketTooShort")
      ELSE IF h.ver # 4 THEN Result(p, "WrongIPVersion")
      ELSE IF h.hlen < 5 THEN Result(p, "HeaderTooShort")
      ELSE IF Len(buffer) # h.len THEN Result(p, "TruncatedPacket")
      ELSE Result(remove_prefix(p, 4 * h.hlen - IPv4HeaderLength),
                  IF value(add(NewChecksum(0), Prefix(buffer, 4 * h.hlen))) # 0
                  THEN "BadChecksum" ELSE "NoError")

\* A buffer that is too short leaves the header `old` as it was.
ParseIPv4Header(p, old) ==
  LET read == ParseFields(p, IPv4Layout, IPv4HeaderLength)
  IN  IF Len(p.buffer) < IPv4HeaderLength THEN [p |-> p, h |-> old, res |-> "PacketTooShort"]
      ELSE CheckIPv4Header(p.buffer, read.p, IPv4Fields(read.h))

\* IPv4Header::serialize, for the version and the header length it accepts.
SerializeIPv4Header(h) ==
  LET f == [first |-> h.ver * 16 + h.hlen, tos |-> h.tos, len |-> h.len, id |-> h.id,
            fo |-> Flag(h.df, 14) + Flag(h.mf, 13) + (h.offset % 8192),
            ttl |-> h.ttl, proto |-> h.proto, cksum |-> h.cksum, src |-> h.src, dst |-> h.dst]
  IN  UnparseFields(f, IPv4Layout) \o [i \in 1 .. 4 * h.hlen - IPv4HeaderLength |-> 0]

pseudo_cksum(h) ==
  h.src[1] + h.src[2] + h.dst[1] + h.dst[2] + h.proto + payload_length(h)

\* IPv4Datagram::parse, which asks the parser for its error and does not look at
\* the result of the header.
DatagramOf(hdr) ==
  [header |-> hdr.h, payload |-> hdr.p.buffer,
   res |-> IF Len(hdr.p.buffer) # payload_length(hdr.h) THEN "PacketTooShort" ELSE hdr.p.error]

ParseDatagram(buffer) == DatagramOf(ParseIPv4Header(NetParser(buffer), NewIPv4Header))

\* IPv4Datagram::serialize; the owner has set len to the size of the payload.
SerializeDatagram(d) ==
  LET zero == [d.header EXCEPT !.cksum = 0]
      sum  == value(add(NewChecksum(0), SerializeIPv4Header(zero)))
  IN  SerializeIPv4Header([zero EXCEPT !.cksum = sum]) \o d.payload
=============================================================================
