----------------------------- MODULE PacketPath -----------------------------
(***************************************************************************)
(* Three programs, each with an adapter of the same kind, on one medium:   *)
(* a client and a stranger write segments to a server that listens and     *)
(* that answers whoever it takes for its peer.  Packets are bytes.  The    *)
(* medium may deliver them in any order, change a byte, cut a packet off   *)
(* or lose it, and the lossy wrapper may drop what is written or read.     *)
(*                                                                         *)
(* written collects what the programs wrote and last says what became of   *)
(* the packet that was read last; no adapter sees them.                    *)
(***************************************************************************)
EXTENDS Adapters, FiniteSets

CONSTANTS
  Segments,   \* the segments that the programs write, before the ports are set
  Deltas,     \* what a fault adds to a byte, modulo 256
  MaxWrites,  \* how many segments are written at most
  MaxFaults,  \* how many packets the medium damages at most
  MaxTicks    \* how often an entry for an Ethernet address times out at most

ASSUME DeltasAssumption == Deltas \subseteq 1 .. 255

Kinds == {"udp", "tun", "ethernet"}
Programs == {"client", "stranger", "server"}

VARIABLES
  kind,      \* which adapters the programs use
  adapters,  \* the adapter of each program
  air,       \* the packets under way
  written,   \* the segments that were written, with their writers
  last,      \* the last read
  writes, faults, ticks  \* the counters of the bounds
vars == <<kind, adapters, air, written, last, writes, faults, ticks>>

-----------------------------------------------------------------------------
Ip(p) == CASE p = "client" -> <<2560, 1>> [] p = "stranger" -> <<2560, 2>> [] OTHER -> <<2560, 9>>
Mac(p) == <<2, 0, 0, 0, 0, Ip(p)[2]>>
\* The client and the stranger use the same port.
Port(p) == IF p = "server" THEN 80 ELSE 999
Addr(p) == [ip |-> Ip(p), port |-> Port(p)]

\* The server is bound to address 0; the others have been told where it is.
InitialAdapter(p) ==
  LET ifc == NewInterface(Mac(p), Ip(p))
  IN  IF p = "server"
      THEN NewAdapter([ip |-> <<0, 0>>, port |-> Port(p)], [ip |-> <<0, 0>>, port |-> 0],
                      TRUE, ifc, Ip("client"))
      ELSE NewAdapter(Addr(p), Addr("server"), FALSE, ifc, Ip("server"))

\* Whom a packet reaches: a datagram goes to the program whose address it has, a
\* frame over the switch to the owner of its destination or to everybody.
Reaches(bytes, dst, q) ==
  IF kind = "ethernet" THEN ParseFrame(bytes).header.dst \in {ETHERNET_BROADCAST, Mac(q)}
  ELSE dst = Ip(q)

Packets(from, dst, out) ==
  UNION {{[to |-> q, from |-> from, payload |-> out[i]] :
            q \in {r \in Programs \ {from} : Reaches(out[i], dst, r)}} : i \in DOMAIN out}

\* An Ethernet adapter writes a frame of zeros when it is constructed.
Init ==
  /\ kind \in Kinds
  /\ adapters = [p \in Programs |-> InitialAdapter(p)]
  /\ air = IF kind = "ethernet" THEN Packets("client", <<>>, <<SerializeFrame(NewFrame)>>)
           ELSE {}
  /\ written = {}
  /\ last = [by |-> "nobody"]
  /\ writes = 0 /\ faults = 0 /\ ticks = 0

-----------------------------------------------------------------------------
\* A program writes a segment.
Write(p, seg) ==
  LET a    == adapters[p]
      sent == EthernetWrite(a, seg)
  IN  /\ writes < MaxWrites /\ ~a.listen
      /\ writes' = writes + 1
      /\ written' = written \cup {[from |-> p, seg |-> WithPorts(a, seg)]}
      /\ \/ /\ kind = "udp"
            /\ air' = air \cup Packets(p, a.destination.ip, <<UDPWrite(a, seg)>>)
            /\ UNCHANGED adapters
         \/ /\ kind = "tun"
            /\ air' = air \cup Packets(p, a.destination.ip, <<TunWrite(a, seg)>>)
            /\ UNCHANGED adapters
         \/ /\ kind = "ethernet"
            /\ air' = air \cup Packets(p, a.next_hop, sent.out)
            /\ adapters' = [adapters EXCEPT ![p] = sent.adapter]
      /\ UNCHANGED <<kind, last, faults, ticks>>

\* LossyFdAdapter::write drops the segment before the adapter hears of it.
LossyWrite(p) ==
  /\ writes < MaxWrites /\ ~adapters[p].listen
  /\ writes' = writes + 1
  /\ UNCHANGED <<kind, adapters, air, written, last, faults, ticks>>

\* Whether a packet holds something for p beside a message of ARP.  (The answers
\* of the server to the stranger, too, go by its next hop, the client.)
Carries(bytes, p) ==
  kind = "ethernet" =>
    LET frame == ParseFrame(bytes)
    IN  /\ frame.header.type = TYPE_IPv4 /\ frame.header.dst = Mac(p)
        /\ ParseDatagram(frame.payload).header.dst = Ip(p)

ReadBy(a, bytes, source_address) ==
  CASE kind = "udp" ->
         [out |-> <<>>] @@ UDPRead(a, [payload |-> bytes, source_address |-> source_address])
    [] kind = "tun" -> [out |-> <<>>] @@ TunRead(a, bytes)
    [] kind = "ethernet" -> EthernetRead(a, bytes)

\* A packet arrives as the bytes that the medium has made of it.  LossyFdAdapter::
\* read drops a segment only after its adapter has read it.
Read(pkt, bytes, damage, dropped) ==
  LET p == pkt.to
      r == ReadBy(adapters[p], bytes, Addr(pkt.from))
  IN  /\ air' = (air \ {pkt}) \cup Packets(p, <<>>, r.out)
      /\ adapters' = [adapters EXCEPT ![p] = r.adapter]
      /\ last' = [by |-> p, from |-> pkt.from, damage |-> damage, dropped |-> dropped,
                  seg |-> IF dropped THEN NoSegment ELSE r.seg,
                  listening |-> adapters[p].listen,
                  carries |-> Carries(bytes, p)]
      /\ UNCHANGED <<kind, written, writes, ticks>>

ReadWhole(pkt, dropped) == Read(pkt, pkt.payload, "no", dropped) /\ UNCHANGED faults

\* The medium has changed the i-th byte of a packet, be it the one that says where
\* the IP header ends; a frame has a checksum of its own, which the hardware looks
\* at.
ReadChanged(pkt, i, d) ==
  /\ faults < MaxFaults /\ kind # "ethernet"
  /\ faults' = faults + 1
  /\ Read(pkt, [pkt.payload EXCEPT ![i] = (@ + d) % 256], "changed", FALSE)

\* A TUN device hands over the first n bytes of a packet.
ReadCut(pkt, n) ==
  /\ kind = "tun"
  /\ faults < MaxFaults
  /\ faults' = faults + 1
  /\ Read(pkt, Prefix(pkt.payload, n), "cut", FALSE)

\* The Ethernet adapters hear that time passes.
Tick(p, ms) ==
  /\ kind = "ethernet" /\ ticks < MaxTicks
  /\ ticks' = ticks + 1
  /\ \E t \in EthernetTick(adapters[p], ms) :
       /\ adapters' = [adapters EXCEPT ![p] = t.adapter]
       /\ air' = air \cup Packets(p, <<>>, t.out)
  /\ UNCHANGED <<kind, written, last, writes, faults>>

Next ==
  \/ \E p \in Programs, seg \in Segments : Write(p, seg)
  \/ \E p \in Programs : LossyWrite(p)
  \/ \E pkt \in air, dropped \in BOOLEAN : ReadWhole(pkt, dropped)
  \/ \E p \in Programs : Tick(p, REQUEST_TIMEOUT)
  \/ \E pkt \in air : \E i \in DOMAIN pkt.payload, d \in Deltas : ReadChanged(pkt, i, d)
  \/ \E pkt \in air : \E n \in 0 .. Len(pkt.payload) - 1 : ReadCut(pkt, n)

Spec == Init /\ [][Next]_vars

-----------------------------------------------------------------------------
HandedUp == last.by # "nobody" /\ last.seg # NoSegment

\* Whatever the medium does to a single byte of a packet, and wherever it cuts
\* one off, a segment that read hands up is one that the sender of the packet
\* wrote, with its ports, its flags, its numbers and its payload: the checksum
\* of TCPSegment::parse and the lengths of IPv4Datagram::parse catch the rest,
\* although IPv4Datagram::parse does not look at what the header's parse returns.
\* (When the header length has changed, the TCP header begins elsewhere and only
\* its checksum is left: that is enough for the segments of the run, not for all.)
Intact ==
  HandedUp =>
    \E w \in written :
      /\ w.from = last.from
      /\ w.seg.payload = last.seg.payload
      /\ SameHeader(w.seg.header, last.seg.header)
      /\ w.seg.header.sport = last.seg.header.sport
      /\ w.seg.header.dport = last.seg.header.dport

\* A packet that nothing happened to is never taken for a bad one, when it comes
\* from the peer that an adapter has settled on or opens the connection of one
\* that listens: the checksums and lengths that write puts in are those that read
\* looks for.
NoFalseAlarm ==
  last.by # "nobody" =>
    (/\ last.damage = "no" /\ ~last.dropped /\ last.carries
     /\ IF last.listening
        THEN \A w \in written : w.from = last.from => Opens(w.seg.header)
        ELSE adapters[last.by].destination = Addr(last.from)
     => last.seg # NoSegment)

\* Everything that is handed up comes from the peer that the adapter answers,
\* however the segments of the client and of the stranger are mixed: the server
\* settles on the sender of the first good SYN, even of one that the lossy
\* wrapper drops.
OnePeer ==
  HandedUp =>
    /\ ~adapters[last.by].listen
    /\ adapters[last.by].destination = Addr(last.from)

\* No adapter changes its peer once it has one, and none that has one listens
\* again: FdAdapterBase is shared by the reads of all segments.
PeerIsKept ==
  [][\A p \in Programs : ~adapters[p].listen =>
       /\ ~adapters'[p].listen
       /\ adapters'[p].destination = adapters[p].destination
       /\ adapters'[p].source = adapters[p].source]_vars
=============================================================================
