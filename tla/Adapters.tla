------------------------------ MODULE Adapters ------------------------------
(***************************************************************************)
(* The adapters that carry TCP segments: over UDP (fd_adapter.cc), over IP *)
(* on a TUN device (tcp_over_ip.cc, tuntap_adapter.hh) and over IP in      *)
(* Ethernet frames on a TAP device (tuntap_adapter.cc), and the wrapper    *)
(* that loses segments (lossy_fd_adapter.hh).                              *)
(*                                                                         *)
(* An adapter is the configuration and the flag of FdAdapterBase, and the  *)
(* interface and the next hop of the Ethernet adapter; an Address is a     *)
(* record of ip and port.  A UDP datagram as the kernel delivers it has    *)
(* the address of its sender; what the devices carry is bytes.             *)
(***************************************************************************)
EXTENDS TCPPackets, NetworkInterface

NoSegment == Empty

NewAdapter(source, destination, listening, interface, next_hop) ==
  [source |-> source, destination |-> destination, listen |-> listening,
   interface |-> interface, next_hop |-> next_hop]

\* What a read returns: the adapter afterwards, and the segment if there is one.
Nothing(adapter) == [adapter |-> adapter, seg |-> NoSegment]
Segment(adapter, parsed) ==
  [adapter |-> adapter, seg |-> [header |-> parsed.header, payload |-> parsed.payload]]

\* Who may be taken for the peer of a listening adapter.
Opens(header) == header.syn /\ ~header.rst

\* The ports that the adapters fill in before they write.
WithPorts(adapter, seg) ==
  [seg EXCEPT !.header.sport = adapter.source.port, !.header.dport = adapter.destination.port]

-----------------------------------------------------------------------------
\* A mistake: every SYN that arrives moves the adapter to its sender.
UDPTake_AnySyn(adapter, source_address, parsed) ==
  IF parsed.res # "NoError" \/ ~Opens(parsed.header) THEN Nothing(adapter)
  ELSE Segment([adapter EXCEPT !.destination = source_address, !.listen = FALSE], parsed)

\* TCPOverUDPSocketAdapter::read and write
UDPTake(adapter, source_address, parsed) ==
  IF \/ ~adapter.listen /\ source_address # adapter.destination
     \/ parsed.res # "NoError"
     \/ adapter.listen /\ ~Opens(parsed.header)
  THEN Nothing(adapter)
  ELSE Segment(IF adapter.listen
               THEN [adapter EXCEPT !.destination = source_address, !.listen = FALSE]
               ELSE adapter, parsed)

UDPRead(adapter, datagram) ==
  UDPTake(adapter, datagram.source_address, ParseSegment(datagram.payload, 0))

UDPWrite(adapter, seg) == SerializeSegment(WithPorts(adapter, seg), 0)

-----------------------------------------------------------------------------
\* TCPOverIPv4Adapter
\* Whom an adapter answers: one that listens takes the sender of a segment.
Peer(adapter, h, sport) ==
  IF adapter.listen
  THEN [adapter EXCEPT !.source.ip = h.dst, !.destination = [ip |-> h.src, port |-> sport],
                       !.listen = FALSE]
  ELSE adapter

\* A mistake: the source address is not compared.
Unwrapped_AnySource(adapter, h, parsed) ==
  LET peer == Peer(adapter, h, parsed.header.sport)
  IN  IF \/ ~adapter.listen /\ h.dst # adapter.source.ip
         \/ h.proto # PROTO_TCP
         \/ parsed.res # "NoError"
         \/ parsed.header.dport # adapter.source.port
         \/ adapter.listen /\ ~Opens(parsed.header)
         \/ parsed.header.sport # peer.destination.port
      THEN Nothing(adapter)
      ELSE Segment(peer, parsed)

Unwrapped(adapter, h, parsed) ==
  LET peer == Peer(adapter, h, parsed.header.sport)
  IN  IF \/ ~adapter.listen /\ h.dst # adapter.source.ip
         \/ ~adapter.listen /\ h.src # adapter.destination.ip
         \/ h.proto # PROTO_TCP
         \/ parsed.res # "NoError"
         \/ parsed.header.dport # adapter.source.port
         \/ adapter.listen /\ ~Opens(parsed.header)
         \/ parsed.header.sport # peer.destination.port
      THEN Nothing(adapter)
      ELSE Segment(peer, parsed)

unwrap_tcp_in_ip(adapter, dgram) ==
  Unwrapped(adapter, dgram.header, ParseSegment(dgram.payload, pseudo_cksum(dgram.header)))

\* A mistake: the pseudo-header is summed before the length is set.
wrap_tcp_in_ip_SumFirst(adapter, seg) ==
  LET out    == WithPorts(adapter, seg)
      header == [NewIPv4Header EXCEPT
                   !.src = adapter.source.ip, !.dst = adapter.destination.ip,
                   !.len = NewIPv4Header.hlen * 4 + seg.header.doff * 4 + Len(seg.payload)]
  IN  [header |-> header, payload |-> SerializeSegment(out, pseudo_cksum([header EXCEPT !.len = 0]))]

wrap_tcp_in_ip(adapter, seg) ==
  LET out    == WithPorts(adapter, seg)
      header == [NewIPv4Header EXCEPT
                   !.src = adapter.source.ip, !.dst = adapter.destination.ip,
                   !.len = NewIPv4Header.hlen * 4 + seg.header.doff * 4 + Len(seg.payload)]
  IN  [header |-> header, payload |-> SerializeSegment(out, pseudo_cksum(header))]

\* TCPOverIPv4OverTunFdAdapter
TunUnwrap(adapter, dgram) ==
  IF dgram.res # "NoError" THEN Nothing(adapter) ELSE unwrap_tcp_in_ip(adapter, dgram)

TunRead(adapter, bytes) == TunUnwrap(adapter, ParseDatagram(bytes))

TunWrite(adapter, seg) == SerializeDatagram(wrap_tcp_in_ip(adapter, seg))

-----------------------------------------------------------------------------
\* TCPOverIPv4OverEthernetAdapter: send_pending gives what is written to the
\* device, and the adapter is left with an empty queue.
send_pending(adapter) ==
  [adapter |-> [adapter EXCEPT !.interface.frames_out = <<>>],
   out     |-> [i \in 1 .. Len(adapter.interface.frames_out) |->
                  SerializeFrame(adapter.interface.frames_out[i])]]

\* What the frame caused the interface to send goes out before the datagram that
\* it carried, if any, is looked at.
EthernetUnwrap(sent, dgram) ==
  [out |-> sent.out] @@ (IF dgram = NoDatagram THEN Nothing(sent.adapter)
                         ELSE unwrap_tcp_in_ip(sent.adapter, dgram))

EthernetTake(adapter, got) ==
  EthernetUnwrap(send_pending([adapter EXCEPT !.interface = got.ifc]), got.dgram)

EthernetFrameRead(adapter, frame) ==
  IF frame.res # "NoError" THEN [out |-> <<>>] @@ Nothing(adapter)
  ELSE EthernetTake(adapter, recv_frame(adapter.interface, frame))

EthernetRead(adapter, bytes) == EthernetFrameRead(adapter, ParseFrame(bytes))

EthernetWrite(adapter, seg) ==
  send_pending([adapter EXCEPT !.interface =
                  send_datagram(@, wrap_tcp_in_ip(adapter, seg), adapter.next_hop)])

EthernetTick(adapter, ms) ==
  {send_pending([adapter EXCEPT !.interface = ifc]) : ifc \in tick(adapter.interface, ms)}
=============================================================================
