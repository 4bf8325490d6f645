--------------------------- MODULE EthernetFrames ---------------------------
(***************************************************************************)
(* tcp_helpers/ethernet_header.cc, ethernet_frame.cc and arp_message.cc.   *)
(* A frame is its header and its payload, a sequence of bytes.             *)
(***************************************************************************)
EXTENDS NetParsers

ETHERNET_BROADCAST == [i \in 1 .. 6 |-> 255]
EthernetHeaderLength == 14
TYPE_IPv4 == 2048
TYPE_ARP == 2054

EthernetLayout == << <<"dst", 6>>, <<"src", 6>>, <<"type", 2>> >>

Frame(dst, src, type, payload) ==
  [header |-> [dst |-> dst, src |-> src, type |-> type], payload |-> payload]

\* The value-initialised header of an EthernetFrame.
NewFrame == Frame([i \in 1 .. 6 |-> 0], [i \in 1 .. 6 |-> 0], 0, <<>>)

\* EthernetHeader::parse: a buffer shorter than a header leaves the header as it
\* was, and the error is returned but not set.
ParseEthernetHeader(p) ==
  IF Len(p.buffer) < EthernetHeaderLength THEN [p |-> p, h |-> NewFrame.header]
  ELSE ParseFields(p, EthernetLayout, EthernetHeaderLength)

SerializeEthernetHeader(header) == UnparseFields(header, EthernetLayout)

\* EthernetFrame::parse goes by the error that is set.
ParseFrame(buffer) ==
  LET read == ParseEthernetHeader(NetParser(buffer))
  IN  [header |-> read.h, payload |-> read.p.buffer, res |-> read.p.error]

SerializeFrame(frame) == SerializeEthernetHeader(frame.header) \o frame.payload

-----------------------------------------------------------------------------
ARPLength == 28
OPCODE_REQUEST == 1
OPCODE_REPLY == 2

ARPLayout ==
  << <<"hardware_type", 2>>, <<"protocol_type", 2>>, <<"hardware_address_size", 1>>,
     <<"protocol_address_size", 1>>, <<"opcode", 2>>,
     <<"sender_ethernet_address", 6>>, <<"sender_ip_address", 4>>,
     <<"target_ethernet_address", 6>>, <<"target_ip_address", 4>> >>

ARPMessage(opcode, sender_ethernet, sender_ip, target_ethernet, target_ip) ==
  [hardware_type |-> 1, protocol_type |-> TYPE_IPv4, hardware_address_size |-> 6,
   protocol_address_size |-> 4, opcode |-> opcode,
   sender_ethernet_address |-> sender_ethernet, sender_ip_address |-> sender_ip,
   target_ethernet_address |-> target_ethernet, target_ip_address |-> target_ip]

supported(am) ==
  /\ am.hardware_type = 1 /\ am.protocol_type = TYPE_IPv4
  /\ am.hardware_address_size = 6 /\ am.protocol_address_size = 4
  /\ am.opcode \in {OPCODE_REQUEST, OPCODE_REPLY}

ParseARP(buffer) ==
  LET read == ParseFields(NetParser(buffer), ARPLayout, ARPLength)
  IN  [am  |-> read.h,
       res |-> IF Len(buffer) < ARPLength THEN "PacketTooShort"
               ELSE IF ~supported(read.h) THEN "Unsupported"
               ELSE read.p.error]

\* ARPMessage::serialize, for the messages it supports.
SerializeARP(am) == UnparseFields(am, ARPLayout)
=============================================================================
