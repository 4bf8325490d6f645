-------------------------- MODULE NetworkInterface --------------------------
(***************************************************************************)
(* network_interface.cc and the AsyncNetworkInterface of router.hh.  An    *)
(* interface is a record of the members; addr_mp maps an IP address to the *)
(* time that the entry has left, in milliseconds, and to the Ethernet      *)
(* address, which is the broadcast address while a request is out; data_mp *)
(* maps an IP address to the datagram that waits for its Ethernet address. *)
(* The time that an entry lives is counted down from the numbers that the  *)
(* code has, 5000 and 30000.                                               *)
(***************************************************************************)
EXTENDS IPv4Datagrams, EthernetFrames

Empty == <<>>
NoDatagram == Empty

REQUEST_TIMEOUT == 5000
MAPPING_TIMEOUT == 30000

\* The constructor.
NewInterface(ethernet_address, ip_address) ==
  [ethernet_address |-> ethernet_address, ip_address |-> ip_address, frames_out |-> <<>>,
   addr_mp |-> Empty, data_mp |-> Empty, datagrams_out |-> <<>>]

Put(map, key, val) == (key :> val) @@ map
Erase(map, keys) == [k \in DOMAIN map \ keys |-> map[k]]

Push(ifc, frame) == [ifc EXCEPT !.frames_out = Append(@, frame)]

IPv4Frame(ifc, dst, dgram) ==
  Frame(dst, ifc.ethernet_address, TYPE_IPv4, SerializeDatagram(dgram))

ARPFrame(ifc, dst, am) == Frame(dst, ifc.ethernet_address, TYPE_ARP, SerializeARP(am))

\* send_datagram: a datagram for an address that is being asked for is dropped.
send_datagram(ifc, dgram, next_hop) ==
  LET asked   == next_hop \in DOMAIN ifc.addr_mp
      known   == asked /\ ifc.addr_mp[next_hop].ethernet # ETHERNET_BROADCAST
      request == ARPMessage(OPCODE_REQUEST, ifc.ethernet_address, ifc.ip_address,
                            [i \in 1 .. 6 |-> 0], next_hop)
  IN  IF known THEN Push(ifc, IPv4Frame(ifc, ifc.addr_mp[next_hop].ethernet, dgram))
      ELSE IF asked THEN ifc
      ELSE [Push(ifc, ARPFrame(ifc, ETHERNET_BROADCAST, request)) EXCEPT
              !.addr_mp = Put(@, next_hop, [time |-> REQUEST_TIMEOUT, ethernet |-> ETHERNET_BROADCAST]),
              !.data_mp = Put(@, next_hop, dgram)]

\* A mistake: the datagram that was sent stays in data_mp.
Learn_KeepsWaiting(ifc, am) ==
  LET ip  == am.sender_ip_address
      eth == am.sender_ethernet_address
      new == [ifc EXCEPT !.addr_mp = Put(@, ip, [time |-> MAPPING_TIMEOUT, ethernet |-> eth])]
  IN  IF ip \notin DOMAIN ifc.data_mp THEN new
      ELSE Push(new, IPv4Frame(ifc, eth, ifc.data_mp[ip]))

\* A mistake: the datagram that waited is thrown away.
Learn_DropsWaiting(ifc, am) ==
  [ifc EXCEPT !.addr_mp = Put(@, am.sender_ip_address,
                              [time |-> MAPPING_TIMEOUT, ethernet |-> am.sender_ethernet_address]),
              !.data_mp = Erase(@, {am.sender_ip_address})]

\* The first part of recv_frame for an ARP message: the sender is learnt, and
\* what waited for it is sent.
Learn(ifc, am) ==
  LET ip  == am.sender_ip_address
      eth == am.sender_ethernet_address
      new == [ifc EXCEPT !.addr_mp = Put(@, ip, [time |-> MAPPING_TIMEOUT, ethernet |-> eth])]
  IN  IF ip \notin DOMAIN ifc.data_mp THEN new
      ELSE [Push(new, IPv4Frame(ifc, eth, ifc.data_mp[ip])) EXCEPT !.data_mp = Erase(@, {ip})]

\* A mistake: the answer carries the address of the one who asks.
Answer_Echoes(ifc, am) ==
  IF am.opcode = OPCODE_REQUEST /\ am.target_ip_address = ifc.ip_address
  THEN Push(ifc, ARPFrame(ifc, am.sender_ethernet_address,
                          ARPMessage(OPCODE_REPLY, am.sender_ethernet_address, am.target_ip_address,
                                     am.sender_ethernet_address, am.sender_ip_address)))
  ELSE ifc

\* The second part: a request for our own address is answered.
Answer(ifc, am) ==
  IF am.opcode = OPCODE_REQUEST /\ am.target_ip_address = ifc.ip_address
  THEN Push(ifc, ARPFrame(ifc, am.sender_ethernet_address,
                          ARPMessage(OPCODE_REPLY, ifc.ethernet_address, am.target_ip_address,
                                     am.sender_ethernet_address, am.sender_ip_address)))
  ELSE ifc

\* recv_frame for an ARP message and for a datagram.
AfterARP(ifc, arp) == IF arp.res = "NoError" THEN Answer(Learn(ifc, arp.am), arp.am) ELSE ifc

Datagram(parsed) ==
  IF parsed.res = "NoError" THEN [header |-> parsed.header, payload |-> parsed.payload]
  ELSE NoDatagram

\* recv_frame: the interface afterwards and the datagram that it returns, if any.
recv_frame(ifc, frame) ==
  [ifc   |-> IF frame.header.type = TYPE_ARP THEN AfterARP(ifc, ParseARP(frame.payload)) ELSE ifc,
   dgram |-> IF frame.header.type = TYPE_IPv4 /\ frame.header.dst = ifc.ethernet_address
             THEN Datagram(ParseDatagram(frame.payload)) ELSE NoDatagram]

\* The recv_frame of AsyncNetworkInterface.
AsyncPush(r) ==
  IF r.dgram = NoDatagram THEN r.ifc ELSE [r.ifc EXCEPT !.datagrams_out = Append(@, r.dgram)]

AsyncRecvFrame(ifc, frame) == AsyncPush(recv_frame(ifc, frame))

\* A mistake: an entry is erased one millisecond early.
Aged_Early(ifc, ms, visited) ==
  LET old == {ip \in visited : ifc.addr_mp[ip].time <= ms + 1}
  IN  [ifc EXCEPT !.addr_mp =
         [ip \in DOMAIN @ \ old |->
            IF ip \in visited THEN [@[ip] EXCEPT !.time = @ - ms] ELSE @[ip]]]

\* What tick does to the entries that its loop visits.
Aged(ifc, ms, visited) ==
  LET old == {ip \in visited : ifc.addr_mp[ip].time <= ms}
  IN  [ifc EXCEPT !.addr_mp =
         [ip \in DOMAIN @ \ old |->
            IF ip \in visited THEN [@[ip] EXCEPT !.time = @ - ms] ELSE @[ip]]]

\* tick erases an entry of the map that it walks over, and goes on from the
\* erased entry.  Once something is erased, which entries the loop still visits
\* is not defined; until then it visits every one.
tick(ifc, ms) ==
  LET all == DOMAIN ifc.addr_mp
      old == {ip \in all : ifc.addr_mp[ip].time <= ms}
  IN  IF old = {} THEN {Aged(ifc, ms, all)}
      ELSE {Aged(ifc, ms, visited) : visited \in {v \in SUBSET all : v \cap old # {}}}
=============================================================================
