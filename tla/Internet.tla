------------------------------ MODULE Internet ------------------------------
(***************************************************************************)
(* Hosts and routers with their interfaces, and what has to hold of them   *)
(* however frames and datagrams travel.  Two programs build such a network *)
(* and move its frames: the simulator (NetworkSimulator) and lab7 with the *)
(* bouncer (Lab7).                                                         *)
(*                                                                         *)
(* A node <<r, i>> is the i-th interface of router r, and <<h, 0>> is that *)
(* of host h.  since is not part of a program: it says how long ago an     *)
(* interface last asked for an address.                                    *)
(***************************************************************************)
EXTENDS Router, Adapters, FiniteSets, SequencesExt, Bags

CONSTANTS
  Networks,   \* what each program builds: hosts, interfaces and routes of routers,
              \* links between nodes, and the traffic of the simulator
  MaxSent,    \* how many datagrams the hosts of each program send at most
  MaxLost,    \* how many frames are lost at most
  TickTimes   \* how much time passes in the calls of tick, one after the other: the
              \* sequences that each program may go through

VARIABLES
  program,  \* the one that runs
  routers, hosts,
  relay,    \* what lab7 has between them
  since, sent, lost,
  ticks     \* how much time has passed in each call of tick
vars == <<program, routers, hosts, relay, since, sent, lost, ticks>>

Net == Networks[program]

RouterNodes(net) ==
  UNION {{<<r, i>> : i \in DOMAIN net.interfaces[r]} : r \in DOMAIN net.interfaces}
HostNodes(net) == {<<h, 0>> : h \in DOMAIN net.hosts}
AllNodes == [p \in DOMAIN Networks |-> RouterNodes(Networks[p]) \cup HostNodes(Networks[p])]
Nodes == AllNodes[program]

IP(a, b, c, d) == <<a * 256 + b, c * 256 + d>>

R(prefix, len, next_hop, interface) ==
  [prefix |-> prefix, len |-> len, next_hop |-> next_hop, interface |-> interface]

Interface(n) == IF n[2] = 0 THEN hosts[n[1]].interface ELSE routers[n[1]].interfaces[n[2]]

IpOf(net, n) == IF n[2] = 0 THEN net.hosts[n[1]].ip ELSE net.interfaces[n[1]][n[2]]

\* The random Ethernet addresses, taken to be all different.
MacOf(ip) == <<2, 0>> \o BytesOf(ip, 4)

Parsed(packets) == [i \in DOMAIN packets |-> ParseFrame(packets[i])]

\* The frames that a node has sent and nobody has taken: the hosts of lab7 have
\* written them to their socket pair.
Outgoing(n) ==
  IF n[2] = 0 /\ n[1] \in DOMAIN relay.up THEN Parsed(relay.up[n[1]]) ELSE Interface(n).frames_out

-----------------------------------------------------------------------------
\* The routers of a network, one for every outcome of its calls of add_route.
RECURSIVE WithRoutes(_, _)
WithRoutes(built, routes) ==
  IF routes = <<>> THEN built
  ELSE WithRoutes(UNION {add_route(r, Head(routes)) : r \in built}, Tail(routes))

RECURSIVE WithInterfaces(_, _)
WithInterfaces(router, ips) ==
  IF ips = <<>> THEN router
  ELSE WithInterfaces(add_interface(router, NewInterface(MacOf(Head(ips)), Head(ips))), Tail(ips))

Built(net, r) == WithRoutes({WithInterfaces(NewRouter, net.interfaces[r])}, net.routes[r])

InitRouters(net) ==
  routers \in {f \in [DOMAIN net.routes -> UNION {Built(net, r) : r \in DOMAIN net.routes}] :
                 \A r \in DOMAIN net.routes : f[r] \in Built(net, r)}

-----------------------------------------------------------------------------
\* The frames that a node has added to those it has sent.
Queued(n) == Suffix(Outgoing(n)', Len(Outgoing(n)))

\* The addresses that frames ask for, at the end of the ARP message.
AskedFor(frames) ==
  {Value(Suffix(frames[i].payload, ARPLength - 4)) :
     i \in {j \in DOMAIN frames : /\ frames[j].header.type = TYPE_ARP
                                  /\ frames[j].header.dst = ETHERNET_BROADCAST}}

Asking(n) == AskedFor(Queued(n))

Remember == since' = [n \in Nodes |-> [ip \in Asking(n) |-> 0] @@ since[n]]

\* The interfaces of some nodes change.
Update(changed, Ifc(_)) ==
  /\ routers' = [r \in DOMAIN routers |-> [routers[r] EXCEPT !.interfaces =
                   [i \in DOMAIN @ |-> IF <<r, i>> \in changed THEN Ifc(<<r, i>>) ELSE @[i]]]]
  /\ hosts' = [h \in DOMAIN hosts |->
                 IF <<h, 0>> \in changed THEN [hosts[h] EXCEPT !.interface = Ifc(<<h, 0>>)]
                 ELSE hosts[h]]

\* How much time a call of tick may be told of.
TickSteps == UNION {Range(times) : times \in TickTimes[program]}

\* The owner of some interfaces lets time pass for them.
Tick(nodes, ms) ==
  /\ \E times \in TickTimes[program] : IsPrefix(Append(ticks, ms), times)
  /\ \E n \in nodes : DOMAIN Interface(n).addr_mp # {}
  /\ ticks' = Append(ticks, ms)
  /\ \E ifcs \in {f \in [nodes -> UNION {tick(Interface(n), ms) : n \in nodes}] :
                    \A n \in nodes : f[n] \in tick(Interface(n), ms)} :
       LET Ifc(n) == ifcs[n] IN Update(nodes, Ifc)
  /\ since' = [n \in Nodes |-> IF n \in nodes THEN [ip \in DOMAIN since[n] |-> since[n][ip] + ms]
                               ELSE since[n]]
  /\ UNCHANGED <<program, relay, sent, lost>>

-----------------------------------------------------------------------------
\* What a host has received: datagrams, or the segments that the adapter of lab7
\* has handed up.
Got(h) == IF program = "lab7" THEN hosts[h].received ELSE hosts[h].interface.datagrams_out

\* A host receives only what was sent to it or past it, by the longest prefix that
\* matches, as it was sent except that the time to live is less, and each at most
\* once: Host::check never throws for an unexpected datagram.
OnlyExpected ==
  \A h \in DOMAIN hosts :
    LET got == [i \in DOMAIN Got(h) |-> [Got(h)[i] EXCEPT !.header.cksum = 0]]
    IN  \A d \in Range(got) :
          Cardinality({i \in DOMAIN got : got[i] = d}) <= CopiesIn(d, hosts[h].expecting)

\* An interface that knows an Ethernet address knows the right one: that of the
\* neighbour on its link with that IP address.  Whoever asks, answers or is
\* overheard teaches recv_frame only what is true.
CacheIsTrue ==
  \A n \in Nodes : \A ip \in DOMAIN Interface(n).addr_mp :
    LET mac == Interface(n).addr_mp[ip].ethernet
    IN  mac = ETHERNET_BROADCAST
        \/ \E l \in Net.links : \E m \in Range(l) :
             n \in Range(l) /\ IpOf(Net, m) = ip /\ MacOf(ip) = mac

\* No interface asks twice for an address within five seconds, be it one millisecond
\* less, however the sends, the answers and the calls of tick, with its undefined
\* order, are mixed.
RequestsSpaced ==
  [][\A n \in Nodes : \A ip \in Asking(n) :
       ip \in DOMAIN since[n] => since[n][ip] >= REQUEST_TIMEOUT]_vars

\* What tells the datagrams apart: a byte of their payload.
Id(payload) == payload[Net.id]
IdInFrame(frame) == frame.payload[IPv4HeaderLength + Net.id]

\* The frames under way, and the datagrams that are somewhere: in a frame, waiting,
\* or received.
Frames ==
  UNION {Range(Outgoing(n)) : n \in Nodes}
    \cup UNION {Range(Parsed(relay.down[h])) : h \in DOMAIN relay.down}
    \cup {ParseFrame(d.payload) : d \in relay.air}
Framed == {IdInFrame(f) : f \in {g \in Frames : g.header.type = TYPE_IPv4}}
Waiting(n) == {Id(Interface(n).data_mp[ip].payload) : ip \in DOMAIN Interface(n).data_mp}
Received(h) ==
  IF program = "lab7" THEN {hosts[h].received[i].header.seqno[2] : i \in DOMAIN hosts[h].received}
  ELSE {Id(d.payload) : d \in Range(hosts[h].interface.datagrams_out)}
ToRoute(r) == UNION {Range(routers[r].interfaces[i].datagrams_out) : i \in DOMAIN routers[r].interfaces}
Present ==
  Framed \cup UNION {Waiting(n) : n \in Nodes} \cup UNION {Received(h) : h \in DOMAIN hosts}
    \cup UNION {{Id(d.payload) : d \in ToRoute(r)} : r \in DOMAIN routers}

\* The datagrams that router r has or may be about to get.
Near(r) ==
  ToRoute(r) \cup {ParseDatagram(f.payload) :
                     f \in {g \in Frames : /\ g.header.type = TYPE_IPv4
                                           /\ \E ifc \in Range(routers[r].interfaces) :
                                                g.header.dst = ifc.ethernet_address}}

HopOf(r, dgram) ==
  LET best == Lookup(routers[r], dgram.header.dst)
  IN  [node |-> <<r, best.interface>>,
       ip   |-> IF best.next_hop = NoHop THEN dgram.header.dst ELSE best.next_hop]

\* No datagram disappears without a reason: a link lost the frame, the router found
\* that its time was over, its next hop was being asked for, or nobody had
\* answered in time and another datagram took its place.
Discarded(id) ==
  \E r \in DOMAIN routers : routers'[r] # routers[r] /\
    \E d \in {e \in Near(r) : Id(e.payload) = id} :
      LET hop == HopOf(r, d)
          mp  == Interface(hop.node).addr_mp
      IN  \/ d.header.ttl <= 1
          \/ hop.ip \in Asking(hop.node)
          \/ hop.ip \in DOMAIN mp /\ mp[hop.ip].ethernet = ETHERNET_BROADCAST

Replaced(id) ==
  \E n \in Nodes : \E ip \in Asking(n) :
    ip \in DOMAIN Interface(n).data_mp /\ Id(Interface(n).data_mp[ip].payload) = id

NothingVanishes ==
  [][lost' > lost \/ \A id \in Present \ Present' : Discarded(id) \/ Replaced(id)]_vars

Neighbours ==
  [p \in DOMAIN Networks |-> [n \in AllNodes[p] |->
     {IpOf(Networks[p], m) : m \in UNION {Range(l) \ {n} : l \in {k \in Networks[p].links : n \in Range(k)}}}]]

SomeWait == \E n \in Nodes : \E ip \in DOMAIN Interface(n).data_mp : ip \in Neighbours[program][n]

\* No datagram waits for ever for a neighbour that is there: unless a frame is
\* lost, the requests are answered and what waits is sent.
WaitingEnds == SomeWait ~> ~SomeWait \/ lost > 0
=============================================================================
