-------------------------- MODULE NetworkSimulator --------------------------
(***************************************************************************)
(* The Network of apps/network_simulator.cc: hosts around a router, joined *)
(* by links of two or three interfaces.  Hosts send datagrams at any time, *)
(* not only when the network is idle; the router routes and the frames     *)
(* cross the links in any order; and beyond what the simulator does, a     *)
(* link may lose a frame and the owner of an interface may call its tick.  *)
(***************************************************************************)
EXTENDS Internet

Simulating == program = "simulator"

\* What the constructor of Network builds, and simulate_physical_connections joins.
SimulatorHosts ==
  [applesauce     |-> [ip |-> IP(10, 0, 0, 2), next_hop |-> IP(10, 0, 0, 1)],
   default_router |-> [ip |-> IP(171, 67, 76, 1), next_hop |-> IP(0, 0, 0, 0)],
   cherrypie      |-> [ip |-> IP(192, 168, 0, 2), next_hop |-> IP(192, 168, 0, 1)],
   hs_router      |-> [ip |-> IP(143, 195, 0, 1), next_hop |-> IP(0, 0, 0, 0)],
   dm42           |-> [ip |-> IP(198, 178, 229, 42), next_hop |-> IP(198, 178, 229, 1)],
   dm43           |-> [ip |-> IP(198, 178, 229, 43), next_hop |-> IP(198, 178, 229, 1)]]

SimulatorInterfaces ==
  <<IP(171, 67, 76, 46), IP(10, 0, 0, 1), IP(172, 16, 0, 1), IP(192, 168, 0, 1),
    IP(198, 178, 229, 1), IP(143, 195, 0, 2), IP(128, 30, 76, 255)>>

SimulatorRoutes ==
  <<R(IP(0, 0, 0, 0), 0, IP(171, 67, 76, 1), 1), R(IP(10, 0, 0, 0), 8, NoHop, 2),
    R(IP(172, 16, 0, 0), 16, NoHop, 3), R(IP(192, 168, 0, 0), 24, NoHop, 4),
    R(IP(198, 178, 229, 0), 24, NoHop, 5), R(IP(143, 195, 0, 0), 17, IP(143, 195, 0, 1), 6),
    R(IP(143, 195, 128, 0), 18, IP(143, 195, 0, 1), 6),
    R(IP(143, 195, 192, 0), 19, IP(143, 195, 0, 1), 6),
    R(IP(128, 30, 76, 255), 16, IP(128, 30, 0, 1), 7)>>

SimulatorLinks ==
  {<< <<"router", 1>>, <<"default_router", 0>> >>, << <<"router", 2>>, <<"applesauce", 0>> >>,
   << <<"router", 4>>, <<"cherrypie", 0>> >>, << <<"router", 6>>, <<"hs_router", 0>> >>,
   << <<"router", 5>>, <<"dm42", 0>>, <<"dm43", 0>> >>}

\* The constructor of Host.
NewHost(host) ==
  [interface |-> NewInterface(MacOf(host.ip), host.ip), next_hop |-> host.next_hop,
   expecting |-> EmptyBag]

\* The constructor of Network.
InitNetwork ==
  /\ Simulating
  /\ InitRouters(Net)
  /\ hosts = [h \in DOMAIN Net.hosts |-> NewHost(Net.hosts[h])]
  /\ relay = [up |-> Empty, down |-> Empty, air |-> {}, peers |-> {}]

-----------------------------------------------------------------------------
\* Longest-prefix match as a definition over the calls of add_route: the last call
\* for the longest prefix that dst has.
BestRoute(dst) ==
  LET routes == Net.routes["router"]
      hits   == {i \in DOMAIN routes :
                   Masked(dst, routes[i].len) = Masked(routes[i].prefix, routes[i].len)}
  IN  CHOOSE i \in hits : \A j \in hits \ {i} :
        \/ routes[i].len > routes[j].len
        \/ routes[i].len = routes[j].len /\ i > j

\* The hosts that the scenario expects to receive a datagram for dst.
Receivers(dst) ==
  LET r   == Net.routes["router"][BestRoute(dst)]
      hop == IF r.next_hop = NoHop THEN dst ELSE r.next_hop
  IN  {h \in DOMAIN hosts :
         /\ Net.hosts[h].ip = hop
         /\ \E l \in Net.links : {<<h, 0>>, <<"router", r.interface>>} \subseteq Range(l)}

\* Host::send_to, and the expectation that the scenario adds; the payload tells the
\* datagrams apart.
SendTo(t) ==
  LET host  == hosts[t.from]
      dgram == [header |-> [NewIPv4Header EXCEPT !.src = Net.hosts[t.from].ip, !.dst = t.dst,
                                                 !.ttl = t.ttl, !.len = 21],
                payload |-> <<sent>>]
      mine  == [hosts EXCEPT ![t.from].interface = send_datagram(@, dgram, host.next_hop)]
  IN  /\ Simulating
      /\ sent < MaxSent[program]
      /\ sent' = sent + 1
      /\ hosts' = [h \in DOMAIN hosts |->
                     IF h \in Receivers(t.dst) /\ t.ttl > 1
                     THEN [mine[h] EXCEPT !.expecting =
                             @ (+) SetToBag({[dgram EXCEPT !.header.ttl = @ - 1]})]
                     ELSE mine[h]]
      /\ UNCHANGED <<program, routers, relay, lost, ticks>>
      /\ Remember

\* simulate: the router routes.
CanRoute == Simulating /\ ToRoute("router") # {}

Route ==
  /\ CanRoute
  /\ routers' = [routers EXCEPT !["router"] = route(@)]
  /\ UNCHANGED <<program, hosts, relay, sent, lost, ticks>>
  /\ Remember

\* deliver, for the frames that one node has for another.
RECURSIVE deliver(_, _)
deliver(frames, ifc) ==
  IF frames = <<>> THEN ifc ELSE deliver(Tail(frames), AsyncRecvFrame(ifc, Head(frames)))

\* exchange_frames: every node of a link receives the frames that the others had
\* queued, in the order of the link; what it queues meanwhile stays for the next
\* time.
RECURSIVE ReceiveFrom(_, _, _)
ReceiveFrom(ifc, n, nodes) ==
  IF nodes = <<>> THEN ifc
  ELSE ReceiveFrom(IF Head(nodes) = n THEN ifc ELSE deliver(Interface(Head(nodes)).frames_out, ifc),
                   n, Tail(nodes))

Exchanged(n, link) ==
  LET ifc == Interface(n)
  IN  [ReceiveFrom(ifc, n, link) EXCEPT !.frames_out = Suffix(@, Len(ifc.frames_out))]

ToExchange(link) == Simulating /\ \E i \in DOMAIN link : Interface(link[i]).frames_out # <<>>

exchange_frames(link) ==
  /\ ToExchange(link)
  /\ LET Ifc(n) == Exchanged(n, link) IN Update(Range(link), Ifc)
  /\ UNCHANGED <<program, relay, since, sent, lost, ticks>>

\* A link loses the first frame that a node has queued.
Lose(n) ==
  /\ Simulating
  /\ lost < MaxLost
  /\ Interface(n).frames_out # <<>>
  /\ lost' = lost + 1
  /\ LET Ifc(m) == [Interface(m) EXCEPT !.frames_out = Tail(@)] IN Update({n}, Ifc)
  /\ UNCHANGED <<program, relay, since, sent, ticks>>

\* The owner of an interface calls its tick.
TickOne(n, ms) == Simulating /\ Tick({n}, ms)

\* simulate calls route and exchanges the frames of every link, over and over: no
\* datagram and no frame on a link stays where it is for ever.  Everything else
\* that changes the queues is bounded, so that this is weak fairness of the two.
Routes == Simulating /\ routers' # routers
Exchanges(link) == Simulating /\ \E n \in Range(link) : Interface(n)' # Interface(n)

SimulatorFairness ==
  /\ []<>~CanRoute \/ []<><<Routes>>_vars
  /\ \A link \in Networks["simulator"].links : []<>~ToExchange(link) \/ []<><<Exchanges(link)>>_vars
=============================================================================
