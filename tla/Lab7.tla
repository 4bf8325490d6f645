-------------------------------- MODULE Lab7 --------------------------------
(***************************************************************************)
(* apps/lab7.cc and apps/bouncer.cc: a client and a server, each with a    *)
(* host, whose TCP socket reads and writes segments through a              *)
(* NetworkInterfaceAdapter, and a router of its own.  A socket pair joins  *)
(* host and router, and the bouncer passes what one router sends over UDP  *)
(* on to the other.  The TCP thread and the network thread of each program *)
(* and the bouncer run side by side; UDP may lose and reorder.  The TCP    *)
(* connection is reduced to the segments that it may write.                *)
(*                                                                         *)
(* relay.up and relay.down are the two directions of the socket pairs,     *)
(* relay.air the datagrams between the programs and the bouncer, where two *)
(* that are equal count as one, and relay.peers is whose address the       *)
(* bouncer has learnt.  NetworkInterfaceAdapter has the code of the        *)
(* Ethernet adapter.                                                       *)
(***************************************************************************)
EXTENDS Internet

RunningLab7 == program = "lab7"
Ends == {"client", "server"}
Other(p) == IF p = "client" THEN "server" ELSE "client"

host_side == 1
internet_side == 2

Lab7Hosts ==
  [client |-> [ip |-> IP(192, 168, 0, 50), next_hop |-> IP(192, 168, 0, 1)],
   server |-> [ip |-> IP(172, 16, 0, 100), next_hop |-> IP(172, 16, 0, 1)]]

Lab7Interfaces ==
  [client |-> <<IP(192, 168, 0, 1), IP(10, 0, 0, 192)>>,
   server |-> <<IP(172, 16, 0, 1), IP(10, 0, 0, 172)>>]

Lab7Routes ==
  [client |-> <<R(IP(192, 168, 0, 0), 16, NoHop, host_side),
                R(IP(10, 0, 0, 0), 8, NoHop, internet_side),
                R(IP(172, 16, 0, 0), 12, IP(10, 0, 0, 172), internet_side)>>,
   server |-> <<R(IP(172, 16, 0, 0), 12, NoHop, host_side),
                R(IP(10, 0, 0, 0), 8, NoHop, internet_side),
                R(IP(192, 168, 0, 0), 16, IP(10, 0, 0, 192), internet_side)>>]

Lab7Links ==
  {<< <<p, host_side>>, <<p, 0>> >> : p \in Ends}
    \cup {<< <<"client", internet_side>>, <<"server", internet_side>> >>}

\* The socket of either program after connect, and after bind and listen_and_accept.
Listening == [client |-> FALSE, server |-> TRUE]
LocalPort == [client |-> 999, server |-> 1234]

LocalAddress(p) == [ip |-> Net.hosts[p].ip, port |-> LocalPort[p]]

TCPSocketLab7(p) ==
  NewAdapter(LocalAddress(p),
             IF Listening[p] THEN [ip |-> <<0, 0>>, port |-> 0] ELSE LocalAddress(Other(p)),
             Listening[p], NewInterface(MacOf(Net.hosts[p].ip), Net.hosts[p].ip),
             Net.hosts[p].next_hop)
    @@ [expecting |-> EmptyBag, received |-> <<>>]

\* Each program has greeted the bouncer with empty datagrams.
InitLab7 ==
  /\ RunningLab7
  /\ InitRouters(Net)
  /\ hosts = [p \in Ends |-> TCPSocketLab7(p)]
  /\ relay = [up |-> [p \in Ends |-> <<>>], down |-> [p \in Ends |-> <<>>],
              air |-> {[to |-> "bouncer", from |-> p, payload |-> <<>>] : p \in Ends},
              peers |-> {}]

-----------------------------------------------------------------------------
\* A side repeats its SYN until it is acknowledged, and acknowledges what it has.
Isn == [client |-> 100, server |-> 200]

NextSegment(p) ==
  LET got == Range(hosts[p].received)
      syn == ~\E seg \in got : seg.header.ack
  IN  [header  |-> [NewTCPHeader EXCEPT !.syn = syn, !.ack = got # {},
                      !.seqno = <<0, Isn[p] + IF syn THEN 0 ELSE sent>>],
       payload |-> <<>>]

\* The TCP thread writes a segment.
write(p) ==
  LET seg == NextSegment(p)
      w   == EthernetWrite(hosts[p], seg)
  IN  /\ RunningLab7 /\ ~hosts[p].listen
      /\ sent < MaxSent[program]
      /\ sent' = sent + 1
      /\ hosts' = [hosts EXCEPT ![p] = w.adapter,
                                ![Other(p)].expecting = @ (+) SetToBag({WithPorts(hosts[p], seg)})]
      /\ relay' = [relay EXCEPT !.up[p] = @ \o w.out]
      /\ UNCHANGED <<program, routers, lost, ticks>>
      /\ Remember

\* The TCP thread reads from its end of the socket pair.
read(p) ==
  LET r == EthernetRead(hosts[p], Head(relay.down[p]))
  IN  /\ RunningLab7 /\ relay.down[p] # <<>>
      /\ hosts' = [hosts EXCEPT ![p] = IF r.seg = NoSegment THEN r.adapter
                                       ELSE [r.adapter EXCEPT !.received = Append(@, r.seg)]]
      /\ relay' = [relay EXCEPT !.down[p] = Tail(@), !.up[p] = @ \o r.out]
      /\ UNCHANGED <<program, routers, since, sent, lost, ticks>>

\* The TCP thread lets time pass; the interface never sends anything on its own.
AdapterTick(p, ms) == RunningLab7 /\ Tick({<<p, 0>>}, ms)

-----------------------------------------------------------------------------
\* The network thread.  A mistake: the router is not told to route.
FrameArrives_Unrouted(router, side, frame) ==
  IF frame.res # "NoError" THEN router
  ELSE [router EXCEPT !.interfaces[side] = AsyncRecvFrame(@, frame)]

\* A frame arrives at one side of the router.
FrameArrives(router, side, frame) ==
  IF frame.res # "NoError" THEN router
  ELSE route([router EXCEPT !.interfaces[side] = AsyncRecvFrame(@, frame)])

\* Frames from host to router
host_to_router(p) ==
  /\ RunningLab7 /\ relay.up[p] # <<>>
  /\ routers' = [routers EXCEPT ![p] = FrameArrives(@, host_side, ParseFrame(Head(relay.up[p])))]
  /\ relay' = [relay EXCEPT !.up[p] = Tail(@)]
  /\ UNCHANGED <<program, hosts, sent, lost, ticks>>
  /\ Remember

\* Frames from router to host
FramesOut(p, side) == routers[p].interfaces[side].frames_out

router_to_host(p) ==
  /\ RunningLab7 /\ FramesOut(p, host_side) # <<>>
  /\ relay' = [relay EXCEPT !.down[p] = Append(@, SerializeFrame(Head(FramesOut(p, host_side))))]
  /\ routers' = [routers EXCEPT ![p].interfaces[host_side].frames_out = Tail(@)]
  /\ UNCHANGED <<program, hosts, since, sent, lost, ticks>>

\* Frames from router to Internet
router_to_internet(p) ==
  /\ RunningLab7 /\ FramesOut(p, internet_side) # <<>>
  /\ relay' = [relay EXCEPT !.air = @ \cup
                 {[to |-> "bouncer", from |-> p,
                   payload |-> SerializeFrame(Head(FramesOut(p, internet_side)))]}]
  /\ routers' = [routers EXCEPT ![p].interfaces[internet_side].frames_out = Tail(@)]
  /\ UNCHANGED <<program, hosts, since, sent, lost, ticks>>

\* Frames from Internet to router
internet_to_router(p) ==
  /\ RunningLab7 /\ \E d \in relay.air : d.to = p
  /\ \E d \in {e \in relay.air : e.to = p} :
       /\ routers' = [routers EXCEPT ![p] = FrameArrives(@, internet_side, ParseFrame(d.payload))]
       /\ relay' = [relay EXCEPT !.air = @ \ {d}]
  /\ UNCHANGED <<program, hosts, sent, lost, ticks>>
  /\ Remember

\* The loop of the network thread lets time pass, for both sides of the router.
RouterTick(p, ms) == RunningLab7 /\ Tick({<<p, host_side>>, <<p, internet_side>>}, ms)

-----------------------------------------------------------------------------
\* The bouncer hears from p: it learns the address of p, and passes on what is not
\* empty when it knows the other side.
bounce(p) ==
  /\ RunningLab7 /\ \E d \in relay.air : d.to = "bouncer" /\ d.from = p
  /\ \E d \in {e \in relay.air : e.to = "bouncer" /\ e.from = p} :
       LET passes == Other(p) \in relay.peers /\ d.payload # <<>>
       IN  /\ relay' = [relay EXCEPT
                          !.peers = @ \cup {p},
                          !.air = (@ \ {d}) \cup
                            (IF passes THEN {[to |-> Other(p), from |-> "bouncer", payload |-> d.payload]}
                             ELSE {})]
           /\ lost' = IF passes \/ d.payload = <<>> THEN lost ELSE lost + 1
  /\ UNCHANGED <<program, routers, hosts, since, sent, ticks>>

\* UDP loses a datagram.
LoseDatagram(d) ==
  /\ RunningLab7
  /\ lost < MaxLost
  /\ lost' = lost + 1
  /\ relay' = [relay EXCEPT !.air = @ \ {d}]
  /\ UNCHANGED <<program, routers, hosts, since, sent, ticks>>

\* How much the rules of the event loops have to take: from the two directions of
\* the socket pair, from the queues of the router, and from UDP.
Pending(p) ==
  <<Len(relay.down[p]), Len(relay.up[p]), Len(FramesOut(p, host_side)),
    Len(FramesOut(p, internet_side)), Cardinality({d \in relay.air : d.to = p}),
    Cardinality({d \in relay.air : d.from = p})>>

HasPending(p, i) == RunningLab7 /\ Pending(p)[i] > 0
TakesPending(p, i) == RunningLab7 /\ Pending(p)[i]' < Pending(p)[i]

\* The event loops of the two threads and of the bouncer leave no descriptor that
\* is ready out, and UDP delivers what it does not lose: what is pending is taken
\* in the end.  Losses are bounded, so that this is weak fairness of the actions
\* that read.
Lab7Fairness ==
  \A p \in Ends, i \in 1 .. 6 : []<>~HasPending(p, i) \/ []<><<TakesPending(p, i)>>_vars

ServerHeard == RunningLab7 /\ hosts["server"].received # <<>>

\* A SYN that the client of lab7 writes gets to the server's TCP, over two routers
\* and the bouncer and past three questions for Ethernet addresses, unless UDP
\* loses something or the bouncer has not heard of the server yet
\* (lab7.cc:163: "let bouncer know where we are").
GetsThrough == RunningLab7 /\ sent > 0 ~> lost > 0 \/ ServerHeard
=============================================================================
