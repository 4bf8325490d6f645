----------------------------- MODULE InternetMC -----------------------------
(***************************************************************************)
(* The two programs side by side.  The traffic of the simulator is that of *)
(* its scenario, with the destinations that lie at the edges of prefixes.  *)
(***************************************************************************)
EXTENDS NetworkSimulator, Lab7

T(from, dst, ttl) == [from |-> from, dst |-> dst, ttl |-> ttl]

SimulatorTraffic ==
  {T("applesauce", IP(192, 168, 0, 2), 64), T("cherrypie", IP(143, 195, 223, 255), 64),
   T("cherrypie", IP(143, 195, 224, 0), 64), T("dm42", IP(198, 178, 229, 43), 64),
   T("applesauce", IP(1, 2, 3, 4), 1), T("applesauce", IP(128, 30, 9, 9), 2)}

MCNetworks ==
  [simulator |-> [hosts |-> SimulatorHosts, interfaces |-> [router |-> SimulatorInterfaces],
                  routes |-> [router |-> SimulatorRoutes], links |-> SimulatorLinks,
                  traffic |-> SimulatorTraffic, id |-> 1],
   lab7      |-> [hosts |-> Lab7Hosts, interfaces |-> Lab7Interfaces, routes |-> Lab7Routes,
                  links |-> Lab7Links, traffic |-> {}, id |-> 8]]

MCMaxSent == [simulator |-> 2, lab7 |-> 2]

\* One millisecond short of the life of a request, then all of it; and the life of
\* a mapping.
MCTickTimes == [simulator |-> {<<4999>>, <<5000>>, <<30000>>},
                lab7      |-> {<<4999, 1>>, <<30000>>}]

Init ==
  /\ InitNetwork \/ InitLab7
  /\ since = [n \in Nodes |-> Empty]
  /\ sent = 0 /\ lost = 0 /\ ticks = <<>>

Next ==
  \/ \E t \in Net.traffic : SendTo(t)
  \/ Route
  \/ \E link \in Net.links : exchange_frames(link)
  \/ \E n \in Nodes : Lose(n)
  \/ \E p \in Ends : write(p)
  \/ \E p \in Ends : read(p)
  \/ \E p \in Ends : host_to_router(p)
  \/ \E p \in Ends : router_to_host(p)
  \/ \E p \in Ends : router_to_internet(p)
  \/ \E p \in Ends : internet_to_router(p)
  \/ \E p \in Ends : bounce(p)
  \/ \E d \in relay.air : LoseDatagram(d)
  \/ \E n \in Nodes, ms \in TickSteps : TickOne(n, ms)
  \/ \E p \in Ends, ms \in TickSteps : AdapterTick(p, ms)
  \/ \E p \in Ends, ms \in TickSteps : RouterTick(p, ms)

Spec == Init /\ [][Next]_vars /\ SimulatorFairness /\ Lab7Fairness
=============================================================================
