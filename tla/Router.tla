------------------------------- MODULE Router -------------------------------
(***************************************************************************)
(* router.cc and router.hh.  A router is the sequence of its interfaces,   *)
(* whose indices are those of the code plus one, and for every length of a *)
(* prefix a map from prefixes to the next hop, if there is one, and the    *)
(* number of an interface.                                                 *)
(***************************************************************************)
EXTENDS NetworkInterface

NoHop == <<>>

\* The constructor, and add_interface.
NewRouter == [interfaces |-> <<>>, route_mps |-> [len \in 0 .. 32 |-> Empty]]

add_interface(router, ifc) == [router EXCEPT !.interfaces = Append(@, ifc)]

\* The first len bits of an address, in its halves: x >> (32 - len) << (32 - len).
Masked(ip, len) ==
  IF len >= 16 THEN <<ip[1], ip[2] - (ip[2] % 2 ^ (32 - len))>>
  ELSE <<ip[1] - (ip[1] % 2 ^ (16 - len)), 0>>

\* add_route shifts by 32 when the length is 0, which C++ leaves undefined: the
\* processor shifts by nothing, the compiler may as well fold to zero.
RealPrefixes(route_prefix, prefix_length) ==
  IF prefix_length = 0 THEN {route_prefix, <<0, 0>>} ELSE {Masked(route_prefix, prefix_length)}

\* What add_route makes of a router.
add_route(router, r) ==
  {[router EXCEPT !.route_mps[r.len] =
      Put(@, prefix, [next_hop |-> r.next_hop, interface |-> r.interface])] :
     prefix \in RealPrefixes(r.prefix, r.len)}

\* The lengths of the prefixes of dst that have a route.
Hits(router, dst) == {len \in 0 .. 32 : Masked(dst, len) \in DOMAIN router.route_mps[len]}

\* A mistake: the loop goes up.
Lookup_ShortestFirst(router, dst) ==
  LET hits == Hits(router, dst)
      len  == CHOOSE l \in hits : \A k \in hits : l <= k
  IN  IF hits = {} THEN NoHop ELSE router.route_mps[len][Masked(dst, len)]

\* The loop of route_one_datagram, which goes down from 32 to the first hit.  (It
\* shortens what it has shortened before, which is the same.)
Lookup(router, dst) ==
  LET hits == Hits(router, dst)
      len  == CHOOSE l \in hits : \A k \in hits : l >= k
  IN  IF hits = {} THEN NoHop ELSE router.route_mps[len][Masked(dst, len)]

route_one_datagram(router, dgram) ==
  LET out  == [dgram EXCEPT !.header.ttl = @ - 1]
      r    == Lookup(router, dgram.header.dst)
      hop  == IF r.next_hop = NoHop THEN dgram.header.dst ELSE r.next_hop
  IN  IF dgram.header.ttl <= 1 \/ r = NoHop THEN router
      ELSE [router EXCEPT !.interfaces[r.interface] = send_datagram(@, out, hop)]

\* route: the queues of the interfaces are emptied one after the other.
RECURSIVE RouteFrom(_, _)
RouteFrom(router, i) ==
  IF i > Len(router.interfaces) THEN router
  ELSE LET queue == router.interfaces[i].datagrams_out
           left  == [router EXCEPT !.interfaces[i].datagrams_out = Tail(queue)]
       IN  IF queue = <<>> THEN RouteFrom(router, i + 1)
           ELSE RouteFrom(route_one_datagram(left, Head(queue)), i)

route(router) == RouteFrom(router, 1)
=============================================================================
