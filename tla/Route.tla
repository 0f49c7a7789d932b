------------------------------- MODULE Route --------------------------------
(***************************************************************************)
(* The IPv4/IPv6 route manager of a datapath (valve_route.py): the RIB of  *)
(* each routed VLAN (vlan.py), the neighbour (next hop) cache with its     *)
(* probes and retries, the FIB rules the manager sends to the switch, and  *)
(* the BGP speaker that feeds the RIB (faucet_bgp.py).                     *)
(*                                                                         *)
(* The switch sends packets to the controller only where its FIB has no    *)
(* rule, but they wait in the event queue: a packet may be handled after   *)
(* the cache, the RIB and the FIB changed.  Handlers run one at a time,    *)
(* but the BGP speaker has a thread of its own: what it computes from the  *)
(* RIB and the cache it sends later, after any of them.                    *)
(* There is a manager for each IP version, with RIBs and caches of its     *)
(* own; this is one of them.  A destination is a prefix or an address,     *)
(* which stands for its own host route.                                    *)
(***************************************************************************)
EXTENDS Integers, FiniteSets, Sequences

CONSTANTS
  Vlan, Ip, Prefix, Mac, Port,
  None,         \* no MAC, no port, no gateway, no VLAN
  NoEntry,      \* an address that is not in the cache
  NoRule, Drop, \* a destination without FIB rule; the blackhole rule
  IPV,          \* 4 or 6
  At,           \* Mac -> the port the host is attached to
  Subnet,       \* Vlan -> the addresses in the subnets of its VIPs
  LinkLocal,    \* the link local addresses
  Router,       \* the VLANs have a router in common
  Claims,       \* <<vlan, ip, mac>>: the hosts that may use an address
  Static,       \* Vlan -> configured routes, <<prefix, gateway>>
  BgpVlan,      \* the VLAN of the BGP speaker
  BgpPaths,     \* <<prefix, next hop>> the peer may announce
  MaxRetries,   \* max_host_fib_retry_count
  MaxPerCycle,  \* max_hosts_per_resolve_cycle
  Limit,        \* proactive_arp_limit, proactive_nd_limit
  \* Bounds of the model: packets sent, events queued, and disturbances: link
  \* flaps, lost connections, VLAN reloads and BGP changes.
  MaxPackets, MaxQueue, MaxChanges

Dst == Prefix \cup Ip

ASSUME RouteAssumption ==
  /\ IPV \in {4, 6}
  /\ At \in [Mac -> Port] /\ Subnet \in [Vlan -> SUBSET Ip]
  /\ \A v, w \in Vlan : v # w => Subnet[v] \cap Subnet[w] = {}
  /\ LinkLocal \subseteq Ip /\ Router \in BOOLEAN
  /\ Claims \subseteq Vlan \X Ip \X Mac
  /\ Static \in [Vlan -> SUBSET (Prefix \X Ip)]
  /\ BgpVlan \in Vlan /\ BgpPaths \subseteq Prefix \X Ip
  /\ MaxRetries \in Nat \ {0} /\ MaxPerCycle \in Nat \ {0} /\ Limit \in Nat
  /\ {MaxPackets, MaxQueue, MaxChanges} \subseteq Nat

ASSUME SymbolAssumption ==
  /\ None \notin Mac \cup Port \cup Ip \cup Vlan
  /\ NoRule \notin Mac \cup {Drop} /\ Drop \notin Mac
  /\ Prefix \cap Ip = {}

VARIABLES
  rib,      \* Vlan -> [routes, gws, known]
  neigh,    \* Vlan -> Ip -> NextHop or NoEntry
  uroute,   \* Vlan -> dyn_unresolved_route_ip_gws
  uhost,    \* Vlan -> dyn_unresolved_host_ip_gws
  bgp,      \* Prefix -> _dp_bgp_rib
  pend,     \* the message the BGP thread has computed and not sent, or None
  fib,      \* Vlan -> Dst -> the rule in the switch
  running,  \* dp.dyn_running
  up,       \* the OpenFlow connection
  inbox,    \* events waiting for their handler
  count,    \* what the bounds of the model count
  late      \* history: the rules, <<vlan, prefix>>, that BGP sent too late

speaker == <<bgp, pend>>
state == <<rib, neigh, uroute, uhost, speaker, fib, running, late>>
vars == <<rib, neigh, uroute, uhost, bgp, pend, fib, running, up, inbox, count, late>>

\* resolve_retries is counted one past the limit: more retries make no
\* difference to nexthop_dead.
NextHop == [eth : Mac \cup {None}, port : Port \cup {None},
            retries : 0..(MaxRetries + 1), fresh : BOOLEAN, due : BOOLEAN]
ASSUME EntryAssumption ==
  /\ NoEntry \notin NextHop
  /\ NoEntry \notin [eth : Mac \cup {None}, tries : 0..(MaxRetries + 1)]

Rib == [routes : [Dst -> Ip \cup {None}], gws : [Ip -> SUBSET Dst],
        known : SUBSET Ip]
Rule == Mac \cup {NoRule, Drop}
Batch == [vlan : Vlan, dst : Prefix, rule : Mac \cup {NoRule}]
ASSUME BatchAssumption == None \notin Batch
\* Packets from hosts, a link flap, the loss and the return of the connection.
PacketKind == {"solicit", "advert", "rs", "ping", "ttl", "traffic", "frame"}
Packet == [kind : PacketKind, vlan : Vlan, src : Ip, mac : Mac, dst : Ip]
Event == Packet \cup [kind : {"flap"}, port : Port]
                \cup [kind : {"disconnect", "connect"}]
Counts == [packets : 0..MaxPackets, changes : 0..MaxChanges]

TypeOK ==
  /\ rib \in [Vlan -> Rib]
  /\ neigh \in [Vlan -> [Ip -> NextHop \cup {NoEntry}]]
  /\ uroute \in [Vlan -> SUBSET Ip] /\ uhost \in [Vlan -> SUBSET Ip]
  /\ bgp \in [Prefix -> Ip \cup {None}] /\ pend \in Batch \cup {None}
  /\ late \subseteq Vlan \X Prefix
  /\ fib \in [Vlan -> [Dst -> Rule]]
  /\ running \in BOOLEAN /\ up \in BOOLEAN
  /\ inbox \in Seq(Event)
  /\ count \in Counts

-----------------------------------------------------------------------------
(***************************************************************************)
(* NextHop: an entry of the neighbour cache.  fresh is age < timeout, due  *)
(* is next_retry_time None or past.                                        *)
(***************************************************************************)

NewHop(eth, port) ==
  [eth |-> eth, port |-> port, retries |-> 0, fresh |-> TRUE,
   due |-> eth # None]

resolution_due(e) == ~(e.eth # None /\ e.fresh) /\ e.due

\* Mutant: a probe short of the limit.
nexthop_dead_Early(e) == e.retries + 1 >= MaxRetries

nexthop_dead(e) == e.retries >= MaxRetries

next_retry(e) ==
  [e EXCEPT !.retries = IF @ > MaxRetries THEN @ ELSE @ + 1, !.due = FALSE]

-----------------------------------------------------------------------------
(***************************************************************************)
(* The RIB of a VLAN.                                                      *)
(***************************************************************************)

\* _update_gw_types: an address whose only route is its own host route is a
\* host; any other address that ever had a route is a gateway.
HostGws(r) == {g \in r.known : r.gws[g] = {g}}
RouteGws(r) == r.known \ HostGws(r)

RibAdd(r, d, g) ==
  [routes |-> [r.routes EXCEPT ![d] = g],
   gws |-> [r.gws EXCEPT ![g] = @ \cup {d}],
   known |-> r.known \cup {g}]

RibDel(r, d) ==
  LET g == r.routes[d] IN
  [routes |-> [r.routes EXCEPT ![d] = None],
   gws |-> [r.gws EXCEPT ![g] = @ \ {d}],
   known |-> r.known \cup {g}]

\* A new VLAN object: the routes of its configuration.
StaticRib(v) ==
  [routes |-> [d \in Dst |-> IF \E g \in Ip : <<d, g>> \in Static[v]
                             THEN CHOOSE g \in Ip : <<d, g>> \in Static[v]
                             ELSE None],
   gws |-> [g \in Ip |-> {d \in Prefix : <<d, g>> \in Static[v]}],
   known |-> {g \in Ip : \E d \in Prefix : <<d, g>> \in Static[v]}]

\* The VLAN in whose subnet an address is, and the VLANs a route is in.
vip_map(ip) ==
  IF \E v \in Vlan : ip \in Subnet[v]
  THEN CHOOSE v \in Vlan : ip \in Subnet[v] ELSE None
router_vlan_for_ip_gw(v, ip) ==
  IF Router THEN vip_map(ip) ELSE IF ip \in Subnet[v] THEN v ELSE None
_routed_vlans(v) == IF Router THEN Vlan ELSE {v}

-----------------------------------------------------------------------------
(***************************************************************************)
(* A handler works on S: the RIBs and caches, and the rules it deletes and *)
(* adds.  A batch is reordered before it is sent (valve_of.py), deletes    *)
(* first, and the last of two adds of the same rule stays.                 *)
(***************************************************************************)

Begin ==
  [rib |-> rib, neigh |-> neigh, del |-> [v \in Vlan |-> {}],
   add |-> [v \in Vlan |-> [d \in Dst |-> NoRule]]]

\* The FIB after the batch of S.
Sent(S, f) ==
  [v \in Vlan |-> [d \in Dst |->
     IF S.add[v][d] # NoRule THEN S.add[v][d]
     ELSE IF d \in S.del[v] THEN NoRule ELSE f[v][d]]]

DelFlows(S, w, D) ==
  [S EXCEPT !.del = [v \in Vlan |->
     IF v \in _routed_vlans(w) THEN @[v] \cup D ELSE @[v]]]

AddFlows(S, w, D, rule) ==
  [S EXCEPT !.add = [v \in Vlan |-> [d \in Dst |->
     IF v \in _routed_vlans(w) /\ d \in D THEN rule ELSE @[v][d]]]]

CachedEth(S, w, ip) ==
  IF S.neigh[w][ip] = NoEntry THEN None ELSE S.neigh[w][ip].eth

SetHop(S, w, ip, e) == [S EXCEPT !.neigh[w][ip] = e]

add_route(S, v, g, d) ==
  LET w == router_vlan_for_ip_gw(v, g)
      T == [S EXCEPT !.rib[w] = RibAdd(@, d, g)]
  IN IF w = None THEN S
     ELSE IF S.rib[w].routes[d] = g THEN S
     ELSE IF CachedEth(S, w, g) # None
          THEN AddFlows(T, w, {d}, CachedEth(S, w, g)) ELSE T

del_route(S, v, d) ==
  IF S.rib[v].routes[d] = None THEN S
  ELSE DelFlows([S EXCEPT !.rib[v] = RibDel(@, d)], v, {d})

_add_host_fib_route(S, v, ip, blackhole) ==
  add_route(IF blackhole THEN AddFlows(S, v, {ip}, Drop) ELSE S, v, ip, ip)

\* Mutant: a host that changed its MAC keeps its rules.
_update_nexthop_FirstOnly(S, w, mac, ip) ==
  SetHop(IF CachedEth(S, w, ip) = None
         THEN AddFlows(S, w, S.rib[w].gws[ip], mac) ELSE S,
         w, ip, NewHop(mac, At[mac]))

_update_nexthop(S, w, mac, ip) ==
  LET old == CachedEth(S, w, ip)
      D == S.rib[w].gws[ip]
      T == IF old = mac THEN S
           ELSE AddFlows(IF old # None THEN DelFlows(S, w, D) ELSE S, w, D, mac)
  IN SetHop(T, w, ip, NewHop(mac, At[mac]))

_stateful_gw(S, w, ip) == ip \notin LinkLocal \/ S.rib[w].gws[ip] # {}

\* add_host_fib_route_from_pkt, for a packet that is an IP packet.
LearnSource(S, p) ==
  IF p.src \in Subnet[p.vlan] /\ _stateful_gw(S, p.vlan, p.src)
  THEN _update_nexthop(_add_host_fib_route(S, p.vlan, p.src, FALSE),
                       p.vlan, p.mac, p.src)
  ELSE S

\* _expire_nexthops of the addresses E[w] of each VLAN.  An entry that was
\* never resolved has no port: its rules are left alone.
ExpireHops(S, E) ==
  LET hosts(w) == {ip \in E[w] : S.rib[w].routes[ip] # None}
      gone(w) == {d \in Dst : \E ip \in E[w] :
                    /\ S.neigh[w][ip].port # None
                    /\ d \in S.rib[w].gws[ip] \cup ({ip} \cap hosts(w))}
  IN [S EXCEPT
        !.rib = [w \in Vlan |->
           [routes |-> [d \in Dst |-> IF d \in hosts(w) THEN None
                                      ELSE @[w].routes[d]],
            gws |-> [g \in Ip |-> IF g \in hosts(w) THEN @[w].gws[g] \ {g}
                                  ELSE @[w].gws[g]],
            known |-> @[w].known \cup hosts(w)]],
        !.neigh = [w \in Vlan |-> [ip \in Ip |->
           IF ip \in E[w] THEN NoEntry ELSE @[w][ip]]],
        !.del = [v \in Vlan |->
           @[v] \cup UNION {gone(w) : w \in {x \in Vlan : v \in _routed_vlans(x)}}]]

Hops(S, w) == {ip \in Ip : S.neigh[w][ip] # NoEntry}

\* An address of a static route need not be in a subnet of the VLAN.
CanProbe(w, ip) == ip \in Subnet[w]

_resolve_gateway_flows(S, X) ==
  [S EXCEPT !.neigh = [w \in Vlan |-> [ip \in Ip |->
     IF ip \in X[w] /\ CanProbe(w, ip) THEN next_retry(@[w][ip])
     ELSE @[w][ip]]]]

\* Mutant: an entry that has no port is not expired.
_resolve_expire_gateway_flows_Ports(S, X) ==
  LET dead == [w \in Vlan |-> {ip \in X[w] : /\ nexthop_dead(S.neigh[w][ip])
                                            /\ S.neigh[w][ip].port # None}]
  IN ExpireHops(_resolve_gateway_flows(S, [w \in Vlan |-> X[w] \ dead[w]]), dead)

\* The entries that are dead are expired, the others are probed.
_resolve_expire_gateway_flows(S, X) ==
  LET dead == [w \in Vlan |-> {ip \in X[w] : nexthop_dead(S.neigh[w][ip])}]
  IN ExpireHops(_resolve_gateway_flows(S, [w \in Vlan |-> X[w] \ dead[w]]), dead)

-----------------------------------------------------------------------------
(***************************************************************************)
(* A resolution cycle: all VLANs, the addresses of G(w), fewest retries    *)
(* first, until MaxPerCycle of them had something sent.                    *)
(***************************************************************************)

DueHops(S, w, G) ==
  {ip \in G \cap Hops(S, w) : resolution_due(S.neigh[w][ip])}

\* The addresses a cycle gets to: shuffled among equal retries.
Turn(S, w, D, X, sends) ==
  LET r(ip) == S.neigh[w][ip].retries IN
  /\ \A x \in X, y \in D \ X : r(x) <= r(y)
  /\ Cardinality(X \cap sends) <= MaxPerCycle
  /\ X = D \/ /\ Cardinality(X \cap sends) = MaxPerCycle
              /\ \E x \in X \cap sends : \A y \in X : r(y) <= r(x)

\* _vlan_unresolved_nexthops caches the addresses that are not in the cache,
\* unresolved; they are not due before the clock has moved.
Missing(S, w, G) == G \ Hops(S, w)
WithMissing(S, G) ==
  [S EXCEPT !.neigh = [w \in Vlan |-> [ip \in Ip |->
     IF ip \in Missing(S, w, G[w]) THEN NewHop(None, None) ELSE @[w][ip]]]]

\* What a handler leaves behind: its state, and its batch sent.
Commit(result) ==
  \E S \in {result} :
    /\ rib' = S.rib /\ neigh' = S.neigh
    /\ fib' = IF running THEN Sent(S, fib) ELSE fib
    /\ late' = {x \in late : S.add[x[1]][x[2]] = NoRule /\ x[2] \notin S.del[x[1]]}

\* Valve.resolve_gateways: the gateways are probed, however often.
ResolveGateways ==
  LET G == [w \in Vlan |-> RouteGws(rib[w])] IN
  /\ running
  /\ uroute' = [w \in Vlan |->
                  DueHops(Begin, w, G[w]) \cup Missing(Begin, w, G[w])]
  /\ \E D \in {[w \in Vlan |-> DueHops(Begin, w, G[w])]} :
     \E X \in [Vlan -> SUBSET UNION {D[w] : w \in Vlan}] :
       /\ \A w \in Vlan : /\ X[w] \subseteq D[w]
                          /\ Turn(Begin, w, D[w], X[w], Subnet[w])
       /\ Commit(_resolve_gateway_flows(WithMissing(Begin, G), X))
  /\ UNCHANGED <<uhost, speaker, running, up, inbox, count>>

\* Valve.state_expire: the hosts are probed until they are dead.
StateExpire ==
  LET G == [w \in Vlan |-> HostGws(rib[w])]
      sends(w, D) == {ip \in D : IF nexthop_dead(neigh[w][ip])
                                 THEN neigh[w][ip].port # None
                                 ELSE CanProbe(w, ip)}
  IN /\ running
     /\ uhost' = [w \in Vlan |->
                    DueHops(Begin, w, G[w]) \cup Missing(Begin, w, G[w])]
     /\ \E D \in {[w \in Vlan |-> DueHops(Begin, w, G[w])]} :
        \E X \in [Vlan -> SUBSET UNION {D[w] : w \in Vlan}] :
          /\ \A w \in Vlan : /\ X[w] \subseteq D[w]
                             /\ Turn(Begin, w, D[w], X[w], sends(w, D[w]))
          /\ \E S \in {WithMissing(Begin, G)} :
               Commit(_resolve_expire_gateway_flows(S, X))
     /\ UNCHANGED <<uroute, speaker, running, up, inbox, count>>

-----------------------------------------------------------------------------
(***************************************************************************)
(* Packets.  A packet the control plane has nothing to send for lets the   *)
(* resolver take one address off each list.                                *)
(***************************************************************************)

Only(w, x) == [v \in Vlan |-> IF v = w THEN {x} ELSE {}]

\* resolve_gateways and resolve_expire_hosts with resolve_all=False, on the
\* addresses x and y (None: the list is empty).
ResolveOne(S, w, x, y) ==
  LET T == IF x \in DueHops(S, w, Ip)
           THEN _resolve_gateway_flows(S, Only(w, x)) ELSE S
  IN IF y \in DueHops(T, w, Ip)
     THEN _resolve_expire_gateway_flows(T, Only(w, y)) ELSE T

RunResolver(S, w) ==
  \E x \in IF uroute[w] = {} THEN {None} ELSE uroute[w],
     y \in IF uhost[w] = {} THEN {None} ELSE uhost[w] :
    /\ Commit(ResolveOne(S, w, x, y))
    /\ uroute' = [uroute EXCEPT ![w] = @ \ {x}]
    /\ uhost' = [uhost EXCEPT ![w] = @ \ {y}]

Done(S) == Commit(S) /\ UNCHANGED <<uroute, uhost>>

\* _resolve_vip_response: an ARP request or ND solicitation for the VIP.
Solicit(p) ==
  IF p.src \in Subnet[p.vlan]
  THEN Done(IF _stateful_gw(Begin, p.vlan, p.src) THEN LearnSource(Begin, p)
            ELSE Begin)
  ELSE RunResolver(Begin, p.vlan)

\* _gw_advert: the answer to a probe.  There is nothing to send if the MAC did
\* not change, or nothing is routed through the address.
_gw_advert(p) ==
  IF p.src \in Subnet[p.vlan] /\ _stateful_gw(Begin, p.vlan, p.src)
  THEN _update_nexthop(Begin, p.vlan, p.mac, p.src) ELSE Begin

Quiet(S) == S.add = Begin.add

\* An echo request to the VIP, from a host that may not have asked for its MAC.
Ping(p) ==
  IF p.src \in Subnet[p.vlan]
  THEN Done(IF CachedEth(Begin, p.vlan, p.src) = None
            THEN LearnSource(Begin, p) ELSE Begin)
  ELSE RunResolver(LearnSource(Begin, p), p.vlan)

\* _proactive_resolve_neighbor: routed traffic to an address without a rule.
Proactive(p) ==
  LET w == router_vlan_for_ip_gw(p.vlan, p.dst)
      S == LearnSource(Begin, p)
      T == SetHop(_add_host_fib_route(S, w, p.dst, TRUE), w, p.dst,
                  NewHop(None, None))
  IN IF p.dst \in HostGws(S.rib[w]) THEN T
     ELSE _resolve_gateway_flows(T, Only(w, p.dst))

Traffic(p) ==
  LET w == router_vlan_for_ip_gw(p.vlan, p.dst) IN
  IF w # None /\ _stateful_gw(Begin, w, p.dst)
     /\ Cardinality(Hops(Begin, w)) < Limit
  THEN Done(Proactive(p))
  ELSE RunResolver(LearnSource(Begin, p), p.vlan)

\* A packet whose TTL expired is answered or dropped: either way the resolver
\* does not run.
_control_plane_time_exceeded_handler(p) == p.kind = "ttl" /\ Done(Begin)

\* An ARP packet is no IP packet: nothing is learned from it but the MAC.
_control_plane_arp_handler(p) ==
  \/ p.kind = "solicit" /\ Solicit(p)
  \/ /\ p.kind = "advert"
     /\ LET S == _gw_advert(p)
        IN IF Quiet(S) THEN RunResolver(S, p.vlan) ELSE Done(S)

\* A router solicitation is answered by a link local VIP.
_router_solicit_handler(p) ==
  IF p.src \in Subnet[p.vlan] \cap LinkLocal
  THEN Done(Begin) ELSE RunResolver(LearnSource(Begin, p), p.vlan)

_control_plane_icmpv6_handler(p) ==
  \/ p.kind = "solicit" /\ Solicit(p)
  \/ /\ p.kind = "advert"
     /\ LET S == _gw_advert(p)
        IN IF Quiet(S) THEN RunResolver(LearnSource(S, p), p.vlan) ELSE Done(S)
  \/ p.kind = "rs" /\ _router_solicit_handler(p)
  \/ p.kind = "ping" /\ Ping(p)

ValveIPv4RouteManager_control_plane_handler(p) ==
  \/ _control_plane_arp_handler(p)
  \/ _control_plane_time_exceeded_handler(p)
  \/ p.kind = "ping" /\ Ping(p)
  \/ p.kind = "traffic" /\ Traffic(p)

ValveIPv6RouteManager_control_plane_handler(p) ==
  \/ _control_plane_icmpv6_handler(p)
  \/ _control_plane_time_exceeded_handler(p)
  \/ p.kind = "traffic" /\ Traffic(p)

\* An IP packet that is not for the router ("frame") is seen as it is flooded.
router_rcv_packet(p) ==
  \/ p.kind = "frame" /\ RunResolver(LearnSource(Begin, p), p.vlan)
  \/ IPV = 4 /\ ValveIPv4RouteManager_control_plane_handler(p)
  \/ IPV = 6 /\ ValveIPv6RouteManager_control_plane_handler(p)

-----------------------------------------------------------------------------
(***************************************************************************)
(* Events of the switch, in the order it sent them.                        *)
(***************************************************************************)

OnPort(P) ==
  [w \in Vlan |-> {ip \in Hops(Begin, w) : neigh[w][ip].port \in P}]

\* A port goes down and comes back: its neighbours are forgotten.
Flap(P) == Done(ExpireHops(Begin, OnPort(P))) /\ UNCHANGED <<speaker, running>>

\* datapath_disconnect deletes every port; what that would send is dropped.
Disconnect ==
  LET S == ExpireHops(Begin, OnPort(Port)) IN
  /\ rib' = S.rib /\ neigh' = S.neigh
  /\ running' = FALSE
  /\ UNCHANGED <<uroute, uhost, speaker, fib, late>>

\* datapath_connect: the tables start empty, and so do the caches, but the RIB
\* is kept.
Connect ==
  /\ neigh' = [w \in Vlan |-> [ip \in Ip |-> NoEntry]]
  /\ uroute' = [w \in Vlan |-> {}] /\ uhost' = [w \in Vlan |-> {}]
  /\ fib' = [v \in Vlan |-> [d \in Dst |-> NoRule]]
  /\ running' = TRUE /\ late' = {}
  /\ UNCHANGED <<rib, speaker>>

\* A packet of a datapath that is not running is dropped.  Others that are
\* dropped (of a VLAN or source that is not valid) reach no route manager.
parse_pkt_meta == running

valve_packet_in(p) ==
  \/ parse_pkt_meta /\ router_rcv_packet(p) /\ UNCHANGED <<speaker, running>>
  \/ ~parse_pkt_meta /\ UNCHANGED state

Handle(e) ==
  \/ e.kind \in PacketKind /\ valve_packet_in(e)
  \/ e.kind = "flap" /\ ~running /\ UNCHANGED state
  \/ e.kind = "flap" /\ running /\ Flap({e.port})
  \/ e.kind = "disconnect" /\ Disconnect
  \/ e.kind = "connect" /\ Connect

NextEvent ==
  /\ inbox # <<>>
  /\ Handle(Head(inbox))
  /\ inbox' = Tail(inbox)
  /\ UNCHANGED <<up, count>>

-----------------------------------------------------------------------------
(***************************************************************************)
(* The switch and its hosts.                                               *)
(***************************************************************************)

Post(e) ==
  /\ Len(inbox) < MaxQueue
  /\ inbox' = Append(inbox, e)
  /\ UNCHANGED state

\* Routed traffic comes to the controller where the FIB has no rule for it.
HostSends(k, c, d) ==
  /\ up /\ count.packets < MaxPackets
  /\ k = "traffic" => fib[c[1]][d] = NoRule /\ d # c[2]
  /\ k # "traffic" => d = c[2]
  /\ k = "rs" => IPV = 6
  /\ Post([kind |-> k, vlan |-> c[1], src |-> c[2], mac |-> c[3], dst |-> d])
  /\ count' = [count EXCEPT !.packets = @ + 1]
  /\ UNCHANGED up

PortFlaps(p) ==
  /\ up /\ count.changes < MaxChanges
  /\ Post([kind |-> "flap", port |-> p])
  /\ count' = [count EXCEPT !.changes = @ + 1]
  /\ UNCHANGED up

LoseConnection ==
  /\ up /\ count.changes < MaxChanges
  /\ Post([kind |-> "disconnect"])
  /\ up' = FALSE
  /\ count' = [count EXCEPT !.changes = @ + 1]

Reconnect ==
  /\ ~up
  /\ Post([kind |-> "connect"])
  /\ up' = TRUE
  /\ UNCHANGED count

\* Blackhole rules have a hard timeout, one for the rules of an address in
\* all the VLANs, which were sent together.
BlackholeEnds(d) ==
  /\ \E v \in Vlan : fib[v][d] = Drop
  /\ fib' = [v \in Vlan |-> [fib[v] EXCEPT ![d] = IF @ = Drop THEN NoRule ELSE @]]
  /\ UNCHANGED <<rib, neigh, uroute, uhost, speaker, running, up, inbox, count, late>>

\* Time: a resolved entry reaches neighbor_timeout; a retry is due.
Age(w, ip) ==
  /\ neigh[w][ip] # NoEntry
  /\ neigh[w][ip].eth # None /\ neigh[w][ip].fresh
  /\ neigh' = [neigh EXCEPT ![w][ip].fresh = FALSE]
  /\ UNCHANGED <<rib, uroute, uhost, speaker, fib, running, up, inbox, count, late>>

RetryDue(w, ip) ==
  /\ neigh[w][ip] # NoEntry /\ ~neigh[w][ip].due
  /\ neigh' = [neigh EXCEPT ![w][ip].due = TRUE]
  /\ UNCHANGED <<rib, uroute, uhost, speaker, fib, running, up, inbox, count, late>>

-----------------------------------------------------------------------------
(***************************************************************************)
(* BGP and the configuration.                                              *)
(***************************************************************************)

\* The BGP thread is done with the RIB; a message of S for the destination p
\* of VLAN w is left to send.
Computed(S, w, p) ==
  /\ rib' = S.rib
  /\ pend' = IF S.add[w][p] = NoRule /\ p \notin S.del[w] THEN None
             ELSE [vlan |-> w, dst |-> p, rule |-> S.add[w][p]]
  /\ UNCHANGED <<neigh, uroute, uhost, fib, running, up, inbox, late>>

\* _bgp_route_handler: the next hop must be in a routed subnet.  The MAC of
\* the rule is the one that is cached now.
Announce(p, g) ==
  /\ pend = None /\ count.changes < MaxChanges
  /\ router_vlan_for_ip_gw(BgpVlan, g) # None
  /\ bgp' = [bgp EXCEPT ![p] = g]
  /\ Computed(add_route(Begin, BgpVlan, g, p), router_vlan_for_ip_gw(BgpVlan, g), p)
  /\ count' = [count EXCEPT !.changes = @ + 1]

\* The route is looked for in the RIB of the speaker's VLAN.
Withdraw(p) ==
  /\ pend = None /\ bgp[p] # None
  /\ bgp' = [bgp EXCEPT ![p] = None]
  /\ Computed(del_route(Begin, BgpVlan, p), BgpVlan, p)
  /\ UNCHANGED count

\* The rules the pending message writes or deletes, and those of them that the
\* RIB and the cache want otherwise by now.
PendingRules ==
  IF pend = None THEN {} ELSE {<<v, pend.dst>> : v \in _routed_vlans(pend.vlan)}
Overtaken ==
  {x \in PendingRules : \E w \in Vlan, ip \in Ip :
     /\ x[1] \in _routed_vlans(w) /\ rib[w].routes[x[2]] = ip
     /\ CachedEth(Begin, w, ip) \notin {None, pend.rule}}

\* _send_flow_msgs of the BGP thread: whatever happened since, or nothing if
\* the datapath is not connected.
BgpSends ==
  /\ pend # None /\ pend' = None
  /\ IF running
     THEN /\ fib' = [v \in Vlan |-> [d \in Dst |->
                       IF <<v, d>> \in PendingRules THEN pend.rule ELSE fib[v][d]]]
          /\ late' = (late \ PendingRules) \cup Overtaken
     ELSE UNCHANGED <<fib, late>>
  /\ UNCHANGED <<rib, neigh, uroute, uhost, bgp, running, up, inbox, count>>

\* FaucetBgp.reset adds the routes of the speaker again.  The next hops are
\* unresolved then, so that this sends nothing.
ReAdd(S, P) ==
  LET w(p) == router_vlan_for_ip_gw(BgpVlan, bgp[p])
      new == {p \in P : bgp[p] # None /\ w(p) # None
                        /\ S.rib[w(p)].routes[p] # bgp[p]}
      to(v) == {p \in new : w(p) = v}
  IN [v \in Vlan |->
        [routes |-> [d \in Dst |-> IF d \in to(v) THEN bgp[d]
                                   ELSE S.rib[v].routes[d]],
         gws |-> [g \in Ip |-> S.rib[v].gws[g] \cup {p \in to(v) : bgp[p] = g}],
         known |-> S.rib[v].known \cup {bgp[p] : p \in to(v)}]]

\* A reload that changes VLAN c: its rules and its subnets' are deleted, it
\* starts with a new object, the neighbours of the VLANs routed with it are
\* expired.  del_vlan expires the neighbours of c itself, but what that would
\* send is dropped.
ReloadVlan(c) ==
  LET others == [w \in Vlan |-> IF w # c /\ w \in _routed_vlans(c)
                                THEN Hops(Begin, w) ELSE {}]
      S == ExpireHops(DelFlows(Begin, c, Subnet[c]), others)
      T == [S EXCEPT !.rib[c] = StaticRib(c),
                     !.neigh[c] = [ip \in Ip |-> NoEntry],
                     !.del[c] = Dst]
  IN /\ count.changes < MaxChanges
     /\ Commit([T EXCEPT !.rib = ReAdd(T, Prefix)])
     /\ uroute' = [uroute EXCEPT ![c] = {}]
     /\ uhost' = [uhost EXCEPT ![c] = {}]
     /\ count' = [count EXCEPT !.changes = @ + 1]
     /\ UNCHANGED <<speaker, running, up, inbox>>

-----------------------------------------------------------------------------

Init ==
  /\ rib = [v \in Vlan |-> StaticRib(v)]
  /\ neigh = [v \in Vlan |-> [ip \in Ip |-> NoEntry]]
  /\ uroute = [v \in Vlan |-> {}] /\ uhost = [v \in Vlan |-> {}]
  /\ bgp = [p \in Prefix |-> None] /\ pend = None /\ late = {}
  /\ fib = [v \in Vlan |-> [d \in Dst |-> NoRule]]
  /\ running = TRUE /\ up = TRUE
  /\ inbox = <<>>
  /\ count = [packets |-> 0, changes |-> 0]

Next ==
  \/ ResolveGateways \/ StateExpire \/ NextEvent
  \/ \E k \in PacketKind, c \in Claims, d \in Ip : HostSends(k, c, d)
  \/ \E p \in Port : PortFlaps(p)
  \/ LoseConnection \/ Reconnect
  \/ \E d \in Dst : BlackholeEnds(d)
  \/ \E w \in Vlan, ip \in Ip : Age(w, ip) \/ RetryDue(w, ip)
  \/ \E b \in BgpPaths : Announce(b[1], b[2])
  \/ \E p \in Prefix : Withdraw(p)
  \/ BgpSends
  \/ \E c \in Vlan : ReloadVlan(c)

Spec == Init /\ [][Next]_vars

\* An address with a host route whose MAC is not known.
UnresolvedHost(w, ip) ==
  /\ running /\ ip \in HostGws(rib[w])
  /\ neigh[w][ip] = NoEntry \/ neigh[w][ip].eth = None

\* The timers of the application run and time passes.  Of the resolution cycle
\* that is assumed only while it has a host to resolve.
FairSpec ==
  /\ Spec
  /\ WF_vars((\E w \in Vlan, ip \in Ip : UnresolvedHost(w, ip)) /\ StateExpire)
  /\ \A w \in Vlan : \A ip \in Subnet[w] : WF_vars(RetryDue(w, ip))

-----------------------------------------------------------------------------
(***************************************************************************)
(* Properties.                                                             *)
(***************************************************************************)

\* "Only one route with this exact destination is supported" (del_route): the
\* VLANs that are routed together have at most one gateway for a prefix, in the
\* configuration and by BGP.  The VLAN of a path is the one whose RIB it is in.
PathIn(v, p, g) ==
  \/ <<p, g>> \in Static[v]
  \/ <<p, g>> \in BgpPaths /\ v = router_vlan_for_ip_gw(BgpVlan, g)
OneRouteEach ==
  \A v, w \in Vlan, p \in Prefix, g, h \in Ip :
    w \in _routed_vlans(v) /\ PathIn(v, p, g) /\ PathIn(w, p, h)
      => v = w /\ g = h

\* What the RIB routes through a resolved neighbour the switch forwards to it:
\* the caches and the FIB do not drift apart, whatever was in the event queue,
\* restarted, reloaded or re-added by BGP, so that the manager may send nothing
\* when a MAC did not change (_update_nexthop).  Excepted is a rule whose BGP
\* message is still to be sent, or was sent after a handler had changed the MAC
\* or the route it was computed from; that one stays wrong until the manager
\* next writes it (_bgp_route_handler).
ResolvedIsInstalled ==
  running => \A w \in Vlan, ip \in Ip, d \in Dst :
    neigh[w][ip] # NoEntry /\ neigh[w][ip].eth # None /\ rib[w].routes[d] = ip
      => \A v \in _routed_vlans(w) :
           <<v, d>> \notin late \cup PendingRules => fib[v][d] = neigh[w][ip].eth

\* A host that does not answer is given up: again and again there is no host
\* route that is unresolved.  A cycle has time for MaxPerCycle addresses of a
\* VLAN only, and one may wait while another is probed, but each of those in
\* front of it answers or is given up in its turn (resolve_expire_hosts).  Of
\* packets that start a resolution again there are finitely many.
HostsSettle ==
  []<>(\A w \in Vlan : \A ip \in Subnet[w] : ~UnresolvedHost(w, ip))

\* The neighbour cache of all VLANs, seen from outside.
N == INSTANCE Neighbor WITH
       Key <- Vlan \X Ip, Gone <- NoEntry,
       conf <- <<running, count.changes>>,
       nb <- [k \in Vlan \X Ip |->
                IF neigh[k[1]][k[2]] = NoEntry THEN NoEntry
                ELSE [eth |-> neigh[k[1]][k[2]].eth,
                      tries |-> neigh[k[1]][k[2]].retries]]

\* The route manager implements the neighbour cache: stale packets, resolver
\* turns and expiry cycles in any order never drop an unresolved address before
\* it was probed max_host_fib_retry_count times, nor forget to start over when
\* it answered (_resolve_expire_gateway_flows, _update_nexthop_cache).
ImplementsNeighbor == N!NSpec
=============================================================================
