----------------------------- MODULE RouteProofs ----------------------------
(***************************************************************************)
(* The route manager implements the neighbour cache, and its rules follow  *)
(* the RIB and the cache, for every set of VLANs, addresses, hosts, routes *)
(* and limits.                                                             *)
(***************************************************************************)
EXTENDS Route, SequenceTheorems, TLAPS

\* An entry has a port if and only if it has a MAC.
Hop == {NoEntry} \cup {e \in NextHop : e.eth = None <=> e.port = None}
Cache == [Vlan -> [Ip -> Hop]]
Fields == {"rib", "neigh", "del", "add"}

\* A packet in the event queue is a packet of some host.
EventsTyped == inbox \in Seq(Event)

\* The connection is lost once the first n events of queue q are handled; r
\* says whether the datapath is running now.
Lost(q, r, n) ==
  \/ \E j \in 1..n : /\ q[j].kind = "disconnect"
                     /\ \A m \in (j + 1)..n : q[m].kind # "connect"
  \/ ~r /\ \A m \in 1..n : q[m].kind # "connect"

\* A connection that comes back was lost, for the controller too when it gets
\* to the event.
ConnectsAlternate ==
  /\ \A i \in 1..Len(inbox) : inbox[i].kind = "connect" => Lost(inbox, running, i - 1)
  /\ ~up => Lost(inbox, running, Len(inbox))

RouteInv ==
  /\ neigh \in Cache /\ EventsTyped /\ ConnectsAlternate
  /\ running \in BOOLEAN /\ up \in BOOLEAN /\ count \in Counts

-----------------------------------------------------------------------------
\* One step of an entry e to f.
HopStep(e, f) ==
  \/ f = e
  \/ e # NoEntry /\ f # NoEntry /\ f.eth = e.eth /\ f.retries = e.retries
  \/ f # NoEntry /\ f.eth \in Mac /\ f.retries = 0
  \/ f # NoEntry /\ f.eth = None /\ f.retries \in {0, 1}
  \/ e # NoEntry /\ f = next_retry(e)
  \/ e # NoEntry /\ e.retries >= MaxRetries /\ f = NoEntry
  \/ e # NoEntry /\ e.eth # None /\ f = NoEntry

\* A handler has taken at most one step with each entry so far, and none that
\* it could probe has it taken a step with.
AtMostOne(e, f) ==
  \/ f = e
  \/ HopStep(e, f) /\ (f = NoEntry \/ ~resolution_due(f))

Settled(S) ==
  /\ DOMAIN S = Fields /\ S.neigh \in Cache
  /\ \A w \in Vlan, ip \in Ip : AtMostOne(neigh[w][ip], S.neigh[w][ip])

LEMMA NewHopType ==
  /\ \A m \in Mac : NewHop(m, At[m]) \in Hop \ {NoEntry} /\ ~resolution_due(NewHop(m, At[m]))
  /\ NewHop(None, None) \in Hop \ {NoEntry} /\ ~resolution_due(NewHop(None, None))
<1>1. ASSUME NEW m \in Mac \cup {None}, NEW q \in Port \cup {None}, m = None <=> q = None
      PROVE  NewHop(m, q) \in Hop \ {NoEntry} /\ ~resolution_due(NewHop(m, q))
  <2> DEFINE h == NewHop(m, q)
  <2>1. 0 \in 0..(MaxRetries + 1) /\ (m # None) \in BOOLEAN
    BY RouteAssumption
  <2>2. h \in NextHop
    BY <2>1 DEF NewHop, NextHop
  <2>3. h.eth = m /\ h.port = q /\ h.fresh = TRUE /\ h.due = (m # None)
    BY DEF NewHop
  <2> HIDE DEF h
  <2>4. h \in Hop \ {NoEntry}
    BY <1>1, <2>2, <2>3, EntryAssumption DEF Hop
  <2>5. ~resolution_due(h)
    BY <2>3 DEF resolution_due
  <2> QED
    BY <2>4, <2>5 DEF h
<1>2. \A m \in Mac : At[m] \in Port /\ m # None /\ At[m] # None
  BY RouteAssumption, SymbolAssumption
<1> QED
  BY <1>1, <1>2

LEMMA NextRetryType ==
  ASSUME NEW e \in Hop, e # NoEntry
  PROVE  next_retry(e) \in Hop \ {NoEntry} /\ ~resolution_due(next_retry(e))
<1>1. e \in NextHop /\ (e.eth = None <=> e.port = None)
  BY DEF Hop
<1>2. next_retry(e) \in NextHop
  <2> DEFINE r == IF e.retries > MaxRetries THEN e.retries ELSE e.retries + 1
  <2>1. r \in 0..(MaxRetries + 1)
    BY <1>1, RouteAssumption DEF NextHop
  <2>2. next_retry(e) = [e EXCEPT !.retries = r, !.due = FALSE]
    BY DEF next_retry
  <2> HIDE DEF r
  <2> QED
    BY <1>1, <2>1, <2>2 DEF NextHop
<1>3. next_retry(e).eth = e.eth /\ next_retry(e).port = e.port /\ next_retry(e).due = FALSE
  BY <1>1 DEF NextHop, next_retry
<1> QED
  BY <1>1, <1>2, <1>3, EntryAssumption DEF Hop, resolution_due

-----------------------------------------------------------------------------
(***************************************************************************)
(* What the parts of a handler do to the cache.                            *)
(***************************************************************************)

LEMMA BeginSettled ==
  ASSUME neigh \in Cache
  PROVE  Settled(Begin) /\ Begin.neigh = neigh
BY DEF Settled, Begin, Fields, AtMostOne

LEMMA DelFlowsKeeps ==
  ASSUME NEW S, DOMAIN S = Fields, NEW w, NEW D
  PROVE  DOMAIN DelFlows(S, w, D) = Fields /\ DelFlows(S, w, D).neigh = S.neigh
BY DEF DelFlows, Fields

LEMMA AddFlowsKeeps ==
  ASSUME NEW S, DOMAIN S = Fields, NEW w, NEW D, NEW rule
  PROVE  DOMAIN AddFlows(S, w, D, rule) = Fields /\ AddFlows(S, w, D, rule).neigh = S.neigh
BY DEF AddFlows, Fields

LEMMA AddRouteKeeps ==
  ASSUME NEW S, DOMAIN S = Fields, NEW v, NEW g, NEW d
  PROVE  DOMAIN add_route(S, v, g, d) = Fields /\ add_route(S, v, g, d).neigh = S.neigh
<1> DEFINE w == router_vlan_for_ip_gw(v, g)
           r == RibAdd(S.rib[w], d, g)
           T == [S EXCEPT !.rib[w] = r]
<1>1. DOMAIN T = Fields /\ T.neigh = S.neigh
  <2> HIDE DEF w, r
  <2> QED BY DEF Fields
<1>2. add_route(S, v, g, d) \in {S, T, AddFlows(T, w, {d}, CachedEth(S, w, g))}
  BY DEF add_route
<1> HIDE DEF T, w
<1> QED
  BY <1>1, <1>2, AddFlowsKeeps

LEMMA HostRouteKeeps ==
  ASSUME NEW S, DOMAIN S = Fields, NEW v, NEW ip, NEW b
  PROVE  /\ DOMAIN _add_host_fib_route(S, v, ip, b) = Fields
         /\ _add_host_fib_route(S, v, ip, b).neigh = S.neigh
<1> DEFINE T == IF b THEN AddFlows(S, v, {ip}, Drop) ELSE S
<1>1. DOMAIN T = Fields /\ T.neigh = S.neigh
  BY AddFlowsKeeps
<1> HIDE DEF T
<1>2. DOMAIN add_route(T, v, ip, ip) = Fields /\ add_route(T, v, ip, ip).neigh = S.neigh
  BY <1>1, AddRouteKeeps
<1> QED
  BY <1>2 DEF _add_host_fib_route, T

\* An entry that is set anew by an answer or by traffic.
LEMMA SetHopSettled ==
  ASSUME NEW S, Settled(S), NEW T, DOMAIN T = Fields, T.neigh = S.neigh,
         NEW w \in Vlan, NEW ip \in Ip, NEW h \in Hop \ {NoEntry}, ~resolution_due(h),
         (h.eth \in Mac /\ h.retries = 0) \/ (h.eth = None /\ h.retries \in {0, 1})
  PROVE  /\ Settled(SetHop(T, w, ip, h))
         /\ SetHop(T, w, ip, h).neigh[w][ip] = h
<1> DEFINE U == SetHop(T, w, ip, h)
           n == [S.neigh EXCEPT ![w] = [S.neigh[w] EXCEPT ![ip] = h]]
<1>1. DOMAIN U = Fields /\ U.neigh = n
  BY DEF SetHop, Fields
<1>2. S.neigh \in Cache
  BY DEF Settled
<1>3. n \in Cache /\ n[w][ip] = h
  BY <1>2 DEF Cache
<1>4. ASSUME NEW x \in Vlan, NEW y \in Ip PROVE AtMostOne(neigh[x][y], n[x][y])
  <2>1. CASE x = w /\ y = ip
    BY <2>1, <1>3 DEF AtMostOne, HopStep
  <2>2. CASE ~(x = w /\ y = ip)
    <3>1. n[x][y] = S.neigh[x][y]
      BY <2>2, <1>2 DEF Cache
    <3> QED
      BY <3>1 DEF Settled
  <2> QED
    BY <2>1, <2>2
<1> HIDE DEF U, n
<1> QED
  BY <1>1, <1>3, <1>4 DEF Settled, U

LEMMA UpdateSettled ==
  ASSUME NEW S, Settled(S), NEW w \in Vlan, NEW mac \in Mac, NEW ip \in Ip
  PROVE  Settled(_update_nexthop(S, w, mac, ip))
<1> DEFINE old == CachedEth(S, w, ip)
           D == S.rib[w].gws[ip]
           U == IF old # None THEN DelFlows(S, w, D) ELSE S
           T == IF old = mac THEN S ELSE AddFlows(U, w, D, mac)
<1>0. DOMAIN S = Fields
  BY DEF Settled
<1> HIDE DEF old, D
<1>1. DOMAIN U = Fields /\ U.neigh = S.neigh
  BY <1>0, DelFlowsKeeps
<1> HIDE DEF U
<1>2. DOMAIN T = Fields /\ T.neigh = S.neigh
  BY <1>0, <1>1, AddFlowsKeeps
<1> HIDE DEF T
<1>3. NewHop(mac, At[mac]).eth \in Mac /\ NewHop(mac, At[mac]).retries = 0
  BY DEF NewHop
<1>4. Settled(SetHop(T, w, ip, NewHop(mac, At[mac])))
  BY <1>2, <1>3, NewHopType, SetHopSettled
<1> QED
  BY <1>4 DEF _update_nexthop, T, U, old, D

LEMMA LearnSettled ==
  ASSUME NEW S, Settled(S), NEW p \in Packet
  PROVE  Settled(LearnSource(S, p))
<1>1. p.vlan \in Vlan /\ p.src \in Ip /\ p.mac \in Mac
  BY DEF Packet
<1> DEFINE T == _add_host_fib_route(S, p.vlan, p.src, FALSE)
<1>a. DOMAIN S = Fields
  BY DEF Settled
<1>b. \A v, ip, b : /\ DOMAIN _add_host_fib_route(S, v, ip, b) = Fields
                    /\ _add_host_fib_route(S, v, ip, b).neigh = S.neigh
  BY <1>a, HostRouteKeeps
<1>2. DOMAIN T = Fields /\ T.neigh = S.neigh
  BY <1>b, Zenon
<1> HIDE DEF T
<1>3. Settled(T)
  BY <1>2 DEF Settled
<1>4. Settled(_update_nexthop(T, p.vlan, p.mac, p.src))
  BY <1>1, <1>3, UpdateSettled
<1> QED
  BY <1>4 DEF LearnSource, T

\* Probes go to entries that are due, which had no step yet.
DueIn(S, X) == \A w \in Vlan : \A ip \in X[w] : ip \in Ip => ip \in DueHops(S, w, Ip)

LEMMA ProbeSettled ==
  ASSUME NEW S, Settled(S), NEW X, DueIn(S, X)
  PROVE  /\ Settled(_resolve_gateway_flows(S, X))
         /\ \A w \in Vlan, ip \in Ip : ip \notin X[w] =>
              _resolve_gateway_flows(S, X).neigh[w][ip] = S.neigh[w][ip]
<1> DEFINE n == [w \in Vlan |-> [ip \in Ip |->
                   IF ip \in X[w] /\ CanProbe(w, ip) THEN next_retry(S.neigh[w][ip])
                   ELSE S.neigh[w][ip]]]
           U == _resolve_gateway_flows(S, X)
<1>0. DOMAIN S = Fields /\ S.neigh \in Cache
  BY DEF Settled
<1>1. DOMAIN U = Fields /\ U.neigh = n
  BY <1>0 DEF _resolve_gateway_flows, Fields
<1>2. ASSUME NEW w \in Vlan, NEW ip \in Ip
      PROVE  n[w][ip] \in Hop /\ AtMostOne(neigh[w][ip], n[w][ip])
  <2>0. S.neigh[w][ip] \in Hop /\ AtMostOne(neigh[w][ip], S.neigh[w][ip])
    BY <1>0 DEF Cache, Settled
  <2>1. CASE ip \in X[w] /\ CanProbe(w, ip)
    <3>1. S.neigh[w][ip] # NoEntry /\ resolution_due(S.neigh[w][ip])
      BY <2>1 DEF DueIn, DueHops, Hops
    <3>2. S.neigh[w][ip] = neigh[w][ip]
      BY <2>0, <3>1 DEF AtMostOne
    <3>3. n[w][ip] = next_retry(neigh[w][ip])
      BY <2>1, <3>2
    <3> QED
      BY <2>0, <3>1, <3>2, <3>3, NextRetryType DEF AtMostOne, HopStep
  <2>2. CASE ~(ip \in X[w] /\ CanProbe(w, ip))
    BY <2>2, <2>0
  <2> QED
    BY <2>1, <2>2
<1>3. n \in Cache
  BY <1>2 DEF Cache
<1>4. \A w \in Vlan, ip \in Ip : ip \notin X[w] => n[w][ip] = S.neigh[w][ip]
  OBVIOUS
<1> HIDE DEF n, U
<1> QED
  BY <1>1, <1>2, <1>3, <1>4 DEF Settled, U

\* Entries are dropped that are dead, or whose port is lost.
LEMMA ExpireSettled ==
  ASSUME NEW S, Settled(S), NEW E,
         \A w \in Vlan, ip \in Ip :
           ip \in E[w] => /\ S.neigh[w][ip] = neigh[w][ip] /\ neigh[w][ip] # NoEntry
                          /\ neigh[w][ip].retries >= MaxRetries \/ neigh[w][ip].eth # None
  PROVE  Settled(ExpireHops(S, E))
<1> DEFINE n == [w \in Vlan |-> [ip \in Ip |-> IF ip \in E[w] THEN NoEntry ELSE S.neigh[w][ip]]]
           U == ExpireHops(S, E)
<1>0. DOMAIN S = Fields /\ S.neigh \in Cache
  BY DEF Settled
<1>1. DOMAIN U = Fields /\ U.neigh = n
  BY <1>0 DEF ExpireHops, Fields
<1>2. ASSUME NEW w \in Vlan, NEW ip \in Ip
      PROVE  n[w][ip] \in Hop /\ AtMostOne(neigh[w][ip], n[w][ip])
  <2>0. S.neigh[w][ip] \in Hop /\ AtMostOne(neigh[w][ip], S.neigh[w][ip])
    BY <1>0 DEF Cache, Settled
  <2>1. CASE ip \in E[w]
    BY <2>1 DEF Hop, AtMostOne, HopStep
  <2>2. CASE ip \notin E[w]
    BY <2>2, <2>0
  <2> QED
    BY <2>1, <2>2
<1>3. n \in Cache
  BY <1>2 DEF Cache
<1> HIDE DEF n, U
<1> QED
  BY <1>1, <1>2, <1>3 DEF Settled, U

LEMMA ExpireOrProbeSettled ==
  ASSUME NEW S, Settled(S), NEW X, DueIn(S, X)
  PROVE  Settled(_resolve_expire_gateway_flows(S, X))
<1> DEFINE dead == [w \in Vlan |-> {ip \in X[w] : nexthop_dead(S.neigh[w][ip])}]
           Y == [w \in Vlan |-> X[w] \ dead[w]]
           T == _resolve_gateway_flows(S, Y)
<1>1. DueIn(S, Y)
  BY DEF DueIn
<1>a. \A w \in Vlan, ip \in Ip : ip \in dead[w] => ip \notin Y[w]
  OBVIOUS
<1> HIDE DEF Y
<1>2. Settled(T) /\ \A w \in Vlan, ip \in Ip : ip \notin Y[w] => T.neigh[w][ip] = S.neigh[w][ip]
  BY <1>1, ProbeSettled
<1>3. ASSUME NEW w \in Vlan, NEW ip \in Ip, ip \in dead[w]
      PROVE  /\ T.neigh[w][ip] = neigh[w][ip] /\ neigh[w][ip] # NoEntry
             /\ neigh[w][ip].retries >= MaxRetries
  <2>1. ip \in X[w] /\ nexthop_dead(S.neigh[w][ip]) /\ ip \notin Y[w]
    BY <1>3, <1>a
  <2>2. S.neigh[w][ip] # NoEntry /\ resolution_due(S.neigh[w][ip])
    BY <2>1 DEF DueIn, DueHops, Hops
  <2>3. S.neigh[w][ip] = neigh[w][ip]
    BY <2>2 DEF Settled, AtMostOne
  <2> QED
    BY <1>2, <2>1, <2>2, <2>3 DEF nexthop_dead
<1> HIDE DEF T, dead
<1>4. Settled(ExpireHops(T, dead))
  BY <1>2, <1>3, ExpireSettled
<1> QED
  BY <1>4 DEF _resolve_expire_gateway_flows, T, dead, Y

\* Addresses that are added to the cache are not due before the clock moves.
LEMMA MissingSettled ==
  ASSUME NEW S, Settled(S), NEW G
  PROVE  /\ Settled(WithMissing(S, G))
         /\ \A w \in Vlan, ip \in Ip : S.neigh[w][ip] # NoEntry =>
              WithMissing(S, G).neigh[w][ip] = S.neigh[w][ip]
<1> DEFINE n == [w \in Vlan |-> [ip \in Ip |->
                   IF ip \in Missing(S, w, G[w]) THEN NewHop(None, None) ELSE S.neigh[w][ip]]]
           U == WithMissing(S, G)
<1>0. DOMAIN S = Fields /\ S.neigh \in Cache
  BY DEF Settled
<1>1. DOMAIN U = Fields /\ U.neigh = n
  BY <1>0 DEF WithMissing, Fields
<1>2. NewHop(None, None).eth = None /\ NewHop(None, None).retries = 0
  BY DEF NewHop
<1>3. ASSUME NEW w \in Vlan, NEW ip \in Ip
      PROVE  n[w][ip] \in Hop /\ AtMostOne(neigh[w][ip], n[w][ip])
  <2>0. S.neigh[w][ip] \in Hop /\ AtMostOne(neigh[w][ip], S.neigh[w][ip])
    BY <1>0 DEF Cache, Settled
  <2>1. CASE ip \in Missing(S, w, G[w])
    <3>1. n[w][ip] = NewHop(None, None)
      BY <2>1
    <3> QED
      BY <3>1, <1>2, NewHopType DEF AtMostOne, HopStep
  <2>2. CASE ip \notin Missing(S, w, G[w])
    BY <2>2, <2>0
  <2> QED
    BY <2>1, <2>2
<1>4. n \in Cache
  BY <1>3 DEF Cache
<1>5. \A w \in Vlan, ip \in Ip : S.neigh[w][ip] # NoEntry => n[w][ip] = S.neigh[w][ip]
  BY DEF Missing, Hops
<1> HIDE DEF n, U
<1> QED
  BY <1>1, <1>3, <1>4, <1>5 DEF Settled, U

-----------------------------------------------------------------------------
(***************************************************************************)
(* Handlers: one step with each entry.                                     *)
(***************************************************************************)

Stepped == neigh' \in Cache /\ \A w \in Vlan, ip \in Ip : HopStep(neigh[w][ip], neigh'[w][ip])

LEMMA CommitStepped ==
  ASSUME NEW S, Settled(S), Commit(S)
  PROVE  Stepped
<1>1. neigh' = S.neigh
  BY DEF Commit
<1> QED
  BY <1>1 DEF Settled, Stepped, AtMostOne, HopStep

LEMMA ResolverStepped ==
  ASSUME NEW S, Settled(S), NEW w \in Vlan, RunResolver(S, w)
  PROVE  Stepped
<1>1. PICK x, y : Commit(ResolveOne(S, w, x, y))
  BY DEF RunResolver
<1> DEFINE T == IF x \in DueHops(S, w, Ip) THEN _resolve_gateway_flows(S, Only(w, x)) ELSE S
<1>2. Settled(T)
  <2>1. x \in DueHops(S, w, Ip) => DueIn(S, Only(w, x))
    BY DEF DueIn, Only
  <2> QED
    BY <2>1, ProbeSettled
<1> HIDE DEF T
<1>3. y \in DueHops(T, w, Ip) => DueIn(T, Only(w, y))
  BY DEF DueIn, Only
<1>4. Settled(IF y \in DueHops(T, w, Ip) THEN _resolve_expire_gateway_flows(T, Only(w, y)) ELSE T)
  BY <1>2, <1>3, ExpireOrProbeSettled
<1>5. Settled(ResolveOne(S, w, x, y))
  BY <1>4 DEF ResolveOne, T
<1> QED
  BY <1>1, <1>5, CommitStepped

\* A cycle probes and expires entries that were in the cache, and were due.
LEMMA CycleDue ==
  ASSUME neigh \in Cache, NEW G, NEW X,
         \A w \in Vlan : X[w] \subseteq DueHops(Begin, w, G[w])
  PROVE  Settled(WithMissing(Begin, G)) /\ DueIn(WithMissing(Begin, G), X)
<1> DEFINE S == WithMissing(Begin, G)
<1>1. Settled(Begin) /\ Begin.neigh = neigh
  BY BeginSettled
<1>2. Settled(S) /\ \A w \in Vlan, ip \in Ip : neigh[w][ip] # NoEntry => S.neigh[w][ip] = neigh[w][ip]
  BY <1>1, MissingSettled
<1>3. \A w \in Vlan, ip \in Ip :
        ip \in DueHops(Begin, w, G[w]) => neigh[w][ip] # NoEntry /\ resolution_due(neigh[w][ip])
  BY <1>1 DEF DueHops, Hops
<1> HIDE DEF S
<1>4. DueIn(S, X)
  BY <1>2, <1>3 DEF DueIn, DueHops, Hops
<1> QED
  BY <1>2, <1>4 DEF S

LEMMA GatewaysStepped ==
  ASSUME neigh \in Cache, ResolveGateways
  PROVE  Stepped
<1> DEFINE G == [w \in Vlan |-> RouteGws(rib[w])]
<1>1. PICK X : /\ \A w \in Vlan : X[w] \subseteq DueHops(Begin, w, G[w])
               /\ Commit(_resolve_gateway_flows(WithMissing(Begin, G), X))
  BY DEF ResolveGateways
<1> HIDE DEF G
<1>2. Settled(_resolve_gateway_flows(WithMissing(Begin, G), X))
  BY <1>1, CycleDue, ProbeSettled
<1> QED
  BY <1>1, <1>2, CommitStepped

LEMMA ExpireStepped ==
  ASSUME neigh \in Cache, StateExpire
  PROVE  Stepped
<1> DEFINE G == [w \in Vlan |-> HostGws(rib[w])]
<1>1. PICK X : /\ \A w \in Vlan : X[w] \subseteq DueHops(Begin, w, G[w])
               /\ Commit(_resolve_expire_gateway_flows(WithMissing(Begin, G), X))
  BY DEF StateExpire
<1> HIDE DEF G
<1>2. Settled(_resolve_expire_gateway_flows(WithMissing(Begin, G), X))
  BY <1>1, CycleDue, ExpireOrProbeSettled
<1> QED
  BY <1>1, <1>2, CommitStepped

LEMMA VlanOfIp ==
  ASSUME NEW v \in Vlan, NEW ip, router_vlan_for_ip_gw(v, ip) # None
  PROVE  router_vlan_for_ip_gw(v, ip) \in Vlan
<1>1. vip_map(ip) # None => vip_map(ip) \in Vlan
  BY DEF vip_map
<1> QED
  BY <1>1 DEF router_vlan_for_ip_gw

\* Traffic starts an address over; a probe that goes out at once is its first.
LEMMA ProactiveStepped ==
  ASSUME neigh \in Cache, NEW p \in Packet, Commit(Proactive(p)),
         router_vlan_for_ip_gw(p.vlan, p.dst) # None
  PROVE  Stepped
<1> DEFINE w == router_vlan_for_ip_gw(p.vlan, p.dst)
           d == p.dst
           S == LearnSource(Begin, p)
           R == _add_host_fib_route(S, w, d, TRUE)
           h == NewHop(None, None)
           T == SetHop(R, w, d, h)
           U == _resolve_gateway_flows(T, Only(w, d))
<1>1. p.vlan \in Vlan /\ d \in Ip
  BY DEF Packet
<1>2. w \in Vlan
  BY <1>1, VlanOfIp
<1>3. Settled(S)
  BY BeginSettled, LearnSettled
<1>4. h \in Hop \ {NoEntry} /\ ~resolution_due(h) /\ h.eth = None /\ h.retries = 0
  BY NewHopType DEF NewHop
<1>5. Proactive(p) = T \/ Proactive(p) = U
  BY DEF Proactive
<1> HIDE DEF S, w
<1>6. DOMAIN R = Fields /\ R.neigh = S.neigh
  BY <1>3, HostRouteKeeps DEF Settled
<1> HIDE DEF R, h, d
<1>7. Settled(T) /\ T.neigh[w][d] = h
  BY <1>1, <1>2, <1>3, <1>4, <1>6, SetHopSettled
<1> HIDE DEF T
<1>8. CASE Proactive(p) = T
  BY <1>7, <1>8, CommitStepped
<1>9. CASE Proactive(p) = U
  <2> DEFINE n == [v \in Vlan |-> [ip \in Ip |->
                     IF ip \in Only(w, d)[v] /\ CanProbe(v, ip) THEN next_retry(T.neigh[v][ip])
                     ELSE T.neigh[v][ip]]]
  <2>1. neigh' = n
    <3>1. DOMAIN T = Fields
      BY <1>7 DEF Settled
    <3>2. neigh' = U.neigh
      BY <1>9 DEF Commit
    <3> QED
      BY <3>1, <3>2 DEF _resolve_gateway_flows, Fields
  <2>2. next_retry(h) \in Hop \ {NoEntry}
    BY <1>4, NextRetryType
  <2>3. next_retry(h).eth = None /\ next_retry(h).retries = 1
    <3>1. h \in NextHop /\ ~(0 > MaxRetries)
      BY <1>4, RouteAssumption DEF Hop
    <3> QED
      BY <1>4, <3>1 DEF next_retry, NextHop
  <2>4. ASSUME NEW v \in Vlan, NEW ip \in Ip
        PROVE  n[v][ip] \in Hop /\ HopStep(neigh[v][ip], n[v][ip])
    <3>0. T.neigh[v][ip] \in Hop /\ HopStep(neigh[v][ip], T.neigh[v][ip])
      BY <1>7 DEF Settled, Cache, AtMostOne, HopStep
    <3>1. CASE ip \in Only(w, d)[v] /\ CanProbe(v, ip)
      <4>1. v = w /\ ip = d
        BY <3>1 DEF Only
      <4>2. n[v][ip] = next_retry(h)
        BY <3>1, <4>1, <1>7
      <4> QED
        BY <4>2, <2>2, <2>3 DEF HopStep
    <3>2. CASE ~(ip \in Only(w, d)[v] /\ CanProbe(v, ip))
      BY <3>2, <3>0
    <3> QED
      BY <3>1, <3>2
  <2>5. n \in Cache
    BY <2>4 DEF Cache
  <2> HIDE DEF n
  <2> QED
    BY <2>1, <2>4, <2>5 DEF Stepped
<1> QED
  BY <1>5, <1>8, <1>9

LEMMA PacketStepped ==
  ASSUME neigh \in Cache, NEW p \in Packet, router_rcv_packet(p)
  PROVE  Stepped
<1>0. p.vlan \in Vlan /\ p.src \in Ip /\ p.mac \in Mac
  BY DEF Packet
<1>1. Settled(Begin) /\ Settled(LearnSource(Begin, p))
  BY BeginSettled, LearnSettled
<1>2. \A S : Settled(S) => (Done(S) => Stepped) /\ (RunResolver(S, p.vlan) => Stepped)
  BY <1>0, CommitStepped, ResolverStepped DEF Done
<1>3. Solicit(p) => Stepped
  BY <1>1, <1>2 DEF Solicit
<1>4. Settled(_gw_advert(p)) /\ Settled(LearnSource(_gw_advert(p), p))
  <2>1. Settled(_gw_advert(p))
    BY <1>0, <1>1, UpdateSettled DEF _gw_advert
  <2> QED
    BY <2>1, LearnSettled
<1>5. Ping(p) => Stepped
  BY <1>1, <1>2 DEF Ping
<1>6. Traffic(p) => Stepped
  BY <1>1, <1>2, ProactiveStepped DEF Traffic, Done
<1>7. _control_plane_time_exceeded_handler(p) => Stepped
  BY <1>1, <1>2 DEF _control_plane_time_exceeded_handler
<1>8. _control_plane_arp_handler(p) => Stepped
  BY <1>2, <1>3, <1>4 DEF _control_plane_arp_handler
<1>9. _control_plane_icmpv6_handler(p) => Stepped
  BY <1>1, <1>2, <1>3, <1>4, <1>5 DEF _control_plane_icmpv6_handler, _router_solicit_handler
<1> QED
  BY <1>1, <1>2, <1>5, <1>6, <1>7, <1>8, <1>9 DEF router_rcv_packet,
     ValveIPv4RouteManager_control_plane_handler, ValveIPv6RouteManager_control_plane_handler

\* The entries of a port that is lost are resolved.
LEMMA FlapStepped ==
  ASSUME neigh \in Cache, NEW P, P \subseteq Port
  PROVE  Settled(ExpireHops(Begin, OnPort(P)))
<1>1. Settled(Begin) /\ Begin.neigh = neigh
  BY BeginSettled
<1>2. ASSUME NEW w \in Vlan, NEW ip \in Ip, ip \in OnPort(P)[w]
      PROVE  neigh[w][ip] # NoEntry /\ neigh[w][ip].eth # None
  <2>1. neigh[w][ip] # NoEntry /\ neigh[w][ip].port \in Port
    BY <1>1, <1>2 DEF OnPort, Hops
  <2>2. neigh[w][ip] \in Hop
    BY DEF Cache
  <2> QED
    BY <2>1, <2>2, SymbolAssumption DEF Hop
<1> QED
  BY <1>1, <1>2, ExpireSettled

-----------------------------------------------------------------------------
(***************************************************************************)
(* The event queue.                                                        *)
(***************************************************************************)

\* The order of losses and returns survives the handling of an event.
LEMMA LostShifts ==
  ASSUME EventsTyped, inbox # <<>>, inbox' = Tail(inbox),
         inbox[1].kind = "disconnect" => ~running',
         inbox[1].kind \notin {"disconnect", "connect"} => running' = running,
         NEW n \in 1..Len(inbox), Lost(inbox, running, n)
  PROVE  Lost(inbox', running', n - 1)
<1>0. /\ n \in Nat /\ n >= 1 /\ Len(inbox) \in Nat /\ n <= Len(inbox)
      /\ \A i \in 1..(n - 1) : inbox'[i] = inbox[i + 1]
  BY DEF EventsTyped
<1>1. ASSUME NEW j \in 2..n, inbox[j].kind = "disconnect",
             \A m \in (j + 1)..n : inbox[m].kind # "connect"
      PROVE  Lost(inbox', running', n - 1)
  <2>1. j - 1 \in 1..(n - 1) /\ inbox'[j - 1].kind = "disconnect"
    BY <1>0, <1>1
  <2>2. \A m \in (j - 1 + 1)..(n - 1) : inbox'[m].kind # "connect"
    BY <1>0, <1>1
  <2> QED
    BY <2>1, <2>2 DEF Lost
<1>2. ASSUME \A m \in 2..n : inbox[m].kind # "connect", ~running'
      PROVE  Lost(inbox', running', n - 1)
  <2>1. \A m \in 1..(n - 1) : inbox'[m].kind # "connect"
    BY <1>0, <1>2
  <2> QED
    BY <1>2, <2>1 DEF Lost
<1>3. CASE \E j \in 1..n : /\ inbox[j].kind = "disconnect"
                           /\ \A m \in (j + 1)..n : inbox[m].kind # "connect"
  <2>1. PICK j \in 1..n : /\ inbox[j].kind = "disconnect"
                          /\ \A m \in (j + 1)..n : inbox[m].kind # "connect"
    BY <1>3
  <2>2. CASE j = 1
    BY <2>1, <2>2, <1>2
  <2>3. CASE j # 1
    BY <2>1, <2>3, <1>0, <1>1
  <2> QED
    BY <2>2, <2>3
<1>4. CASE ~running /\ \A m \in 1..n : inbox[m].kind # "connect"
  <2>1. ~running'
    BY <1>0, <1>4
  <2>2. \A m \in 2..n : inbox[m].kind # "connect"
    BY <1>0, <1>4
  <2> QED
    BY <2>1, <2>2, <1>2
<1> QED
  BY <1>3, <1>4 DEF Lost

LEMMA TailKeeps ==
  ASSUME EventsTyped, ConnectsAlternate, inbox # <<>>, inbox' = Tail(inbox), UNCHANGED up,
         inbox[1].kind = "disconnect" => ~running',
         inbox[1].kind \notin {"disconnect", "connect"} => running' = running
  PROVE  EventsTyped' /\ ConnectsAlternate'
<1>0. /\ Len(inbox) \in Nat /\ Len(inbox) >= 1 /\ inbox' \in Seq(Event)
      /\ Len(inbox') = Len(inbox) - 1
      /\ \A i \in 1..Len(inbox') : inbox'[i] = inbox[i + 1]
  BY DEF EventsTyped
<1>1. ASSUME NEW i \in 1..Len(inbox'), inbox'[i].kind = "connect"
      PROVE  Lost(inbox', running', i - 1)
  <2>1. i \in 1..Len(inbox) /\ i + 1 \in 1..Len(inbox) /\ inbox[i + 1].kind = "connect" /\ i + 1 - 1 = i
    BY <1>0, <1>1
  <2>2. Lost(inbox, running, i)
    BY <2>1 DEF ConnectsAlternate
  <2> QED
    BY <2>1, <2>2, LostShifts
<1>2. ASSUME ~up' PROVE Lost(inbox', running', Len(inbox'))
  <2>1. Lost(inbox, running, Len(inbox)) /\ Len(inbox) \in 1..Len(inbox)
    BY <1>0, <1>2 DEF ConnectsAlternate
  <2>2. Lost(inbox', running', Len(inbox) - 1)
    BY <2>1, LostShifts
  <2> QED
    BY <2>2, <1>0 DEF Lost
<1> QED
  BY <1>0, <1>1, <1>2 DEF EventsTyped, ConnectsAlternate, Lost

LEMMA AppendKeeps ==
  ASSUME EventsTyped, ConnectsAlternate, NEW e \in Event, inbox' = Append(inbox, e),
         UNCHANGED running,
         \/ e.kind \notin {"connect", "disconnect"} /\ UNCHANGED up
         \/ e.kind = "disconnect"
         \/ e.kind = "connect" /\ ~up /\ up'
  PROVE  EventsTyped' /\ ConnectsAlternate'
<1>0. /\ Len(inbox) \in Nat /\ inbox' \in Seq(Event) /\ Len(inbox') = Len(inbox) + 1
      /\ \A i \in 1..Len(inbox) : inbox'[i] = inbox[i]
      /\ inbox'[Len(inbox) + 1] = e
  BY DEF EventsTyped
<1>1. \A n \in 0..Len(inbox) : Lost(inbox, running, n) => Lost(inbox', running', n)
  <2> SUFFICES ASSUME NEW n \in 0..Len(inbox), Lost(inbox, running, n)
               PROVE  Lost(inbox', running', n)
    OBVIOUS
  <2>1. \A i \in 1..n : inbox'[i] = inbox[i]
    BY <1>0
  <2>2. \A j \in 1..n : \A m \in (j + 1)..n : m \in 1..n
    BY <1>0
  <2> QED
    BY <2>1, <2>2 DEF Lost
<1>2. ASSUME NEW i \in 1..Len(inbox'), inbox'[i].kind = "connect"
      PROVE  Lost(inbox', running', i - 1)
  <2>1. CASE i = Len(inbox) + 1
    <3>1. ~up
      BY <2>1, <1>0, <1>2
    <3>2. Lost(inbox, running, i - 1) /\ i - 1 \in 0..Len(inbox)
      BY <2>1, <3>1, <1>0 DEF ConnectsAlternate
    <3> QED
      BY <3>2, <1>1
  <2>2. CASE i # Len(inbox) + 1
    <3>1. i \in 1..Len(inbox) /\ inbox[i].kind = "connect" /\ i - 1 \in 0..Len(inbox)
      BY <2>2, <1>0, <1>2
    <3>2. Lost(inbox, running, i - 1)
      BY <3>1 DEF ConnectsAlternate
    <3> QED
      BY <3>1, <3>2, <1>1
  <2> QED
    BY <2>1, <2>2
<1>3. ASSUME ~up' PROVE Lost(inbox', running', Len(inbox) + 1)
  <2>1. CASE e.kind = "disconnect"
    <3>1. /\ Len(inbox) + 1 \in 1..(Len(inbox) + 1) /\ inbox'[Len(inbox) + 1].kind = "disconnect"
          /\ \A m \in (Len(inbox) + 1 + 1)..(Len(inbox) + 1) : inbox'[m].kind # "connect"
      BY <1>0, <2>1
    <3> QED
      BY <3>1 DEF Lost
  <2>2. CASE e.kind \notin {"connect", "disconnect"}
    <3>1. Lost(inbox, running, Len(inbox)) /\ Len(inbox) \in 0..Len(inbox)
      BY <1>0, <1>3, <2>2 DEF ConnectsAlternate
    <3> DEFINE L == Len(inbox) + 1
    <3>2. \/ \E j \in 1..Len(inbox) : /\ inbox'[j].kind = "disconnect"
                                     /\ \A m \in (j + 1)..Len(inbox) : inbox'[m].kind # "connect"
          \/ ~running' /\ \A m \in 1..Len(inbox) : inbox'[m].kind # "connect"
      BY <3>1, <1>0 DEF Lost
    <3>3. inbox'[L].kind # "connect" /\ L \in 1..L
      BY <1>0, <2>2
    <3>4. \A m \in 1..L : m = L \/ m \in 1..Len(inbox)
      BY <1>0
    <3>5. \A j \in 1..Len(inbox) : j \in 1..L /\ \A m \in (j + 1)..L : m = L \/ m \in (j + 1)..Len(inbox)
      BY <1>0
    <3> HIDE DEF L
    <3>6. \/ \E j \in 1..L : /\ inbox'[j].kind = "disconnect"
                             /\ \A m \in (j + 1)..L : inbox'[m].kind # "connect"
          \/ ~running' /\ \A m \in 1..L : inbox'[m].kind # "connect"
      BY <3>2, <3>3, <3>4, <3>5
    <3> QED
      BY <3>6 DEF Lost, L
  <2> QED
    BY <1>3, <2>1, <2>2
<1>4. ~up' => Lost(inbox', running', Len(inbox'))
  BY <1>0, <1>3
<1> QED
  BY <1>0, <1>2, <1>4 DEF EventsTyped, ConnectsAlternate, Lost

-----------------------------------------------------------------------------
(***************************************************************************)
(* The refinement.                                                         *)
(***************************************************************************)

\* A step of an entry is a step of the neighbour cache.
LEMMA KeySteps ==
  ASSUME neigh \in Cache, neigh' \in Cache, NEW k \in Vlan \X Ip,
         HopStep(neigh[k[1]][k[2]], neigh'[k[1]][k[2]])
  PROVE  N!KeyStep(k)
<1> DEFINE e == neigh[k[1]][k[2]]
           f == neigh'[k[1]][k[2]]
           Seen(h) == IF h = NoEntry THEN NoEntry ELSE [eth |-> h.eth, tries |-> h.retries]
<1>1. e \in Hop /\ f \in Hop
  BY DEF Cache
<1>2. \A h \in Hop : h # NoEntry => Seen(h) # NoEntry /\ h.retries \in 0..(MaxRetries + 1)
  <2> SUFFICES ASSUME NEW h \in Hop, h # NoEntry
               PROVE  Seen(h) # NoEntry /\ h.retries \in 0..(MaxRetries + 1)
    OBVIOUS
  <2>1. h.eth \in Mac \cup {None} /\ h.retries \in 0..(MaxRetries + 1)
    BY DEF Hop, NextHop
  <2> QED
    BY <2>1, EntryAssumption
<1>3. HopStep(e, f)
  OBVIOUS
<1> HIDE DEF e, f
<1>4. \/ Seen(f) = Seen(e)
      \/ \E m \in Mac : Seen(f) = [eth |-> m, tries |-> 0]
      \/ \E n \in {0, 1} : Seen(f) = [eth |-> None, tries |-> n]
      \/ /\ Seen(e) # NoEntry
         /\ Seen(f) = [Seen(e) EXCEPT !.tries = IF @ > MaxRetries THEN @ ELSE @ + 1]
      \/ Seen(e) # NoEntry /\ Seen(e).tries >= MaxRetries /\ Seen(f) = NoEntry
      \/ Seen(e) # NoEntry /\ Seen(e).eth # None /\ Seen(f) = NoEntry
  <2>1. CASE e # NoEntry /\ f = next_retry(e)
    <3>1. f # NoEntry /\ f.eth = e.eth
      BY <2>1, <1>1, NextRetryType DEF next_retry, Hop, NextHop
    <3>2. f.retries = IF e.retries > MaxRetries THEN e.retries ELSE e.retries + 1
      BY <2>1, <1>1 DEF next_retry, Hop, NextHop
    <3> QED
      BY <2>1, <3>1, <3>2, <1>1, <1>2
  <2>2. CASE ~(e # NoEntry /\ f = next_retry(e))
    BY <2>2, <1>1, <1>2, <1>3 DEF HopStep
  <2> QED
    BY <2>1, <2>2
<1>5. QED
  BY <1>4, Zenon DEF e, f, N!KeyStep, N!Learnt, N!Restarted, N!Probed, N!GivenUp, N!PortLost

LEMMA SteppedWorks ==
  ASSUME neigh \in Cache, Stepped
  PROVE  \A k \in Vlan \X Ip : N!KeyStep(k)
BY KeySteps DEF Stepped

LEMMA SameStepped ==
  ASSUME neigh \in Cache, neigh' = neigh
  PROVE  Stepped
BY DEF Stepped, HopStep, Cache

\* What a step may be: one step with each entry, or a new start, of the
\* connection or the configuration.
Renewed ==
  /\ <<running, count.changes>>' # <<running, count.changes>>
  /\ neigh' \in Cache
  /\ \A w \in Vlan, ip \in Ip : HopStep(neigh[w][ip], neigh'[w][ip]) \/ neigh'[w][ip] = NoEntry

LEMMA EventStep ==
  ASSUME RouteInv, NextEvent
  PROVE  RouteInv' /\ (Stepped \/ Renewed)
<1> DEFINE e == Head(inbox)
<1>1. /\ inbox # <<>> /\ Handle(e) /\ inbox' = Tail(inbox) /\ UNCHANGED <<up, count>>
  BY DEF NextEvent
<1>2. e \in Event /\ e = inbox[1] /\ Len(inbox) \in Nat /\ Len(inbox) >= 1
  BY <1>1 DEF RouteInv, EventsTyped
<1>3. e.kind = "disconnect" => ~running'
  BY <1>1 DEF Handle, Disconnect, PacketKind
<1>4. e.kind \notin {"disconnect", "connect"} => running' = running
  BY <1>1 DEF Handle, Flap, valve_packet_in, state
<1>5. EventsTyped' /\ ConnectsAlternate'
  BY <1>1, <1>2, <1>3, <1>4, TailKeeps DEF RouteInv
<1>6. neigh \in Cache
  BY DEF RouteInv
<1>7. CASE e.kind = "connect"
  <2>1. Connect
    BY <1>1, <1>7 DEF Handle, PacketKind
  <2>2. ~running
    BY <1>2, <1>7 DEF RouteInv, ConnectsAlternate, Lost
  <2>3. running' = TRUE /\ neigh' = [w \in Vlan |-> [ip \in Ip |-> NoEntry]]
    BY <2>1 DEF Connect
  <2>4. neigh' \in Cache /\ \A w \in Vlan, ip \in Ip : neigh'[w][ip] = NoEntry
    BY <2>3 DEF Cache, Hop
  <2> QED
    BY <2>2, <2>3, <2>4, <1>1, <1>5 DEF RouteInv, Renewed
<1>8. CASE e.kind = "disconnect"
  <2>1. Disconnect
    BY <1>1, <1>8 DEF Handle, PacketKind
  <2> DEFINE S == ExpireHops(Begin, OnPort(Port))
  <2>2. neigh' = S.neigh /\ running' = FALSE
    BY <2>1 DEF Disconnect
  <2>3. Settled(S)
    BY <1>6, FlapStepped
  <2> HIDE DEF S
  <2>4. Stepped
    BY <2>2, <2>3 DEF Settled, Stepped, AtMostOne, HopStep
  <2> QED
    BY <2>2, <2>4, <1>1, <1>5 DEF RouteInv, Stepped
<1>9. CASE e.kind \notin {"disconnect", "connect"}
  <2>1. Stepped
    <3>1. CASE neigh' = neigh
      BY <3>1, <1>6, SameStepped
    <3>2. CASE e.kind = "flap" /\ Flap({e.port})
      <4>1. e.port \in Port
        BY <1>2, <3>2 DEF Event, Packet, PacketKind
      <4>2. Settled(ExpireHops(Begin, OnPort({e.port})))
        BY <1>6, <4>1, FlapStepped
      <4> QED
        BY <3>2, <4>2, CommitStepped DEF Flap, Done
    <3>3. CASE e.kind \in PacketKind /\ router_rcv_packet(e)
      <4>1. e \in Packet
        BY <1>2, <3>3 DEF Event, PacketKind
      <4> QED
        BY <3>3, <4>1, <1>6, PacketStepped
    <3> QED
      BY <1>1, <1>9, <3>1, <3>2, <3>3 DEF Handle, valve_packet_in, state
  <2> QED
    BY <2>1, <1>1, <1>4, <1>5, <1>9 DEF RouteInv, Stepped
<1> QED
  BY <1>7, <1>8, <1>9

LEMMA PostStep ==
  ASSUME RouteInv, NEW e \in Event, Post(e), count' \in Counts, up' \in BOOLEAN,
         \/ e.kind \notin {"connect", "disconnect"} /\ UNCHANGED up
         \/ e.kind = "disconnect"
         \/ e.kind = "connect" /\ ~up /\ up'
  PROVE  RouteInv' /\ Stepped
<1>1. inbox' = Append(inbox, e) /\ neigh' = neigh /\ running' = running
  BY DEF Post, state
<1>2. EventsTyped' /\ ConnectsAlternate'
  BY <1>1, AppendKeeps DEF RouteInv
<1>3. Stepped
  BY <1>1, SameStepped DEF RouteInv
<1> QED
  BY <1>1, <1>2, <1>3 DEF RouteInv, Stepped

\* A step that leaves the queue and the connection alone.
LEMMA QuietStep ==
  ASSUME RouteInv, UNCHANGED <<running, up, inbox>>, count' \in Counts, neigh' \in Cache
  PROVE  RouteInv'
BY DEF RouteInv, EventsTyped, ConnectsAlternate, Lost

LEMMA CountsUp ==
  ASSUME count \in Counts, count.changes < MaxChanges,
         count' = [count EXCEPT !.changes = @ + 1]
  PROVE  count' \in Counts /\ count'.changes # count.changes
<1>1. count.changes \in 0..MaxChanges /\ MaxChanges \in Nat
  BY RouteAssumption DEF Counts
<1>2. count.changes + 1 \in 0..MaxChanges /\ count.changes + 1 # count.changes
  BY <1>1
<1> QED
  BY <1>2 DEF Counts

LEMMA ReloadStep ==
  ASSUME RouteInv, NEW c \in Vlan, ReloadVlan(c)
  PROVE  RouteInv' /\ Renewed
<1> DEFINE others == [w \in Vlan |-> IF w # c /\ w \in _routed_vlans(c) THEN Hops(Begin, w) ELSE {}]
           B == DelFlows(Begin, c, Subnet[c])
           S == ExpireHops(B, others)
           none == [ip \in Ip |-> NoEntry]
           T == [S EXCEPT !.rib[c] = StaticRib(c), !.neigh[c] = none, !.del[c] = Dst]
           r == ReAdd(T, Prefix)
           U == [T EXCEPT !.rib = r]
<1>0. neigh \in Cache /\ count \in Counts
  BY DEF RouteInv
<1>1. /\ Commit(U) /\ count.changes < MaxChanges
      /\ count' = [count EXCEPT !.changes = @ + 1] /\ UNCHANGED <<running, up, inbox>>
  BY DEF ReloadVlan
<1>2. DOMAIN B = Fields /\ B.neigh = neigh
  BY <1>0, BeginSettled, DelFlowsKeeps DEF Settled
<1> HIDE DEF B
<1>3. /\ DOMAIN S = Fields
      /\ S.neigh = [w \in Vlan |-> [ip \in Ip |-> IF ip \in others[w] THEN NoEntry ELSE neigh[w][ip]]]
  BY <1>2 DEF ExpireHops, Fields
<1> HIDE DEF others
<1>4. S.neigh \in Cache /\ \A w \in Vlan, ip \in Ip : S.neigh[w][ip] \in {NoEntry, neigh[w][ip]}
  BY <1>3, <1>0 DEF Cache, Hop
<1> HIDE DEF S
<1>5. DOMAIN T = Fields /\ T.neigh = [S.neigh EXCEPT ![c] = none]
  BY <1>3 DEF Fields
<1> HIDE DEF T, r
<1>6. neigh' = [S.neigh EXCEPT ![c] = none]
  BY <1>1, <1>5 DEF Commit, Fields
<1>7. none \in [Ip -> Hop]
  BY DEF Hop
<1>8. neigh' \in Cache
  BY <1>4, <1>6, <1>7 DEF Cache
<1>9. \A w \in Vlan, ip \in Ip : neigh'[w][ip] \in {NoEntry, neigh[w][ip]}
  BY <1>4, <1>6 DEF Cache
<1>10. count' \in Counts /\ count'.changes # count.changes
  BY <1>0, <1>1, CountsUp
<1> QED
  BY <1>1, <1>8, <1>9, <1>10, QuietStep DEF Renewed, HopStep

LEMMA NextStep ==
  ASSUME RouteInv, [Next]_vars
  PROVE  RouteInv' /\ (Stepped \/ Renewed)
<1>0. neigh \in Cache /\ count \in Counts /\ up \in BOOLEAN
  BY DEF RouteInv
<1>1. CASE UNCHANGED vars
  BY <1>0, <1>1, SameStepped, QuietStep DEF vars
<1>2. CASE ResolveGateways \/ StateExpire
  <2>1. Stepped
    BY <1>0, <1>2, GatewaysStepped, ExpireStepped
  <2>2. UNCHANGED <<running, up, inbox, count>>
    BY <1>2 DEF ResolveGateways, StateExpire
  <2> QED
    BY <1>0, <2>1, <2>2, QuietStep DEF Stepped
<1>3. CASE NextEvent
  BY <1>3, EventStep
<1>4. ASSUME NEW k \in PacketKind, NEW c \in Claims, NEW d \in Ip, HostSends(k, c, d)
      PROVE  RouteInv' /\ Stepped
  <2> DEFINE e == [kind |-> k, vlan |-> c[1], src |-> c[2], mac |-> c[3], dst |-> d]
  <2>1. e \in Event /\ e.kind = k
    BY RouteAssumption DEF Event, Packet
  <2>2. e.kind \notin {"connect", "disconnect"}
    BY <2>1 DEF PacketKind
  <2>3. Post(e) /\ UNCHANGED up
    BY <1>4 DEF HostSends
  <2>4. count' \in Counts
    <3>1. count.packets < MaxPackets /\ count' = [count EXCEPT !.packets = @ + 1]
      BY <1>4 DEF HostSends
    <3>2. count.packets \in 0..MaxPackets /\ MaxPackets \in Nat
      BY <1>0, RouteAssumption DEF Counts
    <3>3. count.packets + 1 \in 0..MaxPackets
      BY <3>1, <3>2
    <3> QED
      BY <1>0, <3>1, <3>3 DEF Counts
  <2> HIDE DEF e
  <2> QED
    BY <1>0, <2>1, <2>2, <2>3, <2>4, PostStep
<1>5. ASSUME NEW p \in Port, PortFlaps(p) PROVE RouteInv' /\ Stepped
  <2> DEFINE e == [kind |-> "flap", port |-> p]
  <2>1. e \in Event /\ e.kind = "flap"
    BY DEF Event
  <2>2. Post(e) /\ UNCHANGED up /\ count' \in Counts
    BY <1>0, <1>5, CountsUp DEF PortFlaps
  <2> HIDE DEF e
  <2> QED
    BY <1>0, <2>1, <2>2, PostStep
<1>6. CASE LoseConnection
  <2> DEFINE e == [kind |-> "disconnect"]
  <2>1. e \in Event /\ e.kind = "disconnect"
    BY DEF Event
  <2>2. Post(e) /\ up' \in BOOLEAN /\ count' \in Counts
    BY <1>0, <1>6, CountsUp DEF LoseConnection
  <2> HIDE DEF e
  <2> QED
    BY <1>0, <2>1, <2>2, PostStep
<1>7. CASE Reconnect
  <2> DEFINE e == [kind |-> "connect"]
  <2>1. e \in Event /\ e.kind = "connect"
    BY DEF Event
  <2>2. Post(e) /\ ~up /\ up' = TRUE /\ count' \in Counts
    BY <1>0, <1>7 DEF Reconnect
  <2> HIDE DEF e
  <2> QED
    BY <1>0, <2>1, <2>2, PostStep
<1>8. ASSUME NEW d \in Dst, BlackholeEnds(d) PROVE RouteInv' /\ Stepped
  BY <1>0, <1>8, SameStepped, QuietStep DEF BlackholeEnds
<1>9. ASSUME NEW w \in Vlan, NEW ip \in Ip, Age(w, ip) \/ RetryDue(w, ip)
      PROVE  RouteInv' /\ Stepped
  <2> DEFINE e == neigh[w][ip]
  <2>1. PICK f : /\ f = [e EXCEPT !.fresh = FALSE] \/ f = [e EXCEPT !.due = TRUE]
                 /\ neigh' = [neigh EXCEPT ![w] = [neigh[w] EXCEPT ![ip] = f]]
    BY <1>9 DEF Age, RetryDue
  <2>2. e \in NextHop /\ e # NoEntry /\ (e.eth = None <=> e.port = None)
    BY <1>0, <1>9 DEF Age, RetryDue, Cache, Hop
  <2>3. f \in NextHop /\ f.eth = e.eth /\ f.port = e.port /\ f.retries = e.retries
    BY <2>1, <2>2 DEF NextHop
  <2>4. f \in Hop /\ f # NoEntry
    BY <2>2, <2>3, EntryAssumption DEF Hop
  <2>5. neigh' \in Cache
    BY <1>0, <2>1, <2>4 DEF Cache
  <2>6. ASSUME NEW x \in Vlan, NEW y \in Ip PROVE HopStep(neigh[x][y], neigh'[x][y])
    <3>1. CASE x = w /\ y = ip
      <4>1. neigh'[x][y] = f
        BY <1>0, <2>1, <3>1 DEF Cache
      <4> QED
        BY <2>2, <2>3, <2>4, <3>1, <4>1 DEF HopStep
    <3>2. CASE ~(x = w /\ y = ip)
      <4>1. neigh'[x][y] = neigh[x][y]
        BY <1>0, <2>1, <3>2 DEF Cache
      <4> QED
        BY <4>1 DEF HopStep
    <3> QED
      BY <3>1, <3>2
  <2>7. UNCHANGED <<running, up, inbox, count>>
    BY <1>9 DEF Age, RetryDue
  <2> QED
    BY <1>0, <2>5, <2>6, <2>7, QuietStep DEF Stepped
<1>10. ASSUME NEW b \in BgpPaths, Announce(b[1], b[2]) PROVE RouteInv' /\ Stepped
  BY <1>0, <1>10, CountsUp, SameStepped, QuietStep DEF Announce, Computed
<1>11. ASSUME NEW p \in Prefix, Withdraw(p) PROVE RouteInv' /\ Stepped
  BY <1>0, <1>11, SameStepped, QuietStep DEF Withdraw, Computed
<1>13. ASSUME BgpSends PROVE RouteInv' /\ Stepped
  BY <1>0, <1>13, SameStepped, QuietStep DEF BgpSends
<1>12. ASSUME NEW c \in Vlan, ReloadVlan(c) PROVE RouteInv' /\ Renewed
  BY <1>12, ReloadStep
<1> QED
  BY <1>1, <1>2, <1>3, <1>4, <1>5, <1>6, <1>7, <1>8, <1>9, <1>10, <1>11, <1>12, <1>13 DEF Next

LEMMA InitRoute == Init => RouteInv /\ N!NInit
<1> SUFFICES ASSUME Init
             PROVE  RouteInv /\ N!NInit
  OBVIOUS
<1>1. neigh = [v \in Vlan |-> [ip \in Ip |-> NoEntry]]
  BY DEF Init
<1>2. neigh \in Cache
  BY <1>1 DEF Cache, Hop
<1>3. inbox = <<>> /\ up = TRUE /\ running = TRUE /\ count = [packets |-> 0, changes |-> 0]
  BY DEF Init
<1>4. EventsTyped /\ ConnectsAlternate
  BY <1>3 DEF EventsTyped, ConnectsAlternate
<1>5. 0 \in 0..MaxPackets /\ 0 \in 0..MaxChanges
  BY RouteAssumption
<1>6. count \in Counts
  BY <1>3, <1>5 DEF Counts
<1>7. \A k \in Vlan \X Ip : neigh[k[1]][k[2]] = NoEntry
  BY <1>1
<1>8. N!NInit
  BY <1>7 DEF N!NInit
<1> QED
  BY <1>2, <1>3, <1>4, <1>6, <1>8 DEF RouteInv

\* Every step of the manager is a step of the cache.
LEMMA StepRefines ==
  ASSUME RouteInv, [Next]_vars
  PROVE  [N!Work \/ N!Renew]_(N!nvars)
<1>0. neigh \in Cache /\ (Stepped \/ Renewed)
  BY NextStep DEF RouteInv
<1>1. CASE Stepped
  <2>1. \A k \in Vlan \X Ip : N!KeyStep(k)
    BY <1>0, <1>1, SteppedWorks
  <2> QED
    BY <2>1 DEF N!Work, N!Renew
<1>2. CASE Renewed
  <2>1. ASSUME NEW k \in Vlan \X Ip
        PROVE  N!KeyStep(k) \/ neigh'[k[1]][k[2]] = NoEntry
    <3>1. k[1] \in Vlan /\ k[2] \in Ip
      OBVIOUS
    <3> QED
      BY <1>0, <1>2, <3>1, KeySteps DEF Renewed
  <2> QED
    BY <1>2, <2>1 DEF Renewed, N!Renew
<1> QED
  BY <1>0, <1>1, <1>2

\* The route manager implements the neighbour cache: an address is resolved by
\* its host only and dropped only after its probes went unanswered, with its
\* port, or with the configuration or connection (_update_nexthop_cache,
\* _resolve_expire_gateway_flows, expire_port_nexthops).
THEOREM RouteImplementsNeighbor == Spec => ImplementsNeighbor
<1>1. RouteInv /\ [Next]_vars => RouteInv'
  BY NextStep
<1>2. RouteInv /\ [Next]_vars => [N!Work \/ N!Renew]_(N!nvars)
  BY StepRefines
<1> QED
  BY <1>1, <1>2, InitRoute, PTL DEF Spec, ImplementsNeighbor, N!NSpec

-----------------------------------------------------------------------------
(***************************************************************************)
(* The rules follow the RIB and the cache.  A handler computes its batch   *)
(* step by step; InStep says of every moment of it that what the switch    *)
(* will have, once it executed the batch so far, is what the RIB and the   *)
(* cache of that moment say.                                               *)
(***************************************************************************)

\* What a RIB may hold: the host route of an address of the VLAN, or a path.
Fits(w, d, g) ==
  /\ d \in Ip => d = g /\ g \in Subnet[w]
  /\ d \in Prefix => PathIn(w, d, g)

\* The gateway of a route has the route among its destinations.
RibSound(r) ==
  /\ r \in [Vlan -> Rib]
  /\ \A w \in Vlan, d \in Dst, g \in Ip : r[w].routes[d] = g => d \in r[w].gws[g]
  /\ \A w \in Vlan, g \in Ip, d \in Dst : d \in r[w].gws[g] => Fits(w, d, g)

\* What BGP announced is in the RIB.
BgpRouted(r, b) ==
  /\ b \in [Prefix -> Ip \cup {None}]
  /\ \A p \in Prefix : b[p] # None =>
       /\ <<p, b[p]>> \in BgpPaths
       /\ \A w \in Vlan : w = router_vlan_for_ip_gw(BgpVlan, b[p]) => r[w].routes[p] = b[p]

\* The rules the switch has, but for those that BGP is to send or sent too
\* late: what they should be.  All gateways that want the rule want the same.
Wanted(v, d) ==
  CHOOSE m : \E w \in Vlan, ip \in Ip :
    /\ v \in _routed_vlans(w) /\ rib[w].routes[d] = ip
    /\ neigh[w][ip] # NoEntry /\ neigh[w][ip].eth # None /\ m = neigh[w][ip].eth
Right ==
  [v \in Vlan |-> [d \in Dst |->
     IF <<v, d>> \in late \cup PendingRules THEN Wanted(v, d) ELSE fib[v][d]]]

\* The switch has the rules of an entry once it executed the batch of S.
HopInstalled(S, w, ip) ==
  running /\ CachedEth(S, w, ip) # None =>
    \A d \in Dst, v \in _routed_vlans(w) :
      S.rib[w].routes[d] = ip => Sent(S, Right)[v][d] = CachedEth(S, w, ip)

\* A handler has done its part, except for the entries of X.
InStep(S, X) ==
  /\ DOMAIN S = Fields /\ S.neigh \in Cache
  /\ RibSound(S.rib) /\ BgpRouted(S.rib, bgp)
  /\ \A w \in Vlan, ip \in Ip : <<w, ip>> \notin X => HopInstalled(S, w, ip)

LEMMA RoutedVlans ==
  ASSUME NEW w \in Vlan
  PROVE  _routed_vlans(w) \subseteq Vlan /\ w \in _routed_vlans(w)
BY DEF _routed_vlans

LEMMA GwVlan ==
  ASSUME NEW v \in Vlan, NEW ip, router_vlan_for_ip_gw(v, ip) # None
  PROVE  router_vlan_for_ip_gw(v, ip) \in Vlan /\ ip \in Subnet[router_vlan_for_ip_gw(v, ip)]
<1>1. vip_map(ip) # None => vip_map(ip) \in Vlan /\ ip \in Subnet[vip_map(ip)]
  BY DEF vip_map
<1> QED
  BY <1>1 DEF router_vlan_for_ip_gw

\* Two gateways of VLANs routed together have no destination in common.
LEMMA Apart ==
  ASSUME OneRouteEach, NEW r, RibSound(r), NEW w \in Vlan, NEW x \in Vlan,
         NEW g \in Ip, NEW h \in Ip, NEW d \in Dst, d \in r[w].gws[g], d \in r[x].gws[h],
         NEW v, v \in _routed_vlans(w), v \in _routed_vlans(x)
  PROVE  w = x /\ g = h
<1>1. Fits(w, d, g) /\ Fits(x, d, h)
  BY DEF RibSound
<1>2. CASE d \in Ip
  <2>1. d = g /\ d = h /\ g \in Subnet[w] /\ g \in Subnet[x]
    BY <1>1, <1>2 DEF Fits
  <2> QED
    BY <2>1, RouteAssumption
<1>3. CASE d \in Prefix
  <2>1. PathIn(w, d, g) /\ PathIn(x, d, h)
    BY <1>1, <1>3 DEF Fits
  <2>2. x \in _routed_vlans(w)
    BY DEF _routed_vlans
  <2> QED
    BY <1>3, <2>1, <2>2 DEF OneRouteEach
<1> QED
  BY <1>2, <1>3 DEF Dst

LEMMA EthType ==
  ASSUME NEW S, S.neigh \in Cache, NEW w \in Vlan, NEW ip \in Ip, CachedEth(S, w, ip) # None
  PROVE  CachedEth(S, w, ip) \in Mac
<1>1. S.neigh[w][ip] \in Hop
  BY DEF Cache
<1> QED
  BY <1>1 DEF CachedEth, Hop, NextHop

-----------------------------------------------------------------------------
\* What messages do to the rules.
LEMMA DelRules ==
  ASSUME NEW S, DOMAIN S = Fields, NEW w, NEW D
  PROVE  /\ DelFlows(S, w, D).rib = S.rib
         /\ \A v \in Vlan, d \in Dst : ~(v \in _routed_vlans(w) /\ d \in D)
              => Sent(DelFlows(S, w, D), Right)[v][d] = Sent(S, Right)[v][d]
<1> DEFINE T == DelFlows(S, w, D)
<1>1. /\ T.rib = S.rib /\ T.add = S.add
      /\ T.del = [v \in Vlan |-> IF v \in _routed_vlans(w) THEN S.del[v] \cup D ELSE S.del[v]]
  BY DEF DelFlows, Fields
<1> HIDE DEF T
<1>2. ASSUME NEW v \in Vlan, NEW d \in Dst, ~(v \in _routed_vlans(w) /\ d \in D)
      PROVE  Sent(T, Right)[v][d] = Sent(S, Right)[v][d]
  BY <1>1, <1>2 DEF Sent
<1> QED
  BY <1>1, <1>2 DEF T

LEMMA AddRules ==
  ASSUME NEW S, DOMAIN S = Fields, NEW w, NEW D, NEW rule, rule # NoRule
  PROVE  /\ AddFlows(S, w, D, rule).rib = S.rib
         /\ \A v \in Vlan, d \in Dst :
              Sent(AddFlows(S, w, D, rule), Right)[v][d] =
                IF v \in _routed_vlans(w) /\ d \in D THEN rule ELSE Sent(S, Right)[v][d]
<1> DEFINE T == AddFlows(S, w, D, rule)
<1>1. /\ T.rib = S.rib /\ T.del = S.del
      /\ T.add = [v \in Vlan |-> [d \in Dst |->
                    IF v \in _routed_vlans(w) /\ d \in D THEN rule ELSE S.add[v][d]]]
  BY DEF AddFlows, Fields
<1> HIDE DEF T
<1>2. ASSUME NEW v \in Vlan, NEW d \in Dst
      PROVE  Sent(T, Right)[v][d] =
                IF v \in _routed_vlans(w) /\ d \in D THEN rule ELSE Sent(S, Right)[v][d]
  BY <1>1 DEF Sent
<1> QED
  BY <1>1, <1>2 DEF T

\* A route that is added.
WithRoute(r, w, d, g) == [r EXCEPT ![w] = RibAdd(r[w], d, g)]

LEMMA RibAdded ==
  ASSUME OneRouteEach, NEW r, RibSound(r), NEW b, BgpRouted(r, b), NEW w \in Vlan,
         NEW g \in Ip, NEW d \in Dst, Fits(w, d, g), NEW q,
         q = WithRoute(r, w, d, g)
  PROVE  /\ RibSound(q) /\ BgpRouted(q, b)
         /\ \A x \in Vlan, e \in Dst :
              q[x].routes[e] = IF x = w /\ e = d THEN g ELSE r[x].routes[e]
         /\ \A x \in Vlan, h \in Ip, e \in Dst : e \in r[x].gws[h] => e \in q[x].gws[h]
         /\ d \in q[w].gws[g]
<1>1. r \in [Vlan -> Rib] /\ r[w] \in Rib
  BY DEF RibSound
<1> DEFINE rw == RibAdd(r[w], d, g)
<1>2. /\ rw \in Rib
      /\ rw.routes = [r[w].routes EXCEPT ![d] = g]
      /\ rw.gws = [r[w].gws EXCEPT ![g] = @ \cup {d}]
  BY <1>1 DEF RibAdd, Rib
<1> HIDE DEF rw
<1>3. q \in [Vlan -> Rib] /\ q[w] = rw /\ \A x \in Vlan : x # w => q[x] = r[x]
  BY <1>1, <1>2 DEF rw, WithRoute
<1>4. r[w].routes \in [Dst -> Ip \cup {None}] /\ r[w].gws \in [Ip -> SUBSET Dst]
  BY <1>1 DEF Rib
<1>5. \A x \in Vlan, e \in Dst : q[x].routes[e] = IF x = w /\ e = d THEN g ELSE r[x].routes[e]
  BY <1>2, <1>3, <1>4
<1>6. \A x \in Vlan, h \in Ip, e \in Dst :
        e \in q[x].gws[h] <=> e \in r[x].gws[h] \/ (x = w /\ h = g /\ e = d)
  BY <1>2, <1>3, <1>4
<1>7. RibSound(q)
  BY <1>3, <1>5, <1>6 DEF RibSound
<1>8. BgpRouted(q, b)
  <2> SUFFICES ASSUME NEW p \in Prefix, b[p] # None, NEW x \in Vlan,
                      x = router_vlan_for_ip_gw(BgpVlan, b[p])
               PROVE  q[x].routes[p] = b[p]
    BY DEF BgpRouted
  <2>1. r[x].routes[p] = b[p] /\ b[p] \in Ip /\ p \in Dst
    BY DEF BgpRouted, Dst
  <2>2. CASE x = w /\ p = d
    <3>1. Fits(w, p, b[p])
      BY <2>1, <2>2 DEF RibSound
    <3>2. PathIn(w, p, b[p]) /\ PathIn(w, p, g)
      BY <2>2, <3>1 DEF Fits
    <3>3. g = b[p]
      BY <3>2, <2>1, RoutedVlans DEF OneRouteEach
    <3> QED
      BY <2>1, <2>2, <3>3, <1>5
  <2>3. CASE ~(x = w /\ p = d)
    BY <2>1, <2>3, <1>5
  <2> QED
    BY <2>2, <2>3
<1> QED
  BY <1>5, <1>6, <1>7, <1>8

-----------------------------------------------------------------------------
(***************************************************************************)
(* What the parts of a handler do to the rules of the entries.             *)
(***************************************************************************)

\* A rule for d through the gateway g of w is written over the rules of that
\* gateway only.
LEMMA RouteAdded ==
  ASSUME OneRouteEach, NEW S, NEW X, InStep(S, X), NEW v \in Vlan, NEW g \in Ip, NEW d \in Dst,
         router_vlan_for_ip_gw(v, g) # None => Fits(router_vlan_for_ip_gw(v, g), d, g)
  PROVE  /\ InStep(add_route(S, v, g, d), X)
         /\ router_vlan_for_ip_gw(v, g) # None
              => add_route(S, v, g, d).rib[router_vlan_for_ip_gw(v, g)].routes[d] = g
<1> DEFINE w == router_vlan_for_ip_gw(v, g)
           q == [S.rib EXCEPT ![w] = RibAdd(S.rib[w], d, g)]
           T == [S EXCEPT !.rib = q]
           m == CachedEth(S, w, g)
           U == AddFlows(T, w, {d}, m)
<1>0. DOMAIN S = Fields /\ S.neigh \in Cache /\ RibSound(S.rib) /\ BgpRouted(S.rib, bgp)
  BY DEF InStep
<1>1. add_route(S, v, g, d) =
        IF w = None THEN S ELSE IF S.rib[w].routes[d] = g THEN S ELSE IF m # None THEN U ELSE T
  BY DEF add_route
<1>2. CASE w = None
  BY <1>1, <1>2
<1>3. CASE w # None
  <2>1. w \in Vlan /\ Fits(w, d, g)
    BY <1>3, GwVlan
  <2> HIDE DEF w
  <2>q. q = WithRoute(S.rib, w, d, g)
    BY DEF WithRoute
  <2> HIDE DEF q
  <2>2. /\ RibSound(q) /\ BgpRouted(q, bgp)
        /\ \A x \in Vlan, e \in Dst :
             q[x].routes[e] = IF x = w /\ e = d THEN g ELSE S.rib[x].routes[e]
        /\ \A x \in Vlan, h \in Ip, e \in Dst : e \in S.rib[x].gws[h] => e \in q[x].gws[h]
        /\ d \in q[w].gws[g]
    BY <1>0, <2>1, <2>q, RibAdded
  <2>3. /\ DOMAIN T = Fields /\ T.neigh = S.neigh /\ T.rib = q
        /\ T.add = S.add /\ T.del = S.del
    BY <1>0 DEF Fields
  <2> HIDE DEF T
  <2>4. /\ \A x, ip : CachedEth(T, x, ip) = CachedEth(S, x, ip)
        /\ \A x \in Vlan, e \in Dst : Sent(T, Right)[x][e] = Sent(S, Right)[x][e]
    BY <2>3 DEF CachedEth, Sent
  <2>5. CASE m = None
    <3>1. ASSUME NEW x \in Vlan, NEW ip \in Ip, <<x, ip>> \notin X PROVE HopInstalled(T, x, ip)
      <4> SUFFICES ASSUME running, CachedEth(S, x, ip) # None, NEW e \in Dst,
                          NEW y \in _routed_vlans(x), q[x].routes[e] = ip
                   PROVE  Sent(S, Right)[y][e] = CachedEth(S, x, ip)
        BY <2>3, <2>4, RoutedVlans DEF HopInstalled
      <4>1. S.rib[x].routes[e] = ip
        BY <2>2, <2>5 DEF m
      <4>2. HopInstalled(S, x, ip)
        BY <3>1 DEF InStep
      <4> QED
        BY <4>1, <4>2 DEF HopInstalled
    <3>2. InStep(T, X) /\ T.rib[w].routes[d] = g
      BY <1>0, <2>1, <2>2, <2>3, <3>1 DEF InStep
    <3> QED
      BY <1>1, <1>3, <2>5, <3>2 DEF w
  <2>6. CASE m # None
    <3>1. m \in Mac /\ m # NoRule
      BY <1>0, <2>1, <2>6, EthType, SymbolAssumption
    <3>m. m = CachedEth(S, w, g)
      OBVIOUS
    <3> HIDE DEF m
    <3>2. /\ U.rib = q /\ DOMAIN U = Fields /\ U.neigh = S.neigh
          /\ \A y \in Vlan, e \in Dst :
               Sent(U, Right)[y][e] = IF y \in _routed_vlans(w) /\ e \in {d} THEN m ELSE Sent(T, Right)[y][e]
      BY <2>3, <3>1, AddRules, AddFlowsKeeps
    <3> HIDE DEF U
    <3>3. ASSUME NEW x \in Vlan, NEW ip \in Ip, <<x, ip>> \notin X PROVE HopInstalled(U, x, ip)
      <4>0. CachedEth(U, x, ip) = CachedEth(S, x, ip)
        BY <3>2 DEF CachedEth
      <4> SUFFICES ASSUME running, CachedEth(S, x, ip) # None, NEW e \in Dst,
                          NEW y \in _routed_vlans(x), q[x].routes[e] = ip
                   PROVE  Sent(U, Right)[y][e] = CachedEth(S, x, ip)
        BY <3>2, <4>0 DEF HopInstalled
      <4>1. y \in Vlan
        BY RoutedVlans
      <4>2. CASE y \in _routed_vlans(w) /\ e = d
        <5>1. d \in q[x].gws[ip]
          BY <2>2, <4>2 DEF RibSound
        <5>2. x = w /\ ip = g
          BY <2>1, <2>2, <4>2, <5>1, Apart
        <5> QED
          BY <3>2, <3>m, <4>1, <4>2, <5>2
      <4>3. CASE ~(y \in _routed_vlans(w) /\ e = d)
        <5>1. ~(x = w /\ e = d)
          BY <4>3
        <5>2. S.rib[x].routes[e] = ip
          BY <2>2, <5>1
        <5>3. HopInstalled(S, x, ip)
          BY <3>3 DEF InStep
        <5> QED
          BY <2>4, <3>2, <4>1, <4>3, <5>2, <5>3 DEF HopInstalled
      <4> QED
        BY <4>2, <4>3
    <3>4. InStep(U, X) /\ U.rib[w].routes[d] = g
      BY <1>0, <2>1, <2>2, <3>2, <3>3 DEF InStep
    <3> QED
      BY <1>1, <1>3, <2>6, <3>4 DEF m, w
  <2> QED
    BY <2>5, <2>6
<1> QED
  BY <1>2, <1>3

\* A host route, and for an address nobody answered for yet the blackhole.
LEMMA HostRouteAdded ==
  ASSUME OneRouteEach, NEW S, NEW X, InStep(S, X), NEW v \in Vlan, NEW ip \in Ip
  PROVE  /\ InStep(_add_host_fib_route(S, v, ip, FALSE), X)
         /\ ip \in Subnet[v] => InStep(_add_host_fib_route(S, v, ip, TRUE), X \cup {<<v, ip>>})
<1>0. DOMAIN S = Fields /\ S.neigh \in Cache /\ RibSound(S.rib) /\ BgpRouted(S.rib, bgp)
  BY DEF InStep
<1>1. ip \in Dst /\ (router_vlan_for_ip_gw(v, ip) # None => Fits(router_vlan_for_ip_gw(v, ip), ip, ip))
  BY GwVlan, SymbolAssumption DEF Dst, Fits
<1>2. \A T, Y : InStep(T, Y) => InStep(add_route(T, v, ip, ip), Y)
  BY <1>1, RouteAdded
<1>3. ASSUME ip \in Subnet[v]
      PROVE  InStep(_add_host_fib_route(S, v, ip, TRUE), X \cup {<<v, ip>>})
  <2> DEFINE T == AddFlows(S, v, {ip}, Drop)
             Y == X \cup {<<v, ip>>}
  <2>1. /\ T.rib = S.rib /\ DOMAIN T = Fields /\ T.neigh = S.neigh
        /\ \A y \in Vlan, e \in Dst :
             Sent(T, Right)[y][e] = IF y \in _routed_vlans(v) /\ e \in {ip} THEN Drop ELSE Sent(S, Right)[y][e]
    BY <1>0, AddRules, AddFlowsKeeps, SymbolAssumption
  <2> HIDE DEF T
  <2>2. ASSUME NEW x \in Vlan, NEW h \in Ip, <<x, h>> \notin Y PROVE HopInstalled(T, x, h)
    <3>0. CachedEth(T, x, h) = CachedEth(S, x, h)
      BY <2>1 DEF CachedEth
    <3> SUFFICES ASSUME running, CachedEth(S, x, h) # None, NEW e \in Dst,
                        NEW y \in _routed_vlans(x), S.rib[x].routes[e] = h
                 PROVE  Sent(T, Right)[y][e] = CachedEth(S, x, h)
      BY <2>1, <3>0 DEF HopInstalled
    <3>1. y \in Vlan /\ HopInstalled(S, x, h)
      BY <2>2, RoutedVlans DEF InStep
    <3>2. e # ip
      <4> SUFFICES ASSUME e = ip PROVE FALSE
        OBVIOUS
      <4>1. Fits(x, ip, h)
        BY <1>0 DEF RibSound
      <4>2. h = ip /\ ip \in Subnet[x]
        BY <4>1 DEF Fits
      <4>3. x = v
        BY <4>2, <1>3, RouteAssumption
      <4> QED
        BY <2>2, <4>2, <4>3
    <3> QED
      BY <2>1, <3>1, <3>2 DEF HopInstalled
  <2> HIDE DEF Y
  <2>3. InStep(T, Y)
    BY <1>0, <2>1, <2>2 DEF InStep
  <2> QED
    BY <2>3, <1>2 DEF _add_host_fib_route, T, Y
<1> QED
  BY <1>2, <1>3 DEF _add_host_fib_route

\* An entry that is set anew: unresolved, or with the MAC its rules have.
LEMMA HopSet ==
  ASSUME NEW S, NEW X, InStep(S, X), NEW w \in Vlan, NEW ip \in Ip, NEW h \in Hop \ {NoEntry},
         X \subseteq {<<w, ip>>},
         running /\ h.eth # None => \A d \in Dst, v \in _routed_vlans(w) :
           S.rib[w].routes[d] = ip => Sent(S, Right)[v][d] = h.eth
  PROVE  InStep(SetHop(S, w, ip, h), {})
<1> DEFINE U == SetHop(S, w, ip, h)
           n == [S.neigh EXCEPT ![w] = [S.neigh[w] EXCEPT ![ip] = h]]
<1>0. DOMAIN S = Fields /\ S.neigh \in Cache /\ RibSound(S.rib) /\ BgpRouted(S.rib, bgp)
  BY DEF InStep
<1>1. DOMAIN U = Fields /\ U.neigh = n /\ U.rib = S.rib /\ U.add = S.add /\ U.del = S.del
  BY <1>0 DEF SetHop, Fields
<1>2. n \in Cache /\ n[w][ip] = h
  BY <1>0 DEF Cache
<1>3. \A x \in Vlan, y \in Ip : ~(x = w /\ y = ip) => n[x][y] = S.neigh[x][y]
  BY <1>0 DEF Cache
<1> HIDE DEF U, n
<1>4. \A x \in Vlan, e \in Dst : Sent(U, Right)[x][e] = Sent(S, Right)[x][e]
  BY <1>1 DEF Sent
<1>5. ASSUME NEW x \in Vlan, NEW y \in Ip PROVE HopInstalled(U, x, y)
  <2>0. _routed_vlans(x) \subseteq Vlan
    BY RoutedVlans
  <2>1. CASE x = w /\ y = ip
    <3>1. CachedEth(U, w, ip) = h.eth
      BY <1>1, <1>2 DEF CachedEth
    <3> QED
      BY <1>1, <1>4, <2>0, <2>1, <3>1 DEF HopInstalled
  <2>2. CASE ~(x = w /\ y = ip)
    <3>1. CachedEth(U, x, y) = CachedEth(S, x, y)
      BY <1>1, <1>3, <2>2 DEF CachedEth
    <3>2. HopInstalled(S, x, y)
      <4>1. <<x, y>> \notin X
        BY <2>2
      <4> QED
        BY <4>1 DEF InStep
    <3> QED
      BY <1>1, <1>4, <2>0, <3>1, <3>2 DEF HopInstalled
  <2> QED
    BY <2>1, <2>2
<1> QED
  BY <1>0, <1>1, <1>2, <1>5 DEF InStep, U

\* An answer: the rules of everything routed through the address get the MAC.
LEMMA Updated ==
  ASSUME OneRouteEach, NEW S, InStep(S, {}), NEW w \in Vlan, NEW mac \in Mac, NEW ip \in Ip
  PROVE  InStep(_update_nexthop(S, w, mac, ip), {})
<1> DEFINE old == CachedEth(S, w, ip)
           D == S.rib[w].gws[ip]
           U == IF old # None THEN DelFlows(S, w, D) ELSE S
           V == AddFlows(U, w, D, mac)
           T == IF old = mac THEN S ELSE V
           h == NewHop(mac, At[mac])
           X == {<<w, ip>>}
<1>0. DOMAIN S = Fields /\ S.neigh \in Cache /\ RibSound(S.rib) /\ BgpRouted(S.rib, bgp)
  BY DEF InStep
<1>1. h \in Hop \ {NoEntry} /\ h.eth = mac
  BY NewHopType DEF NewHop
<1>2. \A d \in Dst : S.rib[w].routes[d] = ip => d \in D
  BY <1>0 DEF RibSound
<1>3. _update_nexthop(S, w, mac, ip) = SetHop(T, w, ip, h)
  BY DEF _update_nexthop
<1> HIDE DEF h
<1>4. CASE old = mac
  <2>1. HopInstalled(S, w, ip)
    BY DEF InStep
  <2>2. InStep(SetHop(S, w, ip, h), {})
    BY <1>1, <1>4, <2>1, HopSet DEF HopInstalled
  <2> QED
    BY <1>3, <1>4, <2>2
<1>5. CASE old # mac
  <2> HIDE DEF old
  <2>a. \A d \in Dst, g \in Ip, x \in Vlan : \A y :
           (/\ d \in D
            /\ S.rib[x].routes[d] = g
            /\ y \in _routed_vlans(x)
            /\ y \in _routed_vlans(w))
           => x = w /\ g = ip
    <3> SUFFICES ASSUME NEW d \in Dst, NEW g \in Ip, NEW x \in Vlan, NEW y,
                        d \in D, S.rib[x].routes[d] = g,
                        y \in _routed_vlans(x), y \in _routed_vlans(w)
                 PROVE  x = w /\ g = ip
      OBVIOUS
    <3>1. d \in S.rib[x].gws[g]
      BY <1>0 DEF RibSound
    <3> QED
      BY <1>0, <3>1, Apart
  <2>d. D = S.rib[w].gws[ip]
    OBVIOUS
  <2> HIDE DEF D
  <2>1. /\ DOMAIN U = Fields /\ U.neigh = S.neigh /\ U.rib = S.rib
        /\ \A v \in Vlan, d \in Dst : ~(v \in _routed_vlans(w) /\ d \in D)
              => Sent(U, Right)[v][d] = Sent(S, Right)[v][d]
    BY <1>0, DelRules, DelFlowsKeeps
  <2> HIDE DEF U
  <2>2. mac # NoRule
    BY SymbolAssumption
  <2>3. /\ DOMAIN V = Fields /\ V.neigh = S.neigh /\ V.rib = S.rib
        /\ \A v \in Vlan, d \in Dst :
             Sent(V, Right)[v][d] = IF v \in _routed_vlans(w) /\ d \in D THEN mac ELSE Sent(U, Right)[v][d]
    BY <2>1, <2>2, AddRules, AddFlowsKeeps
  <2> HIDE DEF V
  <2>4. ASSUME NEW x \in Vlan, NEW y \in Ip, <<x, y>> \notin X PROVE HopInstalled(V, x, y)
    <3>0. CachedEth(V, x, y) = CachedEth(S, x, y) /\ _routed_vlans(x) \subseteq Vlan
      BY <2>3, RoutedVlans DEF CachedEth
    <3>1. HopInstalled(S, x, y)
      BY DEF InStep
    <3> SUFFICES ASSUME running, CachedEth(S, x, y) # None, NEW e \in Dst,
                        NEW v \in _routed_vlans(x), S.rib[x].routes[e] = y
                 PROVE  Sent(V, Right)[v][e] = CachedEth(S, x, y)
      BY <2>3, <3>0 DEF HopInstalled
    <3>2. ~(v \in _routed_vlans(w) /\ e \in D)
      BY <2>a, <2>4
    <3> QED
      BY <2>1, <2>3, <3>0, <3>1, <3>2 DEF HopInstalled
  <2>5. InStep(V, X)
    BY <1>0, <2>3, <2>4 DEF InStep
  <2>6. \A d \in Dst, v \in _routed_vlans(w) : V.rib[w].routes[d] = ip => Sent(V, Right)[v][d] = h.eth
    BY <1>1, <1>2, <2>3, RoutedVlans
  <2>7. InStep(SetHop(V, w, ip, h), {})
    BY <1>1, <2>5, <2>6, HopSet
  <2> QED
    BY <1>3, <1>5, <2>7
<1> QED
  BY <1>4, <1>5

LEMMA Learned ==
  ASSUME OneRouteEach, NEW S, InStep(S, {}), NEW p \in Packet
  PROVE  InStep(LearnSource(S, p), {})
<1>1. p.vlan \in Vlan /\ p.src \in Ip /\ p.mac \in Mac
  BY DEF Packet
<1>2. InStep(_add_host_fib_route(S, p.vlan, p.src, FALSE), {})
  BY <1>1, HostRouteAdded
<1>3. InStep(_update_nexthop(_add_host_fib_route(S, p.vlan, p.src, FALSE), p.vlan, p.mac, p.src), {})
  BY <1>1, <1>2, Updated
<1> QED
  BY <1>3 DEF LearnSource

\* Probes, and entries that are added unresolved, leave the MACs alone.
LEMMA SameMacs ==
  ASSUME NEW S, InStep(S, {}), NEW T, DOMAIN T = Fields, T.neigh \in Cache,
         T.rib = S.rib, T.add = S.add, T.del = S.del,
         \A w \in Vlan, ip \in Ip : CachedEth(T, w, ip) \in {None, CachedEth(S, w, ip)}
  PROVE  InStep(T, {})
<1>1. \A x \in Vlan, e \in Dst : Sent(T, Right)[x][e] = Sent(S, Right)[x][e]
  BY DEF Sent
<1>2. ASSUME NEW w \in Vlan, NEW ip \in Ip PROVE HopInstalled(T, w, ip)
  <2>1. HopInstalled(S, w, ip) /\ _routed_vlans(w) \subseteq Vlan
    BY RoutedVlans DEF InStep
  <2> QED
    BY <1>1, <2>1 DEF HopInstalled
<1> QED
  BY <1>2 DEF InStep

LEMMA Probed ==
  ASSUME NEW S, InStep(S, {}), NEW X,
         \A w \in Vlan, ip \in Ip : ip \in X[w] => S.neigh[w][ip] # NoEntry
  PROVE  InStep(_resolve_gateway_flows(S, X), {})
<1> DEFINE n == [w \in Vlan |-> [ip \in Ip |->
                   IF ip \in X[w] /\ CanProbe(w, ip) THEN next_retry(S.neigh[w][ip])
                   ELSE S.neigh[w][ip]]]
           U == _resolve_gateway_flows(S, X)
<1>0. DOMAIN S = Fields /\ S.neigh \in Cache
  BY DEF InStep
<1>1. DOMAIN U = Fields /\ U.neigh = n /\ U.rib = S.rib /\ U.add = S.add /\ U.del = S.del
  BY <1>0 DEF _resolve_gateway_flows, Fields
<1>2. ASSUME NEW w \in Vlan, NEW ip \in Ip
      PROVE  n[w][ip] \in Hop /\ CachedEth(U, w, ip) \in {None, CachedEth(S, w, ip)}
  <2>0. S.neigh[w][ip] \in Hop
    BY <1>0 DEF Cache
  <2>1. CASE ip \in X[w] /\ CanProbe(w, ip)
    <3> DEFINE e == S.neigh[w][ip]
    <3>1. e # NoEntry /\ n[w][ip] = next_retry(e) /\ e \in Hop
      BY <2>0, <2>1
    <3> HIDE DEF e
    <3>2. next_retry(e) \in Hop \ {NoEntry}
      BY <3>1, NextRetryType
    <3>3. next_retry(e).eth = e.eth
      BY <3>1 DEF next_retry, Hop, NextHop
    <3> QED
      BY <1>1, <3>1, <3>2, <3>3 DEF CachedEth, e
  <2>2. CASE ~(ip \in X[w] /\ CanProbe(w, ip))
    BY <1>1, <2>0, <2>2 DEF CachedEth
  <2> QED
    BY <2>1, <2>2
<1>3. n \in Cache
  BY <1>2 DEF Cache
<1> HIDE DEF n, U
<1> QED
  BY <1>1, <1>2, <1>3, SameMacs DEF U

LEMMA MissingAdded ==
  ASSUME NEW S, InStep(S, {}), NEW G
  PROVE  InStep(WithMissing(S, G), {})
<1> DEFINE n == [w \in Vlan |-> [ip \in Ip |->
                   IF ip \in Missing(S, w, G[w]) THEN NewHop(None, None) ELSE S.neigh[w][ip]]]
           U == WithMissing(S, G)
<1>0. DOMAIN S = Fields /\ S.neigh \in Cache
  BY DEF InStep
<1>1. DOMAIN U = Fields /\ U.neigh = n /\ U.rib = S.rib /\ U.add = S.add /\ U.del = S.del
  BY <1>0 DEF WithMissing, Fields
<1>2. NewHop(None, None).eth = None /\ NewHop(None, None) \in Hop
  BY NewHopType DEF NewHop
<1>3. ASSUME NEW w \in Vlan, NEW ip \in Ip
      PROVE  n[w][ip] \in Hop /\ CachedEth(U, w, ip) \in {None, CachedEth(S, w, ip)}
  <2>0. S.neigh[w][ip] \in Hop
    BY <1>0 DEF Cache
  <2>1. n[w][ip] = NewHop(None, None) \/ n[w][ip] = S.neigh[w][ip]
    OBVIOUS
  <2> HIDE DEF n
  <2> QED
    BY <1>1, <1>2, <2>0, <2>1 DEF CachedEth
<1>4. n \in Cache
  BY <1>3 DEF Cache
<1> HIDE DEF n, U
<1> QED
  BY <1>1, <1>3, <1>4, SameMacs DEF U

\* Host routes of dropped entries go; routes of other gateways stay.
WithoutHosts(r, H) ==
  [w \in Vlan |->
     [routes |-> [d \in Dst |-> IF d \in H[w] THEN None ELSE r[w].routes[d]],
      gws |-> [g \in Ip |-> IF g \in H[w] THEN r[w].gws[g] \ {g} ELSE r[w].gws[g]],
      known |-> r[w].known \cup H[w]]]

LEMMA HostsGone ==
  ASSUME NEW r, RibSound(r), NEW b, BgpRouted(r, b), NEW H, \A w \in Vlan : H[w] \subseteq Ip
  PROVE  /\ RibSound(WithoutHosts(r, H)) /\ BgpRouted(WithoutHosts(r, H), b)
         /\ \A w \in Vlan, d \in Dst, g \in Ip :
              WithoutHosts(r, H)[w].routes[d] = g => r[w].routes[d] = g
<1> DEFINE q == WithoutHosts(r, H)
<1>0. \A w \in Vlan : r[w] \in Rib
  BY DEF RibSound
<1>1. ASSUME NEW w \in Vlan
      PROVE  /\ q[w] \in Rib
             /\ \A d \in Dst : q[w].routes[d] = IF d \in H[w] THEN None ELSE r[w].routes[d]
             /\ \A g \in Ip, d \in Dst : d \in q[w].gws[g] <=> d \in r[w].gws[g] /\ ~(g \in H[w] /\ d = g)
  <2> DEFINE R == [d \in Dst |-> IF d \in H[w] THEN None ELSE r[w].routes[d]]
             W == [g \in Ip |-> IF g \in H[w] THEN r[w].gws[g] \ {g} ELSE r[w].gws[g]]
             K == r[w].known \cup H[w]
  <2>1. q[w] = [routes |-> R, gws |-> W, known |-> K]
    BY DEF WithoutHosts
  <2>2. r[w].routes \in [Dst -> Ip \cup {None}] /\ r[w].gws \in [Ip -> SUBSET Dst] /\ r[w].known \subseteq Ip
    BY <1>0 DEF Rib
  <2>3. R \in [Dst -> Ip \cup {None}]
    BY <2>2
  <2>4. W \in [Ip -> SUBSET Dst]
    <3>1. \A g \in Ip : W[g] \in SUBSET Dst
      BY <2>2
    <3> QED
      BY <3>1
  <2>5. K \in SUBSET Ip
    BY <2>2
  <2>6. \A g \in Ip, d \in Dst : d \in W[g] <=> d \in r[w].gws[g] /\ ~(g \in H[w] /\ d = g)
    BY <2>2
  <2>7. \A d \in Dst : R[d] = IF d \in H[w] THEN None ELSE r[w].routes[d]
    OBVIOUS
  <2> HIDE DEF R, W, K, q
  <2> QED
    BY <2>1, <2>3, <2>4, <2>5, <2>6, <2>7 DEF Rib
<1>2. q \in [Vlan -> Rib]
  <2>1. q = [w \in Vlan |-> q[w]]
    BY DEF WithoutHosts
  <2> HIDE DEF q
  <2> QED
    BY <1>1, <2>1
<1> HIDE DEF q
<1>3. \A w \in Vlan, d \in Dst, g \in Ip : q[w].routes[d] = g => r[w].routes[d] = g /\ d \notin H[w]
  BY <1>1, SymbolAssumption
<1>4. RibSound(q)
  BY <1>1, <1>2, <1>3 DEF RibSound
<1>5. BgpRouted(q, b)
  <2>1. \A w \in Vlan, p \in Prefix : p \in Dst /\ p \notin H[w]
    BY SymbolAssumption DEF Dst
  <2> QED
    BY <1>1, <2>1 DEF BgpRouted
<1> QED
  BY <1>3, <1>4, <1>5 DEF q

LEMMA Expired ==
  ASSUME OneRouteEach, NEW S, NEW X, InStep(S, X), NEW E, \A w \in Vlan : E[w] \subseteq Ip
  PROVE  InStep(ExpireHops(S, E), X)
<1> DEFINE hosts(w) == {ip \in E[w] : S.rib[w].routes[ip] # None}
           H == [w \in Vlan |-> hosts(w)]
           gone(w) == {d \in Dst : \E ip \in E[w] :
                         /\ S.neigh[w][ip].port # None
                         /\ d \in S.rib[w].gws[ip] \cup ({ip} \cap hosts(w))}
           qq == [w \in Vlan |->
                    [routes |-> [d \in Dst |-> IF d \in hosts(w) THEN None ELSE S.rib[w].routes[d]],
                     gws |-> [g \in Ip |-> IF g \in hosts(w) THEN S.rib[w].gws[g] \ {g}
                                           ELSE S.rib[w].gws[g]],
                     known |-> S.rib[w].known \cup hosts(w)]]
           n == [w \in Vlan |-> [ip \in Ip |-> IF ip \in E[w] THEN NoEntry ELSE S.neigh[w][ip]]]
           k == [v \in Vlan |->
                   S.del[v] \cup UNION {gone(w) : w \in {x \in Vlan : v \in _routed_vlans(x)}}]
           q == WithoutHosts(S.rib, H)
           U == ExpireHops(S, E)
<1>0. DOMAIN S = Fields /\ S.neigh \in Cache /\ RibSound(S.rib) /\ BgpRouted(S.rib, bgp)
  BY DEF InStep
<1>a. U = [S EXCEPT !.rib = qq, !.neigh = n, !.del = k]
  BY DEF ExpireHops
<1>b. \A w \in Vlan : H[w] = hosts(w)
  OBVIOUS
<1>c. qq = q
  <2> HIDE DEF hosts, H
  <2> QED BY <1>b DEF WithoutHosts
<1>1. U = [S EXCEPT !.rib = q, !.neigh = n, !.del = k]
  BY <1>a, <1>c
<1>2. \A w \in Vlan : H[w] \subseteq Ip
  OBVIOUS
\* What is deleted is a destination of an entry that is dropped.
<1>3. ASSUME NEW w \in Vlan, NEW d \in Dst, d \in gone(w)
      PROVE  \E ip \in Ip : ip \in E[w] /\ d \in S.rib[w].gws[ip]
  <2>1. PICK ip \in E[w] : d \in S.rib[w].gws[ip] \/ (d = ip /\ d \in hosts(w))
    BY <1>3
  <2>2. CASE d \in S.rib[w].gws[ip]
    BY <2>1, <2>2
  <2>3. CASE d = ip /\ d \in hosts(w)
    <3>1. S.rib[w].routes[d] \in Ip
      <4>1. S.rib[w] \in Rib
        BY <1>0 DEF RibSound
      <4>2. S.rib[w].routes \in [Dst -> Ip \cup {None}]
        BY <4>1 DEF Rib
      <4> QED
        BY <2>3, <4>2
    <3>2. d \in S.rib[w].gws[S.rib[w].routes[d]]
      BY <1>0, <3>1 DEF RibSound
    <3>3. Fits(w, d, S.rib[w].routes[d])
      BY <1>0, <3>1, <3>2 DEF RibSound
    <3>4. S.rib[w].routes[d] = d
      BY <2>1, <2>3, <3>3 DEF Fits
    <3> QED
      BY <2>1, <2>3, <3>2, <3>4
  <2> QED
    BY <2>1, <2>2, <2>3
<1>4. \A v \in Vlan, d \in Dst : d \in k[v] <=>
        d \in S.del[v] \/ \E w \in Vlan : v \in _routed_vlans(w) /\ d \in gone(w)
  <2> HIDE DEF gone
  <2> QED OBVIOUS
<1> HIDE DEF hosts, H, gone, qq
<1>5. /\ RibSound(q) /\ BgpRouted(q, bgp)
      /\ \A w \in Vlan, d \in Dst, g \in Ip : q[w].routes[d] = g => S.rib[w].routes[d] = g
  BY <1>0, <1>2, HostsGone
<1>6. n \in Cache
  BY <1>0 DEF Cache, Hop
<1>7. \A w \in Vlan, ip \in Ip : ip \in E[w] => n[w][ip] = NoEntry
  OBVIOUS
<1>8. \A w \in Vlan, ip \in Ip : ip \notin E[w] => n[w][ip] = S.neigh[w][ip]
  OBVIOUS
<1> HIDE DEF q, n, k
<1>9. /\ DOMAIN U = Fields /\ U.rib = q /\ U.neigh = n /\ U.add = S.add /\ U.del = k
  <2> HIDE DEF U
  <2> QED BY <1>0, <1>1 DEF Fields
<1> HIDE DEF U
<1>10. ASSUME NEW w \in Vlan, NEW ip \in Ip, <<w, ip>> \notin X PROVE HopInstalled(U, w, ip)
  <2> SUFFICES ASSUME running, CachedEth(U, w, ip) # None, NEW d \in Dst,
                      NEW v \in _routed_vlans(w), U.rib[w].routes[d] = ip
               PROVE  Sent(U, Right)[v][d] = CachedEth(U, w, ip)
    BY DEF HopInstalled
  <2>1. ip \notin E[w] /\ CachedEth(U, w, ip) = CachedEth(S, w, ip)
    BY <1>7, <1>8, <1>9 DEF CachedEth
  <2>2. S.rib[w].routes[d] = ip /\ d \in S.rib[w].gws[ip] /\ v \in Vlan
    BY <1>0, <1>5, <1>9, RoutedVlans DEF RibSound
  <2>3. \A x \in Vlan : v \in _routed_vlans(x) => d \notin gone(x)
    <3> SUFFICES ASSUME NEW x \in Vlan, v \in _routed_vlans(x), d \in gone(x) PROVE FALSE
      OBVIOUS
    <3>1. PICK h \in Ip : h \in E[x] /\ d \in S.rib[x].gws[h]
      BY <1>3
    <3>2. x = w /\ h = ip
      BY <1>0, <2>2, <3>1, Apart
    <3> QED
      BY <2>1, <3>1, <3>2
  <2>4. Sent(U, Right)[v][d] = Sent(S, Right)[v][d]
    BY <1>4, <1>9, <2>2, <2>3 DEF Sent
  <2>5. HopInstalled(S, w, ip)
    BY <1>10 DEF InStep
  <2> QED
    BY <2>1, <2>2, <2>4, <2>5 DEF HopInstalled
<1>11. InStep(U, X)
  BY <1>5, <1>6, <1>9, <1>10 DEF InStep
<1> QED
  BY <1>11 DEF U

LEMMA ExpiredOrProbed ==
  ASSUME OneRouteEach, NEW S, InStep(S, {}), NEW X,
         \A w \in Vlan : X[w] \subseteq DueHops(S, w, Ip)
  PROVE  InStep(_resolve_expire_gateway_flows(S, X), {})
<1> DEFINE dead == [w \in Vlan |-> {ip \in X[w] : nexthop_dead(S.neigh[w][ip])}]
           Y == [w \in Vlan |-> X[w] \ dead[w]]
           T == _resolve_gateway_flows(S, Y)
<1>1. \A w \in Vlan, ip \in Ip : ip \in Y[w] => S.neigh[w][ip] # NoEntry
  BY DEF DueHops, Hops
<1>2. \A w \in Vlan : dead[w] \subseteq Ip
  BY DEF DueHops
<1> HIDE DEF dead, Y
<1>3. InStep(T, {})
  BY <1>1, Probed
<1> HIDE DEF T
<1>4. InStep(ExpireHops(T, dead), {})
  BY <1>2, <1>3, Expired
<1> QED
  BY <1>4 DEF _resolve_expire_gateway_flows, T, Y, dead

-----------------------------------------------------------------------------
(***************************************************************************)
(* Handlers: what they leave behind is in step.                            *)
(***************************************************************************)

FibShape == fib = [v \in Vlan |-> [d \in Dst |-> fib[v][d]]]

RuleInv == RibSound(rib) /\ BgpRouted(rib, bgp) /\ FibShape /\ ResolvedIsInstalled
RulesKept == RibSound(rib') /\ BgpRouted(rib', bgp) /\ FibShape' /\ ResolvedIsInstalled'

\* A rule is wanted by one gateway only.
LEMMA WantedIs ==
  ASSUME OneRouteEach, RuleInv, NEW w \in Vlan, NEW ip \in Ip, NEW d \in Dst,
         NEW v \in _routed_vlans(w), rib[w].routes[d] = ip,
         neigh[w][ip] # NoEntry, neigh[w][ip].eth # None
  PROVE  Wanted(v, d) = neigh[w][ip].eth
<1> DEFINE P(m) == \E x \in Vlan, h \in Ip :
             /\ v \in _routed_vlans(x) /\ rib[x].routes[d] = h
             /\ neigh[x][h] # NoEntry /\ neigh[x][h].eth # None /\ m = neigh[x][h].eth
<1>1. P(neigh[w][ip].eth)
  OBVIOUS
<1>2. ASSUME NEW m, P(m) PROVE m = neigh[w][ip].eth
  <2>1. PICK x \in Vlan, h \in Ip : v \in _routed_vlans(x) /\ rib[x].routes[d] = h /\ m = neigh[x][h].eth
    BY <1>2
  <2>2. RibSound(rib) /\ d \in rib[w].gws[ip] /\ d \in rib[x].gws[h]
    BY <2>1 DEF RuleInv, RibSound
  <2>3. w = x /\ ip = h
    BY <2>1, <2>2, Apart
  <2> QED
    BY <2>1, <2>3
<1>3. Wanted(v, d) = CHOOSE m : P(m)
  BY DEF Wanted
<1> HIDE DEF P
<1>4. P(CHOOSE m : P(m))
  BY <1>1
<1> QED
  BY <1>2, <1>3, <1>4

LEMMA BeginInStep ==
  ASSUME OneRouteEach, neigh \in Cache, RuleInv
  PROVE  InStep(Begin, {}) /\ Begin.neigh = neigh /\ Begin.rib = rib
<1>1. /\ DOMAIN Begin = Fields /\ Begin.neigh = neigh /\ Begin.rib = rib
      /\ Begin.del = [v \in Vlan |-> {}] /\ Begin.add = [v \in Vlan |-> [d \in Dst |-> NoRule]]
  BY DEF Begin, Fields
<1>2. \A v \in Vlan, d \in Dst : Sent(Begin, Right)[v][d] = Right[v][d]
  BY <1>1 DEF Sent
<1>3. ASSUME NEW w \in Vlan, NEW ip \in Ip PROVE HopInstalled(Begin, w, ip)
  <2> SUFFICES ASSUME running, CachedEth(Begin, w, ip) # None, NEW d \in Dst,
                      NEW v \in _routed_vlans(w), rib[w].routes[d] = ip
               PROVE  Right[v][d] = CachedEth(Begin, w, ip)
    BY <1>1, <1>2, RoutedVlans DEF HopInstalled
  <2>1. /\ neigh[w][ip] # NoEntry /\ neigh[w][ip].eth # None
        /\ CachedEth(Begin, w, ip) = neigh[w][ip].eth
    BY <1>1 DEF CachedEth
  <2>2. Wanted(v, d) = neigh[w][ip].eth
    BY <2>1, WantedIs
  <2>3. <<v, d>> \notin late \cup PendingRules => fib[v][d] = neigh[w][ip].eth
    BY <2>1 DEF RuleInv, ResolvedIsInstalled
  <2> QED
    BY <2>1, <2>2, <2>3, RoutedVlans DEF Right
<1> QED
  BY <1>1, <1>3 DEF InStep, RuleInv

LEMMA PendingKept == ASSUME UNCHANGED pend PROVE PendingRules' = PendingRules
BY DEF PendingRules, _routed_vlans

\* A rule the handler writes or deletes is right again, the others are as late
\* as they were.
LEMMA CommitKeeps ==
  ASSUME NEW S, InStep(S, {}), Commit(S), UNCHANGED <<running, pend>>, FibShape
  PROVE  RulesKept
<1>1. /\ rib' = S.rib /\ neigh' = S.neigh /\ (running => fib' = Sent(S, fib))
      /\ late' = {x \in late : S.add[x[1]][x[2]] = NoRule /\ x[2] \notin S.del[x[1]]}
  BY DEF Commit
<1>2. ASSUME running', NEW w \in Vlan, NEW ip \in Ip, NEW d \in Dst,
             neigh'[w][ip] # NoEntry, neigh'[w][ip].eth # None, rib'[w].routes[d] = ip,
             NEW v \in _routed_vlans(w), <<v, d>> \notin late' \cup PendingRules
      PROVE  fib'[v][d] = neigh'[w][ip].eth
  <2>1. HopInstalled(S, w, ip)
    BY DEF InStep
  <2>2. CachedEth(S, w, ip) = neigh'[w][ip].eth
    BY <1>1, <1>2 DEF CachedEth
  <2>3. Sent(S, Right)[v][d] = neigh'[w][ip].eth
    BY <1>1, <1>2, <2>1, <2>2 DEF HopInstalled
  <2>4. v \in Vlan /\ fib'[v][d] = Sent(S, fib)[v][d]
    BY <1>1, <1>2, RoutedVlans
  <2>5. CASE <<v, d>> \notin late
    <3>1. Right[v][d] = fib[v][d]
      BY <1>2, <2>4, <2>5 DEF Right
    <3> QED
      BY <2>3, <2>4, <3>1 DEF Sent
  <2>6. CASE <<v, d>> \in late
    <3>1. S.add[v][d] # NoRule \/ d \in S.del[v]
      BY <1>1, <1>2, <2>6
    <3> QED
      BY <2>3, <2>4, <3>1 DEF Sent
  <2> QED
    BY <2>5, <2>6
<1>3. ResolvedIsInstalled'
  BY <1>2, PendingKept DEF ResolvedIsInstalled, _routed_vlans
<1>4. FibShape'
  <2>1. fib' = fib \/ fib' = Sent(S, fib)
    BY DEF Commit
  <2>2. Sent(S, fib) = [v \in Vlan |-> [d \in Dst |-> Sent(S, fib)[v][d]]]
    BY DEF Sent
  <2> QED
    BY <2>1, <2>2 DEF FibShape
<1> QED
  BY <1>1, <1>3, <1>4 DEF InStep, RulesKept

LEMMA ResolverKeeps ==
  ASSUME OneRouteEach, NEW S, InStep(S, {}), NEW w \in Vlan, RunResolver(S, w),
         UNCHANGED <<running, pend>>, FibShape
  PROVE  RulesKept
<1>1. PICK x, y : Commit(ResolveOne(S, w, x, y))
  BY DEF RunResolver
<1> DEFINE T == IF x \in DueHops(S, w, Ip) THEN _resolve_gateway_flows(S, Only(w, x)) ELSE S
<1>2. InStep(T, {})
  <2>1. x \in DueHops(S, w, Ip) =>
          \A v \in Vlan, ip \in Ip : ip \in Only(w, x)[v] => S.neigh[v][ip] # NoEntry
    BY DEF DueHops, Hops, Only
  <2> QED
    BY <2>1, Probed
<1> HIDE DEF T
<1>3. y \in DueHops(T, w, Ip) => \A v \in Vlan : Only(w, y)[v] \subseteq DueHops(T, v, Ip)
  BY DEF Only
<1>4. InStep(IF y \in DueHops(T, w, Ip) THEN _resolve_expire_gateway_flows(T, Only(w, y)) ELSE T, {})
  BY <1>2, <1>3, ExpiredOrProbed
<1>5. InStep(ResolveOne(S, w, x, y), {})
  BY <1>4 DEF ResolveOne, T
<1> QED
  BY <1>1, <1>5, CommitKeeps

LEMMA CycleInStep ==
  ASSUME OneRouteEach, neigh \in Cache, RuleInv, NEW G, NEW X,
         \A w \in Vlan : X[w] \subseteq DueHops(Begin, w, G[w])
  PROVE  /\ InStep(WithMissing(Begin, G), {})
         /\ \A w \in Vlan : X[w] \subseteq DueHops(WithMissing(Begin, G), w, Ip)
<1> DEFINE S == WithMissing(Begin, G)
<1>1. InStep(Begin, {}) /\ Begin.neigh = neigh
  BY BeginInStep
<1>2. InStep(S, {})
  BY <1>1, MissingAdded
<1>3. \A w \in Vlan, ip \in Ip : neigh[w][ip] # NoEntry => S.neigh[w][ip] = neigh[w][ip]
  BY <1>1, BeginSettled, MissingSettled
<1>4. \A w \in Vlan : \A ip \in DueHops(Begin, w, G[w]) :
        ip \in Ip /\ neigh[w][ip] # NoEntry /\ resolution_due(neigh[w][ip])
  BY <1>1 DEF DueHops, Hops
<1> HIDE DEF S
<1>5. \A w \in Vlan : X[w] \subseteq DueHops(S, w, Ip)
  BY <1>3, <1>4 DEF DueHops, Hops
<1> QED
  BY <1>2, <1>5 DEF S

LEMMA CyclesKeep ==
  ASSUME OneRouteEach, neigh \in Cache, RuleInv, ResolveGateways \/ StateExpire
  PROVE  RulesKept
<1>0. UNCHANGED <<running, pend>>
  BY DEF ResolveGateways, StateExpire, speaker
<1>1. CASE ResolveGateways
  <2> DEFINE G == [w \in Vlan |-> RouteGws(rib[w])]
  <2>1. PICK X : /\ \A w \in Vlan : X[w] \subseteq DueHops(Begin, w, G[w])
                 /\ Commit(_resolve_gateway_flows(WithMissing(Begin, G), X))
    BY <1>1 DEF ResolveGateways
  <2> HIDE DEF G
  <2> DEFINE S == WithMissing(Begin, G)
  <2>2. InStep(S, {}) /\ \A w \in Vlan : X[w] \subseteq DueHops(S, w, Ip)
    BY <2>1, CycleInStep
  <2> HIDE DEF S
  <2>3. \A w \in Vlan, ip \in Ip : ip \in X[w] => S.neigh[w][ip] # NoEntry
    BY <2>2 DEF DueHops, Hops
  <2>4. InStep(_resolve_gateway_flows(S, X), {})
    BY <2>2, <2>3, Probed
  <2> QED
    BY <1>0, <2>1, <2>4, CommitKeeps DEF S, RuleInv
<1>2. CASE StateExpire
  <2> DEFINE G == [w \in Vlan |-> HostGws(rib[w])]
  <2>1. PICK X : /\ \A w \in Vlan : X[w] \subseteq DueHops(Begin, w, G[w])
                 /\ Commit(_resolve_expire_gateway_flows(WithMissing(Begin, G), X))
    BY <1>2 DEF StateExpire
  <2> HIDE DEF G
  <2> DEFINE S == WithMissing(Begin, G)
  <2>2. InStep(S, {}) /\ \A w \in Vlan : X[w] \subseteq DueHops(S, w, Ip)
    BY <2>1, CycleInStep
  <2> HIDE DEF S
  <2>3. InStep(_resolve_expire_gateway_flows(S, X), {})
    BY <2>2, ExpiredOrProbed
  <2> QED
    BY <1>0, <2>1, <2>3, CommitKeeps DEF S, RuleInv
<1> QED
  BY <1>1, <1>2

\* Traffic: the blackhole covers the rules of an entry that is unresolved then.
LEMMA ProactiveKeeps ==
  ASSUME OneRouteEach, neigh \in Cache, RuleInv, NEW p \in Packet, Commit(Proactive(p)),
         router_vlan_for_ip_gw(p.vlan, p.dst) # None, UNCHANGED <<running, pend>>
  PROVE  RulesKept
<1> DEFINE w == router_vlan_for_ip_gw(p.vlan, p.dst)
           d == p.dst
           S == LearnSource(Begin, p)
           R == _add_host_fib_route(S, w, d, TRUE)
           h == NewHop(None, None)
           T == SetHop(R, w, d, h)
           U == _resolve_gateway_flows(T, Only(w, d))
<1>1. p.vlan \in Vlan /\ d \in Ip
  BY DEF Packet
<1>2. w \in Vlan /\ d \in Subnet[w]
  BY <1>1, GwVlan
<1>3. InStep(S, {})
  BY BeginInStep, Learned
<1>4. h \in Hop \ {NoEntry} /\ h.eth = None
  BY NewHopType DEF NewHop
<1>5. Proactive(p) = T \/ Proactive(p) = U
  BY DEF Proactive
<1> HIDE DEF S, w, d
<1>6. InStep(R, {} \cup {<<w, d>>})
  BY <1>1, <1>2, <1>3, HostRouteAdded
<1> HIDE DEF R, h
<1>7. InStep(T, {}) /\ T.neigh[w][d] # NoEntry
  <2>1. InStep(T, {})
    BY <1>1, <1>2, <1>4, <1>6, HopSet
  <2>2. T.neigh = [R.neigh EXCEPT ![w] = [R.neigh[w] EXCEPT ![d] = h]] /\ R.neigh \in Cache
    BY <1>6 DEF SetHop, InStep, Fields
  <2>3. T.neigh[w][d] = h
    BY <1>1, <1>2, <2>2 DEF Cache
  <2> QED
    BY <1>4, <2>1, <2>3
<1> HIDE DEF T
<1>8. InStep(U, {})
  <2>1. \A v \in Vlan, ip \in Ip : ip \in Only(w, d)[v] => T.neigh[v][ip] # NoEntry
    BY <1>7 DEF Only
  <2> QED
    BY <1>7, <2>1, Probed
<1> HIDE DEF U
<1> QED
  BY <1>5, <1>7, <1>8, CommitKeeps DEF RuleInv

LEMMA PacketKeeps ==
  ASSUME OneRouteEach, neigh \in Cache, RuleInv, NEW p \in Packet, router_rcv_packet(p),
         UNCHANGED <<running, pend>>
  PROVE  RulesKept
<1>0. p.vlan \in Vlan /\ p.src \in Ip /\ p.mac \in Mac
  BY DEF Packet
<1>1. InStep(Begin, {}) /\ InStep(LearnSource(Begin, p), {})
  BY BeginInStep, Learned
<1>2. \A S : InStep(S, {}) => (Done(S) => RulesKept) /\ (RunResolver(S, p.vlan) => RulesKept)
  BY <1>0, CommitKeeps, ResolverKeeps DEF Done, RuleInv
<1>3. Solicit(p) => RulesKept
  BY <1>1, <1>2 DEF Solicit
<1>4. InStep(_gw_advert(p), {}) /\ InStep(LearnSource(_gw_advert(p), p), {})
  <2>1. InStep(_gw_advert(p), {})
    BY <1>0, <1>1, Updated DEF _gw_advert
  <2> QED
    BY <2>1, Learned
<1>5. Ping(p) => RulesKept
  BY <1>1, <1>2 DEF Ping
<1>6. Traffic(p) => RulesKept
  BY <1>1, <1>2, ProactiveKeeps DEF Traffic, Done
<1>7. _control_plane_time_exceeded_handler(p) => RulesKept
  BY <1>1, <1>2 DEF _control_plane_time_exceeded_handler
<1>8. _control_plane_arp_handler(p) => RulesKept
  BY <1>2, <1>3, <1>4 DEF _control_plane_arp_handler
<1>9. _control_plane_icmpv6_handler(p) => RulesKept
  BY <1>1, <1>2, <1>3, <1>4, <1>5 DEF _control_plane_icmpv6_handler, _router_solicit_handler
<1> QED
  BY <1>1, <1>2, <1>5, <1>6, <1>7, <1>8, <1>9 DEF router_rcv_packet,
     ValveIPv4RouteManager_control_plane_handler, ValveIPv6RouteManager_control_plane_handler

LEMMA OnPortIn == \A P : \A w \in Vlan : OnPort(P)[w] \subseteq Ip
BY DEF OnPort, Hops

LEMMA StateKept == ASSUME RuleInv, UNCHANGED state PROVE RuleInv'
<1>1. UNCHANGED <<rib, neigh, bgp, pend, fib, running, late>>
  BY DEF state, speaker
<1> QED
  <2>1. PendingRules' = PendingRules
    BY <1>1, PendingKept
  <2>2. RibSound(rib') /\ BgpRouted(rib', bgp')
    BY <1>1 DEF RuleInv
  <2>3. FibShape'
    BY <1>1 DEF RuleInv, FibShape
  <2>4. ResolvedIsInstalled'
    BY <1>1, <2>1 DEF RuleInv, ResolvedIsInstalled
  <2> QED
    BY <2>2, <2>3, <2>4 DEF RuleInv

\* An event is handled: RouteInv says what is in the queue.
LEMMA EventKeeps ==
  ASSUME OneRouteEach, RouteInv, RuleInv, NextEvent
  PROVE  RuleInv'
<1> DEFINE e == Head(inbox)
<1>1. inbox # <<>> /\ Handle(e)
  BY DEF NextEvent
<1>2. e \in Event /\ neigh \in Cache
  BY <1>1 DEF RouteInv, EventsTyped
<1> HIDE DEF e
<1>3. CASE e.kind = "connect"
  <2>1. Connect
    BY <1>1, <1>3 DEF Handle, PacketKind
  <2>2. /\ rib' = rib /\ bgp' = bgp /\ \A w \in Vlan, ip \in Ip : neigh'[w][ip] = NoEntry
        /\ fib' = [v \in Vlan |-> [d \in Dst |-> NoRule]]
    BY <2>1 DEF Connect, speaker
  <2> QED
    BY <2>2 DEF RuleInv, ResolvedIsInstalled, FibShape
<1>4. CASE e.kind = "disconnect"
  <2>1. Disconnect
    BY <1>1, <1>4 DEF Handle, PacketKind
  <2> DEFINE S == ExpireHops(Begin, OnPort(Port))
  <2>2. rib' = S.rib /\ running' = FALSE /\ bgp' = bgp /\ fib' = fib
    BY <2>1 DEF Disconnect, speaker
  <2>3. InStep(S, {})
    BY <1>2, BeginInStep, OnPortIn, Expired
  <2> HIDE DEF S
  <2> QED
    BY <2>2, <2>3 DEF InStep, RuleInv, ResolvedIsInstalled, FibShape
<1>5. CASE UNCHANGED state
  BY <1>5, StateKept
<1>6. CASE e.kind = "flap" /\ Flap({e.port})
  <2>1. InStep(ExpireHops(Begin, OnPort({e.port})), {})
    BY <1>2, BeginInStep, OnPortIn, Expired
  <2>2. Commit(ExpireHops(Begin, OnPort({e.port}))) /\ UNCHANGED <<bgp, pend, running>>
    BY <1>6 DEF Flap, Done, speaker
  <2>3. RulesKept
    BY <2>1, <2>2, CommitKeeps DEF RuleInv
  <2> QED
    BY <2>2, <2>3 DEF RulesKept, RuleInv
<1>7. CASE e.kind \in PacketKind /\ router_rcv_packet(e) /\ UNCHANGED <<speaker, running>>
  <2>1. e \in Packet
    BY <1>2, <1>7 DEF Event, PacketKind
  <2>2. RulesKept
    BY <1>2, <1>7, <2>1, PacketKeeps DEF speaker
  <2> QED
    BY <1>7, <2>2 DEF RulesKept, RuleInv, speaker
<1> QED
  BY <1>1, <1>3, <1>4, <1>5, <1>6, <1>7 DEF Handle, valve_packet_in

\* What BGP has computed it is to send: only rules of that message may differ
\* from what the RIB and the cache say.
LEMMA ComputedKeeps ==
  ASSUME NEW S, InStep(S, {}), NEW w \in Vlan, NEW p \in Prefix, Computed(S, w, p),
         pend = None, FibShape, S.neigh = neigh, S.add[w][p] \in Mac \cup {NoRule},
         \A v \in Vlan, d \in Dst : S.add[v][d] # NoRule \/ d \in S.del[v]
           => /\ v \in _routed_vlans(w) /\ d = p
              /\ S.add[w][p] # NoRule \/ p \in S.del[w]
  PROVE  FibShape' /\ ResolvedIsInstalled'
<1>1. rib' = S.rib /\ UNCHANGED <<neigh, fib, running, late>>
  BY DEF Computed
<1>2. PendingRules = {}
  BY DEF PendingRules
<1>3. ASSUME NEW v \in Vlan, NEW d \in Dst, <<v, d>> \notin PendingRules'
      PROVE  S.add[v][d] = NoRule /\ d \notin S.del[v]
  <2> SUFFICES ASSUME S.add[v][d] # NoRule \/ d \in S.del[v] PROVE FALSE
    OBVIOUS
  <2>1. v \in _routed_vlans(w) /\ d = p /\ (S.add[w][p] # NoRule \/ p \in S.del[w])
    OBVIOUS
  <2>2. pend' = [vlan |-> w, dst |-> p, rule |-> S.add[w][p]]
    BY <2>1 DEF Computed
  <2>3. pend' \in Batch
    BY <2>2 DEF Batch
  <2>4. PendingRules' = {<<y, p>> : y \in _routed_vlans(w)}
    BY <2>2, <2>3, BatchAssumption DEF PendingRules, _routed_vlans
  <2> QED
    BY <1>3, <2>1, <2>4
<1>4. ASSUME running', NEW x \in Vlan, NEW ip \in Ip, NEW d \in Dst,
             neigh'[x][ip] # NoEntry, neigh'[x][ip].eth # None, rib'[x].routes[d] = ip,
             NEW v \in _routed_vlans(x), <<v, d>> \notin late' \cup PendingRules'
      PROVE  fib'[v][d] = neigh'[x][ip].eth
  <2>1. HopInstalled(S, x, ip) /\ v \in Vlan
    BY RoutedVlans DEF InStep
  <2>2. CachedEth(S, x, ip) = neigh[x][ip].eth
    BY <1>1, <1>4 DEF CachedEth
  <2>3. Sent(S, Right)[v][d] = neigh[x][ip].eth
    BY <1>1, <1>4, <2>1, <2>2 DEF HopInstalled
  <2>4. Sent(S, Right)[v][d] = Right[v][d]
    BY <1>3, <1>4, <2>1 DEF Sent
  <2>5. Right[v][d] = fib[v][d]
    BY <1>1, <1>2, <1>4, <2>1 DEF Right
  <2> QED
    BY <1>1, <2>3, <2>4, <2>5
<1> QED
  BY <1>1, <1>4 DEF ResolvedIsInstalled, FibShape, _routed_vlans

\* BGP: what it announces is in the RIB of the VLAN of the next hop.
LEMMA AnnounceKeeps ==
  ASSUME OneRouteEach, neigh \in Cache, RuleInv, NEW p \in Prefix, NEW g \in Ip,
         <<p, g>> \in BgpPaths, Announce(p, g)
  PROVE  RuleInv'
<1> DEFINE S == add_route(Begin, BgpVlan, g, p)
           w == router_vlan_for_ip_gw(BgpVlan, g)
<1>1. /\ Computed(S, w, p) /\ pend = None /\ w # None
      /\ bgp' = [bgp EXCEPT ![p] = g]
  BY DEF Announce
<1>2. BgpVlan \in Vlan /\ p \in Dst /\ w \in Vlan /\ Fits(w, p, g)
  <2>1. BgpVlan \in Vlan
    BY RouteAssumption
  <2> QED
    BY <1>1, <2>1, GwVlan, SymbolAssumption DEF Dst, Fits, PathIn
<1>3. InStep(Begin, {}) /\ Begin.neigh = neigh /\ Begin.rib = rib
  BY BeginInStep
<1>4. InStep(S, {}) /\ S.rib[w].routes[p] = g
  BY <1>1, <1>2, <1>3, RouteAdded
<1>5. /\ S.neigh = neigh /\ S.add[w][p] \in Mac \cup {NoRule}
      /\ \A v \in Vlan, d \in Dst : S.add[v][d] # NoRule \/ d \in S.del[v]
           => v \in _routed_vlans(w) /\ d = p /\ S.add[w][p] # NoRule
  <2> DEFINE T == [Begin EXCEPT !.rib[w] = RibAdd(@, p, g)]
             m == CachedEth(Begin, w, g)
  <2>1. S = Begin \/ S = T \/ (m # None /\ S = AddFlows(T, w, {p}, m))
    BY <1>1 DEF add_route
  <2>2. DOMAIN Begin = Fields
    BY <1>3 DEF InStep
  <2>3. DOMAIN T = Fields /\ T.neigh = neigh /\ T.add = Begin.add /\ T.del = Begin.del
    BY <1>3, <2>2 DEF Fields
  <2> HIDE DEF T, S
  <2>4. \A v \in Vlan, d \in Dst : Begin.add[v][d] = NoRule /\ Begin.del[v] = {}
    BY DEF Begin
  <2>5. CASE S = Begin \/ S = T
    BY <1>2, <1>3, <2>3, <2>4, <2>5
  <2>6. CASE m # None /\ S = AddFlows(T, w, {p}, m)
    <3>1. m \in Mac /\ m # NoRule
      BY <1>2, <1>3, <2>6, EthType, SymbolAssumption
    <3> HIDE DEF m
    <3>2. /\ S.neigh = neigh /\ S.del = Begin.del
          /\ S.add = [v \in Vlan |-> [d \in Dst |->
                        IF v \in _routed_vlans(w) /\ d \in {p} THEN m ELSE Begin.add[v][d]]]
      BY <2>3, <2>6 DEF AddFlows, Fields
    <3>3. S.add[w][p] = m
      BY <1>2, <3>2, RoutedVlans
    <3>4. ASSUME NEW v \in Vlan, NEW d \in Dst, S.add[v][d] # NoRule \/ d \in S.del[v]
          PROVE  v \in _routed_vlans(w) /\ d = p
      <4>1. Begin.add[v][d] = NoRule /\ d \notin S.del[v]
        BY <2>4, <3>2
      <4>2. S.add[v][d] = IF v \in _routed_vlans(w) /\ d \in {p} THEN m ELSE Begin.add[v][d]
        BY <3>2
      <4> QED
        BY <3>4, <4>1, <4>2
    <3> QED
      BY <3>1, <3>2, <3>3, <3>4
  <2> QED
    BY <2>1, <2>5, <2>6
<1> HIDE DEF S, w
<1>6. FibShape' /\ ResolvedIsInstalled'
  BY <1>1, <1>2, <1>4, <1>5, ComputedKeeps DEF RuleInv
<1>7. RibSound(rib') /\ BgpRouted(rib', bgp) /\ rib' = S.rib
  BY <1>1, <1>4 DEF Computed, InStep
<1>8. BgpRouted(rib', bgp')
  <2>1. bgp' \in [Prefix -> Ip \cup {None}] /\ bgp'[p] = g /\ \A q \in Prefix : q # p => bgp'[q] = bgp[q]
    BY <1>1, <1>7 DEF BgpRouted
  <2> QED
    BY <1>4, <1>7, <2>1 DEF BgpRouted, w
<1> QED
  BY <1>6, <1>7, <1>8 DEF RuleInv

LEMMA WithdrawKeeps ==
  ASSUME OneRouteEach, neigh \in Cache, RuleInv, NEW p \in Prefix, Withdraw(p)
  PROVE  RuleInv'
<1> DEFINE v == BgpVlan
           R == RibDel(rib[v], p)
           q == [rib EXCEPT ![v] = R]
           B == [Begin EXCEPT !.rib = q]
           S == del_route(Begin, v, p)
<1>0. /\ Computed(S, v, p) /\ pend = None /\ bgp' = [bgp EXCEPT ![p] = None]
      /\ rib' = S.rib /\ UNCHANGED <<neigh, fib, running, late>>
  BY DEF Withdraw, Computed
<1>1. /\ v \in Vlan /\ p \in Dst /\ rib[v] \in Rib /\ InStep(Begin, {})
      /\ Begin.neigh = neigh /\ Begin.rib = rib
  BY RouteAssumption, BeginInStep DEF Dst, RuleInv, RibSound
<1>2. bgp' \in [Prefix -> Ip \cup {None}] /\ bgp'[p] = None /\ \A y \in Prefix : y # p => bgp'[y] = bgp[y]
  BY <1>0 DEF RuleInv, BgpRouted
<1>3. CASE rib[v].routes[p] = None
  <2>1. S = Begin
    BY <1>1, <1>3 DEF del_route
  <2>2. rib' = rib
    BY <1>0, <1>1, <2>1
  <2>3. BgpRouted(rib', bgp')
    BY <1>2, <2>2 DEF RuleInv, BgpRouted
  <2>4. PendingRules = {}
    BY <1>0 DEF PendingRules
  <2>5. FibShape'
    BY <1>0 DEF RuleInv, FibShape
  <2>6. ResolvedIsInstalled'
    <3> SUFFICES ASSUME running', NEW w \in Vlan, NEW ip \in Ip, NEW e \in Dst,
                        NEW x \in _routed_vlans(w), neigh'[w][ip] # NoEntry,
                        neigh'[w][ip].eth # None, rib'[w].routes[e] = ip,
                        <<x, e>> \notin late' \cup PendingRules'
                 PROVE  fib'[x][e] = neigh'[w][ip].eth
      BY DEF ResolvedIsInstalled
    <3>1. running /\ neigh[w][ip] # NoEntry /\ neigh[w][ip].eth # None
          /\ rib[w].routes[e] = ip /\ <<x, e>> \notin late \cup PendingRules
      BY <1>0, <2>2, <2>4
    <3>2. fib[x][e] = neigh[w][ip].eth
      BY <3>1 DEF RuleInv, ResolvedIsInstalled
    <3> QED
      BY <1>0, <3>2
  <2> QED
    BY <2>2, <2>3, <2>5, <2>6 DEF RuleInv
<1>4. CASE rib[v].routes[p] # None
  <2> DEFINE g == rib[v].routes[p]
             T == DelFlows(B, v, {p})
  <2>1. S = T
    BY <1>1, <1>4 DEF del_route
  <2>2. g \in Ip /\ p \in rib[v].gws[g]
    <3>1. g \in Ip
      BY <1>1, <1>4 DEF Rib
    <3> QED
      BY <1>1, <3>1 DEF RuleInv, RibSound
  <2>3. /\ R \in Rib
        /\ \A d \in Dst : R.routes[d] = IF d = p THEN None ELSE rib[v].routes[d]
        /\ \A h \in Ip, d \in Dst : d \in R.gws[h] <=> d \in rib[v].gws[h] /\ ~(h = g /\ d = p)
    <3>1. rib[v].routes \in [Dst -> Ip \cup {None}] /\ rib[v].gws \in [Ip -> SUBSET Dst] /\ rib[v].known \subseteq Ip
      BY <1>1 DEF Rib
    <3>g. g = rib[v].routes[p]
      OBVIOUS
    <3> HIDE DEF g
    <3>2. R = [routes |-> [rib[v].routes EXCEPT ![p] = None],
               gws |-> [rib[v].gws EXCEPT ![g] = rib[v].gws[g] \ {p}],
               known |-> rib[v].known \cup {g}]
      BY <3>g DEF RibDel
    <3>3. [rib[v].routes EXCEPT ![p] = None] \in [Dst -> Ip \cup {None}]
      BY <3>1
    <3>4. [rib[v].gws EXCEPT ![g] = rib[v].gws[g] \ {p}] \in [Ip -> SUBSET Dst]
      BY <2>2, <3>1
    <3>5. rib[v].known \cup {g} \in SUBSET Ip
      BY <2>2, <3>1
    <3>6. \A d \in Dst : [rib[v].routes EXCEPT ![p] = None][d] = IF d = p THEN None ELSE rib[v].routes[d]
      BY <3>1
    <3>7. \A h \in Ip, d \in Dst : d \in [rib[v].gws EXCEPT ![g] = rib[v].gws[g] \ {p}][h]
             <=> d \in rib[v].gws[h] /\ ~(h = g /\ d = p)
      BY <2>2, <3>1
    <3> HIDE DEF R
    <3> QED
      BY <3>2, <3>3, <3>4, <3>5, <3>6, <3>7 DEF Rib
  <2>g. g = rib[v].routes[p]
    OBVIOUS
  <2> HIDE DEF R, g, v
  <2>4. q \in [Vlan -> Rib] /\ q[v] = R /\ \A x \in Vlan : x # v => q[x] = rib[x]
    BY <1>1, <2>3 DEF RuleInv, RibSound
  <2> HIDE DEF q
  <2>5. RibSound(q)
    BY <2>3, <2>4, SymbolAssumption DEF RuleInv, RibSound
  <2>6. BgpRouted(q, bgp')
    <3>1. BgpRouted(rib, bgp)
      BY DEF RuleInv
    <3>2. \A x \in Vlan, y \in Prefix : y # p => q[x].routes[y] = rib[x].routes[y]
      BY <2>3, <2>4 DEF Dst
    <3> QED
      BY <1>2, <3>1, <3>2 DEF BgpRouted
  <2>7. DOMAIN B = Fields /\ B.neigh = neigh /\ B.rib = q /\ B.add = Begin.add /\ B.del = Begin.del
    BY <1>1 DEF InStep, Fields
  <2> HIDE DEF B
  <2>8. /\ T.rib = q /\ p \in T.del[v] /\ T.add[v][p] = NoRule
    <3>1. /\ T.rib = q /\ T.add = Begin.add
          /\ T.del = [x \in Vlan |-> IF x \in _routed_vlans(v) THEN B.del[x] \cup {p} ELSE B.del[x]]
      BY <2>7 DEF DelFlows, Fields
    <3>2. Begin.add[v][p] = NoRule
      BY <1>1 DEF Begin
    <3> QED
      BY <1>1, <3>1, <3>2, RoutedVlans
  <2> HIDE DEF T, S
  <2>9. pend' = [vlan |-> v, dst |-> p, rule |-> NoRule]
    BY <1>0, <2>1, <2>8 DEF Computed
  <2>10. pend' # None
    BY <1>1, <2>9, BatchAssumption DEF Batch
  <2>11. PendingRules' = {<<y, p>> : y \in _routed_vlans(v)} /\ PendingRules = {}
    BY <1>0, <2>9, <2>10 DEF PendingRules, _routed_vlans
  <2>12. rib' = q
    BY <1>0, <2>1, <2>8
  <2>13. ASSUME running', NEW w \in Vlan, NEW ip \in Ip, NEW d \in Dst,
                neigh'[w][ip] # NoEntry, neigh'[w][ip].eth # None, rib'[w].routes[d] = ip,
                NEW y \in _routed_vlans(w), <<y, d>> \notin late' \cup PendingRules'
         PROVE  fib'[y][d] = neigh'[w][ip].eth
    <3>1. rib[w].routes[d] = ip
      BY <2>3, <2>4, <2>12, <2>13, SymbolAssumption
    <3> QED
      BY <1>0, <2>11, <2>13, <3>1 DEF RuleInv, ResolvedIsInstalled
  <2>14. ResolvedIsInstalled'
    BY <2>13 DEF ResolvedIsInstalled, _routed_vlans
  <2> QED
    BY <1>0, <2>5, <2>6, <2>12, <2>14 DEF RuleInv, FibShape
<1> QED
  BY <1>3, <1>4

\* A message that comes too late is noted, any other is right.
LEMMA BgpSendsKeeps ==
  ASSUME RuleInv, BgpSends
  PROVE  RuleInv'
<1>1. UNCHANGED <<rib, neigh, bgp, running>> /\ pend' = None
  BY DEF BgpSends
<1>2. PendingRules' = {}
  BY <1>1 DEF PendingRules
<1>3. CASE ~running
  BY <1>1, <1>3 DEF BgpSends, RuleInv, FibShape, ResolvedIsInstalled
<1>4. CASE running
  <2>1. /\ late' = (late \ PendingRules) \cup Overtaken
        /\ fib' = [v \in Vlan |-> [d \in Dst |->
                     IF <<v, d>> \in PendingRules THEN pend.rule ELSE fib[v][d]]]
    BY <1>4 DEF BgpSends
  <2>2. ASSUME NEW w \in Vlan, NEW ip \in Ip, NEW d \in Dst,
               neigh[w][ip] # NoEntry, neigh[w][ip].eth # None, rib[w].routes[d] = ip,
               NEW v \in _routed_vlans(w), <<v, d>> \notin late'
        PROVE  fib'[v][d] = neigh[w][ip].eth
    <3>1. v \in Vlan
      BY RoutedVlans
    <3>2. CASE <<v, d>> \in PendingRules
      <4>1. <<v, d>> \notin Overtaken
        BY <2>1, <2>2
      <4>2. CachedEth(Begin, w, ip) = neigh[w][ip].eth
        BY <2>2 DEF CachedEth, Begin
      <4>3. CachedEth(Begin, w, ip) \in {None, pend.rule}
        BY <2>2, <3>2, <4>1 DEF Overtaken
      <4> QED
        BY <2>1, <2>2, <3>1, <3>2, <4>2, <4>3
    <3>3. CASE <<v, d>> \notin PendingRules
      <4>1. <<v, d>> \notin late
        BY <2>1, <2>2, <3>3
      <4>2. fib[v][d] = neigh[w][ip].eth
        BY <1>4, <2>2, <3>3, <4>1 DEF RuleInv, ResolvedIsInstalled
      <4> QED
        BY <2>1, <3>1, <3>3, <4>2
    <3> QED
      BY <3>2, <3>3
  <2>3. ResolvedIsInstalled'
    BY <1>1, <2>2 DEF ResolvedIsInstalled, _routed_vlans
  <2>4. FibShape'
    BY <2>1 DEF FibShape
  <2> QED
    BY <1>1, <2>3, <2>4 DEF RuleInv
<1> QED
  BY <1>3, <1>4

LEMMA StaticSound ==
  ASSUME NEW v \in Vlan
  PROVE  /\ StaticRib(v) \in Rib
         /\ \A d \in Dst, g \in Ip : StaticRib(v).routes[d] = g => d \in StaticRib(v).gws[g]
         /\ \A g \in Ip, d \in Dst : d \in StaticRib(v).gws[g] => Fits(v, d, g)
<1> DEFINE R == [d \in Dst |-> IF \E g \in Ip : <<d, g>> \in Static[v]
                              THEN CHOOSE g \in Ip : <<d, g>> \in Static[v] ELSE None]
           W == [g \in Ip |-> {d \in Prefix : <<d, g>> \in Static[v]}]
           K == {g \in Ip : \E d \in Prefix : <<d, g>> \in Static[v]}
<1>1. StaticRib(v) = [routes |-> R, gws |-> W, known |-> K]
  BY DEF StaticRib
<1>2. \A d, g : <<d, g>> \in Static[v] => d \in Prefix /\ g \in Ip
  BY RouteAssumption
<1>3. \A d \in Dst : /\ R[d] \in Ip \cup {None}
                     /\ R[d] # None => <<d, R[d]>> \in Static[v]
  OBVIOUS
<1>4. R \in [Dst -> Ip \cup {None}]
  BY <1>3
<1>5. W \in [Ip -> SUBSET Dst] /\ K \in SUBSET Ip
  BY DEF Dst
<1>6. \A g \in Ip, d \in Dst : d \in W[g] <=> <<d, g>> \in Static[v]
  BY <1>2
<1> HIDE DEF R, W, K
<1>7. StaticRib(v) \in Rib /\ StaticRib(v).routes = R /\ StaticRib(v).gws = W
  BY <1>1, <1>4, <1>5 DEF Rib
<1>8. \A d \in Dst, g \in Ip : R[d] = g => d \in W[g]
  BY <1>3, <1>6, SymbolAssumption
<1>9. \A g \in Ip, d \in Dst : d \in W[g] => Fits(v, d, g)
  BY <1>2, <1>6, SymbolAssumption DEF Fits, PathIn
<1> QED
  BY <1>7, <1>8, <1>9

\* The routes of the speaker are added again: they are in the RIB then, and
\* a RIB that has them already is not changed.
LEMMA ReAdded ==
  ASSUME NEW S, RibSound(S.rib), bgp \in [Prefix -> Ip \cup {None}],
         \A p \in Prefix : bgp[p] # None => <<p, bgp[p]>> \in BgpPaths
  PROVE  /\ RibSound(ReAdd(S, Prefix)) /\ BgpRouted(ReAdd(S, Prefix), bgp)
         /\ \A v \in Vlan :
              (\A p \in Prefix : /\ bgp[p] # None /\ v = router_vlan_for_ip_gw(BgpVlan, bgp[p])
                                 => S.rib[v].routes[p] = bgp[p])
              => \A d \in Dst : ReAdd(S, Prefix)[v].routes[d] = S.rib[v].routes[d]
<1> DEFINE w(p) == router_vlan_for_ip_gw(BgpVlan, bgp[p])
           new == {p \in Prefix : bgp[p] # None /\ w(p) # None /\ S.rib[w(p)].routes[p] # bgp[p]}
           to(v) == {p \in new : w(p) = v}
           q == ReAdd(S, Prefix)
           R(v) == [d \in Dst |-> IF d \in to(v) THEN bgp[d] ELSE S.rib[v].routes[d]]
           W(v) == [g \in Ip |-> S.rib[v].gws[g] \cup {p \in to(v) : bgp[p] = g}]
           K(v) == S.rib[v].known \cup {bgp[p] : p \in to(v)}
<1>1. q = [v \in Vlan |-> [routes |-> R(v), gws |-> W(v), known |-> K(v)]]
  BY DEF ReAdd
<1>2. ASSUME NEW v \in Vlan, NEW p \in to(v)
      PROVE  p \in Prefix /\ p \in Dst /\ bgp[p] \in Ip /\ Fits(v, p, bgp[p])
  <2>1. p \in Prefix /\ bgp[p] # None /\ w(p) = v
    OBVIOUS
  <2>2. <<p, bgp[p]>> \in BgpPaths
    BY <2>1
  <2> QED
    BY <2>1, <2>2, SymbolAssumption DEF Dst, Fits, PathIn
<1>3. ASSUME NEW v \in Vlan, NEW p \in Prefix, bgp[p] # None, v = w(p)
      PROVE  p \in to(v) \/ S.rib[v].routes[p] = bgp[p]
  BY <1>3, SymbolAssumption
<1>4. ASSUME NEW v \in Vlan, NEW p \in to(v)
      PROVE  bgp[p] # None /\ v = w(p) /\ S.rib[v].routes[p] # bgp[p]
  BY <1>4
<1> HIDE DEF to
<1>5. ASSUME NEW v \in Vlan
      PROVE  /\ q[v] \in Rib
             /\ \A d \in Dst : q[v].routes[d] = IF d \in to(v) THEN bgp[d] ELSE S.rib[v].routes[d]
             /\ \A g \in Ip, d \in Dst :
                  d \in q[v].gws[g] <=> d \in S.rib[v].gws[g] \/ (d \in to(v) /\ bgp[d] = g)
  <2>1. S.rib[v] \in Rib
    BY DEF RibSound
  <2>2. /\ S.rib[v].routes \in [Dst -> Ip \cup {None}] /\ S.rib[v].gws \in [Ip -> SUBSET Dst]
        /\ S.rib[v].known \subseteq Ip
    BY <2>1 DEF Rib
  <2>3. R(v) \in [Dst -> Ip \cup {None}]
    BY <1>2, <2>2
  <2>4. W(v) \in [Ip -> SUBSET Dst]
    <3>1. \A g \in Ip : W(v)[g] \in SUBSET Dst
      BY <1>2, <2>2
    <3> QED
      BY <3>1
  <2>5. K(v) \in SUBSET Ip
    BY <1>2, <2>2
  <2>6. \A d \in Dst : R(v)[d] = IF d \in to(v) THEN bgp[d] ELSE S.rib[v].routes[d]
    OBVIOUS
  <2>7. \A g \in Ip, d \in Dst :
          d \in W(v)[g] <=> d \in S.rib[v].gws[g] \/ (d \in to(v) /\ bgp[d] = g)
    OBVIOUS
  <2>8. q[v] = [routes |-> R(v), gws |-> W(v), known |-> K(v)]
    BY <1>1
  <2> HIDE DEF R, W, K, q
  <2> QED
    BY <2>3, <2>4, <2>5, <2>6, <2>7, <2>8 DEF Rib
<1>6. q \in [Vlan -> Rib]
  <2>1. q = [v \in Vlan |-> q[v]]
    BY <1>1
  <2> HIDE DEF q
  <2> QED
    BY <1>5, <2>1
<1> HIDE DEF q, R, W, K
<1>7. RibSound(q)
  <2>1. \A v \in Vlan, d \in Dst, g \in Ip : q[v].routes[d] = g => d \in q[v].gws[g]
    BY <1>5 DEF RibSound
  <2>2. \A v \in Vlan, g \in Ip, d \in Dst : d \in q[v].gws[g] => Fits(v, d, g)
    BY <1>2, <1>5 DEF RibSound
  <2> QED
    BY <1>6, <2>1, <2>2 DEF RibSound
<1>8. BgpRouted(q, bgp)
  <2>1. ASSUME NEW p \in Prefix, bgp[p] # None, NEW v \in Vlan, v = w(p)
        PROVE  q[v].routes[p] = bgp[p]
    <3>1. p \in Dst
      BY DEF Dst
    <3> QED
      BY <1>3, <1>5, <2>1, <3>1
  <2> QED
    BY <2>1 DEF BgpRouted
<1>9. ASSUME NEW v \in Vlan,
             \A p \in Prefix : bgp[p] # None /\ v = w(p) => S.rib[v].routes[p] = bgp[p],
             NEW d \in Dst
      PROVE  q[v].routes[d] = S.rib[v].routes[d]
  <2>1. d \notin to(v)
    BY <1>2, <1>4, <1>9
  <2> QED
    BY <1>5, <2>1
<1> QED
  BY <1>7, <1>8, <1>9 DEF q

\* A reload: VLANs routed with the one that changed have no entries left, the
\* others keep their routes and their rules.
LEMMA ReloadKeeps ==
  ASSUME OneRouteEach, neigh \in Cache, RuleInv, NEW c \in Vlan, ReloadVlan(c)
  PROVE  RuleInv'
<1> DEFINE others == [w \in Vlan |-> IF w # c /\ w \in _routed_vlans(c) THEN Hops(Begin, w) ELSE {}]
           B == DelFlows(Begin, c, Subnet[c])
           S == ExpireHops(B, others)
           none == [ip \in Ip |-> NoEntry]
           T == [S EXCEPT !.rib[c] = StaticRib(c), !.neigh[c] = none, !.del[c] = Dst]
           U == [T EXCEPT !.rib = ReAdd(T, Prefix)]
           X == {<<c, ip>> : ip \in Ip}
<1>0. InStep(Begin, {}) /\ Begin.neigh = neigh
  BY BeginInStep
<1>1. Commit(U) /\ UNCHANGED <<bgp, pend, running>>
  BY DEF ReloadVlan, speaker
<1>2. DOMAIN B = Fields /\ B.neigh = neigh /\ B.rib = Begin.rib /\ RibSound(B.rib) /\ BgpRouted(B.rib, bgp)
  BY <1>0, DelFlowsKeeps, DelRules DEF InStep
<1>3. InStep(B, X)
  <2>1. DOMAIN Begin = Fields
    BY <1>0 DEF InStep
  <2>2. \A v \in Vlan, d \in Dst : ~(v \in _routed_vlans(c) /\ d \in Subnet[c])
           => Sent(B, Right)[v][d] = Sent(Begin, Right)[v][d]
    BY <2>1, DelRules
  <2> HIDE DEF B
  <2>3. ASSUME NEW w \in Vlan, NEW ip \in Ip, <<w, ip>> \notin X PROVE HopInstalled(B, w, ip)
    <3>0. CachedEth(B, w, ip) = CachedEth(Begin, w, ip) /\ w # c
      BY <1>0, <1>2, <2>3 DEF CachedEth
    <3>1. HopInstalled(Begin, w, ip)
      BY <1>0 DEF InStep
    <3> SUFFICES ASSUME running, CachedEth(Begin, w, ip) # None, NEW d \in Dst,
                        NEW v \in _routed_vlans(w), B.rib[w].routes[d] = ip
                 PROVE  Sent(B, Right)[v][d] = CachedEth(Begin, w, ip)
      BY <3>0 DEF HopInstalled
    <3>2. d \notin Subnet[c]
      <4> SUFFICES ASSUME d \in Subnet[c] PROVE FALSE
        OBVIOUS
      <4>1. Fits(w, d, ip) /\ d \in Ip
        BY <1>2, RouteAssumption DEF RibSound
      <4>2. d \in Subnet[w]
        BY <4>1 DEF Fits
      <4> QED
        BY <3>0, <4>2, RouteAssumption
    <3>3. v \in Vlan
      BY RoutedVlans
    <3> QED
      BY <1>2, <2>2, <3>1, <3>2, <3>3 DEF HopInstalled
  <2> QED
    BY <1>2, <2>3 DEF InStep
<1> HIDE DEF B
<1>4. /\ S.neigh = [w \in Vlan |-> [ip \in Ip |-> IF ip \in others[w] THEN NoEntry ELSE neigh[w][ip]]]
      /\ S.del = [v \in Vlan |-> S.del[v]]
  BY <1>2 DEF ExpireHops, Fields
<1>5. \A w \in Vlan : others[w] \subseteq Ip
  BY DEF Hops
<1>6. \A w \in Vlan, ip \in Ip : w # c /\ w \in _routed_vlans(c) /\ ip \notin others[w] => neigh[w][ip] = NoEntry
  BY <1>0 DEF Hops
<1> HIDE DEF others
<1>7. InStep(S, X)
  BY <1>3, <1>5, Expired
<1> HIDE DEF S, X
<1>8. /\ DOMAIN S = Fields /\ S.neigh \in Cache /\ RibSound(S.rib) /\ BgpRouted(S.rib, bgp)
  BY <1>7 DEF InStep
<1>9. /\ DOMAIN T = Fields /\ T.rib = [S.rib EXCEPT ![c] = StaticRib(c)]
      /\ T.neigh = [S.neigh EXCEPT ![c] = none] /\ T.add = S.add
      /\ T.del = [S.del EXCEPT ![c] = Dst]
  BY <1>8 DEF Fields
<1> HIDE DEF T
<1>10. T.rib \in [Vlan -> Rib] /\ T.rib[c] = StaticRib(c) /\ \A x \in Vlan : x # c => T.rib[x] = S.rib[x]
  BY <1>8, <1>9, StaticSound DEF RibSound
<1>11. RibSound(T.rib)
  BY <1>8, <1>10, StaticSound DEF RibSound
<1> DEFINE r == ReAdd(T, Prefix)
<1>12. /\ RibSound(r) /\ BgpRouted(r, bgp)
       /\ \A v \in Vlan :
            (\A p \in Prefix : /\ bgp[p] # None /\ v = router_vlan_for_ip_gw(BgpVlan, bgp[p])
                               => T.rib[v].routes[p] = bgp[p])
            => \A d \in Dst : r[v].routes[d] = T.rib[v].routes[d]
  BY <1>8, <1>11, ReAdded DEF BgpRouted
<1> HIDE DEF r
<1>13. /\ DOMAIN U = Fields /\ U.rib = r /\ U.neigh = T.neigh /\ U.add = T.add /\ U.del = T.del
  BY <1>9 DEF Fields, r
<1> HIDE DEF U
<1>14. none \in [Ip -> Hop] /\ \A ip \in Ip : none[ip] = NoEntry
  BY DEF Hop
<1> HIDE DEF none
<1>15. U.neigh \in Cache
  BY <1>8, <1>9, <1>13, <1>14 DEF Cache
<1>16. ASSUME NEW w \in Vlan, NEW ip \in Ip PROVE HopInstalled(U, w, ip)
  <2> SUFFICES ASSUME running, CachedEth(U, w, ip) # None, NEW d \in Dst,
                      NEW v \in _routed_vlans(w), U.rib[w].routes[d] = ip
               PROVE  Sent(U, Right)[v][d] = CachedEth(U, w, ip)
    BY DEF HopInstalled
  <2>1. U.neigh[w][ip] # NoEntry
    BY DEF CachedEth
  <2>2. w # c
    BY <1>8, <1>9, <1>13, <1>14, <2>1 DEF Cache
  <2>3. U.neigh[w][ip] = S.neigh[w][ip]
    BY <1>8, <1>9, <1>13, <2>2 DEF Cache
  <2>4. w \notin _routed_vlans(c)
    BY <1>4, <1>6, <2>1, <2>2, <2>3
  <2>5. v = w
    BY <2>4 DEF _routed_vlans
  <2>6. r[w].routes[d] = S.rib[w].routes[d]
    <3>1. \A p \in Prefix : /\ bgp[p] # None /\ w = router_vlan_for_ip_gw(BgpVlan, bgp[p])
                            => T.rib[w].routes[p] = bgp[p]
      BY <1>8, <1>10, <2>2 DEF BgpRouted
    <3> QED
      BY <1>10, <1>12, <2>2, <3>1
  <2>7. U.add[v] = S.add[v] /\ U.del[v] = S.del[v]
    BY <1>4, <1>9, <1>13, <2>2, <2>5
  <2>8. Sent(U, Right)[v][d] = Sent(S, Right)[v][d]
    BY <2>5, <2>7 DEF Sent
  <2>9. HopInstalled(S, w, ip)
    <3>1. <<w, ip>> \notin X
      BY <2>2 DEF X
    <3> QED
      BY <1>7, <3>1 DEF InStep
  <2>10. CachedEth(U, w, ip) = CachedEth(S, w, ip)
    BY <2>3 DEF CachedEth
  <2> QED
    BY <1>13, <2>6, <2>8, <2>9, <2>10 DEF HopInstalled
<1>17. InStep(U, {})
  BY <1>12, <1>13, <1>15, <1>16 DEF InStep
<1>18. RulesKept
  BY <1>1, <1>17, CommitKeeps DEF RuleInv
<1> QED
  BY <1>1, <1>18 DEF RulesKept, RuleInv

LEMMA NextKeepsRules ==
  ASSUME OneRouteEach, RouteInv, RuleInv, [Next]_vars
  PROVE  RuleInv'
<1>0. neigh \in Cache
  BY DEF RouteInv
<1>1. CASE UNCHANGED state
  BY <1>1, StateKept
<1>2. CASE ResolveGateways \/ StateExpire
  <2>1. RulesKept
    BY <1>0, <1>2, CyclesKeep
  <2>2. bgp' = bgp
    BY <1>2 DEF ResolveGateways, StateExpire, speaker
  <2> QED
    BY <2>1, <2>2 DEF RulesKept, RuleInv
<1>3. CASE NextEvent
  BY <1>3, EventKeeps
<1>4. CASE \/ \E k \in PacketKind, c \in Claims, d \in Ip : HostSends(k, c, d)
           \/ \E p \in Port : PortFlaps(p)
           \/ LoseConnection \/ Reconnect
  BY <1>1, <1>4 DEF HostSends, PortFlaps, LoseConnection, Reconnect, Post
\* A rule that forwards to a MAC is no blackhole.
<1>5. ASSUME NEW d \in Dst, BlackholeEnds(d) PROVE RuleInv'
  <2>1. /\ fib' = [x \in Vlan |-> [fib[x] EXCEPT ![d] = IF fib[x][d] = Drop THEN NoRule ELSE fib[x][d]]]
        /\ UNCHANGED <<rib, neigh, bgp, pend, running, late>>
    BY <1>5 DEF BlackholeEnds, speaker
  <2>2. fib = [x \in Vlan |-> [e \in Dst |-> fib[x][e]]]
    BY DEF RuleInv, FibShape
  <2>3. \A x \in Vlan : fib[x] = [e \in Dst |-> fib[x][e]]
    BY <2>2
  <2>4. fib' = [x \in Vlan |-> [e \in Dst |->
                  IF e = d /\ fib[x][d] = Drop THEN NoRule ELSE fib[x][e]]]
    BY <2>1, <2>3
  <2>5. FibShape'
    BY <2>4 DEF FibShape
  <2>6. ASSUME running, NEW w \in Vlan, NEW ip \in Ip, NEW e \in Dst, NEW x \in _routed_vlans(w),
               neigh[w][ip] # NoEntry, neigh[w][ip].eth # None, rib[w].routes[e] = ip,
               <<x, e>> \notin late \cup PendingRules
        PROVE  fib'[x][e] = neigh[w][ip].eth
    <3>1. fib[x][e] = neigh[w][ip].eth /\ x \in Vlan
      BY <2>6, RoutedVlans DEF RuleInv, ResolvedIsInstalled
    <3>2. neigh[w][ip] \in Hop
      BY <1>0 DEF Cache
    <3>3. neigh[w][ip].eth \in Mac
      BY <2>6, <3>2 DEF Hop, NextHop
    <3> QED
      BY <2>4, <3>1, <3>3, SymbolAssumption
  <2>7. ResolvedIsInstalled'
    <3>1. PendingRules' = PendingRules
      BY <2>1, PendingKept
    <3> SUFFICES ASSUME running', NEW w \in Vlan, NEW ip \in Ip, NEW e \in Dst,
                        NEW x \in _routed_vlans(w), neigh'[w][ip] # NoEntry,
                        neigh'[w][ip].eth # None, rib'[w].routes[e] = ip,
                        <<x, e>> \notin late' \cup PendingRules'
                 PROVE  fib'[x][e] = neigh'[w][ip].eth
      BY DEF ResolvedIsInstalled
    <3>2. rib' = rib /\ neigh' = neigh /\ running' = running /\ late' = late
      BY <2>1
    <3>3. running /\ neigh[w][ip] # NoEntry /\ neigh[w][ip].eth # None
          /\ rib[w].routes[e] = ip /\ <<x, e>> \notin late \cup PendingRules
      BY <3>1, <3>2
    <3> QED
      BY <2>6, <3>2, <3>3
  <2> QED
    BY <2>1, <2>5, <2>7 DEF RuleInv
<1>6. ASSUME NEW w \in Vlan, NEW ip \in Ip, Age(w, ip) \/ RetryDue(w, ip) PROVE RuleInv'
  <2>1. /\ neigh[w][ip] # NoEntry /\ UNCHANGED <<rib, bgp, pend, fib, running, late>>
        /\ \/ neigh' = [neigh EXCEPT ![w][ip].fresh = FALSE]
           \/ neigh' = [neigh EXCEPT ![w][ip].due = TRUE]
    BY <1>6 DEF Age, RetryDue, speaker
  <2>2. neigh[w][ip] \in NextHop
    BY <1>0, <2>1 DEF Cache, Hop
  <2>3. ASSUME NEW x \in Vlan, NEW y \in Ip, neigh'[x][y] # NoEntry
        PROVE  neigh[x][y] # NoEntry /\ neigh'[x][y].eth = neigh[x][y].eth
    <3>1. CASE x = w /\ y = ip
      BY <1>0, <2>1, <2>2, <3>1 DEF Cache, NextHop
    <3>2. CASE ~(x = w /\ y = ip)
      <4>1. neigh'[x][y] = neigh[x][y]
        BY <1>0, <2>1, <3>2 DEF Cache
      <4> QED
        BY <2>3, <4>1
    <3> QED
      BY <3>1, <3>2
  <2>4. ResolvedIsInstalled'
    BY <2>1, <2>3, PendingKept DEF RuleInv, ResolvedIsInstalled, _routed_vlans
  <2> QED
    BY <2>1, <2>4 DEF RuleInv, FibShape
<1>7. ASSUME NEW b \in BgpPaths, Announce(b[1], b[2]) PROVE RuleInv'
  <2>1. b[1] \in Prefix /\ b[2] \in Ip /\ <<b[1], b[2]>> \in BgpPaths
    BY RouteAssumption
  <2> QED
    BY <1>0, <1>7, <2>1, AnnounceKeeps
<1>8. ASSUME NEW p \in Prefix, Withdraw(p) PROVE RuleInv'
  BY <1>0, <1>8, WithdrawKeeps
<1>9. ASSUME NEW c \in Vlan, ReloadVlan(c) PROVE RuleInv'
  BY <1>0, <1>9, ReloadKeeps
<1>10. BgpSends => RuleInv'
  BY BgpSendsKeeps
<1> QED
  BY <1>1, <1>2, <1>3, <1>4, <1>5, <1>6, <1>7, <1>8, <1>9, <1>10 DEF Next, vars, state, speaker

LEMMA InitRules == Init => RuleInv
<1> SUFFICES ASSUME Init PROVE RuleInv
  OBVIOUS
<1>1. /\ \A w \in Vlan, ip \in Ip : neigh[w][ip] = NoEntry
      /\ bgp = [p \in Prefix |-> None] /\ rib = [v \in Vlan |-> StaticRib(v)]
      /\ fib = [v \in Vlan |-> [d \in Dst |-> NoRule]]
  BY DEF Init
<1>2. RibSound(rib)
  <2>1. rib \in [Vlan -> Rib] /\ \A v \in Vlan : rib[v] = StaticRib(v)
    BY <1>1, StaticSound
  <2> QED
    BY <2>1, StaticSound DEF RibSound
<1> QED
  BY <1>1, <1>2 DEF RuleInv, BgpRouted, FibShape, ResolvedIsInstalled

\* What the RIB routes through a resolved neighbour the switch forwards to it,
\* in every order of packets, flaps, reconnections, reloads and resolver turns,
\* for all VLANs, routers, hosts and routes, if a destination has one gateway
\* (del_route: "Only one route with this exact destination is supported"), but
\* for rules of a message that the BGP thread is still to send or has sent
\* after a handler had changed the MAC it was computed from (faucet_bgp.py).
THEOREM ResolvedRulesInstalled == OneRouteEach => (Spec => []ResolvedIsInstalled)
<1> SUFFICES ASSUME OneRouteEach PROVE Spec => []ResolvedIsInstalled
  OBVIOUS
<1>1. Init => RouteInv /\ RuleInv
  BY InitRoute, InitRules
<1>2. RouteInv /\ RuleInv /\ [Next]_vars => (RouteInv /\ RuleInv)'
  BY NextStep, NextKeepsRules
<1>3. RuleInv => ResolvedIsInstalled
  BY DEF RuleInv
<1> QED
  BY <1>1, <1>2, <1>3, PTL DEF Spec
=============================================================================
