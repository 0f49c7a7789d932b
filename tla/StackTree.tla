------------------------------ MODULE StackTree ------------------------------
(***************************************************************************)
(* Flooding in a stack: the ports towards and away from the root that each *)
(* datapath works out for itself (valve_stack.py, stack.py), the flood     *)
(* rules made from them (valve_switch_stack.py), and a frame that is       *)
(* flooded through the stack by those rules.                               *)
(*                                                                         *)
(* A datapath computes distances from the graphs of its peers.  When a     *)
(* stack port changes, every datapath updates its own graph and recomputes *)
(* its ports at once, one datapath after the other in no fixed order: one  *)
(* that comes early still sees the old graphs of those to come.  All the   *)
(* datapaths are running, so between two changes their graphs are equal.   *)
(***************************************************************************)
EXTENDS Integers, FiniteSets, FiniteSetsExt

CONSTANTS
  NDP,       \* the datapaths are 1..NDP, in the order of their names
  Link,      \* stack links that may be configured
  Ends,      \* Link -> [a, z]: the datapaths it joins
  Num,       \* Port -> port number
  Confs,     \* the configured topologies: subsets of Link
  Root       \* the datapath that is root

DP == 1..NDP

\* A stack port: an end of a link.
Port == Link \X {"a", "z"}
DpOf(p) == IF p[2] = "a" THEN Ends[p[1]].a ELSE Ends[p[1]].z
Peer(p) == <<p[1], IF p[2] = "a" THEN "z" ELSE "a">>
PeerDp(p) == DpOf(Peer(p))
PortsOf(d, links) == {p \in links \X {"a", "z"} : DpOf(p) = d}

ASSUME TreeAssumption ==
  /\ NDP \in Nat /\ Root \in DP
  /\ Ends \in [Link -> [a : DP, z : DP]]
  /\ \A l \in Link : Ends[l].a # Ends[l].z
  /\ Num \in [Port -> Nat]
  /\ \A p, q \in Port : DpOf(p) = DpOf(q) /\ Num[p] = Num[q] => p = q
  /\ Confs \subseteq SUBSET Link

VARIABLES
  links,     \* the configured stack links
  up,        \* the stack ports that are UP
  graph,     \* the links in the stack graphs
  tree,      \* DP -> what reset_peer_distances last computed
  flow,      \* the frame: from host on datapath src, "bcast" or "ucast"
  flying,    \* Port -> copies of the frame on their way to that port
  local      \* DP -> times the frame was flooded to the hosts there, 2 for more

vars == <<links, up, graph, tree, flow, flying, local>>

None == <<"none", "none">>    \* chosen_towards_port is None
NoFlow == [src |-> 0, kind |-> "none"]

Tree == [towards : SUBSET Port, chosen : SUBSET Port, port : Port \cup {None},
         away : SUBSET Port, inactive : SUBSET Port, pruned : SUBSET Port]

TypeOK ==
  /\ links \in Confs
  /\ up \subseteq links \X {"a", "z"}
  /\ graph \subseteq links
  /\ tree \in [DP -> Tree]
  /\ flow \in [src : DP, kind : {"bcast", "ucast"}] \cup {NoFlow}
  /\ flying \in [Port -> Nat]
  /\ local \in [DP -> 0..2]

-----------------------------------------------------------------------------
(***************************************************************************)
(* Paths in a graph g (stack.py).  shortest_path takes the least, by name, *)
(* of the shortest paths: at every node the least next hop.                *)
(***************************************************************************)
Adjacent(g, d, e) == \E l \in g : {d, e} = {Ends[l].a, Ends[l].z}

\* k hops lead from d to the root.
Walk(g, d, k) ==
  \E f \in [0..k -> DP] :
    f[0] = d /\ f[k] = Root /\ \A i \in 1..k : Adjacent(g, f[i - 1], f[i])

\* len(shortest_path_to_root()) of every datapath: 0 if there is no path.
PathLens ==
  [g \in SUBSET Link |->
    [d \in DP |-> LET hops == {k \in 0..(NDP - 1) : Walk(g, d, k)}
                  IN IF hops = {} THEN 0 ELSE 1 + Min(hops)]]

PathLen(g, d) == PathLens[g][d]

NextHop(g, d) ==
  Min({e \in DP : Adjacent(g, d, e) /\ PathLen(g, e) = PathLen(g, d) - 1})

\* The datapaths on the shortest path to the root of every datapath.
PathNodes ==
  [g \in SUBSET Link |->
    [d \in DP |->
      {e \in DP : \E k \in 0..(PathLen(g, d) - 1) : \E f \in [0..k -> DP] :
         f[0] = d /\ f[k] = e /\ \A i \in 1..k : f[i] = NextHop(g, f[i - 1])}]]

\* is_in_path(d, root) of datapath self.
InPath(g, self, d) == self \in PathNodes[g][d]

\* root_flood_reflection: some datapath is not directly connected to the root.
Reflection == \E d \in DP : PathLen(links, d) > 2

-----------------------------------------------------------------------------
(***************************************************************************)
(* reset_peer_distances of datapath d, with ports u up, its own graph g    *)
(* and the graphs peers of the other datapaths.                            *)
(***************************************************************************)
First(ports) == CHOOSE p \in ports : \A q \in ports : Num[p] =< Num[q]

\* Ports at the shortest distance of the root.
TowardsPorts(d, u, peers) ==
  LET ports == PortsOf(d, links) \cap u
      dist(p) == PathLen(peers[PeerDp(p)], PeerDp(p))
  IN IF d = Root THEN {} ELSE {p \in ports : \A q \in ports : dist(p) =< dist(q)}

\* Mutant: redundant links are pruned in the order of the own port numbers.
PrunedPorts_OwnOrder(away, u) ==
  {p \in away : \E q \in away : PeerDp(q) = PeerDp(p) /\ Num[q] < Num[p]}

\* Redundant ports to an adjacent datapath: all but the first in the order of
\* the port numbers there, which is the one the peer chooses.
PrunedPorts(away, u) ==
  {p \in away : /\ Peer(p) \in u
                /\ \E q \in away : /\ PeerDp(q) = PeerDp(p)
                                   /\ Peer(q) \in u
                                   /\ Num[Peer(q)] < Num[Peer(p)]}

\* Away ports whose peers have a better path to the root.
InactivePorts(d, away, g) == {p \in away : ~InPath(g, d, PeerDp(p))}

reset_peer_distances(d, u, g, peers) ==
  LET towards == TowardsPorts(d, u, peers)
      away == (PortsOf(d, links) \cap u) \ towards
      first == IF PathLen(g, d) > 1 THEN NextHop(g, d)
                                    ELSE PeerDp(First(towards))
      chosen == {p \in towards : PeerDp(p) = first}
  IN [towards |-> towards, chosen |-> chosen,
      port |-> IF chosen = {} THEN None ELSE First(chosen), away |-> away,
      inactive |-> InactivePorts(d, away, g), pruned |-> PrunedPorts(away, u)]

\* Nothing is up yet; the first fast_state_expire took the links out.
Init ==
  /\ links \in Confs
  /\ up = {} /\ graph = {}
  /\ tree = [d \in DP |-> [towards |-> {}, chosen |-> {}, port |-> None,
                           away |-> {}, inactive |-> {}, pruned |-> {}]]
  /\ flow = NoFlow
  /\ flying = [p \in Port |-> 0]
  /\ local = [d \in DP |-> 0]

Still == \A p \in Port : flying[p] = 0

\* Stack port p changes state, and every datapath, in the order rank, does
\* update_stack_topo.  A port that is INIT counts as up if its peer is.
PortChange(p, state, rank) ==
  /\ flow = NoFlow
  /\ p[1] \in links
  /\ p \in up => state # "up"
  /\ up' = IF state = "up" THEN up \cup {p} ELSE up \ {p}
  /\ graph' = IF state = "up" \/ (state = "init" /\ Peer(p) \in up)
              THEN graph \cup {p[1]} ELSE graph \ {p[1]}
  /\ tree' = [d \in DP |-> reset_peer_distances(d, up', graph',
                [e \in DP |-> IF rank[e] =< rank[d] THEN graph' ELSE graph])]
  /\ UNCHANGED <<links, flow, flying, local>>

-----------------------------------------------------------------------------
(***************************************************************************)
(* The flood rules of datapath d, for a frame that comes in on port p, or  *)
(* from a host (p is None): the stack ports it is sent to, and whether it  *)
(* is sent to the hosts.  VLANs without external ports.                    *)
(***************************************************************************)

\* is_pruned_port: broadcasts that come in here are dropped.
Pruned(d, p) ==
  IF p \in tree[d].towards THEN p # tree[d].port
  ELSE p \in tree[d].away => p \in tree[d].pruned

\* Mutant: other links to the datapath a frame comes from are not excluded.
AwayOut_Adjacent(d, p) == (tree[d].away \ tree[d].inactive) \ {p}

AwayOut(d, p) ==
  {q \in tree[d].away \ tree[d].inactive :
     p # None => PeerDp(q) # PeerDp(p)}

TowardsOut(d, p) == tree[d].chosen \ {p}

\* Mutant: the root does not reflect a frame to where it comes from.
FloodPorts_NoReflection(d, p) ==
  IF ~Reflection THEN TowardsOut(d, p) \cup AwayOut(d, p)
  ELSE IF d = Root THEN AwayOut(d, p)
       ELSE IF p \in tree[d].towards THEN AwayOut(d, p) ELSE TowardsOut(d, p)

\* _flood_actions of ValveSwitchStackManagerNoReflection and -Reflection.
FloodPorts(d, p) ==
  IF ~Reflection THEN TowardsOut(d, p) \cup AwayOut(d, p)
  ELSE IF d = Root
       THEN AwayOut(d, p) \cup (IF p \in tree[d].away THEN {p} ELSE {})
       ELSE IF p \in tree[d].towards THEN AwayOut(d, p) ELSE TowardsOut(d, p)

FloodsLocally(d, p) == ~Reflection \/ d = Root \/ p \in tree[d].towards

Flood(d, p) ==
  /\ flying' = [q \in Port |->
       flying[q] - (IF q = p THEN 1 ELSE 0)
                 + (IF Peer(q) \in FloodPorts(d, p) THEN 1 ELSE 0)]
  /\ local' = [local EXCEPT ![d] =
                 IF FloodsLocally(d, p) /\ @ < 2 THEN @ + 1 ELSE @]

\* A host on datapath d sends a broadcast, or a unicast to an unknown host.
Send(d, kind) ==
  /\ flow = NoFlow
  /\ flow' = [src |-> d, kind |-> kind]
  /\ Flood(d, None)
  /\ UNCHANGED <<links, up, graph, tree>>

\* The filter of the input table: broadcasts that come in on a pruned port are
\* dropped, unicasts never.
Filtered(p) == flow.kind = "bcast" /\ Pruned(DpOf(p), p)

\* A copy comes in on port p.
Receive(p) ==
  /\ flying[p] > 0
  /\ IF Filtered(p)
     THEN /\ flying' = [flying EXCEPT ![p] = @ - 1]
          /\ UNCHANGED local
     ELSE Flood(DpOf(p), p)
  /\ UNCHANGED <<links, up, graph, tree, flow>>

\* The next frame is another one.
Done ==
  /\ flow # NoFlow /\ Still
  /\ flow' = NoFlow
  /\ local' = [d \in DP |-> 0]
  /\ UNCHANGED <<links, up, graph, tree, flying>>

\* The root, whose distance is the same in all graphs, may as well be first.
Order == {r \in [DP -> DP] : /\ r[Root] = 1
                            /\ \A d, e \in DP : r[d] = r[e] => d = e}

\* Both ends of every link agree, and every datapath has computed its ports
\* from the graphs as they are.
Settled ==
  /\ \A p \in up : Peer(p) \in up
  /\ \A d \in DP : tree[d] = reset_peer_distances(d, up, graph,
                                                  [e \in DP |-> graph])

\* Frames are followed through a settled stack only.
Next ==
  \/ \E p \in Port, state \in {"up", "init", "down"}, rank \in Order :
       PortChange(p, state, rank)
  \/ \E d \in DP, kind \in {"bcast", "ucast"} :
       Settled /\ Send(d, kind)
  \/ \E p \in Port : Receive(p)
  \/ Done

Spec == Init /\ [][Next]_vars

\* Switches forward what they receive.
FairSpec == Spec /\ WF_vars(\E p \in Port : Receive(p))

-----------------------------------------------------------------------------
\* A frame from a datapath that has a path to the root.  Of the others none of
\* this holds: they choose where the root is by the numbers of their ports.
Connected == flow # NoFlow /\ PathLen(graph, flow.src) # 0

\* "Faucet uses this spanning tree to ensure broadcast packets aren't looped
\* around the network": the hosts of a datapath get a broadcast at most once,
\* on whatever redundant links.
NoDuplicate ==
  Connected /\ flow.kind = "bcast" => \A d \in DP : local[d] =< 1

\* Redundancy costs no connectivity: a frame flooded from a datapath that has
\* a path to the root reaches the hosts of all the others that have one.
AllReached ==
  Connected /\ Still => \A d \in DP : PathLen(graph, d) # 0 => local[d] >= 1

\* Datapaths that more than one link joins, the lower first.
Redundant ==
  {e \in DP \X DP : /\ e[1] < e[2]
                    /\ \E k, l \in graph : /\ k # l
                                           /\ {Ends[k].a, Ends[k].z} = {e[1], e[2]}
                                           /\ {Ends[l].a, Ends[l].z} = {e[1], e[2]}}

\* No broadcast goes round for ever, and no unicast to an unknown host, which
\* is not dropped on pruned ports, unless without reflection there are two
\* pairs of datapaths that return it to each other on their redundant links.
FloodEnds ==
  Connected /\ (flow.kind = "ucast" /\ ~Reflection => Cardinality(Redundant) =< 1)
    ~> Still
=============================================================================
