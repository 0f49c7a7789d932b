------------------------------ MODULE StackLink ------------------------------
(***************************************************************************)
(* Stack links: the state machine every stack port runs on the LLDP        *)
(* beacons of its peer (port.py, valve_lldp.py), and the copies of the     *)
(* stack graph the datapaths of the stack keep (stack.py, valve_stack.py). *)
(*                                                                         *)
(* Every handler runs on the Faucet application's dispatch thread.  Each   *)
(* datapath has a graph of its own; a change of a port is told to the      *)
(* datapath it is on and to the others that are running, one end of a link *)
(* knows nothing of the other, and a beacon may come late, be lost, or     *)
(* come from a port that is not the configured peer.  Stack ports are      *)
(* physically up while their datapath runs.                                *)
(***************************************************************************)
EXTENDS Integers

CONSTANTS
  NDP,       \* the datapaths are 1..NDP, in the order of ValvesManager.valves
  Link,      \* the configured stack links
  Ends,      \* Link -> [a, z]: the datapaths it joins, the lower first
  Renamed,   \* the stack ports whose beacons carry a configured system_name
  MaxLost    \* max_lldp_lost: beacon intervals until a port times out

DP == 1..NDP

\* A link joins two datapaths, and time-outs take time.
Topology ==
  /\ NDP \in Nat
  /\ Ends \in [Link -> [a : DP, z : DP]]
  /\ \A l \in Link : Ends[l].a < Ends[l].z

Timeout == MaxLost \in Nat \ {0}

ASSUME TopologyAssumption == Topology
ASSUME TimeoutAssumption == Timeout

\* A stack port: an end of a link.
Port == Link \X {"a", "z"}
DpOf(p) == IF p[2] = "a" THEN Ends[p[1]].a ELSE Ends[p[1]].z
Peer(p) == <<p[1], IF p[2] = "a" THEN "z" ELSE "a">>
PortsOf(d) == {p \in Port : DpOf(p) = d}
EndsOf(l) == {<<l, "a">>, <<l, "z">>}

\* dyn_stack_current_state; nothing sets ADMIN_DOWN.
States == {"NONE", "INIT", "UP", "BAD", "GONE"}

\* No beacon yet: last_seen_lldp_time is None.
Never == MaxLost + 1

VARIABLES
  running,   \* DP -> dp.dyn_running
  state,     \* Port -> dyn_stack_current_state
  seen,      \* Port -> beacon intervals since the last beacon (MaxLost: or more)
  correct,   \* Port -> stack_correct of the last beacon
  graph,     \* DP -> the links in its stack.graph
  synced,    \* DP -> links whose latest change it was told of (history)
  wire       \* the ports with a beacon of theirs on the way

vars == <<running, state, seen, correct, graph, synced, wire>>

TypeOK ==
  /\ running \in [DP -> BOOLEAN]
  /\ state \in [Port -> States]
  /\ seen \in [Port -> 0..Never]
  /\ correct \in [Port -> BOOLEAN]
  /\ graph \in [DP -> SUBSET Link]
  /\ synced \in [DP -> SUBSET Link]
  /\ wire \subseteq Port

\* Ports new, every configured link in every graph (resolve_topology).
Init ==
  /\ running = [d \in DP |-> FALSE]
  /\ state = [p \in Port |-> "NONE"]
  /\ seen = [p \in Port |-> Never]
  /\ correct = [p \in Port |-> FALSE]
  /\ graph = [d \in DP |-> Link]
  /\ synced = [d \in DP |-> {}]
  /\ wire = {}

-----------------------------------------------------------------------------
(***************************************************************************)
(* The port's state machine and its effect on the graphs.                  *)
(***************************************************************************)

\* Mutant: wrong cabling does not hold a port back.
stack_port_update_NoCableCheck(st, age, ok) ==
  CASE age = Never   -> IF st = "NONE" THEN "INIT" ELSE st
    [] age = MaxLost -> "GONE"
    [] OTHER         -> "UP"

\* Port.stack_port_update: the next state, given the state, the age of the
\* last beacon and whether it came from the configured peer.
stack_port_update(st, age, ok) ==
  CASE age = Never   -> IF st = "NONE" THEN "INIT" ELSE st
    [] age = MaxLost -> "GONE"
    [] OTHER         -> IF ok THEN "UP" ELSE "BAD"

\* Mutant: a port that is coming up does not ask for its peer.
PortUp_AnyInit(st, peerSt) == st = "UP" \/ st = "INIT"

\* port_up of update_stack_link_state and of Stack.clone_dyn_state: a port in
\* state st puts its link in the graph, its peer being in state peerSt.
PortUp(st, peerSt) == st = "UP" \/ (st = "INIT" /\ peerSt = "UP")

\* Does a change of port p, from its state to after[p], reach datapath d's
\* graph: is d among the stacked_valves, its own and the running ones?
Told(d, p, after) ==
  /\ state[p] # after[p]
  /\ d = DpOf(p) \/ running[d]

\* What port p then makes of its link.  Datapaths are updated in order: the
\* higher end sees the new state of its peer, the lower end the old one.
UpBy(p, after) ==
  IF p[2] = "z" THEN PortUp(after[p], after[Peer(p)])
                ELSE PortUp(after[p], state[Peer(p)])

\* The end of a link that changes last, if one does.
LastEnd(l, after) ==
  IF state[<<l, "z">>] # after[<<l, "z">>] THEN <<l, "z">> ELSE <<l, "a">>

LinkUpAfter(d, l, after) ==
  IF Told(d, <<l, "z">>, after) THEN UpBy(<<l, "z">>, after)
  ELSE IF Told(d, <<l, "a">>, after) THEN UpBy(<<l, "a">>, after)
  ELSE l \in graph[d]

SyncedAfter(d, l, after) ==
  IF \E p \in EndsOf(l) : state[p] # after[p]
  THEN Told(d, LastEnd(l, after), after)
  ELSE l \in synced[d]

\* update_stack_link_state: the ports go to their states in after, and every
\* change is made in the graphs of the datapaths told of it.
UpdateStackLinkState(after) ==
  /\ state' = after
  /\ graph' = [d \in DP |-> {l \in Link : LinkUpAfter(d, l, after)}]
  /\ synced' = [d \in DP |-> {l \in Link : SyncedAfter(d, l, after)}]

\* A beacon as its receiver parses it: datapath, system name and port number.
\* A datapath is named after its id; 0 is the name of none.
lldp_beacon(p) ==
  [dp |-> DpOf(p), name |-> IF p \in Renamed THEN 0 ELSE DpOf(p), port |-> p]

\* verify_lldp: is a beacon that reached port p the one of the configured peer?
stack_correct(p, beacon) ==
  /\ beacon.dp = DpOf(Peer(p))
  /\ beacon.name = DpOf(Peer(p))
  /\ beacon.port = Peer(p)

\* lldp_beacon_send_ports: stack ports send at every interval.
lldp_beacon_send_ports(d) == {p \in PortsOf(d) : running[d]}

\* fast_advertise: beacons leave the stack ports of a datapath.  A second
\* beacon of a port that has one on the way says nothing new.
fast_advertise(d) ==
  /\ ~(lldp_beacon_send_ports(d) \subseteq wire)
  /\ wire' = wire \cup lldp_beacon_send_ports(d)
  /\ UNCHANGED <<running, state, seen, correct, graph, synced>>

\* The beacon of port q is lost, or reaches a port outside the stack.
Lose(q) ==
  /\ q \in wire
  /\ wire' = wire \ {q}
  /\ UNCHANGED <<running, state, seen, correct, graph, synced>>

\* lldp_handler: the beacon of port q comes in on port p, which is cabled to q
\* or was when it was sent, and is verified.  A frame without Faucet's own
\* TLVs changes nothing.
lldp_handler(p, q) ==
  /\ running[DpOf(p)]
  /\ q \in wire
  /\ wire' = wire \ {q}
  /\ seen' = [seen EXCEPT ![p] = 0]
  /\ correct' = [correct EXCEPT ![p] = stack_correct(p, lldp_beacon(q))]
  /\ UpdateStackLinkState([state EXCEPT ![p] =
       stack_port_update(@, 0, stack_correct(p, lldp_beacon(q)))])
  /\ UNCHANGED running

\* fast_state_expire, called by valve_flow_services on every datapath in
\* order, running or not.
FastStateExpire ==
  /\ UpdateStackLinkState(
       [p \in Port |-> stack_port_update(state[p], seen[p], correct[p])])
  /\ UNCHANGED <<running, seen, correct, wire>>

-----------------------------------------------------------------------------
(***************************************************************************)
(* Datapaths come and go, the configuration is reloaded, time passes.      *)
(***************************************************************************)

\* Valve.datapath_connect: neither stack ports nor graphs are touched.
DatapathConnect(d) ==
  /\ ~running[d]
  /\ running' = [running EXCEPT ![d] = TRUE]
  /\ UNCHANGED <<state, seen, correct, graph, synced, wire>>

DatapathDisconnect(d) ==
  /\ running[d]
  /\ running' = [running EXCEPT ![d] = FALSE]
  /\ UNCHANGED <<state, seen, correct, graph, synced, wire>>

\* A reload that keeps the stack links.  changed are the datapaths with some
\* other change; one whose graph has lost a link counts as changed too (its
\* hash differs from that of the full, new graph).  A changed datapath builds
\* its graph from the states of all the ports, the last end of a link deciding
\* (Stack.clone_dyn_state); another keeps the full graph.  Ports keep their
\* state; a datapath that has to cold start is disconnected.
Reload(changed, cold) ==
  LET rebuilt == changed \cup {d \in DP : graph[d] # Link}
  IN /\ cold \subseteq rebuilt
     /\ graph' = [d \in DP |->
          IF d \in rebuilt
          THEN {l \in Link : PortUp(state[<<l, "z">>], state[<<l, "a">>])}
          ELSE Link]
     /\ synced' = [d \in DP |-> IF d \in rebuilt THEN Link ELSE synced[d]]
     /\ running' = [d \in DP |-> running[d] /\ d \notin cold]
     /\ UNCHANGED <<state, seen, correct, wire>>

\* A beacon interval passes.
Tick ==
  /\ seen' = [p \in Port |-> IF seen[p] < MaxLost THEN seen[p] + 1 ELSE seen[p]]
  /\ seen' # seen
  /\ UNCHANGED <<running, state, correct, graph, synced, wire>>

Next ==
  \/ \E d \in DP : fast_advertise(d)
  \/ \E q \in Port : Lose(q)
  \/ \E p, q \in Port : lldp_handler(p, q)
  \/ FastStateExpire
  \/ \E d \in DP : DatapathConnect(d) \/ DatapathDisconnect(d)
  \/ \E changed, cold \in SUBSET DP : Reload(changed, cold)
  \/ Tick

Spec == Init /\ [][Next]_vars

\* The timers run: fast_state_expire is scheduled every two seconds.
FairSpec == Spec /\ WF_vars(FastStateExpire) /\ WF_vars(Tick)

-----------------------------------------------------------------------------
\* A datapath that was told of the latest change of a link has the link in its
\* graph if both ends are up, and only if one end is: though each end adds and
\* removes it with no regard to the other, in the order the changes come.
GraphFollowsEnds ==
  \A d \in DP : \A l \in synced[d] :
    /\ (\A p \in EndsOf(l) : state[p] = "UP") => l \in graph[d]
    /\ l \in graph[d] => \E p \in EndsOf(l) : state[p] = "UP"

\* A port that hears no more beacons of its peer is taken down, and a
\* miscabled one does not come up, however beacons, time-outs, reloads and
\* disconnections interleave.
SilentPortGoes ==
  \A p \in Port :
    /\ <>[](seen[p] = MaxLost) => <>[](state[p] = "GONE")
    /\ <>[](seen[p] < MaxLost /\ ~correct[p]) => <>[](state[p] = "BAD")
=============================================================================
