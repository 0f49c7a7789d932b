-------------------------------- MODULE Lacp --------------------------------
(***************************************************************************)
(* Link aggregation: the LACP actor state and the role of each port of a   *)
(* LAG, the datapath that is nominated for a LAG spread over a stack, the  *)
(* rules that keep a port out of forwarding, the member a datapath floods  *)
(* to, and what the partner is told (valve.py lacp_update, port.py,        *)
(* valve_switch_standalone.py, valve_switch_stack.py, vlan.py).            *)
(*                                                                         *)
(* A partner is a switch or host at the other end of a port, which sends   *)
(* LACP packets with or without the synchronization bit while it is alive. *)
(***************************************************************************)
EXTENDS Integers, FiniteSets, TLC

CONSTANTS
  Dp,          \* datapath IDs
  Port,        \* LACP ports of all datapaths
  DpOf, LagOf, \* the datapath and the LAG of each port
  Stacked,     \* the datapaths are a stack
  Root,        \* its root at the start
  Forced,      \* per port: none, selected, unselected or standby
  Active,      \* the ports with lacp_active
  Both,        \* the ports with lacp_collect_and_distribute
  Passthrough, \* per port: lacp_passthrough
  None,
  Changing,    \* bound: the ports whose link or partner changes by itself
  MaxChanges,  \* bound: what links, partners, connections and reloads do
  MaxChanged   \* bound: the ports and datapaths one reload changes

ASSUME LacpAssumption ==
  /\ Port \subseteq Nat /\ DpOf \in [Port -> Dp]
  /\ Root \in Dp /\ None \notin BOOLEAN /\ MaxChanges \in Nat

VARIABLES
  running, \* the datapaths with dyn_running
  phys,    \* the ports with dyn_phys_up
  actor,   \* dyn_lacp_actor_state
  role,    \* dyn_lacp_port_selected
  lacpUp,  \* the ports with dyn_lacp_up
  last,    \* dyn_last_lacp_pkt: its synchronization bit
  root,    \* the root of the stack
  drop,    \* in the switches: the ports whose frames are dropped
  flood,   \* in the switches: the members of LAGs flooded to
  told,    \* the frame last sent to the partner
  alive,   \* the partners that send
  sync,    \* the partners that set the synchronization bit
  wire,    \* per port: the bit of a packet on its way to the controller
  changes  \* counts towards MaxChanges

vars == <<running, phys, actor, role, lacpUp, last, root, drop, flood, told,
          alive, sync, wire, changes>>

PortsOf(d) == {p \in Port : DpOf[p] = d}
Lag == {LagOf[p] : p \in Port}
Actor == {"notconfigured", "none", "init", "up", "nosync"}
Role == {"notconfigured", "unselected", "selected", "standby"}
Bit == {TRUE, FALSE, None}
Frame == [active : BOOLEAN, sync : BOOLEAN, forward : BOOLEAN]

TypeOK ==
  /\ running \subseteq Dp /\ phys \subseteq Port
  /\ actor \in [Port -> Actor] /\ role \in [Port -> Role]
  /\ \A p \in Port : actor[p] # "none" /\ actor[p] # "notconfigured" => p \in phys
  /\ lacpUp \subseteq Port /\ last \in [Port -> Bit] /\ root \in Dp
  /\ drop \subseteq Port /\ flood \subseteq Port
  /\ told \in [Port -> Frame \cup {None}]
  /\ alive \subseteq Port /\ sync \subseteq Port /\ wire \in [Port -> Bit]
  /\ changes \in 0..MaxChanges

-----------------------------------------------------------------------------
(***************************************************************************)
(* The datapath nominated for a LAG.                                       *)
(***************************************************************************)

UpOn(a, l, d) == {p \in PortsOf(d) : LagOf[p] = l /\ a[p] = "up"}

\* The datapaths that compete: those with a port of the LAG up, and, with no
\* port, those with a port of any LAG that is not in sync.
Candidates(a, l) ==
  {d \in Dp : UpOn(a, l, d) # {} \/ \E p \in PortsOf(d) : a[p] = "nosync"}

\* Most ports up, then the root.  Of other datapaths that are equal the code
\* returns all, as a list, and none of them takes itself to be nominated.
get_lacp_dpid_nomination(a, l) ==
  LET C == Candidates(a, l)
      most == {d \in C : \A e \in C : Cardinality(UpOn(a, l, e))
                                        <= Cardinality(UpOn(a, l, d))}
  IN IF Cardinality(most) = 1 THEN most ELSE most \cap {root}

\* Is datapath d the one nominated?  A datapath that is not stacked always is.
\* Without the other valves, as when a link comes up or a datapath is lost, no
\* datapath of a stack is.
Nominated(d, a, l, others) ==
  ~Stacked \/ (others /\ d \in get_lacp_dpid_nomination(a, l))

\* The role of a port of a datapath that is nominated, or is not.
lacp_port_update(p, nominated) ==
  CASE Forced[p] = "selected" -> "selected"
    [] Forced[p] = "unselected" -> "unselected"
    [] OTHER -> IF nominated THEN "selected"
                ELSE IF Forced[p] = "standby" THEN "standby" ELSE "unselected"

lacp_update_port_selection_state(p, a, others) ==
  lacp_port_update(p, Nominated(DpOf[p], a, LagOf[p], others))

-----------------------------------------------------------------------------
(***************************************************************************)
(* The state of one port.                                                  *)
(***************************************************************************)

\* lacp_actor_update.
ActorOf(p, isUp, pkt, ph) ==
  CASE p \notin ph -> "none"
    [] p \in ph /\ pkt = None -> "init"
    [] p \in ph /\ pkt # None -> IF isUp THEN "up" ELSE "nosync"

lacp_update_actor_state(p, isUp, pkt, ph) ==
  [actor EXCEPT ![p] = ActorOf(p, isUp, pkt, ph)]

\* excluded_lag_ports: a datapath floods to one member of a LAG, its first one
\* that is selected and up.
FloodMembers(d, a, r) ==
  {p \in PortsOf(d) :
     /\ r[p] = "selected" /\ a[p] = "up"
     /\ \A q \in PortsOf(d) :
          LagOf[q] = LagOf[p] /\ r[q] = "selected" /\ a[q] = "up" => p <= q}

\* What a role means to the partner: whether the link will be used, and
\* whether frames are collected and distributed.
get_lacp_flags(p, r) ==
  [sync |-> p \in Both \/ r[p] \in {"standby", "selected"},
   forward |-> p \in Both \/ r[p] = "selected"]

\* The LACP frame to a partner; what it repeats of the partner's is left out.
lacp_reqreply(p, flags) ==
  [active |-> p \in Active, sync |-> flags.sync, forward |-> flags.forward]

\* lacp_req_reply: nothing is sent while a peer port is down.
Tell(t, p, r, lu) ==
  IF Passthrough[p] \subseteq lu
  THEN [t EXCEPT ![p] = lacp_reqreply(p, get_lacp_flags(p, r))]
  ELSE t

\* Mutant: the VLANs of a port that stops forwarding are not updated.
SetForwarding_Flood(p, a, r, ph, lu, t) ==
  IF r[p] = "selected" /\ a[p] = "up"
  THEN /\ drop' = drop \ {p} /\ told' = t
       /\ flood' = (flood \ PortsOf(DpOf[p])) \cup FloodMembers(DpOf[p], a, r)
  ELSE /\ drop' = drop \cup {p} /\ UNCHANGED flood
       /\ told' = IF p \in ph \cap Active THEN Tell(t, p, r, lu) ELSE t

\* A port that is selected and up is let through, any other is not, and is
\* added anew, which advertises LACP if it is active; the flood rules of its
\* VLANs are updated.
SetForwarding(p, a, r, ph, lu, t) ==
  /\ flood' = (flood \ PortsOf(DpOf[p])) \cup FloodMembers(DpOf[p], a, r)
  /\ IF r[p] = "selected" /\ a[p] = "up"
     THEN drop' = drop \ {p} /\ told' = t
     ELSE /\ drop' = drop \cup {p}
          /\ told' = IF p \in ph \cap Active THEN Tell(t, p, r, lu) ELSE t

\* Mutant: a role that changes without the actor does not count.
lacp_update_Actor(p, isUp, pkt, others, ph, lu, t) ==
  \E a \in {lacp_update_actor_state(p, isUp, pkt, ph)} :
  \E r \in {[role EXCEPT ![p] = lacp_update_port_selection_state(p, a, others)]} :
    /\ actor' = a /\ role' = r
    /\ lacpUp' = lu
    /\ last' = [last EXCEPT ![p] = pkt]
    /\ IF a = actor THEN told' = t /\ UNCHANGED <<drop, flood>>
       ELSE SetForwarding(p, a, r, ph, lu, t)

\* Mutant: the role is taken only when the actor state changes.
lacp_update_Sticky(p, isUp, pkt, others, ph, lu, t) ==
  \E a \in {lacp_update_actor_state(p, isUp, pkt, ph)} :
  \E r \in {IF a = actor THEN role ELSE
              [role EXCEPT ![p] = lacp_update_port_selection_state(p, a, others)]} :
    /\ actor' = a /\ role' = r
    /\ lacpUp' = lu
    /\ last' = [last EXCEPT ![p] = pkt]
    /\ IF a = actor THEN told' = t /\ UNCHANGED <<drop, flood>>
       ELSE SetForwarding(p, a, r, ph, lu, t)

\* lacp_update: the actor state and the role, and the rules if either changed.
\* ph, lu and t are the ports up, dyn_lacp_up and told when it is called.
lacp_update(p, isUp, pkt, others, ph, lu, t) ==
  \E a \in {lacp_update_actor_state(p, isUp, pkt, ph)} :
  \E r \in {[role EXCEPT ![p] = lacp_update_port_selection_state(p, a, others)]} :
    /\ actor' = a /\ role' = r
    /\ lacpUp' = lu
    /\ last' = [last EXCEPT ![p] = pkt]
    /\ IF a = actor /\ r = role THEN told' = t /\ UNCHANGED <<drop, flood>>
       ELSE SetForwarding(p, a, r, ph, lu, t)

-----------------------------------------------------------------------------
(***************************************************************************)
(* Handlers.                                                               *)
(***************************************************************************)

\* Mutant: answers only packets that differ from the last one.
lacp_handler_Once(p, due) ==
  /\ wire[p] # None /\ DpOf[p] \in running
  /\ lacp_update(p, wire[p], wire[p], TRUE, phys,
                 IF wire[p] THEN lacpUp \cup {p} ELSE lacpUp \ {p},
                 IF wire[p] # last[p] THEN Tell(told, p, role, lacpUp) ELSE told)
  /\ wire' = [wire EXCEPT ![p] = None]
  /\ UNCHANGED <<running, phys, root, alive, sync, changes>>

\* lacp_handler: answers a packet that differs from the last one, or when the
\* last answer is lacp_resp_interval old (due), with the flags of the role the
\* port had; then updates the port.
lacp_handler(p, due) ==
  /\ wire[p] # None /\ DpOf[p] \in running
  /\ lacp_update(p, wire[p], wire[p], TRUE, phys,
                 IF wire[p] THEN lacpUp \cup {p} ELSE lacpUp \ {p},
                 IF wire[p] # last[p] \/ due THEN Tell(told, p, role, lacpUp) ELSE told)
  /\ wire' = [wire EXCEPT ![p] = None]
  /\ UNCHANGED <<running, phys, root, alive, sync, changes>>

\* A packet from a datapath that is not running is dropped.
LatePacket(p) ==
  /\ wire[p] # None /\ DpOf[p] \notin running
  /\ wire' = [wire EXCEPT ![p] = None]
  /\ UNCHANGED <<running, phys, actor, role, lacpUp, last, root, drop, flood,
                 told, alive, sync, changes>>

\* _lacp_state_expire, for one of the ports that are up and not heard of.
_lacp_state_expire(p) ==
  /\ DpOf[p] \in running /\ actor[p] = "up" /\ p \notin alive /\ wire[p] = None
  /\ lacp_update(p, FALSE, None, TRUE, phys, lacpUp \ {p}, told)
  /\ UNCHANGED <<running, phys, root, alive, sync, wire, changes>>

\* fast_advertise, for one port.
lacp_advertise(p) ==
  /\ DpOf[p] \in running /\ p \in phys \cap Active
  /\ told' = Tell(told, p, role, lacpUp)
  /\ UNCHANGED <<running, phys, actor, role, lacpUp, last, root, drop, flood,
                 alive, sync, wire, changes>>

\* ports_add: add_port advertises, then the port starts over.
port_add(p) ==
  /\ changes < MaxChanges /\ p \in Changing /\ DpOf[p] \in running /\ p \notin phys
  /\ phys' = phys \cup {p}
  /\ lacp_update(p, FALSE, None, FALSE, phys \cup {p}, lacpUp \ {p},
                 IF p \in Active THEN Tell(told, p, role, lacpUp) ELSE told)
  /\ changes' = changes + 1
  /\ UNCHANGED <<running, root, alive, sync, wire>>

\* ports_delete of a port that goes down.
port_delete(p) ==
  /\ changes < MaxChanges /\ p \in Changing /\ DpOf[p] \in running /\ p \in phys
  /\ phys' = phys \ {p}
  /\ lacp_update(p, FALSE, None, TRUE, phys \ {p}, lacpUp \ {p}, told)
  /\ changes' = changes + 1
  /\ UNCHANGED <<running, root, alive, sync, wire>>

\* datapath_disconnect deletes all ports; no flows are sent.
datapath_disconnect(d) ==
  /\ changes < MaxChanges /\ d \in running
  /\ running' = running \ {d}
  /\ phys' = phys \ PortsOf(d)
  /\ lacpUp' = lacpUp \ PortsOf(d)
  /\ last' = [p \in Port |-> IF DpOf[p] = d THEN None ELSE last[p]]
  /\ actor' = [p \in Port |-> IF DpOf[p] = d THEN "none" ELSE actor[p]]
  /\ role' = [p \in Port |->
       IF DpOf[p] = d THEN lacp_update_port_selection_state(p, actor', FALSE)
                      ELSE role[p]]
  /\ changes' = changes + 1
  /\ UNCHANGED <<root, drop, flood, told, alive, sync, wire>>

\* datapath_connect: a cold start with the ports P up, whose states start from
\* notconfigured, so that each is kept out of forwarding.
datapath_connect(d, P) ==
  /\ d \notin running
  /\ running' = running \cup {d}
  /\ phys' = phys \cup P
  /\ lacpUp' = lacpUp \ P
  /\ last' = [p \in Port |-> IF p \in P THEN None ELSE last[p]]
  /\ actor' = [p \in Port |-> IF p \in P THEN "init" ELSE actor[p]]
  /\ role' = [p \in Port |->
       IF p \in P THEN lacp_update_port_selection_state(p, actor', FALSE)
                  ELSE role[p]]
  /\ drop' = (drop \ PortsOf(d)) \cup P
  /\ flood' = (flood \ PortsOf(d)) \cup FloodMembers(d, actor', role')
  /\ told' = [p \in Port |-> IF p \in P \cap Active THEN Tell(told, p, role, lacpUp)[p]
                             ELSE told[p]]
  /\ UNCHANGED <<root, alive, sync, wire, changes>>

\* reload_config of every datapath: C are the ports up whose configuration
\* changed, K the datapaths that start cold.  The ports are new objects, to
\* which clone_dyn_state copies that they are up but nothing of LACP.  Only
\* those in C are deleted and added, without the other valves, so that the
\* rules of the others stay.  A datapath in K that runs is disconnected.
reload_config(C, K) ==
  /\ running' = running \ K
  /\ phys' = {p \in phys : DpOf[p] \notin K}
  /\ lacpUp' = {} /\ last' = [p \in Port |-> None]
  /\ \E up \in {C \cap phys'} :
       /\ actor' = [p \in Port |-> IF DpOf[p] \in K \cap running THEN "none"
                                   ELSE IF p \in up THEN "init" ELSE "notconfigured"]
       /\ role' = [p \in Port |->
            IF DpOf[p] \in K \cap running \/ p \in up
            THEN lacp_update_port_selection_state(p, actor', FALSE)
            ELSE "notconfigured"]
       /\ drop' = drop \cup up
       /\ flood' = {p \in flood : \A q \in up : DpOf[p] # DpOf[q]}
       /\ told' = [p \in Port |-> IF p \in up \cap Active THEN Tell(told, p, role', {})[p]
                                  ELSE told[p]]
  /\ changes' = changes + 1
  /\ UNCHANGED <<alive, sync, wire>>

\* _apply_configs of a file that changed, or of one that sets the root a
\* datapath knows right again.
ReloadConfig(C, K) ==
  /\ changes < MaxChanges /\ Cardinality(C) + Cardinality(K) <= MaxChanged
  /\ reload_config(C, K) /\ UNCHANGED root

\* reload_stack_root_config: a change of root is a cold start of every
\* datapath of the stack.
RootChanges ==
  /\ changes < MaxChanges /\ Stacked /\ reload_config({}, Dp)
  /\ root' \in Dp \ {root}

-----------------------------------------------------------------------------
(***************************************************************************)
(* Surroundings: the partners.                                             *)
(***************************************************************************)

PartnerSends(p) ==
  /\ p \in alive \cap phys /\ DpOf[p] \in running /\ wire[p] = None
  /\ wire' = [wire EXCEPT ![p] = p \in sync]
  /\ UNCHANGED <<running, phys, actor, role, lacpUp, last, root, drop, flood,
                 told, alive, sync, changes>>

PartnerChanges(p) ==
  /\ changes < MaxChanges /\ p \in Changing
  /\ \/ alive' = (alive \ {p}) \cup ({p} \ alive) /\ UNCHANGED sync
     \/ sync' = (sync \ {p}) \cup ({p} \ sync) /\ UNCHANGED alive
  /\ changes' = changes + 1
  /\ UNCHANGED <<running, phys, actor, role, lacpUp, last, root, drop, flood,
                 told, wire>>

Init ==
  /\ running = {} /\ phys = {}
  /\ actor = [p \in Port |-> "notconfigured"]
  /\ role = [p \in Port |-> "notconfigured"]
  /\ lacpUp = {} /\ last = [p \in Port |-> None] /\ root = Root
  /\ drop = {} /\ flood = {} /\ told = [p \in Port |-> None]
  /\ alive = Port /\ sync = Port /\ wire = [p \in Port |-> None]
  /\ changes = 0

Next ==
  \/ \E p \in Port : \/ \E due \in BOOLEAN : lacp_handler(p, due)
                     \/ LatePacket(p) \/ _lacp_state_expire(p) \/ lacp_advertise(p)
                     \/ port_add(p) \/ port_delete(p)
                     \/ PartnerSends(p) \/ PartnerChanges(p)
  \/ \E d \in Dp : \/ datapath_disconnect(d)
                   \/ \E P \in {{}, PortsOf(d)} : datapath_connect(d, P)
  \/ \E C \in SUBSET phys, K \in SUBSET Dp : ReloadConfig(C, K)
  \/ RootChanges

Spec == Init /\ [][Next]_vars

\* A partner that is alive sends again and again; the packet in queue is
\* handled, now and then when an answer is due; state_expire is called
\* periodically.
FairSpec ==
  /\ Spec
  /\ \A p \in Port : /\ WF_vars(PartnerSends(p)) /\ SF_vars(lacp_handler(p, TRUE))
                     /\ WF_vars(_lacp_state_expire(p))
-----------------------------------------------------------------------------
(***************************************************************************)
(* Properties.                                                             *)
(***************************************************************************)

\* A port that is up, and has started or been heard of since the configuration
\* was loaded, forwards if and only if it is selected and its partner is in
\* sync: its drop rule follows packets, time-outs, links, reconnections and
\* reloads (lacp_update, enable_forwarding).  A port whose state a reload has
\* dropped keeps its rules until then (clone_dyn_state of Port).
ForwardsIfSelected ==
  \A p \in phys :
    actor[p] # "notconfigured" =>
      (p \notin drop <=> role[p] = "selected" /\ actor[p] = "up")

\* A running datapath floods to one member of each LAG that has a member that
\* is selected and in sync, to such a one, and otherwise to none, or to one
\* whose state a reload has dropped (excluded_lag_ports): no frame is flooded
\* twice into a LAG, nor into a member known to be ignored by its partner.
FloodsToOneMember ==
  \A d \in running, l \in Lag :
    LET on == {p \in PortsOf(d) : LagOf[p] = l /\ role[p] = "selected" /\ actor[p] = "up"}
        out == {p \in flood \cap PortsOf(d) : LagOf[p] = l}
    IN IF on # {} THEN out \subseteq on /\ Cardinality(out) = 1
       ELSE /\ Cardinality(out) <= 1
            /\ \A p \in out : actor[p] = "notconfigured"

\* Once links, partners and datapaths stay as they are, the ports that are up
\* agree on one datapath for their LAG, though each takes its role by itself
\* and at another time (lacp_update_port_selection_state).
RolesAgree ==
  <>[] \A p \in Port :
    actor[p] = "up" => role[p] = lacp_update_port_selection_state(p, actor, TRUE)

\* The partner of a port that is up learns its role, although an answer is
\* built before the role is updated and most packets are not answered
\* (lacp_handler, lacp_req_reply).
PartnerTold ==
  <>[] \A p \in Port :
    actor[p] = "up" => told[p] = lacp_reqreply(p, get_lacp_flags(p, role))
=============================================================================
