--------------------------------- MODULE Acl --------------------------------
(***************************************************************************)
(* ACLs and tunnels: the rules of the ACLs of a port, and the paths of the *)
(* tunnels an ACL sends packets through the stack by, as ports, stack      *)
(* links, connections and the configuration change (valve_acl.py, acl.py,  *)
(* valve_stack.py, valve_lldp.py).                                         *)
(*                                                                         *)
(* A configuration c has c.acls (ACL -> its rules), c.in (the ACLs of      *)
(* every host port) and c.tunnels, the tunnels that rules refer to by VID. *)
(* Port ACLs are not exact_match, and a rule uses one tunnel at most.  The *)
(* switches execute messages in the order they come.                       *)
(***************************************************************************)
EXTENDS FlowTable, FiniteSetsExt

CONSTANTS
  NDP,        \* the datapaths are 1..NDP, in the order of their names
  Link, Ends, \* stack links, and the datapaths [a, z] each joins
  HostPorts,  \* DP -> sequence of host ports
  Configs,    \* the configurations that are loaded
  Hdrs,       \* headers of the packets that hosts send
  None,
  MaxChanges  \* bound: events

DP == 1..NDP
HostPort(d) == ToSet(HostPorts[d])
End == Link \X {"a", "z"}
DpOf(e) == IF e[2] = "a" THEN Ends[e[1]].a ELSE Ends[e[1]].z
StackPorts(d) == {l \in Link : d \in {Ends[l].a, Ends[l].z}}
Far(d, l) == IF Ends[l].a = d THEN Ends[l].z ELSE Ends[l].a

VARIABLES
  conf,     \* the configuration
  up,       \* the ends of stack links that are UP
  graph,    \* DP -> the links in its stack graph
  hup,      \* the host ports, <<d, p>>, that are up
  running,  \* DP -> dyn_running
  queue,    \* DP -> messages on their way to its switch
  tab,      \* DP -> the port ACL table
  told,     \* DP -> configuration and graph its tunnel rules are of, or None
  was,      \* DP -> configurations of the rules its switch may have (history)
  changes   \* counts towards MaxChanges

vars == <<conf, up, graph, hup, running, queue, tab, told, was, changes>>

AclPriority == 10
OverridePriority == AclPriority + 1
TunnelPcp == 3          \* PCP_TUNNEL_FLAG
ReversePcp == 4         \* PCP_TUNNEL_REVERSE_DIRECTION_FLAG

-----------------------------------------------------------------------------
(***************************************************************************)
(* Paths: shortest_path takes the least, by name, of the shortest ones.    *)
(***************************************************************************)
Adjacent(g, d, e) == \E l \in g : {d, e} = {Ends[l].a, Ends[l].z}

\* Hops to datapath t, NDP if there is no path.
Hops ==
  [g \in SUBSET Link |-> [t \in DP |->
    LET W[k \in 0..NDP] ==
          IF k = 0 THEN {t}
          ELSE W[k - 1] \cup {d \in DP : \E e \in W[k - 1] : Adjacent(g, d, e)}
    IN [d \in DP |-> Min({k \in 0..NDP : d \in W[k]} \cup {NDP})]]]

NextHop(g, d, t) ==
  Min({e \in DP : Adjacent(g, d, e) /\ Hops[g][t][e] = Hops[g][t][d] - 1})

\* The datapaths on shortest_path(t, s).
Paths ==
  [g \in SUBSET Link |-> [s \in DP |-> [t \in DP |->
    LET P[k \in 0..NDP] ==
          IF k = 0 THEN s
          ELSE LET d == P[k - 1] IN IF d = t THEN t ELSE NextHop(g, d, t)
    IN IF Hops[g][t][s] = NDP THEN {} ELSE {P[k] : k \in 0..NDP}]]]

Path(g, s, t) == Paths[g][s][t]

ASSUME PathAssumption ==
  /\ Hops \in [SUBSET Link -> [DP -> [DP -> 0..NDP]]]
  /\ Paths \in [SUBSET Link -> [DP -> [DP -> SUBSET DP]]]

\* shortest_path_port: the stack port towards datapath t.
PortTowards(g, d, t) ==
  CHOOSE l \in g : {d, NextHop(g, d, t)} = {Ends[l].a, Ends[l].z}

\* tunnel_outport of datapath d, on a tunnel from s to port port of t.
tunnel_outport(g, d, s, t, port) ==
  IF d \notin Path(g, s, t) THEN None
  ELSE IF d = t THEN port ELSE PortTowards(g, d, t)

-----------------------------------------------------------------------------
(***************************************************************************)
(* The messages for the rules of a port's ACLs (valve_acl.py).             *)
(***************************************************************************)

\* The output of rule r, in the order in which it is done: that of the list,
\* or, for a dictionary, the one of build_output_actions.
Output(r) ==
  LET of(action) == SelectSeq(r.out, LAMBDA a : a[1] = action)
  IN IF ~r.dict THEN r.out
     ELSE of("pop") \o of("push") \o of("set") \o of("out")
            \o of("failover") \o of("tunnel")

\* build_ordered_output_actions of output o; tunnel are the actions of a tunnel.
OutputActions(o, tunnel) ==
  FlattenSeq([i \in DOMAIN o |->
    CASE o[i][1] = "failover" -> <<<<"group", o[i][2]>>>>
      [] o[i][1] = "tunnel"   -> tunnel
      [] OTHER                -> <<o[i]>>])

OutputGroups(o) ==
  FlattenSeq([i \in DOMAIN o |->
    IF o[i][1] = "failover" THEN groupadd(o[i][2], o[i][3]) ELSE <<>>])

TunnelsOf(r) == {a[2] : a \in {x \in ToSet(r.out) : x[1] = "tunnel"}}

\* A rule that mirrors allows the packet unless it says otherwise.
Allows(r) == r.allow = "yes" \/ (r.allow = "unset" /\ r.mirror # None)

\* build_acl_entry: match and instructions of rule r for port p; tunnel are the
\* instructions of its tunnel.
AclMatch(r, p) == {x \in r.match : x[1] # "in_port"} \cup {<<"in_port", p>>}
AclInst(r, tunnel) ==
  Inst(r.meter,
       (IF r.mirror = None THEN <<>> ELSE <<<<"out", r.mirror>>>>)
         \o OutputActions(Output(r), tunnel.acts),
       IF ~Allows(r) THEN tunnel.goto ELSE IF r.force THEN "eth_dst" ELSE "vlan")

build_rule_ofmsgs(r, p, prio, tunnel, del) ==
  OutputGroups(Output(r))
    \o (IF del THEN <<flowdel(AclMatch(r, p), prio, FALSE)>> ELSE <<>>)
    \o <<flowmod(AclMatch(r, p), prio, AclInst(r, tunnel), r.cookie)>>

\* The rules of the ACLs of port p, in their order.
RulesOf(c, d, p) ==
  FlattenSeq([i \in DOMAIN c.in[d][p] |-> c.acls[c.in[d][p][i]]])

build_acl_ofmsgs(c, d, p) ==
  LET rules == RulesOf(c, d, p)
  IN FlattenSeq([n \in DOMAIN rules |->
       build_rule_ofmsgs(rules[n], p, AclPriority - (n - 1), Goto(Stop), FALSE)])

\* ValveAclManager.add_port and del_port; p is a host port or a stack port.
acl_add_port(c, d, p) ==
  IF p \in HostPort(d) /\ c.in[d][p] # <<>> THEN build_acl_ofmsgs(c, d, p)
  ELSE <<flowmod({<<"in_port", p>>}, AclPriority, Goto("vlan"), Cookie)>>

acl_del_port(p) == <<flowdel({<<"in_port", p>>}, 0, FALSE)>>

-----------------------------------------------------------------------------
(***************************************************************************)
(* The messages for the tunnels (acl.py, valve_stack.py).  t is a tunnel   *)
(* [vid, acl, dp, port, bidir, reverse, maintain, exit], s a source, the   *)
(* port [dp, port] that its ACL is applied to.                             *)
(***************************************************************************)
Sources(c, t) ==
  FlattenSeq([d \in DP |->
    LET ports == SelectSeq(HostPorts[d], LAMBDA p : Contains(c.in[d][p], t.acl))
    IN [i \in DOMAIN ports |-> [dp |-> d, port |-> ports[i]]]])

Pcp(t) == IF t.reverse THEN ReversePcp ELSE TunnelPcp
Encapsulate(t) == <<<<"push", t.vid>>, <<"pcp", Pcp(t)>>>>
Decapsulate(t) == IF t.maintain THEN <<>> ELSE <<<<"pop">>>>

\* update_source_tunnel_rules on the source's datapath.
SourceInst(t, s, out) ==
  IF s.dp # t.dp
  THEN Inst(NoMeter, Encapsulate(t) \o <<<<"out", out>>, <<"pop">>>>, Stop)
  ELSE LET acts == t.exit \o (IF t.maintain THEN Encapsulate(t) ELSE <<>>)
       IN IF out = None THEN Inst(NoMeter, acts, "eth_dst")
          ELSE Inst(NoMeter, acts \o <<<<"out", out>>>>, Stop)

\* update_source_tunnel_rules elsewhere: at the destination, or on the way.
ForwardInst(d, t, out) ==
  IF d # t.dp THEN Inst(NoMeter, <<<<"out", out>>>>, Stop)
  ELSE IF out = None THEN Inst(NoMeter, Decapsulate(t) \o t.exit, "eth_dst")
  ELSE Inst(NoMeter, Decapsulate(t) \o t.exit \o <<<<"out", out>>>>, Stop)

\* Mutant: the packet keeps the tunnel's tag.
ReverseInst_Keep(d, s, out) == Inst(NoMeter, <<<<"out", out>>>>, Stop)

\* update_reverse_tunnel_rules: the packet is popped at the source.
ReverseInst(d, s, out) ==
  Inst(NoMeter, (IF d = s.dp THEN <<<<"pop">>>> ELSE <<>>) \o <<<<"out", out>>>>, Stop)

\* build_tunnel_ofmsgs
TunnelMsgs(t, pcp, inst) ==
  LET match == {<<"vlan_vid", t.vid>>, <<"vlan_pcp", pcp>>}
  IN <<flowdel(match, OverridePriority, FALSE),
       flowmod(match, OverridePriority, inst, Cookie)>>

\* Is there an output port, or is the tunnel to this datapath, no port of it?
Updated(d, t, out) == out # None \/ (t.port = None /\ t.dp = d)

ForwardMsgs(g, d, t, s) ==
  LET out == tunnel_outport(g, d, s.dp, t.dp, t.port)
  IN IF d # s.dp /\ Updated(d, t, out)
     THEN TunnelMsgs(t, Pcp(t), ForwardInst(d, t, out)) ELSE <<>>

ReverseMsgs(g, d, t, s) ==
  LET out == tunnel_outport(g, d, t.dp, s.dp, s.port)
  IN IF t.bidir /\ out # None
     THEN TunnelMsgs(t, ReversePcp, ReverseInst(d, s, out)) ELSE <<>>

\* build_tunnel_acl_rule_ofmsgs: the rules of the ACL that use the tunnel, with
\* a priority that counts from the start of that ACL.
SourceMsgs(c, g, d, t, s) ==
  LET out == tunnel_outport(g, d, s.dp, t.dp, t.port)
      rules == c.acls[t.acl]
  IN IF d # s.dp \/ ~Updated(d, t, out) THEN <<>>
     ELSE FlattenSeq([n \in DOMAIN rules |->
            IF t.vid \notin TunnelsOf(rules[n]) THEN <<>>
            ELSE build_rule_ofmsgs(rules[n], s.port, AclPriority - (n - 1),
                                   SourceInst(t, s, out), TRUE)])

\* add_tunnel_acls of datapath d with graph g.
add_tunnel_acls(c, g, d) ==
  LET each(i, Msgs(_, _)) ==
        LET t == c.tunnels[i]
            ss == Sources(c, t)
        IN FlattenSeq([k \in DOMAIN ss |-> Msgs(t, ss[k])])
  IN FlattenSeq([i \in DOMAIN c.tunnels |->
        each(i, LAMBDA t, s : ForwardMsgs(g, d, t, s))
          \o each(i, LAMBDA t, s : ReverseMsgs(g, d, t, s))])
     \o FlattenSeq([i \in DOMAIN c.tunnels |->
          each(i, LAMBDA t, s : SourceMsgs(c, g, d, t, s))])

HasTunnel(c, d, p) ==
  \E i \in DOMAIN c.tunnels : Contains(c.in[d][p], c.tunnels[i].acl)

\* Mutant: the tunnels are left to the next change of the stack.
ports_add_NoTunnels(c, g, d, ports) ==
  FlattenSeq([i \in DOMAIN ports |-> acl_add_port(c, d, ports[i])])

\* Valve.ports_add: the ACL manager's rules, then the stack manager's.
ports_add(c, g, d, ports) ==
  FlattenSeq([i \in DOMAIN ports |->
    acl_add_port(c, d, ports[i])
      \o (IF ports[i] \in HostPort(d) /\ HasTunnel(c, d, ports[i])
          THEN add_tunnel_acls(c, g, d) ELSE <<>>)])

AllPorts(d) ==
  SelectSeq(HostPorts[d], LAMBDA p : <<d, p>> \in hup) \o SetToSeq(StackPorts(d))

\* Meters that the ACLs use: the others are left out of the configuration.
Meters(c) ==
  UNION {{r.meter : r \in ToSet(c.acls[a])} : a \in DOMAIN c.acls} \ {NoMeter}
add_meters(ids) == SetToSeq({meteradd(id) : id \in ids})
del_meters(ids) == SetToSeq({meterdel(id) : id \in ids})

\* A cold start: delete everything, add what is configured.
ColdStart(c, g, d) ==
  <<deleteglobal("flow"), deleteglobal("group"), deleteglobal("meter")>>
    \o add_meters(Meters(c)) \o ports_add(c, g, d, AllPorts(d))

-----------------------------------------------------------------------------
(***************************************************************************)
(* Configurations.                                                         *)
(***************************************************************************)

\* resolve_port: a port the datapath has.
PortResolves(d, p) == p \in HostPort(d) \cup StackPorts(d)

\* resolve_tunnel_objects
TunnelResolves(t) ==
  t.dp \in DP /\ (t.port # None => PortResolves(t.dp, t.port)) /\ ~(t.bidir /\ t.reverse)

\* _resolve_ordered_output_ports
OutputResolves(c, d, a) ==
  /\ a[1] = "out" => PortResolves(d, a[2])
  /\ a[1] = "failover" => \A p \in a[3] : PortResolves(d, p)
  /\ a[1] = "tunnel" => \E i \in DOMAIN c.tunnels :
       c.tunnels[i].vid = a[2] /\ TunnelResolves(c.tunnels[i])

\* ACL.resolve_ports
RuleResolves(c, d, r) ==
  /\ r.mirror # None => PortResolves(d, r.mirror)
  /\ \A a \in ToSet(r.out) : OutputResolves(c, d, a)

\* resolve_acls: an ACL resolves on the datapaths it is used on, and a tunnel's
\* on all; a configuration that does not is refused.
Valid(c) ==
  \A d \in DP :
    LET acls == UNION {ToSet(c.in[d][p]) : p \in HostPort(d)}
                  \cup {c.tunnels[i].acl : i \in DOMAIN c.tunnels}
    IN acls \subseteq DOMAIN c.acls /\ \A a \in acls :
         c.acls[a] # <<>> /\ \A r \in ToSet(c.acls[a]) : RuleResolves(c, d, r)

\* What makes an ACL a changed one: its rules or the tunnels it names.
Content(c, a) ==
  <<c.acls[a], SelectSeq(c.tunnels, LAMBDA t : t.acl = a)>>
changed_acls(c, n) ==
  {a \in DOMAIN n.acls : a \notin DOMAIN c.acls \/ Content(c, a) # Content(n, a)}

\* _acl_ref_changes: the host ports of d whose ACLs changed, in name or content.
changed_acl_ports(c, n, d) ==
  {p \in HostPort(d) : \/ c.in[d][p] # n.in[d][p]
                       \/ ToSet(n.in[d][p]) \cap changed_acls(c, n) # {}}

\* Every tunnel reserves its VID as a VLAN on every datapath.
Vids(c) == {c.tunnels[i].vid : i \in DOMAIN c.tunnels}

\* Has datapath d anything to do?  A stack that lost links counts as changed.
Changed(c, n, d) ==
  \/ changed_acl_ports(c, n, d) # {}
  \/ Vids(c) # Vids(n) \/ Meters(c) # Meters(n)
  \/ graph[d] # Link

\* _apply_config_changes: the warm reload of datapath d, to graph g.
WarmReload(c, n, g, d) ==
  LET topology == graph[d] # Link
      stack == SetToSeq(StackPorts(d))
      acl == SetToSeq(changed_acl_ports(c, n, d))
  IN (IF topology THEN FlattenSeq([i \in DOMAIN stack |-> acl_del_port(stack[i])])
      ELSE <<>>)
     \o del_meters(Meters(c) \ Meters(n))
     \o add_meters(Meters(n) \ Meters(c))
     \o (IF topology THEN ports_add(n, g, d, stack) ELSE <<>>)
     \o FlattenSeq([i \in DOMAIN acl |->
          acl_del_port(acl[i]) \o acl_add_port(n, d, acl[i])])
     \o add_tunnel_acls(n, g, d)

-----------------------------------------------------------------------------
(***************************************************************************)
(* What happens.                                                           *)
(***************************************************************************)
Up(d) == {<<d, p>> : p \in HostPort(d)}

\* Everything runs and every switch has executed what it was sent.
Init ==
  /\ conf \in Configs /\ Valid(conf)
  /\ up = End /\ graph = [d \in DP |-> Link]
  /\ hup = UNION {Up(d) : d \in DP}
  /\ running = [d \in DP |-> TRUE]
  /\ queue = [d \in DP |-> <<>>]
  /\ tab = [d \in DP |-> Installed(valve_flowreorder(
              ColdStart(conf, Link, d) \o add_tunnel_acls(conf, Link, d)))]
  /\ told = [d \in DP |-> <<conf, Link>>]
  /\ was = [d \in DP |-> {conf}]
  /\ changes = 0

\* Every datapath is sent its batch of messages.
Send(batch) ==
  queue' = [d \in DP |-> queue[d] \o valve_flowreorder(batch[d])]

\* History: rules of earlier configurations may be there until the switch has
\* executed all it was sent.
Remember ==
  was' = [d \in DP |-> IF running'[d] /\ queue'[d] = <<>> THEN {conf'}
                       ELSE was[d] \cup {conf'}]

Event == changes < MaxChanges /\ changes' = changes + 1

\* update_stack_link_state: an end of a stack link goes down, or comes up, for
\* which beacons must pass.  The datapaths that run, and the port's own, change
\* their graphs; those that run update their tunnels.
StackChange(e) ==
  LET d == DpOf(e)
  IN /\ Event
     /\ e \notin up => running[Ends[e[1]].a] /\ running[Ends[e[1]].z]
     /\ up' = IF e \in up THEN up \ {e} ELSE up \cup {e}
     /\ graph' = [x \in DP |->
          IF x # d /\ ~running[x] THEN graph[x]
          ELSE IF e \in up THEN graph[x] \ {e[1]} ELSE graph[x] \cup {e[1]}]
     /\ Send([x \in DP |-> IF running[x] THEN add_tunnel_acls(conf, graph'[x], x)
                           ELSE <<>>])
     /\ told' = [x \in DP |-> IF running[x] THEN <<conf, graph'[x]>> ELSE told[x]]
     /\ UNCHANGED <<conf, hup, running, tab>>
     /\ Remember

Only(d, msgs) == [x \in DP |-> IF x = d THEN msgs ELSE <<>>]

\* A host port comes up or goes down (port_add, port_delete); a datapath that
\* does not run finds out when it connects.
PortChange(d, p) ==
  /\ Event
  /\ hup' = IF <<d, p>> \in hup THEN hup \ {<<d, p>>} ELSE hup \cup {<<d, p>>}
  /\ Send(Only(d, IF ~running[d] THEN <<>>
                  ELSE IF <<d, p>> \in hup THEN acl_del_port(p)
                  ELSE ports_add(conf, graph[d], d, <<p>>)))
  /\ told' = IF running[d] /\ <<d, p>> \notin hup /\ HasTunnel(conf, d, p)
             THEN [told EXCEPT ![d] = <<conf, graph[d]>>] ELSE told
  /\ UNCHANGED <<conf, up, graph, running, tab>>
  /\ Remember

\* The connection is lost, and what the switch has not executed with it.
Disconnect(d) ==
  /\ Event /\ running[d]
  /\ running' = [running EXCEPT ![d] = FALSE]
  /\ queue' = [queue EXCEPT ![d] = <<>>]
  /\ UNCHANGED <<conf, up, graph, hup, tab, told>>
  /\ Remember

\* datapath_connect: a cold start.  It installs the tunnels only if a host port
\* that comes up has a tunnel ACL.
Connect(d) ==
  /\ Event /\ ~running[d]
  /\ running' = [running EXCEPT ![d] = TRUE]
  /\ Send(Only(d, ColdStart(conf, graph[d], d)))
  /\ told' = [told EXCEPT ![d] =
       IF \E p \in HostPort(d) : <<d, p>> \in hup /\ HasTunnel(conf, d, p)
       THEN <<conf, graph[d]>> ELSE None]
  /\ UNCHANGED <<conf, up, graph, hup, tab>>
  /\ Remember

\* A new configuration.  A datapath that changes takes the stack's links from
\* the ports' states (clone_dyn_state), another one all the configured links.
Reload(n) ==
  /\ Event /\ n # conf /\ Valid(n)
  /\ conf' = n
  /\ LET touched == {d \in DP : Changed(conf, n, d)}
         links == {l \in Link : <<l, "z">> \in up}
     IN /\ graph' = [d \in DP |-> IF d \in touched THEN links ELSE Link]
        /\ Send([d \in DP |-> IF d \in touched /\ running[d]
                              THEN WarmReload(conf, n, links, d) ELSE <<>>])
        /\ told' = [d \in DP |-> IF d \in touched /\ running[d]
                                 THEN <<n, links>> ELSE told[d]]
  /\ UNCHANGED <<up, hup, running, tab>>
  /\ Remember

SwitchExecutes(d) ==
  /\ queue[d] # <<>>
  /\ tab' = [tab EXCEPT ![d] = apply_ofmsg(@, Head(queue[d]))]
  /\ queue' = [queue EXCEPT ![d] = Tail(@)]
  /\ UNCHANGED <<conf, up, graph, hup, running, told, changes>>
  /\ Remember

Next ==
  \/ \E e \in End : StackChange(e)
  \/ \E d \in DP : \E p \in HostPort(d) : PortChange(d, p)
  \/ \E d \in DP : Disconnect(d) \/ Connect(d) \/ SwitchExecutes(d)
  \/ \E n \in Configs : Reload(n)

Spec == Init /\ [][Next]_vars

-----------------------------------------------------------------------------
(***************************************************************************)
(* What the configuration asks for.                                        *)
(***************************************************************************)
Packet(hdr, tags) == [hdr |-> hdr, tags |-> tags]

\* The rule that decides on a packet: "ACLs listed first take priority over
\* those later in the list", and so do rules.
Deciding(c, d, p, hdr) ==
  LET rules == RulesOf(c, d, p)
      hits == {n \in DOMAIN rules : rules[n].match \subseteq hdr}
  IN {rules[n] : n \in {m \in hits : \A k \in hits : m =< k}}

TunnelOf(c, vid) == c.tunnels[CHOOSE i \in DOMAIN c.tunnels : c.tunnels[i].vid = vid]

\* A tunnel to the forwarding tables of its own datapath lets packets in too.
AllowedBy(c, d, p, hdr) ==
  c.in[d][p] = <<>> \/ \E r \in Deciding(c, d, p, hdr) :
    Allows(r) \/ \E vid \in TunnelsOf(r) :
                    TunnelOf(c, vid).dp = d /\ TunnelOf(c, vid).port = None

\* Where a packet is to get to: <<datapath, port or table, packet>>.  A mirror
\* gets it as it came, the others after the rule has set its fields.
Wanted(d, p, hdr) ==
  LET sets(r) == {a[2] : a \in {x \in ToSet(r.out) : x[1] = "set"}}
      new(r) == {x \in hdr : x[1] \notin {s[1] : s \in sets(r)}} \cup sets(r)
      by(r) ==
        (IF r.mirror = None THEN {} ELSE {<<d, r.mirror, Packet(hdr, <<>>)>>})
        \cup UNION {
          CASE a[1] = "out"      -> {<<d, a[2], Packet(new(r), <<>>)>>}
            [] a[1] = "failover" -> {<<d, q, Packet(new(r), <<>>)>> : q \in a[3]}
            [] a[1] = "tunnel"   ->
                 LET t == TunnelOf(conf, a[2])
                 IN {<<t.dp, IF t.port = None THEN "eth_dst" ELSE t.port,
                       Packet(new(r), IF t.maintain THEN <<<<t.vid, Pcp(t)>>>>
                                      ELSE <<>>)>>}
            [] OTHER -> {}
            : a \in ToSet(r.out)}
        \cup (IF Allows(r)
              THEN {<<d, IF r.force THEN "eth_dst" ELSE "vlan", Packet(new(r), <<>>)>>}
              ELSE {})
  IN IF conf.in[d][p] = <<>> THEN {<<d, "vlan", Packet(hdr, <<>>)>>}
     ELSE UNION {by(r) : r \in Deciding(conf, d, p, hdr)}

(***************************************************************************)
(* What becomes of a packet that comes in on port p of datapath d.         *)
(***************************************************************************)
Places(d, p, pkt) ==
  LET out(x) == {<<x[1], o[1], o[2]>> : o \in UNION Outputs(tab[x[1]], x[3], x[2])}
      F[k \in 0..NDP] ==
        IF k = 0 THEN out(<<d, p, pkt>>)
        ELSE UNION {IF o[2] \in Link
                    THEN out(<<Far(o[1], o[2]), o[2], o[3]>>) ELSE {o} : o \in F[k - 1]}
  IN F[NDP]

\* The datapath runs, its switch has executed everything, and its tunnel rules
\* are of this configuration and the graph d has.
Fresh(e, d) ==
  running[e] /\ queue[e] = <<>> /\ graph[e] = graph[d] /\ told[e] = <<conf, graph[d]>>

TypeOK ==
  /\ conf \in Configs
  /\ up \subseteq End /\ graph \in [DP -> SUBSET Link]
  /\ hup \subseteq UNION {Up(d) : d \in DP}
  /\ running \in [DP -> BOOLEAN]
  /\ \A d \in DP : queue[d] # <<>> => running[d]
  /\ \A d \in DP : told[d] # None => told[d] \in Configs \X SUBSET Link
  /\ changes \in 0..MaxChanges
  \* a group is never added while it is there
  /\ \A d \in DP : \A g, h \in tab[d].groups : g.id = h.id => g = h

\* Once a switch has executed what it was sent, a packet goes where the first
\* rule that matches it says, and through a tunnel to the tunnel's end, with
\* no other copy: whatever ports, links, connections and configurations
\* changed on the way there.
AclAsConfigured ==
  \A d \in DP : running[d] /\ queue[d] = <<>> => \A p \in HostPort(d), h \in Hdrs :
    LET tunnels == UNION {TunnelsOf(r) : r \in Deciding(conf, d, p, h)}
        ready(vid) == LET path == Path(graph[d], d, TunnelOf(conf, vid).dp)
                      IN path # {} /\ \A e \in path : Fresh(e, d)
    IN <<d, p>> \in hup /\ (\A vid \in tunnels : ready(vid))
         => Places(d, p, Packet(h, <<>>)) = Wanted(d, p, h)

\* A bi-directional tunnel returns a packet that has its tag and the reverse
\* priority, from a port of its end to the port it comes from.
TunnelReturns ==
  \A i \in DOMAIN conf.tunnels :
    LET t == conf.tunnels[i]
        s == Sources(conf, t)[1]
        path == Path(graph[t.dp], t.dp, s.dp)
    IN t.bidir /\ path # {} /\ (\A e \in path : Fresh(e, t.dp)) =>
         \A p \in HostPort(t.dp), h \in Hdrs :
           Places(t.dp, p, Packet(h, <<<<t.vid, ReversePcp>>>>))
             = {<<s.dp, s.port, Packet(h, <<>>)>>}

\* At no time, in whatever half executed batch, does a port let a packet in
\* that the ACLs of none of the configurations involved allow.
NothingLeaks ==
  \A d \in DP : \A p \in HostPort(d), h \in Hdrs :
    (\E o \in UNION Outputs(tab[d], Packet(h, <<>>), p) : o[1] \in {"vlan", "eth_dst"})
      => \E c \in was[d] : AllowedBy(c, d, p, h)
=============================================================================
