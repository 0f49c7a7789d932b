------------------------------ MODULE Provision -----------------------------
(***************************************************************************)
(* How a Valve provisions its switch: the cold start on connection, the    *)
(* rules added and deleted as ports come up and go down, and the warm or   *)
(* cold reload that turns the rules of one configuration into those of the *)
(* next (valve.py, dp.py, valve_switch_standalone.py, valve_acl.py,        *)
(* valve_route.py, valve_of.py).                                           *)
(*                                                                         *)
(* A configuration c has c.ports and c.vlans, functions on the configured  *)
(* port numbers and VIDs, c.acls (ACL -> contents), c.router (the VLANs    *)
(* routed together) and c.base (all else a datapath is configured with).   *)
(* The switch's tables are a function on keys, the match and priority of a *)
(* rule.  The VLAN 0 of a key is NullVLAN, untagged frames.                *)
(***************************************************************************)
EXTENDS Integers, FiniteSets, Sequences, TLC

CONSTANTS
  Port, Vid, Acl, Mac, Vip,
  Configs,       \* the configurations that are loaded
  Vip6,          \* the VIPs that are IPv6 addresses
  LinkLocalVip,  \* the VIPs with a link local address
  NoRule, None,
  Combinatorial, \* combinatorial_port_flood
  Classify,      \* use_classification
  MaxQueue,      \* bound: events waiting
  MaxChanges     \* bound: links, connections and configurations that change

VARIABLES
  conf,    \* the configuration of the DP object
  phys,    \* the ports with dyn_phys_up
  upnos,   \* dyn_up_port_nos
  running, \* dyn_running
  tab,     \* the switch's tables
  link,    \* the switch's ports that are up
  conn,    \* the OpenFlow connection
  async,   \* the switch reports port changes
  missed,  \* ports that changed while it did not
  inbox,   \* events waiting for their handler
  changes  \* counts towards MaxChanges

vars == <<conf, phys, upnos, running, tab, link, conn, async, missed, inbox,
          changes>>

FloodDst == {"any", "bcast", "arp"}
PortKeys(p) == ({"class"} \X {p} \X (Vid \cup {0}))
                 \cup {<<k, p>> : k \in {"acl", "only", "lldp"}}
FloodKeys(v) == ({"flood"} \X {v} \X FloodDst)
                  \cup ({"floodp"} \X {v} \X Port \X FloodDst)
FibKeys(v) == {"fibhost", "fibnet", "fibbcast"} \X {v} \X Vip
SelectKeys(v) ==
  ({"select"} \X {v} \X {4, 6} \X Mac) \cup ({"selectns"} \X {v} \X Vip)
    \cup {<<"selectarp", v>>, <<"selectra", v>>}
VipKeys ==
  ({"vipsol"} \X Vip) \cup ({"viparp", "vipecho", "vipna"} \X Mac)
    \cup ({"vipicmp", "vipip"} \X {4, 6} \X Mac) \cup ({"icmp", "ip"} \X {4, 6})
    \cup {<<"arp">>, <<"ra">>}
Key == UNION {PortKeys(p) : p \in Port}
         \cup UNION {FloodKeys(v) \cup FibKeys(v) \cup SelectKeys(v)
                       \cup {<<"src", v>>, <<"vacl", v>>} : v \in Vid}
         \cup VipKeys \cup ({"spoof"} \X Mac)

Event == [kind : {"status"}, port : Port, up : BOOLEAN]
           \cup [kind : {"desc", "connect"}, ports : SUBSET Port]
           \cup [kind : {"disconnect"}]

TypeOK ==
  /\ conf \in Configs
  /\ phys \subseteq DOMAIN conf.ports /\ upnos \subseteq Port
  /\ running \in BOOLEAN /\ conn \in BOOLEAN /\ async \in BOOLEAN
  /\ DOMAIN tab = Key
  /\ link \subseteq Port /\ missed \subseteq Port
  /\ inbox \in Seq(Event) /\ changes \in 0..MaxChanges

-----------------------------------------------------------------------------
(***************************************************************************)
(* What a configuration says.                                              *)
(***************************************************************************)

Ports(c) == DOMAIN c.ports
Vlans(c) == DOMAIN c.vlans
PortVlans(c, p) ==
  c.ports[p].tagged \cup ({c.ports[p].native} \ {None})
VlanPorts(c, v) == {p \in Ports(c) : v \in PortVlans(c, p)}
\* The ports that p is mirrored to: the mirror option is the mirror's.
Mirror(c, p) == {m \in Ports(c) : p \in c.ports[m].mirrors}
HasExternals(c) == \E p \in Ports(c) : c.ports[p].ext
_routed_vlans(c, v) == IF v \in c.router THEN c.router ELSE {v}
faucet_vips_by_ipv(c, v, ipv) == {ip \in c.vlans[v].vips : (ip \in Vip6) = (ipv = 6)}
Routed(c, ipv) == {v \in Vlans(c) : faucet_vips_by_ipv(c, v, ipv) # {}}
Global(V) == V \ LinkLocalVip

\* What parsing accepts.  A port with a mirror or output_only option has no
\* VLAN and no option of a VLAN port, and a mirror becomes output only.
PortValid(c, p) ==
  LET q == c.ports[p] IN
  /\ PortVlans(c, p) \subseteq Vlans(c)
  /\ q.native \notin q.tagged
  /\ q.mirrors # {} \/ q.outonly =>
       /\ PortVlans(c, p) = {} /\ q.acl = None
       /\ ~q.ext /\ ~q.restr /\ ~q.lldp /\ ~q.miss
MirrorsResolved(c) ==
  \A p \in Ports(c) :
    c.ports[p].mirrors \subseteq Ports(c) /\ (c.ports[p].mirrors # {} => c.ports[p].outonly)
AclsResolved(c) ==
  {c.ports[p].acl : p \in Ports(c)} \cup {c.vlans[v].acl : v \in Vlans(c)}
    \subseteq DOMAIN c.acls \cup {None}
\* A router has known VLANs, none with an address in the subnet of another.
RouterValid(c) ==
  /\ c.router \subseteq Vlans(c)
  /\ \A v, w \in c.router :
       v # w => Global(c.vlans[v].vips) \cap Global(c.vlans[w].vips) = {}
ConfValid(c) ==
  /\ Ports(c) # {} /\ Vlans(c) # {}
  /\ MirrorsResolved(c) /\ AclsResolved(c) /\ RouterValid(c)
  /\ \A p \in Ports(c) : PortValid(c, p)

ASSUME ConfigsAssumption ==
  \A c \in Configs : Ports(c) \subseteq Port /\ ConfValid(c)

\* _configure_tables: the tables that the configuration needs.
Tables(c) ==
  (IF \E p \in Ports(c) : c.ports[p].acl # None THEN {<<"port_acl">>} ELSE {})
    \cup (IF \E v \in Vlans(c) : c.vlans[v].acl # None THEN {<<"vlan_acl">>} ELSE {})
    \cup {<<"fib", ipv>> : ipv \in {i \in {4, 6} : Routed(c, i) # {}}}

-----------------------------------------------------------------------------
(***************************************************************************)
(* A batch of flow mods.  valve_flowreorder sends deletes first.  Of two   *)
(* adds or modifies of a rule the last is kept (dedupe_ofmsgs), and a      *)
(* delete of exactly a rule that the batch also adds or modifies is left   *)
(* out (remove_overlap_ofmsgs).                                            *)
(***************************************************************************)

NoFlows == [del |-> {}, exact |-> {}, put |-> <<>>]
Put(B, rules, add) ==
  [B EXCEPT !.put = [k \in DOMAIN rules |-> [rule |-> rules[k], add |-> add]] @@ @]
Delete(B, keys) == [B EXCEPT !.del = @ \cup keys]
DeleteExact(B, keys) == [B EXCEPT !.exact = @ \cup keys]

Sent(B, t) ==
  LET left(k) == IF k \in B.del \cup (B.exact \ DOMAIN B.put) THEN NoRule
                 ELSE t[k]
  IN [k \in Key |-> IF k \in DOMAIN B.put /\ (B.put[k].add \/ left(k) # NoRule)
                    THEN B.put[k].rule ELSE left(k)]

-----------------------------------------------------------------------------
(***************************************************************************)
(* Flood rules: one for the VLAN, and one for each port that is up whose   *)
(* outputs differ.  ph is the set of ports that are up.                    *)
(***************************************************************************)

ExternalUp(c, ph, v) == {p \in VlanPorts(c, v) \cap ph : c.ports[p].ext}
First(P) == {p \in P : \A q \in P : p <= q}

ExcludedPorts(c, ph, v, in, restricted) ==
  (IF in # None /\ c.ports[in].ext THEN ExternalUp(c, ph, v)
   ELSE ExternalUp(c, ph, v) \ First(ExternalUp(c, ph, v)))
  \cup (IF restricted THEN {p \in VlanPorts(c, v) : c.ports[p].restr} ELSE {})

\* Outputs to tagged and untagged ports, which are mirrored unless the input
\* was mirrored to the same ports already.
flood_port_outputs(c, v, in, ports) ==
  {[port |-> p, tagged |-> v \in c.ports[p].tagged,
    mirror |-> IF in # None /\ Mirror(c, in) = Mirror(c, p) THEN {}
               ELSE Mirror(c, p)] : p \in ports \ {in}}

_build_flood_rule_actions(c, ph, v, in, unicast, restricted) ==
  flood_port_outputs(c, v, in,
    {q \in VlanPorts(c, v) \ ExcludedPorts(c, ph, v, in, restricted) :
       unicast => c.ports[q].ucast})

OutputPorts(outs) == UNION {{o.port} \cup o.mirror : o \in outs}

VlanActs(c, ph, v, dst) ==
  _build_flood_rule_actions(c, ph, v, None, dst = "any", TRUE)
PortActs(c, ph, v, p, dst) ==
  IF p \in ph
  THEN _build_flood_rule_actions(c, ph, v, p, dst = "any",
                                 dst # "arp" /\ c.ports[p].restr)
  ELSE {}

FloodDsts(c, v) ==
  {"bcast"} \cup (IF c.vlans[v].uflood THEN {"any"} ELSE {})
            \cup (IF \E p \in Ports(c) : c.ports[p].restr THEN {"arp"} ELSE {})

\* The ports and destinations that a VLAN has a rule for, and those of them
\* that the rule of the VLAN serves as well.
PortFloods(c, ph, v) ==
  {x \in {v} \X VlanPorts(c, v) \X FloodDsts(c, v) :
     /\ PortActs(c, ph, v, x[2], x[3]) # {}
     /\ x[3] = "any" => c.ports[x[2]].ucast}
Redundant(c, ph, x) ==
  /\ ~Combinatorial
  /\ OutputPorts(VlanActs(c, ph, x[1], x[3])) \ {x[2]}
       = OutputPorts(PortActs(c, ph, x[1], x[2], x[3]))

\* The flood rules of the VLANs of V.
_build_flood_rules(B, c, ph, V, cold, modify) ==
  LET Able == UNION {PortFloods(c, ph, v) : v \in V}
      Same == {x \in Able : Redundant(c, ph, x)}
      vlan == IF Combinatorial THEN {}
              ELSE UNION {{v} \X FloodDsts(c, v) : v \in V}
      rules == [k \in {<<"flood">> \o x : x \in vlan}
                        \cup {<<"floodp">> \o x : x \in Able \ Same} |->
                  IF k[1] = "flood" THEN VlanActs(c, ph, k[2], k[3])
                  ELSE PortActs(c, ph, k[2], k[3], k[4])]
  IN Put(IF cold THEN B ELSE DeleteExact(B, {<<"floodp">> \o x : x \in Same}),
         rules, ~modify)

-----------------------------------------------------------------------------
(***************************************************************************)
(* The rules of ports and VLANs, by all managers.                          *)
(***************************************************************************)

\* add_port: admission to the VLANs of the port, its ACL, drops, LLDP.
PortRules(c, p) ==
  LET q == c.ports[p]
      admit(v, push) ==
        [push |-> push, mirror |-> Mirror(c, p),
         acl |-> c.vlans[v].acl # None,
         ext |-> IF HasExternals(c) THEN q.ext ELSE None]
      class == {<<"class", p, v>> : v \in q.tagged}
                 \cup (IF q.native # None \/ (q.miss /\ q.tagged # {})
                       THEN {<<"class", p, 0>>} ELSE {})
      acl == IF <<"port_acl">> \in Tables(c) /\ ~q.outonly THEN {<<"acl", p>>} ELSE {}
      flag == {x \in {<<"only", p>>, <<"lldp", p>>} :
                 IF x[1] = "only" THEN q.outonly ELSE q.lldp}
  IN [k \in class \cup acl \cup flag |->
        CASE k[1] = "class" /\ k[3] # 0 -> admit(k[3], FALSE)
          [] k[1] = "class" /\ k[3] = 0 /\ q.native # None -> admit(q.native, q.native)
          [] k[1] = "class" /\ k[3] = 0 /\ q.native = None -> [drop |-> TRUE]
          [] k[1] = "acl" -> IF q.acl = None THEN [allow |-> TRUE]
                             ELSE [acl |-> q.acl, rules |-> c.acls[q.acl]]
          [] OTHER -> [on |-> TRUE]]

\* add_port and del_port, for each port of P.  A key names its port.
PortRuleKeys(c, P) == UNION {DOMAIN PortRules(c, p) : p \in P}
add_port(B, c, P) ==
  Put(B, [k \in PortRuleKeys(c, P) |-> PortRules(c, k[2])[k]], TRUE)

\* del_port deletes every ACL rule of the port, the other rules exactly.
del_port(B, c, P) ==
  LET acl == {k \in PortRuleKeys(c, P) : k[1] = "acl"}
  IN DeleteExact(Delete(B, acl), PortRuleKeys(c, P) \ acl)

(***************************************************************************)
(* The rules of the VIPs of a VLAN, by the route managers of IPv4 and      *)
(* IPv6: packets for the router's MAC go to the FIB; its own addresses,    *)
(* the connected subnets, and neighbour discovery to the VIP table.        *)
(***************************************************************************)
ValveIPv4RouteManager_add_faucet_vip_nd(c, v) ==
  LET vips == faucet_vips_by_ipv(c, v, 4) IN
  IF vips = {} THEN {}
  ELSE {<<"selectarp", v>>, <<"viparp", c.vlans[v].mac>>, <<"arp">>}
         \cup {<<"vipsol", ip>> : ip \in vips}

ValveIPv6RouteManager_add_faucet_vip_nd(c, v) ==
  LET vips == faucet_vips_by_ipv(c, v, 6) IN
  (IF vips \cap LinkLocalVip = {} THEN {} ELSE {<<"selectra", v>>, <<"ra">>})
    \cup (IF vips = {} THEN {} ELSE {"vipecho", "vipna"} \X {c.vlans[v].mac})
    \cup {<<"selectns", v, ip>> : ip \in vips} \cup {<<"vipsol", ip>> : ip \in vips}

_add_faucet_fib_to_vip(c, v, ipv) ==
  LET mac == c.vlans[v].mac
      vips == faucet_vips_by_ipv(c, v, ipv)
      subnets == {<<"fibnet", u, ip>> : u \in _routed_vlans(c, v), ip \in Global(vips)}
  IN (IF vips = {} THEN {} ELSE {<<"select", v, ipv, mac>>})
     \cup {<<"fibhost", v, ip>> : ip \in vips} \cup subnets
     \cup (IF subnets = {} THEN {}
           ELSE {<<"vipicmp", ipv, mac>>, <<"vipip", ipv, mac>>,
                 <<"icmp", ipv>>, <<"ip", ipv>>})

ValveIPv6RouteManager_add_faucet_fib_to_vip(c, v) ==
  _add_faucet_fib_to_vip(c, v, 6)
    \cup {<<"fibbcast", v, ip>> : ip \in faucet_vips_by_ipv(c, v, 6)}

\* Warm, the subnets of the other VLANs of the router are installed again.
VipRules(c, v, cold) ==
  ValveIPv4RouteManager_add_faucet_vip_nd(c, v)
    \cup ValveIPv6RouteManager_add_faucet_vip_nd(c, v)
    \cup _add_faucet_fib_to_vip(c, v, 4)
    \cup ValveIPv6RouteManager_add_faucet_fib_to_vip(c, v)
    \cup (IF cold THEN {}
          ELSE {<<"fibnet", v, ip>> :
                  ip \in UNION {Global(c.vlans[u].vips) :
                                  u \in _routed_vlans(c, v) \ {v}}})

\* ValveAclManager.add_vlan.
VlanAclRules(c, V) ==
  [k \in {<<"vacl", v>> : v \in {x \in V : c.vlans[x].acl # None}} |->
     LET acl == c.vlans[k[2]].acl IN [acl |-> acl, rules |-> c.acls[acl]]]

add_vlan(c, v) == {<<"spoof", c.vlans[v].mac>>, <<"src", v>>}

\* The rules of the VLANs of V, by all managers.
add_vlans(B, c, ph, V, cold) ==
  LET keys == UNION {add_vlan(c, v) \cup VipRules(c, v, cold) : v \in V}
      rules == [k \in keys |-> [on |-> TRUE]] @@ VlanAclRules(c, V)
  IN _build_flood_rules(Put(B, rules, TRUE), c, ph, V, cold, FALSE)

(***************************************************************************)
(* What is deleted with the VIPs of v: rules for its MAC, for the MACs, the *)
(* addresses and the subnets that no VLAN of the new configuration n needs. *)
(***************************************************************************)
_del_faucet_mac(mac, n, ipv) ==
  LET macs == {n.vlans[u].mac : u \in Routed(n, ipv)}
      global == {n.vlans[u].mac : u \in {x \in Routed(n, ipv) :
                   Global(faucet_vips_by_ipv(n, x, ipv)) # {}}}
  IN (IF mac \in global THEN {} ELSE {"vipicmp", "vipip"} \X {ipv} \X {mac})
     \cup (IF mac \in macs THEN {}
           ELSE (IF ipv = 4 THEN {"viparp"} ELSE {"vipecho", "vipna"}) \X {mac})
     \cup (IF global = {} THEN {"icmp", "ip"} \X {ipv} ELSE {})

_del_faucet_vip(c, v, ip) ==
  LET others == _routed_vlans(c, v) \ {v} IN
  IF ip \in LinkLocalVip \cup UNION {c.vlans[u].vips : u \in others} THEN {}
  ELSE {<<"fibnet", u, ip>> : u \in _routed_vlans(c, v)}

RouteManager_del_vlan(c, v, n, ipv) ==
  LET vips == faucet_vips_by_ipv(c, v, ipv) IN
  IF vips = {} THEN {}
  ELSE {k \in FibKeys(v) : (k[3] \in Vip6) = (ipv = 6)}
         \cup _del_faucet_mac(c.vlans[v].mac, n, ipv)
         \cup UNION {_del_faucet_vip(c, v, ip) : ip \in vips}

ValveIPv4RouteManager_del_vlan(c, v, n) ==
  LET needed == UNION {faucet_vips_by_ipv(n, u, 4) : u \in Vlans(n)} IN
  RouteManager_del_vlan(c, v, n, 4)
    \cup {<<"vipsol", ip>> : ip \in faucet_vips_by_ipv(c, v, 4) \ needed}

ValveIPv6RouteManager_del_vlan(c, v, n) ==
  LET needed == UNION {faucet_vips_by_ipv(n, u, 6) : u \in Vlans(n)}
      vips == faucet_vips_by_ipv(c, v, 6)
  IN RouteManager_del_vlan(c, v, n, 6)
       \cup {<<"vipsol", ip>> : ip \in vips \ needed}
       \cup (IF vips = {} \/ needed \cap LinkLocalVip # {} THEN {} ELSE {<<"ra">>})

\* Without a classification table its rules are in eth_src, and go with those
\* of the VLAN.
del_vlan(c, v, n) ==
  LET macs == {n.vlans[u].mac : u \in Vlans(n)} IN
  FloodKeys(v) \cup {<<"src", v>>, <<"vacl", v>>}
    \cup (IF Classify THEN {} ELSE SelectKeys(v))
    \cup (IF c.vlans[v].mac \in macs THEN {} ELSE {<<"spoof", c.vlans[v].mac>>})
    \cup ValveIPv4RouteManager_del_vlan(c, v, n)
    \cup ValveIPv6RouteManager_del_vlan(c, v, n)

del_vlans(B, c, V, n) == Delete(B, UNION {del_vlan(c, v, n) : v \in V})

\* ports_add and ports_delete on S = [phys, flows].
ports_add(S, c, P, cold) ==
  LET new == P \cap Ports(c)
      run == {p \in new : c.ports[p].enabled}
      ph == S.phys \cup new
      B == add_port(S.flows, c, run)
  IN [phys |-> ph,
      flows |-> IF cold THEN B
                ELSE add_vlans(B, c, ph, UNION {PortVlans(c, p) : p \in run}, FALSE)]

\* Mutant: the flood rules of the VLANs keep the port.
ports_delete_Flood(S, c, P) ==
  [phys |-> S.phys \ P, flows |-> del_port(S.flows, c, P \cap Ports(c))]

ports_delete(S, c, P) ==
  LET old == P \cap Ports(c)
      ph == S.phys \ old
      V == UNION {PortVlans(c, p) : p \in old}
  IN [phys |-> ph,
      flows |-> _build_flood_rules(del_port(S.flows, c, old), c, ph, V, FALSE, TRUE)]

\* _cold_start_ports_and_vlans: every rule, from empty tables.
ColdTable(c, ph) ==
  LET start == ports_add([phys |-> ph, flows |-> NoFlows], c, ph, TRUE)
  IN Sent(add_vlans(start.flows, c, ph, Vlans(c), TRUE), [k \in Key |-> NoRule])

-----------------------------------------------------------------------------
(***************************************************************************)
(* What a new configuration n changes (get_config_changes).                *)
(***************************************************************************)

\* _get_conf_changes: what was deleted, added, changed, and is the same.
ConfChanges(old, new, same) ==
  [deleted |-> DOMAIN old \ DOMAIN new, added |-> DOMAIN new \ DOMAIN old,
   changed |-> (DOMAIN old \cap DOMAIN new) \ same, same |-> same]

\* Mutant: an ACL that keeps its name did not change.
_acl_ref_changes_Name(a, b, changed_acls) == a # b

\* The ACL of a port or VLAN is another one, or has other contents.
_acl_ref_changes(a, b, changed_acls) ==
  b \in changed_acls \/ a # b

SamePort(c, n, p) == [c.ports[p] EXCEPT !.acl = None] = [n.ports[p] EXCEPT !.acl = None]
SameVlan(c, n, v) == [c.vlans[v] EXCEPT !.acl = None] = [n.vlans[v] EXCEPT !.acl = None]

_get_vlan_config_changes(c, n, acled) ==
  LET same == {v \in Vlans(c) \cap Vlans(n) : SameVlan(c, n, v)}
      vlans == ConfChanges(c.vlans, n.vlans, same)
  IN [added |-> vlans.added, deleted |-> vlans.deleted, changed |-> vlans.changed,
      acl |-> {v \in vlans.same :
                 _acl_ref_changes(c.vlans[v].acl, n.vlans[v].acl, acled)}]

get_config_changes(c, n) ==
  LET samePorts == {p \in Ports(c) \cap Ports(n) : SamePort(c, n, p)}
      sameAcls == {a \in DOMAIN c.acls \cap DOMAIN n.acls : c.acls[a] = n.acls[a]}
      acls == ConfChanges(c.acls, n.acls, sameAcls)
      ports == ConfChanges(c.ports, n.ports, samePorts)
      acled == acls.added \cup acls.changed
      vlans == _get_vlan_config_changes(c, n, acled)
      \* Ports of VLANs that are new, or changed, or have another ACL.
      ofVlans(V) == UNION {VlanPorts(n, v) : v \in V}
      changed == ports.changed \cup ofVlans(vlans.acl)
      mirrored == {p \in ports.same : Mirror(c, p) # Mirror(n, p)}
      aclPorts == {p \in ports.same :
                     _acl_ref_changes(c.ports[p].acl, n.ports[p].acl, acled)}
      \* VLANs that a changed, deleted or added port joined or left.
      moved == UNION {(PortVlans(c, p) \ PortVlans(n, p))
                        \cup (PortVlans(n, p) \ PortVlans(c, p)) :
                          p \in changed \cap Ports(c)}
               \cup UNION {PortVlans(c, p) : p \in ports.deleted}
               \cup UNION {PortVlans(n, p) : p \in ports.added}
  IN [deleted |-> ports.deleted, added |-> ports.added,
      changed |-> changed \cup mirrored
                    \cup ofVlans(vlans.added \cup vlans.changed),
      aclPorts |-> aclPorts, addedVlans |-> vlans.added,
      deletedVlans |-> vlans.deleted,
      changedVlans |-> (vlans.changed \cup moved) \ (vlans.added \cup vlans.deleted),
      aclVlans |-> vlans.acl,
      all |-> \/ c.base # n.base \/ c.router # n.router
              \/ ports.same = {} \/ ports.changed = Ports(n)]

\* _apply_config_changes, for a warm start with the changes ch from c to n.
WarmStart(c, n, ch, ph, up) ==
  LET S1 == ports_delete(ports_delete([phys |-> ph, flows |-> NoFlows], c, ch.deleted),
                         c, ch.changed)
      B2 == del_vlans(S1.flows, c, ch.deletedVlans \cup ch.changedVlans, n)
      S3 == ports_add(ports_add([phys |-> S1.phys \cap Ports(n), flows |-> B2],
                                n, ch.added \cap up, FALSE),
                      n, ch.changed \cap up, FALSE)
      \* The ACLs that changed of ports and of VLANs.
      acls == {k \in PortRuleKeys(n, ch.aclPorts) : k[1] = "acl"}
      vacls == {<<"vacl", v>> : v \in ch.aclVlans}
      B4 == Put(Delete(S3.flows, acls \cup vacls),
                [k \in acls |-> PortRules(n, k[2])[k]] @@ VlanAclRules(n, ch.aclVlans),
                TRUE)
      B5 == add_vlans(B4, n, S3.phys, ch.addedVlans, TRUE)
  IN [phys |-> S3.phys, flows |-> add_vlans(B5, n, S3.phys, ch.changedVlans, FALSE)]

-----------------------------------------------------------------------------
(***************************************************************************)
(* Handlers.                                                               *)
(***************************************************************************)

\* datapath_disconnect: what deleting the ports would send is dropped.
Disconnected(c) ==
  /\ running' = FALSE
  /\ phys' = {} /\ upnos' = upnos \ Ports(c)

\* port_status_handler, for a datapath that is running.
PortStatus(p, isUp) ==
  LET S == [phys |-> phys, flows |-> NoFlows]
      T == IF isUp THEN ports_add(S, conf, {p}, FALSE) ELSE ports_delete(S, conf, {p})
      acts == p \in Ports(conf) /\ ~conf.ports[p].always /\ isUp # (p \in phys)
  IN /\ upnos' = IF isUp THEN upnos \cup {p} ELSE upnos \ {p}
     /\ phys' = IF acts THEN T.phys ELSE phys
     /\ tab' = IF acts /\ async THEN Sent(T.flows, tab) ELSE tab
     /\ UNCHANGED <<running, async>>

\* Mutant: ports without configuration are not remembered.
PortDesc_Known(P) ==
  /\ upnos' = (upnos \ Ports(conf)) \cup (P \cap Ports(conf))
  /\ phys' = {p \in Ports(conf) : IF conf.ports[p].always THEN p \in phys ELSE p \in P}
  /\ UNCHANGED <<running, tab, async>>

\* port_desc_stats_reply_handler, before the connection event: each port whose
\* state is not the known one is given to port_status_handler.  The rules that
\* sends are deleted by the cold start.
PortDesc(P) ==
  /\ upnos' = P
  /\ phys' = {p \in Ports(conf) :
                IF conf.ports[p].always \/ (p \in P) = (p \in upnos) THEN p \in phys
                ELSE p \in P}
  /\ UNCHANGED <<running, tab, async>>

\* datapath_connect: the ports that are up, or taken to be.  The flows reach
\* the switch unless the connection has been lost meanwhile.
Connect(P) ==
  LET up == {p \in Ports(conf) : p \in P \/ conf.ports[p].always}
      ph == phys \cup up
      live == conn /\ \A i \in DOMAIN inbox : inbox[i].kind # "disconnect"
      B == ports_add([phys |-> ph, flows |-> NoFlows], conf, up, TRUE).flows
  IN /\ upnos' = (upnos \ Ports(conf)) \cup up
     /\ phys' = ph
     /\ tab' = IF live THEN Sent(add_vlans(B, conf, ph, Vlans(conf), TRUE),
                                [k \in Key |-> NoRule])
               ELSE tab
     /\ running' = TRUE /\ async' = live

\* A port status of a datapath that is not running is dropped.
NextEvent ==
  /\ inbox # <<>>
  /\ LET e == Head(inbox) IN
     \/ e.kind = "status" /\ running /\ PortStatus(e.port, e.up)
     \/ e.kind = "status" /\ ~running /\ UNCHANGED <<phys, upnos, running, tab, async>>
     \/ e.kind = "desc" /\ PortDesc(e.ports)
     \/ e.kind = "connect" /\ Connect(e.ports)
     \/ e.kind = "disconnect" /\ Disconnected(conf) /\ UNCHANGED <<tab, async>>
  /\ inbox' = Tail(inbox)
  /\ UNCHANGED <<conf, link, conn, missed, changes>>

\* A reload that can be warm: _apply_config_changes sends the differences, if
\* the datapath is running.
ReloadWarm(n) ==
  /\ changes < MaxChanges
  /\ Tables(conf) = Tables(n)
  /\ \E ch \in {get_config_changes(conf, n)} :
       /\ ~ch.all
       /\ LET W == WarmStart(conf, n, ch, phys, upnos) IN
          /\ phys' = W.phys
          /\ tab' = IF running /\ async THEN Sent(W.flows, tab) ELSE tab
  /\ conf' = n
  /\ changes' = changes + 1
  /\ UNCHANGED <<upnos, running, link, conn, async, missed, inbox>>

\* Any other reload closes the connection, so that the switch comes back.
ReloadCold(n) ==
  /\ changes < MaxChanges /\ Len(inbox) < MaxQueue
  /\ Tables(conf) # Tables(n) \/ get_config_changes(conf, n).all
  /\ conf' = n
  /\ IF conn
     THEN /\ running' = FALSE
          /\ phys' = {} /\ upnos' = upnos \ Ports(n)
          /\ inbox' = Append(inbox, [kind |-> "disconnect"])
     ELSE /\ phys' = phys \cap Ports(n)
          /\ UNCHANGED <<running, upnos, inbox>>
  /\ conn' = FALSE /\ async' = FALSE
  /\ changes' = changes + 1
  /\ UNCHANGED <<tab, link, missed>>

-----------------------------------------------------------------------------
(***************************************************************************)
(* The switch.                                                             *)
(***************************************************************************)

\* A link goes up or down.  The switch reports it once the cold start has
\* turned port status messages on.
LinkChange(p) ==
  /\ changes < MaxChanges
  /\ conn /\ async => Len(inbox) < MaxQueue
  /\ link' = IF p \in link THEN link \ {p} ELSE link \cup {p}
  /\ inbox' = IF conn /\ async
              THEN Append(inbox, [kind |-> "status", port |-> p, up |-> p \notin link])
              ELSE inbox
  /\ missed' = IF conn /\ ~async THEN missed \cup {p} ELSE missed \ {p}
  /\ changes' = changes + 1
  /\ UNCHANGED <<conf, phys, upnos, running, tab, conn, async>>

LoseConnection ==
  /\ conn /\ changes < MaxChanges /\ Len(inbox) < MaxQueue
  /\ conn' = FALSE /\ async' = FALSE
  /\ inbox' = Append(inbox, [kind |-> "disconnect"])
  /\ changes' = changes + 1
  /\ UNCHANGED <<conf, phys, upnos, running, tab, link, missed>>

Reconnect ==
  /\ ~conn /\ Len(inbox) < MaxQueue
  /\ conn' = TRUE
  /\ inbox' = inbox \o <<[kind |-> "desc", ports |-> link],
                         [kind |-> "connect", ports |-> link]>>
  /\ missed' = {}
  /\ UNCHANGED <<conf, phys, upnos, running, tab, link, async, changes>>

Init ==
  /\ conf \in Configs
  /\ phys = {} /\ upnos = {} /\ running = FALSE
  /\ tab = [k \in Key |-> NoRule]
  /\ link \in {{}, Port}
  /\ conn = FALSE /\ async = FALSE /\ missed = {}
  /\ inbox = <<>> /\ changes = 0

Next ==
  \/ NextEvent
  \/ \E n \in Configs : n # conf /\ (ReloadWarm(n) \/ ReloadCold(n))
  \/ \E p \in Port : LinkChange(p)
  \/ LoseConnection \/ Reconnect

Spec == Init /\ [][Next]_vars
-----------------------------------------------------------------------------
(***************************************************************************)
(* Properties.  The switch has what it was sent from the cold start on     *)
(* until the connection is lost.                                           *)
(***************************************************************************)

Provisioned == running /\ async

\* History leaves no trace: after any ports and reloads the switch has the
\* rules of ports that are up, of VLANs and of VIPs that a cold start with the
\* present configuration would install, no more and no fewer
\* (_apply_config_changes, get_config_changes).  ACLs of ports that are down
\* do not count: a reload installs those too.
WarmIsCold ==
  Provisioned =>
    LET cold == ColdTable(conf, phys) IN
    \A k \in Key : \/ k[1] \in {"flood", "floodp"}
                   \/ k[1] = "acl" /\ k[2] \notin phys
                   \/ tab[k] = cold[k]

\* The rule that floods a frame from p: the most specific one in the table.
FloodRule(p, v, dst) ==
  LET order == (IF dst = "arp" THEN <<"arp">> ELSE <<>>)
                 \o (IF dst # "any" THEN <<"bcast">> ELSE <<>>) \o <<"any">>
      keys == [i \in 1..(2 * Len(order)) |->
                 IF i % 2 = 1 THEN <<"floodp", v, p, order[(i + 1) \div 2]>>
                 ELSE <<"flood", v, order[i \div 2]>>]
      found == {i \in DOMAIN keys : tab[keys[i]] # NoRule}
  IN IF found = {} THEN {}
     ELSE tab[keys[CHOOSE i \in found : \A j \in found : i <= j]]
FloodedTo(p, v, dst) ==
  {<<o.port, o.tagged>> : o \in {x \in FloodRule(p, v, dst) : x.port \in phys \ {p}}}

\* Where a frame from p should go: to all ports of the VLAN that are up, but
\* to one external port at most and to none from another; a restricted port
\* broadcasts to restricted ports ARP and ND only; unknown unicast goes to
\* ports that want it.
MayFlood(p, q, v, dst) ==
  /\ dst = "any" => conf.vlans[v].uflood /\ conf.ports[q].ucast
  /\ conf.ports[q].ext => /\ ~conf.ports[p].ext
                          /\ q \in First(ExternalUp(conf, phys, v))
  /\ dst # "arp" /\ conf.ports[p].restr => ~conf.ports[q].restr

\* Flooding follows the configuration and the ports that are up, although the
\* rules are patched with modifies that add nothing, rules that are skipped,
\* and deletes that a reordered batch may lose (_build_mask_flood_rules).  A
\* frame from a disabled port is not admitted.
FloodsAsConfigured ==
  Provisioned =>
    \A v \in Vlans(conf), dst \in FloodDst :
    \A p \in {q \in VlanPorts(conf, v) \cap phys : conf.ports[q].enabled} :
      FloodedTo(p, v, dst) =
        {<<q, v \in conf.ports[q].tagged>> :
           q \in {x \in (VlanPorts(conf, v) \cap phys) \ {p} : MayFlood(p, x, v, dst)}}

\* Ports that some configuration takes to be up whatever the switch says: a
\* reload that ends that leaves such a port up until its next status.
EverAlways == UNION {{p \in Ports(c) : c.ports[p].always} : c \in Configs}

\* A configured port is provisioned when its link is up and only then, unless
\* the switch kept a change to itself: nothing is forgotten while the port is
\* not configured, the datapath is away or the configuration is reloaded
\* (port_desc_stats_reply_handler, dyn_up_port_nos).
LinksFollowed ==
  Provisioned =>
    \A p \in Ports(conf) \ (missed \cup EverAlways) :
      \/ \E i \in DOMAIN inbox : inbox[i].kind = "status" /\ inbox[i].port = p
      \/ p \in phys <=> p \in link

=============================================================================
