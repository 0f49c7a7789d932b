----------------------------- MODULE ConfigCheck ----------------------------
(***************************************************************************)
(* What the configuration's object model accepts (conf.py, dp.py, vlan.py, *)
(* acl.py, router.py, config_parser.py): the check of every object when it *)
(* is created, then finalize_config, which resolves references between     *)
(* objects datapath by datapath, numbers the tunnels' VLANs and lays out   *)
(* the ACL tables.                                                         *)
(*                                                                         *)
(* A configuration is a record [dps, vlans, acls, meters, routers] of      *)
(* functions from names to objects; meters is a set.  Names are numbers.   *)
(* The field typed of an object says that its keys are known and its       *)
(* values have the right types and formats (addresses parse).              *)
(***************************************************************************)
EXTENDS Integers, FiniteSets, Sequences, TLC
LOCAL INSTANCE SequencesExt

CONSTANTS
  None,
  MaxDpId    \* 2^64 - 1

-----------------------------------------------------------------------------
(***************************************************************************)
(* Objects as they are created.                                            *)
(***************************************************************************)

\* Conf.update: no unknown key, no value of the wrong type.
_check_conf_types(o) == o.typed

\* DP._lldp_defaults, for datapaths with a beacon or a stack.
_lldp_defaults(d) == IF d.send_interval = None THEN 5 ELSE d.send_interval

DP_check_config(d) ==
  /\ _check_conf_types(d)
  /\ d.dp_id \in 0..MaxDpId
  /\ d.ports # <<>>
  /\ d.timeout \in 15..65535
  /\ 2 * d.arp_neighbor_timeout < d.timeout /\ 2 * d.nd_neighbor_timeout < d.timeout
  /\ ~(d.combinatorial_port_flood /\ d.group_table)
  /\ _lldp_defaults(d) >= 1

\* A VIP has an address and the set of addresses of its subnet.
VLAN_check_config(v) ==
  /\ _check_conf_types(v)
  /\ v.vid \in 1..4095
  /\ v.acl_in = None \/ v.acls_in = <<>>
  /\ v.acl_out = None \/ v.acls_out = <<>>
  /\ \A vip \in v.faucet_vips : vip.net # {vip.ip}
  /\ \A r \in v.routes : r.ip_gw.ipv = r.ip_dst.ipv

\* An ordered output is a sequence of actions, an unordered one has one element.
ACL_check_config(a) ==
  /\ a.rules # <<>>
  /\ \A i \in DOMAIN a.rules : LET r == a.rules[i] IN
       /\ _check_conf_types(r)
       /\ r.cookie \in 0..65536
       /\ r.ordered => \A j \in DOMAIN r.output : Cardinality(r.output[j]) =< 1
       /\ IF "clear" \in r.ct THEN r.ct = {"clear"}
          ELSE r.ct # {} => {"table", "zone"} \subseteq r.ct

\* bgp: vlan (0: not given), server addresses by IP version, and whether the
\* other parameters are there.
Router_check_config(r) ==
  /\ _check_conf_types(r)
  /\ IF r.bgp = None THEN r.vlans # <<>>
     ELSE /\ r.bgp.complete /\ r.bgp.connect_mode = "passive"
          /\ r.bgp.server_addresses # <<>>
          /\ \A ipv \in DOMAIN r.bgp.server_addresses :
               Cardinality(r.bgp.server_addresses[ipv]) = 1
          /\ r.bgp.vlan = 0 => Len(r.vlans) = 1

BgpVlan(r) == IF r.bgp.vlan = 0 THEN r.vlans[1] ELSE r.bgp.vlan

\* _dp_parse_port: a VLAN that is given by its VID need not be configured.
_dp_parse_port(c, p) ==
  \A v \in p.vlans : ~v.named \/ v.vid \in DOMAIN c.vlans

_parse_dp(c, n) ==
  /\ DP_check_config(c.dps[n])
  /\ \A k \in DOMAIN c.vlans : VLAN_check_config(c.vlans[k])
  /\ \A j, k \in DOMAIN c.vlans : c.vlans[j].vid = c.vlans[k].vid => j = k
  /\ \A k \in DOMAIN c.acls : ACL_check_config(c.acls[k])
  /\ \A k \in DOMAIN c.routers : Router_check_config(c.routers[k])
  /\ \A p \in DOMAIN c.dps[n].ports : _dp_parse_port(c, c.dps[n].ports[p])

\* Every datapath gets every VLAN, those that a port of any datapath implies
\* too (reset_refs keeps them all: it tests a method, not what it returns).
Vids(c) ==
  {c.vlans[k].vid : k \in DOMAIN c.vlans}
  \cup {v.vid : v \in UNION {UNION {p.vlans : p \in Range(c.dps[n].ports)}
                             : n \in DOMAIN c.dps}}
Reserved(c, vid) ==
  \E k \in DOMAIN c.vlans : c.vlans[k].vid = vid /\ c.vlans[k].reserved_internal_vlan

-----------------------------------------------------------------------------
(***************************************************************************)
(* References between datapaths and ports.                                 *)
(***************************************************************************)

resolve_stack_dps(c, n) ==
  \A p \in Range(c.dps[n].ports) :
    p.stack # None => /\ p.stack.dp \in DOMAIN c.dps
                      /\ p.stack.port \in DOMAIN c.dps[p.stack.dp].ports

resolve_mirror_destinations(c, n) ==
  \A p \in Range(c.dps[n].ports) : p.mirror \subseteq DOMAIN c.dps[n].ports

-----------------------------------------------------------------------------
(***************************************************************************)
(* ACLs.  resolve_acls resolves those of VLANs, then of ports, then of the *)
(* datapath, then all that have tunnels; a use says for which VLAN or port.*)
(***************************************************************************)

Seqs(S, f(_)) ==
  LET order == SetToSortSeq(S, <) IN FoldLeft(LAMBDA s, k : s \o f(k), <<>>, order)

Outputs(a) ==
  FoldLeft(LAMBDA s, r : s \o r.output, <<>>, a.rules)
Tunnels(a) ==
  LET T(o) == {x \in o : x.do = "tunnel"}
  IN FoldLeft(LAMBDA s, o : IF T(o) = {} THEN s ELSE Append(s, CHOOSE x \in T(o) : TRUE),
              <<>>, Outputs(a))

Uses(c, n) ==
  LET d == c.dps[n]
      use(s, table, vid, port) ==
        [i \in DOMAIN s |-> [acl |-> s[i], table |-> table, vid |-> vid, port |-> port]]
      acls(one, many) == IF one = None THEN many ELSE <<one>>
      vlan(k) == LET v == c.vlans[k] IN
        use(acls(v.acl_in, v.acls_in), "vlan_acl", v.vid, 0)
        \o use(acls(v.acl_out, v.acls_out), "egress_acl", v.vid, 0)
      assigned == SetToSortSeq({k \in DOMAIN c.acls : c.acls[k].dot1x_assigned}, <)
      port(p) == LET x == d.ports[p] IN
        use(x.acls_in, "port_acl", 0, p)
        \o (IF x.dot1x_dyn_acl THEN use(assigned, "port_acl", 0, p) ELSE <<>>)
        \o (IF x.dot1x_acl
            THEN use(SelectSeq(d.dot1x.acls, LAMBDA k : k \in DOMAIN c.acls), "port_acl", 0, p)
            ELSE <<>>)
      tunnels == SetToSortSeq({k \in DOMAIN c.acls : Tunnels(c.acls[k]) # <<>>}, <)
  IN Seqs(DOMAIN c.vlans, vlan) \o Seqs(DOMAIN d.ports, port)
     \o use(d.dp_acls, "port_acl", 0, 0) \o use(tunnels, "port_acl", 0, 0)

\* ACL._resolve_output_ports, for the actions of one output.
_resolve_output_ports(c, n, out) ==
  LET do == {x.do : x \in out} IN
  /\ ~({"vlan_vid", "vlan_vids"} \subseteq do) /\ ~({"port", "ports"} \subseteq do)
  /\ \A x \in out :
       /\ x.do \in {"port", "ports", "failover"} => x.to \subseteq DOMAIN c.dps[n].ports
       /\ x.do = "tunnel" =>
            /\ ~(x.bi_directional /\ x.reverse)
            /\ x.dp \in DOMAIN c.dps
            /\ x.port # 0 => x.port \in DOMAIN c.dps[x.dp].ports

resolve_acl(c, n, u) ==
  /\ u.acl \in DOMAIN c.acls
  /\ LET a == c.acls[u.acl] IN
     /\ \A i \in DOMAIN Outputs(a) : _resolve_output_ports(c, n, Outputs(a)[i])
     /\ u.vid # 0 => Tunnels(a) = <<>>
     /\ \A r \in Range(a.rules) : /\ r.meter = None \/ r.meter \in c.meters
                                  /\ r.mirror = 0 \/ r.mirror \in DOMAIN c.dps[n].ports

\* The ACLs used together on a VLAN or a port are all exact matches or none is.
verify_acl_exact_match(c, s) ==
  \A i, j \in DOMAIN s : c.acls[s[i].acl].exact_match = c.acls[s[j].acl].exact_match

resolve_acls(c, n) ==
  LET d == c.dps[n]
      all == Uses(c, n)
      together(u) == SelectSeq(all, LAMBDA w : w.table = u.table /\ w.vid = u.vid
                                               /\ w.port = u.port)
  IN /\ \A i \in DOMAIN all : resolve_acl(c, n, all[i])
     /\ \A i \in DOMAIN all : all[i].vid # 0 \/ all[i].port # 0
                                => verify_acl_exact_match(c, together(all[i]))
     /\ d.dp_acls # <<>> => \A p \in Range(d.ports) : p.acls_in = <<>>

-----------------------------------------------------------------------------
(***************************************************************************)
(* The VLANs of tunnels.  Each datapath numbers them for itself, in the    *)
(* order in which it resolves the ACLs.                                    *)
(***************************************************************************)

first_unused_vlan_id(used, vid) ==
  CHOOSE v \in vid..(vid + Cardinality(used)) :
    v \notin used /\ \A w \in vid..(v - 1) : w \in used

\* Mutant: the tunnels of other ACLs are not counted.
tunnel_offset_None(c, k) == 1

\* The tunnels of the ACLs up to this one, by name.
tunnel_offset(c, k) ==
  FoldSet(LAMBDA j, n : n + Len(Tunnels(c.acls[j])), 0,
          {j \in DOMAIN c.acls : j =< k})

\* The tunnels in the order of the first use of their ACL: <<ACL, which>>.
TunnelOrder(c, n) ==
  LET first(s, u) ==
        IF \E i \in DOMAIN s : s[i][1] = u.acl THEN s
        ELSE s \o [i \in DOMAIN Tunnels(c.acls[u.acl]) |-> <<u.acl, i>>]
  IN FoldLeft(first, <<>>, Uses(c, n))

\* get_tunnel_vlan, for every tunnel; 0 if a VLAN is in the way.  Tunnels of
\* an ACL to the same destination share a VLAN unless one asks for its own.
TunnelVids(c, n) ==
  LET users == {v \in Vids(c) : ~Reserved(c, v)}
      one(got, at) ==
        LET t == Tunnels(c.acls[at[1]])[at[2]]
            same == {j \in DOMAIN got : /\ j[1] = at[1]
                       /\ LET o == Tunnels(c.acls[j[1]])[j[2]] IN o.dp = t.dp /\ o.port = t.port}
            start == Max(users) + tunnel_offset(c, at[1])
        IN (at :> IF t.tunnel_id # 0
                  THEN IF t.tunnel_id \in users THEN 0 ELSE t.tunnel_id
                  ELSE IF same # {} THEN got[CHOOSE j \in same : \A i \in same : i[2] =< j[2]]
                  ELSE first_unused_vlan_id(Vids(c) \cup Range(got), start)) @@ got
  IN FoldLeft(one, <<>>, TunnelOrder(c, n))

-----------------------------------------------------------------------------
(***************************************************************************)
(* ACL tables: fields matched, and whether with a mask.                    *)
(***************************************************************************)

\* The fields a rule built for a use matches.
RuleMatch(r, u) ==
  (IF u.port # 0 THEN ("in_port" :> FALSE) ELSE <<>>)
  @@ (IF u.vid # 0 THEN ("vlan_vid" :> FALSE) ELSE <<>>) @@ r.match

\* A field is masked if it is somewhere.
Merge(ms) ==
  [f \in UNION {DOMAIN m : m \in ms} |-> \E m \in ms : f \in DOMAIN m /\ m[f]]

TunnelFields == [f \in {"eth_type", "in_port", "vlan_vid", "vlan_pcp"} |-> FALSE]

\* ACL.build keeps what the last use of the ACL needs, and verify_tunnel_rules
\* adds what tunnels need.
build(c, n, k) ==
  LET all == SelectSeq(Uses(c, n), LAMBDA u : u.acl = k)
      rules == {RuleMatch(r, all[Len(all)]) : r \in Range(c.acls[k].rules)}
  IN Merge(rules \cup (IF Tunnels(c.acls[k]) = <<>> THEN {} ELSE {TunnelFields}))

\* Mutant: the first ACL decides whether a field is masked.
_generate_acl_tables_First(c, n, table) ==
  LET uses == SelectSeq(Uses(c, n), LAMBDA u : u.table = table)
  IN [match |-> FoldLeft(LAMBDA m, u : m @@ build(c, n, u.acl), <<>>, uses),
      exact |-> c.acls[uses[Len(uses)].acl].exact_match]

\* The last ACL decides whether the table is an exact match; those with
\* tunnels come last, in the order in which they were resolved.
_generate_acl_tables(c, n, table) ==
  LET uses == SelectSeq(Uses(c, n), LAMBDA u : u.table = table)
      tunnels == TunnelOrder(c, n)
      last == IF table = "port_acl" /\ tunnels # <<>> THEN tunnels[Len(tunnels)][1]
              ELSE uses[Len(uses)].acl
  IN [match |-> Merge({build(c, n, u.acl) : u \in Range(uses)}),
      exact |-> c.acls[last].exact_match]

\* The conflicts _generate_acl_tables looks for.
TablesValid(c, n) ==
  LET d == c.dps[n] IN
  d.dot1x # None =>
    /\ d.dp_acls = <<>>
    /\ \A p \in DOMAIN d.ports : /\ d.ports[p].dot1x => d.ports[p].acls_in = <<>>
                                 /\ p = d.dot1x.nfv_sw_port => d.ports[p].output_only

\* ValveTable._verify_flowmod asserts that a rule fits its table.
_verify_flowmod(table, match) ==
  /\ \A f \in DOMAIN match : f \in DOMAIN table.match /\ (match[f] => table.match[f])
  /\ table.exact => DOMAIN match = DOMAIN table.match

-----------------------------------------------------------------------------
(***************************************************************************)
(* Routers.                                                                *)
(***************************************************************************)

RouterVlans(c, k) == {v \in Range(c.routers[k].vlans) : v \in Vids(c)}
Bgp(c) == {k \in DOMAIN c.routers : c.routers[k].bgp # None /\ BgpVlan(c.routers[k]) \in Vids(c)}
VipsOf(c, vid) ==
  UNION {c.vlans[k].faucet_vips : k \in {j \in DOMAIN c.vlans : c.vlans[j].vid = vid}}

resolve_routers(c, n) ==
  LET used == {k \in DOMAIN c.routers : RouterVlans(c, k) # {} \/ k \in Bgp(c)} IN
  /\ c.dps[n].global_vlan = 0 \/ c.dps[n].global_vlan \notin Vids(c)
  /\ \A j, k \in used : j < k /\ Cardinality(RouterVlans(c, k)) = 1
                          => RouterVlans(c, j) \cap RouterVlans(c, k) = {}
  /\ \A k \in used : LET vips == UNION {VipsOf(c, v) : v \in RouterVlans(c, k)} IN
       \A v, w \in vips : v # w /\ ~v.link_local /\ ~w.link_local => v.ip \notin w.net
  /\ Bgp(c) # {} => Cardinality(DOMAIN c.dps) = 1
  /\ \A j, k \in Bgp(c) : LET a == c.routers[j].bgp b == c.routers[k].bgp IN
       /\ a.server_addresses = b.server_addresses
       /\ a.routerid = b.routerid /\ a.port = b.port

-----------------------------------------------------------------------------
finalize_config(c, n) ==
  LET d == c.dps[n] IN
  /\ \/ Vids(c) # {}
     \/ \E p \in Range(d.ports) : p.output_only \/ p.stack # None
  /\ resolve_stack_dps(c, n)
  /\ resolve_mirror_destinations(c, n)
  /\ resolve_acls(c, n)
  /\ 0 \notin Range(TunnelVids(c, n))
  /\ resolve_routers(c, n)
  /\ TablesValid(c, n)

\* _dp_parser_v2.
dp_preparsed_parser(c) ==
  /\ DOMAIN c.dps # {}
  /\ \A n \in DOMAIN c.dps : _parse_dp(c, n)
  /\ \A n \in DOMAIN c.dps : finalize_config(c, n)
  /\ \A m, n \in DOMAIN c.dps : c.dps[m].dp_id = c.dps[n].dp_id => m = n
  /\ \A k \in DOMAIN c.routers : RouterVlans(c, k) # {} \/ k \in Bgp(c)
=============================================================================
