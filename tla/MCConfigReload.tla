--------------------------- MODULE MCConfigReload ---------------------------
(* Two datapaths, the second in the included file, which comes and goes.   *)
(* Each uses one of two ACLs with a tunnel, on a port or for the datapath, *)
(* so that they resolve the ACLs in different orders.  The VLAN has an ACL *)
(* of its own, one that a port of the first datapath uses too and, with    *)
(* the included file, only that one; and one for egress, an exact match.   *)
EXTENDS ConfigReload

Port1(acls) ==
  [vlans |-> {[vid |-> 100, named |-> TRUE]}, stack |-> None, mirror |-> {},
   acls_in |-> acls, dot1x |-> FALSE, dot1x_acl |-> FALSE, dot1x_dyn_acl |-> FALSE,
   output_only |-> FALSE]
DP(id, ports, acls) ==
  [typed |-> TRUE, dp_id |-> id, ports |-> ports, timeout |-> 300,
   arp_neighbor_timeout |-> 30, nd_neighbor_timeout |-> 30,
   combinatorial_port_flood |-> FALSE, group_table |-> FALSE, send_interval |-> None,
   dot1x |-> None, dp_acls |-> acls, global_vlan |-> 0]
Rule(match, output) ==
  [typed |-> TRUE, cookie |-> 0, match |-> match, ordered |-> TRUE, output |-> output,
   ct |-> {}, meter |-> None, mirror |-> 0]
ACL(exact, list) == [exact_match |-> exact, dot1x_assigned |-> FALSE, rules |-> list]
Tunnel(masked, port) ==
  ACL(FALSE, <<Rule("eth_src" :> masked,
                    <<{[do |-> "tunnel", dp |-> 1, port |-> port, tunnel_id |-> 0,
                        bi_directional |-> FALSE, reverse |-> FALSE]}>>)>>)
Drops(fields, masked) == Rule([f \in fields |-> masked], <<>>)
Acls ==
  <<Tunnel(FALSE, 1), Tunnel(TRUE, 2),
    ACL(FALSE, <<Drops({"eth_dst"}, FALSE), Drops({"eth_type", "ipv4_src"}, FALSE)>>),
    ACL(FALSE, <<Drops({"eth_dst"}, TRUE)>>),
    ACL(TRUE, <<Drops({"eth_dst"}, FALSE), Drops({"eth_type"}, FALSE)>>)>>
Vlan100(acls) ==
  [typed |-> TRUE, vid |-> 100, acl_in |-> None, acls_in |-> acls, acl_out |-> 5,
   acls_out |-> <<>>, faucet_vips |-> {}, routes |-> {}, reserved_internal_vlan |-> FALSE]

Empty == [dps |-> <<>>, vlans |-> <<>>, acls |-> <<>>, routers |-> <<>>, meters |-> {}]
TopConf ==
  [Empty EXCEPT !.dps = (1 :> DP(1, <<Port1(<<2>>), Port1(<<4>>)>>, <<>>)),
                !.vlans = (100 :> Vlan100(<<3, 4>>)),
                !.acls = Acls]
IncConf ==
  [Empty EXCEPT !.dps = (2 :> DP(2, <<Port1(<<>>)>>, <<1>>)),
                !.vlans = (100 :> Vlan100(<<4>>))]
\* The second datapath is stacked with one that is not configured.
BadConf ==
  [Empty EXCEPT !.dps =
     (2 :> DP(2, <<[Port1(<<>>) EXCEPT !.stack = [dp |-> 3, port |-> 1]]>>, <<>>))]

\* Contents 3 are not UTF-8.
Of(utf8, yaml, inc, conf) == [utf8 |-> utf8, yaml |-> yaml, inc |-> inc, conf |-> conf]
Texts ==
  <<Of(TRUE, TRUE, "opt", TopConf), Of(TRUE, TRUE, "req", TopConf),
    Of(FALSE, FALSE, "no", Empty), Of(TRUE, TRUE, "no", IncConf),
    Of(TRUE, TRUE, "no", BadConf)>>
Tops == {1, 2, 3}
Incs == {4, 5}
=============================================================================
