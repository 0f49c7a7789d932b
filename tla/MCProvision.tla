----------------------------- MODULE MCProvision ----------------------------
(* Small configurations of one datapath for Provision.                     *)
EXTENDS Provision

P(native, tagged) ==
  [native |-> native, tagged |-> tagged, enabled |-> TRUE, always |-> FALSE,
   ext |-> FALSE, restr |-> FALSE, ucast |-> TRUE, acl |-> None,
   outonly |-> FALSE, lldp |-> FALSE, miss |-> FALSE, mirrors |-> {}]
V(mac, vips) == [mac |-> mac, vips |-> vips, acl |-> None, uflood |-> TRUE]
C(ports, vlans, acls) ==
  [ports |-> ports, vlans |-> vlans, acls |-> acls, router |-> {10, 20}, base |-> 1]

\* Ports 1 and 2 lead to other switches, 3 and 4 are access ports.
Base == C((1 :> [P(10, {}) EXCEPT !.ext = TRUE])
            @@ (2 :> [P(None, {10}) EXCEPT !.ext = TRUE, !.lldp = TRUE, !.miss = TRUE])
            @@ (3 :> [P(10, {}) EXCEPT !.restr = TRUE])
            @@ (4 :> [P(10, {}) EXCEPT !.restr = TRUE, !.acl = "a"]),
          (10 :> V("m1", {"g1"})) @@ (20 :> [V("m1", {"g2", "g6", "l6"}) EXCEPT !.acl = "a"])
            @@ (30 :> V("m2", {})), ("a" :> 1))

ReloadConfigs ==
  {Base,
   \* port 3 goes to VLAN 20, and back
   [Base EXCEPT !.ports[3].native = 20, !.ports[3].tagged = {10}],
   \* port 3 is not configured
   [Base EXCEPT !.ports = [p \in {1, 2, 4} |-> @[p]]],
   \* VLAN 10 has another MAC and address
   [Base EXCEPT !.vlans[10] = V("m2", {"g3", "k6"})],
   \* VLAN 30 is gone, VLAN 20 has a link local IPv6 address only, and the ACL
   \* has other rules
   [Base EXCEPT !.vlans = (10 :> @[10]) @@ (20 :> [@[20] EXCEPT !.vips = {"g2", "l6"}]),
                !.acls["a"] = 2],
   \* port 4 is disabled, port 2 mirrors port 3, which has an ACL
   [Base EXCEPT !.ports[4].enabled = FALSE, !.ports[3].acl = "a",
                !.ports[2] = [P(None, {}) EXCEPT !.mirrors = {3}, !.outonly = TRUE]],
   \* a reload to or from another base is cold
   [Base EXCEPT !.base = 2, !.ports[4].ucast = FALSE]}

LL == {"l6"}
=============================================================================
