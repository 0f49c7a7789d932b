-------------------------------- MODULE MCAcl -------------------------------
(* A ring of three datapaths for Acl.                                      *)
EXTENDS Acl

Ring == {"l12", "l13", "l23"}
RingEnds == "l12" :> [a |-> 1, z |-> 2] @@ "l13" :> [a |-> 1, z |-> 3]
            @@ "l23" :> [a |-> 2, z |-> 3]
Hosts == <<<<"h1">>, <<"h2">>, <<"h3", "m3">>>>

\* Packets are told apart by one field.
Of(x) == {<<"eth_type", x>>}
Kinds == {Of(x) : x \in {"ip", "arp", "eap", "other"}}

R(match, allow) ==
  [match |-> match, allow |-> allow, force |-> FALSE, meter |-> NoMeter,
   mirror |-> None, dict |-> FALSE, out |-> <<>>, cookie |-> Cookie]
T(acl, dp, port) ==
  [vid |-> 200, acl |-> acl, dp |-> dp, port |-> port, bidir |-> FALSE,
   reverse |-> FALSE, maintain |-> FALSE, exit |-> <<>>]

Tunnel == <<[R(Of("ip"), "yes") EXCEPT !.out = <<<<"tunnel", 200>>>>],
            R(Of("arp"), "no"), R({}, "yes")>>
Filter(id, port) ==
  <<[R(Of("ip"), "unset") EXCEPT !.out = <<<<"failover", id, {"h3", port}>>>>],
    [R(Of("arp"), "unset") EXCEPT !.mirror = "m3"], R(Of("eap"), "no")>>

In(h1, h2, h3) == <<"h1" :> h1, "h2" :> h2, "h3" :> h3 @@ "m3" :> <<>>>>

TunnelConfigs ==
  {\* hosts on 1 and 2 are tunnelled to a port of 3, ARP is not let in
   [acls |-> "t" :> Tunnel @@ "f" :> Filter(7, "m3"),
    in |-> In(<<"t">>, <<"t">>, <<"f">>), tunnels |-> <<T("t", 3, "h3")>>],
   \* from 1 to 2, and back; ARP is let in, other frames are metered
   [acls |-> "t" :> <<[Tunnel[1] EXCEPT !.allow = "no"], R(Of("arp"), "yes"),
                      [R({}, "yes") EXCEPT !.meter = 5, !.force = TRUE]>>
             @@ "f" :> Filter(7, "h3") \o <<[R({}, "yes") EXCEPT !.dict = TRUE,
                  !.out = <<<<"out", "m3">>, <<"set", <<"eth_type", "new">>>>>>]>>,
    in |-> In(<<"t">>, <<>>, <<"f">>),
    tunnels |-> <<[T("t", 2, "h2") EXCEPT !.bidir = TRUE]>>],
   \* a tunnel to the forwarding tables of 3, and a second ACL on the port
   [acls |-> "t" :> <<[Tunnel[1] EXCEPT !.allow = "no"]>>
             @@ "f" :> <<R(Of("eap"), "no"), R({}, "yes")>>,
    in |-> In(<<"t", "f">>, <<"f">>, <<"t">>),
    tunnels |-> <<[T("t", 3, None) EXCEPT !.reverse = TRUE]>>],
   \* not valid: an ACL of 1 with ports of 3
   [acls |-> "f" :> Filter(7, "m3"), in |-> In(<<"f">>, <<>>, <<>>),
    tunnels |-> <<>>]}
=============================================================================
