------------------------------- MODULE MCDot1x ------------------------------
(* Two datapaths, one with a port of either kind of ACL.                   *)
EXTENDS Dot1x

TwoPorts == <<{"p1", "p2"}, {"p1"}>>
Modes == <<1, "p1">> :> "acl" @@ <<1, "p2">> :> "dyn" @@ <<2, "p1">> :> "mac"
MabPorts == {<<2, "p1">>}

Type(x) == <<"eth_type", x>>
Frames == {{Type("ip")}, {Type("arp")}, {Type("ip"), <<"udp", "dhcp">>}}
Rule(match, allow) == [match |-> match, allow |-> allow]
Auth == <<Rule({Type("ip")}, TRUE)>>
Noauth == <<Rule({Type("ip")}, FALSE), Rule({Type("arp")}, TRUE)>>
Student == "student" :> <<Rule({Type("arp")}, FALSE), Rule({}, TRUE)>>
=============================================================================
