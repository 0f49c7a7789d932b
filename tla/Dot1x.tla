-------------------------------- MODULE Dot1x -------------------------------
(***************************************************************************)
(* 802.1X: the rules that take EAPOL frames to the authenticator, those    *)
(* that let an authenticated host in, and the VLAN it is given, as hosts   *)
(* log in and off, ports and datapaths come and go and the configuration   *)
(* is reloaded (faucet_dot1x.py, valve_acl.py, Dot1xManager of valve.py).  *)
(*                                                                         *)
(* The authenticator (chewie) and the RADIUS server behind it are outside: *)
(* chewie calls back, one call at a time, on a thread of its own, so that  *)
(* the dispatch thread may run between the moment a handler computes its   *)
(* messages and the moment it sends them.  A port is <<d, p>>.             *)
(***************************************************************************)
EXTENDS FlowTable

CONSTANTS
  NDP,        \* the datapaths are 1..NDP, in the order of Valves
  Ports,      \* DP -> numbers of its 802.1X ports
  Mode,       \* port -> "mac", "acl" (dot1x_acl) or "dyn" (dot1x_dyn_acl)
  Mab,        \* ports with dot1x_mab
  Nfv,        \* number of the nfv_sw_port
  AuthAcl, NoauthAcl,  \* sequences of rules [match, allow]
  Assigned,   \* ACL name -> rules, those a RADIUS server may assign
  Vlan,       \* names of VLANs it may assign
  NativeVlan, \* the native VLAN of all ports
  Host,       \* MAC addresses
  Hdrs,       \* headers of the frames that hosts send
  Enabled,    \* the configurations: sets of datapaths with 802.1X
  None,
  MaxEvents   \* bound: events

DP == 1..NDP
Port == UNION {{d} \X Ports[d] : d \in DP}
Eapol == <<"eth_type", "eapol">>

\* The NFV port is output only, and such a port cannot have the option dot1x.
NamesDistinct ==
  None \notin Vlan \cup {NativeVlan} /\ \A d \in DP : Nfv \notin Ports[d]
ASSUME Dot1xAssumption == NamesDistinct

AuthPriority == 9               \* _HIGH_PRIORITY
LowPriority == AuthPriority - 1
OverridePriority == 10          \* _FILTER_PRIORITY + 1

VARIABLES
  enabled,  \* the datapaths with 802.1X
  index,    \* dp_id_to_valve_index
  owner,    \* mac_to_port: <<index, p>>, a MAC address, -> port
  running,  \* the datapaths that run
  up,       \* the ports and NFV ports that are up
  native,   \* port -> dyn_dot1x_native_vlan
  tab,      \* DP -> the port ACL table
  vrule,    \* port -> the VLAN that untagged frames get (VLAN table)
  callback, \* what a handler has computed and not sent, or None; stale: its
            \* port went down or was reloaded since (history)
  auth,     \* chewie's sessions [id, port, host, acls, cur]; acls: assigned
            \* in it so far (history), cur: is it of the speaker in use?
  raced,    \* ports whose callback was overtaken by a change, came from a
            \* speaker no longer in use, or was meant for another (history)
  stray,    \* ports whose VLAN rule is from before a reload, or from a stale
            \* callback (history)
  wired,    \* port -> the address its EAPOL rules were written with (history)
  events    \* counts towards MaxEvents

faucet == <<enabled, index, owner, running, up>>
vars == <<faucet, native, tab, vrule, callback, auth, raced, stray, wired, events>>

-----------------------------------------------------------------------------
(***************************************************************************)
(* Messages (valve_acl.py).                                                *)
(***************************************************************************)
InPort(p) == <<"in_port", p>>
Mac(h) == IF h = None THEN {} ELSE {<<"eth_src", h>>}

\* add_port_acl, del_port_acl: the rules of an ACL, for one host or for all.
AclRule(r, p, h) == r.match \cup {InPort(p)} \cup Mac(h)
add_port_acl(acl, p, h) ==
  [n \in DOMAIN acl |->
    flowmod(AclRule(acl[n], p, h), AuthPriority - (n - 1),
            IF acl[n].allow THEN Goto("vlan") ELSE Goto(Stop), Cookie)]

\* Mutant: one delete for all the rules.
del_port_acl_All(acl, p, h) == <<flowdel({InPort(p)} \cup Mac(h), AuthPriority, FALSE)>>

del_port_acl(acl, p, h) ==
  [n \in DOMAIN acl |-> flowdel(AclRule(acl[n], p, h), AuthPriority - (n - 1), FALSE)]

add_authed_mac(p, h) ==
  <<flowmod({InPort(p)} \cup Mac(h), AuthPriority, Goto("vlan"), Cookie)>>
del_authed_mac(p, h, strict) ==
  <<flowdel({InPort(p)} \cup Mac(h), AuthPriority, strict)>>

\* EAPOL frames go to the NFV port with the MAC address id of their port as
\* destination, and answers from id go to the port.
ToNfv(id) == Inst(NoMeter, <<<<"set", <<"eth_dst", id>>>>, <<"out", Nfv>>>>, Stop)
Answers(id) == {InPort(Nfv), Eapol, <<"eth_src", id>>}

create_dot1x_flow_pair(p, id) ==
  <<flowmod({InPort(p), Eapol}, OverridePriority, ToNfv(id), Cookie),
    flowmod(Answers(id), OverridePriority,
            Inst(NoMeter, <<<<"set", <<"eth_src", "eapol">>>>, <<"out", p>>>>, Stop),
            Cookie)>>
del_dot1x_flow_pair(p, id) ==
  <<flowdel(Answers(id), OverridePriority, FALSE),
    flowdel({InPort(p), Eapol}, OverridePriority, FALSE)>>

\* MAC authentication bypass: DHCP requests go to the NFV port.
Dhcp(p) == {InPort(p), <<"eth_type", "ip">>, <<"udp", "dhcp">>}

\* Mutant: the priority of the rules of an authenticated host.
create_mab_flow_High(p, id) == <<flowmod(Dhcp(p), AuthPriority, ToNfv(id), Cookie)>>

create_mab_flow(p, id) == <<flowmod(Dhcp(p), LowPriority, ToNfv(id), Cookie)>>
del_mab_flow(p) == <<flowdel(Dhcp(p), LowPriority, TRUE)>>

-----------------------------------------------------------------------------
(***************************************************************************)
(* FaucetDot1x.                                                            *)
(***************************************************************************)

\* get_mac_str, of an index and a port: different for different ports.
get_mac_str(i, p) == <<i, p>>
Id(port) == get_mac_str(index[port[1]], port[2])

_add_unauthenticated_flowmod(port) ==
  IF Mode[port] = "acl" THEN add_port_acl(NoauthAcl, port[2], None) ELSE <<>>
_del_unauthenticated_flowmod(port) ==
  IF Mode[port] = "acl" THEN del_port_acl(NoauthAcl, port[2], None) ELSE <<>>

\* The ACL of a host for whom the server returns the name f, or None if it may
\* send everything.
AclOf(port, f) ==
  IF Mode[port] = "dyn" /\ f \in DOMAIN Assigned THEN Assigned[f]
  ELSE IF Mode[port] = "acl" THEN AuthAcl ELSE None

_add_authenticated_flowmod(port, h, f) ==
  IF AclOf(port, f) = None THEN add_authed_mac(port[2], h)
  ELSE add_port_acl(AclOf(port, f), port[2], h)

\* Mutant: the rules of an assigned ACL are not found.
_del_authenticated_flowmod_Strict(port, h) ==
  IF Mode[port] = "acl" THEN del_port_acl(AuthAcl, port[2], h)
  ELSE del_authed_mac(port[2], h, TRUE)

_del_authenticated_flowmod(port, h) ==
  IF Mode[port] = "acl" THEN del_port_acl(AuthAcl, port[2], h)
  ELSE del_authed_mac(port[2], h, Mode[port] # "dyn")

_get_login_flowmod(port, h, f) ==
  _del_unauthenticated_flowmod(port) \o _add_authenticated_flowmod(port, h, f)

_get_logoff_flowmod(port, h) ==
  _del_authenticated_flowmod(port, h) \o _add_unauthenticated_flowmod(port)

\* port_up: EAPOL to the authenticator, and what a host that is not
\* authenticated may do.
port_up(port) ==
  create_dot1x_flow_pair(port[2], Id(port)) \o _add_unauthenticated_flowmod(port)
    \o (IF port \in Mab THEN create_mab_flow(port[2], Id(port)) ELSE <<>>)

\* del_port of the ACL manager and port_down.  The authenticated rules are
\* deleted for the port's own MAC address.
port_down(port) ==
  <<flowdel({InPort(port[2])}, 0, FALSE)>>
    \o _del_authenticated_flowmod(port, Id(port)) \o _del_unauthenticated_flowmod(port)
    \o del_mab_flow(port[2]) \o del_dot1x_flow_pair(port[2], Id(port))

PortsUp(d) == {port \in up \cap Port : port[1] = d}

\* The messages Msgs(port) for all of a set of ports.
ForPorts(ports, Msgs(_)) ==
  LET s == SetToSeq(ports) IN FlattenSeq([i \in DOMAIN s |-> Msgs(s[i])])

\* The switch executes a batch.
Executed(t, msgs) ==
  LET sent == valve_flowreorder(msgs)
      after[i \in 0..Len(sent)] ==
        IF i = 0 THEN t ELSE apply_ofmsg(after[i - 1], sent[i])
  IN after[Len(sent)]
SendTo(d, msgs) ==
  tab' = [tab EXCEPT ![d] = IF d \in running THEN Executed(@, msgs) ELSE @]

Event == events < MaxEvents /\ events' = events + 1

-----------------------------------------------------------------------------
(***************************************************************************)
(* The speaker's callbacks.                                                *)
(***************************************************************************)

\* The MAC addresses under which EAPOL frames from a port reach chewie.
Ids(port) ==
  LET d == port[1]
      outs == UNION Outputs(tab[d], [hdr |-> {Eapol}, tags |-> <<>>], port[2])
  IN IF {port, <<d, Nfv>>} \subseteq up /\ d \in running
     THEN {x[2] : x \in {y \in UNION {o[2].hdr : o \in {q \in outs : q[1] = Nfv}} :
                           y[1] = "eth_dst"}}
     ELSE {}

\* A handler has messages for a port, and for its VLAN if vlan is not None.
Computed(port, msgs, vlan) ==
  callback' = [port |-> port, msgs |-> msgs, vlan |-> vlan, stale |-> FALSE]

\* add_dot1x_native_vlan, with a VLAN there may be none of; del_dot1x_native_vlan.
add_dot1x_native_vlan(port, v) ==
  IF v \in Vlan THEN native' = [native EXCEPT ![port] = v] ELSE UNCHANGED native

\* Under address id the port from is taken for another.
Mistaken(from, id) == IF owner[id] = from THEN {} ELSE {from, owner[id]}

\* auth_handler: host h, behind port from, has authenticated under address id.
auth_handler(from, h, v, f) ==
  /\ Event /\ callback = None
  /\ \E id \in Ids(from) :
       LET port == owner[id]
           before == {s \in auth : s.id = id /\ s.host = h /\ s.cur}
       IN /\ id \in DOMAIN owner
          /\ auth' = (auth \ before) \cup
               {[id |-> id, port |-> from, host |-> h, cur |-> TRUE,
                 acls |-> {AclOf(port, f)} \cup UNION {s.acls : s \in before}]}
          /\ add_dot1x_native_vlan(port, v)
          /\ Computed(port, _get_login_flowmod(port, h, f), IF v \in Vlan THEN v ELSE None)
          /\ raced' = raced \cup Mistaken(from, id)
  /\ UNCHANGED <<faucet, tab, vrule, stray, wired>>

\* Mutant: the port keeps the VLAN it was assigned.
LogOff_Keep(id, h) ==
  LET port == owner[id]
  IN /\ id \in DOMAIN owner /\ UNCHANGED native
     /\ Computed(port, _get_logoff_flowmod(port, h),
                 IF native[port] = None THEN None ELSE NativeVlan)

\* logoff_handler, failure_handler: a frame of the host ends its sessions.
LogOff(id, h) ==
  LET port == owner[id]
  IN /\ id \in DOMAIN owner
     /\ native' = [native EXCEPT ![port] = None]
     /\ Computed(port, _get_logoff_flowmod(port, h),
                 IF native[port] = None THEN None ELSE NativeVlan)

logoff_handler(from, h) ==
  /\ Event /\ callback = None
  /\ \E id \in Ids(from) :
       /\ LogOff(id, h)
       /\ auth' = {s \in auth : ~(s.id = id /\ s.host = h /\ s.cur)}
       /\ raced' = raced \cup Mistaken(from, id)
  /\ UNCHANGED <<faucet, tab, vrule, stray, wired>>

\* A session expires, of the speaker in use or of one before it.
SessionExpires(s) ==
  /\ Event /\ callback = None
  /\ LogOff(s.id, s.host)
  /\ auth' = auth \ {s}
  /\ raced' = raced \cup Mistaken(s.port, s.id) \cup (IF s.cur THEN {} ELSE {owner[s.id]})
  /\ UNCHANGED <<faucet, tab, vrule, stray, wired>>

\* The handler sends, if the datapath runs.
SendCallback ==
  /\ callback # None
  /\ LET c == callback
     IN /\ SendTo(c.port[1], c.msgs)
        /\ IF c.port[1] \in running /\ c.vlan # None
           THEN /\ vrule' = [vrule EXCEPT ![c.port] = c.vlan]
                /\ stray' = IF c.stale THEN stray \cup {c.port} ELSE stray \ {c.port}
           ELSE UNCHANGED <<vrule, stray>>
  /\ callback' = None
  /\ UNCHANGED <<faucet, native, auth, raced, wired, events>>

-----------------------------------------------------------------------------
(***************************************************************************)
(* The dispatch thread.                                                    *)
(***************************************************************************)
PortVlan(port) == IF native[port] = None THEN NativeVlan ELSE native[port]

\* A change of ports while a callback about one of them is to send; a port that
\* goes down is as new.
Race(ports, gone) ==
  raced' = (raced \ gone)
             \cup {port \in ports : callback # None /\ callback.port = port}

\* What is still to be sent for them was computed from what they were.
Outdate(ports) ==
  callback' = IF callback # None /\ callback.port \in ports
              THEN [callback EXCEPT !.stale = TRUE] ELSE callback

\* The EAPOL rules of the ports are written.
Wire(ports) == wired' = [q \in Port |-> IF q \in ports THEN Id(q) ELSE wired[q]]

\* Valve.port_add: the port of a host.
PortUp(port) ==
  /\ Event /\ port[1] \in running \cap enabled /\ port \notin up
  /\ up' = up \cup {port}
  /\ SendTo(port[1], port_up(port))
  /\ vrule' = [vrule EXCEPT ![port] = PortVlan(port)]
  /\ Race({port}, {}) /\ Wire({port}) /\ stray' = stray \ {port}
  /\ UNCHANGED <<enabled, index, owner, running, native, callback, auth>>

\* nfv_sw_port_up, for all the ports that are up.
NfvUp(d) ==
  /\ Event /\ d \in running \cap enabled /\ <<d, Nfv>> \notin up
  /\ up' = up \cup {<<d, Nfv>>}
  /\ SendTo(d, ForPorts(PortsUp(d), LAMBDA q : create_dot1x_flow_pair(q[2], Id(q))))
  /\ Wire(PortsUp(d))
  /\ UNCHANGED <<enabled, index, owner, running, native, vrule, callback, auth,
                 raced, stray>>

\* The NFV port is output_only: it has no rules to delete.
NfvDown(d) ==
  /\ Event /\ d \in running \cap enabled /\ <<d, Nfv>> \in up
  /\ up' = up \ {<<d, Nfv>>}
  /\ UNCHANGED <<enabled, index, owner, running, native, tab, vrule, callback,
                 auth, raced, stray, wired>>

\* What port_down does for a set of ports: the speaker in use forgets their
\* sessions, the ports their VLANs.
Forget(ports) ==
  /\ auth' = {s \in auth : ~(s.cur /\ s.id \in {Id(q) : q \in ports})}
  /\ native' = [q \in Port |-> IF q \in ports THEN None ELSE native[q]]
  /\ stray' = stray \ ports

\* Valve.port_delete.  Taking the VLAN away adds the rule of the native VLAN.
PortDown(port) ==
  /\ Event /\ port[1] \in running \cap enabled /\ port \in up
  /\ up' = up \ {port}
  /\ SendTo(port[1], port_down(port))
  /\ vrule' = [vrule EXCEPT ![port] = IF native[port] = None THEN None ELSE NativeVlan]
  /\ Forget({port}) /\ Race({port}, {port}) /\ Outdate({port})
  /\ UNCHANGED <<enabled, index, owner, running, wired>>

\* datapath_disconnect: all ports go down, of which the switch is not told.
Disconnect(d) ==
  LET ports == IF d \in enabled THEN {q \in Port : q[1] = d} ELSE {}
  IN /\ Event /\ d \in running
     /\ running' = running \ {d}
     /\ up' = {q \in up : q[1] # d}
     /\ Forget(ports) /\ Race(ports, ports) /\ Outdate({q \in Port : q[1] = d})
     /\ UNCHANGED <<enabled, index, owner, tab, vrule, wired>>

\* datapath_connect with the ports in on: a cold start.
Connect(d, on) ==
  /\ Event /\ d \notin running
  /\ running' = running \cup {d}
  /\ up' = up \cup on
  /\ tab' = [tab EXCEPT ![d] =
       IF d \notin enabled THEN [flows |-> {}, groups |-> {}, meters |-> {}]
       ELSE Installed(valve_flowreorder(ForPorts(on \cap Port, port_up)))]
  /\ vrule' = [q \in Port |-> IF q[1] # d THEN vrule[q]
                              ELSE IF q \in on THEN PortVlan(q) ELSE None]
  /\ Race({q \in Port : q[1] = d}, {}) /\ Wire(on \cap Port)
  /\ stray' = {q \in stray : q[1] # d}
  /\ UNCHANGED <<enabled, index, owner, native, callback, auth>>

\* FaucetDot1x.reset: the datapaths with 802.1X are numbered; addresses of
\* others keep their ports.
Indices(now) ==
  [d \in DP |-> IF d \in now THEN Cardinality({e \in now : e < d}) ELSE index[d]]

\* Mutant: an address that is known keeps its port.
Owners_Known(now, i) ==
  LET new == {q \in Port : q[1] \in now /\ get_mac_str(i[q[1]], q[2]) \notin DOMAIN owner}
  IN owner @@ [id \in {get_mac_str(i[q[1]], q[2]) : q \in new} |->
                 CHOOSE q \in new : id = get_mac_str(i[q[1]], q[2])]

Owners(now, i) ==
  LET Addr(port) == get_mac_str(i[port[1]], port[2])
      new == {Addr(port) : port \in {q \in Port : q[1] \in now}}
  IN [id \in new \cup DOMAIN owner |->
        IF id \in new THEN CHOOSE port \in Port : port[1] \in now /\ id = Addr(port)
        ELSE owner[id]]

\* A reload.  A datapath that gets or loses 802.1X, and with it a table, is
\* made to reconnect; the ports of every datapath are new objects.  A speaker
\* is created, beside the one there is.
Reload(now) ==
  LET cold == (enabled \ now) \cup (now \ enabled)
  IN /\ Event /\ now # enabled
     /\ enabled' = now
     /\ running' = running \ cold
     /\ up' = {q \in up : q[1] \notin cold}
     /\ native' = [q \in Port |-> None]
     /\ stray' = {q \in Port : q \in stray \/ native[q] # None}
     /\ Race(Port, {}) /\ Outdate(Port)
     /\ IF now = {} THEN UNCHANGED <<index, owner, auth>>
        ELSE /\ index' = Indices(now)
             /\ owner' = Owners(now, index')
             /\ auth' = {[s EXCEPT !.cur = FALSE] : s \in auth}
     /\ UNCHANGED <<tab, vrule, wired>>

-----------------------------------------------------------------------------
(***************************************************************************)
(* Everything is connected and up, and no one has authenticated.           *)
(***************************************************************************)
Init ==
  /\ enabled \in Enabled \ {{}}
  /\ index = [d \in DP |-> IF d \in enabled
                           THEN Cardinality({e \in enabled : e < d}) ELSE None]
  /\ owner = [id \in {Id(port) : port \in {q \in Port : q[1] \in enabled}} |->
                CHOOSE port \in Port : port[1] \in enabled /\ id = Id(port)]
  /\ running = DP
  /\ up = {q \in Port : q[1] \in enabled} \cup {<<d, Nfv>> : d \in enabled}
  /\ native = [q \in Port |-> None]
  /\ tab = [d \in DP |-> Installed(valve_flowreorder(ForPorts(PortsUp(d), port_up)))]
  /\ vrule = [q \in Port |-> IF q \in up THEN NativeVlan ELSE None]
  /\ callback = None /\ auth = {} /\ raced = {} /\ stray = {}
  /\ wired = [q \in Port |-> IF q \in up THEN Id(q) ELSE None]
  /\ events = 0

Next ==
  \/ \E port \in Port, h \in Host :
       \/ \E v \in Vlan \cup {None}, f \in DOMAIN Assigned \cup {None} :
            auth_handler(port, h, v, f)
       \/ logoff_handler(port, h)
  \/ \E s \in auth : SessionExpires(s)
  \/ SendCallback
  \/ \E port \in Port : PortUp(port) \/ PortDown(port)
  \/ \E d \in DP :
       \/ NfvUp(d) \/ NfvDown(d) \/ Disconnect(d)
       \/ \E on \in SUBSET ({q \in Port : q[1] = d} \cup {<<d, Nfv>>}) : Connect(d, on)
  \/ \E now \in Enabled : Reload(now)

Spec == Init /\ [][Next]_vars

-----------------------------------------------------------------------------
(***************************************************************************)
(* Properties.                                                             *)
(***************************************************************************)

\* Ports whose datapath runs and that no half done callback is about.
Settled ==
  {port \in up \cap Port : /\ port[1] \in running \cap enabled
                           /\ callback # None => callback.port # port}

\* The outcomes of a frame of host h: to the VLAN table, or not.
LetIn(port, h, hdr) ==
  {\E o \in outs : o[1] = "vlan" :
     outs \in Outputs(tab[port[1]], [hdr |-> hdr \cup Mac(h), tags |-> <<>>], port[2])}

\* What an ACL says: its first rule that matches.
Allowed(acl, hdr) ==
  LET hits == {n \in DOMAIN acl : acl[n].match \subseteq hdr}
  IN acl = None \/ \E n \in hits : acl[n].allow /\ \A k \in hits : n =< k

Sessions(port, h) == {s \in auth : s.port = port /\ s.host = h}

TypeOK ==
  /\ enabled \in Enabled /\ running \subseteq DP
  /\ up \subseteq Port \cup {<<d, Nfv>> : d \in DP}
  /\ native \in [Port -> Vlan \cup {None}]
  /\ vrule \in [Port -> Vlan \cup {NativeVlan, None}]
  /\ \A d \in DP : d \in enabled => index[d] \in 0..(NDP - 1)
  /\ \A s \in auth : s.id \in DOMAIN owner /\ s.port \in Port /\ s.host \in Host
  /\ raced \cup stray \subseteq Port /\ events \in 0..MaxEvents

\* Only hosts that have a session get past a port, and only with what the ACL
\* of one of their sessions lets in, unless what is let in without
\* authentication is: whatever came in between, and whichever of a port's
\* hosts it was.  A session that was assigned another ACL keeps the first.
\* Not if a callback was overtaken by a change of its port, came from a speaker
\* that a reload has replaced, or was meant for a port taken for another.
OnlyAuthenticated ==
  \A port \in Settled \ raced, h \in Host, hdr \in Hdrs :
    TRUE \in LetIn(port, h, hdr) =>
      \/ Mode[port] = "acl" /\ Allowed(NoauthAcl, hdr)
      \/ \E s \in Sessions(port, h) : \E acl \in s.acls : Allowed(acl, hdr)

\* On a port without dot1x_acl, a host with one session, under the address that
\* the port has now, gets in, with what all its ACLs let in, until the session
\* ends, whatever others do.
AuthenticatedGetsIn ==
  \A port \in Settled \ raced, h \in Host : \A s \in Sessions(port, h) :
    Mode[port] # "acl" /\ s.cur /\ s.id = Id(port) /\ Sessions(port, h) = {s} =>
      \A hdr \in Hdrs : (\A acl \in s.acls : Allowed(acl, hdr))
                         => LetIn(port, h, hdr) = {TRUE}

\* EAPOL frames of a port that is up reach the authenticator, which takes them
\* for frames of that port, though reloads give datapaths other indices, and
\* with them addresses that were those of others: but for a port whose datapath
\* has another index than when the rules were written (reset, set_mac_str).
AttributedToItsPort ==
  \A port \in Settled : <<port[1], Nfv>> \in up /\ wired[port] = Id(port) =>
    Ids(port) # {} /\ \A id \in Ids(port) : id \in DOMAIN owner /\ owner[id] = port

\* Untagged frames get the VLAN assigned to the port, or its native VLAN.  The
\* exceptions: a reload forgets a VLAN that was assigned (clone_dyn_state), and
\* a callback that computed before its port went down or was reloaded sends its
\* VLAN all the same.  Either lasts until the port's rule is next written.
VlanAsAssigned ==
  \A port \in Settled \ stray : vrule[port] = PortVlan(port)
=============================================================================
