------------------------------ MODULE HostLearn ------------------------------
(***************************************************************************)
(* Host learning on a VLAN of one datapath, outside a stack                *)
(* (valve_switch_standalone.py, vlan.py, valve.py): the host caches of the *)
(* controller, the rules in the switch that they stand for, and the events *)
(* that are still on their way to the controller.                          *)
(*                                                                         *)
(* A packet-in is handled with the time it was received, all other events  *)
(* with the time they are handled.  Every step takes one unit of time, so  *)
(* no two things happen at the same time; 0 is None.  Rules are in the     *)
(* switch as soon as the handler returns (BarrierSend is about their way). *)
(* Ports are not in a LAG and do not hairpin, and the flow-removed variant *)
(* (use_idle_timeout) is left out.                                         *)
(***************************************************************************)
EXTENDS Integers, Sequences, FiniteSets, FiniteSetsExt

CONSTANTS
  Host, Port,
  NoHost, NoPort,
  LearnTimeout,  \* timeout of the datapath
  LearnJitter,   \* learn_jitter
  Guard,         \* cache_update_guard_time
  BanTimeout,    \* learn_ban_timeout
  Hash,          \* Host -> hash of its address
  MaxPortHosts,  \* Port -> max_hosts, 0 for none
  MaxVlanHosts,  \* max_hosts of the VLAN, 0 for none
  Confs,         \* configurations: [loop_protect, permanent_learn, idle_dst]
  MaxTime,       \* bound on the clock
  MaxEvents      \* bound on the events on their way

ASSUME LearnAssumption ==
  /\ NoHost \notin Host /\ NoPort \notin Port /\ IsFiniteSet(Host)
  /\ LearnTimeout \in Nat \ {0} /\ LearnJitter \in Nat \ {0}
  /\ Guard \in Nat /\ BanTimeout \in Nat
  /\ Hash \in [Host -> Nat]
  /\ MaxPortHosts \in [Port -> Nat] /\ MaxVlanHosts \in Nat
  /\ Confs \subseteq [loop_protect : SUBSET Port, permanent_learn : SUBSET Port,
                      idle_dst : BOOLEAN]
  /\ MaxTime \in Nat \ {0, 1} /\ MaxEvents \in Nat

VARIABLES
  conf,          \* the configuration
  now,           \* the clock
  link,          \* the ports that have link
  events,        \* packet-ins and port status messages for the controller
  running,       \* dyn_running
  cache,         \* dyn_host_cache: Host -> [port, time]
  byPort,        \* dyn_host_cache_by_port: Port -> hosts
  oldest,        \* dyn_oldest_host_time
  lastExpired,   \* dyn_last_time_hosts_expired
  coldStart,     \* dyn_last_coldstart_time
  phys,          \* the ports with dyn_phys_up
  updated,       \* Port -> dyn_update_time
  lastBan,       \* Port -> dyn_last_ban_time
  src,           \* eth_src table: Host -> Port -> end of the rule, 0 if none
  dst,           \* eth_dst table: Host -> [port, until, idle]
  ban,           \* eth_src table: Port, NoPort for the VLAN -> end of the ban
  filter         \* classification table: dropped <<host, port>>

datapath == <<running, coldStart, phys, updated>>
controller == <<cache, byPort, oldest, lastExpired, lastBan>>
switch == <<src, dst, ban, filter>>
vars == <<conf, now, link, events, running, cache, byPort, oldest,
          lastExpired, coldStart, phys, updated, lastBan, src, dst, ban,
          filter>>

NoEntry == [port |-> NoPort, time |-> 0]
NoRule == [port |-> NoPort, until |-> 0, idle |-> 0]
Forever == 2 * (MaxTime + LearnTimeout + LearnJitter + Guard) + BanTimeout

Event ==
  [kind : {"packet"}, host : Host, port : Port, time : 1..MaxTime] \cup
  [kind : {"up", "down"}, host : {NoHost}, port : Port, time : {0}]

TypeOK ==
  /\ conf \in Confs
  /\ now \in 1..MaxTime
  /\ link \subseteq Port
  /\ events \in Seq(Event) /\ Len(events) =< MaxEvents
  /\ running \in BOOLEAN
  /\ cache \in [Host -> [port : Port \cup {NoPort}, time : 0..MaxTime]]
  /\ byPort \in [Port -> SUBSET Host]
  /\ {oldest, lastExpired, coldStart} \subseteq 0..MaxTime
  /\ phys \subseteq Port
  /\ updated \in [Port -> 0..MaxTime]
  /\ lastBan \in [Port -> 0..MaxTime]
  /\ src \in [Host -> [Port -> 0..Forever]]
  /\ dst \in [Host -> [port : Port \cup {NoPort}, until : 0..Forever,
                       idle : 0..Forever]]
  /\ ban \in [Port \cup {NoPort} -> 0..Forever]
  /\ filter \subseteq Host \X Port

-----------------------------------------------------------------------------
(***************************************************************************)
(* Rules that are in the switch now.                                       *)
(***************************************************************************)
HasSrc(h, p) == src[h][p] > now
HasDst(h) == dst[h].until > now
Banned(p) == ban[p] > now \/ ban[NoPort] > now

\* Time passes; the switch and the controller never do two things at once.
Clock == now < MaxTime /\ now' = now + 1

After(timeout) == IF timeout = 0 THEN Forever ELSE now + timeout

Abs(n) == IF n < 0 THEN -n ELSE n

_jitter_learn_timeout(h, p) ==
  IF p \in conf.permanent_learn THEN 0
  ELSE Max({Abs((LearnTimeout - LearnJitter) + (Hash[h] % LearnJitter)), Guard})

-----------------------------------------------------------------------------
(***************************************************************************)
(* The caches (vlan.py).                                                   *)
(***************************************************************************)
Cached(h) == cache[h] # NoEntry
hosts_count(p) == Cardinality(byPort[p])
VlanHosts == {h \in Host : Cached(h)}

\* Mutant: a host that moves stays in the cache of its old port.
add_cache_host_Stays(h, p, time) ==
  /\ cache' = [cache EXCEPT ![h] = [port |-> p, time |-> time]]
  /\ byPort' = [byPort EXCEPT ![p] = @ \cup {h}]

add_cache_host(h, p, time) ==
  /\ cache' = [cache EXCEPT ![h] = [port |-> p, time |-> time]]
  /\ byPort' = [q \in Port |-> IF q = p THEN byPort[q] \cup {h}
                               ELSE IF q = cache[h].port THEN byPort[q] \ {h}
                               ELSE byPort[q]]

\* expire_cache_host, for a set of hosts.
Expire(hosts) ==
  /\ cache' = [h \in Host |-> IF h \in hosts THEN NoEntry ELSE cache[h]]
  /\ byPort' = [p \in Port |-> byPort[p] \ {h \in hosts : cache[h].port = p}]

-----------------------------------------------------------------------------
\* The controller has just started the datapath: no rules, nothing learned.
Init ==
  /\ conf \in Confs
  /\ now = 2
  /\ link = Port
  /\ events = <<>>
  /\ running = TRUE
  /\ cache = [h \in Host |-> NoEntry]
  /\ byPort = [p \in Port |-> {}]
  /\ oldest = 0 /\ lastExpired = 0 /\ coldStart = 1
  /\ phys = Port
  /\ updated = [p \in Port |-> 1]
  /\ lastBan = [p \in Port |-> 0]
  /\ src = [h \in Host |-> [p \in Port |-> 0]]
  /\ dst = [h \in Host |-> NoRule]
  /\ ban = [p \in Port \cup {NoPort} |-> 0]
  /\ filter = {}

(***************************************************************************)
(* The network: hosts move, send and receive, and links fail.              *)
(***************************************************************************)

\* Host h, on port p by now, sends: a frame that no rule knows is also sent to
\* the controller.
Packet(h, p) ==
  /\ Clock
  /\ p \in link
  /\ <<h, p>> \notin filter /\ ~HasSrc(h, p) /\ ~Banned(p)
  /\ running /\ Len(events) < MaxEvents
  /\ events' = Append(events, [kind |-> "packet", host |-> h, port |-> p,
                               time |-> now])
  /\ UNCHANGED <<conf, link, datapath, controller, switch>>

\* A frame for host h goes by its rule in the eth_dst table.
Traffic(h) ==
  /\ Clock
  /\ HasDst(h)
  /\ dst' = [dst EXCEPT ![h].until = After(dst[h].idle)]
  /\ UNCHANGED <<conf, link, events, datapath, controller, src, ban, filter>>

LinkChange(p) ==
  /\ Clock
  /\ running /\ Len(events) < MaxEvents
  /\ link' = IF p \in link THEN link \ {p} ELSE link \cup {p}
  /\ events' = Append(events, [kind |-> IF p \in link THEN "down" ELSE "up",
                               host |-> NoHost, port |-> p, time |-> 0])
  /\ UNCHANGED <<conf, datapath, controller, switch>>

Tick ==
  /\ Clock
  /\ UNCHANGED <<conf, link, events, datapath, controller, switch>>

-----------------------------------------------------------------------------
(***************************************************************************)
(* The switch manager's messages (valve_switch_standalone.py).             *)
(***************************************************************************)

\* delete_host_from_vlan, for a set of hosts.
Deleted(hosts) ==
  [src |-> [h \in Host |-> IF h \in hosts THEN [p \in Port |-> 0] ELSE src[h]],
   dst |-> [h \in Host |-> IF h \in hosts THEN NoRule ELSE dst[h]]]

\* Mutant: rules for the port the host was on before are never deleted.
learn_host_on_vlan_port_flows_Keep(h, p, delete, refresh) ==
  LET timeout == _jitter_learn_timeout(h, p)
      idle == IF conf.idle_dst THEN timeout + Guard ELSE 0
  IN /\ src' = [src EXCEPT ![h][p] = After(timeout)]
     /\ dst' = IF refresh THEN dst
               ELSE [dst EXCEPT ![h] = [port |-> p, until |-> After(idle),
                                        idle |-> idle]]

learn_host_on_vlan_port_flows(h, p, delete, refresh) ==
  LET timeout == _jitter_learn_timeout(h, p)
      idle == IF conf.idle_dst THEN timeout + Guard ELSE 0
      left == Deleted(IF delete THEN {h} ELSE {})
  IN /\ src' = [left.src EXCEPT ![h][p] = After(timeout)]
     /\ dst' = IF refresh THEN left.dst
               ELSE [left.dst EXCEPT ![h] = [port |-> p, until |-> After(idle),
                                             idle |-> idle]]

\* del_port: the rules from and to port p.
DeletePort(p) ==
  /\ src' = [h \in Host |-> [src[h] EXCEPT ![p] = 0]]
  /\ dst' = [h \in Host |-> IF dst[h].port = p THEN NoRule ELSE dst[h]]
  /\ ban' = [ban EXCEPT ![p] = 0]

(***************************************************************************)
(* A packet-in of host h on port p, received at time t: the checks, in the *)
(* order of learn_host_on_vlan_ports, each with what it leaves to the next.*)
(***************************************************************************)
PortFull(h, p) ==
  ~Cached(h) /\ MaxPortHosts[p] # 0 /\ hosts_count(p) = MaxPortHosts[p]

VlanFull(h) ==
  ~Cached(h) /\ MaxVlanHosts # 0 /\ Cardinality(VlanHosts) = MaxVlanHosts

\* Mutant: a host that was learned may always move.
Permanent_Never(h) == FALSE

Permanent(h) == cache[h].port \in conf.permanent_learn

\* Mutant: whether the port changed is not looked at.
Valid_AnyTime(h, p) == cache[h].port = p

\* port_cache_valid: the port did not change since the host was learned on it.
Valid(h, p) == cache[h].port = p /\ updated[p] # 0 /\ updated[p] =< cache[h].time

Recent(h, p, t) == Valid(h, p) /\ t - cache[h].time < Guard

LoopBanned(h, p, t) ==
  /\ p \in conf.loop_protect
  /\ \/ lastBan[p] # 0 /\ t - lastBan[p] < Guard
     \/ Cached(h) /\ cache[h].port # p /\ t - cache[h].time < Guard

\* No host expired since the cold start, so there are no rules to delete.
NothingToDelete == lastExpired = 0 \/ lastExpired < coldStart

\* ban_rules
BanFull(h, p) ==
  /\ PortFull(h, p) \/ VlanFull(h)
  /\ ban' = [q \in Port \cup {NoPort} |->
       IF (q = p /\ PortFull(h, p)) \/ (q = NoPort /\ VlanFull(h))
       THEN After(BanTimeout) ELSE ban[q]]
  /\ UNCHANGED <<controller, src, dst, filter>>

\* _perm_learn_check
KeepPermanent(h, p) ==
  /\ ~PortFull(h, p) /\ ~VlanFull(h) /\ Permanent(h)
  /\ filter' = IF cache[h].port = p THEN filter ELSE filter \cup {<<h, p>>}
  /\ UNCHANGED <<controller, src, dst, ban>>

\* _learn_cache_check
KeepRecent(h, p, t) ==
  /\ ~Permanent(h) /\ Recent(h, p, t)
  /\ UNCHANGED <<controller, switch>>

\* _loop_protect_check
BanLoop(h, p, t) ==
  /\ ~PortFull(h, p) /\ ~VlanFull(h) /\ ~Permanent(h) /\ ~Recent(h, p, t)
  /\ LoopBanned(h, p, t)
  /\ lastBan' = [lastBan EXCEPT ![p] = t]
  /\ ban' = [ban EXCEPT ![p] = After(BanTimeout)]
  /\ add_cache_host(h, p, t)
  /\ UNCHANGED <<oldest, lastExpired, src, dst, filter>>

\* _learn_check
Learn(h, p, t) ==
  /\ ~PortFull(h, p) /\ ~VlanFull(h) /\ ~Permanent(h) /\ ~Recent(h, p, t)
  /\ ~LoopBanned(h, p, t)
  /\ LET delete == IF Cached(h) THEN cache[h].port # p ELSE ~NothingToDelete
     IN learn_host_on_vlan_port_flows(h, p, delete, Valid(h, p))
  /\ add_cache_host(h, p, t)
  /\ UNCHANGED <<oldest, lastExpired, lastBan, ban, filter>>

NextIsPacketIn == events # <<>> /\ Head(events).kind = "packet"

PacketIn ==
  /\ Clock
  /\ NextIsPacketIn /\ running
  /\ LET h == Head(events).host
         p == Head(events).port
         t == Head(events).time
     IN \/ BanFull(h, p)
        \/ KeepPermanent(h, p)
        \/ KeepRecent(h, p, t)
        \/ BanLoop(h, p, t)
        \/ Learn(h, p, t)
  /\ events' = Tail(events)
  /\ UNCHANGED <<conf, link, datapath>>

\* The datapath is down, or the packet-in is one too many this second.
Ignore ==
  /\ Clock
  /\ events # <<>>
  /\ NextIsPacketIn \/ ~running
  /\ events' = Tail(events)
  /\ UNCHANGED <<conf, link, datapath, controller, switch>>

\* port_status_handler; the cache keeps the hosts of a port that goes down.
PortStatus ==
  /\ Clock
  /\ events # <<>> /\ ~NextIsPacketIn /\ running
  /\ LET p == Head(events).port
         up == Head(events).kind = "up"
     IN /\ updated' = [updated EXCEPT ![p] = now]
        /\ phys' = IF up THEN phys \cup {p} ELSE phys \ {p}
        /\ IF p \in phys /\ ~up THEN DeletePort(p) ELSE UNCHANGED <<src, dst, ban>>
  /\ events' = Tail(events)
  /\ UNCHANGED <<conf, link, running, coldStart, controller, filter>>

NextOldest(left) == IF left = {} THEN now ELSE Min(left)

\* state_expire: expire_hosts_from_vlan and, unless idle_dst, the rules.
StateExpire ==
  LET before == now - LearnTimeout
      old == {h \in VlanHosts : cache[h].time < before /\ ~Permanent(h)}
      due == oldest = 0 \/ oldest < before
      left == {cache[h].time : h \in VlanHosts \ old}
  IN /\ Clock
     /\ running
     /\ Expire(IF due THEN old ELSE {})
     /\ oldest' = IF due THEN NextOldest(left) ELSE oldest
     /\ lastExpired' = IF due /\ old # {} THEN now ELSE lastExpired
     /\ LET rules == Deleted(IF due /\ ~conf.idle_dst THEN old ELSE {})
        IN src' = rules.src /\ dst' = rules.dst
     /\ UNCHANGED <<conf, link, events, datapath, lastBan, ban, filter>>

\* datapath_disconnect: the switch keeps its rules, the controller no host.
Disconnect ==
  /\ Clock
  /\ running
  /\ running' = FALSE
  /\ phys' = {}
  /\ updated' = [p \in Port |-> now]
  /\ Expire({h \in Host : cache[h].port \in Port})
  /\ UNCHANGED <<conf, link, events, coldStart, oldest, lastExpired, lastBan,
                 switch>>

\* datapath_connect: all rules are deleted first.
ColdStart ==
  /\ Clock
  /\ ~running
  /\ running' = TRUE
  /\ coldStart' = now
  /\ phys' = link
  /\ updated' = [p \in Port |-> now]
  /\ cache' = [h \in Host |-> NoEntry]
  /\ byPort' = [p \in Port |-> {}]
  /\ src' = [h \in Host |-> [p \in Port |-> 0]]
  /\ dst' = [h \in Host |-> NoRule]
  /\ ban' = [p \in Port \cup {NoPort} |-> 0]
  /\ filter' = {}
  /\ UNCHANGED <<conf, link, events, oldest, lastExpired, lastBan>>

Next ==
  \/ \E h \in Host, p \in Port : Packet(h, p)
  \/ \E h \in Host : Traffic(h)
  \/ \E p \in Port : LinkChange(p)
  \/ Tick
  \/ PacketIn \/ Ignore \/ PortStatus
  \/ StateExpire \/ Disconnect \/ ColdStart

Spec == Init /\ [][Next]_vars

-----------------------------------------------------------------------------
\* The two caches of the VLAN hold the same hosts on the same ports.
CachesAgree ==
  \A h \in Host, p \in Port : h \in byPort[p] <=> cache[h].port = p

\* Frames for a host go to the port that its frames are let in from, however
\* it moves, and whatever the caches have forgotten.  With loop protection a
\* banned host is cached on a port without rules and this does not hold.
RepliesFollowHost ==
  conf.loop_protect = {} =>
    \A h \in Host, p \in Port : HasSrc(h, p) /\ HasDst(h) => dst[h].port = p

\* A packet-in that is ignored because its host was learned a moment ago on
\* the same port is one of a host that has its rule: no host is stranded.
RecentIsInstalled ==
  \A h \in Host, p \in Port \ conf.loop_protect :
    ~Permanent(h) /\ Recent(h, p, now) => HasSrc(h, p)

\* "The maximum number of hosts that can be learnt on this vlan."
VlanHostsBounded == MaxVlanHosts # 0 => Cardinality(VlanHosts) =< MaxVlanHosts

\* A host learned on a permanent_learn port stays there until a disconnect.
PermanentStays ==
  [][\A h \in Host : cache[h].port \in conf.permanent_learn /\ running'
       => cache'[h] = cache[h]]_vars
=============================================================================
