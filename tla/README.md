# A TLA+ verification project for Faucet

Faucet (`src/faucet/`) is an OpenFlow controller for networks of Ethernet
switches ("datapaths"). It reads one configuration, compiles it to flow tables,
learns hosts from packet-ins, routes, runs several switches as one stack, and
re-applies changed configurations with as little disruption as it can. This
directory models the parts of it whose correctness depends on the order in which
things happen, checks them with TLC on small instances and proves the invariants
that matter most with TLAPS for every instance.

## 1. The system

### Threads and events

Everything that changes state runs on the application's **dispatch thread**, one
handler at a time (`faucet.py`, an event queue per application), with these
exceptions, which are where interleavings come from:

* one **sender thread** for every datapath connection (`valve_send.py`);
* the **stat thread**, which polls the configuration files;
* the callback threads of BGP and of the 802.1X authenticator, which compute
  and send flows themselves;
* in Gauge, one **poller thread** for every kind of statistics of a datapath;
* the periodic timers, which only post events to the dispatch thread.

Outside the program are the switches, their OpenFlow channels, the framework's
DPSet, which says which connection a datapath has at the moment, the hosts and
partners on the ports, the BGP peer, the authenticator and its RADIUS server, and
who edits the configuration files.

### Components

| component | source | state | operations | hard because |
|---|---|---|---|---|
| Barrier-aware sender | `valve_send.py` | queue, stop flag, position in the batch, the Event of the barrier in flight | submit, stop; worker: get, send, register, wait, time out, discard, complete | two threads and a registry; time-out against late reply; stop at any point |
| Sender table, barrier registry | `valves_manager.py` 473-571 | `_senders`, `_barrier_waiters`, `config_applied` | register, complete, discard, cancel; submit_to_sender, stop_sender | entries outlive connections; locks are released between two halves of an operation |
| Application handlers | `faucet.py` | none of their own | features, connect, disconnect, barrier reply, port status, packet-in, reload, services | events of an old connection handled after a new one is up |
| Stack links | `valve_lldp.py`, `port.py` | state of each stack port, time of its last beacon | beacon sent, received, expiry | lost, late or miscabled beacons; each end is on its own |
| Stack graph | `stack.py` | one graph for each datapath | add or remove a link, rebuild on reload | copies updated one by one, running datapaths only |
| Stack root election | `valves_manager.py` 130-239, `stack.py`, `valve_stack.py` | the root in `meta_dp_state`, a copy in every datapath's configuration, health | maintain, nominate, reload with a new root | sampled health, two copies, restarts caused by the election itself |
| Stacked switching | `valve_stack.py`, `valve_switch_stack.py` | towards/away/pruned ports | reset_peer_distances, flood rules, edge learning | each datapath computes its part of one loop-free tree from its own graph |
| Host learning | `valve_switch_standalone.py` | host cache per VLAN and port, flow tables of the switch | learn, ban, expire, port down, flow removed | the cache and the switch's tables drift apart |
| Provisioning, reload | `valve.py`, `dp.py`, `valve_switch_standalone.py` | configuration, ports that are up, the switch's tables | cold start, port status, port description, warm and cold reload | rules are patched: what a patch forgets stays |
| LACP, MCLAG | `valve_switch_standalone.py`, `valve_switch_stack.py`, `port.py` | actor and selection state of each port | LACP packet, expiry, nomination of a datapath, reload | every port decides by itself from counts of other datapaths; a reload drops the state and keeps the rules |
| Routing | `valve_route.py`, `vlan.py` | RIB, neighbour cache, FIB | resolve with back-off, learn, expire, add and delete route | resolution races expiry, flaps and stale packet-ins |
| BGP | `faucet_bgp.py` | sessions of an external library | route announced, withdrawn | another thread, which computes from the caches and sends later |
| Config watcher, revert | `valves_manager.py` 43-76, 245-395 | file hashes and stats, last good configuration | poll, read, apply, reject, revert, die, restart | files that change while they are looked at, read or written |
| Parser, object model | `config_parser*.py`, `conf.py`, `dp.py`, `vlan.py`, `port.py`, `acl.py`, `router.py` | the configuration | create, resolve, finalize, compare | what one datapath resolves others must agree with |
| ACLs, meters, tunnels | `valve_acl.py`, `acl.py`, `valve_stack.py` | rules of each tunnel | compile, update paths | tunnels cross datapaths that are updated one by one |
| Tables, message order | `valve_of.py`, `valve_table.py`, `*_pipeline.py` | none | reorder, de-duplicate, trim | half executed batches |
| 802.1X | `faucet_dot1x.py`, `valve_acl.py` | MAC addresses that stand for ports, assigned VLANs | login, logoff, failure, port up and down, reset | callbacks of another thread; sessions per host, state per port |
| Gauge | `gauge*.py`, `watcher*.py` | watchers, poller threads, metrics | poll, reply, time out, connect, reload | a second application with threads of its own |
| Metrics, events, tools, REST | `faucet_metrics.py`, `faucet_event.py`, `prom_client.py`, `fctl.py`, `src/ofctl_rest/`, ... | counters | report | - |

### What makes them correct

* **Sending**: flows after a barrier wait for the switch to answer it; no reply
  is lost; nothing leaks; a stopped thread ends; a switch that stays connected
  ends up with the configuration in force.
* **Stack**: the graph a datapath forwards by follows the states of the ports; a
  silent port is taken out; all datapaths work with the same root, which does
  not flap and is healthy if one can be; their flood rules together form a tree.
* **Host learning**: a host's flows point where the cache says; a host that
  moved is not stuck; limits hold.
* **Provisioning**: whatever happened before, a switch has the rules that a cold
  start with the present configuration and links would give it.
* **LACP**: a port forwards if it is selected and its partner in sync, a LAG
  gets one copy of a flooded frame, one datapath serves a LAG, partners know.
* **Routing**: what is routed through a resolved neighbour is installed, a
  neighbour is given up after its probes and not before.
* **Configuration**: switches run what was loaded last; what is accepted can be
  installed; the last edit wins; a bad one is reverted.
* **ACLs, tunnels**: a packet goes where the first matching rule says, through a
  tunnel to its end; nothing gets through while rules are exchanged.
* **802.1X**: only hosts with a session get in, and those do.
* **Gauge**: one thread polls each kind; what it reports is so.

The hazards, each at its line and with the properties aimed at it, are listed in
`PROJECT.json`.

## 2. The modules

| module | models | state and actions |
|---|---|---|
| `BarrierSend` | the send pipeline of one datapath | one `pc` for each worker; `Get` … `Callback` are the steps of `BarrierAwareSender._run`, between which locks are free; `BarrierReply`, `Features`, `DatapathConnect`, `DatapathDisconnect`, `ReloadWarm`, `ReloadCold`, `Service` are handlers, `StopSender` the second half of `stop_sender`; `Connect`, `Drop`, `SwitchReply`, DPSet are the outside |
| `StackLink` | the state machine of stack ports and the graph of each datapath | beacons sent, right, wrong or lost (`fast_advertise`, `lldp_handler`, `Lose`), `fast_state_expire`, reload, connect and disconnect |
| `StackRoot` | the election of the root | `MaintainStackRoot` samples health and elects; reloads with other priorities, candidacies or datapaths; ports and datapaths fail and recover |
| `StackTree` | flooding through a stack | `PortChange` is one change of a port with `update_stack_topo` of every datapath in some order; `Send`, `Receive` follow one frame by the flood rules |
| `HostLearn` | host learning on a VLAN of one datapath | `PacketIn` with the five outcomes of `ban_rules` and the four learn checks, `PortStatus`, `StateExpire`, `Disconnect`, `ColdStart`; `Packet`, `Traffic`, `LinkChange` are the network |
| `Provision` | the rules of one datapath as its ports, its connection and its configuration change | the switch's tables as a function on match and priority; `Connect` (cold start), `PortStatus`, `PortDesc`, `ReloadWarm`, `ReloadCold`; an event queue between the switch and the handlers |
| `Lacp` | LACP on the datapaths of a stack | `lacp_handler`, `_lacp_state_expire`, port status, cold start, `ReloadConfig` (warm for some ports, cold for some datapaths), a new root; partners that fall silent or out of sync and LACP packets that are overtaken |
| `Route` | the route manager of one IP version | RIB, cache, unresolved queues, FIB; packets that wait in the queue (solicitations, answers, pings, traffic), `StateExpire`, `ResolveGateways`, flaps, connections, reloads; BGP callbacks that compute (`Announce`, `Withdraw`) and send later (`BgpSends`) |
| `Neighbor` | what a neighbour cache promises | learn, probe, give up, lose; implemented by `Route` |
| `ConfigCheck` | which configurations are accepted, the VLANs of tunnels, the layout of ACL tables | operators only |
| `ConfigReload` | the watcher, the reload and the datapaths it serves | `files_changed`, `_config_file_stat` and `content_changed`, which look for a file and then read it, errors that end the thread (`_check_thread_exception`) or the controller, `Restart`; reading file by file, hashing, `Reject`, revert file by file, `_apply_configs`; edits at any moment; switches that connect and disconnect |
| `FlowTable` | flow, group and meter messages, `valve_flowreorder`, and a switch | operators only: `Lookup`, `Process`, `Outputs` follow `clib/fakeoftable.py`, the switch of the unit tests |
| `Acl` | port ACLs and tunnels in a stack | `StackChange`, `PortChange`, `Connect`, `Disconnect`, `Reload`; messages to a switch are executed one by one |
| `Dot1x` | 802.1X on several datapaths | logins, logoffs, failures and MAB as callbacks that compute first and send later, ports and the NFV port, connections, `reset` on reload, which numbers the datapaths anew |
| `Gauge` | watchers, poller threads and the dispatch thread of Gauge | the operations of a handler (`todo`), among which the steps of pollers (`Wake`, `send_req`, `SetPending`) run |

`MC…` modules give the constants of a TLC run, `…Proofs` modules hold the
theorems; `ThreadProofs` those of the three components where another thread runs
beside the dispatch thread (`ConfigReload`, `Gauge`, `Dot1x`), `StackProofs`
those of what a stack agrees on (`StackRoot`, and `StackLink` as the instance
`L`). A definition that
is introduced by "Mutant:" is a plausible mistake; replacing the definition it
stands before by it makes TLC report the property `PROJECT.json` names with it.

What was decided in translating:

* **BarrierSend.** A connection is one `ryu_dp` object. xids are unique across
  connections, the application's event queue is FIFO, `send_msg` on a closed
  channel drops silently, as in the framework. Two connections of one switch may
  overlap half-open. Reading the stop flag and sending a message that is not a
  barrier is one step; a batch submitted to a sender that is stopping at that
  moment is lost either way, so the small window of `submit` outside
  `_senders_lock` is covered by that outcome. `Service` stands for periodic
  services and for the BGP and 802.1X threads.
* **StackLink.** Beacon age is counted in intervals up to the time-out.
  `fast_state_expire` also runs on datapaths that do not run, beacons are only
  processed by those that do. A graph is a set of links. One link with a
  datapath that only watches it stands for a stack, because links meet only in
  the test whether a graph is complete, which is left open.
* **StackRoot.** A port's health is counted in `Full`-ths. A change of root
  restarts every datapath (`dp.py:1751-1756`), and with it the LAGs (`Lacp`).
* **StackTree.** All datapaths run and frames are followed in a settled stack:
  both ends of a link agree and every datapath has recomputed from the graphs as
  they are. The changes before that come in any order, and within one change the
  datapaths recompute one after another, from graphs of peers that are partly
  old. `local` counts up to 2. The length of a shortest path is the least of all
  walks to the root, and the path goes, of the neighbours that are nearer, to the
  least by name. The properties are about frames from a datapath that has a path
  to the root (`Connected`); section 5 says what becomes of others.
* **HostLearn.** Every step takes a unit of time, so that a packet-in that waits
  is older than what overtakes it. A rule is its end; an idle rule is renewed by
  `Traffic`. One VLAN; no LAG, hairpin or external ports.
* **Provision.** A rule's instructions are what tells configurations apart: the
  VLANs, outputs or contents it was built from. A batch is executed whole, after
  the drops and reorderings of `valve_flowreorder`. A link that changes while
  the switch does not report changes is remembered (`missed`).
* **Lacp.** Expiry is possible whenever the partner is silent and no packet is on
  its way; a packet may arrive after its port went down. `told` is the frame
  last sent. A reload makes new ports (`dp_init`), to which `clone_dyn_state`
  copies that they are up, but nothing of LACP (`port.py:298-306`): the actor and
  the role of a port that did not change are then "not configured" until it is
  next heard of, while its rules stay. The properties say what still holds of
  such a port. Any ports may change their configuration and any datapaths start
  cold; the LAGs themselves stay as they are.
* **Route.** An address stands for its host route. Hosts of a VLAN use the
  addresses of `Claims`. Time is two flags of an entry, fresh and due, which
  `Age` and `RetryDue` change at any moment. One IP version at a time. A handler
  of the dispatch thread is one step. The BGP thread handles one path at a time:
  it changes the RIB and computes its message from the MAC that is cached
  (`faucet_bgp.py:133`, `137`) in one step, and sends it in another (`139`), any
  number of handlers later, with `pend` the message in between; that it may also
  read the RIB and the cache in the middle of a handler is not modelled. `late`
  (history) are the rules whose message a change of the MAC or the route overtook.
* **ConfigReload.** The hash of a file, and its attributes, are its contents.
  Parsing is `ConfigCheck` on what was read. Edits are not kept from the moments
  between two steps of a reload, nor from those of a check: that a file exists
  (`isfile`) is one step, and that it is opened, decoded and hashed the next; the
  reading of one file and the look for the next are one step, since an edit
  between them makes no difference to what is found. If the file is gone by then
  or is not UTF-8 the error ends the stat thread, which the other threads notice,
  or is raised in the reload: either kills the controller (`kill_on_exception`),
  and the service manager starts it again (`debian/faucet.service`) with nothing
  loaded.
* **Acl, FlowTable.** One ACL table. Port ACLs are not `exact_match`; a rule has
  one tunnel at most and no cookie with it; a tunnel ACL is the first of its
  port; a failover group is on one port; stack ports stay physically up. `told`
  and `was` are history: what a switch was sent last, and which configurations
  its rules may be from. The cases left out are those section 5 says are wrong.
* **Dot1x.** The authenticator calls back one call at a time. The properties
  about who gets in do not speak of ports in `raced` (history): those whose
  callback was overtaken by a change of the port, came from an authenticator that
  a reload has replaced, or was meant for a port that shares an address with it.
  The property about VLANs does; it does not speak of ports in `stray` (history):
  those whose VLAN a reload forgot, or whose rule is from a callback that computed
  it before the port went down or was reloaded. `wired` (history) is the address
  that the EAPOL rules of a port were written with (section 5).
* **Gauge.** A reply is matched by kind, as in the code. A file edited between
  reading and hashing sets `missed`.

## 3. The runs

| run | instance | holds |
|---|---|---|
| `reconnect` | 2 connections, 3 senders, 1 service, `send_msg` may raise | `HeldAtBarrier`, `NoLostWakeup`, `RegistryNoLeak` |
| `reapply` | 2 connections, 3 senders, 1 reload | `DeadSenderDropsChannel`, `StopEndsWorker`, `Converges` |
| `link_follow` | 3 datapaths, 1 link, time-out of 2 intervals | `GraphFollowsEnds`, `SilentPortGoes` |
| `root_elect` | 2 datapaths, 4 configurations | `RootKnown`, `RootMovesForCause`, `HealthyRootElected` |
| `tree_flood` | 4 datapaths, 6 links, 4 topologies | `NoDuplicate`, `AllReached`, `FloodEnds` |
| `learn_roam` | 2 hosts, 2 ports, 4 configurations, 10 units of time | `CachesAgree`, `RepliesFollowHost`, `RecentIsInstalled`, `PermanentStays` |
| `route` | 2 VLANs with a router, 2 hosts of one of them, 2 MACs, a BGP route, 2 packets, 1 disturbance | `ResolvedIsInstalled`, `ImplementsNeighbor`, `HostsSettle` |
| `provision` | 4 ports, 3 VLANs, 7 configurations, 3 changes, 2 events under way | `WarmIsCold`, `FloodsAsConfigured`, `LinksFollowed` |
| `lacp` | a LAG of 3 ports on 2 datapaths, 2 changes, reloads of a port or a datapath among them | `ForwardsIfSelected`, `FloodsToOneMember`, `RolesAgree`, `PartnerTold` |
| `config` | 2 files with 3 and 2 contents, 2 datapaths, 5 ACLs, 2 edits, restarts | `ServedAsLoaded`, `TunnelsAgree`, `RulesFit`, `LastEditWins`, `BadConfigReverted` |
| `acl` | a ring of 3 datapaths, 4 configurations, 2 changes | `AclAsConfigured`, `TunnelReturns`, `NothingLeaks` |
| `dot1x` | 2 datapaths, 3 ports, 2 hosts, 2 configurations, 5 events | `OnlyAuthenticated`, `AuthenticatedGetsIn`, `AttributedToItsPort`, `VlanAsAssigned` |

`MCGauge_watch.cfg` is a configuration to run by hand (330 thousand states, a
minute and a half): `PolledOnce`, `ExportsAsIs`, `NoResponseIsTrue`,
`PollingGoesOn`, `LastEditLoaded` hold for one datapath, three configurations,
two connections, one edit and one change of a port.

`TypeOK` of every module holds in the same configurations; it is not repeated in
them, and proved for `BarrierSend`, `StackLink`, `StackRoot`, `StackTree`,
`HostLearn` and `Lacp`. So is
`VlanHostsBounded` of `HostLearn`.

### Bounds, and why they are enough

* *Connections, senders* (2, 3): what goes wrong between connections goes wrong
  between the one before and the one now; each creates at most a sender for its
  features and one for its enter event, and either connection has one that is
  stopped or stale while the other works. A handler that would create one more is
  not taken. *Reloads* (1, in `reapply`): it falls between any two
  steps of either connection, whose cold-start batch is then of an older
  configuration than the one in force. The features batch is left out in `reapply` and is in
  `reconnect`. *Batches* have one or two messages, with the barrier at the end or
  in the middle, and may be empty.
* *Datapaths of a link* (3): both ends and one that is neither. The time-out of
  2 intervals leaves room for one lost beacon.
* *Topologies* (4 datapaths, 6 links): a doubled link whose ends number their
  ports in opposite order, at the root of a chain and of a star; a triangle,
  whose link off the tree must stay silent; a ring of four, whose far end has
  two equal paths. With and without reflection both occur.
* *Time in HostLearn* (10, learning time-out 5, guard 5): a flap fits into the
  guard time, and learning, expiry and learning again into the whole. Two events
  under way let a packet-in wait behind a port status or another packet-in.
* *Route*: two packets let one be overtaken by another, by a resolver's turn, by
  expiry or by the disturbance (a flap, a lost connection, a reload, or a BGP
  announcement). Both hosts are in one VLAN and both may be due in a cycle that
  has time for one of them, so the limit of entries in a cycle (`MaxPerCycle`)
  binds, and so does the one retry that a host has (`MaxRetries`). The RIB and
  cache limit (`Limit`) does not: there are not more hosts. With one disturbance a
  reload does not follow an announcement, nor does the run have static routes
  (the theorems cover both). The same instance with `IPV = 4` passes too.
* *Provision*: the configurations move a port between VLANs, remove and disable
  one, remove a VLAN, change MAC, addresses, ACL contents, mirror and base (which
  makes the reload cold); three changes reach any of them and back, with a port
  that flaps or a connection that is lost in between.
* *Lacp*: two ports on one datapath and one on the other: either datapath can
  have more ports, and two changes (a link, a partner, a connection, the root,
  a reload that changes one port or starts one datapath cold, or neither) move the
  nomination to and fro; links and partners change of one port on each side
  (`Changing`).
* *ConfigReload*: the contents of the top file are good ones with an optional and
  a required include, and one that is not UTF-8; those of the include are good, or
  refer to a datapath that does not exist. (One that is text and does not parse is
  rejected in the same place as one that is not text, when it is read.) Two edits
  fall anywhere in a check, a reload or a revert, or before and after a restart.
  The ACLs are two with tunnels, one of a VLAN, one that a VLAN and a port share,
  and one for egress with `exact_match`; `dp_acls` are in the instance. The last
  two are what section 5 says is wrong, so that both exceptions of `RulesFit` occur.
* *Acl*: a tunnel may go round the ring either way; two events are a change of
  path and another of the port, the connection or the configuration, and the
  messages of both are executed one by one in between.
* *Dot1x*: one port of each kind (MAC, `dot1x_acl`, `dot1x_dyn_acl`), two hosts
  on one port, and a datapath that a reload adds or removes in front of another:
  the other's index goes from 0 to 1 or back, and the address that stood for one
  of its ports stands for one of the other datapath's. Five events are enough for a
  reload, the ports on either side written anew, and a login and logoff.

Runs whose counters stop at a bound do not check for deadlock: when the counts are
used up the model rests. `link_follow`, `root_elect`, `tree_flood` and `route` do
check it.

### Fairness

* `reapply`: every worker step, the dispatch thread and DPSet are weakly fair,
  because the operating system schedules threads, `queue.get` returns when there
  is an item, and `Event.wait` returns after its time-out. The switch, its
  answers, drops, reloads and services are not fair: a barrier may never be
  answered.
* `link_follow`, `root_elect`: the periodic services and time are weakly fair;
  beacons, ports and datapaths are not.
* `tree_flood`: switches forward what they receive.
* `route`: the expiry service is weakly fair and time passes, so that a retry
  becomes due; hosts, packets and their handling are not.
* `lacp`: a partner that is alive keeps sending, `_lacp_state_expire` runs on its
  timer, and a packet sent again and again is handled again and again (strong
  fairness: single packets may be lost). Links, partners' moods and connections
  change only `MaxChanges` times.
* `config`: the stat thread, the steps of a check and of a reload, the threads that
  look for dead ones and the service manager's restart are weakly fair; switches
  that are configured connect (weakly), and a connection that is offered again
  and again is handled (strongly, as a switch may drop it before).
* Gauge: poller threads, the dispatch thread and DPSet are weakly fair, switches
  are not.

## 4. The proofs

All theorems hold for every value of the constants that satisfies the named
assumptions, which say no more than the sets the constants come from
(`HostLearn` adds that there are finitely many hosts, and that the clock can
reach 2; `Lacp` that ports are numbers; `Route` that the marks for "no entry" are
not entries; `Dot1x` that None is no VLAN and that an NFV port is no port with
802.1X hosts).

One theorem has a hypothesis about configurations, `OneRouteEach` of `Route`: a
destination has one gateway among the static and announced routes of a router's
VLANs. `del_route` says so ("Only one route with this exact destination
is supported", `valve_route.py:1133`), and it is needed: the rule of a destination
is found by its match, so a second gateway overwrites the rule of the first, while
`add_route` of the VLAN leaves the destination in the first gateway's set, and the
next update of the first gateway overwrites it again. `MCRoute` assumes it of its
own instance. `VlansAsAssigned` has the hypothesis `NoneIsNone`: the mark for
"nothing" is not what a handler computed, nor a VLAN.

* **BarrierSend.** `TypeInv` adds to `TypeOK` that sender objects not yet created
  are untouched and that a worker inside `_send_barrier` is at a barrier of its
  batch. `SafeInv` then says: a barrier that was sent is answered or cancelled,
  or it is the latest of its worker and the worker waits at it (`Held`); xids are
  below the next one and belong to one worker; the registry holds exactly
  the barriers workers are inside of; an answered barrier still in the registry
  has its reply in the event queue (`Pending`). `HeldAtBarrier`, `NoLostWakeup`
  and `RegistryNoLeak` follow. `DeadInv`, for `SendMayRaise = FALSE`, relates an
  exited worker to a stop sentinel or a closed channel and gives
  `DeadSenderDropsChannel`.
* **StackLink.** Types; `GraphFollowsEnds` is inductive with them, for any
  topology (`LinkTypes` and `GraphsFollowEnds` of `StackProofs`, where the
  hypotheses on the constants are `L!Topology` and `L!Timeout`).
* **StackRoot.** `RootKnown` is inductive with `conf \in Confs`, for any number
  of datapaths. `StackRootTypes` needs that among candidates one is least by
  health, priority and name, which is derived from the well-foundedness of `<`.
  From the types, `RootStays` is the action property `RootMovesForCause`: every
  step other than an election leaves the root alone, and an election moves it
  only with the cause the property names.
* **StackTree.** `NeverTwice` and `EveryoneReached` hold for any number of
  datapaths, any links and any numbering of ports. First the graph: a datapath
  with a path has one of at most `NDP` nodes (`Neighbours` bounds walks by a
  pigeonhole), its next hop is nearer by one (`NextHops`), and what
  `is_in_path` asks of a neighbour is whether this datapath is its next hop
  (`InPathIsNextHop`). Then the links: each datapath computes its ports by
  itself, and of the links between a datapath and its next hop both ends come to
  use the same one, `Main` (`MainPort`, `OneMain`, `PrunedIs`); `FloodsTo` says
  where a settled datapath sends what it receives. Last the frame. `NoDuplicate`
  and `AllReached` are about the end, the invariant `Way` about every moment:
  copies are on links of the tree; a datapath the frame came to has passed it on,
  or one that can not be dropped is on its way (`PassedOn`); a broadcast comes to
  a datapath over one link, from one side, and once (`Once`, `Outward`,
  `ClimbsOnce`). Without reflection the side is that of the sender, with
  reflection that of the root (`Before`). Of datapaths that were not reached when
  nothing is on its way one would be nearest, and the one before it was reached:
  so there is none (`ReachesAll`).
* **HostLearn.** `LearnTyping` needs that idle time-outs are bounded by what
  `_learn_host_timeouts` computes, and that `min` of the cache exists, which is
  derived from the well-foundedness of `<` on the naturals. `CachesStayTogether`
  and `VlanLimitHolds` are inductive over a summary of what any step does to the
  caches. `PastInv` (everything received, learned or expired is of the past; a
  datapath that is down has nothing cached) serves the others:
  `PermanentHostsStay`; `RepliesAlwaysFollow`, by `CachedRules` (rules of a
  cached host are for its cached port) and `ForgottenRules` (a host that is not
  cached has no rules, unless some host expired since the cold start, and then
  learning deletes first); `RecentHostsInstalled`, by `InstalledInv` (a valid
  cache entry has a source rule to the end of the guard time).
* **Lacp.** `ForwardsIfSelected` is not inductive alone: `LagInv` adds that ports
  whose actor is up are on running datapaths and configured, and `FloodIsCurrent`,
  that the members flooded to are those the present states and roles give, or,
  where these give none, at most one of a LAG, whose state a reload dropped
  (`FloodFits`). As the least member of a LAG exists, `FloodsToOneMember` follows.
  Reloads and changes of root are steps like any other.
* **Route.** `RouteImplementsNeighbor` is a refinement: the cache, with the probes
  of an entry, is the abstract cache, and connection and configuration its epoch.
  A handler touches many entries and several times (`_expire_gateway_flows`
  inside a cycle, a flap of a port, a reload); the lemmas about `Settled` and
  `AtMostOne` show that what it does to each entry is one abstract step.
  `RouteInv` holds what the mapping needs: an entry has a port if and only if it
  has a MAC, and lost and returned connections alternate in the event queue.
  `ResolvedRulesInstalled` is about the rules. `RuleInv` adds to
  `ResolvedIsInstalled` that the RIB is sound (`RibSound`: a gateway has its
  route among its destinations, and what is routed is a host of the VLAN's own
  subnet, or a configured or announced path), that what BGP announced is in it
  (`BgpRouted`: a reload takes it over) and that the FIB has a place for every
  VLAN and destination (`FibShape`). A handler works on one gateway after another, and between
  two of them the invariant does not hold; `InStep(S, X)` says that it holds of
  state S except of the cache entries X still to be done, and the lemmas follow
  the handlers' calls (`Learned`, `Updated`, `Probed`, `Expired`, `MissingAdded`)
  from one `InStep` to the next, through loops over any set of hosts. `Apart`,
  that two gateways routed together share no destination, is what keeps the
  rules of the one while those of the other are rewritten. Rules in `late` and those
  of the message that BGP has yet to send are excepted throughout (`Right` is the
  FIB with those rules as they should be); a handler that writes a rule in `late`
  makes it right again.
* **Provision.** `PortsFollowLinks`: `LinksFollowed` says that ports are right
  once no message waits, and is not inductive, for it says nothing while one
  waits. `LinksInv` does: `Queue` says what may wait behind what (only port
  statuses while the switch reports, and a connection event that waits carries
  the links as they are), `PortsInv` that what is known of a port, or the last
  message that waits about it, is the state of its link, and that ports known to
  be up are those provisioned. The exception
  `EverAlways` was found by the proof: a port that a configuration takes as always
  up stays up, whatever its link, when a warm reload ends that, until the switch
  next reports it.
* **ConfigReload.** `ServedInv` says of all moments of a reload, not only of those
  between reloads, that a served switch has what was loaded last; `LiveIsGood`
  that this was accepted and that Valves are those of its datapaths. After a
  restart nothing is loaded and nobody is served.
* **Dot1x.** `VlansAsAssigned`: `VlanAsAssigned` speaks of settled moments, and
  a callback computes first and sends later. `VlanInv` says of every moment that
  a callback under way that sets a VLAN sets the one its port has, unless the port
  went down or was reloaded since (`StillRight`), and that a port that is up has the
  rule of its VLAN or such a callback to come (`Due`), except for those in `stray`.
* **Gauge.** `NoResponseTrue`: `PendInv` relates `reply_pending` to what came
  since the request, through every order of `send_msg`, the reply and the
  assignment of the flag.

Only model-checked: everything under fairness (`StopEndsWorker`, `Converges`,
`SilentPortGoes`, `HealthyRootElected`, `FloodEnds`, `HostsSettle`, `RolesAgree`,
`PartnerTold`, `LastEditWins`, `BadConfigReverted`, `PollingGoesOn`,
`LastEditLoaded`), which is out of the prover's reach; and what needs induction
over data: all of `Acl`, and `OnlyAuthenticated`, `AuthenticatedGetsIn` and `AttributedToItsPort` of
`Dot1x`, where a switch executes a sequence of messages (a fold of `FlowTable`);
`WarmIsCold` and `FloodsAsConfigured` of `Provision`, which compare tables that
result from such sequences, of a warm and of a cold start (and hold, by section 5,
for the changes of the instance and not for every change of configuration); `TunnelsAgree` and
`RulesFit` of `ConfigReload`, about what `ConfigCheck` numbers and lays out in
order. Those of `Dot1x` and `ConfigReload` depend on the ACLs and the datapaths as
well: there are configurations for which they do not hold (section 5), so that no
theorem could state them for every value of the constants. The instances of section 3
are what is known of those.

## 5. What the models showed besides

What the code does here was met while modelling. Where a property would fail, the
model's instance or the property excludes the case, and section 2 says so.

*Sending*
* `submit` says that the callback is not invoked if the channel is torn down in
  the middle of a batch (`valve_send.py:72-73`). A cancelled barrier at the end
  of a batch lets it complete: the callback runs.
* `config_applied` may be set by the completion of an older configuration
  (`valves_manager.py:353-359`), is set on connection before the cold-start
  flows are queued (`valves_manager.py:495-499`), and is reset by a configuration
  that is then rejected (`valves_manager.py:315`).
* An exception out of `send_msg` ends the worker (`valve_send.py:105`) and leaves
  the sender in the table and its channel open: later batches are queued for nobody
  until the switch reconnects. `DeadSenderDropsChannel` is about time-outs.
* `stop_sender` cancels barriers first and stops the sender after; a worker that
  was released in between can register its next barrier and sleeps the whole
  time-out, where `docs/block_on_barrier.rst:86-87` says it is released. It ends
  all the same (`StopEndsWorker`).

*Stack*
* Graphs of datapaths may disagree: one that is down is not told of a change, and
  when one end of a link is GONE and the other flaps, the flapping end puts the
  link back into all graphs (`valve_lldp.py:183-189`); `GraphFollowsEnds`
  therefore says "some end".
* A datapath with a configured LLDP `system_name` fails its peer's cabling check,
  which compares with the datapath's name (`valve.py:745-747`,
  `valve_lldp.py:112`).
* `stack.py:225`, "No LACP ports in node, so default to 100% UP", is not what the
  ranking of candidates uses: there the share is 0.
* A datapath that is cut off from the root chooses among all its ports, as none
  has a path (`valve_stack.py:69-97`). Two such datapaths that redundant links
  join choose each other as the way to the root; if the ends number their ports
  in opposite order they choose different links, and ports chosen towards the
  root are not pruned (`valve_stack.py:344-352`). Without reflection a broadcast
  of their hosts then comes twice and goes round until a link changes.
* Without reflection an unknown unicast is not pruned
  (`valve_switch_stack.py:305-316`), and a datapath sends what comes from the
  root back on its other links to it (`chosen_towards_ports` without the port it
  came in on, `valve_switch_stack.py:130-172`, `578-602`). If redundant links
  join two pairs of datapaths, the copies multiply and never end. `FloodEnds`
  excludes it.
* While a stack is not settled, with three links each up at one end only, a
  frame for an unknown host can go round a triangle until the ports change again.

*Learning*
* The destination rule of a host may idle out while its source rule is refreshed:
  its replies are flooded.
* A loop-protect ban caches a host on a port without installing rules
  (`_loop_protect_check`), so with `loop_protect` a later refresh can leave the
  destination rule at the old port.
* A host already cached may move to a port at its `max_hosts`; since the limit is
  tested with `==`, the port then has no limit.
* `permanent_learn` hosts get no rules again after a flap of their port
  (`_perm_learn_check` against the kept cache), and their destination rule has an
  idle time-out although the source rule has none.
* A learning time-out of 1 makes the jittered time-out 0, which never expires.

*Provisioning*
* A VLAN with external ports only floods from one external port to another. A
  disabled `loop_protect_external` port that comes up counts as the one that is
  up, but the rules of others are not built again.
* Warm reloads leave: the "arp" rules when the last restricted port is removed;
  rules without `set_external_forwarding` when the first external port is added;
  with `use_classification`, VIP rules of a removed VLAN; no exact delete of a
  port's flood rule if it changes restriction and tagging at once.
* With `opstatus_reconf: False` a port that is down during a warm reload is never
  added again (`valve.py:660-666`, `1671-1679`; `docs/configuration.rst:541-544`).
* A link that changes between the features reply and the cold start is missed.
* A port that is taken as always up (`opstatus_reconf: False`) stays up, whatever
  its link, when a warm reload ends that, until the switch reports it again
  (`EverAlways`).
* A changed meter takes the flows that use it with it; they are not installed
  again.

*Routing*
* Gateways that have lost their last route are still resolved
  (`vlan.py:435-459`); `add_route` with another next hop leaves the destination in
  the old gateway's set (`vlan.py:444-450`).
* A BGP withdrawal deletes from the RIB of the BGP VLAN, `add_route` had stored the
  route in that of the next hop's VLAN.
* An answer that arrives after its entry expired makes a cached neighbour without
  route, whose later host route may meet a stale rule; a stale packet-in puts the
  blackhole rule over a resolved host.
* `del_vlan` computes messages that are not sent (`valve_route.py:656-683`), and a
  cold start drops the caches but keeps the RIB.
* The BGP thread computes a rule and sends it without a lock
  (`faucet_bgp.py:133-139`). If a handler has changed the MAC of the gateway in
  between, the old one goes into the FIB, over the new one; if it has expired the
  gateway, a rule comes back that nobody accounts for. As the manager sends only
  what changed, the rule stays until the MAC next changes, the entry expires or
  the switch reconnects.

*LACP*
* A warm reload that changes one port drops the actor state and the role of all
  others (`dp_init`, `clone_dyn_state`, `port.py:298-306`), and sends no rules for
  them: until a port is next heard of, it forwards and is flooded to as before, its
  role is "not configured", and it does not count in nominations. If its partner
  has fallen silent it stays so: `_lacp_state_expire` looks only at ports that are
  up, so that the port is never taken out of forwarding.
* A tie between datapaths other than the root returns a list of IDs
  (`valve_switch_stack.py:468-469`), where the docstring says "Lowest DPID": no
  datapath is nominated.
* Ports that are out of sync in any LAG make their datapath a candidate for every
  LAG, and their number decides nothing. They never expire.
* A packet that arrives after its port went down marks it `dyn_lacp_up`. An answer
  has the flags of the role before the packet.

*Configuration*
* Datapaths give tunnels different VIDs if an ACL has two automatic tunnels and
  they resolve the ACLs in different orders, or if an explicit `tunnel_id` is
  another's automatic one (`dp.py:1063-1127`).
* `exact_match` of a table is that of its last ACL; an ACL used by a VLAN and a
  port keeps the matches of its last build (`acl.py:238-310`), so that a rule may
  fail `_verify_flowmod` when it is installed.
* BGP is refused with more than one datapath, because `if self.stack_ports` tests
  a method (`dp.py:909`); the check that a tunnel does not end on a stack port
  never fires.
* A loaded file that is edited to what is not UTF-8, or is removed between `isfile`
  and `open` (`config_parser_util.py:199-207`), does not count as a bad file, as it
  would when it is read (`read_config`): the check raises, in the stat thread, whose
  end `_check_thread_exception` takes for a reason to kill the controller, or in the
  reload, under `kill_on_exception`. Nothing is rejected or reverted, and after the
  restart there is no good configuration to revert to: the controller then runs
  without one until the file is put right.
* A bad optional include makes the watcher reload at every poll. A revert may
  overwrite a good edit, and does not remove a bad include that is new.

*ACLs and tunnels*
* A tunnel rule's priority comes from its index in its own ACL, not in the port's
  list (`valve_acl.py:799-843`; `docs/configuration.rst:468-469`). A tunnel rule with a
  cookie of its own keeps its non-strict delete in the batch.
* Ports that share a failover group delete each other's flows when it is added
  again.
* If the path is lost, the tunnel's rules stay; a removed tunnel leaves its rules
  on transit datapaths; a transit datapath that reconnects has no tunnel rules
  until the stack changes (`valve_stack.py:433-437`); a reload that moves a
  tunnel's end and keeps its VID changes the source datapath only.
* A rule with two tunnels, or `dp_acls` with several tunnel ACLs, raises KeyError.

*802.1X*
* A login on a `dot1x_acl` port deletes the `noauth_acl` rules non-strictly
  (`valve_acl.py:602-628`), with them the redirection of EAPOL, so that the
  host's logoff is not seen (`docs/configuration.rst:378`); the login of a second
  host deletes the rules of the first.
* A callback that is overtaken by a flap of its port leaves a rule that lets the
  host in, and the VLAN it had computed. `clone_dyn_state` (`port.py:298`) forgets
  the assigned VLAN, whose rule stays.
* A reload that adds or removes a datapath shifts the index of those behind it,
  and with it the addresses that stand for their ports, while their switches keep
  the rules with the old ones (`faucet_dot1x.py:355-358`). A host that logs in
  through such a rule is taken for one behind the port of another datapath, where
  it is then let in, until its own port or the NFV port next comes up.
* Each reload makes a new authenticator, beside the one there is, whose sessions
  still expire.

*Gauge*
* The Prometheus meter poller asks for port statistics (`gauge_prom.py:142`).
* A reply between `send_req` and `reply_pending = True` is reported as missing
  (`gauge_pollers.py:198-203`), a late one hides a missing one.
* The file is read and hashed separately (`config_parser.py:308-315`); a first load
  that fails leaves nothing to watch. A replaced watcher of port states is not
  stopped.

## 6. Not modelled, and the plan

Not modelled: the byte layouts of packets and messages, table features, the value
checks of the configuration that concern one value only, metrics, the event
socket, command line tools, the REST interface: data without a protocol. Outside:
BGP speakers, the authenticator, the framework.

What is left, in order of use:

1. Edge learning in stacks (`HostLearn` across the datapaths of `StackTree`),
   learning on LAGs, the flow-removed variant of learning.
2. A composition of `StackTree` with the reload sequence, in which a datapath
   computes distances while its peers hold the graphs of the new configuration
   (`valve_stack.py:64`).
3. `exact_match` and egress ACLs, VLAN ACLs with tunnels in `Acl`.
4. The event notifier (`faucet_event.py:100-115`): a bounded queue between the
   dispatch thread and the sender of events.
5. Theorems under conditions on the configuration: `RulesFit` for any
   configuration, with the exceptions that `RulesFit` has now (a table with
   `exact_match`, an ACL that a VLAN shares with something else); `TunnelsAgree` when
   no tunnel has an explicit `tunnel_id` and no ACL has two tunnels that are numbered
   automatically. `NothingLeaks` of `Acl`, once
   the lookup in a table is related to the rules without the order of the messages. An
   abstract switch for `HostLearn` (a map from hosts to ports).
