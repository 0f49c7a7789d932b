---------------------------- MODULE ThreadProofs ----------------------------
(***************************************************************************)
(* Proofs for the components in which another thread runs beside the       *)
(* dispatch thread: the watcher of the configuration files (ConfigReload), *)
(* the pollers of Gauge, and the authenticator that calls back (Dot1x).    *)
(***************************************************************************)
EXTENDS ConfigReload, TLAPS

CONSTANTS DP, Configs, Initial, Watchers, MaxConns, MaxFlips, MaxQueue
VARIABLES watched, gen, cfg, ws, queue, conn, port, dpq, dpset, reqs, status,
          metric, missed, conns, flips
G == INSTANCE Gauge

CONSTANTS NDP, Ports, Mode, Mab, Nfv, AuthAcl, NoauthAcl, Assigned, Vlan,
          NativeVlan, Host, Hdrs, Enabled, MaxEvents
VARIABLES enabled, index, owner, running, up, native, tab, vrule, callback,
          auth, raced, stray, wired, events
D == INSTANCE Dot1x
-----------------------------------------------------------------------------
(***************************************************************************)
(* ConfigReload: what a switch that is served has been sent, for every set *)
(* of datapaths, of contents of the files and of edits.                    *)
(***************************************************************************)
\* The configuration that runs was accepted as a whole, unless none was loaded
\* yet, and its datapaths are those that have a Valve.
LiveIsGood == (live = <<>> \/ live \in Acceptable) /\ valves = Dps(live)

\* While files are read, rejected and reverted too, every switch that is served
\* has the configuration loaded last.
ServedInv ==
  /\ LiveIsGood /\ DOMAIN rules = Dp /\ run \subseteq Dp \cap valves
  /\ \A d \in run : rules[d] = live

LEMMA NothingServed == Dps(<<>>) = {}
BY DEF Dps

LEMMA InitServed == Init => ServedInv
BY NothingServed DEF Init, ServedInv, LiveIsGood

\* A step that neither loads nor serves.
LEMMA QuietServed ==
  ASSUME ServedInv, UNCHANGED <<live, valves, rules>>, run' \subseteq run
  PROVE  ServedInv'
BY DEF ServedInv, LiveIsGood

LEMMA LoadServed ==
  ASSUME ServedInv, load_configs
  PROVE  ServedInv'
<1> DEFINE c == Loaded(got)
<1>1. CASE c \in Acceptable
  <2>1. /\ live' = c
        /\ \E cold \in SUBSET (IF c = live THEN {} ELSE run \cap Dps(c)) : _apply_configs(c, cold)
    BY <1>1 DEF load_configs
  <2> HIDE DEF c
  <2>2. /\ valves' = Dps(c) /\ run' \subseteq run \cap Dps(c)
        /\ rules' = [d \in Dp |-> IF d \in run' THEN c ELSE rules[d]]
    BY <2>1 DEF _apply_configs
  <2>3. run' \subseteq Dp /\ DOMAIN rules' = Dp /\ \A d \in run' : rules'[d] = c
    BY <2>2 DEF ServedInv
  <2>4. LiveIsGood'
    <3>1. live' \in Acceptable /\ valves' = Dps(live')
      BY <1>1, <2>1, <2>2
    <3> QED
      BY <3>1 DEF LiveIsGood
  <2> QED
    BY <2>1, <2>2, <2>3, <2>4 DEF ServedInv
<1>2. CASE c \notin Acceptable
  <2>1. Reject /\ UNCHANGED <<run, chan, rules>>
    BY <1>2 DEF load_configs
  <2> QED
    BY <2>1, QuietServed DEF Reject
<1> QED
  BY <1>1, <1>2

LEMMA ConnectServed ==
  ASSUME ServedInv, NEW d \in Dp, _datapath_connect(d)
  PROVE  ServedInv'
<1>1. UNCHANGED <<live, valves>>
  BY DEF _datapath_connect, config
<1>2. CASE d \in valves
  <2>1. run' = run \cup {d} /\ rules' = [rules EXCEPT ![d] = live]
    BY <1>2 DEF _datapath_connect
  <2> QED
    BY <1>1, <1>2, <2>1 DEF ServedInv, LiveIsGood
<1>3. CASE d \notin valves
  BY <1>1, <1>3, QuietServed DEF _datapath_connect
<1> QED
  BY <1>2, <1>3

LEMMA NextServed == ServedInv /\ [Next]_vars => ServedInv'
<1> SUFFICES ASSUME ServedInv, [Next]_vars
             PROVE  ServedInv'
  OBVIOUS
<1>1. CASE files_changed \/ signal_handler
  BY <1>1, QuietServed DEF files_changed, signal_handler, config
<1>2. CASE _config_file_stat \/ _check_thread_exception \/ content_changed
  BY <1>2, QuietServed DEF _config_file_stat, _check_thread_exception, content_changed, config
<1>3. CASE request_reload_configs \/ revert_config \/ ReadVersion \/ dp_include \/ ReadInclude
  <2>1. UNCHANGED <<live, valves, run, rules>>
    BY <1>3 DEF request_reload_configs, revert_config, ReadVersion, dp_include, ReadInclude,
                Reject, Continue
  <2> QED
    BY <2>1, QuietServed
<1>4. CASE load_configs
  BY <1>4, LoadServed
<1>5. ASSUME NEW d \in Dp, _datapath_connect(d) PROVE ServedInv'
  BY <1>5, ConnectServed
<1>6. ASSUME NEW d \in Dp, _datapath_disconnect(d) \/ SwitchConnects(d) \/ SwitchLost(d)
      PROVE  ServedInv'
  BY <1>6, QuietServed DEF _datapath_disconnect, SwitchConnects, SwitchLost, config
<1>7. ASSUME NEW f, NEW c, Edit(f, c) PROVE ServedInv'
  BY <1>7, QuietServed DEF Edit, config
<1>8. CASE Restart
  BY <1>8, NothingServed DEF Restart, ServedInv, LiveIsGood
<1>9. CASE UNCHANGED vars
  BY <1>9, QuietServed DEF vars
<1> QED
  BY <1>1, <1>2, <1>3, <1>4, <1>5, <1>6, <1>7, <1>8, <1>9 DEF Next, Reload

\* Between reloads a switch that is served has been sent the configuration that
\* was loaded last, and that one was accepted (_apply_configs,
\* datapath_connect).
THEOREM ServesWhatItLoaded == Spec => []ServedAsLoaded
<1>1. ServedInv => ServedAsLoaded
  <2> SUFFICES ASSUME ServedInv, NEW d \in run
               PROVE  rules[d] = live /\ live \in Acceptable
    BY DEF ServedAsLoaded
  <2>1. d \in valves /\ valves = Dps(live) /\ rules[d] = live
    BY DEF ServedInv, LiveIsGood
  <2>2. live # <<>>
    BY <2>1, NothingServed
  <2> QED
    BY <2>1, <2>2 DEF ServedInv, LiveIsGood
<1> QED
  BY <1>1, InitServed, NextServed, PTL DEF Spec

-----------------------------------------------------------------------------
(***************************************************************************)
(* Gauge: what a poller may conclude from a pending reply, for every set   *)
(* of datapaths, watchers and configurations.                              *)
(***************************************************************************)
Fields == {"dp", "type", "db", "run", "rdp", "stop", "pend", "th", "heard", "early"}

\* A watcher that has sent, or waits with a reply pending, has had a reply since
\* only before it noted that it waits.
Truthful(r) ==
  /\ DOMAIN r = Fields
  /\ r.th = "sent" => ~r.heard \/ r.early
  /\ r.th = "wait" /\ r.pend => ~r.heard \/ r.early

PendInv == \A w \in DOMAIN ws : Truthful(ws[w])

LEMMA UpdatedTrue == ASSUME NEW r, Truthful(r) PROVE Truthful(G!Updated(r))
BY DEF Truthful, G!Updated, Fields

LEMMA StoppedTrue == ASSUME NEW r, Truthful(r) PROVE Truthful(G!Stopped(r))
BY DEF Truthful, G!Stopped, Fields

LEMMA StartedTrue == ASSUME NEW r, NEW c, NEW a, Truthful(r) PROVE Truthful(G!Started(r, c, a))
BY DEF Truthful, G!Started, Fields

LEMMA InitPend == G!Init => PendInv
BY DEF G!Init, PendInv

\* Every step keeps it, whatever thread takes it.
LEMMA NextPend == PendInv /\ [G!Next]_G!vars => PendInv'
<1> SUFFICES ASSUME PendInv, [G!Next]_G!vars
             PROVE  PendInv'
  OBVIOUS
<1>0. CASE UNCHANGED ws
  BY <1>0 DEF PendInv
<1>1. CASE G!_update_watcher
  <2>1. PICK of \in SUBSET DOMAIN ws :
          ws' = [w \in DOMAIN ws |-> IF w \in of THEN G!Updated(ws[w]) ELSE ws[w]]
    BY <1>1 DEF G!_update_watcher, G!Current
  <2> QED
    BY <2>1, UpdatedTrue DEF PendInv
<1>2. CASE G!stop
  BY <1>2, StoppedTrue DEF G!stop, PendInv
<1>3. CASE G!stop_active
  BY <1>3, StoppedTrue DEF G!stop_active, PendInv
<1>4. CASE G!joinall
  BY <1>4 DEF G!joinall, G!Set, PendInv, Truthful, Fields
<1>5. CASE G!start
  BY <1>5, StartedTrue DEF G!start, PendInv
<1>6. CASE G!swap
  <2> DEFINE new == G!NewWatchers(gen', G!X)
             left == {w \in DOMAIN ws : ws[w].th # "none"}
  <2>1. ws' = [w \in DOMAIN new \cup left |-> IF w \in DOMAIN new THEN new[w] ELSE ws[w]]
    BY <1>6 DEF G!swap
  <2>2. ASSUME NEW w \in DOMAIN new PROVE Truthful(new[w])
    BY <2>2 DEF G!NewWatchers, G!NewWatcher, Truthful, Fields
  <2> QED
    BY <2>1, <2>2 DEF PendInv
<1>7. ASSUME NEW w \in DOMAIN ws, G!Poller(w) PROVE PendInv'
  <2>1. CASE G!Wake(w)
    BY <2>1 DEF G!Wake, G!Set, PendInv, Truthful, Fields
  <2>2. CASE G!send_req(w)
    BY <2>2 DEF G!send_req, PendInv, Truthful, Fields
  <2>3. CASE G!SetPending(w)
    BY <2>3 DEF G!SetPending, PendInv, Truthful, Fields
  <2> QED
    BY <1>7, <2>1, <2>2, <2>3 DEF G!Poller
<1> QED
  BY <1>0, <1>1, <1>2, <1>3, <1>4, <1>5, <1>6, <1>7
     DEF G!Next, G!Dispatch, G!UnknownDatapath, G!_datapath_connect, G!_datapath_disconnect,
         G!PortStateUpdate, G!_load_config, G!hash, G!begin, G!Edit, G!Reconfigure, G!DpsetTells,
         G!SwitchDisconnects, G!SwitchConnects, G!PortChanges, G!SwitchReplies, G!vars

\* A poller reports that a switch did not respond only if it did not, or if the
\* answer came before the poller noted that it waits (GaugeThreadPoller.__call__).
THEOREM NoResponseTrue == G!Spec => G!NoResponseIsTrue
<1> DEFINE A == \A w \in DOMAIN ws :
                  G!no_response(w) /\ w \in DOMAIN ws' /\ ws'[w].th = "sent"
                    => ~ws[w].heard \/ ws[w].early
<1>1. PendInv => [A]_G!vars
  BY DEF PendInv, Truthful, G!no_response
<1>2. G!Spec => []PendInv
  BY InitPend, NextPend, PTL DEF G!Spec
<1>3. G!Spec => [][A]_G!vars
  BY <1>1, <1>2, PTL
<1> QED
  BY <1>3 DEF G!NoResponseIsTrue

-----------------------------------------------------------------------------
(***************************************************************************)
(* Dot1x: the VLAN of a port, for every set of datapaths, ports, hosts and *)
(* VLANs.                                                                  *)
(***************************************************************************)

\* None is Python's None: no VLAN, and not what a handler has computed.
NoneIsNone ==
  /\ D!NamesDistinct
  /\ \A q, msgs, vlan, stale :
       [port |-> q, msgs |-> msgs, vlan |-> vlan, stale |-> stale] # None

\* What handlers and dispatch thread share has its type, an address belongs to
\* a port, and only ports of datapaths that run are up.
Dot1xShape ==
  /\ native \in [D!Port -> Vlan \cup {None}]
  /\ DOMAIN vrule = D!Port
  /\ \A id \in DOMAIN owner : owner[id] \in D!Port
  /\ \A q \in up \cap D!Port : q[1] \in running
  /\ callback # None =>
       callback = [port |-> callback.port, msgs |-> callback.msgs,
                   vlan |-> callback.vlan, stale |-> callback.stale]

\* What is still to be sent sets the VLAN of port q.
Sets(q) == callback # None /\ callback.port = q /\ callback.vlan # None

\* Unless it is stale, it sets the VLAN that the port has; and a port that has
\* none to come has its VLAN, but for a stray one.
StillRight(q) == Sets(q) => callback.stale \/ callback.vlan = D!PortVlan(q)
Due(q) == Sets(q) \/ vrule[q] = D!PortVlan(q)

VlanInv ==
  /\ Dot1xShape
  /\ \A q \in D!Port : StillRight(q)
  /\ \A q \in (up \cap D!Port) \ stray : Due(q)

LEMMA VlanInvAssigned == VlanInv => D!VlanAsAssigned
BY DEF VlanInv, Due, Sets, D!VlanAsAssigned, D!Settled

LEMMA InitVlanInv == NoneIsNone /\ D!Init => VlanInv
<1> SUFFICES ASSUME NoneIsNone, D!Init PROVE VlanInv
  OBVIOUS
<1>1. /\ native = [q \in D!Port |-> None] /\ callback = None
      /\ vrule = [q \in D!Port |-> IF q \in up THEN NativeVlan ELSE None]
  BY DEF D!Init
<1>2. /\ \A q \in D!Port : StillRight(q)
      /\ \A q \in up \cap D!Port : Due(q)
  BY <1>1 DEF StillRight, Due, Sets, D!PortVlan
<1>3. \A q \in D!Port : q[1] \in running
  BY DEF D!Init, D!Port
<1>4. ASSUME NEW id \in DOMAIN owner PROVE owner[id] \in D!Port
  <2>1. owner = [i \in {D!Id(q) : q \in {r \in D!Port : r[1] \in enabled}} |->
                   CHOOSE q \in D!Port : q[1] \in enabled /\ i = D!Id(q)]
    BY DEF D!Init
  <2>2. \E q \in D!Port : q[1] \in enabled /\ id = D!Id(q)
    BY <2>1
  <2> QED
    BY <2>1, <2>2
<1> QED
  BY <1>1, <1>2, <1>3, <1>4 DEF VlanInv, Dot1xShape

\* What a port that goes down or is reloaded does to a callback: it is stale.
LEMMA Outdated ==
  ASSUME NoneIsNone, Dot1xShape, NEW P, D!Outdate(P)
  PROVE  /\ callback' # None <=> callback # None
         /\ callback # None =>
              /\ callback' = [port |-> callback'.port, msgs |-> callback'.msgs,
                              vlan |-> callback'.vlan, stale |-> callback'.stale]
              /\ callback'.port = callback.port /\ callback'.vlan = callback.vlan
              /\ callback.port \notin P => callback' = callback
              /\ callback.port \in P => callback'.stale
<1>1. CASE callback # None /\ callback.port \in P
  <2>1. callback' = [port |-> callback.port, msgs |-> callback.msgs,
                     vlan |-> callback.vlan, stale |-> TRUE]
    BY <1>1 DEF D!Outdate, Dot1xShape
  <2> QED
    BY <1>1, <2>1 DEF NoneIsNone
<1>2. CASE ~(callback # None /\ callback.port \in P)
  BY <1>2 DEF D!Outdate, Dot1xShape
<1> QED
  BY <1>1, <1>2

\* A handler has computed its messages: the VLAN they set is the one the port
\* has from now on.
LEMMA ComputedVlan ==
  ASSUME NoneIsNone, VlanInv, NEW q \in D!Port, NEW msgs, NEW vlan,
         callback = None, D!Computed(q, msgs, vlan), UNCHANGED <<owner, running, up, vrule>>,
         stray' = stray,
         NEW v \in Vlan \cup {None}, native' = [native EXCEPT ![q] = v],
         IF vlan = None THEN D!PortVlan(q)' = D!PortVlan(q) ELSE vlan = D!PortVlan(q)'
  PROVE  VlanInv'
<1>1. /\ callback' # None /\ callback'.port = q /\ callback'.vlan = vlan
      /\ callback' = [port |-> callback'.port, msgs |-> callback'.msgs,
                      vlan |-> callback'.vlan, stale |-> callback'.stale]
  BY DEF NoneIsNone, D!Computed
<1>2. Dot1xShape'
  BY <1>1 DEF VlanInv, Dot1xShape
<1>3. ASSUME NEW r \in D!Port PROVE StillRight(r)'
  BY <1>1 DEF StillRight, Sets
<1>4. ASSUME NEW r \in (up \cap D!Port) \ stray PROVE Due(r)'
  <2>1. vrule[r] = D!PortVlan(r)
    BY DEF VlanInv, Due, Sets
  <2>2. CASE r = q
    BY <1>1, <2>1, <2>2 DEF Due, Sets
  <2>3. CASE r # q
    <3>1. D!PortVlan(r)' = D!PortVlan(r)
      BY <2>3 DEF D!PortVlan, VlanInv, Dot1xShape
    <3> QED
      BY <2>1, <3>1 DEF Due
  <2> QED
    BY <2>2, <2>3
<1> QED
  BY <1>2, <1>3, <1>4 DEF VlanInv

LEMMA LogOffVlan ==
  ASSUME NoneIsNone, VlanInv, NEW id, NEW h, callback = None, D!LogOff(id, h),
         UNCHANGED <<owner, running, up, vrule, stray>>
  PROVE  VlanInv'
<1>1. PICK q \in D!Port : q = owner[id]
  BY DEF D!LogOff, VlanInv, Dot1xShape
<1>2. PICK msgs, vlan :
        /\ D!Computed(q, msgs, vlan) /\ native' = [native EXCEPT ![q] = None]
        /\ vlan = IF native[q] = None THEN None ELSE NativeVlan
  BY <1>1 DEF D!LogOff
<1>3. D!PortVlan(q)' = NativeVlan
  BY <1>2 DEF D!PortVlan, VlanInv, Dot1xShape
<1>4. IF vlan = None THEN D!PortVlan(q)' = D!PortVlan(q) ELSE vlan = D!PortVlan(q)'
  BY <1>2, <1>3 DEF D!PortVlan, NoneIsNone, D!NamesDistinct
<1>5. None \in Vlan \cup {None}
  OBVIOUS
<1> QED
  BY <1>2, <1>4, <1>5, ComputedVlan

LEMMA AuthVlan ==
  ASSUME NoneIsNone, VlanInv, NEW from, NEW h, NEW v \in Vlan \cup {None}, NEW f,
         D!auth_handler(from, h, v, f)
  PROVE  VlanInv'
<1>1. PICK id \in DOMAIN owner :
        /\ callback = None /\ UNCHANGED <<owner, running, up, vrule, stray>>
        /\ D!add_dot1x_native_vlan(owner[id], v)
        /\ D!Computed(owner[id], D!_get_login_flowmod(owner[id], h, f),
                      IF v \in Vlan THEN v ELSE None)
  BY DEF D!auth_handler, D!faucet
<1>2. PICK q \in D!Port : q = owner[id]
  BY <1>1 DEF VlanInv, Dot1xShape
<1>3. PICK msgs, vlan : D!Computed(q, msgs, vlan) /\ vlan = IF v \in Vlan THEN v ELSE None
  BY <1>1, <1>2
<1>4. PICK w \in Vlan \cup {None} :
        /\ native' = [native EXCEPT ![q] = w]
        /\ w = IF v \in Vlan THEN v ELSE native[q]
  BY <1>1, <1>2 DEF D!add_dot1x_native_vlan, VlanInv, Dot1xShape
<1>5. IF vlan = None THEN D!PortVlan(q)' = D!PortVlan(q) ELSE vlan = D!PortVlan(q)'
  BY <1>3, <1>4 DEF D!PortVlan, NoneIsNone, D!NamesDistinct, VlanInv, Dot1xShape
<1> QED
  BY <1>1, <1>3, <1>4, <1>5, ComputedVlan

\* What was computed is sent, unless the datapath has stopped: then its ports
\* are down.
LEMMA SendVlan ==
  ASSUME VlanInv, D!SendCallback PROVE VlanInv'
<1> DEFINE sent == callback.port[1] \in running /\ callback.vlan # None
<1>1. /\ callback # None /\ callback' = None
      /\ UNCHANGED <<owner, running, up, native>>
      /\ vrule' = IF sent THEN [vrule EXCEPT ![callback.port] = callback.vlan] ELSE vrule
      /\ stray' = IF ~sent THEN stray
                  ELSE IF callback.stale THEN stray \cup {callback.port}
                  ELSE stray \ {callback.port}
  BY DEF D!SendCallback, D!faucet
<1>2. Dot1xShape'
  BY <1>1 DEF VlanInv, Dot1xShape
<1>3. ASSUME NEW q \in D!Port PROVE StillRight(q)'
  BY <1>1 DEF StillRight, Sets
<1>4. ASSUME NEW q \in (up \cap D!Port) \ stray' PROVE vrule'[q] = D!PortVlan(q)'
  <2>1. StillRight(q) /\ q[1] \in running /\ q \in DOMAIN vrule
    BY DEF VlanInv, Dot1xShape
  <2>2. D!PortVlan(q)' = D!PortVlan(q)
    BY <1>1 DEF D!PortVlan
  <2>3. CASE Sets(q)
    BY <1>1, <2>1, <2>2, <2>3 DEF StillRight, Sets
  <2>4. CASE ~Sets(q)
    <3>1. sent => callback.port # q
      BY <1>1, <2>4 DEF Sets
    <3>2. q \notin stray /\ vrule'[q] = vrule[q]
      BY <1>1, <3>1
    <3> QED
      BY <2>2, <2>4, <3>2 DEF VlanInv, Due
  <2> QED
    BY <2>3, <2>4
<1> QED
  BY <1>1, <1>2, <1>3, <1>4 DEF VlanInv, Due

\* Handlers of the dispatch thread.
LEMMA PortUpVlan ==
  ASSUME NoneIsNone, VlanInv, NEW q \in D!Port, D!PortUp(q) PROVE VlanInv'
<1>1. /\ q[1] \in running /\ up' = up \cup {q} /\ UNCHANGED <<owner, running, native, callback>>
      /\ vrule' = [vrule EXCEPT ![q] = D!PortVlan(q)]
      /\ stray' = stray \ {q}
  BY DEF D!PortUp
<1>2. Dot1xShape'
  BY <1>1 DEF VlanInv, Dot1xShape
<1>3. ASSUME NEW r \in D!Port PROVE D!PortVlan(r)' = D!PortVlan(r) /\ StillRight(r)'
  BY <1>1 DEF D!PortVlan, VlanInv, StillRight, Sets
<1>4. ASSUME NEW r \in (up' \cap D!Port) \ stray' PROVE Due(r)'
  BY <1>1, <1>3 DEF VlanInv, Dot1xShape, Due, Sets
<1> QED
  BY <1>2, <1>3, <1>4 DEF VlanInv

\* What is computed stays what it was for ports that keep their VLANs.
LEMMA KeptCurrent ==
  ASSUME NoneIsNone, VlanInv, NEW P, D!Outdate(P),
         NEW q \in D!Port, q \in P \/ native'[q] = native[q]
  PROVE  StillRight(q)'
<1>1. Dot1xShape /\ StillRight(q)
  BY DEF VlanInv
<1>2. CASE q \in P
  BY <1>1, <1>2, Outdated DEF StillRight, Sets
<1>3. CASE native'[q] = native[q]
  <2>1. D!PortVlan(q)' = D!PortVlan(q)
    BY <1>3 DEF D!PortVlan
  <2> QED
    BY <1>1, <2>1, Outdated DEF StillRight, Sets
<1> QED
  BY <1>2, <1>3

LEMMA KeptDue ==
  ASSUME NoneIsNone, VlanInv, NEW P, D!Outdate(P),
         NEW q \in (up \cap D!Port) \ stray,
         native'[q] = native[q], vrule'[q] = vrule[q]
  PROVE  Due(q)'
<1>1. Dot1xShape /\ Due(q) /\ D!PortVlan(q)' = D!PortVlan(q)
  BY DEF VlanInv, D!PortVlan
<1> QED
  BY <1>1, Outdated DEF Due, Sets

LEMMA NfvVlan ==
  ASSUME NoneIsNone, VlanInv, NEW d \in D!DP, D!NfvUp(d) \/ D!NfvDown(d) PROVE VlanInv'
<1>1. /\ up' = up \cup {<<d, Nfv>>} \/ up' = up \ {<<d, Nfv>>}
      /\ UNCHANGED <<owner, running, native, vrule, callback, stray>>
  BY DEF D!NfvUp, D!NfvDown
<1>2. <<d, Nfv>> \notin D!Port
  BY DEF D!Port, NoneIsNone, D!NamesDistinct
<1>3. up' \cap D!Port = up \cap D!Port
  BY <1>1, <1>2
<1> QED
  BY <1>1, <1>3 DEF VlanInv, Dot1xShape, StillRight, Due, Sets, D!PortVlan

\* The ports P go down, and what was computed for them, and maybe for others,
\* becomes stale.
LEMMA DownVlan ==
  ASSUME NoneIsNone, VlanInv, NEW P \in SUBSET D!Port, NEW Q, P \subseteq Q, D!Outdate(Q),
         up' \subseteq up, up' \cap P = {},
         \A q \in up' \cap D!Port : q[1] \in running',
         native' = [q \in D!Port |-> IF q \in P THEN None ELSE native[q]],
         DOMAIN vrule' = D!Port, \A q \in D!Port \ P : vrule'[q] = vrule[q],
         stray \subseteq stray' \cup P, owner' = owner
  PROVE  VlanInv'
<1>1. native' \in [D!Port -> Vlan \cup {None}]
  BY DEF VlanInv, Dot1xShape
<1>2. Dot1xShape'
  BY <1>1, Outdated DEF VlanInv, Dot1xShape
<1>3. ASSUME NEW q \in D!Port PROVE StillRight(q)'
  BY KeptCurrent
<1>4. ASSUME NEW q \in (up' \cap D!Port) \ stray' PROVE Due(q)'
  <2>1. q \in (up \cap D!Port) \ stray /\ q \notin P
    OBVIOUS
  <2> QED
    BY <2>1, KeptDue
<1> QED
  BY <1>2, <1>3, <1>4 DEF VlanInv

LEMMA ReloadVlan ==
  ASSUME NoneIsNone, VlanInv, NEW now, D!Reload(now) PROVE VlanInv'
<1> DEFINE cold == (enabled \ now) \cup (now \ enabled)
<1>1. /\ running' = running \ cold /\ up' = {q \in up : q[1] \notin cold}
      /\ native' = [q \in D!Port |-> None]
      /\ stray' = {q \in D!Port : q \in stray \/ native[q] # None}
      /\ D!Outdate(D!Port) /\ vrule' = vrule
  BY DEF D!Reload
<1>2. ASSUME NEW id \in DOMAIN owner' PROVE owner'[id] \in D!Port
  <2>1. CASE owner' = owner
    BY <2>1 DEF VlanInv, Dot1xShape
  <2>2. CASE owner' = D!Owners(now, index')
    <3>1. \/ \E q \in D!Port : q[1] \in now /\ id = D!get_mac_str(index'[q[1]], q[2])
          \/ id \in DOMAIN owner /\ owner'[id] = owner[id]
      BY <2>2 DEF D!Owners
    <3>2. ASSUME NEW q \in D!Port, q[1] \in now, id = D!get_mac_str(index'[q[1]], q[2])
          PROVE  owner'[id] \in D!Port
      <4>1. owner'[id] = CHOOSE r \in D!Port :
                           r[1] \in now /\ id = D!get_mac_str(index'[r[1]], r[2])
        BY <2>2, <3>2 DEF D!Owners
      <4> QED
        BY <3>2, <4>1
    <3> QED
      BY <3>1, <3>2 DEF VlanInv, Dot1xShape
  <2> QED
    BY <2>1, <2>2 DEF D!Reload
<1>3. Dot1xShape'
  <2>1. native' \in [D!Port -> Vlan \cup {None}]
    BY <1>1
  <2> QED
    BY <1>1, <1>2, <2>1, Outdated DEF VlanInv, Dot1xShape
<1>4. ASSUME NEW q \in D!Port PROVE StillRight(q)'
  BY <1>1, KeptCurrent
<1>5. ASSUME NEW q \in (up' \cap D!Port) \ stray' PROVE Due(q)'
  <2>1. q \in (up \cap D!Port) \ stray /\ native[q] = None
    BY <1>1
  <2>2. native'[q] = native[q] /\ vrule'[q] = vrule[q]
    BY <1>1, <2>1
  <2> QED
    BY <1>1, <2>1, <2>2, KeptDue
<1> QED
  BY <1>3, <1>4, <1>5 DEF VlanInv

LEMMA ConnectVlan ==
  ASSUME NoneIsNone, VlanInv, NEW d \in D!DP,
         NEW on \in SUBSET ({q \in D!Port : q[1] = d} \cup {<<d, Nfv>>}), D!Connect(d, on)
  PROVE  VlanInv'
<1>1. /\ d \notin running /\ running' = running \cup {d} /\ up' = up \cup on
      /\ vrule' = [q \in D!Port |-> IF q[1] # d THEN vrule[q]
                                    ELSE IF q \in on THEN D!PortVlan(q) ELSE None]
      /\ stray' = {q \in stray : q[1] # d}
      /\ UNCHANGED <<owner, native, callback>>
  BY DEF D!Connect
<1>2. <<d, Nfv>> \notin D!Port
  BY DEF D!Port, NoneIsNone, D!NamesDistinct
<1>3. Dot1xShape'
  BY <1>1, <1>2 DEF VlanInv, Dot1xShape
<1>4. ASSUME NEW q \in D!Port PROVE D!PortVlan(q)' = D!PortVlan(q) /\ StillRight(q)'
  BY <1>1 DEF D!PortVlan, VlanInv, StillRight, Sets
<1>5. ASSUME NEW q \in (up' \cap D!Port) \ stray' PROVE Due(q)'
  <2>1. CASE q[1] = d
    <3>1. q \in on /\ vrule'[q] = D!PortVlan(q)
      BY <1>1, <2>1 DEF VlanInv, Dot1xShape
    <3> QED
      BY <1>4, <3>1 DEF Due
  <2>2. CASE q[1] # d
    <3>1. q \in (up \cap D!Port) \ stray /\ vrule'[q] = vrule[q]
      BY <1>1, <1>2, <2>2
    <3> QED
      BY <1>1, <1>4, <3>1 DEF VlanInv, Due, Sets
  <2> QED
    BY <2>1, <2>2
<1> QED
  BY <1>3, <1>4, <1>5 DEF VlanInv

LEMMA NextVlanInv == NoneIsNone /\ VlanInv /\ [D!Next]_D!vars => VlanInv'
<1> SUFFICES ASSUME NoneIsNone, VlanInv, [D!Next]_D!vars PROVE VlanInv'
  OBVIOUS
<1>1. ASSUME NEW q \in D!Port, NEW h, NEW v \in Vlan \cup {None}, NEW f,
             D!auth_handler(q, h, v, f)
      PROVE  VlanInv'
  BY <1>1, AuthVlan
<1>2. ASSUME NEW q \in D!Port, NEW h, D!logoff_handler(q, h) PROVE VlanInv'
  BY <1>2, LogOffVlan DEF D!logoff_handler, D!faucet
<1>3. ASSUME NEW s \in auth, D!SessionExpires(s) PROVE VlanInv'
  BY <1>3, LogOffVlan DEF D!SessionExpires, D!faucet
<1>4. CASE D!SendCallback
  BY <1>4, SendVlan
<1>5. ASSUME NEW q \in D!Port, D!PortUp(q) PROVE VlanInv'
  BY <1>5, PortUpVlan
<1>6. ASSUME NEW q \in D!Port, D!PortDown(q) PROVE VlanInv'
  <2>1. /\ {q} \in SUBSET D!Port /\ up' \subseteq up /\ up' \cap {q} = {}
        /\ native' = [r \in D!Port |-> IF r \in {q} THEN None ELSE native[r]]
        /\ stray \subseteq stray' \cup {q} /\ D!Outdate({q})
        /\ UNCHANGED <<owner, running>>
    BY <1>6 DEF D!PortDown, D!Forget
  <2>2. DOMAIN vrule' = D!Port /\ \A r \in D!Port \ {q} : vrule'[r] = vrule[r]
    BY <1>6 DEF D!PortDown, VlanInv, Dot1xShape
  <2>3. \A r \in up' \cap D!Port : r[1] \in running'
    BY <2>1 DEF VlanInv, Dot1xShape
  <2> QED
    BY <2>1, <2>2, <2>3, DownVlan
<1>7. ASSUME NEW d \in D!DP, D!NfvUp(d) \/ D!NfvDown(d) PROVE VlanInv'
  BY <1>7, NfvVlan
<1>8. ASSUME NEW d \in D!DP, D!Disconnect(d) PROVE VlanInv'
  <2> DEFINE Q == {q \in D!Port : q[1] = d}
             P == IF d \in enabled THEN Q ELSE {}
  <2>1. /\ P \in SUBSET D!Port /\ up' \subseteq up /\ up' \cap P = {}
        /\ native' = [r \in D!Port |-> IF r \in P THEN None ELSE native[r]]
        /\ stray \subseteq stray' \cup P /\ UNCHANGED <<owner, vrule>>
        /\ P \subseteq Q /\ D!Outdate(Q)
    BY <1>8 DEF D!Disconnect, D!Forget
  <2>2. DOMAIN vrule' = D!Port /\ \A r \in D!Port \ P : vrule'[r] = vrule[r]
    BY <2>1 DEF VlanInv, Dot1xShape
  <2>3. \A r \in up' \cap D!Port : r[1] \in running'
    BY <1>8 DEF D!Disconnect, VlanInv, Dot1xShape
  <2> HIDE DEF P, Q
  <2> QED
    BY <2>1, <2>2, <2>3, DownVlan
<1>9. ASSUME NEW d \in D!DP,
             NEW on \in SUBSET ({q \in D!Port : q[1] = d} \cup {<<d, Nfv>>}),
             D!Connect(d, on)
      PROVE  VlanInv'
  BY <1>9, ConnectVlan
<1>10. ASSUME NEW now, D!Reload(now) PROVE VlanInv'
  BY <1>10, ReloadVlan
<1>11. CASE UNCHANGED D!vars
  <2>1. UNCHANGED <<owner, running, up, native, vrule, callback, stray>>
    BY <1>11 DEF D!vars, D!faucet
  <2> QED
    BY <2>1 DEF VlanInv, Dot1xShape, StillRight, Due, Sets, D!PortVlan
<1> QED
  BY <1>1, <1>2, <1>3, <1>4, <1>5, <1>6, <1>7, <1>8, <1>9, <1>10, <1>11 DEF D!Next

\* Untagged frames of an 802.1X port that no handler is at work on get the VLAN
\* that the server assigned or the native one, through every sequence of logins,
\* logoffs, port changes, connections and reloads, those that fall between a
\* callback's computing and its sending included (auth_handler, logoff_handler,
\* port_down).  The two exceptions are those of VlanAsAssigned, until the port's
\* rule is next written: the port was up when a reload forgot its VLAN, or its
\* rule was written by a callback that computed it before the port went down or
\* was reloaded.
THEOREM VlansAsAssigned == NoneIsNone => (D!Spec => []D!VlanAsAssigned)
<1> SUFFICES ASSUME NoneIsNone PROVE D!Spec => []D!VlanAsAssigned
  OBVIOUS
<1>1. D!Init => VlanInv
  BY InitVlanInv
<1>2. VlanInv /\ [D!Next]_D!vars => VlanInv'
  BY NextVlanInv
<1> QED
  BY <1>1, <1>2, VlanInvAssigned, PTL DEF D!Spec
=============================================================================
