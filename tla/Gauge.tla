-------------------------------- MODULE Gauge -------------------------------
(***************************************************************************)
(* Gauge: watchers of datapaths, each of one kind of statistics and one    *)
(* database.  The first watcher of a kind polls its datapath from a thread *)
(* of its own; all watchers of the kind record the answers.  Watchers come *)
(* and go as datapaths connect and disconnect and as the configuration is  *)
(* reloaded (gauge.py, gauge_pollers.py, watcher.py, gauge_prom.py).       *)
(*                                                                         *)
(* The dispatch thread takes an event from the queue and works through     *)
(* operations, todo, among which other threads run.  A datapath that       *)
(* connects or disconnects is reported through dpset, that is, after other *)
(* events of its connection.                                               *)
(***************************************************************************)
EXTENDS Naturals, FiniteSets, Sequences, SequencesExt

CONSTANTS
  DP,        \* datapaths that Faucet's configuration knows
  Configs,   \* contents of the configuration file
  Initial,   \* those it may have when Gauge starts
  Watchers,  \* content -> sequence of watchers [dp, type, db]
  None,
  MaxConns,  \* bound: connections
  MaxEdits,  \* bound: edits of the file and SIGHUPs
  MaxFlips,  \* bound: changes of port states
  MaxQueue   \* bound: events of switches in the queue

PollTypes == {"port_stats", "flow_table", "meter_stats"}
PortState == {"up", "down"}
MaxLoads == 1 + MaxEdits

VARIABLES
  file, watched, \* the file's content; the one the config watcher has hashed
  gen, cfg,      \* load in use (0: none yet) and its content
  ws,            \* the watchers: <<gen, i>> -> record
  queue, todo,   \* of the dispatch thread
  conn, port,    \* datapath -> connection or 0; state of its port
  dpq, dpset,    \* events of connections for dpset; the connections it has
  reqs,          \* requests that switches have not answered
  status, metric,\* Prometheus: dp_status; port state of a datapath
  missed,        \* was the file edited between reading and hashing? (history)
  conns, edits, flips \* count towards the bounds

dispatch == <<queue, todo>>
config == <<file, watched, gen, cfg, missed>>
net == <<conn, port, dpq, dpset>>
counts == <<conns, edits, flips>>
vars == <<config, ws, dispatch, net, reqs, status, metric, counts>>

-----------------------------------------------------------------------------
(***************************************************************************)
(* Watchers.                                                               *)
(***************************************************************************)

\* watcher_factory and check_config: kinds of statistics and databases.
Valid(c) ==
  \A i \in DOMAIN Watchers[c] :
    /\ Watchers[c][i].type \in PollTypes \cup {"port_state"}
    /\ Watchers[c][i].db \in {"text", "prometheus"}

\* The statistics that a poller asks for.
Asks(w) ==
  IF ws[w].type = "meter_stats" /\ ws[w].db = "prometheus" THEN "port_stats"
  ELSE ws[w].type

Is_thread(w) == ws[w].type \in PollTypes

\* A watcher of load g: run, _running; rdp, the connection; stop, the stop event; pend,
\* reply_pending; th, where its thread is (none: no thread); heard: has it had
\* a reply since its thread sent; early: before that set pend (history).
NewWatcher(w) ==
  [dp |-> w.dp, type |-> w.type, db |-> w.db, run |-> FALSE, rdp |-> 0,
   stop |-> FALSE, pend |-> FALSE, th |-> "none", heard |-> FALSE, early |-> FALSE]

\* _watcher_parser_v2: watchers of datapaths that Faucet does not know are left out.
NewWatchers(g, c) ==
  [w \in {<<g, i>> : i \in {j \in DOMAIN Watchers[c] : Watchers[c][j].dp \in DP}} |->
    NewWatcher(Watchers[c][w[2]])]

\* Watchers in use, of a datapath, in the order of the configuration.
Current(d) == {w \in DOMAIN ws : w[1] = gen /\ ws[w].dp = d}
Known(d) == Current(d) # {}
InOrder(s) == SetToSortSeq(s, LAMBDA v, w : v[2] < w[2])

\* The watcher that polls: the first of its kind.
First(w) ==
  \A v \in Current(ws[w].dp) : ws[v].type = ws[w].type => w[2] =< v[2]

Set(w, field, v) == ws' = [ws EXCEPT ![w] = [@ EXCEPT ![field] = v]]

-----------------------------------------------------------------------------
(***************************************************************************)
(* What the dispatch thread has to do, in order.                           *)
(***************************************************************************)
Op(k, x) == [k |-> k, x |-> x]

\* GaugeThreadPoller.start, with the stop that precedes it.
StartOps(w, c) ==
  (IF Is_thread(w) THEN <<Op("stop", w), Op("join", w)>> ELSE <<>>)
    \o <<Op("start", <<w, c>>)>>

_start_watchers(d, c) ==
  LET s == InOrder(Current(d))
  IN FlattenSeq([i \in DOMAIN s |-> StartOps(s[i], c)])

_stop_watchers(d) ==
  LET s == InOrder(Current(d))
  IN FlattenSeq([i \in DOMAIN s |-> <<Op("stopactive", s[i]), Op("join", s[i])>>])

\* The same for all datapaths.
ForDPs(Ops(_)) ==
  LET s == SetToSeq(DP) IN FlattenSeq([i \in DOMAIN s |-> Ops(s[i])])

\* ryu_dp.close: the switch is disconnected.
Close(d, c) ==
  IF conn[d] = c /\ c # 0
  THEN /\ conn' = [conn EXCEPT ![d] = 0]
       /\ dpq' = Append(dpq, [d |-> d, c |-> 0])
  ELSE UNCHANGED <<conn, dpq>>

-----------------------------------------------------------------------------
(***************************************************************************)
(* The dispatch thread takes an event.                                     *)
(***************************************************************************)
Take(k) == /\ todo = <<>> /\ queue # <<>> /\ Head(queue).k = k
           /\ queue' = Tail(queue)

\* Events of datapaths without watchers: _get_datapath_obj closes the connection.
UnknownDatapath ==
  /\ \E k \in {"enter", "leave", "reply", "port"} : Take(k)
  /\ LET e == Head(queue) IN ~Known(e.d) /\ Close(e.d, e.c)
  /\ UNCHANGED <<config, ws, todo, port, dpset, reqs, status, metric, counts>>

_datapath_connect ==
  /\ Take("enter")
  /\ LET e == Head(queue) IN Known(e.d) /\ todo' = _start_watchers(e.d, e.c)
  /\ UNCHANGED <<config, ws, net, reqs, status, metric, counts>>

_datapath_disconnect ==
  /\ Take("leave")
  /\ LET e == Head(queue) IN Known(e.d) /\ todo' = _stop_watchers(e.d)
  /\ UNCHANGED <<config, ws, net, reqs, status, metric, counts>>

\* Mutant: the reply is not acknowledged.
Updated_Pending(w) == [w EXCEPT !.heard = w.th # "none", !.early = w.th = "sent"]

\* GaugePoller.update of a watcher that runs.
Updated(w) ==
  [w EXCEPT !.pend = FALSE, !.heard = w.th # "none", !.early = w.th = "sent"]

\* _update_watcher, of all watchers of the kind.
_update_watcher ==
  /\ Take("reply")
  /\ LET e == Head(queue)
         of == {w \in Current(e.d) : ws[w].type = e.type /\ ws[w].run}
     IN /\ Known(e.d)
        /\ ws' = [w \in DOMAIN ws |-> IF w \in of THEN Updated(ws[w]) ELSE ws[w]]
  /\ UNCHANGED <<config, todo, net, reqs, status, metric, counts>>

\* The same for a port's state, which a Prometheus watcher exports.
Exports(d) == \E w \in Current(d) : ws[w].type = "port_state" /\ ws[w].db = "prometheus"
                                      /\ ws[w].run
PortStateUpdate ==
  /\ Take("port")
  /\ LET e == Head(queue)
     IN /\ Known(e.d)
        /\ metric' = IF Exports(e.d) THEN [metric EXCEPT ![e.d] = e.state] ELSE metric
  /\ UNCHANGED <<config, ws, todo, net, reqs, status, counts>>

\* Mutant: the old watchers are not stopped.
_load_config_Leak ==
  /\ Take("reload")
  /\ todo' = <<Op("hash", file)>> \o (IF Valid(file) THEN <<Op("swap", file)>> ELSE <<>>)
  /\ UNCHANGED <<config, ws, net, reqs, status, metric, counts>>

\* _load_config: the file is read, then hashed; if it is not valid the watchers
\* stay as they are.
_load_config ==
  /\ Take("reload")
  /\ todo' =
       IF ~Valid(file) THEN <<Op("hash", file)>>
       ELSE <<Op("hash", file)>> \o ForDPs(_stop_watchers) \o <<Op("swap", file)>>
  /\ UNCHANGED <<config, ws, net, reqs, status, metric, counts>>

-----------------------------------------------------------------------------
(***************************************************************************)
(* The dispatch thread goes on.                                            *)
(***************************************************************************)
Doing(k) == todo # <<>> /\ Head(todo).k = k
X == Head(todo).x
Done == todo' = Tail(todo)

\* stop sets the stop event, of a watcher that has a thread, and then waits for
\* the thread.
Stopped(w) ==
  [w EXCEPT !.run = FALSE, !.stop = @ \/ w.th # "none"]

stop ==
  /\ Doing("stop") /\ Done
  /\ ws' = [ws EXCEPT ![X] = Stopped(@)]
  /\ UNCHANGED <<config, queue, net, reqs, status, metric, counts>>

\* _stop_watchers leaves the watchers that do not poll running.
stop_active ==
  /\ Doing("stopactive") /\ Done
  /\ ws' = [ws EXCEPT ![X] = IF @.th = "none" THEN @ ELSE Stopped(@)]
  /\ status' = [status EXCEPT ![ws[X].dp] = 0]
  /\ UNCHANGED <<config, queue, net, reqs, metric, counts>>

joinall ==
  /\ Doing("join") /\ ws[X].th \in {"none", "done"} /\ Done
  /\ Set(X, "th", "none")
  /\ UNCHANGED <<config, queue, net, reqs, status, metric, counts>>

\* Mutant: the stop event stays set.
Started_Stop(w, c, active) ==
  [w EXCEPT !.run = TRUE, !.rdp = c, !.th = IF active THEN "delay" ELSE @]

Started(w, c, active) ==
  [w EXCEPT !.run = TRUE, !.rdp = c, !.th = IF active THEN "delay" ELSE @,
            !.stop = IF active THEN FALSE ELSE @]

\* Mutant: port states are exported when they change.
start_Unseeded ==
  /\ Doing("start") /\ Done
  /\ LET w == X[1]
     IN /\ ws' = [ws EXCEPT ![w] = Started(@, X[2], Is_thread(w) /\ First(w))]
        /\ status' = [status EXCEPT ![ws[w].dp] = 1]
  /\ UNCHANGED <<config, queue, net, reqs, metric, counts>>

\* A watcher of port states starts with the states of all ports.
start ==
  /\ Doing("start") /\ Done
  /\ LET w == X[1]
         d == ws[w].dp
     IN /\ ws' = [ws EXCEPT ![w] = Started(@, X[2], Is_thread(w) /\ First(w))]
        /\ status' = [status EXCEPT ![d] = 1]
        /\ metric' = IF ws[w].type = "port_state" /\ ws[w].db = "prometheus"
                     THEN [metric EXCEPT ![d] = port[d]] ELSE metric
  /\ UNCHANGED <<config, queue, net, reqs, counts>>

\* Mutant: a file that is not valid is not watched.
hash_Valid ==
  /\ Doing("hash") /\ Done
  /\ watched' = IF Valid(X) THEN file ELSE watched
  /\ missed' = (X # file)
  /\ metric' = IF Valid(X) THEN [d \in DP |-> None] ELSE metric
  /\ UNCHANGED <<file, gen, cfg, ws, queue, net, reqs, status, counts>>

\* config_file_hash, of what is in the file by now.  If what was read is valid,
\* reregister_nonflow_vars leaves no metrics.
hash ==
  /\ Doing("hash") /\ Done
  /\ watched' = file
  /\ missed' = (X # file)
  /\ metric' = IF Valid(X) THEN [d \in DP |-> None] ELSE metric
  /\ UNCHANGED <<file, gen, cfg, ws, queue, net, reqs, status, counts>>

\* The new watchers, and old ones whose thread is still there.  Those of
\* datapaths that are connected start at once.
swap ==
  /\ Doing("swap")
  /\ gen' = gen + 1 /\ cfg' = X
  /\ LET new == NewWatchers(gen', X)
         left == {w \in DOMAIN ws : ws[w].th # "none"}
     IN ws' = [w \in DOMAIN new \cup left |->
                 IF w \in DOMAIN new THEN new[w] ELSE ws[w]]
  /\ todo' = ForDPs(LAMBDA d : <<Op("begin", d)>>)
  /\ UNCHANGED <<file, watched, missed, queue, net, reqs, status, metric, counts>>

begin ==
  /\ Doing("begin")
  /\ todo' = (IF dpset[X] = 0 THEN <<>> ELSE _start_watchers(X, dpset[X]))
               \o Tail(todo)
  /\ UNCHANGED <<config, ws, queue, net, reqs, status, metric, counts>>

Dispatch ==
  \/ UnknownDatapath \/ _datapath_connect \/ _datapath_disconnect
  \/ _update_watcher \/ PortStateUpdate \/ _load_config
  \/ stop \/ stop_active \/ joinall \/ start \/ hash \/ swap \/ begin

-----------------------------------------------------------------------------
(***************************************************************************)
(* The thread of a watcher: GaugeThreadPoller.__call__.                    *)
(***************************************************************************)

\* A wait ends because of the stop event, or after the interval.  A reply that
\* is still pending is reported (no_response), and a request sent.
no_response(w) == ws[w].th = "wait" /\ ~ws[w].stop /\ ws[w].pend

Wake(w) ==
  /\ ws[w].th \in {"delay", "wait"} /\ ws[w].stop
  /\ Set(w, "th", "done")
  /\ UNCHANGED <<config, dispatch, net, reqs, status, metric, counts>>

send_req(w) ==
  /\ ws[w].th \in {"delay", "wait"} /\ ~ws[w].stop
  /\ ws' = [ws EXCEPT ![w] = [@ EXCEPT !.th = "sent", !.heard = FALSE, !.early = FALSE]]
  /\ reqs' = IF conn[ws[w].dp] = ws[w].rdp
             THEN reqs \cup {[d |-> ws[w].dp, c |-> ws[w].rdp, type |-> Asks(w)]}
             ELSE reqs
  /\ UNCHANGED <<config, dispatch, net, status, metric, counts>>

SetPending(w) ==
  /\ ws[w].th = "sent"
  /\ ws' = [ws EXCEPT ![w] = [@ EXCEPT !.th = "wait", !.pend = TRUE]]
  /\ UNCHANGED <<config, dispatch, net, reqs, status, metric, counts>>

Poller(w) == Wake(w) \/ send_req(w) \/ SetPending(w)

-----------------------------------------------------------------------------
(***************************************************************************)
(* The file, its watcher, the switches and dpset.                          *)
(***************************************************************************)
Pending(k) == \E i \in DOMAIN queue : queue[i].k = k
Enqueue(e) == queue' = Append(queue, e)
Room == Len(queue) < MaxQueue

Edit(c) ==
  /\ edits < MaxEdits /\ edits' = edits + 1
  /\ c # file /\ file' = c
  /\ UNCHANGED <<watched, gen, cfg, missed, ws, dispatch, net, reqs, status, metric,
                 conns, flips>>

\* _config_file_stat, and SIGHUP.  It looks every three seconds, and so not twice
\* before a reload it asked for gets to hashing the file.  With nothing hashed
\* there is nothing to compare with.
Reconfigure ==
  /\ ~Pending("reload") /\ \A i \in DOMAIN todo : todo[i].k # "hash"
  /\ \/ watched \notin {None, file} /\ UNCHANGED edits
     \/ edits < MaxEdits /\ edits' = edits + 1
  /\ Enqueue([k |-> "reload"])
  /\ UNCHANGED <<config, ws, todo, net, reqs, status, metric, conns, flips>>

SwitchConnects(d, s) ==
  /\ conn[d] = 0 /\ conns < MaxConns
  /\ conns' = conns + 1
  /\ conn' = [conn EXCEPT ![d] = conns']
  /\ port' = [port EXCEPT ![d] = s]
  /\ dpq' = Append(dpq, [d |-> d, c |-> conns'])
  /\ UNCHANGED <<config, ws, dispatch, dpset, reqs, status, metric,
                 edits, flips>>

SwitchDisconnects(d) ==
  /\ conn[d] # 0
  /\ Close(d, conn[d])
  /\ reqs' = {r \in reqs : r.d # d}
  /\ UNCHANGED <<config, ws, dispatch, port, dpset, status, metric, counts>>

\* dpset registers a connection or drops it, and tells.
DpsetTells ==
  /\ dpq # <<>>
  /\ LET e == Head(dpq)
     IN /\ dpset' = [dpset EXCEPT ![e.d] = e.c]
        /\ Enqueue([k |-> IF e.c # 0 THEN "enter" ELSE "leave", d |-> e.d,
                    c |-> IF e.c # 0 THEN e.c ELSE dpset[e.d]])
  /\ dpq' = Tail(dpq)
  /\ UNCHANGED <<config, ws, todo, conn, port, reqs, status, metric, counts>>

SwitchReplies(r) ==
  /\ r.c = conn[r.d] /\ Room
  /\ reqs' = reqs \ {r}
  /\ Enqueue([k |-> "reply", d |-> r.d, c |-> r.c, type |-> r.type])
  /\ UNCHANGED <<config, ws, todo, net, status, metric, counts>>

PortChanges(d, s) ==
  /\ conn[d] # 0 /\ port[d] # s /\ flips < MaxFlips /\ Room
  /\ flips' = flips + 1
  /\ port' = [port EXCEPT ![d] = s]
  /\ Enqueue([k |-> "port", d |-> d, c |-> conn[d], state |-> s])
  /\ UNCHANGED <<config, ws, todo, conn, dpq, dpset, reqs, status, metric,
                 conns, edits>>

-----------------------------------------------------------------------------
\* Gauge starts: nothing is loaded or connected, and start asks for a reload.
Init ==
  /\ file \in Initial /\ watched = None
  /\ gen = 0 /\ cfg = None /\ ws = <<>>
  /\ queue = <<[k |-> "reload"]>> /\ todo = <<>>
  /\ conn = [d \in DP |-> 0] /\ port = [d \in DP |-> "up"]
  /\ dpq = <<>> /\ dpset = [d \in DP |-> 0]
  /\ reqs = {}
  /\ status = [d \in DP |-> 0] /\ metric = [d \in DP |-> None]
  /\ missed = FALSE
  /\ conns = 0 /\ edits = 0 /\ flips = 0

Next ==
  \/ Dispatch
  \/ \E w \in DOMAIN ws : Poller(w)
  \/ \E c \in Configs : Edit(c)
  \/ Reconfigure \/ DpsetTells
  \/ \E d \in DP : \/ SwitchDisconnects(d)
                   \/ \E s \in PortState : SwitchConnects(d, s) \/ PortChanges(d, s)
  \/ \E r \in reqs : SwitchReplies(r)

Spec == Init /\ [][Next]_vars

\* The dispatch thread, dpset, the thread that watches the file and the pollers
\* run on; nothing is asked of switches, or of who edits the file.
WatcherId == {<<g, i>> : g \in 1..MaxLoads,
                         i \in 1..(CHOOSE n \in 0..9 : \A c \in Configs :
                                     /\ Len(Watchers[c]) =< n
                                     /\ \E b \in Configs : Len(Watchers[b]) = n)}
Fairness ==
  /\ WF_vars(Dispatch) /\ WF_vars(DpsetTells)
  /\ WF_vars(watched \notin {None, file} /\ Reconfigure)
  /\ \A w \in WatcherId : WF_vars(w \in DOMAIN ws /\ Poller(w))

FairSpec == Spec /\ Fairness

-----------------------------------------------------------------------------
(***************************************************************************)
(* Properties.                                                             *)
(***************************************************************************)
Threads == {w \in DOMAIN ws : ws[w].th # "none"}

\* All that happened to connections and to the file has been dealt with.
Settled == todo = <<>> /\ dpq = <<>> /\ ~Pending("enter") /\ ~Pending("leave")

TypeOK ==
  /\ gen \in 0..MaxLoads /\ file \in Configs /\ watched \in Configs \cup {None}
  /\ \A w \in DOMAIN ws : ws[w].th \in {"none", "delay", "sent", "wait", "done"}
  /\ dpset \in [DP -> 0..MaxConns] /\ conn \in [DP -> 0..MaxConns]
  /\ \A d \in DP : status[d] \in {0, 1} /\ metric[d] \in PortState \cup {None}

\* One thread polls each kind of statistics of each datapath that is
\* connected and watched, over its present connection, and no other thread is
\* left, of an earlier connection or of an earlier configuration.
PolledOnce ==
  Settled =>
    /\ Threads = {w \in DOMAIN ws : /\ w[1] = gen /\ Is_thread(w) /\ First(w)
                                    /\ dpset[ws[w].dp] # 0}
    /\ \A w \in Threads : ws[w].rdp = dpset[ws[w].dp]

\* The metrics say which watched datapaths are connected, and the port's state
\* of those, after every sequence of reloads and reconnections.
ExportsAsIs ==
  Settled => \A d \in DP :
    /\ status[d] = 1 <=> Known(d) /\ dpset[d] # 0
    /\ Exports(d) /\ dpset[d] # 0 /\ ~Pending("port") => metric[d] = port[d]

\* A poller reports that there was no response only if none of the kind came
\* since it sent its request, or one came before it had noted that it waits.
NoResponseIsTrue ==
  [][\A w \in DOMAIN ws : no_response(w) /\ w \in DOMAIN ws' /\ ws'[w].th = "sent"
       => ~ws[w].heard \/ ws[w].early]_vars

\* A datapath that stays connected and watched is asked again and again, for
\* all kinds of statistics.
PollingGoesOn ==
  \A d \in DP, w \in WatcherId :
    <>[](w \in DOMAIN ws /\ w[1] = gen /\ ws[w].dp = d /\ Is_thread(w) /\ First(w)
           /\ dpset[d] # 0 /\ Settled)
      => []<>(w \in DOMAIN ws /\ ws[w].th = "sent")

\* The last configuration is loaded, if it is valid and was not put in place
\* between reading the file and hashing it.
LastEditLoaded ==
  <>[](Valid(file) /\ ~missed => cfg = file)
=============================================================================
