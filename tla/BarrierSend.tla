----------------------------- MODULE BarrierSend -----------------------------
(***************************************************************************)
(* The send pipeline of one datapath (one dp_id): the worker threads of    *)
(* BarrierAwareSender (valve_send.py), the barrier-waiter registry and the *)
(* sender table of ValvesManager (valves_manager.py), and the handlers of  *)
(* the Faucet application's dispatch thread that drive them (faucet.py,    *)
(* Valve.send_flows in valve.py).                                          *)
(*                                                                         *)
(* Three kinds of actors interleave: the dispatch thread (one handler at a *)
(* time), one worker thread for every BarrierAwareSender ever created, and *)
(* the outside world (switch, OpenFlow channel, DPSet, SIGHUP, and the BGP *)
(* and 802.1X threads that also send).  A connection is one ryu_dp object: *)
(* a switch that reconnects keeps its dp_id and gets a new one.            *)
(***************************************************************************)
EXTENDS Naturals, Sequences

CONSTANTS
  MaxConn,      \* bound: connections the switch makes
  MaxSender,    \* bound: BarrierAwareSender objects created
  MaxReload,    \* bound: configuration reloads
  MaxService,   \* bound: batches sent outside connect and reload handlers
  FeatBatch,    \* prepared messages of Valve.switch_features
  ColdBatch,    \* prepared messages of Valve.datapath_connect
  ConfBatches,  \* prepared messages a running Valve.reload_config may return
  ServBatch,    \* prepared messages of a periodic service, BGP or 802.1X
  SendMayRaise  \* whether set_xid/send_msg may raise in the worker

Conn == 1..MaxConn
Sender == 1..MaxSender
Kind == {"msg", "bar"}    \* any message, or an OFPBarrierRequest

ASSUME BoundsAssumption ==
  /\ MaxConn \in Nat /\ MaxSender \in Nat
  /\ MaxReload \in Nat /\ MaxService \in Nat

ASSUME BatchAssumption ==
  /\ FeatBatch \in Seq(Kind) /\ ColdBatch \in Seq(Kind)
  /\ ServBatch \in Seq(Kind) /\ ConfBatches \subseteq Seq(Kind)

ASSUME RaiseAssumption == SendMayRaise \in BOOLEAN

VARIABLES
  \* The channel and DPSet.
  chan,       \* Conn -> "none" | "hand" (handshake) | "main" | "closed"
  dpset,      \* DPSet.get(dp_id): the registered connection, 0 if none
  events,     \* the application's event queue, oldest first
  \* ValvesManager and Valve.
  reg,        \* _senders[dp_id]: the sender in the table, 0 if none
  created,    \* number of senders created so far
  waiters,    \* _barrier_waiters[dp_id]: the xids with a registered waiter
  applied,    \* config_applied[dp_id]
  gen,        \* the version of the configuration in force, 1 at the start
  running,    \* dp.dyn_running
  disp,       \* what the dispatch thread does between two steps
  services,   \* service batches sent so far
  \* The senders.
  sdp,        \* Sender -> ryu_dp, 0 before creation
  queue,      \* Sender -> _queue
  stopped,    \* Sender -> _stopped.is_set()
  pc,         \* Sender -> where the worker is
  cur,        \* Sender -> messages of the batch still to be sent
  cb,         \* Sender -> the reload whose on_complete the batch carries, or 0
  tag,        \* Sender -> the version the batch installs, 0 if it installs none
  xid,        \* Sender -> xid of its latest barrier, 0 if none
  event,      \* Sender -> the Event of that barrier
  ok,         \* Sender -> what _send_barrier will return
  nextXid,    \* next xid set_xid assigns
  \* The switch, and history.
  sent,       \* barriers handed to send_msg: [xid, s, c]
  answered,   \* xids the switch has replied to
  cancelled,  \* xids cancel_barriers released (history)
  installed   \* Conn -> versions whose batch went out in full (history)

\* What no worker changes; what only workers change; the sender objects.
sharedVars == <<dpset, events, gen, running, disp, services, reg, created, sdp,
                stopped, answered, cancelled>>
workerVars == <<pc, cur, cb, tag, xid, ok, nextXid, sent, installed>>
senderVars == <<reg, created, sdp, queue, stopped>>
waitVars == <<waiters, event, cancelled>>
confVars == <<applied, gen, running>>
vars == <<chan, dpset, events, reg, created, waiters, applied, gen, running,
          disp, services, sdp, queue, stopped, pc, cur, cb, tag, xid, event,
          ok, nextXid, sent, answered, cancelled, installed>>

Open(c) == chan[c] \in {"hand", "main"}

Idle == [op |-> "idle", c |-> 0]

\* An item of a sender's queue: (batch, on_complete), or the stop sentinel.
Item(msgs, callback, version) ==
  [msgs |-> msgs, cb |-> callback, tag |-> version, stop |-> FALSE]

ItemSet == [msgs : Seq(Kind), cb : Nat, tag : Nat, stop : BOOLEAN]

StopItem == [msgs |-> <<>>, cb |-> 0, tag |-> 0, stop |-> TRUE]

PCs == {"get", "loop", "register", "sendbar", "wait", "discard",
        "callback", "exited"}

\* An OFPSwitchFeatures, DPSet enter or leave event of connection n, or the
\* OFPBarrierReply with xid n.
Event == [op : {"features", "enter", "leave", "reply"}, n : Nat]

TypeOK ==
  /\ chan \in [Conn -> {"none", "hand", "main", "closed"}]
  /\ dpset \in Conn \cup {0}
  /\ events \in Seq(Event)
  /\ reg \in 0..created
  /\ created \in 0..MaxSender
  /\ waiters \subseteq Nat
  /\ applied \in BOOLEAN /\ running \in BOOLEAN
  /\ gen \in Nat /\ services \in Nat /\ nextXid \in Nat \ {0}
  /\ disp \in [op : {"idle", "leave", "cold"}, c : Conn \cup {0}]
  /\ sdp \in [Sender -> Conn \cup {0}]
  /\ \A s \in Sender : sdp[s] = 0 <=> s > created
  /\ queue \in [Sender -> Seq(ItemSet)]
  /\ stopped \in [Sender -> BOOLEAN]
  /\ pc \in [Sender -> PCs]
  /\ cur \in [Sender -> Seq(Kind)]
  /\ cb \in [Sender -> Nat] /\ tag \in [Sender -> Nat]
  /\ xid \in [Sender -> Nat]
  /\ event \in [Sender -> BOOLEAN] /\ ok \in [Sender -> BOOLEAN]
  /\ sent \subseteq [xid : Nat, s : Sender, c : Conn]
  /\ answered \subseteq Nat /\ cancelled \subseteq Nat
  /\ installed \in [Conn -> SUBSET Nat]

Init ==
  /\ chan = [c \in Conn |-> "none"]
  /\ dpset = 0
  /\ events = <<>>
  /\ reg = 0 /\ created = 0
  /\ waiters = {}
  /\ applied = FALSE /\ gen = 1 /\ running = FALSE
  /\ disp = Idle
  /\ services = 0
  /\ sdp = [s \in Sender |-> 0]
  /\ queue = [s \in Sender |-> <<>>]
  /\ stopped = [s \in Sender |-> FALSE]
  /\ pc = [s \in Sender |-> "get"]
  /\ cur = [s \in Sender |-> <<>>]
  /\ cb = [s \in Sender |-> 0]
  /\ tag = [s \in Sender |-> 0]
  /\ xid = [s \in Sender |-> 0]
  /\ event = [s \in Sender |-> FALSE]
  /\ ok = [s \in Sender |-> FALSE]
  /\ nextXid = 1
  /\ sent = {} /\ answered = {} /\ cancelled = {}
  /\ installed = [c \in Conn |-> {}]

-----------------------------------------------------------------------------
(***************************************************************************)
(* The worker thread of sender s: BarrierAwareSender._run, _send_batch and *)
(* _send_barrier.                                                          *)
(***************************************************************************)

\* _run appends a barrier to a batch with a callback unless it ends with one.
EndsWithBarrier(batch) == batch # <<>> /\ batch[Len(batch)] = "bar"

WithTrailingBarrier(item) ==
  IF item.cb # 0 /\ ~EndsWithBarrier(item.msgs)
  THEN Append(item.msgs, "bar")
  ELSE item.msgs

\* self._queue.get(): the sentinel ends the thread, a batch is taken up.
Get(s) ==
  /\ pc[s] = "get"
  /\ queue[s] # <<>>
  /\ queue' = [queue EXCEPT ![s] = Tail(@)]
  /\ LET item == Head(queue[s]) IN
       \/ /\ item.stop
          /\ pc' = [pc EXCEPT ![s] = "exited"]
          /\ UNCHANGED <<cur, cb, tag>>
       \/ /\ ~item.stop
          /\ pc' = [pc EXCEPT ![s] = "loop"]
          /\ cur' = [cur EXCEPT ![s] = WithTrailingBarrier(item)]
          /\ cb' = [cb EXCEPT ![s] = item.cb]
          /\ tag' = [tag EXCEPT ![s] = item.tag]
  /\ UNCHANGED <<sharedVars, chan, applied, waiters, event, xid, ok, nextXid,
                 sent, installed>>

\* One turn of the for loop of _send_batch: the end of the batch; torn down;
\* the next message, sent at once unless it is a barrier.
Loop(s) ==
  /\ pc[s] = "loop"
  /\ \/ /\ cur[s] = <<>>
        /\ pc' = [pc EXCEPT ![s] = IF cb[s] # 0 THEN "callback" ELSE "get"]
        /\ installed' = IF Open(sdp[s])
                        THEN [installed EXCEPT ![sdp[s]] = @ \cup {tag[s]}]
                        ELSE installed
        /\ UNCHANGED cur
     \/ /\ cur[s] # <<>> /\ stopped[s]
        /\ pc' = [pc EXCEPT ![s] = "exited"]
        /\ UNCHANGED <<cur, installed>>
     \/ /\ cur[s] # <<>> /\ ~stopped[s]
        /\ Head(cur[s]) = "bar"
        /\ pc' = [pc EXCEPT ![s] = "register"]
        /\ UNCHANGED <<cur, installed>>
     \/ /\ cur[s] # <<>> /\ ~stopped[s]
        /\ Head(cur[s]) = "msg"
        /\ cur' = [cur EXCEPT ![s] = Tail(@)]
        /\ UNCHANGED <<pc, installed>>
  /\ UNCHANGED <<sharedVars, chan, applied, waiters, event, queue, cb, tag,
                 xid, ok, nextXid, sent>>

\* Mutant: the waiter is not in the registry when the reply may come.
Register_NoWaiter(s) ==
  /\ pc[s] = "register"
  /\ xid' = [xid EXCEPT ![s] = nextXid]
  /\ nextXid' = nextXid + 1
  /\ event' = [event EXCEPT ![s] = FALSE]
  /\ pc' = [pc EXCEPT ![s] = "sendbar"]
  /\ UNCHANGED <<sharedVars, chan, applied, waiters, queue, cur, cb, tag, ok,
                 sent, installed>>

\* _send_barrier up to the try: set_xid, then register_barrier.
Register(s) ==
  /\ pc[s] = "register"
  /\ xid' = [xid EXCEPT ![s] = nextXid]
  /\ nextXid' = nextXid + 1
  /\ event' = [event EXCEPT ![s] = FALSE]
  /\ waiters' = waiters \cup {nextXid}
  /\ pc' = [pc EXCEPT ![s] = "sendbar"]
  /\ UNCHANGED <<sharedVars, chan, applied, queue, cur, cb, tag, ok, sent,
                 installed>>

SendBarrier(s) ==
  /\ pc[s] = "sendbar"
  /\ sent' = sent \cup {[xid |-> xid[s], s |-> s, c |-> sdp[s]]}
  /\ pc' = [pc EXCEPT ![s] = "wait"]
  /\ UNCHANGED <<sharedVars, chan, applied, waiters, event, queue, cur, cb,
                 tag, xid, ok, nextXid, installed>>

\* event.wait() returns True: the reply came, or cancel_barriers set the event.
Wake(s) ==
  /\ pc[s] = "wait"
  /\ event[s]
  /\ ok' = [ok EXCEPT ![s] = TRUE]
  /\ pc' = [pc EXCEPT ![s] = "discard"]
  /\ UNCHANGED <<sharedVars, chan, applied, waiters, event, queue, cur, cb,
                 tag, xid, nextXid, sent, installed>>

\* Mutant: a time-out is logged, and the batch goes on.
Timeout_GoesOn(s) ==
  /\ pc[s] = "wait"
  /\ ~event[s]
  /\ ok' = [ok EXCEPT ![s] = TRUE]
  /\ pc' = [pc EXCEPT ![s] = "discard"]
  /\ UNCHANGED <<sharedVars, chan, applied, waiters, event, queue, cur, cb,
                 tag, xid, nextXid, sent, installed>>

\* Mutant: a time-out ends the worker without closing the channel.
Timeout_NoClose(s) ==
  /\ pc[s] = "wait"
  /\ ~event[s]
  /\ ok' = [ok EXCEPT ![s] = FALSE]
  /\ pc' = [pc EXCEPT ![s] = "discard"]
  /\ UNCHANGED <<sharedVars, chan, applied, waiters, event, queue, cur, cb,
                 tag, xid, nextXid, sent, installed>>

\* event.wait() returns False after BARRIER_TIMEOUT: drop the channel.
Timeout(s) ==
  /\ pc[s] = "wait"
  /\ ~event[s]
  /\ chan' = [chan EXCEPT ![sdp[s]] = "closed"]
  /\ ok' = [ok EXCEPT ![s] = FALSE]
  /\ pc' = [pc EXCEPT ![s] = "discard"]
  /\ UNCHANGED <<sharedVars, applied, waiters, event, queue, cur, cb, tag, xid,
                 nextXid, sent, installed>>

\* Mutant: no finally clause.
Discard_Keeps(s) ==
  /\ pc[s] = "discard"
  /\ pc' = [pc EXCEPT ![s] = IF ok[s] THEN "loop" ELSE "exited"]
  /\ cur' = [cur EXCEPT ![s] = IF ok[s] THEN Tail(@) ELSE @]
  /\ UNCHANGED <<sharedVars, chan, applied, waiters, event, queue, cb, tag,
                 xid, ok, nextXid, sent, installed>>

\* The finally clause: discard_barrier; then back to _send_batch, or out.
Discard(s) ==
  /\ pc[s] = "discard"
  /\ waiters' = waiters \ {xid[s]}
  /\ pc' = [pc EXCEPT ![s] = IF ok[s] THEN "loop" ELSE "exited"]
  /\ cur' = [cur EXCEPT ![s] = IF ok[s] THEN Tail(@) ELSE @]
  /\ UNCHANGED <<sharedVars, chan, applied, event, queue, cb, tag, xid, ok,
                 nextXid, sent, installed>>

\* on_complete(): _mark_dp_config_applied -> update_config_applied({dp_id: True}).
Callback(s) ==
  /\ pc[s] = "callback"
  /\ applied' = TRUE
  /\ pc' = [pc EXCEPT ![s] = "get"]
  /\ UNCHANGED <<sharedVars, chan, waiters, event, queue, cur, cb, tag, xid,
                 ok, nextXid, sent, installed>>

\* An exception escapes set_xid or send_msg: _run logs "sender thread
\* crashed" and ends; from inside the try of _send_barrier through finally.
Crash(s) ==
  /\ SendMayRaise
  /\ \/ pc[s] = "loop" /\ cur[s] # <<>> /\ ~stopped[s] /\ Head(cur[s]) = "msg"
     \/ pc[s] \in {"register", "sendbar"}
  /\ pc' = [pc EXCEPT ![s] = IF pc[s] = "sendbar" THEN "discard" ELSE "exited"]
  /\ ok' = [ok EXCEPT ![s] = FALSE]
  /\ UNCHANGED <<sharedVars, chan, applied, waiters, event, queue, cur, cb,
                 tag, xid, nextXid, sent, installed>>

Worker(s) ==
  \/ Get(s) \/ Loop(s)
  \/ Register(s) \/ SendBarrier(s) \/ Wake(s) \/ Timeout(s) \/ Discard(s)
  \/ Callback(s)

-----------------------------------------------------------------------------
(***************************************************************************)
(* ValvesManager, called by the dispatch thread.                           *)
(***************************************************************************)

\* BarrierAwareSender.submit and stop, on the queue of one sender: both do
\* nothing once _stopped is set.
Put(q, s, item) == IF stopped[s] THEN q ELSE Append(q, item)

\* Mutant: the sender in the table is taken whatever ryu_dp it is bound to.
submit_to_sender_Stale(c, item) ==
  LET s == IF reg = 0 THEN created + 1 ELSE reg
  IN IF item.msgs = <<>> /\ item.cb = 0
     THEN UNCHANGED senderVars
     ELSE /\ s \in Sender
          /\ reg' = s
          /\ created' = IF reg = 0 THEN s ELSE created
          /\ sdp' = IF reg = 0 THEN [sdp EXCEPT ![s] = c] ELSE sdp
          /\ queue' = [queue EXCEPT ![s] = Put(@, s, item)]
          /\ UNCHANGED stopped

\* submit_to_sender: reuse the sender in the table if it is bound to this
\* ryu_dp, else stop it and start a fresh one; then sender.submit.
submit_to_sender(c, item) ==
  LET fresh == reg = 0 \/ sdp[reg] # c
      s == IF fresh THEN created + 1 ELSE reg
  IN IF item.msgs = <<>> /\ item.cb = 0
     THEN UNCHANGED senderVars
     ELSE /\ s \in Sender
          /\ reg' = s
          /\ created' = IF fresh THEN s ELSE created
          /\ sdp' = [sdp EXCEPT ![s] = c]
          /\ stopped' = [t \in Sender |-> stopped[t] \/ (fresh /\ t = reg)]
          /\ queue' = [t \in Sender |->
               IF t = s THEN Put(queue[t], t, item)
               ELSE IF fresh /\ t = reg THEN Put(queue[t], t, StopItem)
               ELSE queue[t]]

\* cancel_barriers: pop every waiter of the dp_id and set its Event.
cancel_barriers ==
  /\ event' = [s \in Sender |-> event[s] \/ xid[s] \in waiters]
  /\ cancelled' = cancelled \cup waiters
  /\ waiters' = {}

\* complete_barrier: pop the waiter of xid x, if any, and set its Event.
complete_barrier(x) ==
  /\ event' = [s \in Sender |-> event[s] \/ (x \in waiters /\ xid[s] = x)]
  /\ waiters' = waiters \ {x}
  /\ UNCHANGED cancelled

(***************************************************************************)
(* The handlers of the dispatch thread, which takes events off its queue.  *)
(* It runs one at a time; stop_sender releases its locks between           *)
(* cancelling the barriers and stopping the sender, so workers run in      *)
(* between, and disp says how the handler goes on.                         *)
(***************************************************************************)
Receive(op, n) ==
  /\ disp = Idle
  /\ events # <<>>
  /\ Head(events) = [op |-> op, n |-> n]
  /\ events' = Tail(events)

\* barrier_reply_handler.
BarrierReply(x) ==
  /\ Receive("reply", x)
  /\ complete_barrier(x)
  /\ UNCHANGED <<chan, dpset, confVars, senderVars, workerVars, disp, services,
                 answered>>

\* features_handler: sends to the ryu_dp of the event, in DPSet or not.
Features(c) ==
  /\ Receive("features", c)
  /\ submit_to_sender(c, Item(FeatBatch, 0, 0))
  /\ UNCHANGED <<chan, dpset, confVars, waitVars, workerVars, disp, services,
                 answered>>

\* _datapath_connect: mark the config applied, cold start, send to whatever
\* connection DPSet holds now ("DP not up" if none).
DatapathConnect(c) ==
  /\ Receive("enter", c)
  /\ applied' = TRUE
  /\ running' = TRUE
  /\ IF dpset = 0
     THEN UNCHANGED senderVars
     ELSE submit_to_sender(dpset, Item(ColdBatch, 0, gen))
  /\ UNCHANGED <<chan, dpset, gen, waitVars, workerVars, disp, services,
                 answered>>

\* _datapath_disconnect, first half: stop_sender cancels the barriers.
DatapathDisconnect(c) ==
  /\ Receive("leave", c)
  /\ cancel_barriers
  /\ disp' = [op |-> "leave", c |-> c]
  /\ UNCHANGED <<chan, dpset, confVars, senderVars, workerVars, services,
                 answered>>

\* request_reload_configs -> _apply_configs, the config changed and a warm
\* start is enough: reset the flag and send with on_complete.  A Valve that
\* is not running sends an empty batch; the callback is submitted all the same.
ReloadWarm(batch) ==
  /\ disp = Idle
  /\ gen =< MaxReload
  /\ gen' = gen + 1
  /\ applied' = FALSE
  /\ IF dpset = 0
     THEN UNCHANGED senderVars
     ELSE submit_to_sender(dpset,
            IF running THEN Item(batch, gen', gen') ELSE Item(<<>>, gen', 0))
  /\ UNCHANGED <<chan, dpset, events, running, waitVars, workerVars, disp,
                 services, answered>>

\* The same with a cold start: send_flows(None) disconnects the datapath.
ReloadCold ==
  /\ disp = Idle
  /\ gen =< MaxReload
  /\ gen' = gen + 1
  /\ applied' = FALSE
  /\ \/ dpset = 0 /\ UNCHANGED <<running, waitVars, disp>>
     \/ /\ dpset # 0
        /\ running' = FALSE
        /\ cancel_barriers
        /\ disp' = [op |-> "cold", c |-> dpset]
  /\ UNCHANGED <<chan, dpset, events, senderVars, workerVars, services,
                 answered>>

\* Mutant: stop() sets the flag and puts no sentinel on the queue.
StopSender_NoSentinel ==
  /\ disp # Idle
  /\ reg' = 0
  /\ stopped' = [t \in Sender |-> stopped[t] \/ t = reg]
  /\ \/ /\ disp.op = "leave"
        /\ running' = FALSE
        /\ UNCHANGED chan
     \/ /\ disp.op = "cold"
        /\ chan' = [chan EXCEPT ![disp.c] = "closed"]
        /\ UNCHANGED running
  /\ disp' = Idle
  /\ UNCHANGED <<dpset, events, applied, gen, created, sdp, queue, waitVars,
                 workerVars, services, answered>>

\* stop_sender, second half: pop the sender from the table and stop it; then
\* the caller goes on: datapath_disconnect, or ryu_dp.close().
StopSender ==
  /\ disp # Idle
  /\ reg' = 0
  /\ stopped' = [t \in Sender |-> stopped[t] \/ t = reg]
  /\ queue' = [t \in Sender |->
                 IF t = reg THEN Put(queue[t], t, StopItem) ELSE queue[t]]
  /\ \/ /\ disp.op = "leave"
        /\ running' = FALSE
        /\ UNCHANGED chan
     \/ /\ disp.op = "cold"
        /\ chan' = [chan EXCEPT ![disp.c] = "closed"]
        /\ UNCHANGED running
  /\ disp' = Idle
  /\ UNCHANGED <<dpset, events, applied, gen, created, sdp, waitVars,
                 workerVars, services, answered>>

\* _send_flow_msgs without a callback: valve_flow_services on the dispatch
\* thread, or a BGP or 802.1X callback on a thread of its own.
Service ==
  /\ services < MaxService
  /\ dpset # 0
  /\ services' = services + 1
  /\ submit_to_sender(dpset, Item(ServBatch, 0, 0))
  /\ UNCHANGED <<chan, dpset, events, confVars, waitVars, workerVars, disp,
                 answered>>

\* The dispatch thread's own steps, as against the requests made of it.
Dispatch ==
  \/ \E x \in answered : BarrierReply(x)
  \/ \E c \in Conn : Features(c) \/ DatapathConnect(c) \/ DatapathDisconnect(c)
  \/ StopSender

Reload == ReloadCold \/ \E b \in ConfBatches : ReloadWarm(b)

-----------------------------------------------------------------------------
(***************************************************************************)
(* The outside: the switch, its channel, and DPSet, each of which puts     *)
(* events on the application's queue.                                      *)
(***************************************************************************)
Post(op, n) == events' = Append(events, [op |-> op, n |-> n])

innerVars == <<confVars, waitVars, senderVars, workerVars, disp, services>>

\* The switch opens a connection, perhaps before the loss of the one before
\* has been noticed, and answers the features request.
Connect(c) ==
  /\ chan[c] = "none"
  /\ \A d \in Conn : d < c => chan[d] # "none"
  /\ chan' = [chan EXCEPT ![c] = "hand"]
  /\ Post("features", c)
  /\ UNCHANGED <<innerVars, dpset, answered>>

\* The handshake is over: DPSet registers the connection, closing and
\* replacing the one it holds (EventDPReconnected).
DPSetRegister(c) ==
  /\ chan[c] = "hand"
  /\ chan' = [d \in Conn |-> IF d = c THEN "main"
                             ELSE IF d = dpset THEN "closed" ELSE chan[d]]
  /\ dpset' = c
  /\ Post("enter", c)
  /\ UNCHANGED <<innerVars, answered>>

DPSetUnregister(c) ==
  /\ dpset = c
  /\ chan[c] = "closed"
  /\ dpset' = 0
  /\ Post("leave", c)
  /\ UNCHANGED <<innerVars, chan, answered>>

\* The channel is lost.
Drop(c) ==
  /\ Open(c)
  /\ chan' = [chan EXCEPT ![c] = "closed"]
  /\ UNCHANGED <<innerVars, dpset, events, answered>>

\* The switch answers a barrier that reached it.
SwitchReply(b) ==
  /\ b.xid \notin answered
  /\ Open(b.c)
  /\ answered' = answered \cup {b.xid}
  /\ Post("reply", b.xid)
  /\ UNCHANGED <<innerVars, chan, dpset>>

DPSetStep == \E c \in Conn : DPSetRegister(c) \/ DPSetUnregister(c)

Next ==
  \/ \E s \in Sender : Worker(s) \/ Crash(s)
  \/ Dispatch \/ Reload \/ Service
  \/ DPSetStep
  \/ \E c \in Conn : Connect(c) \/ Drop(c)
  \/ \E b \in sent : SwitchReply(b)

Spec == Init /\ [][Next]_vars

\* Threads run: every worker and the dispatch thread make progress, DPSet
\* reports what it sees.  Nothing is assumed of the switch, which may leave a
\* barrier unanswered, nor of reloads, services, connections and drops.
Fairness ==
  /\ \A s \in Sender : WF_vars(Worker(s))
  /\ WF_vars(Dispatch)
  /\ WF_vars(DPSetStep)

FairSpec == Spec /\ Fairness

-----------------------------------------------------------------------------
(***************************************************************************)
(* Safety.                                                                 *)
(***************************************************************************)

\* What the barriers are for: a worker that is past a barrier it sent (it
\* sends later messages, runs a callback or takes up another batch) is there
\* because the switch answered that barrier or cancel_barriers released it.
\* _send_barrier blocks; a timed-out barrier ends the worker.
HeldAtBarrier ==
  \A b \in sent :
    pc[b.s] \notin {"wait", "discard", "exited"}
      => b.xid \in answered \cup cancelled

\* No wake-up is lost: once the dispatch thread has handled the reply to the
\* barrier a worker waits for, the worker's Event is set, however fast the
\* reply came (register_barrier runs before send_msg).
NoLostWakeup ==
  \A s \in Sender :
    /\ pc[s] = "wait"
    /\ xid[s] \in answered
    /\ \A i \in 1..Len(events) : events[i] # [op |-> "reply", n |-> xid[s]]
    => event[s]

\* The waiter registry does not grow: an entry belongs to a worker that is
\* still inside _send_barrier, whatever mix of cancellations,
\* time-outs, exceptions and stops there was.
RegistryNoLeak ==
  \A x \in waiters :
    \E s \in Sender : xid[s] = x /\ pc[s] \in {"sendbar", "wait", "discard"}

\* A worker that died leaves no live datapath behind it: if the sender in the
\* table has exited (nothing will ever drain its queue), its channel is
\* closed, so the switch reconnects and gets a fresh sender.
DeadSenderDropsChannel ==
  reg # 0 /\ pc[reg] = "exited" => chan[sdp[reg]] = "closed"

(***************************************************************************)
(* Liveness, under FairSpec.                                               *)
(***************************************************************************)

\* stop() ends the worker thread wherever it is: blocked on its queue, in the
\* middle of a batch or parked on a barrier.  (stop() is for good and so is
\* the end of a thread: this is \A s : stopped[s] ~> pc[s] = "exited".)
StopEndsWorker ==
  []<>(\A s \in Sender : stopped[s] => pc[s] = "exited")

\* Convergence: a switch whose latest connection stays up ends with the
\* configuration in force sent to it in full, whatever reloads, barrier
\* time-outs and earlier connections there were: a reload may have sent to the
\* old connection, or have made a sender for the new one before its connect
\* event is handled, and the old one's events may still be in the queue.
Converges ==
  \A c \in Conn :
    <>[](chan[c] = "main" /\ \A d \in Conn : d > c => chan[d] = "none")
      => <>[](gen \in installed[c])
=============================================================================
