-------------------------- MODULE BarrierSendProofs --------------------------
(***************************************************************************)
(* Proofs about BarrierSend, for every number of connections, senders,     *)
(* reloads and services and every choice of batches.                       *)
(***************************************************************************)
EXTENDS BarrierSend, TLAPS

-----------------------------------------------------------------------------
(***************************************************************************)
(* Type correctness.  A sender that does not exist yet has done nothing;   *)
(* without that, a worker bound to no connection could send a barrier.     *)
(***************************************************************************)
Fresh ==
  \A s \in Sender : s > created => pc[s] = "get" /\ queue[s] = <<>>

\* Inside _send_barrier, the barrier is still the head of the batch.
AtBarrier ==
  \A s \in Sender :
    pc[s] \in {"register", "sendbar", "wait", "discard"} => cur[s] # <<>>

TypeInv == TypeOK /\ Fresh /\ AtBarrier

LEMMA ItemType ==
  ASSUME NEW msgs \in Seq(Kind), NEW callback \in Nat, NEW version \in Nat
  PROVE  Item(msgs, callback, version) \in ItemSet
BY DEF Item, ItemSet

LEMMA StopItemType == StopItem \in ItemSet
BY DEF StopItem, ItemSet, Kind

LEMMA TrailingType ==
  ASSUME NEW item \in ItemSet
  PROVE  WithTrailingBarrier(item) \in Seq(Kind)
BY DEF WithTrailingBarrier, ItemSet, Kind

LEMMA InitTypeInv == Init => TypeInv
<1> SUFFICES ASSUME Init PROVE TypeInv
  OBVIOUS
<1> USE BoundsAssumption DEF Init
<1>1. /\ reg \in 0..created /\ created \in 0..MaxSender
      /\ \A s \in Sender : sdp[s] = 0 <=> s > created
  BY DEF Sender
<1>2. /\ dpset \in Conn \cup {0} /\ sdp \in [Sender -> Conn \cup {0}]
      /\ disp \in [op : {"idle", "leave", "cold"}, c : Conn \cup {0}]
  BY DEF Idle
<1>3. events \in Seq(Event) /\ queue \in [Sender -> Seq(ItemSet)]
  OBVIOUS
<1>4. /\ pc \in [Sender -> PCs] /\ cur \in [Sender -> Seq(Kind)]
      /\ chan \in [Conn -> {"none", "hand", "main", "closed"}]
      /\ installed \in [Conn -> SUBSET Nat]
  BY DEF PCs
<1>5. /\ cb \in [Sender -> Nat] /\ tag \in [Sender -> Nat]
      /\ xid \in [Sender -> Nat] /\ event \in [Sender -> BOOLEAN]
      /\ ok \in [Sender -> BOOLEAN] /\ stopped \in [Sender -> BOOLEAN]
  OBVIOUS
<1>6. /\ waiters \subseteq Nat /\ sent \subseteq [xid : Nat, s : Sender, c : Conn]
      /\ answered \subseteq Nat /\ cancelled \subseteq Nat
      /\ gen \in Nat /\ services \in Nat /\ nextXid \in Nat \ {0}
  OBVIOUS
<1>7. applied \in BOOLEAN /\ running \in BOOLEAN
  BY Zenon
<1>9. Fresh /\ AtBarrier
  BY DEF Fresh, AtBarrier
<1> HIDE DEF Init
<1>8. TypeOK
  BY <1>1, <1>2, <1>3, <1>4, <1>5, <1>6, <1>7, Zenon DEF TypeOK
<1> QED
  BY <1>8, <1>9 DEF TypeInv

SenderTypes ==
  /\ reg \in 0..created /\ created \in 0..MaxSender
  /\ sdp \in [Sender -> Conn \cup {0}]
  /\ \A s \in Sender : sdp[s] = 0 <=> s > created
  /\ queue \in [Sender -> Seq(ItemSet)]
  /\ stopped \in [Sender -> BOOLEAN]
  /\ Fresh

\* submit_to_sender keeps the types of what it changes.
LEMMA SubmitType ==
  ASSUME TypeInv, NEW c \in Conn, NEW item \in ItemSet,
         submit_to_sender(c, item), UNCHANGED pc
  PROVE  SenderTypes'
<1>1. CASE item.msgs = <<>> /\ item.cb = 0
  <2>1. UNCHANGED senderVars
    BY <1>1 DEF submit_to_sender
  <2> QED
    BY <2>1 DEF senderVars, TypeInv, TypeOK, Fresh, SenderTypes
<1>2. CASE ~(item.msgs = <<>> /\ item.cb = 0)
  <2> DEFINE fresh == reg = 0 \/ sdp[reg] # c
             s0 == IF fresh THEN created + 1 ELSE reg
  <2>1. /\ s0 \in Sender
        /\ reg' = s0
        /\ created' = IF fresh THEN s0 ELSE created
        /\ sdp' = [sdp EXCEPT ![s0] = c]
        /\ stopped' = [t \in Sender |-> stopped[t] \/ (fresh /\ t = reg)]
        /\ queue' = [t \in Sender |->
             IF t = s0 THEN Put(queue[t], t, item)
             ELSE IF fresh /\ t = reg THEN Put(queue[t], t, StopItem)
             ELSE queue[t]]
    BY <1>2 DEF submit_to_sender
  <2>2. reg' \in 0..created' /\ created' \in 0..MaxSender
    BY <2>1, BoundsAssumption DEF TypeInv, TypeOK, Sender
  <2>3. /\ sdp' \in [Sender -> Conn \cup {0}]
        /\ \A s \in Sender : sdp'[s] = 0 <=> s > created'
    <3>1. /\ sdp \in [Sender -> Conn \cup {0}]
          /\ \A s \in Sender : sdp[s] = 0 <=> s > created
          /\ reg \in 0..created /\ created \in Nat
      BY BoundsAssumption DEF TypeInv, TypeOK
    <3>2. sdp' \in [Sender -> Conn \cup {0}]
      BY <2>1, <3>1
    <3>3. \A s \in Sender : sdp'[s] = IF s = s0 THEN c ELSE sdp[s]
      BY <2>1, <3>1
    <3>4. c # 0
      BY BoundsAssumption DEF Conn
    <3>5. \A s \in Sender : s > created' <=> s > created /\ s # s0
      <4> SUFFICES ASSUME NEW s \in Sender
                   PROVE  s > created' <=> s > created /\ s # s0
        OBVIOUS
      <4>0. s \in Nat
        BY BoundsAssumption DEF Sender
      <4>1. CASE fresh
        <5>1. s0 = created + 1 /\ created' = created + 1
          BY <2>1, <4>1
        <5> QED
          BY <3>1, <4>0, <5>1
      <4>2. CASE ~fresh
        <5>1. s0 = reg /\ created' = created
          BY <2>1, <4>2
        <5> QED
          BY <3>1, <4>0, <5>1
      <4> QED
        BY <4>1, <4>2
    <3> HIDE DEF s0, fresh
    <3> QED
      BY <3>1, <3>2, <3>3, <3>4, <3>5
  <2>4. stopped' \in [Sender -> BOOLEAN]
    BY <2>1 DEF TypeInv, TypeOK
  <2>5. queue' \in [Sender -> Seq(ItemSet)]
    <3>1. queue \in [Sender -> Seq(ItemSet)]
      BY DEF TypeInv, TypeOK
    <3>2. \A t \in Sender, i \in ItemSet : Put(queue[t], t, i) \in Seq(ItemSet)
      BY <3>1 DEF Put
    <3> QED
      BY <2>1, <3>1, <3>2, StopItemType
  <2>6. Fresh'
    <3> SUFFICES ASSUME NEW s \in Sender, s > created'
                 PROVE  pc'[s] = "get" /\ queue'[s] = <<>>
      BY DEF Fresh
    <3>1. s > created /\ s # s0 /\ s # reg
      BY <2>1, BoundsAssumption DEF TypeInv, TypeOK, Sender
    <3> QED
      BY <2>1, <3>1 DEF TypeInv, Fresh
  <2> QED
    BY <2>2, <2>3, <2>4, <2>5, <2>6 DEF SenderTypes
<1> QED
  BY <1>1, <1>2

LEMMA PostType ==
  ASSUME TypeInv, NEW op \in {"features", "enter", "leave", "reply"},
         NEW n \in Nat, Post(op, n)
  PROVE  events' \in Seq(Event)
BY DEF Post, TypeInv, TypeOK, Event

LEMMA ReceiveType ==
  ASSUME TypeInv, NEW op, NEW n, Receive(op, n)
  PROVE  events' \in Seq(Event)
BY DEF Receive, TypeInv, TypeOK

\* Every step keeps the types.
LEMMA NextTypeInv == TypeInv /\ [Next]_vars => TypeInv'
<1> SUFFICES ASSUME TypeInv, [Next]_vars PROVE TypeInv'
  OBVIOUS
<1> USE BoundsAssumption
<1>1. ASSUME NEW s \in Sender, Get(s) PROVE TypeInv'
  <2> DEFINE item == Head(queue[s])
  <2>1. item \in ItemSet /\ Tail(queue[s]) \in Seq(ItemSet)
    BY <1>1 DEF Get, TypeInv, TypeOK
  <2>2. queue' \in [Sender -> Seq(ItemSet)] /\ Fresh'
    BY SMTT(60), <1>1, <2>1 DEF Get, TypeInv, TypeOK, Fresh, sharedVars
  <2>3. CASE item.stop
    BY ZenonT(60), <1>1, <2>2, <2>3 DEF Get, TypeInv, TypeOK, AtBarrier, sharedVars, PCs
  <2>4. CASE ~item.stop
    <3>1. WithTrailingBarrier(item) \in Seq(Kind) /\ item.cb \in Nat /\ item.tag \in Nat
      BY <2>1, TrailingType DEF ItemSet
    <3>2. /\ pc' = [pc EXCEPT ![s] = "loop"]
          /\ cur' = [cur EXCEPT ![s] = WithTrailingBarrier(item)]
          /\ cb' = [cb EXCEPT ![s] = item.cb]
          /\ tag' = [tag EXCEPT ![s] = item.tag]
      BY <1>1, <2>4 DEF Get
    <3>3. /\ pc' \in [Sender -> PCs] /\ cur' \in [Sender -> Seq(Kind)]
          /\ cb' \in [Sender -> Nat] /\ tag' \in [Sender -> Nat]
          /\ AtBarrier'
      BY <3>1, <3>2 DEF TypeInv, TypeOK, AtBarrier, PCs
    <3> QED
      BY <1>1, <2>2, <3>3 DEF Get, TypeInv, TypeOK, sharedVars
  <2> QED
    BY <2>3, <2>4
<1>2. ASSUME NEW s \in Sender, Loop(s) PROVE TypeInv'
  <2> DEFINE Types == /\ installed' \in [Conn -> SUBSET Nat]
                      /\ pc' \in [Sender -> PCs] /\ cur' \in [Sender -> Seq(Kind)]
                      /\ AtBarrier'
  <2>0. ASSUME cur[s] = <<>> PROVE Types
    <3>1. /\ pc' = [pc EXCEPT ![s] = IF cb[s] # 0 THEN "callback" ELSE "get"]
          /\ cur' = cur
          /\ installed' = IF Open(sdp[s])
                          THEN [installed EXCEPT ![sdp[s]] = @ \cup {tag[s]}]
                          ELSE installed
      BY <1>2, <2>0 DEF Loop
    <3>2. tag[s] \in Nat
      BY DEF TypeInv, TypeOK
    <3>3. \A d \in Conn : installed[d] \cup {tag[s]} \in SUBSET Nat
      BY <3>2 DEF TypeInv, TypeOK
    <3>4. installed' \in [Conn -> SUBSET Nat]
      BY <3>1, <3>3 DEF TypeInv, TypeOK
    <3> QED
      BY <3>1, <3>4 DEF TypeInv, TypeOK, AtBarrier, PCs
  <2>1. ASSUME cur[s] # <<>>, stopped[s] \/ Head(cur[s]) = "bar" PROVE Types
    BY ZenonT(60), <1>2, <2>1 DEF Loop, TypeInv, TypeOK, AtBarrier, PCs
  <2>2. ASSUME cur[s] # <<>>, ~stopped[s], Head(cur[s]) = "msg" PROVE Types
    <3>1. cur' = [cur EXCEPT ![s] = Tail(@)] /\ UNCHANGED <<pc, installed>>
      BY <1>2, <2>2 DEF Loop
    <3>2. Tail(cur[s]) \in Seq(Kind)
      BY <2>2 DEF TypeInv, TypeOK
    <3> QED
      BY <1>2, <3>1, <3>2 DEF Loop, TypeInv, TypeOK, AtBarrier
  <2>4. Types
    BY <1>2, <2>0, <2>1, <2>2 DEF Loop
  <2>3. Fresh'
    BY SMTT(60), <1>2 DEF Loop, TypeInv, TypeOK, Fresh, sharedVars
  <2> QED
    BY <1>2, <2>3, <2>4 DEF Loop, TypeInv, TypeOK, sharedVars
<1>3. ASSUME NEW s \in Sender, Register(s) PROVE TypeInv'
  BY <1>3 DEF Register, TypeInv, TypeOK, Fresh, AtBarrier, sharedVars, PCs
<1>4. ASSUME NEW s \in Sender, SendBarrier(s) PROVE TypeInv'
  BY <1>4 DEF SendBarrier, TypeInv, TypeOK, Fresh, AtBarrier, sharedVars, PCs
<1>5. ASSUME NEW s \in Sender, Wake(s) PROVE TypeInv'
  BY ZenonT(60), <1>5 DEF Wake, TypeInv, TypeOK, Fresh, AtBarrier, sharedVars, PCs
<1>6. ASSUME NEW s \in Sender, Timeout(s) PROVE TypeInv'
  BY <1>6 DEF Timeout, TypeInv, TypeOK, Fresh, AtBarrier, sharedVars, PCs
<1>7. ASSUME NEW s \in Sender, Discard(s) PROVE TypeInv'
  <2>1. cur' \in [Sender -> Seq(Kind)]
    BY <1>7 DEF Discard, TypeInv, TypeOK, AtBarrier
  <2>2. pc' \in [Sender -> PCs] /\ AtBarrier' /\ Fresh'
    BY <1>7 DEF Discard, TypeInv, TypeOK, Fresh, AtBarrier, sharedVars, PCs
  <2> QED
    BY <1>7, <2>1, <2>2 DEF Discard, TypeInv, TypeOK, sharedVars
<1>8. ASSUME NEW s \in Sender, Callback(s) PROVE TypeInv'
  BY SMTT(60), <1>8 DEF Callback, TypeInv, TypeOK, Fresh, AtBarrier, sharedVars, PCs
<1>9. ASSUME NEW s \in Sender, Crash(s) PROVE TypeInv'
  BY ZenonT(60), <1>9 DEF Crash, TypeInv, TypeOK, Fresh, AtBarrier, sharedVars, PCs
<1>10. ASSUME NEW x \in answered, BarrierReply(x) PROVE TypeInv'
  BY <1>10, ReceiveType DEF BarrierReply, complete_barrier, TypeInv, TypeOK,
     Fresh, AtBarrier, confVars, senderVars, workerVars
<1>11. ASSUME NEW c \in Conn, Features(c) PROVE TypeInv'
  <2>1. Item(FeatBatch, 0, 0) \in ItemSet
    BY ItemType, BatchAssumption
  <2>2. SenderTypes'
    BY <1>11, <2>1, SubmitType DEF Features, workerVars
  <2>3. events' \in Seq(Event)
    BY <1>11, ReceiveType DEF Features
  <2> QED
    BY <1>11, <2>2, <2>3 DEF Features, SenderTypes, TypeInv, TypeOK, AtBarrier,
       confVars, waitVars, workerVars
<1>12. ASSUME NEW c \in Conn, DatapathConnect(c) PROVE TypeInv'
  <2>1. Item(ColdBatch, 0, gen) \in ItemSet
    BY ItemType, BatchAssumption DEF TypeInv, TypeOK
  <2>2. applied' \in BOOLEAN /\ running' \in BOOLEAN
    BY <1>12, Zenon DEF DatapathConnect
  <2>3. SenderTypes'
    <3>1. CASE dpset = 0
      BY <1>12, <3>1 DEF DatapathConnect, SenderTypes, TypeInv, TypeOK, Fresh,
         senderVars, workerVars
    <3>2. CASE dpset # 0
      <4>1. submit_to_sender(dpset, Item(ColdBatch, 0, gen)) /\ UNCHANGED pc
        BY <1>12, <3>2 DEF DatapathConnect, workerVars
      <4> QED
        BY <2>1, <3>2, <4>1, SubmitType DEF TypeInv, TypeOK
    <3> QED
      BY <3>1, <3>2
  <2>4. events' \in Seq(Event)
    BY <1>12, ReceiveType DEF DatapathConnect
  <2> QED
    BY <1>12, <2>2, <2>3, <2>4 DEF DatapathConnect, SenderTypes, TypeInv,
       TypeOK, AtBarrier, waitVars, workerVars
<1>13. ASSUME NEW c \in Conn, DatapathDisconnect(c) PROVE TypeInv'
  BY <1>13, ReceiveType DEF DatapathDisconnect, cancel_barriers, TypeInv,
     TypeOK, Fresh, AtBarrier, confVars, senderVars, workerVars
<1>14. ASSUME StopSender PROVE TypeInv'
  <2>1. running' \in BOOLEAN
    BY <1>14, Zenon DEF StopSender, TypeInv, TypeOK
  <2>2. \A t \in Sender : Put(queue[t], t, StopItem) \in Seq(ItemSet)
    BY StopItemType DEF Put, TypeInv, TypeOK
  <2>3. queue' \in [Sender -> Seq(ItemSet)] /\ stopped' \in [Sender -> BOOLEAN]
    BY <1>14, <2>2 DEF StopSender, TypeInv, TypeOK
  <2>4. Fresh' /\ reg' \in 0..created'
    BY <1>14 DEF StopSender, TypeInv, TypeOK, Fresh, workerVars, Sender
  <2>5. /\ chan' \in [Conn -> {"none", "hand", "main", "closed"}]
        /\ disp' \in [op : {"idle", "leave", "cold"}, c : Conn \cup {0}]
    BY <1>14 DEF StopSender, Idle, TypeInv, TypeOK
  <2> QED
    BY <1>14, <2>1, <2>3, <2>4, <2>5 DEF StopSender, TypeInv, TypeOK, AtBarrier,
       waitVars, workerVars
<1>15. ASSUME ReloadCold PROVE TypeInv'
  <2>1. applied' \in BOOLEAN /\ running' \in BOOLEAN
    BY <1>15, Zenon DEF ReloadCold, TypeInv, TypeOK
  <2>2. /\ event' \in [Sender -> BOOLEAN]
        /\ cancelled' \subseteq Nat /\ waiters' \subseteq Nat
    BY <1>15 DEF ReloadCold, cancel_barriers, waitVars, TypeInv, TypeOK
  <2>3. gen' \in Nat
    BY <1>15 DEF ReloadCold, TypeInv, TypeOK
  <2>4. disp' \in [op : {"idle", "leave", "cold"}, c : Conn \cup {0}]
    <3>1. dpset \in Conn \cup {0}
      BY DEF TypeInv, TypeOK
    <3> QED
      BY <1>15, <3>1 DEF ReloadCold, TypeInv, TypeOK
  <2> QED
    BY <1>15, <2>1, <2>2, <2>3, <2>4 DEF ReloadCold, TypeInv, TypeOK, Fresh, AtBarrier,
       senderVars, workerVars
<1>16. ASSUME NEW batch \in ConfBatches, ReloadWarm(batch) PROVE TypeInv'
  <2> DEFINE item == IF running THEN Item(batch, gen', gen')
                     ELSE Item(<<>>, gen', 0)
  <2>1. gen' \in Nat
    BY <1>16 DEF ReloadWarm, TypeInv, TypeOK
  <2>2. item \in ItemSet
    <3>1. batch \in Seq(Kind) /\ <<>> \in Seq(Kind)
      BY BatchAssumption
    <3> QED
      BY <2>1, <3>1 DEF Item, ItemSet
  <2>3. applied' \in BOOLEAN
    BY <1>16, Zenon DEF ReloadWarm
  <2>4. SenderTypes'
    <3>1. CASE dpset = 0
      BY <1>16, <3>1 DEF ReloadWarm, SenderTypes, TypeInv, TypeOK, Fresh,
         senderVars, workerVars
    <3>2. CASE dpset # 0
      <4>1. submit_to_sender(dpset, item) /\ UNCHANGED pc
        BY <1>16, <3>2 DEF ReloadWarm, workerVars
      <4> QED
        BY <2>2, <3>2, <4>1, SubmitType DEF TypeInv, TypeOK
    <3> QED
      BY <3>1, <3>2
  <2> QED
    BY <1>16, <2>1, <2>3, <2>4 DEF ReloadWarm, SenderTypes, TypeInv, TypeOK,
       AtBarrier, waitVars, workerVars
<1>17. ASSUME Service PROVE TypeInv'
  <2>1. Item(ServBatch, 0, 0) \in ItemSet
    BY ItemType, BatchAssumption
  <2>2. /\ submit_to_sender(dpset, Item(ServBatch, 0, 0)) /\ UNCHANGED pc
        /\ dpset \in Conn
    BY <1>17 DEF Service, workerVars, TypeInv, TypeOK
  <2>3. SenderTypes'
    BY <2>1, <2>2, SubmitType
  <2>4. /\ services' = services + 1
        /\ UNCHANGED <<chan, dpset, events, waiters, event, cancelled, applied,
                       gen, running, disp, answered>>
        /\ UNCHANGED <<pc, cur, cb, tag, xid, ok, nextXid, sent, installed>>
    BY <1>17 DEF Service, confVars, waitVars, workerVars
  <2>5. AtBarrier'
    BY <2>4 DEF TypeInv, AtBarrier
  <2>6. TypeOK'
    <3>1. services' \in Nat
      BY <2>4 DEF TypeInv, TypeOK
    <3> QED
      BY <2>3, <2>4, <3>1, ZenonT(60) DEF SenderTypes, TypeInv, TypeOK
  <2> QED
    BY <2>3, <2>5, <2>6 DEF SenderTypes, TypeInv
<1>18. ASSUME NEW c \in Conn,
              Connect(c) \/ DPSetRegister(c) \/ DPSetUnregister(c) \/ Drop(c)
       PROVE  TypeInv'
  <2>1. c \in Nat
    BY DEF Conn
  <2>2. events' \in Seq(Event)
    BY <1>18, <2>1, PostType DEF Connect, DPSetRegister, DPSetUnregister, Drop,
       TypeInv, TypeOK
  <2>3. chan' \in [Conn -> {"none", "hand", "main", "closed"}]
    BY ZenonT(60), <1>18 DEF Connect, DPSetRegister, DPSetUnregister, Drop, TypeInv, TypeOK
  <2>4. dpset' \in Conn \cup {0} /\ UNCHANGED <<innerVars, answered>>
    BY <1>18 DEF Connect, DPSetRegister, DPSetUnregister, Drop, TypeInv, TypeOK
  <2> QED
    BY <2>2, <2>3, <2>4 DEF TypeInv, TypeOK, Fresh, AtBarrier, innerVars,
       confVars, waitVars, senderVars, workerVars
<1>19. ASSUME NEW b \in sent, SwitchReply(b) PROVE TypeInv'
  <2>1. b.xid \in Nat
    BY DEF TypeInv, TypeOK
  <2>2. events' \in Seq(Event)
    BY <1>19, <2>1, PostType DEF SwitchReply
  <2> QED
    BY <1>19, <2>1, <2>2 DEF SwitchReply, TypeInv, TypeOK, Fresh, AtBarrier,
       innerVars, confVars, waitVars, senderVars, workerVars
<1>20. CASE UNCHANGED vars
  BY <1>20 DEF vars, TypeInv, TypeOK, Fresh, AtBarrier
<1> QED
  BY <1>1, <1>2, <1>3, <1>4, <1>5, <1>6, <1>7, <1>8, <1>9, <1>10, <1>11, <1>12,
     <1>13, <1>14, <1>15, <1>16, <1>17, <1>18, <1>19, <1>20
  DEF Next, Worker, Dispatch, Reload, DPSetStep

\* Every variable keeps its type, whatever the bounds and the batches; in
\* particular no worker exists that is bound to no connection.
THEOREM TypeCorrect == Spec => []TypeOK
<1>1. TypeInv => TypeOK
  BY DEF TypeInv
<1> QED
  BY <1>1, InitTypeInv, NextTypeInv, PTL DEF Spec

-----------------------------------------------------------------------------
(***************************************************************************)
(* The barrier protocol.  The inductive invariant follows one barrier from *)
(* register_barrier to discard_barrier:                                    *)
(*   - an Event that is set belongs to a barrier answered or cancelled;    *)
(*   - a barrier sent and neither answered nor cancelled is the latest of  *)
(*     its sender, which is stuck at it or has ended;                      *)
(*   - xids in use are distinct and older than the next one;               *)
(*   - a barrier in use has its waiter registered, or its Event set;       *)
(*   - an answered barrier with a waiter has its reply in the event queue. *)
(***************************************************************************)
Acked == answered \cup cancelled

EventAcked == \A s \in Sender : event[s] => xid[s] \in Acked

Stuck(s) ==
  \/ pc[s] = "wait" /\ ~event[s]
  \/ pc[s] = "discard" /\ ~ok[s]
  \/ pc[s] = "exited"

Held == \A b \in sent : b.xid \in Acked \/ (b.xid = xid[b.s] /\ Stuck(b.s))

XidBound ==
  /\ \A s \in Sender : xid[s] < nextXid
  /\ \A b \in sent : b.xid < nextXid
  /\ \A x \in answered : x < nextXid

OwnXid ==
  \A s, t \in Sender :
    s # t /\ pc[s] \in {"sendbar", "wait", "discard"} => xid[s] # xid[t]

Registered ==
  \A s \in Sender :
    pc[s] \in {"sendbar", "wait"} => xid[s] \in waiters \/ event[s]

ReplyQueued(x) ==
  \E i \in 1..Len(events) : events[i] = [op |-> "reply", n |-> x]

Pending == \A x \in waiters \cap answered : ReplyQueued(x)

SafeInv == /\ EventAcked /\ Held /\ XidBound /\ OwnXid /\ Registered
           /\ RegistryNoLeak /\ Pending

\* The parts that imply what is checked.
LEMMA SafeInvImplies ==
  TypeInv /\ SafeInv => HeldAtBarrier /\ NoLostWakeup /\ RegistryNoLeak
<1> SUFFICES ASSUME TypeInv, SafeInv
             PROVE  HeldAtBarrier /\ NoLostWakeup /\ RegistryNoLeak
  OBVIOUS
<1>1. HeldAtBarrier
  BY DEF SafeInv, Held, Stuck, Acked, HeldAtBarrier
<1>2. NoLostWakeup
  BY DEF SafeInv, Registered, Pending, ReplyQueued, NoLostWakeup
<1> QED
  BY <1>1, <1>2 DEF SafeInv

LEMMA InitSafeInv == Init => SafeInv
<1> SUFFICES ASSUME Init PROVE SafeInv
  OBVIOUS
<1>1. EventAcked
  BY DEF Init, EventAcked
<1>2. Held /\ XidBound /\ Registered /\ OwnXid /\ RegistryNoLeak /\ Pending
  BY DEF Init, Held, XidBound, Registered, OwnXid, RegistryNoLeak, Pending
<1> QED
  BY <1>1, <1>2 DEF SafeInv

\* Putting an event on the queue loses no reply; a reply that is put there is
\* found there.
LEMMA PostPending ==
  ASSUME TypeInv, Pending, NEW op, NEW n, Post(op, n), UNCHANGED waiters,
         \A x \in answered' : x \in answered \/ (op = "reply" /\ x = n)
  PROVE  Pending'
<1> SUFFICES ASSUME NEW x \in waiters' \cap answered' PROVE ReplyQueued(x)'
  BY DEF Pending
<1> DEFINE ev == [op |-> op, n |-> n]
<1>1. /\ events' = Append(events, ev) /\ Len(events) \in Nat
      /\ Len(events') = Len(events) + 1
      /\ events'[Len(events) + 1] = ev
      /\ \A i \in 1..Len(events) : events'[i] = events[i]
  BY DEF Post, TypeInv, TypeOK
<1>2. CASE x \in answered
  <2>1. PICK i \in 1..Len(events) : events[i] = [op |-> "reply", n |-> x]
    BY <1>2 DEF Pending, ReplyQueued
  <2> QED
    BY <1>1, <2>1 DEF ReplyQueued
<1>3. CASE op = "reply" /\ x = n
  BY <1>1, <1>3 DEF ReplyQueued
<1> QED
  BY <1>2, <1>3

\* Taking an event off the queue loses only the reply that is handled.
LEMMA ReceivePending ==
  ASSUME TypeInv, Pending, NEW op, NEW n, Receive(op, n),
         waiters' \subseteq waiters, UNCHANGED answered,
         op # "reply" \/ n \notin waiters'
  PROVE  Pending'
<1> SUFFICES ASSUME NEW x \in waiters' \cap answered' PROVE ReplyQueued(x)'
  BY DEF Pending
<1>1. PICK i \in 1..Len(events) : events[i] = [op |-> "reply", n |-> x]
  BY DEF Pending, ReplyQueued
<1>2. /\ events' = Tail(events) /\ Len(events) \in Nat /\ Len(events) > 0
      /\ events[1] = [op |-> op, n |-> n]
      /\ Len(events') = Len(events) - 1
      /\ \A j \in 1..Len(events') : events'[j] = events[j + 1]
  <2>1. /\ events \in Seq(Event) /\ events # <<>> /\ events' = Tail(events)
        /\ Head(events) = [op |-> op, n |-> n]
    BY DEF Receive, TypeInv, TypeOK
  <2>2. /\ Len(events) \in Nat /\ Len(events) > 0
        /\ Len(Tail(events)) = Len(events) - 1
    BY <2>1
  <2>3. \A j \in 1..Len(Tail(events)) : Tail(events)[j] = events[j + 1]
    BY <2>1, <2>2
  <2>4. events[1] = Head(events)
    BY <2>1, <2>2
  <2> QED
    BY <2>1, <2>2, <2>3, <2>4
<1>3. i # 1
  BY <1>1, <1>2
<1>4. i - 1 \in 1..Len(events') /\ events'[i - 1] = [op |-> "reply", n |-> x]
  BY <1>1, <1>2, <1>3
<1> QED
  BY <1>4 DEF ReplyQueued

\* A step that does not touch the protocol's state keeps the invariant.
LEMMA QuietStep ==
  ASSUME SafeInv, Pending',
         UNCHANGED <<pc, xid, event, ok, waiters, sent, answered, cancelled, nextXid>>
  PROVE  SafeInv'
BY DEF SafeInv, EventAcked, Held, Stuck, Acked, XidBound, OwnXid, Registered,
   RegistryNoLeak

\* So does a worker's step outside _send_barrier.
LEMMA OutsideStep ==
  ASSUME TypeInv, SafeInv, NEW s \in Sender,
         pc[s] \in {"get", "loop", "register", "callback"},
         NEW l \in {"get", "loop", "register", "callback", "exited"},
         pc' = [pc EXCEPT ![s] = l],
         UNCHANGED <<xid, event, waiters, sent, answered, cancelled, nextXid, events>>,
         \A t \in Sender \ {s} : ok'[t] = ok[t]
  PROVE  SafeInv'
<1>1. Held'
  BY DEF SafeInv, Held, Stuck, Acked, TypeInv, TypeOK
<1>2. RegistryNoLeak'
  <2> SUFFICES ASSUME NEW x \in waiters
               PROVE  \E t \in Sender :
                        xid[t] = x /\ pc'[t] \in {"sendbar", "wait", "discard"}
    BY DEF RegistryNoLeak
  <2>1. PICK t \in Sender : xid[t] = x /\ pc[t] \in {"sendbar", "wait", "discard"}
    BY DEF SafeInv, RegistryNoLeak
  <2> QED
    BY <2>1 DEF TypeInv, TypeOK
<1>3. OwnXid'
  BY SMTT(60) DEF SafeInv, OwnXid, TypeInv, TypeOK
<1>4. Registered'
  BY SMTT(60) DEF SafeInv, Registered, TypeInv, TypeOK
<1> QED
  BY <1>1, <1>2, <1>3, <1>4
  DEF SafeInv, EventAcked, Acked, XidBound, Pending, ReplyQueued

\* A worker's step from one point inside _send_barrier to another.
LEMMA InsideStep ==
  ASSUME TypeInv, SafeInv, NEW s \in Sender,
         pc[s] \in {"sendbar", "wait"}, NEW l \in {"wait", "discard"},
         l = "wait" => pc[s] = "sendbar",
         pc' = [pc EXCEPT ![s] = l],
         UNCHANGED <<xid, event, waiters, answered, cancelled, nextXid, events>>
  PROVE  EventAcked' /\ OwnXid' /\ Registered' /\ RegistryNoLeak' /\ Pending'
<1>1. EventAcked' /\ Pending'
  BY DEF SafeInv, EventAcked, Acked, Pending, ReplyQueued
<1>2. OwnXid'
  BY SMTT(60) DEF SafeInv, OwnXid, TypeInv, TypeOK
<1>4. Registered'
  BY SMTT(60) DEF SafeInv, Registered, TypeInv, TypeOK
<1>3. RegistryNoLeak'
  <2> SUFFICES ASSUME NEW x \in waiters
               PROVE  \E t \in Sender :
                        xid[t] = x /\ pc'[t] \in {"sendbar", "wait", "discard"}
    BY DEF RegistryNoLeak
  <2>1. PICK t \in Sender : xid[t] = x /\ pc[t] \in {"sendbar", "wait", "discard"}
    BY DEF SafeInv, RegistryNoLeak
  <2> QED
    BY <2>1 DEF TypeInv, TypeOK
<1> QED
  BY <1>1, <1>2, <1>3, <1>4

LEMMA RegisterSafe ==
  ASSUME TypeInv, SafeInv, NEW s \in Sender, Register(s)
  PROVE  SafeInv'
<1> USE DEF TypeInv, TypeOK, sharedVars
<1>1. EventAcked'
  BY DEF Register, SafeInv, EventAcked, Acked
<1>2. Held'
  BY DEF Register, SafeInv, Held, Stuck, Acked
<1>3. XidBound'
  BY SMTT(60) DEF Register, SafeInv, XidBound
<1>4. OwnXid'
  BY SMTT(60) DEF Register, SafeInv, OwnXid, XidBound
<1>5. Registered'
  BY DEF Register, SafeInv, Registered
<1>6. RegistryNoLeak'
  <2> SUFFICES ASSUME NEW x \in waiters'
               PROVE  \E t \in Sender :
                        xid'[t] = x /\ pc'[t] \in {"sendbar", "wait", "discard"}
    BY DEF RegistryNoLeak
  <2>1. CASE x = nextXid
    BY <2>1 DEF Register
  <2>2. CASE x \in waiters
    <3>1. PICK t \in Sender : xid[t] = x /\ pc[t] \in {"sendbar", "wait", "discard"}
      BY <2>2 DEF SafeInv, RegistryNoLeak
    <3> QED
      BY <3>1 DEF Register
  <2> QED
    BY <2>1, <2>2 DEF Register
<1>7. Pending'
  <2>1. nextXid \notin answered
    BY DEF SafeInv, XidBound
  <2> QED
    BY <2>1 DEF Register, SafeInv, Pending, ReplyQueued
<1> QED
  BY <1>1, <1>2, <1>3, <1>4, <1>5, <1>6, <1>7 DEF SafeInv

LEMMA SendBarrierSafe ==
  ASSUME TypeInv, SafeInv, NEW s \in Sender, SendBarrier(s)
  PROVE  SafeInv'
<1> USE DEF TypeInv, TypeOK, sharedVars
<1>1. EventAcked' /\ OwnXid' /\ Registered' /\ RegistryNoLeak' /\ Pending'
  BY InsideStep DEF SendBarrier
<1>2. Held'
  <2> SUFFICES ASSUME NEW b \in sent'
               PROVE  b.xid \in Acked \/ (b.xid = xid[b.s] /\ Stuck(b.s)')
    BY DEF Held, Acked, SendBarrier
  <2>1. CASE b \in sent
    BY <2>1 DEF SendBarrier, SafeInv, Held, Stuck, Acked
  <2>2. CASE b = [xid |-> xid[s], s |-> s, c |-> sdp[s]]
    BY <2>2 DEF SendBarrier, SafeInv, EventAcked, Stuck, Acked
  <2> QED
    BY <2>1, <2>2 DEF SendBarrier
<1>3. XidBound'
  BY DEF SendBarrier, SafeInv, XidBound
<1> QED
  BY <1>1, <1>2, <1>3 DEF SafeInv

LEMMA WaitOverSafe ==
  ASSUME TypeInv, SafeInv, NEW s \in Sender,
         \/ Wake(s) \/ Timeout(s)
         \/ Crash(s) /\ pc[s] = "sendbar"
  PROVE  SafeInv'
<1> USE DEF TypeInv, TypeOK, sharedVars
<1>1. /\ pc[s] \in {"sendbar", "wait"} /\ pc' = [pc EXCEPT ![s] = "discard"]
      /\ UNCHANGED <<xid, event, waiters, sent, answered, cancelled, nextXid, events>>
      /\ \E v \in BOOLEAN : ok' = [ok EXCEPT ![s] = v]
      /\ ok'[s] => pc[s] = "wait" /\ event[s]
  BY DEF Wake, Timeout, Crash
<1>2. EventAcked' /\ OwnXid' /\ Registered' /\ RegistryNoLeak' /\ Pending'
  BY <1>1, InsideStep
<1>3. Held'
  BY <1>1 DEF SafeInv, Held, Stuck, EventAcked, Acked
<1>4. XidBound'
  BY <1>1 DEF SafeInv, XidBound
<1> QED
  BY <1>2, <1>3, <1>4 DEF SafeInv

LEMMA DiscardSafe ==
  ASSUME TypeInv, SafeInv, NEW s \in Sender, Discard(s)
  PROVE  SafeInv'
<1> USE DEF TypeInv, TypeOK, sharedVars
<1>1. EventAcked' /\ XidBound' /\ OwnXid'
  BY DEF Discard, SafeInv, EventAcked, Acked, XidBound, OwnXid
<1>2. Held'
  BY DEF Discard, SafeInv, Held, Stuck, Acked
<1>3. Registered'
  BY DEF Discard, SafeInv, Registered, OwnXid
<1>4. RegistryNoLeak'
  <2> SUFFICES ASSUME NEW x \in waiters'
               PROVE  \E t \in Sender :
                        xid[t] = x /\ pc'[t] \in {"sendbar", "wait", "discard"}
    BY DEF RegistryNoLeak, Discard
  <2>1. PICK t \in Sender : xid[t] = x /\ pc[t] \in {"sendbar", "wait", "discard"}
    BY DEF SafeInv, RegistryNoLeak, Discard
  <2>2. t # s
    BY <2>1 DEF Discard
  <2> QED
    BY <2>1, <2>2 DEF Discard
<1>5. Pending'
  BY DEF Discard, SafeInv, Pending, ReplyQueued
<1> QED
  BY <1>1, <1>2, <1>3, <1>4, <1>5 DEF SafeInv

LEMMA BarrierReplySafe ==
  ASSUME TypeInv, SafeInv, NEW x \in answered, BarrierReply(x)
  PROVE  SafeInv'
<1> USE DEF TypeInv, TypeOK, workerVars, senderVars, confVars
<1>1. EventAcked' /\ XidBound' /\ OwnXid'
  BY DEF BarrierReply, complete_barrier, SafeInv, EventAcked, Acked, XidBound, OwnXid
<1>2. Held'
  BY DEF BarrierReply, complete_barrier, SafeInv, Held, Stuck, Acked
<1>3. Registered'
  BY ZenonT(60) DEF BarrierReply, complete_barrier, SafeInv, Registered
<1>4. RegistryNoLeak'
  BY DEF BarrierReply, complete_barrier, SafeInv, RegistryNoLeak
<1>5. Pending'
  BY ReceivePending DEF BarrierReply, complete_barrier, SafeInv
<1> QED
  BY <1>1, <1>2, <1>3, <1>4, <1>5 DEF SafeInv

\* cancel_barriers, with the event queue unchanged or shortened.
LEMMA CancelSafe ==
  ASSUME TypeInv, SafeInv, cancel_barriers,
         UNCHANGED <<pc, xid, ok, sent, answered, nextXid>>
  PROVE  SafeInv'
<1> USE DEF TypeInv, TypeOK
<1>1. EventAcked' /\ XidBound' /\ OwnXid'
  BY DEF cancel_barriers, SafeInv, EventAcked, Acked, XidBound, OwnXid
<1>2. Held'
  BY DEF cancel_barriers, SafeInv, Held, Stuck, Acked
<1>3. Registered'
  BY DEF cancel_barriers, SafeInv, Registered
<1>4. RegistryNoLeak' /\ Pending'
  BY DEF cancel_barriers, RegistryNoLeak, Pending
<1> QED
  BY <1>1, <1>2, <1>3, <1>4 DEF SafeInv

LEMMA SwitchReplySafe ==
  ASSUME TypeInv, SafeInv, NEW b \in sent, SwitchReply(b)
  PROVE  SafeInv'
<1> USE DEF TypeInv, TypeOK, innerVars, waitVars, workerVars, senderVars, confVars
<1>1. EventAcked' /\ XidBound' /\ OwnXid'
  BY DEF SwitchReply, SafeInv, EventAcked, Acked, XidBound, OwnXid
<1>2. Held' /\ Registered' /\ RegistryNoLeak'
  BY DEF SwitchReply, SafeInv, Held, Stuck, Acked, Registered, RegistryNoLeak
<1>3. Pending'
  BY PostPending DEF SwitchReply, SafeInv
<1> QED
  BY <1>1, <1>2, <1>3 DEF SafeInv

LEMMA NextSafeInv == TypeInv /\ SafeInv /\ [Next]_vars => SafeInv'
<1> SUFFICES ASSUME TypeInv, SafeInv, [Next]_vars PROVE SafeInv'
  OBVIOUS
<1>1. ASSUME NEW s \in Sender, Worker(s) \/ Crash(s) PROVE SafeInv'
  <2>1. CASE Get(s)
    BY <2>1, OutsideStep DEF Get, sharedVars
  <2>2. CASE Loop(s)
    <3>1. CASE UNCHANGED pc
      BY <2>2, <3>1, QuietStep
      DEF Loop, sharedVars, SafeInv, Pending, ReplyQueued
    <3>2. CASE ~UNCHANGED pc
      <4>1. \E l \in {"get", "callback", "exited", "register"} :
              pc' = [pc EXCEPT ![s] = l]
        BY <2>2, <3>2 DEF Loop
      <4> QED
        BY <2>2, <4>1, OutsideStep DEF Loop, sharedVars
    <3> QED
      BY <3>1, <3>2
  <2>3. CASE Register(s)
    BY <2>3, RegisterSafe
  <2>4. CASE SendBarrier(s)
    BY <2>4, SendBarrierSafe
  <2>5. CASE Wake(s) \/ Timeout(s) \/ (Crash(s) /\ pc[s] = "sendbar")
    BY <2>5, WaitOverSafe
  <2>6. CASE Discard(s)
    BY <2>6, DiscardSafe
  <2>7. CASE Callback(s)
    BY <2>7, OutsideStep DEF Callback, sharedVars
  <2>8. CASE Crash(s) /\ pc[s] # "sendbar"
    BY <2>8, OutsideStep DEF Crash, sharedVars, TypeInv, TypeOK
  <2> QED
    BY <1>1, <2>1, <2>2, <2>3, <2>4, <2>5, <2>6, <2>7, <2>8 DEF Worker
<1>2. ASSUME NEW x \in answered, BarrierReply(x) PROVE SafeInv'
  BY <1>2, BarrierReplySafe
<1>3. ASSUME NEW c \in Conn, Features(c) \/ DatapathConnect(c) PROVE SafeInv'
  <2>1. UNCHANGED <<pc, xid, event, ok, waiters, sent, answered, cancelled, nextXid>>
    BY <1>3 DEF Features, DatapathConnect, waitVars, workerVars
  <2>2. Receive("features", c) \/ Receive("enter", c)
    BY <1>3 DEF Features, DatapathConnect
  <2>3. Pending'
    BY <2>1, <2>2, ReceivePending DEF SafeInv
  <2> QED
    BY <2>1, <2>3, QuietStep
<1>4. ASSUME NEW c \in Conn, DatapathDisconnect(c) PROVE SafeInv'
  BY <1>4, CancelSafe DEF DatapathDisconnect, workerVars
<1>5. CASE StopSender \/ Service \/ \E batch \in ConfBatches : ReloadWarm(batch)
  <2>1. UNCHANGED <<pc, xid, event, ok, waiters, sent, answered, cancelled, nextXid, events>>
    BY <1>5 DEF StopSender, Service, ReloadWarm, waitVars, workerVars
  <2> QED
    BY <2>1, QuietStep DEF SafeInv, Pending, ReplyQueued
<1>6. CASE ReloadCold
  <2>1. CASE dpset = 0
    BY <1>6, <2>1, QuietStep
    DEF ReloadCold, waitVars, workerVars, SafeInv, Pending, ReplyQueued
  <2>2. CASE dpset # 0
    BY <1>6, <2>2, CancelSafe DEF ReloadCold, workerVars
  <2> QED
    BY <2>1, <2>2
<1>7. ASSUME NEW c \in Conn,
             Connect(c) \/ DPSetRegister(c) \/ DPSetUnregister(c) \/ Drop(c)
      PROVE  SafeInv'
  <2>1. UNCHANGED <<pc, xid, event, ok, waiters, sent, answered, cancelled, nextXid>>
    BY <1>7 DEF Connect, DPSetRegister, DPSetUnregister, Drop, innerVars,
       waitVars, workerVars
  <2>2. (\E op \in {"features", "enter", "leave"} : Post(op, c)) \/ UNCHANGED events
    BY <1>7 DEF Connect, DPSetRegister, DPSetUnregister, Drop
  <2>3. Pending'
    BY <2>1, <2>2, PostPending DEF SafeInv, Pending, ReplyQueued
  <2> QED
    BY <2>1, <2>3, QuietStep
<1>8. ASSUME NEW b \in sent, SwitchReply(b) PROVE SafeInv'
  BY <1>8, SwitchReplySafe
<1>9. CASE UNCHANGED vars
  BY <1>9, QuietStep DEF vars, SafeInv, Pending, ReplyQueued
<1> QED
  BY <1>1, <1>2, <1>3, <1>4, <1>5, <1>6, <1>7, <1>8, <1>9
  DEF Next, Dispatch, Reload, DPSetStep

LEMMA Safe == Spec => [](TypeInv /\ SafeInv)
<1>1. Init => TypeInv /\ SafeInv
  BY InitTypeInv, InitSafeInv
<1>2. (TypeInv /\ SafeInv) /\ [Next]_vars => (TypeInv /\ SafeInv)'
  BY NextTypeInv, NextSafeInv
<1> QED
  BY <1>1, <1>2, PTL DEF Spec

\* No worker is past a barrier that was neither answered nor cancelled: the
\* ordering the barriers of a batch are there to give.
THEOREM BarriersHold == Spec => []HeldAtBarrier
BY Safe, SafeInvImplies, PTL

\* Whenever the dispatch thread has handled a barrier's reply, the worker that
\* waits for it has been signalled, however the two threads interleave.
THEOREM WakeupsReachWorkers == Spec => []NoLostWakeup
BY Safe, SafeInvImplies, PTL

\* The waiter registry holds only barriers some worker is still inside of.
THEOREM RegistryBounded == Spec => []RegistryNoLeak
BY Safe, SafeInvImplies, PTL

-----------------------------------------------------------------------------
(***************************************************************************)
(* Dead senders.  A worker ends because it was stopped, and then it is out *)
(* of the table, or because a barrier timed out, and then its channel is   *)
(* closed.  That send_msg does not raise is needed: the exception handler  *)
(* of _run leaves both the table and the channel alone.                    *)
(***************************************************************************)
StopQueued ==
  \A s \in Sender : \A i \in 1..Len(queue[s]) : queue[s][i].stop => stopped[s]

Ended(s) == pc[s] = "exited" \/ (pc[s] = "discard" /\ ~ok[s])

DeadInv ==
  /\ \A s \in Sender : Ended(s) => stopped[s] \/ chan[sdp[s]] = "closed"
  /\ reg # 0 => ~stopped[reg]
  /\ \A s \in Sender : s > created => ~stopped[s]
  /\ StopQueued

\* A channel once closed stays closed; a sender's connection never changes.
LEMMA ClosedStays ==
  ASSUME TypeInv, [Next]_vars, NEW c \in Conn, chan[c] = "closed"
  PROVE  chan'[c] = "closed"
<1>1. ASSUME NEW s \in Sender, Worker(s) \/ Crash(s) PROVE chan'[c] = "closed"
  BY <1>1 DEF Worker, Get, Loop, Register, SendBarrier, Wake, Timeout, Discard,
     Callback, Crash, TypeInv, TypeOK
<1>2. CASE Dispatch
  BY <1>2 DEF Dispatch, BarrierReply, Features, DatapathConnect,
     DatapathDisconnect, StopSender, TypeInv, TypeOK
<1>3. CASE Reload \/ Service
  BY <1>3 DEF Reload, ReloadCold, ReloadWarm, Service
<1>4. CASE DPSetStep \/ (\E d \in Conn : Connect(d) \/ Drop(d)) \/ \E b \in sent : SwitchReply(b)
  BY <1>4 DEF DPSetStep, DPSetRegister, DPSetUnregister, Connect, Drop, Open,
     SwitchReply, TypeInv, TypeOK
<1>5. CASE UNCHANGED vars
  BY <1>5 DEF vars
<1> QED
  BY <1>1, <1>2, <1>3, <1>4, <1>5 DEF Next

LEMMA SubmitDead ==
  ASSUME TypeInv, DeadInv, NEW c \in Conn, NEW item \in ItemSet, ~item.stop,
         submit_to_sender(c, item), UNCHANGED <<pc, ok, chan>>
  PROVE  DeadInv'
<1>1. CASE item.msgs = <<>> /\ item.cb = 0
  <2>1. UNCHANGED senderVars
    BY <1>1 DEF submit_to_sender
  <2> QED
    BY <2>1 DEF senderVars, DeadInv, Ended, StopQueued
<1>2. CASE ~(item.msgs = <<>> /\ item.cb = 0)
  <2> DEFINE fresh == reg = 0 \/ sdp[reg] # c
             s0 == IF fresh THEN created + 1 ELSE reg
  <2>1. /\ s0 \in Sender
        /\ reg' = s0
        /\ created' = IF fresh THEN s0 ELSE created
        /\ sdp' = [sdp EXCEPT ![s0] = c]
        /\ stopped' = [t \in Sender |-> stopped[t] \/ (fresh /\ t = reg)]
        /\ queue' = [t \in Sender |->
             IF t = s0 THEN Put(queue[t], t, item)
             ELSE IF fresh /\ t = reg THEN Put(queue[t], t, StopItem)
             ELSE queue[t]]
    BY <1>2 DEF submit_to_sender
  <2>2. ~stopped[s0] /\ ~stopped'[s0] /\ reg' # 0
    BY <2>1, BoundsAssumption DEF DeadInv, TypeInv, TypeOK, Sender
  <2>3. \A t \in Sender : t > created' => ~stopped'[t]
    BY SMTT(60), <2>1 DEF DeadInv, TypeInv, TypeOK, Sender
  <2>4. \A t \in Sender : Ended(t)' => stopped'[t] \/ chan'[sdp'[t]] = "closed"
    <3> SUFFICES ASSUME NEW t \in Sender, Ended(t)
                 PROVE  stopped'[t] \/ chan[sdp'[t]] = "closed"
      BY DEF Ended
    <3>1. t \in 1..created /\ (stopped[t] \/ chan[sdp[t]] = "closed")
      BY DEF DeadInv, TypeInv, TypeOK, Fresh, Ended, Sender
    <3>2. sdp'[t] = sdp[t]
      BY <2>1, <3>1 DEF TypeInv, TypeOK, Sender
    <3> QED
      BY <2>1, <3>1, <3>2
  <2>5. StopQueued'
    <3> SUFFICES ASSUME NEW t \in Sender, NEW i \in 1..Len(queue'[t]),
                        queue'[t][i].stop
                 PROVE  stopped'[t]
      BY DEF StopQueued
    <3>1. queue[t] \in Seq(ItemSet)
      BY DEF TypeInv, TypeOK
    <3>2. CASE i \in 1..Len(queue[t]) /\ queue'[t][i] = queue[t][i]
      BY <2>1, <3>2 DEF DeadInv, StopQueued
    <3>3. CASE ~(i \in 1..Len(queue[t]) /\ queue'[t][i] = queue[t][i])
      <4>1. t # s0
        BY <2>1, <2>2, <3>1, <3>3 DEF Put
      <4>2. fresh /\ t = reg
        BY <2>1, <3>1, <3>3, <4>1
      <4> QED
        BY <2>1, <4>2
    <3> QED
      BY <3>2, <3>3
  <2> QED
    BY <2>2, <2>1, <2>3, <2>4, <2>5 DEF DeadInv
<1> QED
  BY <1>1, <1>2

LEMMA NextDeadInv ==
  ASSUME ~SendMayRaise
  PROVE  TypeInv /\ DeadInv /\ [Next]_vars => DeadInv'
<1> SUFFICES ASSUME TypeInv, DeadInv, [Next]_vars PROVE DeadInv'
  OBVIOUS
<1> DEFINE Inert == UNCHANGED <<reg, created, sdp, queue, stopped, pc, ok>>
<1>1. ASSUME Inert PROVE DeadInv'
  <2>1. \A s \in Sender : Ended(s)' => stopped'[s] \/ chan'[sdp'[s]] = "closed"
    <3> SUFFICES ASSUME NEW s \in Sender, Ended(s)
                 PROVE  stopped[s] \/ chan'[sdp[s]] = "closed"
      BY <1>1 DEF Ended
    <3>1. sdp[s] \in Conn
      BY DEF TypeInv, TypeOK, Fresh, Ended, Sender
    <3> QED
      BY <3>1, ClosedStays DEF DeadInv
  <2> QED
    BY <1>1, <2>1 DEF DeadInv, StopQueued
<1>2. ASSUME NEW s \in Sender, Get(s) PROVE DeadInv'
  <2>1. queue[s] \in Seq(ItemSet) /\ queue[s] # <<>>
    BY <1>2 DEF Get, TypeInv, TypeOK
  <2>2. Head(queue[s]).stop => stopped[s]
    <3>1. 1 \in 1..Len(queue[s]) /\ Head(queue[s]) = queue[s][1]
      BY <2>1
    <3> QED
      BY <3>1 DEF DeadInv, StopQueued
  <2>3. StopQueued'
    <3> SUFFICES ASSUME NEW t \in Sender, NEW i \in 1..Len(queue'[t]),
                        queue'[t][i].stop
                 PROVE  stopped[t]
      BY <1>2 DEF StopQueued, Get, sharedVars
    <3>1. CASE t = s
      <4>1. queue'[t] = Tail(queue[s])
        BY <1>2, <3>1 DEF Get, TypeInv, TypeOK
      <4>2. i + 1 \in 1..Len(queue[s]) /\ queue'[t][i] = queue[s][i + 1]
        BY <2>1, <4>1
      <4> QED
        BY <3>1, <4>2 DEF DeadInv, StopQueued
    <3>2. CASE t # s
      BY <1>2, <3>2 DEF Get, DeadInv, StopQueued, TypeInv, TypeOK
    <3> QED
      BY <3>1, <3>2
  <2> QED
    BY SMTT(60), <1>2, <2>2, <2>3 DEF Get, sharedVars, DeadInv, Ended, TypeInv, TypeOK
<1>3. ASSUME NEW s \in Sender,
             Loop(s) \/ Register(s) \/ SendBarrier(s) \/ Wake(s) \/ Callback(s)
      PROVE  DeadInv'
  <2>1. UNCHANGED <<reg, created, sdp, stopped, queue, chan>>
    BY <1>3 DEF Loop, Register, SendBarrier, Wake, Callback, sharedVars
  <2>2. \A t \in Sender : Ended(t)' => Ended(t) \/ stopped[t]
    BY SMTT(60), <1>3 DEF Loop, Register, SendBarrier, Wake, Callback, Ended, TypeInv, TypeOK
  <2> QED
    BY <2>1, <2>2 DEF DeadInv, StopQueued
<1>4. ASSUME NEW s \in Sender, Timeout(s) PROVE DeadInv'
  <2>1. UNCHANGED <<reg, created, sdp, stopped, queue>>
    BY <1>4 DEF Timeout, sharedVars
  <2>2. sdp[s] \in Conn
    BY <1>4 DEF Timeout, TypeInv, TypeOK, Fresh, Sender
  <2>3. \A t \in Sender : Ended(t)' => stopped[t] \/ chan'[sdp[t]] = "closed"
    <3> SUFFICES ASSUME NEW t \in Sender, Ended(t)'
                 PROVE  stopped[t] \/ chan'[sdp[t]] = "closed"
      OBVIOUS
    <3>1. CASE t = s
      BY <1>4, <2>2, <3>1 DEF Timeout, TypeInv, TypeOK
    <3>2. CASE t # s
      <4>1. Ended(t)
        BY <1>4, <3>2 DEF Timeout, Ended, TypeInv, TypeOK
      <4>2. sdp[t] \in Conn
        BY <4>1 DEF TypeInv, TypeOK, Fresh, Ended, Sender
      <4> QED
        BY <4>1, <4>2, ClosedStays DEF DeadInv
    <3> QED
      BY <3>1, <3>2
  <2> QED
    BY <2>1, <2>3 DEF DeadInv, StopQueued
<1>5. ASSUME NEW s \in Sender, Discard(s) PROVE DeadInv'
  <2>1. UNCHANGED <<reg, created, sdp, stopped, queue, chan>>
    BY <1>5 DEF Discard, sharedVars
  <2>2. \A t \in Sender : Ended(t)' => Ended(t)
    BY <1>5 DEF Discard, Ended, TypeInv, TypeOK
  <2> QED
    BY <2>1, <2>2 DEF DeadInv, StopQueued
<1>6. ASSUME NEW c \in Conn, Features(c) PROVE DeadInv'
  <2>1. Item(FeatBatch, 0, 0) \in ItemSet /\ ~Item(FeatBatch, 0, 0).stop
    BY ItemType, BatchAssumption DEF Item
  <2> QED
    BY <1>6, <2>1, SubmitDead DEF Features, workerVars
<1>7. ASSUME NEW c \in Conn, DatapathConnect(c) PROVE DeadInv'
  <2>1. /\ Item(ColdBatch, 0, gen) \in ItemSet
        /\ ~Item(ColdBatch, 0, gen).stop
    BY ItemType, BatchAssumption DEF Item, TypeInv, TypeOK
  <2>2. CASE dpset = 0
    BY <1>1, <1>7, <2>2 DEF DatapathConnect, senderVars, workerVars
  <2>3. CASE dpset # 0
    <3>1. /\ submit_to_sender(dpset, Item(ColdBatch, 0, gen))
          /\ UNCHANGED <<pc, ok, chan>> /\ dpset \in Conn
      BY <1>7, <2>3 DEF DatapathConnect, workerVars, TypeInv, TypeOK
    <3> QED
      BY <2>1, <3>1, SubmitDead
  <2> QED
    BY <2>2, <2>3
<1>8. ASSUME NEW batch \in ConfBatches, ReloadWarm(batch) PROVE DeadInv'
  <2> DEFINE item == IF running THEN Item(batch, gen', gen')
                     ELSE Item(<<>>, gen', 0)
  <2>1. gen' \in Nat /\ batch \in Seq(Kind) /\ <<>> \in Seq(Kind)
    BY <1>8, BatchAssumption DEF ReloadWarm, TypeInv, TypeOK
  <2>2. item \in ItemSet /\ ~item.stop
    BY <2>1 DEF Item, ItemSet
  <2>3. CASE dpset = 0
    BY <1>1, <1>8, <2>3 DEF ReloadWarm, senderVars, workerVars
  <2>4. CASE dpset # 0
    <3>1. /\ submit_to_sender(dpset, item)
          /\ UNCHANGED <<pc, ok, chan>> /\ dpset \in Conn
      BY <1>8, <2>4 DEF ReloadWarm, workerVars, TypeInv, TypeOK
    <3> QED
      BY <2>2, <3>1, SubmitDead
  <2> QED
    BY <2>3, <2>4
<1>9. ASSUME Service PROVE DeadInv'
  <2>1. Item(ServBatch, 0, 0) \in ItemSet /\ ~Item(ServBatch, 0, 0).stop
    BY ItemType, BatchAssumption DEF Item
  <2>2. /\ submit_to_sender(dpset, Item(ServBatch, 0, 0))
        /\ UNCHANGED <<pc, ok, chan>> /\ dpset \in Conn
    BY <1>9 DEF Service, workerVars, TypeInv, TypeOK
  <2> QED
    BY <2>1, <2>2, SubmitDead
<1>10. ASSUME StopSender PROVE DeadInv'
  <2>1. \A s \in Sender : Ended(s)' => stopped'[s] \/ chan'[sdp'[s]] = "closed"
    <3> SUFFICES ASSUME NEW s \in Sender, Ended(s)
                 PROVE  stopped'[s] \/ chan'[sdp[s]] = "closed"
      BY <1>10 DEF StopSender, workerVars, Ended
    <3>1. sdp[s] \in Conn
      BY DEF TypeInv, TypeOK, Fresh, Ended, Sender
    <3> QED
      BY <1>10, <3>1, ClosedStays DEF DeadInv, StopSender
  <2>2. StopQueued'
    <3> SUFFICES ASSUME NEW t \in Sender, NEW i \in 1..Len(queue'[t]),
                        queue'[t][i].stop
                 PROVE  stopped'[t]
      BY DEF StopQueued
    <3>1. CASE t = reg
      BY <1>10, <3>1 DEF StopSender
    <3>2. CASE t # reg
      BY <1>10, <3>2 DEF StopSender, DeadInv, StopQueued
    <3> QED
      BY <3>1, <3>2
  <2>3. \A s \in Sender : s > created' => ~stopped'[s]
    BY <1>10 DEF StopSender, DeadInv, TypeInv, TypeOK, Sender
  <2> QED
    BY <1>10, <2>1, <2>2, <2>3 DEF StopSender, DeadInv
<1>11. CASE \/ \E x \in answered : BarrierReply(x)
            \/ \E c \in Conn : DatapathDisconnect(c)
            \/ ReloadCold
            \/ DPSetStep
            \/ \E c \in Conn : Connect(c) \/ Drop(c)
            \/ \E b \in sent : SwitchReply(b)
            \/ UNCHANGED vars
  <2>1. Inert
    BY <1>11 DEF BarrierReply, DatapathDisconnect, ReloadCold, DPSetStep,
       DPSetRegister, DPSetUnregister, Connect, Drop, SwitchReply, vars,
       innerVars, senderVars, workerVars
  <2> QED
    BY <1>1, <2>1
<1>12. \A s \in Sender : ~Crash(s)
  BY DEF Crash
<1> QED
  BY <1>2, <1>3, <1>4, <1>5, <1>6, <1>7, <1>8, <1>9, <1>10, <1>11, <1>12
  DEF Next, Worker, Dispatch, Reload

\* If send_msg never raises, the sender in the table is alive or its channel
\* is closed: no datapath is left connected with nobody to send to it.
THEOREM DeadSendersDropChannels ==
  ASSUME ~SendMayRaise
  PROVE  Spec => []DeadSenderDropsChannel
<1>1. Init => DeadInv
  <2> SUFFICES ASSUME Init
               PROVE  DeadInv
    OBVIOUS
  <2>1. \A s \in Sender : pc[s] = "get" /\ ~stopped[s]
    BY Zenon DEF Init
  <2>2. reg = 0
    BY DEF Init
  <2>3. StopQueued
    <3>1. \A s \in Sender : queue[s] = <<>>
      BY DEF Init
    <3>2. \A s \in Sender : 1..Len(queue[s]) = {}
      BY <3>1
    <3> QED
      BY <3>2, Zenon DEF StopQueued
  <2>4. \A s \in Sender : ~Ended(s)
    BY <2>1 DEF Ended
  <2> QED
    BY <2>1, <2>2, <2>3, <2>4, Zenon DEF DeadInv
<1>2. TypeInv /\ DeadInv => DeadSenderDropsChannel
  <2> SUFFICES ASSUME TypeInv, DeadInv, reg # 0, pc[reg] = "exited"
               PROVE  chan[sdp[reg]] = "closed"
    BY DEF DeadSenderDropsChannel
  <2>1. reg \in Sender
    BY BoundsAssumption DEF TypeInv, TypeOK, Sender
  <2> QED
    BY <2>1, Zenon DEF DeadInv, Ended
<1>3. TypeInv /\ DeadInv /\ [Next]_vars => (TypeInv /\ DeadInv)'
  BY NextTypeInv, NextDeadInv
<1> QED
  BY <1>1, <1>2, <1>3, InitTypeInv, PTL DEF Spec
=============================================================================
