--------------------------- MODULE HostLearnProofs ---------------------------
(***************************************************************************)
(* Proofs about HostLearn, for any number of hosts and ports, all timeouts *)
(* and all limits.                                                         *)
(***************************************************************************)
EXTENDS HostLearn, FiniteSetTheorems, NaturalsInduction, WellFoundedInduction,
        TLAPS

-----------------------------------------------------------------------------
(***************************************************************************)
(* Arithmetic.                                                             *)
(***************************************************************************)

\* The larger of two numbers, as _jitter_learn_timeout takes it.
LEMMA MaxOfTwo ==
  ASSUME NEW a \in Int, NEW b \in Int
  PROVE  Max({a, b}) \in {a, b} /\ Max({a, b}) >= a /\ Max({a, b}) >= b
<1>1. \E x \in {a, b} : \A y \in {a, b} : x >= y
  OBVIOUS
<1>2. QED
  BY <1>1 DEF Max

\* A set of numbers that is not empty has a smallest one: NextOldest is one of
\* the times it is given.
LEMMA MinIsMember ==
  ASSUME NEW S, S \subseteq Nat, S # {}
  PROVE  Min(S) \in S
<1> DEFINE R == {ss \in Nat \X Nat : ss[1] < ss[2]}
<1>0. IsWellFoundedOn(R, Nat)
  <2>1. OpToRel(<, Nat) = R
    BY Zenon DEF OpToRel
  <2>2. QED
    BY <2>1, NatLessThanWellFounded, Zenon
<1>1. PICK x \in S : \A y \in S : ~(<<y, x>> \in R)
  <2> HIDE DEF R
  <2>1. QED
    BY <1>0, WFMin, Zenon
<1>2. ASSUME NEW y \in S
      PROVE  x =< y
  <2>1. x \in Nat /\ y \in Nat
    OBVIOUS
  <2>2. ~(y < x)
    <3>1. SUFFICES ASSUME y < x
                   PROVE  <<y, x>> \in R
      BY <1>1
    <3>2. <<y, x>> \in Nat \X Nat /\ <<y, x>>[1] = y /\ <<y, x>>[2] = x
      BY <2>1
    <3>3. QED
      BY <3>1, <3>2
  <2>3. QED
    BY <2>1, <2>2
<1>3. QED
  BY <1>2 DEF Min

\* The time-out of a source rule covers the time in which packet-ins of the
\* host are ignored, unless it is 0 and the rule stays for ever.
LEMMA TimeoutBounds ==
  ASSUME NEW h \in Host, NEW p \in Port
  PROVE  /\ _jitter_learn_timeout(h, p) \in Nat
         /\ _jitter_learn_timeout(h, p) =< LearnTimeout + LearnJitter + Guard
         /\ _jitter_learn_timeout(h, p) = 0
              \/ _jitter_learn_timeout(h, p) >= Guard
<1> USE LearnAssumption
<1> DEFINE r == Hash[h] % LearnJitter
           a == Abs((LearnTimeout - LearnJitter) + r)
<1>1. r \in Nat /\ r < LearnJitter
  BY DEF r
<1>2. a \in Nat /\ a =< LearnTimeout + LearnJitter
  BY <1>1 DEF Abs
<1>3. Max({a, Guard}) \in {a, Guard} /\ Max({a, Guard}) >= Guard
  <2> HIDE DEF a
  <2>1. a \in Int /\ Guard \in Int
    BY <1>2
  <2>2. QED
    BY <2>1, MaxOfTwo
<1> HIDE DEF r, a
<1>4. _jitter_learn_timeout(h, p) \in {0, Max({a, Guard})}
  BY DEF _jitter_learn_timeout, a, r
<1>5. QED
  BY <1>2, <1>3, <1>4

\* The end of a rule is a number the types allow.
LEMMA AfterTyped ==
  ASSUME now \in 1..MaxTime, NEW n \in Nat,
         n =< LearnTimeout + LearnJitter + 2 * Guard \/ n = BanTimeout
  PROVE  After(n) \in 0..Forever /\ After(n) > now
BY LearnAssumption DEF After, Forever

-----------------------------------------------------------------------------
(***************************************************************************)
(* Types.  An idle timeout is never the end of a rule, which TypeOK alone  *)
(* does not say: After(idle) would not be a legal end if it were.          *)
(***************************************************************************)
IdleBounded ==
  \A h \in Host : dst[h].idle =< LearnTimeout + LearnJitter + 2 * Guard

TypeInv == TypeOK /\ IdleBounded

\* The next event for the controller, and what is left without it.
LEMMA HeadOfEvents ==
  ASSUME TypeOK, events # <<>>
  PROVE  /\ Head(events) \in Event
         /\ Tail(events) \in Seq(Event)
         /\ Len(Tail(events)) =< MaxEvents
         /\ Head(events).port \in Port
         /\ NextIsPacketIn => /\ Head(events).host \in Host
                              /\ Head(events).time \in 1..MaxTime
<1>1. events \in Seq(Event) /\ Len(events) =< MaxEvents
  BY DEF TypeOK
<1>2. Head(events) \in Event
  BY <1>1
<1>3. Tail(events) \in Seq(Event) /\ Len(Tail(events)) =< MaxEvents
  BY <1>1, LearnAssumption
<1>4. Head(events).port \in Port
  BY <1>2 DEF Event
<1>5. NextIsPacketIn => /\ Head(events).host \in Host
                        /\ Head(events).time \in 1..MaxTime
  BY <1>2 DEF Event, NextIsPacketIn
<1>6. QED
  BY <1>2, <1>3, <1>4, <1>5

\* Time stays in its bound.
LEMMA ClockTyped ==
  ASSUME TypeOK, Clock
  PROVE  now' \in 1..MaxTime /\ now' = now + 1 /\ now \in 1..MaxTime
BY LearnAssumption DEF TypeOK, Clock

\* add_cache_host keeps the types of the caches.
LEMMA AddCacheTyped ==
  ASSUME TypeOK, NEW h \in Host, NEW p \in Port, NEW t \in 1..MaxTime,
         add_cache_host(h, p, t)
  PROVE  /\ cache' \in [Host -> [port : Port \cup {NoPort}, time : 0..MaxTime]]
         /\ byPort' \in [Port -> SUBSET Host]
<1>1. cache' \in [Host -> [port : Port \cup {NoPort}, time : 0..MaxTime]]
  BY LearnAssumption DEF TypeOK, add_cache_host
<1>2. \A q \in Port : byPort[q] \subseteq Host
  BY DEF TypeOK
<1>3. byPort' \in [Port -> SUBSET Host]
  BY <1>2 DEF add_cache_host
<1>4. QED
  BY <1>1, <1>3

\* expire_cache_host keeps the types of the caches.
LEMMA ExpireTyped ==
  ASSUME TypeOK, NEW hosts \in SUBSET Host, Expire(hosts)
  PROVE  /\ cache' \in [Host -> [port : Port \cup {NoPort}, time : 0..MaxTime]]
         /\ byPort' \in [Port -> SUBSET Host]
BY LearnAssumption DEF TypeOK, Expire, NoEntry

Rules(s, d) ==
  /\ s \in [Host -> [Port -> 0..Forever]]
  /\ d \in [Host -> [port : Port \cup {NoPort}, until : 0..Forever,
                     idle : 0..Forever]]
  /\ \A h \in Host : d[h].idle =< LearnTimeout + LearnJitter + 2 * Guard

\* delete_host_from_vlan leaves rules of the right types.
LEMMA DeletedTyped ==
  ASSUME TypeInv, NEW hosts \in SUBSET Host
  PROVE  Rules(Deleted(hosts).src, Deleted(hosts).dst)
<1>1. 0 \in 0..Forever
  BY LearnAssumption DEF Forever
<1>2. QED
  BY <1>1, LearnAssumption
  DEF TypeInv, TypeOK, IdleBounded, Rules, Deleted, NoRule

\* learn_host_on_vlan_port_flows leaves rules of the right types.
LEMMA LearnFlowsTyped ==
  ASSUME TypeInv, NEW h \in Host, NEW p \in Port, NEW delete \in BOOLEAN,
         NEW refresh \in BOOLEAN,
         learn_host_on_vlan_port_flows(h, p, delete, refresh)
  PROVE  Rules(src', dst')
<1> DEFINE timeout == _jitter_learn_timeout(h, p)
           idle == IF conf.idle_dst THEN timeout + Guard ELSE 0
           left == Deleted(IF delete THEN {h} ELSE {})
<1>1. Rules(left.src, left.dst)
  BY DeletedTyped
<1>2. /\ timeout \in Nat /\ timeout =< LearnTimeout + LearnJitter + 2 * Guard
      /\ idle \in Nat /\ idle =< LearnTimeout + LearnJitter + 2 * Guard
  <2> HIDE DEF timeout
  <2>1. timeout \in Nat /\ timeout =< LearnTimeout + LearnJitter + Guard
    BY TimeoutBounds DEF timeout
  <2>2. QED
    BY <2>1, LearnAssumption
<1>3. now \in 1..MaxTime
  BY DEF TypeInv, TypeOK
<1>4. /\ After(timeout) \in 0..Forever /\ After(idle) \in 0..Forever
      /\ idle \in 0..Forever
  <2> HIDE DEF timeout, idle
  <2>1. After(timeout) \in 0..Forever /\ After(idle) \in 0..Forever
    BY <1>2, <1>3, AfterTyped
  <2>2. idle =< Forever
    BY <1>2, LearnAssumption DEF Forever
  <2>3. QED
    BY <1>2, <2>1, <2>2, LearnAssumption DEF Forever
<1>5. /\ src' = [left.src EXCEPT ![h][p] = After(timeout)]
      /\ dst' = IF refresh THEN left.dst
                ELSE [left.dst EXCEPT ![h] = [port |-> p, until |-> After(idle),
                                              idle |-> idle]]
  BY DEF learn_host_on_vlan_port_flows
<1> HIDE DEF timeout, idle, left
<1>6. QED
  BY <1>1, <1>2, <1>4, <1>5 DEF Rules

\* Every step keeps the types.
LEMMA TypeStep ==
  ASSUME TypeInv, [Next]_vars
  PROVE  TypeInv'
<1> USE LearnAssumption
<1>0. TypeOK /\ IdleBounded
  BY DEF TypeInv
<1>00. Rules(src, dst)
  BY <1>0 DEF TypeOK, IdleBounded, Rules
<1>02. 0 \in 0..Forever
  BY DEF Forever
<1>1. ASSUME NEW h \in Host, NEW p \in Port, Packet(h, p)
      PROVE  TypeInv'
  <2>1. [kind |-> "packet", host |-> h, port |-> p, time |-> now] \in Event
    BY <1>0 DEF TypeOK, Event
  <2>2. events' \in Seq(Event) /\ Len(events') =< MaxEvents
    BY <1>0, <1>1, <2>1 DEF TypeOK, Packet
  <2>3. QED
    BY <1>0, <1>1, <2>2, ClockTyped
    DEF TypeInv, TypeOK, IdleBounded, Packet, datapath, controller, switch
<1>2. ASSUME NEW h \in Host, Traffic(h)
      PROVE  TypeInv'
  <2>1. dst[h].idle \in Nat /\ dst[h].idle =< LearnTimeout + LearnJitter + 2 * Guard
    BY <1>0 DEF TypeOK, IdleBounded
  <2>2. After(dst[h].idle) \in 0..Forever
    BY <1>0, <2>1, AfterTyped DEF TypeOK
  <2>3. Rules(src', dst')
    <3>1. /\ dst' = [dst EXCEPT ![h].until = After(dst[h].idle)]
          /\ src' = src
      BY <1>2 DEF Traffic
    <3>2. \A g \in Host : dst'[g].idle = dst[g].idle
      BY <1>00, <3>1 DEF Rules
    <3>3. dst' \in [Host -> [port : Port \cup {NoPort}, until : 0..Forever,
                            idle : 0..Forever]]
      BY <1>00, <2>2, <3>1, ZenonT(60) DEF Rules
    <3>4. QED
      BY <1>00, <3>1, <3>2, <3>3 DEF Rules
  <2>4. /\ UNCHANGED <<conf, link, events, running, coldStart, phys, updated>>
        /\ UNCHANGED <<cache, byPort, oldest, lastExpired, lastBan, src, ban, filter>>
        /\ now' \in 1..MaxTime
    BY <1>0, <1>2, ClockTyped DEF Traffic, datapath, controller
  <2>5. TypeOK'
    BY <1>0, <2>3, <2>4, ZenonT(60) DEF TypeOK, Rules
  <2>6. IdleBounded'
    BY <2>3 DEF IdleBounded, Rules
  <2>7. QED
    BY <2>5, <2>6 DEF TypeInv
<1>3. ASSUME NEW p \in Port, LinkChange(p)
      PROVE  TypeInv'
  <2>1. [kind |-> IF p \in link THEN "down" ELSE "up", host |-> NoHost,
         port |-> p, time |-> 0] \in Event
    BY DEF Event
  <2>2. events' \in Seq(Event) /\ Len(events') =< MaxEvents
    BY <1>0, <1>3, <2>1 DEF TypeOK, LinkChange
  <2>3. QED
    BY <1>0, <1>3, <2>2, ClockTyped
    DEF TypeInv, TypeOK, IdleBounded, LinkChange, datapath, controller, switch
<1>4. CASE Tick
  BY <1>0, <1>4, ClockTyped
  DEF TypeInv, TypeOK, IdleBounded, Tick, datapath, controller, switch
<1>5. CASE PacketIn
  <2> DEFINE h == Head(events).host
             p == Head(events).port
             t == Head(events).time
  <2>1. h \in Host /\ p \in Port /\ t \in 1..MaxTime
    BY <1>0, <1>5, HeadOfEvents DEF PacketIn, NextIsPacketIn
  <2>2. events' \in Seq(Event) /\ Len(events') =< MaxEvents
    BY <1>0, <1>5, HeadOfEvents DEF PacketIn, NextIsPacketIn
  <2>3. UNCHANGED <<conf, link, datapath>> /\ now' \in 1..MaxTime
    BY <1>0, <1>5, ClockTyped DEF PacketIn
  <2>4. BanFull(h, p) \/ KeepPermanent(h, p) \/ KeepRecent(h, p, t)
          \/ BanLoop(h, p, t) \/ Learn(h, p, t)
    BY <1>5 DEF PacketIn
  <2>5. After(BanTimeout) \in 0..Forever
    BY <1>0, AfterTyped DEF TypeOK
  <2> HIDE DEF h, p, t
  <2>6. CASE BanFull(h, p)
    <3>1. ban' \in [Port \cup {NoPort} -> 0..Forever]
      BY <1>0, <2>5, <2>6 DEF BanFull, TypeOK
    <3>2. QED
      BY <1>0, <2>2, <2>3, <2>6, <3>1
      DEF TypeInv, TypeOK, IdleBounded, BanFull, controller, datapath
  <2>7. CASE KeepPermanent(h, p)
    <3>1. filter' \subseteq Host \X Port
      BY <1>0, <2>1, <2>7, SMTT(60) DEF KeepPermanent, TypeOK
    <3>2. QED
      BY <1>0, <2>2, <2>3, <2>7, <3>1
      DEF TypeInv, TypeOK, IdleBounded, KeepPermanent, controller, datapath
  <2>8. CASE KeepRecent(h, p, t)
    <3>1. /\ UNCHANGED <<conf, link, running, coldStart, phys, updated>>
          /\ UNCHANGED <<cache, byPort, oldest, lastExpired, lastBan>>
          /\ UNCHANGED <<src, dst, ban, filter>>
      BY <2>3, <2>8 DEF KeepRecent, controller, datapath, switch
    <3>2. TypeOK'
      BY <1>0, <2>2, <2>3, <3>1, ZenonT(60) DEF TypeOK
    <3>3. QED
      BY <1>0, <3>1, <3>2 DEF TypeInv, IdleBounded
  <2>9. CASE BanLoop(h, p, t)
    <3>1. /\ ban' \in [Port \cup {NoPort} -> 0..Forever]
          /\ lastBan' \in [Port -> 0..MaxTime]
      BY <1>0, <2>1, <2>5, <2>9, SMTT(60) DEF BanLoop, TypeOK
    <3>2. /\ cache' \in [Host -> [port : Port \cup {NoPort}, time : 0..MaxTime]]
          /\ byPort' \in [Port -> SUBSET Host]
      BY <1>0, <2>1, <2>9, AddCacheTyped DEF BanLoop
    <3>3. QED
      BY <1>0, <2>2, <2>3, <2>9, <3>1, <3>2
      DEF TypeInv, TypeOK, IdleBounded, BanLoop, datapath
  <2>10. CASE Learn(h, p, t)
    <3>1. Rules(src', dst')
      BY <2>1, <2>10, LearnFlowsTyped DEF Learn, Valid, NothingToDelete
    <3>2. /\ cache' \in [Host -> [port : Port \cup {NoPort}, time : 0..MaxTime]]
          /\ byPort' \in [Port -> SUBSET Host]
      BY <1>0, <2>1, <2>10, AddCacheTyped DEF Learn
    <3>3. QED
      BY <1>0, <2>2, <2>3, <2>10, <3>1, <3>2
      DEF TypeInv, TypeOK, IdleBounded, Rules, Learn, datapath
  <2>11. QED
    BY <2>4, <2>6, <2>7, <2>8, <2>9, <2>10
<1>6. CASE Ignore
  BY <1>0, <1>6, ClockTyped, HeadOfEvents
  DEF TypeInv, TypeOK, IdleBounded, Ignore, datapath, controller, switch
<1>7. CASE PortStatus
  <2> DEFINE p == Head(events).port
             up == Head(events).kind = "up"
  <2>1. p \in Port /\ events' \in Seq(Event) /\ Len(events') =< MaxEvents
    BY <1>0, <1>7, HeadOfEvents DEF PortStatus
  <2>2. /\ updated' = [updated EXCEPT ![p] = now]
        /\ phys' = IF up THEN phys \cup {p} ELSE phys \ {p}
        /\ DeletePort(p) \/ UNCHANGED <<src, dst, ban>>
        /\ Clock /\ UNCHANGED <<conf, link, running, coldStart, controller, filter>>
    BY <1>7 DEF PortStatus
  <2> HIDE DEF p, up
  <2>3. updated' \in [Port -> 0..MaxTime] /\ phys' \subseteq Port
    BY <1>0, <2>1, <2>2 DEF TypeOK
  <2>4. Rules(src', dst') /\ ban' \in [Port \cup {NoPort} -> 0..Forever]
    <3>1. CASE DeletePort(p)
      <4>1. src' \in [Host -> [Port -> 0..Forever]]
        BY <1>00, <1>02, <2>1, <3>1 DEF DeletePort, Rules
      <4>2. /\ dst' \in [Host -> [port : Port \cup {NoPort}, until : 0..Forever,
                                  idle : 0..Forever]]
            /\ \A g \in Host : dst'[g].idle =< LearnTimeout + LearnJitter + 2 * Guard
        BY <1>00, <1>02, <3>1 DEF DeletePort, Rules, NoRule
      <4>3. ban' \in [Port \cup {NoPort} -> 0..Forever]
        BY <1>0, <1>02, <2>1, <3>1 DEF DeletePort, TypeOK
      <4>4. QED
        BY <4>1, <4>2, <4>3 DEF Rules
    <3>2. QED
      BY <1>0, <1>00, <2>2, <3>1 DEF TypeOK
  <2>5. QED
    BY <1>0, <2>1, <2>2, <2>3, <2>4, ClockTyped
    DEF TypeInv, TypeOK, IdleBounded, Rules, controller
<1>8. CASE StateExpire
  <2> DEFINE before == now - LearnTimeout
             old == {h \in VlanHosts : cache[h].time < before /\ ~Permanent(h)}
             due == oldest = 0 \/ oldest < before
             left == {cache[h].time : h \in VlanHosts \ old}
  <2>1. /\ Clock /\ running
        /\ Expire(IF due THEN old ELSE {})
        /\ oldest' = IF due THEN NextOldest(left) ELSE oldest
        /\ lastExpired' = IF due /\ old # {} THEN now ELSE lastExpired
        /\ LET rules == Deleted(IF due /\ ~conf.idle_dst THEN old ELSE {})
           IN src' = rules.src /\ dst' = rules.dst
        /\ UNCHANGED <<conf, link, events, datapath, lastBan, ban, filter>>
    BY <1>8 DEF StateExpire
  <2>2. old \subseteq Host
    BY DEF VlanHosts
  <2>3. left \subseteq 0..MaxTime
    BY <1>0 DEF VlanHosts, TypeOK
  <2> HIDE DEF before, old, due, left
  <2>4. NextOldest(left) \in 0..MaxTime
    <3>1. ASSUME left # {}
          PROVE  Min(left) \in 0..MaxTime
      <4>1. left \subseteq Nat
        BY <2>3
      <4>2. Min(left) \in left
        BY <3>1, <4>1, MinIsMember
      <4>3. QED
        BY <2>3, <4>2
    <3>2. QED
      BY <1>0, <3>1 DEF NextOldest, TypeOK
  <2>5. Rules(src', dst')
    BY <2>1, <2>2, DeletedTyped
  <2>6. /\ cache' \in [Host -> [port : Port \cup {NoPort}, time : 0..MaxTime]]
        /\ byPort' \in [Port -> SUBSET Host]
    BY <1>0, <2>1, <2>2, ExpireTyped
  <2>7. {oldest, lastExpired, coldStart}' \subseteq 0..MaxTime
    BY <1>0, <2>1, <2>4 DEF TypeOK, datapath
  <2>8. QED
    BY <1>0, <2>1, <2>5, <2>6, <2>7, ClockTyped
    DEF TypeInv, TypeOK, IdleBounded, Rules, datapath
<1>9. CASE Disconnect
  <2>1. /\ cache' \in [Host -> [port : Port \cup {NoPort}, time : 0..MaxTime]]
        /\ byPort' \in [Port -> SUBSET Host]
    BY <1>0, <1>9, ExpireTyped DEF Disconnect
  <2>2. updated' \in [Port -> 0..MaxTime]
    BY <1>0, <1>9 DEF Disconnect, TypeOK
  <2>3. QED
    BY <1>0, <1>9, <2>1, <2>2, ClockTyped
    DEF TypeInv, TypeOK, IdleBounded, Disconnect, switch
<1>10. CASE ColdStart
  <2>1. Rules(src', dst') /\ ban' \in [Port \cup {NoPort} -> 0..Forever]
    BY <1>02, <1>10 DEF ColdStart, Rules, NoRule
  <2>2. /\ cache' \in [Host -> [port : Port \cup {NoPort}, time : 0..MaxTime]]
        /\ byPort' \in [Port -> SUBSET Host]
        /\ updated' \in [Port -> 0..MaxTime]
    BY <1>0, <1>10 DEF ColdStart, NoEntry, TypeOK
  <2>3. {oldest, lastExpired, coldStart}' \subseteq 0..MaxTime
    BY <1>0, <1>10 DEF TypeOK, ColdStart
  <2>4. QED
    BY <1>0, <1>10, <2>1, <2>2, <2>3, ClockTyped
    DEF TypeInv, TypeOK, IdleBounded, Rules, ColdStart
<1>11. CASE UNCHANGED vars
  BY <1>0, <1>11 DEF TypeInv, TypeOK, IdleBounded, vars
<1>12. QED
  BY <1>1, <1>2, <1>3, <1>4, <1>5, <1>6, <1>7, <1>8, <1>9, <1>10, <1>11 DEF Next

\* Type correctness: every end of a rule and every time in the caches stays in
\* its range, the oldest time of expire_cache_hosts included.
THEOREM LearnTyping == Spec => []TypeOK
<1>1. Init => TypeInv
  <2> SUFFICES ASSUME Init
               PROVE  TypeInv
    OBVIOUS
  <2> USE LearnAssumption
  <2>1. TypeOK
    BY DEF Init, TypeOK, NoEntry, NoRule, Forever
  <2>2. IdleBounded
    BY DEF Init, IdleBounded, NoRule
  <2>3. QED
    BY <2>1, <2>2 DEF TypeInv
<1>2. TypeInv /\ [Next]_vars => TypeInv'
  BY TypeStep
<1>3. TypeInv => TypeOK
  BY DEF TypeInv
<1>4. QED
  BY <1>1, <1>2, <1>3, PTL DEF Spec

-----------------------------------------------------------------------------
(***************************************************************************)
(* The caches.                                                             *)
(***************************************************************************)

\* What a packet-in does to the caches.
LEMMA PacketInCaches ==
  ASSUME TypeOK, PacketIn
  PROVE  \/ UNCHANGED <<cache, byPort>>
         \/ \E h \in Host, p \in Port, t \in 1..MaxTime :
              /\ add_cache_host(h, p, t) /\ ~VlanFull(h) /\ ~Permanent(h)
              /\ h = Head(events).host /\ p = Head(events).port
              /\ t = Head(events).time
<1> DEFINE h == Head(events).host
           p == Head(events).port
           t == Head(events).time
<1>1. h \in Host /\ p \in Port /\ t \in 1..MaxTime
  BY HeadOfEvents DEF PacketIn, NextIsPacketIn
<1>2. BanFull(h, p) \/ KeepPermanent(h, p) \/ KeepRecent(h, p, t)
        \/ BanLoop(h, p, t) \/ Learn(h, p, t)
  BY DEF PacketIn
<1>3. CASE BanFull(h, p) \/ KeepPermanent(h, p) \/ KeepRecent(h, p, t)
  BY <1>3 DEF BanFull, KeepPermanent, KeepRecent, controller
<1>4. CASE BanLoop(h, p, t) \/ Learn(h, p, t)
  BY <1>1, <1>4 DEF BanLoop, Learn
<1>5. QED
  BY <1>2, <1>3, <1>4

\* What any step does to the caches: nothing, one host is added or moved, hosts
\* expire, or the datapath goes down or comes up.
CacheStep ==
  \/ UNCHANGED <<cache, byPort>>
  \/ \E h \in Host, p \in Port, t \in 1..MaxTime :
       add_cache_host(h, p, t) /\ ~VlanFull(h) /\ ~Permanent(h)
  \/ \E hosts \in SUBSET Host : Expire(hosts)
  \/ cache' = [h \in Host |-> NoEntry] /\ byPort' = [p \in Port |-> {}]

\* No step changes the caches in another way.
LEMMA StepsOfCaches ==
  ASSUME TypeOK, [Next]_vars
  PROVE  CacheStep
<1>1. CASE PacketIn
  BY <1>1, PacketInCaches DEF CacheStep
<1>2. CASE StateExpire
  <2> DEFINE before == now - LearnTimeout
             old == {h \in VlanHosts : cache[h].time < before /\ ~Permanent(h)}
             due == oldest = 0 \/ oldest < before
  <2>1. Expire(IF due THEN old ELSE {})
    BY <1>2 DEF StateExpire
  <2>2. old \subseteq Host
    BY DEF VlanHosts
  <2> HIDE DEF old, due
  <2>3. (IF due THEN old ELSE {}) \in SUBSET Host
    BY <2>2
  <2>4. QED
    BY <2>1, <2>3 DEF CacheStep
<1>3. CASE Disconnect
  <2>1. {h \in Host : cache[h].port \in Port} \in SUBSET Host
    OBVIOUS
  <2>2. QED
    BY <1>3, <2>1 DEF Disconnect, CacheStep
<1>4. CASE ColdStart
  BY <1>4 DEF ColdStart, CacheStep
<1>5. CASE \E h \in Host, p \in Port : Packet(h, p)
  BY <1>5 DEF Packet, controller, CacheStep
<1>6. CASE \E h \in Host : Traffic(h)
  BY <1>6 DEF Traffic, controller, CacheStep
<1>7. CASE \E p \in Port : LinkChange(p)
  BY <1>7 DEF LinkChange, controller, CacheStep
<1>8. CASE Tick \/ Ignore \/ PortStatus
  BY <1>8 DEF Tick, Ignore, PortStatus, controller, CacheStep
<1>9. CASE UNCHANGED vars
  BY <1>9 DEF vars, CacheStep
<1>10. QED
  BY <1>1, <1>2, <1>3, <1>4, <1>5, <1>6, <1>7, <1>8, <1>9 DEF Next

\* add_cache_host and expire_cache_host keep the two caches of a VLAN together
\* for any number of hosts and ports, whatever moves and expires.
THEOREM CachesStayTogether == Spec => []CachesAgree
<1>1. Init => CachesAgree
  BY LearnAssumption DEF Init, CachesAgree, NoEntry
<1>2. TypeOK /\ CachesAgree /\ [Next]_vars => CachesAgree'
  <2> SUFFICES ASSUME TypeOK, CachesAgree, [Next]_vars
               PROVE  CachesAgree'
    OBVIOUS
  <2>1. CacheStep
    BY StepsOfCaches
  <2>2. CASE UNCHANGED <<cache, byPort>>
    BY <2>2 DEF CachesAgree
  <2>3. ASSUME NEW h \in Host, NEW p \in Port, NEW t \in 1..MaxTime,
               add_cache_host(h, p, t)
        PROVE  CachesAgree'
    <3>1. /\ cache'[h].port = p
          /\ \A g \in Host \ {h} : cache'[g] = cache[g]
      BY <2>3 DEF add_cache_host, TypeOK
    <3>2. \A q \in Port : byPort'[q] = IF q = p THEN byPort[q] \cup {h}
                                       ELSE IF q = cache[h].port THEN byPort[q] \ {h}
                                       ELSE byPort[q]
      BY <2>3 DEF add_cache_host
    <3>3. SUFFICES ASSUME NEW g \in Host, NEW q \in Port
                   PROVE  g \in byPort'[q] <=> cache'[g].port = q
      BY DEF CachesAgree
    <3>4. g \in byPort[q] <=> cache[g].port = q
      BY DEF CachesAgree
    <3>5. CASE g = h
      BY <3>1, <3>2, <3>4, <3>5
    <3>6. CASE g # h
      <4>1. g \in byPort'[q] <=> g \in byPort[q]
        <5>1. byPort'[q] \in {byPort[q] \cup {h}, byPort[q] \ {h}, byPort[q]}
          BY <3>2
        <5>2. QED
          BY <3>6, <5>1
      <4>2. cache'[g] = cache[g]
        BY <3>1, <3>6
      <4>3. QED
        BY <3>4, <4>1, <4>2
    <3>7. QED
      BY <3>5, <3>6
  <2>4. ASSUME NEW hosts \in SUBSET Host, Expire(hosts)
        PROVE  CachesAgree'
    BY <2>4, LearnAssumption, SMTT(60) DEF Expire, CachesAgree, TypeOK, NoEntry
  <2>5. CASE cache' = [h \in Host |-> NoEntry] /\ byPort' = [p \in Port |-> {}]
    BY <2>5, LearnAssumption DEF CachesAgree, NoEntry
  <2>6. QED
    BY <2>1, <2>2, <2>3, <2>4, <2>5 DEF CacheStep
<1>3. QED
  BY <1>1, <1>2, LearnTyping, PTL DEF Spec

\* The limit of the VLAN holds although ban_rules compares with == and only
\* looks at it when the host is new.
THEOREM VlanLimitHolds == Spec => []VlanHostsBounded
<1>1. Init => VlanHostsBounded
  <2> SUFFICES ASSUME Init
               PROVE  VlanHostsBounded
    OBVIOUS
  <2>1. VlanHosts = {}
    BY DEF Init, VlanHosts, Cached
  <2>2. Cardinality(VlanHosts) = 0
    BY <2>1, FS_EmptySet
  <2>3. QED
    BY <2>2, LearnAssumption DEF VlanHostsBounded
<1>2. TypeOK /\ VlanHostsBounded /\ [Next]_vars => VlanHostsBounded'
  <2> SUFFICES ASSUME TypeOK, VlanHostsBounded, [Next]_vars, MaxVlanHosts # 0
               PROVE  Cardinality(VlanHosts') =< MaxVlanHosts
    BY DEF VlanHostsBounded
  <2>0. /\ IsFiniteSet(VlanHosts) /\ Cardinality(VlanHosts) \in Nat
        /\ Cardinality(VlanHosts) =< MaxVlanHosts /\ MaxVlanHosts \in Nat
    <3>1. VlanHosts \subseteq Host /\ IsFiniteSet(Host)
      BY LearnAssumption DEF VlanHosts
    <3>2. IsFiniteSet(VlanHosts)
      BY <3>1, FS_Subset
    <3>3. QED
      BY <3>2, FS_CardinalityType, LearnAssumption DEF VlanHostsBounded
  <2>1. CacheStep
    BY StepsOfCaches
  <2>2. ASSUME VlanHosts' \subseteq VlanHosts
        PROVE  Cardinality(VlanHosts') =< MaxVlanHosts
    <3>1. Cardinality(VlanHosts') =< Cardinality(VlanHosts)
      BY <2>0, <2>2, FS_Subset
    <3>2. Cardinality(VlanHosts') \in Nat
      BY <2>0, <2>2, FS_Subset, FS_CardinalityType
    <3>3. QED
      BY <2>0, <3>1, <3>2
  <2>3. CASE UNCHANGED <<cache, byPort>>
    <3>1. VlanHosts' = VlanHosts
      BY <2>3 DEF VlanHosts, Cached
    <3>2. QED
      BY <2>2, <3>1
  <2>4. ASSUME NEW h \in Host, NEW p \in Port, NEW t \in 1..MaxTime,
               add_cache_host(h, p, t), ~VlanFull(h)
        PROVE  Cardinality(VlanHosts') =< MaxVlanHosts
    <3>1. VlanHosts' = VlanHosts \cup {h}
      <4>1. [port |-> p, time |-> t] # NoEntry
        BY LearnAssumption DEF NoEntry
      <4>2. cache' = [cache EXCEPT ![h] = [port |-> p, time |-> t]]
        BY <2>4 DEF add_cache_host
      <4>3. \A g \in Host : (cache'[g] # NoEntry) <=> (cache[g] # NoEntry \/ g = h)
        BY <4>1, <4>2 DEF TypeOK
      <4>4. QED
        BY <4>3 DEF VlanHosts, Cached
    <3>2. CASE h \in VlanHosts
      BY <2>2, <3>1, <3>2
    <3>3. CASE h \notin VlanHosts
      <4>1. Cardinality(VlanHosts) # MaxVlanHosts
        BY <2>4, <3>3 DEF VlanFull, VlanHosts
      <4>2. Cardinality(VlanHosts') = Cardinality(VlanHosts) + 1
        BY <2>0, <3>1, <3>3, FS_AddElement
      <4>3. QED
        BY <2>0, <4>1, <4>2
    <3>4. QED
      BY <3>2, <3>3
  <2>5. ASSUME NEW hosts \in SUBSET Host, Expire(hosts)
        PROVE  Cardinality(VlanHosts') =< MaxVlanHosts
    <3>1. VlanHosts' \subseteq VlanHosts
      BY <2>5 DEF VlanHosts, Cached, Expire
    <3>2. QED
      BY <2>2, <3>1
  <2>6. CASE cache' = [h \in Host |-> NoEntry]
    <3>1. VlanHosts' \subseteq VlanHosts
      BY <2>6 DEF VlanHosts, Cached
    <3>2. QED
      BY <2>2, <3>1
  <2>7. QED
    BY <2>1, <2>3, <2>4, <2>5, <2>6 DEF CacheStep
<1>3. QED
  BY <1>1, <1>2, LearnTyping, PTL DEF Spec

-----------------------------------------------------------------------------
(***************************************************************************)
(* Times, and a datapath that is down.                                     *)
(***************************************************************************)

\* Whatever was received, learned or expired was so before now, and nothing is
\* cached while the datapath is down.
PastInv ==
  /\ \A i \in 1..Len(events) : events[i].time < now
  /\ \A h \in Host : cache[h].time < now
  /\ coldStart < now /\ lastExpired < now
  /\ ~running => \A h \in Host : cache[h].port = NoPort

\* Events and learned hosts are always of the past.
LEMMA PastInvariant == Spec => []PastInv
<1> USE LearnAssumption
<1>1. Init => PastInv
  BY DEF Init, PastInv, NoEntry
<1>2. TypeOK /\ PastInv /\ [Next]_vars => PastInv'
  <2> SUFFICES ASSUME TypeOK, PastInv, [Next]_vars
               PROVE  PastInv'
    OBVIOUS
  <2>0. events \in Seq(Event) /\ now \in Nat
    BY DEF TypeOK
  <2>00. \A h \in Host : cache[h].time \in Nat
    BY DEF TypeOK
  <2>01. coldStart \in Nat /\ lastExpired \in Nat
    BY DEF TypeOK
  <2>02. ASSUME events # <<>>
         PROVE  \A i \in 1..Len(Tail(events)) : Tail(events)[i] = events[i + 1]
                                                 /\ i + 1 \in 1..Len(events)
    BY <2>0, <2>02
  <2>03. \A i \in 1..Len(events) : events[i].time \in Nat
    BY <2>0 DEF Event
  <2>04. ASSUME events # <<>>, now' = now + 1
         PROVE  \A i \in 1..Len(Tail(events)) : Tail(events)[i].time < now'
    BY <2>0, <2>02, <2>03, <2>04 DEF PastInv
  <2>1. ASSUME NEW h \in Host, NEW p \in Port, Packet(h, p)
        PROVE  PastInv'
    <3>1. /\ events' = Append(events, [kind |-> "packet", host |-> h, port |-> p,
                                       time |-> now])
          /\ now' = now + 1 /\ UNCHANGED <<running, cache, coldStart, lastExpired>>
      BY <2>1 DEF Packet, Clock, datapath, controller
    <3>2. \A i \in 1..Len(events') : events'[i].time < now'
      BY <2>0, <2>03, <3>1 DEF PastInv
    <3>3. QED
      BY <2>0, <2>00, <2>01, <3>1, <3>2 DEF PastInv
  <2>2. ASSUME NEW h \in Host, Traffic(h)
        PROVE  PastInv'
    <3>1. now' = now + 1 /\ UNCHANGED <<running, events, cache, coldStart, lastExpired>>
      BY <2>2 DEF Traffic, Clock, datapath, controller
    <3>2. QED
      BY <2>0, <2>00, <2>01, <2>03, <3>1, SMTT(60) DEF PastInv
  <2>3. ASSUME NEW p \in Port, LinkChange(p)
        PROVE  PastInv'
    <3>1. PICK k \in {"up", "down"} :
             events' = Append(events, [kind |-> k, host |-> NoHost, port |-> p,
                                       time |-> 0])
      BY <2>3 DEF LinkChange
    <3>2. now' = now + 1 /\ UNCHANGED <<running, cache, coldStart, lastExpired>>
      BY <2>3 DEF LinkChange, Clock, datapath, controller
    <3>3. \A i \in 1..Len(events') : events'[i].time < now'
      BY <2>0, <2>03, <3>1, <3>2 DEF PastInv
    <3>4. QED
      BY <2>0, <2>00, <2>01, <3>2, <3>3 DEF PastInv
  <2>4. CASE Tick
    BY <2>0, <2>00, <2>01, <2>03, <2>4 DEF PastInv, Tick, Clock, datapath, controller
  <2>5. CASE PacketIn
    <3>1. /\ events # <<>> /\ events' = Tail(events) /\ now' = now + 1
          /\ running /\ UNCHANGED <<running, coldStart>>
      BY <2>5 DEF PacketIn, NextIsPacketIn, Clock, datapath
    <3>2. lastExpired' = lastExpired
      BY <2>5 DEF PacketIn, BanFull, KeepPermanent, KeepRecent, BanLoop, Learn,
                  controller
    <3>3. \A h \in Host : cache'[h].time < now'
      <4>1. CASE UNCHANGED <<cache, byPort>>
        BY <2>0, <2>00, <3>1, <4>1 DEF PastInv
      <4>2. ASSUME NEW h \in Host, NEW p \in Port, NEW t \in 1..MaxTime,
                   add_cache_host(h, p, t), t = Head(events).time
            PROVE  \A g \in Host : cache'[g].time < now'
        <5>1. Head(events) = events[1] /\ 1 \in 1..Len(events)
          BY <2>0, <3>1
        <5>2. t < now
          BY <4>2, <5>1 DEF PastInv
        <5>3. QED
          <6>1. \A g \in Host : cache'[g].time \in {t, cache[g].time}
            BY <4>2 DEF add_cache_host, TypeOK
          <6>2. \A g \in Host : cache[g].time < now /\ cache[g].time \in Nat
            BY <2>00 DEF PastInv
          <6>3. t \in Nat
            OBVIOUS
          <6>4. TAKE g \in Host
          <6>5. CASE cache'[g].time = t
            BY <2>0, <3>1, <5>2, <6>3, <6>5
          <6>6. CASE cache'[g].time = cache[g].time
            BY <2>0, <3>1, <6>2, <6>6
          <6>7. QED
            BY <6>1, <6>5, <6>6
      <4>3. QED
        BY <2>5, <4>1, <4>2, PacketInCaches
    <3>4. QED
      BY <2>0, <2>01, <2>04, <3>1, <3>2, <3>3 DEF PastInv
  <2>6. CASE Ignore
    BY <2>0, <2>00, <2>01, <2>04, <2>6
    DEF PastInv, Ignore, Clock, datapath, controller
  <2>7. CASE PortStatus
    BY <2>0, <2>00, <2>01, <2>04, <2>7 DEF PastInv, PortStatus, Clock, controller
  <2>8. CASE StateExpire
    <3>1. /\ now' = now + 1 /\ running' = running /\ running
          /\ UNCHANGED <<events, coldStart>> /\ lastExpired' \in {now, lastExpired}
      BY <2>8 DEF StateExpire, Clock, datapath
    <3>2. \E hosts \in SUBSET Host : Expire(hosts)
      <4> DEFINE before == now - LearnTimeout
                 old == {h \in VlanHosts : cache[h].time < before /\ ~Permanent(h)}
                 due == oldest = 0 \/ oldest < before
      <4>1. Expire(IF due THEN old ELSE {})
        BY <2>8 DEF StateExpire
      <4>2. old \subseteq Host
        BY DEF VlanHosts
      <4> HIDE DEF old, due
      <4>3. QED
        BY <4>1, <4>2
    <3>3. \A h \in Host : cache'[h].time < now'
      BY <2>0, <2>00, <3>1, <3>2 DEF PastInv, Expire, NoEntry
    <3>4. /\ \A i \in 1..Len(events') : events'[i].time < now'
          /\ coldStart' < now' /\ lastExpired' < now'
      BY <2>0, <2>01, <2>03, <3>1 DEF PastInv
    <3>5. running'
      BY <3>1
    <3>6. QED
      BY <3>3, <3>4, <3>5 DEF PastInv
  <2>9. CASE Disconnect
    <3>1. /\ now' = now + 1 /\ UNCHANGED <<events, coldStart, lastExpired>>
          /\ \A h \in Host :
               cache'[h] = IF cache[h].port \in Port THEN NoEntry ELSE cache[h]
      BY <2>9 DEF Disconnect, Clock, Expire
    <3>2. \A h \in Host : cache'[h].port = NoPort /\ cache'[h].time < now'
      <4> TAKE h \in Host
      <4>1. cache[h].port \in Port \/ cache[h].port = NoPort
        BY DEF TypeOK
      <4>2. cache[h].time < now' /\ 0 < now'
        BY <2>0, <2>00, <3>1 DEF PastInv
      <4>3. QED
        BY <3>1, <4>1, <4>2 DEF NoEntry
    <3>3. QED
      BY <2>0, <2>01, <2>03, <3>1, <3>2 DEF PastInv
  <2>10. CASE ColdStart
    <3>0. /\ now' = now + 1 /\ coldStart' = now
          /\ UNCHANGED <<events, lastExpired>>
      BY <2>10 DEF ColdStart, Clock
    <3>1. /\ \A i \in 1..Len(events') : events'[i].time < now'
          /\ coldStart' < now' /\ lastExpired' < now'
      BY <2>0, <2>01, <2>03, <3>0 DEF PastInv
    <3>2. \A h \in Host : cache'[h].time < now'
      BY <2>0, <2>10 DEF ColdStart, Clock, NoEntry
    <3>3. running'
      BY <2>10 DEF ColdStart
    <3>4. QED
      BY <3>1, <3>2, <3>3 DEF PastInv
  <2>11. CASE UNCHANGED vars
    BY <2>11 DEF PastInv, vars
  <2>12. QED
    BY <2>1, <2>2, <2>3, <2>4, <2>5, <2>6, <2>7, <2>8, <2>9, <2>10, <2>11 DEF Next
<1>3. QED
  BY <1>1, <1>2, LearnTyping, PTL DEF Spec

\* A host learned on a port with permanent_learn is forgotten only when the
\* datapath goes away: learning, loop protection and expiry leave it alone.
THEOREM PermanentHostsStay == Spec => PermanentStays
<1>1. TypeOK /\ PastInv /\ [Next]_vars
        => [\A h \in Host : cache[h].port \in conf.permanent_learn /\ running'
              => cache'[h] = cache[h]]_vars
  <2> SUFFICES ASSUME TypeOK, PastInv, Next, NEW h \in Host,
                      cache[h].port \in conf.permanent_learn, running'
               PROVE  cache'[h] = cache[h]
    BY DEF vars
  <2>0. Permanent(h) /\ cache[h].port \in Port
    BY LearnAssumption DEF Permanent, TypeOK
  <2>1. CASE PacketIn
    BY <2>0, <2>1, PacketInCaches DEF add_cache_host, TypeOK
  <2>2. CASE StateExpire
    BY <2>0, <2>2 DEF StateExpire, Expire
  <2>3. CASE Disconnect
    BY <2>3 DEF Disconnect
  <2>4. CASE ColdStart
    BY <2>0, <2>4, LearnAssumption DEF ColdStart, PastInv
  <2>5. CASE Tick \/ Ignore \/ PortStatus
    BY <2>5 DEF Tick, Ignore, PortStatus, controller
  <2>6. CASE \E g \in Host, p \in Port : Packet(g, p)
    BY <2>6 DEF Packet, controller
  <2>7. CASE \E g \in Host : Traffic(g)
    BY <2>7 DEF Traffic, controller
  <2>8. CASE \E p \in Port : LinkChange(p)
    BY <2>8 DEF LinkChange, controller
  <2>9. QED
    BY <2>1, <2>2, <2>3, <2>4, <2>5, <2>6, <2>7, <2>8 DEF Next
<1>2. QED
  BY <1>1, LearnTyping, PastInvariant, PTL DEF Spec, PermanentStays

-----------------------------------------------------------------------------
(***************************************************************************)
(* The rules.                                                              *)
(***************************************************************************)

\* Most steps leave the caches alone, and rules only expire or are deleted.
QuietStep ==
  /\ UNCHANGED <<conf, cache, running, coldStart, lastExpired>>
  /\ now' \in {now, now + 1}
  /\ \A h \in Host : /\ \A p \in Port : src'[h][p] \in {src[h][p], 0}
                     /\ dst'[h].until > now' => /\ HasDst(h)
                                                /\ dst'[h].port = dst[h].port

\* The steps that are not quiet: learning, expiry, and the datapath.
BusyStep ==
  \/ \E h \in Host, p \in Port, t \in 1..MaxTime :
       BanLoop(h, p, t) \/ Learn(h, p, t)
  \/ StateExpire \/ Disconnect \/ ColdStart

\* Every step is quiet, or learns, expires, or is about the datapath.
LEMMA StepsOfRules ==
  ASSUME TypeOK, [Next]_vars
  PROVE  QuietStep \/ (BusyStep /\ Clock /\ conf' = conf /\
                       (StateExpire \/ Disconnect \/ ColdStart
                        \/ (PacketIn /\ UNCHANGED datapath)))
<1> USE LearnAssumption
<1>0. /\ now \in Nat /\ (Clock => now' = now + 1)
      /\ \A h \in Host : dst[h].until \in Nat /\ \A p \in Port : src[h][p] \in Nat
  BY DEF TypeOK, Clock, Forever
<1>1. ASSUME UNCHANGED <<conf, cache, running, coldStart, lastExpired, src, dst>>,
             Clock \/ now' = now
      PROVE  QuietStep
  BY <1>0, <1>1 DEF QuietStep, HasDst
<1>2. CASE \E h \in Host, p \in Port : Packet(h, p)
  BY <1>1, <1>2 DEF Packet, datapath, controller, switch
<1>3. ASSUME NEW h \in Host, Traffic(h)
      PROVE  QuietStep
  <2>1. /\ HasDst(h) /\ src' = src /\ Clock
        /\ UNCHANGED <<conf, cache, running, coldStart, lastExpired>>
        /\ dst' = [dst EXCEPT ![h].until = After(dst[h].idle)]
    BY <1>3 DEF Traffic, datapath, controller
  <2>2. /\ dst'[h].port = dst[h].port
        /\ \A g \in Host : g # h => dst'[g] = dst[g]
    BY <2>1 DEF TypeOK
  <2>3. \A g \in Host : dst'[g].until > now' => HasDst(g) /\ dst'[g].port = dst[g].port
    BY <1>0, <2>1, <2>2 DEF HasDst
  <2>4. QED
    BY <1>0, <2>1, <2>3 DEF QuietStep
<1>4. CASE \E p \in Port : LinkChange(p)
  BY <1>1, <1>4 DEF LinkChange, datapath, controller, switch
<1>5. CASE Tick \/ Ignore
  BY <1>1, <1>5 DEF Tick, Ignore, datapath, controller, switch
<1>6. CASE PacketIn
  <2> DEFINE h == Head(events).host
             p == Head(events).port
             t == Head(events).time
  <2>1. h \in Host /\ p \in Port /\ t \in 1..MaxTime
    BY <1>6, HeadOfEvents DEF PacketIn, NextIsPacketIn
  <2>2. Clock /\ UNCHANGED <<conf, datapath>>
    BY <1>6 DEF PacketIn
  <2>3. BanFull(h, p) \/ KeepPermanent(h, p) \/ KeepRecent(h, p, t)
          \/ BanLoop(h, p, t) \/ Learn(h, p, t)
    BY <1>6 DEF PacketIn
  <2> HIDE DEF h, p, t
  <2>4. CASE BanFull(h, p) \/ KeepPermanent(h, p) \/ KeepRecent(h, p, t)
    BY <1>1, <2>2, <2>4
    DEF BanFull, KeepPermanent, KeepRecent, datapath, controller, switch
  <2>5. CASE BanLoop(h, p, t) \/ Learn(h, p, t)
    BY <1>6, <2>1, <2>2, <2>5 DEF BusyStep
  <2>6. QED
    BY <2>3, <2>4, <2>5
<1>7. CASE PortStatus
  <2>1. PICK p \in Port : DeletePort(p) \/ UNCHANGED <<src, dst, ban>>
    BY <1>7, HeadOfEvents DEF PortStatus
  <2>2. Clock /\ UNCHANGED <<conf, cache, running, coldStart, lastExpired>>
    BY <1>7 DEF PortStatus, controller
  <2>3. CASE DeletePort(p)
    <3>1. \A h \in Host, q \in Port : src'[h][q] \in {src[h][q], 0}
      BY <2>3 DEF DeletePort, TypeOK
    <3>2. \A h \in Host : dst'[h] \in {dst[h], NoRule}
      BY <2>3 DEF DeletePort, TypeOK
    <3>3. now' = now + 1
      BY <1>0, <2>2
    <3>4. ASSUME NEW h \in Host, dst'[h].until > now'
          PROVE  HasDst(h) /\ dst'[h].port = dst[h].port
      <4>1. CASE dst'[h] = dst[h]
        BY <1>0, <3>3, <3>4, <4>1 DEF HasDst
      <4>2. CASE dst'[h] = NoRule
        BY <1>0, <3>3, <3>4, <4>2 DEF NoRule
      <4>3. QED
        BY <3>2, <4>1, <4>2
    <3>5. QED
      BY <1>0, <2>2, <3>1, <3>3, <3>4 DEF QuietStep
  <2>4. CASE UNCHANGED <<src, dst, ban>>
    BY <1>1, <2>2, <2>4
  <2>5. QED
    BY <2>1, <2>3, <2>4
<1>8. CASE StateExpire \/ Disconnect \/ ColdStart
  BY <1>8 DEF BusyStep, StateExpire, Disconnect, ColdStart
<1>9. CASE UNCHANGED vars
  BY <1>1, <1>9 DEF vars
<1>10. QED
  BY <1>2, <1>3, <1>4, <1>5, <1>6, <1>7, <1>8, <1>9 DEF Next

\* What RepliesFollowHost rests on: the rules of a cached host are for the port
\* it is cached on; and a host that is not cached has no rules, unless hosts
\* expired since the cold start and learning deletes what may be left.
CachedRules ==
  conf.loop_protect = {} =>
    \A h \in Host : Cached(h) =>
      /\ HasDst(h) => dst[h].port = cache[h].port
      /\ \A p \in Port : HasSrc(h, p) => p = cache[h].port

ForgottenRules ==
  conf.loop_protect = {} /\ running /\ NothingToDelete =>
    \A h \in Host : ~Cached(h) => ~HasDst(h) /\ \A p \in Port : ~HasSrc(h, p)

RulesInv == CachedRules /\ ForgottenRules /\ RepliesFollowHost

\* Frames for a host go to the port its own frames are let in from, for any
\* number of hosts, ports and moves, and whatever expired or was forgotten.
THEOREM RepliesAlwaysFollow == Spec => []RepliesFollowHost
<1> USE LearnAssumption
<1>1. Init => RulesInv
  BY DEF Init, RulesInv, CachedRules, ForgottenRules, RepliesFollowHost, HasSrc,
         HasDst, Cached, NoRule
<1>2. TypeOK /\ PastInv /\ RulesInv /\ [Next]_vars => RulesInv'
  <2> SUFFICES ASSUME TypeOK, PastInv, RulesInv, [Next]_vars
               PROVE  RulesInv'
    OBVIOUS
  <2> SUFFICES ASSUME conf.loop_protect = {}
               PROVE  RulesInv'
    <3>1. conf' = conf
      BY StepsOfRules DEF QuietStep
    <3>2. QED
      BY <3>1 DEF RulesInv, CachedRules, ForgottenRules, RepliesFollowHost
  <2>0. now \in Nat /\ coldStart \in Nat /\ lastExpired \in Nat
    BY DEF TypeOK
  <2>00. \A h \in Host : /\ dst[h].until \in Nat
                         /\ \A p \in Port : src[h][p] \in Nat
    BY DEF TypeOK, Forever
  <2>01. /\ \A h \in Host : Cached(h) =>
              /\ HasDst(h) => dst[h].port = cache[h].port
              /\ \A p \in Port : HasSrc(h, p) => p = cache[h].port
         /\ running /\ NothingToDelete =>
              \A h \in Host : ~Cached(h) => ~HasDst(h) /\ \A p \in Port : ~HasSrc(h, p)
         /\ \A h \in Host, p \in Port : HasSrc(h, p) /\ HasDst(h) => dst[h].port = p
    BY DEF RulesInv, CachedRules, ForgottenRules, RepliesFollowHost
  <2>02. ASSUME /\ \A h \in Host : Cached(h)' =>
                     /\ HasDst(h)' => dst'[h].port = cache'[h].port
                     /\ \A p \in Port : HasSrc(h, p)' => p = cache'[h].port
                /\ running' /\ NothingToDelete' =>
                     \A h \in Host : ~Cached(h)' =>
                       ~HasDst(h)' /\ \A p \in Port : ~HasSrc(h, p)'
                /\ \A h \in Host, p \in Port :
                     HasSrc(h, p)' /\ HasDst(h)' => dst'[h].port = p
         PROVE  RulesInv'
    BY <2>02 DEF RulesInv, CachedRules, ForgottenRules, RepliesFollowHost
  <2>1. CASE QuietStep
    <3>1. \A h \in Host, p \in Port : HasSrc(h, p)' => HasSrc(h, p)
      BY <2>0, <2>00, <2>1 DEF QuietStep, HasSrc
    <3>2. \A h \in Host : HasDst(h)' => HasDst(h) /\ dst'[h].port = dst[h].port
      BY <2>1 DEF QuietStep, HasDst
    <3>3. \A h \in Host : Cached(h)' <=> Cached(h)
      BY <2>1 DEF QuietStep, Cached
    <3>4. /\ running' = running /\ cache' = cache
          /\ NothingToDelete' <=> NothingToDelete
      BY <2>1 DEF QuietStep, NothingToDelete
    <3>5. QED
      BY <2>01, <2>02, <3>1, <3>2, <3>3, <3>4
  <2>2. ASSUME NEW h \in Host, NEW p \in Port, NEW t \in 1..MaxTime,
               BanLoop(h, p, t)
        PROVE  FALSE
    BY <2>2 DEF BanLoop, LoopBanned
  <2>3. ASSUME NEW h \in Host, NEW p \in Port, NEW t \in 1..MaxTime,
               Learn(h, p, t), Clock, running, UNCHANGED datapath
        PROVE  RulesInv'
    <3> DEFINE delete == IF Cached(h) THEN cache[h].port # p ELSE ~NothingToDelete
               refresh == Valid(h, p)
               timeout == _jitter_learn_timeout(h, p)
               idle == IF conf.idle_dst THEN timeout + Guard ELSE 0
               left == Deleted(IF delete THEN {h} ELSE {})
    <3>1. /\ src' = [left.src EXCEPT ![h][p] = After(timeout)]
          /\ dst' = IF refresh THEN left.dst
                    ELSE [left.dst EXCEPT ![h] = [port |-> p, until |-> After(idle),
                                                  idle |-> idle]]
      BY <2>3 DEF Learn, learn_host_on_vlan_port_flows
    <3>2. /\ \A g \in Host, q \in Port :
               left.src[g][q] = IF delete /\ g = h THEN 0 ELSE src[g][q]
          /\ \A g \in Host :
               left.dst[g] = IF delete /\ g = h THEN NoRule ELSE dst[g]
          /\ left.src \in [Host -> [Port -> 0..Forever]]
          /\ DOMAIN left.dst = Host
      <4> HIDE DEF delete
      <4>1. 0 \in 0..Forever
        BY DEF Forever
      <4>2. QED
        BY <4>1 DEF Deleted, TypeOK
    <3>3. cache' = [cache EXCEPT ![h] = [port |-> p, time |-> t]]
      BY <2>3 DEF Learn, add_cache_host
    <3>4. /\ now' = now + 1 /\ UNCHANGED <<coldStart, running, lastExpired>>
          /\ (NothingToDelete' <=> NothingToDelete)
      BY <2>3 DEF Clock, Learn, datapath, NothingToDelete
    <3>5. refresh => ~delete /\ cache[h].port = p /\ Cached(h)
      BY DEF Valid, Cached, NoEntry
    <3>6. ~delete => /\ \A q \in Port : HasSrc(h, q) => q = p
                     /\ refresh => (HasDst(h) => dst[h].port = p)
      BY <2>01, <2>3, <3>5
    <3> HIDE DEF delete, refresh, timeout, idle, left
    <3>7. ASSUME NEW g \in Host, g # h
          PROVE  /\ dst'[g] = dst[g] /\ cache'[g] = cache[g]
                 /\ \A q \in Port : src'[g][q] = src[g][q]
      BY <3>1, <3>2, <3>3, <3>7 DEF TypeOK
    <3>8. \A q \in Port : q # p => src'[h][q] = IF delete THEN 0 ELSE src[h][q]
      BY <3>1, <3>2
    <3>9. dst'[h].port = p \/ dst'[h] = (IF delete THEN NoRule ELSE dst[h])
      BY <3>1, <3>2
    <3>10. cache'[h].port = p /\ Cached(h)'
      <4>1. cache'[h] = [port |-> p, time |-> t]
        BY <3>3 DEF TypeOK
      <4>2. QED
        BY <4>1 DEF Cached, NoEntry
    <3>11. ASSUME NEW g \in Host, g # h
           PROVE  /\ Cached(g)' <=> Cached(g)
                  /\ HasDst(g)' => HasDst(g)
                  /\ \A q \in Port : HasSrc(g, q)' => HasSrc(g, q)
      BY <2>0, <2>00, <3>4, <3>7, <3>11 DEF Cached, HasDst, HasSrc
    <3>12. \A q \in Port : HasSrc(h, q)' => q = p
      BY <2>0, <2>00, <3>4, <3>6, <3>8 DEF HasSrc
    <3>13. HasDst(h)' => dst'[h].port = p
      <4>1. CASE refresh
        <5>1. dst'[h] = dst[h]
          BY <3>1, <3>2, <3>5, <4>1
        <5>2. QED
          BY <2>0, <2>00, <3>4, <3>5, <3>6, <4>1, <5>1 DEF HasDst
      <4>2. CASE ~refresh
        BY <3>1, <3>2, <4>2
      <4>3. QED
        BY <4>1, <4>2
    <3>14. \A g \in Host : Cached(g)' =>
             /\ HasDst(g)' => dst'[g].port = cache'[g].port
             /\ \A q \in Port : HasSrc(g, q)' => q = cache'[g].port
      BY <2>01, <3>7, <3>10, <3>11, <3>12, <3>13
    <3>15. running' /\ NothingToDelete' =>
             \A g \in Host : ~Cached(g)' => ~HasDst(g)' /\ \A q \in Port : ~HasSrc(g, q)'
      BY <2>01, <2>3, <3>4, <3>10, <3>11
    <3>16. \A g \in Host, q \in Port : HasSrc(g, q)' /\ HasDst(g)' => dst'[g].port = q
      BY <2>01, <3>7, <3>11, <3>12, <3>13
    <3>17. QED
      BY <2>02, <3>14, <3>15, <3>16
  <2>4. CASE StateExpire
    <3> DEFINE before == now - LearnTimeout
               old == {h \in VlanHosts : cache[h].time < before /\ ~Permanent(h)}
               due == oldest = 0 \/ oldest < before
               gone == IF due THEN old ELSE {}
               rules == Deleted(IF due /\ ~conf.idle_dst THEN old ELSE {})
    <3>1. /\ Expire(gone) /\ src' = rules.src /\ dst' = rules.dst
          /\ lastExpired' = IF due /\ old # {} THEN now ELSE lastExpired
          /\ now' = now + 1 /\ UNCHANGED <<running, coldStart>>
      BY <2>4 DEF StateExpire, Clock, datapath
    <3> HIDE DEF old, due
    <3>2. \A h \in Host : cache'[h] = IF h \in gone THEN NoEntry ELSE cache[h]
      BY <3>1 DEF Expire
    <3>3. \A h \in Host : /\ dst'[h] \in {dst[h], NoRule}
                          /\ \A p \in Port : src'[h][p] \in {src[h][p], 0}
      BY <3>1 DEF Deleted
    <3>4. \A h \in Host : /\ HasDst(h)' => HasDst(h) /\ dst'[h] = dst[h]
                          /\ \A p \in Port : HasSrc(h, p)' => HasSrc(h, p)
      BY <2>0, <2>00, <3>1, <3>3 DEF HasDst, HasSrc, NoRule
    <3>5. \A h \in Host : Cached(h)' => Cached(h) /\ cache'[h] = cache[h]
      BY <3>2 DEF Cached
    <3>6. NothingToDelete' => gone = {} /\ NothingToDelete
      <4>1. CASE due /\ old # {}
        BY <2>0, <3>1, <4>1 DEF NothingToDelete, PastInv
      <4>2. CASE ~(due /\ old # {})
        BY <3>1, <4>2 DEF NothingToDelete
      <4>3. QED
        BY <4>1, <4>2
    <3>7. gone = {} => \A h \in Host : Cached(h)' <=> Cached(h)
      BY <3>2 DEF Cached
    <3>8. QED
      BY <2>01, <2>02, <3>1, <3>4, <3>5, <3>6, <3>7
  <2>5. CASE Disconnect
    <3>1. /\ ~running' /\ now' = now + 1 /\ UNCHANGED <<src, dst>>
          /\ \A h \in Host : cache'[h] = IF cache[h].port \in Port THEN NoEntry
                                         ELSE cache[h]
      BY <2>5 DEF Disconnect, Clock, Expire, switch
    <3>2. \A h \in Host : /\ HasDst(h)' => HasDst(h)
                          /\ \A p \in Port : HasSrc(h, p)' => HasSrc(h, p)
      BY <2>0, <2>00, <3>1 DEF HasDst, HasSrc
    <3>3. \A h \in Host : Cached(h)' => Cached(h) /\ cache'[h] = cache[h]
      BY <3>1 DEF Cached
    <3>4. QED
      BY <2>01, <2>02, <3>1, <3>2, <3>3
  <2>6. CASE ColdStart
    <3>1. \A h \in Host : ~HasDst(h)' /\ \A p \in Port : ~HasSrc(h, p)'
      BY <2>0, <2>6 DEF ColdStart, Clock, HasDst, HasSrc, NoRule
    <3>2. QED
      BY <2>02, <3>1
  <2>7. QED
    <3>1. CASE BusyStep /\ Clock /\ PacketIn /\ UNCHANGED datapath
      BY <2>2, <2>3, <2>4, <2>5, <2>6, <3>1 DEF BusyStep, PacketIn
    <3>2. QED
      BY <2>1, <2>4, <2>5, <2>6, <3>1, StepsOfRules
<1>3. RulesInv => RepliesFollowHost
  BY DEF RulesInv
<1>4. QED
  BY <1>1, <1>2, <1>3, LearnTyping, PastInvariant, PTL DEF Spec

\* What RecentIsInstalled rests on: while the cache entry of a host is valid,
\* its source rule stays for the guard time from when it was learned.
InstalledInv ==
  \A h \in Host, p \in Port \ conf.loop_protect :
    ~Permanent(h) /\ Valid(h, p) => src[h][p] >= cache[h].time + Guard

\* A packet-in that _learn_cache_check drops is one of a host that has its rule,
\* whatever the time-outs, the jitter and the flaps of the port.
THEOREM RecentHostsInstalled == Spec => []RecentIsInstalled
<1> USE LearnAssumption
<1>1. Init => InstalledInv
  BY DEF Init, InstalledInv, Valid, NoEntry
<1>2. TypeOK /\ PastInv /\ InstalledInv /\ [Next]_vars => InstalledInv'
  <2> SUFFICES ASSUME TypeOK, PastInv, InstalledInv, [Next]_vars
               PROVE  InstalledInv'
    OBVIOUS
  <2>0. now \in 1..MaxTime /\ now \in Nat
    BY DEF TypeOK
  <2>1. ASSUME UNCHANGED <<conf, cache, updated, src>>
        PROVE  InstalledInv'
    BY <2>1 DEF InstalledInv, Permanent, Valid
  <2>2. CASE \E h \in Host, p \in Port : Packet(h, p)
    BY <2>1, <2>2 DEF Packet, datapath, controller, switch
  <2>3. CASE \E h \in Host : Traffic(h)
    BY <2>1, <2>3 DEF Traffic, datapath, controller
  <2>4. CASE \E p \in Port : LinkChange(p)
    BY <2>1, <2>4 DEF LinkChange, datapath, controller, switch
  <2>5. CASE Tick \/ Ignore
    BY <2>1, <2>5 DEF Tick, Ignore, datapath, controller, switch
  <2>6. CASE PacketIn
    <3> DEFINE h == Head(events).host
               p == Head(events).port
               t == Head(events).time
    <3>1. h \in Host /\ p \in Port /\ t \in 1..MaxTime
      BY <2>6, HeadOfEvents DEF PacketIn, NextIsPacketIn
    <3>2. UNCHANGED <<conf, updated>>
      BY <2>6 DEF PacketIn, datapath
    <3>3. BanFull(h, p) \/ KeepPermanent(h, p) \/ KeepRecent(h, p, t)
            \/ BanLoop(h, p, t) \/ Learn(h, p, t)
      BY <2>6 DEF PacketIn
    <3>4. t < now
      <4>1. Head(events) = events[1] /\ 1 \in 1..Len(events)
        BY <2>6 DEF PacketIn, NextIsPacketIn, TypeOK
      <4>2. QED
        BY <4>1 DEF PastInv
    <3> HIDE DEF h, p, t
    <3>5. CASE BanFull(h, p) \/ KeepPermanent(h, p) \/ KeepRecent(h, p, t)
      BY <2>1, <3>2, <3>5 DEF BanFull, KeepPermanent, KeepRecent, controller, switch
    <3>6. ASSUME cache' = [cache EXCEPT ![h] = [port |-> p, time |-> t]],
                 \A g \in Host, q \in Port : g # h => src'[g][q] = src[g][q],
                 p \notin conf.loop_protect => src'[h][p] >= t + Guard
          PROVE  InstalledInv'
      <4> SUFFICES ASSUME NEW g \in Host, NEW q \in Port \ conf.loop_protect,
                          ~Permanent(g)', Valid(g, q)'
                   PROVE  src'[g][q] >= cache'[g].time + Guard
        BY <3>2 DEF InstalledInv
      <4>1. CASE g = h
        BY <3>1, <3>6, <4>1 DEF Valid, TypeOK
      <4>2. CASE g # h
        <5>1. cache'[g] = cache[g] /\ src'[g][q] = src[g][q]
          BY <3>6, <4>2 DEF TypeOK
        <5>2. ~Permanent(g) /\ Valid(g, q)
          BY <3>2, <5>1 DEF Permanent, Valid
        <5>3. QED
          BY <5>1, <5>2 DEF InstalledInv
      <4>3. QED
        BY <4>1, <4>2
    <3>7. CASE BanLoop(h, p, t)
      BY <3>6, <3>7 DEF BanLoop, LoopBanned, add_cache_host
    <3>8. CASE Learn(h, p, t)
      <4> DEFINE delete == IF Cached(h) THEN cache[h].port # p ELSE ~NothingToDelete
                 timeout == _jitter_learn_timeout(h, p)
                 left == Deleted(IF delete THEN {h} ELSE {})
      <4>1. /\ src' = [left.src EXCEPT ![h][p] = After(timeout)]
            /\ cache' = [cache EXCEPT ![h] = [port |-> p, time |-> t]]
        BY <3>8 DEF Learn, learn_host_on_vlan_port_flows, add_cache_host
      <4> HIDE DEF delete
      <4>2. /\ \A g \in Host, q \in Port : g # h => left.src[g][q] = src[g][q]
            /\ left.src \in [Host -> [Port -> 0..Forever]]
        <5>1. 0 \in 0..Forever
          BY DEF Forever
        <5>2. QED
          BY <5>1 DEF Deleted, TypeOK
      <4> HIDE DEF left, timeout
      <4>3. /\ \A g \in Host, q \in Port : g # h => src'[g][q] = src[g][q]
            /\ src'[h][p] = After(timeout)
        BY <3>1, <4>1, <4>2
      <4>4. timeout \in Nat /\ (timeout = 0 \/ timeout >= Guard)
        BY <3>1, TimeoutBounds DEF timeout
      <4>5. After(timeout) >= t + Guard
        BY <2>0, <3>1, <3>4, <4>4 DEF After, Forever
      <4>6. QED
        BY <3>6, <4>1, <4>3, <4>5
    <3>9. QED
      BY <3>3, <3>5, <3>7, <3>8
  <2>7. CASE PortStatus
    <3>1. PICK p \in Port : /\ DeletePort(p) \/ UNCHANGED <<src, dst, ban>>
                            /\ updated' = [updated EXCEPT ![p] = now]
      BY <2>7, HeadOfEvents DEF PortStatus
    <3>2. UNCHANGED <<conf, cache>>
      BY <2>7 DEF PortStatus, controller
    <3>3. \A h \in Host, q \in Port : q # p => src'[h][q] = src[h][q]
      <4>1. \A h \in Host : src[h] \in [Port -> 0..Forever]
        BY DEF TypeOK
      <4>2. CASE DeletePort(p)
        <5>1. \A h \in Host : src'[h] = [src[h] EXCEPT ![p] = 0]
          BY <4>2 DEF DeletePort
        <5>2. QED
          BY <4>1, <5>1
      <4>3. QED
        BY <3>1, <4>2
    <3>4. \A h \in Host : ~Valid(h, p)'
      <4>1. updated'[p] = now
        BY <3>1 DEF TypeOK
      <4>2. \A h \in Host : cache[h].time < now /\ cache[h].time \in Nat
        BY DEF PastInv, TypeOK
      <4>3. QED
        BY <2>0, <3>2, <4>1, <4>2 DEF Valid
    <3>5. \A h \in Host, q \in Port : q # p /\ Valid(h, q)' => Valid(h, q)
      BY <3>1, <3>2 DEF Valid, TypeOK
    <3>6. QED
      BY <3>2, <3>3, <3>4, <3>5 DEF InstalledInv, Permanent
  <2>8. CASE StateExpire
    <3> DEFINE before == now - LearnTimeout
               old == {h \in VlanHosts : cache[h].time < before /\ ~Permanent(h)}
               due == oldest = 0 \/ oldest < before
    <3>1. /\ Expire(IF due THEN old ELSE {})
          /\ src' = Deleted(IF due /\ ~conf.idle_dst THEN old ELSE {}).src
          /\ UNCHANGED <<conf, updated>>
      BY <2>8 DEF StateExpire, datapath
    <3> HIDE DEF old, due
    <3>2. SUFFICES ASSUME NEW h \in Host, NEW p \in Port \ conf.loop_protect,
                          ~Permanent(h)', Valid(h, p)'
                   PROVE  src'[h][p] >= cache'[h].time + Guard
      BY <3>1 DEF InstalledInv
    <3>3. cache'[h] = cache[h] /\ ~(due /\ h \in old)
      BY <3>1, <3>2 DEF Expire, Valid, NoEntry
    <3>4. src'[h] = src[h]
      BY <3>1, <3>3 DEF Deleted
    <3>5. ~Permanent(h) /\ Valid(h, p)
      BY <3>1, <3>2, <3>3 DEF Permanent, Valid
    <3>6. QED
      BY <3>3, <3>4, <3>5 DEF InstalledInv
  <2>9. CASE Disconnect
    <3>1. \A h \in Host : cache'[h].port \notin Port
      BY <2>9 DEF Disconnect, Expire, NoEntry
    <3>2. conf' = conf
      BY <2>9 DEF Disconnect
    <3>3. QED
      BY <3>1, <3>2 DEF InstalledInv, Valid
  <2>10. CASE ColdStart
    BY <2>10 DEF ColdStart, InstalledInv, Valid, NoEntry
  <2>11. CASE UNCHANGED vars
    BY <2>1, <2>11 DEF vars
  <2>12. QED
    BY <2>2, <2>3, <2>4, <2>5, <2>6, <2>7, <2>8, <2>9, <2>10, <2>11 DEF Next
<1>3. TypeOK /\ InstalledInv => RecentIsInstalled
  <2> SUFFICES ASSUME TypeOK, InstalledInv, NEW h \in Host,
                      NEW p \in Port \ conf.loop_protect,
                      ~Permanent(h), Recent(h, p, now)
               PROVE  HasSrc(h, p)
    BY DEF RecentIsInstalled
  <2>1. now \in Nat /\ cache[h].time \in Nat /\ src[h][p] \in Nat
    BY DEF TypeOK, Forever
  <2>2. src[h][p] >= cache[h].time + Guard /\ now - cache[h].time < Guard
    BY DEF InstalledInv, Recent
  <2>3. QED
    BY <2>1, <2>2 DEF HasSrc
<1>4. QED
  BY <1>1, <1>2, <1>3, LearnTyping, PastInvariant, PTL DEF Spec
=============================================================================
