--------------------------- MODULE ProvisionProofs ---------------------------
(***************************************************************************)
(* LinksFollowed of Provision, for any set of configurations and any length *)
(* of the queue of events.                                                 *)
(***************************************************************************)
EXTENDS Provision, TLAPS

(***************************************************************************)
(* The queue.  While the switch reports port changes, only such reports    *)
(* wait.  Before that, a connection that is up is announced by the last    *)
(* event, whose ports are right but for changes since; a connection that   *)
(* was lost after its announcement has its end behind it.                  *)
(***************************************************************************)
Last == inbox[Len(inbox)]

QueueTypes ==
  /\ inbox \in Seq(Event) /\ link \subseteq Port
  /\ running \in BOOLEAN /\ conn \in BOOLEAN /\ async \in BOOLEAN

Reporting ==
  async => conn /\ running /\ \A i \in 1..Len(inbox) : inbox[i].kind = "status"

Announced ==
  conn /\ ~async => /\ inbox # <<>> /\ Last.kind = "connect"
                    /\ \A p \in Port \ missed : (p \in Last.ports <=> p \in link)

Withdrawn == ~conn /\ inbox # <<>> => Last.kind # "connect"

EndsFollow ==
  \A i \in 1..Len(inbox) :
    inbox[i].kind = "connect" /\ i < Len(inbox) => inbox[i + 1].kind = "disconnect"

Described ==
  \A i \in 2..Len(inbox) :
    inbox[i].kind = "connect" =>
      inbox[i - 1].kind = "desc" /\ inbox[i - 1].ports = inbox[i].ports

Queue == QueueTypes /\ Reporting /\ Announced /\ Withdrawn /\ EndsFollow /\ Described

(***************************************************************************)
(* What is known of the ports.  A port that is provisioned is known to be  *)
(* up, and conversely once the switch reports; what is known when the      *)
(* connection event is next came with the description before it.           *)
(***************************************************************************)
KnownUp == \A p \in Ports(conf) \ EverAlways : p \in phys => p \in upnos

Complete == async => \A p \in Ports(conf) \ EverAlways : p \in upnos => p \in phys

Foreseen ==
  inbox # <<>> /\ inbox[1].kind = "connect" =>
    /\ upnos \subseteq inbox[1].ports
    /\ conn /\ Len(inbox) = 1 => upnos = inbox[1].ports

\* The last report under way of a port tells its state.
Told(p) ==
  \E i \in 1..Len(inbox) :
    /\ inbox[i].port = p /\ (inbox[i].up <=> p \in link)
    /\ \A j \in (i + 1)..Len(inbox) : inbox[j].port # p
Quiet(p) == \A i \in 1..Len(inbox) : inbox[i].port # p

Believed ==
  async => \A p \in Port \ (missed \cup EverAlways) :
             Told(p) \/ (Quiet(p) /\ (p \in upnos <=> p \in link))

PortsInv ==
  /\ conf \in Configs /\ phys \subseteq Ports(conf)
  /\ KnownUp /\ Complete /\ Foreseen /\ Believed

LinksInv == Queue /\ PortsInv

LEMMA LinksInvFollowed == LinksInv => LinksFollowed
<1> SUFFICES ASSUME LinksInv, Provisioned,
                    NEW p \in Ports(conf) \ (missed \cup EverAlways),
                    ~\E i \in DOMAIN inbox : inbox[i].kind = "status" /\ inbox[i].port = p
             PROVE  p \in phys <=> p \in link
  BY DEF LinksFollowed
<1>1. async /\ \A i \in 1..Len(inbox) : inbox[i].kind = "status"
  BY DEF Provisioned, LinksInv, Queue, Reporting
<1>2. DOMAIN inbox = 1..Len(inbox)
  BY DEF LinksInv, Queue, QueueTypes
<1>3. Told(p) \/ (Quiet(p) /\ (p \in upnos <=> p \in link))
  BY <1>1, ConfigsAssumption DEF LinksInv, PortsInv, Believed
<1>4. ~Told(p)
  BY <1>1, <1>2 DEF Told
<1> QED
  BY <1>1, <1>3, <1>4 DEF LinksInv, PortsInv, KnownUp, Complete

LEMMA InitLinksInv == Init => LinksInv
<1> SUFFICES ASSUME Init PROVE LinksInv
  OBVIOUS
<1>1. /\ Len(inbox) = 0 /\ inbox \in Seq(Event) /\ inbox = <<>>
      /\ running = FALSE /\ conn = FALSE /\ async = FALSE /\ link \subseteq Port
  BY DEF Init
<1>2. Queue
  <2>1. EndsFollow /\ Described
    BY <1>1 DEF EndsFollow, Described
  <2> QED
    BY <1>1, <2>1 DEF Queue, QueueTypes, Reporting, Announced, Withdrawn
<1>3. conf \in Configs /\ phys = {}
  BY DEF Init
<1>4. PortsInv
  BY <1>1, <1>3 DEF PortsInv, KnownUp, Complete, Foreseen, Believed
<1> QED
  BY <1>2, <1>4 DEF LinksInv
-----------------------------------------------------------------------------
(***************************************************************************)
(* The queue: an event is taken from its head, one or two are put behind   *)
(* its end.                                                                *)
(***************************************************************************)
LEMMA Taken ==
  ASSUME NEW S, NEW s \in Seq(S), s # <<>>
  PROVE  /\ Len(s) \in Nat \ {0} /\ Head(s) = s[1]
         /\ Tail(s) \in Seq(S) /\ Len(Tail(s)) = Len(s) - 1
         /\ Tail(s) = <<>> <=> Len(s) = 1
         /\ \A i \in 1..(Len(s) - 1) : Tail(s)[i] = s[i + 1]
<1>1. Len(s) \in Nat \ {0} /\ Head(s) = s[1]
  OBVIOUS
<1>2. Tail(s) \in Seq(S) /\ Len(Tail(s)) = Len(s) - 1
  OBVIOUS
<1>3. \A i \in 1..(Len(s) - 1) : Tail(s)[i] = s[i + 1]
  OBVIOUS
<1>4. Tail(s) = <<>> <=> Len(Tail(s)) = 0
  <2>1. \A t \in Seq(S) : t = <<>> <=> Len(t) = 0
    OBVIOUS
  <2> QED
    BY <1>2, <2>1
<1> QED
  BY <1>1, <1>2, <1>3, <1>4

LEMMA Put1 ==
  ASSUME NEW S, NEW s \in Seq(S), NEW e \in S
  PROVE  /\ Append(s, e) \in Seq(S) /\ Append(s, e) # <<>>
         /\ Len(s) \in Nat /\ Len(Append(s, e)) = Len(s) + 1
         /\ Append(s, e)[Len(s) + 1] = e
         /\ \A i \in 1..Len(s) : Append(s, e)[i] = s[i]
OBVIOUS

LEMMA Put2 ==
  ASSUME NEW S, NEW s \in Seq(S), NEW e \in S, NEW f \in S
  PROVE  /\ s \o <<e, f>> \in Seq(S) /\ s \o <<e, f>> # <<>>
         /\ Len(s) \in Nat /\ Len(s \o <<e, f>>) = Len(s) + 2
         /\ (s \o <<e, f>>)[Len(s) + 1] = e
         /\ (s \o <<e, f>>)[Len(s) + 2] = f
         /\ \A i \in 1..Len(s) : (s \o <<e, f>>)[i] = s[i]
OBVIOUS

\* What handling the event at the head does to running and async.
LEMMA Handled ==
  ASSUME NextEvent, QueueTypes
  PROVE  LET e == inbox[1] IN
         /\ inbox # <<>> /\ inbox' = Tail(inbox)
         /\ UNCHANGED <<conf, link, conn, missed>>
         /\ running' \in BOOLEAN /\ async' \in BOOLEAN
         /\ e.kind = "connect" =>
              /\ running' = TRUE
              /\ async' <=> conn /\ \A i \in 1..Len(inbox) : inbox[i].kind # "disconnect"
         /\ e.kind # "connect" => async' = async
         /\ e.kind \notin {"connect", "disconnect"} => running' = running
<1>1. inbox # <<>> /\ inbox' = Tail(inbox) /\ UNCHANGED <<conf, link, conn, missed>>
  BY DEF NextEvent
<1>2. Head(inbox) = inbox[1] /\ DOMAIN inbox = 1..Len(inbox)
  BY <1>1 DEF QueueTypes
<1>3. CASE inbox[1].kind = "connect" /\ Connect(inbox[1].ports)
  BY <1>1, <1>2, <1>3 DEF Connect
<1>4. CASE inbox[1].kind # "connect" /\ UNCHANGED <<running, async>>
  BY <1>1, <1>4 DEF QueueTypes
<1>5. CASE inbox[1].kind = "disconnect" /\ running' = FALSE /\ async' = async
  BY <1>1, <1>5 DEF QueueTypes
<1>6. \/ inbox[1].kind = "connect" /\ Connect(inbox[1].ports)
      \/ inbox[1].kind # "connect" /\ UNCHANGED <<running, async>>
      \/ inbox[1].kind = "disconnect" /\ running' = FALSE /\ async' = async
  BY <1>2 DEF NextEvent, PortStatus, PortDesc, Disconnected
<1> QED
  BY <1>3, <1>4, <1>5, <1>6

LEMMA TakeQueue == Queue /\ NextEvent => Queue'
<1> SUFFICES ASSUME Queue, NextEvent PROVE Queue'
  OBVIOUS
<1>1. QueueTypes
  BY DEF Queue
<1>2. /\ inbox # <<>> /\ inbox' = Tail(inbox) /\ UNCHANGED <<conf, link, conn, missed>>
      /\ running' \in BOOLEAN /\ async' \in BOOLEAN
  BY <1>1, Handled
<1>3. /\ Len(inbox) \in Nat \ {0} /\ inbox' \in Seq(Event)
      /\ Len(inbox') = Len(inbox) - 1 /\ (inbox' = <<>> <=> Len(inbox) = 1)
      /\ \A i \in 1..(Len(inbox) - 1) : inbox'[i] = inbox[i + 1]
  BY <1>1, <1>2, Taken DEF QueueTypes
<1>4. QueueTypes'
  BY <1>1, <1>2, <1>3 DEF QueueTypes
<1>5. EndsFollow' /\ Described'
  <2>1. EndsFollow'
    BY <1>3 DEF Queue, EndsFollow
  <2>2. ASSUME NEW i \in 2..Len(inbox'), inbox'[i].kind = "connect"
        PROVE  inbox'[i - 1].kind = "desc" /\ inbox'[i - 1].ports = inbox'[i].ports
    <3>1. i + 1 \in 2..Len(inbox) /\ (i + 1) - 1 = i
      BY <1>3
    <3>2. inbox'[i] = inbox[i + 1] /\ inbox'[i - 1] = inbox[i]
      BY <1>3
    <3> QED
      BY <2>2, <3>1, <3>2 DEF Queue, Described
  <2> QED
    BY <2>1, <2>2 DEF Described
<1>6. inbox' # <<>> => Last' = Last
  BY <1>3 DEF Last
<1>7. Withdrawn'
  BY <1>2, <1>6 DEF Queue, Withdrawn
\* A connection event that is not the last has a disconnection behind it.
<1>8. inbox[1].kind = "connect" /\ async' => conn /\ Len(inbox) = 1
  <2>1. inbox[1].kind = "connect" /\ 1 < Len(inbox) => inbox[2].kind = "disconnect"
    BY <1>3 DEF Queue, EndsFollow
  <2> QED
    BY <1>1, <1>3, <2>1, Handled
<1>9. Reporting'
  <2>1. CASE inbox[1].kind = "connect" /\ async'
    <3>1. Len(inbox') = 0 /\ running' /\ conn'
      BY <1>1, <1>2, <1>3, <1>8, <2>1, Handled
    <3> QED
      BY <3>1 DEF Reporting
  <2>2. CASE inbox[1].kind # "connect" /\ async'
    <3>1. async /\ conn /\ running /\ \A i \in 1..Len(inbox) : inbox[i].kind = "status"
      BY <1>1, <2>2, Handled DEF Queue, Reporting
    <3>2. inbox[1].kind = "status"
      BY <1>3, <3>1
    <3>3. running' = running /\ conn' = conn
      BY <1>1, <1>2, <3>2, Handled
    <3> QED
      BY <1>3, <3>1, <3>3 DEF Reporting
  <2> QED
    BY <2>1, <2>2 DEF Reporting
<1>10. Announced'
  <2> SUFFICES ASSUME conn', ~async' PROVE Announced'
    BY DEF Announced
  <2>1. conn /\ ~async
    <3>1. inbox[1].kind = "connect" => ~async
      BY <1>3 DEF Queue, Reporting
    <3> QED
      BY <1>1, <1>2, <3>1, Handled
  <2>2. /\ Last.kind = "connect"
        /\ \A p \in Port \ missed : (p \in Last.ports <=> p \in link)
    BY <2>1 DEF Queue, Announced
  <2>3. Len(inbox) # 1
    <3>1. ASSUME Len(inbox) = 1 PROVE FALSE
      <4>1. inbox[1].kind = "connect" /\ \A i \in 1..Len(inbox) : i = 1
        BY <2>2, <3>1 DEF Last
      <4> QED
        BY <1>1, <2>1, <4>1, Handled
    <3> QED
      BY <3>1
  <2> QED
    BY <1>2, <1>3, <1>6, <2>2, <2>3 DEF Announced
<1> QED
  BY <1>4, <1>5, <1>7, <1>9, <1>10 DEF Queue
-----------------------------------------------------------------------------
(***************************************************************************)
(* What handling an event does to the ports.                               *)
(***************************************************************************)
LEMMA AddedPorts ==
  ASSUME NEW S, NEW c, NEW P, NEW cold
  PROVE  ports_add(S, c, P, cold).phys = S.phys \cup (P \cap Ports(c))
BY DEF ports_add

LEMMA DeletedPorts ==
  ASSUME NEW S, NEW c, NEW P
  PROVE  ports_delete(S, c, P).phys = S.phys \ (P \cap Ports(c))
BY DEF ports_delete

\* Of the ports only the one reported changes; afterwards it is provisioned if
\* and only if it is known to be up.
LEMMA StatusPorts ==
  ASSUME PortsInv, NEW p, NEW u \in BOOLEAN, PortStatus(p, u)
  PROVE  /\ p \in upnos' <=> u
         /\ \A q : q # p => (q \in upnos' <=> q \in upnos)
         /\ phys' \subseteq Ports(conf)
         /\ \A q : q # p => (q \in phys' <=> q \in phys)
         /\ p \in Ports(conf) \ EverAlways => (p \in phys' <=> u)
<1>1. upnos' = IF u THEN upnos \cup {p} ELSE upnos \ {p}
  BY DEF PortStatus
<1>2. p \in Ports(conf) \ EverAlways => ~conf.ports[p].always
  BY DEF EverAlways, PortsInv
<1> DEFINE S == [phys |-> phys, flows |-> NoFlows]
           acts == p \in Ports(conf) /\ ~conf.ports[p].always /\ u # (p \in phys)
<1>3. phys' = IF acts THEN (IF u THEN ports_add(S, conf, {p}, FALSE)
                            ELSE ports_delete(S, conf, {p})).phys
              ELSE phys
  BY DEF PortStatus
<1>4. phys' = IF acts THEN (IF u THEN phys \cup ({p} \cap Ports(conf))
                            ELSE phys \ ({p} \cap Ports(conf)))
              ELSE phys
  <2>2. S.phys = phys
    OBVIOUS
  <2> HIDE DEF S, acts
  <2>1. /\ ports_add(S, conf, {p}, FALSE).phys = S.phys \cup ({p} \cap Ports(conf))
        /\ ports_delete(S, conf, {p}).phys = S.phys \ ({p} \cap Ports(conf))
    BY AddedPorts, DeletedPorts
  <2> QED
    BY <1>3, <2>1, <2>2
<1>5. phys \subseteq Ports(conf)
  BY DEF PortsInv
<1>6. /\ phys' \subseteq Ports(conf)
      /\ \A q : q # p => (q \in phys' <=> q \in phys)
  BY <1>4, <1>5
<1>7. p \in Ports(conf) \ EverAlways => (p \in phys' <=> u)
  BY <1>2, <1>4
<1> QED
  BY <1>1, <1>6, <1>7

\* When the connection event is handled, what is provisioned and what is known
\* to be up is what the event says.
LEMMA ConnectPorts ==
  ASSUME PortsInv, NEW P, Connect(P), upnos \subseteq P
  PROVE  /\ phys' \subseteq Ports(conf)
         /\ \A p \in Ports(conf) \ EverAlways :
              (p \in phys' <=> p \in P) /\ (p \in upnos' <=> p \in P)
         /\ \A p : p \notin Ports(conf) => (p \in upnos' <=> p \in upnos)
<1> DEFINE up == {p \in Ports(conf) : p \in P \/ conf.ports[p].always}
<1>1. phys' = phys \cup up /\ upnos' = (upnos \ Ports(conf)) \cup up
  BY DEF Connect
<1>2. \A p \in Ports(conf) \ EverAlways : ~conf.ports[p].always
  BY DEF EverAlways, PortsInv
<1>3. \A p \in Ports(conf) \ EverAlways : p \in phys => p \in P
  BY DEF PortsInv, KnownUp
<1> QED
  BY <1>1, <1>2, <1>3 DEF PortsInv

LEMMA DescPorts ==
  ASSUME PortsInv, NEW P, PortDesc(P)
  PROVE  /\ phys' \subseteq Ports(conf) /\ upnos' = P
         /\ \A p \in Ports(conf) \ EverAlways : p \in phys' => p \in P
<1>1. \A p \in Ports(conf) \ EverAlways : ~conf.ports[p].always
  BY DEF EverAlways, PortsInv
<1> QED
  BY <1>1 DEF PortDesc, PortsInv, KnownUp

LEMMA TakePorts == LinksInv /\ NextEvent => PortsInv'
<1> SUFFICES ASSUME LinksInv, NextEvent PROVE PortsInv'
  OBVIOUS
<1>1. Queue /\ QueueTypes /\ PortsInv
  BY DEF LinksInv, Queue
<1>2. /\ inbox # <<>> /\ inbox' = Tail(inbox) /\ UNCHANGED <<conf, link, conn, missed>>
  BY <1>1, Handled
<1>3. /\ Len(inbox) \in Nat \ {0} /\ Head(inbox) = inbox[1]
      /\ Len(inbox') = Len(inbox) - 1 /\ (inbox' = <<>> <=> Len(inbox) = 1)
      /\ \A i \in 1..(Len(inbox) - 1) : inbox'[i] = inbox[i + 1]
  BY <1>1, <1>2, Taken DEF QueueTypes
<1>4. async => inbox[1].kind = "status" /\ running
  BY <1>1, <1>3 DEF Queue, Reporting
\* Before a connection event there is its description.
<1>5. inbox' # <<>> /\ inbox'[1].kind = "connect" =>
        inbox[1].kind = "desc" /\ inbox[1].ports = inbox'[1].ports
  <2> SUFFICES ASSUME inbox' # <<>>, inbox'[1].kind = "connect"
               PROVE  inbox[1].kind = "desc" /\ inbox[1].ports = inbox'[1].ports
    OBVIOUS
  <2>1. 2 \in 2..Len(inbox) /\ inbox'[1] = inbox[2] /\ 2 - 1 = 1
    BY <1>3
  <2> QED
    BY <1>1, <2>1 DEF Queue, Described
<1>6. conf' \in Configs
  BY <1>1, <1>2 DEF PortsInv
<1>7. ASSUME inbox[1].kind = "status", running, PortStatus(inbox[1].port, inbox[1].up)
      PROVE  PortsInv'
  <2>1. inbox[1].up \in BOOLEAN
    <3>1. inbox[1] \in Event
      BY <1>1, <1>3 DEF QueueTypes
    <3> QED
      BY <1>7, <3>1 DEF Event
  <2>2. async' = async
    BY <1>7 DEF PortStatus
  <2>3. KnownUp' /\ Complete' /\ phys' \subseteq Ports(conf)
    BY <1>1, <1>2, <1>7, <2>1, <2>2, StatusPorts DEF PortsInv, KnownUp, Complete
  <2>4. Foreseen'
    BY <1>5, <1>7 DEF Foreseen
  <2>5. ASSUME async, NEW p \in Port \ (missed \cup EverAlways)
        PROVE  Told(p)' \/ (Quiet(p)' /\ (p \in upnos' <=> p \in link))
    <3>1. CASE Told(p)
      <4>1. PICK i \in 1..Len(inbox) :
                   /\ inbox[i].port = p /\ (inbox[i].up <=> p \in link)
                   /\ \A j \in (i + 1)..Len(inbox) : inbox[j].port # p
        BY <3>1 DEF Told
      <4>2. CASE i = 1
        <5>1. p \in upnos' <=> p \in link
          BY <1>1, <1>7, <2>1, <4>1, <4>2, StatusPorts
        <5>2. Quiet(p)'
          BY <1>3, <4>1, <4>2 DEF Quiet
        <5> QED
          BY <5>1, <5>2
      <4>3. CASE i # 1
        <5>1. i - 1 \in 1..Len(inbox') /\ inbox'[i - 1] = inbox[i]
          BY <1>3, <4>3
        <5>2. \A j \in ((i - 1) + 1)..Len(inbox') : inbox'[j].port # p
          BY <1>3, <4>1, <4>3
        <5> QED
          BY <1>2, <4>1, <5>1, <5>2 DEF Told
      <4> QED
        BY <4>2, <4>3
    <3>2. CASE Quiet(p) /\ (p \in upnos <=> p \in link)
      <4>1. inbox[1].port # p
        BY <1>3, <3>2 DEF Quiet
      <4>2. p \in upnos' <=> p \in upnos
        BY <1>1, <1>7, <2>1, <4>1, StatusPorts
      <4>3. Quiet(p)'
        BY <1>3, <3>2 DEF Quiet
      <4> QED
        BY <3>2, <4>2, <4>3
    <3> QED
      BY <1>1, <2>5, <3>1, <3>2 DEF PortsInv, Believed
  <2>6. Believed'
    BY <1>2, <2>2, <2>5 DEF Believed
  <2> QED
    BY <1>2, <1>6, <2>3, <2>4, <2>6 DEF PortsInv
<1>8. ASSUME inbox[1].kind = "status", ~running, UNCHANGED <<phys, upnos, async>>
      PROVE  PortsInv'
  <2>1. ~async'
    BY <1>4, <1>8
  <2>2. Foreseen'
    BY <1>5, <1>8 DEF Foreseen
  <2> QED
    BY <1>1, <1>2, <1>8, <2>1, <2>2 DEF PortsInv, KnownUp, Complete, Believed
<1>9. ASSUME inbox[1].kind = "desc", PortDesc(inbox[1].ports)
      PROVE  PortsInv'
  <2>1. ~async'
    BY <1>4, <1>9 DEF PortDesc
  <2>2. /\ phys' \subseteq Ports(conf) /\ upnos' = inbox[1].ports
        /\ \A p \in Ports(conf) \ EverAlways : p \in phys' => p \in upnos'
    BY <1>1, <1>9, DescPorts
  <2>3. Foreseen'
    BY <1>5, <2>2 DEF Foreseen
  <2> QED
    BY <1>2, <1>6, <2>1, <2>2, <2>3 DEF PortsInv, KnownUp, Complete, Believed
<1>10. ASSUME inbox[1].kind = "connect", Connect(inbox[1].ports)
       PROVE  PortsInv'
  <2> DEFINE P == inbox[1].ports
  <2>1. upnos \subseteq P /\ (conn /\ Len(inbox) = 1 => upnos = P)
    BY <1>1, <1>2, <1>10 DEF PortsInv, Foreseen
  <2>2. /\ phys' \subseteq Ports(conf)
        /\ \A p \in Ports(conf) \ EverAlways :
             (p \in phys' <=> p \in P) /\ (p \in upnos' <=> p \in P)
        /\ \A p : p \notin Ports(conf) => (p \in upnos' <=> p \in upnos)
    BY <1>1, <1>10, <2>1, ConnectPorts
  <2>3. KnownUp' /\ Complete'
    BY <1>2, <2>2 DEF KnownUp, Complete
  <2>4. Foreseen'
    BY <1>5, <1>10 DEF Foreseen
  <2>5. ASSUME async' PROVE Believed'
    <3>1. conn /\ \A i \in 1..Len(inbox) : inbox[i].kind # "disconnect"
      BY <1>1, <1>10, <2>5, Handled
    <3>2. Len(inbox) = 1
      BY <1>1, <1>3, <1>10, <3>1 DEF Queue, EndsFollow
    <3>3. \A p \in Port \ missed : p \in P <=> p \in link
      BY <1>1, <1>4, <1>10, <3>1, <3>2 DEF Queue, Announced, Last
    <3>4. ASSUME NEW p \in Port \ (missed \cup EverAlways)
          PROVE  p \in upnos' <=> p \in link
      BY <2>1, <2>2, <3>1, <3>2, <3>3
    <3>5. \A p : Quiet(p)'
      BY <1>3, <3>2 DEF Quiet
    <3> QED
      BY <1>2, <3>4, <3>5 DEF Believed
  <2>6. Believed'
    BY <2>5 DEF Believed
  <2> QED
    BY <1>2, <1>6, <2>2, <2>3, <2>4, <2>6 DEF PortsInv
<1>11. ASSUME inbox[1].kind = "disconnect", Disconnected(conf), async' = async
       PROVE  PortsInv'
  <2>1. ~async' /\ phys' = {}
    BY <1>4, <1>11 DEF Disconnected
  <2>2. Foreseen'
    BY <1>5, <1>11 DEF Foreseen
  <2> QED
    BY <1>6, <2>1, <2>2 DEF PortsInv, KnownUp, Complete, Believed
<1> QED
  BY <1>3, <1>7, <1>8, <1>9, <1>10, <1>11 DEF NextEvent
-----------------------------------------------------------------------------
(***************************************************************************)
(* Reloads.                                                                *)
(***************************************************************************)

\* After a warm reload the ports that were provisioned and did not change are,
\* and of the new and the changed ones those known to be up.
LEMMA WarmPorts ==
  ASSUME NEW c, NEW n, NEW ch, NEW ph, NEW up
  PROVE  LET left == ((ph \ (ch.deleted \cap Ports(c))) \ (ch.changed \cap Ports(c)))
                        \cap Ports(n)
         IN WarmStart(c, n, ch, ph, up).phys =
              (left \cup ((ch.added \cap up) \cap Ports(n)))
                 \cup ((ch.changed \cap up) \cap Ports(n))
<1> DEFINE S0 == [phys |-> ph, flows |-> NoFlows]
           Sa == ports_delete(S0, c, ch.deleted)
           S1 == ports_delete(Sa, c, ch.changed)
           B2 == del_vlans(S1.flows, c, ch.deletedVlans \cup ch.changedVlans, n)
           S2 == [phys |-> S1.phys \cap Ports(n), flows |-> B2]
           Sb == ports_add(S2, n, ch.added \cap up, FALSE)
           S3 == ports_add(Sb, n, ch.changed \cap up, FALSE)
<1>1. WarmStart(c, n, ch, ph, up).phys = S3.phys
  BY DEF WarmStart
<1>2. S0.phys = ph /\ S2.phys = S1.phys \cap Ports(n)
  OBVIOUS
<1>3. Sa.phys = S0.phys \ (ch.deleted \cap Ports(c))
  <2> HIDE DEF S0
  <2> QED
    BY DeletedPorts
<1>4. S1.phys = Sa.phys \ (ch.changed \cap Ports(c))
  <2> HIDE DEF Sa
  <2> QED
    BY DeletedPorts
<1>5. Sb.phys = S2.phys \cup ((ch.added \cap up) \cap Ports(n))
  <2> HIDE DEF S2
  <2> QED
    BY AddedPorts
<1>6. S3.phys = Sb.phys \cup ((ch.changed \cap up) \cap Ports(n))
  <2> HIDE DEF Sb
  <2> QED
    BY AddedPorts
<1> HIDE DEF S0, Sa, S1, S2, Sb, S3
<1> QED
  BY <1>1, <1>2, <1>3, <1>4, <1>5, <1>6

LEMMA ReloadedPorts ==
  ASSUME NEW c, NEW n
  PROVE  /\ get_config_changes(c, n).deleted = Ports(c) \ Ports(n)
         /\ get_config_changes(c, n).added = Ports(n) \ Ports(c)
BY DEF get_config_changes, ConfChanges, Ports

LEMMA WarmInv ==
  ASSUME LinksInv, NEW n \in Configs, ReloadWarm(n)
  PROVE  LinksInv'
<1> DEFINE ch == get_config_changes(conf, n)
<1>1. /\ conf' = n /\ phys' = WarmStart(conf, n, ch, phys, upnos).phys
      /\ UNCHANGED <<upnos, running, link, conn, async, missed, inbox>>
  BY DEF ReloadWarm
<1>2. ch.deleted = Ports(conf) \ Ports(n) /\ ch.added = Ports(n) \ Ports(conf)
  BY ReloadedPorts
<1> HIDE DEF ch
<1>3. ASSUME NEW p \in Ports(n)
      PROVE  p \in phys' <=> \/ p \in phys /\ p \notin ch.changed \cap Ports(conf)
                             \/ p \in upnos /\ (p \notin Ports(conf) \/ p \in ch.changed)
  BY <1>1, <1>2, WarmPorts
<1>4. phys' \subseteq Ports(n)
  BY <1>1, WarmPorts
<1>5. PortsInv
  BY DEF LinksInv
<1>6. phys \subseteq Ports(conf)
  BY <1>5 DEF PortsInv
<1>7. KnownUp'
  BY <1>1, <1>3, <1>5, <1>6 DEF KnownUp, PortsInv
<1>8. Complete'
  BY <1>1, <1>3, <1>5 DEF Complete, PortsInv
<1>9. Foreseen' /\ Believed'
  BY <1>1, <1>5 DEF PortsInv, Foreseen, Believed, Told, Quiet
<1>10. Queue'
  BY <1>1 DEF LinksInv, Queue, QueueTypes, Reporting, Announced, Withdrawn,
     EndsFollow, Described, Last
<1> QED
  BY <1>1, <1>4, <1>7, <1>8, <1>9, <1>10 DEF LinksInv, PortsInv

\* The connection ends, whoever ends it.
LEMMA EndQueue ==
  ASSUME Queue, inbox' = Append(inbox, [kind |-> "disconnect"]), conn' = FALSE,
         async' = FALSE, running' \in BOOLEAN, UNCHANGED link
  PROVE  /\ Queue'
         /\ Len(inbox) \in Nat /\ Len(inbox') = Len(inbox) + 1
         /\ \A i \in 1..Len(inbox) : inbox'[i] = inbox[i]
         /\ inbox'[Len(inbox) + 1].kind = "disconnect"
<1> DEFINE e == [kind |-> "disconnect"]
<1>0. e \in Event /\ e.kind = "disconnect" /\ inbox' = Append(inbox, e)
  BY DEF Event
<1>1. /\ inbox' \in Seq(Event) /\ inbox' # <<>>
      /\ Len(inbox) \in Nat /\ Len(inbox') = Len(inbox) + 1
      /\ inbox'[Len(inbox) + 1] = e
      /\ \A i \in 1..Len(inbox) : inbox'[i] = inbox[i]
  <2>1. inbox \in Seq(Event)
    BY DEF Queue, QueueTypes
  <2> HIDE DEF e
  <2> QED
    BY <1>0, <2>1, Put1
<1> HIDE DEF e
<1>2. QueueTypes'
  BY <1>1 DEF Queue, QueueTypes
<1>3. EndsFollow'
  BY <1>0, <1>1 DEF Queue, EndsFollow
<1>4. Described'
  BY <1>0, <1>1 DEF Queue, Described
<1>5. Reporting' /\ Announced' /\ Withdrawn'
  BY <1>0, <1>1 DEF Reporting, Announced, Withdrawn, Last
<1> QED
  BY <1>0, <1>1, <1>2, <1>3, <1>4, <1>5 DEF Queue

\* What is known may shrink as the connection ends.
LEMMA EndForeseen ==
  ASSUME LinksInv, inbox' = Append(inbox, [kind |-> "disconnect"]), conn' = FALSE,
         async' = FALSE, running' \in BOOLEAN, UNCHANGED link, upnos' \subseteq upnos
  PROVE  Queue' /\ Foreseen' /\ Believed' /\ Complete'
<1>1. /\ Queue'
      /\ Len(inbox) \in Nat /\ Len(inbox') = Len(inbox) + 1
      /\ \A i \in 1..Len(inbox) : inbox'[i] = inbox[i]
      /\ inbox'[Len(inbox) + 1].kind = "disconnect"
  BY EndQueue DEF LinksInv
<1>2. inbox' # <<>> /\ inbox'[1].kind = "connect" =>
        inbox # <<>> /\ inbox'[1] = inbox[1]
  <2>1. CASE Len(inbox) = 0
    BY <1>1, <2>1
  <2>2. CASE Len(inbox) # 0
    BY <1>1, <2>2
  <2> QED
    BY <2>1, <2>2
<1>3. Foreseen'
  BY <1>2 DEF LinksInv, PortsInv, Foreseen
<1> QED
  BY <1>1, <1>3 DEF Believed, Complete

LEMMA ColdInv ==
  ASSUME LinksInv, NEW n \in Configs, ReloadCold(n)
  PROVE  LinksInv'
<1>1. conf' = n /\ conn' = FALSE /\ async' = FALSE /\ UNCHANGED <<link, missed>>
  BY DEF ReloadCold
<1>2. CASE conn
  <2>1. /\ running' = FALSE /\ phys' = {} /\ upnos' \subseteq upnos
        /\ inbox' = Append(inbox, [kind |-> "disconnect"])
    BY <1>2 DEF ReloadCold
  <2>2. Queue' /\ Foreseen' /\ Believed' /\ Complete'
    BY <1>1, <2>1, EndForeseen
  <2> QED
    BY <1>1, <2>1, <2>2 DEF LinksInv, PortsInv, KnownUp
<1>3. CASE ~conn
  <2>1. phys' = phys \cap Ports(n) /\ UNCHANGED <<running, upnos, inbox>>
    BY <1>3 DEF ReloadCold
  <2>2. Queue'
    BY <1>1, <1>3, <2>1 DEF LinksInv, Queue, QueueTypes, Reporting, Announced,
       Withdrawn, EndsFollow, Described, Last
  <2>3. PortsInv
    BY DEF LinksInv
  <2>4. KnownUp' /\ Complete' /\ Believed'
    BY <1>1, <2>1, <2>3 DEF PortsInv, KnownUp, Complete, Believed
  <2>5. Foreseen'
    BY <1>1, <2>1, <2>3 DEF PortsInv, Foreseen
  <2> QED
    BY <1>1, <2>1, <2>2, <2>4, <2>5 DEF LinksInv, PortsInv
<1> QED
  BY <1>2, <1>3
-----------------------------------------------------------------------------
(***************************************************************************)
(* The switch.                                                             *)
(***************************************************************************)
LEMMA LoseInv ==
  ASSUME LinksInv, LoseConnection PROVE LinksInv'
<1>1. /\ conn' = FALSE /\ async' = FALSE /\ UNCHANGED <<conf, phys, upnos, link, missed>>
      /\ running' = running /\ running \in BOOLEAN
      /\ inbox' = Append(inbox, [kind |-> "disconnect"])
  BY DEF LoseConnection, LinksInv, Queue, QueueTypes
<1>2. Queue' /\ Foreseen' /\ Believed' /\ Complete'
  BY <1>1, EndForeseen
<1> QED
  BY <1>1, <1>2 DEF LinksInv, PortsInv, KnownUp

LEMMA ReconnectInv ==
  ASSUME LinksInv, Reconnect PROVE LinksInv'
<1> DEFINE d == [kind |-> "desc", ports |-> link]
           e == [kind |-> "connect", ports |-> link]
<1>1. /\ ~conn /\ conn' = TRUE /\ inbox' = inbox \o <<d, e>> /\ missed' = {}
      /\ UNCHANGED <<conf, phys, upnos, running, link, async>>
  BY DEF Reconnect
<1>2. Queue /\ QueueTypes /\ PortsInv /\ ~async /\ ~async'
  BY <1>1 DEF LinksInv, Queue, Reporting
<1>3. /\ d \in Event /\ e \in Event
      /\ d.kind = "desc" /\ e.kind = "connect" /\ d.ports = link /\ e.ports = link
  BY <1>2 DEF Event, QueueTypes
<1> HIDE DEF d, e
<1>4. /\ inbox' \in Seq(Event) /\ inbox' # <<>>
      /\ Len(inbox) \in Nat /\ Len(inbox') = Len(inbox) + 2
      /\ inbox'[Len(inbox) + 1] = d /\ inbox'[Len(inbox) + 2] = e
      /\ \A i \in 1..Len(inbox) : inbox'[i] = inbox[i]
  BY <1>1, <1>2, <1>3, Put2 DEF QueueTypes
<1>5. QueueTypes' /\ Reporting' /\ Withdrawn'
  BY <1>1, <1>2, <1>4 DEF QueueTypes, Reporting, Withdrawn
<1>6. Announced'
  <2>1. Last' = e
    BY <1>4 DEF Last
  <2> QED
    BY <1>1, <1>3, <1>4, <2>1 DEF Announced
<1>7. EndsFollow'
  <2> SUFFICES ASSUME NEW i \in 1..Len(inbox'), inbox'[i].kind = "connect",
                      i < Len(inbox')
               PROVE  inbox'[i + 1].kind = "disconnect"
    BY DEF EndsFollow
  <2>1. i \in 1..Len(inbox) /\ inbox'[i] = inbox[i]
    BY <1>3, <1>4
  \* The last event of a connection that is down announces none.
  <2>2. i # Len(inbox)
    BY <1>1, <1>2, <1>4, <2>1 DEF Queue, Withdrawn, Last
  <2>3. i + 1 \in 1..Len(inbox) /\ i < Len(inbox)
    BY <1>4, <2>1, <2>2
  <2> QED
    BY <1>2, <1>4, <2>1, <2>3 DEF Queue, EndsFollow
<1>8. Described'
  <2> SUFFICES ASSUME NEW i \in 2..Len(inbox'), inbox'[i].kind = "connect"
               PROVE  inbox'[i - 1].kind = "desc" /\ inbox'[i - 1].ports = inbox'[i].ports
    BY DEF Described
  <2>1. CASE i \in 2..Len(inbox)
    <3>1. inbox'[i] = inbox[i] /\ inbox'[i - 1] = inbox[i - 1]
      BY <1>4, <2>1
    <3> QED
      BY <1>2, <2>1, <3>1 DEF Queue, Described
  <2>2. CASE i = Len(inbox) + 2
    <3>1. inbox'[i] = e /\ inbox'[i - 1] = d
      BY <1>4, <2>2
    <3> QED
      BY <1>3, <3>1
  <2>3. CASE i = Len(inbox) + 1
    BY <1>3, <1>4, <2>3
  <2> QED
    BY <1>4, <2>1, <2>2, <2>3
<1>9. Foreseen'
  <2>1. inbox'[1].kind = "connect" => inbox # <<>> /\ inbox'[1] = inbox[1]
    <3>1. CASE Len(inbox) = 0
      BY <1>3, <1>4, <3>1
    <3>2. CASE Len(inbox) # 0
      BY <1>4, <3>2
    <3> QED
      BY <3>1, <3>2
  <2>2. Len(inbox') # 1
    BY <1>4
  <2> QED
    BY <1>1, <1>2, <2>1, <2>2 DEF PortsInv, Foreseen
<1> QED
  BY <1>1, <1>2, <1>5, <1>6, <1>7, <1>8, <1>9
     DEF LinksInv, Queue, PortsInv, KnownUp, Complete, Believed

LEMMA LinkInv ==
  ASSUME LinksInv, NEW p \in Port, LinkChange(p) PROVE LinksInv'
<1>1. /\ UNCHANGED <<conf, phys, upnos, running, conn, async>>
      /\ link' = IF p \in link THEN link \ {p} ELSE link \cup {p}
  BY DEF LinkChange
<1>2. Queue /\ QueueTypes /\ PortsInv
  BY DEF LinksInv, Queue
<1>3. link' \subseteq Port /\ \A q : q # p => (q \in link' <=> q \in link)
  BY <1>1, <1>2 DEF QueueTypes
<1>4. KnownUp' /\ Complete'
  BY <1>1, <1>2 DEF PortsInv, KnownUp, Complete
<1>5. CASE ~async
  <2>1. /\ inbox' = inbox
        /\ missed' = IF conn THEN missed \cup {p} ELSE missed \ {p}
    BY <1>2, <1>5 DEF LinkChange, QueueTypes
  <2>2. Announced'
    BY <1>1, <1>2, <1>3, <1>5, <2>1 DEF Queue, Announced, Last
  <2>3. Queue'
    BY <1>1, <1>2, <1>3, <1>5, <2>1, <2>2
       DEF Queue, QueueTypes, Reporting, Withdrawn, EndsFollow, Described, Last
  <2>4. Foreseen' /\ Believed'
    BY <1>1, <1>2, <1>5, <2>1 DEF PortsInv, Foreseen, Believed
  <2> QED
    BY <1>1, <1>2, <1>4, <2>3, <2>4 DEF LinksInv, PortsInv
<1>6. CASE async
  <2> DEFINE e == [kind |-> "status", port |-> p, up |-> p \notin link]
  <2>1. conn /\ \A i \in 1..Len(inbox) : inbox[i].kind = "status"
    BY <1>2, <1>6 DEF Queue, Reporting
  <2>2. inbox' = Append(inbox, e) /\ missed' = missed \ {p}
    BY <1>6, <2>1 DEF LinkChange
  <2>3. e \in Event /\ e.kind = "status" /\ e.port = p /\ (e.up <=> p \in link')
    <3>1. p \in link' <=> p \notin link
      BY <1>1
    <3> QED
      BY <3>1 DEF Event
  <2> HIDE DEF e
  <2>4. /\ inbox' \in Seq(Event) /\ inbox' # <<>>
        /\ Len(inbox) \in Nat /\ Len(inbox') = Len(inbox) + 1
        /\ inbox'[Len(inbox) + 1] = e
        /\ \A i \in 1..Len(inbox) : inbox'[i] = inbox[i]
    BY <1>2, <2>2, <2>3, Put1 DEF QueueTypes
  <2>5. \A i \in 1..Len(inbox') : inbox'[i].kind = "status"
    BY <2>1, <2>3, <2>4
  <2>6. QueueTypes' /\ Reporting' /\ Announced' /\ Withdrawn'
    BY <1>1, <1>2, <1>3, <1>6, <2>1, <2>4, <2>5
       DEF Queue, QueueTypes, Reporting, Announced, Withdrawn
  <2>7. EndsFollow' /\ Described'
    BY <2>4, <2>5 DEF EndsFollow, Described
  <2>8. Foreseen'
    BY <2>4, <2>5 DEF Foreseen
  <2>9. ASSUME NEW q \in Port \ (missed' \cup EverAlways)
        PROVE  Told(q)' \/ (Quiet(q)' /\ (q \in upnos' <=> q \in link'))
    <3>1. CASE q = p
      <4>1. Len(inbox) + 1 \in 1..Len(inbox')
        BY <2>4
      <4>2. \A j \in ((Len(inbox) + 1) + 1)..Len(inbox') : FALSE
        BY <2>4
      <4> QED
        BY <2>3, <2>4, <3>1, <4>1, <4>2 DEF Told
    <3>2. CASE q # p
      <4>1. CASE Told(q)
        <5>1. PICK i \in 1..Len(inbox) :
                     /\ inbox[i].port = q /\ (inbox[i].up <=> q \in link)
                     /\ \A j \in (i + 1)..Len(inbox) : inbox[j].port # q
          BY <4>1 DEF Told
        <5>2. i \in 1..Len(inbox') /\ inbox'[i] = inbox[i]
          BY <2>4
        <5>3. \A j \in (i + 1)..Len(inbox') : inbox'[j].port # q
          BY <2>3, <2>4, <3>2, <5>1
        <5> QED
          BY <1>3, <3>2, <5>1, <5>2, <5>3 DEF Told
      <4>2. CASE Quiet(q) /\ (q \in upnos <=> q \in link)
        <5>1. Quiet(q)'
          BY <2>3, <2>4, <3>2, <4>2 DEF Quiet
        <5> QED
          BY <1>1, <1>3, <3>2, <4>2, <5>1
      <4> QED
        BY <1>2, <1>6, <2>2, <3>2, <4>1, <4>2 DEF PortsInv, Believed
    <3> QED
      BY <3>1, <3>2
  <2> QED
    BY <1>1, <1>2, <1>4, <2>6, <2>7, <2>8, <2>9 DEF LinksInv, Queue, PortsInv, Believed
<1> QED
  BY <1>2, <1>5, <1>6 DEF QueueTypes

LEMMA NextLinksInv == LinksInv /\ [Next]_vars => LinksInv'
<1> SUFFICES ASSUME LinksInv, [Next]_vars PROVE LinksInv'
  OBVIOUS
<1>1. CASE NextEvent
  BY <1>1, TakeQueue, TakePorts DEF LinksInv
<1>2. ASSUME NEW n \in Configs, ReloadWarm(n) \/ ReloadCold(n) PROVE LinksInv'
  BY <1>2, WarmInv, ColdInv
<1>3. ASSUME NEW p \in Port, LinkChange(p) PROVE LinksInv'
  BY <1>3, LinkInv
<1>4. CASE LoseConnection \/ Reconnect
  BY <1>4, LoseInv, ReconnectInv
<1>5. CASE UNCHANGED vars
  <2>1. UNCHANGED <<conf, phys, upnos, running, link, conn, async, missed, inbox>>
    BY <1>5 DEF vars
  <2>2. Queue'
    BY <2>1 DEF LinksInv, Queue, QueueTypes, Reporting, Announced, Withdrawn,
       EndsFollow, Described, Last
  <2> QED
    BY <2>1, <2>2 DEF LinksInv, PortsInv, KnownUp, Complete, Foreseen, Believed,
       Told, Quiet
<1> QED
  BY <1>1, <1>2, <1>3, <1>4, <1>5 DEF Next

\* Ports are provisioned as their links are, whatever configurations are
\* loaded, warm or cold, and however links, connections and their events
\* interleave (port_desc_stats_reply_handler, datapath_connect,
\* port_status_handler, _apply_config_changes).
THEOREM PortsFollowLinks == Spec => []LinksFollowed
BY InitLinksInv, NextLinksInv, LinksInvFollowed, PTL DEF Spec
=============================================================================
