----------------------------- MODULE LacpProofs -----------------------------
(***************************************************************************)
(* The rules of the ports of a LAG follow the state of its ports, for      *)
(* every set of datapaths, ports and LAGs.                                 *)
(***************************************************************************)
EXTENDS Lacp, FiniteSetTheorems, WellFoundedInduction, TLAPS

\* Only ports of a running datapath are up.
UpIsRunning == \A p \in phys : DpOf[p] \in running

\* A switch floods to the members the controller would choose for the actor
\* states a and the roles r, or, as long as none is selected and in sync, to
\* ports of which a reload has dropped the state, one of each LAG.
FloodFits(d, a, r, f) ==
  \/ f \cap PortsOf(d) = FloodMembers(d, a, r)
  \/ /\ FloodMembers(d, a, r) = {}
     /\ \A p, q \in f \cap PortsOf(d) :
          a[p] = "notconfigured" /\ (LagOf[p] = LagOf[q] => p = q)

FloodIsCurrent == \A d \in running : FloodFits(d, actor, role, flood)

LagInv == TypeOK /\ UpIsRunning /\ ForwardsIfSelected /\ FloodIsCurrent

-----------------------------------------------------------------------------
\* A set of numbers that is not empty has a least one.
LEMMA Least ==
  ASSUME NEW S \in SUBSET Nat, S # {}
  PROVE  \E x \in S : \A y \in S : x <= y
<1> DEFINE R == OpToRel(<, Nat)
<1>1. \A x, y \in Nat : x < y => <<x, y>> \in R
  BY DEF OpToRel
<1>2. IsWellFoundedOn(R, Nat)
  BY NatLessThanWellFounded
<1> HIDE DEF R
<1>3. PICK x \in S : \A y \in S : ~(<<y, x>> \in R)
  BY <1>2, WFMin
<1>4. \A y \in S : x <= y
  <2> TAKE y \in S
  <2>1. x \in Nat /\ y \in Nat
    OBVIOUS
  <2>2. ~(<<y, x>> \in R)
    BY <1>3
  <2>3. ~(y < x)
    BY <2>1, <2>2, <1>1
  <2> QED
    BY <2>1, <2>3
<1> QED
  BY <1>4

\* What lacp_port_update returns is a role.
LEMMA RoleType ==
  ASSUME NEW p, NEW a, NEW others
  PROVE  lacp_update_port_selection_state(p, a, others) \in Role
<1> DEFINE n == Nominated(DpOf[p], a, LagOf[p], others)
<1>1. lacp_update_port_selection_state(p, a, others) = lacp_port_update(p, n)
  BY DEF lacp_update_port_selection_state
<1> HIDE DEF n
<1>2. lacp_port_update(p, n) \in Role
  BY DEF lacp_port_update, Role
<1> QED
  BY <1>1, <1>2

\* A port has an actor state of its own if and only if it is up.
LEMMA ActorType ==
  ASSUME NEW p, NEW isUp, NEW pkt, NEW ph
  PROVE  /\ ActorOf(p, isUp, pkt, ph) \in Actor
         /\ p \in ph => ActorOf(p, isUp, pkt, ph) \in {"init", "up", "nosync"}
         /\ p \notin ph => ActorOf(p, isUp, pkt, ph) = "none"
BY DEF ActorOf, Actor

LEMMA FrameType ==
  ASSUME NEW p, NEW r
  PROVE  lacp_reqreply(p, get_lacp_flags(p, r)) \in Frame
<1> DEFINE f == get_lacp_flags(p, r)
<1>1. f.sync \in BOOLEAN /\ f.forward \in BOOLEAN
  BY DEF get_lacp_flags
<1>2. (p \in Active) \in BOOLEAN
  OBVIOUS
<1> HIDE DEF f
<1>3. lacp_reqreply(p, f) \in Frame
  BY <1>1, <1>2 DEF lacp_reqreply, Frame
<1> QED
  BY <1>3 DEF f

LEMMA TellType ==
  ASSUME NEW p \in Port, NEW r, NEW lu, NEW t \in [Port -> Frame \cup {None}]
  PROVE  Tell(t, p, r, lu) \in [Port -> Frame \cup {None}]
BY FrameType DEF Tell

-----------------------------------------------------------------------------
\* Members of one LAG that are flooded to are the same.
LEMMA MembersDiffer ==
  ASSUME NEW d, NEW a, NEW r,
         NEW p \in FloodMembers(d, a, r), NEW q \in FloodMembers(d, a, r),
         LagOf[p] = LagOf[q]
  PROVE  p = q
<1>1. p \in Nat /\ q \in Nat
  BY LacpAssumption DEF FloodMembers, PortsOf
<1>2. p <= q /\ q <= p
  BY DEF FloodMembers
<1> QED
  BY <1>1, <1>2

\* What does not touch a datapath's ports nor its flood rules keeps them fit.
LEMMA FitsElsewhere ==
  ASSUME NEW d, NEW a, NEW r, NEW f, NEW a2, NEW r2, NEW f2,
         FloodFits(d, a, r, f),
         \A q \in PortsOf(d) : a2[q] = a[q] /\ r2[q] = r[q],
         f2 \cap PortsOf(d) = f \cap PortsOf(d)
  PROVE  FloodFits(d, a2, r2, f2)
<1>1. FloodMembers(d, a2, r2) = FloodMembers(d, a, r)
  BY DEF FloodMembers
<1>2. CASE f \cap PortsOf(d) = FloodMembers(d, a, r)
  BY <1>1, <1>2 DEF FloodFits
<1>3. CASE f \cap PortsOf(d) # FloodMembers(d, a, r)
  <2>1. \A p, q \in f2 \cap PortsOf(d) :
          a2[p] = "notconfigured" /\ (LagOf[p] = LagOf[q] => p = q)
    BY <1>3 DEF FloodFits
  <2> QED
    BY <1>1, <1>3, <2>1 DEF FloodFits
<1> QED
  BY <1>2, <1>3

\* lacp_update keeps the rules of the port's datapath in step with its state.
LEMMA UpdateKeeps ==
  ASSUME LagInv, UNCHANGED running,
         NEW p \in Port, NEW isUp, NEW pkt \in Bit, NEW others,
         NEW lu \in SUBSET Port, NEW t \in [Port -> Frame \cup {None}],
         phys' \subseteq Port, phys' \ {p} = phys \ {p}, DpOf[p] \in running,
         lacp_update(p, isUp, pkt, others, phys', lu, t)
  PROVE  /\ actor' \in [Port -> Actor] /\ role' \in [Port -> Role]
         /\ \A q \in Port : actor'[q] # "none" /\ actor'[q] # "notconfigured" => q \in phys'
         /\ lacpUp' \subseteq Port /\ last' \in [Port -> Bit]
         /\ drop' \subseteq Port /\ flood' \subseteq Port
         /\ told' \in [Port -> Frame \cup {None}]
         /\ UpIsRunning' /\ ForwardsIfSelected' /\ FloodIsCurrent'
<1> DEFINE ac == ActorOf(p, isUp, pkt, phys')
           a == [actor EXCEPT ![p] = ac]
           ro == lacp_update_port_selection_state(p, a, others)
           r == [role EXCEPT ![p] = ro]
           d0 == DpOf[p]
<1> USE LacpAssumption
<1>1. /\ actor' = a /\ role' = r /\ lacpUp' = lu /\ last' = [last EXCEPT ![p] = pkt]
      /\ IF a = actor /\ r = role THEN told' = t /\ UNCHANGED <<drop, flood>>
         ELSE SetForwarding(p, a, r, phys', lu, t)
  BY DEF lacp_update, lacp_update_actor_state
<1>2. /\ ac \in Actor /\ (p \in phys' => ac \in {"init", "up", "nosync"})
      /\ (p \notin phys' => ac = "none") /\ ro \in Role
  BY ActorType, RoleType
<1> HIDE DEF ac, ro
<1>3. /\ actor \in [Port -> Actor] /\ role \in [Port -> Role]
      /\ last \in [Port -> Bit] /\ phys \subseteq Port
      /\ drop \subseteq Port /\ flood \subseteq Port /\ running \subseteq Dp
      /\ \A q \in Port : actor[q] # "none" /\ actor[q] # "notconfigured" => q \in phys
  BY DEF LagInv, TypeOK
<1>4. /\ actor' \in [Port -> Actor] /\ role' \in [Port -> Role]
      /\ lacpUp' \subseteq Port /\ last' \in [Port -> Bit]
  BY <1>1, <1>2, <1>3
<1>5. \A q \in Port : actor'[q] # "none" /\ actor'[q] # "notconfigured" => q \in phys'
  BY <1>1, <1>2, <1>3
<1>7. UpIsRunning'
  BY DEF LagInv, UpIsRunning
<1>8. CASE a = actor /\ r = role
  <2>1. told' = t /\ drop' = drop /\ flood' = flood /\ actor' = actor /\ role' = role
    BY <1>1, <1>8
  <2>2. p \in phys' => p \in phys
    <3>1. actor[p] = ac
      BY <1>8, <1>3
    <3> QED
      BY <3>1, <1>2, <1>3
  <2>3. ForwardsIfSelected'
    BY <2>1, <2>2 DEF LagInv, ForwardsIfSelected
  <2>4. FloodIsCurrent'
    BY <2>1 DEF LagInv, FloodIsCurrent, FloodFits, FloodMembers, PortsOf
  <2> QED
    BY <1>3, <1>4, <1>5, <1>7, <2>1, <2>3, <2>4
<1>9. CASE ~(a = actor /\ r = role)
  <2>1. SetForwarding(p, a, r, phys', lu, t)
    BY <1>1, <1>9
  <2>2. flood' = (flood \ PortsOf(d0)) \cup FloodMembers(d0, a, r)
    BY <2>1 DEF SetForwarding
  <2>3. /\ told' = t \/ told' = Tell(t, p, r, lu)
        /\ drop' = IF r[p] = "selected" /\ a[p] = "up" THEN drop \ {p} ELSE drop \cup {p}
    BY <2>1 DEF SetForwarding
  <2>4. told' \in [Port -> Frame \cup {None}]
    BY <2>3, TellType
  <2>5. flood' \subseteq Port
    BY <2>2, <1>3 DEF FloodMembers, PortsOf
  <2>6. drop' \subseteq Port
    BY <2>3, <1>3
  <2>7. ForwardsIfSelected'
    BY <2>3, <1>1, <1>3 DEF LagInv, ForwardsIfSelected
  <2>8. ASSUME NEW d \in running PROVE FloodFits(d, a, r, flood')
    <3>1. CASE d = d0
      BY <2>2, <3>1 DEF FloodFits, FloodMembers, PortsOf
    <3>2. CASE d # d0
      <4>1. PortsOf(d) \cap PortsOf(d0) = {} /\ p \notin PortsOf(d)
        BY <3>2 DEF PortsOf
      <4>2. \A q \in PortsOf(d) : a[q] = actor[q] /\ r[q] = role[q]
        BY <4>1, <1>3 DEF PortsOf
      <4>3. FloodMembers(d0, a, r) \subseteq PortsOf(d0)
        BY DEF FloodMembers
      <4>4. flood' \cap PortsOf(d) = flood \cap PortsOf(d)
        BY <4>1, <4>3, <2>2
      <4>5. FloodFits(d, actor, role, flood)
        BY <2>8 DEF LagInv, FloodIsCurrent
      <4> HIDE DEF a, r
      <4> QED
        BY <4>2, <4>4, <4>5, FitsElsewhere
    <3> QED
      BY <3>1, <3>2
  <2>9. FloodIsCurrent'
    <3> HIDE DEF a, r
    <3>1. \A d : FloodFits(d, actor, role, flood)' = FloodFits(d, a, r, flood')
      BY <1>1 DEF FloodFits, FloodMembers, PortsOf
    <3> QED
      BY <2>8, <3>1 DEF FloodIsCurrent
  <2> QED
    BY <1>4, <1>5, <1>7, <2>4, <2>5, <2>6, <2>7, <2>9
<1> QED
  BY <1>8, <1>9

LEMMA InitLag == Init => LagInv
BY LacpAssumption DEF Init, LagInv, TypeOK, UpIsRunning, ForwardsIfSelected, FloodIsCurrent,
   Actor, Role, Bit

\* What a step that does not touch the ports leaves in place.
LEMMA QuietKeeps ==
  LagInv /\ UNCHANGED <<running, phys, actor, role, drop, flood>>
    => UpIsRunning' /\ ForwardsIfSelected' /\ FloodIsCurrent'
BY DEF LagInv, UpIsRunning, ForwardsIfSelected, FloodIsCurrent, FloodFits, FloodMembers, PortsOf

\* The handlers that end in lacp_update.
LEMMA PortKeeps ==
  ASSUME LagInv, NEW p \in Port,
         \/ \E due \in BOOLEAN : lacp_handler(p, due)
         \/ _lacp_state_expire(p) \/ port_add(p) \/ port_delete(p)
  PROVE  LagInv'
<1> USE LacpAssumption
<1>0. TypeOK
  BY DEF LagInv
<1>1. ASSUME NEW due \in BOOLEAN, lacp_handler(p, due) PROVE LagInv'
  <2> DEFINE lu == IF wire[p] THEN lacpUp \cup {p} ELSE lacpUp \ {p}
             t == IF wire[p] # last[p] \/ due THEN Tell(told, p, role, lacpUp) ELSE told
  <2>1. /\ lacp_update(p, wire[p], wire[p], TRUE, phys', lu, t) /\ DpOf[p] \in running
        /\ wire' = [wire EXCEPT ![p] = None]
        /\ UNCHANGED <<running, phys, root, alive, sync, changes>>
    BY <1>1 DEF lacp_handler
  <2>2. lu \in SUBSET Port /\ t \in [Port -> Frame \cup {None}] /\ wire[p] \in Bit
    BY <1>0, TellType DEF TypeOK
  <2>3. wire' \in [Port -> Bit]
    BY <2>1, <1>0 DEF TypeOK, Bit
  <2> HIDE DEF lu, t
  <2>4. phys' \subseteq Port /\ phys' \ {p} = phys \ {p} /\ running' = running
    BY <2>1, <1>0 DEF TypeOK
  <2> QED
    BY <2>1, <2>2, <2>3, <2>4, <1>0, UpdateKeeps DEF LagInv, TypeOK
<1>2. ASSUME _lacp_state_expire(p) PROVE LagInv'
  <2>1. /\ lacp_update(p, FALSE, None, TRUE, phys', lacpUp \ {p}, told) /\ DpOf[p] \in running
        /\ UNCHANGED <<running, phys, root, alive, sync, wire, changes>>
    BY <1>2 DEF _lacp_state_expire
  <2>2. lacpUp \ {p} \in SUBSET Port /\ told \in [Port -> Frame \cup {None}] /\ None \in Bit
    BY <1>0 DEF TypeOK, Bit
  <2>3. phys' \subseteq Port /\ phys' \ {p} = phys \ {p} /\ running' = running
    BY <2>1, <1>0 DEF TypeOK
  <2> QED
    BY <2>1, <2>2, <2>3, <1>0, UpdateKeeps DEF LagInv, TypeOK
<1>3. ASSUME port_add(p) PROVE LagInv'
  <2> DEFINE t == IF p \in Active THEN Tell(told, p, role, lacpUp) ELSE told
  <2>1. /\ lacp_update(p, FALSE, None, FALSE, phys', lacpUp \ {p}, t) /\ DpOf[p] \in running
        /\ phys' = phys \cup {p} /\ changes < MaxChanges /\ changes' = changes + 1
        /\ UNCHANGED <<running, root, alive, sync, wire>>
    BY <1>3 DEF port_add
  <2>2. lacpUp \ {p} \in SUBSET Port /\ t \in [Port -> Frame \cup {None}] /\ None \in Bit
    BY <1>0, TellType DEF TypeOK, Bit
  <2>3. changes' \in 0..MaxChanges
    BY <2>1, <1>0 DEF TypeOK
  <2> HIDE DEF t
  <2>4. phys' \subseteq Port /\ phys' \ {p} = phys \ {p} /\ running' = running
    BY <2>1, <1>0 DEF TypeOK
  <2> QED
    BY <2>1, <2>2, <2>3, <2>4, <1>0, UpdateKeeps DEF LagInv, TypeOK
<1>4. ASSUME port_delete(p) PROVE LagInv'
  <2>1. /\ lacp_update(p, FALSE, None, TRUE, phys', lacpUp \ {p}, told) /\ DpOf[p] \in running
        /\ phys' = phys \ {p} /\ changes < MaxChanges /\ changes' = changes + 1
        /\ UNCHANGED <<running, root, alive, sync, wire>>
    BY <1>4 DEF port_delete
  <2>2. lacpUp \ {p} \in SUBSET Port /\ told \in [Port -> Frame \cup {None}] /\ None \in Bit
    BY <1>0 DEF TypeOK, Bit
  <2>3. changes' \in 0..MaxChanges
    BY <2>1, <1>0 DEF TypeOK
  <2>4. phys' \subseteq Port /\ phys' \ {p} = phys \ {p} /\ running' = running
    BY <2>1, <1>0 DEF TypeOK
  <2> QED
    BY <2>1, <2>2, <2>3, <2>4, <1>0, UpdateKeeps DEF LagInv, TypeOK
<1> QED
  BY <1>1, <1>2, <1>3, <1>4

\* A lost datapath leaves its rules, which no property reads until it is back.
LEMMA DisconnectKeeps ==
  ASSUME LagInv, NEW d0 \in Dp, datapath_disconnect(d0)
  PROVE  LagInv'
<1> USE LacpAssumption
<1>0. TypeOK
  BY DEF LagInv
<1>1. /\ changes < MaxChanges /\ changes' = changes + 1
      /\ running' = running \ {d0} /\ phys' = phys \ PortsOf(d0)
      /\ lacpUp' = lacpUp \ PortsOf(d0)
      /\ last' = [p \in Port |-> IF DpOf[p] = d0 THEN None ELSE last[p]]
      /\ actor' = [p \in Port |-> IF DpOf[p] = d0 THEN "none" ELSE actor[p]]
      /\ UNCHANGED <<root, drop, flood, told, alive, sync, wire>>
  BY DEF datapath_disconnect
<1>2. /\ role' \in [Port -> Role]
      /\ \A p \in Port : DpOf[p] # d0 => role'[p] = role[p]
  <2> DEFINE ro(p) == lacp_update_port_selection_state(p, actor', FALSE)
  <2>1. role' = [p \in Port |-> IF DpOf[p] = d0 THEN ro(p) ELSE role[p]]
    BY DEF datapath_disconnect
  <2>2. \A p \in Port : ro(p) \in Role
    BY RoleType
  <2> HIDE DEF ro
  <2> QED
    BY <2>1, <2>2, <1>0 DEF TypeOK
<1>3. changes' \in 0..MaxChanges
  BY <1>0, <1>1 DEF TypeOK
<1>4. TypeOK'
  BY <1>0, <1>1, <1>2, <1>3 DEF TypeOK, PortsOf, Actor, Bit
<1>5. UpIsRunning'
  BY <1>0, <1>1 DEF LagInv, TypeOK, UpIsRunning, PortsOf
<1>6. ForwardsIfSelected'
  BY <1>0, <1>1, <1>2 DEF LagInv, TypeOK, ForwardsIfSelected, PortsOf
<1>7. ASSUME NEW d \in running' PROVE FloodFits(d, actor', role', flood')
  <2>1. \A q \in PortsOf(d) : actor'[q] = actor[q] /\ role'[q] = role[q]
    BY <1>1, <1>2 DEF PortsOf
  <2>2. FloodFits(d, actor, role, flood) /\ flood' = flood
    BY <1>1 DEF LagInv, FloodIsCurrent
  <2> QED
    BY <2>1, <2>2, FitsElsewhere
<1>8. FloodIsCurrent'
  BY <1>7 DEF FloodIsCurrent, FloodFits, FloodMembers, PortsOf
<1> QED
  BY <1>4, <1>5, <1>6, <1>8 DEF LagInv

\* A cold start begins with every port that is up out of forwarding.
LEMMA ConnectKeeps ==
  ASSUME LagInv, NEW d0 \in Dp, NEW P \in {{}, PortsOf(d0)}, datapath_connect(d0, P)
  PROVE  LagInv'
<1> USE LacpAssumption
<1>0. TypeOK
  BY DEF LagInv
<1>1. /\ d0 \notin running /\ running' = running \cup {d0} /\ phys' = phys \cup P
      /\ lacpUp' = lacpUp \ P
      /\ last' = [p \in Port |-> IF p \in P THEN None ELSE last[p]]
      /\ actor' = [p \in Port |-> IF p \in P THEN "init" ELSE actor[p]]
      /\ drop' = (drop \ PortsOf(d0)) \cup P
      /\ flood' = (flood \ PortsOf(d0)) \cup FloodMembers(d0, actor', role')
      /\ UNCHANGED <<root, alive, sync, wire, changes>>
  BY DEF datapath_connect
<1>2. P \subseteq Port /\ P \subseteq PortsOf(d0)
  BY DEF PortsOf
<1>3. /\ role' \in [Port -> Role]
      /\ \A p \in Port : p \notin P => role'[p] = role[p]
  <2> DEFINE ro(p) == lacp_update_port_selection_state(p, actor', FALSE)
  <2>1. role' = [p \in Port |-> IF p \in P THEN ro(p) ELSE role[p]]
    BY DEF datapath_connect
  <2>2. \A p \in Port : ro(p) \in Role
    BY RoleType
  <2> HIDE DEF ro
  <2> QED
    BY <2>1, <2>2, <1>0 DEF TypeOK
<1>4. told' \in [Port -> Frame \cup {None}]
  <2> DEFINE f(p) == Tell(told, p, role, lacpUp)
  <2>1. told' = [p \in Port |-> IF p \in P \cap Active THEN f(p)[p] ELSE told[p]]
    BY DEF datapath_connect
  <2>2. \A p \in Port : f(p) \in [Port -> Frame \cup {None}]
    BY <1>0, TellType DEF TypeOK
  <2> HIDE DEF f
  <2> QED
    BY <2>1, <2>2, <1>0 DEF TypeOK
<1>5. flood' \subseteq Port /\ drop' \subseteq Port
  BY <1>0, <1>1, <1>2 DEF TypeOK, FloodMembers, PortsOf
<1>6. TypeOK'
  BY <1>0, <1>1, <1>2, <1>3, <1>4, <1>5 DEF TypeOK, Actor, Bit
<1>7. UpIsRunning'
  BY <1>0, <1>1, <1>2 DEF LagInv, TypeOK, UpIsRunning, PortsOf
<1>8. ForwardsIfSelected'
  <2>1. ASSUME NEW p \in phys', actor'[p] # "notconfigured"
        PROVE  p \notin drop' <=> role'[p] = "selected" /\ actor'[p] = "up"
    <3>1. CASE p \in P
      BY <3>1, <1>1, <1>2
    <3>2. CASE p \notin P
      <4>1. p \in phys /\ DpOf[p] \in running /\ DpOf[p] # d0
        BY <3>2, <1>1 DEF LagInv, UpIsRunning
      <4>2. p \notin PortsOf(d0) /\ p \in Port
        BY <4>1, <1>0 DEF PortsOf, TypeOK
      <4> QED
        BY <2>1, <3>2, <4>1, <4>2, <1>1, <1>3 DEF LagInv, ForwardsIfSelected
    <3> QED
      BY <3>1, <3>2
  <2> QED
    BY <2>1 DEF ForwardsIfSelected
<1>9. ASSUME NEW d \in running' PROVE FloodFits(d, actor', role', flood')
  <2>1. CASE d = d0
    BY <2>1, <1>1 DEF FloodFits, FloodMembers, PortsOf
  <2>2. CASE d # d0
    <3>1. PortsOf(d) \cap PortsOf(d0) = {} /\ d \in running
      BY <2>2, <1>1, <1>9 DEF PortsOf
    <3>2. \A q \in PortsOf(d) : actor'[q] = actor[q] /\ role'[q] = role[q]
      BY <3>1, <1>1, <1>2, <1>3 DEF PortsOf
    <3>3. FloodMembers(d0, actor', role') \subseteq PortsOf(d0)
      BY DEF FloodMembers
    <3>4. flood' \cap PortsOf(d) = flood \cap PortsOf(d)
      BY <3>1, <3>3, <1>1
    <3>5. FloodFits(d, actor, role, flood)
      BY <3>1 DEF LagInv, FloodIsCurrent
    <3> QED
      BY <3>2, <3>4, <3>5, FitsElsewhere
  <2> QED
    BY <2>1, <2>2
<1>10. FloodIsCurrent'
  BY <1>9 DEF FloodIsCurrent, FloodFits, FloodMembers, PortsOf
<1> QED
  BY <1>6, <1>7, <1>8, <1>10 DEF LagInv

\* A reload drops the states of ports and leaves the rules of those it does
\* not add anew.
LEMMA ReloadKeeps ==
  ASSUME LagInv, NEW C \in SUBSET Port, NEW K \in SUBSET Dp,
         changes < MaxChanges, reload_config(C, K), root' \in Dp
  PROVE  LagInv'
<1> USE LacpAssumption
<1>0. TypeOK
  BY DEF LagInv
<1> DEFINE ro(p) == lacp_update_port_selection_state(p, actor', FALSE)
<1>1. PICK up \in {C \cap phys'} :
        /\ actor' = [p \in Port |-> IF DpOf[p] \in K \cap running THEN "none"
                                    ELSE IF p \in up THEN "init" ELSE "notconfigured"]
        /\ role' = [p \in Port |-> IF DpOf[p] \in K \cap running \/ p \in up
                                   THEN ro(p) ELSE "notconfigured"]
        /\ drop' = drop \cup up
        /\ flood' = {p \in flood : \A q \in up : DpOf[p] # DpOf[q]}
        /\ told' = [p \in Port |-> IF p \in up \cap Active THEN Tell(told, p, role', {})[p]
                                   ELSE told[p]]
  BY DEF reload_config
<1>2. /\ running' = running \ K /\ phys' = {p \in phys : DpOf[p] \notin K}
      /\ lacpUp' = {} /\ last' = [p \in Port |-> None] /\ changes' = changes + 1
      /\ UNCHANGED <<alive, sync, wire>>
  BY DEF reload_config
<1>4. role' \in [Port -> Role]
  <2>1. \A p \in Port : ro(p) \in Role
    BY RoleType
  <2>2. "notconfigured" \in Role
    BY DEF Role
  <2> HIDE DEF ro
  <2> QED
    BY <1>1, <2>1, <2>2
<1>5. told' \in [Port -> Frame \cup {None}]
  <2> DEFINE f(p) == Tell(told, p, role', {})
  <2>1. \A p \in Port : f(p) \in [Port -> Frame \cup {None}]
    BY <1>0, TellType DEF TypeOK
  <2>2. told' = [p \in Port |-> IF p \in up \cap Active THEN f(p)[p] ELSE told[p]]
    BY <1>1
  <2> HIDE DEF f
  <2> QED
    BY <2>2, <2>1, <1>0 DEF TypeOK
<1>6. up \subseteq phys' /\ phys' \subseteq phys /\ phys' \subseteq Port
  BY <1>0, <1>1, <1>2 DEF TypeOK
<1> HIDE DEF ro
<1>7. changes' \in 0..MaxChanges
  BY <1>0, <1>1, <1>2 DEF TypeOK
<1>8. TypeOK'
  <2>1. \A p \in Port : actor'[p] # "none" /\ actor'[p] # "notconfigured" => p \in phys'
    BY <1>1, <1>2, <1>6
  <2>2. actor' \in [Port -> Actor]
    BY <1>1 DEF Actor
  <2>3. last' \in [Port -> Bit]
    BY <1>1, <1>2 DEF Bit
  <2> QED
    BY <2>1, <2>2, <2>3, <1>0, <1>1, <1>2, <1>4, <1>5, <1>6, <1>7 DEF TypeOK
<1>9. UpIsRunning'
  BY <1>1, <1>2, <1>6 DEF LagInv, UpIsRunning
<1>10. ForwardsIfSelected'
  BY <1>1, <1>2, <1>6 DEF ForwardsIfSelected
<1>11. ASSUME NEW d \in running' PROVE FloodFits(d, actor', role', flood')
  <2>1. d \notin K /\ d \in running
    BY <1>2, <1>11
  <2>2. \A p \in PortsOf(d) : actor'[p] \in {"init", "notconfigured"}
    BY <2>1, <1>1, <1>2 DEF PortsOf
  <2>3. FloodMembers(d, actor', role') = {}
    BY <2>2 DEF FloodMembers
  <2>4. CASE \E q \in up : DpOf[q] = d
    <3>1. flood' \cap PortsOf(d) = {}
      BY <2>4, <1>1, <1>2 DEF PortsOf
    <3> QED
      BY <2>3, <3>1 DEF FloodFits
  <2>5. CASE ~ \E q \in up : DpOf[q] = d
    <3>1. flood' \subseteq flood
      BY <1>1
    <3>2. \A p \in PortsOf(d) : actor'[p] = "notconfigured"
      BY <2>1, <2>5, <1>1, <1>2 DEF PortsOf
    <3>3. FloodFits(d, actor, role, flood)
      BY <2>1 DEF LagInv, FloodIsCurrent
    <3>4. \A p, q \in flood \cap PortsOf(d) : LagOf[p] = LagOf[q] => p = q
      BY <3>3, MembersDiffer DEF FloodFits
    <3> QED
      BY <2>3, <3>1, <3>2, <3>4 DEF FloodFits
  <2> QED
    BY <2>4, <2>5
<1>12. FloodIsCurrent'
  BY <1>11 DEF FloodIsCurrent, FloodFits, FloodMembers, PortsOf
<1> QED
  BY <1>8, <1>9, <1>10, <1>12 DEF LagInv

LEMMA NextLag == LagInv /\ [Next]_vars => LagInv'
<1> SUFFICES ASSUME LagInv, [Next]_vars
             PROVE  LagInv'
  OBVIOUS
<1> USE LacpAssumption
<1>0. TypeOK
  BY DEF LagInv
<1>1. ASSUME NEW p \in Port, \/ \E due \in BOOLEAN : lacp_handler(p, due)
                             \/ _lacp_state_expire(p) \/ port_add(p) \/ port_delete(p)
      PROVE  LagInv'
  BY <1>1, PortKeeps
<1>2. ASSUME NEW p \in Port, LatePacket(p) \/ PartnerSends(p) \/ PartnerChanges(p)
      PROVE  LagInv'
  <2>1. UNCHANGED <<running, phys, actor, role, drop, flood, lacpUp, last, root, told>>
    BY <1>2 DEF LatePacket, PartnerSends, PartnerChanges
  <2>2. wire' \in [Port -> Bit]
    <3>1. (p \in sync) \in BOOLEAN
      OBVIOUS
    <3> QED
      BY <1>2, <3>1, <1>0 DEF TypeOK, LatePacket, PartnerSends, PartnerChanges, Bit
  <2>3. alive' \subseteq Port /\ sync' \subseteq Port
    <3>1. \/ alive' = alive \/ alive' = (alive \ {p}) \cup ({p} \ alive)
      BY <1>2 DEF LatePacket, PartnerSends, PartnerChanges
    <3>2. \/ sync' = sync \/ sync' = (sync \ {p}) \cup ({p} \ sync)
      BY <1>2 DEF LatePacket, PartnerSends, PartnerChanges
    <3> QED
      BY <3>1, <3>2, <1>0 DEF TypeOK
  <2>4. changes' \in 0..MaxChanges
    <3>1. changes' = changes \/ (changes < MaxChanges /\ changes' = changes + 1)
      BY <1>2 DEF LatePacket, PartnerSends, PartnerChanges
    <3> QED
      BY <3>1, <1>0 DEF TypeOK
  <2> QED
    BY <2>1, <2>2, <2>3, <2>4, <1>0, QuietKeeps DEF LagInv, TypeOK
<1>3. ASSUME NEW p \in Port, lacp_advertise(p) PROVE LagInv'
  <2>1. told' \in [Port -> Frame \cup {None}]
    BY <1>3, <1>0, TellType DEF lacp_advertise, TypeOK
  <2>2. UNCHANGED <<running, phys, actor, role, lacpUp, last, root, drop, flood,
                    alive, sync, wire, changes>>
    BY <1>3 DEF lacp_advertise
  <2> QED
    BY <2>1, <2>2, <1>0, QuietKeeps DEF LagInv, TypeOK
<1>4. ASSUME NEW C \in SUBSET phys, NEW K \in SUBSET Dp, ReloadConfig(C, K) PROVE LagInv'
  <2>1. C \in SUBSET Port /\ root' \in Dp
    BY <1>4, <1>0 DEF ReloadConfig, TypeOK
  <2> QED
    BY <1>4, <2>1, ReloadKeeps DEF ReloadConfig
<1>6. CASE RootChanges
  BY <1>6, ReloadKeeps DEF RootChanges
<1>5. CASE UNCHANGED vars
  BY <1>5, <1>0, QuietKeeps DEF LagInv, TypeOK, vars
<1> QED
  BY <1>1, <1>2, <1>3, <1>4, <1>5, <1>6, DisconnectKeeps, ConnectKeeps DEF Next

\* A datapath floods to one member of a LAG that has one that is selected and
\* in sync.
LEMMA LagInvFloodsToOne == LagInv => FloodsToOneMember
<1> SUFFICES ASSUME LagInv, NEW d \in running, NEW l \in Lag
             PROVE  LET on == {p \in PortsOf(d) : LagOf[p] = l /\ role[p] = "selected"
                                                  /\ actor[p] = "up"}
                        out == {p \in flood \cap PortsOf(d) : LagOf[p] = l}
                    IN IF on # {} THEN out \subseteq on /\ Cardinality(out) = 1
                       ELSE /\ Cardinality(out) <= 1
                            /\ \A p \in out : actor[p] = "notconfigured"
  BY DEF FloodsToOneMember
<1> DEFINE on == {p \in PortsOf(d) : LagOf[p] = l /\ role[p] = "selected" /\ actor[p] = "up"}
           out == {p \in flood \cap PortsOf(d) : LagOf[p] = l}
           one == {p \in on : \A q \in on : p <= q}
<1>1. one = {p \in FloodMembers(d, actor, role) : LagOf[p] = l}
  BY DEF FloodMembers
<1>2. on \in SUBSET Nat
  BY LacpAssumption DEF PortsOf
<1>3. \/ out = one
      \/ /\ one = {}
         /\ \A p, q \in out : p = q
         /\ \A p \in out : actor[p] = "notconfigured"
  BY <1>1 DEF LagInv, FloodIsCurrent, FloodFits
<1>4. CASE on = {}
  <2>1. /\ \A p, q \in out : p = q
        /\ \A p \in out : actor[p] = "notconfigured"
    BY <1>3, <1>4
  <2>2. Cardinality(out) <= 1
    <3> HIDE DEF out
    <3>1. CASE out = {}
      BY <3>1, FS_EmptySet
    <3>2. CASE out # {}
      <4>1. PICK x \in out : TRUE
        BY <3>2
      <4>2. out = {x}
        BY <4>1, <2>1
      <4> QED
        BY <4>2, FS_Singleton
    <3> QED
      BY <3>1, <3>2
  <2> QED
    BY <1>4, <2>1, <2>2
<1>5. CASE on # {}
  <2> HIDE DEF on, out
  <2>1. PICK x \in on : \A q \in on : x <= q
    BY <1>2, <1>5, Least
  <2>2. one = {x}
    <3>1. \A y \in on : y <= x /\ x <= y => y = x
      BY <1>2
    <3> QED
      BY <2>1, <3>1
  <2>3. out = {x}
    BY <1>3, <2>2
  <2>4. Cardinality(out) = 1
    BY <2>3, FS_Singleton
  <2> QED
    BY <1>5, <2>1, <2>3, <2>4 DEF on, out
<1> QED
  BY <1>4, <1>5

-----------------------------------------------------------------------------
THEOREM LagInvariant == Spec => []LagInv
BY InitLag, NextLag, PTL DEF Spec

\* The state of every port has its type, and only a port that is up has an
\* actor state of its own (lacp_actor_update).
THEOREM LacpTypeCorrect == Spec => []TypeOK
<1>1. LagInv => TypeOK
  BY DEF LagInv
<1> QED
  BY <1>1, LagInvariant, PTL

\* A port that has started or been heard of since the configuration was
\* loaded is kept out of forwarding unless it is selected and in sync, through
\* packets, time-outs, links, reconnections, warm and cold reloads and changes
\* of root (lacp_update, enable_forwarding, clone_dyn_state).
THEOREM LacpForwardsIfSelected == Spec => []ForwardsIfSelected
<1>1. LagInv => ForwardsIfSelected
  BY DEF LagInv
<1> QED
  BY <1>1, LagInvariant, PTL

\* One member of each LAG that has one selected and in sync is flooded to, and
\* otherwise none, or one whose state a reload has dropped
\* (excluded_lag_ports, clone_dyn_state).
THEOREM LacpFloodsToOneMember == Spec => []FloodsToOneMember
BY LagInvFloodsToOne, LagInvariant, PTL
=============================================================================
