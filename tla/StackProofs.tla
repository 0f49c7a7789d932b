----------------------------- MODULE StackProofs -----------------------------
(***************************************************************************)
(* Proofs for what a stack agrees on: the elected root (StackRoot), and    *)
(* the links every datapath has in its graph (StackLink).                  *)
(***************************************************************************)
EXTENDS StackRoot, WellFoundedInduction, TLAPS

CONSTANTS Link, Ends, Renamed, MaxLost
VARIABLES state, seen, correct, graph, synced, wire
L == INSTANCE StackLink
-----------------------------------------------------------------------------
(***************************************************************************)
(* StackRoot: the types, RootKnown and RootMovesForCause, for any stack,   *)
(* any set of configurations and any thresholds.                           *)
(***************************************************************************)

\* RootKnown needs no more than that the configuration is one of Confs.
KnownInv == conf \in Confs /\ RootKnown

\* Applying a configuration tells every configured datapath a root that is a
\* candidate of it: resolve_topology prefers the elected root.
LEMMA ApplyKnown ==
  ASSUME NEW c \in Confs, NEW r, Apply(c, r), r \in Candidates(c)
  PROVE  \A d \in DOMAIN conf' : rootName'[d] = r
<1>1. DOMAIN c \subseteq DP
  BY ConfAssumption
<1>2. RootNameIn(c, r) = r
  BY DEF RootNameIn
<1>3. conf' = c /\ \A d \in DOMAIN c : rootName'[d] = RootNameIn(c, r)
  BY <1>1 DEF Apply
<1> QED
  BY <1>2, <1>3

\* The invariant is inductive; an election that changes nothing leaves
\* configuration and names alone, any other applies a configuration.
LEMMA NextKnownInv ==
  KnownInv /\ [Next]_vars => KnownInv'
<1> SUFFICES ASSUME KnownInv, [Next]_vars PROVE KnownInv'
  OBVIOUS
<1>1. ASSUME UNCHANGED <<conf, root, rootName>> PROVE KnownInv'
  BY <1>1 DEF KnownInv, RootKnown, Candidates
<1>2. ASSUME NEW c \in Confs, Apply(c, root') PROVE KnownInv'
  <2>1. conf' = c
    BY <1>2 DEF Apply
  <2>2. ASSUME root' \in Candidates(c)
        PROVE  \A d \in DOMAIN conf' : rootName'[d] = root'
    BY <1>2, <2>2, ApplyKnown
  <2> QED
    BY <2>1, <2>2 DEF KnownInv, RootKnown, Candidates
<1>3. CASE MaintainStackRoot
  <2>1. \/ UNCHANGED <<conf, root, rootName>>
        \/ Apply(conf, root')
    BY <1>3 DEF MaintainStackRoot
  <2> QED
    BY <1>1, <1>2, <2>1 DEF KnownInv
<1>4. ASSUME NEW c \in Confs, ReloadConfig(c) PROVE KnownInv'
  BY <1>2, <1>4 DEF ReloadConfig
<1>5. CASE \/ \E d \in DP : DatapathConnect(d) \/ DatapathDisconnect(d)
           \/ FastStateExpire
           \/ \E d \in DP, u, g \in Percent : PortsChange(d, u, g)
           \/ Tick
           \/ UNCHANGED vars
  BY <1>1, <1>5 DEF DatapathConnect, DatapathDisconnect, FastStateExpire,
     PortsChange, Tick, vars
<1> QED
  BY <1>3, <1>4, <1>5 DEF Next

\* The elected root, while it is a candidate, is the root every configured
\* datapath works with: the reload for inconsistent roots in set_stack_root
\* is never needed unless applying a configuration fails half way.
THEOREM RootsAgree == Spec => []RootKnown
<1>1. Init => KnownInv
  <2> SUFFICES ASSUME Init PROVE KnownInv
    OBVIOUS
  <2>1. conf \in Confs /\ root = 0
    BY DEF Init, None
  <2>2. root \notin Candidates(conf)
    BY <2>1, ConfAssumption, StackAssumption DEF Candidates, DP
  <2> QED
    BY <2>1, <2>2 DEF KnownInv, RootKnown
<1>2. KnownInv => RootKnown
  BY DEF KnownInv
<1> QED
  BY <1>1, <1>2, NextKnownInv, PTL DEF Spec
-----------------------------------------------------------------------------
(***************************************************************************)
(* The nomination: there is a candidate whose key precedes all others.     *)
(***************************************************************************)

\* Of a set with numbers attached, some element has the least number.
LEMMA LeastBy ==
  ASSUME NEW S, S # {}, NEW f \in [S -> Nat]
  PROVE  \E x \in S : \A y \in S : f[x] <= f[y]
<1> DEFINE R == OpToRel(<, Nat)
           T == {f[x] : x \in S}
<1>1. \A m, n \in Nat : m < n => <<m, n>> \in R
  BY DEF OpToRel
<1>2. IsWellFoundedOn(R, Nat)
  BY NatLessThanWellFounded
<1>3. T \subseteq Nat /\ T # {}
  OBVIOUS
<1> HIDE DEF R
<1>4. PICK t \in T : \A u \in T : ~(<<u, t>> \in R)
  BY <1>2, <1>3, WFMin, Zenon
<1>5. PICK x \in S : f[x] = t
  OBVIOUS
<1>6. ASSUME NEW y \in S PROVE f[x] <= f[y]
  <2>1. f[y] \in T /\ f[y] \in Nat /\ t \in Nat
    BY <1>3
  <2>2. ~(f[y] < t)
    BY <1>1, <1>4, <2>1
  <2> QED
    BY <1>5, <2>1, <2>2
<1> QED
  BY <1>6

\* The members of T whose n-th number is least.
LeastAt(k, T, n) == {d \in T : \A e \in T : k[d][n] <= k[e][n]}

LEMMA LeastAtExists ==
  ASSUME NEW S, NEW T \in SUBSET S, T # {}, NEW k, NEW n,
         \A d \in S : k[d][n] \in Nat
  PROVE  LeastAt(k, T, n) # {} /\ LeastAt(k, T, n) \subseteq T
<1> DEFINE g == [d \in T |-> k[d][n]]
<1>1. g \in [T -> Nat]
  OBVIOUS
<1>2. \E x \in T : \A y \in T : g[x] <= g[y]
  <2> HIDE DEF g
  <2> QED
    BY <1>1, LeastBy
<1> QED
  BY <1>2 DEF LeastAt

\* Keys are compared one number after the other: at each, those that are least
\* so far and least at it are left, and one that is least precedes or ties
\* with another that is least.  The last number tells datapaths apart.
LEMMA SomePrecedesAll ==
  ASSUME NEW S, S # {}, NEW k,
         \A d \in S : \A n \in 1..5 : k[d][n] \in Nat,
         \A d, e \in S : k[d][5] = k[e][5] => d = e
  PROVE  \E d \in S : \A e \in S \ {d} : Precedes(k[d], k[e])
<1> DEFINE T1 == LeastAt(k, S, 1)
           T2 == LeastAt(k, T1, 2)
           T3 == LeastAt(k, T2, 3)
           T4 == LeastAt(k, T3, 4)
           T5 == LeastAt(k, T4, 5)
<1>a. ASSUME NEW T \in SUBSET S, T # {}, NEW n \in 1..5
      PROVE  LeastAt(k, T, n) # {} /\ LeastAt(k, T, n) \in SUBSET T
  <2>1. \A d \in S : k[d][n] \in Nat
    OBVIOUS
  <2> QED
    BY <1>a, <2>1, LeastAtExists
<1>b. ASSUME NEW T \in SUBSET S, NEW n \in 1..5,
             NEW d \in LeastAt(k, T, n), NEW e \in T
      PROVE  k[d][n] < k[e][n] \/ (e \in LeastAt(k, T, n) /\ k[d][n] = k[e][n])
  <2>1. d \in T /\ \A x \in T : k[d][n] <= k[x][n]
    BY DEF LeastAt
  <2>2. k[d][n] \in Nat /\ k[e][n] \in Nat /\ k[d][n] <= k[e][n]
    BY <2>1
  <2>3. ASSUME k[d][n] = k[e][n] PROVE e \in LeastAt(k, T, n)
    BY <2>1, <2>3 DEF LeastAt
  <2> QED
    BY <2>2, <2>3
<1>1. T1 # {} /\ T1 \in SUBSET S
  BY <1>a
<1>2. T2 # {} /\ T2 \in SUBSET T1 /\ T2 \in SUBSET S
  <2> HIDE DEF T1
  <2> QED
    BY <1>a, <1>1
<1>3. T3 # {} /\ T3 \in SUBSET T2 /\ T3 \in SUBSET S
  <2> HIDE DEF T1, T2
  <2> QED
    BY <1>a, <1>2
<1>4. T4 # {} /\ T4 \in SUBSET T3 /\ T4 \in SUBSET S
  <2> HIDE DEF T1, T2, T3
  <2> QED
    BY <1>a, <1>3
<1>5. T5 # {} /\ T5 \in SUBSET T4 /\ T5 \in SUBSET S
  <2> HIDE DEF T1, T2, T3, T4
  <2> QED
    BY <1>a, <1>4
<1>6. PICK d \in T5 : TRUE
  BY <1>5
<1>7. d \in T4 /\ d \in T3 /\ d \in T2 /\ d \in T1 /\ d \in S
  <2> HIDE DEF T1, T2, T3, T4, T5
  <2> QED
    BY <1>1, <1>2, <1>3, <1>4, <1>5, <1>6
<1>8. ASSUME NEW e \in S \ {d} PROVE Precedes(k[d], k[e])
  <2>1. k[d][1] < k[e][1] \/ (e \in T1 /\ k[d][1] = k[e][1])
    <3>1. d \in LeastAt(k, S, 1) /\ S \in SUBSET S
      BY <1>7
    <3> QED
      BY <1>b, <3>1
  <2>2. e \in T1 => k[d][2] < k[e][2] \/ (e \in T2 /\ k[d][2] = k[e][2])
    <3>1. d \in LeastAt(k, T1, 2)
      BY <1>7
    <3> HIDE DEF T1
    <3> QED
      BY <1>b, <1>1, <3>1
  <2>3. e \in T2 => k[d][3] < k[e][3] \/ (e \in T3 /\ k[d][3] = k[e][3])
    <3>1. d \in LeastAt(k, T2, 3)
      BY <1>7
    <3> HIDE DEF T2
    <3> QED
      BY <1>b, <1>2, <3>1
  <2>4. e \in T3 => k[d][4] < k[e][4] \/ (e \in T4 /\ k[d][4] = k[e][4])
    <3>1. d \in LeastAt(k, T3, 4)
      BY <1>7
    <3> HIDE DEF T3
    <3> QED
      BY <1>b, <1>3, <3>1
  <2>5. e \in T4 => k[d][5] < k[e][5] \/ k[d][5] = k[e][5]
    <3>1. d \in LeastAt(k, T4, 5)
      BY <1>6
    <3> HIDE DEF T4
    <3> QED
      BY <1>b, <1>4, <3>1
  <2>6. k[d][5] # k[e][5]
    BY <1>7
  <2> HIDE DEF T1, T2, T3, T4, T5
  <2>7. \/ k[d][1] < k[e][1]
        \/ k[d][1] = k[e][1] /\ k[d][2] < k[e][2]
        \/ k[d][1] = k[e][1] /\ k[d][2] = k[e][2] /\ k[d][3] < k[e][3]
        \/ /\ k[d][1] = k[e][1] /\ k[d][2] = k[e][2] /\ k[d][3] = k[e][3]
           /\ k[d][4] < k[e][4]
        \/ /\ k[d][1] = k[e][1] /\ k[d][2] = k[e][2] /\ k[d][3] = k[e][3]
           /\ k[d][4] = k[e][4] /\ k[d][5] < k[e][5]
    BY <2>1, <2>2, <2>3, <2>4, <2>5, <2>6
  <2> QED
    BY <2>7 DEF Precedes
<1> QED
  BY <1>7, <1>8

\* nominate_stack_root returns one of the datapaths it is given: the dp_id at
\* the end of the key makes the order strict.
LEMMA NominateIn ==
  ASSUME NEW c \in Confs, NEW S \in SUBSET Candidates(c), S # {},
         NEW h \in [DP -> BOOLEAN], NEW i \in [DP -> Info]
  PROVE  Nominate(S, h, i, c) \in S
<1> DEFINE k == [d \in S |-> Key(h, i, c, d)]
<1>1. \A d \in S : d \in DP /\ d \in Nat /\ c[d] \in Nat
  BY ConfAssumption, StackAssumption DEF Candidates, DP
<1>2. ASSUME NEW d \in S PROVE \A n \in 1..5 : k[d][n] \in Nat
  <2>1. Full - i[d].stack \in Nat /\ Full - i[d].lacp \in Nat
    BY <1>1, StackAssumption DEF Info, Percent
  <2>2. /\ Key(h, i, c, d)[1] \in Nat /\ Key(h, i, c, d)[2] \in Nat
        /\ Key(h, i, c, d)[3] \in Nat /\ Key(h, i, c, d)[4] \in Nat
        /\ Key(h, i, c, d)[5] \in Nat
    BY <1>1, <2>1 DEF Key
  <2> QED
    BY <2>2
<1>3. \A d, e \in S : k[d][5] = k[e][5] => d = e
  BY DEF Key
<1>4. \E d \in S : \A e \in S \ {d} : Precedes(k[d], k[e])
  <2> HIDE DEF k
  <2> QED
    BY <1>2, <1>3, SomePrecedesAll
<1>5. \E d \in S : \A e \in S \ {d} :
         Precedes(Key(h, i, c, d), Key(h, i, c, e))
  BY <1>4
<1> QED
  BY <1>5 DEF Nominate

LEMMA RootNameInType ==
  ASSUME NEW c \in Confs, NEW r PROVE RootNameIn(c, r) \in Candidates(c)
<1>1. Candidates(c) # {}
  BY ConfAssumption DEF Candidates
<1>2. [d \in DP |-> FALSE] \in [DP -> BOOLEAN] /\ [d \in DP |-> NoInfo] \in [DP -> Info]
  BY StackAssumption DEF Info, NoInfo, Percent
<1> QED
  BY <1>1, <1>2, NominateIn DEF RootNameIn

\* What the election computes before it decides: ages, health and root.
LEMMA AgesType ==
  ASSUME TypeOK PROVE Ages \in [DP -> 0..(DownTime + 1)]
BY StackAssumption DEF TypeOK, Ages

LEMMA InfoOfType ==
  ASSUME TypeOK, NEW d \in DP, NEW a PROVE InfoOf(d, a) \in Info
<1>1. up[d] \in Percent /\ lag[d] \in Percent /\ 0 \in Percent
  BY StackAssumption DEF TypeOK, Percent
<1> QED
  BY <1>1 DEF InfoOf, Info, NoInfo

\* Applying a configuration keeps the types of what it changes.
LEMMA ApplyType ==
  ASSUME TypeOK, NEW c \in Confs, NEW r, Apply(c, r)
  PROVE  /\ conf' \in Confs
         /\ rootName' \in [DP -> DP \cup {None}]
         /\ running' \in [DP -> BOOLEAN]
         /\ up' \in [DP -> Percent] /\ lag' \in [DP -> Percent]
         /\ \A d \in DP : d \notin DOMAIN conf' =>
                            rootName'[d] = None /\ ~running'[d]
<1>1. RootNameIn(c, r) \in DP
  BY RootNameInType, ConfAssumption DEF Candidates
<1>2. 0 \in Percent
  BY StackAssumption DEF Percent
<1>3. /\ conf' = c
      /\ rootName' = [d \in DP |-> IF d \in DOMAIN c THEN RootNameIn(c, r)
                                                     ELSE None]
      /\ lag' = [d \in DP |-> 0]
  BY DEF Apply
<1>4. up' \in [DP -> Percent]
  BY <1>2 DEF Apply, TypeOK
<1>5. running' \in [DP -> BOOLEAN] /\ \A d \in DP : running'[d] => d \in DOMAIN c
  BY DEF Apply, TypeOK
<1> QED
  BY <1>1, <1>2, <1>3, <1>4, <1>5

-----------------------------------------------------------------------------
(***************************************************************************)
(* An election, the types and the reasons for which the root moves.        *)
(***************************************************************************)

\* What maintain_stack_root computes before it decides.
Sampled(S) == [d \in DP |-> IF d \in S THEN HealthyAt(d, Ages) ELSE healthy[d]]
SampledInfo(S) == [d \in DP |-> IF d \in S THEN InfoOf(d, Ages) ELSE info[d]]
Well == {d \in Candidates(conf) : HealthyAt(d, Ages)}
Sick == {d \in Candidates(conf) : ~HealthyAt(d, Ages) /\ Ages[d] =< DownTime}

\* The root after an election is the one before it, or one of the healthy
\* candidates, or, if there is none, one of those seen recently.  It stays if
\* it is among those.
LEMMA Elected ==
  ASSUME TypeOK, MaintainStackRoot, root' # root
  PROVE  LET choice == IF Well # {} THEN Well ELSE Sick
         IN root' \in choice /\ root \notin choice
<1> DEFINE C == Candidates(conf)
           h == Sampled(C)
           i == SampledInfo(C)
           choice == IF Well # {} THEN Well ELSE Sick
<1>1. conf \in Confs /\ C \subseteq DP
  BY ConfAssumption DEF TypeOK, Candidates
<1>2. h \in [DP -> BOOLEAN]
  BY StackAssumption DEF TypeOK, Sampled, HealthyAt
<1>3. i \in [DP -> Info]
  BY InfoOfType DEF TypeOK, SampledInfo
<1>4. {d \in C : h[d]} = Well
  BY <1>1 DEF Sampled, Well
<1>5. {d \in C : ~h[d] /\ i[d].live} = Sick
  <2>1. ASSUME NEW d \in C PROVE i[d].live <=> Ages[d] =< DownTime
    <3>1. i[d] = InfoOf(d, Ages) /\ Ages[d] \in Nat /\ DownTime \in Nat
      BY <1>1, AgesType, StackAssumption DEF SampledInfo
    <3> QED
      BY <3>1 DEF InfoOf, NoInfo
  <2>2. \A d \in C : h[d] <=> HealthyAt(d, Ages)
    BY <1>1 DEF Sampled
  <2> QED
    BY <2>1, <2>2 DEF Sick
<1>6. root' = IF NewRoot(Well, Sick, h, i) = None THEN root
              ELSE NewRoot(Well, Sick, h, i)
  <2>1. root' = LET new == NewRoot({d \in C : h[d]},
                                   {d \in C : ~h[d] /\ i[d].live}, h, i)
                IN IF new = None THEN root ELSE new
    BY DEF MaintainStackRoot, Sampled, SampledInfo
  <2> QED
    BY <1>4, <1>5, <2>1
<1>7. choice # {} => Nominate(choice, h, i, conf) \in choice
  <2>1. choice \in SUBSET Candidates(conf)
    BY DEF Well, Sick
  <2> HIDE DEF choice, h, i
  <2> QED
    BY <1>1, <1>2, <1>3, <2>1, NominateIn
<1> QED
  BY <1>6, <1>7 DEF NewRoot

LEMMA InitType == Init => TypeOK
<1> SUFFICES ASSUME Init PROVE TypeOK
  OBVIOUS
<1>1. RootNameIn(conf, None) \in DP
  BY RootNameInType, ConfAssumption DEF Init, Candidates
<1>2. 0 \in Percent /\ NoInfo \in Info /\ DownTime + 1 \in 0..(DownTime + 1)
  BY StackAssumption DEF Percent, Info, NoInfo
<1> QED
  BY <1>1, <1>2 DEF Init, TypeOK

LEMMA NextType == TypeOK /\ [Next]_vars => TypeOK'
<1> SUFFICES ASSUME TypeOK, [Next]_vars PROVE TypeOK'
  OBVIOUS
<1>1. CASE MaintainStackRoot
  <2> DEFINE C == Candidates(conf)
  <2>1. age' \in [DP -> 0..(DownTime + 1)]
    BY <1>1, AgesType DEF MaintainStackRoot
  <2>2. healthy' \in [DP -> BOOLEAN]
    BY <1>1 DEF MaintainStackRoot, TypeOK, HealthyAt
  <2>3. info' \in [DP -> Info]
    BY <1>1, InfoOfType DEF MaintainStackRoot, TypeOK
  <2>4. root' \in DP \cup {None}
    BY <1>1, Elected, ConfAssumption DEF TypeOK, Well, Sick, Candidates
  <2>5. stale' \in [DP -> BOOLEAN]
    BY <1>1 DEF MaintainStackRoot, TypeOK
  <2>6. CASE UNCHANGED <<conf, rootName, running, up, lag>>
    BY <2>1, <2>2, <2>3, <2>4, <2>5, <2>6 DEF TypeOK
  <2>7. ASSUME NEW r, Apply(conf, r) PROVE TypeOK'
    <3>1. conf \in Confs
      BY DEF TypeOK
    <3> QED
      BY <2>1, <2>2, <2>3, <2>4, <2>5, <2>7, <3>1, ApplyType DEF TypeOK
  <2> QED
    BY <1>1, <2>6, <2>7 DEF MaintainStackRoot
<1>2. ASSUME NEW c \in Confs, ReloadConfig(c) PROVE TypeOK'
  <2>1. Apply(c, root) /\ UNCHANGED <<root, age>>
    BY <1>2 DEF ReloadConfig
  <2>2. NoInfo \in Info
    BY StackAssumption DEF Percent, Info, NoInfo
  <2>3. info' \in [DP -> Info]
    BY <1>2, <2>2 DEF ReloadConfig, TypeOK
  <2>4. healthy' \in [DP -> BOOLEAN] /\ stale' \in [DP -> BOOLEAN]
    BY <1>2 DEF ReloadConfig, TypeOK
  <2> QED
    BY <2>1, <2>3, <2>4, ApplyType DEF TypeOK
<1>3. ASSUME NEW d \in DP, DatapathConnect(d) PROVE TypeOK'
  BY <1>3, StackAssumption DEF DatapathConnect, TypeOK
<1>4. ASSUME NEW d \in DP, DatapathDisconnect(d) PROVE TypeOK'
  BY <1>4 DEF DatapathDisconnect, TypeOK
<1>5. CASE FastStateExpire
  BY <1>5 DEF FastStateExpire, TypeOK
<1>6. ASSUME NEW d \in DP, NEW u \in Percent, NEW g \in Percent, PortsChange(d, u, g)
      PROVE  TypeOK'
  BY <1>6 DEF PortsChange, TypeOK
<1>7. CASE Tick
  BY <1>7, StackAssumption DEF Tick, TypeOK
<1>8. CASE UNCHANGED vars
  BY <1>8 DEF TypeOK, vars
<1> QED
  BY <1>1, <1>2, <1>3, <1>4, <1>5, <1>6, <1>7, <1>8 DEF Next

\* Every variable keeps its type, and a datapath that is not configured has
\* neither a root nor a running Valve; in particular every nomination names a
\* datapath, which is what makes the CHOOSE of the election defined.
THEOREM StackRootTypes == Spec => []TypeOK
BY InitType, NextType, PTL DEF Spec

LEMMA MovesForCause ==
  ASSUME TypeOK, [Next]_vars, root' # root
  PROVE  /\ root \in Candidates(conf) /\ Ages[root] =< DownTime
              => ~HealthyAt(root, Ages) /\ HealthyAt(root', Ages)
         /\ Ages[root'] =< DownTime
<1>1. MaintainStackRoot
  BY DEF Next, ReloadConfig, DatapathConnect, DatapathDisconnect,
     FastStateExpire, PortsChange, Tick, vars
<1>2. CASE Well # {}
  <2>1. root' \in Well /\ root \notin Well
    BY <1>1, <1>2, Elected
  <2> QED
    BY <2>1 DEF Well, HealthyAt
<1>3. CASE Well = {}
  <2>1. root' \in Sick /\ root \notin Sick
    BY <1>1, <1>3, Elected
  <2>2. ~(root \in Candidates(conf) /\ Ages[root] =< DownTime)
    BY <1>3, <2>1 DEF Well, Sick
  <2> QED
    BY <2>1, <2>2 DEF Sick
<1> QED
  BY <1>2, <1>3

\* The root does not flap: an election takes it only from a datapath that is no
\* candidate any more, was not seen for long, or is sick while the new one is
\* healthy, and gives it to one that was seen recently (nominate_stack_root).
THEOREM RootStays == Spec => RootMovesForCause
<1>1. TypeOK /\ [Next]_vars =>
        [root' # root =>
           /\ root \in Candidates(conf) /\ Ages[root] =< DownTime
                => ~HealthyAt(root, Ages) /\ HealthyAt(root', Ages)
           /\ Ages[root'] =< DownTime]_vars
  BY MovesForCause
<1> QED
  BY <1>1, StackRootTypes, PTL DEF Spec, RootMovesForCause
-----------------------------------------------------------------------------
(***************************************************************************)
(* StackLink: the types and GraphFollowsEnds, for any number of datapaths  *)
(* and links, and any number of lost beacons tolerated.                    *)
(***************************************************************************)

\* What StackLink assumes of its constants, see StackLink.
LinkConfigured == L!Topology /\ L!Timeout

\* The ports of a link, and their peers.
LEMMA PortFacts ==
  ASSUME L!Topology
  PROVE  /\ \A l \in Link : /\ <<l, "a">> \in L!Port
                            /\ <<l, "z">> \in L!Port
                            /\ L!Peer(<<l, "a">>) = <<l, "z">>
                            /\ L!Peer(<<l, "z">>) = <<l, "a">>
         /\ \A p \in L!Port : /\ p = <<p[1], "a">> \/ p = <<p[1], "z">>
                              /\ p[1] \in Link
                              /\ L!Peer(p) \in L!Port
                              /\ L!DpOf(p) \in L!DP
BY DEF L!Topology, L!Port, L!Peer, L!DpOf

\* The port state machine stays among its states.
LEMMA StateType ==
  ASSUME NEW st \in L!States, NEW n \in 0..L!Never, NEW ok \in BOOLEAN
  PROVE  L!stack_port_update(st, n, ok) \in L!States
BY DEF L!stack_port_update, L!States

\* Type correctness is preserved when ports are updated.
LEMMA UpdateType ==
  ASSUME L!TypeOK, NEW after \in [L!Port -> L!States], L!UpdateStackLinkState(after)
  PROVE  /\ state' \in [L!Port -> L!States]
         /\ graph' \in [L!DP -> SUBSET Link]
         /\ synced' \in [L!DP -> SUBSET Link]
<1>1. state' \in [L!Port -> L!States]
  BY DEF L!UpdateStackLinkState
<1>2. graph' \in [L!DP -> SUBSET Link]
  BY DEF L!UpdateStackLinkState
<1>3. synced' \in [L!DP -> SUBSET Link]
  BY DEF L!UpdateStackLinkState
<1> QED
  BY <1>1, <1>2, <1>3

\* A beacon or a pass of fast_state_expire gives every port a state.
LEMMA AfterType ==
  ASSUME L!Timeout, L!TypeOK
  PROVE  /\ \A p \in L!Port, ok \in BOOLEAN :
              [state EXCEPT ![p] = L!stack_port_update(@, 0, ok)]
                \in [L!Port -> L!States]
         /\ [p \in L!Port |-> L!stack_port_update(state[p], seen[p], correct[p])]
              \in [L!Port -> L!States]
<1>1. 0 \in 0..L!Never
  BY DEF L!Timeout, L!Never
<1>2. ASSUME NEW p \in L!Port, NEW ok \in BOOLEAN
      PROVE  [state EXCEPT ![p] = L!stack_port_update(@, 0, ok)] \in [L!Port -> L!States]
  <2>1. L!stack_port_update(state[p], 0, ok) \in L!States
    BY <1>1, StateType DEF L!TypeOK
  <2> QED
    BY <2>1 DEF L!TypeOK
<1>3. \A p \in L!Port : L!stack_port_update(state[p], seen[p], correct[p]) \in L!States
  BY StateType DEF L!TypeOK
<1> QED
  BY <1>2, <1>3

\* The initial states are well typed.
LEMMA LinkInitTypeOK ==
  L!Timeout /\ L!Init => L!TypeOK
<1> SUFFICES ASSUME L!Timeout, L!Init PROVE L!TypeOK
  OBVIOUS
<1>1. L!Never \in 0..L!Never
  BY DEF L!Timeout, L!Never
<1> QED
  BY <1>1 DEF L!Init, L!TypeOK, L!States

\* The type invariant is inductive.
LEMMA LinkNextTypeOK ==
  L!Timeout /\ L!TypeOK /\ [L!Next]_L!vars => L!TypeOK'
<1> SUFFICES ASSUME L!Timeout, L!TypeOK, [L!Next]_L!vars PROVE L!TypeOK'
  OBVIOUS
<1>1. ASSUME NEW p \in L!Port, NEW q \in L!Port, L!lldp_handler(p, q) PROVE L!TypeOK'
  <2> DEFINE ok == L!stack_correct(p, L!lldp_beacon(q))
  <2>0. ok \in BOOLEAN
    BY DEF L!stack_correct
  <2>1. 0 \in 0..L!Never
    BY DEF L!Timeout, L!Never
  <2>2. /\ state' \in [L!Port -> L!States]
        /\ graph' \in [L!DP -> SUBSET Link]
        /\ synced' \in [L!DP -> SUBSET Link]
    <3>1. [state EXCEPT ![p] = L!stack_port_update(@, 0, ok)] \in [L!Port -> L!States]
      BY <2>0, AfterType
    <3>2. L!UpdateStackLinkState([state EXCEPT ![p] = L!stack_port_update(@, 0, ok)])
      BY <1>1 DEF L!lldp_handler
    <3> HIDE DEF ok
    <3> QED
      BY <3>1, <3>2, UpdateType
  <2>3. seen' \in [L!Port -> 0..L!Never]
    BY <1>1, <2>1 DEF L!lldp_handler, L!TypeOK
  <2>4. correct' \in [L!Port -> BOOLEAN] /\ running' \in [L!DP -> BOOLEAN]
    BY <1>1, <2>0, Zenon DEF L!lldp_handler, L!TypeOK
  <2>5. wire' \subseteq L!Port
    BY <1>1 DEF L!lldp_handler, L!TypeOK
  <2> QED
    BY <2>2, <2>3, <2>4, <2>5 DEF L!TypeOK
<1>2. CASE L!FastStateExpire
  <2>1. /\ state' \in [L!Port -> L!States]
        /\ graph' \in [L!DP -> SUBSET Link]
        /\ synced' \in [L!DP -> SUBSET Link]
    BY <1>2, AfterType, UpdateType DEF L!FastStateExpire
  <2> QED
    BY <1>2, <2>1 DEF L!FastStateExpire, L!TypeOK
<1>3. ASSUME NEW d \in L!DP, L!DatapathConnect(d) \/ L!DatapathDisconnect(d)
      PROVE  L!TypeOK'
  BY <1>3 DEF L!DatapathConnect, L!DatapathDisconnect, L!TypeOK
<1>4. ASSUME NEW changed \in SUBSET L!DP, NEW cold \in SUBSET L!DP,
             L!Reload(changed, cold)
      PROVE  L!TypeOK'
  <2>1. running' \in [L!DP -> BOOLEAN]
    BY <1>4, Zenon DEF L!Reload, L!TypeOK
  <2>2. graph' \in [L!DP -> SUBSET Link] /\ synced' \in [L!DP -> SUBSET Link]
    BY <1>4 DEF L!Reload, L!TypeOK
  <2> QED
    BY <1>4, <2>1, <2>2 DEF L!Reload, L!TypeOK
<1>5. CASE L!Tick
  <2>1. \A n \in 0..L!Never : (IF n < MaxLost THEN n + 1 ELSE n) \in 0..L!Never
    BY DEF L!Timeout, L!Never
  <2>2. seen' \in [L!Port -> 0..L!Never]
    BY <1>5, <2>1 DEF L!Tick, L!TypeOK
  <2> QED
    BY <1>5, <2>2 DEF L!Tick, L!TypeOK
<1>6. ASSUME NEW d \in L!DP, L!fast_advertise(d) PROVE L!TypeOK'
  BY <1>6 DEF L!fast_advertise, L!lldp_beacon_send_ports, L!PortsOf, L!TypeOK
<1>7. ASSUME NEW q \in L!Port, L!Lose(q) PROVE L!TypeOK'
  BY <1>7 DEF L!Lose, L!TypeOK
<1>8. CASE UNCHANGED L!vars
  BY <1>8 DEF L!vars, L!TypeOK
<1> QED
  BY <1>1, <1>2, <1>3, <1>4, <1>5, <1>6, <1>7, <1>8 DEF L!Next

\* Every variable keeps its type: the port state machine of
\* Port.stack_port_update never leaves its states.
THEOREM LinkTypes == L!Timeout => (L!Spec => []L!TypeOK)
<1> SUFFICES ASSUME L!Timeout PROVE L!Spec => []L!TypeOK
  OBVIOUS
<1>1. L!Init => L!TypeOK
  BY LinkInitTypeOK
<1>2. L!TypeOK /\ [L!Next]_L!vars => L!TypeOK'
  BY LinkNextTypeOK
<1> QED
  BY <1>1, <1>2, PTL DEF L!Spec

-----------------------------------------------------------------------------
(***************************************************************************)
(* GraphFollowsEnds is inductive: of the two ends of a link the one that   *)
(* changed last put the link in the graph or took it out, and a datapath   *)
(* that missed that change no longer has the link in synced.               *)
(***************************************************************************)

\* What the invariant says of one datapath and one link.
Follows(d, l) ==
  l \in synced[d] =>
    /\ state[<<l, "a">>] = "UP" /\ state[<<l, "z">>] = "UP" => l \in graph[d]
    /\ l \in graph[d] => state[<<l, "a">>] = "UP" \/ state[<<l, "z">>] = "UP"

\* GraphFollowsEnds, datapath by datapath and link by link.
LEMMA FollowsAll ==
  L!TypeOK => (L!GraphFollowsEnds <=> \A d \in L!DP : \A l \in Link : Follows(d, l))
BY DEF L!TypeOK, L!GraphFollowsEnds, Follows, L!EndsOf

\* An update of the ports keeps the invariant.
LEMMA UpdateFollows ==
  ASSUME L!Topology, L!TypeOK, NEW after \in [L!Port -> L!States],
         L!UpdateStackLinkState(after),
         NEW d \in L!DP, NEW l \in Link, Follows(d, l)
  PROVE  Follows(d, l)'
<1> DEFINE A == <<l, "a">>
           Z == <<l, "z">>
<1>1. A \in L!Port /\ Z \in L!Port /\ L!Peer(A) = Z /\ L!Peer(Z) = A
  BY PortFacts
<1>2. state' = after
  BY DEF L!UpdateStackLinkState
<1>3. l \in graph'[d] <=> L!LinkUpAfter(d, l, after)
  BY DEF L!UpdateStackLinkState
<1>4. l \in synced'[d] <=> L!SyncedAfter(d, l, after)
  BY DEF L!UpdateStackLinkState
<1>5. A[2] = "a" /\ Z[2] = "z"
  OBVIOUS
<1>6. CASE state[Z] # after[Z]
  <2>1. l \in synced'[d] => L!Told(d, Z, after)
    BY <1>4, <1>6 DEF L!SyncedAfter, L!LastEnd, L!EndsOf
  <2>2. L!Told(d, Z, after) => (l \in graph'[d] <=> L!PortUp(after[Z], after[A]))
    BY <1>1, <1>3, <1>5 DEF L!LinkUpAfter, L!UpBy
  <2> QED
    BY <1>2, <2>1, <2>2 DEF Follows, L!PortUp
<1>7. CASE state[Z] = after[Z] /\ state[A] # after[A]
  <2>1. l \in synced'[d] => L!Told(d, A, after)
    BY <1>4, <1>7 DEF L!SyncedAfter, L!LastEnd, L!EndsOf
  <2>2. ~L!Told(d, Z, after)
    BY <1>7 DEF L!Told
  <2>3. L!Told(d, A, after) => (l \in graph'[d] <=> L!PortUp(after[A], after[Z]))
    BY <1>1, <1>3, <1>5, <1>7, <2>2 DEF L!LinkUpAfter, L!UpBy
  <2> QED
    BY <1>2, <2>1, <2>3 DEF Follows, L!PortUp
<1>8. CASE state[Z] = after[Z] /\ state[A] = after[A]
  <2>1. ~L!Told(d, Z, after) /\ ~L!Told(d, A, after)
    BY <1>8 DEF L!Told
  <2>2. l \in graph'[d] <=> l \in graph[d]
    BY <1>3, <2>1 DEF L!LinkUpAfter
  <2>3. l \in synced'[d] <=> l \in synced[d]
    BY <1>4, <1>8 DEF L!SyncedAfter, L!EndsOf
  <2> QED
    BY <1>2, <1>8, <2>2, <2>3 DEF Follows
<1> QED
  BY <1>6, <1>7, <1>8

\* So does every other step.
LEMMA NextFollows ==
  LinkConfigured /\ L!TypeOK /\ L!GraphFollowsEnds /\ [L!Next]_L!vars =>
    L!GraphFollowsEnds'
<1> SUFFICES ASSUME L!Topology, L!Timeout, L!TypeOK, L!GraphFollowsEnds,
                    [L!Next]_L!vars
             PROVE  L!GraphFollowsEnds'
  BY DEF LinkConfigured
<1>1. L!TypeOK'
  BY LinkNextTypeOK
<1>2. \A d \in L!DP : \A l \in Link : Follows(d, l)
  BY FollowsAll
<1>3. SUFFICES ASSUME NEW d \in L!DP, NEW l \in Link PROVE Follows(d, l)'
  BY <1>1 DEF L!TypeOK, L!GraphFollowsEnds, Follows, L!EndsOf
<1>4. ASSUME NEW p \in L!Port, NEW q \in L!Port, L!lldp_handler(p, q)
      PROVE  Follows(d, l)'
  <2> DEFINE ok == L!stack_correct(p, L!lldp_beacon(q))
  <2>1. [state EXCEPT ![p] = L!stack_port_update(@, 0, ok)] \in [L!Port -> L!States]
    BY AfterType DEF L!stack_correct
  <2>2. L!UpdateStackLinkState([state EXCEPT ![p] = L!stack_port_update(@, 0, ok)])
    BY <1>4 DEF L!lldp_handler
  <2> HIDE DEF ok
  <2> QED
    BY <1>2, <2>1, <2>2, UpdateFollows
<1>5. CASE L!FastStateExpire
  BY <1>2, <1>5, AfterType, UpdateFollows DEF L!FastStateExpire
<1>6. ASSUME NEW changed \in SUBSET L!DP, NEW cold \in SUBSET L!DP,
             L!Reload(changed, cold)
      PROVE  Follows(d, l)'
  <2>1. Follows(d, l)
    BY <1>2
  <2>2. CASE d \in changed \/ graph[d] # Link
    <3>1. l \in graph'[d] <=> L!PortUp(state[<<l, "z">>], state[<<l, "a">>])
      BY <1>6, <2>2 DEF L!Reload
    <3>2. state' = state
      BY <1>6 DEF L!Reload
    <3> QED
      BY <3>1, <3>2 DEF Follows, L!PortUp
  <2>3. CASE ~(d \in changed \/ graph[d] # Link)
    <3>1. graph'[d] = graph[d] /\ synced'[d] = synced[d] /\ state' = state
      BY <1>6, <2>3 DEF L!Reload
    <3> QED
      BY <2>1, <3>1 DEF Follows
  <2> QED
    BY <2>2, <2>3
<1>7. ASSUME UNCHANGED <<state, graph, synced>> PROVE Follows(d, l)'
  BY <1>2, <1>7 DEF Follows
<1> QED
  BY <1>4, <1>5, <1>6, <1>7
  DEF L!Next, L!DatapathConnect, L!DatapathDisconnect, L!Tick, L!fast_advertise, L!Lose,
      L!vars

\* Whatever the order of beacons, time-outs, reloads and disconnections, a
\* datapath told of the latest change of a link has it in its stack graph if
\* both ends are up and only if one is.
THEOREM GraphsFollowEnds == LinkConfigured => (L!Spec => []L!GraphFollowsEnds)
<1> SUFFICES ASSUME LinkConfigured PROVE L!Spec => []L!GraphFollowsEnds
  OBVIOUS
<1>1. L!Spec => []L!TypeOK
  BY LinkTypes DEF LinkConfigured
<1>2. L!Init => L!GraphFollowsEnds
  BY DEF L!Init, L!GraphFollowsEnds
<1>3. L!TypeOK /\ L!GraphFollowsEnds /\ [L!Next]_L!vars => L!GraphFollowsEnds'
  BY NextFollows
<1> QED
  BY <1>1, <1>2, <1>3, PTL DEF L!Spec
=============================================================================
