------------------------------ MODULE StackRoot ------------------------------
(***************************************************************************)
(* The election of the stack root: ValvesManager.maintain_stack_root and   *)
(* set_stack_root (valves_manager.py), the health of the candidates        *)
(* (stack.py, valve_stack.py), and what reloading the configuration does   *)
(* to the root each datapath works with.                                   *)
(*                                                                         *)
(* The name of the root is kept twice: in meta_dp_state, by the election,  *)
(* and in the configuration of every datapath, from which its forwarding   *)
(* is computed.  Health is sampled at each election; datapaths connect,    *)
(* disconnect and lose links between two, and the operator may change the  *)
(* priorities or take the root out of the configuration.  All handlers run *)
(* on the dispatch thread.                                                 *)
(***************************************************************************)
EXTENDS Integers

CONSTANTS
  NDP,       \* datapaths are 1..NDP, by dp_id
  Confs,     \* configurations: configured datapaths -> stack priority, 0 none
  DownTime,  \* down_time_multiple, in stack root update intervals
  Full,      \* all ports up: percentages are counted in Full-ths
  MinStack,  \* min_stack_health
  MinLacp,   \* min_lacp_health
  LacpDPs    \* the datapaths that have LACP ports

DP == 1..NDP
None == 0

ASSUME StackAssumption ==
  /\ NDP \in Nat /\ DownTime \in Nat /\ Full \in Nat
  /\ MinStack \in 0..Full /\ MinLacp \in 0..Full
  /\ LacpDPs \subseteq DP

\* resolve_topology refuses a stack without a candidate.
ASSUME ConfAssumption ==
  \A c \in Confs :
    /\ DOMAIN c \subseteq DP
    /\ \A d \in DOMAIN c : c[d] \in Nat
    /\ \E d \in DOMAIN c : c[d] # 0

VARIABLES
  conf,      \* the configuration in force
  root,      \* meta_dp_state.stack_root_name
  rootName,  \* DP -> stack.root_name of its Valve, None if not configured
  running,   \* DP -> dp.dyn_running
  age,       \* DP -> intervals since dp_last_live_time (DownTime + 1: longer)
  up,        \* DP -> share of its stack ports that are UP
  lag,       \* DP -> share of its LACP ports that are UP
  info,      \* DP -> dyn_healthy_info
  healthy,   \* DP -> dyn_healthy
  stale      \* DP -> valve.stale_root

vars == <<conf, root, rootName, running, age, up, lag, info, healthy, stale>>

Candidates(c) == {d \in DOMAIN c : c[d] # 0}

Percent == 0..Full
Info == [live : BOOLEAN, stack : Percent, lacp : Percent]
NoInfo == [live |-> FALSE, stack |-> 0, lacp |-> 0]

\* A datapath that is not configured has no Valve.
TypeOK ==
  /\ conf \in Confs
  /\ root \in DP \cup {None}
  /\ rootName \in [DP -> DP \cup {None}]
  /\ running \in [DP -> BOOLEAN]
  /\ age \in [DP -> 0..(DownTime + 1)]
  /\ up \in [DP -> Percent] /\ lag \in [DP -> Percent]
  /\ info \in [DP -> Info]
  /\ healthy \in [DP -> BOOLEAN] /\ stale \in [DP -> BOOLEAN]
  /\ \A d \in DP : d \notin DOMAIN conf => rootName[d] = None /\ ~running[d]

-----------------------------------------------------------------------------
(***************************************************************************)
(* Health and nomination.                                                  *)
(***************************************************************************)

\* Stack.nominate_stack_root sorts by health, share of stack ports down, share
\* of LACP ports down, priority, dp_id: lexicographically on such keys.
Key(h, i, c, d) ==
  <<IF h[d] THEN 0 ELSE 1, Full - i[d].stack, Full - i[d].lacp, c[d], d>>

Precedes(k, m) ==
  \E n \in 1..5 : k[n] < m[n] /\ \A j \in 1..(n - 1) : k[j] = m[j]

Nominate(S, h, i, c) ==
  CHOOSE d \in S : \A e \in S \ {d} : Precedes(Key(h, i, c, d), Key(h, i, c, e))

\* Mutant: a reload forgets the elected root.
RootNameIn_Fresh(c, r) ==
  Nominate(Candidates(c), [d \in DP |-> FALSE], [d \in DP |-> NoInfo], c)

\* resolve_topology: the root a freshly parsed configuration names.  The new
\* Stack objects have no health yet.
RootNameIn(c, r) ==
  IF r \in Candidates(c) THEN r
  ELSE Nominate(Candidates(c), [d \in DP |-> FALSE], [d \in DP |-> NoInfo], c)

\* update_dp_live_time: running datapaths were seen just now.
Ages == [d \in DP |-> IF d \in DOMAIN conf /\ running[d] THEN 0 ELSE age[d]]

\* Stack.update_health of datapath d, at the ages a: a datapath that was not
\* seen for long is dead, whatever its ports say.
InfoOf(d, a) ==
  IF a[d] > DownTime THEN NoInfo
  ELSE [live |-> TRUE, stack |-> up[d],
        lacp |-> IF d \in LacpDPs THEN lag[d] ELSE 0]

HealthyAt(d, a) ==
  /\ a[d] =< DownTime
  /\ up[d] >= MinStack
  /\ d \in LacpDPs => lag[d] >= MinLacp

\* Mutant: the current root is kept as long as there is any healthy datapath.
NewRoot_KeepsSick(S, live, h, i) ==
  IF S = {} /\ live = {} THEN None
  ELSE IF root \in DOMAIN conf THEN root
  ELSE Nominate(IF S # {} THEN S ELSE live, h, i, conf)

\* Mutant: the best candidate is made root at every election.
NewRoot_Preempts(S, live, h, i) ==
  IF S = {} /\ live = {} THEN None
  ELSE Nominate(IF S # {} THEN S ELSE live, h, i, conf)

\* ValveStackManager.nominate_stack_root: S are the healthy candidates, live
\* the ones seen recently that are not healthy.  The current root is kept if
\* it is in the set to choose from.
NewRoot(S, live, h, i) ==
  LET choice == IF S # {} THEN S ELSE live
  IN IF choice = {} THEN None
     ELSE IF root \in choice THEN root
     ELSE Nominate(choice, h, i, conf)

(***************************************************************************)
(* Handlers.                                                               *)
(***************************************************************************)

\* _apply_configs with configuration c and meta root r: every Valve gets the
\* new root; one whose root or priority changes cold starts, a removed one is
\* disconnected.  Port.clone_dyn_state keeps the state of a stack port and not
\* that of an LACP port, which starts anew on every datapath.
Apply(c, r) ==
  LET name == [d \in DP |-> IF d \in DOMAIN c THEN RootNameIn(c, r) ELSE None]
      same(d) == /\ d \in DOMAIN c /\ d \in DOMAIN conf
                 /\ name[d] = rootName[d] /\ c[d] = conf[d]
  IN /\ conf' = c
     /\ rootName' = name
     /\ running' = [d \in DP |-> running[d] /\ same(d)]
     /\ up' = [d \in DP |->
                 IF d \in DOMAIN c /\ d \in DOMAIN conf THEN up[d] ELSE 0]
     /\ lag' = [d \in DP |-> 0]

\* maintain_stack_root and set_stack_root.
MaintainStackRoot ==
  LET a == Ages
      C == Candidates(conf)
      h == [d \in DP |-> IF d \in C THEN HealthyAt(d, a) ELSE healthy[d]]
      i == [d \in DP |-> IF d \in C THEN InfoOf(d, a) ELSE info[d]]
      new == NewRoot({d \in C : h[d]}, {d \in C : ~h[d] /\ i[d].live}, h, i)
      agreed == \A d \in DOMAIN conf : rootName[d] = root
      changed == new # None /\ IF new = root THEN ~agreed ELSE root # None
  IN /\ age' = a
     /\ healthy' = h
     /\ info' = i
     /\ root' = IF new = None THEN root ELSE new
     /\ IF new = None \/ (new = root /\ agreed)
        THEN UNCHANGED <<conf, rootName, running, up, lag>>
        ELSE Apply(conf, new)
     /\ stale' = [d \in DP |-> stale[d] \/ (changed /\ d \in DOMAIN conf)]

\* request_reload_configs with configuration c, perhaps with the same
\* priorities.  A Valve that stays keeps its health (Stack.clone_dyn_state); a
\* new one has none.
ReloadConfig(c) ==
  LET kept(d) == d \in DOMAIN c /\ d \in DOMAIN conf
  IN /\ Apply(c, root)
     /\ info' = [d \in DP |-> IF kept(d) THEN info[d] ELSE NoInfo]
     /\ healthy' = [d \in DP |-> healthy[d] /\ kept(d)]
     /\ stale' = [d \in DP |-> stale[d] /\ kept(d)]
     /\ UNCHANGED <<root, age>>

\* ValvesManager.datapath_connect: also seen just now.
DatapathConnect(d) ==
  /\ d \in DOMAIN conf
  /\ ~running[d]
  /\ running' = [running EXCEPT ![d] = TRUE]
  /\ age' = [age EXCEPT ![d] = 0]
  /\ UNCHANGED <<conf, root, rootName, up, lag, info, healthy, stale>>

DatapathDisconnect(d) ==
  /\ running[d]
  /\ running' = [running EXCEPT ![d] = FALSE]
  /\ UNCHANGED <<conf, root, rootName, age, up, lag, info, healthy, stale>>

\* update_stack_link_state, called by fast_state_expire on every Valve:
\* reprovisions the stack if the root is stale.
FastStateExpire ==
  /\ \E d \in DOMAIN conf : stale[d]
  /\ stale' = [d \in DP |-> stale[d] /\ d \notin DOMAIN conf]
  /\ UNCHANGED <<conf, root, rootName, running, age, up, lag, info, healthy>>

\* Stack links (see StackLink) and LACP ports of a datapath come and go.
PortsChange(d, u, g) ==
  /\ d \in DOMAIN conf
  /\ d \notin LacpDPs => g = 0
  /\ up' = [up EXCEPT ![d] = u]
  /\ lag' = [lag EXCEPT ![d] = g]
  /\ UNCHANGED <<conf, root, rootName, running, age, info, healthy, stale>>

\* A stack root update interval passes.
Tick ==
  /\ age' = [d \in DP |-> IF age[d] =< DownTime THEN age[d] + 1 ELSE age[d]]
  /\ age' # age
  /\ UNCHANGED <<conf, root, rootName, running, up, lag, info, healthy, stale>>

\* Faucet starts: no datapath has connected, no root is elected.
Init ==
  /\ conf \in Confs
  /\ root = None
  /\ rootName = [d \in DP |-> IF d \in DOMAIN conf THEN RootNameIn(conf, None)
                                                  ELSE None]
  /\ running = [d \in DP |-> FALSE]
  /\ age = [d \in DP |-> DownTime + 1]
  /\ up = [d \in DP |-> 0] /\ lag = [d \in DP |-> 0]
  /\ info = [d \in DP |-> NoInfo]
  /\ healthy = [d \in DP |-> FALSE] /\ stale = [d \in DP |-> FALSE]

Next ==
  \/ MaintainStackRoot
  \/ \E c \in Confs : ReloadConfig(c)
  \/ \E d \in DP : DatapathConnect(d) \/ DatapathDisconnect(d)
  \/ FastStateExpire
  \/ \E d \in DP, u, g \in Percent : PortsChange(d, u, g)
  \/ Tick

Spec == Init /\ [][Next]_vars

\* The election is on a timer (FAUCET_STACK_ROOT_STATE_UPDATE_TIME).
FairSpec == Spec /\ WF_vars(MaintainStackRoot)

-----------------------------------------------------------------------------
\* Whenever the elected root may be root at all, every datapath of the stack
\* works with it: neither an election nor a change of configuration, in any
\* order, leaves a datapath forwarding towards another root.
RootKnown ==
  root \in Candidates(conf) => \A d \in DOMAIN conf : rootName[d] = root

\* The root does not flap: an election takes it from a datapath only if that
\* is no candidate any more, or not healthy while the new one is, or was not
\* seen for long; and the new one was seen recently.
RootMovesForCause ==
  [][root' # root =>
       /\ root \in Candidates(conf) /\ Ages[root] =< DownTime
            => ~HealthyAt(root, Ages) /\ HealthyAt(root', Ages)
       /\ Ages[root'] =< DownTime]_vars

\* A datapath that could be root now.
Sound(d) == d \in Candidates(conf) /\ HealthyAt(d, age)

\* The stack ends up with a healthy root, if there is one to be had: some
\* candidate stays healthy, and no other changes its health for ever.
HealthyRootElected ==
  /\ \E d \in DP : <>[]Sound(d)
  /\ \A d \in DP : <>[]Sound(d) \/ <>[]~Sound(d)
  => <>[](root \in DP /\ Sound(root))
=============================================================================
