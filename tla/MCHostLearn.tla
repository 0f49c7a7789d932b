----------------------------- MODULE MCHostLearn -----------------------------
(***************************************************************************)
(* HostLearn for TLC: hosts that roam between two ports.                   *)
(***************************************************************************)
EXTENDS HostLearn

CONSTANTS h1, h2, p1, p2

Hash2 == [h \in Host |-> IF h = h1 THEN 1 ELSE 0]
\* max_hosts is 1 on the first port.
MaxPortHosts2 == [p \in Port |-> IF p = p1 THEN 1 ELSE 0]
\* Plain ports, also without idle_dst; a port with loop protection; one with
\* permanent_learn.
Confs4 ==
  {[loop_protect |-> {}, permanent_learn |-> {}, idle_dst |-> TRUE],
   [loop_protect |-> {}, permanent_learn |-> {}, idle_dst |-> FALSE],
   [loop_protect |-> {p2}, permanent_learn |-> {}, idle_dst |-> TRUE],
   [loop_protect |-> {}, permanent_learn |-> {p2}, idle_dst |-> TRUE]}
=============================================================================
