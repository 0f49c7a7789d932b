----------------------------- MODULE MCStackTree -----------------------------
(***************************************************************************)
(* StackTree for TLC: a chain and a star with two crossed links at the     *)
(* root, a triangle, and a ring of four datapaths, whose far end has two   *)
(* paths of the same length to the root.                                   *)
(***************************************************************************)
EXTENDS StackTree

CONSTANTS l1, l2, l3, l4, l5, l6

Ends6 == [l \in Link |-> CASE l \in {l1, l2} -> [a |-> 1, z |-> 2]
                           [] l = l3 -> [a |-> 2, z |-> 3]
                           [] l = l4 -> [a |-> 1, z |-> 3]
                           [] l = l5 -> [a |-> 2, z |-> 4]
                           [] l = l6 -> [a |-> 3, z |-> 4]]
\* The first two are crossed.
Num6 == [p \in Port |-> CASE p = <<l1, "a">> -> 1 [] p = <<l2, "a">> -> 2
                          [] p = <<l1, "z">> -> 2 [] p = <<l2, "z">> -> 1
                          [] p[1] = l3 -> 3 [] p[1] = l4 -> 4
                          [] p[1] = l5 -> 6 [] p[1] = l6 -> 5]

\* Tables that TLC evaluates once.
ASSUME PathAssumption ==
  /\ PathLens \in [SUBSET Link -> [DP -> 0..NDP]]
  /\ PathNodes \in [SUBSET Link -> [DP -> SUBSET DP]]

Confs6 == {{l1, l2, l3}, {l1, l2, l4}, {l1, l3, l4}, {l1, l4, l5, l6}}
=============================================================================
