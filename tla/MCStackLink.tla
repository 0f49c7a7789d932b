----------------------------- MODULE MCStackLink -----------------------------
(***************************************************************************)
(* StackLink for TLC.  Links affect each other in one place only, the test *)
(* of Reload whether a graph is complete, so one link and the datapaths    *)
(* that watch it stand for a stack: "changed" covers the other links.      *)
(***************************************************************************)
EXTENDS StackLink

CONSTANT l1

\* A link between datapaths 1 and 2; a datapath 3 watches it.
OneLink == {l1}
Between12 == [l \in Link |-> [a |-> 1, z |-> 2]]
=============================================================================
