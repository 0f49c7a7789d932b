----------------------------- MODULE MCStackRoot -----------------------------
(***************************************************************************)
(* StackRoot for TLC: configurations of a small stack.                     *)
(***************************************************************************)
EXTENDS StackRoot

\* Two candidates; the priorities exchanged; datapath 1 no candidate; datapath 1
\* taken out.
TwoDpConfs == {<<1, 2>>, <<2, 1>>, <<0, 1>>, [d \in {2} |-> 1]}
=============================================================================
