-------------------------------- MODULE MCLacp ------------------------------
(* A LAG on two datapaths, and a LAG on two of three datapaths.            *)
EXTENDS Lacp

SplitDp == (1 :> 1) @@ (2 :> 1) @@ (3 :> 2)
OneLag == [p \in Port |-> 7]
Unforced == [p \in Port |-> "none"]
ThirdStandby == [Unforced EXCEPT ![3] = "standby"]
NoPass == [p \in Port |-> {}]
=============================================================================
