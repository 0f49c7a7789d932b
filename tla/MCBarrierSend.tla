---------------------------- MODULE MCBarrierSend ----------------------------
(***************************************************************************)
(* BarrierSend for TLC: the batches of the model.                          *)
(***************************************************************************)
EXTENDS BarrierSend

\* Batches as prepare_send_flows returns them: messages and barriers.
OneMsg == <<"msg">>
BarMsg == <<"bar", "msg">>
BarOnly == <<"bar">>
NoMsg == <<>>

\* What a warm start sends: nothing (the change needs no flows), or flows.
EmptyOrMsg == {<<>>, <<"msg">>}
OnlyEmpty == {<<>>}
=============================================================================
