----------------------------- MODULE MCHandoff -----------------------------
(* Instance of Handoff for TLC: the server was restarted with another      *)
(* executor between two prompts.                                           *)
EXTENDS Handoff, TLC

askedByTwo == ("op1" :> "agent1") @@ ("op2" :> "agent2")
=============================================================================
