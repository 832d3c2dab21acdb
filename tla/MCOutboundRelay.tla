-------------------------- MODULE MCOutboundRelay --------------------------
(* Instance of OutboundRelay for TLC: both prompts share one session, so   *)
(* that a later delivery replaces the relay context of an earlier one.     *)
EXTENDS OutboundRelay, TLC

CONSTANTS s1, t1, t2

MCSessionOf == [i \in PromptIds |-> s1]

TabSymmetry == Permutations({t1, t2})
=============================================================================
