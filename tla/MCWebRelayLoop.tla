--------------------------- MODULE MCWebRelayLoop ---------------------------
(* Instance of WebRelayLoop for TLC: two loops whose rounds compete for    *)
(* three prompts.                                                          *)
EXTENDS WebRelayLoop, TLC

CONSTANTS l1, l2, r1, r2

LoopSymmetry == Permutations({l1, l2}) \cup Permutations({r1, r2})
=============================================================================
