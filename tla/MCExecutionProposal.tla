------------------------ MODULE MCExecutionProposal ------------------------
(* Instance of ExecutionProposal for TLC.                                  *)
EXTENDS ExecutionProposal, TLC

CONSTANTS b1, b2

BindingSymmetry == Permutations({b1, b2})
=============================================================================
