-------------------------- MODULE MCApprovalBridge --------------------------
(* ApprovalBridge for TLC: two approvals and a secret request for input.   *)
EXTENDS ApprovalBridge, TLC

CONSTANTS command, patch, question

MCKind == [r \in Requests |->
  CASE r = question -> "input" [] r = patch -> "permissions" [] OTHER -> "command"]
Symmetry == Permutations(Tasks)
=============================================================================
