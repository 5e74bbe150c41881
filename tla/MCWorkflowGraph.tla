--------------------------- MODULE MCWorkflowGraph ---------------------------
(* Small instances of WorkflowGraph.                                         *)
EXTENDS WorkflowGraph, TLC

Symmetry ==
  Permutations(Workflows) \cup Permutations(Agents) \cup Permutations(Tools)
    \cup Permutations(Edges) \cup Permutations(Requests)

AllOperations == OperationKinds
=============================================================================
