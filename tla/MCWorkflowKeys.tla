---------------------------- MODULE MCWorkflowKeys ----------------------------
EXTENDS WorkflowKeys, Naturals, FiniteSets, TLC

CONSTANT wf1

KeysAlike == Permutations(Values)
(* With faults, one workflow is enough and four keys: a failed creation    *)
(* and a rotation.                                                         *)
FewerWithFaults ==
  faulty => Cardinality(minted) < 5 /\ \A wf \in Workflows \ {wf1} : row[wf].state = "none"
==============================================================================
