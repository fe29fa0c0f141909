SPECIFICATION Spec
CONSTANTS
  wf1 = wf1
  Workflows = {wf1, wf2}
  Workers = {w1, w2}
  Values = {k1, k2, k3, k4, k5}
  NoSecret = NoSecret
  PinnedUri = FALSE
INVARIANTS TypeOK WrittenOnce RotationTakesEffect RotationWithoutInterruption LiveWorkflowsHaveKeys
SYMMETRY KeysAlike
CONSTRAINT FewerWithFaults
CHECK_DEADLOCK FALSE
