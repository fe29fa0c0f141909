SPECIFICATION Spec
CONSTANTS
  wf1 = wf1
  Workflows = {wf1}
  Workers = {w1, w2}
  Values = {k1, k2, k3, k4}
  NoSecret = NoSecret
  PinnedUri = TRUE
SYMMETRY KeysAlike
INVARIANTS RotationTakesEffect
CHECK_DEADLOCK FALSE
