CONSTANTS
  Paths = {"", "a.png", "b.png"}
  LoadOutcomes = {"buffer", "null"}
  MaxLoads = 3
  NoPad = NoPad
  NULL = NULL
SPECIFICATION LayerSpec
\* A finalized (or crashed) operation object takes no further steps.
CHECK_DEADLOCK FALSE
INVARIANTS
  OpacityFollowsSrc
