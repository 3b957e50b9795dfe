CONSTANTS
  Nodes = {n1, n2, n3}
  InPadNames = {"input", "aux"}
  OutPadNames = {"output", "output2"}
  NoPad = NoPad
  NULL = NULL
  Proxies = {n3}
  MaxPasses = 1
  MaxEdits = 0
  Outcomes = {"buffer", "null"}
SPECIFICATION EvalSpec
\* The application stops once MaxPasses passes have been run.
CHECK_DEADLOCK FALSE
INVARIANTS
  ReleaseExactlyAtLastConsumer
