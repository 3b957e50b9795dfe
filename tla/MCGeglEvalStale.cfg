CONSTANTS
  Nodes = {n1, n2, n3}
  InPadNames = {"input", "aux"}
  OutPadNames = {"output"}
  NoPad = NoPad
  NULL = NULL
  Proxies = {n3}
  MaxPasses = 2
  MaxEdits = 1
  Outcomes = {"buffer", "null"}
SPECIFICATION EvalSpec
\* The application stops once MaxPasses passes have been run.
CHECK_DEADLOCK FALSE
PROPERTIES
  NoStaleInputAtProcess
