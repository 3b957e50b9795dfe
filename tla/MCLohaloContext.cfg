\* One call of gegl_sampler_lohalo_get per behaviour, on every position and
\* every diagonal or rotated Jinv of the MC sets; the call returns and nothing follows,
\* hence no deadlock check.
CONSTANTS
  Q = 4
  JDen = 10
  Geometries <- MCGeometries
  Windows <- MCEdgeOnly
  ContextShift = 5
  ContextSize = 5
  SqrtGrid = 16
SPECIFICATION LohaloSpec
CHECK_DEADLOCK FALSE
INVARIANTS
  ReadsInsideContextRect
