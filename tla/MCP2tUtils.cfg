\* All argument tuples on the 3 x 3 grid; each behaviour makes both calls
\* once and stops, hence no deadlock check.
CONSTANTS
  Coords <- MCCoords
  None = None
SPECIFICATION P2tSpec
CHECK_DEADLOCK FALSE
INVARIANTS
  Orient2dMatchesSignedArea
  InScanAreaIsWedge
