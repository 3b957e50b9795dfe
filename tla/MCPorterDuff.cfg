\* Both processors run to completion on every operation, every n_pixels up
\* to 2 and every pair of premultiplied buffers with channels in {0, 1/2, 1}.
\* A call returns and takes no further step, hence no deadlock check.
CONSTANTS
  Ops <- MCOps
  D = 2
  MaxPixels = 2
  NULL = NULL
  Unset = Unset
SPECIFICATION PDSpec
CHECK_DEADLOCK FALSE
INVARIANTS
  PDTypeOK
  ScalarMatchesSvg
