------------------------------ MODULE P2tUtils ------------------------------
(***************************************************************************)
(* The geometric predicates of poly2tri-c,                                 *)
(* src/libs/poly2tri-c/poly2tri-c/p2t/common/utils.c: p2t_orient2d and     *)
(* p2t_utils_in_scan_area, which the sweep of the constrained Delaunay     *)
(* triangulation calls.  Points have integer coordinates from Coords, so   *)
(* every product the code forms is exact and a value v satisfies           *)
(* -EPSILON < v < EPSILON (EPSILON = 1e-12) exactly when v = 0.            *)
(*                                                                         *)
(* One behaviour is one set of arguments and the two calls on them.        *)
(***************************************************************************)
EXTENDS Integers

CONSTANTS
  Coords,       \* the coordinates points may take
  None          \* model value: call not made yet

VARIABLES
  pa, pb, pc, pd,   \* the arguments, P2tPoint as [x, y]
  orient,           \* result of p2t_orient2d (pa, pb, pc)
  inScan            \* result of p2t_utils_in_scan_area (pa, pb, pc, pd)

vars == <<pa, pb, pc, pd, orient, inScan>>

Points == [x : Coords, y : Coords]

(* The comparisons against EPSILON, exact on integer values.               *)
NearZero(v) == v = 0
AtMostEps(v) == v <= 0
AtLeastMinusEps(v) == v >= 0

(* Seeded fault for Orient2d: detright with the operands of detleft.       *)
Orient2dSwapped(a, b, c) ==
  LET val == (a.x - c.x) * (b.y - c.y) - (a.x - c.x) * (b.y - c.y)
  IN  IF NearZero(val) THEN "COLLINEAR" ELSE IF val > 0 THEN "CCW" ELSE "CW"

(* p2t_orient2d: sign of detleft - detright, COLLINEAR within EPSILON.     *)
Orient2d(a, b, c) ==
  LET detleft  == (a.x - c.x) * (b.y - c.y)
      detright == (a.y - c.y) * (b.x - c.x)
      val      == detleft - detright
  IN  IF NearZero(val) THEN "COLLINEAR" ELSE IF val > 0 THEN "CCW" ELSE "CW"

(* Seeded fault for InScanArea: the first test with the reference's sign.  *)
InScanAreaFlipped(a, b, c, d) ==
  LET oadb == (a.x - b.x) * (d.y - b.y) - (d.x - b.x) * (a.y - b.y)
      oadc == (a.x - c.x) * (d.y - c.y) - (d.x - c.x) * (a.y - c.y)
  IN  ~AtMostEps(oadb) /\ ~AtMostEps(oadc)

(* p2t_utils_in_scan_area, the enabled (#else) branch.                     *)
InScanArea(a, b, c, d) ==
  LET oadb == (a.x - b.x) * (d.y - b.y) - (d.x - b.x) * (a.y - b.y)
      oadc == (a.x - c.x) * (d.y - c.y) - (d.x - c.x) * (a.y - c.y)
  IN  ~AtLeastMinusEps(oadb) /\ ~AtMostEps(oadc)

(* The disabled (#if FALSE) branch, kept in the file as the original       *)
(* formulation: oabd and ocad relative to pd.                              *)
InScanAreaDisabled(a, b, c, d) ==
  LET adx == a.x - d.x  ady == a.y - d.y
      bdx == b.x - d.x  bdy == b.y - d.y
      cdx == c.x - d.x  cdy == c.y - d.y
      oabd == adx * bdy - bdx * ady
      ocad == cdx * ady - adx * cdy
  IN  ~AtMostEps(oabd) /\ ~AtMostEps(ocad)

P2tInit ==
  /\ pa \in Points /\ pb \in Points /\ pc \in Points /\ pd \in Points
  /\ orient = None
  /\ inScan = None

CallOrient2d ==
  /\ orient = None
  /\ orient' = Orient2d(pa, pb, pc)
  /\ UNCHANGED <<pa, pb, pc, pd, inScan>>

CallInScanArea ==
  /\ inScan = None
  /\ inScan' = InScanArea(pa, pb, pc, pd)
  /\ UNCHANGED <<pa, pb, pc, pd, orient>>

P2tNext == CallOrient2d \/ CallInScanArea

P2tSpec == P2tInit /\ [][P2tNext]_vars

(*-------------------------------------------------------------------------*)
(* Properties                                                              *)
(*-------------------------------------------------------------------------*)

(* The documented formula A[P1,P2,P3] = (x1*y2 - y1*x2) + (x2*y3 - y2*x3)  *)
(* + (x3*y1 - y3*x1), positive if CCW, negative if CW, 0 if collinear,     *)
(* against the result of p2t_orient2d; and swapping the first two points   *)
(* reverses the orientation.                                               *)
SignedArea(a, b, c) == (a.x * b.y - a.y * b.x) + (b.x * c.y - b.y * c.x) + (c.x * a.y - c.y * a.x)

Orient2dMatchesSignedArea ==
  orient # None =>
    /\ orient = CASE SignedArea(pa, pb, pc) > 0 -> "CCW"
                  [] SignedArea(pa, pb, pc) < 0 -> "CW"
                  [] OTHER                      -> "COLLINEAR"
    /\ Orient2d(pb, pa, pc) = CASE orient = "CCW" -> "CW"
                                [] orient = "CW"  -> "CCW"
                                [] OTHER          -> "COLLINEAR"

(* The enabled branch of p2t_utils_in_scan_area decides exactly what the   *)
(* disabled original does, and both say: pd lies strictly inside the wedge *)
(* at pa from pb to pc, i.e. (pa, pb, pd) and (pa, pd, pc) turn CCW.       *)
InScanAreaIsWedge ==
  inScan # None =>
    /\ inScan = InScanAreaDisabled(pa, pb, pc, pd)
    /\ inScan = (Orient2d(pa, pb, pd) = "CCW" /\ Orient2d(pa, pd, pc) = "CCW")

=============================================================================
