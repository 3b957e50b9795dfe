------------------------------- MODULE Lohalo -------------------------------
(***************************************************************************)
(* The control and the integer and geometric decisions of the Lohalo       *)
(* resampler, src/gegl/buffer/gegl-sampler-lohalo.c: one call of           *)
(* gegl_sampler_lohalo_get at (absolute_x, absolute_y) under the inverse   *)
(* Jacobian Jinv.                                                          *)
(*                                                                         *)
(* The call chooses an anchor pixel, reads a stencil around it through     *)
(* the pointer returned by gegl_sampler_get_ptr (LBB-Nohalo), and, when    *)
(* Jinv downsamples, adds a clamped EWA over the 5x5 stencil and blends    *)
(* it in, provided the ellipse fits the level-0 context rectangle.         *)
(*                                                                         *)
(* The LBB-Nohalo value of the first channel is computed by the operators *)
(* of LohaloLbb on the pixels of the call's 5x5 window, reflected as the   *)
(* code's shifts reflect them; the other three channels run the same       *)
(* arithmetic on other values.  The EWA value of that channel and the      *)
(* blend are computed too, with the sqrtf of each teepee weight rounded    *)
(* down to a grid of 1/SqrtGrid: a weight is positive exactly when the     *)
(* code's is, and the blend stays a combination of the same terms.         *)
(*                                                                         *)
(* Positions are exact rationals k/Q, the entries of Jinv rationals       *)
(* k/JDen.  The calls enumerate Jinv = U * diag(s1, s2) with U a rotation  *)
(* whose cosine and sine are rational (a Pythagorean triple) or the        *)
(* identity: the SVD the code computes is then exact, every square root   *)
(* it takes is of a perfect square, and the right factor V, which the      *)
(* code never computes (it maps disks to disks), is the identity.  The    *)
(* unit vector u1 is kept as an integer vector and its length.  A         *)
(* comparison "< c + LOHALO_FUDGE" (1e-6) on these exact values is "<= c". *)
(***************************************************************************)
EXTENDS Integers, FiniteSetsExt

CONSTANTS
  Q,                  \* denominator of positions
  JDen,               \* denominator of the entries of Jinv
  Geometries,         \* the calls' [ax, ay, ja, jb, jc, jd]: position
                      \* numerators over Q, Jinv numerators over JDen
  Windows(_),         \* the pixel windows, in [Window -> Int], a call of
                      \* geometry g reads
  ContextShift,       \* LOHALO_CONTEXT_RECT_SHIFT
  ContextSize,        \* LOHALO_CONTEXT_RECT_SIZE
  SqrtGrid            \* sqrtf in teepee is taken on the grid 1/SqrtGrid

ASSUME Q \in Nat /\ Q > 0 /\ Q % 2 = 0 /\ JDen \in Nat /\ JDen > 0 /\ SqrtGrid \in Nat /\ SqrtGrid > 0

(* The 5x5 pixels around the anchor that the call can read.                *)
Window == (-2..2) \X (-2..2)

(* The LBB-Nohalo arithmetic, with positions 2|x_0| over R = Q.            *)
K == INSTANCE LohaloLbb WITH R <- Q

VARIABLES
  ax, ay,             \* absolute_x, absolute_y (numerators over Q)
  ja, jb, jc, jd,     \* inverse_jacobian coeff[0][0], [0][1], [1][0], [1][1]
  pix,                \* the input pixel values around the anchor (channel 0)
  pc,                 \* "idle" before the call, "done" after it
  x0, y0,             \* x_0, y_0: position relative to the anchor (over Q)
  reads,              \* pixel offsets (dx, dy) from the anchor read via input_bptr
  weights,            \* EWA offsets whose teepee weight is positive
  branch,             \* "lbb", "blend" or "mipmap": how the call ended
  outputWritten,      \* babl_process wrote the output pixel
  nohalo,             \* the 16 values nohalo_subdivision returned (times 8)
  lbbVal,             \* newval[0] = lbb (...) (times K!LbbDen times 8)
  newval              \* newval[0] shipped to babl_process, as n1/d1 + n2/d2

vars == <<ax, ay, ja, jb, jc, jd, pix, pc, x0, y0, reads, weights, branch, outputWritten, nohalo, lbbVal, newval>>

Abs(v) == IF v >= 0 THEN v ELSE -v

(* The integer square root (the largest r with r * r <= v, by bisection);  *)
(* exact on the perfect squares the code meets.                            *)
RECURSIVE SqrtIn(_, _, _)
SqrtIn(v, lo, hi) ==
  IF lo >= hi THEN lo
  ELSE LET mid == (lo + hi + 1) \div 2
       IN  IF mid * mid <= v THEN SqrtIn(v, mid, hi) ELSE SqrtIn(v, lo, mid - 1)
ISqrt(v) == SqrtIn(v, 0, IF v < 46340 THEN v ELSE 46340)

(* Greatest common divisor, to keep exact fractions in lowest terms.       *)
RECURSIVE Gcd(_, _)
Gcd(x, y) == IF y = 0 THEN Abs(x) ELSE Gcd(y, Abs(x) % Abs(y))

(* (gint) of v/Q: truncation toward zero.                                 *)
Trunc(v) == IF v >= 0 THEN v \div Q ELSE -((-v) \div Q)

(*-------------------------------------------------------------------------*)
(* Anchor and stencil                                                      *)
(*-------------------------------------------------------------------------*)

(* Seeded fault for FastPseudoFloor: the plain (gint) cast.               *)
PseudoFloorCast(v) == Trunc(v)

(* LOHALO_FAST_PSEUDO_FLOOR(x) = (gint)(x) - (x < 0.), of x = v/Q.         *)
FastPseudoFloor(v) == Trunc(v) - (IF v < 0 THEN 1 ELSE 0)

(* ix_0 = LOHALO_FAST_PSEUDO_FLOOR (absolute_x + .5); x_0 = absolute_x -   *)
(* ix_0 (over Q).                                                          *)
Anchor(v) == FastPseudoFloor(v + Q \div 2)
RelPos(v) == v - Anchor(v) * Q

(* sign_of_x_0 = 2 * (x_0 >= 0) - 1.                                       *)
SignOf(v) == IF v >= 0 THEN 1 ELSE -1

(* Seeded fault for NohaloOffsets: the cin row three rows forward.        *)
NohaloOffsetsFar(sx, sy) ==
  {<<k * sx, r * sy>> : <<k, r>> \in ({-1, 0, 1} \X {-2, 3}) \cup ((-2..2) \X {-1, 0, 1})}

(* The 21 shifts uno_two .. cin_fou fed to nohalo_subdivision (for each of *)
(* the 4 channels), as pixel offsets: row uno is shift_back_2_row, dos     *)
(* back_1, tre 0, qua forw_1, cin forw_2; back/forw follow sign_of_x_0     *)
(* and sign_of_y_0.                                                        *)
NohaloOffsets(sx, sy) ==
  {<<k * sx, r * sy>> : <<k, r>> \in ({-1, 0, 1} \X {-2, 2}) \cup ((-2..2) \X {-1, 0, 1})}

(* LOHALO_CALL_EWA_UPDATE(j, i) for j, i in -2..2: skip = j * channels +   *)
(* i * row_skip, not mirrored.                                             *)
EwaOffsets == (-2..2) \X (-2..2)

(* gegl_sampler_lohalo_init: context_rect = (SHIFT, SHIFT, SIZE, SIZE),    *)
(* the pixels relative to the anchor that gegl_sampler_get_ptr provides.   *)
InContextRect(o) ==
  /\ ContextShift <= o[1] /\ o[1] <= ContextShift + ContextSize - 1
  /\ ContextShift <= o[2] /\ o[2] <= ContextShift + ContextSize - 1

(*-------------------------------------------------------------------------*)
(* Ellipse of the inverse Jacobian (all in units of 1/Q)                   *)
(*-------------------------------------------------------------------------*)

(* Seeded fault for LeftSingularVector: the smaller row of n - s1^2 I.    *)
LeftSingularVectorSmallRow(n11, n12, n22, s1s1) ==
  LET m11sq == (s1s1 - n11) * (s1s1 - n11)
      m22sq == (s1s1 - n22) * (s1s1 - n22)
      tx == IF m11sq <= m22sq THEN n12 ELSE s1s1 - n22
      ty == IF m11sq <= m22sq THEN s1s1 - n11 ELSE n12
      norm == ISqrt(tx * tx + ty * ty)
      g == Gcd(Gcd(tx, ty), norm)
  IN  IF norm > 0 THEN [x |-> tx \div g, y |-> ty \div g, n |-> norm \div g]
                  ELSE [x |-> 1, y |-> 0, n |-> 1]

(* u1 = (u11, u21) as [x, y] / n: temp_u11 and temp_u21 from the larger   *)
(* row of n - s1^2 I, divided by its norm; [1, 0] when the norm is 0.      *)
LeftSingularVector(n11, n12, n22, s1s1) ==
  LET m11sq == (s1s1 - n11) * (s1s1 - n11)
      m22sq == (s1s1 - n22) * (s1s1 - n22)
      tx == IF m11sq >= m22sq THEN n12 ELSE s1s1 - n22
      ty == IF m11sq >= m22sq THEN s1s1 - n11 ELSE n12
      norm == ISqrt(tx * tx + ty * ty)
      g == Gcd(Gcd(tx, ty), norm)
  IN  IF norm > 0 THEN [x |-> tx \div g, y |-> ty \div g, n |-> norm \div g]
                  ELSE [x |-> 1, y |-> 0, n |-> 1]

(* n = Jinv * transpose(Jinv), det, frobenius_squared, discriminant,       *)
(* twice_s1s1, s1s1, s2s2, u1, and the magnitudes clamped up to 1, as     *)
(* major / den and minor / den in lowest terms (den divides JDen).         *)
Ellipse(a, b, c, d) ==
  LET n11 == a * a + b * b
      n12 == a * c + b * d
      n22 == c * c + d * d
      twiceDet == 2 * (a * d - b * c)
      frob == n11 + n22
      sqrtDisc == ISqrt((frob + twiceDet) * (frob - twiceDet))
      twiceS1s1 == frob + sqrtDisc
      s1s1 == twiceS1s1 \div 2
      s2s2 == (frob - sqrtDisc) \div 2
      major == IF s1s1 <= JDen * JDen THEN JDen ELSE ISqrt(s1s1)
      minor == IF s2s2 <= JDen * JDen THEN JDen ELSE ISqrt(s2s2)
      g == Gcd(Gcd(major, minor), JDen)
  IN  [upsample |-> twiceS1s1 <= 2 * JDen * JDen,
       u |-> LeftSingularVector(n11, n12, n22, s1s1),
       major |-> major \div g, minor |-> minor \div g, den |-> JDen \div g]

(* teepee(...) > 0 at the EWA offset (j, i): r2 < 1 for                    *)
(* q1 = s * c_major_x + t * c_major_y, q2 = s * c_minor_x + t * c_minor_y, *)
(* (s, t) = (x_0 - j, y_0 - i), c_major = major_unit / major_mag,          *)
(* c_minor = (-u21, u11) / minor_mag.  ewa_update adds it to total_weight. *)
TeepeeR2(e, px, py, o) ==
  LET s == px - o[1] * Q
      t == py - o[2] * Q
      p1 == s * e.u.x + t * e.u.y
      p2 == -s * e.u.y + t * e.u.x
  IN  [num |-> (p1 * p1 * e.minor * e.minor + p2 * p2 * e.major * e.major) * e.den * e.den,
       den |-> Q * Q * e.u.n * e.u.n * e.major * e.major * e.minor * e.minor]

PositiveWeight(e, px, py, o) ==
  TeepeeR2(e, px, py, o).num < TeepeeR2(e, px, py, o).den

(* teepee's weight 1 - sqrtf(r2) if r2 < 1, else 0, over SqrtGrid, with   *)
(* sqrtf(r2) rounded down to the grid (floor(sqrt(floor(x))) =             *)
(* floor(sqrt(x))).                                                        *)
Teepee(e, px, py, o) ==
  LET r == TeepeeR2(e, px, py, o)
  IN  IF r.num < r.den THEN SqrtGrid - ISqrt((SqrtGrid * SqrtGrid * r.num) \div r.den)
                       ELSE 0

(* total_weight and ewa_newval[0] after the 25 ewa_update calls, both over *)
(* SqrtGrid: each adds weight and weight * input_bptr[skip], skip the     *)
(* unmirrored offset (j, i) from the anchor.                               *)
EwaSums(e, px, py) ==
  [total |-> MapThenSumSet(LAMBDA o : Teepee(e, px, py, o), EwaOffsets),
   acc   |-> MapThenSumSet(LAMBDA o : Teepee(e, px, py, o) * pix[o], EwaOffsets)]

(* The value LBB-Nohalo ships out, lbb / LbbScale, as a blend value.       *)
LbbScale == 8 * K!LbbDen
LbbOnly(lbb) == [n1 |-> lbb, d1 |-> LbbScale, n2 |-> 0, d2 |-> 1]

(* Seeded fault for Blend: beta = 1 - theta, not divided by total_weight. *)
BlendUnnormalised(e, lbb, ewa) ==
  LET mm == e.major * e.minor
      dd == e.den * e.den
  IN  [n1 |-> dd * lbb, d1 |-> mm * LbbScale, n2 |-> (mm - dd) * ewa.acc, d2 |-> mm * SqrtGrid]

(* theta = 1 / ellipse_f, ellipse_f = major_mag * minor_mag, beta =       *)
(* (1 - theta) / total_weight, newval[0] = theta * newval[0] + beta *      *)
(* ewa_newval[0]: the two terms as fractions n1/d1 and n2/d2.              *)
Blend(e, lbb, ewa) ==
  LET mm == e.major * e.minor
      dd == e.den * e.den
  IN  [n1 |-> dd * lbb, d1 |-> mm * LbbScale, n2 |-> (mm - dd) * ewa.acc, d2 |-> mm * ewa.total]

(* The squares of the half width and half height of the ellipse's bounding *)
(* box, as [w, h] / den: ellipse_c and ellipse_a times                     *)
(* bounding_box_factor = f^2 / (ellipse_a * ellipse_c - ellipse_b^2 / 4),  *)
(* with ellipse_a, ellipse_b, ellipse_c as written in the comment before   *)
(* ellipse_f (major = major_mag * major_unit, minor likewise); the factor  *)
(* is kept in lowest terms.                                                *)
BoundingBox(e) ==
  LET majX == e.major * e.u.x   majY == e.major * e.u.y
      minX == -e.minor * e.u.y  minY == e.minor * e.u.x
      ea == majY * majY + minY * minY
      eb == -2 * (majX * majY + minX * minY)
      ec == majX * majX + minX * minX
      f2 == (e.major * e.minor) * (e.major * e.minor) * e.u.n * e.u.n * e.u.n * e.u.n
      den == ea * ec - (eb * eb) \div 4
      g == Gcd(f2, den)
  IN  [w |-> ec * (f2 \div g), h |-> ea * (f2 \div g),
       den |-> e.den * e.den * e.u.n * e.u.n * (den \div g)]

(* |x_0| + half <= c, half = sqrt(sq / den): c - |x_0| >= 0 and its square *)
(* is at least sq / den (positions over Q).                                *)
WithinDistance(c, p, sq, den) ==
  c - Abs(p) >= 0 /\ sq * Q * Q <= (c - Abs(p)) * (c - Abs(p)) * den

(* Seeded fault for Fits: critical distance one pixel larger.             *)
FitsLoose(px, py, bb) ==
  WithinDistance(4 * Q, px, bb.w, bb.den) /\ WithinDistance(4 * Q, py, bb.h, bb.den)

(* LOHALO_ABS(x_0) + bounding_box_half_width < critical_distance, and the  *)
(* same for y, with critical_distance = 3 + LOHALO_FUDGE.                  *)
Fits(px, py, bb) ==
  WithinDistance(3 * Q, px, bb.w, bb.den) /\ WithinDistance(3 * Q, py, bb.h, bb.den)

(*-------------------------------------------------------------------------*)
(* gegl_sampler_lohalo_get: LBB-Nohalo on the stencil; if twice_s1s1 <     *)
(* 2 + FUDGE ship it out; otherwise accumulate the 25 EWA updates, and if  *)
(* the ellipse fits blend and ship out; otherwise (higher mipmap level     *)
(* needed) compute ix_1 and fall off the end of the function.             *)
(*-------------------------------------------------------------------------*)
Get ==
  /\ pc = "idle"
  /\ LET px == RelPos(ax)
         py == RelPos(ay)
         sx == SignOf(px)
         sy == SignOf(py)
         e  == Ellipse(ja, jb, jc, jd)
         stencil == NohaloOffsets(sx, sy)
         img == [o \in K!Stencil |-> pix[<<o[1] * sx, o[2] * sy>>]]
     IN  /\ pc' = "done"
         /\ x0' = px
         /\ y0' = py
         /\ nohalo' = K!NohaloSubdivision(img)
         /\ lbbVal' = K!Lbb(nohalo', 2 * sx * px, 2 * sy * py)
         /\ reads' = IF e.upsample THEN stencil ELSE stencil \cup EwaOffsets
         /\ weights' = IF e.upsample THEN {}
                       ELSE {o \in EwaOffsets : PositiveWeight(e, px, py, o)}
         /\ branch' = CASE e.upsample                      -> "lbb"
                        [] Fits(px, py, BoundingBox(e))    -> "blend"
                        [] OTHER                           -> "mipmap"
         /\ outputWritten' = (branch' # "mipmap")
         /\ newval' = IF branch' = "blend" THEN Blend(e, lbbVal', EwaSums(e, px, py))
                                          ELSE LbbOnly(lbbVal')
  /\ UNCHANGED <<ax, ay, ja, jb, jc, jd, pix>>

LohaloInit ==
  /\ \E g \in Geometries :
       /\ ax = g.ax /\ ay = g.ay /\ ja = g.ja /\ jb = g.jb /\ jc = g.jc /\ jd = g.jd
       /\ pix \in Windows(g)
  /\ pc = "idle"
  /\ x0 = 0 /\ y0 = 0
  /\ reads = {}
  /\ weights = {}
  /\ branch = "lbb"
  /\ outputWritten = FALSE
  /\ nohalo = <<>>
  /\ lbbVal = 0
  /\ newval = LbbOnly(0)

LohaloNext == Get

LohaloSpec == LohaloInit /\ [][LohaloNext]_vars

(*-------------------------------------------------------------------------*)
(* Properties                                                              *)
(*-------------------------------------------------------------------------*)

LohaloTypeOK ==
  /\ pc \in {"idle", "done"}
  /\ x0 \in Int /\ y0 \in Int
  /\ reads \subseteq (-2..2) \X (-2..2)
  /\ weights \subseteq EwaOffsets
  /\ branch \in {"lbb", "blend", "mipmap"}
  /\ outputWritten \in BOOLEAN
  /\ nohalo \in {<<>>} \cup [1..4 -> [1..4 -> Int]]
  /\ lbbVal \in Int
  /\ newval \in [n1 : Int, d1 : Nat \ {0}, n2 : Int, d2 : Nat \ {0}]

(* The anchor choice (comment before ix_0): the sampling location is at    *)
(* box distance at most 1/2 from the anchor, for negative coordinates and  *)
(* at the discontinuities of LOHALO_FAST_PSEUDO_FLOOR too.                 *)
AnchorWithinHalf ==
  pc = "done" => 2 * Abs(x0) <= Q /\ 2 * Abs(y0) <= Q

(* The blend branch is taken only when it loses nothing: the EWA weights   *)
(* sum to more than 0 (beta divides by total_weight), and no pixel outside *)
(* the 5x5 stencil, at any distance, would have a positive teepee weight.  *)
BlendLosesNothing ==
  (pc = "done" /\ branch = "blend") =>
    LET e == Ellipse(ja, jb, jc, jd)
    IN  /\ weights # {}
        /\ \A o \in (-5..5) \X (-5..5) : PositiveWeight(e, x0, y0, o) => o \in EwaOffsets

(* The ellipse of the clamped EWA (the comment before the SVD: "the       *)
(* smallest ellipse containing both the unit disk and the ellipse which is *)
(* the image of the unit disk by" Jinv): with axes u1 and its normal and   *)
(* semi-axes major_mag and minor_mag, it contains the unit disk, and      *)
(* Jinv * transpose(Jinv) <= the ellipse's matrix (Loewner order), i.e.    *)
(* it contains Jinv's image of the unit disk.  This holds only if the      *)
(* eigenvalues, the choice of the row for u1 and the clamps are right.     *)
EllipseCoversPullback ==
  (pc = "done" /\ branch # "lbb") =>
    LET e == Ellipse(ja, jb, jc, jd)
        u == e.u
        M2 == (e.major * (JDen \div e.den)) * (e.major * (JDen \div e.den))
        m2 == (e.minor * (JDen \div e.den)) * (e.minor * (JDen \div e.den))
        g11 == M2 * u.x * u.x + m2 * u.y * u.y - u.n * u.n * (ja * ja + jb * jb)
        g22 == M2 * u.y * u.y + m2 * u.x * u.x - u.n * u.n * (jc * jc + jd * jd)
        g12 == (M2 - m2) * u.x * u.y - u.n * u.n * (ja * jc + jb * jd)
    IN  /\ e.major >= e.den /\ e.minor >= e.den
        /\ g11 >= 0 /\ g22 >= 0 /\ g11 * g22 >= g12 * g12

(* The co-monotonicity lbb relies on (the comment before m1 .. M13 in      *)
(* lbb): on the values nohalo_subdivision hands to lbb, each value between *)
(* two input pixels lies between them and the centre value lies between   *)
(* the four pixels around it.  It is what makes the m13/M13 shortcut,     *)
(* which leaves tre_fou out of the 3x3 minimum and maximum, exact.        *)
NohaloCoMonotone ==
  pc = "done" => K!CoMonotone(nohalo)

(* LBB-Nohalo is locally bounded (the comment at the top of lbb): the      *)
(* value of every call lies between the least and the greatest of the 16  *)
(* values of its patch, so no clamping follows before babl_process.       *)
LbbLocallyBounded ==
  pc = "done" => K!LocallyBounded(lbbVal, nohalo)

(* a/b <= c/d for a, c >= 0 and b, d > 0, by comparing the continued     *)
(* fractions (no product of the operands, so no 32-bit overflow).          *)
RECURSIVE FracLe(_, _, _, _)
FracLe(a, b, c, d) ==
  IF a \div b # c \div d THEN a \div b < c \div d
  ELSE IF a % b = 0 THEN TRUE
  ELSE IF c % d = 0 THEN FALSE
  ELSE FracLe(d, c % d, b, a % b)

(* x1/d1 + x2/d2 >= 0.                                                     *)
SumNonNeg(x1, d1, x2, d2) ==
  CASE x1 >= 0 /\ x2 >= 0 -> TRUE
    [] x1 < 0 /\ x2 < 0   -> FALSE
    [] x1 < 0             -> FracLe(-x1, d1, x2, d2)
    [] OTHER              -> FracLe(-x2, d2, x1, d1)

(* lo <= v <= hi for a blend value v = n1/d1 + n2/d2.                      *)
ValueWithin(v, lo, hi) ==
  /\ SumNonNeg(v.n1, v.d1, v.n2 - lo * v.d2, v.d2)
  /\ SumNonNeg(hi * v.d1 - v.n1, v.d1, -v.n2, v.d2)

(* The blended pixel adds no overshoot (the comment before the blend:      *)
(* "Relative weight of the contribution of LBB-Nohalo", theta, and the     *)
(* rest to the EWA): newval[0] after the blend lies between the least and  *)
(* the greatest input pixel the call read.  It needs LBB-Nohalo to stay    *)
(* within the pixels, theta <= 1, and beta to normalise the EWA by        *)
(* total_weight.                                                           *)
BlendWithinReadRange ==
  (pc = "done" /\ branch = "blend") =>
    LET vals == {pix[o] : o \in reads}
    IN  ValueWithin(newval, Min(vals), Max(vals))

(* Every call of the sampler's get writes the output pixel.                *)
OutputAlwaysWritten ==
  pc = "done" => outputWritten

(* The comment before critical_distance: "We use a 5x5 context_rect at     *)
(* level 0; consequently, we can access pixels which are 2 away from the   *)
(* anchor".  Every pixel read through input_bptr lies in the context rect. *)
ReadsInsideContextRect ==
  pc = "done" => \A o \in reads : InContextRect(o)

=============================================================================
