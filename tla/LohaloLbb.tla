------------------------------ MODULE LohaloLbb ------------------------------
(***************************************************************************)
(* The pixel arithmetic of one channel in gegl_sampler_lohalo_get,         *)
(* src/gegl/buffer/gegl-sampler-lohalo.c: nohalo_subdivision turns the 21  *)
(* input values around the anchor into the 16 values of a half-pixel grid, *)
(* get computes the 16 Hermite weights of the sampling position, and lbb   *)
(* evaluates the Locally Bounded Bicubic patch.                            *)
(*                                                                         *)
(* Operators only; Lohalo applies them in its Get.  A stencil im is the    *)
(* one the code reads after its implicit reflection: im[<<x, y>>] is the   *)
(* input at column offset x and row offset y from the anchor, with the     *)
(* sampling point to the bottom right of im[<<0, 0>>] = tre_thr.  The      *)
(* position is xp1over2 = 2|x_0| = T/R and yp1over2 = U/R.                 *)
(*                                                                         *)
(* Arithmetic is exact: nohalo values are kept times 8 (its factors are    *)
(* .5, .25 and .125 of integers) and the LBB result times LbbDen, the      *)
(* common denominator of its weights and of its .5 and .25 factors.  lbb   *)
(* is positively homogeneous, so it runs on the scaled values unchanged.   *)
(***************************************************************************)
EXTENDS Integers, FiniteSetsExt

CONSTANT R            \* positions are T/R, T in 0..R, on each axis

ASSUME R \in Nat /\ R > 0

(* The footprint of nohalo_subdivision: uno_two .. cin_fou.                *)
Stencil == ({-1, 0, 1} \X {-2, 2}) \cup ((-2..2) \X {-1, 0, 1})

LbbDen == 4 * R^6

(*-------------------------------------------------------------------------*)
(* nohalo_subdivision                                                      *)
(*-------------------------------------------------------------------------*)

(* Seeded fault for Minmod: the branches of the inner conditional move     *)
(* swapped, which picks the larger of two same-signed slopes.              *)
MinmodSwapped(a, b) == IF a * b >= 0 THEN (IF a * a <= a * b THEN b ELSE a) ELSE 0

(* LOHALO_MINMOD(a, b, a*a, a*b).                                          *)
Minmod(a, b) == IF a * b >= 0 THEN (IF a * a <= a * b THEN a ELSE b) ELSE 0

(* The minmod slopes at (x, y) along x (tre_thr_x, dos_fou_x ...) and      *)
(* along y (dos_thr_y, qua_two_y ...) of the consecutive differences.      *)
SlopeX(im, x, y) == Minmod(im[<<x + 1, y>>] - im[<<x, y>>], im[<<x, y>>] - im[<<x - 1, y>>])
SlopeY(im, x, y) == Minmod(im[<<x, y + 1>>] - im[<<x, y>>], im[<<x, y>>] - im[<<x, y - 1>>])

(* 8 times the value at (x + 1/2, y) and at (x, y + 1/2): newval_dos_one,  *)
(* newval_dos_thr, newval_qua_one, newval_qua_thr and newval_uno_two,      *)
(* newval_uno_fou, newval_tre_two, newval_tre_fou.                         *)
MidX(im, x, y) ==
  4 * (im[<<x, y>>] + im[<<x + 1, y>>]) + 2 * (SlopeX(im, x, y) - SlopeX(im, x + 1, y))
MidY(im, x, y) ==
  4 * (im[<<x, y>>] + im[<<x, y + 1>>]) + 2 * (SlopeY(im, x, y) - SlopeY(im, x, y + 1))

(* 8 times the four cell centres, each with the code's own formula:       *)
(* newval_uno_one, newval_uno_thr, newval_tre_one and newval_tre_thr.      *)
UnoOne(im) ==
  2 * (im[<<-1, -1>>] + im[<<0, -1>>] + im[<<-1, 0>>] + im[<<0, 0>>])
  + (SlopeX(im, -1, -1) - SlopeX(im, 0, -1) + SlopeX(im, -1, 0) - SlopeX(im, 0, 0)
     + SlopeY(im, -1, -1) + SlopeY(im, 0, -1) - SlopeY(im, -1, 0) - SlopeY(im, 0, 0))
UnoThr(im) ==
  2 * (im[<<1, -1>>] - im[<<0, 0>>])
  + (SlopeY(im, 1, -1) - SlopeY(im, 1, 0) + SlopeX(im, 0, -1) - SlopeX(im, 1, -1))
  + (MidY(im, 0, -1) + MidX(im, 0, 0)) \div 2
TreOne(im) ==
  2 * (im[<<-1, 1>>] - im[<<0, 0>>])
  + (SlopeX(im, -1, 1) - SlopeX(im, 0, 1) + SlopeY(im, -1, 0) - SlopeY(im, -1, 1))
  + (MidX(im, -1, 0) + MidY(im, 0, 0)) \div 2
TreThr(im) ==
  (SlopeX(im, 0, 0) - SlopeX(im, 1, 0) + SlopeX(im, 0, 1) - SlopeX(im, 1, 1))
  + (MidY(im, 0, 0) + MidY(im, 1, 0)) \div 2

(* The sixteen LBB stencil values uno_one_1 .. qua_fou_1, times 8.         *)
NohaloSubdivision(im) ==
  << << UnoOne(im),      MidY(im, 0, -1), UnoThr(im),      MidY(im, 1, -1) >>,
     << MidX(im, -1, 0), 8 * im[<<0, 0>>], MidX(im, 0, 0), 8 * im[<<1, 0>>] >>,
     << TreOne(im),      MidY(im, 0, 0),  TreThr(im),      MidY(im, 1, 0) >>,
     << MidX(im, -1, 1), 8 * im[<<0, 1>>], MidX(im, 0, 1), 8 * im[<<1, 1>>] >> >>

(*-------------------------------------------------------------------------*)
(* The weights (get) and lbb                                               *)
(*-------------------------------------------------------------------------*)

(* The factors of the weights of corner a (0 for dos_two's column or row, *)
(* 1 for dos_thr's) at t = T/R, numerators over R^3: c00 = H(0, T) *       *)
(* H(0, U) is four_times_1px_times_1py * xm1over2sq_times_ym1over2sq,       *)
(* c10dx = Hd(1, T) * H(0, U) is twice_xm1over2_times_1py *                *)
(* xp1over2sq_times_ym1over2sq, and so on for all sixteen.                 *)
H(a, T) == IF a = 0 THEN (R + 2 * T) * (T - R)^2 ELSE (3 * R - 2 * T) * T^2
Hd(a, T) == IF a = 0 THEN T * (T - R)^2 ELSE (T - R) * T^2

Corners == {0, 1} \X {0, 1}

LMin(x, y) == IF x <= y THEN x ELSE y
LMax(x, y) == IF x >= y THEN x ELSE y

(* The comparison network of lbb: min00 .. min11 and max00 .. max11, the   *)
(* least and greatest value of the 3x3 block around each corner.  m13 and  *)
(* M13 take dos_fou and qua_fou only, so the block of corner 11 (tre_thr)  *)
(* leaves tre_fou out: the comment says nohalo data makes that harmless.   *)
BlockMinMax(s) ==
  LET m1 == LMin(s[2][2], s[2][3])  M1 == LMax(s[2][2], s[2][3])
      m2 == LMin(s[3][2], s[3][3])  M2 == LMax(s[3][2], s[3][3])
      m4 == LMin(s[4][2], s[4][3])  M4 == LMax(s[4][2], s[4][3])
      m3 == LMin(s[1][2], s[1][3])  M3 == LMax(s[1][2], s[1][3])
      m5 == LMin(m1, m2)            M5 == LMax(M1, M2)
      m6 == LMin(s[2][1], s[3][1])  M6 == LMax(s[2][1], s[3][1])
      m7 == LMin(s[2][4], s[3][4])  M7 == LMax(s[2][4], s[3][4])
      m13 == LMin(s[2][4], s[4][4]) M13 == LMax(s[2][4], s[4][4])
      m9 == LMin(m5, m4)            M9 == LMax(M5, M4)
      m11 == LMin(m6, s[4][1])      M11 == LMax(M6, s[4][1])
      m10 == LMin(m6, s[1][1])      M10 == LMax(M6, s[1][1])
      m8 == LMin(m5, m3)            M8 == LMax(M5, M3)
      m12 == LMin(m7, s[1][4])      M12 == LMax(M7, s[1][4])
  IN  [min |-> [c \in Corners |->
                  CASE c = <<0, 0>> -> LMin(m8, m10) [] c = <<1, 0>> -> LMin(m8, m12)
                    [] c = <<0, 1>> -> LMin(m9, m11) [] c = <<1, 1>> -> LMin(m9, m13)],
       max |-> [c \in Corners |->
                  CASE c = <<0, 0>> -> LMax(M8, M10) [] c = <<1, 0>> -> LMax(M8, M12)
                    [] c = <<0, 1>> -> LMax(M9, M11) [] c = <<1, 1>> -> LMax(M9, M13)]]

LSign(v) == IF v >= 0 THEN 1 ELSE -1
LAbs(v) == IF v >= 0 THEN v ELSE -v

(* Seeded fault for Clamp: the limiter skipped when the initial derivative *)
(* is negative (the test on dble_dzdx00i without the sign factor).         *)
ClampUnsigned(d, limit) == IF d <= limit THEN d ELSE LSign(d) * limit

(* Clamped first derivative: (sign * d <= limit) ? d : sign * limit.       *)
Clamp(d, limit) == IF LSign(d) * d <= limit THEN d ELSE LSign(d) * limit

(* The limited derivatives at corner <<a, b>>: twice dz/dx, twice dz/dy    *)
(* and four times d2z/dxdy after the four cross-derivative limiters.       *)
Derivs(s, mm, a, b) ==
  LET z   == s[2 + b][2 + a]
      u   == z - mm.min[<<a, b>>]
      v   == mm.max[<<a, b>>] - z
      lim == 6 * LMin(u, v)
      dx  == Clamp(s[2 + b][3 + a] - s[2 + b][1 + a], lim)
      dy  == Clamp(s[3 + b][2 + a] - s[1 + b][2 + a], lim)
      xy  == s[1 + b][1 + a] - s[1 + b][3 + a] + s[3 + b][3 + a] - s[3 + b][1 + a]
      sm  == LAbs(6 * (dx + dy))
      df  == LAbs(6 * (dx - dy))
  IN  [z |-> z, dx |-> dx, dy |-> dy,
       dxdy |-> LMin(LMax(LMin(LMax(xy, sm - 36 * u), 36 * v - sm), df - 36 * v), 36 * u - df)]

(* LbbDen * lbb(c00 .. c11dxdy, uno_one .. qua_fou): newval1 + .5 *       *)
(* newval2 + .25 * newval3.                                                *)
Lbb(s, T, U) ==
  LET mm == BlockMinMax(s)
      d == [c \in Corners |-> Derivs(s, mm, c[1], c[2])]
  IN  MapThenSumSet(LAMBDA c :
        4 * H(c[1], T) * H(c[2], U) * d[c].z
        + 2 * (Hd(c[1], T) * H(c[2], U) * d[c].dx + H(c[1], T) * Hd(c[2], U) * d[c].dy)
        + Hd(c[1], T) * Hd(c[2], U) * d[c].dxdy, Corners)

(*-------------------------------------------------------------------------*)
(* What the comments of lbb say of these values                           *)
(*-------------------------------------------------------------------------*)

Between(x, a, b) == (a <= x /\ x <= b) \/ (b <= x /\ x <= a)

StencilValues(s) == {s[j][i] : i, j \in 1..4}

(* The co-monotonicity lbb relies on (the comment above m1 .. M13), of    *)
(* the sixteen values s: dos_thr lies between dos_two and dos_fou, tre_two *)
(* between dos_two and qua_two, tre_fou between dos_fou and qua_fou,       *)
(* qua_thr between qua_two and qua_fou, and tre_thr between the least and  *)
(* the greatest of dos_two, dos_fou, qua_two and qua_fou.                  *)
CoMonotone(s) ==
  LET corners == {s[2][2], s[2][4], s[4][2], s[4][4]}
  IN  /\ Between(s[2][3], s[2][2], s[2][4])
      /\ Between(s[3][2], s[2][2], s[4][2])
      /\ Between(s[3][4], s[2][4], s[4][4])
      /\ Between(s[4][3], s[4][2], s[4][4])
      /\ Min(corners) <= s[3][3] /\ s[3][3] <= Max(corners)

(* Local boundedness (the comment at the top of lbb): LbbDen * value v     *)
(* lies between the least and the greatest of the sixteen values s.        *)
LocallyBounded(v, s) ==
  LbbDen * Min(StencilValues(s)) <= v /\ v <= LbbDen * Max(StencilValues(s))

====
