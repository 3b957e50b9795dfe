------------------------------ MODULE MCLohalo ------------------------------
EXTENDS Lohalo

(* Quarter-pixel positions in [-2, 2]: both signs, the half-integer        *)
(* discontinuities of the anchor and the negative integers where           *)
(* LOHALO_FAST_PSEUDO_FLOOR differs from floor.                            *)
MCCoords == -8..8

(* Singular values 1/2, 1, 3/2, 2, 3 (numerators over JDen = 10):         *)
(* upsampling, the FUDGE boundary at 1, ellipses that fit the 5x5 stencil  *)
(* and ones that do not.                                                   *)
MCSigmas == {5, 10, 15, 20, 30}

(* Jinv = U * diag(s1, s2), U the identity or the rotation by an angle     *)
(* with cosine and sine in {3/5, 4/5} (both signs), as [ja, jb, jc, jd].   *)
MCRotations == {<<3, 4>>, <<4, 3>>, <<3, -4>>, <<4, -3>>}
MCJinvs ==
  {<<s1, 0, 0, s2>> : s1, s2 \in MCSigmas}
  \cup {<<(r[1] * s1) \div 5, -(r[2] * s2) \div 5, (r[2] * s1) \div 5, (r[1] * s2) \div 5>> :
         r \in MCRotations, s1, s2 \in MCSigmas}

(* Every square root the code takes on these is of a perfect square.       *)
ASSUME \A j \in MCJinvs :
  LET n11 == j[1] * j[1] + j[2] * j[2]
      n22 == j[3] * j[3] + j[4] * j[4]
      det2 == 2 * (j[1] * j[4] - j[2] * j[3])
      disc == (n11 + n22 + det2) * (n11 + n22 - det2)
      e == Ellipse(j[1], j[2], j[3], j[4])
  IN  /\ ISqrt(disc) * ISqrt(disc) = disc
      /\ e.u.x * e.u.x + e.u.y * e.u.y = e.u.n * e.u.n

(* A diagonal step edge, not symmetric under the reflections the code's   *)
(* shifts make, so the reflection is exercised on every position.          *)
MCEdge == [o \in Window |-> LET d == 2 * o[1] + o[2]
                            IN  IF d > 0 THEN 2 ELSE IF d = 0 THEN 1 ELSE 0]

(* Every position and Jinv of the MC sets.                                *)
MCGeometries ==
  {[ax |-> x, ay |-> y, ja |-> j[1], jb |-> j[2], jc |-> j[3], jd |-> j[4]] :
     x \in MCCoords, y \in MCCoords, j \in MCJinvs}

(* The pixel family: the 2x2 pixels around the patch take every value of  *)
(* 0..2, the other cells nohalo_subdivision reads 0 or 2, the rest 1.      *)
MCInner == (0..1) \X (0..1)
MCNear == ((((-1)..2) \X ((-1)..2)) \cap K!Stencil) \ MCInner
MCPixels ==
  {[o \in Window |-> IF o \in MCInner THEN f[o] ELSE IF o \in MCNear THEN g[o] ELSE 1] :
     f \in [MCInner -> 0..2], g \in [MCNear -> {0, 2}]}

(* Two calls at (1/4, -1/4) that take the blend branch: Jinv =             *)
(* diag(2, 3/2) and the same singular values rotated by (3/5, 4/5).        *)
MCBlendGeometries ==
  {[ax |-> 1, ay |-> -1, ja |-> 20, jb |-> 0, jc |-> 0, jd |-> 15],
   [ax |-> 1, ay |-> -1, ja |-> 12, jb |-> -12, jc |-> 16, jd |-> 9]}

(* Their pixel family: every 0/2 pattern on the 3x3 around the anchor,     *)
(* the rest of the 5x5, which only the EWA reads in full, one of 0..2.     *)
MCCentre == (-1..1) \X (-1..1)
MCBlendPixels ==
  {[o \in Window |-> IF o \in MCCentre THEN f[o] ELSE c] :
     f \in [MCCentre -> {0, 2}], c \in 0..2}

(* Every geometry reads the edge.  Upsampling (Jinv = I) at (1/4, 1/4),    *)
(* where lbb runs at (2|x0|, 2|y0|) = (1/2, 1/2) and every Hermite factor  *)
(* of the four corners is nonzero, also reads every window of the family;  *)
(* the blend calls read theirs.                                            *)
MCWindows(g) ==
  CASE g = [ax |-> 1, ay |-> 1, ja |-> JDen, jb |-> 0, jc |-> 0, jd |-> JDen] -> MCPixels \cup {MCEdge}
    [] g \in MCBlendGeometries -> MCBlendPixels \cup {MCEdge}
    [] OTHER -> {MCEdge}

(* The geometric calls only.                                               *)
MCEdgeOnly(g) == {MCEdge}

=============================================================================
