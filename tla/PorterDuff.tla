----------------------------- MODULE PorterDuff -----------------------------
(***************************************************************************)
(* The point-composer operations generated by                              *)
(* src/unnamed/part_000 (svg-12-porter-duff.rb) and                        *)
(* src/operations/generated/other-blend.rb.  Each generated file has two   *)
(* processors over premultiplied RaGaBaA pixels: the scalar process loop   *)
(* (colour formula per channel, alpha formula for alpha) and, with         *)
(* HAS_G4FLOAT, process_gegl4float (one vector formula on all four         *)
(* channels).  Both loops are modelled step by step.                       *)
(*                                                                         *)
(* A pixel is [c, a]: the three colour channels obey the same formula, so  *)
(* one stands for all.  Channel values are fractions k/D (k in 0..D);      *)
(* results of the formulas, which multiply two such values, are kept as    *)
(* exact numerators over D*D.  aA, cA belong to aux (source), aB, cB to    *)
(* input (destination).                                                    *)
(***************************************************************************)
EXTENDS Naturals, Sequences

CONSTANTS
  Ops,          \* operation names generated: "clear", "src", ..., "over"
  D,            \* denominator of input channel values
  MaxPixels,    \* largest n_pixels
  NULL,         \* model value: NULL buffer pointer
  Unset         \* model value: output pixel not written by the call

ASSUME D \in Nat \ {0} /\ MaxPixels \in Nat

VARIABLES
  op,           \* the generated operation
  n,            \* n_pixels
  inBuf,        \* in_buf: <<pixel, ...>> of length MaxPixels
  auxBuf,       \* aux_buf: like inBuf, or NULL
  out,          \* [1..MaxPixels -> pixel or Unset]: out_buf of process
  i,            \* loop counter of process
  done,         \* process has returned
  vOut,         \* out_buf of process_gegl4float
  vN,           \* n_pixels as decremented by while (--n_pixels)
  vPtr,         \* pixel index of the A, B, D pointers
  vState        \* "entry", "loop", "done" or "crash" (NULL dereference)

vars == <<op, n, inBuf, auxBuf, out, i, done, vOut, vN, vPtr, vState>>

Chan == 0..D
(* Premultiplied pixels: colour never above alpha.                         *)
Pixels == {p \in [c : Chan, a : Chan] : p.c <= p.a}
Bufs == [1..MaxPixels -> Pixels]
Result == 0..(2 * D * D)

(* other-blend.rb: "normal" and "over" are aliases of src-over, with the   *)
(* same scalar and vector formulas.                                        *)
SrcOverAliases == {"normal", "over"}

(*-------------------------------------------------------------------------*)
(* The formula table (array a of the generators): colour and alpha         *)
(* formulas of process, over D*D.                                          *)
(*-------------------------------------------------------------------------*)
ScalarColour(o, A, B) ==
  LET cA == A.c  aA == A.a  cB == B.c  aB == B.a IN
  CASE o = "clear"    -> 0
    [] o = "src"      -> cA * D
    [] o = "dst"      -> cB * D
    [] o \in ({"src_over"} \cup SrcOverAliases) -> cA * D + cB * (D - aA)
    [] o = "dst_over" -> cB * D + cA * (D - aB)
    [] o = "src_in"   -> cA * aB
    [] o = "dst_in"   -> cB * aA
    [] o = "src_out"  -> cA * (D - aB)
    [] o = "dst_out"  -> cB * (D - aA)
    [] o = "src_atop" -> cA * aB + cB * (D - aA)
    [] o = "dst_atop" -> cB * aA + cA * (D - aB)
    [] o = "xor"      -> cA * (D - aB) + cB * (D - aA)

(* Seeded fault for ScalarAlpha: src_atop keeps the source alpha.          *)
ScalarAlphaAtopSwapped(o, A, B) ==
  LET aA == A.a  aB == B.a IN
  CASE o \in {"clear"}                                -> 0
    [] o \in {"src", "dst_atop"}                      -> aA * D
    [] o \in {"dst"}                                  -> aB * D
    [] o \in ({"src_over", "dst_over"} \cup SrcOverAliases) -> aA * D + aB * D - aA * aB
    [] o \in {"src_in", "dst_in"}                     -> aA * aB
    [] o = "src_out"                                  -> aA * (D - aB)
    [] o = "dst_out"                                  -> aB * (D - aA)
    [] o = "src_atop"                                 -> aA * D
    [] o = "xor"                                      -> aA * D + aB * D - 2 * aA * aB

ScalarAlpha(o, A, B) ==
  LET aA == A.a  aB == B.a IN
  CASE o \in {"clear"}                                -> 0
    [] o \in {"src", "dst_atop"}                      -> aA * D
    [] o \in {"dst", "src_atop"}                      -> aB * D
    [] o \in ({"src_over", "dst_over"} \cup SrcOverAliases) -> aA * D + aB * D - aA * aB
    [] o \in {"src_in", "dst_in"}                     -> aA * aB
    [] o = "src_out"                                  -> aA * (D - aB)
    [] o = "dst_out"                                  -> aB * (D - aA)
    [] o = "xor"                                      -> aA * D + aB * D - 2 * aA * aB

(* The sse_formula column, applied to a whole g4float: X is the channel    *)
(* ("c" or "a") being computed; A is *A (aux), B is *B (input).            *)
VectorChan(o, X, A, B) ==
  CASE o = "clear"    -> 0
    [] o = "src"      -> A[X] * D
    [] o = "dst"      -> B[X] * D
    [] o \in ({"src_over"} \cup SrcOverAliases) -> A[X] * D + B[X] * (D - A.a)
    [] o = "dst_over" -> B[X] * D + A[X] * (D - B.a)
    [] o = "src_in"   -> A[X] * B.a
    [] o = "dst_in"   -> B[X] * A.a
    [] o = "src_out"  -> A[X] * (D - B.a)
    [] o = "dst_out"  -> B[X] * (D - A.a)
    [] o = "src_atop" -> A[X] * B.a + B[X] * (D - A.a)
    [] o = "dst_atop" -> B[X] * A.a + A[X] * (D - B.a)
    [] o = "xor"      -> A[X] * B[X]

(* src_atop and dst_atop then overwrite the alpha channel:                 *)
(* alpha of D := alpha of B (resp. A).                                 *)
VectorPixel(o, A, B) ==
  [c |-> VectorChan(o, "c", A, B),
   a |-> CASE o = "src_atop" -> B.a * D
           [] o = "dst_atop" -> A.a * D
           [] OTHER          -> VectorChan(o, "a", A, B)]

ScalarPixel(o, A, B) == [c |-> ScalarColour(o, A, B), a |-> ScalarAlpha(o, A, B)]

(*-------------------------------------------------------------------------*)
(* process: if (aux == NULL) return TRUE; then for i in 0..n_pixels-1      *)
(* out[i] = formulas of in[i] and aux[i].                                  *)
(*-------------------------------------------------------------------------*)
(* Seeded fault for InLoop: i <= n_pixels.                                *)
InLoopInclusive == i <= n

(* The test of for (i = 0; i < n_pixels; i++).                             *)
InLoop == i < n

ProcessReturn ==
  /\ ~done
  /\ auxBuf = NULL \/ ~InLoop
  /\ done' = TRUE
  /\ UNCHANGED <<op, n, inBuf, auxBuf, out, i, vOut, vN, vPtr, vState>>

ProcessPixel ==
  /\ ~done
  /\ auxBuf # NULL
  /\ InLoop
  /\ out' = [out EXCEPT ![i + 1] = ScalarPixel(op, auxBuf[i + 1], inBuf[i + 1])]
  /\ i' = i + 1
  /\ UNCHANGED <<op, n, inBuf, auxBuf, done, vOut, vN, vPtr, vState>>

(*-------------------------------------------------------------------------*)
(* process_gegl4float: if (B == NULL || n_pixels == 0) return TRUE;        *)
(* while (--n_pixels) { formula; A++; B++; D++; }                          *)
(* in_buf is never NULL here, so only n_pixels == 0 returns early.         *)
(*-------------------------------------------------------------------------*)
VectorEntry ==
  /\ vState = "entry"
  /\ vState' = IF n = 0 THEN "done" ELSE "loop"
  /\ vN' = n
  /\ UNCHANGED <<op, n, inBuf, auxBuf, out, i, done, vOut, vPtr>>

VectorStep ==
  /\ vState = "loop"
  /\ vN' = vN - 1
  /\ IF vN - 1 = 0
     THEN /\ vState' = "done"
          /\ UNCHANGED <<vOut, vPtr>>
     ELSE IF auxBuf = NULL
     THEN /\ vState' = "crash"
          /\ UNCHANGED <<vOut, vPtr>>
     ELSE /\ vOut' = [vOut EXCEPT ![vPtr] = VectorPixel(op, auxBuf[vPtr], inBuf[vPtr])]
          /\ vPtr' = vPtr + 1
          /\ UNCHANGED vState
  /\ UNCHANGED <<op, n, inBuf, auxBuf, out, i, done>>

PDInit ==
  /\ op \in Ops
  /\ n \in 0..MaxPixels
  /\ inBuf \in Bufs
  /\ auxBuf \in Bufs \cup {NULL}
  /\ out = [k \in 1..MaxPixels |-> Unset]
  /\ i = 0
  /\ done = FALSE
  /\ vOut = [k \in 1..MaxPixels |-> Unset]
  /\ vN = 0
  /\ vPtr = 1
  /\ vState = "entry"

PDNext ==
  \/ ProcessReturn
  \/ ProcessPixel
  \/ VectorEntry
  \/ VectorStep

PDSpec == PDInit /\ [][PDNext]_vars

(*-------------------------------------------------------------------------*)
(* Properties                                                              *)
(*-------------------------------------------------------------------------*)

PDTypeOK ==
  /\ op \in Ops
  /\ n \in 0..MaxPixels
  /\ out \in [1..MaxPixels -> [c : Result, a : Result] \cup {Unset}]
  /\ i \in 0..MaxPixels
  /\ vOut \in [1..MaxPixels -> [c : Result, a : Result] \cup {Unset}]
  /\ vPtr \in 1..(MaxPixels + 1)
  /\ vState \in {"entry", "loop", "done", "crash"}

(* SVG 1.2 comp-op (the reference the generator cites): Sca, Sa are aux,  *)
(* Dca, Da input; all over D*D.  normal and over are src-over.             *)
SvgColour(o, S, Dst) ==
  CASE o = "clear"    -> 0
    [] o = "src"      -> S.c * D
    [] o = "dst"      -> Dst.c * D
    [] o \in {"src_over", "normal", "over"} -> S.c * D + Dst.c * (D - S.a)
    [] o = "dst_over" -> Dst.c * D + S.c * (D - Dst.a)
    [] o = "src_in"   -> S.c * Dst.a
    [] o = "dst_in"   -> Dst.c * S.a
    [] o = "src_out"  -> S.c * (D - Dst.a)
    [] o = "dst_out"  -> Dst.c * (D - S.a)
    [] o = "src_atop" -> S.c * Dst.a + Dst.c * (D - S.a)
    [] o = "dst_atop" -> Dst.c * S.a + S.c * (D - Dst.a)
    [] o = "xor"      -> S.c * (D - Dst.a) + Dst.c * (D - S.a)

SvgAlpha(o, S, Dst) ==
  CASE o = "clear"    -> 0
    [] o \in {"src", "dst_atop"} -> S.a * D
    [] o \in {"dst", "src_atop"} -> Dst.a * D
    [] o \in {"src_in", "dst_in"} -> S.a * Dst.a
    [] o = "src_out"  -> S.a * (D - Dst.a)
    [] o = "dst_out"  -> Dst.a * (D - S.a)
    [] o = "xor"      -> S.a * D + Dst.a * D - 2 * S.a * Dst.a
    [] OTHER          -> S.a * D + Dst.a * D - S.a * Dst.a

(* The scalar processor computes the SVG 1.2 compositing operator it is    *)
(* named after on every pixel it writes, and its result is a valid         *)
(* premultiplied pixel (this also settles the "XXX: typo?" on dst_in).     *)
ScalarMatchesSvg ==
  \A k \in 1..MaxPixels :
    out[k] # Unset =>
      /\ out[k].c = SvgColour(op, auxBuf[k], inBuf[k])
      /\ out[k].a = SvgAlpha(op, auxBuf[k], inBuf[k])
      /\ out[k].c <= out[k].a

(* The SIMD processor writes every one of the n_pixels pixels the scalar   *)
(* processor writes.                                                       *)
VectorCoversAllPixels ==
  (done /\ vState = "done") =>
    \A k \in 1..MaxPixels : out[k] # Unset => vOut[k] # Unset

(* On the pixels it writes, the SIMD processor computes what the scalar    *)
(* processor computes.                                                     *)
VectorAgreesWithScalar ==
  (done /\ vState = "done") =>
    \A k \in 1..MaxPixels :
      (out[k] # Unset /\ vOut[k] # Unset) => vOut[k] = out[k]

(* The SIMD processor never dereferences a NULL aux buffer (process        *)
(* checks aux == NULL; process_gegl4float checks only B).                  *)
VectorNoNullAux == vState # "crash"

=============================================================================
