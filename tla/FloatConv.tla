----------------------------- MODULE FloatConv -----------------------------
(***************************************************************************)
(* The float side of the kernels of polyvoice-kernels: the matrix product  *)
(* of gemm.rs, the im2col convolution of conv.rs built on it, the virtual  *)
(* im2col that rten_matmul.rs hands to the rten crate, and the unrolled     *)
(* loops of the element-wise kernels.                                      *)
(*                                                                         *)
(* Only addresses are modelled.  What a buffer holds is the address its     *)
(* value was copied from, Zero (zero or the zero point), or Stale for what   *)
(* an earlier call left in a thread's buffer.  What an output holds is the   *)
(* set of products summed into it.  Everything is a function of its input,   *)
(* so there are no variables.                                              *)
(***************************************************************************)
EXTENDS Integers, FiniteSets, Sequences

Size(n) == 0 .. n - 1

-----------------------------------------------------------------------------
(* gemm.rs: C[m,n] = A[m,k] B[k,n] + a starting value.                      *)

(* rten_worth_it. *)
RtenWorthIt(m, n, k) == n >= 64 /\ k >= 32 /\ m * n * k >= 8 * 64 * 32

(* accel_worth_it. *)
AccelWorthIt(m, n, k) == m * n * k >= 32 * 64 * 32

(* gemm_bias, gemm_bias_row, gemm_add: which kernel computes the product.    *)
GemmKernel(g) ==
  LET fitsRten == g.build # "apple" /\ RtenWorthIt(g.m, g.n, g.k)
      fitsBlas == /\ g.build \in {"apple", "cblas"} /\ AccelWorthIt(g.m, g.n, g.k)
                  /\ ~(g.op = "add" /\ g.build = "cblas" /\ g.m < 128)
  IN CASE fitsRten /\ g.rten -> "rten"
       [] ~(fitsRten /\ g.rten) /\ fitsBlas -> "blas"
       [] OTHER -> IF g.op = "colbias" \/ g.n < 8 \/ g.m < 2 THEN "saxpy" ELSE "blocked"

Rect(m0, mr, n0, nr) == [m0 |-> m0, mr |-> mr, n0 |-> n0, nr |-> nr]

\* Mutant: the last rows stop where the blocks of eight columns stop.
BlockedRectsShort(m, n) ==
  LET cols == {<<8 * j, 8>> : j \in Size(n \div 8)}
              \cup (IF n % 8 > 0 THEN {<<n - (n % 8), n % 8>>} ELSE {})
  IN {Rect(4 * i, 4, c[1], c[2]) : i \in Size(m \div 4), c \in cols}
     \cup (IF m % 4 > 0 THEN {Rect(m - (m % 4), m % 4, 0, n - (n % 8))} ELSE {})

(* gemm_rowbias_blocked, gemm_add_blocked: rows by eight, at most one block   *)
(* of four, then the rest; columns by eight with a tail, except that the last *)
(* rows take the whole width.                                                *)
BlockedRects(m, n) ==
  LET rows == {<<8 * i, 8>> : i \in Size(m \div 8)}
              \cup (IF m % 8 >= 4 THEN {<<m - (m % 8), 4>>} ELSE {})
      cols == {<<8 * j, 8>> : j \in Size(n \div 8)}
              \cup (IF n % 8 > 0 THEN {<<n - (n % 8), n % 8>>} ELSE {})
  IN {Rect(r[1], r[2], c[1], c[2]) : r \in rows, c \in cols}
     \cup (IF m % 4 > 0 THEN {Rect(m - (m % 4), m % 4, 0, n)} ELSE {})

(* neon_rowbias_8x8, neon_rowbias_4x8, neon_add_8x8, neon_add_4x8: one        *)
(* register holds four columns of one row; other rectangles are not split.    *)
NeonRegisters(r) ==
  IF r.nr # 8 \/ r.mr \notin {4, 8} THEN {r}
  ELSE LET Four(m0) == {Rect(m0 + i, 1, r.n0 + 4 * h, 4) : i \in 0 .. 3, h \in 0 .. 1}
       IN IF r.mr = 4 THEN Four(r.m0) ELSE Four(r.m0) \cup Four(r.m0 + 4)

(* kernel_rowbias, kernel_rowbias_tail, kernel_add, kernel_add_tail and the   *)
(* rows of saxpy: one product per element of the rectangle and p.             *)
RectTerms(r, n, k) ==
  {[piece |-> r, c |-> (r.m0 + i) * n + r.n0 + j, p |-> p,
    a |-> (r.m0 + i) * k + p, b |-> p * n + r.n0 + j] :
     i \in Size(r.mr), j \in Size(r.nr), p \in Size(k)}

Pieces(g) ==
  CASE GemmKernel(g) = "saxpy" -> {Rect(i, 1, 0, g.n) : i \in Size(g.m)}
    [] GemmKernel(g) = "blocked" ->
         IF g.neon THEN UNION {NeonRegisters(r) : r \in BlockedRects(g.m, g.n)}
         ELSE BlockedRects(g.m, g.n)
    [] OTHER -> {Rect(0, g.m, 0, g.n)}

\* What an element starts from: its row's bias, its column's, or itself.
Start(g, r, i, j) ==
  CASE g.op = "rowbias" -> r.m0 + i [] g.op = "colbias" -> r.n0 + j
    [] OTHER -> (r.m0 + i) * g.n + r.n0 + j

Starts(g) ==
  UNION {{[piece |-> r, c |-> (r.m0 + i) * g.n + r.n0 + j, from |-> Start(g, r, i, j)] :
            i \in Size(r.mr), j \in Size(r.nr)} : r \in Pieces(g)}

-----------------------------------------------------------------------------
(* conv.rs: the convolution as a product with an im2col matrix.              *)

OutH(s) == (s.h + 2 * s.pad - s.k) \div s.stride + 1
OutW(s) == (s.w + 2 * s.pad - s.k) \div s.stride + 1
Spatial(s) == OutH(s) * OutW(s)
KCol(s) == s.ic * s.k * s.k
IsPlain1x1(s) == s.k = 1 /\ s.pad = 0 /\ s.stride = 1
IsIdentity3x3(s) == s.k = 3 /\ s.pad = 1 /\ s.stride = 1

Zero == -1
Stale == -2

(* Tensor::idx. *)
Idx(s, ni, ic, y, x) == ((ni * s.ic + ic) * s.h + y) * s.w + x

Store(at, value) == [at |-> at, value |-> value]

\* A buffer after some stores, none of which may hit the same place twice.
Filled(len, base, stores) ==
  [a \in Size(len) |->
     LET here == {w \in stores : w.at = a}
     IN IF here = {} THEN base ELSE IF Cardinality(here) = 1 THEN (CHOOSE w \in here : TRUE).value ELSE Stale]

(* im2col_3x3_s1_p1: every row of the image is copied, shifted by one to      *)
(* either side, and the column that falls outside is zeroed.                  *)
Im2col3x3(s, ni, pack, off) ==
  {LET iy == oy + kh - 1
       src == CASE kw = 0 -> x - 1 [] kw = 1 -> x [] OTHER -> x + 1
   IN Store((ic * 9 + kh * 3 + kw) * pack + off + oy * s.w + x,
            IF iy < 0 \/ iy >= s.h \/ (kw = 0 /\ x = 0) \/ (kw = 2 /\ x = s.w - 1)
            THEN Zero ELSE Idx(s, ni, ic, iy, src)) :
     ic \in Size(s.ic), kh \in 0 .. 2, kw \in 0 .. 2, oy \in Size(s.h), x \in Size(s.w)}

(* im2col_into: only the taps inside the image are stored.                    *)
Im2colInto(s, ni, pack, off) ==
  {Store((t.ic * s.k * s.k + t.kh * s.k + t.kw) * pack + off + t.oy * OutW(s) + t.ox,
         Idx(s, ni, t.ic, t.kh - s.pad + t.oy * s.stride, t.kw - s.pad + t.ox * s.stride)) :
     t \in {t \in [ic : Size(s.ic), kh : Size(s.k), kw : Size(s.k), oy : Size(OutH(s)), ox : Size(OutW(s))] :
              /\ t.kh - s.pad + t.oy * s.stride \in Size(s.h)
              /\ t.kw - s.pad + t.ox * s.stride \in Size(s.w)}}

(* pack_nchw_to_ckn. *)
PackNchwToCkn(s) ==
  {Store(ic * s.n * Spatial(s) + ni * Spatial(s) + p,
         ni * s.ic * Spatial(s) + ic * Spatial(s) + p) :
     ni \in Size(s.n), ic \in Size(s.ic), p \in Size(Spatial(s))}

(* forward_with_weight: what the column buffer holds for the whole batch; the *)
(* thread's buffer is cleared only before im2col_into, or before any im2col   *)
(* of a batch.                                                               *)
Columns(s) ==
  LET pack == s.n * Spatial(s)
      len == KCol(s) * pack
      Image(ni) == IF IsIdentity3x3(s) THEN Im2col3x3(s, ni, pack, ni * Spatial(s))
                   ELSE Im2colInto(s, ni, pack, ni * Spatial(s))
      cleared == s.n > 1 \/ ~IsIdentity3x3(s)
  IN CASE s.n = 1 /\ IsPlain1x1(s) -> [a \in Size(len) |-> a]
       [] s.n > 1 /\ IsPlain1x1(s) -> Filled(len, Stale, PackNchwToCkn(s))
       [] OTHER -> Filled(len, IF cleared THEN Zero ELSE Stale, UNION {Image(ni) : ni \in Size(s.n)})

\* The product: element (o, p) is weight row o with column p.
Product(s) ==
  LET pack == s.n * Spatial(s)
      col == Columns(s)
  IN [a \in Size(s.oc * pack) |-> <<a \div pack, [kk \in Size(KCol(s)) |-> col[kk * pack + (a % pack)]]>>]

(* unpack_ckn_to_nchw; a single image is already in place.                    *)
UnpackCknToNchw(s) ==
  LET gemm == Product(s)
      pack == s.n * Spatial(s)
  IN Filled(s.n * s.oc * Spatial(s), Stale,
            {Store(ni * s.oc * Spatial(s) + o * Spatial(s) + p, gemm[o * pack + ni * Spatial(s) + p]) :
               ni \in Size(s.n), o \in Size(s.oc), p \in Size(Spatial(s))})

(* forward_with_weight. *)
ForwardWithWeight(s) == IF s.n = 1 THEN Product(s) ELSE UnpackCknToNchw(s)

-----------------------------------------------------------------------------
(* rten_matmul.rs: the same convolution with the patches left to rten.        *)

(* copy_nchw_pad, after padded.fill(zp). *)
CopyNchwPad(s, ni) ==
  LET hp == s.h + 2 * s.pad
      wp == s.w + 2 * s.pad
  IN Filled(s.ic * hp * wp, Zero,
            {Store(ch * hp * wp + (y + s.pad) * wp + s.pad + x, Idx(s, ni, ch, y, x)) :
               ch \in Size(s.ic), y \in Size(s.h), x \in Size(s.w)})

(* fill_im2col_offsets: channel, row and column offsets of row r of the       *)
(* patch matrix, and row and column offsets of its column c; the padding of    *)
(* both is never asked for.                                                  *)
RowOffsets(s, r) ==
  LET wp == s.w + 2 * s.pad
  IN [c |-> (r \div (s.k * s.k)) * (s.h + 2 * s.pad) * wp,
      y |-> ((r \div s.k) % s.k) * wp, x |-> r % s.k]
ColOffsets(s, c) ==
  [y |-> (c \div OutW(s)) * s.stride * (s.w + 2 * s.pad), x |-> (c % OutW(s)) * s.stride]

\* rten's Im2Col: the sum of the offsets, or nothing past the last row or column.
Im2ColElement(s, padded, r, c) ==
  LET wp == s.w + 2 * s.pad
      y == RowOffsets(s, r).y + ColOffsets(s, c).y
      x == RowOffsets(s, r).x + ColOffsets(s, c).x
  IN IF y > (s.h + 2 * s.pad - 1) * wp \/ x > wp - 1 THEN Zero ELSE padded[RowOffsets(s, r).c + y + x]

(* run_i8_conv, dequant_nchw: image by image into the output.                *)
RunI8Conv(s) ==
  LET padded == [ni \in Size(s.n) |-> CopyNchwPad(s, ni)]
  IN Filled(s.n * s.oc * Spatial(s), Stale,
            {Store(ni * s.oc * Spatial(s) + o * Spatial(s) + p,
                   <<o, [kk \in Size(KCol(s)) |-> Im2ColElement(s, padded[ni], kk, p)]>>) :
               ni \in Size(s.n), o \in Size(s.oc), p \in Size(Spatial(s))})

(* gemm_u8i8_nk: the weights are turned to [k, n] for rten; scale and zero      *)
(* point of a column are its own when there is one for each.                  *)
TransposeNk(n, k) == Filled(k * n, Stale, {Store(ki * n + ni, ni * k + ki) : ni \in Size(n), ki \in Size(k)})
ColumnParam(len, n, ni) == IF len = n THEN ni ELSE 0

-----------------------------------------------------------------------------
(* Unrolled loops.  A step advances by w and touches len elements from each    *)
(* place in at; a loop is its steps from the widest to the last.              *)

Step(w, at, len) == [w |-> w, at |-> at, len |-> len]
One == Step(1, {0}, 1)

(* saxpy; dot; stats_row_neon, both passes.                                   *)
SaxpyLoop == <<Step(8, 0 .. 7, 1), One>>
DotLoop == <<Step(4, 0 .. 3, 1), One>>
StatsRowLoop == <<Step(32, {4 * i : i \in 0 .. 7}, 4), Step(16, {0, 4, 8, 12}, 4), Step(4, {0}, 4), One>>

(* neon_relu, neon_relu_quantize, neon_add_relu, neon_add_relu_quantize,       *)
(* neon_fake_quant; avx512_relu_quantize_inner; quant_u8_neon.                 *)
NeonLoop == <<Step(4, {0}, 4), One>>
Avx512Loop == <<Step(16, {0}, 16), One>>
QuantU8Loop == <<Step(16, {0, 4, 8, 12}, 4), One>>

(* dequant_acc: the vector loop has no tail and is taken only without one.     *)
DequantAccLoop(n) == IF n % 4 = 0 /\ n > 0 THEN <<Step(4, {0}, 4)>> ELSE <<One>>

Loops(n) == {SaxpyLoop, DotLoop, StatsRowLoop, NeonLoop, Avx512Loop, QuantU8Loop, DequantAccLoop(n)}

\* Where each step of a loop over n elements starts.
StepStarts(loop, n) ==
  LET From[i \in 1 .. Len(loop) + 1] ==
        IF i = 1 THEN 0 ELSE From[i - 1] + ((n - From[i - 1]) \div loop[i - 1].w) * loop[i - 1].w
      Fits(i) == {j \in Size(n + 1) : From[i] + (j + 1) * loop[i].w <= n}
  IN UNION {{[step |-> i, start |-> From[i] + j * loop[i].w] : j \in Fits(i)} : i \in 1 .. Len(loop)}

\* Every touch of an element, with the step that made it.
Touches(loop, n) ==
  UNION {{<<t.start + a + e, t, a>> : a \in loop[t.step].at, e \in Size(loop[t.step].len)} :
           t \in StepStarts(loop, n)}

-----------------------------------------------------------------------------

\* Every element of the product starts from its own bias or value once, and
\* each p adds its own A and B once: no block of gemm.rs overlaps another, and
\* none of the tails is skipped.
ProductIsExact(g) ==
  /\ Cardinality(Starts(g)) = g.m * g.n
  /\ {[c |-> s.c, from |-> s.from] : s \in Starts(g)}
     = {[c |-> i * g.n + j,
         from |-> CASE g.op = "rowbias" -> i [] g.op = "colbias" -> j [] OTHER -> i * g.n + j] :
          i \in Size(g.m), j \in Size(g.n)}
  /\ LET terms == UNION {RectTerms(r, g.n, g.k) : r \in Pieces(g)}
     IN /\ Cardinality(terms) = g.m * g.n * g.k
        /\ {[c |-> t.c, p |-> t.p, a |-> t.a, b |-> t.b] : t \in terms}
           = {[c |-> i * g.n + j, p |-> p, a |-> i * g.k + p, b |-> p * g.n + j] :
                i \in Size(g.m), j \in Size(g.n), p \in Size(g.k)}

\* The definition of a convolution, as addresses.
Convolution(s) ==
  [a \in Size(s.n * s.oc * Spatial(s)) |->
     LET ox == a % OutW(s)
         oy == (a \div OutW(s)) % OutH(s)
         o == (a \div Spatial(s)) % s.oc
         ni == a \div (s.oc * Spatial(s))
     IN <<o, [kk \in Size(KCol(s)) |->
                LET y == oy * s.stride + ((kk \div s.k) % s.k) - s.pad
                    x == ox * s.stride + (kk % s.k) - s.pad
                IN IF y \in Size(s.h) /\ x \in Size(s.w)
                   THEN Idx(s, ni, kk \div (s.k * s.k), y, x) ELSE Zero]>>]

\* im2col with the product, and rten's virtual im2col, are the convolution:
\* nothing an earlier call left in the thread's buffers is ever read, borders
\* are padding, and the images of a batch stay apart.
ConvolutionsAgree(s) ==
  /\ ForwardWithWeight(s) = Convolution(s)
  /\ RunI8Conv(s) = Convolution(s)
  /\ TransposeNk(s.oc, KCol(s)) = [a \in Size(KCol(s) * s.oc) |-> (a % s.oc) * KCol(s) + a \div s.oc]

\* An unrolled loop touches each element exactly once and none past the end.
LoopsTouchOnce(n) ==
  \A loop \in Loops(n) :
    /\ Cardinality(Touches(loop, n)) = n
    /\ {t[1] : t \in Touches(loop, n)} = Size(n)
=============================================================================
