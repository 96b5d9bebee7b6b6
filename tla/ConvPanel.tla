------------------------------ MODULE ConvPanel ------------------------------
(***************************************************************************)
(* The inner kernels of polyvoice-kernels.                                 *)
(*                                                                         *)
(* Panels (conv_i8/gemm.rs): how a panel of activations is interleaved for *)
(* the dot-product instructions, and what each lane of each kernel          *)
(* accumulates.  A byte is named by where it comes from: <<k, n>> is tap k *)
(* of pixel n of the panel, <<oc, k>> tap k of weight row oc.  A sum is the *)
(* set of the products added to it: the instructions are exact, the code's  *)
(* reason for requiring them.                                              *)
(*                                                                         *)
(* Quantizers (conv_i8/gemm.rs, quant.rs, dispatch.rs, tensor.rs,           *)
(* resnet34.rs): every place that puts a float on an int8 lattice, in       *)
(* scalar, NEON and AVX-512 code.  A float is v/D steps of the lattice, so  *)
(* the scale drops out; z is the zero point.  It has P bits of significand, *)
(* and D is such that the floats about one half of a step are whole; sums   *)
(* of floats are rounded.                                                  *)
(***************************************************************************)
EXTENDS Integers, Sequences

CONSTANT P  \* bits of a float's significand, at least nine (24 of an f32)

D == 2 ^ (P + 1)  \* parts of a step

LOCAL Below(n) == 0 .. n - 1

\* A vector register is a function from its bytes to what they hold.
Load(from, size, Byte(_)) == [j \in Below(size) |-> Byte(from + j)]

\* The KN panel gather_kn_from_rows leaves: byte k * pn + n.
KnByte(pn, at) == <<at \div pn, at % pn>>

-----------------------------------------------------------------------------
(* The zipped panel: groups of four taps, then tiles of 16 pixels, then four *)
(* adjacent taps of each pixel.                                              *)

\* Mutant: the tiles of a tap group are taken for groups.
PackKnZip16ByTile(kPad, pn) ==
  [at \in Below(4 * pn * (kPad \div 4)) |->
     KnByte(pn, (4 * ((at \div 64) % (kPad \div 4)) + (at % 4)) * pn + (at % 64) \div 4)]

(* pack_kn_zip16 on x86_64: a byte of the panel for every k, n0, j. *)
PackKnZip16(kPad, pn) ==
  LET tiles == pn \div 16
      Group(at) == at \div (64 * tiles)
      Tile(at) == (at \div 64) % tiles
      Lane(at) == (at % 64) \div 4
  IN [at \in Below(64 * tiles * (kPad \div 4)) |->
        KnByte(pn, (4 * Group(at) + (at % 4)) * pn + 16 * Tile(at) + Lane(at))]

\* vzip1q_s8 / _mm_unpacklo_epi8 and their siblings: alternate the elements,
\* of width bytes each, of the low or of the high halves of two registers.
Interleave(a, b, width, half) ==
  [j \in Below(16) |->
     LET element == j \div width
         at == half * 8 + (element \div 2) * width + (j % width)
     IN IF element % 2 = 0 THEN a[at] ELSE b[at]]

\* Four rows of 16 pixels become four registers of four pixels by four taps.
Zip4(b) ==
  LET lo01 == Interleave(b[0], b[1], 1, 0)
      hi01 == Interleave(b[0], b[1], 1, 1)
      lo23 == Interleave(b[2], b[3], 1, 0)
      hi23 == Interleave(b[2], b[3], 1, 1)
  IN [i \in 0 .. 3 |->
        Interleave(IF i < 2 THEN lo01 ELSE hi01, IF i < 2 THEN lo23 ELSE hi23, 2, i % 2)]

\* The four registers of tap group k / 4 and pixels n0 .. n0 + 15, zipped.
ZippedRows(pn, k, n0) ==
  LET Byte(at) == KnByte(pn, at)
  IN Zip4([i \in 0 .. 3 |-> Load((k + i) * pn + n0, 16, Byte)])

(* pack_kn_zip16 on aarch64: the same panel by register interleaves. *)
PackKnZip16Neon(kPad, pn) ==
  LET tiles == pn \div 16
  IN [at \in Below(64 * tiles * (kPad \div 4)) |->
        LET block == at \div 64
        IN ZippedRows(pn, 4 * (block \div tiles), 16 * (block % tiles))
             [(at % 64) \div 16][at % 16]]

(* gather_zip_direct: the zipped panel straight from the packed rows; vst4q   *)
(* alternates the bytes of four registers.                                   *)
GatherZipDirect(kPad, pn) ==
  [at \in Below(kPad * pn) |->
     LET group == at \div (4 * pn)
         tile == (at % (4 * pn)) \div 64
         lane == at % 4
     IN <<4 * group + lane, 16 * tile + ((at % 64) \div 4)>>]

-----------------------------------------------------------------------------
(* The weights. *)

(* q_w_pad: rows of kPad bytes. *)
PaddedWeight(kPad, at) == <<at \div kPad, at % kPad>>

(* pack_w_4x4: four rows by four taps, row after row. *)
PackW4x4(oc, kPad) ==
  LET tilesK == kPad \div 4
  IN [at \in Below(oc * kPad) |->
        LET block == at \div 16
        IN PaddedWeight(kPad, (4 * (block \div tilesK) + ((at % 16) \div 4)) * kPad
                              + 4 * (block % tilesK) + (at % 4))]

\* Its condition; without it the four rows are copied from q_w_pad.
Has4x4(oc, kPad) == oc >= 4 /\ oc % 4 = 0 /\ kPad % 4 = 0

\* The 16 weight bytes of channels mo .. mo + 3 and taps k .. k + 3.
WeightTile(oc, kPad, mo, k) ==
  [j \in Below(16) |->
     IF Has4x4(oc, kPad)
     THEN PackW4x4(oc, kPad)[(mo \div 4) * (kPad \div 4) * 16 + (k \div 4) * 16 + j]
     ELSE PaddedWeight(kPad, (mo + (j \div 4)) * kPad + k + (j % 4))]

-----------------------------------------------------------------------------
(* The kernels: for channel mo + r and pixel n0 + j, the products summed. *)

\* Four byte products, as _mm512_dpbusd_epi32 and sdot add to one lane.
Dot4(x, xAt, w, wAt) == {<<w[wAt + i], x[xAt + i]>> : i \in 0 .. 3}

\* The tap groups of a kernel's loop.
TapGroups(kPad) == {k \in Below(kPad) : k % 4 = 0 /\ k + 4 <= kPad}

(* kernel_4x16_zip_store on x86_64: one 64-byte load is 16 pixels. *)
Kernel4x16Zip(oc, kPad, pn, mo, n0, zip) ==
  LET tilesN == pn \div 16
      tile == n0 \div 16
      Byte(at) == zip[at]
      Weight(at) == PaddedWeight(kPad, at)
      Group(k, r, j) ==
        Dot4(Load((k \div 4) * tilesN * 64 + tile * 64, 64, Byte), 4 * j,
             Load((mo + r) * kPad + k, 4, Weight), 0)
  IN [p \in (0 .. 3) \X Below(16) |-> UNION {Group(k, p[1], p[2]) : k \in TapGroups(kPad)}]

(* kernel_4x16_kn_store on x86_64: the interleave in registers, four of them *)
(* inserted into one.                                                        *)
Kernel4x16Kn(oc, kPad, pn, mo, n0) ==
  LET Weight(at) == PaddedWeight(kPad, at)
      Wide(k) == LET q == ZippedRows(pn, k, n0) IN [j \in Below(64) |-> q[j \div 16][j % 16]]
      Group(k, r, j) == Dot4(Wide(k), 4 * j, Load((mo + r) * kPad + k, 4, Weight), 0)
  IN [p \in (0 .. 3) \X Below(16) |-> UNION {Group(k, p[1], p[2]) : k \in TapGroups(kPad)}]

\* sdot by element: lane l of the sum takes four bytes of b at 4 l and the four
\* of a at 4 * lane.
SdotLane(b, a, lane, l) == Dot4(b, 4 * l, a, 4 * lane)

(* kernel_4x16_zip_store on aarch64: accumulator [r][i] holds the pixels 4 i .. 4 i + 3. *)
Kernel4x16ZipNeon(oc, kPad, pn, mo, n0, zip) ==
  LET tilesN == pn \div 16
      tile == n0 \div 16
      Byte(at) == zip[at]
      Panel(k, i) == Load((k \div 4) * tilesN * 64 + tile * 64 + 16 * i, 16, Byte)
      Group(k, r, j) == SdotLane(Panel(k, j \div 4), WeightTile(oc, kPad, mo, k), r, j % 4)
  IN [p \in (0 .. 3) \X Below(16) |-> UNION {Group(k, p[1], p[2]) : k \in TapGroups(kPad)}]

(* kernel_4x16_kn_store on aarch64. *)
Kernel4x16KnNeon(oc, kPad, pn, mo, n0) ==
  LET Group(k, r, j) ==
        SdotLane(ZippedRows(pn, k, n0)[j \div 4], WeightTile(oc, kPad, mo, k), r, j % 4)
  IN [p \in (0 .. 3) \X Below(16) |-> UNION {Group(k, p[1], p[2]) : k \in TapGroups(kPad)}]

(* transpose_kn_nk, then kernel_mxn / dot_i8 over the row of one pixel. *)
KernelMxn(kPad, pn, oc, t) ==
  LET nk == [at \in Below(kPad * pn) |-> KnByte(pn, (at % kPad) * pn + (at \div kPad))]
  IN {<<PaddedWeight(kPad, oc * kPad + k), nk[t * kPad + k]>> : k \in Below(kPad)}

-----------------------------------------------------------------------------
(* dot_i8_vnni: blocks of 64, blocks of 16, single bytes: the bytes each adds. *)

DotBlocks(n, from, size) ==
  {at \in Below(n) : at >= from /\ at < from + ((n - from) \div size) * size}

DotVnni(n) ==
  LET wide == DotBlocks(n, 0, 64)
      from16 == (n \div 64) * 64
      narrow == DotBlocks(n, from16, 16)
      from1 == from16 + ((n - from16) \div 16) * 16
  IN <<wide, narrow, DotBlocks(n, from1, 1)>>

\* dpbusd takes unsigned activations: a byte with its sign bit flipped is the
\* value plus 128, and 128 times the sum of the weights is taken off at the end.
UnsignedDot(a, b) ==
  LET n == Len(a)
      Sum[i \in 0 .. n] == IF i = 0 THEN 0 ELSE Sum[i - 1] + (a[i] + 128) * b[i]
      WeightSum[i \in 0 .. n] == IF i = 0 THEN 0 ELSE WeightSum[i - 1] + b[i]
  IN Sum[n] - 128 * WeightSum[n]

SignedDot(a, b) ==
  LET Sum[i \in 0 .. Len(a)] == IF i = 0 THEN 0 ELSE Sum[i - 1] + a[i] * b[i] IN Sum[Len(a)]

-----------------------------------------------------------------------------

\* Every way this code has of multiplying four channels by 16 pixels adds, for
\* each of the 64 results, each of its taps once, whatever the interleaving;
\* and the two packers and the direct gather write one and the same panel.
KernelsAgree(c) ==
  LET zip == PackKnZip16(c.kPad, c.pn)
      Want == [p \in (0 .. 3) \X Below(16) |->
                 {<<<<c.mo + p[1], k>>, <<k, c.n0 + p[2]>>>> : k \in Below(c.kPad)}]
  IN /\ PackKnZip16Neon(c.kPad, c.pn) = zip
     /\ GatherZipDirect(c.kPad, c.pn) = zip
     /\ Kernel4x16Zip(c.oc, c.kPad, c.pn, c.mo, c.n0, zip) = Want
     /\ Kernel4x16Kn(c.oc, c.kPad, c.pn, c.mo, c.n0) = Want
     /\ Kernel4x16ZipNeon(c.oc, c.kPad, c.pn, c.mo, c.n0, zip) = Want
     /\ Kernel4x16KnNeon(c.oc, c.kPad, c.pn, c.mo, c.n0) = Want
     /\ \A p \in DOMAIN Want : KernelMxn(c.kPad, c.pn, c.mo + p[1], c.n0 + p[2]) = Want[p]

\* The dot product of dot_i8_vnni covers every byte once and is the signed one.
DotIsExact(c) ==
  LET parts == DotVnni(c.n)
  IN /\ parts[1] \cup parts[2] \cup parts[3] = Below(c.n)
     /\ \A i, j \in 1 .. 3 : i # j => parts[i] \cap parts[j] = {}
     /\ \A a, b \in [1 .. 2 -> {-128, -1, 0, 127}] : UnsignedDot(a, b) = SignedDot(a, b)
-----------------------------------------------------------------------------
(* The quantizers.                                                         *)

Abs(v) == IF v < 0 THEN -v ELSE v
Signed(v, magnitude) == IF v < 0 THEN -magnitude ELSE magnitude
Bound(v, lo, hi) == IF v < lo THEN lo ELSE IF v > hi THEN hi ELSE v
Clamp8(q) == Bound(q, -128, 127)
Relu(v) == IF v > 0 THEN v ELSE 0

\* The distance of the floats of magnitude m.
Ulp(m) == LET k == CHOOSE k \in 0 .. P : m < 2 ^ (P + k) /\ (k = 0 \/ m >= 2 ^ (P + k - 1)) IN 2 ^ k
IsFloat(v) == v % Ulp(Abs(v)) = 0

\* The nearest float, of two the one whose significand is even.
NearestFloat(v) ==
  LET m == Abs(v)
      u == Ulp(m)
      down == m \div u
      up == 2 * (m % u) > u \/ (2 * (m % u) = u /\ down % 2 = 1)
  IN Signed(v, u * (IF up THEN down + 1 ELSE down))

FloatAdd(a, b) == NearestFloat(a + b)

\* f32::round and vrndaq_f32: to the nearest, halves away from zero.
Round(v) == Signed(v, (2 * Abs(v) + D) \div (2 * D))

\* Mutant: always half a step up.
RoundHalfUpAdj(v) == D \div 2

(* round_half_away_adj: half a step of v's sign. *)
RoundHalfAwayAdj(v) == Signed(v, D \div 2)

(* round_half_away_epi32: add it, which rounds, and cut. *)
RoundHalfAwayEpi32(v) ==
  LET sum == FloatAdd(v, RoundHalfAwayAdj(v)) IN Signed(sum, Abs(sum) \div D)

\* vqmovn_s32 and vqmovn_s16: narrow, saturating.
Narrow(q) == Bound(Bound(q, -32768, 32767), -128, 127)

(* quantize, and the tail of quantize_neon. *)
Quantize(v, z) == Clamp8(Round(v) + z)

(* quant4: the zero point is added and the bounds taken in float. *)
Quant4(v, z) == LET steps == Round(v) * D + z * D IN Bound(steps, -128 * D, 127 * D) \div D

(* store16_i8. *)
Store16I8(v, z) == Narrow(Quant4(v, z))

(* quantize_neon: sixteen values, then four, then one by one. *)
QuantizeNeon(vs, z) ==
  LET n == Len(vs)
      wide == 16 * (n \div 16)
      four == wide + 4 * ((n - wide) \div 4)
  IN [i \in 1 .. n |-> IF i <= wide THEN Store16I8(vs[i], z) ELSE IF i <= four THEN Quant4(vs[i], z)
                       ELSE Quantize(vs[i], z)]

(* I8Dest::store. *)
I8DestStore(v, z) == Clamp8(Round(v) + z)

(* store4_i8. *)
Store4I8(v, z) == Narrow(Quant4(v, z))

(* store16_out with a destination: the zero point added to integers. *)
Store16Out(v, z) == Narrow(Clamp8(RoundHalfAwayEpi32(v) + z))

(* requant_f32: onto the lattice and back to a float. *)
RequantF32(v, z) == (Clamp8(Round(v) + z) - z) * D

(* requant4_f32. *)
Requant4F32(v, z) == Quant4(v, z) * D - z * D

\* store16_out without a destination, on a layer with an output lattice.
Store16Requant(v, z) == (Clamp8(RoundHalfAwayEpi32(v) + z) - z) * D

(* fq_scalar, fake_quant_slice, fake_quant_inplace. *)
FqScalar(v, z) == (Clamp8(Round(v) + z) - z) * D

(* neon_fake_quant. *)
NeonFakeQuant(v, z) == Bound(Round(v) * D + z * D, -128 * D, 127 * D) - z * D

\* The fused passes return the activation and what they quantized.
(* relu_quantize_inplace. *)
ReluQuantize(a, z) == <<Relu(a), Clamp8(Round(Relu(a)) + z)>>

(* add_relu_quantize_inplace. *)
AddReluQuantize(a, b, z) == LET v == Relu(FloatAdd(a, b)) IN <<v, Clamp8(Round(v) + z)>>

(* avx512_relu_quantize_inner; b is zero when there is none. *)
Avx512ReluQuantize(a, b, z) ==
  LET v == Relu(FloatAdd(a, b)) IN <<v, Narrow(Clamp8(RoundHalfAwayEpi32(v) + z))>>

(* neon_relu_quantize. *)
NeonReluQuantize(a, z) == <<Relu(a), Quant4(Relu(a), z)>>

(* neon_add_relu_quantize. *)
NeonAddReluQuantize(a, b, z) == LET v == Relu(FloatAdd(a, b)) IN <<v, Quant4(v, z)>>

-----------------------------------------------------------------------------

\* What AVX-512 code rounds: with the float just below one half the sum
\* x + copysign(0.5, x) is 1 once it is rounded to a float.
Seen(v) == IF Abs(v) = D \div 2 - 1 THEN Signed(v, D \div 2) ELSE v

\* Scalar and NEON code put the same float on the same step, ties and
\* saturation included, and so does AVX-512 code but for the float just below
\* one half; quantizing what a requantizing layer wrote gives what the same
\* code would have made of its input, so a seeded input is the one the layer
\* would have made itself; and the fused passes are the two passes.
LatticesAgree(v, z) ==
  /\ {Quant4(v, z), Store16I8(v, z), I8DestStore(v, z), Store4I8(v, z)} = {Quantize(v, z)}
  /\ LET vs == [i \in 1 .. 23 |-> NearestFloat(v + i * (D \div 4))]
     IN QuantizeNeon(vs, z) = [i \in 1 .. 23 |-> Quantize(vs[i], z)]
  /\ Store16Out(v, z) = Quantize(Seen(v), z)
  /\ {Requant4F32(v, z), FqScalar(v, z), NeonFakeQuant(v, z)} = {RequantF32(v, z)}
  /\ Store16Requant(v, z) = RequantF32(Seen(v), z)
  /\ Quantize(RequantF32(v, z), z) = Quantize(v, z)
  /\ Quantize(Store16Requant(v, z), z) = Store16Out(v, z)
  /\ {ReluQuantize(v, z), NeonReluQuantize(v, z)} = {<<Relu(v), Quantize(Relu(v), z)>>}
  /\ Avx512ReluQuantize(v, 0, z) = <<Relu(v), Quantize(Relu(Seen(v)), z)>>
  /\ \A b \in {-2 * D, -1, 1, D \div 2, 128 * D} :
       LET sum == Relu(FloatAdd(v, b))
       IN /\ {AddReluQuantize(v, b, z), NeonAddReluQuantize(v, b, z)} = {<<sum, Quantize(sum, z)>>}
          /\ Avx512ReluQuantize(v, b, z) = <<sum, Quantize(Seen(sum), z)>>
=============================================================================
