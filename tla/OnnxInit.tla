------------------------------ MODULE OnnxInit ------------------------------
(***************************************************************************)
(* The loader of ONNX weights of polyvoice-kernels/src/onnx_init.rs: how an *)
(* initializer is read out of its protobuf fields, and how a weight that     *)
(* was quantized offline is found, dequantized and turned to the layout the  *)
(* network wants.  A field is its number, its wire type and its value; a      *)
(* value of a tensor is a name, so that one can see where each ends up.       *)
(***************************************************************************)
EXTENDS Integers, Sequences, FiniteSets

Err == [is |-> "error"]
Failed(r) == r.is = "error"

Product(dims) ==
  LET P[i \in 0 .. Len(dims)] == IF i = 0 THEN 1 ELSE P[i - 1] * dims[i] IN P[Len(dims)]

-----------------------------------------------------------------------------
(* Protobuf.  The wire types the parser knows.                               *)

VARINT == 0
LEN == 2
BITS32 == 5

Field(number, wire, value) == [number |-> number, wire |-> wire, value |-> value]

DT_FLOAT == 1
DT_INT32 == 6
DT_INT8 == 3
Width(type) == IF type = DT_INT8 THEN 1 ELSE 4

NoRaw == [bytes |-> -1, values |-> <<>>]
Empty == [is |-> "tensor", dims |-> <<>>, type |-> 0, name |-> "", raw |-> NoRaw, float |-> <<>>, int32 |-> <<>>]

(* The loop of parse_tensor_proto: one field.  A packed field may come in      *)
(* several pieces; whatever the parser does not know it skips.               *)
ReadField(t, f) ==
  CASE f.number = 1 /\ f.wire = VARINT -> [t EXCEPT !.dims = Append(@, f.value)]
    [] f.number = 1 /\ f.wire = LEN -> [t EXCEPT !.dims = @ \o f.value]
    [] f.number = 2 /\ f.wire = VARINT -> [t EXCEPT !.type = f.value]
    [] f.number = 4 /\ f.wire = LEN -> [t EXCEPT !.float = @ \o f.value]
    [] f.number = 4 /\ f.wire = BITS32 -> [t EXCEPT !.float = Append(@, f.value)]
    [] f.number = 5 /\ f.wire = LEN -> [t EXCEPT !.int32 = @ \o f.value]
    [] f.number = 5 /\ f.wire = VARINT -> [t EXCEPT !.int32 = Append(@, f.value)]
    [] f.number = 8 /\ f.wire = LEN -> [t EXCEPT !.name = f.value]
    [] f.number = 9 /\ f.wire = LEN -> [t EXCEPT !.raw = f.value]
    [] OTHER -> t

ReadFields(fields) ==
  LET Read[i \in 0 .. Len(fields)] == IF i = 0 THEN Empty ELSE ReadField(Read[i - 1], fields[i])
  IN Read[Len(fields)]

(* The rest of parse_tensor_proto: raw_data before the typed data, and the     *)
(* count must be the product of the dimensions.  A type the loader does not    *)
(* use is no tensor at all.                                                   *)
ParseTensorProto(fields) ==
  LET t == ReadFields(fields)
      values == CASE t.raw # NoRaw -> t.raw.values [] t.type = DT_FLOAT -> t.float [] OTHER -> t.int32
  IN CASE t.type \notin {DT_FLOAT, DT_INT8, DT_INT32} -> [is |-> "skipped"]
       [] t.raw # NoRaw /\ t.raw.bytes % Width(t.type) # 0 -> Err
       [] Product(t.dims) # Len(values) -> Err
       [] OTHER -> [is |-> "tensor", name |-> t.name, type |-> t.type, dims |-> t.dims, data |-> values]

(* parse_initializers: of a model's graphs the last, of a name's tensors the   *)
(* last; the first bad one ends it.                                          *)
ParseInitializers(graphs) ==
  LET tensors == IF graphs = <<>> THEN <<>> ELSE graphs[Len(graphs)]
      parsed == [i \in 1 .. Len(tensors) |-> ParseTensorProto(tensors[i])]
      kept == {i \in DOMAIN parsed : parsed[i].is = "tensor"}
      Last(name) == CHOOSE i \in kept : /\ parsed[i].name = name
                                        /\ \A j \in kept : parsed[j].name = name => j <= i
  IN IF (\E i \in DOMAIN parsed : Failed(parsed[i])) \/ kept = {} THEN Err
     ELSE [is |-> "map", of |-> [name \in {parsed[i].name : i \in kept} |-> parsed[Last(name)]]]

-----------------------------------------------------------------------------
(* Layouts. *)

(* unravel. *)
Unravel(i, dims) == [ax \in 1 .. Len(dims) |-> (i \div Product(SubSeq(dims, ax + 1, Len(dims)))) % dims[ax]]

First(S) == CHOOSE i \in S : \A j \in S : i <= j

(* scale_index_fn: the axes of the tensor the scale runs along: one axis by      *)
(* its size, the last if none fits; several greedily from the left.            *)
ScaleAxes(qDims, sDims) ==
  LET Fits(d, used) == {ax \in 1 .. Len(qDims) : ax \notin used /\ qDims[ax] = d}
      Greedy[i \in 0 .. Len(sDims)] ==
        IF i = 0 THEN <<>>
        ELSE LET used == {Greedy[i - 1][j] : j \in DOMAIN Greedy[i - 1]}
             IN IF Fits(sDims[i], used) = {} THEN Greedy[i - 1]
                ELSE Append(Greedy[i - 1], First(Fits(sDims[i], used)))
      axes == Greedy[Len(sDims)]
  IN CASE Len(axes) = Len(sDims) -> axes
       [] Len(sDims) = 1 -> <<Len(qDims)>>
       [] OTHER -> [i \in 1 .. Len(sDims) |-> i]

(* The closure of scale_index_fn, and the clamp of dequant_i8. *)
ScaleIndex(i, qDims, sDims) ==
  LET s == IF sDims = <<>> THEN <<1>> ELSE sDims
      axes == ScaleAxes(qDims, s)
      coords == Unravel(i, qDims)
      Sum[k \in 0 .. Len(s)] ==
        IF k = 0 THEN 0 ELSE Sum[k - 1] + coords[axes[k]] * Product(SubSeq(s, k + 1, Len(s)))
  IN IF Sum[Len(s)] > Product(s) - 1 THEN Product(s) - 1 ELSE Sum[Len(s)]

(* dequant_i8, dequant_i32: each value with the scale it is multiplied by.       *)
Dequant(q, qDims, sDims) ==
  [i \in 1 .. Len(q) |-> <<q[i], ScaleIndex(i - 1, qDims, sDims)>>]

(* transpose_last2, transpose_i8_last2. *)
TransposeLast2(data, a, b, c) ==
  [at \in 1 .. a * b * c |->
     LET ia == (at - 1) \div (b * c)
         ic == ((at - 1) \div b) % c
         ib == (at - 1) % b
     IN data[(ia * b + ib) * c + ic + 1]]

SwapsLast2(dims, expected) ==
  Len(dims) = 3 /\ Len(expected) = 3 /\ expected = <<dims[1], dims[3], dims[2]>>

(* coerce_shape. *)
CoerceShape(dims, data, expected) ==
  CASE dims = expected -> [is |-> "data", data |-> data]
    [] SwapsLast2(dims, expected) ->
         [is |-> "data", data |-> TransposeLast2(data, dims[1], dims[2], dims[3])]
    [] OTHER -> Err

-----------------------------------------------------------------------------
(* Taking a weight: w.float, w.quantized and w.scale are tensors or Missing.     *)

Missing == [is |-> "missing"]

(* take_f32: the float tensor, or the quantized one times its scale.            *)
TakeF32(w, expected) ==
  CASE w.float # Missing -> CoerceShape(w.float.dims, w.float.data, expected)
    [] w.float = Missing /\ (w.quantized = Missing \/ w.scale = Missing) -> Err
    [] OTHER -> CoerceShape(w.quantized.dims,
                            Dequant(w.quantized.data, w.quantized.dims, w.scale.dims), expected)

(* take_i8_quant: only INT8, only in the expected shape. *)
TakeI8Quant(w, expected) ==
  IF w.quantized = Missing \/ w.scale = Missing THEN Err
  ELSE IF w.quantized.dims # expected \/ w.quantized.type # DT_INT8 THEN Err
  ELSE [is |-> "data", data |-> w.quantized.data]

(* powerset.rs, take_lstm_i8: as the product wants it, or the float file's way.  *)
TakeLstmI8(w, k, four) ==
  LET direct == TakeI8Quant(w, <<2, k, four>>)
      swapped == TakeI8Quant(w, <<2, four, k>>)
  IN CASE ~Failed(direct) -> direct
       [] Failed(direct) /\ ~Failed(swapped) -> [swapped EXCEPT !.data = TransposeLast2(@, 2, four, k)]
       [] OTHER -> Err

(* lstm.rs, from_onnx: each direction's [4H, K] turned to [K, 4H]. *)
FromOnnx(data, k, four) == TransposeLast2(data, 2, four, k)

\* Mutant: the second direction takes the first one's scales.
FirstAffine(len, dir, n, column) == IF len \in {n, 2 * n} THEN column ELSE 0

(* lstm.rs, dir_affine: the scale of a column of one direction. *)
DirAffine(len, dir, n, column) ==
  CASE len = 2 * n -> dir * n + column [] len # 2 * n /\ len = 2 -> dir
    [] OTHER -> IF len = n THEN column ELSE 0

(* powerset.rs, take_lstm, with with_i8 of lstm.rs: integer weights are attached *)
(* for both products or for neither, and only where all zero points are zero; the *)
(* bias, always float, is left out.                                             *)
TakeLstm(w, r, k, hidden) ==
  LET four == 4 * hidden
      float == <<TakeF32(w, <<2, four, k>>), TakeF32(r, <<2, four, hidden>>)>>
      int8 == <<TakeLstmI8(w, k, four), TakeLstmI8(r, hidden, four)>>
      attached == ~Failed(int8[1]) /\ ~Failed(int8[2]) /\ w.centred /\ r.centred
  IN IF Failed(float[1]) \/ Failed(float[2]) THEN Err
     ELSE [is |-> "layer", depth |-> <<k, hidden>>, columns |-> four,
           float |-> <<FromOnnx(float[1].data, k, four), FromOnnx(float[2].data, hidden, four)>>,
           int8 |-> IF attached THEN <<int8[1].data, int8[2].data>> ELSE <<>>,
           scales |-> IF attached THEN <<Product(w.scale.dims), Product(r.scale.dims)>> ELSE <<>>]

(* try_i8_w (product 1), try_i8_r (product 2): the weight of one term and the     *)
(* scale it is multiplied by.  Without integer weights, or where the integer       *)
(* kernel declines, the product of run_direction is the float one.                *)
Factor(layer, p, runs, dir, k, column) ==
  LET at == (dir * layer.depth[p] + k) * layer.columns + column + 1
  IN IF runs /\ layer.int8 # <<>>
     THEN <<layer.int8[p][at], DirAffine(layer.scales[p], dir, layer.columns, column)>>
     ELSE layer.float[p][at]

(* powerset.rs, take_linear: [din, dout], turned for the integer product. *)
TakeLinear(w, din, dout) ==
  LET int8 == TakeI8Quant(w, <<din, dout>>)
      float == TakeF32(w, <<din, dout>>)
  IN CASE ~Failed(int8) -> [is |-> "int8", data |-> TransposeLast2(int8.data, 1, din, dout)]
       [] Failed(int8) /\ ~Failed(float) -> [is |-> "float", data |-> float.data]
       [] OTHER -> Err

-----------------------------------------------------------------------------

\* However a tensor is encoded -- dimensions one by one or packed, data raw or
\* typed, packed or not, the fields in either order, unknown ones between them
\* -- the same tensor is read, and a tensor with a value too few is refused.
EncodingDoesNotMatter(c) ==
  LET typed == IF c.type = DT_FLOAT THEN 4 ELSE 5
      one == IF c.type = DT_FLOAT THEN BITS32 ELSE VARINT
      Each(number, wire, values) == [i \in 1 .. Len(values) |-> Field(number, wire, values[i])]
      Dims(packed) == IF packed THEN <<Field(1, LEN, c.dims)>> ELSE Each(1, VARINT, c.dims)
      Data(form, values) ==
        CASE form = "packed" -> <<Field(typed, LEN, values)>>
          [] form = "single" -> Each(typed, one, values)
          [] OTHER -> <<Field(9, LEN, [bytes |-> Len(values) * Width(c.type), values |-> values])>>
      head == <<Field(2, VARINT, c.type), Field(12, LEN, "doc"), Field(8, LEN, c.name)>>
      Tensor == [is |-> "tensor", name |-> c.name, type |-> c.type, dims |-> c.dims, data |-> c.data]
  IN \A packed \in BOOLEAN, form \in {"packed", "single", "raw"}, dimsFirst \in BOOLEAN :
       LET Encoded(values) == IF dimsFirst THEN Dims(packed) \o head \o Data(form, values)
                              ELSE Data(form, values) \o head \o Dims(packed)
       IN /\ ParseTensorProto(Encoded(c.data)) = Tensor
          /\ ParseInitializers(<<<<>>, <<Encoded(c.data)>>>>) = [is |-> "map", of |-> [n \in {c.name} |-> Tensor]]
          /\ Failed(ParseTensorProto(Encoded(Tail(c.data))))
          /\ Failed(ParseInitializers(<<<<Encoded(Tail(c.data))>>>>))

\* The integer product and the dequantized float product use the same weight
\* with the same scale, for every direction, input and gate, whichever of the
\* two layouts the file has and whichever shape its scale.
QuantizedMatchesFloat(c) ==
  LET four == 4 * c.hidden
      dims == IF c.swapped THEN <<2, four, c.k>> ELSE <<2, c.k, four>>
      q == [i \in 1 .. 2 * four * c.k |-> i]
      w == [float |-> Missing, quantized |-> [is |-> "tensor", type |-> DT_INT8, dims |-> dims, data |-> q],
            scale |-> [is |-> "tensor", dims |-> c.scale]]
      float == TakeF32(w, <<2, four, c.k>>)
      int8 == TakeLstmI8(w, c.k, four)
  IN /\ ~Failed(float) /\ ~Failed(int8)
     /\ \A dir \in 0 .. 1, k \in 0 .. c.k - 1, g \in 0 .. four - 1 :
          LET at == (dir * c.k + k) * four + g + 1
          IN FromOnnx(float.data, c.k, four)[at]
             = <<int8.data[at], DirAffine(Product(c.scale), dir, four, g)>>

\* Whichever of a layer's two weights are quantized and in whichever layout they
\* lie, every term of both products has the weight of its own direction, input
\* and gate, and the integer kernel and the float one that stands in for it
\* have the same weight with the same scale.  So has every term of a linear layer.
LayersUseTheirWeights(c) ==
  LET four == 4 * c.hidden
      Place(i, dims) == LET u == Unravel(i - 1, dims)
                        IN IF dims[3] = four THEN u ELSE <<u[1], u[3], u[2]>>
      Stored(form, depth) ==
        LET dims == IF form = "direct" THEN <<2, depth, four>> ELSE <<2, four, depth>>
            tensor == [is |-> "tensor", type |-> IF form = "float" THEN DT_FLOAT ELSE DT_INT8,
                       dims |-> dims, data |-> [i \in 1 .. 2 * four * depth |-> Place(i, dims)]]
        IN IF form = "float" THEN [float |-> tensor, quantized |-> Missing, scale |-> Missing, centred |-> TRUE]
           ELSE [float |-> Missing, quantized |-> tensor, scale |-> [is |-> "tensor", dims |-> c.scale],
                 centred |-> c.centred]
      Depth(p) == IF p = 1 THEN c.k ELSE c.hidden
      layer == TakeLstm(Stored(c.w, c.k), Stored(c.r, c.hidden), c.k, c.hidden)
      Weight(p, runs, at) == Factor(layer, p, runs, at[1], at[2], at[3])
      Bare(form, weight) == IF form = "float" THEN weight ELSE weight[1]
      linear == TakeLinear(Stored("direct", c.k), 2 * c.k, four)
      wide == TakeLinear([Stored("direct", c.k) EXCEPT !.quantized.dims = <<2 * c.k, four>>], 2 * c.k, four)
  IN /\ ~Failed(layer) /\ Failed(linear)
     /\ \A p \in 1 .. 2 : \A at \in (0 .. 1) \X (0 .. Depth(p) - 1) \X (0 .. four - 1) :
          /\ Bare(<<c.w, c.r>>[p], Weight(p, FALSE, at)) = at
          /\ Weight(p, TRUE, at) = Weight(p, FALSE, at)
     /\ wide.is = "int8"
     /\ \A k \in 0 .. 2 * c.k - 1, column \in 0 .. four - 1 :
          wide.data[column * 2 * c.k + k + 1] = <<k \div c.k, k % c.k, column>>
=============================================================================
