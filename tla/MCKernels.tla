----------------------------- MODULE MCKernels -----------------------------
(* The kernels on small instances: the integer convolution, the embedder, the *)
(* segmentation network, the packed weights and the filters of the Apple      *)
(* build as machines of their own, and the pure modules over bounded cases.   *)
(* A behaviour is of one part; the others stay idle.                          *)
EXTENDS PackCache, Integers, Sequences, TLC

CONSTANTS
  PN, NR16, NR, MR, WAVE, MAX_TILES, SPLIT_OC, Shapes,
  Nets, Inputs, MaxCalls, POOL_SLOTS, LAYERS, FilterModels, FilterAddrs, FilterSizes, MaxKeys

VARIABLES
  part, case,
  shape, image, phase, todo, task, row, ring, slots, slab, out, claims,
  net, block, x, xq, seed, reads, calls,
  free, sPc, held, done,
  fAt, fLoaded, fReady, fFailed, fPc, fArg, fKey, fFilter, fUsed

convVars == <<shape, image, phase, todo, task, row, ring, slots, slab, out, claims>>
resnetVars == <<net, block, x, xq, seed, reads, calls>>
powersetVars == <<free, sPc, held, done>>
filterVars == <<fAt, fLoaded, fReady, fFailed, fPc, fArg, fKey, fFilter, fUsed>>

Conv == INSTANCE ConvI8
Filters == INSTANCE FilterPool WITH
  Models <- FilterModels, Addrs <- FilterAddrs, Sizes <- FilterSizes,
  at <- fAt, loaded <- fLoaded, ready <- fReady, failed <- fFailed, pc <- fPc, arg <- fArg,
  key <- fKey, filter <- fFilter, used <- fUsed

ResNet == INSTANCE ResNetForward
Powerset == INSTANCE PowersetForward WITH pc <- sPc

\* The constants of the parts are what they take them to be.
ASSUME KernelsAssumption ==
  /\ Conv!ConstantsAssumption /\ Filters!FilterAssumption
  /\ ResNet!ResNetAssumption /\ Powerset!PowersetAssumption

\* The two layers of a model share a cache and its dimensions.
SameShape == [l \in Layers |-> "f32_b"]

-----------------------------------------------------------------------------
(* Every kernel of the integer convolution at every width up to two and a half *)
(* wide tiles, alone and over two or three workers.                           *)

Layer(k, stride, n, oc, h, w, threads, zip) ==
  [k |-> k, pad |-> IF k = 1 THEN 0 ELSE 1, stride |-> stride, n |-> n, oc |-> oc,
   h |-> h, w |-> w, threads |-> threads, heavy |-> threads > 1, zip |-> zip]

\* Two kinds of shape the code does not compute the convolution of are left
\* out: channels that fill no group after the shared gather (LeftoverShapes),
\* and rows of 1x1 layers longer than the tiles gathered for them, 20 here.
MCShapes ==
  {Layer(3, 1, 1, oc, 3, w, threads, zip) : oc \in {3, 6}, w \in 1 .. 21, threads \in {1, 3}, zip \in BOOLEAN}
  \cup {Layer(3, 1, 2, oc, 4, w, 2, TRUE) : oc \in {3, 4, 6}, w \in {3, 7, 20}}
  \cup {Layer(3, 2, 1, oc, h, w, threads, TRUE) : oc \in {5, 6}, h \in {4, 5}, w \in {2, 7, 15, 17, 21}, threads \in {1, 3}}
  \cup {Layer(3, 3, 1, 3, 7, w, 1, FALSE) : w \in {1, 2, 6, 13, 17, 30}}
  \cup {Layer(1, stride, 2, 3, 2, w, 1, zip) : stride \in 1 .. 3, w \in 1 .. 20, zip \in BOOLEAN}
  \cup {Layer(1, stride, 2, 3, 2, 21, 1, stride > 1) : stride \in 1 .. 3}
  \cup {Layer(5, 1, 1, 2, 4, w, 1, TRUE) : w \in {3, 6}}

LeftoverShapes == {Layer(3, 1, 1, oc, 4, 9, threads, TRUE) : oc \in 4 .. 6, threads \in 1 .. 2}

-----------------------------------------------------------------------------
(* Networks: the shipping one with every opt-out, one without int8 weights,    *)
(* and ones that lack some int8 weights and have a lattice per layer.          *)

Ships(on, rten) ==
  [on |-> on, rten |-> rten, i8 |-> [c \in 1 .. 36 |-> c # 1],
   lattice |-> [c \in 1 .. 36 |-> IF c = 1 THEN <<"none">> ELSE <<"q", 0>>]]
FloatOnly == [Ships(TRUE, FALSE) EXCEPT !.i8 = [c \in 1 .. 36 |-> FALSE], !.lattice = [c \in 1 .. 36 |-> <<"none">>]]
\* A down convolution reads what the first convolution of its block reads.
SharesInput(c) == CASE c = 10 -> 8 [] c = 19 -> 17 [] c = 32 -> 30 [] OTHER -> c
Mixed(lost) ==
  [Ships(TRUE, FALSE) EXCEPT
     !.i8 = [c \in 1 .. 36 |-> c # 1 /\ c \notin lost],
     !.lattice = [c \in 1 .. 36 |-> IF c = 1 THEN <<"none">> ELSE <<"q", SharesInput(c)>>]]

MCNets ==
  {Ships(on, rten) : on, rten \in BOOLEAN} \cup {FloatOnly}
  \cup {Mixed(lost) : lost \in {{2}, {3}, {8}, {10}, {36}, {35, 36}}}

MCInputs == {<<1, 9>>, <<2, 9>>, <<1, 18>>}


-----------------------------------------------------------------------------
(* The cases of the pure modules. *)

Panel == INSTANCE ConvPanel WITH P <- 12
Float == INSTANCE FloatConv
Onnx == INSTANCE OnnxInit

PanelCases ==
  {[kPad |-> 16, pn |-> pn, oc |-> oc, mo |-> mo, n0 |-> n0, n |-> n] :
     pn \in {16, 32}, oc \in {6, 8}, mo \in {0, 4}, n0 \in {0, 16}, n \in {16, 80, 150}}
\* Every quarter of a step and the floats on either side of every half.
Floats ==
  LET Half(k) == (2 * k + 1) * (Panel!D \div 2)
  IN {k * (Panel!D \div 4) : k \in -1100 .. 1100}
     \cup {Panel!Signed(Half(k), Panel!Abs(Half(k)) + Panel!Ulp(Panel!Abs(Half(k)))) : k \in -275 .. 274}
     \cup {Panel!Signed(Half(k), Panel!Abs(Half(k)) - Panel!Ulp(Panel!Abs(Half(k)) - 1)) : k \in -275 .. 274}
GoodPanel(c) == c.n0 < c.pn /\ c.mo + 4 <= c.oc

GemmCases ==
  {[op |-> op, build |-> "plain", rten |-> TRUE, neon |-> neon, m |-> m, n |-> n, k |-> 2] :
     op \in {"rowbias", "colbias", "add"}, neon \in BOOLEAN, m \in 1 .. 13, n \in {1, 7, 8, 9, 17}}
ConvCases ==
  {[k |-> kp[1], pad |-> kp[2], stride |-> stride, n |-> n, ic |-> 2, oc |-> 2, h |-> h, w |-> w] :
     kp \in {<<1, 0>>, <<3, 1>>}, stride \in 1 .. 2, n \in 1 .. 2, h \in 1 .. 3, w \in 1 .. 4}

Conv1dCases ==
  {[n |-> 2, ic |-> ic, oc |-> 2, k |-> k, stride |-> stride, l |-> l] :
     ic \in 1 .. 2, k \in {1, 2, 5}, stride \in 1 .. 2, l \in 5 .. 9}
Samples == UNION {[1 .. n -> {-4, -1, 0, 3}] : n \in 1 .. 4}

Encodings ==
  {[name |-> "w", type |-> type, dims |-> d[1], data |-> d[2]] :
     type \in {1, 3, 6},
     d \in {<<<<2, 2>>, <<"a", "b", "c", "d">>>>, <<<<3>>, <<"a", "b", "c">>>>, <<<<>>, <<"a">>>>}}
Scales(h) == {<<>>, <<1>>, <<2>>, <<4 * h>>, <<2, 4 * h>>}
Weights == {[hidden |-> h, k |-> k, swapped |-> s, scale |-> sc] :
              h \in 1 .. 2, k \in {3, 5}, s \in BOOLEAN, sc \in Scales(1) \cup Scales(2)}
GoodWeights(c) == c.scale \in Scales(c.hidden)
LayerCases ==
  {[hidden |-> 1, k |-> k, w |-> w, r |-> r, centred |-> z, scale |-> sc] :
     k \in {2, 3}, w, r \in {"float", "direct", "swapped"}, z \in BOOLEAN, sc \in Scales(1) \ {<<4>>}}

Cases ==
  {<<"panel", c>> : c \in {p \in PanelCases : GoodPanel(p)}}
  \cup {<<"gemm", c>> : c \in GemmCases} \cup {<<"conv", c>> : c \in ConvCases}
  \cup {<<"loop", n>> : n \in 0 .. 70} \cup {<<"conv1d", c>> : c \in Conv1dCases}
  \cup {<<"pool", l>> : l \in 3 .. 40} \cup {<<"frames", nf>> : nf \in (1 .. 3) \X (1 .. 4)}
  \cup {<<"quant", xs>> : xs \in Samples} \cup {<<"encoding", c>> : c \in Encodings}
  \cup {<<"lattice", z>> : z \in {-128, -100, -1, 0, 3, 127}}
  \cup {<<"weight", c>> : c \in {w \in Weights : GoodWeights(w)}} \cup {<<"layer", c>> : c \in LayerCases}

Idle == <<"idle">>

ConvIdle ==
  /\ shape = Idle /\ image = Idle /\ phase = Idle /\ todo = Idle /\ task = Idle /\ row = Idle
  /\ ring = Idle /\ slots = Idle /\ slab = Idle /\ out = Idle /\ claims = Idle
ResNetIdle ==
  /\ net = Idle /\ block = Idle /\ x = Idle /\ xq = Idle /\ seed = Idle /\ reads = Idle /\ calls = Idle
PowersetIdle == free = Idle /\ sPc = Idle /\ held = Idle /\ done = Idle

FiltersIdle ==
  /\ fAt = Idle /\ fLoaded = Idle /\ fReady = Idle /\ fFailed = Idle /\ fPc = Idle /\ fArg = Idle
  /\ fKey = Idle /\ fFilter = Idle /\ fUsed = Idle

\* The packed weights idle in one of their initial states.
PacksIdle == Init /\ arg = CHOOSE a \in [Threads -> Matrices] : TRUE

MCInit ==
  \/ part = "conv" /\ case = Idle /\ Conv!Init /\ ResNetIdle /\ PowersetIdle /\ PacksIdle /\ FiltersIdle
  \/ part = "resnet" /\ case = Idle /\ ConvIdle /\ ResNet!Init /\ PowersetIdle /\ PacksIdle /\ FiltersIdle
  \/ part = "powerset" /\ case = Idle /\ ConvIdle /\ ResNetIdle /\ Powerset!Init /\ PacksIdle /\ FiltersIdle
  \/ part = "packs" /\ case = Idle /\ ConvIdle /\ ResNetIdle /\ PowersetIdle /\ Init /\ FiltersIdle
  \/ part = "filters" /\ case = Idle /\ ConvIdle /\ ResNetIdle /\ PowersetIdle /\ PacksIdle /\ Filters!Init
  \/ part = "case" /\ case \in Cases /\ ConvIdle /\ ResNetIdle /\ PowersetIdle /\ PacksIdle /\ FiltersIdle

MCNext ==
  \/ part = "conv" /\ Conv!Next /\ UNCHANGED <<part, case, resnetVars, powersetVars, vars, filterVars>>
  \/ part = "resnet" /\ ResNet!Next /\ UNCHANGED <<part, case, convVars, powersetVars, vars, filterVars>>
  \/ part = "powerset" /\ Powerset!Next /\ UNCHANGED <<part, case, convVars, resnetVars, vars, filterVars>>
  \/ part = "packs" /\ Next /\ UNCHANGED <<part, case, convVars, resnetVars, powersetVars, filterVars>>
  \/ part = "filters" /\ Filters!Next /\ UNCHANGED <<part, case, convVars, resnetVars, powersetVars, vars>>

MCSpec == MCInit /\ [][MCNext]_<<part, case, convVars, resnetVars, powersetVars, vars, filterVars>>

-----------------------------------------------------------------------------
Is(kind) == case[1] = kind

\* ConvI8!EveryOutputIsItsConvolution: every output of the integer convolution
\* is computed from its own weights and patch (conv_i8/s1.rs, s2.rs, pointwise.rs).
ConvolvesEveryOutput == part = "conv" => Conv!EveryOutputIsItsConvolution

\* ConvI8!TasksAreDisjoint and WritesAreInside, with ConvIInv: two tasks of a
\* dispatch never write one address, and none writes past the output, on which
\* the unsafe slices of s1.rs and s2.rs rest.
WritesAreDisjoint == part = "conv" => Conv!ConvIInv /\ Conv!TasksAreDisjoint /\ Conv!WritesAreInside

\* ConvPanel!KernelsAgree, DotIsExact and LatticesAgree, FloatConv!Product-
\* IsExact, ConvolutionsAgree and LoopsTouchOnce: integer and
\* float kernels add every product once, on every instruction set, and every
\* quantizer puts a float on the same step, but for the one float that AVX-512
\* code takes for a half: every quarter of a step and the floats about every half
\* (conv_i8/gemm.rs, quant.rs, tensor.rs, gemm.rs, conv.rs, rten_matmul.rs).
ProductsAreExact ==
  /\ Is("panel") => Panel!KernelsAgree(case[2]) /\ Panel!DotIsExact(case[2])
  /\ Is("gemm") => Float!ProductIsExact(case[2])
  /\ Is("conv") => Float!ConvolutionsAgree(case[2])
  /\ Is("loop") => Float!LoopsTouchOnce(case[2])
  /\ Is("lattice") => \A v \in Floats : Panel!IsFloat(v) /\ Panel!LatticesAgree(v, case[2])

\* ResNetForward!ReadsOwnInput and LayersFit, with SeedIInv: a seed of quantized
\* activations is only taken by a convolution of the activations it was left for,
\* and the layer table chains (conv_i8/dispatch.rs, resnet34.rs).
SeedsAreOwn == part = "resnet" => ResNet!SeedIInv /\ ResNet!LayersFit

\* PowersetForward!ForwardsStartFromZero, with PowersetIInv: a recycled buffer
\* never leaks into a forward, each layer reads the whole of the one before, and
\* the last is what is returned (scratch.rs, lstm.rs, powerset.rs).
RecycledIsZero == part = "powerset" => Powerset!PowersetIInv /\ Powerset!ForwardsStartFromZero

\* PowersetForward: the convolutions, pools, recurrences, gates and quantized
\* layers of seq1d.rs, lstm.rs and qlinear.rs against their definitions; and
\* OnnxInit!EncodingDoesNotMatter, QuantizedMatchesFloat and LayersUseTheir-
\* Weights: the weights read are the weights written, in either layout, and
\* every term of a product has its own (onnx_init.rs, powerset.rs, lstm.rs).
SegmentationIsExact ==
  /\ Is("conv1d") => Powerset!Conv1dAgrees(case[2])
  /\ Is("pool") => Powerset!PoolCovers(case[2]) /\ Powerset!GatesCover(case[2])
  /\ Is("frames") => Powerset!FramesKeepTheirClip(case[2][1], case[2][2])
  /\ Is("quant") => Powerset!QuantizesClosely(case[2])
  /\ Is("encoding") => Onnx!EncodingDoesNotMatter(case[2])
  /\ Is("weight") => Onnx!QuantizedMatchesFloat(case[2])
  /\ Is("layer") => Onnx!LayersUseTheirWeights(case[2])

\* FilterPool!AppliesOwnWhileKept and PoolBounded, with FilterIInv: while every
\* model is kept a convolution applies its own weights, and the pool stays near
\* its limit (bnns.rs).
FiltersAreOwn == part = "filters" => Filters!FilterIInv /\ Filters!PoolBounded
=============================================================================
