--------------------------- MODULE ResNetForward ---------------------------
(***************************************************************************)
(* The forward passes of the ResNet34 embedder of                           *)
(* polyvoice-kernels/src/resnet34.rs over one thread.  A convolution reads   *)
(* its input on the lattice (scale and zero point) of the layer.  To save a  *)
(* pass, the end of a block writes the quantized input of the next           *)
(* convolution into a buffer of the thread and leaves a seed that says so;   *)
(* the convolution takes the seed if scale, zero point and length match, and *)
(* quantizes for itself otherwise.  Buffer and seed outlive the call.        *)
(*                                                                         *)
(* A tensor is its name and its shape; what matters is which tensor each     *)
(* convolution really reads.                                                *)
(***************************************************************************)
EXTENDS Integers, Sequences

CONSTANTS
  Nets,      \* networks: which convolutions have int8 weights, which lattices
  Inputs,    \* <<images, frames>> of the calls
  MaxCalls   \* bound: forward passes on the thread

VARIABLES
  net,    \* the network of the call in progress
  block,  \* the block to run next; 0 before the stem
  x,      \* the activations
  xq,     \* thread: the tensor and the lattice last quantized into XQ
  seed,   \* thread: what the next convolution may skip, or NoSeed
  reads,  \* what the convolutions of the last step read
  calls

vars == <<net, block, x, xq, seed, reads, calls>>

NMels == 80
FcIn == 5120
Lattice(c) == net.lattice[c]
None == <<"none">>
NoSeed == [lattice |-> None, len |-> 0]

-----------------------------------------------------------------------------
(* CONVS: output and input channels, kernel and stride, in the order of the   *)
(* file: the stem, then the convolutions of each block.                       *)

Conv(oc, ic, k, stride) == [oc |-> oc, ic |-> ic, k |-> k, stride |-> stride]
Same(n, c) == [i \in 1 .. n |-> Conv(c, c, 3, 1)]
Halve(oc, ic) == <<Conv(oc, ic, 3, 2), Conv(oc, oc, 3, 1), Conv(oc, ic, 1, 2)>>

ConvsOfLayers12 == <<Conv(32, 1, 3, 1)>> \o Same(6, 32) \o Halve(64, 32) \o Same(6, 64)
ConvsOfLayer3 == Halve(128, 64) \o Same(10, 128)
ConvsOfLayer4 == Halve(256, 128) \o Same(4, 256)
CONVS == ConvsOfLayers12 \o ConvsOfLayer3 \o ConvsOfLayer4

\* A block is the places of its convolutions in CONVS; 0 for no down.
Block(c1, c2, down) == [conv1 |-> c1, conv2 |-> c2, down |-> down]

(* identity_blocks, down_then_identity: the blocks taken from place at on.     *)
IdentityBlocks(at, n) == [i \in 1 .. n |-> Block(at + 2 * (i - 1), at + 2 * i - 1, 0)]

\* Mutant: the down convolution is taken first.
DownBeforeIdentity(at, n) == <<Block(at + 1, at + 2, at)>> \o IdentityBlocks(at + 3, n)

DownThenIdentity(at, n) == <<Block(at, at + 1, at + 2)>> \o IdentityBlocks(at + 3, n)

(* from_initializers. *)
Blocks ==
  IdentityBlocks(2, 3) \o DownThenIdentity(8, 3) \o DownThenIdentity(17, 5) \o DownThenIdentity(30, 2)

-----------------------------------------------------------------------------
(* Tensors. *)

Tensor(name, n, c, h, w) == [name |-> name, n |-> n, c |-> c, h |-> h, w |-> w]
Length(t) == t.n * t.c * t.h * t.w

(* out_hw_dims, reuse_uninit: the shape of conv(t). *)
Output(c, t, name) ==
  LET v == CONVS[c]
      Dim(len) == (len + (IF v.k = 1 THEN 0 ELSE 2) - v.k) \div v.stride + 1
  IN Tensor(name, t.n, v.oc, Dim(t.h), Dim(t.w))

\* What a convolution read: the tensor behind its quantized input and the
\* lattice it is on, or the floats themselves.
Read(c, input, of, lattice) == [conv |-> c, input |-> input, of |-> of, lattice |-> lattice]
Quantized(of, lattice) == [of |-> of.name, lattice |-> lattice]

\* The thread's buffers and the reads so far, threaded through a step.
Tls == [xq |-> xq, seed |-> seed, reads |-> {}]

\* Mutant: the seed is looked at and left.
LeaveSeed(tls) == tls

(* take_xq_seed: whether or not it matches, the seed is gone. *)
TakeSeed(tls) == [tls EXCEPT !.seed = NoSeed]

(* The head of try_conv, of try_conv_to_i8 and of try_from_i8. *)
IntegerLayer(c) == net.i8[c] /\ Lattice(c) # None /\ net.on

(* try_conv after the opt-in, try_conv_to_i8: quantize unless seeded. *)
ReadSeededOrQuantize(tls, c, t) ==
  LET hit == tls.seed = [lattice |-> Lattice(c), len |-> Length(t)]
      q == IF hit THEN tls.xq ELSE Quantized(t, Lattice(c))
  IN [TakeSeed(tls) EXCEPT !.xq = q, !.reads = @ \cup {Read(c, t.name, q.of, q.lattice)}]

(* try_conv, forward_into, forward_into_owned: rten quantizes into a buffer of *)
(* its own; the float path quantizes the input if the layer has a lattice.     *)
ForwardInto(tls, c, t) ==
  IF IntegerLayer(c) /\ ~net.rten THEN ReadSeededOrQuantize(tls, c, t)
  ELSE [tls EXCEPT !.reads = @ \cup {Read(c, t.name, t.name, Lattice(c))}]

(* seed_xq_relu, seed_xq_add_relu; without a lattice only the floats change.   *)
Finish(tls, t, lattice) ==
  IF lattice = None THEN tls
  ELSE [tls EXCEPT !.xq = Quantized(t, lattice), !.seed = [lattice |-> lattice, len |-> Length(t)]]

(* try_i8_identity: its guards, then try_conv_to_i8 and try_from_i8.           *)
TryI8Identity(b) ==
  /\ net.on
  /\ CONVS[b.conv1].k = 3 /\ CONVS[b.conv1].stride = 1
  /\ net.i8[b.conv1] /\ net.i8[b.conv2]
  /\ Lattice(b.conv2) # None /\ Lattice(b.conv1) # None

I8Identity(tls, b, t) ==
  LET y == Output(b.conv1, t, <<"y", calls, block>>)
      first == ReadSeededOrQuantize(tls, b.conv1, t)
  IN [first EXCEPT !.reads = @ \cup {Read(b.conv2, y.name, y.name, Lattice(b.conv2))}]

-----------------------------------------------------------------------------

Idle == Tensor(<<"idle">>, 0, 0, 0, 0)

Init ==
  /\ net \in Nets
  /\ block = 0 /\ x = Idle /\ calls = 0 /\ reads = {}
  /\ xq = Quantized(Idle, None) /\ seed = NoSeed

\* Only the buffers of the thread are left to the next call.
Keep(tls) == xq' = tls.xq /\ seed' = tls.seed /\ reads' = tls.reads

(* embed_fbank, embed_fbank_batch: the clips as one tensor, the stem, and      *)
(* after_stem with the lattice of the first block (in_q).                      *)
Stem ==
  /\ block = 0 /\ calls < MaxCalls
  /\ calls' = calls + 1
  /\ \E in \in Inputs :
       LET fbank == Tensor(<<"fbank", calls'>>, in[1], 1, NMels, in[2])
           out == Output(1, fbank, <<"x", calls', 1>>)
       IN /\ x' = out
          /\ Keep(Finish(ForwardInto(Tls, 1, fbank), out, Lattice(Blocks[1].conv1)))
  /\ block' = 1
  /\ UNCHANGED net

(* run_layers, run_layer: the lattice of the next block, across layers too.    *)
NextLattice == IF block = Len(Blocks) THEN None ELSE Lattice(Blocks[block + 1].conv1)

(* run_block, finish_add. *)
RunBlock ==
  /\ block \in 1 .. Len(Blocks)
  /\ LET b == Blocks[block]
         y == Output(b.conv1, x, <<"y", calls, block>>)
         z == Output(b.conv2, y, <<"z", calls, block>>)
         float == ForwardInto(ForwardInto(Tls, b.conv1, x), b.conv2, y)
         sum == [(IF b.down = 0 THEN x ELSE Output(b.down, x, <<"d">>))
                   EXCEPT !.name = <<"x", calls, block + 1>>]
         convs == CASE b.down = 0 /\ TryI8Identity(b) -> I8Identity(Tls, b, x)
                    [] b.down = 0 /\ ~TryI8Identity(b) -> float
                    [] OTHER -> ForwardInto(float, b.down, x)
     IN /\ x' = sum
        /\ Keep(Finish(convs, sum, NextLattice))
  /\ block' = block + 1
  /\ UNCHANGED <<net, calls>>

(* The pools and the last layer: the call returns; the thread may embed with   *)
(* another network next.                                                      *)
Pool ==
  /\ block = Len(Blocks) + 1
  /\ block' = 0 /\ x' = Idle /\ reads' = {}
  /\ net' \in Nets
  /\ UNCHANGED <<xq, seed, calls>>

Next == Stem \/ RunBlock \/ Pool

Spec == Init /\ [][Next]_vars

-----------------------------------------------------------------------------

\* Every convolution computes from its own input on its own lattice: a seed is
\* only ever taken by the convolution it was left for, whatever an earlier
\* block, an earlier call or another network left in the thread.
ReadsOwnInput ==
  \A r \in reads : r.of = r.input /\ r.lattice = Lattice(r.conv)

\* The table of layers fits the blocks it is dealt into: channels chain, both
\* sides of every addition have one shape, and the pools fill the last layer.
LayersFit ==
  /\ block \in 1 .. Len(Blocks) =>
       LET b == Blocks[block]
           y == Output(b.conv1, x, <<>>)
           z == Output(b.conv2, y, <<>>)
           d == IF b.down = 0 THEN x ELSE Output(b.down, x, <<>>)
       IN /\ CONVS[b.conv1].ic = x.c /\ CONVS[b.conv2].ic = y.c
          /\ b.down # 0 => CONVS[b.down].ic = x.c
          /\ <<z.c, z.h, z.w>> = <<d.c, d.h, d.w>>
  /\ block = Len(Blocks) + 1 => 2 * x.c * x.h = FcIn

\* The networks whose seeds cannot be mistaken: the stem is computed in floats,
\* and where the first convolution of a block leaves its seed untouched, the
\* second one has floats or another lattice.  (A down convolution may take it: it
\* reads the same activations.)  One lattice for all is fine if all but the stem
\* have int8 weights, as the shipping network has.
SeedsTellApart(n) ==
  LET Integer(c) == n.i8[c] /\ n.lattice[c] # None /\ n.on
  IN /\ ~Integer(1)
     /\ \A b \in {Blocks[i] : i \in DOMAIN Blocks} :
          IF n.lattice[b.conv1] = None THEN ~Integer(b.conv2) /\ (b.down # 0 => ~Integer(b.down))
          ELSE Integer(b.conv1) \/ ~Integer(b.conv2) \/ n.lattice[b.conv2] # n.lattice[b.conv1]

ResNetAssumption ==
  /\ \A n \in Nets : SeedsTellApart(n)
  /\ Inputs \subseteq (Nat \ {0}) \X (Nat \ {0})

\* The inductive invariant.  A block gets the channels and the height that the
\* table leads to.
Channels == [b \in 1 .. 17 |-> IF b <= 4 THEN 32 ELSE IF b <= 8 THEN 64 ELSE IF b <= 14 THEN 128 ELSE 256]
Height == [b \in 1 .. 17 |-> IF b <= 4 THEN 80 ELSE IF b <= 8 THEN 40 ELSE IF b <= 14 THEN 20 ELSE 10]
ActivationsFit ==
  block \in 1 .. 17 =>
    /\ x = Tensor(x.name, x.n, x.c, x.h, x.w)
    /\ x.c = Channels[block] /\ x.h = Height[block] /\ x.w \in Int

\* Where the first convolution of a block has a lattice, its seed is there.
SeedIsFresh ==
  block \in 1 .. 16 =>
    LET lattice == Lattice(Blocks[block].conv1) IN
      lattice # None => seed = [lattice |-> lattice, len |-> Length(x)] /\ xq = Quantized(x, lattice)

SeedIInv ==
  /\ net \in Nets /\ block \in 0 .. 17
  /\ ActivationsFit /\ SeedIsFresh /\ ReadsOwnInput
=============================================================================
