-------------------------- MODULE PowersetForward --------------------------
(***************************************************************************)
(* The segmentation network of polyvoice-kernels: powerset.rs, the           *)
(* convolutions of seq1d.rs before its LSTMs, lstm.rs, the dynamic           *)
(* quantization of qlinear.rs after them, and scratch.rs, the pool that all   *)
(* forwards of the process share.                                            *)
(*                                                                         *)
(* A value is named by where it comes from: a sample or an activation by its *)
(* address, the output of an LSTM direction by the rows it has seen, in the   *)
(* order it saw them.                                                        *)
(***************************************************************************)
EXTENDS Integers, Sequences, FiniteSets

CONSTANTS
  Threads,     \* threads that run forwards
  POOL_SLOTS,  \* buffers kept between uses
  LAYERS       \* LSTM layers

VARIABLES
  free,  \* the pool: buffers put back
  pc,    \* per thread, the place in its script; 0 while idle
  held,  \* per thread, its buffers by name
  done   \* per thread, what its last forward returned

vars == <<free, pc, held, done>>

PowersetAssumption == POOL_SLOTS \in Nat /\ LAYERS \in Nat \ {0}

Size(n) == 0 .. n - 1
Least(a, b) == IF a < b THEN a ELSE b

-----------------------------------------------------------------------------
(* seq1d.rs. *)

(* The output length of conv1d and of max_pool1d: none is padded. *)
OutLen(l, k, stride) == (l - k) \div stride + 1

\* Mutant: the outputs that fill no tile are left out.
FullTiles(ol, tile) == {[o0 |-> o0, tn |-> tile] : o0 \in {o \in Size(ol) : o % tile = 0 /\ o + tile <= ol}}

\* The tiles of a row of ol outputs.
Tiles(ol, tile) == {[o0 |-> o0, tn |-> Least(ol - o0, tile)] : o0 \in {o \in Size(ol) : o % tile = 0}}

(* The im2col of conv1d_ic1 and conv1d_k5: the address behind row r, column j. *)
TileColumn(s, n, t, r, j) == (n * s.ic + r \div s.k) * s.l + (t.o0 + j) * s.stride + (r % s.k)

(* conv1d_ic1, conv1d_k5: tile by tile, each output with its weight row. *)
ConvTiled(s, tile) ==
  LET ol == OutLen(s.l, s.k, s.stride)
      Writes(t) == {[at |-> n * s.oc * ol + o * ol + t.o0 + j,
                     value |-> <<o, [r \in Size(s.ic * s.k) |-> TileColumn(s, n, t, r, j)]>>] :
                      n \in Size(s.n), o \in Size(s.oc), j \in Size(t.tn)}
  IN UNION {Writes(t) : t \in Tiles(ol, tile)}

(* conv1d_generic. *)
ConvGeneric(s) ==
  LET ol == OutLen(s.l, s.k, s.stride)
  IN {[at |-> (n * s.oc + o) * ol + i,
       value |-> <<o, [r \in Size(s.ic * s.k) |-> (n * s.ic + r \div s.k) * s.l + i * s.stride + (r % s.k)]>>] :
        n \in Size(s.n), o \in Size(s.oc), i \in Size(ol)}

(* max_pool1d: four windows at a time, then one, for windows of three; the    *)
(* samples each output is the maximum of.                                    *)
MaxPool1d(l, k, stride) ==
  LET ol == OutLen(l, k, stride)
      Window(i, at) == [out |-> i, of |-> {at + kk : kk \in Size(k)}]
      Four(i) == {Window(i + d, 3 * i + 3 * d) : d \in 0 .. 3}
  IN IF k = 3 /\ stride = 3
     THEN UNION {Four(4 * q) : q \in Size(ol \div 4)} \cup {Window(i, 3 * i) : i \in (ol - (ol % 4)) .. ol - 1}
     ELSE {Window(i, i * stride) : i \in Size(ol)}

(* forward: the frames left of t samples. *)
Frames(t) == OutLen(OutLen(OutLen(OutLen(OutLen(OutLen(t, 251, 10), 3, 3), 5, 1), 3, 3), 5, 1), 3, 3)

MIN_SAMPLES == 1251

-----------------------------------------------------------------------------
(* lstm.rs. *)

(* apply_gates, apply_gates_vec: w cells at a time and the rest one by one;    *)
(* the four gates of cell hh.                                                *)
ApplyGates(h, w) ==
  LET Vector == {[cell |-> w * i + j, gates |-> [g \in 0 .. 3 |-> g * h + w * i + j]] : i \in Size(h \div w), j \in Size(w)}
      Scalar == {[cell |-> hh, gates |-> [g \in 0 .. 3 |-> g * h + hh]] : hh \in w * (h \div w) .. h - 1}
  IN Vector \cup Scalar

(* run_direction: for every time and item, the rows of x its state has seen     *)
(* since the zero state, oldest first.                                       *)
RunDirection(seq, batch, reverse) ==
  LET At(i) == IF reverse THEN seq - i ELSE i - 1
      State[i \in 0 .. seq] ==
        IF i = 0 THEN [b \in Size(batch) |-> <<>>]
        ELSE [b \in Size(batch) |-> Append(State[i - 1][b], At(i) * batch + b)]
  IN [row \in Size(seq * batch) |->
        State[IF reverse THEN seq - row \div batch ELSE row \div batch + 1][row % batch]]

(* powerset.rs, forward: [N, 60, F] to [F, N, 60], and [F, N, 256] to [N, F, 256].  *)
ToSequence(n, frames, feat) ==
  [at \in Size(frames * n * feat) |->
     LET f == at \div (n * feat)
         ni == (at \div feat) % n
         c == at % feat
     IN (ni * feat + c) * frames + f]
FromSequence(n, frames) == [row \in Size(n * frames) |-> (row % frames) * n + row \div frames]

-----------------------------------------------------------------------------
(* qlinear.rs. *)

\* p / q to the nearest integer, halves to the even one, for q > 0.
RoundHalfEven(p, q) ==
  LET low == p \div q
      rest == p % q
  IN IF 2 * rest > q \/ (2 * rest = q /\ low % 2 = 1) THEN low + 1 ELSE low

Clamp(v, lo, hi) == IF v < lo THEN lo ELSE IF v > hi THEN hi ELSE v

(* dyn_quant_u8, for integers: the scale is span / 255. *)
DynQuantU8(xs) ==
  LET lo == CHOOSE v \in {0} \cup {xs[i] : i \in DOMAIN xs} : \A i \in DOMAIN xs : v <= xs[i] /\ v <= 0
      hi == CHOOSE v \in {0} \cup {xs[i] : i \in DOMAIN xs} : \A i \in DOMAIN xs : v >= xs[i] /\ v >= 0
      span == IF hi > lo THEN hi - lo ELSE 255
      zp == Clamp(RoundHalfEven(-255 * lo, span), 0, 255)
  IN [span |-> span, zp |-> zp,
      q |-> [i \in DOMAIN xs |-> Clamp(RoundHalfEven(255 * xs[i] + zp * span, span), 0, 255)]]

(* apply_linear: with int8 weights each item of the batch has a scale of its own; *)
(* the rows a row of the output shares its scale with.                        *)
ApplyLinearScale(n, frames, row) == {r \in Size(n * frames) : r \div frames = row \div frames}

(* matmul_integer, transpose_kn: the products of one output, eight at a time.   *)
MatmulInteger(k, n, mi, ni) ==
  LET nk == [at \in Size(n * k) |-> (at % k) * n + at \div k]
      Terms(ks) == {<<mi * k + ki, nk[ni * k + ki]>> : ki \in ks}
  IN Terms(Size(8 * (k \div 8))) \cup Terms(8 * (k \div 8) .. k - 1)

-----------------------------------------------------------------------------
(* scratch.rs.  A buffer is what its elements hold.                          *)

Cleared == <<"cleared">>
Zeros == <<"zeros">>

\* v.resize fills only what is new: a buffer that was not cleared keeps the rest.
Grown(buffer) == IF buffer = Cleared THEN Zeros ELSE buffer

(* take_f32, called under its name. *)
TakeF32(t, name) ==
  LET buffer == IF free = <<>> THEN Cleared ELSE free[Len(free)]
  IN /\ held' = [held EXCEPT ![t] = [x \in {name} \cup DOMAIN @ |-> IF x = name THEN Grown(buffer) ELSE @[x]]]
     /\ free' = IF free = <<>> THEN free ELSE SubSeq(free, 1, Len(free) - 1)

\* Mutant: put back as it is.
PutDirty(buffer) == IF Len(free) < POOL_SLOTS THEN Append(free, buffer) ELSE free

(* put_f32. *)
Put(buffer) == IF Len(free) < POOL_SLOTS THEN Append(free, Cleared) ELSE free

PutF32(t, name) ==
  /\ free' = Put(held[t][name])
  /\ held' = [held EXCEPT ![t] = [x \in DOMAIN @ \ {name} |-> @[x]]]

-----------------------------------------------------------------------------
(* forward after the convolutions.                                           *)

\* The output buffer of a layer: the input of the one after it.
Output(layer) == IF layer % 2 = 1 THEN "lstm_a" ELSE "lstm_b"
Input(layer) == IF layer = 1 THEN "seq" ELSE Output(layer - 1)

Act(op, name) == [op |-> op, name |-> name, layer |-> 0, dir |-> 0]

(* run_direction: its three buffers around the recurrence. *)
DirectionScript(layer, dir) ==
  <<Act("take", "xw"), Act("take", "ht"), Act("take", "ct"),
    [op |-> "run", name |-> Output(layer), layer |-> layer, dir |-> dir],
    Act("put", "xw"), Act("put", "ht"), Act("put", "ct")>>

(* forward, forward_into: the buffers, both directions of every layer, in seven *)
(* steps each, and the buffers again.                                         *)
Before == <<Act("take", "seq"), Act("take", "lstm_a"), Act("take", "lstm_b"), Act("take", "ntf"), Act("fill", "seq")>>
After == <<Act("copy", "ntf"), Act("put", "seq"), Act("put", "lstm_a"), Act("put", "lstm_b"), Act("put", "ntf")>>
LayersEnd == 14 * LAYERS + 5
Script(place) ==
  LET direction == (place - 6) \div 7
  IN CASE place <= 5 -> Before[place]
       [] place \in 6 .. LayersEnd -> DirectionScript(1 + direction \div 2, direction % 2)[((place - 6) % 7) + 1]
       [] place > LayersEnd -> After[place - LayersEnd]

LayerOutput(layer, dirs, from) == <<"layer", layer, dirs, from>>
Complete(layer) == LayerOutput(layer, {0, 1}, <<>>)

Init ==
  /\ free = <<>> /\ pc = [t \in Threads |-> 0]
  /\ held = [t \in Threads |-> <<>>] /\ done = [t \in Threads |-> <<"nothing">>]

Holds(t, name, v) == held' = [held EXCEPT ![t][name] = v]

\* A recurrence: the first direction clears the output, the second adds its
\* half; its three buffers end with what it computed.
Run(t, a) ==
  LET from == <<held[t][Input(a.layer)], held[t]["ht"], held[t]["ct"]>>
      whole == a.dir = 1 /\ held[t][a.name] = LayerOutput(a.layer, {0}, from)
      output == IF whole THEN Complete(a.layer) ELSE LayerOutput(a.layer, {a.dir}, from)
  IN held' = [held EXCEPT ![t] = [x \in DOMAIN @ |->
                 CASE x = a.name -> output [] x \in {"ht", "ct", "xw"} -> <<"used">> [] OTHER -> @[x]]]

Start(t) == pc[t] = 0 /\ pc' = [pc EXCEPT ![t] = 1] /\ UNCHANGED <<free, held, done>>

\* One step of a forward's script.
Step(t) ==
  /\ pc[t] > 0
  /\ LET a == Script(pc[t])
     IN /\ \/ a.op = "take" /\ TakeF32(t, a.name) /\ UNCHANGED done
           \/ a.op = "put" /\ PutF32(t, a.name) /\ UNCHANGED done
           \/ a.op = "fill" /\ Holds(t, "seq", Complete(0)) /\ UNCHANGED <<free, done>>
           \/ a.op = "run" /\ Run(t, a) /\ UNCHANGED <<free, done>>
           \/ /\ a.op = "copy" /\ done' = [done EXCEPT ![t] = held[t][Output(LAYERS)]]
              /\ UNCHANGED <<free, held>>
  /\ pc' = [pc EXCEPT ![t] = IF pc[t] = LayersEnd + 5 THEN 0 ELSE pc[t] + 1]

(* reclaim, after any file of any thread. *)
Reclaim == free # <<>> /\ free' = <<>> /\ UNCHANGED <<pc, held, done>>

Next == Reclaim \/ \E t \in Threads : Start(t) \/ Step(t)

Spec == Init /\ [][Next]_vars

-----------------------------------------------------------------------------

\* Every recurrence starts from a zero state though its buffers were another
\* forward's a moment ago, the pool never grows past its slots, and a forward
\* returns its last layer, both directions of it.
ForwardsStartFromZero ==
  /\ \A t \in Threads : pc[t] > 0 /\ Script(pc[t]).op = "run" =>
       {held[t]["ht"], held[t]["ct"], held[t]["xw"]} = {Zeros}
  /\ Len(free) <= POOL_SLOTS
  /\ \A t \in Threads : done[t] \in {<<"nothing">>, Complete(LAYERS)}

\* The inductive invariant.  What was put back is empty.
PoolIsCleared == free \in Seq({Cleared}) /\ Len(free) <= POOL_SLOTS

PowersetTypeOK ==
  /\ pc \in [Threads -> 0 .. LayersEnd + 5]
  /\ DOMAIN held = Threads
  /\ done \in [Threads -> {<<"nothing">>, Complete(LAYERS)}]

\* A forward holds the rows of its layers from its first steps to its last.
HoldsItsRows(t) ==
  pc[t] <= LayersEnd + 1 =>
    /\ pc[t] >= 2 => "seq" \in DOMAIN held[t]
    /\ pc[t] >= 3 => "lstm_a" \in DOMAIN held[t]
    /\ pc[t] >= 4 => "lstm_b" \in DOMAIN held[t]

\* The buffers of a direction are zero from where they are taken to its run.
HoldsZeros(t, name) == name \in DOMAIN held[t] /\ held[t][name] = Zeros
DirectionStartsClean(t) ==
  pc[t] \in 6 .. LayersEnd =>
    LET step == (pc[t] - 6) % 7 IN
      /\ step \in 1 .. 3 => HoldsZeros(t, "xw")
      /\ step \in 2 .. 3 => HoldsZeros(t, "ht")
      /\ step = 3 => HoldsZeros(t, "ct")

\* After n directions: the layers before are whole, and the first direction of
\* a layer has run over the whole of the one before.
LayersAreWhole(t) ==
  pc[t] \in 6 .. LayersEnd + 1 =>
    LET n == (pc[t] - 3) \div 7
        layer == n \div 2 + 1
    IN /\ held[t][Input(layer)] = Complete(layer - 1)
       /\ n % 2 = 1 =>
            held[t][Output(layer)] = LayerOutput(layer, {0}, <<Complete(layer - 1), Zeros, Zeros>>)

PowersetIInv ==
  /\ PoolIsCleared /\ PowersetTypeOK
  /\ \A t \in Threads : HoldsItsRows(t) /\ DirectionStartsClean(t) /\ LayersAreWhole(t)

\* The tiled convolutions are the plain one: nothing is lost or written twice
\* at the seam of two tiles.
Conv1dAgrees(s) ==
  /\ \A tile \in 1 .. s.l : ConvTiled(s, tile) = ConvGeneric(s)
  /\ Cardinality(ConvGeneric(s)) = s.n * s.oc * OutLen(s.l, s.k, s.stride)

\* Every window of the pool is looked at once, whole, and lies in the row; the
\* shortest waveform let in (l is what it has beyond that) leaves a frame.
PoolCovers(l) ==
  /\ LET p == MaxPool1d(l, 3, 3)
     IN /\ Cardinality(p) = OutLen(l, 3, 3)
        /\ \A w \in p : w.of = 3 * w.out .. 3 * w.out + 2 /\ 3 * w.out + 2 < l
     /\ Frames(MIN_SAMPLES + l) >= 1

\* Frame f of clip ni: its own features in, and out the row that has seen the
\* frames 0 .. f of that clip forwards and the frames from the last to f
\* backwards, and no other clip's.
FramesKeepTheirClip(n, frames) ==
  \A ni \in Size(n), f \in Size(frames) :
    LET row == FromSequence(n, frames)[ni * frames + f]
    IN /\ \A c \in 0 .. 1 : ToSequence(n, frames, 2)[row * 2 + c] = (ni * 2 + c) * frames + f
       /\ RunDirection(frames, n, FALSE)[row] = [i \in 1 .. f + 1 |-> (i - 1) * n + ni]
       /\ RunDirection(frames, n, TRUE)[row] = [i \in 1 .. frames - f |-> (frames - i) * n + ni]
       /\ ApplyLinearScale(n, frames, ni * frames + f) = ni * frames .. ni * frames + frames - 1

\* Each cell takes its own four gates once, whatever the width of the vectors.
GatesCover(h) ==
  \A w \in {1, 4, 16} : ApplyGates(h, w) = {[cell |-> c, gates |-> [g \in 0 .. 3 |-> g * h + c]] : c \in Size(h)}

\* Quantizing and back is off by at most half a step, zero is exact, and the
\* integer product takes every term of its row and column.
QuantizesClosely(xs) ==
  LET d == DynQuantU8(xs)
      Twice(v) == IF v < 0 THEN -2 * v ELSE 2 * v
  IN /\ \A i \in DOMAIN xs : Twice((d.q[i] - d.zp) * d.span - 255 * xs[i]) <= d.span
     /\ \A i \in DOMAIN xs : xs[i] = 0 => d.q[i] = d.zp
     /\ \A k \in {Len(xs), Len(xs) + 8} : \A mi, ni \in 0 .. 1 :
          MatmulInteger(k, 2, mi, ni) = {<<mi * k + ki, ki * 2 + ni>> : ki \in Size(k)}
=============================================================================
