------------------------------- MODULE ConvI8 -------------------------------
(***************************************************************************)
(* The implicit INT8 convolution of polyvoice-kernels/src/conv_i8.  No      *)
(* im2col matrix is ever built: a few input rows are kept packed in a ring, *)
(* each output row is cut into tiles of adjacent pixels, the patch of every *)
(* pixel of a tile is gathered, and the tile is multiplied four output      *)
(* channels at a time.  Heavy layers are cut over the worker pool, by       *)
(* output rows or by output channels.                                       *)
(*                                                                         *)
(* What the arithmetic does with a patch is left out: the value of an       *)
(* output is the weight row it was computed with and the patch, a function  *)
(* from taps to input pixels.  All channels of a pixel travel together.     *)
(***************************************************************************)
EXTENDS Integers, FiniteSets

CONSTANTS
  PN,         \* pixels of a wide tile
  NR16,       \* pixels of a narrow tile and of one kernel call
  NR,         \* pixels of one call of the kernel for unzipped panels
  MR,         \* output channels of one kernel call
  WAVE,       \* tiles gathered before they are multiplied
  MAX_TILES,  \* tiles of a row gathered once for every channel worker
  SPLIT_OC,   \* output channels from which the channels are split
  Shapes      \* the layers and inputs considered

\* What the constants are taken to be; a kernel fits the padded image, or
\* out_hw_dims would not return.
ConstantsAssumption ==
  /\ {PN, NR16, NR, MR, WAVE, MAX_TILES} \subseteq Nat \ {0}
  /\ PN % NR16 = 0 /\ NR16 % NR = 0
  /\ \A s \in Shapes :
       /\ s \in [k : Nat \ {0}, pad : Nat, stride : Nat \ {0}, n : Nat, oc : Nat, h : Nat, w : Nat,
                 threads : Nat, heavy : BOOLEAN, zip : BOOLEAN]
       /\ s.k <= s.h + 2 * s.pad /\ s.k <= s.w + 2 * s.pad

VARIABLES
  shape,   \* the layer and its input
  image,   \* the image of the batch that is worked on
  phase,   \* "dispatch", "scan", "gather", "stream" or "done"
  todo,    \* the tasks nobody took yet
  task,    \* the task in hand
  row,     \* its next output row
  ring,    \* the thread's three packed input rows
  slots,   \* stride 2: the rows of the ring that are top, mid and bottom
  slab,    \* channel split: the gathered tiles of every row
  out,     \* per address of the output, the values written there
  claims   \* per task of this dispatch, the addresses it wrote

vars == <<shape, image, phase, todo, task, row, ring, slots, slab, out, claims>>

Least(a, b) == IF a < b THEN a ELSE b
CeilDiv(a, b) == (a + b - 1) \div b
Size(n) == 0 .. n - 1

(* out_hw_dims. *)
OutDim(s, len) == (len + 2 * s.pad - s.k) \div s.stride + 1
OH(s) == OutDim(s, s.h)
OW(s) == OutDim(s, s.w)

(* write_out_sl and the vector stores: the NCHW address of an output. *)
Address(s, im, oc, oy, ox) == ((im * s.oc + oc) * OH(s) + oy) * OW(s) + ox
Addresses(s) == Size(s.n * s.oc * OH(s) * OW(s))

-----------------------------------------------------------------------------
(* The patch of a pixel. *)

Taps(s) == Size(s.k) \X Size(s.k)

\* A pixel is <<image, row, column>>, padding, or what lies past a buffer's
\* end; a row left in the ring by an earlier call belongs to no image.
Zp == <<"zp">>
Beyond == <<"beyond">>
Stale == <<-1, -1>>

\* What a convolution reads for the output (oy, ox): the definition the
\* kernels are measured against.
Patch(s, im, oy, ox) ==
  [t \in Taps(s) |->
     LET iy == oy * s.stride + t[1] - s.pad
         ix == ox * s.stride + t[2] - s.pad
     IN IF iy \in Size(s.h) /\ ix \in Size(s.w) THEN <<im, iy, ix>> ELSE Zp]

(* pack_pad_row: a row of the image with a pixel of padding on each side. *)
PackPadRow(s, im, iy) == IF iy \in Size(s.h) THEN <<im, iy>> ELSE Zp

\* Column x of a packed row; beyond the padding lies another channel.
PackedPixel(s, packed, x) ==
  CASE x > s.w + 1 -> Beyond
    [] packed = Zp \/ x \in {0, s.w + 1} -> Zp
    [] OTHER -> <<packed[1], packed[2], x - 1>>

(* row_slot. *)
RowSlot(oy, kh) == (oy + kh) % 3

(* gather_kn_from_rows, gather_one_from_rows, gather_zip_direct. *)
GatherS1(s, rows, oy, ox) ==
  [t \in Taps(s) |-> PackedPixel(s, rows[RowSlot(oy, t[1])], ox + t[2])]

(* gather_kn_s2, copy_strided2. *)
GatherS2(s, ox) ==
  [t \in Taps(s) |-> PackedPixel(s, ring[slots[t[1]]], 2 * ox + t[2])]

\* Pixel ix counted from the start of row iy of the unpadded image: past the
\* end of a row the next one begins.
FlatPixel(s, im, iy, ix) ==
  LET at == iy * s.w + ix
  IN IF at \in Size(s.h * s.w) THEN <<im, at \div s.w, at % s.w>> ELSE Beyond

(* implicit_tile_3x3: no bounds are checked inside a tile. *)
GatherTile3x3(s, im, oy, ox) ==
  [t \in Taps(s) |-> FlatPixel(s, im, oy * s.stride + t[1] - 1, ox * s.stride + t[2] - 1)]

(* gather_1x1. *)
Gather1x1(s, im, oy, ox) ==
  [t \in Taps(s) |-> FlatPixel(s, im, oy * s.stride, ox * s.stride)]

(* gather_one_3x3, conv_gather: every tap is checked. *)
GatherOne(s, im, oy, ox) == Patch(s, im, oy, ox)

-----------------------------------------------------------------------------
(* Tiles of one output row and what a tile writes. *)

TileAt(ox, pn) == [ox |-> ox, pn |-> pn]

(* The widest tile that fits the rest of the row. *)
TileWidth(room) ==
  IF room >= PN THEN PN ELSE IF room >= NR16 THEN NR16 ELSE 0

NextTile(s, width, cut) ==
  LET pn == IF cut.ox < OW(s) THEN width[cut.ox] ELSE 0
  IN IF pn = 0 THEN cut
     ELSE [tiles |-> cut.tiles \cup {TileAt(cut.ox, pn)}, ox |-> cut.ox + pn]

(* At most cap tiles from column start on, and the column they stop at. *)
TilesFrom(s, start, cap, width) ==
  LET Cut[i \in 0 .. cap] ==
        IF i = 0 THEN [tiles |-> {}, ox |-> start] ELSE NextTile(s, width, Cut[i - 1])
  IN Cut[cap]

\* The channel groups of lo .. hi - 1; a group is cut at the layer's last
\* channel, not at hi.
GroupsOf(lo, hi) == {mo \in lo .. hi - 1 : (mo - lo) % MR = 0}
GroupChannels(s, mo) == mo .. mo + Least(MR, s.oc - mo) - 1

Write(s, im, oc, oy, ox, patch) == [at |-> Address(s, im, oc, oy, ox), value |-> <<oc, patch>>]

(* gemm_panel, gemm_panel_kn16 and the group loops of the zip rows: full     *)
(* groups by the kernel, the last channels and pixels one by one.            *)
TileWrites(s, im, oy, tile, lo, hi, px) ==
  {Write(s, im, oc, oy, tile.ox + t, px[tile.ox + t]) :
     oc \in UNION {GroupChannels(s, mo) : mo \in GroupsOf(lo, hi)}, t \in Size(tile.pn)}

(* store_col. *)
ColumnWrites(s, im, oy, ox, lo, hi, px) ==
  {Write(s, im, oc, oy, ox, px[ox]) : oc \in lo .. hi - 1}

ColumnsWrites(s, im, oy, from, lo, hi, px) ==
  UNION {ColumnWrites(s, im, oy, ox, lo, hi, px) : ox \in from .. OW(s) - 1}

TilesWrites(s, im, oy, tiles, lo, hi, px) ==
  UNION {TileWrites(s, im, oy, tile, lo, hi, px) : tile \in tiles}

(* The last pixels of a row: one tile that overlaps the one before, when the *)
(* row is wide enough, or one pixel at a time.                               *)
OverlapOrColumns(s, im, oy, from, lo, hi, px) ==
  IF OW(s) >= NR16
  THEN TileWrites(s, im, oy, TileAt(OW(s) - NR16, NR16), lo, hi, px)
  ELSE ColumnsWrites(s, im, oy, from, lo, hi, px)

RestOfRow(s, ox) == TileWidth(OW(s) - ox)

(* A row in waves: gather up to WAVE tiles, multiply them, go on. *)
WavesOf(s, im, oy, lo, hi, px, last) ==
  LET width == [ox \in Size(OW(s)) |-> RestOfRow(s, ox)]
      From[ox \in 0 .. OW(s)] ==
        LET wave == TilesFrom(s, ox, WAVE, width)
        IN IF ox = OW(s) THEN {}
           ELSE IF wave.tiles = {} THEN last[ox]
           ELSE TilesWrites(s, im, oy, wave.tiles, lo, hi, px) \cup From[wave.ox]
  IN From[0]

-----------------------------------------------------------------------------
(* One output row of each scan. *)

(* s1_scan_row_zip, and the loops of s1_scan when the zip kernels are missing. *)
S1RowWrites(s, rows, im, oy, lo, hi) ==
  LET px == [ox \in Size(OW(s)) |-> GatherS1(s, rows, oy, ox)]
      overlap == [ox \in Size(OW(s)) |-> OverlapOrColumns(s, im, oy, ox, lo, hi, px)]
      columns == [ox \in Size(OW(s)) |-> ColumnsWrites(s, im, oy, ox, lo, hi, px)]
  IN IF s.zip THEN WavesOf(s, im, oy, lo, hi, px, overlap)
              ELSE WavesOf(s, im, oy, lo, hi, px, columns)

(* s2_scan_row_zip: the last pixels always go one by one. *)
S2RowWrites(s, im, oy, lo, hi) ==
  LET px == [ox \in Size(OW(s)) |-> GatherS2(s, ox)]
      columns == [ox \in Size(OW(s)) |-> ColumnsWrites(s, im, oy, ox, lo, hi, px)]
  IN WavesOf(s, im, oy, lo, hi, px, columns)

(* last_ix: the last input column of a tile. *)
LastIx(s, ox, pn) == (ox + pn - 1) * s.stride + 1

(* conv3x3: in rows with no padding the first pixel alone, then tiles of      *)
(* three widths while their input ends inside the row, then pixels.           *)
Conv3x3RowWrites(s, im, oy) ==
  LET mid == oy * s.stride
      interior == mid >= 1 /\ mid + 1 < s.h
      tile == [ox \in Size(OW(s)) |-> GatherTile3x3(s, im, oy, ox)]
      one == [ox \in Size(OW(s)) |-> GatherOne(s, im, oy, ox)]
      Fits(ox, pn) == ox + pn <= OW(s) /\ LastIx(s, ox, pn) < s.w
      Run(from, pn) ==
        TilesFrom(s, from, OW(s), [ox \in Size(OW(s)) |-> IF Fits(ox, pn) THEN pn ELSE 0])
      wide == Run(1, PN)
      narrow == Run(wide.ox, NR16)
      thin == Run(narrow.ox, NR)
  IN IF interior
     THEN ColumnWrites(s, im, oy, 0, 0, s.oc, one)
          \cup TilesWrites(s, im, oy, wide.tiles \cup narrow.tiles \cup thin.tiles, 0, s.oc, tile)
          \cup ColumnsWrites(s, im, oy, thin.ox, 0, s.oc, one)
     ELSE ColumnsWrites(s, im, oy, 0, 0, s.oc, one)

(* conv1x1_pn. *)
Conv1x1Pn(s, ox) ==
  LET room == IF s.stride = 1 THEN OW(s) - ox ELSE (s.w - 1) \div s.stride + 1 - ox
  IN IF room >= NR16 THEN TileWidth(room) ELSE IF room > 0 THEN Least(room, PN) ELSE 0

(* The tiles conv1x1_row_zip gathers before the leftover, and what is left. *)
ZipTiles1x1(s) ==
  LET zipped == [ox \in Size(OW(s)) |-> IF Conv1x1Pn(s, ox) % NR16 = 0 THEN Conv1x1Pn(s, ox) ELSE 0]
  IN TilesFrom(s, 0, MAX_TILES, zipped)

(* conv1x1 without the zip kernels: tiles of any width. *)
PlainTiles1x1(s) ==
  TilesFrom(s, 0, OW(s), [ox \in Size(OW(s)) |-> Conv1x1Pn(s, ox)])

(* conv1x1, conv1x1_row_zip: tiles, then one overlapping tile for whatever is left. *)
Conv1x1RowWrites(s, im, oy) ==
  LET px == [ox \in Size(OW(s)) |-> Gather1x1(s, im, oy, ox)]
      zip == ZipTiles1x1(s)
  IN IF s.zip
     THEN TilesWrites(s, im, oy, zip.tiles, 0, s.oc, px)
          \cup (IF zip.ox < OW(s) THEN OverlapOrColumns(s, im, oy, zip.ox, 0, s.oc, px) ELSE {})
     ELSE TilesWrites(s, im, oy, PlainTiles1x1(s).tiles, 0, s.oc, px)

(* conv_gather. *)
ConvGatherRowWrites(s, im, oy) ==
  ColumnsWrites(s, im, oy, 0, 0, s.oc, [ox \in Size(OW(s)) |-> GatherOne(s, im, oy, ox)])

-----------------------------------------------------------------------------
(* Which kernel, and how its work is cut. *)

(* run_from_xq. *)
Kernel(s) ==
  CASE s.k = 3 /\ s.pad = 1 /\ s.stride <= 1 -> "s1"
    [] s.k = 3 /\ s.pad = 1 /\ s.stride = 2 -> "s2"
    [] s.k = 3 /\ s.pad = 1 /\ s.stride > 2 -> "conv3x3"
    [] s.k = 1 /\ s.pad = 0 -> "conv1x1"
    [] OTHER -> "gather"

Task(oy0, oy1, lo, hi) == [oy0 |-> oy0, oy1 |-> oy1, lo |-> lo, hi |-> hi]
WholeImage(s) == Task(0, OH(s), 0, s.oc)

\* Mutants: the last worker stops at the last whole group; the workers that
\* follow one with an extra group start before its end.
OcBoundsWithoutRest(oc, t, n) ==
  LET base == (oc \div MR) \div n
      extra == (oc \div MR) % n
      g0 == t * base + Least(t, extra)
  IN <<g0 * MR, (g0 + base + (IF t < extra THEN 1 ELSE 0)) * MR>>

OcBoundsWithoutShift(oc, t, n) ==
  LET base == (oc \div MR) \div n
      extra == (oc \div MR) % n
  IN <<t * base * MR, IF t + 1 = n THEN oc ELSE (t * base + base + (IF t < extra THEN 1 ELSE 0)) * MR>>

(* oc_bounds: whole groups, as evenly as they go; the last worker also takes *)
(* the channels that fill no group.                                          *)
OcBounds(oc, t, n) ==
  LET base == (oc \div MR) \div n
      extra == (oc \div MR) % n
      g0 == t * base + Least(t, extra)
      g1 == g0 + base + (IF t < extra THEN 1 ELSE 0)
  IN <<g0 * MR, IF t + 1 = n THEN oc ELSE g1 * MR>>

ChannelTasks(s, n) ==
  {Task(0, OH(s), OcBounds(s.oc, t, n)[1], OcBounds(s.oc, t, n)[2]) : t \in Size(n)}

RowTasks(s, n) ==
  LET chunk == CeilDiv(OH(s), n)
  IN {Task(t * chunk, Least(t * chunk + chunk, OH(s)), 0, s.oc) : t \in Size(n)}

NonEmpty(tasks) == {t \in tasks : t.oy0 < t.oy1 /\ t.lo < t.hi}

\* The pool is worth waking, and the layer is wide enough to split channels.
Parallel(s) == s.threads > 1 /\ s.heavy
SplitsChannels(s) == s.oc >= SPLIT_OC /\ s.oc \div MR >= 2
ChannelWorkers(s) == Least(s.threads, s.oc \div MR)

(* s1_scan: the shared gather needs the zip kernels. *)
SharedGather(s) ==
  /\ Kernel(s) = "s1" /\ s.zip
  /\ Parallel(s) /\ SplitsChannels(s) /\ ChannelWorkers(s) > 1

(* conv3x3_s1_rows. *)
S1Plan(s) ==
  IF Parallel(s) /\ ~SplitsChannels(s) /\ Least(s.threads, OH(s)) > 1
  THEN NonEmpty(RowTasks(s, Least(s.threads, OH(s))))
  ELSE {WholeImage(s)}

(* conv3x3_s2_rows. *)
S2Plan(s) ==
  IF Parallel(s) /\ SplitsChannels(s) /\ ChannelWorkers(s) > 1
  THEN NonEmpty(ChannelTasks(s, ChannelWorkers(s)))
  ELSE {WholeImage(s)}

Plan(s) ==
  CASE Kernel(s) = "s1" -> S1Plan(s) [] Kernel(s) = "s2" -> S2Plan(s) [] OTHER -> {WholeImage(s)}

-----------------------------------------------------------------------------

NoTask == Task(0, 0, 0, 0)

\* The ring and the slab belong to the thread and keep what the last call left.
Init ==
  /\ shape \in Shapes
  /\ image = 0 /\ phase = "dispatch"
  /\ todo = {} /\ task = NoTask /\ row = 0
  /\ ring = [i \in 0 .. 2 |-> Stale] /\ slots = [i \in 0 .. 2 |-> i]
  /\ slab = <<>>
  /\ out = [a \in Addresses(shape) |-> {}]
  /\ claims = <<>>

\* What one step writes, and for which task.
Store(t, writes) ==
  /\ out' = [a \in DOMAIN out |-> out[a] \cup {v.value : v \in {v \in writes : v.at = a}}]
  /\ claims' = [claims EXCEPT ![t] = @ \cup {v.at : v \in writes}]

(* The loop over the images of the batch: one dispatch each. *)
Dispatch ==
  /\ phase = "dispatch"
  /\ IF image < shape.n
     THEN /\ todo' = Plan(shape) /\ phase' = "scan"
          /\ claims' = [t \in Plan(shape) |-> {}]
     ELSE phase' = "done" /\ UNCHANGED <<todo, claims>>
  /\ UNCHANGED <<shape, image, task, row, ring, slots, slab, out>>

(* A worker takes a task and packs the first rows: the head of s1_scan and of *)
(* s2_scan.                                                                   *)
TakeTask ==
  /\ phase = "scan" /\ task = NoTask
  /\ \E t \in todo : task' = t /\ todo' = todo \ {t} /\ row' = t.oy0
  /\ ring' = CASE Kernel(shape) = "s1" ->
                    [ring EXCEPT ![row' % 3] = PackPadRow(shape, image, row' - 1),
                                 ![(row' + 1) % 3] = PackPadRow(shape, image, row')]
               [] Kernel(shape) = "s2" -> [i \in 0 .. 2 |-> PackPadRow(shape, image, i - 1)]
               [] OTHER -> ring
  /\ slots' = [i \in 0 .. 2 |-> i]
  /\ phase' = IF SharedGather(shape) THEN "gather" ELSE "scan"
  /\ UNCHANGED <<shape, image, slab, out, claims>>

\* The row below the current output row replaces the oldest of the ring.
PackNextRow == ring' = [ring EXCEPT ![(row + 2) % 3] = PackPadRow(shape, image, row + 1)]

(* s1_scan: one output row. *)
S1Row ==
  /\ phase = "scan" /\ task # NoTask /\ row < task.oy1 /\ Kernel(shape) = "s1"
  /\ PackNextRow
  /\ Store(task, S1RowWrites(shape, ring', image, row, task.lo, task.hi))
  /\ row' = row + 1
  /\ UNCHANGED <<shape, image, phase, todo, task, slots, slab>>

(* s2_scan: one output row, then two new input rows and the bottom one is top. *)
S2Row ==
  /\ phase = "scan" /\ task # NoTask /\ row < task.oy1 /\ Kernel(shape) = "s2"
  /\ Store(task, S2RowWrites(shape, image, row, task.lo, task.hi))
  /\ LET bot == slots[2] IN
       /\ slots' = [i \in 0 .. 2 |-> (bot + i) % 3]
       /\ ring' = [ring EXCEPT ![(bot + 1) % 3] = PackPadRow(shape, image, 2 * (row + 1)),
                               ![(bot + 2) % 3] = PackPadRow(shape, image, 2 * (row + 1) + 1)]
  /\ row' = row + 1
  /\ UNCHANGED <<shape, image, phase, todo, task, slab>>

(* conv3x3, conv1x1, conv_gather: one output row, read from the image itself. *)
DirectRow ==
  /\ phase = "scan" /\ task # NoTask /\ row < task.oy1
  /\ \/ Kernel(shape) = "conv3x3" /\ Store(task, Conv3x3RowWrites(shape, image, row))
     \/ Kernel(shape) = "conv1x1" /\ Store(task, Conv1x1RowWrites(shape, image, row))
     \/ Kernel(shape) = "gather" /\ Store(task, ConvGatherRowWrites(shape, image, row))
  /\ row' = row + 1
  /\ UNCHANGED <<shape, image, phase, todo, task, ring, slots, slab>>

\* The task is done; the pool returns when all are.
EndTask ==
  /\ phase = "scan" /\ task # NoTask /\ row = task.oy1
  /\ task' = NoTask
  /\ IF todo = {} THEN image' = image + 1 /\ phase' = "dispatch" ELSE UNCHANGED <<image, phase>>
  /\ UNCHANGED <<shape, todo, row, ring, slots, slab, out, claims>>

-----------------------------------------------------------------------------
(* s1_scan_shared_oc: gather every row once, then stream the channels. *)

\* The tiles of a row; the last pixels as one overlapping tile if there is room.
SharedTiles(s) ==
  LET cut == TilesFrom(s, 0, MAX_TILES, [ox \in Size(OW(s)) |-> RestOfRow(s, ox)])
  IN IF OW(s) >= NR16 /\ cut.ox < OW(s) /\ Cardinality(cut.tiles) < MAX_TILES
     THEN [tiles |-> cut.tiles \cup {TileAt(OW(s) - NR16, NR16)}, ox |-> OW(s)]
     ELSE cut

(* Gather one row into the slab; the columns in no tile are done at once. *)
GatherRow ==
  /\ phase = "gather" /\ row < OH(shape)
  /\ PackNextRow
  /\ LET px == [ox \in Size(OW(shape)) |-> GatherS1(shape, ring', row, ox)]
         cut == SharedTiles(shape)
     IN /\ slab' = [oy \in Size(row + 1) |->
                      IF oy < row THEN slab[oy]
                      ELSE {[tile |-> t, px |-> [x \in t.ox .. t.ox + t.pn - 1 |-> px[x]]] :
                              t \in cut.tiles}]
        /\ Store(task, ColumnsWrites(shape, image, row, cut.ox, 0, shape.oc, px))
  /\ row' = row + 1
  /\ UNCHANGED <<shape, image, phase, todo, task, slots>>

(* Every row is in the slab: the workers share out the channels. *)
StartStreams ==
  /\ phase = "gather" /\ row = OH(shape)
  /\ LET tasks == NonEmpty(ChannelTasks(shape, ChannelWorkers(shape)))
     IN /\ todo' = tasks
        /\ claims' = [t \in tasks \cup DOMAIN claims |->
                        IF t \in DOMAIN claims THEN claims[t] ELSE {}]
  /\ phase' = "stream"
  /\ UNCHANGED <<shape, image, task, row, ring, slots, slab, out>>

\* One worker's channels, full groups only, for every gathered tile.
StreamWrites(t) ==
  UNION {UNION {TileWrites(shape, image, oy, g.tile, mo, mo + 1, g.px) : g \in slab[oy]} :
           oy \in Size(OH(shape)),
           mo \in {mo \in GroupsOf(t.lo, t.hi) : mo + MR <= shape.oc}}

(* The streaming closure of s1_scan_shared_oc. *)
Stream ==
  /\ phase = "stream"
  /\ \E t \in todo : Store(t, StreamWrites(t)) /\ todo' = todo \ {t}
  /\ UNCHANGED <<shape, image, phase, task, row, ring, slots, slab>>

\* The channels that fill no group, gathered again for every tile of every row
\* from whatever the ring holds by now.
LeftoverWrites ==
  LET lo == shape.oc - (shape.oc % MR)
  IN UNION {LET px == [x \in Size(OW(shape)) |-> GatherS1(shape, ring, oy, x)]
            IN UNION {TileWrites(shape, image, oy, g.tile, lo, shape.oc, px) : g \in slab[oy]} :
              oy \in Size(OH(shape))}

(* The end of s1_scan_shared_oc. *)
LeftoverChannels ==
  /\ phase = "stream" /\ todo = {}
  /\ Store(task, LeftoverWrites)
  /\ task' = NoTask /\ image' = image + 1 /\ phase' = "dispatch"
  /\ UNCHANGED <<shape, todo, row, ring, slots, slab>>

Next ==
  \/ Dispatch \/ TakeTask \/ S1Row \/ S2Row \/ DirectRow \/ EndTask
  \/ GatherRow \/ StartStreams \/ Stream \/ LeftoverChannels

Spec == Init /\ [][Next]_vars

-----------------------------------------------------------------------------

\* When the call returns, every output was computed, once or several times,
\* with its own weight row and its own patch: no tile skipped a column, read a
\* row the ring no longer held, or ran over the end of a row.
EveryOutputIsItsConvolution ==
  phase = "done" =>
    \A im \in Size(shape.n), oc \in Size(shape.oc), oy \in Size(OH(shape)), ox \in Size(OW(shape)) :
      out[Address(shape, im, oc, oy, ox)] = {<<oc, Patch(shape, im, oy, ox)>>}

\* Two tasks of one dispatch, which other threads may run at the same time,
\* never write the same address: the comment at s1.rs:98, on which the unsafe
\* slices rest.
TasksAreDisjoint ==
  \A t, u \in DOMAIN claims : t # u => claims[t] \cap claims[u] = {}

-----------------------------------------------------------------------------
(* Why: every task has a share of the image, and writes nothing else.       *)

Outputs(s) == Size(s.oc) \X Size(OH(s)) \X Size(OW(s))

Tasks(s) ==
  IF SharedGather(s) THEN {WholeImage(s)} \cup NonEmpty(ChannelTasks(s, ChannelWorkers(s))) ELSE Plan(s)

\* The channels that fill no group begin here.
FullChannels(s) == s.oc - (s.oc % MR)

\* After a shared gather the channel tasks have the tiles and the full groups,
\* and the task that gathered has the rest.
Share(s, t) ==
  LET from == SharedTiles(s).ox
      InTask(o) == o[1] \in t.lo .. t.hi - 1 /\ o[2] \in t.oy0 .. t.oy1 - 1
      InTiles(o) == o[1] < FullChannels(s) /\ o[3] < from
  IN CASE ~SharedGather(s) -> {o \in Outputs(s) : InTask(o)}
       [] SharedGather(s) /\ t = WholeImage(s) -> {o \in Outputs(s) : ~InTiles(o)}
       [] OTHER -> {o \in Outputs(s) : InTask(o) /\ InTiles(o)}

\* The image the claims are of.
ClaimedImage == IF phase \in {"dispatch", "done"} THEN image - 1 ELSE image

ClaimsStayInTheirShare ==
  \A t \in DOMAIN claims :
    claims[t] \subseteq {Address(shape, ClaimedImage, o[1], o[2], o[3]) : o \in Share(shape, t)}

ConvTypeOK ==
  /\ shape \in Shapes /\ image \in 0 .. shape.n /\ row \in Nat
  /\ phase \in {"dispatch", "scan", "gather", "stream", "done"}
  /\ image = shape.n => phase \in {"dispatch", "done"}

TasksAreTheirs ==
  /\ DOMAIN claims \subseteq Tasks(shape) /\ todo \subseteq DOMAIN claims
  /\ image = 0 /\ phase \in {"dispatch", "done"} => DOMAIN claims = {}
  /\ phase \in {"dispatch", "done"} => todo = {} /\ task = NoTask
  /\ task # NoTask => task \in DOMAIN claims /\ task.oy0 <= row

\* Only a shared gather leaves the scan, with the whole image in hand.
SlabHoldsTheTiles ==
  /\ SharedGather(shape) /\ phase = "scan" => task = NoTask /\ todo \subseteq {WholeImage(shape)}
  /\ phase \in {"gather", "stream"} =>
       /\ SharedGather(shape) /\ task = WholeImage(shape) /\ task \in DOMAIN claims
       /\ \A oy \in Size(row) : \A g \in slab[oy] : g.tile \in SharedTiles(shape).tiles
  /\ phase = "stream" => row = OH(shape)

StreamsAreChannels ==
  phase = "stream" => todo \subseteq NonEmpty(ChannelTasks(shape, ChannelWorkers(shape)))

ConvIInv == ConvTypeOK /\ TasksAreTheirs /\ SlabHoldsTheTiles /\ StreamsAreChannels /\ ClaimsStayInTheirShare

\* No task writes past the end of the output.
WritesAreInside == \A t \in DOMAIN claims : claims[t] \subseteq Addresses(shape)
=============================================================================
