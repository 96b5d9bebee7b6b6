-------------------------------- MODULE Stitch --------------------------------
(***************************************************************************)
(* From what is heard in overlapping windows to the time line of a file,   *)
(* by the two ways the code has.                                           *)
(*                                                                         *)
(* The powerset decoder and the aggregator of src/segmentation: a class is *)
(* a set of at most two of three local speakers; overlapping windows are   *)
(* aligned pairwise, averaged on one grid and run-length encoded.  Time is *)
(* counted in frame strides, the same for every window, as the segmenters  *)
(* produce them.  A window is [start, frames], a frame the weight of each  *)
(* class in place of its softmax, all frames of one total.                 *)
(*                                                                         *)
(* src/pipeline_v2/reconstruct.rs: each window keeps its own local         *)
(* speakers, every (window, speaker) is embedded on its own, and the       *)
(* clusters found for them are put back on the time line frame by frame.   *)
(* A window is [start, masks]: where it begins, and per frame the set of   *)
(* its local speakers that are on.  Times are in frames of one length; a   *)
(* frame is SamplesPerFrame samples of audio.                              *)
(***************************************************************************)
EXTENDS Integers, Sequences, FiniteSets, FiniteSetsExt, SequencesExt

CONSTANTS MaxSpeakers,    \* AggregationConfig::max_local_speakers
          MinSegment,     \* min_segment_secs
          MinEmbed,       \* MIN_EMBED_SECS, in frames
          CleanFallback,  \* CLEAN_FALLBACK_SECS, in frames
          SamplesPerFrame

Assign == INSTANCE Clusters

Locals == 0 .. 2
ClassIndices == 0 .. 6

\* class_for_index, and speakers
ClassForIndex == [i \in ClassIndices |->
  <<{}, {0}, {1}, {2}, {0, 1}, {0, 2}, {1, 2}>>[i + 1]]
\* from_speakers then index; a list the scheme cannot express is 0, silence.
IndexOf(speakers) ==
  IF \E i \in ClassIndices : ClassForIndex[i] = speakers
  THEN CHOOSE i \in ClassIndices : ClassForIndex[i] = speakers ELSE 0

\* The first class of the greatest weight; silence when all weigh nothing.
Argmax(weights) ==
  FoldLeft(LAMBDA best, i : LET w == weights[i] IN IF w > best.weight THEN [class |-> i, weight |-> w] ELSE best,
           [class |-> 0, weight |-> 0], <<0, 1, 2, 3, 4, 5, 6>>).class

\* decode_frame
Decode(frame) == ClassForIndex[Argmax(frame)]

-----------------------------------------------------------------------------
(* The aggregator aligns a window with its predecessor.                    *)

End(w) == w.start + Len(w.frames)

\* frame_index_at: the last frame also answers for the window's end.
FrameIndexAt(w, t) ==
  IF t < w.start \/ t > End(w) \/ Len(w.frames) = 0 THEN {}
  ELSE {1 + Min({t - w.start, Len(w.frames) - 1})}

Overlap(a, b) == Max({a.start, b.start}) .. (Min({End(a), End(b)}) - 1)

\* The times of the overlap at which each speaker is on: a's speakers under
\* the names given to them so far, b's under their own.
MasksOf(w, grid, name) ==
  [s \in Locals |-> {t \in grid : \E i \in FrameIndexAt(w, t) :
                       s \in {name[x] : x \in Decode(w.frames[i])}}]

Identity == [s \in Locals |-> s]

\* -IoU over a denominator that every union of the grid divides.
IouCost(x, y, grid) ==
  LET d == ProductSet(1 .. Cardinality(grid))
  IN IF x \cup y = {} THEN 0 ELSE -((d * Cardinality(x \cap y)) \div Cardinality(x \cup y))

\* The locals of a that the locals of b are, who share the most with them.
Matched(aMasks, bMasks, aActive, bActive, grid) ==
  LET Cost(i, j) == IF i <= Len(aActive) /\ j <= Len(bActive)
                    THEN IouCost(aMasks[aActive[i]], bMasks[bActive[j]], grid) ELSE 0
      Costs(m) == [i \in 1 .. m |-> [j \in 1 .. m |-> Cost(i, j)]]
      Pairs(assignment) ==
        {<<aActive[i], bActive[assignment[i]]>> : i \in {k \in DOMAIN aActive : assignment[k] <= Len(bActive)}}
  IN Pairs(Assign!Solve(Costs(Max({Len(aActive), Len(bActive)}))))

\* Locals that are silent in the overlap keep their own index.
WindowPermutation(a, b, soFar) ==
  LET ActiveIn(masks) == SetToSortSeq({s \in Locals : s < MaxSpeakers /\ masks[s] # {}}, <)
      Renamed(pairs) == [s \in Locals |-> IF \E p \in pairs : p[2] = s THEN (CHOOSE p \in pairs : p[2] = s)[1] ELSE s]
      Aligned(aMasks, bMasks, aActive, bActive, grid) ==
        IF grid = {} \/ Len(aActive) < 2 \/ Len(bActive) < 2 THEN Identity
        ELSE Renamed(Matched(aMasks, bMasks, aActive, bActive, grid))
      Masked(aMasks, bMasks, grid) == Aligned(aMasks, bMasks, ActiveIn(aMasks), ActiveIn(bMasks), grid)
      On(grid) == Masked(MasksOf(a, grid, soFar), MasksOf(b, grid, Identity), grid)
  IN On(Overlap(a, b))

\* The names of every window's locals in the frame of the first.
WindowPermutationsUnchained(windows) ==  \* mutant: against the neighbour's own names
  FoldLeft(LAMBDA names, i :
             Append(names, IF i = 1 THEN Identity ELSE WindowPermutation(windows[i - 1], windows[i], Identity)),
           <<>>, [i \in 1 .. Len(windows) |-> i])

WindowPermutations(windows) ==
  FoldLeft(LAMBDA names, i :
             Append(names, IF i = 1 THEN Identity
                           ELSE WindowPermutation(windows[i - 1], windows[i], names[i - 1])),
           <<>>, [i \in 1 .. Len(windows) |-> i])

-----------------------------------------------------------------------------
(* Averaging on the grid of the file.                                      *)

\* remap_probs: the class each class becomes under a window's names; a pair
\* whose speakers got one name falls to silence.
RemappedClass(name) ==
  [c \in ClassIndices |->
     LET renamed == {name[x] : x \in ClassForIndex[c]}
     IN IF Cardinality(renamed) = Cardinality(ClassForIndex[c]) THEN IndexOf(renamed) ELSE 0]

GridStart(windows) == Min({windows[i].start : i \in DOMAIN windows})
GridEnd(windows) == Max({End(windows[i]) : i \in DOMAIN windows})

\* The weights of one frame of the file: the sum over the windows that have it.
SummedProbs(windows, remapped, t) ==
  LET Covers(i) == t \in windows[i].start .. (End(windows[i]) - 1)
      Share(sums, i) ==
        FoldSet(LAMBDA d, acc : [acc EXCEPT ![remapped[i][d]] = @ + windows[i].frames[t - windows[i].start + 1][d]],
                sums, ClassIndices)
  IN FoldSet(LAMBDA i, acc : Share(acc, i), [c \in ClassIndices |-> 0], {i \in DOMAIN windows : Covers(i)})

\* accumulate_grid and classify_frames without binarization: the class of
\* every frame of the file, from the first; where no window has one nobody
\* speaks.
FrameClasses(windows) ==
  LET Remapped(names) == [i \in DOMAIN windows |-> RemappedClass(names[i])]
      Classes(remapped, start) ==
        FoldLeft(LAMBDA classes, i : Append(classes, Decode(SummedProbs(windows, remapped, start + i - 1))),
                 <<>>, [i \in 1 .. GridEnd(windows) - start |-> i])
  IN Classes(Remapped(WindowPermutations(windows)), GridStart(windows))

-----------------------------------------------------------------------------
(* Run-length encoding.                                                    *)

\* push_frame for one speaker: its open run and the segments closed so far.
PushFrame(state, t, class) ==
  LET on == state.speaker \in class
      overlap == Cardinality(class) = 2
      Closed == IF t - state.run.start < MinSegment THEN state.segments
                ELSE Append(state.segments, [speaker |-> state.speaker, start |-> state.run.start,
                                             end |-> t, overlap |-> state.run.overlap])
      Opened == [on |-> TRUE, start |-> t, overlap |-> overlap]
  IN IF ~state.run.on
     THEN IF on THEN [state EXCEPT !.run = Opened] ELSE state
     ELSE IF on /\ state.run.overlap = overlap THEN state
     ELSE [state EXCEPT !.segments = Closed,
                        !.run = IF on THEN Opened ELSE [@ EXCEPT !.on = FALSE]]

\* finish: the open run is closed at the end of the grid.
RunsOf(classes, speaker) ==
  LET start == [speaker |-> speaker, segments |-> <<>>, run |-> [on |-> FALSE, start |-> 1, overlap |-> FALSE]]
      pushed == FoldLeft(LAMBDA s, t : PushFrame(s, t, classes[t]), start, [t \in DOMAIN classes |-> t])
  IN PushFrame(pushed, Len(classes) + 1, {}).segments

\* The segments of the file; the sort by start leaves their set alone.
SegmentsIn(classes) == UNION {Range(RunsOf(classes, s)) : s \in Locals}
StitchWindows(windows) == IF windows = <<>> THEN {} ELSE SegmentsIn(FrameClasses(windows))

-----------------------------------------------------------------------------
(* What the aggregator is for.                                             *)

\* "the permutation that maps window B's local indices onto A's frame": no two
\* local speakers of a window get one name, so no pair of them falls to silence
\* (remap_probs calls such sets "unreachable from ... a valid permutation").
NamesAreDistinct(windows) ==
  LET names == WindowPermutations(windows)
  IN \A i \in DOMAIN windows : \A x, y \in Locals : names[i][x] = names[i][y] => x = y

\* The segments of a file tile exactly the frames at which the averaged class
\* has their speaker, each solo or overlapped throughout and as long as the
\* class lasts, except for what is shorter than MinSegment.
SegmentsTileTheClasses(windows) ==
  LET Kind(classes, s, t) == IF t \in DOMAIN classes /\ s \in classes[t] THEN Cardinality(classes[t]) ELSE 0
      Maximal(kind, r) == /\ r.start < r.end /\ kind[r.start] # 0
                          /\ \A t \in r.start .. (r.end - 1) : kind[t] = kind[r.start]
                          /\ kind[r.start - 1] # kind[r.start] /\ kind[r.end] # kind[r.start]
      Runs(kind, s, n) ==
        {[speaker |-> s, start |-> r.start, end |-> r.end, overlap |-> kind[r.start] = 2] :
           r \in {q \in [start : 1 .. n, end : 1 .. n + 1] : Maximal(kind, q) /\ q.end - q.start >= MinSegment}}
      Tiles(classes) ==
        UNION {Runs([t \in 0 .. Len(classes) + 1 |-> Kind(classes, s, t)], s, Len(classes)) : s \in Locals}
  IN StitchWindows(windows) = Tiles(FrameClasses(windows))

\* Each later window hears every one of its speakers in the overlap with its
\* predecessor, at least two of them, and no two at the same times.
CanBeAligned(windows) ==
  \A i \in 2 .. Len(windows) :
    LET w == windows[i]
        Apart(heard, masks) ==
          /\ Cardinality(heard) >= 2
          /\ \A x \in heard : masks[x] # {} /\ \A y \in heard \ {x} : masks[x] # masks[y]
    IN Apart(UNION {Decode(w.frames[j]) : j \in DOMAIN w.frames}, MasksOf(w, Overlap(windows[i - 1], w), Identity))

\* Such windows on one scene, each under its own names, are put back together
\* as that scene.
StitchRecovers(scene, windows) ==
  CanBeAligned(windows) => FrameClasses(windows) = scene

-----------------------------------------------------------------------------
(* Reconstruction: who is on in a window.                                   *)

\* masks_from_labels: at most two locals are on at once.
ActiveFrames(w, s) == {f \in DOMAIN w.masks : s \in w.masks[f]}
CleanFrames(w, s) == {f \in DOMAIN w.masks : w.masks[f] = {s}}

-----------------------------------------------------------------------------
(* Reconstruction: what is embedded.                                       *)

\* mask_pcm: the samples of a crop of `len` samples that are kept, counted
\* from 0, when its mask has these frames on out of n.
MaskPcm(len, on, n) ==
  {i \in 0 .. (len - 1) : (1 + Min({(i * n) \div len, n - 1})) \in on}

\* crop_masked: the samples of the chunk kept for the mask, from 0, and how
\* many the crop has.  The chunk may end before its window does.
CropMasked(chunkLen, on) ==
  IF on = {} \/ chunkLen = 0 THEN [kept |-> {}, len |-> 0]
  ELSE LET first == Min(on)
           start == (first - 1) * SamplesPerFrame
           end == Min({Max(on) * SamplesPerFrame, chunkLen})
       IN IF end <= start THEN [kept |-> {}, len |-> 0]
          ELSE [kept |-> {start + i : i \in MaskPcm(end - start, {f - first + 1 : f \in on}, Max(on) - first + 1)},
                len |-> end - start]

ChunkLen(w, audio) == Max({0, Min({Len(w.masks) * SamplesPerFrame, audio - w.start * SamplesPerFrame})})

\* collect_units: window by window and local by local, those heard long enough,
\* on their own frames alone when there are enough of them.
CollectUnits(windows, audio) ==
  LET Unit(i, s) ==
        LET w == windows[i]
            clean == CleanFrames(w, s)
            on == IF Cardinality(clean) >= CleanFallback THEN clean ELSE ActiveFrames(w, s)
        IN [window |-> i, local |-> s, duration |-> Cardinality(on), crop |-> CropMasked(ChunkLen(w, audio), on)]
      Kept(i, s) == /\ ChunkLen(windows[i], audio) > 0
                    /\ Cardinality(ActiveFrames(windows[i], s)) >= MinEmbed
                    /\ Unit(i, s).crop.len >= MinEmbed * SamplesPerFrame
      all == [k \in 1 .. 3 * Len(windows) |-> <<1 + (k - 1) \div 3, (k - 1) % 3>>]
      kept == SelectSeq(all, LAMBDA u : Kept(u[1], u[2]))
  IN [k \in DOMAIN kept |-> Unit(kept[k][1], kept[k][2])]

-----------------------------------------------------------------------------
(* Clusters: labels[k] is the cluster of unit k, from 0; near[k][c] how near *)
(* unit k's embedding is to the centroid of cluster c.                     *)

NumClusters(labels) == IF labels = <<>> THEN 0 ELSE 1 + Max(Range(labels))

\* One unit of a window: if an earlier one took its cluster, the farther of
\* the two moves to the nearest cluster that the window does not use.
RepairUnitKeepFirst(near, k, idxs, state, i) ==  \* mutant: moves to any other cluster
  LET g == state.labels[i]
      free == (0 .. (k - 1)) \ {g}
      best == CHOOSE c \in free : \A d \in free : near[i][d] < near[i][c] \/ (near[i][d] = near[i][c] /\ c <= d)
  IN IF g \notin DOMAIN state.taken
     THEN [state EXCEPT !.taken = [x \in DOMAIN @ \cup {g} |-> IF x = g THEN i ELSE @[x]]]
     ELSE [state EXCEPT !.labels[i] = best]

RepairUnit(near, k, idxs, state, i) ==
  LET g == state.labels[i]
      Takes(taken, c, u) == [x \in DOMAIN taken \cup {c} |-> IF x = c THEN u ELSE taken[x]]
      prev == state.taken[g]
      mover == IF near[i][g] < near[prev][g] THEN i ELSE prev
      stay == IF mover = i THEN prev ELSE i
      free == (0 .. (k - 1)) \ {state.labels[j] : j \in idxs}
      best == CHOOSE c \in free : \A d \in free :
                near[mover][d] < near[mover][c] \/ (near[mover][d] = near[mover][c] /\ c <= d)
  IN IF g \notin DOMAIN state.taken THEN [state EXCEPT !.taken = Takes(@, g, i)]
     ELSE IF free = {} THEN [state EXCEPT !.taken = Takes(@, g, stay)]
     ELSE [labels |-> [state.labels EXCEPT ![mover] = best],
           taken |-> Takes(Takes(state.taken, g, stay), best, mover)]

\* repair_window_conflicts, in the order of windows and of units.
RepairWindowConflicts(units, near, labels) ==
  LET k == NumClusters(labels)
      windows == {units[i].window : i \in DOMAIN units}
      Members(w) == {i \in DOMAIN units : units[i].window = w}
      InWindow(ls, w) ==
        FoldLeft(LAMBDA state, i : RepairUnit(near, k, Members(w), state, i),
                 [labels |-> ls, taken |-> <<>>], SetToSortSeq(Members(w), <)).labels
  IN IF k <= 1 THEN labels
     ELSE FoldLeft(InWindow, labels, SetToSortSeq(windows, <))

-----------------------------------------------------------------------------
(* The time line.                                                          *)

\* The cluster of each local speaker that was embedded.
GlobalOf(units, labels, w, s) ==
  {labels[k] : k \in {j \in DOMAIN units : units[j].window = w /\ units[j].local = s}}

\* Round half away from zero, as f32::round.
RoundedMean(total, n) == IF n = 0 THEN 0 ELSE (2 * total + n) \div (2 * n)

\* The clusters on at frame t of a file of n frames (from 0): as many as there
\* are speakers on average, those with the most votes first, then by number.
\* Frames of a window past the end of the file vote in its last frame.
OnAt(windows, units, labels, n, t) ==
  LET votes == {x \in UNION {{i} \X DOMAIN windows[i].masks : i \in DOMAIN windows} :
                  Min({windows[x[1]].start + x[2] - 1, n - 1}) = t}
      At(x) == windows[x[1]].masks[x[2]]
      clusters == 0 .. (NumClusters(labels) - 1)
      activation == FoldSet(LAMBDA x, acc :
                      [g \in clusters |-> acc[g] + Cardinality({s \in At(x) : g \in GlobalOf(units, labels, x[1], s)})],
                      [g \in clusters |-> 0], votes)
      count == Min({NumClusters(labels),
                    RoundedMean(MapThenSumSet(LAMBDA x : Cardinality(At(x)), votes), Cardinality(votes))})
      Before(a, b) == activation[a] > activation[b] \/ (activation[a] = activation[b] /\ a < b)
  IN {g \in clusters : activation[g] > 0 /\ Cardinality({h \in clusters : Before(h, g)}) < count}

\* Turns of one cluster: its runs that last, then those apart by a small gap
\* made one.
TurnsOf(track, g, frames, minSpeech, maxGap) ==
  LET On(t) == t \in 0 .. (frames - 1) /\ g \in track[t + 1]
      starts == {t \in 0 .. (frames - 1) : On(t) /\ ~On(t - 1)}
      EndOf(t) == Min({u \in t .. frames : ~On(u)})
      runs == SetToSortSeq({t \in starts : EndOf(t) - t >= minSpeech}, <)
      Merge(turns, t) ==
        IF maxGap > 0 /\ turns # <<>> /\ t - turns[Len(turns)].end <= maxGap
        THEN [turns EXCEPT ![Len(turns)].end = EndOf(t)]
        ELSE Append(turns, [speaker |-> g, start |-> t, end |-> EndOf(t)])
  IN FoldLeft(Merge, <<>>, runs)

\* reconstruct_turns for an audio of `frames` frames.
ReconstructTurns(windows, units, labels, frames, minSpeech, maxGap) ==
  IF windows = <<>> \/ units = <<>> \/ frames = 0 THEN {}
  ELSE LET track == FoldLeft(LAMBDA acc, i : Append(acc, OnAt(windows, units, labels, frames, i - 1)),
                             <<>>, [i \in 1 .. frames |-> i])
       IN UNION {Range(TurnsOf(track, g, frames, minSpeech, maxGap)) : g \in 0 .. (NumClusters(labels) - 1)}

-----------------------------------------------------------------------------
(* What reconstruction is for.                                             *)

\* Where its chunk reaches, a crop keeps the samples of its mask and no other.
CropsKeepTheirMask(windows, audio) ==
  LET Heard(w, s) == IF Cardinality(CleanFrames(w, s)) >= CleanFallback THEN CleanFrames(w, s) ELSE ActiveFrames(w, s)
      Keeps(u, on) ==
        Max(on) * SamplesPerFrame <= ChunkLen(windows[u.window], audio) =>
          u.crop.kept = UNION {((f - 1) * SamplesPerFrame) .. (f * SamplesPerFrame - 1) : f \in on}
  IN \A u \in Range(CollectUnits(windows, audio)) : Keeps(u, Heard(windows[u.window], u.local))

\* "Same-window locals must not share a global cluster": after the repair two
\* units of a window have one cluster only if there are more units than clusters.
WindowsAreRepaired(units, near, labels) ==
  LET repaired == RepairWindowConflicts(units, near, labels)
  IN /\ NumClusters(repaired) <= NumClusters(labels)
     /\ \A i, j \in DOMAIN units :
          /\ units[i].window = units[j].window /\ i # j
          /\ Cardinality({x \in DOMAIN units : units[x].window = units[i].window}) <= NumClusters(labels)
          => repaired[i] # repaired[j]

\* Windows that hear one scene, with every local embedded and given the number
\* its speaker has in the scene, give the scene back as turns; the windows end
\* where the file does.
ScenesComeBack(scene, windows, units, labels) ==
  LET frames == Len(scene)
      turns == ReconstructTurns(windows, units, labels, frames, 0, 0)
      AllEmbedded == \A i \in DOMAIN windows, s \in Locals :
        ActiveFrames(windows[i], s) # {} => GlobalOf(units, labels, i, s) # {}
  IN AllEmbedded =>
       /\ \A t \in 1 .. frames : scene[t] = {u.speaker : u \in {v \in turns : t - 1 \in v.start .. (v.end - 1)}}
       /\ \A u, v \in turns : u # v /\ u.speaker = v.speaker => u.end < v.start \/ v.end < u.start
==============================================================================
