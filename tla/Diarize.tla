-------------------------------- MODULE Diarize --------------------------------
(***************************************************************************)
(* One file through pipeline v2 (pipeline_v2/mod.rs), from the segments of *)
(* the segmenter to the turns, with resegmentation/mod.rs and              *)
(* utils::merge_segments; and overlap/mod.rs, which no pipeline calls.     *)
(*                                                                         *)
(* Times are samples.  A segment is [speaker, start, end, overlap], where  *)
(* speaker is the segmenter's local index; a turn is [speaker, start, end] *)
(* with a cluster.  The embedder and the clusterer are given by what they  *)
(* answer.                                                                 *)
(***************************************************************************)
EXTENDS Clusters

CONSTANTS MinEmbed,    \* MIN_EMBED_SECS
          MinHop,      \* the 0.05 s of expand_embed_units
          MinOverlap   \* min_overlap_secs of OverlapResegmenter::default

Duration(x) == x.end - x.start
TwiceMid(x) == x.start + x.end
ByStart(turns) == SortSeq(turns, LAMBDA a, b : a.start < b.start)
Indices(n) == [k \in 1 .. n |-> k]

\* Every pair of a sequence's positions, in order.
Pairs(n) == SelectSeq([k \in 1 .. n * n |-> <<1 + (k - 1) \div n, 1 + ((k - 1) % n)>>], LAMBDA p : p[1] < p[2])

ExtractOverlaps(raw) ==
  LET Pair(p) == LET a == raw[p[1]] b == raw[p[2]]
                 IN a.overlap /\ b.overlap /\ a.speaker # b.speaker /\ a.start = b.start /\ a.end = b.end
      found == SelectSeq(Pairs(Len(raw)), Pair)
      Of(p) == {raw[p[1]].speaker, raw[p[2]].speaker}
  IN [k \in DOMAIN found |-> [start |-> raw[found[k][1]].start, end |-> raw[found[k][1]].end,
                              lo |-> Min(Of(found[k])), hi |-> Max(Of(found[k]))]]

-----------------------------------------------------------------------------
(* The embedding stage.                                                    *)

\* clean_speech_secs
CleanSpeech(seg, overlaps) ==
  LET inside == {<<Max({overlaps[k].start, seg.start}), Min({overlaps[k].end, seg.end})>> : k \in DOMAIN overlaps}
  IN Max({0, Duration(seg) - Covered({x \in inside : x[1] < x[2]})})

\* Windows of w samples half of one apart; 0 is None.
ExpandEmbedUnits(segs, w) ==
  LET hop == Max({w \div 2, MinHop})
      Units(seg) ==
        LET last == CHOOSE k \in 0 .. Duration(seg) : /\ k * hop + w >= Duration(seg)
                                                      /\ k = 0 \/ (k - 1) * hop + w < Duration(seg)
        IN [k \in 1 .. last + 1 |-> [seg EXCEPT !.start = @ + (k - 1) * hop,
                                                !.end = Min({seg.start + (k - 1) * hop + w, @})]]
  IN FlattenSeq([i \in DOMAIN segs |-> IF w = 0 \/ Duration(segs[i]) <= w THEN <<segs[i]>> ELSE Units(segs[i])])

LongEnough(x, samples) == Min({x.end, samples}) > x.start /\ Min({x.end, samples}) - x.start >= MinEmbed

\* embed_primary_segments: the units that have an embedding.  `finite` says of
\* the answer to unit k whether it can be used; its length is the batch's.
EmbedPrimary(primary, w, samples, finite) ==
  LET kept == SelectSeq(ExpandEmbedUnits(primary, w), LAMBDA u : LongEnough(u, samples))
      good == SelectSeq(Indices(Len(kept)), LAMBDA k : finite[k])
  IN IF Len(finite) # Len(kept) \/ (kept # <<>> /\ good = <<>>)
     THEN [error |-> TRUE, sources |-> <<>>]
     ELSE [error |-> FALSE, sources |-> [k \in DOMAIN good |-> kept[good[k]]]]

\* Whether a unit's overlaps are silenced before it is embedded (0: always).
Masked(unit, overlaps, minClean) == minClean = 0 \/ CleanSpeech(unit, overlaps) >= minClean

\* What the clusterer hears of the length of each embedding.
DurationsFor(sources, overlaps, clean) ==
  [k \in DOMAIN sources |-> IF clean THEN CleanSpeech(sources[k], overlaps) ELSE Duration(sources[k])]

PrimaryTurns(sources, labels) ==
  [k \in DOMAIN sources |-> [speaker |-> labels[k], start |-> sources[k].start, end |-> sources[k].end]]

-----------------------------------------------------------------------------
(* Overlaps.                                                               *)

\* map_local_to_global: the maps that its tables may give.
MapLocalToGlobal(sources, labels, overlaps, how) ==
  LET cooc == BuildCooccurrence([k \in DOMAIN sources |-> sources[k].speaker], labels,
                                [k \in DOMAIN sources |-> Duration(sources[k])])
      locals == {x[1] : x \in DOMAIN cooc}
  IN CASE how = "off" -> {<<>>}
       [] how = "majority" ->
            {m \in [locals -> Range(labels)] : \A l \in locals : m[l] \in Majority(cooc, l, Row(cooc, l))}
       [] how = "hungarian" ->
            HungarianLocalToGlobal(cooc, [k \in DOMAIN overlaps |-> <<overlaps[k].lo, overlaps[k].hi>>])

\* The first turn around the overlap, else the one nearest by its middle.
Anchor(overlap, turns) ==
  LET around == {k \in DOMAIN turns : turns[k].start <= overlap.start /\ overlap.end <= turns[k].end}
      Away(k) == LET d == TwiceMid(turns[k]) - TwiceMid(overlap) IN IF d < 0 THEN -d ELSE d
  IN IF turns = <<>> THEN 0
     ELSE turns[IF around # {} THEN Min(around)
                ELSE CHOOSE k \in DOMAIN turns :
                       \A j \in DOMAIN turns : Away(k) < Away(j) \/ (Away(k) = Away(j) /\ k <= j)].speaker

\* build_overlap_inputs: `secondary` is empty where it is left to an embedding
\* of the mixed voices.  A region too short for one is left out, as is one whose
\* embedding is not finite; an embedder that fails fails the file.  `mixed` says
\* what becomes of such an embedding: "finite", "not finite" or "error".
BuildOverlapInputs(overlaps, turns, map, samples, mixed) ==
  LET Known(l) == IF l \in DOMAIN map THEN {map[l]} ELSE {}
      Direct(o) == Known(o.lo) # {} /\ Known(o.hi) # {}
      Region(o) ==
        [start |-> o.start, end |-> o.end,
         primary |-> IF Known(o.lo) # {} THEN map[o.lo]
                     ELSE IF Known(o.hi) # {} THEN map[o.hi] ELSE Anchor(o, turns),
         secondary |-> IF Direct(o) THEN Known(o.hi) ELSE {}]
      Embeds(o) == ~Direct(o) /\ LongEnough(o, samples)
      used == SelectSeq(overlaps, LAMBDA o : Direct(o) \/ (Embeds(o) /\ mixed = "finite"))
  IN [error |-> mixed = "error" /\ \E k \in DOMAIN overlaps : Embeds(overlaps[k]),
      regions |-> [k \in DOMAIN used |-> Region(used[k])]]

ResegmentDirectOnlySecondary(region, centroids, score, threshold) ==  \* mutant
  [error |-> FALSE,
   turns |-> IF Duration(region) < MinOverlap \/ region.secondary = {} THEN {} ELSE region.secondary]

\* One region: the speakers that get a turn over it.  score[g] is how near the
\* mixed embedding is to the centroid of g.
ResegmentRegion(region, centroids, score, threshold) ==
  LET others == centroids \ {region.primary}
      nearest == {g \in others : \A h \in others : score[h] < score[g] \/ (score[h] = score[g] /\ g <= h)}
      short == Duration(region) < MinOverlap
  IN IF region.secondary # {}
     THEN [error |-> FALSE, turns |-> IF short THEN {} ELSE {region.primary} \cup region.secondary]
     ELSE [error |-> region.primary \notin centroids,
           turns |-> {g \in nearest : ~short /\ score[g] > threshold}]

\* OverlapResegmenter::resegment: the primary turns and those of the regions.
Resegment(turns, centroids, regions, score, threshold) ==
  LET Of(k) == ResegmentRegion(regions[k], centroids, score, threshold)
      Speakers(k) == \* the primary first
        LET r == regions[k] p == {r.primary} \cap Of(k).turns
        IN SetToSeq(p) \o SetToSeq(Of(k).turns \ p)
      added == FlattenSeq([k \in DOMAIN regions |-> [j \in DOMAIN Speakers(k) |->
                 [speaker |-> Speakers(k)[j], start |-> regions[k].start, end |-> regions[k].end]]])
  IN IF Cardinality(centroids) < 2 \/ regions = <<>> THEN [error |-> FALSE, turns |-> ByStart(turns)]
     ELSE [error |-> \E k \in DOMAIN regions : Of(k).error, turns |-> ByStart(turns \o added)]

-----------------------------------------------------------------------------
(* Confidence, merging, and the whole.                                     *)

\* The windows a turn's confidence is the mean of; sorted middles are found by
\* binary search.
ConfidenceWindows(turn, labels, mids, sorted) ==
  LET PartitionPoint(t) == Cardinality({k \in DOMAIN mids : mids[k] < 2 * t})
      candidates == IF sorted THEN (1 + PartitionPoint(turn.start)) .. PartitionPoint(turn.end) ELSE DOMAIN mids
  IN {k \in candidates : labels[k] = turn.speaker /\ 2 * turn.start <= mids[k] /\ mids[k] < 2 * turn.end}

\* merge_segments: neighbours in the list, of one speaker.
MergeSegments(segments, maxGap) ==
  LET Merge(merged, s) ==
        LET n == Len(merged)
        IN IF n > 0 /\ merged[n].speaker = s.speaker /\ s.start - merged[n].end <= maxGap
           THEN [merged EXCEPT ![n].end = s.end] ELSE Append(merged, s)
  IN FoldLeft(Merge, <<>>, segments)

\* resegment_turns: only with overlaps and at least two speakers.
ResegmentTurns(turns, centroids, overlaps, map, samples, opts, world) ==
  LET inputs == BuildOverlapInputs(overlaps, turns, map, samples, world.mixed)
  IN IF ~opts.resegment \/ overlaps = <<>> \/ Cardinality(centroids) < 2
     THEN [error |-> FALSE, turns |-> ByStart(turns)]
     ELSE IF inputs.error THEN [error |-> TRUE, turns |-> <<>>]
     ELSE Resegment(turns, centroids, inputs.regions, world.score, opts.threshold)

\* run, on the default path: what it may answer.  opts has the settings; world
\* what the models say: labelAt[t], the cluster of a unit that starts at t,
\* score, whether the units' embeddings are finite, and how those of mixed voices
\* turn out.
RunOnSources(sources, labels, overlaps, samples, opts, world) ==
  LET turns == PrimaryTurns(sources, labels)
      Merged(reseg) ==
        [reseg EXCEPT !.turns = MergeSegments(SelectSeq(@, LAMBDA t : Duration(t) >= opts.minSpeech), opts.maxGap)]
  IN {Merged(ResegmentTurns(turns, Range(labels), overlaps, map, samples, opts, world)) :
        map \in MapLocalToGlobal(sources, labels, overlaps, opts.map)}

Run(raw, samples, opts, world) ==
  LET Told(error) == {[error |-> error, turns |-> <<>>]}
      primary == SelectSeq(raw, LAMBDA s : ~s.overlap)
      units == SelectSeq(ExpandEmbedUnits(primary, opts.window), LAMBDA u : LongEnough(u, samples))
      Embedded(e) ==
        IF e.error \/ e.sources = <<>> THEN Told(e.error)
        ELSE RunOnSources(e.sources, [k \in DOMAIN e.sources |-> world.labelAt[e.sources[k].start]],
                          ExtractOverlaps(raw), samples, opts, world)
  IN IF opts.rate # opts.configRate \/ samples > opts.maxSamples THEN Told(TRUE)
     ELSE IF raw = <<>> THEN Told(FALSE)
     ELSE Embedded(EmbedPrimary(primary, opts.window, samples, [k \in DOMAIN units |-> world.finite]))

-----------------------------------------------------------------------------
(* overlap/mod.rs                                                          *)

\* Mutant: a region ends wherever somebody starts or stops.
MergeAdjacentOverlapsNever(regions) == regions

\* merge_adjacent_overlaps: neighbours in time whose lists of speakers are equal,
\* order included (moments the code tells apart are more than a millisecond apart).
MergeAdjacentOverlaps(regions) ==
  LET Merge(merged, r) ==
        LET n == Len(merged)
        IN IF n > 0 /\ merged[n].speakers = r.speakers /\ merged[n].end = r.start
           THEN [merged EXCEPT ![n].end = r.end] ELSE Append(merged, r)
  IN FoldLeft(Merge, <<>>, regions)

\* detect_overlaps: starts and ends in order of time, those at once in the
\* order of the segments.
DetectOverlaps(segments) ==
  LET real == SelectSeq(segments, LAMBDA s : s.start < s.end)
      all == FlattenSeq([k \in DOMAIN real |-> <<[at |-> real[k].start, on |-> TRUE, speaker |-> real[k].speaker],
                                                 [at |-> real[k].end, on |-> FALSE, speaker |-> real[k].speaker]>>])
      events == SortSeq(all, LAMBDA a, b : a.at < b.at)
      Step(s, e) ==
        [regions |-> IF e.at > s.last /\ Len(s.active) > 1
                     THEN Append(s.regions, [start |-> s.last, end |-> e.at, speakers |-> s.active]) ELSE s.regions,
         active |-> IF ~e.on THEN SelectSeq(s.active, LAMBDA x : x # e.speaker)
                    ELSE IF Contains(s.active, e.speaker) THEN s.active ELSE Append(s.active, e.speaker),
         last |-> e.at]
  IN IF Len(segments) < 2 \/ events = <<>> THEN <<>>
     ELSE MergeAdjacentOverlaps(
            FoldLeft(Step, [regions |-> <<>>, active |-> <<>>, last |-> events[1].at], events).regions)

-----------------------------------------------------------------------------
(* What it is for.                                                         *)

Speaking(turns, t) == {turns[k].speaker : k \in {j \in DOMAIN turns : turns[j].start <= t /\ t < turns[j].end}}

\* A file whose solo speech was clustered as one cluster per local speaker, all
\* of whom are heard solo long enough, with no overlap on another's heels, and
\* nothing in it too short to keep: the turns say of every sample who speaks,
\* both speakers of an overlap included, except that a speaker's pauses of at
\* most maxGap may be filled; they come in order of start.
FilesAreTold(raw, samples, opts, world) ==
  LET told(t) == {world.labelAt[r.start] : r \in {x \in Range(raw) : ~x.overlap /\ x.start <= t /\ t < x.end}}
                 \cup {world.cluster[r.speaker] : r \in {x \in Range(raw) : x.overlap /\ x.start <= t /\ t < x.end}}
  IN \A result \in Run(raw, samples, opts, world) :
       /\ ~result.error
       /\ \A t \in 0 .. (samples - 1) :
            /\ told(t) \subseteq Speaking(result.turns, t)
            /\ \A g \in Speaking(result.turns, t) \ told(t) :
                 \E a \in 0 .. t, b \in t .. (samples - 1) : b - a - 1 <= opts.maxGap /\ g \in told(a) \cap told(b)
       /\ \A i, j \in DOMAIN result.turns : i < j => result.turns[i].start <= result.turns[j].start

\* Whatever the clusterer says, the resegmenter is given anchors that it knows,
\* every turn's speaker is a cluster, and a turn is at least minSpeech long.
TurnsAreWellFormed(raw, samples, opts, world) ==
  \A result \in Run(raw, samples, opts, world) :
    /\ result.error => ~world.finite \/ world.mixed = "error" \/ samples > opts.maxSamples
    /\ \A k \in DOMAIN result.turns :
         /\ result.turns[k].speaker \in Range(world.labelAt)
         /\ Duration(result.turns[k]) >= opts.minSpeech

\* "identical whether the candidate range is located by binary search or by
\* scanning every window".
LookupsAgree(turn, labels, mids) ==
  (\A i, j \in DOMAIN mids : i < j => mids[i] <= mids[j]) =>
    ConfidenceWindows(turn, labels, mids, TRUE) = ConfidenceWindows(turn, labels, mids, FALSE)

\* The windows of a segment cover it, none is longer than asked for, and two
\* that follow each other overlap.
UnitsCoverTheSegment(seg, w) ==
  LET units == ExpandEmbedUnits(<<seg>>, w)
  IN /\ UNION {units[k].start .. (units[k].end - 1) : k \in DOMAIN units} = seg.start .. (seg.end - 1)
     /\ \A k \in DOMAIN units : Duration(units[k]) <= w
     /\ \A k \in 2 .. Len(units) : units[k].start < units[k - 1].end /\ units[k - 1].end < units[k].end

\* Unmasked speech is what no overlap reaches, however overlaps lie.
CleanSpeechIsUnmasked(seg, overlaps) ==
  LET reached == UNION {overlaps[k].start .. (overlaps[k].end - 1) : k \in DOMAIN overlaps}
      clean == Cardinality((seg.start .. (seg.end - 1)) \ reached)
  IN /\ DurationsFor(<<seg>>, overlaps, TRUE) = <<clean>>
     /\ \A least \in 1 .. 4 : Masked(seg, overlaps, least) <=> clean >= least

\* Segments in order, no speaker's own overlapping: the regions come in order,
\* hold exactly the times that two speakers share, each with those who do, and
\* two that touch have different lists of speakers; the lists are in the order
\* in which the speakers came in, so both may hold the same speakers.
OverlapsAreFound(segments) ==
  LET times == UNION {segments[k].start .. segments[k].end : k \in DOMAIN segments}
      Found(now, here) == IF Cardinality(now) < 2 THEN here = {}
                          ELSE Cardinality(here) = 1 /\ \A r \in here : Range(r.speakers) = now
      At(regions, t) == {r \in Range(regions) : r.start <= t /\ t < r.end}
      Right(regions) ==
        /\ \A t \in times : Found(Speaking(segments, t), At(regions, t))
        /\ \A k \in DOMAIN regions : regions[k].start < regions[k].end
        /\ \A k \in 2 .. Len(regions) :
             regions[k - 1].end < regions[k].start
               \/ (regions[k - 1].end = regions[k].start /\ regions[k - 1].speakers # regions[k].speakers)
  IN Right(DetectOverlaps(segments))
=============================================================================
