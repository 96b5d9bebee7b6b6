-------------------------------- MODULE Scoring --------------------------------
(***************************************************************************)
(* Error rates and reference files: the frame-based DER and its            *)
(* decomposition (src/der/frame.rs, src/der/decompose.rs), the word error  *)
(* rate (src/der/wder.rs), the averages of a benchmark report              *)
(* (src/bin/polyvoice-bench.rs) and the RTTM format (src/rttm/mod.rs).     *)
(*                                                                         *)
(* Times of DER are ticks, two to a frame of 10 ms.  A result is the       *)
(* record of its counts, Nothing the all-zero default; a rate is a count   *)
(* over the reference's frames, so it is not kept.                         *)
(***************************************************************************)
EXTENDS Integers, Sequences, FiniteSets, FiniteSetsExt, SequencesExt, Functions
LOCAL Assign == INSTANCE Clusters
LOCAL W == INSTANCE Words

-----------------------------------------------------------------------------
(* DER.                                                                    *)

\* build_collar_mask: the frames around every boundary of the reference.
CollarMask(reference, collar, n) ==
  IF collar <= 0 THEN {}
  ELSE {f \in 0 .. n - 1 : \E t \in DOMAIN reference : \E b \in {reference[t].start, reference[t].end} :
          f >= Max({b - collar, 0}) \div 2 /\ f < (b + collar + 1) \div 2}

\* build_speaker_frames: who speaks in a frame.
SpeakersAt(turns, f) == {turns[t].speaker : t \in {u \in DOMAIN turns : f \in W!FramesOf(turns[u])}}

DroppedKeepsOverlap(region, speakers) ==  \* mutant: two speakers count as one region and the other
  \/ region = "single" /\ Cardinality(speakers) > 2
  \/ region = "overlap" /\ Cardinality(speakers) < 2

\* Region: what a reference frame must be to be scored.
Dropped(region, speakers) ==
  \/ region = "single" /\ Cardinality(speakers) >= 2
  \/ region = "overlap" /\ Cardinality(speakers) < 2

\* The frames der_core counts.  uem is {} or {the scored regions}; a frame is in
\* scope when its centre is.
ScoredFrames(reference, hyp, collar, region, uem) ==
  LET n == W!GridFrames(Max({0} \cup {t.end : t \in Range(reference) \cup Range(hyp)}), 1000)
  IN {f \in 0 .. n - 1 \ CollarMask(reference, collar, n) :
        /\ ~Dropped(region, SpeakersAt(reference, f))
        /\ \A scored \in uem : \E r \in scored : 2 * f + 1 >= r[1] /\ 2 * f + 1 < r[2]}

\* optimal_speaker_mapping: pairs of a hypothesis and a reference speaker.
OptimalMapping(reference, hyp, frames) ==
  LET Together(k) == Cardinality({f \in frames : k[1] \in SpeakersAt(hyp, f) /\ k[2] \in SpeakersAt(reference, f)})
      pairs == {hyp[t].speaker : t \in DOMAIN hyp} \X {reference[t].speaker : t \in DOMAIN reference}
  IN Assign!MapMaxCooccurrence([k \in {q \in pairs : Together(q) > 0} |-> Together(k)])

Nothing == [ref |-> 0, missed |-> 0, falseAlarm |-> 0, confusion |-> 0]

\* der_core.
DerCore(reference, hyp, collar, region, uem) ==
  LET frames == ScoredFrames(reference, hyp, collar, region, uem)
      mapping == OptimalMapping(reference, hyp, frames)
      Refs(f) == Cardinality(SpeakersAt(reference, f))
      Hyps(f) == Cardinality(SpeakersAt(hyp, f))
      Correct(f) == Cardinality({m \in mapping : m[1] \in SpeakersAt(hyp, f) /\ m[2] \in SpeakersAt(reference, f)})
      SumOver(g(_)) == MapThenSumSet(g, frames)
  IN IF reference = <<>> \/ collar < 0 \/ SumOver(Refs) = 0 THEN Nothing
     ELSE [ref |-> SumOver(Refs),
           missed |-> SumOver(LAMBDA f : Max({Refs(f) - Hyps(f), 0})),
           falseAlarm |-> SumOver(LAMBDA f : Max({Hyps(f) - Refs(f), 0})),
           confusion |-> SumOver(LAMBDA f : Min({Refs(f), Hyps(f)}) - Min({Correct(f), Refs(f)}))]

Errors(r) == r.missed + r.falseAlarm + r.confusion

\* compute_per_speaker_recall: of each speaker with scored frames, how many
\* there are and in how many its mapped speaker speaks too.
PerSpeakerRecall(reference, hyp, collar) ==
  LET frames == ScoredFrames(reference, hyp, collar, "all", {})
      mapping == OptimalMapping(reference, hyp, frames)
      Spoken(r) == {f \in frames : r \in SpeakersAt(reference, f)}
      Recalled(r) == {f \in Spoken(r) : \E m \in mapping : m[2] = r /\ m[1] \in SpeakersAt(hyp, f)}
  IN IF reference = <<>> \/ collar < 0 THEN {}
     ELSE {[speaker |-> r, ref |-> Cardinality(Spoken(r)), recalled |-> Cardinality(Recalled(r))] :
             r \in {s \in {t.speaker : t \in Range(reference)} : Spoken(s) # {}}}

\* parse_uem: the scored regions of each file; a line is [file, start, end],
\* or <<>> when it is a comment, short or not a number.
ParseUem(lines) ==
  LET good == {l \in Range(lines) : l # <<>> /\ l.end > l.start}
  IN [f \in {l.file : l \in good} |-> {<<l.start, l.end>> : l \in {g \in good : g.file = f}}]

-----------------------------------------------------------------------------
(* Words.  A word is [text, mid, speaker], the speaker {} when it has none. *)

\* compute_wder's pairing: by place when there are as many words, else by the
\* nearest word of the same text, the first of two as near.
PairedSpeaker(reference, hyp, i) ==
  LET alike == {j \in DOMAIN hyp : hyp[j].text = reference[i].text}
      Distance(j) == IF hyp[j].mid > reference[i].mid THEN hyp[j].mid - reference[i].mid ELSE reference[i].mid - hyp[j].mid
      nearest == CHOOSE j \in alike : \A k \in alike : Distance(j) < Distance(k) \/ (Distance(j) = Distance(k) /\ j <= k)
  IN IF Len(reference) = Len(hyp) THEN hyp[i].speaker
     ELSE IF alike = {} THEN {} ELSE hyp[nearest].speaker

\* compute_wder.
Wder(reference, hyp) ==
  LET scored == {i \in DOMAIN reference : reference[i].speaker # {}}
      Pairs(i) == PairedSpeaker(reference, hyp, i) \X reference[i].speaker
      Together(k) == Cardinality({i \in scored : k \in Pairs(i)})
      mapping == Assign!MapMaxCooccurrence([k \in UNION {Pairs(i) : i \in scored} |-> Together(k)])
  IN [words |-> Cardinality(scored), errors |-> Cardinality({i \in scored : Pairs(i) \cap mapping = {}})]

-----------------------------------------------------------------------------
(* The averages of a report, as fractions.  rows has for each file its     *)
(* result with the collar and without.                                     *)

\* Accum::record: how far off the count of speakers was.
CountVerdict(refs, hyps) ==
  LET off == Max({refs - hyps, hyps - refs})
  IN CASE off = 0 -> "exact" [] off = 1 -> "plus_minus_1" [] OTHER -> "off_by_2_or_more"

\* micro_der and the micro halves of aggregate_der: <<errors, frames>>.
MicroDer(results) ==
  <<FoldLeft(LAMBDA s, r : s + Errors(r), 0, results), FoldLeft(LAMBDA s, r : s + r.ref, 0, results)>>

MicroSwapped(rows) ==  \* mutant: the frames of the other pass divide
  LET collar == MicroDer([i \in DOMAIN rows |-> rows[i][1]])
      none == MicroDer([i \in DOMAIN rows |-> rows[i][2]])
  IN [collar |-> <<collar[1], none[2]>>, none |-> <<none[1], collar[2]>>]

\* aggregate_der: each pass over its own frames.
AggregateDer(rows) ==
  [collar |-> MicroDer([i \in DOMAIN rows |-> rows[i][1]]), none |-> MicroDer([i \in DOMAIN rows |-> rows[i][2]])]

-----------------------------------------------------------------------------
(* RTTM.  Times are thirds of a millisecond, so that none lies between two *)
(* that can be written.                                                    *)

Written(t) == (t + 1) \div 3

\* write_rttm: start and duration, each rounded to the millisecond.
WriteRttm(file, turns) ==
  [i \in DOMAIN turns |-> [kind |-> "SPEAKER", fields |-> 9, file |-> file, start |-> Written(turns[i].start),
     duration |-> Written(Max({turns[i].end - turns[i].start, 0})), speaker |-> turns[i].speaker]]

\* parse_rttm: the segments, or the line that is wrong.  -1 is a time that is
\* not a number, not finite or negative.
ParseRttm(lines) ==
  LET told == {i \in DOMAIN lines : lines[i].kind # "skipped"}
      Wrong(i) == lines[i].fields < 9 \/ (lines[i].kind = "SPEAKER" /\ (lines[i].start < 0 \/ lines[i].duration < 0))
      wrong == {i \in told : Wrong(i)}
  IN IF wrong # {} THEN [line |-> Min(wrong), segments |-> <<>>]
     ELSE [line |-> 0, segments |-> SelectSeq(lines, LAMBDA l : l.kind = "SPEAKER")]

\* load_rttm_segments: the segments of the file, or of its dotted prefix.
SegmentsOf(segments, stem, prefix) ==
  LET Of(f) == SelectSeq(segments, LAMBDA s : s.file = f)
  IN IF Of(stem) # <<>> THEN Of(stem) ELSE Of(prefix)

NumberAgain(segments, i) ==  \* mutant: a speaker that returns gets a new number
  Cardinality({segments[k].speaker : k \in 1 .. i}) - 1

\* speaker_map: names are numbered as they come.
Number(segments, i) ==
  LET first == Min({k \in 1 .. i : segments[k].speaker = segments[i].speaker})
  IN Cardinality({segments[k].speaker : k \in 1 .. first}) - 1

\* to_speaker_turns.
ToSpeakerTurns(segments) ==
  [i \in DOMAIN segments |-> [speaker |-> Number(segments, i), start |-> segments[i].start,
                               end |-> segments[i].start + segments[i].duration]]

-----------------------------------------------------------------------------
(* What it is for.                                                         *)

Renamed(turns, f) == [i \in DOMAIN turns |-> [turns[i] EXCEPT !.speaker = f[@]]]

\* The scores do not depend on what the hypothesis calls its speakers; what the
\* per-speaker recall finds is what is neither missed nor confused; single and
\* overlapped frames are all of the reference's, with no error of theirs that
\* the total does not have; a region scored in two parts has the frames of both.
ScoresAreConsistent(reference, hyp, collar, cut, rename) ==
  LET Score(region, uem) == DerCore(reference, hyp, collar, region, uem)
      Consistent(total, single, overlap, recall, before, after) ==
        /\ total = DerCore(reference, Renamed(hyp, rename), collar, "all", {})
        /\ MapThenSumSet(LAMBDA r : r.recalled, recall) = total.ref - total.missed - total.confusion
        /\ MapThenSumSet(LAMBDA r : r.ref, recall) = total.ref
        /\ single.ref + overlap.ref = total.ref /\ single.missed + overlap.missed = total.missed
        /\ single.confusion + overlap.confusion <= total.confusion
        /\ before.ref + after.ref = total.ref
        /\ before.confusion + after.confusion <= total.confusion
        /\ Errors(overlap) <= Errors(total)
  IN /\ Errors(DerCore(reference, Renamed(reference, rename), collar, "all", {})) = 0
     /\ Consistent(Score("all", {}), Score("single", {}), Score("overlap", {}), PerSpeakerRecall(reference, hyp, collar),
                   Score("all", {{<<0, cut>>}}), Score("all", {{<<cut, 1000>>}}))

\* Each average is over its own pass, within the rates of its files, and files
\* without a scored frame do not count in it.
AveragesAreWeighted(rows) ==
  LET agg == AggregateDer(rows)
      Within(avg, results) ==
        LET counted == {r \in Range(results) : r.ref > 0}
        IN /\ avg[2] = FoldLeft(LAMBDA s, r : s + r.ref, 0, results)
           /\ counted # {} => /\ \E r \in counted : avg[1] * r.ref <= Errors(r) * avg[2]
                              /\ \E r \in counted : avg[1] * r.ref >= Errors(r) * avg[2]
  IN /\ Within(agg.collar, [i \in DOMAIN rows |-> rows[i][1]])
     /\ Within(agg.none, [i \in DOMAIN rows |-> rows[i][2]])

\* No renaming of the hypothesis' speakers has fewer errors, and a hypothesis
\* that is the reference renamed, with words of its own far away, has none.
WderIsFair(reference, hyp, rename, extra) ==
  LET w == Wder(reference, hyp)
      spoken == UNION {hyp[j].speaker : j \in DOMAIN hyp}
      names == UNION {reference[i].speaker : i \in DOMAIN reference}
      Wrong(f) == {i \in DOMAIN reference : reference[i].speaker # {}
                     /\ {f[h] : h \in PairedSpeaker(reference, hyp, i)} # reference[i].speaker}
      told == [i \in DOMAIN reference |-> [reference[i] EXCEPT !.speaker = {rename[s] : s \in @}]]
  IN /\ \A f \in [spoken -> names] : IsInjective(f) => w.errors <= Cardinality(Wrong(f))
     /\ w.errors <= w.words
     /\ Wder(reference, told).errors = 0
     /\ (\A i, j \in DOMAIN reference : reference[i].text = reference[j].text => i = j) /\ extra.mid > 100 =>
          Wder(reference, <<extra>> \o told).errors = 0

\* A file that is written and read back, with lines of other kinds and files
\* between, has the same turns to the millisecond and tells the same speakers
\* apart; one bad line is named.
RttmRoundTrips(file, turns, between, bad) ==
  LET lines == FoldLeft(LAMBDA s, l : s \o between \o <<l>>, <<>>, WriteRttm(file, turns))
      read == ParseRttm(lines)
      back == ToSpeakerTurns(SegmentsOf(read.segments, file, file))
      Near(ms, t) == Max({3 * ms - t, t - 3 * ms}) <= 3
  IN /\ read.line = 0 /\ Len(back) = Len(turns)
     /\ \A i \in DOMAIN turns : Near(back[i].start, turns[i].start) /\ Near(back[i].end, turns[i].end)
     /\ \A i, j \in DOMAIN turns : (back[i].speaker = back[j].speaker) = (turns[i].speaker = turns[j].speaker)
     /\ ParseRttm(lines \o <<bad>> \o lines).line = Len(lines) + 1
=============================================================================
