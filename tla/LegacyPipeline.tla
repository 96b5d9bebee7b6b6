---------------------------- MODULE LegacyPipeline ----------------------------
(***************************************************************************)
(* The offline pipeline of src/pipeline/mod.rs and the detectors it may be *)
(* given (src/vad/mod.rs, src/silero_vad/mod.rs, src/earshot_vad/mod.rs):  *)
(* regions of speech, windows, one embedding each, clusters, turns.        *)
(*                                                                         *)
(* A sample is its loudness, 0 to 2; one of 9 is not finite, one of 8 the  *)
(* embedder refuses.  A detector is [kind, chunk, contextSize, rate] with  *)
(* its memory in state and context, and is passed from call to call.       *)
(* Times are samples; the durations of a configuration are seconds.        *)
(***************************************************************************)
EXTENDS Clusters
LOCAL INSTANCE Hysteresis
LOCAL D == INSTANCE Diarize WITH MinEmbed <- 1, MinHop <- 1, MinOverlap <- 1
LOCAL A == INSTANCE Audio WITH MaxSecs <- 100, Target <- 2, MaxSoftErrors <- 32

LOCAL CeilDiv(a, b) == (a + b - 1) \div b
LOCAL Sum(s) == FoldLeft(+, 0, s)

-----------------------------------------------------------------------------
(* Detectors.  What a call answers: error, the probabilities ("high" or    *)
(* "low"), and the detector it leaves.                                     *)

FreshDetector(kind, chunk, contextSize, rate) ==
  [kind |-> kind, chunk |-> chunk, contextSize |-> contextSize, rate |-> rate, state |-> 0, context |-> <<>>]

\* The networks: they hear the context, the chunk and their state.
Heard(det, chunk) == (Sum(det.context) + Sum(chunk) + det.state) % 3

EnergyProcess(det, chunk) ==
  [error |-> FALSE, prob |-> IF Sum(chunk) >= det.chunk THEN "high" ELSE "low", det |-> det]

\* run_chunk: a chunk shorter than the context leaves it as it was; a failed
\* call leaves everything.
SileroProcess(det, chunk) ==
  IF 9 \in Range(chunk) THEN [error |-> TRUE, prob |-> "low", det |-> det]
  ELSE [error |-> FALSE, prob |-> IF Heard(det, chunk) > 0 THEN "high" ELSE "low",
        det |-> [det EXCEPT !.state = Heard(det, chunk),
                            !.context = IF Len(chunk) < det.contextSize THEN @
                                        ELSE SubSeq(chunk, Len(chunk) - det.contextSize + 1, Len(chunk))]]

\* score_frame and checked_score: the detector has heard the frame it refuses.
EarshotProcess(det, chunk) ==
  [error |-> 9 \in Range(chunk), prob |-> IF Heard(det, chunk) > 0 THEN "high" ELSE "low",
   det |-> [det EXCEPT !.state = Heard(det, chunk)]]

ProcessChunk(det, chunk) ==
  CASE det.kind = "energy" -> EnergyProcess(det, chunk)
    [] det.kind = "silero" -> SileroProcess(det, chunk)
    [] det.kind = "earshot" -> EarshotProcess(det, chunk)

\* process: whole chunks only, up to the first that fails.
Process(det, samples) ==
  LET Chunk(k) == SubSeq(samples, det.chunk * (k - 1) + 1, det.chunk * k)
      Step(s, k) == IF s.error THEN s
                    ELSE LET r == ProcessChunk(s.det, Chunk(k))
                         IN [error |-> r.error, probs |-> Append(s.probs, r.prob), det |-> r.det]
  IN IF Len(samples) % det.chunk # 0 THEN [error |-> TRUE, probs |-> <<>>, det |-> det]
     ELSE FoldLeft(Step, [error |-> FALSE, probs |-> <<>>, det |-> det], [k \in 1 .. Len(samples) \div det.chunk |-> k])

ResetContextOnly(det) == [det EXCEPT !.context = <<>>]  \* mutant: the hidden state stays

ResetDetector(det) == [det EXCEPT !.state = 0, !.context = <<>>]

\* VadConfig::frame_geometry: durations in whole frames at the detector's rate,
\* rounded up.
FrameGeometry(cfg, rate) ==
  [error |-> cfg.frame = 0,
   silence |-> IF cfg.frame = 0 THEN 0 ELSE CeilDiv(cfg.minSilence * rate, cfg.frame),
   speech |-> IF cfg.frame = 0 THEN 0 ELSE CeilDiv(cfg.minSpeech * rate, cfg.frame)]

\* The frames' probabilities, up to the first frame that fails.
ScoreFrames(det, samples, frame) ==
  LET Add(s, r) == [error |-> r.error, probs |-> s.probs \o r.probs, det |-> r.det]
      Score(s, k) == IF s.error THEN s ELSE Add(s, Process(s.det, SubSeq(samples, frame * (k - 1) + 1, frame * k)))
  IN FoldLeft(Score, [error |-> FALSE, probs |-> <<>>, det |-> det], [k \in 1 .. Len(samples) \div frame |-> k])

\* The regions long enough, in samples, that the hysteresis finds.
SpeechOf(probs, frames, cfg, g) ==
  LET Keep(regions, event) ==
        IF event.kind = "end" /\ event.end - event.start >= g.speech
        THEN Append(regions, <<event.start * cfg.frame, event.end * cfg.frame>>) ELSE regions
      Then(regions, r) == [tracker |-> r.tracker, regions |-> Keep(regions, r.event)]
      Scan(s, k) == Then(s.regions, Advance(s.tracker, probs[k] = "high", k - 1, g.silence, "keep"))
      Flushed(s) == Keep(s.regions, Flush(s.tracker, frames, "keep").event)
  IN Flushed(FoldLeft(Scan, [tracker |-> NewTracker, regions |-> <<>>], [k \in DOMAIN probs |-> k]))

\* segment_speech: frames, probabilities, regions in samples.
SegmentSpeech(det, samples, cfg) ==
  LET Answer(scored, g) ==
        [error |-> scored.error, det |-> scored.det,
         regions |-> SpeechOf(scored.probs, Len(samples) \div cfg.frame, cfg, g)]
  IN IF FrameGeometry(cfg, det.rate).error THEN [error |-> TRUE, regions |-> <<>>, det |-> ResetDetector(det)]
     ELSE Answer(ScoreFrames(ResetDetector(det), samples, cfg.frame), FrameGeometry(cfg, det.rate))

-----------------------------------------------------------------------------
(* The pipeline.                                                           *)

\* DiarizationConfig::validate.
Validate(cfg) ==
  /\ cfg.window > 0 /\ cfg.hop > 0 /\ cfg.hop <= cfg.window
  /\ cfg.threshold \in -10 .. 10 /\ cfg.minSpeech >= 0 /\ cfg.maxGap >= 0 /\ cfg.max > 0

\* embed_windows: the span of each window; a short region is filled with
\* silence and keeps its own span.
WindowsOf(cfg, regions) ==
  LET From(r, w) == [k \in DOMAIN w |-> <<r[1] + w[k][1], r[1] + w[k][2]>>]
      Windows(r) == IF r[2] - r[1] < cfg.window THEN <<r>>
                    ELSE From(r, A!WindowIter(r[2] - r[1], cfg.window, cfg.hop, FALSE))
  IN FoldLeft(LAMBDA s, r : s \o Windows(r), <<>>, regions)

EmbedWindows(cfg, samples, det) ==
  LET Refused(t) == \E i \in t[1] + 1 .. t[2] : samples[i] = 8
      Embedded(times, left) ==
        IF \E k \in DOMAIN times : Refused(times[k]) THEN [error |-> "Embedding", times |-> <<>>, det |-> left]
        ELSE [error |-> "", times |-> times, det |-> left]
      Windows(speech) == IF speech.error THEN [error |-> "Vad", times |-> <<>>, det |-> speech.det]
                         ELSE Embedded(WindowsOf(cfg, speech.regions), speech.det)
  IN IF Len(samples) > cfg.max * cfg.rate THEN [error |-> "AudioTooLong", times |-> <<>>, det |-> det]
     ELSE Windows(SegmentSpeech(det, samples, cfg))

\* assemble_result: prune, number, merge, drop the short.  sim[i] is what an
\* embedding is like (Clusters).
AssembleResult(cfg, times, labels, sim) ==
  LET Segments(pruned) == [i \in DOMAIN times |-> [start |-> times[i][1], end |-> times[i][2], speaker |-> pruned[i]]]
      Assemble(pruned) ==
        [error |-> "", speakers |-> IF pruned = <<>> THEN 0 ELSE Max(Range(pruned)) + 1,
         segments |-> SelectSeq(D!MergeSegments(Segments(pruned), cfg.maxGap * cfg.rate),
                                LAMBDA s : s.end - s.start >= cfg.minSpeech * cfg.rate)]
  IN Assemble(IF cfg.minClusterSecs > 0 THEN PruneByDuration(times, sim, labels, cfg.minClusterSecs * cfg.rate)
              ELSE PruneSmallClusters(sim, labels, cfg.minClusterSize))

EmptyResult == [error |-> "", speakers |-> 0, segments |-> <<>>]
Failed(e) == [error |-> e, speakers |-> 0, segments |-> <<>>]

\* run and run_with_clusterer, which differ in the clusterer: Labels(times) is
\* what it answers, <<>> when it fails.
Run(cfg, samples, det, Labels(_), Sim(_)) ==
  LET Assembled(times, labels) ==
        IF labels = <<>> THEN Failed("Clustering")
        ELSE AssembleResult(cfg, times, labels, [i \in DOMAIN times |-> Sim(times[i])])
      Answer(e) == [det |-> e.det,
                    result |-> IF e.error # "" THEN Failed(e.error)
                               ELSE IF e.times = <<>> THEN EmptyResult ELSE Assembled(e.times, Labels(e.times))]
  IN IF ~Validate(cfg) THEN [result |-> Failed("InvalidConfig"), det |-> det]
     ELSE Answer(EmbedWindows(cfg, samples, det))

\* run_from_wav: f is a file of Audio.
RunFromWav(cfg, f, samples, det, Labels(_), Sim(_)) ==
  LET read == A!ReadWav(f)
  IN IF read.error # "" THEN Failed("Wav")
     ELSE IF read.rate # cfg.rate THEN Failed("UnsupportedSampleRate")
     ELSE Run(cfg, samples, det, Labels, Sim).result

-----------------------------------------------------------------------------
(* What it is for.  A case's clusterer hears the loudness a window begins  *)
(* with, and fails on windows of two sizes when sizes matter.              *)

LabelsOf(samples, times) ==
  LET heard(i) == samples[times[i][1] + 1]
  IN [i \in DOMAIN times |-> Cardinality({heard(j) : j \in {k \in DOMAIN times : heard(k) < heard(i)}})]
SimOf(samples, t) == [l \in 0 .. 2 |-> IF l = samples[t[1] + 1] THEN 2 ELSE 1]
RunOn(cfg, samples, det) ==
  Run(cfg, samples, det, LAMBDA times : LabelsOf(samples, times), LAMBDA t : SimOf(samples, t))

\* A detector that has been through another recording, or failed in it, gives
\* the answer of a new one; and the segments of an answer are within the audio,
\* long enough, in order of their starts, of speakers that are counted, and
\* hold no silence but pauses that may be bridged.  "num_speakers <=
\* segments.len()" when a window is no shorter than the speech to keep and the
\* detector's rate is the configured one.
RunsStartFresh(cfg, det, before, samples) ==
  LET Answer(d) == RunOn(cfg, samples, d).result
      Sound(s, speech, out) ==
        /\ 0 <= s.start /\ s.start < s.end /\ s.end <= Len(samples)
        /\ s.end - s.start >= cfg.minSpeech * cfg.rate /\ s.speaker < out.speakers
        /\ \A t \in s.start .. s.end - 1 :
             \/ \E r \in speech : r[1] <= t /\ t < r[2]
             \/ \E a, b \in speech : a[2] <= t /\ t < b[1] /\ b[1] - a[2] <= cfg.maxGap * cfg.rate + cfg.window
      Right(out, speech) ==
        /\ det.rate = cfg.rate /\ cfg.window >= cfg.minSpeech * cfg.rate => out.speakers <= Len(out.segments)
        /\ \A k \in DOMAIN out.segments : Sound(out.segments[k], speech, out)
        /\ \A k \in 2 .. Len(out.segments) : out.segments[k - 1].start < out.segments[k].start
  IN /\ Answer(RunOn(cfg, before, det).det) = Answer(det)
     /\ Right(Answer(det), Range(SegmentSpeech(det, samples, cfg).regions))
=============================================================================
