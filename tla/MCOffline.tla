----------------------------- MODULE MCOffline -----------------------------
(* The offline path on small instances: clustering as a machine of its own,  *)
(* and the pure modules over bounded cases.  A behaviour is of one part; a   *)
(* case is chosen in its first step.                                         *)
EXTENDS Integers, Sequences, FiniteSets, SequencesExt, TLC

CONSTANTS
  Durations, Scores, Modes, ClampLow, ClampHigh, HalfThreshold,
  Rates, Quarters

VARIABLES
  part, case,
  mode, threshold, root, active, size, dur, dominant, score, ids

ahcVars == <<mode, threshold, root, active, size, dur, dominant, score, ids>>

Clustering == INSTANCE Ahc
\* Of the registry, the configuration a model's metadata gives; MCCalls runs its machines.
Models == INSTANCE Registry WITH
  Manifests <- {}, PldaIds <- <<>>, DefaultMaxBytes <- 0, Lengths <- {}, MaxEdits <- 0,
  Stages <- {}, AdapterNames <- {}, MaxRegistrations <- 0, factories <- 0, adapterAliases <- 0, registrations <- 0,
  manifest <- 0, strict <- 0, online <- 0, files <- 0, call <- 0, edits <- 0

Labels == INSTANCE Clusters
Parts == INSTANCE Partition WITH Unit <- 5, AHC_FALLBACK_N <- 3, MAX_EIGENGAP_CANDIDATES <- 20
Windows == INSTANCE Stitch WITH
  MaxSpeakers <- 3, MinSegment <- 2, MinEmbed <- 1, CleanFallback <- 2, SamplesPerFrame <- 2
Pipeline == INSTANCE Diarize WITH MinEmbed <- 2, MinHop <- 1, MinOverlap <- 1
Said == INSTANCE Words
Rated == INSTANCE Scoring
Read == INSTANCE Audio WITH MaxSecs <- 3, Target <- 2, MaxSoftErrors <- 3
Legacy == INSTANCE LegacyPipeline
Doors == INSTANCE FrontDoors

-----------------------------------------------------------------------------
(* The machines' constants.                                                *)

Mode(linkage, auto, at, ceiling, members, secs) ==
  [linkage |-> linkage, auto |-> auto, threshold |-> at, ceiling |-> ceiling, members |-> members, secs |-> secs]
MCModes ==
  {Mode("cosine", TRUE, 4, 2, 0, 0), Mode("cosine", FALSE, 4, 0, 0, 0), Mode("cosine", FALSE, 4, 2, 2, 0),
   Mode("cosine", FALSE, 4, 1, 0, 3), Mode("centroid", FALSE, 4, 0, 0, 0), Mode("centroid", FALSE, 4, 2, 0, 0)}
MCDurations == <<1, 2, 1, 2>>

MCQuarters == {-1, 2, 40}

-----------------------------------------------------------------------------
(* Inputs of the pure modules.                                             *)

Optional(S) == {{}} \cup {{x} : x \in S}
Upto(S, n) == UNION {[1 .. k -> S] : k \in 0 .. n}

\* How near an embedding is to each cluster.
Near(f, n) == [i \in 1 .. n |-> [l \in 0 .. 2 |-> IF l = f[1] THEN 5 ELSE IF l = f[2] /\ i > 2 THEN 7 ELSE 1]]
Directions == {<<5, 0>>, <<4, 3>>, <<0, 5>>, <<-5, 0>>}
Times == {t \in (0 .. 3) \X (1 .. 4) : t[1] < t[2]}

\* A scene is who speaks in each frame; a window hears some frames of it under
\* names of its own.
Spoken == {{0}, {1}, {0, 1}, {2}}
Named(class, p) == {p[s + 1] : s \in class}
OneHot(class) == [c \in 0 .. 6 |-> IF c = Windows!IndexOf(class) THEN 1 ELSE 0]
Heard(scene, from, n, p) ==
  [start |-> from, frames |-> [i \in 1 .. n |-> OneHot(Named(scene[from + i - 1], p))]]
Masked(scene, from, n, p) ==
  [start |-> from - 1, masks |-> [i \in 1 .. n |-> Named(scene[from + i - 1], p)]]

\* Its units, each of the cluster that is the number of its speaker.
UnitsOf(windows) ==
  LET found == {u \in (DOMAIN windows) \X (0 .. 2) : \E f \in DOMAIN windows[u[1]].masks : u[2] \in windows[u[1]].masks[f]}
  IN [k \in 1 .. Cardinality(found) |->
        LET u == CHOOSE u \in found :
                   Cardinality({v \in found : v[1] < u[1] \/ (v[1] = u[1] /\ v[2] < u[2])}) = k - 1
        IN [window |-> u[1], local |-> u[2]]]
NumbersOf(units, p) ==
  [k \in DOMAIN units |-> IF units[k].window = 1 THEN units[k].local
                          ELSE CHOOSE g \in 0 .. 2 : p[g + 1] = units[k].local]

\* The segmenter's segments of a scene with two samples to a frame.
Segments(scene) ==
  LET Of(s) == [k \in DOMAIN Windows!RunsOf(scene, s) |->
                  LET r == Windows!RunsOf(scene, s)[k]
                  IN [r EXCEPT !.start = 2 * (r.start - 1), !.end = 2 * (r.end - 1)]]
  IN Pipeline!ByStart(Of(0) \o Of(1) \o Of(2))
Solo(scene, s) == \E t \in DOMAIN scene : scene[t] = {s}
\* FilesAreTold says of such scenes what is told: runs of two frames or more,
\* everyone heard alone, and no pair on the heels of another pair.
Lasts(scene) == \A t \in DOMAIN scene : \E u \in {t - 1, t + 1} \cap DOMAIN scene : scene[u] = scene[t]
Plain(scene) ==
  /\ Lasts(scene) /\ \A s \in UNION {scene[t] : t \in DOMAIN scene} : Solo(scene, s)
  /\ \A t \in 2 .. Len(scene) : Cardinality(scene[t - 1]) = 2 /\ Cardinality(scene[t]) = 2 => scene[t - 1] = scene[t]
Settings(window, minSpeech, maxGap, map) ==
  [window |-> window, resegment |-> TRUE, threshold |-> 3, map |-> map, minSpeech |-> minSpeech, maxGap |-> maxGap,
   rate |-> 16, configRate |-> 16, maxSamples |-> 18]
ClusterOf == <<2, 0, 1>>
Knows(scene) ==
  [labelAt |-> [t \in 0 .. 2 * Len(scene) - 1 |->
                  LET class == scene[1 + t \div 2] IN IF Cardinality(class) = 1 THEN ClusterOf[1 + CHOOSE s \in class : TRUE] ELSE 0],
   cluster |-> [s \in 0 .. 2 |-> ClusterOf[s + 1]], score |-> [g \in 0 .. 2 |-> g + 2],
   finite |-> TRUE, mixed |-> "finite"]
Guesses(by, finite, mixed) ==
  [labelAt |-> [t \in 0 .. 19 |-> (t \div by) % 3], cluster |-> [s \in 0 .. 2 |-> s],
   score |-> [g \in 0 .. 2 |-> 4 - g], finite |-> finite, mixed |-> mixed]

Turn(s, a, b) == [speaker |-> s, start |-> a, end |-> b, stable |-> s # 1]
SomeTurns == {Turn(s, p[1], p[2]) : s \in {0, 1}, p \in {<<0, 9>>, <<1, 2>>, <<3, 6>>, <<5, 5>>}}
Word(a, b) == [text |-> "w", start |-> a, end |-> b, stop |-> FALSE]
SomeWords == {Word(0, 1), Word(2, 4), Word(4, 7), Word(3, 3), Word(7, 5), Word(10, 11)}
Token(said, boundary, first, last) == [said |-> said, boundary |-> boundary, first |-> first, last |-> last]
Tokens == {Token(FALSE, FALSE, FALSE, FALSE), Token(TRUE, TRUE, FALSE, FALSE), Token(TRUE, FALSE, FALSE, FALSE),
           Token(TRUE, FALSE, TRUE, TRUE), Token(TRUE, FALSE, FALSE, TRUE), Token(TRUE, FALSE, TRUE, FALSE)}
Stamped(tokens, times, stamps) ==
  [i \in DOMAIN tokens |-> [text |-> i, at |-> IF i <= stamps THEN {times[i]} ELSE {}] @@ tokens[i]]
Numbered(words) == [i \in DOMAIN words |-> [words[i] EXCEPT !.text = i]]
Tape == Numbered(<<Word(0, 2), Word(3, 4), Word(4, 6), Word(7, 9), Word(9, 10), Word(11, 13)>>)
Jitters == {[k \in 0 .. 5 |-> IF k \in S THEN 1 ELSE 0] : S \in SUBSET {1, 2, 4}}

RefTurns == {Turn(s, p[1], p[2]) : s \in {0, 1}, p \in {<<0, 5>>, <<4, 8>>, <<6, 12>>}}
HypTurns == {Turn(0, 0, 5), Turn(1, 0, 5), Turn(1, 6, 12), Turn(2, 4, 8), Turn(0, 6, 12)}
RefWords == [text : {"a", "b"}, mid : {0, 4}, speaker : {{}, {0}, {1}}]
HypWords == [text : {"a"}, mid : {1, 4}, speaker : {{}, {5}, {6}}]
Rename == (0 :> 2) @@ (1 :> 0) @@ (2 :> 1)
NoFrames == [ref |-> 0, missed |-> 0, falseAlarm |-> 0, confusion |-> 0]
Results == [ref : {4, 6}, missed : {0, 2}, falseAlarm : {0, 3}, confusion : {1}] \cup {NoFrames}
Line(kind, fields, file) ==
  [kind |-> kind, fields |-> fields, file |-> file, start |-> 0, duration |-> 1, speaker |-> 5]
RttmTurns == {Turn(s, a, a + d) : s \in {3, 4}, a \in 0 .. 2, d \in {1, 2, 3}}
Between == {<<>>, <<Line("skipped", 0, "f"), Line("SPKR-INFO", 9, "f")>>, <<Line("SPEAKER", 9, "other")>>}
BadLines == {Line("SPEAKER", 8, "f"), [Line("SPEAKER", 9, "f") EXCEPT !.start = -1],
             [Line("SPEAKER", 10, "f") EXCEPT !.duration = -1], Line("SPKR-INFO", 3, "f")}

Packets == {<<"audio", 0>>, <<"audio", 3>>, <<"soft", 0>>, <<"end", 0>>, <<"fatal", 0>>, <<"other track", 0>>}
WaveFile == [size |-> "ok", ext |-> "wav", wave |-> "valid", rate |-> 2, declared |-> {}, frames |-> 4, channels |-> 1,
             packets |-> <<>>]
Config == [frame |-> 2, minSilence |-> 1, minSpeech |-> 1, window |-> 2, hop |-> 1, threshold |-> 0, maxGap |-> 0,
           max |-> 6, rate |-> 2, minClusterSecs |-> 0, minClusterSize |-> 0]
LegacyConfigs ==
  {[Config EXCEPT !.minSpeech = m, !.hop = h, !.maxGap = g, !.minClusterSize = 2] : m, h \in {1, 2}, g \in {0, 1}}
  \cup {[Config EXCEPT !.window = w, !.minClusterSecs = s, !.minSilence = q] : w \in {2, 4}, s \in {0, 2}, q \in {0, 1}}
  \cup {[Config EXCEPT !.hop = 3], [Config EXCEPT !.max = 2], [Config EXCEPT !.frame = 0]}
Detectors == {Legacy!FreshDetector("energy", 2, 0, 2), Legacy!FreshDetector("silero", 2, 1, 2),
              Legacy!FreshDetector("earshot", 2, 0, 2), Legacy!FreshDetector("silero", 2, 4, 1)}

Everything == {"powerset_int8", "resnet34_int8", "vbx_plda", "asnorm_cohort", "cam_pp_int8"}
Worlds ==
  [online : BOOLEAN, cached : {{}, {"powerset_int8", "resnet34_int8"}}, served : {Everything, {"powerset_int8"}},
   env : {{}, {"plda"}, {"vbx_from_env", "clean_mask"}, {"clean_mask", "cohort"}},
   files : {{"audio", "cohort", "env plda", "env cohort"}, {}},
   features : {{"vbx", "download"}, {"download", "spectral", "tract"}}]
Usual == [online |-> TRUE, cached |-> {}, served |-> Everything, env |-> {}, files |-> {"audio", "cohort"},
          features |-> {"vbx", "download"}]
Offline == [Usual EXCEPT !.online = FALSE, !.cached = {"powerset_int8", "resnet34_int8"}]
Flags ==
  {[legacy |-> FALSE, wav |-> {"audio"}, profile |-> "balanced", paths |-> {}, latency |-> l, clusterer |-> c,
    threshold |-> t, asNorm |-> a, cohort |-> h, domain |-> d, provider |-> "auto", speakers |-> s,
    maxSpeakers |-> {}, plda |-> {}, window |-> {}] :
     l \in Optional({"realtime"}), c \in {"ahc", "vbx"}, t \in Optional({30, 120}), a \in BOOLEAN,
     h \in Optional({"cohort"}), d \in Optional({"ami", "voxconverse"}), s \in {{}, {2}}}
Builds(features) ==
  {[config |-> [Doors!DefaultConfig(features) EXCEPT !.profile = p, !.clusterer = k, !.minCluster = m, !.window = w,
                                                     !.reconstruct = r, !.embedder = e, !.asNorm = n],
    registry |-> g, custom |-> {}] :
     p \in {"balanced", "custom"}, k \in {"ahc", "vbx", "nme-sc"}, m \in {0, 2}, w \in {{}, {10}}, r, g \in BOOLEAN,
     e \in Optional({"cam_pp_int8"}), n \in Optional({[topN |-> 100, cohort |-> {}]})}
Runs ==
  [out : {"null", "ok"}, panics : {FALSE}, handle : {{}, {1}}, samples : {"ok"}, format : {0, 4, 5}, n : {3600, 3601},
   rate : {7, 16}, outcome : {"ok", "AudioTooLong", "Registry", "Other"}, rendered : BOOLEAN]
  \cup [out : {"null", "ok"}, panics : {TRUE}, handle : {{1}}, samples : {"ok"}, format : {0}, n : {1}, rate : {16},
        outcome : {"ok"}, rendered : {TRUE}]

Spellings ==
  {[f \in Models!FieldNames |->
      CASE f = "window_secs" -> w [] f = "hop_secs" -> <<h>> [] f = "adapter_type" -> <<Models!Missing, a>> [] OTHER -> <<>>] :
     w \in [1 .. 2 -> {Models!Missing, Models!Unset, 8}], h \in {Models!Missing, 4, 40}, a \in {Models!Missing, 1}}
BuiltIn == {[sample_rate |-> 16, window_secs |-> 40, hop_secs |-> 8], [sample_rate |-> 4, window_secs |-> 4, hop_secs |-> 1]}
Defaults == {Models!Nothing, [Models!Nothing EXCEPT !.window_secs = 40, !.hop_secs = 2]}
ModelPaths == [dir : {"root", "int8"}, powerset : {TRUE}, rewrite : BOOLEAN]

-----------------------------------------------------------------------------
(* The choice of a case: its kind is chosen at the start, its inputs in the *)
(* first step.                                                              *)

Kinds == {"cost", "together", "kmeans", "spectral", "prune", "timed", "vbx", "soft", "assign", "scene", "windows", "crop", "repair", "timeline",
          "file", "guess", "lookup", "units", "clean", "overlaps", "tokens", "sweep", "attribute", "label", "exclusive", "chunks",
          "der", "wder", "average", "rttm", "load", "buffer", "legacy", "flags", "build", "doors", "geometry"}

\* One case of a kind, and the property of it as a pure module states it.
Choose(kind, input) == case' = <<kind, input>>
Starts(kind) == case = <<"start", kind>>

PickLabels ==
  \/ Starts("cost") /\ \E n \in 1 .. 3 : \E c \in [1 .. n -> [1 .. n -> {-2, -1, 0}]] : Choose("cost", c)
  \/ Starts("together") /\ \E D \in SUBSET ({0, 1} \X {0, 1, 2}) : \E t \in [D -> {1, 2}] : Choose("together", t)
  \/ Starts("kmeans") /\ \E n \in 2 .. 4 : \E e \in [1 .. n -> Directions], m \in {2, 3}, fast \in BOOLEAN :
       (n = 4 => e[1] = <<5, 0>> /\ m = 3) /\ Choose("kmeans", <<e, m, fast>>)
  \/ Starts("spectral") /\ \E n \in 3 .. 5 : \E e \in [1 .. n -> Directions], m \in {2, 3} :
       (n > 3 => e[1] = <<5, 0>>) /\ (n = 5 => e[2] = <<5, 0>>) /\ Choose("spectral", <<e, m>>)
  \/ Starts("prune") /\ \E n \in 2 .. 5 : \E l \in [1 .. n -> 0 .. 2], f \in {<<0, 1>>, <<2, 0>>}, m \in 0 .. 3 :
       Labels!Compact(l) /\ Choose("prune", <<Near(f, n), l, m>>)
  \/ Starts("timed") /\ \E t \in [1 .. 3 -> Times], l \in {<<0, 0, 0>>, <<0, 1, 0>>, <<1, 0, 0>>} : Choose("timed", <<t, l>>)
  \/ Starts("vbx") /\ \E n \in 1 .. 4 : \E d \in [1 .. n -> 1 .. 3], m \in {0, 2, 4}, f \in {<<0, 1>>, <<2, 0>>},
                                          p \in {<<0, 1, 2, 0>>, <<2, 0, 2, 1>>, <<1, 1, 1, 1>>} :
       Choose("vbx", <<d, m, SubSeq(p, 1, n), Near(f, n)>>)
  \/ Starts("soft") /\ \E e \in [1 .. 4 -> Directions], n \in 2 .. 3, p \in {{}, {1, 3}, {1, 2, 3}} :
       \E s \in [1 .. n -> 1 .. 3] : e[1] = <<5, 0>> /\ (n = 2 => e[3] = e[1]) /\ Choose("soft", <<e, s, p, 3, 8>>)
  \/ Starts("assign") /\ \E D \in SUBSET ((0 .. 2) \X {0, 1}) : \E c \in [D -> {1, 2, 4}], pair \in {<<0, 1>>, <<2, 0>>} :
       Choose("assign", <<c, pair>>)

PickTimeline ==
  \/ Starts("scene") /\ \E s \in [1 .. 5 -> {{0}, {1}, {0, 1}}] \cup [1 .. 5 -> {{0}, {1}, {2}}],
                          p \in {<<1, 0, 2>>, <<1, 2, 0>>}, q \in {<<0, 1, 2>>, <<1, 2, 0>>} :
       Choose("scene", <<s, <<Heard(s, 1, 3, <<0, 1, 2>>), Heard(s, 2, 3, p), Heard(s, 3, 3, q)>>>>)
  \/ Starts("windows") /\ \E a \in [1 .. 4 -> {{0}, {1}, {0, 1}}], b \in [1 .. 3 -> {{0}, {2}, {0, 1}}] :
       Choose("windows", <<Heard(a, 1, 4, <<0, 1, 2>>), [Heard(b, 1, 3, <<0, 1, 2>>) EXCEPT !.start = 3]>>)
  \/ Starts("crop") /\ \E m \in [1 .. 4 -> {{}, {0}, {1}, {0, 1}}], at \in {0, 1}, n \in {0, 3, 5, 8, 9} :
       Choose("crop", <<<<[start |-> at, masks |-> m]>>, n>>)
  \/ Starts("repair") /\ \E l \in [1 .. 4 -> 0 .. 2], near \in [1 .. 4 -> {<<0, 1, 2>>, <<2, 1, 0>>, <<1, 2, 0>>}] :
       Choose("repair", <<[k \in 1 .. 4 |-> [window |-> 1 + k \div 4, local |-> (k - 1) % 3]],
                          [k \in 1 .. 4 |-> [c \in 0 .. 2 |-> near[k][c + 1]]], l>>)
  \/ Starts("timeline") /\ \E s \in [1 .. 5 -> {{}, {0}, {1}, {0, 1}, {2}}], p \in {<<0, 1, 2>>, <<1, 0, 2>>, <<2, 0, 1>>} :
       LET windows == <<Masked(s, 1, 3, <<0, 1, 2>>), Masked(s, 3, 3, p)>>
       IN Choose("timeline", <<s, windows, UnitsOf(windows), NumbersOf(UnitsOf(windows), p)>>)

PickFile ==
  \/ Starts("file") /\ \E s \in [1 .. 7 -> Spoken \cup {{}}] :
       Plain(s) /\ \E w \in {0, 4}, g \in {0, 4}, map \in {"majority", "hungarian"} :
         Choose("file", <<Segments(s), 2 * Len(s), Settings(w, 2, g, map), Knows(s)>>)
  \/ Starts("guess") /\ \E s \in [1 .. 5 -> Spoken], cut \in {0, 3, 12}, w \in {0, 3}, by \in {2, 20}, map \in {"off", "hungarian"},
                          finite \in BOOLEAN, mixed \in {"finite", "not finite", "error"} :
       (finite \/ mixed = "finite") /\ Choose("guess", <<Segments(s), 2 * Len(s) - cut, Settings(w, 3, 1, map), Guesses(by, finite, mixed)>>)
  \/ Starts("lookup") /\ \E a \in 0 .. 3, n \in 1 .. 3, l \in [1 .. 3 -> {0, 1}], m \in [1 .. 3 -> 0 .. 6] :
       Choose("lookup", <<Turn(0, a, a + n), l, m>>)
  \/ Starts("units") /\ \E n \in 1 .. 20, w \in 2 .. 9 : Choose("units", <<[start |-> 3, end |-> 3 + n], w>>)
  \/ Starts("clean") /\ \E o \in Upto([start : {0, 2, 3, 5}, end : {3, 4, 6, 9}], 3), n \in {1, 6} :
       Choose("clean", <<[start |-> 2, end |-> 2 + n], o>>)
  \/ Starts("overlaps") /\ \E t \in Upto(SomeTurns \cup {Turn(2, 5, 7), Turn(2, 2, 4), Turn(0, 2, 3), Turn(1, 2, 4), Turn(0, 1, 9)}, 3) :
       /\ \A i, j \in DOMAIN t : i < j => t[i].start <= t[j].start
            /\ (t[i].speaker = t[j].speaker => t[i].end <= t[j].start /\ t[i] # t[j])
       /\ Choose("overlaps", t)

PickWords ==
  \/ Starts("tokens") /\ \E n \in 1 .. 3 : \E k \in [1 .. n -> Tokens], t \in {<<0, 2, 4>>, <<0, 0, 3>>, <<3, 1, 2>>},
                                               stamps \in {1, 3}, clip \in {2, 5} :
       Choose("tokens", <<Stamped(k, t, stamps), clip>>)
  \/ Starts("sweep") /\ \E t \in [1 .. 3 -> SomeTurns], w \in [1 .. 2 -> SomeWords] : Choose("sweep", <<w, t>>)
  \/ Starts("attribute") /\ \E t \in Upto(SomeTurns, 2), w \in [1 .. 3 -> {Word(0, 1), Word(4, 7), Word(7, 5)}], s, c \in BOOLEAN :
       Choose("attribute", <<Numbered([w EXCEPT ![1].stop = s]), t, [interpolate |-> c, smoothing |-> TRUE, threshold |-> 50]>>)
  \/ Starts("label") /\ \E t \in Upto(SomeTurns, 2), m \in SomeTurns, at \in 0 .. 18 : Choose("label", <<t, <<m>>, at>>)
  \/ Starts("exclusive") /\ \E t \in Upto(SomeTurns, 3), cap \in {3, 100} : Choose("exclusive", <<t, cap>>)
  \/ Starts("chunks") /\ \E n \in 0 .. 14, c \in {4, 8}, o \in {0, 2, 3, 4}, j \in Jitters :
       Choose("chunks", <<SelectSeq(Tape, LAMBDA w : w.end <= n), n, c, o, j>>)

PickScores ==
  \/ Starts("der") /\ \E r \in Upto(RefTurns, 2), h \in Upto(HypTurns, 2), collar \in {0, 1} :
       r # <<>> /\ Choose("der", <<r, h, collar>>)
  \/ Starts("wder") /\ \E m \in 2 .. 3 : \E a \in {w \in RefWords : w.mid = 0}, b \in RefWords, h \in [1 .. m -> HypWords] :
       Choose("wder", <<<<a, b>>, h>>)
  \/ Starts("average") /\ \E rows \in [1 .. 2 -> [1 .. 2 -> Results]] : Choose("average", rows)
  \/ Starts("rttm") /\ \E t \in Upto(RttmTurns, 2) \cup [1 .. 3 -> {Turn(3, 0, 2), Turn(4, 1, 4)}], b \in Between, bad \in BadLines :
       t # <<>> /\ Choose("rttm", <<t, b, bad>>)

PickAudio ==
  \/ Starts("load") /\ \E io \in BOOLEAN :
       \/ \E s \in {"missing", "big", "ok"}, e \in {"wav", "mp3", "none"}, w \in {"valid", "codec", "unprobed"},
             r \in {0, 2, 3}, d \in {{}, {4}, {7}}, n \in {0, 5, 7} :
            Choose("load", <<[WaveFile EXCEPT !.size = s, !.ext = e, !.wave = w, !.rate = r, !.declared = d, !.frames = n], io>>)
       \/ \E c \in {1, 2}, p \in [1 .. 4 -> Packets] :
            Choose("load", <<[WaveFile EXCEPT !.ext = "mp3", !.channels = c, !.packets = p], io>>)
  \/ Starts("buffer") /\ \E p \in Upto(0 .. 4, 3), w \in 1 .. 4, h \in 1 .. 4 : h <= w /\ Choose("buffer", <<p, w, h>>)
  \/ Starts("legacy") /\ \E c \in LegacyConfigs, d \in Detectors, b \in {<<2, 1, 1, 0>>, <<1, 1, 2, 9>>},
                           s \in [1 .. 6 -> {0, 2}] \cup [1 .. 4 -> {1, 8, 9}] :
       Choose("legacy", <<c, d, b, s>>)

PickDoors ==
  \/ Starts("flags") /\ \E f \in Flags, w \in {Usual, Offline} : Choose("flags", <<f, w>>)
  \/ Starts("build") /\ \E w \in Worlds : \E b \in Builds(w.features) : Choose("build", <<b, w>>)
  \/ Starts("doors") /\ \E p \in {"mobile", "balanced"}, r \in Runs,
                          w \in {Usual, Offline, [Usual EXCEPT !.env = {"bad cache"}], [Usual EXCEPT !.features = {"download"}],
                                  [Usual EXCEPT !.served = {"powerset_int8"}]} :
       Choose("doors", <<p, r, w>>)
  \/ Starts("geometry") /\ \E s \in Spellings, e \in {m \in Models!Metas : m["adapter_type"] = Models!Unset},
                             d \in Defaults, b \in BuiltIn, p \in ModelPaths :
       Choose("geometry", <<s, e, d, b, p>>)

Pick == PickLabels \/ PickTimeline \/ PickFile \/ PickWords \/ PickScores \/ PickAudio \/ PickDoors

-----------------------------------------------------------------------------
Idle == <<"idle">>

AhcIdle ==
  /\ mode = Idle /\ threshold = Idle /\ root = Idle /\ active = Idle /\ size = Idle /\ dur = Idle
  /\ dominant = Idle /\ score = Idle /\ ids = Idle

InitOf(kinds) ==
  part = "case" /\ case \in {<<"start", k>> : k \in kinds} /\ AhcIdle

MCInit ==
  \/ InitOf(Kinds)
  \/ part = "ahc" /\ case = Idle /\ Clustering!Init

MCNext ==
  \/ part = "case" /\ case[1] = "start" /\ Pick /\ UNCHANGED <<part, ahcVars>>
  \/ part = "ahc" /\ Clustering!Next /\ UNCHANGED <<part, case>>

allVars == <<part, case, ahcVars>>
MCSpec == MCInit /\ [][MCNext]_allVars

\* The runs of one kind of case.
StitchSpec == InitOf({"windows"}) /\ [][MCNext]_allVars
FlagsSpec == InitOf({"flags"}) /\ [][MCNext]_allVars

-----------------------------------------------------------------------------
Is(kind) == part = "case" /\ case[1] = kind
Arg(k) == case[2][k]

\* Ahc!RootsDescribeTheirClusters and ClustersAreApart; Partition!Nobody-
\* IsMisplaced, GroupsAreFound, ComponentsAreFound and SpeakersAreGivenBack;
\* Clusters!PruningKeepsTheLarge, DurationsAreCovered and VbxLabelsAreCompact:
\* the merging, pruning, reassignment and numbering of clusters (ahc, kmeans, spectral, clusterer/vbx.rs, short_filter.rs).
ClustersAreSound ==
  /\ part = "ahc" => Clustering!RootsDescribeTheirClusters /\ Clustering!ClustersAreApart
  /\ Is("kmeans") => Parts!NobodyIsMisplaced(Arg(1), Arg(2)) /\ Parts!GroupsAreFound(Arg(1), Arg(2), Arg(3))
  /\ Is("spectral") => Parts!ComponentsAreFound(Arg(1), Arg(2))
  /\ Is("soft") => Parts!SpeakersAreGivenBack(Arg(1), Arg(2), Arg(3), Arg(4), Arg(5))
  /\ Is("prune") => Labels!PruningKeepsTheLarge(Arg(1), Arg(2), Arg(3))
  /\ Is("timed") => Labels!DurationsAreCovered(Arg(1), Arg(2))
  /\ Is("vbx") => Labels!VbxLabelsAreCompact(Arg(1), Arg(2), Arg(3), Arg(4))

\* Clusters!AssignmentIsOptimal, MappingIsOptimal and AssignmentSeparates: no
\* assignment is cheaper, and two speakers of an overlap get two clusters if there
\* are two for them (hungarian.rs, clusterer/assign.rs).
AssignmentsAreBest ==
  /\ Is("cost") => Labels!AssignmentIsOptimal(case[2])
  /\ Is("together") => Labels!MappingIsOptimal(case[2])
  /\ Is("assign") => Labels!AssignmentSeparates(Arg(1), Arg(2))

\* Stitch!SegmentsTileTheClasses and StitchRecovers; CropsKeepTheirMask,
\* WindowsAreRepaired and ScenesComeBack: windows that heard one scene are put
\* back together as that scene, by either pipeline (segmentation/aggregator.rs,
\* pipeline_v2/reconstruct.rs).
ScenesAreRecovered ==
  /\ Is("scene") => Windows!StitchRecovers(Arg(1), Arg(2))
  /\ Is("windows") => Windows!SegmentsTileTheClasses(case[2])
  /\ Is("crop") => Windows!CropsKeepTheirMask(Arg(1), Arg(2))
  /\ Is("repair") => Windows!WindowsAreRepaired(Arg(1), Arg(2), Arg(3))
  /\ Is("timeline") => Windows!ScenesComeBack(Arg(1), Arg(2), Arg(3), Arg(4))

\* Diarize!FilesAreTold, TurnsAreWellFormed, LookupsAgree, UnitsCoverTheSegment,
\* CleanSpeechIsUnmasked, OverlapsAreFound: a file comes out as who spoke when
\* (pipeline_v2/mod.rs, resegmentation/mod.rs, overlap/mod.rs).
FilesComeOut ==
  /\ Is("file") => Pipeline!FilesAreTold(Arg(1), Arg(2), Arg(3), Arg(4))
  /\ Is("guess") => Pipeline!TurnsAreWellFormed(Arg(1), Arg(2), Arg(3), Arg(4))
  /\ Is("lookup") => Pipeline!LookupsAgree(Arg(1), Arg(2), Arg(3))
  /\ Is("units") => Pipeline!UnitsCoverTheSegment(Arg(1), Arg(2))
  /\ Is("clean") => Pipeline!CleanSpeechIsUnmasked(Arg(1), Arg(2))
  /\ Is("overlaps") => Pipeline!OverlapsAreFound(case[2])

\* Words!SweepIsTheScan, WordsFindTheirTurns, LabelsOutliveTheTail, TimelineIs-
\* Exclusive, EachWordIsToldOnce and TokensMakeWords: no word is lost, doubled or given to a
\* speaker it should not have (attribution, labeling, polyvoice-asr).
WordsAreTold ==
  /\ Is("tokens") => Said!TokensMakeWords(Arg(1), Arg(2))
  /\ Is("sweep") => Said!SweepIsTheScan(Arg(1), Arg(2))
  /\ Is("attribute") => Said!WordsFindTheirTurns(Arg(1), Arg(2), Arg(3))
  /\ Is("label") => Said!LabelsOutliveTheTail(Arg(1), Arg(2), Arg(3))
  /\ Is("exclusive") => Said!TimelineIsExclusive(Arg(1), Arg(2))
  /\ Is("chunks") => Said!EachWordIsToldOnce(Arg(1), Arg(2), Arg(3), Arg(4), Arg(5))

\* Scoring!ScoresAreConsistent, WderIsFair, AveragesAreWeighted, RttmRoundTrips:
\* the rates that are reported fit each other and the files they come from
\* (der/frame.rs, der/decompose.rs, der/wder.rs, polyvoice-bench.rs, rttm/mod.rs).
RatesAreFair ==
  /\ Is("der") => Rated!ScoresAreConsistent(Arg(1), Arg(2), Arg(3), 4, Rename)
  /\ Is("wder") => Rated!WderIsFair(Arg(1), Arg(2), (0 :> 2) @@ (1 :> 0), [text |-> "a", mid |-> 200, speaker |-> {0}])
  /\ Is("average") => Rated!AveragesAreWeighted(case[2])
  /\ Is("rttm") => Rated!RttmRoundTrips("f", Arg(1), Arg(2), Arg(3))

\* Audio!LoadedAudioIsWhole and WindowsAgree, LegacyPipeline!RunsStartFresh: no
\* sample is lost on the way in, and no recording changes the next one's answer
\* (wav, window, pipeline/mod.rs, vad/mod.rs, silero_vad, earshot_vad).
AudioIsWhole ==
  /\ Is("load") => Read!LoadedAudioIsWhole(Arg(1), Arg(2))
  /\ Is("buffer") => Read!WindowsAgree(Arg(1), Arg(2), Arg(3))
  /\ Is("legacy") => Legacy!RunsStartFresh(Arg(1), Arg(2), Arg(3), Arg(4))

\* FrontDoors!ThresholdsHaveTheirPrecedence, BuildsKeepTheirWord and DoorsAgree,
\* Registry!GeometryIsSound: what is asked for at a front door is what is built,
\* with a segmenter whose geometry fits (config.rs, builder.rs, clusterer_factory.rs,
\* cli_common.rs, ffi/mod.rs, models/mod.rs, metadata.rs, powerset.rs).
DoorsKeepTheirWord ==
  /\ Is("flags") => Doors!ThresholdsHaveTheirPrecedence(Arg(1), Arg(2))
  /\ Is("build") => Doors!BuildsKeepTheirWord(Arg(1), Arg(2))
  /\ Is("doors") => Doors!DoorsAgree(Arg(1), Arg(2), Arg(3))
  /\ Is("geometry") => Models!GeometryIsSound(Arg(1), Arg(2), Arg(3), Arg(4), Arg(5), TRUE, {"root"})

\* Stitch!NamesAreDistinct: "the permutation that maps window B's local indices
\* onto A's frame" is one (aggregator.rs: window_permutation).
NamesAreDistinct == Is("windows") => Windows!NamesAreDistinct(case[2])

\* FrontDoors!AsNormBuilds: "AS-norm falls back to the calibrated VoxConverse
\* z-threshold" and the command line gets its pipeline (cli_common.rs).
AsNormBuilds == Is("flags") => Doors!AsNormBuilds(Arg(1), Arg(2))
=============================================================================
