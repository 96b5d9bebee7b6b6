----------------------------- MODULE MCStreaming -----------------------------
(* The streaming pipeline, and what it is made of on larger instances of its  *)
(* own: the speaker cache under any similarities, and the region tracker as   *)
(* the two batch users run it, segment_speech and binarize_frames.  A         *)
(* behaviour is of one part; the others stay idle.                            *)
EXTENDS Streaming

CONSTANTS CacheCap, CacheSimilarities, CacheSteps, ProbsPerFrame, MaxFrames

VARIABLES
  part,
  cEntries, cCurrent, cNextId, cStep, cLast,
  rPhase, rFrames, rProbs, rNext, rTracker, rSegments,
  bTrack, bFrame, bGate, bTracker, bActive, bDone

speakerVars == <<cEntries, cCurrent, cNextId, cStep, cLast>>
regionVars == <<rPhase, rFrames, rProbs, rNext, rTracker, rSegments>>
binVars == <<bTrack, bFrame, bGate, bTracker, bActive, bDone>>
allVars == <<part, vars, speakerVars, regionVars, binVars>>

Cache == INSTANCE SpeakerCacheProofs WITH
  SpeakerCap <- CacheCap, Similarities <- CacheSimilarities, MaxSteps <- CacheSteps,
  entries <- cEntries, current <- cCurrent, nextId <- cNextId, step <- cStep, last <- cLast
Batch == INSTANCE SpeechRegions WITH
  phase <- rPhase, frames <- rFrames, probs <- rProbs, next <- rNext, tracker <- rTracker,
  segments <- rSegments
Bin == INSTANCE Binarize WITH
  track <- bTrack, g <- bFrame, gate <- bGate, tracker <- bTracker,
  active <- bActive, done <- bDone

\* The constants of the cache and of segment_speech are what they take them to be.
ASSUME StreamAssumption == SpeakerCacheAssumption
ASSUME CacheAssumption == Cache!SpeakerCacheAssumption
ASSUME BatchAssumption == Batch!SpeechRegionsAssumption
ASSUME BinAssumption == Bin!BinarizeAssumption

-----------------------------------------------------------------------------
Idle == <<"idle">>

StreamIdle ==
  /\ hop = Idle /\ pc = Idle /\ vadBuffer = Idle /\ totalFrames = Idle /\ tracker = Idle
  /\ buf = Idle /\ nextStart = Idle /\ segEnd = Idle /\ turns = Idle /\ newTurns = Idle
  /\ outcome = Idle /\ heard = Idle /\ track = Idle /\ flushes = Idle /\ failures = Idle
  /\ entries = Idle /\ current = Idle /\ nextId = Idle /\ step = Idle /\ last = Idle
CacheIdle == cEntries = Idle /\ cCurrent = Idle /\ cNextId = Idle /\ cStep = Idle /\ cLast = Idle
BatchIdle ==
  /\ rPhase = Idle /\ rFrames = Idle /\ rProbs = Idle /\ rNext = Idle /\ rTracker = Idle
  /\ rSegments = Idle
BinIdle ==
  /\ bTrack = Idle /\ bFrame = Idle /\ bGate = Idle /\ bTracker = Idle /\ bActive = Idle
  /\ bDone = Idle

MCInit ==
  \/ part = "stream" /\ Init /\ CacheIdle /\ BatchIdle /\ BinIdle
  \/ part = "cache" /\ StreamIdle /\ Cache!CacheInit /\ BatchIdle /\ BinIdle
  \/ part = "batch" /\ StreamIdle /\ CacheIdle /\ Batch!Init /\ BinIdle
  \/ part = "binarize" /\ StreamIdle /\ CacheIdle /\ BatchIdle /\ Bin!Init

InStream(A) == part = "stream" /\ A /\ UNCHANGED <<part, speakerVars, regionVars, binVars>>
InCache(A) == part = "cache" /\ A /\ UNCHANGED <<part, vars, regionVars, binVars>>
InBatch(A) == part = "batch" /\ A /\ UNCHANGED <<part, vars, speakerVars, binVars>>
InBinarize(A) == part = "binarize" /\ A /\ UNCHANGED <<part, vars, speakerVars, regionVars>>

MCNext == InStream(Next) \/ InCache(Cache!CacheNext) \/ InBatch(Batch!Next) \/ InBinarize(Bin!Next)

MCSpec == MCInit /\ [][MCNext]_allVars

-----------------------------------------------------------------------------
\* Streaming!TurnsAreTheWindows and ShortRegionsAreSilent, with TurnIInv: without
\* failures the turns are the windows of the batch regions, at every step those
\* cut so far, and no turn comes from a region that closed too short, whatever
\* failed (streaming/mod.rs).
StreamTurnsAreRight == part = "stream" => TurnsAreTheWindows /\ TurnIInv

\* Streaming!AudioIInv, with TurnsInOrder and NoAudioBetweenRegions: turns come
\* in the order of their start and within the frames heard, and the window
\* buffer is empty between regions, after failures too (streaming/mod.rs).
NoAudioIsCarriedOver == part = "stream" => AudioIInv

\* Streaming!LatencyBound: a call that succeeds leaves less than a frame and a
\* window of audio waiting (latency.rs, streaming/mod.rs).
LatencyIsBounded == part = "stream" => LatencyBound /\ NoFullWindowWaits

\* Streaming!LabelsSettle, with LabelIInv: a stable label stays stable, and a
\* speaker has no more turns than hits (streaming/stability.rs).
StreamLabelsSettle == part = "stream" => LabelIInv

\* SpeakerCache!ResidentsWellFormed, FollowsHysteresis and SplitsOnlyWithinMargin,
\* with CacheIInv: the current speaker is a resident whatever was evicted, it is
\* left only for one better by more than the margin, and one voice becomes two
\* speakers only within the margin (streaming/cache.rs).
SpeakersFollowHysteresis ==
  part = "cache" =>
    Cache!CacheIInv /\ Cache!FollowsHysteresis /\ Cache!SplitsOnlyWithinMargin

\* SpeakerCache!NeverRenumbered: "arrival-order IDs never renumber mid-stream".
SpeakersNeverRenumbered == [][part = "cache" => Cache!JoinsFresh]_allVars

\* SpeechRegions!SegmentsAreTheRegions and SegmentsInOrder, and
\* Binarize!ActiveIsTheKeptRegions, with RegionIInv and BinIInv: both batch users
\* find the regions defined on the whole track, in order, and at every frame the
\* ones that are closed by then (vad/mod.rs, segmentation/binarize.rs).
BatchRegionsAreKept ==
  /\ part = "batch" => Batch!RegionIInv /\ Batch!SegmentsAreTheRegions /\ Batch!SegmentsInOrder
  /\ part = "binarize" => Bin!BinIInv /\ Bin!ActiveIsTheKeptRegions
=============================================================================
