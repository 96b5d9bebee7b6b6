---------------------------- MODULE SpeechRegions ----------------------------
(***************************************************************************)
(* segment_speech of src/vad/mod.rs: score every complete frame with the   *)
(* detector, run the region machine over the probabilities, flush it, and  *)
(* keep the regions that last long enough.                                 *)
(***************************************************************************)
EXTENDS Hysteresis, Sequences

CONSTANTS
  MinOff,         \* min_silence_frames
  MinOn,          \* min_speech_frames
  ProbsPerFrame,  \* probabilities the detector may return for one frame;
                  \* {1} when its native frame is VadConfig::frame_size
  Usize,          \* one more than the largest usize
  MaxFrames       \* bound: frames of a recording

SpeechRegionsAssumption ==
  /\ MinOff \in Nat /\ MinOn \in Nat /\ MaxFrames \in Nat
  /\ ProbsPerFrame \subseteq Nat
  /\ Usize \in Nat /\ Usize > 2 * MaxFrames /\ Usize > MinOn

Scores == {"low", "high", "nan"}    \* below the threshold, not below, NaN

VARIABLES
  phase,     \* "score", "scan", then "done" or "error"
  frames,    \* frames the detector has scored
  probs,     \* the probabilities it returned
  next,      \* index of the next probability to scan, from 0
  tracker,
  segments   \* the kept regions, in frames, in the order they closed

vars == <<phase, frames, probs, next, tracker, segments>>

Init ==
  /\ phase = "score" /\ frames = 0 /\ probs = <<>> /\ next = 0
  /\ tracker = NewTracker /\ segments = <<>>

ScoreFrame ==
  /\ phase = "score" /\ frames < MaxFrames
  /\ \E n \in ProbsPerFrame : \E p \in [1..n -> Scores] : probs' = probs \o p
  /\ frames' = frames + 1
  /\ UNCHANGED <<phase, next, tracker, segments>>

ScoreFails ==
  /\ phase = "score" /\ phase' = "error"
  /\ UNCHANGED <<frames, probs, next, tracker, segments>>

EndOfAudio ==
  /\ phase = "score" /\ phase' = "scan"
  /\ UNCHANGED <<frames, probs, next, tracker, segments>>

\* VadStateMachine::advance: a NaN is speech inside a region and silence outside.
IsActive(inRegion, p) == p = "high" \/ (inRegion /\ p = "nan")

\* Mutant: a NaN is silence everywhere.
MachineAdvanceNanIsSilence(tr, p, frame) ==
  Advance(tr, p = "high", frame, MinOff, "keep")

MachineAdvance(tr, p, frame) ==
  Advance(tr, IsActive(tr.inRegion, p), frame, MinOff, "keep")

MachineFlush(tr, frame) == Flush(tr, frame, "keep")

Kept(event) == event.kind = "end" /\ Keeps(event.start, event.end, MinOn, Usize)

Collected(segs, event) ==
  IF Kept(event) THEN Append(segs, <<event.start, event.end>>) ELSE segs

Collect(event) == segments' = Collected(segments, event)

ScanFrame ==
  /\ phase = "scan" /\ next < Len(probs)
  /\ LET r == MachineAdvance(tracker, probs[next + 1], next) IN
       tracker' = r.tracker /\ Collect(r.event)
  /\ next' = next + 1
  /\ UNCHANGED <<phase, frames, probs>>

Finish ==
  /\ phase = "scan" /\ next = Len(probs) /\ phase' = "done"
  /\ LET r == MachineFlush(tracker, frames) IN
       tracker' = r.tracker /\ Collect(r.event)
  /\ UNCHANGED <<frames, probs, next>>

Next == ScoreFrame \/ ScoreFails \/ EndOfAudio \/ ScanFrame \/ Finish

Spec == Init /\ [][Next]_vars

-----------------------------------------------------------------------------
TypeOK ==
  /\ phase \in {"score", "scan", "done", "error"}
  /\ frames \in 0..MaxFrames
  /\ probs \in Seq(Scores) /\ next \in 0..Len(probs)
  /\ phase # "done" => TrackerAt(tracker, next, MinOff)
  /\ segments \in Seq(Nat \X Nat)

FramesAt(scores) == {i \in 0..(Len(probs) - 1) : probs[i + 1] \in scores}

\* A NaN frame is active when a speech frame before it is still in reach.
ActiveFrames ==
  FramesAt({"high"}) \cup
  {i \in FramesAt({"nan"}) : \E h \in FramesAt({"high"}) :
     h < i /\ Together(h, i, FramesAt({"high", "nan"}), {}, MinOff)}

LongEnough(regions) == {r \in regions : r[2] - r[1] >= MinOn}

(* What segment_speech returns is the regions of the whole track, defined    *)
(* without a machine, less those shorter than min_speech_frames: no pause is *)
(* bridged too far or too little, no region is lost at the end of the audio, *)
(* and a NaN neither opens a region nor closes one.                          *)
SegmentsAreTheRegions ==
  phase = "done" =>
    Range(segments) = LongEnough(Regions(ActiveFrames, {}, frames, MinOff, "keep"))

(* The postcondition segment_speech states of itself, whatever the detector: *)
(* every segment ends after it starts; and segments come in order, apart.    *)
SegmentsInOrder ==
  /\ \A i \in 1..Len(segments) : segments[i][1] < segments[i][2]
  /\ \A i \in 1..(Len(segments) - 1) : segments[i][2] <= segments[i + 1][1]
-----------------------------------------------------------------------------
(* The invariant of the loop, when the detector scores each frame once.    *)
OneProbPerFrame == ProbsPerFrame = {1}

\* A NaN is speech exactly while a speech frame is in reach, at the loop's frame.
NanFollowsSpeech ==
  IF tracker.inRegion
    THEN /\ tracker.start \in FramesAt({"high"})
         /\ \A k \in (tracker.lastActive + 1)..(next - 1) : k \notin FramesAt({"high", "nan"})
    ELSE NoReach(FramesAt({"high"}), FramesAt({"high", "nan"}), {}, MinOff, next)

SegmentsAreTheClosed ==
  Range(segments) = LongEnough(Closed(tracker, ActiveFrames, {}, frames, MinOff, "keep", next))

SegmentsBeforeLoop ==
  \A i \in 1..Len(segments) : segments[i][2] <= IF tracker.inRegion THEN tracker.start ELSE next

RegionIInv ==
  /\ TypeOK /\ Len(probs) = frames /\ SegmentsInOrder
  /\ phase \in {"score", "error"} => next = 0 /\ tracker = NewTracker /\ segments = <<>>
  /\ phase = "scan" =>
       /\ Tracks(tracker, ActiveFrames, {}, MinOff, next) /\ NanFollowsSpeech
       /\ SegmentsAreTheClosed /\ SegmentsBeforeLoop
  /\ SegmentsAreTheRegions
=============================================================================
