------------------------------ MODULE Binarize ------------------------------
(***************************************************************************)
(* binarize_frames of src/segmentation/binarize.rs: the loop that turns    *)
(* one local speaker's activity probabilities into active frames, with     *)
(* onset/offset hysteresis, bridged gaps and dropped blips.  The loops of  *)
(* the three local speakers share nothing, so one speaker stands for all.  *)
(***************************************************************************)
EXTENDS Hysteresis

CONSTANTS
  MinOff,     \* min_duration_off, in frames
  MinOn,      \* min_duration_on, in frames
  Usize,      \* one more than the largest usize
  MaxFrames   \* bound: frames of a recording

BinarizeAssumption ==
  MinOff \in Nat /\ MinOn \in Nat /\ MaxFrames \in Nat /\ Usize \in Nat /\ Usize > MaxFrames

\* A frame's probability, or a hole where no window covers the frame.
Frames == Probabilities \cup {"hole"}

VARIABLES
  track,    \* the recording, in frames from 0
  g,        \* the frame the loop is at
  gate,     \* HysteresisGate::on
  tracker,
  active,   \* frames marked active so far
  done

vars == <<track, g, gate, tracker, active, done>>

Init ==
  /\ \E n \in 0..MaxFrames : track \in [0..(n - 1) -> Frames]
  /\ g = 0 /\ gate = FALSE /\ tracker = NewTracker /\ active = {} /\ done = FALSE

N == Cardinality(DOMAIN track)

MarkRegion(event) ==
  active' = IF event.kind = "end" /\ Keeps(event.start, event.end, MinOn, Usize)
              THEN active \cup event.start..(event.end - 1)
              ELSE active

\* Mutant: the gate keeps its memory over a hole.
HoleKeepsGate ==
  /\ g < N /\ track[g] = "hole"
  /\ LET r == Reset(tracker) IN tracker' = r.tracker /\ MarkRegion(r.event)
  /\ g' = g + 1
  /\ UNCHANGED <<track, gate, done>>

Hole ==
  /\ g < N /\ track[g] = "hole"
  /\ gate' = FALSE
  /\ LET r == Reset(tracker) IN tracker' = r.tracker /\ MarkRegion(r.event)
  /\ g' = g + 1
  /\ UNCHANGED <<track, done>>

Frame ==
  /\ g < N /\ track[g] # "hole"
  /\ gate' = GateUpdate(gate, track[g])
  /\ LET r == Advance(tracker, gate', g, MinOff, "trim") IN
       tracker' = r.tracker /\ MarkRegion(r.event)
  /\ g' = g + 1
  /\ UNCHANGED <<track, done>>

Finish ==
  /\ g = N /\ ~done /\ done' = TRUE
  /\ LET r == Flush(tracker, N, "trim") IN tracker' = r.tracker /\ MarkRegion(r.event)
  /\ UNCHANGED <<track, g, gate>>

Next == Hole \/ Frame \/ Finish

Spec == Init /\ [][Next]_vars

-----------------------------------------------------------------------------
TypeOK ==
  /\ track \in [0..(N - 1) -> Frames]
  /\ g \in 0..N /\ gate \in BOOLEAN /\ done \in BOOLEAN
  /\ ~done => TrackerAt(tracker, g, MinOff)
  /\ active \subseteq 0..(N - 1)

Holes == {i \in DOMAIN track : track[i] = "hole"}

\* A frame is on when an onset before it still holds: nothing between fell
\* below the offset, and every frame between is covered.
On == {i \in DOMAIN track : \E h \in 0..i :
         track[h] = "high" /\ \A k \in (h + 1)..i : track[k] \in {"mid", "high"}}

LongEnough(regions) == {r \in regions : r[2] - r[1] >= MinOn}

FramesOf(regions) == UNION {r[1]..(r[2] - 1) : r \in regions}

(* The frames binarize_frames marks are exactly those of the regions of the  *)
(* whole track: short gaps bridged first, short blips dropped after, nothing *)
(* bridged over a hole in the coverage and nothing remembered across one.    *)
ActiveIsTheKeptRegions ==
  done => active = FramesOf(LongEnough(Regions(On, Holes, N, MinOff, "trim")))

-----------------------------------------------------------------------------
(* The invariant of the loop.                                              *)
ActiveIsTheClosed ==
  active = FramesOf(LongEnough(Closed(tracker, On, Holes, N, MinOff, "trim", g)))

BinIInv ==
  /\ TypeOK /\ N \in 0..MaxFrames /\ (done => g = N)
  /\ gate <=> g - 1 \in On
  /\ ~done => Tracks(tracker, On, Holes, MinOff, g) /\ ActiveIsTheClosed
  /\ ActiveIsTheKeptRegions
=============================================================================
