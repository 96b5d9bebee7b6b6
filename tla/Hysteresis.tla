----------------------------- MODULE Hysteresis -----------------------------
(***************************************************************************)
(* The gate and the region tracker of src/vad/hysteresis.rs, as operators  *)
(* on their records, and the regions they are meant to find, defined on    *)
(* the whole track at once.                                                *)
(*                                                                         *)
(* The machine and the gate are used by voice activity detection, with the *)
(* tail "keep", and by the binarization of segmentation posteriors, with   *)
(* the tail "trim".                                                        *)
(***************************************************************************)
EXTENDS Integers, FiniteSetsExt

-----------------------------------------------------------------------------
(* HysteresisGate.  A probability is "low" (below offset), "mid" (between   *)
(* offset and onset), "high" (onset or more) or "nan".                      *)

Probabilities == {"low", "mid", "high", "nan"}

GateUpdate(on, prob) == prob \in (IF on THEN {"mid", "high"} ELSE {"high"})

-----------------------------------------------------------------------------
(* RegionTracker.                                                           *)

NewTracker == [inRegion |-> FALSE, start |-> 0, lastActive |-> 0, off |-> 0]

Trackers(n) == [inRegion : BOOLEAN, start : 0..n, lastActive : 0..n, off : 0..n]

NoEvent == [kind |-> "none"]
StartOf(s) == [kind |-> "start", start |-> s]
EndOf(s, e) == [kind |-> "end", start |-> s, end |-> e]

\* What a call returns, and the tracker it leaves.
Result(tr, event) == [tracker |-> tr, event |-> event]

\* Mutant: the region is reported but stays open.
CloseStaysOpen(tr, e) == Result([tr EXCEPT !.off = 0], EndOf(tr.start, e))

Close(tr, e) ==
  Result([tr EXCEPT !.inRegion = FALSE, !.off = 0], EndOf(tr.start, e))

\* Mutant: speech does not start the count of silent frames again.
AdvanceKeepsOff(tr, active, frame, minOff, tail) ==
  CASE tr.inRegion /\ active -> Result([tr EXCEPT !.lastActive = frame], NoEvent)
    [] tr.inRegion /\ ~active /\ tr.off + 1 < minOff ->
         Result([tr EXCEPT !.off = @ + 1], NoEvent)
    [] tr.inRegion /\ ~active /\ tr.off + 1 >= minOff ->
         Close(tr, IF tail = "keep" THEN frame + 1 ELSE tr.lastActive + 1)
    [] ~tr.inRegion /\ active ->
         Result([inRegion |-> TRUE, start |-> frame,
                 lastActive |-> frame, off |-> 0], StartOf(frame))
    [] OTHER -> Result(tr, NoEvent)

Advance(tr, active, frame, minOff, tail) ==
  CASE tr.inRegion /\ active ->
         Result([tr EXCEPT !.lastActive = frame, !.off = 0], NoEvent)
    [] tr.inRegion /\ ~active /\ tr.off + 1 < minOff ->
         Result([tr EXCEPT !.off = @ + 1], NoEvent)
    [] tr.inRegion /\ ~active /\ tr.off + 1 >= minOff ->
         Close(tr, IF tail = "keep" THEN frame + 1 ELSE tr.lastActive + 1)
    [] ~tr.inRegion /\ active ->
         Result([inRegion |-> TRUE, start |-> frame,
                 lastActive |-> frame, off |-> 0], StartOf(frame))
    [] OTHER -> Result(tr, NoEvent)

Flush(tr, frame, tail) ==
  IF tr.inRegion
    THEN Close(tr, IF tail = "keep" THEN frame ELSE tr.lastActive + 1)
    ELSE Result(tr, NoEvent)

Reset(tr) ==
  IF tr.inRegion THEN Close(tr, tr.lastActive + 1) ELSE Result(tr, NoEvent)

\* usize arithmetic: an end before its start wraps in a release build.
Keeps(s, e, minOn, usize) == (e - s) % usize >= minOn

\* A region closes at its first silent frame even if min_off is zero.
Gap(minOff) == Max({minOff, 1})

\* The tracker of a loop that is at frame: an open region counts the silent
\* frames since its last active one, and is open because they are too few.
TrackerAt(tr, frame, minOff) ==
  /\ tr \in Trackers(frame)
  /\ tr.inRegion =>
       /\ tr.start <= tr.lastActive /\ tr.lastActive + tr.off = frame - 1
       /\ tr.off < Gap(minOff)

-----------------------------------------------------------------------------
(* The regions of a track, without a machine: active is the set of active  *)
(* frames, cuts the points no region reaches over, n the end of the track. *)

\* Frames i <= j are in one region: no cut and no long enough pause between.
Together(i, j, active, cuts, minOff) ==
  /\ ~ \E c \in cuts : i < c /\ c <= j
  /\ ~ \E k \in i..(j - Gap(minOff)) : k..(k + Gap(minOff) - 1) \cap active = {}

\* A region opens at each active frame with no active frame before it in reach.
RegionStarts(active, cuts, minOff) ==
  {s \in active : \A i \in active : i < s => ~Together(i, s, active, cuts, minOff)}

LastFrame(s, active, cuts, minOff) ==
  Max({j \in active : j >= s /\ Together(s, j, active, cuts, minOff)})

\* Where the region of s ends: after the pause that closes it or at the next
\* cut if the tail is kept, and after its last active frame if it is trimmed.
RegionEnd(s, active, cuts, n, minOff, tail) ==
  LET last == LastFrame(s, active, cuts, minOff) IN
    IF tail = "trim" THEN last + 1
    ELSE Min({last + 1 + Gap(minOff), n} \cup {c \in cuts : c > last})

Regions(active, cuts, n, minOff, tail) ==
  {<<s, RegionEnd(s, active, cuts, n, minOff, tail)>> :
     s \in RegionStarts(active, cuts, minOff)}
-----------------------------------------------------------------------------
(* What the machine has found when it is at frame f.                       *)

\* No frame of sources before frame f is in one region with it.
NoReach(sources, active, cuts, minOff, f) ==
  \A i \in sources : i < f => ~Together(i, f, active, cuts, minOff)

\* The region that started at s is open at frame f, its last active frame l.
OpenAt(s, l, active, cuts, minOff, f) ==
  /\ s \in RegionStarts(active, cuts, minOff) /\ l \in active /\ s <= l /\ l < f
  /\ Together(s, l, active, cuts, minOff)
  /\ \A k \in (l + 1)..(f - 1) : k \notin active /\ k \notin cuts
  /\ f - 1 - l < Gap(minOff)

\* The tracker is in the region that is open, and in none if none is.
Tracks(tr, active, cuts, minOff, f) ==
  /\ TrackerAt(tr, f, minOff)
  /\ IF tr.inRegion THEN OpenAt(tr.start, tr.lastActive, active, cuts, minOff, f)
     ELSE NoReach(active, active, cuts, minOff, f)

\* The regions it has closed: all that started before f but the open one.
Closed(tr, active, cuts, n, minOff, tail, f) ==
  {<<s, RegionEnd(s, active, cuts, n, minOff, tail)>> :
     s \in {s \in RegionStarts(active, cuts, minOff) : s < f /\ ~(tr.inRegion /\ s = tr.start)}}
=============================================================================
