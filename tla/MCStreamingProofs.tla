------------------------- MODULE MCStreamingProofs -------------------------
(***************************************************************************)
(* Proofs about Streaming, the cache and the two batch users of the        *)
(* tracker in MCStreaming, for every frame, window and hop, chunk sizes,   *)
(* cap and margin: turns come in order and never mix regions, they are the *)
(* windows of the regions of the whole track, less than a window waits,    *)
(* labels settle, the speakers follow the hysteresis, and segment_speech   *)
(* and binarize_frames keep the same regions.                              *)
(***************************************************************************)
EXTENDS MCStreaming, SpeakerCacheProofs, FiniteSetTheorems

-----------------------------------------------------------------------------
(* The regions of a track, and the tracker that finds them.                *)

LEMMA GapIs == ASSUME NEW m \in Nat PROVE Gap(m) \in Nat /\ Gap(m) >= 1 /\ Gap(m) >= m /\ Gap(m) = IF m >= 1 THEN m ELSE 1
<1>1. \E x \in {m, 1} : \A y \in {m, 1} : x >= y
  OBVIOUS
<1>2. Max({m, 1}) \in {m, 1} /\ \A y \in {m, 1} : Max({m, 1}) >= y
  BY <1>1 DEF Max
<1> QED
  BY <1>2 DEF Gap

LEMMA MaxIs ==
  ASSUME NEW S, S \subseteq Int, NEW l \in S, \A j \in S : j <= l
  PROVE  Max(S) = l
<1>1. Max(S) \in S /\ \A y \in S : Max(S) >= y
  BY Zenon DEF Max
<1>2. Max(S) \in Int /\ l \in Int /\ Max(S) <= l /\ Max(S) >= l
  BY <1>1, Zenon
<1> QED
  BY <1>2

LEMMA MinIs ==
  ASSUME NEW S, S \subseteq Int, NEW l \in S, \A j \in S : l <= j
  PROVE  Min(S) = l
<1>1. Min(S) \in S /\ \A y \in S : Min(S) <= y
  BY Zenon DEF Min
<1>2. Min(S) \in Int /\ l \in Int /\ Min(S) <= l /\ Min(S) >= l
  BY <1>1, Zenon
<1> QED
  BY <1>2

(* What is together stays together up to an earlier frame.                 *)
LEMMA TogetherBefore ==
  ASSUME NEW A, NEW C \in SUBSET Nat, NEW m \in Nat, NEW i \in Nat, NEW f \in Nat, NEW j \in Nat, f <= j,
         Together(i, j, A, C, m)
  PROVE  Together(i, f, A, C, m)
<1>1. Gap(m) \in Nat
  BY GapIs
<1>2. ~ \E c \in C : i < c /\ c <= j
  BY DEF Together
<1>3. ~ \E k \in i .. (j - Gap(m)) : k .. (k + Gap(m) - 1) \cap A = {}
  BY DEF Together
<1>4. ASSUME NEW c \in C, i < c, c <= f PROVE FALSE
  BY <1>2, <1>4
<1>5. ASSUME NEW k \in i .. (f - Gap(m)), k .. (k + Gap(m) - 1) \cap A = {} PROVE FALSE
  <2>1. k \in i .. (j - Gap(m))
    BY <1>1
  <2> QED
    BY <2>1, <1>3, <1>5
<1> QED
  BY <1>4, <1>5 DEF Together

LEMMA TogetherInMore ==
  ASSUME NEW A, NEW B, A \subseteq B, NEW C, NEW m, NEW i, NEW j, Together(i, j, A, C, m)
  PROVE  Together(i, j, B, C, m)
BY DEF Together

(* The frame an open region is at is in reach of its start.                *)
LEMMA OpenReaches ==
  ASSUME NEW A \in SUBSET Nat, NEW C \in SUBSET Nat, NEW m \in Nat, NEW s, NEW l, NEW f \in Nat,
         OpenAt(s, l, A, C, m, f), f \notin C
  PROVE  Together(s, f, A, C, m)
<1> DEFINE G == Gap(m)
<1>1. G \in Nat /\ G >= 1
  BY GapIs
<1>2. s \in A /\ l \in A /\ s \in Nat /\ l \in Nat /\ s <= l /\ l < f /\ f - 1 - l < G
  BY DEF OpenAt, RegionStarts
<1>3. /\ ~ \E c \in C : s < c /\ c <= l
      /\ ~ \E k \in s .. (l - G) : k .. (k + G - 1) \cap A = {}
  BY DEF OpenAt, Together
<1>4. \A k \in l + 1 .. f - 1 : k \notin A /\ k \notin C
  BY DEF OpenAt
<1>5. ~ \E c \in C : s < c /\ c <= f
  BY <1>2, <1>3, <1>4
<1>6. ASSUME NEW k \in s .. (f - G), k .. (k + G - 1) \cap A = {} PROVE FALSE
  <2>1. k \in Int /\ s <= k /\ k <= f - G
    BY <1>1, <1>2
  <2>2. ~(k <= l - G)
    BY <2>1, <1>6, <1>1, <1>2, <1>3
  <2>3. ~(k <= l)
    <3> SUFFICES ASSUME k <= l PROVE FALSE
      OBVIOUS
    <3>1. l \in k .. (k + G - 1)
      BY <2>1, <2>2, <1>1, <1>2
    <3> QED
      BY <3>1, <1>6, <1>2
  <2> QED
    BY <2>1, <2>3, <1>1, <1>2
<1> QED
  BY <1>5, <1>6 DEF Together

LEMMA RegionGrows ==
  ASSUME NEW A \in SUBSET Nat, NEW C \in SUBSET Nat, NEW m \in Nat, NEW s, NEW l, NEW f \in Nat,
         OpenAt(s, l, A, C, m, f), f \in A, f \notin C
  PROVE  OpenAt(s, f, A, C, m, f + 1) /\ f \notin RegionStarts(A, C, m)
<1>1. Gap(m) \in Nat /\ Gap(m) >= 1
  BY GapIs
<1>2. s \in A /\ l \in A /\ s \in Nat /\ l \in Nat /\ s <= l /\ l < f
  BY DEF OpenAt, RegionStarts
<1>3. Together(s, f, A, C, m)
  BY OpenReaches
<1>4. \A k \in f + 1 .. f + 1 - 1 : FALSE
  OBVIOUS
<1>5. f + 1 - 1 - f < Gap(m) /\ f < f + 1 /\ s <= f
  BY <1>1, <1>2
<1>6. s \in RegionStarts(A, C, m)
  BY DEF OpenAt
<1>7. OpenAt(s, f, A, C, m, f + 1)
  BY <1>3, <1>4, <1>5, <1>6 DEF OpenAt
<1>8. f \notin RegionStarts(A, C, m)
  BY <1>2, <1>3 DEF RegionStarts
<1> QED
  BY <1>7, <1>8

LEMMA RegionWaits ==
  ASSUME NEW A \in SUBSET Nat, NEW C \in SUBSET Nat, NEW m \in Nat, NEW s, NEW l, NEW f \in Nat,
         OpenAt(s, l, A, C, m, f), f \notin A, f \notin C, f - l < Gap(m)
  PROVE  OpenAt(s, l, A, C, m, f + 1)
<1>1. l \in Nat /\ l < f
  BY DEF OpenAt
<1>2. \A k \in l + 1 .. f + 1 - 1 : k \in l + 1 .. f - 1 \/ k = f
  BY <1>1
<1>3. f + 1 - 1 - l = f - l /\ l < f + 1
  BY <1>1
<1> QED
  BY <1>2, <1>3 DEF OpenAt

(* A pause of Gap frames of silence ends every region.                     *)
LEMMA PauseCuts ==
  ASSUME NEW A \in SUBSET Nat, NEW B \in SUBSET Nat, NEW C, NEW m \in Nat, NEW l \in Nat, NEW f \in Nat,
         f - l = Gap(m), \A k \in l + 1 .. f : k \notin A /\ k \notin B
  PROVE  NoReach(A, B, C, m, f + 1)
<1> DEFINE G == Gap(m)
<1> SUFFICES ASSUME NEW i \in A, i < f + 1, Together(i, f + 1, B, C, m) PROVE FALSE
  BY DEF NoReach
<1>1. G \in Nat /\ G >= 1 /\ f - l = G
  BY GapIs
<1>2. ~ \E k \in i .. (f + 1 - G) : k .. (k + G - 1) \cap B = {}
  BY DEF Together
<1>3. i \in Nat /\ i <= l
  <2>1. i \in l + 1 .. f => FALSE
    OBVIOUS
  <2> QED
    BY <2>1
<1>4. l + 1 \in i .. (f + 1 - G) /\ (l + 1) + G - 1 = f
  BY <1>1, <1>3
<1>5. (l + 1) .. ((l + 1) + G - 1) \cap B = {}
  BY <1>4
<1> QED
  BY <1>2, <1>4, <1>5

(* A cut ends every region before it.                                      *)
LEMMA CutCuts ==
  ASSUME NEW A \in SUBSET Nat, NEW B, NEW C \in SUBSET Nat, NEW m \in Nat, NEW f \in C, f \notin A
  PROVE  NoReach(A, B, C, m, f + 1)
<1> SUFFICES ASSUME NEW i \in A, i < f + 1, Together(i, f + 1, B, C, m) PROVE FALSE
  BY DEF NoReach
<1>1. i < f /\ f <= f + 1
  OBVIOUS
<1> QED
  BY <1>1 DEF Together

LEMMA RegionOpens ==
  ASSUME NEW A \in SUBSET Nat, NEW C \in SUBSET Nat, NEW m \in Nat, NEW f \in A, NoReach(A, A, C, m, f)
  PROVE  f \in RegionStarts(A, C, m) /\ OpenAt(f, f, A, C, m, f + 1)
<1>1. Gap(m) \in Nat /\ Gap(m) >= 1
  BY GapIs
<1>2. f \in Nat /\ f >= f
  OBVIOUS
<1>3. f \in RegionStarts(A, C, m)
  BY <1>2 DEF RegionStarts, NoReach
<1>4. ~ \E c \in C : f < c /\ c <= f
  BY <1>2
<1>5. f .. (f - Gap(m)) = {}
  BY <1>1, <1>2
<1>6. Together(f, f, A, C, m)
  BY <1>4, <1>5 DEF Together
<1>7. f + 1 .. f + 1 - 1 = {} /\ f + 1 - 1 - f = 0 /\ f < f + 1
  BY <1>2
<1>8. f + 1 - 1 - f < Gap(m)
  BY <1>1, <1>7
<1> QED
  BY <1>2, <1>3, <1>6, <1>7, <1>8 DEF OpenAt

LEMMA SilenceStays ==
  ASSUME NEW A \in SUBSET Nat, NEW B, NEW C \in SUBSET Nat, NEW m \in Nat, NEW f \in Nat, f \notin A, NoReach(A, B, C, m, f)
  PROVE  NoReach(A, B, C, m, f + 1)
<1> SUFFICES ASSUME NEW i \in A, i < f + 1, Together(i, f + 1, B, C, m) PROVE FALSE
  BY DEF NoReach
<1>1. i < f /\ i \in Nat /\ f + 1 \in Nat /\ f <= f + 1
  OBVIOUS
<1>2. Together(i, f, B, C, m)
  BY <1>1, TogetherBefore
<1> QED
  BY <1>1, <1>2 DEF NoReach

LEMMA LastFrameIs ==
  ASSUME NEW A \in SUBSET Nat, NEW C \in SUBSET Nat, NEW m \in Nat, NEW s, NEW l, NEW f \in Nat,
         OpenAt(s, l, A, C, m, f),
         \A j \in A : j >= f => ~Together(s, j, A, C, m)
  PROVE  LastFrame(s, A, C, m) = l
<1> DEFINE S == {j \in A : j >= s /\ Together(s, j, A, C, m)}
<1>1. l \in A /\ s <= l /\ Together(s, l, A, C, m) /\ s \in A
  BY DEF OpenAt, RegionStarts
<1>2. l \in Nat /\ s \in Nat /\ l \in S
  BY <1>1
<1>3. S \subseteq Int
  <2>1. A \subseteq Nat /\ S \subseteq A
    OBVIOUS
  <2> HIDE DEF S
  <2> QED
    BY <2>1
<1>4. \A j \in S : j <= l
  <2> TAKE j \in S
  <2>1. j \in Nat /\ j \in A /\ j < f
    OBVIOUS
  <2>2. j \notin l + 1 .. f - 1
    BY <2>1 DEF OpenAt
  <2> QED
    BY <2>1, <2>2, <1>2
<1> HIDE DEF S
<1>5. Max(S) = l
  BY <1>2, <1>3, <1>4, MaxIs, Zenon
<1> QED
  BY <1>5 DEF LastFrame, S

(* Where the region ends, by its upto frame.                               *)
LEMMA TrimmedEndIs ==
  ASSUME NEW s, NEW A, NEW C, NEW n, NEW m
  PROVE  RegionEnd(s, A, C, n, m, "trim") = LastFrame(s, A, C, m) + 1
BY DEF RegionEnd

LEMMA KeptEndIs ==
  ASSUME NEW s, NEW A, NEW n \in Nat, NEW m \in Nat, NEW l \in Nat, LastFrame(s, A, {}, m) = l
  PROVE  RegionEnd(s, A, {}, n, m, "keep") = IF l + 1 + Gap(m) <= n THEN l + 1 + Gap(m) ELSE n
<1> DEFINE e == l + 1 + Gap(m)
           S == {e, n} \cup {c \in {} : c > l}
<1>1. e \in Nat
  BY GapIs
<1>2. S = {e, n}
  OBVIOUS
<1>3. RegionEnd(s, A, {}, n, m, "keep") = Min(S)
  BY DEF RegionEnd
<1> HIDE DEF e, S
<1>4. CASE e <= n
  <2>1. Min(S) = e
    BY <1>1, <1>2, <1>4, MinIs
  <2> QED
    BY <1>3, <1>4, <2>1 DEF e
<1>5. CASE ~(e <= n)
  <2>1. Min(S) = n
    BY <1>1, <1>2, <1>5, MinIs
  <2> QED
    BY <1>3, <1>5, <2>1 DEF e
<1> QED
  BY <1>4, <1>5

(* A frame keeps a region open, closes it, opens one, or is silence.       *)
LEMMA TrackerMoves ==
  ASSUME NEW m \in Nat, NEW tail, NEW tr, NEW frame \in Nat, TrackerAt(tr, frame, m), NEW active \in BOOLEAN,
         NEW r, r = Advance(tr, active, frame, m, tail)
  PROVE  /\ TrackerAt(r.tracker, frame + 1, m)
         /\ \/ /\ tr.inRegion /\ active /\ r.tracker.inRegion /\ r.event = NoEvent
               /\ r.tracker.start = tr.start /\ r.tracker.lastActive = frame
            \/ /\ tr.inRegion /\ ~active /\ r.tracker.inRegion /\ r.event = NoEvent
               /\ r.tracker.start = tr.start /\ r.tracker.lastActive = tr.lastActive
               /\ frame - tr.lastActive < Gap(m)
            \/ /\ tr.inRegion /\ ~active /\ ~r.tracker.inRegion /\ frame - tr.lastActive = Gap(m)
               /\ r.event = EndOf(tr.start, IF tail = "keep" THEN frame + 1 ELSE tr.lastActive + 1)
            \/ /\ ~tr.inRegion /\ active /\ r.tracker.inRegion /\ r.event = StartOf(frame)
               /\ r.tracker.start = frame /\ r.tracker.lastActive = frame
            \/ ~tr.inRegion /\ ~active /\ r.tracker = tr /\ r.event = NoEvent
<1> DEFINE gap == Gap(m)
<1>1. gap \in Nat /\ gap >= 1 /\ gap >= m /\ gap = IF m >= 1 THEN m ELSE 1
  BY GapIs
<1>2. /\ tr \in [inRegion : BOOLEAN, start : 0 .. frame, lastActive : 0 .. frame, off : 0 .. frame]
      /\ tr.inRegion => /\ tr.start <= tr.lastActive /\ tr.lastActive + tr.off = frame - 1
                        /\ tr.off < gap
  BY DEF TrackerAt, Trackers
<1> HIDE DEF gap
<1>wide. tr \in [inRegion : BOOLEAN, start : 0 .. frame + 1, lastActive : 0 .. frame + 1, off : 0 .. frame + 1]
  BY <1>2
<1>ends. frame \in 0 .. frame + 1 /\ 0 \in 0 .. frame + 1
  OBVIOUS
<1>3. ASSUME NEW u, u \in [inRegion : BOOLEAN, start : 0 .. frame + 1, lastActive : 0 .. frame + 1, off : 0 .. frame + 1],
             u.inRegion => /\ u.start <= u.lastActive /\ u.lastActive + u.off = frame + 1 - 1
                           /\ u.off < gap
      PROVE  TrackerAt(u, frame + 1, m)
  BY <1>3 DEF TrackerAt, Trackers, gap
<1>4. CASE tr.inRegion /\ active
  <2> DEFINE u == [tr EXCEPT !.lastActive = frame, !.off = 0]
  <2>1. r.tracker = u /\ r.event = NoEvent
    <3>1. Advance(tr, active, frame, m, tail) = Result(u, NoEvent)
      BY <1>4 DEF Advance
    <3> HIDE DEF u
    <3> QED
      BY <3>1 DEF Result
  <2>2. TrackerAt(u, frame + 1, m)
    <3> DEFINE v == [tr EXCEPT !.lastActive = frame]
    <3>a. v \in [inRegion : BOOLEAN, start : 0 .. frame + 1, lastActive : 0 .. frame + 1, off : 0 .. frame + 1]
          /\ v.inRegion = tr.inRegion /\ v.start = tr.start /\ v.lastActive = frame
      BY <1>wide, <1>ends
    <3>b. u = [v EXCEPT !.off = 0]
      BY <1>1, <1>2, <1>4
    <3> HIDE DEF v, u
    <3>1. /\ u \in [inRegion : BOOLEAN, start : 0 .. frame + 1, lastActive : 0 .. frame + 1, off : 0 .. frame + 1]
          /\ u.start <= u.lastActive /\ u.lastActive + u.off = frame + 1 - 1 /\ u.off < gap
      BY <3>a, <3>b, <1>1, <1>2, <1>4
    <3> HIDE DEF u
    <3> QED
      BY <1>3, <3>1
  <2> QED
    BY <1>2, <1>4, <2>1, <2>2, Zenon
<1>5. CASE tr.inRegion /\ ~active /\ tr.off + 1 < m
  <2> DEFINE u == [tr EXCEPT !.off = tr.off + 1]
  <2>1. r.tracker = u /\ r.event = NoEvent
    <3>1. Advance(tr, active, frame, m, tail) = Result(u, NoEvent)
      BY <1>1, <1>2, <1>5 DEF Advance
    <3> HIDE DEF u
    <3> QED
      BY <3>1 DEF Result
  <2>2. TrackerAt(u, frame + 1, m)
    BY <1>1, <1>2, <1>3, <1>5
  <2>3. u.inRegion = tr.inRegion /\ u.start = tr.start /\ u.lastActive = tr.lastActive
    BY <1>2
  <2>4. frame - tr.lastActive < gap
    BY <1>1, <1>2, <1>5
  <2> HIDE DEF u
  <2> QED
    BY <1>5, <2>1, <2>2, <2>3, <2>4 DEF gap
<1>6. CASE tr.inRegion /\ ~active /\ tr.off + 1 >= m
  <2> DEFINE e == IF tail = "keep" THEN frame + 1 ELSE tr.lastActive + 1
             u == [tr EXCEPT !.inRegion = FALSE, !.off = 0]
  <2>1. r.tracker = u /\ r.event = EndOf(tr.start, e)
    <3>1. ~(tr.off + 1 < m)
      BY <1>1, <1>2, <1>6
    <3>2. Advance(tr, active, frame, m, tail) = Close(tr, e)
      BY <1>6, <3>1 DEF Advance
    <3>3. Close(tr, e) = Result(u, EndOf(tr.start, e))
      BY DEF Close
    <3> HIDE DEF u
    <3> QED
      BY <3>2, <3>3 DEF Result
  <2>2. TrackerAt(u, frame + 1, m)
    <3> DEFINE v == [tr EXCEPT !.inRegion = FALSE]
    <3>a. v \in [inRegion : BOOLEAN, start : 0 .. frame + 1, lastActive : 0 .. frame + 1, off : 0 .. frame + 1]
          /\ v.inRegion = FALSE /\ v.start = tr.start /\ v.lastActive = tr.lastActive
      BY <1>wide, Zenon
    <3>b. u = [v EXCEPT !.off = 0]
      BY <1>1, <1>2, <1>6
    <3> HIDE DEF v, u
    <3>1. /\ u \in [inRegion : BOOLEAN, start : 0 .. frame + 1, lastActive : 0 .. frame + 1, off : 0 .. frame + 1]
          /\ ~u.inRegion
      BY <3>a, <3>b, <1>1, <1>2, <1>6
    <3> HIDE DEF u
    <3> QED
      BY <1>3, <3>1
  <2>3. ~u.inRegion
    BY <1>2
  <2>4. frame - tr.lastActive = gap
    BY <1>1, <1>2, <1>6
  <2> HIDE DEF u
  <2> QED
    BY <1>6, <2>1, <2>2, <2>3, <2>4 DEF gap
<1>7. CASE ~tr.inRegion /\ active
  <2> DEFINE u == [inRegion |-> TRUE, start |-> frame, lastActive |-> frame, off |-> 0]
  <2>1. r.tracker = u /\ r.event = StartOf(frame)
    <3>1. Advance(tr, active, frame, m, tail) = Result(u, StartOf(frame))
      BY <1>7 DEF Advance
    <3> HIDE DEF u
    <3> QED
      BY <3>1 DEF Result
  <2>2. TrackerAt(u, frame + 1, m)
    <3>1. /\ u \in [inRegion : BOOLEAN, start : 0 .. frame + 1, lastActive : 0 .. frame + 1, off : 0 .. frame + 1]
          /\ u.start <= u.lastActive /\ u.lastActive + u.off = frame + 1 - 1 /\ u.off < gap
      BY <1>1
    <3> HIDE DEF u
    <3> QED
      BY <1>3, <3>1
  <2>3. u.inRegion /\ u.start = frame /\ u.lastActive = frame
    OBVIOUS
  <2> HIDE DEF u
  <2> QED
    BY <1>7, <2>1, <2>2, <2>3, Zenon
<1>8. CASE ~tr.inRegion /\ ~active
  <2>1. r.tracker = tr /\ r.event = NoEvent
    BY <1>8 DEF Advance, Result
  <2>2. TrackerAt(tr, frame + 1, m)
    BY <1>1, <1>2, <1>3, <1>8
  <2> QED
    BY <1>2, <1>8, <2>1, <2>2
<1>9. tr.inRegion \in BOOLEAN /\ (tr.inRegion => tr.off + 1 < m \/ tr.off + 1 >= m)
  BY <1>1, <1>2
<1> QED
  BY <1>9, <1>4, <1>5, <1>6, <1>7, <1>8

(* A flush closes the open region, if there is one.                        *)
LEMMA FlushMoves ==
  ASSUME NEW m \in Nat, NEW tail, NEW tr, NEW frame \in Nat, TrackerAt(tr, frame, m),
         NEW r, r = Flush(tr, frame, tail)
  PROVE  /\ TrackerAt(r.tracker, frame, m) /\ ~r.tracker.inRegion
         /\ \/ tr.inRegion /\ r.event = EndOf(tr.start, IF tail = "keep" THEN frame ELSE tr.lastActive + 1)
            \/ ~tr.inRegion /\ r.event = NoEvent
<1>1. tr \in [inRegion : BOOLEAN, start : 0 .. frame, lastActive : 0 .. frame, off : 0 .. frame]
  BY DEF TrackerAt, Trackers
<1>2. CASE tr.inRegion
  <2> DEFINE e == IF tail = "keep" THEN frame ELSE tr.lastActive + 1
             u == [tr EXCEPT !.inRegion = FALSE, !.off = 0]
  <2>1. r.tracker = u /\ r.event = EndOf(tr.start, e)
    <3>1. Flush(tr, frame, tail) = Close(tr, e)
      BY <1>2 DEF Flush
    <3>2. Close(tr, e) = Result(u, EndOf(tr.start, e))
      BY DEF Close
    <3> HIDE DEF u
    <3> QED
      BY <3>1, <3>2 DEF Result
  <2>2. u \in Trackers(frame) /\ ~u.inRegion
    <3> DEFINE v == [tr EXCEPT !.inRegion = FALSE]
    <3>a. v \in [inRegion : BOOLEAN, start : 0 .. frame, lastActive : 0 .. frame, off : 0 .. frame]
          /\ v.inRegion = FALSE /\ v.start = tr.start /\ v.lastActive = tr.lastActive
      BY <1>1, Zenon
    <3>b. u = [v EXCEPT !.off = 0]
      BY <1>1
    <3> HIDE DEF v, u
    <3>1. /\ u \in [inRegion : BOOLEAN, start : 0 .. frame, lastActive : 0 .. frame, off : 0 .. frame]
          /\ ~u.inRegion
      BY <3>a, <3>b, <1>1
    <3> QED
      BY <3>1 DEF Trackers
  <2> QED
    BY <1>2, <2>1, <2>2 DEF TrackerAt
<1>3. CASE ~tr.inRegion
  BY <1>3 DEF Flush, Result
<1> QED
  BY <1>2, <1>3

(* So does a reset, after its upto active frame.                           *)
LEMMA ResetMoves ==
  ASSUME NEW m \in Nat, NEW tr, NEW frame \in Nat, TrackerAt(tr, frame, m),
         NEW r, r = Reset(tr)
  PROVE  /\ TrackerAt(r.tracker, frame, m) /\ ~r.tracker.inRegion
         /\ \/ tr.inRegion /\ r.event = EndOf(tr.start, tr.lastActive + 1)
            \/ ~tr.inRegion /\ r.event = NoEvent
<1>1. tr \in [inRegion : BOOLEAN, start : 0 .. frame, lastActive : 0 .. frame, off : 0 .. frame]
  BY DEF TrackerAt, Trackers
<1>2. CASE tr.inRegion
  <2> DEFINE e == tr.lastActive + 1
             u == [tr EXCEPT !.inRegion = FALSE, !.off = 0]
  <2>1. r.tracker = u /\ r.event = EndOf(tr.start, e)
    <3>1. Reset(tr) = Close(tr, e)
      BY <1>2 DEF Reset
    <3>2. Close(tr, e) = Result(u, EndOf(tr.start, e))
      BY DEF Close
    <3> HIDE DEF u
    <3> QED
      BY <3>1, <3>2 DEF Result
  <2>2. u \in Trackers(frame) /\ ~u.inRegion
    <3> DEFINE v == [tr EXCEPT !.inRegion = FALSE]
    <3>a. v \in [inRegion : BOOLEAN, start : 0 .. frame, lastActive : 0 .. frame, off : 0 .. frame]
          /\ v.inRegion = FALSE /\ v.start = tr.start /\ v.lastActive = tr.lastActive
      BY <1>1, Zenon
    <3>b. u = [v EXCEPT !.off = 0]
      BY <1>1
    <3> HIDE DEF v, u
    <3>1. /\ u \in [inRegion : BOOLEAN, start : 0 .. frame, lastActive : 0 .. frame, off : 0 .. frame]
          /\ ~u.inRegion
      BY <3>a, <3>b, <1>1
    <3> QED
      BY <3>1 DEF Trackers
  <2> QED
    BY <1>2, <2>1, <2>2 DEF TrackerAt
<1>3. CASE ~tr.inRegion
  BY <1>3 DEF Reset, Result
<1> QED
  BY <1>2, <1>3

(* What is closed when the machine moves on: nothing, or the open region.  *)
Closes(event, tr, closed, after, upto) ==
  \/ event.kind # "end" /\ after = closed
  \/ \E e \in Nat :
       /\ event = EndOf(tr.start, e) /\ tr.inRegion /\ tr.start \in Nat /\ tr.start < e /\ e <= upto
       /\ after = closed \cup {<<tr.start, e>>}

(* Which of a track's regions are closed when the machine has moved on.    *)
LEMMA ClosedStays ==
  ASSUME NEW A \in SUBSET Nat, NEW C, NEW n, NEW m, NEW tail, NEW f \in Nat, NEW tr, NEW u,
         \/ tr.inRegion /\ u.inRegion /\ u.start = tr.start /\ f \notin RegionStarts(A, C, m)
         \/ ~tr.inRegion /\ ~u.inRegion /\ f \notin RegionStarts(A, C, m)
         \/ ~tr.inRegion /\ u.inRegion /\ u.start = f
  PROVE  Closed(u, A, C, n, m, tail, f + 1) = Closed(tr, A, C, n, m, tail, f)
<1> DEFINE S == {s \in RegionStarts(A, C, m) : s < f /\ ~(tr.inRegion /\ s = tr.start)}
           T == {s \in RegionStarts(A, C, m) : s < f + 1 /\ ~(u.inRegion /\ s = u.start)}
<1>1. \A s \in RegionStarts(A, C, m) : s \in Nat
  BY DEF RegionStarts
<1>2. \A s \in Nat : s < f + 1 <=> s < f \/ s = f
  OBVIOUS
<1>3. S = T
  BY <1>1, <1>2
<1> HIDE DEF S, T
<1>4. {<<s, RegionEnd(s, A, C, n, m, tail)>> : s \in S} = {<<s, RegionEnd(s, A, C, n, m, tail)>> : s \in T}
  BY <1>3
<1> QED
  BY <1>4 DEF Closed, S, T

LEMMA ClosedGrows ==
  ASSUME NEW A \in SUBSET Nat, NEW C, NEW n, NEW m, NEW tail, NEW f \in Nat, NEW g \in Nat, NEW tr, NEW u,
         tr.inRegion, ~u.inRegion, tr.start \in RegionStarts(A, C, m), tr.start < f,
         g = f \/ (g = f + 1 /\ f \notin A)
  PROVE  Closed(u, A, C, n, m, tail, g) =
           Closed(tr, A, C, n, m, tail, f) \cup {<<tr.start, RegionEnd(tr.start, A, C, n, m, tail)>>}
<1> DEFINE S == {s \in RegionStarts(A, C, m) : s < f /\ ~(tr.inRegion /\ s = tr.start)}
           T == {s \in RegionStarts(A, C, m) : s < g /\ ~(u.inRegion /\ s = u.start)}
           R(s) == <<s, RegionEnd(s, A, C, n, m, tail)>>
<1>1. \A s \in RegionStarts(A, C, m) : s \in Nat /\ s \in A
  BY DEF RegionStarts
<1>2. \A s \in Nat : s \in A => (s < g <=> s < f)
  OBVIOUS
<1>3. T = S \cup {tr.start}
  BY <1>1, <1>2
<1> HIDE DEF S, T, R
<1>4. {R(s) : s \in T} = {R(s) : s \in S} \cup {R(tr.start)}
  BY <1>3
<1> QED
  BY <1>4 DEF Closed, S, T, R

(* The region that is open is the track's, and ends where it is closed.    *)
LEMMA OpenEnds ==
  ASSUME NEW A \in SUBSET Nat, NEW C \in SUBSET Nat, NEW m \in Nat, NEW s, NEW l, NEW f \in Nat, NEW g \in Nat,
         OpenAt(s, l, A, C, m, f), g = f \/ (g = f + 1 /\ f \notin A), NoReach(A, A, C, m, g)
  PROVE  LastFrame(s, A, C, m) = l
<1>1. s \in A /\ s \in Nat /\ s < g
  BY DEF OpenAt, RegionStarts
<1>2. ASSUME NEW j \in A, j >= f, Together(s, j, A, C, m) PROVE FALSE
  <2>1. j \in Nat /\ g <= j
    BY <1>2
  <2>2. Together(s, g, A, C, m)
    BY <1>1, <1>2, <2>1, TogetherBefore
  <2> QED
    BY <1>1, <2>2 DEF NoReach
<1> QED
  BY <1>2, LastFrameIs

(* One frame: the machine stays on the track, and reports what it closes.  *)
LEMMA AdvanceTracks ==
  ASSUME NEW A \in SUBSET Nat, NEW C \in SUBSET Nat, NEW n \in Nat, NEW m \in Nat,
         NEW tail \in {"keep", "trim"}, tail = "keep" => C = {},
         NEW tr, NEW f \in Nat, f < n, f \notin C, Tracks(tr, A, C, m, f),
         NEW act \in BOOLEAN, act <=> f \in A, NEW r, r = Advance(tr, act, f, m, tail)
  PROVE  /\ Tracks(r.tracker, A, C, m, f + 1)
         /\ Closes(r.event, tr, Closed(tr, A, C, n, m, tail, f), Closed(r.tracker, A, C, n, m, tail, f + 1), f + 1)
<1> DEFINE G == Gap(m)
           u == r.tracker
<1>g. G \in Nat /\ G >= 1
  BY GapIs
<1>1. TrackerAt(tr, f, m) /\ TrackerAt(u, f + 1, m)
  BY TrackerMoves DEF Tracks
<1>2. /\ tr.inRegion => OpenAt(tr.start, tr.lastActive, A, C, m, f)
      /\ ~tr.inRegion => NoReach(A, A, C, m, f)
  BY DEF Tracks
<1> HIDE DEF u
<1>kinds. NoEvent.kind # "end" /\ \A s : StartOf(s).kind # "end"
  BY DEF NoEvent, StartOf
<1>3. CASE tr.inRegion /\ act /\ u.inRegion /\ r.event = NoEvent /\ u.start = tr.start /\ u.lastActive = f
  <2>1. OpenAt(u.start, u.lastActive, A, C, m, f + 1) /\ f \notin RegionStarts(A, C, m)
    BY <1>2, <1>3, RegionGrows
  <2>2. Closed(u, A, C, n, m, tail, f + 1) = Closed(tr, A, C, n, m, tail, f)
    BY <1>3, <2>1, ClosedStays
  <2> QED
    BY <1>1, <1>3, <1>kinds, <2>1, <2>2, Zenon DEF Tracks, Closes, u
<1>4. CASE /\ tr.inRegion /\ ~act /\ u.inRegion /\ r.event = NoEvent
           /\ u.start = tr.start /\ u.lastActive = tr.lastActive /\ f - tr.lastActive < G
  <2>1. OpenAt(u.start, u.lastActive, A, C, m, f + 1)
    BY <1>2, <1>4, RegionWaits
  <2>2. f \notin RegionStarts(A, C, m)
    BY <1>4 DEF RegionStarts
  <2>3. Closed(u, A, C, n, m, tail, f + 1) = Closed(tr, A, C, n, m, tail, f)
    BY <1>4, <2>2, ClosedStays
  <2> QED
    BY <1>1, <1>4, <1>kinds, <2>1, <2>3 DEF Tracks, Closes, u
<1>5. CASE /\ tr.inRegion /\ ~act /\ ~u.inRegion /\ f - tr.lastActive = G
           /\ r.event = EndOf(tr.start, IF tail = "keep" THEN f + 1 ELSE tr.lastActive + 1)
  <2> DEFINE e == IF tail = "keep" THEN f + 1 ELSE tr.lastActive + 1
             l == tr.lastActive
             s == tr.start
  <2>1. OpenAt(s, l, A, C, m, f)
    BY <1>2, <1>5
  <2>2. s \in RegionStarts(A, C, m) /\ s \in Nat /\ l \in Nat /\ s <= l /\ l < f
    BY <2>1, Zenon DEF OpenAt, RegionStarts
  <2>3. \A k \in l + 1 .. f : k \notin A
    <3> TAKE k \in l + 1 .. f
    <3>1. k = f \/ k \in l + 1 .. f - 1
      BY <2>2
    <3> QED
      BY <3>1, <2>1, <1>5 DEF OpenAt
  <2> HIDE DEF l, s
  <2>4. NoReach(A, A, C, m, f + 1)
    BY <2>2, <2>3, <1>5, PauseCuts DEF l
  <2>5. LastFrame(s, A, C, m) = l
    BY <2>1, <2>4, <1>5, OpenEnds
  <2>6. RegionEnd(s, A, C, n, m, tail) = e
    <3>1. CASE tail = "trim"
      BY <2>5, <3>1, TrimmedEndIs DEF l
    <3>2. CASE tail = "keep"
      <4>1. C = {} /\ l + 1 + G = f + 1 /\ f + 1 <= n
        BY <3>2, <1>5, <1>g, <2>2 DEF l
      <4>2. RegionEnd(s, A, {}, n, m, "keep") = IF l + 1 + G <= n THEN l + 1 + G ELSE n
        BY <4>1, <2>2, <2>5, KeptEndIs
      <4> QED
        BY <3>2, <4>1, <4>2
    <3> QED
      BY <3>1, <3>2
  <2>7. e \in Nat /\ s < e /\ e <= f + 1
    BY <2>2 DEF l
  <2> HIDE DEF e
  <2>8. Closed(u, A, C, n, m, tail, f + 1) = Closed(tr, A, C, n, m, tail, f) \cup {<<s, e>>}
    <3>1. Closed(u, A, C, n, m, tail, f + 1) =
            Closed(tr, A, C, n, m, tail, f) \cup {<<tr.start, RegionEnd(tr.start, A, C, n, m, tail)>>}
      <4>1. f + 1 \in Nat /\ f \notin A /\ tr.inRegion /\ ~u.inRegion
        BY <1>5
      <4>2. tr.start \in RegionStarts(A, C, m) /\ tr.start < f
        BY <2>2 DEF s
      <4> QED
        BY <4>1, <4>2, ClosedGrows
    <3> QED
      BY <3>1, <2>6 DEF s
  <2>9. r.event = EndOf(s, e)
    BY <1>5 DEF s, e
  <2>10. Tracks(u, A, C, m, f + 1)
    BY <1>1, <1>5, <2>4 DEF Tracks
  <2> QED
    BY <1>5, <2>2, <2>7, <2>8, <2>9, <2>10 DEF s, Closes, u
<1>6. CASE ~tr.inRegion /\ act /\ u.inRegion /\ r.event = StartOf(f) /\ u.start = f /\ u.lastActive = f
  <2>1. OpenAt(f, f, A, C, m, f + 1)
    BY <1>2, <1>6, RegionOpens
  <2>2. Closed(u, A, C, n, m, tail, f + 1) = Closed(tr, A, C, n, m, tail, f)
    BY <1>6, ClosedStays
  <2> QED
    BY <1>1, <1>6, <1>kinds, <2>1, <2>2, Zenon DEF Tracks, Closes, u
<1>7. CASE ~tr.inRegion /\ ~act /\ u = tr /\ r.event = NoEvent
  <2>1. NoReach(A, A, C, m, f + 1)
    BY <1>2, <1>7, SilenceStays
  <2>2. f \notin RegionStarts(A, C, m)
    BY <1>7 DEF RegionStarts
  <2>3. Closed(u, A, C, n, m, tail, f + 1) = Closed(tr, A, C, n, m, tail, f)
    BY <1>7, <2>2, ClosedStays
  <2> QED
    BY <1>1, <1>7, <1>kinds, <2>1, <2>3 DEF Tracks, Closes, u
<1> QED
  BY <1>1, TrackerMoves, <1>3, <1>4, <1>5, <1>6, <1>7 DEF u

(* The end of the track closes the open region there.                      *)
LEMMA FlushTracks ==
  ASSUME NEW A \in SUBSET Nat, NEW C \in SUBSET Nat, NEW n \in Nat, NEW m \in Nat,
         NEW tail \in {"keep", "trim"}, tail = "keep" => C = {}, \A i \in A : i < n,
         NEW tr, Tracks(tr, A, C, m, n), NEW r, r = Flush(tr, n, tail)
  PROVE  /\ ~r.tracker.inRegion
         /\ Closes(r.event, tr, Closed(tr, A, C, n, m, tail, n), Regions(A, C, n, m, tail), n)
<1> DEFINE u == r.tracker
<1>g. Gap(m) \in Nat /\ Gap(m) >= 1
  BY GapIs
<1>1. /\ tr.inRegion => OpenAt(tr.start, tr.lastActive, A, C, m, n)
      /\ TrackerAt(tr, n, m)
  BY DEF Tracks
<1>2. /\ ~u.inRegion
      /\ \/ tr.inRegion /\ r.event = EndOf(tr.start, IF tail = "keep" THEN n ELSE tr.lastActive + 1)
         \/ ~tr.inRegion /\ r.event = NoEvent
  BY <1>1, FlushMoves
<1>3. ASSUME NEW v, ~v.inRegion PROVE Regions(A, C, n, m, tail) = Closed(v, A, C, n, m, tail, n)
  <2>1. {s \in RegionStarts(A, C, m) : s < n /\ ~(v.inRegion /\ s = v.start)} = RegionStarts(A, C, m)
    BY <1>3, Zenon DEF RegionStarts
  <2> QED
    BY <2>1 DEF Regions, Closed
<1> HIDE DEF u
<1>4. CASE ~tr.inRegion /\ r.event = NoEvent
  BY <1>2, <1>3, <1>4 DEF NoEvent, Closes, u
<1>5. CASE tr.inRegion /\ r.event = EndOf(tr.start, IF tail = "keep" THEN n ELSE tr.lastActive + 1)
  <2> DEFINE e == IF tail = "keep" THEN n ELSE tr.lastActive + 1
             l == tr.lastActive
             s == tr.start
  <2>1. OpenAt(s, l, A, C, m, n)
    BY <1>1, <1>5
  <2>2. s \in RegionStarts(A, C, m) /\ s \in Nat /\ l \in Nat /\ s <= l /\ l < n /\ n - 1 - l < Gap(m)
    BY <2>1, Zenon DEF OpenAt, RegionStarts
  <2>3. LastFrame(s, A, C, m) = l
    BY <2>1, LastFrameIs
  <2> HIDE DEF l, s
  <2>4. RegionEnd(s, A, C, n, m, tail) = e
    <3>1. CASE tail = "trim"
      BY <2>3, <3>1, TrimmedEndIs DEF l
    <3>2. CASE tail = "keep"
      <4>1. C = {} /\ ~(l + 1 + Gap(m) <= n)
        BY <3>2, <1>g, <2>2
      <4>2. RegionEnd(s, A, {}, n, m, "keep") = IF l + 1 + Gap(m) <= n THEN l + 1 + Gap(m) ELSE n
        BY <4>1, <2>2, <2>3, KeptEndIs
      <4> QED
        BY <3>2, <4>1, <4>2
    <3> QED
      BY <3>1, <3>2
  <2>5. e \in Nat /\ s < e /\ e <= n
    BY <2>2 DEF l
  <2> HIDE DEF e
  <2>6. Closed(u, A, C, n, m, tail, n) = Closed(tr, A, C, n, m, tail, n) \cup {<<s, e>>}
    <3>1. Closed(u, A, C, n, m, tail, n) =
            Closed(tr, A, C, n, m, tail, n) \cup {<<tr.start, RegionEnd(tr.start, A, C, n, m, tail)>>}
      BY <1>2, <1>5, <2>2, ClosedGrows DEF s
    <3> QED
      BY <3>1, <2>4 DEF s
  <2>7. r.event = EndOf(s, e)
    BY <1>5 DEF s, e
  <2>8. Regions(A, C, n, m, tail) = Closed(u, A, C, n, m, tail, n)
    BY <1>2, <1>3
  <2> QED
    BY <1>2, <1>5, <2>2, <2>5, <2>6, <2>7, <2>8 DEF s, Closes, u
<1> QED
  BY <1>2, <1>4, <1>5

(* A cut closes the open region after its upto active frame.               *)
LEMMA ResetTracks ==
  ASSUME NEW A \in SUBSET Nat, NEW C \in SUBSET Nat, NEW n \in Nat, NEW m \in Nat,
         NEW f \in C, f \notin A, NEW tr, Tracks(tr, A, C, m, f), NEW r, r = Reset(tr)
  PROVE  /\ Tracks(r.tracker, A, C, m, f + 1)
         /\ Closes(r.event, tr, Closed(tr, A, C, n, m, "trim", f), Closed(r.tracker, A, C, n, m, "trim", f + 1), f + 1)
<1> DEFINE u == r.tracker
<1>f. f \in Nat
  OBVIOUS
<1>1. /\ tr.inRegion => OpenAt(tr.start, tr.lastActive, A, C, m, f)
      /\ TrackerAt(tr, f, m)
  BY DEF Tracks
<1>2. /\ TrackerAt(u, f, m) /\ ~u.inRegion
      /\ \/ tr.inRegion /\ r.event = EndOf(tr.start, tr.lastActive + 1)
         \/ ~tr.inRegion /\ r.event = NoEvent
  BY <1>1, <1>f, ResetMoves
<1>3. NoReach(A, A, C, m, f + 1)
  BY CutCuts
<1>4. Tracks(u, A, C, m, f + 1)
  <2>1. TrackerAt(u, f + 1, m)
    BY <1>2, <1>f DEF TrackerAt, Trackers
  <2> QED
    BY <2>1, <1>2, <1>3 DEF Tracks
<1> HIDE DEF u
<1>5. CASE ~tr.inRegion /\ r.event = NoEvent
  <2>1. f \notin RegionStarts(A, C, m)
    BY DEF RegionStarts
  <2>2. Closed(u, A, C, n, m, "trim", f + 1) = Closed(tr, A, C, n, m, "trim", f)
    BY <1>f, <1>2, <1>5, <2>1, ClosedStays
  <2> QED
    BY <1>4, <1>5, <2>2 DEF NoEvent, Closes, u
<1>6. CASE tr.inRegion /\ r.event = EndOf(tr.start, tr.lastActive + 1)
  <2> DEFINE l == tr.lastActive
             s == tr.start
  <2>1. OpenAt(s, l, A, C, m, f)
    BY <1>1, <1>6
  <2>2. s \in RegionStarts(A, C, m) /\ s \in Nat /\ l \in Nat /\ s <= l /\ l < f
    BY <2>1, Zenon DEF OpenAt, RegionStarts
  <2> HIDE DEF l, s
  <2>3. LastFrame(s, A, C, m) = l
    BY <2>1, <1>3, <1>f, OpenEnds
  <2>4. RegionEnd(s, A, C, n, m, "trim") = l + 1
    BY <2>3, TrimmedEndIs
  <2>5. Closed(u, A, C, n, m, "trim", f + 1) = Closed(tr, A, C, n, m, "trim", f) \cup {<<s, l + 1>>}
    <3>1. Closed(u, A, C, n, m, "trim", f + 1) =
            Closed(tr, A, C, n, m, "trim", f) \cup {<<tr.start, RegionEnd(tr.start, A, C, n, m, "trim")>>}
      <4>1. f + 1 \in Nat /\ f \notin A /\ tr.inRegion /\ ~u.inRegion
        BY <1>f, <1>2, <1>6
      <4>2. tr.start \in RegionStarts(A, C, m) /\ tr.start < f
        BY <2>2 DEF s
      <4> QED
        BY <4>1, <4>2, <1>f, ClosedGrows
    <3> QED
      BY <3>1, <2>4 DEF s
  <2>6. r.event = EndOf(s, l + 1)
    BY <1>6 DEF s, l
  <2>7. l + 1 \in Nat /\ s < l + 1 /\ l + 1 <= f + 1
    BY <2>2, <1>f
  <2> QED
    BY <1>4, <1>6, <2>2, <2>5, <2>6, <2>7 DEF s, Closes, u
<1> QED
  BY <1>2, <1>5, <1>6

LEMMA GapIsPositive == ASSUME StreamingAssumption PROVE Gap(MinOff) \in Nat /\ Gap(MinOff) >= 1 /\ Gap(MinOff) >= MinOff
BY GapIs DEF StreamingAssumption

(* The same of the stream's tracker, which keeps the tail.                 *)
LEMMA AdvanceCases ==
  ASSUME StreamingAssumption, NEW tr, NEW frame \in Nat, TrackerAt(tr, frame, MinOff), NEW active \in BOOLEAN,
         NEW r, r = Advance(tr, active, frame, MinOff, "keep")
  PROVE  /\ TrackerAt(r.tracker, frame + 1, MinOff)
         /\ \/ tr.inRegion /\ r.tracker.inRegion /\ r.event = NoEvent
            \/ tr.inRegion /\ ~r.tracker.inRegion /\ r.event = EndOf(tr.start, frame + 1)
            \/ ~tr.inRegion /\ r.tracker.inRegion /\ r.event = StartOf(frame)
            \/ ~tr.inRegion /\ ~r.tracker.inRegion /\ r.event = NoEvent
<1>1. MinOff \in Nat
  BY DEF StreamingAssumption
<1> QED
  BY <1>1, TrackerMoves

LEMMA FlushCases ==
  ASSUME StreamingAssumption, NEW tr, NEW frame \in Nat, TrackerAt(tr, frame, MinOff),
         NEW r, r = Flush(tr, frame, "keep")
  PROVE  /\ TrackerAt(r.tracker, frame, MinOff) /\ ~r.tracker.inRegion
         /\ \/ tr.inRegion /\ r.event = EndOf(tr.start, frame)
            \/ ~tr.inRegion /\ r.event = NoEvent
<1>1. MinOff \in Nat
  BY DEF StreamingAssumption
<1> QED
  BY <1>1, FlushMoves

-----------------------------------------------------------------------------
(* The turns of the stream.                                                *)

LEMMA StreamFacts ==
  ASSUME StreamingAssumption, TypeOK
  PROVE  /\ FrameSize \in Nat /\ FrameSize >= 1 /\ Win \in Nat /\ hop \in Nat /\ hop >= 1 /\ hop <= Win
         /\ totalFrames \in Nat /\ totalFrames * FrameSize \in Nat
         /\ (totalFrames + 1) * FrameSize = totalFrames * FrameSize + FrameSize
         /\ Len(buf) \in Nat /\ DOMAIN buf = 1 .. Len(buf) /\ \A i \in DOMAIN buf : buf[i] \in Nat
         /\ Len(vadBuffer) \in Nat /\ DOMAIN vadBuffer = 1 .. Len(vadBuffer)
         /\ \A i \in DOMAIN vadBuffer : vadBuffer[i] \in Nat
         /\ nextStart \in Nat /\ segEnd \in Nat
<1>1. /\ FrameSize \in Nat /\ FrameSize >= 1 /\ Win \in Nat /\ hop \in Nat /\ hop >= 1 /\ hop <= Win
  BY DEF StreamingAssumption, TypeOK
<1>2. ASSUME NEW a \in Nat, NEW b \in Nat PROVE a * b \in Nat /\ (a + 1) * b = a * b + b
  OBVIOUS
<1>3. totalFrames \in Nat /\ nextStart \in Nat /\ segEnd \in Nat
  BY DEF TypeOK
<1>4. Len(buf) \in Nat /\ DOMAIN buf = 1 .. Len(buf) /\ \A i \in DOMAIN buf : buf[i] \in Nat
  BY LenProperties DEF TypeOK
<1>5. /\ Len(vadBuffer) \in Nat /\ DOMAIN vadBuffer = 1 .. Len(vadBuffer)
      /\ \A i \in DOMAIN vadBuffer : vadBuffer[i] \in Nat
  BY LenProperties DEF TypeOK
<1> QED
  BY <1>1, <1>2, <1>3, <1>4, <1>5

LEMMA TurnsAreTurns ==
  ASSUME TypeOK
  PROVE  /\ AllTurns \in Seq(TurnRecord) /\ Len(AllTurns) \in Nat /\ DOMAIN AllTurns = 1 .. Len(AllTurns)
         /\ \A j \in DOMAIN AllTurns : AllTurns[j] \in TurnRecord
<1>1. AllTurns \in Seq(TurnRecord)
  BY ConcatProperties DEF TypeOK, AllTurns
<1> QED
  BY <1>1, LenProperties

\* A step drops at most the last turns.
TurnsKept ==
  /\ AllTurns' \in Seq(TurnRecord) /\ Len(AllTurns') <= Len(AllTurns)
  /\ DOMAIN AllTurns' \subseteq DOMAIN AllTurns
  /\ \A j \in DOMAIN AllTurns' : AllTurns'[j] = AllTurns[j]

\* A step adds turn t.
TurnAdded(t) ==
  /\ t \in TurnRecord /\ AllTurns' \in Seq(TurnRecord)
  /\ Len(AllTurns') = Len(AllTurns) + 1 /\ DOMAIN AllTurns' = 1 .. Len(AllTurns) + 1
  /\ \A j \in DOMAIN AllTurns : AllTurns'[j] = AllTurns[j]
  /\ AllTurns'[Len(AllTurns) + 1] = t

LEMMA KeepsTurns ==
  ASSUME TypeOK, \/ turns' = turns /\ (newTurns' = newTurns \/ newTurns' = <<>>)
                 \/ turns' = turns \o newTurns /\ newTurns' = <<>>
  PROVE  TurnsKept /\ turns' \in Seq(TurnRecord) /\ newTurns' \in Seq(TurnRecord)
<1>1. turns \in Seq(TurnRecord) /\ newTurns \in Seq(TurnRecord) /\ <<>> \in Seq(TurnRecord)
  BY DEF TypeOK
<1>2. turns \o newTurns \in Seq(TurnRecord)
  BY <1>1, ConcatProperties
<1>3. turns' \in Seq(TurnRecord) /\ newTurns' \in Seq(TurnRecord)
  BY <1>1, <1>2, Zenon
<1>4. CASE AllTurns' = AllTurns
  <2>1. AllTurns \in Seq(TurnRecord) /\ Len(AllTurns) \in Nat
    BY TurnsAreTurns
  <2>2. Len(AllTurns') <= Len(AllTurns) /\ DOMAIN AllTurns' = DOMAIN AllTurns
    BY <1>4, <2>1
  <2> QED
    BY <1>3, <1>4, <2>1, <2>2 DEF TurnsKept
<1>5. CASE turns' = turns /\ newTurns' = <<>>
  <2>1. AllTurns' = turns
    BY <1>1, <1>5, ConcatEmptySeq DEF AllTurns
  <2>2. /\ Len(turns) \in Nat /\ Len(newTurns) \in Nat /\ Len(AllTurns) = Len(turns) + Len(newTurns)
        /\ DOMAIN turns = 1 .. Len(turns) /\ DOMAIN AllTurns = 1 .. Len(AllTurns)
        /\ \A j \in 1 .. Len(turns) : AllTurns[j] = turns[j]
    BY <1>1, <1>2, ConcatProperties, LenProperties DEF AllTurns
  <2>3. DOMAIN turns \subseteq DOMAIN AllTurns /\ Len(turns) <= Len(AllTurns)
    BY <2>2
  <2> QED
    <3>1. AllTurns' \in Seq(TurnRecord) /\ Len(AllTurns') = Len(turns) /\ DOMAIN AllTurns' = DOMAIN turns
      BY <1>1, <2>1
    <3>2. \A j \in DOMAIN AllTurns' : AllTurns'[j] = AllTurns[j]
      BY <2>1, <2>2, <3>1
    <3> QED
      BY <1>3, <2>3, <3>1, <3>2 DEF TurnsKept
<1>6. CASE turns' = turns \o newTurns /\ newTurns' = <<>>
  BY <1>2, <1>4, <1>6, ConcatEmptySeq DEF AllTurns
<1>7. CASE turns' = turns /\ newTurns' = newTurns
  BY <1>4, <1>7 DEF AllTurns
<1> QED
  BY <1>3, <1>5, <1>6, <1>7

LEMMA AddsTurn ==
  ASSUME TypeOK, NEW t \in TurnRecord, turns' = turns, newTurns' = Append(newTurns, t)
  PROVE  TurnAdded(t) /\ turns' \in Seq(TurnRecord) /\ newTurns' \in Seq(TurnRecord)
<1>1. turns \in Seq(TurnRecord) /\ newTurns \in Seq(TurnRecord) /\ newTurns' \in Seq(TurnRecord)
  BY AppendProperties DEF TypeOK
<1>2. /\ Len(newTurns) \in Nat /\ Len(newTurns') = Len(newTurns) + 1
      /\ \A j \in 1 .. Len(newTurns) : newTurns'[j] = newTurns[j]
      /\ newTurns'[Len(newTurns) + 1] = t
  BY <1>1, AppendProperties, LenProperties
<1>3. /\ AllTurns \in Seq(TurnRecord) /\ Len(AllTurns) = Len(turns) + Len(newTurns) /\ Len(turns) \in Nat
      /\ \A j \in 1 .. Len(AllTurns) :
           AllTurns[j] = IF j <= Len(turns) THEN turns[j] ELSE newTurns[j - Len(turns)]
  BY <1>1, ConcatProperties, LenProperties DEF AllTurns
<1>4. /\ AllTurns' \in Seq(TurnRecord) /\ Len(AllTurns') = Len(turns) + Len(newTurns')
      /\ \A j \in 1 .. Len(AllTurns') :
           AllTurns'[j] = IF j <= Len(turns) THEN turns[j] ELSE newTurns'[j - Len(turns)]
  <2>1. AllTurns' = turns \o newTurns'
    BY DEF AllTurns
  <2>2. /\ turns \o newTurns' \in Seq(TurnRecord) /\ Len(turns \o newTurns') = Len(turns) + Len(newTurns')
        /\ \A j \in 1 .. Len(turns) + Len(newTurns') :
             (turns \o newTurns')[j] = IF j <= Len(turns) THEN turns[j] ELSE newTurns'[j - Len(turns)]
    BY <1>1, ConcatProperties
  <2> QED
    BY <2>1, <2>2, Zenon
<1>5. Len(AllTurns') = Len(AllTurns) + 1 /\ Len(AllTurns) \in Nat
  BY <1>2, <1>3, <1>4
<1>6. DOMAIN AllTurns = 1 .. Len(AllTurns) /\ DOMAIN AllTurns' = 1 .. Len(AllTurns) + 1
  BY <1>3, <1>4, <1>5, LenProperties
<1>7. ASSUME NEW j \in DOMAIN AllTurns PROVE AllTurns'[j] = AllTurns[j]
  <2>1. j \in 1 .. Len(AllTurns') /\ j \in 1 .. Len(AllTurns)
    BY <1>5, <1>6
  <2>2. CASE j <= Len(turns)
    BY <1>3, <1>4, <2>1, <2>2, Zenon
  <2>3. CASE ~(j <= Len(turns))
    <3>1. j - Len(turns) \in 1 .. Len(newTurns)
      BY <1>2, <1>3, <2>1, <2>3
    <3> QED
      BY <1>2, <1>3, <1>4, <2>1, <2>3, <3>1, Zenon
  <2> QED
    BY <2>2, <2>3
<1>8. AllTurns'[Len(AllTurns) + 1] = t
  <2>1. Len(AllTurns) + 1 \in 1 .. Len(AllTurns') /\ ~(Len(AllTurns) + 1 <= Len(turns))
        /\ Len(AllTurns) + 1 - Len(turns) = Len(newTurns) + 1
    BY <1>2, <1>3, <1>5
  <2> QED
    BY <1>2, <1>4, <2>1
<1> QED
  BY <1>1, <1>4, <1>5, <1>6, <1>7, <1>8, Zenon DEF TurnAdded

(* Where the turns stand: what is kept of them when a step drops or adds.  *)
LEMMA KeptTurnsStayInOrder ==
  ASSUME StreamingAssumption, TypeOK, TurnsInOrder, TurnsKept,
         totalFrames' * FrameSize \in Nat, totalFrames' * FrameSize >= totalFrames * FrameSize
  PROVE  TurnsInOrder'
<1>1. /\ Len(AllTurns) \in Nat /\ DOMAIN AllTurns = 1 .. Len(AllTurns)
      /\ \A j \in DOMAIN AllTurns : AllTurns[j] \in TurnRecord
      /\ totalFrames * FrameSize \in Nat
  BY TurnsAreTurns, StreamFacts
<1>2. Len(AllTurns') \in Nat /\ DOMAIN AllTurns' = 1 .. Len(AllTurns')
  BY LenProperties DEF TurnsKept
<1>3. ASSUME NEW i \in 1 .. (Len(AllTurns') - 1) PROVE AllTurns'[i].start < AllTurns'[i + 1].start
  <2>1. i \in DOMAIN AllTurns' /\ i + 1 \in DOMAIN AllTurns' /\ i \in 1 .. (Len(AllTurns) - 1)
    BY <1>1, <1>2 DEF TurnsKept
  <2> QED
    BY <2>1, Zenon DEF TurnsKept, TurnsInOrder
<1>4. ASSUME NEW j \in DOMAIN AllTurns'
      PROVE  AllTurns'[j].start < AllTurns'[j].end /\ AllTurns'[j].end <= totalFrames' * FrameSize
  <2>1. j \in DOMAIN AllTurns /\ AllTurns'[j] = AllTurns[j]
    BY DEF TurnsKept
  <2>2. AllTurns[j].start < AllTurns[j].end /\ AllTurns[j].end <= totalFrames * FrameSize
    BY <2>1 DEF TurnsInOrder, Range
  <2>3. AllTurns[j].end \in Nat
    BY <1>1, <2>1 DEF TurnRecord
  <2> QED
    BY <1>1, <2>1, <2>2, <2>3
<1> QED
  BY <1>3, <1>4 DEF TurnsInOrder, Range

LEMMA AddedTurnIsInOrder ==
  ASSUME StreamingAssumption, TypeOK, TurnsInOrder, NEW t, TurnAdded(t),
         \A j \in DOMAIN AllTurns : AllTurns[j].start < t.start,
         t.start < t.end, t.end <= totalFrames * FrameSize, totalFrames' = totalFrames
  PROVE  TurnsInOrder'
<1>1. Len(AllTurns) \in Nat /\ DOMAIN AllTurns = 1 .. Len(AllTurns)
  BY TurnsAreTurns
<1>2. ASSUME NEW i \in 1 .. (Len(AllTurns') - 1) PROVE AllTurns'[i].start < AllTurns'[i + 1].start
  <2>1. i \in DOMAIN AllTurns /\ AllTurns'[i] = AllTurns[i]
    BY <1>1 DEF TurnAdded
  <2>2. CASE i = Len(AllTurns)
    BY <2>1, <2>2 DEF TurnAdded
  <2>3. CASE i # Len(AllTurns)
    <3>1. i \in 1 .. (Len(AllTurns) - 1) /\ i + 1 \in DOMAIN AllTurns
      BY <1>1, <2>1, <2>3
    <3> QED
      BY <2>1, <3>1 DEF TurnAdded, TurnsInOrder
  <2> QED
    BY <2>2, <2>3
<1>3. ASSUME NEW j \in DOMAIN AllTurns'
      PROVE  AllTurns'[j].start < AllTurns'[j].end /\ AllTurns'[j].end <= totalFrames' * FrameSize
  <2>1. CASE j = Len(AllTurns) + 1
    BY <2>1 DEF TurnAdded
  <2>2. CASE j # Len(AllTurns) + 1
    <3>1. j \in DOMAIN AllTurns
      BY <1>1, <2>2 DEF TurnAdded
    <3> QED
      BY <3>1 DEF TurnAdded, TurnsInOrder, Range
  <2> QED
    BY <2>1, <2>2
<1> QED
  BY <1>2, <1>3 DEF TurnsInOrder, Range
-----------------------------------------------------------------------------
(* The audio: the steps that leave the window buffer alone.                *)
AudioUnchanged == UNCHANGED <<hop, totalFrames, tracker, buf, nextStart, segEnd, track>>

LEMMA BufferAloneKeepsAudio ==
  ASSUME StreamingAssumption, AudioIInv, TypeOK', TurnsKept, AudioUnchanged,
         pc' = "windows" => pc = "windows", pc' = "close" => pc = "close",
         pc' \in {"idle", "frames"} /\ ~tracker.inRegion => buf = <<>>,
         failures' = 0 =>
           /\ failures = 0
           /\ heard' = totalFrames * FrameSize + Len(vadBuffer')
           /\ \A i \in DOMAIN vadBuffer' : vadBuffer'[i] = totalFrames * FrameSize + i - 1
  PROVE  AudioIInv'
<1>1. /\ totalFrames' = totalFrames /\ tracker' = tracker /\ buf' = buf /\ nextStart' = nextStart
      /\ segEnd' = segEnd
  BY DEF AudioUnchanged
<1>2. NoAudioBetweenRegions'
  BY <1>1 DEF NoAudioBetweenRegions
<1>3. LoopFollowsRegion'
  BY <1>1 DEF LoopFollowsRegion, AudioIInv
<1>4. BufferEndsAtFrame'
  BY <1>1 DEF BufferEndsAtFrame, AudioIInv
<1>5. TurnsBeforeBuffer'
  <2> SUFFICES ASSUME tracker'.inRegion \/ pc' = "close", NEW j \in DOMAIN AllTurns'
               PROVE  AllTurns'[j].start < nextStart'
    BY DEF TurnsBeforeBuffer
  <2>1. tracker.inRegion \/ pc = "close"
    BY <1>1
  <2>2. j \in DOMAIN AllTurns /\ AllTurns'[j] = AllTurns[j]
    BY DEF TurnsKept
  <2> QED
    BY <1>1, <2>1, <2>2 DEF TurnsBeforeBuffer, AudioIInv
<1>6. TurnsInOrder'
  <2>1. TypeOK /\ TurnsInOrder /\ totalFrames' * FrameSize = totalFrames * FrameSize
    BY <1>1 DEF AudioIInv
  <2>2. totalFrames * FrameSize \in Nat
    BY <2>1, StreamFacts
  <2> QED
    BY <2>1, <2>2, KeptTurnsStayInOrder
<1>7. AudioInPlace'
  <2> SUFFICES ASSUME failures' = 0 PROVE AudioInPlace'
    BY DEF AudioInPlace
  <2>1. failures = 0 /\ AudioInPlace
    BY DEF AudioIInv
  <2>2. \A i \in DOMAIN buf' : buf'[i] = nextStart' + i - 1
    BY <1>1, <2>1 DEF AudioInPlace
  <2>3. \A j \in DOMAIN AllTurns' : AllTurns'[j].audio = AllTurns'[j].start
    BY <2>1 DEF AudioInPlace, TurnsKept
  <2> QED
    BY <1>1, <2>2, <2>3 DEF AudioInPlace
<1> QED
  BY <1>2, <1>3, <1>4, <1>5, <1>6, <1>7 DEF AudioIInv

(* A call refused, the end of a loop, and the return.                      *)
LEMMA QuietSteps ==
  ASSUME StreamingAssumption, AudioIInv, CacheTypeOK',
         \/ \E n \in ChunkSizes : FeedTooLong(n)
         \/ WindowsDone \/ NothingLeft \/ ReturnTurns
  PROVE  AudioIInv'
<1>1. TypeOK /\ LoopFollowsRegion /\ NoAudioBetweenRegions /\ AudioInPlace
  BY DEF AudioIInv
<1>2. AudioUnchanged /\ UNCHANGED <<vadBuffer, heard, flushes, failures>>
  BY DEF AudioUnchanged, FeedTooLong, WindowsDone, NothingLeft, ReturnTurns
<1>3. \/ turns' = turns /\ newTurns' = newTurns
      \/ turns' = turns \o newTurns /\ newTurns' = <<>>
  BY DEF FeedTooLong, WindowsDone, NothingLeft, ReturnTurns
<1>4. TurnsKept /\ turns' \in Seq(TurnRecord) /\ newTurns' \in Seq(TurnRecord)
  BY <1>1, <1>3, KeepsTurns
<1>5. outcome' \in {"none", "ok", "err"} /\ pc' \in {"idle", "frames", "windows", "close"}
  BY <1>1 DEF TypeOK, FeedTooLong, WindowsDone, NothingLeft, ReturnTurns
<1>6. TypeOK'
  BY <1>1, <1>2, <1>4, <1>5 DEF TypeOK, AudioUnchanged
<1>7. pc' \in {"idle", "frames"} /\ ~tracker.inRegion => buf = <<>>
  BY <1>1 DEF LoopFollowsRegion, NoAudioBetweenRegions, FeedTooLong, WindowsDone, NothingLeft, ReturnTurns
<1>8. (pc' = "windows" => pc = "windows") /\ (pc' = "close" => pc = "close")
  BY DEF FeedTooLong, WindowsDone, NothingLeft, ReturnTurns
<1>9. failures' = 0 =>
        /\ failures = 0 /\ heard' = totalFrames * FrameSize + Len(vadBuffer')
        /\ \A i \in DOMAIN vadBuffer' : vadBuffer'[i] = totalFrames * FrameSize + i - 1
  BY <1>1, <1>2 DEF AudioInPlace
<1> QED
  BY <1>2, <1>4, <1>6, <1>7, <1>8, <1>9, BufferAloneKeepsAudio

LEMMA FeedKeepsAudio ==
  ASSUME StreamingAssumption, AudioIInv, CacheTypeOK', NEW n \in ChunkSizes, Feed(n)
  PROVE  AudioIInv'
<1>1. TypeOK /\ NoAudioBetweenRegions /\ AudioInPlace /\ n \in Nat /\ heard \in Nat
  BY DEF AudioIInv, StreamingAssumption, TypeOK
<1>2. AudioUnchanged /\ UNCHANGED <<turns, outcome, flushes, failures>> /\ newTurns' = <<>>
      /\ pc = "idle" /\ pc' = "frames" /\ heard' = heard + n
  BY DEF AudioUnchanged, Feed
<1>3. /\ Len(vadBuffer) \in Nat /\ DOMAIN vadBuffer = 1 .. Len(vadBuffer)
      /\ \A i \in DOMAIN vadBuffer : vadBuffer[i] \in Nat
      /\ totalFrames * FrameSize \in Nat
  BY <1>1, StreamFacts
<1> DEFINE chunk == [i \in 1 .. n |-> heard + i - 1]
<1>4. chunk \in Seq(Nat) /\ Len(chunk) = n /\ \A i \in 1 .. n : chunk[i] = heard + i - 1
  <2>1. \A i \in 1 .. n : heard + i - 1 \in Nat
    BY <1>1
  <2>2. chunk \in [1 .. n -> Nat]
    BY <2>1
  <2> QED
    BY <1>1, <2>2
<1>5. vadBuffer' = vadBuffer \o chunk
  BY DEF Feed
<1> HIDE DEF chunk
<1>6. /\ vadBuffer' \in Seq(Nat) /\ Len(vadBuffer') = Len(vadBuffer) + n
      /\ \A i \in 1 .. Len(vadBuffer) + n :
           vadBuffer'[i] = IF i <= Len(vadBuffer) THEN vadBuffer[i] ELSE chunk[i - Len(vadBuffer)]
  <2>1. vadBuffer \in Seq(Nat)
    BY <1>1 DEF TypeOK
  <2> QED
    BY <1>4, <1>5, <2>1, ConcatProperties, Zenon
<1>7. TurnsKept /\ turns' \in Seq(TurnRecord) /\ newTurns' \in Seq(TurnRecord)
  BY <1>1, <1>2, KeepsTurns
<1>8. TypeOK'
  BY <1>1, <1>2, <1>6, <1>7 DEF TypeOK, AudioUnchanged
<1>9. ASSUME failures' = 0
      PROVE  /\ heard' = totalFrames * FrameSize + Len(vadBuffer')
             /\ \A i \in DOMAIN vadBuffer' : vadBuffer'[i] = totalFrames * FrameSize + i - 1
  <2>1. /\ heard = totalFrames * FrameSize + Len(vadBuffer)
        /\ \A i \in DOMAIN vadBuffer : vadBuffer[i] = totalFrames * FrameSize + i - 1
    BY <1>1, <1>2, <1>9 DEF AudioInPlace
  <2>2. heard' = totalFrames * FrameSize + Len(vadBuffer')
    BY <1>1, <1>2, <1>3, <1>6, <2>1
  <2>3. ASSUME NEW i \in DOMAIN vadBuffer' PROVE vadBuffer'[i] = totalFrames * FrameSize + i - 1
    <3>1. i \in 1 .. Len(vadBuffer) + n
      BY <1>6, <2>3, LenProperties
    <3>2. CASE i <= Len(vadBuffer)
      BY <1>3, <1>6, <2>1, <3>1, <3>2
    <3>3. CASE ~(i <= Len(vadBuffer))
      <4>1. i - Len(vadBuffer) \in 1 .. n
        BY <1>1, <1>3, <3>1, <3>3
      <4>2. vadBuffer'[i] = heard + (i - Len(vadBuffer)) - 1
        BY <1>4, <1>6, <3>1, <3>3, <4>1
      <4> QED
        BY <1>3, <2>1, <3>1, <4>2
    <3> QED
      BY <3>2, <3>3
  <2> QED
    BY <2>2, <2>3
<1>10. pc' \in {"idle", "frames"} /\ ~tracker.inRegion => buf = <<>>
  BY <1>1, <1>2 DEF NoAudioBetweenRegions
<1> QED
  BY <1>2, <1>7, <1>8, <1>9, <1>10, BufferAloneKeepsAudio

(* What is left of samples when the first k are dropped.                   *)
LEMMA TailFrom ==
  ASSUME NEW s \in Seq(Nat), NEW k \in Nat, k <= Len(s)
  PROVE  /\ SubSeq(s, k + 1, Len(s)) \in Seq(Nat)
         /\ Len(SubSeq(s, k + 1, Len(s))) = Len(s) - k
         /\ \A i \in 1 .. Len(s) - k : SubSeq(s, k + 1, Len(s))[i] = s[k + i]
<1>1. k + 1 \in Int /\ Len(s) \in Int /\ \A i \in k + 1 .. Len(s) : s[i] \in Nat
  BY ElementOfSeq
<1>2. Len(SubSeq(s, k + 1, Len(s))) = Len(s) - k
  BY <1>1, SubSeqProperties
<1>3. /\ SubSeq(s, k + 1, Len(s)) \in Seq(Nat)
      /\ \A i \in 1 .. Len(s) - k : SubSeq(s, k + 1, Len(s))[i] = s[k + i]
  BY <1>1, SubSeqProperties
<1> QED
  BY <1>2, <1>3, Zenon

LEMMA FrameRest ==
  ASSUME StreamingAssumption, TypeOK, HasFrame
  PROVE  /\ Frame \in Seq(Nat) /\ Len(Frame) = FrameSize /\ DOMAIN Frame = 1 .. FrameSize
         /\ \A i \in 1 .. FrameSize : Frame[i] = vadBuffer[i]
         /\ RestOfBuffer \in Seq(Nat) /\ Len(RestOfBuffer) = Len(vadBuffer) - FrameSize
         /\ DOMAIN RestOfBuffer = 1 .. Len(vadBuffer) - FrameSize
         /\ \A i \in 1 .. Len(vadBuffer) - FrameSize : RestOfBuffer[i] = vadBuffer[FrameSize + i]
<1>1. /\ FrameSize \in Nat /\ FrameSize >= 1 /\ Len(vadBuffer) \in Nat /\ vadBuffer \in Seq(Nat)
      /\ Len(vadBuffer) >= FrameSize
  BY StreamFacts DEF TypeOK, HasFrame
<1>2. /\ Frame \in Seq(Nat) /\ Len(Frame) = FrameSize
      /\ \A i \in 1 .. FrameSize : Frame[i] = vadBuffer[i]
  BY <1>1, SubSeqProperties DEF Frame
<1>3. /\ RestOfBuffer \in Seq(Nat) /\ Len(RestOfBuffer) = Len(vadBuffer) - FrameSize
      /\ \A i \in 1 .. Len(vadBuffer) - FrameSize : RestOfBuffer[i] = vadBuffer[FrameSize + i]
  BY <1>1, TailFrom, Zenon DEF RestOfBuffer
<1> QED
  BY <1>2, <1>3, LenProperties

LEMMA FrameFailsKeepsAudio ==
  ASSUME StreamingAssumption, AudioIInv, CacheTypeOK', FrameFails
  PROVE  AudioIInv'
<1>1. TypeOK /\ NoAudioBetweenRegions /\ failures \in Nat
  BY DEF AudioIInv, TypeOK
<1>2. AudioUnchanged /\ UNCHANGED <<turns, heard, flushes>> /\ newTurns' = <<>>
      /\ pc = "frames" /\ pc' = "idle" /\ outcome' = "err" /\ failures' = failures + 1
      /\ vadBuffer' = RestOfBuffer /\ HasFrame
  BY DEF AudioUnchanged, FrameFails, Fail
<1>3. TurnsKept /\ turns' \in Seq(TurnRecord) /\ newTurns' \in Seq(TurnRecord)
  BY <1>1, <1>2, KeepsTurns
<1>4. vadBuffer' \in Seq(Nat) /\ failures' \in Nat /\ failures' # 0
  BY <1>1, <1>2, FrameRest
<1>5. TypeOK'
  BY <1>1, <1>2, <1>3, <1>4 DEF TypeOK, AudioUnchanged
<1>6. pc' \in {"idle", "frames"} /\ ~tracker.inRegion => buf = <<>>
  BY <1>1, <1>2 DEF NoAudioBetweenRegions
<1> QED
  BY <1>2, <1>3, <1>4, <1>5, <1>6, BufferAloneKeepsAudio
-----------------------------------------------------------------------------
(* The audio: windows.                                                     *)

\* A window gets its turn from the cache.
LEMMA EmbedAddsTurn ==
  ASSUME SpeakerCacheAssumption, TypeOK, CacheIInv, turns' = turns,
         NEW start \in Nat, NEW end \in Nat, NEW audio, audio \in Seq(Nat), audio # <<>>,
         Embed(start, end, audio)
  PROVE  /\ CacheIInv' /\ newTurns' \in Seq(TurnRecord)
         /\ \E t \in TurnRecord :
              /\ t.speaker = last'.speaker /\ t.stable = last'.stable
              /\ t.start = start /\ t.end = end /\ t.audio = audio[1]
              /\ TurnAdded(t)
<1>1. PICK sims \in AnyEmbedding : Assign(sims)
  BY DEF Embed
<1>2. CacheIInv'
  BY <1>1, AssignInv
<1>3. \E e \in Entry : last'.speaker = e.id /\ last'.stable = e.stable
  <2>1. CASE \E e \in Entry :
              /\ e.id = nextId /\ e.hits = 1 /\ e.stable = IsStable(1)
              /\ entries' = Append(entries, e)
              /\ last'.speaker = e.id /\ last'.stable = e.stable
    BY <2>1
  <2>2. CASE \E c \in DOMAIN entries : \E e \in Entry :
              /\ e.id = entries[c].id /\ e.hits = entries[c].hits + 1
              /\ e.stable = (entries[c].stable \/ IsStable(e.hits))
              /\ entries' = [entries EXCEPT ![c] = e]
              /\ last'.speaker = e.id /\ last'.stable = e.stable
    BY <2>2
  <2> QED
    BY <1>1, <2>1, <2>2, AssignAnswers
<1>4. last'.speaker \in Nat /\ last'.stable \in BOOLEAN
  BY <1>3 DEF Entry
<1>5. audio[1] \in Nat
  <2>1. Len(audio) \in Nat /\ DOMAIN audio = 1 .. Len(audio) /\ Len(audio) # 0
    BY LenProperties, EmptySeq
  <2> QED
    BY <2>1, ElementOfSeq
<1> DEFINE t == [speaker |-> last'.speaker, stable |-> last'.stable,
                 start |-> start, end |-> end, audio |-> audio[1]]
<1>6. newTurns' = Append(newTurns, t)
  BY DEF Embed, Turn
<1>7. t \in TurnRecord
  BY <1>4, <1>5 DEF TurnRecord
<1>8. /\ t.speaker = last'.speaker /\ t.stable = last'.stable
      /\ t.start = start /\ t.end = end /\ t.audio = audio[1]
  OBVIOUS
<1> HIDE DEF t
<1>9. TurnAdded(t) /\ newTurns' \in Seq(TurnRecord)
  BY <1>6, <1>7, AddsTurn
<1> QED
  BY <1>2, <1>7, <1>8, <1>9

LEMMA PopMovesOn ==
  ASSUME StreamingAssumption, TypeOK, HasWindow, Pop
  PROVE  /\ buf' \in Seq(Nat) /\ Len(buf') = Len(buf) - hop /\ DOMAIN buf' = 1 .. Len(buf) - hop
         /\ \A i \in 1 .. Len(buf) - hop : buf'[i] = buf[hop + i]
         /\ nextStart' = nextStart + hop /\ nextStart' \in Nat
<1>1. /\ hop \in Nat /\ hop >= 1 /\ hop <= Win /\ Len(buf) \in Nat /\ Len(buf) >= Win /\ Win \in Nat
      /\ nextStart \in Nat /\ buf \in Seq(Nat)
  BY StreamFacts DEF HasWindow, TypeOK
<1>2. buf' = SubSeq(buf, hop + 1, Len(buf)) /\ nextStart' = nextStart + hop
  BY DEF Pop
<1>3. /\ buf' \in Seq(Nat) /\ Len(buf') = Len(buf) - hop
      /\ \A i \in 1 .. Len(buf) - hop : buf'[i] = buf[hop + i]
  <2>1. hop \in Nat /\ hop <= Len(buf) /\ buf \in Seq(Nat)
    BY <1>1
  <2> QED
    BY <1>2, <2>1, TailFrom, Zenon
<1> QED
  BY <1>1, <1>2, <1>3, LenProperties

\* What a pop leaves is in its place, in the same region.
LEMMA PopKeepsAudio ==
  ASSUME StreamingAssumption, AudioIInv, pc = "windows", HasWindow, Pop,
         UNCHANGED <<tracker, totalFrames, segEnd>>, pc' \in {"windows", "idle"}
  PROVE  NoAudioBetweenRegions' /\ LoopFollowsRegion' /\ BufferEndsAtFrame'
<1>1. tracker.inRegion
  BY DEF AudioIInv, LoopFollowsRegion
<1>2. /\ Len(buf') = Len(buf) - hop /\ nextStart' = nextStart + hop /\ TypeOK
  BY PopMovesOn DEF AudioIInv
<1>3. hop \in Nat /\ Len(buf) \in Nat /\ nextStart \in Nat
  BY <1>2, StreamFacts
<1>4. nextStart + Len(buf) = totalFrames * FrameSize
  BY <1>1 DEF AudioIInv, BufferEndsAtFrame
<1>5. nextStart' + Len(buf') = totalFrames' * FrameSize
  BY <1>2, <1>3, <1>4
<1>6. BufferEndsAtFrame'
  BY <1>5 DEF BufferEndsAtFrame
<1> QED
  BY <1>1, <1>6 DEF NoAudioBetweenRegions, LoopFollowsRegion

LEMMA EmbedWindowKeepsAudio ==
  ASSUME StreamingAssumption, SpeakerCacheAssumption, AudioIInv, CacheIInv, EmbedWindow
  PROVE  AudioIInv'
<1>1. TypeOK /\ TurnsInOrder /\ TurnsBeforeBuffer /\ AudioInPlace /\ tracker.inRegion
      /\ nextStart + Len(buf) = totalFrames * FrameSize
  BY DEF AudioIInv, EmbedWindow, LoopFollowsRegion, BufferEndsAtFrame
<1>2. UNCHANGED <<hop, pc, vadBuffer, totalFrames, tracker, segEnd, turns, outcome,
                  heard, track, flushes, failures>>
      /\ pc = "windows" /\ HasWindow /\ Pop
  BY DEF EmbedWindow
<1>3. /\ hop \in Nat /\ hop >= 1 /\ hop <= Win /\ Len(buf) \in Nat /\ Len(buf) >= Win /\ Win \in Nat
      /\ nextStart \in Nat /\ buf \in Seq(Nat) /\ totalFrames * FrameSize \in Nat
      /\ DOMAIN buf = 1 .. Len(buf)
  BY <1>1, <1>2, StreamFacts DEF HasWindow, TypeOK
<1>4. /\ buf' \in Seq(Nat) /\ Len(buf') = Len(buf) - hop /\ DOMAIN buf' = 1 .. Len(buf) - hop
      /\ \A i \in 1 .. Len(buf) - hop : buf'[i] = buf[hop + i]
      /\ nextStart' = nextStart + hop /\ nextStart' \in Nat
  BY <1>1, <1>2, PopMovesOn
<1>5. Window \in Seq(Nat) /\ Window # <<>> /\ Window[1] = buf[1]
  <2>1. Window \in Seq(Nat) /\ Len(Window) = Win /\ \A i \in 1 .. Win : Window[i] = buf[i]
    BY <1>3, SubSeqProperties DEF Window
  <2>2. Len(Window) # 0 /\ 1 \in 1 .. Win
    BY <1>3, <2>1
  <2> QED
    BY <2>1, <2>2, EmptySeq
<1>6. Embed(nextStart, nextStart + Win, Window) /\ nextStart + Win \in Nat
  BY <1>3 DEF EmbedWindow
<1> DEFINE u == nextStart + Win
           audio == Window
<1>7. u \in Nat /\ audio \in Seq(Nat) /\ audio # <<>> /\ Embed(nextStart, u, audio)
  BY <1>5, <1>6
<1> HIDE DEF u, audio
<1>8. /\ CacheIInv' /\ newTurns' \in Seq(TurnRecord)
      /\ \E t \in TurnRecord :
           /\ t.speaker = last'.speaker /\ t.stable = last'.stable
           /\ t.start = nextStart /\ t.end = u /\ t.audio = audio[1]
           /\ TurnAdded(t)
  BY <1>1, <1>2, <1>3, <1>7, EmbedAddsTurn
<1>9. PICK t \in TurnRecord :
        t.start = nextStart /\ t.end = nextStart + Win /\ t.audio = buf[1] /\ TurnAdded(t)
  BY <1>5, <1>8 DEF u, audio
<1>10. NoAudioBetweenRegions' /\ LoopFollowsRegion' /\ BufferEndsAtFrame'
  BY <1>2, PopKeepsAudio
<1>11. \A j \in DOMAIN AllTurns : AllTurns[j].start < nextStart
  BY <1>1 DEF TurnsBeforeBuffer
<1>12. TurnsInOrder'
  <2>1. t.start < t.end /\ t.end <= totalFrames * FrameSize
    BY <1>1, <1>3, <1>9
  <2> QED
    BY <1>1, <1>2, <1>9, <1>11, <2>1, AddedTurnIsInOrder
<1>13. /\ Len(AllTurns) \in Nat /\ DOMAIN AllTurns = 1 .. Len(AllTurns)
       /\ \A j \in DOMAIN AllTurns : AllTurns[j] \in TurnRecord
  BY <1>1, TurnsAreTurns
<1>14. \A j \in DOMAIN AllTurns' : j \in DOMAIN AllTurns \/ j = Len(AllTurns) + 1
  BY <1>9, <1>13 DEF TurnAdded
<1>15. TurnsBeforeBuffer'
  <2> SUFFICES ASSUME NEW j \in DOMAIN AllTurns' PROVE AllTurns'[j].start < nextStart'
    BY DEF TurnsBeforeBuffer
  <2>1. CASE j = Len(AllTurns) + 1
    <3>1. AllTurns'[j].start = nextStart
      BY <1>9, <2>1 DEF TurnAdded
    <3> QED
      BY <1>3, <1>4, <3>1
  <2>2. CASE j \in DOMAIN AllTurns
    <3>1. AllTurns'[j] = AllTurns[j] /\ AllTurns[j].start \in Nat
      BY <1>9, <1>13, <2>2 DEF TurnAdded, TurnRecord
    <3> QED
      BY <1>3, <1>4, <1>11, <2>2, <3>1
  <2> QED
    BY <1>14, <2>1, <2>2
<1>16. AudioInPlace'
  <2> SUFFICES ASSUME failures' = 0 PROVE AudioInPlace'
    BY DEF AudioInPlace
  <2>1. /\ heard = totalFrames * FrameSize + Len(vadBuffer)
        /\ \A i \in DOMAIN vadBuffer : vadBuffer[i] = totalFrames * FrameSize + i - 1
        /\ \A i \in DOMAIN buf : buf[i] = nextStart + i - 1
        /\ \A j \in DOMAIN AllTurns : AllTurns[j].audio = AllTurns[j].start
    BY <1>1, <1>2 DEF AudioInPlace
  <2>2. ASSUME NEW i \in DOMAIN buf' PROVE buf'[i] = nextStart' + i - 1
    <3>1. i \in 1 .. Len(buf) - hop
      BY <1>4, <2>2
    <3>3. hop + i \in DOMAIN buf
      BY <1>3, <3>1
    <3>2. buf'[i] = nextStart + (hop + i) - 1
      BY <1>4, <2>1, <3>1, <3>3
    <3> QED
      BY <1>3, <1>4, <3>1, <3>2
  <2>3. t.audio = t.start
    <3>1. 1 \in DOMAIN buf
      BY <1>3
    <3>2. buf[1] = nextStart
      <4>1. buf[1] = nextStart + 1 - 1
        BY <2>1, <3>1
      <4>2. nextStart + 1 - 1 = nextStart
        BY <1>3
      <4> QED
        BY <4>1, <4>2
    <3> QED
      BY <1>9, <3>2
  <2>4. \A j \in DOMAIN AllTurns' : AllTurns'[j].audio = AllTurns'[j].start
    BY <1>9, <1>14, <2>1, <2>3 DEF TurnAdded
  <2> QED
    BY <1>2, <2>1, <2>2, <2>4 DEF AudioInPlace
<1>17. TypeOK'
  <2>1. CacheTypeOK'
    BY <1>8 DEF CacheIInv
  <2> QED
    BY <1>1, <1>2, <1>4, <1>8, <2>1 DEF TypeOK
<1> QED
  BY <1>10, <1>12, <1>15, <1>16, <1>17 DEF AudioIInv

LEMMA EmbedWindowFailsKeepsAudio ==
  ASSUME StreamingAssumption, AudioIInv, CacheTypeOK', EmbedWindowFails
  PROVE  AudioIInv'
<1>1. TypeOK /\ TurnsInOrder /\ TurnsBeforeBuffer /\ tracker.inRegion /\ failures \in Nat
  BY DEF AudioIInv, EmbedWindowFails, LoopFollowsRegion, TypeOK
<1>2. UNCHANGED <<hop, vadBuffer, totalFrames, tracker, segEnd, turns, heard, track, flushes>>
      /\ pc = "windows" /\ HasWindow /\ Pop
      /\ failures' = failures + 1 /\ pc' = "idle" /\ outcome' = "err" /\ newTurns' = <<>>
  BY DEF EmbedWindowFails, Fail
<1>3. /\ buf' \in Seq(Nat) /\ nextStart' = nextStart + hop /\ nextStart' \in Nat
  BY <1>1, <1>2, PopMovesOn
<1>4. TurnsKept /\ turns' \in Seq(TurnRecord) /\ newTurns' \in Seq(TurnRecord)
  BY <1>1, <1>2, KeepsTurns
<1>5. NoAudioBetweenRegions' /\ LoopFollowsRegion' /\ BufferEndsAtFrame'
  BY <1>2, PopKeepsAudio
<1>6. nextStart \in Nat /\ hop \in Nat /\ totalFrames * FrameSize \in Nat
  BY <1>1, StreamFacts
<1>7. TurnsInOrder'
  BY <1>1, <1>2, <1>4, <1>6, KeptTurnsStayInOrder
<1>8. TurnsBeforeBuffer'
  <2> SUFFICES ASSUME NEW j \in DOMAIN AllTurns' PROVE AllTurns'[j].start < nextStart'
    BY DEF TurnsBeforeBuffer
  <2>1. j \in DOMAIN AllTurns /\ AllTurns'[j] = AllTurns[j]
    BY <1>4 DEF TurnsKept
  <2>2. AllTurns[j].start < nextStart /\ AllTurns[j].start \in Nat
    BY <1>1, <2>1, TurnsAreTurns DEF TurnsBeforeBuffer, TurnRecord
  <2> QED
    BY <1>3, <1>6, <2>1, <2>2
<1>9. AudioInPlace'
  BY <1>1, <1>2 DEF AudioInPlace
<1>10. TypeOK'
  BY <1>1, <1>2, <1>3, <1>4 DEF TypeOK
<1> QED
  BY <1>5, <1>7, <1>8, <1>9, <1>10 DEF AudioIInv

\* The last turn of a region ends after it starts and at the latest where the
\* region does.
LEMMA LastTurnEnds ==
  ASSUME StreamingAssumption, TypeOK, BufferEndsAtFrame, pc = "close", buf # <<>>
  PROVE  LastTurnEnd \in Nat /\ nextStart < LastTurnEnd /\ LastTurnEnd <= segEnd
<1>1. /\ Len(buf) \in Nat /\ Win \in Nat /\ nextStart \in Nat /\ segEnd \in Nat
      /\ nextStart + Len(buf) <= segEnd
  BY StreamFacts DEF BufferEndsAtFrame
<1>2. Len(buf) >= 1
  BY <1>1, EmptySeq DEF TypeOK
<1> DEFINE longest == Max({Len(buf), Win})
<1>3. longest \in Nat /\ longest >= Len(buf)
  <2>1. \E x \in {Len(buf), Win} : \A y \in {Len(buf), Win} : x >= y
    BY <1>1
  <2>2. longest \in {Len(buf), Win} /\ \A y \in {Len(buf), Win} : longest >= y
    BY <2>1 DEF Max
  <2> QED
    BY <1>1, <2>2
<1>4. LastTurnEnd = Min({segEnd, nextStart + longest})
  BY DEF LastTurnEnd
<1> HIDE DEF longest
<1>5. LastTurnEnd \in {segEnd, nextStart + longest} /\ LastTurnEnd <= segEnd
  <2> DEFINE full == nextStart + longest
  <2>1. full \in Nat
    BY <1>1, <1>3
  <2> HIDE DEF full
  <2>2. \E x \in {segEnd, full} : \A y \in {segEnd, full} : x <= y
    BY <1>1, <2>1
  <2>3. Min({segEnd, full}) \in {segEnd, full} /\ \A y \in {segEnd, full} : Min({segEnd, full}) <= y
    BY <2>2 DEF Min
  <2> QED
    BY <1>4, <2>3 DEF full
<1> QED
  BY <1>1, <1>2, <1>3, <1>5

LEMMA EmbedLastKeepsAudio ==
  ASSUME StreamingAssumption, SpeakerCacheAssumption, AudioIInv, CacheIInv, EmbedLast
  PROVE  AudioIInv'
<1>1. TypeOK /\ TurnsInOrder /\ TurnsBeforeBuffer /\ AudioInPlace /\ ~tracker.inRegion /\ BufferEndsAtFrame
      /\ segEnd <= totalFrames * FrameSize
  BY DEF AudioIInv, EmbedLast, LoopFollowsRegion, BufferEndsAtFrame
<1>2. UNCHANGED <<hop, vadBuffer, totalFrames, tracker, nextStart, segEnd, turns, outcome,
                  heard, track, flushes, failures>>
      /\ pc = "close" /\ buf # <<>> /\ buf' = <<>> /\ pc' = "frames"
  BY DEF EmbedLast
<1>3. nextStart \in Nat /\ segEnd \in Nat /\ totalFrames * FrameSize \in Nat /\ buf \in Seq(Nat)
  BY <1>1, StreamFacts DEF TypeOK
<1>4. LastTurnEnd \in Nat /\ nextStart < LastTurnEnd /\ LastTurnEnd <= segEnd
  BY <1>1, <1>2, LastTurnEnds
<1> DEFINE u == LastTurnEnd
<1>5. u \in Nat /\ Embed(nextStart, u, buf)
  BY <1>4 DEF EmbedLast
<1> HIDE DEF u
<1>6. /\ CacheIInv' /\ newTurns' \in Seq(TurnRecord)
      /\ \E t \in TurnRecord :
           /\ t.speaker = last'.speaker /\ t.stable = last'.stable
           /\ t.start = nextStart /\ t.end = u /\ t.audio = buf[1]
           /\ TurnAdded(t)
  BY <1>1, <1>2, <1>3, <1>5, EmbedAddsTurn
<1>7. PICK t \in TurnRecord :
        t.start = nextStart /\ t.end = LastTurnEnd /\ t.audio = buf[1] /\ TurnAdded(t)
  BY <1>6 DEF u
<1>8. NoAudioBetweenRegions' /\ LoopFollowsRegion' /\ BufferEndsAtFrame' /\ TurnsBeforeBuffer'
  BY <1>1, <1>2 DEF NoAudioBetweenRegions, LoopFollowsRegion, BufferEndsAtFrame, TurnsBeforeBuffer
<1>9. TurnsInOrder'
  <2>1. t.start < t.end /\ t.end <= totalFrames * FrameSize
    BY <1>1, <1>3, <1>4, <1>7
  <2>2. \A j \in DOMAIN AllTurns : AllTurns[j].start < t.start
    BY <1>1, <1>2, <1>7 DEF TurnsBeforeBuffer
  <2> QED
    BY <1>1, <1>2, <1>7, <2>1, <2>2, AddedTurnIsInOrder
<1>10. AudioInPlace'
  <2> SUFFICES ASSUME failures' = 0 PROVE AudioInPlace'
    BY DEF AudioInPlace
  <2>1. /\ heard = totalFrames * FrameSize + Len(vadBuffer)
        /\ \A i \in DOMAIN vadBuffer : vadBuffer[i] = totalFrames * FrameSize + i - 1
        /\ \A i \in DOMAIN buf : buf[i] = nextStart + i - 1
        /\ \A j \in DOMAIN AllTurns : AllTurns[j].audio = AllTurns[j].start
    BY <1>1, <1>2 DEF AudioInPlace
  <2>2. DOMAIN buf' = {}
    BY <1>2
  <2>3. t.audio = t.start
    <3>1. 1 \in DOMAIN buf
      BY <1>2, <1>3, LenProperties, EmptySeq
    <3>2. buf[1] = nextStart + 1 - 1 /\ nextStart + 1 - 1 = nextStart
      BY <1>3, <2>1, <3>1
    <3> QED
      BY <1>7, <3>2
  <2>4. \A j \in DOMAIN AllTurns' : j \in DOMAIN AllTurns \/ j = Len(AllTurns) + 1
    BY <1>1, <1>7, TurnsAreTurns DEF TurnAdded
  <2>5. \A j \in DOMAIN AllTurns' : AllTurns'[j].audio = AllTurns'[j].start
    BY <1>7, <2>1, <2>3, <2>4 DEF TurnAdded
  <2> QED
    BY <1>2, <2>1, <2>2, <2>5 DEF AudioInPlace
<1>11. TypeOK'
  <2>1. CacheTypeOK' /\ buf' \in Seq(Nat)
    BY <1>2, <1>6 DEF CacheIInv
  <2> QED
    BY <1>1, <1>2, <1>6, <2>1 DEF TypeOK
<1> QED
  BY <1>8, <1>9, <1>10, <1>11 DEF AudioIInv

LEMMA EmbedLastFailsKeepsAudio ==
  ASSUME StreamingAssumption, AudioIInv, CacheTypeOK', EmbedLastFails
  PROVE  AudioIInv'
<1>1. TypeOK /\ TurnsInOrder /\ ~tracker.inRegion /\ failures \in Nat
  BY DEF AudioIInv, EmbedLastFails, LoopFollowsRegion, TypeOK
<1>2. UNCHANGED <<hop, vadBuffer, totalFrames, tracker, nextStart, segEnd, turns, heard, track, flushes>>
      /\ buf' = <<>>
      /\ failures' = failures + 1 /\ pc' = "idle" /\ outcome' = "err" /\ newTurns' = <<>>
  BY DEF EmbedLastFails, Fail
<1>3. TurnsKept /\ turns' \in Seq(TurnRecord) /\ newTurns' \in Seq(TurnRecord)
  BY <1>1, <1>2, KeepsTurns
<1>4. NoAudioBetweenRegions' /\ LoopFollowsRegion' /\ BufferEndsAtFrame' /\ TurnsBeforeBuffer'
  BY <1>1, <1>2 DEF NoAudioBetweenRegions, LoopFollowsRegion, BufferEndsAtFrame, TurnsBeforeBuffer
<1>5. TurnsInOrder'
  <2>1. totalFrames * FrameSize \in Nat
    BY <1>1, StreamFacts
  <2> QED
    BY <1>1, <1>2, <1>3, <2>1, KeptTurnsStayInOrder
<1>6. AudioInPlace'
  BY <1>1, <1>2 DEF AudioInPlace
<1>7. TypeOK'
  <2>1. buf' \in Seq(Nat)
    BY <1>2
  <2> QED
    BY <1>1, <1>2, <1>3, <2>1 DEF TypeOK
<1> QED
  BY <1>4, <1>5, <1>6, <1>7 DEF AudioIInv

-----------------------------------------------------------------------------
(* The audio: frames.                                                      *)

\* A frame's region is open after it, closed by it, opened by it, or none.
LEMMA FrameCases ==
  ASSUME StreamingAssumption, TypeOK, NEW active \in BOOLEAN, ProcessFrame(active)
  PROVE  /\ TrackerAt(tracker', totalFrames + 1, MinOff)
         /\ \/ /\ tracker.inRegion /\ tracker'.inRegion /\ pc' = "windows"
               /\ buf' = buf \o Frame /\ nextStart' = nextStart /\ segEnd' = segEnd
            \/ /\ tracker.inRegion /\ ~tracker'.inRegion
               /\ segEnd' = (totalFrames + 1) * FrameSize /\ nextStart' = nextStart
               /\ (pc' = "close" /\ buf' = buf) \/ (pc' = "frames" /\ buf' = <<>>)
            \/ /\ ~tracker.inRegion /\ tracker'.inRegion /\ pc' = "windows"
               /\ buf' = Frame /\ nextStart' = totalFrames * FrameSize /\ segEnd' = segEnd
            \/ /\ ~tracker.inRegion /\ ~tracker'.inRegion /\ pc' = "frames"
               /\ buf' = buf /\ nextStart' = nextStart /\ segEnd' = segEnd
<1> DEFINE r == Advance(tracker, active, totalFrames, MinOff, "keep")
<1>1. tracker' = r.tracker /\ OnEvent(r.event, r.tracker.inRegion)
  BY DEF ProcessFrame
<1>2. totalFrames \in Nat /\ TrackerAt(tracker, totalFrames, MinOff)
  BY DEF TypeOK
<1>3. /\ TrackerAt(r.tracker, totalFrames + 1, MinOff)
      /\ \/ tracker.inRegion /\ r.tracker.inRegion /\ r.event = NoEvent
         \/ tracker.inRegion /\ ~r.tracker.inRegion /\ r.event = EndOf(tracker.start, totalFrames + 1)
         \/ ~tracker.inRegion /\ r.tracker.inRegion /\ r.event = StartOf(totalFrames)
         \/ ~tracker.inRegion /\ ~r.tracker.inRegion /\ r.event = NoEvent
  BY <1>2, AdvanceCases
<1> HIDE DEF r
<1>4. ASSUME NEW in, OnEvent(NoEvent, in) PROVE NoSpeechEvent(in)
  BY <1>4 DEF OnEvent, NoEvent
<1>5. ASSUME NEW in, OnEvent(EndOf(tracker.start, totalFrames + 1), in)
      PROVE  SpeechEnd(EndOf(tracker.start, totalFrames + 1))
  BY <1>5 DEF OnEvent, EndOf
<1>6. ASSUME NEW in, OnEvent(StartOf(totalFrames), in) PROVE SpeechStart(StartOf(totalFrames))
  BY <1>6 DEF OnEvent, StartOf
<1>7. CASE tracker.inRegion /\ r.tracker.inRegion /\ r.event = NoEvent
  BY <1>1, <1>3, <1>4, <1>7, Zenon DEF NoSpeechEvent
<1>8. CASE tracker.inRegion /\ ~r.tracker.inRegion /\ r.event = EndOf(tracker.start, totalFrames + 1)
  <2>1. SpeechEnd(EndOf(tracker.start, totalFrames + 1))
    BY <1>1, <1>5, <1>8
  <2>2. EndOf(tracker.start, totalFrames + 1).end = totalFrames + 1
    BY DEF EndOf
  <2>3. /\ segEnd' = (totalFrames + 1) * FrameSize /\ nextStart' = nextStart
        /\ (pc' = "close" /\ buf' = buf) \/ (pc' = "frames" /\ buf' = <<>>)
    <3> DEFINE kept == Kept(EndOf(tracker.start, totalFrames + 1))
    <3>1. /\ segEnd' = (totalFrames + 1) * FrameSize /\ nextStart' = nextStart
          /\ pc' = IF kept THEN "close" ELSE "frames"
          /\ buf' = IF kept THEN buf ELSE <<>>
      BY <2>1, <2>2 DEF SpeechEnd
    <3> HIDE DEF kept
    <3> QED
      BY <3>1
  <2> QED
    BY <1>1, <1>3, <1>8, <2>3
<1>9. CASE ~tracker.inRegion /\ r.tracker.inRegion /\ r.event = StartOf(totalFrames)
  <2>1. SpeechStart(StartOf(totalFrames)) /\ StartOf(totalFrames).start = totalFrames
    BY <1>1, <1>6, <1>9, Zenon DEF StartOf
  <2> QED
    BY <1>1, <1>3, <1>9, <2>1 DEF SpeechStart
<1>10. CASE ~tracker.inRegion /\ ~r.tracker.inRegion /\ r.event = NoEvent
  BY <1>1, <1>3, <1>4, <1>10 DEF NoSpeechEvent
<1> QED
  BY <1>3, <1>7, <1>8, <1>9, <1>10

LEMMA ProcessFrameKeepsAudio ==
  ASSUME StreamingAssumption, AudioIInv, CacheTypeOK', NEW active \in BOOLEAN, ProcessFrame(active)
  PROVE  AudioIInv'
<1> DEFINE P == totalFrames * FrameSize
           next == totalFrames + 1
<1>1. TypeOK /\ TurnsInOrder /\ TurnsBeforeBuffer /\ AudioInPlace /\ NoAudioBetweenRegions
      /\ (tracker.inRegion => nextStart + Len(buf) = P)
  BY DEF AudioIInv, BufferEndsAtFrame
<1>2. /\ UNCHANGED <<hop, turns, newTurns, outcome, heard, flushes, failures>>
      /\ pc = "frames" /\ HasFrame /\ vadBuffer' = RestOfBuffer /\ totalFrames' = next
      /\ track' = Append(track, active)
  BY DEF ProcessFrame
<1>3. /\ FrameSize \in Nat /\ FrameSize >= 1 /\ totalFrames \in Nat /\ P \in Nat
      /\ next * FrameSize = P + FrameSize
      /\ Len(buf) \in Nat /\ Len(vadBuffer) \in Nat /\ nextStart \in Nat /\ segEnd \in Nat
      /\ buf \in Seq(Nat) /\ DOMAIN buf = 1 .. Len(buf) /\ DOMAIN vadBuffer = 1 .. Len(vadBuffer)
      /\ Len(vadBuffer) >= FrameSize
  BY <1>1, <1>2, StreamFacts, Zenon DEF TypeOK, HasFrame
<1>4. /\ Frame \in Seq(Nat) /\ Len(Frame) = FrameSize /\ DOMAIN Frame = 1 .. FrameSize
      /\ \A i \in 1 .. FrameSize : Frame[i] = vadBuffer[i]
      /\ RestOfBuffer \in Seq(Nat) /\ Len(RestOfBuffer) = Len(vadBuffer) - FrameSize
      /\ DOMAIN RestOfBuffer = 1 .. Len(vadBuffer) - FrameSize
      /\ \A i \in 1 .. Len(vadBuffer) - FrameSize : RestOfBuffer[i] = vadBuffer[FrameSize + i]
  BY <1>1, <1>2, FrameRest
<1>5. TurnsKept /\ turns' \in Seq(TurnRecord) /\ newTurns' \in Seq(TurnRecord)
  BY <1>1, <1>2, KeepsTurns
<1>6. /\ TrackerAt(tracker', next, MinOff)
      /\ \/ /\ tracker.inRegion /\ tracker'.inRegion /\ pc' = "windows"
            /\ buf' = buf \o Frame /\ nextStart' = nextStart /\ segEnd' = segEnd
         \/ /\ tracker.inRegion /\ ~tracker'.inRegion
            /\ segEnd' = next * FrameSize /\ nextStart' = nextStart
            /\ (pc' = "close" /\ buf' = buf) \/ (pc' = "frames" /\ buf' = <<>>)
         \/ /\ ~tracker.inRegion /\ tracker'.inRegion /\ pc' = "windows"
            /\ buf' = Frame /\ nextStart' = P /\ segEnd' = segEnd
         \/ /\ ~tracker.inRegion /\ ~tracker'.inRegion /\ pc' = "frames"
            /\ buf' = buf /\ nextStart' = nextStart /\ segEnd' = segEnd
  BY <1>1, FrameCases
<1>8. totalFrames' * FrameSize = P + FrameSize
  BY <1>2, <1>3
<1> HIDE DEF P, next
<1>9. TurnsInOrder'
  BY <1>1, <1>3, <1>5, <1>8, KeptTurnsStayInOrder DEF P
<1>10. ASSUME NEW j \in DOMAIN AllTurns'
       PROVE  /\ j \in DOMAIN AllTurns /\ AllTurns'[j] = AllTurns[j]
              /\ AllTurns[j].start \in Nat /\ AllTurns[j].start < P
  <2>1. j \in DOMAIN AllTurns /\ AllTurns'[j] = AllTurns[j]
    BY <1>5 DEF TurnsKept
  <2>2. AllTurns[j].start < AllTurns[j].end /\ AllTurns[j].end <= P
    BY <1>1, <2>1 DEF TurnsInOrder, Range, P
  <2>3. AllTurns[j].start \in Nat /\ AllTurns[j].end \in Nat
    BY <1>1, <2>1, TurnsAreTurns, Zenon DEF TurnRecord
  <2> QED
    BY <1>3, <2>1, <2>2, <2>3
\* The samples of the frame, and those left.
<1>11. ASSUME failures' = 0
       PROVE  /\ failures = 0 /\ heard' = P + FrameSize + Len(vadBuffer')
              /\ \A i \in DOMAIN vadBuffer' : vadBuffer'[i] = P + FrameSize + i - 1
              /\ \A i \in 1 .. FrameSize : Frame[i] = P + i - 1
              /\ \A i \in DOMAIN buf : buf[i] = nextStart + i - 1
  <2>1. /\ failures = 0 /\ heard = P + Len(vadBuffer)
        /\ \A i \in DOMAIN vadBuffer : vadBuffer[i] = P + i - 1
        /\ \A i \in DOMAIN buf : buf[i] = nextStart + i - 1
    BY <1>1, <1>2, <1>11 DEF AudioInPlace, P
  <2>2. heard' = P + FrameSize + Len(vadBuffer')
    BY <1>2, <1>3, <1>4, <2>1
  <2>3. ASSUME NEW i \in DOMAIN vadBuffer' PROVE vadBuffer'[i] = P + FrameSize + i - 1
    <3>1. i \in 1 .. Len(vadBuffer) - FrameSize
      BY <1>2, <1>4, <2>3
    <3>2. FrameSize + i \in DOMAIN vadBuffer
      BY <1>3, <3>1
    <3>3. vadBuffer'[i] = P + (FrameSize + i) - 1
      BY <1>2, <1>4, <2>1, <3>1, <3>2, Zenon
    <3> QED
      BY <1>3, <3>1, <3>3
  <2>4. ASSUME NEW i \in 1 .. FrameSize PROVE Frame[i] = P + i - 1
    <3>1. i \in DOMAIN vadBuffer
      BY <1>3
    <3> QED
      BY <1>4, <2>1, <3>1, Zenon
  <2> QED
    BY <2>1, <2>2, <2>3, <2>4
<1>12. ASSUME buf' \in Seq(Nat), nextStart' \in Nat, segEnd' \in Nat,
              pc' \in {"frames", "windows", "close"},
              ~tracker'.inRegion /\ pc' = "frames" => buf' = <<>>,
              pc' = "windows" => tracker'.inRegion, pc' = "close" => ~tracker'.inRegion,
              tracker'.inRegion => nextStart' + Len(buf') = P + FrameSize,
              pc' = "close" => nextStart' + Len(buf') <= segEnd' /\ segEnd' <= P + FrameSize,
              tracker'.inRegion \/ pc' = "close" =>
                \A j \in DOMAIN AllTurns' : AllTurns'[j].start < nextStart',
              failures' = 0 => \A i \in DOMAIN buf' : buf'[i] = nextStart' + i - 1
       PROVE  AudioIInv'
  <2>1. NoAudioBetweenRegions'
    BY <1>12 DEF NoAudioBetweenRegions
  <2>2. LoopFollowsRegion'
    BY <1>12 DEF LoopFollowsRegion
  <2>3. BufferEndsAtFrame'
    BY <1>8, <1>12 DEF BufferEndsAtFrame
  <2>4. TurnsBeforeBuffer'
    BY <1>12 DEF TurnsBeforeBuffer
  <2>5. AudioInPlace'
    <3> SUFFICES ASSUME failures' = 0 PROVE AudioInPlace'
      BY DEF AudioInPlace
    <3>1. \A j \in DOMAIN AllTurns' : AllTurns'[j].audio = AllTurns'[j].start
      BY <1>1, <1>10, <1>11 DEF AudioInPlace
    <3> QED
      BY <1>8, <1>11, <1>12, <3>1 DEF AudioInPlace
  <2>6. track' \in Seq(BOOLEAN) /\ Len(track') = next
    <3>1. track \in Seq(BOOLEAN) /\ Len(track) = totalFrames
      BY <1>1 DEF TypeOK
    <3> QED
      BY <1>2, <3>1, AppendProperties DEF next
  <2>7. next \in Nat
    BY <1>3 DEF next
  <2>8. TypeOK'
    BY <1>1, <1>2, <1>4, <1>5, <1>6, <1>12, <2>6, <2>7 DEF TypeOK
  <2> QED
    BY <1>9, <2>1, <2>2, <2>3, <2>4, <2>5, <2>8 DEF AudioIInv
<1>13. CASE /\ tracker.inRegion /\ tracker'.inRegion /\ pc' = "windows"
            /\ buf' = buf \o Frame /\ nextStart' = nextStart /\ segEnd' = segEnd
  <2>1. /\ buf' \in Seq(Nat) /\ Len(buf') = Len(buf) + FrameSize /\ DOMAIN buf' = 1 .. Len(buf) + FrameSize
        /\ \A i \in 1 .. Len(buf) + FrameSize :
             buf'[i] = IF i <= Len(buf) THEN buf[i] ELSE Frame[i - Len(buf)]
    <3>1. /\ buf \o Frame \in Seq(Nat) /\ Len(buf \o Frame) = Len(buf) + Len(Frame)
          /\ \A i \in 1 .. Len(buf) + Len(Frame) :
               (buf \o Frame)[i] = IF i <= Len(buf) THEN buf[i] ELSE Frame[i - Len(buf)]
      <4>1. buf \in Seq(Nat) /\ Frame \in Seq(Nat)
        BY <1>3, <1>4
      <4> QED
        BY <4>1, ConcatProperties
    <3>2. DOMAIN (buf \o Frame) = 1 .. Len(buf \o Frame)
      BY <3>1, LenProperties
    <3> QED
      BY <1>4, <1>13, <3>1, <3>2
  <2>2. nextStart' + Len(buf') = P + FrameSize
    <3>1. nextStart + Len(buf) = P
      BY <1>1, <1>13
    <3>2. /\ nextStart \in Nat /\ Len(buf) \in Nat /\ FrameSize \in Nat /\ P \in Nat
          /\ nextStart' = nextStart /\ Len(buf') = Len(buf) + FrameSize
      BY <1>3, <1>13, <2>1
    <3> QED
      BY <3>1, <3>2
  <2>3. \A j \in DOMAIN AllTurns' : AllTurns'[j].start < nextStart'
    BY <1>1, <1>10, <1>13 DEF TurnsBeforeBuffer
  <2>4. ASSUME failures' = 0, NEW i \in DOMAIN buf' PROVE buf'[i] = nextStart' + i - 1
    <3>1. i \in 1 .. Len(buf) + FrameSize
      BY <2>1, <2>4
    <3>2. CASE i <= Len(buf)
      <4>1. i \in DOMAIN buf
        BY <1>3, <3>1, <3>2
      <4> QED
        BY <1>11, <1>13, <2>1, <2>4, <3>1, <3>2, <4>1
    <3>3. CASE ~(i <= Len(buf))
      <4>1. i - Len(buf) \in 1 .. FrameSize
        BY <1>3, <3>1, <3>3
      <4>2. buf'[i] = P + (i - Len(buf)) - 1
        BY <1>11, <2>1, <2>4, <3>1, <3>3, <4>1, Zenon
      <4>3. nextStart + Len(buf) = P
        BY <1>1, <1>13
      <4> QED
        BY <1>3, <1>13, <3>1, <4>2, <4>3
    <3> QED
      BY <3>2, <3>3
  <2>5. nextStart' \in Nat /\ segEnd' \in Nat
    BY <1>3, <1>13
  <2> QED
    BY <1>12, <1>13, <2>1, <2>2, <2>3, <2>4, <2>5, Zenon
<1>14. CASE /\ tracker.inRegion /\ ~tracker'.inRegion
            /\ segEnd' = next * FrameSize /\ nextStart' = nextStart
            /\ (pc' = "close" /\ buf' = buf) \/ (pc' = "frames" /\ buf' = <<>>)
  <2>1. nextStart + Len(buf) = P /\ segEnd' = P + FrameSize /\ segEnd' \in Nat
    BY <1>1, <1>3, <1>14
  <2>2. CASE pc' = "close" /\ buf' = buf
    <3>1. nextStart' + Len(buf') <= segEnd' /\ segEnd' <= P + FrameSize
      BY <1>3, <1>14, <2>1, <2>2
    <3>2. \A j \in DOMAIN AllTurns' : AllTurns'[j].start < nextStart'
      BY <1>1, <1>10, <1>14 DEF TurnsBeforeBuffer
    <3>3. buf' \in Seq(Nat) /\ nextStart' \in Nat
      BY <1>3, <1>14, <2>2
    <3>4. failures' = 0 => \A i \in DOMAIN buf' : buf'[i] = nextStart' + i - 1
      BY <1>11, <1>14, <2>2
    <3> QED
      BY <1>12, <1>14, <2>1, <2>2, <3>1, <3>2, <3>3, <3>4
  <2>3. CASE pc' = "frames" /\ buf' = <<>>
    <3>1. buf' \in Seq(Nat) /\ DOMAIN buf' = {} /\ nextStart' \in Nat
      BY <1>3, <1>14, <2>3
    <3> QED
      BY <1>12, <1>14, <2>1, <2>3, <3>1
  <2> QED
    BY <1>14, <2>2, <2>3
<1>15. CASE /\ ~tracker.inRegion /\ tracker'.inRegion /\ pc' = "windows"
            /\ buf' = Frame /\ nextStart' = P /\ segEnd' = segEnd
  <2>1. nextStart' + Len(buf') = P + FrameSize /\ buf' \in Seq(Nat) /\ nextStart' \in Nat /\ segEnd' \in Nat
    BY <1>3, <1>4, <1>15, Zenon
  <2>2. \A j \in DOMAIN AllTurns' : AllTurns'[j].start < nextStart'
    BY <1>10, <1>15
  <2>3. failures' = 0 => \A i \in DOMAIN buf' : buf'[i] = nextStart' + i - 1
    BY <1>4, <1>11, <1>15
  <2> QED
    BY <1>12, <1>15, <2>1, <2>2, <2>3
<1>16. CASE /\ ~tracker.inRegion /\ ~tracker'.inRegion /\ pc' = "frames"
            /\ buf' = buf /\ nextStart' = nextStart /\ segEnd' = segEnd
  <2>1. buf' = <<>> /\ buf' \in Seq(Nat) /\ DOMAIN buf' = {}
    <3>1. buf = <<>>
      BY <1>1, <1>2, <1>16 DEF NoAudioBetweenRegions
    <3>2. buf' = <<>>
      BY <1>16, <3>1
    <3> QED
      BY <3>2
  <2>2. nextStart' \in Nat /\ segEnd' \in Nat
    BY <1>3, <1>16
  <2> QED
    BY <1>12, <1>16, <2>1, <2>2
<1> QED
  BY <1>6, <1>13, <1>14, <1>15, <1>16

LEMMA FlushKeepsAudio ==
  ASSUME StreamingAssumption, AudioIInv, CacheTypeOK', FlushStream
  PROVE  AudioIInv'
<1> DEFINE P == totalFrames * FrameSize
           r == Flush(tracker, totalFrames, "keep")
<1>1. TypeOK /\ TurnsInOrder /\ TurnsBeforeBuffer /\ AudioInPlace /\ NoAudioBetweenRegions
      /\ (tracker.inRegion => nextStart + Len(buf) = P)
  BY DEF AudioIInv, BufferEndsAtFrame
<1>2. /\ UNCHANGED <<hop, totalFrames, turns, outcome, track, failures>>
      /\ pc = "idle" /\ vadBuffer' = <<>> /\ newTurns' = <<>> /\ heard' = P
      /\ flushes' = Append(flushes, totalFrames)
      /\ tracker' = r.tracker
      /\ IF r.event.kind = "end" THEN SpeechEnd(r.event)
         ELSE pc' = "frames" /\ UNCHANGED <<buf, nextStart, segEnd>>
  BY DEF FlushStream
<1>3. /\ totalFrames \in Nat /\ P \in Nat
      /\ Len(buf) \in Nat /\ nextStart \in Nat /\ segEnd \in Nat /\ buf \in Seq(Nat)
      /\ TrackerAt(tracker, totalFrames, MinOff)
  BY <1>1, StreamFacts DEF TypeOK
<1>4. /\ TrackerAt(r.tracker, totalFrames, MinOff) /\ ~r.tracker.inRegion
      /\ \/ tracker.inRegion /\ r.event = EndOf(tracker.start, totalFrames)
         \/ ~tracker.inRegion /\ r.event = NoEvent
  BY <1>3, FlushCases
<1> HIDE DEF r
<1>5. TurnsKept /\ turns' \in Seq(TurnRecord) /\ newTurns' \in Seq(TurnRecord)
  BY <1>1, <1>2, KeepsTurns
<1>6. TurnsInOrder'
  BY <1>1, <1>2, <1>3, <1>5, KeptTurnsStayInOrder
<1>7. flushes' \in Seq(Nat)
  BY <1>1, <1>2, <1>3, AppendProperties DEF TypeOK
<1>8. \/ /\ pc' = "close" /\ buf' = buf /\ segEnd' = P /\ nextStart' = nextStart /\ tracker.inRegion
      \/ /\ pc' = "frames" /\ buf' = <<>> /\ segEnd' \in Nat /\ nextStart' = nextStart
  <2>1. CASE tracker.inRegion /\ r.event = EndOf(tracker.start, totalFrames)
    <3> DEFINE e == EndOf(tracker.start, totalFrames)
               kept == Kept(e)
    <3>1. e.kind = "end" /\ e.end = totalFrames
      BY DEF EndOf
    <3>2. SpeechEnd(e)
      <4> HIDE DEF e
      <4> QED
        BY <1>2, <2>1, <3>1 DEF e
    <3>3. /\ segEnd' = P /\ nextStart' = nextStart
          /\ pc' = IF kept THEN "close" ELSE "frames"
          /\ buf' = IF kept THEN buf ELSE <<>>
      BY <3>1, <3>2 DEF SpeechEnd
    <3> HIDE DEF kept, P
    <3> QED
      BY <1>3, <2>1, <3>3
  <2>2. CASE ~tracker.inRegion /\ r.event = NoEvent
    <3>1. NoEvent.kind # "end"
      BY DEF NoEvent
    <3>2. pc' = "frames" /\ UNCHANGED <<buf, nextStart, segEnd>>
      BY <1>2, <2>2, <3>1
    <3>3. buf = <<>>
      BY <1>1, <1>2, <2>2 DEF NoAudioBetweenRegions
    <3> QED
      BY <1>3, <3>2, <3>3
  <2> QED
    BY <1>4, <2>1, <2>2
<1>9. ~tracker'.inRegion
  BY <1>2, <1>4
<1>10. NoAudioBetweenRegions' /\ LoopFollowsRegion'
  BY <1>8, <1>9 DEF NoAudioBetweenRegions, LoopFollowsRegion
<1>11. BufferEndsAtFrame'
  <2>1. pc' = "close" => nextStart' + Len(buf') <= segEnd' /\ segEnd' <= P
    BY <1>1, <1>3, <1>8
  <2> QED
    BY <1>2, <1>9, <2>1 DEF BufferEndsAtFrame
<1>12. TurnsBeforeBuffer'
  <2> SUFFICES ASSUME pc' = "close", NEW j \in DOMAIN AllTurns' PROVE AllTurns'[j].start < nextStart'
    BY <1>9 DEF TurnsBeforeBuffer
  <2>1. tracker.inRegion /\ nextStart' = nextStart
    BY <1>8
  <2> QED
    BY <1>1, <1>5, <2>1 DEF TurnsBeforeBuffer, TurnsKept
<1>13. AudioInPlace'
  <2> SUFFICES ASSUME failures' = 0 PROVE AudioInPlace'
    BY DEF AudioInPlace
  <2>1. /\ \A i \in DOMAIN buf : buf[i] = nextStart + i - 1
        /\ \A j \in DOMAIN AllTurns : AllTurns[j].audio = AllTurns[j].start
    BY <1>1, <1>2 DEF AudioInPlace
  <2>2. heard' = P + Len(vadBuffer') /\ DOMAIN vadBuffer' = {}
    BY <1>2, <1>3
  <2>3. \A i \in DOMAIN buf' : buf'[i] = nextStart' + i - 1
    BY <1>8, <2>1
  <2>4. \A j \in DOMAIN AllTurns' : AllTurns'[j].audio = AllTurns'[j].start
    BY <1>5, <2>1 DEF TurnsKept
  <2> QED
    BY <1>2, <2>2, <2>3, <2>4 DEF AudioInPlace
<1>14. TypeOK'
  <2>1. vadBuffer' \in Seq(Nat) /\ buf' \in Seq(Nat) /\ nextStart' \in Nat /\ segEnd' \in Nat /\ heard' \in Nat
        /\ pc' \in {"idle", "frames", "windows", "close"} /\ TrackerAt(tracker', totalFrames, MinOff)
    <3>1. vadBuffer' \in Seq(Nat) /\ heard' \in Nat /\ TrackerAt(tracker', totalFrames, MinOff)
      BY <1>2, <1>3, <1>4
    <3>2. CASE pc' = "close" /\ buf' = buf /\ segEnd' = P /\ nextStart' = nextStart
      <4> HIDE DEF P
      <4> QED
        BY <1>3, <3>1, <3>2
    <3>3. CASE pc' = "frames" /\ buf' = <<>> /\ segEnd' \in Nat /\ nextStart' = nextStart
      <4>1. buf' \in Seq(Nat)
        BY <3>3
      <4> QED
        BY <1>3, <3>1, <3>3, <4>1
    <3> QED
      BY <1>8, <3>2, <3>3
  <2> QED
    BY <1>1, <1>2, <1>5, <1>7, <2>1 DEF TypeOK
<1> QED
  BY <1>6, <1>10, <1>11, <1>12, <1>13, <1>14 DEF AudioIInv

-----------------------------------------------------------------------------
(* The labels.  A turn is one hit of its speaker.                          *)

LEMMA KeptTurnsKeepLabels ==
  ASSUME TypeOK, CacheTypeOK, TurnsKept, UNCHANGED entries, LabelsFollowHits, LabelsSettle
  PROVE  LabelsFollowHits' /\ LabelsSettle'
<1>1. /\ Len(AllTurns) \in Nat /\ DOMAIN AllTurns = 1 .. Len(AllTurns)
      /\ \A j \in DOMAIN AllTurns : AllTurns[j] \in TurnRecord
  BY TurnsAreTurns
<1>2. Len(AllTurns') \in Nat /\ DOMAIN AllTurns' = 1 .. Len(AllTurns')
  BY LenProperties DEF TurnsKept
<1>3. \A j \in DOMAIN AllTurns' : j \in DOMAIN AllTurns /\ AllTurns'[j] = AllTurns[j]
  BY DEF TurnsKept
<1>4. \A j \in DOMAIN AllTurns' : \E i \in DOMAIN entries' :
        entries'[i].id = AllTurns'[j].speaker /\ (AllTurns'[j].stable => entries'[i].stable)
  BY <1>3 DEF LabelsFollowHits
<1>5. ASSUME NEW i \in DOMAIN entries'
      PROVE  /\ Cardinality({j \in DOMAIN AllTurns' : AllTurns'[j].speaker = entries'[i].id}) <= entries'[i].hits
             /\ entries'[i].hits >= MinHits => entries'[i].stable
  <2> DEFINE old == TurnsOf(entries[i].id)
             new == {j \in DOMAIN AllTurns' : AllTurns'[j].speaker = entries'[i].id}
  <2>1. new \subseteq old
    BY <1>3 DEF TurnsOf
  <2>2. IsFiniteSet(old)
    <3>1. old \subseteq 1 .. Len(AllTurns) /\ IsFiniteSet(1 .. Len(AllTurns))
      BY <1>1, FS_Interval DEF TurnsOf
    <3> QED
      BY <3>1, FS_Subset
  <2>3. Cardinality(new) <= Cardinality(old) /\ Cardinality(new) \in Nat /\ Cardinality(old) \in Nat
    <3> HIDE DEF old, new
    <3> QED
      BY <2>1, <2>2, FS_Subset, FS_CardinalityType
  <2>4. Cardinality(old) <= entries[i].hits /\ (entries[i].hits >= MinHits => entries[i].stable)
    BY DEF LabelsFollowHits
  <2>5. entries[i].hits \in Nat
    BY EntriesAreEntries DEF Entry
  <2> HIDE DEF old
  <2> QED
    BY <2>3, <2>4, <2>5
<1>6. LabelsFollowHits'
  BY <1>4, <1>5 DEF LabelsFollowHits, TurnsOf
<1>7. ASSUME NEW j \in DOMAIN AllTurns'
      PROVE  LET before == {i \in 1 .. j : AllTurns'[i].speaker = AllTurns'[j].speaker} IN
               /\ \A i \in before : AllTurns'[i].stable => AllTurns'[j].stable
               /\ Cardinality(before) >= MinHits => AllTurns'[j].stable
  <2> DEFINE now == {i \in 1 .. j : AllTurns'[i].speaker = AllTurns'[j].speaker}
             was == {i \in 1 .. j : AllTurns[i].speaker = AllTurns[j].speaker}
  <2>1. j \in DOMAIN AllTurns /\ j \in Nat /\ \A i \in 1 .. j : AllTurns'[i] = AllTurns[i]
    BY <1>2, <1>3
  <2>2. now = was
    BY <2>1
  <2>3. /\ \A i \in was : AllTurns[i].stable => AllTurns[j].stable
        /\ Cardinality(was) >= MinHits => AllTurns[j].stable
    BY <2>1 DEF LabelsSettle
  <2>4. \A i \in was : i \in 1 .. j
    OBVIOUS
  <2> HIDE DEF was, now
  <2>5. /\ \A i \in now : AllTurns'[i].stable => AllTurns'[j].stable
        /\ Cardinality(now) >= MinHits => AllTurns'[j].stable
    BY <1>2, <1>3, <2>1, <2>2, <2>3, <2>4
  <2> QED
    BY <2>5 DEF now
<1>8. LabelsSettle'
  BY <1>7 DEF LabelsSettle
<1> QED
  BY <1>6, <1>8

\* A turn is added with its speaker's entry e, the others stay.
LEMMA AddedTurnKeepsLabels ==
  ASSUME SpeakerCacheAssumption, TypeOK, CacheTypeOK, LabelsFollowHits, LabelsSettle,
         NEW t, TurnAdded(t), NEW k \in DOMAIN entries', CacheTypeOK',
         t.speaker = entries'[k].id, t.stable = entries'[k].stable,
         \A i, j \in DOMAIN entries' : entries'[i].id = entries'[j].id => i = j,
         DOMAIN entries \subseteq DOMAIN entries',
         \A i \in DOMAIN entries : i # k => entries'[i] = entries[i],
         \A i \in DOMAIN entries' : i # k => i \in DOMAIN entries,
         entries'[k].hits >= MinHits => entries'[k].stable,
         \/ /\ k \in DOMAIN entries /\ entries[k].id = entries'[k].id
            /\ entries'[k].hits = entries[k].hits + 1
            /\ entries[k].stable => entries'[k].stable
         \/ /\ k \notin DOMAIN entries /\ entries'[k].hits = 1
  PROVE  LabelsFollowHits' /\ LabelsSettle'
<1> DEFINE n == Len(AllTurns)
           m == n + 1
           was == TurnsOf(t.speaker)
<1>1. /\ n \in Nat /\ DOMAIN AllTurns = 1 .. n
      /\ \A j \in DOMAIN AllTurns : AllTurns[j] \in TurnRecord
  BY TurnsAreTurns
<1>2. /\ DOMAIN AllTurns' = 1 .. m /\ AllTurns'[m] = t /\ m \in DOMAIN AllTurns'
      /\ \A j \in DOMAIN AllTurns : AllTurns'[j] = AllTurns[j]
  BY <1>1 DEF TurnAdded
<1>3. \A j \in DOMAIN AllTurns' : (j \in DOMAIN AllTurns /\ j # m) \/ (j = m /\ j \notin DOMAIN AllTurns)
  BY <1>1, <1>2
<1> HIDE DEF n
<1>4. /\ \A i \in DOMAIN entries : entries[i] \in Entry
      /\ \A i \in DOMAIN entries' : entries'[i] \in Entry
  <2>1. entries' \in Seq(Entry)
    BY DEF CacheTypeOK
  <2> QED
    BY <2>1, EntriesAreEntries, LenProperties
\* The speaker's turns so far, no more than its hits so far.
<1>5. /\ IsFiniteSet(was) /\ was \subseteq 1 .. n
  <2>1. was \subseteq 1 .. n /\ IsFiniteSet(1 .. n)
    BY <1>1, FS_Interval DEF TurnsOf
  <2> QED
    BY <2>1, FS_Subset, Zenon
<1>6. Cardinality(was) \in Nat
  BY <1>5, FS_CardinalityType
<1>7. Cardinality(was) + 1 <= entries'[k].hits
  <2>1. CASE k \in DOMAIN entries /\ entries[k].id = entries'[k].id /\ entries'[k].hits = entries[k].hits + 1
    <3>1. Cardinality(was) <= entries[k].hits /\ entries[k].hits \in Nat
      BY <1>4, <2>1 DEF LabelsFollowHits, Entry
    <3> QED
      BY <1>6, <2>1, <3>1
  <2>2. CASE k \notin DOMAIN entries /\ entries'[k].hits = 1
    <3>1. ASSUME NEW j \in was PROVE FALSE
      <4>1. j \in DOMAIN AllTurns /\ AllTurns[j].speaker = entries'[k].id
        BY <3>1 DEF TurnsOf
      <4>2. PICK i \in DOMAIN entries : entries[i].id = AllTurns[j].speaker
        BY <4>1 DEF LabelsFollowHits
      <4>3. i # k /\ i \in DOMAIN entries' /\ entries'[i] = entries[i]
        BY <2>2, <4>2
      <4> QED
        BY <4>1, <4>2, <4>3
    <3>2. was = {}
      BY <3>1
    <3>3. Cardinality(was) = 0
      BY <3>2, FS_EmptySet
    <3> QED
      BY <2>2, <3>3
  <2> QED
    BY <2>1, <2>2
<1>8. TurnsOf(t.speaker)' = was \cup {m}
  <2>1. \A j \in DOMAIN AllTurns' :
          AllTurns'[j].speaker = t.speaker <=> (j \in DOMAIN AllTurns /\ AllTurns[j].speaker = t.speaker) \/ j = m
    BY <1>2, <1>3
  <2>2. \A j \in DOMAIN AllTurns : j \in DOMAIN AllTurns'
    BY <1>1, <1>2
  <2>3. TurnsOf(t.speaker)' = {j \in DOMAIN AllTurns' : AllTurns'[j].speaker = t.speaker}
    BY DEF TurnsOf
  <2>4. was = {j \in DOMAIN AllTurns : AllTurns[j].speaker = t.speaker}
    BY DEF TurnsOf
  <2> HIDE DEF was
  <2> QED
    BY <1>2, <2>1, <2>2, <2>3, <2>4
<1>9. m \notin was
  BY <1>1, <1>5
<1>10. Cardinality(was \cup {m}) = Cardinality(was) + 1
  <2> HIDE DEF was, m
  <2> QED
    BY <1>5, <1>9, FS_AddElement, Zenon
<1>11. \A j \in DOMAIN AllTurns' : \E i \in DOMAIN entries' :
         entries'[i].id = AllTurns'[j].speaker /\ (AllTurns'[j].stable => entries'[i].stable)
  <2> SUFFICES ASSUME NEW j \in DOMAIN AllTurns'
               PROVE  \E i \in DOMAIN entries' :
                        entries'[i].id = AllTurns'[j].speaker /\ (AllTurns'[j].stable => entries'[i].stable)
    OBVIOUS
  <2>1. CASE j = m
    BY <1>2, <2>1
  <2>2. CASE j \in DOMAIN AllTurns
    <3>1. PICK i \in DOMAIN entries :
            entries[i].id = AllTurns[j].speaker /\ (AllTurns[j].stable => entries[i].stable)
      BY <2>2 DEF LabelsFollowHits
    <3>2. i \in DOMAIN entries' /\ entries'[i].id = entries[i].id /\ (entries[i].stable => entries'[i].stable)
      BY <3>1
    <3>3. AllTurns'[j] = AllTurns[j]
      BY <1>2, <2>2
    <3> QED
      BY <3>1, <3>2, <3>3
  <2> QED
    BY <1>3, <2>1, <2>2
<1>12. ASSUME NEW i \in DOMAIN entries'
       PROVE  /\ Cardinality({j \in DOMAIN AllTurns' : AllTurns'[j].speaker = entries'[i].id}) <= entries'[i].hits
              /\ entries'[i].hits >= MinHits => entries'[i].stable
  <2>1. CASE i = k
    <3>1. TurnsOf(t.speaker)' = {j \in DOMAIN AllTurns' : AllTurns'[j].speaker = entries'[i].id}
      BY <2>1 DEF TurnsOf
    <3>2. Cardinality(TurnsOf(t.speaker)') = Cardinality(was) + 1
      BY <1>8, <1>10
    <3>3. Cardinality(was) + 1 <= entries'[k].hits
      BY <1>7
    <3>4. Cardinality(TurnsOf(t.speaker)') <= entries'[k].hits
      BY <3>2, <3>3
    <3> QED
      BY <2>1, <3>1, <3>4
  <2>2. CASE i # k
    <3>1. i \in DOMAIN entries /\ entries'[i] = entries[i] /\ entries'[i].id # t.speaker
      BY <2>2
    <3>2. {j \in DOMAIN AllTurns' : AllTurns'[j].speaker = entries'[i].id} = TurnsOf(entries[i].id)
      <4>1. \A j \in DOMAIN AllTurns' :
              AllTurns'[j].speaker = entries[i].id <=>
                j \in DOMAIN AllTurns /\ AllTurns[j].speaker = entries[i].id
        BY <1>2, <1>3, <3>1
      <4>2. \A j \in DOMAIN AllTurns : j \in DOMAIN AllTurns'
        BY <1>1, <1>2
      <4>3. TurnsOf(entries[i].id) = {j \in DOMAIN AllTurns : AllTurns[j].speaker = entries[i].id}
        BY DEF TurnsOf
      <4> QED
        BY <3>1, <4>1, <4>2, <4>3
    <3>3. /\ Cardinality(TurnsOf(entries[i].id)) <= entries[i].hits
          /\ entries[i].hits >= MinHits => entries[i].stable
      BY <3>1 DEF LabelsFollowHits
    <3> QED
      BY <3>1, <3>2, <3>3, Zenon
  <2> QED
    BY <2>1, <2>2
<1>13. LabelsFollowHits'
  BY <1>11, <1>12 DEF LabelsFollowHits, TurnsOf
<1>14. ASSUME NEW j \in DOMAIN AllTurns'
       PROVE  LET before == {i \in 1 .. j : AllTurns'[i].speaker = AllTurns'[j].speaker} IN
                /\ \A i \in before : AllTurns'[i].stable => AllTurns'[j].stable
                /\ Cardinality(before) >= MinHits => AllTurns'[j].stable
  <2> DEFINE now == {i \in 1 .. j : AllTurns'[i].speaker = AllTurns'[j].speaker}
  <2>1. CASE j \in DOMAIN AllTurns
    <3> DEFINE then == {i \in 1 .. j : AllTurns[i].speaker = AllTurns[j].speaker}
    <3>1. j \in Nat /\ \A i \in 1 .. j : i \in DOMAIN AllTurns /\ AllTurns'[i] = AllTurns[i]
      BY <1>1, <1>2, <2>1
    <3>2. now = then /\ AllTurns'[j] = AllTurns[j]
      BY <1>2, <2>1, <3>1
    <3>3. /\ \A i \in then : AllTurns[i].stable => AllTurns[j].stable
          /\ Cardinality(then) >= MinHits => AllTurns[j].stable
      BY <2>1 DEF LabelsSettle
    <3>4. \A i \in then : i \in 1 .. j
      OBVIOUS
    <3> HIDE DEF then, now
    <3>5. /\ \A i \in now : AllTurns'[i].stable => AllTurns'[j].stable
          /\ Cardinality(now) >= MinHits => AllTurns'[j].stable
      BY <3>1, <3>2, <3>3, <3>4
    <3> QED
      BY <3>5 DEF now
  <2>2. CASE j = m
    <3>1. now = TurnsOf(t.speaker)'
      <4>1. TurnsOf(t.speaker)' = {i \in DOMAIN AllTurns' : AllTurns'[i].speaker = t.speaker}
        BY DEF TurnsOf
      <4> HIDE DEF m
      <4> QED
        BY <1>2, <2>2, <4>1
    <3>2. ASSUME NEW i \in now, AllTurns'[i].stable PROVE AllTurns'[j].stable
      <4>1. i \in DOMAIN AllTurns' /\ AllTurns'[i].speaker = t.speaker
        BY <1>2, <2>2, <3>2
      <4>2. PICK c \in DOMAIN entries' : entries'[c].id = t.speaker /\ entries'[c].stable
        BY <1>11, <3>2, <4>1
      <4>3. c = k
        BY <4>2
      <4> QED
        BY <1>2, <2>2, <4>2, <4>3
    <3>3. ASSUME Cardinality(now) >= MinHits PROVE AllTurns'[j].stable
      <4>1. Cardinality(now) = Cardinality(was) + 1
        BY <1>8, <1>10, <3>1, Zenon
      <4>2. entries'[k].hits \in Nat /\ MinHits \in Nat
        BY <1>4, CapIsPositive DEF Entry
      <4> HIDE DEF now, was
      <4>3. entries'[k].hits >= MinHits
        BY <1>6, <1>7, <3>3, <4>1, <4>2
      <4> QED
        BY <1>2, <2>2, <4>3
    <3> QED
      BY <3>2, <3>3
  <2> QED
    BY <1>3, <2>1, <2>2
<1>15. LabelsSettle'
  BY <1>14 DEF LabelsSettle
<1> QED
  BY <1>13, <1>15

\* The entry of the speaker an assignment gives.
LEMMA EmbedKeepsLabels ==
  ASSUME SpeakerCacheAssumption, TypeOK, CacheIInv, LabelsFollowHits, LabelsSettle,
         NEW sims \in AnyEmbedding, Assign(sims),
         NEW t, TurnAdded(t), t.speaker = last'.speaker, t.stable = last'.stable
  PROVE  LabelsFollowHits' /\ LabelsSettle'
<1>1. /\ CacheTypeOK /\ CacheTypeOK'
      /\ \A i, j \in DOMAIN entries' : entries'[i].id = entries'[j].id => i = j
  BY AssignInv DEF CacheIInv, ResidentsWellFormed
<1>2. entries \in Seq(Entry) /\ Len(entries) \in Nat /\ DOMAIN entries = 1 .. Len(entries)
      /\ \A i \in DOMAIN entries : entries[i] \in Entry
  BY <1>1, EntriesAreEntries DEF CacheTypeOK
<1>3. ASSUME NEW e \in Entry, e.id = nextId, e.hits = 1, e.stable = IsStable(1),
             entries' = Append(entries, e), last'.speaker = e.id, last'.stable = e.stable
      PROVE  LabelsFollowHits' /\ LabelsSettle'
  <2> DEFINE k == Len(entries) + 1
  <2>1. /\ DOMAIN entries' = 1 .. k /\ entries'[k] = e
        /\ \A i \in DOMAIN entries : entries'[i] = entries[i]
    BY <1>2, <1>3, AppendProperties
  <2>2. /\ k \in DOMAIN entries' /\ k \notin DOMAIN entries /\ DOMAIN entries \subseteq DOMAIN entries'
        /\ \A i \in DOMAIN entries' : i # k => i \in DOMAIN entries
    BY <1>2, <2>1
  <2> HIDE DEF k
  <2>3. entries'[k].hits >= MinHits => entries'[k].stable
    BY <1>3, <2>1, Zenon DEF IsStable
  <2>4. entries'[k].hits = 1 /\ t.speaker = entries'[k].id /\ t.stable = entries'[k].stable
    BY <1>3, <2>1
  <2>5. \A i \in DOMAIN entries : i # k => entries'[i] = entries[i]
    BY <2>1
  <2> QED
    BY <1>1, <2>2, <2>3, <2>4, <2>5, AddedTurnKeepsLabels
<1>4. ASSUME NEW c \in DOMAIN entries, NEW e \in Entry,
             e.id = entries[c].id, e.hits = entries[c].hits + 1,
             e.stable = (entries[c].stable \/ IsStable(e.hits)),
             entries' = [entries EXCEPT ![c] = e], last'.speaker = e.id, last'.stable = e.stable
      PROVE  LabelsFollowHits' /\ LabelsSettle'
  <2>1. /\ DOMAIN entries' = DOMAIN entries /\ entries'[c] = e
        /\ \A i \in DOMAIN entries : i # c => entries'[i] = entries[i]
    BY <1>2, <1>4, ExceptSeq
  <2>2. (entries[c].stable => e.stable) /\ (e.hits >= MinHits => e.stable)
    BY <1>4, Zenon DEF IsStable
  <2>3. /\ t.speaker = entries'[c].id /\ t.stable = entries'[c].stable
        /\ entries[c].id = entries'[c].id /\ entries'[c].hits = entries[c].hits + 1
        /\ (entries[c].stable => entries'[c].stable)
        /\ (entries'[c].hits >= MinHits => entries'[c].stable)
    BY <1>4, <2>1, <2>2
  <2>4. /\ c \in DOMAIN entries' /\ DOMAIN entries \subseteq DOMAIN entries'
        /\ \A i \in DOMAIN entries' : i # c => i \in DOMAIN entries
    BY <2>1
  <2> QED
    BY <1>1, <2>1, <2>3, <2>4, AddedTurnKeepsLabels
<1>5. CASE \E e \in Entry :
             /\ e.id = nextId /\ e.hits = 1 /\ e.stable = IsStable(1)
             /\ entries' = Append(entries, e)
             /\ last'.speaker = e.id /\ last'.stable = e.stable
  BY <1>3, <1>5
<1>6. CASE \E c \in DOMAIN entries : \E e \in Entry :
             /\ e.id = entries[c].id /\ e.hits = entries[c].hits + 1
             /\ e.stable = (entries[c].stable \/ IsStable(e.hits))
             /\ entries' = [entries EXCEPT ![c] = e]
             /\ last'.speaker = e.id /\ last'.stable = e.stable
  BY <1>4, <1>6, Zenon
<1> QED
  BY <1>5, <1>6, AssignAnswers

-----------------------------------------------------------------------------
(* The inductive invariant of the stream.                                  *)
StreamIInv == AudioIInv /\ LabelIInv

LEMMA StreamInitInv == ASSUME StreamingAssumption, SpeakerCacheAssumption, Init PROVE StreamIInv
<1>1. CacheIInv /\ CacheTypeOK /\ entries = <<>> /\ DOMAIN entries = {}
  BY CacheInitInv DEF Init, CacheIInv, CacheInit
<1>2. AllTurns = <<>> /\ Len(AllTurns) = 0 /\ DOMAIN AllTurns = {}
  <2>1. turns = <<>> /\ newTurns = <<>>
    BY DEF Init
  <2> QED
    BY <2>1 DEF AllTurns
<1>3. TrackerAt(tracker, totalFrames, MinOff)
  BY DEF Init, NewTracker, TrackerAt, Trackers
<1>4. TypeOK
  BY <1>1, <1>3 DEF Init, TypeOK
<1>5. TurnsInOrder /\ TurnsBeforeBuffer
  BY <1>2 DEF TurnsInOrder, TurnsBeforeBuffer, Range
<1>6. NoAudioBetweenRegions /\ LoopFollowsRegion /\ BufferEndsAtFrame
  BY DEF Init, NewTracker, NoAudioBetweenRegions, LoopFollowsRegion, BufferEndsAtFrame
<1>7. AudioInPlace
  <2>1. heard = 0 /\ totalFrames = 0 /\ vadBuffer = <<>> /\ buf = <<>>
    BY DEF Init
  <2>2. heard = totalFrames * FrameSize + Len(vadBuffer) /\ DOMAIN vadBuffer = {} /\ DOMAIN buf = {}
    BY <2>1 DEF StreamingAssumption
  <2> QED
    BY <1>2, <2>2 DEF AudioInPlace
<1>8. LabelsFollowHits /\ LabelsSettle
  BY <1>1, <1>2 DEF LabelsFollowHits, LabelsSettle
<1> QED
  BY <1>1, <1>4, <1>5, <1>6, <1>7, <1>8 DEF StreamIInv, AudioIInv, LabelIInv

\* The steps that embed no window leave the cache alone.
LEMMA NoEmbeddingKeepsLabels ==
  ASSUME SpeakerCacheAssumption, TypeOK, LabelIInv, UNCHANGED cacheVars,
         \/ turns' = turns /\ (newTurns' = newTurns \/ newTurns' = <<>>)
         \/ turns' = turns \o newTurns /\ newTurns' = <<>>
  PROVE  LabelIInv' /\ CacheTypeOK'
<1>1. TurnsKept
  BY KeepsTurns
<1>2. CacheIInv'
  BY CacheNextInv DEF LabelIInv
<1>3. entries' = entries
  BY DEF cacheVars
<1>4. CacheTypeOK /\ LabelsFollowHits /\ LabelsSettle
  BY DEF LabelIInv, CacheIInv
<1>5. LabelsFollowHits' /\ LabelsSettle'
  BY <1>1, <1>3, <1>4, KeptTurnsKeepLabels
<1> QED
  BY <1>2, <1>5 DEF LabelIInv, CacheIInv

LEMMA EmbeddingKeepsLabels ==
  ASSUME StreamingAssumption, SpeakerCacheAssumption, AudioIInv, LabelIInv, EmbedWindow \/ EmbedLast
  PROVE  LabelIInv'
<1>1. TypeOK /\ CacheIInv /\ LabelsFollowHits /\ LabelsSettle
  BY DEF AudioIInv, LabelIInv
<1>2. PICK start \in Nat, end \in Nat, audio \in Seq(Nat) :
        audio # <<>> /\ Embed(start, end, audio) /\ turns' = turns
  <2>1. CASE EmbedWindow
    <3>1. /\ Len(buf) \in Nat /\ Len(buf) >= Win /\ Win \in Nat /\ Win >= 1 /\ nextStart \in Nat
          /\ buf \in Seq(Nat)
      BY <1>1, <2>1, StreamFacts DEF EmbedWindow, HasWindow, TypeOK
    <3>2. Window \in Seq(Nat) /\ Len(Window) = Win
      BY <3>1, SubSeqProperties DEF Window
    <3>3. Window # <<>>
      BY <3>1, <3>2
    <3>4. Embed(nextStart, nextStart + Win, Window) /\ turns' = turns
      BY <2>1 DEF EmbedWindow
    <3>5. nextStart + Win \in Nat
      BY <3>1
    <3> QED
      BY <3>1, <3>2, <3>3, <3>4, <3>5
  <2>2. CASE EmbedLast
    <3>1. nextStart \in Nat /\ buf \in Seq(Nat)
      BY <1>1 DEF TypeOK
    <3>2. LastTurnEnd \in Nat
      BY <1>1, <2>2, LastTurnEnds DEF EmbedLast, AudioIInv
    <3>3. buf # <<>> /\ Embed(nextStart, LastTurnEnd, buf) /\ turns' = turns
      BY <2>2 DEF EmbedLast
    <3> QED
      BY <3>1, <3>2, <3>3
  <2> QED
    BY <2>1, <2>2
<1>3. PICK sims \in AnyEmbedding : Assign(sims)
  BY <1>2 DEF Embed
<1>4. CacheIInv' /\ \E t \in TurnRecord : t.speaker = last'.speaker /\ t.stable = last'.stable /\ TurnAdded(t)
  BY <1>1, <1>2, EmbedAddsTurn
<1>5. PICK t \in TurnRecord : t.speaker = last'.speaker /\ t.stable = last'.stable /\ TurnAdded(t)
  BY <1>4
<1>6. LabelsFollowHits' /\ LabelsSettle'
  BY <1>1, <1>3, <1>5, EmbedKeepsLabels
<1> QED
  BY <1>4, <1>6 DEF LabelIInv

LEMMA StreamNextInv ==
  ASSUME StreamingAssumption, SpeakerCacheAssumption, StreamIInv, [Next]_vars
  PROVE  StreamIInv'
<1>1. AudioIInv /\ LabelIInv /\ TypeOK /\ CacheIInv
  BY DEF StreamIInv, AudioIInv, LabelIInv
<1>2. CASE EmbedWindow
  BY <1>1, <1>2, EmbedWindowKeepsAudio, EmbeddingKeepsLabels DEF StreamIInv
<1>3. CASE EmbedLast
  BY <1>1, <1>3, EmbedLastKeepsAudio, EmbeddingKeepsLabels DEF StreamIInv
<1>4. CASE (\E n \in ChunkSizes : FeedTooLong(n)) \/ WindowsDone \/ NothingLeft \/ ReturnTurns
  <2>1. /\ UNCHANGED cacheVars
        /\ \/ turns' = turns /\ (newTurns' = newTurns \/ newTurns' = <<>>)
           \/ turns' = turns \o newTurns /\ newTurns' = <<>>
    BY <1>4 DEF FeedTooLong, WindowsDone, NothingLeft, ReturnTurns
  <2> QED
    BY <1>1, <1>4, <2>1, NoEmbeddingKeepsLabels, QuietSteps DEF StreamIInv
<1>5. ASSUME NEW n \in ChunkSizes, Feed(n) PROVE StreamIInv'
  <2>1. UNCHANGED cacheVars /\ turns' = turns /\ newTurns' = <<>>
    BY <1>5 DEF Feed
  <2> QED
    BY <1>1, <1>5, <2>1, NoEmbeddingKeepsLabels, FeedKeepsAudio DEF StreamIInv
<1>6. CASE FrameFails
  <2>1. UNCHANGED cacheVars /\ turns' = turns /\ newTurns' = <<>>
    BY <1>6 DEF FrameFails, Fail
  <2> QED
    BY <1>1, <1>6, <2>1, NoEmbeddingKeepsLabels, FrameFailsKeepsAudio DEF StreamIInv
<1>7. ASSUME NEW active \in BOOLEAN, ProcessFrame(active) PROVE StreamIInv'
  <2>1. UNCHANGED cacheVars /\ turns' = turns /\ newTurns' = newTurns
    BY <1>7 DEF ProcessFrame
  <2> QED
    BY <1>1, <1>7, <2>1, NoEmbeddingKeepsLabels, ProcessFrameKeepsAudio DEF StreamIInv
<1>8. CASE EmbedWindowFails
  <2>1. UNCHANGED cacheVars /\ turns' = turns /\ newTurns' = <<>>
    BY <1>8 DEF EmbedWindowFails, Fail
  <2> QED
    BY <1>1, <1>8, <2>1, NoEmbeddingKeepsLabels, EmbedWindowFailsKeepsAudio DEF StreamIInv
<1>9. CASE EmbedLastFails
  <2>1. UNCHANGED cacheVars /\ turns' = turns /\ newTurns' = <<>>
    BY <1>9 DEF EmbedLastFails, Fail
  <2> QED
    BY <1>1, <1>9, <2>1, NoEmbeddingKeepsLabels, EmbedLastFailsKeepsAudio DEF StreamIInv
<1>10. CASE FlushStream
  <2>1. UNCHANGED cacheVars /\ turns' = turns /\ newTurns' = <<>>
    BY <1>10 DEF FlushStream
  <2> QED
    BY <1>1, <1>10, <2>1, NoEmbeddingKeepsLabels, FlushKeepsAudio DEF StreamIInv
<1>11. CASE UNCHANGED vars
  <2>1. UNCHANGED <<hop, pc, vadBuffer, totalFrames, tracker, buf, nextStart, segEnd,
                    turns, newTurns, outcome, heard, track, flushes, failures>>
        /\ UNCHANGED cacheVars
    BY <1>11 DEF vars, streamVars
  <2>2. LabelIInv' /\ CacheTypeOK'
    BY <1>1, <2>1, NoEmbeddingKeepsLabels
  <2>3. AllTurns' = AllTurns
    BY <2>1 DEF AllTurns
  <2>4. TypeOK'
    BY <1>1, <2>1, <2>2 DEF TypeOK
  <2>5. NoAudioBetweenRegions' /\ LoopFollowsRegion' /\ BufferEndsAtFrame'
    BY <1>1, <2>1 DEF AudioIInv, NoAudioBetweenRegions, LoopFollowsRegion, BufferEndsAtFrame
  <2>6. TurnsBeforeBuffer' /\ TurnsInOrder'
    BY <1>1, <2>1, <2>3 DEF AudioIInv, TurnsBeforeBuffer, TurnsInOrder
  <2>7. AudioInPlace'
    BY <1>1, <2>1, <2>3 DEF AudioIInv, AudioInPlace
  <2> QED
    BY <2>2, <2>4, <2>5, <2>6, <2>7 DEF StreamIInv, AudioIInv
<1> QED
  BY <1>2, <1>3, <1>4, <1>5, <1>6, <1>7, <1>8, <1>9, <1>10, <1>11 DEF Next

-----------------------------------------------------------------------------
(* The latency.  The code asks for 0 < hop <= window only; with a hop       *)
(* shorter than a frame an encoder error may leave a full window waiting.   *)
HopsCoverAFrame == \A h \in Hops : FrameSize <= h

LEMMA StreamInitLatency ==
  ASSUME StreamingAssumption, SpeakerCacheAssumption, Init PROVE LatencyBound /\ NoFullWindowWaits
<1>1. buf = <<>> /\ pc = "idle" /\ outcome = "none" /\ Len(buf) = 0
  BY DEF Init
<1>2. Win \in Nat /\ Win >= 1
  BY StreamInitInv, StreamFacts DEF StreamIInv, AudioIInv
<1> QED
  BY <1>1, <1>2 DEF LatencyBound, NoFullWindowWaits

LEMMA StreamNextLatency ==
  ASSUME StreamingAssumption, HopsCoverAFrame, TypeOK, NoFullWindowWaits, LatencyBound, [Next]_vars
  PROVE  NoFullWindowWaits' /\ LatencyBound'
<1>1. /\ FrameSize \in Nat /\ FrameSize >= 1 /\ Win \in Nat /\ hop \in Nat /\ hop >= 1 /\ hop <= Win
      /\ Len(buf) \in Nat /\ Len(vadBuffer) \in Nat /\ FrameSize <= hop
  BY StreamFacts DEF HopsCoverAFrame, TypeOK
<1>2. (pc # "windows" => Len(buf) < Win) /\ (pc = "windows" => Len(buf) < Win + FrameSize)
  BY DEF NoFullWindowWaits
<1>3. ASSUME NoFullWindowWaits', pc' = "idle" /\ outcome' = "ok" => Len(vadBuffer') < FrameSize
      PROVE  NoFullWindowWaits' /\ LatencyBound'
  BY <1>3 DEF NoFullWindowWaits, LatencyBound
\* The steps after which the buffer is as it was, or empty.
<1>4. ASSUME buf' = buf \/ buf' = <<>>, pc # "windows" \/ Len(buf) < Win
      PROVE  NoFullWindowWaits'
  <2>1. Len(buf) < Win
    BY <1>2, <1>4
  <2>2. buf' = <<>> => Len(buf') = 0
    OBVIOUS
  <2>3. Len(buf') < Win /\ Len(buf') \in Nat
    BY <1>1, <1>4, <2>1, <2>2
  <2>4. Len(buf') < Win + FrameSize
    BY <1>1, <2>3
  <2> QED
    BY <2>3, <2>4 DEF NoFullWindowWaits
<1>5. CASE \/ \E n \in ChunkSizes : Feed(n) \/ FeedTooLong(n)
           \/ FrameFails \/ WindowsDone \/ EmbedLast \/ EmbedLastFails \/ NothingLeft
  <2>1. (buf' = buf \/ buf' = <<>>) /\ (pc # "windows" \/ Len(buf) < Win)
    BY <1>1, <1>5 DEF Feed, FeedTooLong, FrameFails, WindowsDone, EmbedLast, EmbedLastFails, NothingLeft,
                      HasWindow
  <2>2. ~(pc' = "idle" /\ outcome' = "ok")
    BY <1>5 DEF Feed, FeedTooLong, FrameFails, WindowsDone, EmbedLast, EmbedLastFails, NothingLeft, Fail
  <2> QED
    BY <1>3, <1>4, <2>1, <2>2
<1>6. CASE ReturnTurns
  <2>1. buf' = buf /\ pc # "windows" /\ vadBuffer' = vadBuffer /\ Len(vadBuffer) < FrameSize
    BY <1>1, <1>6 DEF ReturnTurns, HasFrame
  <2> QED
    BY <1>3, <1>4, <2>1
<1>7. CASE FlushStream
  <2>1. pc = "idle" /\ vadBuffer' = <<>>
    BY <1>7 DEF FlushStream
  <2>2. buf' = buf \/ buf' = <<>>
    BY <1>7 DEF FlushStream, SpeechEnd
  <2>3. Len(vadBuffer') < FrameSize
    BY <1>1, <2>1
  <2> QED
    BY <1>3, <1>4, <2>1, <2>2, <2>3
<1>8. CASE EmbedWindow \/ EmbedWindowFails
  <2>1. pc = "windows" /\ HasWindow /\ Pop /\ ~(pc' = "idle" /\ outcome' = "ok")
    BY <1>8 DEF EmbedWindow, EmbedWindowFails, Fail
  <2>2. Len(buf') = Len(buf) - hop
    BY <2>1, PopMovesOn
  <2>3. Len(buf') < Win /\ Len(buf') < Win + FrameSize
    BY <1>1, <1>2, <2>1, <2>2 DEF HasWindow
  <2> QED
    BY <1>3, <2>1, <2>3 DEF NoFullWindowWaits
<1>9. ASSUME NEW active \in BOOLEAN, ProcessFrame(active) PROVE NoFullWindowWaits' /\ LatencyBound'
  <2>1. pc = "frames" /\ HasFrame /\ Len(buf) < Win
    BY <1>2, <1>9 DEF ProcessFrame
  <2>2. Frame \in Seq(Nat) /\ Len(Frame) = FrameSize /\ buf \in Seq(Nat)
    BY <2>1, FrameRest DEF TypeOK
  <2>3. Len(buf \o Frame) = Len(buf) + FrameSize
    BY <2>2, ConcatProperties, Zenon
  <2>4. \/ pc' = "windows" /\ (buf' = buf \o Frame \/ buf' = Frame)
        \/ pc' \in {"close", "frames"} /\ (buf' = buf \/ buf' = <<>>)
    BY <1>9, FrameCases
  <2>5. CASE pc' = "windows" /\ (buf' = buf \o Frame \/ buf' = Frame)
    <3>1. Len(buf') < Win + FrameSize
      BY <1>1, <2>1, <2>2, <2>3, <2>5
    <3> QED
      BY <1>3, <2>5, <3>1 DEF NoFullWindowWaits
  <2>6. CASE pc' \in {"close", "frames"} /\ (buf' = buf \/ buf' = <<>>)
    BY <1>3, <1>4, <2>1, <2>6
  <2> QED
    BY <2>4, <2>5, <2>6
<1>10. CASE UNCHANGED vars
  <2>1. buf' = buf /\ pc' = pc /\ outcome' = outcome /\ vadBuffer' = vadBuffer
    BY <1>10 DEF vars, streamVars
  <2> QED
    BY <2>1 DEF NoFullWindowWaits, LatencyBound
<1> QED
  BY <1>5, <1>6, <1>7, <1>8, <1>9, <1>10 DEF Next

-----------------------------------------------------------------------------
(* segment_speech: the segments are the regions of the whole track.        *)

(* The operators of the instances are those of Hysteresis.                 *)
LEMMA BatchSame ==
  /\ \A m : Batch!Gap(m) = Gap(m)
  /\ \A n : Batch!Trackers(n) = Trackers(n)
  /\ \A i, j, A, C, m : Batch!Together(i, j, A, C, m) <=> Together(i, j, A, C, m)
  /\ \A A, C, m : Batch!RegionStarts(A, C, m) = RegionStarts(A, C, m)
  /\ \A s, A, C, m : Batch!LastFrame(s, A, C, m) = LastFrame(s, A, C, m)
  /\ \A s, A, C, n, m, t : Batch!RegionEnd(s, A, C, n, m, t) = RegionEnd(s, A, C, n, m, t)
  /\ \A A, C, n, m, t : Batch!Regions(A, C, n, m, t) = Regions(A, C, n, m, t)
  /\ \A tr, A, C, n, m, t, f : Batch!Closed(tr, A, C, n, m, t, f) = Closed(tr, A, C, n, m, t, f)
  /\ \A S, A, C, m, f : Batch!NoReach(S, A, C, m, f) <=> NoReach(S, A, C, m, f)
  /\ \A s, x, A, C, m, f : Batch!OpenAt(s, x, A, C, m, f) <=> OpenAt(s, x, A, C, m, f)
  /\ \A tr, f, m : Batch!TrackerAt(tr, f, m) <=> TrackerAt(tr, f, m)
  /\ \A tr, A, C, m, f : Batch!Tracks(tr, A, C, m, f) <=> Tracks(tr, A, C, m, f)
  /\ \A tr, v : Batch!Result(tr, v) = Result(tr, v)
  /\ \A tr, v : Batch!Close(tr, v) = Close(tr, v)
  /\ \A tr, a, f, m, t : Batch!Advance(tr, a, f, m, t) = Advance(tr, a, f, m, t)
  /\ \A tr, f, t : Batch!Flush(tr, f, t) = Flush(tr, f, t)
  /\ \A tr : Batch!Reset(tr) = Reset(tr)
  /\ \A s, v : Batch!EndOf(s, v) = EndOf(s, v)
<1>1. \A m : Batch!Gap(m) = Gap(m)
  BY  DEF Batch!Gap, Gap, Batch!Max, Max
<1>2. \A n : Batch!Trackers(n) = Trackers(n)
  BY  DEF Batch!Trackers, Trackers
<1>3. \A i, j, A, C, m : Batch!Together(i, j, A, C, m) <=> Together(i, j, A, C, m)
  BY <1>1 DEF Batch!Together, Together
<1>4. \A A, C, m : Batch!RegionStarts(A, C, m) = RegionStarts(A, C, m)
  BY <1>3 DEF Batch!RegionStarts, RegionStarts
<1>5. \A s, A, C, m : Batch!LastFrame(s, A, C, m) = LastFrame(s, A, C, m)
  BY <1>3 DEF Batch!LastFrame, LastFrame, Batch!Max, Max
<1>m. \A S : Batch!Min(S) = Min(S)
  BY DEF Batch!Min, Min
<1>6. \A s, A, C, n, m, t : Batch!RegionEnd(s, A, C, n, m, t) = RegionEnd(s, A, C, n, m, t)
  BY <1>5, <1>1, <1>m DEF Batch!RegionEnd, RegionEnd
<1>7. \A A, C, n, m, t : Batch!Regions(A, C, n, m, t) = Regions(A, C, n, m, t)
  BY <1>4, <1>6 DEF Batch!Regions, Regions
<1>8. \A tr, A, C, n, m, t, f : Batch!Closed(tr, A, C, n, m, t, f) = Closed(tr, A, C, n, m, t, f)
  BY <1>4, <1>6 DEF Batch!Closed, Closed
<1>9. \A S, A, C, m, f : Batch!NoReach(S, A, C, m, f) <=> NoReach(S, A, C, m, f)
  BY <1>3 DEF Batch!NoReach, NoReach
<1>10. \A s, x, A, C, m, f : Batch!OpenAt(s, x, A, C, m, f) <=> OpenAt(s, x, A, C, m, f)
  BY <1>4, <1>3, <1>1 DEF Batch!OpenAt, OpenAt
<1>11. \A tr, f, m : Batch!TrackerAt(tr, f, m) <=> TrackerAt(tr, f, m)
  BY <1>2, <1>1 DEF Batch!TrackerAt, TrackerAt
<1>12. \A tr, A, C, m, f : Batch!Tracks(tr, A, C, m, f) <=> Tracks(tr, A, C, m, f)
  BY <1>11, <1>10, <1>9 DEF Batch!Tracks, Tracks
<1>13. \A s, v : Batch!EndOf(s, v) = EndOf(s, v)
  BY  DEF Batch!EndOf, EndOf
<1>14. \A tr, v : Batch!Result(tr, v) = Result(tr, v)
  BY  DEF Batch!Result, Result
<1>15. \A tr, v : Batch!Close(tr, v) = Close(tr, v)
  BY <1>14, <1>13 DEF Batch!Close, Close
<1>16. \A tr, a, f, m, t : Batch!Advance(tr, a, f, m, t) = Advance(tr, a, f, m, t)
  BY <1>14, <1>15 DEF Batch!Advance, Advance, Batch!NoEvent, NoEvent, Batch!StartOf, StartOf
<1>17. \A tr, f, t : Batch!Flush(tr, f, t) = Flush(tr, f, t)
  BY <1>14, <1>15 DEF Batch!Flush, Flush, Batch!NoEvent, NoEvent
<1>18. \A tr : Batch!Reset(tr) = Reset(tr)
  BY <1>14, <1>15 DEF Batch!Reset, Reset, Batch!NoEvent, NoEvent
<1> QED
  BY <1>1, <1>2, <1>3, <1>4, <1>5, <1>6, <1>7, <1>8, <1>9, <1>10, <1>11, <1>12, <1>13, <1>14, <1>15, <1>16, <1>17, <1>18

LEMMA BinSame ==
  /\ \A m : Bin!Gap(m) = Gap(m)
  /\ \A n : Bin!Trackers(n) = Trackers(n)
  /\ \A i, j, A, C, m : Bin!Together(i, j, A, C, m) <=> Together(i, j, A, C, m)
  /\ \A A, C, m : Bin!RegionStarts(A, C, m) = RegionStarts(A, C, m)
  /\ \A s, A, C, m : Bin!LastFrame(s, A, C, m) = LastFrame(s, A, C, m)
  /\ \A s, A, C, n, m, t : Bin!RegionEnd(s, A, C, n, m, t) = RegionEnd(s, A, C, n, m, t)
  /\ \A A, C, n, m, t : Bin!Regions(A, C, n, m, t) = Regions(A, C, n, m, t)
  /\ \A tr, A, C, n, m, t, f : Bin!Closed(tr, A, C, n, m, t, f) = Closed(tr, A, C, n, m, t, f)
  /\ \A S, A, C, m, f : Bin!NoReach(S, A, C, m, f) <=> NoReach(S, A, C, m, f)
  /\ \A s, x, A, C, m, f : Bin!OpenAt(s, x, A, C, m, f) <=> OpenAt(s, x, A, C, m, f)
  /\ \A tr, f, m : Bin!TrackerAt(tr, f, m) <=> TrackerAt(tr, f, m)
  /\ \A tr, A, C, m, f : Bin!Tracks(tr, A, C, m, f) <=> Tracks(tr, A, C, m, f)
  /\ \A tr, v : Bin!Result(tr, v) = Result(tr, v)
  /\ \A tr, v : Bin!Close(tr, v) = Close(tr, v)
  /\ \A tr, a, f, m, t : Bin!Advance(tr, a, f, m, t) = Advance(tr, a, f, m, t)
  /\ \A tr, f, t : Bin!Flush(tr, f, t) = Flush(tr, f, t)
  /\ \A tr : Bin!Reset(tr) = Reset(tr)
  /\ \A s, v : Bin!EndOf(s, v) = EndOf(s, v)
<1>1. \A m : Bin!Gap(m) = Gap(m)
  BY  DEF Bin!Gap, Gap, Bin!Max, Max
<1>2. \A n : Bin!Trackers(n) = Trackers(n)
  BY  DEF Bin!Trackers, Trackers
<1>3. \A i, j, A, C, m : Bin!Together(i, j, A, C, m) <=> Together(i, j, A, C, m)
  BY <1>1 DEF Bin!Together, Together
<1>4. \A A, C, m : Bin!RegionStarts(A, C, m) = RegionStarts(A, C, m)
  BY <1>3 DEF Bin!RegionStarts, RegionStarts
<1>5. \A s, A, C, m : Bin!LastFrame(s, A, C, m) = LastFrame(s, A, C, m)
  BY <1>3 DEF Bin!LastFrame, LastFrame, Bin!Max, Max
<1>m. \A S : Bin!Min(S) = Min(S)
  BY DEF Bin!Min, Min
<1>6. \A s, A, C, n, m, t : Bin!RegionEnd(s, A, C, n, m, t) = RegionEnd(s, A, C, n, m, t)
  BY <1>5, <1>1, <1>m DEF Bin!RegionEnd, RegionEnd
<1>7. \A A, C, n, m, t : Bin!Regions(A, C, n, m, t) = Regions(A, C, n, m, t)
  BY <1>4, <1>6 DEF Bin!Regions, Regions
<1>8. \A tr, A, C, n, m, t, f : Bin!Closed(tr, A, C, n, m, t, f) = Closed(tr, A, C, n, m, t, f)
  BY <1>4, <1>6 DEF Bin!Closed, Closed
<1>9. \A S, A, C, m, f : Bin!NoReach(S, A, C, m, f) <=> NoReach(S, A, C, m, f)
  BY <1>3 DEF Bin!NoReach, NoReach
<1>10. \A s, x, A, C, m, f : Bin!OpenAt(s, x, A, C, m, f) <=> OpenAt(s, x, A, C, m, f)
  BY <1>4, <1>3, <1>1 DEF Bin!OpenAt, OpenAt
<1>11. \A tr, f, m : Bin!TrackerAt(tr, f, m) <=> TrackerAt(tr, f, m)
  BY <1>2, <1>1 DEF Bin!TrackerAt, TrackerAt
<1>12. \A tr, A, C, m, f : Bin!Tracks(tr, A, C, m, f) <=> Tracks(tr, A, C, m, f)
  BY <1>11, <1>10, <1>9 DEF Bin!Tracks, Tracks
<1>13. \A s, v : Bin!EndOf(s, v) = EndOf(s, v)
  BY  DEF Bin!EndOf, EndOf
<1>14. \A tr, v : Bin!Result(tr, v) = Result(tr, v)
  BY  DEF Bin!Result, Result
<1>15. \A tr, v : Bin!Close(tr, v) = Close(tr, v)
  BY <1>14, <1>13 DEF Bin!Close, Close
<1>16. \A tr, a, f, m, t : Bin!Advance(tr, a, f, m, t) = Advance(tr, a, f, m, t)
  BY <1>14, <1>15 DEF Bin!Advance, Advance, Bin!NoEvent, NoEvent, Bin!StartOf, StartOf
<1>17. \A tr, f, t : Bin!Flush(tr, f, t) = Flush(tr, f, t)
  BY <1>14, <1>15 DEF Bin!Flush, Flush, Bin!NoEvent, NoEvent
<1>18. \A tr : Bin!Reset(tr) = Reset(tr)
  BY <1>14, <1>15 DEF Bin!Reset, Reset, Bin!NoEvent, NoEvent
<1> QED
  BY <1>1, <1>2, <1>3, <1>4, <1>5, <1>6, <1>7, <1>8, <1>9, <1>10, <1>11, <1>12, <1>13, <1>14, <1>15, <1>16, <1>17, <1>18

LEMMA SmallIsWhole == ASSUME NEW d \in Nat, NEW u \in Nat, d < u PROVE d % u = d
OBVIOUS

(* Segments that come in order, and end by e.                              *)
InOrderBy(segs, e) ==
  /\ \A i \in 1 .. Len(segs) : segs[i][1] < segs[i][2] /\ segs[i][2] <= e
  /\ \A i \in 1 .. (Len(segs) - 1) : segs[i][2] <= segs[i + 1][1]

(* Segments that are the kept ones of the regions given.                   *)
KeptOf(segs, regions, e) ==
  segs \in Seq(Nat \X Nat) /\ Batch!Range(segs) = Batch!LongEnough(regions) /\ InOrderBy(segs, e)

(* A kept region goes to the end of the list, a short one nowhere.         *)
LEMMA CollectKeeps ==
  ASSUME Batch!SpeechRegionsAssumption, NEW segs, NEW K, NEW s \in Nat, NEW e \in Nat,
         s < e, e <= MaxFrames, KeptOf(segs, K, s)
  PROVE  KeptOf(Batch!Collected(segs, EndOf(s, e)), K \cup {<<s, e>>}, e)
<1> DEFINE after == Batch!Collected(segs, EndOf(s, e))
<1>c. after = IF Batch!Kept(EndOf(s, e)) THEN Append(segs, <<EndOf(s, e).start, EndOf(s, e).end>>) ELSE segs
  BY DEF Batch!Collected
<1> SUFFICES /\ after \in Seq(Nat \X Nat) /\ Batch!Range(after) = Batch!LongEnough(K \cup {<<s, e>>})
             /\ InOrderBy(after, e)
  BY DEF KeptOf
<1> segs \in Seq(Nat \X Nat) /\ Batch!Range(segs) = Batch!LongEnough(K) /\ InOrderBy(segs, s)
  BY DEF KeptOf
<1> HIDE DEF after
<1>1. EndOf(s, e).kind = "end" /\ EndOf(s, e).start = s /\ EndOf(s, e).end = e
  BY DEF EndOf
<1>2. Batch!Kept(EndOf(s, e)) <=> e - s >= MinOn
  <2>1. Usize \in Nat /\ e - s \in Nat /\ e - s < Usize
    BY DEF Batch!SpeechRegionsAssumption
  <2>2. (e - s) % Usize = e - s
    BY <2>1, SmallIsWhole, Zenon
  <2> QED
    BY <1>1, <2>2 DEF Batch!Kept, Batch!Keeps
<1>0. /\ \A i \in 1 .. Len(segs) : segs[i][1] < segs[i][2] /\ segs[i][2] <= s
      /\ \A i \in 1 .. (Len(segs) - 1) : segs[i][2] <= segs[i + 1][1]
  BY DEF InOrderBy
<1>3. <<s, e>>[1] = s /\ <<s, e>>[2] = e /\ <<s, e>> \in Nat \X Nat
  OBVIOUS
<1>e. \A i \in 1 .. Len(segs) : segs[i] \in Nat \X Nat /\ segs[i][1] \in Nat /\ segs[i][2] \in Nat /\ segs[i][2] <= e
  <2> TAKE i \in 1 .. Len(segs)
  <2>1. segs[i] \in Nat \X Nat
    OBVIOUS
  <2>2. segs[i][1] \in Nat /\ segs[i][2] \in Nat
    BY <2>1, Zenon
  <2> QED
    BY <2>1, <2>2, <1>0
<1>4. CASE e - s >= MinOn
  <2> DEFINE x == <<s, e>>
  <2>1. x[1] = s /\ x[2] = e /\ x \in Nat \X Nat
    BY <1>3
  <2>2. after = Append(segs, x)
    BY <1>1, <1>2, <1>4, <1>c
  <2> HIDE DEF x
  <2>3. /\ after \in Seq(Nat \X Nat) /\ Len(after) = Len(segs) + 1
        /\ \A i \in 1 .. Len(segs) : after[i] = segs[i]
        /\ after[Len(segs) + 1] = x
    BY <2>1, <2>2
  <2>n. Len(segs) \in Nat
    OBVIOUS
  <2>4. Batch!Range(after) = Batch!Range(segs) \cup {x}
    <3>1. DOMAIN after = 1 .. Len(segs) + 1 /\ DOMAIN segs = 1 .. Len(segs)
      BY <2>3
    <3>2. 1 .. Len(segs) + 1 = (1 .. Len(segs)) \cup {Len(segs) + 1}
      BY <2>n
    <3>3. \A y : y \in Batch!Range(after) <=> \E i \in 1 .. Len(segs) + 1 : y = after[i]
      BY <3>1, Zenon DEF Batch!Range
    <3>4. \A y : y \in Batch!Range(segs) <=> \E i \in 1 .. Len(segs) : y = segs[i]
      BY <3>1, Zenon DEF Batch!Range
    <3>5. ASSUME NEW y PROVE y \in Batch!Range(after) <=> y \in Batch!Range(segs) \/ y = x
      <4>1. ASSUME NEW i \in 1 .. Len(segs) + 1, y = after[i] PROVE y \in Batch!Range(segs) \/ y = x
        BY <4>1, <3>2, <3>4, <2>3, Zenon
      <4>2. ASSUME NEW i \in 1 .. Len(segs), y = segs[i] PROVE y \in Batch!Range(after)
        <5>1. i \in 1 .. Len(segs) + 1 /\ after[i] = y
          BY <4>2, <3>2, <2>3
        <5> QED
          BY <5>1, <3>3
      <4>3. Len(segs) + 1 \in 1 .. Len(segs) + 1
        BY <2>n
      <4>4. x \in Batch!Range(after)
        BY <4>3, <3>3, <2>3, Zenon
      <4> QED
        BY <4>1, <4>2, <4>4, <3>3, <3>4
    <3> QED
      BY <3>5
  <2>5. Batch!LongEnough(K \cup {x}) = Batch!LongEnough(K) \cup {x}
    BY <2>1, <1>4 DEF Batch!LongEnough
  <2>6. \A i \in 1 .. Len(after) : after[i][1] < after[i][2] /\ after[i][2] <= e
    <3> TAKE i \in 1 .. Len(after)
    <3>1. CASE i \in 1 .. Len(segs)
      BY <3>1, <2>3, <1>e, <1>0, Zenon
    <3>2. CASE i = Len(segs) + 1
      BY <3>2, <2>1, <2>3
    <3>3. i \in 1 .. Len(segs) \/ i = Len(segs) + 1
      BY <2>3, <2>n
    <3> QED
      BY <3>1, <3>2, <3>3
  <2>7. \A i \in 1 .. (Len(after) - 1) : after[i][2] <= after[i + 1][1]
    <3> TAKE i \in 1 .. (Len(after) - 1)
    <3>0. i \in 1 .. Len(segs)
      BY <2>3, <2>n
    <3>1. CASE i + 1 \in 1 .. Len(segs)
      <4>1. i \in 1 .. (Len(segs) - 1)
        BY <3>0, <3>1, <2>n
      <4> QED
        BY <3>0, <3>1, <4>1, <2>3, <1>0, Zenon
    <3>2. CASE i + 1 = Len(segs) + 1
      BY <3>0, <3>2, <2>1, <2>3, <1>0, Zenon
    <3> QED
      BY <3>0, <3>1, <3>2, <2>n
  <2> QED
    BY <2>3, <2>4, <2>5, <2>6, <2>7, Zenon DEF x, InOrderBy
<1>5. CASE ~(e - s >= MinOn)
  <2>1. after = segs
    BY <1>2, <1>5, <1>c
  <2>2. Batch!LongEnough(K \cup {<<s, e>>}) = Batch!LongEnough(K)
    BY <1>3, <1>5 DEF Batch!LongEnough
  <2> QED
    BY <2>1, <2>2, <1>0, <1>e DEF InOrderBy
<1> QED
  BY <1>4, <1>5

LEMMA FramesAre ==
  ASSUME Batch!TypeOK, Len(rProbs) = rFrames, NEW sc
  PROVE  /\ Batch!FramesAt(sc) \subseteq Nat /\ \A i \in Batch!FramesAt(sc) : i < rFrames
         /\ \A i \in Nat : i < rFrames => (i \in Batch!FramesAt(sc) <=> rProbs[i + 1] \in sc)
<1>1. rFrames \in Nat
  BY DEF Batch!TypeOK
<1> QED
  BY <1>1 DEF Batch!FramesAt

LEMMA ActiveAre ==
  ASSUME Batch!TypeOK, Len(rProbs) = rFrames
  PROVE  /\ Batch!ActiveFrames \in SUBSET Nat /\ Batch!ActiveFrames \subseteq Batch!FramesAt({"high", "nan"})
         /\ \A i \in Batch!ActiveFrames : i < rFrames
<1>1. Batch!FramesAt({"high"}) \subseteq Batch!FramesAt({"high", "nan"}) /\ Batch!FramesAt({"nan"}) \subseteq Batch!FramesAt({"high", "nan"})
  BY DEF Batch!FramesAt
<1> QED
  BY <1>1, FramesAre DEF Batch!ActiveFrames

(* What the machine takes for speech is the track's active frames.         *)
LEMMA ActIsActive ==
  ASSUME Batch!SpeechRegionsAssumption, Batch!RegionIInv, rPhase = "scan", rNext < Len(rProbs)
  PROVE  /\ Batch!IsActive(rTracker.inRegion, rProbs[rNext + 1]) \in BOOLEAN
         /\ Batch!IsActive(rTracker.inRegion, rProbs[rNext + 1]) <=> rNext \in Batch!ActiveFrames
         /\ rTracker.inRegion /\ ~Batch!IsActive(rTracker.inRegion, rProbs[rNext + 1]) => rNext \notin Batch!FramesAt({"high", "nan"})
         /\ ~rTracker.inRegion /\ Batch!IsActive(rTracker.inRegion, rProbs[rNext + 1]) => rNext \in Batch!FramesAt({"high"})
<1> DEFINE A == Batch!ActiveFrames
           H == Batch!FramesAt({"high"})
           X == Batch!FramesAt({"high", "nan"})
           p == rProbs[rNext + 1]
<1>1. Batch!TypeOK /\ Len(rProbs) = rFrames /\ rNext \in Nat /\ rFrames \in Nat /\ rNext < rFrames /\ MinOff \in Nat
  BY DEF Batch!RegionIInv, Batch!TypeOK, Batch!SpeechRegionsAssumption
<1>2. p \in Batch!Scores
  BY <1>1 DEF Batch!TypeOK
<1>3. /\ rNext \in H <=> p = "high"
      /\ rNext \in Batch!FramesAt({"nan"}) <=> p = "nan"
      /\ rNext \in X <=> p \in {"high", "nan"}
  BY <1>1, FramesAre
<1>4. H \in SUBSET Nat /\ X \in SUBSET Nat /\ A \in SUBSET Nat /\ A \subseteq X
  BY <1>1, FramesAre, ActiveAre
<1>t. Batch!Tracks(rTracker, A, {}, MinOff, rNext) /\ Batch!NanFollowsSpeech /\ rTracker.inRegion \in BOOLEAN
  BY DEF Batch!RegionIInv, Batch!Tracks, Batch!TrackerAt, Batch!Trackers
<1>5. CASE p = "high"
  <2>1. rNext \in A
    BY <1>3, <1>5 DEF Batch!ActiveFrames
  <2> QED
    BY <1>3, <1>5, <2>1 DEF Batch!IsActive
<1>6. CASE p = "low"
  <2>1. rNext \notin A
    BY <1>3, <1>4, <1>6, Zenon
  <2> QED
    BY <1>3, <1>6, <2>1, <1>t DEF Batch!IsActive
<1>7. CASE p = "nan" /\ rTracker.inRegion
  <2> DEFINE s == rTracker.start
  <2>1. s \in H /\ Batch!OpenAt(s, rTracker.lastActive, A, {}, MinOff, rNext)
    BY <1>7, <1>t DEF Batch!NanFollowsSpeech, Batch!Tracks
  <2> HIDE DEF s
  <2>2. s < rNext
    <3>1. s \in Nat /\ rTracker.lastActive \in Nat /\ s <= rTracker.lastActive /\ rTracker.lastActive < rNext
      BY <2>1, <1>4, Zenon DEF Batch!OpenAt
    <3> QED
      BY <3>1, <1>1
  <2>3. Batch!Together(s, rNext, A, {}, MinOff)
    <3>1. {} \in SUBSET Nat /\ rNext \notin {}
      OBVIOUS
    <3>2. OpenAt(s, rTracker.lastActive, A, {}, MinOff, rNext)
      BY <2>1, BatchSame
    <3>3. Together(s, rNext, A, {}, MinOff)
      BY <3>1, <3>2, <1>1, <1>4, OpenReaches
    <3> QED
      BY <3>3, BatchSame
  <2>4. Batch!Together(s, rNext, X, {}, MinOff)
    <3>1. Together(s, rNext, X, {}, MinOff)
      BY <2>3, <1>4, TogetherInMore, BatchSame, Zenon
    <3> QED
      BY <3>1, BatchSame
  <2>5. rNext \in A
    BY <1>3, <1>7, <2>1, <2>2, <2>4 DEF Batch!ActiveFrames
  <2> QED
    BY <1>3, <1>7, <2>5 DEF Batch!IsActive
<1>8. CASE p = "nan" /\ ~rTracker.inRegion
  <2>1. Batch!NoReach(H, X, {}, MinOff, rNext)
    BY <1>8, <1>t DEF Batch!NanFollowsSpeech
  <2>2. rNext \notin H
    BY <1>3, <1>8
  <2>3. rNext \notin A
    BY <2>1, <2>2 DEF Batch!ActiveFrames, Batch!NoReach
  <2> QED
    BY <1>3, <1>8, <2>3 DEF Batch!IsActive
<1> QED
  BY <1>2, <1>5, <1>6, <1>7, <1>8, <1>t DEF Batch!Scores

LEMMA RegionInit == ASSUME Batch!SpeechRegionsAssumption, Batch!Init PROVE Batch!RegionIInv
<1>1. Batch!TrackerAt(Batch!NewTracker, 0, MinOff)
  BY DEF Batch!TrackerAt, Batch!Trackers, Batch!NewTracker
<1>2. Len(<<>>) = 0 /\ <<>> \in Seq(Batch!Scores) /\ <<>> \in Seq(Nat \X Nat)
  OBVIOUS
<1>3. Batch!TypeOK
  BY <1>1, <1>2 DEF Batch!Init, Batch!TypeOK, Batch!SpeechRegionsAssumption
<1>4. Batch!SegmentsInOrder
  BY <1>2 DEF Batch!Init, Batch!SegmentsInOrder
<1> QED
  BY <1>2, <1>3, <1>4 DEF Batch!Init, Batch!RegionIInv, Batch!SegmentsAreTheRegions

LEMMA ScoreFrameKeeps ==
  ASSUME Batch!SpeechRegionsAssumption, Batch!OneProbPerFrame, Batch!RegionIInv, Batch!ScoreFrame
  PROVE  Batch!RegionIInv'
<1>1. PICK p \in [1 .. 1 -> Batch!Scores] : rProbs' = rProbs \o p
  BY Zenon DEF Batch!ScoreFrame, Batch!OneProbPerFrame
<1>2. p \in Seq(Batch!Scores) /\ Len(p) = 1
  <2>1. p \in Seq(Batch!Scores)
    BY SeqDef, Zenon
  <2>2. DOMAIN p = 1 .. 1 /\ DOMAIN p = 1 .. Len(p) /\ Len(p) \in Nat
    BY <2>1, LenProperties, Zenon
  <2> QED
    BY <2>1, <2>2
<1>3. rProbs \in Seq(Batch!Scores) /\ Len(rProbs) = rFrames /\ rFrames \in Nat /\ rNext = 0 /\ rTracker = Batch!NewTracker /\ rSegments = <<>>
  BY DEF Batch!RegionIInv, Batch!TypeOK, Batch!ScoreFrame
<1>4. rProbs' \in Seq(Batch!Scores) /\ Len(rProbs') = rFrames + 1
  <2>1. rProbs \o p \in Seq(Batch!Scores) /\ Len(rProbs \o p) = Len(rProbs) + Len(p)
    BY <1>2, <1>3, ConcatProperties, Zenon
  <2> QED
    BY <2>1, <1>1, <1>2, <1>3
<1>5. /\ rFrames < MaxFrames /\ rFrames' = rFrames + 1 /\ rPhase' = "score"
      /\ rNext' = rNext /\ rTracker' = rTracker /\ rSegments' = rSegments
  BY DEF Batch!ScoreFrame
<1>6. Batch!TypeOK'
  <2>1. Batch!TrackerAt(rTracker, rNext, MinOff) /\ rSegments \in Seq(Nat \X Nat)
    BY DEF Batch!RegionIInv, Batch!TypeOK, Batch!ScoreFrame
  <2> QED
    BY <2>1, <1>3, <1>4, <1>5 DEF Batch!TypeOK, Batch!SpeechRegionsAssumption
<1>7. Batch!SegmentsInOrder'
  BY <1>5 DEF Batch!RegionIInv, Batch!SegmentsInOrder
<1> QED
  BY <1>3, <1>4, <1>5, <1>6, <1>7 DEF Batch!RegionIInv, Batch!SegmentsAreTheRegions

LEMMA ScoreFailsKeeps ==
  ASSUME Batch!SpeechRegionsAssumption, Batch!RegionIInv, Batch!ScoreFails
  PROVE  Batch!RegionIInv'
<1>1. /\ rPhase = "score" /\ rPhase' = "error" /\ rFrames' = rFrames /\ rProbs' = rProbs
      /\ rNext' = rNext /\ rTracker' = rTracker /\ rSegments' = rSegments
  BY DEF Batch!ScoreFails
<1>2. Batch!TypeOK'
  BY <1>1 DEF Batch!RegionIInv, Batch!TypeOK
<1>3. Batch!SegmentsInOrder'
  BY <1>1 DEF Batch!RegionIInv, Batch!SegmentsInOrder
<1> QED
  BY <1>1, <1>2, <1>3 DEF Batch!RegionIInv, Batch!SegmentsAreTheRegions

LEMMA EndOfAudioKeeps ==
  ASSUME Batch!SpeechRegionsAssumption, Batch!RegionIInv, Batch!EndOfAudio
  PROVE  Batch!RegionIInv'
<1>1. /\ rPhase = "score" /\ rPhase' = "scan" /\ rFrames' = rFrames /\ rProbs' = rProbs
      /\ rNext' = rNext /\ rTracker' = rTracker /\ rSegments' = rSegments
  BY DEF Batch!EndOfAudio
<1>2. rNext = 0 /\ rTracker = Batch!NewTracker /\ rSegments = <<>> /\ Batch!TrackerAt(rTracker, 0, MinOff) /\ Batch!TypeOK /\ Len(rProbs) = rFrames
  BY <1>1 DEF Batch!RegionIInv, Batch!TypeOK
<1>3. Batch!TypeOK'
  BY <1>1 DEF Batch!RegionIInv, Batch!TypeOK
<1>4. Batch!SegmentsInOrder'
  BY <1>1 DEF Batch!RegionIInv, Batch!SegmentsInOrder
<1>5. ~rTracker.inRegion
  BY <1>2 DEF Batch!NewTracker
<1>6. Batch!ActiveFrames' = Batch!ActiveFrames
  BY <1>1 DEF Batch!ActiveFrames, Batch!FramesAt
<1>7. Batch!ActiveFrames \in SUBSET Nat /\ Batch!FramesAt({"high"}) \subseteq Nat
  BY <1>2, ActiveAre, FramesAre
<1>8. Batch!Tracks(rTracker, Batch!ActiveFrames, {}, MinOff, 0)
  BY <1>2, <1>5, <1>7 DEF Batch!Tracks, Batch!NoReach
<1>9. Batch!NanFollowsSpeech'
  <2>1. Batch!NoReach(Batch!FramesAt({"high"}), Batch!FramesAt({"high", "nan"}), {}, MinOff, 0)
    BY <1>7 DEF Batch!NoReach
  <2>2. Batch!FramesAt({"high"})' = Batch!FramesAt({"high"}) /\ Batch!FramesAt({"high", "nan"})' = Batch!FramesAt({"high", "nan"})
    BY <1>1 DEF Batch!FramesAt
  <2> QED
    BY <2>1, <2>2, <1>1, <1>2, <1>5 DEF Batch!NanFollowsSpeech
<1>10. Batch!Closed(rTracker, Batch!ActiveFrames, {}, rFrames, MinOff, "keep", 0) = {}
  <2>1. \A s \in Batch!RegionStarts(Batch!ActiveFrames, {}, MinOff) : s \in Nat
    BY <1>7 DEF Batch!RegionStarts
  <2> QED
    BY <2>1 DEF Batch!Closed
<1>11. Batch!SegmentsAreTheClosed'
  <2>1. Batch!Range(<<>>) = {}
    BY DEF Batch!Range
  <2>2. Batch!LongEnough({}) = {}
    BY DEF Batch!LongEnough
  <2> QED
    BY <2>1, <2>2, <1>1, <1>2, <1>6, <1>10, Zenon DEF Batch!SegmentsAreTheClosed
<1>12. Batch!SegmentsBeforeLoop'
  BY <1>1, <1>2 DEF Batch!SegmentsBeforeLoop
<1> QED
  BY <1>1, <1>2, <1>3, <1>4, <1>6, <1>8, <1>9, <1>11, <1>12 DEF Batch!RegionIInv, Batch!SegmentsAreTheRegions

(* The loop's place in a state of the scan.                                *)
LEMMA ScanFacts ==
  ASSUME Batch!SpeechRegionsAssumption, Batch!RegionIInv, rPhase = "scan"
  PROVE  /\ Batch!TypeOK /\ Len(rProbs) = rFrames /\ Batch!SegmentsInOrder /\ MinOff \in Nat
         /\ rNext \in Nat /\ rFrames \in Nat /\ rNext <= rFrames /\ rFrames <= MaxFrames /\ MaxFrames \in Nat
         /\ Batch!ActiveFrames \in SUBSET Nat /\ (\A i \in Batch!ActiveFrames : i < rFrames)
         /\ {} \in SUBSET Nat
         /\ Batch!Tracks(rTracker, Batch!ActiveFrames, {}, MinOff, rNext) /\ Batch!NanFollowsSpeech
         /\ Batch!SegmentsAreTheClosed /\ Batch!SegmentsBeforeLoop
         /\ rSegments \in Seq(Nat \X Nat) /\ rTracker.inRegion \in BOOLEAN
         /\ Batch!TrackerAt(rTracker, rNext, MinOff)
<1>1. Batch!TypeOK /\ Len(rProbs) = rFrames
  BY DEF Batch!RegionIInv
<1>2. /\ rNext \in 0 .. Len(rProbs) /\ rFrames \in 0 .. MaxFrames /\ MaxFrames \in Nat /\ MinOff \in Nat
      /\ rSegments \in Seq(Nat \X Nat) /\ Batch!TrackerAt(rTracker, rNext, MinOff)
  BY <1>1 DEF Batch!TypeOK, Batch!SpeechRegionsAssumption
<1>3. rTracker.inRegion \in BOOLEAN
  BY <1>2 DEF Batch!TrackerAt, Batch!Trackers
<1>4. {} \in SUBSET Nat
  OBVIOUS
<1> QED
  BY <1>1, <1>2, <1>3, <1>4, ActiveAre DEF Batch!RegionIInv

(* The kept regions come before the open one, and before the loop.         *)
LEMMA KeptBefore ==
  ASSUME Batch!SpeechRegionsAssumption, Batch!RegionIInv, rPhase = "scan", rTracker.inRegion
  PROVE  InOrderBy(rSegments, rTracker.start)
<1>1. Batch!SegmentsInOrder /\ Batch!SegmentsBeforeLoop
  BY ScanFacts
<1> QED
  BY <1>1 DEF Batch!SegmentsBeforeLoop, Batch!SegmentsInOrder, InOrderBy

LEMMA NanStaysWithSpeech ==
  ASSUME Batch!SpeechRegionsAssumption, Batch!RegionIInv, Batch!ScanFrame
  PROVE  Batch!NanFollowsSpeech'
<1> DEFINE A == Batch!ActiveFrames
           H == Batch!FramesAt({"high"})
           X == Batch!FramesAt({"high", "nan"})
           f == rNext
           p == rProbs[f + 1]
           act == Batch!IsActive(rTracker.inRegion, p)
           r == Batch!MachineAdvance(rTracker, p, f)
           u == r.tracker
<1>1. rPhase = "scan" /\ rNext < Len(rProbs) /\ rTracker' = u /\ rNext' = f + 1 /\ rProbs' = rProbs
  BY DEF Batch!ScanFrame
<1>2. act \in BOOLEAN
  BY <1>1, ActIsActive
<1>3. rTracker.inRegion /\ ~act => f \notin X
  BY <1>1, ActIsActive
<1>4. ~rTracker.inRegion => (act <=> f \in A) /\ (act => f \in H)
  BY <1>1, ActIsActive
<1>5. /\ f \in Nat /\ MinOff \in Nat /\ Batch!TrackerAt(rTracker, f, MinOff) /\ Batch!NanFollowsSpeech
      /\ Batch!TypeOK /\ Len(rProbs) = rFrames /\ rFrames \in Nat
  BY <1>1, ScanFacts
<1>6. H \in SUBSET Nat /\ X \in SUBSET Nat /\ H \subseteq A /\ H \subseteq X
  BY <1>5, FramesAre DEF Batch!ActiveFrames, Batch!FramesAt
<1>7. H' = H /\ X' = X
  BY <1>1 DEF Batch!FramesAt
<1> HIDE DEF H, X, act, p
<1>8. r = Batch!Advance(rTracker, act, f, MinOff, "keep")
  BY DEF Batch!MachineAdvance, act
<1> HIDE DEF r
<1>9. SUFFICES IF u.inRegion
               THEN u.start \in H /\ \A k \in (u.lastActive + 1) .. f : k \notin X
               ELSE Batch!NoReach(H, X, {}, MinOff, f + 1)
  BY <1>1, <1>5, <1>7 DEF Batch!NanFollowsSpeech, H, X
<1>n. IF rTracker.inRegion
        THEN rTracker.start \in H /\ \A k \in (rTracker.lastActive + 1) .. (f - 1) : k \notin X
        ELSE Batch!NoReach(H, X, {}, MinOff, f)
  BY <1>5 DEF Batch!NanFollowsSpeech, H, X
<1> HIDE DEF u
<1>10. CASE rTracker.inRegion /\ act /\ u.inRegion /\ u.start = rTracker.start /\ u.lastActive = f
  BY <1>10, <1>n, <1>5
<1>l. rTracker.lastActive \in Nat
  BY <1>5 DEF Batch!TrackerAt, Batch!Trackers
<1>i. \A k \in (rTracker.lastActive + 1) .. f : k = f \/ k \in (rTracker.lastActive + 1) .. (f - 1)
  BY <1>l, <1>5
<1>11. CASE rTracker.inRegion /\ ~act /\ u.inRegion /\ u.start = rTracker.start /\ u.lastActive = rTracker.lastActive
  BY <1>11, <1>n, <1>3, <1>i
<1>12. CASE rTracker.inRegion /\ ~act /\ ~u.inRegion /\ f - rTracker.lastActive = Batch!Gap(MinOff)
  <2>1. \A k \in (rTracker.lastActive + 1) .. f : k \notin H /\ k \notin X
    BY <1>12, <1>n, <1>3, <1>6, <1>i
  <2>2. Batch!NoReach(H, X, {}, MinOff, f + 1)
    <3>1. NoReach(H, X, {}, MinOff, f + 1)
      BY <2>1, <1>12, <1>5, <1>6, <1>l, PauseCuts, BatchSame
    <3> QED
      BY <3>1, BatchSame
  <2> QED
    BY <2>2, <1>12
<1>13. CASE ~rTracker.inRegion /\ act /\ u.inRegion /\ u.start = f /\ u.lastActive = f
  BY <1>13, <1>4, <1>5
<1>14. CASE ~rTracker.inRegion /\ ~act /\ u = rTracker
  <2>1. f \notin H
    BY <1>14, <1>4, <1>6, Zenon
  <2>2. {} \in SUBSET Nat
    OBVIOUS
  <2>3. Batch!NoReach(H, X, {}, MinOff, f + 1)
    <3>1. NoReach(H, X, {}, MinOff, f)
      BY <1>14, <1>n, BatchSame
    <3>2. NoReach(H, X, {}, MinOff, f + 1)
      BY <3>1, <2>1, <2>2, <1>5, <1>6, SilenceStays
    <3> QED
      BY <3>2, BatchSame
  <2> QED
    BY <2>3, <1>14
<1>15. TrackerAt(rTracker, f, MinOff) /\ r = Advance(rTracker, act, f, MinOff, "keep") /\ Batch!Gap(MinOff) = Gap(MinOff)
  BY <1>5, <1>8, BatchSame
<1> QED
  BY <1>2, <1>5, <1>15, TrackerMoves, <1>10, <1>11, <1>12, <1>13, <1>14 DEF u

(* A probability that is scanned: the machine advances, and what it closes *)
(* goes to the end of the list.                                            *)
LEMMA ScanFrameKeeps ==
  ASSUME Batch!SpeechRegionsAssumption, Batch!RegionIInv, Batch!ScanFrame
  PROVE  Batch!RegionIInv'
<1> DEFINE A == Batch!ActiveFrames
           act == Batch!IsActive(rTracker.inRegion, rProbs[rNext + 1])
           r == Batch!MachineAdvance(rTracker, rProbs[rNext + 1], rNext)
           u == r.tracker
           K == Batch!Closed(rTracker, A, {}, rFrames, MinOff, "keep", rNext)
           L == Batch!Closed(u, A, {}, rFrames, MinOff, "keep", rNext + 1)
<1>1. /\ rPhase = "scan" /\ rNext < Len(rProbs) /\ rPhase' = "scan" /\ rFrames' = rFrames /\ rProbs' = rProbs
      /\ rTracker' = u /\ rNext' = rNext + 1
      /\ rSegments' = Batch!Collected(rSegments, r.event)
  BY DEF Batch!ScanFrame, Batch!Collect
<1>2. /\ Batch!TypeOK /\ Len(rProbs) = rFrames /\ Batch!SegmentsInOrder /\ MinOff \in Nat
      /\ rNext \in Nat /\ rFrames \in Nat /\ rNext < rFrames /\ rFrames <= MaxFrames /\ MaxFrames \in Nat
      /\ A \in SUBSET Nat /\ {} \in SUBSET Nat
      /\ Batch!Tracks(rTracker, A, {}, MinOff, rNext)
      /\ Batch!SegmentsAreTheClosed /\ Batch!SegmentsBeforeLoop /\ rSegments \in Seq(Nat \X Nat)
  BY <1>1, ScanFacts
<1>3. act \in BOOLEAN /\ (act <=> rNext \in A)
  BY <1>1, ActIsActive
<1>4. r = Batch!Advance(rTracker, act, rNext, MinOff, "keep")
  BY DEF Batch!MachineAdvance
<1>a. A' = A
  BY <1>1 DEF Batch!ActiveFrames, Batch!FramesAt
<1> HIDE DEF A, act, r
<1>5. /\ Batch!Tracks(u, A, {}, MinOff, rNext + 1)
      /\ Closes(r.event, rTracker, K, L, rNext + 1)
  <2>1. "keep" \in {"keep", "trim"} /\ rNext \notin {}
    OBVIOUS
  <2>2. Tracks(rTracker, A, {}, MinOff, rNext) /\ r = Advance(rTracker, act, rNext, MinOff, "keep")
    BY <1>2, <1>4, BatchSame
  <2>3. /\ Tracks(u, A, {}, MinOff, rNext + 1)
        /\ Closes(r.event, rTracker, Closed(rTracker, A, {}, rFrames, MinOff, "keep", rNext),
                  Closed(u, A, {}, rFrames, MinOff, "keep", rNext + 1), rNext + 1)
    BY <2>1, <2>2, <1>2, <1>3, AdvanceTracks, Zenon
  <2> QED
    BY <2>3, BatchSame
<1>6. Batch!NanFollowsSpeech'
  BY NanStaysWithSpeech DEF Batch!ScanFrame
<1>7. Batch!Range(rSegments) = Batch!LongEnough(K)
  BY <1>2 DEF Batch!SegmentsAreTheClosed, A
<1>u. Batch!TrackerAt(u, rNext + 1, MinOff) /\ rNext + 1 \in Nat
  BY <1>2, <1>5 DEF Batch!Tracks
<1>p. u.inRegion => u.start \in Nat
  BY <1>u DEF Batch!TrackerAt, Batch!Trackers
<1> HIDE DEF u, K, L
<1>8. /\ rSegments' \in Seq(Nat \X Nat) /\ Batch!Range(rSegments') = Batch!LongEnough(L)
      /\ InOrderBy(rSegments', IF u.inRegion THEN u.start ELSE rNext + 1)
  <2>1. CASE r.event.kind # "end" /\ L = K
    <3>1. rSegments' = rSegments
      BY <1>1, <2>1 DEF Batch!Collected, Batch!Kept
    <3>2. InOrderBy(rSegments, IF u.inRegion THEN u.start ELSE rNext + 1)
      <4>1. InOrderBy(rSegments, IF rTracker.inRegion THEN rTracker.start ELSE rNext)
        BY <1>2 DEF InOrderBy, Batch!SegmentsInOrder, Batch!SegmentsBeforeLoop
      <4>2. \/ /\ u.inRegion = rTracker.inRegion
               /\ u.start = rTracker.start
            \/ /\ ~rTracker.inRegion /\ u.start = rNext
        <5>1. Batch!TrackerAt(rTracker, rNext, MinOff) /\ rTracker.inRegion \in BOOLEAN
          BY <1>2 DEF Batch!Tracks, Batch!TrackerAt, Batch!Trackers
        <5>2. \A s, e : EndOf(s, e).kind = "end"
          BY DEF EndOf
        <5> DEFINE ee == IF "keep" = "keep" THEN rNext + 1 ELSE rTracker.lastActive + 1
        <5>3. \/ rTracker.inRegion /\ u.inRegion /\ u.start = rTracker.start
              \/ ~rTracker.inRegion /\ u.start = rNext
              \/ u = rTracker
              \/ r.event = EndOf(rTracker.start, ee)
          <6>1. TrackerAt(rTracker, rNext, MinOff) /\ r = Advance(rTracker, act, rNext, MinOff, "keep")
            BY <5>1, <1>4, BatchSame
          <6> QED
            BY <6>1, <1>2, <1>3, TrackerMoves DEF u
        <5> HIDE DEF ee
        <5>4. u.inRegion \in BOOLEAN
          BY <1>u DEF Batch!TrackerAt, Batch!Trackers
        <5> QED
          BY <5>1, <5>2, <5>3, <5>4, <2>1
      <4>3. \A i \in 1 .. Len(rSegments) : rSegments[i][2] \in Nat
        <5> TAKE i \in 1 .. Len(rSegments)
        <5>1. rSegments[i] \in Nat \X Nat
          BY <1>2
        <5> QED
          BY <5>1
      <4>4. CASE /\ u.inRegion = rTracker.inRegion /\ u.start = rTracker.start
        BY <4>1, <4>3, <4>4, <1>2 DEF InOrderBy
      <4>5. CASE ~rTracker.inRegion /\ u.start = rNext
        BY <4>1, <4>3, <4>5, <1>2 DEF InOrderBy
      <4> QED
        BY <4>2, <4>4, <4>5
    <3> QED
      BY <3>1, <3>2, <2>1, <1>2, <1>7
  <2>2. ASSUME NEW e \in Nat, r.event = EndOf(rTracker.start, e), rTracker.inRegion, rTracker.start \in Nat,
               rTracker.start < e, e <= rNext + 1, L = K \cup {<<rTracker.start, e>>}
        PROVE  /\ rSegments' \in Seq(Nat \X Nat) /\ Batch!Range(rSegments') = Batch!LongEnough(L)
               /\ InOrderBy(rSegments', IF u.inRegion THEN u.start ELSE rNext + 1)
    <3> DEFINE s == rTracker.start
               after == Batch!Collected(rSegments, EndOf(s, e))
    <3>1. r.event.kind = "end" /\ r.event.start = s /\ r.event.end = e
      BY <2>2 DEF EndOf
    <3>2. rSegments' = after
      BY <1>1, <2>2
    <3>3. InOrderBy(rSegments, s)
      BY <1>1, <2>2, KeptBefore
    <3>4. e \in Nat /\ e <= MaxFrames /\ s \in Nat
      BY <1>2, <2>2
    <3> HIDE DEF s
    <3>5. s < e /\ L = K \cup {<<s, e>>}
      BY <2>2 DEF s
    <3>6. /\ after \in Seq(Nat \X Nat) /\ Batch!Range(after) = Batch!LongEnough(K \cup {<<s, e>>})
          /\ InOrderBy(after, e)
      <4>1. rSegments \in Seq(Nat \X Nat)
        BY <1>2
      <4>2. KeptOf(rSegments, K, s)
        BY <4>1, <1>7, <3>3 DEF KeptOf
      <4>3. KeptOf(Batch!Collected(rSegments, EndOf(s, e)), K \cup {<<s, e>>}, e)
        BY <4>2, <3>4, <3>5, CollectKeeps
      <4> HIDE DEF after
      <4> QED
        BY <4>3 DEF KeptOf, after
    <3>7. ~u.inRegion
      <4>1. Batch!TrackerAt(rTracker, rNext, MinOff)
        BY <1>2 DEF Batch!Tracks
      <4>2. r.event.kind = "end" /\ NoEvent.kind # "end" /\ \A x : StartOf(x).kind # "end"
        BY <3>1 DEF NoEvent, StartOf
      <4>3. TrackerAt(rTracker, rNext, MinOff) /\ r = Advance(rTracker, act, rNext, MinOff, "keep")
        BY <4>1, <1>4, BatchSame
      <4> QED
        BY <4>2, <4>3, <1>2, <1>3, TrackerMoves DEF u
    <3>8. InOrderBy(after, rNext + 1)
      <4>1. \A i \in 1 .. Len(after) : after[i][2] \in Nat
        <5> TAKE i \in 1 .. Len(after)
        <5> HIDE DEF after
        <5>1. after[i] \in Nat \X Nat
          BY <3>6
        <5> QED
          BY <5>1
      <4> HIDE DEF after
      <4>2. e <= rNext + 1 /\ rNext + 1 \in Nat
        BY <2>2, <1>2
      <4>3. /\ \A i \in 1 .. Len(after) : after[i][1] < after[i][2] /\ after[i][2] <= e
            /\ \A i \in 1 .. (Len(after) - 1) : after[i][2] <= after[i + 1][1]
        BY <3>6, Zenon DEF InOrderBy
      <4>4. \A i \in 1 .. Len(after) : after[i][2] <= rNext + 1
        BY <4>1, <4>2, <4>3, <3>4
      <4> QED
        BY <4>3, <4>4 DEF InOrderBy
    <3> HIDE DEF after
    <3> QED
      BY <3>2, <3>5, <3>6, <3>7, <3>8
  <2> QED
    BY <2>1, <2>2, <1>5 DEF Closes
<1>9. Batch!TypeOK'
  <2>1. rNext + 1 \in 0 .. Len(rProbs)
    BY <1>2
  <2> QED
    BY <2>1, <1>1, <1>2, <1>8, <1>u DEF Batch!TypeOK
<1>10. Batch!SegmentsInOrder'
  BY <1>8, Zenon DEF Batch!SegmentsInOrder, InOrderBy
<1>11. Batch!SegmentsAreTheClosed'
  BY <1>1, <1>8, <1>a DEF Batch!SegmentsAreTheClosed, L, A
<1>12. Batch!SegmentsBeforeLoop'
  BY <1>1, <1>8 DEF Batch!SegmentsBeforeLoop, InOrderBy
<1>13. Batch!Tracks(rTracker, Batch!ActiveFrames, {}, MinOff, rNext)'
  BY <1>1, <1>5, <1>a DEF A
<1> QED
  BY <1>1, <1>2, <1>6, <1>9, <1>10, <1>11, <1>12, <1>13 DEF Batch!RegionIInv, Batch!SegmentsAreTheRegions

(* The end: the open region is closed there.                               *)
LEMMA FinishKeeps ==
  ASSUME Batch!SpeechRegionsAssumption, Batch!RegionIInv, Batch!Finish
  PROVE  Batch!RegionIInv'
<1> DEFINE A == Batch!ActiveFrames
           r == Batch!MachineFlush(rTracker, rFrames)
           K == Batch!Closed(rTracker, A, {}, rFrames, MinOff, "keep", rFrames)
           L == Batch!Regions(A, {}, rFrames, MinOff, "keep")
<1>1. /\ rPhase = "scan" /\ rNext = Len(rProbs) /\ rPhase' = "done" /\ rFrames' = rFrames /\ rProbs' = rProbs
      /\ rNext' = rNext
      /\ rSegments' = Batch!Collected(rSegments, r.event)
  BY DEF Batch!Finish, Batch!Collect
<1>2. /\ Batch!TypeOK /\ Len(rProbs) = rFrames /\ Batch!SegmentsInOrder /\ MinOff \in Nat
      /\ rNext = rFrames /\ rFrames \in Nat /\ rFrames <= MaxFrames /\ MaxFrames \in Nat
      /\ A \in SUBSET Nat /\ {} \in SUBSET Nat /\ \A i \in A : i < rFrames
      /\ Batch!Tracks(rTracker, A, {}, MinOff, rFrames)
      /\ Batch!SegmentsAreTheClosed /\ Batch!SegmentsBeforeLoop /\ rSegments \in Seq(Nat \X Nat)
  BY <1>1, ScanFacts
<1>4. r = Batch!Flush(rTracker, rFrames, "keep")
  BY DEF Batch!MachineFlush
<1>a. A' = A
  BY <1>1 DEF Batch!ActiveFrames, Batch!FramesAt
<1> HIDE DEF A, r
<1>5. Closes(r.event, rTracker, K, L, rFrames)
  <2>1. "keep" \in {"keep", "trim"}
    OBVIOUS
  <2>2. Tracks(rTracker, A, {}, MinOff, rFrames) /\ r = Flush(rTracker, rFrames, "keep")
    BY <1>2, <1>4, BatchSame
  <2>3. Closes(r.event, rTracker, Closed(rTracker, A, {}, rFrames, MinOff, "keep", rFrames),
               Regions(A, {}, rFrames, MinOff, "keep"), rFrames)
    BY <2>1, <2>2, <1>2, FlushTracks, Zenon
  <2> QED
    BY <2>3, BatchSame
<1>7. Batch!Range(rSegments) = Batch!LongEnough(K)
  BY <1>2 DEF Batch!SegmentsAreTheClosed, A
<1> HIDE DEF K, L
<1>8. /\ rSegments' \in Seq(Nat \X Nat) /\ Batch!Range(rSegments') = Batch!LongEnough(L)
      /\ Batch!SegmentsInOrder'
  <2>1. CASE r.event.kind # "end" /\ L = K
    <3>1. rSegments' = rSegments
      BY <1>1, <2>1 DEF Batch!Collected, Batch!Kept
    <3> QED
      BY <3>1, <2>1, <1>2, <1>7 DEF Batch!SegmentsInOrder
  <2>2. ASSUME NEW e \in Nat, r.event = EndOf(rTracker.start, e), rTracker.inRegion, rTracker.start \in Nat,
               rTracker.start < e, e <= rFrames, L = K \cup {<<rTracker.start, e>>}
        PROVE  /\ rSegments' \in Seq(Nat \X Nat) /\ Batch!Range(rSegments') = Batch!LongEnough(L)
               /\ Batch!SegmentsInOrder'
    <3> DEFINE s == rTracker.start
               after == Batch!Collected(rSegments, EndOf(s, e))
    <3>1. r.event.kind = "end" /\ r.event.start = s /\ r.event.end = e
      BY <2>2 DEF EndOf
    <3>2. rSegments' = after
      BY <1>1, <2>2
    <3>3. InOrderBy(rSegments, s)
      BY <1>1, <2>2, KeptBefore
    <3>4. e \in Nat /\ e <= MaxFrames /\ s \in Nat
      BY <1>2, <2>2
    <3> HIDE DEF s
    <3>5. s < e /\ L = K \cup {<<s, e>>}
      BY <2>2 DEF s
    <3>6. /\ after \in Seq(Nat \X Nat) /\ Batch!Range(after) = Batch!LongEnough(K \cup {<<s, e>>})
          /\ InOrderBy(after, e)
      <4>1. rSegments \in Seq(Nat \X Nat)
        BY <1>2
      <4>2. KeptOf(rSegments, K, s)
        BY <4>1, <1>7, <3>3 DEF KeptOf
      <4>3. KeptOf(Batch!Collected(rSegments, EndOf(s, e)), K \cup {<<s, e>>}, e)
        BY <4>2, <3>4, <3>5, CollectKeeps
      <4> HIDE DEF after
      <4> QED
        BY <4>3 DEF KeptOf, after
    <3> HIDE DEF after
    <3> QED
      BY <3>2, <3>5, <3>6 DEF InOrderBy, Batch!SegmentsInOrder
  <2> QED
    BY <2>1, <2>2, <1>5 DEF Closes
<1>9. Batch!TypeOK'
  BY <1>1, <1>2, <1>8 DEF Batch!TypeOK
<1>10. Batch!SegmentsAreTheRegions'
  BY <1>1, <1>8, <1>a DEF Batch!SegmentsAreTheRegions, L, A
<1> QED
  BY <1>1, <1>2, <1>8, <1>9, <1>10 DEF Batch!RegionIInv

LEMMA RegionNext ==
  ASSUME Batch!SpeechRegionsAssumption, Batch!OneProbPerFrame, Batch!RegionIInv, [Batch!Next]_Batch!vars
  PROVE  Batch!RegionIInv'
<1>1. CASE UNCHANGED Batch!vars
  BY <1>1, Zenon DEF Batch!vars, Batch!RegionIInv, Batch!TypeOK, Batch!SegmentsInOrder, Batch!NanFollowsSpeech, Batch!SegmentsAreTheClosed,
     Batch!SegmentsBeforeLoop, Batch!SegmentsAreTheRegions, Batch!ActiveFrames, Batch!FramesAt
<1> QED
  BY <1>1, ScoreFrameKeeps, ScoreFailsKeeps, EndOfAudioKeeps, ScanFrameKeeps, FinishKeeps DEF Batch!Next

-----------------------------------------------------------------------------
(* binarize_frames: what is marked is the frames of the kept regions.      *)

LEMMA WholeIsSmall == ASSUME NEW d \in Nat, NEW u \in Nat, d < u PROVE d % u = d
OBVIOUS

(* The frames of a kept region are marked, those of a short one are not.   *)
LEMMA MarkKeeps ==
  ASSUME Bin!BinarizeAssumption, NEW K, NEW L, NEW event, NEW upto \in Nat, upto <= MaxFrames, NEW tr,
         Closes(event, tr, K, L, upto), Bin!MarkRegion(event), bActive = Bin!FramesOf(Bin!LongEnough(K)),
         bActive \subseteq 0 .. upto - 1
  PROVE  bActive' = Bin!FramesOf(Bin!LongEnough(L)) /\ bActive' \subseteq 0 .. upto - 1
<1>1. bActive' = IF event.kind = "end" /\ Bin!Keeps(event.start, event.end, MinOn, Usize)
                  THEN bActive \cup event.start .. (event.end - 1) ELSE bActive
  BY DEF Bin!MarkRegion
<1>2. CASE event.kind # "end" /\ L = K
  BY <1>1, <1>2
<1>3. ASSUME NEW e \in Nat, event = EndOf(tr.start, e), tr.start \in Nat, tr.start < e, e <= upto,
             L = K \cup {<<tr.start, e>>}
      PROVE  bActive' = Bin!FramesOf(Bin!LongEnough(L)) /\ bActive' \subseteq 0 .. upto - 1
  <2> DEFINE s == tr.start
             x == <<s, e>>
  <2>1. event.kind = "end" /\ event.start = s /\ event.end = e
    BY <1>3 DEF EndOf
  <2>2. s \in Nat /\ e \in Nat /\ s < e /\ e <= upto /\ L = K \cup {x}
    BY <1>3
  <2> HIDE DEF s
  <2>3. Bin!Keeps(s, e, MinOn, Usize) <=> e - s >= MinOn
    <3>1. e - s \in Nat /\ e - s < Usize /\ Usize \in Nat
      BY <2>2 DEF Bin!BinarizeAssumption
    <3>2. (e - s) % Usize = e - s
      BY <3>1, WholeIsSmall
    <3> QED
      BY <3>2 DEF Bin!Keeps
  <2>x. x[1] = s /\ x[2] = e
    OBVIOUS
  <2> HIDE DEF x
  <2>4. CASE e - s >= MinOn
    <3>1. Bin!LongEnough(L) = Bin!LongEnough(K) \cup {x}
      BY <2>2, <2>x, <2>4 DEF Bin!LongEnough
    <3>2. Bin!FramesOf(Bin!LongEnough(L)) = Bin!FramesOf(Bin!LongEnough(K)) \cup s .. (e - 1)
      BY <3>1, <2>x DEF Bin!FramesOf
    <3>3. bActive' = bActive \cup s .. (e - 1)
      BY <1>1, <2>1, <2>3, <2>4
    <3>4. s .. (e - 1) \subseteq 0 .. upto - 1
      BY <2>2
    <3> QED
      BY <3>2, <3>3, <3>4
  <2>5. CASE ~(e - s >= MinOn)
    <3>1. Bin!LongEnough(L) = Bin!LongEnough(K)
      BY <2>2, <2>x, <2>5 DEF Bin!LongEnough
    <3>2. bActive' = bActive
      BY <1>1, <2>1, <2>3, <2>5
    <3> QED
      BY <3>1, <3>2
  <2> QED
    BY <2>4, <2>5
<1> QED
  BY <1>2, <1>3 DEF Closes

(* The gate's answer at a frame is whether the track is on there.          *)
LEMMA GateIsOn ==
  ASSUME Bin!BinIInv, bFrame < Bin!N, Bin!N \in Nat, bFrame \in Nat
  PROVE  /\ bTrack[bFrame] = "hole" => bFrame \notin Bin!On
         /\ bTrack[bFrame] # "hole" => (Bin!GateUpdate(bGate, bTrack[bFrame]) <=> bFrame \in Bin!On)
         /\ Bin!GateUpdate(bGate, bTrack[bFrame]) \in BOOLEAN
<1>1. /\ DOMAIN bTrack = 0 .. Bin!N - 1 /\ bGate \in BOOLEAN /\ bFrame \in DOMAIN bTrack /\ bTrack[bFrame] \in Bin!Frames
      /\ bGate <=> bFrame - 1 \in Bin!On
  BY DEF Bin!BinIInv, Bin!TypeOK
<1>2. bFrame \in Bin!On <=> \E h \in 0 .. bFrame : bTrack[h] = "high" /\ \A k \in (h + 1) .. bFrame : bTrack[k] \in {"mid", "high"}
  BY <1>1 DEF Bin!On
<1>3. bFrame - 1 \in Bin!On <=> bFrame > 0 /\ \E h \in 0 .. (bFrame - 1) :
                                  bTrack[h] = "high" /\ \A k \in (h + 1) .. (bFrame - 1) : bTrack[k] \in {"mid", "high"}
  BY <1>1 DEF Bin!On
<1>4. ASSUME bTrack[bFrame] \notin {"mid", "high"} PROVE bFrame \notin Bin!On
  <2> SUFFICES ASSUME NEW h \in 0 .. bFrame, bTrack[h] = "high", \A k \in (h + 1) .. bFrame : bTrack[k] \in {"mid", "high"}
               PROVE  FALSE
    BY <1>2
  <2>1. h = bFrame \/ bFrame \in (h + 1) .. bFrame
    OBVIOUS
  <2> QED
    BY <2>1, <1>4
<1>5. ASSUME bTrack[bFrame] = "high" PROVE bFrame \in Bin!On
  <2>1. bFrame \in 0 .. bFrame /\ (bFrame + 1) .. bFrame = {}
    OBVIOUS
  <2> QED
    BY <2>1, <1>2, <1>5
<1>6. ASSUME bTrack[bFrame] = "mid" PROVE bFrame \in Bin!On <=> bFrame - 1 \in Bin!On
  <2>1. ASSUME NEW h \in 0 .. bFrame, bTrack[h] = "high", \A k \in (h + 1) .. bFrame : bTrack[k] \in {"mid", "high"}
        PROVE  bFrame - 1 \in Bin!On
    <3>1. h # bFrame
      BY <1>6, <2>1
    <3>2. h \in 0 .. (bFrame - 1) /\ bFrame > 0 /\ \A k \in (h + 1) .. (bFrame - 1) : k \in (h + 1) .. bFrame
      BY <3>1
    <3> QED
      BY <3>2, <2>1, <1>3
  <2>2. ASSUME NEW h \in 0 .. (bFrame - 1), bTrack[h] = "high", \A k \in (h + 1) .. (bFrame - 1) : bTrack[k] \in {"mid", "high"}
        PROVE  bFrame \in Bin!On
    <3>1. h \in 0 .. bFrame /\ \A k \in (h + 1) .. bFrame : k = bFrame \/ k \in (h + 1) .. (bFrame - 1)
      OBVIOUS
    <3> QED
      BY <3>1, <2>2, <1>2, <1>6
  <2> QED
    BY <2>1, <2>2, <1>2, <1>3
<1>7. Bin!GateUpdate(bGate, bTrack[bFrame]) <=> bTrack[bFrame] \in (IF bGate THEN {"mid", "high"} ELSE {"high"})
  BY DEF Bin!GateUpdate
<1>8. Bin!GateUpdate(bGate, bTrack[bFrame]) \in BOOLEAN
  BY DEF Bin!GateUpdate
<1> QED
  BY <1>1, <1>4, <1>5, <1>6, <1>7, <1>8

LEMMA BinFacts ==
  ASSUME Bin!BinarizeAssumption, Bin!BinIInv, ~bDone
  PROVE  /\ Bin!TypeOK /\ Bin!N \in Nat /\ bFrame \in Nat /\ bFrame <= Bin!N /\ Bin!N <= MaxFrames /\ MaxFrames \in Nat /\ MinOff \in Nat
         /\ Bin!On \in SUBSET Nat /\ Bin!Holes \in SUBSET Nat /\ (\A i \in Bin!On : i < Bin!N)
         /\ Bin!Tracks(bTracker, Bin!On, Bin!Holes, MinOff, bFrame) /\ Bin!ActiveIsTheClosed
         /\ bFrame < Bin!N => (bFrame \in Bin!Holes <=> bTrack[bFrame] = "hole")
         /\ Bin!TrackerAt(bTracker, bFrame, MinOff)
<1>1. Bin!TypeOK /\ DOMAIN bTrack = 0 .. Bin!N - 1 /\ bFrame \in 0 .. Bin!N /\ Bin!N \in 0 .. MaxFrames /\ MaxFrames \in Nat /\ MinOff \in Nat
  BY DEF Bin!BinIInv, Bin!TypeOK, Bin!BinarizeAssumption
<1>2. Bin!N \in Nat
  BY DEF Bin!BinIInv
<1> QED
  BY <1>1, <1>2 DEF Bin!On, Bin!Holes, Bin!BinIInv, Bin!TypeOK

(* A hole closes the open region, and clears the gate.                     *)
LEMMA HoleKeeps ==
  ASSUME Bin!BinarizeAssumption, Bin!BinIInv, Bin!Hole
  PROVE  Bin!BinIInv'
<1> DEFINE r == Bin!Reset(bTracker)
           K == Bin!Closed(bTracker, Bin!On, Bin!Holes, Bin!N, MinOff, "trim", bFrame)
           L == Bin!Closed(r.tracker, Bin!On, Bin!Holes, Bin!N, MinOff, "trim", bFrame + 1)
<1>1. /\ bFrame < Bin!N /\ bTrack[bFrame] = "hole" /\ bGate' = FALSE /\ bTracker' = r.tracker /\ Bin!MarkRegion(r.event)
      /\ bFrame' = bFrame + 1 /\ bTrack' = bTrack /\ bDone' = bDone
  BY DEF Bin!Hole
<1>2. ~bDone /\ Bin!N \in 0 .. MaxFrames
  BY <1>1 DEF Bin!BinIInv, Bin!TypeOK, Bin!BinarizeAssumption
<1>3. /\ Bin!TypeOK /\ Bin!N \in Nat /\ bFrame \in Nat /\ bFrame <= Bin!N /\ Bin!N <= MaxFrames /\ MaxFrames \in Nat /\ MinOff \in Nat
      /\ Bin!On \in SUBSET Nat /\ Bin!Holes \in SUBSET Nat /\ bFrame \in Bin!Holes
      /\ Bin!Tracks(bTracker, Bin!On, Bin!Holes, MinOff, bFrame) /\ Bin!ActiveIsTheClosed
  BY <1>1, <1>2, BinFacts
<1>4. bFrame \notin Bin!On
  BY <1>1, <1>3, GateIsOn
<1> HIDE DEF r
<1>5. Bin!Tracks(r.tracker, Bin!On, Bin!Holes, MinOff, bFrame + 1) /\ Closes(r.event, bTracker, K, L, bFrame + 1)
  <2>1. Tracks(bTracker, Bin!On, Bin!Holes, MinOff, bFrame) /\ r = Reset(bTracker)
    BY <1>3, BinSame DEF r
  <2>2. /\ Tracks(r.tracker, Bin!On, Bin!Holes, MinOff, bFrame + 1)
        /\ Closes(r.event, bTracker, Closed(bTracker, Bin!On, Bin!Holes, Bin!N, MinOff, "trim", bFrame),
                  Closed(r.tracker, Bin!On, Bin!Holes, Bin!N, MinOff, "trim", bFrame + 1), bFrame + 1)
    BY <2>1, <1>3, <1>4, ResetTracks
  <2> QED
    BY <2>2, BinSame
<1>6. Bin!On' = Bin!On /\ Bin!Holes' = Bin!Holes /\ Bin!N' = Bin!N
  BY <1>1 DEF Bin!On, Bin!Holes, Bin!N
<1>7. bActive = Bin!FramesOf(Bin!LongEnough(K)) /\ bActive \subseteq 0 .. Bin!N - 1
  BY <1>3 DEF Bin!ActiveIsTheClosed, Bin!TypeOK
<1> HIDE DEF K, L
<1>8. bActive' = Bin!FramesOf(Bin!LongEnough(L)) /\ bActive' \subseteq 0 .. Bin!N - 1
  <2>1. Closes(r.event, bTracker, K, L, Bin!N)
    BY <1>1, <1>3, <1>5 DEF Closes
  <2> QED
    BY <2>1, <1>1, <1>3, <1>7, MarkKeeps
<1>9. Bin!TypeOK'
  <2>1. bTrack \in [0 .. (Bin!N - 1) -> Bin!Frames] /\ bFrame + 1 \in 0 .. Bin!N /\ bDone \in BOOLEAN
    BY <1>1, <1>3 DEF Bin!TypeOK
  <2>2. Bin!TrackerAt(r.tracker, bFrame + 1, MinOff)
    BY <1>5 DEF Bin!Tracks
  <2> QED
    BY <2>1, <2>2, <1>1, <1>2, <1>6, <1>8, Zenon DEF Bin!TypeOK
<1>10. bGate' <=> bFrame' - 1 \in Bin!On'
  BY <1>1, <1>3, <1>4, <1>6
<1>11. Bin!ActiveIsTheClosed' /\ Bin!Tracks(bTracker, Bin!On, Bin!Holes, MinOff, bFrame)'
  BY <1>1, <1>5, <1>6, <1>8 DEF Bin!ActiveIsTheClosed, L
<1> QED
  BY <1>1, <1>2, <1>6, <1>9, <1>10, <1>11 DEF Bin!BinIInv, Bin!ActiveIsTheKeptRegions

(* A frame the gate answers for.                                           *)
LEMMA FrameKeeps ==
  ASSUME Bin!BinarizeAssumption, Bin!BinIInv, Bin!Frame
  PROVE  Bin!BinIInv'
<1> DEFINE act == Bin!GateUpdate(bGate, bTrack[bFrame])
           r == Bin!Advance(bTracker, act, bFrame, MinOff, "trim")
           K == Bin!Closed(bTracker, Bin!On, Bin!Holes, Bin!N, MinOff, "trim", bFrame)
           L == Bin!Closed(r.tracker, Bin!On, Bin!Holes, Bin!N, MinOff, "trim", bFrame + 1)
<1>1. /\ bFrame < Bin!N /\ bTrack[bFrame] # "hole" /\ bGate' = act /\ bTracker' = r.tracker /\ Bin!MarkRegion(r.event)
      /\ bFrame' = bFrame + 1 /\ bTrack' = bTrack /\ bDone' = bDone
  BY DEF Bin!Frame
<1>2. ~bDone /\ Bin!N \in 0 .. MaxFrames
  BY <1>1 DEF Bin!BinIInv, Bin!TypeOK, Bin!BinarizeAssumption
<1>3. /\ Bin!TypeOK /\ Bin!N \in Nat /\ bFrame \in Nat /\ bFrame <= Bin!N /\ Bin!N <= MaxFrames /\ MaxFrames \in Nat /\ MinOff \in Nat
      /\ Bin!On \in SUBSET Nat /\ Bin!Holes \in SUBSET Nat /\ bFrame \notin Bin!Holes
      /\ Bin!Tracks(bTracker, Bin!On, Bin!Holes, MinOff, bFrame) /\ Bin!ActiveIsTheClosed
  BY <1>1, <1>2, BinFacts
<1>4. act \in BOOLEAN /\ (act <=> bFrame \in Bin!On)
  BY <1>1, <1>3, GateIsOn
<1> HIDE DEF r, act
<1>5. Bin!Tracks(r.tracker, Bin!On, Bin!Holes, MinOff, bFrame + 1) /\ Closes(r.event, bTracker, K, L, bFrame + 1)
  <2>1. "trim" \in {"keep", "trim"} /\ ("trim" = "keep" => Bin!Holes = {})
    OBVIOUS
  <2>2. r = Bin!Advance(bTracker, act, bFrame, MinOff, "trim")
    BY DEF r
  <2>3. Tracks(bTracker, Bin!On, Bin!Holes, MinOff, bFrame) /\ r = Advance(bTracker, act, bFrame, MinOff, "trim")
    BY <2>2, <1>3, BinSame
  <2>4. /\ Tracks(r.tracker, Bin!On, Bin!Holes, MinOff, bFrame + 1)
        /\ Closes(r.event, bTracker, Closed(bTracker, Bin!On, Bin!Holes, Bin!N, MinOff, "trim", bFrame),
                  Closed(r.tracker, Bin!On, Bin!Holes, Bin!N, MinOff, "trim", bFrame + 1), bFrame + 1)
    BY <2>1, <2>3, <1>1, <1>3, <1>4, AdvanceTracks, Zenon
  <2> QED
    BY <2>4, BinSame
<1>6. Bin!On' = Bin!On /\ Bin!Holes' = Bin!Holes /\ Bin!N' = Bin!N
  BY <1>1 DEF Bin!On, Bin!Holes, Bin!N
<1>7. bActive = Bin!FramesOf(Bin!LongEnough(K)) /\ bActive \subseteq 0 .. Bin!N - 1
  BY <1>3 DEF Bin!ActiveIsTheClosed, Bin!TypeOK
<1> HIDE DEF K, L
<1>8. bActive' = Bin!FramesOf(Bin!LongEnough(L)) /\ bActive' \subseteq 0 .. Bin!N - 1
  <2>1. Closes(r.event, bTracker, K, L, Bin!N)
    BY <1>1, <1>3, <1>5 DEF Closes
  <2> QED
    BY <2>1, <1>1, <1>3, <1>7, MarkKeeps
<1>9. Bin!TypeOK'
  <2>1. bTrack \in [0 .. (Bin!N - 1) -> Bin!Frames] /\ bFrame + 1 \in 0 .. Bin!N /\ bDone \in BOOLEAN
    BY <1>1, <1>3 DEF Bin!TypeOK
  <2>2. Bin!TrackerAt(r.tracker, bFrame + 1, MinOff)
    BY <1>5 DEF Bin!Tracks
  <2> QED
    BY <2>1, <2>2, <1>1, <1>2, <1>4, <1>6, <1>8 DEF Bin!TypeOK
<1>10. bGate' <=> bFrame' - 1 \in Bin!On'
  BY <1>1, <1>3, <1>4, <1>6
<1>11. Bin!ActiveIsTheClosed' /\ Bin!Tracks(bTracker, Bin!On, Bin!Holes, MinOff, bFrame)'
  BY <1>1, <1>5, <1>6, <1>8 DEF Bin!ActiveIsTheClosed, L
<1> QED
  BY <1>1, <1>2, <1>6, <1>9, <1>10, <1>11 DEF Bin!BinIInv, Bin!ActiveIsTheKeptRegions

LEMMA BinFinishKeeps ==
  ASSUME Bin!BinarizeAssumption, Bin!BinIInv, Bin!Finish
  PROVE  Bin!BinIInv'
<1> DEFINE r == Bin!Flush(bTracker, Bin!N, "trim")
           K == Bin!Closed(bTracker, Bin!On, Bin!Holes, Bin!N, MinOff, "trim", Bin!N)
           L == Bin!Regions(Bin!On, Bin!Holes, Bin!N, MinOff, "trim")
<1>1. /\ bFrame = Bin!N /\ ~bDone /\ bDone' = TRUE /\ bTracker' = r.tracker /\ Bin!MarkRegion(r.event)
      /\ bTrack' = bTrack /\ bFrame' = bFrame /\ bGate' = bGate
  BY DEF Bin!Finish
<1>3. /\ Bin!TypeOK /\ Bin!N \in Nat /\ Bin!N <= MaxFrames /\ MaxFrames \in Nat /\ MinOff \in Nat
      /\ Bin!On \in SUBSET Nat /\ Bin!Holes \in SUBSET Nat /\ (\A i \in Bin!On : i < Bin!N)
      /\ Bin!Tracks(bTracker, Bin!On, Bin!Holes, MinOff, Bin!N) /\ Bin!ActiveIsTheClosed
  BY <1>1, BinFacts
<1> HIDE DEF r
<1>5. Closes(r.event, bTracker, K, L, Bin!N)
  <2>1. "trim" \in {"keep", "trim"} /\ ("trim" = "keep" => Bin!Holes = {})
    OBVIOUS
  <2>2. r = Bin!Flush(bTracker, Bin!N, "trim")
    BY DEF r
  <2>3. Tracks(bTracker, Bin!On, Bin!Holes, MinOff, Bin!N) /\ r = Flush(bTracker, Bin!N, "trim")
    BY <2>2, <1>3, BinSame
  <2>4. Closes(r.event, bTracker, Closed(bTracker, Bin!On, Bin!Holes, Bin!N, MinOff, "trim", Bin!N),
               Regions(Bin!On, Bin!Holes, Bin!N, MinOff, "trim"), Bin!N)
    BY <2>1, <2>3, <1>3, FlushTracks
  <2> QED
    BY <2>4, BinSame
<1>6. Bin!On' = Bin!On /\ Bin!Holes' = Bin!Holes /\ Bin!N' = Bin!N
  BY <1>1 DEF Bin!On, Bin!Holes, Bin!N
<1>7. bActive = Bin!FramesOf(Bin!LongEnough(K)) /\ bActive \subseteq 0 .. Bin!N - 1
  BY <1>1, <1>3 DEF Bin!ActiveIsTheClosed, Bin!TypeOK
<1> HIDE DEF K, L
<1>8. bActive' = Bin!FramesOf(Bin!LongEnough(L)) /\ bActive' \subseteq 0 .. Bin!N - 1
  BY <1>1, <1>3, <1>5, <1>7, MarkKeeps
<1>9. Bin!TypeOK'
  <2>1. bTrack \in [0 .. (Bin!N - 1) -> Bin!Frames] /\ bFrame \in 0 .. Bin!N /\ bGate \in BOOLEAN
    BY <1>3 DEF Bin!TypeOK
  <2> QED
    BY <2>1, <1>1, <1>6, <1>8 DEF Bin!TypeOK
<1>10. Bin!ActiveIsTheKeptRegions'
  BY <1>1, <1>6, <1>8 DEF Bin!ActiveIsTheKeptRegions, L
<1> QED
  BY <1>1, <1>6, <1>9, <1>10 DEF Bin!BinIInv

LEMMA BinInit == ASSUME Bin!BinarizeAssumption, Bin!Init PROVE Bin!BinIInv
<1>1. PICK n \in 0 .. MaxFrames : bTrack \in [0 .. (n - 1) -> Bin!Frames]
  BY DEF Bin!Init
<1>2. Bin!N = n
  <2>1. DOMAIN bTrack = 0 .. (n - 1) /\ n \in Nat
    BY <1>1 DEF Bin!BinarizeAssumption
  <2>2. Cardinality(0 .. (n - 1)) = n
    <3>1. n - 1 \in Int /\ 0 \in Int
      BY <2>1
    <3>2. Cardinality(0 .. (n - 1)) = IF 0 > n - 1 THEN 0 ELSE (n - 1) - 0 + 1
      BY <3>1, FS_Interval
    <3> QED
      BY <2>1, <3>2
  <2>3. \A S : Bin!Cardinality(S) = Cardinality(S)
    BY DEF Bin!IsFiniteSet, IsFiniteSet, Bin!Cardinality, Cardinality
  <2> QED
    BY <2>1, <2>2, <2>3 DEF Bin!N
<1>3. n \in Nat /\ bFrame = 0 /\ bGate = FALSE /\ bTracker = Bin!NewTracker /\ bActive = {} /\ bDone = FALSE
  BY DEF Bin!Init, Bin!BinarizeAssumption
<1>4. Bin!TrackerAt(Bin!NewTracker, 0, MinOff) /\ ~Bin!NewTracker.inRegion
  BY DEF Bin!TrackerAt, Bin!Trackers, Bin!NewTracker
<1>5. Bin!TypeOK
  <2>1. bTrack \in [0 .. (Bin!N - 1) -> Bin!Frames] /\ Bin!N \in Nat
    BY <1>1, <1>2, <1>3
  <2>2. Bin!TrackerAt(bTracker, bFrame, MinOff)
    BY <1>3, <1>4
  <2>3. bFrame \in 0 .. Bin!N
    BY <2>1, <1>3
  <2>4. bGate \in BOOLEAN /\ bDone \in BOOLEAN /\ bActive \subseteq 0 .. (Bin!N - 1)
    BY <1>3, Zenon
  <2> QED
    BY <2>1, <2>2, <2>3, <2>4 DEF Bin!TypeOK
<1>6. Bin!On \subseteq Nat /\ bFrame - 1 \notin Bin!On
  BY <1>1, <1>3 DEF Bin!On
<1>7. Bin!Tracks(bTracker, Bin!On, Bin!Holes, MinOff, bFrame)
  BY <1>3, <1>4, <1>6 DEF Bin!Tracks, Bin!NoReach
<1>8. Bin!ActiveIsTheClosed
  <2>1. Bin!Closed(bTracker, Bin!On, Bin!Holes, Bin!N, MinOff, "trim", bFrame) = {}
    BY <1>3, <1>6 DEF Bin!Closed, Bin!RegionStarts
  <2> QED
    BY <2>1, <1>3 DEF Bin!ActiveIsTheClosed, Bin!LongEnough, Bin!FramesOf
<1> QED
  BY <1>1, <1>2, <1>3, <1>5, <1>6, <1>7, <1>8 DEF Bin!BinIInv, Bin!ActiveIsTheKeptRegions

LEMMA BinNext ==
  ASSUME Bin!BinarizeAssumption, Bin!BinIInv, [Bin!Next]_Bin!vars
  PROVE  Bin!BinIInv'
<1>1. CASE UNCHANGED Bin!vars
  BY <1>1 DEF Bin!vars, Bin!BinIInv, Bin!TypeOK, Bin!ActiveIsTheClosed, Bin!ActiveIsTheKeptRegions, Bin!On, Bin!Holes, Bin!N
<1> QED
  BY <1>1, HoleKeeps, FrameKeeps, BinFinishKeeps DEF Bin!Next

-----------------------------------------------------------------------------
(* The regions of a track that grows.                                      *)

(* What is together up to frame j is known when frame j is.                *)
SameUpTo(A, B, C, D, n, j) ==
  /\ \A k \in Nat : k < n => (k \in A <=> k \in B)
  /\ \A c \in Nat : c <= j => (c \in C <=> c \in D)

LEMMA TogetherLocal ==
  ASSUME NEW A \in SUBSET Nat, NEW B \in SUBSET Nat, NEW C \in SUBSET Nat, NEW D \in SUBSET Nat,
         NEW m \in Nat, NEW i \in Nat, NEW j \in Nat, NEW n \in Nat, j <= n,
         SameUpTo(A, B, C, D, n, j)
  PROVE  Together(i, j, A, C, m) <=> Together(i, j, B, D, m)
<1> DEFINE G == Gap(m)
<1>1. G \in Nat /\ G >= 1
  BY GapIs
<1>2. (\E c \in C : i < c /\ c <= j) <=> (\E c \in D : i < c /\ c <= j)
  BY DEF SameUpTo
<1>3. ASSUME NEW k \in i .. (j - G) PROVE (k .. (k + G - 1) \cap A = {}) <=> (k .. (k + G - 1) \cap B = {})
  <2>1. \A x \in k .. (k + G - 1) : x \in Nat /\ x < n
    BY <1>1, <1>3
  <2>2. \A x \in k .. (k + G - 1) : x \in A <=> x \in B
    BY <2>1 DEF SameUpTo
  <2> QED
    BY <2>2
<1> HIDE DEF G
<1>4. (\E k \in i .. (j - G) : k .. (k + G - 1) \cap A = {}) <=> (\E k \in i .. (j - G) : k .. (k + G - 1) \cap B = {})
  BY <1>3
<1> QED
  BY <1>2, <1>4 DEF Together, G

(* A frame is together with itself.                                        *)
LEMMA TogetherAlone ==
  ASSUME NEW A, NEW C \in SUBSET Nat, NEW m \in Nat, NEW i \in Nat
  PROVE  Together(i, i, A, C, m)
<1>1. Gap(m) \in Nat /\ Gap(m) >= 1
  BY GapIs
<1>2. i .. (i - Gap(m)) = {}
  BY <1>1
<1> QED
  BY <1>2 DEF Together

(* The last frame of a region, of a track of n frames.                     *)
IsLastOf(l, s, A, C, m) ==
  /\ l \in A /\ s <= l /\ Together(s, l, A, C, m)
  /\ \A j \in A : s <= j /\ Together(s, j, A, C, m) => j <= l

LEMMA LastFrameOf ==
  ASSUME NEW n \in Nat, NEW A \in SUBSET (0 .. n - 1), NEW C \in SUBSET Nat, NEW m \in Nat, NEW s \in A
  PROVE  IsLastOf(LastFrame(s, A, C, m), s, A, C, m)
<1> DEFINE S == {j \in A : j >= s /\ Together(s, j, A, C, m)}
           U == {n - j : j \in S}
<1>1. s \in Nat /\ A \subseteq Nat /\ S \subseteq A
  OBVIOUS
<1>2. s \in S
  BY <1>1, TogetherAlone
<1>3. U \in SUBSET Nat /\ U # {}
  BY <1>2
<1> HIDE DEF U
<1>4. PICK u \in U : \A v \in U : u <= v
  BY <1>3, LeastNatural
<1>5. PICK l \in S : u = n - l
  BY <1>4 DEF U
<1> HIDE DEF S
<1>6. ASSUME NEW j \in S PROVE j <= l
  <2>1. n - j \in U
    BY DEF U
  <2>2. n - l <= n - j
    BY <1>4, <1>5, <2>1, Zenon
  <2>3. j \in Nat /\ l \in Nat
    BY <1>1
  <2> QED
    BY <2>2, <2>3
<1>7. S \subseteq Int
  BY <1>1
<1>8. Max(S) = l
  BY <1>5, <1>6, <1>7, MaxIs, Zenon
<1>9. LastFrame(s, A, C, m) = l
  BY <1>8 DEF LastFrame, S
<1> QED
  BY <1>5, <1>6, <1>9 DEF IsLastOf, S

LEMMA LastFrameUnique ==
  ASSUME NEW A \in SUBSET Nat, NEW C, NEW m, NEW s \in A, NEW l, IsLastOf(l, s, A, C, m)
  PROVE  LastFrame(s, A, C, m) = l
<1> DEFINE S == {j \in A : j >= s /\ Together(s, j, A, C, m)}
<1>1. S \subseteq A /\ A \subseteq Nat /\ l \in A
  BY DEF IsLastOf
<1>2. l \in S /\ \A j \in S : j <= l
  BY <1>1 DEF IsLastOf
<1> HIDE DEF S
<1>a. S \subseteq Int
  BY <1>1
<1>3. Max(S) = l
  BY <1>a, <1>2, MaxIs, Zenon
<1> QED
  BY <1>3 DEF LastFrame, S

(* A region that does not reach frame f ended before it, at a cut or after *)
(* a pause.                                                                *)
EndedBy(l, C, m, f) == l < f /\ (l + 1 + Gap(m) <= f \/ \E c \in C : l < c /\ c <= f)

LEMMA ReachEnds ==
  ASSUME NEW A \in SUBSET Nat, NEW C \in SUBSET Nat, NEW m \in Nat, NEW s \in A, NEW f \in Nat, s < f,
         ~Together(s, f, A, C, m), NEW l, IsLastOf(l, s, A, C, m)
  PROVE  EndedBy(l, C, m, f)
<1> DEFINE G == Gap(m)
<1>1. G \in Nat /\ G >= 1 /\ s \in Nat /\ l \in Nat /\ l \in A /\ s <= l
  BY GapIs DEF IsLastOf
<1>2. Together(s, l, A, C, m)
  BY DEF IsLastOf
<1>3. l < f
  <2> SUFFICES ASSUME f <= l PROVE FALSE
    BY <1>1
  <2> QED
    BY <1>1, <1>2, TogetherBefore
<1>4. /\ ~ \E c \in C : s < c /\ c <= l
      /\ ~ \E k \in s .. (l - G) : k .. (k + G - 1) \cap A = {}
  BY <1>2 DEF Together
<1>5. CASE \E c \in C : s < c /\ c <= f
  <2>1. PICK c \in C : s < c /\ c <= f
    BY <1>5
  <2>2. l < c
    BY <1>1, <1>4, <2>1
  <2> QED
    BY <1>3, <2>1, <2>2 DEF EndedBy
<1>6. CASE \E k \in s .. (f - G) : k .. (k + G - 1) \cap A = {}
  <2>1. PICK k \in s .. (f - G) : k .. (k + G - 1) \cap A = {}
    BY <1>6
  <2>2. k \in Int /\ s <= k /\ k <= f - G
    BY <1>1
  <2>3. ~(k <= l)
    <3> SUFFICES ASSUME k <= l PROVE FALSE
      OBVIOUS
    <3>1. ~(k <= l - G)
      BY <1>1, <1>4, <2>1, <2>2
    <3>2. l \in k .. (k + G - 1)
      BY <1>1, <2>2, <3>1
    <3> QED
      BY <1>1, <2>1, <3>2
  <2>4. l + 1 + G <= f
    BY <1>1, <2>2, <2>3
  <2> QED
    BY <1>3, <2>4 DEF EndedBy
<1>7. (\E c \in C : s < c /\ c <= f) \/ (\E k \in s .. (f - G) : k .. (k + G - 1) \cap A = {})
  BY DEF Together
<1> QED
  BY <1>5, <1>6, <1>7

(* Where a region ends whose tail is kept.                                 *)
EndsAt(e, l, C, n, m) ==
  /\ e \in {l + 1 + Gap(m), n} \/ (e \in C /\ e > l)
  /\ e <= l + 1 + Gap(m) /\ e <= n
  /\ \A c \in C : c > l => e <= c

LEMMA RegionEndOf ==
  ASSUME NEW s, NEW A, NEW C \in SUBSET Nat, NEW n \in Nat, NEW m \in Nat, LastFrame(s, A, C, m) \in Nat
  PROVE  RegionEnd(s, A, C, n, m, "keep") \in Nat
         /\ EndsAt(RegionEnd(s, A, C, n, m, "keep"), LastFrame(s, A, C, m), C, n, m)
<1> DEFINE l == LastFrame(s, A, C, m)
           S == {l + 1 + Gap(m), n} \cup {c \in C : c > l}
           e == RegionEnd(s, A, C, n, m, "keep")
<1>1. Gap(m) \in Nat
  BY GapIs
<1>2. e = Min(S)
  BY DEF RegionEnd
<1>3. l \in Nat
  OBVIOUS
<1> HIDE DEF l
<1>4. S \in SUBSET Nat /\ S # {}
  <2>1. l + 1 + Gap(m) \in Nat
    BY <1>1, <1>3
  <2>2. {l + 1 + Gap(m), n} \subseteq Nat /\ {c \in C : c > l} \subseteq Nat
    BY <2>1, Zenon
  <2> QED
    BY <2>2
<1> HIDE DEF S
<1>a. S \subseteq Int
  BY <1>4
<1>5. PICK x \in S : \A y \in S : x <= y
  BY <1>4, LeastNatural
<1>6. Min(S) = x
  BY <1>a, <1>5, MinIs, Zenon
<1>7. e = x /\ x \in Nat
  BY <1>2, <1>4, <1>6
<1> HIDE DEF e
<1>8. EndsAt(e, l, C, n, m)
  BY <1>5, <1>7, Zenon DEF S, EndsAt
<1> QED
  BY <1>7, <1>8 DEF e, l

LEMMA RegionEndUnique ==
  ASSUME NEW s, NEW A, NEW C \in SUBSET Nat, NEW n \in Nat, NEW m \in Nat, LastFrame(s, A, C, m) \in Nat,
         NEW e, EndsAt(e, LastFrame(s, A, C, m), C, n, m)
  PROVE  RegionEnd(s, A, C, n, m, "keep") = e
<1> DEFINE l == LastFrame(s, A, C, m)
           S == {l + 1 + Gap(m), n} \cup {c \in C : c > l}
<1>1. Gap(m) \in Nat
  BY GapIs
<1>2. l \in Nat /\ EndsAt(e, l, C, n, m)
  OBVIOUS
<1>3. RegionEnd(s, A, C, n, m, "keep") = Min(S)
  BY DEF RegionEnd
<1> HIDE DEF l
<1>4. S \subseteq Int
  <2>1. l + 1 + Gap(m) \in Nat
    BY <1>1, <1>2
  <2>2. {l + 1 + Gap(m), n} \subseteq Nat /\ {c \in C : c > l} \subseteq Nat
    BY <2>1, Zenon
  <2>3. S \subseteq Nat
    BY <2>2
  <2> HIDE DEF S
  <2> QED
    BY <2>3
<1>5. e \in S /\ \A x \in S : e <= x
  BY <1>2 DEF EndsAt
<1> HIDE DEF S
<1> QED
  BY <1>3, <1>4, <1>5, MinIs, Zenon

(* The track A of n frames, cut at C, goes on as the track B of p frames.   *)
Extends(A, C, n, B, D, p) ==
  /\ A \subseteq 0 .. n - 1 /\ C \subseteq 0 .. n /\ A \subseteq B /\ B \subseteq A \cup {n} /\ B \subseteq 0 .. p - 1
  /\ C \subseteq D /\ D \subseteq C \cup {n} /\ p \in {n, n + 1}

LEMMA ExtendsFacts ==
  ASSUME NEW n \in Nat, NEW A, NEW C, NEW B, NEW D, NEW p, Extends(A, C, n, B, D, p)
  PROVE  /\ A \in SUBSET Nat /\ B \in SUBSET Nat /\ C \in SUBSET Nat /\ D \in SUBSET Nat
         /\ A \in SUBSET (0 .. n - 1) /\ p \in Nat /\ n <= p
         /\ \A k \in Nat : k < n => (k \in A <=> k \in B) /\ (k \in C <=> k \in D)
         /\ \A k \in A : k < n
         /\ \A k \in B : k <= n
<1>1. p \in Nat /\ n <= p /\ \A k \in A : k < n
  BY DEF Extends
<1>2. A \in SUBSET Nat /\ C \in SUBSET Nat /\ A \in SUBSET (0 .. n - 1)
  BY DEF Extends
<1>3. B \in SUBSET Nat /\ D \in SUBSET Nat /\ \A k \in B : k <= n
  BY <1>1, <1>2 DEF Extends
<1>4. \A k \in Nat : k < n => (k \in A <=> k \in B) /\ (k \in C <=> k \in D)
  BY DEF Extends
<1> QED
  BY <1>1, <1>2, <1>3, <1>4

LEMMA TogetherStays ==
  ASSUME NEW n \in Nat, NEW A, NEW C, NEW B, NEW D, NEW p, Extends(A, C, n, B, D, p), NEW m \in Nat,
         NEW i \in Nat, NEW j \in Nat, j < n \/ (j = n /\ C = D)
  PROVE  Together(i, j, A, C, m) <=> Together(i, j, B, D, m)
<1>0. /\ A \in SUBSET Nat /\ B \in SUBSET Nat /\ C \in SUBSET Nat /\ D \in SUBSET Nat
      /\ A \in SUBSET (0 .. n - 1) /\ p \in Nat /\ n <= p
      /\ \A k \in Nat : k < n => (k \in A <=> k \in B) /\ (k \in C <=> k \in D)
      /\ \A k \in A : k < n
      /\ \A k \in B : k <= n
  BY ExtendsFacts
<1>1. \A k \in Nat : k < n => (k \in A <=> k \in B)
  BY <1>0
<1>2. \A c \in Nat : c <= j => (c \in C <=> c \in D)
  BY <1>0
<1>3. j <= n
  OBVIOUS
<1>4. A \in SUBSET Nat /\ B \in SUBSET Nat /\ C \in SUBSET Nat /\ D \in SUBSET Nat
  BY <1>0
<1>5. SameUpTo(A, B, C, D, n, j)
  BY <1>1, <1>2 DEF SameUpTo
<1> QED
  BY <1>3, <1>4, <1>5, TogetherLocal

(* The regions that started before go on as they were.                     *)
LEMMA StartsStay ==
  ASSUME NEW n \in Nat, NEW A, NEW C, NEW B, NEW D, NEW p, Extends(A, C, n, B, D, p), NEW m \in Nat,
         NEW s \in Nat, s < n
  PROVE  s \in RegionStarts(A, C, m) <=> s \in RegionStarts(B, D, m)
<1>0. /\ A \in SUBSET Nat /\ B \in SUBSET Nat /\ C \in SUBSET Nat /\ D \in SUBSET Nat
      /\ A \in SUBSET (0 .. n - 1) /\ p \in Nat /\ n <= p
      /\ \A k \in Nat : k < n => (k \in A <=> k \in B) /\ (k \in C <=> k \in D)
      /\ \A k \in A : k < n
      /\ \A k \in B : k <= n
  BY ExtendsFacts
<1>1. s \in A <=> s \in B
  BY <1>0
<1>2. \A i \in Nat : i < s => (i \in A <=> i \in B)
  BY <1>0
<1>3. \A i \in Nat : Together(i, s, A, C, m) <=> Together(i, s, B, D, m)
  BY TogetherStays
<1>4. A \in SUBSET Nat /\ B \in SUBSET Nat
  BY <1>0
<1> QED
  BY <1>1, <1>2, <1>3, <1>4 DEF RegionStarts

(* A region that does not reach the end of the track is not touched.        *)
LEMMA RegionStays ==
  ASSUME NEW n \in Nat, NEW A, NEW C, NEW B, NEW D, NEW p, Extends(A, C, n, B, D, p), NEW m \in Nat,
         NEW s \in A, ~Together(s, n, A, C, m)
  PROVE  /\ LastFrame(s, A, C, m) \in Nat /\ s <= LastFrame(s, A, C, m)
         /\ EndedBy(LastFrame(s, A, C, m), C, m, n)
         /\ LastFrame(s, B, D, m) = LastFrame(s, A, C, m)
         /\ RegionEnd(s, A, C, n, m, "keep") \in Nat
         /\ RegionEnd(s, A, C, n, m, "keep") <= n
         /\ RegionEnd(s, B, D, p, m, "keep") = RegionEnd(s, A, C, n, m, "keep")
<1>0. /\ A \in SUBSET Nat /\ B \in SUBSET Nat /\ C \in SUBSET Nat /\ D \in SUBSET Nat
      /\ A \in SUBSET (0 .. n - 1) /\ p \in Nat /\ n <= p
      /\ \A k \in Nat : k < n => (k \in A <=> k \in B) /\ (k \in C <=> k \in D)
      /\ \A k \in A : k < n
      /\ \A k \in B : k <= n
  BY ExtendsFacts
<1> DEFINE l == LastFrame(s, A, C, m)
           e == RegionEnd(s, A, C, n, m, "keep")
<1>1. s \in Nat /\ s < n /\ s \in B
  BY <1>0
<1>2. IsLastOf(l, s, A, C, m)
  BY <1>0, LastFrameOf
<1>3. EndedBy(l, C, m, n)
  BY <1>1, <1>2, <1>0, ReachEnds
<1>4. l \in A /\ l \in Nat /\ s <= l /\ l < n /\ l \in B
  BY <1>2, <1>3, <1>0, Zenon DEF IsLastOf, EndedBy
<1>5. Together(s, l, B, D, m)
  BY <1>1, <1>2, <1>4, TogetherStays DEF IsLastOf
<1>6. ASSUME NEW j \in B, s <= j, Together(s, j, B, D, m) PROVE j <= l
  <2>1. j \in Nat /\ j <= n
    BY <1>0
  <2>2. CASE j < n
    <3>1. j \in A /\ Together(s, j, A, C, m)
      BY <1>1, <1>6, <2>1, <2>2, <1>0, TogetherStays
    <3> QED
      BY <1>2, <1>6, <3>1 DEF IsLastOf
  <2>3. CASE j = n
    <3>1. Together(s, n, A, D, m)
      <4>1. SameUpTo(A, B, D, D, n, n)
        BY <1>0 DEF SameUpTo
      <4> QED
        BY <1>1, <1>6, <2>3, <4>1, <1>0, TogetherLocal
    <3>2. Together(s, n, A, C, m)
      BY <3>1 DEF Together, Extends
    <3> QED
      BY <3>2
  <2> QED
    BY <2>1, <2>2, <2>3
<1>7. IsLastOf(l, s, B, D, m)
  BY <1>4, <1>5, <1>6 DEF IsLastOf
<1>8. LastFrame(s, B, D, m) = l
  BY <1>1, <1>7, <1>0, LastFrameUnique
<1>9. e \in Nat /\ EndsAt(e, l, C, n, m)
  BY <1>4, <1>0, RegionEndOf
<1> HIDE DEF l, e
<1>g. Gap(m) \in Nat
  BY GapIs
<1>10. e <= n
  BY <1>9 DEF EndsAt
<1>11. EndsAt(e, l, D, p, m)
  <2>1. e \in {l + 1 + Gap(m), p} \/ (e \in D /\ e > l)
    <3>1. CASE e \in C /\ e > l
      BY <3>1 DEF Extends
    <3>2. CASE e = l + 1 + Gap(m)
      BY <3>2
    <3>3. CASE e = n
      <4>1. CASE l + 1 + Gap(m) <= n
        <5>1. e = l + 1 + Gap(m)
          BY <1>9, <1>g, <1>4, <3>3, <4>1 DEF EndsAt
        <5> QED
          BY <5>1
      <4>2. CASE \E c \in C : l < c /\ c <= n
        <5>1. PICK c \in C : l < c /\ c <= n
          BY <4>2
        <5>2. e = c
          BY <1>9, <1>4, <3>3, <5>1, <1>0 DEF EndsAt
        <5> QED
          BY <1>4, <5>1, <5>2, <1>0 DEF Extends
      <4> QED
        BY <1>3, <4>1, <4>2 DEF EndedBy
    <3> QED
      BY <1>9, <3>1, <3>2, <3>3 DEF EndsAt
  <2>2. e <= l + 1 + Gap(m) /\ e <= p
    BY <1>9, <1>10, <1>0 DEF EndsAt
  <2>3. ASSUME NEW c \in D, c > l PROVE e <= c
    <3>1. c \in C \/ c = n
      BY DEF Extends
    <3> QED
      BY <1>9, <1>10, <2>3, <3>1 DEF EndsAt
  <2> QED
    BY <2>1, <2>2, <2>3 DEF EndsAt
<1>12. RegionEnd(s, B, D, p, m, "keep") = e
  <2>1. LastFrame(s, B, D, m) \in Nat /\ EndsAt(e, LastFrame(s, B, D, m), D, p, m)
    BY <1>4, <1>8, <1>11
  <2> QED
    BY <2>1, <1>0, RegionEndUnique
<1> QED
  BY <1>3, <1>4, <1>8, <1>9, <1>10, <1>12 DEF l, e

LEMMA OpenStays ==
  ASSUME NEW n \in Nat, NEW A, NEW C, NEW B, NEW D, NEW p, Extends(A, C, n, B, D, p), NEW m \in Nat,
         NEW s, NEW l, OpenAt(s, l, A, C, m, n)
  PROVE  OpenAt(s, l, B, D, m, n)
<1>0. /\ A \in SUBSET Nat
      /\ \A k \in Nat : k < n => (k \in A <=> k \in B) /\ (k \in C <=> k \in D)
  BY ExtendsFacts
<1>1. s \in A /\ l \in A /\ s \in Nat /\ l \in Nat /\ s <= l /\ l < n /\ s \in RegionStarts(A, C, m)
      /\ Together(s, l, A, C, m) /\ n - 1 - l < Gap(m)
  BY <1>0 DEF OpenAt, RegionStarts
<1>2. s \in RegionStarts(B, D, m)
  <2>1. s < n
    BY <1>1
  <2> QED
    BY <1>1, <2>1, StartsStay
<1>3. Together(s, l, B, D, m)
  BY <1>1, TogetherStays
<1>4. \A k \in (l + 1) .. (n - 1) : k \notin B /\ k \notin D
  BY <1>0, <1>1 DEF OpenAt
<1>5. l \in B
  BY <1>0, <1>1
<1> QED
  BY <1>1, <1>2, <1>3, <1>4, <1>5 DEF OpenAt

LEMMA NoReachStays ==
  ASSUME NEW n \in Nat, NEW A, NEW C, NEW B, NEW p, Extends(A, C, n, B, C, p), NEW m \in Nat,
         NoReach(A, A, C, m, n)
  PROVE  NoReach(B, B, C, m, n)
<1>0. /\ B \in SUBSET Nat
      /\ \A k \in Nat : k < n => (k \in A <=> k \in B) /\ (k \in C <=> k \in C)
  BY ExtendsFacts
<1>1. ASSUME NEW i \in B, i < n PROVE ~Together(i, n, B, C, m)
  <2>1. i \in A /\ i \in Nat
    BY <1>0, <1>1
  <2>2. ~Together(i, n, A, C, m)
    BY <1>1, <2>1 DEF NoReach
  <2> QED
    BY <2>1, <2>2, TogetherStays
<1> QED
  BY <1>1 DEF NoReach

(* The region that is open is the latest, and its end is not yet known.     *)
LEMMA OpenIsLatest ==
  ASSUME NEW n \in Nat, NEW A \in SUBSET (0 .. n - 1), NEW C \in SUBSET Nat, NEW m \in Nat,
         NEW s, NEW l, OpenAt(s, l, A, C, m, n), n \notin C, NEW q \in RegionStarts(A, C, m), q # s
  PROVE  q < s /\ ~Together(q, n, A, C, m)
<1>0. A \in SUBSET Nat
  OBVIOUS
<1>1. s \in A /\ s \in Nat /\ s < n /\ q \in A /\ q \in Nat /\ q < n
  BY <1>0 DEF OpenAt, RegionStarts
<1>2. \A i \in A : i < s => ~Together(i, s, A, C, m)
  BY DEF OpenAt, RegionStarts
<1>3. \A i \in A : i < q => ~Together(i, q, A, C, m)
  BY DEF RegionStarts
<1>4. Together(s, n, A, C, m)
  BY <1>0, OpenReaches
<1>5. ~(s < q)
  <2> SUFFICES ASSUME s < q PROVE FALSE
    OBVIOUS
  <2>1. Together(s, q, A, C, m)
    BY <1>0, <1>1, <1>4, TogetherBefore
  <2> QED
    BY <1>1, <1>3, <2>1
<1>6. q < s
  BY <1>1, <1>5
<1>7. ASSUME Together(q, n, A, C, m) PROVE FALSE
  <2>1. Together(q, s, A, C, m)
    BY <1>0, <1>1, <1>7, TogetherBefore
  <2> QED
    BY <1>1, <1>2, <1>6, <2>1
<1> QED
  BY <1>6, <1>7

LEMMA OpenLast ==
  ASSUME NEW n \in Nat, NEW A \in SUBSET (0 .. n - 1), NEW C \in SUBSET Nat, NEW m \in Nat,
         NEW s, NEW l, OpenAt(s, l, A, C, m, n)
  PROVE  IsLastOf(l, s, A, C, m) /\ LastFrame(s, A, C, m) = l /\ s \in A /\ l \in Nat /\ l < n /\ s <= l
<1>0. A \in SUBSET Nat
  OBVIOUS
<1>1. l \in A /\ s <= l /\ Together(s, l, A, C, m) /\ s \in A /\ l \in Nat /\ l < n
  BY <1>0 DEF OpenAt, RegionStarts
<1>2. ASSUME NEW j \in A PROVE j <= l
  <2>1. j \in Nat /\ j < n
    OBVIOUS
  <2>2. j \notin l + 1 .. n - 1
    BY DEF OpenAt
  <2> QED
    BY <1>1, <2>1, <2>2
<1>3. IsLastOf(l, s, A, C, m)
  BY <1>1, <1>2 DEF IsLastOf
<1> QED
  BY <1>0, <1>1, <1>3, LastFrameUnique

LEMMA OpenHasNoEnd ==
  ASSUME NEW n \in Nat, NEW A \in SUBSET (0 .. n - 1), NEW C \in SUBSET (0 .. n), NEW m \in Nat,
         NEW s, NEW l, OpenAt(s, l, A, C, m, n), n \notin C
  PROVE  /\ RegionEnd(s, A, C, n, m, "keep") = n /\ l + 1 + Gap(m) > n /\ \A c \in C : ~(c > l)
<1>g. Gap(m) \in Nat
  BY GapIs
<1>1. l \in Nat /\ l < n /\ LastFrame(s, A, C, m) = l
  BY OpenLast
<1>2. l + 1 + Gap(m) > n
  BY <1>g, <1>1 DEF OpenAt
<1>3. ASSUME NEW c \in C, c > l PROVE FALSE
  <2>1. c \in l + 1 .. n - 1
    BY <1>1, <1>3
  <2> QED
    BY <2>1 DEF OpenAt
<1>4. EndsAt(n, l, C, n, m)
  BY <1>2, <1>3, <1>1, <1>g DEF EndsAt
<1>5. RegionEnd(s, A, C, n, m, "keep") = n
  BY <1>1, <1>4, RegionEndUnique
<1> QED
  BY <1>2, <1>3, <1>5

(* A region ends before the next one starts.                               *)
LEMMA EndsBefore ==
  ASSUME NEW n \in Nat, NEW A \in SUBSET (0 .. n - 1), NEW C \in SUBSET Nat, NEW m \in Nat,
         NEW q \in RegionStarts(A, C, m), NEW s \in RegionStarts(A, C, m), q < s
  PROVE  RegionEnd(q, A, C, n, m, "keep") \in Nat /\ RegionEnd(q, A, C, n, m, "keep") <= s
<1> DEFINE l == LastFrame(q, A, C, m)
           e == RegionEnd(q, A, C, n, m, "keep")
<1>0. A \in SUBSET Nat /\ q \in A /\ s \in A /\ s \in Nat /\ q \in Nat
  BY DEF RegionStarts
<1>1. ~Together(q, s, A, C, m)
  BY <1>0 DEF RegionStarts
<1>2. IsLastOf(l, q, A, C, m)
  BY <1>0, LastFrameOf, Zenon
<1>3. EndedBy(l, C, m, s)
  BY <1>0, <1>1, <1>2, ReachEnds
<1>4. l \in Nat
  BY <1>0, <1>2, Zenon DEF IsLastOf
<1>5. e \in Nat /\ EndsAt(e, l, C, n, m)
  BY <1>4, RegionEndOf
<1> HIDE DEF l, e
<1>g. Gap(m) \in Nat
  BY GapIs
<1>6. ASSUME l + 1 + Gap(m) <= s PROVE e <= s
  <2>1. e <= l + 1 + Gap(m)
    BY <1>5 DEF EndsAt
  <2> QED
    BY <1>0, <1>4, <1>5, <1>6, <1>g, <2>1
<1>7. ASSUME NEW c \in C, l < c, c <= s PROVE e <= s
  <2>1. e <= c /\ c \in Nat
    BY <1>4, <1>5, <1>7 DEF EndsAt
  <2> QED
    BY <1>0, <1>5, <1>7, <2>1
<1>8. e <= s
  BY <1>3, <1>6, <1>7 DEF EndedBy
<1> QED
  BY <1>5, <1>8 DEF e

(* An open region keeps its start, also when it closes.                    *)
LEMMA CloseKeepsStart ==
  ASSUME NEW f \in Nat, NEW tr \in Trackers(f), NEW e
  PROVE  Close(tr, e).tracker.start = tr.start
<1>1. tr \in [inRegion : BOOLEAN, start : 0 .. f, lastActive : 0 .. f, off : 0 .. f]
  BY DEF Trackers
<1> DEFINE v == [tr EXCEPT !.inRegion = FALSE]
           u == [v EXCEPT !.off = 0]
<1>2. v \in [inRegion : BOOLEAN, start : 0 .. f, lastActive : 0 .. f, off : 0 .. f] /\ v.start = tr.start
  BY <1>1, Zenon
<1> HIDE DEF v
<1>3. u.start = tr.start
  BY <1>2
<1>4. Close(tr, e) = Result(u, EndOf(tr.start, e))
  BY DEF Close, u, v
<1> HIDE DEF u
<1> QED
  BY <1>3, <1>4 DEF Result

LEMMA AdvanceCloses ==
  ASSUME NEW m \in Nat, NEW f \in Nat, NEW tr, TrackerAt(tr, f, m), tr.inRegion,
         NEW active \in BOOLEAN, ~active, NEW r, r = Advance(tr, active, f, m, "keep"), ~r.tracker.inRegion
  PROVE  r.tracker.start = tr.start
<1>1. tr \in Trackers(f) /\ tr \in [inRegion : BOOLEAN, start : 0 .. f, lastActive : 0 .. f, off : 0 .. f]
  BY DEF TrackerAt, Trackers
<1>i. tr.off \in Int
  BY <1>1
<1>2. ASSUME tr.off + 1 < m PROVE FALSE
  <2> DEFINE u == [tr EXCEPT !.off = tr.off + 1]
  <2>1. u.inRegion = tr.inRegion
    BY <1>1, Zenon
  <2>2. Advance(tr, active, f, m, "keep") = Result(u, NoEvent)
    BY <1>1, <1>2 DEF Advance
  <2> HIDE DEF u
  <2>3. r.tracker = u
    BY <2>2 DEF Result
  <2> QED
    BY <2>1, <2>3, Zenon
<1>3. r = Close(tr, f + 1)
  <2>1. tr.off + 1 >= m /\ ~(tr.off + 1 < m)
    BY <1>i, <1>2
  <2>2. Advance(tr, active, f, m, "keep") = Close(tr, f + 1)
    BY <2>1 DEF Advance
  <2> QED
    BY <2>2
<1> QED
  BY <1>1, <1>3, CloseKeepsStart

LEMMA StartsSame ==
  ASSUME NEW n \in Nat, NEW A, NEW C, NEW B, NEW D, NEW p, Extends(A, C, n, B, D, p), NEW m \in Nat,
         n \notin RegionStarts(B, D, m)
  PROVE  RegionStarts(B, D, m) = RegionStarts(A, C, m)
<1>0. A \in SUBSET Nat /\ B \in SUBSET Nat /\ (\A k \in A : k < n) /\ (\A k \in B : k <= n)
  BY ExtendsFacts
<1>1. ASSUME NEW s \in RegionStarts(B, D, m) PROVE s \in RegionStarts(A, C, m)
  <2>1. s \in Nat /\ s < n
    BY <1>0 DEF RegionStarts
  <2> QED
    BY <2>1, StartsStay
<1>2. ASSUME NEW s \in RegionStarts(A, C, m) PROVE s \in RegionStarts(B, D, m)
  <2>1. s \in Nat /\ s < n
    BY <1>0 DEF RegionStarts
  <2> QED
    BY <2>1, StartsStay
<1> QED
  BY <1>1, <1>2

LEMMA StartsMore ==
  ASSUME NEW n \in Nat, NEW A, NEW C, NEW B, NEW D, NEW p, Extends(A, C, n, B, D, p), NEW m \in Nat,
         n \in RegionStarts(B, D, m)
  PROVE  RegionStarts(B, D, m) = RegionStarts(A, C, m) \cup {n}
<1>0. A \in SUBSET Nat /\ B \in SUBSET Nat /\ (\A k \in A : k < n) /\ (\A k \in B : k <= n)
  BY ExtendsFacts
<1>1. ASSUME NEW s \in RegionStarts(B, D, m), s # n PROVE s \in RegionStarts(A, C, m)
  <2>1. s \in Nat /\ s < n
    BY <1>0, <1>1 DEF RegionStarts
  <2> QED
    BY <2>1, StartsStay
<1>2. ASSUME NEW s \in RegionStarts(A, C, m) PROVE s \in RegionStarts(B, D, m)
  <2>1. s \in Nat /\ s < n
    BY <1>0 DEF RegionStarts
  <2> QED
    BY <2>1, StartsStay
<1> QED
  BY <1>1, <1>2, Zenon

(* A region that closes ends at g, where it is closed.                      *)
LEMMA ClosesAt ==
  ASSUME NEW A \in SUBSET Nat, NEW C \in SUBSET Nat, NEW m \in Nat, NEW s, NEW l, NEW f \in Nat, NEW g \in Nat,
         OpenAt(s, l, A, C, m, f), g = f \/ (g = f + 1 /\ f \notin A), NoReach(A, A, C, m, g),
         EndsAt(g, l, C, g, m)
  PROVE  LastFrame(s, A, C, m) = l /\ RegionEnd(s, A, C, g, m, "keep") = g
<1>1. LastFrame(s, A, C, m) = l
  BY OpenEnds
<1>2. l \in Nat
  BY DEF OpenAt
<1>3. LastFrame(s, A, C, m) \in Nat /\ EndsAt(g, LastFrame(s, A, C, m), C, g, m)
  BY <1>1, <1>2
<1> QED
  BY <1>1, <1>3, RegionEndUnique

(* A frame of the stream: the tracker stays on the track that grows.       *)
LEMMA StreamAdvances ==
  ASSUME NEW n \in Nat, NEW A, NEW C, NEW B, Extends(A, C, n, B, C, n + 1), NEW m \in Nat,
         NEW tr, Tracks(tr, A, C, m, n), tr.inRegion => n \notin C,
         NEW act \in BOOLEAN, act <=> n \in B, NEW r, r = Advance(tr, act, n, m, "keep")
  PROVE  /\ Tracks(r.tracker, B, C, m, n + 1)
         /\ \/ /\ tr.inRegion /\ r.tracker.inRegion /\ r.event = NoEvent /\ r.tracker.start = tr.start
               /\ RegionStarts(B, C, m) = RegionStarts(A, C, m)
            \/ /\ tr.inRegion /\ ~r.tracker.inRegion /\ r.event = EndOf(tr.start, n + 1)
               /\ r.tracker.start = tr.start /\ RegionStarts(B, C, m) = RegionStarts(A, C, m)
               /\ RegionEnd(tr.start, B, C, n + 1, m, "keep") = n + 1
               /\ LastFrame(tr.start, B, C, m) + 1 + Gap(m) = n + 1
            \/ /\ ~tr.inRegion /\ r.tracker.inRegion /\ r.event = StartOf(n) /\ r.tracker.start = n
               /\ RegionStarts(B, C, m) = RegionStarts(A, C, m) \cup {n}
            \/ /\ ~tr.inRegion /\ ~r.tracker.inRegion /\ r.event = NoEvent
               /\ RegionStarts(B, C, m) = RegionStarts(A, C, m)
<1> DEFINE u == r.tracker
           G == Gap(m)
<1>0. /\ A \in SUBSET Nat /\ B \in SUBSET Nat /\ C \in SUBSET Nat /\ A \in SUBSET (0 .. n - 1)
      /\ (\A k \in Nat : k < n => (k \in A <=> k \in B))
      /\ (\A k \in A : k < n) /\ (\A k \in B : k <= n)
  BY ExtendsFacts
<1>g. G \in Nat /\ G >= 1
  BY GapIs
<1>1. TrackerAt(tr, n, m) /\ TrackerAt(u, n + 1, m)
  BY TrackerMoves DEF Tracks
<1>2. /\ tr.inRegion => OpenAt(tr.start, tr.lastActive, A, C, m, n)
      /\ ~tr.inRegion => NoReach(A, A, C, m, n)
  BY DEF Tracks
<1>3. /\ tr.inRegion => OpenAt(tr.start, tr.lastActive, B, C, m, n)
      /\ ~tr.inRegion => NoReach(B, B, C, m, n)
  BY <1>2, OpenStays, NoReachStays
<1>c. n + 1 \notin C /\ C \subseteq 0 .. n
  BY DEF Extends
<1> HIDE DEF u
<1>no. ASSUME n \notin RegionStarts(B, C, m) PROVE RegionStarts(B, C, m) = RegionStarts(A, C, m)
  BY <1>no, StartsSame
<1>4. ASSUME tr.inRegion, act, u.inRegion, r.event = NoEvent, u.start = tr.start, u.lastActive = n
      PROVE  Tracks(u, B, C, m, n + 1) /\ RegionStarts(B, C, m) = RegionStarts(A, C, m)
  <2>1. OpenAt(u.start, u.lastActive, B, C, m, n + 1) /\ n \notin RegionStarts(B, C, m)
    BY <1>0, <1>3, <1>4, RegionGrows
  <2> QED
    BY <1>1, <1>4, <1>no, <2>1 DEF Tracks
<1>5. ASSUME tr.inRegion, ~act, u.inRegion, r.event = NoEvent,
             u.start = tr.start, u.lastActive = tr.lastActive, n - tr.lastActive < G
      PROVE  Tracks(u, B, C, m, n + 1) /\ RegionStarts(B, C, m) = RegionStarts(A, C, m)
  <2>1. OpenAt(u.start, u.lastActive, B, C, m, n + 1)
    BY <1>0, <1>3, <1>5, RegionWaits
  <2>2. n \notin RegionStarts(B, C, m)
    BY <1>5 DEF RegionStarts
  <2> QED
    BY <1>1, <1>5, <1>no, <2>1, <2>2 DEF Tracks
<1>6. ASSUME tr.inRegion, ~act, ~u.inRegion, n - tr.lastActive = G
      PROVE  /\ Tracks(u, B, C, m, n + 1) /\ RegionStarts(B, C, m) = RegionStarts(A, C, m)
             /\ u.start = tr.start
             /\ RegionEnd(tr.start, B, C, n + 1, m, "keep") = n + 1
             /\ LastFrame(tr.start, B, C, m) + 1 + G = n + 1
  <2> DEFINE l == tr.lastActive
             s == tr.start
  <2>1. OpenAt(s, l, B, C, m, n)
    BY <1>3, <1>6
  <2>2. s \in Nat /\ l \in Nat /\ s <= l /\ l < n /\ n \notin B
    BY <1>0, <1>6, <2>1, Zenon DEF OpenAt, RegionStarts
  <2>3. \A k \in l + 1 .. n : k \notin B /\ k \notin C
    <3> TAKE k \in l + 1 .. n
    <3>1. k = n \/ k \in l + 1 .. n - 1
      BY <2>2
    <3> QED
      BY <3>1, <2>1, <2>2, <1>6 DEF OpenAt
  <2> HIDE DEF l, s
  <2>4. NoReach(B, B, C, m, n + 1)
    BY <1>0, <2>2, <2>3, <1>6, PauseCuts DEF l
  <2>a. \A c \in C : c > l => n + 1 <= c
    <3> TAKE c \in C
    <3>1. c \in Nat /\ c <= n /\ c \notin l + 1 .. n
      BY <1>c, <2>3
    <3> QED
      BY <2>2, <3>1
  <2>b. l + 1 + G = n + 1
    BY <1>6, <1>g, <2>2 DEF l
  <2>5. EndsAt(n + 1, l, C, n + 1, m)
    BY <2>a, <2>b, <2>2, <1>g DEF EndsAt
  <2>6. LastFrame(s, B, C, m) = l /\ RegionEnd(s, B, C, n + 1, m, "keep") = n + 1
    <3>1. n + 1 \in Nat /\ n \notin B
      BY <2>2
    <3> QED
      BY <1>0, <2>1, <2>4, <2>5, <3>1, ClosesAt
  <2>7. n \notin RegionStarts(B, C, m)
    BY <2>2 DEF RegionStarts
  <2>8. u.start = tr.start
    <3>1. tr.inRegion /\ ~act /\ ~r.tracker.inRegion /\ TrackerAt(tr, n, m)
      BY <1>1, <1>6 DEF u
    <3>2. r.tracker.start = tr.start
      BY <3>1, AdvanceCloses
    <3> QED
      BY <3>2 DEF u
  <2>9. Tracks(u, B, C, m, n + 1)
    BY <1>1, <1>6, <2>4 DEF Tracks
  <2> QED
    BY <1>no, <2>6, <2>7, <2>8, <2>9, <2>b DEF l, s
<1>7. ASSUME ~tr.inRegion, act, u.inRegion, u.start = n, u.lastActive = n
      PROVE  Tracks(u, B, C, m, n + 1) /\ RegionStarts(B, C, m) = RegionStarts(A, C, m) \cup {n}
  <2>1. n \in RegionStarts(B, C, m) /\ OpenAt(n, n, B, C, m, n + 1)
    BY <1>0, <1>3, <1>7, RegionOpens
  <2> QED
    BY <1>1, <1>7, <2>1, StartsMore DEF Tracks
<1>8. ASSUME ~tr.inRegion, ~act, u = tr
      PROVE  Tracks(u, B, C, m, n + 1) /\ RegionStarts(B, C, m) = RegionStarts(A, C, m)
  <2>1. n \notin B /\ n \notin RegionStarts(B, C, m)
    BY <1>8 DEF RegionStarts
  <2>2. NoReach(B, B, C, m, n + 1)
    BY <1>0, <1>3, <1>8, <2>1, SilenceStays
  <2> QED
    BY <1>1, <1>8, <1>no, <2>1, <2>2 DEF Tracks
<1>9. \/ /\ tr.inRegion /\ act /\ u.inRegion /\ r.event = NoEvent
         /\ u.start = tr.start /\ u.lastActive = n
      \/ /\ tr.inRegion /\ ~act /\ u.inRegion /\ r.event = NoEvent
         /\ u.start = tr.start /\ u.lastActive = tr.lastActive /\ n - tr.lastActive < G
      \/ /\ tr.inRegion /\ ~act /\ ~u.inRegion /\ n - tr.lastActive = G
         /\ r.event = EndOf(tr.start, n + 1)
      \/ /\ ~tr.inRegion /\ act /\ u.inRegion /\ r.event = StartOf(n)
         /\ u.start = n /\ u.lastActive = n
      \/ ~tr.inRegion /\ ~act /\ u = tr /\ r.event = NoEvent
  BY <1>1, TrackerMoves DEF u
<1> HIDE DEF G
<1> QED
  BY <1>4, <1>5, <1>6, <1>7, <1>8, <1>9 DEF u, G

(* A flush of the stream: the open region ends at the cut.                  *)
LEMMA StreamFlushes ==
  ASSUME NEW n \in Nat, NEW A, NEW C, NEW D, Extends(A, C, n, A, D, n), D = C \cup {n}, NEW m \in Nat,
         NEW tr, Tracks(tr, A, C, m, n), tr.inRegion => n \notin C, NEW r, r = Flush(tr, n, "keep")
  PROVE  /\ Tracks(r.tracker, A, D, m, n) /\ ~r.tracker.inRegion
         /\ RegionStarts(A, D, m) = RegionStarts(A, C, m)
         /\ \/ /\ tr.inRegion /\ r.event = EndOf(tr.start, n) /\ r.tracker.start = tr.start
               /\ RegionEnd(tr.start, A, D, n, m, "keep") = n
               /\ LastFrame(tr.start, A, D, m) \in Nat
               /\ LastFrame(tr.start, A, D, m) < n /\ n < LastFrame(tr.start, A, D, m) + 1 + Gap(m)
            \/ ~tr.inRegion /\ r.event = NoEvent /\ r.tracker = tr
<1> DEFINE u == r.tracker
           G == Gap(m)
<1>0. /\ A \in SUBSET Nat /\ C \in SUBSET Nat /\ D \in SUBSET Nat /\ A \in SUBSET (0 .. n - 1)
      /\ (\A k \in A : k < n)
  BY ExtendsFacts
<1>g. G \in Nat /\ G >= 1
  BY GapIs
<1>1. TrackerAt(tr, n, m) /\ (tr.inRegion => OpenAt(tr.start, tr.lastActive, A, C, m, n))
  BY DEF Tracks
<1>2. /\ TrackerAt(u, n, m) /\ ~u.inRegion
      /\ \/ tr.inRegion /\ r.event = EndOf(tr.start, n)
         \/ ~tr.inRegion /\ r.event = NoEvent
  BY <1>1, FlushMoves
<1> HIDE DEF u, G
<1>3. NoReach(A, A, D, m, n)
  BY DEF NoReach, Together
<1>4. Tracks(u, A, D, m, n)
  BY <1>2, <1>3 DEF Tracks
<1>5. RegionStarts(A, D, m) = RegionStarts(A, C, m)
  <2>1. n \notin A
    BY <1>0
  <2>2. n \notin RegionStarts(A, D, m)
    BY <2>1 DEF RegionStarts
  <2> QED
    BY <2>2, StartsSame
<1>6. ASSUME tr.inRegion
      PROVE  /\ u.start = tr.start /\ RegionEnd(tr.start, A, D, n, m, "keep") = n
             /\ LastFrame(tr.start, A, D, m) \in Nat
             /\ LastFrame(tr.start, A, D, m) < n /\ n < LastFrame(tr.start, A, D, m) + 1 + Gap(m)
  <2> DEFINE l == tr.lastActive
             s == tr.start
  <2>1. OpenAt(s, l, A, C, m, n)
    BY <1>1, <1>6
  <2>2. OpenAt(s, l, A, D, m, n)
    BY <2>1, OpenStays
  <2>3. l \in Nat /\ l < n /\ n - 1 - l < G
    BY <1>0, <2>1, Zenon DEF OpenAt, G
  <2>4. n < l + 1 + G
    BY <1>g, <2>3
  <2>5. \A c \in D : c > l => n <= c
    <3> TAKE c \in D
    <3>1. c \in Nat /\ c \notin l + 1 .. n - 1
      BY <1>0, <2>2 DEF OpenAt
    <3> QED
      BY <2>3, <3>1
  <2> HIDE DEF l, s
  <2>6. EndsAt(n, l, D, n, m)
    BY <2>3, <2>4, <2>5, <1>g DEF EndsAt, G
  <2>7. LastFrame(s, A, D, m) = l /\ RegionEnd(s, A, D, n, m, "keep") = n
    BY <1>0, <1>3, <2>2, <2>6, ClosesAt
  <2>8. u.start = tr.start
    <3>1. tr \in Trackers(n)
      BY <1>1 DEF TrackerAt
    <3>2. r = Close(tr, n)
      BY <1>6 DEF Flush
    <3> QED
      BY <3>1, <3>2, CloseKeepsStart DEF u
  <2> QED
    BY <2>3, <2>4, <2>7, <2>8 DEF l, s, G
<1>7. ASSUME ~tr.inRegion PROVE u = tr
  BY <1>7 DEF Flush, Result, u
<1> QED
  BY <1>2, <1>4, <1>5, <1>6, <1>7 DEF u

-----------------------------------------------------------------------------
(* The windows of a region: those of a first sample, each a hop further.    *)

WindowsIn(first, h, upto, bound) ==
  {<<w, w + Win>> : w \in {first + k * h : k \in {k \in 0 .. bound : first + k * h + Win <= upto}}}

WindowsBelow(first, h, next, bound) ==
  {<<w, w + Win>> : w \in {first + k * h : k \in {k \in 0 .. bound : first + k * h < next}}}

WindowAt(first, h, k) == <<first + k * h, first + k * h + Win>>
FirstWindows(first, h, K) == {WindowAt(first, h, k) : k \in 0 .. K - 1}

LEMMA HopsGrow ==
  ASSUME NEW h \in Nat, h >= 1, NEW j \in Nat, NEW k \in Nat
  PROVE  /\ j * h \in Nat /\ j * h >= j /\ (j + 1) * h = j * h + h
         /\ (j <= k => j * h <= k * h)
         /\ (j < k => j * h + h <= k * h)
<1>1. j * h \in Nat /\ k * h \in Nat /\ j * h >= j /\ (j + 1) * h = j * h + h
  OBVIOUS
<1>2. ASSUME NEW a \in Nat, NEW b \in Nat, a <= b PROVE a * h <= b * h
  <2>1. PICK d \in Nat : b = a + d
    <3>1. b - a \in Nat /\ b = a + (b - a)
      BY <1>2
    <3> QED
      BY <3>1
  <2>2. (a + d) * h = a * h + d * h /\ d * h \in Nat /\ a * h \in Nat
    OBVIOUS
  <2> QED
    BY <2>1, <2>2
<1>3. j < k => (j + 1) * h <= k * h
  <2>1. j < k => j + 1 <= k
    OBVIOUS
  <2> QED
    BY <1>2, <2>1
<1> QED
  BY <1>1, <1>2, <1>3

LEMMA WindowsInAre ==
  ASSUME NEW first \in Nat, NEW h \in Nat, h >= 1, NEW upto \in Nat, NEW bound \in Nat, upto <= bound,
         Win \in Nat, NEW K \in Nat, K # 0 => first + (K - 1) * h + Win <= upto, upto < first + K * h + Win
  PROVE  WindowsIn(first, h, upto, bound) = FirstWindows(first, h, K)
<1>1. ASSUME NEW k \in 0 .. bound, first + k * h + Win <= upto PROVE k \in 0 .. K - 1
  <2>1. k \in Nat /\ k * h \in Nat /\ K * h \in Nat /\ (K <= k => K * h <= k * h)
    BY HopsGrow
  <2> QED
    BY <1>1, <2>1
<1>2. ASSUME NEW k \in 0 .. K - 1 PROVE k \in 0 .. bound /\ first + k * h + Win <= upto
  <2>1. k \in Nat /\ K - 1 \in Nat /\ k <= K - 1
    OBVIOUS
  <2>2. k * h \in Nat /\ k <= k * h /\ (K - 1) * h \in Nat /\ k * h <= (K - 1) * h
    BY <2>1, HopsGrow
  <2> QED
    BY <2>1, <2>2
<1>3. {k \in 0 .. bound : first + k * h + Win <= upto} = 0 .. K - 1
  BY <1>1, <1>2
<1> QED
  BY <1>3, Zenon DEF WindowsIn, FirstWindows, WindowAt

LEMMA WindowsBelowAre ==
  ASSUME NEW first \in Nat, NEW h \in Nat, h >= 1, NEW bound \in Nat, NEW K \in Nat, NEW next,
         next = first + K * h, next <= bound
  PROVE  WindowsBelow(first, h, next, bound) = FirstWindows(first, h, K)
<1>1. ASSUME NEW k \in 0 .. bound, first + k * h < next PROVE k \in 0 .. K - 1
  <2>1. k \in Nat /\ k * h \in Nat /\ K * h \in Nat /\ (K <= k => K * h <= k * h)
    BY HopsGrow
  <2> QED
    BY <1>1, <2>1
<1>2. ASSUME NEW k \in 0 .. K - 1 PROVE k \in 0 .. bound /\ first + k * h < next
  <2>1. k \in Nat /\ k < K
    OBVIOUS
  <2>2. k * h \in Nat /\ k <= k * h /\ K * h \in Nat /\ k * h + h <= K * h
    BY <2>1, HopsGrow
  <2> QED
    BY <2>1, <2>2
<1>3. {k \in 0 .. bound : first + k * h < next} = 0 .. K - 1
  BY <1>1, <1>2
<1> QED
  BY <1>3, Zenon DEF WindowsBelow, FirstWindows, WindowAt

(* How many windows a region holds does not depend on the length of the track.*)
LEMMA WindowsInSame ==
  ASSUME NEW first \in Nat, NEW h \in Nat, h >= 1, NEW upto \in Nat, NEW b \in Nat, NEW c \in Nat,
         upto <= b, upto <= c, Win \in Nat
  PROVE  WindowsIn(first, h, upto, b) = WindowsIn(first, h, upto, c)
<1>1. ASSUME NEW k \in Nat, first + k * h + Win <= upto PROVE k \in 0 .. b /\ k \in 0 .. c
  <2>1. k * h \in Nat /\ k <= k * h
    BY HopsGrow
  <2> QED
    BY <1>1, <2>1
<1>2. {k \in 0 .. b : first + k * h + Win <= upto} = {k \in 0 .. c : first + k * h + Win <= upto}
  BY <1>1
<1> QED
  BY <1>2 DEF WindowsIn

LEMMA FirstWindowsCount ==
  ASSUME NEW first \in Nat, NEW h \in Nat, h >= 1, NEW K \in Nat
  PROVE  IsFiniteSet(FirstWindows(first, h, K)) /\ Cardinality(FirstWindows(first, h, K)) = K
<1> DEFINE f == [k \in 1 .. K |-> WindowAt(first, h, k - 1)]
           S == FirstWindows(first, h, K)
<1>1. \A k \in 1 .. K : f[k] \in S
  <2> TAKE k \in 1 .. K
  <2>1. k - 1 \in 0 .. K - 1
    OBVIOUS
  <2> QED
    BY <2>1 DEF FirstWindows
<1>2. \A w \in S : \E k \in 1 .. K : f[k] = w
  <2> TAKE w \in S
  <2>1. PICK k \in 0 .. K - 1 : w = WindowAt(first, h, k)
    BY DEF FirstWindows
  <2>2. k + 1 \in 1 .. K /\ (k + 1) - 1 = k
    OBVIOUS
  <2> QED
    BY <2>1, <2>2
<1>3. ASSUME NEW j \in 1 .. K, NEW k \in 1 .. K, j < k PROVE f[j] # f[k]
  <2>1. j - 1 \in Nat /\ k - 1 \in Nat /\ j - 1 < k - 1
    BY <1>3
  <2>2. (j - 1) * h \in Nat /\ (k - 1) * h \in Nat /\ (j - 1) * h + h <= (k - 1) * h
    BY <2>1, HopsGrow
  <2>3. first + (j - 1) * h # first + (k - 1) * h
    BY <2>2
  <2> QED
    BY <2>3 DEF WindowAt
<1>4. f \in Bijection(1 .. K, S)
  <2>1. f \in [1 .. K -> S]
    BY <1>1
  <2> HIDE DEF f, S
  <2>2. \A j, k \in 1 .. K : j = k \/ j < k \/ k < j
    OBVIOUS
  <2>3. f \in Injection(1 .. K, S)
    BY <1>3, <2>1, <2>2 DEF Injection, IsInjective
  <2>4. f \in Surjection(1 .. K, S)
    BY <1>2, <2>1 DEF Surjection
  <2> QED
    BY <2>3, <2>4 DEF Bijection
<1> HIDE DEF f, S
<1>5. ExistsBijection(1 .. K, S)
  BY <1>4 DEF ExistsBijection
<1>6. IsFiniteSet(S) /\ Cardinality(S) = K
  BY <1>5, FS_CountingElements, FS_NatBijection
<1> QED
  BY <1>6 DEF S

LEMMA FirstWindowsMore ==
  ASSUME NEW first, NEW h, NEW K \in Nat
  PROVE  /\ FirstWindows(first, h, 0) = {}
         /\ FirstWindows(first, h, K + 1) = FirstWindows(first, h, K) \cup {WindowAt(first, h, K)}
<1>1. 0 .. 0 - 1 = {}
  OBVIOUS
<1>2. FirstWindows(first, h, 0) = {}
  BY <1>1 DEF FirstWindows
<1>3. \A k : k \in 0 .. K + 1 - 1 <=> k \in 0 .. K - 1 \/ k = K
  OBVIOUS
<1>4. FirstWindows(first, h, K + 1) = FirstWindows(first, h, K) \cup {WindowAt(first, h, K)}
  BY <1>3 DEF FirstWindows
<1> QED
  BY <1>2, <1>4

-----------------------------------------------------------------------------
(* The regions of the stream.                                              *)

\* A region that the end of the track does not reach.
Settled(s) == ~Together(s, totalFrames, ActiveFrames, Cuts, MinOff)

\* What is known of the open region, and of those before it.
RegionsAre ==
  /\ tracker.inRegion =>
       /\ tracker.start \in Starts /\ EndOfRegion(tracker.start) = totalFrames
       /\ ~IsClosed(tracker.start) /\ AudioEnd(tracker.start) = totalFrames * FrameSize
       /\ \A s \in Starts : s # tracker.start => Settled(s) /\ EndOfRegion(s) <= tracker.start
  /\ ~tracker.inRegion => \A s \in Starts : Settled(s)
  /\ \A s \in Starts : s \in Nat /\ s < totalFrames

LEMMA TrackFacts ==
  ASSUME StreamingAssumption, TypeOK, FollowsTheTrack
  PROVE  /\ totalFrames \in Nat /\ ActiveFrames \in SUBSET (0 .. totalFrames - 1) /\ Cuts \in SUBSET (0 .. totalFrames)
         /\ ActiveFrames \in SUBSET Nat /\ Cuts \in SUBSET Nat
         /\ MinOff \in Nat /\ Tracks(tracker, ActiveFrames, Cuts, MinOff, totalFrames)
         /\ Gap(MinOff) \in Nat /\ Gap(MinOff) >= 1
<1>1. totalFrames \in Nat /\ Len(track) = totalFrames /\ MinOff \in Nat
  BY DEF TypeOK, StreamingAssumption
<1>2. ActiveFrames \in SUBSET (0 .. totalFrames - 1)
  BY <1>1 DEF ActiveFrames
<1>3. Cuts \in SUBSET (0 .. totalFrames) /\ Tracks(tracker, ActiveFrames, Cuts, MinOff, totalFrames)
  BY DEF FollowsTheTrack
<1>4. Gap(MinOff) \in Nat /\ Gap(MinOff) >= 1
  BY <1>1, GapIs
<1> QED
  BY <1>1, <1>2, <1>3, <1>4

LEMMA RegionsKnown == ASSUME StreamingAssumption, TypeOK, FollowsTheTrack PROVE RegionsAre
<1> DEFINE A == ActiveFrames
           C == Cuts
           n == totalFrames
           s == tracker.start
           l == tracker.lastActive
<1>1. /\ n \in Nat /\ A \in SUBSET (0 .. n - 1) /\ C \in SUBSET (0 .. n) /\ A \in SUBSET Nat /\ C \in SUBSET Nat
      /\ MinOff \in Nat /\ Tracks(tracker, A, C, MinOff, n) /\ Gap(MinOff) \in Nat /\ Gap(MinOff) >= 1
  BY TrackFacts
<1>2. Starts = RegionStarts(A, C, MinOff)
  BY DEF Starts
<1>3. tracker.inRegion => n \notin C
  BY DEF FollowsTheTrack
<1>4. /\ tracker.inRegion => OpenAt(s, l, A, C, MinOff, n)
      /\ ~tracker.inRegion => NoReach(A, A, C, MinOff, n)
  BY <1>1 DEF Tracks
<1>a. \A q : EndOfRegion(q) = RegionEnd(q, A, C, n, MinOff, "keep") /\ LastActive(q) = LastFrame(q, A, C, MinOff)
  BY DEF EndOfRegion, LastActive
<1>b. \A q : Settled(q) <=> ~Together(q, n, A, C, MinOff)
  BY DEF Settled
<1> HIDE DEF A, C, n
<1>5. \A q \in Starts : q \in Nat /\ q < n /\ q \in A
  BY <1>1, <1>2 DEF RegionStarts
<1>6. ASSUME ~tracker.inRegion, NEW q \in Starts PROVE Settled(q)
  <2>1. ~Together(q, n, A, C, MinOff)
    BY <1>4, <1>5, <1>6 DEF NoReach
  <2> QED
    BY <1>b, <2>1
<1>7. ASSUME tracker.inRegion
      PROVE  /\ s \in Starts /\ EndOfRegion(s) = n /\ ~IsClosed(s) /\ AudioEnd(s) = n * FrameSize
             /\ \A q \in Starts : q # s => Settled(q) /\ EndOfRegion(q) <= s
  <2> HIDE DEF s, l
  <2>1. OpenAt(s, l, A, C, MinOff, n) /\ n \notin C
    BY <1>3, <1>4, <1>7
  <2>2. s \in Starts
    BY <1>2, <2>1 DEF OpenAt
  <2>3. /\ RegionEnd(s, A, C, n, MinOff, "keep") = n /\ l + 1 + Gap(MinOff) > n /\ \A c \in C : ~(c > l)
    BY <1>1, <2>1, OpenHasNoEnd, Zenon
  <2>4. LastFrame(s, A, C, MinOff) = l /\ l \in Nat
    BY <1>1, <2>1, OpenLast
  <2>5. EndOfRegion(s) = n /\ LastActive(s) = l
    BY <1>a, <2>3, <2>4
  <2>6. ~ClosedBySilence(s)
    BY <1>1, <2>3, <2>4, <2>5 DEF ClosedBySilence
  <2>7. ~IsClosed(s)
    BY <2>3, <2>5, <2>6 DEF IsClosed, C
  <2>8. AudioEnd(s) = n * FrameSize
    BY <2>5, <2>6 DEF AudioEnd
  <2>9. ASSUME NEW q \in Starts, q # s PROVE Settled(q) /\ EndOfRegion(q) <= s
    <3>1. q \in RegionStarts(A, C, MinOff) /\ s \in RegionStarts(A, C, MinOff)
      BY <1>2, <2>2
    <3>2. q < s /\ ~Together(q, n, A, C, MinOff)
      BY <1>1, <2>1, <2>9, <3>1, OpenIsLatest
    <3>3. RegionEnd(q, A, C, n, MinOff, "keep") <= s
      BY <1>1, <3>1, <3>2, EndsBefore
    <3> QED
      BY <1>a, <1>b, <3>2, <3>3
  <2> QED
    BY <2>2, <2>5, <2>7, <2>8, <2>9
<1> QED
  BY <1>5, <1>6, <1>7 DEF RegionsAre, n, s

\* A region that is settled ends, and stays as it is when the track grows.
TrackGrows ==
  /\ Extends(ActiveFrames, Cuts, totalFrames, ActiveFrames', Cuts', totalFrames')
  /\ hop' = hop

SettledIs(s) ==
  /\ EndOfRegion(s) \in Nat /\ s < EndOfRegion(s) /\ EndOfRegion(s) <= totalFrames
  /\ IsClosed(s) /\ AudioEnd(s) \in Nat /\ AudioEnd(s) <= totalFrames * FrameSize

SameRegion(s) ==
  /\ s \in Starts' /\ EndOfRegion(s)' = EndOfRegion(s) /\ AudioEnd(s)' = AudioEnd(s)
  /\ IsClosed(s)' /\ WindowsOf(s)' = WindowsOf(s) /\ (IsShort(s)' <=> IsShort(s))

LEMMA FrameSamples ==
  ASSUME NEW a \in Nat, NEW b \in Nat, a <= b, NEW z \in Nat
  PROVE  a * z \in Nat /\ b * z \in Nat /\ a * z <= b * z
<1>1. PICK d \in Nat : b = a + d
  <2>1. b - a \in Nat /\ b = a + (b - a)
    OBVIOUS
  <2> QED
    BY <2>1
<1>2. (a + d) * z = a * z + d * z /\ d * z \in Nat /\ a * z \in Nat
  OBVIOUS
<1> QED
  BY <1>1, <1>2

LEMMA SettledRegion ==
  ASSUME StreamingAssumption, TypeOK, FollowsTheTrack, NEW s \in Starts, Settled(s)
  PROVE  SettledIs(s)
<1> DEFINE A == ActiveFrames
           C == Cuts
           n == totalFrames
           l == LastActive(s)
           e == EndOfRegion(s)
<1>1. /\ n \in Nat /\ A \in SUBSET (0 .. n - 1) /\ C \in SUBSET (0 .. n) /\ A \in SUBSET Nat /\ C \in SUBSET Nat
      /\ MinOff \in Nat /\ Gap(MinOff) \in Nat /\ Gap(MinOff) >= 1
  BY TrackFacts
<1>2. s \in A /\ s \in Nat
  BY <1>1 DEF Starts, RegionStarts
<1>a. e = RegionEnd(s, A, C, n, MinOff, "keep") /\ l = LastFrame(s, A, C, MinOff)
  BY DEF EndOfRegion, LastActive
<1>b. ~Together(s, n, A, C, MinOff)
  BY DEF Settled
<1>z. FrameSize \in Nat
  BY DEF StreamingAssumption
<1> HIDE DEF A, C, n, l, e
<1>3. Extends(A, C, n, A, C, n)
  BY <1>1 DEF Extends
<1>4. l \in Nat /\ s <= l /\ EndedBy(l, C, MinOff, n) /\ e \in Nat /\ e <= n
  BY <1>1, <1>2, <1>3, <1>a, <1>b, RegionStays
<1>5. EndsAt(e, l, C, n, MinOff)
  BY <1>1, <1>4, <1>a, RegionEndOf
<1>6. l < e
  BY <1>1, <1>4, <1>5 DEF EndsAt, EndedBy
<1>7. IsClosed(s)
  <2>1. CASE \E c \in C : c > l
    BY <2>1 DEF IsClosed, C, l
  <2>2. CASE ~ \E c \in C : c > l
    <3>1. l + 1 + Gap(MinOff) <= n
      BY <1>1, <1>4, <2>2 DEF EndedBy
    <3>2. e = l + 1 + Gap(MinOff)
      BY <1>1, <1>4, <1>5, <2>2, <3>1 DEF EndsAt
    <3> QED
      BY <3>2 DEF IsClosed, ClosedBySilence, e, l
  <2> QED
    BY <2>1, <2>2
<1>8. AudioEnd(s) \in Nat /\ AudioEnd(s) <= n * FrameSize
  <2>1. e - 1 \in Nat /\ e - 1 <= n
    BY <1>1, <1>4, <1>6
  <2>2. /\ (e - 1) * FrameSize \in Nat /\ (e - 1) * FrameSize <= n * FrameSize
        /\ e * FrameSize \in Nat /\ e * FrameSize <= n * FrameSize
    BY <1>1, <1>4, <1>z, <2>1, FrameSamples
  <2>3. AudioEnd(s) = (e - 1) * FrameSize \/ AudioEnd(s) = e * FrameSize
    BY DEF AudioEnd, e
  <2> QED
    BY <2>2, <2>3
<1>9. s < e
  BY <1>2, <1>4, <1>6
<1> QED
  BY <1>4, <1>7, <1>8, <1>9 DEF SettledIs, e, n

LEMMA SettledStays ==
  ASSUME StreamingAssumption, TypeOK, FollowsTheTrack, TrackGrows, NEW s \in Starts, Settled(s)
  PROVE  SameRegion(s)
<1> DEFINE A == ActiveFrames
           C == Cuts
           n == totalFrames
           l == LastActive(s)
           e == EndOfRegion(s)
           p == totalFrames'
           B == ActiveFrames'
           D == Cuts'
<1>1. /\ n \in Nat /\ A \in SUBSET (0 .. n - 1) /\ C \in SUBSET (0 .. n) /\ A \in SUBSET Nat /\ C \in SUBSET Nat
      /\ MinOff \in Nat /\ Gap(MinOff) \in Nat /\ Gap(MinOff) >= 1
  BY TrackFacts
<1>2. s \in A /\ s \in Nat /\ s < n /\ s \in RegionStarts(A, C, MinOff)
  BY <1>1 DEF Starts, RegionStarts
<1>a. /\ e = RegionEnd(s, A, C, n, MinOff, "keep") /\ l = LastFrame(s, A, C, MinOff)
      /\ EndOfRegion(s)' = RegionEnd(s, B, D, p, MinOff, "keep") /\ LastActive(s)' = LastFrame(s, B, D, MinOff)
      /\ Starts' = RegionStarts(B, D, MinOff)
  BY DEF EndOfRegion, LastActive, Starts
<1>b. ~Together(s, n, A, C, MinOff)
  BY DEF Settled
<1>z. FrameSize \in Nat /\ hop \in Nat /\ hop >= 1 /\ hop' = hop /\ Win \in Nat
  BY StreamFacts DEF TrackGrows
<1>3. Extends(A, C, n, B, D, p)
  BY DEF TrackGrows
<1>s. SettledIs(s)
  BY SettledRegion
<1> HIDE DEF A, C, n, l, e, B, D, p
<1>4. /\ LastFrame(s, B, D, MinOff) = l /\ l \in Nat /\ e \in Nat
      /\ RegionEnd(s, B, D, p, MinOff, "keep") = e
  BY <1>1, <1>2, <1>3, <1>a, <1>b, RegionStays
<1>5. EndOfRegion(s)' = EndOfRegion(s) /\ LastActive(s)' = LastActive(s)
  BY <1>4, <1>a DEF e, l
<1>6. s \in Starts'
  BY <1>1, <1>2, <1>3, <1>a, StartsStay
<1>7. ClosedBySilence(s)' <=> ClosedBySilence(s)
  BY <1>5 DEF ClosedBySilence
<1>8. AudioEnd(s)' = AudioEnd(s)
  BY <1>5, <1>7 DEF AudioEnd
<1>9. IsClosed(s)'
  <2>1. CASE ClosedBySilence(s)
    BY <1>7, <2>1 DEF IsClosed
  <2>2. CASE \E c \in C : c > l
    <3>1. \E c \in D : c > l
      BY <1>3, <2>2 DEF Extends
    <3>2. \E c \in D : c > LastActive(s)'
      BY <3>1, <1>5 DEF l
    <3> QED
      BY <3>2 DEF IsClosed, D
  <2> QED
    BY <1>s, <2>1, <2>2 DEF SettledIs, IsClosed, C, l
<1>c. IsClosed(s)
  BY <1>s DEF SettledIs
<1>10. IsShort(s)' <=> IsShort(s)
  BY <1>5, <1>9, <1>c DEF IsShort
<1>11. FullWindows(s)' = FullWindows(s)
  <2> DEFINE first == s * FrameSize
             upto == AudioEnd(s)
             b == n * FrameSize
             c == p * FrameSize
  <2>1. FullWindows(s) = WindowsIn(first, hop, upto, b) /\ FullWindows(s)' = WindowsIn(first, hop', AudioEnd(s)', c)
    BY DEF FullWindows, WindowsIn, n, p
  <2>2. n <= p /\ p \in Nat
    BY <1>1, <1>3 DEF Extends
  <2>3. b \in Nat /\ c \in Nat /\ b <= c /\ first \in Nat
    BY <1>1, <1>2, <1>z, <2>2, FrameSamples
  <2>4. upto \in Nat /\ upto <= b
    BY <1>s DEF SettledIs, n
  <2> HIDE DEF first, upto, b, c
  <2>5. upto <= c
    BY <2>3, <2>4
  <2>6. WindowsIn(first, hop, upto, b) = WindowsIn(first, hop, upto, c)
    BY <1>z, <2>3, <2>4, <2>5, WindowsInSame
  <2> QED
    BY <1>8, <1>z, <2>1, <2>6 DEF upto
<1>12. LastWindow(s)' = LastWindow(s)
  <2>1. Cardinality(FullWindows(s))' = Cardinality(FullWindows(s))
    BY <1>11
  <2> QED
    BY <1>5, <1>8, <1>9, <1>c, <1>z, <2>1 DEF LastWindow
<1>13. WindowsOf(s)' = WindowsOf(s)
  BY <1>10, <1>11, <1>12 DEF WindowsOf
<1> QED
  BY <1>5, <1>6, <1>8, <1>9, <1>10, <1>13 DEF SameRegion

-----------------------------------------------------------------------------
(* The windows cut from the region in hand.                                *)

\* The hops its window buffer has moved by.
HopsBy(k) == k \in Nat /\ nextStart = FirstSample + k * hop /\ (k # 0 => Len(buf) >= Win - hop)

LEMMA HandFacts ==
  ASSUME StreamingAssumption, AudioIInv
  PROVE  /\ TypeOK /\ FrameSize \in Nat /\ FrameSize >= 1 /\ Win \in Nat /\ hop \in Nat /\ hop >= 1 /\ hop <= Win
         /\ totalFrames \in Nat /\ totalFrames * FrameSize \in Nat /\ Len(buf) \in Nat /\ nextStart \in Nat
         /\ tracker.start \in Nat /\ tracker.start <= totalFrames /\ FirstSample \in Nat
         /\ tracker.inRegion \in BOOLEAN
         /\ tracker.inRegion => nextStart + Len(buf) = totalFrames * FrameSize
         /\ pc = "close" => nextStart + Len(buf) <= totalFrames * FrameSize
<1>1. /\ TypeOK /\ FrameSize \in Nat /\ FrameSize >= 1 /\ Win \in Nat /\ hop \in Nat /\ hop >= 1 /\ hop <= Win
      /\ totalFrames \in Nat /\ totalFrames * FrameSize \in Nat /\ Len(buf) \in Nat /\ nextStart \in Nat /\ segEnd \in Nat
  BY StreamFacts DEF AudioIInv
<1>2. /\ tracker.inRegion => nextStart + Len(buf) = totalFrames * FrameSize
      /\ pc = "close" => nextStart + Len(buf) <= segEnd /\ segEnd <= totalFrames * FrameSize
  BY DEF AudioIInv, BufferEndsAtFrame
<1>3. tracker \in [inRegion : BOOLEAN, start : 0 .. totalFrames, lastActive : 0 .. totalFrames, off : 0 .. totalFrames]
  BY <1>1 DEF TypeOK, TrackerAt, Trackers
<1>4. tracker.start \in Nat /\ tracker.start <= totalFrames /\ tracker.inRegion \in BOOLEAN
  BY <1>1, <1>3
<1>5. FirstSample \in Nat
  BY <1>1, <1>4, FrameSamples DEF FirstSample
<1>6. pc = "close" => nextStart + Len(buf) <= totalFrames * FrameSize
  <2> DEFINE P == totalFrames * FrameSize
  <2>1. P \in Nat
    BY <1>1
  <2> HIDE DEF P
  <2>2. pc = "close" => nextStart + Len(buf) <= segEnd /\ segEnd <= P
    BY <1>2 DEF P
  <2>3. pc = "close" => nextStart + Len(buf) <= P
    BY <1>1, <2>1, <2>2
  <2> QED
    BY <2>3 DEF P
<1> QED
  BY <1>1, <1>2, <1>4, <1>5, <1>6

LEMMA HopsTaken ==
  ASSUME StreamingAssumption, AudioIInv, BufferMovesByHops, InHand
  PROVE  \E k \in Nat : HopsBy(k)
<1>1. /\ hop \in Nat /\ hop >= 1 /\ totalFrames * FrameSize \in Nat /\ nextStart \in Nat /\ FirstSample \in Nat
  BY HandFacts
<1>2. PICK k \in 0 .. totalFrames * FrameSize : nextStart = FirstSample + k * hop
  BY DEF BufferMovesByHops
<1>3. k \in Nat /\ k * hop \in Nat /\ k * hop >= k
  BY <1>1, <1>2, HopsGrow
<1>4. k # 0 => nextStart > FirstSample
  BY <1>1, <1>2, <1>3
<1> QED
  BY <1>2, <1>3, <1>4 DEF HopsBy, BufferMovesByHops

LEMMA CutWindowsAre ==
  ASSUME StreamingAssumption, AudioIInv, InHand, NEW K, HopsBy(K)
  PROVE  WindowsCut = FirstWindows(FirstSample, hop, K)
<1> DEFINE P == totalFrames * FrameSize
<1>1. /\ hop \in Nat /\ hop >= 1 /\ P \in Nat /\ nextStart \in Nat /\ FirstSample \in Nat /\ Len(buf) \in Nat
      /\ nextStart + Len(buf) <= P
  <2>1. /\ hop \in Nat /\ hop >= 1 /\ P \in Nat /\ nextStart \in Nat /\ FirstSample \in Nat /\ Len(buf) \in Nat
        /\ tracker.inRegion => nextStart + Len(buf) = P
        /\ pc = "close" => nextStart + Len(buf) <= P
    BY HandFacts
  <2> HIDE DEF P
  <2> QED
    BY <2>1 DEF InHand
<1>2. WindowsCut = WindowsBelow(FirstSample, hop, nextStart, P)
  BY DEF WindowsCut, WindowsBelow
<1> HIDE DEF P
<1>3. nextStart <= P
  BY <1>1
<1> QED
  BY <1>1, <1>2, <1>3, WindowsBelowAre DEF HopsBy

\* What the windows cut are when no full one is left.
LEMMA HandWindows ==
  ASSUME StreamingAssumption, AudioIInv, BufferMovesByHops, InHand, Len(buf) < Win,
         nextStart + Len(buf) = AudioEnd(tracker.start), AudioEnd(tracker.start) <= totalFrames * FrameSize
  PROVE  /\ FullWindows(tracker.start) = WindowsCut
         /\ FirstSample + Cardinality(FullWindows(tracker.start)) * hop = nextStart
<1> DEFINE P == totalFrames * FrameSize
           e == AudioEnd(tracker.start)
<1>1. PICK K \in Nat : HopsBy(K)
  BY HopsTaken
<1>2. WindowsCut = FirstWindows(FirstSample, hop, K)
  BY <1>1, CutWindowsAre
<1>3. /\ hop \in Nat /\ hop >= 1 /\ P \in Nat /\ nextStart \in Nat /\ FirstSample \in Nat /\ Len(buf) \in Nat
      /\ Win \in Nat
  BY HandFacts
<1>4. nextStart = FirstSample + K * hop /\ (K # 0 => Len(buf) >= Win - hop)
  BY <1>1 DEF HopsBy
<1>5. nextStart + Len(buf) = e /\ e <= P
  OBVIOUS
<1>6. FullWindows(tracker.start) = WindowsIn(FirstSample, hop, e, P)
  BY DEF FullWindows, WindowsIn, FirstSample
<1> HIDE DEF P, e
<1>7. e \in Nat /\ K * hop \in Nat
  BY <1>3, <1>5, HopsGrow
<1>8. e < FirstSample + K * hop + Win
  BY <1>3, <1>4, <1>5, <1>7
<1>9. K # 0 => FirstSample + (K - 1) * hop + Win <= e
  <2> SUFFICES ASSUME K # 0 PROVE FirstSample + (K - 1) * hop + Win <= e
    OBVIOUS
  <2>1. K - 1 \in Nat /\ (K - 1) + 1 = K
    OBVIOUS
  <2>2. K * hop = (K - 1) * hop + hop /\ (K - 1) * hop \in Nat
    BY <1>3, <2>1, HopsGrow
  <2> QED
    BY <1>3, <1>4, <1>5, <2>2
<1>10. FullWindows(tracker.start) = FirstWindows(FirstSample, hop, K)
  BY <1>3, <1>5, <1>6, <1>7, <1>8, <1>9, WindowsInAre
<1>11. Cardinality(FullWindows(tracker.start)) = K
  BY <1>3, <1>10, FirstWindowsCount
<1> QED
  BY <1>2, <1>4, <1>10, <1>11

(* An open region's windows between two frames.                            *)
LEMMA OpenWindows ==
  ASSUME StreamingAssumption, AudioIInv, FollowsTheTrack, BufferMovesByHops, tracker.inRegion, Len(buf) < Win
  PROVE  WindowsOf(tracker.start) = WindowsCut
<1>1. TypeOK /\ nextStart + Len(buf) = totalFrames * FrameSize /\ totalFrames * FrameSize \in Nat
  BY HandFacts
<1>2. ~IsClosed(tracker.start) /\ AudioEnd(tracker.start) = totalFrames * FrameSize
  BY <1>1, RegionsKnown DEF RegionsAre
<1>a. AudioEnd(tracker.start) <= totalFrames * FrameSize
  BY <1>1, <1>2
<1>3. FullWindows(tracker.start) = WindowsCut
  BY <1>1, <1>2, <1>a, HandWindows DEF InHand
<1>4. LastWindow(tracker.start) = {} /\ ~IsShort(tracker.start)
  BY <1>2 DEF LastWindow, IsShort
<1> QED
  BY <1>3, <1>4 DEF WindowsOf

(* The windows of a region that closes: those cut, and what is left.        *)
LEMMA LastWindows ==
  ASSUME StreamingAssumption, AudioIInv, BufferMovesByHops, ClosingIsKept, pc = "close", Len(buf) < Win
  PROVE  WindowsOf(tracker.start) = WindowsCut \cup IF buf = <<>> THEN {} ELSE {<<nextStart, LastTurnEnd>>}
<1> DEFINE s == tracker.start
<1>1. /\ TypeOK /\ totalFrames * FrameSize \in Nat /\ nextStart \in Nat /\ Len(buf) \in Nat /\ Win \in Nat
      /\ nextStart + Len(buf) <= totalFrames * FrameSize /\ segEnd \in Nat /\ buf \in Seq(Nat)
  BY HandFacts DEF TypeOK
<1>2. /\ IsClosed(s) /\ ~IsShort(s) /\ segEnd = EndOfRegion(s) * FrameSize
      /\ nextStart + Len(buf) = AudioEnd(s)
  BY DEF ClosingIsKept
<1>3. FullWindows(s) = WindowsCut /\ FirstSample + Cardinality(FullWindows(s)) * hop = nextStart
  BY <1>1, <1>2, HandWindows DEF InHand
<1> DEFINE w == s * FrameSize + Cardinality(FullWindows(s)) * hop
<1>4. w = nextStart
  BY <1>3 DEF FirstSample
<1> HIDE DEF w
<1>5. LastWindow(s) = IF nextStart < AudioEnd(s)
                        THEN {<<nextStart, Min({EndOfRegion(s) * FrameSize, nextStart + Win})>>} ELSE {}
  BY <1>2, <1>4, Zenon DEF LastWindow, w
<1>6. Max({Len(buf), Win}) = Win
  <2>1. {Len(buf), Win} \subseteq Int /\ Win \in {Len(buf), Win} /\ \A j \in {Len(buf), Win} : j <= Win
    BY <1>1
  <2> QED
    BY <2>1, MaxIs
<1>7. LastTurnEnd = Min({EndOfRegion(s) * FrameSize, nextStart + Win})
  BY <1>2, <1>6, Zenon DEF LastTurnEnd
<1>8. buf = <<>> <=> Len(buf) = 0
  BY <1>1
<1>9. nextStart < AudioEnd(s) <=> buf # <<>>
  BY <1>1, <1>2, <1>8
<1>10. LastWindow(s) = IF buf = <<>> THEN {} ELSE {<<nextStart, LastTurnEnd>>}
  BY <1>5, <1>7, <1>9
<1> QED
  BY <1>2, <1>3, <1>10 DEF WindowsOf

-----------------------------------------------------------------------------
(* The turns of the regions: the steps between two frames.                  *)

SameTrack == UNCHANGED <<hop, totalFrames, tracker, track, flushes>>

LEMMA SameRegions ==
  ASSUME SameTrack
  PROVE  /\ Starts' = Starts /\ FirstSample' = FirstSample /\ ExpectedTurns' = ExpectedTurns
         /\ ActiveFrames' = ActiveFrames /\ Cuts' = Cuts
         /\ \A s : /\ WindowsOf(s)' = WindowsOf(s) /\ EndOfRegion(s)' = EndOfRegion(s)
                   /\ AudioEnd(s)' = AudioEnd(s) /\ (IsShort(s)' <=> IsShort(s)) /\ (IsClosed(s)' <=> IsClosed(s))
<1>1. /\ hop' = hop /\ totalFrames' = totalFrames /\ tracker' = tracker /\ track' = track /\ flushes' = flushes
  BY DEF SameTrack
<1>2. ActiveFrames' = ActiveFrames /\ Cuts' = Cuts
  BY <1>1 DEF ActiveFrames, Cuts
<1>3. Starts' = Starts
  BY <1>2 DEF Starts
<1>4. FirstSample' = FirstSample
  BY <1>1 DEF FirstSample
<1>5. ASSUME NEW s
      PROVE  /\ WindowsOf(s)' = WindowsOf(s) /\ EndOfRegion(s)' = EndOfRegion(s)
             /\ AudioEnd(s)' = AudioEnd(s) /\ (IsShort(s)' <=> IsShort(s)) /\ (IsClosed(s)' <=> IsClosed(s))
  <2>1. EndOfRegion(s)' = EndOfRegion(s) /\ LastActive(s)' = LastActive(s)
    BY <1>1, <1>2 DEF EndOfRegion, LastActive
  <2>2. ClosedBySilence(s)' <=> ClosedBySilence(s)
    BY <2>1 DEF ClosedBySilence
  <2>3. IsClosed(s)' <=> IsClosed(s)
    BY <1>2, <2>1, <2>2 DEF IsClosed
  <2>4. IsShort(s)' <=> IsShort(s)
    BY <2>1, <2>3 DEF IsShort
  <2>5. AudioEnd(s)' = AudioEnd(s)
    BY <2>1, <2>2 DEF AudioEnd
  <2>6. FullWindows(s)' = FullWindows(s)
    <3>1. /\ FullWindows(s) = WindowsIn(s * FrameSize, hop, AudioEnd(s), totalFrames * FrameSize)
          /\ FullWindows(s)' = WindowsIn(s * FrameSize, hop', AudioEnd(s)', totalFrames' * FrameSize)
      BY DEF FullWindows, WindowsIn
    <3> QED
      BY <1>1, <2>5, <3>1
  <2>7. LastWindow(s)' = LastWindow(s)
    <3>1. Cardinality(FullWindows(s))' = Cardinality(FullWindows(s))
      BY <2>6
    <3> QED
      BY <1>1, <2>1, <2>3, <2>5, <3>1 DEF LastWindow
  <2>8. WindowsOf(s)' = WindowsOf(s)
    BY <2>4, <2>6, <2>7 DEF WindowsOf
  <2> QED
    BY <2>1, <2>3, <2>4, <2>5, <2>8
<1>6. ExpectedTurns' = ExpectedTurns
  BY <1>3, <1>5 DEF ExpectedTurns
<1> QED
  BY <1>2, <1>3, <1>4, <1>5, <1>6

\* A turn that no short region holds.
OutsideShort(t) ==
  \A s \in Starts : IsShort(s) => ~(s * FrameSize <= t.start /\ t.start < EndOfRegion(s) * FrameSize)

LEMMA KeptSet ==
  ASSUME TypeOK, TurnsKept
  PROVE  Range(AllTurns') \subseteq Range(AllTurns)
BY DEF Range, TurnsKept

LEMMA AddedSet ==
  ASSUME TypeOK, NEW t, TurnAdded(t)
  PROVE  /\ Range(AllTurns') = Range(AllTurns) \cup {t}
         /\ SpansOf(AllTurns') = SpansOf(AllTurns) \cup {<<t.start, t.end>>}
<1>1. Len(AllTurns) \in Nat /\ DOMAIN AllTurns = 1 .. Len(AllTurns)
  BY TurnsAreTurns
<1>2. /\ DOMAIN AllTurns' = 1 .. Len(AllTurns) + 1
      /\ \A j \in DOMAIN AllTurns : AllTurns'[j] = AllTurns[j]
      /\ AllTurns'[Len(AllTurns) + 1] = t
  BY DEF TurnAdded
<1>3. \A j : j \in DOMAIN AllTurns' <=> j \in DOMAIN AllTurns \/ j = Len(AllTurns) + 1
  BY <1>1, <1>2
<1>4. Range(AllTurns') = Range(AllTurns) \cup {t}
  <2>1. ASSUME NEW x \in Range(AllTurns') PROVE x \in Range(AllTurns) \cup {t}
    BY <1>2, <1>3 DEF Range
  <2>2. ASSUME NEW x \in Range(AllTurns) PROVE x \in Range(AllTurns')
    BY <1>2, <1>3 DEF Range
  <2>3. t \in Range(AllTurns')
    BY <1>2, <1>3 DEF Range
  <2> QED
    BY <2>1, <2>2, <2>3
<1> QED
  BY <1>4 DEF SpansOf

LEMMA SilentStays ==
  ASSUME SameTrack, ShortRegionsAreSilent,
         \A t \in Range(AllTurns') : t \in Range(AllTurns) \/ OutsideShort(t)
  PROVE  ShortRegionsAreSilent'
<1>1. Starts' = Starts /\ \A s : EndOfRegion(s)' = EndOfRegion(s) /\ (IsShort(s)' <=> IsShort(s))
  BY SameRegions
<1>2. \A t \in Range(AllTurns') : OutsideShort(t)
  BY DEF ShortRegionsAreSilent, OutsideShort
<1> QED
  BY <1>1, <1>2 DEF ShortRegionsAreSilent, OutsideShort

LEMMA TracksStays ==
  ASSUME SameTrack, FollowsTheTrack, totalFrames * FrameSize + Len(vadBuffer') <= MaxAudio
  PROVE  FollowsTheTrack'
<1>1. ActiveFrames' = ActiveFrames /\ Cuts' = Cuts
  BY SameRegions
<1>2. totalFrames' = totalFrames /\ tracker' = tracker
  BY DEF SameTrack
<1> QED
  BY <1>1, <1>2 DEF FollowsTheTrack

(* The steps that leave the window buffer alone.                           *)
LEMMA BufferAloneKeepsTurns ==
  ASSUME StreamingAssumption, AudioIInv, TurnIInv, TurnsKept, SameTrack,
         UNCHANGED <<buf, nextStart, segEnd>>, pc # "close", pc' # "close",
         totalFrames * FrameSize + Len(vadBuffer') <= MaxAudio,
         failures' = 0 => failures = 0 /\ AllTurns' = AllTurns /\ (pc' # "windows" => Len(buf) < Win),
         pc' = "idle" => newTurns' = <<>>
  PROVE  TurnIInv'
<1>1. /\ TypeOK /\ FollowsTheTrack /\ BufferMovesByHops /\ ShortRegionsAreSilent /\ TurnsSoFar
  BY DEF AudioIInv, TurnIInv
<1>2. /\ hop' = hop /\ totalFrames' = totalFrames /\ tracker' = tracker /\ buf' = buf /\ nextStart' = nextStart
  BY DEF SameTrack
<1>3. /\ Starts' = Starts /\ FirstSample' = FirstSample /\ ExpectedTurns' = ExpectedTurns
      /\ \A s : WindowsOf(s)' = WindowsOf(s)
  BY SameRegions
<1>4. FollowsTheTrack'
  BY <1>1, TracksStays
<1>5. InHand' <=> InHand
  BY <1>2 DEF InHand
<1>6. BufferMovesByHops'
  BY <1>1, <1>2, <1>3, <1>5 DEF BufferMovesByHops
<1>7. ClosingIsKept'
  BY DEF ClosingIsKept
<1>8. ShortRegionsAreSilent'
  BY <1>1, KeptSet, SilentStays
<1>9. TurnsSoFar'
  <2> SUFFICES ASSUME failures' = 0 PROVE TurnsSoFar'
    BY DEF TurnsSoFar
  <2>1. WindowsCut' = WindowsCut
    <3>1. /\ WindowsCut = WindowsBelow(FirstSample, hop, nextStart, totalFrames * FrameSize)
          /\ WindowsCut' = WindowsBelow(FirstSample', hop', nextStart', totalFrames' * FrameSize)
      BY DEF WindowsCut, WindowsBelow
    <3> QED
      BY <1>2, <1>3, <3>1
  <2>2. SpansOf(AllTurns)' = SpansOf(AllTurns)
    BY DEF SpansOf
  <2>3. WindowsBefore' = WindowsBefore
    BY <1>2, <1>3 DEF WindowsBefore
  <2>4. /\ InHand => SpansOf(AllTurns) = WindowsBefore \cup WindowsCut
        /\ ~InHand => SpansOf(AllTurns) = ExpectedTurns
    BY <1>1 DEF TurnsSoFar
  <2>5. pc' # "windows" => Len(buf') < Win
    BY <1>2
  <2> QED
    BY <1>3, <1>5, <2>1, <2>2, <2>3, <2>4, <2>5 DEF TurnsSoFar
<1> QED
  BY <1>4, <1>6, <1>7, <1>8, <1>9 DEF TurnIInv

LEMMA TurnQuietSteps ==
  ASSUME StreamingAssumption, AudioIInv, TurnIInv,
         \/ \E n \in ChunkSizes : Feed(n) \/ FeedTooLong(n)
         \/ FrameFails \/ WindowsDone \/ ReturnTurns
  PROVE  TurnIInv'
<1>1. TypeOK /\ TurnsSoFar /\ (pc = "idle" => newTurns = <<>>) /\ FollowsTheTrack /\ failures \in Nat
  BY DEF AudioIInv, TurnIInv, TypeOK
<1>a. /\ totalFrames * FrameSize \in Nat /\ Len(vadBuffer) \in Nat /\ FrameSize \in Nat /\ MaxAudio \in Nat
      /\ turns \in Seq(TurnRecord) /\ newTurns \in Seq(TurnRecord)
      /\ totalFrames * FrameSize + Len(vadBuffer) <= MaxAudio
  BY <1>1, StreamFacts DEF TypeOK, StreamingAssumption, FollowsTheTrack
<1>b. pc # "windows" /\ failures = 0 => Len(buf) < Win
  BY <1>1 DEF TurnsSoFar
<1>2. ASSUME NEW n \in ChunkSizes, Feed(n) PROVE TurnIInv'
  <2>1. /\ SameTrack /\ UNCHANGED <<buf, nextStart, segEnd, turns, failures>> /\ newTurns' = <<>>
        /\ pc = "idle" /\ pc' = "frames"
    BY <1>2 DEF Feed, SameTrack
  <2>2. newTurns' = newTurns /\ AllTurns' = AllTurns
    BY <1>1, <2>1, Zenon DEF AllTurns
  <2>3. TurnsKept
    BY <1>1, <2>1, <2>2, KeepsTurns
  <2>4. totalFrames * FrameSize + Len(vadBuffer') <= MaxAudio
    <3> DEFINE chunk == [i \in 1 .. n |-> heard + i - 1]
    <3>1. n \in Nat /\ heard \in Nat /\ vadBuffer \in Seq(Nat)
      BY <1>1 DEF StreamingAssumption, TypeOK
    <3>2. chunk \in Seq(Nat) /\ Len(chunk) = n
      <4>1. chunk \in [1 .. n -> Nat]
        BY <3>1
      <4> QED
        BY <3>1, <4>1
    <3>3. vadBuffer' = vadBuffer \o chunk
      BY <1>2 DEF Feed
    <3> HIDE DEF chunk
    <3>4. Len(vadBuffer') = Len(vadBuffer) + n
      BY <3>1, <3>2, <3>3, ConcatProperties, Zenon
    <3>5. totalFrames * FrameSize + Len(vadBuffer) + n <= MaxAudio
      BY <1>2 DEF Feed, Accepted
    <3> QED
      BY <1>a, <3>1, <3>4, <3>5
  <2> QED
    BY <1>b, <2>1, <2>2, <2>3, <2>4, BufferAloneKeepsTurns
<1>3. ASSUME NEW n \in ChunkSizes, FeedTooLong(n) PROVE TurnIInv'
  <2>1. /\ SameTrack /\ UNCHANGED <<buf, nextStart, segEnd, turns, newTurns, failures, vadBuffer>>
        /\ pc = "idle" /\ pc' = "idle"
    BY <1>3 DEF FeedTooLong, SameTrack
  <2>2. AllTurns' = AllTurns /\ TurnsKept
    BY <1>1, <2>1, KeepsTurns DEF AllTurns
  <2> QED
    BY <1>1, <1>a, <1>b, <2>1, <2>2, BufferAloneKeepsTurns
<1>4. ASSUME FrameFails PROVE TurnIInv'
  <2>1. /\ SameTrack /\ UNCHANGED <<buf, nextStart, segEnd, turns>> /\ newTurns' = <<>>
        /\ failures' = failures + 1 /\ vadBuffer' = RestOfBuffer /\ HasFrame
        /\ pc = "frames" /\ pc' = "idle"
    BY <1>4 DEF FrameFails, Fail, SameTrack
  <2>2. TurnsKept
    BY <1>1, <2>1, KeepsTurns
  <2>3. totalFrames * FrameSize + Len(vadBuffer') <= MaxAudio
    <3>1. Len(vadBuffer') = Len(vadBuffer) - FrameSize
      BY <1>1, <2>1, FrameRest
    <3> QED
      BY <1>a, <3>1
  <2>4. failures' # 0
    BY <1>1, <2>1
  <2> QED
    BY <2>1, <2>2, <2>3, <2>4, BufferAloneKeepsTurns
<1>5. ASSUME WindowsDone PROVE TurnIInv'
  <2>1. /\ SameTrack /\ UNCHANGED <<buf, nextStart, segEnd, turns, newTurns, failures, vadBuffer>>
        /\ pc = "windows" /\ pc' = "frames" /\ ~HasWindow
    BY <1>5 DEF WindowsDone, SameTrack
  <2>2. AllTurns' = AllTurns /\ TurnsKept
    BY <1>1, <2>1, KeepsTurns DEF AllTurns
  <2>3. Len(buf) < Win
    BY <1>1, <2>1, StreamFacts DEF HasWindow
  <2> QED
    BY <1>a, <2>1, <2>2, <2>3, BufferAloneKeepsTurns
<1>6. ASSUME ReturnTurns PROVE TurnIInv'
  <2>1. /\ SameTrack /\ UNCHANGED <<buf, nextStart, segEnd, failures, vadBuffer>>
        /\ turns' = turns \o newTurns /\ newTurns' = <<>>
        /\ pc = "frames" /\ pc' = "idle"
    BY <1>6 DEF ReturnTurns, SameTrack
  <2>2. TurnsKept
    BY <1>1, <2>1, KeepsTurns
  <2>3. turns \o newTurns \in Seq(TurnRecord)
    BY <1>a, ConcatProperties
  <2>4. AllTurns' = AllTurns
    BY <2>1, <2>3, ConcatEmptySeq DEF AllTurns
  <2> QED
    BY <1>a, <1>b, <2>1, <2>2, <2>4, BufferAloneKeepsTurns
<1> QED
  BY <1>2, <1>3, <1>4, <1>5, <1>6

(* The next turn starts in the region in hand, and in no short one.         *)
LEMMA HandIsOutside ==
  ASSUME StreamingAssumption, AudioIInv, TurnIInv, InHand, NEW t, t.start = nextStart
  PROVE  OutsideShort(t)
<1>1. TypeOK /\ FollowsTheTrack /\ BufferMovesByHops /\ ClosingIsKept
  BY DEF AudioIInv, TurnIInv
<1>2. /\ FrameSize \in Nat /\ hop \in Nat /\ hop >= 1 /\ FirstSample \in Nat /\ nextStart \in Nat
      /\ tracker.start \in Nat /\ tracker.inRegion \in BOOLEAN
  BY HandFacts
<1>3. FirstSample <= nextStart
  <2>1. PICK k \in Nat : HopsBy(k)
    BY <1>1, HopsTaken
  <2>2. k * hop \in Nat /\ nextStart = FirstSample + k * hop
    BY <1>2, <2>1, HopsGrow DEF HopsBy
  <2> QED
    BY <1>2, <2>2
<1>4. RegionsAre
  BY <1>1, RegionsKnown
<1>5. ASSUME NEW s \in Starts, IsShort(s) PROVE EndOfRegion(s) \in Nat /\ EndOfRegion(s) <= tracker.start
  <2>1. CASE tracker.inRegion
    <3>1. s # tracker.start
      BY <1>4, <1>5, <2>1 DEF RegionsAre, IsShort
    <3>2. Settled(s) /\ EndOfRegion(s) <= tracker.start
      BY <1>4, <2>1, <3>1 DEF RegionsAre
    <3>3. EndOfRegion(s) \in Nat
      BY <1>1, <3>2, SettledRegion DEF SettledIs
    <3> QED
      BY <3>2, <3>3
  <2>2. CASE pc = "close"
    <3>1. tracker.start \in Starts /\ ~IsShort(tracker.start) /\ s <= tracker.start
      BY <1>1, <2>2 DEF ClosingIsKept
    <3>2. s # tracker.start
      BY <1>5, <3>1
    <3>3. s \in Nat
      BY <1>4 DEF RegionsAre
    <3>4. s < tracker.start
      BY <1>2, <3>1, <3>2, <3>3
    <3>5. /\ totalFrames \in Nat /\ ActiveFrames \in SUBSET (0 .. totalFrames - 1) /\ Cuts \in SUBSET Nat
          /\ MinOff \in Nat
      BY <1>1, TrackFacts
    <3>6. s \in RegionStarts(ActiveFrames, Cuts, MinOff) /\ tracker.start \in RegionStarts(ActiveFrames, Cuts, MinOff)
      BY <3>1 DEF Starts
    <3> QED
      BY <3>4, <3>5, <3>6, EndsBefore DEF EndOfRegion
  <2> QED
    BY <2>1, <2>2 DEF InHand
<1>6. ASSUME NEW s \in Starts, IsShort(s) PROVE EndOfRegion(s) * FrameSize <= nextStart /\ EndOfRegion(s) * FrameSize \in Nat
  <2>1. EndOfRegion(s) \in Nat /\ EndOfRegion(s) <= tracker.start
    BY <1>5, <1>6
  <2>2. EndOfRegion(s) * FrameSize \in Nat /\ EndOfRegion(s) * FrameSize <= FirstSample
    BY <1>2, <2>1, FrameSamples DEF FirstSample
  <2> QED
    BY <1>2, <1>3, <2>2
<1>7. ASSUME NEW s \in Starts, IsShort(s) PROVE ~(t.start < EndOfRegion(s) * FrameSize)
  <2> DEFINE z == EndOfRegion(s) * FrameSize
  <2>1. z <= nextStart /\ z \in Nat
    BY <1>6, <1>7
  <2> HIDE DEF z
  <2>2. ~(t.start < z)
    BY <1>2, <2>1
  <2> QED
    BY <2>2 DEF z
<1> QED
  BY <1>7 DEF OutsideShort

(* The steps that leave no region in hand.                                 *)
LEMMA ClosedKeepsTurns ==
  ASSUME StreamingAssumption, AudioIInv, TurnIInv, SameTrack, pc = "close", pc' \in {"frames", "idle"},
         buf' = <<>>, vadBuffer' = vadBuffer,
         \A t \in Range(AllTurns') : t \in Range(AllTurns) \/ OutsideShort(t),
         failures' = 0 =>
           /\ failures = 0
           /\ SpansOf(AllTurns)' = SpansOf(AllTurns) \cup IF buf = <<>> THEN {} ELSE {<<nextStart, LastTurnEnd>>},
         pc' = "idle" => newTurns' = <<>>
  PROVE  TurnIInv'
<1>1. /\ TypeOK /\ FollowsTheTrack /\ BufferMovesByHops /\ ShortRegionsAreSilent /\ TurnsSoFar /\ ClosingIsKept
      /\ ~tracker.inRegion
  BY DEF AudioIInv, TurnIInv, LoopFollowsRegion
<1>2. /\ hop' = hop /\ totalFrames' = totalFrames /\ tracker' = tracker
  BY DEF SameTrack
<1>3. ~InHand'
  BY <1>1, <1>2 DEF InHand
<1>4. FollowsTheTrack'
  BY <1>1, TracksStays DEF FollowsTheTrack
<1>5. BufferMovesByHops' /\ ClosingIsKept'
  BY <1>3 DEF BufferMovesByHops, ClosingIsKept
<1>6. ShortRegionsAreSilent'
  BY <1>1, SilentStays
<1>7. TurnsSoFar'
  <2> SUFFICES ASSUME failures' = 0 PROVE TurnsSoFar'
    BY DEF TurnsSoFar
  <2>1. /\ failures = 0
        /\ SpansOf(AllTurns)' = SpansOf(AllTurns) \cup IF buf = <<>> THEN {} ELSE {<<nextStart, LastTurnEnd>>}
    OBVIOUS
  <2>2. Len(buf) < Win /\ SpansOf(AllTurns) = WindowsBefore \cup WindowsCut
    BY <1>1, <2>1 DEF TurnsSoFar, InHand
  <2>3. WindowsOf(tracker.start) = WindowsCut \cup IF buf = <<>> THEN {} ELSE {<<nextStart, LastTurnEnd>>}
    BY <1>1, <2>2, LastWindows
  <2>4. ExpectedTurns = WindowsBefore \cup WindowsOf(tracker.start)
    BY <1>1 DEF ExpectedTurns, WindowsBefore, ClosingIsKept
  <2>5. SpansOf(AllTurns)' = ExpectedTurns
    BY <2>1, <2>2, <2>3, <2>4
  <2>6. ExpectedTurns' = ExpectedTurns
    BY SameRegions
  <2>7. Len(buf') < Win
    <3>1. Win \in Nat /\ hop >= 1 /\ hop <= Win /\ hop \in Nat
      BY HandFacts
    <3>2. Len(buf') = 0
      OBVIOUS
    <3> QED
      BY <3>1, <3>2
  <2> QED
    BY <1>3, <2>5, <2>6, <2>7 DEF TurnsSoFar
<1> QED
  BY <1>4, <1>5, <1>6, <1>7 DEF TurnIInv

LEMMA TurnClosingSteps ==
  ASSUME StreamingAssumption, SpeakerCacheAssumption, AudioIInv, CacheIInv, TurnIInv,
         EmbedLast \/ EmbedLastFails \/ NothingLeft
  PROVE  TurnIInv'
<1>1. TypeOK /\ failures \in Nat /\ BufferEndsAtFrame
  BY DEF AudioIInv, TypeOK
<1>2. CASE NothingLeft
  <2>1. /\ SameTrack /\ UNCHANGED <<buf, turns, newTurns, failures, vadBuffer>>
        /\ pc = "close" /\ pc' = "frames" /\ buf = <<>>
    BY <1>2 DEF NothingLeft, SameTrack
  <2>2. AllTurns' = AllTurns
    BY <2>1 DEF AllTurns
  <2>3. SpansOf(AllTurns)' = SpansOf(AllTurns)
    BY <2>2 DEF SpansOf
  <2>4. \A t \in Range(AllTurns') : t \in Range(AllTurns)
    BY <2>2
  <2> QED
    BY <2>1, <2>3, <2>4, ClosedKeepsTurns
<1>3. CASE EmbedLastFails
  <2>1. /\ SameTrack /\ UNCHANGED <<turns, vadBuffer>> /\ newTurns' = <<>> /\ failures' = failures + 1
        /\ pc = "close" /\ pc' = "idle" /\ buf' = <<>>
    BY <1>3 DEF EmbedLastFails, Fail, SameTrack
  <2>2. TurnsKept
    BY <1>1, <2>1, KeepsTurns
  <2>3. failures' # 0
    BY <1>1, <2>1
  <2>4. \A t \in Range(AllTurns') : t \in Range(AllTurns)
    BY <1>1, <2>2, KeptSet
  <2> QED
    BY <2>1, <2>3, <2>4, ClosedKeepsTurns
<1>4. CASE EmbedLast
  <2>1. /\ SameTrack /\ UNCHANGED <<turns, vadBuffer, failures>>
        /\ pc = "close" /\ buf # <<>> /\ pc' = "frames" /\ buf' = <<>>
    BY <1>4 DEF EmbedLast, SameTrack
  <2>2. nextStart \in Nat /\ buf \in Seq(Nat)
    BY <1>1, StreamFacts DEF TypeOK
  <2> DEFINE u == LastTurnEnd
  <2>3. u \in Nat /\ Embed(nextStart, u, buf)
    BY <1>1, <1>4, <2>1, LastTurnEnds DEF EmbedLast
  <2> HIDE DEF u
  <2>4. \E t \in TurnRecord :
          /\ t.speaker = last'.speaker /\ t.stable = last'.stable
          /\ t.start = nextStart /\ t.end = u /\ t.audio = buf[1]
          /\ TurnAdded(t)
    BY <1>1, <2>1, <2>2, <2>3, EmbedAddsTurn
  <2>5. PICK t \in TurnRecord : t.start = nextStart /\ t.end = u /\ TurnAdded(t)
    BY <2>4
  <2>6. /\ Range(AllTurns') = Range(AllTurns) \cup {t}
        /\ SpansOf(AllTurns') = SpansOf(AllTurns) \cup {<<t.start, t.end>>}
    BY <1>1, <2>5, AddedSet
  <2>7. SpansOf(AllTurns)' = SpansOf(AllTurns) \cup {<<nextStart, u>>}
    BY <2>5, <2>6 DEF SpansOf
  <2>8. OutsideShort(t)
    BY <2>1, <2>5, HandIsOutside DEF InHand
  <2>9. \A x \in Range(AllTurns') : x \in Range(AllTurns) \/ OutsideShort(x)
    BY <2>6, <2>8
  <2>10. SpansOf(AllTurns)' = SpansOf(AllTurns) \cup IF buf = <<>> THEN {} ELSE {<<nextStart, LastTurnEnd>>}
    BY <2>1, <2>7 DEF u
  <2> QED
    BY <2>1, <2>9, <2>10, ClosedKeepsTurns
<1> QED
  BY <1>2, <1>3, <1>4

(* A full window: the buffer moves on by a hop.                            *)
LEMMA PopKeepsTurns ==
  ASSUME StreamingAssumption, AudioIInv, AudioIInv', TurnIInv, SameTrack, pc = "windows", HasWindow, Pop,
         pc' \in {"windows", "idle"}, vadBuffer' = vadBuffer,
         \A t \in Range(AllTurns') : t \in Range(AllTurns) \/ OutsideShort(t),
         failures' = 0 =>
           /\ failures = 0 /\ pc' = "windows"
           /\ SpansOf(AllTurns)' = SpansOf(AllTurns) \cup {<<nextStart, nextStart + Win>>},
         pc' = "idle" => newTurns' = <<>>
  PROVE  TurnIInv'
<1>1. /\ TypeOK /\ FollowsTheTrack /\ BufferMovesByHops /\ ShortRegionsAreSilent /\ TurnsSoFar
      /\ tracker.inRegion
  BY DEF AudioIInv, TurnIInv, LoopFollowsRegion
<1>2. /\ hop' = hop /\ totalFrames' = totalFrames /\ tracker' = tracker
  BY DEF SameTrack
<1>3. InHand /\ InHand'
  BY <1>1, <1>2 DEF InHand
<1>4. /\ FrameSize \in Nat /\ Win \in Nat /\ hop \in Nat /\ hop >= 1 /\ hop <= Win
      /\ totalFrames * FrameSize \in Nat /\ FirstSample \in Nat /\ nextStart \in Nat
      /\ nextStart + Len(buf) = totalFrames * FrameSize /\ Len(buf) \in Nat
  BY <1>1, HandFacts
<1>5. Len(buf') = Len(buf) - hop /\ nextStart' = nextStart + hop /\ Len(buf) >= Win
  BY <1>1, <1>4, PopMovesOn DEF HasWindow
<1>6. Starts' = Starts /\ FirstSample' = FirstSample /\ \A s : WindowsOf(s)' = WindowsOf(s)
  BY SameRegions
<1>7. PICK K \in Nat : HopsBy(K)
  BY <1>1, <1>3, HopsTaken
<1>8. /\ nextStart = FirstSample + K * hop /\ K * hop \in Nat /\ (K + 1) * hop = K * hop + hop
      /\ K + 1 <= (K + 1) * hop /\ (K + 1) * hop \in Nat
  BY <1>4, <1>7, HopsGrow DEF HopsBy
<1>9. nextStart' = FirstSample + (K + 1) * hop /\ Len(buf') >= Win - hop
  BY <1>4, <1>5, <1>8
<1>10. FollowsTheTrack'
  BY <1>1, TracksStays DEF FollowsTheTrack
<1>11. BufferMovesByHops'
  <2> DEFINE P == totalFrames * FrameSize
  <2>1. P \in Nat /\ nextStart + Len(buf) = P
    BY <1>4
  <2> HIDE DEF P
  <2>2. K + 1 \in 0 .. P
    BY <1>4, <1>5, <1>8, <2>1
  <2>3. \E k \in 0 .. P : nextStart' = FirstSample + k * hop
    BY <1>9, <2>2
  <2> QED
    BY <1>2, <1>6, <1>9, <2>3 DEF BufferMovesByHops, P
<1>12. ClosingIsKept'
  BY DEF ClosingIsKept
<1>13. ShortRegionsAreSilent'
  BY <1>1, SilentStays
<1>14. TurnsSoFar'
  <2> SUFFICES ASSUME failures' = 0 PROVE TurnsSoFar'
    BY DEF TurnsSoFar
  <2>1. /\ failures = 0 /\ pc' = "windows"
        /\ SpansOf(AllTurns)' = SpansOf(AllTurns) \cup {<<nextStart, nextStart + Win>>}
    OBVIOUS
  <2>2. SpansOf(AllTurns) = WindowsBefore \cup WindowsCut
    BY <1>1, <1>3, <2>1 DEF TurnsSoFar
  <2>3. WindowsBefore' = WindowsBefore
    BY <1>2, <1>6 DEF WindowsBefore
  <2>4. WindowsCut = FirstWindows(FirstSample, hop, K)
    BY <1>3, <1>7, CutWindowsAre
  <2>5. WindowsCut' = FirstWindows(FirstSample, hop, K + 1)
    <3> DEFINE P == totalFrames * FrameSize
    <3>1. WindowsCut' = WindowsBelow(FirstSample', hop', nextStart', totalFrames' * FrameSize)
      BY DEF WindowsCut, WindowsBelow
    <3>2. WindowsCut' = WindowsBelow(FirstSample, hop, nextStart', P)
      BY <1>2, <1>6, <3>1
    <3>3. P \in Nat /\ nextStart + Len(buf) = P
      BY <1>4
    <3> HIDE DEF P
    <3>4. nextStart' <= P
      BY <1>4, <1>5, <3>3
    <3> DEFINE j == K + 1
               next == nextStart'
    <3>5. j \in Nat /\ next = FirstSample + j * hop /\ next <= P /\ WindowsCut' = WindowsBelow(FirstSample, hop, next, P)
      BY <1>9, <3>2, <3>4
    <3> HIDE DEF j, next
    <3>6. WindowsCut' = FirstWindows(FirstSample, hop, j)
      BY <1>4, <3>3, <3>5, WindowsBelowAre
    <3> QED
      BY <3>6 DEF j
  <2>6. FirstWindows(FirstSample, hop, K + 1) = FirstWindows(FirstSample, hop, K) \cup {WindowAt(FirstSample, hop, K)}
    BY FirstWindowsMore
  <2>7. WindowAt(FirstSample, hop, K) = <<nextStart, nextStart + Win>>
    BY <1>8 DEF WindowAt
  <2>8. SpansOf(AllTurns)' = WindowsBefore' \cup WindowsCut'
    BY <2>1, <2>2, <2>3, <2>4, <2>5, <2>6, <2>7
  <2> QED
    BY <1>3, <2>1, <2>8 DEF TurnsSoFar
<1> QED
  BY <1>10, <1>11, <1>12, <1>13, <1>14 DEF TurnIInv

LEMMA TurnWindowSteps ==
  ASSUME StreamingAssumption, SpeakerCacheAssumption, AudioIInv, AudioIInv', CacheIInv, TurnIInv,
         EmbedWindow \/ EmbedWindowFails
  PROVE  TurnIInv'
<1>1. TypeOK /\ failures \in Nat
  BY DEF AudioIInv, TypeOK
<1>2. CASE EmbedWindowFails
  <2>1. /\ SameTrack /\ UNCHANGED <<turns, vadBuffer>> /\ newTurns' = <<>> /\ failures' = failures + 1
        /\ pc = "windows" /\ pc' = "idle" /\ HasWindow /\ Pop
    BY <1>2 DEF EmbedWindowFails, Fail, SameTrack
  <2>2. TurnsKept
    BY <1>1, <2>1, KeepsTurns
  <2>3. failures' # 0
    BY <1>1, <2>1
  <2>4. \A t \in Range(AllTurns') : t \in Range(AllTurns)
    BY <1>1, <2>2, KeptSet
  <2> QED
    BY <2>1, <2>3, <2>4, PopKeepsTurns
<1>3. CASE EmbedWindow
  <2>1. /\ SameTrack /\ UNCHANGED <<turns, vadBuffer, failures>>
        /\ pc = "windows" /\ pc' = "windows" /\ HasWindow /\ Pop
    BY <1>3 DEF EmbedWindow, SameTrack
  <2>2. nextStart \in Nat /\ buf \in Seq(Nat) /\ Win \in Nat /\ hop \in Nat /\ hop >= 1 /\ hop <= Win /\ Len(buf) >= Win
    BY <1>1, <2>1, StreamFacts DEF TypeOK, HasWindow
  <2> DEFINE u == nextStart + Win
             audio == Window
  <2>3. audio \in Seq(Nat) /\ audio # <<>>
    <3>1. Window \in Seq(Nat) /\ Len(Window) = Win
      BY <2>2, SubSeqProperties DEF Window
    <3>2. Len(Window) # 0
      BY <2>2, <3>1
    <3> QED
      BY <3>1, <3>2, EmptySeq
  <2>4. u \in Nat /\ Embed(nextStart, u, audio)
    BY <1>3, <2>2 DEF EmbedWindow
  <2> HIDE DEF u, audio
  <2>5. \E t \in TurnRecord :
          /\ t.speaker = last'.speaker /\ t.stable = last'.stable
          /\ t.start = nextStart /\ t.end = u /\ t.audio = audio[1]
          /\ TurnAdded(t)
    BY <1>1, <2>1, <2>2, <2>3, <2>4, EmbedAddsTurn
  <2>6. PICK t \in TurnRecord : t.start = nextStart /\ t.end = u /\ TurnAdded(t)
    BY <2>5
  <2>7. /\ Range(AllTurns') = Range(AllTurns) \cup {t}
        /\ SpansOf(AllTurns') = SpansOf(AllTurns) \cup {<<t.start, t.end>>}
    BY <1>1, <2>6, AddedSet
  <2>8. SpansOf(AllTurns)' = SpansOf(AllTurns) \cup {<<nextStart, nextStart + Win>>}
    BY <2>6, <2>7 DEF SpansOf, u
  <2>9. OutsideShort(t)
    <3>1. InHand
      BY <2>1 DEF InHand, AudioIInv, LoopFollowsRegion
    <3> QED
      BY <2>6, <3>1, HandIsOutside
  <2>10. \A x \in Range(AllTurns') : x \in Range(AllTurns) \/ OutsideShort(x)
    BY <2>7, <2>9
  <2> QED
    BY <2>1, <2>8, <2>10, PopKeepsTurns
<1> QED
  BY <1>2, <1>3

-----------------------------------------------------------------------------
(* The turns of the regions: a frame, and a flush.                         *)

\* The region that is open now.
IsOpen(s) == tracker.inRegion /\ s = tracker.start
OpenIsNotShort == \A s : IsOpen(s) => ~IsShort(s)

LEMMA OpenRegionIsNotShort == StreamingAssumption /\ TypeOK /\ FollowsTheTrack => OpenIsNotShort
BY RegionsKnown DEF RegionsAre, IsOpen, OpenIsNotShort, IsShort

LEMMA OpenRegionIsNotShortAfter == (StreamingAssumption /\ TypeOK /\ FollowsTheTrack => OpenIsNotShort)'
BY OpenRegionIsNotShort, PTL

LEMMA NotShortNext ==
  ASSUME StreamingAssumption, TypeOK', FollowsTheTrack', tracker'.inRegion, NEW s, s = tracker'.start
  PROVE  ~IsShort(s)'
<1>1. OpenIsNotShort'
  BY OpenRegionIsNotShortAfter
<1> QED
  BY <1>1 DEF OpenIsNotShort, IsOpen

LEMMA OtherRegionsStay ==
  ASSUME StreamingAssumption, TypeOK, FollowsTheTrack, TrackGrows, NEW s \in Starts, ~IsOpen(s)
  PROVE  SameRegion(s)
<1>1. RegionsAre
  BY RegionsKnown
<1>2. tracker.inRegion \in BOOLEAN
  <2>1. tracker \in [inRegion : BOOLEAN, start : 0 .. totalFrames, lastActive : 0 .. totalFrames, off : 0 .. totalFrames]
    BY DEF TypeOK, TrackerAt, Trackers
  <2> QED
    BY <2>1
<1>3. Settled(s)
  BY <1>1, <1>2 DEF RegionsAre, IsOpen
<1> QED
  BY <1>3, SettledStays

LEMMA SilentTurns ==
  ASSUME ShortRegionsAreSilent, AllTurns' = AllTurns,
         \A s \in Starts' : IsShort(s)' =>
           \/ s \in Starts /\ SameRegion(s)
           \/ \A t \in Range(AllTurns) : ~(s * FrameSize <= t.start)
  PROVE  ShortRegionsAreSilent'
<1>1. ASSUME NEW t \in Range(AllTurns), NEW s \in Starts', IsShort(s)'
      PROVE  ~(s * FrameSize <= t.start /\ t.start < EndOfRegion(s)' * FrameSize)
  <2>1. CASE s \in Starts /\ SameRegion(s)
    BY <1>1, <2>1 DEF SameRegion, ShortRegionsAreSilent
  <2>2. CASE \A u \in Range(AllTurns) : ~(s * FrameSize <= u.start)
    BY <1>1, <2>2
  <2> QED
    BY <1>1, <2>1, <2>2
<1> QED
  BY <1>1 DEF ShortRegionsAreSilent

(* No region before it, and none after.                                    *)
LEMMA SilenceKeepsTurns ==
  ASSUME StreamingAssumption, TypeOK, TurnIInv, FollowsTheTrack', TrackGrows,
         ~tracker.inRegion, ~tracker'.inRegion, pc # "close", pc # "windows", pc' = "frames",
         Starts' = Starts, AllTurns' = AllTurns, failures' = failures, buf' = buf
  PROVE  TurnIInv'
<1>1. FollowsTheTrack /\ ShortRegionsAreSilent /\ TurnsSoFar
  BY DEF TurnIInv
<1>2. ~InHand /\ ~InHand'
  BY DEF InHand
<1>3. \A s \in Starts : SameRegion(s)
  BY <1>1, OtherRegionsStay DEF IsOpen
<1>4. ShortRegionsAreSilent'
  BY <1>1, <1>3, SilentTurns
<1>5. ExpectedTurns' = ExpectedTurns
  BY <1>3 DEF ExpectedTurns, SameRegion
<1>6. SpansOf(AllTurns)' = SpansOf(AllTurns)
  BY DEF SpansOf
<1>7. TurnsSoFar'
  BY <1>1, <1>2, <1>5, <1>6 DEF TurnsSoFar
<1>8. BufferMovesByHops' /\ ClosingIsKept'
  BY <1>2 DEF BufferMovesByHops, ClosingIsKept
<1> QED
  BY <1>4, <1>7, <1>8 DEF TurnIInv

LEMMA NoHops == ASSUME NEW h \in Nat PROVE 0 * h = 0
OBVIOUS

(* A frame opens a region: its first sample is where the buffer starts.     *)
LEMMA OpeningKeepsTurns ==
  ASSUME StreamingAssumption, TypeOK, AudioIInv', TurnIInv, FollowsTheTrack', TrackGrows,
         ~tracker.inRegion, tracker'.inRegion, pc = "frames", pc' = "windows",
         NEW n, n = totalFrames, tracker'.start = n,
         nextStart' = n * FrameSize, Starts' = Starts \cup {n}, AllTurns' = AllTurns, failures' = failures
  PROVE  TurnIInv'
<1>1. FollowsTheTrack /\ ShortRegionsAreSilent /\ TurnsSoFar /\ TypeOK'
  BY DEF TurnIInv, AudioIInv
<1>2. ~InHand /\ InHand'
  BY DEF InHand
<1>3. \A s \in Starts : SameRegion(s)
  BY <1>1, OtherRegionsStay DEF IsOpen
<1>4. ~IsShort(n)'
  BY <1>1, NotShortNext
<1>5. ShortRegionsAreSilent'
  BY <1>1, <1>3, <1>4, SilentTurns
<1>6. FirstSample' = nextStart'
  BY DEF FirstSample
<1>7. /\ totalFrames \in Nat /\ totalFrames' \in {n, n + 1}
      /\ FrameSize \in Nat /\ hop \in Nat /\ hop >= 1 /\ hop' = hop
      /\ n * FrameSize \in Nat /\ totalFrames' * FrameSize \in Nat /\ n * FrameSize <= totalFrames' * FrameSize
  <2>1. totalFrames \in Nat /\ FrameSize \in Nat /\ hop \in Nat /\ hop >= 1
    BY StreamFacts
  <2>2. totalFrames' \in {n, n + 1} /\ hop' = hop
    BY DEF TrackGrows, Extends
  <2>3. totalFrames' \in Nat /\ n \in Nat /\ n <= totalFrames'
    BY <2>1, <2>2
  <2> QED
    BY <2>1, <2>2, <2>3, FrameSamples, Zenon
<1>8. n \notin Starts
  <2>1. RegionsAre
    BY <1>1, RegionsKnown
  <2> QED
    BY <1>7, <2>1 DEF RegionsAre
<1>9. BufferMovesByHops'
  <2> DEFINE P == totalFrames' * FrameSize
             first == n * FrameSize
  <2>1. 0 \in 0 .. P /\ first = first + 0 * hop /\ ~(first > first)
    <3>1. P \in Nat /\ first \in Nat /\ 0 * hop = 0
      BY <1>7, NoHops, Zenon
    <3> HIDE DEF P, first
    <3> QED
      BY <3>1
  <2>2. FirstSample' = first /\ nextStart' = first /\ hop' = hop
    BY <1>6, <1>7
  <2> HIDE DEF first
  <2> QED
    BY <2>1, <2>2 DEF BufferMovesByHops
<1>10. ClosingIsKept'
  BY DEF ClosingIsKept
<1>11. WindowsCut' = {}
  <2> DEFINE P == totalFrames' * FrameSize
             first == n * FrameSize
  <2>1. WindowsCut' = WindowsBelow(FirstSample', hop', nextStart', P)
    BY DEF WindowsCut, WindowsBelow
  <2>2. first \in Nat /\ P \in Nat /\ first <= P /\ first = first + 0 * hop
    <3>1. P \in Nat /\ first \in Nat /\ 0 * hop = 0 /\ first <= P
      BY <1>7, NoHops, Zenon
    <3> HIDE DEF P, first
    <3> QED
      BY <3>1
  <2>3. WindowsCut' = WindowsBelow(first, hop, first, P)
    BY <1>6, <1>7, <2>1
  <2> HIDE DEF first, P
  <2>4. WindowsCut' = FirstWindows(first, hop, 0)
    BY <1>7, <2>2, <2>3, WindowsBelowAre
  <2> QED
    BY <2>4, FirstWindowsMore
<1>12. WindowsBefore' = ExpectedTurns
  <2>1. Starts' \ {tracker'.start} = Starts
    BY <1>8
  <2>2. WindowsBefore' = UNION {WindowsOf(s)' : s \in Starts}
    BY <2>1 DEF WindowsBefore
  <2> QED
    BY <1>3, <2>2 DEF ExpectedTurns, SameRegion
<1>13. SpansOf(AllTurns)' = SpansOf(AllTurns)
  BY DEF SpansOf
<1>14. TurnsSoFar'
  BY <1>1, <1>2, <1>11, <1>12, <1>13 DEF TurnsSoFar
<1> QED
  BY <1>5, <1>9, <1>10, <1>14 DEF TurnIInv

(* A step that cuts no window of the region in hand, and drops no sample.    *)
LEMMA CutStays ==
  ASSUME StreamingAssumption, AudioIInv, TurnIInv, TrackGrows, tracker.inRegion, InHand',
         tracker'.start = tracker.start, nextStart' = nextStart, Len(buf') \in Nat, Len(buf') >= Len(buf)
  PROVE  FirstSample' = FirstSample /\ BufferMovesByHops' /\ WindowsCut' = WindowsCut
<1>1. BufferMovesByHops /\ InHand
  BY DEF TurnIInv, InHand
<1>6. FirstSample' = FirstSample
  BY DEF FirstSample
<1>7. /\ FrameSize \in Nat /\ Win \in Nat /\ hop \in Nat /\ hop >= 1 /\ hop <= Win /\ hop' = hop
      /\ totalFrames \in Nat /\ FirstSample \in Nat /\ nextStart \in Nat /\ Len(buf) \in Nat
      /\ totalFrames * FrameSize \in Nat /\ nextStart + Len(buf) = totalFrames * FrameSize
  BY HandFacts DEF TrackGrows
<1>8. totalFrames' * FrameSize \in Nat /\ totalFrames * FrameSize <= totalFrames' * FrameSize
  <2>1. totalFrames' \in Nat /\ totalFrames <= totalFrames'
    BY <1>7 DEF TrackGrows, Extends
  <2> QED
    BY <1>7, <2>1, FrameSamples, Zenon
<1>9. PICK K \in Nat : HopsBy(K)
  BY <1>1, HopsTaken
<1>10. /\ nextStart = FirstSample + K * hop /\ K * hop \in Nat /\ K <= K * hop
       /\ nextStart > FirstSample => Len(buf) >= Win - hop
  BY <1>1, <1>7, <1>9, HopsGrow DEF HopsBy, BufferMovesByHops
<1> DEFINE P == totalFrames * FrameSize
           Q == totalFrames' * FrameSize
<1>11. P \in Nat /\ Q \in Nat /\ P <= Q /\ nextStart + Len(buf) = P
  BY <1>7, <1>8
<1>p. WindowsCut' = WindowsBelow(FirstSample, hop, nextStart, Q)
  <2>1. WindowsCut' = WindowsBelow(FirstSample', hop', nextStart', Q)
    BY DEF WindowsCut, WindowsBelow
  <2> QED
    BY <1>6, <1>7, <2>1
<1>12. BufferMovesByHops'
  <2> HIDE DEF P
  <2> SUFFICES /\ \E k \in 0 .. Q : nextStart = FirstSample + k * hop
               /\ nextStart > FirstSample => Len(buf') >= Win - hop
    BY <1>6, <1>7 DEF BufferMovesByHops
  <2> HIDE DEF Q
  <2>1. K \in 0 .. Q
    BY <1>7, <1>10, <1>11
  <2> QED
    BY <1>7, <1>10, <2>1
<1>14. WindowsCut' = WindowsCut
  <2> HIDE DEF P, Q
  <2>1. nextStart <= Q
    BY <1>7, <1>11
  <2>2. WindowsCut' = FirstWindows(FirstSample, hop, K)
    BY <1>7, <1>10, <1>11, <1>p, <2>1, WindowsBelowAre
  <2>3. WindowsCut = FirstWindows(FirstSample, hop, K)
    BY <1>1, <1>9, CutWindowsAre
  <2> QED
    BY <2>2, <2>3
<1> QED
  BY <1>6, <1>12, <1>14

(* A frame of an open region: its buffer grows.                            *)
LEMMA StayingKeepsTurns ==
  ASSUME StreamingAssumption, AudioIInv, AudioIInv', TurnIInv, FollowsTheTrack', TrackGrows,
         tracker.inRegion, tracker'.inRegion, pc = "frames", pc' = "windows",
         NEW s, s = tracker.start, tracker'.start = s,
         nextStart' = nextStart, Len(buf') \in Nat, Len(buf') >= Len(buf),
         Starts' = Starts, AllTurns' = AllTurns, failures' = failures
  PROVE  TurnIInv'
<1>1. FollowsTheTrack /\ ShortRegionsAreSilent /\ TurnsSoFar /\ TypeOK' /\ TypeOK
  BY DEF TurnIInv, AudioIInv
<1>2. InHand /\ InHand'
  BY DEF InHand
<1>3. \A q \in Starts : q # s => SameRegion(q)
  BY <1>1, OtherRegionsStay DEF IsOpen
<1>4. ~IsShort(s)'
  BY <1>1, NotShortNext
<1>5. ShortRegionsAreSilent'
  BY <1>1, <1>3, <1>4, SilentTurns
<1>6. BufferMovesByHops' /\ WindowsCut' = WindowsCut
  BY <1>2, CutStays
<1>7. ClosingIsKept'
  BY DEF ClosingIsKept
<1>8. WindowsBefore' = WindowsBefore
  <2>1. WindowsBefore' = UNION {WindowsOf(q)' : q \in Starts \ {s}}
    BY DEF WindowsBefore
  <2> QED
    BY <1>3, <2>1 DEF WindowsBefore, SameRegion
<1>9. SpansOf(AllTurns)' = SpansOf(AllTurns)
  BY DEF SpansOf
<1>10. TurnsSoFar'
  BY <1>1, <1>2, <1>6, <1>8, <1>9 DEF TurnsSoFar
<1> QED
  BY <1>5, <1>6, <1>7, <1>10 DEF TurnIInv

\* The step that closes the region s, at e.
ClosesRegion(s, e) ==
  /\ tracker.inRegion /\ ~tracker'.inRegion /\ s = tracker.start /\ tracker'.start = s
  /\ pc \in {"frames", "idle"} /\ Starts' = Starts /\ nextStart' = nextStart
  /\ AllTurns' = AllTurns /\ failures' = failures
  /\ e = EndOfRegion(s)' /\ segEnd' = e * FrameSize /\ IsClosed(s)'
  /\ AudioEnd(s)' = totalFrames * FrameSize /\ e \in Nat /\ totalFrames <= e

LEMMA ClosesLatest ==
  ASSUME StreamingAssumption, TypeOK, FollowsTheTrack, NEW s, NEW e, ClosesRegion(s, e)
  PROVE  s \in Starts /\ \A q \in Starts : q <= s
<1>1. /\ totalFrames \in Nat /\ ActiveFrames \in SUBSET Nat /\ Cuts \in SUBSET Nat
      /\ MinOff \in Nat /\ Tracks(tracker, ActiveFrames, Cuts, MinOff, totalFrames)
  BY TrackFacts
<1>2. tracker.inRegion /\ s = tracker.start
  BY DEF ClosesRegion
<1>3. RegionsAre
  BY RegionsKnown
<1>4. s \in Starts /\ s \in Nat
  BY <1>2, <1>3 DEF RegionsAre
<1>5. ASSUME NEW q \in Starts PROVE q <= s
  <2>1. CASE q = s
    BY <1>4, <2>1
  <2>2. CASE q # s
    <3>1. Settled(q) /\ EndOfRegion(q) <= s
      BY <1>2, <1>3, <2>2 DEF RegionsAre
    <3>2. q < EndOfRegion(q) /\ EndOfRegion(q) \in Nat
      BY <3>1, SettledRegion DEF SettledIs
    <3>3. q \in Nat
      BY <1>3 DEF RegionsAre
    <3> QED
      BY <1>4, <3>1, <3>2, <3>3
  <2> QED
    BY <2>1, <2>2
<1> QED
  BY <1>4, <1>5

LEMMA ClosesOthers ==
  ASSUME StreamingAssumption, TypeOK, FollowsTheTrack, TrackGrows, NEW s, NEW e, ClosesRegion(s, e)
  PROVE  (\A q \in Starts : q # s => SameRegion(q)) /\ WindowsBefore' = WindowsBefore
<1>1. s = tracker.start /\ tracker'.start = s /\ Starts' = Starts
  BY DEF ClosesRegion
<1>3. \A q \in Starts : q # s => SameRegion(q)
  BY <1>1, OtherRegionsStay DEF IsOpen
<1>15. WindowsBefore' = WindowsBefore
  <2>1. WindowsBefore' = UNION {WindowsOf(q)' : q \in Starts \ {s}}
    BY <1>1 DEF WindowsBefore
  <2> QED
    BY <1>1, <1>3, <2>1 DEF WindowsBefore, SameRegion
<1> QED
  BY <1>3, <1>15

(* A region long enough is kept until its last window is embedded.          *)
LEMMA KeptClosingKeepsTurns ==
  ASSUME StreamingAssumption, AudioIInv, TurnIInv, FollowsTheTrack', TrackGrows,
         NEW s, NEW e, ClosesRegion(s, e), ~IsShort(s)', pc' = "close", buf' = buf
  PROVE  TurnIInv'
<1>1. FollowsTheTrack /\ ShortRegionsAreSilent /\ TurnsSoFar /\ TypeOK
  BY DEF TurnIInv, AudioIInv
<1>2. /\ tracker.inRegion /\ ~tracker'.inRegion /\ s = tracker.start /\ tracker'.start = s
      /\ pc \in {"frames", "idle"} /\ Starts' = Starts /\ nextStart' = nextStart
      /\ AllTurns' = AllTurns /\ failures' = failures
      /\ e = EndOfRegion(s)' /\ segEnd' = e * FrameSize /\ IsClosed(s)'
      /\ AudioEnd(s)' = totalFrames * FrameSize
  BY DEF ClosesRegion
<1>3. InHand /\ InHand'
  BY <1>2 DEF InHand
<1>4. s \in Starts /\ \A q \in Starts : q <= s
  BY <1>1, ClosesLatest
<1>5. (\A q \in Starts : q # s => SameRegion(q)) /\ WindowsBefore' = WindowsBefore
  BY <1>1, ClosesOthers
<1>6. /\ Len(buf) \in Nat /\ nextStart + Len(buf) = totalFrames * FrameSize
  BY <1>2, HandFacts
<1>7. BufferMovesByHops' /\ WindowsCut' = WindowsCut
  <2>1. Len(buf') \in Nat /\ Len(buf') >= Len(buf)
    BY <1>6
  <2> QED
    BY <1>2, <1>3, <2>1, CutStays
<1>8. ShortRegionsAreSilent'
  BY <1>1, <1>2, <1>5, SilentTurns
<1>9. ClosingIsKept'
  <2>1. nextStart' + Len(buf') = AudioEnd(s)'
    BY <1>2, <1>6
  <2> QED
    BY <1>2, <1>4, <2>1 DEF ClosingIsKept
<1>10. SpansOf(AllTurns)' = SpansOf(AllTurns)
  BY <1>2 DEF SpansOf
<1>11. TurnsSoFar'
  BY <1>1, <1>2, <1>3, <1>5, <1>7, <1>10 DEF TurnsSoFar
<1> QED
  BY <1>7, <1>8, <1>9, <1>11 DEF TurnIInv

\* A window is cut only once the region is long enough to be kept.
WindowsCoverMinSpeech == MinOn * FrameSize <= Win

LEMMA ShortHasNoWindow ==
  ASSUME StreamingAssumption, WindowsCoverMinSpeech, AudioIInv, TurnIInv,
         NEW s, NEW e, ClosesRegion(s, e), IsShort(s)'
  PROVE  nextStart = FirstSample /\ WindowsCut = {} /\ FirstSample = s * FrameSize
<1>1. tracker.inRegion /\ s = tracker.start /\ InHand /\ BufferMovesByHops
  BY DEF ClosesRegion, InHand, TurnIInv
<1>2. /\ FrameSize \in Nat /\ FrameSize >= 1 /\ Win \in Nat /\ hop \in Nat /\ hop >= 1 /\ hop <= Win
      /\ totalFrames \in Nat /\ FirstSample \in Nat /\ nextStart \in Nat /\ Len(buf) \in Nat
      /\ totalFrames * FrameSize \in Nat /\ nextStart + Len(buf) = totalFrames * FrameSize
      /\ s \in Nat /\ s <= totalFrames
  BY <1>1, HandFacts
<1>3. e - s < MinOn /\ e \in Nat /\ totalFrames <= e
  BY DEF ClosesRegion, IsShort
<1>4. MinOn \in Nat
  BY DEF StreamingAssumption
<1>5. totalFrames * FrameSize < s * FrameSize + MinOn * FrameSize
  <2>1. totalFrames + 1 <= s + MinOn /\ totalFrames + 1 \in Nat /\ s + MinOn \in Nat
    BY <1>2, <1>3, <1>4
  <2>2. (totalFrames + 1) * FrameSize <= (s + MinOn) * FrameSize
    BY <1>2, <2>1, FrameSamples
  <2>3. /\ (totalFrames + 1) * FrameSize = totalFrames * FrameSize + FrameSize
        /\ (s + MinOn) * FrameSize = s * FrameSize + MinOn * FrameSize
        /\ s * FrameSize \in Nat /\ MinOn * FrameSize \in Nat
    BY <1>2, <1>4
  <2> DEFINE P == totalFrames * FrameSize
             F == s * FrameSize
             M == MinOn * FrameSize
  <2>4. P + FrameSize <= F + M /\ P \in Nat /\ F \in Nat /\ M \in Nat
    BY <1>2, <2>2, <2>3
  <2> HIDE DEF P, F, M
  <2>5. P < F + M
    BY <1>2, <2>4
  <2> QED
    BY <2>5 DEF P, F, M
<1>6. FirstSample = s * FrameSize
  BY <1>1 DEF FirstSample
<1>7. PICK K \in Nat : HopsBy(K)
  BY <1>1, HopsTaken
<1>8. K = 0
  <2> SUFFICES ASSUME K # 0 PROVE FALSE
    OBVIOUS
  <2>1. nextStart = FirstSample + K * hop /\ Len(buf) >= Win - hop
    BY <1>7 DEF HopsBy
  <2>2. K - 1 \in Nat /\ (K - 1) + 1 = K
    OBVIOUS
  <2>3. K * hop = (K - 1) * hop + hop /\ (K - 1) * hop \in Nat
    BY <1>2, <2>2, HopsGrow
  <2> DEFINE P == totalFrames * FrameSize
             M == MinOn * FrameSize
             H == (K - 1) * hop
  <2>4. P < FirstSample + M /\ P = nextStart + Len(buf) /\ nextStart = FirstSample + (H + hop) /\ H \in Nat
    BY <1>2, <1>5, <1>6, <2>1, <2>3
  <2>5. M \in Nat /\ M <= Win
    BY <1>2, <1>4 DEF WindowsCoverMinSpeech
  <2> HIDE DEF P, M, H
  <2> QED
    BY <1>2, <2>1, <2>4, <2>5
<1>9. nextStart = FirstSample
  <2>1. nextStart = FirstSample + 0 * hop
    BY <1>7, <1>8 DEF HopsBy
  <2> QED
    BY <1>2, <2>1, NoHops
<1>10. WindowsCut = FirstWindows(FirstSample, hop, 0)
  BY <1>1, <1>7, <1>8, CutWindowsAre
<1>11. WindowsCut = {}
  BY <1>2, <1>10, FirstWindowsMore
<1> QED
  BY <1>6, <1>9, <1>11

(* A region too short leaves nothing, and none of its windows were cut.     *)
LEMMA ShortClosingKeepsTurns ==
  ASSUME StreamingAssumption, WindowsCoverMinSpeech, AudioIInv, TurnIInv, FollowsTheTrack', TrackGrows,
         NEW s, NEW e, ClosesRegion(s, e), IsShort(s)', pc' = "frames", buf' = <<>>
  PROVE  TurnIInv'
<1>1. FollowsTheTrack /\ ShortRegionsAreSilent /\ TurnsSoFar /\ TypeOK /\ TurnsBeforeBuffer
  BY DEF TurnIInv, AudioIInv
<1>2. /\ tracker.inRegion /\ ~tracker'.inRegion /\ s = tracker.start /\ tracker'.start = s
      /\ Starts' = Starts /\ AllTurns' = AllTurns /\ failures' = failures
  BY DEF ClosesRegion
<1>3. InHand /\ ~InHand'
  BY <1>2 DEF InHand
<1>4. s \in Starts
  BY <1>1, ClosesLatest
<1>5. (\A q \in Starts : q # s => SameRegion(q)) /\ WindowsBefore' = WindowsBefore
  BY <1>1, ClosesOthers
<1>6. nextStart = FirstSample /\ WindowsCut = {} /\ FirstSample = s * FrameSize
  BY ShortHasNoWindow
<1>7. ASSUME NEW t \in Range(AllTurns) PROVE ~(s * FrameSize <= t.start)
  <2>1. PICK j \in DOMAIN AllTurns : t = AllTurns[j]
    BY DEF Range
  <2>2. AllTurns[j].start < nextStart
    BY <1>1, <1>2 DEF TurnsBeforeBuffer
  <2>3. AllTurns[j].start \in Nat
    <3>1. AllTurns[j] \in TurnRecord
      BY <1>1, TurnsAreTurns
    <3> QED
      BY <3>1 DEF TurnRecord
  <2>4. nextStart \in Nat
    BY HandFacts
  <2> HIDE DEF FirstSample
  <2>5. ~(nextStart <= t.start)
    BY <2>1, <2>2, <2>3, <2>4
  <2> QED
    BY <1>6, <2>5
<1>8. ShortRegionsAreSilent'
  BY <1>1, <1>2, <1>5, <1>7, SilentTurns
<1>9. BufferMovesByHops' /\ ClosingIsKept'
  BY <1>3 DEF BufferMovesByHops, ClosingIsKept
<1>10. SpansOf(AllTurns)' = SpansOf(AllTurns)
  BY <1>2 DEF SpansOf
<1>11. ExpectedTurns' = WindowsBefore'
  <2>1. WindowsOf(s)' = {}
    BY DEF WindowsOf
  <2>2. ExpectedTurns' = UNION {WindowsOf(q)' : q \in Starts} /\ WindowsBefore' = UNION {WindowsOf(q)' : q \in Starts \ {s}}
    BY <1>2 DEF ExpectedTurns, WindowsBefore
  <2> QED
    BY <2>1, <2>2
<1>12. Len(buf') < Win
  <2>1. Win \in Nat /\ hop >= 1 /\ hop <= Win /\ hop \in Nat
    BY HandFacts
  <2>2. Len(buf') = 0
    OBVIOUS
  <2> QED
    BY <2>1, <2>2
<1>13. TurnsSoFar'
  BY <1>1, <1>2, <1>3, <1>5, <1>6, <1>10, <1>11, <1>12 DEF TurnsSoFar
<1> QED
  BY <1>8, <1>9, <1>13 DEF TurnIInv

LEMMA FrameGrowsTrack ==
  ASSUME StreamingAssumption, TypeOK, FollowsTheTrack, NEW active \in BOOLEAN, ProcessFrame(active),
         NEW n, n = totalFrames
  PROVE  /\ totalFrames' = n + 1 /\ Cuts' = Cuts /\ (active <=> n \in ActiveFrames') /\ TrackGrows
         /\ Extends(ActiveFrames, Cuts, n, ActiveFrames', Cuts, n + 1)
<1>1. /\ totalFrames' = n + 1 /\ track' = Append(track, active) /\ hop' = hop /\ flushes' = flushes
  BY DEF ProcessFrame
<1>2. Cuts' = Cuts
  BY <1>1 DEF Cuts
<1>3. n \in Nat /\ track \in Seq(BOOLEAN) /\ Len(track) = n
  BY DEF TypeOK
<1>4. /\ Len(track') = n + 1 /\ track'[n + 1] = active
      /\ \A i \in 1 .. n : track'[i] = track[i]
  BY <1>1, <1>3, AppendProperties
<1>5. \A i : i \in ActiveFrames <=> i \in 0 .. n - 1 /\ track[i + 1]
  BY <1>3 DEF ActiveFrames
<1>6. \A i : i \in ActiveFrames' <=> i \in 0 .. n /\ track'[i + 1]
  BY <1>3, <1>4 DEF ActiveFrames
<1>7. \A i \in 0 .. n - 1 : i + 1 \in 1 .. n /\ track'[i + 1] = track[i + 1] /\ i \in 0 .. n
  BY <1>3, <1>4
<1>8. n \in 0 .. n /\ (\A i \in 0 .. n : i = n \/ i \in 0 .. n - 1)
  BY <1>3
<1>9. ActiveFrames \subseteq ActiveFrames'
  BY <1>5, <1>6, <1>7
<1>10. ActiveFrames' \subseteq ActiveFrames \cup {n}
  BY <1>5, <1>6, <1>7, <1>8
<1>11. active <=> n \in ActiveFrames'
  BY <1>4, <1>6, <1>8
<1>12. ActiveFrames \subseteq 0 .. n - 1 /\ ActiveFrames' \subseteq 0 .. (n + 1) - 1 /\ Cuts \subseteq 0 .. n
  <2>1. (n + 1) - 1 = n
    BY <1>3
  <2> QED
    BY <1>5, <1>6, <2>1 DEF FollowsTheTrack
<1>13. Extends(ActiveFrames, Cuts, n, ActiveFrames', Cuts, n + 1)
  BY <1>9, <1>10, <1>12 DEF Extends
<1> QED
  BY <1>1, <1>2, <1>11, <1>13 DEF TrackGrows

LEMMA FrameFollows ==
  ASSUME StreamingAssumption, TypeOK, FollowsTheTrack, NEW active \in BOOLEAN, ProcessFrame(active),
         NEW n, n = totalFrames, Tracks(tracker', ActiveFrames', Cuts, MinOff, n + 1)
  PROVE  FollowsTheTrack' /\ n < Usize /\ n + 1 < Usize
<1>1. totalFrames' = n + 1 /\ Cuts' = Cuts /\ vadBuffer' = RestOfBuffer /\ HasFrame
  <2>1. totalFrames' = n + 1 /\ Cuts' = Cuts
    BY FrameGrowsTrack
  <2> QED
    BY <2>1 DEF ProcessFrame
<1>2. /\ n \in Nat /\ n * FrameSize \in Nat /\ (n + 1) * FrameSize = n * FrameSize + FrameSize
      /\ FrameSize \in Nat /\ FrameSize >= 1 /\ Len(vadBuffer) \in Nat /\ Len(vadBuffer) >= FrameSize
  BY <1>1, StreamFacts DEF HasFrame
<1>3. MaxAudio \in Nat /\ Usize \in Nat /\ MaxAudio < Usize
  BY DEF StreamingAssumption
<1>4. n * FrameSize + Len(vadBuffer) <= MaxAudio /\ Cuts \subseteq 0 .. n
  BY DEF FollowsTheTrack
<1>5. Len(vadBuffer') = Len(vadBuffer) - FrameSize
  BY <1>1, FrameRest
<1>6. n + 1 <= (n + 1) * FrameSize
  <2>1. n + 1 \in Nat /\ 1 \in Nat
    BY <1>2
  <2>2. (n + 1) * FrameSize >= n + 1
    BY <1>2, <2>1, HopsGrow
  <2>3. (n + 1) * FrameSize \in Nat
    BY <1>2
  <2> DEFINE Q == (n + 1) * FrameSize
  <2> HIDE DEF Q
  <2>4. Q \in Nat /\ Q >= n + 1
    BY <2>2, <2>3 DEF Q
  <2>5. n + 1 <= Q
    BY <1>2, <2>4
  <2> QED
    BY <2>5 DEF Q
<1>7. totalFrames' * FrameSize + Len(vadBuffer') <= MaxAudio /\ n < Usize /\ n + 1 < Usize
  <2> DEFINE P == n * FrameSize
             Q == (n + 1) * FrameSize
  <2>1. P \in Nat /\ Q = P + FrameSize /\ P + Len(vadBuffer) <= MaxAudio /\ n + 1 <= Q
    BY <1>2, <1>4, <1>6
  <2> HIDE DEF P, Q
  <2>2. Q + Len(vadBuffer') <= MaxAudio /\ n < Usize /\ n + 1 < Usize
    BY <1>2, <1>3, <1>5, <2>1
  <2> QED
    BY <1>1, <2>2 DEF Q
<1>8. n + 1 \notin Cuts /\ Cuts \subseteq 0 .. n + 1
  BY <1>2, <1>4
<1> QED
  BY <1>1, <1>7, <1>8 DEF FollowsTheTrack

LEMMA KeptIsLongEnough ==
  ASSUME StreamingAssumption, NEW s \in Nat, NEW e \in Nat, s <= e, e < Usize
  PROVE  Kept(EndOf(s, e)) <=> e - s >= MinOn
<1>1. EndOf(s, e).start = s /\ EndOf(s, e).end = e
  BY DEF EndOf
<1>2. e - s \in Nat /\ e - s < Usize /\ Usize \in Nat
  BY DEF StreamingAssumption
<1>3. (e - s) % Usize = e - s
  BY <1>2, SmallIsWhole
<1> QED
  BY <1>1, <1>3 DEF Kept, Keeps

(* The region that closes at e, by the end that SpeechEnd is given.         *)
LEMMA EndClosesRegion ==
  ASSUME StreamingAssumption, WindowsCoverMinSpeech, AudioIInv, TurnIInv, FollowsTheTrack', TrackGrows,
         NEW s, NEW e, e < Usize, ClosesRegion(s, e), SpeechEnd(EndOf(s, e))
  PROVE  TurnIInv'
<1>1. /\ s \in Nat /\ s <= totalFrames /\ totalFrames \in Nat
  <2>1. s = tracker.start
    BY DEF ClosesRegion
  <2> QED
    BY <2>1, HandFacts
<1>2. e \in Nat /\ totalFrames <= e /\ e = EndOfRegion(s)' /\ IsClosed(s)'
  BY DEF ClosesRegion
<1>3. Kept(EndOf(s, e)) <=> e - s >= MinOn
  <2>1. s <= e
    BY <1>1, <1>2
  <2> QED
    BY <1>1, <1>2, <2>1, KeptIsLongEnough
<1>4. /\ pc' = IF Kept(EndOf(s, e)) THEN "close" ELSE "frames"
      /\ buf' = IF Kept(EndOf(s, e)) THEN buf ELSE <<>>
  BY DEF SpeechEnd
<1>5. MinOn \in Nat
  BY DEF StreamingAssumption
<1>6. IsShort(s)' <=> e - s < MinOn
  BY <1>2 DEF IsShort
<1>7. CASE e - s >= MinOn
  <2>1. ~IsShort(s)'
    BY <1>1, <1>2, <1>5, <1>6, <1>7
  <2>2. pc' = "close" /\ buf' = buf
    BY <1>3, <1>4, <1>7
  <2> QED
    BY <2>1, <2>2, KeptClosingKeepsTurns
<1>8. CASE ~(e - s >= MinOn)
  <2>1. IsShort(s)'
    BY <1>1, <1>2, <1>5, <1>6, <1>8
  <2>2. pc' = "frames" /\ buf' = <<>>
    BY <1>3, <1>4, <1>8
  <2> QED
    BY <2>1, <2>2, ShortClosingKeepsTurns
<1> QED
  BY <1>7, <1>8

LEMMA TurnFrameSteps ==
  ASSUME StreamingAssumption, WindowsCoverMinSpeech, AudioIInv, AudioIInv', TurnIInv,
         NEW active \in BOOLEAN, ProcessFrame(active)
  PROVE  TurnIInv'
<1> DEFINE n == totalFrames
           A == ActiveFrames
           B == ActiveFrames'
           C == Cuts
           r == Advance(tracker, active, n, MinOff, "keep")
<1>1. TypeOK /\ FollowsTheTrack
  BY DEF AudioIInv, TurnIInv
<1>2. /\ totalFrames' = n + 1 /\ Cuts' = C /\ (active <=> n \in B) /\ TrackGrows
      /\ Extends(A, C, n, B, C, n + 1)
  BY <1>1, FrameGrowsTrack
<1>3. /\ n \in Nat /\ MinOff \in Nat /\ Tracks(tracker, A, C, MinOff, n)
      /\ tracker.inRegion => n \notin C
  BY <1>1, TrackFacts DEF FollowsTheTrack
<1>4. /\ tracker' = r.tracker /\ OnEvent(r.event, r.tracker.inRegion) /\ pc = "frames" /\ HasFrame
      /\ turns' = turns /\ newTurns' = newTurns /\ failures' = failures /\ hop' = hop
  BY DEF ProcessFrame
<1>5. AllTurns' = AllTurns
  BY <1>4 DEF AllTurns
<1>s. Starts = RegionStarts(A, C, MinOff) /\ Starts' = RegionStarts(B, C, MinOff)
  BY <1>2 DEF Starts
<1>e. \A q : EndOfRegion(q)' = RegionEnd(q, B, C, n + 1, MinOff, "keep") /\ LastActive(q)' = LastFrame(q, B, C, MinOff)
  BY <1>2 DEF EndOfRegion, LastActive
<1>f. /\ FrameSize \in Nat /\ FrameSize >= 1 /\ n * FrameSize \in Nat /\ (n + 1) * FrameSize = n * FrameSize + FrameSize
      /\ Len(buf) \in Nat /\ buf \in Seq(Nat) /\ Frame \in Seq(Nat) /\ Len(Frame) = FrameSize
  BY <1>1, <1>4, StreamFacts, FrameRest DEF TypeOK
<1> HIDE DEF n, A, B, C, r
<1>6. /\ Tracks(r.tracker, B, C, MinOff, n + 1)
      /\ \/ /\ tracker.inRegion /\ r.tracker.inRegion /\ r.event = NoEvent /\ r.tracker.start = tracker.start
            /\ RegionStarts(B, C, MinOff) = RegionStarts(A, C, MinOff)
         \/ /\ tracker.inRegion /\ ~r.tracker.inRegion /\ r.event = EndOf(tracker.start, n + 1)
            /\ r.tracker.start = tracker.start /\ RegionStarts(B, C, MinOff) = RegionStarts(A, C, MinOff)
            /\ RegionEnd(tracker.start, B, C, n + 1, MinOff, "keep") = n + 1
            /\ LastFrame(tracker.start, B, C, MinOff) + 1 + Gap(MinOff) = n + 1
         \/ /\ ~tracker.inRegion /\ r.tracker.inRegion /\ r.event = StartOf(n) /\ r.tracker.start = n
            /\ RegionStarts(B, C, MinOff) = RegionStarts(A, C, MinOff) \cup {n}
         \/ /\ ~tracker.inRegion /\ ~r.tracker.inRegion /\ r.event = NoEvent
            /\ RegionStarts(B, C, MinOff) = RegionStarts(A, C, MinOff)
  <2>1. r = Advance(tracker, active, n, MinOff, "keep")
    BY DEF r
  <2> QED
    BY <1>2, <1>3, <2>1, StreamAdvances
<1>7. Tracks(tracker', ActiveFrames', Cuts, MinOff, n + 1) /\ n = totalFrames
  BY <1>4, <1>6 DEF B, C, n
<1>8. FollowsTheTrack' /\ n < Usize /\ n + 1 < Usize
  BY <1>1, <1>7, FrameFollows
<1>9. ASSUME NEW in, OnEvent(NoEvent, in) PROVE NoSpeechEvent(in)
  BY <1>9 DEF OnEvent, NoEvent
<1>10. CASE /\ tracker.inRegion /\ r.tracker.inRegion /\ r.event = NoEvent /\ r.tracker.start = tracker.start
            /\ RegionStarts(B, C, MinOff) = RegionStarts(A, C, MinOff)
  <2>1. NoSpeechEvent(r.tracker.inRegion)
    BY <1>4, <1>9, <1>10, Zenon
  <2>2. /\ tracker'.inRegion /\ tracker'.start = tracker.start /\ Starts' = Starts
        /\ buf' = buf \o Frame /\ pc' = "windows" /\ nextStart' = nextStart
    BY <1>4, <1>10, <1>s, <2>1 DEF NoSpeechEvent
  <2>3. Len(buf') = Len(buf) + FrameSize
    BY <1>f, <2>2, ConcatProperties, Zenon
  <2>4. Len(buf') \in Nat /\ Len(buf') >= Len(buf)
    BY <1>f, <2>3
  <2> QED
    BY <1>2, <1>4, <1>5, <1>8, <1>10, <2>2, <2>4, StayingKeepsTurns
<1>11. CASE /\ tracker.inRegion /\ ~r.tracker.inRegion /\ r.event = EndOf(tracker.start, n + 1)
            /\ r.tracker.start = tracker.start /\ RegionStarts(B, C, MinOff) = RegionStarts(A, C, MinOff)
            /\ RegionEnd(tracker.start, B, C, n + 1, MinOff, "keep") = n + 1
            /\ LastFrame(tracker.start, B, C, MinOff) + 1 + Gap(MinOff) = n + 1
  <2> PICK s : s = tracker.start
    OBVIOUS
  <2> PICK e : e = n + 1
    OBVIOUS
  <2>1. SpeechEnd(EndOf(s, e))
    BY <1>4, <1>11 DEF OnEvent, EndOf
  <2>2. segEnd' = e * FrameSize /\ nextStart' = nextStart
    <3>1. EndOf(s, e).end = e
      BY DEF EndOf
    <3> QED
      BY <2>1, <3>1 DEF SpeechEnd
  <2>3. EndOfRegion(s)' = e /\ ClosedBySilence(s)'
    BY <1>11, <1>e DEF ClosedBySilence
  <2>4. IsClosed(s)'
    BY <2>3 DEF IsClosed
  <2>5. AudioEnd(s)' = totalFrames * FrameSize
    <3>1. e - 1 = n
      BY <1>3
    <3> QED
      BY <2>3, <3>1 DEF AudioEnd, n
  <2>6. e \in Nat /\ totalFrames <= e
    BY <1>3 DEF n
  <2>7. tracker.inRegion /\ ~tracker'.inRegion /\ tracker'.start = s /\ Starts' = Starts
    BY <1>4, <1>11, <1>s
  <2>8. ClosesRegion(s, e)
    BY <1>4, <1>5, <2>2, <2>3, <2>4, <2>5, <2>6, <2>7 DEF ClosesRegion
  <2> QED
    BY <1>2, <1>8, <2>1, <2>8, EndClosesRegion
<1>12. CASE /\ ~tracker.inRegion /\ r.tracker.inRegion /\ r.event = StartOf(n) /\ r.tracker.start = n
            /\ RegionStarts(B, C, MinOff) = RegionStarts(A, C, MinOff) \cup {n}
  <2>1. SpeechStart(StartOf(n))
    BY <1>4, <1>12 DEF OnEvent, StartOf
  <2>2. pc' = "windows" /\ nextStart' = n * FrameSize
    BY <2>1 DEF SpeechStart, StartOf
  <2>3. ~tracker.inRegion /\ tracker'.inRegion /\ tracker'.start = n /\ Starts' = Starts \cup {n}
    BY <1>4, <1>12, <1>s
  <2> QED
    BY <1>1, <1>2, <1>4, <1>5, <1>7, <1>8, <2>2, <2>3, OpeningKeepsTurns
<1>13. CASE /\ ~tracker.inRegion /\ ~r.tracker.inRegion /\ r.event = NoEvent
            /\ RegionStarts(B, C, MinOff) = RegionStarts(A, C, MinOff)
  <2>1. NoSpeechEvent(r.tracker.inRegion)
    BY <1>4, <1>9, <1>13
  <2>2. ~tracker.inRegion /\ ~tracker'.inRegion /\ Starts' = Starts /\ buf' = buf /\ pc' = "frames"
    BY <1>4, <1>13, <1>s, <2>1 DEF NoSpeechEvent
  <2> QED
    BY <1>1, <1>2, <1>4, <1>5, <1>8, <2>2, SilenceKeepsTurns
<1> QED
  BY <1>6, <1>10, <1>11, <1>12, <1>13

LEMMA FlushGrowsTrack ==
  ASSUME StreamingAssumption, TypeOK, FollowsTheTrack, FlushStream, NEW n, n = totalFrames
  PROVE  /\ totalFrames' = n /\ ActiveFrames' = ActiveFrames /\ Cuts' = Cuts \cup {n} /\ TrackGrows
         /\ Extends(ActiveFrames, Cuts, n, ActiveFrames, Cuts', n)
<1>1. /\ totalFrames' = n /\ track' = track /\ hop' = hop /\ flushes' = Append(flushes, n)
  BY DEF FlushStream
<1>2. ActiveFrames' = ActiveFrames
  BY <1>1 DEF ActiveFrames
<1>3. n \in Nat /\ flushes \in Seq(Nat) /\ ActiveFrames \subseteq 0 .. n - 1 /\ Cuts \subseteq 0 .. n
  BY TrackFacts, Zenon DEF TypeOK
<1>4. /\ DOMAIN flushes = 1 .. Len(flushes) /\ Len(flushes) \in Nat
      /\ DOMAIN flushes' = 1 .. Len(flushes) + 1 /\ flushes'[Len(flushes) + 1] = n
      /\ \A i \in 1 .. Len(flushes) : flushes'[i] = flushes[i]
  BY <1>1, <1>3, AppendProperties, LenProperties
<1>5. \A i : i \in DOMAIN flushes' <=> i \in DOMAIN flushes \/ i = Len(flushes) + 1
  BY <1>4
<1>6. Cuts' = Cuts \cup {n}
  <2>1. ASSUME NEW c \in Cuts' PROVE c \in Cuts \cup {n}
    BY <1>4, <1>5 DEF Cuts, Range
  <2>2. ASSUME NEW c \in Cuts PROVE c \in Cuts'
    BY <1>4, <1>5 DEF Cuts, Range
  <2>3. n \in Cuts'
    BY <1>4, <1>5 DEF Cuts, Range
  <2> QED
    BY <2>1, <2>2, <2>3
<1>7. Extends(ActiveFrames, Cuts, n, ActiveFrames, Cuts', n)
  BY <1>3, <1>6 DEF Extends
<1> QED
  BY <1>1, <1>2, <1>6, <1>7 DEF TrackGrows

LEMMA TurnFlushSteps ==
  ASSUME StreamingAssumption, WindowsCoverMinSpeech, AudioIInv, TurnIInv, FlushStream
  PROVE  TurnIInv'
<1> DEFINE n == totalFrames
           A == ActiveFrames
           C == Cuts
           D == Cuts'
           r == Flush(tracker, n, "keep")
<1>1. TypeOK /\ FollowsTheTrack
  BY DEF AudioIInv, TurnIInv
<1>2. totalFrames' = n /\ ActiveFrames' = A /\ D = C \cup {n} /\ TrackGrows /\ Extends(A, C, n, A, D, n)
  BY <1>1, FlushGrowsTrack
<1>3. /\ n \in Nat /\ MinOff \in Nat /\ Tracks(tracker, A, C, MinOff, n) /\ C \in SUBSET (0 .. n)
      /\ tracker.inRegion => n \notin C
  BY <1>1, TrackFacts DEF FollowsTheTrack
<1>4. /\ tracker' = r.tracker /\ pc = "idle" /\ vadBuffer' = <<>> /\ newTurns' = <<>>
      /\ turns' = turns /\ failures' = failures /\ hop' = hop
      /\ IF r.event.kind = "end" THEN SpeechEnd(r.event) ELSE pc' = "frames" /\ UNCHANGED <<buf, nextStart, segEnd>>
  BY DEF FlushStream
<1>5. AllTurns' = AllTurns
  <2>1. newTurns' = newTurns
    BY <1>4 DEF TurnIInv
  <2> QED
    BY <1>4, <2>1, Zenon DEF AllTurns
<1>s. Starts = RegionStarts(A, C, MinOff) /\ Starts' = RegionStarts(A, D, MinOff)
  BY <1>2 DEF Starts
<1>e. \A q : EndOfRegion(q)' = RegionEnd(q, A, D, n, MinOff, "keep") /\ LastActive(q)' = LastFrame(q, A, D, MinOff)
  BY <1>2 DEF EndOfRegion, LastActive
<1>f. /\ FrameSize \in Nat /\ FrameSize >= 1 /\ n * FrameSize \in Nat /\ Len(vadBuffer) \in Nat
      /\ n * FrameSize + Len(vadBuffer) <= MaxAudio /\ MaxAudio \in Nat /\ Usize \in Nat /\ MaxAudio < Usize
  BY <1>1, StreamFacts DEF FollowsTheTrack, StreamingAssumption
<1>g. n <= n * FrameSize
  <2>1. n * FrameSize >= n
    BY <1>3, <1>f, HopsGrow
  <2> DEFINE P == n * FrameSize
  <2> HIDE DEF P
  <2>2. P \in Nat /\ P >= n
    BY <1>f, <2>1 DEF P
  <2>3. n <= P
    BY <1>3, <2>2
  <2> QED
    BY <2>3 DEF P
<1>h. n < Usize /\ n * FrameSize + Len(vadBuffer') <= MaxAudio
  <2> DEFINE P == n * FrameSize
  <2>1. P \in Nat /\ n <= P /\ P + Len(vadBuffer) <= MaxAudio /\ Len(vadBuffer') = 0
    BY <1>4, <1>f, <1>g
  <2> HIDE DEF P, n
  <2> QED
    BY <1>3, <1>f, <2>1 DEF P
<1> HIDE DEF n, A, C, D, r
<1>6. /\ Tracks(r.tracker, A, D, MinOff, n) /\ ~r.tracker.inRegion
      /\ RegionStarts(A, D, MinOff) = RegionStarts(A, C, MinOff)
      /\ \/ /\ tracker.inRegion /\ r.event = EndOf(tracker.start, n) /\ r.tracker.start = tracker.start
            /\ RegionEnd(tracker.start, A, D, n, MinOff, "keep") = n
            /\ LastFrame(tracker.start, A, D, MinOff) \in Nat
            /\ LastFrame(tracker.start, A, D, MinOff) < n /\ n < LastFrame(tracker.start, A, D, MinOff) + 1 + Gap(MinOff)
         \/ ~tracker.inRegion /\ r.event = NoEvent /\ r.tracker = tracker
  <2>1. r = Flush(tracker, n, "keep")
    BY DEF r
  <2> QED
    BY <1>2, <1>3, <2>1, StreamFlushes
<1>7. FollowsTheTrack'
  <2>1. D \subseteq 0 .. n
    BY <1>2, <1>3
  <2>2. /\ Tracks(tracker', ActiveFrames', Cuts', MinOff, totalFrames') /\ Cuts' \subseteq 0 .. totalFrames'
        /\ ~tracker'.inRegion
    BY <1>2, <1>4, <1>6, <2>1 DEF D
  <2>3. totalFrames' * FrameSize + Len(vadBuffer') <= MaxAudio
    BY <1>2, <1>h
  <2> QED
    BY <2>2, <2>3 DEF FollowsTheTrack
<1>11. CASE /\ tracker.inRegion /\ r.event = EndOf(tracker.start, n) /\ r.tracker.start = tracker.start
            /\ RegionEnd(tracker.start, A, D, n, MinOff, "keep") = n
            /\ LastFrame(tracker.start, A, D, MinOff) \in Nat
            /\ LastFrame(tracker.start, A, D, MinOff) < n /\ n < LastFrame(tracker.start, A, D, MinOff) + 1 + Gap(MinOff)
  <2> PICK s : s = tracker.start
    OBVIOUS
  <2>1. SpeechEnd(EndOf(s, n))
    BY <1>4, <1>11 DEF EndOf
  <2>2. segEnd' = n * FrameSize /\ nextStart' = nextStart
    <3>1. EndOf(s, n).end = n
      BY DEF EndOf
    <3> QED
      BY <2>1, <3>1 DEF SpeechEnd
  <2>3. /\ EndOfRegion(s)' = n /\ LastActive(s)' < n /\ n < LastActive(s)' + 1 + Gap(MinOff)
        /\ LastActive(s)' \in Nat
    BY <1>11, <1>e
  <2>4. IsClosed(s)'
    <3>1. n \in Cuts' /\ n > LastActive(s)'
      BY <1>2, <1>3, <2>3 DEF D
    <3> QED
      BY <3>1 DEF IsClosed
  <2>5. AudioEnd(s)' = totalFrames * FrameSize
    <3>1. Gap(MinOff) \in Nat
      BY <1>3, GapIs
    <3>2. ~ClosedBySilence(s)'
      BY <1>3, <2>3, <3>1 DEF ClosedBySilence
    <3> QED
      BY <2>3, <3>2 DEF AudioEnd, n
  <2>6. n \in Nat /\ totalFrames <= n
    BY <1>3 DEF n
  <2>7. tracker.inRegion /\ ~tracker'.inRegion /\ tracker'.start = s /\ Starts' = Starts
    BY <1>4, <1>6, <1>11, <1>s
  <2>8. ClosesRegion(s, n)
    BY <1>4, <1>5, <2>2, <2>3, <2>4, <2>5, <2>6, <2>7 DEF ClosesRegion
  <2> QED
    BY <1>2, <1>7, <1>h, <2>1, <2>8, EndClosesRegion
<1>13. CASE ~tracker.inRegion /\ r.event = NoEvent /\ r.tracker = tracker
  <2>1. NoEvent.kind # "end"
    BY DEF NoEvent
  <2>2. ~tracker.inRegion /\ ~tracker'.inRegion /\ Starts' = Starts /\ buf' = buf /\ pc' = "frames"
    BY <1>4, <1>13, <1>6, <1>s, <2>1
  <2> QED
    BY <1>1, <1>2, <1>4, <1>5, <1>7, <2>2, SilenceKeepsTurns
<1> QED
  BY <1>6, <1>11, <1>13

LEMMA TurnInit == ASSUME StreamingAssumption, AudioIInv, Init PROVE TurnIInv
<1>1. /\ totalFrames = 0 /\ track = <<>> /\ flushes = <<>> /\ tracker = NewTracker /\ pc = "idle"
      /\ vadBuffer = <<>> /\ buf = <<>> /\ turns = <<>> /\ newTurns = <<>>
  BY DEF Init
<1>2. ActiveFrames = {} /\ Cuts = {}
  BY <1>1 DEF ActiveFrames, Cuts, Range
<1>3. Starts = {}
  BY <1>2 DEF Starts, RegionStarts
<1>4. ~tracker.inRegion
  BY <1>1 DEF NewTracker
<1>5. FollowsTheTrack
  <2>1. TrackerAt(tracker, totalFrames, MinOff)
    BY DEF AudioIInv, TypeOK
  <2>2. NoReach(ActiveFrames, ActiveFrames, Cuts, MinOff, totalFrames)
    BY <1>2 DEF NoReach
  <2>3. totalFrames * FrameSize + Len(vadBuffer) <= MaxAudio
    <3>1. 0 * FrameSize = 0 /\ Len(vadBuffer) = 0 /\ MaxAudio \in Nat
      BY <1>1 DEF StreamingAssumption
    <3> QED
      BY <1>1, <3>1
  <2> QED
    BY <1>2, <1>4, <2>1, <2>2, <2>3 DEF FollowsTheTrack, Tracks
<1>6. ~InHand
  BY <1>1, <1>4 DEF InHand
<1>7. AllTurns = <<>> /\ Range(AllTurns) = {}
  <2>1. AllTurns = <<>>
    BY <1>1 DEF AllTurns
  <2> QED
    BY <2>1 DEF Range
<1>8. SpansOf(AllTurns) = {} /\ ExpectedTurns = {}
  BY <1>3, <1>7 DEF SpansOf, ExpectedTurns
<1>9. Len(buf) < Win
  <2>1. Win \in Nat /\ hop \in Nat /\ hop >= 1 /\ hop <= Win
    BY HandFacts
  <2> QED
    BY <1>1, <2>1
<1> QED
  BY <1>1, <1>5, <1>6, <1>7, <1>8, <1>9
  DEF TurnIInv, BufferMovesByHops, ClosingIsKept, ShortRegionsAreSilent, TurnsSoFar

LEMMA TurnStutter == ASSUME TurnIInv, UNCHANGED vars PROVE TurnIInv'
<1>1. /\ UNCHANGED <<hop, pc, vadBuffer, totalFrames, tracker, buf, nextStart, segEnd,
                     turns, newTurns, outcome, heard, track, flushes, failures>>
      /\ SameTrack
  BY DEF vars, streamVars, SameTrack
<1>2. /\ Starts' = Starts /\ FirstSample' = FirstSample /\ ExpectedTurns' = ExpectedTurns
      /\ ActiveFrames' = ActiveFrames /\ Cuts' = Cuts
      /\ \A s : /\ WindowsOf(s)' = WindowsOf(s) /\ EndOfRegion(s)' = EndOfRegion(s)
                /\ AudioEnd(s)' = AudioEnd(s) /\ (IsShort(s)' <=> IsShort(s)) /\ (IsClosed(s)' <=> IsClosed(s))
  BY <1>1, SameRegions
<1>3. AllTurns' = AllTurns /\ (InHand' <=> InHand)
  BY <1>1 DEF AllTurns, InHand
<1>4. FollowsTheTrack'
  BY <1>1, <1>2 DEF TurnIInv, FollowsTheTrack
<1>5. BufferMovesByHops'
  BY <1>1, <1>2, <1>3 DEF TurnIInv, BufferMovesByHops
<1>6. ClosingIsKept'
  <2> PICK s : s = tracker.start
    OBVIOUS
  <2>1. tracker'.start = s
    BY <1>1
  <2>2. pc = "close" => /\ s \in Starts /\ IsClosed(s) /\ ~IsShort(s) /\ \A r \in Starts : r <= s
                        /\ segEnd = EndOfRegion(s) * FrameSize /\ nextStart + Len(buf) = AudioEnd(s)
    BY DEF TurnIInv, ClosingIsKept
  <2>3. pc' = "close" => /\ s \in Starts' /\ IsClosed(s)' /\ ~IsShort(s)' /\ \A r \in Starts' : r <= s
                         /\ segEnd' = EndOfRegion(s)' * FrameSize /\ nextStart' + Len(buf') = AudioEnd(s)'
    BY <1>1, <1>2, <2>2
  <2> QED
    BY <2>1, <2>3 DEF ClosingIsKept
<1>7. ShortRegionsAreSilent'
  BY <1>2, <1>3 DEF TurnIInv, ShortRegionsAreSilent
<1>8. WindowsCut' = WindowsCut
  <2>1. /\ WindowsCut = WindowsBelow(FirstSample, hop, nextStart, totalFrames * FrameSize)
        /\ WindowsCut' = WindowsBelow(FirstSample', hop', nextStart', totalFrames' * FrameSize)
    BY DEF WindowsCut, WindowsBelow
  <2> QED
    BY <1>1, <1>2, <2>1
<1>9. WindowsBefore' = WindowsBefore
  BY <1>1, <1>2 DEF WindowsBefore
<1>10. SpansOf(AllTurns)' = SpansOf(AllTurns)
  BY <1>3 DEF SpansOf
<1>11. TurnsSoFar'
  BY <1>1, <1>2, <1>3, <1>8, <1>9, <1>10 DEF TurnIInv, TurnsSoFar
<1> QED
  BY <1>1, <1>4, <1>5, <1>6, <1>7, <1>11 DEF TurnIInv

LEMMA TurnNext ==
  ASSUME StreamingAssumption, SpeakerCacheAssumption, WindowsCoverMinSpeech,
         AudioIInv, AudioIInv', CacheIInv, TurnIInv, [Next]_vars
  PROVE  TurnIInv'
<1>1. ASSUME NEW active \in BOOLEAN, ProcessFrame(active) PROVE TurnIInv'
  BY <1>1, TurnFrameSteps
<1>2. CASE (\E n \in ChunkSizes : Feed(n) \/ FeedTooLong(n)) \/ FrameFails \/ WindowsDone \/ ReturnTurns
  BY <1>2, TurnQuietSteps
<1>3. CASE EmbedWindow \/ EmbedWindowFails
  BY <1>3, TurnWindowSteps
<1>4. CASE EmbedLast \/ EmbedLastFails \/ NothingLeft
  BY <1>4, TurnClosingSteps
<1>5. CASE FlushStream
  BY <1>5, TurnFlushSteps
<1>6. CASE UNCHANGED vars
  BY <1>6, TurnStutter
<1> QED
  BY <1>1, <1>2, <1>3, <1>4, <1>5, <1>6 DEF Next

(* What follows between two calls: one turn for each window.                *)
Rises(ts) == \A i \in 1 .. Len(ts) - 1 : ts[i].start < ts[i + 1].start

LEMMA RisesApart ==
  ASSUME NEW ts \in Seq(TurnRecord), Rises(ts), NEW i \in 1 .. Len(ts), NEW j \in 1 .. Len(ts), i < j
  PROVE  ts[i].start < ts[j].start
<1>1. \A k \in 1 .. Len(ts) : ts[k].start \in Nat
  <2>1. \A k \in 1 .. Len(ts) : ts[k] \in TurnRecord
    BY ElementOfSeq
  <2> QED
    BY <2>1, Zenon DEF TurnRecord
<1> DEFINE bad == {k \in 1 .. Len(ts) : i < k /\ ~(ts[i].start < ts[k].start)}
<1>2. Len(ts) \in Nat
  BY LenProperties
<1> SUFFICES ASSUME j \in bad PROVE FALSE
  OBVIOUS
<1>3. bad \in SUBSET Nat /\ bad # {}
  OBVIOUS
<1> HIDE DEF bad
<1>4. PICK k \in bad : \A m \in bad : k <= m
  BY <1>3, LeastNatural
<1>5. k \in 1 .. Len(ts) /\ i < k /\ ~(ts[i].start < ts[k].start)
  BY <1>4 DEF bad
<1>6. k - 1 \in 1 .. Len(ts) - 1 /\ k - 1 \in 1 .. Len(ts) /\ (k - 1) + 1 = k /\ (i = k - 1 \/ i < k - 1)
  BY <1>2, <1>5
<1>7. ts[k - 1].start < ts[k].start
  BY <1>6 DEF Rises
<1>8. CASE i = k - 1
  BY <1>5, <1>7, <1>8
<1>9. CASE i < k - 1
  <2>1. k - 1 \notin bad
    BY <1>2, <1>4, <1>5
  <2>2. ts[i].start < ts[k - 1].start
    BY <1>6, <1>9, <2>1 DEF bad
  <2> QED
    BY <1>1, <1>5, <1>6, <1>7, <2>2
<1> QED
  BY <1>6, <1>8, <1>9

LEMMA OneTurnForEach ==
  ASSUME NEW ts \in Seq(TurnRecord), Rises(ts)
  PROVE  Cardinality(SpansOf(ts)) = Len(ts)
<1> DEFINE n == Len(ts)
           S == SpansOf(ts)
           span(t) == <<t.start, t.end>>
           f == [i \in 1 .. n |-> span(ts[i])]
<1>1. n \in Nat /\ DOMAIN ts = 1 .. n /\ \A k \in 1 .. n : ts[k].start \in Nat
  <2>1. \A k \in 1 .. n : ts[k] \in TurnRecord
    BY ElementOfSeq
  <2> QED
    BY <2>1, LenProperties, Zenon DEF TurnRecord
<1>2. \A k \in 1 .. n : f[k] \in S
  <2> TAKE k \in 1 .. n
  <2>1. ts[k] \in Range(ts)
    BY <1>1 DEF Range
  <2> QED
    BY <2>1 DEF SpansOf
<1>3. \A w \in S : \E k \in 1 .. n : f[k] = w
  <2> TAKE w \in S
  <2>1. PICK t \in Range(ts) : w = span(t)
    BY DEF SpansOf
  <2>2. PICK k \in 1 .. n : t = ts[k]
    BY <1>1, <2>1 DEF Range
  <2> QED
    BY <2>1, <2>2
<1>4. ASSUME NEW j \in 1 .. n, NEW k \in 1 .. n, j < k PROVE f[j] # f[k]
  <2>1. ts[j].start < ts[k].start
    BY <1>4, RisesApart
  <2>2. ts[j].start # ts[k].start
    BY <1>1, <2>1
  <2> QED
    BY <2>2
<1>5. f \in Bijection(1 .. n, S)
  <2>1. f \in [1 .. n -> S]
    BY <1>2
  <2> HIDE DEF f, S, n
  <2>2. \A j, k \in 1 .. n : j = k \/ j < k \/ k < j
    BY <1>1
  <2>3. f \in Injection(1 .. n, S)
    BY <1>4, <2>1, <2>2 DEF Injection, IsInjective
  <2>4. f \in Surjection(1 .. n, S)
    BY <1>3, <2>1 DEF Surjection
  <2> QED
    BY <2>3, <2>4 DEF Bijection
<1> HIDE DEF f, S, n
<1>6. ExistsBijection(1 .. n, S)
  BY <1>5 DEF ExistsBijection
<1>7. Cardinality(S) = n
  BY <1>1, <1>6, FS_CountingElements, FS_NatBijection
<1> QED
  BY <1>7 DEF S, n

LEMMA TurnsComeOut ==
  ASSUME StreamingAssumption, AudioIInv, TurnIInv
  PROVE  TurnsAreTheWindows
<1> SUFFICES ASSUME pc = "idle", failures = 0
             PROVE  /\ SpansOf(turns) = ExpectedTurns
                    /\ Len(turns) = Cardinality(ExpectedTurns)
                    /\ \A t \in Range(turns) : t.audio = t.start
  BY DEF TurnsAreTheWindows
<1>1. TypeOK /\ turns \in Seq(TurnRecord) /\ AllTurns = turns
  BY ConcatProperties DEF AudioIInv, TypeOK, TurnIInv, AllTurns
<1>2. FollowsTheTrack /\ BufferMovesByHops /\ TurnsSoFar
  BY DEF TurnIInv
<1>3. SpansOf(turns) = ExpectedTurns
  <2>1. CASE tracker.inRegion
    <3>1. InHand /\ Len(buf) < Win /\ SpansOf(turns) = WindowsBefore \cup WindowsCut
      BY <1>1, <1>2, <2>1 DEF InHand, TurnsSoFar
    <3>2. WindowsOf(tracker.start) = WindowsCut
      BY <1>2, <2>1, <3>1, OpenWindows
    <3>3. tracker.start \in Starts
      BY <1>1, <1>2, <2>1, RegionsKnown DEF RegionsAre
    <3>4. ExpectedTurns = WindowsBefore \cup WindowsOf(tracker.start)
      BY <3>3 DEF ExpectedTurns, WindowsBefore
    <3> QED
      BY <3>1, <3>2, <3>4
  <2>2. CASE ~tracker.inRegion
    BY <1>1, <1>2, <2>2 DEF InHand, TurnsSoFar
  <2> QED
    BY <2>1, <2>2
<1>4. Rises(turns)
  BY <1>1 DEF AudioIInv, TurnsInOrder, Rises
<1>5. Cardinality(SpansOf(turns)) = Len(turns)
  BY <1>1, <1>4, OneTurnForEach
<1>6. \A t \in Range(turns) : t.audio = t.start
  BY <1>1 DEF AudioIInv, AudioInPlace, Range
<1> QED
  BY <1>3, <1>5, <1>6

-----------------------------------------------------------------------------
(* The composition that is model checked.                                  *)

LEMMA PartIsFixed == [MCNext]_allVars => part' = part
<1>1. CASE UNCHANGED allVars
  BY <1>1 DEF allVars
<1>2. CASE MCNext
  BY <1>2 DEF MCNext, InStream, InCache, InBatch, InBinarize
<1> QED
  BY <1>1, <1>2

LEMMA StreamSteps == ASSUME part = "stream", [MCNext]_allVars PROVE [Next]_vars
<1>1. CASE UNCHANGED allVars
  BY <1>1 DEF allVars
<1>2. CASE MCNext
  BY <1>2 DEF MCNext, InStream, InCache, InBatch, InBinarize
<1> QED
  BY <1>1, <1>2

LEMMA SpeakerSteps == ASSUME part = "cache", [MCNext]_allVars PROVE [Cache!CacheNext]_Cache!cacheVars
<1>1. CASE UNCHANGED allVars
  BY <1>1 DEF allVars, speakerVars, Cache!cacheVars
<1>2. CASE MCNext
  BY <1>2 DEF MCNext, InStream, InCache, InBatch, InBinarize
<1> QED
  BY <1>1, <1>2

LEMMA RegionSteps == ASSUME part = "batch", [MCNext]_allVars PROVE [Batch!Next]_Batch!vars
<1>1. CASE UNCHANGED allVars
  BY <1>1 DEF allVars, regionVars, Batch!vars
<1>2. CASE MCNext
  BY <1>2 DEF MCNext, InStream, InCache, InBatch, InBinarize
<1> QED
  BY <1>1, <1>2

LEMMA BinarizeSteps == ASSUME part = "binarize", [MCNext]_allVars PROVE [Bin!Next]_Bin!vars
<1>1. CASE UNCHANGED allVars
  BY <1>1 DEF allVars, binVars, Bin!vars
<1>2. CASE MCNext
  BY <1>2 DEF MCNext, InStream, InCache, InBatch, InBinarize
<1> QED
  BY <1>1, <1>2

(* The inductive invariant of the stream and its cache.                    *)
THEOREM StreamInvariance == MCSpec => [](part = "stream" => StreamIInv)
<1>1. MCInit => (part = "stream" => StreamIInv)
  BY StreamingAssumption, StreamAssumption, StreamInitInv DEF MCInit
<1>2. (part = "stream" => StreamIInv) /\ [MCNext]_allVars => (part = "stream" => StreamIInv)'
  <2>1. ASSUME part = "stream" => StreamIInv, [MCNext]_allVars, part' = "stream"
        PROVE  StreamIInv'
    BY <2>1, StreamingAssumption, StreamAssumption, PartIsFixed, StreamSteps, StreamNextInv
  <2> QED
    BY <2>1
<1> QED
  BY <1>1, <1>2, PTL DEF MCSpec

(* Turns come in the order of their start, end after it and within the      *)
(* frames heard, whichever calls failed; the window buffer is empty between *)
(* regions; and without failures a turn's audio starts where it says.       *)
THEOREM NoAudioIsCarriedOverHolds == MCSpec => []NoAudioIsCarriedOver
<1>1. (part = "stream" => StreamIInv) => NoAudioIsCarriedOver
  BY DEF StreamIInv, NoAudioIsCarriedOver
<1> QED
  BY <1>1, StreamInvariance, PTL

(* A stable label stays stable, comes at the latest with the hits it takes, *)
(* and no speaker has more turns than hits.                                 *)
THEOREM StreamLabelsSettleHolds == MCSpec => []StreamLabelsSettle
<1>1. (part = "stream" => StreamIInv) => StreamLabelsSettle
  BY DEF StreamIInv, StreamLabelsSettle
<1> QED
  BY <1>1, StreamInvariance, PTL

(* If a window is no shorter than the shortest region kept: without failures *)
(* the turns are the windows of the regions long enough, one turn for each,  *)
(* however the audio came in and wherever the stream was flushed; and no     *)
(* turn comes from a region that closed too short, whichever calls failed.   *)
THEOREM StreamTurnsAreRightHolds == ASSUME WindowsCoverMinSpeech PROVE MCSpec => []StreamTurnsAreRight
<1>1. MCInit => (part = "stream" => StreamIInv /\ TurnIInv)
  BY StreamingAssumption, StreamAssumption, StreamInitInv, TurnInit DEF MCInit, StreamIInv
<1>2. (part = "stream" => StreamIInv /\ TurnIInv) /\ [MCNext]_allVars => (part = "stream" => StreamIInv /\ TurnIInv)'
  <2>1. ASSUME part = "stream" => StreamIInv /\ TurnIInv, [MCNext]_allVars, part' = "stream"
        PROVE  StreamIInv' /\ TurnIInv'
    <3>1. part = "stream" /\ [Next]_vars /\ StreamIInv /\ TurnIInv
      BY <2>1, PartIsFixed, StreamSteps
    <3>2. StreamIInv'
      BY <3>1, StreamingAssumption, StreamAssumption, StreamNextInv
    <3>3. AudioIInv /\ AudioIInv' /\ CacheIInv
      BY <3>1, <3>2 DEF StreamIInv, LabelIInv
    <3>4. TurnIInv'
      BY <3>1, <3>3, StreamingAssumption, StreamAssumption, WindowsCoverMinSpeech, TurnNext
    <3> QED
      BY <3>2, <3>4
  <2> QED
    BY <2>1
<1>3. (part = "stream" => StreamIInv /\ TurnIInv) => StreamTurnsAreRight
  BY StreamingAssumption, TurnsComeOut DEF StreamIInv, StreamTurnsAreRight
<1> QED
  BY <1>1, <1>2, <1>3, PTL DEF MCSpec

(* If no hop is shorter than a frame, a call that succeeds leaves less than *)
(* a frame and a window of audio without a label, errors before it or not.  *)
THEOREM LatencyIsBoundedHolds == ASSUME HopsCoverAFrame PROVE MCSpec => []LatencyIsBounded
<1>1. MCInit => LatencyIsBounded
  BY StreamingAssumption, StreamAssumption, StreamInitLatency DEF MCInit, LatencyIsBounded
<1>2. (part = "stream" => StreamIInv) /\ LatencyIsBounded /\ [MCNext]_allVars => LatencyIsBounded'
  <2>1. ASSUME part = "stream" => StreamIInv, LatencyIsBounded, [MCNext]_allVars, part' = "stream"
        PROVE  LatencyBound' /\ NoFullWindowWaits'
    <3>1. part = "stream" /\ [Next]_vars
      BY <2>1, PartIsFixed, StreamSteps
    <3>2. TypeOK /\ LatencyBound /\ NoFullWindowWaits
      BY <2>1, <3>1 DEF StreamIInv, AudioIInv, LatencyIsBounded
    <3> QED
      BY <3>1, <3>2, StreamingAssumption, HopsCoverAFrame, StreamNextLatency
  <2> QED
    BY <2>1 DEF LatencyIsBounded
<1> QED
  BY <1>1, <1>2, StreamInvariance, PTL DEF MCSpec

(* Both batch users of the region tracker find the regions defined on the    *)
(* whole track: segment_speech on any scores of a detector that gives one    *)
(* for each frame, binarize_frames on any posteriors and holes.              *)
THEOREM BatchRegionsAreKeptHolds == ASSUME Batch!OneProbPerFrame PROVE MCSpec => []BatchRegionsAreKept
<1> DEFINE Inv == /\ part = "batch" => Batch!RegionIInv
                  /\ part = "binarize" => Bin!BinIInv
<1>1. MCInit => Inv
  BY BatchAssumption, BinAssumption, RegionInit, BinInit DEF MCInit
<1>2. Inv /\ [MCNext]_allVars => Inv'
  <2> SUFFICES ASSUME Inv, [MCNext]_allVars PROVE Inv'
    OBVIOUS
  <2>1. ASSUME part' = "batch" PROVE Batch!RegionIInv'
    <3>1. part = "batch" /\ [Batch!Next]_Batch!vars
      BY <2>1, PartIsFixed, RegionSteps
    <3> QED
      BY <3>1, BatchAssumption, Batch!OneProbPerFrame, RegionNext
  <2>2. ASSUME part' = "binarize" PROVE Bin!BinIInv'
    <3>1. part = "binarize" /\ [Bin!Next]_Bin!vars
      BY <2>2, PartIsFixed, BinarizeSteps
    <3> QED
      BY <3>1, BinAssumption, BinNext
  <2> QED
    BY <2>1, <2>2
<1>3. Inv => BatchRegionsAreKept
  BY DEF BatchRegionsAreKept, Batch!RegionIInv, Bin!BinIInv
<1> QED
  BY <1>1, <1>2, <1>3, PTL DEF MCSpec

(* The cache of its own, under any similarities.                           *)
LEMMA CacheInv == MCSpec => [](part = "cache" => Cache!CacheIInv)
<1>1. MCInit => (part = "cache" => Cache!CacheIInv)
  BY CacheAssumption, Cache!CacheInitInv DEF MCInit
<1>2. (part = "cache" => Cache!CacheIInv) /\ [MCNext]_allVars => (part = "cache" => Cache!CacheIInv)'
  <2>1. ASSUME part = "cache" => Cache!CacheIInv, [MCNext]_allVars, part' = "cache"
        PROVE  Cache!CacheIInv'
    <3>1. Cache!CacheIInv /\ [Cache!CacheNext]_Cache!cacheVars
      BY <2>1, PartIsFixed, SpeakerSteps
    <3> QED
      BY <3>1, CacheAssumption, Cache!CacheNextInv
  <2> QED
    BY <2>1
<1> QED
  BY <1>1, <1>2, PTL DEF MCSpec

(* The current speaker is a resident, left only for one better by more than *)
(* the margin, and a new speaker is made only within it.                    *)
THEOREM SpeakersFollowHysteresisHolds == MCSpec => []SpeakersFollowHysteresis
<1>1. (part = "cache" => Cache!CacheIInv) => SpeakersFollowHysteresis
  BY CacheAssumption, Cache!SpeakersFollow DEF SpeakersFollowHysteresis
<1> QED
  BY <1>1, CacheInv, PTL

(* "arrival-order IDs never renumber mid-stream".                          *)
THEOREM SpeakersNeverRenumberedHolds == MCSpec => SpeakersNeverRenumbered
<1>1. (part = "cache" => Cache!CacheIInv) /\ [MCNext]_allVars => (part = "cache" => Cache!JoinsFresh)
  <2>1. ASSUME part = "cache", Cache!CacheIInv, [MCNext]_allVars PROVE Cache!JoinsFresh
    BY <2>1, SpeakerSteps, CacheAssumption, Cache!CacheNextInv
  <2> QED
    BY <2>1
<1> QED
  BY <1>1, CacheInv, PTL DEF MCSpec, SpeakersNeverRenumbered
=============================================================================
