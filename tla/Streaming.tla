------------------------------ MODULE Streaming ------------------------------
(***************************************************************************)
(* StreamingPipeline of src/streaming/mod.rs with the WindowBuffer of      *)
(* src/window/mod.rs: audio arrives in chunks of any size, is cut into VAD *)
(* frames, the frames of a speech region fill a window buffer, and every   *)
(* full window, and the rest when the region closes, is embedded and given *)
(* a speaker by the cache of SpeakerCache.tla.                             *)
(*                                                                         *)
(* One call runs at a time.  Its loop is one action per iteration, so that *)
(* a failure of the detector or the encoder may stop it anywhere; pc says  *)
(* where it is.  A sample is the position it has in the stream, so that    *)
(* the buffers show which audio they hold.                                 *)
(***************************************************************************)
EXTENDS Hysteresis, SpeakerCache

CONSTANTS
  FrameSize, Win,        \* in samples
  Hops,                  \* the hops a pipeline may be built with, in samples
  MinOff, MinOn,         \* in frames
  Usize,                 \* one more than the largest usize
  MaxAudio,              \* MAX_AUDIO_SAMPLES
  ChunkSizes,            \* the sizes of the chunks fed
  Failures,              \* what may fail: "vad", "mismatch", "embed"
  MaxFlushes,            \* bound: calls of flush
  MaxFailures            \* bound: calls that fail

ASSUME StreamingAssumption ==
  /\ FrameSize \in Nat \ {0} /\ Win \in Nat /\ Hops \subseteq 1..Win
  /\ MinOff \in Nat /\ MinOn \in Nat /\ MaxAudio \in Nat
  /\ ChunkSizes \subseteq Nat
  /\ Failures \subseteq {"vad", "mismatch", "embed"}
  /\ MaxFlushes \in Nat /\ MaxFailures \in Nat
  /\ Usize \in Nat /\ MaxAudio < Usize

VARIABLES
  hop,          \* of window_buffer
  pc,           \* "idle", or the loop of the call that runs: "frames" the VAD
                \* frames, "windows" the full windows, "close" the last window
  vadBuffer,    \* samples that wait for a full frame
  totalFrames,
  tracker,      \* of vad_state
  buf,          \* the samples of window_buffer
  nextStart,    \* where window_buffer says they start
  segEnd,       \* the end of the region that closes, in samples
  turns,        \* every turn of the calls that returned Ok
  newTurns,     \* the turns of the call that runs
  outcome,      \* of the last call: "none", "ok", "err"
  heard,        \* samples accepted: the position of the next one
  track,        \* the decision of each frame, from 0
  flushes,      \* the frames at which flush was called, and how often
  failures      \* calls that failed

streamVars == <<hop, pc, vadBuffer, totalFrames, tracker, buf, nextStart, segEnd,
                turns, newTurns, outcome, heard, track, flushes, failures>>
vars == <<streamVars, cacheVars>>

Init ==
  /\ CacheInit
  /\ hop \in Hops
  /\ pc = "idle" /\ vadBuffer = <<>> /\ totalFrames = 0 /\ tracker = NewTracker
  /\ buf = <<>> /\ nextStart = 0 /\ segEnd = 0
  /\ turns = <<>> /\ newTurns = <<>> /\ outcome = "none"
  /\ heard = 0 /\ track = <<>> /\ flushes = <<>> /\ failures = 0

-----------------------------------------------------------------------------
Accepted(n) == totalFrames * FrameSize + Len(vadBuffer) + n <= MaxAudio

Feed(n) ==
  /\ pc = "idle" /\ Accepted(n)
  /\ pc' = "frames"
  /\ vadBuffer' = vadBuffer \o [i \in 1..n |-> heard + i - 1]
  /\ heard' = heard + n
  /\ newTurns' = <<>>
  /\ UNCHANGED <<hop, totalFrames, tracker, buf, nextStart, segEnd, turns, outcome,
                 track, flushes, failures, cacheVars>>

FeedTooLong(n) ==
  /\ pc = "idle" /\ ~Accepted(n)
  /\ outcome' = "err"
  /\ UNCHANGED <<hop, pc, vadBuffer, totalFrames, tracker, buf, nextStart, segEnd, turns,
                 newTurns, heard, track, flushes, failures, cacheVars>>

\* Mutant: a frame waits for one sample more.
HasFrameOffByOne == Len(vadBuffer) > FrameSize

HasFrame == Len(vadBuffer) >= FrameSize

Frame == SubSeq(vadBuffer, 1, FrameSize)
RestOfBuffer == SubSeq(vadBuffer, FrameSize + 1, Len(vadBuffer))

\* A call returns an error: the turns it made go with it.
Fail(kind) ==
  /\ kind \in Failures /\ failures < MaxFailures
  /\ failures' = failures + 1
  /\ pc' = "idle" /\ outcome' = "err" /\ newTurns' = <<>>

\* Mutant: a frame that failed is counted.
FrameFailsCounted ==
  /\ pc = "frames" /\ HasFrame
  /\ Fail("vad") \/ Fail("mismatch")
  /\ vadBuffer' = RestOfBuffer /\ totalFrames' = totalFrames + 1
  /\ UNCHANGED <<hop, tracker, buf, nextStart, segEnd, turns, heard, track,
                 flushes, cacheVars>>

\* The detector fails, or returns other than one probability: the frame is
\* drained but not counted.
FrameFails ==
  /\ pc = "frames" /\ HasFrame
  /\ Fail("vad") \/ Fail("mismatch")
  /\ vadBuffer' = RestOfBuffer
  /\ UNCHANGED <<hop, totalFrames, tracker, buf, nextStart, segEnd, turns, heard,
                 track, flushes, cacheVars>>

\* Mutant: one frame too lenient.
KeptOneShort(event) == Keeps(event.start, event.end + 1, MinOn, Usize)

Kept(event) == Keeps(event.start, event.end, MinOn, Usize)

\* Mutant: a region that is too short leaves its audio behind.
SpeechEndKeepsAudio(event) ==
  /\ segEnd' = event.end * FrameSize
  /\ pc' = IF Kept(event) THEN "close" ELSE "frames"
  /\ UNCHANGED <<buf, nextStart>>

\* VadEvent::SpeechEnd: a region long enough gets its last window, another
\* leaves nothing.
SpeechEnd(event) ==
  /\ segEnd' = event.end * FrameSize
  /\ pc' = IF Kept(event) THEN "close" ELSE "frames"
  /\ buf' = IF Kept(event) THEN buf ELSE <<>>
  /\ UNCHANGED nextStart

\* Mutant: the window buffer goes on from where it was.
SpeechStartKeepsOffset(event) ==
  /\ buf' = Frame /\ nextStart' = nextStart
  /\ pc' = "windows"
  /\ UNCHANGED segEnd

\* VadEvent::SpeechStart, and the region's first frame.
SpeechStart(event) ==
  /\ buf' = Frame /\ nextStart' = event.start * FrameSize
  /\ pc' = "windows"
  /\ UNCHANGED segEnd

NoSpeechEvent(inSpeech) ==
  /\ buf' = IF inSpeech THEN buf \o Frame ELSE buf
  /\ pc' = IF inSpeech THEN "windows" ELSE "frames"
  /\ UNCHANGED <<nextStart, segEnd>>

OnEvent(event, inSpeech) ==
  CASE event.kind = "start" -> SpeechStart(event)
    [] event.kind = "end" -> SpeechEnd(event)
    [] OTHER -> NoSpeechEvent(inSpeech)

ProcessFrame(active) ==
  /\ pc = "frames" /\ HasFrame
  /\ vadBuffer' = RestOfBuffer
  /\ totalFrames' = totalFrames + 1
  /\ track' = Append(track, active)
  /\ LET r == Advance(tracker, active, totalFrames, MinOff, "keep") IN
       tracker' = r.tracker /\ OnEvent(r.event, r.tracker.inRegion)
  /\ UNCHANGED <<hop, turns, newTurns, outcome, heard, flushes, failures, cacheVars>>

\* The turn of a window, from the speaker the cache gives it: its last' result.
Turn(start, end, audio) ==
  [speaker |-> last'.speaker, stable |-> last'.stable,
   start |-> start, end |-> end, audio |-> Head(audio)]

Embed(start, end, audio) ==
  /\ \E sims \in AnyEmbedding : Assign(sims)
  /\ newTurns' = Append(newTurns, Turn(start, end, audio))

HasWindow == Len(buf) >= Win
Window == SubSeq(buf, 1, Win)

\* Mutant: the buffer moves on by the window, not by the hop.
PopWholeWindow == buf' = SubSeq(buf, Win + 1, Len(buf)) /\ nextStart' = nextStart + hop

\* WindowBuffer::try_pop, of a full window.
Pop == buf' = SubSeq(buf, hop + 1, Len(buf)) /\ nextStart' = nextStart + hop

EmbedWindow ==
  /\ pc = "windows" /\ HasWindow
  /\ Pop
  /\ Embed(nextStart, nextStart + Win, Window)
  /\ UNCHANGED <<hop, pc, vadBuffer, totalFrames, tracker, segEnd, turns, outcome,
                 heard, track, flushes, failures>>

EmbedWindowFails ==
  /\ pc = "windows" /\ HasWindow
  /\ Pop
  /\ Fail("embed")
  /\ UNCHANGED <<hop, vadBuffer, totalFrames, tracker, segEnd, turns,
                 heard, track, flushes, cacheVars>>

WindowsDone ==
  /\ pc = "windows" /\ ~HasWindow
  /\ pc' = "frames"
  /\ UNCHANGED <<hop, vadBuffer, totalFrames, tracker, buf, nextStart, segEnd, turns,
                 newTurns, outcome, heard, track, flushes, failures, cacheVars>>

\* Mutant: the padding counts as speech.
LastTurnEndPadded == nextStart + Max({Len(buf), Win})

\* flush_window_buffer: zeros fill the window, and the region's end cuts it.
LastTurnEnd == Min({segEnd, nextStart + Max({Len(buf), Win})})

EmbedLast ==
  /\ pc = "close" /\ buf # <<>>
  /\ Embed(nextStart, LastTurnEnd, buf)
  /\ buf' = <<>> /\ pc' = "frames"
  /\ UNCHANGED <<hop, vadBuffer, totalFrames, tracker, nextStart, segEnd, turns, outcome,
                 heard, track, flushes, failures>>

EmbedLastFails ==
  /\ pc = "close" /\ buf # <<>>
  /\ Fail("embed")
  /\ buf' = <<>>
  /\ UNCHANGED <<hop, vadBuffer, totalFrames, tracker, nextStart, segEnd, turns,
                 heard, track, flushes, cacheVars>>

NothingLeft ==
  /\ pc = "close" /\ buf = <<>>
  /\ pc' = "frames"
  /\ UNCHANGED <<hop, vadBuffer, totalFrames, tracker, buf, nextStart, segEnd, turns,
                 newTurns, outcome, heard, track, flushes, failures, cacheVars>>

\* The end of feed and of flush: the new turns join the history.
ReturnTurns ==
  /\ pc = "frames" /\ ~HasFrame
  /\ turns' = turns \o newTurns /\ newTurns' = <<>>
  /\ pc' = "idle" /\ outcome' = "ok"
  /\ UNCHANGED <<hop, vadBuffer, totalFrames, tracker, buf, nextStart, segEnd,
                 heard, track, flushes, failures, cacheVars>>

\* flush: the partial frame goes, and the region in flight closes here.  What
\* is fed next starts at the next frame.
FlushStream ==
  /\ pc = "idle" /\ Len(flushes) < MaxFlushes
  /\ vadBuffer' = <<>> /\ newTurns' = <<>>
  /\ heard' = totalFrames * FrameSize
  /\ flushes' = Append(flushes, totalFrames)
  /\ LET r == Flush(tracker, totalFrames, "keep") IN
       /\ tracker' = r.tracker
       /\ IF r.event.kind = "end" THEN SpeechEnd(r.event)
          ELSE pc' = "frames" /\ UNCHANGED <<buf, nextStart, segEnd>>
  /\ UNCHANGED <<hop, totalFrames, turns, outcome, track, failures, cacheVars>>

Next ==
  \/ \E n \in ChunkSizes : Feed(n) \/ FeedTooLong(n)
  \/ FrameFails
  \/ \E active \in BOOLEAN : ProcessFrame(active)
  \/ EmbedWindow \/ EmbedWindowFails \/ WindowsDone
  \/ EmbedLast \/ EmbedLastFails \/ NothingLeft
  \/ ReturnTurns
  \/ FlushStream

Spec == Init /\ [][Next]_vars

-----------------------------------------------------------------------------
AllTurns == turns \o newTurns

TurnRecord == [speaker : Nat, stable : BOOLEAN, start : Nat, end : Nat, audio : Nat]

TypeOK ==
  /\ CacheTypeOK
  /\ hop \in Hops
  /\ pc \in {"idle", "frames", "windows", "close"}
  /\ vadBuffer \in Seq(Nat) /\ buf \in Seq(Nat)
  /\ totalFrames \in Nat /\ track \in Seq(BOOLEAN) /\ Len(track) = totalFrames
  /\ TrackerAt(tracker, totalFrames, MinOff)
  /\ nextStart \in Nat /\ segEnd \in Nat
  /\ turns \in Seq(TurnRecord) /\ newTurns \in Seq(TurnRecord)
  /\ outcome \in {"none", "ok", "err"}
  /\ heard \in Nat /\ flushes \in Seq(Nat) /\ failures \in Nat

-----------------------------------------------------------------------------
(* What the pipeline should emit, from the decisions of the frames alone.    *)

ActiveFrames == {i \in 0..(Len(track) - 1) : track[i + 1]}
Cuts == Range(flushes)
Starts == RegionStarts(ActiveFrames, Cuts, MinOff)
EndOfRegion(s) == RegionEnd(s, ActiveFrames, Cuts, totalFrames, MinOff, "keep")
LastActive(s) == LastFrame(s, ActiveFrames, Cuts, MinOff)

ClosedBySilence(s) == LastActive(s) + 1 + Gap(MinOff) = EndOfRegion(s)
IsClosed(s) == ClosedBySilence(s) \/ \E c \in Cuts : c > LastActive(s)
IsShort(s) == IsClosed(s) /\ EndOfRegion(s) - s < MinOn

\* The frame that closes a region is no longer embedded.
AudioEnd(s) ==
  (IF ClosedBySilence(s) THEN EndOfRegion(s) - 1 ELSE EndOfRegion(s)) * FrameSize

FullWindows(s) ==
  {<<w, w + Win>> : w \in {s * FrameSize + k * hop : k \in
     {k \in 0..totalFrames * FrameSize : s * FrameSize + k * hop + Win <= AudioEnd(s)}}}

LastWindow(s) ==
  LET w == s * FrameSize + Cardinality(FullWindows(s)) * hop IN
    IF IsClosed(s) /\ w < AudioEnd(s)
      THEN {<<w, Min({EndOfRegion(s) * FrameSize, w + Win})>>} ELSE {}

WindowsOf(s) == IF IsShort(s) THEN {} ELSE FullWindows(s) \cup LastWindow(s)

ExpectedTurns == UNION {WindowsOf(s) : s \in Starts}

SpansOf(ts) == {<<t.start, t.end>> : t \in Range(ts)}

(* However the audio is cut into chunks, and wherever the stream is flushed, *)
(* the turns of a pipeline that met no failure are the windows of the speech *)
(* regions long enough, the same regions the batch segment_speech finds, one *)
(* turn for each window and no other, and each turn starts at the place in   *)
(* the stream of the first sample embedded for it.                           *)
TurnsAreTheWindows ==
  pc = "idle" /\ failures = 0 =>
    /\ SpansOf(turns) = ExpectedTurns
    /\ Len(turns) = Cardinality(ExpectedTurns)
    /\ \A t \in Range(turns) : t.audio = t.start

(* Short-region suppression "decides whether the region produces output": no *)
(* turn comes from a region that closed too short.                           *)
ShortRegionsAreSilent ==
  \A t \in Range(AllTurns) : \A s \in Starts :
    IsShort(s) => ~(s * FrameSize <= t.start /\ t.start < EndOfRegion(s) * FrameSize)

(* "Turns are produced in increasing start-time order", over all calls and   *)
(* whichever of them failed; each ends after it starts, and none reaches     *)
(* beyond the frames heard.                                                  *)
TurnsInOrder ==
  /\ \A i \in 1..(Len(AllTurns) - 1) : AllTurns[i].start < AllTurns[i + 1].start
  /\ \A t \in Range(AllTurns) : t.start < t.end /\ t.end <= totalFrames * FrameSize

(* Between regions the window buffer is empty, after failures too: no audio  *)
(* of one region is ever embedded with the next.                             *)
NoAudioBetweenRegions ==
  ~tracker.inRegion /\ pc \in {"idle", "frames"} => buf = <<>>

(* "input_buffer_latency = window_secs + right_context_secs + vad_frame_secs":*)
(* after a call that succeeds, less than one frame and one window of audio   *)
(* waits for a label.                                                        *)
LatencyBound ==
  pc = "idle" /\ outcome = "ok" => Len(vadBuffer) < FrameSize /\ Len(buf) < Win

(* Once a speaker's turn is stable all its later turns are, and it is stable *)
(* at the latest after min_hits_to_stable turns.                             *)
LabelsSettle ==
  \A j \in DOMAIN AllTurns :
    LET before == {i \in 1..j : AllTurns[i].speaker = AllTurns[j].speaker} IN
      /\ \A i \in before : AllTurns[i].stable => AllTurns[j].stable
      /\ Cardinality(before) >= MinHits => AllTurns[j].stable

-----------------------------------------------------------------------------
(* What every step keeps, and makes the properties above follow.             *)

\* Windows are cut while a region is open, the last one after it closed.
LoopFollowsRegion ==
  /\ pc = "windows" => tracker.inRegion
  /\ pc = "close" => ~tracker.inRegion

\* In a region the window buffer ends where the frames counted end.
BufferEndsAtFrame ==
  /\ tracker.inRegion => nextStart + Len(buf) = totalFrames * FrameSize
  /\ pc = "close" => nextStart + Len(buf) <= segEnd /\ segEnd <= totalFrames * FrameSize

TurnsBeforeBuffer ==
  tracker.inRegion \/ pc = "close" => \A j \in DOMAIN AllTurns : AllTurns[j].start < nextStart

\* Without a failure every sample is where its buffer says it is.
AudioInPlace ==
  failures = 0 =>
    /\ heard = totalFrames * FrameSize + Len(vadBuffer)
    /\ \A i \in DOMAIN vadBuffer : vadBuffer[i] = totalFrames * FrameSize + i - 1
    /\ \A i \in DOMAIN buf : buf[i] = nextStart + i - 1
    /\ \A j \in DOMAIN AllTurns : AllTurns[j].audio = AllTurns[j].start

AudioIInv ==
  /\ TypeOK /\ NoAudioBetweenRegions /\ LoopFollowsRegion /\ BufferEndsAtFrame
  /\ TurnsBeforeBuffer /\ TurnsInOrder /\ AudioInPlace

\* Full windows never wait between two frames.
NoFullWindowWaits ==
  /\ pc # "windows" => Len(buf) < Win
  /\ pc = "windows" => Len(buf) < Win + FrameSize

TurnsOf(id) == {j \in DOMAIN AllTurns : AllTurns[j].speaker = id}

\* A turn is a hit of its speaker, and no more stable than it; a turn of a
\* call that failed is gone, its hit is not.
LabelsFollowHits ==
  /\ \A j \in DOMAIN AllTurns : \E i \in DOMAIN entries :
       entries[i].id = AllTurns[j].speaker /\ (AllTurns[j].stable => entries[i].stable)
  /\ \A i \in DOMAIN entries :
       /\ Cardinality(TurnsOf(entries[i].id)) <= entries[i].hits
       /\ entries[i].hits >= MinHits => entries[i].stable

LabelIInv == CacheIInv /\ LabelsFollowHits /\ LabelsSettle

\* The tracker is in the region of the track that is open, a flush closed the
\* one it fell in, and there are no more frames than audio was accepted for.
FollowsTheTrack ==
  /\ Tracks(tracker, ActiveFrames, Cuts, MinOff, totalFrames)
  /\ Cuts \subseteq 0..totalFrames
  /\ tracker.inRegion => totalFrames \notin Cuts
  /\ totalFrames * FrameSize + Len(vadBuffer) <= MaxAudio

\* The region whose windows are being cut: the tracker's, until the last one.
InHand == tracker.inRegion \/ pc = "close"
FirstSample == tracker.start * FrameSize

\* Its window buffer starts some hops after it, and holds the rest of a window
\* once one was cut.
BufferMovesByHops ==
  InHand =>
    /\ \E k \in 0..totalFrames * FrameSize : nextStart = FirstSample + k * hop
    /\ nextStart > FirstSample => Len(buf) >= Win - hop

\* The region that gets a last window is the latest one, closed and kept.
ClosingIsKept ==
  pc = "close" =>
    LET s == tracker.start IN
      /\ s \in Starts /\ IsClosed(s) /\ ~IsShort(s) /\ \A r \in Starts : r <= s
      /\ segEnd = EndOfRegion(s) * FrameSize /\ nextStart + Len(buf) = AudioEnd(s)

WindowsCut ==
  {<<w, w + Win>> : w \in {FirstSample + k * hop : k \in
     {k \in 0..totalFrames * FrameSize : FirstSample + k * hop < nextStart}}}

WindowsBefore == UNION {WindowsOf(s) : s \in Starts \ {tracker.start}}

\* Without a failure the turns so far are the windows of the regions before and
\* those cut from the one in hand.
TurnsSoFar ==
  failures = 0 =>
    /\ pc # "windows" => Len(buf) < Win
    /\ InHand => SpansOf(AllTurns) = WindowsBefore \cup WindowsCut
    /\ ~InHand => SpansOf(AllTurns) = ExpectedTurns

TurnIInv ==
  /\ FollowsTheTrack /\ BufferMovesByHops /\ ClosingIsKept
  /\ ShortRegionsAreSilent /\ TurnsSoFar
  /\ pc = "idle" => newTurns = <<>>
=============================================================================
