--------------------------------- MODULE Words ---------------------------------
(***************************************************************************)
(* Who said what: the words of a recognizer's tokens                       *)
(* (polyvoice-asr-sherpa/src/lib.rs), the stitching of transcribed chunks  *)
(* (polyvoice-asr/src/lib.rs), the join of words to turns and the filling  *)
(* of their texts (src/attribution/mod.rs), the labels by midpoint         *)
(* (src/labeling/mod.rs) and the single-speaker timeline                   *)
(* (exclusive_turns of src/types/result.rs).                               *)
(*                                                                         *)
(* Times are integers.  A word is [text, start, end, stop]; stop says that *)
(* it ends a sentence, and an end not after the start stands for every     *)
(* time that cannot be used, one that is not finite included.  A turn is   *)
(* [speaker, start, end, stable].                                          *)
(***************************************************************************)
EXTENDS Integers, Sequences, FiniteSets, FiniteSetsExt, SequencesExt, Functions

Eps == 1   \* the millisecond an interval without room is given

Overlap(a, b) == Max({0, Min({a.end, b.end}) - Max({a.start, b.start})})
Gap(a, b) == IF a.end <= b.start THEN b.start - a.end
             ELSE IF b.end <= a.start THEN a.start - b.end ELSE 0

-----------------------------------------------------------------------------
(* Tokens.  One is [text, said, boundary, first, last, at]: said if it is    *)
(* neither a control tag nor blank, boundary if it has the mark of a new     *)
(* word, first and last if its first and last characters are CJK, at {} or   *)
(* the time that came with it.                                             *)

Floor == 1   \* the 50 ms a word lasts at least

StartOf(words, token) ==
  IF token.at # {} THEN CHOOSE t \in token.at : TRUE
  ELSE IF words # <<>> THEN Last(words).start ELSE 0

AddTokenByFirst(words, token) ==   \* mutant: looks at the first token of the word before
  LET opens == words = <<>> \/ token.boundary \/ token.first \/ Last(words).first
  IN IF ~token.said THEN words
     ELSE IF opens THEN Append(words, [start |-> StartOf(words, token), text |-> <<token.text>>, first |-> token.first, last |-> token.last])
     ELSE [words EXCEPT ![Len(words)].text = Append(@, token.text)]

AddToken(words, token) ==
  LET opens == words = <<>> \/ token.boundary \/ token.first \/ Last(words).last
  IN IF ~token.said THEN words
     ELSE IF opens THEN Append(words, [start |-> StartOf(words, token), text |-> <<token.text>>, first |-> token.first, last |-> token.last])
     ELSE [words EXCEPT ![Len(words)].text = Append(@, token.text), ![Len(words)].last = token.last]

\* words_from_tokens: a word ends where the next one starts, the last with the clip.
WordsFromTokens(tokens, clip) ==
  LET words == FoldLeft(AddToken, <<>>, tokens)
      Next(i) == IF i < Len(words) THEN words[i + 1].start ELSE Max({clip, words[i].start})
  IN [i \in DOMAIN words |->
        [text |-> words[i].text, start |-> words[i].start, end |-> Max({Next(i), words[i].start + Floor})]]

-----------------------------------------------------------------------------
(* Chunks.                                                                 *)

\* stitch_at: the accumulated words before the seam, the next chunk's from it
\* on.  Midpoints are doubled.
Mid2(w) == w.start + w.end
StitchKeepBoth(acc, next, seam2) ==  \* mutant: a word on the seam is taken from both
  SelectSeq(acc, LAMBDA w : Mid2(w) <= seam2) \o SelectSeq(next, LAMBDA w : Mid2(w) >= seam2)

StitchAt(acc, next, seam2) ==
  SelectSeq(acc, LAMBDA w : Mid2(w) < seam2) \o SelectSeq(next, LAMBDA w : Mid2(w) >= seam2)

\* with_chunking: the overlap of a chunk of c.
OverlapOf(c, asked) == Max({0, Min({asked, c \div 2})})

\* What the model makes of the k-th chunk, in the time of the file: the words
\* that were said wholly in it, jitter[k] off.
Moved(w, jitter, k) == [w EXCEPT !.start = @ + jitter[k], !.end = @ + jitter[k]]
Hears(w, from, to) == w.start >= from /\ w.end <= to
Heard(words, jitter, k, from, to) ==
  LET inside == SelectSeq(words, LAMBDA w : Hears(w, from, to))
  IN [i \in DOMAIN inside |-> Moved(inside[i], jitter, k)]

\* The transcript of [0, len), in which words were said.
Transcribe(words, len, c, overlap, jitter) ==
  LET step == Max({c - overlap, 1})
      chunks == IF len <= c THEN 1 ELSE 1 + (len - c + step - 1) \div step
      Chunk(k) == Heard(words, jitter, k, k * step, Min({k * step + c, len}))
  IN IF len = 0 THEN <<>>
     ELSE FoldLeft(LAMBDA acc, k : StitchAt(acc, Chunk(k), 2 * k * step + overlap),
                   Chunk(0), [k \in 1 .. chunks - 1 |-> k])

-----------------------------------------------------------------------------
(* Attribution.                                                            *)

Usable(w) == w.end > w.start

\* interpolate_word_timestamps: an unusable word gets the span between its
\* usable neighbours, or Eps beside the only one.
InterpolateTimestamps(words) ==
  LET valid == {i \in DOMAIN words : Usable(words[i])}
      Span(i) ==
        LET before == {j \in valid : j < i}
            after == {j \in valid : j > i}
            start == IF before # {} THEN words[Max(before)].end
                     ELSE IF after # {} THEN Max({words[Min(after)].start - Eps, 0}) ELSE 0
            end == IF after # {} THEN words[Min(after)].start ELSE start + Eps
            from == Max({start, 0})
        IN IF end > start THEN <<start, end>> ELSE <<from, from + Eps>>
  IN [i \in DOMAIN words |->
        IF i \in valid THEN words[i] ELSE [words[i] EXCEPT !.start = Span(i)[1], !.end = Span(i)[2]]]

BetterTurn(turns, a, b) ==
  turns[a].speaker < turns[b].speaker \/ (turns[a].speaker = turns[b].speaker /\ a < b)

\* The turns of S with the highest score, a tie going to the better turn.
Champion(turns, S, Score(_)) ==
  CHOOSE t \in S : \A o \in S \ {t} : Score(t) > Score(o) \/ (Score(t) = Score(o) /\ BetterTurn(turns, t, o))

\* What a word is given: a turn and the time of it that the turn covers,
\* which scales its confidence; -1 leaves the confidence alone.
Covered(turns, w, t) == [turn |-> t, share |-> Overlap(w, turns[t])]
Nearest(t) == [turn |-> t, share |-> -1]

\* attribute_one_reference: the scan of every turn the sweep must agree with.
AttributeOneReference(turns, w) ==
  LET best == Champion(turns, DOMAIN turns, LAMBDA t : Overlap(w, turns[t]))
  IN IF Overlap(w, turns[best]) > 0 THEN Covered(turns, w, best)
     ELSE Nearest(Champion(turns, DOMAIN turns, LAMBDA t : -Gap(w, turns[t])))

\* attribute_one_sweep: from position left of the turns in order, with the
\* best of those before it.
AttributeOneSweep(turns, order, w, left, bestLeft) ==
  LET window == {order[j] : j \in left .. Len(order)}
      reaching == {t \in window : turns[t].start < w.end /\ Overlap(w, turns[t]) > 0}
  IN IF reaching # {}
     THEN Covered(turns, w, Champion(turns, reaching, LAMBDA t : Overlap(w, turns[t])))
     ELSE Nearest(Champion(turns, window \cup bestLeft, LAMBDA t : -Gap(w, turns[t])))

ByStart(S, Start(_)) == SortSeq(SetToSeq(S), LAMBDA a, b : Start(a) < Start(b) \/ (Start(a) = Start(b) /\ a < b))

PassedLast(turns, bestLeft, passed, w) ==  \* mutant: the turn passed last, whenever it ended
  IF passed = {} THEN bestLeft
  ELSE {CHOOSE t \in passed : \A o \in passed : turns[t].start > turns[o].start \/ (turns[t].start = turns[o].start /\ t >= o)}

\* The turn that ends latest of those that end before the word.
Passed(turns, bestLeft, passed, w) ==
  IF bestLeft \cup passed = {} THEN {}
  ELSE {Champion(turns, bestLeft \cup passed, LAMBDA t : turns[t].end)}

\* attribute_words_sweep: the words by start, one pointer into the turns by
\* start that never goes back.
AttributeWordsSweep(words, turns) ==
  LET order == ByStart(DOMAIN turns, LAMBDA t : turns[t].start)
      Step(s, i) ==
        LET w == words[i]
            still == {j \in s.left .. Len(order) : turns[order[j]].end > w.start}
            left == IF still = {} THEN Len(order) + 1 ELSE Min(still)
            bestLeft == Passed(turns, s.best, {order[j] : j \in s.left .. left - 1}, w)
        IN [left |-> left, best |-> bestLeft,
            out |-> [s.out EXCEPT ![i] = AttributeOneSweep(turns, order, w, left, bestLeft)]]
  IN FoldLeft(Step, [left |-> 1, best |-> {}, out |-> [i \in DOMAIN words |-> Nearest(0)]],
              ByStart(DOMAIN words, LAMBDA i : words[i].start)).out

\* apply_sentence_smoothing and smooth_sentence_range: speakers is the speaker
\* of each word; the threshold is in hundredths.
SmoothSentences(words, speakers, threshold) ==
  LET Sentence(i) == {j \in DOMAIN words : \A k \in Min({i, j}) .. Max({i, j}) - 1 : ~words[k].stop}
      Count(i, s) == Cardinality({j \in Sentence(i) : speakers[j] = s})
      Dominant(i) == LET spoken == {speakers[j] : j \in Sentence(i)}
                     IN CHOOSE s \in spoken : \A o \in spoken \ {s} :
                          Count(i, s) > Count(i, o) \/ (Count(i, s) = Count(i, o) /\ s < o)
  IN [i \in DOMAIN words |->
        IF 100 * Count(i, Dominant(i)) > threshold * Cardinality(Sentence(i)) THEN Dominant(i) ELSE speakers[i]]

\* attribute_words_with_config: {} in every place when there is no turn.
AttributeWords(words, turns, config) ==
  LET Aligned(timed, given, speakers) ==
        [i \in DOMAIN words |->
           [text |-> words[i].text, start |-> timed[i].start, end |-> timed[i].end,
            speaker |-> IF turns = <<>> THEN {} ELSE {speakers[i]},
            share |-> IF turns = <<>> THEN -1 ELSE given[i].share,
            interpolated |-> config.interpolate /\ ~Usable(words[i])]]
      Smoothed(timed, speakers) ==
        IF config.smoothing THEN SmoothSentences(timed, speakers, config.threshold) ELSE speakers
      Given(timed, given) ==
        Aligned(timed, given, Smoothed(timed, [i \in DOMAIN words |-> turns[given[i].turn].speaker]))
      Timed(timed) == Given(timed, AttributeWordsSweep(timed, turns))
  IN Timed(IF config.interpolate THEN InterpolateTimestamps(words) ELSE words)

\* WordAnchor::point, doubled.
Point2(anchor, w) == CASE anchor = "start" -> 2 * w.start [] anchor = "mid" -> Mid2(w) [] anchor = "end" -> 2 * w.end

\* fill_turn_text_with_config: of each turn its words in the order of time.
FillTurnText(turns, aligned, anchor) ==
  [t \in DOMAIN turns |->
     ByStart({i \in DOMAIN aligned : aligned[i].speaker = {turns[t].speaker}
                /\ Point2(anchor, aligned[i]) >= 2 * turns[t].start /\ Point2(anchor, aligned[i]) < 2 * turns[t].end},
             LAMBDA i : aligned[i].start)]

-----------------------------------------------------------------------------
(* Labels by midpoint and the timeline of single speakers.                 *)

\* speaker_at, speaker_at_stable and resolve_at, at a doubled instant.
SpeakerAt(turns, t2, stableOnly) ==
  LET covering == {i \in DOMAIN turns : 2 * turns[i].start <= t2 /\ 2 * turns[i].end >= t2 /\ (stableOnly => turns[i].stable)}
  IN IF covering = {} THEN {} ELSE {turns[Min(covering)].speaker}

ResolveAt(turns, t2, stableOnly, lastTurn) ==
  LET hit == SpeakerAt(turns, t2, stableOnly)
  IN IF hit = {} /\ lastTurn /\ turns # <<>> THEN {Last(turns).speaker} ELSE hit

\* Times as frames of two: an end touches its frame.
GridFrames(maxTime, cap) == Min({(maxTime + 1) \div 2 + 1, cap})
FramesOf(turn) == turn.start \div 2 .. (turn.end + 1) \div 2 - 1

LongestClaimFirstComes(turns, f) ==  \* mutant: the first turn of a frame keeps it
  turns[Min({t \in DOMAIN turns : f \in FramesOf(turns[t])})].speaker

\* The speaker of a frame someone speaks in: the longest turn's, then the
\* smaller id.
LongestClaim(turns, f) ==
  LET claims == {t \in DOMAIN turns : f \in FramesOf(turns[t])}
      Length(t) == turns[t].end - turns[t].start
  IN turns[CHOOSE t \in claims : \A o \in claims :
       Length(t) > Length(o) \/ (Length(t) = Length(o) /\ turns[t].speaker <= turns[o].speaker)].speaker

\* exclusive_turns: runs of frames with one speaker.
ExclusiveTurns(turns, cap) ==
  LET Proper == SelectSeq(turns, LAMBDA t : t.end > t.start)
      Spoken(proper, n) == {f \in 0 .. n - 1 : \E t \in DOMAIN proper : f \in FramesOf(proper[t])}
      Runs(claim) ==   \* the speaker of each frame that has one
        LET Same(f, g) == f \in DOMAIN claim /\ g \in DOMAIN claim /\ claim[f] = claim[g]
            RunEnd(f) == Max({g \in DOMAIN claim : g >= f /\ \A h \in f .. g - 1 : Same(h, h + 1)})
        IN {[speaker |-> claim[f], from |-> f, to |-> RunEnd(f) + 1] : f \in {f \in DOMAIN claim : ~Same(f - 1, f)}}
      Claimed(proper, n) == Runs([f \in Spoken(proper, n) |-> LongestClaim(proper, f)])
  IN Claimed(Proper, GridFrames(Max({0} \cup {turns[t].end : t \in DOMAIN turns}), cap))

-----------------------------------------------------------------------------
(* What it is for.                                                         *)

\* Every token that is said is in one word, in order; two that follow each other
\* are of one word unless the later has a mark or a CJK character touches the
\* seam; and a word takes time, none from the next but for the floor.
TokensMakeWords(tokens, clip) ==
  LET said == SelectSeq(tokens, LAMBDA k : k.said)
      Grouped(words) ==
        LET Of(i) == CHOOSE w \in DOMAIN words : said[i].text \in Range(words[w].text)
        IN \A i \in 2 .. Len(said) :
             Of(i - 1) = Of(i) <=> ~said[i].boundary /\ ~said[i].first /\ ~said[i - 1].last
      ordered == \A i, j \in DOMAIN said : i < j => StartOf(<<>>, said[i]) <= StartOf(<<>>, said[j])
      Timed(words) ==
        /\ \A w \in DOMAIN words : words[w].end > words[w].start
        /\ \A w \in 2 .. Len(words) :
             /\ words[w - 1].end > words[w].start => words[w - 1].end = words[w - 1].start + Floor
             /\ ordered => words[w - 1].start <= words[w].start
      Told(words) ==
        /\ FlattenSeq([w \in DOMAIN words |-> words[w].text]) = [i \in DOMAIN said |-> said[i].text]
        /\ Grouped(words) /\ Timed(words)
  IN Told(WordsFromTokens(tokens, clip))

\* "Bit-identical to the historical linear scan", whatever the order of words
\* and turns and however the turns overlap, while no word ends before it starts.
SweepIsTheScan(words, turns) ==
  turns # <<>> /\ (\A i \in DOMAIN words : words[i].start <= words[i].end) => \A i \in DOMAIN words :
    AttributeWordsSweep(words, turns)[i] = AttributeOneReference(turns, words[i])

\* Every word comes back in its place with its text and a speaker who has a turn;
\* it is in the texts of no turns but those of its speaker that hold its midpoint,
\* and in one at least if its turn covers more than half of it; and smoothing
\* moves a word only to a speaker of its own sentence.
WordsFindTheirTurns(words, turns, config) ==
  LET Right(aligned, plain, told, i) ==
        LET with == {t \in DOMAIN turns : i \in Range(told[t])}
            Holds(t) == 2 * turns[t].start <= Mid2(aligned[i]) /\ Mid2(aligned[i]) < 2 * turns[t].end
        IN /\ aligned[i].text = words[i].text
           /\ Usable(aligned[i]) \/ ~config.interpolate
           /\ \E t \in DOMAIN turns : aligned[i].speaker = {turns[t].speaker}
           /\ \E j \in DOMAIN words : aligned[i].speaker = plain[j].speaker
                /\ \A k \in Min({i, j}) .. Max({i, j}) - 1 : ~words[k].stop
           /\ aligned[i] = plain[i] /\ 2 * aligned[i].share > aligned[i].end - aligned[i].start => with # {}
           /\ \A t \in with : aligned[i].speaker = {turns[t].speaker} /\ Holds(t)
      InOrder(aligned, text) == \A k \in 1 .. Len(text) - 1 : aligned[text[k]].start <= aligned[text[k + 1]].start
      Found(aligned, plain, told) ==
        /\ Len(aligned) = Len(words)
        /\ turns # <<>> => \A i \in DOMAIN words : Right(aligned, plain, told, i)
        /\ \A t \in DOMAIN told : InOrder(aligned, told[t])
      Told(aligned, plain) == Found(aligned, plain, FillTurnText(turns, aligned, "mid"))
  IN Told(AttributeWords(words, turns, config), AttributeWords(words, turns, [config EXCEPT !.smoothing = FALSE]))

\* A word that fits the overlap with the jitter on both sides.
Fits(w, overlap, jitter) ==
  w.end - w.start + 2 * Max({0} \cup {Max({jitter[k], -jitter[k]}) : k \in DOMAIN jitter}) <= overlap
Tellings(told, w) == Cardinality({i \in DOMAIN told : told[i].text = w.text})

\* A word that fits is told once wherever the two chunks that hear it put it on
\* the same side of their seam; one told before the seam by the earlier and after
\* it by the later is told twice, and one told the other way round is lost.
\* Before says that the copy of w from chunk j lies before the seam of chunk k.
EachWordIsToldOnce(words, len, c, asked, jitter) ==
  LET overlap == OverlapOf(c, asked)
      told == Transcribe(words, len, c, overlap, jitter)
      step == Max({c - overlap, 1})
      Before(w, j, k) == Mid2(Moved(w, jitter, j)) < 2 * k * step + overlap
      Shared(w) == {k \in DOMAIN jitter \ {0} :
                      (k - 1) * step + c < len /\ Hears(w, k * step, (k - 1) * step + c)}
      Doubled(w) == \E k \in Shared(w) : Before(w, k - 1, k) /\ ~Before(w, k, k)
      Lost(w) == \E k \in Shared(w) : ~Before(w, k - 1, k) /\ Before(w, k, k)
  IN \A i \in DOMAIN words : Fits(words[i], overlap, jitter) =>
       Tellings(told, words[i]) = IF Doubled(words[i]) THEN 2 ELSE IF Lost(words[i]) THEN 0 ELSE 1

\* A label the turns give is not taken back when turns are appended; a stable
\* one is the same whether provisional turns are asked or not when no
\* provisional turn covers the instant.
LabelsOutliveTheTail(turns, more, t2) ==
  /\ \A stableOnly, lastTurn \in BOOLEAN : SpeakerAt(turns, t2, stableOnly) # {} =>
       ResolveAt(turns \o more, t2, stableOnly, lastTurn) = ResolveAt(turns, t2, stableOnly, lastTurn)
  /\ (\A i \in DOMAIN turns : turns[i].stable \/ 2 * turns[i].start > t2 \/ 2 * turns[i].end < t2) =>
       SpeakerAt(turns, t2, TRUE) = SpeakerAt(turns, t2, FALSE)

\* "At most one speaker is active at every frame" and "coverage equals the
\* union of the input speech frames": runs that do not touch when they are of
\* one speaker, each frame told by the longest turn that covers it.
TimelineIsExclusive(turns, cap) ==
  LET out == ExclusiveTurns(turns, cap)
      proper == {turns[t] : t \in {u \in DOMAIN turns : turns[u].end > turns[u].start}}
      n == GridFrames(Max({0} \cup {turns[t].end : t \in DOMAIN turns}), cap)
  IN /\ UNION {r.from .. r.to - 1 : r \in out} = UNION {FramesOf(t) : t \in proper} \cap 0 .. n - 1
     /\ \A a, b \in out : a # b => (a.to <= b.from \/ b.to <= a.from) /\ (a.to = b.from => a.speaker # b.speaker)
     /\ \A r \in out : \A f \in r.from .. r.to - 1 :
          \E t \in proper : t.speaker = r.speaker /\ f \in FramesOf(t)
            /\ \A o \in proper : f \in FramesOf(o) => o.end - o.start <= t.end - t.start
=============================================================================
