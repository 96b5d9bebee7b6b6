--------------------------------- MODULE Audio ---------------------------------
(***************************************************************************)
(* Audio on its way in: files (src/wav/mod.rs, decode.rs, resample.rs) and *)
(* the windows cut from samples (src/window/mod.rs).                       *)
(*                                                                         *)
(* A file is [size, ext, wave, rate, declared, frames, channels, packets]: *)
(* what the RIFF reader (ryf) finds is in wave, and what Symphonia finds   *)
(* comes packet by packet.  Only the number of samples is kept of them.    *)
(***************************************************************************)
EXTENDS Integers, Sequences, FiniteSets, FiniteSetsExt, SequencesExt

CONSTANTS
  MaxSecs,       \* MAX_DURATION_SECS
  Target,        \* TARGET_SAMPLE_RATE
  MaxSoftErrors  \* MAX_CONSECUTIVE_SOFT_ERRORS

Fails(e) == [error |-> e, samples |-> 0, rate |-> 0]
Loads(n, rate) == [error |-> "", samples |-> n, rate |-> rate]
Ceil(a, b) == (a + b - 1) \div b

-----------------------------------------------------------------------------
(* Files.                                                                  *)

\* The reader's verdict on a file that is whole, too long or not a wave file.
RyfDecode(f) ==
  IF f.frames > MaxSecs * f.rate THEN Fails("DurationTooLong")
  ELSE Loads(f.frames, f.rate)   \* Empty is answered with no samples

\* read_wav, with map_ryf.  A header need not declare its frames.
ReadWav(f) ==
  CASE f.size = "missing" -> Fails("Metadata")
    [] f.size = "big" -> Fails("FileTooLarge")
    [] f.size = "ok" /\ f.wave # "valid" -> Fails(IF f.wave = "codec" THEN "UnsupportedFormat" ELSE "Read")
    [] OTHER -> IF \E n \in f.declared : f.rate > 0 /\ n > MaxSecs * f.rate
                THEN Fails("DurationTooLong") ELSE RyfDecode(f)

DownmixLength(n, channels) == IF channels <= 1 THEN n ELSE Ceil(n, channels)

\* note_soft_error: the streak is one longer; it may not reach the budget.
NoteSoftError(s) ==
  IF s.streak + 1 >= MaxSoftErrors THEN [s EXCEPT !.error = "Decode", !.streak = @ + 1] ELSE [s EXCEPT !.streak = @ + 1]

NextPacketEmptyResets(f, s, p) ==  \* mutant: a packet without samples ends the streak
  CASE p[1] = "fatal" -> [s EXCEPT !.error = "Decode"]
    [] p[1] \in {"end", "reset"} -> [s EXCEPT !.open = FALSE]
    [] p[1] = "soft" -> NoteSoftError(s)
    [] p[1] = "other track" -> s
    [] OTHER -> [s EXCEPT !.mono = @ + DownmixLength(p[2], f.channels), !.streak = 0]

\* One turn of decode_with_symphonia's loop: a packet is <<"audio", n>> when it
\* decodes to n samples, or <<e, 0>> when e happens instead.
NextPacket(f, s, p) ==
  CASE p[1] = "fatal" -> [s EXCEPT !.error = "Decode"]
    [] p[1] \in {"end", "reset"} -> [s EXCEPT !.open = FALSE]
    [] p[1] = "soft" -> NoteSoftError(s)
    [] p[1] = "other track" -> s
    [] OTHER ->
         LET n == DownmixLength(p[2], f.channels)
             mono == s.mono + n
         IN [s EXCEPT !.mono = mono, !.streak = IF n > 0 THEN 0 ELSE @,
                      !.error = IF mono > MaxSecs * f.rate THEN "DurationTooLong" ELSE ""]

DecodeWithSymphonia(f) ==
  LET out == FoldLeft(LAMBDA s, p : IF s.error # "" \/ ~s.open THEN s ELSE NextPacket(f, s, p),
                      [mono |-> 0, streak |-> 0, open |-> TRUE, error |-> ""], f.packets)
  IN CASE f.size = "missing" -> Fails("Metadata")
       [] f.size = "big" -> Fails("FileTooLarge")
       [] f.size = "ok" /\ (f.wave = "unprobed" \/ f.rate = 0) -> Fails("Decode")
       [] OTHER -> IF \E n \in f.declared : n > MaxSecs * f.rate THEN Fails("DurationTooLong")
                   ELSE IF out.error # "" THEN Fails(out.error) ELSE Loads(out.mono, f.rate)

\* decode_path.
DecodePath(f) == IF f.ext \in {"wav", "wave"} THEN ReadWav(f) ELSE DecodeWithSymphonia(f)

\* resample_mono: the length the resampler keeps.
ResampleMono(n, from, to) ==
  IF from = to \/ n = 0 THEN Loads(n, to)
  ELSE IF from = 0 \/ to = 0 THEN Fails("Resample") ELSE Loads(Ceil(n * to, from), to)

LoadAudioAny(f) ==
  LET read == DecodePath(f)
  IN IF read.error # "" THEN read
     ELSE IF read.samples = 0 \/ read.rate = Target THEN Loads(read.samples, Target)
     ELSE IF read.rate = 0 THEN Fails("Decode") ELSE ResampleMono(read.samples, read.rate, Target)

LoadAudioWavOnly(f) ==
  LET read == ReadWav(f)
  IN IF f.ext \notin {"wav", "wave", "none"} THEN Fails("FeatureRequired")
     ELSE IF read.error # "" THEN read
     ELSE IF read.rate # Target THEN Fails("UnsupportedSampleRate") ELSE Loads(read.samples, Target)

\* load_audio, by the feature audio-io.
LoadAudio(f, audioIo) == IF audioIo THEN LoadAudioAny(f) ELSE LoadAudioWavOnly(f)

-----------------------------------------------------------------------------
(* Windows over samples 0, 1, ...                                          *)

\* WindowIter: [start, end) of every window, the partial ones when asked for.
WindowIter(total, win, hop, partial) ==
  LET starts == {s \in {hop * k : k \in 0 .. total} : s < total /\ (partial \/ s + win <= total)}
  IN [k \in 1 .. Cardinality(starts) |-> <<hop * (k - 1), Min({hop * (k - 1) + win, total})>>]

TryPopDrainWindow(b, win, hop) ==  \* mutant: the whole window leaves the buffer
  IF Len(b.buf) < win THEN b
  ELSE [b EXCEPT !.out = Append(@, [start |-> b.next, samples |-> SubSeq(b.buf, 1, win)]),
                 !.next = @ + hop, !.buf = SubSeq(@, win + 1, Len(@))]

\* WindowBuffer::try_pop.
TryPop(b, win, hop) ==
  IF Len(b.buf) < win THEN b
  ELSE [b EXCEPT !.out = Append(@, [start |-> b.next, samples |-> SubSeq(b.buf, 1, win)]),
                 !.next = @ + hop, !.buf = SubSeq(@, hop + 1, Len(@))]

\* WindowBuffer::extend, then every window there is.
ExtendAndPop(b, samples, win, hop) ==
  FoldLeft(LAMBDA s, k : TryPop(s, win, hop), [b EXCEPT !.buf = @ \o samples],
           [k \in 1 .. Len(b.buf) + Len(samples) |-> k])

\* WindowBuffer::flush: what is left, filled with silence (-1).
FlushBuffer(b, win) ==
  IF b.buf = <<>> THEN b
  ELSE [b EXCEPT !.out = Append(@, [start |-> b.next, samples |-> b.buf \o [k \in 1 .. Max({win - Len(b.buf), 0}) |-> -1]]),
                 !.buf = <<>>]

-----------------------------------------------------------------------------
(* What it is for.                                                         *)

\* Audio that is loaded is at the pipeline's rate and no longer than the limit,
\* never cut to it; a stream has every sample it decodes to up to its end, and
\* fails just when it breaks or too many of its packets in a row are bad.
LoadedAudioIsWhole(f, audioIo) ==
  LET got == LoadAudio(f, audioIo)
      End == Min({Len(f.packets) + 1} \cup {i \in DOMAIN f.packets : f.packets[i][1] \in {"end", "reset"}})
      Yields(i) == f.packets[i][1] = "audio" /\ f.packets[i][2] > 0
      total == MapThenSumSet(LAMBDA i : IF Yields(i) THEN DownmixLength(f.packets[i][2], f.channels) ELSE 0, 1 .. End - 1)
      Soft(S) == {i \in S : f.packets[i][1] = "soft"}
      broken == \E i \in 1 .. End - 1 :
        \/ f.packets[i][1] = "fatal"
        \/ \E j \in 1 .. i : (\A k \in j .. i : ~Yields(k)) /\ Cardinality(Soft(j .. i)) >= MaxSoftErrors
      stream == f.size = "ok" /\ f.wave # "unprobed" /\ f.ext = "mp3" /\ f.rate > 0
  IN /\ got.error = "" => got.rate = Target /\ got.samples <= MaxSecs * Target
     /\ f.size = "ok" /\ f.ext = "wav" /\ f.wave = "valid" /\ f.rate = Target /\ f.frames <= MaxSecs * Target
          /\ (\A n \in f.declared : n <= MaxSecs * f.rate) => got = Loads(f.frames, Target)
     /\ stream /\ f.rate = Target /\ audioIo /\ (\A n \in f.declared : n <= MaxSecs * f.rate) =>
          IF ~broken /\ total <= MaxSecs * f.rate THEN got = Loads(total, Target) ELSE got.error # ""

\* A buffer pops the windows of the iterator, with their samples, in whatever
\* pieces the audio comes; its flush is the next one, filled up.
WindowsAgree(pieces, win, hop) ==
  LET Feed(b, n) == ExtendAndPop(b, [k \in 1 .. n |-> b.fed + k - 1], win, hop)
      fed == FoldLeft(LAMBDA b, n : [Feed(b, n) EXCEPT !.fed = @ + n],
                      [buf |-> <<>>, next |-> 0, out |-> <<>>, fed |-> 0], pieces)
      total == FoldLeft(LAMBDA s, n : s + n, 0, pieces)
      whole == WindowIter(total, win, hop, FALSE)
      partial == WindowIter(total, win, hop, TRUE)
      all == FlushBuffer(fed, win).out
  IN /\ Len(fed.out) = Len(whole) /\ Len(all) = Min({Len(whole) + 1, Len(partial)})
     /\ \A k \in DOMAIN all :
          /\ all[k].start = partial[k][1] /\ Len(all[k].samples) = win
          /\ \A i \in 1 .. win : all[k].samples[i] = IF partial[k][1] + i <= total THEN partial[k][1] + i - 1 ELSE -1
=============================================================================
