------------------------------ MODULE FileQueue ------------------------------
(***************************************************************************)
(* The file loop of src/bin/polyvoice-bench.rs: run_all_files processes the     *)
(* recordings of a dataset one after the other, or run_v2_shared drains them    *)
(* from a queue with several workers that share one pipeline and stop at an     *)
(* error; run_file decides what a recording comes to.                        *)
(*                                                                         *)
(* A recording is named by its file stem, a sequence of characters; a           *)
(* character is its byte.  A scored file is its stem and the scorer it was       *)
(* given.                                                                   *)
(***************************************************************************)
EXTENDS Integers, Sequences, FiniteSets, Functions

CONSTANTS
  Stems,      \* the recordings of the dataset
  Facts,      \* what may be true of a recording, see RunFile
  Jobs,       \* values of --jobs
  MaxJobs     \* bound on the workers: the largest of Jobs

\* For the theorems and the run that instances this module: a stem is not empty.
FileQueueAssumption ==
  /\ IsFiniteSet(Stems) /\ Stems \subseteq Seq(Nat) \ {<<>>}
  /\ MaxJobs \in Nat
  /\ Jobs \subseteq 0 .. MaxJobs

VARIABLES
  facts,      \* what is true of every recording
  queue,      \* the paths nobody has taken
  worker,     \* the state of every worker
  held,       \* the file a worker has in hand
  collected,  \* outcomes in the order they came in
  skipped,    \* files without a reference
  err,        \* the last error, by file
  late,       \* files begun since the first error
  intra,      \* the process-wide intra-op width
  ret         \* the report, or the error

vars == <<facts, queue, worker, held, collected, skipped, err, late, intra, ret>>
-----------------------------------------------------------------------------
Workers == 1 .. MaxJobs
NoRecording == <<>>

\* The order of byte strings; a prefix comes first.
Before(a, b) ==
  \/ \E i \in DOMAIN a \cap DOMAIN b : a[i] < b[i] /\ \A j \in 1 .. i - 1 : a[j] = b[j]
  \/ Len(a) < Len(b) /\ \A j \in DOMAIN a : a[j] = b[j]

\* The members of a finite set in order: each in the place that the number of
\* members before it gives.
InOrder(S, Precedes(_, _)) ==
  [k \in 1 .. Cardinality(S) |->
     CHOOSE x \in S : Cardinality({y \in S : Precedes(y, x)}) = k - 1]

Dot == 46
WavName(stem) == stem \o <<Dot, 119, 97, 118>>

(* list_wavs: the paths of one directory, sorted.                             *)
ListWavs(stems) == InOrder(stems, LAMBDA a, b : Before(WavName(a), WavName(b)))

(* rows.sort_by filename, which holds the stem; the sort is stable.           *)
SortedRows(rows) ==
  LET Precedes(i, j) == \/ Before(rows[i][1], rows[j][1])
                        \/ rows[i][1] = rows[j][1] /\ i < j
      order == InOrder(DOMAIN rows, Precedes)
  IN [k \in DOMAIN rows |-> rows[order[k]]]

\* stem.split('.').next(): the AMI-style prefix.
Prefix(stem) == IF \E i \in DOMAIN stem : stem[i] = Dot
                THEN SubSeq(stem, 1, (CHOOSE i \in DOMAIN stem : stem[i] = Dot /\ \A j \in 1 .. i - 1 : stem[j] # Dot) - 1)
                ELSE stem

\* Mutant: a recording the UEM does not name is scored whole.
WholeWithoutUem(stem, f) ==
  IF f.uem = <<"none">> \/ f.uem[2] \cap {stem, Prefix(stem)} = {} THEN "whole" ELSE "uem"

(* scored_uem_regions and the choice of scorer: a UEM that names neither the     *)
(* stem nor its prefix is an error.                                          *)
Scorer(stem, f) ==
  IF f.skipOverlap THEN "single speaker"
  ELSE IF f.uem = <<"none">> THEN "whole"
  ELSE IF f.uem[2] \cap {stem, Prefix(stem)} # {} THEN "uem" ELSE "error"

(* run_file: the reference, its turns, the UEM, the audio and the pipeline, in   *)
(* this order.                                                              *)
RunFile(stem, f) ==
  IF ~f.rttm THEN "skipped"
  ELSE IF f.ids \cap {stem, Prefix(stem)} = {} \/ ~f.runs \/ Scorer(stem, f) = "error" THEN "error"
  ELSE Scorer(stem, f)
-----------------------------------------------------------------------------
Init ==
  /\ facts \in [Stems -> Facts]
  /\ \A s, t \in Stems : facts[s].uem = facts[t].uem /\ facts[s].skipOverlap = facts[t].skipOverlap
  /\ queue = <<>>
  /\ worker = [w \in Workers |-> "none"]
  /\ held = [w \in Workers |-> NoRecording]
  /\ collected = <<>>
  /\ skipped = 0
  /\ err = NoRecording
  /\ late = 0
  /\ intra = 1
  /\ ret = [state |-> "idle", rows |-> <<>>]

Outcome(stem) == RunFile(stem, facts[stem])

(* The serial loop: the first error ends it.                                  *)
Serial(wavs) ==
  LET rows == InOrder({i \in DOMAIN wavs : Outcome(wavs[i]) # "skipped"}, <)
  IN IF \E i \in DOMAIN wavs : Outcome(wavs[i]) = "error" THEN [state |-> "error", rows |-> <<>>]
     ELSE [state |-> "ok", rows |-> [k \in DOMAIN rows |-> <<wavs[rows[k]], Outcome(wavs[rows[k]])>>]]

\* One job: the embedder sets the width itself.
RunSerially ==
  /\ \E j \in Jobs : j <= 1 \/ Cardinality(Stems) <= 1
  /\ ret.state = "idle"
  /\ ret' = Serial(ListWavs(Stems))
  /\ UNCHANGED <<facts, queue, worker, held, collected, skipped, err, late, intra>>

Spawn ==
  /\ ret.state = "idle"
  /\ \E j \in Jobs :
       LET jobs == IF j > Cardinality(Stems) THEN Cardinality(Stems) ELSE j
       IN /\ jobs > 1
          /\ worker' = [w \in Workers |-> IF w <= jobs THEN "check" ELSE "none"]
  /\ queue' = ListWavs(Stems)
  /\ intra' = 3
  /\ ret' = [ret EXCEPT !.state = "running"]
  /\ UNCHANGED <<facts, held, collected, skipped, err, late>>

(* drain: the error is looked at under its own lock.                          *)
CheckError(w) ==
  /\ worker[w] = "check"
  /\ worker' = [worker EXCEPT ![w] = IF err # NoRecording THEN "done" ELSE "pop"]
  /\ UNCHANGED <<facts, queue, held, collected, skipped, err, late, intra, ret>>

Pop(w) ==
  /\ worker[w] = "pop"
  /\ worker' = [worker EXCEPT ![w] = IF queue = <<>> THEN "done" ELSE "busy"]
  /\ held' = [held EXCEPT ![w] = IF queue = <<>> THEN NoRecording ELSE Head(queue)]
  /\ queue' = IF queue = <<>> THEN queue ELSE Tail(queue)
  /\ late' = IF queue # <<>> /\ err # NoRecording THEN late + 1 ELSE late
  /\ UNCHANGED <<facts, collected, skipped, err, intra, ret>>

\* A plausible bug: a worker goes on after its own error.
FinishAndGoOn(w) ==
  /\ worker[w] = "busy"
  /\ LET out == Outcome(held[w])
     IN /\ collected' = IF out \in {"skipped", "error"} THEN collected ELSE Append(collected, <<held[w], out>>)
        /\ skipped' = IF out = "skipped" THEN skipped + 1 ELSE skipped
        /\ err' = IF out = "error" THEN held[w] ELSE err
        /\ worker' = [worker EXCEPT ![w] = "pop"]
  /\ UNCHANGED <<facts, queue, held, late, intra, ret>>

(* The outcome of a file is pushed, counted, or becomes the error.             *)
Finish(w) ==
  /\ worker[w] = "busy"
  /\ LET out == Outcome(held[w])
     IN /\ collected' = IF out \in {"skipped", "error"} THEN collected ELSE Append(collected, <<held[w], out>>)
        /\ skipped' = IF out = "skipped" THEN skipped + 1 ELSE skipped
        /\ err' = IF out = "error" THEN held[w] ELSE err
        /\ worker' = [worker EXCEPT ![w] = IF out = "error" THEN "done" ELSE "check"]
  /\ UNCHANGED <<facts, queue, held, late, intra, ret>>

Panic(w) ==
  /\ worker[w] = "busy"
  /\ worker' = [worker EXCEPT ![w] = "panicked"]
  /\ UNCHANGED <<facts, queue, held, collected, skipped, err, late, intra, ret>>

(* After the scope: a panic unwinds, an error is returned, the rows are sorted.  *)
(* IntraThreadReset puts the width back on every way out.                     *)
Return ==
  /\ ret.state = "running"
  /\ \A w \in Workers : worker[w] \in {"none", "done", "panicked"}
  /\ intra' = 1
  /\ ret' = IF \E w \in Workers : worker[w] = "panicked" THEN [ret EXCEPT !.state = "unwound"]
            ELSE IF err # NoRecording THEN [ret EXCEPT !.state = "error"]
            ELSE [state |-> "ok", rows |-> SortedRows(collected)]
  /\ UNCHANGED <<facts, queue, worker, held, collected, skipped, err, late>>

Work(w) == CheckError(w) \/ Pop(w) \/ Finish(w) \/ Panic(w)

Next == RunSerially \/ Spawn \/ Return \/ \E w \in Workers : Work(w)
-----------------------------------------------------------------------------
(* A parallel run scores the files a serial run scores, with the same scorer,    *)
(* each once, counts the others, and fails exactly when one of them fails.      *)
SameFilesAsSerial ==
  LET serial == Serial(ListWavs(Stems))
  IN /\ ret.state = "ok" =>
          /\ serial.state = "ok"
          /\ Range(ret.rows) = Range(serial.rows) /\ Len(ret.rows) = Len(serial.rows)
          /\ skipped > 0 => skipped + Len(ret.rows) = Cardinality(Stems)
     /\ ret.state = "error" => serial.state = "error"

(* Once a file has failed, at most the files other workers were about to take    *)
(* are begun, one each, and no recording a UEM leaves out is scored.            *)
StopsAfterError ==
  /\ late < Cardinality({w \in Workers : worker[w] # "none"}) \/ late = 0
  /\ \A i \in DOMAIN ret.rows :
       LET s == ret.rows[i][1]
       IN ret.rows[i][2] = "whole" => facts[s].uem = <<"none">>
  /\ ret.state \in {"ok", "error", "unwound"} => intra = 1

(* "results are collected under a mutex and sorted by filename, so the report is *)
(* identical to the serial run".                                             *)
SameReportAsSerial == ret.state = "ok" => ret.rows = Serial(ListWavs(Stems)).rows
-----------------------------------------------------------------------------
(* The invariant behind both.                                               *)
InHand == {w \in Workers : worker[w] \in {"busy", "panicked"}}
Begun == {w \in Workers : worker[w] # "none"}
Popping == {w \in Workers : worker[w] = "pop"}
Waiting(s) == s \in Range(queue) \/ \E w \in InHand : held[w] = s
Past == {s \in Stems : ~Waiting(s)}

Results == {"single speaker", "whole", "uem", "skipped", "error"}

TypeOK ==
  /\ facts \in [Stems -> Facts]
  /\ queue \in Seq(Stems)
  /\ worker \in [Workers -> {"none", "check", "pop", "busy", "done", "panicked"}]
  /\ held \in [Workers -> Stems \cup {NoRecording}]
  /\ collected \in Seq(Stems \X Results)
  /\ skipped \in Nat /\ late \in Nat
  /\ err \in Stems \cup {NoRecording}
  /\ ret \in [state : {"idle", "running", "ok", "error", "unwound"}, rows : Seq(Stems \X Results)]

(* A file is in the queue, in one worker's hands, or past; never in two places. *)
OnePlace ==
  /\ IsInjective(queue)
  /\ \A w \in InHand : held[w] \in Stems /\ held[w] \notin Range(queue)
  /\ \A v, w \in InHand : held[v] = held[w] => v = w
  /\ \A i, j \in DOMAIN collected : collected[i][1] = collected[j][1] => i = j
  /\ \A i \in DOMAIN collected : collected[i][1] \in Past

(* What has come of the files that are past.                                 *)
PastIsRecorded ==
  /\ \A i \in DOMAIN collected :
       /\ collected[i][2] = Outcome(collected[i][1])
       /\ collected[i][2] \notin {"skipped", "error"}
  /\ err # NoRecording => Outcome(err) = "error"
  /\ Begun # {} =>
       /\ \A s \in Past : \/ \E i \in DOMAIN collected : collected[i][1] = s
                          \/ Outcome(s) = "skipped"
                          \/ Outcome(s) = "error" /\ err # NoRecording
       /\ skipped = Cardinality({s \in Past : Outcome(s) = "skipped"})

(* A worker that ended of its own accord left nothing to do, or an error; one    *)
(* error ends its own worker, so a worker less may begin another file.           *)
WorkersEnd ==
  /\ \A w \in Workers : worker[w] = "done" => queue = <<>> \/ err # NoRecording
  /\ err = NoRecording => late = 0
  /\ err # NoRecording => late + Cardinality(Popping) < Cardinality(Begun)

Phases ==
  /\ Begun = {} => queue = <<>> /\ collected = <<>> /\ skipped = 0 /\ err = NoRecording /\ intra = 1
  /\ ret.state = "idle" => Begun = {}
  /\ ret.state = "running" => Begun # {}
  /\ ret.state \in {"idle", "running"} => ret.rows = <<>>
  /\ ret.state \notin {"idle", "running"} => \A w \in Workers : worker[w] \in {"none", "done", "panicked"}

IInv == TypeOK /\ OnePlace /\ PastIsRecorded /\ WorkersEnd /\ Phases /\ SameFilesAsSerial /\ StopsAfterError
=============================================================================
