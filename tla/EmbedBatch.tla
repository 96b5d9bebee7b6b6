---------------------------- MODULE EmbedBatch -----------------------------
(***************************************************************************)
(* ResNet34Native::embed_batch of src/embedder/native.rs: clips are        *)
(* grouped by frame count into jobs, scoped worker threads pop jobs from a *)
(* shared stack and keep their results to themselves, and the caller joins *)
(* the workers one after the other and fills one slot per clip.            *)
(*                                                                         *)
(* Around the workers the call sets the process-wide width of the          *)
(* convolutions, INTRA_THREADS, when FILE_PARALLELISM says that the        *)
(* process works on one file; a caller that fans out over files sets both  *)
(* for its whole run instead (polyvoice-bench.rs, run_all_files).          *)
(*                                                                         *)
(* The embedding of clip i is i itself.  A clip can fail in the fbank, a   *)
(* packed forward can fail for all clips in it, and a worker can panic.    *)
(***************************************************************************)
EXTENDS Naturals, FiniteSets, SequencesExt

CONSTANTS
  Callers,          \* threads that call embed_batch
  Clips,            \* the clips of a call, 1..n with n > 1
  FrameCounts,      \* frame counts the clips can have
  Pack,             \* clips per packed forward (8, or 4 for long clips)
  MaxWorkers,       \* min(cores, cap)
  FileCounts,       \* files the process may work on at once
  MaxCalls,         \* bound on the calls of a caller
  NoResult,         \* None in a clip's slot
  Failed            \* an error in a clip's slot

ASSUME EmbedAssumption ==
  /\ Cardinality(Clips) \in Nat \ {0, 1} /\ Clips = 1..Cardinality(Clips)
  /\ Pack \in Nat \ {0} /\ MaxWorkers \in Nat \ {0} /\ FileCounts \subseteq Nat \ {0}
  /\ NoResult # Failed /\ {NoResult, Failed} \cap Clips = {}
  /\ MaxCalls \in Nat

Workers == 1..MaxWorkers

VARIABLES
  files,    \* FILE_PARALLELISM
  intra,    \* INTRA_THREADS
  pc,       \* where each caller is in embed_batch
  calls,    \* calls a caller has made
  jobs,     \* the jobs nobody has taken
  worker,   \* the state of every worker of a call
  held,     \* the job a worker has in hand
  local,    \* a worker's results
  next,     \* the worker the caller joins next
  out,      \* the slots of the clips
  ret       \* what the call returned

vars == <<files, intra, pc, calls, jobs, worker, held, local, next, out, ret>>
-----------------------------------------------------------------------------
Results == {NoResult, Failed} \cup Clips

NoResults == [i \in Clips |-> NoResult]

OwnIntra == files = 1

(* The width before any call: a multi-file caller has already set 3.        *)
InitialIntra == IF OwnIntra THEN 1 ELSE 3

(* Clips of one frame count, in order, cut into chunks of Pack: i and j are *)
(* in one job when their ranks in the group fall into the same chunk.       *)
JobsFor(frames) ==
  LET Rank(i) == Cardinality({j \in Clips : j < i /\ frames[j] = frames[i]})
      JobOf(i) == {j \in Clips : /\ frames[j] = frames[i]
                                 /\ Rank(j) \div Pack = Rank(i) \div Pack}
  IN {JobOf(i) : i \in Clips}

(* A job lists its clips in ascending order: the k-th has k - 1 before it.  *)
InOrder(S) ==
  [k \in 1..Cardinality(S) |->
     CHOOSE i \in S : Cardinality({j \in S : j < i}) = k - 1]

\* A plausible bug: the slots of the failed clips are paired as well.
AllSlots(job, bad) == InOrder(job)

(* ok_slots: the slots the packed forward's rows are paired with.           *)
OkSlots(job, bad) == InOrder(job \ bad)

(* embed_fbank_batch: one embedding per clip it was given, in order.        *)
Forward(job, bad) == InOrder(job \ bad)

(* What a job adds to a worker's results: an error for every clip the fbank *)
(* refused, and for the rest their rows, or the error of the whole forward. *)
AddResults(old, job, bad, fails) ==
  LET slots == OkSlots(job, bad)
      rows == Forward(job, bad)
  IN [i \in Clips |->
        IF \E k \in DOMAIN slots \cap DOMAIN rows : slots[k] = i
        THEN IF fails THEN Failed
             ELSE rows[CHOOSE k \in DOMAIN slots \cap DOMAIN rows : slots[k] = i]
        ELSE IF i \in bad THEN Failed ELSE old[i]]

Init ==
  /\ files \in FileCounts
  /\ intra = InitialIntra
  /\ pc = [c \in Callers |-> "idle"]
  /\ calls = [c \in Callers |-> 0]
  /\ jobs = [c \in Callers |-> {}]
  /\ worker = [c \in Callers |-> [w \in Workers |-> "none"]]
  /\ held = [c \in Callers |-> [w \in Workers |-> {}]]
  /\ local = [c \in Callers |-> [w \in Workers |-> NoResults]]
  /\ next = [c \in Callers |-> 1]
  /\ out = [c \in Callers |-> NoResults]
  /\ ret = [c \in Callers |-> "none"]
-----------------------------------------------------------------------------
Resting == {"idle", "returned", "unwound"}

(* Entry to the scope: jobs are grouped, the width is set, the workers run. *)
Start(c) ==
  /\ pc[c] \in Resting
  /\ calls[c] < MaxCalls
  /\ \E frames \in [Clips -> FrameCounts] :
       /\ jobs' = [jobs EXCEPT ![c] = JobsFor(frames)]
       /\ worker' = [worker EXCEPT ![c] = [w \in Workers |->
            IF w <= Cardinality(JobsFor(frames)) THEN "loop" ELSE "none"]]
  /\ intra' = IF OwnIntra THEN 3 ELSE intra
  /\ calls' = [calls EXCEPT ![c] = @ + 1]
  /\ held' = [held EXCEPT ![c] = [w \in Workers |-> {}]]
  /\ local' = [local EXCEPT ![c] = [w \in Workers |-> NoResults]]
  /\ next' = [next EXCEPT ![c] = 1]
  /\ out' = [out EXCEPT ![c] = NoResults]
  /\ ret' = [ret EXCEPT ![c] = "none"]
  /\ pc' = [pc EXCEPT ![c] = "join"]
  /\ UNCHANGED files

(* jobs.lock().pop(): the groups come out of a HashMap, in any order.       *)
TakeJob(c, w) ==
  /\ worker[c][w] = "loop"
  /\ \E job \in jobs[c] :
       /\ jobs' = [jobs EXCEPT ![c] = @ \ {job}]
       /\ held' = [held EXCEPT ![c][w] = job]
  /\ worker' = [worker EXCEPT ![c][w] = "busy"]
  /\ UNCHANGED <<files, intra, pc, calls, local, next, out, ret>>

NoMoreJobs(c, w) ==
  /\ worker[c][w] = "loop"
  /\ jobs[c] = {}
  /\ worker' = [worker EXCEPT ![c][w] = "done"]
  /\ UNCHANGED <<files, intra, pc, calls, jobs, held, local, next, out, ret>>

FinishJob(c, w) ==
  /\ worker[c][w] = "busy"
  /\ \E bad \in SUBSET held[c][w], fails \in BOOLEAN :
       local' = [local EXCEPT ![c][w] = AddResults(@, held[c][w], bad, fails)]
  /\ held' = [held EXCEPT ![c][w] = {}]
  /\ worker' = [worker EXCEPT ![c][w] = "loop"]
  /\ UNCHANGED <<files, intra, pc, calls, jobs, next, out, ret>>

(* A panic in a job: the worker's results are lost.  No lock is held.       *)
Panic(c, w) ==
  /\ worker[c][w] = "busy"
  /\ worker' = [worker EXCEPT ![c][w] = "panicked"]
  /\ UNCHANGED <<files, intra, pc, calls, jobs, held, local, next, out, ret>>

Work(c, w) == TakeJob(c, w) \/ NoMoreJobs(c, w) \/ FinishJob(c, w) \/ Panic(c, w)
-----------------------------------------------------------------------------
Spawned(c) == {w \in Workers : worker[c][w] # "none"}

\* A plausible bug: every second worker is joined.
JoinEverySecond(c) ==
  /\ pc[c] = "join"
  /\ next[c] \in Spawned(c)
  /\ worker[c][next[c]] = "done"
  /\ out' = [out EXCEPT ![c] = [i \in Clips |->
       IF local[c][next[c]][i] # NoResult THEN local[c][next[c]][i] ELSE @[i]]]
  /\ next' = [next EXCEPT ![c] = @ + 2]
  /\ UNCHANGED <<files, intra, pc, calls, jobs, worker, held, local, ret>>

Join(c) ==
  /\ pc[c] = "join"
  /\ next[c] \in Spawned(c)
  /\ worker[c][next[c]] = "done"
  /\ out' = [out EXCEPT ![c] = [i \in Clips |->
       IF local[c][next[c]][i] # NoResult THEN local[c][next[c]][i] ELSE @[i]]]
  /\ next' = [next EXCEPT ![c] = @ + 1]
  /\ UNCHANGED <<files, intra, pc, calls, jobs, worker, held, local, ret>>

(* The first panicked worker that is joined ends the scope's closure.       *)
JoinPanicked(c) ==
  /\ pc[c] = "join"
  /\ next[c] \in Spawned(c)
  /\ worker[c][next[c]] = "panicked"
  /\ ret' = [ret EXCEPT ![c] = "worker panicked"]
  /\ next' = [next EXCEPT ![c] = @ + 1]
  /\ pc' = [pc EXCEPT ![c] = "leave"]
  /\ UNCHANGED <<files, intra, calls, jobs, worker, held, local, out>>

(* All joined: the first clip without an embedding decides the result.      *)
Collect(c) ==
  /\ pc[c] = "join"
  /\ next[c] \notin Spawned(c)
  /\ LET lost == {i \in Clips : out[c][i] \in {NoResult, Failed}}
         first == CHOOSE i \in lost : \A j \in lost : i <= j
     IN ret' = [ret EXCEPT ![c] =
          IF lost = {} THEN "ok"
          ELSE IF out[c][first] = Failed THEN "clip failed" ELSE "dropped a clip"]
  /\ pc' = [pc EXCEPT ![c] = "leave"]
  /\ UNCHANGED <<files, intra, calls, jobs, worker, held, local, next, out>>

\* A plausible bug: a panicked worker is waited for like a running one.
AllDone(c) == \A w \in Spawned(c) : worker[c][w] = "done"

Finished(c) == \A w \in Spawned(c) : worker[c][w] \in {"done", "panicked"}

\* A plausible bug: the width is restored without looking at own_intra.
ReturnAlwaysRestore(c) ==
  /\ pc[c] = "leave"
  /\ Finished(c)
  /\ \A w \in Spawned(c) : w >= next[c] => worker[c][w] = "done"
  /\ intra' = 1
  /\ pc' = [pc EXCEPT ![c] = "returned"]
  /\ UNCHANGED <<files, calls, jobs, worker, held, local, next, out, ret>>

(* thread::scope waits for the workers that were not joined; then the width *)
(* goes back to 1.                                                          *)
Return(c) ==
  /\ pc[c] = "leave"
  /\ Finished(c)
  /\ \A w \in Spawned(c) : w >= next[c] => worker[c][w] = "done"
  /\ intra' = IF OwnIntra THEN 1 ELSE intra
  /\ pc' = [pc EXCEPT ![c] = "returned"]
  /\ UNCHANGED <<files, calls, jobs, worker, held, local, next, out, ret>>

(* A worker that panicked and was not joined makes thread::scope panic.     *)
Unwind(c) ==
  /\ pc[c] = "leave"
  /\ Finished(c)
  /\ \E w \in Spawned(c) : w >= next[c] /\ worker[c][w] = "panicked"
  /\ pc' = [pc EXCEPT ![c] = "unwound"]
  /\ UNCHANGED <<files, intra, calls, jobs, worker, held, local, next, out, ret>>

Caller(c) == Join(c) \/ JoinPanicked(c) \/ Collect(c) \/ Return(c) \/ Unwind(c)

Next == \E c \in Callers :
  Start(c) \/ Caller(c) \/ \E w \in Workers : Work(c, w)

Spec == Init /\ [][Next]_vars
-----------------------------------------------------------------------------
TypeOK ==
  /\ files \in FileCounts
  /\ intra \in {1, 3}
  /\ pc \in [Callers -> Resting \cup {"join", "leave"}]
  /\ calls \in [Callers -> 0..MaxCalls]
  /\ jobs \in [Callers -> SUBSET SUBSET Clips]
  /\ worker \in [Callers -> [Workers ->
       {"none", "loop", "busy", "done", "panicked"}]]
  /\ held \in [Callers -> [Workers -> SUBSET Clips]]
  /\ local \in [Callers -> [Workers -> [Clips -> Results]]]
  /\ next \in [Callers -> 1..(MaxWorkers + 1)]
  /\ out \in [Callers -> [Clips -> Results]]
  /\ ret \in [Callers ->
       {"none", "ok", "clip failed", "dropped a clip", "worker panicked"}]

(* Every slot that holds an embedding holds its own clip's, whichever       *)
(* worker, job and chunk produced it and whichever clips failed beside it,  *)
(* and a call that succeeds has filled every slot.                          *)
SlotsOwnClips ==
  \A c \in Callers :
    /\ \A i \in Clips : out[c][i] \in {i, Failed, NoResult}
    /\ ret[c] = "ok" => \A i \in Clips : out[c][i] = i

(* "native embed dropped a clip" is unreachable: a clip without a result    *)
(* always comes from a panicked worker, which is reported as such.          *)
NeverDropsAClip == \A c \in Callers : ret[c] # "dropped a clip"

-----------------------------------------------------------------------------
(* A worker's results are of the clips whose slots they will fill.          *)
ResultsAreOwn ==
  \A c \in Callers, w \in Workers, i \in Clips :
    local[c][w][i] \in {i, Failed, NoResult}

(* The scope spawns the first workers, at least one of them, in every call; *)
(* a worker that is not busy has no job in hand, one that was not spawned   *)
(* has no result either, and one that is done found the stack empty.        *)
WorkersInOrder ==
  \A c \in Callers, w \in Workers :
    /\ pc[c] = "join" => worker[c][1] # "none"
    /\ worker[c][w] # "none" => \A v \in 1..w : worker[c][v] # "none"
    /\ worker[c][w] \notin {"busy", "panicked"} => held[c][w] = {}
    /\ worker[c][w] = "none" => local[c][w] = NoResults
    /\ worker[c][w] = "done" => jobs[c] = {}

(* The caller has joined the workers before the next one, all of them done. *)
JoinedAreDone ==
  \A c \in Callers : pc[c] = "join" =>
    /\ ret[c] = "none"
    /\ \A w \in Workers : w < next[c] => worker[c][w] = "done"

(* A clip's result is in its slot, or still to come: its job is not taken,  *)
(* or a worker the caller has not joined has the clip in hand or its result.*)
NothingIsLost ==
  \A c \in Callers, i \in Clips : pc[c] = "join" =>
    \/ out[c][i] # NoResult
    \/ \E job \in jobs[c] : i \in job
    \/ \E w \in Workers :
         w >= next[c] /\ (i \in held[c][w] \/ local[c][w][i] # NoResult)

(* A caller that fans out over files has set the width before any call.     *)
WidthIsOwn == ~OwnIntra => intra = InitialIntra

IInv ==
  /\ TypeOK /\ SlotsOwnClips /\ NeverDropsAClip
  /\ ResultsAreOwn /\ WorkersInOrder /\ JoinedAreDone /\ NothingIsLost /\ WidthIsOwn

=============================================================================
