----------------------------- MODULE SessionPool -----------------------------
(***************************************************************************)
(* ObjectPool of src/utils/mod.rs, and the two fan-outs that wait on it in     *)
(* the tract builds: PowersetSegmenter::segment, whose threads hold one        *)
(* session over all their micro-batches, and parallel_embed_batch over         *)
(* FbankOnnxExtractor::embed, which takes a session per clip.                  *)
(*                                                                         *)
(* Several files share the pool of a stage, and the environment may give a     *)
(* call more threads than the pool has sessions.  A checkout polls: nobody      *)
(* is queued.  The result of item i is i itself.                             *)
(***************************************************************************)
EXTENDS Integers, Sequences, FiniteSets, SequencesExt

CONSTANTS
  Files,         \* the calls that share the pool, one per file
  PoolThreads,   \* bound on the threads of a call
  Sessions,      \* the sessions the pool was built with
  ItemCounts,    \* windows or clips of a call
  BatchSizes     \* windows per inference call (the micro-batch)

SessionPoolAssumption ==
  /\ PoolThreads \in Nat \ {0} /\ IsFiniteSet(Sessions) /\ "none" \notin Sessions
  /\ ItemCounts \subseteq Nat \ {0} /\ BatchSizes \subseteq Nat

VARIABLES
  free,    \* the stack of the sessions nobody holds
  call,    \* per file: its fan-out, its items and what it returned
  worker,  \* per file and thread: its state, session, place and results
  next     \* per file, the thread it joins next

vars == <<free, call, worker, next>>
-----------------------------------------------------------------------------
Ceil(a, b) == (a + b - 1) \div b
Smaller(a, b) == IF a < b THEN a ELSE b
Threads == 1 .. PoolThreads
ItemError == 0
NoSession == "none"

(* resolve_session_pool_size: a positive setting of the environment, or what    *)
(* was configured, and never none.                                           *)
ResolvePool(env, configured) == IF env > 0 THEN env ELSE IF configured > 0 THEN configured ELSE 1

(* effective_batch_size: CoreML and tract run one window at a time.            *)
EffectiveBatch(forceOne, configured) ==
  IF forceOne THEN 1 ELSE IF configured > 0 THEN configured ELSE 1

(* The items of thread w: chunk w of n items over the threads.                 *)
ChunkOf(n, threads, w) ==
  LET size == Ceil(n, threads)
  IN [k \in 1 .. (IF (w - 1) * size < n THEN Smaller(size, n - (w - 1) * size) ELSE 0) |-> (w - 1) * size + k]

Idle == [state |-> "none", session |-> NoSession, chunk |-> <<>>, results |-> <<>>]

Init ==
  /\ free = SetToSeq(Sessions)
  /\ call = [f \in Files |-> [kind |-> "none", n |-> 0, batch |-> 0, ret |-> "idle", out |-> <<>>]]
  /\ worker = [f \in Files |-> [w \in Threads |-> Idle]]
  /\ next = [f \in Files |-> 1]

(* One thread per chunk, all polling at first.  Without clips embed_batch       *)
(* returns at once; segment has at least one window.                          *)
Start(f) ==
  /\ call[f].ret = "idle"
  /\ \E kind \in {"segment", "embed"}, n \in ItemCounts, threads \in Threads, batch \in BatchSizes, forceOne \in BOOLEAN :
       /\ \A g \in Files : call[g].kind \in {"none", kind}
       /\ threads <= n
       /\ kind = "embed" => batch = 1 /\ forceOne
       /\ call' = [call EXCEPT ![f] =
            [kind |-> kind, n |-> n, batch |-> EffectiveBatch(forceOne, batch), ret |-> "joining", out |-> <<>>]]
       /\ worker' = [worker EXCEPT ![f] = [w \in Threads |->
            IF ChunkOf(n, threads, w) = <<>> THEN Idle
            ELSE [Idle EXCEPT !.state = "poll", !.chunk = ChunkOf(n, threads, w)]]]
  /\ UNCHANGED <<free, next>>
-----------------------------------------------------------------------------
(* checkout: pops the last session, or looks again later.                      *)
Checkout(f, w) ==
  /\ worker[f][w].state = "poll"
  /\ free # <<>>
  /\ worker' = [worker EXCEPT ![f][w].state = "run", ![f][w].session = free[Len(free)]]
  /\ free' = SubSeq(free, 1, Len(free) - 1)
  /\ UNCHANGED <<call, next>>

Finished(f, w) == worker[f][w].results # <<>> /\ Len(worker[f][w].results) = Len(worker[f][w].chunk)

\* chunk.chunks(batch_size): what is inferred next.
Micro(f, w) ==
  LET me == worker[f][w]
      left == Len(me.chunk) - Len(me.results)
  IN SubSeq(me.chunk, Len(me.results) + 1, Len(me.results) + Smaller(call[f].batch, left))

(* infer_windows_batch: a micro-batch of windows through the held session; one   *)
(* that fails ends the thread's windows.                                     *)
InferWindows(f, w) ==
  /\ call[f].kind = "segment"
  /\ worker[f][w].state = "run"
  /\ ~Finished(f, w)
  /\ \/ worker' = [worker EXCEPT ![f][w].results = @ \o Micro(f, w)]
     \/ \E how \in {"drop failed", "drop panicked"} : worker' = [worker EXCEPT ![f][w].state = how]
  /\ UNCHANGED <<free, call, next>>

(* embed: one clip through a session taken for it; one that fails is a failed    *)
(* result among the others.                                                  *)
EmbedClip(f, w) ==
  /\ call[f].kind = "embed"
  /\ worker[f][w].state = "run"
  /\ \/ \E result \in {worker[f][w].chunk[Len(worker[f][w].results) + 1], ItemError} :
          worker' = [worker EXCEPT ![f][w].results = Append(@, result), ![f][w].state = "drop"]
     \/ worker' = [worker EXCEPT ![f][w].state = "drop panicked"]
  /\ UNCHANGED <<free, call, next>>

(* The thread's last micro-batch: the session is put back.                     *)
Windowed(f, w) ==
  /\ call[f].kind = "segment"
  /\ worker[f][w].state = "run"
  /\ Finished(f, w)
  /\ worker' = [worker EXCEPT ![f][w].state = "drop"]
  /\ UNCHANGED <<free, call, next>>

\* A plausible bug: the error paths leave without putting the session back.
DropOnSuccess(f, w) ==
  /\ worker[f][w].state \in {"drop", "drop failed", "drop panicked"}
  /\ free' = IF worker[f][w].state = "drop" THEN Append(free, worker[f][w].session) ELSE free
  /\ worker' = [worker EXCEPT ![f][w].session = NoSession,
       ![f][w].state = CASE @ = "drop" -> IF Finished(f, w) THEN "done" ELSE "poll"
                         [] @ = "drop failed" -> "failed"
                         [] @ = "drop panicked" -> "panicked"]
  /\ UNCHANGED <<call, next>>

(* The guard is dropped on every way out, unwinding included.                  *)
Drop(f, w) ==
  /\ worker[f][w].state \in {"drop", "drop failed", "drop panicked"}
  /\ free' = Append(free, worker[f][w].session)
  /\ worker' = [worker EXCEPT ![f][w].session = NoSession,
       ![f][w].state = CASE @ = "drop" -> IF Finished(f, w) THEN "done" ELSE "poll"
                         [] @ = "drop failed" -> "failed"
                         [] @ = "drop panicked" -> "panicked"]
  /\ UNCHANGED <<call, next>>
-----------------------------------------------------------------------------
Spawned(f) == {w \in Threads : worker[f][w].state # "none"}
Ended(f, w) == worker[f][w].state \in {"done", "failed", "panicked"}

(* Threads are joined in order: their results are appended, an error is         *)
(* returned, and a panic goes on in segment and is an error in embed_batch.     *)
Join(f) ==
  /\ call[f].ret = "joining"
  /\ next[f] \in Spawned(f)
  /\ Ended(f, next[f])
  /\ LET me == worker[f][next[f]]
     IN call' = [call EXCEPT
          ![f].out = IF me.state = "done" THEN @ \o me.results ELSE @,
          ![f].ret = CASE me.state = "done" -> "joining"
                       [] me.state = "failed" -> "leave failed"
                       [] me.state = "panicked" -> IF call[f].kind = "embed" THEN "leave failed" ELSE "leave panicked"]
  /\ next' = [next EXCEPT ![f] = @ + 1]
  /\ UNCHANGED <<free, worker>>

(* collect::<Result>: the first clip that failed, if any, is the result.        *)
Collect(f) ==
  /\ call[f].ret = "joining"
  /\ next[f] \notin Spawned(f)
  /\ call' = [call EXCEPT ![f].ret = IF Contains(call[f].out, ItemError) THEN "leave failed" ELSE "leave ok"]
  /\ UNCHANGED <<free, worker, next>>

(* The scope waits for every thread; one that panicked unjoined panics here.    *)
Leave(f) ==
  /\ call[f].ret \in {"leave ok", "leave failed", "leave panicked"}
  /\ \A w \in Spawned(f) : Ended(f, w)
  /\ call' = [call EXCEPT ![f].ret =
       IF @ = "leave panicked" \/ \E w \in Spawned(f) : w >= next[f] /\ worker[f][w].state = "panicked"
       THEN "panicked" ELSE IF @ = "leave ok" THEN "ok" ELSE "failed"]
  /\ UNCHANGED <<free, worker, next>>

Work(f, w) == Checkout(f, w) \/ InferWindows(f, w) \/ EmbedClip(f, w) \/ Windowed(f, w) \/ Drop(f, w)
Caller(f) == Join(f) \/ Collect(f) \/ Leave(f)

Next == \E f \in Files : Start(f) \/ Caller(f) \/ \E w \in Threads : Work(f, w)

Spec == Init /\ [][Next]_vars

-----------------------------------------------------------------------------
Holders(s) == {fw \in Files \X Threads : worker[fw[1]][fw[2]].session = s}

(* A session is in the stack once or with one thread, and never lost, on every  *)
(* path out of an inference.                                                 *)
SessionsAreConserved ==
  \A s \in Sessions :
    Cardinality(Holders(s)) + Cardinality({i \in DOMAIN free : free[i] = s}) = 1

(* What a call returns are the results of its own items, in order, whichever    *)
(* thread and session produced them.                                         *)
ResultsInOrder ==
  \A f \in Files : call[f].ret = "ok" => call[f].out = [i \in 1 .. call[f].n |-> i]

-----------------------------------------------------------------------------
(* Why: every session has one place, and every result is of its own item       *)

TypeOK ==
  /\ free \in Seq(Sessions)
  /\ call \in [Files -> [kind : {"none", "segment", "embed"}, n : Nat, batch : Nat, out : Seq(Nat),
       ret : {"idle", "joining", "leave ok", "leave failed", "leave panicked", "ok", "failed", "panicked"}]]
  /\ worker \in [Files -> [Threads ->
       [state : {"none", "poll", "run", "drop", "drop failed", "drop panicked", "done", "failed", "panicked"},
        session : Sessions \cup {NoSession}, chunk : Seq(Nat), results : Seq(Nat)]]]
  /\ next \in [Files -> 1 .. (PoolThreads + 1)]

Using == {"run", "drop", "drop failed", "drop panicked"}

(* A thread has a session exactly from the checkout to the drop.               *)
HeldWhileUsed ==
  \A f \in Files, w \in Threads : worker[f][w].session # NoSession <=> worker[f][w].state \in Using

(* No session is at two places, and each is at one.                           *)
OnePlace ==
  /\ \A i, j \in DOMAIN free : free[i] = free[j] => i = j
  /\ \A f, g \in Files, w, v \in Threads :
       worker[f][w].session = worker[g][v].session /\ worker[f][w].session # NoSession => f = g /\ w = v
  /\ \A f \in Files, w \in Threads, i \in DOMAIN free : free[i] # worker[f][w].session
  /\ \A s \in Sessions : (\E i \in DOMAIN free : free[i] = s) \/ (\E f \in Files, w \in Threads : worker[f][w].session = s)

(* Before a call nothing runs.                                                *)
StartsClean ==
  \A f \in Files : call[f].ret = "idle" => next[f] = 1 /\ \A w \in Threads : worker[f][w] = Idle

(* The chunks of a call follow each other, from its first item to its last.    *)
ChunksFollow ==
  \A f \in Files : call[f].ret # "idle" =>
    /\ 1 \in Spawned(f) /\ worker[f][1].chunk[1] = 1
    /\ \A w \in Spawned(f) : LET c == worker[f][w].chunk IN
         /\ Len(c) # 0 /\ \A k \in DOMAIN c : c[k] = c[1] + k - 1
         /\ c[1] + Len(c) = IF w + 1 \in Spawned(f) THEN worker[f][w + 1].chunk[1] ELSE call[f].n + 1

(* A thread's results are of the first items of its chunk, and of all of them   *)
(* when it is done.                                                          *)
ResultsAreOwn ==
  \A f \in Files, w \in Threads : LET me == worker[f][w] IN
    /\ Len(me.results) <= Len(me.chunk)
    /\ \A k \in DOMAIN me.results : me.results[k] \in {me.chunk[k], ItemError}
    /\ call[f].kind = "embed" /\ me.state \in {"poll", "run"} => Len(me.results) < Len(me.chunk)
    /\ call[f].kind = "segment" /\ me.state = "drop" => Len(me.results) = Len(me.chunk)
    /\ me.state = "done" => Len(me.results) = Len(me.chunk)

(* What a caller has collected ends where the next thread's chunk begins.      *)
OutInOrder ==
  \A f \in Files : LET out == call[f].out IN
    /\ \A i \in DOMAIN out : out[i] \in {i, ItemError}
    /\ call[f].ret = "joining" =>
         Len(out) = (IF next[f] \in Spawned(f) THEN worker[f][next[f]].chunk[1] - 1 ELSE call[f].n)
    /\ call[f].ret \in {"leave ok", "ok"} => Len(out) = call[f].n /\ \A i \in DOMAIN out : out[i] = i

IInv ==
  /\ TypeOK /\ HeldWhileUsed /\ OnePlace
  /\ StartsClean /\ ChunksFollow /\ ResultsAreOwn /\ OutInOrder
=============================================================================
