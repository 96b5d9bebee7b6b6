------------------------------ MODULE IntraPool ------------------------------
(***************************************************************************)
(* The parked worker pool of polyvoice-kernels/src/intra.rs.               *)
(*                                                                         *)
(* Any number of caller threads execute run(n, f).  A caller that finds    *)
(* the RUN mutex free publishes a batch (the job slot, the claim counter   *)
(* `next' and the countdown `left'), wakes the workers, claims indices     *)
(* itself and sleeps on the condvar `done' until `left' is zero.  A caller *)
(* that finds RUN taken or poisoned executes its indices alone.            *)
(*                                                                         *)
(* One step is one access to shared state, or one critical section under   *)
(* `mu' where nothing else is read or written inside it.  The one section  *)
(* that is split is the caller's test of `left', because workers decrement *)
(* `left' without holding `mu'.                                            *)
(***************************************************************************)
EXTENDS Naturals, FiniteSets, TLC

CONSTANTS
  Callers,        \* threads that call run()
  Workers,        \* the parked threads, min(2, cores - 1) of them in the code
  MaxN,           \* bound: the largest n a caller asks for
  MaxRuns,        \* bound: calls of run() per caller
  MaxSpurious,    \* bound: spurious condvar wake-ups in a behaviour
  PanicThreads,   \* threads whose f may panic
  NoThread        \* nobody holds mu

\* For the theorems and the run that instances this module.
IntraPoolAssumption ==
  /\ IsFiniteSet(Workers)
  /\ Callers \cap Workers = {}
  /\ NoThread \notin Callers \cup Workers
  /\ PanicThreads \subseteq Callers \cup Workers
  /\ MaxN \in Nat /\ MaxRuns \in Nat /\ MaxSpurious \in Nat

Threads == Callers \cup Workers

\* For a run: callers are interchangeable, and so are workers.
Symmetry == Permutations(Callers) \cup Permutations(Workers)

Indices == 0..MaxN

VARIABLES
  batch,    \* generation counter of the batch slot
  job,      \* func, data and n of the slot: whose f, and how many indices
  next,     \* the claim counter
  left,     \* workers that have not finished the batch
  mu,       \* holder of the pool mutex
  runLock,  \* the RUN mutex: "free", "held" or "poisoned"
  pc,       \* where each thread is
  lim,      \* each thread's copy of n
  env,      \* each thread's copy of data: the call whose f it executes
  idx,      \* the index each thread is executing
  seen,     \* each worker's last batch
  gen,      \* how many calls of run() each caller has made
  exec,     \* history: how often f(i) completed for the caller's current call
  spurious  \* spurious wake-ups so far

vars == <<batch, job, next, left, mu, runLock, pc, lim, env, idx, seen, gen,
          exec, spurious>>

\* A pointer to the closure of a call: `env' lives on its caller's stack.
Env == [caller : Callers, gen : Nat]
EnvOf(c) == [caller |-> c, gen |-> gen[c]]

InDispatch == {"store", "publish", "claim", "call", "lockDone", "checkLeft",
               "blockDone", "waitDone", "unlock"}

\* Outside run(): before the first call, and after a return or an unwind.
Outside == {"idle", "returned", "unwound"}

PCs == InDispatch \cup Outside \cup
  {"single", "tryLock", "serial", "return",
   "lockStart", "waitStart", "read", "finish", "notify", "dead"}

\* The closure a pointer names still exists.
Alive(e) == gen[e.caller] = e.gen /\ pc[e.caller] \in InDispatch

Goto(t, from, to) == pc[t] = from /\ pc' = [pc EXCEPT ![t] = to]

Executed(c, i) == exec' = [exec EXCEPT ![c][i] = @ + 1]

Init ==
  /\ batch = 0 /\ next = 0 /\ left = 0
  /\ job = [n |-> 0, env |-> NoThread]
  /\ mu = NoThread
  /\ runLock = "free"
  /\ pc = [t \in Threads |-> IF t \in Workers THEN "lockStart" ELSE "idle"]
  /\ lim = [t \in Threads |-> 0]
  /\ env = [t \in Threads |-> NoThread]
  /\ idx = [t \in Threads |-> 0]
  /\ seen = [w \in Workers |-> 0]
  /\ gen = [c \in Callers |-> 0]
  /\ exec = [c \in Callers |-> [i \in Indices |-> 0]]
  /\ spurious = 0

-----------------------------------------------------------------------------
(* The caller: run() and dispatch() *)

\* run(n, f) is entered; n is at least one, and one index or an empty pool
\* never touches the slot.
Enter(c, n) ==
  /\ pc[c] \in Outside
  /\ gen[c] < MaxRuns
  /\ gen' = [gen EXCEPT ![c] = @ + 1]
  /\ lim' = [lim EXCEPT ![c] = IF n = 0 THEN 1 ELSE n]
  /\ env' = [env EXCEPT ![c] = [caller |-> c, gen |-> gen[c] + 1]]
  /\ idx' = [idx EXCEPT ![c] = 0]
  /\ exec' = [exec EXCEPT ![c] = [i \in Indices |-> 0]]
  /\ pc' = [pc EXCEPT ![c] = IF n <= 1 \/ Workers = {} THEN "single"
                                                     ELSE "tryLock"]
  /\ UNCHANGED <<batch, job, next, left, mu, runLock, seen, spurious>>

\* f(0), and nothing else.
Single(c) ==
  /\ Goto(c, "single", "return")
  /\ Executed(c, 0)
  /\ UNCHANGED <<batch, job, next, left, mu, runLock, lim, env, idx, seen,
                 gen, spurious>>

\* Mutant: two callers share the slot.
TryLockUnserialized(c) ==
  /\ Goto(c, "tryLock", "store") /\ runLock' = "held"
  /\ UNCHANGED <<batch, job, next, left, mu, lim, env, idx, seen, gen, exec,
                 spurious>>

\* Mutant: a poisoned RUN is taken like the other poison-tolerant locks.
TryLockPoisonTolerant(c) ==
  /\ \/ runLock # "held" /\ runLock' = "held" /\ Goto(c, "tryLock", "store")
     \/ runLock = "held" /\ UNCHANGED runLock /\ Goto(c, "tryLock", "serial")
  /\ UNCHANGED <<batch, job, next, left, mu, lim, env, idx, seen, gen, exec,
                 spurious>>

\* RUN.try_lock(): a busy and a poisoned mutex both send the caller to the
\* serial loop.
TryLock(c) ==
  /\ \/ runLock = "free" /\ runLock' = "held" /\ Goto(c, "tryLock", "store")
     \/ runLock # "free" /\ UNCHANGED runLock /\ Goto(c, "tryLock", "serial")
  /\ UNCHANGED <<batch, job, next, left, mu, lim, env, idx, seen, gen, exec,
                 spurious>>

\* One iteration of `for i in 0..n { f(i) }'.
Serial(c) ==
  /\ Goto(c, "serial", IF idx[c] + 1 < lim[c] THEN "serial" ELSE "return")
  /\ Executed(c, idx[c])
  /\ idx' = [idx EXCEPT ![c] = @ + 1]
  /\ UNCHANGED <<batch, job, next, left, mu, runLock, lim, env, seen, gen,
                 spurious>>

\* Nothing is locked on these two paths.
Return(c) ==
  /\ Goto(c, "return", "returned")
  /\ UNCHANGED <<batch, job, next, left, mu, runLock, lim, env, idx, seen, gen,
                 exec, spurious>>

\* Mutants: the slot is filled with the wrong countdown, or the claim counter
\* of the last batch is kept.
StoreJobWith(c, n0, l) ==
  /\ Goto(c, "store", "publish")
  /\ job' = [n |-> lim[c], env |-> env[c]]
  /\ next' = n0
  /\ left' = l
  /\ UNCHANGED <<batch, mu, runLock, lim, env, idx, seen, gen, exec, spurious>>
StoreJobOneShort(c) == StoreJobWith(c, 0, Cardinality(Workers) - 1)
StoreJobNoCountdown(c) == StoreJobWith(c, 0, 0)
StoreJobKeepsNext(c) == StoreJobWith(c, next, Cardinality(Workers))

\* The slot is filled before anyone can see the new batch.
StoreJob(c) ==
  /\ Goto(c, "store", "publish")
  /\ job' = [n |-> lim[c], env |-> env[c]]
  /\ next' = 0
  /\ left' = Cardinality(Workers)
  /\ UNCHANGED <<batch, mu, runLock, lim, env, idx, seen, gen, exec, spurious>>

\* Under mu: batch += 1 and notify_all on `start'.
Publish(c) ==
  /\ mu = NoThread
  /\ pc[c] = "publish"
  /\ batch' = batch + 1
  /\ pc' = [t \in Threads |-> IF t = c THEN "claim"
                              ELSE IF pc[t] = "waitStart" THEN "lockStart"
                              ELSE pc[t]]
  /\ UNCHANGED <<job, next, left, mu, runLock, lim, env, idx, seen, gen, exec,
                 spurious>>

LockDone(c) ==
  /\ mu = NoThread
  /\ Goto(c, "lockDone", "checkLeft")
  /\ mu' = c
  /\ UNCHANGED <<batch, job, next, left, runLock, lim, env, idx, seen, gen,
                 exec, spurious>>

\* Mutant: dispatch() does not wait for the workers.
CheckLeftNoWait(c) ==
  /\ Goto(c, "checkLeft", "unlock") /\ mu' = NoThread
  /\ UNCHANGED <<batch, job, next, left, runLock, lim, env, idx, seen, gen,
                 exec, spurious>>

\* while left != 0: dispatch() returns and `env' is dropped, or the caller
\* goes to sleep; it holds mu until it does.
CheckLeft(c) ==
  /\ \/ left = 0 /\ Goto(c, "checkLeft", "unlock") /\ mu' = NoThread
     \/ left # 0 /\ Goto(c, "checkLeft", "blockDone") /\ UNCHANGED mu
  /\ UNCHANGED <<batch, job, next, left, runLock, lim, env, idx, seen, gen,
                 exec, spurious>>

\* done.wait(): mu is released and the caller sleeps.
BlockDone(c) ==
  /\ Goto(c, "blockDone", "waitDone")
  /\ mu' = NoThread
  /\ UNCHANGED <<batch, job, next, left, runLock, lim, env, idx, seen, gen,
                 exec, spurious>>

\* run() returns: the guard of RUN is dropped.
Unlock(c) ==
  /\ Goto(c, "unlock", "returned")
  /\ runLock' = "free"
  /\ UNCHANGED <<batch, job, next, left, mu, lim, env, idx, seen, gen, exec,
                 spurious>>

-----------------------------------------------------------------------------
(* The claim loop, which dispatch() and worker_loop() share *)

\* Mutant: a load in place of the fetch_add, so two threads claim one index.
ClaimByLoad(t) ==
  /\ \/ /\ next < lim[t]
        /\ Goto(t, "claim", "call")
        /\ idx' = [idx EXCEPT ![t] = next]
        /\ next' \in {next, next + 1}
     \/ /\ next >= lim[t]
        /\ Goto(t, "claim", IF t \in Workers THEN "finish" ELSE "lockDone")
        /\ UNCHANGED <<idx, next>>
  /\ UNCHANGED <<batch, job, left, mu, runLock, lim, env, seen, gen, exec,
                 spurious>>

\* i = next.fetch_add(1), and the loop ends when i >= n.
Claim(t) ==
  /\ next' = next + 1
  /\ \/ /\ next < lim[t]
        /\ Goto(t, "claim", "call")
        /\ idx' = [idx EXCEPT ![t] = next]
     \/ /\ next >= lim[t]
        /\ Goto(t, "claim", IF t \in Workers THEN "finish" ELSE "lockDone")
        /\ UNCHANGED idx
  /\ UNCHANGED <<batch, job, left, mu, runLock, lim, env, seen, gen, exec,
                 spurious>>

\* func(data, i) returns.  Through a dangling pointer it does nothing of use.
Call(t) ==
  /\ Goto(t, "call", "claim")
  /\ IF Alive(env[t]) THEN Executed(env[t].caller, idx[t]) ELSE UNCHANGED exec
  /\ UNCHANGED <<batch, job, next, left, mu, runLock, lim, env, idx, seen,
                 gen, spurious>>

\* f panics.  A worker thread ends where it stands.  A caller unwinds out of
\* run(): `env' is dropped, and a held RUN is released poisoned.
Panic(t) ==
  /\ pc[t] \in {"single", "serial", "call"}
  /\ pc' = [pc EXCEPT ![t] = IF t \in Workers THEN "dead" ELSE "unwound"]
  /\ runLock' = IF t \in Callers /\ pc[t] = "call" THEN "poisoned" ELSE runLock
  /\ UNCHANGED <<batch, job, next, left, mu, lim, env, idx, seen, gen, exec,
                 spurious>>

-----------------------------------------------------------------------------
(* The worker: worker_loop() *)

\* Under mu: sleep on `start' while the batch is the one already seen.
LockStart(w) ==
  /\ mu = NoThread
  /\ \/ batch = seen[w] /\ Goto(w, "lockStart", "waitStart") /\ UNCHANGED seen
     \/ /\ batch # seen[w]
        /\ Goto(w, "lockStart", "read")
        /\ seen' = [seen EXCEPT ![w] = batch]
  /\ UNCHANGED <<batch, job, next, left, mu, runLock, lim, env, idx, gen, exec,
                 spurious>>

\* The worker copies n, func and data from the slot.
ReadJob(w) ==
  /\ Goto(w, "read", "claim")
  /\ lim' = [lim EXCEPT ![w] = job.n]
  /\ env' = [env EXCEPT ![w] = job.env]
  /\ UNCHANGED <<batch, job, next, left, mu, runLock, idx, seen, gen, exec,
                 spurious>>

\* left.fetch_sub(1): the worker that takes it to zero must notify.
Finish(w) ==
  /\ Goto(w, "finish", IF left = 1 THEN "notify" ELSE "lockStart")
  /\ left' = left - 1
  /\ UNCHANGED <<batch, job, next, mu, runLock, lim, env, idx, seen, gen, exec,
                 spurious>>

\* Mutant: the last worker notifies without taking mu.
NotifyUnlocked(w) ==
  /\ pc[w] = "notify"
  /\ pc' = [t \in Threads |-> IF t = w THEN "lockStart"
                              ELSE IF pc[t] = "waitDone" THEN "lockDone"
                              ELSE pc[t]]
  /\ UNCHANGED <<batch, job, next, left, mu, runLock, lim, env, idx, seen, gen,
                 exec, spurious>>

\* Under mu: done.notify_one().
Notify(w) ==
  /\ mu = NoThread
  /\ pc[w] = "notify"
  /\ \/ /\ \A c \in Callers : pc[c] # "waitDone"
        /\ pc' = [pc EXCEPT ![w] = "lockStart"]
     \/ \E c \in Callers :
          /\ pc[c] = "waitDone"
          /\ pc' = [pc EXCEPT ![w] = "lockStart", ![c] = "lockDone"]
  /\ UNCHANGED <<batch, job, next, left, mu, runLock, lim, env, idx, seen, gen,
                 exec, spurious>>

\* A condvar may wake a sleeper that nobody notified.
SpuriousWake(t) ==
  /\ spurious < MaxSpurious
  /\ spurious' = spurious + 1
  /\ Goto(t, "waitStart", "lockStart") \/ Goto(t, "waitDone", "lockDone")
  /\ UNCHANGED <<batch, job, next, left, mu, runLock, lim, env, idx, seen, gen,
                 exec>>

-----------------------------------------------------------------------------
RunStep(c) ==
  \/ Single(c) \/ TryLock(c) \/ Serial(c) \/ Return(c)
  \/ StoreJob(c) \/ Publish(c)
  \/ LockDone(c) \/ CheckLeft(c) \/ BlockDone(c) \/ Unlock(c)

WorkerStep(w) == LockStart(w) \/ ReadJob(w) \/ Finish(w) \/ Notify(w)

LoopStep(t) == Claim(t) \/ Call(t)

Next ==
  \/ \E c \in Callers : RunStep(c) \/ \E n \in 0..MaxN : Enter(c, n)
  \/ \E w \in Workers : WorkerStep(w)
  \/ \E t \in Threads : LoopStep(t) \/ SpuriousWake(t)
  \/ \E t \in PanicThreads : Panic(t)

Spec == Init /\ [][Next]_vars

\* The operating system runs every thread that is not blocked, and f returns.
\* Nobody is obliged to call run(), to panic, or to be woken by accident.
Fairness ==
  /\ \A c \in Callers : WF_vars(RunStep(c)) /\ WF_vars(LoopStep(c))
  /\ \A w \in Workers : WF_vars(WorkerStep(w)) /\ WF_vars(LoopStep(w))

FairSpec == Spec /\ Fairness
-----------------------------------------------------------------------------
(* Properties *)

\* Every variable has the type its declaration says.
TypeOK ==
  /\ batch \in Nat /\ next \in Nat /\ left \in Nat /\ spurious \in Nat
  /\ job \in [n : Nat, env : Env \cup {NoThread}]
  /\ mu \in Threads \cup {NoThread}
  /\ runLock \in {"free", "held", "poisoned"}
  /\ pc \in [Threads -> PCs]
  /\ lim \in [Threads -> Nat]
  /\ env \in [Threads -> Env \cup {NoThread}]
  /\ idx \in [Threads -> Nat]
  /\ seen \in [Workers -> Nat]
  /\ gen \in [Callers -> Nat]
  /\ exec \in [Callers -> [Indices -> Nat]]

\* "Run f(0..n) on the caller plus parked workers" (intra.rs:82): when run()
\* returns, every index below n was executed exactly once and no other was,
\* whoever claimed it and however the calls of other threads interleaved.
ExactlyOnce ==
  \A c \in Callers : pc[c] = "returned" =>
    \A i \in Indices : exec[c][i] = IF i < lim[c] THEN 1 ELSE 0

\* "dispatch waits for every worker before env drops" (intra.rs:107): a
\* thread that executes f does so for a call that has not returned.
NoUseAfterReturn ==
  \A t \in Threads : pc[t] = "call" => Alive(env[t])

\* "Callers are serialized so two ResNets cannot publish overlapping jobs"
\* (intra.rs:85): between the first store to the slot and the return of
\* dispatch() the slot has one owner.
OneDispatcher ==
  \A c, d \in Callers :
    pc[c] \in InDispatch /\ pc[d] \in InDispatch => c = d

\* The countdown is exact while the owner waits on it: it is zero only when
\* no worker can still claim an index or run the closure.
LeftIsExact ==
  \A c \in Callers : pc[c] \in {"checkLeft", "unlock"} /\ left = 0 =>
    \A w \in Workers : pc[w] \notin {"read", "claim", "call", "finish"}
                       /\ (pc[w] = "dead" \/ seen[w] = batch)

\* A worker is never a batch behind without knowing it: it has seen the
\* current one or the one before it, so no batch is skipped.
NoBatchSkipped ==
  \A w \in Workers : seen[w] = batch \/ seen[w] + 1 = batch

\* Every call of run() comes back, whoever else is calling and whoever's f
\* panicked on the calling thread: the notification that `left' is zero is
\* never lost.  Only a worker that died of a panic keeps a caller for ever.
ReturnsEventually ==
  \A c \in Callers :
    pc[c] = "tryLock" ~> \/ pc[c] \in {"returned", "unwound"}
                        \/ \E w \in Workers : pc[w] = "dead"

Abstract ==
  INSTANCE ParallelFor WITH
    phase <- [c \in Callers |-> IF pc[c] \in Outside THEN "out" ELSE "in"],
    want <- [c \in Callers |-> lim[c]],
    times <- exec

\* run() implements the parallel loop it promises.
ImplementsParallelFor == Abstract!Spec
=============================================================================
