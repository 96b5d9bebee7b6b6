--------------------------- MODULE IntraPoolProofs ---------------------------
(***************************************************************************)
(* Safety of the worker pool for every number of callers and workers, every *)
(* n and every number of calls, though f panics on any thread.              *)
(***************************************************************************)
EXTENDS IntraPool, FiniteSetTheorems, TLAPS

CallerPCs == InDispatch \cup
  Outside \cup {"single", "tryLock", "serial", "return"}
WorkerPCs == {"lockStart", "waitStart", "read", "claim", "call", "finish",
              "notify", "dead"}

\* The batch is published and dispatch() has not found `left' at zero.
Live == {"claim", "call", "lockDone", "checkLeft", "blockDone", "waitDone"}

\* A worker that died of a panic stays in its batch for ever.
InBatch == {"read", "claim", "call", "finish", "dead"}

\* The workers that have not finished the published batch.
Busy == {w \in Workers : seen[w] # batch \/ pc[w] \in InBatch}

\* Some thread is executing f(i), or died in it.
InF == {"call", "dead"}
Running(i) == \E t \in Threads : pc[t] \in InF /\ idx[t] = i

\* Types, and who can be where.
ITypes ==
  /\ TypeOK
  /\ \A c \in Callers : pc[c] \in CallerPCs
  /\ \A w \in Workers : pc[w] \in WorkerPCs

\* The owner of the slot is the holder of RUN, so a poisoned RUN has none.
IOwner ==
  /\ \A c \in Callers : pc[c] \in InDispatch => runLock = "held"
  /\ \A c, d \in Callers : pc[c] \in InDispatch /\ pc[d] \in InDispatch => c = d

\* A caller's own frame, from Enter on.
IFrame ==
  \A c \in Callers : pc[c] # "idle" =>
    /\ env[c] = EnvOf(c)
    /\ lim[c] > 0 /\ lim[c] - 1 \in Indices
    /\ pc[c] \in {"single", "tryLock"} => idx[c] = 0
    /\ pc[c] = "single" => lim[c] = 1
    /\ pc[c] = "serial" => idx[c] < lim[c]

\* The slot holds the owner's job from StoreJob on.
ISlot ==
  \A c \in Callers : pc[c] \in Live \cup {"publish"} =>
    /\ job.env = EnvOf(c) /\ job.n = lim[c]
    /\ pc[c] = "publish" => next = 0

\* A worker inside the batch has seen it and copied the slot.
IWorker ==
  \A w \in Workers :
    /\ seen[w] = batch \/ seen[w] + 1 = batch
    /\ pc[w] \in InBatch => seen[w] = batch
    /\ pc[w] \in InBatch \ {"read"} => lim[w] = job.n /\ env[w] = job.env

\* Workers are busy only in a published batch, or in one that its caller's
\* panic left behind for ever; `left' counts them.
ILeft ==
  /\ runLock # "poisoned" /\ (\A c \in Callers : pc[c] \notin Live) => Busy = {}
  /\ Busy # {} => job.env \in Env
  /\ runLock = "poisoned" => left = Cardinality(Busy)
  /\ \A c \in Callers :
       /\ pc[c] \in Live => left = Cardinality(Busy)
       /\ pc[c] = "publish" => left = Cardinality(Workers)

\* Claimed indices are below `next', and no two threads hold one.
IClaim ==
  /\ \A t \in Threads : pc[t] \in InF => idx[t] < next /\ idx[t] < lim[t]
  /\ \A t, u \in Threads :
       pc[t] \in InF /\ pc[u] \in InF /\ idx[t] = idx[u] => t = u
  /\ \A c \in Callers : pc[c] \in Live \ {"claim", "call"} => lim[c] <= next

\* What has been executed for a call, by where its caller is.
ExecOf(c, i) ==
  /\ pc[c] \in {"single", "tryLock", "store", "publish"} => exec[c][i] = 0
  /\ pc[c] = "serial" => exec[c][i] = IF i < idx[c] THEN 1 ELSE 0
  /\ pc[c] \in {"return", "returned", "unlock"} =>
       exec[c][i] = IF i < lim[c] THEN 1 ELSE 0
  /\ pc[c] \in Live =>
       exec[c][i] = IF i < lim[c] /\ i < next /\ ~Running(i) THEN 1 ELSE 0

IExec == \A c \in Callers : \A i \in Indices : ExecOf(c, i)

IInv == ITypes /\ IOwner /\ IFrame /\ ISlot /\ IWorker /\ ILeft /\ IClaim /\ IExec

-----------------------------------------------------------------------------
LEMMA BusyFinite == ASSUME IntraPoolAssumption PROVE IsFiniteSet(Busy) /\ Cardinality(Busy) \in Nat
  BY FS_Subset, FS_CardinalityType DEF IntraPoolAssumption, Busy

LEMMA InitInv == ASSUME IntraPoolAssumption, Workers # {}, Init PROVE IInv
<1> USE DEF IntraPoolAssumption, Init, Threads, Indices, Live,
      InDispatch
<1>1. ITypes
  BY DEF ITypes, TypeOK, CallerPCs, WorkerPCs, PCs, Outside, Env
<1>2. IOwner /\ IFrame /\ ISlot /\ IWorker /\ IClaim /\ IExec
  BY DEF IOwner, IFrame, ISlot, IWorker, IClaim, InF, IExec, ExecOf, InBatch, Outside
<1>3. ILeft
  BY DEF ILeft, Busy, InBatch
<1> QED BY <1>1, <1>2, <1>3 DEF IInv

\* The effect of a move on the program counters.
LEMMA GotoEffect ==
  ASSUME IntraPoolAssumption, ITypes, NEW t \in Threads, NEW from, NEW to, Goto(t, from, to)
  PROVE  /\ pc[t] = from /\ pc'[t] = to
         /\ \A x \in Threads \ {t} : pc'[x] = pc[x]
         /\ to \in PCs => pc' \in [Threads -> PCs]
         /\ t \in Callers /\ to \in CallerPCs => \A c \in Callers : pc'[c] \in CallerPCs
         /\ t \in Workers /\ to \in WorkerPCs => \A w \in Workers : pc'[w] \in WorkerPCs
  BY DEF Goto, ITypes, TypeOK, Threads

\* The effect of one completed f(i) on the history.
LEMMA ExecutedEffect ==
  ASSUME IntraPoolAssumption, TypeOK, NEW c \in Callers, NEW i \in Indices, Executed(c, i)
  PROVE  /\ exec' \in [Callers -> [Indices -> Nat]]
         /\ exec'[c][i] = exec[c][i] + 1
         /\ \A j \in Indices \ {i} : exec'[c][j] = exec[c][j]
         /\ \A d \in Callers \ {c} : exec'[d] = exec[d]
<1>1. exec \in [Callers -> [Indices -> Nat]]
  BY DEF TypeOK
<1>2. exec' = [exec EXCEPT ![c] = [exec[c] EXCEPT ![i] = exec[c][i] + 1]]
  BY DEF Executed
<1>3. [exec[c] EXCEPT ![i] = exec[c][i] + 1] \in [Indices -> Nat]
  BY <1>1
<1> QED BY <1>1, <1>2, <1>3

\* A step that moves nobody into or out of f leaves the running indices alone.
LEMMA RunningFrame ==
  ASSUME \A t \in Threads : /\ (pc[t] \in InF) <=> (pc'[t] \in InF)
                            /\ pc[t] \in InF => idx'[t] = idx[t]
  PROVE  \A i : Running(i)' <=> Running(i)
  BY DEF Running

\* A call whose caller stands still keeps its history.
LEMMA ExecFrame ==
  ASSUME NEW c \in Callers, NEW i \in Indices, ExecOf(c, i),
         pc'[c] = pc[c], exec'[c] = exec[c], idx'[c] = idx[c], lim'[c] = lim[c],
         pc[c] \in Live => next' = next /\ (Running(i)' <=> Running(i))
  PROVE  ExecOf(c, i)'
  BY DEF ExecOf, Live

LEMMA EnterInv ==
  ASSUME IntraPoolAssumption, Workers # {}, IInv, NEW c \in Callers, NEW n \in 0..MaxN, Enter(c, n) PROVE IInv'
<1> USE DEF IntraPoolAssumption, Enter, Threads
<1>a. /\ pc[c] \in Outside /\ pc'[c] \in {"single", "tryLock"}
      /\ \A t \in Threads \ {c} : pc'[t] = pc[t]
      /\ pc' \in [Threads -> PCs]
      /\ \A x \in Callers : pc'[x] \in CallerPCs
      /\ \A x \in Workers : pc'[x] \in WorkerPCs
  BY DEF IInv, ITypes, TypeOK, CallerPCs, WorkerPCs, PCs, InDispatch, Outside, Goto
<1>b. \A i : Running(i)' <=> Running(i)
  BY <1>a, RunningFrame DEF IInv, ITypes, TypeOK, InF, Outside
<1>c. /\ env' = [env EXCEPT ![c] = [caller |-> c, gen |-> gen[c] + 1]]
      /\ [caller |-> c, gen |-> gen[c] + 1] \in Env
  BY DEF IInv, ITypes, TypeOK, Env
<1>1. ITypes'
  BY <1>a, <1>c DEF IInv, ITypes, TypeOK
<1>2. IOwner'
  BY <1>a DEF IInv, ITypes, TypeOK, IOwner, CallerPCs, Outside, WorkerPCs, InDispatch
<1>3. IFrame'
  <2>1. env'[c] = EnvOf(c)' /\ idx'[c] = 0
    BY <1>c DEF IInv, ITypes, TypeOK, EnvOf
  <2>2. /\ lim'[c] > 0 /\ lim'[c] - 1 \in Indices
        /\ pc'[c] = "single" => lim'[c] = 1
    <3>1. lim'[c] = IF n = 0 THEN 1 ELSE n
      BY DEF IInv, ITypes, TypeOK
    <3>2. n \in Nat /\ n <= MaxN /\ (pc'[c] = "single" => n <= 1)
      BY DEF IInv, ITypes, TypeOK
    <3> QED BY <3>1, <3>2 DEF Indices
  <2>3. ASSUME NEW d \in Callers, d # c, pc'[d] # "idle"
        PROVE  /\ env'[d] = EnvOf(d)' /\ lim'[d] = lim[d] /\ idx'[d] = idx[d]
               /\ pc'[d] = pc[d]
    BY <1>a, <2>3 DEF IInv, ITypes, TypeOK, IFrame, EnvOf
  <2> QED BY <1>a, <2>1, <2>2, <2>3 DEF IInv, IFrame
<1>4. ISlot'
  BY <1>a DEF IInv, ITypes, TypeOK, ISlot, IFrame, Live, CallerPCs, Outside, WorkerPCs, InDispatch, EnvOf
<1>5. IWorker'
  BY <1>a DEF IInv, ITypes, TypeOK, IWorker, CallerPCs, Outside, WorkerPCs, InDispatch, InBatch
<1>6. ILeft'
  <2>1. Busy' = Busy
    BY <1>a DEF Busy, IInv, ITypes, TypeOK, WorkerPCs, InBatch
  <2> QED BY <1>a, <2>1 DEF IInv, ILeft, Live, ITypes, CallerPCs, Outside, InDispatch
<1>7. IClaim'
  BY <1>a DEF IInv, ITypes, TypeOK, IClaim, InF, Live, CallerPCs, Outside, WorkerPCs, InDispatch, InBatch
<1>8. IExec'
  <2> SUFFICES ASSUME NEW d \in Callers, NEW i \in Indices PROVE ExecOf(d, i)'
    BY DEF IExec
  <2>0. ExecOf(d, i)
    BY DEF IInv, IExec
  <2>1. CASE d = c
    BY <1>a, <1>b, <2>0, <2>1 DEF ExecOf, Live, IInv, ITypes, TypeOK, IFrame, IClaim, Indices
  <2>2. CASE d # c
    BY <1>a, <1>b, <2>0, <2>2, ExecFrame DEF IInv, ITypes, TypeOK
  <2> QED BY <2>1, <2>2
<1> QED BY <1>1, <1>2, <1>3, <1>4, <1>5, <1>6, <1>7, <1>8 DEF IInv

LEMMA SingleInv ==
  ASSUME IntraPoolAssumption, IInv, NEW c \in Callers, Single(c) PROVE IInv'
<1> USE DEF IntraPoolAssumption, Single, Threads
<1>a. /\ pc[c] \in {"single"} /\ pc'[c] \in {"return"}
      /\ \A t \in Threads \ {c} : pc'[t] = pc[t]
      /\ pc' \in [Threads -> PCs]
      /\ \A x \in Callers : pc'[x] \in CallerPCs
      /\ \A x \in Workers : pc'[x] \in WorkerPCs
  BY DEF IInv, ITypes, TypeOK, CallerPCs, WorkerPCs, PCs, InDispatch, Outside, Goto
<1>b. \A i : Running(i)' <=> Running(i)
  BY <1>a, RunningFrame DEF IInv, ITypes, TypeOK, InF
<1>c. 0 \in Indices
  BY <1>a DEF IInv, ITypes, TypeOK, IFrame, Indices
<1>d. /\ exec' \in [Callers -> [Indices -> Nat]]
      /\ exec'[c][0] = exec[c][0] + 1
      /\ \A j \in Indices \ {0} : exec'[c][j] = exec[c][j]
      /\ \A x \in Callers \ {c} : exec'[x] = exec[x]
  BY <1>c, ExecutedEffect DEF IInv, ITypes
<1>1. ITypes'
  BY <1>a, <1>d DEF IInv, ITypes, TypeOK
<1>2. IOwner'
  BY <1>a DEF IInv, ITypes, TypeOK, IOwner, CallerPCs, Outside, WorkerPCs, InDispatch
<1>3. IFrame'
  BY <1>a DEF IInv, ITypes, TypeOK, IFrame, CallerPCs, Outside, WorkerPCs, InDispatch, EnvOf, Indices
<1>4. ISlot'
  BY <1>a DEF IInv, ITypes, TypeOK, ISlot, IFrame, Live, CallerPCs, Outside, WorkerPCs, InDispatch, EnvOf
<1>5. IWorker'
  BY <1>a DEF IInv, ITypes, TypeOK, IWorker, CallerPCs, Outside, WorkerPCs, InDispatch, InBatch
<1>6. ILeft'
  <2>1. Busy' = Busy
    BY <1>a DEF Busy, IInv, ITypes, TypeOK, WorkerPCs, InBatch
  <2> QED BY <1>a, <2>1 DEF IInv, ILeft, Live, ITypes, CallerPCs, Outside, InDispatch
<1>7. IClaim'
  BY <1>a DEF IInv, ITypes, TypeOK, IClaim, InF, Live, CallerPCs, Outside, WorkerPCs, InDispatch, InBatch
<1>8. IExec'
  <2> SUFFICES ASSUME NEW d \in Callers, NEW i \in Indices PROVE ExecOf(d, i)'
    BY DEF IExec
  <2>0. ExecOf(d, i)
    BY DEF IInv, IExec
  <2>1. CASE d = c
    <3>1. lim'[c] = 1 /\ exec[c][i] = 0 /\ i \in Nat
      BY <1>a, <2>0, <2>1 DEF ExecOf, IInv, IFrame, Indices
    <3>2. exec'[c][i] = IF i < lim'[c] THEN 1 ELSE 0
      BY <1>c, <1>d, <3>1 DEF ExecOf, IInv, IExec
    <3> QED BY <1>a, <2>1, <3>2 DEF ExecOf, Live
  <2>2. CASE d # c
    BY <1>a, <1>b, <1>d, <2>0, <2>2, ExecFrame DEF IInv, ITypes, TypeOK
  <2> QED BY <2>1, <2>2
<1> QED BY <1>1, <1>2, <1>3, <1>4, <1>5, <1>6, <1>7, <1>8 DEF IInv

LEMMA TryLockInv ==
  ASSUME IntraPoolAssumption, IInv, NEW c \in Callers, TryLock(c) PROVE IInv'
<1> USE DEF IntraPoolAssumption, TryLock, Threads
<1>a. /\ pc[c] = "tryLock" /\ pc'[c] \in {"store", "serial"}
      /\ \A t \in Threads \ {c} : pc'[t] = pc[t]
      /\ pc' \in [Threads -> PCs]
      /\ \A x \in Callers : pc'[x] \in CallerPCs
      /\ \A x \in Workers : pc'[x] \in WorkerPCs
  <2>0. {"store", "serial"} \subseteq PCs \cap CallerPCs /\ c \in Threads /\ ITypes
    BY DEF IInv, CallerPCs, Outside, PCs, InDispatch
  <2>1. CASE Goto(c, "tryLock", "store")
    BY <2>0, <2>1, GotoEffect DEF ITypes
  <2>2. CASE Goto(c, "tryLock", "serial")
    BY <2>0, <2>2, GotoEffect DEF ITypes
  <2> QED BY <2>1, <2>2
<1>c. (pc'[c] = "store") => runLock = "free" /\ runLock' = "held"
  BY <1>a DEF IInv, ITypes, Goto
<1>d. pc'[c] = "serial" => runLock' = runLock
  BY <1>a DEF IInv, ITypes, TypeOK, Goto
<1>b. \A i : Running(i)' <=> Running(i)
  BY <1>a, RunningFrame DEF IInv, ITypes, TypeOK, InF
<1>1. ITypes'
  BY <1>a DEF IInv, ITypes, TypeOK
<1>2. IOwner'
  <2>1. CASE pc'[c] = "store"
    <3>1. \A d \in Callers : pc[d] \notin InDispatch
      BY <1>c, <2>1 DEF IInv, IOwner
    <3> QED BY <1>a, <1>c, <2>1, <3>1 DEF IOwner
  <2>2. CASE pc'[c] = "serial"
    BY <1>a, <1>d, <2>2 DEF IInv, IOwner, InDispatch
  <2> QED BY <1>a, <2>1, <2>2
<1>3. IFrame'
  BY <1>a DEF IInv, ITypes, TypeOK, IFrame, EnvOf
<1>4. ISlot'
  BY <1>a DEF IInv, ITypes, TypeOK, ISlot, IFrame, Live, CallerPCs, Outside, WorkerPCs, InDispatch, EnvOf
<1>5. IWorker'
  BY <1>a DEF IInv, ITypes, TypeOK, IWorker, CallerPCs, Outside, WorkerPCs, InDispatch, InBatch
<1>6. ILeft'
  <2>1. Busy' = Busy
    BY <1>a DEF Busy, IInv, ITypes, TypeOK, WorkerPCs, InBatch
  <2> QED BY <1>a, <2>1 DEF IInv, ILeft, Live, ITypes, CallerPCs, Outside, InDispatch
<1>7. IClaim'
  BY <1>a DEF IInv, ITypes, TypeOK, IClaim, InF, Live, CallerPCs, Outside, WorkerPCs, InDispatch, InBatch
<1>8. IExec'
  <2> SUFFICES ASSUME NEW d \in Callers, NEW i \in Indices PROVE ExecOf(d, i)'
    BY DEF IExec
  <2>0. ExecOf(d, i)
    BY DEF IInv, IExec
  <2>1. CASE d = c
    BY <1>a, <2>0, <2>1 DEF ExecOf, Live, IInv, IFrame, Indices
  <2>2. CASE d # c
    BY <1>a, <1>b, <2>0, <2>2, ExecFrame DEF IInv, ITypes, TypeOK
  <2> QED BY <2>1, <2>2
<1> QED BY <1>1, <1>2, <1>3, <1>4, <1>5, <1>6, <1>7, <1>8 DEF IInv

LEMMA SerialInv ==
  ASSUME IntraPoolAssumption, IInv, NEW c \in Callers, Serial(c) PROVE IInv'
<1> USE DEF IntraPoolAssumption, Serial, Threads
<1>a. /\ pc[c] \in {"serial"} /\ pc'[c] \in {"serial", "return"}
      /\ \A t \in Threads \ {c} : pc'[t] = pc[t]
      /\ pc' \in [Threads -> PCs]
      /\ \A x \in Callers : pc'[x] \in CallerPCs
      /\ \A x \in Workers : pc'[x] \in WorkerPCs
  BY DEF IInv, ITypes, TypeOK, CallerPCs, WorkerPCs, PCs, InDispatch, Outside, Goto
<1>b. \A i : Running(i)' <=> Running(i)
  BY <1>a, RunningFrame DEF IInv, ITypes, TypeOK, InF
<1>c. idx[c] \in Indices
  <2>1. idx[c] \in Nat /\ lim[c] \in Nat /\ idx[c] < lim[c] /\ lim[c] - 1 \in 0..MaxN
    BY <1>a DEF IInv, ITypes, TypeOK, IFrame, Indices
  <2> QED BY <2>1 DEF Indices
<1>d. /\ exec' \in [Callers -> [Indices -> Nat]]
      /\ exec'[c][idx[c]] = exec[c][idx[c]] + 1
      /\ \A j \in Indices \ {idx[c]} : exec'[c][j] = exec[c][j]
      /\ \A x \in Callers \ {c} : exec'[x] = exec[x]
  BY <1>c, ExecutedEffect DEF IInv, ITypes
<1>1. ITypes'
  BY <1>a, <1>d DEF IInv, ITypes, TypeOK
<1>2. IOwner'
  BY <1>a DEF IInv, ITypes, TypeOK, IOwner, CallerPCs, Outside, WorkerPCs, InDispatch
<1>3. IFrame'
  <2>1. pc'[c] = "serial" => idx'[c] < lim'[c]
    BY <1>a DEF IInv, ITypes, TypeOK, Goto
  <2> QED BY <1>a, <2>1 DEF IInv, ITypes, TypeOK, IFrame, EnvOf
<1>4. ISlot'
  BY <1>a DEF IInv, ITypes, TypeOK, ISlot, IFrame, Live, CallerPCs, Outside, WorkerPCs, InDispatch, EnvOf
<1>5. IWorker'
  BY <1>a DEF IInv, ITypes, TypeOK, IWorker, CallerPCs, Outside, WorkerPCs, InDispatch, InBatch
<1>6. ILeft'
  <2>1. Busy' = Busy
    BY <1>a DEF Busy, IInv, ITypes, TypeOK, WorkerPCs, InBatch
  <2> QED BY <1>a, <2>1 DEF IInv, ILeft, Live, ITypes, CallerPCs, Outside, InDispatch
<1>7. IClaim'
  BY <1>a DEF IInv, ITypes, TypeOK, IClaim, InF, Live, CallerPCs, Outside, WorkerPCs, InDispatch, InBatch
<1>8. IExec'
  <2> SUFFICES ASSUME NEW d \in Callers, NEW i \in Indices PROVE ExecOf(d, i)'
    BY DEF IExec
  <2>0. ExecOf(d, i)
    BY DEF IInv, IExec
  <2>1. CASE d = c
    <3>1. idx[c] \in Nat /\ lim[c] \in Nat /\ idx[c] < lim[c] /\ i \in Nat
      BY <1>a DEF IInv, ITypes, TypeOK, IFrame, Indices
    <3>2. idx'[c] = idx[c] + 1 /\ lim' = lim
      BY DEF IInv, ITypes, TypeOK
    <3>3. pc'[c] = IF idx[c] + 1 < lim[c] THEN "serial" ELSE "return"
      BY DEF IInv, ITypes, TypeOK, Goto
    <3>4. exec[c][i] = IF i < idx[c] THEN 1 ELSE 0
      BY <1>a, <2>0, <2>1 DEF ExecOf
    <3>5. exec'[c][i] = IF i < idx[c] + 1 THEN 1 ELSE 0
      <4>1. CASE i = idx[c]
        BY <1>d, <3>1, <3>4, <4>1
      <4>2. CASE i # idx[c]
        <5>1. (i < idx[c] + 1) <=> (i < idx[c])
          BY <3>1, <4>2
        <5>2. exec'[c][i] = exec[c][i]
          BY <1>d, <4>2
        <5> QED BY <3>4, <5>1, <5>2
      <4> QED BY <4>1, <4>2
    <3> QED BY <2>1, <3>1, <3>2, <3>3, <3>5 DEF ExecOf, Live
  <2>2. CASE d # c
    BY <1>a, <1>b, <1>d, <2>0, <2>2, ExecFrame DEF IInv, ITypes, TypeOK
  <2> QED BY <2>1, <2>2
<1> QED BY <1>1, <1>2, <1>3, <1>4, <1>5, <1>6, <1>7, <1>8 DEF IInv

LEMMA ReturnInv ==
  ASSUME IntraPoolAssumption, IInv, NEW c \in Callers, Return(c) PROVE IInv'
<1> USE DEF IntraPoolAssumption, Return, Threads
<1>a. /\ pc[c] \in {"return"} /\ pc'[c] \in {"returned"}
      /\ \A t \in Threads \ {c} : pc'[t] = pc[t]
      /\ pc' \in [Threads -> PCs]
      /\ \A x \in Callers : pc'[x] \in CallerPCs
      /\ \A x \in Workers : pc'[x] \in WorkerPCs
  BY DEF IInv, ITypes, TypeOK, CallerPCs, WorkerPCs, PCs, InDispatch, Outside, Goto
<1>b. \A i : Running(i)' <=> Running(i)
  BY <1>a, RunningFrame DEF IInv, ITypes, TypeOK, InF
<1>1. ITypes'
  BY <1>a DEF IInv, ITypes, TypeOK
<1>2. IOwner'
  BY <1>a DEF IInv, ITypes, TypeOK, IOwner, CallerPCs, Outside, WorkerPCs, InDispatch
<1>3. IFrame'
  BY <1>a DEF IInv, ITypes, TypeOK, IFrame, CallerPCs, Outside, WorkerPCs, InDispatch, EnvOf, Indices
<1>4. ISlot'
  BY <1>a DEF IInv, ITypes, TypeOK, ISlot, IFrame, Live, CallerPCs, Outside, WorkerPCs, InDispatch, EnvOf
<1>5. IWorker'
  BY <1>a DEF IInv, ITypes, TypeOK, IWorker, CallerPCs, Outside, WorkerPCs, InDispatch, InBatch
<1>6. ILeft'
  <2>1. Busy' = Busy
    BY <1>a DEF Busy, IInv, ITypes, TypeOK, WorkerPCs, InBatch
  <2> QED BY <1>a, <2>1 DEF IInv, ILeft, Live, ITypes, CallerPCs, Outside, InDispatch
<1>7. IClaim'
  BY <1>a DEF IInv, ITypes, TypeOK, IClaim, InF, Live, CallerPCs, Outside, WorkerPCs, InDispatch, InBatch
<1>8. IExec'
  <2> SUFFICES ASSUME NEW d \in Callers, NEW i \in Indices PROVE ExecOf(d, i)'
    BY DEF IExec
  <2>0. ExecOf(d, i)
    BY DEF IInv, IExec
  <2>1. CASE d = c
    BY <1>a, <1>b, <2>0, <2>1 DEF ExecOf, Live, IInv, ITypes, TypeOK, IFrame, IClaim, Indices
  <2>2. CASE d # c
    BY <1>a, <1>b, <2>0, <2>2, ExecFrame DEF IInv, ITypes, TypeOK
  <2> QED BY <2>1, <2>2
<1> QED BY <1>1, <1>2, <1>3, <1>4, <1>5, <1>6, <1>7, <1>8 DEF IInv

LEMMA StoreJobInv ==
  ASSUME IntraPoolAssumption, IInv, NEW c \in Callers, StoreJob(c) PROVE IInv'
<1> USE DEF IntraPoolAssumption, StoreJob, Threads
<1>a. /\ pc[c] \in {"store"} /\ pc'[c] \in {"publish"}
      /\ \A t \in Threads \ {c} : pc'[t] = pc[t]
      /\ pc' \in [Threads -> PCs]
      /\ \A x \in Callers : pc'[x] \in CallerPCs
      /\ \A x \in Workers : pc'[x] \in WorkerPCs
  BY DEF IInv, ITypes, TypeOK, CallerPCs, WorkerPCs, PCs, InDispatch, Outside, Goto
<1>b. \A i : Running(i)' <=> Running(i)
  BY <1>a, RunningFrame DEF IInv, ITypes, TypeOK, InF
<1>c. env[c] = EnvOf(c) /\ env[c] \in Env
  BY <1>a DEF IInv, ITypes, TypeOK, IFrame, EnvOf, Env
<1>d. Cardinality(Workers) \in Nat
  BY FS_CardinalityType
<1>e. \A d \in Callers : d # c => pc[d] \notin InDispatch
  BY <1>a DEF IInv, IOwner, InDispatch
<1>h. runLock = "held"
  BY <1>a DEF IInv, IOwner, InDispatch
<1>f. Busy = {} /\ \A w \in Workers : pc[w] \notin InBatch
  <2>1. \A d \in Callers : pc[d] \notin Live
    BY <1>a, <1>e DEF Live, InDispatch
  <2> QED BY <1>h, <2>1 DEF IInv, ILeft, Busy
<1>g. \A i : ~Running(i)
  BY <1>a, <1>e, <1>f DEF Running, InF, InDispatch, InBatch, IInv, ITypes, CallerPCs, Outside
<1>1. ITypes'
  BY <1>a, <1>c, <1>d DEF IInv, ITypes, TypeOK
<1>2. IOwner'
  BY <1>a DEF IInv, ITypes, TypeOK, IOwner, CallerPCs, Outside, WorkerPCs, InDispatch
<1>3. IFrame'
  BY <1>a DEF IInv, ITypes, TypeOK, IFrame, CallerPCs, Outside, WorkerPCs, InDispatch, EnvOf, Indices
<1>4. ISlot'
  <2>1. \A d \in Callers : d # c => pc'[d] \notin Live \cup {"publish"}
    BY <1>a, <1>e DEF Live, InDispatch
  <2>2. job'.env = EnvOf(c)' /\ job'.n = lim'[c]
    BY <1>c DEF EnvOf
  <2> QED BY <2>1, <2>2 DEF ISlot
<1>5. IWorker'
  BY <1>a, <1>f DEF IInv, IWorker, InBatch
<1>6. ILeft'
  <2>1. Busy' = Busy
    BY <1>a DEF Busy
  <2>2. \A d \in Callers : d # c => pc'[d] \notin Live \cup {"publish"}
    BY <1>a, <1>e DEF Live, InDispatch
  <2> QED BY <1>a, <1>f, <1>h, <2>1, <2>2 DEF ILeft, Live
<1>7. IClaim'
  <2>1. \A t \in Threads : pc'[t] \notin InF
    BY <1>a, <1>e, <1>f DEF InF, InDispatch, InBatch, IInv, ITypes, CallerPCs, Outside
  <2>2. \A d \in Callers : pc'[d] \notin Live
    BY <1>a, <1>e DEF Live, InDispatch
  <2> QED BY <2>1, <2>2 DEF IClaim
<1>8. IExec'
  <2> SUFFICES ASSUME NEW d \in Callers, NEW i \in Indices PROVE ExecOf(d, i)'
    BY DEF IExec
  <2>0. ExecOf(d, i)
    BY DEF IInv, IExec
  <2>1. CASE d = c
    BY <1>a, <1>b, <2>0, <2>1 DEF ExecOf, Live, IInv, ITypes, TypeOK, IFrame, IClaim, Indices
  <2>2. CASE d # c
    <3>1. pc[d] \notin Live
      BY <1>e, <2>2 DEF Live, InDispatch
    <3> QED BY <1>a, <2>0, <2>2, <3>1, ExecFrame
  <2> QED BY <2>1, <2>2
<1> QED BY <1>1, <1>2, <1>3, <1>4, <1>5, <1>6, <1>7, <1>8 DEF IInv

LEMMA LockDoneInv ==
  ASSUME IntraPoolAssumption, IInv, NEW c \in Callers, LockDone(c) PROVE IInv'
<1> USE DEF IntraPoolAssumption, LockDone, Threads
<1>a. /\ pc[c] \in {"lockDone"} /\ pc'[c] \in {"checkLeft"}
      /\ \A t \in Threads \ {c} : pc'[t] = pc[t]
      /\ pc' \in [Threads -> PCs]
      /\ \A x \in Callers : pc'[x] \in CallerPCs
      /\ \A x \in Workers : pc'[x] \in WorkerPCs
  BY DEF IInv, ITypes, TypeOK, CallerPCs, WorkerPCs, PCs, InDispatch, Outside, Goto
<1>b. \A i : Running(i)' <=> Running(i)
  BY <1>a, RunningFrame DEF IInv, ITypes, TypeOK, InF
<1>1. ITypes'
  BY <1>a DEF IInv, ITypes, TypeOK
<1>2. IOwner'
  BY <1>a DEF IInv, ITypes, TypeOK, IOwner, CallerPCs, Outside, WorkerPCs, InDispatch
<1>3. IFrame'
  BY <1>a DEF IInv, ITypes, TypeOK, IFrame, CallerPCs, Outside, WorkerPCs, InDispatch, EnvOf, Indices
<1>4. ISlot'
  BY <1>a DEF IInv, ITypes, TypeOK, ISlot, IFrame, Live, CallerPCs, Outside, WorkerPCs, InDispatch, EnvOf
<1>5. IWorker'
  BY <1>a DEF IInv, ITypes, TypeOK, IWorker, CallerPCs, Outside, WorkerPCs, InDispatch, InBatch
<1>6. ILeft'
  <2>1. Busy' = Busy
    BY <1>a DEF Busy, IInv, ITypes, TypeOK, WorkerPCs, InBatch
  <2> QED BY <1>a, <2>1 DEF IInv, ILeft, Live, ITypes, CallerPCs, Outside, InDispatch
<1>7. IClaim'
  BY <1>a DEF IInv, ITypes, TypeOK, IClaim, InF, Live, CallerPCs, Outside, WorkerPCs, InDispatch, InBatch
<1>8. IExec'
  <2> SUFFICES ASSUME NEW d \in Callers, NEW i \in Indices PROVE ExecOf(d, i)'
    BY DEF IExec
  <2>0. ExecOf(d, i)
    BY DEF IInv, IExec
  <2>1. CASE d = c
    BY <1>a, <1>b, <2>0, <2>1 DEF ExecOf, Live, IInv, ITypes, TypeOK, IFrame, IClaim, Indices
  <2>2. CASE d # c
    BY <1>a, <1>b, <2>0, <2>2, ExecFrame DEF IInv, ITypes, TypeOK
  <2> QED BY <2>1, <2>2
<1> QED BY <1>1, <1>2, <1>3, <1>4, <1>5, <1>6, <1>7, <1>8 DEF IInv

LEMMA CheckLeftInv ==
  ASSUME IntraPoolAssumption, IInv, NEW c \in Callers, CheckLeft(c) PROVE IInv'
<1> USE DEF IntraPoolAssumption, CheckLeft, Threads
<1>a. /\ pc[c] \in {"checkLeft"} /\ pc'[c] \in {"unlock", "blockDone"}
      /\ \A t \in Threads \ {c} : pc'[t] = pc[t]
      /\ pc' \in [Threads -> PCs]
      /\ \A x \in Callers : pc'[x] \in CallerPCs
      /\ \A x \in Workers : pc'[x] \in WorkerPCs
  <2>0. /\ ITypes /\ c \in Threads /\ c \notin Workers
        /\ {"unlock", "blockDone"} \subseteq PCs /\ {"unlock", "blockDone"} \subseteq CallerPCs
    BY DEF IInv, PCs, CallerPCs, InDispatch, Outside
  <2>1. CASE Goto(c, "checkLeft", "unlock")
    BY <2>0, <2>1, GotoEffect DEF ITypes
  <2>2. CASE Goto(c, "checkLeft", "blockDone")
    BY <2>0, <2>2, GotoEffect DEF ITypes
  <2> QED BY <2>1, <2>2
<1>b. \A i : Running(i)' <=> Running(i)
  BY <1>a, RunningFrame DEF IInv, ITypes, TypeOK, InF
<1>1. ITypes'
  BY <1>a DEF IInv, ITypes, TypeOK
<1>2. IOwner'
  BY <1>a DEF IInv, ITypes, TypeOK, IOwner, CallerPCs, Outside, WorkerPCs, InDispatch
<1>3. IFrame'
  BY <1>a DEF IInv, ITypes, TypeOK, IFrame, CallerPCs, Outside, WorkerPCs, InDispatch, EnvOf, Indices
<1>4. ISlot'
  BY <1>a DEF IInv, ITypes, TypeOK, ISlot, IFrame, Live, CallerPCs, Outside, WorkerPCs, InDispatch, EnvOf
<1>5. IWorker'
  BY <1>a DEF IInv, ITypes, TypeOK, IWorker, CallerPCs, Outside, WorkerPCs, InDispatch, InBatch
<1>c. \A d \in Callers : d # c => pc[d] \notin InDispatch
  BY <1>a DEF IInv, IOwner, InDispatch
<1>d. pc'[c] = "unlock" => Busy = {}
  <2>1. left = Cardinality(Busy)
    BY <1>a DEF IInv, ILeft, Live
  <2>2. pc'[c] = "unlock" => left = 0
    BY <1>a DEF Goto, IInv, ITypes, TypeOK
  <2> QED BY <2>1, <2>2, BusyFinite, FS_EmptySet
<1>6. ILeft'
  <2>1. Busy' = Busy
    BY <1>a DEF Busy, IInv, ITypes, TypeOK, WorkerPCs, InBatch
  <2> QED BY <1>a, <1>c, <1>d, <2>1 DEF IInv, ILeft, Live, InDispatch
<1>7. IClaim'
  BY <1>a DEF IInv, ITypes, TypeOK, IClaim, InF, Live, CallerPCs, Outside, WorkerPCs, InDispatch, InBatch
<1>8. IExec'
  <2> SUFFICES ASSUME NEW d \in Callers, NEW i \in Indices PROVE ExecOf(d, i)'
    BY DEF IExec
  <2>0. ExecOf(d, i)
    BY DEF IInv, IExec
  <2>1. CASE d = c
    <3>1. pc'[c] = "unlock" => ~Running(i) /\ lim[c] <= next
      BY <1>a, <1>c, <1>d DEF Running, InF, Busy, InBatch, IInv, ITypes, CallerPCs, Outside, IClaim, Live, InDispatch
    <3>2. next \in Nat /\ lim[c] \in Nat /\ i \in Nat
      BY DEF IInv, ITypes, TypeOK, Indices
    <3>3. exec[c][i] = IF i < lim[c] /\ i < next /\ ~Running(i) THEN 1 ELSE 0
      BY <1>a, <2>0, <2>1 DEF ExecOf, Live
    <3>4. CASE pc'[c] = "unlock"
      BY <2>1, <3>1, <3>2, <3>3, <3>4 DEF ExecOf, Live
    <3>5. CASE pc'[c] = "blockDone"
      BY <1>b, <2>1, <3>3, <3>5 DEF ExecOf, Live
    <3> QED BY <1>a, <3>4, <3>5
  <2>2. CASE d # c
    BY <1>a, <1>b, <2>0, <2>2, ExecFrame DEF IInv, ITypes, TypeOK
  <2> QED BY <2>1, <2>2
<1> QED BY <1>1, <1>2, <1>3, <1>4, <1>5, <1>6, <1>7, <1>8 DEF IInv

LEMMA BlockDoneInv ==
  ASSUME IntraPoolAssumption, IInv, NEW c \in Callers, BlockDone(c) PROVE IInv'
<1> USE DEF IntraPoolAssumption, BlockDone, Threads
<1>a. /\ pc[c] \in {"blockDone"} /\ pc'[c] \in {"waitDone"}
      /\ \A t \in Threads \ {c} : pc'[t] = pc[t]
      /\ pc' \in [Threads -> PCs]
      /\ \A x \in Callers : pc'[x] \in CallerPCs
      /\ \A x \in Workers : pc'[x] \in WorkerPCs
  BY DEF IInv, ITypes, TypeOK, CallerPCs, WorkerPCs, PCs, InDispatch, Outside, Goto
<1>b. \A i : Running(i)' <=> Running(i)
  BY <1>a, RunningFrame DEF IInv, ITypes, TypeOK, InF
<1>1. ITypes'
  BY <1>a DEF IInv, ITypes, TypeOK
<1>2. IOwner'
  BY <1>a DEF IInv, ITypes, TypeOK, IOwner, CallerPCs, Outside, WorkerPCs, InDispatch
<1>3. IFrame'
  BY <1>a DEF IInv, ITypes, TypeOK, IFrame, CallerPCs, Outside, WorkerPCs, InDispatch, EnvOf, Indices
<1>4. ISlot'
  BY <1>a DEF IInv, ITypes, TypeOK, ISlot, IFrame, Live, CallerPCs, Outside, WorkerPCs, InDispatch, EnvOf
<1>5. IWorker'
  BY <1>a DEF IInv, ITypes, TypeOK, IWorker, CallerPCs, Outside, WorkerPCs, InDispatch, InBatch
<1>6. ILeft'
  <2>1. Busy' = Busy
    BY <1>a DEF Busy, IInv, ITypes, TypeOK, WorkerPCs, InBatch
  <2> QED BY <1>a, <2>1 DEF IInv, ILeft, Live, ITypes, CallerPCs, Outside, InDispatch
<1>7. IClaim'
  BY <1>a DEF IInv, ITypes, TypeOK, IClaim, InF, Live, CallerPCs, Outside, WorkerPCs, InDispatch, InBatch
<1>8. IExec'
  <2> SUFFICES ASSUME NEW d \in Callers, NEW i \in Indices PROVE ExecOf(d, i)'
    BY DEF IExec
  <2>0. ExecOf(d, i)
    BY DEF IInv, IExec
  <2>1. CASE d = c
    BY <1>a, <1>b, <2>0, <2>1 DEF ExecOf, Live, IInv, ITypes, TypeOK, IFrame, IClaim, Indices
  <2>2. CASE d # c
    BY <1>a, <1>b, <2>0, <2>2, ExecFrame DEF IInv, ITypes, TypeOK
  <2> QED BY <2>1, <2>2
<1> QED BY <1>1, <1>2, <1>3, <1>4, <1>5, <1>6, <1>7, <1>8 DEF IInv

LEMMA UnlockInv ==
  ASSUME IntraPoolAssumption, IInv, NEW c \in Callers, Unlock(c) PROVE IInv'
<1> USE DEF IntraPoolAssumption, Unlock, Threads
<1>a. /\ pc[c] \in {"unlock"} /\ pc'[c] \in {"returned"}
      /\ \A t \in Threads \ {c} : pc'[t] = pc[t]
      /\ pc' \in [Threads -> PCs]
      /\ \A x \in Callers : pc'[x] \in CallerPCs
      /\ \A x \in Workers : pc'[x] \in WorkerPCs
  BY DEF IInv, ITypes, TypeOK, CallerPCs, WorkerPCs, PCs, InDispatch, Outside, Goto
<1>b. \A i : Running(i)' <=> Running(i)
  BY <1>a, RunningFrame DEF IInv, ITypes, TypeOK, InF
<1>1. ITypes'
  BY <1>a DEF IInv, ITypes, TypeOK
<1>2. IOwner'
  BY <1>a DEF IInv, ITypes, TypeOK, IOwner, CallerPCs, Outside, WorkerPCs, InDispatch
<1>3. IFrame'
  BY <1>a DEF IInv, ITypes, TypeOK, IFrame, CallerPCs, Outside, WorkerPCs, InDispatch, EnvOf, Indices
<1>4. ISlot'
  BY <1>a DEF IInv, ITypes, TypeOK, ISlot, IFrame, Live, CallerPCs, Outside, WorkerPCs, InDispatch, EnvOf
<1>5. IWorker'
  BY <1>a DEF IInv, ITypes, TypeOK, IWorker, CallerPCs, Outside, WorkerPCs, InDispatch, InBatch
<1>6. ILeft'
  <2>1. Busy' = Busy
    BY <1>a DEF Busy, IInv, ITypes, TypeOK, WorkerPCs, InBatch
  <2>2. runLock = "held" /\ \A d \in Callers : pc[d] \notin Live
    BY <1>a DEF IInv, IOwner, InDispatch, Live
  <2> QED BY <1>a, <2>1, <2>2 DEF IInv, ILeft, Live, ITypes, CallerPCs, Outside, InDispatch
<1>7. IClaim'
  BY <1>a DEF IInv, ITypes, TypeOK, IClaim, InF, Live, CallerPCs, Outside, WorkerPCs, InDispatch, InBatch
<1>8. IExec'
  <2> SUFFICES ASSUME NEW d \in Callers, NEW i \in Indices PROVE ExecOf(d, i)'
    BY DEF IExec
  <2>0. ExecOf(d, i)
    BY DEF IInv, IExec
  <2>1. CASE d = c
    BY <1>a, <1>b, <2>0, <2>1 DEF ExecOf, Live, IInv, ITypes, TypeOK, IFrame, IClaim, Indices
  <2>2. CASE d # c
    BY <1>a, <1>b, <2>0, <2>2, ExecFrame DEF IInv, ITypes, TypeOK
  <2> QED BY <2>1, <2>2
<1> QED BY <1>1, <1>2, <1>3, <1>4, <1>5, <1>6, <1>7, <1>8 DEF IInv

LEMMA LockStartInv ==
  ASSUME IntraPoolAssumption, IInv, NEW w \in Workers, LockStart(w) PROVE IInv'
<1> USE DEF IntraPoolAssumption, LockStart, Threads
<1>a. /\ pc[w] = "lockStart" /\ pc'[w] \in {"waitStart", "read"}
      /\ \A t \in Threads \ {w} : pc'[t] = pc[t]
      /\ pc' \in [Threads -> PCs]
      /\ \A x \in Callers : pc'[x] \in CallerPCs
      /\ \A x \in Workers : pc'[x] \in WorkerPCs
  <2>0. {"waitStart", "read"} \subseteq PCs \cap WorkerPCs /\ w \in Threads /\ ITypes
    BY DEF IInv, WorkerPCs, PCs, InDispatch
  <2>1. CASE Goto(w, "lockStart", "waitStart")
    BY <2>0, <2>1, GotoEffect DEF ITypes
  <2>2. CASE Goto(w, "lockStart", "read")
    BY <2>0, <2>2, GotoEffect DEF ITypes
  <2> QED BY <2>1, <2>2
<1>c. /\ pc'[w] = "waitStart" => batch = seen[w] /\ seen' = seen
      /\ pc'[w] = "read" => batch # seen[w] /\ seen' = [seen EXCEPT ![w] = batch]
  BY <1>a DEF IInv, ITypes, TypeOK, Goto
<1>b. \A i : Running(i)' <=> Running(i)
  BY <1>a, RunningFrame DEF IInv, ITypes, TypeOK, InF
<1>1. ITypes'
  BY <1>a DEF IInv, ITypes, TypeOK
<1>2. IOwner'
  BY <1>a DEF IInv, ITypes, TypeOK, IOwner, CallerPCs, Outside, WorkerPCs, InDispatch
<1>3. IFrame'
  BY <1>a DEF IInv, ITypes, TypeOK, IFrame, CallerPCs, Outside, WorkerPCs, InDispatch, EnvOf, Indices
<1>4. ISlot'
  BY <1>a DEF IInv, ITypes, TypeOK, ISlot, IFrame, Live, CallerPCs, Outside, WorkerPCs, InDispatch, EnvOf
<1>5. IWorker'
  BY <1>a DEF IInv, ITypes, TypeOK, IWorker, CallerPCs, Outside, WorkerPCs, InDispatch, InBatch
<1>6. ILeft'
  <2>1. Busy' = Busy
    <3>1. \A v \in Workers : v # w => pc'[v] = pc[v] /\ seen'[v] = seen[v]
      BY <1>a, <1>c DEF IInv, ITypes, TypeOK
    <3>2. (w \in Busy') <=> (w \in Busy)
      BY <1>a, <1>c DEF Busy, IInv, ITypes, TypeOK, InBatch
    <3> QED BY <3>1, <3>2 DEF Busy
  <2> QED BY <1>a, <2>1 DEF IInv, ILeft, Live, ITypes, CallerPCs, Outside, InDispatch
<1>7. IClaim'
  BY <1>a DEF IInv, ITypes, TypeOK, IClaim, InF, Live, CallerPCs, Outside, WorkerPCs, InDispatch, InBatch
<1>8. IExec'
  <2> SUFFICES ASSUME NEW d \in Callers, NEW i \in Indices PROVE ExecOf(d, i)'
    BY DEF IExec
  <2>0. ExecOf(d, i)
    BY DEF IInv, IExec
  <2> QED BY <1>a, <1>b, <2>0, ExecFrame DEF IInv, ITypes, TypeOK
<1> QED BY <1>1, <1>2, <1>3, <1>4, <1>5, <1>6, <1>7, <1>8 DEF IInv

LEMMA ReadJobInv ==
  ASSUME IntraPoolAssumption, IInv, NEW w \in Workers, ReadJob(w) PROVE IInv'
<1> USE DEF IntraPoolAssumption, ReadJob, Threads
<1>a. /\ pc[w] \in {"read"} /\ pc'[w] \in {"claim"}
      /\ \A t \in Threads \ {w} : pc'[t] = pc[t]
      /\ pc' \in [Threads -> PCs]
      /\ \A x \in Callers : pc'[x] \in CallerPCs
      /\ \A x \in Workers : pc'[x] \in WorkerPCs
  BY DEF IInv, ITypes, TypeOK, CallerPCs, WorkerPCs, PCs, InDispatch, Outside, Goto
<1>b. \A i : Running(i)' <=> Running(i)
  BY <1>a, RunningFrame DEF IInv, ITypes, TypeOK, InF
<1>1. ITypes'
  BY <1>a DEF IInv, ITypes, TypeOK
<1>2. IOwner'
  BY <1>a DEF IInv, ITypes, TypeOK, IOwner, CallerPCs, Outside, WorkerPCs, InDispatch
<1>3. IFrame'
  BY <1>a DEF IInv, ITypes, TypeOK, IFrame, CallerPCs, Outside, WorkerPCs, InDispatch, EnvOf, Indices
<1>4. ISlot'
  BY <1>a DEF IInv, ITypes, TypeOK, ISlot, IFrame, Live, CallerPCs, Outside, WorkerPCs, InDispatch, EnvOf
<1>5. IWorker'
  BY <1>a DEF IInv, ITypes, TypeOK, IWorker, CallerPCs, Outside, WorkerPCs, InDispatch, InBatch
<1>6. ILeft'
  <2>1. Busy' = Busy
    BY <1>a DEF Busy, IInv, ITypes, TypeOK, WorkerPCs, InBatch
  <2> QED BY <1>a, <2>1 DEF IInv, ILeft, Live, ITypes, CallerPCs, Outside, InDispatch
<1>7. IClaim'
  BY <1>a DEF IInv, ITypes, TypeOK, IClaim, InF, Live, CallerPCs, Outside, WorkerPCs, InDispatch, InBatch
<1>8. IExec'
  <2> SUFFICES ASSUME NEW d \in Callers, NEW i \in Indices PROVE ExecOf(d, i)'
    BY DEF IExec
  <2>0. ExecOf(d, i)
    BY DEF IInv, IExec
  <2> QED BY <1>a, <1>b, <2>0, ExecFrame DEF IInv, ITypes, TypeOK
<1> QED BY <1>1, <1>2, <1>3, <1>4, <1>5, <1>6, <1>7, <1>8 DEF IInv

LEMMA FinishInv ==
  ASSUME IntraPoolAssumption, IInv, NEW w \in Workers, Finish(w) PROVE IInv'
<1> USE DEF IntraPoolAssumption, Finish, Threads
<1>a. /\ pc[w] \in {"finish"} /\ pc'[w] \in {"notify", "lockStart"}
      /\ \A t \in Threads \ {w} : pc'[t] = pc[t]
      /\ pc' \in [Threads -> PCs]
      /\ \A x \in Callers : pc'[x] \in CallerPCs
      /\ \A x \in Workers : pc'[x] \in WorkerPCs
  BY DEF IInv, ITypes, TypeOK, CallerPCs, WorkerPCs, PCs, InDispatch, Outside, Goto
<1>b. \A i : Running(i)' <=> Running(i)
  BY <1>a, RunningFrame DEF IInv, ITypes, TypeOK, InF
<1>c. runLock = "poisoned" \/ \E c \in Callers : pc[c] \in Live
  <2>1. w \in Busy
    BY <1>a DEF Busy, InBatch
  <2> QED BY <2>1 DEF IInv, ILeft
<1>d. /\ left = Cardinality(Busy) /\ left \in Nat \ {0}
      /\ Cardinality(Busy \ {w}) = left - 1
  <2>1. w \in Busy
    BY <1>a DEF Busy, InBatch
  <2>2. left = Cardinality(Busy)
    BY <1>c DEF IInv, ILeft
  <2> QED BY <2>1, <2>2, BusyFinite, FS_RemoveElement, FS_EmptySet
<1>1. ITypes'
  <2>1. left' \in Nat
    BY <1>d
  <2> QED BY <1>a, <2>1 DEF IInv, ITypes, TypeOK
<1>2. IOwner'
  BY <1>a DEF IInv, ITypes, TypeOK, IOwner, CallerPCs, Outside, WorkerPCs, InDispatch
<1>3. IFrame'
  BY <1>a DEF IInv, ITypes, TypeOK, IFrame, CallerPCs, Outside, WorkerPCs, InDispatch, EnvOf, Indices
<1>4. ISlot'
  BY <1>a DEF IInv, ITypes, TypeOK, ISlot, IFrame, Live, CallerPCs, Outside, WorkerPCs, InDispatch, EnvOf
<1>5. IWorker'
  BY <1>a DEF IInv, ITypes, TypeOK, IWorker, CallerPCs, Outside, WorkerPCs, InDispatch, InBatch
<1>6. ILeft'
  <2>1. Busy' = Busy \ {w}
    BY <1>a DEF Busy, IInv, IWorker, InBatch
  <2>2. \A d \in Callers : pc'[d] = pc[d] /\ pc[d] # "publish"
    BY <1>a, <1>c DEF IInv, IOwner, Live, InDispatch
  <2> QED BY <1>c, <1>d, <2>1, <2>2 DEF IInv, ILeft
<1>7. IClaim'
  BY <1>a DEF IInv, ITypes, TypeOK, IClaim, InF, Live, CallerPCs, Outside, WorkerPCs, InDispatch, InBatch
<1>8. IExec'
  <2> SUFFICES ASSUME NEW d \in Callers, NEW i \in Indices PROVE ExecOf(d, i)'
    BY DEF IExec
  <2>0. ExecOf(d, i)
    BY DEF IInv, IExec
  <2> QED BY <1>a, <1>b, <2>0, ExecFrame DEF IInv, ITypes, TypeOK
<1> QED BY <1>1, <1>2, <1>3, <1>4, <1>5, <1>6, <1>7, <1>8 DEF IInv

LEMMA PublishInv ==
  ASSUME IntraPoolAssumption, IInv, NEW c \in Callers, Publish(c) PROVE IInv'
<1> USE DEF IntraPoolAssumption, Publish, Threads
<1>a. /\ pc[c] = "publish" /\ pc'[c] = "claim"
      /\ \A d \in Callers \ {c} : pc'[d] = pc[d]
      /\ \A w \in Workers : pc'[w] \in {pc[w], "lockStart"}
      /\ pc' \in [Threads -> PCs]
      /\ \A x \in Callers : pc'[x] \in CallerPCs
      /\ \A x \in Workers : pc'[x] \in WorkerPCs
  BY DEF IInv, ITypes, TypeOK, CallerPCs, WorkerPCs, PCs, InDispatch, Outside
<1>b. \A d \in Callers : d # c => pc[d] \notin InDispatch
  BY <1>a DEF IInv, IOwner, InDispatch
<1>h. runLock = "held"
  BY <1>a DEF IInv, IOwner, InDispatch
<1>c. Busy = {} /\ \A w \in Workers : pc[w] \notin InBatch /\ seen[w] = batch
  <2>1. \A d \in Callers : pc[d] \notin Live
    BY <1>a, <1>b DEF Live, InDispatch
  <2> QED BY <1>h, <2>1 DEF IInv, ILeft, Busy
<1>d. \A w \in Workers : pc'[w] \notin InBatch
  BY <1>a, <1>c DEF InBatch
<1>e. \A i : ~Running(i)'
  BY <1>a, <1>b, <1>d DEF Running, InF, InDispatch, InBatch, IInv, ITypes, CallerPCs, Outside
<1>1. ITypes'
  BY <1>a DEF IInv, ITypes, TypeOK
<1>2. IOwner'
  BY <1>a DEF IInv, IOwner, InDispatch
<1>3. IFrame'
  BY <1>a DEF IInv, IFrame, EnvOf
<1>4. ISlot'
  BY <1>a, <1>b DEF IInv, ISlot, EnvOf, Live, InDispatch
<1>5. IWorker'
  BY <1>a, <1>c, <1>d DEF IInv, ITypes, TypeOK, IWorker, InBatch
<1>6. ILeft'
  <2>1. Busy' = Workers
    BY <1>c DEF Busy, IInv, ITypes, TypeOK
  <2>2. left' = Cardinality(Workers)
    BY <1>a DEF IInv, ILeft
  <2>3. \A d \in Callers : d # c => pc'[d] \notin Live \cup {"publish"}
    BY <1>a, <1>b DEF Live, InDispatch
  <2>4. job'.env \in Env
    BY <1>a DEF IInv, ISlot, EnvOf, Env, ITypes, TypeOK
  <2> QED BY <1>a, <1>h, <2>1, <2>2, <2>3, <2>4 DEF ILeft, Live
<1>7. IClaim'
  <2>1. \A t \in Threads : pc'[t] \notin InF
    BY <1>a, <1>b, <1>d DEF InF, InDispatch, InBatch, IInv, ITypes, CallerPCs, Outside
  <2>2. \A d \in Callers : d # c => pc'[d] \notin Live
    BY <1>a, <1>b DEF Live, InDispatch
  <2> QED BY <1>a, <2>1, <2>2 DEF IClaim, Live
<1>8. IExec'
  <2> SUFFICES ASSUME NEW d \in Callers, NEW i \in Indices PROVE ExecOf(d, i)'
    BY DEF IExec
  <2>0. ExecOf(d, i)
    BY DEF IInv, IExec
  <2>1. CASE d = c
    <3>1. next = 0 /\ i \in Nat
      BY <1>a DEF IInv, ISlot, Live, Indices
    <3>2. exec[c][i] = 0
      BY <1>a, <2>0, <2>1 DEF ExecOf
    <3> QED BY <1>a, <2>1, <3>1, <3>2 DEF ExecOf, Live
  <2>2. CASE d # c
    <3>1. pc[d] \notin Live /\ pc'[d] = pc[d]
      BY <1>a, <1>b, <2>2 DEF Live, InDispatch
    <3> QED BY <2>0, <3>1, ExecFrame
  <2> QED BY <2>1, <2>2
<1> QED BY <1>1, <1>2, <1>3, <1>4, <1>5, <1>6, <1>7, <1>8 DEF IInv

\* Waking a sleeper, or going back to the top of worker_loop(), is harmless:
\* every wait is in a loop that tests its condition again.
LEMMA WakeInv ==
  ASSUME IntraPoolAssumption, IInv,
         UNCHANGED <<batch, job, next, left, mu, runLock, lim, env, idx, seen,
                     gen, exec>>,
         spurious' \in Nat, pc' \in [Threads -> PCs],
         \A t \in Threads :
           \/ pc'[t] = pc[t]
           \/ t \in Workers /\ pc[t] \in {"waitStart", "notify"} /\ pc'[t] = "lockStart"
           \/ t \in Callers /\ pc[t] = "waitDone" /\ pc'[t] = "lockDone"
  PROVE  IInv'
<1> USE DEF Threads
<1>1. ITypes'
  BY DEF IInv, ITypes, TypeOK, CallerPCs, Outside, WorkerPCs, InDispatch
<1>2. IOwner'
  BY DEF IInv, IOwner, InDispatch
<1>3. IFrame'
  BY DEF IInv, IFrame, EnvOf
<1>4. ISlot'
  BY DEF IInv, ISlot, EnvOf, Live
<1>a. \A w \in Workers : (pc'[w] \in InBatch <=> pc[w] \in InBatch)
                         /\ (pc'[w] \in InBatch => pc'[w] = pc[w])
  BY DEF IntraPoolAssumption, InBatch
<1>b. \A d \in Callers : /\ pc'[d] \in Live <=> pc[d] \in Live
                         /\ pc'[d] = "publish" <=> pc[d] = "publish"
  BY DEF IntraPoolAssumption, Live
<1>5. IWorker'
  BY <1>a DEF IInv, IWorker
<1>6. ILeft'
  <2>1. Busy' = Busy
    BY <1>a DEF Busy
  <2> QED BY <1>b, <2>1 DEF IInv, ILeft
<1>7. IClaim'
  BY DEF IInv, IClaim, InF, Live
<1>8. IExec'
  <2>1. \A i : Running(i)' <=> Running(i)
    BY RunningFrame DEF InF
  <2>2. ASSUME NEW d \in Callers, NEW i \in Indices PROVE ExecOf(d, i)'
    <3>1. ExecOf(d, i)
      BY DEF IInv, IExec
    <3>2. CASE pc'[d] = pc[d]
      BY <2>1, <3>1, <3>2, ExecFrame
    <3>3. CASE pc'[d] # pc[d]
      BY <2>1, <3>1, <3>3 DEF IntraPoolAssumption, ExecOf, Live
    <3> QED BY <3>2, <3>3
  <2> QED BY <2>2 DEF IExec
<1> QED BY <1>1, <1>2, <1>3, <1>4, <1>5, <1>6, <1>7, <1>8 DEF IInv

LEMMA NotifyInv ==
  ASSUME IntraPoolAssumption, IInv, NEW w \in Workers, Notify(w) PROVE IInv'
<1>1. spurious' \in Nat /\ UNCHANGED <<batch, job, next, left, mu, runLock, lim,
        env, idx, seen, gen, exec>>
  BY DEF Notify, IInv, ITypes, TypeOK
<1>2. CASE pc' = [pc EXCEPT ![w] = "lockStart"]
  BY <1>1, <1>2, WakeInv DEF Notify, IInv, ITypes, TypeOK, Threads, PCs
<1>3. ASSUME NEW c \in Callers, pc[c] = "waitDone",
             pc' = [pc EXCEPT ![w] = "lockStart", ![c] = "lockDone"]
      PROVE  IInv'
  <2>1. pc[w] = "notify" /\ pc \in [Threads -> PCs]
    BY DEF Notify, IInv, ITypes, TypeOK
  <2> QED BY <1>1, <1>3, <2>1, WakeInv DEF IntraPoolAssumption, Threads, PCs, InDispatch
<1> QED BY <1>2, <1>3 DEF Notify

LEMMA SpuriousWakeInv ==
  ASSUME IntraPoolAssumption, IInv, NEW t \in Threads, SpuriousWake(t) PROVE IInv'
<1>1. spurious' \in Nat /\ UNCHANGED <<batch, job, next, left, mu, runLock, lim,
        env, idx, seen, gen, exec>>
  BY DEF SpuriousWake, IInv, ITypes, TypeOK
<1>2. pc[t] = "waitStart" => t \in Workers
  BY DEF IInv, ITypes, CallerPCs, Outside, InDispatch, Threads
<1>3. pc[t] = "waitDone" => t \in Callers
  BY DEF IInv, ITypes, WorkerPCs, Threads
<1>4. pc \in [Threads -> PCs] /\ {"lockStart", "lockDone"} \subseteq PCs
  BY DEF IInv, ITypes, TypeOK, PCs, InDispatch
<1> QED BY <1>1, <1>2, <1>3, <1>4, WakeInv DEF SpuriousWake, Goto

\* While RUN is sound, a thread in the claim loop works for the one published
\* call.
LEMMA LoopOwner ==
  ASSUME IntraPoolAssumption, runLock # "poisoned", IInv, NEW t \in Threads, pc[t] \in {"claim", "call"}
  PROVE  \E d \in Callers :
           /\ pc[d] \in Live
           /\ env[t] = EnvOf(d) /\ lim[t] = lim[d] /\ lim[d] - 1 \in Indices
           /\ t \in Callers => t = d
<1>1. CASE t \in Callers
  BY <1>1 DEF IInv, IFrame, Live
<1>2. CASE t \in Workers
  <2>1. t \in Busy
    BY <1>2 DEF Busy, InBatch
  <2>2. PICK d \in Callers : pc[d] \in Live
    BY <2>1 DEF IInv, ILeft
  <2>3. lim[t] = job.n /\ env[t] = job.env
    BY <1>2 DEF IInv, IWorker, InBatch
  <2>4. job.n = lim[d] /\ job.env = EnvOf(d)
    BY <2>2 DEF IInv, ISlot
  <2>5. lim[d] - 1 \in Indices
    BY <2>2 DEF IInv, IFrame, Live
  <2> QED BY <1>2, <2>2, <2>3, <2>4, <2>5 DEF IntraPoolAssumption
<1> QED BY <1>1, <1>2 DEF Threads

LEMMA ClaimInv ==
  ASSUME IntraPoolAssumption, runLock # "poisoned", IInv, NEW t \in Threads, Claim(t) PROVE IInv'
<1> USE DEF IntraPoolAssumption, Claim
<1>t. /\ next \in Nat /\ next' = next + 1
      /\ lim \in [Threads -> Nat] /\ lim' = lim /\ env' = env
      /\ idx \in [Threads -> Nat] /\ idx' \in [Threads -> Nat]
      /\ \A x \in Threads \ {t} : idx'[x] = idx[x]
  BY DEF IInv, ITypes, TypeOK
<1>a. /\ pc[t] = "claim"
      /\ \/ next < lim[t] /\ pc'[t] = "call" /\ idx'[t] = next
         \/ /\ next >= lim[t] /\ idx' = idx
            /\ t \in Workers /\ pc'[t] = "finish"
         \/ /\ next >= lim[t] /\ idx' = idx
            /\ t \in Callers /\ pc'[t] = "lockDone"
      /\ \A x \in Threads \ {t} : pc'[x] = pc[x]
      /\ pc' \in [Threads -> PCs]
  BY DEF IInv, ITypes, TypeOK, Goto, Threads, PCs, InDispatch
<1>b. PICK o \in Callers :
        /\ pc[o] \in Live
        /\ env[t] = EnvOf(o) /\ lim[t] = lim[o] /\ lim[o] - 1 \in Indices
        /\ t \in Callers => t = o
  BY <1>a, LoopOwner
<1>c. \A d \in Callers : d # o => pc[d] \notin InDispatch /\ pc'[d] = pc[d]
  BY <1>a, <1>b DEF IInv, IOwner, Live, InDispatch, Threads
<1>d. pc'[o] \in Live
  BY <1>a, <1>b DEF Live, Threads
<1>1. ITypes'
  <2>1. \A x \in Callers : pc'[x] \in CallerPCs
    BY <1>a DEF IInv, ITypes, CallerPCs, Outside, InDispatch, Threads
  <2>2. \A x \in Workers : pc'[x] \in WorkerPCs
    BY <1>a DEF IInv, ITypes, WorkerPCs, Threads
  <2> QED BY <1>t, <1>a, <2>1, <2>2 DEF IInv, ITypes, TypeOK
<1>2. IOwner'
  BY <1>b, <1>c DEF IInv, IOwner, Live, InDispatch
<1>3. IFrame'
  <2>1. ASSUME NEW d \in Callers, pc'[d] # "idle"
        PROVE  /\ pc[d] # "idle"
               /\ pc'[d] \in {"single", "tryLock", "serial"} => pc'[d] = pc[d] /\ idx'[d] = idx[d]
    BY <1>t, <1>a, <2>1 DEF Threads
  <2> QED BY <1>t, <2>1 DEF IInv, IFrame, EnvOf
<1>4. ISlot'
  <2>1. \A d \in Callers : pc'[d] \in Live \cup {"publish"} => d = o
    BY <1>c DEF Live, InDispatch
  <2> QED BY <1>t, <1>b, <1>d, <2>1 DEF IInv, ISlot, EnvOf, Live
<1>5. IWorker'
  BY <1>t, <1>a DEF IInv, IWorker, InBatch, Threads
<1>6. ILeft'
  <2>1. Busy' = Busy
    BY <1>a DEF Busy, InBatch, Threads
  <2>2. \A d \in Callers : pc'[d] \in Live \cup {"publish"} => d = o
    BY <1>c DEF Live, InDispatch
  <2> QED BY <1>b, <1>d, <2>1, <2>2 DEF IInv, ILeft, Live
<1>7. IClaim'
  <2>1. ASSUME NEW x \in Threads, pc'[x] \in InF
        PROVE  idx'[x] < next' /\ idx'[x] < lim'[x]
    <3>1. CASE x = t
      BY <1>t, <1>a, <2>1, <3>1 DEF InF
    <3>2. CASE x # t
      BY <1>t, <1>a, <2>1, <3>2 DEF IInv, IClaim, InF
    <3> QED BY <3>1, <3>2
  <2>2. ASSUME NEW x \in Threads, NEW y \in Threads,
               pc'[x] \in InF, pc'[y] \in InF, idx'[x] = idx'[y]
        PROVE  x = y
    <3>1. CASE x # t /\ y # t
      BY <1>t, <1>a, <2>2, <3>1 DEF IInv, IClaim, InF
    <3>2. \A z \in Threads : z # t /\ pc'[z] \in InF => idx'[z] < next
      BY <1>t, <1>a DEF IInv, IClaim, InF
    <3>3. pc'[t] \in InF => idx'[t] = next
      BY <1>a DEF InF
    <3> QED BY <1>t, <2>2, <3>1, <3>2, <3>3
  <2>3. ASSUME NEW d \in Callers, pc'[d] \in Live \ {"claim", "call"}
        PROVE  lim'[d] <= next'
    <3>1. d = o
      BY <1>c, <2>3 DEF Live, InDispatch
    <3>2. CASE t = o
      BY <1>t, <1>a, <2>3, <3>1, <3>2 DEF Live, Threads
    <3>3. CASE t # o
      <4>1. lim[d] <= next
        BY <1>a, <2>3, <3>1, <3>3 DEF IInv, IClaim, Threads
      <4> QED BY <1>t, <4>1 DEF Threads
    <3> QED BY <3>2, <3>3
  <2> QED BY <2>1, <2>2, <2>3 DEF IClaim
<1>8. IExec'
  <2> SUFFICES ASSUME NEW d \in Callers, NEW i \in Indices PROVE ExecOf(d, i)'
    BY DEF IExec
  <2>0. ExecOf(d, i) /\ exec' = exec /\ i \in Nat
    BY DEF IInv, IExec, Indices
  <2>1. CASE d = o
    <3>1. exec[o][i] = IF i < lim[o] /\ i < next /\ ~Running(i) THEN 1 ELSE 0
      BY <1>b, <2>0, <2>1 DEF ExecOf
    <3>2. CASE i = next
      <4>1. i < lim[o] => Running(i)'
        BY <1>t, <1>a, <1>b, <3>2 DEF Running, InF
      <4> QED BY <1>t, <1>d, <2>0, <2>1, <3>1, <3>2, <4>1 DEF ExecOf, Live
    <3>3. CASE i # next
      <4>1. Running(i)' <=> Running(i)
        BY <1>t, <1>a, <3>3 DEF Running, InF
      <4>2. i < next' <=> i < next
        BY <1>t, <2>0, <3>3
      <4> QED BY <1>t, <1>d, <2>0, <2>1, <3>1, <4>1, <4>2 DEF ExecOf, Live
    <3> QED BY <3>2, <3>3
  <2>2. CASE d # o
    <3>1. pc[d] \notin Live /\ pc'[d] = pc[d] /\ d # t
      BY <1>b, <1>c, <2>2 DEF Live, InDispatch
    <3> QED BY <1>t, <2>0, <3>1, ExecFrame DEF Threads
  <2> QED BY <2>1, <2>2
<1> QED BY <1>1, <1>2, <1>3, <1>4, <1>5, <1>6, <1>7, <1>8 DEF IInv

LEMMA CallInv ==
  ASSUME IntraPoolAssumption, runLock # "poisoned", IInv, NEW t \in Threads, Call(t) PROVE IInv'
<1> USE DEF IntraPoolAssumption
<1>t. /\ next \in Nat /\ lim \in [Threads -> Nat] /\ idx \in [Threads -> Nat]
      /\ UNCHANGED <<batch, job, next, left, mu, runLock, lim, env, idx, seen,
                     gen, spurious>>
  BY DEF IInv, ITypes, TypeOK, Call
<1>a. /\ pc[t] = "call" /\ pc'[t] = "claim"
      /\ \A x \in Threads \ {t} : pc'[x] = pc[x]
      /\ pc' \in [Threads -> PCs]
  BY DEF IInv, ITypes, TypeOK, Goto, Threads, PCs, InDispatch, Call
<1>b. PICK o \in Callers :
        /\ pc[o] \in Live
        /\ env[t] = EnvOf(o) /\ lim[t] = lim[o] /\ lim[o] - 1 \in Indices
        /\ t \in Callers => t = o
  BY <1>a, LoopOwner
<1>c. \A d \in Callers : d # o => pc[d] \notin InDispatch /\ pc'[d] = pc[d]
  BY <1>a, <1>b DEF IInv, IOwner, Live, InDispatch, Threads
<1>d. pc'[o] \in Live
  BY <1>a, <1>b DEF Live, Threads
<1>e. Alive(env[t]) /\ env[t].caller = o
  BY <1>b DEF Alive, EnvOf, Live, InDispatch
<1>f. idx[t] \in Indices /\ idx[t] < lim[o] /\ idx[t] < next
  <2>1. idx[t] < lim[t] /\ idx[t] < next
    BY <1>a DEF IInv, IClaim, InF
  <2> QED BY <1>t, <1>b, <2>1 DEF Indices, Threads
<1>g. /\ exec' \in [Callers -> [Indices -> Nat]]
      /\ exec'[o][idx[t]] = exec[o][idx[t]] + 1
      /\ \A j \in Indices \ {idx[t]} : exec'[o][j] = exec[o][j]
      /\ \A x \in Callers \ {o} : exec'[x] = exec[x]
  BY <1>e, <1>f, ExecutedEffect DEF IInv, ITypes, Call
<1>1. ITypes'
  <2>1. \A x \in Callers : pc'[x] \in CallerPCs
    BY <1>a DEF IInv, ITypes, CallerPCs, Outside, InDispatch, Threads
  <2>2. \A x \in Workers : pc'[x] \in WorkerPCs
    BY <1>a DEF IInv, ITypes, WorkerPCs, Threads
  <2> QED BY <1>t, <1>a, <1>g, <2>1, <2>2 DEF IInv, ITypes, TypeOK
<1>2. IOwner'
  BY <1>t, <1>b, <1>c DEF IInv, IOwner, Live, InDispatch
<1>3. IFrame'
  <2>1. ASSUME NEW d \in Callers, pc'[d] # "idle"
        PROVE  /\ pc[d] # "idle"
               /\ pc'[d] \in {"single", "tryLock", "serial"} => pc'[d] = pc[d]
    BY <1>a, <2>1 DEF Threads
  <2> QED BY <1>t, <2>1 DEF IInv, IFrame, EnvOf
<1>4. ISlot'
  <2>1. \A d \in Callers : pc'[d] \in Live \cup {"publish"} => d = o
    BY <1>c DEF Live, InDispatch
  <2> QED BY <1>t, <1>b, <1>d, <2>1 DEF IInv, ISlot, EnvOf, Live
<1>5. IWorker'
  BY <1>t, <1>a DEF IInv, IWorker, InBatch, Threads
<1>6. ILeft'
  <2>1. Busy' = Busy
    BY <1>t, <1>a DEF Busy, InBatch, Threads
  <2>2. \A d \in Callers : pc'[d] \in Live \cup {"publish"} => d = o
    BY <1>c DEF Live, InDispatch
  <2> QED BY <1>t, <1>b, <1>d, <2>1, <2>2 DEF IInv, ILeft, Live
<1>7. IClaim'
  <2>1. \A x \in Threads : pc'[x] \in InF => pc[x] \in InF
    BY <1>a DEF InF
  <2>2. ASSUME NEW d \in Callers, pc'[d] \in Live \ {"claim", "call"}
        PROVE  pc[d] = pc'[d]
    BY <1>a, <2>2 DEF Threads
  <2> QED BY <1>t, <2>1, <2>2 DEF IInv, IClaim
<1>8. IExec'
  <2> SUFFICES ASSUME NEW d \in Callers, NEW i \in Indices PROVE ExecOf(d, i)'
    BY DEF IExec
  <2>0. ExecOf(d, i)
    BY DEF IInv, IExec
  <2>1. CASE d = o
    <3>1. exec[o][i] = IF i < lim[o] /\ i < next /\ ~Running(i) THEN 1 ELSE 0
      BY <1>b, <2>0, <2>1 DEF ExecOf
    <3>2. CASE i = idx[t]
      <4>1. Running(i)
        BY <1>a, <3>2 DEF Running, InF
      <4>2. ~Running(i)'
        BY <1>t, <1>a, <3>2 DEF Running, InF, IInv, IClaim
      <4>3. exec'[o][i] = 1
        BY <1>g, <3>1, <3>2, <4>1
      <4> QED BY <1>t, <1>d, <1>f, <2>1, <3>2, <4>2, <4>3 DEF ExecOf, Live
    <3>3. CASE i # idx[t]
      <4>1. Running(i)' <=> Running(i)
        BY <1>t, <1>a, <3>3 DEF Running, InF
      <4>2. exec'[o][i] = exec[o][i]
        BY <1>g, <3>3
      <4> QED BY <1>t, <1>d, <2>1, <3>1, <4>1, <4>2 DEF ExecOf, Live
    <3> QED BY <3>2, <3>3
  <2>2. CASE d # o
    <3>1. pc[d] \notin Live /\ pc'[d] = pc[d]
      BY <1>c, <2>2 DEF Live, InDispatch
    <3> QED BY <1>t, <1>g, <2>0, <2>2, <3>1, ExecFrame
  <2> QED BY <2>1, <2>2
<1> QED BY <1>1, <1>2, <1>3, <1>4, <1>5, <1>6, <1>7, <1>8 DEF IInv

\* After a caller has panicked in dispatch() its workers may go on, but nobody
\* is in a call any more that they could run for.
LEMMA PoisonedWorker ==
  ASSUME IntraPoolAssumption, runLock = "poisoned", IInv,
         NEW t \in Threads, pc[t] \in {"claim", "call"}
  PROVE  /\ t \in Workers /\ ~Alive(env[t])
         /\ \A d \in Callers : pc[d] \notin InDispatch
<1>1. \A d \in Callers : pc[d] \notin InDispatch
  BY DEF IInv, IOwner
<1>2. t \in Workers
  BY <1>1 DEF Threads, InDispatch
<1>3. env[t] \in Env
  <2>1. t \in Busy
    BY <1>2 DEF Busy, InBatch
  <2>2. job.env \in Env
    BY <2>1 DEF IInv, ILeft
  <2>3. env[t] = job.env
    BY <1>2 DEF IInv, IWorker, InBatch
  <2> QED BY <2>2, <2>3
<1>4. env[t].caller \in Callers
  BY <1>3 DEF Env
<1> QED BY <1>1, <1>2, <1>4 DEF Alive

LEMMA PoisonedLoopInv ==
  ASSUME IntraPoolAssumption, runLock = "poisoned", IInv,
         NEW t \in Threads, Claim(t) \/ Call(t)
  PROVE  IInv'
<1> USE DEF IntraPoolAssumption
<1>t. /\ next \in Nat /\ next' \in Nat /\ next <= next'
      /\ idx \in [Threads -> Nat] /\ idx' \in [Threads -> Nat]
      /\ \A x \in Threads \ {t} : idx'[x] = idx[x]
      /\ UNCHANGED <<batch, job, left, mu, runLock, lim, env, seen, gen, spurious>>
  BY DEF IInv, ITypes, TypeOK, Claim, Call
<1>a. /\ pc[t] \in {"claim", "call"} /\ pc'[t] \in {"call", "claim", "finish", "lockDone"}
      /\ \A x \in Threads \ {t} : pc'[x] = pc[x]
      /\ pc' \in [Threads -> PCs]
      /\ pc'[t] = "call" => idx'[t] = next /\ next < lim[t] /\ next < next'
      /\ pc'[t] = "lockDone" => t \in Callers
  BY DEF IInv, ITypes, TypeOK, Claim, Call, Goto, Threads, PCs, InDispatch
<1>b. t \in Workers /\ t \notin Callers /\ \A d \in Callers : pc[d] \notin InDispatch
  BY <1>a, PoisonedWorker
<1>c. \A d \in Callers : pc'[d] = pc[d] /\ idx'[d] = idx[d]
  BY <1>t, <1>a, <1>b DEF Threads
<1>d. exec' = exec
  <2>1. CASE Claim(t)
    BY <2>1 DEF Claim
  <2>2. CASE Call(t)
    BY <1>a, <2>2, PoisonedWorker DEF Call
  <2> QED BY <2>1, <2>2
<1>1. ITypes'
  <2>1. \A x \in Workers : pc'[x] \in WorkerPCs
    BY <1>a, <1>b DEF IInv, ITypes, WorkerPCs, Threads
  <2> QED BY <1>t, <1>a, <1>c, <1>d, <2>1 DEF IInv, ITypes, TypeOK
<1>2. IOwner'
  BY <1>t, <1>b, <1>c DEF IOwner
<1>3. IFrame'
  BY <1>t, <1>c DEF IInv, IFrame, EnvOf, Threads
<1>4. ISlot'
  BY <1>b, <1>c DEF ISlot, Live, InDispatch
<1>5. IWorker'
  BY <1>t, <1>a DEF IInv, IWorker, InBatch, Threads
<1>6. ILeft'
  <2>1. Busy' = Busy
    BY <1>t, <1>a, <1>b DEF Busy, InBatch, Threads
  <2> QED BY <1>t, <1>b, <1>c, <2>1 DEF IInv, ILeft, Live, InDispatch
<1>7. IClaim'
  <2>1. ASSUME NEW x \in Threads, pc'[x] \in InF
        PROVE  idx'[x] < next' /\ idx'[x] < lim'[x]
    <3>1. CASE x = t
      BY <1>t, <1>a, <2>1, <3>1 DEF InF
    <3>2. CASE x # t
      <4>1. idx[x] < next /\ idx[x] < lim[x] /\ idx[x] \in Nat
        BY <1>t, <1>a, <2>1, <3>2 DEF IInv, IClaim
      <4> QED BY <1>t, <3>2, <4>1
    <3> QED BY <3>1, <3>2
  <2>2. ASSUME NEW x \in Threads, NEW y \in Threads,
               pc'[x] \in InF, pc'[y] \in InF, idx'[x] = idx'[y]
        PROVE  x = y
    <3>1. CASE x # t /\ y # t
      BY <1>t, <1>a, <2>2, <3>1 DEF IInv, IClaim
    <3>2. \A z \in Threads : z # t /\ pc'[z] \in InF => idx'[z] < next
      BY <1>t, <1>a DEF IInv, IClaim
    <3>3. pc'[t] \in InF => idx'[t] = next
      BY <1>a DEF InF
    <3> QED BY <1>t, <2>2, <3>1, <3>2, <3>3
  <2> QED BY <1>b, <1>c, <2>1, <2>2 DEF IClaim, Live, InDispatch
<1>8. IExec'
  BY <1>t, <1>b, <1>c, <1>d, ExecFrame DEF IInv, IExec, Live, InDispatch, Threads
<1> QED BY <1>1, <1>2, <1>3, <1>4, <1>5, <1>6, <1>7, <1>8 DEF IInv

\* A panic of f: a dead worker keeps its index and its place in the batch, a
\* caller leaves the slot to RUN, which stays poisoned.
LEMMA PanicInv ==
  ASSUME IntraPoolAssumption, IInv, NEW t \in Threads, Panic(t) PROVE IInv'
<1> USE DEF IntraPoolAssumption
<1>t. /\ UNCHANGED <<batch, job, next, left, mu, lim, env, idx, seen, gen, exec, spurious>>
      /\ runLock' \in {"free", "held", "poisoned"}
  BY DEF Panic, IInv, ITypes, TypeOK
<1>a. /\ \A x \in Threads \ {t} : pc'[x] = pc[x]
      /\ pc' \in [Threads -> PCs]
      /\ t \in Workers => pc[t] = "call" /\ pc'[t] = "dead" /\ runLock' = runLock
      /\ t \in Callers => pc[t] \in {"single", "serial", "call"} /\ pc'[t] = "unwound"
      /\ t \in Callers /\ pc[t] = "call" => runLock' = "poisoned" /\ runLock = "held"
      /\ t \in Callers /\ pc[t] # "call" => runLock' = runLock
  BY DEF Panic, IInv, ITypes, TypeOK, Threads, PCs, Outside, WorkerPCs, IOwner, InDispatch
<1>b. \A d \in Callers : d # t => pc'[d] = pc[d]
  BY <1>a DEF Threads
<1>c. t \in Callers /\ pc[t] = "call" => \A d \in Callers : pc'[d] \notin InDispatch
  BY <1>a, <1>b DEF IInv, IOwner, InDispatch
<1>d. \A x \in Threads : pc'[x] \in InF => pc[x] \in InF
  BY <1>a DEF InF, Threads
<1>e. \A w \in Workers : /\ (pc'[w] \in InBatch) <=> (pc[w] \in InBatch)
                         /\ pc'[w] \in InBatch \ {"read"} => pc[w] \in InBatch \ {"read"}
  BY <1>a DEF InBatch, Threads
<1>1. ITypes'
  <2>1. \A x \in Workers : pc'[x] \in WorkerPCs
    BY <1>a DEF IInv, ITypes, WorkerPCs, Threads
  <2>2. \A x \in Callers : pc'[x] \in CallerPCs
    BY <1>a DEF IInv, ITypes, CallerPCs, Outside, Threads
  <2> QED BY <1>t, <1>a, <2>1, <2>2 DEF IInv, ITypes, TypeOK
<1>2. IOwner'
  <2>1. CASE t \in Callers /\ pc[t] = "call"
    BY <1>c, <2>1 DEF IOwner
  <2>2. CASE ~(t \in Callers /\ pc[t] = "call")
    <3>1. runLock' = runLock
      BY <1>a, <2>2 DEF Threads
    <3>2. \A d \in Callers : pc'[d] \in InDispatch => pc[d] \in InDispatch
      BY <1>a, <1>b DEF InDispatch, Threads
    <3> QED BY <3>1, <3>2 DEF IInv, IOwner
  <2> QED BY <2>1, <2>2
<1>3. IFrame'
  BY <1>t, <1>a, <1>b DEF IInv, IFrame, EnvOf, Threads
<1>4. ISlot'
  BY <1>t, <1>a, <1>b DEF IInv, ISlot, EnvOf, Live
<1>5. IWorker'
  BY <1>t, <1>e DEF IInv, IWorker
<1>6. ILeft'
  <2>1. Busy' = Busy
    BY <1>t, <1>e DEF Busy
  <2>2. CASE t \in Callers /\ pc[t] = "call"
    <3>1. left = Cardinality(Busy) /\ (Busy # {} => job.env \in Env)
      BY <2>2 DEF IInv, ILeft, Live
    <3> QED BY <1>t, <1>a, <1>c, <2>1, <2>2, <3>1 DEF ILeft, Live, InDispatch
  <2>3. CASE ~(t \in Callers /\ pc[t] = "call")
    <3>1. \A d \in Callers : pc'[d] \in Live \cup {"publish"} \/ pc[d] \in Live \cup {"publish"}
                              => pc'[d] = pc[d]
      BY <1>a, <1>b, <2>3 DEF Live, Threads
    <3>2. runLock' = runLock
      BY <1>a, <2>3 DEF Threads
    <3> QED BY <1>t, <2>1, <3>1, <3>2 DEF IInv, ILeft
  <2> QED BY <2>2, <2>3
<1>7. IClaim'
  <2>1. \A d \in Callers : pc'[d] \in Live => pc'[d] = pc[d]
    BY <1>a, <1>b DEF Live, Threads
  <2> QED BY <1>t, <1>d, <2>1 DEF IInv, IClaim
<1>8. IExec'
  <2> SUFFICES ASSUME NEW d \in Callers, NEW i \in Indices PROVE ExecOf(d, i)'
    BY DEF IExec
  <2>0. ExecOf(d, i)
    BY DEF IInv, IExec
  <2>1. CASE d = t
    BY <1>a, <2>1 DEF ExecOf, Live
  <2>2. CASE d # t /\ t \in Workers
    <3>1. Running(i)' <=> Running(i)
      BY <1>t, <1>a, <2>2, RunningFrame DEF InF, Threads
    <3> QED BY <1>t, <1>b, <2>0, <2>2, <3>1, ExecFrame
  <2>3. CASE d # t /\ t \in Callers
    <3>1. pc[t] # "call" => (Running(i)' <=> Running(i))
      BY <1>t, <1>a, <2>3, RunningFrame DEF InF, Threads
    <3>2. pc[t] = "call" => pc[d] \notin Live
      BY <1>b, <1>c, <2>3 DEF Live, InDispatch
    <3> QED BY <1>t, <1>b, <2>0, <2>3, <3>1, <3>2, ExecFrame
  <2> QED BY <2>1, <2>2, <2>3 DEF Threads
<1> QED BY <1>1, <1>2, <1>3, <1>4, <1>5, <1>6, <1>7, <1>8 DEF IInv

-----------------------------------------------------------------------------
\* The invariant is inductive, whoever panics.
LEMMA NextInv ==
  ASSUME IntraPoolAssumption, Workers # {}, IInv, [Next]_vars PROVE IInv'
<1>1. CASE UNCHANGED vars
  BY <1>1 DEF vars, IInv, ITypes, TypeOK, IOwner, IFrame, ISlot, IWorker, ILeft,
     IClaim, IExec, ExecOf, Running, Busy, EnvOf
<1>2. ASSUME NEW c \in Callers, RunStep(c) PROVE IInv'
  BY <1>2, SingleInv, TryLockInv, SerialInv, ReturnInv, StoreJobInv, PublishInv,
     LockDoneInv, CheckLeftInv, BlockDoneInv, UnlockInv DEF RunStep
<1>3. ASSUME NEW c \in Callers, NEW n \in 0..MaxN, Enter(c, n) PROVE IInv'
  BY <1>3, EnterInv
<1>4. ASSUME NEW w \in Workers, WorkerStep(w) PROVE IInv'
  BY <1>4, LockStartInv, ReadJobInv, FinishInv, NotifyInv DEF WorkerStep
<1>5. ASSUME NEW t \in Threads, LoopStep(t) \/ SpuriousWake(t) PROVE IInv'
  BY <1>5, ClaimInv, CallInv, PoisonedLoopInv, SpuriousWakeInv DEF LoopStep
<1>6. ASSUME NEW t \in PanicThreads, Panic(t) PROVE IInv'
  BY <1>6, PanicInv DEF IntraPoolAssumption, Threads
<1> QED BY <1>1, <1>2, <1>3, <1>4, <1>5, <1>6 DEF Next

\* With at least one worker every reachable state satisfies the invariant,
\* whatever panics; the theorems below are its consequences.
THEOREM Invariance ==
  ASSUME IntraPoolAssumption, Workers # {} PROVE Spec => []IInv
<1>1. Init => IInv
  BY InitInv
<1>2. IInv /\ [Next]_vars => IInv'
  BY NextInv
<1> QED BY <1>1, <1>2, PTL DEF Spec

\* Every variable keeps its type: `left' is never decremented below zero.
THEOREM TypeCorrect ==
  ASSUME IntraPoolAssumption, Workers # {} PROVE Spec => []TypeOK
<1>1. IInv => TypeOK
  BY DEF IInv, ITypes
<1> QED BY <1>1, Invariance, PTL

\* intra.rs:82: at its return every run(n, f) has executed f(0), ..., f(n-1)
\* once each, for any number of callers and workers, though others panicked.
THEOREM ExactlyOnceHolds ==
  ASSUME IntraPoolAssumption, Workers # {} PROVE Spec => []ExactlyOnce
<1>1. IInv => ExactlyOnce
  BY DEF IInv, IExec, ExecOf, ExactlyOnce
<1> QED BY <1>1, Invariance, PTL

\* RUN is poisoned by a panic of a caller's f only.
Healthy == runLock # "poisoned"

LEMMA NeverPoisoned ==
  ASSUME IntraPoolAssumption, PanicThreads \subseteq Workers
  PROVE  Spec => []Healthy
<1>1. Init => Healthy
  BY DEF Init, Healthy
<1>2. Healthy /\ [Next]_vars => Healthy'
  <2> SUFFICES ASSUME runLock # "poisoned", [Next]_vars PROVE runLock' # "poisoned"
    BY DEF Healthy
  <2>1. CASE \E c \in Callers : RunStep(c) \/ \E n \in 0..MaxN : Enter(c, n)
    BY <2>1 DEF RunStep, Enter, Single, TryLock, Serial, Return, StoreJob, Publish,
       LockDone, CheckLeft, BlockDone, Unlock
  <2>2. CASE \E w \in Workers : WorkerStep(w)
    BY <2>2 DEF WorkerStep, LockStart, ReadJob, Finish, Notify
  <2>3. CASE \E t \in Threads : LoopStep(t) \/ SpuriousWake(t)
    BY <2>3 DEF LoopStep, Claim, Call, SpuriousWake
  <2>4. CASE \E t \in PanicThreads : Panic(t)
    <3>1. PICK t \in PanicThreads : Panic(t)
      BY <2>4
    <3>2. t \notin Callers
      BY DEF IntraPoolAssumption
    <3> QED BY <3>1, <3>2 DEF Panic
  <2>5. CASE UNCHANGED vars
    BY <2>5 DEF vars
  <2> QED BY <2>1, <2>2, <2>3, <2>4, <2>5 DEF Next
<1> QED BY <1>1, <1>2, PTL DEF Spec

\* intra.rs:107: a thread inside f works for a call whose closure is alive, if
\* only workers panic.  A caller's panic drops the closure under its workers.
THEOREM NoUseAfterReturnHolds ==
  ASSUME IntraPoolAssumption, Workers # {}, PanicThreads \subseteq Workers
  PROVE  Spec => []NoUseAfterReturn
<1>1. IInv /\ Healthy => NoUseAfterReturn
  <2> SUFFICES ASSUME IInv, runLock # "poisoned", NEW t \in Threads, pc[t] = "call" PROVE Alive(env[t])
    BY DEF NoUseAfterReturn, Healthy
  <2>1. PICK d \in Callers : pc[d] \in Live /\ env[t] = EnvOf(d)
    BY LoopOwner
  <2> QED BY <2>1 DEF Alive, EnvOf, Live, InDispatch
<1> QED BY <1>1, Invariance, NeverPoisoned, PTL

\* intra.rs:85: the slot never has two owners.
THEOREM OneDispatcherHolds ==
  ASSUME IntraPoolAssumption, Workers # {} PROVE Spec => []OneDispatcher
<1>1. IInv => OneDispatcher
  BY DEF IInv, IOwner, OneDispatcher
<1> QED BY <1>1, Invariance, PTL

\* A zero countdown means that no worker is in the batch or has yet to see it.
THEOREM LeftIsExactHolds ==
  ASSUME IntraPoolAssumption, Workers # {} PROVE Spec => []LeftIsExact
<1>1. IInv => LeftIsExact
  <2> SUFFICES ASSUME IInv, NEW c \in Callers, pc[c] \in {"checkLeft", "unlock"},
                      left = 0, NEW w \in Workers
               PROVE  pc[w] \notin InBatch /\ seen[w] = batch
    BY DEF LeftIsExact, InBatch
  <2>1. Busy = {}
    <3>1. CASE pc[c] = "checkLeft"
      BY <3>1, BusyFinite, FS_EmptySet DEF IInv, ILeft, Live
    <3>2. CASE pc[c] = "unlock"
      BY <3>2 DEF IInv, ILeft, IOwner, Live, InDispatch
    <3> QED BY <3>1, <3>2
  <2> QED BY <2>1 DEF Busy
<1> QED BY <1>1, Invariance, PTL

\* No worker ever misses a batch.
THEOREM NoBatchSkippedHolds ==
  ASSUME IntraPoolAssumption, Workers # {} PROVE Spec => []NoBatchSkipped
<1>1. IInv => NoBatchSkipped
  BY DEF IInv, IWorker, NoBatchSkipped
<1> QED BY <1>1, Invariance, PTL

-----------------------------------------------------------------------------
(* The pool implements the parallel loop of ParallelFor. *)

\* A step that crosses no border of run() and executes nothing is invisible.
LEMMA InvisibleStep ==
  ASSUME \A c \in Callers : /\ (pc'[c] \in Outside) <=> (pc[c] \in Outside)
                            /\ lim'[c] = lim[c],
         exec' = exec
  PROVE  UNCHANGED Abstract!vars
  BY DEF Abstract!vars

\* A step that only completes a fresh f(i) below n is an Execute step.
LEMMA ExecuteStep ==
  ASSUME IntraPoolAssumption, IInv, NEW c \in Callers, NEW i \in Indices,
         pc[c] \notin Outside, exec[c][i] = 0, i < lim[c], Executed(c, i),
         \A d \in Callers : /\ (pc'[d] \in Outside) <=> (pc[d] \in Outside)
                            /\ lim'[d] = lim[d]
  PROVE  Abstract!Execute(c)
<1>1. exec' = [exec EXCEPT ![c][i] = 1]
  BY DEF Executed, IInv, ITypes, TypeOK
<1>2. i \in 0..(lim[c] - 1)
  BY DEF IntraPoolAssumption, Indices, IInv, ITypes, TypeOK, Threads
<1> QED BY <1>1, <1>2 DEF Abstract!Execute

\* A return of run() is an End step: the history is complete.
LEMMA EndStep ==
  ASSUME IntraPoolAssumption, IInv, NEW c \in Callers, pc[c] \in {"return", "unlock"},
         pc' = [pc EXCEPT ![c] = "returned"], lim' = lim, exec' = exec
  PROVE  Abstract!End(c)
<1>1. pc[c] \notin Outside /\ lim[c] \in Nat /\ lim[c] - 1 \in 0..MaxN
  BY DEF Outside, IInv, IFrame, ITypes, TypeOK, Threads, Indices
<1>2. \A i \in 0..(lim[c] - 1) : i \in Indices /\ i < lim[c]
  BY <1>1 DEF IntraPoolAssumption, Indices
<1>3. \A i \in 0..(lim[c] - 1) : exec[c][i] = 1
  BY <1>2 DEF IInv, IExec, ExecOf
<1>4. pc'[c] \in Outside /\ \A d \in Callers \ {c} : pc'[d] = pc[d]
  BY DEF Outside, IInv, ITypes, TypeOK, Threads
<1>5. [d \in Callers |-> IF pc'[d] \in Outside THEN "out" ELSE "in"] =
        [[d \in Callers |-> IF pc[d] \in Outside THEN "out" ELSE "in"]
           EXCEPT ![c] = "out"]
  BY <1>4
<1> QED BY <1>1, <1>3, <1>5 DEF Abstract!End

LEMMA RefinementInit == ASSUME IntraPoolAssumption, Init PROVE Abstract!Init
  BY DEF IntraPoolAssumption, Init, Abstract!Init, Abstract!Never, Outside, Threads, Indices

\* An Enter step is a Begin step.
LEMMA BeginStep ==
  ASSUME IntraPoolAssumption, IInv, MaxN > 0, Workers # {}, NEW c \in Callers, NEW n \in 0..MaxN, Enter(c, n)
  PROVE  Abstract!Begin(c)
<1> USE DEF IntraPoolAssumption, Threads
<1>1. /\ pc[c] \in Outside /\ pc'[c] \notin Outside
      /\ \A d \in Callers \ {c} : pc'[d] = pc[d]
  BY DEF Enter, Outside, IInv, ITypes, TypeOK
<1>2. /\ lim'[c] \in 1..MaxN
      /\ \A d \in Callers \ {c} : lim'[d] = lim[d]
  BY DEF Enter, IInv, ITypes, TypeOK
<1>3. exec' = [exec EXCEPT ![c] = [i \in Indices |-> 0]]
  BY DEF Enter
<1>5. [d \in Callers |-> IF pc'[d] \in Outside THEN "out" ELSE "in"] =
        [[d \in Callers |-> IF pc[d] \in Outside THEN "out" ELSE "in"]
           EXCEPT ![c] = "in"]
  <2>1. \A d \in Callers : (IF pc'[d] \in Outside THEN "out" ELSE "in") =
          IF d = c THEN "in" ELSE IF pc[d] \in Outside THEN "out" ELSE "in"
    BY <1>1
  <2> QED BY <2>1
<1>6. [d \in Callers |-> lim'[d]] = [[d \in Callers |-> lim[d]] EXCEPT ![c] = lim'[c]]
  BY <1>2
<1> QED BY <1>1, <1>2, <1>3, <1>5, <1>6 DEF Abstract!Begin, Abstract!Never, Indices

LEMMA RefinementStep ==
  ASSUME IntraPoolAssumption, Workers # {}, MaxN > 0, PanicThreads \subseteq Workers,
         runLock # "poisoned", IInv, [Next]_vars
  PROVE  [Abstract!Next]_(Abstract!vars)
<1> USE DEF IntraPoolAssumption, Threads
<1>t. pc \in [Threads -> PCs] /\ lim \in [Threads -> Nat]
  BY DEF IInv, ITypes, TypeOK
<1>1. CASE UNCHANGED vars
  BY <1>1, InvisibleStep DEF vars
<1>2. ASSUME NEW c \in Callers, NEW n \in 0..MaxN, Enter(c, n)
      PROVE  [Abstract!Next]_(Abstract!vars)
  BY <1>2, BeginStep DEF Abstract!Next
<1>3. ASSUME NEW c \in Callers, Single(c) PROVE [Abstract!Next]_(Abstract!vars)
  <2>1. /\ pc[c] = "single" /\ pc' = [pc EXCEPT ![c] = "return"] /\ lim' = lim
        /\ Executed(c, 0) /\ lim[c] = 1 /\ 0 \in Indices
    BY <1>3 DEF Single, Goto, IInv, IFrame, Indices
  <2>2. exec[c][0] = 0
    BY <2>1 DEF IInv, IExec, ExecOf
  <2>3. Abstract!Execute(c)
    BY <1>t, <2>1, <2>2, ExecuteStep DEF Outside
  <2> QED BY <2>3 DEF Abstract!Next
<1>4. ASSUME NEW c \in Callers, Serial(c) PROVE [Abstract!Next]_(Abstract!vars)
  <2>1. /\ pc[c] = "serial" /\ lim' = lim /\ Executed(c, idx[c])
        /\ pc' = [pc EXCEPT ![c] = IF idx[c] + 1 < lim[c] THEN "serial" ELSE "return"]
    BY <1>4 DEF Serial, Goto
  <2>2. /\ idx[c] \in Nat /\ lim[c] \in Nat /\ idx[c] < lim[c]
        /\ lim[c] - 1 \in 0..MaxN
    BY <2>1 DEF IInv, IFrame, ITypes, TypeOK, Indices
  <2>3. idx[c] \in Indices
    BY <2>2 DEF Indices
  <2>4. exec[c][idx[c]] = 0
    BY <2>1, <2>2, <2>3 DEF IInv, IExec, ExecOf
  <2>5. Abstract!Execute(c)
    BY <1>t, <2>1, <2>2, <2>3, <2>4, ExecuteStep DEF Outside
  <2> QED BY <2>5 DEF Abstract!Next
<1>5. ASSUME NEW c \in Callers, Return(c) \/ Unlock(c)
      PROVE  [Abstract!Next]_(Abstract!vars)
  BY <1>5, EndStep DEF Return, Unlock, Goto, Abstract!Next
<1>6. ASSUME NEW c \in Callers,
             TryLock(c) \/ StoreJob(c) \/ Publish(c) \/ LockDone(c)
               \/ CheckLeft(c) \/ BlockDone(c)
      PROVE  [Abstract!Next]_(Abstract!vars)
  <2>1. /\ exec' = exec /\ lim' = lim
        /\ \A d \in Callers : (pc'[d] \in Outside) <=> (pc[d] \in Outside)
    BY <1>t, <1>6 DEF TryLock, StoreJob, Publish, LockDone, CheckLeft, BlockDone,
       Goto, Outside
  <2> QED BY <2>1, InvisibleStep
<1>7. ASSUME NEW w \in Workers, WorkerStep(w) PROVE [Abstract!Next]_(Abstract!vars)
  <2>1. /\ exec' = exec
        /\ \A d \in Callers : lim'[d] = lim[d]
        /\ \A d \in Callers : (pc'[d] \in Outside) <=> (pc[d] \in Outside)
    BY <1>t, <1>7 DEF WorkerStep, LockStart, ReadJob, Finish, Notify, Goto, Outside
  <2> QED BY <2>1, InvisibleStep
<1>8. ASSUME NEW t \in Threads, Claim(t) \/ SpuriousWake(t)
      PROVE  [Abstract!Next]_(Abstract!vars)
  <2>1. /\ exec' = exec /\ lim' = lim
        /\ \A d \in Callers : (pc'[d] \in Outside) <=> (pc[d] \in Outside)
    BY <1>t, <1>8 DEF Claim, SpuriousWake, Goto, Outside
  <2> QED BY <2>1, InvisibleStep
<1>9. ASSUME NEW t \in Threads, Call(t) PROVE [Abstract!Next]_(Abstract!vars)
  <2>1. PICK o \in Callers :
          /\ pc[o] \in Live /\ env[t] = EnvOf(o) /\ lim[t] = lim[o]
          /\ lim[o] - 1 \in Indices
    BY <1>9, LoopOwner DEF Call, Goto
  <2>2. pc[t] = "call" /\ pc' = [pc EXCEPT ![t] = "claim"] /\ lim' = lim
    BY <1>9 DEF Call, Goto
  <2>3. Executed(o, idx[t])
    BY <1>9, <2>1 DEF Call, Alive, EnvOf, Live, InDispatch
  <2>4. idx[t] \in Nat /\ idx[t] < lim[o] /\ idx[t] < next
    BY <2>1, <2>2 DEF IInv, IClaim, InF, ITypes, TypeOK
  <2>5. idx[t] \in Indices
    BY <1>t, <2>1, <2>4 DEF Indices
  <2>6. exec[o][idx[t]] = 0
    BY <2>1, <2>2, <2>5 DEF IInv, IExec, ExecOf, Running, InF
  <2>7. pc[o] \notin Outside
    BY <2>1 DEF Live, Outside
  <2>8. \A d \in Callers : (pc'[d] \in Outside) <=> (pc[d] \in Outside)
    BY <1>t, <2>2 DEF Outside
  <2>9. Abstract!Execute(o)
    BY <2>2, <2>3, <2>4, <2>5, <2>6, <2>7, <2>8, ExecuteStep
  <2> QED BY <2>9 DEF Abstract!Next
<1>10. ASSUME NEW t \in PanicThreads, Panic(t) PROVE [Abstract!Next]_(Abstract!vars)
  <2>1. /\ exec' = exec /\ lim' = lim
        /\ \A d \in Callers : (pc'[d] \in Outside) <=> (pc[d] \in Outside)
    BY <1>t, <1>10 DEF Panic
  <2> QED BY <2>1, InvisibleStep
<1> QED BY <1>1, <1>2, <1>3, <1>4, <1>5, <1>6, <1>7, <1>8, <1>9, <1>10
        DEF Next, RunStep, LoopStep

\* The pool, with workers of whom any may panic, is a parallel for loop whose
\* every index is executed once between the call and the return.
THEOREM Refinement ==
  ASSUME IntraPoolAssumption, Workers # {}, MaxN > 0, PanicThreads \subseteq Workers
  PROVE  Spec => ImplementsParallelFor
<1>1. Init => Abstract!Init
  BY RefinementInit
<1>2. IInv /\ Healthy /\ [Next]_vars => [Abstract!Next]_(Abstract!vars)
  BY RefinementStep DEF Healthy
<1> QED BY <1>1, <1>2, Invariance, NeverPoisoned, PTL DEF Spec, Abstract!Spec, ImplementsParallelFor
=============================================================================
