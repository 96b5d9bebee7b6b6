---------------------------- MODULE WindowFanOut ----------------------------
(***************************************************************************)
(* PowersetNative::infer_windows of src/segmentation/native.rs: the windows  *)
(* of a recording are cut into packs, scoped threads run the packs, and the   *)
(* caller joins the threads and puts the rows back in window order.          *)
(*                                                                         *)
(* A short recording has one pack per thread, appended in the order of the     *)
(* joins; a long one has a queue of small packs, whose rows go back by offset. *)
(* The row of window i is i itself.  A pack can fail, and a thread can panic.  *)
(***************************************************************************)
EXTENDS Integers, Sequences, SequencesExt

CONSTANTS
  WindowCounts,  \* lengths of a recording, in windows
  ThreadCounts,  \* the share of the cores a file gets
  StaticMax,     \* the largest pack of the static split (16)
  QueuePack,     \* the pack of the queue (4)
  MaxThreads     \* bound on the threads: the largest of ThreadCounts

WindowFanOutAssumption ==
  /\ MaxThreads \in Nat \ {0} /\ ThreadCounts \subseteq 1 .. MaxThreads
  /\ WindowCounts \subseteq Nat
  /\ StaticMax \in Nat \ {0} /\ QueuePack \in Nat \ {0}

VARIABLES
  packs,   \* the packs nobody has taken
  worker,  \* the state of every thread
  held,    \* the pack a thread has in hand
  local,   \* a thread's rows, pack by pack
  next,    \* the thread the caller joins next
  slots,   \* the caller's rows
  call     \* the call: its windows, its path and what it returned

vars == <<packs, worker, held, local, next, slots, call>>
-----------------------------------------------------------------------------
Ceil(a, b) == (a + b - 1) \div b
Smaller(a, b) == IF a < b THEN a ELSE b

NoRow == 0
NoPack == [off |-> 0, len |-> 0]

(* specs.chunks(chunk), each with the offset of its first window.             *)
Chunks(n, chunk) ==
  [k \in 1 .. Ceil(n, chunk) |->
     [off |-> (k - 1) * chunk, len |-> Smaller(chunk, n - (k - 1) * chunk)]]

(* The pack size: a thread's share, or small packs when that is too much.     *)
PackSize(n, threads) == IF Ceil(n, threads) <= StaticMax THEN Ceil(n, threads) ELSE QueuePack

Static(n, threads) == Ceil(n, PackSize(n, threads)) <= threads

\* A plausible bug: a row is named by its place in the pack.
RowsByPlace(pack) == [i \in 1 .. pack.len |-> i]

(* infer_chunk: one row per window of the pack, in order.                     *)
InferChunk(pack) == [i \in 1 .. pack.len |-> pack.off + i]

Init ==
  /\ packs = <<>>
  /\ worker = [w \in 1 .. MaxThreads |-> "none"]
  /\ held = [w \in 1 .. MaxThreads |-> NoPack]
  /\ local = [w \in 1 .. MaxThreads |-> <<>>]
  /\ next = 1
  /\ slots = <<>>
  /\ call = [n |-> 0, static |-> FALSE, ret |-> "idle"]

(* No window, or one thread: nothing is spawned.                              *)
Alone(n) ==
  /\ \E ok \in (IF n = 0 THEN {TRUE} ELSE BOOLEAN) :
       /\ slots' = IF ok THEN InferChunk([off |-> 0, len |-> n]) ELSE <<>>
       /\ call' = [n |-> n, static |-> TRUE, ret |-> IF ok THEN "ok" ELSE "failed"]
  /\ UNCHANGED <<packs, worker, held, local, next>>

(* The static split gives thread k pack k; the queue's threads take their own. *)
Spawn(n, threads) ==
  LET chunks == Chunks(n, PackSize(n, threads))
      static == Static(n, threads)
  IN /\ packs' = IF static THEN <<>> ELSE chunks
     /\ worker' = [w \in 1 .. MaxThreads |->
          IF static THEN IF w <= Len(chunks) THEN "busy" ELSE "none"
          ELSE IF w <= threads THEN "loop" ELSE "none"]
     /\ held' = [w \in 1 .. MaxThreads |->
          IF static /\ w <= Len(chunks) THEN chunks[w] ELSE NoPack]
     /\ slots' = IF static THEN <<>> ELSE [i \in 1 .. n |-> NoRow]
     /\ call' = [n |-> n, static |-> static, ret |-> "joining"]
     /\ UNCHANGED <<local, next>>

InferWindows ==
  /\ call.ret = "idle"
  /\ \E n \in WindowCounts, share \in ThreadCounts :
       LET threads == Smaller(share, n)
       IN \/ threads <= 1 /\ Alone(n)
          \/ threads > 1 /\ Spawn(n, threads)
-----------------------------------------------------------------------------
(* jobs.lock().remove(0): packs are taken in order.                           *)
TakePack(w) ==
  /\ worker[w] = "loop"
  /\ packs # <<>>
  /\ held' = [held EXCEPT ![w] = Head(packs)]
  /\ packs' = Tail(packs)
  /\ worker' = [worker EXCEPT ![w] = "busy"]
  /\ UNCHANGED <<local, next, slots, call>>

NoMorePacks(w) ==
  /\ worker[w] = "loop"
  /\ packs = <<>>
  /\ worker' = [worker EXCEPT ![w] = "done"]
  /\ UNCHANGED <<packs, held, local, next, slots, call>>

FinishPack(w) ==
  /\ worker[w] = "busy"
  /\ local' = [local EXCEPT ![w] = Append(@, [off |-> held[w].off, rows |-> InferChunk(held[w])])]
  /\ worker' = [worker EXCEPT ![w] = IF call.static THEN "done" ELSE "loop"]
  /\ UNCHANGED <<packs, held, next, slots, call>>

(* A pack that fails, or a panic, ends the thread and loses its rows.         *)
FailPack(w) ==
  /\ worker[w] = "busy"
  /\ \E how \in {"failed", "panicked"} : worker' = [worker EXCEPT ![w] = how]
  /\ UNCHANGED <<packs, held, local, next, slots, call>>

Work(w) == TakePack(w) \/ NoMorePacks(w) \/ FinishPack(w) \/ FailPack(w)
-----------------------------------------------------------------------------
Spawned == {w \in 1 .. MaxThreads : worker[w] # "none"}
Ended(w) == worker[w] \in {"done", "failed", "panicked"}

\* A plausible bug: the rows of the queue are appended like those of the split.
Appended(old, results) == FoldLeft(LAMBDA acc, r : acc \o r.rows, old, results)

(* all.extend(rows), of the one pack a thread of the split has, or, for the    *)
(* packs of the queue, which are disjoint, slots[off + i] = Some(row).        *)
PutRows(old, results) ==
  IF call.static THEN old \o results[1].rows
  ELSE [i \in DOMAIN old |->
          LET here == {k \in DOMAIN results : i - results[k].off \in DOMAIN results[k].rows}
              r == results[CHOOSE k \in here : TRUE]
          IN IF here = {} THEN old[i] ELSE r.rows[i - r.off]]

(* The threads are joined in the order they were spawned; the first that       *)
(* failed or panicked decides the result.                                    *)
Join ==
  /\ call.ret = "joining"
  /\ next \in Spawned
  /\ Ended(next)
  /\ slots' = IF worker[next] = "done" THEN PutRows(slots, local[next]) ELSE slots
  /\ call' = [call EXCEPT !.ret = CASE worker[next] = "done" -> "joining"
                                    [] worker[next] = "failed" -> "leave failed"
                                    [] worker[next] = "panicked" -> "leave panicked"]
  /\ next' = next + 1
  /\ UNCHANGED <<packs, worker, held, local>>

(* All joined: a slot without a row would be "dropped a pack".                *)
Collect ==
  /\ call.ret = "joining"
  /\ next \notin Spawned
  /\ call' = [call EXCEPT !.ret =
       IF \E i \in DOMAIN slots : slots[i] = NoRow THEN "leave dropped" ELSE "leave ok"]
  /\ UNCHANGED <<packs, worker, held, local, next, slots>>

\* A plausible bug: the scope waits for the threads that did well.
AllSucceeded == \A w \in Spawned : worker[w] = "done"

\* thread::scope waits for the threads that were not joined.
AllEnded == \A w \in Spawned : Ended(w)

(* One that panicked and was not joined makes the scope panic in its turn.     *)
Leave ==
  /\ call.ret \in {"leave ok", "leave failed", "leave panicked", "leave dropped"}
  /\ AllEnded
  /\ call' = [call EXCEPT !.ret =
       IF \E w \in Spawned : w >= next /\ worker[w] = "panicked" THEN "unwound"
       ELSE CASE @ = "leave ok" -> "ok" [] @ = "leave failed" -> "failed"
              [] @ = "leave panicked" -> "panicked" [] @ = "leave dropped" -> "dropped"]
  /\ UNCHANGED <<packs, worker, held, local, next, slots>>

Caller == Join \/ Collect \/ Leave

Next == InferWindows \/ Caller \/ \E w \in 1 .. MaxThreads : Work(w)

Spec == Init /\ [][Next]_vars

-----------------------------------------------------------------------------
(* Whatever thread ran a pack and whenever it ended, the rows a call returns    *)
(* are those of its windows, in order, and none is missing; the error "dropped  *)
(* a pack" is never returned.                                                *)
RowsAreTheWindows ==
  /\ call.ret = "ok" => slots = [i \in 1 .. call.n |-> i]
  /\ call.ret # "dropped"

-----------------------------------------------------------------------------
(* Why: where every window is on its way from the packs to the slots           *)

Packs == [off : Nat, len : Nat]

TypeOK ==
  /\ packs \in Seq(Packs)
  /\ worker \in [1 .. MaxThreads -> {"none", "loop", "busy", "done", "failed", "panicked"}]
  /\ held \in [1 .. MaxThreads -> Packs]
  /\ local \in [1 .. MaxThreads -> Seq([off : Nat, rows : Seq(Nat)])]
  /\ next \in 1 .. (MaxThreads + 1)
  /\ slots \in Seq(Nat)
  /\ call \in [n : Nat, static : BOOLEAN,
               ret : {"idle", "joining", "leave ok", "leave failed", "leave panicked",
                      "leave dropped", "ok", "failed", "panicked", "dropped", "unwound"}]

(* Before the call nothing runs, and a thread that is not spawned has nothing. *)
StartsClean ==
  /\ \A w \in 1 .. MaxThreads : worker[w] = "none" => local[w] = <<>>
  /\ call.ret = "idle" =>
       /\ next = 1 /\ packs = <<>> /\ held[1] = NoPack
       /\ \A w \in 1 .. MaxThreads : worker[w] = "none"

(* The spawned threads are the first ones, and those joined did well.          *)
JoinedInOrder ==
  /\ \A w \in Spawned : \A v \in 1 .. w : v \in Spawned
  /\ call.ret = "joining" =>
       /\ 1 \in Spawned
       /\ \A w \in 1 .. (next - 1) : worker[w] = "done"

(* Every row is of the window it says, and a slot's row is its own.            *)
RowsAreOwn ==
  /\ \A w \in 1 .. MaxThreads : \A k \in DOMAIN local[w] : \A j \in DOMAIN local[w][k].rows :
       local[w][k].rows[j] = local[w][k].off + j
  /\ \A i \in DOMAIN slots : slots[i] = i \/ (~call.static /\ slots[i] = NoRow)
  /\ ~call.static => Len(slots) = call.n
  /\ call.ret \in {"leave ok", "ok"} => Len(slots) = call.n /\ \A i \in DOMAIN slots : slots[i] = i
  /\ call.ret \notin {"leave dropped", "dropped"}

(* The packs of the static split follow each other, each with one thread, and  *)
(* the slots end where the next thread's pack begins.                         *)
SplitIsInOrder ==
  call.static =>
    /\ packs = <<>> /\ held[1].off = 0
    /\ \A w \in Spawned :
         /\ held[w].off + held[w].len = IF w + 1 \in Spawned THEN held[w + 1].off ELSE call.n
         /\ worker[w] # "loop"
         /\ worker[w] = "done" => local[w] = <<[off |-> held[w].off, rows |-> InferChunk(held[w])]>>
         /\ worker[w] = "busy" => local[w] = <<>>
    /\ call.ret = "joining" =>
         Len(slots) = IF next \in Spawned THEN held[next].off ELSE call.n

PackHas(p, i) == i \in (p.off + 1) .. (p.off + p.len)
RowsHave(r, i) == i - r.off \in DOMAIN r.rows

(* Where the row of a window of the queue is: put in its slot, still to be     *)
(* taken, in a thread's hands or among the rows of a thread not joined yet;    *)
(* or a thread failed, and the call will not succeed.                         *)
Underway(i) ==
  \/ slots[i] = i
  \/ \E k \in DOMAIN packs : PackHas(packs[k], i)
  \/ \E w \in 1 .. MaxThreads : worker[w] = "busy" /\ PackHas(held[w], i)
  \/ \E w \in 1 .. MaxThreads : w >= next /\ \E k \in DOMAIN local[w] : RowsHave(local[w][k], i)
  \/ \E w \in 1 .. MaxThreads : worker[w] \in {"failed", "panicked"}

QueueDropsNone ==
  ~call.static =>
    /\ (\E w \in 1 .. MaxThreads : worker[w] = "done") => packs = <<>>
    /\ call.ret = "joining" => \A i \in 1 .. call.n : Underway(i)

IInv ==
  /\ TypeOK /\ StartsClean /\ JoinedInOrder /\ RowsAreOwn /\ SplitIsInOrder /\ QueueDropsNone
=============================================================================
