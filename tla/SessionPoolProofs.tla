------------------------- MODULE SessionPoolProofs -------------------------
(***************************************************************************)
(* Proofs about SessionPool, for every number of files, threads, sessions, *)
(* items and batches: a session is with one thread or in the stack, once,  *)
(* on every way out of an inference, and what a call returns are the       *)
(* results of its own items, in order.                                     *)
(***************************************************************************)
EXTENDS SessionPool, SequenceTheorems, FiniteSetTheorems, TLAPS

States == {"none", "poll", "run", "drop", "drop failed", "drop panicked", "done", "failed", "panicked"}
WorkerRecords == [state : States, session : Sessions \cup {NoSession}, chunk : Seq(Nat), results : Seq(Nat)]
Rets == {"idle", "joining", "leave ok", "leave failed", "leave panicked", "ok", "failed", "panicked"}
CallRecords == [kind : {"none", "segment", "embed"}, n : Nat, batch : Nat, out : Seq(Nat), ret : Rets]

LEMMA Typed ==
  TypeOK <=> /\ free \in Seq(Sessions) /\ call \in [Files -> CallRecords]
             /\ worker \in [Files -> [Threads -> WorkerRecords]]
             /\ next \in [Files -> 1 .. (PoolThreads + 1)]
BY DEF TypeOK, States, WorkerRecords, Rets, CallRecords

(* The stack starts with every session once.                               *)
LEMMA AllFree ==
  ASSUME SessionPoolAssumption, free = SetToSeq(Sessions)
  PROVE  /\ free \in Seq(Sessions)
         /\ \A i, j \in DOMAIN free : free[i] = free[j] => i = j
         /\ \A s \in Sessions : \E i \in DOMAIN free : free[i] = s
<1> DEFINE n == Cardinality(Sessions)
<1>1. n \in Nat /\ ExistsBijection(1 .. n, Sessions)
  BY FS_CardinalityType DEF SessionPoolAssumption
<1>2. PICK b : b \in Bijection(1 .. n, Sessions)
  BY <1>1 DEF ExistsBijection
<1>3. b \in [1 .. n -> Sessions] /\ IsInjective(b)
  BY <1>2 DEF Bijection, Injection
<1>4. free \in [1 .. n -> Sessions] /\ IsInjective(free)
  BY <1>3 DEF SetToSeq
<1> HIDE DEF n
<1>5. free \in Seq(Sessions)
  BY <1>1, <1>4, SeqDef
<1>6. ASSUME NEW s \in Sessions PROVE \E i \in DOMAIN free : free[i] = s
  <2> DEFINE used == {free[i] : i \in 1 .. n}
  <2>1. used \subseteq Sessions
    BY <1>4
  <2>2. free \in [1 .. n -> used] /\ \A u \in used : \E i \in 1 .. n : free[i] = u
    BY <1>4
  <2>3. free \in Bijection(1 .. n, used)
    BY <1>4, <2>2 DEF Bijection, Injection, Surjection
  <2>4. IsFiniteSet(1 .. n) /\ Cardinality(1 .. n) = n
    BY <1>1, FS_Interval
  <2>5. Cardinality(used) = n
    BY <2>3, <2>4, FS_Bijection DEF ExistsBijection
  <2> HIDE DEF used
  <2>6. used = Sessions
    BY <2>1, <2>5, FS_Subset DEF SessionPoolAssumption, n
  <2> QED
    BY <1>4, <2>6 DEF used
<1> QED
  BY <1>4, <1>5, <1>6 DEF IsInjective

LEMMA InitInv == ASSUME SessionPoolAssumption, Init PROVE IInv
<1> USE DEF Init
<1>1. Idle \in WorkerRecords /\ Idle.session = NoSession /\ Idle.state = "none"
      /\ Idle.results = <<>> /\ Idle.chunk = <<>>
  BY EmptySeq DEF Idle, WorkerRecords, States
<1>2. TypeOK
  <2>1. call \in [Files -> CallRecords]
    BY EmptySeq DEF CallRecords, Rets
  <2>2. worker \in [Files -> [Threads -> WorkerRecords]]
    BY <1>1
  <2>3. next \in [Files -> 1 .. (PoolThreads + 1)]
    BY DEF SessionPoolAssumption
  <2> QED
    BY <2>1, <2>2, <2>3, AllFree, Typed
<1>3. HeldWhileUsed
  BY <1>1 DEF HeldWhileUsed, Using
<1>4. OnePlace
  <2>1. \A i \in DOMAIN free : free[i] \in Sessions
    BY AllFree, LenProperties, ElementOfSeq
  <2> QED
    BY <1>1, <2>1, AllFree DEF OnePlace, NoSession, SessionPoolAssumption
<1>5. StartsClean /\ ChunksFollow
  BY DEF StartsClean, ChunksFollow
<1>6. ResultsAreOwn
  BY <1>1 DEF ResultsAreOwn
<1>7. OutInOrder
  <2>1. \A f \in Files : call[f].out = <<>> /\ call[f].ret = "idle" /\ DOMAIN call[f].out = {}
    OBVIOUS
  <2> QED
    BY <2>1 DEF OutInOrder
<1> QED
  BY <1>2, <1>3, <1>4, <1>5, <1>6, <1>7 DEF IInv
-----------------------------------------------------------------------------
LEMMA CeilBounds ==
  ASSUME NEW n \in Nat \ {0}, NEW c \in Nat \ {0}
  PROVE  /\ Ceil(n, c) \in Nat \ {0}
         /\ n <= Ceil(n, c) * c
<1> DEFINE q == (n + c - 1) \div c
<1>1. q \in Nat /\ q * c <= n + c - 1 /\ n + c - 1 < q * c + c
  OBVIOUS
<1> HIDE DEF q
<1>2. q # 0
  BY <1>1
<1> QED
  BY <1>1, <1>2 DEF Ceil, q

(* Chunk w is the items after those of the chunks before it.               *)
LEMMA ChunkItems ==
  ASSUME NEW n \in Nat \ {0}, NEW threads \in Nat \ {0}, NEW w \in Nat \ {0}
  PROVE  LET size == Ceil(n, threads)
             from == (w - 1) * size
             c == ChunkOf(n, threads, w)
         IN /\ size \in Nat \ {0} /\ from \in Nat
            /\ c \in Seq(Nat) /\ \A k \in DOMAIN c : c[k] = from + k
            /\ Len(c) = IF from < n THEN Smaller(size, n - from) ELSE 0
            /\ from < n => Len(c) # 0
<1> DEFINE size == Ceil(n, threads)
           from == (w - 1) * size
           m == IF from < n THEN Smaller(size, n - from) ELSE 0
           c == ChunkOf(n, threads, w)
<1>1. size \in Nat \ {0}
  BY CeilBounds
<1> HIDE DEF size
<1>2. from \in Nat
  <2>1. w - 1 \in Nat
    OBVIOUS
  <2> QED
    BY <1>1, <2>1
<1>3. c = [k \in 1 .. m |-> from + k]
  BY DEF ChunkOf, size
<1> HIDE DEF from, c
<1>4. m \in Nat /\ (from < n => m # 0)
  BY <1>1, <1>2 DEF Smaller
<1> HIDE DEF m
<1>5. c \in [1 .. m -> Nat]
  BY <1>2, <1>3
<1>6. c \in Seq(Nat)
  BY <1>4, <1>5, SeqDef
<1>7. DOMAIN c = 1 .. m /\ DOMAIN c = 1 .. Len(c) /\ Len(c) \in Nat
  BY <1>5, <1>6, LenProperties
<1>8. Len(c) = m
  BY <1>4, <1>7
<1>9. \A k \in DOMAIN c : c[k] = from + k
  BY <1>3
<1> QED
  BY <1>1, <1>2, <1>4, <1>6, <1>8, <1>9 DEF size, from, m, c

(* Its last item comes before the first of the next chunk, or is the last.  *)
LEMMA ChunkThenNext ==
  ASSUME NEW n \in Nat \ {0}, NEW threads \in Nat \ {0}, NEW w \in Nat \ {0},
         ChunkOf(n, threads, w) # <<>>
  PROVE  LET c == ChunkOf(n, threads, w)
             d == ChunkOf(n, threads, w + 1)
         IN /\ Len(c) # 0 /\ \A k \in DOMAIN c : c[k] = c[1] + k - 1
            /\ w >= threads => d = <<>>
            /\ c[1] + Len(c) = IF d # <<>> THEN d[1] ELSE n + 1
<1> DEFINE size == Ceil(n, threads)
           from == (w - 1) * size
           upto == w * size
           c == ChunkOf(n, threads, w)
           d == ChunkOf(n, threads, w + 1)
<1>1. /\ size \in Nat \ {0} /\ from \in Nat
      /\ c \in Seq(Nat) /\ \A k \in DOMAIN c : c[k] = from + k
      /\ Len(c) = IF from < n THEN Smaller(size, n - from) ELSE 0
  BY ChunkItems
<1>2. w + 1 \in Nat \ {0} /\ (w + 1) - 1 = w
  OBVIOUS
<1>3. /\ d \in Seq(Nat) /\ \A k \in DOMAIN d : d[k] = upto + k
      /\ Len(d) = IF upto < n THEN Smaller(size, n - upto) ELSE 0
      /\ upto < n => Len(d) # 0
  <2>1. PICK v \in Nat \ {0} : v = w + 1 /\ v - 1 = w
    BY <1>2
  <2> DEFINE from2 == (v - 1) * size
             d2 == ChunkOf(n, threads, v)
  <2>2. /\ d2 \in Seq(Nat) /\ \A k \in DOMAIN d2 : d2[k] = from2 + k
        /\ Len(d2) = IF from2 < n THEN Smaller(size, n - from2) ELSE 0
    BY ChunkItems, ZenonT(30)
  <2>4. from2 < n => Len(d2) # 0
    BY ChunkItems
  <2>3. from2 = upto /\ d2 = d
    BY <2>1
  <2> HIDE DEF from2, upto, d2, d, size
  <2> QED
    BY <2>2, <2>3, <2>4
<1>4. n <= size * threads
  BY CeilBounds
<1> HIDE DEF size, c, d
<1>5. from = upto - size /\ upto \in Nat
  BY <1>1
<1>6. w >= threads => upto >= n
  <2>1. w >= threads => w * size >= threads * size
    BY <1>1
  <2>2. threads * size = size * threads /\ threads * size \in Nat
    BY <1>1
  <2> QED
    BY <1>4, <1>5, <2>1, <2>2
<1> HIDE DEF from, upto
<1>7. Len(c) # 0 /\ DOMAIN c = 1 .. Len(c) /\ Len(c) \in Nat
  BY <1>1, LenProperties, EmptySeq DEF c
<1>8. from < n /\ Len(c) = Smaller(size, n - from) /\ c[1] = from + 1
  BY <1>1, <1>7, SMTT(20)
<1>9. \A k \in DOMAIN c : c[k] = c[1] + k - 1
  BY <1>1, <1>7, <1>8
<1>10. CASE upto < n
  <2>1. Len(d) # 0 /\ DOMAIN d = 1 .. Len(d) /\ Len(d) \in Nat
    BY <1>3, <1>10, LenProperties
  <2>2. d # <<>> /\ d[1] = upto + 1
    BY <1>3, <2>1
  <2>3. c[1] + Len(c) = upto + 1
    BY <1>1, <1>5, <1>8, <1>10 DEF Smaller
  <2> QED
    BY <1>6, <1>7, <1>9, <1>10, <1>5, <2>2, <2>3 DEF c, d
<1>11. CASE ~(upto < n)
  <2>1. d = <<>>
    BY <1>3, <1>11, EmptySeq
  <2>2. c[1] + Len(c) = n + 1
    BY <1>1, <1>5, <1>8, <1>11 DEF Smaller
  <2> QED
    BY <1>7, <1>9, <2>1, <2>2 DEF c, d
<1> QED
  BY <1>10, <1>11

LEMMA FirstChunk ==
  ASSUME NEW n \in Nat \ {0}, NEW threads \in Nat \ {0}
  PROVE  ChunkOf(n, threads, 1) # <<>> /\ ChunkOf(n, threads, 1)[1] = 1
<1> DEFINE c == ChunkOf(n, threads, 1)
           from == (1 - 1) * Ceil(n, threads)
<1>1. /\ c \in Seq(Nat) /\ \A k \in DOMAIN c : c[k] = from + k
      /\ from < n => Len(c) # 0
  BY ChunkItems
<1>2. from = 0
  BY CeilBounds
<1> HIDE DEF c, from
<1>3. Len(c) # 0 /\ DOMAIN c = 1 .. Len(c) /\ Len(c) \in Nat
  BY <1>1, <1>2, LenProperties
<1>4. c # <<>> /\ c[1] = 1
  BY <1>1, <1>2, <1>3
<1> QED
  BY <1>4 DEF c
-----------------------------------------------------------------------------
(* A call starts its threads without a session.                            *)
LEMMA StartInv ==
  ASSUME SessionPoolAssumption, IInv, NEW f \in Files, Start(f)
  PROVE  IInv'
<1> USE DEF IInv
<1>1. PICK kind \in {"segment", "embed"}, n \in ItemCounts, threads \in Threads,
           batch \in BatchSizes, forceOne \in BOOLEAN :
        /\ call' = [call EXCEPT ![f] =
            [kind |-> kind, n |-> n, batch |-> EffectiveBatch(forceOne, batch), ret |-> "joining", out |-> <<>>]]
        /\ worker' = [worker EXCEPT ![f] = [w \in Threads |->
            IF ChunkOf(n, threads, w) = <<>> THEN Idle
            ELSE [Idle EXCEPT !.state = "poll", !.chunk = ChunkOf(n, threads, w)]]]
  <2>1. PICK kind \in {"segment", "embed"}, n \in ItemCounts, threads \in Threads,
             batch \in BatchSizes, forceOne \in BOOLEAN :
       /\ \A g \in Files : call[g].kind \in {"none", kind}
       /\ threads <= n
       /\ kind = "embed" => batch = 1 /\ forceOne
       /\ call' = [call EXCEPT ![f] =
            [kind |-> kind, n |-> n, batch |-> EffectiveBatch(forceOne, batch), ret |-> "joining", out |-> <<>>]]
       /\ worker' = [worker EXCEPT ![f] = [w \in Threads |->
            IF ChunkOf(n, threads, w) = <<>> THEN Idle
            ELSE [Idle EXCEPT !.state = "poll", !.chunk = ChunkOf(n, threads, w)]]]
    BY Zenon DEF Start
  <2> QED
    BY <2>1, Zenon
<1>2. call[f].ret = "idle" /\ UNCHANGED <<free, next>>
  BY DEF Start
<1>3. n \in Nat \ {0} /\ threads \in Nat \ {0} /\ threads <= PoolThreads
      /\ \A w \in Threads : w \in Nat \ {0}
  BY DEF SessionPoolAssumption, Threads
<1> DEFINE C(w) == ChunkOf(n, threads, w)
           new(w) == IF C(w) = <<>> THEN Idle ELSE [Idle EXCEPT !.state = "poll", !.chunk = C(w)]
<1>4. \A w \in Threads : C(w) \in Seq(Nat)
  BY <1>3, ChunkItems
<1>5. \A w \in Threads : C(w) # <<>> =>
        /\ Len(C(w)) # 0 /\ \A k \in DOMAIN C(w) : C(w)[k] = C(w)[1] + k - 1
        /\ w >= threads => C(w + 1) = <<>>
        /\ C(w)[1] + Len(C(w)) = IF C(w + 1) # <<>> THEN C(w + 1)[1] ELSE n + 1
  BY <1>3, ChunkThenNext
<1>6. C(1) # <<>> /\ C(1)[1] = 1
  BY <1>3, FirstChunk
<1> HIDE DEF C
<1>7. \A w \in Threads :
        /\ new(w) \in WorkerRecords /\ new(w).session = NoSession /\ new(w).results = <<>>
        /\ new(w).chunk = C(w) /\ new(w).state = IF C(w) = <<>> THEN "none" ELSE "poll"
  BY <1>4, EmptySeq DEF Idle, WorkerRecords, States
<1>8. worker' = [worker EXCEPT ![f] = [w \in Threads |-> new(w)]]
  BY <1>1 DEF C
<1> HIDE DEF new
<1>9. /\ \A w \in Threads : worker'[f][w] = new(w)
      /\ \A g \in Files : g # f => worker'[g] = worker[g]
  BY <1>8 DEF TypeOK
<1>10. /\ call'[f].kind = kind /\ call'[f].n = n /\ call'[f].ret = "joining" /\ call'[f].out = <<>>
       /\ \A g \in Files : g # f => call'[g] = call[g]
  BY <1>1 DEF TypeOK
<1>11. TypeOK'
  <2>1. EffectiveBatch(forceOne, batch) \in Nat
    BY DEF EffectiveBatch, SessionPoolAssumption
  <2>2. [kind |-> kind, n |-> n, batch |-> EffectiveBatch(forceOne, batch), ret |-> "joining", out |-> <<>>]
          \in CallRecords
    BY <1>3, <2>1, EmptySeq DEF CallRecords, Rets
  <2>3. call' \in [Files -> CallRecords]
    BY <1>1, <2>2, Typed
  <2>4. worker' \in [Files -> [Threads -> WorkerRecords]]
    BY <1>7, <1>8, Typed
  <2>5. TypeOK' <=> /\ free' \in Seq(Sessions) /\ call' \in [Files -> CallRecords]
                    /\ worker' \in [Files -> [Threads -> WorkerRecords]]
                    /\ next' \in [Files -> 1 .. (PoolThreads + 1)]
    BY DEF TypeOK, States, WorkerRecords, Rets, CallRecords
  <2> QED
    BY <1>2, <2>3, <2>4, <2>5, Typed
<1>12. \A w \in Threads : worker[f][w] = Idle
  BY <1>2 DEF StartsClean
<1>13. \A g \in Files, w \in Threads : worker'[g][w].session = worker[g][w].session
  BY <1>7, <1>9, <1>12 DEF Idle
<1>14. HeldWhileUsed' /\ OnePlace'
  <2>1. HeldWhileUsed'
    <3> SUFFICES ASSUME NEW g \in Files, NEW w \in Threads
                 PROVE  worker'[g][w].session # NoSession <=> worker'[g][w].state \in Using
      BY DEF HeldWhileUsed
    <3>1. CASE g = f
      BY <1>7, <1>9, <3>1 DEF Using
    <3>2. CASE g # f
      BY <1>9, <3>2 DEF HeldWhileUsed
    <3> QED
      BY <3>1, <3>2
  <2>2. OnePlace'
    BY <1>2, <1>13 DEF OnePlace
  <2> QED
    BY <2>1, <2>2
<1>15. StartsClean'
  BY <1>2, <1>9, <1>10 DEF StartsClean
<1>16. ChunksFollow'
  <2>1. \A w \in Threads : w \in Spawned(f)' <=> C(w) # <<>>
    BY <1>7, <1>9 DEF Spawned
  <2>2. \A w \in Spawned(f)' : w \in Threads
    BY DEF Spawned
  <2>3. \A w \in Spawned(f)' : w + 1 \in Spawned(f)' <=> C(w + 1) # <<>>
    <3> SUFFICES ASSUME NEW w \in Spawned(f)' PROVE w + 1 \in Spawned(f)' <=> C(w + 1) # <<>>
      OBVIOUS
    <3>1. w \in Threads /\ C(w) # <<>>
      BY <2>1, <2>2
    <3>2. CASE w + 1 \in Threads
      BY <2>1, <3>2
    <3>3. CASE w + 1 \notin Threads
      <4>1. w >= threads
        BY <1>3, <3>1, <3>3 DEF Threads, SessionPoolAssumption
      <4>2. C(w + 1) = <<>>
        BY <1>5, <3>1, <4>1
      <4> QED
        BY <2>2, <3>3, <4>2
    <3> QED
      BY <3>2, <3>3
  <2>4. 1 \in Spawned(f)' /\ worker'[f][1].chunk[1] = 1
    <3>1. 1 \in Threads
      BY DEF Threads, SessionPoolAssumption
    <3> QED
      BY <1>6, <1>7, <1>9, <2>1, <3>1
  <2>5. ASSUME NEW w \in Spawned(f)'
        PROVE  LET c == worker'[f][w].chunk IN
               /\ Len(c) # 0 /\ \A k \in DOMAIN c : c[k] = c[1] + k - 1
               /\ c[1] + Len(c) = IF w + 1 \in Spawned(f)' THEN worker'[f][w + 1].chunk[1] ELSE n + 1
    <3>1. w \in Threads /\ C(w) # <<>> /\ worker'[f][w].chunk = C(w)
      BY <1>7, <1>9, <2>1, <2>2
    <3>2. w + 1 \in Spawned(f)' => worker'[f][w + 1].chunk = C(w + 1)
      BY <1>7, <1>9, <2>2
    <3> QED
      BY <1>5, <2>3, <3>1, <3>2
  <2>6. \A g \in Files : g # f => Spawned(g)' = Spawned(g)
    BY <1>9 DEF Spawned
  <2>7. ASSUME NEW g \in Files, g # f, call'[g].ret # "idle"
        PROVE  /\ 1 \in Spawned(g)' /\ worker'[g][1].chunk[1] = 1
               /\ \A w \in Spawned(g)' : LET c == worker'[g][w].chunk IN
                    /\ Len(c) # 0 /\ \A k \in DOMAIN c : c[k] = c[1] + k - 1
                    /\ c[1] + Len(c) = IF w + 1 \in Spawned(g)' THEN worker'[g][w + 1].chunk[1] ELSE call'[g].n + 1
    <3>1. worker'[g] = worker[g] /\ call'[g] = call[g] /\ Spawned(g)' = Spawned(g)
      BY <1>9, <1>10, <2>6, <2>7
    <3> QED
      BY <2>7, <3>1 DEF ChunksFollow
  <2> SUFFICES ASSUME NEW g \in Files, call'[g].ret # "idle"
        PROVE  /\ 1 \in Spawned(g)' /\ worker'[g][1].chunk[1] = 1
               /\ \A w \in Spawned(g)' : LET c == worker'[g][w].chunk IN
                    /\ Len(c) # 0 /\ \A k \in DOMAIN c : c[k] = c[1] + k - 1
                    /\ c[1] + Len(c) = IF w + 1 \in Spawned(g)' THEN worker'[g][w + 1].chunk[1] ELSE call'[g].n + 1
    BY DEF ChunksFollow
  <2>8. CASE g = f
    BY <1>10, <2>4, <2>5, <2>8
  <2> QED
    BY <2>7, <2>8
<1>17. ResultsAreOwn'
  <2> SUFFICES ASSUME NEW g \in Files, NEW w \in Threads
               PROVE  LET me == worker'[g][w] IN
                      /\ Len(me.results) <= Len(me.chunk)
                      /\ \A k \in DOMAIN me.results : me.results[k] \in {me.chunk[k], ItemError}
                      /\ call'[g].kind = "embed" /\ me.state \in {"poll", "run"} => Len(me.results) < Len(me.chunk)
                      /\ call'[g].kind = "segment" /\ me.state = "drop" => Len(me.results) = Len(me.chunk)
                      /\ me.state = "done" => Len(me.results) = Len(me.chunk)
    BY DEF ResultsAreOwn
  <2>1. CASE g = f
    <3>1. /\ worker'[f][w].results = <<>> /\ worker'[f][w].chunk = C(w)
          /\ worker'[f][w].state = IF C(w) = <<>> THEN "none" ELSE "poll"
      BY <1>7, <1>9
    <3>2. Len(C(w)) \in Nat /\ (C(w) # <<>> => Len(C(w)) # 0) /\ Len(<<>>) = 0 /\ DOMAIN <<>> = {}
      BY <1>4, <1>5, LenProperties
    <3> QED
      BY <2>1, <3>1, <3>2
  <2>2. CASE g # f
    BY <1>9, <1>10, <2>2 DEF ResultsAreOwn
  <2> QED
    BY <2>1, <2>2
<1>18. OutInOrder'
  <2>1. next'[f] = 1
    BY <1>2 DEF StartsClean
  <2>2. 1 \in Spawned(f)' /\ worker'[f][1].chunk[1] = 1
    BY <1>10, <1>16 DEF ChunksFollow
  <2>3. Len(<<>>) = 0 /\ DOMAIN <<>> = {}
    OBVIOUS
  <2>4. \A g \in Files : g # f => Spawned(g)' = Spawned(g)
    BY <1>9 DEF Spawned
  <2> SUFFICES ASSUME NEW g \in Files
               PROVE  LET out == call'[g].out IN
                 /\ \A i \in DOMAIN out : out[i] \in {i, ItemError}
                 /\ call'[g].ret = "joining" =>
                      Len(out) = (IF next'[g] \in Spawned(g)' THEN worker'[g][next'[g]].chunk[1] - 1 ELSE call'[g].n)
                 /\ call'[g].ret \in {"leave ok", "ok"} => Len(out) = call'[g].n /\ \A i \in DOMAIN out : out[i] = i
    BY DEF OutInOrder
  <2>5. CASE g = f
    <3>1. /\ call'[g].out = <<>> /\ call'[g].ret = "joining"
          /\ next'[g] = 1 /\ 1 \in Spawned(g)' /\ worker'[g][1].chunk[1] = 1
      BY <1>10, <2>1, <2>2, <2>5
    <3> QED
      BY <2>3, <3>1
  <2>6. CASE g # f
    BY <1>2, <1>9, <1>10, <2>4, <2>6 DEF OutInOrder
  <2> QED
    BY <2>5, <2>6
<1> QED
  BY <1>11, <1>14, <1>15, <1>16, <1>17, <1>18
-----------------------------------------------------------------------------
(* A step of one thread, which keeps its chunk: what it leaves alone.       *)
Stepped(f, w) ==
  /\ worker[f][w].state # "none" /\ worker'[f][w].state # "none"
  /\ worker'[f][w].chunk = worker[f][w].chunk
  /\ \A g \in Files, v \in Threads : g # f \/ v # w => worker'[g][v] = worker[g][v]
  /\ UNCHANGED <<call, next>>

LEMMA SteppedFrame ==
  ASSUME IInv, NEW f \in Files, NEW w \in Threads, Stepped(f, w)
  PROVE  StartsClean' /\ ChunksFollow' /\ OutInOrder'
<1> USE DEF IInv, Stepped
<1>1. \A g \in Files, v \in Threads :
        /\ worker'[g][v].chunk = worker[g][v].chunk
        /\ worker'[g][v].state = "none" <=> worker[g][v].state = "none"
  <2> SUFFICES ASSUME NEW g \in Files, NEW v \in Threads
               PROVE  /\ worker'[g][v].chunk = worker[g][v].chunk
                      /\ worker'[g][v].state = "none" <=> worker[g][v].state = "none"
    OBVIOUS
  <2>1. CASE g = f /\ v = w
    BY <2>1
  <2>2. CASE g # f \/ v # w
    BY <2>2
  <2> QED
    BY <2>1, <2>2
<1>2. \A g \in Files : Spawned(g)' = Spawned(g) /\ Spawned(g) \subseteq Threads
  BY <1>1 DEF Spawned
<1>3. call' = call /\ next' = next
  OBVIOUS
<1>4. call[f].ret # "idle"
  BY DEF StartsClean, Idle
<1>5. StartsClean'
  BY <1>3, <1>4 DEF StartsClean
<1>6. ChunksFollow'
  <2> SUFFICES ASSUME NEW g \in Files, call'[g].ret # "idle"
        PROVE  /\ 1 \in Spawned(g)' /\ worker'[g][1].chunk[1] = 1
               /\ \A v \in Spawned(g)' : LET c == worker'[g][v].chunk IN
                    /\ Len(c) # 0 /\ \A k \in DOMAIN c : c[k] = c[1] + k - 1
                    /\ c[1] + Len(c) = IF v + 1 \in Spawned(g)' THEN worker'[g][v + 1].chunk[1] ELSE call'[g].n + 1
    BY DEF ChunksFollow
  <2>1. call[g].ret # "idle" /\ Spawned(g)' = Spawned(g)
    BY <1>2, <1>3
  <2>2. \A v \in Spawned(g) : worker'[g][v].chunk = worker[g][v].chunk
    BY <1>1, <1>2
  <2>3. 1 \in Spawned(g)' /\ worker'[g][1].chunk[1] = 1
    BY <2>1, <2>2 DEF ChunksFollow
  <2>4. ASSUME NEW v \in Spawned(g)
        PROVE  LET c == worker'[g][v].chunk IN
               /\ Len(c) # 0 /\ \A k \in DOMAIN c : c[k] = c[1] + k - 1
               /\ c[1] + Len(c) = IF v + 1 \in Spawned(g) THEN worker'[g][v + 1].chunk[1] ELSE call[g].n + 1
    <3>1. worker'[g][v].chunk = worker[g][v].chunk
      BY <2>2
    <3>2. v + 1 \in Spawned(g) => worker'[g][v + 1].chunk = worker[g][v + 1].chunk
      BY <2>2
    <3> QED
      BY <2>1, <3>1, <3>2 DEF ChunksFollow
  <2> QED
    BY <1>3, <2>1, <2>3, <2>4
<1>7. OutInOrder'
  <2>1. \A g \in Files : next[g] \in Spawned(g) => worker'[g][next[g]].chunk = worker[g][next[g]].chunk
    BY <1>1, <1>2
  <2> SUFFICES ASSUME NEW g \in Files
               PROVE  LET out == call'[g].out IN
                 /\ \A i \in DOMAIN out : out[i] \in {i, ItemError}
                 /\ call'[g].ret = "joining" =>
                      Len(out) = (IF next'[g] \in Spawned(g)' THEN worker'[g][next'[g]].chunk[1] - 1 ELSE call'[g].n)
                 /\ call'[g].ret \in {"leave ok", "ok"} => Len(out) = call'[g].n /\ \A i \in DOMAIN out : out[i] = i
    BY DEF OutInOrder
  <2>2. Spawned(g)' = Spawned(g)
    BY <1>2
  <2> QED
    BY <1>3, <2>1, <2>2, ZenonT(30) DEF OutInOrder
<1> QED
  BY <1>5, <1>6, <1>7

(* Its own results, and everybody's types.                                  *)
LEMMA SteppedTypes ==
  ASSUME IInv, NEW f \in Files, NEW w \in Threads, Stepped(f, w),
         worker' \in [Files -> [Threads -> WorkerRecords]], free' \in Seq(Sessions)
  PROVE  TypeOK'
<1>1. call' = call /\ next' = next
  BY DEF Stepped
<1>2. TypeOK' <=> /\ free' \in Seq(Sessions) /\ call' \in [Files -> CallRecords]
                  /\ worker' \in [Files -> [Threads -> WorkerRecords]]
                  /\ next' \in [Files -> 1 .. (PoolThreads + 1)]
  BY DEF TypeOK, States, WorkerRecords, Rets, CallRecords
<1>3. call \in [Files -> CallRecords] /\ next \in [Files -> 1 .. (PoolThreads + 1)]
  BY Typed DEF IInv
<1> QED
  BY <1>1, <1>2, <1>3

(* A thread that keeps its session.                                         *)
LEMMA SessionKept ==
  ASSUME IInv, NEW f \in Files, NEW w \in Threads, Stepped(f, w), free' = free,
         worker'[f][w].session = worker[f][w].session,
         worker[f][w].state \in Using, worker'[f][w].state \in Using
  PROVE  HeldWhileUsed' /\ OnePlace'
<1> USE DEF IInv, Stepped
<1>1. \A g \in Files, v \in Threads :
        /\ worker'[g][v].session = worker[g][v].session
        /\ worker'[g][v].state \in Using <=> worker[g][v].state \in Using
  <2> SUFFICES ASSUME NEW g \in Files, NEW v \in Threads
               PROVE  /\ worker'[g][v].session = worker[g][v].session
                      /\ worker'[g][v].state \in Using <=> worker[g][v].state \in Using
    OBVIOUS
  <2>1. CASE g = f /\ v = w
    BY <2>1
  <2>2. CASE g # f \/ v # w
    BY <2>2
  <2> QED
    BY <2>1, <2>2
<1>2. HeldWhileUsed'
  BY <1>1 DEF HeldWhileUsed
<1>3. OnePlace'
  BY <1>1 DEF OnePlace
<1> QED
  BY <1>2, <1>3

(* The results of a thread, and of it alone.                                *)
OwnResults(f, me) ==
  /\ Len(me.results) <= Len(me.chunk)
  /\ \A k \in DOMAIN me.results : me.results[k] \in {me.chunk[k], ItemError}
  /\ call[f].kind = "embed" /\ me.state \in {"poll", "run"} => Len(me.results) < Len(me.chunk)
  /\ call[f].kind = "segment" /\ me.state = "drop" => Len(me.results) = Len(me.chunk)
  /\ me.state = "done" => Len(me.results) = Len(me.chunk)

LEMMA SteppedResults ==
  ASSUME IInv, NEW f \in Files, NEW w \in Threads, Stepped(f, w),
         OwnResults(f, worker'[f][w])
  PROVE  ResultsAreOwn'
<1>1. ASSUME NEW g \in Files, NEW v \in Threads PROVE OwnResults(g, worker'[g][v])
  <2>1. CASE g = f /\ v = w
    BY <2>1
  <2>2. CASE g # f \/ v # w
    <3>1. worker'[g][v] = worker[g][v]
      BY <2>2 DEF Stepped
    <3>2. OwnResults(g, worker[g][v])
      BY DEF IInv, ResultsAreOwn, OwnResults
    <3> QED
      BY <3>1, <3>2
  <2> QED
    BY <2>1, <2>2
<1>2. call' = call
  BY DEF Stepped
<1> QED
  BY <1>1, <1>2 DEF ResultsAreOwn, OwnResults
-----------------------------------------------------------------------------
LEMMA Thread ==
  ASSUME IInv, NEW f \in Files, NEW w \in Threads
  PROVE  /\ worker[f][w] \in WorkerRecords
         /\ worker[f][w].chunk \in Seq(Nat) /\ worker[f][w].results \in Seq(Nat)
         /\ worker[f][w].state # "none" => Len(worker[f][w].chunk) # 0 /\ w \in Spawned(f)
<1> USE DEF IInv
<1>1. worker[f][w] \in WorkerRecords
  BY Typed
<1>2. ASSUME worker[f][w].state # "none" PROVE Len(worker[f][w].chunk) # 0 /\ w \in Spawned(f)
  <2>1. call[f].ret # "idle" /\ w \in Spawned(f)
    BY <1>2 DEF StartsClean, Idle, Spawned
  <2> QED
    BY <2>1 DEF ChunksFollow
<1> QED
  BY <1>1, <1>2 DEF WorkerRecords

(* What an action does to its thread: the record that replaces it.          *)
LEMMA Replaced ==
  ASSUME IInv, NEW f \in Files, NEW w \in Threads, NEW r \in WorkerRecords,
         worker' = [worker EXCEPT ![f][w] = r], r.state # "none", worker[f][w].state # "none",
         r.chunk = worker[f][w].chunk, UNCHANGED <<call, next>>
  PROVE  /\ worker' \in [Files -> [Threads -> WorkerRecords]]
         /\ worker'[f][w] = r /\ Stepped(f, w)
<1>1. worker \in [Files -> [Threads -> WorkerRecords]]
  BY Typed DEF IInv
<1>2. worker' \in [Files -> [Threads -> WorkerRecords]]
  BY <1>1
<1>3. worker'[f][w] = r /\ \A g \in Files, v \in Threads : g # f \/ v # w => worker'[g][v] = worker[g][v]
  BY <1>1
<1> QED
  BY <1>2, <1>3 DEF Stepped

LEMMA CheckoutInv ==
  ASSUME SessionPoolAssumption, IInv, NEW f \in Files, NEW w \in Threads, Checkout(f, w)
  PROVE  IInv'
<1> DEFINE n == Len(free)
           s == free[n]
           r == [worker[f][w] EXCEPT !.state = "run", !.session = s]
<1>1. /\ worker[f][w].state = "poll" /\ free # <<>> /\ UNCHANGED <<call, next>>
      /\ worker' = [worker EXCEPT ![f][w].state = "run", ![f][w].session = s]
      /\ free' = SubSeq(free, 1, n - 1)
  BY DEF Checkout
<1>2. free \in Seq(Sessions) /\ n \in Nat \ {0} /\ DOMAIN free = 1 .. n
  BY <1>1, LenProperties, EmptySeq DEF IInv, TypeOK
<1>3. s \in Sessions
  BY <1>2, ElementOfSeq
<1>4. /\ free' \in Seq(Sessions) /\ DOMAIN free' = 1 .. (n - 1)
      /\ \A i \in 1 .. (n - 1) : free'[i] = free[i]
  <2>1. n - 1 \in 0 .. n /\ 1 \in 1 .. n + 1 /\ n - 1 \in Int
    BY <1>2
  <2> HIDE DEF n
  <2>2. SubSeq(free, 1, n - 1) \in Seq(Sessions)
    BY <1>2, <2>1, SubSeqProperties DEF n
  <2>3. SubSeq(free, 1, n - 1) = [i \in 1 .. (n - 1) |-> free[i]]
    BY <1>2, <2>1
  <2> QED
    BY <1>1, <2>2, <2>3 DEF n
<1> HIDE DEF n, s
<1>5. /\ r \in WorkerRecords /\ r.state = "run" /\ r.session = s
      /\ r.chunk = worker[f][w].chunk /\ r.results = worker[f][w].results
  BY <1>3, Thread DEF WorkerRecords, States
<1>6. worker' = [worker EXCEPT ![f][w] = r]
  BY <1>1
<1> HIDE DEF r
<1>7. worker' \in [Files -> [Threads -> WorkerRecords]] /\ worker'[f][w] = r /\ Stepped(f, w)
  BY <1>1, <1>5, <1>6, Replaced, ZenonT(30)
<1>8. TypeOK'
  BY <1>4, <1>7, SteppedTypes
<1>9. ResultsAreOwn'
  <2>1. OwnResults(f, worker[f][w])
    BY DEF IInv, ResultsAreOwn, OwnResults
  <2>2. OwnResults(f, r)
    BY <1>1, <1>5, <2>1 DEF OwnResults
  <2> QED
    BY <1>7, <2>2, SteppedResults
<1>10. /\ worker[f][w].session = NoSession /\ s # NoSession
       /\ \A g \in Files, v \in Threads : worker[g][v].session # s
  <2>1. s # NoSession
    BY <1>3 DEF SessionPoolAssumption, NoSession
  <2>2. worker[f][w].session = NoSession
    BY <1>1 DEF IInv, HeldWhileUsed, Using
  <2>3. n \in DOMAIN free
    BY <1>2
  <2> QED
    BY <2>1, <2>2, <2>3 DEF IInv, OnePlace, s
<1>11. HeldWhileUsed'
  <2> SUFFICES ASSUME NEW g \in Files, NEW v \in Threads
               PROVE  worker'[g][v].session # NoSession <=> worker'[g][v].state \in Using
    BY DEF HeldWhileUsed
  <2>1. CASE g = f /\ v = w
    BY <1>5, <1>7, <1>10, <2>1 DEF Using
  <2>2. CASE g # f \/ v # w
    BY <1>7, <2>2 DEF Stepped, IInv, HeldWhileUsed
  <2> QED
    BY <2>1, <2>2
<1>12. OnePlace'
  <2>1. worker'[f][w].session = s
    BY <1>5, <1>7
  <2>2. \A g \in Files, v \in Threads : g # f \/ v # w => worker'[g][v].session = worker[g][v].session
    BY <1>7 DEF Stepped
  <2>3. \A i, j \in DOMAIN free' : free'[i] = free'[j] => i = j
    BY <1>2, <1>4 DEF IInv, OnePlace
  <2>4. \A g, h \in Files, u, v \in Threads :
          worker'[g][u].session = worker'[h][v].session /\ worker'[g][u].session # NoSession => g = h /\ u = v
    <3> SUFFICES ASSUME NEW g \in Files, NEW h \in Files, NEW u \in Threads, NEW v \in Threads,
                        worker'[g][u].session = worker'[h][v].session, worker'[g][u].session # NoSession
                 PROVE  g = h /\ u = v
      OBVIOUS
    <3>1. CASE g = f /\ u = w
      BY <1>10, <2>1, <2>2, <3>1
    <3>2. CASE h = f /\ v = w
      BY <1>10, <2>1, <2>2, <3>2
    <3>3. CASE ~(g = f /\ u = w) /\ ~(h = f /\ v = w)
      BY <2>2, <3>3 DEF IInv, OnePlace
    <3> QED
      BY <3>1, <3>2, <3>3
  <2>5. \A g \in Files, v \in Threads, i \in DOMAIN free' : free'[i] # worker'[g][v].session
    <3> SUFFICES ASSUME NEW g \in Files, NEW v \in Threads, NEW i \in 1 .. (n - 1)
                 PROVE  free[i] # worker'[g][v].session
      BY <1>4
    <3>1. i \in DOMAIN free /\ n \in DOMAIN free /\ i # n
      BY <1>2
    <3>2. free[i] # s
      BY <3>1 DEF IInv, OnePlace, s
    <3>3. CASE g = f /\ v = w
      BY <2>1, <3>2, <3>3
    <3>4. CASE g # f \/ v # w
      BY <2>2, <3>1, <3>4 DEF IInv, OnePlace
    <3> QED
      BY <3>3, <3>4
  <2>6. ASSUME NEW t \in Sessions
        PROVE  (\E i \in DOMAIN free' : free'[i] = t) \/ (\E g \in Files, v \in Threads : worker'[g][v].session = t)
    <3>1. CASE \E i \in DOMAIN free : free[i] = t
      <4>1. PICK i \in 1 .. n : free[i] = t
        BY <1>2, <3>1
      <4>2. CASE i = n
        BY <2>1, <4>1, <4>2 DEF s
      <4>3. CASE i # n
        BY <1>2, <1>4, <4>1, <4>3
      <4> QED
        BY <4>2, <4>3
    <3>2. CASE \E g \in Files, v \in Threads : worker[g][v].session = t
      <4>1. PICK g \in Files, v \in Threads : worker[g][v].session = t
        BY <3>2
      <4>2. t # NoSession
        BY DEF SessionPoolAssumption, NoSession
      <4> QED
        BY <1>10, <2>2, <4>1, <4>2
    <3> QED
      BY <3>1, <3>2 DEF IInv, OnePlace
  <2> QED
    BY <2>3, <2>4, <2>5, <2>6 DEF OnePlace
<1> QED
  BY <1>7, <1>8, <1>9, <1>11, <1>12, SteppedFrame DEF IInv

(* Results of the thread's next items are appended, or none: it goes on with   *)
(* its session, or to its drop.                                             *)
LEMMA GoesOn ==
  ASSUME IInv, NEW f \in Files, NEW w \in Threads, NEW st \in Using, NEW more \in Seq(Nat),
         worker[f][w].state \in Using, UNCHANGED <<free, call, next>>,
         worker' = [worker EXCEPT ![f][w].state = st, ![f][w].results = worker[f][w].results \o more],
         OwnResults(f, [worker[f][w] EXCEPT !.state = st, !.results = worker[f][w].results \o more])
  PROVE  IInv'
<1> DEFINE me == worker[f][w]
           all == me.results \o more
           r == [me EXCEPT !.state = st, !.results = all]
<1>1. me \in WorkerRecords /\ me.results \in Seq(Nat)
  BY Thread
<1>2. all \in Seq(Nat)
  BY <1>1, ConcatProperties
<1> HIDE DEF all
<1>3. st \in States /\ st # "none" /\ me.state # "none"
  BY DEF Using, States
<1>4. /\ r \in WorkerRecords /\ r.state = st /\ r.session = me.session
      /\ r.chunk = me.chunk
  BY <1>1, <1>2, <1>3 DEF WorkerRecords
<1>5. worker' = [worker EXCEPT ![f][w] = r]
  BY DEF all
<1>6. OwnResults(f, r)
  BY DEF all
<1> HIDE DEF r
<1>7. worker' \in [Files -> [Threads -> WorkerRecords]] /\ worker'[f][w] = r /\ Stepped(f, w)
  <2>1. /\ r.state # "none" /\ worker[f][w].state # "none"
        /\ r \in WorkerRecords /\ r.chunk = worker[f][w].chunk
    BY <1>3, <1>4
  <2>2. worker' = [worker EXCEPT ![f][w] = r] /\ UNCHANGED <<call, next>>
    BY <1>5
  <2> QED
    BY <2>1, <2>2, Replaced, ZenonT(30)
<1>8. free' \in Seq(Sessions) /\ free' = free
  BY DEF IInv, TypeOK
<1>9. TypeOK'
  BY <1>7, <1>8, SteppedTypes
<1>10. ResultsAreOwn'
  BY <1>6, <1>7, SteppedResults
<1>11. HeldWhileUsed' /\ OnePlace'
  BY <1>4, <1>7, <1>8, SessionKept
<1> QED
  BY <1>7, <1>9, <1>10, <1>11, SteppedFrame DEF IInv

(* The same without results: an error, or the end of the thread's windows.  *)
LEMMA GoesTo ==
  ASSUME IInv, NEW f \in Files, NEW w \in Threads, NEW st \in {"drop", "drop failed", "drop panicked"},
         worker[f][w].state = "run", UNCHANGED <<free, call, next>>,
         worker' = [worker EXCEPT ![f][w].state = st],
         st = "drop" => Len(worker[f][w].results) = Len(worker[f][w].chunk)
  PROVE  IInv'
<1> DEFINE me == worker[f][w]
           r == [me EXCEPT !.state = st]
<1>1. me \in WorkerRecords
  BY Thread
<1>2. st \in States /\ st # "none" /\ me.state # "none" /\ st \in Using /\ me.state \in Using
  BY DEF Using, States
<1>3. /\ r \in WorkerRecords /\ r.state = st /\ r.session = me.session
      /\ r.chunk = me.chunk /\ r.results = me.results
  BY <1>1, <1>2 DEF WorkerRecords
<1>4. worker' = [worker EXCEPT ![f][w] = r]
  OBVIOUS
<1> HIDE DEF r
<1>5. worker' \in [Files -> [Threads -> WorkerRecords]] /\ worker'[f][w] = r /\ Stepped(f, w)
  BY <1>2, <1>3, <1>4, Replaced
<1>6. free' \in Seq(Sessions) /\ free' = free
  BY DEF IInv, TypeOK
<1>7. TypeOK'
  BY <1>5, <1>6, SteppedTypes
<1>8. ResultsAreOwn'
  <2>1. OwnResults(f, me)
    BY DEF IInv, ResultsAreOwn, OwnResults
  <2>2. OwnResults(f, r)
    BY <1>3, <2>1 DEF OwnResults
  <2> QED
    BY <1>5, <2>2, SteppedResults
<1>9. HeldWhileUsed' /\ OnePlace'
  BY <1>2, <1>3, <1>5, <1>6, SessionKept
<1> QED
  BY <1>5, <1>7, <1>8, <1>9, SteppedFrame DEF IInv

(* Results appended to those a thread has are of the items that follow.      *)
LEMMA MoreResults ==
  ASSUME NEW c \in Seq(Nat), NEW r \in Seq(Nat), NEW m \in Seq(Nat),
         Len(r) + Len(m) <= Len(c),
         \A k \in DOMAIN r : r[k] \in {c[k], ItemError},
         \A k \in DOMAIN m : m[k] \in {c[Len(r) + k], ItemError}
  PROVE  /\ r \o m \in Seq(Nat) /\ Len(r \o m) = Len(r) + Len(m)
         /\ \A k \in DOMAIN (r \o m) : (r \o m)[k] \in {c[k], ItemError}
<1>1. /\ r \o m \in Seq(Nat) /\ Len(r \o m) = Len(r) + Len(m)
      /\ DOMAIN r = 1 .. Len(r) /\ DOMAIN m = 1 .. Len(m) /\ DOMAIN (r \o m) = 1 .. Len(r \o m)
      /\ Len(r) \in Nat /\ Len(m) \in Nat
      /\ \A k \in 1 .. (Len(r) + Len(m)) : (r \o m)[k] = IF k <= Len(r) THEN r[k] ELSE m[k - Len(r)]
  BY ConcatProperties, LenProperties
<1>2. ASSUME NEW k \in 1 .. (Len(r) + Len(m)) PROVE (r \o m)[k] \in {c[k], ItemError}
  <2>1. CASE k <= Len(r)
    BY <1>1, <2>1
  <2>2. CASE ~(k <= Len(r))
    <3>1. k - Len(r) \in DOMAIN m /\ Len(r) + (k - Len(r)) = k
      BY <1>1, <2>2
    <3>2. m[k - Len(r)] \in {c[k], ItemError}
      BY <3>1
    <3> QED
      BY <1>1, <2>2, <3>2
  <2> QED
    BY <2>1, <2>2
<1> QED
  BY <1>1, <1>2

(* What the invariant says of a thread's results.                           *)
LEMMA ThreadResults ==
  ASSUME IInv, NEW f \in Files, NEW w \in Threads
  PROVE  LET c == worker[f][w].chunk
             r == worker[f][w].results
         IN /\ Len(c) \in Nat /\ Len(r) \in Nat /\ Len(r) <= Len(c)
            /\ DOMAIN c = 1 .. Len(c) /\ DOMAIN r = 1 .. Len(r)
            /\ \A k \in DOMAIN r : r[k] \in {c[k], ItemError}
            /\ call[f].kind = "embed" /\ worker[f][w].state \in {"poll", "run"} => Len(r) < Len(c)
            /\ OwnResults(f, worker[f][w])
<1>1. OwnResults(f, worker[f][w])
  BY DEF IInv, ResultsAreOwn, OwnResults
<1>2. worker[f][w].chunk \in Seq(Nat) /\ worker[f][w].results \in Seq(Nat)
  BY Thread
<1>3. /\ Len(worker[f][w].chunk) \in Nat /\ Len(worker[f][w].results) \in Nat
      /\ DOMAIN worker[f][w].chunk = 1 .. Len(worker[f][w].chunk)
      /\ DOMAIN worker[f][w].results = 1 .. Len(worker[f][w].results)
  BY <1>2, LenProperties
<1> QED
  BY <1>1, <1>3 DEF OwnResults

LEMMA SmallerBounds ==
  ASSUME NEW a \in Nat, NEW b \in Nat
  PROVE  Smaller(a, b) \in Nat /\ Smaller(a, b) <= b
BY DEF Smaller

(* The items of a chunk after the first m.                                   *)
LEMMA ItemsAfter ==
  ASSUME NEW c \in Seq(Nat), NEW m \in Nat, NEW take \in Nat, m + take <= Len(c)
  PROVE  LET more == SubSeq(c, m + 1, m + take) IN
         /\ more \in Seq(Nat) /\ Len(more) = take /\ DOMAIN more = 1 .. take
         /\ \A k \in 1 .. take : more[k] = c[m + k]
<1> DEFINE more == SubSeq(c, m + 1, m + take)
<1>1. Len(c) \in Nat /\ DOMAIN c = 1 .. Len(c)
  BY LenProperties
<1>2. /\ m + 1 \in Int /\ m + take \in Int
      /\ (m + take) - (m + 1) + 1 = take
      /\ \A k \in 1 .. take : (m + 1) + k - 1 = m + k /\ m + k \in 1 .. Len(c)
  BY <1>1
<1>3. more = [k \in 1 .. take |-> c[m + k]]
  BY <1>1, <1>2
<1> HIDE DEF more
<1>4. \A k \in 1 .. take : c[m + k] \in Nat
  BY <1>1, <1>2, ElementOfSeq
<1>5. more \in [1 .. take -> Nat]
  BY <1>3, <1>4
<1>6. more \in Seq(Nat)
  BY <1>5, SeqDef
<1>7. DOMAIN more = 1 .. take /\ DOMAIN more = 1 .. Len(more) /\ Len(more) \in Nat
  BY <1>5, <1>6, LenProperties
<1>8. Len(more) = take
  BY <1>7
<1> QED
  BY <1>3, <1>6, <1>7, <1>8 DEF more

LEMMA InferWindowsInv ==
  ASSUME IInv, NEW f \in Files, NEW w \in Threads, InferWindows(f, w)
  PROVE  IInv'
<1> DEFINE me == worker[f][w]
           left == Len(me.chunk) - Len(me.results)
           take == Smaller(call[f].batch, left)
           more == Micro(f, w)
<1>1. /\ call[f].kind = "segment" /\ me.state = "run" /\ UNCHANGED <<free, call, next>>
      /\ \/ worker' = [worker EXCEPT ![f][w].results = @ \o Micro(f, w)]
         \/ \E how \in {"drop failed", "drop panicked"} : worker' = [worker EXCEPT ![f][w].state = how]
  BY DEF InferWindows
<1>2. CASE \E how \in {"drop failed", "drop panicked"} : worker' = [worker EXCEPT ![f][w].state = how]
  <2>1. PICK how \in {"drop failed", "drop panicked"} : worker' = [worker EXCEPT ![f][w].state = how]
    BY <1>2
  <2>2. how \in {"drop", "drop failed", "drop panicked"} /\ how # "drop"
    OBVIOUS
  <2> QED
    BY <1>1, <2>1, <2>2, GoesTo
<1>3. CASE worker' = [worker EXCEPT ![f][w].results = @ \o Micro(f, w)]
  <2>1. me.chunk \in Seq(Nat) /\ me.results \in Seq(Nat) /\ me \in WorkerRecords
    BY Thread
  <2>2. /\ Len(me.chunk) \in Nat /\ Len(me.results) \in Nat /\ Len(me.results) <= Len(me.chunk)
        /\ \A k \in DOMAIN me.results : me.results[k] \in {me.chunk[k], ItemError}
    BY ThreadResults
  <2>3. left \in Nat /\ call[f].batch \in Nat
    <3>1. call[f].batch \in Nat
      BY DEF IInv, TypeOK
    <3> HIDE DEF me
    <3> QED
      BY <2>2, <3>1
  <2>4. take \in Nat /\ take <= left
    <3> HIDE DEF left
    <3> QED
      BY <2>3, SmallerBounds
  <2>5. more = SubSeq(me.chunk, Len(me.results) + 1, Len(me.results) + take)
    BY DEF Micro
  <2> HIDE DEF take, more
  <2>6. Len(me.results) + take <= Len(me.chunk)
    <3> HIDE DEF me
    <3> QED
      BY <2>2, <2>4
  <2>7. /\ more \in Seq(Nat) /\ Len(more) = take /\ DOMAIN more = 1 .. take
        /\ \A k \in 1 .. take : more[k] = me.chunk[Len(me.results) + k]
    <3> HIDE DEF me
    <3>1. /\ me.chunk \in Seq(Nat) /\ Len(me.results) \in Nat /\ take \in Nat
          /\ Len(me.results) + take <= Len(me.chunk)
      BY <2>1, <2>2, <2>4, <2>6
    <3> QED
      BY <2>5, <3>1, ItemsAfter, SMTT(20)
  <2>8. /\ me.results \o more \in Seq(Nat) /\ Len(me.results \o more) <= Len(me.chunk)
        /\ \A k \in DOMAIN (me.results \o more) : (me.results \o more)[k] \in {me.chunk[k], ItemError}
    <3>1. /\ Len(me.results) + Len(more) <= Len(me.chunk)
          /\ \A k \in DOMAIN more : more[k] \in {me.chunk[Len(me.results) + k], ItemError}
      BY <2>6, <2>7
    <3> HIDE DEF me
    <3> QED
      BY <2>1, <2>2, <2>7, <3>1, MoreResults, ZenonT(30)
  <2> DEFINE all == me.results \o more
             r == [me EXCEPT !.state = "run", !.results = all]
  <2>9. r.state = "run" /\ r.results = all /\ r.chunk = me.chunk
    BY <2>1 DEF WorkerRecords
  <2>10. OwnResults(f, r)
    <3>1. Len(all) <= Len(me.chunk) /\ \A k \in DOMAIN all : all[k] \in {me.chunk[k], ItemError}
      BY <2>8
    <3> HIDE DEF r, all
    <3> QED
      BY <1>1, <2>9, <3>1 DEF OwnResults
  <2>11. worker' = [worker EXCEPT ![f][w].state = "run", ![f][w].results = all]
    <3>1. worker \in [Files -> [Threads -> WorkerRecords]]
      BY Typed DEF IInv
    <3>2. worker' = [worker EXCEPT ![f][w].results = all]
      BY <1>3 DEF more
    <3> HIDE DEF all
    <3>3. [me EXCEPT !.results = all] = [me EXCEPT !.state = "run", !.results = all]
      BY <1>1, <2>1 DEF WorkerRecords
    <3> QED
      BY <3>1, <3>2, <3>3
  <2> QED
    <3>1. "run" \in Using
      BY DEF Using
    <3> QED
      BY <1>1, <2>7, <2>10, <2>11, <3>1, GoesOn
<1> QED
  BY <1>1, <1>2, <1>3

LEMMA EmbedClipInv ==
  ASSUME IInv, NEW f \in Files, NEW w \in Threads, EmbedClip(f, w)
  PROVE  IInv'
<1> DEFINE me == worker[f][w]
<1>1. /\ call[f].kind = "embed" /\ me.state = "run" /\ UNCHANGED <<free, call, next>>
      /\ \/ \E result \in {me.chunk[Len(me.results) + 1], ItemError} :
              worker' = [worker EXCEPT ![f][w].results = Append(@, result), ![f][w].state = "drop"]
         \/ worker' = [worker EXCEPT ![f][w].state = "drop panicked"]
  BY DEF EmbedClip
<1>2. CASE worker' = [worker EXCEPT ![f][w].state = "drop panicked"]
  BY <1>1, <1>2, GoesTo
<1>3. CASE \E result \in {me.chunk[Len(me.results) + 1], ItemError} :
             worker' = [worker EXCEPT ![f][w].results = Append(@, result), ![f][w].state = "drop"]
  <2>1. PICK result \in {me.chunk[Len(me.results) + 1], ItemError} :
           worker' = [worker EXCEPT ![f][w].results = Append(@, result), ![f][w].state = "drop"]
    BY <1>3
  <2>2. me.chunk \in Seq(Nat) /\ me.results \in Seq(Nat) /\ me \in WorkerRecords
    BY Thread
  <2>3. /\ Len(me.chunk) \in Nat /\ Len(me.results) \in Nat /\ Len(me.results) < Len(me.chunk)
        /\ \A k \in DOMAIN me.results : me.results[k] \in {me.chunk[k], ItemError}
    BY <1>1, ThreadResults
  <2>4. Len(me.results) + 1 <= Len(me.chunk) /\ Len(me.results) + 1 \in 1 .. Len(me.chunk)
    <3> HIDE DEF me
    <3> QED
      BY <2>3
  <2>5. result \in Nat
    <3>1. me.chunk[Len(me.results) + 1] \in Nat
      BY <2>2, <2>4, ElementOfSeq
    <3> QED
      BY <3>1 DEF ItemError
  <2> DEFINE more == <<result>>
             all == me.results \o more
             r == [me EXCEPT !.state = "drop", !.results = all]
  <2>6. more \in Seq(Nat) /\ Len(more) = 1 /\ DOMAIN more = 1 .. 1 /\ more[1] = result
    BY <2>5
  <2>7. Append(me.results, result) = all
    <3> HIDE DEF me
    <3> QED
      BY <2>2, <2>5, AppendIsConcat
  <2>8. all \in Seq(Nat) /\ Len(all) = Len(me.results) + 1
        /\ \A k \in DOMAIN all : all[k] \in {me.chunk[k], ItemError}
    <3>1. /\ Len(me.results) + Len(more) <= Len(me.chunk)
          /\ \A k \in DOMAIN me.results : me.results[k] \in {me.chunk[k], ItemError}
          /\ \A k \in DOMAIN more : more[k] \in {me.chunk[Len(me.results) + k], ItemError}
      BY <2>3, <2>4, <2>6
    <3> HIDE DEF more
    <3>2. /\ all \in Seq(Nat) /\ Len(all) = Len(me.results) + Len(more)
          /\ \A k \in DOMAIN all : all[k] \in {me.chunk[k], ItemError}
      BY <2>2, <2>6, <3>1, MoreResults
    <3> QED
      BY <2>6, <3>2
  <2>9. r.state = "drop" /\ r.results = all /\ r.chunk = me.chunk
    BY <2>2 DEF WorkerRecords
  <2>10. worker' = [worker EXCEPT ![f][w].state = "drop", ![f][w].results = all]
    <3>1. worker' = [worker EXCEPT ![f][w].results = all, ![f][w].state = "drop"]
      BY <2>1, <2>7
    <3>2. worker \in [Files -> [Threads -> WorkerRecords]]
      BY Typed DEF IInv
    <3> HIDE DEF all
    <3>3. [me EXCEPT !.results = all, !.state = "drop"] = [me EXCEPT !.state = "drop", !.results = all]
      BY <2>2 DEF WorkerRecords
    <3> QED
      BY <3>1, <3>2, <3>3
  <2>11. OwnResults(f, r)
    <3> HIDE DEF r, all
    <3> QED
      BY <1>1, <2>4, <2>8, <2>9 DEF OwnResults
  <2> QED
    <3>1. "drop" \in Using /\ me.state \in Using
      BY <1>1 DEF Using
    <3> HIDE DEF more
    <3> QED
      BY <1>1, <2>6, <2>10, <2>11, <3>1, GoesOn
<1> QED
  BY <1>1, <1>2, <1>3

LEMMA WindowedInv ==
  ASSUME IInv, NEW f \in Files, NEW w \in Threads, Windowed(f, w)
  PROVE  IInv'
<1>1. /\ worker[f][w].state = "run" /\ Finished(f, w) /\ UNCHANGED <<free, call, next>>
      /\ worker' = [worker EXCEPT ![f][w].state = "drop"]
  BY DEF Windowed
<1>2. Len(worker[f][w].results) = Len(worker[f][w].chunk)
  BY <1>1 DEF Finished
<1> QED
  BY <1>1, <1>2, GoesTo

(* The drop puts the session on the stack, whatever the way out.             *)
LEMMA DropInv ==
  ASSUME SessionPoolAssumption, IInv, NEW f \in Files, NEW w \in Threads, Drop(f, w)
  PROVE  IInv'
<1> DEFINE me == worker[f][w]
           s == me.session
           st == CASE me.state = "drop" -> IF Finished(f, w) THEN "done" ELSE "poll"
                   [] me.state = "drop failed" -> "failed"
                   [] me.state = "drop panicked" -> "panicked"
           r == [me EXCEPT !.session = NoSession, !.state = st]
           n == Len(free)
<1>1. /\ me.state \in {"drop", "drop failed", "drop panicked"}
      /\ free' = Append(free, s) /\ UNCHANGED <<call, next>>
  BY DEF Drop
<1>2. worker' = [worker EXCEPT ![f][w] = r]
  <2>1. worker' = [worker EXCEPT ![f][w].session = NoSession,
       ![f][w].state = CASE @ = "drop" -> IF Finished(f, w) THEN "done" ELSE "poll"
                         [] @ = "drop failed" -> "failed"
                         [] @ = "drop panicked" -> "panicked"]
    BY DEF Drop
  <2>2. worker \in [Files -> [Threads -> WorkerRecords]]
    BY Typed DEF IInv
  <2>3. [worker EXCEPT ![f][w].session = NoSession][f][w].state = me.state
    BY <2>2 DEF WorkerRecords
  <2>4. worker' = [worker EXCEPT ![f][w].session = NoSession, ![f][w].state = st]
    <3> DEFINE a == [worker EXCEPT ![f][w].session = NoSession]
    <3> HIDE DEF a
    <3>1. worker' = [a EXCEPT ![f][w].state =
             CASE a[f][w].state = "drop" -> IF Finished(f, w) THEN "done" ELSE "poll"
               [] a[f][w].state = "drop failed" -> "failed"
               [] a[f][w].state = "drop panicked" -> "panicked"]
      BY <2>1 DEF a
    <3>2. a[f][w].state = me.state
      BY <2>3 DEF a
    <3>3. worker' = [a EXCEPT ![f][w].state = st]
      <4>1. CASE me.state = "drop"
        BY <3>1, <3>2, <4>1
      <4>2. CASE me.state = "drop failed"
        BY <3>1, <3>2, <4>2
      <4>3. CASE me.state = "drop panicked"
        BY <3>1, <3>2, <4>3
      <4> QED
        BY <1>1, <4>1, <4>2, <4>3
    <3> HIDE DEF st
    <3> QED
      BY <3>3 DEF a
  <2> HIDE DEF st
  <2> QED
    BY <2>2, <2>4
<1>3. /\ st \in {"done", "poll", "failed", "panicked"}
      /\ st \in {"done", "poll"} => me.state = "drop"
      /\ st = "done" => Finished(f, w)
      /\ st = "poll" => ~Finished(f, w)
  <2>1. CASE me.state = "drop"
    BY <2>1
  <2>2. CASE me.state = "drop failed"
    BY <2>2
  <2>3. CASE me.state = "drop panicked"
    BY <2>3
  <2> QED
    BY <1>1, <2>1, <2>2, <2>3
<1> HIDE DEF st
<1>4. me \in WorkerRecords
  BY Thread
<1>5. st \in States /\ st # "none" /\ st \notin Using /\ me.state # "none" /\ me.state \in Using
  BY <1>1, <1>3 DEF States, Using
<1>6. /\ r \in WorkerRecords /\ r.state = st /\ r.session = NoSession
      /\ r.chunk = me.chunk /\ r.results = me.results
  BY <1>4, <1>5 DEF WorkerRecords
<1> HIDE DEF r
<1>7. worker' \in [Files -> [Threads -> WorkerRecords]] /\ worker'[f][w] = r /\ Stepped(f, w)
  <2>1. /\ r \in WorkerRecords /\ r.state # "none" /\ worker[f][w].state # "none"
        /\ r.chunk = worker[f][w].chunk
    BY <1>5, <1>6
  <2> QED
    BY <1>1, <1>2, <2>1, Replaced
<1>8. s \in Sessions /\ s # NoSession
  BY <1>4, <1>5 DEF IInv, HeldWhileUsed, WorkerRecords
<1>9. free \in Seq(Sessions) /\ n \in Nat /\ DOMAIN free = 1 .. n
  BY LenProperties DEF IInv, TypeOK
<1>10. /\ free' \in Seq(Sessions) /\ DOMAIN free' = 1 .. (n + 1)
       /\ free'[n + 1] = s /\ \A i \in 1 .. n : free'[i] = free[i]
  <2> HIDE DEF s
  <2>1. /\ Append(free, s) \in Seq(Sessions) /\ Len(Append(free, s)) = Len(free) + 1
        /\ \A i \in 1 .. Len(free) : Append(free, s)[i] = free[i]
        /\ Append(free, s)[Len(free) + 1] = s
    BY <1>8, <1>9, AppendProperties
  <2>2. DOMAIN Append(free, s) = 1 .. Len(Append(free, s))
    BY <2>1, LenProperties
  <2> QED
    BY <1>1, <2>1, <2>2
<1>11. TypeOK'
  BY <1>7, <1>10, SteppedTypes
<1>12. ResultsAreOwn'
  <2>1. /\ Len(me.chunk) \in Nat /\ Len(me.results) \in Nat /\ Len(me.results) <= Len(me.chunk)
        /\ \A k \in DOMAIN me.results : me.results[k] \in {me.chunk[k], ItemError}
    BY ThreadResults
  <2>2. Len(me.chunk) # 0
    BY <1>5, Thread
  <2>3. me.results \in Seq(Nat)
    BY Thread
  <2>4. st = "poll" => Len(me.results) < Len(me.chunk)
    <3> SUFFICES ASSUME st = "poll" PROVE Len(me.results) < Len(me.chunk)
      OBVIOUS
    <3>1. me.results = <<>> \/ Len(me.results) # Len(me.chunk)
      BY <1>3 DEF Finished
    <3>2. me.results = <<>> => Len(me.results) = 0
      BY <2>3, EmptySeq
    <3> HIDE DEF me
    <3> QED
      BY <2>1, <2>2, <3>1, <3>2
  <2>5. st = "done" => Len(me.results) = Len(me.chunk)
    BY <1>3 DEF Finished
  <2>6. OwnResults(f, r)
    <3>1. r.state # "drop" /\ r.state # "run"
      BY <1>3, <1>6
    <3> HIDE DEF me
    <3> QED
      BY <1>6, <2>1, <2>4, <2>5, <3>1 DEF OwnResults
  <2> QED
    BY <1>7, <2>6, SteppedResults
<1>13. /\ worker'[f][w].session = NoSession
       /\ \A g \in Files, v \in Threads : g # f \/ v # w => worker'[g][v] = worker[g][v]
       /\ \A g \in Files, v \in Threads : g # f \/ v # w => worker[g][v].session # s
  BY <1>6, <1>7, <1>8 DEF Stepped, IInv, OnePlace
<1>14. HeldWhileUsed'
  <2> SUFFICES ASSUME NEW g \in Files, NEW v \in Threads
               PROVE  worker'[g][v].session # NoSession <=> worker'[g][v].state \in Using
    BY DEF HeldWhileUsed
  <2>1. CASE g = f /\ v = w
    BY <1>5, <1>6, <1>7, <2>1
  <2>2. CASE g # f \/ v # w
    BY <1>13, <2>2 DEF IInv, HeldWhileUsed
  <2> QED
    BY <2>1, <2>2
<1>15. OnePlace'
  <2>1. \A i \in 1 .. n : free[i] # s
    BY <1>9 DEF IInv, OnePlace
  <2>2. \A i, j \in DOMAIN free' : free'[i] = free'[j] => i = j
    <3> SUFFICES ASSUME NEW i \in 1 .. (n + 1), NEW j \in 1 .. (n + 1), free'[i] = free'[j]
                 PROVE  i = j
      BY <1>10
    <3>1. CASE i \in 1 .. n /\ j \in 1 .. n
      BY <1>9, <1>10, <3>1 DEF IInv, OnePlace
    <3>2. CASE i = n + 1 \/ j = n + 1
      <4>1. i \in 1 .. n \/ i = n + 1
        BY <1>9
      <4>2. j \in 1 .. n \/ j = n + 1
        BY <1>9
      <4> HIDE DEF s
      <4> QED
        BY <1>10, <2>1, <3>2, <4>1, <4>2
    <3> QED
      BY <1>9, <3>1, <3>2
  <2>3. \A g, h \in Files, u, v \in Threads :
          worker'[g][u].session = worker'[h][v].session /\ worker'[g][u].session # NoSession => g = h /\ u = v
    <3> SUFFICES ASSUME NEW g \in Files, NEW h \in Files, NEW u \in Threads, NEW v \in Threads,
                        worker'[g][u].session = worker'[h][v].session, worker'[g][u].session # NoSession
                 PROVE  g = h /\ u = v
      OBVIOUS
    <3>1. ~(g = f /\ u = w) /\ ~(h = f /\ v = w)
      BY <1>13
    <3> QED
      BY <1>13, <3>1 DEF IInv, OnePlace
  <2>4. \A g \in Files, v \in Threads, i \in DOMAIN free' : free'[i] # worker'[g][v].session
    <3> SUFFICES ASSUME NEW g \in Files, NEW v \in Threads, NEW i \in 1 .. (n + 1)
                 PROVE  free'[i] # worker'[g][v].session
      BY <1>10
    <3>1. free'[i] \in Sessions
      BY <1>10, ElementOfSeq, LenProperties
    <3>2. CASE g = f /\ v = w
      BY <1>13, <3>1, <3>2 DEF SessionPoolAssumption, NoSession
    <3>3. CASE (g # f \/ v # w) /\ i = n + 1
      BY <1>10, <1>13, <3>3
    <3>4. CASE (g # f \/ v # w) /\ i \in 1 .. n
      BY <1>9, <1>10, <1>13, <3>4 DEF IInv, OnePlace
    <3> QED
      BY <1>9, <3>2, <3>3, <3>4
  <2>5. ASSUME NEW t \in Sessions
        PROVE  (\E i \in DOMAIN free' : free'[i] = t) \/ (\E g \in Files, v \in Threads : worker'[g][v].session = t)
    <3>1. CASE t = s
      <4>1. n + 1 \in DOMAIN free'
        BY <1>9, <1>10
      <4> QED
        BY <1>10, <3>1, <4>1
    <3>2. CASE \E i \in DOMAIN free : free[i] = t
      <4>1. PICK i \in 1 .. n : free[i] = t
        BY <1>9, <3>2
      <4>2. i \in DOMAIN free'
        BY <1>9, <1>10
      <4> QED
        BY <1>10, <4>1, <4>2
    <3>3. CASE t # s /\ \E g \in Files, v \in Threads : worker[g][v].session = t
      <4>1. PICK g \in Files, v \in Threads : worker[g][v].session = t
        BY <3>3
      <4>2. g # f \/ v # w
        BY <3>3, <4>1
      <4> QED
        BY <1>13, <4>1, <4>2
    <3> QED
      BY <3>1, <3>2, <3>3 DEF IInv, OnePlace
  <2> QED
    BY <2>2, <2>3, <2>4, <2>5 DEF OnePlace
<1> QED
  BY <1>7, <1>11, <1>12, <1>14, <1>15, SteppedFrame DEF IInv
-----------------------------------------------------------------------------
(* The caller leaves the stack and the threads alone.                        *)
LEMMA CallerFrame ==
  ASSUME IInv, UNCHANGED <<free, worker>>, NEW f \in Files,
         call[f].ret # "idle", call'[f].ret # "idle", call'[f].n = call[f].n, call'[f].kind = call[f].kind,
         \A g \in Files : g # f => call'[g] = call[g] /\ next'[g] = next[g]
  PROVE  HeldWhileUsed' /\ OnePlace' /\ StartsClean' /\ ChunksFollow' /\ ResultsAreOwn'
<1> USE DEF IInv
<1>1. free' = free /\ worker' = worker
  OBVIOUS
<1>2. \A g \in Files : Spawned(g)' = Spawned(g)
  BY <1>1 DEF Spawned
<1>3. \A g \in Files : /\ call'[g].kind = call[g].kind /\ call'[g].n = call[g].n
                       /\ call'[g].ret = "idle" <=> call[g].ret = "idle"
  OBVIOUS
<1>4. HeldWhileUsed'
  BY <1>1 DEF HeldWhileUsed
<1>5. OnePlace'
  BY <1>1 DEF OnePlace
<1>6. StartsClean'
  BY <1>1, <1>3 DEF StartsClean
<1>7. ChunksFollow'
  BY <1>1, <1>2, <1>3 DEF ChunksFollow
<1>8. ResultsAreOwn'
  BY <1>1, <1>3 DEF ResultsAreOwn
<1> QED
  BY <1>4, <1>5, <1>6, <1>7, <1>8

(* What the caller does to its call: the record that replaces it.            *)
LEMMA CallReplaced ==
  ASSUME IInv, NEW f \in Files, NEW c \in CallRecords, NEW m \in 1 .. (PoolThreads + 1),
         call' = [call EXCEPT ![f] = c], next' = [next EXCEPT ![f] = m], UNCHANGED <<free, worker>>,
         call[f].ret # "idle", c.ret # "idle", c.n = call[f].n, c.kind = call[f].kind,
         /\ \A i \in DOMAIN c.out : c.out[i] \in {i, ItemError}
         /\ c.ret = "joining" =>
              Len(c.out) = (IF m \in Spawned(f) THEN worker[f][m].chunk[1] - 1 ELSE c.n)
         /\ c.ret \in {"leave ok", "ok"} => Len(c.out) = c.n /\ \A i \in DOMAIN c.out : c.out[i] = i
  PROVE  IInv'
<1>1. call \in [Files -> CallRecords] /\ next \in [Files -> 1 .. (PoolThreads + 1)]
      /\ free \in Seq(Sessions) /\ worker \in [Files -> [Threads -> WorkerRecords]]
  BY Typed DEF IInv
<1>2. /\ call' \in [Files -> CallRecords] /\ call'[f] = c
      /\ \A g \in Files : g # f => call'[g] = call[g]
  BY <1>1
<1>3. /\ next' \in [Files -> 1 .. (PoolThreads + 1)] /\ next'[f] = m
      /\ \A g \in Files : g # f => next'[g] = next[g]
  BY <1>1
<1>4. TypeOK'
  <2>1. TypeOK' <=> /\ free' \in Seq(Sessions) /\ call' \in [Files -> CallRecords]
                    /\ worker' \in [Files -> [Threads -> WorkerRecords]]
                    /\ next' \in [Files -> 1 .. (PoolThreads + 1)]
    BY DEF TypeOK, States, WorkerRecords, Rets, CallRecords
  <2> QED
    BY <1>1, <1>2, <1>3, <2>1
<1>5. OutInOrder'
  <2>1. worker' = worker /\ \A g \in Files : Spawned(g)' = Spawned(g)
    BY DEF Spawned
  <2> SUFFICES ASSUME NEW g \in Files
               PROVE  LET out == call'[g].out IN
                 /\ \A i \in DOMAIN out : out[i] \in {i, ItemError}
                 /\ call'[g].ret = "joining" =>
                      Len(out) = (IF next'[g] \in Spawned(g)' THEN worker'[g][next'[g]].chunk[1] - 1 ELSE call'[g].n)
                 /\ call'[g].ret \in {"leave ok", "ok"} => Len(out) = call'[g].n /\ \A i \in DOMAIN out : out[i] = i
    BY DEF OutInOrder
  <2>2. CASE g = f
    BY <1>2, <1>3, <2>1, <2>2
  <2>3. CASE g # f
    BY <1>2, <1>3, <2>1, <2>3 DEF IInv, OutInOrder
  <2> QED
    BY <2>2, <2>3
<1>6. HeldWhileUsed' /\ OnePlace' /\ StartsClean' /\ ChunksFollow' /\ ResultsAreOwn'
  BY <1>2, <1>3, CallerFrame
<1> QED
  BY <1>4, <1>5, <1>6 DEF IInv

LEMMA CallFields ==
  ASSUME IInv, NEW f \in Files
  PROVE  /\ call[f] \in CallRecords /\ call[f].out \in Seq(Nat) /\ call[f].n \in Nat
         /\ Len(call[f].out) \in Nat /\ DOMAIN call[f].out = 1 .. Len(call[f].out)
         /\ \A i \in DOMAIN call[f].out : call[f].out[i] \in {i, ItemError}
         /\ next[f] \in 1 .. (PoolThreads + 1)
<1>1. call[f] \in CallRecords /\ next[f] \in 1 .. (PoolThreads + 1)
  BY Typed DEF IInv
<1>2. call[f].out \in Seq(Nat) /\ call[f].n \in Nat
  BY <1>1 DEF CallRecords
<1>3. \A i \in DOMAIN call[f].out : call[f].out[i] \in {i, ItemError}
  BY DEF IInv, OutInOrder
<1> QED
  BY <1>1, <1>2, <1>3, LenProperties

LEMMA Concatenated ==
  ASSUME NEW a \in Seq(Nat), NEW b \in Seq(Nat)
  PROVE  /\ a \o b \in Seq(Nat) /\ Len(a \o b) = Len(a) + Len(b)
         /\ Len(a) \in Nat /\ Len(b) \in Nat
         /\ \A i \in 1 .. (Len(a) + Len(b)) : (a \o b)[i] = IF i <= Len(a) THEN a[i] ELSE b[i - Len(a)]
BY ConcatProperties, LenProperties

(* What is collected ends before chunk c; r are the results of c.             *)
ComesNext(out, r, c, to) ==
  /\ Len(r) = Len(c) /\ Len(c) # 0 /\ c[1] = Len(out) + 1 /\ c[1] + Len(c) = to + 1
  /\ \A k \in DOMAIN c : c[k] = c[1] + k - 1
  /\ \A i \in DOMAIN out : out[i] \in {i, ItemError}
  /\ \A k \in DOMAIN r : r[k] \in {c[k], ItemError}

(* A joined thread's results are those of the items that come next.          *)
LEMMA Appends ==
  ASSUME NEW out \in Seq(Nat), NEW r \in Seq(Nat), NEW c \in Seq(Nat), NEW to \in Nat,
         ComesNext(out, r, c, to)
  PROVE  /\ out \o r \in Seq(Nat) /\ Len(out \o r) = to
         /\ \A i \in DOMAIN (out \o r) : (out \o r)[i] \in {i, ItemError}
<1> USE DEF ComesNext
<1> DEFINE all == out \o r
<1>1. /\ all \in Seq(Nat) /\ Len(all) = Len(out) + Len(r)
      /\ Len(out) \in Nat /\ Len(r) \in Nat
      /\ \A i \in 1 .. (Len(out) + Len(r)) : all[i] = IF i <= Len(out) THEN out[i] ELSE r[i - Len(out)]
  BY Concatenated
<1>2. /\ DOMAIN out = 1 .. Len(out) /\ DOMAIN r = 1 .. Len(r) /\ DOMAIN c = 1 .. Len(c)
      /\ DOMAIN all = 1 .. Len(all)
  BY <1>1, LenProperties
<1> HIDE DEF all
<1>3. Len(all) = to
  <2>1. Len(out) + 1 + Len(r) = to + 1
    OBVIOUS
  <2>2. \A a, b \in Nat : a + 1 + b = to + 1 => a + b = to
    OBVIOUS
  <2> QED
    BY <1>1, <2>1, <2>2
<1>4. ASSUME NEW i \in 1 .. (Len(out) + Len(r)) PROVE all[i] \in {i, ItemError}
  <2>1. CASE i <= Len(out)
    <3>1. i \in DOMAIN out /\ all[i] = out[i]
      BY <1>1, <1>2, <2>1
    <3> QED
      BY <3>1
  <2>2. CASE ~(i <= Len(out))
    <3>1. PICK k \in 1 .. Len(r) : k = i - Len(out) /\ Len(out) + 1 + k - 1 = i
      BY <1>1, <2>2
    <3>2. k \in DOMAIN r /\ k \in DOMAIN c
      BY <1>2
    <3>3. c[k] = Len(out) + 1 + k - 1
      BY <3>2
    <3>4. all[i] = r[k]
      BY <1>1, <2>2, <3>1
    <3> QED
      BY <3>1, <3>2, <3>3, <3>4
  <2> QED
    BY <2>1, <2>2
<1> QED
  BY <1>1, <1>2, <1>3, <1>4 DEF all

LEMMA JoinInv ==
  ASSUME SessionPoolAssumption, IInv, NEW f \in Files, Join(f)
  PROVE  IInv'
<1> DEFINE m == next[f]
           me == worker[f][m]
           old == call[f]
           ret == CASE me.state = "done" -> "joining"
                    [] me.state = "failed" -> "leave failed"
                    [] me.state = "panicked" -> IF old.kind = "embed" THEN "leave failed" ELSE "leave panicked"
           out == IF me.state = "done" THEN old.out \o me.results ELSE old.out
           c == [old EXCEPT !.out = out, !.ret = ret]
<1>1. /\ old.ret = "joining" /\ m \in Spawned(f) /\ Ended(f, m) /\ UNCHANGED <<free, worker>>
      /\ next' = [next EXCEPT ![f] = @ + 1]
      /\ call' = [call EXCEPT ![f].out = IF me.state = "done" THEN @ \o me.results ELSE @, ![f].ret = ret]
  BY DEF Join
<1>2. m \in Threads /\ m + 1 \in 1 .. (PoolThreads + 1) /\ me.state \in {"done", "failed", "panicked"}
  <2>1. m \in Threads
    BY <1>1 DEF Spawned
  <2>2. me.state \in {"done", "failed", "panicked"}
    BY <1>1 DEF Ended
  <2> HIDE DEF m
  <2> QED
    BY <2>1, <2>2 DEF Threads, SessionPoolAssumption
<1>3. call' = [call EXCEPT ![f] = c] /\ next' = [next EXCEPT ![f] = m + 1]
  <2>1. call \in [Files -> CallRecords] /\ next \in [Files -> 1 .. (PoolThreads + 1)]
    BY Typed DEF IInv
  <2>2. call' = [call EXCEPT ![f].out = out, ![f].ret = ret]
    BY <1>1
  <2> HIDE DEF out, ret
  <2> QED
    BY <1>1, <2>1, <2>2
<1>4. /\ ret \in {"joining", "leave failed", "leave panicked"}
      /\ ret = "joining" <=> me.state = "done"
  <2>1. CASE me.state = "done"
    BY <2>1
  <2>2. CASE me.state = "failed"
    BY <2>2
  <2>3. CASE me.state = "panicked"
    BY <2>3
  <2> QED
    BY <1>2, <2>1, <2>2, <2>3
<1> HIDE DEF ret
<1>5. /\ old \in CallRecords /\ old.out \in Seq(Nat) /\ old.n \in Nat
      /\ \A i \in DOMAIN old.out : old.out[i] \in {i, ItemError}
  BY CallFields
<1>6. /\ out \in Seq(Nat) /\ \A i \in DOMAIN out : out[i] \in {i, ItemError}
      /\ me.state = "done" => Len(out) = (IF m + 1 \in Spawned(f) THEN worker[f][m + 1].chunk[1] - 1 ELSE old.n)
  <2>1. CASE me.state = "done"
    <3> DEFINE ch == me.chunk
               r == me.results
               to == IF m + 1 \in Spawned(f) THEN worker[f][m + 1].chunk[1] - 1 ELSE old.n
    <3>1. ch \in Seq(Nat) /\ r \in Seq(Nat) /\ Len(ch) # 0
      BY <1>2, <2>1, Thread
    <3>2. Len(r) = Len(ch) /\ \A k \in DOMAIN r : r[k] \in {ch[k], ItemError}
      BY <1>2, <2>1 DEF IInv, ResultsAreOwn
    <3>3. ch[1] - 1 = Len(old.out)
      BY <1>1 DEF IInv, OutInOrder
    <3>4. /\ \A k \in DOMAIN ch : ch[k] = ch[1] + k - 1
          /\ ch[1] + Len(ch) = IF m + 1 \in Spawned(f) THEN worker[f][m + 1].chunk[1] ELSE old.n + 1
      BY <1>1 DEF IInv, ChunksFollow
    <3>5. ch[1] \in Nat /\ Len(ch) \in Nat /\ Len(old.out) \in Nat
      <4>1. DOMAIN ch = 1 .. Len(ch) /\ Len(ch) \in Nat /\ Len(old.out) \in Nat
        BY <1>5, <3>1, LenProperties
      <4>2. 1 \in 1 .. Len(ch)
        BY <3>1, <4>1
      <4> QED
        BY <3>1, <4>1, <4>2, ElementOfSeq
    <3>6. m + 1 \in Spawned(f) => worker[f][m + 1].chunk[1] \in Nat
      <4> SUFFICES ASSUME m + 1 \in Spawned(f) PROVE worker[f][m + 1].chunk[1] \in Nat
        OBVIOUS
      <4> DEFINE d == worker[f][m + 1].chunk
      <4>1. m + 1 \in Threads /\ worker[f][m + 1].state # "none"
        BY DEF Spawned
      <4>2. d \in Seq(Nat) /\ Len(d) # 0
        BY <4>1, Thread
      <4> HIDE DEF d
      <4>3. 1 \in 1 .. Len(d)
        BY <4>2, LenProperties
      <4>4. d[1] \in Nat
        BY <4>2, <4>3, ElementOfSeq
      <4> QED
        BY <4>4 DEF d
    <3>7. ch[1] = Len(old.out) + 1 /\ to \in Nat /\ ch[1] + Len(ch) = to + 1
      <4>1. CASE m + 1 \in Spawned(f)
        <5> DEFINE x == worker[f][m + 1].chunk[1]
        <5>1. x \in Nat /\ ch[1] + Len(ch) = x /\ to = x - 1
          BY <3>4, <3>6, <4>1
        <5> HIDE DEF x, to, ch
        <5> QED
          BY <3>3, <3>5, <5>1
      <4>2. CASE m + 1 \notin Spawned(f)
        <5>1. ch[1] + Len(ch) = old.n + 1 /\ to = old.n
          BY <3>4, <4>2
        <5> HIDE DEF to, ch
        <5> QED
          BY <1>5, <3>3, <3>5, <5>1
      <4> QED
        BY <4>1, <4>2
    <3>8. out = old.out \o r
      BY <2>1
    <3> HIDE DEF ch, r, to, out
    <3>9. out \in Seq(Nat) /\ Len(out) = to /\ \A i \in DOMAIN out : out[i] \in {i, ItemError}
      <4> HIDE DEF old
      <4>1. \A k \in DOMAIN ch : ch[k] = ch[1] + k - 1
        BY <3>4
      <4>2. /\ old.out \in Seq(Nat) /\ ch \in Seq(Nat) /\ r \in Seq(Nat) /\ to \in Nat
            /\ ComesNext(old.out, r, ch, to)
        BY <1>5, <3>1, <3>2, <3>7, <4>1 DEF ComesNext
      <4>3. /\ old.out \o r \in Seq(Nat) /\ Len(old.out \o r) = to
            /\ \A i \in DOMAIN (old.out \o r) : (old.out \o r)[i] \in {i, ItemError}
        BY <4>2, Appends
      <4> QED
        BY <3>8, <4>3
    <3> QED
      BY <3>9 DEF to
  <2>2. CASE me.state # "done"
    BY <1>5, <2>2
  <2> QED
    BY <2>1, <2>2
<1> HIDE DEF out
<1>7. /\ c \in CallRecords /\ c.out = out /\ c.ret = ret /\ c.n = old.n /\ c.kind = old.kind
  BY <1>4, <1>5, <1>6 DEF CallRecords, Rets
<1> HIDE DEF c
<1>8. /\ \A i \in DOMAIN c.out : c.out[i] \in {i, ItemError}
      /\ c.ret = "joining" =>
           Len(c.out) = (IF m + 1 \in Spawned(f) THEN worker[f][m + 1].chunk[1] - 1 ELSE c.n)
      /\ c.ret \in {"leave ok", "ok"} => Len(c.out) = c.n /\ \A i \in DOMAIN c.out : c.out[i] = i
  BY <1>4, <1>6, <1>7
<1>9. c.ret # "idle" /\ call[f].ret # "idle"
  BY <1>1, <1>4, <1>7
<1> QED
  BY <1>1, <1>2, <1>3, <1>7, <1>8, <1>9, CallReplaced, ZenonT(30)

LEMMA CollectInv ==
  ASSUME IInv, NEW f \in Files, Collect(f)
  PROVE  IInv'
<1> DEFINE m == next[f]
           old == call[f]
           ret == IF Contains(old.out, ItemError) THEN "leave failed" ELSE "leave ok"
           c == [old EXCEPT !.ret = ret]
<1>1. /\ old.ret = "joining" /\ m \notin Spawned(f) /\ UNCHANGED <<free, worker, next>>
      /\ call' = [call EXCEPT ![f].ret = ret]
  BY DEF Collect
<1>2. /\ old \in CallRecords /\ old.out \in Seq(Nat) /\ old.n \in Nat
      /\ Len(old.out) \in Nat /\ DOMAIN old.out = 1 .. Len(old.out)
      /\ \A i \in DOMAIN old.out : old.out[i] \in {i, ItemError}
      /\ m \in 1 .. (PoolThreads + 1)
  BY CallFields
<1>3. Len(old.out) = old.n
  BY <1>1 DEF IInv, OutInOrder
<1>4. ret \in {"leave ok", "leave failed"} /\ (ret = "leave ok" => \A i \in DOMAIN old.out : old.out[i] = i)
  <2>1. ret = "leave ok" => \A i \in 1 .. Len(old.out) : old.out[i] # ItemError
    BY DEF Contains
  <2> QED
    BY <1>2, <2>1
<1>5. call' = [call EXCEPT ![f] = c] /\ next' = [next EXCEPT ![f] = m]
  <2>1. call' = [call EXCEPT ![f] = c]
    BY <1>1
  <2>2. next \in [Files -> 1 .. (PoolThreads + 1)] /\ next' = next
    BY <1>1, Typed DEF IInv
  <2>3. next' = [next EXCEPT ![f] = m]
    BY <2>2
  <2> QED
    BY <2>1, <2>3
<1> HIDE DEF ret
<1>6. c \in CallRecords /\ c.out = old.out /\ c.ret = ret /\ c.n = old.n /\ c.kind = old.kind
  BY <1>2, <1>4 DEF CallRecords, Rets
<1> HIDE DEF c
<1>7. /\ \A i \in DOMAIN c.out : c.out[i] \in {i, ItemError}
      /\ c.ret = "joining" =>
           Len(c.out) = (IF m \in Spawned(f) THEN worker[f][m].chunk[1] - 1 ELSE c.n)
      /\ c.ret \in {"leave ok", "ok"} => Len(c.out) = c.n /\ \A i \in DOMAIN c.out : c.out[i] = i
  BY <1>2, <1>3, <1>4, <1>6
<1>8. c.ret # "idle" /\ call[f].ret # "idle"
  BY <1>1, <1>4, <1>6
<1>9. c.n = call[f].n /\ c.kind = call[f].kind /\ UNCHANGED <<free, worker>>
  BY <1>1, <1>6
<1> HIDE DEF old, m
<1>10. c \in CallRecords /\ m \in 1 .. (PoolThreads + 1)
  BY <1>2, <1>6
<1> QED
  BY <1>5, <1>7, <1>8, <1>9, <1>10, CallReplaced

LEMMA LeaveInv ==
  ASSUME IInv, NEW f \in Files, Leave(f)
  PROVE  IInv'
<1> DEFINE m == next[f]
           old == call[f]
           ret == IF old.ret = "leave panicked" \/ \E w \in Spawned(f) : w >= next[f] /\ worker[f][w].state = "panicked"
                  THEN "panicked" ELSE IF old.ret = "leave ok" THEN "ok" ELSE "failed"
           c == [old EXCEPT !.ret = ret]
<1>1. /\ old.ret \in {"leave ok", "leave failed", "leave panicked"} /\ UNCHANGED <<free, worker, next>>
      /\ call' = [call EXCEPT ![f].ret = ret]
  BY DEF Leave
<1>2. /\ old \in CallRecords /\ old.out \in Seq(Nat) /\ old.n \in Nat
      /\ \A i \in DOMAIN old.out : old.out[i] \in {i, ItemError}
      /\ m \in 1 .. (PoolThreads + 1)
  BY CallFields
<1>3. old.ret = "leave ok" => Len(old.out) = old.n /\ \A i \in DOMAIN old.out : old.out[i] = i
  BY DEF IInv, OutInOrder
<1>4. ret \in {"ok", "failed", "panicked"} /\ (ret = "ok" => old.ret = "leave ok")
  OBVIOUS
<1>5. call' = [call EXCEPT ![f] = c] /\ next' = [next EXCEPT ![f] = m]
  <2>1. call' = [call EXCEPT ![f] = c]
    BY <1>1
  <2>2. next \in [Files -> 1 .. (PoolThreads + 1)] /\ next' = next
    BY <1>1, Typed DEF IInv
  <2>3. next' = [next EXCEPT ![f] = m]
    BY <2>2
  <2> QED
    BY <2>1, <2>3
<1> HIDE DEF ret
<1>6. c \in CallRecords /\ c.out = old.out /\ c.ret = ret /\ c.n = old.n /\ c.kind = old.kind
  BY <1>2, <1>4 DEF CallRecords, Rets
<1> HIDE DEF c
<1>7. /\ \A i \in DOMAIN c.out : c.out[i] \in {i, ItemError}
      /\ c.ret = "joining" =>
           Len(c.out) = (IF m \in Spawned(f) THEN worker[f][m].chunk[1] - 1 ELSE c.n)
      /\ c.ret \in {"leave ok", "ok"} => Len(c.out) = c.n /\ \A i \in DOMAIN c.out : c.out[i] = i
  BY <1>2, <1>3, <1>4, <1>6
<1>8. c.ret # "idle" /\ call[f].ret # "idle"
  BY <1>1, <1>4, <1>6
<1> QED
  BY <1>1, <1>2, <1>5, <1>6, <1>7, <1>8, CallReplaced, ZenonT(30)

LEMMA NextInv ==
  ASSUME SessionPoolAssumption, IInv, [Next]_vars
  PROVE  IInv'
<1>1. CASE UNCHANGED vars
  <2>1. free' = free /\ call' = call /\ worker' = worker /\ next' = next
    BY <1>1 DEF vars
  <2>2. TypeOK' /\ HeldWhileUsed' /\ StartsClean'
    BY <2>1 DEF IInv, TypeOK, HeldWhileUsed, StartsClean
  <2>3. OnePlace'
    BY <2>1 DEF IInv, OnePlace
  <2>4. ChunksFollow' /\ OutInOrder'
    <3>1. \A f \in Files : Spawned(f)' = Spawned(f)
      BY <2>1 DEF Spawned
    <3>2. ChunksFollow'
      BY <2>1, <3>1 DEF IInv, ChunksFollow
    <3>3. OutInOrder'
      BY <2>1, <3>1 DEF IInv, OutInOrder
    <3> QED
      BY <3>2, <3>3
  <2>5. ResultsAreOwn'
    BY <2>1 DEF IInv, ResultsAreOwn
  <2> QED
    BY <2>2, <2>3, <2>4, <2>5 DEF IInv
<1>2. ASSUME NEW f \in Files, NEW w \in Threads, Work(f, w) PROVE IInv'
  BY <1>2, CheckoutInv, InferWindowsInv, EmbedClipInv, WindowedInv, DropInv DEF Work
<1>3. ASSUME NEW f \in Files, Caller(f) PROVE IInv'
  BY <1>3, JoinInv, CollectInv, LeaveInv DEF Caller
<1>4. CASE Next
  BY <1>2, <1>3, <1>4, StartInv DEF Next
<1> QED
  BY <1>1, <1>4
-----------------------------------------------------------------------------
(* Who holds which session, and which items the results are of, in every    *)
(* reachable state.                                                         *)
THEOREM SessionsInvariance == ASSUME SessionPoolAssumption PROVE Spec => []IInv
<1>1. Init => IInv
  BY InitInv
<1>2. IInv /\ [Next]_vars => IInv'
  BY NextInv
<1> QED
  BY <1>1, <1>2, PTL DEF Spec

LEMMA OnePlaceCounts == ASSUME SessionPoolAssumption, IInv PROVE SessionsAreConserved
<1> SUFFICES ASSUME NEW s \in Sessions
             PROVE  Cardinality(Holders(s)) + Cardinality({i \in DOMAIN free : free[i] = s}) = 1
  BY DEF SessionsAreConserved
<1> DEFINE at == {i \in DOMAIN free : free[i] = s}
<1>1. s # NoSession
  BY DEF SessionPoolAssumption, NoSession
<1>2. Cardinality({}) = 0 /\ \A x : Cardinality({x}) = 1
  BY FS_EmptySet, FS_Singleton
<1>3. CASE \E i \in DOMAIN free : free[i] = s
  <2>1. PICK i \in DOMAIN free : free[i] = s
    BY <1>3
  <2>2. at = {i}
    BY <2>1 DEF IInv, OnePlace
  <2>3. Holders(s) = {}
    BY <2>1 DEF IInv, OnePlace, Holders
  <2>4. Cardinality(at) = 1 /\ Cardinality(Holders(s)) = 0
    BY <1>2, <2>2, <2>3
  <2> QED
    BY <2>4
<1>4. CASE \E f \in Files, w \in Threads : worker[f][w].session = s
  <2>1. PICK f \in Files, w \in Threads : worker[f][w].session = s
    BY <1>4
  <2>2. at = {}
    BY <2>1 DEF IInv, OnePlace
  <2>3. Holders(s) = {<<f, w>>}
    <3>1. <<f, w>> \in Holders(s)
      BY <2>1 DEF Holders
    <3>2. ASSUME NEW fw \in Holders(s) PROVE fw = <<f, w>>
      <4>1. /\ fw \in Files \X Threads /\ fw[1] \in Files /\ fw[2] \in Threads
            /\ fw = <<fw[1], fw[2]>> /\ worker[fw[1]][fw[2]].session = s
        BY DEF Holders
      <4>2. fw[1] = f /\ fw[2] = w
        BY <1>1, <2>1, <4>1 DEF IInv, OnePlace
      <4> QED
        BY <4>1, <4>2
    <3> QED
      BY <3>1, <3>2
  <2>4. Cardinality(at) = 0 /\ Cardinality(Holders(s)) = 1
    BY <1>2, <2>2, <2>3
  <2> QED
    BY <2>4
<1> QED
  BY <1>3, <1>4 DEF IInv, OnePlace

(* ObjectPool: a session is in the stack once or with one thread, and never  *)
(* lost, on every way out of an inference, for any pool and any callers.     *)
THEOREM SessionsAreConservedAlways ==
  ASSUME SessionPoolAssumption PROVE Spec => []SessionsAreConserved
BY SessionsInvariance, OnePlaceCounts, PTL

LEMMA OutFits == ASSUME IInv PROVE ResultsInOrder
<1> SUFFICES ASSUME NEW f \in Files, call[f].ret = "ok"
             PROVE  call[f].out = [i \in 1 .. call[f].n |-> i]
  BY DEF ResultsInOrder
<1>1. call[f].out \in Seq(Nat) /\ DOMAIN call[f].out = 1 .. Len(call[f].out)
  BY CallFields
<1>2. Len(call[f].out) = call[f].n /\ \A i \in DOMAIN call[f].out : call[f].out[i] = i
  BY DEF IInv, OutInOrder
<1> DEFINE out == call[f].out
<1> HIDE DEF out
<1>3. out \in [1 .. Len(out) -> Nat]
  BY <1>1, LenProperties DEF out
<1>4. out = [i \in 1 .. Len(out) |-> out[i]]
  BY <1>3
<1>5. Len(out) = call[f].n /\ \A i \in 1 .. Len(out) : out[i] = i
  BY <1>1, <1>2 DEF out
<1>6. out = [i \in 1 .. call[f].n |-> i]
  BY <1>4, <1>5
<1> QED
  BY <1>6 DEF out

(* segment and parallel_embed_batch: what a call returns are the results of   *)
(* its own windows or clips, in order, whichever thread and session ran them. *)
THEOREM ResultsInOrderAlways ==
  ASSUME SessionPoolAssumption PROVE Spec => []ResultsInOrder
BY SessionsInvariance, OutFits, PTL
=============================================================================
