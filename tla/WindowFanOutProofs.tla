------------------------- MODULE WindowFanOutProofs -------------------------
(***************************************************************************)
(* Proofs about WindowFanOut, for every length of a recording, number of   *)
(* threads and pack size: infer_windows returns the rows of the windows,   *)
(* in order, however the packs are cut and whoever runs them, and never    *)
(* reports that it dropped a pack.                                         *)
(***************************************************************************)
EXTENDS WindowFanOut, SequenceTheorems, TLAPS

USE DEF WindowFanOutAssumption

(* Rounding up: the last of Ceil(n, c) packs of c starts before n and      *)
(* reaches it.                                                             *)
LEMMA CeilBounds ==
  ASSUME NEW n \in Nat \ {0}, NEW c \in Nat \ {0}
  PROVE  /\ Ceil(n, c) \in Nat \ {0}
         /\ (Ceil(n, c) - 1) * c < n
         /\ n <= Ceil(n, c) * c
<1> DEFINE q == (n + c - 1) \div c
<1>1. q \in Nat /\ q * c <= n + c - 1 /\ n + c - 1 < q * c + c
  OBVIOUS
<1> HIDE DEF q
<1>2. (q - 1) * c = q * c - c
  BY <1>1
<1>3. q # 0
  BY <1>1
<1> QED
  BY <1>1, <1>2, <1>3 DEF Ceil, q

LEMMA ChunkFields ==
  ASSUME NEW n \in Nat \ {0}, NEW c \in Nat \ {0}
  PROVE  /\ Chunks(n, c) \in Seq(Packs) /\ Len(Chunks(n, c)) = Ceil(n, c)
         /\ \A k \in 1 .. Ceil(n, c) :
              /\ Chunks(n, c)[k].off = (k - 1) * c
              /\ Chunks(n, c)[k].off < n
              /\ Chunks(n, c)[k].len = Smaller(c, n - (k - 1) * c)
<1> DEFINE m == Ceil(n, c)
           ch == Chunks(n, c)
<1>1. m \in Nat \ {0} /\ (m - 1) * c < n
  BY CeilBounds
<1> HIDE DEF m
<1>2. ASSUME NEW k \in 1 .. m PROVE (k - 1) * c \in Nat /\ (k - 1) * c < n
  <2>1. k - 1 \in Nat /\ m - 1 \in Nat /\ k - 1 <= m - 1
    BY <1>1
  <2>2. (k - 1) * c <= (m - 1) * c /\ (k - 1) * c \in Nat /\ (m - 1) * c \in Nat
    BY <2>1
  <2> QED
    BY <1>1, <2>2
<1>3. ch = [k \in 1 .. m |-> [off |-> (k - 1) * c, len |-> Smaller(c, n - (k - 1) * c)]]
  BY DEF Chunks, m
<1>4. ASSUME NEW k \in 1 .. m PROVE Smaller(c, n - (k - 1) * c) \in Nat
  BY <1>2 DEF Smaller
<1>5. ch \in [1 .. m -> Packs]
  BY <1>2, <1>3, <1>4 DEF Packs
<1>6. ch \in Seq(Packs)
  BY <1>1, <1>5, SeqDef
<1>7. DOMAIN ch = 1 .. m /\ DOMAIN ch = 1 .. Len(ch) /\ Len(ch) \in Nat
  BY <1>5, <1>6, LenProperties
<1>8. Len(ch) = m
  BY <1>1, <1>7
<1>9. \A k \in 1 .. m : /\ ch[k].off = (k - 1) * c
                        /\ ch[k].len = Smaller(c, n - (k - 1) * c)
  BY <1>3
<1> HIDE DEF ch
<1> QED
  BY <1>2, <1>6, <1>8, <1>9 DEF m, ch

(* The packs follow each other from the first window to the last.          *)
LEMMA ChunksFollow ==
  ASSUME NEW n \in Nat \ {0}, NEW c \in Nat \ {0}, NEW k \in 1 .. Ceil(n, c)
  PROVE  LET ch == Chunks(n, c) IN
         ch[k].off + ch[k].len = IF k + 1 \in 1 .. Ceil(n, c) THEN ch[k + 1].off ELSE n
<1> DEFINE m == Ceil(n, c)
           ch == Chunks(n, c)
<1>1. m \in Nat \ {0} /\ n <= m * c
  BY CeilBounds
<1>2. /\ ch[k].off = (k - 1) * c
      /\ ch[k].len = Smaller(c, n - (k - 1) * c)
      /\ k + 1 \in 1 .. m => ch[k + 1].off = k * c /\ k * c < n
  <2>1. k \in Nat /\ (k + 1) - 1 = k
    BY <1>1
  <2> HIDE DEF m, ch
  <2>2. \A j \in 1 .. m : /\ ch[j].off = (j - 1) * c /\ ch[j].off < n
                          /\ ch[j].len = Smaller(c, n - (j - 1) * c)
    BY ChunkFields DEF m, ch
  <2> QED
    BY <2>1, <2>2 DEF m
<1> HIDE DEF m, ch
<1>3. (k - 1) * c = k * c - c
  BY <1>1 DEF m
<1>4. CASE k + 1 \in 1 .. m
  BY <1>1, <1>2, <1>3, <1>4 DEF m, ch, Smaller
<1>5. CASE k + 1 \notin 1 .. m
  <2>1. k = m
    BY <1>1, <1>5 DEF m
  <2>2. n <= k * c
    BY <1>1, <2>1
  <2> QED
    BY <1>2, <1>3, <1>5, <2>2 DEF m, ch, Smaller
<1> QED
  BY <1>4, <1>5

(* Every window is in a pack.                                              *)
LEMMA ChunksCover ==
  ASSUME NEW n \in Nat \ {0}, NEW c \in Nat \ {0}, NEW i \in 1 .. n
  PROVE  \E k \in 1 .. Ceil(n, c) : PackHas(Chunks(n, c)[k], i)
<1> DEFINE m == Ceil(n, c)
           k == Ceil(i, c)
<1>1. m \in Nat \ {0} /\ n <= m * c
  BY CeilBounds
<1>2. k \in Nat \ {0} /\ (k - 1) * c < i /\ i <= k * c
  <2>1. i \in Nat \ {0}
    OBVIOUS
  <2> QED
    BY <2>1, CeilBounds
<1> HIDE DEF m, k
<1>3. (k - 1) * c < m * c /\ (k - 1) * c = k * c - c
  BY <1>1, <1>2
<1>4. k - 1 < m
  BY <1>1, <1>2, <1>3
<1>5. k \in 1 .. m
  BY <1>1, <1>2, <1>4
<1>6. /\ Chunks(n, c)[k].off = (k - 1) * c
      /\ Chunks(n, c)[k].len = Smaller(c, n - (k - 1) * c)
  BY <1>5, ChunkFields DEF m
<1>7. PackHas(Chunks(n, c)[k], i)
  BY <1>2, <1>3, <1>6 DEF PackHas, Smaller
<1> QED
  BY <1>5, <1>7 DEF m

(* A recording's packs: from the first window to the last, each window in one. *)
InOrderTo(ch, n) ==
  /\ Len(ch) # 0 /\ ch[1].off = 0
  /\ \A k \in 1 .. Len(ch) :
       ch[k].off + ch[k].len = IF k + 1 \in 1 .. Len(ch) THEN ch[k + 1].off ELSE n
  /\ \A i \in 1 .. n : \E k \in 1 .. Len(ch) : PackHas(ch[k], i)

LEMMA ChunksPartition ==
  ASSUME NEW n \in Nat \ {0}, NEW c \in Nat \ {0}
  PROVE  /\ Chunks(n, c) \in Seq(Packs) /\ Len(Chunks(n, c)) = Ceil(n, c)
         /\ InOrderTo(Chunks(n, c), n)
<1>1. Ceil(n, c) \in Nat \ {0} /\ 1 \in 1 .. Ceil(n, c) /\ (1 - 1) * c = 0
  BY CeilBounds
<1>2. /\ Chunks(n, c) \in Seq(Packs) /\ Len(Chunks(n, c)) = Ceil(n, c)
      /\ \A k \in 1 .. Ceil(n, c) : Chunks(n, c)[k].off = (k - 1) * c
  BY ChunkFields
<1>3. Chunks(n, c)[1].off = 0
  BY <1>1, <1>2
<1>4. \A k \in 1 .. Ceil(n, c) : Chunks(n, c)[k].off + Chunks(n, c)[k].len =
        IF k + 1 \in 1 .. Ceil(n, c) THEN Chunks(n, c)[k + 1].off ELSE n
  BY ChunksFollow
<1>5. \A i \in 1 .. n : \E k \in 1 .. Ceil(n, c) : PackHas(Chunks(n, c)[k], i)
  BY ChunksCover
<1> QED
  BY <1>1, <1>2, <1>3, <1>4, <1>5 DEF InOrderTo

LEMMA InferChunkRows ==
  ASSUME NEW p \in Packs
  PROVE  /\ InferChunk(p) \in Seq(Nat) /\ Len(InferChunk(p)) = p.len
         /\ DOMAIN InferChunk(p) = 1 .. p.len
         /\ \A j \in 1 .. p.len : InferChunk(p)[j] = p.off + j
<1>1. p.off \in Nat /\ p.len \in Nat
  BY DEF Packs
<1> DEFINE rows == InferChunk(p)
<1>2. rows \in [1 .. p.len -> Nat]
  BY <1>1 DEF InferChunk
<1>3. rows \in Seq(Nat)
  BY <1>1, <1>2, SeqDef
<1>4. DOMAIN rows = 1 .. p.len /\ DOMAIN rows = 1 .. Len(rows) /\ Len(rows) \in Nat
  BY <1>2, <1>3, LenProperties
<1>5. Len(rows) = p.len
  BY <1>1, <1>4
<1> QED
  BY <1>3, <1>4, <1>5 DEF InferChunk
-----------------------------------------------------------------------------
LEMMA InitInv == ASSUME WindowFanOutAssumption, Init PROVE IInv
<1> USE DEF Init
<1>1. TypeOK
  <2>1. <<>> \in Seq(Packs) /\ <<>> \in Seq(Nat) /\ <<>> \in Seq([off : Nat, rows : Seq(Nat)])
    BY EmptySeq
  <2> QED
    BY <2>1 DEF TypeOK, Packs, NoPack
<1>2. Len(slots) = 0 /\ DOMAIN slots = {}
  OBVIOUS
<1> QED
  BY <1>1, <1>2 DEF IInv, StartsClean, JoinedInOrder, RowsAreOwn, SplitIsInOrder, QueueDropsNone,
                    Spawned

(* Without threads the caller infers the windows itself.                   *)
LEMMA AloneInv ==
  ASSUME WindowFanOutAssumption, IInv, call.ret = "idle", NEW n \in WindowCounts, Alone(n)
  PROVE  IInv'
<1> DEFINE p == [off |-> 0, len |-> n]
<1>1. PICK ok \in BOOLEAN :
        /\ slots' = IF ok THEN InferChunk(p) ELSE <<>>
        /\ call' = [n |-> n, static |-> TRUE, ret |-> IF ok THEN "ok" ELSE "failed"]
  BY DEF Alone
<1>2. UNCHANGED <<packs, worker, held, local, next>>
  BY DEF Alone
<1>3. next = 1 /\ \A w \in 1 .. MaxThreads : local[w] = <<>> /\ worker[w] = "none"
  BY DEF IInv, StartsClean
<1>4. n \in Nat /\ p \in Packs /\ p.off = 0 /\ p.len = n
  BY DEF Packs
<1> HIDE DEF p
<1>5. /\ slots' \in Seq(Nat) /\ \A i \in DOMAIN slots' : slots'[i] = i
      /\ call'.ret = "ok" => Len(slots') = n
  <2>1. CASE ok
    BY <1>1, <1>4, <2>1, InferChunkRows
  <2>2. CASE ~ok
    BY <1>1, <2>2, EmptySeq
  <2> QED
    BY <2>1, <2>2
<1>6. TypeOK'
  <2>1. call' \in [n : Nat, static : BOOLEAN,
                  ret : {"idle", "joining", "leave ok", "leave failed", "leave panicked",
                         "leave dropped", "ok", "failed", "panicked", "dropped", "unwound"}]
    BY <1>1, <1>4
  <2> QED
    BY <1>2, <1>5, <2>1 DEF IInv, TypeOK
<1>7. /\ call'.n = n /\ call'.static /\ call'.ret \in {"ok", "failed"}
      /\ packs' = <<>> /\ Spawned' = {} /\ held'[1].off = 0
  <2>1. packs = <<>> /\ held[1].off = 0
    BY DEF IInv, StartsClean, NoPack
  <2> QED
    BY <1>1, <1>2, <1>3, <2>1 DEF Spawned
<1>8. StartsClean' /\ JoinedInOrder' /\ SplitIsInOrder' /\ QueueDropsNone'
  BY <1>2, <1>3, <1>7 DEF StartsClean, JoinedInOrder, SplitIsInOrder, QueueDropsNone
<1>9. RowsAreOwn'
  <2>1. \A w \in 1 .. MaxThreads : DOMAIN local'[w] = {}
    BY <1>2, <1>3
  <2> QED
    BY <1>5, <1>7, <2>1 DEF RowsAreOwn
<1> QED
  BY <1>6, <1>8, <1>9 DEF IInv

(* What a spawn hands out: pack w to thread w, or the queue to all of them. *)
LEMMA SpawnEffect ==
  ASSUME WindowFanOutAssumption, IInv, call.ret = "idle", NEW n \in WindowCounts,
         NEW threads \in 2 .. MaxThreads, threads <= n, Spawn(n, threads)
  PROVE  \E ch \in Seq(Packs), static \in BOOLEAN :
           /\ InOrderTo(ch, n)
           /\ static => Len(ch) <= MaxThreads
           /\ packs' = IF static THEN <<>> ELSE ch
           /\ worker' \in [1 .. MaxThreads -> {"none", "loop", "busy"}]
           /\ worker'[1] # "none"
           /\ \A w \in 1 .. MaxThreads :
                /\ static => (worker'[w] = IF w <= Len(ch) THEN "busy" ELSE "none")
                /\ ~static => (worker'[w] = IF w <= threads THEN "loop" ELSE "none")
                /\ static /\ w <= Len(ch) => held'[w] = ch[w]
           /\ held' \in [1 .. MaxThreads -> Packs]
           /\ slots' = IF static THEN <<>> ELSE [i \in 1 .. n |-> NoRow]
           /\ call' = [n |-> n, static |-> static, ret |-> "joining"]
           /\ UNCHANGED <<local, next>>
<1> DEFINE c == PackSize(n, threads)
           m == Ceil(n, c)
           ch == Chunks(n, c)
           static == Static(n, threads)
<1>1. n \in Nat \ {0} /\ threads \in Nat \ {0}
  OBVIOUS
<1>2. c \in Nat \ {0}
  BY <1>1, CeilBounds DEF PackSize
<1>3. static \in BOOLEAN /\ (static => m <= threads)
  BY DEF Static
<1> HIDE DEF c
<1>4. m \in Nat \ {0} /\ ch \in Seq(Packs) /\ Len(ch) = m /\ InOrderTo(ch, n)
  BY <1>1, <1>2, CeilBounds, ChunksPartition
<1>5. \A k \in 1 .. m : ch[k] \in Packs
  BY <1>4, ElementOfSeq
<1>6. /\ packs' = IF static THEN <<>> ELSE ch
      /\ worker' = [w \in 1 .. MaxThreads |->
          IF static THEN IF w <= Len(ch) THEN "busy" ELSE "none"
          ELSE IF w <= threads THEN "loop" ELSE "none"]
      /\ held' = [w \in 1 .. MaxThreads |-> IF static /\ w <= Len(ch) THEN ch[w] ELSE NoPack]
      /\ slots' = IF static THEN <<>> ELSE [i \in 1 .. n |-> NoRow]
      /\ call' = [n |-> n, static |-> static, ret |-> "joining"]
      /\ UNCHANGED <<local, next>>
  BY DEF Spawn, c
<1> HIDE DEF m, ch, static
<1>7. held' \in [1 .. MaxThreads -> Packs]
  <2>1. NoPack \in Packs
    BY DEF NoPack, Packs
  <2>2. \A w \in 1 .. MaxThreads : (IF static /\ w <= Len(ch) THEN ch[w] ELSE NoPack) \in Packs
    BY <1>4, <1>5, <2>1
  <2> QED
    BY <1>6, <2>2
<1>8. /\ worker' \in [1 .. MaxThreads -> {"none", "loop", "busy"}]
      /\ \A w \in 1 .. MaxThreads :
           /\ static => (worker'[w] = IF w <= Len(ch) THEN "busy" ELSE "none")
           /\ ~static => (worker'[w] = IF w <= threads THEN "loop" ELSE "none")
           /\ static /\ w <= Len(ch) => held'[w] = ch[w]
  BY <1>3, <1>6
<1>9. worker'[1] # "none"
  BY <1>1, <1>3, <1>4, <1>8
<1>10. static => Len(ch) <= MaxThreads
  BY <1>1, <1>3, <1>4
<1> QED
  BY <1>3, <1>4, <1>6, <1>7, <1>8, <1>9, <1>10

LEMMA SpawnInv ==
  ASSUME WindowFanOutAssumption, IInv, call.ret = "idle", NEW n \in WindowCounts,
         NEW threads \in 2 .. MaxThreads, threads <= n, Spawn(n, threads)
  PROVE  IInv'
<1>1. PICK ch \in Seq(Packs), static \in BOOLEAN :
           /\ InOrderTo(ch, n)
           /\ static => Len(ch) <= MaxThreads
           /\ packs' = IF static THEN <<>> ELSE ch
           /\ worker' \in [1 .. MaxThreads -> {"none", "loop", "busy"}]
           /\ worker'[1] # "none"
           /\ \A w \in 1 .. MaxThreads :
                /\ static => (worker'[w] = IF w <= Len(ch) THEN "busy" ELSE "none")
                /\ ~static => (worker'[w] = IF w <= threads THEN "loop" ELSE "none")
                /\ static /\ w <= Len(ch) => held'[w] = ch[w]
           /\ held' \in [1 .. MaxThreads -> Packs]
           /\ slots' = IF static THEN <<>> ELSE [i \in 1 .. n |-> NoRow]
           /\ call' = [n |-> n, static |-> static, ret |-> "joining"]
           /\ UNCHANGED <<local, next>>
  BY SpawnEffect
<1> DEFINE m == Len(ch)
<1>2. /\ ch[1].off = 0
      /\ \A k \in 1 .. m : ch[k].off + ch[k].len = IF k + 1 \in 1 .. m THEN ch[k + 1].off ELSE n
      /\ \A i \in 1 .. n : \E k \in 1 .. m : PackHas(ch[k], i)
  BY <1>1 DEF InOrderTo
<1>4. m \in Nat \ {0} /\ DOMAIN ch = 1 .. m
  BY <1>1, LenProperties DEF InOrderTo
<1>5. /\ packs' = IF static THEN <<>> ELSE ch
      /\ \A w \in 1 .. MaxThreads :
           /\ static => (worker'[w] = IF w <= m THEN "busy" ELSE "none")
           /\ ~static => (worker'[w] = IF w <= threads THEN "loop" ELSE "none")
           /\ static /\ w <= m => held'[w] = ch[w]
      /\ static => m <= MaxThreads
  BY <1>1
<1> HIDE DEF m
<1>6. /\ worker' \in [1 .. MaxThreads -> {"none", "loop", "busy"}] /\ worker'[1] # "none"
      /\ held' \in [1 .. MaxThreads -> Packs]
      /\ slots' = IF static THEN <<>> ELSE [i \in 1 .. n |-> NoRow]
      /\ call'.n = n /\ call'.static = static /\ call'.ret = "joining"
      /\ local' = local /\ next' = next /\ n \in Nat
      /\ call' \in [n : Nat, static : BOOLEAN, ret : {"joining"}]
  BY <1>1
<1>7. next = 1 /\ \A w \in 1 .. MaxThreads : local[w] = <<>>
  BY DEF IInv, StartsClean
<1>8. \A w \in 1 .. MaxThreads : w \in Spawned' <=> worker'[w] # "none"
  BY DEF Spawned
<1>9. /\ slots' \in Seq(Nat) /\ Len(slots') = (IF static THEN 0 ELSE n)
      /\ ~static => \A i \in DOMAIN slots' : slots'[i] = NoRow
      /\ static => slots' = <<>>
  <2>1. CASE static
    BY <1>6, <2>1, EmptySeq
  <2>2. CASE ~static
    <3>1. slots' = [i \in 1 .. n |-> NoRow]
      BY <1>6, <2>2
    <3>2. slots' \in [1 .. n -> Nat]
      BY <3>1 DEF NoRow
    <3>3. slots' \in Seq(Nat)
      BY <1>1, <3>2, SeqDef, ZenonT(30)
    <3>4. DOMAIN slots' = 1 .. n /\ DOMAIN slots' = 1 .. Len(slots') /\ Len(slots') \in Nat
      BY <3>2, <3>3, LenProperties
    <3>5. Len(slots') = n
      BY <1>6, <3>4
    <3> QED
      BY <2>2, <3>1, <3>3, <3>5
  <2> QED
    BY <2>1, <2>2
<1>10. TypeOK'
  <2>1. packs' \in Seq(Packs)
    BY <1>4, <1>5, EmptySeq
  <2>2. /\ worker' \in [1 .. MaxThreads -> {"none", "loop", "busy", "done", "failed", "panicked"}]
        /\ call' \in [n : Nat, static : BOOLEAN,
               ret : {"idle", "joining", "leave ok", "leave failed", "leave panicked",
                      "leave dropped", "ok", "failed", "panicked", "dropped", "unwound"}]
    BY <1>6
  <2> QED
    BY <1>6, <1>9, <2>1, <2>2 DEF IInv, TypeOK
<1>11. StartsClean'
  BY <1>6, <1>7 DEF StartsClean
<1>12. JoinedInOrder'
  <2>1. \A w \in Spawned' : \A v \in 1 .. w : v \in Spawned'
    <3> SUFFICES ASSUME NEW w \in 1 .. MaxThreads, worker'[w] # "none", NEW v \in 1 .. w
                 PROVE  worker'[v] # "none" /\ v \in 1 .. MaxThreads
      BY <1>8 DEF Spawned
    <3>1. v \in 1 .. MaxThreads
      OBVIOUS
    <3> QED
      BY <1>4, <1>5, <3>1
  <2>2. 1 \in Spawned' /\ 1 .. (next' - 1) = {}
    BY <1>6, <1>7, <1>8
  <2> QED
    BY <1>6, <2>1, <2>2 DEF JoinedInOrder
<1>13. RowsAreOwn'
  <2>1. \A w \in 1 .. MaxThreads : DOMAIN local'[w] = {}
    BY <1>6, <1>7
  <2>2. \A i \in DOMAIN slots' : ~static /\ slots'[i] = NoRow
    BY <1>9
  <2>3. call'.n = n /\ call'.static = static /\ call'.ret = "joining"
    BY <1>6
  <2>4. ~static => Len(slots') = n
    BY <1>9
  <2> QED
    BY <2>1, <2>2, <2>3, <2>4 DEF RowsAreOwn
<1>14. SplitIsInOrder'
  <2> SUFFICES ASSUME static PROVE SplitIsInOrder'
    BY <1>6 DEF SplitIsInOrder
  <2>1. \A w \in 1 .. MaxThreads : w \in Spawned' <=> w \in 1 .. m
    BY <1>4, <1>5, <1>8
  <2>2. Spawned' = 1 .. m
    BY <1>4, <1>5, <2>1 DEF Spawned
  <2>3. \A w \in 1 .. m : worker'[w] = "busy" /\ held'[w] = ch[w] /\ local'[w] = <<>>
    BY <1>4, <1>5, <1>6, <1>7
  <2>4. \A w \in Spawned' :
          held'[w].off + held'[w].len = IF w + 1 \in Spawned' THEN held'[w + 1].off ELSE n
    BY <1>2, <2>2, <2>3
  <2>5. held'[1].off = 0 /\ 1 \in Spawned' /\ packs' = <<>> /\ Len(slots') = 0
    BY <1>2, <1>4, <1>5, <1>9, <2>2, <2>3
  <2> QED
    BY <1>6, <1>7, <2>2, <2>3, <2>4, <2>5 DEF SplitIsInOrder
<1>15. QueueDropsNone'
  <2> SUFFICES ASSUME ~static PROVE QueueDropsNone'
    BY <1>6 DEF QueueDropsNone
  <2>1. \A w \in 1 .. MaxThreads : worker'[w] # "done"
    BY <1>6
  <2>2. packs' = ch
    BY <1>5
  <2> QED
    BY <1>2, <1>4, <1>6, <2>1, <2>2 DEF QueueDropsNone, Underway
<1> QED
  BY <1>10, <1>11, <1>12, <1>13, <1>14, <1>15 DEF IInv
-----------------------------------------------------------------------------
(* While threads run the call is not idle.                                 *)
LEMMA Running ==
  ASSUME IInv, NEW w \in 1 .. MaxThreads, worker[w] # "none"
  PROVE  call.ret # "idle" /\ w \in Spawned
BY DEF IInv, StartsClean, Spawned

(* A thread that was not joined and moves on disturbs no join.             *)
LEMMA StillJoined ==
  ASSUME WindowFanOutAssumption, IInv,
         NEW w \in 1 .. MaxThreads, worker[w] \notin {"none", "done"},
         NEW to, to # "none", worker' = [worker EXCEPT ![w] = to], UNCHANGED <<next, call>>
  PROVE  JoinedInOrder' /\ Spawned' = Spawned /\ (call.ret = "joining" => w >= next)
<1> USE DEF IInv
<1>1. /\ worker'[w] = to
      /\ \A v \in 1 .. MaxThreads : v # w => worker'[v] = worker[v]
  BY DEF TypeOK
<1>2. Spawned' = Spawned
  BY <1>1 DEF Spawned
<1>3. next \in 1 .. (MaxThreads + 1)
  BY DEF TypeOK
<1>4. call.ret = "joining" => w \notin 1 .. (next - 1) /\ w >= next
  BY <1>3 DEF JoinedInOrder
<1>5. call.ret = "joining" => \A v \in 1 .. (next - 1) : v \in 1 .. MaxThreads /\ worker'[v] = "done"
  BY <1>1, <1>3, <1>4 DEF JoinedInOrder
<1> QED
  BY <1>2, <1>4, <1>5 DEF JoinedInOrder

(* A thread of the queue takes the first pack: what it has is underway.    *)
LEMMA TakePackInv ==
  ASSUME WindowFanOutAssumption, IInv, NEW w \in 1 .. MaxThreads, TakePack(w)
  PROVE  IInv'
<1> USE DEF IInv
<1>1. /\ worker[w] = "loop" /\ packs # <<>>
      /\ held' = [held EXCEPT ![w] = Head(packs)] /\ packs' = Tail(packs)
      /\ worker' = [worker EXCEPT ![w] = "busy"]
  BY DEF TakePack
<1>2. UNCHANGED <<local, next, slots, call>>
  BY DEF TakePack
<1>3. call.ret # "idle" /\ w \in Spawned /\ ~call.static
  BY <1>1, Running DEF SplitIsInOrder
<1>4. /\ packs \in Seq(Packs) /\ packs[1] \in Packs /\ Head(packs) = packs[1]
      /\ Tail(packs) \in Seq(Packs)
      /\ \A k \in DOMAIN packs : k = 1 \/ (k - 1 \in DOMAIN Tail(packs) /\ Tail(packs)[k - 1] = packs[k])
  <2>1. packs \in Seq(Packs)
    BY DEF TypeOK
  <2>2. Len(packs) \in Nat /\ Len(packs) # 0 /\ DOMAIN packs = 1 .. Len(packs)
    BY <1>1, <2>1, LenProperties, EmptySeq
  <2>3. /\ Tail(packs) \in Seq(Packs) /\ Len(Tail(packs)) = Len(packs) - 1
        /\ \A k \in 1 .. Len(Tail(packs)) : Tail(packs)[k] = packs[k + 1]
    BY <1>1, <2>1, HeadTailProperties
  <2>4. DOMAIN Tail(packs) = 1 .. (Len(packs) - 1)
    BY <2>3, LenProperties
  <2>5. Head(packs) = packs[1] /\ packs[1] \in Packs
    BY <2>1, <2>2, ElementOfSeq
  <2> QED
    BY <2>1, <2>2, <2>3, <2>4, <2>5
<1>5. /\ worker'[w] = "busy" /\ held'[w] = packs[1]
      /\ \A v \in 1 .. MaxThreads : v # w => worker'[v] = worker[v] /\ held'[v] = held[v]
  BY <1>1, <1>4 DEF TypeOK
<1>6. TypeOK'
  BY <1>1, <1>2, <1>4 DEF TypeOK
<1>7. Spawned' = Spawned
  BY <1>1, <1>5 DEF Spawned
<1>8. StartsClean' /\ SplitIsInOrder'
  BY <1>2, <1>3, <1>5 DEF StartsClean, SplitIsInOrder
<1>9. JoinedInOrder'
  BY <1>1, <1>2, StillJoined
<1>10. RowsAreOwn'
  BY <1>2, ZenonT(30) DEF RowsAreOwn
<1>11. QueueDropsNone'
  <2>1. ~(\E v \in 1 .. MaxThreads : worker'[v] = "done")
    BY <1>1, <1>3, <1>5 DEF QueueDropsNone
  <2>2. ASSUME NEW i \in 1 .. call.n, Underway(i) PROVE Underway(i)'
    <3>1. CASE \E k \in DOMAIN packs : PackHas(packs[k], i)
      <4>1. PICK k \in DOMAIN packs : PackHas(packs[k], i)
        BY <3>1
      <4>2. CASE k = 1
        BY <1>5, <4>1, <4>2 DEF Underway, PackHas
      <4>3. CASE k # 1
        <5>1. k - 1 \in DOMAIN packs' /\ packs'[k - 1] = packs[k]
          BY <1>1, <1>4, <4>3
        <5> QED
          BY <4>1, <5>1 DEF Underway, PackHas
      <4> QED
        BY <4>2, <4>3
    <3>2. CASE ~(\E k \in DOMAIN packs : PackHas(packs[k], i))
      BY <1>1, <1>2, <1>5, <2>2, <3>2 DEF Underway, PackHas, RowsHave
    <3> QED
      BY <3>1, <3>2
  <2> QED
    BY <1>2, <2>1, <2>2 DEF QueueDropsNone
<1> QED
  BY <1>6, <1>8, <1>9, <1>10, <1>11

LEMMA NoMorePacksInv ==
  ASSUME WindowFanOutAssumption, IInv, NEW w \in 1 .. MaxThreads, NoMorePacks(w)
  PROVE  IInv'
<1> USE DEF IInv
<1>1. /\ worker[w] = "loop" /\ packs = <<>>
      /\ worker' = [worker EXCEPT ![w] = "done"]
  BY DEF NoMorePacks
<1>2. UNCHANGED <<packs, held, local, next, slots, call>>
  BY DEF NoMorePacks
<1>3. call.ret # "idle" /\ w \in Spawned /\ ~call.static
  BY <1>1, Running DEF SplitIsInOrder
<1>5. /\ worker'[w] = "done"
      /\ \A v \in 1 .. MaxThreads : v # w => worker'[v] = worker[v]
  BY <1>1 DEF TypeOK
<1>6. TypeOK'
  BY <1>1, <1>2 DEF TypeOK
<1>7. Spawned' = Spawned
  BY <1>1, <1>5 DEF Spawned
<1>8. StartsClean' /\ SplitIsInOrder'
  BY <1>2, <1>3, <1>5 DEF StartsClean, SplitIsInOrder
<1>9. JoinedInOrder'
  BY <1>1, <1>2, StillJoined
<1>10. RowsAreOwn'
  BY <1>2, ZenonT(30) DEF RowsAreOwn
<1>11. QueueDropsNone'
  <2>2. ASSUME NEW i \in 1 .. call.n, Underway(i) PROVE Underway(i)'
    BY <1>1, <1>2, <1>5, <2>2 DEF Underway, PackHas, RowsHave
  <2> QED
    BY <1>1, <1>2, <2>2 DEF QueueDropsNone
<1> QED
  BY <1>6, <1>8, <1>9, <1>10, <1>11

(* A thread keeps the rows of its pack until it is joined.                 *)
LEMMA FinishPackInv ==
  ASSUME WindowFanOutAssumption, IInv, NEW w \in 1 .. MaxThreads, FinishPack(w)
  PROVE  IInv'
<1> USE DEF IInv
<1> DEFINE r == [off |-> held[w].off, rows |-> InferChunk(held[w])]
           Result == [off : Nat, rows : Seq(Nat)]
<1>1. /\ worker[w] = "busy"
      /\ local' = [local EXCEPT ![w] = Append(@, r)]
      /\ worker' = [worker EXCEPT ![w] = IF call.static THEN "done" ELSE "loop"]
  BY DEF FinishPack
<1>2. UNCHANGED <<packs, held, next, slots, call>>
  BY DEF FinishPack
<1>3. call.ret # "idle" /\ w \in Spawned
  BY <1>1, Running
<1>4. /\ held[w] \in Packs /\ r \in Result /\ r.off = held[w].off
      /\ DOMAIN r.rows = 1 .. held[w].len
      /\ \A j \in DOMAIN r.rows : r.rows[j] = r.off + j
  <2>1. held[w] \in Packs
    BY DEF TypeOK
  <2> QED
    BY <2>1, InferChunkRows DEF Packs
<1> HIDE DEF r
<1>5. /\ local'[w] = Append(local[w], r)
      /\ worker'[w] = IF call.static THEN "done" ELSE "loop"
      /\ \A v \in 1 .. MaxThreads : v # w => worker'[v] = worker[v] /\ local'[v] = local[v]
  BY <1>1 DEF TypeOK
<1>6. /\ local[w] \in Seq(Result) /\ local'[w] \in Seq(Result)
      /\ DOMAIN local[w] = 1 .. Len(local[w]) /\ Len(local[w]) \in Nat
      /\ DOMAIN local'[w] = 1 .. (Len(local[w]) + 1)
      /\ local'[w][Len(local[w]) + 1] = r
      /\ \A k \in DOMAIN local[w] : k \in DOMAIN local'[w] /\ local'[w][k] = local[w][k]
  <2>1. local[w] \in Seq(Result)
    BY DEF TypeOK
  <2> HIDE DEF Result
  <2>2. DOMAIN local[w] = 1 .. Len(local[w]) /\ Len(local[w]) \in Nat
    BY <2>1, LenProperties
  <2>3. /\ Append(local[w], r) \in Seq(Result) /\ Len(Append(local[w], r)) = Len(local[w]) + 1
        /\ \A k \in 1 .. Len(local[w]) : Append(local[w], r)[k] = local[w][k]
        /\ Append(local[w], r)[Len(local[w]) + 1] = r
    BY <1>4, <2>1, AppendProperties
  <2>4. DOMAIN Append(local[w], r) = 1 .. (Len(local[w]) + 1)
    BY <2>3, LenProperties
  <2> QED
    BY <1>5, <2>1, <2>2, <2>3, <2>4
<1>7. TypeOK'
  <2>1. local' \in [1 .. MaxThreads -> Seq(Result)]
    BY <1>1, <1>5, <1>6 DEF TypeOK
  <2>2. worker' \in [1 .. MaxThreads -> {"none", "loop", "busy", "done", "failed", "panicked"}]
    BY <1>1 DEF TypeOK
  <2> QED
    BY <1>2, <2>1, <2>2 DEF TypeOK
<1>8. Spawned' = Spawned
  BY <1>1, <1>5 DEF Spawned
<1>9. StartsClean'
  BY <1>2, <1>3, <1>5 DEF StartsClean
<1>10. JoinedInOrder' /\ (call.ret = "joining" => w >= next)
  BY <1>1, <1>2, StillJoined
<1>11. RowsAreOwn'
  <2>1. ASSUME NEW v \in 1 .. MaxThreads, NEW k \in DOMAIN local'[v],
               NEW j \in DOMAIN local'[v][k].rows
        PROVE  local'[v][k].rows[j] = local'[v][k].off + j
    <3>1. CASE v = w /\ k = Len(local[w]) + 1
      BY <1>4, <1>6, <3>1
    <3>2. CASE ~(v = w /\ k = Len(local[w]) + 1)
      <4>1. k \in DOMAIN local[v] /\ local'[v][k] = local[v][k]
        <5>1. CASE v = w
          <6>1. k \in 1 .. (Len(local[w]) + 1) /\ k # Len(local[w]) + 1
            BY <1>6, <3>2, <5>1
          <6>2. k \in 1 .. Len(local[w]) /\ DOMAIN local[w] = 1 .. Len(local[w])
            BY <1>6, <6>1
          <6> QED
            BY <1>6, <5>1, <6>2
        <5>2. CASE v # w
          BY <1>5, <5>2
        <5> QED
          BY <5>1, <5>2
      <4>2. j \in DOMAIN local[v][k].rows
        BY <4>1
      <4>3. local[v][k].rows[j] = local[v][k].off + j
        BY <4>1, <4>2 DEF RowsAreOwn
      <4> QED
        BY <4>1, <4>3
    <3> QED
      BY <3>1, <3>2
  <2> QED
    BY <1>2, <2>1 DEF RowsAreOwn
<1>12. SplitIsInOrder'
  <2> SUFFICES ASSUME call.static PROVE SplitIsInOrder'
    BY <1>2 DEF SplitIsInOrder
  <2>1. local[w] = <<>>
    BY <1>1, <1>3 DEF SplitIsInOrder
  <2>2. worker'[w] = "done" /\ local'[w] = <<r>>
    BY <1>5, <2>1
  <2> DEFINE Kept(v) == <<[off |-> held[v].off, rows |-> InferChunk(held[v])]>>
  <2>3. local'[w] = Kept(w)
    BY <2>2 DEF r
  <2> SUFFICES ASSUME NEW v \in Spawned
               PROVE  /\ worker'[v] # "loop"
                      /\ worker'[v] = "done" => local'[v] = Kept(v)
                      /\ worker'[v] = "busy" => local'[v] = <<>>
    BY <1>2, <1>8 DEF SplitIsInOrder, InferChunk
  <2>4. v \in 1 .. MaxThreads
    BY DEF Spawned
  <2>5. /\ worker[v] # "loop"
        /\ worker[v] = "done" => local[v] = Kept(v)
        /\ worker[v] = "busy" => local[v] = <<>>
    BY DEF SplitIsInOrder
  <2> HIDE DEF Kept
  <2>6. CASE v = w
    BY <2>2, <2>3, <2>6
  <2>7. CASE v # w
    BY <1>5, <2>4, <2>5, <2>7
  <2> QED
    BY <2>6, <2>7
<1>13. QueueDropsNone'
  <2> SUFFICES ASSUME ~call.static PROVE QueueDropsNone'
    BY <1>2 DEF QueueDropsNone
  <2>1. \A v \in 1 .. MaxThreads : worker'[v] = "done" => worker[v] = "done"
    BY <1>5
  <2>2. ASSUME NEW i \in 1 .. call.n, call.ret = "joining", Underway(i) PROVE Underway(i)'
    <3>1. CASE PackHas(held[w], i)
      <4>1. i - r.off \in DOMAIN r.rows
        BY <1>4, <3>1 DEF PackHas, Packs
      <4>2. w >= next
        BY <1>10, <2>2
      <4>3. Len(local[w]) + 1 \in DOMAIN local'[w] /\ RowsHave(local'[w][Len(local[w]) + 1], i)
        BY <1>6, <4>1 DEF RowsHave
      <4> QED
        BY <1>2, <4>2, <4>3 DEF Underway, RowsHave
    <3>2. CASE \E v \in 1 .. MaxThreads : v >= next /\ \E k \in DOMAIN local[v] : RowsHave(local[v][k], i)
      <4> PICK v \in 1 .. MaxThreads : v >= next /\ \E k \in DOMAIN local[v] : RowsHave(local[v][k], i)
        BY <3>2
      <4>1. PICK k \in DOMAIN local[v] : v >= next /\ RowsHave(local[v][k], i)
        OBVIOUS
      <4>2. k \in DOMAIN local'[v] /\ local'[v][k] = local[v][k]
        BY <1>5, <1>6
      <4> QED
        BY <1>2, <4>1, <4>2 DEF Underway, RowsHave
    <3>3. CASE slots[i] = i \/ \E k \in DOMAIN packs : PackHas(packs[k], i)
      BY <1>2, <3>3 DEF Underway, PackHas
    <3>4. CASE \E v \in 1 .. MaxThreads : v # w /\ worker[v] = "busy" /\ PackHas(held[v], i)
      BY <1>2, <1>5, <3>4 DEF Underway, PackHas
    <3>5. CASE \E v \in 1 .. MaxThreads : worker[v] \in {"failed", "panicked"}
      BY <1>1, <1>5, <3>5 DEF Underway
    <3> QED
      BY <2>2, <3>1, <3>2, <3>3, <3>4, <3>5 DEF Underway
  <2> QED
    BY <1>2, <2>1, <2>2 DEF QueueDropsNone
<1> QED
  BY <1>7, <1>9, <1>10, <1>11, <1>12, <1>13

(* A thread that fails is found when it is joined, or when the scope ends.  *)
LEMMA FailPackInv ==
  ASSUME WindowFanOutAssumption, IInv, NEW w \in 1 .. MaxThreads, FailPack(w)
  PROVE  IInv'
<1> USE DEF IInv
<1>1. PICK how \in {"failed", "panicked"} : worker' = [worker EXCEPT ![w] = how]
  BY DEF FailPack
<1>2. worker[w] = "busy" /\ UNCHANGED <<packs, held, local, next, slots, call>>
  BY DEF FailPack
<1>3. call.ret # "idle" /\ w \in Spawned
  BY <1>2, Running
<1>4. /\ worker'[w] = how
      /\ \A v \in 1 .. MaxThreads : v # w => worker'[v] = worker[v]
  BY <1>1 DEF TypeOK
<1>5. TypeOK'
  BY <1>1, <1>2 DEF TypeOK
<1>6. Spawned' = Spawned /\ JoinedInOrder'
  BY <1>1, <1>2, StillJoined
<1>7. StartsClean' /\ RowsAreOwn'
  BY <1>2, <1>3, <1>4, ZenonT(30) DEF StartsClean, RowsAreOwn
<1>8. SplitIsInOrder'
  <2>1. \A v \in Spawned : worker'[v] \in {"loop", "done", "busy"} => worker'[v] = worker[v]
    BY <1>4 DEF Spawned
  <2> QED
    BY <1>2, <1>6, <2>1 DEF SplitIsInOrder, InferChunk
<1>9. QueueDropsNone'
  <2>1. \A i \in 1 .. call.n : Underway(i)'
    BY <1>4 DEF Underway
  <2>2. \A v \in 1 .. MaxThreads : worker'[v] = "done" => worker[v] = "done"
    BY <1>4
  <2> QED
    BY <1>2, <2>1, <2>2 DEF QueueDropsNone
<1> QED
  BY <1>5, <1>6, <1>7, <1>8, <1>9
-----------------------------------------------------------------------------
(* A thread that is joined after it failed ends the call.                  *)
LEMMA JoinFailedInv ==
  ASSUME WindowFanOutAssumption, IInv, Join, worker[next] # "done"
  PROVE  IInv'
<1> USE DEF IInv
<1>1. /\ call.ret = "joining" /\ next \in Spawned /\ slots' = slots /\ next' = next + 1
      /\ UNCHANGED <<packs, worker, held, local>>
  BY DEF Join
<1>2. worker[next] \in {"failed", "panicked"}
  BY DEF Join, Ended
<1>3. call' = [call EXCEPT !.ret = IF worker[next] = "failed" THEN "leave failed" ELSE "leave panicked"]
  BY <1>2 DEF Join
<1>4. /\ call'.n = call.n /\ call'.static = call.static
      /\ call'.ret \in {"leave failed", "leave panicked"}
      /\ call' \in [n : Nat, static : BOOLEAN,
               ret : {"idle", "joining", "leave ok", "leave failed", "leave panicked",
                      "leave dropped", "ok", "failed", "panicked", "dropped", "unwound"}]
  BY <1>3 DEF TypeOK
<1>5. next \in 1 .. MaxThreads /\ next' \in 1 .. (MaxThreads + 1)
  BY <1>1 DEF Spawned
<1>6. TypeOK'
  BY <1>1, <1>4, <1>5 DEF TypeOK
<1>7. Spawned' = Spawned
  BY <1>1 DEF Spawned
<1>8. StartsClean' /\ JoinedInOrder' /\ QueueDropsNone'
  BY <1>1, <1>4, <1>7 DEF StartsClean, JoinedInOrder, QueueDropsNone
<1>9. RowsAreOwn'
  <2>1. /\ call'.n = call.n /\ call'.static = call.static
        /\ call'.ret \in {"leave failed", "leave panicked"}
    BY <1>4
  <2>2. slots' = slots /\ local' = local
    BY <1>1
  <2> QED
    BY <2>1, <2>2 DEF RowsAreOwn
<1>10. SplitIsInOrder'
  <2>1. /\ call'.n = call.n /\ call'.static = call.static
        /\ call'.ret \in {"leave failed", "leave panicked"}
    BY <1>4
  <2>2. UNCHANGED <<packs, worker, held, local>>
    BY <1>1
  <2> QED
    BY <1>7, <2>1, <2>2, ZenonT(30) DEF SplitIsInOrder, InferChunk
<1> QED
  BY <1>6, <1>8, <1>9, <1>10

LEMMA Extended ==
  ASSUME NEW s \in Seq(Nat), NEW t \in Seq(Nat)
  PROVE  /\ s \o t \in Seq(Nat) /\ Len(s \o t) = Len(s) + Len(t)
         /\ \A i \in 1 .. Len(s) + Len(t) :
              (s \o t)[i] = IF i <= Len(s) THEN s[i] ELSE t[i - Len(s)]
BY ConcatProperties

(* The static split: the rows of the joined pack go after those before it. *)
LEMMA ExtendRows ==
  ASSUME WindowFanOutAssumption, IInv, call.ret = "joining", next \in Spawned,
         worker[next] = "done", call.static,
         slots' = PutRows(slots, local[next])
  PROVE  /\ slots' \in Seq(Nat)
         /\ Len(slots') = held[next].off + held[next].len
         /\ \A i \in DOMAIN slots' : slots'[i] = i
<1> USE DEF IInv
<1> DEFINE p == held[next]
           rows == InferChunk(p)
<1>1. p \in Packs /\ p.off \in Nat /\ p.len \in Nat
  BY DEF TypeOK, Spawned, Packs
<1>2. local[next] = <<[off |-> p.off, rows |-> rows]>>
  BY DEF SplitIsInOrder
<1>3. slots' = slots \o rows
  <2>1. slots' = slots \o local[next][1].rows
    BY DEF PutRows
  <2> HIDE DEF rows
  <2>2. local[next][1].rows = rows
    BY <1>2
  <2> QED
    BY <2>1, <2>2
<1>4. /\ rows \in Seq(Nat) /\ Len(rows) = p.len
      /\ \A j \in 1 .. p.len : rows[j] = p.off + j
  BY <1>1, InferChunkRows
<1>5. slots \in Seq(Nat) /\ Len(slots) = p.off /\ \A i \in DOMAIN slots : slots[i] = i
  BY DEF TypeOK, SplitIsInOrder, RowsAreOwn
<1> HIDE DEF p, rows
<1>6. /\ slots' \in Seq(Nat) /\ Len(slots') = p.off + p.len
      /\ \A i \in 1 .. (p.off + p.len) :
           slots'[i] = IF i <= p.off THEN slots[i] ELSE rows[i - p.off]
  <2>1. rows \in Seq(Nat) /\ slots \in Seq(Nat) /\ Len(rows) = p.len /\ Len(slots) = p.off
    BY <1>4, <1>5
  <2>2. /\ slots \o rows \in Seq(Nat) /\ Len(slots \o rows) = Len(slots) + Len(rows)
        /\ \A i \in 1 .. Len(slots) + Len(rows) :
             (slots \o rows)[i] = IF i <= Len(slots) THEN slots[i] ELSE rows[i - Len(slots)]
    BY <2>1, Extended
  <2> QED
    BY <1>3, <2>1, <2>2
<1>7. DOMAIN slots = 1 .. p.off /\ DOMAIN slots' = 1 .. (p.off + p.len)
  BY <1>5, <1>6, LenProperties
<1>8. \A i \in 1 .. (p.off + p.len) : slots'[i] = i
  <2> SUFFICES ASSUME NEW i \in 1 .. (p.off + p.len) PROVE slots'[i] = i
    OBVIOUS
  <2>1. CASE i <= p.off
    BY <1>1, <1>5, <1>6, <1>7, <2>1
  <2>2. CASE ~(i <= p.off)
    <3>1. i - p.off \in 1 .. p.len /\ p.off + (i - p.off) = i
      BY <1>1, <2>2
    <3>2. rows[i - p.off] = i
      BY <1>4, <3>1
    <3> QED
      BY <1>6, <2>2, <3>2
  <2> QED
    BY <2>1, <2>2
<1> QED
  BY <1>6, <1>7, <1>8 DEF p

(* The queue: the rows of the joined thread go to their own slots.         *)
LEMMA PlaceRows ==
  ASSUME WindowFanOutAssumption, IInv, call.ret = "joining", next \in Spawned,
         ~call.static, slots' = PutRows(slots, local[next])
  PROVE  /\ slots' \in Seq(Nat) /\ Len(slots') = Len(slots) /\ DOMAIN slots' = DOMAIN slots
         /\ \A i \in DOMAIN slots :
              /\ slots'[i] \in {i, slots[i]}
              /\ (\E k \in DOMAIN local[next] : RowsHave(local[next][k], i)) => slots'[i] = i
<1> USE DEF IInv
<1> DEFINE here(i) == {k \in DOMAIN local[next] :
                         i - local[next][k].off \in DOMAIN local[next][k].rows}
           row(i) == LET r == local[next][CHOOSE k \in here(i) : TRUE] IN r.rows[i - r.off]
<1>1. slots' = [i \in DOMAIN slots |-> IF here(i) = {} THEN slots[i] ELSE row(i)]
  BY DEF PutRows
<1>2. slots \in Seq(Nat) /\ DOMAIN slots = 1 .. Len(slots) /\ Len(slots) \in Nat
      /\ \A i \in DOMAIN slots : slots[i] \in Nat
  <2>1. slots \in Seq(Nat)
    BY DEF TypeOK
  <2>2. Len(slots) \in Nat /\ slots \in [1 .. Len(slots) -> Nat]
    BY <2>1, LenProperties
  <2> QED
    BY <2>1, <2>2
<1>3. ASSUME NEW i \in DOMAIN slots, here(i) # {} PROVE row(i) = i
  <2> DEFINE k == CHOOSE k \in here(i) : TRUE
             r == local[next][k]
  <2>1. k \in here(i)
    BY <1>3
  <2>2. k \in DOMAIN local[next] /\ i - r.off \in DOMAIN r.rows
    BY <2>1
  <2> HIDE DEF k
  <2>3. next \in 1 .. MaxThreads
    BY DEF Spawned
  <2>4. r.rows[i - r.off] = r.off + (i - r.off)
    BY <2>2, <2>3 DEF RowsAreOwn
  <2>5. r.off \in Nat /\ i \in Nat
    <3>1. local[next] \in Seq([off : Nat, rows : Seq(Nat)])
      BY <2>3 DEF TypeOK
    <3>2. r \in [off : Nat, rows : Seq(Nat)]
      BY <2>2, <3>1, LenProperties, ElementOfSeq
    <3> QED
      BY <1>2, <3>2
  <2>6. r.rows[i - r.off] = i
    BY <2>4, <2>5
  <2> QED
    BY <2>6 DEF k
<1> HIDE DEF here, row
<1>5. \A i \in DOMAIN slots : /\ here(i) = {} => slots'[i] = slots[i]
                              /\ here(i) # {} => slots'[i] = i
  BY <1>1, <1>3
<1>6. slots' \in [1 .. Len(slots) -> Nat]
  <2>1. \A i \in DOMAIN slots : i \in Nat /\ (IF here(i) = {} THEN slots[i] ELSE row(i)) \in Nat
    BY <1>2, <1>3
  <2> QED
    BY <1>1, <1>2, <2>1
<1>7. slots' \in Seq(Nat)
  BY <1>2, <1>6, SeqDef
<1>8. DOMAIN slots' = 1 .. Len(slots) /\ DOMAIN slots' = 1 .. Len(slots') /\ Len(slots') \in Nat
  BY <1>6, <1>7, LenProperties
<1>9. Len(slots') = Len(slots)
  BY <1>2, <1>8
<1> QED
  <2>1. DOMAIN slots' = DOMAIN slots
    BY <1>2, <1>8
  <2>2. ASSUME NEW i \in DOMAIN slots
        PROVE  /\ slots'[i] \in {i, slots[i]}
               /\ (\E k \in DOMAIN local[next] : RowsHave(local[next][k], i)) => slots'[i] = i
    <3>1. CASE here(i) = {}
      <4>1. slots'[i] = slots[i]
        BY <1>5, <3>1
      <4>2. ~\E k \in DOMAIN local[next] : RowsHave(local[next][k], i)
        BY <3>1 DEF here, RowsHave
      <4> QED
        BY <4>1, <4>2
    <3>2. CASE here(i) # {}
      BY <1>5, <3>2
    <3> QED
      BY <3>1, <3>2
  <2> QED
    BY <1>7, <1>9, <2>1, <2>2

LEMMA JoinDoneInv ==
  ASSUME WindowFanOutAssumption, IInv, Join, worker[next] = "done"
  PROVE  IInv'
<1> USE DEF IInv
<1>1. /\ call.ret = "joining" /\ next \in Spawned /\ next' = next + 1
      /\ slots' = PutRows(slots, local[next])
  BY DEF Join
<1>2. UNCHANGED <<packs, worker, held, local>>
  BY DEF Join
<1>3. call' = call
  BY DEF Join, TypeOK
<1>4. next \in 1 .. MaxThreads /\ next' \in 1 .. (MaxThreads + 1)
  BY <1>1 DEF Spawned
<1>5. Spawned' = Spawned
  BY <1>2 DEF Spawned
<1>6. slots' \in Seq(Nat)
  BY <1>1, ExtendRows, PlaceRows
<1>7. TypeOK'
  BY <1>2, <1>3, <1>4, <1>6 DEF TypeOK
<1>8. StartsClean'
  BY <1>1, <1>2, <1>3 DEF StartsClean
<1>9. JoinedInOrder'
  <2>1. \A w \in 1 .. (next' - 1) : w \in 1 .. (next - 1) \/ w = next
    BY <1>1, <1>4
  <2> QED
    BY <1>1, <1>2, <1>3, <1>5, <2>1 DEF JoinedInOrder
<1>10. RowsAreOwn'
  <2>a. call'.ret \notin {"leave dropped", "dropped", "leave ok", "ok"}
    BY <1>1, <1>3
  <2>b. \A w \in 1 .. MaxThreads : \A k \in DOMAIN local'[w] : \A j \in DOMAIN local'[w][k].rows :
          local'[w][k].rows[j] = local'[w][k].off + j
    BY <1>2 DEF RowsAreOwn
  <2>1. CASE call.static
    <3>1. \A i \in DOMAIN slots' : slots'[i] = i
      BY <1>1, <2>1, ExtendRows
    <3> QED
      BY <1>3, <2>1, <2>a, <2>b, <3>1 DEF RowsAreOwn
  <2>2. CASE ~call.static
    <3>1. \A i \in DOMAIN slots' : slots'[i] = i \/ slots'[i] = NoRow
      BY <1>1, <2>2, PlaceRows DEF RowsAreOwn
    <3>2. Len(slots') = call.n
      BY <1>1, <2>2, PlaceRows DEF RowsAreOwn
    <3> QED
      BY <1>3, <2>2, <2>a, <2>b, <3>1, <3>2 DEF RowsAreOwn
  <2> QED
    BY <2>1, <2>2
<1>11. SplitIsInOrder'
  <2> SUFFICES ASSUME call.static PROVE SplitIsInOrder'
    BY <1>3 DEF SplitIsInOrder
  <2>1. Len(slots') = held[next].off + held[next].len
    BY <1>1, ExtendRows
  <2>2. Len(slots') = IF next + 1 \in Spawned THEN held[next + 1].off ELSE call.n
    BY <1>1, <2>1 DEF SplitIsInOrder
  <2> QED
    BY <1>1, <1>2, <1>3, <1>5, <2>2 DEF SplitIsInOrder, InferChunk
<1>12. QueueDropsNone'
  <2> SUFFICES ASSUME ~call.static PROVE QueueDropsNone'
    BY <1>3 DEF QueueDropsNone
  <2>1. ASSUME NEW i \in 1 .. call.n PROVE Underway(i)'
    <3>1. Underway(i)
      BY <1>1 DEF QueueDropsNone
    <3>2. i \in DOMAIN slots
      <4>1. Len(slots) = call.n /\ DOMAIN slots = 1 .. Len(slots)
        BY LenProperties DEF RowsAreOwn, TypeOK
      <4> QED
        BY <4>1
    <3>3. slots[i] = i => slots'[i] = i
      BY <1>1, <3>2, PlaceRows
    <3>4. (\E k \in DOMAIN local[next] : RowsHave(local[next][k], i)) => slots'[i] = i
      BY <1>1, <3>2, PlaceRows
    <3>5. CASE slots'[i] = i
      BY <3>5 DEF Underway
    <3>6. CASE \E w \in 1 .. MaxThreads : w >= next /\ w # next /\ \E k \in DOMAIN local[w] : RowsHave(local[w][k], i)
      <4>1. \A w \in 1 .. MaxThreads : w >= next /\ w # next => w >= next'
        BY <1>1, <1>4
      <4> QED
        BY <1>2, <3>6, <4>1 DEF Underway, RowsHave
    <3>7. CASE \/ \E k \in DOMAIN packs : PackHas(packs[k], i)
               \/ \E w \in 1 .. MaxThreads : worker[w] = "busy" /\ PackHas(held[w], i)
               \/ \E w \in 1 .. MaxThreads : worker[w] \in {"failed", "panicked"}
      BY <1>2, <3>7 DEF Underway, PackHas
    <3> QED
      BY <3>1, <3>3, <3>4, <3>5, <3>6, <3>7 DEF Underway
  <2> QED
    BY <1>2, <1>3, <2>1 DEF QueueDropsNone
<1> QED
  BY <1>7, <1>8, <1>9, <1>10, <1>11, <1>12

(* All joined, all done: nothing is underway any more, every row is in.    *)
LEMMA CollectInv ==
  ASSUME WindowFanOutAssumption, IInv, Collect
  PROVE  IInv'
<1> USE DEF IInv
<1>1. /\ call.ret = "joining" /\ next \notin Spawned
      /\ UNCHANGED <<packs, worker, held, local, next, slots>>
  BY DEF Collect
<1>2. \A w \in Spawned : w \in 1 .. MaxThreads /\ w < next /\ worker[w] = "done"
  <2> SUFFICES ASSUME NEW w \in Spawned
               PROVE  w \in 1 .. MaxThreads /\ w < next /\ worker[w] = "done"
    OBVIOUS
  <2>1. w \in 1 .. MaxThreads /\ next \in 1 .. (MaxThreads + 1)
    BY DEF Spawned, TypeOK
  <2>2. next \notin 1 .. w
    BY <1>1 DEF JoinedInOrder
  <2>3. w < next /\ w \in 1 .. (next - 1)
    BY <2>1, <2>2
  <2> QED
    BY <1>1, <2>1, <2>3 DEF JoinedInOrder
<1>3. slots \in Seq(Nat) /\ DOMAIN slots = 1 .. Len(slots) /\ call.n \in Nat
  BY LenProperties DEF TypeOK
<1>4. Len(slots) = call.n
  BY <1>1 DEF RowsAreOwn, SplitIsInOrder
<1>5. \A i \in DOMAIN slots : slots[i] = i /\ i # NoRow
  <2> SUFFICES ASSUME NEW i \in 1 .. call.n PROVE slots[i] = i /\ i # NoRow
    BY <1>3, <1>4
  <2>1. CASE call.static
    <3>1. \A j \in DOMAIN slots : slots[j] = j
      BY <2>1 DEF RowsAreOwn
    <3>2. i \in DOMAIN slots /\ i # 0
      BY <1>3, <1>4
    <3> QED
      BY <3>1, <3>2 DEF NoRow
  <2>2. CASE ~call.static
    <3>1. Underway(i)
      BY <1>1, <2>2 DEF QueueDropsNone
    <3>2. packs = <<>>
      <4>1. 1 \in Spawned
        BY <1>1 DEF JoinedInOrder
      <4> QED
        BY <1>2, <2>2, <4>1 DEF QueueDropsNone
    <3>3. \A w \in 1 .. MaxThreads : worker[w] \in {"none", "done"}
      BY <1>2 DEF Spawned
    <3>4. \A w \in 1 .. MaxThreads : w >= next => worker[w] = "none"
      <4>1. next \in 1 .. (MaxThreads + 1)
        BY DEF TypeOK
      <4>2. \A w \in 1 .. MaxThreads : w >= next => w \notin Spawned
        BY <1>2, <4>1
      <4> QED
        BY <4>2 DEF Spawned
    <3>5. \A w \in 1 .. MaxThreads : worker[w] = "none" => local[w] = <<>>
      BY DEF StartsClean
    <3> QED
      BY <3>1, <3>2, <3>3, <3>4, <3>5 DEF Underway, NoRow
  <2> QED
    BY <2>1, <2>2
<1>6. ~\E i \in DOMAIN slots : slots[i] = NoRow
  BY <1>5
<1>7. call' = [call EXCEPT !.ret = "leave ok"]
  BY <1>6 DEF Collect
<1>8. /\ call'.n = call.n /\ call'.static = call.static /\ call'.ret = "leave ok"
      /\ call' \in [n : Nat, static : BOOLEAN,
               ret : {"idle", "joining", "leave ok", "leave failed", "leave panicked",
                      "leave dropped", "ok", "failed", "panicked", "dropped", "unwound"}]
  BY <1>7 DEF TypeOK
<1>9. TypeOK'
  BY <1>1, <1>8 DEF TypeOK
<1>10. call'.n = call.n /\ call'.static = call.static /\ call'.ret = "leave ok"
  BY <1>8
<1>11. Spawned' = Spawned
  BY <1>1 DEF Spawned
<1>12. StartsClean' /\ JoinedInOrder' /\ QueueDropsNone'
  BY <1>1, <1>10, <1>11 DEF StartsClean, JoinedInOrder, QueueDropsNone
<1>13. RowsAreOwn'
  BY <1>1, <1>4, <1>5, <1>10 DEF RowsAreOwn
<1>14. SplitIsInOrder'
  <2>1. UNCHANGED <<packs, worker, held, local>>
    BY <1>1
  <2> QED
    BY <1>10, <1>11, <2>1, ZenonT(30) DEF SplitIsInOrder, InferChunk
<1> QED
  BY <1>9, <1>12, <1>13, <1>14

(* The scope ends: nothing but the outcome of the call changes.            *)
LEMMA LeaveInv ==
  ASSUME WindowFanOutAssumption, IInv, Leave
  PROVE  IInv'
<1> USE DEF IInv
<1>1. UNCHANGED <<packs, worker, held, local, next, slots>>
  BY DEF Leave
<1>2. PICK to \in {"ok", "failed", "panicked", "unwound"} :
        /\ call' = [call EXCEPT !.ret = to]
        /\ to = "ok" => call.ret = "leave ok"
  BY DEF Leave, RowsAreOwn
<1>3. /\ call'.n = call.n /\ call'.static = call.static /\ call'.ret = to
      /\ call' \in [n : Nat, static : BOOLEAN,
               ret : {"idle", "joining", "leave ok", "leave failed", "leave panicked",
                      "leave dropped", "ok", "failed", "panicked", "dropped", "unwound"}]
  BY <1>2 DEF TypeOK
<1>4. TypeOK'
  BY <1>1, <1>3 DEF TypeOK
<1>5. call'.n = call.n /\ call'.static = call.static /\ call'.ret = to
  BY <1>3
<1>6. Spawned' = Spawned
  BY <1>1 DEF Spawned
<1>7. StartsClean' /\ JoinedInOrder' /\ QueueDropsNone'
  BY <1>1, <1>5, <1>6 DEF StartsClean, JoinedInOrder, QueueDropsNone
<1>8. RowsAreOwn'
  BY <1>1, <1>2, <1>5 DEF RowsAreOwn
<1>9. SplitIsInOrder'
  BY <1>1, <1>5, <1>6 DEF SplitIsInOrder, InferChunk
<1> QED
  BY <1>4, <1>7, <1>8, <1>9

LEMMA InferWindowsInv ==
  ASSUME WindowFanOutAssumption, IInv, InferWindows
  PROVE  IInv'
<1>1. PICK n \in WindowCounts, share \in ThreadCounts :
        \/ Smaller(share, n) <= 1 /\ Alone(n)
        \/ Smaller(share, n) > 1 /\ Spawn(n, Smaller(share, n))
  BY DEF InferWindows
<1>2. call.ret = "idle"
  BY DEF InferWindows
<1>3. n \in Nat /\ share \in 1 .. MaxThreads /\ MaxThreads \in Nat
  OBVIOUS
<1>4. CASE Alone(n)
  BY <1>2, <1>4, AloneInv
<1>5. CASE Smaller(share, n) > 1 /\ Spawn(n, Smaller(share, n))
  <2>1. Smaller(share, n) \in 2 .. MaxThreads /\ Smaller(share, n) <= n
    BY <1>3, <1>5 DEF Smaller
  <2> QED
    BY <1>2, <1>5, <2>1, SpawnInv
<1> QED
  BY <1>1, <1>4, <1>5

LEMMA NextInv ==
  ASSUME WindowFanOutAssumption, IInv, [Next]_vars
  PROVE  IInv'
<1>1. CASE UNCHANGED vars
  <2>1. UNCHANGED <<packs, worker, held, local, next, slots, call>>
    BY <1>1 DEF vars
  <2>2. TypeOK' /\ StartsClean' /\ JoinedInOrder'
    BY <2>1 DEF IInv, TypeOK, StartsClean, JoinedInOrder, Spawned
  <2>3. RowsAreOwn'
    BY <2>1, ZenonT(30) DEF IInv, RowsAreOwn
  <2>4. SplitIsInOrder'
    BY <2>1 DEF IInv, SplitIsInOrder, Spawned, InferChunk
  <2>5. QueueDropsNone'
    BY <2>1 DEF IInv, QueueDropsNone, Underway, PackHas, RowsHave
  <2> QED
    BY <2>2, <2>3, <2>4, <2>5 DEF IInv
<1>2. ASSUME NEW w \in 1 .. MaxThreads, Work(w) PROVE IInv'
  BY <1>2, TakePackInv, NoMorePacksInv, FinishPackInv, FailPackInv DEF Work
<1>3. CASE Caller
  BY <1>3, JoinDoneInv, JoinFailedInv, CollectInv, LeaveInv DEF Caller
<1> QED
  BY <1>1, <1>2, <1>3, InferWindowsInv DEF Next
-----------------------------------------------------------------------------
(* Wherever its pack is, no window of the queue is lost, and the split's    *)
(* packs are joined in their order.                                        *)
THEOREM WindowsInvariance == ASSUME WindowFanOutAssumption PROVE Spec => []IInv
<1>1. Init => IInv
  BY InitInv
<1>2. IInv /\ [Next]_vars => IInv'
  BY NextInv
<1> QED
  BY <1>1, <1>2, PTL DEF Spec

LEMMA RowsFit == ASSUME IInv PROVE RowsAreTheWindows
<1> USE DEF IInv
<1>1. ASSUME call.ret = "ok" PROVE slots = [i \in 1 .. call.n |-> i]
  <2>1. slots \in Seq(Nat) /\ Len(slots) = call.n /\ \A i \in DOMAIN slots : slots[i] = i
    BY <1>1 DEF TypeOK, RowsAreOwn
  <2>2. DOMAIN slots = 1 .. call.n /\ slots = [i \in DOMAIN slots |-> slots[i]]
    BY <2>1, LenProperties
  <2> QED
    BY <2>1, <2>2
<1> QED
  BY <1>1 DEF RowsAreOwn, RowsAreTheWindows

(* The rows of a call that returns are those of its windows, in order, and  *)
(* "dropped a pack" is never returned.                                     *)
THEOREM RowsAreTheWindowsAlways ==
  ASSUME WindowFanOutAssumption PROVE Spec => []RowsAreTheWindows
BY WindowsInvariance, RowsFit, PTL
=============================================================================
