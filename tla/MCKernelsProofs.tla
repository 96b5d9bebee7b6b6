-------------------------- MODULE MCKernelsProofs --------------------------
(***************************************************************************)
(* Proofs about the machines of MCKernels, for every number of threads,    *)
(* models, layers and addresses, and every capacity: no product is computed *)
(* with a stale packed matrix, and no convolution with another's filter; the *)
(* tasks of a convolution never write one address; a recycled buffer never  *)
(* leaks into a forward, nor a seed into another's convolution.            *)
(***************************************************************************)
EXTENDS MCKernels, FiniteSetTheorems, WellFoundedInduction, TLAPS

(* The initial states satisfy the inductive invariant of PackCache: nothing *)
(* is allocated, packed or in a call.                                       *)
LEMMA InitInv == Init => IInv
<1> SUFFICES ASSUME Init PROVE IInv
  OBVIOUS
<1> USE DEF Init
<1>1. TypeOK
  BY DEF TypeOK
<1>2. Disjoint /\ LiveIsAllocated
  BY DEF Disjoint, LiveIsAllocated, Allocated, Matrices
<1>3. CallHoldsModel /\ GenerationsBehind
  BY DEF CallHoldsModel, GenerationsBehind
<1>4. NoDeadPacks /\ OwnAtAddress
  BY DEF NoDeadPacks, OwnAtAddress
<1> QED
  BY <1>1, <1>2, <1>3, <1>4 DEF IInv

(* Load keeps the invariant: the new matrices get addresses that no live    *)
(* matrix holds, so no packed copy that is still valid is touched.          *)
LEMMA LoadInv == ASSUME IInv, NEW m \in Models, Load(m) PROVE IInv'
<1> USE DEF IInv
<1>1. PICK f \in [Layers -> FreeAddrs] :
        /\ \A k, l \in Layers : f[k] = f[l] => k = l
        /\ at' = [w \in Matrices |-> IF w[1] = m THEN f[w[2]] ELSE at[w]]
  BY DEF Load
<1>2. /\ status[m] = "absent"
      /\ status' = [status EXCEPT ![m] = "live"]
      /\ UNCHANGED <<gen, seen, packs, pc, arg, loaded, used>>
  BY DEF Load
<1>3. \A w \in Matrices : w[1] \in Models /\ w[2] \in Layers /\ w = <<w[1], w[2]>>
  BY DEF Matrices
<1>4. \A w \in Matrices : w[1] = m => at[w] = NoAddr
  BY <1>2 DEF LiveIsAllocated
<1>5. FreeAddrs \subseteq Addrs
  BY DEF FreeAddrs
<1>6. TypeOK'
  <2>1. at' \in [Matrices -> Addrs \cup {NoAddr}]
    BY <1>1, <1>3, <1>5 DEF TypeOK
  <2> QED
    BY <1>2, <2>1 DEF TypeOK
<1>7. \A w \in Matrices : w[1] # m => at'[w] = at[w]
  BY <1>1
<1>8. \A w \in Matrices : w[1] = m => at'[w] = f[w[2]] /\ f[w[2]] \in FreeAddrs
  BY <1>1, <1>3
<1>9. \A w \in Matrices : at[w] # NoAddr => at[w] \notin FreeAddrs
  BY DEF FreeAddrs, Allocated
<1>10. Disjoint'
  <2> SUFFICES ASSUME NEW v \in Matrices, NEW w \in Matrices,
                      at'[v] # NoAddr, at'[w] # NoAddr, at'[v] = at'[w]
               PROVE  v = w
    BY DEF Disjoint, Allocated
  <2>1. CASE v[1] = m /\ w[1] = m
    <3>1. v[2] = w[2]
      BY <1>1, <1>3, <1>8, <2>1
    <3> QED
      BY <1>3, <2>1, <3>1
  <2>2. CASE v[1] # m /\ w[1] # m
    BY <1>7, <2>2 DEF Disjoint, Allocated
  <2>3. CASE v[1] = m /\ w[1] # m
    BY <1>7, <1>8, <1>9, <2>3
  <2>4. CASE v[1] # m /\ w[1] = m
    BY <1>7, <1>8, <1>9, <2>4
  <2> QED
    BY <2>1, <2>2, <2>3, <2>4
<1>11. LiveIsAllocated'
  <2> SUFFICES ASSUME NEW w \in Matrices
               PROVE  /\ status'[w[1]] = "live" => at'[w] # NoAddr
                      /\ status'[w[1]] = "absent" => at'[w] = NoAddr
    BY DEF LiveIsAllocated
  <2>1. CASE w[1] = m
    BY <1>2, <1>5, <1>8, <2>1, PackAssumption DEF TypeOK
  <2>2. CASE w[1] # m
    BY <1>2, <1>3, <1>7, <2>2 DEF LiveIsAllocated, TypeOK
  <2> QED
    BY <2>1, <2>2
<1>12. CallHoldsModel'
  BY <1>2, <1>3 DEF CallHoldsModel, TypeOK
<1>13. GenerationsBehind'
  BY <1>2 DEF GenerationsBehind
<1>14. NoDeadPacks'
  <2> SUFFICES ASSUME NEW t \in Threads, seen[t] = gen, NEW p \in packs[t]
               PROVE  status'[p.of[1]] = "live" /\ at'[p.of] = p.addr
    BY <1>2 DEF NoDeadPacks
  <2>1. p.of \in Matrices /\ status[p.of[1]] = "live" /\ at[p.of] = p.addr
    BY DEF NoDeadPacks, TypeOK, Entry
  <2>2. p.of[1] # m
    BY <1>2, <2>1
  <2> QED
    BY <1>2, <1>3, <1>7, <2>1, <2>2 DEF TypeOK
<1>15. OwnAtAddress'
  <2> SUFFICES ASSUME NEW t \in Threads, Checked(t), NEW p \in packs[t],
                      p.addr = at'[arg[t]]
               PROVE  p.of = arg[t]
    BY <1>2 DEF OwnAtAddress, Checked
  <2>1. arg[t] \in Matrices /\ status[arg[t][1]] = "live"
    BY DEF Checked, CallHoldsModel, TypeOK
  <2>2. at'[arg[t]] = at[arg[t]]
    BY <1>2, <1>7, <2>1
  <2> QED
    BY <2>2 DEF OwnAtAddress
<1> QED
  BY <1>6, <1>10, <1>11, <1>12, <1>13, <1>14, <1>15

(* Drop keeps the invariant: every thread is now behind the generation, so  *)
(* the packs of the dropped model count for nobody any more, and no call    *)
(* holds the model.                                                         *)
LEMMA DropInv == ASSUME IInv, NEW m \in Models, Drop(m) PROVE IInv'
<1> USE DEF IInv, Drop
<1>1. \A w \in Matrices : w[1] \in Models
  BY DEF Matrices
<1>2. TypeOK'
  BY DEF TypeOK
<1>3. Disjoint' /\ LiveIsAllocated'
  BY <1>1 DEF Disjoint, LiveIsAllocated, Allocated, TypeOK
<1>4. CallHoldsModel'
  BY <1>1 DEF CallHoldsModel, TypeOK
<1>5. \A t \in Threads : seen[t] < gen' /\ loaded[t] < gen'
  BY DEF GenerationsBehind, TypeOK
<1>6. GenerationsBehind' /\ NoDeadPacks'
  BY <1>5 DEF GenerationsBehind, NoDeadPacks, TypeOK
<1>7. OwnAtAddress'
  BY DEF OwnAtAddress, Checked
<1> QED
  BY <1>2, <1>3, <1>4, <1>6, <1>7

(* Freeing a field of a dropped model keeps the invariant: valid packs and  *)
(* calls point to live models only.                                         *)
LEMMA FreeInv == ASSUME IInv, NEW w \in Matrices, FreeField(w) PROVE IInv'
<1> USE DEF IInv, FreeField
<1>1. \A v \in Matrices : v # w => at'[v] = at[v]
  BY DEF TypeOK
<1>2. at'[w] = NoAddr
  BY DEF TypeOK
<1>3. TypeOK'
  BY DEF TypeOK
<1>4. Disjoint' /\ LiveIsAllocated'
  BY <1>1, <1>2 DEF Disjoint, LiveIsAllocated, Allocated
<1>5. CallHoldsModel' /\ GenerationsBehind'
  BY DEF CallHoldsModel, GenerationsBehind
<1>6. NoDeadPacks'
  <2> SUFFICES ASSUME NEW t \in Threads, seen[t] = gen, NEW p \in packs[t]
               PROVE  status[p.of[1]] = "live" /\ at'[p.of] = p.addr
    BY DEF NoDeadPacks
  <2>1. p.of \in Matrices /\ status[p.of[1]] = "live" /\ at[p.of] = p.addr
    BY DEF NoDeadPacks, TypeOK, Entry
  <2> QED
    BY <1>1, <2>1
<1>7. OwnAtAddress'
  <2> SUFFICES ASSUME NEW t \in Threads, Checked(t), NEW p \in packs[t],
                      p.addr = at'[arg[t]]
               PROVE  p.of = arg[t]
    BY DEF OwnAtAddress, Checked
  <2>1. arg[t] \in Matrices /\ status[arg[t][1]] = "live"
    BY DEF Checked, CallHoldsModel, TypeOK
  <2> QED
    BY <1>1, <2>1 DEF OwnAtAddress
<1> QED
  BY <1>3, <1>4, <1>5, <1>6, <1>7

(* Entering a multiplication keeps the invariant: if the caches are current *)
(* they hold the operand's address only for the operand itself.             *)
LEMMA LoadGenerationInv ==
  ASSUME IInv, NEW t \in Threads, NEW w \in Matrices, LoadGeneration(t, w)
  PROVE  IInv'
<1> USE DEF IInv, LoadGeneration
<1>1. TypeOK'
  BY DEF TypeOK
<1>2. Disjoint' /\ LiveIsAllocated'
  BY DEF Disjoint, LiveIsAllocated, Allocated
<1>3. CallHoldsModel' /\ GenerationsBehind'
  BY DEF CallHoldsModel, GenerationsBehind, TypeOK
<1>4. NoDeadPacks'
  BY DEF NoDeadPacks
<1>5. OwnAtAddress'
  <2> SUFFICES ASSUME NEW s \in Threads, Checked(s)', NEW p \in packs[s],
                      p.addr = at[arg'[s]]
               PROVE  p.of = arg'[s]
    BY DEF OwnAtAddress
  <2>1. CASE s # t
    BY <2>1 DEF OwnAtAddress, Checked, TypeOK
  <2>2. CASE s = t
    <3>1. arg'[t] = w /\ loaded'[t] = gen /\ pc'[t] = "refresh"
      BY DEF TypeOK
    <3>2. seen[t] = gen
      BY <2>2, <3>1 DEF Checked
    <3>3. p.of \in Matrices /\ status[p.of[1]] = "live" /\ at[p.of] = p.addr
      BY <2>2, <3>2 DEF NoDeadPacks, TypeOK, Entry
    <3>4. at[w] # NoAddr /\ at[p.of] # NoAddr /\ at[p.of] = at[w]
      BY <2>2, <3>1, <3>3 DEF LiveIsAllocated
    <3> QED
      BY <2>2, <3>1, <3>3, <3>4 DEF Disjoint, Allocated
  <2> QED
    BY <2>1, <2>2
<1> QED
  BY <1>1, <1>2, <1>3, <1>4, <1>5

(* The comparison keeps the invariant: a thread that was behind starts with *)
(* empty caches.                                                            *)
LEMMA ClearStaleInv ==
  ASSUME IInv, NEW t \in Threads, ClearStale(t) PROVE IInv'
<1> USE DEF IInv, ClearStale
<1>1. TypeOK'
  BY DEF TypeOK
<1>2. Disjoint' /\ LiveIsAllocated'
  BY DEF Disjoint, LiveIsAllocated, Allocated
<1>3. CallHoldsModel' /\ GenerationsBehind'
  BY DEF CallHoldsModel, GenerationsBehind, TypeOK
<1>4. packs'[t] = {} \/ (seen[t] = loaded[t] /\ packs'[t] = packs[t])
  BY DEF TypeOK
<1>5. \A s \in Threads : s # t =>
        /\ packs'[s] = packs[s]
        /\ seen'[s] = seen[s]
        /\ pc'[s] = pc[s]
  BY DEF TypeOK
<1>6. seen'[t] = loaded[t]
  BY DEF TypeOK
<1>7. NoDeadPacks'
  BY <1>4, <1>5, <1>6 DEF NoDeadPacks
<1>8. OwnAtAddress'
  BY <1>4, <1>5, <1>6 DEF OwnAtAddress, Checked
<1> QED
  BY <1>1, <1>2, <1>3, <1>7, <1>8

(* The product keeps the invariant: the entry it may add is the live        *)
(* operand at its own address.                                              *)
LEMMA LookupInv == ASSUME IInv, NEW t \in Threads, Lookup(t) PROVE IInv'
<1> USE DEF IInv
<1> DEFINE e == [addr |-> at[arg[t]], shape |-> Shape[arg[t][2]], of |-> arg[t]]
<1>1. /\ pc[t] = "lookup"
      /\ pc' = [pc EXCEPT ![t] = "idle"]
      /\ UNCHANGED <<status, at, gen, seen, arg, loaded>>
  BY DEF Lookup, MultiplyPacked, MultiplyMiss
<1>2. packs' = packs \/ packs' = [packs EXCEPT ![t] = @ \cup {e}]
  BY DEF Lookup, MultiplyPacked, MultiplyMiss
<1>3. arg[t] \in Matrices /\ status[arg[t][1]] = "live" /\ at[arg[t]] \in Addrs
  BY <1>1, PackAssumption DEF CallHoldsModel, LiveIsAllocated, TypeOK
<1>4. e \in Entry
  BY <1>3 DEF Entry, Matrices
<1>5. used' \in [Threads -> Matrices]
  <2>1. CASE MultiplyPacked(t)
    <3>1. PICK p \in Hits(t, arg[t]) : used' = [used EXCEPT ![t] = p.of]
      BY <2>1 DEF MultiplyPacked
    <3>2. p.of \in Matrices
      BY DEF Hits, TypeOK, Entry
    <3> QED
      BY <3>1, <3>2 DEF TypeOK
  <2>2. CASE MultiplyMiss(t)
    BY <1>3, <2>2 DEF MultiplyMiss, TypeOK
  <2> QED
    BY <2>1, <2>2 DEF Lookup
<1>6. TypeOK'
  <2>1. packs' \in [Threads -> SUBSET Entry]
    BY <1>2, <1>4 DEF TypeOK
  <2> QED
    BY <1>1, <1>5, <2>1 DEF TypeOK
<1>7. Disjoint' /\ LiveIsAllocated'
  BY <1>1 DEF Disjoint, LiveIsAllocated, Allocated
<1>8. CallHoldsModel' /\ GenerationsBehind'
  BY <1>1 DEF CallHoldsModel, GenerationsBehind, TypeOK
<1>9. \A s \in Threads : \A p \in packs'[s] :
        p \in packs[s] \/ (s = t /\ p = e)
  BY <1>2 DEF TypeOK
<1>10. NoDeadPacks'
  BY <1>1, <1>3, <1>9 DEF NoDeadPacks
<1>11. OwnAtAddress'
  <2> SUFFICES ASSUME NEW s \in Threads, Checked(s)', NEW p \in packs'[s],
                      p.addr = at[arg[s]]
               PROVE  p.of = arg[s]
    BY <1>1 DEF OwnAtAddress
  <2>1. s # t
    BY <1>1 DEF Checked, TypeOK
  <2>2. p \in packs[s] /\ Checked(s)
    BY <1>1, <1>9, <2>1 DEF Checked, TypeOK
  <2> QED
    BY <2>2 DEF OwnAtAddress
<1> QED
  BY <1>6, <1>7, <1>8, <1>10, <1>11

(* Every step of the caches, the allocator and the models keeps the         *)
(* inductive invariant.                                                     *)
LEMMA NextInv == IInv /\ [Next]_vars => IInv'
<1> SUFFICES ASSUME IInv, [Next]_vars PROVE IInv'
  OBVIOUS
<1>1. CASE \E m \in Models : Load(m)
  BY <1>1, LoadInv
<1>2. CASE \E m \in Models : Drop(m)
  BY <1>2, DropInv
<1>3. CASE \E w \in Matrices : FreeField(w)
  BY <1>3, FreeInv
<1>4. CASE \E t \in Threads, w \in Matrices : LoadGeneration(t, w)
  BY <1>4, LoadGenerationInv
<1>5. CASE \E t \in Threads : ClearStale(t)
  BY <1>5, ClearStaleInv
<1>6. CASE \E t \in Threads : Lookup(t)
  BY <1>6, LookupInv
<1>7. CASE UNCHANGED vars
  BY <1>7 DEF vars, IInv, TypeOK, Disjoint, LiveIsAllocated, Allocated,
     CallHoldsModel, GenerationsBehind, NoDeadPacks, OwnAtAddress, Checked
<1> QED
  BY <1>1, <1>2, <1>3, <1>4, <1>5, <1>6, <1>7 DEF Next

(* In every reachable state a thread that has seen the latest generation    *)
(* holds packs of live models only, and the rest of the invariant holds:    *)
(* invalidate_packed_weights in Drop reaches every thread in time.          *)
THEOREM PackInvariance == Spec => []IInv
<1>1. QED
  BY InitInv, NextInv, PTL DEF Spec

(* No dropped model's packed copy is left for a thread that has refreshed.  *)
THEOREM NoDeadPacksHolds == Spec => []NoDeadPacks
<1>1. IInv => NoDeadPacks
  BY DEF IInv
<1> QED
  BY PackInvariance, <1>1, PTL

(* Every product is computed with the operand the caller passed, whatever   *)
(* loads, drops and frees run on other threads meanwhile.                   *)
THEOREM MultipliesOwnWeightsHolds == Spec => MultipliesOwnWeights
<1> DEFINE A == \A t \in Threads :
                  pc[t] = "lookup" /\ pc'[t] = "idle" => used'[t] = arg[t]
<1>1. IInv /\ [Next]_vars => [A]_vars
  <2> SUFFICES ASSUME IInv, [Next]_vars, NEW t \in Threads,
                      pc[t] = "lookup", pc'[t] = "idle"
               PROVE  used'[t] = arg[t]
    OBVIOUS
  <2>1. PICK s \in Threads : Lookup(s) /\ s = t
    <3>1. pc' # pc
      OBVIOUS
    <3>2. ~(\E m \in Models : Load(m) \/ Drop(m))
      BY <3>1 DEF Load, Drop
    <3>3. ~(\E w \in Matrices : FreeField(w))
      BY <3>1 DEF FreeField
    <3>4. \A s \in Threads : \A w \in Matrices : ~LoadGeneration(s, w)
      BY DEF LoadGeneration, IInv, TypeOK
    <3>5. \A s \in Threads : ~ClearStale(s)
      BY DEF ClearStale, IInv, TypeOK
    <3>6. PICK s \in Threads : Lookup(s)
      BY <3>1, <3>2, <3>3, <3>4, <3>5 DEF Next, vars
    <3>7. s = t
      BY <3>6 DEF Lookup, MultiplyPacked, MultiplyMiss, IInv, TypeOK
    <3> QED
      BY <3>6, <3>7
  <2>2. CASE MultiplyMiss(t)
    BY <2>2 DEF MultiplyMiss, IInv, TypeOK
  <2>3. CASE MultiplyPacked(t)
    <3>1. PICK p \in Hits(t, arg[t]) : used' = [used EXCEPT ![t] = p.of]
      BY <2>3 DEF MultiplyPacked
    <3>2. p \in packs[t] /\ p.addr = at[arg[t]]
      BY DEF Hits
    <3>3. p.of = arg[t]
      BY <3>2 DEF IInv, OwnAtAddress, Checked
    <3> QED
      BY <3>1, <3>3 DEF IInv, TypeOK
  <2> QED
    BY <2>1, <2>2, <2>3 DEF Lookup
<1>2. Spec => [][A]_vars
  BY PackInvariance, <1>1, PTL DEF Spec
<1> QED
  BY <1>2 DEF MultipliesOwnWeights

-----------------------------------------------------------------------------
(* The pool of filters.                                                     *)

\* A pool with an empty bucket for key k where there was none.
LEMMA WithEntryPool ==
  ASSUME NEW pool, pool \in [DOMAIN pool -> Seq(FilterModels)], NEW k
  PROVE  /\ DOMAIN Filters!WithEntry(pool, k) = DOMAIN pool \cup {k}
         /\ Filters!WithEntry(pool, k) \in [DOMAIN pool \cup {k} -> Seq(FilterModels)]
         /\ \A j \in DOMAIN pool : Filters!WithEntry(pool, k)[j] = pool[j]
         /\ k \notin DOMAIN pool => Filters!WithEntry(pool, k)[k] = <<>>
<1>1. <<>> \in Seq(FilterModels)
  OBVIOUS
<1> QED
  BY <1>1 DEF Filters!WithEntry

\* What eviction leaves is part of the pool, with the key that is about to be
\* used, and has room for it.
LEMMA EvictKeeps ==
  ASSUME MaxKeys \in Nat \ {0, 1}, NEW pool, pool \in [DOMAIN pool -> Seq(FilterModels)],
         NEW k, NEW left, left \in Filters!Evict(pool, k)
  PROVE  /\ DOMAIN left \subseteq DOMAIN pool /\ k \in DOMAIN left
         /\ left \in [DOMAIN left -> Seq(FilterModels)]
         /\ \A j \in DOMAIN left : left[j] = pool[j]
         /\ IsFiniteSet(DOMAIN pool) => Cardinality(DOMAIN left) < MaxKeys
<1>1. PICK kept \in SUBSET DOMAIN pool :
        /\ left = Filters!Restrict(pool, kept)
        /\ k \in kept
        /\ Filters!Cardinality(kept) =
             IF Filters!Cardinality(DOMAIN pool) >= MaxKeys THEN MaxKeys - 1 ELSE Filters!Cardinality(DOMAIN pool)
  BY DEF Filters!Evict
<1>2. DOMAIN left = kept /\ \A j \in kept : left[j] = pool[j]
  BY <1>1 DEF Filters!Restrict
<1>3. left \in [kept -> Seq(FilterModels)]
  BY <1>1, <1>2 DEF Filters!Restrict
<1>4. ASSUME IsFiniteSet(DOMAIN pool) PROVE Cardinality(kept) < MaxKeys
  <2>1. Filters!Cardinality(kept) = Cardinality(kept) /\ Filters!Cardinality(DOMAIN pool) = Cardinality(DOMAIN pool)
    BY DEF Filters!Cardinality, Cardinality
  <2>2. Cardinality(DOMAIN pool) \in Nat
    BY <1>4, FS_CardinalityType
  <2> QED
    BY <1>1, <2>1, <2>2
<1> QED
  BY <1>1, <1>2, <1>3, <1>4

(* A key fits its model's address and a size of the input.                  *)
LEMMA FilterKeys ==
  ASSUME Filters!FilterTypeOK, NEW m \in Filters!Live, NEW s \in FilterSizes
  PROVE  /\ Filters!KeyOf(m, s) \in Filters!Keys /\ Filters!KeyOf(m, s)[1] = fAt[m]
         /\ m \in FilterModels
  BY DEF Filters!FilterTypeOK, Filters!Live, Filters!KeyOf, Filters!Keys

\* What the counts of the pool and of the evicted keys amount to, in the
\* library's terms.
LEMMA EvictedCount ==
  ASSUME IsFiniteSet(Threads), Filters!FilterTypeOK
  PROVE  /\ Filters!Evicted \subseteq Threads /\ IsFiniteSet(Filters!Evicted)
         /\ Cardinality(Filters!Evicted) \in Nat /\ Cardinality(Threads) \in Nat
         /\ Cardinality(Filters!Evicted) <= Cardinality(Threads)
<1>1. Filters!Evicted \subseteq Threads
  BY DEF Filters!Evicted
<1> QED
  BY <1>1, FS_Subset, FS_CardinalityType

\* The same in the next state.
LEMMA EvictedCountNext ==
  ASSUME IsFiniteSet(Threads), Filters!FilterTypeOK'
  PROVE  /\ Filters!Evicted' \subseteq Threads /\ IsFiniteSet(Filters!Evicted')
         /\ Cardinality(Filters!Evicted') \in Nat /\ Cardinality(Threads) \in Nat
         /\ Cardinality(Filters!Evicted') <= Cardinality(Threads)
<1>1. Filters!Evicted' \subseteq Threads
  BY DEF Filters!Evicted
<1> QED
  BY <1>1, FS_Subset, FS_CardinalityType

LEMMA FilterCardinality ==
  ASSUME NEW S PROVE Filters!Cardinality(S) = Cardinality(S) /\ (Filters!IsFiniteSet(S) <=> IsFiniteSet(S))
  BY DEF Filters!Cardinality, Cardinality, Filters!IsFiniteSet, IsFiniteSet

(* The pool starts empty and nothing is loaded.                             *)
LEMMA FilterInit == ASSUME Filters!FilterAssumption, Filters!Init PROVE Filters!FilterIInv
<1> USE DEF Filters!Init
<1>1. Filters!FilterTypeOK
  BY DEF Filters!FilterTypeOK, Filters!Keys
<1>2. Filters!Live = {}
  BY DEF Filters!Live
<1>3. Filters!LiveAreApart /\ Filters!CallsHoldTheirModel /\ Filters!PooledAreOwn
  BY <1>2 DEF Filters!LiveAreApart, Filters!CallsHoldTheirModel, Filters!PooledAreOwn
<1>4. Filters!AppliesOwnWhileKept
  BY DEF Filters!AppliesOwnWhileKept, Filters!AppliesOwnWeights
<1>5. Filters!EvictedHaveRoom
  <2>1. DOMAIN fReady = {} /\ Filters!Evicted = {}
    BY DEF Filters!Evicted
  <2>2. Cardinality({}) = 0 /\ IsFiniteSet({})
    BY FS_EmptySet
  <2>3. Cardinality(Threads) \in Nat /\ MaxKeys \in Nat /\ MaxKeys > 1
    BY FilterCardinality, FS_CardinalityType DEF Filters!FilterAssumption
  <2> QED
    BY <2>1, <2>2, <2>3, FilterCardinality DEF Filters!EvictedHaveRoom
<1> QED
  BY <1>1, <1>3, <1>4, <1>5 DEF Filters!FilterIInv

(* A new model's weights get an address that no model in memory holds.      *)
LEMMA FilterLoad ==
  ASSUME Filters!FilterIInv, NEW m \in FilterModels, Filters!Load(m) PROVE Filters!FilterIInv'
<1> USE DEF Filters!FilterIInv
<1>1. PICK a \in FilterAddrs \ {fAt[n] : n \in Filters!Live} : fAt' = [fAt EXCEPT ![m] = a]
  BY DEF Filters!Load
<1>2. /\ m \notin fLoaded /\ fLoaded' = fLoaded \cup {m}
      /\ UNCHANGED <<fReady, fFailed, fPc, fArg, fKey, fFilter, fUsed>>
  BY DEF Filters!Load
<1>3. Filters!FilterTypeOK'
  BY <1>1, <1>2 DEF Filters!FilterTypeOK
<1>4. \A n \in FilterModels : n # m => fAt'[n] = fAt[n]
  BY <1>1 DEF Filters!FilterTypeOK
<1>5. fAt'[m] = a /\ m \notin Filters!Live
  BY <1>1, <1>2 DEF Filters!FilterTypeOK, Filters!LiveAreApart
<1>6. Filters!Live \subseteq FilterModels /\ Filters!Live \subseteq Filters!Live' /\ Filters!Live' \subseteq Filters!Live \cup {m}
  BY <1>4, <1>5 DEF Filters!Live
<1>7. Filters!LiveAreApart'
  <2>1. ASSUME NEW v \in Filters!Live', NEW w \in Filters!Live', fAt'[v] = fAt'[w]
        PROVE  v = w
    BY <1>1, <1>4, <1>5, <1>6, <2>1 DEF Filters!LiveAreApart
  <2> QED
    BY <1>2, <1>6, <2>1 DEF Filters!LiveAreApart
<1>8. \A t \in Threads : fPc[t] # "idle" => fAt'[fArg[t]] = fAt[fArg[t]]
  BY <1>4, <1>5, <1>6 DEF Filters!CallsHoldTheirModel
<1>9. Filters!CallsHoldTheirModel'
  BY <1>2, <1>6, <1>8 DEF Filters!CallsHoldTheirModel
<1>10. fLoaded' = Filters!Live' => fLoaded = Filters!Live
  BY <1>2, <1>6 DEF Filters!LiveAreApart
<1>11. Filters!PooledAreOwn'
  <2> SUFFICES ASSUME fLoaded' = Filters!Live'
               PROVE  /\ \A k \in DOMAIN fReady : \A i \in DOMAIN fReady[k] :
                           fReady[k][i] \in Filters!Live' /\ fAt'[fReady[k][i]] = k[1]
                      /\ \A t \in Threads : fPc[t] # "idle" => fFilter[t] = fArg[t]
    BY <1>2 DEF Filters!PooledAreOwn
  <2>1. \A k \in DOMAIN fReady : \A i \in DOMAIN fReady[k] :
          fReady[k][i] \in Filters!Live /\ fAt[fReady[k][i]] = k[1]
    BY <1>10 DEF Filters!PooledAreOwn
  <2>2. \A n \in Filters!Live : n \in Filters!Live' /\ fAt'[n] = fAt[n]
    BY <1>4, <1>5, <1>6
  <2>3. \A t \in Threads : fPc[t] # "idle" => fFilter[t] = fArg[t]
    BY <1>10 DEF Filters!PooledAreOwn
  <2> QED
    BY <2>1, <2>2, <2>3
<1>12. Filters!AppliesOwnWhileKept'
  BY <1>2, <1>10 DEF Filters!AppliesOwnWhileKept, Filters!AppliesOwnWeights
<1>13. Filters!EvictedHaveRoom'
  BY <1>2 DEF Filters!EvictedHaveRoom, Filters!Evicted
<1> QED
  BY <1>3, <1>7, <1>9, <1>11, <1>12, <1>13

(* A drop ends the time in which every model is kept.                       *)
LEMMA FilterDrop ==
  ASSUME Filters!FilterIInv, NEW m \in FilterModels, Filters!Drop(m) PROVE Filters!FilterIInv'
<1> USE DEF Filters!FilterIInv, Filters!Drop
<1>1. Filters!FilterTypeOK'
  BY DEF Filters!FilterTypeOK
<1>2. /\ fAt'[m] = NoAddr
      /\ \A n \in FilterModels : n # m => fAt'[n] = fAt[n]
  BY DEF Filters!FilterTypeOK
<1>3. Filters!Live' = Filters!Live \ {m} /\ Filters!Live \subseteq FilterModels
  BY <1>2 DEF Filters!Live
<1>4. Filters!LiveAreApart'
  BY <1>2, <1>3 DEF Filters!LiveAreApart
<1>5. Filters!CallsHoldTheirModel'
  BY <1>2, <1>3 DEF Filters!CallsHoldTheirModel
<1>6. fLoaded' # Filters!Live'
  BY <1>3 DEF Filters!LiveAreApart
<1>7. Filters!PooledAreOwn' /\ Filters!AppliesOwnWhileKept'
  BY <1>6 DEF Filters!PooledAreOwn, Filters!AppliesOwnWhileKept
<1>8. Filters!EvictedHaveRoom'
  BY DEF Filters!EvictedHaveRoom, Filters!Evicted
<1> QED
  BY <1>1, <1>4, <1>5, <1>7, <1>8

(* A key that failed is not looked up again.                                *)
LEMMA FilterRefused ==
  ASSUME Filters!FilterIInv, NEW t \in Threads, NEW m \in FilterModels, NEW s \in FilterSizes,
         Filters!Refused(t, m, s)
  PROVE  Filters!FilterIInv'
<1> USE DEF Filters!FilterIInv, Filters!Refused
<1>1. Filters!FilterTypeOK'
  BY DEF Filters!FilterTypeOK
<1>2. Filters!LiveAreApart'
  BY DEF Filters!LiveAreApart, Filters!Live
<1>3. \A u \in Threads : fPc[u] # "idle" => fArg'[u] = fArg[u]
  BY DEF Filters!FilterTypeOK
<1>4. Filters!CallsHoldTheirModel' /\ Filters!PooledAreOwn'
  BY <1>3 DEF Filters!CallsHoldTheirModel, Filters!PooledAreOwn, Filters!Live
<1>5. \A u \in Threads : IF u = t THEN fUsed'[u] = fArg'[u] ELSE fUsed'[u] = fUsed[u] /\ fArg'[u] = fArg[u]
  BY DEF Filters!FilterTypeOK
<1>6. Filters!AppliesOwnWhileKept'
  BY <1>5 DEF Filters!AppliesOwnWhileKept, Filters!AppliesOwnWeights, Filters!Live
<1>7. Filters!EvictedHaveRoom'
  BY DEF Filters!EvictedHaveRoom, Filters!Evicted
<1> QED
  BY <1>1, <1>2, <1>4, <1>6, <1>7

(* A pooled filter under the model's own key is the model's.                *)
LEMMA FilterHit ==
  ASSUME Filters!FilterIInv, NEW t \in Threads, NEW m \in FilterModels, NEW s \in FilterSizes,
         Filters!Hit(t, m, s)
  PROVE  Filters!FilterIInv'
<1> USE DEF Filters!FilterIInv
<1> DEFINE k == Filters!KeyOf(m, s)
<1>1. /\ fPc[t] = "idle" /\ m \in Filters!Live /\ k \in DOMAIN fReady /\ fReady[k] # <<>>
      /\ fFilter' = [fFilter EXCEPT ![t] = Head(fReady[k])]
      /\ fReady' = [fReady EXCEPT ![k] = Tail(@)]
      /\ fKey' = [fKey EXCEPT ![t] = k]
      /\ fArg' = [fArg EXCEPT ![t] = m] /\ fPc' = [fPc EXCEPT ![t] = "apply"]
      /\ UNCHANGED <<fAt, fLoaded, fFailed, fUsed>>
  BY DEF Filters!Hit
<1>2. k \in Filters!Keys /\ k[1] = fAt[m]
  BY <1>1, FilterKeys
<1> HIDE DEF k
<1>3. fReady[k] \in Seq(FilterModels)
  BY <1>1 DEF Filters!FilterTypeOK
<1>4. /\ Head(fReady[k]) \in FilterModels /\ Tail(fReady[k]) \in Seq(FilterModels)
      /\ 1 \in DOMAIN fReady[k] /\ Head(fReady[k]) = fReady[k][1]
      /\ Len(Tail(fReady[k])) <= Len(fReady[k])
      /\ \A i \in DOMAIN Tail(fReady[k]) : i + 1 \in DOMAIN fReady[k] /\ Tail(fReady[k])[i] = fReady[k][i + 1]
  BY <1>1, <1>3
<1>5. DOMAIN fReady' = DOMAIN fReady
  BY <1>1
<1>6. Filters!FilterTypeOK'
  <2>1. fReady' \in [DOMAIN fReady' -> Seq(FilterModels)]
    BY <1>1, <1>4, <1>5 DEF Filters!FilterTypeOK
  <2> QED
    BY <1>1, <1>2, <1>4, <1>5, <2>1 DEF Filters!FilterTypeOK
<1>7. Filters!Live' = Filters!Live
  BY <1>1 DEF Filters!Live
<1>8. Filters!LiveAreApart'
  BY <1>1, <1>7 DEF Filters!LiveAreApart
<1>9. \A u \in Threads :
        IF u = t THEN fKey'[u] = k /\ fArg'[u] = m /\ fPc'[u] = "apply" /\ fFilter'[u] = Head(fReady[k])
        ELSE fKey'[u] = fKey[u] /\ fArg'[u] = fArg[u] /\ fPc'[u] = fPc[u] /\ fFilter'[u] = fFilter[u]
  BY <1>1 DEF Filters!FilterTypeOK
<1>10. Filters!CallsHoldTheirModel'
  BY <1>1, <1>2, <1>7, <1>9 DEF Filters!CallsHoldTheirModel
<1>11. Filters!PooledAreOwn'
  <2> SUFFICES ASSUME fLoaded = Filters!Live
               PROVE  /\ \A j \in DOMAIN fReady' : \A i \in DOMAIN fReady'[j] :
                           fReady'[j][i] \in Filters!Live /\ fAt[fReady'[j][i]] = j[1]
                      /\ \A u \in Threads : fPc'[u] # "idle" => fFilter'[u] = fArg'[u]
    BY <1>1, <1>7 DEF Filters!PooledAreOwn
  <2>1. \A j \in DOMAIN fReady : \A i \in DOMAIN fReady[j] :
          fReady[j][i] \in Filters!Live /\ fAt[fReady[j][i]] = j[1]
    BY DEF Filters!PooledAreOwn
  <2>2. ASSUME NEW j \in DOMAIN fReady', NEW i \in DOMAIN fReady'[j]
        PROVE  fReady'[j][i] \in Filters!Live /\ fAt[fReady'[j][i]] = j[1]
    <3>1. CASE j = k
      BY <1>1, <1>4, <1>5, <2>1, <2>2, <3>1
    <3>2. CASE j # k
      BY <1>1, <1>5, <2>1, <2>2, <3>2
    <3> QED
      BY <3>1, <3>2
  <2>3. Head(fReady[k]) \in Filters!Live /\ fAt[Head(fReady[k])] = fAt[m]
    BY <1>1, <1>2, <1>4, <2>1
  <2>4. Head(fReady[k]) = m
    BY <1>1, <2>3 DEF Filters!LiveAreApart
  <2> QED
    BY <1>9, <2>2, <2>4 DEF Filters!PooledAreOwn
<1>12. Filters!AppliesOwnWhileKept'
  BY <1>1, <1>7, <1>9 DEF Filters!AppliesOwnWhileKept, Filters!AppliesOwnWeights
<1>13. Filters!EvictedHaveRoom'
  <2>1. Filters!Evicted' = Filters!Evicted
    BY <1>1, <1>5, <1>9 DEF Filters!Evicted
  <2>2. \A j \in DOMAIN fReady' : Len(fReady'[j]) <= 1
    <3> SUFFICES ASSUME NEW j \in DOMAIN fReady PROVE Len(fReady'[j]) <= 1
      BY <1>5
    <3>1. CASE j = k
      BY <1>1, <1>3, <1>4, <3>1 DEF Filters!EvictedHaveRoom
    <3>2. CASE j # k
      BY <1>1, <3>2 DEF Filters!EvictedHaveRoom
    <3> QED
      BY <3>1, <3>2
  <2> QED
    BY <1>5, <2>1, <2>2 DEF Filters!EvictedHaveRoom
<1> QED
  BY <1>6, <1>8, <1>10, <1>11, <1>12, <1>13

(* A new filter is made from the model's own weights; the keys that are kept *)
(* leave room for every thread that may still check one in.                 *)
LEMMA FilterCreate ==
  ASSUME Filters!FilterAssumption, Filters!FilterIInv, NEW t \in Threads, NEW m \in FilterModels, NEW s \in FilterSizes,
         Filters!Create(t, m, s)
  PROVE  Filters!FilterIInv'
<1> USE DEF Filters!FilterIInv
<1> DEFINE k == Filters!KeyOf(m, s)
           pool == Filters!WithEntry(fReady, k)
<1>1. /\ fPc[t] = "idle" /\ m \in Filters!Live /\ (k \in DOMAIN fReady => fReady[k] = <<>>)
      /\ fReady' \in Filters!Evict(pool, k)
      /\ fKey' = [fKey EXCEPT ![t] = k]
      /\ fArg' = [fArg EXCEPT ![t] = m]
      /\ \/ fFilter' = [fFilter EXCEPT ![t] = m] /\ fPc' = [fPc EXCEPT ![t] = "apply"] /\ fUsed' = fUsed
         \/ fUsed' = [fUsed EXCEPT ![t] = m] /\ fPc' = fPc /\ fFilter' = fFilter
      /\ UNCHANGED <<fAt, fLoaded>>
  BY DEF Filters!Create
<1>2. k \in Filters!Keys /\ k[1] = fAt[m]
  BY <1>1, FilterKeys
<1> HIDE DEF k
<1>3. fReady \in [DOMAIN fReady -> Seq(FilterModels)]
  BY DEF Filters!FilterTypeOK
<1>4. /\ DOMAIN pool = DOMAIN fReady \cup {k} /\ pool \in [DOMAIN pool -> Seq(FilterModels)]
      /\ \A j \in DOMAIN fReady : pool[j] = fReady[j]
      /\ k \notin DOMAIN fReady => pool[k] = <<>>
  BY <1>3, WithEntryPool
<1> HIDE DEF pool
<1>5. MaxKeys \in Nat \ {0, 1} /\ IsFiniteSet(Threads)
  BY FilterCardinality DEF Filters!FilterAssumption
<1>6. /\ DOMAIN fReady' \subseteq DOMAIN fReady \cup {k} /\ k \in DOMAIN fReady'
      /\ fReady' \in [DOMAIN fReady' -> Seq(FilterModels)]
      /\ \A j \in DOMAIN fReady' : fReady'[j] = pool[j]
      /\ IsFiniteSet(DOMAIN pool) => Cardinality(DOMAIN fReady') < MaxKeys
  BY <1>1, <1>4, <1>5, EvictKeeps
<1>7. \A j \in DOMAIN fReady' : (j = k /\ fReady'[j] = <<>>) \/ (j \in DOMAIN fReady /\ fReady'[j] = fReady[j])
  BY <1>1, <1>4, <1>6
<1>8. Filters!FilterTypeOK'
  <2>1. DOMAIN fReady' \subseteq Filters!Keys
    BY <1>2, <1>6 DEF Filters!FilterTypeOK
  <2>2. fKey' \in [Threads -> Filters!Keys] /\ fArg' \in [Threads -> FilterModels]
    BY <1>1, <1>2 DEF Filters!FilterTypeOK
  <2>3. /\ fPc' \in [Threads -> {"idle", "apply", "check in"}]
        /\ fFilter' \in [Threads -> FilterModels] /\ fUsed' \in [Threads -> FilterModels]
    BY <1>1 DEF Filters!FilterTypeOK
  <2> QED
    BY <1>1, <1>6, <2>1, <2>2, <2>3 DEF Filters!FilterTypeOK, Filters!Keys
<1>9. Filters!Live' = Filters!Live
  BY <1>1 DEF Filters!Live
<1>10. Filters!LiveAreApart'
  BY <1>1, <1>9 DEF Filters!LiveAreApart
<1>11. \A u \in Threads :
         /\ u # t => /\ fKey'[u] = fKey[u] /\ fArg'[u] = fArg[u] /\ fPc'[u] = fPc[u]
                     /\ fFilter'[u] = fFilter[u] /\ fUsed'[u] = fUsed[u]
         /\ u = t => /\ fKey'[u] = k /\ fArg'[u] = m
                     /\ \/ fPc'[u] = "apply" /\ fFilter'[u] = m
                        \/ fPc'[u] = "idle" /\ fUsed'[u] = m
  BY <1>1 DEF Filters!FilterTypeOK
<1>12. Filters!CallsHoldTheirModel'
  BY <1>1, <1>2, <1>9, <1>11 DEF Filters!CallsHoldTheirModel
<1>13. Filters!PooledAreOwn'
  <2> SUFFICES ASSUME fLoaded = Filters!Live
               PROVE  /\ \A j \in DOMAIN fReady' : \A i \in DOMAIN fReady'[j] :
                           fReady'[j][i] \in Filters!Live /\ fAt[fReady'[j][i]] = j[1]
                      /\ \A u \in Threads : fPc'[u] # "idle" => fFilter'[u] = fArg'[u]
    BY <1>1, <1>9 DEF Filters!PooledAreOwn
  <2>1. \A j \in DOMAIN fReady : \A i \in DOMAIN fReady[j] :
          fReady[j][i] \in Filters!Live /\ fAt[fReady[j][i]] = j[1]
    BY DEF Filters!PooledAreOwn
  <2>2. \A i \in DOMAIN <<>> : FALSE
    OBVIOUS
  <2>3. \A j \in DOMAIN fReady' : \A i \in DOMAIN fReady'[j] :
          fReady'[j][i] \in Filters!Live /\ fAt[fReady'[j][i]] = j[1]
    BY <1>7, <2>1, <2>2
  <2> QED
    BY <1>11, <2>3 DEF Filters!PooledAreOwn
<1>14. Filters!AppliesOwnWhileKept'
  BY <1>1, <1>9, <1>11 DEF Filters!AppliesOwnWhileKept, Filters!AppliesOwnWeights
<1>15. Filters!EvictedHaveRoom'
  <2>1. IsFiniteSet(DOMAIN fReady')
    <3>1. IsFiniteSet(DOMAIN fReady)
      BY FilterCardinality DEF Filters!EvictedHaveRoom
    <3>2. IsFiniteSet(DOMAIN fReady \cup {k})
      BY <3>1, FS_AddElement
    <3> QED
      BY <1>6, <3>2, FS_Subset
  <2>2. Cardinality(DOMAIN fReady') < MaxKeys /\ Cardinality(DOMAIN fReady') \in Nat
    <3>1. IsFiniteSet(DOMAIN pool)
      <4>1. IsFiniteSet(DOMAIN fReady)
        BY FilterCardinality DEF Filters!EvictedHaveRoom
      <4> QED
        BY <1>4, <4>1, FS_AddElement
    <3> QED
      BY <1>6, <2>1, <3>1, FS_CardinalityType
  <2>3. Cardinality(Filters!Evicted') \in Nat /\ Cardinality(Threads) \in Nat
        /\ Cardinality(Filters!Evicted') <= Cardinality(Threads)
    BY <1>5, <1>8, EvictedCountNext
  <2>4. \A j \in DOMAIN fReady' : Len(fReady'[j]) <= 1
    <3>1. Len(<<>>) = 0
      OBVIOUS
    <3> QED
      BY <1>7, <3>1 DEF Filters!EvictedHaveRoom
  <2> QED
    BY <1>5, <2>1, <2>2, <2>3, <2>4, FilterCardinality DEF Filters!EvictedHaveRoom
<1> QED
  BY <1>8, <1>10, <1>12, <1>13, <1>14, <1>15

(* Whether the filter or im2col computes, the weights are the model's.      *)
LEMMA FilterApply ==
  ASSUME Filters!FilterIInv, NEW t \in Threads, Filters!Apply(t) PROVE Filters!FilterIInv'
<1> USE DEF Filters!FilterIInv
<1>1. PICK m \in {fFilter[t], fArg[t]} : fUsed' = [fUsed EXCEPT ![t] = m]
  BY DEF Filters!Apply
<1>2. /\ fPc[t] = "apply" /\ fPc' = [fPc EXCEPT ![t] = "check in"]
      /\ UNCHANGED <<fAt, fLoaded, fReady, fFailed, fArg, fKey, fFilter>>
  BY DEF Filters!Apply
<1>3. Filters!FilterTypeOK'
  BY <1>1, <1>2 DEF Filters!FilterTypeOK
<1>4. Filters!Live' = Filters!Live
  BY <1>2 DEF Filters!Live
<1>5. \A u \in Threads : (u # t => fPc'[u] = fPc[u] /\ fUsed'[u] = fUsed[u]) /\ (u = t => fPc'[u] = "check in" /\ fUsed'[u] = m)
  BY <1>1, <1>2 DEF Filters!FilterTypeOK
<1>6. Filters!LiveAreApart' /\ Filters!CallsHoldTheirModel'
  BY <1>2, <1>4, <1>5 DEF Filters!LiveAreApart, Filters!CallsHoldTheirModel
<1>7. Filters!PooledAreOwn'
  BY <1>2, <1>4, <1>5 DEF Filters!PooledAreOwn
<1>8. fLoaded = Filters!Live => m = fArg[t]
  BY <1>1, <1>2 DEF Filters!PooledAreOwn
<1>9. Filters!AppliesOwnWhileKept'
  BY <1>2, <1>4, <1>5, <1>8 DEF Filters!AppliesOwnWhileKept, Filters!AppliesOwnWeights
<1>10. Filters!Evicted' = Filters!Evicted
  BY <1>2, <1>5 DEF Filters!Evicted
<1>11. Filters!EvictedHaveRoom'
  BY <1>2, <1>10 DEF Filters!EvictedHaveRoom
<1> QED
  BY <1>3, <1>6, <1>7, <1>9, <1>11

(* A filter goes back under the key of the model it was made for; if the key *)
(* was evicted meanwhile, the thread's place in the bound is the key's now. *)
LEMMA FilterCheckIn ==
  ASSUME Filters!FilterAssumption, Filters!FilterIInv, NEW t \in Threads, Filters!CheckIn(t) PROVE Filters!FilterIInv'
<1> USE DEF Filters!FilterIInv
<1> DEFINE k == fKey[t]
           pool == Filters!WithEntry(fReady, k)
<1>1. /\ fPc[t] = "check in" /\ fPc' = [fPc EXCEPT ![t] = "idle"]
      /\ fReady' = IF pool[k] = <<>> THEN [pool EXCEPT ![k] = <<fFilter[t]>>] ELSE pool
      /\ UNCHANGED <<fAt, fLoaded, fFailed, fArg, fKey, fFilter, fUsed>>
  BY DEF Filters!CheckIn
<1>2. k \in Filters!Keys /\ fFilter[t] \in FilterModels
  BY DEF Filters!FilterTypeOK
<1>3. fReady \in [DOMAIN fReady -> Seq(FilterModels)]
  BY DEF Filters!FilterTypeOK
<1> HIDE DEF k
<1>4. /\ DOMAIN pool = DOMAIN fReady \cup {k} /\ pool \in [DOMAIN pool -> Seq(FilterModels)]
      /\ \A j \in DOMAIN fReady : pool[j] = fReady[j]
      /\ k \notin DOMAIN fReady => pool[k] = <<>>
  BY <1>3, WithEntryPool
<1> HIDE DEF pool
<1>5. MaxKeys \in Nat \ {0, 1} /\ IsFiniteSet(Threads)
  BY FilterCardinality DEF Filters!FilterAssumption
<1>6. DOMAIN fReady' = DOMAIN fReady \cup {k}
  BY <1>1, <1>4
<1>7. \A j \in DOMAIN fReady' : (j = k /\ fReady'[j] = <<fFilter[t]>>) \/ (j \in DOMAIN fReady /\ fReady'[j] = fReady[j])
  BY <1>1, <1>4
<1>8. <<fFilter[t]>> \in Seq(FilterModels) /\ Len(<<fFilter[t]>>) = 1 /\ DOMAIN <<fFilter[t]>> = {1} /\ <<fFilter[t]>>[1] = fFilter[t]
  BY <1>2
<1>9. Filters!FilterTypeOK'
  <2>1. fReady' \in [DOMAIN fReady' -> Seq(FilterModels)]
    BY <1>1, <1>4, <1>8
  <2> QED
    BY <1>1, <1>2, <1>6, <2>1 DEF Filters!FilterTypeOK
<1>10. Filters!Live' = Filters!Live
  BY <1>1 DEF Filters!Live
<1>11. \A u \in Threads : (u # t => fPc'[u] = fPc[u]) /\ (u = t => fPc'[u] = "idle")
  BY <1>1 DEF Filters!FilterTypeOK
<1>12. Filters!LiveAreApart' /\ Filters!CallsHoldTheirModel'
  BY <1>1, <1>10, <1>11 DEF Filters!LiveAreApart, Filters!CallsHoldTheirModel
<1>13. Filters!PooledAreOwn'
  <2> SUFFICES ASSUME fLoaded = Filters!Live
               PROVE  /\ \A j \in DOMAIN fReady' : \A i \in DOMAIN fReady'[j] :
                           fReady'[j][i] \in Filters!Live /\ fAt[fReady'[j][i]] = j[1]
                      /\ \A u \in Threads : fPc'[u] # "idle" => fFilter[u] = fArg[u]
    BY <1>1, <1>10 DEF Filters!PooledAreOwn
  <2>1. \A j \in DOMAIN fReady : \A i \in DOMAIN fReady[j] :
          fReady[j][i] \in Filters!Live /\ fAt[fReady[j][i]] = j[1]
    BY DEF Filters!PooledAreOwn
  <2>2. fFilter[t] = fArg[t] /\ fArg[t] \in Filters!Live /\ k[1] = fAt[fArg[t]]
    BY <1>1 DEF Filters!PooledAreOwn, Filters!CallsHoldTheirModel, k
  <2>3. \A j \in DOMAIN fReady' : \A i \in DOMAIN fReady'[j] :
          fReady'[j][i] \in Filters!Live /\ fAt[fReady'[j][i]] = j[1]
    BY <1>7, <1>8, <2>1, <2>2
  <2> QED
    BY <1>11, <2>3 DEF Filters!PooledAreOwn
<1>14. Filters!AppliesOwnWhileKept'
  BY <1>1, <1>10, <1>11 DEF Filters!AppliesOwnWhileKept, Filters!AppliesOwnWeights
<1>15. Filters!EvictedHaveRoom'
  <2>1. /\ IsFiniteSet(DOMAIN fReady) /\ Cardinality(DOMAIN fReady) \in Nat
        /\ Cardinality(DOMAIN fReady) + Cardinality(Filters!Evicted) < MaxKeys + Cardinality(Threads)
    BY FilterCardinality, FS_CardinalityType DEF Filters!EvictedHaveRoom
  <2>2. /\ IsFiniteSet(Filters!Evicted) /\ Cardinality(Filters!Evicted) \in Nat /\ Cardinality(Threads) \in Nat
    BY <1>5, EvictedCount
  <2>3. Filters!Evicted' \subseteq Filters!Evicted \ {t}
    BY <1>1, <1>6, <1>11 DEF Filters!Evicted
  <2>4. IsFiniteSet(DOMAIN fReady') /\ Cardinality(DOMAIN fReady') \in Nat
    BY <1>6, <2>1, FS_AddElement, FS_CardinalityType
  <2>5. Cardinality(DOMAIN fReady') + Cardinality(Filters!Evicted') < MaxKeys + Cardinality(Threads)
    <3>1. CASE k \in DOMAIN fReady
      <4>1. DOMAIN fReady' = DOMAIN fReady /\ Filters!Evicted' \subseteq Filters!Evicted
        BY <1>6, <2>3, <3>1
      <4>2. Cardinality(Filters!Evicted') \in Nat /\ Cardinality(Filters!Evicted') <= Cardinality(Filters!Evicted)
        BY <2>2, <4>1, FS_Subset, FS_CardinalityType
      <4> QED
        BY <1>5, <2>1, <2>2, <4>1, <4>2
    <3>2. CASE k \notin DOMAIN fReady
      <4>1. t \in Filters!Evicted
        BY <1>1, <3>2 DEF Filters!Evicted, k
      <4>2. Cardinality(Filters!Evicted \ {t}) = Cardinality(Filters!Evicted) - 1 /\ IsFiniteSet(Filters!Evicted \ {t})
        BY <2>2, <4>1, FS_RemoveElement
      <4>3. Cardinality(Filters!Evicted') \in Nat /\ Cardinality(Filters!Evicted') <= Cardinality(Filters!Evicted) - 1
        BY <2>2, <2>3, <4>2, FS_Subset, FS_CardinalityType
      <4>4. Cardinality(DOMAIN fReady') = Cardinality(DOMAIN fReady) + 1
        BY <1>6, <2>1, <3>2, FS_AddElement
      <4> QED
        BY <1>5, <2>1, <2>2, <4>3, <4>4
    <3> QED
      BY <3>1, <3>2
  <2>6. ASSUME NEW j \in DOMAIN fReady' PROVE Len(fReady'[j]) <= 1
    <3>1. CASE j = k /\ fReady'[j] = <<fFilter[t]>>
      BY <1>8, <3>1
    <3>2. CASE j \in DOMAIN fReady /\ fReady'[j] = fReady[j]
      BY <3>2 DEF Filters!EvictedHaveRoom
    <3> QED
      BY <1>7, <3>1, <3>2
  <2> QED
    BY <2>4, <2>5, <2>6, FilterCardinality DEF Filters!EvictedHaveRoom
<1> QED
  BY <1>9, <1>12, <1>13, <1>14, <1>15

(* The assumptions of MCKernels, under names.                               *)
LEMMA KernelAssumptions == Conv!ConstantsAssumption /\ Filters!FilterAssumption
  BY KernelsAssumption

(* Every step of the pool, of the models and of the allocator keeps the     *)
(* invariant.                                                               *)
LEMMA FilterNext == Filters!FilterIInv /\ [Filters!Next]_filterVars => Filters!FilterIInv'
<1> SUFFICES ASSUME Filters!FilterIInv, [Filters!Next]_filterVars PROVE Filters!FilterIInv'
  OBVIOUS
<1>1. CASE \E m \in FilterModels : Filters!Load(m)
  BY <1>1, FilterLoad
<1>2. CASE \E m \in FilterModels : Filters!Drop(m)
  BY <1>2, FilterDrop
<1>3. CASE \E t \in Threads, m \in FilterModels, s \in FilterSizes : Filters!Refused(t, m, s)
  BY <1>3, FilterRefused
<1>4. CASE \E t \in Threads, m \in FilterModels, s \in FilterSizes : Filters!Hit(t, m, s)
  BY <1>4, FilterHit
<1>5. CASE \E t \in Threads, m \in FilterModels, s \in FilterSizes : Filters!Create(t, m, s)
  BY <1>5, FilterCreate, KernelAssumptions
<1>6. CASE \E t \in Threads : Filters!Apply(t)
  BY <1>6, FilterApply
<1>7. CASE \E t \in Threads : Filters!CheckIn(t)
  BY <1>7, FilterCheckIn, KernelAssumptions
<1>8. CASE UNCHANGED filterVars
  BY <1>8 DEF filterVars, Filters!FilterIInv, Filters!FilterTypeOK, Filters!LiveAreApart, Filters!Live,
     Filters!CallsHoldTheirModel, Filters!PooledAreOwn, Filters!AppliesOwnWhileKept, Filters!AppliesOwnWeights,
     Filters!EvictedHaveRoom, Filters!Evicted
<1> QED
  BY <1>1, <1>2, <1>3, <1>4, <1>5, <1>6, <1>7, <1>8 DEF Filters!Next

(* In every behaviour of the kernels in which no model was dropped yet, a    *)
(* convolution of the Apple build applies its own weights, whichever         *)
(* threads share the pool, and the pool stays near its limit (bnns.rs).      *)
THEOREM FiltersAreOwnHolds == MCSpec => []FiltersAreOwn
<1> DEFINE I == part = "filters" => Filters!FilterIInv
<1>1. MCInit => I
  BY FilterInit, KernelAssumptions DEF MCInit
<1>2. I /\ [MCNext]_<<part, case, convVars, resnetVars, powersetVars, vars, filterVars>> => I'
  <2> SUFFICES ASSUME I, [MCNext]_<<part, case, convVars, resnetVars, powersetVars, vars, filterVars>>,
                      part' = "filters"
               PROVE  Filters!FilterIInv'
    OBVIOUS
  <2>1. part = "filters" /\ [Filters!Next]_filterVars
    BY DEF MCNext
  <2> QED
    BY <2>1, FilterNext
<1>3. I => FiltersAreOwn
  <2> SUFFICES ASSUME Filters!FilterIInv PROVE Filters!PoolBounded
    BY DEF FiltersAreOwn
  <2>1. /\ IsFiniteSet(Threads) /\ MaxKeys \in Nat
        /\ Cardinality(Filters!Evicted) \in Nat /\ Cardinality(Threads) \in Nat
    BY KernelAssumptions, EvictedCount, FilterCardinality DEF Filters!FilterIInv, Filters!FilterAssumption
  <2>2. /\ Cardinality(DOMAIN fReady) \in Nat
        /\ Cardinality(DOMAIN fReady) + Cardinality(Filters!Evicted) < MaxKeys + Cardinality(Threads)
        /\ \A k \in DOMAIN fReady : Len(fReady[k]) <= 1
    BY FilterCardinality, FS_CardinalityType DEF Filters!FilterIInv, Filters!EvictedHaveRoom
  <2> QED
    BY <2>1, <2>2, FilterCardinality DEF Filters!PoolBounded
<1> QED
  BY <1>1, <1>2, <1>3, PTL DEF MCSpec

-----------------------------------------------------------------------------
(* The integer convolution: every task has a share of the output, the       *)
(* shares have nothing in common, and a task writes nothing else.           *)

LEMMA LeastOf ==
  ASSUME NEW S \in SUBSET Nat, S # {}
  PROVE  \E i \in S : \A j \in S : i <= j
<1> DEFINE R == OpToRel(<, Nat)
<1>1. IsWellFoundedOn(R, Nat)
  BY NatLessThanWellFounded
<1>2. PICK i \in S : \A j \in S : ~(<<j, i>> \in R)
  BY <1>1, WFMin
<1>3. \A j \in S : ~(j < i)
  BY <1>2 DEF OpToRel
<1> QED
  BY <1>3

-----------------------------------------------------------------------------
(* Arithmetic of products and quotients.                                    *)

LEMMA MulMono ==
  ASSUME NEW a \in Int, NEW b \in Int, NEW c \in Nat, a <= b
  PROVE  a * c <= b * c
OBVIOUS

LEMMA MulStep ==
  ASSUME NEW a \in Int, NEW b \in Int, NEW c \in Nat, a < b
  PROVE  a * c + c <= b * c
<1>1. (a + 1) * c <= b * c
  BY MulMono
<1>2. (a + 1) * c = a * c + c
  OBVIOUS
<1> QED
  BY <1>1, <1>2

LEMMA Digits ==
  ASSUME NEW a \in Int, NEW b \in Int, NEW w \in Nat, NEW ix \in 0 .. w - 1, NEW y \in 0 .. w - 1,
         a * w + ix = b * w + y
  PROVE  a = b /\ ix = y
<1>1. ~(a < b)
  <2> SUFFICES ASSUME a < b PROVE FALSE
    OBVIOUS
  <2>1. a * w + w <= b * w
    BY MulStep
  <2>2. a * w \in Int /\ b * w \in Int
    OBVIOUS
  <2> QED
    BY <2>1, <2>2
<1>2. ~(b < a)
  <2> SUFFICES ASSUME b < a PROVE FALSE
    OBVIOUS
  <2>1. b * w + w <= a * w
    BY MulStep
  <2>2. a * w \in Int /\ b * w \in Int
    OBVIOUS
  <2> QED
    BY <2>1, <2>2
<1>3. a = b
  BY <1>1, <1>2
<1> QED
  BY <1>3

LEMMA Quotient ==
  ASSUME NEW a \in Nat, NEW b \in Nat \ {0}
  PROVE  /\ a \div b \in Nat /\ a % b \in 0 .. b - 1
         /\ a = (a \div b) * b + (a % b)
OBVIOUS
-----------------------------------------------------------------------------
LEMMA ShapeIs ==
  ASSUME Conv!ConstantsAssumption, NEW s \in Shapes
  PROVE  /\ s.oc \in Nat /\ s.n \in Nat /\ s.threads \in Nat
         /\ Conv!OH(s) \in Nat \ {0} /\ Conv!OW(s) \in Nat \ {0}
<1>1. /\ s.k \in Nat \ {0} /\ s.pad \in Nat /\ s.stride \in Nat \ {0} /\ s.n \in Nat /\ s.oc \in Nat
      /\ s.h \in Nat /\ s.w \in Nat /\ s.threads \in Nat
      /\ s.k <= s.h + 2 * s.pad /\ s.k <= s.w + 2 * s.pad
  BY DEF Conv!ConstantsAssumption
<1>2. s.h + 2 * s.pad - s.k \in Nat /\ s.w + 2 * s.pad - s.k \in Nat
  BY <1>1
<1>3. (s.h + 2 * s.pad - s.k) \div s.stride \in Nat /\ (s.w + 2 * s.pad - s.k) \div s.stride \in Nat
  BY <1>1, <1>2, Quotient
<1> QED
  BY <1>1, <1>3 DEF Conv!OH, Conv!OW, Conv!OutDim

(* An address tells its output.                                             *)
LEMMA AddressTells ==
  ASSUME NEW s, s.oc \in Nat, Conv!OH(s) \in Nat, Conv!OW(s) \in Nat, NEW im \in Int,
         NEW o \in Conv!Outputs(s), NEW p \in Conv!Outputs(s),
         Conv!Address(s, im, o[1], o[2], o[3]) = Conv!Address(s, im, p[1], p[2], p[3])
  PROVE  o = p
<1>1. /\ o[1] \in 0 .. s.oc - 1 /\ o[2] \in 0 .. Conv!OH(s) - 1 /\ o[3] \in 0 .. Conv!OW(s) - 1
      /\ p[1] \in 0 .. s.oc - 1 /\ p[2] \in 0 .. Conv!OH(s) - 1 /\ p[3] \in 0 .. Conv!OW(s) - 1
      /\ o = <<o[1], o[2], o[3]>> /\ p = <<p[1], p[2], p[3]>>
  BY DEF Conv!Outputs, Conv!Size
<1>2. im * s.oc + o[1] \in Int /\ im * s.oc + p[1] \in Int
  BY <1>1
<1>3. (im * s.oc + o[1]) * Conv!OH(s) + o[2] \in Int /\ (im * s.oc + p[1]) * Conv!OH(s) + p[2] \in Int
  BY <1>1, <1>2
<1>4. /\ (im * s.oc + o[1]) * Conv!OH(s) + o[2] = (im * s.oc + p[1]) * Conv!OH(s) + p[2]
      /\ o[3] = p[3]
  BY <1>1, <1>3, Digits DEF Conv!Address
<1>5. im * s.oc + o[1] = im * s.oc + p[1] /\ o[2] = p[2]
  BY <1>1, <1>2, <1>4, Digits
<1>6. o[1] = p[1]
  BY <1>1, <1>5
<1> QED
  BY <1>1, <1>4, <1>5, <1>6

(* An output of an image of the batch lies inside the buffer.               *)
LEMMA AddressInside ==
  ASSUME NEW s, s.oc \in Nat, s.n \in Nat, Conv!OH(s) \in Nat, Conv!OW(s) \in Nat, NEW im \in 0 .. s.n - 1,
         NEW o \in Conv!Outputs(s)
  PROVE  Conv!Address(s, im, o[1], o[2], o[3]) \in Conv!Addresses(s)
<1>1. /\ o[1] \in 0 .. s.oc - 1 /\ o[2] \in 0 .. Conv!OH(s) - 1 /\ o[3] \in 0 .. Conv!OW(s) - 1
  BY DEF Conv!Outputs, Conv!Size
<1> DEFINE a == im * s.oc + o[1]
           b == a * Conv!OH(s) + o[2]
<1>2. a \in Nat /\ s.n * s.oc \in Nat /\ a < s.n * s.oc
  <2>1. im * s.oc + s.oc <= s.n * s.oc /\ im * s.oc \in Nat /\ s.n * s.oc \in Nat
    BY MulStep
  <2> QED
    BY <2>1, <1>1
<1> HIDE DEF a
<1>3. b \in Nat /\ s.n * s.oc * Conv!OH(s) \in Nat /\ b < s.n * s.oc * Conv!OH(s)
  <2>1. a * Conv!OH(s) + Conv!OH(s) <= s.n * s.oc * Conv!OH(s) /\ a * Conv!OH(s) \in Nat /\ s.n * s.oc * Conv!OH(s) \in Nat
    BY <1>2, MulStep
  <2> QED
    BY <2>1, <1>1
<1> HIDE DEF b
<1>4. b * Conv!OW(s) + Conv!OW(s) <= s.n * s.oc * Conv!OH(s) * Conv!OW(s) /\ b * Conv!OW(s) \in Nat /\ s.n * s.oc * Conv!OH(s) * Conv!OW(s) \in Nat
  BY <1>3, MulStep
<1>5. Conv!Address(s, im, o[1], o[2], o[3]) = b * Conv!OW(s) + o[3]
  BY DEF Conv!Address, a, b
<1> QED
  BY <1>1, <1>4, <1>5 DEF Conv!Addresses, Conv!Size
-----------------------------------------------------------------------------
(* The tiles of a row: they follow each other and end inside it.            *)
Widths(s, width) ==
  /\ width \in [Conv!Size(Conv!OW(s)) -> Nat]
  /\ \A ix \in Conv!Size(Conv!OW(s)) : ix + width[ix] <= Conv!OW(s)

CutIsSound(s, start, c) ==
  /\ c.ox \in start .. Conv!OW(s)
  /\ \A t \in c.tiles : t.ox \in Nat /\ t.pn \in Nat \ {0} /\ start <= t.ox /\ t.ox + t.pn <= c.ox

(* The function TilesFrom is defined by exists.                              *)
IsCut(s, start, cap, width, f) ==
  f = [i \in 0 .. cap |-> IF i = 0 THEN [tiles |-> {}, ox |-> start] ELSE Conv!NextTile(s, width, f[i - 1])]
CutExists(s, start, cap, width) == \E f : IsCut(s, start, cap, width, f)

LEMMA CutsExist ==
  ASSUME NEW s, NEW start, NEW cap \in Nat, NEW width
  PROVE  CutExists(s, start, cap, width)
<1> DEFINE E(f, i) == IF i = 0 THEN [tiles |-> {}, ox |-> start] ELSE Conv!NextTile(s, width, f[i - 1])
           Good(n) == \E f : f = [i \in 0 .. n |-> E(f, i)]
           Bad == {n \in Nat : ~Good(n)}
<1>1. SUFFICES Bad = {}
  BY DEF CutExists, IsCut
<1>2. SUFFICES ASSUME Bad # {} PROVE FALSE
  OBVIOUS
<1>3. Bad \in SUBSET Nat
  OBVIOUS
<1>4. PICK n \in Bad : \A m \in Bad : n <= m
  <2> HIDE DEF Bad
  <2> QED
    BY <1>2, <1>3, LeastOf
<1>5. n \in Nat /\ ~Good(n)
  OBVIOUS
<1>6. n # 0
  <2> SUFFICES ASSUME n = 0 PROVE FALSE
    OBVIOUS
  <2> DEFINE f == [i \in 0 .. n |-> [tiles |-> {}, ox |-> start]]
  <2>1. f = [i \in 0 .. n |-> E(f, i)]
    <3>1. \A i \in 0 .. n : i = 0
      OBVIOUS
    <3> QED
      BY <3>1
  <2> QED
    BY <2>1, <1>5
<1>7. n - 1 \in Nat /\ Good(n - 1)
  <2>1. n - 1 \in Nat /\ ~(n <= n - 1)
    BY <1>5, <1>6
  <2>2. n - 1 \notin Bad
    BY <2>1, <1>4
  <2> QED
    BY <2>1, <2>2
<1>8. PICK g : g = [i \in 0 .. n - 1 |-> E(g, i)]
  BY <1>7
<1> DEFINE f == [i \in 0 .. n |-> IF i = n THEN Conv!NextTile(s, width, g[n - 1]) ELSE g[i]]
<1>9. \A i \in 0 .. n : f[i] = E(f, i)
  <2> TAKE i \in 0 .. n
  <2>1. CASE i = n
    <3>1. f[i] = Conv!NextTile(s, width, g[n - 1]) /\ i # 0
      BY <2>1, <1>5, <1>6
    <3>2. n - 1 \in 0 .. n /\ n - 1 # n
      BY <1>7, <1>5
    <3>3. f[n - 1] = g[n - 1]
      BY <3>2
    <3> QED
      BY <3>1, <3>3, <2>1
  <2>2. CASE i # n /\ i = 0
    <3>1. f[i] = g[i] /\ i \in 0 .. n - 1
      BY <2>2, <1>7
    <3>2. g[i] = E(g, i)
      BY <3>1, <1>8
    <3> QED
      BY <3>1, <3>2, <2>2
  <2>3. CASE i # n /\ i # 0
    <3>1. f[i] = g[i] /\ i \in 0 .. n - 1 /\ i - 1 \in 0 .. n /\ i - 1 # n
      BY <2>3, <1>5
    <3>2. g[i] = E(g, i)
      BY <3>1, <1>8
    <3>3. f[i - 1] = g[i - 1]
      BY <3>1
    <3> QED
      BY <3>1, <3>2, <3>3, <2>3
  <2> QED
    BY <2>1, <2>2, <2>3
<1>10. f = [i \in 0 .. n |-> E(f, i)]
  BY <1>9
<1> QED
  BY <1>10, <1>5

LEMMA TilesAreSound ==
  ASSUME NEW s, Conv!OW(s) \in Nat, NEW start \in 0 .. Conv!OW(s), NEW cap \in Nat, NEW width, Widths(s, width)
  PROVE  CutIsSound(s, start, Conv!TilesFrom(s, start, cap, width))
<1> DEFINE Cut == CHOOSE f : IsCut(s, start, cap, width, f)
           Bad == {i \in 0 .. cap : ~CutIsSound(s, start, Cut[i])}
<1>1. Conv!TilesFrom(s, start, cap, width) = Cut[cap]
  BY DEF Conv!TilesFrom, IsCut
<1>2. Cut = [i \in 0 .. cap |->
               IF i = 0 THEN [tiles |-> {}, ox |-> start] ELSE Conv!NextTile(s, width, Cut[i - 1])]
  <2>1. CutExists(s, start, cap, width)
    BY CutsExist
  <2>2. IsCut(s, start, cap, width, Cut)
    BY <2>1 DEF CutExists
  <2> QED
    BY <2>2 DEF IsCut
<1> HIDE DEF Cut
<1>3. SUFFICES ASSUME Bad # {} PROVE FALSE
  BY <1>1
<1>4. Bad \in SUBSET Nat
  OBVIOUS
<1>5. PICK n \in Bad : \A m \in Bad : n <= m
  <2> HIDE DEF Bad
  <2> QED
    BY <1>3, <1>4, LeastOf
<1>6. n \in 0 .. cap /\ ~CutIsSound(s, start, Cut[n])
  OBVIOUS
<1>7. n # 0
  <2> SUFFICES ASSUME n = 0 PROVE FALSE
    OBVIOUS
  <2>1. Cut[0] = [tiles |-> {}, ox |-> start]
    BY <1>2
  <2> QED
    BY <2>1, <1>6 DEF CutIsSound
<1>8. n - 1 \in 0 .. cap /\ CutIsSound(s, start, Cut[n - 1])
  <2>1. n - 1 \in 0 .. cap /\ ~(n <= n - 1)
    BY <1>6, <1>7
  <2> QED
    BY <2>1, <1>5
<1> DEFINE c == Cut[n - 1]
           pn == IF c.ox < Conv!OW(s) THEN width[c.ox] ELSE 0
<1>9. Cut[n] = Conv!NextTile(s, width, c)
  BY <1>2, <1>6, <1>7
<1> HIDE DEF c
<1>10. CutIsSound(s, start, c)
  BY <1>8 DEF c
<1>11. pn \in Nat /\ c.ox + pn <= Conv!OW(s) /\ c.ox \in Nat /\ start <= c.ox
  BY <1>10 DEF CutIsSound, Widths, Conv!Size
<1>12. CASE pn = 0
  BY <1>12, <1>9, <1>10, <1>6 DEF Conv!NextTile
<1>13. CASE pn # 0
  <2>1. Cut[n] = [tiles |-> c.tiles \cup {Conv!TileAt(c.ox, pn)}, ox |-> c.ox + pn]
    BY <1>9, <1>13 DEF Conv!NextTile
  <2> HIDE DEF pn
  <2>2. \A t \in c.tiles \cup {Conv!TileAt(c.ox, pn)} :
          t.ox \in Nat /\ t.pn \in Nat \ {0} /\ start <= t.ox /\ t.ox + t.pn <= c.ox + pn
    BY <1>10, <1>11, <1>13 DEF CutIsSound, Conv!TileAt
  <2>3. c.ox + pn \in start .. Conv!OW(s)
    BY <1>11
  <2> QED
    BY <2>1, <2>2, <2>3, <1>6 DEF CutIsSound
<1> QED
  BY <1>12, <1>13
-----------------------------------------------------------------------------
(* What a row of outputs writes: nothing outside its channels and columns.  *)
StaysIn(writes, s, im, oy, C, X) ==
  \A v \in writes : \E oc \in C, ox \in X : v.at = Conv!Address(s, im, oc, oy, ox)

\* The channels of a task: up to the layer's last, or whole groups.
GoodRange(s, lo, hi) ==
  lo \in Nat /\ hi \in Nat /\ hi <= s.oc /\ (hi = s.oc \/ (hi - lo) % MR = 0)

LEMMA Multiples ==
  ASSUME NEW a \in Nat, NEW b \in Nat, NEW m \in Nat \ {0}, a % m = 0, b % m = 0, a < b
  PROVE  a + m <= b
<1>1. a = (a \div m) * m /\ b = (b \div m) * m /\ a \div m \in Nat /\ b \div m \in Nat
  <2>1. a = (a \div m) * m + (a % m) /\ b = (b \div m) * m + (b % m) /\ a \div m \in Nat /\ b \div m \in Nat
    BY Quotient
  <2> QED
    BY <2>1
<1> DEFINE q == a \div m
           r == b \div m
<1> HIDE DEF q, r
<1>2. a = q * m /\ b = r * m /\ q \in Nat /\ r \in Nat
  BY <1>1 DEF q, r
<1>3. q < r
  <2> SUFFICES ASSUME r <= q PROVE FALSE
    BY <1>2
  <2>1. r * m <= q * m
    BY <1>2, MulMono
  <2> QED
    BY <2>1, <1>2
<1>4. q * m + m <= r * m
  BY <1>2, <1>3, MulStep
<1> QED
  BY <1>2, <1>4

LEMMA GroupsStay ==
  ASSUME NEW s, s.oc \in Nat, MR \in Nat \ {0}, NEW lo, NEW hi, GoodRange(s, lo, hi),
         NEW mo \in Conv!GroupsOf(lo, hi)
  PROVE  Conv!GroupChannels(s, mo) \subseteq lo .. hi - 1
<1>1. mo \in lo .. hi - 1 /\ (mo - lo) % MR = 0 /\ lo \in Nat /\ hi \in Nat /\ mo \in Nat
  BY DEF Conv!GroupsOf, GoodRange
<1>2. CASE hi = s.oc
  BY <1>1, <1>2 DEF Conv!GroupChannels, Conv!Least
<1>3. CASE (hi - lo) % MR = 0
  <2>1. mo - lo \in Nat /\ hi - lo \in Nat /\ mo - lo < hi - lo
    BY <1>1
  <2>2. mo - lo + MR <= hi - lo
    BY <2>1, <1>1, <1>3, Multiples
  <2> QED
    BY <2>2, <1>1 DEF Conv!GroupChannels, Conv!Least
<1> QED
  BY <1>2, <1>3 DEF GoodRange

LEMMA TileStays ==
  ASSUME NEW s, s.oc \in Nat, MR \in Nat \ {0}, NEW lo, NEW hi, GoodRange(s, lo, hi),
         NEW im, NEW oy, NEW px, NEW tile, tile.ox \in Nat, tile.pn \in Nat,
         NEW X, tile.ox .. tile.ox + tile.pn - 1 \subseteq X
  PROVE  StaysIn(Conv!TileWrites(s, im, oy, tile, lo, hi, px), s, im, oy, lo .. hi - 1, X)
<1> SUFFICES ASSUME NEW v \in Conv!TileWrites(s, im, oy, tile, lo, hi, px)
             PROVE  \E oc \in lo .. hi - 1, ox \in X : v.at = Conv!Address(s, im, oc, oy, ox)
  BY DEF StaysIn
<1>1. PICK oc \in UNION {Conv!GroupChannels(s, mo) : mo \in Conv!GroupsOf(lo, hi)}, t \in Conv!Size(tile.pn) :
        v = Conv!Write(s, im, oc, oy, tile.ox + t, px[tile.ox + t])
  BY DEF Conv!TileWrites
<1>2. v.at = Conv!Address(s, im, oc, oy, tile.ox + t)
  BY <1>1 DEF Conv!Write
<1>3. tile.ox + t \in X
  <2>1. tile.ox + t \in tile.ox .. tile.ox + tile.pn - 1
    BY DEF Conv!Size
  <2> QED
    BY <2>1
<1>4. oc \in lo .. hi - 1
  <2>1. PICK mo \in Conv!GroupsOf(lo, hi) : oc \in Conv!GroupChannels(s, mo)
    OBVIOUS
  <2> QED
    BY <2>1, GroupsStay
<1> QED
  BY <1>2, <1>3, <1>4

LEMMA TilesStay ==
  ASSUME NEW s, s.oc \in Nat, MR \in Nat \ {0}, NEW lo, NEW hi, GoodRange(s, lo, hi),
         NEW im, NEW oy, NEW px, NEW tiles, NEW X,
         \A t \in tiles : t.ox \in Nat /\ t.pn \in Nat /\ t.ox .. t.ox + t.pn - 1 \subseteq X
  PROVE  StaysIn(Conv!TilesWrites(s, im, oy, tiles, lo, hi, px), s, im, oy, lo .. hi - 1, X)
<1> SUFFICES ASSUME NEW t \in tiles
             PROVE  StaysIn(Conv!TileWrites(s, im, oy, t, lo, hi, px), s, im, oy, lo .. hi - 1, X)
  BY DEF Conv!TilesWrites, StaysIn
<1> QED
  BY TileStays

LEMMA ColumnsStay ==
  ASSUME NEW s, NEW lo, NEW hi, NEW im, NEW oy, NEW px, NEW from \in Nat
  PROVE  StaysIn(Conv!ColumnsWrites(s, im, oy, from, lo, hi, px), s, im, oy, lo .. hi - 1, from .. Conv!OW(s) - 1)
BY DEF Conv!ColumnsWrites, Conv!ColumnWrites, StaysIn, Conv!Write

LEMMA StaysInMore ==
  ASSUME NEW s, NEW im, NEW oy, NEW writes, NEW C, NEW X, NEW Y, X \subseteq Y,
         StaysIn(writes, s, im, oy, C, X)
  PROVE  StaysIn(writes, s, im, oy, C, Y)
BY DEF StaysIn

LEMMA CutStays ==
  ASSUME NEW s, s.oc \in Nat, Conv!OW(s) \in Nat, MR \in Nat \ {0}, NEW lo, NEW hi, GoodRange(s, lo, hi),
         NEW im, NEW oy, NEW px, NEW start \in Nat, NEW c, CutIsSound(s, start, c)
  PROVE  StaysIn(Conv!TilesWrites(s, im, oy, c.tiles, lo, hi, px), s, im, oy, lo .. hi - 1, start .. c.ox - 1)
<1>1. \A t \in c.tiles : t.ox \in Nat /\ t.pn \in Nat /\ t.ox .. t.ox + t.pn - 1 \subseteq start .. c.ox - 1
  BY DEF CutIsSound
<1> QED
  BY <1>1, TilesStay

LEMMA OverlapStays ==
  ASSUME NEW s, s.oc \in Nat, Conv!OW(s) \in Nat, MR \in Nat \ {0}, NR16 \in Nat, NEW lo, NEW hi, GoodRange(s, lo, hi),
         NEW im, NEW oy, NEW px, NEW from \in Nat
  PROVE  StaysIn(Conv!OverlapOrColumns(s, im, oy, from, lo, hi, px), s, im, oy, lo .. hi - 1, Conv!Size(Conv!OW(s)))
<1>1. CASE Conv!OW(s) >= NR16
  <2> DEFINE tile == Conv!TileAt(Conv!OW(s) - NR16, NR16)
  <2>1. tile.ox \in Nat /\ tile.pn \in Nat /\ tile.ox .. tile.ox + tile.pn - 1 \subseteq Conv!Size(Conv!OW(s))
    BY <1>1 DEF Conv!TileAt, Conv!Size
  <2> HIDE DEF tile
  <2>2. StaysIn(Conv!TileWrites(s, im, oy, tile, lo, hi, px), s, im, oy, lo .. hi - 1, Conv!Size(Conv!OW(s)))
    BY <2>1, TileStays
  <2> QED
    BY <2>2, <1>1 DEF Conv!OverlapOrColumns, tile
<1>2. CASE ~(Conv!OW(s) >= NR16)
  <2>1. from .. Conv!OW(s) - 1 \subseteq Conv!Size(Conv!OW(s))
    BY DEF Conv!Size
  <2> QED
    BY <2>1, <1>2, ColumnsStay, StaysInMore DEF Conv!OverlapOrColumns
<1> QED
  BY <1>1, <1>2
-----------------------------------------------------------------------------
(* A row in waves.                                                          *)
RestWidths(s) == [ox \in Conv!Size(Conv!OW(s)) |-> Conv!RestOfRow(s, ox)]
WaveAt(s, ox) == Conv!TilesFrom(s, ox, WAVE, RestWidths(s))

WaveStep(s, im, oy, lo, hi, px, last, f, ox) ==
  IF ox = Conv!OW(s) THEN {}
  ELSE IF WaveAt(s, ox).tiles = {} THEN last[ox]
  ELSE Conv!TilesWrites(s, im, oy, WaveAt(s, ox).tiles, lo, hi, px) \cup f[WaveAt(s, ox).ox]

IsWaves(s, im, oy, lo, hi, px, last, f) ==
  f = [ox \in 0 .. Conv!OW(s) |-> WaveStep(s, im, oy, lo, hi, px, last, f, ox)]
WavesExist(s, im, oy, lo, hi, px, last) == \E f : IsWaves(s, im, oy, lo, hi, px, last, f)

LEMMA TileWidths ==
  ASSUME Conv!ConstantsAssumption, NEW room \in Nat
  PROVE  Conv!TileWidth(room) \in 0 .. room
BY DEF Conv!TileWidth, Conv!ConstantsAssumption

LEMMA RestWidthsAreWidths ==
  ASSUME Conv!ConstantsAssumption, NEW s, Conv!OW(s) \in Nat
  PROVE  Widths(s, RestWidths(s))
<1>1. \A ix \in Conv!Size(Conv!OW(s)) : Conv!RestOfRow(s, ix) \in 0 .. Conv!OW(s) - ix
  <2> SUFFICES ASSUME NEW ix \in Conv!Size(Conv!OW(s)) PROVE Conv!TileWidth(Conv!OW(s) - ix) \in 0 .. Conv!OW(s) - ix
    BY DEF Conv!RestOfRow
  <2>1. Conv!OW(s) - ix \in Nat
    BY DEF Conv!Size
  <2> QED
    BY <2>1, TileWidths
<1>2. \A ix \in Conv!Size(Conv!OW(s)) : Conv!RestOfRow(s, ix) \in Nat /\ ix + Conv!RestOfRow(s, ix) <= Conv!OW(s)
  BY <1>1 DEF Conv!Size
<1> QED
  BY <1>2 DEF Widths, RestWidths

LEMMA WavesMove ==
  ASSUME Conv!ConstantsAssumption, NEW s, Conv!OW(s) \in Nat, NEW ox \in 0 .. Conv!OW(s)
  PROVE  /\ CutIsSound(s, ox, WaveAt(s, ox))
         /\ WaveAt(s, ox).tiles # {} => WaveAt(s, ox).ox \in ox + 1 .. Conv!OW(s)
<1>1. WAVE \in Nat
  BY DEF Conv!ConstantsAssumption
<1>2. CutIsSound(s, ox, WaveAt(s, ox))
  BY <1>1, RestWidthsAreWidths, TilesAreSound DEF WaveAt
<1>3. ASSUME WaveAt(s, ox).tiles # {} PROVE WaveAt(s, ox).ox \in ox + 1 .. Conv!OW(s)
  <2> DEFINE c == WaveAt(s, ox)
  <2> HIDE DEF c
  <2>1. PICK t \in c.tiles : TRUE
    BY <1>3 DEF c
  <2>2. c.ox \in ox .. Conv!OW(s) /\ t.ox \in Nat /\ t.pn \in Nat \ {0} /\ ox <= t.ox /\ t.ox + t.pn <= c.ox
    BY <1>2, <2>1 DEF CutIsSound, c
  <2>3. c.ox \in ox + 1 .. Conv!OW(s)
    BY <2>2
  <2> QED
    BY <2>3 DEF c
<1> QED
  BY <1>2, <1>3

LEMMA WavesDoExist ==
  ASSUME Conv!ConstantsAssumption, NEW s, Conv!OW(s) \in Nat, NEW im, NEW oy, NEW lo, NEW hi, NEW px, NEW last
  PROVE  WavesExist(s, im, oy, lo, hi, px, last)
<1> DEFINE E(f, ox) == WaveStep(s, im, oy, lo, hi, px, last, f, ox)
           From(n) == Conv!OW(s) - n .. Conv!OW(s)
           Good(n) == \E f : f = [ox \in From(n) |-> E(f, ox)]
           Bad == {n \in 0 .. Conv!OW(s) : ~Good(n)}
<1>1. SUFFICES Bad = {}
  <2>1. Conv!OW(s) \in 0 .. Conv!OW(s) /\ From(Conv!OW(s)) = 0 .. Conv!OW(s)
    OBVIOUS
  <2>2. Good(Conv!OW(s))
    BY <1>1, <2>1
  <2> QED
    BY <2>1, <2>2 DEF WavesExist, IsWaves
<1>2. SUFFICES ASSUME Bad # {} PROVE FALSE
  OBVIOUS
<1>3. Bad \in SUBSET Nat
  OBVIOUS
<1>4. PICK n \in Bad : \A m \in Bad : n <= m
  <2> HIDE DEF Bad
  <2> QED
    BY <1>2, <1>3, LeastOf
<1>5. n \in 0 .. Conv!OW(s) /\ ~Good(n)
  OBVIOUS
<1>6. n # 0
  <2> SUFFICES ASSUME n = 0 PROVE FALSE
    OBVIOUS
  <2> DEFINE f == [ox \in From(n) |-> {}]
  <2>1. f = [ox \in From(n) |-> E(f, ox)]
    <3>1. \A ox \in From(n) : ox = Conv!OW(s)
      OBVIOUS
    <3> QED
      BY <3>1 DEF WaveStep
  <2> QED
    BY <2>1, <1>5
<1>7. n - 1 \in 0 .. Conv!OW(s) /\ Good(n - 1)
  <2>1. n - 1 \in 0 .. Conv!OW(s) /\ ~(n <= n - 1)
    BY <1>5, <1>6
  <2> HIDE DEF Good
  <2> QED
    BY <2>1, <1>4
<1>8. PICK g : g = [ox \in From(n - 1) |-> E(g, ox)]
  BY <1>7
<1> DEFINE here == Conv!OW(s) - n
           f == [ox \in From(n) |-> IF ox = here THEN E(g, ox) ELSE g[ox]]
<1>9. here \in 0 .. Conv!OW(s) - 1 /\ From(n) = {here} \cup From(n - 1) /\ here \notin From(n - 1)
  BY <1>5, <1>6
<1>10. \A ox \in From(n - 1) : f[ox] = g[ox] /\ g[ox] = E(g, ox)
  BY <1>8, <1>9
<1>11. f[here] = E(g, here)
  BY <1>9
<1>12. \A ox \in From(n) : ox # Conv!OW(s) /\ WaveAt(s, ox).tiles # {} => WaveAt(s, ox).ox \in From(n - 1)
  <2> TAKE ox \in From(n)
  <2>1. ox \in 0 .. Conv!OW(s) /\ here <= ox
    BY <1>9
  <2>2. WaveAt(s, ox).tiles # {} => WaveAt(s, ox).ox \in ox + 1 .. Conv!OW(s)
    BY <2>1, WavesMove
  <2> QED
    BY <2>1, <2>2, <1>5
<1> HIDE DEF f, here
<1>13. \A ox \in From(n) : E(f, ox) = E(g, ox)
  <2> HIDE DEF From
  <2> QED
    BY <1>10, <1>12 DEF WaveStep
<1>14. \A ox \in From(n) : f[ox] = E(f, ox)
  <2> HIDE DEF From, E
  <2> QED
    BY <1>9, <1>10, <1>11, <1>13
<1>15. f = [ox \in From(n) |-> E(f, ox)]
  <2> HIDE DEF E
  <2> QED
    BY <1>14 DEF f
<1> QED
  BY <1>15, <1>5

LEMMA WavesStay ==
  ASSUME Conv!ConstantsAssumption, NEW s, s.oc \in Nat, Conv!OW(s) \in Nat \ {0}, NEW lo, NEW hi, GoodRange(s, lo, hi),
         NEW im, NEW oy, NEW px, NEW last,
         \A ox \in Conv!Size(Conv!OW(s)) : StaysIn(last[ox], s, im, oy, lo .. hi - 1, Conv!Size(Conv!OW(s)))
  PROVE  StaysIn(Conv!WavesOf(s, im, oy, lo, hi, px, last), s, im, oy, lo .. hi - 1, Conv!Size(Conv!OW(s)))
<1> DEFINE From == CHOOSE f : IsWaves(s, im, oy, lo, hi, px, last, f)
           Step(ox) == WaveStep(s, im, oy, lo, hi, px, last, From, ox)
           Stays(W) == StaysIn(W, s, im, oy, lo .. hi - 1, Conv!Size(Conv!OW(s)))
           Bad == {n \in 0 .. Conv!OW(s) : ~Stays(From[Conv!OW(s) - n])}
<1>1. Conv!WavesOf(s, im, oy, lo, hi, px, last) = From[0]
  BY DEF Conv!WavesOf, IsWaves, WaveStep, WaveAt, RestWidths
<1>2. IsWaves(s, im, oy, lo, hi, px, last, From)
  <2>1. WavesExist(s, im, oy, lo, hi, px, last)
    BY WavesDoExist
  <2> QED
    BY <2>1 DEF WavesExist
<1> HIDE DEF From
<1>3. \A ox \in 0 .. Conv!OW(s) : From[ox] = Step(ox)
  BY <1>2 DEF IsWaves
<1>4. SUFFICES Bad = {}
  <2>1. Conv!OW(s) \in 0 .. Conv!OW(s) /\ Conv!OW(s) - Conv!OW(s) = 0
    OBVIOUS
  <2>2. Stays(From[0])
    <3> HIDE DEF Stays
    <3> QED
      BY <1>4, <2>1
  <2> QED
    BY <2>2, <1>1
<1>5. SUFFICES ASSUME Bad # {} PROVE FALSE
  OBVIOUS
<1>6. Bad \in SUBSET Nat
  OBVIOUS
<1>7. PICK n \in Bad : \A m \in Bad : n <= m
  <2> HIDE DEF Bad
  <2> QED
    BY <1>5, <1>6, LeastOf
<1> DEFINE ox == Conv!OW(s) - n
<1>8. n \in 0 .. Conv!OW(s) /\ ox \in 0 .. Conv!OW(s) /\ ~Stays(From[ox])
  OBVIOUS
<1>9. From[ox] = Step(ox)
  <2> HIDE DEF Step
  <2> QED
    BY <1>3, <1>8
<1>10. \A y \in ox + 1 .. Conv!OW(s) : Stays(From[y])
  <2> TAKE y \in ox + 1 .. Conv!OW(s)
  <2>1. Conv!OW(s) - y \in 0 .. Conv!OW(s) /\ ~(n <= Conv!OW(s) - y) /\ Conv!OW(s) - (Conv!OW(s) - y) = y
    BY <1>8
  <2>2. Conv!OW(s) - y \notin Bad
    <3> HIDE DEF Bad
    <3> QED
      BY <2>1, <1>7
  <2> HIDE DEF Stays
  <2> QED
    BY <2>1, <2>2
<1> HIDE DEF ox
<1>11. CASE ox = Conv!OW(s)
  BY <1>11, <1>9, <1>8 DEF WaveStep, StaysIn
<1>12. CASE ox # Conv!OW(s) /\ WaveAt(s, ox).tiles = {}
  <2>1. ox \in Conv!Size(Conv!OW(s))
    BY <1>12, <1>8 DEF Conv!Size
  <2> QED
    BY <2>1, <1>12, <1>9, <1>8 DEF WaveStep
<1>13. CASE ox # Conv!OW(s) /\ WaveAt(s, ox).tiles # {}
  <2> DEFINE c == WaveAt(s, ox)
             W == Conv!TilesWrites(s, im, oy, c.tiles, lo, hi, px)
  <2>1. CutIsSound(s, ox, c) /\ c.ox \in ox + 1 .. Conv!OW(s)
    BY <1>13, <1>8, WavesMove
  <2>2. MR \in Nat \ {0}
    BY DEF Conv!ConstantsAssumption
  <2>3. From[ox] = W \cup From[c.ox]
    BY <1>9, <1>13 DEF WaveStep
  <2> HIDE DEF c
  <2>4. StaysIn(W, s, im, oy, lo .. hi - 1, ox .. c.ox - 1)
    <3>1. ox \in Nat /\ Conv!OW(s) \in Nat /\ CutIsSound(s, ox, c)
      BY <2>1, <1>8
    <3> QED
      BY <3>1, <2>2, CutStays
  <2>5. ox .. c.ox - 1 \subseteq Conv!Size(Conv!OW(s))
    <3> DEFINE end == c.ox
    <3>1. ox \in Nat /\ end \in Int /\ end <= Conv!OW(s)
      BY <1>8, <2>1
    <3> HIDE DEF end
    <3>2. ox .. end - 1 \subseteq 0 .. Conv!OW(s) - 1
      BY <3>1
    <3> QED
      BY <3>2 DEF Conv!Size, end
  <2> HIDE DEF W
  <2>6. Stays(W) /\ Stays(From[c.ox])
    BY <2>4, <2>5, <2>1, <1>10, StaysInMore
  <2>7. Stays(W \cup From[c.ox])
    BY <2>6 DEF StaysIn
  <2> HIDE DEF Stays
  <2> QED
    BY <2>3, <2>7, <1>8
<1> QED
  BY <1>11, <1>12, <1>13
-----------------------------------------------------------------------------
(* The rows of every kernel.                                                *)
GoodShape(s) == s.oc \in Nat /\ Conv!OW(s) \in Nat \ {0} /\ s.w \in Nat

RowStays(writes, s, im, oy, lo, hi) == StaysIn(writes, s, im, oy, lo .. hi - 1, Conv!Size(Conv!OW(s)))

LEMMA ColumnsStayInRow ==
  ASSUME NEW s, NEW lo, NEW hi, NEW im, NEW oy, NEW px, NEW from \in Nat
  PROVE  RowStays(Conv!ColumnsWrites(s, im, oy, from, lo, hi, px), s, im, oy, lo, hi)
<1>1. from .. Conv!OW(s) - 1 \subseteq Conv!Size(Conv!OW(s))
  BY DEF Conv!Size
<1> QED
  BY <1>1, ColumnsStay, StaysInMore DEF RowStays

LEMMA S1RowStays ==
  ASSUME Conv!ConstantsAssumption, NEW s, GoodShape(s), NEW rows, NEW im, NEW oy, NEW lo, NEW hi, GoodRange(s, lo, hi)
  PROVE  RowStays(Conv!S1RowWrites(s, rows, im, oy, lo, hi), s, im, oy, lo, hi)
<1> DEFINE px == [ox \in Conv!Size(Conv!OW(s)) |-> Conv!GatherS1(s, rows, oy, ox)]
           overlap == [ox \in Conv!Size(Conv!OW(s)) |-> Conv!OverlapOrColumns(s, im, oy, ox, lo, hi, px)]
           columns == [ox \in Conv!Size(Conv!OW(s)) |-> Conv!ColumnsWrites(s, im, oy, ox, lo, hi, px)]
<1> HIDE DEF px
<1>1. \A ox \in Conv!Size(Conv!OW(s)) : StaysIn(overlap[ox], s, im, oy, lo .. hi - 1, Conv!Size(Conv!OW(s)))
  <2> TAKE ox \in Conv!Size(Conv!OW(s))
  <2>1. ox \in Nat /\ MR \in Nat \ {0} /\ NR16 \in Nat /\ Conv!OW(s) \in Nat /\ s.oc \in Nat
    BY DEF Conv!Size, Conv!ConstantsAssumption, GoodShape
  <2>2. StaysIn(Conv!OverlapOrColumns(s, im, oy, ox, lo, hi, px), s, im, oy, lo .. hi - 1, Conv!Size(Conv!OW(s)))
    BY <2>1, OverlapStays
  <2> QED
    BY <2>2
<1>2. \A ox \in Conv!Size(Conv!OW(s)) : StaysIn(columns[ox], s, im, oy, lo .. hi - 1, Conv!Size(Conv!OW(s)))
  <2> TAKE ox \in Conv!Size(Conv!OW(s))
  <2>1. ox \in Nat
    BY DEF Conv!Size
  <2>2. RowStays(Conv!ColumnsWrites(s, im, oy, ox, lo, hi, px), s, im, oy, lo, hi)
    BY <2>1, ColumnsStayInRow
  <2> QED
    BY <2>2 DEF RowStays
<1> HIDE DEF overlap, columns
<1>3. /\ RowStays(Conv!WavesOf(s, im, oy, lo, hi, px, overlap), s, im, oy, lo, hi)
      /\ RowStays(Conv!WavesOf(s, im, oy, lo, hi, px, columns), s, im, oy, lo, hi)
  BY <1>1, <1>2, WavesStay DEF RowStays, GoodShape
<1> QED
  BY <1>3 DEF Conv!S1RowWrites, px, overlap, columns

LEMMA S2RowStays ==
  ASSUME Conv!ConstantsAssumption, NEW s, GoodShape(s), NEW im, NEW oy, NEW lo, NEW hi, GoodRange(s, lo, hi)
  PROVE  RowStays(Conv!S2RowWrites(s, im, oy, lo, hi), s, im, oy, lo, hi)
<1> DEFINE px == [ox \in Conv!Size(Conv!OW(s)) |-> Conv!GatherS2(s, ox)]
           columns == [ox \in Conv!Size(Conv!OW(s)) |-> Conv!ColumnsWrites(s, im, oy, ox, lo, hi, px)]
<1> HIDE DEF px
<1>1. \A ox \in Conv!Size(Conv!OW(s)) : StaysIn(columns[ox], s, im, oy, lo .. hi - 1, Conv!Size(Conv!OW(s)))
  <2> TAKE ox \in Conv!Size(Conv!OW(s))
  <2>1. ox \in Nat
    BY DEF Conv!Size
  <2>2. RowStays(Conv!ColumnsWrites(s, im, oy, ox, lo, hi, px), s, im, oy, lo, hi)
    BY <2>1, ColumnsStayInRow
  <2> QED
    BY <2>2 DEF RowStays
<1> HIDE DEF columns
<1>2. RowStays(Conv!WavesOf(s, im, oy, lo, hi, px, columns), s, im, oy, lo, hi)
  BY <1>1, WavesStay DEF RowStays, GoodShape
<1> QED
  BY <1>2 DEF Conv!S2RowWrites, px, columns

LEMMA CutStaysInRow ==
  ASSUME Conv!ConstantsAssumption, NEW s, GoodShape(s), NEW im, NEW oy, NEW px, NEW start \in Nat, NEW c, CutIsSound(s, start, c)
  PROVE  RowStays(Conv!TilesWrites(s, im, oy, c.tiles, 0, s.oc, px), s, im, oy, 0, s.oc)
<1>1. /\ s.oc \in Nat /\ Conv!OW(s) \in Nat /\ MR \in Nat \ {0} /\ GoodRange(s, 0, s.oc)
  BY DEF GoodShape, Conv!ConstantsAssumption, GoodRange
<1>2. StaysIn(Conv!TilesWrites(s, im, oy, c.tiles, 0, s.oc, px), s, im, oy, 0 .. s.oc - 1, start .. c.ox - 1)
  BY <1>1, CutStays
<1>3. start .. c.ox - 1 \subseteq Conv!Size(Conv!OW(s))
  <2> DEFINE end == c.ox
  <2>1. end \in Int /\ end <= Conv!OW(s)
    BY <1>1 DEF CutIsSound
  <2> HIDE DEF end
  <2>2. start .. end - 1 \subseteq 0 .. Conv!OW(s) - 1
    BY <2>1, <1>1
  <2> QED
    BY <2>2 DEF Conv!Size, end
<1> QED
  BY <1>2, <1>3, StaysInMore DEF RowStays

LEMMA ConvGatherRowStays ==
  ASSUME NEW s, NEW im, NEW oy
  PROVE  RowStays(Conv!ConvGatherRowWrites(s, im, oy), s, im, oy, 0, s.oc)
BY ColumnsStayInRow DEF Conv!ConvGatherRowWrites

FitWidths(s, pn) ==
  [ox \in Conv!Size(Conv!OW(s)) |-> IF ox + pn <= Conv!OW(s) /\ Conv!LastIx(s, ox, pn) < s.w THEN pn ELSE 0]

LEMMA FitWidthsAreWidths ==
  ASSUME NEW s, Conv!OW(s) \in Nat, NEW pn \in Nat
  PROVE  Widths(s, FitWidths(s, pn))
<1>1. \A ix \in Conv!Size(Conv!OW(s)) : FitWidths(s, pn)[ix] \in {0, pn} /\ ix + FitWidths(s, pn)[ix] <= Conv!OW(s)
  BY DEF FitWidths, Conv!Size
<1>2. FitWidths(s, pn) \in [Conv!Size(Conv!OW(s)) -> Nat]
  BY DEF FitWidths
<1> QED
  BY <1>1, <1>2 DEF Widths

LEMMA Conv3x3RowStays ==
  ASSUME Conv!ConstantsAssumption, NEW s, GoodShape(s), NEW im, NEW oy
  PROVE  RowStays(Conv!Conv3x3RowWrites(s, im, oy), s, im, oy, 0, s.oc)
<1> DEFINE interior == oy * s.stride >= 1 /\ oy * s.stride + 1 < s.h
           tile == [ox \in Conv!Size(Conv!OW(s)) |-> Conv!GatherTile3x3(s, im, oy, ox)]
           one == [ox \in Conv!Size(Conv!OW(s)) |-> Conv!GatherOne(s, im, oy, ox)]
           Run(from, pn) == Conv!TilesFrom(s, from, Conv!OW(s), FitWidths(s, pn))
           wide == Run(1, PN)
           narrow == Run(wide.ox, NR16)
           thin == Run(narrow.ox, NR)
<1>1. Conv!OW(s) \in Nat /\ 1 \in 0 .. Conv!OW(s) /\ PN \in Nat /\ NR16 \in Nat /\ NR \in Nat
  BY DEF GoodShape, Conv!ConstantsAssumption
<1>2. \A from \in 0 .. Conv!OW(s), pn \in {PN, NR16, NR} : CutIsSound(s, from, Run(from, pn))
  BY <1>1, FitWidthsAreWidths, TilesAreSound
<1> HIDE DEF Run
<1>3. CutIsSound(s, 1, wide) /\ wide.ox \in 0 .. Conv!OW(s) /\ wide.ox \in Nat
  BY <1>1, <1>2 DEF CutIsSound
<1>4. CutIsSound(s, wide.ox, narrow) /\ narrow.ox \in 0 .. Conv!OW(s) /\ narrow.ox \in Nat
  <2>1. CutIsSound(s, wide.ox, narrow)
    BY <1>2, <1>3
  <2> QED
    BY <2>1, <1>1, <1>3 DEF CutIsSound
<1>5. CutIsSound(s, narrow.ox, thin) /\ thin.ox \in Nat
  <2>1. CutIsSound(s, narrow.ox, thin)
    BY <1>2, <1>4
  <2> QED
    BY <2>1, <1>1, <1>4 DEF CutIsSound
<1> HIDE DEF wide, narrow, thin, tile, one
<1>6. /\ RowStays(Conv!TilesWrites(s, im, oy, wide.tiles, 0, s.oc, tile), s, im, oy, 0, s.oc)
      /\ RowStays(Conv!TilesWrites(s, im, oy, narrow.tiles, 0, s.oc, tile), s, im, oy, 0, s.oc)
      /\ RowStays(Conv!TilesWrites(s, im, oy, thin.tiles, 0, s.oc, tile), s, im, oy, 0, s.oc)
  BY <1>3, <1>4, <1>5, CutStaysInRow
<1>7. RowStays(Conv!TilesWrites(s, im, oy, wide.tiles \cup narrow.tiles \cup thin.tiles, 0, s.oc, tile), s, im, oy, 0, s.oc)
  BY <1>6 DEF RowStays, StaysIn, Conv!TilesWrites
<1>8. RowStays(Conv!ColumnWrites(s, im, oy, 0, 0, s.oc, one), s, im, oy, 0, s.oc)
  <2>1. 0 \in Conv!Size(Conv!OW(s))
    BY <1>1 DEF Conv!Size
  <2> QED
    BY <2>1 DEF RowStays, StaysIn, Conv!ColumnWrites, Conv!Write
<1>9. /\ RowStays(Conv!ColumnsWrites(s, im, oy, thin.ox, 0, s.oc, one), s, im, oy, 0, s.oc)
      /\ RowStays(Conv!ColumnsWrites(s, im, oy, 0, 0, s.oc, one), s, im, oy, 0, s.oc)
  BY <1>5, ColumnsStayInRow
<1>10. Conv!Conv3x3RowWrites(s, im, oy) =
         IF interior
         THEN Conv!ColumnWrites(s, im, oy, 0, 0, s.oc, one)
              \cup Conv!TilesWrites(s, im, oy, wide.tiles \cup narrow.tiles \cup thin.tiles, 0, s.oc, tile)
              \cup Conv!ColumnsWrites(s, im, oy, thin.ox, 0, s.oc, one)
         ELSE Conv!ColumnsWrites(s, im, oy, 0, 0, s.oc, one)
  BY DEF Conv!Conv3x3RowWrites, wide, narrow, thin, Run, FitWidths, tile, one
<1> QED
  BY <1>7, <1>8, <1>9, <1>10 DEF RowStays, StaysIn

ZipWidths(s) == [ox \in Conv!Size(Conv!OW(s)) |-> IF Conv!Conv1x1Pn(s, ox) % NR16 = 0 THEN Conv!Conv1x1Pn(s, ox) ELSE 0]
PlainWidths(s) == [ox \in Conv!Size(Conv!OW(s)) |-> Conv!Conv1x1Pn(s, ox)]

LEMMA Conv1x1PnFits ==
  ASSUME Conv!ConstantsAssumption, NEW s \in Shapes, s.k = 1, s.pad = 0, NEW ox \in Conv!Size(Conv!OW(s))
  PROVE  Conv!Conv1x1Pn(s, ox) \in Nat /\ ox + Conv!Conv1x1Pn(s, ox) <= Conv!OW(s)
<1>1. Conv!OW(s) \in Nat \ {0} /\ Conv!OW(s) = (s.w - 1) \div s.stride + 1 /\ s.w \in Nat /\ s.stride \in Nat \ {0}
  <2>1. s.w \in Nat /\ s.stride \in Nat \ {0}
    BY DEF Conv!ConstantsAssumption
  <2>2. s.w + 2 * 0 - 1 = s.w - 1
    BY <2>1
  <2> QED
    BY <2>1, <2>2, ShapeIs DEF Conv!OW, Conv!OutDim
<1> DEFINE room == IF s.stride = 1 THEN Conv!OW(s) - ox ELSE (s.w - 1) \div s.stride + 1 - ox
<1>2. room = Conv!OW(s) - ox
  <2> DEFINE q == (s.w - 1) \div s.stride
  <2>1. Conv!OW(s) = q + 1 /\ room = IF s.stride = 1 THEN Conv!OW(s) - ox ELSE q + 1 - ox
    BY <1>1
  <2>2. q \in Nat
    <3>1. s.w - 1 \in Nat
      BY <1>1 DEF Conv!ConstantsAssumption
    <3> QED
      BY <3>1, <1>1, Quotient
  <2> HIDE DEF q, room
  <2>3. q + 1 - ox = Conv!OW(s) - ox
    BY <2>1, <2>2, <1>1 DEF Conv!Size
  <2>4. CASE s.stride = 1
    BY <2>1, <2>4
  <2>5. CASE s.stride # 1
    BY <2>1, <2>3, <2>5
  <2> QED
    BY <2>4, <2>5
<1>3. room \in Nat \ {0} /\ ox \in Nat
  BY <1>1, <1>2 DEF Conv!Size
<1>4. Conv!Conv1x1Pn(s, ox) = IF room >= NR16 THEN Conv!TileWidth(room) ELSE IF room > 0 THEN Conv!Least(room, PN) ELSE 0
  BY DEF Conv!Conv1x1Pn
<1> HIDE DEF room
<1>5. PN \in Nat \ {0} /\ Conv!TileWidth(room) \in 0 .. room
  BY <1>3, TileWidths DEF Conv!ConstantsAssumption
<1>6. Conv!Conv1x1Pn(s, ox) \in 0 .. room
  BY <1>3, <1>4, <1>5 DEF Conv!Least
<1> QED
  BY <1>1, <1>2, <1>3, <1>6

LEMMA Conv1x1RowStays ==
  ASSUME Conv!ConstantsAssumption, NEW s \in Shapes, s.k = 1, s.pad = 0, GoodShape(s), NEW im, NEW oy
  PROVE  RowStays(Conv!Conv1x1RowWrites(s, im, oy), s, im, oy, 0, s.oc)
<1> DEFINE px == [ox \in Conv!Size(Conv!OW(s)) |-> Conv!Gather1x1(s, im, oy, ox)]
           zip == Conv!ZipTiles1x1(s)
           plain == Conv!PlainTiles1x1(s)
<1>1. /\ Conv!OW(s) \in Nat /\ 0 \in 0 .. Conv!OW(s) /\ MAX_TILES \in Nat /\ s.oc \in Nat /\ NR16 \in Nat /\ MR \in Nat \ {0}
      /\ GoodRange(s, 0, s.oc)
  BY DEF GoodShape, Conv!ConstantsAssumption, GoodRange
<1>2. Widths(s, PlainWidths(s)) /\ Widths(s, ZipWidths(s))
  <2>1. \A ox \in Conv!Size(Conv!OW(s)) : ox \in Nat /\ Conv!Conv1x1Pn(s, ox) \in Nat /\ ox + Conv!Conv1x1Pn(s, ox) <= Conv!OW(s) /\ ox + 0 <= Conv!OW(s)
    BY <1>1, Conv1x1PnFits DEF Conv!Size
  <2> QED
    BY <2>1 DEF Widths, PlainWidths, ZipWidths
<1>3. CutIsSound(s, 0, zip) /\ CutIsSound(s, 0, plain)
  BY <1>1, <1>2, TilesAreSound DEF Conv!ZipTiles1x1, Conv!PlainTiles1x1, ZipWidths, PlainWidths
<1> HIDE DEF px, zip, plain
<1>4. zip.ox \in Nat
  BY <1>1, <1>3 DEF CutIsSound
<1>5. /\ RowStays(Conv!TilesWrites(s, im, oy, zip.tiles, 0, s.oc, px), s, im, oy, 0, s.oc)
      /\ RowStays(Conv!TilesWrites(s, im, oy, plain.tiles, 0, s.oc, px), s, im, oy, 0, s.oc)
  <2>1. 0 \in Nat
    OBVIOUS
  <2> QED
    BY <2>1, <1>3, CutStaysInRow
<1>6. RowStays(Conv!OverlapOrColumns(s, im, oy, zip.ox, 0, s.oc, px), s, im, oy, 0, s.oc)
  BY <1>1, <1>4, OverlapStays DEF RowStays
<1>7. Conv!Conv1x1RowWrites(s, im, oy) =
        IF s.zip
        THEN Conv!TilesWrites(s, im, oy, zip.tiles, 0, s.oc, px)
             \cup (IF zip.ox < Conv!OW(s) THEN Conv!OverlapOrColumns(s, im, oy, zip.ox, 0, s.oc, px) ELSE {})
        ELSE Conv!TilesWrites(s, im, oy, plain.tiles, 0, s.oc, px)
  BY DEF Conv!Conv1x1RowWrites, px, zip, plain
<1> QED
  BY <1>5, <1>6, <1>7 DEF RowStays, StaysIn
-----------------------------------------------------------------------------
(* The tasks: whole groups of channels in turn, or rows in turn.            *)
LEMMA MultipleOf ==
  ASSUME NEW a \in Nat, NEW m \in Nat \ {0}
  PROVE  a * m \in Nat /\ (a * m) % m = 0
<1>1. a * m \in Nat
  OBVIOUS
<1> DEFINE b == a * m
<1>2. b \in Nat
  BY <1>1
<1>3. b \div m \in Nat /\ b % m \in 0 .. m - 1 /\ b = (b \div m) * m + (b % m)
  <2> HIDE DEF b
  <2> QED
    BY <1>2, Quotient
<1>4. a * m + 0 = (b \div m) * m + (b % m)
  BY <1>1, <1>3
<1>5. b % m = 0
  <2> DEFINE q == b \div m
             r == b % m
  <2>1. q \in Int /\ r \in 0 .. m - 1 /\ 0 \in 0 .. m - 1 /\ a * m + 0 = q * m + r
    BY <1>3, <1>4
  <2> HIDE DEF q, r
  <2>2. 0 = r
    BY <2>1, Digits
  <2> QED
    BY <2>2 DEF r
<1> QED
  BY <1>1, <1>5

\* The first group of worker t.
FirstGroup(oc, t, n) == t * ((oc \div MR) \div n) + Conv!Least(t, (oc \div MR) % n)

LEMMA GroupsInTurn ==
  ASSUME NEW oc \in Nat, MR \in Nat \ {0}, NEW n \in Nat \ {0}, n <= oc \div MR
  PROVE  /\ \A t \in 0 .. n : FirstGroup(oc, t, n) \in 0 .. oc \div MR
         /\ \A t \in 0 .. n : \A u \in 0 .. n : t < u => FirstGroup(oc, t, n) < FirstGroup(oc, u, n)
         /\ \A t \in Conv!Size(n) : FirstGroup(oc, t + 1, n) = FirstGroup(oc, t, n) + (oc \div MR) \div n
                                                     + (IF t < (oc \div MR) % n THEN 1 ELSE 0)
<1> DEFINE G == oc \div MR
           base == G \div n
           extra == G % n
           First(t) == t * base + Conv!Least(t, extra)
<1>1. G \in Nat /\ n <= G
  BY Quotient
<1> HIDE DEF G
<1>2. base \in Nat /\ extra \in 0 .. n - 1 /\ G = base * n + extra
  BY <1>1, Quotient
<1> HIDE DEF base, extra
<1>3. base # 0
  BY <1>1, <1>2
<1>4. \A t \in 0 .. n : t * base \in Nat /\ First(t) \in Nat
  <2> TAKE t \in 0 .. n
  <2>1. t * base \in Nat
    BY <1>2
  <2> QED
    BY <2>1, <1>2 DEF Conv!Least
<1>5. ASSUME NEW t \in 0 .. n, NEW u \in 0 .. n, t < u
      PROVE  First(t) < First(u)
  <2>1. t * base + base <= u * base
    BY <1>2, <1>5, MulStep
  <2>2. Conv!Least(t, extra) <= Conv!Least(u, extra) /\ Conv!Least(t, extra) \in Nat /\ Conv!Least(u, extra) \in Nat
    BY <1>5, <1>2 DEF Conv!Least
  <2>3. t * base \in Nat /\ u * base \in Nat
    BY <1>4
  <2> QED
    BY <2>1, <2>2, <2>3, <1>2, <1>3
<1>6. First(n) = G
  <2>1. Conv!Least(n, extra) = extra /\ n * base = base * n
    BY <1>2 DEF Conv!Least
  <2> QED
    BY <2>1, <1>2
<1>7. ASSUME NEW t \in 0 .. n PROVE First(t) \in 0 .. G
  <2>1. n \in 0 .. n
    OBVIOUS
  <2>2. t = n \/ First(t) < First(n)
    <3> HIDE DEF First
    <3> QED
      BY <2>1, <1>5
  <2>3. First(t) \in Nat
    BY <1>4
  <2> HIDE DEF First
  <2> QED
    BY <2>2, <2>3, <1>6, <1>1
<1>8. ASSUME NEW t \in Conv!Size(n) PROVE First(t + 1) = First(t) + base + (IF t < extra THEN 1 ELSE 0)
  <2>1. t \in Nat /\ (t + 1) * base = t * base + base /\ t * base \in Nat
    BY <1>2 DEF Conv!Size
  <2>2. Conv!Least(t + 1, extra) = Conv!Least(t, extra) + (IF t < extra THEN 1 ELSE 0)
    BY <2>1, <1>2 DEF Conv!Least
  <2> QED
    BY <2>1, <2>2, <1>2 DEF Conv!Least
<1>9. \A t : FirstGroup(oc, t, n) = First(t)
  BY DEF FirstGroup, G, base, extra
<1> HIDE DEF First
<1>10. \A t \in Conv!Size(n) : t \in 0 .. n /\ t + 1 \in 0 .. n
  BY DEF Conv!Size
<1> QED
  BY <1>5, <1>7, <1>8, <1>9, <1>10 DEF G, base, extra

\* What worker t of n is given.
BoundsAre(oc, t, n) ==
  LET lo == Conv!OcBounds(oc, t, n)[1] hi == Conv!OcBounds(oc, t, n)[2] IN
  /\ lo \in Nat /\ hi \in Nat /\ lo < hi /\ hi <= oc /\ lo % MR = 0
  /\ hi = oc \/ (hi - lo) % MR = 0
  /\ t > 0 => lo > 0
  /\ t + 1 < n => hi < oc
BoundsFollow(oc, t, u, n) == Conv!OcBounds(oc, t, n)[2] <= Conv!OcBounds(oc, u, n)[1]

LEMMA BoundsAreSound ==
  ASSUME NEW oc \in Nat, MR \in Nat \ {0}, NEW n \in Nat \ {0}, n <= oc \div MR
  PROVE  /\ \A t \in Conv!Size(n) : BoundsAre(oc, t, n)
         /\ \A t \in Conv!Size(n) : \A u \in Conv!Size(n) : t < u => BoundsFollow(oc, t, u, n)
<1> DEFINE G == oc \div MR
           F(t) == FirstGroup(oc, t, n)
<1>1. G \in Nat /\ G * MR \in Nat /\ oc \in G * MR .. G * MR + MR - 1
  <2>1. G \in Nat /\ oc % MR \in 0 .. MR - 1 /\ oc = G * MR + (oc % MR)
    BY Quotient
  <2>2. G * MR \in Nat
    BY <2>1
  <2> QED
    BY <2>1, <2>2
<1>2. /\ \A t \in 0 .. n : F(t) \in 0 .. G
      /\ \A t \in 0 .. n : \A u \in 0 .. n : t < u => F(t) < F(u)
  BY GroupsInTurn
<1>3. \A t \in Conv!Size(n) : /\ t \in 0 .. n /\ t + 1 \in 0 .. n /\ t < n
                         /\ Conv!OcBounds(oc, t, n)[1] = F(t) * MR
                         /\ Conv!OcBounds(oc, t, n)[2] = IF t + 1 = n THEN oc ELSE F(t + 1) * MR
  <2> TAKE t \in Conv!Size(n)
  <2>1. F(t + 1) = F(t) + (oc \div MR) \div n + (IF t < (oc \div MR) % n THEN 1 ELSE 0)
    BY GroupsInTurn
  <2> QED
    BY <2>1 DEF Conv!OcBounds, FirstGroup, Conv!Size
<1> HIDE DEF F, G
<1>4. \A t \in 0 .. n : F(t) \in Nat /\ F(t) * MR \in Nat /\ (F(t) * MR) % MR = 0 /\ F(t) * MR <= G * MR
  <2> TAKE t \in 0 .. n
  <2>1. F(t) \in Nat /\ F(t) <= G
    BY <1>1, <1>2
  <2>2. F(t) * MR \in Nat /\ (F(t) * MR) % MR = 0
    BY <2>1, MultipleOf
  <2>3. F(t) * MR <= G * MR
    BY <2>1, <1>1, MulMono
  <2> QED
    BY <2>1, <2>2, <2>3
<1>5. \A t \in 0 .. n : \A u \in 0 .. n : t < u => F(t) * MR + MR <= F(u) * MR
  BY <1>2, <1>4, MulStep
<1>6. ASSUME NEW t \in Conv!Size(n) PROVE BoundsAre(oc, t, n)
  <2> DEFINE lo == F(t) * MR
             next == F(t + 1) * MR
  <2>1. /\ t \in 0 .. n /\ t + 1 \in 0 .. n /\ 0 \in 0 .. n /\ n \in 0 .. n /\ t < t + 1 /\ t \in Nat
        /\ t + 1 = n \/ t + 1 < n
    BY <1>3
  <2>2. /\ lo \in Nat /\ next \in Nat /\ lo % MR = 0 /\ lo + MR <= next /\ next <= G * MR
        /\ F(0) * MR \in Nat /\ F(n) * MR <= G * MR /\ F(n) * MR \in Nat
        /\ t > 0 => F(0) * MR + MR <= lo
        /\ t + 1 < n => next + MR <= F(n) * MR
    BY <2>1, <1>4, <1>5
  <2>3. (next - lo) % MR = 0
    <3>1. F(t + 1) - F(t) \in Nat /\ F(t) \in Nat /\ F(t + 1) \in Nat
      BY <1>2, <1>4, <2>1
    <3>2. next - lo = (F(t + 1) - F(t)) * MR
      BY <3>1
    <3> QED
      BY <3>1, <3>2, MultipleOf
  <2>4. Conv!OcBounds(oc, t, n)[1] = lo /\ Conv!OcBounds(oc, t, n)[2] = IF t + 1 = n THEN oc ELSE next
    BY <1>3
  <2> HIDE DEF lo, next
  <2> QED
    BY <2>1, <2>2, <2>3, <2>4, <1>1 DEF BoundsAre
<1>7. ASSUME NEW t \in Conv!Size(n), NEW u \in Conv!Size(n), t < u PROVE BoundsFollow(oc, t, u, n)
  <2>1. t \in 0 .. n /\ u \in 0 .. n /\ t + 1 \in 0 .. n /\ t + 1 # n /\ (t + 1 = u \/ t + 1 < u)
    BY <1>3, <1>7
  <2>2. F(t + 1) * MR <= F(u) * MR
    BY <2>1, <1>4, <1>5
  <2> QED
    BY <2>1, <2>2, <1>3 DEF BoundsFollow
<1> QED
  BY <1>6, <1>7
\* A task of the plan of a layer whose gather is not shared.
TaskIs(s, t) ==
  /\ GoodRange(s, t.lo, t.hi) /\ t.oy0 \in Nat /\ t.oy1 \in Nat /\ t.oy1 <= Conv!OH(s)
  /\ Conv!Kernel(s) \notin {"s1", "s2"} => t = Conv!WholeImage(s)

LEMMA WorkersFit ==
  ASSUME Conv!ConstantsAssumption, NEW s \in Shapes, Conv!ChannelWorkers(s) > 1
  PROVE  Conv!ChannelWorkers(s) \in Nat \ {0} /\ Conv!ChannelWorkers(s) <= s.oc \div MR
<1>1. s.oc \in Nat /\ s.threads \in Nat /\ MR \in Nat \ {0}
  BY ShapeIs DEF Conv!ConstantsAssumption
<1>2. s.oc \div MR \in Nat
  BY <1>1, Quotient
<1> QED
  BY <1>1, <1>2 DEF Conv!ChannelWorkers, Conv!Least

LEMMA ChannelTaskIs ==
  ASSUME Conv!ConstantsAssumption, NEW s \in Shapes, Conv!ChannelWorkers(s) > 1,
         NEW t \in Conv!NonEmpty(Conv!ChannelTasks(s, Conv!ChannelWorkers(s)))
  PROVE  /\ GoodRange(s, t.lo, t.hi) /\ t.lo % MR = 0 /\ t.oy0 = 0 /\ t.oy1 = Conv!OH(s)
         /\ t # Conv!WholeImage(s)
<1> DEFINE n == Conv!ChannelWorkers(s)
<1>1. n \in Nat \ {0} /\ n <= s.oc \div MR /\ s.oc \in Nat /\ MR \in Nat \ {0} /\ n > 1
  BY WorkersFit, ShapeIs DEF Conv!ConstantsAssumption
<1>2. PICK i \in Conv!Size(n) : t = Conv!Task(0, Conv!OH(s), Conv!OcBounds(s.oc, i, n)[1], Conv!OcBounds(s.oc, i, n)[2])
  BY DEF Conv!NonEmpty, Conv!ChannelTasks
<1> HIDE DEF n
<1>3. BoundsAre(s.oc, i, n)
  BY <1>1, BoundsAreSound
<1>4. i \in Nat /\ (i > 0 \/ i + 1 < n)
  BY <1>1 DEF Conv!Size
<1>5. /\ t.oy0 = 0 /\ t.oy1 = Conv!OH(s) /\ t.lo = Conv!OcBounds(s.oc, i, n)[1] /\ t.hi = Conv!OcBounds(s.oc, i, n)[2]
      /\ Conv!WholeImage(s).lo = 0 /\ Conv!WholeImage(s).hi = s.oc
  BY <1>2 DEF Conv!Task, Conv!WholeImage
<1>6. GoodRange(s, t.lo, t.hi) /\ t.lo % MR = 0
  BY <1>3, <1>5 DEF BoundsAre, GoodRange
<1>7. t.lo > 0 \/ t.hi < s.oc
  BY <1>3, <1>4, <1>5 DEF BoundsAre
<1>8. t.lo \in Nat /\ t.hi \in Nat
  BY <1>6 DEF GoodRange
<1>9. t # Conv!WholeImage(s)
  BY <1>1, <1>5, <1>7, <1>8
<1> QED
  BY <1>5, <1>6, <1>9

LEMMA ChannelTasksApart ==
  ASSUME Conv!ConstantsAssumption, NEW s \in Shapes, Conv!ChannelWorkers(s) > 1,
         NEW t \in Conv!NonEmpty(Conv!ChannelTasks(s, Conv!ChannelWorkers(s))), NEW u \in Conv!NonEmpty(Conv!ChannelTasks(s, Conv!ChannelWorkers(s))),
         t # u
  PROVE  (t.lo .. t.hi - 1) \cap (u.lo .. u.hi - 1) = {}
<1> DEFINE n == Conv!ChannelWorkers(s)
<1>1. n \in Nat \ {0} /\ n <= s.oc \div MR /\ s.oc \in Nat /\ MR \in Nat \ {0}
  BY WorkersFit, ShapeIs DEF Conv!ConstantsAssumption
<1>2. PICK i \in Conv!Size(n) : t = Conv!Task(0, Conv!OH(s), Conv!OcBounds(s.oc, i, n)[1], Conv!OcBounds(s.oc, i, n)[2])
  BY DEF Conv!NonEmpty, Conv!ChannelTasks
<1>3. PICK j \in Conv!Size(n) : u = Conv!Task(0, Conv!OH(s), Conv!OcBounds(s.oc, j, n)[1], Conv!OcBounds(s.oc, j, n)[2])
  BY DEF Conv!NonEmpty, Conv!ChannelTasks
<1>4. i < j \/ j < i
  BY <1>1, <1>2, <1>3 DEF Conv!Size
<1> HIDE DEF n
<1>5. i < j => BoundsFollow(s.oc, i, j, n)
  BY <1>1, BoundsAreSound
<1>6. j < i => BoundsFollow(s.oc, j, i, n)
  BY <1>1, BoundsAreSound
<1>7. BoundsAre(s.oc, i, n) /\ BoundsAre(s.oc, j, n)
  BY <1>1, BoundsAreSound
<1>8. t.lo \in Nat /\ t.hi \in Nat /\ u.lo \in Nat /\ u.hi \in Nat
  BY <1>2, <1>3, <1>7 DEF BoundsAre, Conv!Task
<1>9. t.hi <= u.lo \/ u.hi <= t.lo
  BY <1>2, <1>3, <1>4, <1>5, <1>6 DEF BoundsFollow, Conv!Task
<1> QED
  BY <1>8, <1>9

LEMMA RowTaskIs ==
  ASSUME Conv!ConstantsAssumption, NEW s \in Shapes, NEW n \in Nat \ {0}, NEW t \in Conv!NonEmpty(Conv!RowTasks(s, n))
  PROVE  GoodRange(s, t.lo, t.hi) /\ t.oy0 \in Nat /\ t.oy1 \in Nat /\ t.oy1 <= Conv!OH(s)
<1>1. s.oc \in Nat /\ Conv!OH(s) \in Nat
  BY ShapeIs
<1> DEFINE chunk == Conv!CeilDiv(Conv!OH(s), n)
<1>2. chunk \in Nat
  <2>1. Conv!OH(s) + n - 1 \in Nat
    BY <1>1
  <2> QED
    BY <2>1, Quotient DEF Conv!CeilDiv
<1>3. PICK i \in Conv!Size(n) : t = Conv!Task(i * chunk, Conv!Least(i * chunk + chunk, Conv!OH(s)), 0, s.oc)
  BY DEF Conv!NonEmpty, Conv!RowTasks
<1> HIDE DEF chunk
<1>4. i * chunk \in Nat
  BY <1>2 DEF Conv!Size
<1>5. i * chunk + chunk \in Nat
  BY <1>2, <1>4
<1>6. Conv!Least(i * chunk + chunk, Conv!OH(s)) \in Nat /\ Conv!Least(i * chunk + chunk, Conv!OH(s)) <= Conv!OH(s)
  BY <1>1, <1>5 DEF Conv!Least
<1> QED
  BY <1>1, <1>3, <1>4, <1>6 DEF Conv!Task, GoodRange

LEMMA RowTasksApart ==
  ASSUME Conv!ConstantsAssumption, NEW s \in Shapes, NEW n \in Nat \ {0},
         NEW t \in Conv!NonEmpty(Conv!RowTasks(s, n)), NEW u \in Conv!NonEmpty(Conv!RowTasks(s, n)), t # u
  PROVE  (t.oy0 .. t.oy1 - 1) \cap (u.oy0 .. u.oy1 - 1) = {}
<1> DEFINE chunk == Conv!CeilDiv(Conv!OH(s), n)
           end(i) == i * chunk + chunk
<1>1. Conv!OH(s) \in Nat /\ chunk \in Nat
  <2>1. Conv!OH(s) \in Nat /\ Conv!OH(s) + n - 1 \in Nat
    BY ShapeIs
  <2> QED
    BY <2>1, Quotient DEF Conv!CeilDiv
<1>2. PICK i \in Conv!Size(n) : t = Conv!Task(i * chunk, Conv!Least(i * chunk + chunk, Conv!OH(s)), 0, s.oc)
  BY DEF Conv!NonEmpty, Conv!RowTasks
<1>3. PICK j \in Conv!Size(n) : u = Conv!Task(j * chunk, Conv!Least(j * chunk + chunk, Conv!OH(s)), 0, s.oc)
  BY DEF Conv!NonEmpty, Conv!RowTasks
<1> HIDE DEF chunk
<1>4. i \in Nat /\ j \in Nat /\ (i < j \/ j < i)
  BY <1>2, <1>3 DEF Conv!Size
<1>5. i * chunk \in Nat /\ j * chunk \in Nat
  BY <1>1, <1>4
<1>6. i < j => i * chunk + chunk <= j * chunk
  BY <1>1, <1>4, MulStep
<1>7. j < i => j * chunk + chunk <= i * chunk
  BY <1>1, <1>4, MulStep
<1>8. /\ t.oy0 = i * chunk /\ t.oy1 \in Int /\ t.oy1 <= i * chunk + chunk
      /\ u.oy0 = j * chunk /\ u.oy1 \in Int /\ u.oy1 <= j * chunk + chunk
  BY <1>1, <1>2, <1>3, <1>5 DEF Conv!Task, Conv!Least
<1>9. t.oy1 <= u.oy0 \/ u.oy1 <= t.oy0
  BY <1>1, <1>4, <1>5, <1>6, <1>7, <1>8
<1> QED
  BY <1>5, <1>8, <1>9

LEMMA WholeImageIs ==
  ASSUME Conv!ConstantsAssumption, NEW s \in Shapes
  PROVE  TaskIs(s, Conv!WholeImage(s))
BY ShapeIs DEF TaskIs, Conv!WholeImage, Conv!Task, GoodRange

LEMMA PlansAreSound ==
  ASSUME Conv!ConstantsAssumption, NEW s \in Shapes, NEW t \in Conv!Plan(s)
  PROVE  TaskIs(s, t)
<1>1. CASE t = Conv!WholeImage(s)
  BY <1>1, WholeImageIs
<1>2. CASE Conv!Kernel(s) = "s1" /\ t \in Conv!NonEmpty(Conv!RowTasks(s, Conv!Least(s.threads, Conv!OH(s)))) /\ Conv!Least(s.threads, Conv!OH(s)) > 1
  <2>1. Conv!Least(s.threads, Conv!OH(s)) \in Nat \ {0}
    BY <1>2, ShapeIs DEF Conv!Least
  <2> QED
    BY <2>1, <1>2, RowTaskIs DEF TaskIs
<1>3. CASE Conv!Kernel(s) = "s2" /\ t \in Conv!NonEmpty(Conv!ChannelTasks(s, Conv!ChannelWorkers(s))) /\ Conv!ChannelWorkers(s) > 1
  BY <1>3, ChannelTaskIs, ShapeIs DEF TaskIs
<1> QED
  BY <1>1, <1>2, <1>3 DEF Conv!Plan, Conv!S1Plan, Conv!S2Plan

(* No output is in the share of two tasks.                                  *)
LEMMA SharesApart ==
  ASSUME Conv!ConstantsAssumption, NEW s \in Shapes, NEW t \in Conv!Tasks(s), NEW u \in Conv!Tasks(s), t # u
  PROVE  Conv!Share(s, t) \cap Conv!Share(s, u) = {}
<1> SUFFICES ASSUME NEW o \in Conv!Share(s, t), o \in Conv!Share(s, u) PROVE FALSE
  OBVIOUS
<1>1. CASE ~Conv!SharedGather(s)
  <2>1. /\ o[1] \in t.lo .. t.hi - 1 /\ o[2] \in t.oy0 .. t.oy1 - 1
        /\ o[1] \in u.lo .. u.hi - 1 /\ o[2] \in u.oy0 .. u.oy1 - 1
    BY <1>1 DEF Conv!Share
  <2>2. t \in Conv!Plan(s) /\ u \in Conv!Plan(s)
    BY <1>1 DEF Conv!Tasks
  <2>3. CASE /\ Conv!Least(s.threads, Conv!OH(s)) > 1
             /\ t \in Conv!NonEmpty(Conv!RowTasks(s, Conv!Least(s.threads, Conv!OH(s))))
             /\ u \in Conv!NonEmpty(Conv!RowTasks(s, Conv!Least(s.threads, Conv!OH(s))))
    <3>1. Conv!Least(s.threads, Conv!OH(s)) \in Nat \ {0}
      BY <2>3, ShapeIs DEF Conv!Least
    <3>2. (t.oy0 .. t.oy1 - 1) \cap (u.oy0 .. u.oy1 - 1) = {}
      BY <3>1, <2>3, RowTasksApart
    <3> QED
      BY <3>2, <2>1
  <2>4. CASE /\ Conv!ChannelWorkers(s) > 1
             /\ t \in Conv!NonEmpty(Conv!ChannelTasks(s, Conv!ChannelWorkers(s)))
             /\ u \in Conv!NonEmpty(Conv!ChannelTasks(s, Conv!ChannelWorkers(s)))
    <3>1. (t.lo .. t.hi - 1) \cap (u.lo .. u.hi - 1) = {}
      BY <2>4, ChannelTasksApart
    <3> QED
      BY <3>1, <2>1
  <2> QED
    BY <2>2, <2>3, <2>4 DEF Conv!Plan, Conv!S1Plan, Conv!S2Plan
<1>2. CASE Conv!SharedGather(s)
  <2>1. Conv!ChannelWorkers(s) > 1
    BY <1>2 DEF Conv!SharedGather
  <2> DEFINE InTiles == o[1] < Conv!FullChannels(s) /\ o[3] < Conv!SharedTiles(s).ox
  <2>2. t = Conv!WholeImage(s) => ~InTiles
    BY <1>2 DEF Conv!Share
  <2>3. u = Conv!WholeImage(s) => ~InTiles
    BY <1>2 DEF Conv!Share
  <2>4. t # Conv!WholeImage(s) => o[1] \in t.lo .. t.hi - 1 /\ InTiles
    BY <1>2 DEF Conv!Share
  <2>5. u # Conv!WholeImage(s) => o[1] \in u.lo .. u.hi - 1 /\ InTiles
    BY <1>2 DEF Conv!Share
  <2>6. CASE t # Conv!WholeImage(s) /\ u # Conv!WholeImage(s)
    <3>1. /\ t \in Conv!NonEmpty(Conv!ChannelTasks(s, Conv!ChannelWorkers(s)))
          /\ u \in Conv!NonEmpty(Conv!ChannelTasks(s, Conv!ChannelWorkers(s)))
      BY <2>6, <1>2 DEF Conv!Tasks
    <3>2. (t.lo .. t.hi - 1) \cap (u.lo .. u.hi - 1) = {}
      BY <3>1, <2>1, ChannelTasksApart
    <3> QED
      BY <3>2, <2>4, <2>5, <2>6
  <2> QED
    BY <2>2, <2>3, <2>4, <2>5, <2>6
<1> QED
  BY <1>1, <1>2
-----------------------------------------------------------------------------
(* What each step writes lies in its task's share.                          *)
AddressesOf(s, im, t) == {Conv!Address(s, im, o[1], o[2], o[3]) : o \in Conv!Share(s, t)}
WritesIn(writes, s, im, t) == \A v \in writes : v.at \in AddressesOf(s, im, t)

LEMMA RowInShare ==
  ASSUME Conv!ConstantsAssumption, NEW s \in Shapes, ~Conv!SharedGather(s), NEW t, TaskIs(s, t),
         NEW im, NEW oy \in t.oy0 .. t.oy1 - 1, NEW writes, RowStays(writes, s, im, oy, t.lo, t.hi)
  PROVE  WritesIn(writes, s, im, t)
<1> SUFFICES ASSUME NEW v \in writes PROVE v.at \in AddressesOf(s, im, t)
  BY DEF WritesIn
<1>1. PICK oc \in t.lo .. t.hi - 1, ox \in Conv!Size(Conv!OW(s)) : v.at = Conv!Address(s, im, oc, oy, ox)
  BY DEF RowStays, StaysIn
<1>2. s.oc \in Nat /\ Conv!OH(s) \in Nat /\ t.lo \in Nat /\ t.hi \in Nat /\ t.hi <= s.oc /\ t.oy0 \in Nat /\ t.oy1 \in Nat /\ t.oy1 <= Conv!OH(s)
  BY ShapeIs DEF TaskIs, GoodRange
<1>3. oc \in Conv!Size(s.oc) /\ oy \in Conv!Size(Conv!OH(s))
  BY <1>2 DEF Conv!Size
<1> DEFINE o == <<oc, oy, ox>>
<1>4. o \in Conv!Outputs(s) /\ o[1] = oc /\ o[2] = oy /\ o[3] = ox
  BY <1>3 DEF Conv!Outputs
<1> HIDE DEF o
<1>5. o \in Conv!Share(s, t)
  BY <1>4 DEF Conv!Share
<1> QED
  BY <1>1, <1>4, <1>5 DEF AddressesOf

\* A tile of the shared gather.
LEMMA SharedTilesAreSound ==
  ASSUME Conv!ConstantsAssumption, NEW s \in Shapes
  PROVE  CutIsSound(s, 0, Conv!SharedTiles(s))
<1> DEFINE cut == Conv!TilesFrom(s, 0, MAX_TILES, RestWidths(s))
           more == [tiles |-> cut.tiles \cup {Conv!TileAt(Conv!OW(s) - NR16, NR16)}, ox |-> Conv!OW(s)]
<1>1. /\ Conv!OW(s) \in Nat /\ 0 \in 0 .. Conv!OW(s) /\ MAX_TILES \in Nat /\ NR16 \in Nat \ {0}
  BY ShapeIs DEF Conv!ConstantsAssumption
<1>2. CutIsSound(s, 0, cut)
  BY <1>1, RestWidthsAreWidths, TilesAreSound
<1>3. Conv!SharedTiles(s) = cut \/ (Conv!OW(s) >= NR16 /\ Conv!SharedTiles(s) = more)
  BY DEF Conv!SharedTiles, RestWidths
<1> HIDE DEF cut
<1>4. ASSUME Conv!OW(s) >= NR16 PROVE CutIsSound(s, 0, more)
  <2>1. \A t \in cut.tiles : t.ox \in Nat /\ t.pn \in Nat \ {0} /\ 0 <= t.ox /\ t.ox + t.pn <= Conv!OW(s)
    <3> TAKE t \in cut.tiles
    <3> DEFINE end == cut.ox a == t.ox b == t.pn
    <3>1. end \in 0 .. Conv!OW(s) /\ a \in Nat /\ b \in Nat \ {0} /\ 0 <= a /\ a + b <= end
      BY <1>2 DEF CutIsSound
    <3> HIDE DEF end, a, b
    <3>2. a + b <= Conv!OW(s)
      BY <3>1, <1>1
    <3> QED
      BY <3>1, <3>2 DEF a, b
  <2>2. \A t \in {Conv!TileAt(Conv!OW(s) - NR16, NR16)} :
          t.ox \in Nat /\ t.pn \in Nat \ {0} /\ 0 <= t.ox /\ t.ox + t.pn <= Conv!OW(s)
    BY <1>1, <1>4 DEF Conv!TileAt
  <2>3. more.ox = Conv!OW(s) /\ more.tiles = cut.tiles \cup {Conv!TileAt(Conv!OW(s) - NR16, NR16)}
    OBVIOUS
  <2> HIDE DEF more
  <2> QED
    BY <2>1, <2>2, <2>3, <1>1 DEF CutIsSound
<1> QED
  BY <1>2, <1>3, <1>4

\* The columns in no tile, for all channels.
LEMMA GatheredInShare ==
  ASSUME Conv!ConstantsAssumption, NEW s \in Shapes, Conv!SharedGather(s), NEW im, NEW oy \in Conv!Size(Conv!OH(s)), NEW px
  PROVE  WritesIn(Conv!ColumnsWrites(s, im, oy, Conv!SharedTiles(s).ox, 0, s.oc, px), s, im, Conv!WholeImage(s))
<1> DEFINE from == Conv!SharedTiles(s).ox
<1>1. from \in Nat
  BY SharedTilesAreSound, ShapeIs DEF CutIsSound
<1> SUFFICES ASSUME NEW v \in Conv!ColumnsWrites(s, im, oy, from, 0, s.oc, px)
             PROVE  v.at \in AddressesOf(s, im, Conv!WholeImage(s))
  BY DEF WritesIn
<1>2. StaysIn(Conv!ColumnsWrites(s, im, oy, from, 0, s.oc, px), s, im, oy, 0 .. s.oc - 1, from .. Conv!OW(s) - 1)
  BY <1>1, ColumnsStay
<1>3. PICK oc \in 0 .. s.oc - 1, ox \in from .. Conv!OW(s) - 1 : v.at = Conv!Address(s, im, oc, oy, ox)
  BY <1>2 DEF StaysIn
<1> DEFINE o == <<oc, oy, ox>>
<1>4. o \in Conv!Outputs(s) /\ o[1] = oc /\ o[2] = oy /\ o[3] = ox
  BY <1>1, <1>3, ShapeIs DEF Conv!Outputs, Conv!Size
<1>5. ~(ox < from)
  BY <1>1
<1> HIDE DEF o, from
<1>6. o \in Conv!Share(s, Conv!WholeImage(s))
  BY <1>4, <1>5 DEF Conv!Share, from
<1> QED
  BY <1>3, <1>4, <1>6 DEF AddressesOf

\* The channels that fill no group, for the tiles.
LEMMA FullGroups ==
  ASSUME Conv!ConstantsAssumption, NEW s \in Shapes
  PROVE  /\ Conv!FullChannels(s) \in Nat /\ Conv!FullChannels(s) <= s.oc /\ Conv!FullChannels(s) % MR = 0
         /\ s.oc < Conv!FullChannels(s) + MR
<1>1. s.oc \in Nat /\ MR \in Nat \ {0}
  BY ShapeIs DEF Conv!ConstantsAssumption
<1> DEFINE q == s.oc \div MR
           r == s.oc % MR
<1>2. q \in Nat /\ r \in 0 .. MR - 1 /\ s.oc = q * MR + r
  BY <1>1, Quotient
<1>3. Conv!FullChannels(s) = s.oc - r
  BY DEF Conv!FullChannels
<1> HIDE DEF q, r
<1>4. q * MR \in Nat /\ (q * MR) % MR = 0
  BY <1>1, <1>2, MultipleOf
<1>5. Conv!FullChannels(s) = q * MR
  BY <1>2, <1>3, <1>4
<1> QED
  BY <1>1, <1>2, <1>4, <1>5

LEMMA TileColumns ==
  ASSUME Conv!ConstantsAssumption, NEW s \in Shapes, NEW tile \in Conv!SharedTiles(s).tiles
  PROVE  /\ tile.ox \in Nat /\ tile.pn \in Nat
         /\ \A ix \in tile.ox .. tile.ox + tile.pn - 1 : ix \in Conv!Size(Conv!OW(s)) /\ ix < Conv!SharedTiles(s).ox
<1> DEFINE c == Conv!SharedTiles(s)
           end == c.ox a == tile.ox b == tile.pn
<1>1. end \in 0 .. Conv!OW(s) /\ a \in Nat /\ b \in Nat \ {0} /\ a + b <= end /\ Conv!OW(s) \in Nat
  BY SharedTilesAreSound, ShapeIs DEF CutIsSound
<1> HIDE DEF end, a, b
<1>2. \A ix \in a .. a + b - 1 : ix \in Conv!Size(Conv!OW(s)) /\ ix < end
  BY <1>1 DEF Conv!Size
<1> QED
  BY <1>1, <1>2 DEF end, a, b

LEMMA LeftoverInShare ==
  ASSUME Conv!ConstantsAssumption, NEW s \in Shapes, Conv!SharedGather(s), NEW im, NEW oy \in Conv!Size(Conv!OH(s)), NEW px,
         NEW tile \in Conv!SharedTiles(s).tiles
  PROVE  WritesIn(Conv!TileWrites(s, im, oy, tile, Conv!FullChannels(s), s.oc, px), s, im, Conv!WholeImage(s))
<1> DEFINE lo == Conv!FullChannels(s)
<1>1. lo \in Nat /\ lo <= s.oc /\ s.oc \in Nat /\ MR \in Nat \ {0} /\ GoodRange(s, lo, s.oc)
  BY FullGroups, ShapeIs DEF Conv!ConstantsAssumption, GoodRange
<1>2. StaysIn(Conv!TileWrites(s, im, oy, tile, lo, s.oc, px), s, im, oy, lo .. s.oc - 1, tile.ox .. tile.ox + tile.pn - 1)
  BY <1>1, TileColumns, TileStays
<1> SUFFICES ASSUME NEW v \in Conv!TileWrites(s, im, oy, tile, lo, s.oc, px)
             PROVE  v.at \in AddressesOf(s, im, Conv!WholeImage(s))
  BY DEF WritesIn
<1>3. PICK oc \in lo .. s.oc - 1, ox \in tile.ox .. tile.ox + tile.pn - 1 : v.at = Conv!Address(s, im, oc, oy, ox)
  BY <1>2 DEF StaysIn
<1>4. ox \in Conv!Size(Conv!OW(s))
  BY TileColumns
<1> DEFINE o == <<oc, oy, ox>>
<1>5. oc \in Conv!Size(s.oc) /\ ~(oc < lo)
  BY <1>1 DEF Conv!Size
<1>6. o \in Conv!Outputs(s) /\ o[1] = oc /\ o[2] = oy /\ o[3] = ox
  BY <1>4, <1>5 DEF Conv!Outputs
<1> HIDE DEF o, lo
<1>7. o \in Conv!Share(s, Conv!WholeImage(s))
  BY <1>5, <1>6 DEF Conv!Share, lo
<1> QED
  BY <1>3, <1>6, <1>7 DEF AddressesOf

\* One full group of a channel task, for a tile.
LEMMA StreamInShare ==
  ASSUME Conv!ConstantsAssumption, NEW s \in Shapes, Conv!SharedGather(s),
         NEW t \in Conv!NonEmpty(Conv!ChannelTasks(s, Conv!ChannelWorkers(s))), NEW im, NEW oy \in Conv!Size(Conv!OH(s)), NEW px,
         NEW tile \in Conv!SharedTiles(s).tiles, NEW mo \in Conv!GroupsOf(t.lo, t.hi), mo + MR <= s.oc
  PROVE  WritesIn(Conv!TileWrites(s, im, oy, tile, mo, mo + 1, px), s, im, t)
<1>1. /\ GoodRange(s, t.lo, t.hi) /\ t.lo % MR = 0 /\ t.oy0 = 0 /\ t.oy1 = Conv!OH(s) /\ t # Conv!WholeImage(s)
  BY ChannelTaskIs DEF Conv!SharedGather
<1>2. /\ t.lo \in Nat /\ t.hi \in Nat /\ s.oc \in Nat /\ MR \in Nat \ {0} /\ t.hi <= s.oc
      /\ mo \in t.lo .. t.hi - 1 /\ (mo - t.lo) % MR = 0 /\ mo \in Nat /\ mo - t.lo \in Nat
  BY <1>1, ShapeIs DEF GoodRange, Conv!ConstantsAssumption, Conv!GroupsOf
<1>3. mo % MR = 0
  <2> DEFINE d == mo - t.lo
             a == d \div MR
             b == t.lo \div MR
  <2>1. d \in Nat /\ d % MR = 0
    BY <1>2
  <2> HIDE DEF d
  <2>2. a \in Nat /\ b \in Nat /\ d = a * MR + (d % MR) /\ t.lo = b * MR + (t.lo % MR)
    BY <1>2, <2>1, Quotient
  <2> HIDE DEF a, b
  <2>3. a * MR \in Nat /\ b * MR \in Nat /\ (a + b) * MR = a * MR + b * MR
    BY <2>2, <1>2
  <2>4. mo = d + t.lo
    BY <1>2 DEF d
  <2>5. mo = (a + b) * MR
    BY <2>1, <2>2, <2>3, <2>4, <1>1
  <2>6. a + b \in Nat
    BY <2>2
  <2> QED
    BY <2>5, <2>6, <1>2, MultipleOf
<1>4. mo + MR <= Conv!FullChannels(s)
  <2>1. /\ Conv!FullChannels(s) \in Nat /\ Conv!FullChannels(s) <= s.oc /\ Conv!FullChannels(s) % MR = 0
        /\ s.oc < Conv!FullChannels(s) + MR
    BY FullGroups
  <2>2. mo < Conv!FullChannels(s)
    BY <2>1, <1>2
  <2> QED
    BY <2>1, <2>2, <1>2, <1>3, Multiples
<1>5. Conv!GroupsOf(mo, mo + 1) = {mo}
  <2>1. mo .. mo + 1 - 1 = {mo} /\ mo - mo = 0 /\ 0 % MR = 0
    <3>1. mo .. mo + 1 - 1 = {mo} /\ mo - mo = 0
      BY <1>2
    <3>2. (0 * MR) % MR = 0 /\ 0 * MR = 0
      BY <1>2, MultipleOf
    <3> QED
      BY <3>1, <3>2
  <2> QED
    BY <2>1 DEF Conv!GroupsOf
<1>6. Conv!GroupChannels(s, mo) = mo .. mo + MR - 1
  <2> DEFINE rest == s.oc - mo
  <2>1. rest \in Int /\ MR \in Int /\ MR <= rest
    BY <1>2
  <2> HIDE DEF rest
  <2>2. Conv!Least(MR, rest) = MR
    BY <2>1 DEF Conv!Least
  <2> QED
    BY <2>2 DEF Conv!GroupChannels, rest
<1>7. Conv!GroupChannels(s, mo) \subseteq t.lo .. t.hi - 1
  BY <1>1, <1>2, GroupsStay
<1> SUFFICES ASSUME NEW v \in Conv!TileWrites(s, im, oy, tile, mo, mo + 1, px)
             PROVE  v.at \in AddressesOf(s, im, t)
  BY DEF WritesIn
<1>8. PICK oc \in Conv!GroupChannels(s, mo), ix \in Conv!Size(tile.pn) :
        v = Conv!Write(s, im, oc, oy, tile.ox + ix, px[tile.ox + ix])
  BY <1>5 DEF Conv!TileWrites
<1> DEFINE ox == tile.ox + ix
<1>9. v.at = Conv!Address(s, im, oc, oy, ox)
  BY <1>8 DEF Conv!Write
<1>10. ox \in Conv!Size(Conv!OW(s)) /\ ox < Conv!SharedTiles(s).ox
  <2>1. ox \in tile.ox .. tile.ox + tile.pn - 1
    BY TileColumns DEF Conv!Size
  <2> HIDE DEF ox
  <2> QED
    BY <2>1, TileColumns
<1>11. /\ oc \in Conv!Size(s.oc) /\ oc < Conv!FullChannels(s) /\ oc \in t.lo .. t.hi - 1
  <2>1. Conv!FullChannels(s) \in Nat
    BY FullGroups
  <2>2. oc \in mo .. mo + MR - 1 /\ oc \in t.lo .. t.hi - 1
    BY <1>6, <1>7
  <2> QED
    BY <2>1, <2>2, <1>2, <1>4 DEF Conv!Size
<1> DEFINE o == <<oc, oy, ox>>
<1> HIDE DEF ox
<1>12. o \in Conv!Outputs(s) /\ o[1] = oc /\ o[2] = oy /\ o[3] = ox
  BY <1>10, <1>11 DEF Conv!Outputs
<1>13. oy \in t.oy0 .. t.oy1 - 1
  BY <1>1 DEF Conv!Size
<1> HIDE DEF o
<1>14. o \in Conv!Share(s, t)
  BY <1>1, <1>10, <1>11, <1>12, <1>13 DEF Conv!Share
<1> QED
  BY <1>9, <1>12, <1>14 DEF AddressesOf
-----------------------------------------------------------------------------
(* Every step keeps the invariant.                                          *)
LEMMA StoreKeeps ==
  ASSUME Conv!ClaimsStayInTheirShare, NEW t \in DOMAIN claims, NEW writes, Conv!Store(t, writes),
         WritesIn(writes, shape, Conv!ClaimedImage, t), shape' = shape, Conv!ClaimedImage' = Conv!ClaimedImage
  PROVE  Conv!ClaimsStayInTheirShare' /\ DOMAIN claims' = DOMAIN claims
<1>1. DOMAIN claims' = DOMAIN claims
  BY DEF Conv!Store
<1>2. ASSUME NEW u \in DOMAIN claims PROVE claims'[u] \subseteq AddressesOf(shape, Conv!ClaimedImage, u)
  <2>1. claims[u] \subseteq AddressesOf(shape, Conv!ClaimedImage, u)
    BY DEF Conv!ClaimsStayInTheirShare, AddressesOf
  <2>2. claims'[u] = IF u = t THEN claims[t] \cup {v.at : v \in writes} ELSE claims[u]
    BY DEF Conv!Store
  <2>3. {v.at : v \in writes} \subseteq AddressesOf(shape, Conv!ClaimedImage, t)
    BY DEF WritesIn
  <2> QED
    BY <2>1, <2>2, <2>3
<1>3. \A u \in DOMAIN claims' :
        claims'[u] \subseteq {Conv!Address(shape', Conv!ClaimedImage', o[1], o[2], o[3]) : o \in Conv!Share(shape', u)}
  BY <1>1, <1>2 DEF AddressesOf
<1> QED
  BY <1>1, <1>3 DEF Conv!ClaimsStayInTheirShare

LEMMA ConvInit == ASSUME Conv!ConstantsAssumption, Conv!Init PROVE Conv!ConvIInv
<1>1. shape \in Shapes /\ shape.n \in Nat /\ DOMAIN claims = {}
  BY ShapeIs DEF Conv!Init
<1>2. Conv!ConvTypeOK
  BY <1>1 DEF Conv!Init, Conv!ConvTypeOK
<1>3. Conv!TasksAreTheirs
  BY <1>1 DEF Conv!Init, Conv!TasksAreTheirs
<1>4. Conv!SlabHoldsTheTiles /\ Conv!StreamsAreChannels
  BY DEF Conv!Init, Conv!SlabHoldsTheTiles, Conv!StreamsAreChannels
<1>5. Conv!ClaimsStayInTheirShare
  BY <1>1 DEF Conv!ClaimsStayInTheirShare
<1> QED
  BY <1>2, <1>3, <1>4, <1>5 DEF Conv!ConvIInv

LEMMA PlanInTasks ==
  ASSUME NEW s
  PROVE  Conv!Plan(s) \subseteq Conv!Tasks(s) /\ (Conv!SharedGather(s) => Conv!Plan(s) = {Conv!WholeImage(s)})
BY DEF Conv!Plan, Conv!S1Plan, Conv!Tasks, Conv!SharedGather

LEMMA ConvDispatch == ASSUME Conv!ConstantsAssumption, Conv!ConvIInv, Conv!Dispatch PROVE Conv!ConvIInv'
<1>1. CASE image < shape.n
  <2>1. /\ phase = "dispatch" /\ todo' = Conv!Plan(shape) /\ phase' = "scan" /\ claims' = [t \in Conv!Plan(shape) |-> {}]
        /\ shape' = shape /\ image' = image /\ task' = task /\ row' = row
    BY <1>1 DEF Conv!Dispatch
  <2>2. DOMAIN claims' = Conv!Plan(shape) /\ task' = Conv!NoTask
    BY <2>1 DEF Conv!ConvIInv, Conv!TasksAreTheirs
  <2>3. Conv!ConvTypeOK'
    BY <1>1, <2>1 DEF Conv!ConvIInv, Conv!ConvTypeOK
  <2>4. Conv!TasksAreTheirs'
    BY <2>1, <2>2, PlanInTasks DEF Conv!TasksAreTheirs
  <2>5. Conv!SlabHoldsTheTiles' /\ Conv!StreamsAreChannels'
    BY <2>1, <2>2, PlanInTasks DEF Conv!SlabHoldsTheTiles, Conv!StreamsAreChannels
  <2>6. Conv!ClaimsStayInTheirShare'
    BY <2>1 DEF Conv!ClaimsStayInTheirShare
  <2> QED
    BY <2>3, <2>4, <2>5, <2>6 DEF Conv!ConvIInv
<1>2. CASE ~(image < shape.n)
  <2>1. /\ phase = "dispatch" /\ phase' = "done" /\ todo' = todo /\ claims' = claims
        /\ shape' = shape /\ image' = image /\ task' = task /\ row' = row
    BY <1>2 DEF Conv!Dispatch
  <2>2. Conv!ConvTypeOK'
    BY <2>1 DEF Conv!ConvIInv, Conv!ConvTypeOK
  <2>3. Conv!TasksAreTheirs'
    BY <2>1 DEF Conv!ConvIInv, Conv!TasksAreTheirs
  <2>4. Conv!SlabHoldsTheTiles' /\ Conv!StreamsAreChannels'
    BY <2>1 DEF Conv!ConvIInv, Conv!SlabHoldsTheTiles, Conv!StreamsAreChannels
  <2>5. Conv!ClaimedImage' = Conv!ClaimedImage
    BY <2>1 DEF Conv!ClaimedImage
  <2>6. Conv!ClaimsStayInTheirShare'
    BY <2>1, <2>5 DEF Conv!ConvIInv, Conv!ClaimsStayInTheirShare
  <2> QED
    BY <2>2, <2>3, <2>4, <2>6 DEF Conv!ConvIInv
<1> QED
  BY <1>1, <1>2

LEMMA ConvTakeTask == ASSUME Conv!ConstantsAssumption, Conv!ConvIInv, Conv!TakeTask PROVE Conv!ConvIInv'
<1>1. PICK t \in todo : task' = t /\ todo' = todo \ {t} /\ row' = t.oy0
  BY DEF Conv!TakeTask
<1>2. /\ phase = "scan" /\ task = Conv!NoTask /\ shape' = shape /\ image' = image /\ slab' = slab /\ claims' = claims
      /\ phase' = IF Conv!SharedGather(shape) THEN "gather" ELSE "scan"
  BY DEF Conv!TakeTask
<1>3. shape \in Shapes /\ t \in DOMAIN claims /\ t \in Conv!Tasks(shape)
  BY DEF Conv!ConvIInv, Conv!ConvTypeOK, Conv!TasksAreTheirs
<1>4. Conv!SharedGather(shape) => t = Conv!WholeImage(shape)
  BY <1>2 DEF Conv!ConvIInv, Conv!SlabHoldsTheTiles, Conv!StreamsAreChannels
<1>5. t.oy0 \in Nat /\ (Conv!SharedGather(shape) => t.oy0 = 0)
  <2>1. CASE Conv!SharedGather(shape)
    BY <1>4, <2>1 DEF Conv!WholeImage, Conv!Task
  <2>2. CASE ~Conv!SharedGather(shape)
    BY <1>3, <2>2, PlansAreSound DEF Conv!Tasks, TaskIs
  <2> QED
    BY <2>1, <2>2
<1>6. phase' \in {"scan", "gather"}
  BY <1>2
<1>7. Conv!ConvTypeOK'
  BY <1>1, <1>2, <1>5, <1>6 DEF Conv!ConvIInv, Conv!ConvTypeOK
<1>8. Conv!TasksAreTheirs'
  BY <1>1, <1>2, <1>3, <1>5, <1>6 DEF Conv!ConvIInv, Conv!TasksAreTheirs
<1>9. Conv!SlabHoldsTheTiles' /\ Conv!StreamsAreChannels'
  <2>1. Conv!SharedGather(shape) => Conv!Size(row') = {}
    BY <1>1, <1>5 DEF Conv!Size
  <2> QED
    BY <1>1, <1>2, <1>3, <1>4, <1>6, <2>1 DEF Conv!SlabHoldsTheTiles, Conv!StreamsAreChannels
<1>10. Conv!ClaimedImage' = Conv!ClaimedImage
  BY <1>2, <1>6 DEF Conv!ClaimedImage
<1>11. Conv!ClaimsStayInTheirShare'
  BY <1>2, <1>10 DEF Conv!ConvIInv, Conv!ClaimsStayInTheirShare
<1> QED
  BY <1>7, <1>8, <1>9, <1>11 DEF Conv!ConvIInv

LEMMA TaskInHand ==
  ASSUME Conv!ConstantsAssumption, Conv!ConvIInv, phase = "scan", task # Conv!NoTask, row < task.oy1
  PROVE  /\ shape \in Shapes /\ ~Conv!SharedGather(shape) /\ task \in DOMAIN claims
         /\ TaskIs(shape, task) /\ row \in task.oy0 .. task.oy1 - 1 /\ row + 1 \in Nat
<1>1. shape \in Shapes /\ ~Conv!SharedGather(shape) /\ task \in DOMAIN claims /\ task \in Conv!Plan(shape) /\ row \in Nat /\ task.oy0 <= row
  BY DEF Conv!ConvIInv, Conv!ConvTypeOK, Conv!TasksAreTheirs, Conv!SlabHoldsTheTiles, Conv!Tasks
<1>2. TaskIs(shape, task)
  BY <1>1, PlansAreSound
<1>3. row \in task.oy0 .. task.oy1 - 1 /\ row + 1 \in Nat
  BY <1>1, <1>2 DEF TaskIs
<1> QED
  BY <1>1, <1>2, <1>3

LEMMA ShapeIsGood == ASSUME Conv!ConstantsAssumption, NEW s \in Shapes PROVE GoodShape(s)
BY ShapeIs DEF GoodShape, Conv!ConstantsAssumption

\* A row of the task in hand.
LEMMA ConvRow ==
  ASSUME Conv!ConstantsAssumption, Conv!ConvIInv, phase = "scan", task # Conv!NoTask, row < task.oy1,
         NEW writes, Conv!Store(task, writes), RowStays(writes, shape, image, row, task.lo, task.hi),
         row' = row + 1, UNCHANGED <<shape, image, phase, todo, task, slab>>
  PROVE  Conv!ConvIInv'
<1>1. /\ shape \in Shapes /\ ~Conv!SharedGather(shape) /\ task \in DOMAIN claims
      /\ TaskIs(shape, task) /\ row \in task.oy0 .. task.oy1 - 1 /\ row + 1 \in Nat
  BY TaskInHand
<1>2. WritesIn(writes, shape, image, task)
  BY <1>1, RowInShare
<1>3. Conv!ClaimedImage = image /\ Conv!ClaimedImage' = Conv!ClaimedImage
  BY DEF Conv!ClaimedImage
<1>4. Conv!ClaimsStayInTheirShare' /\ DOMAIN claims' = DOMAIN claims
  BY <1>1, <1>2, <1>3, StoreKeeps DEF Conv!ConvIInv
<1>5. Conv!ConvTypeOK'
  BY <1>1 DEF Conv!ConvIInv, Conv!ConvTypeOK
<1>6. task.oy0 <= row + 1
  BY <1>1 DEF TaskIs
<1>7. Conv!TasksAreTheirs'
  BY <1>1, <1>4, <1>6 DEF Conv!ConvIInv, Conv!TasksAreTheirs
<1>8. Conv!SlabHoldsTheTiles' /\ Conv!StreamsAreChannels'
  BY <1>1 DEF Conv!ConvIInv, Conv!SlabHoldsTheTiles, Conv!StreamsAreChannels
<1> QED
  BY <1>4, <1>5, <1>7, <1>8 DEF Conv!ConvIInv

LEMMA ConvS1Row == ASSUME Conv!ConstantsAssumption, Conv!ConvIInv, Conv!S1Row PROVE Conv!ConvIInv'
<1>1. /\ shape \in Shapes /\ TaskIs(shape, task) /\ GoodShape(shape)
  BY TaskInHand, ShapeIsGood DEF Conv!S1Row
<1>2. RowStays(Conv!S1RowWrites(shape, ring', image, row, task.lo, task.hi), shape, image, row, task.lo, task.hi)
  BY <1>1, S1RowStays DEF TaskIs
<1> QED
  BY <1>2, ConvRow DEF Conv!S1Row

LEMMA ConvS2Row == ASSUME Conv!ConstantsAssumption, Conv!ConvIInv, Conv!S2Row PROVE Conv!ConvIInv'
<1>1. /\ shape \in Shapes /\ TaskIs(shape, task) /\ GoodShape(shape)
  BY TaskInHand, ShapeIsGood DEF Conv!S2Row
<1>2. RowStays(Conv!S2RowWrites(shape, image, row, task.lo, task.hi), shape, image, row, task.lo, task.hi)
  BY <1>1, S2RowStays DEF TaskIs
<1> QED
  BY <1>2, ConvRow DEF Conv!S2Row

LEMMA ConvDirectRow == ASSUME Conv!ConstantsAssumption, Conv!ConvIInv, Conv!DirectRow PROVE Conv!ConvIInv'
<1>1. /\ shape \in Shapes /\ TaskIs(shape, task) /\ GoodShape(shape)
      /\ phase = "scan" /\ task # Conv!NoTask /\ row < task.oy1
      /\ row' = row + 1 /\ UNCHANGED <<shape, image, phase, todo, task, slab>>
  BY TaskInHand, ShapeIsGood DEF Conv!DirectRow
<1>2. ASSUME Conv!Kernel(shape) \in {"conv3x3", "conv1x1", "gather"} PROVE task.lo = 0 /\ task.hi = shape.oc
  <2>1. task = Conv!WholeImage(shape)
    BY <1>1, <1>2 DEF TaskIs
  <2> QED
    BY <2>1 DEF Conv!WholeImage, Conv!Task
<1>3. CASE Conv!Kernel(shape) = "conv3x3" /\ Conv!Store(task, Conv!Conv3x3RowWrites(shape, image, row))
  BY <1>1, <1>2, <1>3, Conv3x3RowStays, ConvRow
<1>4. CASE Conv!Kernel(shape) = "conv1x1" /\ Conv!Store(task, Conv!Conv1x1RowWrites(shape, image, row))
  <2>1. shape.k = 1 /\ shape.pad = 0
    BY <1>4 DEF Conv!Kernel
  <2> QED
    BY <2>1, <1>1, <1>2, <1>4, Conv1x1RowStays, ConvRow
<1>5. CASE Conv!Kernel(shape) = "gather" /\ Conv!Store(task, Conv!ConvGatherRowWrites(shape, image, row))
  BY <1>1, <1>2, <1>5, ConvGatherRowStays, ConvRow
<1> QED
  BY <1>3, <1>4, <1>5 DEF Conv!DirectRow

LEMMA ConvEndTask == ASSUME Conv!ConstantsAssumption, Conv!ConvIInv, Conv!EndTask PROVE Conv!ConvIInv'
<1>1. /\ phase = "scan" /\ task' = Conv!NoTask /\ shape' = shape /\ todo' = todo /\ row' = row /\ slab' = slab /\ claims' = claims
      /\ \/ todo = {} /\ image' = image + 1 /\ phase' = "dispatch"
         \/ todo # {} /\ image' = image /\ phase' = "scan"
  BY DEF Conv!EndTask
<1>2. image \in 0 .. shape.n /\ image # shape.n /\ shape \in Shapes /\ shape.n \in Nat /\ image + 1 # 0
      /\ image \in Int
  BY <1>1, ShapeIs DEF Conv!ConvIInv, Conv!ConvTypeOK
<1>3. Conv!ConvTypeOK'
  BY <1>1, <1>2 DEF Conv!ConvIInv, Conv!ConvTypeOK
<1>4. Conv!TasksAreTheirs'
  BY <1>1, <1>2 DEF Conv!ConvIInv, Conv!TasksAreTheirs
<1>5. Conv!SlabHoldsTheTiles' /\ Conv!StreamsAreChannels'
  BY <1>1 DEF Conv!ConvIInv, Conv!SlabHoldsTheTiles, Conv!StreamsAreChannels
<1>6. Conv!ClaimedImage' = Conv!ClaimedImage
  BY <1>1, <1>2 DEF Conv!ClaimedImage
<1>7. Conv!ClaimsStayInTheirShare'
  BY <1>1, <1>6 DEF Conv!ConvIInv, Conv!ClaimsStayInTheirShare
<1> QED
  BY <1>3, <1>4, <1>5, <1>7 DEF Conv!ConvIInv
LEMMA ConvGatherRow == ASSUME Conv!ConstantsAssumption, Conv!ConvIInv, Conv!GatherRow PROVE Conv!ConvIInv'
<1> DEFINE px == [ox \in Conv!Size(Conv!OW(shape)) |-> Conv!GatherS1(shape, ring', row, ox)]
           cut == Conv!SharedTiles(shape)
           gathered == {[tile |-> t, px |-> [ix \in t.ox .. t.ox + t.pn - 1 |-> px[ix]]] : t \in cut.tiles}
           writes == Conv!ColumnsWrites(shape, image, row, cut.ox, 0, shape.oc, px)
<1>1. /\ phase = "gather" /\ row < Conv!OH(shape) /\ row' = row + 1 /\ Conv!Store(task, writes)
      /\ slab' = [oy \in Conv!Size(row + 1) |-> IF oy < row THEN slab[oy] ELSE gathered]
      /\ shape' = shape /\ image' = image /\ phase' = phase /\ todo' = todo /\ task' = task
  BY DEF Conv!GatherRow
<1> HIDE DEF writes, gathered
<1>2. /\ shape \in Shapes /\ Conv!SharedGather(shape) /\ task = Conv!WholeImage(shape) /\ task \in DOMAIN claims /\ row \in Nat
      /\ \A oy \in Conv!Size(row) : \A g \in slab[oy] : g.tile \in Conv!SharedTiles(shape).tiles
  BY <1>1 DEF Conv!ConvIInv, Conv!ConvTypeOK, Conv!SlabHoldsTheTiles
<1>3. row \in Conv!Size(Conv!OH(shape)) /\ row + 1 \in Nat
  BY <1>1, <1>2, ShapeIs DEF Conv!Size
<1>4. Conv!ClaimedImage = image /\ Conv!ClaimedImage' = Conv!ClaimedImage
  BY <1>1 DEF Conv!ClaimedImage
<1>5. WritesIn(writes, shape, image, task)
  BY <1>2, <1>3, GatheredInShare DEF writes
<1>6. Conv!ClaimsStayInTheirShare' /\ DOMAIN claims' = DOMAIN claims
  BY <1>1, <1>2, <1>4, <1>5, StoreKeeps DEF Conv!ConvIInv
<1>7. Conv!ConvTypeOK'
  BY <1>1, <1>3 DEF Conv!ConvIInv, Conv!ConvTypeOK
<1>8. Conv!TasksAreTheirs'
  BY <1>1, <1>2, <1>3, <1>6 DEF Conv!ConvIInv, Conv!TasksAreTheirs, Conv!WholeImage, Conv!Task
<1>9. \A oy \in Conv!Size(row + 1) : \A g \in slab'[oy] : g.tile \in Conv!SharedTiles(shape).tiles
  <2> TAKE oy \in Conv!Size(row + 1)
  <2>1. oy < row => oy \in Conv!Size(row)
    BY <1>2 DEF Conv!Size
  <2>2. \A g \in gathered : g.tile \in Conv!SharedTiles(shape).tiles
    BY DEF gathered
  <2> QED
    BY <2>1, <2>2, <1>1, <1>2
<1>10. Conv!SlabHoldsTheTiles' /\ Conv!StreamsAreChannels'
  BY <1>1, <1>2, <1>6, <1>9 DEF Conv!SlabHoldsTheTiles, Conv!StreamsAreChannels
<1> QED
  BY <1>6, <1>7, <1>8, <1>10 DEF Conv!ConvIInv

LEMMA ConvStartStreams == ASSUME Conv!ConstantsAssumption, Conv!ConvIInv, Conv!StartStreams PROVE Conv!ConvIInv'
<1> DEFINE tasks == Conv!NonEmpty(Conv!ChannelTasks(shape, Conv!ChannelWorkers(shape)))
<1>1. /\ phase = "gather" /\ row = Conv!OH(shape) /\ todo' = tasks /\ phase' = "stream"
      /\ claims' = [t \in tasks \cup DOMAIN claims |-> IF t \in DOMAIN claims THEN claims[t] ELSE {}]
      /\ shape' = shape /\ image' = image /\ task' = task /\ row' = row /\ slab' = slab
  BY DEF Conv!StartStreams
<1>2. Conv!SharedGather(shape) /\ task \in DOMAIN claims /\ task = Conv!WholeImage(shape) /\ shape \in Shapes
  BY <1>1 DEF Conv!ConvIInv, Conv!ConvTypeOK, Conv!SlabHoldsTheTiles
<1>3. DOMAIN claims' = tasks \cup DOMAIN claims /\ tasks \subseteq Conv!Tasks(shape)
  BY <1>1, <1>2 DEF Conv!Tasks
<1> HIDE DEF tasks
<1>4. Conv!ConvTypeOK'
  BY <1>1 DEF Conv!ConvIInv, Conv!ConvTypeOK
<1>5. Conv!TasksAreTheirs'
  BY <1>1, <1>2, <1>3 DEF Conv!ConvIInv, Conv!TasksAreTheirs
<1>6. Conv!SlabHoldsTheTiles' /\ Conv!StreamsAreChannels'
  BY <1>1, <1>2, <1>3 DEF Conv!ConvIInv, Conv!SlabHoldsTheTiles, Conv!StreamsAreChannels, tasks
<1>7. Conv!ClaimedImage' = Conv!ClaimedImage
  BY <1>1 DEF Conv!ClaimedImage
<1>8. \A t \in DOMAIN claims' : claims'[t] \subseteq AddressesOf(shape, Conv!ClaimedImage, t)
  BY <1>1 DEF Conv!ConvIInv, Conv!ClaimsStayInTheirShare, AddressesOf
<1>9. Conv!ClaimsStayInTheirShare'
  BY <1>1, <1>7, <1>8 DEF Conv!ClaimsStayInTheirShare, AddressesOf
<1> QED
  BY <1>4, <1>5, <1>6, <1>9 DEF Conv!ConvIInv

LEMMA ConvStream == ASSUME Conv!ConstantsAssumption, Conv!ConvIInv, Conv!Stream PROVE Conv!ConvIInv'
<1>1. PICK t \in todo : Conv!Store(t, Conv!StreamWrites(t)) /\ todo' = todo \ {t}
  BY DEF Conv!Stream
<1>2. /\ phase = "stream" /\ shape' = shape /\ image' = image /\ phase' = phase /\ task' = task
      /\ row' = row /\ slab' = slab
  BY DEF Conv!Stream
<1>3. /\ shape \in Shapes /\ Conv!SharedGather(shape) /\ task = Conv!WholeImage(shape) /\ task \in DOMAIN claims
      /\ \A oy \in Conv!Size(Conv!OH(shape)) : \A g \in slab[oy] : g.tile \in Conv!SharedTiles(shape).tiles
      /\ t \in DOMAIN claims /\ t \in Conv!Tasks(shape)
  BY <1>2 DEF Conv!ConvIInv, Conv!ConvTypeOK, Conv!SlabHoldsTheTiles, Conv!TasksAreTheirs
<1>4. Conv!ClaimedImage = image /\ Conv!ClaimedImage' = Conv!ClaimedImage
  BY <1>2 DEF Conv!ClaimedImage
<1>5. t \in Conv!NonEmpty(Conv!ChannelTasks(shape, Conv!ChannelWorkers(shape)))
  BY <1>2, <1>3 DEF Conv!ConvIInv, Conv!StreamsAreChannels
<1>6. WritesIn(Conv!StreamWrites(t), shape, image, t)
  <2> SUFFICES ASSUME NEW v \in Conv!StreamWrites(t) PROVE v.at \in AddressesOf(shape, image, t)
    BY DEF WritesIn
  <2>1. PICK oy \in Conv!Size(Conv!OH(shape)), mo \in Conv!GroupsOf(t.lo, t.hi) :
          /\ mo + MR <= shape.oc
          /\ v \in UNION {Conv!TileWrites(shape, image, oy, g.tile, mo, mo + 1, g.px) : g \in slab[oy]}
    BY DEF Conv!StreamWrites
  <2>2. PICK g \in slab[oy] : v \in Conv!TileWrites(shape, image, oy, g.tile, mo, mo + 1, g.px)
    BY <2>1
  <2>3. g.tile \in Conv!SharedTiles(shape).tiles
    BY <1>3
  <2>4. WritesIn(Conv!TileWrites(shape, image, oy, g.tile, mo, mo + 1, g.px), shape, image, t)
    BY <1>3, <1>5, <2>1, <2>3, StreamInShare
  <2> QED
    BY <2>2, <2>4 DEF WritesIn
<1>7. Conv!ClaimsStayInTheirShare' /\ DOMAIN claims' = DOMAIN claims
  BY <1>1, <1>2, <1>3, <1>4, <1>6, StoreKeeps DEF Conv!ConvIInv
<1>8. Conv!ConvTypeOK'
  BY <1>2 DEF Conv!ConvIInv, Conv!ConvTypeOK
<1>9. Conv!TasksAreTheirs'
  BY <1>1, <1>2, <1>7 DEF Conv!ConvIInv, Conv!TasksAreTheirs
<1>10. Conv!SlabHoldsTheTiles'
  BY <1>1, <1>2, <1>7 DEF Conv!ConvIInv, Conv!SlabHoldsTheTiles
<1>11. Conv!StreamsAreChannels'
  BY <1>1, <1>2 DEF Conv!ConvIInv, Conv!StreamsAreChannels
<1> QED
  BY <1>7, <1>8, <1>9, <1>10, <1>11 DEF Conv!ConvIInv

LEMMA ConvLeftoverChannels == ASSUME Conv!ConstantsAssumption, Conv!ConvIInv, Conv!LeftoverChannels PROVE Conv!ConvIInv'
<1>1. /\ phase = "stream" /\ todo = {} /\ Conv!Store(task, Conv!LeftoverWrites)
      /\ task' = Conv!NoTask /\ image' = image + 1 /\ phase' = "dispatch"
      /\ shape' = shape /\ todo' = todo /\ row' = row /\ slab' = slab
  BY DEF Conv!LeftoverChannels
<1>2. /\ shape \in Shapes /\ Conv!SharedGather(shape) /\ task = Conv!WholeImage(shape) /\ task \in DOMAIN claims
      /\ \A oy \in Conv!Size(Conv!OH(shape)) : \A g \in slab[oy] : g.tile \in Conv!SharedTiles(shape).tiles
  BY <1>1 DEF Conv!ConvIInv, Conv!ConvTypeOK, Conv!SlabHoldsTheTiles
<1>3. image \in 0 .. shape.n /\ image # shape.n /\ shape.n \in Nat /\ image + 1 # 0 /\ image \in Int
      /\ image + 1 - 1 = image
  BY <1>1, <1>2, ShapeIs DEF Conv!ConvIInv, Conv!ConvTypeOK
<1>4. Conv!ClaimedImage = image /\ Conv!ClaimedImage' = Conv!ClaimedImage
  BY <1>1, <1>3 DEF Conv!ClaimedImage
<1>5. WritesIn(Conv!LeftoverWrites, shape, image, task)
  <2> SUFFICES ASSUME NEW v \in Conv!LeftoverWrites PROVE v.at \in AddressesOf(shape, image, task)
    BY DEF WritesIn
  <2> DEFINE px(oy) == [ix \in Conv!Size(Conv!OW(shape)) |-> Conv!GatherS1(shape, ring, oy, ix)]
  <2> HIDE DEF px
  <2>1. PICK oy \in Conv!Size(Conv!OH(shape)) :
          v \in UNION {Conv!TileWrites(shape, image, oy, g.tile, Conv!FullChannels(shape), shape.oc, px(oy)) : g \in slab[oy]}
    BY DEF Conv!LeftoverWrites, Conv!FullChannels, px
  <2>2. PICK g \in slab[oy] : v \in Conv!TileWrites(shape, image, oy, g.tile, Conv!FullChannels(shape), shape.oc, px(oy))
    BY <2>1
  <2>3. g.tile \in Conv!SharedTiles(shape).tiles
    BY <1>2
  <2>4. WritesIn(Conv!TileWrites(shape, image, oy, g.tile, Conv!FullChannels(shape), shape.oc, px(oy)), shape, image, task)
    BY <1>2, <2>3, LeftoverInShare
  <2> QED
    BY <2>2, <2>4 DEF WritesIn
<1>6. Conv!ClaimsStayInTheirShare' /\ DOMAIN claims' = DOMAIN claims
  BY <1>1, <1>2, <1>4, <1>5, StoreKeeps DEF Conv!ConvIInv
<1>7. Conv!ConvTypeOK'
  BY <1>1, <1>3 DEF Conv!ConvIInv, Conv!ConvTypeOK
<1>8. Conv!TasksAreTheirs'
  BY <1>1, <1>3, <1>6 DEF Conv!ConvIInv, Conv!TasksAreTheirs
<1>9. Conv!SlabHoldsTheTiles'
  BY <1>1 DEF Conv!ConvIInv, Conv!SlabHoldsTheTiles
<1>10. Conv!StreamsAreChannels'
  BY <1>1 DEF Conv!StreamsAreChannels
<1> QED
  BY <1>6, <1>7, <1>8, <1>9, <1>10 DEF Conv!ConvIInv

LEMMA ConvNext == Conv!ConstantsAssumption /\ Conv!ConvIInv /\ [Conv!Next]_convVars => Conv!ConvIInv'
<1> SUFFICES ASSUME Conv!ConstantsAssumption, Conv!ConvIInv, [Conv!Next]_convVars PROVE Conv!ConvIInv'
  OBVIOUS
<1>1. CASE UNCHANGED convVars
  <2>1. Conv!ClaimedImage' = Conv!ClaimedImage
    BY <1>1 DEF convVars, Conv!ClaimedImage
  <2> QED
    BY <1>1, <2>1
       DEF convVars, Conv!ConvIInv, Conv!ConvTypeOK, Conv!TasksAreTheirs, Conv!SlabHoldsTheTiles, Conv!StreamsAreChannels, Conv!ClaimsStayInTheirShare
<1>2. CASE Conv!Dispatch \/ Conv!TakeTask \/ Conv!EndTask
  BY <1>2, ConvDispatch, ConvTakeTask, ConvEndTask
<1>3. CASE Conv!S1Row \/ Conv!S2Row \/ Conv!DirectRow
  BY <1>3, ConvS1Row, ConvS2Row, ConvDirectRow
<1>4. CASE Conv!GatherRow \/ Conv!StartStreams \/ Conv!Stream \/ Conv!LeftoverChannels
  BY <1>4, ConvGatherRow, ConvStartStreams, ConvStream, ConvLeftoverChannels
<1> QED
  BY <1>1, <1>2, <1>3, <1>4 DEF Conv!Next

LEMMA ConvSafe ==
  ASSUME Conv!ConstantsAssumption, Conv!ConvIInv
  PROVE  Conv!TasksAreDisjoint /\ Conv!WritesAreInside
<1>1. shape \in Shapes /\ shape.oc \in Nat /\ shape.n \in Nat /\ Conv!OH(shape) \in Nat /\ Conv!OW(shape) \in Nat
      /\ image \in 0 .. shape.n
  BY ShapeIs DEF Conv!ConvIInv, Conv!ConvTypeOK
<1>2. Conv!ClaimedImage \in Int
  BY <1>1 DEF Conv!ClaimedImage
<1>3. \A t \in DOMAIN claims : t \in Conv!Tasks(shape) /\ claims[t] \subseteq AddressesOf(shape, Conv!ClaimedImage, t)
  BY DEF Conv!ConvIInv, Conv!TasksAreTheirs, Conv!ClaimsStayInTheirShare, AddressesOf
<1>4. \A t : Conv!Share(shape, t) \subseteq Conv!Outputs(shape)
  BY DEF Conv!Share
<1>5. ASSUME NEW t \in DOMAIN claims, NEW u \in DOMAIN claims, t # u, NEW a \in claims[t], a \in claims[u] PROVE FALSE
  <2>1. PICK o \in Conv!Share(shape, t) : a = Conv!Address(shape, Conv!ClaimedImage, o[1], o[2], o[3])
    BY <1>3 DEF AddressesOf
  <2>2. PICK p \in Conv!Share(shape, u) : a = Conv!Address(shape, Conv!ClaimedImage, p[1], p[2], p[3])
    BY <1>3, <1>5 DEF AddressesOf
  <2>3. o \in Conv!Outputs(shape) /\ p \in Conv!Outputs(shape)
    BY <1>4
  <2>4. o = p
    BY <1>1, <1>2, <2>1, <2>2, <2>3, AddressTells
  <2>5. Conv!Share(shape, t) \cap Conv!Share(shape, u) = {}
    BY <1>1, <1>3, <1>5, SharesApart
  <2> QED
    BY <2>4, <2>5
<1>6. ASSUME NEW t \in DOMAIN claims, NEW a \in claims[t] PROVE a \in Conv!Addresses(shape)
  <2>1. Conv!ClaimedImage \in 0 .. shape.n - 1
    <3>1. image = 0 /\ phase \in {"dispatch", "done"} => FALSE
      BY DEF Conv!ConvIInv, Conv!TasksAreTheirs
    <3>2. image = shape.n => phase \in {"dispatch", "done"}
      BY DEF Conv!ConvIInv, Conv!ConvTypeOK
    <3> QED
      BY <1>1, <3>1, <3>2 DEF Conv!ClaimedImage
  <2>2. PICK o \in Conv!Share(shape, t) : a = Conv!Address(shape, Conv!ClaimedImage, o[1], o[2], o[3])
    BY <1>3 DEF AddressesOf
  <2> QED
    BY <1>1, <1>4, <2>1, <2>2, AddressInside
<1>7. Conv!TasksAreDisjoint
  BY <1>5 DEF Conv!TasksAreDisjoint
<1>8. Conv!WritesAreInside
  BY <1>6 DEF Conv!WritesAreInside
<1> QED
  BY <1>7, <1>8

(* In every behaviour of the integer convolution, for every layer that fits *)
(* its input and any number of threads, two tasks of one dispatch never     *)
(* write the same address, and none writes past the end of the output       *)
(* (conv_i8/s1.rs, s2.rs, conv.rs, pointwise.rs).                           *)
THEOREM WritesAreDisjointHolds == MCSpec => []WritesAreDisjoint
<1> DEFINE I == part = "conv" => Conv!ConvIInv
<1>1. MCInit => I
  BY ConvInit, KernelAssumptions DEF MCInit
<1>2. I /\ [MCNext]_<<part, case, convVars, resnetVars, powersetVars, vars, filterVars>> => I'
  <2> SUFFICES ASSUME I, [MCNext]_<<part, case, convVars, resnetVars, powersetVars, vars, filterVars>>,
                      part' = "conv"
               PROVE  Conv!ConvIInv'
    OBVIOUS
  <2>1. part = "conv" /\ [Conv!Next]_convVars
    BY DEF MCNext
  <2> QED
    BY <2>1, ConvNext, KernelAssumptions
<1>3. I => WritesAreDisjoint
  BY ConvSafe, KernelAssumptions DEF WritesAreDisjoint
<1> QED
  BY <1>1, <1>2, <1>3, PTL DEF MCSpec

-----------------------------------------------------------------------------
(* The shared buffers of the segmentation network. *)

(* There is one quotient and one remainder by the seven steps of a direction. *)
LEMMA BySeven ==
  ASSUME NEW a \in Nat, NEW m \in Nat, NEW k \in 0 .. 6, a = 7 * m + k
  PROVE  a \div 7 = m /\ a % 7 = k
OBVIOUS

(* A place among the steps of the layers is a direction and a step of it: the *)
(* next place is the next step, or the first of the next direction.         *)
LEMMA PlaceIs ==
  ASSUME NEW p \in Nat, p >= 6, NEW q, q = (p - 6) \div 7, NEW r, r = (p - 6) % 7
  PROVE  /\ q \in Nat /\ r \in 0 .. 6 /\ p - 6 = (7 * q) + r
         /\ r <= 3 => (p - 3) \div 7 = q
         /\ r # 3 => ((p + 1) - 3) \div 7 = (p - 3) \div 7
         /\ r = 3 => ((p + 1) - 3) \div 7 = q + 1
         /\ r < 6 => ((p + 1) - 6) % 7 = r + 1
         /\ r = 6 => ((p + 1) - 6) % 7 = 0
<1>1. q \in Nat /\ r \in 0 .. 6 /\ p - 6 = (7 * q) + r
  OBVIOUS
<1>2. r <= 3 => p - 3 \in Nat /\ p - 3 = 7 * q + (r + 3) /\ r + 3 \in 0 .. 6
  BY <1>1
<1>3. r > 3 => p - 3 \in Nat /\ p - 3 = 7 * (q + 1) + (r - 4) /\ r - 4 \in 0 .. 6 /\ q + 1 \in Nat
  BY <1>1
<1>4. r < 6 => (p + 1) - 6 \in Nat /\ (p + 1) - 6 = 7 * q + (r + 1) /\ r + 1 \in 0 .. 6
  BY <1>1
<1>5. r = 6 => (p + 1) - 6 \in Nat /\ (p + 1) - 6 = 7 * (q + 1) + 0 /\ q + 1 \in Nat
  BY <1>1
<1>6. r < 3 => (p + 1) - 3 \in Nat /\ (p + 1) - 3 = 7 * q + (r + 4) /\ r + 4 \in 0 .. 6
  BY <1>1
<1>7. r >= 3 => (p + 1) - 3 \in Nat /\ (p + 1) - 3 = 7 * (q + 1) + (r - 3) /\ r - 3 \in 0 .. 6 /\ q + 1 \in Nat
  BY <1>1
<1>8. r <= 3 => (p - 3) \div 7 = q
  BY <1>1, <1>2, BySeven
<1>9. r > 3 => (p - 3) \div 7 = q + 1
  BY <1>1, <1>3, BySeven
<1>10. /\ r < 3 => ((p + 1) - 3) \div 7 = q
       /\ r >= 3 => ((p + 1) - 3) \div 7 = q + 1
  BY <1>1, <1>6, <1>7, BySeven
<1>11. /\ r < 6 => ((p + 1) - 6) % 7 = r + 1
       /\ r = 6 => ((p + 1) - 6) % 7 = 0
  BY <1>1, <1>4, <1>5, BySeven
<1>12. (r < 3 \/ r >= 3) /\ (r <= 3 \/ r > 3) /\ (r # 3 => r < 3 \/ r > 3) /\ (r > 3 => r >= 3) /\ (r < 3 => r <= 3)
  BY <1>1
<1>13. r # 3 => ((p + 1) - 3) \div 7 = (p - 3) \div 7
  BY <1>8, <1>9, <1>10, <1>12
<1>14. r = 3 => ((p + 1) - 3) \div 7 = q + 1
  BY <1>10, <1>12
<1> QED
  BY <1>1, <1>8, <1>11, <1>13, <1>14

(* Directions are dealt two to a layer. *)
LEMMA LayerOf ==
  ASSUME NEW q \in Nat
  PROVE  /\ q \div 2 \in Nat /\ q % 2 \in {0, 1} /\ q = 2 * (q \div 2) + (q % 2)
         /\ q % 2 = 0 => (q + 1) \div 2 = q \div 2 /\ (q + 1) % 2 = 1
         /\ q % 2 = 1 => (q + 1) \div 2 = (q \div 2) + 1 /\ (q + 1) % 2 = 0
<1>1. q \div 2 \in Nat /\ q % 2 \in {0, 1} /\ q = 2 * (q \div 2) + (q % 2)
  OBVIOUS
<1> QED
  BY <1>1

(* A layer reads one buffer and writes another, and its output is the input of *)
(* the one after it.                                                        *)
LEMMA BuffersAlternate ==
  ASSUME NEW layer \in Nat \ {0}
  PROVE  /\ Powerset!Output(layer) \in {"lstm_a", "lstm_b"}
         /\ Powerset!Input(layer) \in {"seq", "lstm_a", "lstm_b"}
         /\ Powerset!Input(layer) # Powerset!Output(layer)
         /\ Powerset!Input(layer + 1) = Powerset!Output(layer)
<1>1. /\ layer % 2 = 1 => (layer - 1) % 2 # 1
      /\ layer % 2 # 1 => (layer - 1) % 2 = 1
      /\ layer + 1 # 1 /\ layer + 1 - 1 = layer
  OBVIOUS
<1> QED
  BY <1>1 DEF Powerset!Output, Powerset!Input

(* What the step at a place does. *)
LEMMA ScriptIs ==
  ASSUME Powerset!PowersetAssumption, NEW p \in 1 .. Powerset!LayersEnd + 5
  PROVE  /\ p = 1 => Powerset!Script(p) = Powerset!Act("take", "seq")
         /\ p = 2 => Powerset!Script(p) = Powerset!Act("take", "lstm_a")
         /\ p = 3 => Powerset!Script(p) = Powerset!Act("take", "lstm_b")
         /\ p = 4 => Powerset!Script(p) = Powerset!Act("take", "ntf")
         /\ p = 5 => Powerset!Script(p) = Powerset!Act("fill", "seq")
         /\ p = Powerset!LayersEnd + 1 => Powerset!Script(p) = Powerset!Act("copy", "ntf")
         /\ p > Powerset!LayersEnd + 1 => Powerset!Script(p).op = "put"
<1>1. Powerset!LayersEnd \in Nat /\ Powerset!LayersEnd >= 19
  BY DEF Powerset!PowersetAssumption, Powerset!LayersEnd
<1> HIDE DEF Powerset!LayersEnd
<1>2. CASE p <= 5
  <2>1. Powerset!Script(p) = Powerset!Before[p]
    BY <1>1, <1>2 DEF Powerset!Script
  <2> QED
    BY <1>1, <1>2, <2>1 DEF Powerset!Before
<1>3. CASE p > Powerset!LayersEnd
  <2>1. Powerset!Script(p) = Powerset!After[p - Powerset!LayersEnd]
    BY <1>1, <1>3 DEF Powerset!Script
  <2>2. p - Powerset!LayersEnd \in 1 .. 5
    BY <1>1, <1>3
  <2>3. Powerset!After[1] = Powerset!Act("copy", "ntf") /\ \A i \in 2 .. 5 : Powerset!After[i].op = "put"
    BY DEF Powerset!After, Powerset!Act
  <2>4. p = Powerset!LayersEnd + 1 => p - Powerset!LayersEnd = 1
    BY <1>1
  <2>5. p > Powerset!LayersEnd + 1 => p - Powerset!LayersEnd \in 2 .. 5
    BY <1>1, <2>2
  <2> QED
    BY <1>1, <1>3, <2>1, <2>3, <2>4, <2>5
<1>4. CASE p > 5 /\ p <= Powerset!LayersEnd
  BY <1>1, <1>4
<1> QED
  BY <1>1, <1>2, <1>3, <1>4

(* And what the seven steps of a direction do. *)
LEMMA DirectionIs ==
  ASSUME Powerset!PowersetAssumption, NEW p \in 6 .. Powerset!LayersEnd,
         NEW q, q = (p - 6) \div 7, NEW r, r = (p - 6) % 7
  PROVE  /\ q \in Nat /\ r \in 0 .. 6
         /\ r = 0 => Powerset!Script(p) = Powerset!Act("take", "xw")
         /\ r = 1 => Powerset!Script(p) = Powerset!Act("take", "ht")
         /\ r = 2 => Powerset!Script(p) = Powerset!Act("take", "ct")
         /\ r = 3 => Powerset!Script(p) = [op |-> "run", name |-> Powerset!Output(q \div 2 + 1),
                                           layer |-> q \div 2 + 1, dir |-> q % 2]
         /\ r > 3 => Powerset!Script(p).op = "put" /\ Powerset!Script(p).name \in {"xw", "ht", "ct"}
<1>1. Powerset!LayersEnd \in Nat /\ p \in Nat /\ p >= 6
  BY DEF Powerset!PowersetAssumption, Powerset!LayersEnd
<1>2. q \in Nat /\ r \in 0 .. 6
  BY <1>1, PlaceIs
<1>3. 1 + q \div 2 = q \div 2 + 1
  BY <1>2, LayerOf
<1>4. Powerset!Script(p) = Powerset!DirectionScript(q \div 2 + 1, q % 2)[r + 1]
  BY <1>1, <1>3 DEF Powerset!Script
<1> DEFINE l == q \div 2 + 1
           c == q % 2
<1>5. /\ r = 0 => r + 1 = 1
      /\ r = 1 => r + 1 = 2
      /\ r = 2 => r + 1 = 3
      /\ r = 3 => r + 1 = 4
      /\ r > 3 => r + 1 \in {5, 6, 7}
  BY <1>2
<1>6. Powerset!Script(p) = Powerset!DirectionScript(l, c)[r + 1]
  BY <1>4
<1> HIDE DEF l, c
<1>7. /\ Powerset!DirectionScript(l, c)[1] = Powerset!Act("take", "xw")
      /\ Powerset!DirectionScript(l, c)[2] = Powerset!Act("take", "ht")
      /\ Powerset!DirectionScript(l, c)[3] = Powerset!Act("take", "ct")
      /\ Powerset!DirectionScript(l, c)[4] = [op |-> "run", name |-> Powerset!Output(l), layer |-> l, dir |-> c]
      /\ Powerset!DirectionScript(l, c)[5] = Powerset!Act("put", "xw")
      /\ Powerset!DirectionScript(l, c)[6] = Powerset!Act("put", "ht")
      /\ Powerset!DirectionScript(l, c)[7] = Powerset!Act("put", "ct")
  BY DEF Powerset!DirectionScript
<1>8. r > 3 => Powerset!Script(p) \in {Powerset!Act("put", "xw"), Powerset!Act("put", "ht"), Powerset!Act("put", "ct")}
  BY <1>5, <1>6, <1>7
<1>9. r > 3 => Powerset!Script(p).op = "put" /\ Powerset!Script(p).name \in {"xw", "ht", "ct"}
  BY <1>8 DEF Powerset!Act
<1> QED
  BY <1>2, <1>5, <1>6, <1>7, <1>9 DEF l, c

(* The invariant holds before the first forward. *)
LEMMA PowersetInit == ASSUME Powerset!PowersetAssumption, Powerset!Init PROVE Powerset!PowersetIInv
<1>1. Powerset!PoolIsCleared
  BY DEF Powerset!Init, Powerset!PoolIsCleared, Powerset!PowersetAssumption
<1>2. Powerset!LayersEnd \in Nat
  BY DEF Powerset!PowersetAssumption, Powerset!LayersEnd
<1>3. Powerset!PowersetTypeOK
  BY <1>2 DEF Powerset!Init, Powerset!PowersetTypeOK
<1>4. \A t \in Threads : sPc[t] = 0
  BY DEF Powerset!Init
<1>5. \A t \in Threads : Powerset!HoldsItsRows(t) /\ Powerset!DirectionStartsClean(t) /\ Powerset!LayersAreWhole(t)
  BY <1>2, <1>4 DEF Powerset!HoldsItsRows, Powerset!DirectionStartsClean, Powerset!LayersAreWhole
<1> QED
  BY <1>1, <1>3, <1>5 DEF Powerset!PowersetIInv

(* The pool gives up its last buffer, which is empty, so that what is taken   *)
(* is zero; and what is put back is emptied first.                          *)
LEMMA TakenIsZero ==
  ASSUME Powerset!PowersetAssumption, Powerset!PoolIsCleared, NEW t \in Threads, NEW name, Powerset!TakeF32(t, name)
  PROVE  /\ Powerset!PoolIsCleared'
         /\ held' = [held EXCEPT ![t] = [z \in {name} \cup DOMAIN held[t] |->
                                           IF z = name THEN Powerset!Zeros ELSE held[t][z]]]
<1> DEFINE buffer == IF free = <<>> THEN Powerset!Cleared ELSE free[Len(free)]
<1>1. buffer = Powerset!Cleared
  BY DEF Powerset!PoolIsCleared
<1>2. Powerset!Grown(buffer) = Powerset!Zeros
  BY <1>1 DEF Powerset!Grown
<1>3. /\ held' = [held EXCEPT ![t] = [z \in {name} \cup DOMAIN held[t] |->
                                        IF z = name THEN Powerset!Grown(buffer) ELSE held[t][z]]]
      /\ free' = IF free = <<>> THEN free ELSE SubSeq(free, 1, Len(free) - 1)
  BY DEF Powerset!TakeF32
<1>4. free' \in Seq({Powerset!Cleared}) /\ Len(free') <= POOL_SLOTS
  <2>1. CASE free = <<>>
    BY <1>3, <2>1 DEF Powerset!PoolIsCleared
  <2>2. CASE free # <<>>
    <3>1. Len(free) \in Nat /\ Len(free) >= 1
      BY <2>2 DEF Powerset!PoolIsCleared
    <3> QED
      BY <1>3, <2>2, <3>1 DEF Powerset!PoolIsCleared, Powerset!PowersetAssumption
  <2> QED
    BY <2>1, <2>2
<1> QED
  BY <1>2, <1>3, <1>4 DEF Powerset!PoolIsCleared

LEMMA PutIsCleared ==
  ASSUME Powerset!PowersetAssumption, Powerset!PoolIsCleared, NEW t \in Threads, NEW name, Powerset!PutF32(t, name)
  PROVE  /\ Powerset!PoolIsCleared'
         /\ held' = [held EXCEPT ![t] = [z \in DOMAIN held[t] \ {name} |-> held[t][z]]]
<1>1. free' = IF Len(free) < POOL_SLOTS THEN Append(free, Powerset!Cleared) ELSE free
  BY DEF Powerset!PutF32, Powerset!Put
<1>2. free' \in Seq({Powerset!Cleared}) /\ Len(free') <= POOL_SLOTS
  BY <1>1 DEF Powerset!PoolIsCleared, Powerset!PowersetAssumption
<1>3. held' = [held EXCEPT ![t] = [z \in DOMAIN held[t] \ {name} |-> held[t][z]]]
  BY DEF Powerset!PutF32
<1> QED
  BY <1>2, <1>3 DEF Powerset!PoolIsCleared

(* The forwards of the other threads keep their buffers. *)
LEMMA OthersKeep ==
  ASSUME Powerset!PowersetIInv, NEW t \in Threads, NEW u \in Threads, sPc'[u] = sPc[u], held'[u] = held[u]
  PROVE  Powerset!HoldsItsRows(u)' /\ Powerset!DirectionStartsClean(u)' /\ Powerset!LayersAreWhole(u)'
BY DEF Powerset!PowersetIInv, Powerset!HoldsItsRows, Powerset!DirectionStartsClean, Powerset!LayersAreWhole, Powerset!HoldsZeros

OwnFacts(t) == Powerset!HoldsItsRows(t) /\ Powerset!DirectionStartsClean(t) /\ Powerset!LayersAreWhole(t)

(* A step moves its thread to the next place, or back to the start. *)
LEMMA StepMoves ==
  ASSUME Powerset!PowersetAssumption, Powerset!PowersetIInv, NEW t \in Threads, Powerset!Step(t)
  PROVE  /\ Powerset!LayersEnd \in Nat /\ Powerset!LayersEnd >= 19
         /\ sPc[t] \in 1 .. Powerset!LayersEnd + 5
         /\ sPc' \in [Threads -> 0 .. Powerset!LayersEnd + 5]
         /\ sPc'[t] = IF sPc[t] = Powerset!LayersEnd + 5 THEN 0 ELSE sPc[t] + 1
         /\ \A u \in Threads \ {t} : sPc'[u] = sPc[u]
<1>1. Powerset!LayersEnd \in Nat /\ Powerset!LayersEnd >= 19
  BY DEF Powerset!PowersetAssumption, Powerset!LayersEnd
<1>2. sPc \in [Threads -> 0 .. Powerset!LayersEnd + 5]
  BY DEF Powerset!PowersetIInv, Powerset!PowersetTypeOK
<1>3. sPc[t] > 0 /\ sPc' = [sPc EXCEPT ![t] = IF sPc[t] = Powerset!LayersEnd + 5 THEN 0 ELSE sPc[t] + 1]
  BY DEF Powerset!Step
<1> HIDE DEF Powerset!LayersEnd
<1> QED
  BY <1>1, <1>2, <1>3

(* What is left to show of a step: what it does to its own thread's buffers. *)
LEMMA StepKeeps ==
  ASSUME Powerset!PowersetAssumption, Powerset!PowersetIInv, NEW t \in Threads, Powerset!Step(t),
         Powerset!PoolIsCleared', done' \in [Threads -> {<<"nothing">>, Powerset!Complete(LAYERS)}],
         NEW h, held' = [held EXCEPT ![t] = h], OwnFacts(t)'
  PROVE  Powerset!PowersetIInv'
<1>1. DOMAIN held' = Threads /\ \A u \in Threads \ {t} : held'[u] = held[u]
  BY DEF Powerset!PowersetIInv, Powerset!PowersetTypeOK
<1>2. Powerset!PowersetTypeOK'
  BY <1>1, StepMoves DEF Powerset!PowersetTypeOK
<1>3. ASSUME NEW u \in Threads, u # t PROVE OwnFacts(u)'
  BY <1>1, <1>3, StepMoves, OthersKeep DEF OwnFacts
<1> QED
  BY <1>2, <1>3 DEF Powerset!PowersetIInv, OwnFacts

(* The first four steps take the buffers that live as long as the forward, and *)
(* the fifth fills the first of them with what the convolutions left.       *)
LEMMA ForwardTakes ==
  ASSUME Powerset!PowersetAssumption, Powerset!PowersetIInv, NEW t \in Threads, Powerset!Step(t), sPc[t] <= 4
  PROVE  Powerset!PowersetIInv'
<1>1. /\ Powerset!LayersEnd \in Nat /\ Powerset!LayersEnd >= 19
      /\ sPc[t] \in 1 .. 4 /\ sPc'[t] = sPc[t] + 1
  BY StepMoves
<1> DEFINE a == Powerset!Script(sPc[t])
<1>2. /\ a.op = "take"
      /\ sPc[t] = 1 => a.name = "seq"
      /\ sPc[t] = 2 => a.name = "lstm_a"
      /\ sPc[t] = 3 => a.name = "lstm_b"
  BY <1>1, ScriptIs DEF Powerset!Act
<1>3. Powerset!TakeF32(t, a.name) /\ done' = done
  BY <1>2 DEF Powerset!Step
<1> DEFINE h == [z \in {a.name} \cup DOMAIN held[t] |-> IF z = a.name THEN Powerset!Zeros ELSE held[t][z]]
<1>4. Powerset!PoolIsCleared' /\ held' = [held EXCEPT ![t] = h]
  BY <1>3, TakenIsZero DEF Powerset!PowersetIInv
<1>5. DOMAIN held = Threads /\ Powerset!HoldsItsRows(t) /\ done \in [Threads -> {<<"nothing">>, Powerset!Complete(LAYERS)}]
  BY DEF Powerset!PowersetIInv, Powerset!PowersetTypeOK
<1>6. held'[t] = h /\ DOMAIN h = {a.name} \cup DOMAIN held[t]
  BY <1>4, <1>5
<1>7. Powerset!HoldsItsRows(t)'
  BY <1>1, <1>2, <1>5, <1>6 DEF Powerset!HoldsItsRows
<1>8. Powerset!DirectionStartsClean(t)' /\ Powerset!LayersAreWhole(t)'
  BY <1>1 DEF Powerset!DirectionStartsClean, Powerset!LayersAreWhole
<1> HIDE DEF h
<1> QED
  BY <1>3, <1>4, <1>5, <1>7, <1>8, StepKeeps DEF OwnFacts

LEMMA ForwardFills ==
  ASSUME Powerset!PowersetAssumption, Powerset!PowersetIInv, NEW t \in Threads, Powerset!Step(t), sPc[t] = 5
  PROVE  Powerset!PowersetIInv'
<1>1. /\ Powerset!LayersEnd \in Nat /\ Powerset!LayersEnd >= 19
      /\ sPc'[t] = 6
  BY StepMoves
<1>2. Powerset!Script(sPc[t]).op = "fill"
  BY <1>1, ScriptIs DEF Powerset!Act
<1> DEFINE h == [held[t] EXCEPT !["seq"] = Powerset!Complete(0)]
<1>3. held' = [held EXCEPT ![t] = h] /\ free' = free /\ done' = done
  BY <1>2 DEF Powerset!Step, Powerset!Holds
<1>4. /\ DOMAIN held = Threads /\ Powerset!HoldsItsRows(t) /\ Powerset!PoolIsCleared
      /\ done \in [Threads -> {<<"nothing">>, Powerset!Complete(LAYERS)}]
  BY DEF Powerset!PowersetIInv, Powerset!PowersetTypeOK
<1>5. "seq" \in DOMAIN held[t]
  BY <1>1, <1>4 DEF Powerset!HoldsItsRows
<1>6. held'[t] = h /\ DOMAIN h = DOMAIN held[t] /\ h["seq"] = Powerset!Complete(0)
  BY <1>3, <1>4, <1>5
<1>7. Powerset!HoldsItsRows(t)'
  BY <1>1, <1>4, <1>6 DEF Powerset!HoldsItsRows
<1>8. Powerset!DirectionStartsClean(t)'
  BY <1>1 DEF Powerset!DirectionStartsClean
<1>9. Powerset!LayersAreWhole(t)'
  <2>1. (6 - 3) \div 7 = 0 /\ 0 \div 2 + 1 = 1 /\ 0 % 2 = 0 /\ Powerset!Input(1) = "seq" /\ 1 - 1 = 0
    BY DEF Powerset!Input
  <2> QED
    BY <1>1, <1>6, <2>1 DEF Powerset!LayersAreWhole
<1>10. Powerset!PoolIsCleared'
  BY <1>3, <1>4 DEF Powerset!PoolIsCleared
<1> HIDE DEF h
<1> QED
  BY <1>3, <1>4, <1>7, <1>8, <1>9, <1>10, StepKeeps DEF OwnFacts

(* A direction takes its three buffers, runs, and puts them back: the rows are *)
(* not touched but by the run.                                              *)
LEMMA RowsStay ==
  ASSUME Powerset!PowersetAssumption, Powerset!PowersetIInv, NEW t \in Threads, Powerset!Step(t),
         sPc[t] \in 6 .. Powerset!LayersEnd, (sPc[t] - 6) % 7 # 3,
         \A z \in {"seq", "lstm_a", "lstm_b"} \cap DOMAIN held[t] : z \in DOMAIN held'[t] /\ held'[t][z] = held[t][z]
  PROVE  Powerset!HoldsItsRows(t)' /\ Powerset!LayersAreWhole(t)'
<1>1. /\ Powerset!LayersEnd \in Nat /\ Powerset!LayersEnd >= 19
      /\ sPc[t] \in Nat /\ sPc[t] >= 6 /\ sPc'[t] = sPc[t] + 1
  BY StepMoves
<1>2. Powerset!HoldsItsRows(t) /\ Powerset!LayersAreWhole(t)
  BY DEF Powerset!PowersetIInv
<1>3. {"seq", "lstm_a", "lstm_b"} \subseteq DOMAIN held[t]
  BY <1>1, <1>2 DEF Powerset!HoldsItsRows
<1>4. \A z \in {"seq", "lstm_a", "lstm_b"} : z \in DOMAIN held'[t] /\ held'[t][z] = held[t][z]
  BY <1>3
<1>5. Powerset!HoldsItsRows(t)'
  BY <1>4 DEF Powerset!HoldsItsRows
<1> DEFINE n == (sPc[t] - 3) \div 7
           layer == n \div 2 + 1
<1>6. (sPc'[t] - 3) \div 7 = n
  BY <1>1, PlaceIs
<1>7. n \in Nat /\ layer \in Nat \ {0}
  BY <1>1
<1>8. /\ held[t][Powerset!Input(layer)] = Powerset!Complete(layer - 1)
      /\ n % 2 = 1 =>
           held[t][Powerset!Output(layer)]
             = Powerset!LayerOutput(layer, {0}, <<Powerset!Complete(layer - 1), Powerset!Zeros, Powerset!Zeros>>)
  BY <1>1, <1>2 DEF Powerset!LayersAreWhole
<1>9. /\ held'[t][Powerset!Input(layer)] = held[t][Powerset!Input(layer)]
      /\ held'[t][Powerset!Output(layer)] = held[t][Powerset!Output(layer)]
  BY <1>4, <1>7, BuffersAlternate
<1>10. Powerset!LayersAreWhole(t)'
  BY <1>6, <1>8, <1>9 DEF Powerset!LayersAreWhole
<1> QED
  BY <1>5, <1>10

LEMMA LayerTakes ==
  ASSUME Powerset!PowersetAssumption, Powerset!PowersetIInv, NEW t \in Threads, Powerset!Step(t),
         sPc[t] \in 6 .. Powerset!LayersEnd, (sPc[t] - 6) % 7 < 3
  PROVE  Powerset!PowersetIInv'
<1>1. /\ Powerset!LayersEnd \in Nat /\ Powerset!LayersEnd >= 19
      /\ sPc[t] \in Nat /\ sPc[t] >= 6 /\ sPc'[t] = sPc[t] + 1
  BY StepMoves
<1> DEFINE r == (sPc[t] - 6) % 7
           a == Powerset!Script(sPc[t])
<1>2. r \in 0 .. 2 /\ (sPc'[t] - 6) % 7 = r + 1
  BY <1>1, PlaceIs
<1>3. /\ a.op = "take" /\ a.name \in {"xw", "ht", "ct"}
      /\ r = 0 => a.name = "xw"
      /\ r = 1 => a.name = "ht"
      /\ r = 2 => a.name = "ct"
  BY <1>2, DirectionIs DEF Powerset!Act
<1>4. Powerset!TakeF32(t, a.name) /\ done' = done
  BY <1>3 DEF Powerset!Step
<1> DEFINE h == [z \in {a.name} \cup DOMAIN held[t] |-> IF z = a.name THEN Powerset!Zeros ELSE held[t][z]]
<1>5. Powerset!PoolIsCleared' /\ held' = [held EXCEPT ![t] = h]
  BY <1>4, TakenIsZero DEF Powerset!PowersetIInv
<1>6. /\ DOMAIN held = Threads /\ Powerset!DirectionStartsClean(t)
      /\ done \in [Threads -> {<<"nothing">>, Powerset!Complete(LAYERS)}]
  BY DEF Powerset!PowersetIInv, Powerset!PowersetTypeOK
<1>7. held'[t] = h /\ DOMAIN h = {a.name} \cup DOMAIN held[t]
  BY <1>5, <1>6
<1>8. \A z \in DOMAIN held[t] : z # a.name => z \in DOMAIN held'[t] /\ held'[t][z] = held[t][z]
  BY <1>7
<1>9. Powerset!HoldsItsRows(t)' /\ Powerset!LayersAreWhole(t)'
  BY <1>2, <1>3, <1>8, RowsStay
<1>10. a.name \in DOMAIN held'[t] /\ held'[t][a.name] = Powerset!Zeros
  BY <1>7
<1>11. Powerset!DirectionStartsClean(t)'
  <2>1. /\ r \in 1 .. 3 => "xw" \in DOMAIN held[t] /\ held[t]["xw"] = Powerset!Zeros
        /\ r \in 2 .. 3 => "ht" \in DOMAIN held[t] /\ held[t]["ht"] = Powerset!Zeros
    BY <1>6 DEF Powerset!DirectionStartsClean, Powerset!HoldsZeros
  <2> HIDE DEF r, a, h
  <2>2. CASE r = 0
    BY <1>2, <1>3, <1>10, <2>2 DEF Powerset!DirectionStartsClean, Powerset!HoldsZeros
  <2>3. CASE r = 1
    BY <1>2, <1>3, <1>8, <1>10, <2>1, <2>3 DEF Powerset!DirectionStartsClean, Powerset!HoldsZeros
  <2>4. CASE r = 2
    BY <1>2, <1>3, <1>8, <1>10, <2>1, <2>4 DEF Powerset!DirectionStartsClean, Powerset!HoldsZeros
  <2> QED
    BY <1>2, <2>2, <2>3, <2>4
<1> HIDE DEF h
<1> QED
  BY <1>4, <1>5, <1>6, <1>9, <1>11, StepKeeps DEF OwnFacts

LEMMA LayerPuts ==
  ASSUME Powerset!PowersetAssumption, Powerset!PowersetIInv, NEW t \in Threads, Powerset!Step(t),
         sPc[t] \in 6 .. Powerset!LayersEnd, (sPc[t] - 6) % 7 > 3
  PROVE  Powerset!PowersetIInv'
<1>1. /\ Powerset!LayersEnd \in Nat /\ Powerset!LayersEnd >= 19
      /\ sPc[t] \in Nat /\ sPc[t] >= 6 /\ sPc'[t] = sPc[t] + 1
  BY StepMoves
<1> DEFINE r == (sPc[t] - 6) % 7
           a == Powerset!Script(sPc[t])
<1>2. r \in 4 .. 6 /\ (r < 6 => (sPc'[t] - 6) % 7 = r + 1) /\ (r = 6 => (sPc'[t] - 6) % 7 = 0)
  BY <1>1, PlaceIs
<1>3. a.op = "put" /\ a.name \in {"xw", "ht", "ct"}
  BY <1>2, DirectionIs
<1>4. Powerset!PutF32(t, a.name) /\ done' = done
  BY <1>3 DEF Powerset!Step
<1> DEFINE h == [z \in DOMAIN held[t] \ {a.name} |-> held[t][z]]
<1>5. Powerset!PoolIsCleared' /\ held' = [held EXCEPT ![t] = h]
  BY <1>4, PutIsCleared DEF Powerset!PowersetIInv
<1>6. DOMAIN held = Threads /\ done \in [Threads -> {<<"nothing">>, Powerset!Complete(LAYERS)}]
  BY DEF Powerset!PowersetIInv, Powerset!PowersetTypeOK
<1>7. held'[t] = h
  BY <1>5, <1>6
<1>8. Powerset!HoldsItsRows(t)' /\ Powerset!LayersAreWhole(t)'
  BY <1>2, <1>3, <1>7, RowsStay
<1>9. (sPc'[t] - 6) % 7 \notin 1 .. 3
  BY <1>2
<1>10. Powerset!DirectionStartsClean(t)'
  BY <1>9 DEF Powerset!DirectionStartsClean
<1> HIDE DEF h
<1> QED
  BY <1>4, <1>5, <1>6, <1>8, <1>10, StepKeeps DEF OwnFacts

(* The run starts from zeros and reads the whole of the layer before; the      *)
(* second direction finds the first one's half, and the layer is complete.  *)
LEMMA LayerRuns ==
  ASSUME Powerset!PowersetAssumption, Powerset!PowersetIInv, NEW t \in Threads, Powerset!Step(t),
         sPc[t] \in 6 .. Powerset!LayersEnd, (sPc[t] - 6) % 7 = 3
  PROVE  Powerset!PowersetIInv'
<1>1. /\ Powerset!LayersEnd \in Nat /\ Powerset!LayersEnd >= 19
      /\ sPc[t] \in Nat /\ sPc[t] >= 6 /\ sPc'[t] = sPc[t] + 1
  BY StepMoves
<1> DEFINE q == (sPc[t] - 6) \div 7
           l == q \div 2 + 1
           a == Powerset!Script(sPc[t])
<1>2. /\ q \in Nat /\ (sPc[t] - 3) \div 7 = q
      /\ (sPc'[t] - 3) \div 7 = q + 1 /\ (sPc'[t] - 6) % 7 = 4
  BY <1>1, PlaceIs
<1>3. a = [op |-> "run", name |-> Powerset!Output(l), layer |-> l, dir |-> q % 2]
  BY DirectionIs
<1>4. /\ DOMAIN held = Threads /\ Powerset!HoldsItsRows(t) /\ Powerset!DirectionStartsClean(t) /\ Powerset!LayersAreWhole(t)
      /\ Powerset!PoolIsCleared /\ done \in [Threads -> {<<"nothing">>, Powerset!Complete(LAYERS)}]
  BY DEF Powerset!PowersetIInv, Powerset!PowersetTypeOK
<1>5. l \in Nat \ {0} /\ l - 1 = q \div 2 /\ l + 1 - 1 = l /\ q % 2 \in {0, 1}
  BY <1>2, LayerOf
<1>6. /\ q % 2 = 0 => (q + 1) \div 2 + 1 = l /\ (q + 1) % 2 = 1
      /\ q % 2 = 1 => (q + 1) \div 2 + 1 = l + 1 /\ (q + 1) % 2 = 0
  BY <1>2, LayerOf
<1>7. held[t]["xw"] = Powerset!Zeros /\ held[t]["ht"] = Powerset!Zeros /\ held[t]["ct"] = Powerset!Zeros
  BY <1>4 DEF Powerset!DirectionStartsClean, Powerset!HoldsZeros
<1>8. /\ held[t][Powerset!Input(l)] = Powerset!Complete(l - 1)
      /\ q % 2 = 1 =>
           held[t][Powerset!Output(l)]
             = Powerset!LayerOutput(l, {0}, <<Powerset!Complete(l - 1), Powerset!Zeros, Powerset!Zeros>>)
  BY <1>1, <1>2, <1>4 DEF Powerset!LayersAreWhole
<1> DEFINE from == <<held[t][Powerset!Input(l)], held[t]["ht"], held[t]["ct"]>>
           whole == q % 2 = 1 /\ held[t][Powerset!Output(l)] = Powerset!LayerOutput(l, {0}, from)
           output == IF whole THEN Powerset!Complete(l) ELSE Powerset!LayerOutput(l, {q % 2}, from)
           h == [z \in DOMAIN held[t] |->
                   CASE z = Powerset!Output(l) -> output [] z \in {"ht", "ct", "xw"} -> <<"used">> [] OTHER -> held[t][z]]
<1> HIDE DEF q, l
<1>9. held' = [held EXCEPT ![t] = h] /\ free' = free /\ done' = done
  <2>1. a.op = "run" /\ a.name = Powerset!Output(l) /\ a.layer = l /\ a.dir = q % 2
    BY <1>3
  <2>2. Powerset!Run(t, a) /\ free' = free /\ done' = done
    BY <2>1 DEF Powerset!Step
  <2> HIDE DEF a
  <2> QED
    BY <2>1, <2>2 DEF Powerset!Run
<1>10. held'[t] = h /\ DOMAIN h = DOMAIN held[t]
  BY <1>4, <1>9
<1>11. {"seq", "lstm_a", "lstm_b"} \subseteq DOMAIN held[t]
  BY <1>1, <1>4 DEF Powerset!HoldsItsRows
<1>12. h[Powerset!Output(l)] = output
  BY <1>5, <1>11, BuffersAlternate
<1>13. h[Powerset!Input(l)] = held[t][Powerset!Input(l)]
  <2>1. /\ Powerset!Input(l) \in {"seq", "lstm_a", "lstm_b"} /\ Powerset!Input(l) # Powerset!Output(l)
        /\ Powerset!Input(l) \in DOMAIN held[t]
    BY <1>5, <1>11, BuffersAlternate
  <2> QED
    BY <2>1
<1>14. from = <<Powerset!Complete(l - 1), Powerset!Zeros, Powerset!Zeros>>
  BY <1>7, <1>8
<1>15. Powerset!HoldsItsRows(t)'
  BY <1>10, <1>11 DEF Powerset!HoldsItsRows
<1>16. Powerset!DirectionStartsClean(t)'
  BY <1>2 DEF Powerset!DirectionStartsClean
<1>17. Powerset!LayersAreWhole(t)'
  <2>1. CASE q % 2 = 0
    <3>1. output = Powerset!LayerOutput(l, {0}, <<Powerset!Complete(l - 1), Powerset!Zeros, Powerset!Zeros>>)
      <4>1. ~whole /\ {q % 2} = {0}
        BY <2>1
      <4>2. output = Powerset!LayerOutput(l, {q % 2}, from)
        BY <4>1
      <4> HIDE DEF from, whole, output
      <4> QED
        BY <1>14, <4>1, <4>2
    <3> HIDE DEF output, h
    <3> QED
      BY <1>2, <1>6, <1>8, <1>10, <1>12, <1>13, <2>1, <3>1 DEF Powerset!LayersAreWhole
  <2>2. CASE q % 2 = 1
    <3>1. output = Powerset!Complete(l)
      BY <1>8, <1>14, <2>2
    <3>2. Powerset!Input(l + 1) = Powerset!Output(l)
      BY <1>5, BuffersAlternate
    <3>3. (q + 1) % 2 # 1
      BY <1>6, <2>2
    <3> HIDE DEF output, h
    <3> QED
      BY <1>2, <1>5, <1>6, <1>10, <1>12, <2>2, <3>1, <3>2, <3>3 DEF Powerset!LayersAreWhole
  <2> QED
    BY <1>5, <2>1, <2>2
<1>18. Powerset!PoolIsCleared'
  BY <1>4, <1>9 DEF Powerset!PoolIsCleared
<1> HIDE DEF h
<1> QED
  BY <1>4, <1>9, <1>15, <1>16, <1>17, <1>18, StepKeeps DEF OwnFacts

(* What is returned is the last layer, both directions of it; then the buffers *)
(* go back.                                                                 *)
LEMMA ForwardCopies ==
  ASSUME Powerset!PowersetAssumption, Powerset!PowersetIInv, NEW t \in Threads, Powerset!Step(t),
         sPc[t] = Powerset!LayersEnd + 1
  PROVE  Powerset!PowersetIInv'
<1>1. Powerset!LayersEnd \in Nat /\ Powerset!LayersEnd >= 19 /\ sPc'[t] = Powerset!LayersEnd + 2
  BY StepMoves
<1>2. Powerset!Script(sPc[t]).op = "copy"
  BY <1>1, ScriptIs DEF Powerset!Act
<1>3. done' = [done EXCEPT ![t] = held[t][Powerset!Output(LAYERS)]] /\ free' = free /\ held' = held
  BY <1>2 DEF Powerset!Step
<1>4. /\ DOMAIN held = Threads /\ Powerset!LayersAreWhole(t) /\ Powerset!PoolIsCleared
      /\ done \in [Threads -> {<<"nothing">>, Powerset!Complete(LAYERS)}]
  BY DEF Powerset!PowersetIInv, Powerset!PowersetTypeOK
<1>5. LAYERS \in Nat \ {0}
  BY DEF Powerset!PowersetAssumption
<1>6. (sPc[t] - 3) \div 7 = 2 * LAYERS
  <2>1. sPc[t] - 3 = 7 * (2 * LAYERS) + 3 /\ sPc[t] - 3 \in Nat /\ 2 * LAYERS \in Nat
    BY <1>5 DEF Powerset!LayersEnd
  <2> QED
    BY <2>1, BySeven
<1>7. (2 * LAYERS) \div 2 + 1 = LAYERS + 1 /\ LAYERS + 1 - 1 = LAYERS
  BY <1>5
<1>8. held[t][Powerset!Input(LAYERS + 1)] = Powerset!Complete(LAYERS)
  <2>1. sPc[t] \in 6 .. Powerset!LayersEnd + 1
    BY <1>1
  <2> HIDE DEF Powerset!LayersEnd
  <2> DEFINE n == (sPc[t] - 3) \div 7
             layer == n \div 2 + 1
  <2>2. held[t][Powerset!Input(layer)] = Powerset!Complete(layer - 1)
    BY <1>4, <2>1 DEF Powerset!LayersAreWhole
  <2>3. layer = LAYERS + 1
    BY <1>6, <1>7
  <2>4. layer - 1 = LAYERS
    BY <1>5, <2>3
  <2> HIDE DEF layer
  <2> QED
    BY <2>2, <2>3, <2>4
<1>9. held[t][Powerset!Output(LAYERS)] = Powerset!Complete(LAYERS)
  BY <1>5, <1>8, BuffersAlternate
<1>10. done' \in [Threads -> {<<"nothing">>, Powerset!Complete(LAYERS)}]
  BY <1>3, <1>4, <1>9
<1>11. OwnFacts(t)'
  BY <1>1 DEF OwnFacts, Powerset!HoldsItsRows, Powerset!DirectionStartsClean, Powerset!LayersAreWhole
<1>12. Powerset!PoolIsCleared' /\ DOMAIN held' = Threads
  BY <1>3, <1>4 DEF Powerset!PoolIsCleared
<1>13. Powerset!PowersetTypeOK'
  BY <1>10, <1>12, StepMoves DEF Powerset!PowersetTypeOK
<1>14. ASSUME NEW u \in Threads, u # t PROVE OwnFacts(u)'
  BY <1>3, <1>14, StepMoves, OthersKeep DEF OwnFacts
<1> QED
  BY <1>11, <1>12, <1>13, <1>14 DEF Powerset!PowersetIInv, OwnFacts

LEMMA ForwardPuts ==
  ASSUME Powerset!PowersetAssumption, Powerset!PowersetIInv, NEW t \in Threads, Powerset!Step(t),
         sPc[t] > Powerset!LayersEnd + 1
  PROVE  Powerset!PowersetIInv'
<1>1. /\ Powerset!LayersEnd \in Nat /\ Powerset!LayersEnd >= 19 /\ sPc[t] \in 1 .. Powerset!LayersEnd + 5
      /\ sPc'[t] = 0 \/ sPc'[t] = sPc[t] + 1
  BY StepMoves
<1> DEFINE a == Powerset!Script(sPc[t])
<1>2. a.op = "put"
  BY <1>1, ScriptIs
<1>3. Powerset!PutF32(t, a.name) /\ done' = done
  BY <1>2 DEF Powerset!Step
<1> DEFINE h == [z \in DOMAIN held[t] \ {a.name} |-> held[t][z]]
<1>4. Powerset!PoolIsCleared' /\ held' = [held EXCEPT ![t] = h]
  BY <1>3, PutIsCleared DEF Powerset!PowersetIInv
<1>5. done \in [Threads -> {<<"nothing">>, Powerset!Complete(LAYERS)}]
  BY DEF Powerset!PowersetIInv, Powerset!PowersetTypeOK
<1>6. sPc'[t] = 0 \/ sPc'[t] > Powerset!LayersEnd + 1
  BY <1>1
<1>7. OwnFacts(t)'
  BY <1>1, <1>6 DEF OwnFacts, Powerset!HoldsItsRows, Powerset!DirectionStartsClean, Powerset!LayersAreWhole
<1> HIDE DEF h
<1> QED
  BY <1>3, <1>4, <1>5, <1>7, StepKeeps

(* Every step of every forward, and reclaim, keeps the invariant. *)
LEMMA PowersetNext ==
  Powerset!PowersetAssumption /\ Powerset!PowersetIInv /\ [Powerset!Next]_powersetVars => Powerset!PowersetIInv'
<1> SUFFICES ASSUME Powerset!PowersetAssumption, Powerset!PowersetIInv, [Powerset!Next]_powersetVars
             PROVE  Powerset!PowersetIInv'
  OBVIOUS
<1>1. CASE UNCHANGED powersetVars
  BY <1>1 DEF powersetVars, Powerset!PowersetIInv, Powerset!PoolIsCleared, Powerset!PowersetTypeOK, Powerset!HoldsItsRows,
              Powerset!DirectionStartsClean, Powerset!LayersAreWhole, Powerset!HoldsZeros
<1>2. CASE Powerset!Reclaim
  <2>1. free' = <<>> /\ sPc' = sPc /\ held' = held /\ done' = done
    BY <1>2 DEF Powerset!Reclaim
  <2>2. Powerset!PoolIsCleared'
    BY <2>1 DEF Powerset!PoolIsCleared, Powerset!PowersetAssumption
  <2> QED
    BY <2>1, <2>2 DEF Powerset!PowersetIInv, Powerset!PowersetTypeOK, Powerset!HoldsItsRows,
                      Powerset!DirectionStartsClean, Powerset!LayersAreWhole, Powerset!HoldsZeros
<1>3. CASE \E t \in Threads : Powerset!Start(t)
  <2>1. PICK t \in Threads : Powerset!Start(t)
    BY <1>3
  <2>2. Powerset!LayersEnd \in Nat
    BY DEF Powerset!PowersetAssumption, Powerset!LayersEnd
  <2> HIDE DEF Powerset!LayersEnd
  <2>3. sPc' = [sPc EXCEPT ![t] = 1] /\ free' = free /\ held' = held /\ done' = done
    BY <2>1 DEF Powerset!Start
  <2>4. Powerset!PoolIsCleared' /\ Powerset!PowersetTypeOK'
    BY <2>2, <2>3 DEF Powerset!PowersetIInv, Powerset!PoolIsCleared, Powerset!PowersetTypeOK
  <2>5. sPc'[t] = 1 /\ \A u \in Threads \ {t} : sPc'[u] = sPc[u]
    BY <2>3 DEF Powerset!PowersetIInv, Powerset!PowersetTypeOK
  <2>6. OwnFacts(t)'
    BY <2>2, <2>5 DEF OwnFacts, Powerset!HoldsItsRows, Powerset!DirectionStartsClean, Powerset!LayersAreWhole
  <2>7. ASSUME NEW u \in Threads, u # t PROVE OwnFacts(u)'
    BY <2>3, <2>5, <2>7, OthersKeep DEF OwnFacts
  <2> QED
    BY <2>4, <2>6, <2>7 DEF Powerset!PowersetIInv, OwnFacts
<1>4. CASE \E t \in Threads : Powerset!Step(t)
  <2>1. PICK t \in Threads : Powerset!Step(t)
    BY <1>4
  <2>2. Powerset!LayersEnd \in Nat /\ Powerset!LayersEnd >= 19 /\ sPc[t] \in 1 .. Powerset!LayersEnd + 5
    BY <2>1, StepMoves
  <2> HIDE DEF Powerset!LayersEnd
  <2>3. CASE sPc[t] <= 5
    BY <2>1, <2>2, <2>3, ForwardTakes, ForwardFills
  <2>4. CASE sPc[t] \in 6 .. Powerset!LayersEnd
    <3>1. (sPc[t] - 6) % 7 \in 0 .. 6
      BY <2>2, <2>4
    <3>2. CASE (sPc[t] - 6) % 7 < 3
      BY <2>1, <2>4, <3>2, LayerTakes
    <3>3. CASE (sPc[t] - 6) % 7 = 3
      BY <2>1, <2>4, <3>3, LayerRuns
    <3>4. CASE (sPc[t] - 6) % 7 > 3
      BY <2>1, <2>4, <3>4, LayerPuts
    <3> QED
      BY <3>1, <3>2, <3>3, <3>4
  <2>5. CASE sPc[t] = Powerset!LayersEnd + 1
    BY <2>1, <2>5, ForwardCopies
  <2>6. CASE sPc[t] > Powerset!LayersEnd + 1
    BY <2>1, <2>6, ForwardPuts
  <2> QED
    BY <2>2, <2>3, <2>4, <2>5, <2>6
<1> QED
  BY <1>1, <1>2, <1>3, <1>4 DEF Powerset!Next

(* A step that runs a direction is the fourth of its seven, where the buffers *)
(* it took are still zero.                                                  *)
LEMMA PowersetSafe ==
  ASSUME Powerset!PowersetAssumption, Powerset!PowersetIInv
  PROVE  Powerset!ForwardsStartFromZero
<1>1. Powerset!LayersEnd \in Nat /\ Powerset!LayersEnd >= 19
  BY DEF Powerset!PowersetAssumption, Powerset!LayersEnd
<1>2. ASSUME NEW t \in Threads, sPc[t] > 0, Powerset!Script(sPc[t]).op = "run"
      PROVE  {held[t]["ht"], held[t]["ct"], held[t]["xw"]} = {Powerset!Zeros}
  <2> HIDE DEF Powerset!LayersEnd
  <2>1. sPc[t] \in 1 .. Powerset!LayersEnd + 5
    BY <1>2 DEF Powerset!PowersetIInv, Powerset!PowersetTypeOK
  <2>2. sPc[t] \notin 1 .. 5 /\ sPc[t] # Powerset!LayersEnd + 1 /\ ~(sPc[t] > Powerset!LayersEnd + 1)
    <3>1. ASSUME sPc[t] \in 1 .. 5 PROVE FALSE
      <4>1. sPc[t] = 1 \/ sPc[t] = 2 \/ sPc[t] = 3 \/ sPc[t] = 4 \/ sPc[t] = 5
        BY <3>1
      <4>2. Powerset!Script(sPc[t]).op \in {"take", "fill"}
        BY <2>1, <4>1, ScriptIs DEF Powerset!Act
      <4> QED
        BY <1>2, <4>2
    <3>2. ASSUME sPc[t] = Powerset!LayersEnd + 1 PROVE FALSE
      BY <1>2, <2>1, <3>2, ScriptIs DEF Powerset!Act
    <3>3. ASSUME sPc[t] > Powerset!LayersEnd + 1 PROVE FALSE
      BY <1>2, <2>1, <3>3, ScriptIs
    <3> QED
      BY <3>1, <3>2, <3>3
  <2>3. sPc[t] \in 6 .. Powerset!LayersEnd
    BY <1>1, <2>1, <2>2
  <2> DEFINE r == (sPc[t] - 6) % 7
  <2>4. r \in 0 .. 6
    BY <1>1, <2>3
  <2>5. r = 3
    <3>1. /\ r \in 0 .. 2 => Powerset!Script(sPc[t]).op = "take"
          /\ r > 3 => Powerset!Script(sPc[t]).op = "put"
      BY <2>3, <2>4, DirectionIs DEF Powerset!Act
    <3> QED
      BY <1>2, <2>4, <3>1
  <2> QED
    BY <2>3, <2>5 DEF Powerset!PowersetIInv, Powerset!DirectionStartsClean, Powerset!HoldsZeros
<1> QED
  BY <1>2 DEF Powerset!ForwardsStartFromZero, Powerset!PowersetIInv, Powerset!PoolIsCleared, Powerset!PowersetTypeOK

(* In every behaviour of the segmentation network, for any number of threads, *)
(* layers and pool slots, and whatever buffers go round: every recurrence      *)
(* starts from a zero state, each layer reads the whole of the one before, the *)
(* last is what is returned, and the pool stays within its slots             *)
(* (scratch.rs, lstm.rs, powerset.rs).                                      *)
THEOREM RecycledIsZeroHolds == MCSpec => []RecycledIsZero
<1> DEFINE I == part = "powerset" => Powerset!PowersetIInv
<1>0. Powerset!PowersetAssumption
  BY KernelsAssumption
<1>1. MCInit => I
  BY <1>0, PowersetInit DEF MCInit
<1>2. I /\ [MCNext]_<<part, case, convVars, resnetVars, powersetVars, vars, filterVars>> => I'
  <2> SUFFICES ASSUME I, [MCNext]_<<part, case, convVars, resnetVars, powersetVars, vars, filterVars>>,
                      part' = "powerset"
               PROVE  Powerset!PowersetIInv'
    OBVIOUS
  <2>1. part = "powerset" /\ [Powerset!Next]_powersetVars
    BY DEF MCNext
  <2> QED
    BY <1>0, <2>1, PowersetNext
<1>3. I => RecycledIsZero
  BY <1>0, PowersetSafe DEF RecycledIsZero
<1> QED
  BY <1>1, <1>2, <1>3, PTL DEF MCSpec

-----------------------------------------------------------------------------
(* The seeds of the embedder network. *)

Rows == [oc : Nat, ic : Nat, k : Nat, stride : Nat]
Places == [conv1 : Nat, conv2 : Nat, down : Nat]

(* Appending a sequence leaves the entries before it, and its own follow.     *)
IsAppend(u, s, t, m, n) ==
  /\ Len(u) = m + n
  /\ \A i \in 1 .. m : u[i] = s[i]
  /\ \A i \in m + 1 .. m + n : u[i] = t[i - m]

LEMMA AppendRows ==
  ASSUME NEW s \in Seq(Rows), NEW t \in Seq(Rows), NEW m, NEW n, Len(s) = m, Len(t) = n
  PROVE  s \o t \in Seq(Rows) /\ IsAppend(s \o t, s, t, m, n)
BY DEF IsAppend

LEMMA AppendPlaces ==
  ASSUME NEW s \in Seq(Places), NEW t \in Seq(Places), NEW m, NEW n, Len(s) = m, Len(t) = n
  PROVE  s \o t \in Seq(Places) /\ IsAppend(s \o t, s, t, m, n)
BY DEF IsAppend

(* The runs of the table: equal convolutions, and the three of a block that   *)
(* halves its input.                                                         *)
LEMMA RunOfSame ==
  ASSUME NEW n \in Nat, NEW c \in Nat
  PROVE  /\ ResNet!Same(n, c) \in Seq(Rows) /\ Len(ResNet!Same(n, c)) = n
         /\ \A i \in 1 .. n : ResNet!Same(n, c)[i] = ResNet!Conv(c, c, 3, 1)
<1>1. ResNet!Same(n, c) = [i \in 1 .. n |-> ResNet!Conv(c, c, 3, 1)]
  BY DEF ResNet!Same
<1>2. ResNet!Conv(c, c, 3, 1) \in Rows
  BY DEF Rows, ResNet!Conv
<1> QED
  BY <1>1, <1>2

LEMMA RunOfHalve ==
  ASSUME NEW d \in Nat, NEW c \in Nat
  PROVE  /\ ResNet!Halve(d, c) \in Seq(Rows) /\ Len(ResNet!Halve(d, c)) = 3
         /\ ResNet!Halve(d, c)[1] = ResNet!Conv(d, c, 3, 2)
         /\ ResNet!Halve(d, c)[2] = ResNet!Conv(d, d, 3, 1)
         /\ ResNet!Halve(d, c)[3] = ResNet!Conv(d, c, 1, 2)
<1>1. ResNet!Conv(d, c, 3, 2) \in Rows /\ ResNet!Conv(d, d, 3, 1) \in Rows /\ ResNet!Conv(d, c, 1, 2) \in Rows
  BY DEF Rows, ResNet!Conv
<1>2. ResNet!Halve(d, c) = <<ResNet!Conv(d, c, 3, 2), ResNet!Conv(d, d, 3, 1), ResNet!Conv(d, c, 1, 2)>>
  BY DEF ResNet!Halve
<1> QED
  BY <1>1, <1>2

(* The table of the convolutions, by its runs. *)
LEMMA TableIs ==
  /\ ResNet!CONVS[1] = ResNet!Conv(32, 1, 3, 1)
  /\ \A i \in 2 .. 7 : ResNet!CONVS[i] = ResNet!Conv(32, 32, 3, 1)
  /\ ResNet!CONVS[8] = ResNet!Conv(64, 32, 3, 2)
  /\ ResNet!CONVS[9] = ResNet!Conv(64, 64, 3, 1)
  /\ ResNet!CONVS[10] = ResNet!Conv(64, 32, 1, 2)
  /\ \A i \in 11 .. 16 : ResNet!CONVS[i] = ResNet!Conv(64, 64, 3, 1)
  /\ ResNet!CONVS[17] = ResNet!Conv(128, 64, 3, 2)
  /\ ResNet!CONVS[18] = ResNet!Conv(128, 128, 3, 1)
  /\ ResNet!CONVS[19] = ResNet!Conv(128, 64, 1, 2)
  /\ \A i \in 20 .. 29 : ResNet!CONVS[i] = ResNet!Conv(128, 128, 3, 1)
  /\ ResNet!CONVS[30] = ResNet!Conv(256, 128, 3, 2)
  /\ ResNet!CONVS[31] = ResNet!Conv(256, 256, 3, 1)
  /\ ResNet!CONVS[32] = ResNet!Conv(256, 128, 1, 2)
  /\ \A i \in 33 .. 36 : ResNet!CONVS[i] = ResNet!Conv(256, 256, 3, 1)
<1> DEFINE stem == <<ResNet!Conv(32, 1, 3, 1)>>
           one == ResNet!Same(6, 32)
           two == ResNet!Halve(64, 32)
           three == ResNet!Same(6, 64)
           four == ResNet!Halve(128, 64)
           five == ResNet!Same(10, 128)
           six == ResNet!Halve(256, 128)
           seven == ResNet!Same(4, 256)
           a == stem \o one
           b == a \o two
           c == b \o three
           d == four \o five
           e == six \o seven
           f == c \o d
<1>1. ResNet!CONVS = f \o e
  BY DEF ResNet!CONVS, ResNet!ConvsOfLayers12, ResNet!ConvsOfLayer3, ResNet!ConvsOfLayer4
<1>2. stem \in Seq(Rows) /\ Len(stem) = 1 /\ stem[1] = ResNet!Conv(32, 1, 3, 1)
  BY DEF Rows, ResNet!Conv
<1>3. one \in Seq(Rows) /\ Len(one) = 6 /\ \A i \in 1 .. 6 : one[i] = ResNet!Conv(32, 32, 3, 1)
  BY RunOfSame
<1>4. /\ two \in Seq(Rows) /\ Len(two) = 3
      /\ two[1] = ResNet!Conv(64, 32, 3, 2) /\ two[2] = ResNet!Conv(64, 64, 3, 1) /\ two[3] = ResNet!Conv(64, 32, 1, 2)
  BY RunOfHalve
<1>5. three \in Seq(Rows) /\ Len(three) = 6 /\ \A i \in 1 .. 6 : three[i] = ResNet!Conv(64, 64, 3, 1)
  BY RunOfSame
<1>6. /\ four \in Seq(Rows) /\ Len(four) = 3
      /\ four[1] = ResNet!Conv(128, 64, 3, 2) /\ four[2] = ResNet!Conv(128, 128, 3, 1) /\ four[3] = ResNet!Conv(128, 64, 1, 2)
  BY RunOfHalve
<1>7. five \in Seq(Rows) /\ Len(five) = 10 /\ \A i \in 1 .. 10 : five[i] = ResNet!Conv(128, 128, 3, 1)
  <2>1. five \in Seq(Rows)
    BY RunOfSame
  <2>2. Len(five) = 10
    BY RunOfSame
  <2>3. \A i \in 1 .. 10 : five[i] = ResNet!Conv(128, 128, 3, 1)
    BY RunOfSame
  <2> QED
    BY <2>1, <2>2, <2>3
<1>8. /\ six \in Seq(Rows) /\ Len(six) = 3
      /\ six[1] = ResNet!Conv(256, 128, 3, 2) /\ six[2] = ResNet!Conv(256, 256, 3, 1) /\ six[3] = ResNet!Conv(256, 128, 1, 2)
  BY RunOfHalve
<1>9. seven \in Seq(Rows) /\ Len(seven) = 4 /\ \A i \in 1 .. 4 : seven[i] = ResNet!Conv(256, 256, 3, 1)
  <2>1. seven \in Seq(Rows)
    BY RunOfSame
  <2>2. Len(seven) = 4
    BY 4 \in Nat, 256 \in Nat, RunOfSame, Zenon
  <2>3. \A i \in 1 .. 4 : seven[i] = ResNet!Conv(256, 256, 3, 1)
    BY RunOfSame
  <2> QED
    BY <2>1, <2>2, <2>3
<1> HIDE DEF stem, one, two, three, four, five, six, seven
<1>10. a \in Seq(Rows) /\ IsAppend(a, stem, one, 1, 6)
  BY <1>2, <1>3, AppendRows
<1> HIDE DEF a
<1>11. Len(a) = 7
  BY <1>10 DEF IsAppend
<1>12. b \in Seq(Rows) /\ IsAppend(b, a, two, 7, 3)
  BY <1>4, <1>10, <1>11, AppendRows
<1> HIDE DEF b
<1>13. Len(b) = 10
  BY <1>12 DEF IsAppend
<1>14. c \in Seq(Rows) /\ IsAppend(c, b, three, 10, 6)
  BY <1>5, <1>12, <1>13, AppendRows
<1>15. d \in Seq(Rows) /\ IsAppend(d, four, five, 3, 10)
  BY <1>6, <1>7, AppendRows
<1>16. e \in Seq(Rows) /\ IsAppend(e, six, seven, 3, 4)
  BY <1>8, <1>9, AppendRows, ZenonT(60)
<1> HIDE DEF c, d, e
<1>17. Len(c) = 16 /\ Len(d) = 13 /\ Len(e) = 7
  BY <1>14, <1>15, <1>16 DEF IsAppend
<1>18. f \in Seq(Rows) /\ IsAppend(f, c, d, 16, 13)
  BY <1>14, <1>15, <1>17, AppendRows
<1> HIDE DEF f
<1>19. Len(f) = 29
  BY <1>18 DEF IsAppend
<1>20. IsAppend(ResNet!CONVS, f, e, 29, 7)
  BY <1>1, <1>16, <1>17, <1>18, <1>19, AppendRows
<1>21. a[1] = stem[1] /\ \A i \in 2 .. 7 : a[i] = one[i - 1]
  BY <1>10 DEF IsAppend
<1>22. /\ \A i \in 1 .. 7 : b[i] = a[i]
       /\ b[8] = two[1] /\ b[9] = two[2] /\ b[10] = two[3]
  BY <1>12 DEF IsAppend
<1>23. /\ \A i \in 1 .. 10 : c[i] = b[i]
       /\ \A i \in 11 .. 16 : c[i] = three[i - 10]
  BY <1>14 DEF IsAppend
<1>24. /\ \A i \in 1 .. 16 : f[i] = c[i]
       /\ \A i \in 17 .. 29 : f[i] = d[i - 16]
  BY <1>18 DEF IsAppend
<1>25. /\ d[1] = four[1] /\ d[2] = four[2] /\ d[3] = four[3]
       /\ \A i \in 4 .. 13 : d[i] = five[i - 3]
  BY <1>15 DEF IsAppend
<1>26. /\ e[1] = six[1] /\ e[2] = six[2] /\ e[3] = six[3]
       /\ \A i \in 4 .. 7 : e[i] = seven[i - 3]
  BY <1>16 DEF IsAppend
<1>27. /\ \A i \in 1 .. 29 : ResNet!CONVS[i] = f[i]
       /\ \A i \in 30 .. 36 : ResNet!CONVS[i] = e[i - 29]
  BY <1>20 DEF IsAppend
<1>28. \A i \in 1 .. 16 : ResNet!CONVS[i] = c[i]
  BY <1>24, <1>27
<1>29. \A i \in 1 .. 10 : ResNet!CONVS[i] = b[i]
  BY <1>23, <1>28
<1>30. \A i \in 1 .. 7 : ResNet!CONVS[i] = a[i]
  BY <1>22, <1>29
<1>31. /\ ResNet!CONVS[1] = stem[1] /\ \A i \in 2 .. 7 : ResNet!CONVS[i] = one[i - 1]
       /\ ResNet!CONVS[8] = two[1] /\ ResNet!CONVS[9] = two[2] /\ ResNet!CONVS[10] = two[3]
  BY <1>21, <1>22, <1>29, <1>30
<1>32. \A i \in 11 .. 16 : ResNet!CONVS[i] = three[i - 10]
  BY <1>23, <1>28
<1>33. \A i \in 17 .. 29 : i - 16 \in 1 .. 13 /\ (i - 16) - 3 = i - 19 /\ ResNet!CONVS[i] = d[i - 16]
  BY <1>24, <1>27
<1>34. ResNet!CONVS[17] = four[1] /\ ResNet!CONVS[18] = four[2] /\ ResNet!CONVS[19] = four[3]
  BY <1>25, <1>33
<1>35. \A i \in 20 .. 29 : ResNet!CONVS[i] = five[i - 19]
  <2>1. \A i \in 20 .. 29 : i - 16 \in 4 .. 13 /\ i \in 17 .. 29
    OBVIOUS
  <2> QED
    BY <1>25, <1>33, <2>1
<1>36. ResNet!CONVS[30] = six[1] /\ ResNet!CONVS[31] = six[2] /\ ResNet!CONVS[32] = six[3]
  BY <1>26, <1>27
<1>37. \A i \in 33 .. 36 : ResNet!CONVS[i] = seven[i - 32]
  <2>1. \A i \in 33 .. 36 : i - 29 \in 4 .. 7 /\ i \in 30 .. 36 /\ (i - 29) - 3 = i - 32
    OBVIOUS
  <2> QED
    BY <1>26, <1>27, <2>1
<1>38. \A i \in 2 .. 7 : ResNet!CONVS[i] = ResNet!Conv(32, 32, 3, 1)
  BY <1>3, <1>31
<1>39. \A i \in 11 .. 16 : ResNet!CONVS[i] = ResNet!Conv(64, 64, 3, 1)
  BY <1>5, <1>32
<1>40. \A i \in 20 .. 29 : ResNet!CONVS[i] = ResNet!Conv(128, 128, 3, 1)
  <2>1. \A i \in 20 .. 29 : i - 19 \in 1 .. 10
    OBVIOUS
  <2> QED
    BY <1>7, <1>35, <2>1
<1>41. \A i \in 33 .. 36 : ResNet!CONVS[i] = ResNet!Conv(256, 256, 3, 1)
  BY <1>9, <1>37
<1> QED
  BY <1>2, <1>4, <1>6, <1>8, <1>31, <1>34, <1>36, <1>38, <1>39, <1>40, <1>41

(* The blocks, dealt from the table. *)
LEMMA BlocksAre ==
  /\ Len(ResNet!Blocks) = 16 /\ DOMAIN ResNet!Blocks = 1 .. 16
  /\ \A i \in 1 .. 3 : ResNet!Blocks[i] = ResNet!Block(2 * i, 2 * i + 1, 0)
  /\ ResNet!Blocks[4] = ResNet!Block(8, 9, 10)
  /\ \A i \in 5 .. 7 : ResNet!Blocks[i] = ResNet!Block(2 * i + 1, 2 * i + 2, 0)
  /\ ResNet!Blocks[8] = ResNet!Block(17, 18, 19)
  /\ \A i \in 9 .. 13 : ResNet!Blocks[i] = ResNet!Block(2 * i + 2, 2 * i + 3, 0)
  /\ ResNet!Blocks[14] = ResNet!Block(30, 31, 32)
  /\ \A i \in 15 .. 16 : ResNet!Blocks[i] = ResNet!Block(2 * i + 3, 2 * i + 4, 0)
<1>1. ASSUME NEW p \in Nat, NEW n \in Nat
      PROVE  /\ ResNet!IdentityBlocks(p, n) \in Seq(Places) /\ Len(ResNet!IdentityBlocks(p, n)) = n
             /\ \A i \in 1 .. n : ResNet!IdentityBlocks(p, n)[i] = ResNet!Block(p + 2 * (i - 1), p + 2 * i - 1, 0)
  <2>1. \A i \in 1 .. n : p + 2 * (i - 1) \in Nat /\ p + 2 * i - 1 \in Nat
    OBVIOUS
  <2>2. \A i \in 1 .. n : ResNet!Block(p + 2 * (i - 1), p + 2 * i - 1, 0) \in Places
    BY <2>1 DEF ResNet!Block, Places
  <2>3. ResNet!IdentityBlocks(p, n) = [i \in 1 .. n |-> ResNet!Block(p + 2 * (i - 1), p + 2 * i - 1, 0)]
    BY DEF ResNet!IdentityBlocks
  <2> QED
    BY <2>2, <2>3
<1>2. ASSUME NEW p \in Nat, NEW n \in Nat
      PROVE  /\ ResNet!DownThenIdentity(p, n) \in Seq(Places) /\ Len(ResNet!DownThenIdentity(p, n)) = n + 1
             /\ ResNet!DownThenIdentity(p, n)[1] = ResNet!Block(p, p + 1, p + 2)
             /\ \A i \in 2 .. n + 1 :
                  ResNet!DownThenIdentity(p, n)[i] = ResNet!Block(p + 3 + 2 * (i - 2), p + 3 + 2 * (i - 1) - 1, 0)
  <2> DEFINE h == <<ResNet!Block(p, p + 1, p + 2)>>
             r == ResNet!IdentityBlocks(p + 3, n)
  <2>1. h \in Seq(Places) /\ Len(h) = 1 /\ h[1] = ResNet!Block(p, p + 1, p + 2)
    BY DEF ResNet!Block, Places
  <2>2. /\ r \in Seq(Places) /\ Len(r) = n
        /\ \A i \in 1 .. n : r[i] = ResNet!Block((p + 3) + 2 * (i - 1), (p + 3) + 2 * i - 1, 0)
    <3>1. p + 3 \in Nat
      OBVIOUS
    <3> QED
      BY <1>1, <3>1
  <2>3. ResNet!DownThenIdentity(p, n) = h \o r
    BY DEF ResNet!DownThenIdentity
  <2> HIDE DEF h, r
  <2>4. h \o r \in Seq(Places) /\ IsAppend(h \o r, h, r, 1, n)
    BY <2>1, <2>2, AppendPlaces, Zenon
  <2>5. ResNet!DownThenIdentity(p, n) \in Seq(Places) /\ IsAppend(ResNet!DownThenIdentity(p, n), h, r, 1, n)
    BY <2>3, <2>4, Zenon
  <2>6. \A i \in 2 .. n + 1 : i - 1 \in 1 .. n
    OBVIOUS
  <2>7. \A i \in 2 .. n + 1 : r[i - 1] = ResNet!Block((p + 3) + 2 * (i - 1 - 1), (p + 3) + 2 * (i - 1) - 1, 0)
    BY <2>2, <2>6
  <2>8. \A i \in 2 .. n + 1 : i - 1 - 1 = i - 2
    OBVIOUS
  <2>9. /\ Len(ResNet!DownThenIdentity(p, n)) = 1 + n /\ ResNet!DownThenIdentity(p, n)[1] = h[1]
        /\ \A i \in 2 .. n + 1 : ResNet!DownThenIdentity(p, n)[i] = r[i - 1]
    BY <2>5 DEF IsAppend
  <2> QED
    BY <2>1, <2>5, <2>7, <2>8, <2>9
<1> DEFINE one == ResNet!IdentityBlocks(2, 3)
           two == ResNet!DownThenIdentity(8, 3)
           three == ResNet!DownThenIdentity(17, 5)
           four == ResNet!DownThenIdentity(30, 2)
           a == one \o two
           b == a \o three
<1>3. ResNet!Blocks = b \o four
  BY DEF ResNet!Blocks
<1>4. one \in Seq(Places) /\ Len(one) = 3 /\ \A i \in 1 .. 3 : one[i] = ResNet!Block(2 + 2 * (i - 1), 2 + 2 * i - 1, 0)
  BY <1>1
<1>5. /\ two \in Seq(Places) /\ Len(two) = 4 /\ two[1] = ResNet!Block(8, 8 + 1, 8 + 2)
      /\ \A i \in 2 .. 4 : two[i] = ResNet!Block(8 + 3 + 2 * (i - 2), 8 + 3 + 2 * (i - 1) - 1, 0)
  <2>1. 8 \in Nat /\ 3 \in Nat
    OBVIOUS
  <2>2. /\ two \in Seq(Places) /\ Len(two) = 3 + 1 /\ two[1] = ResNet!Block(8, 8 + 1, 8 + 2)
        /\ \A i \in 2 .. 3 + 1 : two[i] = ResNet!Block(8 + 3 + 2 * (i - 2), 8 + 3 + 2 * (i - 1) - 1, 0)
    BY <1>2, <2>1, Zenon
  <2> QED
    <3> HIDE DEF two
    <3> QED
      BY <2>2
<1>6. /\ three \in Seq(Places) /\ Len(three) = 6 /\ three[1] = ResNet!Block(17, 17 + 1, 17 + 2)
      /\ \A i \in 2 .. 6 : three[i] = ResNet!Block(17 + 3 + 2 * (i - 2), 17 + 3 + 2 * (i - 1) - 1, 0)
  <2>1. 17 \in Nat /\ 5 \in Nat
    OBVIOUS
  <2>2. /\ three \in Seq(Places) /\ Len(three) = 5 + 1 /\ three[1] = ResNet!Block(17, 17 + 1, 17 + 2)
        /\ \A i \in 2 .. 5 + 1 : three[i] = ResNet!Block(17 + 3 + 2 * (i - 2), 17 + 3 + 2 * (i - 1) - 1, 0)
    BY <1>2, <2>1, Zenon
  <2> QED
    <3> HIDE DEF three
    <3> QED
      BY <2>2
<1>7. /\ four \in Seq(Places) /\ Len(four) = 3 /\ four[1] = ResNet!Block(30, 30 + 1, 30 + 2)
      /\ \A i \in 2 .. 3 : four[i] = ResNet!Block(30 + 3 + 2 * (i - 2), 30 + 3 + 2 * (i - 1) - 1, 0)
  <2>1. 30 \in Nat /\ 2 \in Nat
    OBVIOUS
  <2>2. /\ four \in Seq(Places) /\ Len(four) = 2 + 1 /\ four[1] = ResNet!Block(30, 30 + 1, 30 + 2)
        /\ \A i \in 2 .. 2 + 1 : four[i] = ResNet!Block(30 + 3 + 2 * (i - 2), 30 + 3 + 2 * (i - 1) - 1, 0)
    BY <1>2, <2>1, Zenon
  <2> QED
    <3> HIDE DEF four
    <3> QED
      BY <2>2
<1> HIDE DEF one, two, three, four
<1>8. a \in Seq(Places) /\ IsAppend(a, one, two, 3, 4)
  BY <1>4, <1>5, AppendPlaces
<1> HIDE DEF a
<1>9. Len(a) = 7
  BY <1>8 DEF IsAppend
<1>10. b \in Seq(Places) /\ IsAppend(b, a, three, 7, 6)
  BY <1>6, <1>8, <1>9, AppendPlaces
<1> HIDE DEF b
<1>11. Len(b) = 13
  BY <1>10 DEF IsAppend
<1>12. ResNet!Blocks \in Seq(Places) /\ IsAppend(ResNet!Blocks, b, four, 13, 3)
  BY <1>3, <1>7, <1>10, <1>11, AppendPlaces
<1>13. \A i \in 1 .. 3 : ResNet!Blocks[i] = ResNet!Block(2 * i, 2 * i + 1, 0)
  <2>1. \A i \in 1 .. 3 : 2 + 2 * (i - 1) = 2 * i /\ 2 + 2 * i - 1 = 2 * i + 1
    OBVIOUS
  <2>2. \A i \in 1 .. 3 : ResNet!Blocks[i] = one[i]
    BY <1>8, <1>10, <1>12 DEF IsAppend
  <2> QED
    BY <1>4, <2>1, <2>2
<1>14. \A i \in 5 .. 7 : ResNet!Blocks[i] = ResNet!Block(2 * i + 1, 2 * i + 2, 0)
  <2>1. \A i \in 5 .. 7 : i - 3 \in 2 .. 4 /\ 8 + 3 + 2 * ((i - 3) - 2) = 2 * i + 1 /\ 8 + 3 + 2 * ((i - 3) - 1) - 1 = 2 * i + 2
    OBVIOUS
  <2>2. \A i \in 5 .. 7 : ResNet!Blocks[i] = two[i - 3]
    BY <1>8, <1>10, <1>12, SMTT(30) DEF IsAppend
  <2> QED
    BY <1>5, <2>1, <2>2
<1>15. \A i \in 9 .. 13 : ResNet!Blocks[i] = ResNet!Block(2 * i + 2, 2 * i + 3, 0)
  <2>1. \A i \in 9 .. 13 : i - 7 \in 2 .. 6 /\ 17 + 3 + 2 * ((i - 7) - 2) = 2 * i + 2 /\ 17 + 3 + 2 * ((i - 7) - 1) - 1 = 2 * i + 3
    OBVIOUS
  <2>2. \A i \in 9 .. 13 : ResNet!Blocks[i] = three[i - 7]
    BY <1>10, <1>12 DEF IsAppend
  <2> QED
    BY <1>6, <2>1, <2>2
<1>16. \A i \in 15 .. 16 : ResNet!Blocks[i] = ResNet!Block(2 * i + 3, 2 * i + 4, 0)
  <2>1. \A i \in 15 .. 16 : i - 13 \in 2 .. 3 /\ 30 + 3 + 2 * ((i - 13) - 2) = 2 * i + 3 /\ 30 + 3 + 2 * ((i - 13) - 1) - 1 = 2 * i + 4
    OBVIOUS
  <2>2. \A i \in 15 .. 16 : ResNet!Blocks[i] = four[i - 13]
    BY <1>12 DEF IsAppend
  <2> QED
    BY <1>7, <2>1, <2>2
<1>17. ResNet!Blocks[4] = two[1] /\ ResNet!Blocks[8] = three[1] /\ ResNet!Blocks[14] = four[1]
  BY <1>8, <1>10, <1>12 DEF IsAppend
<1>18. 8 + 1 = 9 /\ 8 + 2 = 10 /\ 17 + 1 = 18 /\ 17 + 2 = 19 /\ 30 + 1 = 31 /\ 30 + 2 = 32
  OBVIOUS
<1>19. Len(ResNet!Blocks) = 16
  BY <1>12 DEF IsAppend
<1>20. DOMAIN ResNet!Blocks = 1 .. 16
  BY <1>12, <1>19
<1> QED
  BY <1>5, <1>6, <1>7, <1>12, <1>13, <1>14, <1>15, <1>16, <1>17, <1>18, <1>19, <1>20

(* What a block and its place make of the channels and the height: the second  *)
(* convolution and the way around it end in the same shape.                  *)
Follows(b) ==
  LET B == ResNet!Blocks[b]
      C == ResNet!Channels[b]
      D == ResNet!Channels[b + 1]
  IN /\ B.down = 0 =>
          /\ ResNet!CONVS[B.conv1] = ResNet!Conv(C, C, 3, 1) /\ ResNet!CONVS[B.conv2] = ResNet!Conv(C, C, 3, 1)
          /\ D = C /\ ResNet!Height[b + 1] = ResNet!Height[b]
     /\ B.down # 0 =>
          /\ ResNet!CONVS[B.conv1] = ResNet!Conv(D, C, 3, 2) /\ ResNet!CONVS[B.conv2] = ResNet!Conv(D, D, 3, 1)
          /\ ResNet!CONVS[B.down] = ResNet!Conv(D, C, 1, 2)
          /\ ResNet!Height[b + 1] = ((ResNet!Height[b] - 1) \div 2) + 1
     /\ C \in Nat /\ D \in Nat /\ ResNet!Height[b] \in Nat

LEMMA BlocksFollow == \A b \in 1 .. 16 : Follows(b)
<1> SUFFICES ASSUME NEW b \in 1 .. 16 PROVE Follows(b)
  OBVIOUS
<1>1. \A c1, c2, d : /\ ResNet!Block(c1, c2, d).conv1 = c1 /\ ResNet!Block(c1, c2, d).conv2 = c2
                     /\ ResNet!Block(c1, c2, d).down = d
  BY DEF ResNet!Block
<1>2. CASE b \in 1 .. 3
  <2>1. ResNet!Blocks[b] = ResNet!Block(2 * b, 2 * b + 1, 0)
    BY <1>2, BlocksAre
  <2>2. ResNet!CONVS[2 * b] = ResNet!Conv(32, 32, 3, 1) /\ ResNet!CONVS[2 * b + 1] = ResNet!Conv(32, 32, 3, 1)
    BY <1>2, TableIs
  <2>3. ResNet!Channels[b] = 32 /\ ResNet!Channels[b + 1] = 32 /\ ResNet!Height[b] = 80 /\ ResNet!Height[b + 1] = 80
    BY <1>2 DEF ResNet!Channels, ResNet!Height
  <2> QED
    BY <1>1, <2>1, <2>2, <2>3 DEF Follows
<1>3. CASE b = 4
  <2>1. ResNet!Blocks[b] = ResNet!Block(8, 9, 10)
    BY <1>3, BlocksAre
  <2>2. ResNet!Channels[b] = 32 /\ ResNet!Channels[b + 1] = 64 /\ ResNet!Height[b] = 80 /\ ResNet!Height[b + 1] = 40
    BY <1>3 DEF ResNet!Channels, ResNet!Height
  <2> QED
    BY <1>1, <2>1, <2>2, TableIs DEF Follows
<1>4. CASE b \in 5 .. 7
  <2>1. ResNet!Blocks[b] = ResNet!Block(2 * b + 1, 2 * b + 2, 0)
    BY <1>4, BlocksAre
  <2>2. ResNet!CONVS[2 * b + 1] = ResNet!Conv(64, 64, 3, 1) /\ ResNet!CONVS[2 * b + 2] = ResNet!Conv(64, 64, 3, 1)
    BY <1>4, TableIs
  <2>3. ResNet!Channels[b] = 64 /\ ResNet!Channels[b + 1] = 64 /\ ResNet!Height[b] = 40 /\ ResNet!Height[b + 1] = 40
    BY <1>4 DEF ResNet!Channels, ResNet!Height
  <2> QED
    BY <1>1, <2>1, <2>2, <2>3 DEF Follows
<1>5. CASE b = 8
  <2>1. ResNet!Blocks[b] = ResNet!Block(17, 18, 19)
    BY <1>5, BlocksAre
  <2>2. ResNet!Channels[b] = 64 /\ ResNet!Channels[b + 1] = 128 /\ ResNet!Height[b] = 40 /\ ResNet!Height[b + 1] = 20
    BY <1>5 DEF ResNet!Channels, ResNet!Height
  <2> QED
    BY <1>1, <2>1, <2>2, TableIs DEF Follows
<1>6. CASE b \in 9 .. 13
  <2>1. ResNet!Blocks[b] = ResNet!Block(2 * b + 2, 2 * b + 3, 0)
    BY <1>6, BlocksAre
  <2>2. ResNet!CONVS[2 * b + 2] = ResNet!Conv(128, 128, 3, 1) /\ ResNet!CONVS[2 * b + 3] = ResNet!Conv(128, 128, 3, 1)
    BY <1>6, TableIs
  <2>3. ResNet!Channels[b] = 128 /\ ResNet!Channels[b + 1] = 128 /\ ResNet!Height[b] = 20 /\ ResNet!Height[b + 1] = 20
    BY <1>6 DEF ResNet!Channels, ResNet!Height
  <2> QED
    BY <1>1, <2>1, <2>2, <2>3 DEF Follows
<1>7. CASE b = 14
  <2>1. ResNet!Blocks[b] = ResNet!Block(30, 31, 32)
    BY <1>7, BlocksAre
  <2>2. ResNet!Channels[b] = 128 /\ ResNet!Channels[b + 1] = 256 /\ ResNet!Height[b] = 20 /\ ResNet!Height[b + 1] = 10
    BY <1>7 DEF ResNet!Channels, ResNet!Height
  <2> QED
    BY <1>1, <2>1, <2>2, TableIs DEF Follows
<1>8. CASE b \in 15 .. 16
  <2>1. ResNet!Blocks[b] = ResNet!Block(2 * b + 3, 2 * b + 4, 0)
    BY <1>8, BlocksAre
  <2>2. ResNet!CONVS[2 * b + 3] = ResNet!Conv(256, 256, 3, 1) /\ ResNet!CONVS[2 * b + 4] = ResNet!Conv(256, 256, 3, 1)
    BY <1>8, TableIs
  <2>3. ResNet!Channels[b] = 256 /\ ResNet!Channels[b + 1] = 256 /\ ResNet!Height[b] = 10 /\ ResNet!Height[b + 1] = 10
    BY <1>8 DEF ResNet!Channels, ResNet!Height
  <2> QED
    BY <1>1, <2>1, <2>2, <2>3 DEF Follows
<1> QED
  BY <1>2, <1>3, <1>4, <1>5, <1>6, <1>7, <1>8

(* The shape a convolution leaves. *)
LEMMA OutputIs ==
  ASSUME NEW c, NEW t, NEW name, NEW oc, NEW ic, t.h \in Int, t.w \in Int
  PROVE  LET o == ResNet!Output(c, t, name) IN
         /\ ResNet!CONVS[c] = ResNet!Conv(oc, ic, 3, 1) => o = ResNet!Tensor(name, t.n, oc, t.h, t.w)
         /\ ResNet!CONVS[c] \in {ResNet!Conv(oc, ic, 3, 2), ResNet!Conv(oc, ic, 1, 2)} =>
              o = ResNet!Tensor(name, t.n, oc, ((t.h - 1) \div 2) + 1, ((t.w - 1) \div 2) + 1)
<1>1. CASE ResNet!CONVS[c] = ResNet!Conv(oc, ic, 3, 1)
  <2>1. ResNet!CONVS[c].oc = oc /\ ResNet!CONVS[c].k = 3 /\ ResNet!CONVS[c].stride = 1
    BY <1>1 DEF ResNet!Conv
  <2>2. ResNet!CONVS[c] \notin {ResNet!Conv(oc, ic, 3, 2), ResNet!Conv(oc, ic, 1, 2)}
    BY <1>1 DEF ResNet!Conv
  <2>3. (t.h + 2 - 3) \div 1 + 1 = t.h /\ (t.w + 2 - 3) \div 1 + 1 = t.w
    OBVIOUS
  <2> QED
    BY <2>1, <2>2, <2>3 DEF ResNet!Output
<1>2. CASE ResNet!CONVS[c] = ResNet!Conv(oc, ic, 3, 2)
  <2>1. ResNet!CONVS[c].oc = oc /\ ResNet!CONVS[c].k = 3 /\ ResNet!CONVS[c].stride = 2
    BY <1>2 DEF ResNet!Conv
  <2>2. ResNet!CONVS[c] # ResNet!Conv(oc, ic, 3, 1)
    BY <1>2 DEF ResNet!Conv
  <2>3. t.h + 2 - 3 = t.h - 1 /\ t.w + 2 - 3 = t.w - 1
    OBVIOUS
  <2> QED
    BY <2>1, <2>2, <2>3 DEF ResNet!Output
<1>3. CASE ResNet!CONVS[c] = ResNet!Conv(oc, ic, 1, 2)
  <2>1. ResNet!CONVS[c].oc = oc /\ ResNet!CONVS[c].k = 1 /\ ResNet!CONVS[c].stride = 2
    BY <1>3 DEF ResNet!Conv
  <2>2. ResNet!CONVS[c] # ResNet!Conv(oc, ic, 3, 1)
    BY <1>3 DEF ResNet!Conv
  <2>3. t.h + 0 - 1 = t.h - 1 /\ t.w + 0 - 1 = t.w - 1
    OBVIOUS
  <2> QED
    BY <2>1, <2>2, <2>3 DEF ResNet!Output
<1> QED
  BY <1>1, <1>2, <1>3

(* The buffers of a step, and what it has read so far. *)
IsTls(tls) == tls = [xq |-> tls.xq, seed |-> tls.seed, reads |-> tls.reads]
Own(rs) == \A r \in rs : r.of = r.input /\ r.lattice = ResNet!Lattice(r.conv)
SeedFits(tls, c, t) ==
  ResNet!IntegerLayer(c) /\ tls.seed = [lattice |-> ResNet!Lattice(c), len |-> ResNet!Length(t)]
    => tls.xq = ResNet!Quantized(t, ResNet!Lattice(c))
Takes(c) == ResNet!IntegerLayer(c) /\ ~net.rten

(* A convolution that takes no other's seed reads its input, and leaves no     *)
(* seed or the one it found.                                                 *)
LEMMA SeededReads ==
  ASSUME NEW tls, IsTls(tls), Own(tls.reads), NEW c, NEW t,
         tls.seed = [lattice |-> ResNet!Lattice(c), len |-> ResNet!Length(t)] => tls.xq = ResNet!Quantized(t, ResNet!Lattice(c))
  PROVE  LET u == ResNet!ReadSeededOrQuantize(tls, c, t) IN
         IsTls(u) /\ Own(u.reads) /\ u.seed = ResNet!NoSeed
<1> DEFINE q == IF tls.seed = [lattice |-> ResNet!Lattice(c), len |-> ResNet!Length(t)]
                THEN tls.xq ELSE ResNet!Quantized(t, ResNet!Lattice(c))
           u == ResNet!ReadSeededOrQuantize(tls, c, t)
           r == ResNet!Read(c, t.name, q.of, q.lattice)
<1>1. q = ResNet!Quantized(t, ResNet!Lattice(c))
  OBVIOUS
<1>2. q.of = t.name /\ q.lattice = ResNet!Lattice(c)
  BY <1>1 DEF ResNet!Quantized
<1>3. u = [xq |-> q, seed |-> ResNet!NoSeed, reads |-> tls.reads \cup {r}]
  <2>1. ResNet!TakeSeed(tls) = [xq |-> tls.xq, seed |-> ResNet!NoSeed, reads |-> tls.reads]
    BY DEF ResNet!TakeSeed, IsTls
  <2>2. u = [ResNet!TakeSeed(tls) EXCEPT !.xq = q, !.reads = @ \cup {r}]
    BY DEF ResNet!ReadSeededOrQuantize
  <2> DEFINE gone == [xq |-> tls.xq, seed |-> ResNet!NoSeed, reads |-> tls.reads]
  <2> HIDE DEF q, r, u
  <2>3. u = [gone EXCEPT !.xq = q, !.reads = @ \cup {r}]
    BY <2>1, <2>2
  <2>4. [gone EXCEPT !.xq = q] = [xq |-> q, seed |-> ResNet!NoSeed, reads |-> tls.reads]
    OBVIOUS
  <2> HIDE DEF gone
  <2>5. u = [[gone EXCEPT !.xq = q] EXCEPT !.reads = @ \cup {r}]
    BY <2>3
  <2> QED
    BY <2>4, <2>5
<1> HIDE DEF q, u
<1>4. r.of = r.input /\ r.lattice = ResNet!Lattice(r.conv)
  BY <1>2 DEF ResNet!Read
<1>5. u.reads = tls.reads \cup {r} /\ u.seed = ResNet!NoSeed /\ IsTls(u)
  BY <1>3 DEF IsTls
<1>6. Own(u.reads)
  BY <1>4, <1>5 DEF Own
<1> QED
  BY <1>5, <1>6 DEF u

LEMMA ForwardReads ==
  ASSUME NEW tls, IsTls(tls), Own(tls.reads), NEW c, NEW t, SeedFits(tls, c, t)
  PROVE  LET u == ResNet!ForwardInto(tls, c, t) IN
         /\ IsTls(u) /\ Own(u.reads)
         /\ u.seed = ResNet!NoSeed \/ (~Takes(c) /\ u.seed = tls.seed /\ u.xq = tls.xq)
<1>1. CASE Takes(c)
  <2>1. ResNet!ForwardInto(tls, c, t) = ResNet!ReadSeededOrQuantize(tls, c, t)
    BY <1>1 DEF Takes, ResNet!ForwardInto
  <2>2. tls.seed = [lattice |-> ResNet!Lattice(c), len |-> ResNet!Length(t)] => tls.xq = ResNet!Quantized(t, ResNet!Lattice(c))
    BY <1>1 DEF Takes, SeedFits
  <2> QED
    BY <2>1, <2>2, SeededReads
<1>2. CASE ~Takes(c)
  <2> DEFINE u == ResNet!ForwardInto(tls, c, t)
             r == ResNet!Read(c, t.name, t.name, ResNet!Lattice(c))
  <2>1. u = [xq |-> tls.xq, seed |-> tls.seed, reads |-> tls.reads \cup {r}]
    BY <1>2 DEF Takes, ResNet!ForwardInto, IsTls
  <2>2. r.of = r.input /\ r.lattice = ResNet!Lattice(r.conv)
    BY DEF ResNet!Read
  <2> HIDE DEF u, r
  <2>3. u.reads = tls.reads \cup {r} /\ u.seed = tls.seed /\ u.xq = tls.xq /\ IsTls(u)
    BY <2>1 DEF IsTls
  <2>4. Own(u.reads)
    BY <2>2, <2>3 DEF Own
  <2> QED
    BY <1>2, <2>3, <2>4 DEF u
<1> QED
  BY <1>1, <1>2

(* The end of a block leaves what it read, and the seed of the next.          *)
LEMMA FinishLeaves ==
  ASSUME NEW tls, IsTls(tls), Own(tls.reads), NEW t, NEW lattice
  PROVE  LET u == ResNet!Finish(tls, t, lattice) IN
         /\ IsTls(u) /\ Own(u.reads)
         /\ lattice # ResNet!None =>
              /\ u.seed = [lattice |-> lattice, len |-> ResNet!Length(t)]
              /\ u.xq = ResNet!Quantized(t, lattice)
  BY DEF ResNet!Finish, IsTls

(* Of a network whose seeds are told apart, a block reads its own input.      *)
LEMMA BlockReads ==
  ASSUME NEW n \in 1 .. 16, net \in Nets, ResNet!ResNetAssumption,
         NEW y, NEW tls, IsTls(tls), Own(tls.reads),
         LET lattice == ResNet!Lattice(ResNet!Blocks[n].conv1) IN
           lattice # ResNet!None =>
             tls.seed = [lattice |-> lattice, len |-> ResNet!Length(x)] /\ tls.xq = ResNet!Quantized(x, lattice)
  PROVE  LET b == ResNet!Blocks[n]
             float == ResNet!ForwardInto(ResNet!ForwardInto(tls, b.conv1, x), b.conv2, y)
             down == ResNet!ForwardInto(float, b.down, x)
         IN /\ IsTls(float) /\ Own(float.reads)
            /\ b.down # 0 => IsTls(down) /\ Own(down.reads)
<1> DEFINE b == ResNet!Blocks[n]
           lattice == ResNet!Lattice(b.conv1)
           first == ResNet!ForwardInto(tls, b.conv1, x)
           float == ResNet!ForwardInto(first, b.conv2, y)
           down == ResNet!ForwardInto(float, b.down, x)
<1>1. /\ lattice = ResNet!None => ~ResNet!IntegerLayer(b.conv2) /\ (b.down # 0 => ~ResNet!IntegerLayer(b.down))
      /\ lattice # ResNet!None =>
           ResNet!IntegerLayer(b.conv1) \/ ~ResNet!IntegerLayer(b.conv2) \/ ResNet!Lattice(b.conv2) # lattice
  <2>1. b \in {ResNet!Blocks[i] : i \in DOMAIN ResNet!Blocks}
    BY BlocksAre
  <2>2. ResNet!SeedsTellApart(net)
    BY DEF ResNet!ResNetAssumption
  <2> QED
    BY <2>1, <2>2 DEF ResNet!SeedsTellApart, ResNet!IntegerLayer, ResNet!Lattice
<1>2. lattice # ResNet!None =>
        tls.seed = [lattice |-> lattice, len |-> ResNet!Length(x)] /\ tls.xq = ResNet!Quantized(x, lattice)
  OBVIOUS
<1>3. \A c : ResNet!IntegerLayer(c) => ResNet!Lattice(c) # ResNet!None
  BY DEF ResNet!IntegerLayer
<1> HIDE DEF b, lattice
<1>4. SeedFits(tls, b.conv1, x)
  BY <1>2, <1>3 DEF SeedFits, lattice
<1>5. /\ IsTls(first) /\ Own(first.reads)
      /\ first.seed = ResNet!NoSeed \/ (~Takes(b.conv1) /\ first.seed = tls.seed /\ first.xq = tls.xq)
  BY <1>4, ForwardReads
<1> HIDE DEF first
<1>6. ASSUME NEW c, NEW t, NEW u, u.seed = ResNet!NoSeed
      PROVE  SeedFits(u, c, t)
  <2>1. ResNet!NoSeed.lattice = ResNet!None
    BY DEF ResNet!NoSeed
  <2>2. [lattice |-> ResNet!Lattice(c), len |-> ResNet!Length(t)].lattice = ResNet!Lattice(c)
    OBVIOUS
  <2> QED
    BY <1>3, <1>6, <2>1, <2>2 DEF SeedFits
<1>7. CASE net.rten
  <2>1. \A c : ~Takes(c)
    BY <1>7 DEF Takes
  <2>2. ASSUME NEW u, NEW c, NEW t, IsTls(u), Own(u.reads)
        PROVE  IsTls(ResNet!ForwardInto(u, c, t)) /\ Own(ResNet!ForwardInto(u, c, t).reads)
    <3> DEFINE r == ResNet!Read(c, t.name, t.name, ResNet!Lattice(c))
               v == ResNet!ForwardInto(u, c, t)
    <3>1. v = [xq |-> u.xq, seed |-> u.seed, reads |-> u.reads \cup {r}]
      BY <2>1, <2>2 DEF Takes, ResNet!ForwardInto, IsTls
    <3>2. r.of = r.input /\ r.lattice = ResNet!Lattice(r.conv)
      BY DEF ResNet!Read
    <3> HIDE DEF v, r
    <3>3. v.reads = u.reads \cup {r} /\ IsTls(v)
      BY <3>1 DEF IsTls
    <3>4. Own(v.reads)
      BY <2>2, <3>2, <3>3 DEF Own
    <3> QED
      BY <3>3, <3>4 DEF v
  <2>3. IsTls(float) /\ Own(float.reads)
    BY <1>5, <2>2
  <2>4. IsTls(down) /\ Own(down.reads)
    BY <2>2, <2>3
  <2> QED
    BY <2>3, <2>4 DEF first, b
<1>8. CASE ~net.rten
  <2>1. SeedFits(first, b.conv2, y)
    <3>1. CASE first.seed = ResNet!NoSeed
      BY <1>6, <3>1
    <3>2. CASE ~Takes(b.conv1) /\ first.seed = tls.seed /\ first.xq = tls.xq
      <4>1. ~ResNet!IntegerLayer(b.conv1)
        BY <1>8, <3>2 DEF Takes
      <4>2. SUFFICES ASSUME ResNet!IntegerLayer(b.conv2),
                            first.seed = [lattice |-> ResNet!Lattice(b.conv2), len |-> ResNet!Length(y)]
                     PROVE  FALSE
        BY DEF SeedFits
      <4>3. lattice # ResNet!None /\ ResNet!Lattice(b.conv2) # lattice
        BY <1>1, <4>1, <4>2
      <4>4. [lattice |-> lattice, len |-> ResNet!Length(x)] = [lattice |-> ResNet!Lattice(b.conv2), len |-> ResNet!Length(y)]
        BY <1>2, <3>2, <4>2, <4>3
      <4>5. [lattice |-> lattice, len |-> ResNet!Length(x)].lattice = [lattice |-> ResNet!Lattice(b.conv2), len |-> ResNet!Length(y)].lattice
        BY <4>4
      <4> QED
        BY <4>3, <4>5
    <3> QED
      BY <1>5, <3>1, <3>2
  <2>2. /\ IsTls(float) /\ Own(float.reads)
        /\ float.seed = ResNet!NoSeed \/ (float.seed = first.seed /\ float.xq = first.xq)
    BY <1>5, <2>1, ForwardReads
  <2> HIDE DEF float
  <2>3. ASSUME b.down # 0
        PROVE  SeedFits(float, b.down, x)
    <3>1. CASE float.seed = ResNet!NoSeed
      BY <1>6, <3>1
    <3>2. CASE float.seed = tls.seed /\ float.xq = tls.xq
      <4> SUFFICES ASSUME ResNet!IntegerLayer(b.down),
                          float.seed = [lattice |-> ResNet!Lattice(b.down), len |-> ResNet!Length(x)]
                   PROVE  float.xq = ResNet!Quantized(x, ResNet!Lattice(b.down))
        BY DEF SeedFits
      <4>1. lattice # ResNet!None
        BY <1>1, <2>3
      <4>2. [lattice |-> lattice, len |-> ResNet!Length(x)] = [lattice |-> ResNet!Lattice(b.down), len |-> ResNet!Length(x)]
        BY <1>2, <3>2, <4>1
      <4>3. [lattice |-> lattice, len |-> ResNet!Length(x)].lattice = [lattice |-> ResNet!Lattice(b.down), len |-> ResNet!Length(x)].lattice
        BY <4>2
      <4>4. lattice = ResNet!Lattice(b.down)
        BY <4>3
      <4> QED
        BY <1>2, <3>2, <4>1, <4>4
    <3> QED
      BY <1>5, <2>2, <3>1, <3>2
  <2>4. b.down # 0 => IsTls(down) /\ Own(down.reads)
    BY <2>2, <2>3, ForwardReads
  <2> QED
    BY <2>2, <2>4 DEF first, float, b
<1> QED
  BY <1>7, <1>8

(* The same of an identity block computed in integers throughout.             *)
LEMMA IdentityReads ==
  ASSUME NEW n \in 1 .. 16, ResNet!TryI8Identity(ResNet!Blocks[n]),
         NEW tls, IsTls(tls), Own(tls.reads),
         LET lattice == ResNet!Lattice(ResNet!Blocks[n].conv1) IN
           lattice # ResNet!None =>
             tls.seed = [lattice |-> lattice, len |-> ResNet!Length(x)] /\ tls.xq = ResNet!Quantized(x, lattice)
  PROVE  LET u == ResNet!I8Identity(tls, ResNet!Blocks[n], x) IN IsTls(u) /\ Own(u.reads)
<1> DEFINE b == ResNet!Blocks[n]
           lattice == ResNet!Lattice(b.conv1)
           y == ResNet!Output(b.conv1, x, <<"y", calls, block>>)
           first == ResNet!ReadSeededOrQuantize(tls, b.conv1, x)
           r == ResNet!Read(b.conv2, y.name, y.name, ResNet!Lattice(b.conv2))
           u == ResNet!I8Identity(tls, b, x)
<1>1. lattice # ResNet!None
  BY DEF ResNet!TryI8Identity
<1>2. tls.xq = ResNet!Quantized(x, lattice)
  BY <1>1
<1>3. IsTls(first) /\ Own(first.reads) /\ first.seed = ResNet!NoSeed
  BY <1>2, SeededReads
<1>4. u = [first EXCEPT !.reads = @ \cup {r}]
  BY DEF ResNet!I8Identity
<1>5. r.of = r.input /\ r.lattice = ResNet!Lattice(r.conv)
  BY DEF ResNet!Read
<1> HIDE DEF first, r, u, y
<1>6. u = [xq |-> first.xq, seed |-> first.seed, reads |-> first.reads \cup {r}]
  BY <1>3, <1>4 DEF IsTls
<1>7. u.reads = first.reads \cup {r} /\ IsTls(u)
  BY <1>6 DEF IsTls
<1>8. Own(u.reads)
  BY <1>3, <1>5, <1>7 DEF Own
<1> QED
  BY <1>7, <1>8 DEF u

(* The shapes of a block: its convolutions chain, and both sides of its        *)
(* addition have the shape the next block is to get.                         *)
LEMMA BlockShapes ==
  ASSUME NEW n \in 1 .. 16, n = block, ResNet!ActivationsFit, NEW yName, NEW zName, NEW dName
  PROVE  LET b == ResNet!Blocks[n]
             y == ResNet!Output(b.conv1, x, yName)
             z == ResNet!Output(b.conv2, y, zName)
             d == ResNet!Output(b.down, x, dName)
         IN /\ ResNet!CONVS[b.conv1].ic = x.c /\ ResNet!CONVS[b.conv2].ic = y.c
            /\ x = ResNet!Tensor(x.name, x.n, x.c, x.h, x.w) /\ x.w \in Int
            /\ b.down = 0 =>
                 /\ z.c = x.c /\ z.h = x.h /\ z.w = x.w
                 /\ x.c = ResNet!Channels[n + 1] /\ x.h = ResNet!Height[n + 1]
            /\ b.down # 0 =>
                 /\ ResNet!CONVS[b.down].ic = x.c
                 /\ z.c = d.c /\ z.h = d.h /\ z.w = d.w
                 /\ d = ResNet!Tensor(dName, x.n, d.c, d.h, d.w) /\ d.w \in Int
                 /\ d.c = ResNet!Channels[n + 1] /\ d.h = ResNet!Height[n + 1]
<1> DEFINE b == ResNet!Blocks[n]
           y == ResNet!Output(b.conv1, x, yName)
           z == ResNet!Output(b.conv2, y, zName)
           d == ResNet!Output(b.down, x, dName)
           C == ResNet!Channels[n]
           D == ResNet!Channels[n + 1]
           H == ResNet!Height[n]
           E == ResNet!Height[n + 1]
           V == ((x.w - 1) \div 2) + 1
<1>1. /\ x = ResNet!Tensor(x.name, x.n, x.c, x.h, x.w) /\ x.c = C /\ x.h = H /\ x.w \in Int
  BY DEF ResNet!ActivationsFit
<1>2. /\ b.down = 0 =>
            /\ ResNet!CONVS[b.conv1] = ResNet!Conv(C, C, 3, 1) /\ ResNet!CONVS[b.conv2] = ResNet!Conv(C, C, 3, 1)
            /\ D = C /\ E = H
      /\ b.down # 0 =>
            /\ ResNet!CONVS[b.conv1] = ResNet!Conv(D, C, 3, 2) /\ ResNet!CONVS[b.conv2] = ResNet!Conv(D, D, 3, 1)
            /\ ResNet!CONVS[b.down] = ResNet!Conv(D, C, 1, 2) /\ E = ((H - 1) \div 2) + 1
      /\ C \in Nat /\ D \in Nat /\ H \in Nat
  BY BlocksFollow DEF Follows
<1>3. \A oc, ic, k, s : ResNet!Conv(oc, ic, k, s).ic = ic
  BY DEF ResNet!Conv
<1>4. \A name, i, c, h, w : LET t == ResNet!Tensor(name, i, c, h, w) IN t.n = i /\ t.c = c /\ t.h = h /\ t.w = w
  BY DEF ResNet!Tensor
<1>5. V \in Int /\ x.h \in Int /\ x.w \in Int
  BY <1>1, <1>2
<1> HIDE DEF b, C, D, H, E
<1>6. CASE b.down = 0
  <2>1. y = ResNet!Tensor(yName, x.n, C, H, x.w)
    BY <1>1, <1>2, <1>5, <1>6, OutputIs
  <2> HIDE DEF y
  <2>2. y.n = x.n /\ y.c = C /\ y.h = H /\ y.w = x.w /\ y.h \in Int /\ y.w \in Int
    BY <1>1, <1>2, <1>4, <2>1
  <2>3. z = ResNet!Tensor(zName, y.n, C, y.h, y.w)
    BY <1>2, <1>6, <2>2, OutputIs
  <2> HIDE DEF z
  <2>4. z.c = C /\ z.h = H /\ z.w = x.w
    BY <1>4, <2>2, <2>3
  <2>5. ResNet!CONVS[b.conv1].ic = C /\ ResNet!CONVS[b.conv2].ic = C
    BY <1>2, <1>3, <1>6
  <2>6. /\ ResNet!CONVS[b.conv1].ic = x.c /\ ResNet!CONVS[b.conv2].ic = y.c
        /\ z.c = x.c /\ z.h = x.h /\ z.w = x.w /\ x.c = D /\ x.h = E
    BY <1>1, <1>2, <1>6, <2>2, <2>4, <2>5
  <2> QED
    BY <1>1, <1>6, <2>6 DEF b, y, z, D, E
<1>7. CASE b.down # 0
  <2>1. y = ResNet!Tensor(yName, x.n, D, E, V)
    <3>1. ResNet!CONVS[b.conv1] \in {ResNet!Conv(D, C, 3, 2), ResNet!Conv(D, C, 1, 2)}
      BY <1>2, <1>7
    <3>2. y = ResNet!Tensor(yName, x.n, D, ((x.h - 1) \div 2) + 1, V)
      BY <1>5, <3>1, OutputIs
    <3> QED
      BY <1>1, <1>2, <1>7, <3>2
  <2>2. d = ResNet!Tensor(dName, x.n, D, E, V)
    <3>1. ResNet!CONVS[b.down] \in {ResNet!Conv(D, C, 3, 2), ResNet!Conv(D, C, 1, 2)}
      BY <1>2, <1>7
    <3>2. d = ResNet!Tensor(dName, x.n, D, ((x.h - 1) \div 2) + 1, V)
      BY <1>5, <3>1, OutputIs
    <3> QED
      BY <1>1, <1>2, <1>7, <3>2
  <2> HIDE DEF y, d
  <2>3. E \in Int
    BY <1>2, <1>7
  <2>4. y.n = x.n /\ y.c = D /\ y.h = E /\ y.w = V /\ y.h \in Int /\ y.w \in Int
    BY <1>4, <1>5, <2>1, <2>3
  <2>5. z = ResNet!Tensor(zName, y.n, D, y.h, y.w)
    BY <1>2, <1>7, <2>4, OutputIs
  <2> HIDE DEF z
  <2>6. z.c = D /\ z.h = E /\ z.w = V /\ d.c = D /\ d.h = E /\ d.w = V
    BY <1>4, <2>2, <2>4, <2>5
  <2>7. ResNet!CONVS[b.conv1].ic = C /\ ResNet!CONVS[b.conv2].ic = D /\ ResNet!CONVS[b.down].ic = C
    BY <1>2, <1>3, <1>7
  <2>8. /\ ResNet!CONVS[b.conv1].ic = x.c /\ ResNet!CONVS[b.conv2].ic = y.c /\ ResNet!CONVS[b.down].ic = x.c
        /\ z.c = d.c /\ z.h = d.h /\ z.w = d.w /\ d.w \in Int
        /\ d = ResNet!Tensor(dName, x.n, d.c, d.h, d.w) /\ d.c = D /\ d.h = E
    BY <1>1, <1>5, <2>2, <2>4, <2>6, <2>7
  <2> QED
    BY <1>1, <1>7, <2>8 DEF b, y, z, d, D, E
<1> QED
  BY <1>6, <1>7

(* The layers fit whenever the activations do. *)
LEMMA LayersFitHolds == ResNet!SeedIInv => ResNet!LayersFit
<1> SUFFICES ASSUME ResNet!SeedIInv PROVE ResNet!LayersFit
  OBVIOUS
<1>1. ResNet!ActivationsFit
  BY DEF ResNet!SeedIInv
<1>2. ASSUME block \in 1 .. 16
      PROVE  LET b == ResNet!Blocks[block]
                 y == ResNet!Output(b.conv1, x, <<>>)
                 z == ResNet!Output(b.conv2, y, <<>>)
                 d == IF b.down = 0 THEN x ELSE ResNet!Output(b.down, x, <<>>)
             IN /\ ResNet!CONVS[b.conv1].ic = x.c /\ ResNet!CONVS[b.conv2].ic = y.c
                /\ b.down # 0 => ResNet!CONVS[b.down].ic = x.c
                /\ <<z.c, z.h, z.w>> = <<d.c, d.h, d.w>>
  <2>1. PICK n \in 1 .. 16 : n = block
    BY <1>2
  <2> DEFINE e == <<>>
             b == ResNet!Blocks[n]
             y == ResNet!Output(b.conv1, x, e)
             z == ResNet!Output(b.conv2, y, e)
             d == ResNet!Output(b.down, x, e)
  <2> HIDE DEF e
  <2>2. ResNet!CONVS[b.conv1].ic = x.c /\ ResNet!CONVS[b.conv2].ic = y.c
    BY <1>1, <2>1, BlockShapes, SMTT(60)
  <2>3. b.down = 0 => z.c = x.c /\ z.h = x.h /\ z.w = x.w
    BY <1>1, <2>1, BlockShapes, SMTT(60)
  <2>4. b.down # 0 => ResNet!CONVS[b.down].ic = x.c /\ z.c = d.c /\ z.h = d.h /\ z.w = d.w
    BY <1>1, <2>1, BlockShapes, SMTT(60)
  <2> HIDE DEF b, y, z, d
  <2>5. CASE b.down = 0
    BY <2>1, <2>2, <2>3, <2>5 DEF b, y, z, d, e
  <2>6. CASE b.down # 0
    BY <2>1, <2>2, <2>4, <2>6 DEF b, y, z, d, e
  <2> QED
    BY <2>5, <2>6
<1>3. block = 17 => 2 * x.c * x.h = 5120
  <2> SUFFICES ASSUME block = 17 PROVE 2 * x.c * x.h = 5120
    OBVIOUS
  <2>1. x.c = 256 /\ x.h = 10
    BY <1>1 DEF ResNet!ActivationsFit, ResNet!Channels, ResNet!Height
  <2> QED
    BY <2>1
<1> QED
  BY <1>2, <1>3, BlocksAre DEF ResNet!LayersFit, ResNet!FcIn

(* The machine of the embedder network. *)
LEMMA SeedInit == ResNet!Init => ResNet!SeedIInv
<1> SUFFICES ASSUME ResNet!Init PROVE ResNet!SeedIInv
  OBVIOUS
<1>1. net \in Nets /\ block = 0 /\ reads = {}
  BY DEF ResNet!Init
<1> QED
  BY <1>1 DEF ResNet!SeedIInv, ResNet!ActivationsFit, ResNet!SeedIsFresh, ResNet!ReadsOwnInput

(* What a step that ends in the activations of block n leaves.                *)
LEMMA NextBlockFits ==
  ASSUME NEW n \in 1 .. 17, block' = n, net' = net, net \in Nets,
         NEW tls, IsTls(tls), Own(tls.reads), NEW lattice, lattice = ResNet!None \/ n \in 1 .. 16,
         n \in 1 .. 16 => lattice = ResNet!Lattice(ResNet!Blocks[n].conv1),
         ResNet!Keep(ResNet!Finish(tls, x', lattice)),
         x' = ResNet!Tensor(x'.name, x'.n, x'.c, x'.h, x'.w),
         x'.c = ResNet!Channels[n], x'.h = ResNet!Height[n], x'.w \in Int
  PROVE  ResNet!SeedIInv'
<1> DEFINE u == ResNet!Finish(tls, x', lattice)
<1>1. Own(u.reads) /\ (lattice # ResNet!None => u.seed = [lattice |-> lattice, len |-> ResNet!Length(x')] /\ u.xq = ResNet!Quantized(x', lattice))
  BY FinishLeaves
<1>2. xq' = u.xq /\ seed' = u.seed /\ reads' = u.reads
  BY DEF ResNet!Keep
<1> HIDE DEF u
<1>3. \A c : ResNet!Lattice(c)' = ResNet!Lattice(c)
  BY DEF ResNet!Lattice
<1>4. ResNet!ReadsOwnInput'
  BY <1>1, <1>2, <1>3 DEF ResNet!ReadsOwnInput, Own
<1>5. ResNet!ActivationsFit'
  BY DEF ResNet!ActivationsFit
<1>6. ResNet!SeedIsFresh'
  <2> SUFFICES ASSUME n \in 1 .. 16, ResNet!Lattice(ResNet!Blocks[n].conv1) # ResNet!None
               PROVE  /\ seed' = [lattice |-> lattice, len |-> ResNet!Length(x')]
                      /\ xq' = ResNet!Quantized(x', lattice)
    BY <1>3 DEF ResNet!SeedIsFresh
  <2> QED
    BY <1>1, <1>2
<1> QED
  BY <1>4, <1>5, <1>6 DEF ResNet!SeedIInv

LEMMA StemKeeps == ASSUME ResNet!ResNetAssumption, ResNet!SeedIInv, ResNet!Stem PROVE ResNet!SeedIInv'
<1>1. PICK in \in Inputs :
        LET fbank == ResNet!Tensor(<<"fbank", calls'>>, in[1], 1, ResNet!NMels, in[2])
            o == ResNet!Output(1, fbank, <<"x", calls', 1>>)
        IN /\ x' = o
           /\ ResNet!Keep(ResNet!Finish(ResNet!ForwardInto(ResNet!Tls, 1, fbank), o, ResNet!Lattice(ResNet!Blocks[1].conv1)))
  BY DEF ResNet!Stem
<1> DEFINE fbank == ResNet!Tensor(<<"fbank", calls'>>, in[1], 1, ResNet!NMels, in[2])
           tls == ResNet!ForwardInto(ResNet!Tls, 1, fbank)
<1>2. block' = 1 /\ net' = net /\ net \in Nets
  BY DEF ResNet!Stem, ResNet!SeedIInv
<1>3. in[1] \in Nat /\ in[2] \in Nat
  BY DEF ResNet!ResNetAssumption
<1>4. fbank.n = in[1] /\ fbank.h = 80 /\ fbank.w = in[2]
  BY DEF ResNet!Tensor, ResNet!NMels
<1>5. ResNet!Output(1, fbank, <<"x", calls', 1>>) = ResNet!Tensor(<<"x", calls', 1>>, in[1], 32, 80, in[2])
  <2> HIDE DEF fbank
  <2> QED
    BY <1>3, <1>4, TableIs, OutputIs
<1>6. x' = ResNet!Tensor(<<"x", calls', 1>>, in[1], 32, 80, in[2])
  BY <1>1, <1>5
<1>7. /\ x' = ResNet!Tensor(x'.name, x'.n, x'.c, x'.h, x'.w)
      /\ x'.c = 32 /\ x'.h = 80 /\ x'.w \in Int
  BY <1>3, <1>6 DEF ResNet!Tensor
<1>8. IsTls(ResNet!Tls) /\ Own(ResNet!Tls.reads)
  BY DEF ResNet!Tls, IsTls, Own
<1>9. ~ResNet!IntegerLayer(1)
  BY <1>2 DEF ResNet!ResNetAssumption, ResNet!SeedsTellApart, ResNet!IntegerLayer, ResNet!Lattice
<1>10. SeedFits(ResNet!Tls, 1, fbank)
  BY <1>9 DEF SeedFits
<1> HIDE DEF fbank
<1>11. IsTls(tls) /\ Own(tls.reads)
  BY <1>8, <1>10, ForwardReads
<1>12. ResNet!Keep(ResNet!Finish(tls, x', ResNet!Lattice(ResNet!Blocks[1].conv1)))
  BY <1>1 DEF fbank
<1>13. ResNet!Channels[1] = 32 /\ ResNet!Height[1] = 80
  BY DEF ResNet!Channels, ResNet!Height
<1> HIDE DEF tls
<1>14. 1 \in 1 .. 17 /\ 1 \in 1 .. 16
  OBVIOUS
<1> QED
  BY <1>2, <1>7, <1>11, <1>12, <1>13, <1>14, NextBlockFits

LEMMA RunBlockKeeps == ASSUME ResNet!ResNetAssumption, ResNet!SeedIInv, ResNet!RunBlock PROVE ResNet!SeedIInv'
<1> DEFINE b == ResNet!Blocks[block]
           y == ResNet!Output(b.conv1, x, <<"y", calls, block>>)
           z == ResNet!Output(b.conv2, y, <<"z", calls, block>>)
           float == ResNet!ForwardInto(ResNet!ForwardInto(ResNet!Tls, b.conv1, x), b.conv2, y)
           sum == [(IF b.down = 0 THEN x ELSE ResNet!Output(b.down, x, <<"d">>))
                     EXCEPT !.name = <<"x", calls, block + 1>>]
           convs == CASE b.down = 0 /\ ResNet!TryI8Identity(b) -> ResNet!I8Identity(ResNet!Tls, b, x)
                      [] b.down = 0 /\ ~ResNet!TryI8Identity(b) -> float
                      [] OTHER -> ResNet!ForwardInto(float, b.down, x)
<1>1. /\ block \in 1 .. 16 /\ block' = block + 1 /\ net' = net /\ net \in Nets
      /\ x' = sum /\ ResNet!Keep(ResNet!Finish(convs, sum, ResNet!NextLattice))
  BY BlocksAre DEF ResNet!RunBlock, ResNet!SeedIInv
<1>2. PICK n \in 1 .. 16 : n = block
  BY <1>1
<1>3. IsTls(ResNet!Tls) /\ Own(ResNet!Tls.reads) /\ ResNet!Tls.seed = seed /\ ResNet!Tls.xq = xq
  BY DEF ResNet!Tls, IsTls, Own
<1>4. LET lattice == ResNet!Lattice(ResNet!Blocks[n].conv1) IN
        lattice # ResNet!None =>
          ResNet!Tls.seed = [lattice |-> lattice, len |-> ResNet!Length(x)] /\ ResNet!Tls.xq = ResNet!Quantized(x, lattice)
  BY <1>1, <1>2, <1>3 DEF ResNet!SeedIInv, ResNet!SeedIsFresh
<1>5. IsTls(convs) /\ Own(convs.reads)
  <2>1. /\ IsTls(float) /\ Own(float.reads)
        /\ b.down # 0 => IsTls(ResNet!ForwardInto(float, b.down, x)) /\ Own(ResNet!ForwardInto(float, b.down, x).reads)
    BY <1>1, <1>2, <1>3, <1>4, BlockReads
  <2>2. ResNet!TryI8Identity(b) => IsTls(ResNet!I8Identity(ResNet!Tls, b, x)) /\ Own(ResNet!I8Identity(ResNet!Tls, b, x).reads)
    BY <1>2, <1>3, <1>4, IdentityReads
  <2> HIDE DEF float, b
  <2>3. CASE b.down = 0 /\ ResNet!TryI8Identity(b)
    BY <2>2, <2>3
  <2>4. CASE b.down = 0 /\ ~ResNet!TryI8Identity(b)
    BY <2>1, <2>4
  <2>5. CASE b.down # 0
    BY <2>1, <2>5
  <2> QED
    BY <2>3, <2>4, <2>5, SMTT(60)
<1>6. /\ sum = ResNet!Tensor(sum.name, sum.n, sum.c, sum.h, sum.w)
      /\ sum.c = ResNet!Channels[n + 1] /\ sum.h = ResNet!Height[n + 1] /\ sum.w \in Int
  <2> DEFINE d == ResNet!Output(b.down, x, <<"d">>)
             t == IF b.down = 0 THEN x ELSE d
  <2>1. ResNet!ActivationsFit
    BY SMTT(30) DEF ResNet!SeedIInv
  <2>2. /\ x = ResNet!Tensor(x.name, x.n, x.c, x.h, x.w) /\ x.w \in Int
        /\ b.down = 0 => x.c = ResNet!Channels[n + 1] /\ x.h = ResNet!Height[n + 1]
        /\ b.down # 0 =>
             /\ d = ResNet!Tensor(<<"d">>, x.n, d.c, d.h, d.w) /\ d.w \in Int
             /\ d.c = ResNet!Channels[n + 1] /\ d.h = ResNet!Height[n + 1]
    BY <1>2, <2>1, BlockShapes, ZenonT(60)
  <2> HIDE DEF b, d
  <2>3. d = ResNet!Tensor(<<"d">>, x.n, d.c, d.h, d.w) => d = ResNet!Tensor(d.name, d.n, d.c, d.h, d.w)
    BY DEF ResNet!Tensor
  <2>4. /\ t = ResNet!Tensor(t.name, t.n, t.c, t.h, t.w) /\ t.w \in Int
        /\ t.c = ResNet!Channels[n + 1] /\ t.h = ResNet!Height[n + 1]
    <3>1. CASE b.down = 0
      BY <2>2, <3>1
    <3>2. CASE b.down # 0
      BY <2>2, <2>3, <3>2
    <3> QED
      BY <3>1, <3>2
  <2>5. sum = [t EXCEPT !.name = <<"x", calls, block + 1>>]
    BY DEF d
  <2> HIDE DEF t, sum
  <2>6. sum = [name |-> <<"x", calls, block + 1>>, n |-> t.n, c |-> t.c, h |-> t.h, w |-> t.w]
    BY <2>4, <2>5 DEF ResNet!Tensor
  <2>7. /\ sum = ResNet!Tensor(sum.name, sum.n, sum.c, sum.h, sum.w)
        /\ sum.c = t.c /\ sum.h = t.h /\ sum.w = t.w
    BY <2>6 DEF ResNet!Tensor
  <2> QED
    BY <2>4, <2>7
<1>7. /\ ResNet!NextLattice = ResNet!None \/ n + 1 \in 1 .. 16
      /\ n + 1 \in 1 .. 16 => ResNet!NextLattice = ResNet!Lattice(ResNet!Blocks[n + 1].conv1)
  BY <1>2, BlocksAre DEF ResNet!NextLattice
<1> HIDE DEF sum, convs
<1>8. n + 1 \in 1 .. 17 /\ block' = n + 1
  BY <1>1, <1>2
<1>9. ResNet!Keep(ResNet!Finish(convs, x', ResNet!NextLattice))
  BY <1>1
<1>10. /\ x' = ResNet!Tensor(x'.name, x'.n, x'.c, x'.h, x'.w)
       /\ x'.c = ResNet!Channels[n + 1] /\ x'.h = ResNet!Height[n + 1] /\ x'.w \in Int
  BY <1>1, <1>6
<1> QED
  BY <1>1, <1>5, <1>7, <1>8, <1>9, <1>10, NextBlockFits

LEMMA PoolKeeps == ASSUME ResNet!SeedIInv, ResNet!Pool PROVE ResNet!SeedIInv'
<1>1. net' \in Nets /\ block' = 0 /\ reads' = {}
  BY DEF ResNet!Pool
<1> QED
  BY <1>1 DEF ResNet!SeedIInv, ResNet!ActivationsFit, ResNet!SeedIsFresh, ResNet!ReadsOwnInput

(* Every step of the network keeps the invariant. *)
LEMMA SeedNext ==
  ASSUME ResNet!ResNetAssumption, ResNet!SeedIInv, [ResNet!Next]_resnetVars
  PROVE  ResNet!SeedIInv'
<1>1. CASE ResNet!Stem
  BY <1>1, StemKeeps
<1>2. CASE ResNet!RunBlock
  BY <1>2, RunBlockKeeps
<1>3. CASE ResNet!Pool
  BY <1>3, PoolKeeps
<1>4. CASE UNCHANGED resnetVars
  BY <1>4 DEF resnetVars, ResNet!SeedIInv, ResNet!ActivationsFit, ResNet!SeedIsFresh, ResNet!ReadsOwnInput, ResNet!Lattice
<1> QED
  BY <1>1, <1>2, <1>3, <1>4 DEF ResNet!Next

(* In every behaviour of the embedder network, for any networks whose seeds are *)
(* told apart, any inputs and any number of calls on the thread: every          *)
(* convolution reads its own input on its own lattice, whatever seed an earlier *)
(* block, call or network left, and the table of layers fits the blocks it is  *)
(* dealt into (conv_i8/dispatch.rs, resnet34.rs).                           *)
THEOREM SeedsAreOwnHolds == MCSpec => []SeedsAreOwn
<1> DEFINE I == part = "resnet" => ResNet!SeedIInv
<1>1. ResNet!ResNetAssumption
  BY KernelsAssumption
<1>2. MCInit => I
  BY SeedInit DEF MCInit
<1>3. I /\ [MCNext]_<<part, case, convVars, resnetVars, powersetVars, vars, filterVars>> => I'
  <2> SUFFICES ASSUME I, [MCNext]_<<part, case, convVars, resnetVars, powersetVars, vars, filterVars>>,
                      part' = "resnet"
               PROVE  ResNet!SeedIInv'
    OBVIOUS
  <2>1. part = "resnet" /\ [ResNet!Next]_resnetVars
    BY DEF MCNext
  <2> QED
    BY <1>1, <2>1, SeedNext
<1>4. I => SeedsAreOwn
  BY LayersFitHolds DEF SeedsAreOwn
<1> QED
  BY <1>2, <1>3, <1>4, PTL DEF MCSpec
=============================================================================
