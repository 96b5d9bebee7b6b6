----------------------------- MODULE PackCache -----------------------------
(***************************************************************************)
(* The thread-local caches of packed weight matrices of                    *)
(* polyvoice-kernels/src/rten_matmul.rs.  A matrix multiplication looks    *)
(* its weight operand up by ADDRESS and shape, and packs it on a miss.     *)
(* Addresses are reused once a model is freed, so Drop of a model bumps a  *)
(* process-wide generation before its fields are freed, and every          *)
(* multiplication first compares the generation with the one its thread    *)
(* saw last, and clears the thread's caches when they differ.              *)
(*                                                                         *)
(* A model is one loaded instance (a ResNet34 or a Powerset): it is loaded *)
(* once and dropped at most once.  <<m, l>> is its weight matrix of layer  *)
(* l; Shape[l] stands for the cache the layer uses (F32_A, F32_B or I8_B)  *)
(* and its dimensions.  Rust's ownership is kept: a model is dropped only  *)
(* when no thread is inside a call on it.                                  *)
(***************************************************************************)
EXTENDS Naturals, FiniteSets

CONSTANTS
  Threads,    \* threads that run inference
  Models,     \* model instances
  Layers,     \* the weight matrices of a model
  Shape,      \* Shape[l]: cache and dimensions of layer l
  Addrs,      \* heap addresses
  NoAddr,     \* a matrix that is not allocated
  PackCap     \* PACK_CAP

ASSUME PackAssumption ==
  /\ NoAddr \notin Addrs
  /\ PackCap \in Nat

VARIABLES
  status,     \* [Models -> absent | live | dropping]
  at,         \* [Models \X Layers -> address of the matrix]
  gen,        \* WEIGHT_GENERATION
  seen,       \* PACK_GENERATION of every thread
  packs,      \* the packed matrices of every thread
  pc,         \* where a thread is in its multiplication
  arg,        \* the matrix the thread multiplies with
  loaded,     \* `generation`, the local of refresh_packed_weights
  used        \* the matrix the last product was computed with

vars == <<status, at, gen, seen, packs, pc, arg, loaded, used>>
-----------------------------------------------------------------------------
Matrices == Models \X Layers

Entry == [addr : Addrs, shape : {Shape[l] : l \in Layers}, of : Matrices]

Allocated == {w \in Matrices : at[w] # NoAddr}
FreeAddrs == Addrs \ {at[w] : w \in Allocated}

\* A plausible bug: the lookup compares the shape only.
HitsByShape(t, w) == {p \in packs[t] : p.shape = Shape[w[2]]}

\* The entries the lookup of matrix w can return: same address, same shape.
Hits(t, w) ==
  {p \in packs[t] : p.addr = at[w] /\ p.shape = Shape[w[2]]}

\* A shape belongs to one of the caches; the cap is per cache.
Full(t, w) ==
  Cardinality({p \in packs[t] : p.shape = Shape[w[2]]}) >= PackCap

Init ==
  /\ status = [m \in Models |-> "absent"]
  /\ at = [w \in Matrices |-> NoAddr]
  /\ gen = 0
  /\ seen = [t \in Threads |-> 0]
  /\ packs = [t \in Threads |-> {}]
  /\ pc = [t \in Threads |-> "idle"]
  /\ arg \in [Threads -> Matrices]
  /\ loaded = [t \in Threads |-> 0]
  /\ used = arg
-----------------------------------------------------------------------------
(* The allocator hands the new model's matrices addresses nobody holds.     *)
Load(m) ==
  /\ status[m] = "absent"
  /\ \E f \in [Layers -> FreeAddrs] :
       /\ \A k, l \in Layers : f[k] = f[l] => k = l
       /\ at' = [w \in Matrices |-> IF w[1] = m THEN f[w[2]] ELSE at[w]]
  /\ status' = [status EXCEPT ![m] = "live"]
  /\ UNCHANGED <<gen, seen, packs, pc, arg, loaded, used>>

\* A plausible bug: Drop only frees, nobody hears that addresses may be reused.
DropWithoutBump(m) ==
  /\ status[m] = "live"
  /\ \A t \in Threads : pc[t] # "idle" => arg[t][1] # m
  /\ status' = [status EXCEPT ![m] = "dropping"]
  /\ UNCHANGED <<at, gen, seen, packs, pc, arg, loaded, used>>

(* Drop for ResNet34 and Powerset: runs before the fields are dropped.      *)
Drop(m) ==
  /\ status[m] = "live"
  /\ \A t \in Threads : pc[t] # "idle" => arg[t][1] # m
  /\ gen' = gen + 1
  /\ status' = [status EXCEPT ![m] = "dropping"]
  /\ UNCHANGED <<at, seen, packs, pc, arg, loaded, used>>

(* The fields are freed one by one.                                         *)
FreeField(w) ==
  /\ status[w[1]] = "dropping"
  /\ at[w] # NoAddr
  /\ at' = [at EXCEPT ![w] = NoAddr]
  /\ UNCHANGED <<status, gen, seen, packs, pc, arg, loaded, used>>

-----------------------------------------------------------------------------
(* gemm_*: refresh_packed_weights loads the generation ...                  *)
LoadGeneration(t, w) ==
  /\ pc[t] = "idle"
  /\ status[w[1]] = "live"
  /\ arg' = [arg EXCEPT ![t] = w]
  /\ loaded' = [loaded EXCEPT ![t] = gen]
  /\ pc' = [pc EXCEPT ![t] = "refresh"]
  /\ UNCHANGED <<status, at, gen, seen, packs, used>>

\* A plausible bug: the generation is noted, but the caches are kept.
ClearNothing(t) ==
  /\ pc[t] = "refresh"
  /\ seen' = [seen EXCEPT ![t] = loaded[t]]
  /\ pc' = [pc EXCEPT ![t] = "lookup"]
  /\ UNCHANGED <<status, at, gen, packs, arg, loaded, used>>

(* ... and clears the thread's three caches when it has moved.              *)
ClearStale(t) ==
  /\ pc[t] = "refresh"
  /\ packs' = [packs EXCEPT ![t] = IF seen[t] # loaded[t] THEN {} ELSE @]
  /\ seen' = [seen EXCEPT ![t] = loaded[t]]
  /\ pc' = [pc EXCEPT ![t] = "lookup"]
  /\ UNCHANGED <<status, at, gen, arg, loaded, used>>

(* A hit is multiplied with as it is.                                       *)
MultiplyPacked(t) ==
  /\ pc[t] = "lookup"
  /\ \E p \in Hits(t, arg[t]) : used' = [used EXCEPT ![t] = p.of]
  /\ pc' = [pc EXCEPT ![t] = "idle"]
  /\ UNCHANGED <<status, at, gen, seen, packs, arg, loaded>>

(* A miss packs the operand while there is room, else multiplies unpacked.  *)
MultiplyMiss(t) ==
  /\ pc[t] = "lookup"
  /\ Hits(t, arg[t]) = {}
  /\ \/ /\ ~Full(t, arg[t])
        /\ packs' = [packs EXCEPT ![t] = @ \cup
             {[addr |-> at[arg[t]], shape |-> Shape[arg[t][2]], of |-> arg[t]]}]
     \/ /\ Full(t, arg[t])
        /\ packs' = packs
  /\ used' = [used EXCEPT ![t] = arg[t]]
  /\ pc' = [pc EXCEPT ![t] = "idle"]
  /\ UNCHANGED <<status, at, gen, seen, arg, loaded>>

Lookup(t) == MultiplyPacked(t) \/ MultiplyMiss(t)

Next ==
  \/ \E m \in Models : Load(m) \/ Drop(m)
  \/ \E w \in Matrices : FreeField(w)
  \/ \E t \in Threads :
       \/ \E w \in Matrices : LoadGeneration(t, w)
       \/ ClearStale(t)
       \/ Lookup(t)

Spec == Init /\ [][Next]_vars
-----------------------------------------------------------------------------
TypeOK ==
  /\ status \in [Models -> {"absent", "live", "dropping"}]
  /\ at \in [Matrices -> Addrs \cup {NoAddr}]
  /\ gen \in Nat
  /\ seen \in [Threads -> Nat]
  /\ packs \in [Threads -> SUBSET Entry]
  /\ pc \in [Threads -> {"idle", "refresh", "lookup"}]
  /\ arg \in [Threads -> Matrices]
  /\ loaded \in [Threads -> Nat]
  /\ used \in [Threads -> Matrices]

(* No product is ever computed with a packed copy of another matrix: not    *)
(* of a model that was dropped and whose address was reused, nor while the  *)
(* drop, the free and the next load run on other threads between the        *)
(* generation check and the lookup of gemm_rowbias, gemm_colbias, gemm_add  *)
(* and gemm_i8_static.                                                      *)
MultipliesOwnWeights ==
  [][\A t \in Threads :
       pc[t] = "lookup" /\ pc'[t] = "idle" => used'[t] = arg[t]]_vars

(* What makes the address a sound key: a thread that has seen the latest    *)
(* generation holds packs of live models only, each at the address it was   *)
(* packed from; so a drop leaves no packed copy behind that a thread which  *)
(* has refreshed since could still find.                                    *)
NoDeadPacks ==
  \A t \in Threads : seen[t] = gen =>
    \A p \in packs[t] : status[p.of[1]] = "live" /\ at[p.of] = p.addr
-----------------------------------------------------------------------------
(* The inductive strengthening: two live matrices never share an address,   *)
(* a model is allocated as long as it is live, a thread inside a call holds *)
(* a live model, generations only run behind, and a thread past its check   *)
(* finds nothing but its own operand at the operand's address.              *)
Disjoint == \A v, w \in Allocated : at[v] = at[w] => v = w

LiveIsAllocated ==
  \A w \in Matrices :
    /\ status[w[1]] = "live" => at[w] # NoAddr
    /\ status[w[1]] = "absent" => at[w] = NoAddr

CallHoldsModel ==
  \A t \in Threads : pc[t] # "idle" => status[arg[t][1]] = "live"

GenerationsBehind ==
  \A t \in Threads : seen[t] <= gen /\ loaded[t] <= gen

(* The check of this call passed, or would pass without clearing.           *)
Checked(t) ==
  \/ pc[t] = "lookup"
  \/ pc[t] = "refresh" /\ seen[t] = loaded[t]

OwnAtAddress ==
  \A t \in Threads : Checked(t) =>
    \A p \in packs[t] : p.addr = at[arg[t]] => p.of = arg[t]

IInv ==
  /\ TypeOK
  /\ Disjoint
  /\ LiveIsAllocated
  /\ CallHoldsModel
  /\ GenerationsBehind
  /\ NoDeadPacks
  /\ OwnAtAddress
=============================================================================
