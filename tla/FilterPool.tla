---------------------------- MODULE FilterPool -----------------------------
(***************************************************************************)
(* The process-wide pool of BNNS convolution filters of                    *)
(* polyvoice-kernels/src/bnns.rs (the Apple build).  A filter holds a      *)
(* packed COPY of the layer's weights.  A convolution checks a filter out  *)
(* of the pool, or creates one, by the ADDRESS of the weights and the size *)
(* of the input, applies it without the lock, and checks it in again.      *)
(*                                                                         *)
(* Where PackCache clears its caches when a model is dropped, nothing here *)
(* does: invalidate_packed_weights is empty in the Apple build.  A model   *)
(* stands for one of its convolutions.                                     *)
(***************************************************************************)
EXTENDS Naturals, FiniteSets, Sequences, Functions

CONSTANTS
  Threads,   \* threads that run convolutions
  Models,    \* model instances, each loaded once
  Sizes,     \* input sizes
  Addrs,     \* heap addresses of the weights
  NoAddr,    \* weights that are not allocated
  MaxKeys    \* MAX_KEYS

FilterAssumption == MaxKeys \in Nat \ {0, 1} /\ IsFiniteSet(Threads)

Keys == Addrs \X Sizes

VARIABLES
  at,      \* where a model's weights are
  loaded,  \* the models that have been loaded
  ready,   \* Pool.ready: a bucket of filters for some of the keys
  failed,  \* Pool.failed
  pc,      \* where a thread is in try_conv2d
  arg,     \* the model it convolves for
  key,     \* its key
  filter,  \* the model whose weights are in the filter it holds
  used     \* the model whose weights the last convolution used

vars == <<at, loaded, ready, failed, pc, arg, key, filter, used>>
-----------------------------------------------------------------------------
Live == {m \in Models : at[m] # NoAddr}

KeyOf(m, s) == <<at[m], s>>

\* entry(key).or_default()
WithEntry(pool, k) ==
  [j \in DOMAIN pool \cup {k} |-> IF j \in DOMAIN pool THEN pool[j] ELSE <<>>]

\* A plausible bug: the check that the pool is full is off by one.
EvictLate(pool, k) ==
  {Restrict(pool, kept) : kept \in {K \in SUBSET DOMAIN pool :
     /\ k \in K
     /\ Cardinality(K) = IF Cardinality(DOMAIN pool) > MaxKeys + 1
                         THEN MaxKeys + 1 ELSE Cardinality(DOMAIN pool)}}

(* evict_old_keys: any other keys, until fewer than MaxKeys are left.       *)
Evict(pool, k) ==
  {Restrict(pool, kept) : kept \in {K \in SUBSET DOMAIN pool :
     /\ k \in K
     /\ Cardinality(K) = IF Cardinality(DOMAIN pool) >= MaxKeys
                         THEN MaxKeys - 1 ELSE Cardinality(DOMAIN pool)}}

Init ==
  /\ at = [m \in Models |-> NoAddr]
  /\ loaded = {}
  /\ ready = << >>
  /\ failed = {}
  /\ pc = [t \in Threads |-> "idle"]
  /\ arg \in [Threads -> Models]
  /\ key \in [Threads -> Keys]
  /\ filter = arg
  /\ used = arg
-----------------------------------------------------------------------------
Load(m) ==
  /\ m \notin loaded
  /\ \E a \in Addrs \ {at[n] : n \in Live} : at' = [at EXCEPT ![m] = a]
  /\ loaded' = loaded \cup {m}
  /\ UNCHANGED <<ready, failed, pc, arg, key, filter, used>>

(* Drop for ResNet34: the pool is not told.                                 *)
Drop(m) ==
  /\ m \in Live
  /\ \A t \in Threads : pc[t] # "idle" => arg[t] # m
  /\ at' = [at EXCEPT ![m] = NoAddr]
  /\ UNCHANGED <<loaded, ready, failed, pc, arg, key, filter, used>>

(* try_conv2d on a key that failed before: the caller takes im2col.         *)
Refused(t, m, s) ==
  /\ pc[t] = "idle"
  /\ m \in Live
  /\ KeyOf(m, s) \in failed
  /\ arg' = [arg EXCEPT ![t] = m]
  /\ used' = [used EXCEPT ![t] = m]
  /\ UNCHANGED <<at, loaded, ready, failed, pc, key, filter>>

\* A plausible bug: a pooled filter is found whatever the weights' address.
HitAnyWeights(t, m, s) ==
  /\ pc[t] = "idle"
  /\ m \in Live
  /\ KeyOf(m, s) \notin failed
  /\ \E k \in DOMAIN ready :
       /\ k[2] = s
       /\ ready[k] # << >>
       /\ filter' = [filter EXCEPT ![t] = Head(ready[k])]
       /\ ready' = [ready EXCEPT ![k] = Tail(@)]
  /\ arg' = [arg EXCEPT ![t] = m]
  /\ key' = [key EXCEPT ![t] = KeyOf(m, s)]
  /\ pc' = [pc EXCEPT ![t] = "apply"]
  /\ UNCHANGED <<at, loaded, failed, used>>

(* A filter is waiting under the key: it is checked out.                    *)
Hit(t, m, s) ==
  /\ pc[t] = "idle"
  /\ m \in Live
  /\ LET k == KeyOf(m, s) IN
       /\ k \notin failed
       /\ k \in DOMAIN ready
       /\ ready[k] # << >>
       /\ filter' = [filter EXCEPT ![t] = Head(ready[k])]
       /\ ready' = [ready EXCEPT ![k] = Tail(@)]
       /\ key' = [key EXCEPT ![t] = k]
  /\ arg' = [arg EXCEPT ![t] = m]
  /\ pc' = [pc EXCEPT ![t] = "apply"]
  /\ UNCHANGED <<at, loaded, failed, used>>

(* No filter: old keys are evicted and one is created, which may fail.      *)
Create(t, m, s) ==
  /\ pc[t] = "idle"
  /\ m \in Live
  /\ LET k == KeyOf(m, s) IN
       /\ k \notin failed
       /\ k \in DOMAIN ready => ready[k] = << >>
       /\ ready' \in Evict(WithEntry(ready, k), k)
       /\ key' = [key EXCEPT ![t] = k]
       /\ arg' = [arg EXCEPT ![t] = m]
       /\ \/ /\ filter' = [filter EXCEPT ![t] = m]
             /\ pc' = [pc EXCEPT ![t] = "apply"]
             /\ UNCHANGED <<failed, used>>
          \/ /\ failed' = failed \cup {k}
             /\ used' = [used EXCEPT ![t] = m]
             /\ UNCHANGED <<pc, filter>>
  /\ UNCHANGED <<at, loaded>>

(* The filter is applied without the lock; if that fails, im2col is used.   *)
Apply(t) ==
  /\ pc[t] = "apply"
  /\ \E m \in {filter[t], arg[t]} : used' = [used EXCEPT ![t] = m]
  /\ pc' = [pc EXCEPT ![t] = "check in"]
  /\ UNCHANGED <<at, loaded, ready, failed, arg, key, filter>>

(* The filter goes back, unless another one is there already.               *)
CheckIn(t) ==
  /\ pc[t] = "check in"
  /\ LET pool == WithEntry(ready, key[t]) IN
       ready' = IF pool[key[t]] = << >>
                THEN [pool EXCEPT ![key[t]] = <<filter[t]>>] ELSE pool
  /\ pc' = [pc EXCEPT ![t] = "idle"]
  /\ UNCHANGED <<at, loaded, failed, arg, key, filter, used>>

Next ==
  \/ \E m \in Models : Load(m) \/ Drop(m)
  \/ \E t \in Threads :
       \/ \E m \in Models, s \in Sizes :
            Refused(t, m, s) \/ Hit(t, m, s) \/ Create(t, m, s)
       \/ Apply(t)
       \/ CheckIn(t)

Spec == Init /\ [][Next]_vars
-----------------------------------------------------------------------------
(* A convolution uses the weights of its own layer: pooled "by weight       *)
(* identity", the address must not outlive the weights it was taken from.   *)
AppliesOwnWeights == \A t \in Threads : used[t] = arg[t] \/ pc[t] = "apply"

(* As long as the process keeps every model it loaded, that holds: filters  *)
(* of two layers, of two sizes or of two threads never change places.       *)
AppliesOwnWhileKept == loaded = Live => AppliesOwnWeights

(* The pool stays near its limit although a filter is checked in under a    *)
(* key that was evicted meanwhile: at most one filter per key, and one key  *)
(* more for every thread that may be between check-out and check-in.        *)
PoolBounded ==
  /\ Cardinality(DOMAIN ready) < MaxKeys + Cardinality(Threads)
  /\ \A k \in DOMAIN ready : Len(ready[k]) <= 1

-----------------------------------------------------------------------------
(* The inductive strengthening: a thread inside a convolution keeps its     *)
(* model alive and its key is the model's; no two models share an address;  *)
(* while every model is kept the filters of a key are of the model at its   *)
(* address; and a thread whose key was evicted may add one key to the pool. *)
FilterTypeOK ==
  /\ at \in [Models -> Addrs \cup {NoAddr}] /\ loaded \subseteq Models
  /\ DOMAIN ready \subseteq Keys /\ ready \in [DOMAIN ready -> Seq(Models)]
  /\ pc \in [Threads -> {"idle", "apply", "check in"}]
  /\ arg \in [Threads -> Models] /\ key \in [Threads -> Keys]
  /\ filter \in [Threads -> Models] /\ used \in [Threads -> Models]

LiveAreApart ==
  /\ Live \subseteq loaded
  /\ \A m, n \in Live : at[m] = at[n] => m = n

CallsHoldTheirModel ==
  \A t \in Threads : pc[t] # "idle" => arg[t] \in Live /\ key[t][1] = at[arg[t]]

PooledAreOwn ==
  loaded = Live =>
    /\ \A k \in DOMAIN ready : \A i \in DOMAIN ready[k] :
         ready[k][i] \in Live /\ at[ready[k][i]] = k[1]
    /\ \A t \in Threads : pc[t] # "idle" => filter[t] = arg[t]

\* The threads that will check a filter in under a key that was evicted.
Evicted == {t \in Threads : pc[t] # "idle" /\ key[t] \notin DOMAIN ready}

EvictedHaveRoom ==
  /\ IsFiniteSet(DOMAIN ready)
  /\ Cardinality(DOMAIN ready) + Cardinality(Evicted) < MaxKeys + Cardinality(Threads)
  /\ \A k \in DOMAIN ready : Len(ready[k]) <= 1

FilterIInv ==
  /\ FilterTypeOK /\ LiveAreApart /\ CallsHoldTheirModel /\ PooledAreOwn
  /\ AppliesOwnWhileKept /\ EvictedHaveRoom
=============================================================================
