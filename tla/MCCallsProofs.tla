--------------------------- MODULE MCCallsProofs ---------------------------
(***************************************************************************)
(* Proofs about EmbedBatch, for every number of callers, clips, workers    *)
(* and calls and every pack size: a slot of an embed_batch call holds its  *)
(* own clip's embedding or an error, and no clip is lost without a panic.  *)
(* And about FileQueue, as MCCalls instances it: a parallel run scores the *)
(* files a serial run scores.  And about both registries of Registry so: a *)
(* request that succeeds has verified all it names, and a name that        *)
(* resolves can be created.                                                *)
(*                                                                         *)
(* And what these and the proofs of the other components say of MCCalls,   *)
(* which puts one of them to work in a behaviour: the properties of its    *)
(* run hold for every value of the constants.                              *)
(***************************************************************************)
EXTENDS MCCalls, FiniteSetTheorems, SequenceTheorems, TLAPS

LEMMA ClipsFinite == IsFiniteSet(Clips) /\ Clips \subseteq Nat /\ 1 \in Clips
<1>1. Cardinality(Clips) \in Nat \ {0, 1} /\ Clips = 1..Cardinality(Clips)
  BY EmbedAssumption
<1>2. IsFiniteSet(1..Cardinality(Clips))
  BY <1>1, FS_Interval
<1> QED
  BY <1>1, <1>2

(* A set of naturals that is not empty has a least element.                *)
LEMMA NatHasLeast ==
  ASSUME NEW S \in SUBSET Nat, S # {}
  PROVE  \E i \in S : \A j \in S : i <= j
<1> DEFINE R == OpToRel(<, Nat)
<1>1. IsWellFoundedOn(R, Nat)
  BY NatLessThanWellFounded
<1>2. PICK i \in S : \A j \in S : ~(<<j, i>> \in R)
  BY <1>1, WFMin
<1>3. \A j \in S : ~(j < i)
  BY <1>2 DEF OpToRel
<1> QED
  BY <1>3

(* A sequence that lists a set: each member once.                          *)
Lists(q, S) ==
  /\ q \in [1 .. Cardinality(S) -> S]
  /\ \A i, j \in 1 .. Cardinality(S) : q[i] = q[j] => i = j
  /\ \A x \in S : \E k \in 1 .. Cardinality(S) : q[k] = x

(* A strict order of a set, given by the members before each member, and    *)
(* what it means that their number gives each member its place.              *)
OrderOf(S, C) ==
  /\ \A x \in S : C[x] \in SUBSET S /\ x \notin C[x]
  /\ \A x, y \in S : x \in C[y] => C[x] \in SUBSET C[y]
  /\ \A x, y \in S : x # y => x \in C[y] \/ y \in C[x]
Ranked(S, C) ==
  /\ \A x \in S : Cardinality(C[x]) \in Nat /\ Cardinality(C[x]) < Cardinality(S)
  /\ \A x, y \in S : Cardinality(C[x]) = Cardinality(C[y]) => x = y
  /\ \A k \in 1 .. Cardinality(S) : \E x \in S : Cardinality(C[x]) = k - 1

(* A strict order of a finite set, given by the members before each member: *)
(* their number gives each its place, and every place is somebody's.        *)
LEMMA Ranks ==
  ASSUME NEW S, NEW C, IsFiniteSet(S),
         OrderOf(S, C)
  PROVE  Ranked(S, C)
<1> DEFINE n == Cardinality(S)
           rank == [x \in S |-> Cardinality(C[x]) + 1]
<1>1. n \in Nat
  BY FS_CardinalityType
<1>2. ASSUME NEW x \in S PROVE IsFiniteSet(C[x]) /\ Cardinality(C[x]) \in Nat /\ Cardinality(C[x]) < n
  <2>1. C[x] \in SUBSET S /\ x \notin C[x]
    BY DEF OrderOf
  <2>2. IsFiniteSet(C[x]) /\ Cardinality(C[x]) <= n /\ (n = Cardinality(C[x]) => S = C[x])
    BY <2>1, FS_Subset
  <2>3. Cardinality(C[x]) \in Nat
    BY <2>2, FS_CardinalityType
  <2> QED
    BY <1>1, <2>1, <2>2, <2>3
<1>3. rank \in [S -> 1 .. n]
  BY <1>1, <1>2
<1>4. ASSUME NEW x \in S, NEW y \in S, x \in C[y] PROVE Cardinality(C[x]) < Cardinality(C[y])
  <2>1. C[x] \in SUBSET C[y] /\ x \notin C[x]
    BY <1>4 DEF OrderOf
  <2>2. Cardinality(C[x]) <= Cardinality(C[y]) /\ (Cardinality(C[y]) = Cardinality(C[x]) => C[y] = C[x])
    BY <1>2, <2>1, FS_Subset
  <2> QED
    BY <1>2, <1>4, <2>1, <2>2
<1>5. ASSUME NEW x \in S, NEW y \in S, Cardinality(C[x]) = Cardinality(C[y]) PROVE x = y
  <2>1. ~(Cardinality(C[x]) < Cardinality(C[y])) /\ ~(Cardinality(C[y]) < Cardinality(C[x]))
    BY <1>2, <1>5
  <2> QED
    BY <1>4, <2>1 DEF OrderOf
<1>6. rank \in Injection(S, 1 .. n)
  <2>1. ASSUME NEW x \in S, NEW y \in S, rank[x] = rank[y] PROVE x = y
    <3>1. Cardinality(C[x]) = Cardinality(C[y])
      BY <1>2, <2>1
    <3> QED
      BY <1>5, <3>1
  <2> QED
    BY <1>3, <2>1 DEF Injection, IsInjective
<1>7. IsFiniteSet(1 .. n) /\ Cardinality(1 .. n) = n
  BY <1>1, FS_Interval
<1>8. rank \in Surjection(S, 1 .. n)
  BY <1>6, <1>7, FS_Injection
<1>9. ASSUME NEW k \in 1 .. n PROVE \E x \in S : Cardinality(C[x]) = k - 1
  <2>1. PICK x \in S : rank[x] = k
    BY <1>8 DEF Surjection
  <2> QED
    BY <1>2, <2>1
<1> QED
  BY <1>2, <1>5, <1>9 DEF Ranked

(* What picks for each place the member that has as many before it as the   *)
(* place asks for lists the set.                                            *)
LEMMA PlacesList ==
  ASSUME NEW S, NEW C, NEW q, IsFiniteSet(S),
         OrderOf(S, C),
         \A k \in 1 .. Cardinality(S) :
           (\E x \in S : Cardinality(C[x]) = k - 1) => q[k] \in S /\ Cardinality(C[q[k]]) = k - 1,
         q = [k \in 1 .. Cardinality(S) |-> q[k]]
  PROVE  /\ Lists(q, S)
         /\ \A k \in 1 .. Cardinality(S) : Cardinality(C[q[k]]) = k - 1
<1> DEFINE n == Cardinality(S)
<1>1. /\ \A x \in S : Cardinality(C[x]) \in Nat /\ Cardinality(C[x]) < n
      /\ \A x, y \in S : Cardinality(C[x]) = Cardinality(C[y]) => x = y
      /\ \A k \in 1 .. n : \E x \in S : Cardinality(C[x]) = k - 1
  <2>1. Ranked(S, C)
    BY Ranks
  <2> QED
    BY <2>1 DEF Ranked
<1>2. n \in Nat
  BY FS_CardinalityType
<1>3. ASSUME NEW k \in 1 .. n PROVE q[k] \in S /\ Cardinality(C[q[k]]) = k - 1
  <2>1. \E x \in S : Cardinality(C[x]) = k - 1
    BY <1>1
  <2> QED
    BY <2>1
<1>4. q \in [1 .. n -> S]
  BY <1>3
<1> HIDE DEF n
<1>5. ASSUME NEW i \in 1 .. n, NEW j \in 1 .. n, q[i] = q[j] PROVE i = j
  <2>1. i - 1 = j - 1
    BY <1>3, <1>5
  <2> QED
    BY <1>2, <2>1
<1>6. ASSUME NEW x \in S PROVE \E k \in 1 .. n : q[k] = x
  <2> DEFINE k == Cardinality(C[x]) + 1
  <2>1. k \in 1 .. n /\ k - 1 = Cardinality(C[x])
    BY <1>1, <1>2
  <2> HIDE DEF k
  <2>2. q[k] = x
    BY <1>1, <1>3, <2>1
  <2> QED
    BY <2>1, <2>2
<1> QED
  BY <1>3, <1>4, <1>5, <1>6 DEF Lists, n

(* The naturals of a set by size.                                          *)
LEMMA NaturalsOrder ==
  ASSUME NEW S \in SUBSET Nat PROVE OrderOf(S, [j \in S |-> {i \in S : i < j}])
<1> DEFINE C == [j \in S |-> {i \in S : i < j}]
<1>1. \A j \in S : j \in Nat
  OBVIOUS
<1>2. \A j \in S : C[j] \in SUBSET S /\ j \notin C[j]
  BY <1>1
<1>3. \A i, j \in S : i \in C[j] <=> i < j
  OBVIOUS
<1> HIDE DEF C
<1>4. ASSUME NEW i \in S, NEW j \in S, i \in C[j] PROVE C[i] \in SUBSET C[j]
  <2>1. ASSUME NEW k \in C[i] PROVE k \in C[j]
    <3>1. k \in S /\ k < i /\ i < j
      BY <1>2, <1>3, <1>4
    <3>2. i \in Nat /\ j \in Nat /\ k \in Nat
      BY <1>1, <3>1
    <3>3. k < j
      BY <3>1, <3>2
    <3> QED
      BY <1>3, <3>1, <3>3
  <2> QED
    BY <2>1
<1>5. ASSUME NEW i \in S, NEW j \in S, i # j PROVE i \in C[j] \/ j \in C[i]
  <2>1. i < j \/ j < i
    BY <1>1, <1>5
  <2> QED
    BY <1>3, <2>1
<1>6. OrderOf(S, C)
  BY <1>2, <1>4, <1>5 DEF OrderOf
<1> QED
  BY <1>6 DEF C

(* A job's clips in ascending order are all there.                         *)
LEMMA InOrderIsOnto ==
  ASSUME NEW S \in SUBSET Clips, NEW i \in S
  PROVE  \E k \in DOMAIN InOrder(S) : InOrder(S)[k] = i
<1> DEFINE D(n) == {j \in S : j < n}
           C == [n \in S |-> D(n)]
           q == InOrder(S)
<1>1. IsFiniteSet(S) /\ S \in SUBSET Nat
  BY ClipsFinite, FS_Subset
<1>2. q = [k \in 1..Cardinality(S) |-> CHOOSE n \in S : Cardinality(D(n)) = k - 1]
  BY DEF InOrder
<1>3. OrderOf(S, C)
  BY <1>1, NaturalsOrder
<1>4. \A n \in S : C[n] = D(n)
  OBVIOUS
<1> HIDE DEF C, D, q
<1>5. \A k \in 1..Cardinality(S) : (\E n \in S : Cardinality(C[n]) = k - 1) => q[k] \in S /\ Cardinality(C[q[k]]) = k - 1
  BY <1>2, <1>4
<1>6. q = [k \in 1..Cardinality(S) |-> q[k]]
  BY <1>2
<1>7. Lists(q, S)
  BY <1>1, <1>3, <1>5, <1>6, PlacesList
<1>8. \E k \in 1..Cardinality(S) : q[k] = i
  BY <1>7 DEF Lists
<1> QED
  BY <1>2, <1>8 DEF q

(* What FinishJob does to a worker's results: a slot keeps what it had or  *)
(* gets its own clip or an error, and every clip of the job gets either.   *)
(* The rows and the slots are the same list, so no row goes astray.        *)
LEMMA AddResultsOwn ==
  ASSUME NEW old \in [Clips -> Results], NEW job \in SUBSET Clips,
         NEW bad \in SUBSET job, NEW fails \in BOOLEAN
  PROVE  LET new == AddResults(old, job, bad, fails)
         IN  /\ new \in [Clips -> Results]
             /\ \A i \in Clips : new[i] \in {i, Failed, old[i]}
             /\ \A i \in job : new[i] \in {i, Failed}
<1> DEFINE slots == OkSlots(job, bad)
           rows == Forward(job, bad)
           new == AddResults(old, job, bad, fails)
           At(i) == {k \in DOMAIN slots \cap DOMAIN rows : slots[k] = i}
<1>1. rows = slots
  BY DEF OkSlots, Forward
<1>2. \A i \in Clips : new[i] = IF At(i) # {}
                                THEN IF fails THEN Failed
                                     ELSE rows[CHOOSE k \in DOMAIN slots \cap DOMAIN rows : slots[k] = i]
                                ELSE IF i \in bad THEN Failed ELSE old[i]
  BY DEF AddResults
<1>3. \A i \in Clips : At(i) # {} =>
        rows[CHOOSE k \in DOMAIN slots \cap DOMAIN rows : slots[k] = i] = i
  BY <1>1
<1>4. \A i \in Clips : new[i] \in {i, Failed, old[i]}
  BY <1>2, <1>3
<1>5. \A i \in job : i \in bad \/ At(i) # {}
  <2> SUFFICES ASSUME NEW i \in job, i \notin bad
               PROVE  At(i) # {}
    OBVIOUS
  <2>1. i \in job \ bad /\ job \ bad \in SUBSET Clips
    OBVIOUS
  <2>2. PICK k \in DOMAIN InOrder(job \ bad) : InOrder(job \ bad)[k] = i
    BY <2>1, InOrderIsOnto
  <2>3. k \in At(i)
    BY <2>2 DEF OkSlots, Forward
  <2> QED
    BY <2>3
<1>6. \A i \in job : new[i] \in {i, Failed}
  BY <1>2, <1>3, <1>5
<1>7. new \in [Clips -> Results]
  <2>1. new = [i \in Clips |-> new[i]]
    BY DEF AddResults
  <2>2. \A i \in Clips : new[i] \in Results
    BY <1>4 DEF Results
  <2> QED
    BY <2>1, <2>2
<1> HIDE DEF new
<1> QED
  BY <1>4, <1>6, <1>7 DEF new

(* Every clip is in a job, there is at least one job, and a worker for it. *)
LEMMA JobsCoverClips ==
  ASSUME NEW frames \in [Clips -> FrameCounts]
  PROVE  /\ JobsFor(frames) \in SUBSET SUBSET Clips
         /\ \A i \in Clips : \E job \in JobsFor(frames) : i \in job
         /\ Cardinality(JobsFor(frames)) \in Nat \ {0}
<1> DEFINE Rank(i) == Cardinality({j \in Clips : j < i /\ frames[j] = frames[i]})
           JobOf(i) == {j \in Clips : /\ frames[j] = frames[i]
                                      /\ Rank(j) \div Pack = Rank(i) \div Pack}
           f == [i \in Clips |-> JobOf(i)]
<1>1. JobsFor(frames) = {JobOf(i) : i \in Clips}
  BY DEF JobsFor
<1>2. \A i \in Clips : JobOf(i) \in SUBSET Clips /\ i \in JobOf(i)
  OBVIOUS
<1> HIDE DEF JobOf
<1>3. f \in Surjection(Clips, JobsFor(frames))
  BY <1>1 DEF Surjection
<1>4. IsFiniteSet(JobsFor(frames))
  BY <1>3, ClipsFinite, FS_Surjection
<1>5. JobsFor(frames) # {}
  BY <1>1, ClipsFinite
<1>6. Cardinality(JobsFor(frames)) \in Nat \ {0}
  BY <1>4, <1>5, FS_EmptySet, FS_CardinalityType
<1> QED
  BY <1>1, <1>2, <1>6
-----------------------------------------------------------------------------
(* Before the first call there is nothing to lose.                         *)
LEMMA InitInv == Init => IInv
<1> SUFFICES ASSUME Init PROVE IInv
  OBVIOUS
<1> USE DEF Init
<1>1. 1 \in 1..(MaxWorkers + 1)
  BY EmbedAssumption
<1>2. TypeOK
  BY <1>1, EmbedAssumption
     DEF TypeOK, Resting, Results, NoResults, InitialIntra, OwnIntra
<1>3. SlotsOwnClips /\ NeverDropsAClip /\ ResultsAreOwn
  BY DEF SlotsOwnClips, NeverDropsAClip, ResultsAreOwn, NoResults
<1>4. WorkersInOrder
  BY DEF WorkersInOrder
<1>5. JoinedAreDone /\ NothingIsLost /\ WidthIsOwn
  BY DEF JoinedAreDone, NothingIsLost, WidthIsOwn
<1> QED
  BY <1>2, <1>3, <1>4, <1>5 DEF IInv

(* Entering the scope: every clip is in a job, and the jobs get workers.   *)
LEMMA StartInv == ASSUME IInv, NEW c \in Callers, Start(c) PROVE IInv'
<1> USE DEF IInv
<1>1. PICK frames \in [Clips -> FrameCounts] :
        /\ jobs' = [jobs EXCEPT ![c] = JobsFor(frames)]
        /\ worker' = [worker EXCEPT ![c] = [w \in Workers |->
             IF w <= Cardinality(JobsFor(frames)) THEN "loop" ELSE "none"]]
  BY DEF Start
<1>2. /\ JobsFor(frames) \in SUBSET SUBSET Clips
      /\ \A i \in Clips : \E job \in JobsFor(frames) : i \in job
      /\ Cardinality(JobsFor(frames)) \in Nat \ {0}
  BY JobsCoverClips
<1> DEFINE n == Cardinality(JobsFor(frames))
<1>3. /\ intra' = IF OwnIntra THEN 3 ELSE intra
      /\ calls[c] < MaxCalls /\ calls' = [calls EXCEPT ![c] = @ + 1]
      /\ held' = [held EXCEPT ![c] = [w \in Workers |-> {}]]
      /\ local' = [local EXCEPT ![c] = [w \in Workers |-> NoResults]]
      /\ next' = [next EXCEPT ![c] = 1]
      /\ out' = [out EXCEPT ![c] = NoResults]
      /\ ret' = [ret EXCEPT ![c] = "none"]
      /\ pc' = [pc EXCEPT ![c] = "join"]
      /\ UNCHANGED files
  BY DEF Start
<1>4. TypeOK'
  <2>1. worker' \in [Callers -> [Workers -> {"none", "loop", "busy", "done", "panicked"}]]
    BY <1>1 DEF TypeOK
  <2>2. jobs' \in [Callers -> SUBSET SUBSET Clips]
    BY <1>1, <1>2 DEF TypeOK
  <2>3. calls' \in [Callers -> 0..MaxCalls]
    <3>1. calls \in [Callers -> 0..MaxCalls] /\ calls[c] \in 0..MaxCalls
      BY DEF TypeOK
    <3>2. calls[c] + 1 \in 0..MaxCalls
      <4> HIDE DEF IInv
      <4> QED
        BY <1>3, <3>1, EmbedAssumption
    <3> QED
      BY <1>3, <3>1, <3>2
  <2>4. 1 \in 1..(MaxWorkers + 1) /\ NoResults \in [Clips -> Results]
    BY EmbedAssumption DEF NoResults, Results
  <2>5. /\ held' \in [Callers -> [Workers -> SUBSET Clips]]
        /\ local' \in [Callers -> [Workers -> [Clips -> Results]]]
        /\ next' \in [Callers -> 1..(MaxWorkers + 1)]
        /\ out' \in [Callers -> [Clips -> Results]]
    BY <1>3, <2>4 DEF TypeOK
  <2> QED
    BY <1>3, <2>1, <2>2, <2>3, <2>5 DEF TypeOK
<1>5. /\ jobs'[c] = JobsFor(frames)
      /\ \A w \in Workers : /\ worker'[c][w] = IF w <= n THEN "loop" ELSE "none"
                            /\ held'[c][w] = {} /\ local'[c][w] = NoResults
      /\ out'[c] = NoResults /\ ret'[c] = "none" /\ next'[c] = 1
  BY <1>1, <1>3 DEF TypeOK
<1>6. \A d \in Callers : d # c =>
        /\ pc'[d] = pc[d] /\ jobs'[d] = jobs[d] /\ worker'[d] = worker[d]
        /\ held'[d] = held[d] /\ local'[d] = local[d] /\ next'[d] = next[d]
        /\ out'[d] = out[d] /\ ret'[d] = ret[d]
  BY <1>1, <1>3 DEF TypeOK
<1>7. SlotsOwnClips'
  BY <1>5, <1>6 DEF SlotsOwnClips, NoResults
<1>8. NeverDropsAClip'
  BY <1>5, <1>6 DEF NeverDropsAClip
<1>9. ResultsAreOwn'
  <2> SUFFICES ASSUME NEW d \in Callers, NEW w \in Workers, NEW i \in Clips
               PROVE  local'[d][w][i] \in {i, Failed, NoResult}
    BY DEF ResultsAreOwn
  <2>1. d # c => local'[d][w][i] = local[d][w][i]
    BY <1>6
  <2>2. d = c => local'[d][w][i] = NoResult
    BY <1>5 DEF NoResults
  <2> QED
    BY <2>1, <2>2 DEF ResultsAreOwn
<1>10. WorkersInOrder'
  <2> SUFFICES ASSUME NEW d \in Callers, NEW w \in Workers
               PROVE  /\ pc'[d] = "join" => worker'[d][1] # "none"
                      /\ worker'[d][w] # "none" => \A v \in 1..w : worker'[d][v] # "none"
                      /\ worker'[d][w] \notin {"busy", "panicked"} => held'[d][w] = {}
                      /\ worker'[d][w] = "none" => local'[d][w] = NoResults
                      /\ worker'[d][w] = "done" => jobs'[d] = {}
    BY DEF WorkersInOrder, NoResults
  <2>1. CASE d # c
    BY <1>6, <2>1 DEF WorkersInOrder
  <2>2. CASE d = c
    <3>1. 1 \in Workers /\ 1 <= n /\ w \in Nat /\ \A v \in 1..w : v \in Workers /\ v <= w
      BY <1>2, EmbedAssumption DEF Workers
    <3>2. worker'[c][1] # "none"
      BY <1>5, <3>1
    <3>3. worker'[c][w] # "none" => \A v \in 1..w : worker'[c][v] # "none"
      BY <1>2, <1>5, <3>1
    <3> QED
      BY <1>5, <2>2, <3>2, <3>3
  <2> QED
    BY <2>1, <2>2
<1>11. JoinedAreDone'
  <2>1. \A w \in Workers : ~(w < 1)
    BY DEF Workers
  <2> QED
    BY <1>5, <1>6, <2>1 DEF JoinedAreDone
<1>12. NothingIsLost'
  <2> SUFFICES ASSUME NEW d \in Callers, NEW i \in Clips, pc'[d] = "join"
               PROVE  \/ out'[d][i] # NoResult
                      \/ \E job \in jobs'[d] : i \in job
                      \/ \E w \in Workers :
                           w >= next'[d] /\ (i \in held'[d][w] \/ local'[d][w][i] # NoResult)
    BY DEF NothingIsLost
  <2>1. CASE d # c
    BY <1>6, <2>1 DEF NothingIsLost
  <2>2. CASE d = c
    BY <1>2, <1>5, <2>2
  <2> QED
    BY <2>1, <2>2
<1>13. WidthIsOwn'
  BY <1>3 DEF WidthIsOwn, OwnIntra, InitialIntra, InitialIntra
<1> QED
  BY <1>4, <1>7, <1>8, <1>9, <1>10, <1>11, <1>12, <1>13
(* A worker that pops a job has its clips in hand.                         *)
LEMMA TakeJobInv ==
  ASSUME IInv, NEW c \in Callers, NEW w \in Workers, TakeJob(c, w) PROVE IInv'
<1> USE DEF IInv
<1>1. PICK job \in jobs[c] :
        /\ jobs' = [jobs EXCEPT ![c] = @ \ {job}]
        /\ held' = [held EXCEPT ![c][w] = job]
  BY DEF TakeJob
<1>2. /\ worker[c][w] = "loop"
      /\ worker' = [worker EXCEPT ![c][w] = "busy"]
      /\ UNCHANGED <<files, intra, pc, calls, local, next, out, ret>>
  BY DEF TakeJob
<1>3. job \in SUBSET Clips
  BY DEF TypeOK
<1>4. TypeOK'
  BY <1>1, <1>2, <1>3 DEF TypeOK
<1>5. \A d \in Callers, v \in Workers :
        /\ worker'[d][v] = IF d = c /\ v = w THEN "busy" ELSE worker[d][v]
        /\ held'[d][v] = IF d = c /\ v = w THEN job ELSE held[d][v]
  BY <1>1, <1>2 DEF TypeOK
<1>6. \A d \in Callers : jobs'[d] = IF d = c THEN jobs[c] \ {job} ELSE jobs[d]
  BY <1>1 DEF TypeOK
<1>7. SlotsOwnClips' /\ NeverDropsAClip' /\ ResultsAreOwn' /\ WidthIsOwn'
  BY <1>2 DEF SlotsOwnClips, NeverDropsAClip, ResultsAreOwn, WidthIsOwn, OwnIntra, InitialIntra
<1>8. 1 \in Workers /\ \A v \in Workers : v \in Nat /\ \A u \in 1..v : u \in Workers
  BY EmbedAssumption DEF Workers
<1>9. WorkersInOrder'
  BY <1>2, <1>5, <1>6, <1>8 DEF WorkersInOrder
<1>10. JoinedAreDone'
  BY <1>2, <1>5 DEF JoinedAreDone
<1>11. NothingIsLost'
  <2> SUFFICES ASSUME NEW d \in Callers, NEW i \in Clips, pc[d] = "join",
                      out[d][i] = NoResult, ~ \E j \in jobs'[d] : i \in j
               PROVE  \E v \in Workers :
                        v >= next[d] /\ (i \in held'[d][v] \/ local[d][v][i] # NoResult)
    BY <1>2 DEF NothingIsLost
  <2>1. CASE \E j \in jobs[d] : i \in j
    <3>1. d = c /\ i \in job
      BY <1>6, <2>1
    <3>2. w >= next[c]
      <4>1. ~(w < next[c])
        BY <1>2, <3>1 DEF JoinedAreDone
      <4>2. w \in Nat /\ next[c] \in Nat
        <5>1. next \in [Callers -> 1..(MaxWorkers + 1)] /\ MaxWorkers \in Nat
          BY EmbedAssumption DEF TypeOK
        <5> QED
          BY <5>1 DEF Workers
      <4> QED
        BY <4>1, <4>2
    <3> QED
      BY <1>5, <3>1, <3>2
  <2>2. CASE ~ \E j \in jobs[d] : i \in j
    <3>1. PICK v \in Workers :
            v >= next[d] /\ (i \in held[d][v] \/ local[d][v][i] # NoResult)
      BY <2>2 DEF NothingIsLost
    <3>2. held[c][w] = {}
      BY <1>2 DEF WorkersInOrder
    <3> QED
      BY <1>5, <3>1, <3>2
  <2> QED
    BY <2>1, <2>2
<1> QED
  BY <1>4, <1>7, <1>9, <1>10, <1>11

(* A worker that finds the stack empty is done with nothing in hand.       *)
LEMMA NoMoreJobsInv ==
  ASSUME IInv, NEW c \in Callers, NEW w \in Workers, NoMoreJobs(c, w) PROVE IInv'
<1> USE DEF IInv
<1>1. /\ worker[c][w] = "loop" /\ jobs[c] = {}
      /\ worker' = [worker EXCEPT ![c][w] = "done"]
      /\ UNCHANGED <<files, intra, pc, calls, jobs, held, local, next, out, ret>>
  BY DEF NoMoreJobs
<1>2. TypeOK'
  BY <1>1 DEF TypeOK
<1>3. \A d \in Callers, v \in Workers :
        worker'[d][v] = IF d = c /\ v = w THEN "done" ELSE worker[d][v]
  BY <1>1 DEF TypeOK
<1>4. SlotsOwnClips' /\ NeverDropsAClip' /\ ResultsAreOwn' /\ WidthIsOwn'
  BY <1>1 DEF SlotsOwnClips, NeverDropsAClip, ResultsAreOwn, WidthIsOwn, OwnIntra, InitialIntra
<1>8. NothingIsLost'
  BY <1>1 DEF NothingIsLost
<1>5. 1 \in Workers /\ \A v \in Workers : v \in Nat /\ \A u \in 1..v : u \in Workers
  BY EmbedAssumption DEF Workers
<1>6. WorkersInOrder'
  BY <1>1, <1>3, <1>5 DEF WorkersInOrder
<1>7. JoinedAreDone'
  BY <1>1, <1>3 DEF JoinedAreDone
<1> QED
  BY <1>2, <1>4, <1>6, <1>7, <1>8

(* A finished job leaves a result for every clip of it in its own slot.    *)
LEMMA FinishJobInv ==
  ASSUME IInv, NEW c \in Callers, NEW w \in Workers, FinishJob(c, w) PROVE IInv'
<1> USE DEF IInv
<1>1. PICK bad \in SUBSET held[c][w], fails \in BOOLEAN :
        local' = [local EXCEPT ![c][w] = AddResults(@, held[c][w], bad, fails)]
  BY DEF FinishJob
<1>2. /\ worker[c][w] = "busy"
      /\ held' = [held EXCEPT ![c][w] = {}]
      /\ worker' = [worker EXCEPT ![c][w] = "loop"]
      /\ UNCHANGED <<files, intra, pc, calls, jobs, next, out, ret>>
  BY DEF FinishJob
<1> DEFINE new == AddResults(local[c][w], held[c][w], bad, fails)
<1>3. local[c][w] \in [Clips -> Results] /\ held[c][w] \in SUBSET Clips
  <2>1. /\ local \in [Callers -> [Workers -> [Clips -> Results]]]
        /\ held \in [Callers -> [Workers -> SUBSET Clips]]
    BY DEF TypeOK
  <2> QED
    BY <2>1
<1>4. /\ new \in [Clips -> Results]
      /\ \A i \in Clips : new[i] \in {i, Failed, local[c][w][i]}
      /\ \A i \in held[c][w] : new[i] \in {i, Failed}
  BY <1>3, AddResultsOwn
<1> HIDE DEF new
<1>5. local' = [local EXCEPT ![c][w] = new]
  BY <1>1 DEF new, TypeOK
<1>6. TypeOK'
  <2>1. local' \in [Callers -> [Workers -> [Clips -> Results]]]
    BY <1>4, <1>5 DEF TypeOK
  <2> QED
    BY <1>2, <2>1 DEF TypeOK
<1>7. \A d \in Callers, v \in Workers :
        /\ worker'[d][v] = IF d = c /\ v = w THEN "loop" ELSE worker[d][v]
        /\ held'[d][v] = IF d = c /\ v = w THEN {} ELSE held[d][v]
        /\ local'[d][v] = IF d = c /\ v = w THEN new ELSE local[d][v]
  BY <1>2, <1>5 DEF TypeOK
<1>8. SlotsOwnClips' /\ NeverDropsAClip' /\ WidthIsOwn'
  BY <1>2 DEF SlotsOwnClips, NeverDropsAClip, WidthIsOwn, OwnIntra, InitialIntra
<1>9. ResultsAreOwn'
  BY <1>4, <1>7 DEF ResultsAreOwn
<1>10. 1 \in Workers /\ \A v \in Workers : v \in Nat /\ \A u \in 1..v : u \in Workers
  BY EmbedAssumption DEF Workers
<1>11. WorkersInOrder'
  BY <1>2, <1>7, <1>10 DEF WorkersInOrder
<1>12. JoinedAreDone'
  BY <1>2, <1>7 DEF JoinedAreDone
<1>13. \A i \in Clips : i \in held[c][w] \/ local[c][w][i] # NoResult => new[i] # NoResult
  BY <1>3, <1>4, EmbedAssumption
<1>14. NothingIsLost'
  BY <1>2, <1>7, <1>13 DEF NothingIsLost
<1> QED
  BY <1>6, <1>8, <1>9, <1>11, <1>12, <1>14

(* A worker that panics keeps its job: the caller has not joined it.       *)
LEMMA PanicInv ==
  ASSUME IInv, NEW c \in Callers, NEW w \in Workers, Panic(c, w) PROVE IInv'
<1> USE DEF IInv
<1>1. /\ worker[c][w] = "busy"
      /\ worker' = [worker EXCEPT ![c][w] = "panicked"]
      /\ UNCHANGED <<files, intra, pc, calls, jobs, held, local, next, out, ret>>
  BY DEF Panic
<1>2. TypeOK'
  BY <1>1 DEF TypeOK
<1>3. \A d \in Callers, v \in Workers :
        worker'[d][v] = IF d = c /\ v = w THEN "panicked" ELSE worker[d][v]
  BY <1>1 DEF TypeOK
<1>4. SlotsOwnClips' /\ NeverDropsAClip' /\ ResultsAreOwn' /\ WidthIsOwn'
  BY <1>1 DEF SlotsOwnClips, NeverDropsAClip, ResultsAreOwn, WidthIsOwn, OwnIntra, InitialIntra
<1>8. NothingIsLost'
  BY <1>1 DEF NothingIsLost
<1>5. 1 \in Workers /\ \A v \in Workers : v \in Nat /\ \A u \in 1..v : u \in Workers
  BY EmbedAssumption DEF Workers
<1>6. WorkersInOrder'
  BY <1>1, <1>3, <1>5 DEF WorkersInOrder
<1>7. JoinedAreDone'
  BY <1>1, <1>3 DEF JoinedAreDone
<1> QED
  BY <1>2, <1>4, <1>6, <1>7, <1>8
-----------------------------------------------------------------------------
(* Joining a worker moves its results into the slots.                      *)
LEMMA JoinInv == ASSUME IInv, NEW c \in Callers, Join(c) PROVE IInv'
<1> USE DEF IInv
<1> DEFINE n == next[c]
<1>1. /\ pc[c] = "join" /\ n \in Spawned(c) /\ worker[c][n] = "done"
      /\ out' = [out EXCEPT ![c] = [i \in Clips |->
           IF local[c][n][i] # NoResult THEN local[c][n][i] ELSE @[i]]]
      /\ next' = [next EXCEPT ![c] = @ + 1]
      /\ UNCHANGED <<files, intra, pc, calls, jobs, worker, held, local, ret>>
  BY DEF Join
<1>2. n \in Workers /\ n \in 1..MaxWorkers /\ MaxWorkers \in Nat
  BY <1>1, EmbedAssumption DEF Spawned, Workers
<1>3. \A d \in Callers : /\ next'[d] = IF d = c THEN n + 1 ELSE next[d]
                         /\ d # c => out'[d] = out[d]
  BY <1>1 DEF TypeOK
<1>4. \A i \in Clips : out'[c][i] = IF local[c][n][i] # NoResult
                                    THEN local[c][n][i] ELSE out[c][i]
  BY <1>1 DEF TypeOK
<1>5. TypeOK'
  <2>1. n + 1 \in 1..(MaxWorkers + 1)
    BY <1>2
  <2>2. next' \in [Callers -> 1..(MaxWorkers + 1)]
    BY <1>1, <2>1 DEF TypeOK
  <2>3. local[c][n] \in [Clips -> Results] /\ out[c] \in [Clips -> Results]
    BY <1>2 DEF TypeOK
  <2>4. out' \in [Callers -> [Clips -> Results]]
    <3> HIDE DEF n, IInv
    <3>1. [i \in Clips |-> IF local[c][n][i] # NoResult
                           THEN local[c][n][i] ELSE out[c][i]] \in [Clips -> Results]
      BY <2>3
    <3> QED
      BY <1>1, <3>1 DEF n, TypeOK, IInv
  <2> QED
    BY <1>1, <2>2, <2>4 DEF TypeOK
<1>6. SlotsOwnClips'
  <2>1. ret[c] = "none"
    BY <1>1 DEF JoinedAreDone
  <2>2. \A i \in Clips : out'[c][i] \in {i, Failed, NoResult}
    BY <1>2, <1>4 DEF SlotsOwnClips, ResultsAreOwn
  <2> QED
    BY <1>1, <1>3, <2>1, <2>2 DEF SlotsOwnClips
<1>7. NeverDropsAClip' /\ ResultsAreOwn' /\ WidthIsOwn' /\ WorkersInOrder'
  BY <1>1 DEF NeverDropsAClip, ResultsAreOwn, WidthIsOwn, OwnIntra, InitialIntra, WorkersInOrder
<1>8. \A w \in Workers : w < n + 1 => w < n \/ w = n
  BY <1>2 DEF Workers
<1>9. JoinedAreDone'
  BY <1>1, <1>3, <1>8 DEF JoinedAreDone
<1>10. NothingIsLost'
  <2> SUFFICES ASSUME NEW d \in Callers, NEW i \in Clips, pc[d] = "join",
                      out'[d][i] = NoResult, ~ \E j \in jobs[d] : i \in j
               PROVE  \E v \in Workers :
                        v >= next'[d] /\ (i \in held[d][v] \/ local[d][v][i] # NoResult)
    BY <1>1 DEF NothingIsLost
  <2>1. CASE d # c
    BY <1>3, <2>1 DEF NothingIsLost
  <2>2. CASE d = c
    <3>1. local[c][n][i] = NoResult /\ out[c][i] = NoResult /\ held[c][n] = {}
      BY <1>1, <1>2, <1>4, <2>2 DEF WorkersInOrder
    <3>2. PICK v \in Workers : v >= n /\ (i \in held[c][v] \/ local[c][v][i] # NoResult)
      BY <2>2, <3>1 DEF NothingIsLost
    <3>3. v >= n + 1
      BY <1>2, <3>1, <3>2 DEF Workers
    <3> QED
      BY <1>3, <2>2, <3>2, <3>3
  <2> QED
    BY <2>1, <2>2
<1> QED
  BY <1>5, <1>6, <1>7, <1>9, <1>10

(* A call that joins a panicked worker reports it, whatever its slots hold.*)
LEMMA JoinPanickedInv == ASSUME IInv, NEW c \in Callers, JoinPanicked(c) PROVE IInv'
<1> USE DEF IInv
<1>1. /\ pc[c] = "join" /\ next[c] \in Spawned(c)
      /\ ret' = [ret EXCEPT ![c] = "worker panicked"]
      /\ next' = [next EXCEPT ![c] = @ + 1]
      /\ pc' = [pc EXCEPT ![c] = "leave"]
  BY DEF JoinPanicked
<1>u. UNCHANGED <<files, intra, calls, jobs, worker, held, local, out>>
  BY DEF JoinPanicked
<1>2. next[c] + 1 \in 1..(MaxWorkers + 1)
  <2>1. next[c] \in 1..MaxWorkers /\ MaxWorkers \in Nat
    BY <1>1, EmbedAssumption DEF Spawned, Workers
  <2> QED
    BY <2>1
<1>3. TypeOK'
  BY <1>1, <1>2, <1>u DEF TypeOK
<1>4. \A d \in Callers : /\ pc'[d] = IF d = c THEN "leave" ELSE pc[d]
                         /\ ret'[d] = IF d = c THEN "worker panicked" ELSE ret[d]
                         /\ d # c => next'[d] = next[d]
  BY <1>1 DEF TypeOK
<1>5. SlotsOwnClips'
  BY <1>u, <1>4 DEF SlotsOwnClips
<1>8. NeverDropsAClip'
  BY <1>4 DEF NeverDropsAClip
<1>6. ResultsAreOwn' /\ WidthIsOwn'
  BY <1>u DEF ResultsAreOwn, WidthIsOwn, OwnIntra, InitialIntra
<1>j. \A d \in Callers : pc'[d] = "join" =>
        pc[d] = "join" /\ next'[d] = next[d] /\ ret'[d] = ret[d]
  BY <1>4
<1>7. WorkersInOrder'
  <2> HIDE DEF IInv
  <2> QED
    BY <1>u, <1>j DEF WorkersInOrder, IInv
<1>9. JoinedAreDone'
  BY <1>u, <1>j DEF JoinedAreDone
<1>10. NothingIsLost'
  BY <1>u, <1>j DEF NothingIsLost
<1> QED
  BY <1>3, <1>5, <1>6, <1>7, <1>8, <1>9, <1>10
(* When every worker is joined, each slot has a result: the scope spawned  *)
(* at least one worker, so the stack is empty, and nobody is left to hold  *)
(* a clip back.                                                            *)
LEMMA AllJoined ==
  ASSUME IInv, NEW c \in Callers, pc[c] = "join", next[c] \notin Spawned(c)
  PROVE  \A i \in Clips : out[c][i] # NoResult
<1> USE DEF IInv
<1>1. next[c] \in 1..(MaxWorkers + 1) /\ 1 \in Workers /\ MaxWorkers \in Nat
  <2>1. next \in [Callers -> 1..(MaxWorkers + 1)]
    BY DEF TypeOK
  <2> QED
    BY <2>1, EmbedAssumption DEF Workers
<1>2. 1 \in Spawned(c)
  BY <1>1 DEF WorkersInOrder, Spawned
<1>3. 1 < next[c]
  BY <1>1, <1>2
<1>4. jobs[c] = {}
  BY <1>1, <1>3 DEF JoinedAreDone, WorkersInOrder
<1>5. ASSUME NEW w \in Workers, w >= next[c] PROVE worker[c][w] = "none"
  <2>1. w \in 1..MaxWorkers
    BY DEF Workers
  <2>2. next[c] \in Workers /\ next[c] \in 1..w
    BY <1>1, <1>5, <2>1 DEF Workers
  <2> QED
    BY <2>2 DEF WorkersInOrder, Spawned
<1>6. \A w \in Workers : w >= next[c] => held[c][w] = {} /\ local[c][w] = NoResults
  BY <1>5 DEF WorkersInOrder
<1> QED
  BY <1>4, <1>6 DEF NothingIsLost, NoResults

(* With every worker joined, a call that finds a clip without an embedding *)
(* finds an error in its slot.                                             *)
LEMMA CollectInv == ASSUME IInv, NEW c \in Callers, Collect(c) PROVE IInv'
<1> USE DEF IInv
<1> DEFINE lost == {i \in Clips : out[c][i] \in {NoResult, Failed}}
           first == CHOOSE i \in lost : \A j \in lost : i <= j
<1>1. /\ pc[c] = "join" /\ next[c] \notin Spawned(c)
      /\ pc' = [pc EXCEPT ![c] = "leave"]
      /\ ret' = [ret EXCEPT ![c] =
           IF lost = {} THEN "ok"
           ELSE IF out[c][first] = Failed THEN "clip failed" ELSE "dropped a clip"]
  BY DEF Collect
<1>2. UNCHANGED <<files, intra, calls, jobs, worker, held, local, next, out>>
  BY DEF Collect
<1>3. \A i \in lost : out[c][i] = Failed
  BY <1>1, AllJoined
<1>4. lost # {} => first \in lost
  <2> SUFFICES ASSUME lost # {} PROVE \E i \in lost : \A j \in lost : i <= j
    OBVIOUS
  <2>1. lost \in SUBSET Nat
    BY ClipsFinite
  <2> HIDE DEF lost
  <2> QED
    BY <2>1, NatHasLeast
<1>5. \/ lost = {} /\ ret' = [ret EXCEPT ![c] = "ok"]
      \/ ret' = [ret EXCEPT ![c] = "clip failed"]
  <2> HIDE DEF lost, first
  <2>1. lost # {} => out[c][first] = Failed
    BY <1>3, <1>4
  <2> QED
    BY <1>1, <2>1
<1>6. TypeOK'
  BY <1>1, <1>2, <1>5 DEF TypeOK
<1>7. \A d \in Callers : d # c => pc'[d] = pc[d] /\ ret'[d] = ret[d]
  BY <1>1 DEF TypeOK
<1>8. ret'[c] = "clip failed" \/ (ret'[c] = "ok" /\ lost = {})
  <2> HIDE DEF lost
  <2> QED
    BY <1>5 DEF TypeOK
<1>9. pc'[c] = "leave"
  BY <1>1 DEF TypeOK
<1>10. SlotsOwnClips'
  <2>1. ret'[c] = "ok" => \A i \in Clips : out[c][i] = i
    BY <1>8 DEF SlotsOwnClips
  <2> QED
    BY <1>2, <1>7, <2>1 DEF SlotsOwnClips
<1>11. NeverDropsAClip'
  BY <1>7, <1>8 DEF NeverDropsAClip
<1>12. ResultsAreOwn' /\ WidthIsOwn'
  BY <1>2 DEF ResultsAreOwn, WidthIsOwn, OwnIntra, InitialIntra
<1>13. \A d \in Callers : pc'[d] = "join" => pc[d] = "join" /\ ret'[d] = ret[d]
  BY <1>7, <1>9
<1>14. WorkersInOrder'
  BY <1>2, <1>13 DEF WorkersInOrder
<1>15. JoinedAreDone' /\ NothingIsLost'
  BY <1>2, <1>13 DEF JoinedAreDone, NothingIsLost
<1> QED
  BY <1>6, <1>10, <1>11, <1>12, <1>14, <1>15

(* A call that leaves the scope keeps its slots; the width goes back only  *)
(* in a process that works on one file.                                    *)
LEMMA LeaveInv ==
  ASSUME IInv, NEW c \in Callers, Return(c) \/ Unwind(c) PROVE IInv'
<1> USE DEF IInv
<1>1. pc[c] = "leave" /\ \E to \in {"returned", "unwound"} : pc' = [pc EXCEPT ![c] = to]
  BY DEF Return, Unwind
<1>2. intra' = intra \/ (OwnIntra /\ intra' = 1)
  BY DEF Return, Unwind
<1>3. UNCHANGED <<files, calls, jobs, worker, held, local, next, out, ret>>
  BY DEF Return, Unwind
<1>4. TypeOK'
  BY <1>1, <1>2, <1>3 DEF TypeOK, Resting
<1>5. \A d \in Callers : pc'[d] = "join" => pc[d] = "join"
  BY <1>1 DEF TypeOK
<1>6. SlotsOwnClips' /\ NeverDropsAClip' /\ ResultsAreOwn'
  BY <1>3 DEF SlotsOwnClips, NeverDropsAClip, ResultsAreOwn
<1>7. WidthIsOwn'
  BY <1>2, <1>3 DEF WidthIsOwn, OwnIntra, InitialIntra
<1>8. WorkersInOrder'
  BY <1>3, <1>5 DEF WorkersInOrder
<1>9. JoinedAreDone' /\ NothingIsLost'
  BY <1>3, <1>5 DEF JoinedAreDone, NothingIsLost
<1> QED
  BY <1>4, <1>6, <1>7, <1>8, <1>9
-----------------------------------------------------------------------------
(* Every step of the callers and the workers keeps the inductive invariant.*)
LEMMA NextInv == IInv /\ [Next]_vars => IInv'
<1> SUFFICES ASSUME IInv, [Next]_vars PROVE IInv'
  OBVIOUS
<1>1. CASE UNCHANGED vars
  <2>1. TypeOK' /\ WidthIsOwn' /\ ResultsAreOwn'
    BY <1>1 DEF vars, IInv, TypeOK, WidthIsOwn, ResultsAreOwn, OwnIntra, InitialIntra
  <2>2. SlotsOwnClips' /\ NeverDropsAClip'
    BY <1>1 DEF vars, IInv, SlotsOwnClips, NeverDropsAClip
  <2>3. WorkersInOrder'
    BY <1>1 DEF vars, IInv, WorkersInOrder
  <2>4. NothingIsLost'
    BY <1>1 DEF vars, IInv, NothingIsLost
  <2>5. JoinedAreDone'
    BY <1>1 DEF vars, IInv, JoinedAreDone
  <2> QED
    BY <2>1, <2>2, <2>3, <2>4, <2>5 DEF IInv
<1>2. ASSUME NEW c \in Callers, Start(c) \/ Caller(c) PROVE IInv'
  BY <1>2, StartInv, JoinInv, JoinPanickedInv, CollectInv, LeaveInv DEF Caller
<1>3. ASSUME NEW c \in Callers, NEW w \in Workers, Work(c, w) PROVE IInv'
  BY <1>3, TakeJobInv, NoMoreJobsInv, FinishJobInv, PanicInv DEF Work
<1> QED
  BY <1>1, <1>2, <1>3 DEF Next

(* In every reachable state the results lie in the slots of their clips    *)
(* and nothing is lost on the way from the workers to the slots.           *)
THEOREM EmbedInvariance == Spec => []IInv
<1> QED
  BY InitInv, NextInv, PTL DEF Spec

(* A slot holds its own clip's embedding, whichever worker, job and chunk  *)
(* produced it, and a call that succeeds has filled every slot.            *)
THEOREM SlotsOwnClipsHolds == Spec => []SlotsOwnClips
<1>1. IInv => SlotsOwnClips
  BY DEF IInv
<1> QED
  BY EmbedInvariance, <1>1, PTL

(* The error "native embed dropped a clip" is unreachable.                 *)
THEOREM NeverDropsAClipHolds == Spec => []NeverDropsAClip
<1>1. IInv => NeverDropsAClip
  BY DEF IInv
<1> QED
  BY EmbedInvariance, <1>1, PTL

(* A call that returns leaves the width that calls found, whether the      *)
(* process owns the width or a caller that fans out over files set it.     *)
LEMMA ReturnRestores ==
  ASSUME IInv, [Next]_vars, NEW c \in Callers, pc'[c] = "returned", pc[c] # "returned"
  PROVE  intra' = InitialIntra
<1> USE DEF IInv, TypeOK
<1>1. \A d \in Callers, w \in Workers : ~Work(d, w)
  BY DEF Work, TakeJob, NoMoreJobs, FinishJob, Panic
<1>2. \A d \in Callers : ~Start(d) /\ ~Join(d) /\ ~JoinPanicked(d) /\ ~Collect(d) /\ ~Unwind(d)
  BY DEF Start, Join, JoinPanicked, Collect, Unwind
<1>3. Next
  BY DEF vars
<1>4. PICK d \in Callers : Return(d)
  BY <1>1, <1>2, <1>3 DEF Next, Caller
<1> QED
  BY <1>4 DEF Return, WidthIsOwn, InitialIntra

(* embed_batch: a call that returns, alone, leaves the process-wide width   *)
(* as it found it.                                                         *)
THEOREM WidthIsRestored ==
  Spec => [][\A c \in Callers :
               pc'[c] = "returned" /\ pc[c] # "returned" => intra' = InitialIntra]_vars
<1>1. IInv /\ [Next]_vars => \A c \in Callers :
        pc'[c] = "returned" /\ pc[c] # "returned" => intra' = InitialIntra
  BY ReturnRestores
<1> QED
  BY EmbedInvariance, <1>1, PTL DEF Spec
-----------------------------------------------------------------------------
(* The file queue: a recording is in one place, and what is past is recorded. *)

(* The order of byte strings is a strict order.                            *)
LEMMA StringFacts ==
  ASSUME NEW a \in Seq(Nat)
  PROVE  \E n \in Nat : Len(a) = n /\ DOMAIN a = 1 .. n /\ \A i \in 1 .. n : a[i] \in Nat
<1>1. Len(a) \in Nat /\ DOMAIN a = 1 .. Len(a) /\ \A i \in 1 .. Len(a) : a[i] \in Nat
  BY LenProperties, ElementOfSeq
<1> QED
  BY <1>1

LEMMA SameString ==
  ASSUME NEW a \in Seq(Nat), NEW b \in Seq(Nat), Len(a) = Len(b), \A i \in 1 .. Len(a) : a[i] = b[i]
  PROVE  a = b
  BY SeqEqual

LEMMA BeforeIrreflexive == \A a \in Seq(Nat) : ~File!Before(a, a)
<1> SUFFICES ASSUME NEW a \in Seq(Nat), File!Before(a, a) PROVE FALSE
  OBVIOUS
<1>1. PICK n \in Nat : Len(a) = n /\ DOMAIN a = 1 .. n /\ \A i \in 1 .. n : a[i] \in Nat
  BY StringFacts
<1> QED
  BY <1>1 DEF File!Before

\* Two strings differ first somewhere, or one is a prefix of the other.
LEMMA FirstDifference ==
  ASSUME NEW a, NEW b, NEW n \in Nat, NEW m \in Nat,
         Len(a) = n, DOMAIN a = 1 .. n, \A i \in 1 .. n : a[i] \in Nat,
         Len(b) = m, DOMAIN b = 1 .. m, \A i \in 1 .. m : b[i] \in Nat,
         n = m => \E i \in 1 .. n : a[i] # b[i]
  PROVE  File!Before(a, b) \/ File!Before(b, a)
<1> DEFINE D == {i \in Nat : i \in 1 .. n /\ i \in 1 .. m /\ a[i] # b[i]}
<1>1. CASE D = {}
  <2>1. ASSUME NEW i \in Nat, i \in 1 .. n, i \in 1 .. m PROVE a[i] = b[i]
    BY <1>1, <2>1
  <2>2. n # m
    <3> SUFFICES ASSUME n = m PROVE FALSE
      OBVIOUS
    <3> HIDE DEF D
    <3> QED
      BY <2>1
  <2> HIDE DEF D
  <2>3. CASE n < m
    <3>1. \A j \in 1 .. n : a[j] = b[j]
      BY <2>1, <2>3
    <3> QED
      BY <2>3, <3>1 DEF File!Before
  <2>4. CASE m < n
    <3>1. \A j \in 1 .. m : b[j] = a[j]
      BY <2>1, <2>4
    <3> QED
      BY <2>4, <3>1 DEF File!Before
  <2> QED
    BY <2>2, <2>3, <2>4
<1>2. CASE D # {}
  <2>1. PICK k \in D : \A i \in D : k <= i
    <3>1. D \in SUBSET Nat
      OBVIOUS
    <3> HIDE DEF D
    <3> QED
      BY <1>2, <3>1, NatHasLeast
  <2>2. k \in Nat /\ k \in 1 .. n /\ k \in 1 .. m /\ a[k] # b[k]
    BY <2>1
  <2>3. ASSUME NEW j \in 1 .. k - 1 PROVE a[j] = b[j]
    <3>1. j \in Nat /\ j \in 1 .. n /\ j \in 1 .. m /\ ~(k <= j)
      BY <2>2
    <3>2. j \notin D
      BY <2>1, <3>1
    <3> QED
      BY <3>1, <3>2
  <2>4. a[k] \in Nat /\ b[k] \in Nat
    BY <2>2
  <2> HIDE DEF D
  <2>5. CASE a[k] < b[k]
    <3>1. k \in DOMAIN a \cap DOMAIN b
      BY <2>2
    <3> QED
      BY <2>3, <2>5, <3>1 DEF File!Before
  <2>6. CASE b[k] < a[k]
    <3>1. k \in DOMAIN b \cap DOMAIN a /\ \A j \in 1 .. k - 1 : b[j] = a[j]
      BY <2>2, <2>3
    <3> QED
      BY <2>6, <3>1 DEF File!Before
  <2> QED
    BY <2>2, <2>4, <2>5, <2>6
<1> QED
  BY <1>1, <1>2

LEMMA BeforeTotal ==
  ASSUME NEW a \in Seq(Nat), NEW b \in Seq(Nat), a # b
  PROVE  File!Before(a, b) \/ File!Before(b, a)
<1>1. PICK n \in Nat : Len(a) = n /\ DOMAIN a = 1 .. n /\ \A i \in 1 .. n : a[i] \in Nat
  BY StringFacts
<1>2. PICK m \in Nat : Len(b) = m /\ DOMAIN b = 1 .. m /\ \A i \in 1 .. m : b[i] \in Nat
  BY StringFacts
<1>3. n = m => \E i \in 1 .. n : a[i] # b[i]
  BY <1>1, <1>2, SameString
<1> QED
  BY <1>1, <1>2, <1>3, FirstDifference

\* Where two strings first differ, or where the shorter ends.
LEMMA BeforeAgain ==
  ASSUME NEW a, NEW b, NEW c, NEW n \in Nat, NEW m \in Nat, NEW l \in Nat,
         Len(a) = n, DOMAIN a = 1 .. n, \A i \in 1 .. n : a[i] \in Nat,
         Len(b) = m, DOMAIN b = 1 .. m, \A i \in 1 .. m : b[i] \in Nat,
         Len(c) = l, DOMAIN c = 1 .. l, \A i \in 1 .. l : c[i] \in Nat,
         File!Before(a, b), File!Before(b, c)
  PROVE  File!Before(a, c)
<1>1. CASE /\ \E i \in 1 .. n : i \in 1 .. m /\ a[i] < b[i] /\ \A j \in 1 .. i - 1 : a[j] = b[j]
           /\ \E k \in 1 .. m : k \in 1 .. l /\ b[k] < c[k] /\ \A j \in 1 .. k - 1 : b[j] = c[j]
  <2>1. PICK i \in 1 .. n : i \in 1 .. m /\ a[i] < b[i] /\ \A j \in 1 .. i - 1 : a[j] = b[j]
    BY <1>1
  <2>2. PICK k \in 1 .. m : k \in 1 .. l /\ b[k] < c[k] /\ \A j \in 1 .. k - 1 : b[j] = c[j]
    BY <1>1
  <2>3. CASE i < k
    <3>1. i \in 1 .. l /\ a[i] < c[i] /\ \A j \in 1 .. i - 1 : a[j] = c[j]
      BY <2>1, <2>2, <2>3
    <3> QED
      BY <3>1 DEF File!Before
  <2>4. CASE i = k
    <3>1. i \in 1 .. l /\ a[i] < c[i] /\ \A j \in 1 .. i - 1 : a[j] = c[j]
      BY <2>1, <2>2, <2>4
    <3> QED
      BY <3>1 DEF File!Before
  <2>5. CASE k < i
    <3>1. k \in 1 .. n /\ a[k] < c[k] /\ \A j \in 1 .. k - 1 : a[j] = c[j]
      BY <2>1, <2>2, <2>5
    <3> QED
      BY <2>2, <3>1 DEF File!Before
  <2> QED
    BY <2>3, <2>4, <2>5
<1>2. CASE /\ \E i \in 1 .. n : i \in 1 .. m /\ a[i] < b[i] /\ \A j \in 1 .. i - 1 : a[j] = b[j]
           /\ m < l /\ \A j \in 1 .. m : b[j] = c[j]
  <2>1. PICK i \in 1 .. n : i \in 1 .. m /\ a[i] < b[i] /\ \A j \in 1 .. i - 1 : a[j] = b[j]
    BY <1>2
  <2>2. i \in 1 .. l /\ a[i] < c[i] /\ \A j \in 1 .. i - 1 : a[j] = c[j]
    BY <1>2, <2>1
  <2> QED
    BY <2>2 DEF File!Before
<1>3. CASE /\ n < m /\ \A j \in 1 .. n : a[j] = b[j]
           /\ \E k \in 1 .. m : k \in 1 .. l /\ b[k] < c[k] /\ \A j \in 1 .. k - 1 : b[j] = c[j]
  <2>1. PICK k \in 1 .. m : k \in 1 .. l /\ b[k] < c[k] /\ \A j \in 1 .. k - 1 : b[j] = c[j]
    BY <1>3
  <2>2. CASE k <= n
    <3>1. k \in 1 .. n /\ a[k] < c[k] /\ \A j \in 1 .. k - 1 : a[j] = c[j]
      BY <1>3, <2>1, <2>2
    <3> QED
      BY <2>1, <3>1 DEF File!Before
  <2>3. CASE n < k
    <3>1. n < l /\ \A j \in 1 .. n : a[j] = c[j]
      BY <1>3, <2>1, <2>3
    <3> QED
      BY <3>1 DEF File!Before
  <2> QED
    BY <2>2, <2>3
<1>4. CASE /\ n < m /\ \A j \in 1 .. n : a[j] = b[j]
           /\ m < l /\ \A j \in 1 .. m : b[j] = c[j]
  <2>1. n < l /\ \A j \in 1 .. n : a[j] = c[j]
    BY <1>4
  <2> QED
    BY <2>1 DEF File!Before
<1>5. \/ \E i \in 1 .. n : i \in 1 .. m /\ a[i] < b[i] /\ \A j \in 1 .. i - 1 : a[j] = b[j]
      \/ n < m /\ \A j \in 1 .. n : a[j] = b[j]
  BY DEF File!Before
<1>6. \/ \E k \in 1 .. m : k \in 1 .. l /\ b[k] < c[k] /\ \A j \in 1 .. k - 1 : b[j] = c[j]
      \/ m < l /\ \A j \in 1 .. m : b[j] = c[j]
  BY DEF File!Before
<1> QED
  BY <1>1, <1>2, <1>3, <1>4, <1>5, <1>6

LEMMA BeforeTransitive ==
  ASSUME NEW a \in Seq(Nat), NEW b \in Seq(Nat), NEW c \in Seq(Nat),
         File!Before(a, b), File!Before(b, c)
  PROVE  File!Before(a, c)
<1>1. PICK n \in Nat : Len(a) = n /\ DOMAIN a = 1 .. n /\ \A i \in 1 .. n : a[i] \in Nat
  BY StringFacts
<1>2. PICK m \in Nat : Len(b) = m /\ DOMAIN b = 1 .. m /\ \A i \in 1 .. m : b[i] \in Nat
  BY StringFacts
<1>3. PICK l \in Nat : Len(c) = l /\ DOMAIN c = 1 .. l /\ \A i \in 1 .. l : c[i] \in Nat
  BY StringFacts
<1> QED
  BY <1>1, <1>2, <1>3, BeforeAgain

LEMMA WavNames ==
  /\ \A s \in Seq(Nat) : File!WavName(s) \in Seq(Nat)
  /\ \A s, t \in Seq(Nat) : File!WavName(s) = File!WavName(t) => s = t
<1> DEFINE wav == <<File!Dot, 119, 97, 118>>
<1>1. wav \in Seq(Nat) /\ Len(wav) = 4
  BY DEF File!Dot
<1> HIDE DEF wav
<1>2. ASSUME NEW s \in Seq(Nat)
      PROVE  /\ s \o wav \in Seq(Nat) /\ Len(s \o wav) = Len(s) + 4
             /\ \A i \in 1 .. Len(s) : (s \o wav)[i] = s[i]
  <2>1. /\ s \o wav \in Seq(Nat) /\ Len(s \o wav) = Len(s) + Len(wav)
        /\ \A i \in 1 .. Len(s) + Len(wav) : (s \o wav)[i] = IF i <= Len(s) THEN s[i] ELSE wav[i - Len(s)]
    BY <1>1, ConcatProperties
  <2>2. Len(s) \in Nat
    OBVIOUS
  <2>3. ASSUME NEW i \in 1 .. Len(s) PROVE (s \o wav)[i] = s[i]
    <3>1. i \in 1 .. Len(s) + Len(wav) /\ i <= Len(s)
      BY <1>1, <2>2
    <3> QED
      BY <2>1, <3>1
  <2> QED
    BY <1>1, <2>1, <2>3
<1>3. ASSUME NEW s \in Seq(Nat), NEW t \in Seq(Nat), s \o wav = t \o wav PROVE s = t
  <2>1. Len(s) \in Nat /\ Len(t) \in Nat
    OBVIOUS
  <2>2. Len(s) + 4 = Len(t) + 4
    BY <1>2, <1>3
  <2>3. Len(s) = Len(t)
    BY <2>1, <2>2
  <2>4. \A i \in 1 .. Len(s) : s[i] = t[i]
    BY <1>2, <1>3, <2>3
  <2> QED
    BY <2>3, <2>4, SameString
<1>4. \A s : File!WavName(s) = s \o wav
  BY DEF File!WavName, wav
<1> QED
  BY <1>2, <1>3, <1>4

(* The instance of FileQueue has its own copies of these.                   *)
LEMMA SameOperators ==
  /\ \A S : File!IsFiniteSet(S) = IsFiniteSet(S)
  /\ \A S : File!Cardinality(S) = Cardinality(S)
  BY DEF File!IsFiniteSet, IsFiniteSet, File!Cardinality, Cardinality

(* list_wavs lists the recordings.                                         *)
LEMMA ListWavsLists ==
  ASSUME File!FileQueueAssumption
  PROVE  Lists(File!ListWavs(Stems), Stems)
<1> DEFINE P(y, x) == File!Before(File!WavName(y), File!WavName(x))
           C == [x \in Stems |-> {y \in Stems : P(y, x)}]
           q == File!ListWavs(Stems)
           n == Cardinality(Stems)
           D(x) == {y \in Stems : P(y, x)}
<1>1. IsFiniteSet(Stems) /\ \A s \in Stems : s \in Seq(Nat)
  BY SameOperators DEF File!FileQueueAssumption
<1>2. /\ \A x \in Stems : ~P(x, x)
      /\ \A x, y, z \in Stems : P(x, y) /\ P(y, z) => P(x, z)
      /\ \A x, y \in Stems : x # y => P(x, y) \/ P(y, x)
  BY <1>1, WavNames, BeforeIrreflexive, BeforeTransitive, BeforeTotal
<1>3. q = [k \in 1 .. n |-> CHOOSE x \in Stems : File!Cardinality(D(x)) = k - 1]
  <2>1. q = [k \in 1 .. File!Cardinality(Stems) |-> CHOOSE x \in Stems : File!Cardinality(D(x)) = k - 1]
    BY DEF File!ListWavs, File!InOrder
  <2>2. n = File!Cardinality(Stems)
    BY SameOperators
  <2> HIDE DEF n, q, D
  <2> QED
    BY <2>1, <2>2
<1> HIDE DEF P, q
<1>4. \A x \in Stems : C[x] = D(x)
  OBVIOUS
<1>5. OrderOf(Stems, C)
  BY <1>2 DEF OrderOf
<1> HIDE DEF C, D, n
<1>6. \A x \in Stems : Cardinality(C[x]) = File!Cardinality(D(x))
  BY <1>4, SameOperators
<1>7. \A k \in 1 .. n : (\E x \in Stems : Cardinality(C[x]) = k - 1) => q[k] \in Stems /\ Cardinality(C[q[k]]) = k - 1
  BY <1>3, <1>6
<1>8. q = [k \in 1 .. n |-> q[k]]
  BY <1>3
<1>9. Lists(q, Stems)
  BY <1>1, <1>5, <1>7, <1>8, PlacesList DEF n
<1> QED
  BY <1>9 DEF q

(* The sort of the rows is a permutation of them.                          *)
LEMMA SortedRowsPermute ==
  ASSUME NEW rows, NEW n \in Nat, DOMAIN rows = 1 .. n, \A i \in 1 .. n : rows[i][1] \in Seq(Nat)
  PROVE  \E order : Lists(order, 1 .. n) /\ File!SortedRows(rows) = [k \in 1 .. n |-> rows[order[k]]]
<1> DEFINE P(i, j) == \/ File!Before(rows[i][1], rows[j][1])
                      \/ rows[i][1] = rows[j][1] /\ i < j
           D(j) == {i \in DOMAIN rows : P(i, j)}
           C == [j \in 1 .. n |-> D(j)]
           order == [k \in 1 .. File!Cardinality(DOMAIN rows) |->
                       CHOOSE j \in DOMAIN rows : File!Cardinality(D(j)) = k - 1]
<1>1. IsFiniteSet(1 .. n) /\ Cardinality(1 .. n) = n
  <2>1. 1 \in Int /\ n \in Int
    OBVIOUS
  <2> HIDE DEF P, D, C, order
  <2>2. IsFiniteSet(1 .. n) /\ Cardinality(1 .. n) = IF 1 > n THEN 0 ELSE n - 1 + 1
    BY <2>1, FS_Interval
  <2> QED
    BY <2>2
<1>2. \A i \in 1 .. n : ~P(i, i)
  BY BeforeIrreflexive
<1>3. ASSUME NEW i \in 1 .. n, NEW j \in 1 .. n, NEW k \in 1 .. n, P(i, j), P(j, k) PROVE P(i, k)
  <2>1. i \in Nat /\ j \in Nat /\ k \in Nat
    OBVIOUS
  <2>2. CASE File!Before(rows[i][1], rows[j][1]) /\ File!Before(rows[j][1], rows[k][1])
    BY <2>2, BeforeTransitive
  <2>3. CASE rows[i][1] = rows[j][1] \/ rows[j][1] = rows[k][1]
    BY <1>3, <2>1, <2>3
  <2> QED
    BY <1>3, <2>2, <2>3
<1>4. ASSUME NEW i \in 1 .. n, NEW j \in 1 .. n, i # j PROVE P(i, j) \/ P(j, i)
  <2>1. i < j \/ j < i
    BY <1>4
  <2> QED
    BY <2>1, BeforeTotal
<1>5. File!SortedRows(rows) = [k \in DOMAIN rows |-> rows[order[k]]]
  BY DEF File!SortedRows, File!InOrder
<1>6. OrderOf(1 .. n, C)
  <2> HIDE DEF P
  <2>1. \A j \in 1 .. n : C[j] \in SUBSET (1 .. n) /\ j \notin C[j]
    BY <1>2
  <2>2. \A i, j \in 1 .. n : i \in C[j] <=> P(i, j)
    OBVIOUS
  <2> HIDE DEF C
  <2>3. \A i, j \in 1 .. n : i \in C[j] => C[i] \in SUBSET C[j]
    BY <1>3, <2>1, <2>2
  <2>4. \A i, j \in 1 .. n : i # j => i \in C[j] \/ j \in C[i]
    BY <1>4, <2>2
  <2> QED
    BY <2>1, <2>3, <2>4 DEF OrderOf
<1> HIDE DEF P
<1>7. \A j \in 1 .. n : Cardinality(C[j]) = File!Cardinality(D(j))
  BY SameOperators
<1>8. order = [k \in 1 .. n |-> CHOOSE j \in 1 .. n : File!Cardinality(D(j)) = k - 1]
  <2>1. File!Cardinality(DOMAIN rows) = n
    BY <1>1, SameOperators
  <2> HIDE DEF D
  <2> QED
    BY <2>1
<1> HIDE DEF C, D, order
<1>9. \A k \in 1 .. n : (\E j \in 1 .. n : Cardinality(C[j]) = k - 1) => order[k] \in 1 .. n /\ Cardinality(C[order[k]]) = k - 1
  BY <1>7, <1>8
<1>10. order = [k \in 1 .. n |-> order[k]]
  BY <1>8
<1>11. Lists(order, 1 .. n)
  BY <1>1, <1>6, <1>9, <1>10, PlacesList
<1> QED
  BY <1>5, <1>11

(* What a serial run comes to: the first error ends it; else it scores each *)
(* recording that has a reference, once.                                   *)
Kept == {s \in Stems : File!Outcome(s) # "skipped"}
SerialReport == File!Serial(File!ListWavs(Stems))

LEMMA PositionsList ==
  ASSUME NEW n \in Nat, NEW S \in SUBSET (1 .. n)
  PROVE  IsFiniteSet(S) /\ Lists(File!InOrder(S, <), S)
<1> DEFINE D(j) == {i \in S : i < j}
           C == [j \in S |-> D(j)]
           order == [k \in 1 .. File!Cardinality(S) |-> CHOOSE j \in S : File!Cardinality(D(j)) = k - 1]
           m == Cardinality(S)
<1>1. IsFiniteSet(S)
  <2>1. 1 \in Int /\ n \in Int
    OBVIOUS
  <2>2. IsFiniteSet(1 .. n)
    BY <2>1, FS_Interval
  <2> QED
    BY <2>2, FS_Subset
<1>2. S \in SUBSET Nat
  OBVIOUS
<1>3. order = File!InOrder(S, <)
  BY DEF File!InOrder
<1>4. OrderOf(S, C)
  BY <1>2, NaturalsOrder
<1>5. \A j \in S : Cardinality(C[j]) = File!Cardinality(D(j))
  BY SameOperators
<1>6. order = [k \in 1 .. m |-> CHOOSE j \in S : File!Cardinality(D(j)) = k - 1]
  <2>1. File!Cardinality(S) = m
    BY SameOperators
  <2> HIDE DEF D, m
  <2> QED
    BY <2>1
<1> HIDE DEF C, D, order, m
<1>7. \A k \in 1 .. m : (\E j \in S : Cardinality(C[j]) = k - 1) => order[k] \in S /\ Cardinality(C[order[k]]) = k - 1
  BY <1>5, <1>6
<1>8. order = [k \in 1 .. m |-> order[k]]
  BY <1>6
<1>9. Lists(order, S)
  BY <1>1, <1>4, <1>7, <1>8, PlacesList DEF m
<1> QED
  BY <1>1, <1>3, <1>9

SerialFacts ==
  \/ /\ \E s \in Stems : File!Outcome(s) = "error"
     /\ SerialReport = [state |-> "error", rows |-> <<>>]
  \/ /\ ~\E s \in Stems : File!Outcome(s) = "error"
     /\ SerialReport \in [state : {"ok"}, rows : Seq(Stems \X File!Results)]
     /\ File!Range(SerialReport.rows) = {<<s, File!Outcome(s)>> : s \in Kept}
     /\ Len(SerialReport.rows) = Cardinality(Kept)

LEMMA OutcomeIsResult == \A s : File!Outcome(s) \in File!Results
<1> SUFFICES ASSUME NEW s PROVE File!Outcome(s) \in File!Results
  OBVIOUS
<1>1. File!Scorer(s, fFacts[s]) \in {"single speaker", "whole", "uem", "error"}
  BY DEF File!Scorer
<1>2. File!Outcome(s) \in {"skipped", "error", File!Scorer(s, fFacts[s])}
  BY DEF File!Outcome, File!RunFile
<1> QED
  BY <1>1, <1>2 DEF File!Results

LEMMA SerialIs == SerialFacts
<1> DEFINE wavs == File!ListWavs(Stems)
           n == Cardinality(Stems)
           S == {i \in DOMAIN wavs : File!Outcome(wavs[i]) # "skipped"}
           rows == File!InOrder(S, <)
           m == Cardinality(S)
           scored == [k \in DOMAIN rows |-> <<wavs[rows[k]], File!Outcome(wavs[rows[k]])>>]
           fails == \E i \in DOMAIN wavs : File!Outcome(wavs[i]) = "error"
<1>1. SerialReport = IF fails THEN [state |-> "error", rows |-> <<>>] ELSE [state |-> "ok", rows |-> scored]
  BY DEF SerialReport, File!Serial
<1>2. IsFiniteSet(Stems) /\ n \in Nat
  BY FilesAssumption, SameOperators, FS_CardinalityType DEF File!FileQueueAssumption
<1>3. Lists(wavs, Stems)
  BY FilesAssumption, ListWavsLists
<1> HIDE DEF wavs
<1>4. /\ DOMAIN wavs = 1 .. n /\ \A i \in 1 .. n : wavs[i] \in Stems
      /\ \A i, j \in 1 .. n : wavs[i] = wavs[j] => i = j
      /\ \A s \in Stems : \E i \in 1 .. n : wavs[i] = s
  BY <1>3 DEF Lists
<1> HIDE DEF n
<1>5. fails <=> \E s \in Stems : File!Outcome(s) = "error"
  BY <1>4
<1>6. S \in SUBSET (1 .. n)
  BY <1>4
<1>7. IsFiniteSet(S) /\ Lists(rows, S) /\ m \in Nat
  <2> HIDE DEF S
  <2> QED
    BY <1>2, <1>6, PositionsList, FS_CardinalityType
<1> HIDE DEF rows
<1>8. /\ DOMAIN rows = 1 .. m /\ \A k \in 1 .. m : rows[k] \in S
      /\ \A i \in S : \E k \in 1 .. m : rows[k] = i
  <2> HIDE DEF S
  <2> QED
    BY <1>7 DEF Lists
<1>9. m = Cardinality(Kept)
  <2> DEFINE f == [i \in S |-> wavs[i]]
  <2>1. f \in [S -> Kept]
    BY <1>4 DEF Kept
  <2>2. \A i, j \in S : f[i] = f[j] => i = j
    BY <1>4
  <2>3. \A s \in Kept : \E i \in S : f[i] = s
    BY <1>4 DEF Kept
  <2> HIDE DEF S, f
  <2>4. f \in Bijection(S, Kept)
    BY <2>1, <2>2, <2>3 DEF Bijection, Injection, Surjection, IsInjective
  <2>5. ExistsBijection(S, Kept)
    BY <2>4 DEF ExistsBijection
  <2> QED
    BY <1>7, <2>5, FS_Bijection
<1>10. \A k \in 1 .. m : wavs[rows[k]] \in Kept
  BY <1>4, <1>8 DEF Kept
<1>11. \A s \in Kept : \E k \in 1 .. m : wavs[rows[k]] = s
  BY <1>4, <1>8 DEF Kept
<1> HIDE DEF S, m, fails
<1>12. scored = [k \in 1 .. m |-> <<wavs[rows[k]], File!Outcome(wavs[rows[k]])>>]
  BY <1>8
<1> HIDE DEF scored
<1>13. File!Range(scored) = {<<s, File!Outcome(s)>> : s \in Kept}
  BY <1>10, <1>11, <1>12 DEF File!Range
<1>14. scored \in [1 .. m -> Stems \X File!Results]
  BY <1>10, <1>12, OutcomeIsResult DEF Kept
<1>15. scored \in Seq(Stems \X File!Results) /\ Len(scored) = m
  BY <1>7, <1>14
<1> QED
  BY <1>1, <1>5, <1>9, <1>13, <1>15 DEF SerialFacts

(* What a worker takes off the queue is in it nowhere else.                *)
LEMMA TakeFirst ==
  ASSUME NEW S, NEW q \in Seq(S), q # <<>>, File!IsInjective(q)
  PROVE  /\ Head(q) \in S /\ Tail(q) \in Seq(S)
         /\ File!IsInjective(Tail(q))
         /\ Head(q) \notin File!Range(Tail(q))
         /\ \A x : x \in File!Range(q) <=> x = Head(q) \/ x \in File!Range(Tail(q))
<1> DEFINE h == Head(q)
           r == Tail(q)
           n == Len(r)
<1>1. /\ h \in S /\ r \in Seq(S) /\ Len(q) = n + 1 /\ h = q[1]
      /\ \A i \in 1 .. n : r[i] = q[i + 1]
      /\ DOMAIN r = 1 .. n
  BY HeadTailProperties, LenProperties
<1>2. n \in Nat /\ DOMAIN q = 1 .. n + 1
  BY <1>1, LenProperties
<1> HIDE DEF h, r, n
<1>3. \A i, j \in 1 .. n + 1 : q[i] = q[j] => i = j
  BY <1>2 DEF File!IsInjective
<1>4. File!IsInjective(r)
  <2>1. ASSUME NEW i \in 1 .. n, NEW j \in 1 .. n, r[i] = r[j] PROVE i = j
    <3>1. i + 1 \in 1 .. n + 1 /\ j + 1 \in 1 .. n + 1 /\ q[i + 1] = q[j + 1]
      BY <1>1, <1>2, <2>1
    <3>2. i + 1 = j + 1
      BY <1>3, <3>1
    <3> QED
      BY <3>2
  <2> QED
    BY <1>1, <2>1 DEF File!IsInjective
<1>5. h \notin File!Range(r)
  <2>1. ASSUME NEW i \in 1 .. n PROVE r[i] # h
    <3>1. i + 1 \in 1 .. n + 1 /\ 1 \in 1 .. n + 1 /\ i + 1 # 1
      BY <1>2
    <3> QED
      BY <1>1, <1>3, <3>1
  <2> QED
    BY <1>1, <2>1 DEF File!Range
<1>6. ASSUME NEW x, x \in File!Range(q) PROVE x = h \/ x \in File!Range(r)
  <2>1. PICK i \in 1 .. n + 1 : x = q[i]
    BY <1>2, <1>6 DEF File!Range
  <2>2. CASE i = 1
    BY <1>1, <2>1, <2>2
  <2>3. CASE i # 1
    <3>1. i - 1 \in 1 .. n /\ (i - 1) + 1 = i
      BY <1>2, <2>3
    <3>2. r[i - 1] = x
      BY <1>1, <2>1, <3>1
    <3> QED
      BY <1>1, <3>1, <3>2 DEF File!Range
  <2> QED
    BY <2>2, <2>3
<1>7. ASSUME NEW x, x = h \/ x \in File!Range(r) PROVE x \in File!Range(q)
  <2>1. CASE x = h
    <3>1. 1 \in DOMAIN q
      BY <1>2
    <3> QED
      BY <1>1, <2>1, <3>1 DEF File!Range
  <2>2. CASE x \in File!Range(r)
    <3>1. PICK i \in 1 .. n : x = r[i]
      BY <1>1, <2>2 DEF File!Range
    <3>2. i + 1 \in DOMAIN q /\ q[i + 1] = x
      BY <1>1, <1>2, <3>1
    <3> QED
      BY <3>2 DEF File!Range
  <2> QED
    BY <1>7, <2>1, <2>2
<1> QED
  BY <1>1, <1>4, <1>5, <1>6, <1>7 DEF h, r

LEMMA AddLast ==
  ASSUME NEW S, NEW q \in Seq(S), NEW x \in S
  PROVE  \E n \in Nat :
           /\ Append(q, x) \in Seq(S)
           /\ DOMAIN q = 1 .. n /\ DOMAIN Append(q, x) = 1 .. n + 1
           /\ \A i \in 1 .. n : Append(q, x)[i] = q[i]
           /\ Append(q, x)[n + 1] = x
<1> DEFINE n == Len(q)
           a == Append(q, x)
<1>1. n \in Nat /\ DOMAIN q = 1 .. n
  BY LenProperties
<1>2. /\ a \in Seq(S) /\ Len(a) = n + 1
      /\ \A i \in 1 .. n : a[i] = q[i]
      /\ a[n + 1] = x
  BY AppendProperties
<1>3. DOMAIN a = 1 .. n + 1
  BY <1>2, LenProperties
<1> QED
  BY <1>1, <1>2, <1>3

LEMMA FilesFinite ==
  ASSUME File!FileQueueAssumption
  PROVE  /\ IsFiniteSet(Stems) /\ \A s \in Stems : s \in Seq(Nat) /\ s # <<>>
         /\ IsFiniteSet(File!Workers)
<1>1. 1 \in Int /\ MaxJobs \in Int
  BY DEF File!FileQueueAssumption
<1>2. IsFiniteSet(1 .. MaxJobs)
  BY <1>1, FS_Interval
<1> QED
  BY <1>2, SameOperators DEF File!FileQueueAssumption, File!Workers

(* No recording is begun before the workers start.                         *)
LEMMA FilesInit == ASSUME File!Init PROVE File!IInv
<1> USE DEF File!Init
<1>0. /\ MaxJobs \in Nat
      /\ \A w \in File!Workers : fWorker[w] = "none" /\ fHeld[w] = File!NoRecording
  BY FilesAssumption DEF File!FileQueueAssumption
<1>1. File!TypeOK
  BY <1>0 DEF File!TypeOK, File!NoRecording
<1>2. File!InHand = {} /\ File!Begun = {}
  BY <1>0 DEF File!InHand, File!Begun
<1>3. File!OnePlace
  BY <1>2 DEF File!OnePlace, File!IsInjective
<1>4. File!PastIsRecorded
  BY <1>2 DEF File!PastIsRecorded
<1>5. File!WorkersEnd
  BY <1>0 DEF File!WorkersEnd
<1>6. File!Phases
  BY <1>2 DEF File!Phases
<1>7. File!SameFilesAsSerial
  BY DEF File!SameFilesAsSerial
<1>8. File!StopsAfterError
  BY DEF File!StopsAfterError
<1> QED
  BY <1>1, <1>3, <1>4, <1>5, <1>6, <1>7, <1>8 DEF File!IInv

(* Before the report there is nothing to say of it.                         *)
LEMMA NothingReported ==
  ASSUME fRet.state \in {"idle", "running"} PROVE File!SameFilesAsSerial
  BY DEF File!SameFilesAsSerial

(* A file begun after an error is one of another worker.                    *)
LEMMA LateIsBounded ==
  ASSUME File!TypeOK, File!WorkersEnd
  PROVE  fLate < File!Cardinality(File!Begun) \/ fLate = 0
<1>1. IsFiniteSet(File!Popping) /\ IsFiniteSet(File!Begun)
  BY FilesAssumption, FilesFinite, FS_Subset DEF File!Popping, File!Begun
<1>2. Cardinality(File!Popping) \in Nat /\ Cardinality(File!Begun) \in Nat
  BY <1>1, FS_CardinalityType
<1>3. File!Cardinality(File!Popping) = Cardinality(File!Popping) /\ File!Cardinality(File!Begun) = Cardinality(File!Begun)
  BY SameOperators
<1>4. CASE fErr = File!NoRecording
  BY <1>4 DEF File!WorkersEnd
<1>5. CASE fErr # File!NoRecording
  <2>1. fLate + File!Cardinality(File!Popping) < File!Cardinality(File!Begun)
    BY <1>5 DEF File!WorkersEnd
  <2> QED
    BY <1>2, <1>3, <2>1 DEF File!TypeOK
<1> QED
  BY <1>4, <1>5

(* While the workers work there is no more to the invariant than its parts. *)
Working ==
  /\ File!TypeOK /\ File!OnePlace /\ File!PastIsRecorded /\ File!WorkersEnd /\ File!Phases
  /\ fRet.state \in {"idle", "running"}

LEMMA WhileWorking == Working => File!IInv
<1> SUFFICES ASSUME Working PROVE File!IInv
  OBVIOUS
<1> USE DEF Working
<1>1. File!SameFilesAsSerial
  BY NothingReported
<1>2. fRet.rows = <<>>
  BY DEF File!Phases
<1>3. fLate < File!Cardinality({w \in File!Workers : fWorker[w] # "none"}) \/ fLate = 0
  BY LateIsBounded DEF File!Begun
<1>4. File!StopsAfterError
  BY <1>2, <1>3 DEF File!StopsAfterError
<1> QED
  BY <1>1, <1>4 DEF File!IInv

LEMMA BusyIsWorking ==
  ASSUME File!IInv, NEW w \in File!Workers, fWorker[w] \in {"check", "pop", "busy"} PROVE Working
  BY DEF File!IInv, File!Phases, File!TypeOK, Working

(* A worker that looks at the error keeps what it has.                      *)
LEMMA CheckErrorInv ==
  ASSUME File!IInv, NEW w \in File!Workers, File!CheckError(w) PROVE File!IInv'
<1> USE DEF File!CheckError
<1>1. Working
  BY BusyIsWorking
<1> USE DEF Working
<1>2. fWorker[w] = "check"
  BY <1>1
<1>3. /\ \A v \in File!Workers : v # w => fWorker'[v] = fWorker[v]
      /\ fWorker'[w] = IF fErr # File!NoRecording THEN "done" ELSE "pop"
      /\ UNCHANGED <<fFacts, fQueue, fHeld, fCollected, fSkipped, fErr, fLate, fIntra, fRet>>
  BY <1>1 DEF File!TypeOK
<1>4. File!TypeOK'
  BY <1>1, <1>3 DEF File!TypeOK
<1>5. File!InHand' = File!InHand /\ File!Begun' = File!Begun
  BY <1>2, <1>3 DEF File!InHand, File!Begun
<1>6. File!Past' = File!Past
  BY <1>3, <1>5 DEF File!Past, File!Waiting
<1>7. File!OnePlace'
  BY <1>1, <1>3, <1>5, <1>6 DEF File!OnePlace
<1>8. File!PastIsRecorded'
  BY <1>1, <1>3, <1>5, <1>6 DEF File!PastIsRecorded, File!Outcome
<1>9. File!WorkersEnd'
  <2>1. fErr # File!NoRecording => File!Popping' = File!Popping
    BY <1>2, <1>3 DEF File!Popping
  <2> QED
    BY <1>1, <1>2, <1>3, <1>5, <2>1 DEF File!WorkersEnd
<1>10. File!Phases'
  BY <1>1, <1>3, <1>5 DEF File!Phases
<1>11. Working'
  BY <1>1, <1>3, <1>4, <1>7, <1>8, <1>9, <1>10
<1> QED
  BY <1>11, WhileWorking, PTL

(* A panic ends the worker with its file in hand.                           *)
LEMMA FilePanicInv ==
  ASSUME File!IInv, NEW w \in File!Workers, File!Panic(w) PROVE File!IInv'
<1> USE DEF File!Panic
<1>1. Working
  BY BusyIsWorking
<1> USE DEF Working
<1>2. fWorker[w] = "busy"
  BY <1>1
<1>3. /\ \A v \in File!Workers : v # w => fWorker'[v] = fWorker[v]
      /\ fWorker'[w] = "panicked"
      /\ UNCHANGED <<fFacts, fQueue, fHeld, fCollected, fSkipped, fErr, fLate, fIntra, fRet>>
  BY <1>1 DEF File!TypeOK
<1>4. File!TypeOK'
  BY <1>1, <1>3 DEF File!TypeOK
<1>5. File!InHand' = File!InHand /\ File!Begun' = File!Begun
  BY <1>2, <1>3 DEF File!InHand, File!Begun
<1>6. File!Past' = File!Past
  BY <1>3, <1>5 DEF File!Past, File!Waiting
<1>7. File!OnePlace'
  BY <1>1, <1>3, <1>5, <1>6 DEF File!OnePlace
<1>8. File!PastIsRecorded'
  BY <1>1, <1>3, <1>5, <1>6 DEF File!PastIsRecorded, File!Outcome
<1>9. File!WorkersEnd'
  <2>1. File!Popping' = File!Popping
    BY <1>2, <1>3 DEF File!Popping
  <2> QED
    BY <1>1, <1>2, <1>3, <1>5, <2>1 DEF File!WorkersEnd
<1>10. File!Phases'
  BY <1>1, <1>3, <1>5 DEF File!Phases
<1>11. Working'
  BY <1>1, <1>3, <1>4, <1>7, <1>8, <1>9, <1>10
<1> QED
  BY <1>11, WhileWorking, PTL

(* One worker less is about to take a file.                                *)
LEMMA OneLess ==
  ASSUME NEW S, NEW T, NEW x \in S, IsFiniteSet(S), T = S \ {x}
  PROVE  Cardinality(S) \in Nat /\ Cardinality(T) \in Nat /\ Cardinality(T) + 1 = Cardinality(S)
<1>1. IsFiniteSet(S \ {x}) /\ Cardinality(S \ {x}) = Cardinality(S) - 1
  BY FS_RemoveElement
<1>2. Cardinality(S) \in Nat /\ Cardinality(T) \in Nat
  BY <1>1, FS_CardinalityType
<1> QED
  BY <1>1, <1>2

(* A worker that finds a file in the queue takes it in hand.               *)
LEMMA PopFileInv ==
  ASSUME File!IInv, NEW w \in File!Workers, File!Pop(w) PROVE File!IInv'
<1> USE DEF File!Pop
<1>1. Working
  BY BusyIsWorking
<1> USE DEF Working
<1>2. /\ fWorker[w] = "pop"
      /\ fQueue \in Seq(Stems) /\ File!IsInjective(fQueue)
      /\ UNCHANGED <<fFacts, fCollected, fSkipped, fErr, fIntra, fRet>>
  BY <1>1 DEF File!TypeOK, File!OnePlace
<1>3. \A v \in File!Workers : v # w => fWorker'[v] = fWorker[v] /\ fHeld'[v] = fHeld[v]
  BY <1>1 DEF File!TypeOK
<1>4. w \notin File!InHand
  BY <1>2 DEF File!InHand
<1>b. fWorker'[w] \in {"busy", "done"}
  BY <1>1 DEF File!TypeOK
<1>c. File!Begun' = File!Begun /\ File!Popping' = File!Popping \ {w} /\ w \in File!Popping
  BY <1>2, <1>3, <1>b DEF File!Begun, File!Popping
<1>d. fErr' # File!NoRecording => fLate' + File!Cardinality(File!Popping') < File!Cardinality(File!Begun')
  <2>1. IsFiniteSet(File!Popping) /\ IsFiniteSet(File!Begun)
    BY FilesAssumption, FilesFinite, FS_Subset DEF File!Popping, File!Begun
  <2>2. /\ Cardinality(File!Popping) \in Nat /\ Cardinality(File!Popping') \in Nat
        /\ Cardinality(File!Popping') + 1 = Cardinality(File!Popping)
        /\ Cardinality(File!Begun) \in Nat
    BY <1>c, <2>1, OneLess, FS_CardinalityType
  <2>3. fErr # File!NoRecording => fLate + Cardinality(File!Popping) < Cardinality(File!Begun)
    BY <1>1, SameOperators DEF File!WorkersEnd
  <2>4. fLate \in Nat /\ fLate' \in {fLate, fLate + 1}
    BY <1>1 DEF File!TypeOK
  <2>5. fErr # File!NoRecording => fLate' + Cardinality(File!Popping') < Cardinality(File!Begun)
    BY <2>2, <2>3, <2>4
  <2> QED
    BY <1>2, <1>c, <2>5, SameOperators
<1>5. CASE fQueue = <<>>
  <2>1. fWorker'[w] = "done" /\ fHeld'[w] = File!NoRecording /\ UNCHANGED <<fQueue, fLate>>
    BY <1>1, <1>5 DEF File!TypeOK
  <2>2. File!TypeOK'
    BY <1>1, <1>2, <1>5, <2>1 DEF File!TypeOK
  <2>3. File!InHand' = File!InHand /\ File!Begun' = File!Begun
    BY <1>2, <1>3, <2>1 DEF File!InHand, File!Begun
  <2>4. \A v \in File!InHand : v \in File!Workers /\ fHeld'[v] = fHeld[v]
    BY <1>3, <1>4 DEF File!InHand
  <2>5. File!Past' = File!Past
    BY <2>1, <2>3, <2>4 DEF File!Past, File!Waiting
  <2>6. File!OnePlace'
    BY <1>1, <1>2, <2>1, <2>3, <2>4, <2>5 DEF File!OnePlace
  <2>7. File!PastIsRecorded'
    BY <1>1, <1>2, <2>3, <2>5 DEF File!PastIsRecorded, File!Outcome
  <2>8. File!WorkersEnd'
    <3>1. \A v \in File!Workers : fWorker'[v] = "done" => fQueue' = <<>> \/ fErr' # File!NoRecording
      BY <1>5, <2>1
    <3>2. fErr' = File!NoRecording => fLate' = 0
      BY <1>1, <1>2, <2>1 DEF File!WorkersEnd
    <3> QED
      BY <1>d, <3>1, <3>2 DEF File!WorkersEnd
  <2>9. File!Phases'
    BY <1>1, <1>2, <2>1, <2>3 DEF File!Phases
  <2>10. Working'
    BY <1>1, <1>2, <2>2, <2>6, <2>7, <2>8, <2>9
  <2> QED
    BY <2>10, WhileWorking, PTL
<1>6. CASE fQueue # <<>>
  <2> DEFINE h == Head(fQueue)
             r == Tail(fQueue)
  <2>1. /\ h \in Stems /\ r \in Seq(Stems) /\ File!IsInjective(r) /\ h \notin File!Range(r)
        /\ \A x : x \in File!Range(fQueue) <=> x = h \/ x \in File!Range(r)
    BY <1>2, <1>6, TakeFirst
  <2>2. fWorker'[w] = "busy" /\ fHeld'[w] = h /\ fQueue' = r
    BY <1>1, <1>6 DEF File!TypeOK
  <2>a. fLate' = IF fErr # File!NoRecording THEN fLate + 1 ELSE fLate
    BY <1>6
  <2> HIDE DEF h, r
  <2>3. File!TypeOK'
    <3>1. fWorker' \in [File!Workers -> {"none", "check", "pop", "busy", "done", "panicked"}]
      BY <1>1, <1>6 DEF File!TypeOK
    <3>2. fHeld' \in [File!Workers -> Stems \cup {File!NoRecording}]
      BY <1>1, <1>6, <2>1 DEF File!TypeOK, h
    <3>3. fLate' \in Nat
      BY <1>1, <2>a DEF File!TypeOK
    <3> QED
      BY <1>1, <1>2, <2>1, <2>2, <3>1, <3>2, <3>3 DEF File!TypeOK
  <2>4. File!InHand' = File!InHand \cup {w} /\ File!Begun' = File!Begun
    BY <1>2, <1>3, <2>2 DEF File!InHand, File!Begun
  <2>5. \A v \in File!InHand : v \in File!Workers /\ v # w /\ fHeld'[v] = fHeld[v]
    BY <1>3, <1>4 DEF File!InHand
  <2>6. File!Past' = File!Past
    BY <2>1, <2>2, <2>4, <2>5 DEF File!Past, File!Waiting
  <2>7. File!OnePlace'
    <3>1. \A v \in File!InHand : fHeld[v] \in Stems /\ fHeld[v] # h /\ fHeld[v] \notin File!Range(r)
      BY <1>1, <2>1 DEF File!OnePlace
    <3>2. \A u, v \in File!InHand : fHeld[u] = fHeld[v] => u = v
      BY <1>1 DEF File!OnePlace
    <3>3. \A v \in File!InHand' : fHeld'[v] \in Stems /\ fHeld'[v] \notin File!Range(r)
      BY <2>1, <2>2, <2>4, <2>5, <3>1
    <3>4. \A u, v \in File!InHand' : fHeld'[u] = fHeld'[v] => u = v
      BY <2>2, <2>4, <2>5, <3>1, <3>2
    <3>5. /\ \A i, j \in DOMAIN fCollected' : fCollected'[i][1] = fCollected'[j][1] => i = j
          /\ \A i \in DOMAIN fCollected' : fCollected'[i][1] \in File!Past'
      BY <1>1, <1>2, <2>6 DEF File!OnePlace
    <3> QED
      BY <2>1, <2>2, <3>3, <3>4, <3>5 DEF File!OnePlace
  <2>8. File!PastIsRecorded'
    BY <1>1, <1>2, <2>4, <2>6 DEF File!PastIsRecorded, File!Outcome
  <2>9. File!WorkersEnd'
    <3>1. \A v \in File!Workers : fWorker'[v] = "done" => fErr' # File!NoRecording
      BY <1>1, <1>2, <1>3, <1>6, <2>2 DEF File!WorkersEnd
    <3>2. fErr' = File!NoRecording => fLate' = 0
      BY <1>1, <1>2, <2>a DEF File!WorkersEnd
    <3> QED
      BY <1>d, <3>1, <3>2 DEF File!WorkersEnd
  <2>10. File!Phases'
    <3>1. File!Begun # {}
      BY <1>2 DEF File!Begun
    <3> QED
      BY <1>1, <1>2, <2>4, <3>1 DEF File!Phases
  <2>11. Working'
    BY <1>1, <1>2, <2>3, <2>7, <2>8, <2>9, <2>10
  <2> QED
    BY <2>11, WhileWorking, PTL
<1> QED
  BY <1>5, <1>6

(* A file that is done is past, and what came of it is recorded.            *)
LEMMA FinishFileInv ==
  ASSUME File!IInv, NEW w \in File!Workers, File!Finish(w) PROVE File!IInv'
<1> DEFINE h == fHeld[w]
           res == File!Outcome(h)
<1>1. Working /\ fWorker[w] = "busy" /\ w \in File!InHand
  BY BusyIsWorking DEF File!Finish, File!InHand
<1> USE DEF Working
<1>2. /\ fCollected' = IF res \in {"skipped", "error"} THEN fCollected ELSE Append(fCollected, <<h, res>>)
      /\ fSkipped' = IF res = "skipped" THEN fSkipped + 1 ELSE fSkipped
      /\ fErr' = IF res = "error" THEN h ELSE fErr
      /\ UNCHANGED <<fFacts, fQueue, fHeld, fLate, fIntra, fRet>>
  BY DEF File!Finish
<1>3. /\ \A v \in File!Workers : v # w => fWorker'[v] = fWorker[v]
      /\ fWorker'[w] = IF res = "error" THEN "done" ELSE "check"
      /\ fWorker' \in [File!Workers -> {"none", "check", "pop", "busy", "done", "panicked"}]
  BY <1>1 DEF File!TypeOK, File!Finish
<1>4. /\ h \in Stems /\ h # File!NoRecording /\ res \in File!Results /\ h \notin File!Range(fQueue)
      /\ \A v \in File!InHand : fHeld[v] = h => v = w
  BY <1>1, FilesAssumption, FilesFinite, OutcomeIsResult DEF File!OnePlace, File!NoRecording
<1>5. \A s : File!Outcome(s)' = File!Outcome(s)
  BY <1>2 DEF File!Outcome
<1> HIDE DEF h, res
<1>6. File!InHand' = File!InHand \ {w} /\ File!Begun' = File!Begun
  BY <1>1, <1>3 DEF File!InHand, File!Begun
<1>7. File!Past' = File!Past \cup {h} /\ h \notin File!Past
  <2>1. \A s : File!Waiting(s)' <=> s # h /\ File!Waiting(s)
    BY <1>1, <1>2, <1>4, <1>6 DEF File!Waiting, h
  <2>2. File!Waiting(h)
    BY <1>1 DEF File!Waiting, h
  <2> QED
    BY <1>4, <2>1, <2>2 DEF File!Past
<1>8. PICK n \in Nat :
        /\ DOMAIN fCollected = 1 .. n
        /\ res \notin {"skipped", "error"} =>
             /\ fCollected' \in Seq(Stems \X File!Results) /\ DOMAIN fCollected' = 1 .. n + 1
             /\ \A i \in 1 .. n : fCollected'[i] = fCollected[i]
             /\ fCollected'[n + 1] = <<h, res>>
  <2>1. fCollected \in Seq(Stems \X File!Results) /\ <<h, res>> \in Stems \X File!Results
    BY <1>1, <1>4 DEF File!TypeOK
  <2> QED
    BY <1>2, <2>1, AddLast
<1>9. File!TypeOK'
  <2>1. fCollected' \in Seq(Stems \X File!Results)
    BY <1>1, <1>2, <1>8 DEF File!TypeOK
  <2>2. fSkipped' \in Nat
    BY <1>1, <1>2 DEF File!TypeOK
  <2> QED
    BY <1>1, <1>2, <1>3, <1>4, <2>1, <2>2 DEF File!TypeOK
<1>10. File!OnePlace'
  <2>1. \A i, j \in 1 .. n : fCollected[i][1] = fCollected[j][1] => i = j
    BY <1>1, <1>8 DEF File!OnePlace
  <2>2. \A i \in 1 .. n : fCollected[i][1] \in File!Past /\ fCollected[i][1] # h
    BY <1>1, <1>7, <1>8 DEF File!OnePlace
  <2>3. /\ \A i, j \in DOMAIN fCollected' : fCollected'[i][1] = fCollected'[j][1] => i = j
        /\ \A i \in DOMAIN fCollected' : fCollected'[i][1] \in File!Past'
    <3>1. CASE res \in {"skipped", "error"}
      BY <1>2, <1>7, <1>8, <2>1, <2>2, <3>1
    <3>2. CASE res \notin {"skipped", "error"}
      <4>1. \A i \in 1 .. n + 1 : i \in 1 .. n \/ i = n + 1
        OBVIOUS
      <4>2. \A i \in 1 .. n : fCollected'[i][1] = fCollected[i][1]
        BY <1>8, <3>2
      <4>3. fCollected'[n + 1][1] = h
        BY <1>8, <3>2
      <4> QED
        BY <1>7, <1>8, <2>1, <2>2, <3>2, <4>1, <4>2, <4>3
    <3> QED
      BY <3>1, <3>2
  <2>4. \A v \in File!InHand' : fHeld'[v] \in Stems /\ fHeld'[v] \notin File!Range(fQueue')
    BY <1>1, <1>2, <1>6 DEF File!OnePlace
  <2>5. \A u, v \in File!InHand' : fHeld'[u] = fHeld'[v] => u = v
    BY <1>1, <1>2, <1>6 DEF File!OnePlace
  <2>6. File!IsInjective(fQueue')
    BY <1>1, <1>2 DEF File!OnePlace
  <2> QED
    BY <2>3, <2>4, <2>5, <2>6 DEF File!OnePlace
<1>11. File!PastIsRecorded'
  <2>1. \A i \in DOMAIN fCollected' :
          /\ fCollected'[i][2] = File!Outcome(fCollected'[i][1])
          /\ fCollected'[i][2] \notin {"skipped", "error"}
    <3>1. \A i \in 1 .. n : fCollected[i][2] = File!Outcome(fCollected[i][1])
                            /\ fCollected[i][2] \notin {"skipped", "error"}
      BY <1>1, <1>8 DEF File!PastIsRecorded
    <3>2. CASE res \in {"skipped", "error"}
      BY <1>2, <1>8, <3>1, <3>2
    <3>3. CASE res \notin {"skipped", "error"}
      <4>1. \A i \in 1 .. n + 1 : i \in 1 .. n \/ i = n + 1
        OBVIOUS
      <4>2. fCollected'[n + 1][1] = h /\ fCollected'[n + 1][2] = res
        BY <1>8, <3>3
      <4> QED
        BY <1>8, <3>1, <3>3, <4>1, <4>2 DEF res
    <3> QED
      BY <3>2, <3>3
  <2>2. fErr' # File!NoRecording => File!Outcome(fErr') = "error"
    BY <1>1, <1>2 DEF File!PastIsRecorded, res
  <2>3. File!Begun # {}
    BY <1>1 DEF File!Begun
  <2>4. \A s \in File!Past' : \/ \E i \in DOMAIN fCollected' : fCollected'[i][1] = s
                              \/ File!Outcome(s) = "skipped"
                              \/ File!Outcome(s) = "error" /\ fErr' # File!NoRecording
    <3>1. ASSUME NEW s \in File!Past
          PROVE  \/ \E i \in DOMAIN fCollected' : fCollected'[i][1] = s
                 \/ File!Outcome(s) = "skipped"
                 \/ File!Outcome(s) = "error" /\ fErr' # File!NoRecording
      <4>1. \/ \E i \in DOMAIN fCollected : fCollected[i][1] = s
            \/ File!Outcome(s) = "skipped"
            \/ File!Outcome(s) = "error" /\ fErr # File!NoRecording
        BY <1>1, <2>3 DEF File!PastIsRecorded
      <4>2. fErr # File!NoRecording => fErr' # File!NoRecording
        BY <1>2, <1>4
      <4>3. ASSUME NEW i \in DOMAIN fCollected PROVE i \in DOMAIN fCollected' /\ fCollected'[i] = fCollected[i]
        BY <1>2, <1>8
      <4> QED
        BY <4>1, <4>2, <4>3
    <3>2. \/ \E i \in DOMAIN fCollected' : fCollected'[i][1] = h
          \/ File!Outcome(h) = "skipped"
          \/ File!Outcome(h) = "error" /\ fErr' # File!NoRecording
      <4>1. CASE res \in {"skipped", "error"}
        BY <1>2, <1>4, <4>1 DEF res
      <4>2. CASE res \notin {"skipped", "error"}
        <5>1. n + 1 \in DOMAIN fCollected' /\ fCollected'[n + 1][1] = h
          BY <1>8, <4>2
        <5> QED
          BY <5>1
      <4> QED
        BY <4>1, <4>2
    <3> QED
      BY <1>7, <3>1, <3>2
  <2>5. fSkipped' = Cardinality({s \in File!Past' : File!Outcome(s) = "skipped"})
    <3> DEFINE old == {s \in File!Past : File!Outcome(s) = "skipped"}
               new == {s \in File!Past' : File!Outcome(s) = "skipped"}
    <3>1. fSkipped = Cardinality(old)
      BY <1>1, <2>3, SameOperators DEF File!PastIsRecorded
    <3>2. IsFiniteSet(old) /\ h \notin old
      <4>1. old \in SUBSET Stems
        BY DEF File!Past
      <4> QED
        BY <1>7, <4>1, FilesAssumption, FilesFinite, FS_Subset
    <3>3. CASE res = "skipped"
      <4>1. new = old \cup {h}
        BY <1>7, <3>3 DEF res
      <4> HIDE DEF old, new
      <4>2. Cardinality(new) = Cardinality(old) + 1
        BY <3>2, <4>1, FS_AddElement
      <4> QED
        BY <1>2, <3>1, <3>3, <4>2 DEF new
    <3>4. CASE res # "skipped"
      <4>1. new = old
        BY <1>7, <3>4 DEF res
      <4> QED
        BY <1>2, <3>1, <3>4, <4>1
    <3> QED
      BY <3>3, <3>4
  <2>6. {s \in File!Past : File!Outcome(s) = "skipped"}' = {s \in File!Past' : File!Outcome(s) = "skipped"}
    BY <1>5
  <2> QED
    BY <1>2, <1>5, <2>1, <2>2, <2>4, <2>5, <2>6, SameOperators DEF File!PastIsRecorded
<1>12. File!WorkersEnd'
  <2>1. File!Popping' = File!Popping
    BY <1>1, <1>3 DEF File!Popping
  <2>2. ASSUME fErr = File!NoRecording, res = "error"
        PROVE  fLate + Cardinality(File!Popping) < Cardinality(File!Begun)
    <3>1. fLate = 0
      BY <1>1, <2>2 DEF File!WorkersEnd
    <3>2. IsFiniteSet(File!Begun) /\ w \in File!Begun
      BY <1>1, FilesAssumption, FilesFinite, FS_Subset DEF File!Begun
    <3>3. File!Popping \in SUBSET (File!Begun \ {w})
      BY <1>1 DEF File!Popping, File!Begun
    <3>4. /\ Cardinality(File!Begun) \in Nat /\ Cardinality(File!Begun \ {w}) \in Nat
          /\ Cardinality(File!Begun \ {w}) + 1 = Cardinality(File!Begun)
      BY <3>2, OneLess
    <3>5. IsFiniteSet(File!Begun \ {w})
      BY <3>2, FS_Subset
    <3>6. Cardinality(File!Popping) \in Nat /\ Cardinality(File!Popping) <= Cardinality(File!Begun \ {w})
      BY <3>3, <3>5, FS_Subset, FS_CardinalityType
    <3> QED
      BY <3>1, <3>4, <3>6
  <2>3. fErr # File!NoRecording => fLate + Cardinality(File!Popping) < Cardinality(File!Begun)
    BY <1>1, SameOperators DEF File!WorkersEnd
  <2>4. fErr' # File!NoRecording => fLate' + File!Cardinality(File!Popping') < File!Cardinality(File!Begun')
    BY <1>2, <1>6, <2>1, <2>2, <2>3, SameOperators
  <2>5. \A v \in File!Workers : fWorker'[v] = "done" => fQueue' = <<>> \/ fErr' # File!NoRecording
    BY <1>1, <1>2, <1>3, <1>4 DEF File!WorkersEnd
  <2>6. fErr' = File!NoRecording => fLate' = 0
    BY <1>1, <1>2, <1>4 DEF File!WorkersEnd
  <2> QED
    BY <2>4, <2>5, <2>6 DEF File!WorkersEnd
<1>13. File!Phases'
  <2>1. File!Begun # {}
    BY <1>1 DEF File!Begun
  <2> QED
    BY <1>1, <1>2, <1>6, <2>1 DEF File!Phases
<1>14. Working'
  BY <1>1, <1>2, <1>9, <1>10, <1>11, <1>12, <1>13
<1> QED
  BY <1>14, WhileWorking, PTL

(* The workers start on all the recordings, in order.                      *)
LEMMA SpawnFilesInv == ASSUME File!IInv, File!Spawn PROVE File!IInv'
<1> DEFINE C == Cardinality(Stems)
<1>1. Working /\ fRet.state = "idle" /\ File!Begun = {} /\ fErr = File!NoRecording
  BY DEF File!Spawn, File!IInv, File!Phases, Working
<1> USE DEF Working
<1>2. PICK count \in Nat : /\ count > 1 /\ count <= MaxJobs
                          /\ fWorker' = [w \in File!Workers |-> IF w <= count THEN "check" ELSE "none"]
  <2>1. PICK j \in Jobs :
          LET count == IF j > File!Cardinality(Stems) THEN File!Cardinality(Stems) ELSE j
          IN /\ count > 1
             /\ fWorker' = [w \in File!Workers |-> IF w <= count THEN "check" ELSE "none"]
    BY DEF File!Spawn
  <2>2. j \in Nat /\ j <= MaxJobs /\ MaxJobs \in Nat /\ File!Cardinality(Stems) \in Nat
    BY FilesAssumption, FilesFinite, SameOperators, FS_CardinalityType DEF File!FileQueueAssumption
  <2> DEFINE count == IF j > File!Cardinality(Stems) THEN File!Cardinality(Stems) ELSE j
  <2>3. count \in Nat /\ count <= MaxJobs
    BY <2>2
  <2> QED
    BY <2>1, <2>3
<1>3. /\ fQueue' = File!ListWavs(Stems) /\ fRet' = [fRet EXCEPT !.state = "running"]
      /\ UNCHANGED <<fFacts, fHeld, fCollected, fSkipped, fErr, fLate>>
  BY DEF File!Spawn
<1>4. MaxJobs \in Nat /\ C \in Nat
  BY FilesAssumption, FilesFinite, SameOperators, FS_CardinalityType DEF File!FileQueueAssumption
<1>5. /\ fQueue' \in Seq(Stems) /\ File!IsInjective(fQueue')
      /\ \A s \in Stems : s \in File!Range(fQueue')
  <2>1. Lists(fQueue', Stems)
    BY <1>3, FilesAssumption, ListWavsLists
  <2> HIDE DEF C
  <2>2. /\ fQueue' \in [1 .. C -> Stems]
        /\ \A i, j \in 1 .. C : fQueue'[i] = fQueue'[j] => i = j
        /\ \A s \in Stems : \E k \in 1 .. C : fQueue'[k] = s
    BY <2>1 DEF Lists, C
  <2>3. fQueue' \in Seq(Stems)
    BY <1>4, <2>2
  <2>4. File!IsInjective(fQueue')
    BY <2>2 DEF File!IsInjective
  <2>5. \A s \in Stems : s \in File!Range(fQueue')
    BY <2>2 DEF File!Range
  <2> QED
    BY <2>3, <2>4, <2>5
<1>6. /\ \A w \in File!Workers : fWorker'[w] \in {"check", "none"}
      /\ 1 \in File!Workers /\ fWorker'[1] = "check"
  BY <1>2, <1>4 DEF File!Workers
<1>7. File!InHand' = {} /\ File!Begun' # {}
  BY <1>6 DEF File!InHand, File!Begun
<1>8. File!Past' = {}
  BY <1>5 DEF File!Past, File!Waiting
<1>9. fCollected' = <<>> /\ fSkipped' = 0 /\ fErr' = File!NoRecording /\ fLate' = 0
  BY <1>1, <1>3 DEF File!Phases, File!WorkersEnd
<1>10. fRet' \in [state : {"running"}, rows : Seq(Stems \X File!Results)] /\ fRet'.rows = <<>>
  BY <1>1, <1>3 DEF File!TypeOK, File!Phases
<1>11. File!TypeOK'
  <2>1. fWorker' \in [File!Workers -> {"none", "check", "pop", "busy", "done", "panicked"}]
    BY <1>2
  <2> QED
    BY <1>1, <1>3, <1>5, <1>10, <2>1 DEF File!TypeOK
<1>12. File!OnePlace'
  BY <1>5, <1>7, <1>9 DEF File!OnePlace
<1>13. File!PastIsRecorded'
  <2>1. Cardinality({}) = 0
    BY FS_EmptySet
  <2>2. {s \in File!Past : File!Outcome(s) = "skipped"}' = {}
    BY <1>8
  <2> QED
    BY <1>8, <1>9, <2>1, <2>2, SameOperators DEF File!PastIsRecorded
<1>14. File!WorkersEnd'
  BY <1>6, <1>9 DEF File!WorkersEnd
<1>15. File!Phases'
  BY <1>7, <1>10 DEF File!Phases
<1>16. Working'
  BY <1>10, <1>11, <1>12, <1>13, <1>14, <1>15
<1> QED
  BY <1>16, WhileWorking, PTL

(* One job: the report is the serial one.                                  *)
LEMMA RunSeriallyInv == ASSUME File!IInv, File!RunSerially PROVE File!IInv'
<1>1. /\ fRet' = SerialReport
      /\ UNCHANGED <<fFacts, fQueue, fWorker, fHeld, fCollected, fSkipped, fErr, fLate, fIntra>>
      /\ fRet.state = "idle"
  BY DEF File!RunSerially, SerialReport
<1>2. /\ File!TypeOK /\ File!OnePlace /\ File!PastIsRecorded /\ File!WorkersEnd /\ File!Phases
      /\ File!Begun = {} /\ fSkipped = 0 /\ fLate = 0 /\ fIntra = 1
  BY <1>1 DEF File!IInv, File!Phases, File!WorkersEnd
<1>3. SerialFacts /\ SerialFacts'
  BY SerialIs, PTL
<1>4. \A s : File!Outcome(s)' = File!Outcome(s)
  BY <1>1 DEF File!Outcome
<1>5. Kept' = Kept
  BY <1>4 DEF Kept
<1>6. fRet' \in [state : {"ok", "error"}, rows : Seq(Stems \X File!Results)]
  <2>1. CASE SerialReport = [state |-> "error", rows |-> <<>>]
    BY <1>1, <2>1
  <2>2. CASE SerialReport \in [state : {"ok"}, rows : Seq(Stems \X File!Results)]
    BY <1>1, <2>2
  <2> QED
    BY <1>3, <2>1, <2>2 DEF SerialFacts
<1>7. File!TypeOK'
  BY <1>1, <1>2, <1>6 DEF File!TypeOK
<1>8. File!InHand' = File!InHand /\ File!Begun' = {}
  BY <1>1, <1>2 DEF File!InHand, File!Begun
<1>9. File!Past' = File!Past
  BY <1>1, <1>8 DEF File!Past, File!Waiting
<1>10. File!OnePlace'
  BY <1>1, <1>2, <1>8, <1>9 DEF File!OnePlace
<1>11. File!PastIsRecorded'
  BY <1>1, <1>2, <1>4, <1>8 DEF File!PastIsRecorded
<1>12. File!WorkersEnd'
  <2>1. File!Popping' = File!Popping
    BY <1>1 DEF File!Popping
  <2> QED
    BY <1>1, <1>2, <1>8, <2>1 DEF File!WorkersEnd
<1>13. File!Phases'
  <2>1. \A w \in File!Workers : fWorker'[w] = "none"
    BY <1>1, <1>2 DEF File!Begun
  <2> QED
    BY <1>1, <1>2, <1>6, <1>8, <2>1 DEF File!Phases
<1>14. File!SameFilesAsSerial'
  <2>1. /\ fRet'.state = "ok" => SerialReport'.state = "ok" /\ File!Range(fRet'.rows) = File!Range(SerialReport'.rows)
                                 /\ Len(fRet'.rows) = Len(SerialReport'.rows)
        /\ fRet'.state = "error" => SerialReport'.state = "error"
    BY <1>1, <1>3, <1>4, <1>5 DEF SerialFacts
  <2> QED
    BY <1>1, <1>2, <2>1 DEF File!SameFilesAsSerial, SerialReport
<1>15. File!StopsAfterError'
  <2>1. ASSUME NEW i \in DOMAIN fRet'.rows, fRet'.rows[i][2] = "whole"
        PROVE  fFacts[fRet'.rows[i][1]].uem = <<"none">>
    <3>1. fRet'.rows[i] \in {<<s, File!Outcome(s)>> : s \in Kept}
      BY <1>1, <1>3, <2>1 DEF SerialFacts, File!Range
    <3>2. PICK s \in Kept : fRet'.rows[i] = <<s, File!Outcome(s)>>
      BY <3>1
    <3>3. File!Outcome(s) = "whole" /\ fRet'.rows[i][1] = s
      BY <2>1, <3>2
    <3> QED
      BY <3>3 DEF File!Outcome, File!RunFile, File!Scorer
  <2> QED
    BY <1>1, <1>2, <2>1 DEF File!StopsAfterError
<1> QED
  BY <1>7, <1>10, <1>11, <1>12, <1>13, <1>14, <1>15 DEF File!IInv

(* The rows of a parallel run, once every recording is past.               *)
LEMMA RowsAreSerial ==
  ASSUME File!TypeOK, File!OnePlace, File!PastIsRecorded, File!Begun # {},
         fErr = File!NoRecording, File!Past = Stems
  PROVE  LET rows == File!SortedRows(fCollected)
         IN /\ rows \in Seq(Stems \X File!Results)
            /\ SerialReport.state = "ok"
            /\ File!Range(rows) = File!Range(SerialReport.rows)
            /\ Len(rows) = Len(SerialReport.rows)
            /\ fSkipped + Len(rows) = File!Cardinality(Stems)
            /\ \A i \in DOMAIN rows : rows[i][2] = File!Outcome(rows[i][1])
<1> DEFINE rows == File!SortedRows(fCollected)
           n == Len(fCollected)
<1>1. /\ n \in Nat /\ DOMAIN fCollected = 1 .. n
      /\ \A i \in 1 .. n : fCollected[i] \in Stems \X File!Results
  BY LenProperties, ElementOfSeq DEF File!TypeOK
<1> HIDE DEF n
<1>2. \A i \in 1 .. n : /\ fCollected[i] = <<fCollected[i][1], File!Outcome(fCollected[i][1])>>
                        /\ fCollected[i][1] \in Kept
                        /\ File!Outcome(fCollected[i][1]) # "error"
  BY <1>1 DEF File!PastIsRecorded, Kept
<1>3. \A s \in Stems : \/ \E i \in 1 .. n : fCollected[i][1] = s
                       \/ File!Outcome(s) = "skipped"
  BY <1>1 DEF File!PastIsRecorded
<1>4. \A i, j \in 1 .. n : fCollected[i][1] = fCollected[j][1] => i = j
  BY <1>1 DEF File!OnePlace
<1>5. PICK order : Lists(order, 1 .. n) /\ rows = [k \in 1 .. n |-> fCollected[order[k]]]
  <2>1. \A i \in 1 .. n : fCollected[i][1] \in Seq(Nat)
    BY <1>1, FilesAssumption, FilesFinite
  <2> QED
    BY <1>1, <2>1, SortedRowsPermute
<1>6. IsFiniteSet(1 .. n) /\ Cardinality(1 .. n) = n
  <2>1. 1 \in Int /\ n \in Int
    BY <1>1
  <2>2. IsFiniteSet(1 .. n) /\ Cardinality(1 .. n) = IF 1 > n THEN 0 ELSE n - 1 + 1
    BY <2>1, FS_Interval
  <2> QED
    BY <1>1, <2>2
<1>7. /\ \A k \in 1 .. n : order[k] \in 1 .. n
      /\ \A i \in 1 .. n : \E k \in 1 .. n : order[k] = i
  BY <1>5, <1>6 DEF Lists
<1> HIDE DEF rows
<1>8. rows \in [1 .. n -> Stems \X File!Results]
  BY <1>1, <1>5, <1>7
<1>9. rows \in Seq(Stems \X File!Results) /\ Len(rows) = n /\ DOMAIN rows = 1 .. n
  BY <1>1, <1>8
<1>10. \A i \in DOMAIN rows : rows[i][2] = File!Outcome(rows[i][1])
  <2>1. ASSUME NEW k \in 1 .. n PROVE rows[k][2] = File!Outcome(rows[k][1])
    <3>1. rows[k] = fCollected[order[k]] /\ order[k] \in 1 .. n
      BY <1>5, <1>7
    <3> QED
      BY <1>2, <3>1
  <2> QED
    BY <1>9, <2>1
<1>11. ~\E s \in Stems : File!Outcome(s) = "error"
  BY <1>2, <1>3
<1>12. File!Range(rows) = {<<s, File!Outcome(s)>> : s \in Kept}
  <2>1. ASSUME NEW k \in 1 .. n PROVE rows[k] \in {<<s, File!Outcome(s)>> : s \in Kept}
    <3>1. rows[k] = fCollected[order[k]] /\ order[k] \in 1 .. n
      BY <1>5, <1>7
    <3> QED
      BY <1>2, <3>1
  <2>2. ASSUME NEW s \in Kept PROVE \E k \in 1 .. n : rows[k] = <<s, File!Outcome(s)>>
    <3>1. PICK i \in 1 .. n : fCollected[i][1] = s
      BY <1>3 DEF Kept
    <3>2. PICK k \in 1 .. n : order[k] = i
      BY <1>7
    <3>3. rows[k] = fCollected[i]
      BY <1>5, <3>2
    <3> QED
      BY <1>2, <3>1, <3>3
  <2> QED
    BY <1>9, <2>1, <2>2 DEF File!Range
<1>13. n = Cardinality(Kept)
  <2> DEFINE f == [i \in 1 .. n |-> fCollected[i][1]]
  <2>1. f \in Bijection(1 .. n, Kept)
    <3>1. f \in [1 .. n -> Kept]
      BY <1>2
    <3>2. \A s \in Kept : \E i \in 1 .. n : f[i] = s
      BY <1>3 DEF Kept
    <3>3. \A i, j \in 1 .. n : f[i] = f[j] => i = j
      BY <1>4
    <3> QED
      BY <3>1, <3>2, <3>3 DEF Bijection, Injection, Surjection, IsInjective
  <2>2. ExistsBijection(1 .. n, Kept)
    BY <2>1 DEF ExistsBijection
  <2> QED
    BY <1>6, <2>2, FS_Bijection
<1>14. fSkipped + n = File!Cardinality(Stems)
  <2>1. fSkipped = Cardinality({s \in Stems : File!Outcome(s) = "skipped"})
    BY SameOperators DEF File!PastIsRecorded
  <2>2. {s \in Stems : File!Outcome(s) = "skipped"} = Stems \ Kept
    BY DEF Kept
  <2>3. IsFiniteSet(Stems) /\ Stems \cap Kept = Kept
    BY FilesAssumption, FilesFinite DEF Kept
  <2>4. Cardinality(Stems \ Kept) = Cardinality(Stems) - Cardinality(Kept)
    <3>1. Cardinality(Stems \ Kept) = Cardinality(Stems) - Cardinality(Stems \cap Kept)
      BY <2>3, FS_Difference
    <3> QED
      BY <2>3, <3>1
  <2>5. Cardinality(Stems) \in Nat
    BY <2>3, FS_CardinalityType
  <2>6. fSkipped = Cardinality(Stems) - n
    BY <1>13, <2>1, <2>2, <2>4
  <2>7. fSkipped + n = Cardinality(Stems)
    BY <1>1, <2>5, <2>6
  <2> QED
    BY <2>7, SameOperators
<1> QED
  BY <1>9, <1>10, <1>11, <1>12, <1>13, <1>14, SerialIs DEF SerialFacts, rows

(* Every worker ended: of its own accord, with a panic, or not begun.       *)
LEMMA ReturnReportInv == ASSUME File!IInv, File!Return PROVE File!IInv'
<1>1. /\ fRet.state = "running"
      /\ \A w \in File!Workers : fWorker[w] \in {"none", "done", "panicked"}
      /\ fIntra' = 1
      /\ UNCHANGED <<fFacts, fQueue, fWorker, fHeld, fCollected, fSkipped, fErr, fLate>>
  BY DEF File!Return
<1>2. /\ File!TypeOK /\ File!OnePlace /\ File!PastIsRecorded /\ File!WorkersEnd /\ File!Phases
      /\ File!Begun # {} /\ fRet.rows = <<>>
      /\ fRet \in [state : {"running"}, rows : Seq(Stems \X File!Results)]
  BY <1>1 DEF File!IInv, File!Phases, File!TypeOK
<1>3. SerialFacts /\ SerialFacts'
  BY SerialIs, PTL
<1>4. \A s : File!Outcome(s)' = File!Outcome(s)
  BY <1>1 DEF File!Outcome
<1>5. Kept' = Kept
  BY <1>4 DEF Kept
<1>6. \/ fRet' \in [state : {"unwound"}, rows : Seq(Stems \X File!Results)] /\ fRet'.rows = <<>>
      \/ /\ fRet' \in [state : {"error"}, rows : Seq(Stems \X File!Results)] /\ fRet'.rows = <<>>
         /\ SerialReport.state = "error"
      \/ /\ fRet' \in [state : {"ok"}, rows : Seq(Stems \X File!Results)]
         /\ SerialReport.state = "ok"
         /\ File!Range(fRet'.rows) = File!Range(SerialReport.rows)
         /\ Len(fRet'.rows) = Len(SerialReport.rows)
         /\ fSkipped + Len(fRet'.rows) = File!Cardinality(Stems)
         /\ \A i \in DOMAIN fRet'.rows : fRet'.rows[i][2] = File!Outcome(fRet'.rows[i][1])
  <2>1. CASE \E w \in File!Workers : fWorker[w] = "panicked"
    <3>1. fRet' = [fRet EXCEPT !.state = "unwound"]
      BY <2>1 DEF File!Return
    <3> QED
      BY <1>2, <3>1
  <2>2. CASE (~\E w \in File!Workers : fWorker[w] = "panicked") /\ fErr # File!NoRecording
    <3>1. fRet' = [fRet EXCEPT !.state = "error"]
      BY <2>2 DEF File!Return
    <3>2. fErr \in Stems /\ File!Outcome(fErr) = "error"
      BY <1>2, <2>2 DEF File!TypeOK, File!PastIsRecorded
    <3>3. SerialReport.state = "error"
      BY <1>3, <3>2 DEF SerialFacts
    <3> QED
      BY <1>2, <3>1, <3>3
  <2>3. CASE (~\E w \in File!Workers : fWorker[w] = "panicked") /\ fErr = File!NoRecording
    <3>1. fRet' = [state |-> "ok", rows |-> File!SortedRows(fCollected)]
      BY <2>3 DEF File!Return
    <3>2. PICK w \in File!Workers : fWorker[w] = "done"
      BY <1>1, <1>2, <2>3 DEF File!Begun
    <3>3. fQueue = <<>>
      BY <1>2, <2>3, <3>2 DEF File!WorkersEnd
    <3>4. File!InHand = {}
      BY <1>1, <2>3 DEF File!InHand
    <3>5. File!Past = Stems
      BY <3>3, <3>4 DEF File!Past, File!Waiting, File!Range
    <3> QED
      BY <1>2, <2>3, <3>1, <3>5, RowsAreSerial
  <2> QED
    BY <2>1, <2>2, <2>3
<1>7. File!TypeOK'
  <2>1. fRet' \in [state : {"idle", "running", "ok", "error", "unwound"}, rows : Seq(Stems \X File!Results)]
    BY <1>6
  <2> QED
    BY <1>1, <1>2, <2>1 DEF File!TypeOK
<1>8. File!InHand' = File!InHand /\ File!Begun' = File!Begun /\ File!Popping' = File!Popping
  BY <1>1 DEF File!InHand, File!Begun, File!Popping
<1>9. File!Past' = File!Past
  BY <1>1, <1>8 DEF File!Past, File!Waiting
<1>10. File!OnePlace'
  BY <1>1, <1>2, <1>8, <1>9 DEF File!OnePlace
<1>11. File!PastIsRecorded'
  <2>1. {s \in File!Past : File!Outcome(s) = "skipped"}' = {s \in File!Past : File!Outcome(s) = "skipped"}
    BY <1>4, <1>9
  <2> QED
    BY <1>1, <1>2, <1>4, <1>8, <1>9, <2>1 DEF File!PastIsRecorded
<1>12. File!WorkersEnd'
  BY <1>1, <1>2, <1>8 DEF File!WorkersEnd
<1>13. File!Phases'
  <2>1. fRet'.state \in {"unwound", "error", "ok"}
    BY <1>6
  <2> QED
    BY <1>1, <1>2, <1>8, <2>1 DEF File!Phases
<1>14. File!SameFilesAsSerial'
  <2>1. /\ fRet'.state = "ok" =>
             /\ SerialReport'.state = "ok"
             /\ File!Range(fRet'.rows) = File!Range(SerialReport'.rows)
             /\ Len(fRet'.rows) = Len(SerialReport'.rows)
             /\ fSkipped + Len(fRet'.rows) = File!Cardinality(Stems)
        /\ fRet'.state = "error" => SerialReport'.state = "error"
    BY <1>3, <1>4, <1>5, <1>6 DEF SerialFacts
  <2> QED
    BY <1>1, <2>1 DEF File!SameFilesAsSerial, SerialReport
<1>15. File!StopsAfterError'
  <2>1. ASSUME NEW i \in DOMAIN fRet'.rows, fRet'.rows[i][2] = "whole"
        PROVE  fFacts[fRet'.rows[i][1]].uem = <<"none">>
    <3>1. File!Outcome(fRet'.rows[i][1]) = "whole"
      BY <1>6, <2>1
    <3> QED
      BY <3>1 DEF File!Outcome, File!RunFile, File!Scorer
  <2>2. fLate < File!Cardinality({w \in File!Workers : fWorker[w] # "none"}) \/ fLate = 0
    BY <1>2, LateIsBounded DEF File!Begun
  <2> QED
    BY <1>1, <2>1, <2>2 DEF File!StopsAfterError
<1> QED
  BY <1>7, <1>10, <1>11, <1>12, <1>13, <1>14, <1>15 DEF File!IInv

(* A step of another part, and every step of the file loop, keeps the        *)
(* inductive invariant.                                                    *)
LEMMA FilesStutter == File!IInv /\ UNCHANGED File!vars => File!IInv'
<1> SUFFICES ASSUME File!IInv, UNCHANGED File!vars PROVE File!IInv'
  OBVIOUS
<1> USE DEF File!vars
<1>1. File!TypeOK'
  BY DEF File!IInv, File!TypeOK
<1>2. /\ File!InHand' = File!InHand /\ File!Begun' = File!Begun /\ File!Popping' = File!Popping
      /\ File!Past' = File!Past
  BY DEF File!InHand, File!Begun, File!Popping, File!Past, File!Waiting
<1>3. File!OnePlace' /\ File!WorkersEnd' /\ File!Phases'
  BY <1>2 DEF File!IInv, File!OnePlace, File!WorkersEnd, File!Phases
<1>4. \A s : File!Outcome(s)' = File!Outcome(s)
  BY DEF File!Outcome
<1>5. File!PastIsRecorded'
  <2>1. {s \in File!Past : File!Outcome(s) = "skipped"}' = {s \in File!Past : File!Outcome(s) = "skipped"}
    BY <1>2, <1>4
  <2> QED
    BY <1>2, <1>4, <2>1 DEF File!IInv, File!PastIsRecorded
<1>6. File!SameFilesAsSerial'
  <2>1. SerialFacts /\ SerialFacts'
    BY SerialIs, PTL
  <2>2. Kept' = Kept
    BY <1>4 DEF Kept
  <2>3. /\ fRet.state = "ok" => /\ SerialReport.state = "ok"
                                /\ File!Range(fRet.rows) = File!Range(SerialReport.rows)
                                /\ Len(fRet.rows) = Len(SerialReport.rows)
                                /\ fSkipped > 0 => fSkipped + Len(fRet.rows) = File!Cardinality(Stems)
        /\ fRet.state = "error" => SerialReport.state = "error"
    BY DEF File!IInv, File!SameFilesAsSerial, SerialReport
  <2>4. /\ SerialReport'.state = SerialReport.state
        /\ SerialReport.state = "ok" => /\ File!Range(SerialReport'.rows) = File!Range(SerialReport.rows)
                                        /\ Len(SerialReport'.rows) = Len(SerialReport.rows)
    BY <1>4, <2>1, <2>2 DEF SerialFacts
  <2> QED
    BY <2>3, <2>4 DEF File!SameFilesAsSerial, SerialReport
<1>7. File!StopsAfterError'
  BY DEF File!IInv, File!StopsAfterError
<1> QED
  BY <1>1, <1>3, <1>5, <1>6, <1>7 DEF File!IInv

LEMMA FilesNext == File!IInv /\ [File!Next]_File!vars => File!IInv'
<1> SUFFICES ASSUME File!IInv, [File!Next]_File!vars PROVE File!IInv'
  OBVIOUS
<1>1. CASE UNCHANGED File!vars
  BY <1>1, FilesStutter
<1>2. ASSUME NEW w \in File!Workers, File!Work(w) PROVE File!IInv'
  BY <1>2, CheckErrorInv, PopFileInv, FinishFileInv, FilePanicInv DEF File!Work
<1> QED
  BY <1>1, <1>2, SpawnFilesInv, RunSeriallyInv, ReturnReportInv DEF File!Next

-----------------------------------------------------------------------------
(* The composition.                                                        *)

(* The part at work is fixed, and so are the variables of the others.      *)
LEMMA EmbedSteps ==
  ASSUME part = "embed", [MCNext]_allVars PROVE part' = part /\ [Next]_vars
<1>1. CASE UNCHANGED allVars
  BY <1>1 DEF allVars
<1>2. CASE MCNext
  BY <1>2 DEF MCNext, InEmbed, InWindows, InSessions, InFiles, InPool, InFetch, InRegistry, InAdapters
<1> QED
  BY <1>1, <1>2

LEMMA PartIsFixed == [MCNext]_allVars => part' = part
<1>1. CASE UNCHANGED allVars
  BY <1>1 DEF allVars
<1>2. CASE MCNext
  BY <1>2 DEF MCNext, InEmbed, InWindows, InSessions, InFiles, InPool, InFetch, InRegistry, InAdapters
<1> QED
  BY <1>1, <1>2

(* The slots of embed_batch hold their own clips' embeddings, none lost.   *)
THEOREM ClipsKeepTheirSlotsHolds == MCSpec => []ClipsKeepTheirSlots
<1>1. MCInit => ClipsKeepTheirSlots
  BY InitInv DEF MCInit, ClipsKeepTheirSlots
<1>2. ClipsKeepTheirSlots /\ [MCNext]_allVars => ClipsKeepTheirSlots'
  BY PartIsFixed, EmbedSteps, NextInv DEF ClipsKeepTheirSlots
<1> QED
  BY <1>1, <1>2, PTL DEF MCSpec

(* A call that returns leaves the process-wide width it found.             *)
THEOREM EmbedRestoresWidthHolds == MCSpec => EmbedRestoresWidth
<1>1. ClipsKeepTheirSlots /\ [MCNext]_allVars =>
        (part = "embed" => \A c \in Callers :
           pc'[c] = "returned" /\ pc[c] # "returned" => intra' = InitialIntra)
  BY EmbedSteps, ReturnRestores DEF ClipsKeepTheirSlots
<1> QED
  BY <1>1, ClipsKeepTheirSlotsHolds, PTL DEF MCSpec, EmbedRestoresWidth
-----------------------------------------------------------------------------
(* The windows of a recording.                                             *)
LEMMA WindowSteps ==
  ASSUME part = "windows", [MCNext]_allVars PROVE [Window!Next]_Window!vars
<1>1. CASE UNCHANGED allVars
  BY <1>1 DEF allVars, windowVars, Window!vars
<1>2. CASE MCNext
  BY <1>2 DEF MCNext, InEmbed, InWindows, InSessions, InFiles, InPool, InFetch, InRegistry, InAdapters
<1> QED
  BY <1>1, <1>2

(* The rows of a recording come back in window order, none dropped.        *)
THEOREM RowsAreTheWindowsHolds == MCSpec => []RowsAreTheWindows
<1>1. Window!IInv => Window!RowsAreTheWindows
  BY Window!RowsFit
<1>2. MCInit => RowsAreTheWindows
  BY <1>1, WindowAssumption, Window!InitInv DEF MCInit, RowsAreTheWindows
<1>3. Window!IInv /\ [Window!Next]_Window!vars => Window!IInv'
  BY WindowAssumption, Window!NextInv
<1>4. Window!IInv' => Window!RowsAreTheWindows'
  BY <1>1, PTL
<1>5. RowsAreTheWindows /\ [MCNext]_allVars => RowsAreTheWindows'
  BY <1>3, <1>4, PartIsFixed, WindowSteps DEF RowsAreTheWindows
<1> QED
  BY <1>2, <1>5, PTL DEF MCSpec
-----------------------------------------------------------------------------
(* The sessions that files share.                                          *)
LEMMA SessionSteps ==
  ASSUME part = "sessions", [MCNext]_allVars PROVE [Session!Next]_Session!vars
<1>1. CASE UNCHANGED allVars
  BY <1>1 DEF allVars, sessionVars, Session!vars
<1>2. CASE MCNext
  BY <1>2 DEF MCNext, InEmbed, InWindows, InSessions, InFiles, InPool, InFetch, InRegistry, InAdapters
<1> QED
  BY <1>1, <1>2

(* A session has one holder and is never lost, and a call's results are     *)
(* those of its own items, in order.                                       *)
THEOREM SessionsAreConservedHolds == MCSpec => []SessionsAreConserved
<1>1. Session!IInv => Session!SessionsAreConserved /\ Session!ResultsInOrder
  BY SessionAssumption, Session!OnePlaceCounts, Session!OutFits
<1>2. MCInit => SessionsAreConserved
  BY <1>1, SessionAssumption, Session!InitInv DEF MCInit, SessionsAreConserved
<1>3. Session!IInv /\ [Session!Next]_Session!vars => Session!IInv'
  BY SessionAssumption, Session!NextInv
<1>4. Session!IInv' => Session!SessionsAreConserved' /\ Session!ResultsInOrder'
  BY <1>1, PTL
<1>5. SessionsAreConserved /\ [MCNext]_allVars => SessionsAreConserved'
  BY <1>3, <1>4, PartIsFixed, SessionSteps DEF SessionsAreConserved
<1> QED
  BY <1>2, <1>5, PTL DEF MCSpec
-----------------------------------------------------------------------------
(* The files of a dataset.                                                 *)
LEMMA FileSteps ==
  ASSUME part = "files", [MCNext]_allVars PROVE [File!Next]_File!vars
<1>1. CASE UNCHANGED allVars
  BY <1>1 DEF allVars, fileVars, File!vars
<1>2. CASE MCNext
  BY <1>2 DEF MCNext, InEmbed, InWindows, InSessions, InFiles, InPool, InFetch, InRegistry, InAdapters
<1> QED
  BY <1>1, <1>2

(* The parallel bench scores the files a serial run scores, and stops.      *)
THEOREM FilesAsSerialHolds == MCSpec => []FilesAsSerial
<1>1. File!IInv => File!SameFilesAsSerial /\ File!StopsAfterError
  BY DEF File!IInv
<1>2. MCInit => FilesAsSerial
  BY <1>1, FilesInit DEF MCInit, FilesAsSerial
<1>3. File!IInv' => File!SameFilesAsSerial' /\ File!StopsAfterError'
  BY <1>1, PTL
<1>4. FilesAsSerial /\ [MCNext]_allVars => FilesAsSerial'
  BY <1>3, PartIsFixed, FileSteps, FilesNext DEF FilesAsSerial
<1> QED
  BY <1>2, <1>4, PTL DEF MCSpec
-----------------------------------------------------------------------------
(* The kernels' pool, whose closures panic on some threads.                *)
LEMMA PoolSteps ==
  ASSUME part = "pool", [MCNext]_allVars PROVE [Pool!Next]_Pool!vars
<1>1. CASE UNCHANGED allVars
  BY <1>1 DEF allVars, poolVars, Pool!vars
<1>2. CASE MCNext
  BY <1>2 DEF MCNext, InEmbed, InWindows, InSessions, InFiles, InPool, InFetch, InRegistry, InAdapters
<1> QED
  BY <1>1, <1>2

(* Whatever panics, a call that returns has run every index once, and the  *)
(* slot has one owner.                                                     *)
THEOREM PanicsAreContainedHolds ==
  ASSUME PanicWorkers # {} PROVE MCSpec => []PanicsAreContained
<1>1. Pool!IInv => Pool!ExactlyOnce /\ Pool!OneDispatcher
  BY DEF Pool!IInv, Pool!IExec, Pool!ExecOf, Pool!ExactlyOnce, Pool!IOwner, Pool!OneDispatcher
<1>2. MCInit => PanicsAreContained
  BY <1>1, PoolAssumption, Pool!InitInv DEF MCInit, PanicsAreContained
<1>3. Pool!IInv /\ [Pool!Next]_Pool!vars => Pool!IInv'
  BY PoolAssumption, Pool!NextInv
<1>4. Pool!IInv' => Pool!ExactlyOnce' /\ Pool!OneDispatcher'
  BY <1>1, PTL
<1>5. PanicsAreContained /\ [MCNext]_allVars => PanicsAreContained'
  BY <1>3, <1>4, PartIsFixed, PoolSteps DEF PanicsAreContained
<1> QED
  BY <1>2, <1>5, PTL DEF MCSpec
-----------------------------------------------------------------------------
(* The downloads: MCCalls has the assumptions of ModelDownload as its own,  *)
(* and one process.                                                        *)
LEMMA FetchSteps ==
  ASSUME part = "fetch", [MCNext]_allVars PROVE [Fetch!Next]_Fetch!vars
<1>1. CASE UNCHANGED allVars
  BY <1>1 DEF allVars, fetchVars, Fetch!vars
<1>2. CASE MCNext
  BY <1>2 DEF MCNext, InEmbed, InWindows, InSessions, InFiles, InPool, InFetch, InRegistry, InAdapters
<1> QED
  BY <1>1, <1>2

LEMMA FetchInv ==
  ASSUME Fetch!SameProcess
  PROVE  MCSpec => [](part = "fetch" => Fetch!IInv)
<1> DEFINE Inv == part = "fetch" => Fetch!IInv
<1>1. MCInit => Inv
  BY FetchAssumption, Fetch!InitInv DEF MCInit
<1>2. Inv /\ [MCNext]_allVars => Inv'
  BY FetchAssumption, PartIsFixed, FetchSteps, Fetch!NextInv
<1> QED
  BY <1>1, <1>2, PTL DEF MCSpec

(* A download that succeeds left the whole model and a signature accepted, *)
(* and the staging file stays within the cap.                              *)
THEOREM OkMeansVerifiedHolds ==
  ASSUME Fetch!SameProcess
  PROVE  MCSpec => []OkMeansVerified
<1>1. Fetch!IInv => Fetch!OkMeansVerified /\ Fetch!PartialWithinCap
  BY Fetch!PartialFits DEF Fetch!IInv
<1>2. (part = "fetch" => Fetch!IInv) => OkMeansVerified
  BY <1>1 DEF OkMeansVerified
<1> QED
  BY <1>2, FetchInv, PTL

(* Short of a power loss the cached file only becomes the model.           *)
THEOREM CacheOnlyBecomesGoodHolds ==
  ASSUME Fetch!SameProcess
  PROVE  MCSpec => CacheOnlyBecomesGood
<1>1. (part = "fetch" => Fetch!IInv) /\ [MCNext]_allVars => (part = "fetch" => Fetch!BecomesGood)
  BY FetchAssumption, FetchSteps, Fetch!DestOnlyBecomesGood
<1> QED
  BY <1>1, FetchInv, PTL DEF MCSpec, CacheOnlyBecomesGood
-----------------------------------------------------------------------------
(* The adapters: an alias keeps leading to a registered name, since names   *)
(* are replaced and never taken away.                                       *)
LEMMA AdaptersStart == Model!AdaptersInit => Model!AdaptersIInv
<1> SUFFICES ASSUME Model!AdaptersInit PROVE Model!AdaptersIInv
  OBVIOUS
<1>1. CASE aFactories = <<>> /\ aAliases = <<>>
  <2>1. DOMAIN aFactories = {} /\ DOMAIN aAliases = {}
    BY <1>1
  <2> QED
    BY <2>1 DEF Model!AdaptersIInv, Model!AliasesLead
<1>2. CASE aFactories = Model!BuiltinFactories /\ aAliases = Model!BuiltinAliases
  BY <1>2 DEF Model!AdaptersIInv, Model!AliasesLead, Model!BuiltinFactories, Model!BuiltinAliases
<1> QED
  BY <1>1, <1>2 DEF Model!AdaptersInit

LEMMA AdaptersStep ==
  Model!AdaptersIInv /\ [Model!AdaptersNext]_adapterVars => Model!AdaptersIInv'
<1> SUFFICES ASSUME Model!AdaptersIInv, [Model!AdaptersNext]_adapterVars
             PROVE  Model!AdaptersIInv'
  OBVIOUS
<1> USE DEF Model!AdaptersIInv, Model!AliasesLead, Model!Put, Model!Keys
<1>1. CASE UNCHANGED adapterVars
  BY <1>1 DEF adapterVars
<1>2. CASE Model!AdaptersNext
  <2>1. PICK k \in Model!Keys :
          \/ Model!Register(k) \/ Model!RegisterOrReplace(k)
          \/ \E target \in AdapterNames : Model!RegisterAlias(k, target)
    BY <1>2 DEF Model!AdaptersNext
  <2>2. CASE Model!Register(k) \/ Model!RegisterOrReplace(k)
    <3>1. aAliases' = aAliases /\ DOMAIN aFactories' = DOMAIN aFactories \cup {k}
      BY <2>2 DEF Model!Register, Model!RegisterOrReplace
    <3> QED
      BY <3>1
  <2>3. ASSUME NEW target \in AdapterNames, Model!RegisterAlias(k, target) PROVE Model!AdaptersIInv'
    <3>1. /\ aFactories' = aFactories /\ <<k[1], target>> \in DOMAIN aFactories
          /\ DOMAIN aAliases' = DOMAIN aAliases \cup {k}
          /\ \A a \in DOMAIN aAliases' : aAliases'[a] = IF a = k THEN target ELSE aAliases[a]
      BY <2>3 DEF Model!RegisterAlias
    <3> QED
      BY <3>1
  <2> QED
    BY <2>1, <2>2, <2>3
<1> QED
  BY <1>1, <1>2

LEMMA AdaptersLead == Model!AdaptersIInv => Model!ResolvedCanBeCreated
<1> SUFFICES ASSUME Model!AdaptersIInv, NEW k \in Model!Keys, Model!Resolve(k) # {}
             PROVE  Model!Create(k) # {}
  BY DEF Model!ResolvedCanBeCreated
<1>1. CASE k \in DOMAIN aFactories
  BY <1>1 DEF Model!Resolve, Model!Create, Model!Keys
<1>2. CASE k \notin DOMAIN aFactories
  <2>1. k \in DOMAIN aAliases /\ Model!Resolve(k) = {aAliases[k]}
    BY <1>2 DEF Model!Resolve
  <2>2. <<k[1], aAliases[k]>> \in DOMAIN aFactories
    BY <2>1 DEF Model!AdaptersIInv, Model!AliasesLead
  <2> QED
    BY <2>1, <2>2 DEF Model!Create
<1> QED
  BY <1>1, <1>2

-----------------------------------------------------------------------------
(* The registry: a profile that is in the manifest names models of it.      *)
LEMMA ProfilesLead ==
  ASSUME Model!RegistryTypeOK, NEW p \in DOMAIN rManifest.profiles
  PROVE  Model!Pair(p) \in Seq(Model!Names) /\ Len(Model!Pair(p)) = 2
<1>1. rManifest \in Manifests /\ Model!FromToml(rManifest) = "ok"
  BY DEF Model!RegistryTypeOK
<1>2. ~Model!DanglingProfile(rManifest)
  BY <1>1 DEF Model!FromToml
<1>3. {rManifest.profiles[p].segmenter, rManifest.profiles[p].embedder} \subseteq DOMAIN rManifest.models
  BY <1>2 DEF Model!DanglingProfile
<1>4. DOMAIN rManifest.models \subseteq Model!EveryId
  BY <1>1 DEF Model!EveryId
<1> QED
  BY <1>3, <1>4 DEF Model!Pair, Model!Names

LEMMA AskedAreNames ==
  ASSUME Model!RegistryAssumption, Model!RegistryTypeOK, NEW asked \in Model!Asked
  PROVE  asked \in Seq(Model!Names)
<1>1. CASE rCall.op = "plda"
  BY <1>1 DEF Model!Asked, Model!RegistryAssumption, Model!Names
<1>2. CASE rCall.op = "profile"
  BY <1>2, ProfilesLead DEF Model!Asked
<1>3. CASE rCall.op = "model"
  <2>1. PICK id \in Model!EveryId \cup {"unheard-of"} : asked = <<id>>
    BY <1>3 DEF Model!Asked
  <2>2. id \in Model!Names
    BY Zenon DEF Model!Names
  <2> QED
    BY <2>1, <2>2
<1>4. CASE rCall.op = "none"
  BY <1>4 DEF Model!Asked
<1>5. rCall.op \in {"none", "model", "plda", "profile"}
  BY DEF Model!RegistryTypeOK
<1> QED
  BY <1>1, <1>2, <1>3, <1>4, <1>5

(* A request begins: nothing is seen, and all of it is left to do.           *)
LEMMA RequestBegins ==
  ASSUME Model!RegistryIInv,
         NEW op \in {"model", "plda", "profile"}, NEW ids \in Seq(Model!Names),
         rCall' = Model!Ask(op, ids), ids \in Model!Asked',
         UNCHANGED <<rManifest, rStrict, rOnline, rFiles>>
  PROVE  Model!RegistryIInv' /\ Model!NothingIsFetchedInVain'
<1>1. /\ rCall'.op = op /\ rCall'.todo = ids /\ rCall'.seen = <<>> /\ rCall'.fetched = {}
      /\ rCall'.result = IF ids = <<>> THEN "ok" ELSE "busy"
      /\ rCall' \in [op : {"none", "model", "plda", "profile"}, todo : Seq(Model!Names),
                     seen : Seq([id : Model!Names, file : Model!FilesAround]),
                     fetched : SUBSET Model!Names, result : {"idle", "busy", "ok"} \cup Model!Complaints]
  <2> DEFINE result == IF ids = <<>> THEN "ok" ELSE "busy"
             call == [op |-> op, todo |-> ids, seen |-> <<>>, fetched |-> {}, result |-> result]
  <2>1. rCall' = call
    <3>1. rCall' = [Model!Idle EXCEPT !.op = op, !.todo = ids, !.result = result]
      BY Zenon DEF Model!Ask
    <3> HIDE DEF result
    <3> QED
      BY Zenon, <3>1 DEF Model!Idle
  <2>2. result \in {"ok", "busy"}
    OBVIOUS
  <2> QED
    BY <2>1, <2>2
<1>2. Model!RegistryTypeOK'
  BY <1>1 DEF Model!RegistryIInv, Model!RegistryTypeOK
<1>3. Model!SeenWasVerified'
  BY <1>1 DEF Model!SeenWasVerified
<1>4. Model!SeenOrToDo(ids)'
  BY <1>1 DEF Model!SeenOrToDo
<1> QED
  BY <1>1, <1>2, <1>3, <1>4 DEF Model!RegistryIInv, Model!NothingIsFetchedInVain

LEMMA RequestRefused ==
  ASSUME Model!RegistryIInv,
         NEW op \in {"model", "plda", "profile"}, NEW why \in Model!Complaints,
         rCall' = Model!Refuse(op, why),
         UNCHANGED <<rManifest, rStrict, rOnline, rFiles>>
  PROVE  Model!RegistryIInv' /\ Model!NothingIsFetchedInVain'
<1>1. /\ rCall'.seen = <<>> /\ rCall'.fetched = {} /\ rCall'.result = why
      /\ rCall' \in [op : {"none", "model", "plda", "profile"}, todo : Seq(Model!Names),
                     seen : Seq([id : Model!Names, file : Model!FilesAround]),
                     fetched : SUBSET Model!Names, result : {"idle", "busy", "ok"} \cup Model!Complaints]
  <2> DEFINE call == [op |-> op, todo |-> <<>>, seen |-> <<>>, fetched |-> {}, result |-> why]
  <2>1. rCall' = call
    BY Zenon DEF Model!Refuse, Model!Idle
  <2> QED
    BY <2>1
<1>2. Model!RegistryTypeOK'
  BY <1>1 DEF Model!RegistryIInv, Model!RegistryTypeOK
<1>3. Model!SeenWasVerified'
  BY <1>1 DEF Model!SeenWasVerified
<1>4. rCall'.result \notin {"busy", "ok"}
  BY <1>1 DEF Model!Complaints
<1> QED
  BY <1>1, <1>2, <1>3, <1>4 DEF Model!RegistryIInv, Model!NothingIsFetchedInVain

LEMMA AppendStays ==
  ASSUME NEW S, NEW s \in Seq(S), NEW e \in S PROVE Append(s, e) \in Seq(S)
  OBVIOUS

(* What is seen and what is left spell out a request; so they do when one    *)
(* more is seen and one fewer is left.                                       *)
Spells(line, seen, todo) ==
  /\ Len(line) = Len(seen) + Len(todo)
  /\ \A i \in DOMAIN seen : line[i] = seen[i].id
  /\ \A i \in DOMAIN todo : line[Len(seen) + i] = todo[i]

LEMMA LineMoves ==
  ASSUME NEW S, NEW T, NEW line, NEW seen \in Seq(S), NEW todo \in Seq(T), todo # <<>>,
         NEW found \in S, found.id = Head(todo),
         Spells(line, seen, todo)
  PROVE  Spells(line, Append(seen, found), Tail(todo))
<1> USE DEF Spells
<1>1. /\ Len(seen) \in Nat /\ Len(todo) \in Nat \ {0} /\ todo[1] = found.id
      /\ DOMAIN seen = 1 .. Len(seen) /\ DOMAIN todo = 1 .. Len(todo)
  OBVIOUS
<1>2. /\ Len(Append(seen, found)) = Len(seen) + 1
      /\ DOMAIN Append(seen, found) = 1 .. (Len(seen) + 1)
      /\ \A i \in 1 .. (Len(seen) + 1) :
           Append(seen, found)[i] = IF i = Len(seen) + 1 THEN found ELSE seen[i]
  OBVIOUS
<1>3. /\ Len(Tail(todo)) = Len(todo) - 1 /\ DOMAIN Tail(todo) = 1 .. (Len(todo) - 1)
      /\ \A i \in 1 .. (Len(todo) - 1) : Tail(todo)[i] = todo[i + 1]
  OBVIOUS
<1>4. Len(line) = Len(Append(seen, found)) + Len(Tail(todo))
  BY <1>1, <1>2, <1>3
<1>5. ASSUME NEW i \in DOMAIN Append(seen, found) PROVE line[i] = Append(seen, found)[i].id
  <2>1. CASE i = Len(seen) + 1
    BY <1>1, <1>2, <2>1
  <2>2. CASE i \in 1 .. Len(seen)
    BY <1>1, <1>2, <2>2
  <2> QED
    BY <1>1, <1>2, <2>1, <2>2
<1>6. ASSUME NEW i \in DOMAIN Tail(todo)
      PROVE  line[Len(Append(seen, found)) + i] = Tail(todo)[i]
  <2>1. i \in Int /\ i + 1 \in 1 .. Len(todo) /\ Tail(todo)[i] = todo[i + 1]
    BY <1>1, <1>3
  <2>2. Len(Append(seen, found)) + i = Len(seen) + (i + 1)
    BY <1>1, <1>2, <2>1
  <2> QED
    BY <1>1, <2>1, <2>2
<1> QED
  BY <1>4, <1>5, <1>6

(* The next model of a request is answered: what is seen and what is left    *)
(* still are what was asked.                                                *)
LEMMA RequestGoesOn ==
  ASSUME Model!RegistryAssumption, Model!RegistryIInv, Model!NothingIsFetchedInVain,
         NEW id, NEW why \in {"ok"} \cup Model!Complaints, NEW file, NEW fetched,
         rCall.result = "busy", id = Head(rCall.todo), fetched \subseteq {id},
         Model!Answer(id, why, file, fetched),
         UNCHANGED <<rManifest, rStrict, rOnline>>,
         rFiles' \in [Model!EveryId -> Model!FilesAround],
         why = "ok" => /\ file \in Model!FilesAround /\ file.hash = "good"
                       /\ rManifest.models[id].signature \in {"none", "valid"}
                       /\ rStrict /\ ~rOnline => rManifest.models[id].signature = "valid",
         ~rOnline => fetched = {},
         why = "UnsignedModel" => ~rOnline
  PROVE  Model!RegistryIInv' /\ Model!NothingIsFetchedInVain'
<1> DEFINE seen == rCall.seen
           todo == rCall.todo
<1>1. /\ Model!RegistryTypeOK /\ Model!SeenWasVerified /\ todo # <<>>
      /\ \E asked \in Model!Asked : Model!SeenOrToDo(asked)
  BY DEF Model!RegistryIInv
<1>2. PICK asked \in Model!Asked : Model!SeenOrToDo(asked)
  BY <1>1
<1>3. /\ seen \in Seq([id : Model!Names, file : Model!FilesAround]) /\ todo \in Seq(Model!Names)
      /\ rCall.fetched \subseteq Model!Names /\ rCall.op \in {"none", "model", "plda", "profile"}
  BY <1>1 DEF Model!RegistryTypeOK
<1>4. /\ rCall'.op = rCall.op /\ rCall'.fetched = rCall.fetched \cup fetched
      /\ rCall'.todo = IF why = "ok" THEN Tail(todo) ELSE <<>>
      /\ rCall'.seen = IF why = "ok" THEN Append(seen, [id |-> id, file |-> file]) ELSE seen
      /\ rCall'.result = IF why # "ok" THEN why ELSE IF Len(todo) = 1 THEN "ok" ELSE "busy"
      /\ rCall' = [op |-> rCall'.op, todo |-> rCall'.todo, seen |-> rCall'.seen,
                   fetched |-> rCall'.fetched, result |-> rCall'.result]
  BY <1>1 DEF Model!Answer, Model!RegistryTypeOK
<1>5. id \in Model!Names
  BY <1>1, <1>3
<1>6. Model!RegistryTypeOK'
  <2>1. rCall'.todo \in Seq(Model!Names)
    BY <1>1, <1>3, <1>4
  <2>2. rCall'.seen \in Seq([id : Model!Names, file : Model!FilesAround])
    <3>1. why = "ok" => [id |-> id, file |-> file] \in [id : Model!Names, file : Model!FilesAround]
      BY <1>5
    <3>2. rCall'.seen = IF why = "ok" THEN Append(seen, [id |-> id, file |-> file]) ELSE seen
      BY <1>4
    <3>3. seen \in Seq([id : Model!Names, file : Model!FilesAround])
      BY <1>3
    <3>4. CASE why = "ok"
      BY <3>1, <3>2, <3>3, <3>4, AppendStays
    <3>5. CASE why # "ok"
      BY <3>2, <3>3, <3>5
    <3> QED
      BY <3>4, <3>5
  <2>3. rCall'.fetched \subseteq Model!Names /\ rCall'.result \in {"busy", "ok"} \cup Model!Complaints
    <3>1. rCall'.fetched = rCall.fetched \cup fetched /\ fetched \subseteq Model!Names
      BY <1>4, <1>5
    <3>2. rCall'.result \in {why, "ok", "busy"}
      BY <1>4
    <3> QED
      BY <1>3, <3>1, <3>2
  <2> QED
    BY <1>1, <1>3, <1>4, <2>1, <2>2, <2>3 DEF Model!RegistryTypeOK
<1>7. Model!SeenWasVerified'
  <2> SUFFICES ASSUME NEW i \in DOMAIN rCall'.seen
               PROVE  /\ rCall'.seen[i].file.hash = "good"
                      /\ rManifest.models[rCall'.seen[i].id].signature \in {"none", "valid"}
                      /\ rStrict /\ ~rOnline => rManifest.models[rCall'.seen[i].id].signature = "valid"
    BY DEF Model!SeenWasVerified
  <2>1. CASE i \in DOMAIN seen
    <3>1. rCall'.seen[i] = seen[i]
      BY <1>3, <1>4, <2>1
    <3> QED
      BY <1>1, <2>1, <3>1 DEF Model!SeenWasVerified
  <2>2. CASE i \notin DOMAIN seen
    <3>1. why = "ok" /\ rCall'.seen[i] = [id |-> id, file |-> file]
      BY <1>3, <1>4, <2>2
    <3> QED
      BY <3>1
  <2> QED
    BY <2>1, <2>2
<1>8. why = "ok" => Model!SeenOrToDo(asked)'
  <2> SUFFICES ASSUME why = "ok" PROVE Model!SeenOrToDo(asked)'
    OBVIOUS
  <2> DEFINE found == [id |-> id, file |-> file]
  <2>1. Spells(asked, seen, todo)
    BY <1>2 DEF Model!SeenOrToDo, Spells
  <2>2. rCall'.seen = Append(seen, found) /\ rCall'.todo = Tail(todo)
    BY <1>4, <1>5
  <2>3. found \in [id : Model!Names, file : Model!FilesAround] /\ found.id = Head(todo)
    BY <1>5
  <2>4. seen \in Seq([id : Model!Names, file : Model!FilesAround]) /\ todo \in Seq(Model!Names) /\ todo # <<>>
    BY <1>1, <1>3
  <2> HIDE DEF found, seen, todo
  <2>5. Spells(asked, Append(seen, found), Tail(todo))
    BY Zenon, <2>1, <2>3, <2>4, LineMoves
  <2> QED
    BY Zenon, <2>2, <2>5 DEF Model!SeenOrToDo, Spells
<1>9. asked \in Model!Asked'
  BY <1>2, <1>4 DEF Model!Asked, Model!Pair, Model!Unsigned
<1>10. rCall'.result \in {"busy", "ok"} => why = "ok"
  BY <1>4 DEF Model!Complaints
<1>11. rCall'.result = "busy" => rCall'.todo # <<>>
  <2>1. rCall'.result = "busy" => why = "ok" /\ Len(todo) # 1
    BY <1>4 DEF Model!Complaints
  <2>2. Len(Tail(todo)) = Len(todo) - 1 /\ Len(todo) \in Nat
    BY <1>1, <1>3
  <2>3. Len(todo) # 1 => Tail(todo) # <<>>
    <3> DEFINE rest == Tail(todo)
               n == Len(todo)
    <3>1. Len(rest) = n - 1 /\ n \in Nat
      BY <2>2
    <3> HIDE DEF rest, n
    <3>2. rest = <<>> => n = 1
      BY <3>1
    <3> QED
      BY <3>2 DEF rest, n
  <2> QED
    BY <1>4, <2>1, <2>3
<1>12. rCall'.result = "ok" => rCall'.todo = <<>>
  BY <1>3, <1>4
<1>13. Model!RegistryIInv'
  BY <1>6, <1>7, <1>8, <1>9, <1>10, <1>11, <1>12 DEF Model!RegistryIInv
<1>14. Model!NothingIsFetchedInVain'
  BY <1>4 DEF Model!NothingIsFetchedInVain
<1> QED
  BY <1>13, <1>14

LEMMA RegistryStart ==
  Model!Init => Model!RegistryIInv /\ Model!NothingIsFetchedInVain
<1> SUFFICES ASSUME Model!Init PROVE Model!RegistryIInv /\ Model!NothingIsFetchedInVain
  OBVIOUS
<1>1. rCall = [op |-> "none", todo |-> <<>>, seen |-> <<>>, fetched |-> {}, result |-> "idle"]
  BY Zenon DEF Model!Init, Model!Idle
<1>2. Model!RegistryTypeOK
  BY <1>1 DEF Model!Init, Model!RegistryTypeOK
<1>3. Model!SeenWasVerified
  BY <1>1 DEF Model!SeenWasVerified
<1> QED
  BY <1>1, <1>2, <1>3 DEF Model!RegistryIInv, Model!NothingIsFetchedInVain

(* A request: for a model, for the PLDA set, and for a profile, of which both *)
(* models are signed if they must be.                                       *)
LEMMA RegistryAsks ==
  ASSUME Model!RegistryAssumption, Model!RegistryIInv,
         \/ \E id \in Model!EveryId \cup {"unheard-of"} : Model!AskModel(id)
         \/ Model!AskPlda
         \/ \E p \in {"custom", "mobile", "balanced"} : Model!AskProfile(p)
  PROVE  Model!RegistryIInv' /\ Model!NothingIsFetchedInVain'
<1>1. UNCHANGED <<rManifest, rStrict, rOnline, rFiles>>
  BY DEF Model!AskModel, Model!AskPlda, Model!AskProfile
<1>2. ASSUME NEW op \in {"model", "plda", "profile"}, NEW ids, rCall' = Model!Ask(op, ids)
      PROVE  rCall'.op = op
  BY <1>2 DEF Model!Ask, Model!Idle
<1>3. ASSUME NEW id \in Model!EveryId \cup {"unheard-of"}, Model!AskModel(id)
      PROVE  Model!RegistryIInv' /\ Model!NothingIsFetchedInVain'
  <2>1. rCall' = Model!Ask("model", <<id>>)
    BY <1>3 DEF Model!AskModel
  <2>2. <<id>> \in Model!Asked'
    BY <1>2, <2>1 DEF Model!Asked, Model!EveryId
  <2>3. <<id>> \in Seq(Model!Names)
    BY DEF Model!Names
  <2> QED
    BY <1>1, <2>1, <2>2, <2>3, RequestBegins
<1>4. CASE Model!AskPlda
  <2>1. rCall' = Model!Ask("plda", PldaIds)
    BY <1>4 DEF Model!AskPlda
  <2>2. PldaIds \in Model!Asked'
    BY <1>2, <2>1 DEF Model!Asked
  <2> QED
    BY <1>1, <2>1, <2>2, RequestBegins DEF Model!RegistryAssumption
<1>5. ASSUME NEW p \in {"custom", "mobile", "balanced"}, Model!AskProfile(p)
      PROVE  Model!RegistryIInv' /\ Model!NothingIsFetchedInVain'
  <2> DEFINE pair == Model!Pair(p)
  <2>1. CASE p = "custom"
    <3>1. rCall' = Model!Refuse("profile", "CustomProfileUnresolvable")
      BY <1>5, <2>1 DEF Model!AskProfile
    <3> QED
      BY <1>1, <3>1, RequestRefused DEF Model!Complaints
  <2>2. CASE p # "custom" /\ p \notin DOMAIN rManifest.profiles
    <3>1. rCall' = Model!Refuse("profile", "ProfileNotFound")
      BY <1>5, <2>2 DEF Model!AskProfile
    <3> QED
      BY <1>1, <3>1, RequestRefused DEF Model!Complaints
  <2>3. CASE p # "custom" /\ p \in DOMAIN rManifest.profiles /\ (Model!Unsigned(pair[1]) \/ Model!Unsigned(pair[2]))
    <3>1. rCall' = Model!Refuse("profile", "UnsignedModel")
      BY <1>5, <2>3 DEF Model!AskProfile, Model!Pair
    <3> QED
      BY <1>1, <3>1, RequestRefused DEF Model!Complaints
  <2>4. CASE p # "custom" /\ p \in DOMAIN rManifest.profiles /\ ~Model!Unsigned(pair[1]) /\ ~Model!Unsigned(pair[2])
    <3>1. rCall' = Model!Ask("profile", pair)
      BY <1>5, <2>4 DEF Model!AskProfile, Model!Pair
    <3>2. rCall'.op = "profile"
      BY <1>2, <3>1
    <3>3. Model!Asked' = {Model!Pair(q) : q \in {r \in DOMAIN rManifest.profiles :
                            ~Model!Unsigned(Model!Pair(r)[1]) /\ ~Model!Unsigned(Model!Pair(r)[2])}}
      BY <1>1, <3>2 DEF Model!Asked, Model!Pair, Model!Unsigned
    <3>4. pair \in Model!Asked'
      BY <2>4, <3>3
    <3>5. pair \in Seq(Model!Names)
      BY <2>4, ProfilesLead DEF Model!RegistryIInv
    <3> QED
      BY <1>1, <3>1, <3>4, <3>5, RequestBegins
  <2> QED
    BY <2>1, <2>2, <2>3, <2>4
<1> QED
  BY <1>3, <1>4, <1>5

(* Without the network: the file is judged as it lies there.                *)
LEMMA LocalIsJudged ==
  ASSUME Model!RegistryTypeOK, NEW id \in DOMAIN rManifest.models
  PROVE  /\ Model!EnsureLocal(id) \in {"ok"} \cup Model!Complaints
         /\ Model!EnsureLocal(id) = "ok" =>
              /\ rFiles[id] \in Model!FilesAround /\ rFiles[id].hash = "good"
              /\ rManifest.models[id].signature \in {"none", "valid"}
              /\ rStrict => rManifest.models[id].signature = "valid"
<1> DEFINE entry == rManifest.models[id]
           actual == Model!Sha256File(rFiles[id], Model!MaxDownloadBytes(entry.size))
<1>1. rFiles[id] \in Model!FilesAround
  BY DEF Model!RegistryTypeOK, Model!EveryId
<1>2. rFiles[id] # Model!Absent => rFiles[id].hash \in {"good", "other"}
  BY <1>1 DEF Model!FilesAround, Model!Good
<1>3. rFiles[id] # Model!Absent => actual \in {"exceeds the cap", rFiles[id].hash}
  BY DEF Model!Sha256File
<1>4. Model!EnsureLocal(id) =
        CASE rFiles[id] = Model!Absent -> "OfflineMissing"
          [] rFiles[id] # Model!Absent /\ actual = "exceeds the cap" -> "Io"
          [] rFiles[id] # Model!Absent /\ actual = "other" -> "ChecksumMismatch"
          [] rFiles[id] # Model!Absent /\ actual = "good" ->
               IF entry.signature # "none"
               THEN IF Model!VerifyMinisign(rFiles[id], entry.signature) THEN "ok" ELSE "SignatureRejected"
               ELSE IF rStrict THEN "UnsignedModel" ELSE "ok"
  BY DEF Model!EnsureLocal
<1> HIDE DEF actual
<1>5. CASE rFiles[id] = Model!Absent
  BY <1>4, <1>5 DEF Model!Complaints
<1>6. CASE rFiles[id] # Model!Absent /\ actual = "exceeds the cap"
  BY <1>4, <1>6 DEF Model!Complaints
<1>7. CASE rFiles[id] # Model!Absent /\ actual = "other"
  BY <1>4, <1>7 DEF Model!Complaints
<1>8. CASE rFiles[id] # Model!Absent /\ actual = "good"
  <2>1. rFiles[id].hash = "good"
    BY <1>2, <1>3, <1>8
  <2> QED
    BY <1>1, <1>4, <1>8, <2>1 DEF Model!Complaints, Model!VerifyMinisign
<1> QED
  BY <1>2, <1>3, <1>5, <1>6, <1>7, <1>8

LEMMA RegistryEnsures ==
  ASSUME Model!RegistryAssumption, Model!RegistryIInv, Model!NothingIsFetchedInVain,
         Model!EnsureUnknown \/ Model!EnsureOffline \/ Model!EnsureDownload
  PROVE  Model!RegistryIInv' /\ Model!NothingIsFetchedInVain'
<1> DEFINE id == Head(rCall.todo)
           entry == rManifest.models[id]
           accepted == entry.signature = "none" \/ Model!VerifyMinisign(Model!Good, entry.signature)
<1>1. rCall.result = "busy" /\ UNCHANGED <<rManifest, rStrict, rOnline>>
  BY DEF Model!EnsureUnknown, Model!EnsureOffline, Model!EnsureDownload
<1>2. Model!RegistryTypeOK /\ rFiles \in [Model!EveryId -> Model!FilesAround]
  BY DEF Model!RegistryIInv, Model!RegistryTypeOK
<1>3. DOMAIN rManifest.models \subseteq Model!EveryId
  BY <1>2 DEF Model!RegistryTypeOK, Model!EveryId
<1>4. Model!Good \in Model!FilesAround /\ Model!Good.hash = "good"
  BY DEF Model!Good, Model!FilesAround
<1>5. CASE Model!EnsureUnknown
  <2>1. Model!Answer(id, "ModelNotFound", Model!Absent, {}) /\ rFiles' = rFiles
    BY <1>5 DEF Model!EnsureUnknown
  <2>2. "ModelNotFound" \in {"ok"} \cup Model!Complaints
    BY DEF Model!Complaints
  <2> HIDE DEF id
  <2> QED
    BY <1>1, <1>2, <2>1, <2>2, RequestGoesOn DEF id
<1>6. CASE Model!EnsureOffline
  <2>1. /\ Model!Answer(id, Model!EnsureLocal(id), rFiles[id], {}) /\ rFiles' = rFiles
        /\ id \in DOMAIN rManifest.models /\ ~rOnline
    BY <1>6 DEF Model!EnsureOffline
  <2>2. /\ Model!EnsureLocal(id) \in {"ok"} \cup Model!Complaints
        /\ Model!EnsureLocal(id) = "ok" =>
             /\ rFiles[id] \in Model!FilesAround /\ rFiles[id].hash = "good"
             /\ rManifest.models[id].signature \in {"none", "valid"}
             /\ rStrict => rManifest.models[id].signature = "valid"
    BY <1>2, <2>1, LocalIsJudged
  <2> DEFINE why == Model!EnsureLocal(id)
             file == rFiles[id]
  <2>3. /\ why \in {"ok"} \cup Model!Complaints /\ Model!Answer(id, why, file, {})
        /\ rFiles' \in [Model!EveryId -> Model!FilesAround]
        /\ why = "ok" => /\ file \in Model!FilesAround /\ file.hash = "good"
                         /\ rManifest.models[id].signature \in {"none", "valid"}
                         /\ rStrict /\ ~rOnline => rManifest.models[id].signature = "valid"
    BY <1>2, <2>1, <2>2
  <2>4. rCall.result = "busy" /\ id = Head(rCall.todo) /\ ~rOnline
    BY <1>1, <2>1
  <2> HIDE DEF why, file, id
  <2> QED
    BY <1>1, <2>3, <2>4, RequestGoesOn
<1>7. CASE Model!EnsureDownload
  <2>1. id \in DOMAIN rManifest.models /\ rOnline
    BY <1>7 DEF Model!EnsureDownload
  <2>2. accepted => entry.signature \in {"none", "valid"}
    BY DEF Model!VerifyMinisign
  <2>3. rFiles[id] \in Model!FilesAround
    BY <1>2, <1>3, <2>1
  <2>4. {"ok", "Download"} \subseteq {"ok"} \cup Model!Complaints /\ "Download" # "UnsignedModel"
    BY DEF Model!Complaints
  <2>5. CASE /\ rFiles[id].hash = "good" /\ rFiles' = rFiles
             /\ Model!Answer(id, IF accepted THEN "ok" ELSE "Download", rFiles[id], {})
    <3> DEFINE why == IF accepted THEN "ok" ELSE "Download"
               file == rFiles[id]
    <3>1. why \in {"ok", "Download"} /\ (why = "ok" => accepted)
      OBVIOUS
    <3>2. /\ why \in {"ok"} \cup Model!Complaints /\ Model!Answer(id, why, file, {})
          /\ rFiles' \in [Model!EveryId -> Model!FilesAround]
          /\ why = "ok" => /\ file \in Model!FilesAround /\ file.hash = "good"
                           /\ rManifest.models[id].signature \in {"none", "valid"}
      BY <1>2, <2>2, <2>3, <2>4, <2>5, <3>1
    <3>3. rCall.result = "busy" /\ id = Head(rCall.todo) /\ rOnline /\ why # "UnsignedModel"
      BY <1>1, <2>1, <3>1
    <3> HIDE DEF accepted, why, file, id
    <3> QED
      BY <1>1, <3>2, <3>3, RequestGoesOn
  <2>6. CASE /\ accepted /\ rFiles' = [rFiles EXCEPT ![id] = Model!Good]
             /\ Model!Answer(id, "ok", Model!Good, {id})
    <3>1. rFiles' \in [Model!EveryId -> Model!FilesAround]
      BY <1>2, <1>4, <2>6
    <3> QED
      BY <1>1, <1>2, <1>4, <2>1, <2>2, <2>4, <2>6, <3>1, RequestGoesOn
  <2>7. CASE rFiles' = rFiles /\ Model!Answer(id, "Download", rFiles[id], {id})
    BY <1>1, <1>2, <2>1, <2>4, <2>7, RequestGoesOn
  <2> QED
    BY <1>7, <2>5, <2>6, <2>7 DEF Model!EnsureDownload
<1> QED
  BY <1>5, <1>6, <1>7

LEMMA RegistryReplaces ==
  ASSUME Model!RegistryIInv, Model!NothingIsFetchedInVain,
         NEW id \in Model!EveryId, NEW file \in Model!FilesAround, Model!Replace(id, file)
  PROVE  Model!RegistryIInv' /\ Model!NothingIsFetchedInVain'
<1>1. UNCHANGED <<rManifest, rStrict, rOnline, rCall>> /\ rFiles' = [rFiles EXCEPT ![id] = file]
  BY DEF Model!Replace
<1>2. Model!RegistryTypeOK'
  BY <1>1 DEF Model!RegistryIInv, Model!RegistryTypeOK
<1>3. Model!SeenWasVerified' /\ Model!Asked' = Model!Asked
  BY <1>1 DEF Model!RegistryIInv, Model!SeenWasVerified, Model!Asked, Model!Pair, Model!Unsigned
<1>4. \A asked : Model!SeenOrToDo(asked) => Model!SeenOrToDo(asked)'
  BY <1>1 DEF Model!SeenOrToDo
<1> QED
  BY <1>1, <1>2, <1>3, <1>4 DEF Model!RegistryIInv, Model!NothingIsFetchedInVain

LEMMA RegistryStep ==
  /\ Model!RegistryIInv /\ Model!NothingIsFetchedInVain
  /\ [Model!Next]_registryVars
  => Model!RegistryIInv' /\ Model!NothingIsFetchedInVain'
<1> SUFFICES ASSUME Model!RegistryIInv, Model!NothingIsFetchedInVain, [Model!Next]_registryVars
             PROVE  Model!RegistryIInv' /\ Model!NothingIsFetchedInVain'
  OBVIOUS
<1>1. CASE UNCHANGED registryVars
  <2>1. UNCHANGED <<rManifest, rStrict, rOnline, rFiles, rCall>>
    BY <1>1 DEF registryVars
  <2>2. Model!RegistryTypeOK' /\ Model!SeenWasVerified' /\ Model!Asked' = Model!Asked
    BY <2>1 DEF Model!RegistryIInv, Model!RegistryTypeOK, Model!SeenWasVerified, Model!Asked, Model!Pair, Model!Unsigned
  <2>3. \A asked : Model!SeenOrToDo(asked) => Model!SeenOrToDo(asked)'
    BY <2>1 DEF Model!SeenOrToDo
  <2> QED
    BY <2>1, <2>2, <2>3 DEF Model!RegistryIInv, Model!NothingIsFetchedInVain
<1>2. CASE Model!Next
  BY <1>2, ModelAssumption, RegistryAsks, RegistryEnsures, RegistryReplaces DEF Model!Next
<1> QED
  BY <1>1, <1>2

(* What a request that succeeded has seen is all that it asked for.         *)
LEMMA OkIsVerified ==
  ASSUME Model!RegistryAssumption, Model!RegistryIInv
  PROVE  Model!OkFilesWereVerified
<1> SUFFICES ASSUME rCall.result = "ok"
             PROVE  /\ rCall.op = "plda" => [i \in DOMAIN rCall.seen |-> rCall.seen[i].id] = PldaIds
                    /\ rCall.op = "profile" => \E p \in DOMAIN rManifest.profiles :
                         {rCall.seen[i].id : i \in DOMAIN rCall.seen} =
                           {rManifest.profiles[p].segmenter, rManifest.profiles[p].embedder}
                    /\ \A i \in DOMAIN rCall.seen :
                         LET entry == rManifest.models[rCall.seen[i].id]
                         IN /\ rCall.seen[i].file.hash = "good"
                            /\ entry.signature \in {"none", "valid"}
                            /\ rStrict /\ (rCall.op = "profile" \/ ~rOnline) => entry.signature = "valid"
  BY DEF Model!OkFilesWereVerified
<1> DEFINE seen == rCall.seen
<1>1. PICK asked \in Model!Asked : Model!SeenOrToDo(asked)
  BY DEF Model!RegistryIInv
<1>2. rCall.todo = <<>> /\ seen \in Seq([id : Model!Names, file : Model!FilesAround])
  BY DEF Model!RegistryIInv, Model!RegistryTypeOK
<1>3. asked \in Seq(Model!Names)
  BY <1>1, AskedAreNames DEF Model!RegistryIInv
<1>4. Len(asked) = Len(seen) /\ \A i \in 1 .. Len(seen) : asked[i] = seen[i].id
  BY <1>1, <1>2 DEF Model!SeenOrToDo
<1>5. DOMAIN seen = 1 .. Len(seen) /\ DOMAIN asked = 1 .. Len(asked) /\ Len(seen) \in Nat
  BY <1>2, <1>3
<1>6. Model!SeenWasVerified
  BY DEF Model!RegistryIInv
<1>7. CASE rCall.op = "profile"
  <2>1. PICK p \in DOMAIN rManifest.profiles :
          asked = Model!Pair(p) /\ ~Model!Unsigned(Model!Pair(p)[1]) /\ ~Model!Unsigned(Model!Pair(p)[2])
    BY <1>1, <1>7 DEF Model!Asked
  <2>2. /\ asked = <<rManifest.profiles[p].segmenter, rManifest.profiles[p].embedder>>
        /\ Len(asked) = 2 /\ DOMAIN seen = {1, 2}
        /\ seen[1].id = rManifest.profiles[p].segmenter /\ seen[2].id = rManifest.profiles[p].embedder
    BY <1>4, <1>5, <2>1 DEF Model!Pair
  <2>3. \A i \in DOMAIN seen : rStrict => rManifest.models[seen[i].id].signature # "none"
    BY <2>1, <2>2 DEF Model!Unsigned
  <2>4. {seen[i].id : i \in DOMAIN seen} = {rManifest.profiles[p].segmenter, rManifest.profiles[p].embedder}
    BY <2>2
  <2> QED
    BY <1>6, <1>7, <2>3, <2>4 DEF Model!SeenWasVerified
<1>8. CASE rCall.op = "plda"
  <2>1. asked = PldaIds
    BY <1>1, <1>8 DEF Model!Asked
  <2>2. [i \in DOMAIN seen |-> seen[i].id] = asked
    BY <1>3, <1>4, <1>5
  <2> QED
    BY <1>6, <1>8, <2>1, <2>2 DEF Model!SeenWasVerified
<1>9. CASE rCall.op \notin {"profile", "plda"}
  BY <1>6, <1>9 DEF Model!SeenWasVerified
<1> QED
  BY <1>7, <1>8, <1>9

LEMMA RegistrySteps ==
  ASSUME part = "registry", [MCNext]_allVars PROVE [Model!Next]_registryVars
<1>1. CASE UNCHANGED allVars
  BY <1>1 DEF allVars, modelVars, registryVars
<1>2. CASE MCNext
  BY <1>2 DEF MCNext, InEmbed, InWindows, InSessions, InFiles, InPool, InFetch, InRegistry, InAdapters
<1> QED
  BY <1>1, <1>2

LEMMA AdapterSteps ==
  ASSUME part = "adapters", [MCNext]_allVars PROVE [Model!AdaptersNext]_adapterVars
<1>1. CASE UNCHANGED allVars
  BY <1>1 DEF allVars, modelVars, adapterVars
<1>2. CASE MCNext
  BY <1>2 DEF MCNext, InEmbed, InWindows, InSessions, InFiles, InPool, InFetch, InRegistry, InAdapters
<1> QED
  BY <1>1, <1>2

(* A model that is handed out is the manifest's, signed where that is asked *)
(* for, and a name of an adapter that resolves can be created.              *)
THEOREM ModelsAreSoundHolds == MCSpec => []ModelsAreSound
<1>1. MCInit => ModelsAreSound
  BY ModelAssumption, RegistryStart, OkIsVerified, AdaptersStart, AdaptersLead DEF MCInit, ModelsAreSound
<1>2. Model!RegistryIInv => Model!OkFilesWereVerified
  BY ModelAssumption, OkIsVerified
<1>3. Model!RegistryIInv' => Model!OkFilesWereVerified'
  BY <1>2, PTL
<1>4. Model!AdaptersIInv' => Model!ResolvedCanBeCreated'
  BY AdaptersLead, PTL
<1>5. ModelsAreSound /\ [MCNext]_allVars => ModelsAreSound'
  <2> SUFFICES ASSUME ModelsAreSound, [MCNext]_allVars PROVE ModelsAreSound'
    OBVIOUS
  <2>1. part' = part
    BY PartIsFixed
  <2>2. CASE part = "registry"
    BY <1>3, <2>1, <2>2, RegistrySteps, RegistryStep DEF ModelsAreSound
  <2>3. CASE part = "adapters"
    BY <1>4, <2>1, <2>3, AdapterSteps, AdaptersStep DEF ModelsAreSound
  <2>4. CASE part \notin {"registry", "adapters"}
    BY <2>1, <2>4 DEF ModelsAreSound
  <2> QED
    BY <2>2, <2>3, <2>4
<1> QED
  BY <1>1, <1>5, PTL DEF MCSpec
=============================================================================
