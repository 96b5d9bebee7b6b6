------------------------------- MODULE Partition -------------------------------
(***************************************************************************)
(* Clustering by K-means++ and by the spectrum of a neighbour graph        *)
(* (kmeans/mod.rs, spectral/mod.rs and their clusterers in                 *)
(* clusterer/mod.rs), and the assignment to centroids of clusterer/vbx.rs  *)
(* and clusterer/short_filter.rs.                                          *)
(*                                                                         *)
(* An embedding is an integer vector of length Unit, so that the cosine of *)
(* two of them is a number of Unit^2-ths; a centroid stands for its        *)
(* direction, which the sum of its members has.  The random draws are any  *)
(* draws above 0.  Arithmetic is exact: the distance of equals is 0.       *)
(***************************************************************************)
EXTENDS Integers, Sequences, FiniteSets, FiniteSetsExt, SequencesExt

CONSTANTS
  Unit,            \* the length of an embedding
  AHC_FALLBACK_N,  \* fewer embeddings are left to ahc
  MAX_EIGENGAP_CANDIDATES

SumOf(S, f) == MapThenSumSet(LAMBDA x : f[x], S)
Dot(a, b) == SumOf(DOMAIN a, [d \in DOMAIN a |-> a[d] * b[d]])

(* The matrix of distances of kmeans_auto_k. *)
Distance(a, b) == Max({Unit * Unit - Dot(a, b), 0})

\* The cosine with a centroid, squared under its sign; 0 with no direction.
CosineSq(e, c) ==
  LET d == Dot(e, c)
  IN IF Dot(c, c) = 0 THEN <<0, 1>> ELSE <<d * (IF d < 0 THEN -d ELSE d), Dot(c, c)>>
Nearer(p, q) == p[1] * q[2] > q[1] * p[2]

(* The scan for the nearest centroid: the first of equals. *)
Nearest(e, centroids) ==
  CHOOSE c \in DOMAIN centroids :
    \A o \in (DOMAIN centroids) \ {c} :
      IF o < c THEN Nearer(CosineSq(e, centroids[c]), CosineSq(e, centroids[o]))
               ELSE ~Nearer(CosineSq(e, centroids[o]), CosineSq(e, centroids[c]))

-----------------------------------------------------------------------------
(* K-means *)

SeedingsByLast(emb, k) ==   \* mutant: distances to the last seed only
  LET Far(s) == {i \in DOMAIN emb : Distance(emb[i], emb[Last(s)]) > 0}
      Drawn[m \in 1 .. k] ==
        IF m = 1 THEN {<<i>> : i \in DOMAIN emb}
        ELSE UNION {IF Far(s) = {} THEN {s} ELSE {Append(s, i) : i \in Far(s)} : s \in Drawn[m - 1]}
  IN Drawn[k]

(* Each next seed is drawn among those at a distance from the others; with  *)
(* none left seeding stops.                                                 *)
Seedings(emb, k) ==
  LET Far(s) == {i \in DOMAIN emb : \A m \in DOMAIN s : Distance(emb[i], emb[s[m]]) > 0}
      Drawn[m \in 1 .. k] ==
        IF m = 1 THEN {<<i>> : i \in DOMAIN emb}
        ELSE UNION {IF Far(s) = {} THEN {s} ELSE {Append(s, i) : i \in Far(s)} : s \in Drawn[m - 1]}
  IN Drawn[k]

(* The update: k centroids, a cluster with no members has none. *)
Centroids(emb, labels, k) ==
  [c \in 1 .. k |-> [d \in DOMAIN emb[1] |->
     SumOf({i \in DOMAIN emb : labels[i] = c - 1}, [i \in DOMAIN emb |-> emb[i][d]])]]

LloydBySeeds(emb, seeds, k, iters) ==   \* mutant: no update
  LET Assign(centroids) == [i \in DOMAIN emb |-> Nearest(emb[i], centroids) - 1]
      Round[r \in 0 .. iters] ==
        IF r = 0 THEN [labels |-> [i \in DOMAIN emb |-> 0],
                       centroids |-> [m \in DOMAIN seeds |-> emb[seeds[m]]], done |-> FALSE]
        ELSE LET last == Round[r - 1]
                 labels == Assign(last.centroids)
             IN IF last.done THEN last
                ELSE IF labels = last.labels THEN [last EXCEPT !.done = TRUE]
                ELSE [labels |-> labels, centroids |-> last.centroids, done |-> FALSE]
  IN Round[iters].labels

(* Lloyd's algorithm: assign, and update unless nothing changed. *)
Lloyd(emb, seeds, k, iters) ==
  LET Assign(centroids) == [i \in DOMAIN emb |-> Nearest(emb[i], centroids) - 1]
      Round[r \in 0 .. iters] ==
        IF r = 0 THEN [labels |-> [i \in DOMAIN emb |-> 0],
                       centroids |-> [m \in DOMAIN seeds |-> emb[seeds[m]]], done |-> FALSE]
        ELSE LET last == Round[r - 1]
                 labels == Assign(last.centroids)
             IN IF last.done THEN last
                ELSE IF labels = last.labels THEN [last EXCEPT !.done = TRUE]
                ELSE [labels |-> labels, centroids |-> Centroids(emb, labels, k), done |-> FALSE]
  IN Round[iters].labels

(* kmeans_pp_with_seed *)
KmeansPp(emb, k, iters) ==
  LET clusters == Min({k, Len(emb)})
  IN IF Len(emb) = 0 \/ k = 0 THEN {[i \in DOMAIN emb |-> 0]}
     ELSE {Lloyd(emb, seeds, clusters, iters) : seeds \in Seedings(emb, clusters)}

\* Scores are in this many parts.
Scale == 10000

(* silhouette_score_with_dists: how much nearer each is to its own cluster   *)
(* than to the next, those alone in theirs left out.                         *)
Silhouette(emb, labels) ==
  LET Others(i, c) == {j \in (DOMAIN emb) \ {i} : labels[j] = c}
      Total(i, c) == SumOf(Others(i, c), [j \in DOMAIN emb |-> Distance(emb[i], emb[j])])
      Score(i) ==
        LET own == labels[i]
            Less(c, o) == Total(i, c) * Cardinality(Others(i, o)) <= Total(i, o) * Cardinality(Others(i, c))
            other == CHOOSE c \in Range(labels) \ {own} : \A o \in Range(labels) \ {own} : Less(c, o)
            a == Total(i, own) * Cardinality(Others(i, other))
            b == Total(i, other) * Cardinality(Others(i, own))
        IN (Scale * (b - a)) \div Max({a, b})
      scored == {i \in DOMAIN emb : Others(i, labels[i]) # {} /\ Range(labels) # {labels[i]}}
  IN IF Len(emb) <= 2 \/ Max(Range(labels)) = 0 \/ scored = {} THEN 0
     ELSE SumOf(scored, [i \in DOMAIN emb |-> Score(i)]) \div Cardinality(scored)

\* Less than 15 hundredths from each other on average.
Homogeneous(emb) ==
  LET pairs == {p \in (DOMAIN emb) \X (DOMAIN emb) : p[1] < p[2]}
  IN 100 * SumOf(pairs, [p \in pairs |-> Distance(emb[p[1]], emb[p[2]])]) < 15 * Unit * Unit * Cardinality(pairs)

(* kmeans_auto_k: the least k of the best score; each k is tried more than    *)
(* once, so that any of its outcomes may be the one that counts.              *)
KmeansAutoK(emb, kMin, kMax, iters) ==
  LET n == Len(emb)
      from == Min({Max({kMin, 2}), n})
      to == Min({Max({kMax, from}), n})
      tried == [k \in from .. to |-> {[labels |-> l, score |-> Silhouette(emb, l)] : l \in KmeansPp(emb, k, iters)}]
  IN IF n <= 1 \/ Homogeneous(emb) THEN {[i \in DOMAIN emb |-> 0]}
     ELSE UNION {{best.labels : best \in
                    {x \in tried[k] : /\ \A o \in from .. k - 1 : \E y \in tried[o] : y.score < x.score
                                      /\ \A o \in k + 1 .. to : \E y \in tried[o] : y.score <= x.score}} :
                   k \in from .. to}

Ahc == <<>>   \* no labels of its own: what clusterer "ahc" returns

(* KmeansClusterer::cluster *)
KmeansCluster(emb, maxClusters, fast) ==
  LET n == Len(emb)
      max == Max({maxClusters, 2})
      fastMax == Min({Max({5, Min({12, n \div 20})}), max})
  IN CASE n = 1 -> {<<0>>}
       [] n < AHC_FALLBACK_N -> {Ahc}
       [] fast -> KmeansAutoK(emb, 2, fastMax, 20)
       [] OTHER -> KmeansAutoK(emb, 2, Min({max, n}), 50)

-----------------------------------------------------------------------------
(* Spectral clustering *)

Rank(emb, i, j) ==
  Cardinality({o \in (DOMAIN emb) \ {i} :
                 Dot(emb[i], emb[o]) > Dot(emb[i], emb[j]) \/ (Dot(emb[i], emb[o]) = Dot(emb[i], emb[j]) /\ o < j)})

\* Those among the nearest of i, if they are near at all.
Chosen(emb) ==
  {p \in (DOMAIN emb) \X (DOMAIN emb) :
     /\ p[1] # p[2] /\ Dot(emb[p[1]], emb[p[2]]) > 0
     /\ Rank(emb, p[1], p[2]) < Max({2, Min({10, Len(emb) \div 10})})}

NeighborsOneWay(emb) == Chosen(emb)   \* mutant: one that is chosen need not be a neighbour

(* The affinities of from_embeddings: one that is chosen is a neighbour too. *)
Neighbors(emb) == Chosen(emb) \cup {<<p[2], p[1]>> : p \in Chosen(emb)}

\* The first of the embeddings that i is connected with.
Connected(edges, n) ==
  LET Least[r \in 0 .. n] ==
        IF r = 0 THEN [i \in 1 .. n |-> i]
        ELSE [i \in 1 .. n |-> Min({Least[r - 1][j] : j \in {i} \cup {j \in 1 .. n : <<i, j>> \in edges}})]
  IN Least[n]

\* The Laplacian has an eigenvalue 0 for every component, and positive ones.
Spectra(components, n) ==
  {eig \in [1 .. n -> 0 .. 2] : /\ \A k \in 1 .. n : eig[k] = 0 <=> k <= components
                                /\ \A k \in 2 .. n : eig[k - 1] <= eig[k]}

(* select_k_by_normalized_eigengap *)
SelectK(eig, maxK) ==
  LET candidates == 1 .. Min({maxK, Len(eig), MAX_EIGENGAP_CANDIDATES}) - 1
      Gap(k) == IF eig[k + 1] = 0 THEN <<0, 1>> ELSE <<eig[k + 1] - eig[k], eig[k + 1]>>
      Wider(p, q) == p[1] * q[2] > q[1] * p[2]
      open == {k \in candidates : Gap(k)[1] > 0}
  IN IF open = {} THEN 1
     ELSE CHOOSE k \in open : \A o \in open \ {k} : IF o < k THEN Wider(Gap(k), Gap(o)) ELSE ~Wider(Gap(o), Gap(k))

(* embedding_f64: rows of the eigenvectors of eigenvalue 0, one for each of   *)
(* the first k components.                                                    *)
SpectralRows(component, k) ==
  LET firsts == SetToSortSeq(Range(component), <)
  IN [i \in DOMAIN component |-> [d \in 1 .. k |-> IF component[i] = firsts[d] THEN Unit ELSE 0]]

(* NmeScClusterer::cluster *)
NmeScCluster(emb, maxClusters) ==
  LET n == Len(emb)
      component == Connected(Neighbors(emb), n)
      ks == {SelectK(eig, Max({1, maxClusters})) : eig \in Spectra(Cardinality(Range(component)), n)}
  IN CASE n = 1 -> {<<0>>}
       [] n < AHC_FALLBACK_N -> {Ahc}
       [] OTHER -> UNION {KmeansPp(SpectralRows(component, k), k, 50) : k \in ks}

-----------------------------------------------------------------------------
(* Assignment to centroids.  Some embeddings are kept: gamma[i][k] is how     *)
(* much of kept i is speaker k's, of 1 .. n, and prior has the speakers whose  *)
(* prior is above the threshold.                                             *)

InOrder(S) == SetToSortSeq(S, <)

Weighted(emb, gamma, speakers) ==
  LET heard == {k \in speakers : \E i \in DOMAIN gamma : gamma[i][k] > 0}
  IN [c \in 1 .. Cardinality(heard) |-> [d \in DOMAIN emb[1] |->
        SumOf(DOMAIN gamma, [i \in DOMAIN gamma |-> gamma[i][InOrder(heard)[c]] * emb[i][d]])]]

SoftCentroidsOfAll(emb, gamma, prior, n) == Weighted(emb, gamma, 1 .. n)  \* mutant: no prior

(* soft_centroids: one for each speaker the prior keeps, all if it keeps none, *)
(* but none for a speaker no kept embedding has a share of.                  *)
SoftCentroids(emb, gamma, prior, n) ==
  Weighted(emb, gamma, IF prior = {} THEN 1 .. n ELSE prior)

(* reassign_all_from_prior, with assign_nearest *)
ReassignAllFromPrior(emb, gamma, prior, n) ==
  LET centroids == SoftCentroids(emb, gamma, prior, n)
  IN [i \in DOMAIN emb |-> IF centroids = <<>> THEN 0 ELSE Nearest(emb[i], centroids) - 1]

(* reassign_short_by_cosine: the kept have labels, from 0 and maybe with gaps; *)
(* each of the others gets the label whose mean is nearest.                  *)
ReassignShort(emb, labels) ==
  LET used == InOrder(Range(labels))
      means == [c \in DOMAIN used |-> [d \in DOMAIN emb[1] |->
                  SumOf({i \in DOMAIN labels : labels[i] = used[c]}, [i \in DOMAIN emb |-> emb[i][d]])]]
  IN [i \in DOMAIN emb |->
        IF DOMAIN labels = {} THEN 0
        ELSE IF i \in DOMAIN labels THEN labels[i] ELSE used[Nearest(emb[i], means)]]

-----------------------------------------------------------------------------
SamePartition(labels, key) == \A i, j \in DOMAIN labels : labels[i] = labels[j] <=> key[i] = key[j]

\* When Lloyd's algorithm has come to rest nobody is nearer to another
\* cluster's mean than to that of their own, whatever the seeds.
NobodyIsMisplaced(emb, k) ==
  \A labels \in KmeansPp(emb, k, 50) :
    LET means == Centroids(emb, labels, Min({k, Len(emb)}))
    IN \A i \in DOMAIN emb, c \in DOMAIN means :
         ~Nearer(CosineSq(emb[i], means[c]), CosineSq(emb[i], means[labels[i] + 1]))

\* The search over k finds the speakers of embeddings that repeat: as many
\* clusters as there are directions, whatever is drawn, if they may be that
\* many and are not all alike; and never more than it may.
GroupsAreFound(emb, maxClusters, fast) ==
  \A labels \in KmeansCluster(emb, maxClusters, fast) \ {Ahc} :
    /\ Range(labels) \subseteq 0 .. maxClusters - 1
    /\ \A i, j \in DOMAIN emb : emb[i] = emb[j] => labels[i] = labels[j]
    /\ ~Homogeneous(emb) /\ Cardinality(Range(emb)) \in 2 .. Min({maxClusters, Len(emb) - 1})
         => SamePartition(labels, emb)

\* Spectral clustering keeps those together that a chain joins in which of every
\* two one is among the other's nearest, and no others; with more such groups
\* than it may tell apart it tells none.
ComponentsAreFound(emb, maxClusters) ==
  LET component == Connected({p \in (DOMAIN emb) \X (DOMAIN emb) : {p, <<p[2], p[1]>>} \cap Chosen(emb) # {}}, Len(emb))
      groups == Cardinality(Range(component))
  IN \A labels \in NmeScCluster(emb, maxClusters) \ {Ahc} :
       IF groups < Min({maxClusters, Len(emb), MAX_EIGENGAP_CANDIDATES})
       THEN SamePartition(labels, component) /\ Range(labels) = 0 .. groups - 1
       ELSE Range(labels) = {0}

\* A kept embedding is share parts its speaker's and one part everybody's.  If
\* the kept sound alike just when they are of one speaker, then as long as
\* the prior keeps those speakers the soft centroids, pulled towards each other
\* as they are, give every one of them back; a short embedding that sounds like
\* a speaker becomes one of theirs; and nobody gets a label nobody keeps.
SpeakersAreGivenBack(emb, speaker, prior, n, share) ==
  LET kept == DOMAIN speaker
      gamma == [i \in kept |-> [k \in 1 .. n |-> IF speaker[i] = k THEN share ELSE 1]]
      clear == \A i, j \in kept : emb[i] = emb[j] <=> speaker[i] = speaker[j]
      Soft(labels) ==
        /\ Range(labels) \subseteq 0 .. (IF prior = {} THEN n ELSE Cardinality(prior)) - 1
        /\ \A i, j \in DOMAIN emb : emb[i] = emb[j] => labels[i] = labels[j]
        /\ clear /\ Range(speaker) \subseteq prior => SamePartition([i \in kept |-> labels[i]], speaker)
      Short(labels) ==
        /\ Range(labels) \subseteq Range(speaker)
        /\ clear => \A i \in DOMAIN emb, j \in kept : emb[i] = emb[j] => labels[i] = speaker[j]
  IN Soft(ReassignAllFromPrior(emb, gamma, prior, n)) /\ Short(ReassignShort(emb, speaker))
=============================================================================
