--------------------------------- MODULE Ahc ---------------------------------
(***************************************************************************)
(* src/ahc/mod.rs: bottom-up clustering.  Scores come from outside: those  *)
(* of the embeddings are any, and so are those of a centroid that a merge  *)
(* has moved (plain cosine, AS-norm, or the negated distance of the        *)
(* centroid linkage, which is then cut at a negated threshold).            *)
(***************************************************************************)
EXTENDS Clusters

CONSTANTS Durations,  \* of the embeddings
          Scores, Modes, ClampLow, ClampHigh, HalfThreshold

\* mode is what was asked for: [linkage, auto, threshold, ceiling, members,
\* secs].  root[i] is the root of i's cluster; a root has a size, a duration
\* and a dominant member; score is the matrix; ids the labels handed out.
VARIABLES mode, threshold, root, active, size, dur, dominant, score, ids

vars == <<mode, threshold, root, active, size, dur, dominant, score, ids>>

N == Len(Durations)
Pairs == {p \in SUBSET (1 .. N) : Cardinality(p) = 2}
NegInf == -1000
NoIds == <<"none">>

\* estimate_threshold_from_matrix: the score after the widest gap of the lower
\* half, kept within bounds.
EstimateThreshold(matrix) ==
  LET all == SortSeq(FoldSet(LAMBDA p, acc : Append(acc, matrix[p]), <<>>, DOMAIN matrix), <)
      Gap(i) == all[i + 1] - all[i]
      gaps == {i \in 1 .. (Len(all) \div 2 - 1) : Gap(i) > 0}
      best == IF gaps = {} THEN 1
              ELSE CHOOSE i \in gaps : \A j \in gaps : Gap(j) < Gap(i) \/ (Gap(j) = Gap(i) /\ i <= j)
  IN IF Len(all) <= 1 THEN HalfThreshold
     ELSE Max({ClampLow, Min({ClampHigh, all[best + 1]})})

Init ==
  /\ mode \in Modes
  /\ score \in [Pairs -> Scores]
  /\ threshold = IF mode.auto THEN EstimateThreshold(score) ELSE mode.threshold
  /\ root = [i \in 1 .. N |-> i] /\ active = 1 .. N
  /\ size = [i \in 1 .. N |-> 1] /\ dominant = [i \in 1 .. N |-> i]
  /\ dur = Durations
  /\ ids = NoIds

\* Mutant: one of the two is enough.
BothEstablishedAny(p) ==
  \/ mode.members > 0 /\ \E i \in p : size[i] >= mode.members
  \/ mode.secs > 0 /\ \E i \in p : dur[i] >= mode.secs

\* Two clusters that both have enough are not made one (cAHC-ASC).
BothEstablished(p) ==
  \/ mode.members > 0 /\ \A i \in p : size[i] >= mode.members
  \/ mode.secs > 0 /\ \A i \in p : dur[i] >= mode.secs

Candidates == {p \in Pairs : p \subseteq active /\ (mode.linkage = "cosine" => ~BothEstablished(p))}
Earlier(p, q) == Min(p) < Min(q) \/ (Min(p) = Min(q) /\ Max(p) <= Max(q))
BestPair == CHOOSE p \in Candidates : \A q \in Candidates :
              score[q] < score[p] \/ (score[q] = score[p] /\ Earlier(p, q))

AboveCeiling == mode.ceiling > 0 /\ mode.ceiling < N /\ Cardinality(active) > mode.ceiling

GoesOn == Candidates # {} /\ (AboveCeiling \/ score[BestPair] >= threshold)

\* The pair becomes the cluster of its first; its scores with the others are
\* made again, those of the second are gone.
Refresh(i, j, fresh) ==
  [p \in Pairs |-> IF j \in p THEN NegInf
                   ELSE IF i \in p /\ p \subseteq active THEN fresh[CHOOSE k \in p : k # i] ELSE score[p]]

\* One round of ahc_impl_with_matrix.
MergeCosine ==
  LET i == Min(BestPair)
      j == Max(BestPair)
  IN /\ ids = NoIds /\ mode.linkage = "cosine" /\ GoesOn
     /\ \E fresh \in [active \ {i, j} -> Scores] : score' = Refresh(i, j, fresh)
     /\ root' = [k \in 1 .. N |-> IF root[k] = j THEN i ELSE root[k]]
     /\ active' = active \ {j}
     /\ dominant' = IF size[j] > size[i] THEN [dominant EXCEPT ![i] = dominant[j]] ELSE dominant
     /\ size' = [size EXCEPT ![i] = @ + size[j]]
     /\ dur' = [dur EXCEPT ![i] = @ + dur[j]]
     /\ UNCHANGED <<mode, threshold, ids>>

\* One round of agglomerative_cluster_centroid_euclidean, which keeps neither
\* durations nor dominant members.
MergeCentroid ==
  LET i == Min(BestPair)
      j == Max(BestPair)
  IN /\ ids = NoIds /\ mode.linkage = "centroid" /\ GoesOn
     /\ \E fresh \in [active \ {i, j} -> Scores] : score' = Refresh(i, j, fresh)
     /\ root' = [k \in 1 .. N |-> IF root[k] = j THEN i ELSE root[k]]
     /\ active' = active \ {j}
     /\ size' = [size EXCEPT ![i] = @ + size[j]]
     /\ UNCHANGED <<mode, threshold, dur, dominant, ids>>

\* The loop ends and the roots get their numbers.
Canonicalize ==
  /\ ids = NoIds /\ ~GoesOn
  /\ ids' = CompactIds(root)
  /\ UNCHANGED <<mode, threshold, root, active, size, dur, dominant, score>>

Next == MergeCosine \/ MergeCentroid \/ Canonicalize

-----------------------------------------------------------------------------
\* While it runs: the roots are the active ones, each with the size of its
\* cluster and a dominant member that is one of it, and only pairs of them
\* still have a score.
RootsDescribeTheirClusters ==
  /\ Range(root) = active
  /\ \A i \in active :
       /\ size[i] = Cardinality(Members(root, i)) /\ Min(Members(root, i)) = i
       /\ dominant[i] \in Members(root, i)
       /\ mode.linkage = "cosine" => dur[i] = MapThenSumSet(LAMBDA k : Durations[k], Members(root, i))
  /\ \A p \in Pairs : score[p] = NegInf <=> ~(p \subseteq active)

\* At the end the ids are compact, the larger cluster has the smaller id, no
\* two clusters that may still be merged are as near as the threshold, and a
\* ceiling holds unless every pair left is of two established clusters.
ClustersAreApart ==
  ids # NoIds =>
    LET left == {p \in Pairs : p \subseteq active}
        IdOf(i) == ids[i]
        open == {p \in left :
                   mode.linkage = "cosine" =>
                     /\ mode.members > 0 => \E i \in p : size[i] < mode.members
                     /\ mode.secs > 0 => \E i \in p : dur[i] < mode.secs}
    IN /\ Compact(ids)
       /\ \A i, j \in 1 .. N : ids[i] = ids[j] <=> root[i] = root[j]
       /\ \A i, j \in active : size[i] > size[j] => IdOf(i) < IdOf(j)
       /\ \A p \in open : score[p] < threshold
       /\ mode.ceiling > 0 => Cardinality(active) <= Max({mode.ceiling, 1}) \/ mode.ceiling >= N \/ open = {}
=============================================================================
