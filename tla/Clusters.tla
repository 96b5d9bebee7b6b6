------------------------------- MODULE Clusters -------------------------------
(***************************************************************************)
(* What is done to cluster labels besides finding them: the canonical      *)
(* numbers and the pruning of ahc/mod.rs, the short segments of            *)
(* clusterer/short_filter.rs and clusterer/vbx.rs, and the assignment of   *)
(* local speakers to clusters of clusterer/assign.rs.  And the assignment  *)
(* problem itself, hungarian.rs, that aligns windows, maps speakers for    *)
(* scoring and assigns local speakers to clusters.                         *)
(*                                                                         *)
(* Embeddings are 1..n, labels[i] the cluster of i, from 0.  An embedding  *)
(* is what it is like: sim[i][l] says how similar i is to the centroid of  *)
(* cluster l (every number is an integer; only the order matters).         *)
(***************************************************************************)
EXTENDS Integers, Sequences, FiniteSets, FiniteSetsExt, SequencesExt

Members(labels, l) == {i \in DOMAIN labels : labels[i] = l}

\* Positions from 0 in increasing order: the numbers 0 .. K-1 of K labels.
Position(S, l) == Cardinality({m \in S : m < l})

\* The best of a set of labels by a score, the smallest of equals.
Best(S, score) == CHOOSE l \in S : \A m \in S : score[m] < score[l] \/ (score[m] = score[l] /\ l <= m)

-----------------------------------------------------------------------------
(* src/hungarian.rs: the shortest augmenting path form of Kuhn-Munkres,    *)
(* row by row, over integer costs (the callers' costs are counts, or       *)
(* ratios of counts brought to one denominator).                           *)

LOCAL Inf == 10000

\* The search for a column to end the augmenting path of row i: s has the
\* potentials u and v, the row p[j] of each column (0 when free, the sentinel
\* column 0 holds the row being added), and of this search minv, way, used, j0.
Open(s) == (DOMAIN s.minv) \ s.used

\* The row of column j0 takes part: how cheap it leaves each open column.
Relax(cost, s) ==
  LET i0 == s.p[s.j0]
      Cost(j) == cost[i0][j] - s.u[i0] - s.v[j]
      Better(j) == j \in Open(s) \ {s.j0} /\ Cost(j) < s.minv[j]
  IN [s EXCEPT !.used = @ \cup {s.j0},
               !.minv = [j \in DOMAIN @ |-> IF Better(j) THEN Cost(j) ELSE @[j]],
               !.way = [j \in DOMAIN @ |-> IF Better(j) THEN s.j0 ELSE @[j]]]

\* The cheapest open column is next; the potentials make it cost nothing.
Shift(s, delta) ==
  [s EXCEPT !.j0 = Min({j \in Open(s) : s.minv[j] = delta}),
            !.u = [i \in DOMAIN @ |-> IF i \in {s.p[j] : j \in s.used} THEN @[i] + delta ELSE @[i]],
            !.v = [j \in DOMAIN @ |-> IF j \in s.used THEN @[j] - delta ELSE @[j]],
            !.minv = [j \in DOMAIN @ |-> IF j \in s.used THEN @[j] ELSE @[j] - delta]]

ShiftToMin(s) == Shift(s, Min({s.minv[j] : j \in Open(s)}))

\* The scan goes on until a free column is reached.
RECURSIVE Search(_, _)
Search(cost, s) == IF s.p[s.j0] = 0 THEN s ELSE Search(cost, ShiftToMin(Relax(cost, s)))

\* Walk back along way, moving each row one column on.
RECURSIVE Augment(_, _, _)
Augment(p, way, j0) ==
  IF j0 = 0 THEN p ELSE Augment([p EXCEPT ![j0] = p[way[j0]]], way, way[j0])

Augmented(s) == [s EXCEPT !.p = Augment(s.p, s.way, s.j0)]

RECURSIVE AddRows(_, _, _)
AddRows(cost, s, i) ==
  LET n == Len(cost)
      begun == [s EXCEPT !.p[0] = i, !.j0 = 0, !.used = {},
                         !.minv = [j \in 1 .. n |-> Inf], !.way = [j \in 1 .. n |-> 0]]
  IN IF i > n THEN s.p ELSE AddRows(cost, Augmented(Search(cost, begun)), i + 1)

\* Mutant: each row takes its cheapest free column.
SolveGreedy(cost) ==
  LET n == Len(cost)
      pick[r \in 0 .. n] ==
        IF r = 0 THEN <<>>
        ELSE LET free == (1 .. n) \ {pick[r - 1][i] : i \in 1 .. r - 1}
             IN Append(pick[r - 1], CHOOSE j \in free : \A k \in free :
                         cost[r][j] < cost[r][k] \/ (cost[r][j] = cost[r][k] /\ j <= k))
  IN pick[n]

\* The column of each row.
Solve(cost) ==
  LET n == Len(cost)
      fresh == [u |-> [i \in 0 .. n |-> 0], v |-> [j \in 0 .. n |-> 0], p |-> [j \in 0 .. n |-> 0],
                j0 |-> 0, used |-> {}, minv |-> <<>>, way |-> <<>>]
      Rows(p) == [i \in 1 .. n |-> CHOOSE j \in 1 .. n : p[j] = i]
  IN Rows(AddRows(cost, fresh, 1))

\* map_max_cooccurrence: the pairs of the best one-to-one mapping that do
\* co-occur.  A key is a pair <<hyp, ref>>, its value a positive count.
MapMaxCooccurrence(together) ==
  LET Sorted(S) == [i \in 1 .. Cardinality(S) |-> CHOOSE x \in S : Cardinality({y \in S : y < x}) = i - 1]
      Count(key) == IF key \in DOMAIN together THEN together[key] ELSE 0
      Padded(ids, n) == [i \in 1 .. n |-> IF i <= Len(ids) THEN ids[i] ELSE -1]
      Matched(hyp, ref, assignment) ==
        {k \in {<<hyp[i], ref[assignment[i]]>> : i \in DOMAIN hyp} : Count(k) > 0}
      Mapped(hyp, ref) == Matched(hyp, ref, Solve([i \in DOMAIN hyp |-> [j \in DOMAIN hyp |-> -Count(<<hyp[i], ref[j]>>)]]))
      Square(hyp, ref) == Mapped(Padded(hyp, Max({Len(hyp), Len(ref)})), Padded(ref, Max({Len(hyp), Len(ref)})))
  IN IF DOMAIN together = {} THEN {}
     ELSE Square(Sorted({k[1] : k \in DOMAIN together}), Sorted({k[2] : k \in DOMAIN together}))

-----------------------------------------------------------------------------
(* ahc/mod.rs *)

\* Mutant: numbered by their first member.
CompactIdsFirstSeen(labels) ==
  [i \in DOMAIN labels |-> Cardinality({l \in Range(labels) : Min(Members(labels, l)) < Min(Members(labels, labels[i]))})]

\* compact_cluster_ids: the larger first, then the one with the first member.
CompactIds(labels) ==
  LET Before(a, b) ==
        LET A == Members(labels, a)
            B == Members(labels, b)
        IN Cardinality(A) > Cardinality(B) \/ (Cardinality(A) = Cardinality(B) /\ Min(A) < Min(B))
  IN [i \in DOMAIN labels |-> Cardinality({l \in Range(labels) : Before(l, labels[i])})]

SurvivorsOrLargest(metric, keep) ==
  LET survivors == {l \in DOMAIN metric : metric[l] >= keep}
  IN IF survivors = {} THEN {Best(DOMAIN metric, metric)} ELSE survivors

\* Members of the others go to the survivor that is nearest.
FinishPrune(sim, labels, survivors) ==
  IF survivors = Range(labels) THEN labels
  ELSE [i \in DOMAIN labels |->
          Position(survivors, IF labels[i] \in survivors THEN labels[i] ELSE Best(survivors, sim[i]))]

PruneSmallClusters(sim, labels, minSize) ==
  IF minSize <= 1 THEN labels
  ELSE FinishPrune(sim, labels,
         SurvivorsOrLargest([l \in Range(labels) |-> Cardinality(Members(labels, l))], minSize))

\* One more window, in order of start: it goes on with the open span or closes it.
AddSpanKeepLast(acc, t) ==   \* mutant: a span ends where its last window does
  IF acc.open # <<>> /\ t[1] <= acc.open[2]
  THEN [acc EXCEPT !.open = <<@[1], t[2]>>]
  ELSE [total |-> IF acc.open = <<>> THEN acc.total ELSE acc.total + acc.open[2] - acc.open[1], open |-> t]

AddSpan(acc, t) ==
  IF acc.open # <<>> /\ t[1] <= acc.open[2]
  THEN [acc EXCEPT !.open = <<@[1], Max({@[2], t[2]})>>]
  ELSE [total |-> IF acc.open = <<>> THEN acc.total ELSE acc.total + acc.open[2] - acc.open[1], open |-> t]

Covered(spans) ==
  LET closed == FoldLeft(AddSpan, [total |-> 0, open |-> <<>>],
                         SortSeq(SetToSeq(spans), LAMBDA a, b : a[1] < b[1]))
  IN IF spans = {} THEN 0 ELSE closed.total + closed.open[2] - closed.open[1]

ClusterDurations(times, labels) ==
  [l \in Range(labels) |-> Covered({times[i] : i \in Members(labels, l)})]

PruneByDuration(times, sim, labels, minSecs) ==
  IF minSecs <= 0 THEN labels
  ELSE FinishPrune(sim, labels, SurvivorsOrLargest(ClusterDurations(times, labels), minSecs))

-----------------------------------------------------------------------------
(* clusterer/short_filter.rs and the control of clusterer/vbx.rs: the       *)
(* inference itself is `posterior`, the speaker of each embedding it is run *)
(* on.                                                                      *)

\* Embeddings long enough, or the longest alone, the first of equals.
Kept(durations, minSecs) ==
  LET long == {i \in DOMAIN durations : durations[i] >= minSecs}
  IN IF minSecs <= 0 THEN DOMAIN durations
     ELSE IF long = {} THEN {Best(DOMAIN durations, durations)} ELSE long

\* hard_labels: speakers numbered as first seen.
HardLabels(raw) ==
  LET First(r) == Min({i \in DOMAIN raw : raw[i] = r})
  IN [i \in DOMAIN raw |-> Cardinality({r \in {raw[j] : j \in DOMAIN raw} : First(r) < First(raw[i])})]

\* cluster_inner without soft reassignment.
ClusterVbx(durations, minSecs, posterior, sim) ==
  LET kept == Kept(durations, minSecs)
      labels == HardLabels([i \in kept |-> posterior[i]])
  IN IF Len(durations) = 1 THEN <<0>>
     ELSE [i \in DOMAIN durations |->
             IF i \in kept THEN labels[i] ELSE Best({labels[j] : j \in kept}, sim[i])]

-----------------------------------------------------------------------------
(* clusterer/assign.rs.  A table has the pairs <<local, global>> that were   *)
(* seen together and for how long.                                          *)

BuildCooccurrence(locals, labels, durations) ==
  LET n == Min({Len(locals), Len(labels), Len(durations)})
      heard == {i \in 1 .. n : durations[i] > 0}
      At(k) == {i \in heard : <<locals[i], labels[i]>> = k}
  IN [k \in {<<locals[i], labels[i]>> : i \in heard} |-> MapThenSumSet(LAMBDA i : durations[i], At(k))]

Row(cooc, l) == {k[2] : k \in {x \in DOMAIN cooc : x[1] = l}}

\* The longest of a local's globals: any of equals, the map has no order.
Majority(cooc, l, S) == {g \in S : \A h \in S : cooc[<<l, h>>] <= cooc[<<l, g>>]}

UnlinkNobody(cooc, map, pair) == {map}  \* mutant: overlaps are not consulted

\* One cannot-link pair: the one that is less with the global they share
\* moves to its next best global, a free one if it can.
Unlink(cooc, map, pair) ==
  LET a == pair[1]
      b == pair[2]
      g == map[a]
      With(l) == IF <<l, g>> \in DOMAIN cooc THEN cooc[<<l, g>>] ELSE 0
      victim == IF With(a) <= With(b) THEN a ELSE b
      others == Row(cooc, victim) \ {g}
      free == others \ {map[l] : l \in DOMAIN map \ {victim}}
      next == Majority(cooc, victim, IF free # {} THEN free ELSE others)
  IN IF pair[1] \notin DOMAIN map \/ pair[2] \notin DOMAIN map THEN {map}
     ELSE IF map[a] # map[b] \/ others = {} THEN {map}
     ELSE {[map EXCEPT ![victim] = h] : h \in next}

\* The maps the code may return: locals matched to globals for the most time
\* together; a local left without goes where it is longest.
HungarianLocalToGlobal(cooc, cannotLink) ==
  LET Sorted(S) == SetToSortSeq(S, <)
      locals == Sorted({k[1] : k \in DOMAIN cooc})
      globals == Sorted({k[2] : k \in {x \in DOMAIN cooc : cooc[x] > 0}})
      n == Max({Len(locals), Len(globals)})
      Cost(i, j) == IF i <= Len(locals) /\ j <= Len(globals) /\ <<locals[i], globals[j]>> \in DOMAIN cooc
                    THEN -cooc[<<locals[i], globals[j]>>] ELSE 0
      column == Solve([i \in 1 .. n |-> [j \in 1 .. n |-> Cost(i, j)]])
      May(i) == IF column[i] <= Len(globals) THEN {globals[column[i]]}
                ELSE Majority(cooc, locals[i], Row(cooc, locals[i]))
      maps == {m \in [Range(locals) -> Range(globals)] : \A i \in DOMAIN locals : m[locals[i]] \in May(i)}
  IN IF DOMAIN cooc = {} THEN {<<>>}
     ELSE FoldLeft(LAMBDA S, pair : UNION {Unlink(cooc, m, pair) : m \in S}, maps, cannotLink)

-----------------------------------------------------------------------------
Compact(labels) == Range(labels) = 0 .. (Cardinality(Range(labels)) - 1)

\* prune_small_clusters dissolves only the small: large clusters are neither
\* merged nor split ("without merging large genuine speakers"), every number
\* left is one of theirs, and there is always one.
PruningKeepsTheLarge(sim, labels, minSize) ==
  LET out == PruneSmallClusters(sim, labels, minSize)
      large == {l \in Range(labels) : Cardinality(Members(labels, l)) >= minSize}
  IN /\ Compact(out)
     /\ \A i, j \in DOMAIN labels :
          labels[i] \in large /\ labels[j] \in large => (labels[i] = labels[j] <=> out[i] = out[j])
     /\ Cardinality(Range(out)) = IF large = {} THEN 1 ELSE Cardinality(large)

\* A cluster's duration is the time that its windows cover, overlaps once, so
\* a cluster survives when it is heard for long enough.
DurationsAreCovered(times, labels) ==
  \A l \in Range(labels) :
    ClusterDurations(times, labels)[l]
      = Cardinality(UNION {times[i][1] .. (times[i][2] - 1) : i \in Members(labels, l)})

\* VBx labels are compact, one per embedding; two embeddings that were
\* clustered share a label exactly when inference gave them one speaker, and
\* a short one never founds a cluster.
VbxLabelsAreCompact(durations, minSecs, posterior, sim) ==
  LET out == ClusterVbx(durations, minSecs, posterior, sim)
      kept == Kept(durations, minSecs)
  IN /\ Compact(out) /\ kept # {}
     /\ Len(out) > 1 =>
          /\ \A i, j \in kept : out[i] = out[j] <=> posterior[i] = posterior[j]
          /\ \A i \in DOMAIN out : \E j \in kept : out[i] = out[j]

\* Every local that was heard gets a speaker, and the two of a cannot-link
\* pair different ones unless the weaker was never seen with another.
AssignmentSeparates(cooc, pair) ==
  \A map \in HungarianLocalToGlobal(cooc, <<pair>>) :
    /\ DOMAIN map = {k[1] : k \in DOMAIN cooc}
    /\ pair[1] \in DOMAIN map /\ pair[2] \in DOMAIN map /\ map[pair[1]] = map[pair[2]] =>
         \E l \in {pair[1], pair[2]} : Row(cooc, l) = {map[l]}

Total(S, f(_)) == MapThenSumSet(f, S)
Permutations1(n) == {f \in [1 .. n -> 1 .. n] : \A i, j \in 1 .. n : f[i] = f[j] => i = j}

\* The answer is a permutation and no permutation is cheaper.
AssignmentIsOptimal(cost) ==
  LET n == Len(cost)
      CostOf(f) == Total(1 .. n, LAMBDA i : cost[i][f[i]])
      Optimal(a) == a \in Permutations1(n) /\ \A f \in Permutations1(n) : CostOf(a) <= CostOf(f)
  IN Optimal(Solve(cost))

\* The mapping is one to one, between ids that co-occur, and shares as many
\* frames as any one-to-one mapping.
MappingIsOptimal(together) ==
  LET OneToOne(S) == \A x, y \in S : (x[1] = y[1] \/ x[2] = y[2]) => x = y
      Shared(S) == Total(S, LAMBDA x : together[x])
      Optimal(m) == /\ m \subseteq DOMAIN together /\ OneToOne(m)
                    /\ \A S \in SUBSET DOMAIN together : OneToOne(S) => Shared(S) <= Shared(m)
  IN Optimal(MapMaxCooccurrence(together))
===============================================================================
