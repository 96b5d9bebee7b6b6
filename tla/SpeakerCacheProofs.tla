------------------------- MODULE SpeakerCacheProofs -------------------------
(***************************************************************************)
(* Proofs about SpeakerCache, for every cap, threshold, margin and list of *)
(* similarities: the residents are well formed, a speaker is left or made  *)
(* only as far as the hysteresis allows, and a number is never given out   *)
(* twice.                                                                  *)
(***************************************************************************)
EXTENDS SpeakerCache, NaturalsInduction, SequenceTheorems, WellFoundedInduction, TLAPS

(* A set of naturals that is not empty has a least element.                *)
LEMMA LeastNatural ==
  ASSUME NEW S \in SUBSET Nat, S # {}
  PROVE  \E i \in S : \A j \in S : i <= j
<1> DEFINE R == OpToRel(<, Nat)
<1>1. IsWellFoundedOn(R, Nat)
  BY NatLessThanWellFounded
<1>2. PICK i \in S : \A j \in S : ~(<<j, i>> \in R)
  BY <1>1, WFMin
<1>3. \A j \in S : ~(j < i)
  BY <1>2 DEF OpToRel
<1> QED
  BY <1>3

(* max_by keeps the last of the maxima of f[1], ..., f[m]: there is one.    *)
IsLastMax(f, i, m) ==
  /\ i \in 1 .. m
  /\ \A j \in 1 .. m : f[j] < f[i] \/ (f[j] = f[i] /\ j <= i)

LEMMA LastMaxExists ==
  ASSUME NEW n \in Nat \ {0}, NEW f, \A i \in 1 .. n : f[i] \in Int
  PROVE  \E i \in 1 .. n : IsLastMax(f, i, n)
<1> DEFINE Without == {m \in 1 .. n : ~ \E i \in 1 .. m : IsLastMax(f, i, m)}
<1> SUFFICES ASSUME Without # {} PROVE FALSE
  OBVIOUS
<1>0. Without \in SUBSET Nat
  OBVIOUS
<1>1. PICK m \in Without : \A l \in Without : m <= l
  <2> HIDE DEF Without
  <2> QED
    BY <1>0, LeastNatural
<1>2. m \in 1 .. n /\ ~ \E i \in 1 .. m : IsLastMax(f, i, m)
  OBVIOUS
<1>3. m # 1
  BY <1>2 DEF IsLastMax
<1>4. m - 1 \in 1 .. n /\ ~(m <= m - 1)
  BY <1>2, <1>3
<1>5. PICK i \in 1 .. m - 1 : IsLastMax(f, i, m - 1)
  BY <1>1, <1>4
<1>6. CASE f[m] >= f[i]
  <2>1. \A j \in 1 .. m : j \in 1 .. m - 1 \/ j = m
    BY <1>2, <1>4
  <2>2. \A j \in 1 .. m - 1 : f[j] <= f[m] /\ j <= m
    BY <1>2, <1>5, <1>6 DEF IsLastMax
  <2>3. \A j \in 1 .. m : f[j] < f[m] \/ (f[j] = f[m] /\ j <= m)
    BY <1>2, <2>1, <2>2
  <2>4. IsLastMax(f, m, m)
    BY <1>2, <2>3 DEF IsLastMax
  <2> QED
    BY <1>2, <2>4
<1>7. CASE f[m] < f[i]
  <2>1. \A j \in 1 .. m : j \in 1 .. m - 1 \/ j = m
    BY <1>2, <1>4
  <2>2. \A j \in 1 .. m : f[j] < f[i] \/ (f[j] = f[i] /\ j <= i)
    BY <1>5, <1>7, <2>1 DEF IsLastMax
  <2>3. i \in 1 .. m
    BY <1>2, <1>5
  <2>4. IsLastMax(f, i, m)
    BY <2>2, <2>3 DEF IsLastMax
  <2> QED
    BY <2>3, <2>4, <1>2
<1> QED
  BY <1>2, <1>5, <1>6, <1>7

-----------------------------------------------------------------------------
(* The candidates of an embedding: a similarity for each resident id.      *)
AreCandidates(cands, n) ==
  /\ n \in Nat \ {0} /\ DOMAIN cands = 1 .. n
  /\ \A i \in 1 .. n : cands[i].id \in Nat /\ cands[i].sim \in Int
  /\ \A i, j \in 1 .. n : cands[i].id = cands[j].id => i = j

LEMMA BestIsBest ==
  ASSUME NEW n, NEW cands, AreCandidates(cands, n)
  PROVE  /\ BestIndex(cands) \in 1 .. n
         /\ Best(cands) = cands[BestIndex(cands)]
         /\ \A j \in 1 .. n : cands[j].sim <= Best(cands).sim
<1> DEFINE f == [i \in 1 .. n |-> cands[i].sim]
<1>1. PICK i \in 1 .. n : IsLastMax(f, i, n)
  BY LastMaxExists DEF AreCandidates
<1>2. \A j \in 1 .. n : cands[j].sim < cands[i].sim \/ (cands[j].sim = cands[i].sim /\ j <= i)
  BY <1>1 DEF IsLastMax
<1>3. /\ BestIndex(cands) \in 1 .. n
      /\ \A j \in 1 .. n : \/ cands[j].sim < cands[BestIndex(cands)].sim
                           \/ cands[j].sim = cands[BestIndex(cands)].sim /\ j <= BestIndex(cands)
  BY <1>2 DEF BestIndex, AreCandidates
<1> QED
  BY <1>3 DEF Best, AreCandidates

LEMMA SimOfCandidate ==
  ASSUME NEW n, NEW cands, AreCandidates(cands, n), NEW i \in 1 .. n
  PROVE  IsCandidate(cands, cands[i].id) /\ SimOf(cands, cands[i].id) = cands[i].sim
<1>1. (CHOOSE j \in 1 .. n : cands[j].id = cands[i].id) = i
  BY DEF AreCandidates
<1> QED
  BY <1>1 DEF SimOf, IsCandidate, AreCandidates

(* The swap that puts the preferred speaker first keeps the candidates.     *)
LEMMA ReorderedIsBest ==
  ASSUME NEW n, NEW cands, AreCandidates(cands, n), IsCandidate(cands, PreferCurrent(cands))
  PROVE  \E b \in 1 .. n : /\ Best(Reordered(cands)) = cands[b]
                           /\ \A j \in 1 .. n : cands[j].sim <= cands[b].sim
<1> DEFINE k == CHOOSE i \in DOMAIN cands : cands[i].id = PreferCurrent(cands)
           re == [cands EXCEPT ![1] = cands[k], ![k] = cands[1]]
<1>1. k \in 1 .. n /\ 1 \in 1 .. n
  BY DEF IsCandidate, AreCandidates
<1>2. re = Reordered(cands)
  BY DEF Reordered
<1> HIDE DEF k
<1>3. DOMAIN re = 1 .. n
  BY DEF AreCandidates
<1>4. \A i \in 1 .. n : re[i] = cands[IF i = k THEN 1 ELSE IF i = 1 THEN k ELSE i]
  BY <1>1 DEF AreCandidates
<1>5. ASSUME NEW i \in 1 .. n PROVE \E j \in 1 .. n : cands[i] = re[j]
  <2>1. CASE i = k
    BY <1>1, <1>4, <2>1
  <2>2. CASE i = 1
    BY <1>1, <1>4, <2>2
  <2>3. CASE i # 1 /\ i # k
    BY <1>4, <2>3
  <2> QED
    BY <2>1, <2>2, <2>3
<1> HIDE DEF re
<1>6. AreCandidates(re, n)
  BY <1>1, <1>3, <1>4 DEF AreCandidates
<1>7. /\ BestIndex(re) \in 1 .. n /\ Best(re) = re[BestIndex(re)]
      /\ \A j \in 1 .. n : re[j].sim <= Best(re).sim
  BY <1>6, BestIsBest
<1>8. PICK b \in 1 .. n : re[BestIndex(re)] = cands[b]
  BY <1>1, <1>4, <1>7
<1>9. ASSUME NEW j \in 1 .. n PROVE cands[j].sim <= cands[b].sim
  <2>1. PICK i \in 1 .. n : cands[j] = re[i]
    BY <1>5
  <2> QED
    BY <1>7, <1>8, <2>1
<1> QED
  BY <1>2, <1>7, <1>8, <1>9

(* What the reordering and the second comparison of assign come to: the     *)
(* chosen candidate is within the margin of the best; it is the best unless  *)
(* it is the current speaker; and a current speaker that is a candidate is   *)
(* left only for one better by more than the margin.                        *)
LEMMA ChosenFollowsMargin ==
  ASSUME SpeakerCacheAssumption, NEW n, NEW cands, AreCandidates(cands, n)
  PROVE  \E c \in 1 .. n :
           /\ Chosen(cands).id = cands[c].id /\ Chosen(cands).sim = cands[c].sim
           /\ \A j \in 1 .. n : cands[j].sim <= cands[c].sim + Margin
           /\ cands[c].id # current =>
                /\ \A j \in 1 .. n : cands[j].sim <= cands[c].sim
                /\ \A j \in 1 .. n : cands[j].id = current => cands[c].sim > cands[j].sim + Margin
<1> DEFINE top == BestIndex(cands)
           pref == PreferCurrent(cands)
<1>1. top \in 1 .. n /\ \A j \in 1 .. n : cands[j].sim <= cands[top].sim
  BY BestIsBest
<1>2. Best(cands) = cands[top]
  BY BestIsBest
<1> HIDE DEF top
<1>3. Margin \in Nat /\ \A j \in 1 .. n : cands[j].sim \in Int
  BY DEF SpeakerCacheAssumption, AreCandidates
<1>4. PICK p \in 1 .. n :
        /\ cands[p].id = pref
        /\ \/ p = top /\ \A j \in 1 .. n : cands[j].id = current => cands[top].sim > cands[j].sim + Margin
           \/ cands[p].id = current /\ cands[top].sim - cands[p].sim <= Margin
  <2>1. CASE IsCandidate(cands, current)
    <3>1. PICK j \in 1 .. n : cands[j].id = current
      BY <2>1 DEF IsCandidate, AreCandidates
    <3>2. SimOf(cands, current) = cands[j].sim
      BY <3>1, SimOfCandidate
    <3>3. CASE cands[top].sim - cands[j].sim <= Margin
      BY <1>2, <2>1, <3>1, <3>2, <3>3 DEF PreferCurrent
    <3>4. CASE ~(cands[top].sim - cands[j].sim <= Margin)
      <4>1. pref = cands[top].id
        BY <1>2, <2>1, <3>2, <3>4 DEF PreferCurrent
      <4>2. \A i \in 1 .. n : cands[i].id = current => i = j
        BY <3>1 DEF AreCandidates
      <4>3. cands[top].sim > cands[j].sim + Margin
        BY <1>1, <1>3, <3>4
      <4> QED
        BY <1>1, <4>1, <4>2, <4>3
    <3> QED
      BY <3>3, <3>4
  <2>2. CASE ~IsCandidate(cands, current)
    <3>1. pref = cands[top].id
      BY <1>2, <2>2 DEF PreferCurrent
    <3>2. \A j \in 1 .. n : cands[j].id # current
      BY <2>2 DEF IsCandidate, AreCandidates
    <3> QED
      BY <1>1, <3>1, <3>2
  <2> QED
    BY <2>1, <2>2
<1>5. IsCandidate(cands, pref) /\ SimOf(cands, pref) = cands[p].sim
  BY <1>4, SimOfCandidate
<1>6. PICK b \in 1 .. n : /\ Best(Reordered(cands)) = cands[b]
                          /\ \A j \in 1 .. n : cands[j].sim <= cands[b].sim
  BY <1>5, ReorderedIsBest
<1>7. cands[b].sim = cands[top].sim
  BY <1>1, <1>3, <1>6
<1>8. cands[b].sim - cands[p].sim <= Margin
  BY <1>1, <1>3, <1>4, <1>7
<1>9. /\ pref # cands[b].id => Chosen(cands) = [id |-> pref, sim |-> cands[p].sim]
      /\ pref = cands[b].id => Chosen(cands) = cands[b]
  BY <1>5, <1>6, <1>8 DEF Chosen
<1>10. pref = cands[b].id => b = p
  BY <1>4 DEF AreCandidates
<1>11. Chosen(cands).id = cands[p].id /\ Chosen(cands).sim = cands[p].sim
  BY <1>4, <1>9, <1>10
<1>12. \A j \in 1 .. n : cands[j].sim <= cands[p].sim + Margin
  BY <1>1, <1>3, <1>7, <1>8
<1>13. cands[p].id # current =>
         /\ \A j \in 1 .. n : cands[j].sim <= cands[p].sim
         /\ \A j \in 1 .. n : cands[j].id = current => cands[p].sim > cands[j].sim + Margin
  BY <1>1, <1>4
<1> QED
  BY <1>11, <1>12, <1>13

-----------------------------------------------------------------------------
(* What an assignment does.                                                *)

\* Resident c is chosen for similarities sims.
IsChosen(sims, c) ==
  /\ c \in DOMAIN entries
  /\ \A j \in DOMAIN entries : sims[j] <= sims[c] + Margin
  /\ entries[c].id # current =>
       /\ \A j \in DOMAIN entries : sims[j] <= sims[c]
       /\ \A j \in DOMAIN entries : entries[j].id = current => sims[c] > sims[j] + Margin

LEMMA CapIsPositive == ASSUME SpeakerCacheAssumption PROVE Cap \in Nat \ {0} /\ MinHits \in Nat \ {0}
<1>1. ASSUME NEW k \in Nat PROVE Max({k, 1}) \in Nat \ {0}
  <2>1. \E x \in {k, 1} : \A y \in {k, 1} : x >= y
    OBVIOUS
  <2>2. Max({k, 1}) \in {k, 1} /\ \A y \in {k, 1} : Max({k, 1}) >= y
    BY <2>1 DEF Max
  <2> QED
    BY <2>2
<1> QED
  BY <1>1 DEF Cap, MinHits, SpeakerCacheAssumption

LEMMA EntriesAreEntries ==
  ASSUME CacheTypeOK
  PROVE  /\ Len(entries) \in Nat /\ DOMAIN entries = 1 .. Len(entries)
         /\ \A i \in DOMAIN entries : entries[i] \in Entry
BY LenProperties DEF CacheTypeOK

\* The ids of the residents differ.
IdsDiffer == \A i, j \in DOMAIN entries : entries[i].id = entries[j].id => i = j

LEMMA AssignCases ==
  ASSUME SpeakerCacheAssumption, CacheTypeOK, IdsDiffer,
         NEW sims \in AnyEmbedding, Assign(sims)
  PROVE  \/ entries = <<>> /\ Create(sims)
         \/ \E c \in DOMAIN entries :
              /\ IsChosen(sims, c)
              /\ \/ Below(sims[c]) /\ ~IsFull /\ Create(sims)
                 \/ /\ ~Below(sims[c]) \/ IsFull
                    /\ Update(entries[c].id, Below(sims[c]) /\ IsFull, sims)
<1> DEFINE cands == [i \in DOMAIN entries |-> [id |-> entries[i].id, sim |-> sims[i]]]
<1>1. Len(entries) \in Nat /\ DOMAIN entries = 1 .. Len(entries)
      /\ \A i \in DOMAIN entries : entries[i] \in Entry
  BY EntriesAreEntries
<1>2. IF entries # <<>> /\ (~Below(Chosen(cands).sim) \/ IsFull)
        THEN Update(Chosen(cands).id, Below(Chosen(cands).sim) /\ IsFull, sims)
        ELSE Create(sims)
  BY DEF Assign
<1>3. CASE entries = <<>>
  BY <1>2, <1>3
<1>4. CASE entries # <<>>
  <2>1. \A i \in DOMAIN entries : sims[i] \in Int
    BY DEF AnyEmbedding, SpeakerCacheAssumption
  <2>2. Len(entries) \in Nat \ {0}
    BY <1>1, <1>4, EmptySeq DEF CacheTypeOK
  <2>3. AreCandidates(cands, Len(entries))
    BY <1>1, <2>1, <2>2 DEF AreCandidates, IdsDiffer, Entry
  <2>4. \A i \in DOMAIN entries : cands[i].id = entries[i].id /\ cands[i].sim = sims[i]
    OBVIOUS
  <2> HIDE DEF cands
  <2>5. PICK c \in 1 .. Len(entries) :
          /\ Chosen(cands).id = cands[c].id /\ Chosen(cands).sim = cands[c].sim
          /\ \A j \in 1 .. Len(entries) : cands[j].sim <= cands[c].sim + Margin
          /\ cands[c].id # current =>
               /\ \A j \in 1 .. Len(entries) : cands[j].sim <= cands[c].sim
               /\ \A j \in 1 .. Len(entries) :
                    cands[j].id = current => cands[c].sim > cands[j].sim + Margin
    BY <2>3, ChosenFollowsMargin
  <2>6. IsChosen(sims, c)
    BY <1>1, <2>4, <2>5 DEF IsChosen
  <2>7. Chosen(cands).id = entries[c].id /\ Chosen(cands).sim = sims[c]
    BY <1>1, <2>4, <2>5
  <2>8. IF ~Below(sims[c]) \/ IsFull
          THEN Update(entries[c].id, Below(sims[c]) /\ IsFull, sims)
          ELSE Create(sims)
    BY <1>2, <1>4, <2>7
  <2> QED
    BY <1>1, <2>6, <2>8
<1> QED
  BY <1>3, <1>4

-----------------------------------------------------------------------------
(* The residents.                                                          *)

LEMMA CreateKeepsResidents ==
  ASSUME SpeakerCacheAssumption, CacheTypeOK, ResidentsWellFormed, ~IsFull,
         NEW sims, Create(sims), step' \in Nat
  PROVE  /\ CacheTypeOK' /\ ResidentsWellFormed' /\ JoinsFresh
<1>1. /\ Len(entries) \in Nat /\ DOMAIN entries = 1 .. Len(entries)
      /\ \A i \in DOMAIN entries : entries[i] \in Entry
  BY EntriesAreEntries
<1> DEFINE new == [id |-> nextId, hits |-> 1, stable |-> IsStable(1)]
<1>2. new \in Entry
  BY DEF Entry, IsStable, CacheTypeOK
<1>3. entries' = Append(entries, new) /\ current' = nextId /\ nextId' = nextId + 1
  BY DEF Create
<1> HIDE DEF new
<1>4. /\ entries' \in Seq(Entry) /\ Len(entries') = Len(entries) + 1
      /\ DOMAIN entries' = 1 .. Len(entries) + 1
      /\ \A i \in DOMAIN entries : entries'[i] = entries[i]
      /\ entries'[Len(entries) + 1] = new
  BY <1>1, <1>2, <1>3, AppendProperties DEF CacheTypeOK
<1>5. new.id = nextId /\ nextId \in Nat
  BY DEF new, CacheTypeOK
<1>6. CacheTypeOK'
  BY <1>3, <1>4, <1>5 DEF CacheTypeOK
<1>7. Len(entries') <= Cap
  BY <1>1, <1>4, CapIsPositive DEF IsFull
<1>8. ASSUME NEW i \in DOMAIN entries', NEW j \in DOMAIN entries', entries'[i].id = entries'[j].id
      PROVE  i = j
  <2>1. \A k \in DOMAIN entries : entries[k].id \in Nat /\ entries[k].id < nextId
    BY <1>1 DEF ResidentsWellFormed, Entry
  <2>2. (i \in DOMAIN entries \/ i = Len(entries) + 1) /\ (j \in DOMAIN entries \/ j = Len(entries) + 1)
    BY <1>1, <1>4
  <2> QED
    BY <1>4, <1>5, <1>8, <2>1, <2>2 DEF ResidentsWellFormed
<1>9. ASSUME NEW i \in DOMAIN entries' PROVE entries'[i].id < nextId'
  <2>1. \A k \in DOMAIN entries : entries[k].id \in Nat /\ entries[k].id < nextId
    BY <1>1 DEF ResidentsWellFormed, Entry
  <2>2. i \in DOMAIN entries \/ i = Len(entries) + 1
    BY <1>1, <1>4
  <2> QED
    BY <1>3, <1>4, <1>5, <2>1, <2>2
<1>10. \E i \in DOMAIN entries' : entries'[i].id = current'
  BY <1>1, <1>3, <1>4, <1>5
<1>11. JoinsFresh
  BY <1>1, <1>4, <1>5 DEF JoinsFresh
<1> QED
  BY <1>6, <1>7, <1>8, <1>9, <1>10, <1>11 DEF ResidentsWellFormed

LEMMA UpdateKeepsResidents ==
  ASSUME SpeakerCacheAssumption, CacheTypeOK, ResidentsWellFormed,
         NEW c \in DOMAIN entries, NEW overflow, NEW sims,
         Update(entries[c].id, overflow, sims), step' \in Nat
  PROVE  /\ CacheTypeOK' /\ ResidentsWellFormed' /\ JoinsFresh
         /\ \E e \in Entry :
              /\ e.id = entries[c].id /\ e.hits = entries[c].hits + 1
              /\ e.stable = (entries[c].stable \/ IsStable(e.hits))
              /\ entries' = [entries EXCEPT ![c] = e] /\ last'.stable = e.stable
<1>1. /\ Len(entries) \in Nat /\ DOMAIN entries = 1 .. Len(entries)
      /\ \A i \in DOMAIN entries : entries[i] \in Entry
  BY EntriesAreEntries
<1>2. (CHOOSE j \in DOMAIN entries : entries[j].id = entries[c].id) = c
  BY DEF ResidentsWellFormed
<1> DEFINE hits == entries[c].hits + 1
           stable == entries[c].stable \/ IsStable(hits)
           e == [id |-> entries[c].id, hits |-> hits, stable |-> stable]
<1>3. /\ entries' = [entries EXCEPT ![c] = e]
      /\ current' = entries[c].id /\ nextId' = nextId /\ last'.stable = stable
  BY <1>2 DEF Update
<1>4. hits \in Nat /\ stable \in BOOLEAN
  BY <1>1 DEF Entry, IsStable
<1>5. e \in Entry /\ e.id = entries[c].id /\ e.hits = hits /\ e.stable = stable
  BY <1>1, <1>4 DEF Entry
<1> HIDE DEF e
<1>6. /\ entries' \in Seq(Entry) /\ DOMAIN entries' = DOMAIN entries /\ Len(entries') = Len(entries)
      /\ entries'[c] = e /\ \A i \in DOMAIN entries : i # c => entries'[i] = entries[i]
  BY <1>1, <1>3, <1>5, ExceptSeq DEF CacheTypeOK
<1>7. \A i \in DOMAIN entries : entries'[i].id = entries[i].id
  BY <1>5, <1>6
<1>8. CacheTypeOK'
  BY <1>1, <1>3, <1>6 DEF CacheTypeOK, Entry
<1>9. ResidentsWellFormed'
  BY <1>3, <1>6, <1>7 DEF ResidentsWellFormed
<1>10. JoinsFresh
  BY <1>6, <1>7 DEF JoinsFresh
<1> QED
  BY <1>3, <1>5, <1>8, <1>9, <1>10

LEMMA EvictKeepsResidents ==
  ASSUME SpeakerCacheAssumption, CacheTypeOK, ResidentsWellFormed, EvictWeakest
  PROVE  CacheTypeOK' /\ ResidentsWellFormed' /\ JoinsFresh
<1>1. /\ Len(entries) \in Nat /\ DOMAIN entries = 1 .. Len(entries)
      /\ \A i \in DOMAIN entries : entries[i] \in Entry
  BY EntriesAreEntries
<1>2. PICK v \in DOMAIN entries :
        /\ entries' = SubSeq([entries EXCEPT ![v] = entries[Len(entries)]], 1, Len(entries) - 1)
        /\ current' = IF current = entries[v].id THEN NoSpeaker ELSE current
  BY DEF EvictWeakest
<1> DEFINE moved == [entries EXCEPT ![v] = entries[Len(entries)]]
           n == Len(entries) - 1
<1>3. n \in Nat /\ Len(entries) \in DOMAIN entries
  BY <1>1
<1>4. moved \in Seq(Entry) /\ Len(moved) = Len(entries)
      /\ \A i \in DOMAIN entries : moved[i] = IF i = v THEN entries[Len(entries)] ELSE entries[i]
  BY <1>1, <1>3, ExceptSeq DEF CacheTypeOK
<1> HIDE DEF moved
<1>5. /\ entries' \in Seq(Entry) /\ Len(entries') = n /\ DOMAIN entries' = 1 .. n
      /\ \A i \in 1 .. n : entries'[i] = moved[i]
  BY <1>1, <1>2, <1>3, <1>4, SubSeqProperties DEF moved
<1>6. \A i \in 1 .. n : entries'[i] = entries[IF i = v THEN Len(entries) ELSE i]
  BY <1>1, <1>4, <1>5
<1>7. nextId' = nextId /\ step' = step
  BY DEF EvictWeakest
<1>8. CacheTypeOK'
  BY <1>2, <1>5, <1>7 DEF CacheTypeOK
<1>9. Len(entries') <= Cap
  BY <1>1, <1>5, CapIsPositive DEF ResidentsWellFormed
<1>10. \A i, j \in DOMAIN entries' : entries'[i].id = entries'[j].id => i = j
  BY <1>1, <1>3, <1>5, <1>6 DEF ResidentsWellFormed
<1>11. \A i \in DOMAIN entries' : entries'[i].id < nextId'
  BY <1>1, <1>3, <1>5, <1>6, <1>7 DEF ResidentsWellFormed
<1>12. ASSUME current' # NoSpeaker PROVE \E i \in DOMAIN entries' : entries'[i].id = current'
  <2>1. PICK i \in DOMAIN entries : entries[i].id = current
    BY <1>2, <1>12 DEF ResidentsWellFormed
  <2>2. current' = current /\ i # v
    BY <1>2, <1>12, <2>1
  <2>3. CASE i = Len(entries)
    BY <1>1, <1>3, <1>5, <1>6, <2>1, <2>2, <2>3
  <2>4. CASE i # Len(entries)
    BY <1>1, <1>3, <1>5, <1>6, <2>1, <2>2, <2>4
  <2> QED
    BY <2>3, <2>4
<1>13. JoinsFresh
  BY <1>1, <1>3, <1>5, <1>6 DEF JoinsFresh
<1> QED
  BY <1>8, <1>9, <1>10, <1>11, <1>12, <1>13 DEF ResidentsWellFormed

-----------------------------------------------------------------------------
(* What the last assignment was given and returned.                        *)

LEMMA SoundLastFollows ==
  ASSUME SpeakerCacheAssumption, LastIsSound, step \in Nat
  PROVE  FollowsHysteresis /\ SplitsOnlyWithinMargin
<1>1. CASE FoundNobody
  BY <1>1 DEF FoundNobody, FollowsHysteresis, SplitsOnlyWithinMargin, Was, BehindBest, IsBest
<1>2. ASSUME NEW c \in DOMAIN last.ids, ChoseWithinMargin(c)
      PROVE  FollowsHysteresis /\ SplitsOnlyWithinMargin
  <2>1. \A i \in DOMAIN last.ids : SimWas(last.ids[i]) = last.sims[i]
    <3> SUFFICES ASSUME NEW i \in DOMAIN last.ids PROVE SimWas(last.ids[i]) = last.sims[i]
      OBVIOUS
    <3>1. (CHOOSE j \in DOMAIN last.ids : last.ids[j] = last.ids[i]) = i
      BY <1>2 DEF ChoseWithinMargin
    <3> QED
      BY <3>1 DEF SimWas
  <2>2. Margin \in Nat /\ Threshold \in Int /\ \A i \in DOMAIN last.ids : last.sims[i] \in Int
    BY <1>2 DEF SpeakerCacheAssumption, ChoseWithinMargin
  <2>3. FollowsHysteresis
    <3> SUFFICES ASSUME ~last.created
                 PROVE  /\ ~BehindBest(last.speaker)
                        /\ last.speaker # last.was /\ Was(last.was) =>
                             IsBest(last.speaker) /\ BehindBest(last.was)
      BY DEF FollowsHysteresis
    <3>1. last.speaker = last.ids[c] /\ SimWas(last.speaker) = last.sims[c]
      BY <1>2, <2>1 DEF ChoseWithinMargin
    <3>2. ~BehindBest(last.speaker)
      BY <1>2, <2>2, <3>1 DEF BehindBest, ChoseWithinMargin
    <3>3. ASSUME last.speaker # last.was, Was(last.was)
          PROVE  IsBest(last.speaker) /\ BehindBest(last.was)
      <4>1. PICK i \in DOMAIN last.ids : last.ids[i] = last.was
        BY <3>3 DEF Was
      <4>2. SimWas(last.was) = last.sims[i]
        BY <2>1, <4>1
      <4>3. last.sims[c] > last.sims[i] + Margin
        BY <1>2, <3>1, <3>3, <4>1 DEF ChoseWithinMargin
      <4>4. BehindBest(last.was)
        BY <1>2, <4>2, <4>3 DEF BehindBest, ChoseWithinMargin
      <4>5. IsBest(last.speaker)
        BY <1>2, <3>1, <3>3 DEF IsBest, ChoseWithinMargin
      <4> QED
        BY <4>4, <4>5
    <3> QED
      BY <3>2, <3>3
  <2>4. SplitsOnlyWithinMargin
    <3> SUFFICES ASSUME last.created \/ last.overflow
                 PROVE  /\ Was(last.was) => SimWas(last.was) < Threshold
                        /\ \A i \in DOMAIN last.sims :
                             last.sims[i] >= Threshold =>
                               Was(last.was) /\ last.sims[i] <= SimWas(last.was) + Margin
      BY DEF SplitsOnlyWithinMargin
    <3>1. last.sims[c] < Threshold
      BY <1>2 DEF ChoseWithinMargin
    <3>2. ASSUME Was(last.was) PROVE SimWas(last.was) < Threshold
      <4>1. PICK i \in DOMAIN last.ids : last.ids[i] = last.was
        BY <3>2 DEF Was
      <4>2. SimWas(last.was) = last.sims[i]
        BY <2>1, <4>1
      <4>3. last.ids[c] # last.was => last.sims[i] <= last.sims[c]
        BY <1>2 DEF ChoseWithinMargin
      <4>4. last.ids[c] = last.was => i = c
        BY <1>2, <4>1 DEF ChoseWithinMargin
      <4> QED
        BY <2>2, <3>1, <4>2, <4>3, <4>4
    <3>3. ASSUME NEW i \in DOMAIN last.sims, last.sims[i] >= Threshold
          PROVE  Was(last.was) /\ last.sims[i] <= SimWas(last.was) + Margin
      <4>1. i \in DOMAIN last.ids
        BY <1>2 DEF ChoseWithinMargin
      <4>2. ~(last.sims[i] <= last.sims[c])
        BY <2>2, <3>1, <3>3, <4>1
      <4>3. last.ids[c] = last.was
        BY <1>2, <4>1, <4>2 DEF ChoseWithinMargin
      <4>4. SimWas(last.was) = last.sims[c]
        BY <2>1, <4>3
      <4> QED
        BY <1>2, <4>1, <4>3, <4>4 DEF Was, ChoseWithinMargin
    <3> QED
      BY <3>2, <3>3
  <2> QED
    BY <2>3, <2>4
<1> QED
  BY <1>1, <1>2 DEF LastIsSound

LEMMA AssignRecordsItsChoice ==
  ASSUME SpeakerCacheAssumption, CacheTypeOK, ResidentsWellFormed,
         NEW sims \in AnyEmbedding, Assign(sims)
  PROVE  LastIsSound'
<1>1. \A i \in DOMAIN entries : sims[i] \in Int
  BY DEF AnyEmbedding, SpeakerCacheAssumption
<1>2. DOMAIN sims = DOMAIN entries /\ DOMAIN Ids = DOMAIN entries
      /\ \A i \in DOMAIN entries : Ids[i] = entries[i].id
  BY DEF AnyEmbedding, Ids
<1>3. IdsDiffer
  BY DEF ResidentsWellFormed, IdsDiffer
<1>4. CASE entries = <<>> /\ Create(sims)
  <2>1. last'.sims = sims /\ last'.ids = Ids /\ last'.created
    BY <1>4 DEF Create
  <2>2. DOMAIN entries = {}
    BY <1>4
  <2> QED
    BY <1>2, <2>1, <2>2 DEF LastIsSound, FoundNobody
<1>5. ASSUME NEW c \in DOMAIN entries, IsChosen(sims, c),
             \/ Below(sims[c]) /\ ~IsFull /\ Create(sims)
             \/ /\ ~Below(sims[c]) \/ IsFull
                /\ Update(entries[c].id, Below(sims[c]) /\ IsFull, sims)
      PROVE  LastIsSound'
  <2>1. /\ last'.sims = sims /\ last'.ids = Ids /\ last'.was = current
        /\ ~last'.created => last'.speaker = entries[c].id
        /\ last'.created \/ last'.overflow => Below(sims[c])
    <3> DEFINE over == Below(sims[c]) /\ IsFull
    <3>1. over => Below(sims[c])
      OBVIOUS
    <3>2. (Below(sims[c]) /\ Create(sims)) \/ Update(entries[c].id, over, sims)
      BY <1>5
    <3> HIDE DEF over
    <3>3. CASE Below(sims[c]) /\ Create(sims)
      BY <3>3 DEF Create
    <3>4. CASE Update(entries[c].id, over, sims)
      <4>1. /\ last'.sims = sims /\ last'.ids = Ids /\ last'.was = current
            /\ last'.speaker = entries[c].id /\ last'.created = FALSE /\ last'.overflow = over
        BY <3>4 DEF Update
      <4> QED
        BY <3>1, <4>1
    <3> QED
      BY <3>2, <3>3, <3>4
  <2>2. ChoseWithinMargin(c)'
    <3>1. /\ DOMAIN last'.sims = DOMAIN last'.ids /\ c \in DOMAIN last'.ids
          /\ \A i \in DOMAIN last'.ids : last'.sims[i] \in Int
      BY <1>1, <1>2, <2>1
    <3>2. \A i, j \in DOMAIN last'.ids : last'.ids[i] = last'.ids[j] => i = j
      BY <1>2, <1>3, <2>1 DEF IdsDiffer
    <3>3. \A j \in DOMAIN last'.ids : last'.sims[j] <= last'.sims[c] + Margin
      BY <1>2, <1>5, <2>1 DEF IsChosen
    <3>4. last'.ids[c] # last'.was =>
            /\ \A j \in DOMAIN last'.ids : last'.sims[j] <= last'.sims[c]
            /\ \A j \in DOMAIN last'.ids : last'.ids[j] = last'.was => last'.sims[c] > last'.sims[j] + Margin
      BY <1>2, <1>5, <2>1 DEF IsChosen
    <3>5. ~last'.created => last'.speaker = last'.ids[c]
      BY <1>2, <2>1
    <3>6. last'.created \/ last'.overflow => last'.sims[c] < Threshold
      BY <2>1 DEF Below
    <3> QED
      BY <3>1, <3>2, <3>3, <3>4, <3>5, <3>6 DEF ChoseWithinMargin
  <2>3. c \in DOMAIN last'.ids
    BY <1>2, <2>1
  <2> QED
    BY <2>2, <2>3 DEF LastIsSound
<1> QED
  BY <1>3, <1>4, <1>5, AssignCases

-----------------------------------------------------------------------------
(* The inductive invariant.                                                *)

LEMMA CacheInitInv == ASSUME SpeakerCacheAssumption, CacheInit PROVE CacheIInv
<1>1. CacheTypeOK
  BY DEF CacheInit, CacheTypeOK
<1>2. entries = <<>> /\ Len(entries) = 0 /\ DOMAIN entries = {} /\ current = NoSpeaker
  BY DEF CacheInit
<1>3. ResidentsWellFormed
  BY <1>2, CapIsPositive DEF ResidentsWellFormed
<1>4. LastIsSound
  BY DEF CacheInit, LastIsSound, FoundNobody, NoResult
<1> QED
  BY <1>1, <1>3, <1>4 DEF CacheIInv

LEMMA AssignInv ==
  ASSUME SpeakerCacheAssumption, CacheIInv, NEW sims \in AnyEmbedding, Assign(sims)
  PROVE  CacheIInv' /\ JoinsFresh
<1>1. CacheTypeOK /\ ResidentsWellFormed /\ IdsDiffer
  BY DEF CacheIInv, ResidentsWellFormed, IdsDiffer
<1>2. step' \in Nat
  BY <1>1 DEF Assign, CacheTypeOK
<1>3. LastIsSound'
  BY <1>1, AssignRecordsItsChoice
<1>4. CASE entries = <<>> /\ Create(sims)
  <2>1. Len(entries) = 0 /\ ~IsFull
    BY <1>4, CapIsPositive DEF IsFull
  <2> QED
    BY <1>1, <1>2, <1>3, <1>4, <2>1, CreateKeepsResidents DEF CacheIInv
<1>5. CASE ~IsFull /\ Create(sims)
  BY <1>1, <1>2, <1>3, <1>5, CreateKeepsResidents DEF CacheIInv
<1>6. ASSUME NEW c \in DOMAIN entries, Update(entries[c].id, Below(sims[c]) /\ IsFull, sims)
      PROVE  CacheIInv' /\ JoinsFresh
  <2>1. CacheTypeOK' /\ ResidentsWellFormed' /\ JoinsFresh
    BY <1>1, <1>2, <1>6, UpdateKeepsResidents
  <2> QED
    BY <1>3, <2>1 DEF CacheIInv
<1> QED
  BY <1>1, <1>4, <1>5, <1>6, AssignCases

(* The residents after an assignment, and what it returns of the one chosen. *)
LEMMA AssignAnswers ==
  ASSUME SpeakerCacheAssumption, CacheIInv, NEW sims \in AnyEmbedding, Assign(sims)
  PROVE  \/ \E e \in Entry :
              /\ e.id = nextId /\ e.hits = 1 /\ e.stable = IsStable(1)
              /\ entries' = Append(entries, e)
              /\ last'.speaker = e.id /\ last'.stable = e.stable
         \/ \E c \in DOMAIN entries : \E e \in Entry :
              /\ e.id = entries[c].id /\ e.hits = entries[c].hits + 1
              /\ e.stable = (entries[c].stable \/ IsStable(e.hits))
              /\ entries' = [entries EXCEPT ![c] = e]
              /\ last'.speaker = e.id /\ last'.stable = e.stable
<1>1. CacheTypeOK /\ ResidentsWellFormed /\ IdsDiffer /\ nextId \in Nat
  BY DEF CacheIInv, ResidentsWellFormed, IdsDiffer, CacheTypeOK
<1>2. step' \in Nat
  BY <1>1 DEF Assign, CacheTypeOK
<1>3. ASSUME Create(sims)
      PROVE  \E e \in Entry :
               /\ e.id = nextId /\ e.hits = 1 /\ e.stable = IsStable(1)
               /\ entries' = Append(entries, e)
               /\ last'.speaker = e.id /\ last'.stable = e.stable
  <2> DEFINE first == IsStable(1)
             e == [id |-> nextId, hits |-> 1, stable |-> first]
  <2>1. first \in BOOLEAN
    BY DEF IsStable
  <2>2. entries' = Append(entries, e) /\ last'.speaker = nextId /\ last'.stable = first
    BY <1>3 DEF Create
  <2> HIDE DEF first
  <2>3. e \in Entry /\ e.id = nextId /\ e.hits = 1 /\ e.stable = first
    BY <1>1, <2>1 DEF Entry
  <2> HIDE DEF e
  <2>4. last'.speaker = e.id /\ last'.stable = e.stable
    BY <2>2, <2>3
  <2> QED
    BY <2>2, <2>3, <2>4 DEF first
<1>4. ASSUME NEW c \in DOMAIN entries, NEW overflow, Update(entries[c].id, overflow, sims)
      PROVE  \E e \in Entry :
               /\ e.id = entries[c].id /\ e.hits = entries[c].hits + 1
               /\ e.stable = (entries[c].stable \/ IsStable(e.hits))
               /\ entries' = [entries EXCEPT ![c] = e]
               /\ last'.speaker = e.id /\ last'.stable = e.stable
  <2>1. \E e \in Entry :
          /\ e.id = entries[c].id /\ e.hits = entries[c].hits + 1
          /\ e.stable = (entries[c].stable \/ IsStable(e.hits))
          /\ entries' = [entries EXCEPT ![c] = e] /\ last'.stable = e.stable
    BY <1>1, <1>2, <1>4, UpdateKeepsResidents
  <2>2. last'.speaker = entries[c].id
    BY <1>4 DEF Update
  <2> QED
    BY <2>1, <2>2
<1> QED
  BY <1>1, <1>3, <1>4, AssignCases

LEMMA CacheNextInv ==
  ASSUME SpeakerCacheAssumption, CacheIInv, [CacheNext]_cacheVars
  PROVE  CacheIInv' /\ JoinsFresh
<1>1. CASE UNCHANGED cacheVars
  BY <1>1 DEF cacheVars, CacheIInv, CacheTypeOK, ResidentsWellFormed, LastIsSound, FoundNobody,
              ChoseWithinMargin, JoinsFresh
<1>2. CASE AssignAny
  BY <1>2, AssignInv DEF AssignAny
<1>3. CASE EvictWeakest
  <2>1. last' = last /\ step' = step
    BY <1>3 DEF EvictWeakest
  <2>2. LastIsSound'
    BY <2>1 DEF CacheIInv, LastIsSound, FoundNobody, ChoseWithinMargin
  <2> QED
    BY <1>3, <2>2, EvictKeepsResidents DEF CacheIInv
<1> QED
  BY <1>1, <1>2, <1>3 DEF CacheNext

(* Residents have different ids below the next one, never more than the cap; *)
(* the current speaker is one of them; and the last choice kept the margin.  *)
THEOREM CacheInvariance == ASSUME SpeakerCacheAssumption PROVE CacheSpec => []CacheIInv
<1>1. CacheInit => CacheIInv
  BY CacheInitInv
<1>2. CacheIInv /\ [CacheNext]_cacheVars => CacheIInv'
  BY CacheNextInv
<1> QED
  BY <1>1, <1>2, PTL DEF CacheSpec

LEMMA SpeakersFollow ==
  ASSUME SpeakerCacheAssumption, CacheIInv
  PROVE  ResidentsWellFormed /\ FollowsHysteresis /\ SplitsOnlyWithinMargin
BY SoundLastFollows DEF CacheIInv, CacheTypeOK

(* ArrivalOrderSpeakerCache::assign: a speaker is kept or left, and a new    *)
(* one made, only as the margin and the threshold say, for any similarities. *)
THEOREM SpeakersFollowAlways ==
  ASSUME SpeakerCacheAssumption
  PROVE  CacheSpec => [](ResidentsWellFormed /\ FollowsHysteresis /\ SplitsOnlyWithinMargin)
BY CacheInvariance, SpeakersFollow, PTL

(* "arrival-order IDs never renumber mid-stream", whatever was evicted.      *)
THEOREM NeverRenumberedAlways ==
  ASSUME SpeakerCacheAssumption PROVE CacheSpec => NeverRenumbered
<1>1. CacheIInv /\ [CacheNext]_cacheVars => JoinsFresh
  BY CacheNextInv
<1> QED
  BY <1>1, CacheInvariance, PTL DEF CacheSpec, NeverRenumbered
=============================================================================
