---------------------------- MODULE SpeakerCache ----------------------------
(***************************************************************************)
(* The arrival-order speaker cache of src/streaming/cache.rs, with the     *)
(* prefer-current hysteresis of src/streaming/stability.rs.                *)
(*                                                                         *)
(* An embedding is the list of its similarities to the resident speakers:  *)
(* centroids only ever show through them, so any list is possible at any   *)
(* step.  The keep score that picks a victim of evict_weakest is a real    *)
(* number of sums of similarities and ages; any resident may be weakest.   *)
(***************************************************************************)
EXTENDS Sequences, FiniteSetsExt

CONSTANTS
  SpeakerCap,      \* the cap asked for
  Threshold,       \* match_threshold
  MinHitsToStable, \* the number asked for
  Margin,          \* prefer_current_margin
  Similarities,    \* the similarities an embedding may have
  MaxSteps,        \* bound: assignments in a behaviour
  NoSpeaker

SpeakerCacheAssumption ==
  /\ SpeakerCap \in Nat /\ MinHitsToStable \in Nat
  /\ Threshold \in Int /\ Margin \in Nat
  /\ Similarities \subseteq Int
  /\ MaxSteps \in Nat /\ NoSpeaker \notin Nat

\* new() clamps both numbers to at least one.
Cap == Max({SpeakerCap, 1})
MinHits == Max({MinHitsToStable, 1})

VARIABLES
  entries,   \* the residents: records of id, hits and stable
  current,   \* current_speaker
  nextId,
  step,      \* assignments so far
  last       \* what the last assignment was given and returned

cacheVars == <<entries, current, nextId, step, last>>

NoResult == [speaker |-> NoSpeaker, stable |-> FALSE, overflow |-> FALSE,
             created |-> FALSE, was |-> NoSpeaker, sims |-> <<>>, ids |-> <<>>]

CacheInit ==
  /\ entries = <<>> /\ current = NoSpeaker /\ nextId = 0 /\ step = 0
  /\ last = NoResult

Ids == [i \in DOMAIN entries |-> entries[i].id]

-----------------------------------------------------------------------------
\* Candidates are records of id and sim.  max_by keeps the last of the maxima.
BestIndex(cands) ==
  CHOOSE i \in DOMAIN cands : \A j \in DOMAIN cands :
    cands[j].sim < cands[i].sim \/ (cands[j].sim = cands[i].sim /\ j <= i)

Best(cands) == cands[BestIndex(cands)]

SimOf(cands, id) == cands[CHOOSE i \in DOMAIN cands : cands[i].id = id].sim

IsCandidate(cands, id) == \E i \in DOMAIN cands : cands[i].id = id

\* prefer_current_speaker, of a non-empty list.
PreferCurrent(cands) ==
  IF IsCandidate(cands, current)
       /\ Best(cands).sim - SimOf(cands, current) <= Margin
    THEN current ELSE Best(cands).id

\* candidates.swap(0, index of the preferred)
Reordered(cands) ==
  LET k == CHOOSE i \in DOMAIN cands : cands[i].id = PreferCurrent(cands) IN
    [cands EXCEPT ![1] = cands[k], ![k] = cands[1]]

\* Mutant: the resident current speaker stays, however much worse it is.
ChosenCurrentFirst(cands) ==
  IF IsCandidate(cands, current)
    THEN [id |-> current, sim |-> SimOf(cands, current)] ELSE Best(cands)

Chosen(cands) ==
  LET pref == PreferCurrent(cands)
      best == Best(Reordered(cands))
      kept == [id |-> pref, sim |-> SimOf(cands, pref)] IN
    IF pref # best.id /\ best.sim - kept.sim <= Margin THEN kept ELSE best

-----------------------------------------------------------------------------
\* Mutant: a similarity at the threshold is no match.
BelowOrAt(sim) == sim <= Threshold

Below(sim) == sim < Threshold

IsFull == Len(entries) >= Cap

\* Mutant: one hit too late.
IsStableLate(hits) == hits > MinHits

IsStable(hits) == hits >= MinHits

\* update_entry: another hit for the resident id.
Update(id, overflow, sims) ==
  LET i == CHOOSE j \in DOMAIN entries : entries[j].id = id
      hits == entries[i].hits + 1
      stable == entries[i].stable \/ IsStable(hits) IN
    /\ entries' = [entries EXCEPT ![i] = [id |-> id, hits |-> hits, stable |-> stable]]
    /\ current' = id
    /\ nextId' = nextId
    /\ last' = [speaker |-> id, stable |-> stable, created |-> FALSE,
                overflow |-> overflow, was |-> current,
                sims |-> sims, ids |-> Ids]

\* Mutant: the id of a new speaker is its place among the residents.
CreateByLength(sims) ==
  /\ entries' = Append(entries, [id |-> Len(entries), hits |-> 1, stable |-> IsStable(1)])
  /\ current' = Len(entries)
  /\ nextId' = nextId + 1
  /\ last' = [speaker |-> Len(entries), stable |-> IsStable(1), created |-> TRUE,
              overflow |-> FALSE, was |-> current,
                sims |-> sims, ids |-> Ids]

\* create_entry: a new speaker, first in arrival order.
Create(sims) ==
  /\ entries' = Append(entries, [id |-> nextId, hits |-> 1, stable |-> IsStable(1)])
  /\ current' = nextId
  /\ nextId' = nextId + 1
  /\ last' = [speaker |-> nextId, stable |-> IsStable(1), created |-> TRUE,
              overflow |-> FALSE, was |-> current,
                sims |-> sims, ids |-> Ids]

\* assign: an embedding with similarity sims[i] to the resident entries[i].
Assign(sims) ==
  LET cands == [i \in DOMAIN entries |-> [id |-> entries[i].id, sim |-> sims[i]]]
      chosen == Chosen(cands) IN
    /\ step' = step + 1
    /\ IF entries # <<>> /\ (~Below(chosen.sim) \/ IsFull)
         THEN Update(chosen.id, Below(chosen.sim) /\ IsFull, sims)
         ELSE Create(sims)

\* Mutant: the evicted speaker stays the current one.
EvictWeakestKeepsCurrent ==
  /\ IsFull
  /\ \E i \in DOMAIN entries :
       entries' = SubSeq([entries EXCEPT ![i] = entries[Len(entries)]], 1, Len(entries) - 1)
  /\ UNCHANGED <<current, nextId, step, last>>

\* evict_weakest: swap_remove puts the last resident in the victim's place.
EvictWeakest ==
  /\ IsFull
  /\ \E i \in DOMAIN entries :
       /\ entries' = SubSeq([entries EXCEPT ![i] = entries[Len(entries)]],
                            1, Len(entries) - 1)
       /\ current' = IF current = entries[i].id THEN NoSpeaker ELSE current
  /\ UNCHANGED <<nextId, step, last>>

AnyEmbedding == [DOMAIN entries -> Similarities]

AssignAny == step < MaxSteps /\ \E sims \in AnyEmbedding : Assign(sims)

CacheNext == AssignAny \/ EvictWeakest

CacheSpec == CacheInit /\ [][CacheNext]_cacheVars

-----------------------------------------------------------------------------
Entry == [id : Nat, hits : Nat, stable : BOOLEAN]

CacheTypeOK ==
  /\ entries \in Seq(Entry)
  /\ current \in Nat \cup {NoSpeaker}
  /\ nextId \in Nat /\ step \in Nat

(* The cache never outgrows its cap, two residents never share an id, the    *)
(* next id is fresh, and the current speaker is always a resident, so that   *)
(* the hysteresis never holds on to a speaker that was evicted.              *)
ResidentsWellFormed ==
  /\ Len(entries) <= Cap
  /\ \A i, j \in DOMAIN entries : entries[i].id = entries[j].id => i = j
  /\ \A i \in DOMAIN entries : entries[i].id < nextId
  /\ current # NoSpeaker => \E i \in DOMAIN entries : entries[i].id = current

(* "arrival-order IDs never renumber mid-stream": an id that joins was never *)
(* given out before, whatever was evicted since.                             *)
JoinsFresh ==
  \A i \in DOMAIN entries' :
    (\A j \in DOMAIN entries : entries[j].id # entries'[i].id) => entries'[i].id = nextId
NeverRenumbered == [][JoinsFresh]_cacheVars

Was(id) == \E i \in DOMAIN last.ids : last.ids[i] = id
SimWas(id) == last.sims[CHOOSE i \in DOMAIN last.ids : last.ids[i] = id]
BehindBest(id) == \E i \in DOMAIN last.sims : last.sims[i] > SimWas(id) + Margin
IsBest(id) == \A i \in DOMAIN last.sims : last.sims[i] <= SimWas(id)

(* What the reordering and the second comparison of assign come to: a known  *)
(* speaker is chosen only within the margin of the best similarity, and one  *)
(* other than the resident current speaker only when it is the best and      *)
(* beats the current one by more than the margin, so close calls never       *)
(* flicker.                                                                  *)
FollowsHysteresis ==
  step > 0 /\ ~last.created =>
    /\ ~BehindBest(last.speaker)
    /\ last.speaker # last.was /\ Was(last.was) =>
         IsBest(last.speaker) /\ BehindBest(last.was)

(* A new speaker is made, or an embedding forced into a full cache, only for *)
(* an embedding that the resident current speaker does not match, and that   *)
(* matches no other resident either unless the hysteresis let the current    *)
(* speaker hide it: one voice becomes two speakers only within the margin.   *)
SplitsOnlyWithinMargin ==
  last.created \/ last.overflow =>
    /\ Was(last.was) => SimWas(last.was) < Threshold
    /\ \A i \in DOMAIN last.sims :
         last.sims[i] >= Threshold =>
           Was(last.was) /\ last.sims[i] <= SimWas(last.was) + Margin
-----------------------------------------------------------------------------
(* What an assignment keeps, and makes the properties above follow.         *)

\* The last embedding chose resident c among the residents of that time.
ChoseWithinMargin(c) ==
  /\ DOMAIN last.sims = DOMAIN last.ids /\ c \in DOMAIN last.ids
  /\ \A i \in DOMAIN last.ids : last.sims[i] \in Int
  /\ \A i, j \in DOMAIN last.ids : last.ids[i] = last.ids[j] => i = j
  /\ \A j \in DOMAIN last.ids : last.sims[j] <= last.sims[c] + Margin
  /\ last.ids[c] # last.was =>
       /\ \A j \in DOMAIN last.ids : last.sims[j] <= last.sims[c]
       /\ \A j \in DOMAIN last.ids : last.ids[j] = last.was => last.sims[c] > last.sims[j] + Margin
  /\ ~last.created => last.speaker = last.ids[c]
  /\ last.created \/ last.overflow => last.sims[c] < Threshold

\* Or found nobody to choose from.
FoundNobody ==
  /\ DOMAIN last.sims = {} /\ DOMAIN last.ids = {}
  /\ last.created \/ step = 0

LastIsSound == FoundNobody \/ \E c \in DOMAIN last.ids : ChoseWithinMargin(c)

CacheIInv == CacheTypeOK /\ ResidentsWellFormed /\ LastIsSound
=============================================================================
