--------------------------- MODULE RegistryProofs ---------------------------
(***************************************************************************)
(* Proofs about the pipeline, for any number of adapters, priorities, ids  *)
(* and records:                                                            *)
(*   EverySensorIsListed  no sensor is lost or listed twice,               *)
(*   ListedIdsDistinct    ids are distinct if none looks like a suffixed   *)
(*                        one,                                             *)
(*   OwnersHaveSensors    a read goes to an adapter that has the sensor,   *)
(*   AcceptedIsServable   what validation accepts can be read and          *)
(*                        configured as the schema says;                   *)
(* and about Registry, for any callers, adapters, results and clock:       *)
(*   RegistryTypes        the type invariant,                              *)
(*   ShutdownOnce         a shutdown() that returned has torn every        *)
(*                        adapter down, and none is torn down twice,       *)
(*   ReadingsInOrder      the readings of a sensor are numbered without    *)
(*                        repetition or gap, and never go back in time,    *)
(*   ListedIsRoutable     what was listed can be read.                     *)
(* The second half uses of the first that the last record of an id, its    *)
(* first loaded adapter and the owner of a record exist; it does not use   *)
(* the assumptions about the inputs.                                       *)
(***************************************************************************)
EXTENDS Registry, PipelineInputs, FiniteSetTheorems, SequenceTheorems,
        WellFoundedInduction, TLAPS

AnyOwner == Adapters \cup {NoOwner}

(* Whatever the adapters return.                                           *)
Collections == [Adapters -> Seq(SensorRecord)]

-----------------------------------------------------------------------------
(* Induction, for want of a theorem of induction that the provers can use: *)
(* there is a least number of which something holds.                       *)
LEMMA HasLeast == ASSUME NEW S \in SUBSET Nat, S # {} PROVE \E x \in S : \A y \in S : x =< y
<1> DEFINE R == OpToRel(<, Nat)
<1>1. IsWellFoundedOn(R, Nat)
  BY NatLessThanWellFounded
<1> HIDE DEF R
<1>2. PICK x \in S : \A y \in Nat : <<y, x>> \in R => y \notin S
  BY <1>1, WFMin
<1>3. \A y \in Nat : y < x => <<y, x>> \in R
  BY <1>2 DEF R, OpToRel
<1>4. \A y \in Nat : y < x => y \notin S
  BY <1>2, <1>3
<1>5. \A y \in S : x =< y
  BY <1>4
<1> QED
  BY <1>5

(* And a greatest one below a bound.                                       *)
LEMMA HasGreatest ==
  ASSUME NEW n \in Nat, NEW S \in SUBSET (1..n), S # {}
  PROVE  \E x \in S : \A y \in S : y =< x
<1> DEFINE T == {n - y : y \in S}
<1>1. T \in SUBSET Nat /\ T # {}
  <2>1. \A y \in S : n - y \in Nat
    OBVIOUS
  <2> QED
    BY <2>1
<1>2. PICK d \in T : \A t \in T : d =< t
  BY <1>1, HasLeast
<1>3. PICK x \in S : d = n - x
  BY <1>2
<1>4. \A y \in S : n - x =< n - y
  BY <1>2, <1>3
<1> QED
  BY <1>4

-----------------------------------------------------------------------------
(* The order of collection, and the suffixes that follow from it.          *)
LEMMA EntryIs ==
  ASSUME NEW raw \in Collections, NEW e \in Entry(raw)
  PROVE  /\ e = [adapter |-> e.adapter, pos |-> e.pos]
         /\ e.adapter \in Adapters /\ e.adapter \in Nat
         /\ raw[e.adapter] \in Seq(SensorRecord)
         /\ e.pos \in 1..Len(raw[e.adapter]) /\ e.pos \in Nat
         /\ Record(raw, e) \in SensorRecord
<1>1. PICK a \in Adapters : \E i \in DOMAIN raw[a] : e = [adapter |-> a, pos |-> i]
  BY DEF Entry
<1>2. PICK i \in DOMAIN raw[a] : e = [adapter |-> a, pos |-> i]
  BY <1>1
<1>3. raw[a] \in Seq(SensorRecord)
  BY <1>1 DEF Collections
<1>4. i \in 1..Len(raw[a]) /\ raw[a][i] \in SensorRecord
  BY <1>2, <1>3
<1>5. a \in Nat /\ i \in Nat
  BY <1>1, <1>3, <1>4, PriorityAssumption DEF Adapters
<1> QED
  BY <1>1, <1>2, <1>3, <1>4, <1>5 DEF Record

(* A round returns finitely many records.                                  *)
LEMMA EntriesFinite == ASSUME NEW raw \in Collections PROVE IsFiniteSet(Entry(raw))
<1> DEFINE Of(a) == {[adapter |-> a, pos |-> i] : i \in DOMAIN raw[a]}
           parts == {Of(a) : a \in Adapters}
<1>1. \A a \in Adapters : IsFiniteSet(Of(a))
  <2> TAKE a \in Adapters
  <2> DEFINE f == [i \in DOMAIN raw[a] |-> [adapter |-> a, pos |-> i]]
  <2>1. f \in Surjection(DOMAIN raw[a], Of(a))
    BY DEF Surjection
  <2>2. raw[a] \in Seq(SensorRecord)
    BY DEF Collections
  <2>3. IsFiniteSet(DOMAIN raw[a])
    BY <2>2, FS_Interval
  <2> HIDE DEF f, Of
  <2> QED
    BY <2>1, <2>3, FS_Surjection
<1>2. IsFiniteSet(parts)
  <2> DEFINE f == [a \in Adapters |-> Of(a)]
  <2>1. f \in Surjection(Adapters, parts)
    BY DEF Surjection
  <2>2. IsFiniteSet(Adapters)
    BY FS_Interval, PriorityAssumption DEF Adapters
  <2> HIDE DEF f, parts
  <2> QED
    BY <2>1, <2>2, FS_Surjection
<1>3. \A part \in parts : IsFiniteSet(part)
  BY <1>1
<1>4. Entry(raw) = UNION parts
  BY DEF Entry
<1> HIDE DEF parts
<1> QED
  BY <1>2, <1>3, <1>4, FS_UNION

(* Records are collected one after the other. *)
LEMMA CollectedInOrder ==
  ASSUME NEW raw \in Collections
  PROVE  /\ \A e \in Entry(raw) : ~Before(e, e)
         /\ \A e, f \in Entry(raw) : e # f => Before(e, f) \/ Before(f, e)
         /\ \A e, f, g \in Entry(raw) : Before(e, f) /\ Before(f, g) => Before(e, g)
<1>1. \A e \in Entry(raw) : ~Before(e, e)
  BY EntryIs DEF Before
<1>2. \A e, f \in Entry(raw) : e # f => Before(e, f) \/ Before(f, e)
  <2> TAKE e, f \in Entry(raw)
  <2>1. /\ e = [adapter |-> e.adapter, pos |-> e.pos] /\ e.adapter \in Nat /\ e.pos \in Nat
        /\ f = [adapter |-> f.adapter, pos |-> f.pos] /\ f.adapter \in Nat /\ f.pos \in Nat
    BY EntryIs
  <2> QED
    BY <2>1 DEF Before
<1>3. \A e, f, g \in Entry(raw) : Before(e, f) /\ Before(f, g) => Before(e, g)
  <2> TAKE e, f, g \in Entry(raw)
  <2>1. /\ e.adapter \in Nat /\ e.pos \in Nat /\ f.adapter \in Nat /\ f.pos \in Nat
        /\ g.adapter \in Nat /\ g.pos \in Nat
    BY EntryIs
  <2> QED
    BY <2>1 DEF Before
<1> QED
  BY <1>1, <1>2, <1>3

(* The steps of run_pipeline only leave records out.                       *)
LEMMA CandidatesAreEntries ==
  ASSUME NEW raw
  PROVE  /\ Candidates(raw) \subseteq Validated(raw)
         /\ Validated(raw) \subseteq Entry(raw)
         /\ \A id : Group(raw, id) \subseteq Validated(raw)
         /\ \A id : Representatives(raw, id) \subseteq Group(raw, id)
BY DEF Candidates, Validated, Group, Representatives

(* Of sensors with one id, each has a count of its own, and none is beyond *)
(* the number of records.                                                  *)
LEMMA OccurrenceCounts ==
  ASSUME NEW raw \in Collections
  PROVE  /\ \A e \in Candidates(raw) : Occurrence(raw, e) \in 0..Cardinality(Entry(raw))
         /\ \A e \in Candidates(raw) :
              Occurrence(raw, e) > 0 <=>
                \E f \in Candidates(raw) : Record(raw, f).id = Record(raw, e).id /\ Before(f, e)
         /\ \A e, f \in Candidates(raw) :
              Record(raw, e).id = Record(raw, f).id /\ e # f
                => Occurrence(raw, e) # Occurrence(raw, f)
<1> DEFINE Earlier(e) == {f \in Candidates(raw) : Record(raw, f).id = Record(raw, e).id
                                                   /\ Before(f, e)}
<1>1. \A e \in Candidates(raw) :
        /\ IsFiniteSet(Earlier(e))
        /\ Cardinality(Earlier(e)) \in Nat
        /\ Cardinality(Earlier(e)) <= Cardinality(Entry(raw))
        /\ Cardinality(Earlier(e)) = 0 <=> Earlier(e) = {}
  <2> TAKE e \in Candidates(raw)
  <2>1. Earlier(e) \in SUBSET Entry(raw) /\ IsFiniteSet(Entry(raw))
    BY CandidatesAreEntries, EntriesFinite
  <2> HIDE DEF Earlier
  <2> QED
    BY <2>1, FS_Subset, FS_CardinalityType, FS_EmptySet
<1>2. \A e \in Candidates(raw) : Occurrence(raw, e) = Cardinality(Earlier(e))
  BY DEF Occurrence
<1>3. Cardinality(Entry(raw)) \in Nat
  BY EntriesFinite, FS_CardinalityType
<1>4. \A e, f \in Candidates(raw) :
        Record(raw, e).id = Record(raw, f).id /\ Before(e, f)
          => Cardinality(Earlier(e)) # Cardinality(Earlier(f))
  <2> SUFFICES ASSUME NEW e \in Candidates(raw), NEW f \in Candidates(raw),
                      Record(raw, e).id = Record(raw, f).id, Before(e, f)
               PROVE  Cardinality(Earlier(e)) # Cardinality(Earlier(f))
    OBVIOUS
  <2>1. Earlier(e) \in SUBSET Earlier(f)
    BY CollectedInOrder, CandidatesAreEntries
  <2>2. e \in Earlier(f) /\ e \notin Earlier(e)
    BY CollectedInOrder, CandidatesAreEntries
  <2>3. IsFiniteSet(Earlier(f))
    BY <1>1
  <2> HIDE DEF Earlier
  <2> QED
    BY <2>1, <2>2, <2>3, FS_Subset
<1>5. ASSUME NEW e \in Candidates(raw)
      PROVE  Occurrence(raw, e) > 0 <=>
               \E f \in Candidates(raw) : Record(raw, f).id = Record(raw, e).id /\ Before(f, e)
  <2>1. (\E f \in Candidates(raw) : Record(raw, f).id = Record(raw, e).id /\ Before(f, e))
          <=> Earlier(e) # {}
    OBVIOUS
  <2> HIDE DEF Earlier
  <2> QED
    BY <1>1, <1>2, <2>1
<1>6. ASSUME NEW e \in Candidates(raw), NEW f \in Candidates(raw),
             Record(raw, e).id = Record(raw, f).id, e # f
      PROVE  Occurrence(raw, e) # Occurrence(raw, f)
  <2>1. Before(e, f) \/ Before(f, e)
    BY <1>6, CollectedInOrder, CandidatesAreEntries
  <2>2. Cardinality(Earlier(e)) # Cardinality(Earlier(f))
    BY <1>4, <1>6, <2>1
  <2> HIDE DEF Earlier
  <2> QED
    BY <1>2, <2>2
<1> HIDE DEF Earlier
<1>7. ASSUME NEW e \in Candidates(raw)
      PROVE  Occurrence(raw, e) \in 0..Cardinality(Entry(raw))
  BY <1>1, <1>2, <1>3
<1> QED
  BY <1>5, <1>6, <1>7

(* The records of a group are valid, have its id and come from adapters.   *)
LEMMA GroupIs ==
  ASSUME NEW raw \in Collections, NEW id, NEW e \in Group(raw, id)
  PROVE  /\ e \in Entry(raw) /\ e \in Validated(raw)
         /\ Record(raw, e).id = id
         /\ e.adapter \in AdaptersSeen(raw, id)
         /\ AdaptersSeen(raw, id) \subseteq Adapters
BY EntryIs, CandidatesAreEntries DEF Group, AdaptersSeen

(* The first record of each adapter stands for it.                         *)
LEMMA OneRepresentative ==
  ASSUME NEW raw \in Collections, NEW id, NEW a \in AdaptersSeen(raw, id)
  PROVE  \E r \in Representatives(raw, id) :
           /\ r.adapter = a
           /\ \A e \in Group(raw, id) : e.adapter = a => e = r \/ r.pos < e.pos
           /\ \A e \in Representatives(raw, id) : e.adapter = a => e = r
<1> DEFINE own == {e \in Group(raw, id) : e.adapter = a}
           positions == {e.pos : e \in own}
<1>1. \A e \in own : e \in Entry(raw) /\ e.pos \in Nat /\ e = [adapter |-> a, pos |-> e.pos]
  BY GroupIs, EntryIs
<1>2. positions \in SUBSET Nat /\ positions # {}
  BY <1>1 DEF AdaptersSeen
<1>3. PICK p \in positions : \A q \in positions : p =< q
  <2> HIDE DEF positions
  <2> QED BY <1>2, HasLeast
<1>4. PICK r \in own : r.pos = p
  BY <1>3
<1>5. \A e \in own : r.pos <= e.pos
  BY <1>3, <1>4
<1>6. r \in Representatives(raw, id)
  BY <1>5, <1>4 DEF Representatives
<1>7. \A e \in own : e = r \/ r.pos < e.pos
  <2> TAKE e \in own
  <2>1. /\ e.pos \in Nat /\ e = [adapter |-> a, pos |-> e.pos]
        /\ r.pos \in Nat /\ r = [adapter |-> a, pos |-> r.pos]
    BY <1>1
  <2> QED BY <1>5, <2>1
<1>8. \A e \in Representatives(raw, id) : e.adapter = a => e = r
  <2> SUFFICES ASSUME NEW e \in Representatives(raw, id), e.adapter = a PROVE e = r
    OBVIOUS
  <2>1. e \in own /\ e.pos <= r.pos
    BY <1>4 DEF Representatives
  <2>2. e.pos \in Nat /\ r.pos \in Nat
    BY <2>1, <1>1
  <2> QED BY <2>1, <2>2, <1>7
<1> QED BY <1>4, <1>6, <1>7, <1>8

(* Priority, then load order, leave one of the representatives.            *)
LEMMA WinnerIs ==
  ASSUME NEW raw \in Collections, NEW id, Group(raw, id) # {}
  PROVE  Winner(raw, id) \in Representatives(raw, id)
<1> DEFINE competing == Representatives(raw, id)
           Beats(e, f) == \/ Priority[e.adapter] > Priority[f.adapter]
                          \/ Priority[e.adapter] = Priority[f.adapter] /\ e.adapter < f.adapter
           Beating(f) == {e \in competing : Beats(e, f)}
<1>1. competing # {}
  <2>1. PICK e \in Group(raw, id) : TRUE
    OBVIOUS
  <2> QED BY <2>1, GroupIs, OneRepresentative
<1>2. \A e \in competing : e \in Entry(raw) /\ e.adapter \in Nat /\ Priority[e.adapter] \in Nat
  BY CandidatesAreEntries, EntryIs, PriorityAssumption
<1>3. \A e, f \in competing : e # f => e.adapter # f.adapter
  <2> TAKE e, f \in competing
  <2>1. e \in Group(raw, id)
    BY CandidatesAreEntries
  <2> QED BY <2>1, GroupIs, OneRepresentative
<1>4. \A f \in competing : IsFiniteSet(Beating(f)) /\ Cardinality(Beating(f)) \in Nat
  <2> TAKE f \in competing
  <2>1. Beating(f) \in SUBSET Entry(raw)
    BY <1>2
  <2> HIDE DEF Beating
  <2> QED BY <2>1, EntriesFinite, FS_Subset, FS_CardinalityType
<1> DEFINE counts == {Cardinality(Beating(f)) : f \in competing}
<1>5. counts \in SUBSET Nat /\ counts # {}
  BY <1>1, <1>4
<1>6. PICK n \in counts : \A m \in counts : n =< m
  <2> HIDE DEF counts
  <2> QED BY <1>5, HasLeast
<1>7. PICK w \in competing : Cardinality(Beating(w)) = n
  BY <1>6
<1>8. \A f \in competing : ~Beats(f, w)
  <2> SUFFICES ASSUME NEW f \in competing, Beats(f, w) PROVE FALSE
    OBVIOUS
  <2>1. Beating(f) \in SUBSET Beating(w)
    <3> SUFFICES ASSUME NEW e \in competing, Beats(e, f) PROVE Beats(e, w)
      OBVIOUS
    <3> QED BY <1>2
  <2>2. f \in Beating(w) /\ f \notin Beating(f)
    BY <1>2
  <2>3. IsFiniteSet(Beating(w)) /\ Cardinality(Beating(f)) \in Nat /\ Cardinality(Beating(w)) \in Nat
    BY <1>4
  <2>4. Cardinality(Beating(w)) <= Cardinality(Beating(f))
    BY <1>6, <1>7
  <2> HIDE DEF Beating
  <2> QED BY <2>1, <2>2, <2>3, <2>4, FS_Subset
<1>9. \A f \in competing \ {w} : Beats(w, f)
  <2> TAKE f \in competing \ {w}
  <2>1. f \in competing /\ ~Beats(f, w) /\ f.adapter # w.adapter
    BY <1>3, <1>8
  <2> QED BY <1>2, <2>1
<1>10. \E e \in competing : \A f \in competing \ {e} :
        \/ Priority[e.adapter] > Priority[f.adapter]
        \/ Priority[e.adapter] = Priority[f.adapter] /\ e.adapter < f.adapter
  BY <1>9
<1> HIDE DEF competing
<1> QED BY <1>10 DEF Winner, competing

(* Without a conflict every record of an id gets a place of its own.       *)
LEMMA CandidatesWhenAlone ==
  ASSUME NEW raw \in Collections, NEW id, ~Conflict(raw, id)
  PROVE  /\ {e \in Candidates(raw) : Record(raw, e).id = id} = Group(raw, id)
         /\ \A e \in Group(raw, id) : ~Merged(raw, e)
<1>1. \A e \in Group(raw, id) : e \in Candidates(raw)
  BY GroupIs DEF Candidates
<1>2. \A e \in Candidates(raw) : Record(raw, e).id = id => e \in Group(raw, id)
  BY CandidatesAreEntries DEF Group
<1>3. \A e \in Group(raw, id) : Record(raw, e).id = id
  BY GroupIs
<1> QED BY <1>1, <1>2, <1>3 DEF Merged

(* In a conflict the winner stands for all representatives.                *)
LEMMA CandidatesInConflict ==
  ASSUME NEW raw \in Collections, NEW id, Conflict(raw, id), Group(raw, id) # {}
  PROVE  /\ {e \in Candidates(raw) : Record(raw, e).id = id}
              = (Group(raw, id) \ Representatives(raw, id)) \cup {Winner(raw, id)}
         /\ \A e \in Group(raw, id) : Merged(raw, e) <=> e = Winner(raw, id)
<1>0. Winner(raw, id) \in Representatives(raw, id) /\ Winner(raw, id) \in Group(raw, id)
  BY WinnerIs, CandidatesAreEntries
<1>1. \A e \in Group(raw, id) :
        e \notin Representatives(raw, id) \/ e = Winner(raw, id) => e \in Candidates(raw)
  BY GroupIs DEF Candidates
<1>2. \A e \in Candidates(raw) : Record(raw, e).id = id => e \in Group(raw, id)
  BY CandidatesAreEntries DEF Group
<1>3. \A e \in Candidates(raw) : Record(raw, e).id = id =>
        e \notin Representatives(raw, id) \/ e = Winner(raw, id)
  BY DEF Candidates
<1>4. \A e \in Group(raw, id) : Record(raw, e).id = id
  BY GroupIs
<1>5. \A e \in Group(raw, id) : Merged(raw, e) <=> e = Winner(raw, id)
  BY <1>4 DEF Merged
<1> HIDE DEF Conflict
<1> QED BY <1>0, <1>1, <1>2, <1>3, <1>4, <1>5

(* Records of two adapters under one id are a conflict.                    *)
LEMMA TwoAdaptersConflict ==
  ASSUME NEW raw \in Collections, NEW id,
         NEW e \in Group(raw, id), NEW f \in Group(raw, id), e.adapter # f.adapter
  PROVE  Conflict(raw, id)
<1> DEFINE pair == {e.adapter} \cup {f.adapter}
<1>1. pair \in SUBSET AdaptersSeen(raw, id) /\ AdaptersSeen(raw, id) \in SUBSET Adapters
  BY GroupIs
<1>2. IsFiniteSet(Adapters)
  BY FS_Interval, PriorityAssumption DEF Adapters
<1>3. Cardinality(pair) = 2
  <2>1. PICK one : one = {e.adapter}
    OBVIOUS
  <2>2. IsFiniteSet(one) /\ Cardinality(one) = 1 /\ f.adapter \notin one
    BY <2>1, FS_Singleton
  <2>3. PICK b : b = f.adapter
    OBVIOUS
  <2>4. Cardinality(one \cup {b}) = Cardinality(one) + 1
    BY <2>2, <2>3, FS_AddElement
  <2> QED BY <2>1, <2>2, <2>3, <2>4
<1> HIDE DEF pair
<1>4. /\ IsFiniteSet(AdaptersSeen(raw, id))
      /\ Cardinality(AdaptersSeen(raw, id)) \in Nat
      /\ Cardinality(pair) <= Cardinality(AdaptersSeen(raw, id))
  BY <1>1, <1>2, FS_Subset, FS_CardinalityType
<1> QED BY <1>3, <1>4 DEF Conflict

(* Under an id, every adapter's sensors are there: in a conflict the       *)
(* merged record is in the place of the adapter's first.                   *)
LEMMA AsManyAsReturned ==
  ASSUME raw_results \in Collections, NEW id, NEW a \in Adapters
  PROVE  LET listed == {e \in Candidates(raw_results) : Record(raw_results, e).id = id}
         IN  Cardinality({e \in listed : Describes(e, a)})
               = Cardinality({e \in Group(raw_results, id) : e.adapter = a})
<1> DEFINE raw == raw_results
           listed == {e \in Candidates(raw) : Record(raw, e).id = id}
           group == Group(raw, id)
           w == Winner(raw, id)
           described == {e \in listed : Describes(e, a)}
           own == {e \in group : e.adapter = a}
           others == own \ Representatives(raw, id)
<1>1. CASE ~Conflict(raw, id)
  <2>1. listed = group /\ \A e \in group : ~Merged(raw, e)
    BY <1>1, CandidatesWhenAlone
  <2>2. \A e \in group : Describes(e, a) <=> e.adapter = a
    BY <2>1 DEF Describes
  <2>3. described = own
    BY <2>1, <2>2
  <2> QED BY <2>3
<1>2. CASE Conflict(raw, id)
  <2>1. CASE group = {}
    <3>1. listed = {}
      BY <2>1, CandidatesAreEntries DEF Group
    <3> QED BY <2>1, <3>1
  <2>2. CASE group # {}
    <3>1. /\ listed = (group \ Representatives(raw, id)) \cup {w}
          /\ \A e \in group : Merged(raw, e) <=> e = w
          /\ w \in Representatives(raw, id) /\ w \in group
      BY <1>2, <2>2, CandidatesInConflict, WinnerIs, CandidatesAreEntries
    <3>2. \A e \in group : Record(raw, e).id = id
      BY GroupIs
    <3>3. \A e \in group :
            Describes(e, a) <=> e.adapter = a \/ (e = w /\ a \in AdaptersSeen(raw, id))
      BY <3>1, <3>2 DEF Describes
    <3>4. CASE a \notin AdaptersSeen(raw, id)
      <4>1. own = {}
        BY <3>4, GroupIs
      <4>2. \A e \in group : ~Describes(e, a)
        BY <3>3, <3>4, <4>1
      <4>3. described = {}
        BY <4>2, <3>1
      <4> QED BY <4>1, <4>3
    <3>5. CASE a \in AdaptersSeen(raw, id)
      <4>1. PICK r \in Representatives(raw, id) :
              r.adapter = a /\ \A e \in Representatives(raw, id) : e.adapter = a => e = r
        BY <3>5, OneRepresentative
      <4>2. r \in group
        BY CandidatesAreEntries
      <4>3. own = others \cup {r} /\ r \notin others
        BY <4>1, <4>2
      <4>4. described = others \cup {w} /\ w \notin others
        <5>1. \A e \in listed : Describes(e, a) <=> e \in others \cup {w}
          BY <3>1, <3>3, <3>5
        <5>2. \A e \in others \cup {w} : e \in listed
          BY <3>1
        <5> QED BY <5>1, <5>2, <3>1
      <4>5. IsFiniteSet(others)
        <5>1. others \in SUBSET Entry(raw)
          BY CandidatesAreEntries
        <5> HIDE DEF others, raw
        <5> QED BY <5>1, EntriesFinite, FS_Subset DEF raw
      <4> HIDE DEF others, own, described
      <4>6. Cardinality(own) = Cardinality(others) + 1
        BY <4>3, <4>5, FS_AddElement
      <4>7. Cardinality(described) = Cardinality(others) + 1
        BY <4>4, <4>5, FS_AddElement
      <4> QED BY <4>6, <4>7 DEF described, own
    <3> QED BY <3>4, <3>5
  <2> QED BY <2>1, <2>2
<1> QED BY <1>1, <1>2

(* A suffix is asked of a malformed id only if one adapter repeats it:     *)
(* what several adapters share is one sensor, which keeps the bare id.     *)
LEMMA RaisesIs ==
  ASSUME NEW raw \in Collections
  PROVE  Raises(raw) <=>
           \E id \in Malformed : \E e, f \in Group(raw, id) : e.adapter = f.adapter /\ e # f
<1> DEFINE Repeated == \E id \in Malformed : \E e, f \in Group(raw, id) : e.adapter = f.adapter /\ e # f
<1>1. ASSUME Raises(raw) PROVE Repeated
  <2>1. PICK e \in Candidates(raw) : Record(raw, e).id \in Malformed /\ Occurrence(raw, e) > 0
    BY <1>1 DEF Raises
  <2> DEFINE id == Record(raw, e).id
  <2>2. PICK f \in Candidates(raw) : Record(raw, f).id = id /\ Before(f, e)
    BY <2>1, OccurrenceCounts
  <2>3. e \in Group(raw, id) /\ f \in Group(raw, id) /\ e # f
    BY <2>2, CandidatesAreEntries, CollectedInOrder DEF Group
  <2>4. CASE e.adapter = f.adapter
    BY <2>1, <2>3, <2>4
  <2>5. CASE e.adapter # f.adapter
    <3>1. Conflict(raw, id)
      BY <2>3, <2>5, TwoAdaptersConflict
    <3>2. \A g \in {e, f} : g \notin Representatives(raw, id) \/ g = Winner(raw, id)
      BY <2>2, <3>1 DEF Candidates
    <3>3. PICK g \in {e, f} : g \notin Representatives(raw, id)
      BY <3>2, <2>3
    <3>4. g \in Group(raw, id)
      BY <2>3
    <3>5. PICK r \in Representatives(raw, id) : r.adapter = g.adapter
      BY <3>4, GroupIs, OneRepresentative
    <3>6. r \in Group(raw, id) /\ r # g
      BY <3>3, <3>5, CandidatesAreEntries
    <3> QED BY <2>1, <3>4, <3>5, <3>6
  <2> QED BY <2>4, <2>5
<1>2. ASSUME Repeated PROVE Raises(raw)
  <2>1. PICK id \in Malformed : \E e, f \in Group(raw, id) : e.adapter = f.adapter /\ e # f
    BY <1>2
  <2>2. PICK e \in Group(raw, id), f \in Group(raw, id) : e.adapter = f.adapter /\ e # f
    BY <2>1
  <2>3. Record(raw, e).id = id /\ Record(raw, f).id = id /\ e \in Entry(raw) /\ f \in Entry(raw)
    BY GroupIs
  <2>4. \E g, h \in Candidates(raw) : Record(raw, g).id = id /\ Record(raw, h).id = id /\ g # h
    <3>1. CASE ~Conflict(raw, id)
      <4>1. e \in Candidates(raw) /\ f \in Candidates(raw)
        BY <3>1, CandidatesWhenAlone
      <4> QED BY <4>1, <2>2, <2>3
    <3>2. CASE Conflict(raw, id)
      <4> DEFINE w == Winner(raw, id)
      <4>1. w \in Candidates(raw) /\ Record(raw, w).id = id /\ w \in Representatives(raw, id)
        BY <3>2, CandidatesInConflict, WinnerIs
      <4>2. PICK g \in {e, f} : g \notin Representatives(raw, id)
        BY <2>2, GroupIs, OneRepresentative
      <4>3. g \in Candidates(raw) /\ Record(raw, g).id = id
        BY <4>2, <3>2, CandidatesInConflict, <2>3
      <4> QED BY <4>1, <4>2, <4>3
    <3> QED BY <3>1, <3>2
  <2>5. PICK g \in Candidates(raw), h \in Candidates(raw) :
          Record(raw, g).id = id /\ Record(raw, h).id = id /\ g # h
    BY <2>4
  <2>6. Before(g, h) \/ Before(h, g)
    BY <2>5, CollectedInOrder, CandidatesAreEntries
  <2>7. Occurrence(raw, h) > 0 \/ Occurrence(raw, g) > 0
    BY <2>5, <2>6, OccurrenceCounts
  <2> QED BY <2>1, <2>5, <2>7 DEF Raises
<1> QED BY <1>1, <1>2

(* For whatever the adapters return, no sensor is lost or listed twice.    *)
LEMMA ListedWhenCollected == raw_results \in Collections => EverySensorListed
BY AsManyAsReturned, RaisesIs DEF EverySensorListed

-----------------------------------------------------------------------------
(* u is s and one element more.                                            *)
Extends(u, s, k) ==
  /\ Len(s) \in Nat /\ Len(u) = Len(s) + 1
  /\ \A i \in 1..Len(s) : u[i] = s[i]
  /\ u[Len(s) + 1] = k
  /\ u \in Seq(Nat) /\ Front(u) = s

LEMMA AppendExtends == ASSUME NEW s \in Seq(Nat), NEW k \in Nat PROVE Extends(Append(s, k), s, k)
<1>1. /\ Append(s, k) \in Seq(Nat)
      /\ Len(s) \in Nat /\ Len(Append(s, k)) = Len(s) + 1
      /\ \A i \in 1..Len(s) : Append(s, k)[i] = s[i]
      /\ Append(s, k)[Len(s) + 1] = k
  OBVIOUS
<1>2. SubSeq(Append(s, k), 1, Len(s)) = s
  OBVIOUS
<1> QED BY <1>1, <1>2 DEF Extends, Front

LEMMA SameSequence ==
  ASSUME NEW s \in Seq(Nat), NEW t \in Seq(Nat), Len(s) = Len(t),
         \A i \in 1..Len(s) : s[i] = t[i]
  PROVE  s = t
OBVIOUS

(* What a suffix makes of an id: it, or what is left of it, comes first.   *)
LEMMA SuffixedIs ==
  ASSUME NEW id \in Seq(Nat), NEW k \in Nat
  PROVE  \E s \in Seq(Nat) : /\ Extends(Suffixed(id, k), s, k)
                             /\ s = id \/ ~IsPrefix(id, s)
<1>1. CASE <<id, k>> \in DOMAIN Stem
  <2>1. Stem[<<id, k>>] \in Seq(Nat) /\ ~IsPrefix(<<id, k>>[1], Stem[<<id, k>>])
    BY <1>1, StemAssumption
  <2> QED BY <1>1, <2>1, AppendExtends DEF Suffixed
<1>2. CASE <<id, k>> \notin DOMAIN Stem
  BY <1>2, AppendExtends DEF Suffixed
<1> QED BY <1>1, <1>2

(* Equal suffixed ids have equal suffixes.                                 *)
LEMMA SuffixesDiffer ==
  ASSUME NEW x \in Seq(Nat), NEW y \in Seq(Nat), NEW k \in Nat, NEW l \in Nat,
         Suffixed(x, k) = Suffixed(y, l)
  PROVE  k = l
<1>1. PICK s \in Seq(Nat) : Extends(Suffixed(x, k), s, k)
  BY SuffixedIs
<1>2. PICK t \in Seq(Nat) : Extends(Suffixed(y, l), t, l)
  BY SuffixedIs
<1> QED BY <1>1, <1>2 DEF Extends

(* A sensor is listed under the id it was returned with, or a suffixed     *)
(* form of it with one of the first numbers.                               *)
LEMMA CandidateId ==
  ASSUME NEW raw \in Collections, NEW e \in Candidates(raw)
  PROVE  /\ e \in Entry(raw)
         /\ Record(raw, e).id \in Seq(Nat) \ {<<>>}
         /\ Occurrence(raw, e) \in 0..Cardinality(Entry(raw))
         /\ Cardinality(Entry(raw)) \in Nat
         /\ Occurrence(raw, e) = 0 => ResolvedId(raw, e) = Record(raw, e).id
         /\ Occurrence(raw, e) # 0 =>
              \E k \in 0..Cardinality(Entry(raw)) :
                /\ k = Occurrence(raw, e) - 1
                /\ ResolvedId(raw, e) = Suffixed(Record(raw, e).id, k)
<1>1. e \in Entry(raw)
  BY CandidatesAreEntries
<1>2. Record(raw, e).id \in Seq(Nat) \ {<<>>}
  BY <1>1, EntryIs DEF SensorRecord
<1>3. Occurrence(raw, e) \in 0..Cardinality(Entry(raw)) /\ Cardinality(Entry(raw)) \in Nat
  BY OccurrenceCounts, EntriesFinite, FS_CardinalityType
<1> QED BY <1>1, <1>2, <1>3 DEF ResolvedId

(* For whatever the adapters return, ids are distinct if none looks like a *)
(* suffixed one: two sensors of one id have different counts, and those of *)
(* two ids have no suffixed form in common.                                *)
LEMMA DistinctWhenCollected == raw_results \in Collections => IdsDistinct
<1> DEFINE raw == raw_results
           Id(e) == Record(raw, e).id
<1> SUFFICES ASSUME raw_results \in Collections, NoLookalike,
                    NEW e \in Candidates(raw), NEW f \in Candidates(raw),
                    ResolvedId(raw, e) = ResolvedId(raw, f), e # f
             PROVE  FALSE
  BY DEF IdsDistinct, NoneOverwritten, IsInjective
<1> DEFINE i == Occurrence(raw, e)
           j == Occurrence(raw, f)
           range == 0..Cardinality(Entry(raw))
<1>1. /\ Id(e) \in Seq(Nat) /\ Id(f) \in Seq(Nat)
      /\ Id(e) \in {Record(raw, g).id : g \in Entry(raw)}
      /\ Id(f) \in {Record(raw, g).id : g \in Entry(raw)}
  BY CandidateId
<1>2. \A k \in range :
        /\ Suffixed(Id(e), k) # Id(f) /\ Suffixed(Id(f), k) # Id(e)
        /\ Suffixed(Id(e), k) = Suffixed(Id(f), k) => Id(e) = Id(f)
  BY <1>1 DEF NoLookalike
<1>3. /\ i = 0 => ResolvedId(raw, e) = Id(e)
      /\ i # 0 => \E k \in range : k = i - 1 /\ ResolvedId(raw, e) = Suffixed(Id(e), k)
      /\ j = 0 => ResolvedId(raw, f) = Id(f)
      /\ j # 0 => \E k \in range : k = j - 1 /\ ResolvedId(raw, f) = Suffixed(Id(f), k)
      /\ i \in Nat /\ j \in Nat
  BY CandidateId
<1>4. range \subseteq Nat
  BY CandidateId
<1> HIDE DEF i, j, range
<1>5. CASE i = 0 /\ j = 0
  <2>1. Id(e) = Id(f)
    BY <1>3, <1>5
  <2> QED BY <2>1, <1>5, OccurrenceCounts DEF i, j
<1>6. CASE i = 0 /\ j # 0
  BY <1>2, <1>3, <1>6
<1>7. CASE i # 0 /\ j = 0
  BY <1>2, <1>3, <1>7
<1>8. CASE i # 0 /\ j # 0
  <2>1. PICK k \in range : k = i - 1 /\ ResolvedId(raw, e) = Suffixed(Id(e), k)
    BY <1>3, <1>8
  <2>2. PICK l \in range : l = j - 1 /\ ResolvedId(raw, f) = Suffixed(Id(f), l)
    BY <1>3, <1>8
  <2>3. Suffixed(Id(e), k) = Suffixed(Id(f), l)
    BY <2>1, <2>2
  <2>4. k = l
    BY <2>3, <1>1, <1>4, SuffixesDiffer
  <2>5. Id(e) = Id(f)
    BY <2>3, <2>4, <1>2
  <2>6. i = j
    BY <2>1, <2>2, <2>4, <1>3
  <2> QED BY <2>5, <2>6, OccurrenceCounts DEF i, j
<1> QED BY <1>5, <1>6, <1>7, <1>8

-----------------------------------------------------------------------------
(* An adapter writes its own name into source, or none of an adapter.      *)
OwnNames(raw) ==
  \A a \in Adapters : \A n \in DOMAIN raw[a] : raw[a][n].source \in {{a}, {Qualifier}}

LEMMA QualifierNamesNone == {Qualifier} \cap Adapters = {}
BY PriorityAssumption DEF Qualifier, Adapters

(* FirstLoaded is one of its adapters, unless there are none.              *)
LEMMA FirstLoadedIs ==
  ASSUME NEW as \in SUBSET Adapters
  PROVE  /\ as # {} => FirstLoaded(as) \in as
         /\ FirstLoaded(as) \in AnyOwner
         /\ FirstLoaded(as) = NoOwner <=> as = {}
<1>1. NumAdapters \in Nat
  BY PriorityAssumption
<1>2. \A a \in Adapters : a \in Nat /\ a # 0
  BY <1>1 DEF Adapters
<1>3. as \in SUBSET Nat /\ 0 \notin as
  BY <1>2
<1>4. as # {} => \E x \in as : \A y \in as : x =< y
  BY <1>3, HasLeast
<1> QED
  BY <1>3, <1>4 DEF FirstLoaded, Min, AnyOwner, NoOwner

(* Who returned the id and nothing that looks like it, is found by the id  *)
(* with the suffix or without.                                             *)
LEMMA FallbackFinds ==
  ASSUME raw_results \in Collections, NoLookalike, NEW e \in Candidates(raw_results),
         IsPrefix(Record(raw_results, e).id, ResolvedId(raw_results, e))
  PROVE  Returned(raw_results, {ResolvedId(raw_results, e), Stripped(ResolvedId(raw_results, e))})
           = Returned(raw_results, {Record(raw_results, e).id})
<1> DEFINE raw == raw_results
           id == Record(raw, e).id
           listed == ResolvedId(raw, e)
           ids == {Record(raw, g).id : g \in Entry(raw)}
<1>1. id \in Seq(Nat) /\ id # <<>> /\ id \in ids /\ Len(id) \in Nat \ {0}
  BY CandidateId
<1>2. \A y \in ids : ~IsStrictPrefix(id, y) /\ ~IsStrictPrefix(y, id)
  BY <1>1 DEF NoLookalike
<1>3. \A k \in 0..Cardinality(Entry(raw)) : Suffixed(id, k) # id
  BY <1>1 DEF NoLookalike
<1>4. \A a \in Adapters : \A n \in DOMAIN raw[a] : raw[a][n].id \in ids
  <2> TAKE a \in Adapters
  <2> TAKE n \in DOMAIN raw[a]
  <2>1. [adapter |-> a, pos |-> n] \in Entry(raw)
    BY DEF Entry
  <2>2. Record(raw, [adapter |-> a, pos |-> n]) = raw[a][n]
    BY DEF Record
  <2> QED BY <2>1, <2>2
<1>5. \A y \in ids : y \in Seq(Nat) /\ y # <<>>
  BY EntryIs DEF SensorRecord
<1>6. \A other : other \notin ids => Returned(raw, {id, other}) = Returned(raw, {id})
  BY <1>4 DEF Returned
<1>7. \/ \E other : other \notin ids /\ {listed, Stripped(listed)} = {id, other}
      \/ {listed, Stripped(listed)} = {id}
  <2>1. CASE Occurrence(raw, e) = 0
    <3>1. listed = id
      BY <2>1, CandidateId
    <3>2. CASE Len(id) = 1
      BY <3>1, <3>2 DEF Stripped
    <3>3. CASE Len(id) # 1
      <4>1. Stripped(listed) = Front(id)
        <5> HIDE DEF id, listed
        <5>1. PICK n : n = Len(id)
          OBVIOUS
        <5>2. n > 1
          BY <5>1, <3>3, <1>1
        <5> QED BY <3>1, <5>1, <5>2 DEF Stripped
      <4>2. IsStrictPrefix(Front(id), id)
        <5> HIDE DEF id
        <5> QED BY <1>1 DEF IsStrictPrefix, IsPrefix, Front
      <4>3. Front(id) \notin ids
        BY <4>2, <1>2
      <4> QED BY <4>1, <4>3, <3>1
    <3> QED BY <3>2, <3>3
  <2>2. CASE Occurrence(raw, e) # 0
    <3>1. PICK k \in 0..Cardinality(Entry(raw)) : listed = Suffixed(id, k)
      BY <2>2, CandidateId
    <3>2. k \in Nat
      BY CandidateId
    <3>3. PICK s \in Seq(Nat) : Extends(listed, s, k) /\ (s = id \/ ~IsPrefix(id, s))
      BY <1>1, <3>1, <3>2, SuffixedIs
    <3>4. listed # id /\ IsPrefix(id, listed)
      BY <3>1, <1>3
    <3> HIDE DEF id, listed, ids
    <3>5. s = id
      <4> SUFFICES ASSUME ~IsPrefix(id, s) PROVE FALSE
        BY <3>3
      <4>1. listed \in Seq(Nat) /\ Len(s) \in Nat /\ Len(listed) = Len(s) + 1
        BY <3>3 DEF Extends
      <4>2. Len(id) <= Len(s) + 1 /\ \A i \in 1..Len(id) : id[i] = listed[i]
        <5>1. Len(id) <= Len(listed) /\ SubSeq(id, 1, Len(id)) = SubSeq(listed, 1, Len(id))
          BY <3>4 DEF IsPrefix
        <5>2. \A i \in 1..Len(id) : SubSeq(id, 1, Len(id))[i] = id[i]
                                     /\ SubSeq(listed, 1, Len(id))[i] = listed[i]
          BY <5>1, <4>1, <1>1
        <5> QED BY <5>1, <5>2, <4>1
      <4>3. Len(id) # Len(s) + 1
        BY <4>1, <4>2, <3>4, <1>1, SameSequence
      <4>4. Len(id) <= Len(s) /\ \A i \in 1..Len(id) : id[i] = s[i]
        <5>1. Len(id) \in Nat /\ Len(id) <= Len(s)
          BY <4>1, <4>2, <4>3, <1>1
        <5>2. \A i \in 1..Len(s) : listed[i] = s[i]
          BY <3>3 DEF Extends
        <5> QED BY <4>1, <4>2, <5>1, <5>2
      <4>5. SubSeq(id, 1, Len(id)) = SubSeq(s, 1, Len(id))
        BY <4>4, <1>1
      <4> QED BY <4>4, <4>5 DEF IsPrefix
    <3>6. Stripped(listed) = id
      BY <3>3, <3>5, <1>1 DEF Stripped, Extends
    <3>7. listed \notin ids
      BY <3>4, <1>2 DEF IsStrictPrefix
    <3> QED BY <3>6, <3>7
  <2> QED BY <2>1, <2>2
<1> HIDE DEF id, listed, ids
<1>8. Returned(raw, {listed, Stripped(listed)}) = Returned(raw, {id})
  BY <1>6, <1>7
<1> QED BY <1>8 DEF id, listed

(* The owner that list_sensors finds has the sensor: source names it, or   *)
(* one of the two spellings of the id is in its list and in no other.      *)
LEMMA OwnedWhenCollected == raw_results \in Collections /\ OwnNames(raw_results) => OwnerHasSensor
<1> DEFINE raw == raw_results
<1> SUFFICES ASSUME raw_results \in Collections, OwnNames(raw), NoLookalike,
                    NEW e \in Candidates(raw),
                    IsPrefix(Record(raw, e).id, ResolvedId(raw, e)),
                    \/ Source(raw, e) \cap Adapters # {}
                    \/ Returned(raw, {Record(raw, e).id}) = {e.adapter}
             PROVE  /\ Owner(raw, e) \in AdaptersSeen(raw, Record(raw, e).id)
                    /\ Describes(e, Owner(raw, e))
  BY DEF OwnerHasSensor
<1> DEFINE id == Record(raw, e).id
           named == Source(raw, e) \cap Adapters
<1>1. e \in Group(raw, id) /\ e.adapter \in AdaptersSeen(raw, id) /\ e.adapter \in Adapters
  BY CandidatesAreEntries, EntryIs DEF Group, AdaptersSeen
<1>2. AdaptersSeen(raw, id) \subseteq Adapters
  BY <1>1, GroupIs
<1>3. CASE Merged(raw, e)
  <2>1. named = AdaptersSeen(raw, id)
    BY <1>2, <1>3 DEF Source
  <2>2. Owner(raw, e) \in AdaptersSeen(raw, id)
    BY <1>1, <1>2, <2>1, FirstLoadedIs DEF Owner
  <2> QED BY <1>3, <2>2 DEF Describes
<1>4. CASE ~Merged(raw, e) /\ named # {}
  <2>1. Record(raw, e).source \in {{e.adapter}, {Qualifier}}
    BY CandidatesAreEntries, EntryIs DEF OwnNames, Record
  <2>2. named = {e.adapter}
    BY <1>1, <1>4, <2>1, QualifierNamesNone DEF Source
  <2>3. Owner(raw, e) = e.adapter
    BY <1>1, <2>2, FirstLoadedIs DEF Owner
  <2> QED BY <1>1, <2>3 DEF Describes
<1>5. CASE ~Merged(raw, e) /\ named = {}
  <2>1. Returned(raw, {ResolvedId(raw, e), Stripped(ResolvedId(raw, e))}) = {e.adapter}
    BY <1>5, FallbackFinds
  <2>2. Owner(raw, e) = e.adapter
    <3>1. FirstLoaded({e.adapter}) = e.adapter
      BY <1>1, FirstLoadedIs
    <3> QED BY <1>5, <2>1, <3>1 DEF Owner
  <2> QED BY <1>1, <2>2 DEF Describes
<1> QED BY <1>3, <1>4, <1>5

-----------------------------------------------------------------------------
(* f has what a loop computes from start in its turns, and so has every    *)
(* other function that goes on in the same way from the values it has.     *)
LoopValues(f, n, S, start, turn) ==
  /\ f \in [0..n -> S]
  /\ f[0] = start
  /\ \A k \in 1..n : f[k] = turn[k][f[k - 1]]
  /\ \A g : /\ g[0] = start
            /\ \A k \in 1..n : g[k - 1] \in S => g[k] = turn[k][g[k - 1]]
            => \A k \in 0..n : g[k] = f[k]

(* A loop over a tuple has a value after every turn: the least turn at     *)
(* which it had none would follow one at which it has.                     *)
LEMMA LoopIs ==
  ASSUME NEW n \in Nat, NEW S, NEW start \in S, NEW turn \in [1..n -> [S -> S]]
  PROVE  \E f : LoopValues(f, n, S, start, turn)
<1> DEFINE Runs(f, m) == f[0] = start /\ \A k \in 1..m : f[k] = turn[k][f[k - 1]]
           Reached(m) == \E f \in [0..m -> S] : Runs(f, m)
           failing == {m \in 0..n : ~Reached(m)}
<1>1. Reached(0)
  <2>1. [k \in 0..0 |-> start] \in [0..0 -> S] /\ Runs([k \in 0..0 |-> start], 0)
    OBVIOUS
  <2> QED BY <2>1
<1>2. ASSUME NEW m \in 1..n, Reached(m - 1) PROVE Reached(m)
  <2>1. PICK f \in [0..(m - 1) -> S] : Runs(f, m - 1)
    BY <1>2
  <2>2. PICK d \in S : d = turn[m][f[m - 1]]
    <3>1. f[m - 1] \in S /\ turn[m] \in [S -> S]
      OBVIOUS
    <3> QED BY <3>1
  <2> DEFINE g == [k \in 0..m |-> IF k = m THEN d ELSE f[k]]
  <2>3. g \in [0..m -> S] /\ g[0] = start
    BY <2>1
  <2>4. \A k \in 1..m : g[k] = turn[k][g[k - 1]]
    <3> TAKE k \in 1..m
    <3>1. CASE k = m
      BY <2>2, <3>1
    <3>2. CASE k # m
      <4>1. k \in 1..(m - 1) /\ g[k] = f[k] /\ g[k - 1] = f[k - 1]
        BY <3>2
      <4> QED BY <2>1, <4>1
    <3> QED BY <3>1, <3>2
  <2> HIDE DEF g
  <2> QED BY <2>3, <2>4
<1>3. failing = {}
  <2> SUFFICES ASSUME failing # {} PROVE FALSE
    OBVIOUS
  <2> HIDE DEF Reached
  <2>1. failing \in SUBSET Nat
    OBVIOUS
  <2>2. PICK m \in failing : \A l \in failing : m =< l
    <3> HIDE DEF failing
    <3> QED BY <2>1, HasLeast
  <2>3. m \in 1..n /\ m - 1 \in 0..n /\ m - 1 \notin failing
    BY <1>1, <2>2
  <2> QED BY <1>2, <2>2, <2>3
<1>4. PICK f \in [0..n -> S] : Runs(f, n)
  <2>1. Reached(n)
    <3> HIDE DEF Reached
    <3> QED BY <1>3
  <2> QED BY <2>1
<1>5. ASSUME NEW g, g[0] = start, \A k \in 1..n : g[k - 1] \in S => g[k] = turn[k][g[k - 1]]
      PROVE  \A k \in 0..n : g[k] = f[k]
  <2> DEFINE apart == {k \in 0..n : g[k] # f[k]}
  <2> SUFFICES ASSUME apart # {} PROVE FALSE
    OBVIOUS
  <2>1. PICK m \in apart : \A l \in apart : m =< l
    <3>1. apart \in SUBSET Nat
      OBVIOUS
    <3> HIDE DEF apart
    <3> QED BY <3>1, HasLeast
  <2>2. m \in 1..n /\ g[m - 1] = f[m - 1] /\ f[m - 1] \in S
    BY <1>4, <1>5, <2>1
  <2> QED BY <1>4, <1>5, <2>1, <2>2
<1>6. LoopValues(f, n, S, start, turn)
  <2>1. f \in [0..n -> S] /\ f[0] = start /\ \A k \in 1..n : f[k] = turn[k][f[k - 1]]
    BY <1>4
  <2> QED BY <2>1, <1>5, Zenon DEF LoopValues
<1> QED BY <1>6

(* Product is the last of the partial products.                            *)
LEMMA ProductIs ==
  ASSUME NEW shape \in Seq(Int)
  PROVE  \E p \in [0..Len(shape) -> Int] :
           /\ Product(shape) = p[Len(shape)]
           /\ p[0] = 1
           /\ \A k \in 1..Len(shape) : p[k] = p[k - 1] * shape[k]
<1> DEFINE turn == [k \in 1..Len(shape) |-> [d \in Int |-> d * shape[k]]]
           whole == CHOOSE p : p = [k \in 0..Len(shape) |-> IF k = 0 THEN 1 ELSE p[k - 1] * shape[k]]
<1>1. PICK n \in Nat : n = Len(shape)
  OBVIOUS
<1>2. turn \in [1..n -> [Int -> Int]] /\ \A k \in 1..n : \A d \in Int : turn[k][d] = d * shape[k]
  BY <1>1
<1> HIDE DEF turn
<1>3. PICK p : LoopValues(p, n, Int, 1, turn)
  <2>1. n \in Nat /\ 1 \in Int /\ turn \in [1..n -> [Int -> Int]]
    BY <1>2
  <2> QED BY <2>1, LoopIs, Zenon
<1>4. p \in [0..n -> Int] /\ p[0] = 1 /\ \A k \in 1..n : p[k] = p[k - 1] * shape[k]
  <2>1. p \in [0..n -> Int] /\ p[0] = 1 /\ \A k \in 1..n : p[k] = turn[k][p[k - 1]]
    BY <1>3 DEF LoopValues
  <2>2. \A k \in 1..n : p[k - 1] \in Int
    BY <2>1
  <2> QED BY <1>2, <2>1, <2>2
<1>5. p = [k \in 0..n |-> IF k = 0 THEN 1 ELSE p[k - 1] * shape[k]]
  BY <1>4
<1>6. whole = [k \in 0..n |-> IF k = 0 THEN 1 ELSE whole[k - 1] * shape[k]]
  BY <1>1, <1>5
<1>7. Product(shape) = whole[n]
  BY <1>1 DEF Product
<1> HIDE DEF whole
<1>8. whole[n] = p[n]
  <2>1. whole[0] = 1 /\ \A k \in 1..n : whole[k] = whole[k - 1] * shape[k]
    BY <1>6
  <2>2. \A k \in 1..n : whole[k - 1] \in Int => whole[k] = turn[k][whole[k - 1]]
    BY <1>2, <2>1
  <2>3. \A k \in 0..n : whole[k] = p[k]
    BY <1>3, <2>1, <2>2 DEF LoopValues
  <2> QED BY <2>3
<1> QED BY <1>1, <1>4, <1>7, <1>8

(* With no dimension, one or two.                                          *)
LEMMA SmallProducts ==
  ASSUME NEW shape \in Seq(Int)
  PROVE  /\ Len(shape) = 0 => Product(shape) = 1
         /\ Len(shape) = 1 => Product(shape) = shape[1]
         /\ Len(shape) = 2 => Product(shape) = shape[1] * shape[2]
<1>1. PICK p \in [0..Len(shape) -> Int] :
        /\ Product(shape) = p[Len(shape)]
        /\ p[0] = 1
        /\ \A k \in 1..Len(shape) : p[k] = p[k - 1] * shape[k]
  BY ProductIs
<1>2. \A k \in 1..Len(shape) : shape[k] \in Int
  OBVIOUS
<1>3. ASSUME Len(shape) \in {1, 2} PROVE p[1] = shape[1]
  <2>1. p[1] = p[0] * shape[1] /\ shape[1] \in Int
    BY <1>1, <1>2, <1>3
  <2> QED BY <1>1, <2>1
<1>4. ASSUME Len(shape) = 2 PROVE p[2] = shape[1] * shape[2]
  <2>1. p[2] = p[1] * shape[2]
    BY <1>1, <1>4
  <2> QED BY <1>3, <1>4, <2>1
<1> QED BY <1>1, <1>3, <1>4

(* The values of a block fall into rows of one value for each channel.     *)
LEMMA RowsOfChannels ==
  ASSUME NEW shape \in Seq(Int), Len(shape) \in {1, 2}
  PROVE  Product(shape) \in Int /\ Product(shape) = ChannelCount(shape) * Product(Front(shape))
<1>1. \A k \in 1..Len(shape) : shape[k] \in Int
  OBVIOUS
<1>2. CASE Len(shape) = 1
  <2>1. Front(shape) \in Seq(Int) /\ Len(Front(shape)) = 0
    BY <1>2 DEF Front
  <2>2. Product(Front(shape)) = 1
    BY <2>1, SmallProducts
  <2>3. Product(shape) = shape[1] /\ ChannelCount(shape) = shape[1] /\ shape[1] \in Int
    BY <1>1, <1>2, SmallProducts DEF ChannelCount
  <2> QED BY <2>2, <2>3
<1>3. CASE Len(shape) = 2
  <2>1. Front(shape) \in Seq(Int) /\ Len(Front(shape)) = 1 /\ Front(shape)[1] = shape[1]
    BY <1>3 DEF Front
  <2>2. Product(Front(shape)) = shape[1]
    BY <2>1, SmallProducts
  <2>3. Product(shape) = shape[1] * shape[2] /\ ChannelCount(shape) = shape[2]
    BY <1>3, SmallProducts DEF ChannelCount
  <2>4. shape[1] \in Int /\ shape[2] \in Int
    BY <1>1, <1>3
  <2> QED BY <2>2, <2>3, <2>4
<1> QED BY <1>2, <1>3

(* Shape, channels and readings go together.                               *)
LEMMA ValuesWhenAccepted ==
  ASSUME NEW info \in SensorInfo, Accepted(info)
  PROVE  ValuesFillChannels(info)
<1>1. info.shape \in Seq(Int)
  BY DEF SensorInfo
<1>2. Len(info.shape) \in {1, 2}
  <2>1. info.dtype \in {"scalar", "vector3", "matrix", "buffer"} /\ ShapeFits(info.dtype, info.shape)
    BY DEF SensorInfo, Accepted
  <2>2. Len(<<1>>) = 1 /\ Len(<<3>>) = 1
    OBVIOUS
  <2> QED BY <2>1, <2>2 DEF ShapeFits
<1>3. info.channels = ChannelCount(info.shape)
  BY DEF Accepted
<1>4. /\ Product(info.shape) \in Int
      /\ Product(info.shape) = info.channels * Product(Front(info.shape))
  BY <1>1, <1>2, <1>3, RowsOfChannels
<1> QED BY <1>4 DEF ValuesFillChannels, ReadingAccepted

(* b is nearer to the requested rate than c, or as near and not above it.  *)
Preferred(b, c, requested) ==
  \/ Distance(b, requested) < Distance(c, requested)
  \/ Distance(b, requested) = Distance(c, requested) /\ b <= c

(* One turn of the loop of nearest_supported_rate keeps the preferred one. *)
LEMMA BetterIs ==
  ASSUME NEW best \in SUBSET Int, NEW c \in Int, NEW r \in Int
  PROVE  /\ Better(best, c, r) \in SUBSET Int
         /\ Better({}, c, r) = {c}
         /\ \A b \in Int : \/ Better({b}, c, r) = {c} /\ Preferred(c, b, r)
                           \/ Better({b}, c, r) = {b} /\ Preferred(b, c, r)
<1>1. Better(best, c, r) \in SUBSET Int /\ Better({}, c, r) = {c}
  BY DEF Better
<1>2. ASSUME NEW b \in Int
      PROVE  \/ Better({b}, c, r) = {c} /\ Preferred(c, b, r)
             \/ Better({b}, c, r) = {b} /\ Preferred(b, c, r)
  <2>1. Distance(b, r) \in Int /\ Distance(c, r) \in Int
    BY DEF Distance
  <2>2. CASE Distance(c, r) < Distance(b, r) \/ (Distance(c, r) = Distance(b, r) /\ c < b)
    BY <2>1, <2>2 DEF Better, Preferred
  <2>3. CASE ~(Distance(c, r) < Distance(b, r) \/ (Distance(c, r) = Distance(b, r) /\ c < b))
    BY <2>1, <2>3 DEF Better, Preferred
  <2> QED BY <2>2, <2>3
<1> QED BY <1>1, <1>2

LEMMA PreferredOrder ==
  ASSUME NEW a \in Int, NEW b \in Int, NEW c \in Int, NEW r \in Int
  PROVE  /\ Preferred(a, a, r)
         /\ Preferred(a, b, r) /\ Preferred(b, c, r) => Preferred(a, c, r)
<1>1. Distance(a, r) \in Int /\ Distance(b, r) \in Int /\ Distance(c, r) \in Int
  BY DEF Distance
<1> QED BY <1>1 DEF Preferred

(* best is the running value of the loop over the supported rates s.       *)
BestSoFar(best, s, r) ==
  best[0] = {} /\ \A k \in 1..Len(s) : best[k] = Better(best[k - 1], s[k], r)

(* The loop over the supported rates has a result, and only one.           *)
LEMMA BestSoFarExists ==
  ASSUME NEW s \in Seq(Int), NEW r \in Int
  PROVE  \E f \in [0..Len(s) -> SUBSET Int] :
           /\ BestSoFar(f, s, r)
           /\ \A g : BestSoFar(g, s, r) => g[Len(s)] = f[Len(s)]
<1>1. PICK n \in Nat : n = Len(s)
  OBVIOUS
<1>2. \A k \in 1..n : s[k] \in Int
  BY <1>1
<1> DEFINE turn == [k \in 1..n |-> [best \in SUBSET Int |-> Better(best, s[k], r)]]
<1>3. turn \in [1..n -> [SUBSET Int -> SUBSET Int]]
  BY <1>2, BetterIs
<1>4. \A k \in 1..n : \A best \in SUBSET Int : turn[k][best] = Better(best, s[k], r)
  OBVIOUS
<1> HIDE DEF turn
<1>5. PICK f : LoopValues(f, n, SUBSET Int, {}, turn)
  <2>1. n \in Nat /\ {} \in SUBSET Int
    OBVIOUS
  <2> QED BY <2>1, <1>3, LoopIs, Zenon
<1>6. f \in [0..n -> SUBSET Int] /\ BestSoFar(f, s, r)
  <2>1. f \in [0..n -> SUBSET Int] /\ f[0] = {} /\ \A k \in 1..n : f[k] = turn[k][f[k - 1]]
    BY <1>5 DEF LoopValues
  <2>2. \A k \in 1..n : f[k - 1] \in SUBSET Int
    BY <2>1
  <2>3. \A k \in 1..n : f[k] = Better(f[k - 1], s[k], r)
    BY <1>4, <2>1, <2>2
  <2> QED BY <1>1, <2>1, <2>3 DEF BestSoFar
<1>7. ASSUME NEW g, BestSoFar(g, s, r) PROVE g[n] = f[n]
  <2>1. g[0] = {} /\ \A k \in 1..n : g[k] = Better(g[k - 1], s[k], r)
    BY <1>1, <1>7 DEF BestSoFar
  <2>2. \A k \in 1..n : g[k - 1] \in SUBSET Int => g[k] = turn[k][g[k - 1]]
    BY <1>4, <2>1
  <2>3. \A k \in 0..n : g[k] = f[k]
    BY <1>5, <2>1, <2>2 DEF LoopValues
  <2> QED BY <2>3
<1> QED BY <1>1, <1>6, <1>7

(* It ends with the preferred rate.                                        *)
LEMMA BestSoFarIs ==
  ASSUME NEW s \in Seq(Int), NEW n \in Nat \ {0}, n = Len(s), NEW r \in Int,
         NEW f, BestSoFar(f, s, r)
  PROVE  \E b \in ToSet(s) : f[n] = {b} /\ \A c \in ToSet(s) : Preferred(b, c, r)
<1>1. \A k \in 1..n : s[k] \in Int
  OBVIOUS
<1>2. f[0] = {} /\ \A k \in 1..n : f[k] = Better(f[k - 1], s[k], r)
  BY DEF BestSoFar
<1> DEFINE Settled(k) == \E b \in {s[i] : i \in 1..k} :
                           f[k] = {b} /\ \A i \in 1..k : Preferred(b, s[i], r)
           failing == {k \in 1..n : ~Settled(k)}
<1>3. Settled(1)
  <2>1. f[1] = {s[1]} /\ s[1] \in Int
    <3>1. s[1] \in Int /\ f[1] = Better(f[1 - 1], s[1], r)
      BY <1>1, <1>2
    <3>2. f[1 - 1] = {}
      BY <1>2
    <3>3. Better({}, s[1], r) = {s[1]}
      BY <3>1, BetterIs
    <3> QED BY <3>1, <3>2, <3>3
  <2>2. Preferred(s[1], s[1], r)
    BY <2>1, PreferredOrder
  <2> QED BY <2>1, <2>2
<1>4. ASSUME NEW k \in 2..n, Settled(k - 1) PROVE Settled(k)
  <2>1. PICK b \in {s[i] : i \in 1..(k - 1)} :
          f[k - 1] = {b} /\ \A i \in 1..(k - 1) : Preferred(b, s[i], r)
    BY <1>4
  <2>2. b \in Int /\ s[k] \in Int /\ b \in {s[i] : i \in 1..k} /\ s[k] \in {s[i] : i \in 1..k}
    BY <1>1
  <2>3. f[k] = Better({b}, s[k], r)
    <3>1. f[k] = Better(f[k - 1], s[k], r)
      BY <1>2
    <3> QED BY <2>1, <3>1
  <2>4. CASE f[k] = {s[k]} /\ Preferred(s[k], b, r)
    <3>1. \A i \in 1..k : Preferred(s[k], s[i], r)
      <4> TAKE i \in 1..k
      <4>1. s[i] \in Int
        BY <1>1
      <4>2. CASE i = k
        BY <4>2, <2>2, PreferredOrder
      <4>3. CASE i # k
        <5>1. i \in 1..(k - 1)
          BY <4>3
        <5>2. Preferred(b, s[i], r)
          BY <5>1, <2>1
        <5> QED BY <5>2, <4>1, <2>2, <2>4, PreferredOrder
      <4> QED BY <4>2, <4>3
    <3> QED BY <2>2, <2>4, <3>1
  <2>5. CASE f[k] = {b} /\ Preferred(b, s[k], r)
    <3>1. \A i \in 1..k : Preferred(b, s[i], r)
      <4> TAKE i \in 1..k
      <4>1. i = k \/ i \in 1..(k - 1)
        OBVIOUS
      <4> QED BY <2>1, <2>5, <4>1
    <3> QED BY <2>2, <2>5, <3>1
  <2>6. \/ f[k] = {s[k]} /\ Preferred(s[k], b, r)
        \/ f[k] = {b} /\ Preferred(b, s[k], r)
    <3>1. \/ Better({b}, s[k], r) = {s[k]} /\ Preferred(s[k], b, r)
          \/ Better({b}, s[k], r) = {b} /\ Preferred(b, s[k], r)
      BY <2>2, BetterIs, Zenon
    <3> QED BY <2>3, <3>1
  <2> QED BY <2>4, <2>5, <2>6
<1>5. failing = {}
  <2> SUFFICES ASSUME failing # {} PROVE FALSE
    OBVIOUS
  <2> HIDE DEF Settled
  <2>1. PICK k \in failing : \A l \in failing : k =< l
    <3>1. failing \in SUBSET Nat
      OBVIOUS
    <3> HIDE DEF failing
    <3> QED BY <3>1, HasLeast
  <2>2. k \in 2..n /\ k - 1 \in 1..n /\ k - 1 \notin failing
    BY <1>3, <2>1
  <2> QED BY <1>4, <2>1, <2>2
<1>6. Settled(n)
  <2> HIDE DEF Settled
  <2> QED BY <1>5
<1>7. ToSet(s) = {s[i] : i \in 1..n}
  BY DEF ToSet
<1>8. PICK b \in ToSet(s) : f[n] = {b} /\ \A i \in 1..n : Preferred(b, s[i], r)
  BY <1>6, <1>7
<1>9. \A c \in ToSet(s) : Preferred(b, c, r)
  BY <1>7, <1>8
<1> QED BY <1>8, <1>9

(* What the loop ends with is supported, and preferred to all others.      *)
LEMMA NearestIs ==
  ASSUME NEW rate, NEW r \in Int, rate.supported \in Seq(Int), rate.supported # <<>>,
         ~Refused(rate, r)
  PROVE  \E b \in ToSet(rate.supported) :
           /\ NearestSupportedRate(rate, r) = {b}
           /\ \A c \in ToSet(rate.supported) : Preferred(b, c, r)
<1> DEFINE s == rate.supported
           Turn(best, k) == IF k = 0 THEN {} ELSE Better(best[k - 1], s[k], r)
           whole == CHOOSE best : best = [k \in 0..Len(s) |-> Turn(best, k)]
<1>1. NearestSupportedRate(rate, r) = whole[Len(s)]
  BY DEF NearestSupportedRate
<1>2. PICK f \in [0..Len(s) -> SUBSET Int] : BestSoFar(f, s, r)
                                   /\ \A g : BestSoFar(g, s, r) => g[Len(s)] = f[Len(s)]
  BY BestSoFarExists
<1>3. f = [k \in 0..Len(s) |-> Turn(f, k)]
  BY <1>2 DEF BestSoFar
<1>4. whole = [k \in 0..Len(s) |-> Turn(whole, k)]
  BY <1>3
<1> HIDE DEF whole
<1>5. Len(s) \in Nat \ {0}
  OBVIOUS
<1>6. BestSoFar(whole, s, r)
  <2>1. whole[0] = {} /\ \A k \in 1..Len(s) : whole[k] = Turn(whole, k)
    <3>1. DOMAIN whole = 0..Len(s) /\ \A k \in 0..Len(s) : whole[k] = Turn(whole, k)
      <4> HIDE DEF Turn
      <4> DEFINE n == Len(s)
      <4>1. whole = [k \in 0..n |-> Turn(whole, k)]
        BY <1>4
      <4> HIDE DEF n
      <4>2. DOMAIN whole = 0..n /\ \A k \in 0..n : whole[k] = Turn(whole, k)
        BY <4>1, Zenon
      <4> QED BY <4>2 DEF n
    <3>2. 0 \in 0..Len(s) /\ 1..Len(s) \subseteq 0..Len(s)
      BY <1>5
    <3> QED BY <3>1, <3>2
  <2> QED BY <2>1 DEF BestSoFar
<1> HIDE DEF s
<1> QED BY <1>1, <1>5, <1>6, BestSoFarIs DEF s

(* The rates of a description that validation accepts are honoured.        *)
LEMMA RatesWhenAccepted ==
  ASSUME NEW info \in SensorInfo, Accepted(info)
  PROVE  RatesHonoured(info.rate)
<1> DEFINE rate == info.rate
<1>1. /\ rate.supported \in Seq(Int)
      /\ rate.default \subseteq Int /\ rate.min \subseteq Int /\ rate.max \subseteq Int
      /\ RateHolds(rate)
  BY DEF SensorInfo, Accepted
<1>2. ASSUME NEW r \in LowestRate..HighestRate, ~Refused(rate, r), rate.supported = <<>>
      PROVE  NearestSupportedRate(rate, r) = {r}
  BY <1>2 DEF NearestSupportedRate
<1>3. ASSUME NEW r \in LowestRate..HighestRate, ~Refused(rate, r), rate.supported # <<>>,
             NEW near, near = {x \in ToSet(rate.supported) :
                                 \A y \in ToSet(rate.supported) : Distance(x, r) <= Distance(y, r)}
      PROVE  NearestSupportedRate(rate, r) = {Min(near)}
  <2>1. r \in Int
    BY DEF LowestRate, HighestRate
  <2>2. PICK b \in ToSet(rate.supported) :
          /\ NearestSupportedRate(rate, r) = {b}
          /\ \A c \in ToSet(rate.supported) : Preferred(b, c, r)
    BY <1>1, <1>3, <2>1, NearestIs
  <2>3. \A c \in ToSet(rate.supported) : c \in Int /\ Distance(c, r) \in Int
    BY <1>1, <2>1 DEF ToSet, Distance
  <2>4. b \in near /\ \A x \in near : b =< x
    BY <1>3, <2>2, <2>3 DEF Preferred
  <2>5. \A x \in near : x \in Int
    BY <1>3, <2>3
  <2>6. Min(near) = b
    BY <2>4, <2>5 DEF Min
  <2> QED BY <2>2, <2>6
<1>4. ASSUME rate.min # {}, rate.max # {}, NEW d \in rate.default PROVE ~Refused(rate, d)
  BY <1>1, <1>4 DEF RateHolds, Refused
<1> QED BY <1>2, <1>3, <1>4 DEF RatesHonoured

(* For whatever the adapters return.                                       *)
LEMMA ServableWhenCollected == raw_results \in Collections => AcceptedServable
<1> SUFFICES ASSUME raw_results \in Collections, NEW e \in Validated(raw_results)
             PROVE  LET info == Record(raw_results, e).info
                    IN  ValuesFillChannels(info) /\ RatesHonoured(info.rate)
  BY DEF AcceptedServable
<1>1. Record(raw_results, e) \in SensorRecord
  BY CandidatesAreEntries, EntryIs
<1>2. Record(raw_results, e).info \in SensorInfo /\ Accepted(Record(raw_results, e).info)
  BY <1>1 DEF SensorRecord, Validated
<1> QED BY <1>2, ValuesWhenAccepted, RatesWhenAccepted

-----------------------------------------------------------------------------
(* What is reached: well typed records, of which none names another        *)
(* adapter as its source.                                                  *)
InputsInv == raw_results \in Collections /\ OwnNames(raw_results)

(* What adapters return in the runs are records, with a source of their    *)
(* own.                                                                    *)
LEMMA RecordsTyped ==
  ASSUME NEW a \in Adapters, NEW r \in RecordOf(a)
  PROVE  r \in SensorRecord /\ r.source \in {{a}, {Qualifier}}
<1>1. Plain \in SensorInfo /\ Broken \in SensorInfo
  BY InfosAssumption
<1>2. a \in Nat /\ Qualifier \in Nat
  BY PriorityAssumption DEF Adapters, Qualifier
<1>3. \A id \in Ids : id \in Seq(Nat) \ {<<>>}
  BY IdsAssumption
<1>4. \A id \in OddIds : id \in Seq(Nat) \ {<<>>}
  BY <1>3, IdsAssumption
<1>5. CASE \E id \in Ids \ OddIds : \E name \in {a, Qualifier} :
             r = [id |-> id, info |-> Plain, source |-> {name}]
  BY <1>1, <1>2, <1>3, <1>5 DEF SensorRecord
<1>6. CASE \E id \in Ids \ OddIds : r = [id |-> id, info |-> Broken, source |-> {Qualifier}]
  BY <1>1, <1>2, <1>3, <1>6 DEF SensorRecord
<1>7. CASE \E id \in OddIds : r = [id |-> id, info |-> Plain, source |-> {Qualifier}]
  BY <1>1, <1>2, <1>4, <1>7 DEF SensorRecord
<1> QED BY <1>5, <1>6, <1>7 DEF RecordOf

(* One record more does not change that.                                   *)
LEMMA OneMore ==
  ASSUME NEW raw \in Collections, OwnNames(raw), NEW a \in Adapters,
         NEW r \in SensorRecord, r.source \in {{a}, {Qualifier}},
         NEW s \in {Append(raw[a], r), <<r>>}
  PROVE  /\ [raw EXCEPT ![a] = s] \in Collections
         /\ OwnNames([raw EXCEPT ![a] = s])
<1>1. raw[a] \in Seq(SensorRecord)
  BY DEF Collections
<1>2. s \in Seq(SensorRecord)
  <2>1. \A t \in Seq(SensorRecord) : Append(t, r) \in Seq(SensorRecord)
    OBVIOUS
  <2>2. <<r>> \in Seq(SensorRecord)
    OBVIOUS
  <2> QED BY <1>1, <2>1, <2>2
<1>3. \A n \in DOMAIN s : s[n].source \in {{a}, {Qualifier}}
  <2>1. CASE s = <<r>>
    BY <2>1
  <2>2. CASE s = Append(raw[a], r)
    <3> TAKE n \in DOMAIN s
    <3>1. n = Len(raw[a]) + 1 \/ n \in DOMAIN raw[a]
      BY <1>1, <2>2
    <3>2. CASE n = Len(raw[a]) + 1
      BY <1>1, <2>2, <3>2
    <3>3. CASE n \in DOMAIN raw[a]
      <4>1. s[n] = raw[a][n]
        BY <1>1, <2>2, <3>3
      <4> QED BY <3>3, <4>1 DEF OwnNames
    <3> QED BY <3>1, <3>2, <3>3
  <2> QED BY <2>1, <2>2
<1> QED BY <1>2, <1>3 DEF Collections, OwnNames

LEMMA InputsInvInit == InputsInit => InputsInv
BY DEF InputsInit, InputsInv, Collections, OwnNames

LEMMA InputsInvStep == InputsInv /\ [InputsNext]_raw_results => InputsInv'
<1> SUFFICES ASSUME InputsInv, [InputsNext]_raw_results PROVE InputsInv'
  OBVIOUS
<1>1. CASE UNCHANGED raw_results
  BY <1>1 DEF InputsInv, OwnNames
<1>2. CASE Restart
  BY <1>2 DEF Restart, InputsInv, Collections, OwnNames
<1>3. ASSUME NEW a \in Adapters, NEW r \in RecordOf(a), ReturnRecord(a, r) PROVE InputsInv'
  <2>1. raw_results' = [raw_results EXCEPT ![a] = Append(raw_results[a], r)]
    BY <1>3 DEF ReturnRecord
  <2>2. r \in SensorRecord /\ r.source \in {{a}, {Qualifier}}
    BY RecordsTyped
  <2> QED BY <2>1, <2>2, OneMore DEF InputsInv
<1>4. ASSUME NEW a \in Adapters, NEW info \in Infos, ReturnOnly(a, info) PROVE InputsInv'
  <2>1. PICK id \in OddIds :
          raw_results' = [raw_results EXCEPT
                            ![a] = <<[id |-> id, info |-> info, source |-> {Qualifier}]>>]
    BY <1>4 DEF ReturnOnly
  <2>2. /\ [id |-> id, info |-> info, source |-> {Qualifier}] \in SensorRecord
        /\ [id |-> id, info |-> info, source |-> {Qualifier}].source \in {{a}, {Qualifier}}
    BY IdsAssumption, InfosAssumption DEF SensorRecord, Qualifier
  <2> QED BY <2>1, <2>2, OneMore DEF InputsInv
<1> QED BY <1>1, <1>2, <1>3, <1>4 DEF InputsNext

(* Whichever way ids collide, of every adapter as many sensors are listed  *)
(* under an id as it returned valid records with it, and list_sensors      *)
(* raises only when an adapter repeats a malformed id of its own.          *)
THEOREM EverySensorIsListed == InputsSpec => []EverySensorListed
<1>1. InputsInv => EverySensorListed
  BY ListedWhenCollected DEF InputsInv
<1> QED BY <1>1, InputsInvInit, InputsInvStep, PTL DEF InputsSpec

(* If no id that was returned is, or begins like, a suffixed form of       *)
(* another one, no listed sensor overwrites another in the dicts of the    *)
(* registry, for any number of records, conflicts and repetitions.         *)
THEOREM ListedIdsDistinct == InputsSpec => []IdsDistinct
<1>1. InputsInv => IdsDistinct
  BY DistinctWhenCollected DEF InputsInv
<1> QED BY <1>1, InputsInvInit, InputsInvStep, PTL DEF InputsSpec

(* The owner that list_sensors finds for a sensor reported it, whether it  *)
(* goes by source, by the id or by the id without its suffix.              *)
THEOREM OwnersHaveSensors == InputsSpec => []OwnerHasSensor
<1>1. InputsInv => OwnerHasSensor
  BY OwnedWhenCollected DEF InputsInv
<1> QED BY <1>1, InputsInvInit, InputsInvStep, PTL DEF InputsSpec

(* For every description that validation accepts, the values of a reading  *)
(* fall into rows of one value per channel, and the rate that is applied   *)
(* is a supported one and none is nearer: the rules, which are in          *)
(* different functions, fit.                                               *)
THEOREM AcceptedIsServable == InputsSpec => []AcceptedServable
<1>1. InputsInv => AcceptedServable
  BY ServableWhenCollected DEF InputsInv
<1> QED BY <1>1, InputsInvInit, InputsInvStep, PTL DEF InputsSpec

-----------------------------------------------------------------------------
(* What the Registry needs of the pipeline: the loops of list_sensors find *)
(* what they look for.                                                     *)
LEMMA RawResultsCollected == RawResults \subseteq Collections
<1> SUFFICES ASSUME NEW raw \in RawResults, NEW a \in Adapters
             PROVE  raw[a] \in Seq(SensorRecord)
  BY DEF RawResults, Collections
<1>1. raw[a] \in {<<>>} \cup Results[a] /\ Results[a] \subseteq Seq(SensorRecord)
  BY ResultsAssumption DEF RawResults
<1>2. <<>> \in Seq(SensorRecord)
  OBVIOUS
<1> QED
  BY <1>1, <1>2

LEMMA CandidateIs ==
  ASSUME NEW raw \in RawResults, NEW e \in Candidates(raw)
  PROVE  /\ e = [adapter |-> e.adapter, pos |-> e.pos]
         /\ e.adapter \in 1..NumAdapters
         /\ raw[e.adapter] \in Seq(SensorRecord)
         /\ e.pos \in 1..Len(raw[e.adapter])
         /\ Record(raw, e) \in SensorRecord
         /\ e.adapter \in AdaptersSeen(raw, Record(raw, e).id)
<1>1. raw \in Collections /\ e \in Entry(raw) /\ e \in Group(raw, Record(raw, e).id)
  BY RawResultsCollected, CandidatesAreEntries DEF Group
<1> QED
  BY <1>1, EntryIs DEF AdaptersSeen, Adapters

(* Of several sensors with one id there is a last one.                     *)
LEMMA LastOfIsIn ==
  ASSUME NEW raw \in RawResults, NEW id, NEW es \in SUBSET Namesakes(raw, id), es # {}
  PROVE  LastOf(raw, es) \in es
<1>1. \A e \in es : e \in Candidates(raw) /\ ResolvedId(raw, e) = id
  BY DEF Namesakes
<1>2. PICK a \in {e.adapter : e \in es} : \A b \in {e.adapter : e \in es} : b =< a
  <2>1. {e.adapter : e \in es} \in SUBSET (1..NumAdapters) /\ {e.adapter : e \in es} # {}
    BY <1>1, CandidateIs
  <2> QED
    BY <2>1, HasGreatest, PriorityAssumption
<1> DEFINE own == {e \in es : e.adapter = a}
<1>3. raw[a] \in Seq(SensorRecord)
  BY <1>1, <1>2, CandidateIs
<1>4. PICK p \in {e.pos : e \in own} : \A q \in {e.pos : e \in own} : q =< p
  <2>1. {e.pos : e \in own} \in SUBSET (1..Len(raw[a])) /\ {e.pos : e \in own} # {}
    BY <1>1, <1>2, CandidateIs
  <2> DEFINE positions == {e.pos : e \in own}
  <2>2. Len(raw[a]) \in Nat
    BY <1>3
  <2> HIDE DEF positions
  <2>3. \E p \in positions : \A q \in positions : q =< p
    <3>1. PICK n \in Nat : n = Len(raw[a])
      BY <2>2
    <3> QED
      BY <2>1, <3>1, HasGreatest DEF positions
  <2> QED
    BY <2>3 DEF positions
<1>5. PICK e \in es : e.adapter = a /\ e.pos = p
  BY <1>4
<1>6. \A f \in es \ {e} : ListedBefore(raw, f, e)
  <2> SUFFICES ASSUME NEW f \in es, f # e PROVE ListedBefore(raw, f, e)
    OBVIOUS
  <2>1. f.adapter =< a /\ f.adapter \in Nat /\ a \in Nat
    BY <1>1, <1>2, <1>5, CandidateIs
  <2>2. CASE f.adapter < a
    BY <2>2, <1>5 DEF ListedBefore
  <2>3. CASE f.adapter = a
    <3>1. f.pos =< p /\ f.pos \in Nat /\ p \in Nat
      BY <2>3, <1>1, <1>4, <1>5, CandidateIs
    <3>2. f.pos # p
      BY <2>3, <1>1, <1>5, CandidateIs
    <3> QED
      BY <2>3, <3>1, <3>2, <1>1, <1>5 DEF ListedBefore
  <2> QED
    BY <2>1, <2>2, <2>3
<1> QED
  BY <1>6 DEF LastOf

LEMMA OwnerIs ==
  ASSUME NEW raw, NEW e
  PROVE  /\ Owner(raw, e) \in AnyOwner
         /\ Owner(raw, e) = NoOwner =>
              /\ Source(raw, e) \cap Adapters = {}
              /\ Returned(raw, {ResolvedId(raw, e), Stripped(ResolvedId(raw, e))}) = {}
<1>1. Source(raw, e) \cap Adapters \in SUBSET Adapters
  OBVIOUS
<1>2. Returned(raw, {ResolvedId(raw, e), Stripped(ResolvedId(raw, e))}) \in SUBSET Adapters
  BY DEF Returned
<1> QED
  BY <1>1, <1>2, FirstLoadedIs DEF Owner

LEMMA NewOwnerType ==
  ASSUME NEW raw \in RawResults, NEW id \in DOMAIN NewOwner(raw)
  PROVE  NewOwner(raw)[id] \in Adapters
<1> DEFINE es == Namesakes(raw, id) \cap Owned(raw)
<1>1. es \in SUBSET Namesakes(raw, id) /\ es # {}
  BY DEF NewOwner, Owned, Namesakes
<1>2. LastOf(raw, es) \in es
  BY <1>1, LastOfIsIn
<1>3. NewOwner(raw)[id] = Owner(raw, LastOf(raw, es))
  BY DEF NewOwner
<1> QED
  BY <1>2, <1>3, OwnerIs DEF Owned, AnyOwner

(* Only a shortened id can be without an owner: any other is, but for its  *)
(* suffix, the id of a record that some adapter returned.                  *)
LEMMA OwnerlessIsShortened ==
  ASSUME NEW raw \in RawResults, NEW e \in Candidates(raw), Owner(raw, e) = NoOwner
  PROVE  Record(raw, e).source \cap Adapters = {} /\ Shortened(ResolvedId(raw, e))
<1> DEFINE x == Record(raw, e).id
           id == ResolvedId(raw, e)
<1>1. /\ Source(raw, e) \cap Adapters = {}
      /\ Returned(raw, {id, Stripped(id)}) = {}
  BY OwnerIs
<1>2. /\ e.adapter \in Adapters /\ e.adapter \in AdaptersSeen(raw, x)
      /\ e.pos \in DOMAIN raw[e.adapter] /\ raw[e.adapter][e.pos].id = x
      /\ x \in Seq(Nat) /\ x # <<>>
  BY CandidateIs DEF Record, SensorRecord, Adapters
<1>3. x # id /\ x # Stripped(id)
  BY <1>1, <1>2 DEF Returned
<1>4. ~Merged(raw, e)
  BY <1>1, <1>2 DEF Source
<1>5. Record(raw, e).source \cap Adapters = {}
  BY <1>1, <1>4 DEF Source
<1>6. PICK k \in Nat : id = Suffixed(x, k)
  <2>1. raw \in Collections
    BY RawResultsCollected
  <2>2. \E k \in 0..Cardinality(Entry(raw)) : id = Suffixed(x, k)
    BY <2>1, <1>3, CandidateId
  <2> QED BY <2>1, <2>2, CandidateId
<1> DEFINE pair == <<x, k>>
<1>7. id = Append(IF pair \in DOMAIN Stem THEN Stem[pair] ELSE x, k)
  BY <1>6 DEF Suffixed
<1> HIDE DEF id, x, pair
<1>8. pair \in DOMAIN Stem
  <2> SUFFICES ASSUME pair \notin DOMAIN Stem PROVE FALSE
    OBVIOUS
  <2>1. Extends(id, x, k)
    BY <1>2, <1>7, AppendExtends
  <2>2. Front(id) = x /\ Len(id) = Len(x) + 1 /\ Len(x) \in Nat \ {0}
    BY <1>2, <2>1 DEF Extends
  <2> QED
    BY <2>2, <1>3 DEF Stripped
<1>9. Extends(id, Stem[pair], k)
  BY <1>7, <1>8, StemAssumption, AppendExtends
<1>10. Front(id) = Stem[pair]
  BY <1>9 DEF Extends
<1> QED
  BY <1>5, <1>8, <1>10 DEF Shortened, id

-----------------------------------------------------------------------------
Reading == {"route", "dispatch", "lock", "acquire", "stamp"}

(* What both inductions need to know of the callers. *)
CallersInv ==
  /\ pc \in [Callers -> Places]
  /\ frame \in [Callers -> Frame]
  /\ \A id \in DOMAIN sensorOwner : sensorOwner[id] \in AnyOwner
  /\ nextSeq \in [SensorIds -> Nat]
  /\ readLocks \in [SensorIds -> Nat]
  /\ \A c \in Callers : pc[c] = "idle" => frame[c] = EmptyFrame
  /\ \A c \in Callers : pc[c] \in Reading => frame[c].id \in SensorIds

LEMMA EmptyFrameType == EmptyFrame \in Frame
BY PriorityAssumption DEF EmptyFrame, EmptyRaw, Frame, RawResults, NoOwner, NoTime

LEMMA CallersInit == Init => CallersInv
BY EmptyFrameType DEF Init, CallersInv, Places, Reading, Empty

(* Assigning a local variable keeps the type of a frame. *)
LEMMA FrameUpdates ==
  ASSUME NEW f \in Frame
  PROVE  /\ \A raw \in RawResults, outcome \in [Adapters -> Failures \cup {"sensors"}] :
              [f EXCEPT !.raw = raw, !.outcome = outcome] \in Frame
         /\ f.next <= NumAdapters => [f EXCEPT !.next = @ + 1] \in Frame
         /\ \A op \in {"read", "stream"}, id \in SensorIds :
              [f EXCEPT !.op = op, !.id = id] \in Frame
         /\ \A adapter \in AnyOwner : [f EXCEPT !.adapter = adapter] \in Frame
         /\ \A t \in Clock : [f EXCEPT !.t = t] \in Frame
         /\ \A lock \in Nat : [f EXCEPT !.lock = lock] \in Frame
         /\ \A seq \in Nat : [f EXCEPT !.seq = seq] \in Frame
<1>1. \A raw \in RawResults, outcome \in [Adapters -> Failures \cup {"sensors"}] :
        [f EXCEPT !.raw = raw, !.outcome = outcome] \in Frame
  BY DEF Frame
<1>2. f.next <= NumAdapters => [f EXCEPT !.next = @ + 1] \in Frame
  <2>1. f.next \in 1..(NumAdapters + 1)
    BY DEF Frame
  <2>2. f.next <= NumAdapters => f.next + 1 \in 1..(NumAdapters + 1)
    BY <2>1, PriorityAssumption
  <2> QED BY <2>2 DEF Frame
<1>3. /\ \A op \in {"read", "stream"}, id \in SensorIds :
           [f EXCEPT !.op = op, !.id = id] \in Frame
      /\ \A adapter \in AnyOwner : [f EXCEPT !.adapter = adapter] \in Frame
  BY DEF Frame, AnyOwner
<1>4. /\ \A t \in Clock : [f EXCEPT !.t = t] \in Frame
      /\ \A lock \in Nat : [f EXCEPT !.lock = lock] \in Frame
      /\ \A seq \in Nat : [f EXCEPT !.seq = seq] \in Frame
  BY DEF Frame
<1> QED
  BY <1>1, <1>2, <1>3, <1>4

(* The step of one caller, to a place with the frame that belongs there. *)
LEMMA CallerMoves ==
  ASSUME CallersInv, NEW c \in Callers, NEW label \in Places, NEW f \in Frame,
         pc' = [pc EXCEPT ![c] = label],
         frame' = [frame EXCEPT ![c] = f],
         label = "idle" => f = EmptyFrame,
         label \in Reading => f.id \in SensorIds
  PROVE  /\ pc' \in [Callers -> Places]
         /\ frame' \in [Callers -> Frame]
         /\ \A d \in Callers : pc'[d] = "idle" => frame'[d] = EmptyFrame
         /\ \A d \in Callers : pc'[d] \in Reading => frame'[d].id \in SensorIds
BY DEF CallersInv

LEMMA CallersStep == CallersInv /\ [Next]_vars => CallersInv'
<1> SUFFICES ASSUME CallersInv, [Next]_vars PROVE CallersInv'
  OBVIOUS
<1> DEFINE Moves(c, label, f) ==
      pc' = [pc EXCEPT ![c] = label] /\ frame' = [frame EXCEPT ![c] = f]
<1> DEFINE Rest ==
      /\ \A id \in DOMAIN sensorOwner' : sensorOwner'[id] \in AnyOwner
      /\ nextSeq' \in [SensorIds -> Nat]
      /\ readLocks' \in [SensorIds -> Nat]
<1>a. ASSUME NEW c \in Callers, NEW label \in Places, NEW f \in Frame,
             Moves(c, label, f), Rest,
             label = "idle" => f = EmptyFrame, label \in Reading => f.id \in SensorIds
      PROVE  CallersInv'
  BY <1>a, CallerMoves DEF CallersInv
<1>b. \A c \in Callers : frame[c] \in Frame
  BY DEF CallersInv
<1>c. UNCHANGED <<caches, stamps>> => Rest
  BY DEF CallersInv, caches, stamps
<1> HIDE DEF Rest
<1>1. CASE UNCHANGED vars
  BY <1>1 DEF vars, caches, stamps, local, CallersInv
<1>2. ASSUME NEW c \in Callers, ListSensors(c) PROVE CallersInv'
  <2>1. Moves(c, "discover", frame[c]) /\ Rest
    BY <1>2, <1>c DEF ListSensors, Goto, CallersInv
  <2> QED BY <2>1, <1>a, <1>b DEF Places, Reading
<1>3. ASSUME NEW c \in Callers, DiscoverRaises(c) PROVE CallersInv'
  <2>1. EmptyFrame \in Frame
    BY <1>3, <1>b, FrameUpdates, EmptyFrameType DEF DiscoverRaises
  <2>2. Moves(c, "idle", EmptyFrame) /\ Rest
    BY <1>3, <1>c DEF DiscoverRaises, Step, Goto, Return
  <2> QED BY <2>1, <2>2, <1>a, <1>3 DEF Places, Reading, CallersInv, DiscoverRaises
<1>4. ASSUME NEW c \in Callers, Discovered(c) PROVE CallersInv'
  <2>1. PICK outcome \in [Adapters -> Failures \cup {"sensors"}], raw \in RawResults :
          frame' = [frame EXCEPT ![c].raw = raw, ![c].outcome = outcome]
    BY <1>4 DEF Discovered
  <2> DEFINE f == [frame[c] EXCEPT !.raw = raw, !.outcome = outcome]
  <2>2. f \in Frame
    BY <1>b, FrameUpdates
  <2>3. Moves(c, "status", f) /\ Rest
    <3>1. pc' = [pc EXCEPT ![c] = "status"]
      BY <1>4 DEF Discovered, Step, Goto
    <3>2. frame' = [frame EXCEPT ![c] = f]
      BY <2>1
    <3> HIDE DEF f
    <3> QED
      BY <1>4, <1>c, <3>1, <3>2 DEF Discovered, Step
  <2> QED BY <2>2, <2>3, <1>a DEF Places, Reading
<1>5. ASSUME NEW c \in Callers, UpdateStatus(c) PROVE CallersInv'
  <2>1. [frame[c] EXCEPT !.next = @ + 1] \in Frame
    BY <1>5, <1>b, FrameUpdates, EmptyFrameType DEF UpdateStatus
  <2>2. Moves(c, "status", [frame[c] EXCEPT !.next = @ + 1]) /\ Rest
    BY <1>5, <1>c DEF UpdateStatus, Step, Goto, Return
  <2> QED BY <2>1, <2>2, <1>a, <1>5 DEF Places, Reading, CallersInv, UpdateStatus
<1>6. ASSUME NEW c \in Callers, PublishOwner(c) PROVE CallersInv'
  <2>1. frame[c].raw \in RawResults
    BY <1>b DEF Frame
  <2>2. \A id \in DOMAIN sensorOwner' : sensorOwner'[id] \in AnyOwner
    BY <1>6, <2>1, NewOwnerType DEF PublishOwner, AnyOwner
  <2>3. Moves(c, "publish", frame[c]) /\ Rest
    BY <1>6, <2>2 DEF PublishOwner, Step, Goto, stamps, Rest, CallersInv
  <2> QED BY <2>3, <1>a, <1>b DEF Places, Reading
<1>7. ASSUME NEW c \in Callers, PublishInfo(c) PROVE CallersInv'
  <2>1. Moves(c, "idle", EmptyFrame) /\ Rest
    BY <1>7 DEF PublishInfo, Return, Step, Goto, stamps, Rest, CallersInv
  <2> QED BY <2>1, <1>a, EmptyFrameType DEF Places, Reading
<1>8. ASSUME NEW c \in Callers, NEW op \in {"read", "stream"}, NEW id \in SensorIds, LookUp(c, op, id) PROVE CallersInv'
  <2>1. [frame[c] EXCEPT !.op = op, !.id = id] \in Frame
    BY <1>8, <1>b, FrameUpdates, EmptyFrameType DEF LookUp
  <2>2. Moves(c, "route", [frame[c] EXCEPT !.op = op, !.id = id]) /\ Rest
    BY <1>8, <1>c DEF LookUp, Step, Goto, Return
  <2>3. [frame[c] EXCEPT !.op = op, !.id = id].id = id
    BY <1>b DEF Frame
  <2> QED BY <2>1, <2>2, <2>3, <1>a DEF Places, Reading
<1>9. ASSUME NEW c \in Callers, Route(c) PROVE CallersInv'
  <2> DEFINE f == [frame[c] EXCEPT !.adapter = sensorOwner[frame[c].id]]
  <2>1. f \in Frame
    BY <1>9, <1>b, FrameUpdates DEF Route, CallersInv
  <2>2. f.id = frame[c].id
    BY <1>b DEF Frame
  <2>3. Moves(c, "dispatch", f) /\ Rest
    BY <1>9, <1>c DEF Route, Step, Goto
  <2>4. frame[c].id \in SensorIds
    BY <1>9 DEF Route, Reading, CallersInv
  <2> QED BY <2>1, <2>2, <2>3, <2>4, <1>a DEF Places
<1>10. ASSUME NEW c \in Callers, RouteUnknown(c) PROVE CallersInv'
  <2>1. EmptyFrame \in Frame
    BY <1>10, <1>b, FrameUpdates, EmptyFrameType DEF RouteUnknown
  <2>2. Moves(c, "idle", EmptyFrame) /\ Rest
    BY <1>10, <1>c DEF RouteUnknown, Step, Goto, Return
  <2> QED BY <2>1, <2>2, <1>a, <1>10 DEF Places, Reading, CallersInv, RouteUnknown
<1>11. ASSUME NEW c \in Callers, OpenStream(c) \/ ReadRaises(c) PROVE CallersInv'
  <2>1. EmptyFrame \in Frame
    BY <1>11, <1>b, FrameUpdates, EmptyFrameType DEF OpenStream, ReadRaises
  <2>2. Moves(c, "idle", EmptyFrame) /\ Rest
    BY <1>11, <1>c DEF OpenStream, ReadRaises, Step, Goto, Return
  <2> QED BY <2>1, <2>2, <1>a, <1>11 DEF Places, Reading, CallersInv, OpenStream, ReadRaises
<1>12. ASSUME NEW c \in Callers, NEW t \in Clock, Read(c, t) PROVE CallersInv'
  <2> DEFINE f == [frame[c] EXCEPT !.t = t]
  <2>1. f \in Frame
    BY <1>12, <1>b, FrameUpdates DEF Read, CallersInv
  <2>2. f.id = frame[c].id
    BY <1>b DEF Frame
  <2>3. Moves(c, "lock", f) /\ Rest
    BY <1>12, <1>c DEF Read, Step, Goto
  <2>4. frame[c].id \in SensorIds
    BY <1>12 DEF Read, Reading, CallersInv
  <2> QED BY <2>1, <2>2, <2>3, <2>4, <1>a DEF Places
<1>13. ASSUME NEW c \in Callers, GetReadLock(c) PROVE CallersInv'
  <2> DEFINE f == [frame[c] EXCEPT !.lock = readLocks'[frame[c].id]]
  <2>1. frame[c].id \in SensorIds
    BY <1>13 DEF GetReadLock, Reading, CallersInv
  <2>2. readLocks' \in [SensorIds -> Nat]
    BY <1>13 DEF GetReadLock, CallersInv
  <2>3. f \in Frame
    BY <2>1, <2>2, <1>b, FrameUpdates
  <2>4. f.id = frame[c].id
    BY <1>b DEF Frame
  <2>5. Moves(c, "acquire", f) /\ Rest
    BY <1>13, <2>2 DEF GetReadLock, Step, Goto, Rest, CallersInv, caches
  <2> QED BY <2>1, <2>3, <2>4, <2>5, <1>a DEF Places
<1>14. ASSUME NEW c \in Callers, TakeSeq(c) PROVE CallersInv'
  <2> DEFINE f == [frame[c] EXCEPT !.seq = nextSeq[frame[c].id]]
  <2>1. frame[c].id \in SensorIds
    BY <1>14 DEF TakeSeq, Reading, CallersInv
  <2>2. f \in Frame
    BY <2>1, <1>b, FrameUpdates DEF CallersInv
  <2>3. f.id = frame[c].id
    BY <1>b DEF Frame
  <2>4. Moves(c, "stamp", f) /\ Rest
    BY <1>14 DEF TakeSeq, Step, Goto, Rest, CallersInv, caches
  <2> QED BY <2>1, <2>2, <2>3, <2>4, <1>a DEF Places
<1>15. ASSUME NEW c \in Callers, Stamp(c) PROVE CallersInv'
  <2>1. frame[c].seq \in Nat
    BY <1>b DEF Frame
  <2>2. nextSeq' \in [SensorIds -> Nat]
    <3>1. nextSeq' = [nextSeq EXCEPT ![frame[c].id] = frame[c].seq + 1]
      BY <1>15 DEF Stamp
    <3>2. frame[c].seq + 1 \in Nat /\ nextSeq \in [SensorIds -> Nat]
      BY <2>1 DEF CallersInv
    <3> QED BY <3>1, <3>2
  <2>3. Moves(c, "idle", EmptyFrame) /\ Rest
    BY <1>15, <2>2 DEF Stamp, Return, Step, Goto, Rest, CallersInv, caches
  <2> QED BY <2>3, <1>a, EmptyFrameType DEF Places, Reading
<1>16. ASSUME NEW c \in Callers, ShutdownAgain(c) PROVE CallersInv'
  BY <1>16 DEF ShutdownAgain, caches, stamps, local, CallersInv
<1>17. ASSUME NEW c \in Callers, ShutdownBegin(c) PROVE CallersInv'
  <2> DEFINE f == [frame[c] EXCEPT !.op = "shutdown"]
  <2>1. f \in Frame
    BY <1>b DEF Frame
  <2>2. Moves(c, "teardown", f) /\ Rest
    BY <1>17, <1>c DEF ShutdownBegin, Step, Goto
  <2> QED BY <2>1, <2>2, <1>a DEF Places, Reading
<1>18. ASSUME NEW c \in Callers, Teardown(c) PROVE CallersInv'
  <2>1. [frame[c] EXCEPT !.next = @ + 1] \in Frame
    BY <1>18, <1>b, FrameUpdates, EmptyFrameType DEF Teardown
  <2>2. Moves(c, "teardown", [frame[c] EXCEPT !.next = @ + 1]) /\ Rest
    BY <1>18, <1>c DEF Teardown, Step, Goto, Return
  <2> QED BY <2>1, <2>2, <1>a, <1>18 DEF Places, Reading, CallersInv, Teardown
<1>19. ASSUME NEW c \in Callers, ShutdownEnd(c) PROVE CallersInv'
  <2>1. EmptyFrame \in Frame
    BY <1>19, <1>b, FrameUpdates, EmptyFrameType DEF ShutdownEnd
  <2>2. Moves(c, "idle", EmptyFrame) /\ Rest
    BY <1>19, <1>c DEF ShutdownEnd, Step, Goto, Return
  <2> QED BY <2>1, <2>2, <1>a, <1>19 DEF Places, Reading, CallersInv, ShutdownEnd
<1>20. ASSUME NEW c \in Callers, StatusRaises(c) \/ PipelineRaises(c) PROVE CallersInv'
  <2>1. Moves(c, "idle", EmptyFrame) /\ Rest
    BY <1>20, <1>c DEF StatusRaises, PipelineRaises, Return, Step, Goto
  <2> QED BY <2>1, <1>a, EmptyFrameType DEF Places, Reading
<1> QED
  BY <1>1, <1>2, <1>3, <1>4, <1>5, <1>6, <1>7, <1>8, <1>9, <1>10, <1>11, <1>12, <1>13,
     <1>14, <1>15, <1>16, <1>17, <1>18, <1>19, <1>20 DEF Next

-----------------------------------------------------------------------------
(* How far the one caller in shutdown() has come is what was torn down.    *)
ShutdownInv ==
  /\ tornDown \in [Adapters -> Nat]
  /\ shutdownLock = {c \in Callers : pc[c] = "teardown"}
  /\ \A c, d \in shutdownLock : c = d
  /\ \A c \in shutdownLock :
       /\ shutdownDone /\ ~returned
       /\ \A a \in Adapters : tornDown[a] = IF a < frame[c].next THEN 1 ELSE 0
  /\ ~shutdownDone => ~returned /\ \A a \in Adapters : tornDown[a] = 0
  /\ (shutdownDone /\ shutdownLock = {}) => \A a \in Adapters : tornDown[a] = 1

(* A step of a caller that neither leaves nor enters the teardown. *)
LEMMA ShutdownElsewhere ==
  ASSUME CallersInv, ShutdownInv, NEW c \in Callers, NEW label \in Places \ {"teardown"},
         UNCHANGED ending, pc[c] # "teardown",
         pc' = [pc EXCEPT ![c] = label],
         \A d \in Callers \ {c} : frame'[d] = frame[d]
  PROVE  ShutdownInv'
<1>1. {d \in Callers : pc'[d] = "teardown"} = {d \in Callers : pc[d] = "teardown"}
  BY DEF CallersInv
<1>2. \A d \in shutdownLock : frame'[d] = frame[d]
  BY DEF ShutdownInv
<1> QED
  BY <1>1, <1>2 DEF ShutdownInv, ending

LEMMA ShutdownStep == CallersInv /\ ShutdownInv /\ [Next]_vars => ShutdownInv'
<1> SUFFICES ASSUME CallersInv, ShutdownInv, [Next]_vars PROVE ShutdownInv'
  OBVIOUS
<1>1. CASE UNCHANGED vars
  BY <1>1 DEF ShutdownInv, vars, ending, local
<1>2. ASSUME NEW c \in Callers, NEW label \in Places \ {"teardown"},
             UNCHANGED ending, pc[c] # "teardown", pc' = [pc EXCEPT ![c] = label],
             \/ UNCHANGED frame
             \/ \E f : frame' = [frame EXCEPT ![c] = f]
      PROVE  ShutdownInv'
  BY <1>2, ShutdownElsewhere DEF CallersInv
<1>3. ASSUME NEW c \in Callers, ListSensors(c) PROVE ShutdownInv'
  BY <1>3, <1>2 DEF ListSensors, Goto, Places
<1>4. ASSUME NEW c \in Callers, DiscoverRaises(c) PROVE ShutdownInv'
  BY <1>4, <1>2 DEF DiscoverRaises, Return, Step, Goto, Places
<1>5. ASSUME NEW c \in Callers, Discovered(c) PROVE ShutdownInv'
  BY <1>5, <1>2 DEF Discovered, Step, Goto, Places
<1>6. ASSUME NEW c \in Callers, UpdateStatus(c) \/ StatusRaises(c) \/ PipelineRaises(c) PROVE ShutdownInv'
  BY <1>6, <1>2 DEF UpdateStatus, StatusRaises, PipelineRaises, Return, Step, Goto, Places
<1>7. ASSUME NEW c \in Callers, PublishOwner(c) PROVE ShutdownInv'
  BY <1>7, <1>2 DEF PublishOwner, Step, Goto, Places
<1>8. ASSUME NEW c \in Callers, PublishInfo(c) PROVE ShutdownInv'
  BY <1>8, <1>2 DEF PublishInfo, Return, Step, Goto, Places
<1>9. ASSUME NEW c \in Callers, NEW op \in {"read", "stream"}, NEW id \in SensorIds,
             LookUp(c, op, id)
      PROVE  ShutdownInv'
  BY <1>9, <1>2 DEF LookUp, Step, Goto, Places
<1>10. ASSUME NEW c \in Callers, Route(c) PROVE ShutdownInv'
  BY <1>10, <1>2 DEF Route, Step, Goto, Places
<1>11. ASSUME NEW c \in Callers, RouteUnknown(c) PROVE ShutdownInv'
  BY <1>11, <1>2 DEF RouteUnknown, Return, Step, Goto, Places
<1>12. ASSUME NEW c \in Callers, OpenStream(c) \/ ReadRaises(c) PROVE ShutdownInv'
  BY <1>12, <1>2 DEF OpenStream, ReadRaises, Return, Step, Goto, Places
<1>13. ASSUME NEW c \in Callers, NEW t \in Clock, Read(c, t) PROVE ShutdownInv'
  BY <1>13, <1>2 DEF Read, Step, Goto, Places
<1>14. ASSUME NEW c \in Callers, GetReadLock(c) PROVE ShutdownInv'
  BY <1>14, <1>2 DEF GetReadLock, Step, Goto, Places
<1>15. ASSUME NEW c \in Callers, TakeSeq(c) PROVE ShutdownInv'
  BY <1>15, <1>2 DEF TakeSeq, Step, Goto, Places
<1>16. ASSUME NEW c \in Callers, Stamp(c) PROVE ShutdownInv'
  BY <1>16, <1>2 DEF Stamp, Return, Step, Goto, Places
<1>17. ASSUME NEW c \in Callers, ShutdownAgain(c) PROVE ShutdownInv'
  BY <1>17 DEF ShutdownAgain, ShutdownInv, local
<1>18. ASSUME NEW c \in Callers, ShutdownBegin(c) PROVE ShutdownInv'
  <2>1. frame[c].next = 1 /\ frame[c] \in Frame
    BY <1>18 DEF ShutdownBegin, CallersInv, EmptyFrame
  <2>2. frame'[c].next = 1
    BY <1>18, <2>1 DEF ShutdownBegin, CallersInv, Frame
  <2>3. shutdownLock' = {c} /\ {d \in Callers : pc'[d] = "teardown"} = {c}
    BY <1>18 DEF ShutdownBegin, Step, Goto, ShutdownInv, CallersInv
  <2> QED BY <1>18, <2>2, <2>3 DEF ShutdownBegin, ShutdownInv, Adapters
<1>19. ASSUME NEW c \in Callers, Teardown(c) PROVE ShutdownInv'
  <2>1. shutdownLock = {c} /\ {d \in Callers : pc'[d] = "teardown"} = {c}
    BY <1>19 DEF Teardown, Step, Goto, ShutdownInv, CallersInv
  <2>2. frame[c].next \in Adapters /\ frame'[c].next = frame[c].next + 1
    BY <1>19, PriorityAssumption DEF Teardown, CallersInv, Frame, Adapters
  <2>3. \A a \in Adapters : tornDown'[a] = IF a < frame'[c].next THEN 1 ELSE 0
    BY <1>19, <2>1, <2>2, PriorityAssumption DEF Teardown, ShutdownInv, Adapters
  <2>4. tornDown' \in [Adapters -> Nat]
    BY <1>19, <2>2 DEF Teardown, ShutdownInv
  <2> QED BY <1>19, <2>1, <2>3, <2>4 DEF Teardown, ShutdownInv
<1>20. ASSUME NEW c \in Callers, ShutdownEnd(c) PROVE ShutdownInv'
  <2>1. shutdownLock = {c} /\ {d \in Callers : pc'[d] = "teardown"} = {}
    BY <1>20 DEF ShutdownEnd, Return, Step, Goto, ShutdownInv, CallersInv
  <2>2. \A a \in Adapters : tornDown[a] = 1
    BY <1>20, <2>1, PriorityAssumption
       DEF ShutdownEnd, ShutdownInv, CallersInv, Frame, Adapters
  <2> QED BY <1>20, <2>1, <2>2 DEF ShutdownEnd, ShutdownInv
<1> QED
  BY <1>1, <1>3, <1>4, <1>5, <1>6, <1>7, <1>8, <1>9, <1>10, <1>11, <1>12, <1>13, <1>14,
     <1>15, <1>16, <1>17, <1>18, <1>19, <1>20 DEF Next

(* Every adapter is torn down exactly once before any shutdown() returns:  *)
(* Registry.shutdown() called by several threads and again at exit.        *)
THEOREM ShutdownOnce == Spec => []ShutdownComplete
<1>1. Init => CallersInv /\ ShutdownInv
  <2>1. Init => ShutdownInv
    BY DEF Init, ShutdownInv
  <2> QED BY <2>1, CallersInit
<1>2. CallersInv /\ ShutdownInv /\ [Next]_vars => (CallersInv /\ ShutdownInv)'
  BY CallersStep, ShutdownStep
<1>3. CallersInv /\ ShutdownInv => ShutdownComplete
  BY DEF ShutdownInv, ShutdownComplete
<1> QED
  BY <1>1, <1>2, <1>3, PTL DEF Spec

-----------------------------------------------------------------------------
(* Who is between taking a seq and storing the next one is alone with the  *)
(* sensor, and holds what the dicts still say.                             *)
LockInv ==
  /\ \A id \in SensorIds : readLocks[id] \in {0, 1}
  /\ \A c \in Callers : pc[c] \in {"acquire", "stamp"} => frame[c].lock = 1
  /\ \A c \in Callers : pc[c] = "stamp" =>
       Lock(c) \in held /\ frame[c].seq = nextSeq[frame[c].id]
  /\ \A c, d \in Callers :
       (pc[c] = "stamp" /\ pc[d] = "stamp" /\ frame[c].id = frame[d].id) => c = d

CountersInv ==
  /\ readings \in [SensorIds -> Seq([seq : Nat, t : Int])]
  /\ lastTMono \in [SensorIds -> Int]
  /\ \A id \in SensorIds :
       /\ nextSeq[id] = Len(readings[id])
       /\ readings[id] # <<>> => lastTMono[id] = readings[id][Len(readings[id])].t

StampInv == LockInv /\ CountersInv /\ ReadingsOrdered

(* A step of a caller outside of the lock. *)
LEMMA StampElsewhere ==
  ASSUME CallersInv, StampInv, NEW c \in Callers, NEW label \in Places \ {"acquire", "stamp"},
         UNCHANGED stamps,
         pc' = [pc EXCEPT ![c] = label],
         \A d \in Callers \ {c} : frame'[d] = frame[d]
  PROVE  StampInv'
<1>1. \A d \in Callers : pc'[d] \in {"acquire", "stamp"} =>
        pc'[d] = pc[d] /\ frame'[d] = frame[d]
  BY DEF CallersInv
<1>2. LockInv'
  BY <1>1 DEF StampInv, LockInv, Lock, stamps
<1> QED
  BY <1>2 DEF StampInv, CountersInv, ReadingsOrdered, stamps

LEMMA GetReadLockStep ==
  ASSUME CallersInv, StampInv, NEW c \in Callers, GetReadLock(c)
  PROVE  StampInv'
<1>1. frame[c].id \in SensorIds /\ frame[c] \in Frame
  BY DEF GetReadLock, CallersInv, Reading
<1>2. readLocks' \in [SensorIds -> {0, 1}] /\ readLocks'[frame[c].id] = 1
  BY <1>1 DEF GetReadLock, StampInv, LockInv, CallersInv
<1>3. frame'[c].lock = 1 /\ pc'[c] = "acquire"
  BY <1>1, <1>2 DEF GetReadLock, Step, Goto, CallersInv, Frame
<1>4. \A d \in Callers \ {c} : frame'[d] = frame[d] /\ pc'[d] = pc[d]
  BY DEF GetReadLock, Step, Goto, CallersInv
<1>5. held' = held /\ nextSeq' = nextSeq /\ readings' = readings /\ lastTMono' = lastTMono
  BY DEF GetReadLock
<1>6. LockInv'
  BY <1>2, <1>3, <1>4, <1>5 DEF StampInv, LockInv, Lock
<1> QED
  BY <1>5, <1>6 DEF StampInv, CountersInv, ReadingsOrdered

LEMMA TakeSeqStep ==
  ASSUME CallersInv, StampInv, NEW c \in Callers, TakeSeq(c)
  PROVE  StampInv'
<1>1. frame[c].id \in SensorIds /\ frame[c] \in Frame /\ frame[c].lock = 1
  BY DEF TakeSeq, CallersInv, Reading, StampInv, LockInv
<1>2. /\ frame'[c].id = frame[c].id
      /\ frame'[c].lock = 1
      /\ frame'[c].seq = nextSeq[frame[c].id]
  BY <1>1 DEF TakeSeq, CallersInv, Frame
<1>3. \A d \in Callers \ {c} : frame'[d] = frame[d] /\ pc'[d] = pc[d]
  BY DEF TakeSeq, Step, Goto, CallersInv
<1>4. /\ UNCHANGED <<readLocks, nextSeq, lastTMono, readings>>
      /\ held' = held \cup {Lock(c)} /\ Lock(c) \notin held
  BY DEF TakeSeq
<1>5. \A d \in Callers \ {c} : pc[d] = "stamp" => frame[d].id # frame[c].id
  BY <1>1, <1>4 DEF StampInv, LockInv, Lock
<1>6. LockInv'
  BY <1>1, <1>2, <1>3, <1>4, <1>5 DEF StampInv, LockInv, Lock
<1> QED
  BY <1>4, <1>6 DEF StampInv, CountersInv, ReadingsOrdered

LEMMA ClampLater ==
  ASSUME NEW t \in Int, NEW previous \in Int
  PROVE  Clamp(t, previous) \in Int /\ Clamp(t, previous) > previous
BY DEF Clamp

LEMMA StampStep ==
  ASSUME CallersInv, StampInv, NEW c \in Callers, Stamp(c)
  PROVE  StampInv'
<1> DEFINE id == frame[c].id
           t == Clamp(frame[c].t, lastTMono[id])
           reading == [seq |-> frame[c].seq, t |-> t]
<1>1. /\ id \in SensorIds /\ frame[c] \in Frame /\ frame[c].lock = 1
      /\ frame[c].seq = nextSeq[id] /\ pc[c] = "stamp"
  BY DEF Stamp, CallersInv, Reading, StampInv, LockInv
<1>2. frame[c].t \in Int /\ frame[c].seq \in Nat /\ lastTMono[id] \in Int
  <2>1. frame[c].t \in Clock \cup {NoTime} /\ frame[c].seq \in Nat
    BY <1>1 DEF Frame
  <2>2. frame[c].t \in Int
    <3>1. NoTime \in Int
      BY DEF NoTime
    <3>2. Clock \subseteq Int
      BY ClockAssumption
    <3> QED BY <2>1, <3>1, <3>2
  <2>3. lastTMono[id] \in Int
    BY <1>1 DEF StampInv, CountersInv
  <2> QED BY <2>1, <2>2, <2>3
<1>3. t \in Int /\ t > lastTMono[id]
  BY <1>2, ClampLater
<1>4. /\ nextSeq' = [nextSeq EXCEPT ![id] = frame[c].seq + 1]
      /\ lastTMono' = [lastTMono EXCEPT ![id] = t]
      /\ readings' = [readings EXCEPT ![id] = Append(@, reading)]
      /\ held' = held \ {Lock(c)} /\ readLocks' = readLocks
  BY DEF Stamp
<1>5. /\ pc' = [pc EXCEPT ![c] = "idle"]
      /\ \A d \in Callers \ {c} : frame'[d] = frame[d]
  BY DEF Stamp, Return, Step, Goto, CallersInv
<1> HIDE DEF id, t
<1>6. LockInv'
  <2>1. \A d \in Callers : pc'[d] \in {"acquire", "stamp"} =>
          d # c /\ pc'[d] = pc[d] /\ frame'[d] = frame[d]
    BY <1>5 DEF CallersInv
  <2>2. \A d \in Callers \ {c} : pc[d] = "stamp" =>
          frame[d].id # id /\ frame[d].id \in SensorIds
    BY <1>1 DEF StampInv, LockInv, CallersInv, Reading, id
  <2>3. \A d \in Callers \ {c} : pc[d] = "stamp" =>
          Lock(d) \in held' /\ nextSeq'[frame[d].id] = nextSeq[frame[d].id]
    BY <2>2, <1>4 DEF StampInv, LockInv, Lock, id, CallersInv
  <2> QED BY <2>1, <2>3, <1>4 DEF StampInv, LockInv, Lock
<1>7. readings[id] \in Seq([seq : Nat, t : Int]) /\ reading \in [seq : Nat, t : Int]
  BY <1>1, <1>2, <1>3 DEF StampInv, CountersInv
<1>8. /\ readings'[id] = Append(readings[id], reading)
      /\ nextSeq'[id] = frame[c].seq + 1 /\ lastTMono'[id] = t
      /\ \A other \in SensorIds \ {id} :
           /\ readings'[other] = readings[other]
           /\ nextSeq'[other] = nextSeq[other] /\ lastTMono'[other] = lastTMono[other]
  BY <1>1, <1>4 DEF StampInv, CountersInv, CallersInv
<1>9. CountersInv'
  <2>1. /\ readings' \in [SensorIds -> Seq([seq : Nat, t : Int])]
        /\ lastTMono' \in [SensorIds -> Int]
    <3>1. Append(readings[id], reading) \in Seq([seq : Nat, t : Int])
      BY <1>7
    <3> QED BY <3>1, <1>3, <1>4 DEF StampInv, CountersInv
  <2>2. /\ Len(readings'[id]) = Len(readings[id]) + 1
        /\ readings'[id][Len(readings'[id])] = reading
    BY <1>7, <1>8
  <2>3. nextSeq'[id] = Len(readings'[id])
    BY <1>1, <1>8, <2>2 DEF StampInv, CountersInv
  <2>4. lastTMono'[id] = readings'[id][Len(readings'[id])].t
    BY <1>8, <2>2
  <2>5. \A other \in SensorIds \ {id} :
          /\ nextSeq'[other] = Len(readings'[other])
          /\ readings'[other] # <<>> =>
               lastTMono'[other] = readings'[other][Len(readings'[other])].t
    BY <1>8 DEF StampInv, CountersInv
  <2> QED BY <2>1, <2>3, <2>4, <2>5 DEF CountersInv
<1>10. ReadingsOrdered'
  <2>1. Len(readings[id]) = frame[c].seq
    BY <1>1 DEF StampInv, CountersInv
  <2>2. ASSUME NEW i \in DOMAIN readings'[id]
        PROVE  /\ readings'[id][i].seq = i - 1
               /\ i > 1 => readings'[id][i].t > readings'[id][i - 1].t
    <3>a. \A j \in DOMAIN readings[id] : readings'[id][j] = readings[id][j]
      BY <1>7, <1>8
    <3>1. CASE i \in DOMAIN readings[id]
      <4>1. readings'[id][i] = readings[id][i]
        BY <3>1, <3>a
      <4>2. i > 1 => readings'[id][i - 1] = readings[id][i - 1]
        <5>1. i > 1 => i - 1 \in DOMAIN readings[id]
          BY <3>1, <1>7
        <5> QED BY <5>1, <3>a
      <4> QED BY <3>1, <4>1, <4>2, <1>1 DEF StampInv, ReadingsOrdered
    <3>2. CASE i = Len(readings[id]) + 1
      <4>1. readings'[id][i] = reading
        BY <3>2, <1>7, <1>8
      <4>2. i > 1 => readings[id] # <<>> /\ readings'[id][i - 1] = readings[id][Len(readings[id])]
        BY <3>2, <1>7, <1>8
      <4>3. readings[id] # <<>> => lastTMono[id] = readings[id][Len(readings[id])].t
        BY <1>1 DEF StampInv, CountersInv
      <4>4. reading.seq = frame[c].seq /\ reading.t = t
        OBVIOUS
      <4>5. readings'[id][i].seq = i - 1
        BY <3>2, <4>1, <4>4, <2>1, <1>2
      <4>6. i > 1 => readings'[id][i].t > readings'[id][i - 1].t
        BY <4>1, <4>2, <4>3, <4>4, <1>3
      <4> QED BY <4>5, <4>6
    <3>3. i \in DOMAIN readings[id] \/ i = Len(readings[id]) + 1
      <4>1. DOMAIN readings'[id] = 1..(Len(readings[id]) + 1)
        BY <1>7, <1>8
      <4>2. DOMAIN readings[id] = 1..Len(readings[id]) /\ Len(readings[id]) \in Nat
        BY <1>7
      <4> QED BY <4>1, <4>2
    <3> QED BY <3>1, <3>2, <3>3
  <2>3. ASSUME NEW k \in SensorIds, NEW i \in DOMAIN readings'[k]
        PROVE  /\ readings'[k][i].seq = i - 1
               /\ i > 1 => readings'[k][i].t > readings'[k][i - 1].t
    <3>1. CASE k = id
      BY <2>2, <3>1
    <3>2. CASE k # id
      <4>1. readings'[k] = readings[k]
        BY <1>8, <3>2
      <4> QED BY <4>1 DEF StampInv, ReadingsOrdered
    <3> QED BY <3>1, <3>2
  <2> QED BY <2>3 DEF ReadingsOrdered
<1> QED
  BY <1>6, <1>9, <1>10 DEF StampInv

LEMMA StampInvStep == CallersInv /\ StampInv /\ [Next]_vars => StampInv'
<1> SUFFICES ASSUME CallersInv, StampInv, [Next]_vars PROVE StampInv'
  OBVIOUS
<1>1. CASE UNCHANGED vars
  BY <1>1 DEF StampInv, LockInv, CountersInv, ReadingsOrdered, Lock, vars, stamps, local
<1>2. ASSUME NEW c \in Callers, NEW label \in Places \ {"acquire", "stamp"},
             UNCHANGED stamps, pc' = [pc EXCEPT ![c] = label],
             \/ UNCHANGED frame
             \/ \E f : frame' = [frame EXCEPT ![c] = f]
      PROVE  StampInv'
  BY <1>2, StampElsewhere DEF CallersInv
<1>3. ASSUME NEW c \in Callers, ListSensors(c) PROVE StampInv'
  BY <1>3, <1>2 DEF ListSensors, Goto, Places
<1>4. ASSUME NEW c \in Callers, DiscoverRaises(c) PROVE StampInv'
  BY <1>4, <1>2 DEF DiscoverRaises, Return, Step, Goto, Places
<1>5. ASSUME NEW c \in Callers, Discovered(c) PROVE StampInv'
  BY <1>5, <1>2 DEF Discovered, Step, Goto, Places
<1>6. ASSUME NEW c \in Callers, UpdateStatus(c) \/ StatusRaises(c) \/ PipelineRaises(c) PROVE StampInv'
  BY <1>6, <1>2 DEF UpdateStatus, StatusRaises, PipelineRaises, Return, Step, Goto, Places
<1>7. ASSUME NEW c \in Callers, PublishOwner(c) PROVE StampInv'
  BY <1>7, <1>2 DEF PublishOwner, Step, Goto, Places
<1>8. ASSUME NEW c \in Callers, PublishInfo(c) PROVE StampInv'
  BY <1>8, <1>2 DEF PublishInfo, Return, Step, Goto, Places
<1>9. ASSUME NEW c \in Callers, NEW op \in {"read", "stream"}, NEW id \in SensorIds,
             LookUp(c, op, id)
      PROVE  StampInv'
  BY <1>9, <1>2 DEF LookUp, Step, Goto, Places
<1>10. ASSUME NEW c \in Callers, Route(c) PROVE StampInv'
  BY <1>10, <1>2 DEF Route, Step, Goto, Places
<1>11. ASSUME NEW c \in Callers, RouteUnknown(c) PROVE StampInv'
  BY <1>11, <1>2 DEF RouteUnknown, Return, Step, Goto, Places
<1>12. ASSUME NEW c \in Callers, OpenStream(c) \/ ReadRaises(c) PROVE StampInv'
  BY <1>12, <1>2 DEF OpenStream, ReadRaises, Return, Step, Goto, Places
<1>13. ASSUME NEW c \in Callers, NEW t \in Clock, Read(c, t) PROVE StampInv'
  BY <1>13, <1>2 DEF Read, Step, Goto, Places
<1>14. ASSUME NEW c \in Callers, ShutdownAgain(c) PROVE StampInv'
  BY <1>14 DEF ShutdownAgain, StampInv, LockInv, CountersInv, ReadingsOrdered, Lock,
               stamps, local
<1>15. ASSUME NEW c \in Callers, ShutdownBegin(c) PROVE StampInv'
  BY <1>15, <1>2 DEF ShutdownBegin, Step, Goto, Places
<1>16. ASSUME NEW c \in Callers, Teardown(c) PROVE StampInv'
  BY <1>16, <1>2 DEF Teardown, Step, Goto, Places
<1>17. ASSUME NEW c \in Callers, ShutdownEnd(c) PROVE StampInv'
  BY <1>17, <1>2 DEF ShutdownEnd, Return, Step, Goto, Places
<1> QED
  BY <1>1, <1>3, <1>4, <1>5, <1>6, <1>7, <1>8, <1>9, <1>10, <1>11, <1>12, <1>13, <1>14,
     <1>15, <1>16, <1>17, GetReadLockStep, TakeSeqStep, StampStep DEF Next

(* docs/REFERENCE.md:877: "t_mono never decreases for a sensor, and        *)
(* concurrent readers get distinct seq values", for any number of threads  *)
(* and readings, whatever clock the adapter has: _finalize_reading.        *)
THEOREM ReadingsInOrder == Spec => []ReadingsOrdered
<1>1. Init => CallersInv /\ StampInv
  <2>1. Init => CountersInv /\ ReadingsOrdered
    BY DEF Init, CountersInv, ReadingsOrdered, NoTime
  <2>2. Init => LockInv
    BY DEF Init, LockInv
  <2> QED BY <2>1, <2>2, CallersInit DEF StampInv
<1>2. CallersInv /\ StampInv /\ [Next]_vars => (CallersInv /\ StampInv)'
  BY CallersStep, StampInvStep
<1>3. StampInv => ReadingsOrdered
  BY DEF StampInv
<1> QED
  BY <1>1, <1>2, <1>3, PTL DEF Spec

-----------------------------------------------------------------------------
(* Which actions touch what. *)
Enumerates(c) ==
  ListSensors(c) \/ DiscoverRaises(c) \/ Discovered(c) \/ UpdateStatus(c)
    \/ StatusRaises(c) \/ PipelineRaises(c)
Reads(c) ==
  \/ \E op \in {"read", "stream"}, id \in SensorIds : LookUp(c, op, id)
  \/ Route(c) \/ RouteUnknown(c) \/ OpenStream(c) \/ ReadRaises(c)
  \/ \E t \in Clock : Read(c, t)
Stamps(c) == GetReadLock(c) \/ TakeSeq(c) \/ Stamp(c)
ShutsDown(c) == ShutdownAgain(c) \/ ShutdownBegin(c) \/ Teardown(c) \/ ShutdownEnd(c)

LEMMA NextIs ==
  ASSUME Next
  PROVE  \E c \in Callers : \/ Enumerates(c) \/ PublishOwner(c) \/ PublishInfo(c)
                            \/ Reads(c) \/ Stamps(c) \/ ShutsDown(c)
BY DEF Next, Enumerates, Reads, Stamps, ShutsDown

LEMMA Untouched ==
  ASSUME NEW c \in Callers
  PROVE  /\ Enumerates(c) => UNCHANGED <<caches, stamps, ending, publish>>
         /\ PublishOwner(c) \/ PublishInfo(c) => UNCHANGED <<stamps, ending, status, listings>>
         /\ Reads(c) => UNCHANGED <<caches, stamps, ending, status, publish, listings>>
         /\ Stamps(c) => UNCHANGED <<caches, ending, status, publish, listings>>
         /\ ShutsDown(c) => UNCHANGED <<caches, stamps, status, publish, listings>>
<1>1. Enumerates(c) => UNCHANGED <<caches, stamps, ending, publish>>
  BY DEF Enumerates, ListSensors, DiscoverRaises, Discovered, UpdateStatus, StatusRaises, PipelineRaises
<1>2. PublishOwner(c) \/ PublishInfo(c) => UNCHANGED <<stamps, ending, status, listings>>
  BY DEF PublishOwner, PublishInfo, Return, Step
<1>3. Reads(c) => UNCHANGED <<caches, stamps, ending, status, publish, listings>>
  BY DEF Reads, LookUp, Route, RouteUnknown, OpenStream, ReadRaises, Read, Return, Step
<1>4. Stamps(c) => UNCHANGED <<caches, ending, status, publish, listings>>
  BY DEF Stamps, GetReadLock, TakeSeq, Stamp, Return, Step
<1>5. ShutsDown(c) => UNCHANGED <<caches, stamps, status, publish, listings>>
  BY DEF ShutsDown, ShutdownAgain, ShutdownBegin, Teardown, ShutdownEnd, Return, Step, local
<1> QED
  BY <1>1, <1>2, <1>3, <1>4, <1>5

(* Only the two assignments of list_sensors begin and end a publication.   *)
LEMMA PublishingKept ==
  ASSUME CallersInv, NEW c \in Callers,
         Enumerates(c) \/ Reads(c) \/ Stamps(c) \/ ShutsDown(c)
  PROVE  /\ Publishing' = Publishing
         /\ \A d \in Publishing : frame'[d] = frame[d]
<1>1. ASSUME NEW label, label # "publish", NEW f,
             pc[c] # "publish", pc' = [pc EXCEPT ![c] = label],
             frame' = frame \/ frame' = [frame EXCEPT ![c] = f]
      PROVE  /\ Publishing' = Publishing
             /\ \A d \in Publishing : frame'[d] = frame[d]
  BY <1>1 DEF Publishing, CallersInv
<1>2. CASE Enumerates(c)
  <2>1. CASE ListSensors(c)
    BY <1>1, <2>1 DEF ListSensors, Goto
  <2>2. CASE Discovered(c)
    BY <1>1, <2>2 DEF Discovered, Step, Goto
  <2>3. CASE UpdateStatus(c)
    BY <1>1, <2>3 DEF UpdateStatus, Step, Goto
  <2>4. CASE DiscoverRaises(c) \/ StatusRaises(c) \/ PipelineRaises(c)
    BY <1>1, <2>4 DEF DiscoverRaises, StatusRaises, PipelineRaises, Return, Step, Goto
  <2> QED
    BY <1>2, <2>1, <2>2, <2>3, <2>4 DEF Enumerates
<1>3. CASE Reads(c)
  BY <1>1, <1>3 DEF Reads, LookUp, Route, RouteUnknown, OpenStream, ReadRaises, Read, Return, Step, Goto
<1>4. CASE Stamps(c)
  BY <1>1, <1>4 DEF Stamps, GetReadLock, TakeSeq, Stamp, Return, Step, Goto
<1>5. CASE ShutsDown(c)
  BY <1>1, <1>5 DEF ShutsDown, ShutdownAgain, ShutdownBegin, Teardown, ShutdownEnd, Return,
                    Step, Goto, local, Publishing
<1> QED
  BY <1>2, <1>3, <1>4, <1>5

-----------------------------------------------------------------------------
(* What a publication that no other one overlaps has left in the dicts.    *)
PublishInv ==
  /\ overlapping \subseteq Publishing
  /\ \A c \in Publishing \ overlapping :
       Publishing = {c} /\ sensorOwner = NewOwner(frame[c].raw)
  /\ Routable

LEMMA PublishedRoutable ==
  ASSUME NEW raw \in RawResults
  PROVE  /\ DOMAIN NewOwner(raw) \subseteq DOMAIN NewInfo(raw)
         /\ \A id \in DOMAIN NewInfo(raw) \ DOMAIN NewOwner(raw) :
              NewInfo(raw)[id].source \cap Adapters = {} /\ Shortened(id)
<1>1. DOMAIN NewInfo(raw) = Listed(raw)
  BY DEF NewInfo
<1>2. DOMAIN NewOwner(raw) = {ResolvedId(raw, e) : e \in Owned(raw)}
  BY DEF NewOwner
<1>3. DOMAIN NewOwner(raw) \subseteq DOMAIN NewInfo(raw)
  BY <1>1, <1>2 DEF Owned, Listed
<1>4. ASSUME NEW id \in DOMAIN NewInfo(raw) \ DOMAIN NewOwner(raw)
      PROVE  NewInfo(raw)[id].source \cap Adapters = {} /\ Shortened(id)
  <2> DEFINE e == ListedAs(raw, id)
  <2>1. Namesakes(raw, id) # {}
    BY <1>1, <1>4 DEF Listed, Namesakes
  <2>2. e \in Namesakes(raw, id)
    BY <2>1, LastOfIsIn DEF ListedAs
  <2>3. e \in Candidates(raw) /\ ResolvedId(raw, e) = id
    BY <2>2 DEF Namesakes
  <2>4. Owner(raw, e) = NoOwner
    BY <1>2, <1>4, <2>3 DEF Owned
  <2>5. Record(raw, e).source \cap Adapters = {} /\ Shortened(id)
    BY <2>3, <2>4, OwnerlessIsShortened
  <2>6. NewInfo(raw)[id].source = Record(raw, e).source
    <3>1. NewInfo(raw)[id] = [Record(raw, e) EXCEPT !.id = id]
      BY <1>1, <1>4 DEF NewInfo
    <3>2. Record(raw, e) \in SensorRecord
      BY <2>3, CandidateIs
    <3> HIDE DEF e
    <3> QED
      BY <3>1, <3>2 DEF SensorRecord
  <2> QED
    BY <2>5, <2>6
<1> QED
  BY <1>3, <1>4

LEMMA PublishStep == CallersInv /\ PublishInv /\ [Next]_vars => PublishInv'
<1> SUFFICES ASSUME CallersInv, PublishInv, [Next]_vars PROVE PublishInv'
  OBVIOUS
<1>1. ASSUME UNCHANGED <<caches, publish>>, Publishing' = Publishing,
             \A d \in Publishing : frame'[d] = frame[d]
      PROVE  PublishInv'
  BY <1>1 DEF PublishInv, Routable, caches, publish
<1>2. CASE UNCHANGED vars
  BY <1>1, <1>2 DEF vars, local, Publishing
<1>3. ASSUME NEW c \in Callers, PublishOwner(c) PROVE PublishInv'
  <2>1. Publishing' = Publishing \cup {c}
    BY <1>3 DEF PublishOwner, Step, Goto, Publishing, CallersInv
  <2>2. /\ sensorOwner' = NewOwner(frame[c].raw)
        /\ frame' = frame
        /\ overlapping' = IF Publishing = {} THEN overlapping ELSE overlapping \cup Publishing \cup {c}
    BY <1>3 DEF PublishOwner
  <2>3. Publishing' # {}
    BY <2>1
  <2>4. Routable'
    BY <2>3 DEF Routable
  <2>5. CASE Publishing = {}
    BY <2>1, <2>2, <2>4, <2>5 DEF PublishInv
  <2>6. CASE Publishing # {}
    <3>1. overlapping' = Publishing'
      BY <2>1, <2>2, <2>6 DEF PublishInv
    <3> QED
      BY <3>1, <2>4 DEF PublishInv
  <2> QED
    BY <2>5, <2>6
<1>4. ASSUME NEW c \in Callers, PublishInfo(c) PROVE PublishInv'
  <2>1. c \in Publishing /\ Publishing' = Publishing \ {c}
    BY <1>4 DEF PublishInfo, Return, Step, Goto, Publishing, CallersInv
  <2>2. /\ sensorInfo' = NewInfo(frame[c].raw) /\ sensorOwner' = sensorOwner
        /\ overlapping' = overlapping \ {c} /\ mixed' = (c \in overlapping)
    BY <1>4 DEF PublishInfo
  <2>3. CASE c \in overlapping
    <3>1. mixed'
      BY <2>2, <2>3
    <3>2. Routable'
      BY <3>1 DEF Routable
    <3>3. \A d \in Publishing' \ overlapping' : FALSE
      BY <2>1, <2>2, <2>3 DEF PublishInv
    <3> QED
      BY <2>1, <2>2, <3>2, <3>3 DEF PublishInv
  <2>4. CASE c \notin overlapping
    <3>1. Publishing = {c} /\ sensorOwner = NewOwner(frame[c].raw)
      BY <2>1, <2>4 DEF PublishInv
    <3>2. frame[c].raw \in RawResults
      BY DEF CallersInv, Frame
    <3>3. Routable'
      BY <2>2, <3>1, <3>2, PublishedRoutable DEF Routable
    <3>4. Publishing' = {} /\ overlapping' = {}
      BY <2>1, <2>2, <3>1 DEF PublishInv
    <3> QED
      BY <3>3, <3>4 DEF PublishInv
  <2> QED
    BY <2>3, <2>4
<1>5. ASSUME NEW c \in Callers, Enumerates(c) \/ Reads(c) \/ Stamps(c) \/ ShutsDown(c)
      PROVE  PublishInv'
  <2>1. UNCHANGED <<caches, publish>>
    BY <1>5, Untouched
  <2> QED
    BY <1>1, <1>5, <2>1, PublishingKept
<1> QED
  BY <1>2, <1>3, <1>4, <1>5, NextIs

(* list_sensors (routing.py:219): whatever the adapters return and however *)
(* many threads enumerate, the dict of owners and that of descriptions     *)
(* agree when no thread is between the two assignments, unless the last    *)
(* two publications overlapped; only an id shortened for its suffix, of a  *)
(* sensor whose source names no adapter, has no owner.                     *)
THEOREM ListedIsRoutable == Spec => []Routable
<1>1. Init => CallersInv /\ PublishInv
  <2>1. Init => Publishing = {}
    BY DEF Init, Publishing
  <2>2. Init => DOMAIN sensorInfo = {} /\ DOMAIN sensorOwner = {} /\ overlapping = {}
    BY DEF Init, Empty
  <2>3. Init => PublishInv
    BY <2>1, <2>2 DEF PublishInv, Routable
  <2> QED
    BY <2>3, CallersInit
<1>2. CallersInv /\ PublishInv /\ [Next]_vars => (CallersInv /\ PublishInv)'
  BY CallersStep, PublishStep
<1>3. PublishInv => Routable
  BY DEF PublishInv
<1> QED
  BY <1>1, <1>2, <1>3, PTL DEF Spec

-----------------------------------------------------------------------------
(* The rest of the type invariant, by what is touched together; and what   *)
(* is published has ids.                                                   *)
CachesTyped ==
  /\ DOMAIN sensorOwner \subseteq SensorIds /\ Range(sensorOwner) \subseteq Adapters
  /\ DOMAIN sensorInfo \subseteq SensorIds
  /\ overlapping \subseteq Callers /\ mixed \in BOOLEAN
  /\ \A c \in Publishing : Listed(frame[c].raw) \subseteq SensorIds
StatusTyped ==
  status \in [Adapters -> [state : {"loaded", "degraded"}, count : Nat, timeout : BOOLEAN]]
StampsTyped ==
  /\ held \subseteq SensorIds \X Nat
  /\ lastTMono \in [SensorIds -> Nat \cup {NoTime}]
  /\ readings \in [SensorIds -> Seq([seq : Nat, t : Nat])]
EndingTyped ==
  /\ shutdownLock \subseteq Callers
  /\ shutdownDone \in BOOLEAN /\ discoveryShut \in BOOLEAN /\ returned \in BOOLEAN
  /\ tornDown \in [Adapters -> Nat]
TypesInv ==
  CallersInv /\ CachesTyped /\ StatusTyped /\ StampsTyped /\ EndingTyped /\ listings \in Nat

LEMMA CachesStep == CallersInv /\ CachesTyped /\ [Next]_vars => CachesTyped'
<1> SUFFICES ASSUME CallersInv, CachesTyped, [Next]_vars PROVE CachesTyped'
  OBVIOUS
<1>1. ASSUME UNCHANGED <<caches, publish>>, Publishing' = Publishing,
             \A d \in Publishing : frame'[d] = frame[d]
      PROVE  CachesTyped'
  BY <1>1 DEF CachesTyped, caches, publish
<1>2. CASE UNCHANGED vars
  BY <1>1, <1>2 DEF vars, local, Publishing
<1>3. ASSUME NEW c \in Callers, PublishOwner(c) PROVE CachesTyped'
  <2>1. Publishing' = Publishing \cup {c} /\ frame' = frame
    BY <1>3 DEF PublishOwner, Step, Goto, Publishing, CallersInv
  <2>2. frame[c].raw \in RawResults /\ ~Raises(frame[c].raw)
    BY <1>3 DEF PublishOwner, CallersInv, Frame
  <2>3. Listed(frame[c].raw) \subseteq SensorIds
    BY <2>2, SensorIdsAssumption
  <2>4. sensorOwner' = NewOwner(frame[c].raw)
    BY <1>3 DEF PublishOwner
  <2>5. DOMAIN sensorOwner' \subseteq SensorIds
    BY <2>2, <2>3, <2>4, PublishedRoutable DEF NewInfo
  <2>6. Range(sensorOwner') \subseteq Adapters
    BY <2>2, <2>4, NewOwnerType DEF Range
  <2>7. overlapping' \subseteq Callers
    BY <1>3 DEF PublishOwner, CachesTyped, Publishing
  <2>8. \A d \in Publishing' : Listed(frame'[d].raw) \subseteq SensorIds
    BY <2>1, <2>3 DEF CachesTyped
  <2> QED
    BY <1>3, <2>5, <2>6, <2>7, <2>8 DEF PublishOwner, CachesTyped
<1>4. ASSUME NEW c \in Callers, PublishInfo(c) PROVE CachesTyped'
  <2>1. c \in Publishing /\ Publishing' = Publishing \ {c}
    BY <1>4 DEF PublishInfo, Return, Step, Goto, Publishing, CallersInv
  <2>2. \A d \in Publishing' : frame'[d] = frame[d]
    BY <1>4, <2>1 DEF PublishInfo, Return, Publishing, CallersInv
  <2>3. DOMAIN sensorInfo' \subseteq SensorIds
    BY <1>4, <2>1 DEF PublishInfo, NewInfo, CachesTyped
  <2>4. \A d \in Publishing' : Listed(frame'[d].raw) \subseteq SensorIds
    BY <2>1, <2>2 DEF CachesTyped
  <2> QED
    BY <1>4, <2>3, <2>4 DEF PublishInfo, CachesTyped
<1>5. ASSUME NEW c \in Callers, Enumerates(c) \/ Reads(c) \/ Stamps(c) \/ ShutsDown(c)
      PROVE  CachesTyped'
  <2>1. UNCHANGED <<caches, publish>>
    BY <1>5, Untouched
  <2> QED
    BY <1>1, <1>5, <2>1, PublishingKept
<1> QED
  BY <1>2, <1>3, <1>4, <1>5, NextIs

LEMMA NewStatusType ==
  ASSUME NEW old \in [state : {"loaded", "degraded"}, count : Nat, timeout : BOOLEAN],
         NEW outcome \in Failures \cup {"sensors"}, NEW count \in Nat
  PROVE  NewStatus(old, outcome, count)
           \in [state : {"loaded", "degraded"}, count : Nat, timeout : BOOLEAN]
BY DEF NewStatus, Failures

LEMMA StatusStep == CallersInv /\ StatusTyped /\ [Next]_vars => StatusTyped'
<1> SUFFICES ASSUME CallersInv, StatusTyped, [Next]_vars PROVE StatusTyped'
  OBVIOUS
<1>1. CASE UNCHANGED status
  BY <1>1 DEF StatusTyped
<1>2. CASE UNCHANGED vars
  BY <1>1, <1>2 DEF vars
<1>3. ASSUME NEW c \in Callers, UpdateStatus(c) PROVE StatusTyped'
  <2> DEFINE a == frame[c].next
             count == Len(frame[c].raw[a])
             new == NewStatus(status[a], frame[c].outcome[a], count)
  <2>1. frame[c] \in Frame
    BY DEF CallersInv
  <2>2. a \in Adapters
    BY <1>3, <2>1, PriorityAssumption DEF UpdateStatus, Frame, Adapters
  <2>3. frame[c].raw[a] \in Seq(SensorRecord)
    <3>1. frame[c].raw \in RawResults
      BY <2>1 DEF Frame
    <3>2. ASSUME NEW raw \in RawResults, NEW i \in Adapters PROVE raw[i] \in Seq(SensorRecord)
      <4>1. raw[i] \in {<<>>} \cup Results[i] /\ Results[i] \subseteq Seq(SensorRecord)
        BY ResultsAssumption DEF RawResults
      <4>2. <<>> \in Seq(SensorRecord)
        OBVIOUS
      <4>3. CASE raw[i] = <<>>
        BY <4>2, <4>3
      <4>4. CASE raw[i] \in Results[i]
        BY <4>1, <4>4
      <4> QED
        BY <4>1, <4>3, <4>4
    <3> QED
      BY <2>2, <3>1, <3>2
  <2>4. count \in Nat
    BY <2>3
  <2>5. frame[c].outcome[a] \in Failures \cup {"sensors"}
    BY <2>1, <2>2 DEF Frame
  <2>6. new \in [state : {"loaded", "degraded"}, count : Nat, timeout : BOOLEAN]
    BY <2>2, <2>4, <2>5, NewStatusType DEF StatusTyped
  <2>7. status' = [status EXCEPT ![a] = new]
    BY <1>3 DEF UpdateStatus
  <2> HIDE DEF new, a
  <2> QED
    BY <2>6, <2>7 DEF StatusTyped
<1>4. ASSUME NEW c \in Callers, Enumerates(c), ~UpdateStatus(c) PROVE StatusTyped'
  BY <1>1, <1>4 DEF Enumerates, ListSensors, DiscoverRaises, Discovered, StatusRaises, PipelineRaises
<1> QED
  BY <1>1, <1>2, <1>3, <1>4, NextIs, Untouched

LEMMA StampsStep == CallersInv /\ CallersInv' /\ StampsTyped /\ [Next]_vars => StampsTyped'
<1> SUFFICES ASSUME CallersInv, CallersInv', StampsTyped, [Next]_vars PROVE StampsTyped'
  OBVIOUS
<1>1. CASE UNCHANGED stamps
  BY <1>1 DEF StampsTyped, stamps
<1>2. CASE UNCHANGED vars
  BY <1>1, <1>2 DEF vars
<1>3. ASSUME NEW c \in Callers, GetReadLock(c) PROVE StampsTyped'
  BY <1>3 DEF GetReadLock, StampsTyped
<1>4. ASSUME NEW c \in Callers, TakeSeq(c) PROVE StampsTyped'
  <2>1. frame[c].id \in SensorIds /\ frame[c].lock \in Nat
    BY <1>4 DEF TakeSeq, CallersInv, Reading, Frame
  <2> QED
    BY <1>4, <2>1 DEF TakeSeq, StampsTyped, Lock
<1>5. ASSUME NEW c \in Callers, Stamp(c) PROVE StampsTyped'
  <2> DEFINE id == frame[c].id
             t == Clamp(frame[c].t, lastTMono[id])
  <2>1. id \in SensorIds /\ frame[c].seq \in Nat /\ frame[c].t \in Nat \cup {NoTime}
    BY <1>5, ClockAssumption DEF Stamp, CallersInv, Reading, Frame
  <2>2. lastTMono[id] \in Nat \cup {NoTime}
    BY <2>1 DEF StampsTyped
  <2>3. t \in Nat
    BY <2>1, <2>2 DEF Clamp, NoTime
  <2>4. /\ lastTMono' = [lastTMono EXCEPT ![id] = t]
        /\ readings' = [readings EXCEPT ![id] = Append(@, [seq |-> frame[c].seq, t |-> t])]
        /\ held' = held \ {Lock(c)}
    BY <1>5 DEF Stamp
  <2>5. Append(readings[id], [seq |-> frame[c].seq, t |-> t]) \in Seq([seq : Nat, t : Nat])
    BY <2>1, <2>3 DEF StampsTyped
  <2> HIDE DEF id, t
  <2> QED
    BY <2>1, <2>3, <2>4, <2>5 DEF StampsTyped
<1> QED
  BY <1>1, <1>2, <1>3, <1>4, <1>5, NextIs, Untouched DEF Stamps

LEMMA EndingStep == CallersInv /\ EndingTyped /\ [Next]_vars => EndingTyped'
<1> SUFFICES ASSUME CallersInv, EndingTyped, [Next]_vars PROVE EndingTyped'
  OBVIOUS
<1>1. CASE UNCHANGED ending
  BY <1>1 DEF EndingTyped, ending
<1>2. CASE UNCHANGED vars
  BY <1>1, <1>2 DEF vars
<1>3. ASSUME NEW c \in Callers, ShutdownAgain(c) \/ ShutdownBegin(c) \/ ShutdownEnd(c)
      PROVE  EndingTyped'
  BY <1>3 DEF ShutdownAgain, ShutdownBegin, ShutdownEnd, EndingTyped
<1>4. ASSUME NEW c \in Callers, Teardown(c) PROVE EndingTyped'
  <2>1. \A a \in Adapters : tornDown[a] + 1 \in Nat
    BY DEF EndingTyped
  <2>2. frame[c].next \in Adapters
    BY <1>4, PriorityAssumption DEF Teardown, CallersInv, Frame, Adapters
  <2> QED
    BY <1>4, <2>1, <2>2 DEF Teardown, EndingTyped
<1> QED
  BY <1>1, <1>2, <1>3, <1>4, NextIs, Untouched DEF ShutsDown

LEMMA TypesStep == TypesInv /\ [Next]_vars => TypesInv'
<1> SUFFICES ASSUME TypesInv, [Next]_vars PROVE TypesInv'
  OBVIOUS
<1>1. listings' \in Nat
  <2>1. CASE UNCHANGED vars
    BY <2>1 DEF vars, local, TypesInv
  <2>2. ASSUME NEW c \in Callers, Enumerates(c) PROVE listings' \in Nat
    BY <2>2 DEF Enumerates, ListSensors, DiscoverRaises, Discovered, UpdateStatus,
                StatusRaises, PipelineRaises, Return, Step, TypesInv
  <2> QED
    BY <2>1, <2>2, NextIs, Untouched DEF TypesInv
<1> QED
  BY <1>1, CallersStep, CachesStep, StatusStep, StampsStep, EndingStep DEF TypesInv

(* Every variable of the registry keeps its type: in particular a sensor   *)
(* is routed to an adapter that is loaded, and t_mono is never negative.   *)
THEOREM RegistryTypes == Spec => []TypeOK
<1>1. Init => TypesInv
  <2>1. Init => CachesTyped /\ Publishing = {}
    BY DEF Init, CachesTyped, Empty, Range, Publishing
  <2>2. Init => StatusTyped
    BY DEF Init, StatusTyped
  <2>3. Init => StampsTyped
    BY DEF Init, StampsTyped
  <2>4. Init => EndingTyped
    <3>1. ASSUME Init PROVE tornDown \in [Adapters -> Nat]
      BY <3>1 DEF Init
    <3> QED
      BY <3>1 DEF Init, EndingTyped
  <2> QED
    BY <2>1, <2>2, <2>3, <2>4, CallersInit DEF TypesInv, Init
<1>2. TypesInv => TypeOK
  BY DEF TypesInv, CallersInv, CachesTyped, StatusTyped, StampsTyped, EndingTyped, TypeOK
<1> QED
  BY <1>1, <1>2, TypesStep, PTL DEF Spec
=============================================================================
