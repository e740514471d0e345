------------------------------ MODULE Pipeline ------------------------------
(***************************************************************************)
(* run_pipeline of registry/dedup.py with the collision suffixes of        *)
(* registry/ids.py, and the choice of the adapter that list_sensors of     *)
(* registry/routing.py makes for every sensor.  Pure operators on          *)
(* raw_results: for every adapter, the sequence of records that its        *)
(* discover() returned.                                                    *)
(*                                                                         *)
(* Adapters are numbered in load order; the number is the adapter_id.  An  *)
(* id is a sequence: a base, and the numbers of the suffixes "-0", "-1"    *)
(* it ends in, whether the adapter or the registry put them there.         *)
(* Validation does not ask an id for its three segments, so there are ids  *)
(* that cannot be split into them.  A record has an id, its source and,    *)
(* as info, the fields that Validation looks at; source is a set, for the  *)
(* only tuple with several elements lists adapters in load order.          *)
(***************************************************************************)
EXTENDS Validation

CONSTANTS
  NumAdapters, (* the adapters, in the order they were loaded *)
  Priority,    (* meta.priority of each; Undeclared is below them all *)
  Malformed,   (* ids that are not three segments *)
  Stem         (* for a pair of an id whose last segment is near its longest
                  and a suffix, the id that is left when room is made for it *)

Adapters == 1..NumAdapters
Undeclared == 0

ASSUME PriorityAssumption ==
  NumAdapters \in Nat \ {0} /\ Priority \in [Adapters -> Nat]
ASSUME StemAssumption ==
  \A long \in DOMAIN Stem : Stem[long] \in Seq(Nat) /\ ~IsPrefix(long[1], Stem[long])

SensorRecord == [id : Seq(Nat) \ {<<>>}, source : SUBSET Nat, info : SensorInfo]

(* What an adapter may write into source instead of its adapter_id. *)
Qualifier == 0

-----------------------------------------------------------------------------
(* Steps 1 and 2: valid records, by id *)

Entry(raw) == UNION {{[adapter |-> a, pos |-> i] : i \in DOMAIN raw[a]} : a \in Adapters}
Record(raw, e) == raw[e.adapter][e.pos]
Validated(raw) == {e \in Entry(raw) : Accepted(Record(raw, e).info)}

(* The order of collection: adapters in load order, each list as returned. *)
Before(e, f) ==
  \/ e.adapter < f.adapter
  \/ e.adapter = f.adapter /\ e.pos < f.pos

Group(raw, id) == {e \in Validated(raw) : Record(raw, e).id = id}
AdaptersSeen(raw, id) == {e.adapter : e \in Group(raw, id)}
Conflict(raw, id) == Cardinality(AdaptersSeen(raw, id)) > 1

-----------------------------------------------------------------------------
(* Step 3: one record for what several adapters report *)

Representatives(raw, id) ==
  LET group == Group(raw, id)
  IN  {e \in group : \A f \in group : f.adapter = e.adapter => e.pos <= f.pos}

(* The highest priority; of equals, the first loaded. *)
Winner(raw, id) ==
  LET competing == Representatives(raw, id)
  IN  CHOOSE e \in competing : \A f \in competing \ {e} :
        \/ Priority[e.adapter] > Priority[f.adapter]
        \/ Priority[e.adapter] = Priority[f.adapter] /\ e.adapter < f.adapter

Merged(raw, e) ==
  LET id == Record(raw, e).id IN Conflict(raw, id) /\ e = Winner(raw, id)

(* Mutant: a conflict leaves the merged record and nothing else. *)
CandidatesMergedOnly(raw) ==
  {e \in Validated(raw) : Conflict(raw, Record(raw, e).id) => Merged(raw, e)}

(* Whatever an adapter reports under the id beyond its first record is     *)
(* another sensor.                                                         *)
Candidates(raw) ==
  {e \in Validated(raw) :
    LET id == Record(raw, e).id IN
    (Conflict(raw, id) /\ e \in Representatives(raw, id)) => e = Winner(raw, id)}

Source(raw, e) ==
  IF Merged(raw, e) THEN AdaptersSeen(raw, Record(raw, e).id) ELSE Record(raw, e).source

-----------------------------------------------------------------------------
(* Step 4: resolve_collisions *)

Occurrence(raw, e) ==
  Cardinality({f \in Candidates(raw) :
                 Record(raw, f).id = Record(raw, e).id /\ Before(f, e)})

Suffixed(id, k) == Append(IF <<id, k>> \in DOMAIN Stem THEN Stem[<<id, k>>] ELSE id, k)

(* Mutant: an adapter's sensors are counted without the others'. *)
ResolvedIdByAdapter(raw, e) ==
  LET earlier == {f \in Candidates(raw) : Record(raw, f).id = Record(raw, e).id
                                            /\ f.adapter = e.adapter /\ f.pos < e.pos}
  IN IF earlier = {} THEN Record(raw, e).id
     ELSE Suffixed(Record(raw, e).id, Cardinality(earlier) - 1)

ResolvedId(raw, e) ==
  LET id == Record(raw, e).id
  IN  IF Occurrence(raw, e) = 0 THEN id ELSE Suffixed(id, Occurrence(raw, e) - 1)

(* split() cannot be unpacked: the ValueError leaves list_sensors, and no  *)
(* sensor of any adapter is listed.                                        *)
Raises(raw) ==
  \E e \in Candidates(raw) : Record(raw, e).id \in Malformed /\ Occurrence(raw, e) > 0

-----------------------------------------------------------------------------
(* Steps 5 and 6 *)

(* "x" < "x-0" < "x-0-0" < "x-1": the order of the strings, for single     *)
(* digits.                                                                 *)
IdLess(x, y) ==
  \/ IsStrictPrefix(x, y)
  \/ \E k \in DOMAIN x \cap DOMAIN y :
       x[k] < y[k] /\ SubSeq(x, 1, k - 1) = SubSeq(y, 1, k - 1)

ListedBefore(raw, e, f) ==
  \/ e.adapter < f.adapter
  \/ e.adapter = f.adapter /\ IdLess(ResolvedId(raw, e), ResolvedId(raw, f))
  \/ e.adapter = f.adapter /\ ResolvedId(raw, e) = ResolvedId(raw, f) /\ e.pos < f.pos

(* The dicts that list_sensors fills by id keep the last of equal ids. *)
Listed(raw) == {ResolvedId(raw, e) : e \in Candidates(raw)}
Namesakes(raw, id) == {e \in Candidates(raw) : ResolvedId(raw, e) = id}
LastOf(raw, es) == CHOOSE e \in es : \A f \in es \ {e} : ListedBefore(raw, f, e)
ListedAs(raw, id) == LastOf(raw, Namesakes(raw, id))

-----------------------------------------------------------------------------
(* The owner in list_sensors *)

Stripped(id) == IF Len(id) > 1 THEN Front(id) ELSE id

(* Adapters that returned one of the ids, in a valid record or not. *)
Returned(raw, ids) == {a \in Adapters : \E i \in DOMAIN raw[a] : raw[a][i].id \in ids}

NoOwner == 0
FirstLoaded(as) == IF as = {} THEN NoOwner ELSE Min(as)

(* Mutant: the suffix is not stripped, the suffixed id is in no list. *)
OwnerVerbatim(raw, e) ==
  IF Source(raw, e) \cap Adapters # {}
    THEN FirstLoaded(Source(raw, e) \cap Adapters)
    ELSE FirstLoaded(Returned(raw, {ResolvedId(raw, e)}))

Owner(raw, e) ==
  IF Source(raw, e) \cap Adapters # {}
    THEN FirstLoaded(Source(raw, e) \cap Adapters)
    ELSE FirstLoaded(Returned(raw, {ResolvedId(raw, e), Stripped(ResolvedId(raw, e))}))
=============================================================================
