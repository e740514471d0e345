--------------------------- MODULE PipelineInputs ---------------------------
(***************************************************************************)
(* All small inputs of the pipeline, and what its result must be for each: *)
(* a state is one raw_results.                                              *)
(***************************************************************************)
EXTENDS Pipeline

CONSTANTS
  Ids,       (* the ids adapters may write *)
  OddIds,    (* those of which only plain valid records are tried *)
  Plain,     (* an info that is accepted *)
  Broken,    (* one that is not *)
  Infos,     (* other infos *)
  MaxRecords (* bound: records of all adapters together *)

ASSUME IdsAssumption == Ids \subseteq Seq(Nat) \ {<<>>} /\ OddIds \subseteq Ids
ASSUME InfosAssumption ==
  {Plain, Broken} \cup Infos \subseteq SensorInfo /\ Accepted(Plain) /\ ~Accepted(Broken)

VARIABLE raw_results

RecordOf(a) ==
  {[id |-> id, info |-> Plain, source |-> {name}] : id \in Ids \ OddIds, name \in {a, Qualifier}}
    \cup {[id |-> id, info |-> Broken, source |-> {Qualifier}] : id \in Ids \ OddIds}
    \cup {[id |-> id, info |-> Plain, source |-> {Qualifier}] : id \in OddIds}

InputsInit == raw_results = [a \in Adapters |-> <<>>]

(* discover() of a returns one record more. *)
ReturnRecord(a, r) ==
  /\ Cardinality(Entry(raw_results)) < MaxRecords
  /\ \A e \in Entry(raw_results) : Record(raw_results, e).info \in {Plain, Broken}
  /\ raw_results' = [raw_results EXCEPT ![a] = Append(@, r)]

(* The only record of a round, with whatever info.  Bound: such records    *)
(* come alone, for pipeline and info meet in Accepted only.                *)
ReturnOnly(a, info) ==
  /\ Entry(raw_results) = {}
  /\ \E id \in OddIds :
       raw_results' =
         [raw_results EXCEPT ![a] = <<[id |-> id, info |-> info, source |-> {Qualifier}]>>]

(* The next call of list_sensors begins with none. *)
Restart == raw_results' = [a \in Adapters |-> <<>>]

InputsNext ==
  \/ Restart
  \/ \E a \in Adapters :
       (\E r \in RecordOf(a) : ReturnRecord(a, r)) \/ (\E info \in Infos : ReturnOnly(a, info))

InputsSpec == InputsInit /\ [][InputsNext]_raw_results

-----------------------------------------------------------------------------
(* e stands for a sensor of a. *)
Describes(e, a) ==
  \/ e.adapter = a
  \/ Merged(raw_results, e) /\ a \in AdaptersSeen(raw_results, Record(raw_results, e).id)

(* No sensor is lost or listed twice, whichever way its id collides: of    *)
(* every adapter, as many sensors are listed under an id as it returned    *)
(* valid records with that id.  Only one thing loses them all: an adapter  *)
(* that repeats a malformed id of its own.  Several adapters that share    *)
(* one do no harm.                                                         *)
EverySensorListed ==
  /\ \A id \in Ids :
       LET listed == {e \in Candidates(raw_results) : Record(raw_results, e).id = id}
       IN  \A a \in Adapters :
             Cardinality({e \in listed : Describes(e, a)})
               = Cardinality({e \in Group(raw_results, id) : e.adapter = a})
  /\ Raises(raw_results) <=>
       \E id \in Malformed : \E e, f \in Group(raw_results, id) : e.adapter = f.adapter /\ e # f

(* No adapter writes an id that a suffix makes, or may seem to make, out   *)
(* of another one, and room for a suffix does not make two ids the same.   *)
NoLookalike ==
  LET ids == {Record(raw_results, e).id : e \in Entry(raw_results)}
  IN  \A x, y \in ids :
        /\ ~IsStrictPrefix(x, y)
        /\ \A k \in 0..Cardinality(Entry(raw_results)) :
             Suffixed(x, k) # y /\ (Suffixed(x, k) = Suffixed(y, k) => x = y)

(* "Every sensor is kept": no two that are listed have one id, or one      *)
(* would overwrite the other in the registry's dicts.                      *)
NoneOverwritten ==
  IsInjective([e \in Candidates(raw_results) |-> ResolvedId(raw_results, e)])

(* Every sensor that is listed can be asked for, when conflicts and        *)
(* collisions of several adapters come together: the suffixes never meet.  *)
IdsDistinct == NoLookalike => NoneOverwritten

(* A read is sent to an adapter that has the sensor, although the suffixed *)
(* id is in no adapter's list and source may name no adapter.  (A sensor   *)
(* whose id had to be shortened for its suffix has no owner then.)         *)
OwnerHasSensor ==
  NoLookalike =>
    \A e \in Candidates(raw_results) :
      LET id == Record(raw_results, e).id IN
      /\ IsPrefix(id, ResolvedId(raw_results, e))
      /\ Source(raw_results, e) \cap Adapters # {} \/ Returned(raw_results, {id}) = {e.adapter}
      => /\ Owner(raw_results, e) \in AdaptersSeen(raw_results, id)
         /\ Describes(e, Owner(raw_results, e))

-----------------------------------------------------------------------------
(* A reading that has values falls into rows of one value per channel, as  *)
(* many rows as the dimensions but the last, which varies fastest, say.    *)
ValuesFillChannels(info) ==
  \A n \in 1..Product(info.shape) :
    ReadingAccepted(info, n, "ok") <=> n = info.channels * Product(Front(info.shape))

(* The rate that is applied is a supported one and none is nearer; of two  *)
(* the lower, in whatever order they are declared.  The default is never   *)
(* refused if all three numbers are given.                                 *)
RatesHonoured(rate) ==
  /\ \A r \in {x \in LowestRate..HighestRate : ~Refused(rate, x)} :
       IF rate.supported = <<>> THEN NearestSupportedRate(rate, r) = {r}
       ELSE LET near == {x \in ToSet(rate.supported) :
                          \A y \in ToSet(rate.supported) : Distance(x, r) <= Distance(y, r)}
            IN  NearestSupportedRate(rate, r) = {Min(near)}
  /\ rate.min # {} /\ rate.max # {} => \A d \in rate.default : ~Refused(rate, d)

(* A record that gets through the validation can be used as the schema     *)
(* says, although the rules for dtype, shape, channels and readings, and   *)
(* those for the rates, are checked and applied in different places.       *)
AcceptedServable ==
  \A info \in {Record(raw_results, e).info : e \in Validated(raw_results)} :
    ValuesFillChannels(info) /\ RatesHonoured(info.rate)
=============================================================================
