----------------------------- MODULE Validation -----------------------------
(***************************************************************************)
(* What the registry accepts from an adapter: validate_sensor_info and     *)
(* validate_reading of schema/validate.py, and nearest_supported_rate of   *)
(* schema/rate.py, with which adapters configure a rate.  Pure operators.  *)
(*                                                                         *)
(* A SensorInfo is a record with the fields                                *)
(*   dtype       "scalar", "vector3", "matrix", "buffer"                   *)
(*   shape       a sequence of dimensions                                  *)
(*   channels    how many names it has                                     *)
(*   range       {<<min, max>>}                                            *)
(*   resolution  {number}                                                  *)
(*   rate        the sets default, min and max, and the sequence supported *)
(*   named       nothing required is null, id, unit and the names of the   *)
(*               channels are non-empty strings of limited length          *)
(*   tokens      delivery, availability and kind are of their vocabulary,  *)
(*               schema_version has this MAJOR, no extra key is a field    *)
(* A field that may be None is a set, empty for None.  Numbers are whole;  *)
(* rates count in units that make the lowest and highest legal one         *)
(* LowestRate and HighestRate.                                             *)
(***************************************************************************)
EXTENDS Integers, Sequences, SequencesExt, FiniteSetsExt

SensorInfo ==
  [dtype : {"scalar", "vector3", "matrix", "buffer"}, shape : Seq(Int), channels : Nat,
   range : SUBSET (Int \X Int), resolution : SUBSET Int,
   rate : [default : SUBSET Int, min : SUBSET Int, max : SUBSET Int, supported : Seq(Int)],
   named : BOOLEAN, tokens : BOOLEAN]

LowestRate == 1
HighestRate == 6   (* bound: stands for 192 kHz *)
LargestDim == 1048576

ShapeInBounds(shape) ==
  /\ Len(shape) \in 1..4
  /\ \A k \in DOMAIN shape : shape[k] \in 1..LargestDim

ShapeFits(dtype, shape) ==
  CASE dtype = "scalar"  -> shape = <<1>>
    [] dtype = "vector3" -> shape = <<3>>
    [] dtype = "matrix"  -> Len(shape) = 2
    [] dtype = "buffer"  -> Len(shape) \in {1, 2}

(* Mutant: the rows are counted. *)
ChannelCountOfRows(shape) == shape[1]

(* Columns of two dimensions, else the first dimension. *)
ChannelCount(shape) == IF Len(shape) = 2 THEN shape[2] ELSE shape[1]

RangeHolds(info) ==
  \A b \in info.range : b[1] <= b[2]

ResolutionHolds(info) ==
  \A s \in info.resolution :
    /\ s > 0
    /\ \A b \in info.range : b[1] <= b[2] => s <= b[2] - b[1]

(* The order is looked at only if all three are given, and supported rates *)
(* need not lie between min and max.                                       *)
RateHolds(rate) ==
  /\ rate.default \cup rate.min \cup rate.max \cup ToSet(rate.supported)
       \subseteq LowestRate..HighestRate
  /\ \A lo \in rate.min, d \in rate.default, hi \in rate.max : lo <= d /\ d <= hi

(* What is asked of single fields. *)
FieldsHold(info) == info.named /\ info.tokens

(* validate_sensor_info finds no violation. *)
Accepted(info) ==
  /\ FieldsHold(info)
  /\ ShapeInBounds(info.shape)
  /\ ShapeFits(info.dtype, info.shape)
  /\ info.channels = ChannelCount(info.shape)
  /\ RangeHolds(info)
  /\ ResolutionHolds(info)
  /\ RateHolds(info.rate)

Product(shape) ==
  LET product[k \in 0..Len(shape)] == IF k = 0 THEN 1 ELSE product[k - 1] * shape[k]
  IN  product[Len(shape)]

(* validate_reading finds no violation in a reading of so many values. *)
ReadingAccepted(info, values, status) ==
  IF values = 0 THEN status = "unavailable" ELSE values = Product(info.shape)

-----------------------------------------------------------------------------
Refused(rate, requested) ==
  \/ \E lo \in rate.min : requested < lo
  \/ \E hi \in rate.max : requested > hi

Distance(x, y) == IF x < y THEN y - x ELSE x - y

(* One turn of the loop over the supported rates. *)
Better(best, candidate, requested) ==
  LET replaces == \A b \in best :
        \/ Distance(candidate, requested) < Distance(b, requested)
        \/ Distance(candidate, requested) = Distance(b, requested) /\ candidate < b
  IN IF replaces THEN {candidate} ELSE best

(* nearest_supported_rate; empty for RateOutOfRangeError. *)
NearestSupportedRate(rate, requested) ==
  IF Refused(rate, requested) THEN {}
  ELSE IF rate.supported = <<>> THEN {requested}
  ELSE LET best[k \in 0..Len(rate.supported)] ==
             IF k = 0 THEN {} ELSE Better(best[k - 1], rate.supported[k], requested)
       IN  best[Len(rate.supported)]
=============================================================================
