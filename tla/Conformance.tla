---------------------------- MODULE Conformance ----------------------------
(***************************************************************************)
(* The five checks of adapters/conformance.py, as predicates on what an    *)
(* adapter does when it is called.  The fields of its record here are      *)
(*   discovers  "returns", "raises", or "changes": every second call       *)
(*              reports other sensors                                      *)
(*   valid      its records pass validate_sensor_info                      *)
(*   buffer     its sensor is of dtype buffer                              *)
(*   streams    it has open_stream()                                       *)
(*   reads      read() of its sensor: "valid", "invalid", "unavailable",   *)
(*              "slow" and "broken" (it raises SensorUnavailableError,     *)
(*              ReadTimeoutError, another exception)                       *)
(*   rejects    read() of an unknown sensor raises                         *)
(* An adapter reports one sensor; read() exists by the protocol.           *)
(***************************************************************************)

Discovers(a) == a.discovers # "raises"
ReadRaises(a) == a.reads \in {"unavailable", "slow", "broken"}

(* Buffer sensors are not read. *)
SchemaComplies(a) ==
  /\ Discovers(a)
  /\ a.valid
  /\ a.buffer \/ a.reads = "valid"

StableIds(a) == a.discovers = "returns"

(* Mutant: the check from before the camera that nobody could read. *)
SensorsReachableUnchecked(a) == Discovers(a)

SensorsReachable(a) ==
  /\ Discovers(a)
  /\ a.buffer => a.streams

ErrorsBehave(a) ==
  /\ Discovers(a)
  /\ a.buffer \/ ~ReadRaises(a)
  /\ a.rejects

DeclaredReadOnly(a) == a.declared

(* run_conformance_check: all five are run, whatever the others found. *)
Conforms(a) ==
  /\ SchemaComplies(a)
  /\ StableIds(a)
  /\ SensorsReachable(a)
  /\ ErrorsBehave(a)
  /\ DeclaredReadOnly(a)
=============================================================================
