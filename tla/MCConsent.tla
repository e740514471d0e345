------------------------------ MODULE MCConsent ------------------------------
(* Two threads and two sensors: grants that share a sensor, and one that   *)
(* covers more than the other.                                             *)
EXTENDS Consent, TLC

Symmetry == Permutations(Threads) \cup Permutations(Sensors)
==============================================================================
