------------------------------- MODULE Blocks -------------------------------
(***************************************************************************)
(* The blocks a stream delivers: the two fields of a Reading               *)
(* (schema/reading.py) that the streaming code reads or writes.  The       *)
(* values and the time stamps are carried along unchanged and left out.    *)
(***************************************************************************)
EXTENDS Naturals, Integers

(* The Status members (schema/enums.py) a block may carry. *)
Status == {"ok", "stale", "degraded", "unavailable"}

Block == [seq : Nat, status : Status]

(* Python's None: an empty slot, or the result of pop() on a drained ring. *)
NoBlock == [seq |-> -1, status |-> "none"]

(* _RingBuffer.pop's rewrite of a block that follows a discard: only an ok *)
(* block is marked, any other status is delivered as the source set it.    *)
Degrade(b) ==
  IF b.status = "ok" THEN [seq |-> b.seq, status |-> "degraded"] ELSE b
=============================================================================
