---------------------------- MODULE MCRingBuffer ----------------------------
(* Small instances of RingBuffer for TLC. *)
EXTENDS RingBuffer

CONSTANT MaxDiscarded   (* bound on the counter _discarded *)

(* A block that pop() marks after a discard, and one that it does not. *)
MCPushed == { [seq |-> 0, status |-> "ok"], [seq |-> 1, status |-> "stale"] }

MCNext == Next /\ discarded' <= MaxDiscarded

MCSpec == Init /\ [][MCNext]_vars /\ Fairness
=============================================================================
