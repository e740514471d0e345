------------------------------ MODULE BlockFeed ------------------------------
(***************************************************************************)
(* What a Stream promises the threads that iterate over it: blocks come in *)
(* the order of their numbers, the oldest is given up when there is no     *)
(* room, each one given up counts in discarded_blocks and is announced by  *)
(* the block behind it, the last one is never given up, and a thread is    *)
(* told that the stream is over only when every block is accounted for and *)
(* none will come any more.                                                *)
(*                                                                         *)
(* There is no ring, no thread and no lock here; Stream has them.          *)
(***************************************************************************)
EXTENDS Blocks, Sequences

CONSTANT Consumers  (* the threads that iterate *)

VARIABLES
  numbered,   (* how many blocks the producer numbered *)
  lost,       (* discarded_blocks *)
  delivered,  (* the blocks that were handed out, in order *)
  ended,      (* no block will come any more *)
  telling     (* the threads that are being told so, by StopIteration *)

vars == <<numbered, lost, delivered, ended, telling>>

Init ==
  /\ numbered = 0
  /\ lost = 0
  /\ delivered = <<>>
  /\ ended = FALSE
  /\ telling = {}

(* The number of the oldest block that was neither delivered nor given up. *)
Oldest == Len(delivered) + lost

(* The number that would follow the last block delivered without a gap. *)
Following == IF delivered = <<>> THEN 0 ELSE delivered[Len(delivered)].seq + 1

(* A block comes from the source, and an older one may have to give way. *)
Number ==
  /\ ~ended
  /\ numbered' = numbered + 1
  /\ lost' = lost \/ (Oldest < numbered /\ lost' = lost + 1)
  /\ UNCHANGED <<delivered, ended, telling>>

(* The oldest block is handed out, marked if others are missing before it. *)
(* With the last one of a stream that is closed the stream ends.           *)
Deliver(status) ==
  /\ ~ended
  /\ Oldest < numbered
  /\ status = "degraded" => Following < Oldest
  /\ Following < Oldest => status # "ok"
  /\ delivered' = Append(delivered, [seq |-> Oldest, status |-> status])
  /\ ended' \in {FALSE, Oldest + 1 = numbered}
  /\ UNCHANGED <<numbered, lost, telling>>

(* The stream is closed and nothing is left in it. *)
End ==
  /\ ~ended
  /\ Oldest = numbered
  /\ ended' = TRUE
  /\ UNCHANGED <<numbered, lost, delivered, telling>>

Tell(c) ==
  /\ ended
  /\ telling' = telling \cup {c}
  /\ UNCHANGED <<numbered, lost, delivered, ended>>

Told(c) ==
  /\ telling' = telling \ {c}
  /\ UNCHANGED <<numbered, lost, delivered, ended>>

Next ==
  \/ Number \/ End
  \/ \E status \in Status : Deliver(status)
  \/ \E c \in Consumers : Tell(c) \/ Told(c)

Spec == Init /\ [][Next]_vars
=============================================================================
