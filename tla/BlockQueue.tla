----------------------------- MODULE BlockQueue -----------------------------
(***************************************************************************)
(* What the ring buffer of registry/streaming.py promises its users: a     *)
(* bounded FIFO queue that never blocks its producer.  A push into a full  *)
(* queue drops the OLDEST block, counts it, and leaves a one-shot mark     *)
(* that the next block popped takes with it.  A closed queue ignores       *)
(* pushes and still delivers what it holds; once it is closed and empty,   *)
(* pop answers None.                                                       *)
(*                                                                         *)
(* RingBuffer is the array with its head, tail and condition variable that *)
(* implements this module; Stream composes this module with the threads    *)
(* around it.                                                              *)
(***************************************************************************)
EXTENDS Blocks, Sequences

CONSTANTS
  Capacity,    (* buffer_blocks *)
  Consumers,   (* the threads that call pop() *)
  Pushed       (* the blocks that may be pushed *)

VARIABLES
  queue,        (* the undelivered blocks, oldest first *)
  discarded,    (* _discarded *)
  degradeNext,  (* _degrade_next *)
  closed,       (* _closed *)
  block         (* what the last pop() of each consumer returned *)

vars == <<queue, discarded, degradeNext, closed, block>>

TypeOK ==
  /\ queue \in Seq(Block)
  /\ Len(queue) \in 0..Capacity
  /\ discarded \in Nat
  /\ degradeNext \in BOOLEAN
  /\ closed \in BOOLEAN
  /\ block \in [Consumers -> Block \cup {NoBlock}]

Init ==
  /\ queue = <<>>
  /\ discarded = 0
  /\ degradeNext = FALSE
  /\ closed = FALSE
  /\ block = [c \in Consumers |-> NoBlock]

(* push(b) into a queue with room for it. *)
Enqueue(b) ==
  /\ ~closed
  /\ Len(queue) < Capacity
  /\ queue' = Append(queue, b)
  /\ UNCHANGED <<discarded, degradeNext, closed, block>>

(* push(b) into a full queue: the oldest block makes room for it. *)
DropOldest(b) ==
  /\ ~closed
  /\ Len(queue) = Capacity
  /\ queue' = Append(Tail(queue), b)
  /\ discarded' = discarded + 1
  /\ degradeNext' = TRUE
  /\ UNCHANGED <<closed, block>>

(* push(b) into a closed queue returns at once. *)
Ignore == closed /\ UNCHANGED vars

Push(b) == Enqueue(b) \/ DropOldest(b) \/ Ignore

(* Mutant: the mark is not one-shot. *)
PopBlockKeepsMark(c) ==
  /\ queue # <<>>
  /\ block' = [block EXCEPT ![c] =
                 IF degradeNext THEN Degrade(Head(queue)) ELSE Head(queue)]
  /\ queue' = Tail(queue)
  /\ UNCHANGED <<discarded, degradeNext, closed>>

(* pop() with a block to deliver, whether the queue is closed or not. *)
PopBlock(c) ==
  /\ queue # <<>>
  /\ block' = [block EXCEPT ![c] =
                 IF degradeNext THEN Degrade(Head(queue)) ELSE Head(queue)]
  /\ queue' = Tail(queue)
  /\ degradeNext' = FALSE
  /\ UNCHANGED <<discarded, closed>>

(* pop() on a drained, closed queue. *)
PopNone(c) ==
  /\ closed
  /\ queue = <<>>
  /\ block' = [block EXCEPT ![c] = NoBlock]
  /\ UNCHANGED <<queue, discarded, degradeNext, closed>>

Close ==
  /\ closed' = TRUE
  /\ UNCHANGED <<queue, discarded, degradeNext, block>>

Next ==
  \/ \E b \in Pushed : Push(b)
  \/ \E c \in Consumers : PopBlock(c) \/ PopNone(c)
  \/ Close

Spec == Init /\ [][Next]_vars
=============================================================================
