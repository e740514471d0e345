----------------------------- MODULE RingBuffer -----------------------------
(***************************************************************************)
(* _RingBuffer of registry/streaming.py: a fixed array of slots addressed  *)
(* by a head and a tail position modulo the capacity, guarded by one lock  *)
(* and the condition variable _not_empty.  Each method body runs under the *)
(* lock and is one action, but pop() has three endings: it takes a block,  *)
(* answers None, or goes to sleep on the condition.  A sleeper leaves the  *)
(* condition only when notify() or notify_all() picks it, and then has to  *)
(* get the lock again and re-test, so another consumer may come first.     *)
(***************************************************************************)
EXTENDS Blocks, Sequences, FiniteSets

CONSTANTS
  Capacity,    (* buffer_blocks *)
  Consumers,   (* the threads that call pop() *)
  Pushed       (* the blocks the producer may push *)

ASSUME CapacityAssumption  == Capacity \in Nat \ {0}
ASSUME ConsumersAssumption == IsFiniteSet(Consumers)
ASSUME PushedAssumption    == Pushed \subseteq Block

VARIABLES
  buf,          (* _buf: 0..Capacity-1 -> block or None *)
  head,         (* _head: the oldest occupied slot *)
  tail,         (* _tail: the next slot to write *)
  count,        (* _count *)
  discarded,    (* _discarded *)
  degradeNext,  (* _degrade_next *)
  closed,       (* _closed *)
  waiting,      (* consumers asleep in _not_empty.wait() *)
  notified,     (* consumers woken that have not re-acquired the lock yet *)
  block         (* what the last pop() of each consumer returned *)

slots   == <<buf, head, tail, count>>
sleep   == <<waiting, notified>>
vars    == <<slots, discarded, degradeNext, closed, sleep, block>>

Slot == 0..(Capacity - 1)

(* (i + 1) % self._capacity *)
NextSlot(i) == (i + 1) % Capacity

Init ==
  /\ buf = [i \in Slot |-> NoBlock]
  /\ head = 0
  /\ tail = 0
  /\ count = 0
  /\ discarded = 0
  /\ degradeNext = FALSE
  /\ closed = FALSE
  /\ waiting = {}
  /\ notified = {}
  /\ block = [c \in Consumers |-> NoBlock]

(* Mutant: a push only notifies when the ring was empty. *)
NotifyIfEmpty ==
  \/ /\ waiting = {} \/ count > 0
     /\ UNCHANGED sleep
  \/ /\ count = 0
     /\ \E w \in waiting :
          /\ waiting' = waiting \ {w}
          /\ notified' = notified \cup {w}

(* _not_empty.notify(): wakes one sleeper, if there is any. *)
Notify ==
  \/ /\ waiting = {}
     /\ UNCHANGED sleep
  \/ \E w \in waiting :
       /\ waiting' = waiting \ {w}
       /\ notified' = notified \cup {w}

(* Mutant: close() wakes one sleeper only. *)
NotifyOne ==
  \/ waiting = {} /\ UNCHANGED sleep
  \/ \E w \in waiting :
       /\ waiting' = waiting \ {w}
       /\ notified' = notified \cup {w}

(* _not_empty.notify_all() *)
NotifyAll ==
  /\ waiting' = {}
  /\ notified' = notified \cup waiting

(* The two assignments that end every push on an open ring. *)
Store(b) ==
  /\ buf' = [buf EXCEPT ![tail] = b]
  /\ tail' = NextSlot(tail)

PushRoom(b) ==
  /\ ~closed
  /\ count # Capacity
  /\ count' = count + 1
  /\ Store(b)
  /\ Notify
  /\ UNCHANGED <<head, discarded, degradeNext, closed, block>>

(* Mutant: the eviction does not advance the head. *)
PushFullKeepsHead(b) ==
  /\ ~closed
  /\ count = Capacity
  /\ discarded' = discarded + 1
  /\ degradeNext' = TRUE
  /\ Store(b)
  /\ Notify
  /\ UNCHANGED <<head, count, closed, block>>

PushFull(b) ==
  /\ ~closed
  /\ count = Capacity
  /\ head' = NextSlot(head)
  /\ discarded' = discarded + 1
  /\ degradeNext' = TRUE
  /\ Store(b)
  /\ Notify
  /\ UNCHANGED <<count, closed, block>>

PushClosed == closed /\ UNCHANGED vars

(* A consumer holding the lock: it enters pop(), or wait() has returned. *)
Runs(c) == c \notin waiting

PopWait(c) ==
  /\ Runs(c)
  /\ count = 0
  /\ ~closed
  /\ waiting' = waiting \cup {c}
  /\ notified' = notified \ {c}
  /\ UNCHANGED <<slots, discarded, degradeNext, closed, block>>

PopNone(c) ==
  /\ Runs(c)
  /\ count = 0
  /\ closed
  /\ block' = [block EXCEPT ![c] = NoBlock]
  /\ notified' = notified \ {c}
  /\ UNCHANGED <<slots, discarded, degradeNext, closed, waiting>>

(* Mutant: the mark is not one-shot. *)
PopBlockKeepsMark(c) ==
  /\ Runs(c)
  /\ count # 0
  /\ block' = [block EXCEPT ![c] =
                 IF degradeNext THEN Degrade(buf[head]) ELSE buf[head]]
  /\ buf' = [buf EXCEPT ![head] = NoBlock]
  /\ head' = NextSlot(head)
  /\ count' = count - 1
  /\ notified' = notified \ {c}
  /\ UNCHANGED <<tail, discarded, degradeNext, closed, waiting>>

PopBlock(c) ==
  /\ Runs(c)
  /\ count # 0
  /\ block' = [block EXCEPT ![c] =
                 IF degradeNext THEN Degrade(buf[head]) ELSE buf[head]]
  /\ buf' = [buf EXCEPT ![head] = NoBlock]
  /\ head' = NextSlot(head)
  /\ count' = count - 1
  /\ degradeNext' = FALSE
  /\ notified' = notified \ {c}
  /\ UNCHANGED <<tail, discarded, closed, waiting>>

Close ==
  /\ closed' = TRUE
  /\ NotifyAll
  /\ UNCHANGED <<slots, discarded, degradeNext, block>>

Next ==
  \/ \E b \in Pushed : PushRoom(b) \/ PushFull(b)
  \/ PushClosed
  \/ \E c \in Consumers : PopWait(c) \/ PopNone(c) \/ PopBlock(c)
  \/ Close

(* A woken or running consumer gets the lock in the end; nobody is made to *)
(* push, to close, or to call pop() again.                                 *)
Fairness == \A c \in Consumers :
              WF_vars(c \in notified /\ (PopWait(c) \/ PopNone(c) \/ PopBlock(c)))

Spec == Init /\ [][Next]_vars
FairSpec == Spec /\ Fairness

-----------------------------------------------------------------------------
TypeOK ==
  /\ buf \in [Slot -> Block \cup {NoBlock}]
  /\ head \in Slot
  /\ tail \in Slot
  /\ count \in 0..Capacity
  /\ discarded \in Nat
  /\ degradeNext \in BOOLEAN
  /\ closed \in BOOLEAN
  /\ waiting \subseteq Consumers
  /\ notified \subseteq Consumers
  /\ block \in [Consumers -> Block \cup {NoBlock}]

(* The slot i places after slot h.  h is below Capacity and i at most      *)
(* Capacity, so one subtraction is the modulus.                            *)
SlotAfter(h, i) == IF h + i < Capacity THEN h + i ELSE h + i - Capacity

(* The slot of the i-th undelivered block, i counted from 0. *)
SlotOf(i) == SlotAfter(head, i)

(* The three counters _head, _tail and _count, kept by separate branches   *)
(* of push and pop, always describe one window of the array: the tail is   *)
(* count slots after the head, the slots of the window hold blocks (so the *)
(* assertion in pop cannot fail) and the others hold None (no delivered or *)
(* evicted block stays reachable from the buffer).                         *)
WindowInv ==
  /\ tail = SlotOf(count)
  /\ \A i \in 0..(count - 1) : buf[SlotOf(i)] # NoBlock
  /\ \A i \in count..(Capacity - 1) : buf[SlotOf(i)] = NoBlock

(* No lost wake-up.  notify() wakes one sleeper per push and a woken       *)
(* consumer may find that another one has taken its block; even so, while  *)
(* somebody sleeps there is a woken consumer for every undelivered block,  *)
(* and nobody sleeps on a closed ring.                                     *)
NoLostWakeup ==
  waiting # {} => ~closed /\ count <= Cardinality(notified)

(* The n blocks of array a from slot h on, and those of the ring: the     *)
(* undelivered blocks, oldest first.                                       *)
Window(a, h, n) == [i \in 1..n |-> a[SlotAfter(h, i - 1)]]
Contents == Window(buf, head, count)

Queue == INSTANCE BlockQueue WITH queue <- Contents

(* The array, its modular positions and its eviction branch behave as the  *)
(* lossy FIFO queue: every step is a step of BlockQueue or a stutter.      *)
ImplementsQueue == Queue!Spec

(* A consumer that sleeps while a block is waiting, or on a closed ring,   *)
(* is only on its way to be scheduled: the block is taken or it wakes.     *)
SleeperServed ==
  \A c \in Consumers :
    (c \in waiting /\ (count > 0 \/ closed))
      ~> (c \notin waiting \/ (count = 0 /\ ~closed))
=============================================================================
