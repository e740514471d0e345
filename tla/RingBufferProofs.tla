-------------------------- MODULE RingBufferProofs --------------------------
(***************************************************************************)
(* Proofs about RingBuffer, for every capacity, every finite set of        *)
(* consumers and every set of blocks pushed:                               *)
(*   TypeCorrect     the type invariant,                                   *)
(*   WindowCorrect   the head, tail and count positions,                   *)
(*   WakeupCorrect   no wake-up is lost,                                   *)
(*   RefinesQueue    the ring implements BlockQueue.                       *)
(***************************************************************************)
EXTENDS RingBuffer, FiniteSetTheorems, SequenceTheorems, TLAPS

(* The modulus of NextSlot only ever wraps the last slot to the first. *)
LEMMA NextSlotIs ==
  ASSUME NEW i \in Slot
  PROVE  /\ NextSlot(i) = IF i + 1 < Capacity THEN i + 1 ELSE 0
         /\ NextSlot(i) \in Slot
BY CapacityAssumption DEF NextSlot, Slot

(* The slot i places after slot h, for the i that stay in the window. *)
LEMMA SlotAfterFacts ==
  ASSUME NEW h \in Slot
  PROVE  /\ SlotAfter(h, 0) = h
         /\ SlotAfter(h, Capacity) = h
         /\ \A i \in 0..(Capacity - 1) :
              /\ SlotAfter(h, i) \in Slot
              /\ i # 0 => SlotAfter(h, i) # h
              /\ SlotAfter(NextSlot(h), i) = SlotAfter(h, i + 1)
              /\ NextSlot(SlotAfter(h, i)) = SlotAfter(h, i + 1)
<1>1. \A i \in 0..(Capacity - 1) : SlotAfter(h, i) \in Slot
  BY CapacityAssumption DEF SlotAfter, Slot
<1>2. \A i \in 0..(Capacity - 1) :
        /\ SlotAfter(NextSlot(h), i) = SlotAfter(h, i + 1)
        /\ NextSlot(SlotAfter(h, i)) = SlotAfter(h, i + 1)
  BY <1>1, NextSlotIs, CapacityAssumption DEF SlotAfter, Slot
<1> QED
  BY <1>1, <1>2, CapacityAssumption DEF SlotAfter, Slot

(* Two places of the window never share a slot. *)
LEMMA SlotAfterInjective ==
  ASSUME NEW h \in Slot,
         NEW i \in 0..(Capacity - 1), NEW j \in 0..(Capacity - 1),
         SlotAfter(h, i) = SlotAfter(h, j)
  PROVE  i = j
BY CapacityAssumption DEF SlotAfter, Slot

(* Every slot is a place of the window of a full ring. *)
LEMMA SlotAfterOnto ==
  ASSUME NEW h \in Slot, NEW s \in Slot
  PROVE  \E i \in 0..(Capacity - 1) : SlotAfter(h, i) = s
<1>1. CASE h <= s
  <2>1. s - h \in 0..(Capacity - 1) /\ SlotAfter(h, s - h) = s
    BY <1>1, CapacityAssumption DEF SlotAfter, Slot
  <2> QED BY <2>1
<1>2. CASE s < h
  <2>1. /\ s + Capacity - h \in 0..(Capacity - 1)
        /\ SlotAfter(h, s + Capacity - h) = s
    BY <1>2, CapacityAssumption DEF SlotAfter, Slot
  <2> QED BY <2>1
<1> QED BY <1>1, <1>2 DEF Slot

(* None is not a block, and marking a block leaves it one. *)
LEMMA BlockFacts ==
  /\ NoBlock \notin Block
  /\ \A b \in Block : Degrade(b) \in Block
BY DEF NoBlock, Block, Degrade, Status

-----------------------------------------------------------------------------
(* Type correctness and the window invariant.  They are one induction: a   *)
(* block popped has its type because the slot at the head is not empty.    *)
RingInv == TypeOK /\ WindowInv

LEMMA RingInit == Init => RingInv
<1> SUFFICES ASSUME Init PROVE RingInv
  OBVIOUS
<1>1. 0 \in Slot
  BY CapacityAssumption DEF Slot
<1>2. TypeOK
  <2>1. /\ buf \in [Slot -> Block \cup {NoBlock}]
        /\ block \in [Consumers -> Block \cup {NoBlock}]
    BY DEF Init
  <2>2. count \in 0..Capacity /\ discarded \in Nat
    BY CapacityAssumption DEF Init
  <2> QED BY <1>1, <2>1, <2>2 DEF Init, TypeOK
<1>3. WindowInv
  <2>1. head = 0 /\ tail = 0 /\ count = 0 /\ head \in Slot
    BY <1>1 DEF Init
  <2>2. \A i \in 0..(Capacity - 1) : buf[SlotAfter(head, i)] = NoBlock
    BY <2>1, SlotAfterFacts DEF Init
  <2>3. tail = SlotAfter(head, count)
    BY <2>1, SlotAfterFacts
  <2> QED BY <2>1, <2>2, <2>3 DEF WindowInv, SlotOf
<1> QED BY <1>2, <1>3 DEF RingInv

(* The block stored by a push and the position after it. *)
LEMMA StoreType ==
  ASSUME TypeOK, NEW b \in Pushed, Store(b)
  PROVE  /\ buf' \in [Slot -> Block \cup {NoBlock}]
         /\ tail' \in Slot
BY PushedAssumption, NextSlotIs DEF TypeOK, Store

LEMMA NotifyType ==
  ASSUME TypeOK, Notify
  PROVE  waiting' \subseteq Consumers /\ notified' \subseteq Consumers
BY DEF TypeOK, Notify, sleep

LEMMA PushRoomRing ==
  ASSUME RingInv, NEW b \in Pushed, PushRoom(b)
  PROVE  RingInv'
<1> USE DEF RingInv
<1>1. TypeOK'
  BY StoreType, NotifyType, CapacityAssumption DEF TypeOK, PushRoom
<1>2. WindowInv'
  <2>1. b # NoBlock
    BY PushedAssumption, BlockFacts
  <2>2. /\ head' = head
        /\ head \in Slot
        /\ count' = count + 1
        /\ count \in 0..(Capacity - 1)
        /\ tail = SlotAfter(head, count)
        /\ tail' = SlotAfter(head, count + 1)
    BY SlotAfterFacts, CapacityAssumption
    DEF TypeOK, WindowInv, PushRoom, Store, SlotOf
  <2>3. \A i \in 0..(Capacity - 1) :
          buf'[SlotAfter(head, i)] =
            IF i = count THEN b ELSE buf[SlotAfter(head, i)]
    <3> SUFFICES ASSUME NEW i \in 0..(Capacity - 1)
                 PROVE  buf'[SlotAfter(head, i)] =
                          IF i = count THEN b ELSE buf[SlotAfter(head, i)]
      OBVIOUS
    <3>1. SlotAfter(head, i) \in Slot
      BY <2>2, SlotAfterFacts
    <3>2. SlotAfter(head, i) = tail => i = count
      BY <2>2, SlotAfterInjective
    <3> QED BY <2>2, <3>1, <3>2 DEF TypeOK, PushRoom, Store
  <2> QED
    BY <2>1, <2>2, <2>3, CapacityAssumption DEF WindowInv, SlotOf
<1> QED BY <1>1, <1>2

LEMMA PushFullRing ==
  ASSUME RingInv, NEW b \in Pushed, PushFull(b)
  PROVE  RingInv'
<1> USE DEF RingInv
<1>1. TypeOK'
  BY StoreType, NotifyType, NextSlotIs DEF TypeOK, PushFull
<1>2. WindowInv'
  <2>1. b # NoBlock
    BY PushedAssumption, BlockFacts
  <2>2. /\ count = Capacity
        /\ head \in Slot
        /\ tail = head
        /\ head' = NextSlot(head)
        /\ head' \in Slot
        /\ tail' = head'
        /\ count' = Capacity
    BY SlotAfterFacts, NextSlotIs
    DEF TypeOK, WindowInv, PushFull, Store, SlotOf
  <2>3. \A i \in Slot : buf[i] # NoBlock
    <3> SUFFICES ASSUME NEW s \in Slot PROVE buf[s] # NoBlock
      OBVIOUS
    <3>1. PICK i \in 0..(Capacity - 1) : SlotAfter(head, i) = s
      BY <2>2, SlotAfterOnto
    <3> QED BY <2>2, <3>1 DEF WindowInv, SlotOf
  <2>4. \A i \in Slot : buf'[i] # NoBlock
    BY <2>1, <2>3 DEF TypeOK, PushFull, Store
  <2> QED
    BY <2>2, <2>4, SlotAfterFacts, CapacityAssumption DEF WindowInv, SlotOf
<1> QED BY <1>1, <1>2

(* The block at the head of a ring that holds one. *)
LEMMA HeadIsBlock ==
  ASSUME RingInv, count # 0
  PROVE  /\ buf[head] \in Block
         /\ Degrade(buf[head]) \in Block
<1>1. buf[SlotOf(0)] # NoBlock
  BY CapacityAssumption DEF RingInv, TypeOK, WindowInv
<1>2. SlotOf(0) = head /\ head \in Slot
  BY SlotAfterFacts DEF RingInv, TypeOK, SlotOf
<1> QED BY <1>1, <1>2, BlockFacts DEF RingInv, TypeOK

LEMMA PopBlockRing ==
  ASSUME RingInv, NEW c \in Consumers, PopBlock(c)
  PROVE  RingInv'
<1> USE DEF RingInv
<1>1. TypeOK'
  <2>1. count' \in 0..Capacity
    BY CapacityAssumption DEF TypeOK, PopBlock
  <2>2. buf' \in [Slot -> Block \cup {NoBlock}]
    BY DEF TypeOK, PopBlock
  <2>3. block' \in [Consumers -> Block \cup {NoBlock}]
    BY HeadIsBlock DEF TypeOK, PopBlock
  <2> QED
    BY <2>1, <2>2, <2>3, NextSlotIs DEF TypeOK, PopBlock
<1>2. WindowInv'
  <2>1. /\ head \in Slot
        /\ head' = NextSlot(head)
        /\ count \in 1..Capacity
        /\ count' = count - 1
        /\ tail' = tail
        /\ tail = SlotAfter(head, count)
    BY CapacityAssumption DEF TypeOK, WindowInv, PopBlock, SlotOf
  <2>2. \A i \in Slot : buf'[i] = IF i = head THEN NoBlock ELSE buf[i]
    BY DEF TypeOK, PopBlock
  <2>3. tail' = SlotAfter(head', count')
    BY <2>1, SlotAfterFacts, CapacityAssumption
  <2>4. \A i \in 0..(count' - 1) : buf'[SlotAfter(head', i)] # NoBlock
    <3> SUFFICES ASSUME NEW i \in 0..(count' - 1)
                 PROVE  buf'[SlotAfter(head', i)] # NoBlock
      OBVIOUS
    <3>1. /\ i \in 0..(Capacity - 1)
          /\ i + 1 \in 0..(count - 1)
          /\ i + 1 \in 0..(Capacity - 1)
          /\ i + 1 # 0
      BY <2>1, CapacityAssumption
    <3>2. /\ SlotAfter(head', i) = SlotAfter(head, i + 1)
          /\ SlotAfter(head, i + 1) \in Slot
          /\ SlotAfter(head, i + 1) # head
      BY <2>1, <3>1, SlotAfterFacts
    <3>3. buf[SlotAfter(head, i + 1)] # NoBlock
      BY <3>1 DEF WindowInv, SlotOf
    <3> QED BY <2>2, <3>2, <3>3
  <2>5. \A i \in count'..(Capacity - 1) : buf'[SlotAfter(head', i)] = NoBlock
    <3> SUFFICES ASSUME NEW i \in count'..(Capacity - 1)
                 PROVE  buf'[SlotAfter(head', i)] = NoBlock
      OBVIOUS
    <3>1. i \in 0..(Capacity - 1)
      BY <2>1
    <3>2. SlotAfter(head', i) = SlotAfter(head, i + 1)
      BY <2>1, <3>1, SlotAfterFacts
    <3>3. CASE i = Capacity - 1
      <4>1. SlotAfter(head', i) = head
        BY <2>1, <3>2, <3>3, SlotAfterFacts, CapacityAssumption
      <4> QED BY <2>1, <2>2, <4>1
    <3>4. CASE i # Capacity - 1
      <4>1. i + 1 \in count..(Capacity - 1) /\ i + 1 \in 0..(Capacity - 1)
        BY <2>1, <3>4, CapacityAssumption
      <4>2. buf[SlotAfter(head, i + 1)] = NoBlock
        BY <4>1 DEF WindowInv, SlotOf
      <4>3. SlotAfter(head, i + 1) \in Slot
        BY <2>1, <4>1, SlotAfterFacts
      <4> QED BY <2>2, <3>2, <4>2, <4>3
    <3> QED BY <3>3, <3>4
  <2> QED BY <2>3, <2>4, <2>5 DEF WindowInv, SlotOf
<1> QED BY <1>1, <1>2

LEMMA RingNext == RingInv /\ [Next]_vars => RingInv'
<1> SUFFICES ASSUME RingInv, [Next]_vars PROVE RingInv'
  OBVIOUS
<1> USE DEF RingInv
<1>1. CASE \E b \in Pushed : PushRoom(b)
  BY <1>1, PushRoomRing
<1>2. CASE \E b \in Pushed : PushFull(b)
  BY <1>2, PushFullRing
<1>3. CASE \E c \in Consumers : PopWait(c)
  BY <1>3 DEF TypeOK, WindowInv, SlotOf, PopWait, slots
<1>4. CASE \E c \in Consumers : PopNone(c)
  BY <1>4 DEF TypeOK, WindowInv, SlotOf, PopNone, slots
<1>5. CASE \E c \in Consumers : PopBlock(c)
  BY <1>5, PopBlockRing
<1>6. CASE Close
  BY <1>6 DEF TypeOK, WindowInv, SlotOf, Close, NotifyAll, slots
<1>7. CASE PushClosed \/ UNCHANGED vars
  BY <1>7 DEF TypeOK, WindowInv, SlotOf, PushClosed, vars, slots, sleep
<1> QED BY <1>1, <1>2, <1>3, <1>4, <1>5, <1>6, <1>7 DEF Next

(* Every variable keeps its type: in particular a pop never delivers None  *)
(* out of an occupied slot, whatever the interleaving.                     *)
THEOREM TypeCorrect == Spec => []TypeOK
<1>1. Spec => []RingInv
  BY RingInit, RingNext, PTL DEF Spec
<1>2. RingInv => TypeOK
  BY DEF RingInv
<1> QED BY <1>1, <1>2, PTL

(* Head, tail and count describe one window of the array in every state.   *)
THEOREM WindowCorrect == Spec => []WindowInv
<1>1. Spec => []RingInv
  BY RingInit, RingNext, PTL DEF Spec
<1>2. RingInv => WindowInv
  BY DEF RingInv
<1> QED BY <1>1, <1>2, PTL

-----------------------------------------------------------------------------
(* No lost wake-up.  Cardinality(notified) counts woken consumers one by   *)
(* one only because a sleeper is never also counted as woken.              *)
WakeInv == NoLostWakeup /\ waiting \cap notified = {}

(* The set of woken consumers is finite, as Consumers is.                  *)
LEMMA NotifiedFinite ==
  ASSUME TypeOK
  PROVE  /\ IsFiniteSet(notified)
         /\ Cardinality(notified) \in Nat
         /\ \A c : /\ Cardinality(notified \cup {c}) =
                       IF c \in notified THEN Cardinality(notified)
                                        ELSE Cardinality(notified) + 1
                  /\ Cardinality(notified \ {c}) =
                       IF c \in notified THEN Cardinality(notified) - 1
                                        ELSE Cardinality(notified)
<1>1. IsFiniteSet(notified)
  BY ConsumersAssumption, FS_Subset DEF TypeOK
<1> QED
  BY <1>1, FS_CardinalityType, FS_AddElement, FS_RemoveElement

(* What a notify() at the end of a push establishes. *)
LEMMA NotifyWakes ==
  ASSUME TypeOK, WakeInv, ~closed, Notify
  PROVE  /\ waiting' \cap notified' = {}
         /\ waiting' # {} => count + 1 <= Cardinality(notified')
<1>1. CASE waiting = {} /\ UNCHANGED sleep
  BY <1>1 DEF sleep
<1>2. ASSUME NEW w \in waiting,
             waiting' = waiting \ {w}, notified' = notified \cup {w}
      PROVE  /\ waiting' \cap notified' = {}
             /\ waiting' # {} => count + 1 <= Cardinality(notified')
  <2>1. w \notin notified /\ count <= Cardinality(notified)
    BY DEF WakeInv, NoLostWakeup
  <2>2. Cardinality(notified') = Cardinality(notified) + 1
    BY <1>2, <2>1, NotifiedFinite
  <2>3. count + 1 <= Cardinality(notified')
    BY <2>1, <2>2, NotifiedFinite DEF TypeOK
  <2> QED BY <1>2, <2>3 DEF WakeInv
<1> QED BY <1>1, <1>2 DEF Notify

LEMMA WakeNext == TypeOK /\ WakeInv /\ [Next]_vars => WakeInv'
<1> SUFFICES ASSUME TypeOK, WakeInv, [Next]_vars PROVE WakeInv'
  OBVIOUS
<1>1. ASSUME NEW b \in Pushed, PushRoom(b) PROVE WakeInv'
  BY <1>1, NotifyWakes DEF PushRoom, WakeInv, NoLostWakeup
<1>2. ASSUME NEW b \in Pushed, PushFull(b) PROVE WakeInv'
  <2>1. /\ waiting' \cap notified' = {}
        /\ waiting' # {} => count + 1 <= Cardinality(notified')
    BY <1>2, NotifyWakes DEF PushFull
  <2>2. Cardinality(notified') \in Nat
    <3>1. notified' \subseteq Consumers
      BY <1>2, NotifyType DEF PushFull
    <3> QED
      BY <3>1, ConsumersAssumption, FS_Subset, FS_CardinalityType
  <2> QED
    BY <1>2, <2>1, <2>2 DEF PushFull, TypeOK, WakeInv, NoLostWakeup
<1>3. ASSUME NEW c \in Consumers, PopWait(c) PROVE WakeInv'
  <2>1. Cardinality(notified') \in Nat
    BY <1>3, NotifiedFinite, FS_RemoveElement, FS_CardinalityType DEF PopWait
  <2> QED
    BY <1>3, <2>1 DEF PopWait, slots, WakeInv, NoLostWakeup
<1>4. ASSUME NEW c \in Consumers, PopNone(c) PROVE WakeInv'
  BY <1>4 DEF PopNone, WakeInv, NoLostWakeup
<1>5. ASSUME NEW c \in Consumers, PopBlock(c) PROVE WakeInv'
  <2>1. /\ waiting' = waiting
        /\ notified' = notified \ {c}
        /\ count' = count - 1
        /\ closed' = closed
    BY <1>5 DEF PopBlock
  <2>2. Cardinality(notified) - 1 <= Cardinality(notified')
    BY <2>1, NotifiedFinite
  <2>3. Cardinality(notified') \in Int /\ Cardinality(notified) \in Int
    BY <2>1, NotifiedFinite, FS_RemoveElement, FS_CardinalityType
  <2>4. count <= Cardinality(notified) => count' <= Cardinality(notified')
    BY <2>1, <2>2, <2>3 DEF TypeOK
  <2> QED
    BY <2>1, <2>4 DEF WakeInv, NoLostWakeup
<1>6. ASSUME Close PROVE WakeInv'
  BY <1>6 DEF Close, NotifyAll, WakeInv, NoLostWakeup
<1>7. ASSUME PushClosed \/ UNCHANGED vars PROVE WakeInv'
  BY <1>7 DEF PushClosed, vars, slots, sleep, WakeInv, NoLostWakeup
<1> QED BY <1>1, <1>2, <1>3, <1>4, <1>5, <1>6, <1>7 DEF Next

(* While a consumer sleeps the ring is open and every undelivered block    *)
(* has a woken consumer of its own.                                        *)
THEOREM WakeupCorrect == Spec => []NoLostWakeup
<1>1. Init => WakeInv
  BY DEF Init, WakeInv, NoLostWakeup
<1>2. WakeInv => NoLostWakeup
  BY DEF WakeInv
<1> QED BY <1>1, <1>2, TypeCorrect, WakeNext, PTL DEF Spec

-----------------------------------------------------------------------------
(* The ring implements the lossy queue. *)

(* The window of an array as a sequence. *)
LEMMA WindowIsSeq ==
  ASSUME NEW a, NEW h \in Slot, NEW n \in 0..Capacity,
         \A i \in 0..(n - 1) : a[SlotAfter(h, i)] \in Block
  PROVE  /\ Window(a, h, n) \in Seq(Block)
         /\ Len(Window(a, h, n)) = n
         /\ \A i \in 1..n : Window(a, h, n)[i] = a[SlotAfter(h, i - 1)]
<1>1. \A i \in 1..n : a[SlotAfter(h, i - 1)] \in Block
  BY CapacityAssumption
<1>2. Window(a, h, n) \in [1..n -> Block]
  BY <1>1 DEF Window
<1>3. n \in Nat
  BY CapacityAssumption
<1>4. Window(a, h, n) \in Seq(Block)
  BY <1>2, <1>3, SeqDef
<1>5. DOMAIN Window(a, h, n) = 1..n
  BY DEF Window
<1>6. Len(Window(a, h, n)) = n
  BY <1>3, <1>4, <1>5, LenProperties
<1> QED BY <1>4, <1>6 DEF Window

(* The contents of a ring that satisfies its invariant. *)
LEMMA ContentsFacts ==
  ASSUME RingInv
  PROVE  /\ head \in Slot
         /\ count \in 0..Capacity
         /\ Contents \in Seq(Block)
         /\ Len(Contents) = count
         /\ \A i \in 1..count : Contents[i] = buf[SlotAfter(head, i - 1)]
         /\ count # 0 => Head(Contents) = buf[head]
<1>1. head \in Slot /\ count \in 0..Capacity
  BY DEF RingInv, TypeOK
<1>2. \A i \in 0..(count - 1) : buf[SlotAfter(head, i)] \in Block
  <2> SUFFICES ASSUME NEW i \in 0..(count - 1)
               PROVE  buf[SlotAfter(head, i)] \in Block
    OBVIOUS
  <2>1. i \in 0..(Capacity - 1)
    BY <1>1, CapacityAssumption
  <2>2. SlotAfter(head, i) \in Slot
    BY <1>1, <2>1, SlotAfterFacts
  <2> QED BY <2>2 DEF RingInv, TypeOK, WindowInv, SlotOf
<1>3. /\ Contents \in Seq(Block)
      /\ Len(Contents) = count
      /\ \A i \in 1..count : Contents[i] = buf[SlotAfter(head, i - 1)]
  BY <1>1, <1>2, WindowIsSeq DEF Contents
<1>4. ASSUME count # 0 PROVE Head(Contents) = buf[head]
  <2>1. 1 \in 1..count
    BY <1>1, <1>4, CapacityAssumption
  <2>2. Head(Contents) = Contents[1]
    BY <1>3, <1>4
  <2>3. SlotAfter(head, 1 - 1) = head
    BY <1>1, SlotAfterFacts
  <2> QED BY <1>3, <2>1, <2>2, <2>3
<1> QED BY <1>1, <1>3, <1>4

LEMMA EmptyContents ==
  ASSUME RingInv
  PROVE  Contents = <<>> <=> count = 0
<1>1. Contents \in Seq(Block) /\ Len(Contents) = count
  BY ContentsFacts
<1> QED BY <1>1, EmptySeq

LEMMA InitRefines == Init => Queue!Init
<1> SUFFICES ASSUME Init PROVE Queue!Init
  OBVIOUS
<1>1. Contents = <<>>
  BY RingInit, EmptyContents DEF Init
<1> QED BY <1>1 DEF Init, Queue!Init, NoBlock, Queue!NoBlock

(* A step that leaves the array and its positions alone keeps the queue.   *)
LEMMA SlotsFrameContents == UNCHANGED slots => UNCHANGED Contents
BY DEF slots, Contents

(* The queue after a step, read off the array one place at a time. *)
LEMMA ContentsBecome ==
  ASSUME NEW s \in Seq(Block),
         count' \in Nat, Len(s) = count',
         \A i \in 1..count' : buf'[SlotAfter(head', i - 1)] = s[i]
  PROVE  Contents' = s
<1>1. Contents' = Window(buf', head', count')
  BY DEF Contents
<1>2. Contents' = [i \in 1..count' |-> s[i]]
  BY <1>1 DEF Window
<1>3. s = [i \in 1..count' |-> s[i]]
  BY LenProperties
<1> QED BY <1>2, <1>3

(* A push with room appends the block to the queue. *)
LEMMA PushRoomRefines ==
  ASSUME RingInv, NEW b \in Pushed, PushRoom(b)
  PROVE  Queue!Enqueue(b)
<1>1. /\ head' = head /\ head \in Slot
      /\ count' = count + 1 /\ count \in 0..(Capacity - 1)
      /\ tail = SlotAfter(head, count)
      /\ buf' = [buf EXCEPT ![tail] = b]
      /\ buf \in [Slot -> Block \cup {NoBlock}]
  BY CapacityAssumption
  DEF RingInv, TypeOK, WindowInv, PushRoom, Store, SlotOf
<1>2. /\ Contents \in Seq(Block)
      /\ Len(Contents) = count
      /\ \A i \in 1..count : Contents[i] = buf[SlotAfter(head, i - 1)]
  BY ContentsFacts
<1>3. /\ Append(Contents, b) \in Seq(Block)
      /\ Len(Append(Contents, b)) = count + 1
      /\ \A i \in 1..(count + 1) : Append(Contents, b)[i] =
           IF i = count + 1 THEN b ELSE Contents[i]
  BY <1>1, <1>2, PushedAssumption
<1>4. \A i \in 1..(count + 1) :
        buf'[SlotAfter(head, i - 1)] = Append(Contents, b)[i]
  <2> SUFFICES ASSUME NEW i \in 1..(count + 1)
               PROVE  buf'[SlotAfter(head, i - 1)] = Append(Contents, b)[i]
    OBVIOUS
  <2>1. /\ i - 1 \in 0..(Capacity - 1)
        /\ count \in 0..(Capacity - 1)
        /\ (i - 1 = count) <=> (i = count + 1)
        /\ i # count + 1 => i \in 1..count
    BY <1>1, CapacityAssumption
  <2>2. SlotAfter(head, i - 1) \in Slot
    BY <1>1, <2>1, SlotAfterFacts
  <2>3. SlotAfter(head, i - 1) = tail <=> i = count + 1
    BY <1>1, <2>1, SlotAfterInjective
  <2> QED BY <1>1, <1>2, <1>3, <2>1, <2>2, <2>3
<1>5. count' \in Nat
  BY <1>1
<1>6. Contents' = Append(Contents, b)
  BY <1>1, <1>3, <1>4, <1>5, ContentsBecome
<1>7. Len(Contents) < Capacity
  BY <1>1, <1>2, CapacityAssumption
<1> QED BY <1>6, <1>7 DEF PushRoom, Queue!Enqueue

(* A push into a full ring drops the oldest block and appends the new one. *)
LEMMA PushFullRefines ==
  ASSUME RingInv, NEW b \in Pushed, PushFull(b)
  PROVE  Queue!DropOldest(b)
<1>1. /\ head \in Slot /\ head' = NextSlot(head)
      /\ count = Capacity /\ count' = Capacity
      /\ tail = head
      /\ buf' = [buf EXCEPT ![head] = b]
      /\ buf \in [Slot -> Block \cup {NoBlock}]
  BY SlotAfterFacts
  DEF RingInv, TypeOK, WindowInv, PushFull, Store, SlotOf
<1>2. /\ Contents \in Seq(Block)
      /\ Len(Contents) = Capacity
      /\ \A i \in 1..Capacity : Contents[i] = buf[SlotAfter(head, i - 1)]
      /\ Contents # <<>>
  BY <1>1, ContentsFacts, EmptyContents, CapacityAssumption
<1>3. /\ Tail(Contents) \in Seq(Block)
      /\ Len(Tail(Contents)) = Capacity - 1
      /\ \A i \in 1..(Capacity - 1) : Tail(Contents)[i] = Contents[i + 1]
  BY <1>2, HeadTailProperties
<1>4. /\ Append(Tail(Contents), b) \in Seq(Block)
      /\ Len(Append(Tail(Contents), b)) = Capacity
      /\ \A i \in 1..Capacity : Append(Tail(Contents), b)[i] =
           IF i = Capacity THEN b ELSE Contents[i + 1]
  BY <1>3, PushedAssumption, CapacityAssumption
<1>5. \A i \in 1..Capacity :
        buf'[SlotAfter(head', i - 1)] = Append(Tail(Contents), b)[i]
  <2> SUFFICES ASSUME NEW i \in 1..Capacity
               PROVE  buf'[SlotAfter(head', i - 1)] =
                        Append(Tail(Contents), b)[i]
    OBVIOUS
  <2>1. /\ i - 1 \in 0..(Capacity - 1) /\ (i - 1) + 1 = i
        /\ i # Capacity => /\ i \in 0..(Capacity - 1) /\ i # 0
                          /\ i + 1 \in 1..Capacity /\ (i + 1) - 1 = i
    BY CapacityAssumption
  <2>2. SlotAfter(head', i - 1) = SlotAfter(head, i)
    BY <1>1, <2>1, SlotAfterFacts
  <2>3. CASE i = Capacity
    <3>1. SlotAfter(head', i - 1) = head
      BY <1>1, <2>2, <2>3, SlotAfterFacts
    <3> QED BY <1>1, <1>4, <2>3, <3>1
  <2>4. CASE i # Capacity
    <3>1. SlotAfter(head, i) \in Slot /\ SlotAfter(head, i) # head
      BY <1>1, <2>1, <2>4, SlotAfterFacts
    <3>2. Contents[i + 1] = buf[SlotAfter(head, i)]
      BY <1>2, <2>1, <2>4
    <3> QED BY <1>1, <1>4, <2>2, <2>4, <3>1, <3>2
  <2> QED BY <2>3, <2>4
<1>6. Contents' = Append(Tail(Contents), b)
  BY <1>1, <1>4, <1>5, ContentsBecome, CapacityAssumption
<1> QED BY <1>1, <1>2, <1>6 DEF PushFull, Queue!DropOldest

(* A pop hands out the oldest block, marked if one before it was dropped.  *)
LEMMA PopBlockRefines ==
  ASSUME RingInv, NEW c \in Consumers, PopBlock(c)
  PROVE  Queue!PopBlock(c)
<1>1. /\ head \in Slot /\ head' = NextSlot(head) /\ head' \in Slot
      /\ count \in 1..Capacity /\ count' = count - 1
      /\ buf' = [buf EXCEPT ![head] = NoBlock]
      /\ buf \in [Slot -> Block \cup {NoBlock}]
  BY NextSlotIs, CapacityAssumption DEF RingInv, TypeOK, PopBlock
<1>2. /\ Contents \in Seq(Block)
      /\ Len(Contents) = count
      /\ \A i \in 1..count : Contents[i] = buf[SlotAfter(head, i - 1)]
      /\ Head(Contents) = buf[head]
      /\ Contents # <<>>
  BY <1>1, ContentsFacts, EmptyContents
<1>3. \A i \in 1..(count - 1) :
        buf'[SlotAfter(head', i - 1)] = Contents[i + 1]
  <2> SUFFICES ASSUME NEW i \in 1..(count - 1)
               PROVE  buf'[SlotAfter(head', i - 1)] = Contents[i + 1]
    OBVIOUS
  <2>1. /\ i - 1 \in 0..(Capacity - 1) /\ (i - 1) + 1 = i
        /\ i \in 0..(Capacity - 1) /\ i # 0
        /\ i + 1 \in 1..count /\ (i + 1) - 1 = i
    BY <1>1, CapacityAssumption
  <2>2. SlotAfter(head', i - 1) = SlotAfter(head, i)
    BY <1>1, <2>1, SlotAfterFacts
  <2>3. SlotAfter(head, i) \in Slot /\ SlotAfter(head, i) # head
    BY <1>1, <2>1, SlotAfterFacts
  <2>4. Contents[i + 1] = buf[SlotAfter(head, i)]
    BY <1>2, <2>1
  <2> QED BY <1>1, <2>2, <2>3, <2>4
<1>4. /\ Tail(Contents) \in Seq(Block)
      /\ Len(Tail(Contents)) = count - 1
      /\ \A i \in 1..(count - 1) : Tail(Contents)[i] = Contents[i + 1]
  BY <1>1, <1>2, HeadTailProperties
<1>5. Contents' = Tail(Contents)
  <2>1. count' \in Nat /\ Len(Tail(Contents)) = count'
    BY <1>1, <1>4, CapacityAssumption
  <2>2. \A i \in 1..count' : buf'[SlotAfter(head', i - 1)] = Tail(Contents)[i]
    BY <1>1, <1>3, <1>4
  <2>3. Tail(Contents) \in Seq(Block)
    BY <1>4
  <2> QED BY <2>1, <2>2, <2>3, ContentsBecome
<1> QED
  BY <1>2, <1>5 DEF PopBlock, Queue!PopBlock, Queue!Degrade, Degrade

LEMMA StepRefines == RingInv /\ [Next]_vars => [Queue!Next]_(Queue!vars)
<1> SUFFICES ASSUME RingInv, [Next]_vars PROVE [Queue!Next]_(Queue!vars)
  OBVIOUS
<1>1. CASE \E b \in Pushed : PushRoom(b)
  BY <1>1, PushRoomRefines DEF Queue!Next, Queue!Push
<1>2. CASE \E b \in Pushed : PushFull(b)
  BY <1>2, PushFullRefines DEF Queue!Next, Queue!Push
<1>3. CASE \E c \in Consumers : PopWait(c)
  BY <1>3, SlotsFrameContents DEF PopWait, Queue!vars
<1>4. ASSUME NEW c \in Consumers, PopNone(c) PROVE Queue!PopNone(c)
  BY <1>4, SlotsFrameContents, EmptyContents
  DEF PopNone, Queue!PopNone, NoBlock, Queue!NoBlock
<1>5. CASE \E c \in Consumers : PopBlock(c)
  BY <1>5, PopBlockRefines DEF Queue!Next
<1>6. CASE Close
  BY <1>6, SlotsFrameContents DEF Close, Queue!Next, Queue!Close
<1>7. CASE PushClosed \/ UNCHANGED vars
  BY <1>7, SlotsFrameContents DEF PushClosed, vars, Queue!vars
<1> QED
  BY <1>1, <1>2, <1>3, <1>4, <1>5, <1>6, <1>7 DEF Next, Queue!Next

(* For every capacity, set of consumers and blocks pushed, the array with  *)
(* its modular positions, eviction and sleeping consumers implements the   *)
(* lossy FIFO queue.                                                       *)
THEOREM RefinesQueue == Spec => ImplementsQueue
<1>1. Spec => []RingInv
  BY RingInit, RingNext, PTL DEF Spec
<1> QED
  BY <1>1, InitRefines, StepRefines, PTL DEF Spec, ImplementsQueue, Queue!Spec
=============================================================================
