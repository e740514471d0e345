---------------------------- MODULE StreamProofs ----------------------------
(***************************************************************************)
(* Proofs about Stream, for any capacity, threads, blocks and hosts of a   *)
(* collection:                                                             *)
(*   StreamTypes      the type invariant,                                  *)
(*   CountsAddUp      numbered = delivered + discarded + undelivered,      *)
(*   GapsAreMarked    a gap in the delivered seqs and the mark go together,*)
(*   OneSourceClose   the source is closed once, whoever releases,         *)
(*   SomeoneReleases  a stream nobody released keeps its finalizer,        *)
(*   StreamIsFeed     all of it implements BlockFeed.                      *)
(***************************************************************************)
EXTENDS Stream, TLAPS

(* Between the two looks at the event and the push the block is at hand,   *)
(* and only the end of the thread closes the ring.                         *)
ProducerInv ==
  /\ ppc \in {"got", "push"} => fetched \in SourceStatus /\ nextSeq < MaxBlocks
  /\ ringClosed => ppc = "dead"

(* Past the look at _released. *)
Releasing == {"set_stop", "join", "close_source"}

(* One caller of release() gets past the look at _released, and it closes  *)
(* the source last.                                                        *)
ReleaseInv ==
  /\ ~released => sourceCloses = 0
  /\ \A r \in Releasers : pc[r] \in Releasing => released /\ sourceCloses = 0
  /\ \A r, s \in Releasers : pc[r] \in Releasing /\ pc[s] \in Releasing => r = s
  /\ \A t \in Threads : pc[t] = "unhook" => released

(* The seq that would follow the last block delivered. *)
Following == IF popped = <<>> THEN 0 ELSE popped[Len(popped)].seq + 1

(* The seq of the oldest undelivered block, or of the next one numbered. *)
Oldest == nextSeq - Len(queue)

(* The mark is set exactly while there is a gap before the oldest block.   *)
MarkInv ==
  /\ \A i \in DOMAIN queue : queue[i].status # "degraded"
  /\ Following <= Oldest
  /\ degradeNext <=> Following < Oldest

StreamInv == TypeOK /\ ProducerInv

Places == {"idle", "pop", "drained", "release", "set_stop",
           "join", "close_source", "unhook", "done"}

-----------------------------------------------------------------------------
(* The blocks of the ring and of the stream are the same. *)
LEMMA RingBlocks ==
  /\ Ring!Block = Block /\ Ring!NoBlock = NoBlock
  /\ \A b : Ring!Degrade(b) = Degrade(b)
BY DEF Ring!Block, Block, Ring!Status, Status, Ring!NoBlock, NoBlock, Ring!Degrade, Degrade

LEMMA StreamInit ==
  Init => StreamInv /\ NothingLost /\ ReleaseInv /\ MarkInv /\ GapsMarked
            /\ SourceClosedOnce /\ FinalizerKept
<1> SUFFICES ASSUME Init
             PROVE  StreamInv /\ NothingLost /\ ReleaseInv /\ MarkInv /\ GapsMarked
                      /\ SourceClosedOnce /\ FinalizerKept
  OBVIOUS
<1>1. /\ queue = <<>> /\ queue \in Seq(Block) /\ DOMAIN queue = {} /\ Len(queue) = 0
      /\ popped = <<>> /\ popped \in Seq(Block) /\ DOMAIN popped = {} /\ Len(popped) = 0
  BY DEF Init, Ring!Init
<1>2. Ring!TypeOK
  <2>1. 0 \in 0..Capacity
    BY CapacityAssumption
  <2>2. block = [t \in Threads |-> NoBlock]
    BY RingBlocks DEF Init, Ring!Init
  <2> QED
    BY RingBlocks, <1>1, <2>1, <2>2 DEF Init, Ring!Init, Ring!TypeOK
<1>3. 0 \in 0..MaxBlocks
  BY MaxBlocksAssumption
<1>4. TypeOK
  BY <1>1, <1>2, <1>3 DEF Init, TypeOK
<1>5. ProducerInv
  BY DEF Init, Ring!Init, ProducerInv
<1>6. ReleaseInv /\ SourceClosedOnce /\ FinalizerKept
  BY DEF Init, ReleaseInv, Releasing, SourceClosedOnce, FinalizerKept, Releasers
<1>7. NothingLost /\ MarkInv /\ GapsMarked
  BY <1>1 DEF Init, Ring!Init, NothingLost, MarkInv, GapsMarked, Following, Oldest
<1> QED
  BY <1>4, <1>5, <1>6, <1>7 DEF StreamInv

-----------------------------------------------------------------------------
(* The ring *)

LEMMA RingStays == Ring!TypeOK /\ UNCHANGED ringVars => Ring!TypeOK'
BY RingBlocks DEF Ring!TypeOK, ringVars

LEMMA PushedIsBlock ==
  ASSUME StreamInv, ppc = "push"
  PROVE  /\ [seq |-> nextSeq, status |-> fetched] \in Block
         /\ fetched # "degraded"
         /\ ~ringClosed
         /\ nextSeq \in Nat /\ nextSeq < MaxBlocks
<1>1. nextSeq \in Nat /\ fetched \in Status \ {"degraded"}
  BY MaxBlocksAssumption, StatusAssumption DEF StreamInv, TypeOK, ProducerInv
<1> QED
  BY <1>1 DEF Block, StreamInv, ProducerInv

(* What a push into an open ring does to the queue. *)
LEMMA PushShifts ==
  ASSUME Ring!TypeOK, ~ringClosed, NEW b \in Block, Ring!Push(b)
  PROVE  /\ Ring!TypeOK'
         /\ UNCHANGED <<ringClosed, block>>
         /\ queue'[Len(queue')] = b /\ Len(queue') \in Nat \ {0}
         /\ \/ /\ Len(queue') = Len(queue) + 1
               /\ UNCHANGED <<discarded, degradeNext>>
               /\ \A i \in 1..Len(queue) : queue'[i] = queue[i]
            \/ /\ Len(queue') = Len(queue)
               /\ discarded' = discarded + 1 /\ degradeNext' = TRUE
               /\ \A i \in 1..(Len(queue) - 1) : queue'[i] = queue[i + 1]
<1>t. /\ queue \in Seq(Block) /\ Len(queue) \in 0..Capacity /\ Len(queue) \in Nat
  BY RingBlocks DEF Ring!TypeOK
<1>1. CASE Ring!Enqueue(b)
  <2>1. queue' = Append(queue, b) /\ queue' \in Seq(Block) /\ Len(queue') = Len(queue) + 1
    BY <1>1, <1>t DEF Ring!Enqueue
  <2>2. queue'[Len(queue')] = b /\ \A i \in 1..Len(queue) : queue'[i] = queue[i]
    BY <2>1, <1>t
  <2>3. Len(queue') \in 0..Capacity
    BY <1>1, <2>1, <1>t, CapacityAssumption DEF Ring!Enqueue
  <2>4. Ring!TypeOK'
    BY RingBlocks, <1>1, <2>1, <2>3 DEF Ring!Enqueue, Ring!TypeOK
  <2> QED
    BY <1>1, <1>t, <2>1, <2>2, <2>4 DEF Ring!Enqueue
<1>2. CASE Ring!DropOldest(b)
  <2>0. queue # <<>>
    BY <1>2, <1>t, CapacityAssumption DEF Ring!DropOldest
  <2>1. /\ Tail(queue) \in Seq(Block) /\ Len(Tail(queue)) = Len(queue) - 1
        /\ \A i \in 1..(Len(queue) - 1) : Tail(queue)[i] = queue[i + 1]
    BY <2>0, <1>t
  <2>2. /\ queue' = Append(Tail(queue), b) /\ queue' \in Seq(Block)
        /\ Len(queue') = Len(queue)
    BY <1>2, <2>1, <1>t DEF Ring!DropOldest
  <2>3. queue'[Len(queue')] = b /\ \A i \in 1..(Len(queue) - 1) : queue'[i] = queue[i + 1]
    BY <2>0, <2>1, <2>2, <1>t
  <2>4. Ring!TypeOK'
    BY RingBlocks, <1>2, <2>2, <1>t DEF Ring!DropOldest, Ring!TypeOK
  <2> QED
    BY <1>2, <1>t, <2>0, <2>2, <2>3, <2>4, CapacityAssumption DEF Ring!DropOldest
<1> QED
  BY <1>1, <1>2 DEF Ring!Push, Ring!Ignore

(* What a pop that delivers does to the queue. *)
LEMMA PopShifts ==
  ASSUME Ring!TypeOK, NEW t \in Threads, Ring!PopBlock(t)
  PROVE  /\ Ring!TypeOK'
         /\ UNCHANGED <<ringClosed, discarded>>
         /\ 1 \in DOMAIN queue /\ Len(queue) \in Nat \ {0}
         /\ Len(queue') = Len(queue) - 1
         /\ \A i \in 1..Len(queue') : queue'[i] = queue[i + 1]
         /\ block'[t] \in Block
         /\ block'[t] = IF degradeNext THEN Degrade(queue[1]) ELSE queue[1]
         /\ degradeNext' = FALSE
<1>1. /\ queue \in Seq(Block) /\ queue # <<>> /\ Len(queue) \in Nat \ {0} /\ 1 \in DOMAIN queue
      /\ Head(queue) = queue[1] /\ queue[1] \in Block
  BY RingBlocks DEF Ring!TypeOK, Ring!PopBlock
<1>2. /\ queue' = Tail(queue) /\ queue' \in Seq(Block) /\ Len(queue') = Len(queue) - 1
      /\ \A i \in 1..Len(queue') : queue'[i] = queue[i + 1]
  BY RingBlocks, <1>1 DEF Ring!PopBlock
<1>3. Degrade(queue[1]) \in Block
  BY <1>1 DEF Degrade, Block, Status
<1>4. /\ block'[t] = IF degradeNext THEN Degrade(queue[1]) ELSE queue[1]
      /\ block'[t] \in Block
      /\ block' \in [Threads -> Block \cup {NoBlock}]
  BY RingBlocks, <1>1, <1>3 DEF Ring!TypeOK, Ring!PopBlock
<1>5. Len(queue') \in 0..Capacity
  BY RingBlocks, <1>1, <1>2, CapacityAssumption DEF Ring!TypeOK
<1>6. Ring!TypeOK'
  BY RingBlocks, <1>2, <1>4, <1>5 DEF Ring!TypeOK, Ring!PopBlock
<1> QED
  BY RingBlocks, <1>1, <1>2, <1>4, <1>6 DEF Ring!PopBlock

-----------------------------------------------------------------------------
(* Steps that leave the ring and the producer alone. *)
LEMMA OthersKeep ==
  ASSUME StreamInv, UNCHANGED <<ringVars, producer>>
  PROVE  /\ Ring!TypeOK' /\ ProducerInv'
         /\ ppc' \in {"check", "next_block", "got", "push", "ring_close", "dead"}
         /\ fetched' \in SourceStatus \cup {"none"}
         /\ nextSeq' \in 0..MaxBlocks
BY RingStays DEF StreamInv, TypeOK, ProducerInv, ringVars, producer

LEMMA ReleaseTypes ==
  ASSUME StreamInv, NEW r \in Releasers, Release(r)
  PROVE  StreamInv'
<1> USE DEF resources, hooks, life
<1>1. UNCHANGED <<ringVars, producer, closedFlag, hooks, life, popped>>
  BY DEF Release, ReleaseAgain, ReleaseFirst, SetStop, Join, JoinRaises, SourceClose
<1>2. \/ ReturnFromRelease(r)
      \/ \E to \in {"set_stop", "join", "close_source"} : Goto(r, to)
  BY DEF Release, ReleaseAgain, ReleaseFirst, SetStop, Join, JoinRaises, SourceClose
<1>3. pc' \in [Releasers -> Places]
  BY <1>2 DEF ReturnFromRelease, Goto, StreamInv, TypeOK, Places
<1>4. stop' \in BOOLEAN /\ released' \in BOOLEAN /\ sourceCloses' \in Nat
  <2>1. stop' = stop \/ stop' = TRUE
    BY DEF Release, ReleaseAgain, ReleaseFirst, SetStop, Join, JoinRaises, SourceClose
  <2>2. released' = released \/ released' = TRUE
    BY DEF Release, ReleaseAgain, ReleaseFirst, SetStop, Join, JoinRaises, SourceClose
  <2>3. sourceCloses' = sourceCloses \/ sourceCloses' = sourceCloses + 1
    BY DEF Release, ReleaseAgain, ReleaseFirst, SetStop, Join, JoinRaises, SourceClose
  <2>4. stop' \in BOOLEAN
    BY <2>1 DEF StreamInv, TypeOK
  <2>5. released' \in BOOLEAN
    BY <2>2 DEF StreamInv, TypeOK
  <2>6. sourceCloses' \in Nat
    BY <2>3 DEF StreamInv, TypeOK
  <2> QED
    BY <2>4, <2>5, <2>6
<1> QED
  BY <1>1, <1>3, <1>4, OthersKeep DEF StreamInv, TypeOK, Places

LEMMA UseTypes ==
  ASSUME StreamInv, NEW t \in Threads, Use(t)
  PROVE  StreamInv'
<1> USE DEF Goto, resources, hooks, life
<1>0. t \in Releasers
  BY DEF Releasers
<1>1. CASE NextDelivers(t)
  <2>1. Ring!TypeOK' /\ block'[t] \in Block /\ ringClosed' = ringClosed
    BY <1>1, PopShifts DEF NextDelivers, StreamInv, TypeOK
  <2>2. popped' \in Seq(Block)
    BY <1>1, <2>1 DEF NextDelivers, StreamInv, TypeOK
  <2>3. pc' \in [Releasers -> Places]
    BY <1>0, <1>1 DEF NextDelivers, StreamInv, TypeOK, Places
  <2> QED
    BY <1>1, <2>1, <2>2, <2>3 DEF NextDelivers, StreamInv, TypeOK, Places, ProducerInv, producer
<1>2. CASE NextDrained(t)
  <2>1. Ring!TypeOK' /\ ringClosed' = ringClosed
    BY <1>2, RingBlocks DEF NextDrained, StreamInv, TypeOK, Ring!TypeOK, Ring!PopNone
  <2>2. pc' \in [Releasers -> Places]
    BY <1>0, <1>2 DEF NextDrained, StreamInv, TypeOK, Places
  <2> QED
    BY <1>2, <2>1, <2>2 DEF NextDrained, StreamInv, TypeOK, Places, ProducerInv, producer
<1>3. CASE ~NextDelivers(t) /\ ~NextDrained(t)
  <2>1. UNCHANGED <<ringVars, producer, stop, released, sourceCloses, life, popped>>
    BY <1>3 DEF Use, NextBegin, NextRefused, StopIteration, CloseBegin, CloseAgain, CloseEnd, vars
  <2>2. pc' \in [Releasers -> Places]
    BY <1>0, <1>3 DEF Use, NextBegin, NextRefused, StopIteration, CloseBegin, CloseAgain, CloseEnd,
                vars, StreamInv, TypeOK, Places
  <2>3. closedFlag' \in BOOLEAN /\ finalizer' \in BOOLEAN /\ atexitEntry' \in BOOLEAN
    BY <1>3 DEF Use, NextBegin, NextRefused, StopIteration, CloseBegin, CloseAgain, CloseEnd,
                vars, StreamInv, TypeOK
  <2> QED
    BY <2>1, <2>2, <2>3, OthersKeep DEF StreamInv, TypeOK, Places
<1> QED
  BY <1>1, <1>2, <1>3

LEMMA ProduceTypes ==
  ASSUME StreamInv, Produce
  PROVE  StreamInv'
<1>1. ProducerOnly
  BY DEF Produce, CheckStop, CheckStopAgain, NumberAndPush, CloseRing, NextBlockRaises, NextBlock
<1> DEFINE Typed ==
      /\ Ring!TypeOK /\ ProducerInv
      /\ ppc \in {"check", "next_block", "got", "push", "ring_close", "dead"}
      /\ fetched \in SourceStatus \cup {"none"}
      /\ nextSeq \in 0..MaxBlocks
<1>2. Typed'
  <2>t. /\ Ring!TypeOK /\ ProducerInv /\ nextSeq \in 0..MaxBlocks /\ fetched \in SourceStatus \cup {"none"}
        /\ ppc \in {"check", "next_block", "got", "push", "ring_close", "dead"}
    BY DEF StreamInv, TypeOK
  <2>1. CASE CheckStop \/ CheckStopAgain \/ NextBlockRaises
    <3>1. UNCHANGED <<ringVars, fetched, nextSeq>>
      BY <2>1 DEF CheckStop, CheckStopAgain, NextBlockRaises
    <3>2. Ring!TypeOK'
      BY <2>t, <3>1, RingStays
    <3> QED
      BY <2>1, <2>t, <3>1, <3>2, MaxBlocksAssumption
         DEF CheckStop, CheckStopAgain, NextBlockRaises, ProducerAt, ProducerInv, ringVars
  <2>2. ASSUME NEW s \in SourceStatus, NextBlock(s) PROVE Typed'
    <3>1. Ring!TypeOK'
      BY <2>2, <2>t, RingStays DEF NextBlock
    <3> QED
      BY <2>2, <2>t, <3>1 DEF NextBlock, ProducerAt, ProducerInv, ringVars
  <2>3. CASE NumberAndPush
    <3>1. ppc = "push" /\ Ring!Push([seq |-> nextSeq, status |-> fetched])
      BY <2>3 DEF NumberAndPush, ProducerAt
    <3>2. Ring!TypeOK' /\ ~ringClosed'
      BY <2>t, <3>1, PushedIsBlock, PushShifts DEF ProducerInv
    <3>3. nextSeq + 1 \in 0..MaxBlocks
      BY <3>1, PushedIsBlock, MaxBlocksAssumption
    <3> QED
      BY <2>3, <2>t, <3>2, <3>3, MaxBlocksAssumption DEF NumberAndPush, ProducerInv
  <2>4. CASE CloseRing
    <3>1. Ring!TypeOK'
      BY <2>4, <2>t DEF CloseRing, Ring!Close, Ring!TypeOK
    <3> QED
      BY <2>4, <2>t, <3>1 DEF CloseRing, ProducerInv
  <2> QED
    BY <2>1, <2>2, <2>3, <2>4 DEF Produce
<1> QED
  BY <1>1, <1>2 DEF ProducerOnly, resources, hooks, life, StreamInv, TypeOK

LEMMA StreamStep == StreamInv /\ [Next]_vars => StreamInv'
<1> SUFFICES ASSUME StreamInv, [Next]_vars PROVE StreamInv'
  OBVIOUS
<1> USE DEF Goto, resources, hooks, life
<1>1. CASE Produce
  BY <1>1, ProduceTypes
<1>2. CASE \E t \in Threads : Use(t)
  BY <1>2, UseTypes
<1>3. CASE \E r \in Releasers : Release(r)
  BY <1>3, ReleaseTypes
<1>4. CASE Drop \/ ExitBegins
  BY <1>4, OthersKeep DEF Drop, ExitBegins, StreamInv, TypeOK
<1>5. ASSUME NEW h \in GcHosts, Collect(h) PROVE StreamInv'
  BY <1>5, OthersKeep DEF Collect, StreamInv, TypeOK, Releasers, Backstops
<1>6. CASE AtexitRuns
  BY <1>6, OthersKeep DEF AtexitRuns, StreamInv, TypeOK, Releasers, Backstops
<1>7. CASE OtherStreamCloses
  BY <1>7, OthersKeep DEF OtherStreamCloses, StreamInv, TypeOK
<1>8. CASE Exited \/ UNCHANGED vars
  BY <1>8, OthersKeep DEF Exited, vars, StreamInv, TypeOK
<1> QED
  BY <1>1, <1>2, <1>3, <1>4, <1>5, <1>6, <1>7, <1>8 DEF Next

-----------------------------------------------------------------------------
(* The count of the blocks, and the marks.  Only the producer's push and a *)
(* pop move blocks.                                                        *)

LEMMA CountStays ==
  ASSUME UNCHANGED <<queue, discarded, degradeNext, nextSeq, popped>>
  PROVE  /\ NothingLost => NothingLost'
         /\ MarkInv => MarkInv'
         /\ GapsMarked => GapsMarked'
BY DEF NothingLost, MarkInv, GapsMarked, Following, Oldest, Expected

LEMMA PushCounts ==
  ASSUME StreamInv, NothingLost, MarkInv, GapsMarked, NumberAndPush
  PROVE  NothingLost' /\ MarkInv' /\ GapsMarked'
<1>t. /\ Ring!TypeOK /\ queue \in Seq(Block) /\ Len(queue) \in Nat /\ discarded \in Nat
      /\ popped \in Seq(Block) /\ Len(popped) \in Nat /\ nextSeq \in Nat /\ degradeNext \in BOOLEAN
      /\ DOMAIN queue = 1..Len(queue)
  BY RingBlocks, MaxBlocksAssumption DEF StreamInv, TypeOK, Ring!TypeOK
<1>u. Following \in Nat
  <2>1. popped # <<>> => popped[Len(popped)] \in Block
    BY <1>t
  <2> QED
    BY <2>1 DEF Following, Block
<1>1. PICK b : b = [seq |-> nextSeq, status |-> fetched]
  OBVIOUS
<1>2. /\ ppc = "push" /\ Ring!Push(b) /\ nextSeq' = nextSeq + 1 /\ popped' = popped
  BY <1>1 DEF NumberAndPush, ProducerAt, ProducerOnly
<1>3. b \in Block /\ b.seq = nextSeq /\ b.status # "degraded" /\ ~ringClosed
  BY <1>1, <1>2, PushedIsBlock
<1>4. /\ Ring!TypeOK'
      /\ queue'[Len(queue')] = b /\ Len(queue') \in Nat \ {0}
      /\ \/ /\ Len(queue') = Len(queue) + 1
            /\ UNCHANGED <<discarded, degradeNext>>
            /\ \A i \in 1..Len(queue) : queue'[i] = queue[i]
         \/ /\ Len(queue') = Len(queue)
            /\ discarded' = discarded + 1 /\ degradeNext' = TRUE
            /\ \A i \in 1..(Len(queue) - 1) : queue'[i] = queue[i + 1]
  BY <1>t, <1>2, <1>3, PushShifts
<1>5. DOMAIN queue' = 1..Len(queue')
  BY <1>4 DEF Ring!TypeOK
<1>l. Len(queue) # Len(queue) + 1
  <2>1. Len(queue) \in Nat
    BY <1>t
  <2> QED
    BY <2>1
<1>g. ASSUME NEW i \in DOMAIN queue', Len(queue') = Len(queue) + 1, i # Len(queue')
      PROVE  i \in 1..Len(queue) /\ queue'[i] = queue[i]
  <2>1. i \in 1..Len(queue)
    BY <1>t, <1>5, <1>g
  <2>2. Len(queue') # Len(queue)
    BY <1>g, <1>l
  <2> QED
    BY <1>4, <2>1, <2>2
<1>s. ASSUME NEW i \in DOMAIN queue', Len(queue') = Len(queue), i # Len(queue')
      PROVE  i \in 1..(Len(queue) - 1) /\ i + 1 \in 1..Len(queue) /\ queue'[i] = queue[i + 1]
  <2>1. i \in 1..(Len(queue) - 1) /\ i + 1 \in 1..Len(queue)
    BY <1>t, <1>5, <1>s
  <2>2. Len(queue') # Len(queue) + 1
    BY <1>s, <1>l
  <2> QED
    BY <1>4, <2>1, <2>2
<1>n. \/ Len(queue') = Len(queue) + 1 /\ discarded' = discarded
      \/ Len(queue') = Len(queue) /\ discarded' = discarded + 1
  BY <1>4
<1>6. NothingLost'
  <2>1. nextSeq' = Len(popped') + discarded' + Len(queue')
    <3>1. nextSeq = Len(popped) + discarded + Len(queue)
      BY DEF NothingLost
    <3> QED
      BY <1>t, <1>2, <1>n, <3>1
  <2>2. ASSUME NEW i \in DOMAIN queue' PROVE queue'[i].seq = nextSeq' - Len(queue') + i - 1
    <3>1. CASE i = Len(queue')
      BY <1>t, <1>2, <1>3, <1>4, <3>1
    <3>2. CASE Len(queue') = Len(queue) + 1 /\ i # Len(queue')
      <4>1. i \in 1..Len(queue) /\ queue'[i] = queue[i]
        BY <1>g, <3>2
      <4>2. queue[i].seq = nextSeq - Len(queue) + i - 1
        BY <1>t, <4>1 DEF NothingLost
      <4> QED
        BY <1>t, <1>2, <3>2, <4>1, <4>2
    <3>3. CASE Len(queue') = Len(queue) /\ i # Len(queue')
      <4>1. i \in 1..(Len(queue) - 1) /\ i + 1 \in 1..Len(queue) /\ queue'[i] = queue[i + 1]
        BY <1>s, <3>3
      <4>2. queue[i + 1].seq = nextSeq - Len(queue) + (i + 1) - 1
        BY <1>t, <4>1 DEF NothingLost
      <4> QED
        BY <1>t, <1>2, <3>3, <4>1, <4>2
    <3> QED
      BY <1>4, <3>1, <3>2, <3>3
  <2> QED
    BY <2>1, <2>2 DEF NothingLost
<1>7. MarkInv'
  <2>1. \A i \in DOMAIN queue' : queue'[i].status # "degraded"
    <3> SUFFICES ASSUME NEW i \in DOMAIN queue' PROVE queue'[i].status # "degraded"
      OBVIOUS
    <3>1. CASE i = Len(queue')
      BY <1>3, <1>4, <3>1
    <3>2. CASE Len(queue') = Len(queue) + 1 /\ i # Len(queue')
      <4>1. i \in 1..Len(queue) /\ queue'[i] = queue[i]
        BY <1>g, <3>2
      <4> QED
        BY <1>t, <4>1 DEF MarkInv
    <3>3. CASE Len(queue') = Len(queue) /\ i # Len(queue')
      <4>1. i + 1 \in 1..Len(queue) /\ queue'[i] = queue[i + 1]
        BY <1>s, <3>3
      <4> QED
        BY <1>t, <4>1 DEF MarkInv
    <3> QED
      BY <1>4, <3>1, <3>2, <3>3
  <2>2. Following' = Following
    BY <1>2 DEF Following
  <2>3. \/ Oldest' = Oldest /\ degradeNext' = degradeNext
        \/ Oldest' = Oldest + 1 /\ degradeNext'
    <3>1. \/ Len(queue') = Len(queue) + 1 /\ degradeNext' = degradeNext
          \/ Len(queue') = Len(queue) /\ degradeNext'
      BY <1>4
    <3>2. Len(queue') = Len(queue) + 1 => Oldest' = Oldest
      BY <1>t, <1>2 DEF Oldest
    <3>3. Len(queue') = Len(queue) => Oldest' = Oldest + 1
      BY <1>t, <1>2 DEF Oldest
    <3> QED
      BY <3>1, <3>2, <3>3
  <2>4. Oldest \in Int
    BY <1>t DEF Oldest
  <2> QED
    BY <1>t, <1>u, <2>1, <2>2, <2>3, <2>4 DEF MarkInv
<1>8. GapsMarked'
  BY <1>2 DEF GapsMarked, Expected
<1> QED
  BY <1>6, <1>7, <1>8

LEMMA PopCounts ==
  ASSUME StreamInv, NothingLost, MarkInv, GapsMarked, NEW t \in Threads, NextDelivers(t)
  PROVE  NothingLost' /\ MarkInv' /\ GapsMarked'
<1>t. /\ Ring!TypeOK /\ queue \in Seq(Block) /\ Len(queue) \in Nat /\ discarded \in Nat
      /\ popped \in Seq(Block) /\ Len(popped) \in Nat /\ nextSeq \in Nat /\ degradeNext \in BOOLEAN
      /\ DOMAIN queue = 1..Len(queue) /\ DOMAIN popped = 1..Len(popped)
  BY RingBlocks, MaxBlocksAssumption DEF StreamInv, TypeOK, Ring!TypeOK
<1>u. Following \in Nat
  <2>1. popped # <<>> => popped[Len(popped)] \in Block
    BY <1>t
  <2> QED
    BY <2>1 DEF Following, Block
<1>1. PICK b : b = block'[t]
  OBVIOUS
<1>2. /\ Ring!PopBlock(t) /\ popped' = Append(popped, b) /\ nextSeq' = nextSeq
  BY <1>1 DEF NextDelivers, producer
<1>3. /\ Ring!TypeOK'
      /\ UNCHANGED discarded
      /\ 1 \in DOMAIN queue /\ Len(queue) \in Nat \ {0}
      /\ Len(queue') = Len(queue) - 1
      /\ \A i \in 1..Len(queue') : queue'[i] = queue[i + 1]
      /\ b \in Block
      /\ b = IF degradeNext THEN Degrade(queue[1]) ELSE queue[1]
      /\ degradeNext' = FALSE
  BY <1>t, <1>1, <1>2, PopShifts
<1>4. DOMAIN queue' = 1..Len(queue')
  BY <1>3 DEF Ring!TypeOK
<1>5. /\ Len(popped') = Len(popped) + 1 /\ DOMAIN popped' = 1..(Len(popped) + 1)
      /\ popped'[Len(popped) + 1] = b
      /\ \A i \in 1..Len(popped) : popped'[i] = popped[i]
      /\ popped' # <<>>
  BY <1>t, <1>2, <1>3
<1>6. b.seq = Oldest
  <2>1. queue[1].seq = Oldest
    <3>1. queue[1].seq = nextSeq - Len(queue) + 1 - 1
      BY <1>3 DEF NothingLost
    <3> QED
      BY <1>t, <3>1 DEF Oldest
  <2> QED
    BY <1>3, <2>1 DEF Degrade
<1>7. Oldest \in Nat
  BY <1>3, <1>6 DEF Block
<1>8. NothingLost'
  <2>1. nextSeq' = Len(popped') + discarded' + Len(queue')
    BY <1>t, <1>2, <1>3, <1>5 DEF NothingLost
  <2>2. ASSUME NEW i \in DOMAIN queue' PROVE queue'[i].seq = nextSeq' - Len(queue') + i - 1
    <3>1. i + 1 \in 1..Len(queue) /\ queue'[i] = queue[i + 1]
      BY <1>t, <1>3, <1>4
    <3>2. queue[i + 1].seq = nextSeq - Len(queue) + (i + 1) - 1
      BY <1>t, <3>1 DEF NothingLost
    <3> QED
      BY <1>t, <1>2, <1>3, <1>4, <3>1, <3>2
  <2> QED
    BY <2>1, <2>2 DEF NothingLost
<1>9. MarkInv'
  <2>1. \A i \in DOMAIN queue' : queue'[i].status # "degraded"
    <3> SUFFICES ASSUME NEW i \in DOMAIN queue' PROVE queue'[i].status # "degraded"
      OBVIOUS
    <3>1. i + 1 \in 1..Len(queue) /\ queue'[i] = queue[i + 1]
      BY <1>t, <1>3, <1>4
    <3> QED
      BY <1>t, <3>1 DEF MarkInv
  <2>2. Following' = Oldest + 1
    BY <1>5, <1>6 DEF Following
  <2>3. Oldest' = Oldest + 1
    BY <1>t, <1>2, <1>3 DEF Oldest
  <2> QED
    BY <1>3, <1>7, <2>1, <2>2, <2>3 DEF MarkInv
<1>10. GapsMarked'
  <2> SUFFICES ASSUME NEW i \in DOMAIN popped'
               PROVE  /\ popped'[i].seq >= Expected(i)'
                      /\ popped'[i].status = "degraded" => popped'[i].seq > Expected(i)'
                      /\ popped'[i].seq > Expected(i)' => popped'[i].status # "ok"
    BY DEF GapsMarked
  <2>1. CASE i \in 1..Len(popped)
    <3>1. popped'[i] = popped[i] /\ Expected(i)' = Expected(i)
      BY <1>t, <1>5, <2>1 DEF Expected
    <3> QED
      BY <1>t, <2>1, <3>1 DEF GapsMarked
  <2>2. CASE i = Len(popped) + 1
    <3>1. Expected(i)' = Following
      BY <1>t, <1>5, <2>2 DEF Expected, Following
    <3>2. popped'[i] = b
      BY <1>5, <2>2
    <3>3. queue[1].status # "degraded"
      BY <1>3 DEF MarkInv
    <3>4. b.status = "degraded" => degradeNext
      BY <1>3, <3>3
    <3>5. degradeNext => b.status # "ok"
      BY <1>3 DEF Degrade
    <3> QED
      BY <1>t, <1>u, <1>6, <1>7, <3>1, <3>2, <3>4, <3>5 DEF MarkInv
  <2> QED
    BY <1>t, <1>5, <2>1, <2>2
<1> QED
  BY <1>8, <1>9, <1>10

LEMMA CountStep ==
  StreamInv /\ NothingLost /\ MarkInv /\ GapsMarked /\ [Next]_vars
    => NothingLost' /\ MarkInv' /\ GapsMarked'
<1> SUFFICES ASSUME StreamInv, NothingLost, MarkInv, GapsMarked, [Next]_vars
             PROVE  NothingLost' /\ MarkInv' /\ GapsMarked'
  OBVIOUS
<1>1. CASE NumberAndPush
  BY <1>1, PushCounts
<1>2. CASE \E t \in Threads : NextDelivers(t)
  BY <1>2, PopCounts
<1>3. CASE Produce /\ ~NumberAndPush
  BY <1>3, CountStays DEF Produce, CheckStop, CheckStopAgain, CloseRing, NextBlockRaises, NextBlock,
          ProducerOnly, ringVars, Ring!Close
<1>4. ASSUME NEW t \in Threads, Use(t), ~NextDelivers(t) PROVE NothingLost' /\ MarkInv' /\ GapsMarked'
  BY <1>4, CountStays DEF Use, NextBegin, NextRefused, NextDrained, StopIteration, CloseBegin,
          CloseAgain, CloseEnd, Ring!PopNone, ringVars, producer, vars
<1>5. ASSUME NEW r \in Releasers, Release(r) PROVE NothingLost' /\ MarkInv' /\ GapsMarked'
  BY <1>5, CountStays DEF Release, ReleaseAgain, ReleaseFirst, SetStop, Join, JoinRaises,
          SourceClose, ringVars, producer
<1>6. ASSUME NEW h \in GcHosts, Collect(h) PROVE NothingLost' /\ MarkInv' /\ GapsMarked'
  BY <1>6, CountStays DEF Collect, ringVars, producer
<1>7. CASE Drop \/ ExitBegins \/ AtexitRuns \/ OtherStreamCloses \/ Exited \/ UNCHANGED vars
  BY <1>7, CountStays DEF Drop, ExitBegins, AtexitRuns, OtherStreamCloses, Exited, ringVars,
          producer, vars
<1> QED
  BY <1>1, <1>2, <1>3, <1>4, <1>5, <1>6, <1>7 DEF Next

-----------------------------------------------------------------------------
LEMMA ReleaseStep ==
  StreamInv /\ ReleaseInv /\ SourceClosedOnce /\ FinalizerKept /\ [Next]_vars
    => ReleaseInv' /\ SourceClosedOnce' /\ FinalizerKept'
<1> DEFINE Good == ReleaseInv /\ SourceClosedOnce /\ FinalizerKept
<1> SUFFICES ASSUME StreamInv, Good, [Next]_vars PROVE Good'
  OBVIOUS
<1> USE DEF resources, hooks, life
<1>t. /\ pc \in [Releasers -> Places] /\ sourceCloses \in Nat
      /\ "gc" \in Releasers /\ "exit" \in Releasers /\ "gc" \notin Threads /\ "exit" \notin Threads
      /\ "gc" # "exit" /\ \A t \in Threads : t \in Releasers
  BY ThreadsAssumption DEF StreamInv, TypeOK, Places, Releasers, Backstops
(* A step outside release(). *)
<1>q. ASSUME UNCHANGED <<released, sourceCloses>>,
             \A r \in Releasers : pc'[r] \in Releasing => pc[r] \in Releasing,
             \A t \in Threads : pc'[t] = "unhook" => pc[t] = "unhook",
             ~released => finalizer' \/ pc'["gc"] = "release"
      PROVE  Good'
  BY <1>q DEF ReleaseInv, SourceClosedOnce, FinalizerKept
<1>1. CASE Produce
  <2>1. ProducerOnly
    BY <1>1 DEF Produce, CheckStop, CheckStopAgain, NumberAndPush, CloseRing, NextBlockRaises, NextBlock
  <2> QED
    BY <2>1, <1>q DEF ProducerOnly, FinalizerKept
<1>2. ASSUME NEW t \in Threads, Use(t) PROVE Good'
  <2>1. \A r \in Releasers : r # t => pc'[r] = pc[r]
    BY <1>2, <1>t DEF Use, NextBegin, NextRefused, NextDelivers, NextDrained, StopIteration,
         CloseBegin, CloseAgain, CloseEnd, Goto, vars
  <2>2. pc'[t] = pc[t] \/ pc'[t] \in {"idle", "pop", "drained", "release"}
    BY <1>2, <1>t DEF Use, NextBegin, NextRefused, NextDelivers, NextDrained, StopIteration,
         CloseBegin, CloseAgain, CloseEnd, Goto, vars
  <2>3. UNCHANGED <<released, sourceCloses>>
    BY <1>2 DEF Use, NextBegin, NextRefused, NextDelivers, NextDrained, StopIteration,
         CloseBegin, CloseAgain, CloseEnd, vars
  <2>4. ~released => finalizer' = finalizer
    BY <1>2 DEF Use, NextBegin, NextRefused, NextDelivers, NextDrained, StopIteration,
         CloseBegin, CloseAgain, CloseEnd, vars, ReleaseInv
  <2>5. \A r \in Releasers : pc'[r] \in Releasing => pc[r] \in Releasing
    BY <2>1, <2>2 DEF Releasing
  <2>6. \A u \in Threads : pc'[u] = "unhook" => pc[u] = "unhook"
    BY <1>t, <2>1, <2>2
  <2>7. pc'["gc"] = pc["gc"]
    BY <1>t, <2>1
  <2> QED
    BY <2>3, <2>4, <2>5, <2>6, <2>7, <1>q DEF FinalizerKept
<1>3. ASSUME NEW r \in Releasers, Release(r) PROVE Good'
  <2> USE DEF Goto
  <2>f. finalizer' = finalizer
    BY <1>3 DEF Release, ReleaseAgain, ReleaseFirst, SetStop, Join, JoinRaises, SourceClose
  <2>1. CASE ReleaseAgain(r)
    <3>1. /\ released /\ UNCHANGED <<released, sourceCloses>>
          /\ pc'[r] \in {"unhook", "done"} /\ \A s \in Releasers : s # r => pc'[s] = pc[s]
      BY <2>1, <1>t DEF ReleaseAgain, ReturnFromRelease
    <3> QED
      BY <3>1, <1>t DEF ReleaseInv, SourceClosedOnce, FinalizerKept, Releasing
  <2>2. CASE ReleaseFirst(r)
    <3>1. /\ ~released /\ released' = TRUE /\ UNCHANGED sourceCloses
          /\ pc'[r] = "set_stop" /\ \A s \in Releasers : s # r => pc'[s] = pc[s]
      BY <2>2, <1>t DEF ReleaseFirst
    <3>2. released' /\ sourceCloses' = 0 /\ \A s \in Releasers : s # r => pc'[s] \notin Releasing
      BY <3>1 DEF ReleaseInv
    <3> QED
      BY <3>1, <3>2, <1>t DEF ReleaseInv, SourceClosedOnce, FinalizerKept, Releasing
  <2>3. CASE SetStop(r) \/ Join(r)
    <3>1. /\ UNCHANGED <<released, sourceCloses>> /\ pc[r] \in {"set_stop", "join"}
          /\ pc'[r] \in {"join", "close_source"} /\ \A s \in Releasers : s # r => pc'[s] = pc[s]
      BY <2>3, <1>t DEF SetStop, Join
    <3>2. \A s \in Releasers : pc'[s] \in Releasing => pc[s] \in Releasing
      BY <3>1 DEF Releasing
    <3>3. \A t \in Threads : pc'[t] = "unhook" => pc[t] = "unhook"
      BY <3>1, <1>t
    <3>4. released
      BY <3>1 DEF ReleaseInv, Releasing
    <3> QED
      BY <3>1, <3>2, <3>3, <3>4, <1>q
  <2>4. CASE JoinRaises(r)
    <3>1. /\ UNCHANGED <<released, sourceCloses>> /\ pc[r] = "join"
          /\ pc'[r] \in {"unhook", "done"} /\ \A s \in Releasers : s # r => pc'[s] = pc[s]
      BY <2>4, <1>t DEF JoinRaises, ReturnFromRelease
    <3>2. released
      BY <3>1 DEF ReleaseInv, Releasing
    <3> QED
      BY <3>1, <3>2, <1>t DEF ReleaseInv, SourceClosedOnce, FinalizerKept, Releasing
  <2>5. CASE SourceClose(r)
    <3>1. /\ sourceCloses' = sourceCloses + 1 /\ UNCHANGED released /\ pc[r] = "close_source"
          /\ pc'[r] \in {"unhook", "done"} /\ \A s \in Releasers : s # r => pc'[s] = pc[s]
      BY <2>5, <1>t DEF SourceClose, ReturnFromRelease
    <3>2. released /\ sourceCloses' = 1
      BY <3>1 DEF ReleaseInv, Releasing
    <3>3. \A s \in Releasers : pc'[s] \notin Releasing
      BY <3>1 DEF ReleaseInv, Releasing
    <3> QED
      BY <3>1, <3>2, <3>3 DEF ReleaseInv, SourceClosedOnce, FinalizerKept
  <2> QED
    BY <1>3, <2>1, <2>2, <2>3, <2>4, <2>5 DEF Release
<1>4. CASE Drop \/ ExitBegins \/ OtherStreamCloses \/ Exited \/ UNCHANGED vars
  BY <1>4, <1>q DEF Drop, ExitBegins, OtherStreamCloses, Exited, vars, FinalizerKept
<1>5. ASSUME NEW h \in GcHosts, Collect(h) PROVE Good'
  <2>1. /\ UNCHANGED <<released, sourceCloses>> /\ pc'["gc"] = "release"
        /\ \A s \in Releasers : s # "gc" => pc'[s] = pc[s]
    BY <1>5, <1>t DEF Collect, Goto
  <2> QED
    BY <2>1, <1>t, <1>q DEF Releasing
<1>6. CASE AtexitRuns
  <2>1. /\ UNCHANGED <<released, sourceCloses, finalizer>> /\ pc'["exit"] = "release"
        /\ \A s \in Releasers : s # "exit" => pc'[s] = pc[s]
    BY <1>6, <1>t DEF AtexitRuns, Goto
  <2> QED
    BY <2>1, <1>t, <1>q DEF Releasing, FinalizerKept
<1> QED
  BY <1>1, <1>2, <1>3, <1>4, <1>5, <1>6 DEF Next

-----------------------------------------------------------------------------
(* Every variable keeps its type, those of the ring included. *)
THEOREM StreamTypes == Spec => []TypeOK
<1>1. Spec => []StreamInv
  BY StreamInit, StreamStep, PTL DEF Spec
<1>2. StreamInv => TypeOK
  BY DEF StreamInv
<1> QED
  BY <1>1, <1>2, PTL

(* Every block the producer numbered is delivered, undelivered or counted  *)
(* as discarded.                                                           *)
THEOREM CountsAddUp == Spec => []NothingLost
<1>1. Spec => [](StreamInv /\ NothingLost /\ MarkInv /\ GapsMarked)
  BY StreamInit, StreamStep, CountStep, PTL DEF Spec
<1> QED
  BY <1>1, PTL

(* Blocks are delivered in the order of their seq, and a block behind a    *)
(* discard, and no other, carries the mark.                                *)
THEOREM GapsAreMarked == Spec => []GapsMarked
<1>1. Spec => [](StreamInv /\ NothingLost /\ MarkInv /\ GapsMarked)
  BY StreamInit, StreamStep, CountStep, PTL DEF Spec
<1> QED
  BY <1>1, PTL

(* However many threads and backstops reach release(), the source is       *)
(* closed once.                                                            *)
THEOREM OneSourceClose == Spec => []SourceClosedOnce
<1>1. Spec => [](StreamInv /\ ReleaseInv /\ SourceClosedOnce /\ FinalizerKept)
  BY StreamInit, StreamStep, ReleaseStep, PTL DEF Spec
<1> QED
  BY <1>1, PTL

(* A stream that nobody began to release still has its finalizer, or the   *)
(* finalizer is about to release it.                                       *)
THEOREM SomeoneReleases == Spec => []FinalizerKept
<1>1. Spec => [](StreamInv /\ ReleaseInv /\ SourceClosedOnce /\ FinalizerKept)
  BY StreamInit, StreamStep, ReleaseStep, PTL DEF Spec
<1> QED
  BY <1>1, PTL

-----------------------------------------------------------------------------
(* What the feed's user sees changes by a push, a pop, the end of the      *)
(* producer and the way out of a drained pop only.                         *)
Seen == <<nextSeq, discarded, popped, ringClosed, queue>>

LEMMA FeedBlocks == Feed!Status = Status
BY DEF Feed!Status, Status

LEMMA FeedStays ==
  ASSUME UNCHANGED Seen, UNCHANGED {t \in Threads : pc[t] = "drained"}
  PROVE  UNCHANGED Feed!vars
BY DEF Seen, Feed!vars

LEMMA FeedOldest ==
  ASSUME StreamInv, NothingLost
  PROVE  /\ nextSeq \in Nat /\ discarded \in Nat /\ Len(popped) \in Nat /\ Len(queue) \in Nat
         /\ Feed!Oldest = Oldest /\ Feed!Oldest = Len(popped) + discarded
         /\ nextSeq = Feed!Oldest + Len(queue)
         /\ Feed!Following = Following
         /\ queue = <<>> <=> Len(queue) = 0
<1>1. /\ queue \in Seq(Block) /\ discarded \in Nat /\ popped \in Seq(Block) /\ nextSeq \in Nat
  BY RingBlocks, MaxBlocksAssumption DEF StreamInv, TypeOK, Ring!TypeOK
<1>2. nextSeq = Len(popped) + discarded + Len(queue)
  BY DEF NothingLost
<1> QED
  BY <1>1, <1>2 DEF Feed!Oldest, Oldest, Feed!Following, Following

(* A push numbers a block.  The ring holds one at least, so the one that   *)
(* gives way is not the new one.                                           *)
LEMMA PushFeeds ==
  ASSUME StreamInv, NothingLost, NumberAndPush
  PROVE  Feed!Number
<1>1. ~ringClosed /\ Ring!TypeOK /\ [seq |-> nextSeq, status |-> fetched] \in Block
  BY PushedIsBlock DEF NumberAndPush, ProducerAt, StreamInv, TypeOK
<1>2. Ring!Push([seq |-> nextSeq, status |-> fetched]) /\ nextSeq' = nextSeq + 1
  BY DEF NumberAndPush
<1>3. ringClosed' = ringClosed /\ popped' = popped /\ pc' = pc
  BY <1>1, <1>2, PushShifts DEF NumberAndPush, ProducerOnly
<1>4. discarded' = discarded \/ (Feed!Oldest < nextSeq /\ discarded' = discarded + 1)
  <2>1. CASE Ring!Enqueue([seq |-> nextSeq, status |-> fetched])
    BY <2>1 DEF Ring!Enqueue
  <2>2. CASE Ring!DropOldest([seq |-> nextSeq, status |-> fetched])
    <3>1. Len(queue) = Capacity /\ discarded' = discarded + 1
      BY <2>2 DEF Ring!DropOldest
    <3> QED BY <3>1, FeedOldest, CapacityAssumption
  <2> QED BY <1>1, <1>2, <2>1, <2>2 DEF Ring!Push, Ring!Ignore
<1> QED
  BY <1>1, <1>2, <1>3, <1>4 DEF Feed!Number

(* A pop delivers the oldest block, with the mark if one is due.           *)
LEMMA PopFeeds ==
  ASSUME StreamInv, NothingLost, MarkInv, NEW t \in Threads, NextDelivers(t)
  PROVE  \E status \in Status : Feed!Deliver(status)
<1>1. Ring!TypeOK /\ Ring!PopBlock(t)
  BY DEF StreamInv, TypeOK, NextDelivers
<1>2. PICK b : b = block'[t]
  OBVIOUS
<1>3. /\ Ring!TypeOK'
      /\ UNCHANGED <<ringClosed, discarded>>
      /\ 1 \in DOMAIN queue /\ Len(queue) \in Nat \ {0}
      /\ Len(queue') = Len(queue) - 1
      /\ b \in Block
      /\ b = IF degradeNext THEN Degrade(queue[1]) ELSE queue[1]
  BY <1>1, <1>2, PopShifts
<1>4. nextSeq' = nextSeq /\ popped' = Append(popped, b)
  BY <1>2 DEF NextDelivers, producer
<1>5. {u \in Threads : pc'[u] = "drained"} = {u \in Threads : pc[u] = "drained"}
  <2>1. pc[t] = "pop" /\ pc' = [pc EXCEPT ![t] = "idle"]
    BY DEF NextDelivers, Goto
  <2> QED BY <2>1 DEF StreamInv, TypeOK, Releasers
<1>6. queue[1].seq = Oldest /\ b.seq = Oldest
  <2>1. queue[1].seq = nextSeq - Len(queue) + 1 - 1
    BY <1>3 DEF NothingLost
  <2> QED BY <1>3, <2>1, FeedOldest DEF Degrade, Oldest
<1>7. b.status \in Status /\ b = [seq |-> Feed!Oldest, status |-> b.status]
  BY <1>3, <1>6, FeedOldest DEF Block
<1>8. /\ b.status = "degraded" => Feed!Following < Feed!Oldest
      /\ Feed!Following < Feed!Oldest => b.status # "ok"
  <2>1. queue[1].status # "degraded" /\ (degradeNext <=> Following < Oldest)
    BY <1>3 DEF MarkInv
  <2>2. degradeNext \in BOOLEAN
    BY <1>1 DEF Ring!TypeOK
  <2>3. b.status = "degraded" => degradeNext
    BY <1>3, <2>1, <2>2
  <2>4. degradeNext => b.status # "ok"
    BY <1>3 DEF Degrade
  <2> QED BY <2>1, <2>3, <2>4, FeedOldest
<1>9. ~(ringClosed /\ queue = <<>>) /\ Feed!Oldest < nextSeq
  BY <1>3, FeedOldest
<1>10. (ringClosed' /\ queue' = <<>>) \in {FALSE, Feed!Oldest + 1 = nextSeq}
  <2>1. queue' = <<>> <=> Len(queue') = 0
    BY <1>3 DEF Ring!TypeOK
  <2>2. queue' = <<>> <=> Feed!Oldest + 1 = nextSeq
    BY <1>3, <2>1, FeedOldest
  <2>3. ringClosed' \in BOOLEAN
    BY <1>3 DEF Ring!TypeOK
  <2>4. (ringClosed' /\ queue' = <<>>) = FALSE
          \/ (ringClosed' /\ queue' = <<>>) = (Feed!Oldest + 1 = nextSeq)
    BY <2>2, <2>3
  <2> QED BY <2>4
<1> QED
  BY <1>3, <1>4, <1>5, <1>7, <1>8, <1>9, <1>10 DEF Feed!Deliver

LEMMA FeedStep ==
  ASSUME StreamInv, NothingLost, MarkInv, [Next]_vars
  PROVE  [Feed!Next]_Feed!vars
<1> USE DEF Goto
<1>t. pc \in [Releasers -> Places] /\ \A t \in Threads : t \in Releasers
  BY DEF StreamInv, TypeOK, Places, Releasers
<1>1. CASE NumberAndPush
  BY <1>1, PushFeeds DEF Feed!Next
<1>2. ASSUME NEW t \in Threads, NextDelivers(t) PROVE Feed!Next
  BY <1>2, PopFeeds, FeedBlocks DEF Feed!Next
<1>3. CASE CloseRing
  <2>1. UNCHANGED <<nextSeq, discarded, popped, queue, pc>> /\ ringClosed' = TRUE
    BY <1>3 DEF CloseRing, Ring!Close, ProducerOnly
  <2>2. ~ringClosed
    BY <1>3 DEF CloseRing, ProducerAt, StreamInv, ProducerInv
  <2>3. CASE queue = <<>>
    <3>1. Feed!Oldest = nextSeq
      BY <2>3, FeedOldest
    <3>2. Feed!End
      BY <2>1, <2>2, <2>3, <3>1 DEF Feed!End
    <3> QED BY <3>2 DEF Feed!Next
  <2>4. CASE queue # <<>>
    BY <2>1, <2>4 DEF Feed!vars
  <2> QED BY <2>3, <2>4
<1>4. ASSUME NEW t \in Threads, NextDrained(t) PROVE Feed!Next
  <2>1. ringClosed /\ queue = <<>> /\ UNCHANGED Seen /\ pc' = [pc EXCEPT ![t] = "drained"]
    BY <1>4 DEF NextDrained, Ring!PopNone, Seen, producer
  <2>2. {u \in Threads : pc'[u] = "drained"} = {u \in Threads : pc[u] = "drained"} \cup {t}
    BY <1>t, <2>1
  <2>3. Feed!Tell(t)
    BY <2>1, <2>2 DEF Feed!Tell, Seen
  <2> QED BY <2>3 DEF Feed!Next
<1>5. ASSUME NEW t \in Threads, StopIteration(t) PROVE Feed!Next
  <2>1. UNCHANGED Seen /\ pc' = [pc EXCEPT ![t] = "idle"]
    BY <1>5 DEF StopIteration, Seen, producer, ringVars
  <2>2. {u \in Threads : pc'[u] = "drained"} = {u \in Threads : pc[u] = "drained"} \ {t}
    BY <1>t, <2>1
  <2>3. Feed!Told(t)
    BY <2>1, <2>2 DEF Feed!Told, Seen
  <2> QED BY <2>3 DEF Feed!Next
<1>6. ASSUME UNCHANGED Seen,
             pc' = pc \/ \E r \in Releasers : \E to \in Places \ {"drained"} :
                           pc' = [pc EXCEPT ![r] = to] /\ pc[r] # "drained"
      PROVE  UNCHANGED Feed!vars
  <2>1. {u \in Threads : pc'[u] = "drained"} = {u \in Threads : pc[u] = "drained"}
    BY <1>t, <1>6
  <2> QED BY <1>6, <2>1, FeedStays
<1>7. CASE Produce /\ ~NumberAndPush /\ ~CloseRing
  <2>1. UNCHANGED Seen /\ pc' = pc
    BY <1>7 DEF Produce, CheckStop, CheckStopAgain, NextBlockRaises, NextBlock, ProducerOnly,
                Seen, ringVars
  <2> QED BY <1>6, <2>1
<1>8. ASSUME NEW t \in Threads, Use(t), ~NextDelivers(t), ~NextDrained(t), ~StopIteration(t)
      PROVE  UNCHANGED Feed!vars
  <2>1. UNCHANGED Seen
    BY <1>8 DEF Use, NextBegin, NextRefused, CloseBegin, CloseAgain, CloseEnd, Seen, ringVars,
                producer, vars
  <2>2. pc' = pc \/ \E to \in Places \ {"drained"} : pc' = [pc EXCEPT ![t] = to] /\ pc[t] # "drained"
    BY <1>8 DEF Use, NextBegin, NextRefused, CloseBegin, CloseAgain, CloseEnd, InUse, vars, Places
  <2> QED BY <1>t, <1>6, <2>1, <2>2
<1>9. ASSUME NEW r \in Releasers, Release(r) PROVE UNCHANGED Feed!vars
  <2>1. UNCHANGED Seen
    BY <1>9 DEF Release, ReleaseAgain, ReleaseFirst, SetStop, Join, JoinRaises, SourceClose,
                Seen, ringVars, producer
  <2>2. \E to \in Places \ {"drained"} : pc' = [pc EXCEPT ![r] = to] /\ pc[r] # "drained"
    BY <1>9 DEF Release, ReleaseAgain, ReleaseFirst, SetStop, Join, JoinRaises, SourceClose,
                ReturnFromRelease, Places
  <2> QED BY <1>6, <2>1, <2>2
<1>10. ASSUME UNCHANGED Seen, \A t \in Threads : pc'[t] = pc[t] PROVE UNCHANGED Feed!vars
  BY <1>10, FeedStays
<1>11. ASSUME NEW h \in GcHosts, Collect(h) PROVE UNCHANGED Feed!vars
  BY <1>t, <1>10, <1>11, ThreadsAssumption DEF Collect, Seen, ringVars, producer
<1>12. CASE AtexitRuns
  BY <1>t, <1>10, <1>12, ThreadsAssumption DEF AtexitRuns, Seen, ringVars, producer
<1>13. CASE Drop \/ ExitBegins \/ OtherStreamCloses \/ Exited \/ UNCHANGED vars
  BY <1>10, <1>13 DEF Drop, ExitBegins, OtherStreamCloses, Exited, Seen, ringVars, producer, vars
<1> QED
  BY <1>1, <1>2, <1>3, <1>4, <1>5, <1>7, <1>8, <1>9, <1>11, <1>12, <1>13 DEF Next

(* The ring, the producer, the iterating and closing threads, the          *)
(* collector and the exit hooks together implement the feed of blocks that *)
(* a user of the stream is promised.                                       *)
THEOREM StreamIsFeed == Spec => ImplementsFeed
<1>1. Init => Feed!Init
  BY ThreadsAssumption DEF Init, Ring!Init, Feed!Init, Releasers
<1>2. Spec => [](StreamInv /\ NothingLost /\ MarkInv /\ GapsMarked)
  BY StreamInit, StreamStep, CountStep, PTL DEF Spec
<1>3. StreamInv /\ NothingLost /\ MarkInv /\ [Next]_vars => [Feed!Next]_Feed!vars
  BY FeedStep
<1> QED
  BY <1>1, <1>2, <1>3, PTL DEF Spec, ImplementsFeed, Feed!Spec
=============================================================================
