------------------------------- MODULE Stream -------------------------------
(***************************************************************************)
(* One Stream of registry/streaming.py and everything that runs around it: *)
(*   - its producer thread (_produce_loop), which pulls blocks from the    *)
(*     adapter's StreamSource, numbers them and pushes them;               *)
(*   - application threads that iterate (__next__) and close it;           *)
(*   - the two backstops that release it when nobody closes it: the        *)
(*     weakref.finalize callback, run by whichever thread the garbage      *)
(*     collector happens to run in (or by the exit of the interpreter),    *)
(*     and the atexit entry.                                               *)
(* The ring is the abstract BlockQueue, which RingBuffer implements.       *)
(*                                                                         *)
(* A step is what one thread does between two points where another thread  *)
(* can come in: a body under a lock, a call that blocks, one access to the *)
(* stop event.                                                             *)
(***************************************************************************)
EXTENDS Blocks, Sequences

CONSTANTS
  Capacity,      (* buffer_blocks *)
  Threads,       (* application threads that hold the Stream *)
  MaxBlocks,     (* bound: blocks the source can yield before it only raises *)
  SourceStatus,  (* statuses the source gives its blocks *)
  GcHosts        (* where a collection may run: "app", "producer" *)

ASSUME CapacityAssumption  == Capacity \in Nat \ {0}
ASSUME MaxBlocksAssumption == MaxBlocks \in Nat
ASSUME StatusAssumption    == SourceStatus \subseteq Status \ {"degraded"}
ASSUME GcHostsAssumption   == GcHosts \subseteq {"app", "producer"}
ASSUME ThreadsAssumption   == "gc" \notin Threads /\ "exit" \notin Threads

VARIABLES
  queue, discarded, degradeNext, ringClosed, block,  (* the ring *)
  ppc,          (* where the producer thread is *)
  fetched,      (* status of the block next_block() returned *)
  nextSeq,      (* seq_state["next_seq"] *)
  stop,         (* _stop_event *)
  released,     (* _StreamResources._released *)
  sourceCloses, (* calls of source.close() *)
  closedFlag,   (* Stream._closed *)
  finalizer,    (* the weakref.finalize is still alive *)
  atexitEntry,  (* the atexit entry is still registered *)
  pc,           (* where each application thread and backstop is *)
  gcHost,       (* the thread the finalizer runs or ran in, "none" before that *)
  dropped,      (* the application let go of its last reference *)
  exiting,      (* the interpreter is shutting down *)
  popped        (* history: blocks handed out by the ring, in order *)

ringVars    == <<queue, discarded, degradeNext, ringClosed, block>>
producer    == <<ppc, fetched, nextSeq>>
resources   == <<stop, released, sourceCloses>>
hooks       == <<finalizer, atexitEntry>>
life        == <<gcHost, dropped, exiting>>
vars == <<ringVars, producer, resources, closedFlag, hooks, pc, life, popped>>

Ring == INSTANCE BlockQueue WITH
          closed    <- ringClosed,
          Consumers <- Threads,
          Pushed    <- [seq : 0..(MaxBlocks - 1), status : SourceStatus]

(* Those that may call _StreamResources.release(). *)
Backstops == {"gc", "exit"}
Releasers == Threads \cup Backstops

Init ==
  /\ Ring!Init
  /\ ppc = "check"
  /\ fetched = "none"
  /\ nextSeq = 0
  /\ stop = FALSE
  /\ released = FALSE
  /\ sourceCloses = 0
  /\ closedFlag = FALSE
  /\ finalizer = TRUE
  /\ atexitEntry = TRUE
  /\ pc = [r \in Releasers |-> "idle"]
  /\ gcHost = "none"
  /\ dropped = FALSE
  /\ exiting = FALSE
  /\ popped = <<>>

Goto(r, label) == pc' = [pc EXCEPT ![r] = label]

-----------------------------------------------------------------------------
(* The producer thread.  A finalizer that the collector runs in this       *)
(* thread interrupts it until it returns.                                  *)

ProducerAt(label) ==
  ppc = label /\ ~(gcHost = "producer" /\ pc["gc"] # "done")
ProducerOnly == UNCHANGED <<resources, closedFlag, hooks, pc, life, popped>>

(* while not stop_event.is_set() *)
CheckStop ==
  /\ ProducerAt("check")
  /\ ppc' = IF stop THEN "ring_close" ELSE "next_block"
  /\ UNCHANGED <<ringVars, fetched, nextSeq>>
  /\ ProducerOnly

(* next_block() may return a block even after the source was closed.       *)
NextBlock(s) ==
  /\ ProducerAt("next_block")
  /\ nextSeq < MaxBlocks
  /\ fetched' = s
  /\ ppc' = "got"
  /\ UNCHANGED <<ringVars, nextSeq>>
  /\ ProducerOnly

NextBlockRaises ==
  /\ ProducerAt("next_block")
  /\ ppc' = "ring_close"
  /\ UNCHANGED <<ringVars, fetched, nextSeq>>
  /\ ProducerOnly

(* The second look at the event, after next_block() returned. *)
CheckStopAgain ==
  /\ ProducerAt("got")
  /\ ppc' = IF stop THEN "ring_close" ELSE "push"
  /\ UNCHANGED <<ringVars, fetched, nextSeq>>
  /\ ProducerOnly

(* The block is numbered before it touches the ring. *)
NumberAndPush ==
  /\ ProducerAt("push")
  /\ Ring!Push([seq |-> nextSeq, status |-> fetched])
  /\ nextSeq' = nextSeq + 1
  /\ ppc' = "check"
  /\ UNCHANGED fetched
  /\ ProducerOnly

(* Mutant: the thread ends without closing the ring. *)
CloseRingSkipped ==
  /\ ProducerAt("ring_close")
  /\ ppc' = "dead"
  /\ UNCHANGED <<ringVars, fetched, nextSeq>>
  /\ ProducerOnly

(* ring.close(), the last thing the thread does. *)
CloseRing ==
  /\ ProducerAt("ring_close")
  /\ Ring!Close
  /\ ppc' = "dead"
  /\ UNCHANGED <<fetched, nextSeq>>
  /\ ProducerOnly

Produce ==
  \/ CheckStop \/ CheckStopAgain \/ NumberAndPush \/ CloseRing
  \/ NextBlockRaises
  \/ \E s \in SourceStatus : NextBlock(s)

-----------------------------------------------------------------------------
(* Stream.__next__ in an application thread. *)

InUse(t) == ~dropped /\ ~exiting /\ pc[t] = "idle"

(* An open stream: go and wait for a block. *)
NextBegin(t) ==
  /\ InUse(t)
  /\ ~closedFlag
  /\ Goto(t, "pop")
  /\ UNCHANGED <<ringVars, producer, resources, closedFlag, hooks, life, popped>>

(* ClosedStreamError *)
NextRefused(t) == InUse(t) /\ closedFlag /\ UNCHANGED vars

NextDelivers(t) ==
  /\ pc[t] = "pop"
  /\ Ring!PopBlock(t)
  /\ popped' = Append(popped, block'[t])
  /\ Goto(t, "idle")
  /\ UNCHANGED <<producer, resources, closedFlag, hooks, life>>

(* pop() answered None; _closed is set in a step of its own. *)
NextDrained(t) ==
  /\ pc[t] = "pop"
  /\ Ring!PopNone(t)
  /\ Goto(t, "drained")
  /\ UNCHANGED <<producer, resources, closedFlag, hooks, life, popped>>

(* Mutant: the end of the stream gives up the finalizer. *)
StopIterationDetaches(t) ==
  /\ pc[t] = "drained"
  /\ closedFlag' = TRUE
  /\ finalizer' = FALSE
  /\ Goto(t, "idle")
  /\ UNCHANGED <<ringVars, producer, resources, atexitEntry, life, popped>>

(* StopIteration: the stream counts as closed, but nothing is released. *)
StopIteration(t) ==
  /\ pc[t] = "drained"
  /\ closedFlag' = TRUE
  /\ Goto(t, "idle")
  /\ UNCHANGED <<ringVars, producer, resources, hooks, life, popped>>

-----------------------------------------------------------------------------
(* Stream.close() in an application thread, also reached by __exit__. *)

(* An early return when _closed is set already. *)
CloseAgain(t) ==
  /\ InUse(t)
  /\ closedFlag
  /\ UNCHANGED vars

CloseBegin(t) ==
  /\ InUse(t)
  /\ ~closedFlag
  /\ closedFlag' = TRUE
  /\ Goto(t, "release")
  /\ UNCHANGED <<ringVars, producer, resources, hooks, life, popped>>

(* self._finalizer.detach() and atexit.unregister(), then close() returns. *)
CloseEnd(t) ==
  /\ pc[t] = "unhook"
  /\ finalizer' = FALSE
  /\ atexitEntry' = FALSE
  /\ Goto(t, "idle")
  /\ UNCHANGED <<ringVars, producer, resources, closedFlag, life, popped>>

-----------------------------------------------------------------------------
(* _StreamResources.release(), by a closer or by a backstop. *)

(* Where r goes when release() returns or raises. *)
ReturnFromRelease(r) == Goto(r, IF r \in Threads THEN "unhook" ELSE "done")

ReleaseAgain(r) ==
  /\ pc[r] = "release"
  /\ released
  /\ ReturnFromRelease(r)
  /\ UNCHANGED <<ringVars, producer, resources, closedFlag, hooks, life, popped>>

(* Mutant: release() does not look at _released. *)
ReleaseUnchecked(r) ==
  /\ pc[r] = "release"
  /\ released' = TRUE
  /\ Goto(r, "set_stop")
  /\ UNCHANGED <<ringVars, producer, stop, sourceCloses, closedFlag, hooks, life, popped>>

ReleaseFirst(r) ==
  /\ pc[r] = "release"
  /\ ~released
  /\ released' = TRUE
  /\ Goto(r, "set_stop")
  /\ UNCHANGED <<ringVars, producer, stop, sourceCloses, closedFlag, hooks, life, popped>>

(* Mutant: release() closes the ring itself, to wake consumers sooner. *)
SetStopClosesRing(r) ==
  /\ pc[r] = "set_stop"
  /\ stop' = TRUE
  /\ Ring!Close
  /\ Goto(r, "join")
  /\ UNCHANGED <<producer, released, sourceCloses, closedFlag, hooks, life, popped>>

SetStop(r) ==
  /\ pc[r] = "set_stop"
  /\ stop' = TRUE
  /\ Goto(r, "join")
  /\ UNCHANGED <<ringVars, producer, released, sourceCloses, closedFlag, hooks, life, popped>>

(* The finalizer runs in the very thread it is about to join. *)
JoinsItself(r) == r = "gc" /\ gcHost = "producer"

(* Mutant: a join without a timeout. *)
JoinForever(r) ==
  /\ pc[r] = "join"
  /\ ~JoinsItself(r)
  /\ ppc = "dead"
  /\ Goto(r, "close_source")
  /\ UNCHANGED <<ringVars, producer, resources, closedFlag, hooks, life, popped>>

(* Mutant: release() gives up when the join times out. *)
JoinGivesUp(r) ==
  /\ pc[r] = "join"
  /\ ~JoinsItself(r)
  /\ IF ppc = "dead" THEN Goto(r, "close_source") ELSE ReturnFromRelease(r)
  /\ UNCHANGED <<ringVars, producer, resources, closedFlag, hooks, life, popped>>

(* is_alive() is false, or join() ended because the thread did or because  *)
(* its second is over: join() tells its caller nothing.                    *)
Join(r) ==
  /\ pc[r] = "join"
  /\ ~JoinsItself(r)
  /\ Goto(r, "close_source")
  /\ UNCHANGED <<ringVars, producer, resources, closedFlag, hooks, life, popped>>

(* join() raises RuntimeError in the joined thread itself.  It leaves      *)
(* release(), and weakref.finalize reports and drops it.                   *)
JoinRaises(r) ==
  /\ pc[r] = "join"
  /\ JoinsItself(r)
  /\ ReturnFromRelease(r)
  /\ UNCHANGED <<ringVars, producer, resources, closedFlag, hooks, life, popped>>

(* source.close(); an exception out of it is swallowed. *)
SourceClose(r) ==
  /\ pc[r] = "close_source"
  /\ sourceCloses' = sourceCloses + 1
  /\ ReturnFromRelease(r)
  /\ UNCHANGED <<ringVars, producer, stop, released, closedFlag, hooks, life, popped>>

Resting(r) == pc[r] \in {"idle", "done"}

(* The collector runs the finalizer inside the main thread's exit entry. *)
Interrupted(r) == r = "exit" /\ gcHost = "app" /\ ~Resting("gc")

Release(r) ==
  /\ ~Interrupted(r)
  /\ \/ ReleaseAgain(r) \/ ReleaseFirst(r) \/ SetStop(r)
     \/ Join(r) \/ JoinRaises(r) \/ SourceClose(r)

-----------------------------------------------------------------------------
(* The life of the object and the backstops. *)

AllIdle == \A t \in Threads : pc[t] = "idle"

(* The last reference goes; a thread inside a method holds one. *)
Drop ==
  /\ ~dropped
  /\ ~exiting
  /\ AllIdle
  /\ dropped' = TRUE
  /\ UNCHANGED <<ringVars, producer, resources, closedFlag, hooks, pc, gcHost, exiting, popped>>

(* The interpreter shuts down once the application threads are finished;   *)
(* the producer is a daemon thread and runs on.                            *)
ExitBegins ==
  /\ ~exiting
  /\ AllIdle
  /\ exiting' = TRUE
  /\ UNCHANGED <<ringVars, producer, resources, closedFlag, hooks, pc, gcHost, dropped, popped>>

(* weakref.finalize calls _release_resources once: when an unreachable     *)
(* Stream is collected, in any thread, or from weakref's own exit hook, in *)
(* the main thread.  A collection interrupts whatever its thread is doing. *)
Collect(h) ==
  /\ finalizer
  /\ \/ dropped
     \/ exiting /\ h = "app" /\ Resting("exit")
  /\ h = "producer" => ppc # "dead"
  /\ finalizer' = FALSE
  /\ gcHost' = h
  /\ Goto("gc", "release")
  /\ UNCHANGED <<ringVars, producer, resources, closedFlag, atexitEntry, dropped, exiting, popped>>

(* The main thread runs the atexit entry, if nobody unregistered it. *)
AtexitRuns ==
  /\ exiting
  /\ atexitEntry
  /\ gcHost = "app" => Resting("gc")
  /\ atexitEntry' = FALSE
  /\ Goto("exit", "release")
  /\ UNCHANGED <<ringVars, producer, resources, closedFlag, finalizer, life, popped>>

(* The process is over. *)
Exited ==
  /\ exiting
  /\ ~finalizer /\ ~atexitEntry
  /\ Resting("gc") /\ Resting("exit")
  /\ UNCHANGED vars

(* close() of another Stream of the process.  atexit.unregister removes    *)
(* every entry made for _release_resources, which is the one function all  *)
(* the streams register: this stream's entry goes too.                     *)
OtherStreamCloses ==
  /\ ~exiting
  /\ atexitEntry
  /\ atexitEntry' = FALSE
  /\ UNCHANGED <<ringVars, producer, resources, closedFlag, finalizer, pc, life, popped>>

-----------------------------------------------------------------------------
Use(t) ==
  \/ NextBegin(t) \/ NextRefused(t) \/ NextDelivers(t) \/ NextDrained(t)
  \/ StopIteration(t)
  \/ CloseBegin(t) \/ CloseAgain(t) \/ CloseEnd(t)

Next ==
  \/ Produce
  \/ \E t \in Threads : Use(t)
  \/ \E r \in Releasers : Release(r)
  \/ Drop \/ ExitBegins
  \/ \E h \in GcHosts : Collect(h)
  \/ AtexitRuns
  \/ OtherStreamCloses
  \/ Exited

(* Threads that can run do run, and a join of at most a second ends.  A    *)
(* source is only relied upon to end next_block() after it was closed      *)
(* (REFERENCE.md, StreamSource: "Blocks until one is ready or the stream   *)
(* closes").  Nobody has to call __next__ or close(), to drop the stream,  *)
(* or to exit.                                                             *)
Fairness ==
  /\ WF_vars(CheckStop \/ CheckStopAgain \/ NumberAndPush \/ CloseRing)
  /\ WF_vars(/\ sourceCloses > 0
             /\ NextBlockRaises \/ \E s \in SourceStatus : NextBlock(s))
  /\ \A r \in Releasers : WF_vars(Release(r))
  /\ \A t \in Threads :
       WF_vars(NextDelivers(t) \/ NextDrained(t) \/ StopIteration(t) \/ CloseEnd(t))

Spec == Init /\ [][Next]_vars
FairSpec == Spec /\ Fairness

-----------------------------------------------------------------------------
TypeOK ==
  /\ Ring!TypeOK
  /\ ppc \in {"check", "next_block", "got", "push", "ring_close", "dead"}
  /\ fetched \in SourceStatus \cup {"none"}
  /\ nextSeq \in 0..MaxBlocks
  /\ stop \in BOOLEAN
  /\ released \in BOOLEAN
  /\ sourceCloses \in Nat
  /\ closedFlag \in BOOLEAN
  /\ finalizer \in BOOLEAN
  /\ atexitEntry \in BOOLEAN
  /\ pc \in [Releasers -> {"idle", "pop", "drained", "release", "set_stop",
                           "join", "close_source", "unhook", "done"}]
  /\ gcHost \in {"none"} \cup GcHosts \cup {"app"}
  /\ dropped \in BOOLEAN
  /\ exiting \in BOOLEAN
  /\ popped \in Seq(Block)

(* Every block the producer numbered is delivered, undelivered or counted  *)
(* as discarded, whoever iterates, closes or collects meanwhile: the       *)
(* undelivered ones are the newest, in order and without a hole, and       *)
(* discarded_blocks is exactly the number of gaps a consumer will see.     *)
NothingLost ==
  /\ nextSeq = Len(popped) + discarded + Len(queue)
  /\ \A i \in DOMAIN queue : queue[i].seq = nextSeq - Len(queue) + i - 1

(* The seq the ring would hand out next if nothing was discarded. *)
Expected(i) == IF i = 1 THEN 0 ELSE popped[i - 1].seq + 1

(* Blocks leave the ring in the order of their seq, each at most once, and *)
(* the one-shot mark travels with the right block: a degraded block always *)
(* has a gap right before it, and no block behind a gap claims to be ok.   *)
GapsMarked ==
  \A i \in DOMAIN popped :
    /\ popped[i].seq >= Expected(i)
    /\ popped[i].status = "degraded" => popped[i].seq > Expected(i)
    /\ popped[i].seq > Expected(i) => popped[i].status # "ok"

(* With all the threads, collections and closes around it, the stream is   *)
(* the feed of blocks that its user is promised: in particular nothing is  *)
(* numbered and nobody gets a block any more once any thread was told that *)
(* the stream is over.                                                     *)
Feed == INSTANCE BlockFeed WITH
          numbered  <- nextSeq,
          lost      <- discarded,
          delivered <- popped,
          ended     <- ringClosed /\ queue = <<>>,
          telling   <- {t \in Threads : pc[t] = "drained"},
          Consumers <- Threads
ImplementsFeed == Feed!Spec

(* close(), the finalizer and the atexit entry may all reach release(), in *)
(* any order and from several threads; the source sees one close().        *)
SourceClosedOnce == sourceCloses <= 1

(* The atexit entry may be lost to another stream's close(), but a stream  *)
(* that nobody began to release keeps its finalizer: one that only ended   *)
(* (StopIteration), or whose close() returned early, is still released     *)
(* when it is collected or when the interpreter exits.                     *)
FinalizerKept == ~released => finalizer \/ pc["gc"] = "release"

(* Once release() has begun the source is closed, although the producer    *)
(* may sit in next_block() for as long as the source is open.  The one     *)
(* exception: in the producer thread the collector's release() cannot join *)
(* the thread it runs in, raises, and the source stays open for good.      *)
ReleaseReachesSource ==
  released ~> (sourceCloses = 1 \/ gcHost = "producer")

(* A consumer blocked on an empty ring is let go after close() by another  *)
(* thread, or after the producer ended: it gets a block or StopIteration.  *)
BlockedConsumerFreed ==
  \A t \in Threads :
    (pc[t] = "pop" /\ (released \/ ppc = "dead")) ~> (pc[t] = "idle")

(* No released stream keeps a producer thread. *)
ProducerEnds == released ~> (ppc = "dead" \/ gcHost = "producer")

=============================================================================
