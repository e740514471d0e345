-------------------------- MODULE DiscoveryProofs --------------------------
(***************************************************************************)
(* Proofs about Discovery, for any callers, adapters and workers:          *)
(*   DiscoveryTypes      the type invariant,                               *)
(*   EntriesAreExact     _abandoned holds exactly the calls given up,      *)
(*   CallsDoNotPileUp    a caller has one unresolved call of an adapter,   *)
(*   AnswersInTimeCount  a call over before the deadline counts.           *)
(***************************************************************************)
EXTENDS Discovery, FiniteSetTheorems, WellFoundedInduction, TLAPS

(* f was submitted, at some time. *)
Entered(f) == state[f] # "new" \/ f \in ToSet(queue)

(* The loop of f's round has still to come to f. *)
Waiting(f) ==
  /\ f.round = round[f.caller]
  /\ \/ pc[f.caller] = "submit" /\ f.adapter \in eligible[f.caller] \ rest[f.caller]
     \/ pc[f.caller] \in {"await", "mark", "attach"} /\ f.adapter \in rest[f.caller]

(* A call of run_discovery and the local variables it leaves behind. *)
CallInv ==
  \A c \in Callers :
    /\ pc[c] # "idle" => round[c] > 0
    /\ pc[c] \in {"mark", "attach"} => rest[c] # {}
    /\ pc[c] = "idle" => eligible[c] = {} /\ rest[c] = {}

(* The queue holds each future once, not started; what was submitted in    *)
(* this round the submitting loop has left behind.                         *)
EnteredInv ==
  /\ \A k \in DOMAIN queue : state[queue[k]] = "new"
  /\ \A k, l \in DOMAIN queue : queue[k] = queue[l] => k = l
  /\ \A f \in Future : Entered(f) =>
       /\ f.round <= round[f.caller]
       /\ f.round = round[f.caller] =>
            /\ pc[f.caller] # "select"
            /\ pc[f.caller] = "submit" => f.adapter \notin rest[f.caller]

(* A callback is attached when the loop leaves the future. *)
CallbackInv ==
  \A f \in callbacks :
    /\ f.round <= round[f.caller]
    /\ f.round = round[f.caller] =>
         /\ pc[f.caller] \in {"idle", "await", "mark", "attach"}
         /\ f.adapter \notin rest[f.caller]

(* Unless the pool was shut down, which leaves the futures of a round      *)
(* behind, an unresolved call is waited for or given up; and a caller has  *)
(* not selected an adapter of which it has given up a call.                *)
WaitInv ==
  /\ ~shut => \A f \in Future : Unresolved(f) => GivenUp(f) \/ Waiting(f)
  /\ \A f \in callbacks :
       pc[f.caller] \in {"select", "submit"} => f.adapter \notin eligible[f.caller]

(* f ended in its round, and the loop has not found it otherwise. *)
Kept(f) ==
  /\ f.round = round[f.caller]
  /\ pc[f.caller] \in {"submit", "await", "mark", "attach"}
  /\ \/ state[f] \in {"value", "error"}
     \/ pc[f.caller] \in {"await", "mark", "attach"} /\ f.adapter \notin rest[f.caller]

TimedOut(f) == f.round = round[f.caller] /\ outcome[f.caller][f.adapter] = "timed_out"

(* A future that ended in time stays done until the loop has passed it,    *)
(* and what is marked timed out before the deadline raised TimeoutError    *)
(* itself.                                                                 *)
InTimeInv ==
  /\ \A f \in inTime : Kept(f)
  /\ \A c \in Callers, a \in Adapters :
       outcome[c][a] = "timed_out" => pc[c] \in {"await", "mark", "attach"}
  /\ \A f \in Future : TimedOut(f) /\ ~late[f.caller] => state[f] \in {"timeout_error", "gone"}

(* NoPileUp without the count. *)
OneUnresolved ==
  \A f, g \in Future :
    f.caller = g.caller /\ f.adapter = g.adapter /\ Unresolved(f) /\ Unresolved(g) => f = g

DiscoveryInv == TypeOK /\ CallInv /\ EnteredInv /\ CallbackInv

-----------------------------------------------------------------------------
LEMMA MinIsIn == ASSUME NEW S \in SUBSET Nat, S # {} PROVE Min(S) \in S
<1>1. PICK x \in S : \A y \in Nat : y < x => y \notin S
  <2> DEFINE R == OpToRel(<, Nat)
  <2>1. IsWellFoundedOn(R, Nat)
    BY NatLessThanWellFounded
  <2> HIDE DEF R
  <2>2. PICK x \in S : \A y \in Nat : <<y, x>> \in R => y \notin S
    BY <2>1, WFMin
  <2>3. \A y \in Nat : y < x => <<y, x>> \in R
    BY <2>2 DEF R, OpToRel
  <2> QED
    BY <2>2, <2>3
<1>2. \A y \in S : x =< y
  BY <1>1
<1> QED
  BY <1>2 DEF Min

(* The loop of a caller stands at a future of its own round. *)
LEMMA CurrentIsFuture ==
  ASSUME TypeOK, CallInv, NEW c \in Callers, pc[c] # "idle", rest[c] # {}
  PROVE  /\ Reached(c) \in rest[c]
         /\ Reached(c) \in Adapters
         /\ Current(c) \in Future
         /\ Current(c).caller = c
         /\ Current(c).round = round[c]
         /\ Current(c).adapter = Reached(c)
<1>1. rest[c] \in SUBSET Adapters /\ rest[c] \in SUBSET Nat
  BY NumAdaptersAssumption DEF TypeOK, Adapters
<1>2. Reached(c) \in rest[c]
  BY <1>1, MinIsIn DEF Reached
<1>3. round[c] \in 1..MaxRounds
  BY BoundsAssumption DEF TypeOK, CallInv
<1> QED
  BY <1>1, <1>2, <1>3 DEF Current, Future

LEMMA SameFuture ==
  ASSUME NEW f \in Future, NEW g \in Future,
         f.caller = g.caller, f.round = g.round, f.adapter = g.adapter
  PROVE  f = g
BY DEF Future

LEMMA QueueShrinks ==
  ASSUME TypeOK, queue # <<>>
  PROVE  Head(queue) \in ToSet(queue) /\ ToSet(Tail(queue)) \subseteq ToSet(queue)
<1>1. /\ Head(queue) = queue[1] /\ 1 \in DOMAIN queue
      /\ \A k \in DOMAIN Tail(queue) : k+1 \in DOMAIN queue /\ Tail(queue)[k] = queue[k+1]
  BY DEF TypeOK
<1> QED
  BY <1>1 DEF ToSet

LEMMA DiscoveryInit ==
  Init => DiscoveryInv /\ AbandonedExact /\ WaitInv /\ OneUnresolved /\ InTimeInv /\ InTimeCounts
<1> SUFFICES ASSUME Init
             PROVE  DiscoveryInv /\ AbandonedExact /\ WaitInv /\ OneUnresolved /\ InTimeInv /\ InTimeCounts
  OBVIOUS
<1>1. 0 \in 0..MaxRounds
  BY BoundsAssumption
<1>2. queue \in Seq(Future) /\ DOMAIN queue = {} /\ ToSet(queue) = {}
  BY DEF Init, ToSet
<1>3. TypeOK
  BY <1>1, <1>2 DEF Init, TypeOK, Endings
<1>4. CallInv /\ EnteredInv /\ CallbackInv
  BY <1>2 DEF Init, CallInv, EnteredInv, CallbackInv, Entered
<1>5. \A f \in Future : ~Unresolved(f) /\ ~GivenUp(f)
  BY <1>2 DEF Init, Unresolved, GivenUp, Attaching, Future
<1>6. AbandonedExact /\ WaitInv
  BY <1>5 DEF Init, AbandonedExact, WaitInv
<1>7. OneUnresolved
  BY <1>5 DEF OneUnresolved
<1>8. InTimeInv /\ InTimeCounts
  BY DEF Init, InTimeInv, InTimeCounts, Kept, TimedOut, Future
<1> QED
  BY <1>3, <1>4, <1>6, <1>7, <1>8 DEF DiscoveryInv

-----------------------------------------------------------------------------
LEMMA TypesStep == TypeOK /\ CallInv /\ [Next]_vars => TypeOK' /\ CallInv'
<1> SUFFICES ASSUME TypeOK, CallInv, [Next]_vars PROVE TypeOK' /\ CallInv'
  OBVIOUS
<1> USE DEF pool, callers
<1>1. CASE StartWork
  <2>1. Head(queue) \in Future /\ Tail(queue) \in Seq(Future)
    BY <1>1 DEF StartWork, TypeOK
  <2>2. TypeOK'
    BY <1>1, <2>1 DEF StartWork, TypeOK
  <2>3. CallInv'
    BY <1>1 DEF StartWork, CallInv
  <2> QED
    BY <2>2, <2>3
<1>2. ASSUME NEW f \in Future, OnDone(f) PROVE TypeOK' /\ CallInv'
  BY <1>2 DEF OnDone, TypeOK, CallInv
<1>3. ASSUME NEW f \in Future, NEW ending \in Endings, FinishWork(f, ending)
      PROVE  TypeOK' /\ CallInv'
  <2>1. TypeOK'
    BY <1>3 DEF FinishWork, TypeOK
  <2>2. CallInv'
    BY <1>3 DEF FinishWork, CallInv
  <2> QED
    BY <2>1, <2>2
<1>4. CASE Shutdown
  BY <1>4 DEF Shutdown, TypeOK, CallInv
<1>5. ASSUME NEW c \in Callers, Begin(c) PROVE TypeOK' /\ CallInv'
  <2>1. round[c] + 1 \in 1..MaxRounds
    BY <1>5, BoundsAssumption DEF Begin, TypeOK
  <2>2. TypeOK'
    BY <1>5, <2>1 DEF Begin, Goto, TypeOK
  <2>3. CallInv'
    BY <1>5, <2>1 DEF Begin, Goto, TypeOK, CallInv
  <2> QED
    BY <2>2, <2>3
<1>6. ASSUME NEW c \in Callers, DeadlinePasses(c) PROVE TypeOK' /\ CallInv'
  BY <1>6 DEF DeadlinePasses, TypeOK, CallInv
<1>7. ASSUME NEW c \in Callers, RunDiscovery(c) PROVE TypeOK' /\ CallInv'
  <2> DEFINE At == /\ Reached(c) \in rest[c]
                   /\ Reached(c) \in Adapters
                   /\ Current(c) \in Future
  <2> USE DEF Goto, Advance, Record
  <2>0. pc[c] # "idle" /\ rest[c] # {} => At
    BY CurrentIsFuture
  <2> HIDE DEF At
  <2>1. CASE Skip(c)
    <3>1. At
      BY <2>0, <2>1 DEF Skip
    <3>2. TypeOK'
      BY <2>1, <3>1 DEF Skip, At, TypeOK
    <3> QED
      BY <2>1, <3>2 DEF Skip, TypeOK, CallInv
  <2>2. CASE Select(c)
    <3>1. At
      BY <2>0, <2>2 DEF Select
    <3>2. TypeOK'
      BY <2>2, <3>1 DEF Select, At, TypeOK
    <3> QED
      BY <2>2, <3>2 DEF Select, TypeOK, CallInv
  <2>3. CASE SetDeadline(c)
    BY <2>3 DEF SetDeadline, TypeOK, CallInv
  <2>4. CASE Submit(c)
    <3>1. At
      BY <2>0, <2>4 DEF Submit
    <3>2. TypeOK'
      BY <2>4, <3>1 DEF Submit, At, TypeOK
    <3> QED
      BY <2>4, <3>2 DEF Submit, TypeOK, CallInv
  <2>5. CASE SubmitRaises(c) \/ Return(c)
    <3>1. Leave(c)
      BY <2>5 DEF SubmitRaises, Return
    <3>2. TypeOK'
      BY <3>1 DEF Leave, TypeOK
    <3>3. CallInv'
      BY <3>1 DEF Leave, TypeOK, CallInv
    <3> QED
      BY <3>2, <3>3
  <2>6. CASE Submitted(c)
    BY <2>6 DEF Submitted, TypeOK, CallInv
  <2>7. CASE Collect(c)
    <3>1. At
      BY <2>0, <2>7 DEF Collect, Awaits
    <3>2. TypeOK'
      BY <2>7, <3>1 DEF Collect, Awaits, At, TypeOK
    <3> QED
      BY <2>7, <3>2 DEF Collect, Awaits, TypeOK, CallInv
  <2>8. CASE TimeOut(c)
    <3>1. At
      BY <2>0, <2>8 DEF TimeOut, Awaits
    <3>2. TypeOK'
      BY <2>8, <3>1 DEF TimeOut, Awaits, At, TypeOK
    <3> QED
      BY <2>8, <3>2 DEF TimeOut, Awaits, TypeOK, CallInv
  <2>9. CASE Mark(c)
    <3>1. At
      BY <2>0, <2>9 DEF Mark, CallInv
    <3> QED
      BY <2>9, <3>1 DEF Mark, At, TypeOK, CallInv
  <2>10. CASE Attach(c)
    <3>1. At
      BY <2>0, <2>10 DEF Attach, CallInv
    <3>2. TypeOK'
      BY <2>10, <3>1 DEF Attach, At, TypeOK
    <3> QED
      BY <2>10, <3>2 DEF Attach, TypeOK, CallInv
  <2> QED
    BY <1>7, <2>1, <2>2, <2>3, <2>4, <2>5, <2>6, <2>7, <2>8, <2>9, <2>10 DEF RunDiscovery
<1>8. CASE UNCHANGED vars
  BY <1>8 DEF vars, TypeOK, CallInv
<1> QED
  BY <1>1, <1>2, <1>3, <1>4, <1>5, <1>6, <1>7, <1>8 DEF Next

-----------------------------------------------------------------------------
LEMMA EnteredStep == DiscoveryInv /\ [Next]_vars => EnteredInv'
<1> SUFFICES ASSUME DiscoveryInv, [Next]_vars PROVE EnteredInv'
  OBVIOUS
<1> USE DEF pool, callers
<1>t. /\ TypeOK /\ CallInv /\ EnteredInv /\ CallbackInv
      /\ TypeOK' /\ CallInv'
  BY TypesStep DEF DiscoveryInv
(* A step that enters no future and moves no caller backwards. *)
<1> DEFINE Ahead(c) ==
      /\ round'[c] >= round[c]
      /\ round'[c] = round[c] =>
           /\ pc[c] # "select" => pc'[c] # "select"
           /\ pc'[c] = "submit" => pc[c] = "select" \/ (pc[c] = "submit" /\ rest'[c] = rest[c])
<1>q. ASSUME UNCHANGED queue, \A f \in Future : state[f] = "new" <=> state'[f] = "new",
             \A c \in Callers : Ahead(c)
      PROVE  EnteredInv'
  <2>1. \A f \in Future : Entered(f)' <=> Entered(f)
    BY <1>q DEF Entered
  <2> SUFFICES ASSUME NEW f \in Future, Entered(f)
               PROVE  /\ f.round <= round'[f.caller]
                      /\ f.round = round'[f.caller] =>
                           /\ pc'[f.caller] # "select"
                           /\ pc'[f.caller] = "submit" => f.adapter \notin rest'[f.caller]
    BY <1>q, <1>t, <2>1 DEF EnteredInv, TypeOK
  <2> QED
    BY <1>q, <1>t DEF EnteredInv, TypeOK, Future
<1>1. CASE StartWork
  <2> DEFINE h == Head(queue)
  <2>1. /\ h = queue[1] /\ h \in Future /\ 1 \in DOMAIN queue
        /\ \A k \in DOMAIN Tail(queue) : k+1 \in DOMAIN queue /\ Tail(queue)[k] = queue[k+1]
                                         /\ k \in Nat /\ k+1 # 1
    BY <1>1, <1>t DEF StartWork, TypeOK
  <2>2. \A k \in DOMAIN queue' : queue'[k] # h
    BY <1>1, <1>t, <2>1 DEF StartWork, EnteredInv
  <2>3. \A k \in DOMAIN queue' : state'[queue'[k]] = "new"
    BY <1>1, <1>t, <2>1, <2>2 DEF StartWork, EnteredInv, TypeOK
  <2>4. \A k, l \in DOMAIN queue' : queue'[k] = queue'[l] => k = l
    BY <1>1, <1>t, <2>1 DEF StartWork, EnteredInv
  <2>5. \A f \in Future : Entered(f)' => Entered(f)
    BY <1>1, <1>t, <2>1 DEF StartWork, Entered, ToSet, TypeOK
  <2> QED
    BY <1>1, <1>t, <2>3, <2>4, <2>5 DEF StartWork, EnteredInv
<1>2. ASSUME NEW f \in Future, OnDone(f) PROVE EnteredInv'
  BY <1>2, <1>t, <1>q DEF OnDone, Done, Endings, TypeOK
<1>3. ASSUME NEW f \in Future, NEW ending \in Endings, FinishWork(f, ending) PROVE EnteredInv'
  BY <1>3, <1>t, <1>q DEF FinishWork, Endings, TypeOK
<1>4. CASE Shutdown
  BY <1>4, <1>t, <1>q DEF Shutdown, TypeOK
<1>5. ASSUME NEW c \in Callers, Begin(c) PROVE EnteredInv'
  BY <1>5, <1>t, <1>q DEF Begin, Goto, TypeOK
<1>6. ASSUME NEW c \in Callers, DeadlinePasses(c) PROVE EnteredInv'
  BY <1>6, <1>t, <1>q DEF DeadlinePasses, TypeOK
<1>7. ASSUME NEW c \in Callers, RunDiscovery(c) PROVE EnteredInv'
  <2> USE DEF Goto, Advance, Record
  <2>1. CASE Skip(c)
    BY <2>1, <1>t, <1>q DEF Skip, TypeOK
  <2>2. CASE Select(c)
    BY <2>2, <1>t, <1>q DEF Select, TypeOK
  <2>3. CASE SetDeadline(c)
    <3>1. /\ UNCHANGED <<queue, state, round>> /\ pc[c] = "select" /\ pc'[c] = "submit"
          /\ \A d \in Callers : d # c => pc'[d] = pc[d] /\ rest'[d] = rest[d]
      BY <2>3, <1>t DEF SetDeadline, TypeOK
    <3>2. \A d \in Callers : round'[d] = round[d] /\ round[d] >= round[d]
      BY <3>1, <1>t DEF TypeOK
    <3>3. \A d \in Callers : Ahead(d)
      BY <3>1, <3>2
    <3> QED
      BY <3>1, <3>3, <1>q
  <2>4. CASE Submit(c)
    <3> DEFINE g == Current(c)
    <3>1. /\ g \in Future /\ g.caller = c /\ g.round = round[c] /\ g.adapter = Reached(c)
          /\ Reached(c) \in rest[c]
      BY <1>t, <2>4, CurrentIsFuture DEF Submit
    <3> HIDE DEF g
    <3>2. ~Entered(g)
      BY <1>t, <2>4, <3>1 DEF Submit, EnteredInv
    <3>3. /\ queue' = Append(queue, g)
          /\ DOMAIN queue' = 1..(Len(queue) + 1) /\ DOMAIN queue = 1..Len(queue)
          /\ queue'[Len(queue) + 1] = g
          /\ \A k \in DOMAIN queue : queue'[k] = queue[k]
      BY <1>t, <2>4, <3>1 DEF Submit, TypeOK, g
    <3>4. \A k \in DOMAIN queue' : k \in DOMAIN queue \/ k = Len(queue) + 1
      BY <1>t, <3>3 DEF TypeOK
    <3>5. \A k \in DOMAIN queue' : state'[queue'[k]] = "new"
      BY <1>t, <2>4, <3>2, <3>3, <3>4 DEF Submit, EnteredInv, Entered
    <3>6. \A k \in DOMAIN queue : queue[k] # g
      BY <3>2 DEF Entered, ToSet
    <3>7. \A k, l \in DOMAIN queue' : queue'[k] = queue'[l] => k = l
      BY <1>t, <3>3, <3>4, <3>6 DEF EnteredInv
    <3>8. \A f \in Future : Entered(f)' => Entered(f) \/ f = g
      BY <2>4, <3>3, <3>4 DEF Submit, Entered, ToSet
    <3>9. rest'[c] = rest[c] \ {Reached(c)} /\ \A d \in Callers : d # c => rest'[d] = rest[d]
      BY <1>t, <2>4 DEF Submit, TypeOK
    <3>10. \A f \in Future : Entered(f)' =>
             /\ f.round <= round[f.caller]
             /\ f.round = round[f.caller] =>
                  /\ pc[f.caller] # "select"
                  /\ pc[f.caller] = "submit" => f.adapter \notin rest'[f.caller]
      <4> SUFFICES ASSUME NEW f \in Future, Entered(f)'
                   PROVE  /\ f.round <= round[f.caller]
                          /\ f.round = round[f.caller] =>
                               /\ pc[f.caller] # "select"
                               /\ pc[f.caller] = "submit" => f.adapter \notin rest'[f.caller]
        OBVIOUS
      <4>1. CASE f = g
        BY <1>t, <2>4, <3>1, <3>9, <4>1 DEF Submit, TypeOK
      <4>2. CASE Entered(f)
        BY <1>t, <3>9, <4>2 DEF EnteredInv, TypeOK, Future
      <4> QED
        BY <3>8, <4>1, <4>2
    <3> QED
      BY <2>4, <3>5, <3>7, <3>10 DEF Submit, EnteredInv
  <2>5. CASE SubmitRaises(c) \/ Return(c)
    BY <2>5, <1>t, <1>q DEF SubmitRaises, Return, Leave, TypeOK
  <2>6. CASE Submitted(c)
    BY <2>6, <1>t, <1>q DEF Submitted, TypeOK
  <2>7. CASE Collect(c)
    <3>1. \A f \in Future : state[f] = "new" <=> state'[f] = "new"
      BY <2>7, <1>t DEF Collect, TypeOK
    <3> QED
      BY <2>7, <3>1, <1>t, <1>q DEF Collect, Awaits, TypeOK
  <2>8. CASE TimeOut(c)
    BY <2>8, <1>t, <1>q DEF TimeOut, Awaits, TypeOK
  <2>9. CASE Mark(c)
    BY <2>9, <1>t, <1>q DEF Mark, TypeOK
  <2>10. CASE Attach(c)
    <3>1. \A f \in Future : state[f] = "new" <=> state'[f] = "new"
      BY <2>10, <1>t DEF Attach, Done, Endings, TypeOK
    <3>2. UNCHANGED queue /\ \A d \in Callers : Ahead(d)
      BY <2>10, <1>t DEF Attach, TypeOK
    <3> QED
      BY <3>1, <3>2, <1>q
  <2> QED
    BY <1>7, <2>1, <2>2, <2>3, <2>4, <2>5, <2>6, <2>7, <2>8, <2>9, <2>10 DEF RunDiscovery
<1>8. CASE UNCHANGED vars
  BY <1>8, <1>t, <1>q DEF vars, TypeOK
<1> QED
  BY <1>1, <1>2, <1>3, <1>4, <1>5, <1>6, <1>7, <1>8 DEF Next

-----------------------------------------------------------------------------
LEMMA CallbackStep == DiscoveryInv /\ AbandonedExact /\ [Next]_vars => CallbackInv' /\ AbandonedExact'
<1> SUFFICES ASSUME DiscoveryInv, AbandonedExact, [Next]_vars
             PROVE  CallbackInv' /\ AbandonedExact'
  OBVIOUS
<1> USE DEF pool, callers
<1>t. /\ TypeOK /\ CallInv /\ EnteredInv /\ CallbackInv
      /\ TypeOK' /\ CallInv'
  BY TypesStep DEF DiscoveryInv
(* A step that neither gives up a call nor ends one that was given up. *)
<1> DEFINE Ahead(c) ==
      /\ round'[c] >= round[c]
      /\ round'[c] = round[c] /\ pc[c] \in {"idle", "await", "mark", "attach"} =>
           pc'[c] \in {"idle", "await", "mark", "attach"} /\ rest'[c] \subseteq rest[c]
    Still(c) ==
      /\ pc[c] = "attach" <=> pc'[c] = "attach"
      /\ pc[c] = "attach" => round'[c] = round[c] /\ rest'[c] = rest[c]
<1>q. ASSUME UNCHANGED <<callbacks, abandoned>>, \A c \in Callers : Ahead(c) /\ Still(c)
      PROVE  CallbackInv' /\ AbandonedExact'
  <2>1. CallbackInv'
    <3> SUFFICES ASSUME NEW f \in callbacks
                 PROVE  /\ f.round <= round'[f.caller]
                        /\ f.round = round'[f.caller] =>
                             /\ pc'[f.caller] \in {"idle", "await", "mark", "attach"}
                             /\ f.adapter \notin rest'[f.caller]
      BY <1>q DEF CallbackInv
    <3>1. f \in Future /\ f.caller \in Callers /\ f.round \in Nat
      BY <1>t DEF TypeOK, Future
    <3> QED
      BY <1>q, <1>t, <3>1 DEF CallbackInv, TypeOK
  <2>2. \A f \in Future : GivenUp(f)' <=> GivenUp(f)
    <3> SUFFICES ASSUME NEW f \in Future PROVE Attaching(f)' <=> Attaching(f)
      BY <1>q DEF GivenUp
    <3>1. f.caller \in Callers
      BY DEF Future
    <3> QED
      BY <1>q, <3>1 DEF Attaching, Current, Reached
  <2> QED
    BY <1>q, <2>1, <2>2 DEF AbandonedExact
<1>a. ASSUME NEW f \in callbacks PROVE ~Attaching(f)
  <2>1. f \in Future /\ f.caller \in Callers
    BY <1>t DEF TypeOK, Future
  <2> SUFFICES ASSUME pc[f.caller] = "attach", Current(f.caller) = f PROVE FALSE
    BY DEF Attaching
  <2>2. f.round = round[f.caller] /\ f.adapter \in rest[f.caller]
    BY <1>t, <2>1, CurrentIsFuture DEF CallInv
  <2> QED
    BY <1>t, <2>2 DEF CallbackInv
<1>1. CASE StartWork
  BY <1>1, <1>t, <1>q DEF StartWork, TypeOK
<1>2. ASSUME NEW f \in Future, OnDone(f) PROVE CallbackInv' /\ AbandonedExact'
  <2>1. CallbackInv'
    BY <1>2, <1>t DEF OnDone, CallbackInv
  <2>2. f \in callbacks /\ ~Attaching(f)
    BY <1>2, <1>a DEF OnDone
  <2>3. \A g \in Future : Attaching(g)' <=> Attaching(g)
    BY <1>2 DEF OnDone, Attaching, Current, Reached
  <2>4. AbandonedExact'
    BY <1>2, <2>2, <2>3 DEF OnDone, AbandonedExact, GivenUp
  <2> QED
    BY <2>1, <2>4
<1>3. ASSUME NEW f \in Future, NEW ending \in Endings, FinishWork(f, ending)
      PROVE  CallbackInv' /\ AbandonedExact'
  BY <1>3, <1>t, <1>q DEF FinishWork, TypeOK
<1>4. CASE Shutdown
  BY <1>4, <1>t, <1>q DEF Shutdown, TypeOK
<1>5. ASSUME NEW c \in Callers, Begin(c) PROVE CallbackInv' /\ AbandonedExact'
  BY <1>5, <1>t, <1>q DEF Begin, Goto, TypeOK
<1>6. ASSUME NEW c \in Callers, DeadlinePasses(c) PROVE CallbackInv' /\ AbandonedExact'
  BY <1>6, <1>t, <1>q DEF DeadlinePasses, TypeOK
<1>7. ASSUME NEW c \in Callers, RunDiscovery(c) PROVE CallbackInv' /\ AbandonedExact'
  <2> USE DEF Goto, Advance, Record
  <2> DEFINE g == Current(c)
  <2>g. pc[c] # "idle" /\ rest[c] # {} =>
          /\ g \in Future /\ g.caller = c /\ g.round = round[c] /\ g.adapter = Reached(c)
          /\ Reached(c) \in rest[c]
    BY <1>t, CurrentIsFuture
  <2> HIDE DEF g
  <2>1. CASE Skip(c)
    BY <2>1, <1>t, <1>q DEF Skip, TypeOK
  <2>2. CASE Select(c)
    BY <2>2, <1>t, <1>q DEF Select, TypeOK
  <2>3. CASE SetDeadline(c)
    BY <2>3, <1>t, <1>q DEF SetDeadline, TypeOK
  <2>4. CASE Submit(c)
    BY <2>4, <1>t, <1>q DEF Submit, TypeOK
  <2>5. CASE SubmitRaises(c) \/ Return(c)
    BY <2>5, <1>t, <1>q DEF SubmitRaises, Return, Leave, TypeOK
  <2>6. CASE Submitted(c)
    BY <2>6, <1>t, <1>q DEF Submitted, TypeOK
  <2>7. CASE Collect(c)
    BY <2>7, <1>t, <1>q DEF Collect, Awaits, TypeOK
  <2>8. CASE TimeOut(c)
    BY <2>8, <1>t, <1>q DEF TimeOut, Awaits, TypeOK
  <2>9. CASE Mark(c)
    <3>1. g \in Future /\ g.caller = c
      BY <2>9, <2>g, <1>t DEF Mark, CallInv
    <3>2. pc'[c] = "attach" /\ \A d \in Callers : d # c => pc'[d] = pc[d]
      BY <2>9, <1>t DEF Mark, TypeOK
    <3>3. CallbackInv'
      BY <2>9, <1>t, <3>2 DEF Mark, CallbackInv, TypeOK
    <3>4. \A f \in Future : Attaching(f)' <=> Attaching(f) \/ f = g
      <4> SUFFICES ASSUME NEW f \in Future PROVE Attaching(f)' <=> Attaching(f) \/ f = g
        OBVIOUS
      <4>1. f.caller \in Callers /\ Current(f.caller)' = Current(f.caller)
        BY <2>9 DEF Mark, Future, Current, Reached
      <4>2. CASE f.caller = c
        BY <2>9, <3>1, <3>2, <4>1, <4>2 DEF Mark, Attaching, g
      <4>3. CASE f.caller # c
        BY <3>1, <3>2, <4>1, <4>3 DEF Attaching
      <4> QED
        BY <4>2, <4>3
    <3>5. AbandonedExact'
      BY <2>9, <3>1, <3>4 DEF Mark, AbandonedExact, GivenUp, g
    <3> QED
      BY <3>3, <3>5
  <2>10. CASE Attach(c)
    <3>1. /\ g \in Future /\ g.caller = c /\ g.round = round[c] /\ g.adapter = Reached(c)
          /\ Reached(c) \in rest[c]
      BY <2>10, <2>g, <1>t DEF Attach, CallInv
    <3>2. /\ pc'[c] = "await" /\ rest'[c] = rest[c] \ {Reached(c)}
          /\ \A d \in Callers : d # c => pc'[d] = pc[d] /\ rest'[d] = rest[d]
      BY <2>10, <1>t DEF Attach, TypeOK
    <3>3. callbacks' \subseteq callbacks \cup {g}
      BY <2>10 DEF Attach, g
    <3>4. CallbackInv'
      <4> SUFFICES ASSUME NEW f \in callbacks'
                   PROVE  /\ f.round <= round[f.caller]
                          /\ f.round = round[f.caller] =>
                               /\ pc'[f.caller] \in {"idle", "await", "mark", "attach"}
                               /\ f.adapter \notin rest'[f.caller]
        BY <2>10 DEF Attach, CallbackInv
      <4>1. CASE f = g
        BY <1>t, <3>1, <3>2, <4>1 DEF TypeOK
      <4>2. CASE f \in callbacks
        <5>1. f.caller \in Callers
          BY <1>t, <4>2 DEF TypeOK, Future
        <5> QED
          BY <1>t, <3>2, <4>2, <5>1 DEF CallbackInv
      <4> QED
        BY <3>3, <4>1, <4>2
    <3>5. \A f \in Future : Attaching(f)' <=> Attaching(f) /\ f # g
      <4> SUFFICES ASSUME NEW f \in Future PROVE Attaching(f)' <=> Attaching(f) /\ f # g
        OBVIOUS
      <4>1. f.caller \in Callers
        BY DEF Future
      <4>2. CASE f.caller = c
        BY <3>2, <4>2 DEF Attaching, g
      <4>3. CASE f.caller # c
        BY <2>10, <3>1, <3>2, <4>1, <4>3 DEF Attach, Attaching, Current, Reached
      <4> QED
        BY <4>2, <4>3
    <3>6. g \notin callbacks /\ GivenUp(g)
      BY <2>10, <1>a, <3>1 DEF Attach, Attaching, GivenUp, g
    <3>7. CASE Done(g)
      <4>1. abandoned' = abandoned \ {g} /\ callbacks' = callbacks
        BY <2>10, <3>7 DEF Attach, g
      <4>2. AbandonedExact'
        BY <3>5, <3>6, <4>1 DEF AbandonedExact, GivenUp
      <4> QED
        BY <3>4, <4>2
    <3>8. CASE ~Done(g)
      <4>1. abandoned' = abandoned /\ callbacks' = callbacks \cup {g}
        BY <2>10, <3>8 DEF Attach, g
      <4>2. AbandonedExact'
        BY <3>5, <3>6, <4>1 DEF AbandonedExact, GivenUp
      <4> QED
        BY <3>4, <4>2
    <3> QED
      BY <3>7, <3>8
  <2> QED
    BY <1>7, <2>1, <2>2, <2>3, <2>4, <2>5, <2>6, <2>7, <2>8, <2>9, <2>10 DEF RunDiscovery
<1>8. CASE UNCHANGED vars
  BY <1>8, <1>t, <1>q DEF vars, TypeOK
<1> QED
  BY <1>1, <1>2, <1>3, <1>4, <1>5, <1>6, <1>7, <1>8 DEF Next

-----------------------------------------------------------------------------
LEMMA WaitStep ==
  DiscoveryInv /\ AbandonedExact /\ WaitInv /\ [Next]_vars => WaitInv'
<1> SUFFICES ASSUME DiscoveryInv, AbandonedExact, WaitInv, [Next]_vars
             PROVE  WaitInv'
  OBVIOUS
<1> USE DEF pool, callers
<1>t. /\ TypeOK /\ CallInv /\ EnteredInv /\ CallbackInv
      /\ TypeOK' /\ CallInv'
  BY TypesStep DEF DiscoveryInv
<1>u. \A f \in callbacks : f \in Future /\ f.caller \in Callers
  BY <1>t DEF TypeOK, Future
(* A step that enters no future and gives up none, and passes none that is *)
(* unresolved.                                                             *)
<1> DEFINE Chosen(c) ==
      pc'[c] \in {"select", "submit"} =>
        eligible'[c] = {} \/ (pc[c] \in {"select", "submit"} /\ eligible'[c] = eligible[c])
<1>q. ASSUME callbacks' \subseteq callbacks, \A c \in Callers : Chosen(c),
             shut => shut',
             \A f \in Future : ~shut /\ Unresolved(f)' => Unresolved(f) /\ (GivenUp(f) => GivenUp(f)'),
             \A f \in Future : ~shut' /\ Unresolved(f)' /\ Waiting(f) => Waiting(f)'
      PROVE  WaitInv'
  <2>1. \A f \in callbacks' :
          pc'[f.caller] \in {"select", "submit"} => f.adapter \notin eligible'[f.caller]
    BY <1>q, <1>u DEF WaitInv
  <2>2. ~shut' => \A f \in Future : Unresolved(f)' => GivenUp(f)' \/ Waiting(f)'
    BY <1>q DEF WaitInv
  <2> QED
    BY <2>1, <2>2 DEF WaitInv
<1> DEFINE Still(c) == round'[c] = round[c] /\ pc'[c] = pc[c] /\ rest'[c] = rest[c]
                       /\ eligible'[c] = eligible[c]
(* The same, and no caller moves that has a call entered. *)
<1>r. ASSUME callbacks' = callbacks, \A c \in Callers : Chosen(c), shut => shut',
             \A f \in Future : Unresolved(f)' => Unresolved(f),
             \A f \in Future : Unresolved(f)' /\ Attaching(f) => Attaching(f)',
             \A f \in Future : Unresolved(f)' /\ Waiting(f) => Waiting(f)'
      PROVE  WaitInv'
  BY <1>q, <1>r DEF GivenUp
<1>s. ASSUME UNCHANGED callbacks, shut => shut', UNCHANGED callers,
             \A f \in Future : Unresolved(f)' => Unresolved(f)
      PROVE  WaitInv'
  <2>1. \A f \in Future : (Attaching(f)' <=> Attaching(f)) /\ (Waiting(f)' <=> Waiting(f))
    BY <1>s DEF Attaching, Waiting, Current, Reached
  <2> QED
    BY <1>s, <1>r, <2>1
<1>1. CASE StartWork
  <2>1. /\ Head(queue) \in ToSet(queue) /\ ToSet(queue') \subseteq ToSet(queue)
    BY <1>1, <1>t, QueueShrinks DEF StartWork
  <2>2. \A f \in Future : Unresolved(f)' => Unresolved(f)
    BY <1>1, <1>t, <2>1 DEF StartWork, Unresolved, TypeOK
  <2> QED
    BY <1>1, <1>s, <2>2 DEF StartWork
<1>2. ASSUME NEW f \in Future, OnDone(f) PROVE WaitInv'
  <2>1. \A g \in Future : Unresolved(g)' => Unresolved(g)
    BY <1>2, <1>t DEF OnDone, Unresolved, TypeOK
  <2>2. \A g \in Future : (Attaching(g)' <=> Attaching(g)) /\ (Waiting(g)' <=> Waiting(g))
    BY <1>2 DEF OnDone, Attaching, Waiting, Current, Reached
  <2>3. ~Unresolved(f)'
    BY <1>2, <1>t DEF OnDone, Unresolved, Done, Endings, EnteredInv, ToSet, TypeOK
  <2> QED
    BY <1>2, <1>q, <2>1, <2>2, <2>3 DEF OnDone, GivenUp
<1>3. ASSUME NEW f \in Future, NEW ending \in Endings, FinishWork(f, ending)
      PROVE  WaitInv'
  <2>1. \A g \in Future : Unresolved(g)' => Unresolved(g)
    BY <1>3, <1>t DEF FinishWork, Unresolved, TypeOK, Endings
  <2> QED
    BY <1>3, <1>s, <2>1 DEF FinishWork
<1>4. CASE Shutdown
  <2>1. \A g \in Future : Unresolved(g)' => Unresolved(g)
    BY <1>4 DEF Shutdown, Unresolved
  <2> QED
    BY <1>4, <1>s, <2>1 DEF Shutdown
<1>5. ASSUME NEW c \in Callers, Begin(c) PROVE WaitInv'
  <2>1. \A f \in Future : Unresolved(f)' <=> Unresolved(f)
    BY <1>5 DEF Begin, Unresolved
  <2>2. /\ pc[c] = "idle" /\ eligible'[c] = {}
        /\ \A d \in Callers : d # c => Still(d)
    BY <1>5, <1>t DEF Begin, Goto, CallInv, TypeOK
  <2>3. \A f \in Future : Attaching(f) => Attaching(f)'
    BY <1>5, <2>2 DEF Begin, Attaching, Current, Reached, Future
  <2>4. \A f \in Future : Waiting(f) => Waiting(f)'
    BY <2>2 DEF Waiting, Future
  <2>5. \A d \in Callers : Chosen(d)
    BY <2>2
  <2> QED
    BY <1>5, <1>r, <2>1, <2>3, <2>4, <2>5 DEF Begin
<1>6. ASSUME NEW c \in Callers, DeadlinePasses(c) PROVE WaitInv'
  <2>1. \A f \in Future : /\ Unresolved(f)' <=> Unresolved(f)
                          /\ Attaching(f)' <=> Attaching(f)
                          /\ Waiting(f)' <=> Waiting(f)
    BY <1>6 DEF DeadlinePasses, Unresolved, Attaching, Current, Reached, Waiting
  <2>2. \A d \in Callers : Chosen(d)
    BY <1>6 DEF DeadlinePasses
  <2> QED
    BY <1>6, <1>r, <2>1, <2>2 DEF DeadlinePasses
<1>8. CASE UNCHANGED vars
  <2>1. \A g \in Future : Unresolved(g)' => Unresolved(g)
    BY <1>8 DEF vars, Unresolved
  <2> QED
    BY <1>8, <1>s, <2>1 DEF vars
<1>7. ASSUME NEW c \in Callers, RunDiscovery(c) PROVE WaitInv'
  <2> USE DEF Goto, Advance, Record
  <2>z. PICK g : g = Current(c)
    OBVIOUS
  <2>g. pc[c] # "idle" /\ rest[c] # {} =>
          /\ g \in Future /\ g.caller = c /\ g.round = round[c] /\ g.adapter = Reached(c)
          /\ Reached(c) \in rest[c]
    BY <1>t, <2>z, CurrentIsFuture
  <2>f. \A d \in Callers : d # c => Still(d)
    BY <1>7, <1>t DEF RunDiscovery, Skip, Select, SetDeadline, Submit, SubmitRaises, Submitted,
         Collect, TimeOut, Mark, Attach, Return, Leave, TypeOK
  <2>o. \A f \in Future : f.caller # c => /\ Attaching(f)' <=> Attaching(f)
                                          /\ Waiting(f)' <=> Waiting(f)
    BY <2>f DEF Attaching, Waiting, Current, Reached, Future
  <2>a. \A f \in Future : f.caller = c /\ Attaching(f) => pc[c] = "attach" /\ f = g
    BY <2>z DEF Attaching
  <2>b. \A f \in Future : f.caller = c /\ Waiting(f) =>
          /\ f.round = round[c]
          /\ \/ pc[c] = "submit" /\ f.adapter \in eligible[c] \ rest[c]
             \/ pc[c] \in {"await", "mark", "attach"} /\ f.adapter \in rest[c]
    BY DEF Waiting
  <2>c. \A f \in Future : f.caller = c =>
         (Waiting(f)' <=>
          /\ f.round = round'[c]
          /\ \/ pc'[c] = "submit" /\ f.adapter \in eligible'[c] \ rest'[c]
             \/ pc'[c] \in {"await", "mark", "attach"} /\ f.adapter \in rest'[c])
    BY DEF Waiting
  (* The step leaves the futures as they are. *)
  <2>s. ASSUME UNCHANGED <<callbacks, shut>>, Chosen(c), pc[c] # "attach",
               UNCHANGED <<queue, state>>,
               \A f \in Future : f.caller = c /\ Waiting(f) => shut \/ Waiting(f)'
        PROVE  WaitInv'
    <3>1. \A d \in Callers : Chosen(d)
      BY <2>s, <2>f
    <3>2. \A f \in Future : Unresolved(f)' <=> Unresolved(f)
      BY <2>s DEF Unresolved
    <3>3. \A f \in Future : GivenUp(f) => GivenUp(f)'
      BY <2>s, <2>o, <2>a DEF GivenUp
    <3> QED
      BY <2>s, <2>o, <3>1, <3>2, <3>3, <1>q
  <2>1. CASE Skip(c)
    BY <2>1, <2>b, <2>s DEF Skip
  <2>2. CASE Select(c)
    <3>1. \A f \in Future : Unresolved(f)' <=> Unresolved(f)
      BY <2>2 DEF Select, Unresolved
    <3>2. \A f \in Future : (GivenUp(f) => GivenUp(f)') /\ (Waiting(f) => Waiting(f)')
      BY <2>2, <2>o, <2>a, <2>b DEF Select, GivenUp
    <3>3. ~shut' => \A f \in Future : Unresolved(f)' => GivenUp(f)' \/ Waiting(f)'
      BY <2>2, <3>1, <3>2 DEF Select, WaitInv
    <3>4. \A f \in callbacks : f.adapter # Reached(c)
      BY <2>2, <1>u DEF Select, IsAbandoned, AbandonedExact, GivenUp
    <3>5. eligible'[c] = eligible[c] \cup {Reached(c)}
      BY <2>2, <1>t DEF Select, TypeOK
    <3>6. \A f \in callbacks :
            pc'[f.caller] \in {"select", "submit"} => f.adapter \notin eligible'[f.caller]
      <4> SUFFICES ASSUME NEW f \in callbacks, pc'[f.caller] \in {"select", "submit"}
                   PROVE  f.adapter \notin eligible'[f.caller]
        OBVIOUS
      <4>1. f.adapter \notin eligible[f.caller]
        BY <2>2, <2>f, <1>u DEF Select, WaitInv
      <4>2. CASE f.caller = c
        BY <3>4, <3>5, <4>1, <4>2
      <4>3. CASE f.caller # c
        BY <2>f, <1>u, <4>1, <4>3
      <4> QED
        BY <4>2, <4>3
    <3> QED
      BY <2>2, <3>3, <3>6 DEF Select, WaitInv
  <2>3. CASE SetDeadline(c)
    <3>1. Chosen(c)
      BY <2>3 DEF SetDeadline
    <3> QED
      BY <2>3, <2>b, <2>s, <3>1 DEF SetDeadline
  <2>4. CASE Submit(c)
    <3>1. /\ g \in Future /\ g.caller = c /\ g.round = round[c] /\ g.adapter = Reached(c)
          /\ Reached(c) \in rest[c] /\ Reached(c) \in eligible[c]
      BY <2>4, <2>g, <1>t DEF Submit, TypeOK
    <3>2. rest'[c] = rest[c] \ {Reached(c)} /\ pc'[c] = "submit" /\ pc[c] = "submit"
      BY <2>4, <1>t DEF Submit, TypeOK
    <3>3. \A f \in Future : Unresolved(f)' => Unresolved(f) \/ f = g
      <4>1. queue' = Append(queue, g) /\ g \in Future
        BY <2>z, <2>4, <3>1 DEF Submit
      <4>2. \A k \in DOMAIN queue' : (k \in DOMAIN queue /\ queue'[k] = queue[k]) \/ queue'[k] = g
        BY <4>1, <1>t DEF TypeOK
      <4> QED
        BY <2>4, <4>2 DEF Submit, Unresolved, ToSet
    <3>4. \A f \in Future : (GivenUp(f) => GivenUp(f)') /\ (Waiting(f) => Waiting(f)')
      BY <2>4, <2>o, <2>a, <2>b, <2>c, <3>2 DEF Submit, GivenUp
    <3>5. Waiting(g)'
      <4>1. round'[c] = round[c] /\ eligible'[c] = eligible[c]
        BY <2>4 DEF Submit
      <4> QED
        BY <2>c, <3>1, <3>2, <4>1
    <3>6. ~shut' => \A f \in Future : Unresolved(f)' => GivenUp(f)' \/ Waiting(f)'
      BY <2>4, <3>3, <3>4, <3>5 DEF Submit, WaitInv
    <3>7. \A f \in callbacks :
            pc'[f.caller] \in {"select", "submit"} => f.adapter \notin eligible'[f.caller]
      BY <2>4 DEF Submit, WaitInv
    <3> QED
      BY <2>4, <3>6, <3>7 DEF Submit, WaitInv
  <2>5. CASE SubmitRaises(c) \/ Return(c)
    <3>1. Chosen(c) /\ pc[c] # "attach" /\ UNCHANGED <<queue, state, callbacks, shut>>
      BY <2>5, <1>t DEF SubmitRaises, Return, Leave, TypeOK
    <3>2. \A f \in Future : f.caller = c /\ Waiting(f) => shut
      BY <2>5, <2>b DEF SubmitRaises, Return
    <3> QED
      BY <2>s, <3>1, <3>2
  <2>6. CASE Submitted(c)
    <3>1. rest'[c] = eligible[c] /\ pc'[c] = "await"
      BY <2>6, <1>t DEF Submitted, TypeOK
    <3> QED
      BY <2>6, <2>b, <2>c, <2>s, <3>1 DEF Submitted
  <2>7. CASE Collect(c)
    <3>1. /\ g \in Future /\ g.caller = c /\ g.round = round[c] /\ g.adapter = Reached(c)
          /\ Reached(c) \in rest[c]
      BY <2>7, <2>g, <1>t DEF Collect, Awaits
    <3>2. rest'[c] = rest[c] \ {Reached(c)} /\ pc'[c] = "await" /\ pc[c] = "await"
      BY <2>7, <1>t DEF Collect, Awaits, TypeOK
    <3>3. \A f \in Future : Unresolved(f)' => Unresolved(f)
      BY <2>7, <1>t DEF Collect, Unresolved, TypeOK
    <3>4. ~Unresolved(g)'
      <4>1. state[g] # "new" /\ state'[g] = "gone" /\ queue' = queue
        BY <2>z, <2>7, <1>t, <3>1 DEF Collect, TypeOK
      <4> QED
        BY <1>t, <4>1 DEF Unresolved, EnteredInv, ToSet
    <3>5. \A f \in Future : Attaching(f) => Attaching(f)'
      BY <2>o, <2>a, <3>2
    <3>6. \A f \in Future : f # g /\ Waiting(f) => Waiting(f)'
      BY <2>7, <2>o, <2>b, <2>c, <3>1, <3>2, SameFuture DEF Collect
    <3>7. \A d \in Callers : Chosen(d)
      BY <2>f, <3>2
    <3> QED
      BY <2>7, <1>r, <3>3, <3>4, <3>5, <3>6, <3>7 DEF Collect
  <2>8. CASE TimeOut(c)
    <3>1. rest'[c] = rest[c] /\ pc'[c] = "mark" /\ pc[c] = "await"
      BY <2>8, <1>t DEF TimeOut, Awaits, TypeOK
    <3> QED
      BY <2>8, <2>b, <2>c, <2>s, <3>1 DEF TimeOut
  <2>9. CASE Mark(c)
    <3>1. rest'[c] = rest[c] /\ pc'[c] = "attach" /\ pc[c] = "mark"
      BY <2>9, <1>t DEF Mark, TypeOK
    <3> QED
      BY <2>9, <2>b, <2>c, <2>s, <3>1 DEF Mark
  <2>10. CASE Attach(c)
    <3>1. /\ g \in Future /\ g.caller = c /\ g.round = round[c] /\ g.adapter = Reached(c)
          /\ Reached(c) \in rest[c]
      BY <2>10, <2>g, <1>t DEF Attach, CallInv
    <3>2. rest'[c] = rest[c] \ {Reached(c)} /\ pc'[c] = "await" /\ pc[c] = "attach"
      BY <2>10, <1>t DEF Attach, TypeOK
    <3>3. \A f \in Future : Unresolved(f)' => Unresolved(f)
      BY <2>10, <1>t DEF Attach, Unresolved, TypeOK
    <3>4. Unresolved(g)' => g \in callbacks'
      <4>1. CASE Done(g)
        <5>1. state[g] # "new" /\ state'[g] = "gone" /\ queue' = queue
          BY <2>z, <2>10, <1>t, <3>1, <4>1 DEF Attach, TypeOK, Done, Endings
        <5> QED
          BY <1>t, <5>1 DEF Unresolved, EnteredInv, ToSet
      <4>2. CASE ~Done(g)
        BY <2>z, <2>10, <4>2 DEF Attach
      <4> QED
        BY <4>1, <4>2
    <3>5. callbacks \subseteq callbacks' /\ callbacks' \subseteq callbacks \cup {g}
      BY <2>z, <2>10 DEF Attach
    <3>6. \A f \in Future : f # g /\ GivenUp(f) => GivenUp(f)'
      BY <2>o, <2>a, <3>5 DEF GivenUp
    <3>7. \A f \in Future : f # g /\ Waiting(f) => Waiting(f)'
      BY <2>10, <2>o, <2>b, <2>c, <3>1, <3>2, SameFuture DEF Attach
    <3>8. ~shut' => \A f \in Future : Unresolved(f)' => GivenUp(f)' \/ Waiting(f)'
      BY <2>10, <3>3, <3>4, <3>6, <3>7 DEF Attach, WaitInv, GivenUp
    <3>9. \A f \in callbacks' :
            pc'[f.caller] \in {"select", "submit"} => f.adapter \notin eligible'[f.caller]
      <4> SUFFICES ASSUME NEW f \in callbacks', pc'[f.caller] \in {"select", "submit"}
                   PROVE  f.adapter \notin eligible'[f.caller]
        OBVIOUS
      <4>1. f \in callbacks /\ f.caller # c
        BY <3>1, <3>2, <3>5
      <4> QED
        BY <2>f, <1>u, <4>1 DEF WaitInv
    <3> QED
      BY <3>8, <3>9 DEF WaitInv
  <2> QED
    BY <1>7, <2>1, <2>2, <2>3, <2>4, <2>5, <2>6, <2>7, <2>8, <2>9, <2>10 DEF RunDiscovery
<1> QED
  BY <1>1, <1>2, <1>3, <1>4, <1>5, <1>6, <1>7, <1>8 DEF Next


-----------------------------------------------------------------------------
(* Only Submit enters a future, and a caller submits only where it waits   *)
(* for nothing and has given up nothing.                                   *)
LEMMA PileStep ==
  DiscoveryInv /\ AbandonedExact /\ WaitInv /\ OneUnresolved /\ [Next]_vars => OneUnresolved'
<1> SUFFICES ASSUME DiscoveryInv, AbandonedExact, WaitInv, OneUnresolved, [Next]_vars
             PROVE  OneUnresolved'
  OBVIOUS
<1> USE DEF pool, callers
<1>t. TypeOK /\ CallInv /\ EnteredInv /\ CallbackInv
  BY DEF DiscoveryInv
<1>q. ASSUME \A f \in Future : Unresolved(f)' => Unresolved(f) PROVE OneUnresolved'
  BY <1>q DEF OneUnresolved
<1>1. CASE StartWork
  <2>1. /\ Head(queue) \in ToSet(queue) /\ ToSet(queue') \subseteq ToSet(queue)
    BY <1>1, <1>t, QueueShrinks DEF StartWork
  <2>2. \A f \in Future : Unresolved(f)' => Unresolved(f)
    BY <1>1, <1>t, <2>1 DEF StartWork, Unresolved, TypeOK
  <2> QED
    BY <1>q, <2>2
<1>2. ASSUME NEW f \in Future, OnDone(f) PROVE OneUnresolved'
  BY <1>2, <1>t, <1>q DEF OnDone, Unresolved, TypeOK
<1>3. ASSUME NEW f \in Future, NEW ending \in Endings, FinishWork(f, ending)
      PROVE  OneUnresolved'
  BY <1>3, <1>t, <1>q DEF FinishWork, Unresolved, TypeOK, Endings
<1>4. ASSUME NEW c \in Callers, Submit(c) PROVE OneUnresolved'
  <2>1. PICK g : g = Current(c)
    OBVIOUS
  <2>2. /\ g \in Future /\ g.caller = c /\ g.round = round[c] /\ g.adapter = Reached(c)
        /\ Reached(c) \in rest[c] /\ Reached(c) \in eligible[c]
    BY <1>4, <1>t, <2>1, CurrentIsFuture DEF Submit, TypeOK
  <2>3. \A f \in Future : Unresolved(f)' => Unresolved(f) \/ f = g
    <3>1. queue' = Append(queue, g) /\ g \in Future
      BY <1>4, <2>1, <2>2 DEF Submit
    <3>2. \A k \in DOMAIN queue' : (k \in DOMAIN queue /\ queue'[k] = queue[k]) \/ queue'[k] = g
      BY <3>1, <1>t DEF TypeOK
    <3> QED
      BY <1>4, <3>2 DEF Submit, Unresolved, ToSet
  <2>4. ASSUME NEW f \in Future, Unresolved(f), f.caller = c PROVE f.adapter # Reached(c)
    <3>1. GivenUp(f) \/ Waiting(f)
      BY <1>4, <2>4 DEF Submit, WaitInv
    <3>2. CASE GivenUp(f)
      <4>1. f \in callbacks
        BY <1>4, <2>4, <3>2 DEF Submit, GivenUp, Attaching
      <4> QED
        BY <1>4, <2>2, <2>4, <4>1 DEF Submit, WaitInv
    <3>3. CASE Waiting(f)
      BY <1>4, <2>2, <2>4, <3>3 DEF Submit, Waiting
    <3> QED
      BY <3>1, <3>2, <3>3
  <2> QED
    BY <2>2, <2>3, <2>4 DEF OneUnresolved
<1>5. ASSUME NEW c \in Callers, RunDiscovery(c), ~Submit(c) PROVE OneUnresolved'
  <2>1. /\ queue' = queue
        /\ \A f \in Future : state'[f] = state[f] \/ state'[f] = "gone"
    BY <1>5, <1>t DEF RunDiscovery, Skip, Select, SetDeadline, SubmitRaises, Submitted,
         Collect, TimeOut, Mark, Attach, Return, Leave, TypeOK
  <2>2. \A f \in Future : Unresolved(f)' => Unresolved(f)
    BY <2>1 DEF Unresolved
  <2> QED
    BY <1>q, <2>2
<1>6. ASSUME NEW c \in Callers, Begin(c) \/ DeadlinePasses(c) PROVE OneUnresolved'
  BY <1>6, <1>q DEF Begin, DeadlinePasses, Unresolved
<1>7. CASE Shutdown \/ UNCHANGED vars
  BY <1>7, <1>q DEF Shutdown, vars, Unresolved
<1> QED
  BY <1>1, <1>2, <1>3, <1>4, <1>5, <1>6, <1>7 DEF Next

LEMMA OneIsNoPile == OneUnresolved => NoPileUp
<1> SUFFICES ASSUME OneUnresolved, NEW c \in Callers, NEW a \in Adapters
             PROVE  Cardinality({f \in Future : f.caller = c /\ f.adapter = a /\ Unresolved(f)}) <= 1
  BY DEF NoPileUp
<1> DEFINE S == {f \in Future : f.caller = c /\ f.adapter = a /\ Unresolved(f)}
<1>1. CASE S = {}
  BY <1>1, FS_EmptySet
<1>2. CASE S # {}
  <2>1. PICK f : f \in S
    BY <1>2
  <2>2. S = {f}
    BY <2>1 DEF OneUnresolved
  <2>3. Cardinality(S) = 1
    BY <2>2, FS_Singleton
  <2> QED
    BY <2>3
<1> QED
  BY <1>1, <1>2

-----------------------------------------------------------------------------
LEMMA InTimeStep ==
  DiscoveryInv /\ InTimeInv /\ InTimeCounts /\ [Next]_vars => InTimeInv' /\ InTimeCounts'
<1> DEFINE Good == InTimeInv /\ InTimeCounts
<1> SUFFICES ASSUME DiscoveryInv, Good, [Next]_vars PROVE Good'
  OBVIOUS
<1> USE DEF pool, callers
<1>t. TypeOK /\ CallInv /\ EnteredInv /\ CallbackInv /\ TypeOK' /\ CallInv'
  BY TypesStep DEF DiscoveryInv
<1>u. \A f \in inTime : f \in Future /\ f.caller \in Callers /\ f.adapter \in Adapters
  BY <1>t DEF TypeOK, Future
<1>f. \A f \in Future : f.caller \in Callers /\ f.adapter \in Adapters
  BY DEF Future
(* A step of the pool, or of the clock. *)
<1>p. ASSUME UNCHANGED <<round, pc, rest, outcome, inTime>>,
             \A c \in Callers : late[c] => late'[c],
             \A f \in inTime : Kept(f) => Kept(f)',
             \A f \in Future : state[f] \in {"timeout_error", "gone"} => state'[f] \in {"timeout_error", "gone"}
      PROVE  Good'
  BY <1>p, <1>f DEF InTimeInv, InTimeCounts, TimedOut
<1>1. CASE StartWork
  <2>1. state[Head(queue)] = "new"
    BY <1>1, <1>t, QueueShrinks DEF StartWork, EnteredInv, ToSet
  <2>2. \A f \in Future : state[f] # "new" => state'[f] = state[f]
    BY <1>1, <1>t, <2>1 DEF StartWork, TypeOK
  <2>3. \A f \in inTime : Kept(f) => Kept(f)'
    BY <1>1, <1>u, <2>2 DEF StartWork, Kept
  <2> QED
    BY <1>1, <1>p, <2>2, <2>3 DEF StartWork
<1>2. ASSUME NEW f \in Future, OnDone(f) PROVE Good'
  <2>1. \A g \in Future : g # f => state'[g] = state[g]
    BY <1>2, <1>t DEF OnDone, TypeOK
  <2>2. state'[f] = "gone"
    BY <1>2, <1>t DEF OnDone, TypeOK
  <2>3. \A g \in inTime : Kept(g) => Kept(g)'
    BY <1>2, <1>t, <1>u, <2>1 DEF OnDone, Kept, CallbackInv
  <2> QED
    BY <1>2, <1>p, <2>1, <2>2, <2>3 DEF OnDone
<1>3. ASSUME NEW f \in Future, NEW ending \in Endings, FinishWork(f, ending) PROVE Good'
  <2>1. /\ state[f] = "running" /\ state'[f] = ending
        /\ \A g \in Future : g # f => state'[g] = state[g]
    BY <1>3, <1>t DEF FinishWork, TypeOK
  <2>2. /\ \A c \in Callers, a \in Adapters :
             outcome'[c][a] = "timed_out" => pc'[c] \in {"await", "mark", "attach"}
        /\ \A g \in Future : TimedOut(g)' /\ ~late'[g.caller] => state'[g] \in {"timeout_error", "gone"}
    BY <1>3, <2>1, <1>f DEF FinishWork, InTimeInv, TimedOut
  <2>3. \A g \in inTime : Kept(g)'
    BY <1>3, <1>u, <2>1 DEF FinishWork, InTimeInv, Kept
  <2>4. CASE inTime' = inTime
    BY <1>3, <2>2, <2>3, <2>4 DEF FinishWork, InTimeInv, InTimeCounts
  <2>5. CASE inTime' # inTime
    <3>1. inTime' = inTime \cup {f} /\ InRound(f) /\ ~late[f.caller] /\ ending \in {"value", "error"}
      BY <1>3, <2>5 DEF FinishWork, Endings
    <3>2. ~TimedOut(f)
      BY <2>1, <3>1 DEF InTimeInv
    <3>3. pc[f.caller] \notin {"idle", "select"}
      BY <1>t, <1>f, <2>1, <3>1 DEF InRound, CallInv, EnteredInv, Entered
    <3>4. Kept(f)'
      BY <1>3, <1>t, <1>f, <2>1, <3>1, <3>3 DEF FinishWork, Kept, InRound, TypeOK
    <3> QED
      BY <1>3, <2>2, <2>3, <3>1, <3>2, <3>4 DEF FinishWork, InTimeInv, InTimeCounts, TimedOut, InRound
  <2> QED
    BY <2>4, <2>5
<1>4. CASE Shutdown
  BY <1>4, <1>p DEF Shutdown, Kept
<1>5. ASSUME NEW c \in Callers, Begin(c) PROVE Good'
  <2>1. pc[c] = "idle" /\ \A d \in Callers : d # c => round'[d] = round[d] /\ pc'[d] = pc[d] /\ rest'[d] = rest[d]
    BY <1>5, <1>t DEF Begin, Goto, TypeOK
  <2>2. \A f \in inTime : f.caller # c
    BY <2>1 DEF InTimeInv, Kept
  <2>3. \A a \in Adapters : outcome[c][a] # "timed_out"
    BY <2>1 DEF InTimeInv
  <2>4. \A f \in inTime : Kept(f)'
    BY <1>5, <1>u, <2>1, <2>2 DEF Begin, InTimeInv, Kept
  <2>5. \A f \in Future : TimedOut(f)' => f.caller # c /\ TimedOut(f)
    BY <1>5, <1>f, <2>1, <2>3 DEF Begin, TimedOut
  <2> QED
    BY <1>5, <1>f, <2>1, <2>3, <2>4, <2>5 DEF Begin, InTimeInv, InTimeCounts
<1>6. ASSUME NEW c \in Callers, DeadlinePasses(c) PROVE Good'
  BY <1>6, <1>p, <1>t DEF DeadlinePasses, Kept, TypeOK
<1>7. ASSUME NEW c \in Callers, SubmitRaises(c) \/ Return(c) PROVE Good'
  <2>1. /\ pc'[c] = "idle" /\ \A a \in Adapters : outcome'[c][a] = "none"
        /\ inTime' = {f \in inTime : f.caller # c}
        /\ UNCHANGED <<state, round>>
        /\ \A d \in Callers : d # c => /\ pc'[d] = pc[d] /\ rest'[d] = rest[d]
                                       /\ outcome'[d] = outcome[d] /\ late'[d] = late[d]
    BY <1>7, <1>t DEF SubmitRaises, Return, Leave, Goto, TypeOK
  <2>2. \A f \in inTime' : Kept(f)'
    BY <1>u, <2>1 DEF InTimeInv, Kept
  <2>3. \A f \in Future : TimedOut(f)' => f.caller # c /\ TimedOut(f)
    BY <1>f, <2>1 DEF TimedOut
  <2>4. \A d \in Callers, a \in Adapters :
          outcome'[d][a] = "timed_out" => pc'[d] \in {"await", "mark", "attach"}
    BY <2>1 DEF InTimeInv
  <2>5. \A f \in Future : TimedOut(f)' /\ ~late'[f.caller] => state'[f] \in {"timeout_error", "gone"}
    BY <1>f, <2>1, <2>3 DEF InTimeInv
  <2>6. InTimeCounts'
    BY <1>u, <2>1 DEF InTimeCounts
  <2> QED
    BY <2>2, <2>4, <2>5, <2>6 DEF InTimeInv
<1>8. ASSUME NEW c \in Callers, RunDiscovery(c), ~SubmitRaises(c), ~Return(c) PROVE Good'
  <2> USE DEF Goto, Advance, Record
  <2>z. PICK g : g = Current(c)
    OBVIOUS
  <2>g. pc[c] # "idle" /\ rest[c] # {} =>
          /\ g \in Future /\ g.caller = c /\ g.round = round[c] /\ g.adapter = Reached(c)
          /\ Reached(c) \in rest[c]
    BY <1>t, <2>z, CurrentIsFuture
  <2>1. /\ UNCHANGED <<round, late, inTime>>
        /\ \A d \in Callers : d # c => pc'[d] = pc[d] /\ rest'[d] = rest[d] /\ outcome'[d] = outcome[d]
    BY <1>8, <1>t DEF RunDiscovery, Skip, Select, SetDeadline, Submit, Submitted,
         Collect, TimeOut, Mark, Attach, TypeOK
  (* A step that times no call out. *)
  <2>q. ASSUME \A f \in Future : state'[f] = state[f] \/ (f = g /\ g.caller = c /\ state'[f] = "gone"),
               \A f \in inTime : f.caller = c => Kept(f)',
               \A a \in Adapters : outcome'[c][a] = "timed_out" =>
                 outcome[c][a] = "timed_out" /\ pc'[c] \in {"await", "mark", "attach"}
        PROVE  Good'
    <3>1. \A f \in inTime : Kept(f)'
      BY <1>u, <2>1, <2>q DEF InTimeInv, Kept
    <3>2. \A d \in Callers, a \in Adapters :
            outcome'[d][a] = "timed_out" => pc'[d] \in {"await", "mark", "attach"}
      BY <2>1, <2>q DEF InTimeInv
    <3>3. \A f \in Future : TimedOut(f)' => TimedOut(f)
      BY <1>f, <2>1, <2>q DEF TimedOut
    <3>4. \A f \in Future : TimedOut(f)' /\ ~late'[f.caller] => state'[f] \in {"timeout_error", "gone"}
      BY <2>1, <2>q, <3>3 DEF InTimeInv
    <3>5. InTimeCounts'
      BY <1>u, <2>1, <2>q DEF InTimeCounts
    <3> QED
      BY <2>1, <3>1, <3>2, <3>4, <3>5 DEF InTimeInv
  <2>i. \A f \in inTime : f.caller = c =>
          /\ f.round = round[c]
          /\ pc[c] \in {"submit", "await", "mark", "attach"}
          /\ \/ state[f] \in {"value", "error"}
             \/ pc[c] \in {"await", "mark", "attach"} /\ f.adapter \notin rest[c]
    BY DEF InTimeInv, Kept
  <2>k. \A f \in inTime : f.caller = c =>
         (Kept(f)' <=>
          /\ f.round = round'[c]
          /\ pc'[c] \in {"submit", "await", "mark", "attach"}
          /\ \/ state'[f] \in {"value", "error"}
             \/ pc'[c] \in {"await", "mark", "attach"} /\ f.adapter \notin rest'[c])
    BY DEF Kept
  <2>n. pc[c] \in {"select", "submit"} => \A a \in Adapters : outcome[c][a] # "timed_out"
    BY DEF InTimeInv
  <2>2. CASE Skip(c)
    <3>1. \A a \in Adapters : outcome'[c][a] # "timed_out"
      BY <1>t, <2>2, <2>n DEF Skip, TypeOK
    <3> QED
      BY <2>2, <2>i, <2>q, <3>1 DEF Skip
  <2>3. CASE Select(c) \/ SetDeadline(c)
    BY <2>3, <2>i, <2>n, <2>q DEF Select, SetDeadline
  <2>4. CASE Submit(c)
    <3>1. \A f \in inTime : f.caller = c => Kept(f)'
      BY <2>4, <2>i, <2>k DEF Submit
    <3> QED
      BY <2>4, <2>n, <2>q, <3>1 DEF Submit
  <2>5. CASE Submitted(c)
    <3>1. \A f \in inTime : f.caller = c => Kept(f)'
      BY <1>t, <2>5, <2>i, <2>k DEF Submitted, TypeOK
    <3> QED
      BY <2>5, <2>n, <2>q, <3>1 DEF Submitted
  <2>6. CASE Collect(c)
    <3>1. /\ g \in Future /\ g.caller = c /\ g.round = round[c] /\ g.adapter = Reached(c)
          /\ Reached(c) \in rest[c]
      BY <2>6, <2>g DEF Collect, Awaits
    <3>2. /\ pc[c] = "await" /\ pc'[c] = "await" /\ rest'[c] = rest[c] \ {Reached(c)}
          /\ \A a \in Adapters : outcome'[c][a] = outcome[c][a] \/ outcome'[c][a] # "timed_out"
      BY <1>t, <2>6 DEF Collect, Awaits, TypeOK
    <3>3. \A f \in Future : state'[f] = state[f] \/ (f = g /\ state'[f] = "gone")
      BY <1>t, <2>6, <2>z DEF Collect, TypeOK
    <3>4. \A f \in inTime : f.caller = c => Kept(f)'
      BY <1>u, <2>1, <2>i, <2>k, <3>1, <3>2, <3>3
    <3> QED
      BY <2>q, <3>1, <3>2, <3>3, <3>4
  <2>7. CASE TimeOut(c)
    <3>1. /\ g \in Future /\ g.caller = c /\ g.round = round[c] /\ g.adapter = Reached(c)
          /\ Reached(c) \in rest[c]
      BY <2>7, <2>g DEF TimeOut, Awaits
    <3>2. /\ pc[c] = "await" /\ pc'[c] = "mark" /\ UNCHANGED <<state, rest>>
          /\ \A a \in Adapters : a # Reached(c) => outcome'[c][a] = outcome[c][a]
          /\ late[c] \/ state[g] = "timeout_error"
          /\ state[g] \notin {"value", "error"}
      BY <1>t, <2>7, <2>z DEF TimeOut, Awaits, TypeOK, Done, Endings
    <3>3. \A f \in inTime : Kept(f)'
      BY <1>u, <2>1, <2>i, <2>k, <3>2 DEF InTimeInv, Kept
    <3>4. \A d \in Callers, a \in Adapters :
            outcome'[d][a] = "timed_out" => pc'[d] \in {"await", "mark", "attach"}
      BY <2>1, <3>2 DEF InTimeInv
    <3>5. \A f \in Future : TimedOut(f)' => TimedOut(f) \/ f = g
      BY <1>f, <2>1, <3>1, <3>2, SameFuture DEF TimedOut
    <3>6. \A f \in Future : TimedOut(f)' /\ ~late'[f.caller] => state'[f] \in {"timeout_error", "gone"}
      BY <2>1, <3>1, <3>2, <3>5 DEF InTimeInv
    <3>7. g \notin inTime
      BY <3>1, <3>2 DEF InTimeInv, Kept
    <3>8. \A f \in inTime : f.caller = c => f.adapter # Reached(c)
      BY <1>u, <2>i, <3>1, <3>7, SameFuture
    <3>9. InTimeCounts'
      BY <1>u, <2>1, <3>2, <3>8 DEF InTimeCounts
    <3> QED
      BY <2>1, <3>3, <3>4, <3>6, <3>9 DEF InTimeInv
  <2>8. CASE Mark(c)
    <3>1. pc[c] = "mark" /\ pc'[c] = "attach" /\ UNCHANGED <<state, rest, outcome>>
      BY <1>t, <2>8 DEF Mark, TypeOK
    <3>2. \A f \in inTime : f.caller = c => Kept(f)'
      BY <2>1, <2>i, <2>k, <3>1
    <3> QED
      BY <2>q, <3>1, <3>2
  <2>9. CASE Attach(c)
    <3>1. /\ g \in Future /\ g.caller = c /\ g.round = round[c] /\ g.adapter = Reached(c)
          /\ Reached(c) \in rest[c]
      BY <1>t, <2>9, <2>g DEF Attach, CallInv
    <3>2. /\ pc[c] = "attach" /\ pc'[c] = "await" /\ rest'[c] = rest[c] \ {Reached(c)}
          /\ UNCHANGED outcome
      BY <1>t, <2>9 DEF Attach, TypeOK
    <3>3. \A f \in Future : state'[f] = state[f] \/ (f = g /\ state'[f] = "gone")
      BY <1>t, <2>9, <2>z DEF Attach, TypeOK
    <3>4. \A f \in inTime : f.caller = c => Kept(f)'
      BY <1>u, <2>1, <2>i, <2>k, <3>1, <3>2, <3>3
    <3> QED
      BY <2>q, <3>1, <3>2, <3>3, <3>4
  <2> QED
    BY <1>8, <2>2, <2>3, <2>4, <2>5, <2>6, <2>7, <2>8, <2>9 DEF RunDiscovery
<1>9. CASE UNCHANGED vars
  BY <1>9, <1>p DEF vars, Kept
<1> QED
  BY <1>1, <1>2, <1>3, <1>4, <1>5, <1>6, <1>7, <1>8, <1>9 DEF Next

LEMMA DiscoveryStep == DiscoveryInv /\ AbandonedExact /\ [Next]_vars => DiscoveryInv' /\ AbandonedExact'
BY TypesStep, EnteredStep, CallbackStep DEF DiscoveryInv

-----------------------------------------------------------------------------
(* Every variable keeps its type. *)
THEOREM DiscoveryTypes == Spec => []TypeOK
<1>1. Spec => [](DiscoveryInv /\ AbandonedExact)
  BY DiscoveryInit, DiscoveryStep, PTL DEF Spec
<1>2. DiscoveryInv => TypeOK
  BY DEF DiscoveryInv
<1> QED
  BY <1>1, <1>2, PTL

(* _abandoned holds a call exactly from the timeout's entry until the      *)
(* callback has run, whenever the call ends in between.                    *)
THEOREM EntriesAreExact == Spec => []AbandonedExact
BY DiscoveryInit, DiscoveryStep, PTL DEF Spec

(* However many rounds a caller runs against an adapter that hangs, one    *)
(* call of it at most is in the pool.                                      *)
THEOREM CallsDoNotPileUp == Spec => []NoPileUp
<1>1. Spec => [](DiscoveryInv /\ AbandonedExact /\ WaitInv /\ OneUnresolved)
  BY DiscoveryInit, DiscoveryStep, WaitStep, PileStep, PTL DEF Spec
<1> QED
  BY <1>1, OneIsNoPile, PTL

(* A call that was over before its round's deadline is never reported as   *)
(* timed out.                                                              *)
THEOREM AnswersInTimeCount == Spec => []InTimeCounts
<1>1. Spec => [](DiscoveryInv /\ AbandonedExact /\ InTimeInv /\ InTimeCounts)
  BY DiscoveryInit, DiscoveryStep, InTimeStep, PTL DEF Spec
<1> QED
  BY <1>1, PTL
=============================================================================
