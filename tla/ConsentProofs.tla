--------------------------- MODULE ConsentProofs ---------------------------
(***************************************************************************)
(* Proofs about Consent, for any threads, sensors, grants and handles:     *)
(*   ConsentTypes      the type invariant,                                 *)
(*   EveryGrantEnds    the atexit hook leaves no grant open,               *)
(*   OneCloserCall     a registered closer is called exactly once,         *)
(*   GrantsAnswer      is_granted answers by the grants that are not over, *)
(*   AnswersAreHonest  what callers and the audit trail see of that,       *)
(*   AuditAddsUp       the audit trail balances.                           *)
(***************************************************************************)
EXTENDS Consent, FiniteSetTheorems, TLAPS

Making(a) == task[a].step \in {"setdefault", "add", "activate"}
Ending(a) == task[a].step \in {"close", "get", "discard", "prune", "forget"}

(* a is in the bookkeeping of s. *)
Inside(a, s) == task[a].sensor = s /\ task[a].step \in {"add", "discard", "prune"}

(* What a task holds at each of its steps. *)
TaskOf(a) ==
  /\ Making(a) => a \in Threads /\ task[a].grant # 0 /\ task[a].grant \notin ended \cup active
  /\ Ending(a) => task[a].grant \in ended
  /\ task[a].grant # 0 => (Making(a) \/ Ending(a)) /\ task[a].rest \subseteq covers[task[a].grant]
  /\ task[a].step \in {"add", "discard", "prune"} =>
       task[a].sensor \in task[a].rest /\ task[a].set # 0
  /\ task[a].step \in {"idle", "setdefault", "activate", "get", "forget"} =>
       task[a].sensor = NoSensor
  /\ task[a].step \in {"activate", "forget"} => task[a].rest = {}
  /\ task[a].step = "close" =>
       /\ task[a].set = 0
       /\ task[a].sensor \in task[a].rest \/ (task[a].sensor = NoSensor /\ task[a].index = 0)
  /\ task[a].step = "open" => task[a].sensor \in Sensors

TaskInv == \A a \in Actors : TaskOf(a)

(* A grant is made or ended by one actor at a time; one that has not ended *)
(* is in _active_grants or still being made; and behind the beginning of   *)
(* the exit nothing is made.                                               *)
OwnerInv ==
  /\ \A a, b \in Actors : task[a].grant # 0 /\ task[a].grant = task[b].grant => a = b
  /\ \A g \in GrantIds : g > made => covers[g] = {}
  /\ \A g \in 1..made : g \notin ended => g \in active \/ \E a \in Actors : task[a].grant = g
  /\ exiting => /\ \A t \in Threads : task[t].step = "idle"
                /\ \A g \in 1..made : g \notin ended => g \in toEnd
  /\ ~exiting => toEnd = {}

(* A set holds only ids of grants that cover its sensor. *)
HeapInv == \A s \in Sensors : \A k \in DOMAIN heap[s] : \A g \in heap[s][k] : s \in covers[g]

(* While nobody clashed over a sensor, one actor at most is in its         *)
(* bookkeeping, and the set it holds is the one _grants has.               *)
StoreInv ==
  \A s \in Sensors \ clashed :
    /\ \A a, b \in Actors : Inside(a, s) /\ Inside(b, s) => a = b
    /\ \A a \in Actors : Inside(a, s) => task[a].set = slot[s]

(* a has still to add its grant to the set of s; or to discard it.         *)
Owing(a, s) == Making(a) /\ s \in task[a].rest
Holding(a, s) ==
  \/ task[a].step = "close"
  \/ task[a].step \in {"get", "discard"} /\ s \in task[a].rest
  \/ task[a].step = "prune" /\ s \in task[a].rest \ {task[a].sensor}

(* g has been added to the set of s, and not been discarded from it. *)
Covered(g, s) ==
  /\ \A a \in Actors : task[a].grant = g => ~Owing(a, s)
  /\ g \in ended => \E a \in Actors : task[a].grant = g /\ Holding(a, s)

MemberOf(g) ==
  Undisturbed(g) =>
    /\ \A s \in covers[g] : g \in Stored(s) <=> Covered(g, s)
    /\ g \in ended /\ g \in active => \E a \in Actors : task[a].grant = g

MemberInv == \A g \in 1..made : MemberOf(g)

(* The grants of s that were handed out, and those that are over. *)
GrantedOf(s) ==
  {g \in 1..made : s \in covers[g] /\ \A a \in Actors : Making(a) => task[a].grant # g}
EndedOf(s) == {g \in ended : s \in covers[g] /\ Settled(g)}

(* Both are in the audit trail, unless a KeyError kept one out of it. *)
AuditInv ==
  \A s \in Sensors :
    /\ audit[s]["granted"] = Cardinality(GrantedOf(s))
    /\ clashed = {} => audit[s]["ended"] = Cardinality(EndedOf(s))

(* a is calling the closers of g, and has still to call the i-th of s. *)
Ends(a, g) == task[a].step = "close" /\ task[a].grant = g
Ahead(a, s, i) == s \in task[a].rest /\ ~(task[a].sensor = s /\ i <= task[a].index)

(* The i-th closer of s in g was called once if the ending of g has come   *)
(* past it; it may not have been if it was registered when g had ended.    *)
EntryOf(g, s, i) ==
  LET d == closers[g][s][i]
  IN /\ calls[d] \in {0, 1}
     /\ g \notin ended => calls[d] = 0
     /\ g \in ended /\ d \notin late /\ (\A a \in Actors : ~Ends(a, g)) => calls[d] = 1
     /\ \A a \in Actors : Ends(a, g) => /\ Ahead(a, s, i) => calls[d] = 0
                                        /\ ~Ahead(a, s, i) /\ d \notin late => calls[d] = 1

(* Each handle is registered once, and no closer is called before that. *)
ClosersInv ==
  /\ \A g, h \in GrantIds, s, r \in Sensors : \A i \in DOMAIN closers[g][s], j \in DOMAIN closers[h][r] :
       closers[g][s][i] = closers[h][r][j] => g = h /\ s = r /\ i = j
  /\ \A d \in DOMAIN device : ~Registered(d) => calls[d] = 0
  /\ \A g \in GrantIds, s \in Sensors : \A i \in DOMAIN closers[g][s] : EntryOf(g, s, i)
  /\ \A a \in Actors : task[a].step = "close" /\ task[a].sensor # NoSensor =>
       task[a].index <= Len(closers[task[a].grant][task[a].sensor])

ConsentInv == TypeOK /\ TaskInv /\ OwnerInv /\ HeapInv

-----------------------------------------------------------------------------
(* Types *)

LEMMA ConsentInit ==
  Init => ConsentInv /\ StoreInv /\ MemberInv /\ AuditInv /\ ClosersInv
<1> SUFFICES ASSUME Init PROVE ConsentInv /\ StoreInv /\ MemberInv /\ AuditInv /\ ClosersInv
  OBVIOUS
<1>0. /\ 1..0 = {} /\ MaxGrants \in Nat /\ 0 \in 0..0
      /\ Idle.step = "idle" /\ Idle.grant = 0 /\ Idle.sensor = NoSensor /\ Idle.rest = {}
      /\ Idle \in [step : Steps, grant : 0..0, sensor : Sensors \cup {NoSensor},
                   set : Nat, index : Nat, rest : SUBSET Sensors]
  BY BoundsAssumption DEF Idle, NoSensor, Steps
<1>1. /\ \A a \in Actors : task[a] = Idle
      /\ \A s \in Sensors : heap[s] = <<>> /\ DOMAIN heap[s] = {} /\ Len(heap[s]) = 0
      /\ \A g \in GrantIds, s \in Sensors : closers[g][s] = <<>> /\ DOMAIN closers[g][s] = {}
      /\ device = <<>> /\ DOMAIN device = {} /\ calls = <<>>
  BY DEF Init
<1>2. TypeOK
  <2>1. heap \in [Sensors -> Seq(SUBSET (1..made))]
    BY <1>1 DEF Init
  <2>2. closers \in [GrantIds -> [Sensors -> Seq(DOMAIN device)]]
    BY <1>1 DEF Init
  <2>3. /\ device \in Seq([sensor : Sensors, open : BOOLEAN])
        /\ calls \in Seq(Nat) /\ Len(calls) = Len(device)
    BY <1>1
  <2>4. /\ task \in [Actors -> [step : Steps, grant : 0..made, sensor : Sensors \cup {NoSensor},
                           set : Nat, index : Nat, rest : SUBSET Sensors]]
        /\ \A a \in Actors : task[a].sensor \in Sensors => task[a].set \in 0..Len(heap[task[a].sensor])
    BY <1>0, SensorsAssumption DEF Init, NoSensor
  <2>5. slot \in [Sensors -> Nat] /\ \A s \in Sensors : slot[s] \in 0..Len(heap[s])
    BY <1>1 DEF Init
  <2>6. \A g \in GrantIds : {s \in Sensors : closers[g][s] # <<>>} \subseteq covers[g]
    BY <1>1
  <2>7. made \in 0..MaxGrants /\ covers \in [GrantIds -> SUBSET Sensors]
    BY <1>0 DEF Init
  <2> QED
    BY <2>1, <2>2, <2>3, <2>4, <2>5, <2>6, <2>7 DEF Init, TypeOK
<1>3. TaskInv
  BY <1>0, <1>1 DEF TaskInv, TaskOf, Making, Ending
<1>4. OwnerInv
  BY <1>0, <1>1 DEF Init, OwnerInv
<1>5. HeapInv
  BY <1>1 DEF HeapInv
<1>6. StoreInv
  BY <1>0, <1>1 DEF StoreInv, Inside
<1>7. MemberInv
  BY <1>0 DEF Init, MemberInv
<1>8. AuditInv
  <2>1. \A s \in Sensors : GrantedOf(s) = {} /\ EndedOf(s) = {}
    BY <1>0 DEF Init, GrantedOf, EndedOf
  <2>2. Cardinality({}) = 0
    BY FS_EmptySet
  <2> QED
    BY <2>1, <2>2 DEF Init, AuditInv, Outcomes
<1>9. ClosersInv
  BY <1>0, <1>1 DEF ClosersInv, At
<1> QED
  BY <1>2, <1>3, <1>4, <1>5, <1>6, <1>7, <1>8, <1>9 DEF ConsentInv

(* TypeOK in four parts. *)
TaskSet(n) == [step : Steps, grant : 0..n, sensor : Sensors \cup {NoSensor},
               set : Nat, index : Nat, rest : SUBSET Sensors]

StoreOK ==
  /\ made \in 0..MaxGrants
  /\ covers \in [GrantIds -> SUBSET Sensors]
  /\ ended \subseteq 1..made
  /\ active \subseteq 1..made
  /\ heap \in [Sensors -> Seq(SUBSET (1..made))]
  /\ slot \in [Sensors -> Nat] /\ \A s \in Sensors : slot[s] \in 0..Len(heap[s])

TaskOK ==
  /\ task \in [Actors -> TaskSet(made)]
  /\ \A a \in Actors : task[a].sensor \in Sensors => task[a].set \in 0..Len(heap[task[a].sensor])

HandlesOK ==
  /\ closers \in [GrantIds -> [Sensors -> Seq(DOMAIN device)]]
  /\ \A g \in GrantIds : {s \in Sensors : closers[g][s] # <<>>} \subseteq covers[g]
  /\ device \in Seq([sensor : Sensors, open : BOOLEAN])
  /\ calls \in Seq(Nat) /\ Len(calls) = Len(device)
  /\ late \subseteq DOMAIN device

RestOK ==
  /\ audit \in [Sensors -> [Outcomes -> Nat]]
  /\ exiting \in BOOLEAN
  /\ toEnd \subseteq 1..made
  /\ clashed \subseteq Sensors

LEMMA TypeParts ==
  /\ TypeOK <=> StoreOK /\ TaskOK /\ HandlesOK /\ RestOK
  /\ TypeOK' <=> StoreOK' /\ TaskOK' /\ HandlesOK' /\ RestOK'
BY DEF TypeOK, StoreOK, TaskOK, TaskSet, HandlesOK, RestOK

LEMMA IdleTyped == StoreOK => Idle \in TaskSet(made) /\ Idle.sensor \notin Sensors
<1> SUFFICES ASSUME StoreOK PROVE Idle \in TaskSet(made) /\ Idle.sensor \notin Sensors
  OBVIOUS
<1>1. 0 \in 0..made
  BY BoundsAssumption DEF StoreOK
<1> QED
  BY <1>1, SensorsAssumption DEF Idle, TaskSet, NoSensor, Steps

(* One task moves, and sets are only added to the heap. *)
LEMMA TaskMoves ==
  ASSUME StoreOK, TaskOK, NEW a \in Actors, NEW new, task' = [task EXCEPT ![a] = new],
         new \in TaskSet(made'), made' \in Nat, made <= made',
         \A s \in Sensors : Len(heap[s]) <= Len(heap'[s]) /\ Len(heap'[s]) \in Nat,
         new.sensor \in Sensors => new.set \in 0..Len(heap'[new.sensor])
  PROVE  TaskOK'
<1>1. made \in Nat /\ \A s \in Sensors : Len(heap[s]) \in Nat
  BY BoundsAssumption DEF StoreOK
<1>2. \A b \in Actors : task[b] \in TaskSet(made')
  BY <1>1 DEF TaskOK, TaskSet
<1>3. task' \in [Actors -> TaskSet(made')]
  BY <1>2 DEF TaskOK
<1>4. \A b \in Actors : task'[b] = IF b = a THEN new ELSE task[b]
  BY DEF TaskOK
<1>5. \A b \in Actors : task'[b].sensor \in Sensors => task'[b].set \in 0..Len(heap'[task'[b].sensor])
  <2> SUFFICES ASSUME NEW b \in Actors, b # a, task[b].sensor \in Sensors
               PROVE  task[b].set \in 0..Len(heap'[task[b].sensor])
    BY <1>4
  <2>1. task[b].set \in 0..Len(heap[task[b].sensor])
    BY DEF TaskOK
  <2> QED
    BY <1>1, <2>1
<1> QED
  BY <1>3, <1>5 DEF TaskOK

(* The same when store and ids stay. *)
LEMMA TaskMovesOnly ==
  ASSUME StoreOK, TaskOK, NEW a \in Actors, NEW new, task' = [task EXCEPT ![a] = new],
         new \in TaskSet(made), made' = made, heap' = heap,
         new.sensor \in Sensors => new.set \in 0..Len(heap[new.sensor])
  PROVE  TaskOK'
<1>1. made \in Nat /\ \A s \in Sensors : Len(heap[s]) \in Nat
  BY BoundsAssumption DEF StoreOK
<1>2. /\ made' \in Nat /\ made <= made'
      /\ \A s \in Sensors : Len(heap[s]) <= Len(heap'[s]) /\ Len(heap'[s]) \in Nat
  BY <1>1
<1>3. new \in TaskSet(made') /\ (new.sensor \in Sensors => new.set \in 0..Len(heap'[new.sensor]))
  OBVIOUS
<1> QED
  BY <1>2, <1>3, TaskMoves

LEMMA TypesStep == ConsentInv /\ [Next]_vars => TypeOK'
<1> SUFFICES ASSUME ConsentInv, [Next]_vars PROVE TypeOK'
  OBVIOUS
<1> USE DEF store, life, handles, history
<1>t. StoreOK /\ TaskOK /\ HandlesOK /\ RestOK /\ TaskInv /\ OwnerInv
  BY TypeParts DEF ConsentInv
<1>u. \A a \in Actors : task[a] \in TaskSet(made)
  BY <1>t DEF TaskOK
<1>m. made \in Nat /\ MaxGrants \in Nat /\ GrantIds = 1..MaxGrants /\ 1..made \subseteq GrantIds
  BY <1>t, BoundsAssumption DEF StoreOK, GrantIds
<1>a. \A t \in Threads : t \in Actors
  BY DEF Actors
<1>i. Idle \in TaskSet(made) /\ Idle.sensor \notin Sensors
  BY <1>t, IdleTyped
<1>s. UNCHANGED <<made, covers, ended, active, slot, heap>> => StoreOK'
  BY <1>t DEF StoreOK
<1>h. UNCHANGED <<covers, closers, device, calls, late>> => HandlesOK'
  BY <1>t DEF HandlesOK
<1>r. UNCHANGED <<made, audit, exiting, toEnd, clashed>> => RestOK'
  BY <1>t DEF RestOK
<1>c. ASSUME NEW a \in Actors, NEW s \in Sensors, Touch(a, s) PROVE clashed' \subseteq Sensors
  BY <1>t, <1>c DEF Touch, RestOK
<1>e. ASSUME NEW o \in Outcomes, NEW ss, Emit(o, ss) PROVE audit' \in [Sensors -> [Outcomes -> Nat]]
  <2>1. \A s \in Sensors : audit[s] \in [Outcomes -> Nat] /\ audit[s][o] + 1 \in Nat
    BY <1>t DEF RestOK
  <2>2. \A s \in Sensors : [audit[s] EXCEPT ![o] = @ + 1] \in [Outcomes -> Nat]
    BY <2>1
  <2> QED
    BY <1>e, <2>1, <2>2 DEF Emit
<1>d. \A d \in DOMAIN device : device[d] \in [sensor : Sensors, open : BOOLEAN]
  <2> DEFINE Handle == [sensor : Sensors, open : BOOLEAN]
  <2>1. device \in Seq(Handle)
    BY <1>t DEF HandlesOK
  <2> HIDE DEF Handle
  <2>2. \A d \in DOMAIN device : device[d] \in Handle
    BY <2>1
  <2> QED
    BY <2>2 DEF Handle
<1>k. ASSUME NEW a \in Actors, task' = [task EXCEPT ![a] = Idle], UNCHANGED <<made, heap>>
      PROVE  TaskOK'
  BY <1>t, <1>i, <1>k, TaskMovesOnly
<1>1. CASE UNCHANGED vars
  BY <1>1, <1>t, TypeParts DEF vars, StoreOK, TaskOK, HandlesOK, RestOK
<1>2. ASSUME NEW t \in Threads, NEW q \in Requests, GrantBegin(t, q) PROVE TypeOK'
  <2>1. made' = made + 1 /\ made' \in GrantIds /\ q \in SUBSET Sensors
    BY <1>2, <1>m DEF GrantBegin, Requests
  <2>2. covers' \in [GrantIds -> SUBSET Sensors]
    BY <1>2, <1>t, <2>1 DEF GrantBegin, StoreOK
  <2>3. heap' \in [Sensors -> Seq(SUBSET (1..made'))]
    <3>1. 1..made \subseteq 1..made'
      BY <1>m, <2>1
    <3>2. \A s \in Sensors : heap[s] \in Seq(SUBSET (1..made'))
      <4> SUFFICES ASSUME NEW s \in Sensors PROVE heap[s] \in Seq(SUBSET (1..made'))
        OBVIOUS
      <4>1. heap[s] \in Seq(SUBSET (1..made))
        BY <1>t DEF StoreOK
      <4>2. \A k \in 1..Len(heap[s]) : heap[s][k] \in SUBSET (1..made')
        BY <3>1, <4>1
      <4> QED
        BY <4>1, <4>2
    <3> QED
      BY <1>2, <1>t, <3>2 DEF GrantBegin, StoreOK
  <2>4. StoreOK'
    BY <1>2, <1>t, <1>m, <2>1, <2>2, <2>3 DEF GrantBegin, StoreOK
  <2>5. TaskOK'
    <3> DEFINE new == [Idle EXCEPT !.step = "setdefault", !.grant = made', !.rest = q]
    <3>1. new \in TaskSet(made') /\ new.sensor \notin Sensors
      <4>1. made' \in 0..made'
        BY <1>m, <2>1
      <4> QED
        BY <2>1, <4>1, SensorsAssumption DEF Idle, TaskSet, NoSensor, Steps
    <3>2. made <= made' /\ made' \in Nat
      BY <1>m, <2>1
    <3>3. \A s \in Sensors : Len(heap[s]) <= Len(heap'[s]) /\ Len(heap'[s]) \in Nat
      BY <1>2, <1>t DEF GrantBegin, StoreOK
    <3>4. task' = [task EXCEPT ![t] = new]
      BY <1>2 DEF GrantBegin
    <3> HIDE DEF new
    <3> QED
      BY <1>t, <1>a, <3>1, <3>2, <3>3, <3>4, TaskMoves
  <2>6. HandlesOK'
    <3>1. covers[made'] = {}
      BY <1>t, <1>m, <2>1 DEF OwnerInv
    <3>2. \A g \in GrantIds : covers[g] \subseteq covers'[g]
      BY <1>2, <1>t, <2>1, <3>1 DEF GrantBegin, StoreOK
    <3> QED
      BY <1>2, <1>t, <3>2 DEF GrantBegin, HandlesOK
  <2>7. RestOK'
    BY <1>2, <1>t, <1>m, <2>1 DEF GrantBegin, RestOK
  <2> QED
    BY <2>4, <2>5, <2>6, <2>7, TypeParts
<1>3. ASSUME NEW t \in Threads, NEW s \in Sensors, SetDefault(t, s) PROVE TypeOK'
  <2>1. /\ heap' \in [Sensors -> Seq(SUBSET (1..made))]
        /\ slot' \in [Sensors -> Nat]
        /\ \A r \in Sensors : slot'[r] \in 0..Len(heap'[r])
        /\ \A r \in Sensors : Len(heap[r]) <= Len(heap'[r]) /\ Len(heap'[r]) \in Nat
    <3>1. CASE slot[s] = 0
      <4>1. heap' = [heap EXCEPT ![s] = Append(@, {})] /\ slot' = [slot EXCEPT ![s] = Len(heap'[s])]
        BY <1>3, <3>1 DEF SetDefault
      <4>2. \A r \in Sensors : heap[r] \in Seq(SUBSET (1..made)) /\ slot[r] \in 0..Len(heap[r])
        BY <1>t DEF StoreOK
      <4>3. Append(heap[s], {}) \in Seq(SUBSET (1..made)) /\ Len(Append(heap[s], {})) = Len(heap[s]) + 1
        BY <4>2
      <4>4. heap'[s] = Append(heap[s], {}) /\ \A r \in Sensors : r # s => heap'[r] = heap[r]
        BY <1>t, <4>1 DEF StoreOK
      <4>5. heap' \in [Sensors -> Seq(SUBSET (1..made))]
        BY <1>t, <4>1, <4>3 DEF StoreOK
      <4>6. \A r \in Sensors : Len(heap[r]) <= Len(heap'[r]) /\ Len(heap'[r]) \in Nat
        BY <4>2, <4>3, <4>4
      <4>7. \A r \in Sensors : slot'[r] \in 0..Len(heap'[r])
        <5> SUFFICES ASSUME NEW r \in Sensors PROVE slot'[r] \in 0..Len(heap'[r])
          OBVIOUS
        <5>1. slot'[r] = IF r = s THEN Len(heap'[s]) ELSE slot[r]
          BY <1>t, <4>1 DEF StoreOK
        <5>2. Len(heap'[s]) \in 0..Len(heap'[s])
          BY <4>6
        <5> QED
          BY <4>2, <4>6, <5>1, <5>2
      <4>8. slot' \in [Sensors -> Nat]
        BY <1>t, <4>1, <4>6 DEF StoreOK
      <4> QED
        BY <4>5, <4>6, <4>7, <4>8
    <3>2. CASE slot[s] # 0
      BY <1>3, <1>t, <3>2 DEF SetDefault, StoreOK
    <3> QED
      BY <3>1, <3>2
  <2>2. StoreOK'
    BY <1>3, <1>t, <2>1 DEF SetDefault, StoreOK
  <2>3. slot'[s] \in Nat
    BY <2>1
  <2>4. TaskOK'
    <3> DEFINE new == [task[t] EXCEPT !.step = "add", !.sensor = s, !.set = slot'[s]]
    <3>1. new \in TaskSet(made) /\ new.sensor = s /\ new.set = slot'[s] /\ made' = made
      BY <1>3, <1>u, <1>a, <2>3 DEF SetDefault, TaskSet, Steps
    <3>2. task' = [task EXCEPT ![t] = new]
      BY <1>3 DEF SetDefault
    <3> HIDE DEF new
    <3>3. new \in TaskSet(made') /\ made' \in Nat /\ made <= made'
      BY <1>m, <3>1
    <3>4. new.sensor \in Sensors => new.set \in 0..Len(heap'[new.sensor])
      BY <2>1, <3>1
    <3> QED
      BY <1>t, <1>a, <2>1, <3>2, <3>3, <3>4, TaskMoves
  <2>5. HandlesOK' /\ RestOK'
    BY <1>3, <1>h, <1>t, <1>a, <1>c DEF SetDefault, RestOK
  <2> QED
    BY <2>2, <2>4, <2>5, TypeParts
<1>w. ASSUME NEW a \in Actors, task[a].sensor \in Sensors, NEW new \in SUBSET (1..made),
             heap' = [heap EXCEPT ![task[a].sensor][task[a].set] = new],
             task[a].set # 0, UNCHANGED <<made, covers, ended, active, slot>>
      PROVE  StoreOK' /\ \A r \in Sensors : Len(heap'[r]) = Len(heap[r])
  <2>1. \A r \in Sensors : heap[r] \in Seq(SUBSET (1..made)) /\ Len(heap[r]) \in Nat
    BY <1>t DEF StoreOK
  <2>2. task[a].set \in 1..Len(heap[task[a].sensor])
    BY <1>t, <1>w, <2>1 DEF TaskOK
  <2>3. /\ [heap[task[a].sensor] EXCEPT ![task[a].set] = new] \in Seq(SUBSET (1..made))
        /\ Len([heap[task[a].sensor] EXCEPT ![task[a].set] = new]) = Len(heap[task[a].sensor])
    BY <1>w, <2>1, <2>2
  <2>4. /\ heap'[task[a].sensor] = [heap[task[a].sensor] EXCEPT ![task[a].set] = new]
        /\ \A r \in Sensors : r # task[a].sensor => heap'[r] = heap[r]
    BY <1>t, <1>w DEF StoreOK
  <2>5. heap' \in [Sensors -> Seq(SUBSET (1..made))]
    BY <1>t, <1>w, <2>3 DEF StoreOK
  <2>6. \A r \in Sensors : Len(heap'[r]) = Len(heap[r])
    BY <2>3, <2>4
  <2> QED
    BY <1>t, <1>w, <2>5, <2>6 DEF StoreOK
<1>x. ASSUME NEW a \in Actors, NEW new \in TaskSet(made), task' = [task EXCEPT ![a] = new],
             new.sensor \in Sensors => new.sensor = task[a].sensor /\ new.set = task[a].set,
             made' = made, \A r \in Sensors : Len(heap'[r]) = Len(heap[r])
      PROVE  TaskOK'
  <2>1. \A r \in Sensors : Len(heap[r]) \in Nat
    BY <1>t DEF StoreOK
  <2>2. \A r \in Sensors : Len(heap[r]) <= Len(heap'[r]) /\ Len(heap'[r]) \in Nat
    BY <1>x, <2>1
  <2>3. new.sensor \in Sensors => new.set \in 0..Len(heap'[new.sensor])
    BY <1>t, <1>x DEF TaskOK
  <2>4. new \in TaskSet(made') /\ made' \in Nat /\ made <= made'
    BY <1>m, <1>x
  <2> QED
    BY <1>t, <1>x, <2>2, <2>3, <2>4, TaskMoves
<1>y. ASSUME NEW a \in Actors, NEW s \in Sensors, AfterSensor(a, s), made' = made,
             \A r \in Sensors : Len(heap'[r]) = Len(heap[r])
      PROVE  TaskOK'
  <2> DEFINE rest == task[a].rest \ {s}
             new == [task[a] EXCEPT !.step = IF rest = {} THEN "forget" ELSE "get",
                                    !.sensor = NoSensor, !.set = 0, !.rest = rest]
  <2>1. new \in TaskSet(made) /\ new.sensor \notin Sensors
    BY <1>u, SensorsAssumption DEF TaskSet, Steps, NoSensor
  <2>2. task' = [task EXCEPT ![a] = new]
    BY <1>y DEF AfterSensor
  <2> HIDE DEF new
  <2> QED
    BY <1>x, <1>y, <2>1, <2>2
<1>4. ASSUME NEW t \in Threads, Add(t) PROVE TypeOK'
  <2>1. t \in Actors /\ task[t].step = "add" /\ task[t].set # 0
    BY <1>4, <1>t, <1>a DEF Add, At, TaskInv, TaskOf
  <2>2. task[t].sensor \in Sensors
    BY <1>t, <1>u, <2>1 DEF TaskInv, TaskOf, TaskSet
  <2>3. task[t].set \in 1..Len(heap[task[t].sensor]) /\ task[t].grant \in 1..made
    BY <1>t, <1>u, <2>1, <2>2 DEF TaskInv, TaskOf, Making, TaskOK, TaskSet, StoreOK
  <2>4. heap[task[t].sensor][task[t].set] \cup {task[t].grant} \in SUBSET (1..made)
    BY <1>t, <2>2, <2>3 DEF StoreOK
  <2>5. heap' = [heap EXCEPT ![task[t].sensor][task[t].set] =
                   heap[task[t].sensor][task[t].set] \cup {task[t].grant}]
    BY <1>4 DEF Add
  <2>6. StoreOK' /\ \A r \in Sensors : Len(heap'[r]) = Len(heap[r])
    BY <1>4, <1>w, <2>1, <2>2, <2>4, <2>5 DEF Add
  <2>7. TaskOK'
    <3> DEFINE rest == task[t].rest \ {task[t].sensor}
               new == [task[t] EXCEPT !.step = IF rest = {} THEN "activate" ELSE "setdefault",
                                      !.sensor = NoSensor, !.set = 0, !.rest = rest]
    <3>1. new \in TaskSet(made) /\ new.sensor \notin Sensors
      BY <1>u, <2>1, SensorsAssumption DEF TaskSet, Steps, NoSensor
    <3>2. task' = [task EXCEPT ![t] = new] /\ made' = made
      BY <1>4 DEF Add
    <3> HIDE DEF new
    <3> QED
      BY <1>x, <2>1, <2>6, <3>1, <3>2
  <2>8. HandlesOK' /\ RestOK'
    BY <1>4, <1>h, <1>t, <1>c, <2>1, <2>2 DEF Add, RestOK
  <2> QED
    BY <2>6, <2>7, <2>8, TypeParts
<1>5. ASSUME NEW t \in Threads, Activate(t) PROVE TypeOK'
  <2>1. t \in Actors /\ task[t].grant \in 1..made
    BY <1>5, <1>t, <1>u, <1>a DEF Activate, At, TaskInv, TaskOf, Making, TaskSet
  <2>2. StoreOK' /\ TaskOK' /\ HandlesOK'
    BY <1>5, <1>t, <1>h, <1>k, <2>1 DEF Activate, StoreOK
  <2>3. RestOK'
    BY <1>5, <1>e, <1>t DEF Activate, RestOK, Outcomes
  <2> QED
    BY <2>2, <2>3, TypeParts
<1>6. ASSUME NEW t \in Threads, NEW s \in Sensors, Check(t, s) PROVE TypeOK'
  <2>1. StoreOK' /\ HandlesOK' /\ t \in Actors
    BY <1>6, <1>s, <1>h, <1>a DEF Check
  <2>2. RestOK'
    BY <1>6, <1>e, <1>t DEF Check, RestOK, Outcomes
  <2>3. TaskOK'
    <3> DEFINE new == IF Stored(s) # {} THEN [Idle EXCEPT !.step = "open", !.sensor = s] ELSE Idle
    <3>1. [Idle EXCEPT !.step = "open", !.sensor = s] \in TaskSet(made) /\ Idle \in TaskSet(made)
      BY <1>i DEF TaskSet, Steps
    <3>2. new.set = 0 /\ new \in TaskSet(made)
      BY <3>1 DEF Idle
    <3>3. task' = [task EXCEPT ![t] = new] /\ made' = made /\ heap' = heap
      BY <1>6 DEF Check
    <3>4. \A r \in Sensors : 0 \in 0..Len(heap[r])
      BY <1>t DEF StoreOK
    <3> HIDE DEF new
    <3> QED
      BY <1>t, <2>1, <3>2, <3>3, <3>4, TaskMovesOnly
  <2> QED
    BY <2>1, <2>2, <2>3, TypeParts
<1>7. ASSUME NEW t \in Threads, OpenDevice(t) PROVE TypeOK'
  <2>1. t \in Actors /\ task[t].sensor \in Sensors
    BY <1>7, <1>t, <1>a DEF OpenDevice, At, TaskInv, TaskOf
  <2>2. StoreOK' /\ RestOK' /\ TaskOK'
    BY <1>7, <1>s, <1>r, <1>k, <2>1 DEF OpenDevice
  <2>3. /\ device' \in Seq([sensor : Sensors, open : BOOLEAN]) /\ Len(device') = Len(device) + 1
        /\ calls' \in Seq(Nat) /\ Len(calls') = Len(calls) + 1
        /\ DOMAIN device \subseteq DOMAIN device' /\ Len(calls) = Len(device)
    <3>1. [sensor |-> task[t].sensor, open |-> TRUE] \in [sensor : Sensors, open : BOOLEAN]
      BY <2>1
    <3> QED
      BY <1>7, <1>t, <3>1 DEF OpenDevice, HandlesOK
  <2>4. closers \in [GrantIds -> [Sensors -> Seq(DOMAIN device')]]
    <3>1. \A g \in GrantIds, s \in Sensors : closers[g][s] \in Seq(DOMAIN device')
      <4> SUFFICES ASSUME NEW g \in GrantIds, NEW s \in Sensors PROVE closers[g][s] \in Seq(DOMAIN device')
        OBVIOUS
      <4>1. closers[g][s] \in Seq(DOMAIN device)
        BY <1>t DEF HandlesOK
      <4> PICK c : c = closers[g][s]
        OBVIOUS
      <4>2. c \in Seq(DOMAIN device) /\ Len(c) \in Nat
        BY <4>1
      <4>3. ASSUME NEW k \in 1..Len(c) PROVE c[k] \in DOMAIN device'
        <5>1. c[k] \in DOMAIN device
          BY <4>2
        <5> QED
          BY <2>3, <5>1
      <4>4. c = [k \in 1..Len(c) |-> c[k]]
        BY <4>2
      <4> QED
        BY <4>2, <4>3, <4>4
    <3>2. \A g \in GrantIds : closers[g] \in [Sensors -> Seq(DOMAIN device')]
      BY <1>t, <3>1 DEF HandlesOK
    <3> QED
      BY <1>t, <3>2 DEF HandlesOK
  <2>5. HandlesOK'
    BY <1>7, <1>t, <2>3, <2>4 DEF OpenDevice, HandlesOK
  <2> QED
    BY <2>2, <2>5, TypeParts
<1>8. ASSUME NEW t \in Threads, NEW g \in GrantIds, NEW d \in DOMAIN device, RegisterOpenDevice(t, g, d)
      PROVE  TypeOK'
  <2> DEFINE s == device[d].sensor
  <2>1. s \in Sensors
    BY <1>d
  <2>2. Append(closers[g][s], d) \in Seq(DOMAIN device)
    BY <1>t, <2>1 DEF HandlesOK
  <2>3. closers' = [closers EXCEPT ![g][s] = Append(closers[g][s], d)] /\ s \in covers[g]
        /\ UNCHANGED <<covers, device, calls>>
    BY <1>8 DEF RegisterOpenDevice
  <2> HIDE DEF s
  <2>4. closers' \in [GrantIds -> [Sensors -> Seq(DOMAIN device)]]
    BY <1>t, <2>1, <2>2, <2>3 DEF HandlesOK
  <2>5. \A h \in GrantIds, r \in Sensors : (h # g \/ r # s) => closers'[h][r] = closers[h][r]
    BY <1>t, <2>3 DEF HandlesOK
  <2>6. late' \subseteq DOMAIN device
    BY <1>8, <1>t DEF RegisterOpenDevice, HandlesOK
  <2>7. HandlesOK'
    BY <1>t, <2>3, <2>4, <2>5, <2>6 DEF HandlesOK
  <2>8. StoreOK' /\ RestOK' /\ TaskOK'
    BY <1>8, <1>t, <1>s, <1>r DEF RegisterOpenDevice, TaskOK
  <2> QED
    BY <2>7, <2>8, TypeParts
<1>9. ASSUME NEW a \in Actors, NEW g \in GrantIds, EndBegin(a, g) PROVE TypeOK'
  <2>1. g \in 1..made
    BY <1>9, <1>t, <1>m DEF EndBegin, MayEnd, HandedOut, RestOK
  <2>2. StoreOK' /\ HandlesOK' /\ RestOK'
    BY <1>9, <1>t, <1>h, <1>r, <2>1 DEF EndBegin, StoreOK
  <2>3. TaskOK'
    <3> DEFINE new == [Idle EXCEPT !.step = "close", !.grant = g, !.rest = covers[g]]
    <3>1. covers[g] \subseteq Sensors /\ g \in 0..made
      BY <1>t, <1>m, <2>1 DEF StoreOK
    <3>2. new \in TaskSet(made) /\ new.sensor \notin Sensors
      BY <1>i, <3>1 DEF TaskSet, Steps
    <3>3. task' = [task EXCEPT ![a] = new] /\ made' = made /\ heap' = heap
      BY <1>9 DEF EndBegin
    <3> HIDE DEF new
    <3> QED
      BY <1>t, <3>2, <3>3, TaskMovesOnly
  <2> QED
    BY <2>2, <2>3, TypeParts
<1>10. ASSUME NEW a \in Actors, NEW g \in GrantIds, EndAgain(a, g) PROVE TypeOK'
  <2>1. StoreOK' /\ HandlesOK' /\ RestOK' /\ TaskOK'
    BY <1>10, <1>t, <1>s, <1>h DEF EndAgain, RestOK, TaskOK
  <2> QED
    BY <2>1, TypeParts
<1>11. ASSUME NEW a \in Actors, NEW s \in Sensors, CloseDevice(a, s) \/ CloseRaises(a, s) PROVE TypeOK'
  <2>1. task[a].grant \in GrantIds
    BY <1>11, <1>t, <1>m DEF CloseDevice, CloseRaises, Closing, At, TaskInv, TaskOf, Ending, StoreOK
  <2>2. NextCloser(a, s) \in DOMAIN device
    <3>1. closers[task[a].grant][s] \in Seq(DOMAIN device)
      BY <1>t, <2>1 DEF HandlesOK
    <3>2. task[a].index + 1 \in 1..Len(closers[task[a].grant][s])
      BY <1>11, <1>u, <3>1 DEF CloseDevice, CloseRaises, TaskSet
    <3> QED
      BY <3>1, <3>2 DEF NextCloser
  <2>3. calls' = [calls EXCEPT ![NextCloser(a, s)] = @ + 1]
    BY <1>11 DEF CloseDevice, CloseRaises
  <2>4. calls' \in Seq(Nat) /\ Len(calls') = Len(calls)
    <3>1. NextCloser(a, s) \in 1..Len(calls)
      BY <1>t, <2>2 DEF HandlesOK
    <3>2. calls[NextCloser(a, s)] + 1 \in Nat
      BY <1>t, <3>1 DEF HandlesOK
    <3> QED
      BY <1>t, <2>3, <3>1, <3>2 DEF HandlesOK
  <2>5. device' \in Seq([sensor : Sensors, open : BOOLEAN]) /\ Len(device') = Len(device)
        /\ DOMAIN device' = DOMAIN device
    <3>1. CASE device' = device
      BY <1>t, <3>1 DEF HandlesOK
    <3>2. CASE device' = [device EXCEPT ![NextCloser(a, s)].open = FALSE]
      <4>1. device[NextCloser(a, s)] \in [sensor : Sensors, open : BOOLEAN]
        BY <1>d, <2>2
      <4>2. [device[NextCloser(a, s)] EXCEPT !.open = FALSE] \in [sensor : Sensors, open : BOOLEAN]
        BY <4>1
      <4>3. NextCloser(a, s) \in 1..Len(device) /\ device \in Seq([sensor : Sensors, open : BOOLEAN])
        BY <1>t, <2>2 DEF HandlesOK
      <4>4. device' = [device EXCEPT ![NextCloser(a, s)] = [device[NextCloser(a, s)] EXCEPT !.open = FALSE]]
        BY <3>2
      <4> QED
        BY <4>2, <4>3, <4>4
    <3> QED
      BY <1>11, <3>1, <3>2 DEF CloseDevice, CloseRaises
  <2>6. HandlesOK'
    BY <1>11, <1>t, <2>4, <2>5 DEF CloseDevice, CloseRaises, HandlesOK
  <2>7. TaskOK'
    <3> DEFINE new == [task[a] EXCEPT !.sensor = s, !.index = task[a].index + 1]
    <3>1. new \in TaskSet(made) /\ new.sensor = s /\ new.set = task[a].set
      <4>1. task[a] \in TaskSet(made) /\ task[a].index + 1 \in Nat
        BY <1>u DEF TaskSet
      <4> QED
        BY <4>1 DEF TaskSet
    <3>2. task' = [task EXCEPT ![a] = new] /\ made' = made /\ heap' = heap
      BY <1>11 DEF CloseDevice, CloseRaises
    <3>3. task[a].set \in 0..Len(heap[s])
      <4>1. task[a].set = 0
        BY <1>11, <1>t DEF CloseDevice, CloseRaises, Closing, At, TaskInv, TaskOf
      <4>2. Len(heap[s]) \in Nat
        BY <1>t DEF StoreOK
      <4> QED
        BY <4>1, <4>2
    <3> HIDE DEF new
    <3> QED
      BY <1>t, <3>1, <3>2, <3>3, TaskMovesOnly
  <2>8. StoreOK' /\ RestOK'
    BY <1>11, <1>s, <1>r DEF CloseDevice, CloseRaises
  <2> QED
    BY <2>6, <2>7, <2>8, TypeParts
<1>12. ASSUME NEW a \in Actors, NEW s \in Sensors, CloseListDone(a, s) PROVE TypeOK'
  <2>1. StoreOK' /\ HandlesOK' /\ RestOK' /\ made' = made /\ heap' = heap
    BY <1>12, <1>s, <1>h, <1>r DEF CloseListDone
  <2>2. TaskOK'
    <3> DEFINE rest == task[a].rest \ {s}
               new == [task[a] EXCEPT !.step = IF rest = {} THEN "get" ELSE "close",
                                      !.sensor = NoSensor, !.index = 0,
                                      !.rest = IF rest = {} THEN covers[task[a].grant] ELSE rest]
    <3>1. task[a].grant \in GrantIds
      BY <1>12, <1>t, <1>m DEF CloseListDone, Closing, At, TaskInv, TaskOf, Ending, StoreOK
    <3>2. covers[task[a].grant] \subseteq Sensors
      BY <1>t, <3>1 DEF StoreOK
    <3>3. new \in TaskSet(made) /\ new.sensor \notin Sensors
      BY <1>u, <3>2, SensorsAssumption DEF TaskSet, Steps, NoSensor
    <3>4. task' = [task EXCEPT ![a] = new]
      BY <1>12 DEF CloseListDone
    <3> HIDE DEF new
    <3> QED
      BY <1>t, <2>1, <3>3, <3>4, TaskMovesOnly
  <2> QED
    BY <2>1, <2>2, TypeParts
<1>13. ASSUME NEW a \in Actors, NEW s \in Sensors, GetSet(a, s) PROVE TypeOK'
  <2>1. StoreOK' /\ HandlesOK' /\ RestOK' /\ made' = made /\ heap' = heap
    BY <1>13, <1>s, <1>h, <1>t, <1>c DEF GetSet, RestOK
  <2>2. CASE slot[s] = 0
    <3>1. AfterSensor(a, s)
      BY <1>13, <2>2 DEF GetSet
    <3> QED
      BY <1>y, <2>1, <3>1, TypeParts
  <2>3. CASE slot[s] # 0
    <3> DEFINE new == [task[a] EXCEPT !.step = "discard", !.sensor = s, !.set = slot[s]]
    <3>1. slot[s] \in 0..Len(heap[s]) /\ slot[s] \in Nat
      BY <1>t DEF StoreOK
    <3>2. new \in TaskSet(made) /\ new.sensor = s /\ new.set = slot[s]
      BY <1>u, <3>1 DEF TaskSet, Steps
    <3>3. task' = [task EXCEPT ![a] = new]
      BY <1>13, <2>3 DEF GetSet
    <3> HIDE DEF new
    <3>4. TaskOK'
      BY <1>t, <2>1, <3>1, <3>2, <3>3, TaskMovesOnly
    <3> QED
      BY <2>1, <3>4, TypeParts
  <2> QED
    BY <2>2, <2>3
<1>14. ASSUME NEW a \in Actors, Discard(a) PROVE TypeOK'
  <2>1. task[a].step = "discard" /\ task[a].set # 0 /\ task[a].sensor \in Sensors
    BY <1>14, <1>t, <1>u DEF Discard, At, TaskInv, TaskOf, TaskSet
  <2>2. task[a].set \in 1..Len(heap[task[a].sensor])
    BY <1>t, <2>1 DEF TaskOK, StoreOK
  <2>3. heap[task[a].sensor][task[a].set] \ {task[a].grant} \in SUBSET (1..made)
    BY <1>t, <2>1, <2>2 DEF StoreOK
  <2>4. heap' = [heap EXCEPT ![task[a].sensor][task[a].set] =
                   heap[task[a].sensor][task[a].set] \ {task[a].grant}]
    BY <1>14 DEF Discard
  <2>5. StoreOK' /\ \A r \in Sensors : Len(heap'[r]) = Len(heap[r])
    BY <1>14, <1>w, <2>1, <2>3, <2>4 DEF Discard
  <2>6. TaskOK'
    <3> DEFINE new == [task[a] EXCEPT !.step = "prune"]
    <3>1. new \in TaskSet(made) /\ new.sensor = task[a].sensor /\ new.set = task[a].set
      BY <1>u DEF TaskSet, Steps
    <3>2. task' = [task EXCEPT ![a] = new] /\ made' = made
      BY <1>14 DEF Discard
    <3> HIDE DEF new
    <3>3. new.sensor \in Sensors => new.sensor = task[a].sensor /\ new.set = task[a].set
      BY <3>1
    <3> QED
      BY <1>x, <2>5, <3>1, <3>2, <3>3
  <2>7. HandlesOK' /\ RestOK'
    BY <1>14, <1>h, <1>t, <1>c, <2>1 DEF Discard, RestOK
  <2> QED
    BY <2>5, <2>6, <2>7, TypeParts
<1>15. ASSUME NEW a \in Actors, Prune(a) \/ PruneRaises(a) PROVE TypeOK'
  <2>1. task[a].sensor \in Sensors
    BY <1>15, <1>t, <1>u DEF Prune, PruneRaises, At, TaskInv, TaskOf, TaskSet
  <2>2. heap' = heap /\ made' = made
    BY <1>15 DEF Prune, PruneRaises
  <2>3. TaskOK'
    BY <1>15, <1>k, <1>y, <2>1, <2>2 DEF Prune, PruneRaises
  <2>4. slot' \in [Sensors -> Nat] /\ \A s \in Sensors : slot'[s] \in 0..Len(heap[s])
    <3>1. \A s \in Sensors : slot[s] \in 0..Len(heap[s]) /\ 0 \in 0..Len(heap[s])
      BY <1>t DEF StoreOK
    <3>2. slot' = slot \/ slot' = [slot EXCEPT ![task[a].sensor] = 0]
      BY <1>15 DEF Prune, PruneRaises
    <3> QED
      BY <1>t, <3>1, <3>2 DEF StoreOK
  <2>5. StoreOK'
    BY <1>15, <1>t, <2>2, <2>4 DEF Prune, PruneRaises, StoreOK
  <2>6. HandlesOK' /\ RestOK'
    BY <1>15, <1>h, <1>t, <1>c, <2>1 DEF Prune, PruneRaises, RestOK
  <2> QED
    BY <2>3, <2>5, <2>6, TypeParts
<1>16. ASSUME NEW a \in Actors, Forget(a) PROVE TypeOK'
  <2>1. StoreOK' /\ TaskOK' /\ HandlesOK'
    BY <1>16, <1>t, <1>h, <1>k DEF Forget, StoreOK
  <2>2. RestOK'
    BY <1>16, <1>e, <1>t DEF Forget, RestOK, Outcomes
  <2> QED
    BY <2>1, <2>2, TypeParts
<1>17. ASSUME ExitBegins PROVE TypeOK'
  <2>1. StoreOK' /\ TaskOK' /\ HandlesOK' /\ RestOK'
    BY <1>17, <1>t, <1>s, <1>h DEF ExitBegins, StoreOK, TaskOK, RestOK
  <2> QED
    BY <2>1, TypeParts
<1> QED
  BY <1>1, <1>2, <1>3, <1>4, <1>5, <1>6, <1>7, <1>8, <1>9, <1>10, <1>11, <1>12, <1>13, <1>14,
     <1>15, <1>16, <1>17 DEF Next, End, GrantRefused, RegisterRefused

-----------------------------------------------------------------------------
(* Tasks and owners *)

(* What a step makes of the task of a; the other tasks stay. *)
Moves(a, step, grant, sensor, set, index, rest) ==
  /\ task'[a].step = step /\ task'[a].grant = grant /\ task'[a].sensor = sensor
  /\ task'[a].set = set /\ task'[a].index = index /\ task'[a].rest = rest
  /\ \A b \in Actors : b # a => task'[b] = task[b]

GoesIdle(a) == Moves(a, "idle", 0, NoSensor, 0, 0, {})

LEMMA TaskFields ==
  ASSUME ConsentInv, NEW a \in Actors
  PROVE  /\ task \in [Actors -> TaskSet(made)]
         /\ task[a] \in TaskSet(made)
         /\ task' = [task EXCEPT ![a] = Idle] => GoesIdle(a)
<1>1. task \in [Actors -> TaskSet(made)]
  BY TypeParts DEF ConsentInv, TaskOK
<1> QED
  BY <1>1 DEF GoesIdle, Moves, Idle

(* The steps of grant() and of read(). *)
LEMMA ThreadMoves ==
  ASSUME ConsentInv, NEW t \in Threads
  PROVE  /\ \A q : GrantBegin(t, q) => Moves(t, "setdefault", made + 1, NoSensor, 0, 0, q)
         /\ \A s \in Sensors : SetDefault(t, s) =>
              Moves(t, "add", task[t].grant, s, slot'[s], task[t].index, task[t].rest)
         /\ Add(t) => \E rest : /\ rest = task[t].rest \ {task[t].sensor}
                                /\ Moves(t, IF rest = {} THEN "activate" ELSE "setdefault",
                                         task[t].grant, NoSensor, 0, task[t].index, rest)
         /\ Activate(t) \/ OpenDevice(t) => GoesIdle(t)
         /\ \A s \in Sensors : Check(t, s) =>
              GoesIdle(t) \/ Moves(t, "open", 0, s, 0, 0, {})
<1>1. t \in Actors
  BY DEF Actors
<1>0. task \in [Actors -> TaskSet(made)] /\ task[t] \in TaskSet(made)
  BY <1>1, TaskFields
<1>2. \A q : GrantBegin(t, q) => Moves(t, "setdefault", made + 1, NoSensor, 0, 0, q)
  BY <1>1, <1>0 DEF GrantBegin, Moves, Idle
<1>3. \A s \in Sensors : SetDefault(t, s) =>
        Moves(t, "add", task[t].grant, s, slot'[s], task[t].index, task[t].rest)
  BY <1>1, <1>0 DEF SetDefault, Moves, TaskSet
<1>4. ASSUME Add(t)
      PROVE  \E rest : /\ rest = task[t].rest \ {task[t].sensor}
                       /\ Moves(t, IF rest = {} THEN "activate" ELSE "setdefault",
                                task[t].grant, NoSensor, 0, task[t].index, rest)
  <2> DEFINE rest == task[t].rest \ {task[t].sensor}
             step == IF rest = {} THEN "activate" ELSE "setdefault"
  <2>1. task' = [task EXCEPT ![t] = [task[t] EXCEPT !.step = step, !.sensor = NoSensor,
                                                    !.set = 0, !.rest = rest]]
    BY <1>4 DEF Add
  <2> HIDE DEF rest, step
  <2>2. Moves(t, step, task[t].grant, NoSensor, 0, task[t].index, rest)
    BY <1>0, <1>1, <2>1 DEF Moves, TaskSet
  <2> QED
    BY <2>2 DEF rest, step
<1>5. Activate(t) \/ OpenDevice(t) => GoesIdle(t)
  BY <1>1, TaskFields DEF Activate, OpenDevice
<1>6. \A s \in Sensors : Check(t, s) => GoesIdle(t) \/ Moves(t, "open", 0, s, 0, 0, {})
  BY <1>1, <1>0, TaskFields DEF Check, Moves, Idle
<1> QED
  BY <1>2, <1>3, <1>4, <1>5, <1>6

(* The steps of ending a grant. *)
LEMMA EndMoves ==
  ASSUME ConsentInv, NEW a \in Actors
  PROVE  /\ \A g : EndBegin(a, g) => Moves(a, "close", g, NoSensor, 0, 0, covers[g])
         /\ \A s \in Sensors :
              CloseDevice(a, s) \/ CloseRaises(a, s) =>
                Moves(a, "close", task[a].grant, s, task[a].set, task[a].index + 1, task[a].rest)
         /\ \A s \in Sensors : CloseListDone(a, s) =>
              \E rest : /\ rest = task[a].rest \ {s}
                        /\ Moves(a, IF rest = {} THEN "get" ELSE "close", task[a].grant, NoSensor,
                                 task[a].set, 0, IF rest = {} THEN covers[task[a].grant] ELSE rest)
         /\ \A s \in Sensors : AfterSensor(a, s) =>
              \E rest : /\ rest = task[a].rest \ {s}
                        /\ Moves(a, IF rest = {} THEN "forget" ELSE "get",
                                 task[a].grant, NoSensor, 0, task[a].index, rest)
         /\ \A s \in Sensors : GetSet(a, s) =>
              \/ slot[s] = 0 /\ AfterSensor(a, s)
              \/ slot[s] # 0 /\ Moves(a, "discard", task[a].grant, s, slot[s],
                                      task[a].index, task[a].rest)
         /\ Discard(a) => Moves(a, "prune", task[a].grant, task[a].sensor, task[a].set,
                                task[a].index, task[a].rest)
         /\ PruneRaises(a) \/ Forget(a) => GoesIdle(a)
<1>0. task \in [Actors -> TaskSet(made)] /\ task[a] \in TaskSet(made)
  BY TaskFields
<1>1. \A g : EndBegin(a, g) => Moves(a, "close", g, NoSensor, 0, 0, covers[g])
  BY <1>0 DEF EndBegin, Moves, Idle
<1>2. ASSUME NEW s \in Sensors, CloseDevice(a, s) \/ CloseRaises(a, s)
      PROVE  Moves(a, "close", task[a].grant, s, task[a].set, task[a].index + 1, task[a].rest)
  <2>1. task' = [task EXCEPT ![a] = [@ EXCEPT !.sensor = s, !.index = task[a].index + 1]] /\ task[a].step = "close"
    BY <1>2 DEF CloseDevice, CloseRaises, Closing, At
  <2> QED
    BY <2>1, <1>0 DEF Moves, TaskSet
<1>3. ASSUME NEW s \in Sensors, CloseListDone(a, s)
      PROVE  \E rest : /\ rest = task[a].rest \ {s}
                       /\ Moves(a, IF rest = {} THEN "get" ELSE "close", task[a].grant, NoSensor,
                                task[a].set, 0, IF rest = {} THEN covers[task[a].grant] ELSE rest)
  <2> DEFINE rest == task[a].rest \ {s}
             step == IF rest = {} THEN "get" ELSE "close"
             next == IF rest = {} THEN covers[task[a].grant] ELSE rest
  <2>1. task' = [task EXCEPT ![a] = [task[a] EXCEPT !.step = step, !.sensor = NoSensor,
                                                    !.index = 0, !.rest = next]]
    BY <1>3 DEF CloseListDone
  <2> HIDE DEF rest, step, next
  <2>2. Moves(a, step, task[a].grant, NoSensor, task[a].set, 0, next)
    BY <1>0, <2>1 DEF Moves, TaskSet
  <2> QED
    BY <2>2 DEF rest, step, next
<1>4. ASSUME NEW s \in Sensors, AfterSensor(a, s)
      PROVE  \E rest : /\ rest = task[a].rest \ {s}
                       /\ Moves(a, IF rest = {} THEN "forget" ELSE "get",
                                task[a].grant, NoSensor, 0, task[a].index, rest)
  <2> DEFINE rest == task[a].rest \ {s}
             step == IF rest = {} THEN "forget" ELSE "get"
  <2>1. task' = [task EXCEPT ![a] = [task[a] EXCEPT !.step = step, !.sensor = NoSensor,
                                                    !.set = 0, !.rest = rest]]
    BY <1>4 DEF AfterSensor
  <2> HIDE DEF rest, step
  <2>2. Moves(a, step, task[a].grant, NoSensor, 0, task[a].index, rest)
    BY <1>0, <2>1 DEF Moves, TaskSet
  <2> QED
    BY <2>2 DEF rest, step
<1>5. ASSUME NEW s \in Sensors, GetSet(a, s), slot[s] # 0
      PROVE  Moves(a, "discard", task[a].grant, s, slot[s], task[a].index, task[a].rest)
  <2>1. task' = [task EXCEPT ![a] = [task[a] EXCEPT !.step = "discard", !.sensor = s,
                                                    !.set = slot[s]]]
    BY <1>5 DEF GetSet
  <2> QED
    BY <1>0, <2>1 DEF Moves, TaskSet
<1>6. ASSUME NEW s \in Sensors, GetSet(a, s), slot[s] = 0 PROVE AfterSensor(a, s)
  BY <1>6 DEF GetSet
<1>7. Discard(a) => Moves(a, "prune", task[a].grant, task[a].sensor, task[a].set,
                          task[a].index, task[a].rest)
  BY <1>0 DEF Discard, Moves, TaskSet
<1>8. PruneRaises(a) \/ Forget(a) => GoesIdle(a)
  BY TaskFields DEF PruneRaises, Forget
<1> QED
  BY <1>1, <1>2, <1>3, <1>4, <1>5, <1>6, <1>7, <1>8

(* The task of b, when another actor moves. *)
LEMMA TaskStays ==
  ASSUME NEW b \in Actors, TaskOf(b), task'[b] = task[b], ended \subseteq ended',
         Making(b) => task[b].grant \notin ended' \cup active',
         task[b].grant # 0 => covers[task[b].grant] \subseteq covers'[task[b].grant]
  PROVE  TaskOf(b)'
BY DEF TaskOf, Making, Ending

LEMMA TaskInvStep == ConsentInv /\ [Next]_vars => TaskInv'
<1> SUFFICES ASSUME ConsentInv, [Next]_vars PROVE TaskInv'
  OBVIOUS
<1> USE DEF store, life, handles, history
<1>t. StoreOK /\ TaskOK /\ HandlesOK /\ RestOK /\ TaskInv /\ OwnerInv
  BY TypeParts DEF ConsentInv
<1>u. \A a \in Actors : task[a] \in TaskSet(made) /\ TaskOf(a)
  BY <1>t DEF TaskOK, TaskInv
<1>m. made \in Nat /\ MaxGrants \in Nat /\ GrantIds = 1..MaxGrants /\ 1..made \subseteq GrantIds
  BY <1>t, BoundsAssumption DEF StoreOK, GrantIds
<1>a. Threads \subseteq Actors
  BY DEF Actors
<1>i. \A a \in Actors : GoesIdle(a) => TaskOf(a)'
  BY DEF GoesIdle, Moves, TaskOf, Making, Ending
<1>s. \A a, b \in Actors : task[a].grant # 0 /\ task[a].grant = task[b].grant => a = b
  BY <1>t DEF OwnerInv
(* The steps that leave ended and active alone. *)
<1>q. ASSUME NEW a \in Actors, TaskOf(a)', \A b \in Actors : b # a => task'[b] = task[b],
             UNCHANGED <<covers, ended, active>>
      PROVE  TaskInv'
  <2>1. \A b \in Actors : b # a => TaskOf(b)'
    <3> SUFFICES ASSUME NEW b \in Actors, b # a PROVE TaskOf(b)'
      OBVIOUS
    <3>1. Making(b) => task[b].grant \notin ended' \cup active'
      BY <1>u, <1>q DEF TaskOf
    <3> QED
      BY <1>u, <1>q, <3>1, TaskStays
  <2> QED
    BY <1>q, <2>1 DEF TaskInv
<1>p. ASSUME UNCHANGED <<task, covers, ended, active>> PROVE TaskInv'
  BY <1>t, <1>p DEF TaskInv, TaskOf, Making, Ending
<1>1. CASE UNCHANGED vars
  BY <1>1, <1>p DEF vars
<1>2. ASSUME NEW t \in Threads, NEW q \in Requests, GrantBegin(t, q) PROVE TaskInv'
  <2>1. Moves(t, "setdefault", made + 1, NoSensor, 0, 0, q)
    BY <1>2, ThreadMoves
  <2>2. /\ made + 1 \in GrantIds /\ covers' = [covers EXCEPT ![made + 1] = q]
        /\ UNCHANGED <<ended, active>>
    BY <1>2, <1>m DEF GrantBegin
  <2>3. made + 1 \notin ended /\ made + 1 \notin active /\ made + 1 # 0
    BY <1>t, <1>m DEF StoreOK
  <2>4. covers'[made + 1] = q
    BY <1>t, <2>2 DEF StoreOK
  <2>5. TaskOf(t)'
    BY <2>1, <2>2, <2>3, <2>4 DEF Moves, TaskOf, Making, Ending
  <2>6. \A b \in Actors : b # t => TaskOf(b)'
    <3> SUFFICES ASSUME NEW b \in Actors, b # t PROVE TaskOf(b)'
      OBVIOUS
    <3>1. task[b].grant # 0 => covers'[task[b].grant] = covers[task[b].grant]
      <4>1. task[b].grant \in 0..made
        BY <1>u DEF TaskSet
      <4>2. task[b].grant # 0 => task[b].grant \in GrantIds /\ task[b].grant # made + 1
        BY <1>m, <4>1
      <4> QED
        BY <1>t, <2>2, <4>2 DEF StoreOK
    <3>2. Making(b) => task[b].grant \notin ended' \cup active'
      BY <1>u, <2>2 DEF TaskOf
    <3> QED
      BY <1>u, <2>1, <2>2, <3>1, <3>2, TaskStays DEF Moves
  <2> QED
    BY <2>5, <2>6 DEF TaskInv
<1>3. ASSUME NEW t \in Threads, NEW s \in Sensors, SetDefault(t, s) PROVE TaskInv'
  <2>1. Moves(t, "add", task[t].grant, s, slot'[s], task[t].index, task[t].rest)
    BY <1>3, ThreadMoves
  <2>2. task[t].step = "setdefault" /\ s \in task[t].rest /\ UNCHANGED <<covers, ended, active>>
    BY <1>3 DEF SetDefault, At
  <2>3. slot'[s] # 0
    <3>1. CASE slot[s] = 0
      <4>1. /\ heap' = [heap EXCEPT ![s] = Append(heap[s], {})]
            /\ slot' = [slot EXCEPT ![s] = Len(heap'[s])]
        BY <1>3, <3>1 DEF SetDefault
      <4>2. heap[s] \in Seq(SUBSET (1..made))
        BY <1>t DEF StoreOK
      <4>3. slot'[s] = Len(Append(heap[s], {}))
        BY <1>t, <4>1 DEF StoreOK
      <4> QED
        BY <4>2, <4>3
    <3> QED
      BY <1>3, <3>1 DEF SetDefault
  <2>4. TaskOf(t)'
    BY <1>a, <1>u, <2>1, <2>2, <2>3 DEF Moves, TaskOf, Making, Ending
  <2> QED
    BY <1>a, <1>q, <2>1, <2>2, <2>4 DEF Moves
<1>4. ASSUME NEW t \in Threads, Add(t) PROVE TaskInv'
  <2>1. PICK rest : /\ rest = task[t].rest \ {task[t].sensor}
                    /\ Moves(t, IF rest = {} THEN "activate" ELSE "setdefault",
                             task[t].grant, NoSensor, 0, task[t].index, rest)
    BY <1>4, ThreadMoves
  <2>2. task[t].step = "add" /\ UNCHANGED <<covers, ended, active>>
    BY <1>4 DEF Add, At
  <2>3. TaskOf(t)'
    BY <1>a, <1>u, <2>1, <2>2 DEF Moves, TaskOf, Making, Ending
  <2> QED
    BY <1>a, <1>q, <2>1, <2>2, <2>3 DEF Moves
<1>5. ASSUME NEW t \in Threads, Activate(t) PROVE TaskInv'
  <2>1. GoesIdle(t) /\ Making(t) /\ task[t].grant # 0
    BY <1>5, <1>a, <1>u, ThreadMoves DEF Activate, At, TaskOf, Making
  <2>2. active' = active \cup {task[t].grant} /\ UNCHANGED <<covers, ended>>
    BY <1>5 DEF Activate
  <2>3. \A b \in Actors : b # t => TaskOf(b)'
    <3> SUFFICES ASSUME NEW b \in Actors, b # t PROVE TaskOf(b)'
      OBVIOUS
    <3>1. task[b].grant # task[t].grant
      BY <1>a, <1>s, <2>1
    <3>2. Making(b) => task[b].grant \notin ended' \cup active'
      BY <1>u, <2>2, <3>1 DEF TaskOf
    <3> QED
      BY <1>u, <2>1, <2>2, <3>2, TaskStays DEF GoesIdle, Moves
  <2> QED
    BY <1>a, <1>i, <2>1, <2>3 DEF TaskInv
<1>6. ASSUME NEW t \in Threads, NEW s \in Sensors, Check(t, s) PROVE TaskInv'
  <2>1. UNCHANGED <<covers, ended, active>>
    BY <1>6 DEF Check
  <2>2. GoesIdle(t) \/ Moves(t, "open", 0, s, 0, 0, {})
    BY <1>6, ThreadMoves
  <2>3. TaskOf(t)'
    BY <1>a, <1>i, <2>2 DEF Moves, TaskOf, Making, Ending
  <2> QED
    BY <1>a, <1>q, <2>1, <2>2, <2>3 DEF GoesIdle, Moves
<1>7. ASSUME NEW t \in Threads, OpenDevice(t) PROVE TaskInv'
  <2>1. GoesIdle(t) /\ UNCHANGED <<covers, ended, active>>
    BY <1>7, ThreadMoves DEF OpenDevice
  <2> QED
    BY <1>a, <1>i, <1>q, <2>1 DEF GoesIdle, Moves
<1>8. ASSUME NEW t \in Threads, NEW g \in GrantIds, NEW d \in DOMAIN device, RegisterOpenDevice(t, g, d)
      PROVE  TaskInv'
  BY <1>8, <1>p DEF RegisterOpenDevice
<1>9. ASSUME NEW a \in Actors, NEW g \in GrantIds, EndBegin(a, g) PROVE TaskInv'
  <2>1. Moves(a, "close", g, NoSensor, 0, 0, covers[g])
    BY <1>9, EndMoves
  <2>2. ended' = ended \cup {g} /\ UNCHANGED <<covers, active>>
    BY <1>9 DEF EndBegin
  <2>3. TaskOf(a)'
    BY <2>1, <2>2 DEF Moves, TaskOf, Making, Ending
  <2>4. ASSUME NEW b \in Actors, Making(b) PROVE task[b].grant # g
    <3>1. CASE HandedOut(g)
      BY <1>u, <2>4, <3>1 DEF HandedOut, TaskOf, Making
    <3>2. CASE g \in toEnd
      BY <1>t, <1>u, <2>4, <3>2 DEF OwnerInv, TaskOf, Making
    <3> QED
      BY <1>9, <3>1, <3>2 DEF EndBegin, MayEnd
  <2>5. \A b \in Actors : b # a => TaskOf(b)'
    <3> SUFFICES ASSUME NEW b \in Actors, b # a PROVE TaskOf(b)'
      OBVIOUS
    <3>1. Making(b) => task[b].grant \notin ended' \cup active'
      BY <1>u, <2>2, <2>4 DEF TaskOf
    <3> QED
      BY <1>u, <2>1, <2>2, <3>1, TaskStays DEF Moves
  <2> QED
    BY <2>3, <2>5 DEF TaskInv
<1>10. ASSUME NEW a \in Actors, NEW g \in GrantIds, EndAgain(a, g) PROVE TaskInv'
  BY <1>10, <1>p DEF EndAgain
<1>11. ASSUME NEW a \in Actors, NEW s \in Sensors, CloseDevice(a, s) \/ CloseRaises(a, s) PROVE TaskInv'
  <2>1. Moves(a, "close", task[a].grant, s, task[a].set, task[a].index + 1, task[a].rest)
    BY <1>11, EndMoves
  <2>2. task[a].step = "close" /\ s \in task[a].rest /\ UNCHANGED <<covers, ended, active>>
    BY <1>11 DEF CloseDevice, CloseRaises, Closing, At
  <2>3. TaskOf(a)'
    BY <1>u, <2>1, <2>2 DEF Moves, TaskOf, Making, Ending
  <2> QED
    BY <1>q, <2>1, <2>2, <2>3 DEF Moves
<1>12. ASSUME NEW a \in Actors, NEW s \in Sensors, CloseListDone(a, s) PROVE TaskInv'
  <2>1. PICK rest : /\ rest = task[a].rest \ {s}
                    /\ Moves(a, IF rest = {} THEN "get" ELSE "close", task[a].grant, NoSensor,
                             task[a].set, 0, IF rest = {} THEN covers[task[a].grant] ELSE rest)
    BY <1>12, EndMoves
  <2>2. task[a].step = "close" /\ UNCHANGED <<covers, ended, active>>
    BY <1>12 DEF CloseListDone, Closing, At
  <2>3. TaskOf(a)'
    BY <1>u, <2>1, <2>2 DEF Moves, TaskOf, Making, Ending
  <2> QED
    BY <1>q, <2>1, <2>2, <2>3 DEF Moves
<1>13. ASSUME NEW a \in Actors, NEW s \in Sensors, AfterSensor(a, s),
              task[a].step \in {"get", "prune"}, UNCHANGED <<covers, ended, active>>
       PROVE  TaskInv'
  <2>1. PICK rest : /\ rest = task[a].rest \ {s}
                    /\ Moves(a, IF rest = {} THEN "forget" ELSE "get",
                             task[a].grant, NoSensor, 0, task[a].index, rest)
    BY <1>13, EndMoves
  <2>2. TaskOf(a)'
    BY <1>13, <1>u, <2>1 DEF Moves, TaskOf, Making, Ending
  <2> QED
    BY <1>13, <1>q, <2>1, <2>2 DEF Moves
<1>14. ASSUME NEW a \in Actors, NEW s \in Sensors, GetSet(a, s) PROVE TaskInv'
  <2>1. task[a].step = "get" /\ s \in task[a].rest /\ UNCHANGED <<covers, ended, active>>
    BY <1>14 DEF GetSet, At
  <2>2. CASE AfterSensor(a, s)
    BY <1>13, <2>1, <2>2
  <2>3. CASE slot[s] # 0 /\ Moves(a, "discard", task[a].grant, s, slot[s], task[a].index, task[a].rest)
    <3>1. TaskOf(a)'
      BY <1>u, <2>1, <2>3 DEF Moves, TaskOf, Making, Ending
    <3> QED
      BY <1>q, <2>1, <2>3, <3>1 DEF Moves
  <2> QED
    BY <1>14, <2>2, <2>3, EndMoves
<1>15. ASSUME NEW a \in Actors, Discard(a) PROVE TaskInv'
  <2>1. Moves(a, "prune", task[a].grant, task[a].sensor, task[a].set, task[a].index, task[a].rest)
    BY <1>15, EndMoves
  <2>2. task[a].step = "discard" /\ UNCHANGED <<covers, ended, active>>
    BY <1>15 DEF Discard, At
  <2>3. TaskOf(a)'
    BY <1>u, <2>1, <2>2 DEF Moves, TaskOf, Making, Ending
  <2> QED
    BY <1>q, <2>1, <2>2, <2>3 DEF Moves
<1>16. ASSUME NEW a \in Actors, Prune(a) \/ PruneRaises(a) PROVE TaskInv'
  <2>1. task[a].step = "prune" /\ UNCHANGED <<covers, ended, active>>
    BY <1>16 DEF Prune, PruneRaises, At
  <2>2. task[a].sensor \in Sensors
    BY <1>u, <2>1 DEF TaskOf, TaskSet
  <2>3. AfterSensor(a, task[a].sensor) \/ GoesIdle(a)
    BY <1>16, EndMoves DEF Prune
  <2>4. GoesIdle(a) => TaskInv'
    BY <1>i, <1>q, <2>1 DEF GoesIdle, Moves
  <2> QED
    BY <1>13, <2>1, <2>2, <2>3, <2>4
<1>17. ASSUME NEW a \in Actors, Forget(a) PROVE TaskInv'
  <2>1. GoesIdle(a) /\ active' = active \ {task[a].grant} /\ UNCHANGED <<covers, ended>>
    BY <1>17, EndMoves DEF Forget
  <2>2. \A b \in Actors : b # a => TaskOf(b)'
    <3> SUFFICES ASSUME NEW b \in Actors, b # a PROVE TaskOf(b)'
      OBVIOUS
    <3>1. Making(b) => task[b].grant \notin ended' \cup active'
      BY <1>u, <2>1 DEF TaskOf
    <3> QED
      BY <1>u, <2>1, <3>1, TaskStays DEF GoesIdle, Moves
  <2> QED
    BY <1>i, <2>1, <2>2 DEF TaskInv
<1>18. ASSUME ExitBegins PROVE TaskInv'
  BY <1>18, <1>p DEF ExitBegins
<1> QED
  BY <1>1, <1>2, <1>3, <1>4, <1>5, <1>6, <1>7, <1>8, <1>9, <1>10, <1>11, <1>12, <1>14,
     <1>15, <1>16, <1>17, <1>18 DEF Next, End, GrantRefused, RegisterRefused

(* A grant that an ending reaches is nobody else's. *)
LEMMA EndsAlone ==
  ASSUME ConsentInv, NEW a \in Actors, NEW g \in GrantIds, EndBegin(a, g)
  PROVE  g \in 1..made /\ \A b \in Actors : task[b].grant # g
<1>1. StoreOK /\ TaskOK /\ RestOK /\ TaskInv /\ OwnerInv /\ made \in Nat
  BY TypeParts DEF ConsentInv, StoreOK
<1>2. g \in 1..made
  BY <1>1 DEF EndBegin, MayEnd, HandedOut, RestOK, GrantIds
<1>3. ASSUME NEW b \in Actors, task[b].grant = g PROVE FALSE
  <2>1. Making(b)
    BY <1>1, <1>2, <1>3 DEF EndBegin, TaskInv, TaskOf
  <2>2. b \in Threads /\ task[b].step # "idle"
    BY <1>1, <2>1 DEF TaskInv, TaskOf, Making
  <2>3. exiting /\ g \in toEnd
    BY <1>1, <1>3, <2>1, <2>2 DEF EndBegin, MayEnd, HandedOut, Making, OwnerInv
  <2> QED
    BY <1>1, <2>2, <2>3 DEF OwnerInv
<1> QED
  BY <1>2, <1>3

LEMMA OwnerInvStep == ConsentInv /\ [Next]_vars => OwnerInv'
<1> SUFFICES ASSUME ConsentInv, [Next]_vars PROVE OwnerInv'
  OBVIOUS
<1> USE DEF store, life, handles, history
<1>t. StoreOK /\ TaskOK /\ HandlesOK /\ RestOK /\ TaskInv /\ OwnerInv
  BY TypeParts DEF ConsentInv
<1>u. \A a \in Actors : task[a] \in TaskSet(made) /\ TaskOf(a) /\ task[a].grant \in 0..made
  BY <1>t DEF TaskOK, TaskInv, TaskSet
<1>m. made \in Nat /\ MaxGrants \in Nat /\ GrantIds = 1..MaxGrants /\ 1..made \subseteq GrantIds
  BY <1>t, BoundsAssumption DEF StoreOK, GrantIds
<1>a. Threads \subseteq Actors /\ "exit" \in Actors /\ "exit" \notin Threads
  BY ExitAssumption DEF Actors
<1>s. \A a, b \in Actors : task[a].grant # 0 /\ task[a].grant = task[b].grant => a = b
  BY <1>t DEF OwnerInv
<1>1. CASE UNCHANGED vars
  BY <1>1, <1>t DEF vars, OwnerInv
(* The steps of a task that keeps its grant, or lets go of one that is     *)
(* over or in _active_grants.                                              *)
<1>2. ASSUME NEW a \in Actors, UNCHANGED <<made, covers, exiting, toEnd>>,
             \A b \in Actors : b # a => task'[b] = task[b],
             a \in Threads => ~exiting,
             ended \subseteq ended',
             \A g \in 1..made : g \in active /\ g \notin ended => g \in active',
             \/ task'[a].grant = task[a].grant
             \/ task'[a].grant = 0 /\ (task[a].grant \in ended \cup active' \/ task[a].grant = 0)
      PROVE  OwnerInv'
  <2>1. \A b, c \in Actors : task'[b].grant # 0 /\ task'[b].grant = task'[c].grant => b = c
    BY <1>2, <1>s
  <2>2. ASSUME NEW g \in 1..made, g \notin ended'
        PROVE  g \in active' \/ \E b \in Actors : task'[b].grant = g
    <3>1. g \notin ended /\ g # 0
      BY <1>2, <2>2, <1>m
    <3>2. CASE g \in active
      BY <1>2, <3>1, <3>2
    <3>3. ASSUME NEW b \in Actors, task[b].grant = g
          PROVE  g \in active' \/ \E c \in Actors : task'[c].grant = g
      BY <1>2, <3>1, <3>3
    <3> QED
      BY <1>t, <3>1, <3>2, <3>3 DEF OwnerInv
  <2>3. exiting' => \A t \in Threads : task'[t].step = "idle"
    BY <1>2, <1>t, <1>a DEF OwnerInv
  <2> QED
    BY <1>2, <1>t, <2>1, <2>2, <2>3 DEF OwnerInv
<1>3. ASSUME NEW t \in Threads, NEW q \in Requests, GrantBegin(t, q) PROVE OwnerInv'
  <2>1. Moves(t, "setdefault", made + 1, NoSensor, 0, 0, q)
    BY <1>3, ThreadMoves
  <2>2. /\ made' = made + 1 /\ covers' = [covers EXCEPT ![made + 1] = q] /\ ~exiting
        /\ UNCHANGED <<ended, active, exiting, toEnd>>
    BY <1>3 DEF GrantBegin, InUse
  <2>3. \A b \in Actors : b # t => task'[b].grant # made + 1
    BY <1>m, <1>u, <2>1 DEF Moves
  <2>4. \A b, c \in Actors : task'[b].grant # 0 /\ task'[b].grant = task'[c].grant => b = c
    BY <1>s, <2>1, <2>3 DEF Moves
  <2>5. \A g \in GrantIds : g > made' => covers'[g] = {}
    <3> SUFFICES ASSUME NEW g \in GrantIds, g > made + 1 PROVE covers'[g] = {}
      BY <2>2
    <3>1. g > made /\ g # made + 1
      BY <1>m
    <3> QED
      BY <1>t, <2>2, <3>1 DEF OwnerInv, StoreOK
  <2>6. ASSUME NEW g \in 1..made', g \notin ended'
        PROVE  g \in active' \/ \E b \in Actors : task'[b].grant = g
    <3>1. CASE g = made + 1
      BY <1>a, <2>1, <3>1 DEF Moves
    <3>2. CASE g # made + 1
      <4>1. g \in 1..made /\ task[t].grant = 0
        <5>1. g \in 1..made
          BY <1>m, <2>2, <3>2
        <5> QED
          BY <1>3, <1>a, <1>u, <5>1 DEF GrantBegin, InUse, At, TaskOf, Making, Ending
      <4>2. g # 0 /\ (g \in active \/ \E b \in Actors : task[b].grant = g)
        BY <1>t, <2>2, <2>6, <4>1 DEF OwnerInv
      <4> QED
        BY <2>1, <2>2, <4>1, <4>2 DEF Moves
    <3> QED
      BY <3>1, <3>2
  <2> QED
    BY <1>t, <2>2, <2>4, <2>5, <2>6 DEF OwnerInv
<1>4. ASSUME NEW t \in Threads, task[t].step # "idle" PROVE ~exiting
  BY <1>4, <1>t DEF OwnerInv
<1>5. ASSUME NEW t \in Threads, NEW s \in Sensors, SetDefault(t, s) PROVE OwnerInv'
  <2>1. Moves(t, "add", task[t].grant, s, slot'[s], task[t].index, task[t].rest) /\ ~exiting
    BY <1>5, <1>4, ThreadMoves DEF SetDefault, At
  <2> QED
    BY <1>5, <1>2, <1>a, <2>1 DEF SetDefault, Moves
<1>6. ASSUME NEW t \in Threads, Add(t) PROVE OwnerInv'
  <2>1. PICK rest : Moves(t, IF rest = {} THEN "activate" ELSE "setdefault",
                          task[t].grant, NoSensor, 0, task[t].index, rest)
    BY <1>6, ThreadMoves
  <2>2. ~exiting /\ UNCHANGED <<made, covers, exiting, toEnd, ended, active>>
    BY <1>6, <1>4 DEF Add, At
  <2> QED
    BY <1>2, <1>a, <2>1, <2>2 DEF Moves
<1>7. ASSUME NEW t \in Threads, Activate(t) PROVE OwnerInv'
  <2>1. GoesIdle(t) /\ ~exiting
    BY <1>7, <1>4, ThreadMoves DEF Activate, At
  <2>2. active' = active \cup {task[t].grant} /\ UNCHANGED <<made, covers, exiting, toEnd, ended>>
    BY <1>7 DEF Activate
  <2> QED
    BY <1>2, <1>a, <2>1, <2>2 DEF GoesIdle, Moves
<1>8. ASSUME NEW t \in Threads, NEW s \in Sensors, Check(t, s) PROVE OwnerInv'
  <2>1. GoesIdle(t) \/ Moves(t, "open", 0, s, 0, 0, {})
    BY <1>8, ThreadMoves
  <2>2. ~exiting /\ task[t].grant = 0 /\ UNCHANGED <<made, covers, exiting, toEnd, ended, active>>
    BY <1>8, <1>a, <1>u DEF Check, InUse, At, TaskOf, Making, Ending
  <2> QED
    BY <1>2, <1>a, <2>1, <2>2 DEF GoesIdle, Moves
<1>9. ASSUME NEW t \in Threads, OpenDevice(t) PROVE OwnerInv'
  <2>1. GoesIdle(t)
    BY <1>9, ThreadMoves
  <2>2. ~exiting /\ task[t].grant = 0 /\ UNCHANGED <<made, covers, exiting, toEnd, ended, active>>
    BY <1>9, <1>a, <1>u, <1>4 DEF OpenDevice, At, TaskOf, Making, Ending
  <2> QED
    BY <1>2, <1>a, <2>1, <2>2 DEF GoesIdle, Moves
<1>10. ASSUME NEW t \in Threads, NEW g \in GrantIds, NEW d \in DOMAIN device, RegisterOpenDevice(t, g, d)
       PROVE  OwnerInv'
  BY <1>10, <1>t DEF RegisterOpenDevice, OwnerInv
<1>11. ASSUME NEW a \in Actors, NEW g \in GrantIds, EndBegin(a, g) PROVE OwnerInv'
  <2>1. Moves(a, "close", g, NoSensor, 0, 0, covers[g])
    BY <1>11, EndMoves
  <2>2. ended' = ended \cup {g} /\ UNCHANGED <<made, covers, active, exiting, toEnd>>
    BY <1>11 DEF EndBegin
  <2>3. g \in 1..made /\ \A b \in Actors : task[b].grant # g
    BY <1>11, EndsAlone
  <2>4. task[a].grant = 0
    <3>1. task[a].step = "idle"
      BY <1>11 DEF EndBegin, MayEnd, InUse, At
    <3> QED
      BY <1>u, <3>1 DEF TaskOf, Making, Ending
  <2>5. \A b, c \in Actors : task'[b].grant # 0 /\ task'[b].grant = task'[c].grant => b = c
    BY <1>s, <2>1, <2>3 DEF Moves
  <2>6. ASSUME NEW h \in 1..made, h \notin ended'
        PROVE  h \in active' \/ \E b \in Actors : task'[b].grant = h
    <3>1. h \notin ended /\ h # 0 /\ (h \in active \/ \E b \in Actors : task[b].grant = h)
      BY <1>t, <2>2, <2>6 DEF OwnerInv
    <3> QED
      BY <2>1, <2>2, <2>4, <3>1 DEF Moves
  <2>7. exiting => a \notin Threads
    BY <1>11, <1>a DEF EndBegin, MayEnd, InUse
  <2>8. exiting' => \A t \in Threads : task'[t].step = "idle"
    BY <1>t, <1>a, <2>1, <2>2, <2>7 DEF OwnerInv, Moves
  <2> QED
    BY <1>t, <2>2, <2>5, <2>6, <2>8 DEF OwnerInv
<1>12. ASSUME NEW a \in Actors, NEW g \in GrantIds, EndAgain(a, g) PROVE OwnerInv'
  BY <1>12, <1>t DEF EndAgain, OwnerInv
<1>13. ASSUME NEW a \in Actors, NEW s \in Sensors,
              CloseDevice(a, s) \/ CloseRaises(a, s) \/ CloseListDone(a, s) PROVE OwnerInv'
  <2>1. /\ task[a].step = "close" /\ UNCHANGED <<made, covers, exiting, toEnd, ended, active>>
        /\ task'[a].grant = task[a].grant /\ \A b \in Actors : b # a => task'[b] = task[b]
    BY <1>13, EndMoves DEF CloseDevice, CloseRaises, CloseListDone, Closing, At, Moves
  <2>2. a \in Threads => ~exiting
    BY <1>4, <2>1
  <2> QED
    BY <1>2, <2>1, <2>2
<1>14. ASSUME NEW a \in Actors, NEW s \in Sensors, GetSet(a, s) PROVE OwnerInv'
  <2>1. /\ task[a].step = "get" /\ UNCHANGED <<made, covers, exiting, toEnd, ended, active>>
        /\ task'[a].grant = task[a].grant /\ \A b \in Actors : b # a => task'[b] = task[b]
    BY <1>14, EndMoves DEF GetSet, At, Moves
  <2>2. a \in Threads => ~exiting
    BY <1>4, <2>1
  <2> QED
    BY <1>2, <2>1, <2>2
<1>15. ASSUME NEW a \in Actors, Discard(a) PROVE OwnerInv'
  <2>1. /\ task[a].step = "discard" /\ UNCHANGED <<made, covers, exiting, toEnd, ended, active>>
        /\ task'[a].grant = task[a].grant /\ \A b \in Actors : b # a => task'[b] = task[b]
    BY <1>15, EndMoves DEF Discard, At, Moves
  <2>2. a \in Threads => ~exiting
    BY <1>4, <2>1
  <2> QED
    BY <1>2, <2>1, <2>2
<1>16. ASSUME NEW a \in Actors, Prune(a) \/ PruneRaises(a) PROVE OwnerInv'
  <2>1. task[a].step = "prune" /\ UNCHANGED <<made, covers, exiting, toEnd, ended, active>>
    BY <1>16 DEF Prune, PruneRaises, At
  <2>2. (a \in Threads => ~exiting) /\ task[a].grant \in ended /\ task[a].sensor \in Sensors
    BY <1>4, <1>u, <2>1 DEF TaskOf, Ending, TaskSet
  <2>3. CASE Prune(a)
    <3>1. AfterSensor(a, task[a].sensor)
      BY <2>3 DEF Prune
    <3>2. task'[a].grant = task[a].grant /\ \A b \in Actors : b # a => task'[b] = task[b]
      BY <2>2, <3>1, EndMoves DEF Moves
    <3> QED
      BY <1>2, <2>1, <2>2, <3>2
  <2>4. CASE PruneRaises(a)
    <3>1. GoesIdle(a)
      BY <2>4, EndMoves
    <3> QED
      BY <1>2, <2>1, <2>2, <3>1 DEF GoesIdle, Moves
  <2> QED
    BY <1>16, <2>3, <2>4
<1>17. ASSUME NEW a \in Actors, Forget(a) PROVE OwnerInv'
  <2>1. GoesIdle(a) /\ active' = active \ {task[a].grant} /\ UNCHANGED <<made, covers, exiting, ended>>
    BY <1>17, EndMoves DEF Forget
  <2>2. task[a].grant \in ended /\ task[a].grant # 0 /\ task[a].step # "idle"
    BY <1>17, <1>t, <1>u DEF Forget, At, TaskOf, Ending, StoreOK
  <2>3. toEnd' \subseteq toEnd /\ toEnd \ {task[a].grant} \subseteq toEnd'
    BY <1>17 DEF Forget
  <2>4. \A b, c \in Actors : task'[b].grant # 0 /\ task'[b].grant = task'[c].grant => b = c
    BY <1>s, <2>1 DEF GoesIdle, Moves
  <2>5. ASSUME NEW g \in 1..made, g \notin ended
        PROVE  g \in active' \/ \E b \in Actors : task'[b].grant = g
    <3>1. g # task[a].grant /\ (g \in active \/ \E b \in Actors : task[b].grant = g)
      BY <1>t, <2>2, <2>5 DEF OwnerInv
    <3> QED
      BY <2>1, <3>1 DEF GoesIdle, Moves
  <2>6. exiting => \A t \in Threads : task'[t].step = "idle"
    BY <1>t, <1>a, <2>1 DEF OwnerInv, GoesIdle, Moves
  <2> QED
    BY <1>t, <2>1, <2>2, <2>3, <2>4, <2>5, <2>6 DEF OwnerInv
<1>18. ASSUME ExitBegins PROVE OwnerInv'
  <2>1. /\ \A t \in Threads : task[t].step = "idle"
        /\ exiting' = TRUE /\ toEnd' = active
        /\ UNCHANGED <<made, covers, ended, active, task>>
    BY <1>18 DEF ExitBegins, At
  <2>2. ASSUME NEW g \in 1..made, g \notin ended PROVE g \in active
    <3>1. ASSUME NEW b \in Actors, task[b].grant = g PROVE FALSE
      <4>1. Making(b) /\ b \in Threads
        BY <1>u, <1>m, <2>2, <3>1 DEF TaskOf
      <4> QED
        BY <2>1, <4>1 DEF Making
    <3> QED
      BY <1>t, <2>2, <3>1 DEF OwnerInv
  <2> QED
    BY <1>t, <2>1, <2>2 DEF OwnerInv
<1> QED
  BY <1>1, <1>3, <1>5, <1>6, <1>7, <1>8, <1>9, <1>10, <1>11, <1>12, <1>13, <1>14, <1>15,
     <1>16, <1>17, <1>18 DEF Next, End, GrantRefused, RegisterRefused

LEMMA HeapInvStep == ConsentInv /\ [Next]_vars => HeapInv'
<1> SUFFICES ASSUME ConsentInv, [Next]_vars PROVE HeapInv'
  OBVIOUS
<1> USE DEF store, life, handles, history
<1>t. StoreOK /\ TaskOK /\ TaskInv /\ OwnerInv /\ HeapInv /\ made \in Nat
  BY TypeParts DEF ConsentInv, StoreOK
<1>a. Threads \subseteq Actors
  BY DEF Actors
<1>h. \A s \in Sensors : heap[s] \in Seq(SUBSET (1..made))
  BY <1>t DEF StoreOK
<1>1. CASE UNCHANGED <<heap, covers>>
  BY <1>1, <1>t DEF HeapInv
<1>2. ASSUME NEW t \in Threads, NEW q \in Requests, GrantBegin(t, q) PROVE HeapInv'
  <2>1. heap' = heap /\ covers' = [covers EXCEPT ![made + 1] = q]
    BY <1>2 DEF GrantBegin
  <2>2. ASSUME NEW s \in Sensors, NEW k \in DOMAIN heap[s], NEW g \in heap[s][k] PROVE s \in covers'[g]
    <3>1. g \in 1..made
      BY <1>h
    <3>2. g \in GrantIds /\ g # made + 1
      BY <1>t, <3>1, BoundsAssumption DEF StoreOK, GrantIds
    <3> QED
      BY <1>t, <2>1, <3>2 DEF HeapInv, StoreOK
  <2> QED
    BY <2>1, <2>2 DEF HeapInv
<1>3. ASSUME NEW t \in Threads, NEW s \in Sensors, SetDefault(t, s) PROVE HeapInv'
  <2>1. CASE slot[s] # 0
    BY <1>1, <1>3, <2>1 DEF SetDefault
  <2>2. CASE slot[s] = 0
    <3>1. heap' = [heap EXCEPT ![s] = Append(heap[s], {})] /\ covers' = covers
      BY <1>3, <2>2 DEF SetDefault
    <3>2. heap'[s] = Append(heap[s], {}) /\ \A r \in Sensors : r # s => heap'[r] = heap[r]
      BY <1>t, <3>1 DEF StoreOK
    <3>3. \A k \in DOMAIN Append(heap[s], {}) :
            Append(heap[s], {})[k] = {} \/ (k \in DOMAIN heap[s] /\ Append(heap[s], {})[k] = heap[s][k])
      BY <1>h
    <3> QED
      BY <1>t, <3>1, <3>2, <3>3 DEF HeapInv
  <2> QED
    BY <2>1, <2>2
(* A set that changes is one the task holds. *)
<1>4. ASSUME NEW a \in Actors, task[a].step \in {"add", "discard"},
             NEW new, new \subseteq heap[task[a].sensor][task[a].set] \cup {task[a].grant},
             heap' = [heap EXCEPT ![task[a].sensor][task[a].set] = new], covers' = covers
      PROVE  HeapInv'
  <2>1. /\ task[a].sensor \in task[a].rest /\ task[a].set # 0 /\ task[a].grant # 0
        /\ task[a].rest \subseteq covers[task[a].grant] /\ task[a].sensor \in Sensors
    BY <1>4, <1>t DEF TaskInv, TaskOf, Making, Ending, TaskOK, TaskSet, StoreOK
  <2>2. task[a].set \in DOMAIN heap[task[a].sensor]
    BY <1>t, <1>h, <2>1 DEF TaskOK
  <2>3. \A g \in new : task[a].sensor \in covers[g]
    BY <1>4, <1>t, <2>1, <2>2 DEF HeapInv
  <2>4. /\ heap'[task[a].sensor] = [heap[task[a].sensor] EXCEPT ![task[a].set] = new]
        /\ \A r \in Sensors : r # task[a].sensor => heap'[r] = heap[r]
    BY <1>4, <1>t, <2>1 DEF StoreOK
  <2>5. /\ DOMAIN heap'[task[a].sensor] = DOMAIN heap[task[a].sensor]
        /\ \A k \in DOMAIN heap[task[a].sensor] :
             heap'[task[a].sensor][k] = IF k = task[a].set THEN new ELSE heap[task[a].sensor][k]
    BY <2>2, <2>4
  <2>6. ASSUME NEW r \in Sensors, NEW k \in DOMAIN heap'[r], NEW g \in heap'[r][k]
        PROVE  r \in covers[g]
    <3>1. CASE r = task[a].sensor /\ k = task[a].set
      BY <2>3, <2>5, <2>6, <3>1
    <3>2. CASE ~(r = task[a].sensor /\ k = task[a].set)
      <4>1. k \in DOMAIN heap[r] /\ heap'[r][k] = heap[r][k]
        BY <2>4, <2>5, <2>6, <3>2
      <4> QED
        BY <1>t, <2>6, <4>1 DEF HeapInv
    <3> QED
      BY <3>1, <3>2
  <2> QED
    BY <1>4, <2>6 DEF HeapInv
<1>5. ASSUME NEW t \in Threads, Add(t) PROVE HeapInv'
  <2>1. /\ heap' = [heap EXCEPT ![task[t].sensor][task[t].set] =
                      heap[task[t].sensor][task[t].set] \cup {task[t].grant}]
        /\ covers' = covers /\ task[t].step = "add"
    BY <1>5 DEF Add, At
  <2> QED
    BY <1>4, <1>a, <2>1
<1>6. ASSUME NEW a \in Actors, Discard(a) PROVE HeapInv'
  <2>1. /\ heap' = [heap EXCEPT ![task[a].sensor][task[a].set] =
                      heap[task[a].sensor][task[a].set] \ {task[a].grant}]
        /\ covers' = covers /\ task[a].step = "discard"
    BY <1>6 DEF Discard, At
  <2> DEFINE new == heap[task[a].sensor][task[a].set] \ {task[a].grant}
  <2>2. new \subseteq heap[task[a].sensor][task[a].set] \cup {task[a].grant}
    OBVIOUS
  <2>3. heap' = [heap EXCEPT ![task[a].sensor][task[a].set] = new]
    BY <2>1
  <2> HIDE DEF new
  <2> QED
    BY <1>4, <2>1, <2>2, <2>3
<1>7. ASSUME NEW t \in Threads,
             \/ Activate(t) \/ OpenDevice(t) \/ \E s \in Sensors : Check(t, s)
             \/ \E g \in GrantIds, d \in DOMAIN device : RegisterOpenDevice(t, g, d)
      PROVE  HeapInv'
  BY <1>7, <1>1 DEF Activate, OpenDevice, Check, RegisterOpenDevice
<1>8. ASSUME NEW a \in Actors,
             \/ \E g \in GrantIds : EndBegin(a, g) \/ EndAgain(a, g)
             \/ \E s \in Sensors : CloseDevice(a, s) \/ CloseRaises(a, s)
                                   \/ CloseListDone(a, s) \/ GetSet(a, s)
             \/ Prune(a) \/ PruneRaises(a) \/ Forget(a)
      PROVE  HeapInv'
  BY <1>8, <1>1 DEF EndBegin, EndAgain, CloseDevice, CloseRaises, CloseListDone, GetSet,
     Prune, PruneRaises, Forget
<1>9. CASE UNCHANGED vars \/ ExitBegins
  BY <1>9, <1>1 DEF vars, ExitBegins
<1> QED
  BY <1>2, <1>3, <1>5, <1>6, <1>7, <1>8, <1>9 DEF Next, End, GrantRefused, RegisterRefused

LEMMA ConsentInvHolds == Spec => []ConsentInv
<1>1. Init => ConsentInv
  BY ConsentInit
<1>2. ConsentInv /\ [Next]_vars => ConsentInv'
  BY TypesStep, TaskInvStep, OwnerInvStep, HeapInvStep DEF ConsentInv
<1> QED
  BY <1>1, <1>2, PTL DEF Spec

(* The type invariant. *)
THEOREM ConsentTypes == Spec => []TypeOK
<1>1. ConsentInv => TypeOK
  BY DEF ConsentInv
<1> QED
  BY <1>1, ConsentInvHolds, PTL

(* When the atexit hook is through, every grant has ended: a grant that is *)
(* not over when the process ends is in _active_grants, which the hook     *)
(* goes through.                                                           *)
THEOREM EveryGrantEnds == Spec => []ExitEndsAll
<1>1. ConsentInv => ExitEndsAll
  BY DEF ConsentInv, OwnerInv, ExitEndsAll, Exited
<1> QED
  BY <1>1, ConsentInvHolds, PTL

-----------------------------------------------------------------------------
(* The store *)

(* A step of a is by itself in the bookkeeping of every sensor it enters,  *)
(* and of every sensor it changes the slot of, or the sensor clashed.      *)
LEMMA StoreKeeps ==
  ASSUME StoreInv, clashed \subseteq clashed', NEW a \in Actors,
         \A b \in Actors : b # a => task'[b] = task[b],
         \A r \in Sensors \ clashed' :
           /\ Inside(a, r)' => /\ task'[a].set = slot'[r]
                               /\ Inside(a, r) \/ \A b \in Actors : b # a => ~Inside(b, r)
           /\ slot'[r] = slot[r] \/ \A b \in Actors : b # a => ~Inside(b, r)
  PROVE  StoreInv'
<1> SUFFICES ASSUME NEW r \in Sensors \ clashed'
             PROVE  /\ \A b, c \in Actors : Inside(b, r)' /\ Inside(c, r)' => b = c
                    /\ \A b \in Actors : Inside(b, r)' => task'[b].set = slot'[r]
  BY DEF StoreInv, Inside
<1>1. r \in Sensors \ clashed
  OBVIOUS
<1>2. \A b \in Actors : b # a => (Inside(b, r)' <=> Inside(b, r))
  BY DEF Inside
<1>3. \A b \in Actors : Inside(b, r)' => task'[b].set = slot'[r]
  BY <1>1, <1>2 DEF StoreInv
<1>4. \A b, c \in Actors : Inside(b, r)' /\ Inside(c, r)' => b = c
  BY <1>1, <1>2 DEF StoreInv
<1> QED
  BY <1>3, <1>4

(* A task that touches s undisturbed is alone in there. *)
LEMMA TouchAlone ==
  ASSUME NEW a \in Actors, NEW s, Touch(a, s)
  PROVE  /\ clashed \subseteq clashed'
         /\ s \notin clashed' => \A b \in Actors : b # a => ~Inside(b, s)
BY DEF Touch, Inside

LEMMA StoreInvStep == ConsentInv /\ StoreInv /\ [Next]_vars => StoreInv'
<1> SUFFICES ASSUME ConsentInv, StoreInv, [Next]_vars PROVE StoreInv'
  OBVIOUS
<1> USE DEF store, life, handles, history
<1>t. StoreOK /\ TaskOK /\ TaskInv
  BY TypeParts DEF ConsentInv
<1>u. \A a \in Actors : task[a] \in TaskSet(made) /\ TaskOf(a)
  BY <1>t DEF TaskOK, TaskInv
<1>a. Threads \subseteq Actors
  BY DEF Actors
(* Steps that neither enter the bookkeeping nor change a slot. *)
<1>1. ASSUME NEW a \in Actors, \A b \in Actors : b # a => task'[b] = task[b],
             task'[a].step \notin {"add", "discard", "prune"}, slot' = slot, clashed \subseteq clashed'
      PROVE  StoreInv'
  <2>1. \A r \in Sensors : ~Inside(a, r)'
    BY <1>1 DEF Inside
  <2> QED
    BY <1>1, <2>1, StoreKeeps
<1>2. CASE UNCHANGED <<task, slot, clashed>>
  BY <1>2 DEF StoreInv, Inside
<1>3. ASSUME NEW t \in Threads, NEW q \in Requests, GrantBegin(t, q) PROVE StoreInv'
  <2>1. Moves(t, "setdefault", made + 1, NoSensor, 0, 0, q) /\ UNCHANGED <<slot, clashed>>
    BY <1>3, ThreadMoves DEF GrantBegin
  <2> QED
    BY <1>1, <1>a, <2>1 DEF Moves
<1>4. ASSUME NEW t \in Threads, NEW s \in Sensors, SetDefault(t, s) PROVE StoreInv'
  <2>1. Moves(t, "add", task[t].grant, s, slot'[s], task[t].index, task[t].rest)
    BY <1>4, ThreadMoves
  <2>2. clashed \subseteq clashed' /\ (s \notin clashed' => \A b \in Actors : b # t => ~Inside(b, s))
    BY <1>4, <1>a, TouchAlone DEF SetDefault
  <2>3. \A r \in Sensors : r # s => slot'[r] = slot[r]
    <3>1. slot' = slot \/ slot' = [slot EXCEPT ![s] = Len(heap'[s])]
      BY <1>4 DEF SetDefault
    <3> QED
      BY <1>t, <3>1 DEF StoreOK
  <2>4. \A r \in Sensors : Inside(t, r)' => r = s
    BY <2>1 DEF Inside, Moves
  <2> QED
    BY <1>a, <2>1, <2>2, <2>3, <2>4, StoreKeeps DEF Moves
<1>5. ASSUME NEW t \in Threads, Add(t) PROVE StoreInv'
  <2>1. PICK rest : Moves(t, IF rest = {} THEN "activate" ELSE "setdefault",
                          task[t].grant, NoSensor, 0, task[t].index, rest)
    BY <1>5, ThreadMoves
  <2>2. clashed \subseteq clashed' /\ slot' = slot
    BY <1>5, <1>a, TouchAlone DEF Add
  <2> QED
    BY <1>1, <1>a, <2>1, <2>2 DEF Moves
<1>6. ASSUME NEW t \in Threads, Activate(t) \/ OpenDevice(t) \/ \E s \in Sensors : Check(t, s)
      PROVE  StoreInv'
  <2>1. GoesIdle(t) \/ \E s \in Sensors : Moves(t, "open", 0, s, 0, 0, {})
    BY <1>6, ThreadMoves
  <2>2. UNCHANGED <<slot, clashed>>
    BY <1>6 DEF Activate, OpenDevice, Check
  <2> QED
    BY <1>1, <1>a, <2>1, <2>2 DEF GoesIdle, Moves
<1>7. ASSUME NEW a \in Actors, NEW g \in GrantIds, EndBegin(a, g) PROVE StoreInv'
  <2>1. Moves(a, "close", g, NoSensor, 0, 0, covers[g]) /\ UNCHANGED <<slot, clashed>>
    BY <1>7, EndMoves DEF EndBegin
  <2> QED
    BY <1>1, <2>1 DEF Moves
<1>8. ASSUME NEW a \in Actors, NEW s \in Sensors, CloseDevice(a, s) \/ CloseRaises(a, s) PROVE StoreInv'
  <2>1. /\ Moves(a, "close", task[a].grant, s, task[a].set, task[a].index + 1, task[a].rest)
        /\ UNCHANGED <<slot, clashed>>
    BY <1>8, EndMoves DEF CloseDevice, CloseRaises
  <2> QED
    BY <1>1, <2>1 DEF Moves
<1>9. ASSUME NEW a \in Actors, NEW s \in Sensors, CloseListDone(a, s) PROVE StoreInv'
  <2>1. PICK rest : Moves(a, IF rest = {} THEN "get" ELSE "close", task[a].grant, NoSensor,
                          task[a].set, 0, IF rest = {} THEN covers[task[a].grant] ELSE rest)
    BY <1>9, EndMoves
  <2>2. UNCHANGED <<slot, clashed>>
    BY <1>9 DEF CloseListDone
  <2> QED
    BY <1>1, <2>1, <2>2 DEF Moves
<1>10. ASSUME NEW a \in Actors, NEW s \in Sensors, GetSet(a, s) PROVE StoreInv'
  <2>1. clashed \subseteq clashed' /\ (s \notin clashed' => \A b \in Actors : b # a => ~Inside(b, s))
    BY <1>10, TouchAlone DEF GetSet
  <2>2. slot' = slot
    BY <1>10 DEF GetSet
  <2>3. CASE AfterSensor(a, s)
    <3>1. PICK rest : Moves(a, IF rest = {} THEN "forget" ELSE "get",
                            task[a].grant, NoSensor, 0, task[a].index, rest)
      BY <2>3, EndMoves
    <3> QED
      BY <1>1, <2>1, <2>2, <3>1 DEF Moves
  <2>4. CASE Moves(a, "discard", task[a].grant, s, slot[s], task[a].index, task[a].rest)
    <3>1. \A r \in Sensors : Inside(a, r)' => r = s
      BY <2>4 DEF Inside, Moves
    <3> QED
      BY <2>1, <2>2, <2>4, <3>1, StoreKeeps DEF Moves
  <2> QED
    BY <1>10, <2>3, <2>4, EndMoves
<1>11. ASSUME NEW a \in Actors, Discard(a) PROVE StoreInv'
  <2>1. /\ Moves(a, "prune", task[a].grant, task[a].sensor, task[a].set, task[a].index, task[a].rest)
        /\ task[a].step = "discard"
    BY <1>11, EndMoves DEF Discard, At
  <2>2. clashed \subseteq clashed' /\ slot' = slot
    BY <1>11, TouchAlone DEF Discard
  <2>3. \A r \in Sensors : Inside(a, r)' => Inside(a, r)
    BY <2>1 DEF Inside, Moves
  <2>4. \A r \in Sensors \ clashed' : Inside(a, r)' => task'[a].set = slot'[r]
    BY <2>1, <2>2, <2>3 DEF StoreInv, Moves
  <2> QED
    BY <2>1, <2>2, <2>3, <2>4, StoreKeeps DEF Moves
<1>12. ASSUME NEW a \in Actors, Prune(a) PROVE StoreInv'
  <2>1. task[a].step = "prune" /\ task[a].sensor \in Sensors
    BY <1>12, <1>u DEF Prune, At, TaskOf, TaskSet
  <2>2. /\ clashed \subseteq clashed'
        /\ task[a].sensor \notin clashed' => \A b \in Actors : b # a => ~Inside(b, task[a].sensor)
    BY <1>12, TouchAlone DEF Prune
  <2>3. AfterSensor(a, task[a].sensor)
    BY <1>12 DEF Prune
  <2>4. PICK rest : Moves(a, IF rest = {} THEN "forget" ELSE "get",
                          task[a].grant, NoSensor, 0, task[a].index, rest)
    BY <2>1, <2>3, EndMoves
  <2>5. \A r \in Sensors : ~Inside(a, r)'
    BY <2>4 DEF Inside, Moves
  <2>6. \A r \in Sensors : r # task[a].sensor => slot'[r] = slot[r]
    <3>1. slot' = slot \/ slot' = [slot EXCEPT ![task[a].sensor] = 0]
      BY <1>12 DEF Prune
    <3> QED
      BY <1>t, <3>1 DEF StoreOK
  <2> QED
    BY <2>2, <2>4, <2>5, <2>6, StoreKeeps DEF Moves
<1>13. ASSUME NEW a \in Actors, PruneRaises(a) \/ Forget(a) PROVE StoreInv'
  <2>1. GoesIdle(a) /\ slot' = slot
    BY <1>13, EndMoves DEF PruneRaises, Forget
  <2>2. clashed \subseteq clashed'
    BY <1>13, TouchAlone DEF PruneRaises, Forget
  <2> QED
    BY <1>1, <2>1, <2>2 DEF GoesIdle, Moves
<1>14. ASSUME \/ ExitBegins \/ UNCHANGED vars
              \/ \E a \in Actors, g \in GrantIds : EndAgain(a, g)
              \/ \E t \in Threads, g \in GrantIds, d \in DOMAIN device : RegisterOpenDevice(t, g, d)
       PROVE  StoreInv'
  BY <1>2, <1>14 DEF ExitBegins, vars, EndAgain, RegisterOpenDevice
<1> QED
  BY <1>3, <1>4, <1>5, <1>6, <1>7, <1>8, <1>9, <1>10, <1>11, <1>12, <1>13, <1>14
     DEF Next, End, GrantRefused, RegisterRefused

-----------------------------------------------------------------------------
(* What the store holds of a grant *)

(* g stays as it is when a step of a neither takes it up nor lets go of it *)
(* and leaves its ids where they are and the work on them the same.        *)
LEMMA MemberKeeps ==
  ASSUME NEW g, MemberOf(g), NEW a \in Actors, \A b \in Actors : b # a => task'[b] = task[b],
         clashed \subseteq clashed', covers'[g] = covers[g], g \in ended' <=> g \in ended,
         g \in active' => g \in active \/ g \notin ended,
         task'[a].grant = g <=> task[a].grant = g,
         \A s \in covers[g] \ clashed' :
           /\ g \in Stored(s)' <=> g \in Stored(s)
           /\ task[a].grant = g => /\ Owing(a, s)' <=> Owing(a, s)
                                   /\ Holding(a, s)' <=> Holding(a, s)
  PROVE  MemberOf(g)'
<1>1. \A b \in Actors : task'[b].grant = g <=> task[b].grant = g
  OBVIOUS
<1>2. \A s \in covers[g] \ clashed' : \A b \in Actors : task[b].grant = g =>
        (Owing(b, s)' <=> Owing(b, s)) /\ (Holding(b, s)' <=> Holding(b, s))
  <2> SUFFICES ASSUME NEW s \in covers[g] \ clashed', NEW b \in Actors, task[b].grant = g
               PROVE  (Owing(b, s)' <=> Owing(b, s)) /\ (Holding(b, s)' <=> Holding(b, s))
    OBVIOUS
  <2>1. CASE b = a
    BY <2>1
  <2>2. CASE b # a
    BY <2>2 DEF Owing, Holding, Making
  <2> QED
    BY <2>1, <2>2
<1>3. \A s \in covers[g] \ clashed' : Covered(g, s)' <=> Covered(g, s)
  BY <1>1, <1>2 DEF Covered
<1>4. Undisturbed(g)' => Undisturbed(g) /\ covers[g] \cap clashed' = {}
  BY DEF Undisturbed
<1> QED
  BY <1>1, <1>3, <1>4 DEF MemberOf

LEMMA MemberInvStep == ConsentInv /\ StoreInv /\ MemberInv /\ [Next]_vars => MemberInv'
<1> SUFFICES ASSUME ConsentInv, StoreInv, MemberInv, [Next]_vars PROVE MemberInv'
  OBVIOUS
<1> USE DEF store, life, handles, history
<1>t. StoreOK /\ TaskOK /\ TaskInv /\ OwnerInv /\ HeapInv /\ made \in Nat
  BY TypeParts DEF ConsentInv, StoreOK
<1>u. \A a \in Actors : task[a] \in TaskSet(made) /\ TaskOf(a) /\ task[a].grant \in 0..made
  BY <1>t DEF TaskOK, TaskInv, TaskSet
<1>a. Threads \subseteq Actors
  BY DEF Actors
<1>s. \A a, b \in Actors : task[a].grant # 0 /\ task[a].grant = task[b].grant => a = b
  BY <1>t DEF OwnerInv
<1>h. \A s \in Sensors : heap[s] \in Seq(SUBSET (1..made)) /\ slot[s] \in 0..Len(heap[s])
  BY <1>t DEF StoreOK
<1>c. \A g \in 1..made : g # 0 /\ g # made + 1 /\ g \in GrantIds /\ covers[g] \subseteq Sensors /\ MemberOf(g)
  BY <1>t, BoundsAssumption DEF StoreOK, GrantIds, MemberInv
<1>p. ASSUME UNCHANGED <<made, covers, slot, heap, ended, active, task, clashed>> PROVE MemberInv'
  BY <1>p, <1>t DEF MemberInv, MemberOf, Undisturbed, Stored, Covered, Owing, Holding, Making
(* A step that touches neither the store nor the work of its task on it.   *)
<1>q. ASSUME NEW a \in Actors, \A b \in Actors : b # a => task'[b] = task[b],
             UNCHANGED <<made, covers, slot, heap, ended, active, clashed>>,
             \A g \in 1..made : task'[a].grant = g <=> task[a].grant = g,
             task[a].grant # 0 => \A s \in covers[task[a].grant] :
               (Owing(a, s)' <=> Owing(a, s)) /\ (Holding(a, s)' <=> Holding(a, s))
      PROVE  MemberInv'
  <2>1. \A s : Stored(s)' = Stored(s)
    BY <1>q DEF Stored
  <2>2. ASSUME NEW g \in 1..made PROVE MemberOf(g)'
    <3>1. /\ MemberOf(g) /\ covers'[g] = covers[g] /\ clashed \subseteq clashed'
          /\ g \in ended' <=> g \in ended
          /\ g \in active' => g \in active \/ g \notin ended
          /\ task'[a].grant = g <=> task[a].grant = g
      BY <1>c, <1>q
    <3>2. \A s \in covers[g] \ clashed' :
            /\ g \in Stored(s)' <=> g \in Stored(s)
            /\ task[a].grant = g => /\ Owing(a, s)' <=> Owing(a, s)
                                    /\ Holding(a, s)' <=> Holding(a, s)
      <4> SUFFICES ASSUME NEW s \in covers[g]
                   PROVE  /\ g \in Stored(s)' <=> g \in Stored(s)
                          /\ task[a].grant = g => /\ Owing(a, s)' <=> Owing(a, s)
                                                  /\ Holding(a, s)' <=> Holding(a, s)
        OBVIOUS
      <4>1. Stored(s)' = Stored(s)
        BY <2>1
      <4>2. task[a].grant = g => (Owing(a, s)' <=> Owing(a, s)) /\ (Holding(a, s)' <=> Holding(a, s))
        BY <1>c, <1>q
      <4> QED
        BY <4>1, <4>2
    <3> QED
      BY <1>q, <3>1, <3>2, MemberKeeps
  <2> QED
    BY <1>q, <2>2 DEF MemberInv
(* The set that a task works on is the one _grants has.                    *)
<1>w. ASSUME NEW a \in Actors, task[a].step \in {"add", "discard", "prune"},
             Touch(a, task[a].sensor), task[a].sensor \notin clashed'
      PROVE  /\ task[a].set = slot[task[a].sensor] /\ slot[task[a].sensor] # 0
             /\ Stored(task[a].sensor) = heap[task[a].sensor][task[a].set]
             /\ task[a].set \in DOMAIN heap[task[a].sensor]
  <2>1. task[a].sensor \in Sensors \ clashed /\ task[a].set # 0
    BY <1>u, <1>w DEF Touch, TaskOf, TaskSet
  <2>2. task[a].set = slot[task[a].sensor]
    BY <1>w, <2>1 DEF StoreInv, Inside
  <2>3. task[a].set \in 1..Len(heap[task[a].sensor])
    BY <1>h, <2>1, <2>2
  <2> QED
    BY <1>h, <2>1, <2>2, <2>3 DEF Stored
<1>1. ASSUME NEW t \in Threads, NEW q \in Requests, GrantBegin(t, q) PROVE MemberInv'
  <2>1. Moves(t, "setdefault", made + 1, NoSensor, 0, 0, q) /\ task[t].grant = 0
    BY <1>1, <1>a, <1>u, ThreadMoves DEF GrantBegin, InUse, At, TaskOf, Making, Ending
  <2>2. /\ made' = made + 1 /\ made + 1 \in GrantIds /\ covers' = [covers EXCEPT ![made + 1] = q]
        /\ UNCHANGED <<slot, heap, ended, active, clashed>>
    BY <1>1, <1>t, BoundsAssumption DEF GrantBegin, GrantIds
  <2>3. \A s : Stored(s)' = Stored(s)
    BY <2>2 DEF Stored
  <2>4. \A g \in 1..made : MemberOf(g)'
    <3> SUFFICES ASSUME NEW g \in 1..made PROVE MemberOf(g)'
      OBVIOUS
    <3>1. g # 0 /\ g # made + 1 /\ MemberOf(g) /\ covers'[g] = covers[g]
      BY <1>c, <1>t, <2>2 DEF StoreOK
    <3> QED
      BY <1>a, <2>1, <2>2, <2>3, <3>1, MemberKeeps DEF Moves
  <2>5. ASSUME NEW n, n = made + 1 PROVE MemberOf(n)'
    <3>1. covers'[n] = q /\ q \subseteq Sensors
      BY <1>1, <1>t, <2>2, <2>5 DEF StoreOK, GrantBegin, Requests
    <3>2. \A s \in q : Owing(t, s)' /\ task'[t].grant = n
      BY <2>1, <2>5 DEF Owing, Making, Moves
    <3>3. \A s \in Sensors : Stored(s) \subseteq 1..made
      BY <1>h DEF Stored
    <3>4. n \notin 1..made /\ ended \subseteq 1..made
      BY <1>t, <2>5 DEF StoreOK
    <3>5. \A s \in q : n \notin Stored(s)' /\ ~Covered(n, s)'
      BY <1>a, <2>3, <3>1, <3>2, <3>3, <3>4 DEF Covered
    <3> QED
      BY <2>2, <3>1, <3>4, <3>5 DEF MemberOf
  <2>6. \A g \in 1..made' : g \in 1..made \/ g = made + 1
    BY <1>t, <2>2
  <2> QED
    BY <2>4, <2>5, <2>6 DEF MemberInv
<1>2. ASSUME NEW t \in Threads, NEW s \in Sensors, SetDefault(t, s) PROVE MemberInv'
  <2>1. /\ Moves(t, "add", task[t].grant, s, slot'[s], task[t].index, task[t].rest)
        /\ task[t].step = "setdefault"
    BY <1>2, ThreadMoves DEF SetDefault, At
  <2>2. UNCHANGED <<made, covers, ended, active>> /\ clashed \subseteq clashed'
    BY <1>2, <1>a, TouchAlone DEF SetDefault
  <2>3. \A r \in Sensors : Stored(r)' = Stored(r)
    <3>1. CASE slot[s] # 0
      BY <1>2, <3>1 DEF SetDefault, Stored
    <3>2. CASE slot[s] = 0
      <4>1. heap' = [heap EXCEPT ![s] = Append(heap[s], {})] /\ slot' = [slot EXCEPT ![s] = Len(heap'[s])]
        BY <1>2, <3>2 DEF SetDefault
      <4>2. \A r \in Sensors : r # s => heap'[r] = heap[r] /\ slot'[r] = slot[r]
        BY <1>t, <4>1 DEF StoreOK
      <4>3. heap'[s] = Append(heap[s], {}) /\ slot'[s] = Len(Append(heap[s], {}))
        BY <1>t, <4>1 DEF StoreOK
      <4>4. slot'[s] # 0 /\ heap'[s][slot'[s]] = {}
        BY <1>h, <4>3
      <4> QED
        BY <3>2, <4>2, <4>4 DEF Stored
    <3> QED
      BY <3>1, <3>2
  <2>4. \A r : (Owing(t, r)' <=> Owing(t, r)) /\ (Holding(t, r)' <=> Holding(t, r))
    BY <2>1 DEF Owing, Holding, Making, Moves
  <2>5. ASSUME NEW g \in 1..made PROVE MemberOf(g)'
    BY <1>a, <1>c, <2>1, <2>2, <2>3, <2>4, MemberKeeps DEF Moves
  <2> QED
    BY <2>2, <2>5 DEF MemberInv
<1>3. ASSUME NEW t \in Threads, Add(t) PROVE MemberInv'
  <2>0. PICK z, h : z = task[t].sensor /\ h = task[t].grant
    OBVIOUS
  <2>1. PICK rest : /\ rest = task[t].rest \ {z}
                    /\ Moves(t, IF rest = {} THEN "activate" ELSE "setdefault",
                             h, NoSensor, 0, task[t].index, rest)
    BY <1>3, <2>0, ThreadMoves
  <2>2. /\ task[t].step = "add" /\ Touch(t, z) /\ clashed \subseteq clashed'
        /\ heap' = [heap EXCEPT ![z][task[t].set] = heap[z][task[t].set] \cup {h}]
        /\ UNCHANGED <<made, covers, ended, active, slot>>
    BY <1>3, <1>a, <2>0, TouchAlone DEF Add, At
  <2>3. /\ h \in 1..made /\ h \notin ended /\ z \in task[t].rest /\ z \in Sensors
        /\ task[t].rest \subseteq covers[h]
    BY <1>a, <1>u, <2>0, <2>2 DEF TaskOf, Making, TaskSet
  <2>4. \A r \in Sensors : r # z => Stored(r)' = Stored(r)
    <3>1. \A r \in Sensors : r # z => heap'[r] = heap[r]
      BY <1>t, <2>2 DEF StoreOK
    <3> QED
      BY <2>2, <3>1 DEF Stored
  <2>5. z \notin clashed' => Stored(z)' = Stored(z) \cup {h}
    <3> SUFFICES ASSUME z \notin clashed' PROVE Stored(z)' = Stored(z) \cup {h}
      OBVIOUS
    <3>1. /\ task[t].set = slot[z] /\ slot[z] # 0 /\ Stored(z) = heap[z][task[t].set]
          /\ task[t].set \in DOMAIN heap[z]
      BY <1>a, <1>w, <2>0, <2>2
    <3>2. heap'[z] = [heap[z] EXCEPT ![task[t].set] = heap[z][task[t].set] \cup {h}]
      BY <1>t, <2>2, <2>3 DEF StoreOK
    <3>3. heap'[z][task[t].set] = heap[z][task[t].set] \cup {h}
      BY <3>1, <3>2
    <3> QED
      BY <2>2, <3>1, <3>3 DEF Stored
  <2>6. ASSUME NEW g \in 1..made, g # h PROVE MemberOf(g)'
    <3>1. \A s \in covers[g] \ clashed' : g \in Stored(s)' <=> g \in Stored(s)
      BY <1>c, <2>4, <2>5, <2>6
    <3> QED
      BY <1>a, <1>c, <2>0, <2>1, <2>2, <2>6, <3>1, MemberKeeps DEF Moves
  <2>7. MemberOf(h)'
    <3> SUFFICES ASSUME covers[h] \cap clashed' = {}
                 PROVE  \A s \in covers[h] : h \in Stored(s)' <=> Covered(h, s)'
      BY <2>2, <2>3 DEF MemberOf, Undisturbed
    <3>1. covers[h] \cap clashed = {} /\ covers[h] \subseteq Sensors
      BY <1>c, <2>2, <2>3
    <3>2. \A b \in Actors : (task[b].grant = h => b = t) /\ (task'[b].grant = h => b = t)
      BY <1>a, <1>s, <1>c, <2>0, <2>1, <2>3 DEF Moves
    <3>3. \A s : Covered(h, s)' <=> ~Owing(t, s)'
      BY <1>a, <2>1, <2>2, <2>3, <3>2 DEF Covered, Moves
    <3>4. \A s : Covered(h, s) <=> ~Owing(t, s)
      BY <1>a, <2>0, <2>3, <3>2 DEF Covered
    <3>5. \A s : s # z => (Owing(t, s)' <=> Owing(t, s))
      BY <2>1, <2>2 DEF Owing, Making, Moves
    <3>6. ~Owing(t, z)'
      BY <2>1 DEF Owing, Moves
    <3>7. \A s \in covers[h] : h \in Stored(s) <=> Covered(h, s)
      BY <1>c, <2>3, <3>1 DEF MemberOf, Undisturbed
    <3> QED
      BY <2>4, <2>5, <3>1, <3>3, <3>4, <3>5, <3>6, <3>7
  <2> QED
    BY <2>2, <2>6, <2>7 DEF MemberInv
(* A task that lets go of h, and nothing else in the store.                *)
<1>4. ASSUME NEW a \in Actors, GoesIdle(a), task[a].grant # 0,
             UNCHANGED <<made, covers, slot, heap, ended>>, clashed \subseteq clashed',
             active' \ active \subseteq {task[a].grant} \ ended,
             covers[task[a].grant] \cap clashed' = {} =>
               /\ \A s \in covers[task[a].grant] :
                    task[a].grant \in Stored(s) <=> task[a].grant \notin ended
               /\ task[a].grant \notin ended \cap active'
      PROVE  MemberInv'
  <2>0. PICK h : h = task[a].grant
    OBVIOUS
  <2>1. \A s : Stored(s)' = Stored(s)
    BY <1>4 DEF Stored
  <2>2. ASSUME NEW g \in 1..made, g # h PROVE MemberOf(g)'
    <3>1. (task'[a].grant = g <=> task[a].grant = g) /\ (g \in active' => g \in active)
      BY <1>4, <1>c, <2>0, <2>2 DEF GoesIdle, Moves
    <3> QED
      BY <1>4, <1>c, <2>1, <2>2, <3>1, MemberKeeps DEF GoesIdle, Moves
  <2>3. h \in 1..made
    BY <1>4, <1>u, <2>0
  <2>4. \A b \in Actors : task'[b].grant # h
    BY <1>4, <1>s, <1>u, <2>0 DEF GoesIdle, Moves
  <2>5. \A s : Covered(h, s)' <=> h \notin ended
    BY <1>4, <2>4 DEF Covered
  <2>6. MemberOf(h)'
    BY <1>4, <2>0, <2>1, <2>4, <2>5 DEF MemberOf, Undisturbed
  <2> QED
    BY <1>4, <2>2, <2>6 DEF MemberInv
<1>o. ASSUME NEW a \in Actors, NEW s, task[a].grant # 0, covers[task[a].grant] \cap clashed = {},
             s \in covers[task[a].grant]
      PROVE  task[a].grant \in Stored(s) <=>
               ~Owing(a, s) /\ (task[a].grant \in ended => Holding(a, s))
  <2>1. task[a].grant \in 1..made
    BY <1>o, <1>u
  <2>2. \A b \in Actors : task[b].grant = task[a].grant => b = a
    BY <1>o, <1>s
  <2> QED
    BY <1>o, <1>c, <2>1, <2>2 DEF MemberOf, Undisturbed, Covered
<1>5. ASSUME NEW t \in Threads, Activate(t) PROVE MemberInv'
  <2>1. /\ GoesIdle(t) /\ task[t].step = "activate" /\ active' = active \cup {task[t].grant}
        /\ UNCHANGED <<made, covers, slot, heap, ended, clashed>>
    BY <1>5, ThreadMoves DEF Activate, At
  <2>2. task[t].grant # 0 /\ task[t].grant \notin ended /\ task[t].rest = {}
    BY <1>a, <1>u, <2>1 DEF TaskOf, Making
  <2>3. \A s : ~Owing(t, s)
    BY <2>2 DEF Owing
  <2>4. covers[task[t].grant] \cap clashed' = {} =>
          \A s \in covers[task[t].grant] : task[t].grant \in Stored(s)
    BY <1>a, <1>o, <2>1, <2>2, <2>3
  <2> QED
    BY <1>4, <1>a, <2>1, <2>2, <2>4
<1>6. ASSUME NEW a \in Actors, Forget(a) PROVE MemberInv'
  <2>1. /\ GoesIdle(a) /\ task[a].step = "forget" /\ active' = active \ {task[a].grant}
        /\ UNCHANGED <<made, covers, slot, heap, ended, clashed>>
    BY <1>6, EndMoves DEF Forget, At
  <2>2. task[a].grant \in ended /\ task[a].grant # 0
    BY <1>t, <1>u, <2>1 DEF TaskOf, Ending, StoreOK
  <2>3. \A s : ~Holding(a, s)
    BY <2>1 DEF Holding
  <2>4. covers[task[a].grant] \cap clashed' = {} =>
          \A s \in covers[task[a].grant] : task[a].grant \notin Stored(s)
    BY <1>o, <2>1, <2>2, <2>3
  <2> QED
    BY <1>4, <2>1, <2>2, <2>4
<1>7. ASSUME NEW a \in Actors, PruneRaises(a) PROVE MemberInv'
  <2>1. /\ GoesIdle(a) /\ task[a].step = "prune" /\ Touch(a, task[a].sensor)
        /\ slot[task[a].sensor] = 0 /\ UNCHANGED <<made, covers, slot, heap, ended, active>>
    BY <1>7, EndMoves DEF PruneRaises, At
  <2>2. task[a].grant # 0 /\ task[a].sensor \in covers[task[a].grant]
    BY <1>t, <1>u, <2>1 DEF TaskOf, Ending, StoreOK
  <2>3. task[a].sensor \in clashed' /\ clashed \subseteq clashed'
    BY <1>w, <2>1, TouchAlone
  <2>4. covers[task[a].grant] \cap clashed' # {}
    BY <2>2, <2>3
  <2> QED
    BY <1>4, <2>1, <2>2, <2>3, <2>4
<1>8. ASSUME NEW a \in Actors, NEW g \in GrantIds, EndBegin(a, g) PROVE MemberInv'
  <2>1. /\ Moves(a, "close", g, NoSensor, 0, 0, covers[g]) /\ ended' = ended \cup {g} /\ g \notin ended
        /\ UNCHANGED <<made, covers, slot, heap, active, clashed>>
    BY <1>8, EndMoves DEF EndBegin
  <2>2. g \in 1..made /\ \A b \in Actors : task[b].grant # g
    BY <1>8, EndsAlone
  <2>3. task[a].grant = 0
    <3>1. task[a].step = "idle"
      BY <1>8 DEF EndBegin, MayEnd, InUse, At
    <3> QED
      BY <1>u, <3>1 DEF TaskOf, Making, Ending
  <2>4. \A s : Stored(s)' = Stored(s)
    BY <2>1 DEF Stored
  <2>5. ASSUME NEW h \in 1..made, h # g PROVE MemberOf(h)'
    <3>1. h # 0 /\ MemberOf(h)
      BY <1>c
    <3> QED
      BY <2>1, <2>3, <2>4, <2>5, <3>1, MemberKeeps DEF Moves
  <2>6. MemberOf(g)'
    <3>1. \A s : Covered(g, s)
      BY <2>1, <2>2 DEF Covered
    <3>2. \A s : Holding(a, s)' /\ ~Owing(a, s)' /\ task'[a].grant = g
      BY <2>1 DEF Holding, Owing, Making, Moves
    <3>3. \A b \in Actors : task'[b].grant = g => b = a
      BY <2>1, <2>2 DEF Moves
    <3>4. \A s : Covered(g, s)'
      BY <3>2, <3>3 DEF Covered
    <3> QED
      BY <1>c, <2>1, <2>2, <2>4, <3>1, <3>2, <3>4 DEF MemberOf, Undisturbed
  <2> QED
    BY <2>1, <2>5, <2>6 DEF MemberInv
<1>9. ASSUME NEW a \in Actors, NEW s \in Sensors, CloseDevice(a, s) \/ CloseRaises(a, s) PROVE MemberInv'
  <2>1. /\ Moves(a, "close", task[a].grant, s, task[a].set, task[a].index + 1, task[a].rest)
        /\ task[a].step = "close" /\ UNCHANGED <<made, covers, slot, heap, ended, active, clashed>>
    BY <1>9, EndMoves DEF CloseDevice, CloseRaises, Closing, At
  <2>2. \A r : (Owing(a, r)' <=> Owing(a, r)) /\ (Holding(a, r)' <=> Holding(a, r))
    BY <2>1 DEF Owing, Holding, Making, Moves
  <2> QED
    BY <1>q, <2>1, <2>2 DEF Moves
<1>10. ASSUME NEW a \in Actors, NEW s \in Sensors, CloseListDone(a, s) PROVE MemberInv'
  <2>1. PICK rest : /\ rest = task[a].rest \ {s}
                    /\ Moves(a, IF rest = {} THEN "get" ELSE "close", task[a].grant, NoSensor,
                             task[a].set, 0, IF rest = {} THEN covers[task[a].grant] ELSE rest)
    BY <1>10, EndMoves
  <2>2. task[a].step = "close" /\ UNCHANGED <<made, covers, slot, heap, ended, active, clashed>>
    BY <1>10 DEF CloseListDone, Closing, At
  <2>3. \A r \in covers[task[a].grant] : (Owing(a, r)' <=> Owing(a, r)) /\ (Holding(a, r)' <=> Holding(a, r))
    BY <2>1, <2>2 DEF Owing, Holding, Making, Moves
  <2> QED
    BY <1>q, <2>1, <2>2, <2>3 DEF Moves
<1>11. ASSUME NEW a \in Actors, NEW s \in Sensors, GetSet(a, s) PROVE MemberInv'
  <2>1. /\ task[a].step = "get" /\ s \in task[a].rest /\ clashed \subseteq clashed'
        /\ UNCHANGED <<made, covers, slot, heap, ended, active>>
    BY <1>11, TouchAlone DEF GetSet, At
  <2>2. task[a].grant # 0 /\ task[a].grant \in ended /\ s \in covers[task[a].grant] /\ ~Making(a)
    BY <1>t, <1>u, <2>1 DEF TaskOf, Making, Ending, StoreOK
  <2>3. \A r : Stored(r)' = Stored(r)
    BY <2>1 DEF Stored
  <2>4. CASE slot[s] # 0 /\ Moves(a, "discard", task[a].grant, s, slot[s], task[a].index, task[a].rest)
    <3>1. \A r : (Owing(a, r)' <=> Owing(a, r)) /\ (Holding(a, r)' <=> Holding(a, r))
      BY <2>1, <2>4 DEF Owing, Holding, Making, Moves
    <3>2. ASSUME NEW g \in 1..made PROVE MemberOf(g)'
      BY <1>c, <2>1, <2>3, <2>4, <3>1, MemberKeeps DEF Moves
    <3> QED
      BY <2>1, <3>2 DEF MemberInv
  <2>5. CASE slot[s] = 0 /\ AfterSensor(a, s)
    <3>1. PICK rest : /\ rest = task[a].rest \ {s}
                      /\ Moves(a, IF rest = {} THEN "forget" ELSE "get",
                               task[a].grant, NoSensor, 0, task[a].index, rest)
      BY <2>5, EndMoves
    <3>2. covers[task[a].grant] \cap clashed' # {}
      <4>1. task[a].grant \notin Stored(s) /\ Holding(a, s) /\ ~Owing(a, s)
        BY <2>1, <2>2, <2>5 DEF Stored, Holding, Owing
      <4>2. covers[task[a].grant] \cap clashed # {}
        BY <1>o, <2>2, <4>1
      <4> QED
        BY <2>1, <4>2
    <3>3. ASSUME NEW g \in 1..made PROVE MemberOf(g)'
      <4>1. CASE g = task[a].grant
        BY <2>1, <3>2, <4>1 DEF MemberOf, Undisturbed
      <4>2. CASE g # task[a].grant
        BY <1>c, <2>1, <2>3, <3>1, <4>2, MemberKeeps DEF Moves
      <4> QED
        BY <4>1, <4>2
    <3> QED
      BY <2>1, <3>3 DEF MemberInv
  <2> QED
    BY <1>11, <2>4, <2>5, EndMoves
<1>12. ASSUME NEW a \in Actors, Discard(a) PROVE MemberInv'
  <2>0. PICK z, h : z = task[a].sensor /\ h = task[a].grant
    OBVIOUS
  <2>1. Moves(a, "prune", h, z, task[a].set, task[a].index, task[a].rest)
    BY <1>12, <2>0, EndMoves
  <2>2. /\ task[a].step = "discard" /\ Touch(a, z) /\ clashed \subseteq clashed'
        /\ heap' = [heap EXCEPT ![z][task[a].set] = heap[z][task[a].set] \ {h}]
        /\ UNCHANGED <<made, covers, ended, active, slot>>
    BY <1>12, <2>0, TouchAlone DEF Discard, At
  <2>3. /\ h \in 1..made /\ h \in ended /\ z \in task[a].rest /\ z \in Sensors
        /\ task[a].rest \subseteq covers[h]
    <3>1. h \in ended /\ z \in task[a].rest
      BY <1>u, <2>0, <2>2 DEF TaskOf, Ending
    <3>2. h \in 1..made /\ h # 0
      BY <1>t, <1>c, <3>1 DEF StoreOK
    <3> QED
      BY <1>u, <2>0, <3>1, <3>2 DEF TaskOf, TaskSet
  <2>4. \A r \in Sensors : r # z => Stored(r)' = Stored(r)
    <3>1. \A r \in Sensors : r # z => heap'[r] = heap[r]
      BY <1>t, <2>2 DEF StoreOK
    <3> QED
      BY <2>2, <3>1 DEF Stored
  <2>5. z \notin clashed' => Stored(z)' = Stored(z) \ {h}
    <3> SUFFICES ASSUME z \notin clashed' PROVE Stored(z)' = Stored(z) \ {h}
      OBVIOUS
    <3>1. /\ task[a].set = slot[z] /\ slot[z] # 0 /\ Stored(z) = heap[z][task[a].set]
          /\ task[a].set \in DOMAIN heap[z]
      BY <1>w, <2>0, <2>2
    <3>2. heap'[z] = [heap[z] EXCEPT ![task[a].set] = heap[z][task[a].set] \ {h}]
      BY <1>t, <2>2, <2>3 DEF StoreOK
    <3>3. heap'[z][task[a].set] = heap[z][task[a].set] \ {h}
      BY <3>1, <3>2
    <3> QED
      BY <2>2, <3>1, <3>3 DEF Stored
  <2>6. ASSUME NEW g \in 1..made, g # h PROVE MemberOf(g)'
    <3>1. \A s \in covers[g] \ clashed' : g \in Stored(s)' <=> g \in Stored(s)
      BY <1>c, <2>4, <2>5, <2>6
    <3> QED
      BY <1>c, <2>0, <2>1, <2>2, <2>6, <3>1, MemberKeeps DEF Moves
  <2>7. MemberOf(h)'
    <3> SUFFICES ASSUME covers[h] \cap clashed' = {}
                 PROVE  \A s \in covers[h] : h \in Stored(s)' <=> Covered(h, s)'
      BY <2>0, <2>1, <2>2, <2>3 DEF MemberOf, Undisturbed, Moves
    <3>1. covers[h] \cap clashed = {} /\ covers[h] \subseteq Sensors
      BY <1>c, <2>2, <2>3
    <3>2. \A b \in Actors : task'[b].grant = h <=> b = a
      BY <1>s, <1>c, <2>0, <2>1, <2>3 DEF Moves
    <3>3. \A s : Covered(h, s)' <=> Holding(a, s)'
      <4>1. \A s : ~Owing(a, s)'
        BY <2>1 DEF Owing, Making, Moves
      <4> QED
        BY <2>2, <2>3, <3>2, <4>1 DEF Covered
    <3>4. \A s \in covers[h] : h \in Stored(s) <=> Holding(a, s)
      <4>1. \A s : ~Owing(a, s)
        BY <2>2 DEF Owing, Making
      <4> QED
        BY <1>o, <1>c, <2>0, <2>3, <3>1, <4>1
    <3>5. \A s : s # z => (Holding(a, s)' <=> Holding(a, s))
      BY <2>0, <2>1, <2>2 DEF Holding, Moves
    <3>6. ~Holding(a, z)'
      BY <2>1 DEF Holding, Moves
    <3>7. z \in covers[h] \ clashed'
      BY <2>3
    <3> QED
      BY <2>4, <2>5, <3>1, <3>3, <3>4, <3>5, <3>6, <3>7
  <2> QED
    BY <2>2, <2>6, <2>7 DEF MemberInv
<1>13. ASSUME NEW a \in Actors, Prune(a) PROVE MemberInv'
  <2>0. PICK z : z = task[a].sensor
    OBVIOUS
  <2>1. /\ task[a].step = "prune" /\ Touch(a, z) /\ clashed \subseteq clashed' /\ AfterSensor(a, z)
        /\ slot' = (IF heap[z][task[a].set] = {} THEN [slot EXCEPT ![z] = 0] ELSE slot)
        /\ UNCHANGED <<made, covers, heap, ended, active>>
    BY <1>13, <2>0, TouchAlone DEF Prune, At
  <2>2. z \in Sensors
    BY <1>u, <2>0, <2>1 DEF TaskOf, TaskSet
  <2>3. PICK rest : /\ rest = task[a].rest \ {z}
                    /\ Moves(a, IF rest = {} THEN "forget" ELSE "get",
                             task[a].grant, NoSensor, 0, task[a].index, rest)
    BY <2>1, <2>2, EndMoves
  <2>4. \A r \in Sensors : r # z => Stored(r)' = Stored(r)
    <3>1. \A r \in Sensors : r # z => slot'[r] = slot[r]
      BY <1>t, <2>1 DEF StoreOK
    <3> QED
      BY <2>1, <3>1 DEF Stored
  <2>5. z \notin clashed' => Stored(z)' = Stored(z)
    <3> SUFFICES ASSUME z \notin clashed' PROVE Stored(z)' = Stored(z)
      OBVIOUS
    <3>1. Stored(z) = heap[z][task[a].set]
      BY <1>w, <2>0, <2>1
    <3>2. CASE heap[z][task[a].set] = {}
      <4>1. slot'[z] = 0
        BY <1>t, <2>1, <2>2, <3>2 DEF StoreOK
      <4> QED
        BY <3>1, <3>2, <4>1 DEF Stored
    <3>3. CASE heap[z][task[a].set] # {}
      BY <2>1, <3>3 DEF Stored
    <3> QED
      BY <3>2, <3>3
  <2>6. \A s : (Owing(a, s)' <=> Owing(a, s)) /\ (Holding(a, s)' <=> Holding(a, s))
    BY <2>0, <2>1, <2>3 DEF Owing, Holding, Making, Moves
  <2>7. ASSUME NEW g \in 1..made PROVE MemberOf(g)'
    <3>1. \A s \in covers[g] \ clashed' : g \in Stored(s)' <=> g \in Stored(s)
      BY <1>c, <2>4, <2>5
    <3> QED
      BY <1>c, <2>1, <2>3, <2>6, <3>1, MemberKeeps DEF Moves
  <2> QED
    BY <2>1, <2>7 DEF MemberInv
<1>14. ASSUME NEW t \in Threads, OpenDevice(t) \/ \E s \in Sensors : Check(t, s) PROVE MemberInv'
  <2>1. GoesIdle(t) \/ \E s \in Sensors : Moves(t, "open", 0, s, 0, 0, {})
    BY <1>14, ThreadMoves
  <2>2. task[t].grant = 0 /\ UNCHANGED <<made, covers, slot, heap, ended, active, clashed>>
    BY <1>14, <1>a, <1>u DEF OpenDevice, Check, InUse, At, TaskOf, Making, Ending
  <2>3. \A g \in 1..made : task'[t].grant # g /\ task[t].grant # g
    BY <1>c, <2>1, <2>2 DEF GoesIdle, Moves
  <2> QED
    BY <1>a, <1>q, <2>1, <2>2, <2>3 DEF GoesIdle, Moves
<1>15. ASSUME \/ ExitBegins \/ UNCHANGED vars
              \/ \E a \in Actors, g \in GrantIds : EndAgain(a, g)
              \/ \E t \in Threads, g \in GrantIds, d \in DOMAIN device : RegisterOpenDevice(t, g, d)
       PROVE  MemberInv'
  BY <1>15, <1>p DEF ExitBegins, vars, EndAgain, RegisterOpenDevice
<1> QED
  BY <1>1, <1>2, <1>3, <1>5, <1>6, <1>7, <1>8, <1>9, <1>10, <1>11, <1>12, <1>13, <1>14, <1>15
     DEF Next, End, GrantRefused, RegisterRefused

LEMMA MembersHold == Spec => [](ConsentInv /\ StoreInv /\ MemberInv)
<1>1. Init => StoreInv /\ MemberInv
  BY ConsentInit
<1> QED
  BY <1>1, ConsentInvHolds, StoreInvStep, MemberInvStep, PTL DEF Spec

(* is_granted answers by the grants that are not over, as long as no two   *)
(* threads change the grants of one sensor at once: a grant is in the set  *)
(* of each sensor it covers and of no other from the moment grant()        *)
(* returns to the moment it ends.                                          *)
THEOREM GrantsAnswer == Spec => []CoverageExact
<1>1. ConsentInv /\ MemberInv => CoverageExact
  <2> SUFFICES ASSUME ConsentInv, MemberInv, NEW g \in 1..made, Settled(g), Undisturbed(g)
               PROVE  /\ {s \in Sensors : g \in Stored(s)} = (IF g \in ended THEN {} ELSE covers[g])
                      /\ g \in active <=> g \notin ended
    BY DEF CoverageExact
  <2>1. StoreOK /\ OwnerInv /\ HeapInv /\ MemberOf(g) /\ g \in GrantIds
    BY TypeParts, BoundsAssumption DEF ConsentInv, MemberInv, StoreOK, GrantIds
  <2>2. \A s \in covers[g] : g \in Stored(s) <=> g \notin ended
    BY <2>1 DEF MemberOf, Covered, Settled
  <2>3. \A s \in Sensors : g \in Stored(s) => s \in covers[g]
    <3> SUFFICES ASSUME NEW s \in Sensors, g \in Stored(s) PROVE s \in covers[g]
      OBVIOUS
    <3>1. heap[s] \in Seq(SUBSET (1..made)) /\ slot[s] \in 0..Len(heap[s])
      BY <2>1 DEF StoreOK
    <3>2. slot[s] \in DOMAIN heap[s] /\ g \in heap[s][slot[s]]
      BY <3>1 DEF Stored
    <3> QED
      BY <2>1, <3>2 DEF HeapInv
  <2>4. covers[g] \subseteq Sensors
    BY <2>1 DEF StoreOK
  <2>5. g \in active <=> g \notin ended
    BY <2>1 DEF MemberOf, OwnerInv, Settled
  <2> QED
    BY <2>2, <2>3, <2>4, <2>5
<1> QED
  BY <1>1, MembersHold, PTL

(* Of the events of the audit trail, a step emits those of one outcome.    *)
LEMMA EmitsOne ==
  ASSUME RestOK, NEW o \in Outcomes, NEW ss, Emit(o, ss), NEW s \in Sensors, NEW x \in Outcomes,
         audit'[s][x] # audit[s][x]
  PROVE  x = o /\ s \in ss
BY DEF RestOK, Emit

(* Only a check emits the events "used" and "denied".                      *)
LEMMA OnlyChecksAnswer ==
  ASSUME ConsentInv, [Next]_vars, NEW s \in Sensors, NEW x \in {"used", "denied"},
         audit'[s][x] # audit[s][x]
  PROVE  /\ \E t \in Threads : Check(t, s)
         /\ x = (IF Stored(s) # {} THEN "used" ELSE "denied")
<1>0. RestOK /\ x \in Outcomes /\ {"granted", "ended", "used", "denied"} \subseteq Outcomes
  BY TypeParts DEF ConsentInv, Outcomes
<1>1. ASSUME NEW t \in Threads, NEW r \in Sensors, Check(t, r)
      PROVE  r = s /\ x = (IF Stored(s) # {} THEN "used" ELSE "denied")
  <2>1. PICK o : o = IF Stored(r) # {} THEN "used" ELSE "denied"
    OBVIOUS
  <2>2. Emit(o, {r}) /\ o \in Outcomes
    BY <1>0, <1>1, <2>1 DEF Check
  <2>3. x = o /\ s \in {r}
    BY <1>0, <2>2, EmitsOne
  <2> QED
    BY <2>1, <2>3
<1>2. ASSUME NEW t \in Threads, Activate(t) PROVE FALSE
  <2>1. Emit("granted", covers[task[t].grant])
    BY <1>2 DEF Activate
  <2>2. x = "granted"
    BY <1>0, <2>1, EmitsOne
  <2> QED
    BY <2>2
<1>3. ASSUME NEW a \in Actors, Forget(a) PROVE FALSE
  <2>1. Emit("ended", covers[task[a].grant])
    BY <1>3 DEF Forget
  <2>2. x = "ended"
    BY <1>0, <2>1, EmitsOne
  <2> QED
    BY <2>2
<1>4. audit' # audit
  OBVIOUS
<1>5. \/ \E t \in Threads : Activate(t) \/ \E r \in Sensors : Check(t, r)
      \/ \E a \in Actors : Forget(a)
  <2>1. CASE UNCHANGED vars
    BY <1>4, <2>1 DEF vars
  <2>2. CASE \E t \in Threads :
               \/ \E q \in Requests : GrantRefused(t, q) \/ GrantBegin(t, q)
               \/ \E r \in Sensors : SetDefault(t, r)
               \/ Add(t) \/ OpenDevice(t)
               \/ \E g \in GrantIds, d \in DOMAIN device :
                    RegisterOpenDevice(t, g, d) \/ RegisterRefused(t, g, d)
    BY <1>4, <2>2
       DEF GrantRefused, GrantBegin, SetDefault, Add, OpenDevice, RegisterOpenDevice, RegisterRefused, vars
  <2>3. CASE \E a \in Actors :
               \/ \E g \in GrantIds : EndBegin(a, g) \/ EndAgain(a, g)
               \/ \E r \in Sensors : \/ CloseDevice(a, r) \/ CloseRaises(a, r)
                                     \/ CloseListDone(a, r) \/ GetSet(a, r)
               \/ Discard(a) \/ Prune(a) \/ PruneRaises(a)
    <3>1. PICK a \in Actors :
            \/ \E g \in GrantIds : EndBegin(a, g) \/ EndAgain(a, g)
            \/ \E r \in Sensors : \/ CloseDevice(a, r) \/ CloseRaises(a, r)
                                  \/ CloseListDone(a, r) \/ GetSet(a, r)
            \/ Discard(a) \/ Prune(a) \/ PruneRaises(a)
      BY <2>3
    <3>2. \A g : EndBegin(a, g) \/ EndAgain(a, g) => audit' = audit
      BY DEF EndBegin, EndAgain
    <3>3. \A r : CloseDevice(a, r) \/ CloseRaises(a, r) \/ CloseListDone(a, r) => audit' = audit
      BY DEF CloseDevice, CloseRaises, CloseListDone
    <3>4. (\E r : GetSet(a, r)) \/ Discard(a) \/ Prune(a) \/ PruneRaises(a) => audit' = audit
      BY DEF GetSet, Discard, Prune, PruneRaises
    <3> QED
      BY <1>4, <3>1, <3>2, <3>3, <3>4
  <2>4. CASE ExitBegins \/ (Exited /\ UNCHANGED vars)
    BY <1>4, <2>4 DEF ExitBegins, vars
  <2> QED
    BY <2>1, <2>2, <2>3, <2>4 DEF Next, End
<1> QED
  BY <1>1, <1>2, <1>3, <1>5

(* A grant that has ended is put into no set any more, and a set that      *)
(* comes into _grants is new and empty.                                    *)
LEMMA EndedStaysOut ==
  ASSUME ConsentInv, [Next]_vars, NEW s \in Sensors, NEW g \in ended, g \in Stored(s)'
  PROVE  g \in Stored(s)
<1> USE DEF store, life, handles, history
<1>t. StoreOK /\ TaskOK /\ TaskInv
  BY TypeParts DEF ConsentInv
<1>h. /\ heap[s] \in Seq(SUBSET (1..made)) /\ slot[s] \in 0..Len(heap[s])
      /\ DOMAIN heap = Sensors /\ DOMAIN slot = Sensors
  BY <1>t DEF StoreOK
<1>1. CASE UNCHANGED <<heap, slot>>
  BY <1>1 DEF Stored
<1>2. ASSUME NEW t \in Threads, NEW r \in Sensors, SetDefault(t, r), slot[r] = 0
      PROVE  g \in Stored(s)
  <2>1. /\ heap' = [heap EXCEPT ![r] = Append(heap[r], {})]
        /\ slot' = [slot EXCEPT ![r] = Len(heap'[r])]
    BY <1>2 DEF SetDefault
  <2>2. CASE r # s
    BY <2>1, <2>2 DEF Stored
  <2>3. CASE r = s
    <3> PICK h, k : h = heap[s] /\ k = Len(h)
      OBVIOUS
    <3>1. Len(Append(h, {})) = k + 1 /\ Append(h, {})[k + 1] = {}
      BY <1>h
    <3>2. heap'[s] = Append(h, {}) /\ slot'[s] = k + 1
      BY <1>h, <2>1, <2>3, <3>1
    <3>3. Stored(s)' = {} \/ slot'[s] = 0
      BY <3>1, <3>2 DEF Stored
    <3> QED
      BY <3>3 DEF Stored
  <2> QED
    BY <2>2, <2>3
<1>3. ASSUME NEW t \in Threads, Add(t) PROVE g \in Stored(s)
  <2>1. /\ heap' = [heap EXCEPT ![task[t].sensor][task[t].set] = @ \cup {task[t].grant}]
        /\ slot' = slot /\ task[t].step = "add"
    BY <1>3 DEF Add, At
  <2>2. task[t].grant \notin ended
    BY <1>t, <2>1 DEF TaskInv, TaskOf, Making, Actors
  <2>3. \A k \in DOMAIN heap[s] : g \in heap'[s][k] => g \in heap[s][k]
    BY <1>h, <2>1, <2>2
  <2>4. slot[s] # 0 => slot[s] \in DOMAIN heap[s]
    BY <1>h
  <2> QED
    BY <2>1, <2>3, <2>4 DEF Stored
<1>4. ASSUME NEW a \in Actors, Discard(a) PROVE g \in Stored(s)
  <2>1. /\ heap' = [heap EXCEPT ![task[a].sensor][task[a].set] = @ \ {task[a].grant}]
        /\ slot' = slot
    BY <1>4 DEF Discard
  <2>2. \A k \in DOMAIN heap[s] : g \in heap'[s][k] => g \in heap[s][k]
    BY <1>h, <2>1
  <2>3. slot[s] # 0 => slot[s] \in DOMAIN heap[s]
    BY <1>h
  <2> QED
    BY <2>1, <2>2, <2>3 DEF Stored
<1>5. ASSUME NEW a \in Actors, Prune(a) PROVE g \in Stored(s)
  <2>1. heap' = heap /\ (slot' = slot \/ slot' = [slot EXCEPT ![task[a].sensor] = 0])
    BY <1>5 DEF Prune
  <2>2. slot'[s] = slot[s] \/ slot'[s] = 0
    BY <1>h, <2>1
  <2> QED
    BY <2>1, <2>2 DEF Stored
<1>6. CASE UNCHANGED vars
  BY <1>1, <1>6 DEF vars
<1>7. ASSUME NEW t \in Threads, NEW r \in Sensors, SetDefault(t, r), slot[r] # 0
      PROVE  g \in Stored(s)
  BY <1>1, <1>7 DEF SetDefault
<1>8. CASE \E t \in Threads :
             \/ \E q \in Requests : GrantRefused(t, q) \/ GrantBegin(t, q)
             \/ \E r \in Sensors : Check(t, r)
             \/ Activate(t) \/ OpenDevice(t)
             \/ \E h \in GrantIds, d \in DOMAIN device :
                  RegisterOpenDevice(t, h, d) \/ RegisterRefused(t, h, d)
  BY <1>1, <1>8
     DEF GrantRefused, GrantBegin, Check, Activate, OpenDevice, RegisterOpenDevice, RegisterRefused, vars
<1>9. CASE \E a \in Actors :
             \/ \E h \in GrantIds : EndBegin(a, h) \/ EndAgain(a, h)
             \/ \E r \in Sensors : \/ CloseDevice(a, r) \/ CloseRaises(a, r)
                                   \/ CloseListDone(a, r) \/ GetSet(a, r)
             \/ PruneRaises(a) \/ Forget(a)
  <2>1. PICK a \in Actors :
          \/ \E h \in GrantIds : EndBegin(a, h) \/ EndAgain(a, h)
          \/ \E r \in Sensors : \/ CloseDevice(a, r) \/ CloseRaises(a, r)
                                \/ CloseListDone(a, r) \/ GetSet(a, r)
          \/ PruneRaises(a) \/ Forget(a)
    BY <1>9
  <2>2. \A h : EndBegin(a, h) \/ EndAgain(a, h) => UNCHANGED <<heap, slot>>
    BY DEF EndBegin, EndAgain
  <2>3. \A r : CloseDevice(a, r) \/ CloseRaises(a, r) \/ CloseListDone(a, r) => UNCHANGED <<heap, slot>>
    BY DEF CloseDevice, CloseRaises, CloseListDone
  <2>4. (\E r : GetSet(a, r)) \/ PruneRaises(a) \/ Forget(a) => UNCHANGED <<heap, slot>>
    BY DEF GetSet, PruneRaises, Forget
  <2> QED
    BY <1>1, <2>1, <2>2, <2>3, <2>4
<1>10. CASE ExitBegins
  BY <1>1, <1>10 DEF ExitBegins
<1> QED
  BY <1>2, <1>3, <1>4, <1>5, <1>6, <1>7, <1>8, <1>9, <1>10 DEF Next, End

(* A check lets a read through only under a grant that is not over, or is  *)
(* just being made or ended; it denies one only when no grant of the       *)
(* sensor is in force; and an ended grant never comes back, whatever the   *)
(* threads do.                                                             *)
THEOREM AnswersAreHonest == Spec => AnswersHonest
<1>1. ASSUME ConsentInv, MemberInv, [Next]_vars, NEW s \in Sensors PROVE HonestAbout(s)
  <2>1. StoreOK /\ HeapInv /\ made \in Nat
    BY <1>1, TypeParts DEF ConsentInv, StoreOK
  <2>2. \A g \in Stored(s) : g \in 1..made /\ s \in covers[g]
    <3>1. heap[s] \in Seq(SUBSET (1..made)) /\ slot[s] \in 0..Len(heap[s])
      BY <2>1 DEF StoreOK
    <3> SUFFICES ASSUME NEW g \in Stored(s) PROVE g \in 1..made /\ s \in covers[g]
      OBVIOUS
    <3>2. slot[s] \in DOMAIN heap[s] /\ g \in heap[s][slot[s]]
      BY <3>1 DEF Stored
    <3>3. heap[s][slot[s]] \in SUBSET (1..made)
      BY <3>1, <3>2
    <3> QED
      BY <2>1, <3>2, <3>3 DEF HeapInv
  (* Of a grant nobody is at work on, the store tells whether it is over.  *)
  <2>3. ASSUME NEW g \in 1..made, s \in covers[g], Settled(g), Undisturbed(g)
        PROVE  g \in Stored(s) <=> g \notin ended
    BY <1>1, <2>3 DEF MemberInv, MemberOf, Covered, Settled
  <2>4. audit'[s]["used"] # audit[s]["used"] =>
          \E g \in 1..made : s \in covers[g] /\ ~(g \in ended /\ Settled(g) /\ Undisturbed(g))
    <3> SUFFICES ASSUME audit'[s]["used"] # audit[s]["used"]
                 PROVE  \E g \in 1..made : s \in covers[g] /\ ~(g \in ended /\ Settled(g) /\ Undisturbed(g))
      OBVIOUS
    <3>1. Stored(s) # {}
      BY <1>1, OnlyChecksAnswer
    <3>2. PICK g \in Stored(s) : TRUE
      BY <3>1
    <3> QED
      BY <2>2, <2>3, <3>2
  <2>5. audit'[s]["denied"] # audit[s]["denied"] =>
          \A g \in 1..made : s \in covers[g] /\ Settled(g) /\ Undisturbed(g) => g \in ended
    <3> SUFFICES ASSUME audit'[s]["denied"] # audit[s]["denied"]
                 PROVE  Stored(s) = {}
      BY <2>3
    <3> QED
      BY <1>1, OnlyChecksAnswer
  <2> QED
    BY <1>1, <2>4, <2>5, EndedStaysOut DEF HonestAbout
<1>2. ConsentInv /\ MemberInv /\ [Next]_vars => [\A s \in Sensors : HonestAbout(s)]_vars
  BY <1>1
<1> QED
  BY <1>2, MembersHold, PTL DEF Spec, AnswersHonest

-----------------------------------------------------------------------------
(* Closers *)

(* Nothing changes for the i-th closer of s in g. *)
LEMMA EntryKeeps ==
  ASSUME NEW g, NEW s, NEW i, EntryOf(g, s, i), closers'[g][s][i] = closers[g][s][i],
         calls'[closers[g][s][i]] = calls[closers[g][s][i]],
         closers[g][s][i] \in late => closers[g][s][i] \in late',
         g \in ended' <=> g \in ended,
         \A b \in Actors : /\ Ends(b, g)' <=> Ends(b, g)
                           /\ Ends(b, g) => (Ahead(b, s, i)' <=> Ahead(b, s, i))
  PROVE  EntryOf(g, s, i)'
BY DEF EntryOf

LEMMA ClosersInvStep == ConsentInv /\ ClosersInv /\ [Next]_vars => ClosersInv'
<1> SUFFICES ASSUME ConsentInv, ClosersInv, [Next]_vars PROVE ClosersInv'
  OBVIOUS
<1> USE DEF store, life, handles, history
<1>t. StoreOK /\ TaskOK /\ HandlesOK /\ TaskInv /\ OwnerInv /\ made \in Nat
  BY TypeParts DEF ConsentInv, StoreOK
<1>u. \A a \in Actors : task[a] \in TaskSet(made) /\ TaskOf(a) /\ task[a].index \in Nat
  BY <1>t DEF TaskOK, TaskInv, TaskSet
<1>a. Threads \subseteq Actors
  BY DEF Actors
<1>n. NoSensor \notin Sensors
  BY SensorsAssumption DEF NoSensor
<1>s. \A a, b \in Actors : task[a].grant # 0 /\ task[a].grant = task[b].grant => a = b
  BY <1>t DEF OwnerInv
<1>d. /\ \A d \in DOMAIN device : d \in DOMAIN calls
      /\ Len(device) \in Nat /\ DOMAIN device = 1..Len(device) /\ DOMAIN calls = DOMAIN device
      /\ \A g \in GrantIds, s \in Sensors : closers[g][s] \in Seq(DOMAIN device)
      /\ \A g \in GrantIds, s \in Sensors : \A i \in DOMAIN closers[g][s] : closers[g][s][i] \in DOMAIN device
  <2>1. DOMAIN device = 1..Len(device) /\ DOMAIN calls = 1..Len(calls) /\ Len(device) \in Nat
    BY <1>t DEF HandlesOK
  <2>2. \A g \in GrantIds, s \in Sensors : closers[g][s] \in Seq(DOMAIN device)
    BY <1>t DEF HandlesOK
  <2> QED
    BY <1>t, <2>1, <2>2 DEF HandlesOK
<1>g. \A a \in Actors : task[a].step = "close" =>
        task[a].grant \in ended /\ task[a].grant \in GrantIds /\ task[a].grant # 0
  <2>1. \A g \in ended : g \in GrantIds /\ g # 0
    BY <1>t, BoundsAssumption DEF StoreOK, GrantIds
  <2> QED
    BY <1>u, <2>1 DEF TaskOf, Ending
<1>v. \A g, h \in GrantIds, s, r \in Sensors : \A i \in DOMAIN closers[g][s], j \in DOMAIN closers[h][r] :
        closers[g][s][i] = closers[h][r][j] => g = h /\ s = r /\ i = j
  BY DEF ClosersInv
<1>w. \A g \in GrantIds, s \in Sensors : \A i \in DOMAIN closers[g][s] : EntryOf(g, s, i)
  BY DEF ClosersInv
(* The steps outside of the loops over the closers.                        *)
<1>q. ASSUME NEW a \in Actors, \A b \in Actors : b # a => task'[b] = task[b],
             task[a].step # "close", task'[a].step # "close",
             UNCHANGED <<closers, device, calls, late, ended>>
      PROVE  ClosersInv'
  <2>1. \A b \in Actors : \A g : Ends(b, g)' <=> Ends(b, g)
    BY <1>q DEF Ends
  <2>2. \A b \in Actors : \A g, s, i : Ends(b, g) => (Ahead(b, s, i)' <=> Ahead(b, s, i))
    BY <1>q DEF Ends, Ahead
  <2>3. \A g \in GrantIds, s \in Sensors : \A i \in DOMAIN closers[g][s] : EntryOf(g, s, i)'
    BY <1>q, <2>1, <2>2, EntryKeeps DEF ClosersInv
  <2>4. \A b \in Actors : task'[b].step = "close" => b # a /\ task'[b] = task[b]
    BY <1>q
  <2> QED
    BY <1>q, <2>3, <2>4 DEF ClosersInv, Registered
<1>p. ASSUME UNCHANGED <<closers, device, calls, late, ended, task>> PROVE ClosersInv'
  <2>1. \A a \in Actors : \A g : Ends(a, g)' <=> Ends(a, g)
    BY <1>p DEF Ends
  <2>2. \A a \in Actors : \A s, i : Ahead(a, s, i)' <=> Ahead(a, s, i)
    BY <1>p DEF Ahead
  <2>3. \A g \in GrantIds, s \in Sensors : \A i \in DOMAIN closers[g][s] : EntryOf(g, s, i)'
    BY <1>p, <1>w, <2>1, <2>2, EntryKeeps
  <2> QED
    BY <1>p, <2>3 DEF ClosersInv, Registered
<1>1. ASSUME NEW t \in Threads, NEW q \in Requests, GrantBegin(t, q) PROVE ClosersInv'
  <2>1. Moves(t, "setdefault", made + 1, NoSensor, 0, 0, q) /\ task[t].step = "idle"
    BY <1>1, ThreadMoves DEF GrantBegin, InUse, At
  <2> QED
    BY <1>1, <1>a, <1>q, <2>1 DEF GrantBegin, Moves
<1>2. ASSUME NEW t \in Threads, NEW s \in Sensors, SetDefault(t, s) PROVE ClosersInv'
  <2>1. Moves(t, "add", task[t].grant, s, slot'[s], task[t].index, task[t].rest)
    BY <1>2, ThreadMoves
  <2> QED
    BY <1>2, <1>a, <1>q, <2>1 DEF SetDefault, At, Moves
<1>3. ASSUME NEW t \in Threads, Add(t) PROVE ClosersInv'
  <2>1. PICK rest : Moves(t, IF rest = {} THEN "activate" ELSE "setdefault",
                          task[t].grant, NoSensor, 0, task[t].index, rest)
    BY <1>3, ThreadMoves
  <2>2. task[t].step = "add" /\ UNCHANGED <<closers, device, calls, late, ended>>
    BY <1>3 DEF Add, At
  <2> QED
    BY <1>a, <1>q, <2>1, <2>2 DEF Moves
<1>4. ASSUME NEW t \in Threads, Activate(t) \/ \E s \in Sensors : Check(t, s) PROVE ClosersInv'
  <2>1. GoesIdle(t) \/ \E s \in Sensors : Moves(t, "open", 0, s, 0, 0, {})
    BY <1>4, ThreadMoves
  <2>2. task[t].step # "close" /\ UNCHANGED <<closers, device, calls, late, ended>>
    BY <1>4 DEF Activate, Check, InUse, At
  <2> QED
    BY <1>a, <1>q, <2>1, <2>2 DEF GoesIdle, Moves
<1>5. ASSUME NEW a \in Actors, PruneRaises(a) \/ Forget(a) PROVE ClosersInv'
  <2>1. GoesIdle(a) /\ task[a].step # "close" /\ UNCHANGED <<closers, device, calls, late, ended>>
    BY <1>5, EndMoves DEF PruneRaises, Forget, At
  <2> QED
    BY <1>q, <2>1 DEF GoesIdle, Moves
<1>6. ASSUME NEW a \in Actors, NEW s \in Sensors, GetSet(a, s) \/ (Prune(a) /\ s = task[a].sensor)
      PROVE  ClosersInv'
  <2>1. task[a].step # "close" /\ UNCHANGED <<closers, device, calls, late, ended>>
    BY <1>6 DEF GetSet, Prune, At
  <2>2. CASE AfterSensor(a, s)
    <3>1. PICK rest : Moves(a, IF rest = {} THEN "forget" ELSE "get",
                            task[a].grant, NoSensor, 0, task[a].index, rest)
      BY <2>2, EndMoves
    <3> QED
      BY <1>q, <2>1, <3>1 DEF Moves
  <2>3. CASE Moves(a, "discard", task[a].grant, s, slot[s], task[a].index, task[a].rest)
    BY <1>q, <2>1, <2>3 DEF Moves
  <2> QED
    BY <1>6, <2>2, <2>3, EndMoves DEF Prune
<1>7. ASSUME NEW a \in Actors, Prune(a) PROVE ClosersInv'
  <2>1. task[a].sensor \in Sensors
    BY <1>7, <1>u DEF Prune, At, TaskOf, TaskSet
  <2> QED
    BY <1>6, <1>7, <2>1
<1>8. ASSUME NEW a \in Actors, Discard(a) PROVE ClosersInv'
  <2>1. Moves(a, "prune", task[a].grant, task[a].sensor, task[a].set, task[a].index, task[a].rest)
    BY <1>8, EndMoves
  <2> QED
    BY <1>8, <1>q, <2>1 DEF Discard, At, Moves
<1>9. ASSUME \/ ExitBegins \/ UNCHANGED vars
             \/ \E a \in Actors, g \in GrantIds : EndAgain(a, g)
      PROVE  ClosersInv'
  BY <1>9, <1>p DEF ExitBegins, vars, EndAgain
<1>10. ASSUME NEW t \in Threads, OpenDevice(t) PROVE ClosersInv'
  <2>1. GoesIdle(t) /\ task[t].step = "open"
    BY <1>10, ThreadMoves DEF OpenDevice, At
  <2>2. /\ UNCHANGED <<closers, late, ended>>
        /\ device' = Append(device, [sensor |-> task[t].sensor, open |-> TRUE])
        /\ calls' = Append(calls, 0)
    BY <1>10 DEF OpenDevice
  <2>3. Len(calls) = Len(device) /\ calls \in Seq(Nat)
    BY <1>t DEF HandlesOK
  <2>4. \A d \in DOMAIN device : calls'[d] = calls[d]
    BY <1>d, <2>2, <2>3
  <2>5. DOMAIN device' = 1..(Len(device) + 1) /\ calls'[Len(device) + 1] = 0
    BY <1>t, <2>2, <2>3 DEF HandlesOK
  <2>6. \A d \in DOMAIN device' : ~Registered(d)' => calls'[d] = 0
    <3> SUFFICES ASSUME NEW d \in DOMAIN device', ~Registered(d)' PROVE calls'[d] = 0
      OBVIOUS
    <3>1. CASE d \in DOMAIN device
      <4>1. ~Registered(d)
        BY <2>2 DEF Registered
      <4> QED
        BY <2>4, <3>1, <4>1 DEF ClosersInv
    <3>2. CASE d \notin DOMAIN device
      BY <1>d, <2>5, <3>2
    <3> QED
      BY <3>1, <3>2
  <2>7. \A b \in Actors : \A g : Ends(b, g)' <=> Ends(b, g)
    BY <2>1 DEF Ends, GoesIdle, Moves
  <2>8. \A b \in Actors : \A g, s, i : Ends(b, g) => (Ahead(b, s, i)' <=> Ahead(b, s, i))
    BY <2>1 DEF Ends, Ahead, GoesIdle, Moves
  <2>9. \A g \in GrantIds, s \in Sensors : \A i \in DOMAIN closers[g][s] : EntryOf(g, s, i)'
    BY <1>d, <2>2, <2>4, <2>7, <2>8, EntryKeeps DEF ClosersInv
  <2>10. \A b \in Actors : task'[b].step = "close" => task'[b] = task[b]
    BY <2>1 DEF GoesIdle, Moves
  <2> QED
    <3>1. \A b \in Actors : task'[b].step = "close" /\ task'[b].sensor # NoSensor =>
            task'[b].index <= Len(closers'[task'[b].grant][task'[b].sensor])
      BY <2>2, <2>10 DEF ClosersInv
    <3>2. \A g, h \in GrantIds, s, r \in Sensors :
            \A i \in DOMAIN closers'[g][s], j \in DOMAIN closers'[h][r] :
              closers'[g][s][i] = closers'[h][r][j] => g = h /\ s = r /\ i = j
      BY <1>v, <2>2
    <3>3. \A g \in GrantIds, s \in Sensors : \A i \in DOMAIN closers'[g][s] : EntryOf(g, s, i)'
      BY <2>2, <2>9
    <3> QED
      BY <2>6, <3>1, <3>2, <3>3 DEF ClosersInv
<1>11. ASSUME NEW t \in Threads, NEW h \in GrantIds, NEW e \in DOMAIN device, RegisterOpenDevice(t, h, e)
       PROVE  ClosersInv'
  <2>0. PICK z, n : z = device[e].sensor /\ n = Len(closers[h][z]) + 1
    OBVIOUS
  <2>1. /\ closers' = [closers EXCEPT ![h][z] = Append(closers[h][z], e)] /\ z \in covers[h]
        /\ ~Registered(e) /\ UNCHANGED <<ended, device, calls, task>>
        /\ late' = IF h \in ended THEN late \cup {e} ELSE late
    BY <1>11, <2>0 DEF RegisterOpenDevice
  <2>2. z \in Sensors
    BY <1>t, <2>1 DEF StoreOK
  <2>3. /\ closers'[h][z] = Append(closers[h][z], e)
        /\ \A g \in GrantIds, s \in Sensors : (g # h \/ s # z) => closers'[g][s] = closers[g][s]
    BY <1>t, <2>1, <2>2 DEF HandlesOK
  <2>4. /\ n \in Nat /\ n = Len(closers[h][z]) + 1 /\ DOMAIN closers[h][z] = 1..Len(closers[h][z])
        /\ Len(closers[h][z]) \in Nat
        /\ DOMAIN closers'[h][z] = DOMAIN closers[h][z] \cup {n} /\ n \notin DOMAIN closers[h][z]
        /\ closers'[h][z][n] = e /\ Len(closers'[h][z]) = n
        /\ \A i \in DOMAIN closers[h][z] : closers'[h][z][i] = closers[h][z][i]
    <3> PICK c, k : c = closers[h][z] /\ k = Len(c)
      OBVIOUS
    <3>1. c \in Seq(DOMAIN device)
      BY <1>d, <2>2
    <3>2. k \in Nat /\ n = k + 1 /\ DOMAIN c = 1..k
      BY <2>0, <3>1
    <3>3. /\ Len(Append(c, e)) = k + 1 /\ DOMAIN Append(c, e) = 1..(k + 1)
          /\ Append(c, e)[k + 1] = e /\ \A i \in 1..k : Append(c, e)[i] = c[i]
      BY <3>1, <3>2
    <3>4. 1..(k + 1) = (1..k) \cup {k + 1} /\ k + 1 \notin 1..k /\ k + 1 \in Nat
      BY <3>2
    <3>5. closers'[h][z] = Append(c, e)
      BY <2>3
    <3> QED
      BY <3>2, <3>3, <3>4, <3>5
  <2>5. \A g \in GrantIds, s \in Sensors : \A i \in DOMAIN closers'[g][s] :
          \/ i \in DOMAIN closers[g][s] /\ closers'[g][s][i] = closers[g][s][i] /\ closers[g][s][i] # e
          \/ g = h /\ s = z /\ i = n /\ closers'[g][s][i] = e
    BY <2>1, <2>3, <2>4 DEF Registered
  <2>6. \A g, k \in GrantIds, s, r \in Sensors : \A i \in DOMAIN closers'[g][s], j \in DOMAIN closers'[k][r] :
          closers'[g][s][i] = closers'[k][r][j] => g = k /\ s = r /\ i = j
    <3> SUFFICES ASSUME NEW g \in GrantIds, NEW k \in GrantIds, NEW s \in Sensors, NEW r \in Sensors,
                        NEW i \in DOMAIN closers'[g][s], NEW j \in DOMAIN closers'[k][r],
                        closers'[g][s][i] = closers'[k][r][j]
                 PROVE  g = k /\ s = r /\ i = j
      OBVIOUS
    <3>1. \A x \in GrantIds, y \in Sensors : \A m \in DOMAIN closers'[x][y] :
            closers'[x][y][m] = e <=> x = h /\ y = z /\ m = n
      BY <2>5, <2>4
    <3>2. CASE closers'[g][s][i] = e
      BY <3>1, <3>2
    <3>3. CASE closers'[g][s][i] # e
      <4>1. /\ i \in DOMAIN closers[g][s] /\ closers'[g][s][i] = closers[g][s][i]
            /\ j \in DOMAIN closers[k][r] /\ closers'[k][r][j] = closers[k][r][j]
        BY <2>5, <3>3
      <4>2. closers[g][s][i] = closers[k][r][j]
        BY <4>1
      <4> QED
        BY <1>v, <4>1, <4>2
    <3> QED
      BY <3>2, <3>3
  <2>7. \A d \in DOMAIN device : ~Registered(d)' => calls[d] = 0
    <3> SUFFICES ASSUME NEW d \in DOMAIN device, ~Registered(d)' PROVE calls[d] = 0
      OBVIOUS
    <3>1. ~Registered(d)
      <4> SUFFICES ASSUME NEW g \in GrantIds, NEW s \in Sensors, NEW i \in DOMAIN closers[g][s],
                          closers[g][s][i] = d
                   PROVE  FALSE
        BY DEF Registered
      <4>1. i \in DOMAIN closers'[g][s] /\ closers'[g][s][i] = d
        BY <2>3, <2>4
      <4> QED
        BY <4>1 DEF Registered
    <3> QED
      BY <3>1 DEF ClosersInv
  <2>8. calls[e] = 0
    BY <2>1 DEF ClosersInv
  <2>9. \A b \in Actors : \A g, s, i : (Ends(b, g)' <=> Ends(b, g)) /\ (Ahead(b, s, i)' <=> Ahead(b, s, i))
    BY <2>1 DEF Ends, Ahead
  <2>10. \A g \in GrantIds, s \in Sensors : \A i \in DOMAIN closers'[g][s] : EntryOf(g, s, i)'
    <3> SUFFICES ASSUME NEW g \in GrantIds, NEW s \in Sensors, NEW i \in DOMAIN closers'[g][s]
                 PROVE  EntryOf(g, s, i)'
      OBVIOUS
    <3>1. CASE i \in DOMAIN closers[g][s] /\ closers'[g][s][i] = closers[g][s][i]
      <4>1. EntryOf(g, s, i) /\ (closers[g][s][i] \in late => closers[g][s][i] \in late')
        BY <2>1, <3>1 DEF ClosersInv
      <4> QED
        BY <2>1, <2>9, <3>1, <4>1, EntryKeeps
    <3>2. CASE g = h /\ closers'[g][s][i] = e
      <4>1. g \in ended => e \in late'
        BY <2>1, <3>2
      <4>2. \A b \in Actors : Ends(b, g) => g \in ended
        BY <1>u DEF Ends, TaskOf, Ending
      <4> QED
        BY <2>1, <2>8, <2>9, <3>2, <4>1, <4>2 DEF EntryOf
    <3> QED
      BY <2>5, <3>1, <3>2
  <2>11. ASSUME NEW b \in Actors, task[b].step = "close", task[b].sensor # NoSensor
         PROVE  task[b].index <= Len(closers'[task[b].grant][task[b].sensor])
    <3>1. /\ task[b].index <= Len(closers[task[b].grant][task[b].sensor])
          /\ task[b].sensor \in Sensors
      BY <1>u, <2>11 DEF ClosersInv, TaskSet
    <3>2. task[b].grant \in GrantIds
      BY <1>g, <2>11
    <3>3. CASE task[b].grant = h /\ task[b].sensor = z
      BY <1>u, <2>4, <3>1, <3>3
    <3>4. CASE task[b].grant # h \/ task[b].sensor # z
      BY <2>3, <3>1, <3>2, <3>4
    <3> QED
      BY <3>3, <3>4
  <2> QED
    BY <2>1, <2>6, <2>7, <2>10, <2>11 DEF ClosersInv
<1>12. ASSUME NEW a \in Actors, NEW h \in GrantIds, EndBegin(a, h) PROVE ClosersInv'
  <2>1. /\ Moves(a, "close", h, NoSensor, 0, 0, covers[h]) /\ task[a].step = "idle"
        /\ ended' = ended \cup {h} /\ h \notin ended /\ UNCHANGED <<closers, device, calls, late>>
    BY <1>12, EndMoves DEF EndBegin, MayEnd, InUse, At
  <2>2. \A b \in Actors : task[b].grant # h
    BY <1>12, EndsAlone
  <2>3. \A b \in Actors : \A g : g # h => (Ends(b, g)' <=> Ends(b, g))
    BY <2>1 DEF Ends, Moves
  <2>4. \A b \in Actors : \A g, s, i : Ends(b, g) => (Ahead(b, s, i)' <=> Ahead(b, s, i))
    BY <2>1 DEF Ends, Ahead, Moves
  <2>5. ASSUME NEW g \in GrantIds, NEW s \in Sensors, NEW i \in DOMAIN closers[g][s] PROVE EntryOf(g, s, i)'
    <3>1. EntryOf(g, s, i)
      BY DEF ClosersInv
    <3>2. CASE g # h
      <4>1. g \in ended' <=> g \in ended
        BY <2>1, <3>2
      <4> QED
        BY <2>1, <2>3, <2>4, <3>1, <3>2, <4>1, EntryKeeps
    <3>3. CASE g = h
      <4>1. s \in covers[h]
        <5>1. closers[h][s] # <<>>
          BY <3>3
        <5> QED
          BY <1>t, <5>1 DEF HandlesOK
      <4>2. \A b \in Actors : Ends(b, g)' <=> b = a
        BY <2>1, <2>2, <3>3 DEF Ends, Moves
      <4>3. Ahead(a, s, i)'
        BY <1>n, <2>1, <4>1 DEF Ahead, Moves
      <4>4. calls'[closers'[g][s][i]] = 0
        BY <2>1, <3>1, <3>3 DEF EntryOf
      <4> QED
        BY <2>1, <3>3, <4>2, <4>3, <4>4 DEF EntryOf
    <3> QED
      BY <3>2, <3>3
  <2>6. \A b \in Actors : task'[b].step = "close" /\ task'[b].sensor # NoSensor => task'[b] = task[b]
    BY <2>1 DEF Moves
  <2> QED
    BY <2>1, <2>5, <2>6 DEF ClosersInv, Registered
<1>13. ASSUME NEW a \in Actors, NEW z \in Sensors, CloseDevice(a, z) \/ CloseRaises(a, z) PROVE ClosersInv'
  <2>0. PICK h, n, e : h = task[a].grant /\ n = task[a].index + 1 /\ e = closers[h][z][n]
    OBVIOUS
  <2>1. Moves(a, "close", h, z, task[a].set, n, task[a].rest)
    BY <1>13, <2>0, EndMoves
  <2>2. /\ task[a].step = "close" /\ z \in task[a].rest /\ task[a].sensor \in {NoSensor, z}
        /\ task[a].index < Len(closers[h][z]) /\ calls' = [calls EXCEPT ![e] = @ + 1]
        /\ UNCHANGED <<closers, late, ended>>
    BY <1>13, <2>0 DEF CloseDevice, CloseRaises, Closing, At, NextCloser
  <2>3. h \in ended /\ h \in GrantIds /\ h # 0
    BY <1>g, <2>0, <2>2
  <2>4. n \in DOMAIN closers[h][z] /\ n <= Len(closers[h][z]) /\ e \in DOMAIN device
    <3>1. closers[h][z] \in Seq(DOMAIN device)
      BY <1>d, <2>3
    <3>2. n \in 1..Len(closers[h][z])
      <4>1. task[a].index \in Nat /\ Len(closers[h][z]) \in Nat
        BY <1>u, <3>1
      <4>2. n = task[a].index + 1 /\ task[a].index < Len(closers[h][z])
        BY <2>0, <2>2
      <4> QED
        BY <4>1, <4>2
    <3> QED
      BY <2>0, <3>1, <3>2
  <2>5. Ends(a, h) /\ Ahead(a, z, n)
    <3>1. ~(n <= task[a].index)
      <4>1. task[a].index \in Nat /\ n = task[a].index + 1
        BY <1>u, <2>0
      <4> QED
        BY <4>1
    <3> QED
      BY <2>0, <2>2, <3>1 DEF Ends, Ahead
  <2>6. calls[e] = 0
    <3>1. EntryOf(h, z, n)
      BY <1>w, <2>3, <2>4
    <3> QED
      BY <2>0, <2>5, <3>1 DEF EntryOf
  <2>7. calls'[e] = 1 /\ \A d \in DOMAIN device : d # e => calls'[d] = calls[d]
    BY <1>t, <1>d, <2>2, <2>4, <2>6 DEF HandlesOK
  <2>8. \A b \in Actors : \A g : Ends(b, g)' <=> Ends(b, g)
    BY <2>0, <2>1, <2>2 DEF Ends, Moves
  <2>9. \A b \in Actors : Ends(b, h) => b = a
    BY <1>s, <2>0, <2>3 DEF Ends
  <2>10. ASSUME NEW g \in GrantIds, NEW s \in Sensors, NEW i \in DOMAIN closers[g][s] PROVE EntryOf(g, s, i)'
    <3>1. EntryOf(g, s, i) /\ closers[g][s][i] \in DOMAIN device
      BY <1>d DEF ClosersInv
    <3>2. CASE g = h /\ s = z /\ i = n
      <4>1. ~Ahead(a, z, n)'
        <5>1. task'[a].sensor = z /\ task'[a].index = n /\ n <= n
          BY <1>u, <2>0, <2>1 DEF Moves
        <5> QED
          BY <5>1 DEF Ahead
      <4> QED
        BY <2>0, <2>2, <2>3, <2>7, <2>8, <2>9, <3>2, <4>1 DEF EntryOf
    <3>3. CASE ~(g = h /\ s = z /\ i = n)
      <4>1. closers[g][s][i] # e
        BY <1>v, <2>0, <2>3, <2>4, <3>3
      <4>2. calls'[closers[g][s][i]] = calls[closers[g][s][i]]
        BY <2>7, <3>1, <4>1
      <4>3. ASSUME NEW b \in Actors, Ends(b, g) PROVE Ahead(b, s, i)' <=> Ahead(b, s, i)
        <5>1. CASE b # a
          BY <2>1, <5>1 DEF Ahead, Moves
        <5>2. CASE b = a /\ s # z
          BY <1>n, <2>1, <2>2, <5>2 DEF Ahead, Moves
        <5>3. CASE b = a /\ s = z
          <6>1. g = h /\ i # n /\ i \in Nat
            <7>1. closers[g][s] \in Seq(DOMAIN device)
              BY <1>d
            <7> QED
              BY <2>0, <3>3, <4>3, <5>3, <7>1 DEF Ends
          <6>2. i >= 1
            <7>1. closers[g][s] \in Seq(DOMAIN device)
              BY <1>d
            <7> QED
              BY <7>1
          <6>3. task[a].sensor = NoSensor => task[a].index = 0
            BY <1>u, <1>n, <2>2 DEF TaskOf, TaskSet
          <6>4. i <= n <=> task[a].sensor = z /\ i <= task[a].index
            <7>1. CASE task[a].sensor = z
              BY <1>u, <2>0, <6>1, <7>1
            <7>2. CASE task[a].sensor = NoSensor
              BY <1>n, <2>0, <6>1, <6>2, <6>3, <7>2
            <7> QED
              BY <2>2, <7>1, <7>2
          <6> QED
            BY <2>1, <2>2, <5>3, <6>4 DEF Ahead, Moves
        <5> QED
          BY <5>1, <5>2, <5>3
      <4> QED
        BY <2>2, <2>8, <3>1, <4>2, <4>3, EntryKeeps
    <3> QED
      BY <3>2, <3>3
  <2>11. \A d \in DOMAIN device : ~Registered(d) => calls'[d] = 0
    <3>1. Registered(e)
      BY <2>0, <2>3, <2>4 DEF Registered
    <3> QED
      BY <2>7, <3>1 DEF ClosersInv
  <2>12. DOMAIN device' = DOMAIN device
    <3>1. device' = device \/ device' = [device EXCEPT ![e].open = FALSE]
      BY <1>13, <2>0 DEF CloseDevice, CloseRaises, NextCloser
    <3> QED
      BY <1>t, <3>1 DEF HandlesOK
  <2>13. \A b \in Actors : task'[b].step = "close" /\ task'[b].sensor # NoSensor =>
           task'[b].index <= Len(closers[task'[b].grant][task'[b].sensor])
    BY <2>1, <2>4 DEF ClosersInv, Moves
  <2> QED
    BY <2>2, <2>10, <2>11, <2>12, <2>13 DEF ClosersInv, Registered
<1>14. ASSUME NEW a \in Actors, NEW z \in Sensors, CloseListDone(a, z) PROVE ClosersInv'
  <2>0. PICK h, rest : h = task[a].grant /\ rest = task[a].rest \ {z}
    OBVIOUS
  <2>1. Moves(a, IF rest = {} THEN "get" ELSE "close", h, NoSensor, task[a].set, 0,
              IF rest = {} THEN covers[h] ELSE rest)
    BY <1>14, <2>0, EndMoves
  <2>2. /\ task[a].step = "close" /\ z \in task[a].rest /\ task[a].sensor \in {NoSensor, z}
        /\ task[a].index = Len(closers[h][z]) /\ UNCHANGED <<closers, device, calls, late, ended>>
    BY <1>14, <2>0 DEF CloseListDone, Closing, At
  <2>3. h \in ended /\ h \in GrantIds /\ h # 0
    BY <1>g, <2>0, <2>2
  <2>4. \A b \in Actors : task[b].grant = h => b = a
    BY <1>s, <2>0, <2>3
  <2>5. Ends(a, h)
    BY <2>0, <2>2 DEF Ends
  (* What was passed over stays so, and what is left stays ahead.          *)
  <2>6. ASSUME NEW s \in Sensors, NEW i \in DOMAIN closers[h][s]
        PROVE  Ahead(a, s, i) <=> s \in rest
    <3>1. closers[h][s] \in Seq(DOMAIN device)
      BY <1>d, <2>3
    <3>2. CASE s # z
      BY <1>n, <2>0, <2>2, <3>2 DEF Ahead
    <3>3. CASE s = z
      <4>1. i \in 1..task[a].index
        BY <2>2, <3>1, <3>3
      <4>2. task[a].sensor = z
        BY <1>u, <1>n, <2>2, <4>1 DEF TaskOf, TaskSet
      <4> QED
        BY <1>u, <2>0, <3>3, <4>1, <4>2 DEF Ahead
    <3> QED
      BY <3>2, <3>3
  <2>7. ASSUME NEW g \in GrantIds, NEW s \in Sensors, NEW i \in DOMAIN closers[g][s] PROVE EntryOf(g, s, i)'
    <3>1. EntryOf(g, s, i)
      BY DEF ClosersInv
    <3>2. CASE g # h
      <4>1. \A b \in Actors : Ends(b, g)' <=> Ends(b, g)
        BY <2>0, <2>1, <3>2 DEF Ends, Moves
      <4>2. \A b \in Actors : Ends(b, g) => (Ahead(b, s, i)' <=> Ahead(b, s, i))
        BY <2>0, <2>1, <3>2 DEF Ends, Ahead, Moves
      <4> QED
        BY <2>2, <3>1, <4>1, <4>2, EntryKeeps
    <3>3. CASE g = h /\ rest # {}
      <4>1. \A b \in Actors : (Ends(b, g)' <=> b = a) /\ (Ends(b, g) <=> b = a)
        BY <2>0, <2>1, <2>2, <2>4, <3>3 DEF Ends, Moves
      <4>2. Ahead(a, s, i)' <=> Ahead(a, s, i)
        BY <1>n, <2>1, <2>6, <3>3 DEF Ahead, Moves
      <4> QED
        BY <2>2, <3>1, <4>1, <4>2, EntryKeeps
    <3>4. CASE g = h /\ rest = {}
      <4>1. \A b \in Actors : ~Ends(b, g)'
        BY <2>1, <2>4, <3>4 DEF Ends, Moves
      <4>2. ~Ahead(a, s, i)
        BY <2>6, <3>4
      <4> QED
        BY <2>2, <2>3, <2>5, <3>1, <3>4, <4>1, <4>2 DEF EntryOf
    <3> QED
      BY <3>2, <3>3, <3>4
  <2>8. \A b \in Actors : task'[b].step = "close" /\ task'[b].sensor # NoSensor => task'[b] = task[b]
    BY <2>1 DEF Moves
  <2> QED
    BY <2>2, <2>7, <2>8 DEF ClosersInv, Registered
<1> QED
  BY <1>1, <1>2, <1>3, <1>4, <1>5, <1>6, <1>7, <1>8, <1>9, <1>10, <1>11, <1>12, <1>13, <1>14
     DEF Next, End, GrantRefused, RegisterRefused

(* Every closer registered with a grant that had not ended is called       *)
(* exactly once before the ending moves on to the store, however many      *)
(* threads end the grant and whatever other closers raise; any closer is   *)
(* called at most once.                                                    *)
THEOREM OneCloserCall == Spec => []ClosersCalledOnce
<1>1. Spec => [](ConsentInv /\ ClosersInv)
  BY ConsentInit, ConsentInvHolds, ClosersInvStep, PTL DEF Spec
<1>2. ConsentInv /\ ClosersInv => ClosersCalledOnce
  <2> SUFFICES ASSUME ConsentInv, ClosersInv, NEW g \in 1..made, NEW s \in Sensors,
                      NEW i \in DOMAIN closers[g][s]
               PROVE  LET d == closers[g][s][i]
                      IN /\ calls[d] <= 1
                         /\ g \in ended /\ d \notin late
                              /\ ~(\E a \in Actors : At(a, "close") /\ task[a].grant = g)
                              => calls[d] = 1
    BY DEF ClosersCalledOnce
  <2>1. EntryOf(g, s, i)
    <3>1. g \in GrantIds
      BY TypeParts, BoundsAssumption DEF ConsentInv, StoreOK, GrantIds
    <3> QED
      BY <3>1 DEF ClosersInv
  <2> QED
    BY <2>1 DEF EntryOf, Ends, At
<1> QED
  BY <1>1, <1>2, PTL

-----------------------------------------------------------------------------
(* The audit trail *)

LEMMA AuditInvStep == ConsentInv /\ StoreInv /\ AuditInv /\ [Next]_vars => AuditInv'
<1> SUFFICES ASSUME ConsentInv, StoreInv, AuditInv, [Next]_vars PROVE AuditInv'
  OBVIOUS
<1> USE DEF store, life, handles, history
<1>t. StoreOK /\ TaskOK /\ RestOK /\ TaskInv /\ OwnerInv /\ made \in Nat
  BY TypeParts DEF ConsentInv, StoreOK
<1>u. \A a \in Actors : task[a] \in TaskSet(made) /\ TaskOf(a) /\ task[a].grant \in 0..made
  BY <1>t DEF TaskOK, TaskInv, TaskSet
<1>a. Threads \subseteq Actors
  BY DEF Actors
<1>s. \A a, b \in Actors : task[a].grant # 0 /\ task[a].grant = task[b].grant => a = b
  BY <1>t DEF OwnerInv
<1>c. 1..made \subseteq GrantIds /\ ended \subseteq 1..made /\ 0 \notin 1..made /\ made + 1 \notin 1..made
  BY <1>t, BoundsAssumption DEF StoreOK, GrantIds
<1>f. \A s \in Sensors : IsFiniteSet(GrantedOf(s)) /\ IsFiniteSet(EndedOf(s))
  <2>1. IsFiniteSet(1..made)
    BY <1>t, FS_Interval
  <2>2. \A s \in Sensors : GrantedOf(s) \subseteq 1..made /\ EndedOf(s) \subseteq 1..made
    BY <1>c DEF GrantedOf, EndedOf
  <2> QED
    BY <2>1, <2>2, FS_Subset
(* Steps after which the same grants are handed out, and over.             *)
<1>q. ASSUME \A s \in Sensors : audit'[s]["granted"] = audit[s]["granted"] /\ audit'[s]["ended"] = audit[s]["ended"],
             \A s \in Sensors : GrantedOf(s)' = GrantedOf(s),
             clashed \subseteq clashed',
             clashed' = {} => \A s \in Sensors : EndedOf(s)' = EndedOf(s)
      PROVE  AuditInv'
  BY <1>q DEF AuditInv
(* Steps in which a task keeps its grant.                                  *)
<1>k. ASSUME NEW a \in Actors, \A b \in Actors : b # a => task'[b] = task[b],
             task'[a].grant = task[a].grant, Making(a)' <=> Making(a),
             UNCHANGED <<made, covers, ended>>,
             \A s \in Sensors : audit'[s]["granted"] = audit[s]["granted"] /\ audit'[s]["ended"] = audit[s]["ended"],
             clashed \subseteq clashed'
      PROVE  AuditInv'
  <2>1. \A b \in Actors : task'[b].grant = task[b].grant /\ (Making(b)' <=> Making(b))
    BY <1>k DEF Making
  <2>2. \A s \in Sensors : GrantedOf(s)' = GrantedOf(s)
    BY <1>k, <2>1 DEF GrantedOf
  <2>3. \A s \in Sensors : EndedOf(s)' = EndedOf(s)
    BY <1>k, <2>1 DEF EndedOf, Settled
  <2> QED
    BY <1>k, <1>q, <2>2, <2>3
<1>p. ASSUME UNCHANGED <<made, covers, ended, task, audit, clashed>> PROVE AuditInv'
  BY <1>p DEF AuditInv, GrantedOf, EndedOf, Settled, Making
<1>e. ASSUME NEW o \in Outcomes, NEW ss, Emit(o, ss)
      PROVE  \A s \in Sensors, x \in Outcomes :
               audit'[s][x] = IF x = o /\ s \in ss THEN audit[s][x] + 1 ELSE audit[s][x]
  <2>1. \A s \in Sensors : audit[s] \in [Outcomes -> Nat]
    BY <1>t DEF RestOK
  <2> QED
    BY <1>e, <2>1 DEF Emit
<1>n. /\ {"granted", "ended", "used", "denied"} = Outcomes
      /\ "granted" # "ended" /\ "used" \notin {"granted", "ended"} /\ "denied" \notin {"granted", "ended"}
  BY DEF Outcomes
<1>1. ASSUME NEW t \in Threads, NEW q \in Requests, GrantBegin(t, q) PROVE AuditInv'
  <2>1. Moves(t, "setdefault", made + 1, NoSensor, 0, 0, q) /\ task[t].grant = 0 /\ ~Making(t)
    BY <1>1, <1>a, <1>u, ThreadMoves DEF GrantBegin, InUse, At, TaskOf, Making, Ending
  <2>2. /\ made' = made + 1 /\ covers' = [covers EXCEPT ![made + 1] = q]
        /\ UNCHANGED <<ended, audit, clashed>>
    BY <1>1 DEF GrantBegin
  <2>3. 1..made' = 1..made \cup {made + 1} /\ \A g \in 1..made : covers'[g] = covers[g]
    <3>1. 1..(made + 1) = 1..made \cup {made + 1}
      BY <1>t
    <3> QED
      BY <1>t, <1>c, <2>2, <3>1 DEF StoreOK
  <2>4. Making(t)' /\ t \in Actors /\ task'[t].grant = made + 1
    BY <1>a, <2>1 DEF Making, Moves
  <2>5. \A b \in Actors, g \in 1..made :
          /\ Making(b)' /\ task'[b].grant = g <=> Making(b) /\ task[b].grant = g
          /\ task'[b].grant = g <=> task[b].grant = g
    BY <1>c, <2>1, <2>4 DEF Making, Moves
  <2>6. \A s \in Sensors : GrantedOf(s)' = GrantedOf(s)
    <3> SUFFICES ASSUME NEW s \in Sensors PROVE GrantedOf(s)' = GrantedOf(s)
      OBVIOUS
    <3>1. \A g : g \in GrantedOf(s)' <=> g \in GrantedOf(s)
      BY <1>c, <2>3, <2>4, <2>5 DEF GrantedOf
    <3> QED
      BY <3>1 DEF GrantedOf
  <2>7. \A s \in Sensors : EndedOf(s)' = EndedOf(s)
    BY <1>c, <2>2, <2>3, <2>5 DEF EndedOf, Settled
  <2> QED
    BY <1>q, <2>2, <2>6, <2>7
<1>2. ASSUME NEW t \in Threads, NEW s \in Sensors, SetDefault(t, s) PROVE AuditInv'
  <2>1. Moves(t, "add", task[t].grant, s, slot'[s], task[t].index, task[t].rest)
    BY <1>2, ThreadMoves
  <2>2. UNCHANGED <<made, covers, ended, audit>> /\ clashed \subseteq clashed' /\ task[t].step = "setdefault"
    BY <1>2, <1>a, TouchAlone DEF SetDefault, At
  <2> QED
    BY <1>a, <1>k, <2>1, <2>2 DEF Making, Moves
<1>3. ASSUME NEW t \in Threads, Add(t) PROVE AuditInv'
  <2>1. PICK rest : Moves(t, IF rest = {} THEN "activate" ELSE "setdefault",
                          task[t].grant, NoSensor, 0, task[t].index, rest)
    BY <1>3, ThreadMoves
  <2>2. UNCHANGED <<made, covers, ended, audit>> /\ clashed \subseteq clashed' /\ task[t].step = "add"
    BY <1>3, <1>a, TouchAlone DEF Add, At
  <2> QED
    BY <1>a, <1>k, <2>1, <2>2 DEF Making, Moves
<1>4. ASSUME NEW t \in Threads, Activate(t) PROVE AuditInv'
  <2>0. PICK h : h = task[t].grant
    OBVIOUS
  <2>1. GoesIdle(t) /\ task[t].step = "activate" /\ Making(t) /\ h # 0 /\ h \in 1..made /\ h \notin ended
    <3>1. GoesIdle(t) /\ task[t].step = "activate" /\ Making(t)
      BY <1>4, ThreadMoves DEF Activate, At, Making
    <3>2. h # 0 /\ h \notin ended /\ h \in 0..made
      BY <1>a, <1>u, <2>0, <3>1 DEF TaskOf
    <3> QED
      BY <1>t, <3>1, <3>2
  <2>2. Emit("granted", covers[h]) /\ UNCHANGED <<made, covers, ended, clashed>>
    BY <1>4, <2>0 DEF Activate
  <2>3. \A s \in Sensors : /\ audit'[s]["ended"] = audit[s]["ended"]
                           /\ audit'[s]["granted"] = IF s \in covers[h] THEN audit[s]["granted"] + 1
                                                                      ELSE audit[s]["granted"]
    BY <1>e, <1>n, <2>2
  <2>4. \A b \in Actors : (Making(b)' <=> Making(b) /\ b # t) /\ (b # t => task'[b] = task[b])
    BY <2>1 DEF GoesIdle, Moves, Making
  <2>5. \A b \in Actors : task[b].grant = h => b = t
    BY <1>a, <1>s, <2>0, <2>1
  <2>6. ASSUME NEW s \in Sensors
        PROVE  /\ h \notin GrantedOf(s)
               /\ GrantedOf(s)' = IF s \in covers[h] THEN GrantedOf(s) \cup {h} ELSE GrantedOf(s)
    <3>1. h \notin GrantedOf(s)
      BY <1>a, <2>0, <2>1 DEF GrantedOf
    <3>2. \A g : g \in GrantedOf(s)' <=> g \in GrantedOf(s) \/ (g = h /\ s \in covers[h])
      BY <1>a, <2>0, <2>1, <2>2, <2>4, <2>5 DEF GrantedOf
    <3> QED
      BY <3>1, <3>2
  <2>7. \A s \in Sensors : EndedOf(s)' = EndedOf(s)
    <3>1. \A g \in ended : Settled(g)' <=> Settled(g)
      BY <1>c, <2>0, <2>1, <2>4 DEF Settled, GoesIdle, Moves
    <3> QED
      BY <2>2, <3>1 DEF EndedOf
  <2>8. \A s \in Sensors : audit'[s]["granted"] = Cardinality(GrantedOf(s)')
    <3> SUFFICES ASSUME NEW s \in Sensors PROVE audit'[s]["granted"] = Cardinality(GrantedOf(s)')
      OBVIOUS
    <3>1. Cardinality(GrantedOf(s) \cup {h}) = Cardinality(GrantedOf(s)) + 1
      BY <1>f, <2>6, FS_AddElement
    <3> QED
      BY <2>3, <2>6, <3>1 DEF AuditInv
  <2> QED
    BY <2>2, <2>3, <2>7, <2>8 DEF AuditInv
<1>5. ASSUME NEW a \in Actors, Forget(a) PROVE AuditInv'
  <2>0. PICK h : h = task[a].grant
    OBVIOUS
  <2>1. GoesIdle(a) /\ task[a].step = "forget" /\ ~Making(a) /\ h # 0 /\ h \in ended
    BY <1>5, <1>u, <1>c, <2>0, EndMoves DEF Forget, At, TaskOf, Ending, Making
  <2>2. Emit("ended", covers[h]) /\ UNCHANGED <<made, covers, ended, clashed>>
    BY <1>5, <2>0 DEF Forget
  <2>3. \A s \in Sensors : /\ audit'[s]["granted"] = audit[s]["granted"]
                           /\ audit'[s]["ended"] = IF s \in covers[h] THEN audit[s]["ended"] + 1
                                                                    ELSE audit[s]["ended"]
    BY <1>e, <1>n, <2>2
  <2>4. \A b \in Actors : b # a => task'[b] = task[b]
    BY <2>1 DEF GoesIdle, Moves
  <2>5. \A b \in Actors : task[b].grant = h => b = a
    BY <1>s, <2>0, <2>1
  <2>6. ASSUME NEW s \in Sensors
        PROVE  /\ h \notin EndedOf(s)
               /\ EndedOf(s)' = IF s \in covers[h] THEN EndedOf(s) \cup {h} ELSE EndedOf(s)
    <3>1. h \notin EndedOf(s)
      BY <2>0 DEF EndedOf, Settled
    <3>2. \A g \in ended : Settled(g)' <=> Settled(g) \/ g = h
      BY <1>c, <2>0, <2>1, <2>4, <2>5 DEF Settled, GoesIdle, Moves
    <3>3. \A g : g \in EndedOf(s)' <=> g \in EndedOf(s) \/ (g = h /\ s \in covers[h])
      BY <2>1, <2>2, <3>2 DEF EndedOf
    <3> QED
      BY <3>1, <3>3
  <2>7. \A s \in Sensors : GrantedOf(s)' = GrantedOf(s)
    <3>1. \A b \in Actors : \A g : (Making(b)' => task'[b].grant # g) <=> (Making(b) => task[b].grant # g)
      BY <2>1, <2>4 DEF GoesIdle, Moves, Making
    <3> QED
      BY <2>2, <3>1 DEF GrantedOf
  <2>8. \A s \in Sensors : clashed = {} => audit'[s]["ended"] = Cardinality(EndedOf(s)')
    <3> SUFFICES ASSUME NEW s \in Sensors, clashed = {} PROVE audit'[s]["ended"] = Cardinality(EndedOf(s)')
      OBVIOUS
    <3>1. Cardinality(EndedOf(s) \cup {h}) = Cardinality(EndedOf(s)) + 1
      BY <1>f, <2>6, FS_AddElement
    <3> QED
      BY <2>3, <2>6, <3>1 DEF AuditInv
  <2> QED
    BY <2>2, <2>3, <2>7, <2>8 DEF AuditInv
<1>6. ASSUME NEW a \in Actors, PruneRaises(a) PROVE AuditInv'
  <2>1. /\ GoesIdle(a) /\ task[a].step = "prune" /\ Touch(a, task[a].sensor) /\ slot[task[a].sensor] = 0
        /\ UNCHANGED <<made, covers, ended, audit>>
    BY <1>6, EndMoves DEF PruneRaises, At
  <2>2. clashed' # {}
    <3>1. task[a].sensor \in Sensors /\ task[a].set # 0
      BY <1>u, <2>1 DEF TaskOf, TaskSet
    <3>2. Inside(a, task[a].sensor)
      BY <2>1 DEF Inside
    <3>3. task[a].sensor \in clashed
      BY <2>1, <3>1, <3>2 DEF StoreInv
    <3> QED
      BY <2>1, <3>3, TouchAlone
  <2>3. \A b \in Actors : \A g : (Making(b)' => task'[b].grant # g) <=> (Making(b) => task[b].grant # g)
    BY <2>1 DEF GoesIdle, Moves, Making
  <2>4. \A s \in Sensors : GrantedOf(s)' = GrantedOf(s)
    BY <2>1, <2>3 DEF GrantedOf
  <2> QED
    BY <1>q, <2>1, <2>2, <2>4, TouchAlone
<1>7. ASSUME NEW t \in Threads, NEW s \in Sensors, Check(t, s) PROVE AuditInv'
  <2>1. GoesIdle(t) \/ Moves(t, "open", 0, s, 0, 0, {})
    BY <1>7, ThreadMoves
  <2>2. task[t].grant = 0 /\ ~Making(t) /\ UNCHANGED <<made, covers, ended, clashed>>
    BY <1>7, <1>a, <1>u DEF Check, InUse, At, TaskOf, Making, Ending
  <2>3. Emit("used", {s}) \/ Emit("denied", {s})
    BY <1>7 DEF Check
  <2>4. \A r \in Sensors : audit'[r]["granted"] = audit[r]["granted"] /\ audit'[r]["ended"] = audit[r]["ended"]
    BY <1>e, <1>n, <2>3
  <2> QED
    BY <1>a, <1>k, <2>1, <2>2, <2>4 DEF GoesIdle, Moves, Making
<1>8. ASSUME NEW t \in Threads, OpenDevice(t) PROVE AuditInv'
  <2>1. GoesIdle(t) /\ UNCHANGED <<made, covers, ended, audit, clashed>>
    BY <1>8, ThreadMoves DEF OpenDevice
  <2>2. task[t].grant = 0 /\ ~Making(t)
    BY <1>8, <1>a, <1>u DEF OpenDevice, At, TaskOf, Making, Ending
  <2> QED
    BY <1>a, <1>k, <2>1, <2>2 DEF GoesIdle, Moves, Making
<1>9. ASSUME NEW a \in Actors, NEW g \in GrantIds, EndBegin(a, g) PROVE AuditInv'
  <2>1. /\ Moves(a, "close", g, NoSensor, 0, 0, covers[g]) /\ ended' = ended \cup {g} /\ g \notin ended
        /\ task[a].step = "idle" /\ UNCHANGED <<made, covers, audit, clashed>>
    BY <1>9, EndMoves DEF EndBegin, MayEnd, InUse, At
  <2>2. \A b \in Actors : task[b].grant # g
    BY <1>9, EndsAlone
  <2>3. task[a].grant = 0
    BY <1>u, <2>1 DEF TaskOf, Making, Ending
  <2>4. \A b \in Actors : \A h : (Making(b)' => task'[b].grant # h) <=> (Making(b) => task[b].grant # h)
    BY <2>1 DEF Moves, Making
  <2>5. \A s \in Sensors : GrantedOf(s)' = GrantedOf(s)
    BY <2>1, <2>4 DEF GrantedOf
  <2>6. ~Settled(g)' /\ \A h \in ended : Settled(h)' <=> Settled(h)
    BY <1>c, <2>1, <2>3 DEF Settled, Moves
  <2>7. \A s \in Sensors : EndedOf(s)' = EndedOf(s)
    BY <2>1, <2>6 DEF EndedOf
  <2> QED
    BY <1>q, <2>1, <2>5, <2>7
<1>10. ASSUME NEW a \in Actors, NEW s \in Sensors,
              CloseDevice(a, s) \/ CloseRaises(a, s) \/ CloseListDone(a, s) PROVE AuditInv'
  <2>1. /\ task[a].step = "close" /\ UNCHANGED <<made, covers, ended, audit, clashed>>
        /\ task'[a].grant = task[a].grant /\ task'[a].step \in {"close", "get"}
        /\ \A b \in Actors : b # a => task'[b] = task[b]
    BY <1>10, EndMoves DEF CloseDevice, CloseRaises, CloseListDone, Closing, At, Moves
  <2> QED
    BY <1>k, <2>1 DEF Making
<1>11. ASSUME NEW a \in Actors, NEW s \in Sensors, GetSet(a, s) PROVE AuditInv'
  <2>1. /\ task[a].step = "get" /\ UNCHANGED <<made, covers, ended, audit>> /\ clashed \subseteq clashed'
    BY <1>11, TouchAlone DEF GetSet, At
  <2>2. /\ task'[a].grant = task[a].grant /\ task'[a].step \in {"get", "forget", "discard"}
        /\ \A b \in Actors : b # a => task'[b] = task[b]
    BY <1>11, EndMoves DEF Moves
  <2> QED
    BY <1>k, <2>1, <2>2 DEF Making
<1>12. ASSUME NEW a \in Actors, Discard(a) PROVE AuditInv'
  <2>1. /\ task[a].step = "discard" /\ UNCHANGED <<made, covers, ended, audit>> /\ clashed \subseteq clashed'
    BY <1>12, TouchAlone DEF Discard, At
  <2>2. Moves(a, "prune", task[a].grant, task[a].sensor, task[a].set, task[a].index, task[a].rest)
    BY <1>12, EndMoves
  <2> QED
    BY <1>k, <2>1, <2>2 DEF Making, Moves
<1>13. ASSUME NEW a \in Actors, Prune(a) PROVE AuditInv'
  <2>1. /\ task[a].step = "prune" /\ UNCHANGED <<made, covers, ended, audit>> /\ clashed \subseteq clashed'
        /\ AfterSensor(a, task[a].sensor)
    BY <1>13, TouchAlone DEF Prune, At
  <2>2. task[a].sensor \in Sensors
    BY <1>u, <2>1 DEF TaskOf, TaskSet
  <2>3. /\ task'[a].grant = task[a].grant /\ task'[a].step \in {"get", "forget"}
        /\ \A b \in Actors : b # a => task'[b] = task[b]
    BY <2>1, <2>2, EndMoves DEF Moves
  <2> QED
    BY <1>k, <2>1, <2>3 DEF Making
<1>14. ASSUME \/ ExitBegins \/ UNCHANGED vars
              \/ \E a \in Actors, g \in GrantIds : EndAgain(a, g)
              \/ \E t \in Threads, g \in GrantIds, d \in DOMAIN device : RegisterOpenDevice(t, g, d)
       PROVE  AuditInv'
  BY <1>14, <1>p DEF ExitBegins, vars, EndAgain, RegisterOpenDevice
<1> QED
  BY <1>1, <1>2, <1>3, <1>4, <1>5, <1>6, <1>7, <1>8, <1>9, <1>10, <1>11, <1>12, <1>13, <1>14
     DEF Next, End, GrantRefused, RegisterRefused

(* The audit trail adds up: while no two threads clash over a sensor, what *)
(* it says was granted and not ended is as much as is in force.            *)
THEOREM AuditAddsUp == Spec => []AuditBalanced
<1>1. Spec => [](ConsentInv /\ MemberInv /\ AuditInv)
  BY ConsentInit, MembersHold, AuditInvStep, PTL DEF Spec
<1>2. ConsentInv /\ MemberInv /\ AuditInv => AuditBalanced
  <2> SUFFICES ASSUME ConsentInv, MemberInv, AuditInv, clashed = {}, \A g \in 1..made : Settled(g),
                      NEW s \in Sensors
               PROVE  audit[s]["granted"] - audit[s]["ended"] = Cardinality(Stored(s))
    BY DEF AuditBalanced
  <2>1. StoreOK /\ HeapInv /\ made \in Nat
    BY TypeParts DEF ConsentInv, StoreOK
  <2>2. /\ GrantedOf(s) = {g \in 1..made : s \in covers[g]}
        /\ EndedOf(s) = {g \in ended : s \in covers[g]} /\ ended \subseteq 1..made
    BY <2>1 DEF GrantedOf, EndedOf, Settled, StoreOK
  <2>3. Stored(s) \subseteq GrantedOf(s)
    <3> SUFFICES ASSUME NEW g \in Stored(s) PROVE g \in GrantedOf(s)
      OBVIOUS
    <3>1. heap[s] \in Seq(SUBSET (1..made)) /\ slot[s] \in 0..Len(heap[s])
      BY <2>1 DEF StoreOK
    <3>2. slot[s] \in DOMAIN heap[s] /\ g \in heap[s][slot[s]]
      BY <3>1 DEF Stored
    <3> QED
      BY <2>1, <2>2, <3>1, <3>2 DEF HeapInv
  <2>4. \A g \in GrantedOf(s) : g \in Stored(s) <=> g \notin ended
    <3> SUFFICES ASSUME NEW g \in GrantedOf(s) PROVE g \in Stored(s) <=> g \notin ended
      OBVIOUS
    <3>1. g \in 1..made /\ s \in covers[g] /\ MemberOf(g)
      BY <2>2 DEF MemberInv
    <3> QED
      BY <3>1 DEF MemberOf, Undisturbed, Covered, Settled
  <2>5. Stored(s) = GrantedOf(s) \ EndedOf(s) /\ EndedOf(s) \subseteq GrantedOf(s)
    BY <2>2, <2>3, <2>4
  <2>6. IsFiniteSet(GrantedOf(s)) /\ IsFiniteSet(EndedOf(s))
    <3>1. IsFiniteSet(1..made)
      BY <2>1, FS_Interval
    <3>2. GrantedOf(s) \subseteq 1..made /\ EndedOf(s) \subseteq 1..made
      BY <2>2
    <3> QED
      BY <3>1, <3>2, FS_Subset
  <2>7. Cardinality(GrantedOf(s) \ EndedOf(s)) = Cardinality(GrantedOf(s)) - Cardinality(EndedOf(s))
    <3>1. GrantedOf(s) \cap EndedOf(s) = EndedOf(s)
      BY <2>5
    <3> QED
      BY <2>6, <3>1, FS_Difference
  <2> QED
    BY <2>5, <2>7 DEF AuditInv
<1> QED
  BY <1>1, <1>2, PTL
=============================================================================
