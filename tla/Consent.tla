------------------------------ MODULE Consent ------------------------------
(***************************************************************************)
(* The consent gate of registry/consent.py, the grants it hands out and    *)
(* the reads that ask it.  Nothing in the gate takes a lock: a step is     *)
(* what CPython runs without a switch of threads, so a call ends a step,   *)
(* and plain tests and assignments between two calls belong to one.        *)
(*                                                                         *)
(* _grants is a dict of mutable sets.  A thread that looked a set up keeps *)
(* using it when the dict has moved on, so the sets are objects here:      *)
(* heap[s][i] is the i-th set made for sensor s, slot[s] the one the dict  *)
(* has under s, and 0 says that it has none.                               *)
(***************************************************************************)
EXTENDS Integers, Sequences, FiniteSets, Functions

CONSTANTS
  Threads,    (* application threads *)
  Sensors,    (* ids of privacy-sensitive sensors *)
  Pattern,    (* an element of a request that is not a literal id *)
  MaxGrants,  (* bound: grants made *)
  MaxChecks   (* bound: checks made by read() and stream(), and so the  *)
              (* device handles opened                                  *)

ASSUME SensorsAssumption == Pattern \notin Sensors /\ "none" \notin Sensors
ASSUME ExitAssumption    == "exit" \notin Threads
ASSUME BoundsAssumption  == {MaxGrants, MaxChecks} \subseteq Nat

VARIABLES
  made,     (* grant ids drawn from _id_counter so far *)
  covers,   (* ConsentGrant.sensor_ids *)
  ended,    (* grants with _ended set *)
  active,   (* keys of _active_grants *)
  slot,     (* _grants: the set it has for each sensor *)
  heap,     (* every set object that was ever in _grants *)
  closers,  (* ConsentGrant._open_devices *)
  audit,    (* how often the audit hook was called, by sensor and outcome *)
  task,     (* what each actor is doing *)
  exiting,  (* the interpreter is shutting down *)
  toEnd,    (* grants _end_all_grants has still to end *)
  device,   (* the handles opened so far: sensor, and whether it is open *)
  calls,    (* how often the closer of each of them was called *)
  late,     (* history: handles registered with a grant that had ended *)
  clashed   (* history: sensors whose grants two threads changed at once *)

GrantIds == 1..MaxGrants
Outcomes == {"granted", "used", "denied", "ended"}
Actors   == Threads \cup {"exit"}
NoSensor == "none"
Steps == {"idle", "setdefault", "add", "activate", "close", "get", "discard", "prune", "forget", "open"}

store   == <<made, covers, ended, active, slot, heap>>
life    == <<exiting, toEnd>>
handles == <<device, calls>>
history == <<late, clashed>>
vars == <<store, closers, audit, task, life, handles, history>>

(* A task: the step it is at, the grant it makes or ends, the sensor and   *)
(* the set object it works on, how many closers of that sensor it called,  *)
(* and the sensors its loop has not finished with.                         *)
Idle == [step |-> "idle", grant |-> 0, sensor |-> NoSensor, set |-> 0, index |-> 0, rest |-> {}]

Init ==
  /\ made = 0
  /\ covers = [g \in GrantIds |-> {}]
  /\ ended = {}
  /\ active = {}
  /\ slot = [s \in Sensors |-> 0]
  /\ heap = [s \in Sensors |-> <<>>]
  /\ closers = [g \in GrantIds |-> [s \in Sensors |-> <<>>]]
  /\ audit = [s \in Sensors |-> [o \in Outcomes |-> 0]]
  /\ task = [a \in Actors |-> Idle]
  /\ exiting = FALSE
  /\ toEnd = {}
  /\ device = <<>>
  /\ calls = <<>>
  /\ late = {}
  /\ clashed = {}

At(a, step) == task[a].step = step
InUse(t) == At(t, "idle") /\ ~exiting

(* The ids in the set _grants has for s, what is_granted goes by. *)
Stored(s) == IF slot[s] = 0 THEN {} ELSE heap[s][slot[s]]

Emit(outcome, ss) ==
  audit' = [s \in Sensors |->
              IF s \in ss THEN [audit[s] EXCEPT ![outcome] = @ + 1] ELSE audit[s]]

(* a changes the grants of s; another thread that is in the middle of      *)
(* doing so holds the set of s.                                            *)
Touch(a, s) ==
  clashed' = IF \E b \in Actors \ {a} :
                  task[b].sensor = s /\ task[b].step \in {"add", "discard", "prune"}
             THEN clashed \cup {s} ELSE clashed

-----------------------------------------------------------------------------
(* ConsentGate.grant *)

(* InvalidConsentRequestError: nothing named, or not by its literal id. *)
GrantRefused(t, request) ==
  /\ InUse(t)
  /\ request = {} \/ Pattern \in request
  /\ UNCHANGED vars

GrantBegin(t, request) ==
  /\ InUse(t)
  /\ made < MaxGrants
  /\ request # {} /\ Pattern \notin request
  /\ made' = made + 1
  /\ covers' = [covers EXCEPT ![made'] = request]
  /\ task' = [task EXCEPT ![t] = [Idle EXCEPT !.step = "setdefault", !.grant = made',
                                              !.rest = request]]
  /\ UNCHANGED <<ended, active, slot, heap, closers, audit, life, handles, history>>

(* self._grants.setdefault(sid, set()) *)
SetDefault(t, s) ==
  /\ At(t, "setdefault")
  /\ s \in task[t].rest
  /\ IF slot[s] = 0
       THEN /\ heap' = [heap EXCEPT ![s] = Append(@, {})]
            /\ slot' = [slot EXCEPT ![s] = Len(heap'[s])]
       ELSE UNCHANGED <<heap, slot>>
  /\ task' = [task EXCEPT ![t] = [@ EXCEPT !.step = "add", !.sensor = s, !.set = slot'[s]]]
  /\ Touch(t, s)
  /\ UNCHANGED <<made, covers, ended, active, closers, audit, life, handles, late>>

(* .add(grant_id), to the set that setdefault returned *)
Add(t) ==
  LET s == task[t].sensor
      rest == task[t].rest \ {s}
  IN /\ At(t, "add")
     /\ heap' = [heap EXCEPT ![s][task[t].set] = @ \cup {task[t].grant}]
     /\ task' = [task EXCEPT ![t] = [@ EXCEPT !.step = IF rest = {} THEN "activate" ELSE "setdefault",
                                              !.sensor = NoSensor, !.set = 0, !.rest = rest]]
     /\ Touch(t, s)
     /\ UNCHANGED <<made, covers, ended, active, slot, closers, audit, life, handles, late>>

(* Into _active_grants; "granted" is emitted and the grant handed out.     *)
(* The hook is called sensor by sensor; the calls are one step, for nobody *)
(* but AuditBalanced looks at them, and not before the last.               *)
Activate(t) ==
  /\ At(t, "activate")
  /\ active' = active \cup {task[t].grant}
  /\ Emit("granted", covers[task[t].grant])
  /\ task' = [task EXCEPT ![t] = Idle]
  /\ UNCHANGED <<made, covers, ended, slot, heap, closers, life, handles, history>>

(* grant() has returned g. *)
HandedOut(g) ==
  /\ g <= made
  /\ \A t \in Threads : task[t].grant = g => ~task[t].step \in {"setdefault", "add", "activate"}

-----------------------------------------------------------------------------
(* ConsentGrant.register_open_device *)

Registered(d) ==
  \E g \in GrantIds, s \in Sensors : \E i \in DOMAIN closers[g][s] : closers[g][s][i] = d

(* The grant takes the closer of an open handle, even when it has ended. *)
RegisterOpenDevice(t, g, d) ==
  LET s == device[d].sensor
  IN /\ InUse(t)
     /\ HandedOut(g)
     /\ device[d].open /\ ~Registered(d)
     /\ s \in covers[g]
     /\ closers' = [closers EXCEPT ![g][s] = Append(@, d)]
     /\ late' = IF g \in ended THEN late \cup {d} ELSE late
     /\ UNCHANGED <<store, audit, task, life, handles, clashed>>

(* KeyError *)
RegisterRefused(t, g, d) ==
  /\ InUse(t)
  /\ HandedOut(g)
  /\ device[d].sensor \notin covers[g]
  /\ UNCHANGED vars

-----------------------------------------------------------------------------
(* ConsentGrant._end and ConsentGate._end_grant *)

(* Context exit and revoke(), in any thread, and the atexit hook. *)
MayEnd(a, g) ==
  \/ a # "exit" /\ InUse(a) /\ HandedOut(g)
  \/ a = "exit" /\ At(a, "idle") /\ g \in toEnd

(* It has ended already. *)
EndAgain(a, g) ==
  /\ MayEnd(a, g)
  /\ g \in ended
  /\ toEnd' = toEnd \ {g}
  /\ UNCHANGED <<store, closers, audit, task, exiting, handles, history>>

(* Testing and setting _ended is one step: no call comes between. *)
EndBegin(a, g) ==
  /\ MayEnd(a, g)
  /\ g \notin ended
  /\ ended' = ended \cup {g}
  /\ task' = [task EXCEPT ![a] = [Idle EXCEPT !.step = "close", !.grant = g, !.rest = covers[g]]]
  /\ UNCHANGED <<made, covers, active, slot, heap, closers, audit, life, handles, history>>

(* The loops over _open_devices.items() and over one list of closers: the  *)
(* latter also reaches what is appended while it runs.                     *)
Closing(a, s) ==
  /\ At(a, "close")
  /\ s \in task[a].rest
  /\ task[a].sensor \in {NoSensor, s}

NextCloser(a, s) == closers[task[a].grant][s][task[a].index + 1]

CloseDevice(a, s) ==
  /\ Closing(a, s)
  /\ task[a].index < Len(closers[task[a].grant][s])
  /\ device' = [device EXCEPT ![NextCloser(a, s)].open = FALSE]
  /\ calls' = [calls EXCEPT ![NextCloser(a, s)] = @ + 1]
  /\ task' = [task EXCEPT ![a] = [@ EXCEPT !.sensor = s, !.index = task[a].index + 1]]
  /\ UNCHANGED <<store, closers, audit, life, history>>

(* Mutant: the exception leaves revoke(). *)
CloseRaisesOut(a, s) ==
  /\ Closing(a, s)
  /\ task[a].index < Len(closers[task[a].grant][s])
  /\ calls' = [calls EXCEPT ![NextCloser(a, s)] = @ + 1]
  /\ task' = [task EXCEPT ![a] = Idle]
  /\ toEnd' = toEnd \ {task[a].grant}
  /\ UNCHANGED <<store, closers, audit, exiting, device, history>>

(* The closer raises: the device may be left open, the loop goes on. *)
CloseRaises(a, s) ==
  /\ Closing(a, s)
  /\ task[a].index < Len(closers[task[a].grant][s])
  /\ calls' = [calls EXCEPT ![NextCloser(a, s)] = @ + 1]
  /\ task' = [task EXCEPT ![a] = [@ EXCEPT !.sensor = s, !.index = task[a].index + 1]]
  /\ UNCHANGED <<store, closers, audit, life, device, history>>

CloseListDone(a, s) ==
  LET rest == task[a].rest \ {s}
  IN /\ Closing(a, s)
     /\ task[a].index = Len(closers[task[a].grant][s])
     /\ task' = [task EXCEPT ![a] = [@ EXCEPT !.step = IF rest = {} THEN "get" ELSE "close",
                                              !.sensor = NoSensor, !.index = 0,
                                              !.rest = IF rest = {} THEN covers[task[a].grant]
                                                                    ELSE rest]]
     /\ UNCHANGED <<store, closers, audit, life, handles, history>>

(* Where the loop of _end_grant goes after sensor s. *)
AfterSensor(a, s) ==
  LET rest == task[a].rest \ {s}
  IN task' = [task EXCEPT ![a] = [@ EXCEPT !.step = IF rest = {} THEN "forget" ELSE "get",
                                           !.sensor = NoSensor, !.set = 0, !.rest = rest]]

(* ids = self._grants.get(sid) *)
GetSet(a, s) ==
  /\ At(a, "get")
  /\ s \in task[a].rest
  /\ IF slot[s] = 0
       THEN AfterSensor(a, s)
       ELSE task' = [task EXCEPT ![a] = [@ EXCEPT !.step = "discard", !.sensor = s, !.set = slot[s]]]
  /\ Touch(a, s)
  /\ UNCHANGED <<store, closers, audit, life, handles, late>>

(* ids.discard(grant_id) *)
Discard(a) ==
  /\ At(a, "discard")
  /\ heap' = [heap EXCEPT ![task[a].sensor][task[a].set] = @ \ {task[a].grant}]
  /\ task' = [task EXCEPT ![a].step = "prune"]
  /\ Touch(a, task[a].sensor)
  /\ UNCHANGED <<made, covers, ended, active, slot, closers, audit, life, handles, late>>

(* Mutant: the entry goes although other grants still cover the sensor. *)
PruneAlways(a) ==
  LET s == task[a].sensor
  IN /\ At(a, "prune")
     /\ slot' = [slot EXCEPT ![s] = 0]
     /\ AfterSensor(a, s)
     /\ Touch(a, s)
     /\ UNCHANGED <<made, covers, ended, active, heap, closers, audit, life, handles, late>>

(* if not ids: del self._grants[sid], whatever set is there by now *)
Prune(a) ==
  LET s == task[a].sensor
      empty == heap[s][task[a].set] = {}
  IN /\ At(a, "prune")
     /\ empty => slot[s] # 0
     /\ slot' = IF empty THEN [slot EXCEPT ![s] = 0] ELSE slot
     /\ AfterSensor(a, s)
     /\ Touch(a, s)
     /\ UNCHANGED <<made, covers, ended, active, heap, closers, audit, life, handles, late>>

(* Another thread deleted the entry first: KeyError out of revoke().  What *)
(* is left of _end_grant and _end is never done.                           *)
PruneRaises(a) ==
  LET s == task[a].sensor
  IN /\ At(a, "prune")
     /\ heap[s][task[a].set] = {} /\ slot[s] = 0
     /\ task' = [task EXCEPT ![a] = Idle]
     /\ Touch(a, s)
     /\ UNCHANGED <<store, closers, audit, life, handles, late>>

(* Mutant: the "ended" events are only emitted for the last grant. *)
ForgetSilently(a) ==
  /\ At(a, "forget")
  /\ active' = active \ {task[a].grant}
  /\ Emit("ended", IF active' = {} THEN covers[task[a].grant] ELSE {})
  /\ task' = [task EXCEPT ![a] = Idle]
  /\ toEnd' = toEnd \ {task[a].grant}
  /\ UNCHANGED <<made, covers, ended, slot, heap, closers, exiting, handles, history>>

(* Out of _active_grants; "ended" is emitted, for all sensors in the same  *)
(* step as in Activate, and _end() returns.                                *)
Forget(a) ==
  /\ At(a, "forget")
  /\ active' = active \ {task[a].grant}
  /\ Emit("ended", covers[task[a].grant])
  /\ task' = [task EXCEPT ![a] = Idle]
  /\ toEnd' = IF a = "exit" THEN toEnd \ {task[a].grant} ELSE toEnd
  /\ UNCHANGED <<made, covers, ended, slot, heap, closers, exiting, handles, history>>

End(a) ==
  \/ \E s \in Sensors : \/ CloseDevice(a, s) \/ CloseRaises(a, s)
                        \/ CloseListDone(a, s) \/ GetSet(a, s)
  \/ Discard(a) \/ Prune(a) \/ PruneRaises(a) \/ Forget(a)

-----------------------------------------------------------------------------
(* Registry.read and Registry.stream of a sensor that requires consent *)

(* How often is_granted answered. *)
Checks == SumFunction([s \in Sensors |-> audit[s]["used"] + audit[s]["denied"]])

(* is_granted.  It looks the set up and then tests it; a set that was      *)
(* replaced in between was empty at some moment in between, so one step    *)
(* has the same answers.                                                   *)
Check(t, s) ==
  LET granted == Stored(s) # {}
  IN /\ InUse(t)
     /\ Checks < MaxChecks
     /\ Emit(IF granted THEN "used" ELSE "denied", {s})
     /\ task' = [task EXCEPT ![t] = IF granted THEN [Idle EXCEPT !.step = "open", !.sensor = s]
                                               ELSE Idle]
     /\ UNCHANGED <<store, closers, life, handles, history>>

(* The adapter opens the device.  Nobody tells the grant. *)
OpenDevice(t) ==
  /\ At(t, "open")
  /\ device' = Append(device, [sensor |-> task[t].sensor, open |-> TRUE])
  /\ calls' = Append(calls, 0)
  /\ task' = [task EXCEPT ![t] = Idle]
  /\ UNCHANGED <<store, closers, audit, life, history>>

-----------------------------------------------------------------------------
(* The end of the process *)

(* Mutant: the hook finds the grants to end in _grants. *)
ExitEndsStored ==
  /\ ~exiting
  /\ \A t \in Threads : At(t, "idle")
  /\ exiting' = TRUE
  /\ toEnd' = UNION {Stored(s) : s \in Sensors}
  /\ UNCHANGED <<store, closers, audit, task, handles, history>>

(* The atexit hook runs when the application threads have finished; it     *)
(* takes the grants still in _active_grants.                               *)
ExitBegins ==
  /\ ~exiting
  /\ \A t \in Threads : At(t, "idle")
  /\ exiting' = TRUE
  /\ toEnd' = active
  /\ UNCHANGED <<store, closers, audit, task, handles, history>>

Exited == exiting /\ toEnd = {} /\ At("exit", "idle")

Requests == SUBSET (Sensors \cup {Pattern})

Next ==
  \/ \E t \in Threads :
       \/ \E r \in Requests : GrantRefused(t, r) \/ GrantBegin(t, r)
       \/ \E s \in Sensors : SetDefault(t, s) \/ Check(t, s)
       \/ Add(t) \/ Activate(t) \/ OpenDevice(t)
       \/ \E g \in GrantIds, d \in DOMAIN device :
            RegisterOpenDevice(t, g, d) \/ RegisterRefused(t, g, d)
  \/ \E a \in Actors :
       \/ \E g \in GrantIds : EndBegin(a, g) \/ EndAgain(a, g)
       \/ End(a)
  \/ ExitBegins
  \/ Exited /\ UNCHANGED vars

Spec == Init /\ [][Next]_vars

-----------------------------------------------------------------------------
TypeOK ==
  /\ made \in 0..MaxGrants
  /\ covers \in [GrantIds -> SUBSET Sensors]
  /\ ended \subseteq 1..made
  /\ active \subseteq 1..made
  /\ heap \in [Sensors -> Seq(SUBSET (1..made))]
  /\ slot \in [Sensors -> Nat] /\ \A s \in Sensors : slot[s] \in 0..Len(heap[s])
  /\ closers \in [GrantIds -> [Sensors -> Seq(DOMAIN device)]]
  /\ \A g \in GrantIds : {s \in Sensors : closers[g][s] # <<>>} \subseteq covers[g]
  /\ audit \in [Sensors -> [Outcomes -> Nat]]
  /\ task \in [Actors -> [step : Steps, grant : 0..made, sensor : Sensors \cup {NoSensor},
                           set : Nat, index : Nat, rest : SUBSET Sensors]]
  /\ \A a \in Actors : task[a].sensor \in Sensors => task[a].set \in 0..Len(heap[task[a].sensor])
  /\ exiting \in BOOLEAN
  /\ toEnd \subseteq 1..made
  /\ device \in Seq([sensor : Sensors, open : BOOLEAN])
  /\ calls \in Seq(Nat) /\ Len(calls) = Len(device)
  /\ late \subseteq DOMAIN device
  /\ clashed \subseteq Sensors

(* Nobody is making or ending g. *)
Settled(g) == \A a \in Actors : task[a].grant # g

(* No two threads were ever in the bookkeeping of one of g's sensors. *)
Undisturbed(g) == covers[g] \cap clashed = {}

(* is_granted answers by exactly the grants that are not over: ending one  *)
(* of several grants of a sensor leaves the others in force, an ended one  *)
(* never counts again, and no sensor outside a grant gains by it; as long  *)
(* as no two threads change the grants of one sensor at once.              *)
CoverageExact ==
  \A g \in 1..made :
    Settled(g) /\ Undisturbed(g) =>
      /\ {s \in Sensors : g \in Stored(s)} = (IF g \in ended THEN {} ELSE covers[g])
      /\ g \in active <=> g \notin ended

(* What callers see of it: a check lets a read through only under a grant  *)
(* that is not over (or is just being made or ended), it denies one only   *)
(* when no grant of the sensor is in force, and a grant that has ended     *)
(* never comes back into force, not even when threads clash over a sensor. *)
HonestAbout(s) ==
  /\ audit'[s]["used"] # audit[s]["used"] =>
       \E g \in 1..made : s \in covers[g] /\ ~(g \in ended /\ Settled(g) /\ Undisturbed(g))
  /\ audit'[s]["denied"] # audit[s]["denied"] =>
       \A g \in 1..made : s \in covers[g] /\ Settled(g) /\ Undisturbed(g) => g \in ended
  /\ \A g \in ended : g \in Stored(s)' => g \in Stored(s)
AnswersHonest == [][\A s \in Sensors : HonestAbout(s)]_vars

(* The audit trail adds up: what was granted and has not ended is what is  *)
(* in force.                                                               *)
AuditBalanced ==
  (clashed = {} /\ \A g \in 1..made : Settled(g)) =>
    \A s \in Sensors :
      audit[s]["granted"] - audit[s]["ended"] = Cardinality(Stored(s))

(* A closer registered with a grant that had not ended is called exactly   *)
(* once before the ending moves on to the store, whatever other closers    *)
(* raise, however many threads end the grant, and although the list may    *)
(* grow while it is walked; any closer is called at most once.             *)
ClosersCalledOnce ==
  \A g \in 1..made, s \in Sensors : \A i \in DOMAIN closers[g][s] :
    LET d == closers[g][s][i]
    IN /\ calls[d] <= 1
       /\ g \in ended /\ d \notin late /\ ~(\E a \in Actors : At(a, "close") /\ task[a].grant = g)
            => calls[d] = 1

(* The atexit hook ends every grant that is still open. *)
ExitEndsAll == Exited => \A g \in 1..made : g \in ended

-----------------------------------------------------------------------------
(* What the documentation says and the code does not do; this is checked   *)
(* to be violated.                                                         *)

(* privacy.md: "Ending a grant closes every device that was opened under   *)
(* it before the grant is considered gone."                                *)
DevicesClosedWithGrants ==
  (\A g \in 1..made : Settled(g) /\ g \in ended) =>
    \A d \in DOMAIN device : ~device[d].open
=============================================================================
