------------------------------ MODULE Registry ------------------------------
(***************************************************************************)
(* The Registry of registry/routing.py, used by several threads, with the  *)
(* records of registry/status.py: list_sensors publishes what a round of   *)
(* discovery found in two dicts, read and stream route by them, a reading  *)
(* gets its seq and t_mono under the lock of its sensor, and shutdown      *)
(* tears the adapters down.                                                *)
(*                                                                         *)
(* A round is one step here (module Discovery has the rounds).  A call     *)
(* that is refused before it did anything is no step.                      *)
(***************************************************************************)
EXTENDS Pipeline, Functions

CONSTANTS
  Callers,     (* threads that use the registry *)
  SensorIds,   (* ids that a sensor may be listed under *)
  Results,     (* for each adapter, the lists its discover() may return *)
  Clock,       (* the t_mono values an adapter may report *)
  MaxListings, (* bound: calls of list_sensors *)
  MaxReadings  (* bound: readings of each sensor *)

ASSUME ClockAssumption == Clock \subseteq Nat
ASSUME MaxReadingsAssumption == MaxReadings \in Nat
ASSUME ResultsAssumption ==
  /\ DOMAIN Results = Adapters
  /\ \A a \in Adapters : Results[a] \subseteq Seq(SensorRecord)

(* What a round may collect. *)
RawResults ==
  {raw \in [Adapters -> {<<>>} \cup UNION Range(Results)] :
     \A a \in Adapters : raw[a] \in {<<>>} \cup Results[a]}

ASSUME SensorIdsAssumption ==
  \A raw \in RawResults : Raises(raw) \/ Listed(raw) \subseteq SensorIds

(* How a round may leave an adapter without a list.  A "long_error" is an  *)
(* exception whose text is too long for a status record.                   *)
Failures == {"timed_out", "error", "long_error", "still_running"}

VARIABLES
  sensorOwner,  (* _sensor_owner: dict from id to adapter *)
  sensorInfo,   (* _sensor_info: dict from id to record *)
  status,       (* the StatusTracker's record of each adapter *)
  readLocks,    (* _read_locks: number of locks made for an id; the last is in the dict *)
  held,         (* the locks that are held *)
  nextSeq,      (* _next_seq *)
  lastTMono,    (* _last_t_mono *)
  shutdownLock, (* the callers that hold _shutdown_lock *)
  shutdownDone, (* _shutdown_done *)
  discoveryShut,(* DiscoveryCoordinator.shutdown() was called *)
  pc,           (* where each caller is *)
  frame,        (* its local variables *)
  listings,     (* calls of list_sensors so far *)
  readings,     (* history: seq and t_mono given out, by sensor, in order *)
  tornDown,     (* history: how often each adapter was torn down *)
  returned,     (* history: some shutdown() has returned *)
  overlapping,  (* history: callers whose publication overlaps another one *)
  mixed         (* history: the last one that ended did *)

caches  == <<sensorOwner, sensorInfo>>
stamps  == <<readLocks, held, nextSeq, lastTMono, readings>>
ending  == <<shutdownLock, shutdownDone, discoveryShut, tornDown, returned>>
publish == <<overlapping, mixed>>
local   == <<pc, frame, listings>>
vars == <<caches, stamps, ending, status, publish, local>>

NoTime == -1
Empty == [x \in {} |-> x]

EmptyRaw == [a \in Adapters |-> <<>>]
EmptyFrame ==
  [raw |-> EmptyRaw, outcome |-> [a \in Adapters |-> "sensors"], next |-> 1,
   op |-> "none", id |-> <<>>, adapter |-> NoOwner, t |-> NoTime, lock |-> 0, seq |-> 0]

Init ==
  /\ sensorOwner = Empty
  /\ sensorInfo = Empty
  /\ status = [a \in Adapters |-> [state |-> "loaded", count |-> 0, timeout |-> FALSE]]
  /\ readLocks = [id \in SensorIds |-> 0]
  /\ held = {}
  /\ nextSeq = [id \in SensorIds |-> 0]
  /\ lastTMono = [id \in SensorIds |-> NoTime]
  /\ shutdownLock = {}
  /\ shutdownDone = FALSE
  /\ discoveryShut = FALSE
  /\ pc = [c \in Callers |-> "idle"]
  /\ frame = [c \in Callers |-> EmptyFrame]
  /\ listings = 0
  /\ readings = [id \in SensorIds |-> <<>>]
  /\ tornDown = [a \in Adapters |-> 0]
  /\ returned = FALSE
  /\ overlapping = {}
  /\ mixed = FALSE

Goto(c, label) == pc' = [pc EXCEPT ![c] = label]
Step(c, label) == Goto(c, label) /\ UNCHANGED listings
Return(c) == Step(c, "idle") /\ frame' = [frame EXCEPT ![c] = EmptyFrame]

-----------------------------------------------------------------------------
(* list_sensors *)

ListSensors(c) ==
  /\ pc[c] = "idle"
  /\ listings < MaxListings
  /\ listings' = listings + 1
  /\ Goto(c, "discover")
  /\ UNCHANGED <<caches, stamps, ending, status, publish, frame>>

(* The pool was shut down: RuntimeError. *)
DiscoverRaises(c) ==
  /\ pc[c] = "discover"
  /\ discoveryShut
  /\ Return(c)
  /\ UNCHANGED <<caches, stamps, ending, status, publish>>

(* run_discovery returns, for every adapter, a list or a failure. *)
Discovered(c) ==
  /\ pc[c] = "discover"
  /\ \E outcome \in [Adapters -> Failures \cup {"sensors"}], raw \in RawResults :
       /\ \A a \in Adapters :
            raw[a] \in IF outcome[a] = "sensors" THEN Results[a] ELSE {<<>>}
       /\ frame' = [frame EXCEPT ![c].raw = raw, ![c].outcome = outcome]
  /\ Step(c, "status")
  /\ UNCHANGED <<caches, stamps, ending, status, publish>>

(* update_enumeration, update_timeout, record_degraded: one lock each *)
NewStatus(old, outcome, count) ==
  CASE outcome = "sensors"   -> [old EXCEPT !.count = count]
    [] outcome = "timed_out" -> [old EXCEPT !.timeout = TRUE]
    [] outcome = "error"     -> [state |-> "degraded", count |-> 0, timeout |-> FALSE]
    [] OTHER                 -> old

UpdateStatus(c) ==
  /\ pc[c] = "status" /\ frame[c].next <= NumAdapters
  /\ frame[c].outcome[frame[c].next] # "long_error"
  /\ LET a == frame[c].next
         count == Len(frame[c].raw[a])
     IN status' = [status EXCEPT ![a] = NewStatus(@, frame[c].outcome[a], count)]
  /\ frame' = [frame EXCEPT ![c].next = @ + 1]
  /\ Step(c, "status")
  /\ UNCHANGED <<caches, stamps, ending, publish>>

(* BackendStatus refuses the text: ValueError leaves list_sensors. *)
StatusRaises(c) ==
  /\ pc[c] = "status" /\ frame[c].next <= NumAdapters
  /\ frame[c].outcome[frame[c].next] = "long_error"
  /\ Return(c)
  /\ UNCHANGED <<caches, stamps, ending, status, publish>>

(* So does the ValueError of run_pipeline, behind all status records. *)
PipelineRaises(c) ==
  /\ pc[c] = "status" /\ frame[c].next > NumAdapters
  /\ Raises(frame[c].raw)
  /\ Return(c)
  /\ UNCHANGED <<caches, stamps, ending, status, publish>>

Owned(raw) == {e \in Candidates(raw) : Owner(raw, e) # NoOwner}

NewOwner(raw) ==
  [id \in {ResolvedId(raw, e) : e \in Owned(raw)} |->
     Owner(raw, LastOf(raw, Namesakes(raw, id) \cap Owned(raw)))]

NewInfo(raw) ==
  [id \in Listed(raw) |-> [Record(raw, ListedAs(raw, id)) EXCEPT !.id = id]]

Publishing == {c \in Callers : pc[c] = "publish"}

(* self._sensor_owner = new_sensor_owner *)
PublishOwner(c) ==
  /\ pc[c] = "status" /\ frame[c].next > NumAdapters
  /\ ~Raises(frame[c].raw)
  /\ sensorOwner' = NewOwner(frame[c].raw)
  /\ overlapping' = IF Publishing = {} THEN overlapping
                    ELSE overlapping \cup Publishing \cup {c}
  /\ Step(c, "publish")
  /\ UNCHANGED <<sensorInfo, stamps, ending, status, mixed, frame>>

(* self._sensor_info = new_sensor_info *)
PublishInfo(c) ==
  /\ pc[c] = "publish"
  /\ sensorInfo' = NewInfo(frame[c].raw)
  /\ overlapping' = overlapping \ {c}
  /\ mixed' = (c \in overlapping)
  /\ Return(c)
  /\ UNCHANGED <<sensorOwner, stamps, ending, status>>

-----------------------------------------------------------------------------
(* read and stream *)

(* The id is known, and consent was given where it is needed (Consent). *)
LookUp(c, op, id) ==
  /\ pc[c] = "idle"
  /\ id \in DOMAIN sensorInfo
  /\ op = "read" => sensorInfo[id].info.dtype # "buffer"
  /\ frame' = [frame EXCEPT ![c].op = op, ![c].id = id]
  /\ Step(c, "route")
  /\ UNCHANGED <<caches, stamps, ending, status, publish>>

Route(c) ==
  /\ pc[c] = "route"
  /\ frame[c].id \in DOMAIN sensorOwner
  /\ frame' = [frame EXCEPT ![c].adapter = sensorOwner[frame[c].id]]
  /\ Step(c, "dispatch")
  /\ UNCHANGED <<caches, stamps, ending, status, publish>>

(* UnknownSensorError *)
RouteUnknown(c) ==
  /\ pc[c] = "route"
  /\ frame[c].id \notin DOMAIN sensorOwner
  /\ Return(c)
  /\ UNCHANGED <<caches, stamps, ending, status, publish>>

(* open_stream: a Stream of its own (module Stream), or an error. *)
OpenStream(c) ==
  /\ pc[c] = "dispatch" /\ frame[c].op = "stream"
  /\ Return(c)
  /\ UNCHANGED <<caches, stamps, ending, status, publish>>

ReadRaises(c) ==
  /\ pc[c] = "dispatch" /\ frame[c].op = "read"
  /\ Return(c)
  /\ UNCHANGED <<caches, stamps, ending, status, publish>>

Read(c, t) ==
  /\ pc[c] = "dispatch" /\ frame[c].op = "read"
  /\ frame' = [frame EXCEPT ![c].t = t]
  /\ Step(c, "lock")
  /\ UNCHANGED <<caches, stamps, ending, status, publish>>

(* Mutant: a lock for every reading. *)
GetReadLockFresh(c) ==
  /\ pc[c] = "lock"
  /\ readLocks' = [readLocks EXCEPT ![frame[c].id] = @ + 1]
  /\ frame' = [frame EXCEPT ![c].lock = readLocks'[frame[c].id]]
  /\ Step(c, "acquire")
  /\ UNCHANGED <<caches, held, nextSeq, lastTMono, readings, ending, status, publish>>

(* _get_read_lock, under _seq_lock *)
GetReadLock(c) ==
  /\ pc[c] = "lock"
  /\ readLocks' = [readLocks EXCEPT ![frame[c].id] = IF @ = 0 THEN 1 ELSE @]
  /\ frame' = [frame EXCEPT ![c].lock = readLocks'[frame[c].id]]
  /\ Step(c, "acquire")
  /\ UNCHANGED <<caches, held, nextSeq, lastTMono, readings, ending, status, publish>>

Lock(c) == <<frame[c].id, frame[c].lock>>

TakeSeq(c) ==
  /\ pc[c] = "acquire"
  /\ Lock(c) \notin held
  /\ held' = held \cup {Lock(c)}
  /\ frame' = [frame EXCEPT ![c].seq = nextSeq[frame[c].id]]
  /\ Step(c, "stamp")
  /\ UNCHANGED <<caches, readLocks, nextSeq, lastTMono, readings, ending, status, publish>>

(* One tick behind the previous t_mono, unless the adapter's is later. *)
Clamp(t, previous) == IF t <= previous THEN previous + 1 ELSE t

Stamp(c) ==
  /\ pc[c] = "stamp"
  /\ LET id == frame[c].id
         t == Clamp(frame[c].t, lastTMono[id])
     IN /\ nextSeq' = [nextSeq EXCEPT ![id] = frame[c].seq + 1]
        /\ lastTMono' = [lastTMono EXCEPT ![id] = t]
        /\ readings' = [readings EXCEPT ![id] = Append(@, [seq |-> frame[c].seq, t |-> t])]
  /\ held' = held \ {Lock(c)}
  /\ Return(c)
  /\ UNCHANGED <<caches, readLocks, ending, status, publish>>

-----------------------------------------------------------------------------
(* shutdown, called by the application and by atexit *)

(* Mutant: the flag is looked at before the lock is taken. *)
ShutdownAgainUnlocked(c) ==
  /\ pc[c] = "idle"
  /\ shutdownDone
  /\ returned' = TRUE
  /\ UNCHANGED <<caches, stamps, shutdownLock, shutdownDone, discoveryShut, tornDown,
                 status, publish, local>>

ShutdownAgain(c) ==
  /\ pc[c] = "idle"
  /\ shutdownLock = {} /\ shutdownDone
  /\ returned' = TRUE
  /\ UNCHANGED <<caches, stamps, shutdownLock, shutdownDone, discoveryShut, tornDown,
                 status, publish, local>>

ShutdownBegin(c) ==
  /\ pc[c] = "idle"
  /\ shutdownLock = {} /\ ~shutdownDone
  /\ shutdownLock' = {c}
  /\ shutdownDone' = TRUE
  /\ frame' = [frame EXCEPT ![c].op = "shutdown"]
  /\ Step(c, "teardown")
  /\ UNCHANGED <<caches, stamps, discoveryShut, tornDown, returned, status, publish>>

(* teardown() returns, or raises an Exception, which is swallowed.  Ctrl-C *)
(* or SystemExit in it, which would end the loop, is left out.             *)
Teardown(c) ==
  /\ pc[c] = "teardown" /\ frame[c].next <= NumAdapters
  /\ tornDown' = [tornDown EXCEPT ![frame[c].next] = @ + 1]
  /\ frame' = [frame EXCEPT ![c].next = @ + 1]
  /\ Step(c, "teardown")
  /\ UNCHANGED <<caches, stamps, shutdownLock, shutdownDone, discoveryShut, returned,
                 status, publish>>

ShutdownEnd(c) ==
  /\ pc[c] = "teardown" /\ frame[c].next > NumAdapters
  /\ discoveryShut' = TRUE
  /\ shutdownLock' = {}
  /\ returned' = TRUE
  /\ Return(c)
  /\ UNCHANGED <<caches, stamps, shutdownDone, tornDown, status, publish>>

-----------------------------------------------------------------------------
Next ==
  \E c \in Callers :
    \/ ListSensors(c) \/ DiscoverRaises(c) \/ Discovered(c) \/ UpdateStatus(c)
    \/ StatusRaises(c) \/ PipelineRaises(c) \/ PublishOwner(c) \/ PublishInfo(c)
    \/ \E op \in {"read", "stream"}, id \in SensorIds :
         Len(readings[id]) < MaxReadings /\ LookUp(c, op, id)
    \/ Route(c) \/ RouteUnknown(c) \/ OpenStream(c) \/ ReadRaises(c)
    \/ \E t \in Clock : Read(c, t)
    \/ GetReadLock(c) \/ TakeSeq(c) \/ Stamp(c)
    \/ ShutdownAgain(c) \/ ShutdownBegin(c) \/ Teardown(c) \/ ShutdownEnd(c)

Spec == Init /\ [][Next]_vars

-----------------------------------------------------------------------------
Places == {"idle", "discover", "status", "publish", "route", "dispatch",
           "lock", "acquire", "stamp", "teardown"}

Frame ==
  [raw : RawResults,
   outcome : [Adapters -> Failures \cup {"sensors"}],
   next : 1..(NumAdapters + 1),
   op : {"none", "read", "stream", "shutdown"},
   id : SensorIds \cup {<<>>},
   adapter : Adapters \cup {NoOwner},
   t : Clock \cup {NoTime},
   lock : Nat,
   seq : Nat]

TypeOK ==
  /\ DOMAIN sensorOwner \subseteq SensorIds /\ Range(sensorOwner) \subseteq Adapters
  /\ DOMAIN sensorInfo \subseteq SensorIds
  /\ status \in [Adapters -> [state : {"loaded", "degraded"}, count : Nat, timeout : BOOLEAN]]
  /\ readLocks \in [SensorIds -> Nat]
  /\ held \subseteq SensorIds \X Nat
  /\ nextSeq \in [SensorIds -> Nat]
  /\ lastTMono \in [SensorIds -> Nat \cup {NoTime}]
  /\ shutdownLock \subseteq Callers
  /\ shutdownDone \in BOOLEAN /\ discoveryShut \in BOOLEAN
  /\ pc \in [Callers -> Places]
  /\ frame \in [Callers -> Frame]
  /\ listings \in Nat
  /\ readings \in [SensorIds -> Seq([seq : Nat, t : Nat])]
  /\ tornDown \in [Adapters -> Nat]
  /\ returned \in BOOLEAN
  /\ overlapping \subseteq Callers
  /\ mixed \in BOOLEAN

(* Readings of one sensor are numbered without repetition or gap and each  *)
(* is later than the one before, whichever threads read at once, whatever  *)
(* the adapter's clock says, and although reads fail on the way and the    *)
(* sensor may disappear and come back.                                     *)
ReadingsOrdered ==
  \A id \in SensorIds : \A i \in DOMAIN readings[id] :
    /\ readings[id][i].seq = i - 1
    /\ i > 1 => readings[id][i].t > readings[id][i - 1].t

Shortened(id) == \E long \in DOMAIN Stem : Front(id) = Stem[long]

(* What list_sensors listed can be read: the two dicts agree about the     *)
(* ids, but for the moment between the two assignments, and unless two     *)
(* list_sensors assigned at once.  Only a sensor whose id was shortened    *)
(* for its suffix, and whose source names no adapter, has no owner.        *)
Routable ==
  (Publishing = {} /\ ~mixed) =>
    /\ DOMAIN sensorOwner \subseteq DOMAIN sensorInfo
    /\ \A id \in DOMAIN sensorInfo \ DOMAIN sensorOwner :
         sensorInfo[id].source \cap Adapters = {} /\ Shortened(id)

(* When a shutdown() has returned, the explicit one or the one at exit,    *)
(* every adapter was torn down, and none ever is twice.                    *)
ShutdownComplete ==
  \A a \in Adapters : tornDown[a] <= 1 /\ (returned => tornDown[a] = 1)
=============================================================================
