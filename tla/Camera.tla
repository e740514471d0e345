------------------------------- MODULE Camera -------------------------------
(***************************************************************************)
(* Reads of the Windows camera (adapters/windows/winrt_camera.py) and the  *)
(* pool of threads (bounded_read in _common.py) in which they run, beside  *)
(* the reads of every other Windows adapter.                               *)
(*                                                                         *)
(* A read is submitted to the pool and waited for as long as its timeout;  *)
(* after that it still runs.  A camera read opens the device unless it     *)
(* finds it open, takes a frame, and starts a timer that closes the device *)
(* when it is idle.  Any call into the device may hang.                    *)
(*                                                                         *)
(* Reads are numbered.  A MediaCapture has the number of the read that     *)
(* opened it, and so has the timer that a read started.                    *)
(***************************************************************************)
EXTENDS Naturals, Sequences, FiniteSets

CONSTANTS
  Callers,   (* application threads *)
  PoolSize,  (* max_workers of _read_executor *)
  MaxReads   (* bound: reads submitted *)

ASSUME PoolSizeAssumption == PoolSize \in Nat \ {0}
ASSUME MaxReadsAssumption == MaxReads \in Nat

VARIABLES
  submitted,  (* reads submitted; the last one's number *)
  queue,      (* reads no thread of the pool has taken, oldest first *)
  task,       (* where each read is *)
  using,      (* the capture a read works with, None before that *)
  waiting,    (* the read each caller waits for, None if none *)
  capture,    (* _open_captures: the camera's entry *)
  device,     (* each MediaCapture: "unopened", "open", "closed" *)
  denied,     (* _permission_denied: the camera's entry *)
  idleTimer,  (* _idle_timers: the camera's entry *)
  timer,      (* each threading.Timer *)
  closing,    (* the capture a timer has popped and is about to close *)
  shown,      (* availability that the last discover() reported *)
  overlapped  (* history: two camera reads were running at once *)

pool    == <<submitted, queue, waiting>>
timers  == <<idleTimer, timer, closing>>
vars == <<pool, task, using, capture, device, denied, timers, shown, overlapped>>

None == 0
Reads == 1..MaxReads

Init ==
  /\ submitted = 0
  /\ queue = <<>>
  /\ task = [i \in Reads |-> "unsubmitted"]
  /\ using = [i \in Reads |-> None]
  /\ waiting = [t \in Callers |-> None]
  /\ capture = None
  /\ device = [i \in Reads |-> "unopened"]
  /\ denied = FALSE
  /\ idleTimer = None
  /\ timer = [i \in Reads |-> "unstarted"]
  /\ closing = [i \in Reads |-> None]
  /\ shown = "present"
  /\ overlapped = FALSE

Step(i, from, to) == task[i] = from /\ task' = [task EXCEPT ![i] = to]
Over == {"unsubmitted", "camera", "other", "done"}
Running(i) == task[i] \notin Over
Busy == Cardinality({i \in Reads : Running(i)})
CameraSteps == {"access", "lookup", "open", "store", "refused", "grab", "finish", "schedule"}
CameraReads == {i \in Reads : task[i] \in CameraSteps}

-----------------------------------------------------------------------------
(* bounded_read in the caller.                                             *)

(* Mutant: a read that finds every thread of the pool busy is not queued. *)
SubmitIfFree(t, kind) ==
  LET i == submitted + 1
  IN  /\ waiting[t] = None
      /\ submitted < MaxReads
      /\ submitted' = i
      /\ queue' = IF Busy < PoolSize THEN Append(queue, i) ELSE queue
      /\ task' = [task EXCEPT ![i] = kind]
      /\ waiting' = [waiting EXCEPT ![t] = i]
      /\ UNCHANGED <<using, capture, device, denied, timers, shown, overlapped>>

Submit(t, kind) ==
  LET i == submitted + 1
  IN  /\ waiting[t] = None
      /\ submitted < MaxReads
      /\ submitted' = i
      /\ queue' = Append(queue, i)
      /\ task' = [task EXCEPT ![i] = kind]
      /\ waiting' = [waiting EXCEPT ![t] = i]
      /\ UNCHANGED <<using, capture, device, denied, timers, shown, overlapped>>

(* future.result() returned or raised. *)
ReadReturns(t) ==
  /\ waiting[t] # None
  /\ task[waiting[t]] = "done"
  /\ waiting' = [waiting EXCEPT ![t] = None]
  /\ UNCHANGED <<submitted, queue, task, using, capture, device, denied, timers, shown, overlapped>>

(* Mutant: on timeout the caller waits for the thread after all. *)
ReadTimesOutWaits(t) ==
  /\ waiting[t] # None
  /\ task[waiting[t]] = "done"
  /\ waiting' = [waiting EXCEPT ![t] = None]
  /\ UNCHANGED <<submitted, queue, task, using, capture, device, denied, timers, shown, overlapped>>

(* Unavailable; the read stays in the pool. *)
ReadTimesOut(t) ==
  /\ waiting[t] # None
  /\ task[waiting[t]] # "done"
  /\ waiting' = [waiting EXCEPT ![t] = None]
  /\ UNCHANGED <<submitted, queue, task, using, capture, device, denied, timers, shown, overlapped>>

-----------------------------------------------------------------------------
(* The threads of the pool.                                                *)

(* A thread without work takes the oldest read; a hanging read keeps its   *)
(* thread.                                                                 *)
TakeTask ==
  LET i == Head(queue)
  IN  /\ queue # <<>>
      /\ Busy < PoolSize
      /\ queue' = Tail(queue)
      /\ task' = [task EXCEPT ![i] = IF task[i] = "other" THEN "working" ELSE "access"]
      /\ overlapped' = (overlapped \/ (task'[i] = "access" /\ CameraReads # {}))
      /\ UNCHANGED <<submitted, waiting, using, capture, device, denied, timers, shown>>

(* The read of another sensor, if it ends. *)
OtherEnds(i) ==
  /\ Step(i, "working", "done")
  /\ UNCHANGED <<pool, using, capture, device, denied, timers, shown, overlapped>>

(* Windows denies access: remembered for the next discover(). *)
AccessDenied(i) ==
  /\ Step(i, "access", "done")
  /\ denied' = TRUE
  /\ UNCHANGED <<pool, using, capture, device, timers, shown, overlapped>>

AccessAllowed(i) ==
  /\ Step(i, "access", "lookup")
  /\ UNCHANGED <<pool, using, capture, device, denied, timers, shown, overlapped>>

(* _get_or_open_capture: the lock is held only to look. *)
LookUp(i) ==
  /\ task[i] = "lookup"
  /\ task' = [task EXCEPT ![i] = IF capture = None THEN "open" ELSE "grab"]
  /\ using' = [using EXCEPT ![i] = capture]
  /\ UNCHANGED <<pool, capture, device, denied, timers, shown, overlapped>>

(* initialize_async *)
OpenDevice(i) ==
  /\ Step(i, "open", "store")
  /\ device' = [device EXCEPT ![i] = "open"]
  /\ UNCHANGED <<pool, using, capture, denied, timers, shown, overlapped>>

OpenRefused(i) ==
  /\ Step(i, "open", "refused")
  /\ UNCHANGED <<pool, using, capture, device, denied, timers, shown, overlapped>>

(* Any other exception is bounded_read's: the reading is unavailable. *)
OpenBreaks(i) ==
  /\ Step(i, "open", "done")
  /\ UNCHANGED <<pool, using, capture, device, denied, timers, shown, overlapped>>

(* OSError counts as a denial, and whatever is in the map is forgotten. *)
Refused(i) ==
  /\ Step(i, "refused", "done")
  /\ denied' = TRUE
  /\ capture' = None
  /\ UNCHANGED <<pool, using, device, timers, shown, overlapped>>

(* Mutant: the capture is not kept in the map. *)
StoreCaptureNot(i) ==
  /\ Step(i, "store", "grab")
  /\ using' = [using EXCEPT ![i] = i]
  /\ UNCHANGED <<pool, capture, device, denied, timers, shown, overlapped>>

(* An entry that another read made meanwhile is overwritten. *)
StoreCapture(i) ==
  /\ Step(i, "store", "grab")
  /\ capture' = i
  /\ using' = [using EXCEPT ![i] = i]
  /\ UNCHANGED <<pool, device, denied, timers, shown, overlapped>>

(* A frame, or an exception that makes the reading unavailable, as when    *)
(* the device was closed meanwhile.                                        *)
Grab(i) ==
  /\ Step(i, "grab", "finish")
  /\ UNCHANGED <<pool, using, capture, device, denied, timers, shown, overlapped>>

Finish(i) ==
  /\ Step(i, "finish", "schedule")
  /\ denied' = FALSE
  /\ UNCHANGED <<pool, using, capture, device, timers, shown, overlapped>>

(* Mutant: a timer is started only if there has been none. *)
ScheduleIdleCloseCancels(i) ==
  /\ Step(i, "schedule", "done")
  /\ timer' = [j \in Reads |->
       IF j = i /\ idleTimer = None THEN "armed"
       ELSE IF j = idleTimer /\ timer[j] = "armed" THEN "over" ELSE timer[j]]
  /\ idleTimer' = IF idleTimer = None THEN i ELSE idleTimer
  /\ UNCHANGED <<pool, using, capture, device, denied, closing, shown, overlapped>>

(* The old timer is cancelled, in vain if it has fired, and a new one      *)
(* started.                                                                *)
ScheduleIdleClose(i) ==
  /\ Step(i, "schedule", "done")
  /\ timer' = [j \in Reads |->
       IF j = i THEN "armed"
       ELSE IF j = idleTimer /\ timer[j] = "armed" THEN "over" ELSE timer[j]]
  /\ idleTimer' = i
  /\ UNCHANGED <<pool, using, capture, device, denied, closing, shown, overlapped>>

-----------------------------------------------------------------------------
(* The timers, each in a thread of its own.                                *)

Fire(i) ==
  /\ timer[i] = "armed"
  /\ timer' = [timer EXCEPT ![i] = "fired"]
  /\ UNCHANGED <<pool, task, using, capture, device, denied, idleTimer, closing, shown, overlapped>>

(* _close_idle_capture under the lock: both entries go, whoever made them. *)
PopCapture(i) ==
  /\ timer[i] = "fired"
  /\ timer' = [timer EXCEPT ![i] = IF capture = None THEN "over" ELSE "closing"]
  /\ closing' = [closing EXCEPT ![i] = capture]
  /\ capture' = None
  /\ idleTimer' = None
  /\ UNCHANGED <<pool, task, using, device, denied, shown, overlapped>>

(* close() *)
CloseCapture(i) ==
  /\ timer[i] = "closing"
  /\ timer' = [timer EXCEPT ![i] = "over"]
  /\ device' = [device EXCEPT ![closing[i]] = "closed"]
  /\ closing' = [closing EXCEPT ![i] = None]
  /\ UNCHANGED <<pool, task, using, capture, denied, idleTimer, shown, overlapped>>

-----------------------------------------------------------------------------
(* discover() opens nothing and shows what the reads found. *)
Discover ==
  /\ shown' = IF denied THEN "permission_denied" ELSE "present"
  /\ UNCHANGED <<pool, task, using, capture, device, denied, timers, overlapped>>

CameraRead(i) ==
  \/ AccessDenied(i) \/ AccessAllowed(i) \/ LookUp(i) \/ OpenDevice(i)
  \/ OpenRefused(i) \/ OpenBreaks(i) \/ Refused(i) \/ StoreCapture(i) \/ Grab(i) \/ Finish(i)
  \/ ScheduleIdleClose(i)

IdleClose(i) == Fire(i) \/ PopCapture(i) \/ CloseCapture(i)

Next ==
  \/ \E t \in Callers :
       \/ Submit(t, "camera") \/ Submit(t, "other")
       \/ ReadReturns(t) \/ ReadTimesOut(t)
  \/ TakeTask
  \/ \E i \in Reads : OtherEnds(i) \/ CameraRead(i) \/ IdleClose(i)
  \/ Discover

(* Calls into the device may hang: nothing is asked of OpenDevice, Grab    *)
(* and OtherEnds.                                                          *)
Fairness ==
  /\ \A t \in Callers : WF_vars(ReadReturns(t) \/ ReadTimesOut(t))
  /\ WF_vars(TakeTask)
  /\ \A i \in Reads :
       /\ WF_vars(AccessDenied(i) \/ AccessAllowed(i) \/ LookUp(i) \/ Refused(i)
                  \/ StoreCapture(i) \/ Finish(i) \/ ScheduleIdleClose(i))
       /\ WF_vars(IdleClose(i))

Spec == Init /\ [][Next]_vars
FairSpec == Spec /\ Fairness

-----------------------------------------------------------------------------
TypeOK ==
  /\ submitted \in 0..MaxReads
  /\ queue \in Seq(Reads)
  /\ task \in [Reads -> Over \cup CameraSteps \cup {"working"}]
  /\ using \in [Reads -> 0..MaxReads]
  /\ waiting \in [Callers -> 0..MaxReads]
  /\ capture \in 0..MaxReads
  /\ device \in [Reads -> {"unopened", "open", "closed"}]
  /\ denied \in BOOLEAN
  /\ idleTimer \in 0..MaxReads
  /\ timer \in [Reads -> {"unstarted", "armed", "fired", "closing", "over"}]
  /\ closing \in [Reads -> 0..MaxReads]
  /\ shown \in {"present", "permission_denied"}
  /\ overlapped \in BOOLEAN

(* While no camera read is running, an open capture in the map always has  *)
(* a timer that will close it, however cancelled, late and overlapping     *)
(* timers took entries from each other, and whatever reads opened at once. *)
IdleTimerArmed ==
  CameraReads = {} /\ capture # None =>
    \E i \in Reads : timer[i] \in {"armed", "fired"}

(* If camera reads never ran at once (a timed-out read runs on, so one     *)
(* caller is enough for that), no open device is forgotten: it is in the   *)
(* map, in the hands of the read that opened it, or a timer is closing it. *)
NothingForgotten ==
  ~overlapped => \A h \in Reads : device[h] = "open" =>
    \/ capture = h
    \/ task[h] = "store"
    \/ \E i \in Reads : closing[i] = h

(* A caller gets its reading, or an unavailable one, although every thread *)
(* of the pool may hang.                                                   *)
CallersFreed ==
  \A t \in Callers : \A i \in Reads : waiting[t] = i ~> waiting[t] # i

(* A read that hangs costs the pool its thread, and only that: as long as  *)
(* a thread comes free again and again, every submitted read is started.   *)
EveryReadStarts ==
  []<>(Busy < PoolSize) =>
    \A i \in Reads : task[i] \in {"camera", "other"} ~> task[i] \notin {"camera", "other"}
=============================================================================
