---------------------------- MODULE CameraProofs ----------------------------
(***************************************************************************)
(* Proofs about Camera, for any callers, size of the pool and number of    *)
(* reads:                                                                  *)
(*   CameraTypes       the type invariant,                                 *)
(*   CaptureIsTimed    an open capture has a timer that will close it,     *)
(*   DeviceIsHeld      no open device is forgotten while camera reads do   *)
(*                     not overlap.                                        *)
(***************************************************************************)
EXTENDS Camera, TLAPS

(* Behind StoreCapture a read always comes to ScheduleIdleClose. *)
ToSchedule == {"grab", "finish", "schedule"}
Opening == {"open", "store", "refused"}

(* The queue holds each read once that no thread has taken, and no other;  *)
(* a timer is started at the very end of its read.                         *)
PoolInv ==
  /\ \A i \in Reads : i > submitted => task[i] = "unsubmitted"
  /\ \A k \in DOMAIN queue : task[queue[k]] \in {"camera", "other"}
  /\ \A k, l \in DOMAIN queue : queue[k] = queue[l] => k = l
  /\ \A i \in Reads : timer[i] # "unstarted" => task[i] = "done"
  /\ \A i \in Reads : closing[i] # None => timer[i] = "closing"

TimedInv ==
  capture # None =>
    \/ \E i \in Reads : task[i] \in ToSchedule
    \/ \E i \in Reads : timer[i] \in {"armed", "fired"}

(* Without overlap, the one camera read that opens the device does so      *)
(* because there was no capture, and there is none until it stores its own. *)
AloneInv ==
  ~overlapped =>
    /\ \A i, j \in CameraReads : i = j
    /\ \A i \in Reads : task[i] \in Opening => capture = None

CameraInv == TypeOK /\ PoolInv

Everywhere == Over \cup CameraSteps \cup {"working"}

LEMMA CameraInit == Init => CameraInv /\ TimedInv /\ AloneInv /\ NothingForgotten
<1> SUFFICES ASSUME Init PROVE CameraInv /\ TimedInv /\ AloneInv /\ NothingForgotten
  OBVIOUS
<1>1. 0 \in 0..MaxReads
  BY MaxReadsAssumption
<1>2. queue \in Seq(Reads) /\ DOMAIN queue = {}
  BY DEF Init
<1>3. TypeOK
  BY <1>1, <1>2 DEF Init, TypeOK, None, Over
<1>4. PoolInv
  BY <1>2 DEF Init, PoolInv, None
<1>5. TimedInv /\ AloneInv /\ NothingForgotten
  BY DEF Init, TimedInv, AloneInv, NothingForgotten, CameraReads, CameraSteps, Opening
<1> QED
  BY <1>3, <1>4, <1>5 DEF CameraInv

-----------------------------------------------------------------------------
(* The step of a read that a thread of the pool has taken. *)
LEMMA ReadMoves ==
  ASSUME CameraInv, NEW i \in Reads, NEW to \in CameraSteps \cup {"done"},
         task[i] \in CameraSteps \cup {"working"},
         task' = [task EXCEPT ![i] = to],
         UNCHANGED <<submitted, queue, timer, closing>>
  PROVE  task' \in [Reads -> Everywhere] /\ PoolInv'
<1>1. task \in [Reads -> Everywhere] /\ queue \in Seq(Reads)
  BY DEF CameraInv, TypeOK, Everywhere
<1>2. task' \in [Reads -> Everywhere]
  BY <1>1 DEF Everywhere, Over
<1>3. task[i] \notin {"unsubmitted", "camera", "other", "done"}
  BY DEF CameraSteps
<1>4. \A j \in Reads : task[j] \in {"unsubmitted", "camera", "other", "done"} => task'[j] = task[j]
  BY <1>1, <1>3
<1>5. \A k \in DOMAIN queue : queue[k] \in Reads
  BY <1>1
<1>6. PoolInv'
  BY <1>4, <1>5 DEF CameraInv, PoolInv
<1> QED
  BY <1>2, <1>6

LEMMA CameraStep == CameraInv /\ [Next]_vars => CameraInv'
<1> SUFFICES ASSUME CameraInv, [Next]_vars PROVE CameraInv'
  OBVIOUS
<1> USE DEF Step
<1>t. /\ submitted \in 0..MaxReads /\ queue \in Seq(Reads)
      /\ task \in [Reads -> Everywhere]
      /\ MaxReads \in Nat
  BY MaxReadsAssumption DEF CameraInv, TypeOK, Everywhere
<1>1. CASE UNCHANGED vars
  BY <1>1 DEF vars, pool, timers, CameraInv, TypeOK, PoolInv
<1>2. ASSUME NEW t \in Callers, NEW kind \in {"camera", "other"}, Submit(t, kind)
      PROVE  CameraInv'
  <2> DEFINE i == submitted + 1
  <2>1. i \in Reads /\ i \in 0..MaxReads
    BY <1>2, <1>t DEF Submit, Reads
  <2>2. task[i] = "unsubmitted"
    BY <2>1, <1>t DEF CameraInv, PoolInv
  <2>3. /\ task' = [task EXCEPT ![i] = kind]
        /\ submitted' = i
        /\ queue' = Append(queue, i)
        /\ waiting' = [waiting EXCEPT ![t] = i]
        /\ UNCHANGED <<using, capture, device, denied, timers, shown, overlapped>>
    BY <1>2 DEF Submit
  <2> HIDE DEF i
  <2>4. \A k \in DOMAIN queue : queue[k] \in Reads /\ queue[k] # i
    BY <1>t, <2>2 DEF CameraInv, PoolInv
  <2>5. /\ queue' \in Seq(Reads)
        /\ DOMAIN queue' = DOMAIN queue \cup {Len(queue) + 1}
        /\ \A k \in DOMAIN queue : queue'[k] = queue[k]
        /\ queue'[Len(queue) + 1] = i
    BY <1>t, <2>1, <2>3
  <2>6. task' \in [Reads -> Everywhere]
    BY <1>t, <2>3 DEF Everywhere, Over
  <2>7. TypeOK'
    BY <2>1, <2>3, <2>5, <2>6 DEF CameraInv, TypeOK, timers, Everywhere
  <2>8. \A j \in Reads : j > i => j > submitted /\ j # i
    BY <1>t DEF i, Reads
  <2>9. PoolInv'
    <3>1. \A j \in Reads : j > submitted' => task'[j] = "unsubmitted"
      BY <2>3, <2>8, <1>t DEF CameraInv, PoolInv
    <3>2. \A k \in DOMAIN queue' : task'[queue'[k]] \in {"camera", "other"}
      BY <2>1, <2>3, <2>4, <2>5, <1>t DEF CameraInv, PoolInv
    <3>3. \A k, l \in DOMAIN queue' : queue'[k] = queue'[l] => k = l
      BY <2>4, <2>5 DEF CameraInv, PoolInv
    <3>4. \A j \in Reads : task[j] = "done" => task'[j] = "done"
      BY <2>2, <2>3, <1>t
    <3> QED
      BY <3>1, <3>2, <3>3, <3>4, <2>3 DEF CameraInv, PoolInv, timers
  <2> QED
    BY <2>7, <2>9 DEF CameraInv
<1>3. ASSUME NEW t \in Callers, ReadReturns(t) \/ ReadTimesOut(t) PROVE CameraInv'
  <2>1. /\ waiting' = [waiting EXCEPT ![t] = None]
        /\ UNCHANGED <<submitted, queue, task, using, capture, device, denied, timers,
                       shown, overlapped>>
    BY <1>3 DEF ReadReturns, ReadTimesOut
  <2>2. None \in 0..MaxReads
    BY <1>t DEF None
  <2> QED
    BY <2>1, <2>2 DEF CameraInv, TypeOK, PoolInv, timers
<1>4. CASE TakeTask
  <2> DEFINE i == Head(queue)
  <2> DEFINE to == IF task[i] = "other" THEN "working" ELSE "access"
  <2>1. /\ queue # <<>>
        /\ queue' = Tail(queue)
        /\ task' = [task EXCEPT ![i] = to]
        /\ overlapped' \in BOOLEAN
        /\ UNCHANGED <<submitted, waiting, using, capture, device, denied, timers, shown>>
    BY <1>4 DEF TakeTask, CameraInv, TypeOK
  <2>2. /\ i = queue[1] /\ 1 \in DOMAIN queue /\ i \in Reads
        /\ queue' \in Seq(Reads)
        /\ \A k \in DOMAIN queue' : k + 1 \in DOMAIN queue /\ queue'[k] = queue[k + 1] /\ k + 1 # 1
        /\ \A k \in DOMAIN queue' : k \in Nat
    BY <1>t, <2>1
  <2>3. task[i] \in {"camera", "other"}
    BY <2>2 DEF CameraInv, PoolInv
  <2>4. to \in Everywhere
    BY DEF Everywhere, CameraSteps
  <2> HIDE DEF i, to
  <2>5. TypeOK'
    BY <2>1, <2>2, <2>4, <1>t DEF CameraInv, TypeOK, timers, Everywhere
  <2>6. \A k \in DOMAIN queue' : queue'[k] \in Reads /\ queue'[k] # i
    BY <2>2, <1>t DEF CameraInv, PoolInv
  <2>7. PoolInv'
    <3>1. \A j \in Reads : task[j] \in {"unsubmitted", "done"} => task'[j] = task[j]
      BY <2>1, <2>3, <1>t
    <3>2. \A k \in DOMAIN queue' : task'[queue'[k]] \in {"camera", "other"}
      BY <2>1, <2>2, <2>6, <1>t DEF CameraInv, PoolInv
    <3>3. \A k, l \in DOMAIN queue' : queue'[k] = queue'[l] => k = l
      BY <2>2 DEF CameraInv, PoolInv
    <3> QED
      BY <3>1, <3>2, <3>3, <2>1 DEF CameraInv, PoolInv, timers
  <2> QED
    BY <2>5, <2>7 DEF CameraInv
<1>5. ASSUME NEW i \in Reads, OtherEnds(i) \/ (CameraRead(i) /\ ~ScheduleIdleClose(i))
      PROVE  CameraInv'
  <2> USE DEF OtherEnds, CameraRead, AccessDenied, AccessAllowed, LookUp, OpenDevice,
              OpenRefused, OpenBreaks, Refused, StoreCapture, Grab, Finish
  <2>1. \E to \in CameraSteps \cup {"done"} :
          /\ task[i] \in CameraSteps \cup {"working"}
          /\ task' = [task EXCEPT ![i] = to]
          /\ UNCHANGED <<submitted, queue, timer, closing>>
    BY <1>5 DEF CameraSteps, pool, timers
  <2>2. task' \in [Reads -> Everywhere] /\ PoolInv'
    BY <2>1, ReadMoves
  <2>3. /\ using' \in [Reads -> 0..MaxReads]
        /\ capture' \in 0..MaxReads
        /\ device' \in [Reads -> {"unopened", "open", "closed"}]
        /\ denied' \in BOOLEAN
        /\ UNCHANGED <<pool, timers, shown, overlapped>>
    <3>1. capture \in 0..MaxReads /\ None \in 0..MaxReads /\ i \in 0..MaxReads
      BY <1>t DEF CameraInv, TypeOK, None, Reads
    <3>2. using' \in [Reads -> 0..MaxReads]
      BY <1>5, <3>1 DEF CameraInv, TypeOK
    <3>3. capture' \in 0..MaxReads
      BY <1>5, <3>1
    <3>4. device' \in [Reads -> {"unopened", "open", "closed"}]
      BY <1>5 DEF CameraInv, TypeOK
    <3>5. denied' \in BOOLEAN
      BY <1>5 DEF CameraInv, TypeOK
    <3>6. UNCHANGED <<pool, timers, shown, overlapped>>
      BY <1>5
    <3> QED
      BY <3>2, <3>3, <3>4, <3>5, <3>6
  <2>4. TypeOK'
    BY <2>2, <2>3 DEF CameraInv, TypeOK, pool, timers, Everywhere
  <2> QED
    BY <2>2, <2>4 DEF CameraInv
<1>6. ASSUME NEW i \in Reads, ScheduleIdleClose(i) PROVE CameraInv'
  <2>1. /\ task[i] = "schedule"
        /\ task' = [task EXCEPT ![i] = "done"]
        /\ idleTimer' = i
        /\ UNCHANGED <<pool, using, capture, device, denied, closing, shown, overlapped>>
    BY <1>6 DEF ScheduleIdleClose
  <2>2. /\ timer' \in [Reads -> {"unstarted", "armed", "fired", "closing", "over"}]
        /\ \A j \in Reads : j # i /\ timer'[j] # timer[j] => timer[j] = "armed" /\ timer'[j] = "over"
    BY <1>6 DEF ScheduleIdleClose, CameraInv, TypeOK
  <2>3. timer[i] = "unstarted" /\ closing[i] = None
    BY <2>1 DEF CameraInv, PoolInv
  <2>4. TypeOK'
    BY <2>1, <2>2, <1>t DEF CameraInv, TypeOK, pool, Over, Reads
  <2>5. \A j \in Reads : j # i => task'[j] = task[j]
    BY <2>1, <1>t
  <2>6. \A k \in DOMAIN queue : queue[k] \in Reads /\ queue[k] # i
    BY <2>1, <1>t DEF CameraInv, PoolInv
  <2>7. task'[i] = "done"
    BY <2>1, <1>t
  <2>8. PoolInv'
    BY <2>1, <2>2, <2>3, <2>5, <2>6, <2>7 DEF CameraInv, PoolInv, pool
  <2> QED
    BY <2>4, <2>8 DEF CameraInv
<1>7. ASSUME NEW i \in Reads, IdleClose(i) PROVE CameraInv'
  <2>1. PoolInv'
    BY <1>7 DEF IdleClose, Fire, PopCapture, CloseCapture, CameraInv, TypeOK, PoolInv, pool, None
  <2>2. TypeOK'
    <3>1. CASE Fire(i)
      BY <3>1 DEF Fire, CameraInv, TypeOK, pool
    <3>2. CASE PopCapture(i)
      <4>1. None \in 0..MaxReads
        BY <1>t DEF None
      <4> QED
        BY <3>2, <4>1 DEF PopCapture, CameraInv, TypeOK, pool
    <3>3. CASE CloseCapture(i)
      <4>1. None \in 0..MaxReads
        BY <1>t DEF None
      <4> QED
        BY <3>3, <4>1 DEF CloseCapture, CameraInv, TypeOK, pool
    <3> QED
      BY <1>7, <3>1, <3>2, <3>3 DEF IdleClose
  <2> QED
    BY <2>1, <2>2 DEF CameraInv
<1>8. CASE Discover
  BY <1>8 DEF Discover, CameraInv, TypeOK, PoolInv, pool, timers
<1> QED
  BY <1>1, <1>2, <1>3, <1>4, <1>5, <1>6, <1>7, <1>8 DEF Next, CameraRead

(* The variables keep their types (winrt_camera.py, bounded_read): a task, *)
(* a device and a timer are only ever in the states named.                 *)
THEOREM CameraTypes == Spec => []TypeOK
<1>1. Spec => []CameraInv
  BY CameraInit, CameraStep, PTL DEF Spec
<1>2. CameraInv => TypeOK
  BY DEF CameraInv
<1> QED
  BY <1>1, <1>2, PTL

-----------------------------------------------------------------------------
(* What a step that leaves the device alone does to the place of a read:   *)
(* it moves one read j, and other reads stay where they are.               *)
Moved(j, to) == task' = [task EXCEPT ![j] = to]

Quiet(j) ==
  \/ Moved(j, "camera") /\ task[j] = "unsubmitted"
  \/ Moved(j, "other") /\ task[j] = "unsubmitted"
  \/ Moved(j, "working") /\ task[j] = "other"
  \/ Moved(j, "access") /\ task[j] = "camera" /\ overlapped' = (overlapped \/ CameraReads # {})
  \/ Moved(j, "done") /\ task[j] \in {"working", "access", "open"}
  \/ Moved(j, "lookup") /\ task[j] = "access"
  \/ Moved(j, "open") /\ task[j] = "lookup" /\ capture = None
  \/ Moved(j, "grab") /\ task[j] = "lookup" /\ capture # None
  \/ Moved(j, "refused") /\ task[j] = "open"
  \/ Moved(j, "finish") /\ task[j] = "grab"
  \/ Moved(j, "schedule") /\ task[j] = "finish"

Handling(j) ==
  \/ OpenDevice(j) \/ Refused(j) \/ StoreCapture(j)
  \/ ScheduleIdleClose(j) \/ IdleClose(j)

LEMMA StepsSorted ==
  ASSUME CameraInv, [Next]_vars
  PROVE  \/ \E j \in Reads : Handling(j)
         \/ /\ UNCHANGED <<capture, device, timer, closing>>
            /\ overlapped => overlapped'
            /\ UNCHANGED task \/ \E j \in Reads : Quiet(j)
<1> DEFINE Calm ==
      /\ UNCHANGED <<capture, device, timer, closing>>
      /\ overlapped => overlapped'
      /\ UNCHANGED task \/ \E j \in Reads : Quiet(j)
<1> USE DEF Step, Quiet, Moved, timers
<1>1. ASSUME UNCHANGED vars PROVE Calm
  BY <1>1 DEF vars
<1>2. ASSUME NEW t \in Callers, NEW kind \in {"camera", "other"}, Submit(t, kind)
      PROVE  Calm
  <2> DEFINE i == submitted + 1
  <2>1. i \in Reads
    BY <1>2, MaxReadsAssumption DEF Submit, Reads, CameraInv, TypeOK
  <2>2. i > submitted
    BY DEF CameraInv, TypeOK
  <2>3. task[i] = "unsubmitted"
    BY <2>1, <2>2 DEF CameraInv, PoolInv
  <2>4. task' = [task EXCEPT ![i] = kind] /\ UNCHANGED <<capture, device, timers, overlapped>>
    BY <1>2 DEF Submit
  <2> HIDE DEF i
  <2> QED
    BY <2>1, <2>3, <2>4
<1>3. ASSUME NEW t \in Callers, ReadReturns(t) \/ ReadTimesOut(t) PROVE Calm
  BY <1>3 DEF ReadReturns, ReadTimesOut
<1>4. ASSUME TakeTask PROVE Calm
  <2> DEFINE i == Head(queue)
  <2>1. /\ queue # <<>> /\ queue \in Seq(Reads)
        /\ task' = [task EXCEPT ![i] = IF task[i] = "other" THEN "working" ELSE "access"]
        /\ overlapped' = (overlapped \/ (task'[i] = "access" /\ CameraReads # {}))
        /\ UNCHANGED <<capture, device, timers>>
    BY <1>4 DEF TakeTask, CameraInv, TypeOK
  <2>2. i \in Reads /\ i = queue[1] /\ 1 \in DOMAIN queue
    BY <2>1
  <2>3. task[i] \in {"camera", "other"}
    BY <2>2 DEF CameraInv, PoolInv
  <2>4. task \in [Reads -> Over \cup CameraSteps \cup {"working"}] /\ overlapped \in BOOLEAN
    BY DEF CameraInv, TypeOK
  <2>5. task[i] = "camera" => task'[i] = "access"
    BY <2>1, <2>2, <2>4
  <2> HIDE DEF i
  <2> QED
    BY <2>1, <2>2, <2>3, <2>4, <2>5
<1>5. ASSUME NEW i \in Reads, OtherEnds(i) PROVE Calm
  BY <1>5 DEF OtherEnds
<1>6. ASSUME NEW i \in Reads, CameraRead(i) PROVE Handling(i) \/ Calm
  BY <1>6 DEF CameraRead, Handling, AccessDenied, AccessAllowed, LookUp, OpenRefused, OpenBreaks,
              Grab, Finish
<1>7. ASSUME Discover PROVE Calm
  BY <1>7 DEF Discover
<1> HIDE DEF Calm, Quiet
<1>8. CASE \E j \in Reads : Handling(j)
  BY <1>8
<1>9. CASE ~\E j \in Reads : Handling(j)
  <2>1. Calm
    BY <1>1, <1>2, <1>3, <1>4, <1>5, <1>6, <1>7, <1>9 DEF Next, Handling
  <2> QED BY <2>1 DEF Calm
<1> QED
  BY <1>8, <1>9

-----------------------------------------------------------------------------
LEMMA TimedStep == CameraInv /\ TimedInv /\ [Next]_vars => TimedInv'
<1> SUFFICES ASSUME CameraInv, TimedInv, [Next]_vars PROVE TimedInv'
  OBVIOUS
<1> USE DEF Step
<1>t. /\ task \in [Reads -> Everywhere]
      /\ timer \in [Reads -> {"unstarted", "armed", "fired", "closing", "over"}]
  BY DEF CameraInv, TypeOK, Everywhere
<1>1. ASSUME UNCHANGED <<capture, timer>>,
             \A j \in Reads : task[j] \in ToSchedule => task'[j] \in ToSchedule
      PROVE  TimedInv'
  BY <1>1 DEF TimedInv
<1>2. CASE UNCHANGED <<capture, timer, task>>
  BY <1>1, <1>2
<1>3. ASSUME NEW i \in Reads, Quiet(i), UNCHANGED <<capture, timer>> PROVE TimedInv'
  <2>1. \A j \in Reads : task[j] \in ToSchedule => task'[j] \in ToSchedule
    BY <1>3, <1>t DEF Quiet, Moved, ToSchedule
  <2> QED
    BY <1>1, <1>3, <2>1
<1>4. ASSUME NEW i \in Reads, OpenDevice(i) PROVE TimedInv'
  BY <1>4, <1>1, <1>t DEF OpenDevice, timers, ToSchedule
<1>5. ASSUME NEW i \in Reads, Refused(i) PROVE TimedInv'
  BY <1>5 DEF Refused, TimedInv
<1>6. ASSUME NEW i \in Reads, StoreCapture(i) PROVE TimedInv'
  BY <1>6, <1>t DEF StoreCapture, TimedInv, ToSchedule
<1>7. ASSUME NEW i \in Reads, ScheduleIdleClose(i) PROVE TimedInv'
  BY <1>7, <1>t DEF ScheduleIdleClose, TimedInv
<1>8. ASSUME NEW i \in Reads, IdleClose(i) PROVE TimedInv'
  BY <1>8, <1>t DEF IdleClose, Fire, PopCapture, CloseCapture, TimedInv
<1> QED
  BY StepsSorted, <1>2, <1>3, <1>4, <1>5, <1>6, <1>7, <1>8 DEF Handling

(* While no camera read is running, the capture in _open_captures has a    *)
(* timer that has not come to close it yet (_schedule_idle_close and       *)
(* _close_idle_capture of winrt_camera.py), whatever reads and timers did  *)
(* before and in whatever order: the camera does not stay on for ever.     *)
THEOREM CaptureIsTimed == Spec => []IdleTimerArmed
<1>1. Spec => [](CameraInv /\ TimedInv)
  BY CameraInit, CameraStep, TimedStep, PTL DEF Spec
<1>2. CameraInv /\ TimedInv => IdleTimerArmed
  BY DEF TimedInv, IdleTimerArmed, CameraReads, CameraSteps, ToSchedule
<1> QED
  BY <1>1, <1>2, PTL

-----------------------------------------------------------------------------
LEMMA AloneStep == CameraInv /\ AloneInv /\ [Next]_vars => AloneInv'
<1> SUFFICES ASSUME CameraInv, AloneInv, [Next]_vars, ~overlapped' PROVE AloneInv'
  BY DEF AloneInv
<1> USE DEF Step
<1>t. task \in [Reads -> Everywhere]
  BY DEF CameraInv, TypeOK, Everywhere
<1>o. ~overlapped
  BY StepsSorted DEF Handling, OpenDevice, Refused, StoreCapture, ScheduleIdleClose, IdleClose,
     Fire, PopCapture, CloseCapture
<1>a. /\ \A j, k \in Reads : task[j] \in CameraSteps /\ task[k] \in CameraSteps => j = k
      /\ \A j \in Reads : task[j] \in Opening => capture = None
  BY <1>o DEF AloneInv, CameraReads
<1>s. SUFFICES
        /\ \A j, k \in Reads : task'[j] \in CameraSteps /\ task'[k] \in CameraSteps => j = k
        /\ \A j \in Reads : task'[j] \in Opening => capture' = None
  BY DEF AloneInv, CameraReads
<1> USE DEF CameraSteps, Opening
<1>2. CASE UNCHANGED <<capture, task>>
  BY <1>2, <1>a
<1>3. ASSUME NEW i \in Reads, Quiet(i), UNCHANGED capture
      PROVE  /\ \A j, k \in Reads : task'[j] \in CameraSteps /\ task'[k] \in CameraSteps => j = k
             /\ \A j \in Reads : task'[j] \in Opening => capture' = None
  <2>1. CASE Moved(i, "access") /\ task[i] = "camera" /\ CameraReads = {}
    BY <2>1, <1>3, <1>t DEF Moved, CameraReads
  <2>2. CASE ~(Moved(i, "access") /\ task[i] = "camera")
    <3>1. \A j \in Reads : task'[j] \in CameraSteps => task[j] \in CameraSteps
      BY <2>2, <1>3, <1>t DEF Moved, Quiet
    <3>2. \A j \in Reads : task'[j] \in Opening => task[j] \in Opening \/ capture = None
      BY <2>2, <1>3, <1>t DEF Moved, Quiet
    <3> QED
      BY <3>1, <3>2, <1>3, <1>a
  <2>3. overlapped' # (overlapped \/ CameraReads # {}) \/ CameraReads = {}
    BY <1>o
  <2> QED
    BY <2>1, <2>2, <2>3, <1>3 DEF Quiet
<1>4. ASSUME NEW i \in Reads, Handling(i)
      PROVE  /\ \A j, k \in Reads : task'[j] \in CameraSteps /\ task'[k] \in CameraSteps => j = k
             /\ \A j \in Reads : task'[j] \in Opening => capture' = None
  <2>1. CASE IdleClose(i)
    BY <2>1, <1>a DEF IdleClose, Fire, PopCapture, CloseCapture
  <2>2. CASE ~IdleClose(i)
    <3>1. \A j \in Reads : task'[j] \in CameraSteps => task[j] \in CameraSteps
      BY <2>2, <1>4, <1>t DEF Handling, OpenDevice, Refused, StoreCapture, ScheduleIdleClose
    <3>2. \A j \in Reads : task'[j] \in Opening => capture' = None
      BY <2>2, <1>4, <1>t, <1>a DEF Handling, OpenDevice, Refused, StoreCapture, ScheduleIdleClose
    <3> QED
      BY <3>1, <3>2, <1>a
  <2> QED
    BY <2>1, <2>2
<1> QED
  BY StepsSorted, <1>2, <1>3, <1>4

LEMMA HeldStep ==
  CameraInv /\ AloneInv /\ NothingForgotten /\ [Next]_vars => NothingForgotten'
<1> SUFFICES ASSUME CameraInv, AloneInv, NothingForgotten, [Next]_vars, ~overlapped',
                    NEW h \in Reads, device'[h] = "open"
             PROVE  \/ capture' = h
                    \/ task'[h] = "store"
                    \/ \E i \in Reads : closing'[i] = h
  BY DEF NothingForgotten
<1> USE DEF Step
<1>t. /\ task \in [Reads -> Everywhere]
      /\ timer \in [Reads -> {"unstarted", "armed", "fired", "closing", "over"}]
      /\ closing \in [Reads -> 0..MaxReads]
      /\ device \in [Reads -> {"unopened", "open", "closed"}]
  BY DEF CameraInv, TypeOK, Everywhere
<1>o. ~overlapped
  BY StepsSorted DEF Handling, OpenDevice, Refused, StoreCapture, ScheduleIdleClose, IdleClose,
     Fire, PopCapture, CloseCapture
<1>h. h # None
  BY DEF Reads, None
<1>a. /\ device[h] = "open" => capture = h \/ task[h] = "store" \/ \E i \in Reads : closing[i] = h
      /\ \A j \in Reads : task[j] \in Opening => capture = None
  BY <1>o DEF NothingForgotten, AloneInv
<1>2. CASE UNCHANGED <<capture, device, closing, task>>
  BY <1>2, <1>a
<1>3. ASSUME NEW i \in Reads, Quiet(i), UNCHANGED <<capture, device, closing>>
      PROVE  capture' = h \/ task'[h] = "store" \/ \E j \in Reads : closing'[j] = h
  <2>1. task[h] = "store" => task'[h] = "store"
    BY <1>3, <1>t DEF Moved, Quiet
  <2> QED
    BY <2>1, <1>3, <1>a
<1>4. ASSUME NEW i \in Reads, OpenDevice(i) \/ Refused(i) \/ StoreCapture(i) \/ ScheduleIdleClose(i)
      PROVE  capture' = h \/ task'[h] = "store" \/ \E j \in Reads : closing'[j] = h
  <2>1. UNCHANGED closing
    BY <1>4 DEF OpenDevice, Refused, StoreCapture, ScheduleIdleClose, timers
  <2>2. CASE device[h] # "open"
    BY <2>2, <1>4, <1>t DEF OpenDevice, Refused, StoreCapture, ScheduleIdleClose
  <2>3. CASE task[h] = "store"
    BY <2>3, <1>4, <1>t DEF OpenDevice, Refused, StoreCapture, ScheduleIdleClose
  <2>4. CASE capture = h
    BY <2>4, <1>4, <1>h, <1>a DEF OpenDevice, Refused, StoreCapture, ScheduleIdleClose, Opening
  <2> QED
    BY <2>1, <2>2, <2>3, <2>4, <1>a
<1>5. ASSUME NEW i \in Reads, IdleClose(i)
      PROVE  capture' = h \/ task'[h] = "store" \/ \E j \in Reads : closing'[j] = h
  <2>1. CASE Fire(i)
    BY <2>1, <1>a DEF Fire
  <2>2. CASE PopCapture(i)
    <3>1. closing[i] = None
      BY <2>2 DEF PopCapture, CameraInv, PoolInv
    <3> QED
      BY <2>2, <3>1, <1>a, <1>h, <1>t DEF PopCapture
  <2>3. CASE CloseCapture(i)
    <3>1. closing[i] # h
      BY <2>3, <1>t DEF CloseCapture
    <3> QED
      BY <2>3, <3>1, <1>a, <1>t DEF CloseCapture
  <2> QED
    BY <1>5, <2>1, <2>2, <2>3 DEF IdleClose
<1> QED
  BY StepsSorted, <1>2, <1>3, <1>4, <1>5 DEF Handling

(* As long as camera reads did not run at once, every MediaCapture that is *)
(* open is in the map, or with the read that opened it, or with the timer  *)
(* that closes it: no handle is lost between _get_or_open_capture and      *)
(* _close_idle_capture.                                                    *)
THEOREM DeviceIsHeld == Spec => []NothingForgotten
<1>1. Spec => [](CameraInv /\ AloneInv /\ NothingForgotten)
  BY CameraInit, CameraStep, AloneStep, HeldStep, PTL DEF Spec
<1> QED
  BY <1>1, PTL
=============================================================================
