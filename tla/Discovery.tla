----------------------------- MODULE Discovery -----------------------------
(***************************************************************************)
(* The DiscoveryCoordinator of registry/discovery.py: rounds of            *)
(* run_discovery in several threads, the pool their futures wait and run   *)
(* in, the one deadline of a round, and the bookkeeping of the futures     *)
(* that a round gave up on.                                                *)
(*                                                                         *)
(* A future is named by who submitted it, in which round and for which     *)
(* adapter.  _abandoned, a dict of non-empty sets of futures by adapter,   *)
(* is the set of all of them.                                              *)
(***************************************************************************)
EXTENDS Integers, Sequences, SequencesExt, FiniteSetsExt, Functions

CONSTANTS
  Callers,     (* threads that call run_discovery *)
  NumAdapters, (* the adapters, in the order they were loaded *)
  Workers,     (* max_workers of the pool *)
  MaxRounds,   (* bound: rounds of each caller *)
  MaxTotal     (* bound: rounds of all callers together *)

ASSUME NumAdaptersAssumption == NumAdapters \in Nat \ {0}
ASSUME WorkersAssumption     == Workers \in Nat \ {0}
ASSUME BoundsAssumption      == MaxRounds \in Nat /\ MaxTotal \in Nat

Adapters == 1..NumAdapters
Future == [caller : Callers, round : 1..MaxRounds, adapter : Adapters]

(* How discover() may end.  Its own TimeoutError is not told from the one  *)
(* of future.result(): both are the built-in class.                        *)
Endings == {"value", "error", "timeout_error"}

VARIABLES
  queue,     (* futures submitted to the pool and not started *)
  state,     (* of every future: "new", "running", how it ended, or     *)
             (* "gone" when nobody asks for it any more                 *)
  callbacks, (* futures with a done-callback that has not run *)
  abandoned, (* DiscoveryCoordinator._abandoned *)
  shut,      (* the pool was shut down *)
  round,     (* rounds each caller has begun *)
  pc,        (* where each caller is *)
  rest,      (* the adapters its loop has not finished with *)
  eligible,  (* the adapters of its round it did not skip *)
  late,      (* its deadline has passed *)
  outcome,   (* its outcomes *)
  inTime     (* history: futures that ended before their round's deadline *)

pool    == <<queue, state, callbacks>>
callers == <<round, pc, rest, eligible, late, outcome>>
vars == <<pool, abandoned, shut, callers, inTime>>

Init ==
  /\ queue = <<>>
  /\ state = [f \in Future |-> "new"]
  /\ callbacks = {}
  /\ abandoned = {}
  /\ shut = FALSE
  /\ round = [c \in Callers |-> 0]
  /\ pc = [c \in Callers |-> "idle"]
  /\ rest = [c \in Callers |-> {}]
  /\ eligible = [c \in Callers |-> {}]
  /\ late = [c \in Callers |-> FALSE]
  /\ outcome = [c \in Callers |-> [a \in Adapters |-> "none"]]
  /\ inTime = {}

Done(f) == state[f] \in Endings
Goto(c, label) == pc' = [pc EXCEPT ![c] = label]

(* The adapter a loop of the caller has reached, and its future. *)
Reached(c) == Min(rest[c])
Current(c) == [caller |-> c, round |-> round[c], adapter |-> Reached(c)]

Advance(c) == rest' = [rest EXCEPT ![c] = @ \ {Reached(c)}]
Record(c, what) == outcome' = [outcome EXCEPT ![c][Reached(c)] = what]

-----------------------------------------------------------------------------
(* The pool *)

(* The round that submitted f is still waiting for it. *)
InRound(f) == f.round = round[f.caller] /\ f.adapter \in eligible[f.caller]

(* A worker is busy until it has run the callbacks of its future. *)
Busy == {f \in Future : state[f] = "running" \/ (Done(f) /\ f \in callbacks)}

StartWork ==
  /\ queue # <<>>
  /\ Cardinality(Busy) < Workers
  /\ state' = [state EXCEPT ![Head(queue)] = "running"]
  /\ queue' = Tail(queue)
  /\ UNCHANGED <<callbacks, abandoned, shut, callers, inTime>>

(* discover() returns or raises, in its own time. *)
FinishWork(f, ending) ==
  /\ state[f] = "running"
  /\ state' = [state EXCEPT ![f] = ending]
  /\ inTime' = IF InRound(f) /\ ~late[f.caller] /\ ending # "timeout_error"
               THEN inTime \cup {f} ELSE inTime
  /\ UNCHANGED <<queue, callbacks, abandoned, shut, callers>>

(* Mutant: the callback clears the adapter, whoever else it waits for. *)
OnDoneClearsAdapter(f) ==
  /\ f \in callbacks /\ Done(f)
  /\ callbacks' = callbacks \ {f}
  /\ abandoned' = {g \in abandoned : g.adapter # f.adapter}
  /\ UNCHANGED <<queue, state, shut, callers, inTime>>

(* _on_done in the worker: the late result is dropped. *)
OnDone(f) ==
  /\ f \in callbacks /\ Done(f)
  /\ callbacks' = callbacks \ {f}
  /\ abandoned' = abandoned \ {f}
  /\ state' = [state EXCEPT ![f] = "gone"]
  /\ UNCHANGED <<queue, shut, callers, inTime>>

(* DiscoveryCoordinator.shutdown(wait=False): what was submitted runs on. *)
Shutdown ==
  /\ shut' = TRUE
  /\ UNCHANGED <<pool, abandoned, callers, inTime>>

-----------------------------------------------------------------------------
(* run_discovery *)

Begin(c) ==
  /\ pc[c] = "idle"
  /\ round[c] < MaxRounds /\ SumFunction(round) < MaxTotal
  /\ round' = [round EXCEPT ![c] = @ + 1]
  /\ rest' = [rest EXCEPT ![c] = Adapters]
  /\ Goto(c, "select")
  /\ UNCHANGED <<pool, abandoned, shut, eligible, late, outcome, inTime>>

(* Mutant: nobody looks whether the earlier call is over. *)
IsAbandonedNever(a) == FALSE

(* _is_abandoned(key) *)
IsAbandoned(a) == \E f \in abandoned : f.adapter = a

Skip(c) ==
  /\ pc[c] = "select" /\ rest[c] # {}
  /\ IsAbandoned(Reached(c))
  /\ Record(c, "still_running")
  /\ Advance(c)
  /\ UNCHANGED <<pool, abandoned, shut, round, pc, eligible, late, inTime>>

Select(c) ==
  /\ pc[c] = "select" /\ rest[c] # {}
  /\ ~IsAbandoned(Reached(c))
  /\ eligible' = [eligible EXCEPT ![c] = @ \cup {Reached(c)}]
  /\ Advance(c)
  /\ UNCHANGED <<pool, abandoned, shut, round, pc, late, outcome, inTime>>

(* deadline = monotonic() + timeout, before anything is submitted *)
SetDeadline(c) ==
  /\ pc[c] = "select" /\ rest[c] = {}
  /\ rest' = [rest EXCEPT ![c] = eligible[c]]
  /\ Goto(c, "submit")
  /\ UNCHANGED <<pool, abandoned, shut, round, eligible, late, outcome, inTime>>

DeadlinePasses(c) ==
  /\ pc[c] \in {"submit", "await", "mark", "attach"}
  /\ ~late[c]
  /\ late' = [late EXCEPT ![c] = TRUE]
  /\ UNCHANGED <<pool, abandoned, shut, round, pc, rest, eligible, outcome, inTime>>

Submit(c) ==
  /\ pc[c] = "submit" /\ rest[c] # {}
  /\ ~shut
  /\ queue' = Append(queue, Current(c))
  /\ Advance(c)
  /\ UNCHANGED <<state, callbacks, abandoned, shut, round, pc, eligible, late, outcome, inTime>>

(* The caller leaves run_discovery; its local variables are gone. *)
Leave(c) ==
  /\ Goto(c, "idle")
  /\ rest' = [rest EXCEPT ![c] = {}]
  /\ eligible' = [eligible EXCEPT ![c] = {}]
  /\ late' = [late EXCEPT ![c] = FALSE]
  /\ outcome' = [outcome EXCEPT ![c] = [a \in Adapters |-> "none"]]
  /\ inTime' = {f \in inTime : f.caller # c}
  /\ UNCHANGED <<pool, abandoned, shut, round>>

(* RuntimeError leaves run_discovery, and what it submitted with it. *)
SubmitRaises(c) ==
  /\ pc[c] = "submit" /\ rest[c] # {}
  /\ shut
  /\ Leave(c)

Submitted(c) ==
  /\ pc[c] = "submit" /\ rest[c] = {}
  /\ rest' = [rest EXCEPT ![c] = eligible[c]]
  /\ Goto(c, "await")
  /\ UNCHANGED <<pool, abandoned, shut, round, eligible, late, outcome, inTime>>

Awaits(c) == pc[c] = "await" /\ rest[c] # {}

(* future.result() of a future that is done, the deadline passed or not *)
Collect(c) ==
  /\ Awaits(c)
  /\ state[Current(c)] \in {"value", "error"}
  /\ Record(c, IF state[Current(c)] = "value" THEN "sensors" ELSE "error")
  /\ state' = [state EXCEPT ![Current(c)] = "gone"]
  /\ Advance(c)
  /\ UNCHANGED <<queue, callbacks, abandoned, shut, round, pc, eligible, late, inTime>>

(* Mutant: once the deadline has passed, nothing more is collected. *)
TimeOutUnseen(c) ==
  /\ Awaits(c)
  /\ late[c]
  /\ Record(c, "timed_out")
  /\ Goto(c, "mark")
  /\ UNCHANGED <<pool, abandoned, shut, round, rest, eligible, late, inTime>>

(* Mutant: only a call that runs can time out, not one that is queued. *)
TimeOutRunning(c) ==
  /\ Awaits(c)
  /\ state[Current(c)] = "running" /\ late[c]
  /\ Record(c, "timed_out")
  /\ Goto(c, "mark")
  /\ UNCHANGED <<pool, abandoned, shut, round, rest, eligible, late, inTime>>

(* except FuturesTimeout *)
TimeOut(c) ==
  /\ Awaits(c)
  /\ (~Done(Current(c)) /\ late[c]) \/ state[Current(c)] = "timeout_error"
  /\ Record(c, "timed_out")
  /\ Goto(c, "mark")
  /\ UNCHANGED <<pool, abandoned, shut, round, rest, eligible, late, inTime>>

(* _mark_abandoned *)
Mark(c) ==
  /\ pc[c] = "mark"
  /\ abandoned' = abandoned \cup {Current(c)}
  /\ Goto(c, "attach")
  /\ UNCHANGED <<pool, shut, round, rest, eligible, late, outcome, inTime>>

(* add_done_callback runs the callback itself when the future is done. *)
Attach(c) ==
  /\ pc[c] = "attach"
  /\ IF Done(Current(c))
       THEN /\ abandoned' = abandoned \ {Current(c)}
            /\ state' = [state EXCEPT ![Current(c)] = "gone"]
            /\ UNCHANGED callbacks
       ELSE /\ callbacks' = callbacks \cup {Current(c)}
            /\ UNCHANGED <<abandoned, state>>
  /\ Advance(c)
  /\ Goto(c, "await")
  /\ UNCHANGED <<queue, shut, round, eligible, late, outcome, inTime>>

Return(c) ==
  /\ pc[c] = "await" /\ rest[c] = {}
  /\ Leave(c)

RunDiscovery(c) ==
  \/ Skip(c) \/ Select(c) \/ SetDeadline(c)
  \/ Submit(c) \/ SubmitRaises(c) \/ Submitted(c)
  \/ Collect(c) \/ TimeOut(c) \/ Mark(c) \/ Attach(c) \/ Return(c)

Next ==
  \/ StartWork
  \/ \E f \in Future : OnDone(f) \/ \E ending \in Endings : FinishWork(f, ending)
  \/ Shutdown
  \/ \E c \in Callers : Begin(c) \/ DeadlinePasses(c) \/ RunDiscovery(c)

(* A caller runs on, the clock does, and a worker whose future is done     *)
(* runs its callback.  No call of discover() has to end, so no worker has  *)
(* to become free.                                                         *)
Fairness ==
  /\ \A c \in Callers : WF_vars(RunDiscovery(c)) /\ WF_vars(DeadlinePasses(c))
  /\ WF_vars(\E f \in Future : OnDone(f))

Spec == Init /\ [][Next]_vars
FairSpec == Spec /\ Fairness

-----------------------------------------------------------------------------
TypeOK ==
  /\ queue \in Seq(Future)
  /\ state \in [Future -> Endings \cup {"new", "running", "gone"}]
  /\ callbacks \subseteq Future
  /\ abandoned \subseteq Future
  /\ shut \in BOOLEAN
  /\ round \in [Callers -> 0..MaxRounds]
  /\ pc \in [Callers -> {"idle", "select", "submit", "await", "mark", "attach"}]
  /\ rest \in [Callers -> SUBSET Adapters]
  /\ eligible \in [Callers -> SUBSET Adapters]
  /\ \A c \in Callers : pc[c] # "select" => rest[c] \subseteq eligible[c]
  /\ late \in [Callers -> BOOLEAN]
  /\ outcome \in [Callers -> [Adapters -> {"none", "sensors", "error",
                                          "timed_out", "still_running"}]]
  /\ inTime \subseteq Future

(* Submitted and not over. *)
Unresolved(f) == f \in ToSet(queue) \/ state[f] = "running"

(* f's caller has entered f and not attached the callback yet. *)
Attaching(f) == pc[f.caller] = "attach" /\ Current(f.caller) = f

(* f was given up by its round. *)
GivenUp(f) == f \in callbacks \/ Attaching(f)

(* The bookkeeping is exact although the future may end at any moment      *)
(* between the timeout, the entry and the callback: an entry always has a  *)
(* callback that will remove it (no adapter stays ineligible for ever),    *)
(* and a call given up by its round has its entry until it is over.        *)
AbandonedExact == abandoned = {f \in Future : GivenUp(f)}

(* Calls of an adapter that hangs do not pile up and eat the pool: however *)
(* many rounds a thread runs, it has at most one unresolved call of each   *)
(* adapter.                                                                *)
NoPileUp ==
  \A c \in Callers, a \in Adapters :
    Cardinality({f \in Future : f.caller = c /\ f.adapter = a /\ Unresolved(f)}) <= 1

(* Waiting for a slow adapter costs the others nothing: a call that was    *)
(* over before the deadline counts, although its turn in the loop comes    *)
(* after it.                                                               *)
InTimeCounts ==
  \A f \in inTime : outcome[f.caller][f.adapter] # "timed_out"

(* The timeouts of the adapters do not add up: once the one deadline has   *)
(* passed the round ends by itself, although no call may ever return and   *)
(* the pool may be full of calls that hang.                                *)
RoundEnds == \A c \in Callers : late[c] ~> pc[c] = "idle"
=============================================================================
