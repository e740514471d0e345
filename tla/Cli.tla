-------------------------------- MODULE Cli --------------------------------
(***************************************************************************)
(* One run of the command line tool (cli/main.py), from its arguments to   *)
(* the end of the process: the adapters are loaded (Loading), the registry *)
(* is made, the command calls it, and what it raises becomes an exit code. *)
(* `doctor` runs the checks of Conformance, `stream` opens the Microphone. *)
(* When main() has returned, the interpreter waits for the threads of its  *)
(* pools and then runs the exit hooks, the registry's shutdown() last.     *)
(*                                                                         *)
(* A call into an adapter may take for ever; whether it does is left to    *)
(* the fairness, which asks nothing of such calls.                         *)
(***************************************************************************)
EXTENDS Loading, Microphone

VARIABLES
  args,      (* the command line *)
  step,      (* where the main thread is *)
  registry,  (* Registry() has been made, and its exit hook with it *)
  calls,     (* adapters whose discover() is running in the pool *)
  timedOut,  (* adapters that missed the deadline of the enumeration *)
  listed,    (* adapters whose sensors the enumeration reported *)
  reader,    (* the thread of _bounded_read *)
  stream,    (* the Stream: "none", "open", "ended", "released" *)
  expired,   (* the stream's deadline has passed *)
  checked,   (* doctor: the adapters whose report it has *)
  out,       (* the buffer that main() flushes at the end *)
  stdout,    (* what has been written to stdout *)
  raised,    (* the exception on its way to main() *)
  code,      (* exit code, Running before that *)
  torn       (* adapters whose teardown() has been called *)

session == <<registry, calls, timedOut, listed, reader, stream, expired, checked, torn>>
cliVars == <<args, step, session, out, stdout, raised, code>>
vars == <<loadVars, micVars, cliVars>>

Running == 99
NoError == "none"
Unknown == 0
Malformed == Adapters + 1

(* The arguments that the handlers look at. *)
Arguments ==
  [command : {"list", "read", "stream", "inspect", "doctor"},
   target : EntryPoints \cup {Unknown, Malformed},
   consent : {"none", "given", "invalid"},
   duration : {"none", "valid", "invalid"},
   elevated : BOOLEAN,
   timeout : {"valid", "invalid"}]

Sensible(a) ==
  /\ a.command \in {"list", "doctor"} => a.target = Unknown
  /\ a.command \notin {"read", "stream"} => a.consent = "none"
  /\ a.command # "stream" => a.duration = "none"

CONSTANT CommandLines  (* bound: those of Arguments that are tried *)

ASSUME CommandLinesAssumption ==
  \A a \in CommandLines : a \in Arguments /\ Sensible(a)

CliInit ==
  /\ args \in CommandLines
  /\ step = "parsed"
  /\ registry = FALSE
  /\ calls = {}
  /\ timedOut = {}
  /\ listed = {}
  /\ reader = "none"
  /\ stream = "none"
  /\ expired = FALSE
  /\ checked = {}
  /\ out = "nothing"
  /\ stdout = "nothing"
  /\ raised = NoError
  /\ code = Running
  /\ torn = {}

Init == LoadInit /\ MicInit /\ CliInit

Goto(from, to) == step = from /\ step' = to

(* The exception goes up to main(). *)
Raise(error) == raised' = error /\ step' = "failed"

ExitCode(error) ==
  CASE error \in {"InvalidTimeoutError", "MalformedSensorIdError", "_UsageError"} -> 2
    [] error = "UnknownSensorError" -> 3
    [] error \in {"SensorUnavailableError", "DeviceOpenError"} -> 4
    [] error \in {"ConsentError", "InvalidConsentRequestError"} -> 5
    [] error = "ReadTimeoutError" -> 6
    [] OTHER -> 1

-----------------------------------------------------------------------------
(* main: the registry, whose constructor loads the adapters.               *)

CheckTimeout ==
  /\ step = "parsed"
  /\ IF args.timeout = "invalid" THEN Raise("InvalidTimeoutError")
     ELSE step' = "loading" /\ UNCHANGED raised
  /\ UNCHANGED <<loadVars, micVars, args, session, out, stdout, code>>

Load ==
  /\ step = "loading"
  /\ LoadStep(args.elevated)
  /\ UNCHANGED <<micVars, cliVars>>

SetupOver ==
  /\ SetupEnds
  /\ UNCHANGED <<micVars, cliVars>>

(* The exit hook is registered last. *)
MakeRegistry ==
  /\ step = "loading" /\ ~Loading
  /\ IF RecordRefused THEN Raise("ValueError") /\ UNCHANGED registry
     ELSE step' = args.command /\ registry' = TRUE /\ UNCHANGED raised
  /\ UNCHANGED <<loadVars, micVars, args, calls, timedOut, listed, reader, stream, expired, checked, torn,
                 out, stdout, code>>

-----------------------------------------------------------------------------
(* list_sensors(), which all commands but doctor begin with after they     *)
(* have checked their own arguments.                                       *)

ArgumentError ==
  IF step = "stream" /\ args.duration = "invalid" THEN "_UsageError"
  ELSE IF args.consent = "invalid" THEN "InvalidConsentRequestError"
  ELSE NoError

RefuseArguments ==
  /\ step \in {"read", "stream"}
  /\ ArgumentError # NoError
  /\ Raise(ArgumentError)
  /\ UNCHANGED <<loadVars, micVars, args, session, out, stdout, code>>

(* The calls that miss the deadline stay in the pool.  The text of an      *)
(* exception goes into a status record, which may refuse it.               *)
Enumerate(late) ==
  LET answered == Loaded \ late
      failing  == {i \in answered : adapter[i].discovers = "raises"}
  IN  /\ step \in {"list", "read", "stream", "inspect"}
      /\ ArgumentError = NoError
      /\ calls' = late
      /\ timedOut' = late
      /\ listed' = {i \in answered \ failing : adapter[i].valid}
      /\ IF \E i \in failing : adapter[i].longText THEN Raise("ValueError")
         ELSE /\ step' = CASE step = "list" -> "formatting"
                           [] step = "read" -> "submitting"
                           [] step = "stream" -> "routing"
                           [] step = "inspect" -> "inspecting"
              /\ UNCHANGED raised
      /\ UNCHANGED <<loadVars, micVars, args, registry, reader, stream, expired, checked, torn,
                     out, stdout, code>>

DiscoverEnds(i) ==
  /\ i \in calls
  /\ calls' = calls \ {i}
  /\ UNCHANGED <<loadVars, micVars, args, step, registry, timedOut, listed, reader, stream, expired, checked, torn,
                 out, stdout, raised, code>>

-----------------------------------------------------------------------------
(* list and inspect: the text goes into the buffer.                        *)

FormatList ==
  /\ Goto("formatting", "succeeded")
  /\ out' = "all"
  /\ UNCHANGED <<loadVars, micVars, args, session, stdout, raised, code>>

(* Mutant: the table is printed as it is made. *)
FormatBreaksPrinted ==
  /\ step = "formatting"
  /\ stdout' = "partial"
  /\ Raise("other")
  /\ UNCHANGED <<loadVars, micVars, args, session, out, code>>

(* A later piece of the output cannot be made. *)
FormatBreaks ==
  /\ step = "formatting"
  /\ out' = "partial"
  /\ Raise("other")
  /\ UNCHANGED <<loadVars, micVars, args, session, stdout, code>>

Inspect ==
  /\ step = "inspecting"
  /\ IF args.target \notin listed THEN Raise("UnknownSensorError") /\ UNCHANGED out
     ELSE step' = "succeeded" /\ out' = "all" /\ UNCHANGED raised
  /\ UNCHANGED <<loadVars, micVars, args, session, stdout, code>>

-----------------------------------------------------------------------------
(* read: Registry.read() in a thread, and the wait of 10 s.                *)

(* What read() and stream() check before the adapter is called.  Buffer    *)
(* sensors are the ones that need consent here.                            *)
RoutingError ==
  IF args.target = Malformed THEN "MalformedSensorIdError"
  ELSE IF args.target \notin listed THEN "UnknownSensorError"
  ELSE IF adapter[args.target].buffer /\ args.consent # "given" THEN "ConsentError"
  ELSE NoError

ReadRefusal(a) == IF a.buffer THEN "BlockPathRequiredError" ELSE NoError
StreamRefusal(a) == IF a.streams THEN NoError ELSE "UnsupportedOperationError"

ReadError ==
  IF RoutingError # NoError THEN RoutingError
  ELSE LET a == adapter[args.target]
       IN  IF ReadRefusal(a) # NoError THEN ReadRefusal(a)
           ELSE CASE a.reads = "unavailable" -> "SensorUnavailableError"
                  [] a.reads = "slow" -> "ReadTimeoutError"
                  [] a.reads = "broken" -> "other"
                  [] a.reads \in {"valid", "invalid"} -> NoError

SubmitRead ==
  /\ Goto("submitting", "waiting")
  /\ reader' = "running"
  /\ UNCHANGED <<loadVars, micVars, args, registry, calls, timedOut, listed, stream, expired, checked, torn,
                 out, stdout, raised, code>>

(* In the thread: read() returns or raises. *)
ReadOver ==
  /\ reader = "running"
  /\ reader' = "over"
  /\ UNCHANGED <<loadVars, micVars, args, step, registry, calls, timedOut, listed, stream, expired, checked, torn,
                 out, stdout, raised, code>>

ReadEnds ==
  /\ step = "waiting" /\ reader = "over"
  /\ IF ReadError # NoError THEN Raise(ReadError) /\ UNCHANGED out
     ELSE step' = "succeeded" /\ out' = "all" /\ UNCHANGED raised
  /\ UNCHANGED <<loadVars, micVars, args, session, stdout, code>>

(* ReadTimeoutError leaves the `with`, which joins the thread first. *)
ReadTimesOut ==
  /\ Goto("waiting", "joining")
  /\ reader = "running"
  /\ UNCHANGED <<loadVars, micVars, args, session, out, stdout, raised, code>>

JoinReader ==
  /\ step = "joining" /\ reader = "over"
  /\ Raise("ReadTimeoutError")
  /\ UNCHANGED <<loadVars, micVars, args, session, out, stdout, code>>

-----------------------------------------------------------------------------
(* stream: Registry.stream(), the loop, and `finally: stream.close()`.     *)

RouteStream ==
  LET refusal == IF RoutingError # NoError THEN RoutingError
                 ELSE StreamRefusal(adapter[args.target])
  IN  /\ step = "routing"
      /\ IF refusal # NoError THEN Raise(refusal)
         ELSE step' = "opening" /\ UNCHANGED raised
      /\ UNCHANGED <<loadVars, micVars, args, session, out, stdout, code>>

OpenFails ==
  /\ step = "opening"
  /\ \/ DeviceMissing /\ Raise("DeviceOpenError")
     \/ GraphRefused /\ Raise("DeviceOpenError")
     \/ NodeRefused("denied") /\ Raise("DeviceOpenError")
     \/ NodeRefused("failed") /\ Raise("DeviceOpenError")
     \/ NodeBreaks /\ Raise("other")
  /\ UNCHANGED <<loadVars, args, session, out, stdout, code>>

OpenGraph ==
  /\ step = "opening"
  /\ GraphCreated
  /\ UNCHANGED <<loadVars, cliVars>>

OpenStream ==
  /\ Goto("opening", "streaming")
  /\ StreamStarts
  /\ stream' = "open"
  /\ UNCHANGED <<loadVars, args, registry, calls, timedOut, listed, reader, expired, checked, torn,
                 out, stdout, raised, code>>

Produce ==
  /\ ProducerStep
  /\ UNCHANGED <<loadVars, cliVars>>

(* Mutant: the deadline is not looked at. *)
PrintBlockForever ==
  /\ step = "streaming"
  /\ TakeBlock
  /\ stdout' = "blocks"
  /\ UNCHANGED <<loadVars, args, step, session, out, raised, code>>

(* A block is printed; the deadline is looked at only now. *)
PrintBlock ==
  /\ step = "streaming"
  /\ TakeBlock
  /\ stdout' = "blocks"
  /\ step' = IF expired THEN "closing" ELSE step
  /\ UNCHANGED <<loadVars, args, session, out, raised, code>>

DeadlinePasses ==
  /\ step = "streaming"
  /\ args.duration = "valid"
  /\ ~expired
  /\ expired' = TRUE
  /\ UNCHANGED <<loadVars, micVars, args, step, registry, calls, timedOut, listed, reader, stream, checked, torn,
                 out, stdout, raised, code>>

(* StopIteration; the Stream counts as closed from now on. *)
StreamEnds ==
  /\ Goto("streaming", "closing")
  /\ ring = "ended"
  /\ stream' = "ended"
  /\ UNCHANGED <<loadVars, micVars, args, registry, calls, timedOut, listed, reader, expired, checked, torn,
                 out, stdout, raised, code>>

(* Printing fails, as on a closed pipe, or Ctrl-C. *)
StreamBreaks(error) ==
  /\ Goto("streaming", "closing")
  /\ raised' = error
  /\ UNCHANGED <<loadVars, micVars, args, session, out, stdout, code>>

(* stream.close() sets the stop event and waits for the producer, but not  *)
(* for long; on a stream that has ended it does nothing.                   *)
CloseStream ==
  /\ step = "closing"
  /\ IF stream = "ended" THEN step' = "closed" /\ UNCHANGED micVars
     ELSE step' = "stopping" /\ StopProducer
  /\ UNCHANGED <<loadVars, args, session, out, stdout, raised, code>>

ReleaseStream ==
  /\ Goto("stopping", "closed")
  /\ CloseSource
  /\ stream' = "released"
  /\ UNCHANGED <<loadVars, args, registry, calls, timedOut, listed, reader, expired, checked, torn,
                 out, stdout, raised, code>>

(* Mutant: no finalizer. *)
LeaveStreamEnded ==
  /\ step = "closed"
  /\ step' = IF raised = NoError THEN "succeeded" ELSE "failed"
  /\ UNCHANGED <<loadVars, micVars, args, session, out, stdout, raised, code>>

(* The Stream goes with the handler's frame, and its finalizer releases    *)
(* what close() left alone.                                                *)
LeaveStream ==
  /\ step = "closed"
  /\ step' = IF raised = NoError THEN "succeeded" ELSE "failed"
  /\ stream' = "released"
  /\ IF stream = "ended" THEN CloseSource ELSE UNCHANGED micVars
  /\ UNCHANGED <<loadVars, args, registry, calls, timedOut, listed, reader, expired, checked, torn,
                 out, stdout, raised, code>>

-----------------------------------------------------------------------------
(* doctor: one adapter after the other, in the main thread.                *)

CheckAdapter(i) ==
  /\ step = "doctor"
  /\ i \in Loaded \ checked
  /\ checked' = checked \cup {i}
  /\ UNCHANGED <<loadVars, micVars, args, step, registry, calls, timedOut, listed, reader, stream, expired, torn,
                 out, stdout, raised, code>>

Failing == {i \in checked : ~Conforms(adapter[i])}

DoctorReports ==
  /\ step = "doctor"
  /\ Loaded \subseteq checked
  /\ out' = "all"
  /\ step' = "succeeded"
  /\ UNCHANGED <<loadVars, micVars, args, session, stdout, raised, code>>

-----------------------------------------------------------------------------
(* main() returns, or Ctrl-C leaves it.                                    *)

Fail ==
  /\ Goto("failed", "leaving")
  /\ code' = IF raised = "KeyboardInterrupt" THEN 130 ELSE ExitCode(raised)
  /\ UNCHANGED <<loadVars, micVars, args, session, out, stdout, raised>>

Succeed ==
  /\ Goto("succeeded", "leaving")
  /\ stdout' = IF out = "nothing" THEN stdout ELSE out
  /\ code' = IF args.command = "doctor" /\ Failing # {} THEN 7 ELSE 0
  /\ UNCHANGED <<loadVars, micVars, args, session, out, raised>>

(* The final write or its flush fails, or Ctrl-C comes into it: outside    *)
(* the `try` of main(), with any part of the text written.  120 is for a   *)
(* stdout that cannot be flushed at the very end either.                   *)
WriteBreaks ==
  /\ Goto("succeeded", "leaving")
  /\ raised' = "unwritten"
  /\ code' \in {1, 120, 130}
  /\ stdout' \in IF out = "nothing" THEN {stdout} ELSE {stdout, "partial", out}
  /\ UNCHANGED <<loadVars, micVars, args, session, out>>

(* The interpreter joins the threads of all executors ... *)
JoinPools ==
  /\ Goto("leaving", "exiting")
  /\ calls = {}
  /\ UNCHANGED <<loadVars, micVars, args, session, out, stdout, raised, code>>

(* ... and shutdown() calls each teardown(), whatever Exception it raises. *)
TearDown(i) ==
  /\ step = "exiting"
  /\ registry
  /\ i \in Loaded \ torn
  /\ \A j \in Loaded : j < i => j \in torn
  /\ torn' = torn \cup {i}
  /\ UNCHANGED <<loadVars, micVars, args, step, registry, calls, timedOut, listed, reader, stream, expired, checked,
                 out, stdout, raised, code>>

Exit ==
  /\ Goto("exiting", "gone")
  /\ registry => Loaded \subseteq torn
  /\ UNCHANGED <<loadVars, micVars, args, session, out, stdout, raised, code>>
-----------------------------------------------------------------------------
(* The tool's own steps.  What runs in an adapter, in the device or in the *)
(* user's hands is not among them.                                         *)
OwnStep ==
  \/ CheckTimeout \/ Load
  \/ MakeRegistry \/ RefuseArguments \/ (\E late \in SUBSET Loaded : Enumerate(late))
  \/ FormatList \/ FormatBreaks \/ Inspect
  \/ SubmitRead \/ ReadEnds \/ ReadTimesOut \/ JoinReader
  \/ RouteStream \/ PrintBlock \/ DeadlinePasses \/ StreamEnds \/ CloseStream
  \/ ReleaseStream \/ LeaveStream
  \/ DoctorReports \/ Fail \/ Succeed \/ WriteBreaks \/ JoinPools \/ Exit

Adapter(i) == DiscoverEnds(i) \/ CheckAdapter(i) \/ TearDown(i)

OpenSteps == OpenFails \/ OpenGraph \/ OpenStream

Next ==
  \/ OwnStep
  \/ SetupOver
  \/ ReadOver
  \/ \E i \in EntryPoints : Adapter(i)
  \/ OpenSteps \/ Produce
  \/ StreamBreaks("other") \/ StreamBreaks("KeyboardInterrupt")

(* The main thread is never kept from its own steps. *)
Fairness ==
  /\ WF_vars(OwnStep)
  /\ WF_vars(DeadlinePasses)
  /\ WF_vars(PrintBlock)

(* What FairSpec leaves open: the calls into adapters and device return.   *)
CallsReturn ==
  /\ WF_vars(SetupOver)
  /\ WF_vars(ReadOver)
  /\ \A i \in EntryPoints : WF_vars(Adapter(i))
  /\ WF_vars(OpenSteps)
  /\ WF_vars(Produce)

Spec == Init /\ [][Next]_vars
FairSpec == Spec /\ Fairness
CallsReturnSpec == FairSpec /\ CallsReturn

-----------------------------------------------------------------------------
TypeOK ==
  /\ adapter \in [EntryPoints -> Behaviours]
  /\ next \in 1..(Adapters + 1)
  /\ worker \in {"none", "running", "over"}
  /\ overdue \in BOOLEAN
  /\ outcome \in [EntryPoints ->
       {Pending, "load_error", "unsupported_platform", "not_opted_in", "load_timeout",
        "read_only_not_declared", "loaded"}]
  /\ graph \in {"none", "created", "running", "closed"}
  /\ denied \in BOOLEAN
  /\ closed \in BOOLEAN
  /\ producer \in {"none", "idle", "polling", "over"}
  /\ ring \in {"empty", "blocks", "ended"}
  /\ stopping \in BOOLEAN
  /\ args \in CommandLines
  /\ step \in {"parsed", "loading", "list", "read", "stream", "inspect", "doctor", "formatting",
       "inspecting", "submitting", "waiting", "joining", "routing", "opening", "streaming",
       "closing", "stopping", "closed", "succeeded", "failed", "leaving", "exiting", "gone"}
  /\ registry \in BOOLEAN
  /\ calls \cup timedOut \cup listed \cup checked \cup torn \subseteq EntryPoints
  /\ reader \in {"none", "running", "over"}
  /\ stream \in {"none", "open", "ended", "released"}
  /\ expired \in BOOLEAN
  /\ out \in {"nothing", "partial", "all"}
  /\ stdout \in {"nothing", "partial", "all", "blocks"}
  /\ code \in 0..7 \cup {Running, 120, 130}
  /\ raised \in {NoError, "ValueError", "InvalidTimeoutError", "MalformedSensorIdError",
       "_UsageError", "UnknownSensorError", "SensorUnavailableError", "DeviceOpenError",
       "ConsentError", "InvalidConsentRequestError", "ReadTimeoutError",
       "BlockPathRequiredError", "UnsupportedOperationError", "KeyboardInterrupt", "other",
       "unwritten"}

(* What the other adapters are like and do keeps no good adapter out: one  *)
(* that passes the gates, is set up in time and reports a valid sensor in  *)
(* time is listed.  Only an error text too long for a status record breaks *)
(* this, and then it breaks the whole command.                             *)
BadAdaptersContained ==
  /\ raised = "ValueError" => \E i \in EntryPoints : adapter[i].longText
  /\ step \in {"formatting", "submitting", "routing", "inspecting"} =>
       \A i \in EntryPoints :
         /\ Gate(adapter[i], args.elevated) = "open"
         /\ adapter[i].setup = "returns" /\ outcome[i] # "load_timeout"
         /\ adapter[i].declared /\ adapter[i].valid /\ Discovers(adapter[i])
         => i \in listed \cup timedOut

(* When the exit hooks tear adapters down, and when the process is gone,   *)
(* no device is running under a stream, however the stream came to its     *)
(* end: by the deadline, an error, Ctrl-C, or by itself, after which       *)
(* close() does nothing.                                                   *)
DeviceLetGo ==
  step \in {"exiting", "gone"} => graph # "running" /\ (stream # "none" => closed)

(* doctor's exit code tells CI what there is to know: 7 if and only if a   *)
(* loaded adapter breaks the contract, and 0 only if every sensor of every *)
(* loaded adapter can be reached by read or by stream as the registry      *)
(* routes them.                                                            *)
DoctorVerdict ==
  step = "gone" /\ args.command = "doctor" /\ raised = NoError =>
    /\ code = 7 <=> \E i \in Loaded : ~Conforms(adapter[i])
    /\ code = 0 => \A i \in Loaded :
         \/ ReadRefusal(adapter[i]) = NoError
         \/ StreamRefusal(adapter[i]) = NoError

(* A command that fails leaves nothing on stdout, unless it is the writing *)
(* itself that fails; the blocks of a stream are out already.              *)
FailurePrintsNothing ==
  step = "gone" /\ code \notin {0, 7} /\ stream = "none" =>
    stdout = "nothing" \/ raised = "unwritten"

(* If calls return, every command ends and so does the process, except a   *)
(* stream that nobody gave a duration.                                     *)
ProcessEnds ==
  args.command # "stream" \/ args.duration # "none" => <>(step = "gone")

(* main.py and REFERENCE.md say of `read` that it is bounded at 10 seconds *)
(* "regardless of adapter behaviour, after which it exits with code 6":    *)
(* once the wait has begun there will be an exit code.                     *)
ReadBounded == step = "waiting" ~> code # Running
=============================================================================
