------------------------------ MODULE CliProofs ------------------------------
(***************************************************************************)
(* Proofs about Cli, for any number of adapters, whatever they are like,   *)
(* and any command line:                                                   *)
(*   CliTypes          the type invariant,                                 *)
(*   BadOnesContained  a good adapter is listed whatever the others do,    *)
(*   DeviceIsLetGo     no device runs under a stream when main() is over,  *)
(*   DoctorIsRight     the exit code of doctor,                            *)
(*   FailureIsSilent   a command that fails prints nothing.                *)
(***************************************************************************)
EXTENDS Cli, TLAPS

Ending == {"succeeded", "failed", "leaving", "exiting", "gone"}
Commands == {"list", "read", "stream", "inspect", "doctor"}
NothingRaised ==
  Commands \cup {"parsed", "loading", "formatting", "inspecting", "submitting", "waiting", "joining",
                 "routing", "opening", "succeeded"}

(* doctor takes no step of another command; the exit code is set when      *)
(* main() is left.                                                         *)
StepInv ==
  /\ args.command = "doctor" => step \in Ending \cup {"parsed", "loading", "doctor"}
  /\ step \notin {"leaving", "exiting", "gone"} => code = Running
  /\ step = "failed" => raised # NoError
  /\ step \in NothingRaised => raised = NoError
  /\ raised = "unwritten" => step \in {"leaving", "exiting", "gone"}

(* Passes the gates, returns from setup() and is declared. *)
SetUp(i) ==
  /\ Gate(adapter[i], args.elevated) = "open"
  /\ adapter[i].setup = "returns"
  /\ adapter[i].declared

(* Every entry point had its turn when the commands begin. *)
LoadInv ==
  /\ step \in Commands => ~Loading
  /\ worker # "none" => Loading /\ Gate(adapter[next], args.elevated) = "open"
  /\ \A i \in EntryPoints :
       i < next /\ SetUp(i) /\ outcome[i] # "load_timeout" => outcome[i] = "loaded"

CliInv == TypeOK /\ StepInv /\ LoadInv

-----------------------------------------------------------------------------
LEMMA CliInitially == Init => CliInv
<1> SUFFICES ASSUME Init PROVE CliInv
  OBVIOUS
<1>1. 1 \in 1..(Adapters + 1) /\ Running \in 0..7 \cup {Running, 120, 130}
  BY AdaptersAssumption
<1>2. TypeOK
  BY <1>1 DEF Init, LoadInit, MicInit, CliInit, TypeOK
<1>3. StepInv
  BY DEF Init, CliInit, NoError, StepInv, Ending, NothingRaised, Commands
<1>4. LoadInv
  BY AdaptersAssumption DEF Init, LoadInit, CliInit, LoadInv, EntryPoints, Commands
<1> QED
  BY <1>2, <1>3, <1>4 DEF CliInv

Errors ==
  {"ValueError", "InvalidTimeoutError", "MalformedSensorIdError", "_UsageError",
   "UnknownSensorError", "SensorUnavailableError", "DeviceOpenError", "ConsentError",
   "InvalidConsentRequestError", "ReadTimeoutError", "BlockPathRequiredError",
   "UnsupportedOperationError", "KeyboardInterrupt", "other"}

(* What a command can fail with, and what becomes of it. *)
LEMMA CommandErrors ==
  ASSUME TypeOK
  PROVE  /\ ArgumentError \in {NoError, "_UsageError", "InvalidConsentRequestError"}
         /\ RoutingError \in (Errors \ {"ValueError"}) \cup {NoError}
         /\ ReadError \in (Errors \ {"ValueError"}) \cup {NoError}
         /\ \A a \in Behaviours : StreamRefusal(a) \in {NoError, "UnsupportedOperationError"}
         /\ \A error \in Errors : ExitCode(error) \in 1..6
<1>1. RoutingError \in (Errors \ {"ValueError"}) \cup {NoError}
  BY DEF RoutingError, Errors, NoError
<1>2. ReadError \in (Errors \ {"ValueError"}) \cup {NoError}
  <2>1. CASE RoutingError # NoError
    BY <1>1, <2>1 DEF ReadError
  <2>2. CASE RoutingError = NoError
    <3>1. args.target \in listed
      BY <2>2 DEF RoutingError, NoError
    <3>2. adapter[args.target] \in Behaviour
      BY <3>1, BehavioursAssumption DEF TypeOK
    <3> QED
      BY <2>2, <3>2 DEF ReadError, ReadRefusal, Errors, NoError, Behaviour
  <2> QED
    BY <2>1, <2>2
<1>3. \A error \in Errors : ExitCode(error) \in 1..6
  BY DEF ExitCode, Errors
<1> QED
  BY <1>1, <1>2, <1>3 DEF ArgumentError, StreamRefusal, NoError

(* The steps that load the adapters. *)
LEMMA LoadKeeps ==
  ASSUME CliInv, step = "loading", LoadStep(args.elevated), UNCHANGED <<micVars, cliVars>>
  PROVE  CliInv'
<1> USE DEF CliInv
<1>1. ASSUME Refuse(args.elevated) PROVE TypeOK' /\ LoadInv'
  <2>1. next \in EntryPoints /\ next + 1 \in 1..(Adapters + 1)
    BY <1>1, AdaptersAssumption DEF Refuse, Loading, TypeOK, EntryPoints
  <2>2. Gate(adapter[next], args.elevated) \in {"load_error", "unsupported_platform", "not_opted_in"}
    BY <1>1 DEF Refuse, Gate
  <2>3. TypeOK'
    BY <1>1, <2>1, <2>2 DEF Refuse, Settle, TypeOK, micVars, cliVars, session
  <2>4. ASSUME NEW i \in EntryPoints, i < next + 1, SetUp(i), outcome'[i] # "load_timeout"
        PROVE  outcome'[i] = "loaded"
    <3>1. i # next
      BY <1>1, <2>4 DEF Refuse, SetUp
    <3>2. i < next
      BY <2>1, <2>4, <3>1, AdaptersAssumption DEF EntryPoints
    <3> QED
      BY <1>1, <2>4, <3>1, <3>2 DEF Refuse, Settle, LoadInv, TypeOK
  <2> QED
    BY <1>1, <2>3, <2>4 DEF Refuse, Settle, LoadInv, SetUp, Commands, cliVars
<1>2. ASSUME StartSetup(args.elevated) PROVE TypeOK' /\ LoadInv'
  BY <1>2 DEF StartSetup, TypeOK, LoadInv, SetUp, Loading, Commands, micVars, cliVars, session
<1>3. ASSUME Overrun PROVE TypeOK' /\ LoadInv'
  BY <1>3 DEF Overrun, TypeOK, LoadInv, SetUp, Loading, Commands, micVars, cliVars, session
<1>4. ASSUME Record PROVE TypeOK' /\ LoadInv'
  <2>1. next \in EntryPoints /\ next + 1 \in 1..(Adapters + 1)
    BY <1>4, AdaptersAssumption DEF Record, Loading, LoadInv, TypeOK, EntryPoints
  <2>2. Verdict(adapter[next]) \in {"load_timeout", "load_error", "read_only_not_declared", "loaded"}
    BY DEF Verdict
  <2>3. TypeOK'
    <3>1. outcome' = [outcome EXCEPT ![next] = Verdict(adapter[next])] /\ next' = next + 1
          /\ worker' = "none" /\ overdue' = FALSE /\ adapter' = adapter
      BY <1>4 DEF Record, Settle
    <3>2. outcome' \in [EntryPoints ->
            {Pending, "load_error", "unsupported_platform", "not_opted_in", "load_timeout",
             "read_only_not_declared", "loaded"}]
      BY <2>1, <2>2, <3>1 DEF TypeOK
    <3>3. next' \in 1..(Adapters + 1) /\ overdue' \in BOOLEAN
      BY <2>1, <3>1
    <3>4. worker' = "none" /\ adapter' = adapter
      BY <3>1
    <3> QED
      BY <3>2, <3>3, <3>4 DEF TypeOK, micVars, cliVars, session
  <2>4. ASSUME NEW i \in EntryPoints, i < next + 1, SetUp(i), outcome'[i] # "load_timeout"
        PROVE  outcome'[i] = "loaded"
    <3>1. CASE i = next
      BY <1>4, <2>4, <3>1 DEF Record, Settle, SetUp, Verdict, TypeOK
    <3>2. CASE i # next
      <4>1. i < next
        BY <2>1, <2>4, <3>2, AdaptersAssumption DEF EntryPoints
      <4> QED
        BY <1>4, <2>4, <3>2, <4>1 DEF Record, Settle, LoadInv, TypeOK
    <3> QED
      BY <3>1, <3>2
  <2> QED
    BY <1>4, <2>3, <2>4 DEF Record, Settle, LoadInv, SetUp, Commands, cliVars
<1>5. StepInv'
  BY DEF StepInv, cliVars, session
<1> QED
  BY <1>1, <1>2, <1>3, <1>4, <1>5 DEF LoadStep

(* Nothing is loaded behind the constructor of the registry. *)
LEMMA OutcomeStays ==
  ASSUME CliInv, UNCHANGED <<loadVars, args>>, step' \in Commands => step \in Commands \/ ~Loading
  PROVE  LoadInv' /\ Loaded' = Loaded
BY DEF CliInv, LoadInv, Loading, Loaded, SetUp, loadVars

LEMMA CommandNamed == TypeOK => args.command \in Commands
BY CommandLinesAssumption DEF TypeOK, Arguments, Commands

LEMMA CliStep == CliInv /\ [Next]_vars => CliInv'
<1> SUFFICES ASSUME CliInv, [Next]_vars PROVE CliInv'
  OBVIOUS
<1> USE DEF CliInv
<1> DEFINE Kept == TypeOK' /\ StepInv' /\ UNCHANGED <<loadVars, args>>
                   /\ (step' \in Commands => step \in Commands \/ ~Loading)
<1>loading. CASE Load
  BY <1>loading, LoadKeeps DEF Load
<1>setup. CASE SetupOver
  BY <1>setup DEF SetupOver, SetupEnds, TypeOK, StepInv, LoadInv, SetUp, Loading, micVars, cliVars, session
<1>CheckTimeout. ASSUME CheckTimeout PROVE Kept
  BY <1>CheckTimeout, CommandLinesAssumption DEF CheckTimeout, Raise, TypeOK, StepInv, Ending, Commands, NothingRaised,
     NoError, Errors, session, loadVars, micVars, cliVars, Arguments
<1>MakeRegistry. ASSUME MakeRegistry PROVE Kept
  <2>1. args.command \in Commands
    BY CommandNamed
  <2>2. CASE RecordRefused
    BY <1>MakeRegistry, <2>2 DEF MakeRegistry, Raise, TypeOK, StepInv, Ending, Commands, NothingRaised,
       NoError, Errors, session, loadVars, micVars, cliVars, Arguments
  <2>3. CASE ~RecordRefused
    BY <1>MakeRegistry, <2>1, <2>3 DEF MakeRegistry, TypeOK, StepInv, Ending, Commands, NothingRaised,
       NoError, Errors, session, loadVars, micVars, cliVars, Arguments
  <2> QED
    BY <2>2, <2>3
<1>RefuseArguments. ASSUME RefuseArguments PROVE Kept
  BY CommandErrors, <1>RefuseArguments, CommandLinesAssumption DEF RefuseArguments, Raise, ArgumentError, TypeOK, StepInv, Ending, Commands, NothingRaised,
     NoError, Errors, session, loadVars, micVars, cliVars, Arguments
<1>FormatList. ASSUME FormatList PROVE Kept
  BY <1>FormatList, CommandLinesAssumption DEF FormatList, Goto, TypeOK, StepInv, Ending, Commands, NothingRaised,
     NoError, Errors, session, loadVars, micVars, cliVars, Arguments
<1>FormatBreaks. ASSUME FormatBreaks PROVE Kept
  BY <1>FormatBreaks, CommandLinesAssumption DEF FormatBreaks, Raise, TypeOK, StepInv, Ending, Commands, NothingRaised,
     NoError, Errors, session, loadVars, micVars, cliVars, Arguments
<1>Inspect. ASSUME Inspect PROVE Kept
  BY <1>Inspect, CommandLinesAssumption DEF Inspect, Raise, TypeOK, StepInv, Ending, Commands, NothingRaised,
     NoError, Errors, session, loadVars, micVars, cliVars, Arguments
<1>SubmitRead. ASSUME SubmitRead PROVE Kept
  BY <1>SubmitRead, CommandLinesAssumption DEF SubmitRead, Goto, TypeOK, StepInv, Ending, Commands, NothingRaised,
     NoError, Errors, session, loadVars, micVars, cliVars, Arguments
<1>ReadOver. ASSUME ReadOver PROVE Kept
  BY <1>ReadOver, CommandLinesAssumption DEF ReadOver, TypeOK, StepInv, Ending, Commands, NothingRaised,
     NoError, Errors, session, loadVars, micVars, cliVars, Arguments
<1>ReadEnds. ASSUME ReadEnds PROVE Kept
  BY CommandErrors, <1>ReadEnds, CommandLinesAssumption DEF ReadEnds, Raise, TypeOK, StepInv, Ending, Commands, NothingRaised,
     NoError, Errors, session, loadVars, micVars, cliVars, Arguments
<1>ReadTimesOut. ASSUME ReadTimesOut PROVE Kept
  BY <1>ReadTimesOut, CommandLinesAssumption DEF ReadTimesOut, Goto, TypeOK, StepInv, Ending, Commands, NothingRaised,
     NoError, Errors, session, loadVars, micVars, cliVars, Arguments
<1>JoinReader. ASSUME JoinReader PROVE Kept
  BY <1>JoinReader, CommandLinesAssumption DEF JoinReader, Raise, TypeOK, StepInv, Ending, Commands, NothingRaised,
     NoError, Errors, session, loadVars, micVars, cliVars, Arguments
<1>RouteStream. ASSUME RouteStream PROVE Kept
  <2> DEFINE refusal == IF RoutingError # NoError THEN RoutingError ELSE StreamRefusal(adapter[args.target])
  <2>1. refusal \in Errors \cup {NoError}
    BY CommandErrors DEF StreamRefusal, Errors
  <2> HIDE DEF refusal
  <2>2. /\ step = "routing"
        /\ \/ refusal # NoError /\ raised' = refusal /\ step' = "failed"
           \/ step' = "opening" /\ UNCHANGED raised
        /\ UNCHANGED <<loadVars, micVars, args, session, out, stdout, code>>
    BY <1>RouteStream DEF RouteStream, Raise, refusal
  <2> QED
    BY <2>1, <2>2 DEF TypeOK, StepInv, Ending, Commands, NothingRaised,
       NoError, Errors, session, loadVars, micVars, cliVars, Arguments
<1>OpenFails. ASSUME OpenFails PROVE Kept
  <2>1. graph' \in {"none", "created", "running", "closed"} /\ denied' \in BOOLEAN
        /\ UNCHANGED <<closed, producer, ring, stopping>>
    BY <1>OpenFails DEF OpenFails, DeviceMissing, GraphRefused, NodeRefused, NodeBreaks, micVars, TypeOK
  <2>2. step = "opening" /\ step' = "failed" /\ raised' \in {"DeviceOpenError", "other"}
    BY <1>OpenFails DEF OpenFails, Raise
  <2>3. UNCHANGED <<loadVars, args, session, out, stdout, code>>
    BY <1>OpenFails DEF OpenFails
  <2> QED
    BY <2>1, <2>2, <2>3 DEF TypeOK, StepInv, Ending, Commands, NothingRaised,
       NoError, Errors, session, loadVars, micVars, cliVars, Arguments
<1>OpenGraph. ASSUME OpenGraph PROVE Kept
  BY <1>OpenGraph, CommandLinesAssumption DEF OpenGraph, GraphCreated, TypeOK, StepInv, Ending, Commands, NothingRaised,
     NoError, Errors, session, loadVars, micVars, cliVars, Arguments
<1>OpenStream. ASSUME OpenStream PROVE Kept
  BY <1>OpenStream, CommandLinesAssumption DEF OpenStream, StreamStarts, Goto, TypeOK, StepInv, Ending, Commands, NothingRaised,
     NoError, Errors, session, loadVars, micVars, cliVars, Arguments
<1>Produce. ASSUME Produce PROVE Kept
  BY <1>Produce, CommandLinesAssumption DEF Produce, ProducerStep, NextBlock, BlockReady, BlockRaises, TypeOK, StepInv, Ending, Commands, NothingRaised,
     NoError, Errors, session, loadVars, micVars, cliVars, Arguments
<1>PrintBlock. ASSUME PrintBlock PROVE Kept
  BY <1>PrintBlock, CommandLinesAssumption DEF PrintBlock, TakeBlock, TypeOK, StepInv, Ending, Commands, NothingRaised,
     NoError, Errors, session, loadVars, micVars, cliVars, Arguments
<1>DeadlinePasses. ASSUME DeadlinePasses PROVE Kept
  BY <1>DeadlinePasses, CommandLinesAssumption DEF DeadlinePasses, TypeOK, StepInv, Ending, Commands, NothingRaised,
     NoError, Errors, session, loadVars, micVars, cliVars, Arguments
<1>StreamEnds. ASSUME StreamEnds PROVE Kept
  BY <1>StreamEnds, CommandLinesAssumption DEF StreamEnds, Goto, TypeOK, StepInv, Ending, Commands, NothingRaised,
     NoError, Errors, session, loadVars, micVars, cliVars, Arguments
<1>CloseStream. ASSUME CloseStream PROVE Kept
  <2>1. CASE stream = "ended"
    BY <1>CloseStream, <2>1 DEF CloseStream, TypeOK, StepInv, Ending, Commands, NothingRaised,
       NoError, Errors, session, loadVars, micVars, cliVars, Arguments
  <2>2. CASE stream # "ended"
    BY <1>CloseStream, <2>2 DEF CloseStream, StopProducer, TypeOK, StepInv, Ending, Commands, NothingRaised,
       NoError, Errors, session, loadVars, micVars, cliVars, Arguments
  <2> QED
    BY <2>1, <2>2
<1>ReleaseStream. ASSUME ReleaseStream PROVE Kept
  BY <1>ReleaseStream, CommandLinesAssumption DEF ReleaseStream, CloseSource, Goto, TypeOK, StepInv, Ending, Commands, NothingRaised,
     NoError, Errors, session, loadVars, micVars, cliVars, Arguments
<1>LeaveStream. ASSUME LeaveStream PROVE Kept
  <2>1. CASE stream = "ended"
    BY <1>LeaveStream, <2>1 DEF LeaveStream, CloseSource, TypeOK, StepInv, Ending, Commands, NothingRaised,
       NoError, Errors, session, loadVars, micVars, cliVars, Arguments
  <2>2. CASE stream # "ended"
    BY <1>LeaveStream, <2>2 DEF LeaveStream, TypeOK, StepInv, Ending, Commands, NothingRaised,
       NoError, Errors, session, loadVars, micVars, cliVars, Arguments
  <2> QED
    BY <2>1, <2>2
<1>DoctorReports. ASSUME DoctorReports PROVE Kept
  BY <1>DoctorReports, CommandLinesAssumption DEF DoctorReports, TypeOK, StepInv, Ending, Commands, NothingRaised,
     NoError, Errors, session, loadVars, micVars, cliVars, Arguments
<1>Fail. ASSUME Fail PROVE Kept
  BY CommandErrors, <1>Fail, CommandLinesAssumption DEF Fail, Goto, ExitCode, TypeOK, StepInv, Ending, Commands, NothingRaised,
     NoError, Errors, session, loadVars, micVars, cliVars, Arguments
<1>Succeed. ASSUME Succeed PROVE Kept
  BY <1>Succeed, CommandLinesAssumption DEF Succeed, Goto, TypeOK, StepInv, Ending, Commands, NothingRaised,
     NoError, Errors, session, loadVars, micVars, cliVars, Arguments
<1>WriteBreaks. ASSUME WriteBreaks PROVE Kept
  BY <1>WriteBreaks, CommandLinesAssumption DEF WriteBreaks, Goto, TypeOK, StepInv, Ending, Commands, NothingRaised,
     NoError, Errors, session, loadVars, micVars, cliVars, Arguments
<1>JoinPools. ASSUME JoinPools PROVE Kept
  BY <1>JoinPools, CommandLinesAssumption DEF JoinPools, Goto, TypeOK, StepInv, Ending, Commands, NothingRaised,
     NoError, Errors, session, loadVars, micVars, cliVars, Arguments
<1>Exit. ASSUME Exit PROVE Kept
  BY <1>Exit, CommandLinesAssumption DEF Exit, Goto, TypeOK, StepInv, Ending, Commands, NothingRaised,
     NoError, Errors, session, loadVars, micVars, cliVars, Arguments
<1>enumerate. ASSUME NEW late \in SUBSET Loaded, Enumerate(late) PROVE Kept
  <2>1. late \subseteq EntryPoints /\ Loaded \subseteq EntryPoints
    BY DEF Loaded
  <2>2. /\ calls' \cup timedOut' \cup listed' \subseteq EntryPoints
        /\ step \in {"list", "read", "stream", "inspect"}
        /\ \/ step' = "failed" /\ raised' = "ValueError"
           \/ step' \in {"formatting", "submitting", "routing", "inspecting"} /\ UNCHANGED raised
        /\ UNCHANGED <<loadVars, micVars, args, registry, reader, stream, expired, checked, torn, out,
                       stdout, code>>
    BY <1>enumerate, <2>1 DEF Enumerate, Raise
  <2> QED
    BY <2>2 DEF TypeOK, StepInv, Ending, Commands, NothingRaised, NoError, loadVars, micVars, cliVars
<1>adapter. ASSUME NEW i \in EntryPoints, Adapter(i) PROVE Kept
  <2>1. ASSUME DiscoverEnds(i) PROVE Kept
    BY <2>1 DEF DiscoverEnds, TypeOK, StepInv, loadVars, micVars, cliVars
  <2>2. ASSUME CheckAdapter(i) PROVE Kept
    BY <2>2 DEF CheckAdapter, TypeOK, StepInv, loadVars, micVars, cliVars
  <2>3. ASSUME TearDown(i) PROVE Kept
    BY <2>3 DEF TearDown, TypeOK, StepInv, loadVars, micVars, cliVars
  <2> QED
    BY <1>adapter, <2>1, <2>2, <2>3 DEF Adapter
<1>breaks. ASSUME NEW error \in {"other", "KeyboardInterrupt"}, StreamBreaks(error) PROVE Kept
  BY <1>breaks DEF StreamBreaks, Goto, TypeOK, StepInv, Ending, Commands, NothingRaised, NoError,
     session, loadVars, micVars, cliVars
<1>stutter. ASSUME UNCHANGED vars PROVE Kept
  BY <1>stutter DEF vars, cliVars, session, loadVars, micVars, TypeOK, StepInv
<1> HIDE DEF Kept
<1>1. CASE Kept
  BY <1>1, OutcomeStays DEF Kept
<1>2. OwnStep => Load \/ Kept
  BY <1>CheckTimeout, <1>MakeRegistry, <1>RefuseArguments, <1>enumerate, <1>FormatList, <1>FormatBreaks, <1>Inspect, <1>SubmitRead, <1>ReadEnds, <1>ReadTimesOut, <1>JoinReader, <1>RouteStream, <1>PrintBlock, <1>DeadlinePasses, <1>StreamEnds, <1>CloseStream, <1>ReleaseStream, <1>LeaveStream, <1>DoctorReports, <1>Fail, <1>Succeed, <1>WriteBreaks, <1>JoinPools, <1>Exit DEF OwnStep
<1>3. OpenSteps => Kept
  BY <1>OpenFails, <1>OpenGraph, <1>OpenStream DEF OpenSteps
<1> QED
  BY <1>loading, <1>setup, <1>ReadOver, <1>adapter, <1>Produce, <1>breaks, <1>stutter,
     <1>1, <1>2, <1>3 DEF Next

(* Every variable of a run of the tool has its type, whatever is asked of  *)
(* it (cli/main.py) and whatever its adapters are like: no exception but   *)
(* the named ones leaves a command, and no exit code but 0 to 7, 120 and   *)
(* 130, the last two of them Python's own.                                 *)
THEOREM CliTypes == Spec => []TypeOK
<1>1. Spec => []CliInv
  BY CliInitially, CliStep, PTL DEF Spec
<1>2. CliInv => TypeOK
  BY DEF CliInv
<1> QED
  BY <1>1, <1>2, PTL

-----------------------------------------------------------------------------
(* The device and the stream that holds it.  Only a stream that has ended  *)
(* by itself reaches "closed" with its source open, and its finalizer      *)
(* still runs there.                                                       *)
HoldInv ==
  /\ graph = "running" => stream # "none" /\ ~closed
  /\ closed => graph = "closed"
  /\ stream = "none" => ~closed
  /\ stream = "open" => step \in {"streaming", "closing", "stopping"}
  /\ stream = "ended" => step \in {"closing", "closed"}
  /\ stream = "released" => closed
  /\ step \in {"streaming", "stopping"} => stream = "open"
  /\ step = "closing" => stream \in {"open", "ended"}
  /\ step = "closed" => stream \in {"ended", "released"}

LEMMA HoldStep == CliInv /\ HoldInv /\ [Next]_vars => HoldInv'
<1> SUFFICES ASSUME CliInv, HoldInv, [Next]_vars PROVE HoldInv'
  OBVIOUS
<1> USE DEF HoldInv
<1>CheckTimeout. ASSUME CheckTimeout PROVE HoldInv'
  BY <1>CheckTimeout DEF CheckTimeout, Raise, micVars, cliVars, session, Commands
<1>Load. ASSUME Load PROVE HoldInv'
  BY <1>Load DEF Load, micVars, cliVars, session, Commands
<1>MakeRegistry. ASSUME MakeRegistry PROVE HoldInv'
  BY <1>MakeRegistry, CommandNamed DEF MakeRegistry, Raise, CliInv, micVars, cliVars, session, Commands
<1>RefuseArguments. ASSUME RefuseArguments PROVE HoldInv'
  BY <1>RefuseArguments DEF RefuseArguments, Raise, micVars, cliVars, session, Commands
<1>FormatList. ASSUME FormatList PROVE HoldInv'
  BY <1>FormatList DEF FormatList, Goto, micVars, cliVars, session, Commands
<1>FormatBreaks. ASSUME FormatBreaks PROVE HoldInv'
  BY <1>FormatBreaks DEF FormatBreaks, Raise, micVars, cliVars, session, Commands
<1>Inspect. ASSUME Inspect PROVE HoldInv'
  BY <1>Inspect DEF Inspect, Raise, micVars, cliVars, session, Commands
<1>SubmitRead. ASSUME SubmitRead PROVE HoldInv'
  BY <1>SubmitRead DEF SubmitRead, Goto, micVars, cliVars, session, Commands
<1>ReadEnds. ASSUME ReadEnds PROVE HoldInv'
  BY <1>ReadEnds DEF ReadEnds, Raise, micVars, cliVars, session, Commands
<1>ReadTimesOut. ASSUME ReadTimesOut PROVE HoldInv'
  BY <1>ReadTimesOut DEF ReadTimesOut, Goto, micVars, cliVars, session, Commands
<1>JoinReader. ASSUME JoinReader PROVE HoldInv'
  BY <1>JoinReader DEF JoinReader, Raise, micVars, cliVars, session, Commands
<1>RouteStream. ASSUME RouteStream PROVE HoldInv'
  BY <1>RouteStream DEF RouteStream, Raise, micVars, cliVars, session, Commands
<1>PrintBlock. ASSUME PrintBlock PROVE HoldInv'
  BY <1>PrintBlock DEF PrintBlock, TakeBlock, micVars, cliVars, session, Commands
<1>DeadlinePasses. ASSUME DeadlinePasses PROVE HoldInv'
  BY <1>DeadlinePasses DEF DeadlinePasses, micVars, cliVars, session, Commands
<1>StreamEnds. ASSUME StreamEnds PROVE HoldInv'
  BY <1>StreamEnds DEF StreamEnds, Goto, micVars, cliVars, session, Commands
<1>CloseStream. ASSUME CloseStream PROVE HoldInv'
  BY <1>CloseStream DEF CloseStream, StopProducer, CliInv, TypeOK, micVars, cliVars, session, Commands
<1>ReleaseStream. ASSUME ReleaseStream PROVE HoldInv'
  BY <1>ReleaseStream DEF ReleaseStream, CloseSource, Goto, CliInv, TypeOK, micVars, cliVars, session, Commands
<1>LeaveStream. ASSUME LeaveStream PROVE HoldInv'
  BY <1>LeaveStream DEF LeaveStream, CloseSource, CliInv, TypeOK, micVars, cliVars, session, Commands
<1>DoctorReports. ASSUME DoctorReports PROVE HoldInv'
  BY <1>DoctorReports DEF DoctorReports, micVars, cliVars, session, Commands
<1>Fail. ASSUME Fail PROVE HoldInv'
  BY <1>Fail DEF Fail, Goto, micVars, cliVars, session, Commands
<1>Succeed. ASSUME Succeed PROVE HoldInv'
  BY <1>Succeed DEF Succeed, Goto, micVars, cliVars, session, Commands
<1>WriteBreaks. ASSUME WriteBreaks PROVE HoldInv'
  BY <1>WriteBreaks DEF WriteBreaks, Goto, micVars, cliVars, session, Commands
<1>JoinPools. ASSUME JoinPools PROVE HoldInv'
  BY <1>JoinPools DEF JoinPools, Goto, micVars, cliVars, session, Commands
<1>Exit. ASSUME Exit PROVE HoldInv'
  BY <1>Exit DEF Exit, Goto, micVars, cliVars, session, Commands
<1>SetupOver. ASSUME SetupOver PROVE HoldInv'
  BY <1>SetupOver DEF SetupOver, SetupEnds, micVars, cliVars, session, Commands
<1>ReadOver. ASSUME ReadOver PROVE HoldInv'
  BY <1>ReadOver DEF ReadOver, micVars, cliVars, session, Commands
<1>OpenFails. ASSUME OpenFails PROVE HoldInv'
  BY <1>OpenFails DEF OpenFails, DeviceMissing, GraphRefused, NodeRefused, NodeBreaks, Raise, micVars, cliVars, session, Commands
<1>OpenGraph. ASSUME OpenGraph PROVE HoldInv'
  BY <1>OpenGraph DEF OpenGraph, GraphCreated, micVars, cliVars, session, Commands
<1>OpenStream. ASSUME OpenStream PROVE HoldInv'
  BY <1>OpenStream DEF OpenStream, StreamStarts, Goto, micVars, cliVars, session, Commands
<1>Produce. ASSUME Produce PROVE HoldInv'
  BY <1>Produce DEF Produce, ProducerStep, NextBlock, BlockReady, BlockRaises, micVars, cliVars, session, Commands
<1>enumerate. ASSUME NEW late \in SUBSET Loaded, Enumerate(late) PROVE HoldInv'
  BY <1>enumerate DEF Enumerate, Raise, micVars, cliVars, session, Commands
<1>adapter. ASSUME NEW i \in EntryPoints, Adapter(i) PROVE HoldInv'
  BY <1>adapter DEF Adapter, DiscoverEnds, CheckAdapter, TearDown, micVars, cliVars, session, Commands
<1>breaks. ASSUME NEW error \in {"other", "KeyboardInterrupt"}, StreamBreaks(error) PROVE HoldInv'
  BY <1>breaks DEF StreamBreaks, Goto, micVars, cliVars, session, Commands
<1>stutter. ASSUME UNCHANGED vars PROVE HoldInv'
  BY <1>stutter DEF vars, micVars, cliVars, session, Commands
<1>1. OwnStep => HoldInv'
  BY <1>CheckTimeout, <1>Load, <1>MakeRegistry, <1>RefuseArguments, <1>enumerate, <1>FormatList, <1>FormatBreaks, <1>Inspect, <1>SubmitRead, <1>ReadEnds, <1>ReadTimesOut, <1>JoinReader, <1>RouteStream, <1>PrintBlock, <1>DeadlinePasses, <1>StreamEnds, <1>CloseStream, <1>ReleaseStream, <1>LeaveStream, <1>DoctorReports, <1>Fail, <1>Succeed, <1>WriteBreaks, <1>JoinPools, <1>Exit DEF OwnStep
<1> QED
  BY <1>SetupOver, <1>ReadOver, <1>OpenFails, <1>OpenGraph, <1>OpenStream, <1>Produce,
     <1>adapter, <1>breaks, <1>stutter, <1>1 DEF Next, OpenSteps

(* However a stream comes to its end, by its deadline, an error, Ctrl-C or *)
(* by itself (main.py, _cmd_stream and streaming.py, close), the device is *)
(* let go before the exit hooks run.                                       *)
THEOREM DeviceIsLetGo == Spec => []DeviceLetGo
<1>1. Init => HoldInv
  BY DEF Init, LoadInit, MicInit, CliInit, HoldInv
<1>2. CliInv /\ HoldInv => DeviceLetGo
  BY DEF CliInv, TypeOK, HoldInv, DeviceLetGo
<1>3. Spec => [](CliInv /\ HoldInv)
  BY CliInitially, CliStep, <1>1, HoldStep, PTL DEF Spec
<1> QED
  BY <1>2, <1>3, PTL

-----------------------------------------------------------------------------
(* Only a command that succeeds comes to the writing of its buffer, which  *)
(* may fail; only a stream writes anything else.                           *)
OutputInv == stdout # "nothing" => code \in {0, 7} \/ stream # "none" \/ raised = "unwritten"

LEMMA OutputStep == CliInv /\ HoldInv /\ OutputInv /\ [Next]_vars => OutputInv'
<1> SUFFICES ASSUME CliInv, HoldInv, OutputInv, [Next]_vars PROVE OutputInv'
  OBVIOUS
<1> USE DEF OutputInv
<1>CheckTimeout. ASSUME CheckTimeout PROVE OutputInv'
  BY <1>CheckTimeout DEF CheckTimeout, Raise, CliInv, StepInv, micVars, cliVars, session
<1>Load. ASSUME Load PROVE OutputInv'
  BY <1>Load DEF Load, micVars, cliVars, session
<1>MakeRegistry. ASSUME MakeRegistry PROVE OutputInv'
  BY <1>MakeRegistry DEF MakeRegistry, Raise, CliInv, StepInv, micVars, cliVars, session
<1>RefuseArguments. ASSUME RefuseArguments PROVE OutputInv'
  BY <1>RefuseArguments DEF RefuseArguments, Raise, CliInv, StepInv, micVars, cliVars, session
<1>FormatList. ASSUME FormatList PROVE OutputInv'
  BY <1>FormatList DEF FormatList, Goto, micVars, cliVars, session
<1>FormatBreaks. ASSUME FormatBreaks PROVE OutputInv'
  BY <1>FormatBreaks DEF FormatBreaks, Raise, CliInv, StepInv, micVars, cliVars, session
<1>Inspect. ASSUME Inspect PROVE OutputInv'
  BY <1>Inspect DEF Inspect, Raise, CliInv, StepInv, micVars, cliVars, session
<1>SubmitRead. ASSUME SubmitRead PROVE OutputInv'
  BY <1>SubmitRead DEF SubmitRead, Goto, micVars, cliVars, session
<1>ReadEnds. ASSUME ReadEnds PROVE OutputInv'
  BY <1>ReadEnds DEF ReadEnds, Raise, CliInv, StepInv, micVars, cliVars, session
<1>ReadTimesOut. ASSUME ReadTimesOut PROVE OutputInv'
  BY <1>ReadTimesOut DEF ReadTimesOut, Goto, micVars, cliVars, session
<1>JoinReader. ASSUME JoinReader PROVE OutputInv'
  BY <1>JoinReader DEF JoinReader, Raise, CliInv, StepInv, micVars, cliVars, session
<1>RouteStream. ASSUME RouteStream PROVE OutputInv'
  BY <1>RouteStream DEF RouteStream, Raise, CliInv, StepInv, micVars, cliVars, session
<1>PrintBlock. ASSUME PrintBlock PROVE OutputInv'
  BY <1>PrintBlock DEF PrintBlock, TakeBlock, HoldInv, micVars, cliVars, session
<1>DeadlinePasses. ASSUME DeadlinePasses PROVE OutputInv'
  BY <1>DeadlinePasses DEF DeadlinePasses, micVars, cliVars, session
<1>StreamEnds. ASSUME StreamEnds PROVE OutputInv'
  BY <1>StreamEnds DEF StreamEnds, Goto, micVars, cliVars, session
<1>CloseStream. ASSUME CloseStream PROVE OutputInv'
  BY <1>CloseStream DEF CloseStream, StopProducer, micVars, cliVars, session
<1>ReleaseStream. ASSUME ReleaseStream PROVE OutputInv'
  BY <1>ReleaseStream DEF ReleaseStream, CloseSource, Goto, micVars, cliVars, session
<1>LeaveStream. ASSUME LeaveStream PROVE OutputInv'
  BY <1>LeaveStream DEF LeaveStream, CloseSource, micVars, cliVars, session
<1>DoctorReports. ASSUME DoctorReports PROVE OutputInv'
  BY <1>DoctorReports DEF DoctorReports, micVars, cliVars, session
<1>Fail. ASSUME Fail PROVE OutputInv'
  BY <1>Fail DEF Fail, Goto, CliInv, StepInv, Running, micVars, cliVars, session
<1>Succeed. ASSUME Succeed PROVE OutputInv'
  BY <1>Succeed DEF Succeed, Goto, Running, micVars, cliVars, session
<1>WriteBreaks. ASSUME WriteBreaks PROVE OutputInv'
  BY <1>WriteBreaks DEF WriteBreaks, Goto, Running, micVars, cliVars, session
<1>JoinPools. ASSUME JoinPools PROVE OutputInv'
  BY <1>JoinPools DEF JoinPools, Goto, micVars, cliVars, session
<1>Exit. ASSUME Exit PROVE OutputInv'
  BY <1>Exit DEF Exit, Goto, micVars, cliVars, session
<1>SetupOver. ASSUME SetupOver PROVE OutputInv'
  BY <1>SetupOver DEF SetupOver, SetupEnds, micVars, cliVars, session
<1>ReadOver. ASSUME ReadOver PROVE OutputInv'
  BY <1>ReadOver DEF ReadOver, micVars, cliVars, session
<1>OpenFails. ASSUME OpenFails PROVE OutputInv'
  BY <1>OpenFails DEF OpenFails, DeviceMissing, GraphRefused, NodeRefused, NodeBreaks, Raise, CliInv, StepInv, micVars, cliVars, session
<1>OpenGraph. ASSUME OpenGraph PROVE OutputInv'
  BY <1>OpenGraph DEF OpenGraph, GraphCreated, micVars, cliVars, session
<1>OpenStream. ASSUME OpenStream PROVE OutputInv'
  BY <1>OpenStream DEF OpenStream, StreamStarts, Goto, micVars, cliVars, session
<1>Produce. ASSUME Produce PROVE OutputInv'
  BY <1>Produce DEF Produce, ProducerStep, NextBlock, BlockReady, BlockRaises, micVars, cliVars, session
<1>enumerate. ASSUME NEW late \in SUBSET Loaded, Enumerate(late) PROVE OutputInv'
  BY <1>enumerate DEF Enumerate, Raise, CliInv, StepInv, micVars, cliVars, session
<1>adapter. ASSUME NEW i \in EntryPoints, Adapter(i) PROVE OutputInv'
  BY <1>adapter DEF Adapter, DiscoverEnds, CheckAdapter, TearDown, micVars, cliVars, session
<1>breaks. ASSUME NEW error \in {"other", "KeyboardInterrupt"}, StreamBreaks(error) PROVE OutputInv'
  BY <1>breaks DEF StreamBreaks, Goto, CliInv, StepInv, micVars, cliVars, session
<1>stutter. ASSUME UNCHANGED vars PROVE OutputInv'
  BY <1>stutter DEF vars, micVars, cliVars, session
<1>1. OwnStep => OutputInv'
  BY <1>CheckTimeout, <1>Load, <1>MakeRegistry, <1>RefuseArguments, <1>enumerate, <1>FormatList, <1>FormatBreaks, <1>Inspect, <1>SubmitRead, <1>ReadEnds, <1>ReadTimesOut, <1>JoinReader, <1>RouteStream, <1>PrintBlock, <1>DeadlinePasses, <1>StreamEnds, <1>CloseStream, <1>ReleaseStream, <1>LeaveStream, <1>DoctorReports, <1>Fail, <1>Succeed, <1>WriteBreaks, <1>JoinPools, <1>Exit DEF OwnStep
<1> QED
  BY <1>SetupOver, <1>ReadOver, <1>OpenFails, <1>OpenGraph, <1>OpenStream, <1>Produce,
     <1>adapter, <1>breaks, <1>stutter, <1>1 DEF Next, OpenSteps

(* main() flushes its buffer only behind a command that returned           *)
(* (main.py:668): whatever raises where, stdout stays empty.  Only an      *)
(* error in that very write can leave a part of the text there.            *)
THEOREM FailureIsSilent == Spec => []FailurePrintsNothing
<1>1. Init => HoldInv /\ OutputInv
  BY DEF Init, LoadInit, MicInit, CliInit, HoldInv, OutputInv
<1>2. OutputInv => FailurePrintsNothing
  BY DEF OutputInv, FailurePrintsNothing
<1>3. Spec => [](CliInv /\ HoldInv /\ OutputInv)
  BY CliInitially, CliStep, <1>1, HoldStep, OutputStep, PTL DEF Spec
<1> QED
  BY <1>2, <1>3, PTL

-----------------------------------------------------------------------------
(* doctor reports behind its last check, and the adapters stay as they     *)
(* were when it looked.                                                    *)
Verdicts == {"succeeded", "leaving", "exiting", "gone"}

DoctorInv ==
  /\ checked \subseteq Loaded
  /\ step \in {"parsed", "loading"} => checked = {}
  /\ args.command = "doctor" /\ raised = NoError /\ step \in Verdicts => Loaded \subseteq checked
  /\ args.command = "doctor" /\ raised = NoError /\ step \in Verdicts \ {"succeeded"} =>
       code = IF Failing # {} THEN 7 ELSE 0

LEMMA DoctorStep == CliInv /\ DoctorInv /\ [Next]_vars => DoctorInv'
<1> SUFFICES ASSUME CliInv, DoctorInv, [Next]_vars PROVE DoctorInv'
  OBVIOUS
<1> USE DEF DoctorInv
<1>CheckTimeout. ASSUME CheckTimeout PROVE DoctorInv'
  BY <1>CheckTimeout DEF CheckTimeout, Raise, CliInv, StepInv, Loaded, Failing, Ending, Verdicts, loadVars, micVars, cliVars, session
<1>Load. ASSUME Load PROVE DoctorInv'
  BY <1>Load DEF Load, CliInv, StepInv, Loaded, Failing, Ending, Verdicts, loadVars, micVars, cliVars, session
<1>MakeRegistry. ASSUME MakeRegistry PROVE DoctorInv'
  BY <1>MakeRegistry, CommandNamed DEF MakeRegistry, Raise, Commands, CliInv, StepInv, Loaded, Failing, Ending, Verdicts, loadVars, micVars, cliVars, session
<1>RefuseArguments. ASSUME RefuseArguments PROVE DoctorInv'
  BY <1>RefuseArguments DEF RefuseArguments, Raise, CliInv, StepInv, Loaded, Failing, Ending, Verdicts, loadVars, micVars, cliVars, session
<1>FormatList. ASSUME FormatList PROVE DoctorInv'
  BY <1>FormatList DEF FormatList, Goto, CliInv, StepInv, Loaded, Failing, Ending, Verdicts, loadVars, micVars, cliVars, session
<1>FormatBreaks. ASSUME FormatBreaks PROVE DoctorInv'
  BY <1>FormatBreaks DEF FormatBreaks, Raise, CliInv, StepInv, Loaded, Failing, Ending, Verdicts, loadVars, micVars, cliVars, session
<1>Inspect. ASSUME Inspect PROVE DoctorInv'
  BY <1>Inspect DEF Inspect, Raise, CliInv, StepInv, Loaded, Failing, Ending, Verdicts, loadVars, micVars, cliVars, session
<1>SubmitRead. ASSUME SubmitRead PROVE DoctorInv'
  BY <1>SubmitRead DEF SubmitRead, Goto, CliInv, StepInv, Loaded, Failing, Ending, Verdicts, loadVars, micVars, cliVars, session
<1>ReadEnds. ASSUME ReadEnds PROVE DoctorInv'
  BY <1>ReadEnds DEF ReadEnds, Raise, CliInv, StepInv, Loaded, Failing, Ending, Verdicts, loadVars, micVars, cliVars, session
<1>ReadTimesOut. ASSUME ReadTimesOut PROVE DoctorInv'
  BY <1>ReadTimesOut DEF ReadTimesOut, Goto, CliInv, StepInv, Loaded, Failing, Ending, Verdicts, loadVars, micVars, cliVars, session
<1>JoinReader. ASSUME JoinReader PROVE DoctorInv'
  BY <1>JoinReader DEF JoinReader, Raise, CliInv, StepInv, Loaded, Failing, Ending, Verdicts, loadVars, micVars, cliVars, session
<1>RouteStream. ASSUME RouteStream PROVE DoctorInv'
  BY <1>RouteStream DEF RouteStream, Raise, CliInv, StepInv, Loaded, Failing, Ending, Verdicts, loadVars, micVars, cliVars, session
<1>PrintBlock. ASSUME PrintBlock PROVE DoctorInv'
  BY <1>PrintBlock DEF PrintBlock, TakeBlock, CliInv, StepInv, Loaded, Failing, Ending, Verdicts, loadVars, micVars, cliVars, session
<1>DeadlinePasses. ASSUME DeadlinePasses PROVE DoctorInv'
  BY <1>DeadlinePasses DEF DeadlinePasses, CliInv, StepInv, Loaded, Failing, Ending, Verdicts, loadVars, micVars, cliVars, session
<1>StreamEnds. ASSUME StreamEnds PROVE DoctorInv'
  BY <1>StreamEnds DEF StreamEnds, Goto, CliInv, StepInv, Loaded, Failing, Ending, Verdicts, loadVars, micVars, cliVars, session
<1>CloseStream. ASSUME CloseStream PROVE DoctorInv'
  BY <1>CloseStream DEF CloseStream, StopProducer, CliInv, StepInv, Loaded, Failing, Ending, Verdicts, loadVars, micVars, cliVars, session
<1>ReleaseStream. ASSUME ReleaseStream PROVE DoctorInv'
  BY <1>ReleaseStream DEF ReleaseStream, CloseSource, Goto, CliInv, StepInv, Loaded, Failing, Ending, Verdicts, loadVars, micVars, cliVars, session
<1>LeaveStream. ASSUME LeaveStream PROVE DoctorInv'
  BY <1>LeaveStream DEF LeaveStream, CloseSource, CliInv, StepInv, Loaded, Failing, Ending, Verdicts, loadVars, micVars, cliVars, session
<1>DoctorReports. ASSUME DoctorReports PROVE DoctorInv'
  BY <1>DoctorReports DEF DoctorReports, CliInv, StepInv, Loaded, Failing, Ending, Verdicts, loadVars, micVars, cliVars, session
<1>Fail. ASSUME Fail PROVE DoctorInv'
  BY <1>Fail DEF Fail, Goto, CliInv, StepInv, Loaded, Failing, Ending, Verdicts, loadVars, micVars, cliVars, session
<1>Succeed. ASSUME Succeed PROVE DoctorInv'
  BY <1>Succeed DEF Succeed, Goto, CliInv, StepInv, Loaded, Failing, Ending, Verdicts, loadVars, micVars, cliVars, session
<1>WriteBreaks. ASSUME WriteBreaks PROVE DoctorInv'
  BY <1>WriteBreaks DEF WriteBreaks, Goto, NoError, CliInv, StepInv, Loaded, Failing, Ending, Verdicts, loadVars, micVars, cliVars, session
<1>JoinPools. ASSUME JoinPools PROVE DoctorInv'
  BY <1>JoinPools DEF JoinPools, Goto, CliInv, StepInv, Loaded, Failing, Ending, Verdicts, loadVars, micVars, cliVars, session
<1>Exit. ASSUME Exit PROVE DoctorInv'
  BY <1>Exit DEF Exit, Goto, CliInv, StepInv, Loaded, Failing, Ending, Verdicts, loadVars, micVars, cliVars, session
<1>SetupOver. ASSUME SetupOver PROVE DoctorInv'
  BY <1>SetupOver DEF SetupOver, SetupEnds, CliInv, StepInv, Loaded, Failing, Ending, Verdicts, loadVars, micVars, cliVars, session
<1>ReadOver. ASSUME ReadOver PROVE DoctorInv'
  BY <1>ReadOver DEF ReadOver, CliInv, StepInv, Loaded, Failing, Ending, Verdicts, loadVars, micVars, cliVars, session
<1>OpenFails. ASSUME OpenFails PROVE DoctorInv'
  BY <1>OpenFails DEF OpenFails, DeviceMissing, GraphRefused, NodeRefused, NodeBreaks, Raise, CliInv, StepInv, Loaded, Failing, Ending, Verdicts, loadVars, micVars, cliVars, session
<1>OpenGraph. ASSUME OpenGraph PROVE DoctorInv'
  BY <1>OpenGraph DEF OpenGraph, GraphCreated, CliInv, StepInv, Loaded, Failing, Ending, Verdicts, loadVars, micVars, cliVars, session
<1>OpenStream. ASSUME OpenStream PROVE DoctorInv'
  BY <1>OpenStream DEF OpenStream, StreamStarts, Goto, CliInv, StepInv, Loaded, Failing, Ending, Verdicts, loadVars, micVars, cliVars, session
<1>Produce. ASSUME Produce PROVE DoctorInv'
  BY <1>Produce DEF Produce, ProducerStep, NextBlock, BlockReady, BlockRaises, CliInv, StepInv, Loaded, Failing, Ending, Verdicts, loadVars, micVars, cliVars, session
<1>enumerate. ASSUME NEW late \in SUBSET Loaded, Enumerate(late) PROVE DoctorInv'
  BY <1>enumerate DEF Enumerate, Raise, CliInv, StepInv, Loaded, Failing, Ending, Verdicts, loadVars, micVars, cliVars, session
<1>adapter. ASSUME NEW i \in EntryPoints, Adapter(i) PROVE DoctorInv'
  BY <1>adapter DEF Adapter, DiscoverEnds, CheckAdapter, TearDown, CliInv, StepInv, Loaded, Failing, Ending, Verdicts, loadVars, micVars, cliVars, session
<1>breaks. ASSUME NEW error \in {"other", "KeyboardInterrupt"}, StreamBreaks(error) PROVE DoctorInv'
  BY <1>breaks DEF StreamBreaks, Goto, CliInv, StepInv, Loaded, Failing, Ending, Verdicts, loadVars, micVars, cliVars, session
<1>stutter. ASSUME UNCHANGED vars PROVE DoctorInv'
  BY <1>stutter DEF vars, CliInv, StepInv, Loaded, Failing, Ending, Verdicts, loadVars, micVars, cliVars, session
<1>1. OwnStep => DoctorInv'
  BY <1>CheckTimeout, <1>Load, <1>MakeRegistry, <1>RefuseArguments, <1>enumerate, <1>FormatList, <1>FormatBreaks, <1>Inspect, <1>SubmitRead, <1>ReadEnds, <1>ReadTimesOut, <1>JoinReader, <1>RouteStream, <1>PrintBlock, <1>DeadlinePasses, <1>StreamEnds, <1>CloseStream, <1>ReleaseStream, <1>LeaveStream, <1>DoctorReports, <1>Fail, <1>Succeed, <1>WriteBreaks, <1>JoinPools, <1>Exit DEF OwnStep
<1> QED
  BY <1>SetupOver, <1>ReadOver, <1>OpenFails, <1>OpenGraph, <1>OpenStream, <1>Produce,
     <1>adapter, <1>breaks, <1>stutter, <1>1 DEF Next, OpenSteps

(* doctor (main.py, _cmd_doctor) exits with 7 exactly if a loaded adapter  *)
(* breaks the contract of conformance.py, and with 0 only if every sensor  *)
(* can be reached in one of the two ways that routing.py offers.           *)
THEOREM DoctorIsRight == Spec => []DoctorVerdict
<1>1. Init => DoctorInv
  BY DEF Init, LoadInit, MicInit, CliInit, DoctorInv, Verdicts
<1>2. CliInv /\ DoctorInv => DoctorVerdict
  <2> SUFFICES ASSUME CliInv, DoctorInv, step = "gone", args.command = "doctor", raised = NoError
               PROVE  /\ code = 7 <=> \E i \in Loaded : ~Conforms(adapter[i])
                      /\ code = 0 => \A i \in Loaded :
                           \/ ReadRefusal(adapter[i]) = NoError
                           \/ StreamRefusal(adapter[i]) = NoError
    BY DEF DoctorVerdict
  <2>1. checked = Loaded /\ code = IF Failing # {} THEN 7 ELSE 0
    BY DEF DoctorInv, Verdicts
  <2>2. code = 7 <=> \E i \in Loaded : ~Conforms(adapter[i])
    BY <2>1 DEF Failing
  <2>3. ASSUME code = 0, NEW i \in Loaded
        PROVE  ReadRefusal(adapter[i]) = NoError \/ StreamRefusal(adapter[i]) = NoError
    <3>1. SensorsReachable(adapter[i])
      BY <2>2, <2>3 DEF Conforms
    <3> QED
      BY <3>1 DEF SensorsReachable, ReadRefusal, StreamRefusal
  <2> QED
    BY <2>2, <2>3
<1>3. Spec => [](CliInv /\ DoctorInv)
  BY CliInitially, CliStep, <1>1, DoctorStep, PTL DEF Spec
<1> QED
  BY <1>2, <1>3, PTL

-----------------------------------------------------------------------------
(* A good adapter was loaded, so the enumeration asks it.                  *)
ListedInv ==
  /\ raised = "ValueError" => \E i \in EntryPoints : adapter[i].longText
  /\ step \in {"formatting", "submitting", "routing", "inspecting"} =>
       \A i \in EntryPoints :
         SetUp(i) /\ outcome[i] # "load_timeout" /\ adapter[i].valid /\ Discovers(adapter[i])
         => i \in listed \cup timedOut

LEMMA ListedStep == CliInv /\ ListedInv /\ [Next]_vars => ListedInv'
<1> SUFFICES ASSUME CliInv, ListedInv, [Next]_vars PROVE ListedInv'
  OBVIOUS
<1> USE DEF ListedInv
<1>CheckTimeout. ASSUME CheckTimeout PROVE ListedInv'
  BY <1>CheckTimeout DEF CheckTimeout, Raise, SetUp, loadVars, micVars, cliVars, session
<1>Load. ASSUME Load PROVE ListedInv'
  BY <1>Load DEF Load, LoadStep, Refuse, StartSetup, Overrun, Record, cliVars
<1>MakeRegistry. ASSUME MakeRegistry PROVE ListedInv'
  <2>1. step' \in Commands \cup {"failed"} /\ UNCHANGED adapter
    BY <1>MakeRegistry, CommandNamed DEF MakeRegistry, Raise, CliInv, loadVars
  <2>2. raised' = "ValueError" => \E i \in EntryPoints : adapter[i].longText
    BY <1>MakeRegistry DEF MakeRegistry, Raise, RecordRefused
  <2> QED
    BY <2>1, <2>2 DEF Commands
<1>RefuseArguments. ASSUME RefuseArguments PROVE ListedInv'
  BY <1>RefuseArguments, CommandErrors DEF RefuseArguments, Raise, CliInv, NoError, loadVars
<1>FormatList. ASSUME FormatList PROVE ListedInv'
  BY <1>FormatList DEF FormatList, Goto, SetUp, loadVars, micVars, cliVars, session
<1>FormatBreaks. ASSUME FormatBreaks PROVE ListedInv'
  BY <1>FormatBreaks DEF FormatBreaks, Raise, SetUp, loadVars, micVars, cliVars, session
<1>Inspect. ASSUME Inspect PROVE ListedInv'
  BY <1>Inspect DEF Inspect, Raise, SetUp, loadVars, micVars, cliVars, session
<1>SubmitRead. ASSUME SubmitRead PROVE ListedInv'
  BY <1>SubmitRead DEF SubmitRead, Goto, SetUp, loadVars, micVars, cliVars, session
<1>ReadEnds. ASSUME ReadEnds PROVE ListedInv'
  <2>1. raised' # "ValueError" \/ raised' = raised
    BY <1>ReadEnds, CommandErrors DEF ReadEnds, Raise, CliInv, NoError
  <2>2. step' \in {"failed", "succeeded"} /\ UNCHANGED adapter
    BY <1>ReadEnds DEF ReadEnds, Raise, loadVars
  <2> QED
    BY <2>1, <2>2
<1>ReadTimesOut. ASSUME ReadTimesOut PROVE ListedInv'
  BY <1>ReadTimesOut DEF ReadTimesOut, Goto, SetUp, loadVars, micVars, cliVars, session
<1>JoinReader. ASSUME JoinReader PROVE ListedInv'
  BY <1>JoinReader DEF JoinReader, Raise, SetUp, loadVars, micVars, cliVars, session
<1>RouteStream. ASSUME RouteStream PROVE ListedInv'
  <2>1. raised' # "ValueError" \/ raised' = raised
    BY <1>RouteStream, CommandErrors DEF RouteStream, Raise, CliInv, NoError, StreamRefusal
  <2>2. step' \in {"failed", "opening"} /\ UNCHANGED adapter
    BY <1>RouteStream DEF RouteStream, Raise, loadVars
  <2> QED
    BY <2>1, <2>2
<1>PrintBlock. ASSUME PrintBlock PROVE ListedInv'
  BY <1>PrintBlock DEF PrintBlock, TakeBlock, SetUp, loadVars, micVars, cliVars, session
<1>DeadlinePasses. ASSUME DeadlinePasses PROVE ListedInv'
  BY <1>DeadlinePasses DEF DeadlinePasses, SetUp, loadVars, micVars, cliVars, session
<1>StreamEnds. ASSUME StreamEnds PROVE ListedInv'
  BY <1>StreamEnds DEF StreamEnds, Goto, SetUp, loadVars, micVars, cliVars, session
<1>CloseStream. ASSUME CloseStream PROVE ListedInv'
  BY <1>CloseStream DEF CloseStream, StopProducer, SetUp, loadVars, micVars, cliVars, session
<1>ReleaseStream. ASSUME ReleaseStream PROVE ListedInv'
  BY <1>ReleaseStream DEF ReleaseStream, CloseSource, Goto, SetUp, loadVars, micVars, cliVars, session
<1>LeaveStream. ASSUME LeaveStream PROVE ListedInv'
  BY <1>LeaveStream DEF LeaveStream, CloseSource, SetUp, loadVars, micVars, cliVars, session
<1>DoctorReports. ASSUME DoctorReports PROVE ListedInv'
  BY <1>DoctorReports DEF DoctorReports, SetUp, loadVars, micVars, cliVars, session
<1>Fail. ASSUME Fail PROVE ListedInv'
  BY <1>Fail DEF Fail, Goto, SetUp, loadVars, micVars, cliVars, session
<1>Succeed. ASSUME Succeed PROVE ListedInv'
  BY <1>Succeed DEF Succeed, Goto, SetUp, loadVars, micVars, cliVars, session
<1>WriteBreaks. ASSUME WriteBreaks PROVE ListedInv'
  BY <1>WriteBreaks DEF WriteBreaks, Goto, SetUp, loadVars, micVars, cliVars, session
<1>JoinPools. ASSUME JoinPools PROVE ListedInv'
  BY <1>JoinPools DEF JoinPools, Goto, SetUp, loadVars, micVars, cliVars, session
<1>Exit. ASSUME Exit PROVE ListedInv'
  BY <1>Exit DEF Exit, Goto, SetUp, loadVars, micVars, cliVars, session
<1>SetupOver. ASSUME SetupOver PROVE ListedInv'
  BY <1>SetupOver DEF SetupOver, SetupEnds, SetUp, loadVars, micVars, cliVars, session
<1>ReadOver. ASSUME ReadOver PROVE ListedInv'
  BY <1>ReadOver DEF ReadOver, SetUp, loadVars, micVars, cliVars, session
<1>OpenFails. ASSUME OpenFails PROVE ListedInv'
  BY <1>OpenFails DEF OpenFails, DeviceMissing, GraphRefused, NodeRefused, NodeBreaks, Raise, SetUp, loadVars, micVars, cliVars, session
<1>OpenGraph. ASSUME OpenGraph PROVE ListedInv'
  BY <1>OpenGraph DEF OpenGraph, GraphCreated, SetUp, loadVars, micVars, cliVars, session
<1>OpenStream. ASSUME OpenStream PROVE ListedInv'
  BY <1>OpenStream DEF OpenStream, StreamStarts, Goto, SetUp, loadVars, micVars, cliVars, session
<1>Produce. ASSUME Produce PROVE ListedInv'
  BY <1>Produce DEF Produce, ProducerStep, NextBlock, BlockReady, BlockRaises, SetUp, loadVars, micVars, cliVars, session
<1>enumerate. ASSUME NEW late \in SUBSET Loaded, Enumerate(late) PROVE ListedInv'
  <2>1. UNCHANGED <<adapter, outcome, args>>
    BY <1>enumerate DEF Enumerate, loadVars
  <2>2. raised' = "ValueError" => \E i \in EntryPoints : adapter[i].longText
    BY <1>enumerate DEF Enumerate, Raise, Loaded
  <2>3. ASSUME step' # "failed", NEW i \in EntryPoints, SetUp(i), outcome[i] # "load_timeout",
               adapter[i].valid, Discovers(adapter[i])
        PROVE  i \in listed' \cup timedOut'
    <3>1. i < next
      BY <1>enumerate, AdaptersAssumption
         DEF Enumerate, CliInv, LoadInv, TypeOK, Commands, Loading, EntryPoints
    <3>2. i \in Loaded
      BY <2>3, <3>1 DEF CliInv, LoadInv, Loaded
    <3>3. adapter[i].discovers # "raises"
      BY <2>3 DEF Discovers
    <3> QED
      BY <1>enumerate, <2>3, <3>2, <3>3 DEF Enumerate
  <2> QED
    BY <2>1, <2>2, <2>3 DEF SetUp
<1>adapter. ASSUME NEW i \in EntryPoints, Adapter(i) PROVE ListedInv'
  BY <1>adapter DEF Adapter, DiscoverEnds, CheckAdapter, TearDown, SetUp, loadVars, micVars, cliVars, session
<1>breaks. ASSUME NEW error \in {"other", "KeyboardInterrupt"}, StreamBreaks(error) PROVE ListedInv'
  BY <1>breaks DEF StreamBreaks, Goto, SetUp, loadVars, micVars, cliVars, session
<1>stutter. ASSUME UNCHANGED vars PROVE ListedInv'
  BY <1>stutter DEF vars, SetUp, loadVars, micVars, cliVars, session
<1>1. OwnStep => ListedInv'
  BY <1>CheckTimeout, <1>Load, <1>MakeRegistry, <1>RefuseArguments, <1>enumerate, <1>FormatList, <1>FormatBreaks, <1>Inspect, <1>SubmitRead, <1>ReadEnds, <1>ReadTimesOut, <1>JoinReader, <1>RouteStream, <1>PrintBlock, <1>DeadlinePasses, <1>StreamEnds, <1>CloseStream, <1>ReleaseStream, <1>LeaveStream, <1>DoctorReports, <1>Fail, <1>Succeed, <1>WriteBreaks, <1>JoinPools, <1>Exit DEF OwnStep
<1> QED
  BY <1>SetupOver, <1>ReadOver, <1>OpenFails, <1>OpenGraph, <1>OpenStream, <1>Produce,
     <1>adapter, <1>breaks, <1>stutter, <1>1 DEF Next, OpenSteps

(* One adapter that cannot be imported, hangs, raises or reports nonsense  *)
(* keeps no other out: loading.py goes on behind each of them, and         *)
(* discovery.py takes what came in time.                                   *)
THEOREM BadOnesContained == Spec => []BadAdaptersContained
<1>1. Init => ListedInv
  BY DEF Init, LoadInit, MicInit, CliInit, ListedInv, NoError
<1>2. ListedInv => BadAdaptersContained
  BY DEF ListedInv, BadAdaptersContained, SetUp
<1>3. Spec => [](CliInv /\ ListedInv)
  BY CliInitially, CliStep, <1>1, ListedStep, PTL DEF Spec
<1> QED
  BY <1>2, <1>3, PTL
=============================================================================
