------------------------------- MODULE Helper -------------------------------
(***************************************************************************)
(* The hardware monitor adapter (adapters/windows/hwmon_bridge.py), its    *)
(* HelperClient (helper/client.py) and the helper process they start       *)
(* (helper_src/Program.cs, HardwareMonitor.cs).                            *)
(*                                                                         *)
(* setup() starts and authenticates the helper.  After it threads of the   *)
(* application and of the discovery pool call discover() and read(), each  *)
(* of which sends one request and takes one answer; no lock keeps them     *)
(* apart.  teardown() shuts the helper down.  The helper may answer late   *)
(* or never, and may die at any time.                                      *)
(*                                                                         *)
(* A step is what one thread does between two points where another can     *)
(* come in: a body under the lock, a call into Windows, one find or slice  *)
(* of the framer's buffer.                                                 *)
(***************************************************************************)
EXTENDS HelperPipe, Integers, FiniteSets

CONSTANTS
  Enumerators, (* threads of the discovery pool, which call discover() *)
  Readers,     (* threads of the application, which call read() *)
  Records,     (* the sensors the machine may have, by the helper's id *)
  Reports,     (* what List() may find of them, which varies: sequences *)
  Minted,      (* Sensor_Id each is given, Unmapped for an unknown kind *)
  ReadIds,     (* Sensor_Ids the registry asks for: <<name>>, or <<name, k>>
                  where a collision got the suffix k *)
  MaxRequests  (* bound: requests written to the pipe *)

Callers == Enumerators \cup Readers
Unmapped == <<>>
NoRecord == "no record"
MintedIds == {Minted[r] : r \in Records} \ {Unmapped}

ASSUME CallersAssumption  == Callers \cap {"setup", "closer"} = {}
ASSUME RecordsAssumption  == Reports \subseteq Seq(Records) /\ NoRecord \notin Records
ASSUME ReadIdsAssumption  == \A id \in ReadIds : <<id[1]>> \in MintedIds
ASSUME RequestsAssumption == MaxRequests \in Nat

VARIABLES
  state,       (* HelperClient._state *)
  child,       (* the helper process, as far as it has come *)
  writing,     (* helper: pieces of the current answer not yet written *)
  leaving,     (* helper: it exits when the answer is written *)
  pc,          (* where each thread is; "setup" and "closer" are the threads
                  that load and tear down the adapter *)
  job,         (* what each caller asked for *)
  sent,        (* requests written; the last one's number *)
  mine,        (* number of each caller's request *)
  at,          (* LineFramer.feed: position of the newline it found *)
  lines,       (* LineFramer.feed: the first line it found, if any *)
  left,        (* discover(): records still to be entered *)
  map,         (* _helper_id_by_sensor_id *)
  inStep,      (* history: no request overlapped another or timed out *)
  outOfTurn,   (* history: a request made in step did not get its answer *)
  mixedUp,     (* history: an ok reading had the value of another sensor *)
  reported,    (* history: the sensors in the helper's latest list *)
  taken,       (* history: reported when a discover() last emptied the map *)
  crossed      (* history: another was still filling the map then *)

client  == <<state, pc, job, sent, mine, at, lines>>
process == <<child, writing, leaving>>
adapter == <<left, map>>
history == <<inStep, outOfTurn, mixedUp, reported, taken, crossed>>
vars == <<pipeVars, client, process, adapter, history>>

Actors == Callers \cup {"setup", "closer"}
Unasked == MaxRequests + 1   (* the number of the shutdown request *)
NoJob == [cmd |-> "none", id |-> <<>>]

Init ==
  /\ PipeInit(Callers \cup {"setup"})
  /\ state = "not_running"
  /\ child = "none"
  /\ writing = <<>>
  /\ leaving = FALSE
  /\ pc = [a \in Actors |-> IF a = "setup" THEN "file" ELSE "idle"]
  /\ job = [t \in Callers |-> NoJob]
  /\ sent = 0
  /\ mine = [t \in Callers |-> 0]
  /\ at = [a \in Callers \cup {"setup"} |-> 0]
  /\ lines = [a \in Callers \cup {"setup"} |-> <<>>]
  /\ left = [t \in Callers |-> <<>>]
  /\ map = [id \in MintedIds |-> NoRecord]
  /\ inStep = TRUE
  /\ outOfTurn = FALSE
  /\ mixedUp = FALSE
  /\ reported = {}
  /\ taken = {}
  /\ crossed = FALSE

Goto(a, label) == pc' = [pc EXCEPT ![a] = label]
Step(a, from, to) == pc[a] = from /\ Goto(a, to)
locals == <<job, sent, mine, at, lines>>

(* The helper's end of the pipe is there. *)
Connected == child \in {"connected", "serving"}

(* The process is gone and its end of the pipe with it: pending reads fail *)
(* and requests it has not read are lost.                                  *)
ChildGone ==
  /\ child' = "exited"
  /\ writing' = <<>>
  /\ leaving' = FALSE
  /\ toHelper' = <<>>
  /\ pending' = <<>>

-----------------------------------------------------------------------------
(* HelperClient.setup, in the thread that loads the adapter.               *)

SetupFails(a) == Goto(a, "over") /\ state' = "failed_to_start"

(* No executable, or no pipe: nothing to take back. *)
NothingStarted ==
  /\ pc["setup"] \in {"file", "pipe"}
  /\ SetupFails("setup")
  /\ UNCHANGED <<pipeVars, process, adapter, locals, history>>

FindExecutable ==
  /\ Step("setup", "file", "pipe")
  /\ UNCHANGED <<pipeVars, state, process, adapter, locals, history>>

CreatePipe ==
  /\ Step("setup", "pipe", "spawn")
  /\ pipe' = "open"
  /\ UNCHANGED <<toHelper, toClient, pending, chunk, buffer>>
  /\ UNCHANGED <<state, process, adapter, locals, history>>

SpawnFails ==
  /\ pc["setup"] = "spawn"
  /\ SetupFails("setup")
  /\ pipe' = "none"
  /\ UNCHANGED <<toHelper, toClient, pending, chunk, buffer>>
  /\ UNCHANGED <<process, adapter, locals, history>>

Spawn ==
  /\ Step("setup", "spawn", "token")
  /\ child' = "starting"
  /\ UNCHANGED <<pipeVars, state, writing, leaving, adapter, locals, history>>

DeliverToken ==
  /\ Step("setup", "token", "connect")
  /\ UNCHANGED <<pipeVars, state, process, adapter, locals, history>>

(* ConnectNamedPipe.  A helper that connected before the call leaves the   *)
(* event unset (ERROR_PIPE_CONNECTED), and the wait for it only times out. *)
AwaitConnection ==
  /\ pc["setup"] = "connect"
  /\ Goto("setup", IF Connected THEN "connect_missed" ELSE "connect_wait")
  /\ UNCHANGED <<pipeVars, state, process, adapter, locals, history>>

(* The event is set, and the peer is the child that was started. *)
PeerVerified ==
  /\ Connected
  /\ Step("setup", "connect_wait", "scan")
  /\ UNCHANGED <<pipeVars, state, process, adapter, locals, history>>

(* _perform_handshake compares the first line; further lines are dropped. *)
HandshakeDone ==
  /\ pc["setup"] = "got"
  /\ lines["setup"] = << <<Hello>> >>
  /\ Goto("setup", "over")
  /\ state' = "running"
  /\ UNCHANGED <<pipeVars, process, adapter, locals, history>>

(* Mutant: a failed handshake leaves the child alone. *)
StartTakenBackPipeOnly ==
  /\ pc["setup"] \in {"token", "connect_wait", "connect_missed", "got", "failed"}
  /\ SetupFails("setup")
  /\ pipe' = "none"
  /\ toHelper' = <<>> /\ toClient' = <<>> /\ pending' = <<>>
  /\ UNCHANGED <<chunk, buffer, process, adapter, locals, history>>

(* The token cannot be written, nobody connects in time, the peer is       *)
(* another process, its first line is late or not HELLO and the token, or  *)
(* anything else raises: the child is terminated and the pipe closed.      *)
StartTakenBack ==
  /\ pc["setup"] \in {"token", "connect_wait", "connect_missed", "got", "failed"}
  /\ SetupFails("setup")
  /\ ChildGone
  /\ pipe' = "none"
  /\ toClient' = <<>>
  /\ UNCHANGED <<chunk, buffer, adapter, locals, history>>

Setup ==
  \/ NothingStarted \/ FindExecutable \/ CreatePipe \/ SpawnFails \/ Spawn
  \/ DeliverToken \/ AwaitConnection \/ PeerVerified
  \/ HandshakeDone \/ StartTakenBack

-----------------------------------------------------------------------------
(* The read loop of _read_first_line and of _send_request: feed(b""), then *)
(* ReadFile and feed(chunk) until there is a line.                         *)

(* Mutant: the framer hands over what it has, newline or not. *)
FeedUnframed(a, data) ==
  LET b == buffer \o data
      end == IF b = <<>> THEN 0 ELSE 1
  IN  /\ buffer' = b
      /\ lines' = [lines EXCEPT ![a] = <<>>]
      /\ at' = [at EXCEPT ![a] = end]
      /\ Goto(a, IF end > 0 THEN "take" ELSE IF data = <<>> THEN "read" ELSE "scan")

(* LineFramer.feed up to its first find; the buffer is shared. *)
Feed(a, data) ==
  LET b == buffer \o data
      end == FirstEnd(b)
  IN  /\ buffer' = b
      /\ lines' = [lines EXCEPT ![a] = <<>>]
      /\ at' = [at EXCEPT ![a] = end]
      /\ Goto(a, IF end > 0 THEN "take" ELSE IF data = <<>> THEN "read" ELSE "scan")

FeedRest(a) ==
  /\ pc[a] = "scan"
  /\ Feed(a, <<>>)
  /\ UNCHANGED <<pipe, toHelper, toClient, pending, chunk>>
  /\ UNCHANGED <<state, job, sent, mine, process, adapter, history>>

FeedChunk(a) ==
  /\ pc[a] = "wait"
  /\ chunk[a] # <<>>
  /\ Feed(a, chunk[a])
  /\ chunk' = [chunk EXCEPT ![a] = <<>>]
  /\ UNCHANGED <<pipe, toHelper, toClient, pending>>
  /\ UNCHANGED <<state, job, sent, mine, process, adapter, history>>

(* The line up to the position found is cut off and the rest searched.     *)
(* Only the first line is used, the others are lost.                       *)
TakeLine(a) ==
  LET rest == After(buffer, at[a])
  IN  /\ pc[a] = "take"
      /\ lines' = [lines EXCEPT ![a] = IF @ = <<>> THEN <<UpTo(buffer, at[a])>> ELSE @]
      /\ buffer' = rest
      /\ at' = [at EXCEPT ![a] = FirstEnd(rest)]
      /\ Goto(a, IF FirstEnd(rest) > 0 THEN "take" ELSE "got")
      /\ UNCHANGED <<pipe, toHelper, toClient, pending, chunk>>
      /\ UNCHANGED <<state, job, sent, mine, process, adapter, history>>

(* ReadFile on a handle that is closed or whose other end is gone fails.   *)
ReadFile(a) ==
  /\ pc[a] = "read"
  /\ IF pipe = "open" /\ (Connected \/ toClient # <<>>)
       THEN Goto(a, "wait") /\ IssueRead(a)
       ELSE Goto(a, "failed") /\ UNCHANGED <<toClient, pending, chunk>>
  /\ UNCHANGED <<pipe, toHelper, buffer, state, process, adapter, locals, history>>

(* The read failed: the helper is gone or the handle was closed. *)
ReadBroken(a) ==
  /\ pc[a] = "wait"
  /\ chunk[a] = <<>>
  /\ ~Reading(a)
  /\ Goto(a, "failed")
  /\ UNCHANGED <<pipeVars, state, process, adapter, locals, history>>

(* Mutant: the wait for the read has no bound. *)
ReadTimesOutNever(a) == a = "setup" /\ FALSE /\ UNCHANGED vars

ReadTimesOut(a) ==
  /\ pc[a] = "wait"
  /\ chunk[a] = <<>>
  /\ Reading(a)
  /\ AbandonRead(a)
  /\ Goto(a, "failed")
  /\ inStep' = FALSE
  /\ UNCHANGED <<pipe, toHelper, toClient, chunk, buffer, state, process, adapter>>
  /\ UNCHANGED <<locals, outOfTurn, mixedUp, reported, taken, crossed>>

Receive(a) ==
  \/ FeedRest(a) \/ FeedChunk(a) \/ TakeLine(a)
  \/ ReadFile(a) \/ ReadBroken(a) \/ ReadTimesOut(a)

-----------------------------------------------------------------------------
(* discover() and read() in a caller.                                      *)

Ready(t) == pc[t] = "idle" /\ pc["setup"] = "over"

(* _client.state is not running: () or an unavailable reading. *)
HelperDown(t) == Ready(t) /\ state # "running" /\ UNCHANGED vars

Ask(t, j) ==
  /\ job' = [job EXCEPT ![t] = j]
  /\ Goto(t, "check")
  /\ UNCHANGED <<pipeVars, state, sent, mine, at, lines, process, adapter, history>>

Discover(t) ==
  /\ Ready(t)
  /\ state = "running"
  /\ Ask(t, [cmd |-> "list", id |-> <<>>])

(* The id itself, or the id without the suffix that a collision added. *)
HelperIdOf(id) ==
  IF id \in MintedIds /\ map[id] # NoRecord THEN map[id] ELSE map[<<id[1]>>]

Read(t, id) ==
  /\ Ready(t)
  /\ state = "running"
  /\ HelperIdOf(id) # NoRecord
  /\ Ask(t, [cmd |-> "read", id |-> id, record |-> HelperIdOf(id)])

(* KeyError *)
ReadUnknown(t, id) ==
  /\ Ready(t)
  /\ state = "running"
  /\ HelperIdOf(id) = NoRecord
  /\ UNCHANGED vars

(* _send_request looks at the state again, and then writes. *)
CheckState(t) ==
  /\ pc[t] = "check"
  /\ Goto(t, IF state = "running" THEN "write" ELSE "failed")
  /\ UNCHANGED <<pipeVars, state, process, adapter, locals, history>>

UnderWay(t) == pc[t] \in {"scan", "read", "wait", "take", "got"}

WriteFile(t) ==
  /\ pc[t] = "write"
  /\ pipe = "open" /\ Connected
  /\ sent < MaxRequests
  /\ sent' = sent + 1
  /\ mine' = [mine EXCEPT ![t] = sent']
  /\ toHelper' = Append(toHelper, [n |-> sent', job |-> job[t]])
  /\ inStep' = (inStep /\ state = "running" /\ \A u \in Callers : ~UnderWay(u))
  /\ Goto(t, "scan")
  /\ UNCHANGED <<pipe, toClient, pending, chunk, buffer>>
  /\ UNCHANGED <<state, job, at, lines, process, adapter>>
  /\ UNCHANGED <<outOfTurn, mixedUp, reported, taken, crossed>>

(* The handle is closed or the helper gone; or the bound is reached. *)
WriteFails(t) ==
  /\ pc[t] = "write"
  /\ ~(pipe = "open" /\ Connected /\ sent < MaxRequests)
  /\ Goto(t, "failed")
  /\ UNCHANGED <<pipeVars, state, process, adapter, locals, history>>

(* The call is over, and its locals are gone. *)
Leave(t, label) ==
  /\ Goto(t, label)
  /\ job' = [job EXCEPT ![t] = NoJob]
  /\ mine' = [mine EXCEPT ![t] = 0]
  /\ at' = [at EXCEPT ![t] = 0]
  /\ lines' = [lines EXCEPT ![t] = <<>>]
  /\ UNCHANGED sent

(* Whether the call got what it asked for, or the request was not to be    *)
(* answered any more.                                                      *)
Deserved(t, own) ==
  outOfTurn' = (outOfTurn \/ (inStep /\ ~own))

(* An exception: discover() returns (), read() an unavailable reading. *)
CallFails(t) ==
  /\ pc[t] = "failed"
  /\ Deserved(t, mine[t] = 0 \/ child = "exited" \/ pipe = "none")
  /\ Leave(t, "idle")
  /\ UNCHANGED <<pipeVars, state, process, adapter, inStep, mixedUp, reported, taken, crossed>>

LineOf(t) == lines[t][1]

(* HelperProtocolError: the same. *)
Undecodable(t) ==
  /\ pc[t] = "got"
  /\ ~Decodes(LineOf(t))
  /\ Deserved(t, FALSE)
  /\ Leave(t, "idle")
  /\ UNCHANGED <<pipeVars, state, process, adapter, inStep, mixedUp, reported, taken, crossed>>

Sensors(t) == LineOf(t)[1].sensors

Decoded(t, cmd) == pc[t] = "got" /\ job[t].cmd = cmd /\ Decodes(LineOf(t))

(* read() takes the value of the first record, whatever record that is.    *)
ReadReturns(t) ==
  /\ Decoded(t, "read")
  /\ Deserved(t, LineOf(t)[1].n = mine[t])
  /\ mixedUp' = \/ mixedUp
                 \/ /\ Sensors(t) # <<>>
                    /\ Minted[Sensors(t)[1]] # <<job[t].id[1]>>
  /\ Leave(t, "idle")
  /\ UNCHANGED <<pipeVars, state, process, adapter, inStep, reported, taken, crossed>>

(* Mutant: the map is emptied before the answer is looked at. *)
DiscoverRefusedResets(t) ==
  /\ Decoded(t, "list")
  /\ ~LineOf(t)[1].listed
  /\ Deserved(t, LineOf(t)[1].n = mine[t])
  /\ map' = [id \in MintedIds |-> NoRecord]
  /\ Leave(t, "idle")
  /\ UNCHANGED <<pipeVars, state, process, left, inStep, mixedUp, reported, taken, crossed>>

(* An error, or no list in the answer: the map is left as it is. *)
DiscoverRefused(t) ==
  /\ Decoded(t, "list")
  /\ ~LineOf(t)[1].listed
  /\ Deserved(t, LineOf(t)[1].n = mine[t])
  /\ Leave(t, "idle")
  /\ UNCHANGED <<pipeVars, state, process, adapter, inStep, mixedUp, reported, taken, crossed>>

(* For any other answer, an empty list too, the map is emptied first. *)
DiscoverResets(t) ==
  /\ Decoded(t, "list")
  /\ LineOf(t)[1].listed
  /\ Deserved(t, LineOf(t)[1].n = mine[t])
  /\ map' = [id \in MintedIds |-> NoRecord]
  /\ left' = [left EXCEPT ![t] = Sensors(t)]
  /\ Leave(t, IF Sensors(t) = <<>> THEN "idle" ELSE "fill")
  /\ taken' = reported
  /\ crossed' = (\E u \in Callers \ {t} : pc[u] = "fill")
  /\ UNCHANGED <<pipeVars, state, process, inStep, mixedUp, reported>>

(* Then one record after the other is entered; an unknown kind is skipped. *)
DiscoverFills(t) ==
  LET r == Head(left[t])
  IN  /\ pc[t] = "fill"
      /\ map' = IF Minted[r] = Unmapped THEN map ELSE [map EXCEPT ![Minted[r]] = r]
      /\ left' = [left EXCEPT ![t] = Tail(@)]
      /\ Goto(t, IF left'[t] = <<>> THEN "idle" ELSE "fill")
      /\ UNCHANGED <<pipeVars, state, process, locals, history>>

(* A caller's thread ends, and another takes its place. *)
ThreadEnds(t) ==
  /\ pc[t] = "idle"
  /\ \E i \in DOMAIN pending : pending[i].by = t
  /\ CancelReads(t)
  /\ UNCHANGED <<pipe, toHelper, toClient, chunk, buffer>>
  /\ UNCHANGED <<client, process, adapter, history>>

Call(t) ==
  \/ CheckState(t) \/ WriteFile(t) \/ WriteFails(t)
  \/ CallFails(t) \/ Undecodable(t)
  \/ ReadReturns(t) \/ DiscoverRefused(t) \/ DiscoverResets(t) \/ DiscoverFills(t)

-----------------------------------------------------------------------------
(* HelperClient.shutdown, by the adapter's teardown.                       *)

ShutdownBegins ==
  /\ pc["setup"] = "over"
  /\ pc["closer"] = "idle"
  /\ Goto("closer", IF state = "running" THEN "send" ELSE "join")
  /\ state' = "not_running"
  /\ UNCHANGED <<pipeVars, process, adapter, locals, history>>

ShutdownWrites ==
  /\ Step("closer", "send", "join")
  /\ toHelper' = IF Connected
                   THEN Append(toHelper, [n |-> Unasked, job |-> [cmd |-> "shutdown", id |-> <<>>]])
                   ELSE toHelper
  /\ UNCHANGED <<pipe, toClient, pending, chunk, buffer>>
  /\ UNCHANGED <<state, process, adapter, locals, history>>

(* wait() returned because the helper exited, or its five seconds are over *)
(* and the helper is killed.                                               *)
ShutdownJoins ==
  /\ Step("closer", "join", "close")
  /\ IF child = "none" THEN UNCHANGED <<process, toHelper, pending>> ELSE ChildGone
  /\ UNCHANGED <<pipe, toClient, chunk, buffer, state, adapter, locals, history>>

ShutdownCloses ==
  /\ Step("closer", "close", "done")
  /\ pipe' = "none"
  /\ toClient' = <<>>
  /\ pending' = <<>>
  /\ UNCHANGED <<toHelper, chunk, buffer, state, process, adapter, locals, history>>

Shutdown == ShutdownBegins \/ ShutdownWrites \/ ShutdownJoins \/ ShutdownCloses

-----------------------------------------------------------------------------
(* The helper process (Program.cs).                                        *)

HelperOnly == UNCHANGED <<client, adapter, history>>

HelperConnects ==
  /\ child = "starting"
  /\ pipe = "open"
  /\ pc["setup"] \notin {"spawn", "token"}
  /\ child' = "connected"
  /\ UNCHANGED <<pipeVars, writing, leaving>>
  /\ HelperOnly

(* After HELLO the monitor is opened, which may take any time. *)
HelperSaysHello ==
  /\ child = "connected"
  /\ child' = "serving"
  /\ PutPiece(Hello)
  /\ UNCHANGED <<pipe, toHelper, buffer, writing, leaving>>
  /\ HelperOnly

(* What the helper may answer.  The records of a list are long and take    *)
(* two pieces, every other answer is short.  List() finds what there is of *)
(* the hardware at that moment, and Read() omits an id that is not there.  *)
(* An error carries no list, and neither does the answer to shutdown.      *)
NoList(n) == <<Piece(n, 1, 1, FALSE, <<>>)>>
List(n, found) ==
  IF found = <<>> THEN <<Piece(n, 1, 1, TRUE, <<>>)>>
                  ELSE <<Piece(n, 1, 2, TRUE, found), Piece(n, 2, 2, TRUE, found)>>
Answers(req) ==
  {NoList(req.n)} \cup
  CASE req.job.cmd = "list" -> {List(req.n, found) : found \in Reports}
    [] req.job.cmd = "read" -> {<<Piece(req.n, 1, 1, TRUE, found)>> :
                                  found \in {<<>>, <<req.job.record>>}}
    [] OTHER                -> {}

(* The sensors that an answer reports. *)
Found(answer) == {answer[1].sensors[i] : i \in DOMAIN answer[1].sensors}

(* RunLoop takes one request and writes one answer to it: Success, or      *)
(* Failure when List() or Read() threw.                                    *)
HelperServes ==
  LET req == Head(toHelper)
  IN  /\ child = "serving"
      /\ writing = <<>> /\ ~leaving
      /\ toHelper # <<>>
      /\ \E answer \in Answers(req) :
           /\ PutPiece(Head(answer))
           /\ writing' = Tail(answer)
           /\ reported' = IF req.job.cmd = "list" /\ answer[1].listed
                            THEN Found(answer) ELSE reported
      /\ leaving' = (req.job.cmd = "shutdown")
      /\ toHelper' = Tail(toHelper)
      /\ UNCHANGED <<child, pipe, buffer, client, adapter>>
      /\ UNCHANGED <<inStep, outOfTurn, mixedUp, taken, crossed>>

(* The rest of an answer that takes several writes. *)
HelperWrites ==
  /\ writing # <<>>
  /\ PutPiece(Head(writing))
  /\ writing' = Tail(writing)
  /\ UNCHANGED <<child, leaving, pipe, toHelper, buffer>>
  /\ HelperOnly

(* It returns from RunLoop after shutdown or at the end of the pipe, or    *)
(* from Main for any other reason, or it crashes.                          *)
HelperExits ==
  /\ child \notin {"none", "exited"}
  /\ ChildGone
  /\ UNCHANGED <<pipe, toClient, chunk, buffer>>
  /\ HelperOnly

HelperProcess ==
  \/ HelperConnects \/ HelperSaysHello
  \/ HelperServes \/ HelperWrites
  \/ HelperExits

-----------------------------------------------------------------------------
Next ==
  \/ Setup
  \/ \E a \in Callers \cup {"setup"} : Receive(a)
  \/ \E t \in Callers :
       HelperDown(t) \/ Call(t) \/ ThreadEnds(t)
  \/ \E t \in Enumerators : Discover(t)
  \/ \E t \in Readers, id \in ReadIds : Read(t, id) \/ ReadUnknown(t, id)
  \/ Shutdown
  \/ HelperProcess

(* Threads that can run do run, and every wait of the client is bounded.   *)
(* Nothing is asked of the helper, which may hang.                         *)
Fairness ==
  /\ WF_vars(Setup \/ Receive("setup"))
  /\ \A t \in Callers : WF_vars(Receive(t) \/ Call(t))

Spec == Init /\ [][Next]_vars
FairSpec == Spec /\ Fairness

-----------------------------------------------------------------------------
PieceSet ==
  [n : 0..Unasked, part : 1..2, all : 1..2, listed : BOOLEAN, sensors : Seq(Records)]
JobSet ==
  [cmd : {"list"}, id : {<<>>}] \cup [cmd : {"read"}, id : ReadIds, record : Records]
RequestSet ==
  [n : 1..MaxRequests, job : JobSet]
  \cup [n : {Unasked}, job : [cmd : {"shutdown"}, id : {<<>>}]]

TypeOK ==
  /\ pipe \in {"none", "open"}
  /\ toHelper \in Seq(RequestSet)
  /\ toClient \in Seq(PieceSet)
  /\ chunk \in [Callers \cup {"setup"} -> Seq(PieceSet)]
  /\ buffer \in Seq(PieceSet)
  /\ state \in {"not_running", "running", "failed_to_start"}
  /\ child \in {"none", "starting", "connected", "serving", "exited"}
  /\ writing \in Seq(PieceSet)
  /\ leaving \in BOOLEAN
  /\ pc \in [Actors ->
       {"file", "pipe", "spawn", "token", "connect", "connect_wait", "connect_missed", "over",
        "idle", "check", "write", "scan", "read", "wait", "take", "got", "failed", "fill",
        "send", "join", "close", "done"}]
  /\ job \in [Callers -> JobSet \cup {NoJob}]
  /\ sent \in 0..MaxRequests
  /\ mine \in [Callers -> 0..MaxRequests]
  /\ at \in [Callers \cup {"setup"} -> Nat]
  /\ lines \in [Callers \cup {"setup"} -> Seq(Seq(PieceSet))]
  /\ left \in [Callers -> Seq(Records)]
  /\ map \in [MintedIds -> Records \cup {NoRecord}]
  /\ inStep \in BOOLEAN /\ outOfTurn \in BOOLEAN
  /\ mixedUp \in BOOLEAN /\ crossed \in BOOLEAN
  /\ reported \subseteq Records /\ taken \subseteq Records

(* As long as a request is made only when the one before it is over, and   *)
(* none has timed out, each request takes its own answer, although answers *)
(* come in pieces, the framer keeps what is left of a chunk, and discover, *)
(* reads and shutdown come from different threads.  A request fails only   *)
(* when the helper or the pipe is gone.                                    *)
OwnAnswer == ~outOfTurn

(* Whatever fails on the way, a setup() that did not succeed and a         *)
(* shutdown() that returned leave neither a helper process nor a pipe.     *)
NoOrphan ==
  pc["closer"] = "done" \/ state = "failed_to_start" =>
    child \in {"none", "exited"} /\ pipe = "none" /\ pending = <<>>

(* In the same circumstances, and while no discover() is between emptying  *)
(* and refilling the map, a read() fails with KeyError for exactly the     *)
(* sensors that were missing from the latest list that a discover() got:   *)
(* whatever later calls fail, time out or find the helper gone, and        *)
(* although the list may shrink to nothing and two threads may fill the    *)
(* map at once.  Only these may leave a sensor in it that has gone.        *)
MapAsListed ==
  inStep /\ (\A t \in Callers : pc[t] # "fill") =>
    /\ \A r \in taken : Minted[r] # Unmapped =>
         map[Minted[r]] # NoRecord /\ Minted[map[Minted[r]]] = Minted[r]
    /\ crossed \/ \A id \in MintedIds :
         map[id] # NoRecord => map[id] \in taken /\ Minted[map[id]] = id

(* Nobody waits for ever for a helper that hangs or has died: setup(),     *)
(* discover() and read() end.                                              *)
WaitersFreed ==
  \A a \in Callers \cup {"setup"} : pc[a] = "wait" ~> pc[a] \in {"idle", "over"}

-----------------------------------------------------------------------------
(* REFERENCE.md, Reading: "id ... The sensor id this reading came from".   *)
(* Checked to be violated: with two threads, or after a timeout, a reading *)
(* carries the value of another sensor than the one its id names.          *)
ReadingFromItsSensor == ~mixedUp
=============================================================================
