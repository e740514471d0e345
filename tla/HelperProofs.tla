---------------------------- MODULE HelperProofs ----------------------------
(***************************************************************************)
(* Proofs about Helper, for any threads, records, ids and number of        *)
(* requests:                                                               *)
(*   HelperTypes         the type invariant,                               *)
(*   NothingLeftBehind   what fails in setup() or is shut down leaves no   *)
(*                       process and no pipe,                              *)
(*   EachItsAnswer       requests made one after the other take their own  *)
(*                       answers,                                          *)
(*   MapFollowsList      the map that read() looks in holds the latest     *)
(*                       list, and nothing but it.                         *)
(***************************************************************************)
EXTENDS Helper, SequenceTheorems, WellFoundedInduction, TLAPS

Receivers == Callers \cup {"setup"}
Receiving == {"scan", "read", "wait", "take", "got"}
SetupOnly == {"file", "pipe", "spawn", "token", "connect", "connect_wait", "connect_missed", "over"}

(* Which thread can be where: callers wait for the end of setup(), and so  *)
(* does shutdown().                                                        *)
SetupPlace ==
  /\ pc["setup"] \in SetupOnly \cup Receiving \cup {"failed"}
  /\ pc["setup"] # "over" => state = "not_running"
CloserPlace ==
  /\ pc["closer"] \in {"idle", "send", "join", "close", "done"}
  /\ pc["setup"] # "over" => pc["closer"] = "idle"
  /\ pc["closer"] # "idle" => state # "running"
CallerPlace(t) ==
  /\ pc[t] \in {"idle", "check", "write", "failed", "fill"} \cup Receiving
  /\ pc["setup"] # "over" => pc[t] = "idle"
  /\ pc[t] \in {"check", "write"} \cup Receiving => job[t] # NoJob
  /\ pc[t] = "fill" => left[t] # <<>>
GotLine(a) == pc[a] = "got" => lines[a] # <<>>
PlaceInv ==
  /\ SetupPlace /\ CloserPlace
  /\ \A t \in Callers : CallerPlace(t)
  /\ \A a \in Receivers : GotLine(a)

HelperInv == TypeOK /\ PlaceInv

-----------------------------------------------------------------------------
(* A line that has an end has a first one. *)
LEMMA FirstEndIs ==
  ASSUME NEW b \in Seq(PieceSet)
  PROVE  /\ FirstEnd(b) \in 0..Len(b)
         /\ FirstEnd(b) = 0 => \A i \in 1..Len(b) : ~EndsLine(b[i])
         /\ FirstEnd(b) > 0 => EndsLine(b[FirstEnd(b)])
         /\ \A j \in 1..(FirstEnd(b) - 1) : ~EndsLine(b[j])
<1>1. CASE \E i \in DOMAIN b : EndsLine(b[i])
  <2> DEFINE T == {i \in DOMAIN b : EndsLine(b[i])}
             R == OpToRel(<, Nat)
  <2>1. T \subseteq Nat /\ T # {} /\ DOMAIN b = 1..Len(b) /\ Len(b) \in Nat
    BY <1>1
  <2>r. IsWellFoundedOn(R, Nat)
    BY NatLessThanWellFounded
  <2> HIDE DEF R, T
  <2>2. PICK i \in T : \A j \in T : <<j, i>> \notin R
    BY <2>1, <2>r, WFMin
  <2>l. \A j \in Nat : j < i => <<j, i>> \in R
    BY <2>1, <2>2 DEF R, OpToRel
  <2>i. i \in 1..Len(b) /\ EndsLine(b[i])
    BY <2>1 DEF T
  <2>j. ASSUME NEW j \in 1..(i - 1) PROVE ~EndsLine(b[j])
    <3>1. j \in 1..Len(b) /\ j \in Nat /\ j < i
      BY <2>1, <2>i
    <3>2. j \notin T
      BY <2>2, <2>l, <3>1
    <3> QED
      BY <2>1, <3>1, <3>2 DEF T
  <2>3. i \in DOMAIN b /\ EndsLine(b[i]) /\ \A j \in 1..(i - 1) : ~EndsLine(b[j])
    BY <2>1, <2>i, <2>j
  <2>4. \E k \in DOMAIN b : EndsLine(b[k]) /\ \A j \in 1..(k - 1) : ~EndsLine(b[j])
    BY <2>3
  <2> DEFINE e == CHOOSE k \in DOMAIN b : EndsLine(b[k]) /\ \A j \in 1..(k - 1) : ~EndsLine(b[j])
  <2>5. e \in DOMAIN b /\ EndsLine(b[e]) /\ \A j \in 1..(e - 1) : ~EndsLine(b[j])
    BY <2>4
  <2>6. FirstEnd(b) = e
    BY <1>1 DEF FirstEnd
  <2> HIDE DEF e
  <2> QED
    BY <2>5, <2>6
<1>2. CASE ~\E i \in DOMAIN b : EndsLine(b[i])
  BY <1>2 DEF FirstEnd
<1> QED
  BY <1>1, <1>2

LEMMA CutIs ==
  ASSUME NEW b \in Seq(PieceSet), NEW i \in Nat
  PROVE  /\ UpTo(b, i) \in Seq(PieceSet)
         /\ After(b, i) \in Seq(PieceSet)
BY DEF UpTo, After

(* Every answer is one or two pieces, numbered and in order, and whatever  *)
(* is asked for, the helper may answer without a list.                     *)
LEMMA AnswerIs ==
  ASSUME NEW req \in RequestSet
  PROVE  /\ NoList(req.n) \in Answers(req)
         /\ NoList(req.n)[1].listed = FALSE
         /\ \A answer \in Answers(req) :
              /\ answer \in Seq(PieceSet)
              /\ Len(answer) \in 1..2
              /\ \A i \in 1..Len(answer) :
                   /\ answer[i].n = req.n
                   /\ answer[i].part = i
                   /\ answer[i].all = Len(answer)
<1>1. req.n \in 0..Unasked /\ <<>> \in Seq(Records) /\ Reports \subseteq Seq(Records)
  BY RecordsAssumption, RequestsAssumption DEF Unasked, RequestSet
<1> DEFINE Well(answer) ==
      /\ answer \in Seq(PieceSet)
      /\ Len(answer) \in 1..2
      /\ \A i \in 1..Len(answer) :
           answer[i].n = req.n /\ answer[i].part = i /\ answer[i].all = Len(answer)
<1>2. ASSUME NEW listed \in BOOLEAN, NEW found \in Seq(Records)
      PROVE  Well(<<Piece(req.n, 1, 1, listed, found)>>)
  <2> DEFINE p == Piece(req.n, 1, 1, listed, found)
  <2>1. p \in PieceSet /\ p.n = req.n /\ p.part = 1 /\ p.all = 1
    BY <1>1, <1>2 DEF Piece, PieceSet
  <2> HIDE DEF p
  <2>2. Well(<<p>>)
    BY <2>1
  <2> QED
    BY <2>2 DEF p
<1>3. ASSUME NEW found \in Seq(Records)
      PROVE  Well(<<Piece(req.n, 1, 2, TRUE, found), Piece(req.n, 2, 2, TRUE, found)>>)
  <2> DEFINE p == Piece(req.n, 1, 2, TRUE, found)
  <2> DEFINE q == Piece(req.n, 2, 2, TRUE, found)
  <2>1. /\ p \in PieceSet /\ p.n = req.n /\ p.part = 1 /\ p.all = 2
        /\ q \in PieceSet /\ q.n = req.n /\ q.part = 2 /\ q.all = 2
    BY <1>1, <1>3 DEF Piece, PieceSet
  <2> HIDE DEF p, q
  <2>2. Well(<<p, q>>)
    BY <2>1
  <2> QED
    BY <2>2 DEF p, q
<1> HIDE DEF Well
<1>4. Well(NoList(req.n)) /\ NoList(req.n)[1].listed = FALSE
  BY <1>1, <1>2 DEF NoList, Piece
<1>5. ASSUME NEW found \in Reports PROVE Well(List(req.n, found))
  BY <1>1, <1>2, <1>3 DEF List
<1>6. CASE req.job.cmd = "list"
  <2>1. Answers(req) = {NoList(req.n)} \cup {List(req.n, found) : found \in Reports}
    BY <1>6 DEF Answers
  <2> QED
    BY <1>4, <1>5, <2>1 DEF Well
<1>7. CASE req.job.cmd = "read"
  <2>1. <<req.job.record>> \in Seq(Records)
    BY <1>7 DEF JobSet, RequestSet
  <2>2. Answers(req) = {NoList(req.n)} \cup {<<Piece(req.n, 1, 1, TRUE, found)>> :
                                            found \in {<<>>, <<req.job.record>>}}
    BY <1>7 DEF Answers
  <2>3. ASSUME NEW found \in {<<>>, <<req.job.record>>}
        PROVE  Well(<<Piece(req.n, 1, 1, TRUE, found)>>)
    BY <1>1, <1>2, <2>1, <2>3
  <2>4. NoList(req.n) \in Answers(req)
    BY <2>2
  <2>5. ASSUME NEW answer \in Answers(req) PROVE Well(answer)
    <3>1. CASE answer = NoList(req.n)
      BY <1>4, <3>1
    <3>2. CASE \E found \in {<<>>, <<req.job.record>>} : answer = <<Piece(req.n, 1, 1, TRUE, found)>>
      BY <2>3, <3>2
    <3> QED
      BY <2>2, <2>5, <3>1, <3>2
  <2> QED
    BY <1>4, <2>4, <2>5 DEF Well
<1>8. CASE req.job.cmd = "shutdown"
  <2>1. Answers(req) = {NoList(req.n)}
    BY <1>8 DEF Answers
  <2> QED
    BY <1>4, <2>1 DEF Well
<1> QED
  BY <1>6, <1>7, <1>8 DEF JobSet, RequestSet

LEMMA NoneType == <<>> \in Seq(PieceSet) /\ <<>> \in Seq(RequestSet)
OBVIOUS

LEMMA HelloIs == Hello \in PieceSet
BY RequestsAssumption DEF Hello, Piece, PieceSet, Unasked

-----------------------------------------------------------------------------
LEMMA HelperInitially == Init => HelperInv
<1> SUFFICES ASSUME Init PROVE HelperInv
  OBVIOUS
<1>1. 0 \in 0..MaxRequests
  BY RequestsAssumption
<1>2. TypeOK
  <2>1. /\ chunk \in [Receivers -> Seq(PieceSet)]
        /\ lines \in [Receivers -> Seq(Seq(PieceSet))]
        /\ at \in [Receivers -> Nat]
        /\ left \in [Callers -> Seq(Records)]
        /\ mine \in [Callers -> 0..MaxRequests] /\ sent \in 0..MaxRequests
        /\ job \in [Callers -> JobSet \cup {NoJob}]
        /\ map \in [MintedIds -> Records \cup {NoRecord}]
    BY <1>1 DEF Init, PipeInit, Receivers
  <2>2. /\ toHelper \in Seq(RequestSet)
        /\ toClient \in Seq(PieceSet) /\ buffer \in Seq(PieceSet) /\ writing \in Seq(PieceSet)
    BY DEF Init, PipeInit
  <2> QED
    BY <2>1, <2>2 DEF Init, PipeInit, TypeOK, Receivers
<1>3. PlaceInv
  BY CallersAssumption DEF Init, PipeInit, PlaceInv, Actors, Receivers, SetupOnly, Receiving, SetupPlace, CloserPlace, CallerPlace, GotLine
<1> QED
  BY <1>2, <1>3 DEF HelperInv

-----------------------------------------------------------------------------
(* What the shared parts of the actions do to the types. *)

Labels ==
  {"file", "pipe", "spawn", "token", "connect", "connect_wait", "connect_missed", "over",
   "idle", "check", "write", "scan", "read", "wait", "take", "got", "failed", "fill",
   "send", "join", "close", "done"}

LEMMA GotoTypes ==
  ASSUME TypeOK, NEW a, NEW label \in Labels, Goto(a, label)
  PROVE  pc' \in [Actors -> Labels]
BY DEF TypeOK, Goto, Labels

LEMMA PutTypes ==
  ASSUME TypeOK, NEW p \in PieceSet, PutPiece(p)
  PROVE  toClient' \in Seq(PieceSet) /\ chunk' \in [Receivers -> Seq(PieceSet)]
<1>1. <<p>> \in Seq(PieceSet) /\ toClient \in Seq(PieceSet) /\ chunk \in [Receivers -> Seq(PieceSet)]
  BY DEF TypeOK, Receivers
<1>2. CASE pending = <<>>
  <2>1. toClient' = Append(toClient, p) /\ chunk' = chunk
    BY <1>2 DEF PutPiece
  <2> QED
    BY <1>1, <2>1
<1>3. CASE pending # <<>>
  <2> PICK b, one : b = Head(pending).by /\ one = <<p>>
    OBVIOUS
  <2>1. chunk' = [chunk EXCEPT ![b] = one] \/ chunk' = chunk
    BY <1>3 DEF PutPiece
  <2>2. toClient' = toClient
    BY <1>3 DEF PutPiece
  <2> QED
    BY <1>1, <2>1, <2>2
<1> QED
  BY <1>2, <1>3

LEMMA FeedTypes ==
  ASSUME TypeOK, NEW a \in Receivers, NEW data \in Seq(PieceSet), Feed(a, data)
  PROVE  /\ buffer' \in Seq(PieceSet)
         /\ lines' \in [Receivers -> Seq(Seq(PieceSet))]
         /\ at' \in [Receivers -> Nat]
         /\ pc' \in [Actors -> Labels]
         /\ \E label \in {"take", "read", "scan"} : pc' = [pc EXCEPT ![a] = label]
<1> PICK b, end : b = buffer \o data /\ end = FirstEnd(b)
  OBVIOUS
<1>1. b \in Seq(PieceSet)
  BY DEF TypeOK
<1>2. end \in Nat
  <2>1. FirstEnd(b) \in 0..Len(b)
    BY <1>1, FirstEndIs
  <2>2. Len(b) \in Nat
    BY <1>1
  <2> QED
    BY <2>1, <2>2
<1>3. /\ buffer' = b /\ lines' = [lines EXCEPT ![a] = <<>>] /\ at' = [at EXCEPT ![a] = end]
      /\ \E label \in {"take", "read", "scan"} : pc' = [pc EXCEPT ![a] = label]
  BY DEF Feed, Goto
<1>4. pc \in [Actors -> Labels] /\ pc' \in [Actors -> Labels]
  BY <1>3 DEF TypeOK, Labels
<1>5. <<>> \in Seq(Seq(PieceSet)) /\ lines \in [Receivers -> Seq(Seq(PieceSet))] /\ at \in [Receivers -> Nat]
  BY DEF TypeOK, Receivers
<1>6. lines' \in [Receivers -> Seq(Seq(PieceSet))] /\ at' \in [Receivers -> Nat]
  BY <1>2, <1>3, <1>5
<1> QED
  BY <1>1, <1>3, <1>4, <1>6

LEMMA LeaveTypes ==
  ASSUME TypeOK, NEW t \in Callers, NEW label \in Labels, Leave(t, label)
  PROVE  /\ pc' \in [Actors -> Labels]
         /\ job' \in [Callers -> JobSet \cup {NoJob}]
         /\ mine' \in [Callers -> 0..MaxRequests]
         /\ at' \in [Receivers -> Nat]
         /\ lines' \in [Receivers -> Seq(Seq(PieceSet))]
<1>1. 0 \in 0..MaxRequests
  BY RequestsAssumption
<1> QED
  BY <1>1, GotoTypes DEF Leave, TypeOK, Receivers

LEMMA SensorsType ==
  ASSUME TypeOK, NEW t \in Callers, lines[t] # <<>>, Decodes(LineOf(t))
  PROVE  Sensors(t) \in Seq(Records)
<1>1. LineOf(t) \in Seq(PieceSet) /\ LineOf(t) # <<>>
  BY DEF TypeOK, LineOf, Decodes
<1>2. LineOf(t)[1] \in PieceSet
  BY <1>1
<1> QED
  BY <1>2 DEF Sensors, PieceSet

LEMMA HelperTypeStep == HelperInv /\ [Next]_vars => TypeOK'
<1> SUFFICES ASSUME HelperInv, [Next]_vars PROVE TypeOK'
  OBVIOUS
<1> USE DEF HelperInv
<1>g. \A a, label : label \in Labels /\ Goto(a, label) => pc' \in [Actors -> Labels]
  BY GotoTypes
<1>NothingStarted. ASSUME NothingStarted PROVE TypeOK'
  BY <1>NothingStarted, <1>g DEF NothingStarted, SetupFails, TypeOK, Labels, vars, pipeVars, client, process, adapter, history, locals
<1>FindExecutable. ASSUME FindExecutable PROVE TypeOK'
  BY <1>FindExecutable, <1>g DEF FindExecutable, Step, TypeOK, Labels, vars, pipeVars, client, process, adapter, history, locals
<1>CreatePipe. ASSUME CreatePipe PROVE TypeOK'
  BY <1>CreatePipe, <1>g DEF CreatePipe, Step, TypeOK, Labels, vars, pipeVars, client, process, adapter, history, locals
<1>SpawnFails. ASSUME SpawnFails PROVE TypeOK'
  BY <1>SpawnFails, <1>g DEF SpawnFails, SetupFails, TypeOK, Labels, vars, pipeVars, client, process, adapter, history, locals
<1>Spawn. ASSUME Spawn PROVE TypeOK'
  BY <1>Spawn, <1>g DEF Spawn, Step, TypeOK, Labels, vars, pipeVars, client, process, adapter, history, locals
<1>DeliverToken. ASSUME DeliverToken PROVE TypeOK'
  BY <1>DeliverToken, <1>g DEF DeliverToken, Step, TypeOK, Labels, vars, pipeVars, client, process, adapter, history, locals
<1>AwaitConnection. ASSUME AwaitConnection PROVE TypeOK'
  BY <1>AwaitConnection, <1>g DEF AwaitConnection, Connected, TypeOK, Labels, vars, pipeVars, client, process, adapter, history, locals
<1>PeerVerified. ASSUME PeerVerified PROVE TypeOK'
  BY <1>PeerVerified, <1>g DEF PeerVerified, Step, TypeOK, Labels, vars, pipeVars, client, process, adapter, history, locals
<1>HandshakeDone. ASSUME HandshakeDone PROVE TypeOK'
  <2>1. pc' \in [Actors -> Labels] /\ state' = "running"
    BY <1>HandshakeDone, <1>g DEF HandshakeDone, Labels
  <2> QED
    BY <1>HandshakeDone, <2>1 DEF HandshakeDone, TypeOK, Labels, pipeVars, process, adapter, history, locals
<1>StartTakenBack. ASSUME StartTakenBack PROVE TypeOK'
  <2>1. pc' \in [Actors -> Labels]
    BY <1>StartTakenBack, <1>g DEF StartTakenBack, SetupFails, Labels
  <2>2. writing' \in Seq(PieceSet) /\ toClient' \in Seq(PieceSet) /\ leaving' \in BOOLEAN
        /\ toHelper' \in Seq(RequestSet)
    BY <1>StartTakenBack, NoneType DEF StartTakenBack, ChildGone
  <2> QED
    BY <1>StartTakenBack, <2>1, <2>2 DEF StartTakenBack, SetupFails, ChildGone, TypeOK, Labels, adapter, history, locals
<1>step. ASSUME buffer' \in Seq(PieceSet), lines' \in [Receivers -> Seq(Seq(PieceSet))],
                at' \in [Receivers -> Nat], pc' \in [Actors -> Labels], chunk' \in [Receivers -> Seq(PieceSet)],
                UNCHANGED <<pipe, toHelper, toClient, state, child, writing, leaving, job, sent,
                            mine, left, map, inStep, outOfTurn, mixedUp, reported, taken, crossed>>
         PROVE  TypeOK'
  BY <1>step DEF TypeOK, Receivers, Labels
<1>receive. ASSUME NEW a \in Receivers, Receive(a) PROVE TypeOK'
  <2>1. ASSUME FeedRest(a) PROVE TypeOK'
    <3>1. <<>> \in Seq(PieceSet) /\ Feed(a, <<>>)
      BY <2>1 DEF FeedRest
    <3>2. /\ buffer' \in Seq(PieceSet) /\ lines' \in [Receivers -> Seq(Seq(PieceSet))]
          /\ at' \in [Receivers -> Nat] /\ pc' \in [Actors -> Labels]
      BY <1>receive, <3>1, FeedTypes
    <3>3. UNCHANGED <<pipe, toHelper, toClient, chunk, state, child, writing, leaving, job, sent,
                      mine, left, map, inStep, outOfTurn, mixedUp, reported, taken, crossed>>
      BY <2>1 DEF FeedRest, process, adapter, history
    <3>4. chunk' \in [Receivers -> Seq(PieceSet)]
      BY <3>3 DEF TypeOK, Receivers
    <3> QED
      BY <1>step, <3>2, <3>3, <3>4
  <2>2. ASSUME FeedChunk(a) PROVE TypeOK'
    <3>1. chunk[a] \in Seq(PieceSet)
      BY DEF TypeOK, Receivers
    <3> QED
      <4>1. /\ buffer' \in Seq(PieceSet) /\ lines' \in [Receivers -> Seq(Seq(PieceSet))]
            /\ at' \in [Receivers -> Nat] /\ pc' \in [Actors -> Labels]
        BY <1>receive, <2>2, <3>1, FeedTypes DEF FeedChunk
      <4>2. chunk' \in [Receivers -> Seq(PieceSet)]
        <5>1. <<>> \in Seq(PieceSet) /\ chunk \in [Receivers -> Seq(PieceSet)]
          BY DEF TypeOK, Receivers
        <5> QED
          BY <2>2, <5>1 DEF FeedChunk
      <4> QED
        <5>1. UNCHANGED <<pipe, toHelper, toClient, state, child, writing, leaving, job, sent,
                          mine, left, map, inStep, outOfTurn, mixedUp, reported, taken, crossed>>
          BY <2>2 DEF FeedChunk, process, adapter, history
        <5> QED
          BY <1>step, <4>1, <4>2, <5>1
  <2>3. ASSUME TakeLine(a) PROVE TypeOK'
    <3>1. at[a] \in Nat /\ buffer \in Seq(PieceSet)
      BY DEF TypeOK, Receivers
    <3>2. UpTo(buffer, at[a]) \in Seq(PieceSet) /\ After(buffer, at[a]) \in Seq(PieceSet)
      BY <3>1, CutIs
    <3>3. FirstEnd(After(buffer, at[a])) \in Nat
      BY <3>2, FirstEndIs
    <3>4. pc' \in [Actors -> Labels]
      BY <1>g, <2>3 DEF TakeLine, Labels
    <3> QED
      BY <2>3, <3>2, <3>3, <3>4 DEF TakeLine, TypeOK, Receivers, Labels, vars, pipeVars, client, process, adapter, history, locals
  <2>4. ASSUME ReadFile(a) PROVE TypeOK'
    <3>1. pc' \in [Actors -> Labels]
      BY <1>g, <2>4 DEF ReadFile, Labels
    <3>2. chunk' \in [Receivers -> Seq(PieceSet)] /\ toClient' \in Seq(PieceSet)
      <4>1. chunk \in [Receivers -> Seq(PieceSet)] /\ toClient \in Seq(PieceSet) /\ <<>> \in Seq(PieceSet)
        BY DEF TypeOK, Receivers
      <4>2. \/ chunk' = [chunk EXCEPT ![a] = toClient] /\ toClient' = <<>>
            \/ chunk' = chunk /\ toClient' = toClient
        BY <2>4 DEF ReadFile, IssueRead
      <4> QED
        BY <4>1, <4>2
    <3> QED
      BY <2>4, <3>1, <3>2 DEF ReadFile, TypeOK, Receivers, Labels, vars, pipeVars, client, process, adapter, history, locals
  <2>5. ASSUME ReadBroken(a) PROVE TypeOK'
    <3>1. pc' \in [Actors -> Labels]
      BY <1>g, <2>5 DEF ReadBroken, Labels
    <3>2. UNCHANGED <<pipe, toHelper, toClient, chunk, buffer, state, child, writing, leaving, job, sent,
                      mine, at, lines, left, map, inStep, outOfTurn, mixedUp, reported, taken, crossed>>
      BY <2>5 DEF ReadBroken, pipeVars, process, adapter, locals, history
    <3> QED
      BY <3>1, <3>2 DEF TypeOK, Labels
  <2>6. ASSUME ReadTimesOut(a) PROVE TypeOK'
    <3>1. pc' \in [Actors -> Labels] /\ inStep' \in BOOLEAN
      BY <1>g, <2>6 DEF ReadTimesOut, Labels
    <3>2. UNCHANGED <<pipe, toHelper, toClient, chunk, buffer, state, child, writing, leaving, job, sent,
                      mine, at, lines, left, map, outOfTurn, mixedUp, reported, taken, crossed>>
      BY <2>6 DEF ReadTimesOut, process, adapter, locals
    <3> QED
      BY <3>1, <3>2 DEF TypeOK, Labels
  <2> QED
    BY <1>receive, <2>1, <2>2, <2>3, <2>4, <2>5, <2>6 DEF Receive
<1>ask. ASSUME NEW t \in Callers, NEW j \in JobSet, Ask(t, j) PROVE TypeOK'
  BY <1>g, <1>ask DEF Ask, TypeOK, Labels, vars, pipeVars, client, process, adapter, history, locals
<1>Discover. ASSUME NEW t \in Callers, Discover(t) PROVE TypeOK'
  BY <1>ask, <1>Discover DEF Discover, JobSet
<1>Read. ASSUME NEW t \in Callers, NEW id \in ReadIds, Read(t, id) PROVE TypeOK'
  <2>1. HelperIdOf(id) \in Records
    BY <1>Read, ReadIdsAssumption DEF Read, HelperIdOf, TypeOK
  <2>2. [cmd |-> "read", id |-> id, record |-> HelperIdOf(id)] \in JobSet
    BY <2>1 DEF JobSet
  <2> QED
    BY <1>ask, <1>Read, <2>2 DEF Read
<1>CheckState. ASSUME NEW t \in Callers, CheckState(t) PROVE TypeOK'
  BY <1>g, <1>CheckState DEF CheckState, TypeOK, Labels, vars, pipeVars, client, process, adapter, history, locals
<1>WriteFile. ASSUME NEW t \in Callers, WriteFile(t) PROVE TypeOK'
  <2>1. sent' \in 0..MaxRequests /\ sent' \in 1..MaxRequests /\ job[t] \in JobSet
    BY <1>WriteFile, RequestsAssumption DEF WriteFile, TypeOK, PlaceInv, CallerPlace, Unasked
  <2>2. toHelper' \in Seq(RequestSet)
    <3>1. [n |-> sent', job |-> job[t]] \in RequestSet
      BY <2>1 DEF RequestSet
    <3>2. toHelper \in Seq(RequestSet)
      BY DEF TypeOK
    <3> QED
      BY <1>WriteFile, <3>1, <3>2 DEF WriteFile
  <2>3. mine' \in [Callers -> 0..MaxRequests]
    BY <1>WriteFile, <2>1 DEF WriteFile, TypeOK
  <2>4. pc' \in [Actors -> Labels]
    BY <1>g, <1>WriteFile DEF WriteFile, Labels
  <2>5. inStep' \in BOOLEAN
    BY <1>WriteFile DEF WriteFile, TypeOK
  <2> QED
    BY <1>WriteFile, <2>1, <2>2, <2>3, <2>4, <2>5 DEF WriteFile, TypeOK, Labels, process, adapter
<1>WriteFails. ASSUME NEW t \in Callers, WriteFails(t) PROVE TypeOK'
  BY <1>g, <1>WriteFails DEF WriteFails, TypeOK, Labels, vars, pipeVars, client, process, adapter, history, locals
<1>leave. ASSUME NEW t \in Callers, NEW label \in {"idle", "fill"}, NEW own \in BOOLEAN,
                 Leave(t, label), Deserved(t, own), UNCHANGED <<pipeVars, state, process, inStep, reported>>,
                 taken' \subseteq Records, crossed' \in BOOLEAN, left' \in [Callers -> Seq(Records)], map' \in [MintedIds -> Records \cup {NoRecord}],
                 mixedUp' \in BOOLEAN
          PROVE  TypeOK'
  <2>1. outOfTurn' \in BOOLEAN
    BY <1>leave DEF Deserved
  <2>2. label \in Labels /\ UNCHANGED sent
    BY <1>leave DEF Leave, Labels
  <2>3. /\ pc' \in [Actors -> Labels] /\ job' \in [Callers -> JobSet \cup {NoJob}]
        /\ mine' \in [Callers -> 0..MaxRequests] /\ at' \in [Receivers -> Nat]
        /\ lines' \in [Receivers -> Seq(Seq(PieceSet))]
    BY <1>leave, <2>2, LeaveTypes
  <2>4. UNCHANGED <<pipe, toHelper, toClient, chunk, buffer, state, child, writing, leaving, sent,
                    inStep, reported>>
    BY <1>leave, <2>2 DEF pipeVars, process
  <2> QED
    BY <1>leave, <2>1, <2>3, <2>4 DEF TypeOK, Receivers, Labels
<1>CallFails. ASSUME NEW t \in Callers, CallFails(t) PROVE TypeOK'
  BY <1>leave, <1>CallFails DEF CallFails, TypeOK, adapter
<1>Undecodable. ASSUME NEW t \in Callers, Undecodable(t) PROVE TypeOK'
  BY <1>leave, <1>Undecodable DEF Undecodable, TypeOK, adapter
<1>ReadReturns. ASSUME NEW t \in Callers, ReadReturns(t) PROVE TypeOK'
  <2>1. mixedUp' \in BOOLEAN
    BY <1>ReadReturns DEF ReadReturns, TypeOK
  <2> QED
    BY <1>leave, <1>ReadReturns, <2>1 DEF ReadReturns, TypeOK, adapter
<1>DiscoverRefused. ASSUME NEW t \in Callers, DiscoverRefused(t) PROVE TypeOK'
  BY <1>leave, <1>DiscoverRefused DEF DiscoverRefused, TypeOK, adapter
<1>DiscoverResets. ASSUME NEW t \in Callers, DiscoverResets(t) PROVE TypeOK'
  <2>1. Sensors(t) \in Seq(Records)
    BY <1>DiscoverResets, SensorsType DEF DiscoverResets, Decoded, PlaceInv, GotLine, Receivers
  <2>2. left' \in [Callers -> Seq(Records)] /\ map' \in [MintedIds -> Records \cup {NoRecord}]
    BY <1>DiscoverResets, <2>1 DEF DiscoverResets, TypeOK
  <2>3. taken' \subseteq Records /\ crossed' \in BOOLEAN
    BY <1>DiscoverResets DEF DiscoverResets, TypeOK
  <2>4. PICK label \in {"idle", "fill"} : Leave(t, label)
    BY <1>DiscoverResets DEF DiscoverResets
  <2>5. mixedUp' \in BOOLEAN
    BY <1>DiscoverResets DEF DiscoverResets, TypeOK
  <2>6. Deserved(t, LineOf(t)[1].n = mine[t])
        /\ UNCHANGED <<pipeVars, state, process, inStep, reported>>
    BY <1>DiscoverResets DEF DiscoverResets
  <2> QED
    BY <1>leave, <2>2, <2>3, <2>4, <2>5, <2>6
<1>DiscoverFills. ASSUME NEW t \in Callers, DiscoverFills(t) PROVE TypeOK'
  <2>1. Head(left[t]) \in Records /\ Tail(left[t]) \in Seq(Records)
    BY <1>DiscoverFills DEF DiscoverFills, TypeOK, PlaceInv, CallerPlace
  <2>2. left' \in [Callers -> Seq(Records)] /\ map' \in [MintedIds -> Records \cup {NoRecord}]
    BY <1>DiscoverFills, <2>1 DEF DiscoverFills, TypeOK
  <2>3. pc' \in [Actors -> Labels]
    BY <1>g, <1>DiscoverFills DEF DiscoverFills, Labels
  <2>4. UNCHANGED <<pipe, toHelper, toClient, chunk, buffer, state, child, writing, leaving, job, sent,
                    mine, at, lines, inStep, outOfTurn, mixedUp, reported, taken, crossed>>
    BY <1>DiscoverFills DEF DiscoverFills, pipeVars, process, locals, history
  <2> QED
    BY <2>2, <2>3, <2>4 DEF TypeOK, Labels
<1>ThreadEnds. ASSUME NEW t \in Callers, ThreadEnds(t) PROVE TypeOK'
  BY <1>ThreadEnds DEF ThreadEnds, TypeOK, vars, pipeVars, client, process, adapter, history, locals
<1>ShutdownBegins. ASSUME ShutdownBegins PROVE TypeOK'
  BY <1>g, <1>ShutdownBegins DEF ShutdownBegins, TypeOK, Labels, vars, pipeVars, client, process, adapter, history, locals
<1>ShutdownWrites. ASSUME ShutdownWrites PROVE TypeOK'
  <2>1. [n |-> Unasked, job |-> [cmd |-> "shutdown", id |-> <<>>]] \in RequestSet
    BY RequestsAssumption DEF Unasked, JobSet, RequestSet
  <2>2. toHelper' \in Seq(RequestSet)
    <3>1. toHelper \in Seq(RequestSet)
      BY DEF TypeOK
    <3> QED
      BY <1>ShutdownWrites, <2>1, <3>1 DEF ShutdownWrites
  <2> QED
    BY <1>g, <1>ShutdownWrites, <2>2 DEF ShutdownWrites, Step, TypeOK, Labels, vars, pipeVars, client, process, adapter, history, locals
<1>ShutdownJoins. ASSUME ShutdownJoins PROVE TypeOK'
  <2>1. pc' \in [Actors -> Labels]
    BY <1>ShutdownJoins, <1>g DEF ShutdownJoins, Step, Labels
  <2>2. writing' \in Seq(PieceSet) /\ leaving' \in BOOLEAN
        /\ toHelper' \in Seq(RequestSet)
        /\ child' \in {"none", "starting", "connected", "serving", "exited"}
    BY <1>ShutdownJoins, NoneType DEF ShutdownJoins, ChildGone, TypeOK, process
  <2> QED
    BY <1>ShutdownJoins, <2>1, <2>2 DEF ShutdownJoins, TypeOK, Labels, adapter, history, locals
<1>ShutdownCloses. ASSUME ShutdownCloses PROVE TypeOK'
  <2>1. pc' \in [Actors -> Labels]
    BY <1>ShutdownCloses, <1>g DEF ShutdownCloses, Step, Labels
  <2>2. toClient' \in Seq(PieceSet) /\ pipe' \in {"none", "open"}
    BY <1>ShutdownCloses DEF ShutdownCloses
  <2> QED
    BY <1>ShutdownCloses, <2>1, <2>2 DEF ShutdownCloses, TypeOK, Labels, process, adapter, history, locals
<1>HelperConnects. ASSUME HelperConnects PROVE TypeOK'
  BY <1>HelperConnects DEF HelperConnects, HelperOnly, TypeOK, vars, pipeVars, client, process, adapter, history, locals
<1>HelperSaysHello. ASSUME HelperSaysHello PROVE TypeOK'
  <2>1. toClient' \in Seq(PieceSet) /\ chunk' \in [Receivers -> Seq(PieceSet)]
    BY <1>HelperSaysHello, HelloIs, PutTypes DEF HelperSaysHello
  <2> QED
    BY <1>HelperSaysHello, <2>1 DEF HelperSaysHello, HelperOnly, TypeOK, Receivers, client, adapter, history
<1>HelperServes. ASSUME HelperServes PROVE TypeOK'
  <2> PICK req : req = Head(toHelper)
    OBVIOUS
  <2>1. req \in RequestSet /\ Tail(toHelper) \in Seq(RequestSet)
    <3>1. toHelper \in Seq(RequestSet) /\ toHelper # <<>>
      BY <1>HelperServes DEF HelperServes, TypeOK
    <3>2. Len(toHelper) \in Nat /\ Len(toHelper) > 0
      BY <3>1
    <3> QED
      BY <3>1, <3>2
  <2>2. PICK answer \in Answers(req) :
           /\ PutPiece(Head(answer)) /\ writing' = Tail(answer)
           /\ reported' = IF req.job.cmd = "list" /\ answer[1].listed THEN Found(answer) ELSE reported
    BY <1>HelperServes DEF HelperServes
  <2>3. answer \in Seq(PieceSet) /\ answer # <<>>
    <3>1. answer \in Seq(PieceSet) /\ Len(answer) \in 1..2
      BY <2>1, <2>2, AnswerIs
    <3> QED
      BY <3>1
  <2>4. Head(answer) \in PieceSet /\ Tail(answer) \in Seq(PieceSet) /\ answer[1] \in PieceSet
    BY <2>3
  <2>5. toHelper' = Tail(toHelper) /\ leaving' \in BOOLEAN
        /\ UNCHANGED <<child, pipe, buffer, client, adapter, inStep, outOfTurn, mixedUp, taken, crossed>>
    BY <1>HelperServes DEF HelperServes
  <2>6. toClient' \in Seq(PieceSet) /\ chunk' \in [Receivers -> Seq(PieceSet)]
    BY <2>2, <2>4, PutTypes
  <2>7. reported' \subseteq Records
    <3>1. Found(answer) \subseteq Records
      BY <2>4 DEF Found, PieceSet
    <3> QED
      BY <2>2, <3>1 DEF TypeOK
  <2> QED
    BY <2>1, <2>2, <2>4, <2>5, <2>6, <2>7 DEF TypeOK, Receivers, client, adapter
<1>HelperWrites. ASSUME HelperWrites PROVE TypeOK'
  <2>1. Head(writing) \in PieceSet /\ Tail(writing) \in Seq(PieceSet)
    BY <1>HelperWrites DEF HelperWrites, TypeOK
  <2>2. toClient' \in Seq(PieceSet) /\ chunk' \in [Receivers -> Seq(PieceSet)]
    BY <1>HelperWrites, <2>1, PutTypes DEF HelperWrites
  <2> QED
    BY <1>HelperWrites, <2>1, <2>2 DEF HelperWrites, HelperOnly, TypeOK, Receivers, client, adapter, history
<1>HelperExits. ASSUME HelperExits PROVE TypeOK'
  <2>1. writing' \in Seq(PieceSet) /\ leaving' \in BOOLEAN
        /\ toHelper' \in Seq(RequestSet)
    BY <1>HelperExits, NoneType DEF HelperExits, ChildGone
  <2> QED
    BY <1>HelperExits, <2>1 DEF HelperExits, ChildGone, HelperOnly, TypeOK, client, adapter, history
<1>stutter. ASSUME UNCHANGED vars PROVE TypeOK'
  BY <1>stutter DEF TypeOK, vars, pipeVars, client, process, adapter, history, locals
<1>1. Setup => TypeOK'
  BY <1>NothingStarted, <1>FindExecutable, <1>CreatePipe, <1>SpawnFails, <1>Spawn, <1>DeliverToken,
     <1>AwaitConnection, <1>PeerVerified, <1>HandshakeDone, <1>StartTakenBack DEF Setup
<1>2. \A t \in Callers : HelperDown(t) \/ Call(t) \/ ThreadEnds(t) => TypeOK'
  BY <1>CheckState, <1>WriteFile, <1>WriteFails, <1>CallFails, <1>Undecodable, <1>ReadReturns,
     <1>DiscoverRefused, <1>DiscoverResets, <1>DiscoverFills, <1>ThreadEnds, <1>stutter DEF Call, HelperDown
<1>3. \A t \in Readers, id \in ReadIds : Read(t, id) \/ ReadUnknown(t, id) => TypeOK'
  BY <1>Read, <1>stutter DEF ReadUnknown, Callers
<1>4. Shutdown \/ HelperProcess => TypeOK'
  BY <1>ShutdownBegins, <1>ShutdownWrites, <1>ShutdownJoins, <1>ShutdownCloses, <1>HelperConnects,
     <1>HelperSaysHello, <1>HelperServes, <1>HelperWrites, <1>HelperExits DEF Shutdown, HelperProcess
<1> QED
  BY <1>1, <1>2, <1>3, <1>4, <1>receive, <1>Discover, <1>stutter DEF Next, Callers, Receivers

-----------------------------------------------------------------------------
(* Where the threads are. *)

LEMMA PlaceStep == HelperInv /\ [Next]_vars => PlaceInv'
<1> SUFFICES ASSUME HelperInv, [Next]_vars PROVE PlaceInv'
  OBVIOUS
<1> USE DEF HelperInv
<1>p. pc \in [Actors -> Labels] /\ lines \in [Receivers -> Seq(Seq(PieceSet))]
      /\ job \in [Callers -> JobSet \cup {NoJob}] /\ left \in [Callers -> Seq(Records)]
  BY DEF TypeOK, Labels, Receivers
<1>a. /\ Callers \subseteq Actors /\ "setup" \in Actors /\ "closer" \in Actors
      /\ "setup" \notin Callers /\ "closer" \notin Receivers /\ Callers \subseteq Receivers
      /\ "setup" \in Receivers
  BY CallersAssumption DEF Actors, Receivers
<1>i. /\ SetupPlace /\ CloserPlace
      /\ \A t \in Callers : CallerPlace(t)
      /\ \A a \in Receivers : GotLine(a)
  BY DEF PlaceInv
(* One caller moves, after setup(). *)
<1>c. ASSUME NEW t \in Callers, NEW label, Goto(t, label), pc["setup"] = "over",
             label \in {"idle", "check", "write", "failed", "fill"} \cup Receiving,
             label \in {"check", "write"} \cup Receiving => job'[t] # NoJob,
             label = "fill" => left'[t] # <<>>,
             label = "got" => lines'[t] # <<>>,
             \A u \in Callers : u # t => job'[u] = job[u] /\ left'[u] = left[u],
             \A a \in Receivers : a # t => lines'[a] = lines[a], UNCHANGED state
      PROVE  PlaceInv'
  <2>1. pc'[t] = label /\ \A a \in Actors : a # t => pc'[a] = pc[a]
    BY <1>c, <1>p, <1>a DEF Goto
  <2>2. SetupPlace' /\ CloserPlace'
    BY <1>i, <1>c, <1>a, <2>1 DEF SetupPlace, CloserPlace
  <2>3. ASSUME NEW u \in Callers PROVE CallerPlace(u)'
    BY <1>i, <1>c, <1>a, <2>1 DEF CallerPlace
  <2>4. ASSUME NEW u \in Receivers PROVE GotLine(u)'
    <3>1. u \in Actors
      BY DEF Receivers, Actors
    <3> QED
      BY <1>i, <1>c, <2>1, <3>1 DEF GotLine
  <2> QED
    BY <2>2, <2>3, <2>4 DEF PlaceInv
(* setup() moves on. *)
<1>s. ASSUME NEW label, Goto("setup", label), pc["setup"] # "over",
             label \in SetupOnly \cup Receiving \cup {"failed"},
             label = "over" \/ state' = "not_running",
             label = "got" => lines'["setup"] # <<>>,
             \A a \in Receivers : a # "setup" => lines'[a] = lines[a]
      PROVE  PlaceInv'
  <2>1. pc'["setup"] = label /\ \A a \in Actors : a # "setup" => pc'[a] = pc[a]
    BY <1>s, <1>p, <1>a DEF Goto
  <2>2. SetupPlace' /\ CloserPlace'
    BY <1>i, <1>s, <1>a, <2>1 DEF SetupPlace, CloserPlace
  <2>3. ASSUME NEW u \in Callers PROVE CallerPlace(u)'
    <3>1. pc'[u] = "idle"
      BY <1>i, <1>s, <1>a, <2>1 DEF CallerPlace
    <3> QED
      BY <3>1 DEF CallerPlace, Receiving
  <2>4. ASSUME NEW u \in Receivers PROVE GotLine(u)'
    <3>1. u \in Actors
      BY DEF Receivers, Actors
    <3> QED
      BY <1>i, <1>s, <2>1, <3>1 DEF GotLine
  <2> QED
    BY <2>2, <2>3, <2>4 DEF PlaceInv
(* The closer moves on. *)
<1>d. ASSUME NEW label \in {"idle", "send", "join", "close", "done"}, Goto("closer", label),
             pc["setup"] = "over", UNCHANGED <<job, left, lines>>, state' # "running"
      PROVE  PlaceInv'
  <2>1. pc'["closer"] = label /\ \A a \in Actors : a # "closer" => pc'[a] = pc[a]
    BY <1>d, <1>p, <1>a DEF Goto
  <2>2. SetupPlace' /\ CloserPlace'
    BY <1>i, <1>d, <1>a, <2>1 DEF SetupPlace, CloserPlace
  <2>3. ASSUME NEW u \in Callers PROVE CallerPlace(u)'
    <3>1. u # "closer"
      BY CallersAssumption
    <3> QED
      BY <1>i, <1>d, <1>a, <2>1, <3>1 DEF CallerPlace
  <2>4. ASSUME NEW u \in Receivers PROVE GotLine(u)'
    <3>1. u \in Actors /\ u # "closer"
      BY <1>a DEF Receivers, Actors
    <3> QED
      BY <1>i, <1>d, <2>1, <3>1 DEF GotLine
  <2> QED
    BY <2>2, <2>3, <2>4 DEF PlaceInv
(* Nobody moves. *)
<1>u. ASSUME UNCHANGED <<pc, job, left, lines, state>> PROVE PlaceInv'
  BY <1>u DEF PlaceInv, SetupPlace, CloserPlace, CallerPlace, GotLine
<1>o. ASSUME NEW t \in Callers, pc[t] # "idle" PROVE pc["setup"] = "over"
  BY <1>o, <1>i DEF CallerPlace
<1>1. ASSUME Setup PROVE PlaceInv'
  <2>1. UNCHANGED lines
    BY <1>1 DEF Setup, NothingStarted, FindExecutable, CreatePipe, SpawnFails, Spawn, DeliverToken,
                AwaitConnection, PeerVerified, HandshakeDone, StartTakenBack, locals
  <2>2. pc["setup"] \notin {"over", "read", "wait", "take"}
    BY <1>1 DEF Setup, NothingStarted, FindExecutable, CreatePipe, SpawnFails, Spawn, DeliverToken,
                AwaitConnection, PeerVerified, HandshakeDone, StartTakenBack, Step
  <2>3. state = "not_running"
    BY <1>i, <2>2 DEF SetupPlace
  <2>4. \/ Goto("setup", "over")
        \/ \E label \in {"pipe", "spawn", "token", "connect", "connect_missed", "connect_wait", "scan"} :
             Goto("setup", label) /\ state' = state
    BY <1>1 DEF Setup, NothingStarted, FindExecutable, CreatePipe, SpawnFails, Spawn, DeliverToken,
                AwaitConnection, PeerVerified, HandshakeDone, StartTakenBack, Step, SetupFails
  <2> QED
    BY <1>s, <2>1, <2>2, <2>3, <2>4 DEF SetupOnly, Receiving
<1>2. ASSUME NEW a \in Receivers, Receive(a) PROVE PlaceInv'
  <2>1. UNCHANGED <<job, left, state>>
    BY <1>2 DEF Receive, FeedRest, FeedChunk, TakeLine, ReadFile, ReadBroken, ReadTimesOut,
                locals, adapter
  <2>2. pc[a] \in {"scan", "wait", "take", "read"}
    BY <1>2 DEF Receive, FeedRest, FeedChunk, TakeLine, ReadFile, ReadBroken, ReadTimesOut
  <2>3. \E label \in {"take", "read", "scan", "wait", "failed", "got"} : Goto(a, label)
    BY <1>2 DEF Receive, FeedRest, FeedChunk, TakeLine, ReadFile, ReadBroken, ReadTimesOut, Feed
  <2>4. \A b \in Receivers : b # a => lines'[b] = lines[b]
    BY <1>2, <1>p DEF Receive, FeedRest, FeedChunk, TakeLine, ReadFile, ReadBroken, ReadTimesOut,
                      Feed, locals
  <2>5. Goto(a, "got") => lines'[a] # <<>>
    <3>1. ASSUME Goto(a, "got") PROVE TakeLine(a)
      <4>1. pc'[a] = "got"
        BY <1>a, <1>p, <3>1 DEF Goto, Receivers
      <4> QED
        BY <1>2, <1>a, <1>p, <4>1 DEF Goto, Receivers, Receive, FeedRest, FeedChunk, ReadFile, ReadBroken,
                                     ReadTimesOut, Feed
    <3>2. TakeLine(a) => lines'[a] # <<>>
      <4> PICK one : one = <<UpTo(buffer, at[a])>>
        OBVIOUS
      <4>1. one # <<>>
        OBVIOUS
      <4>2. TakeLine(a) => lines' = [lines EXCEPT ![a] = IF lines[a] = <<>> THEN one ELSE lines[a]]
        BY DEF TakeLine
      <4> QED
        BY <1>p, <4>1, <4>2
    <3> QED
      BY <3>1, <3>2
  <2>6. CASE a = "setup"
    <3>1. state' = "not_running"
      BY <1>i, <2>1, <2>2, <2>6 DEF SetupPlace
    <3> QED
      BY <1>s, <2>1, <2>2, <2>3, <2>4, <2>5, <2>6, <3>1 DEF Receiving
  <2>7. CASE a # "setup"
    <3>1. a \in Callers
      BY <2>7 DEF Receivers
    <3> QED
      <4>1. job'[a] # NoJob
        BY <1>i, <2>1, <2>2, <3>1 DEF CallerPlace, Receiving
      <4> QED
        BY <1>c, <1>o, <2>1, <2>2, <2>3, <2>4, <2>5, <3>1, <4>1 DEF Receiving
  <2> QED
    BY <2>6, <2>7
<1>3. ASSUME NEW t \in Callers, NEW j \in JobSet, Ask(t, j), Ready(t) PROVE PlaceInv'
  <2>1. j # NoJob
    BY DEF JobSet, NoJob
  <2>2. job'[t] = j /\ \A u \in Callers : u # t => job'[u] = job[u]
    BY <1>3, <1>p DEF Ask
  <2> QED
    BY <1>3, <1>c, <2>1, <2>2 DEF Ask, Ready, adapter, Receiving
<1>4. ASSUME NEW t \in Callers, CheckState(t) \/ WriteFile(t) \/ WriteFails(t) PROVE PlaceInv'
  <2>1. UNCHANGED <<job, left, lines, state>> /\ pc[t] \in {"check", "write"}
    BY <1>4 DEF CheckState, WriteFile, WriteFails, locals, adapter
  <2>2. \E label \in {"write", "scan", "failed"} : Goto(t, label)
    BY <1>4 DEF CheckState, WriteFile, WriteFails
  <2>3. job[t] # NoJob
    BY <1>i, <2>1 DEF CallerPlace
  <2> QED
    BY <1>c, <1>o, <2>1, <2>2, <2>3 DEF Receiving
<1>5. ASSUME NEW t \in Callers, NEW label \in {"idle", "fill"}, Leave(t, label), pc[t] # "idle",
             label = "fill" => left'[t] # <<>>, \A u \in Callers : u # t => left'[u] = left[u],
             UNCHANGED state
      PROVE  PlaceInv'
  <2>1. /\ \A u \in Callers : u # t => job'[u] = job[u]
        /\ \A a \in Receivers : a # t => lines'[a] = lines[a]
    BY <1>5, <1>p DEF Leave
  <2>2. Goto(t, label)
    BY <1>5 DEF Leave
  <2> QED
    BY <1>c, <1>o, <1>5, <2>1, <2>2 DEF Receiving
<1>6. ASSUME NEW t \in Callers,
             CallFails(t) \/ Undecodable(t) \/ ReadReturns(t) \/ DiscoverRefused(t)
      PROVE  PlaceInv'
  <2>1. Leave(t, "idle") /\ pc[t] # "idle" /\ UNCHANGED <<left, state>>
    BY <1>6 DEF CallFails, Undecodable, ReadReturns, DiscoverRefused, Decoded, adapter
  <2> QED
    BY <1>5, <2>1
<1>7. ASSUME NEW t \in Callers, DiscoverResets(t) PROVE PlaceInv'
  <2> PICK sensors : sensors = Sensors(t)
    OBVIOUS
  <2> PICK label : label = IF sensors = <<>> THEN "idle" ELSE "fill"
    OBVIOUS
  <2>1. /\ Leave(t, label) /\ pc[t] # "idle"
        /\ left' = [left EXCEPT ![t] = sensors] /\ UNCHANGED state
    BY <1>7 DEF DiscoverResets, Decoded
  <2>2. left'[t] = sensors /\ \A u \in Callers : u # t => left'[u] = left[u]
    BY <1>p, <2>1
  <2>3. label \in {"idle", "fill"} /\ (label = "fill" => sensors # <<>>)
    OBVIOUS
  <2> QED
    BY <1>5, <2>1, <2>2, <2>3
<1>8. ASSUME NEW t \in Callers, DiscoverFills(t) PROVE PlaceInv'
  <2>1. UNCHANGED <<job, lines, state>> /\ pc[t] = "fill" /\ left' = [left EXCEPT ![t] = Tail(left[t])]
    BY <1>8 DEF DiscoverFills, locals
  <2>2. \A u \in Callers : u # t => left'[u] = left[u]
    BY <1>p, <2>1
  <2>3. \/ Goto(t, "idle")
        \/ Goto(t, "fill") /\ left'[t] # <<>>
    BY <1>8 DEF DiscoverFills
  <2> QED
    BY <1>c, <1>o, <2>1, <2>2, <2>3 DEF Receiving
<1>9. ASSUME Shutdown PROVE PlaceInv'
  <2>1. UNCHANGED <<job, left, lines>>
    BY <1>9 DEF Shutdown, ShutdownBegins, ShutdownWrites, ShutdownJoins, ShutdownCloses, locals, adapter
  <2>2. \E label \in {"send", "join", "close", "done"} : Goto("closer", label)
    BY <1>9 DEF Shutdown, ShutdownBegins, ShutdownWrites, ShutdownJoins, ShutdownCloses, Step
  <2>3. pc["setup"] = "over"
    BY <1>9, <1>i DEF Shutdown, ShutdownBegins, ShutdownWrites, ShutdownJoins, ShutdownCloses, Step,
                      CloserPlace
  <2>4. state' # "running"
    BY <1>9, <1>i DEF Shutdown, ShutdownBegins, ShutdownWrites, ShutdownJoins, ShutdownCloses, Step,
                      CloserPlace
  <2> QED
    BY <1>d, <2>1, <2>2, <2>3, <2>4
<1>10. ASSUME \/ HelperProcess \/ UNCHANGED vars
              \/ \E t \in Callers : ThreadEnds(t) \/ HelperDown(t)
              \/ \E t \in Readers, id \in ReadIds : ReadUnknown(t, id)
       PROVE  PlaceInv'
  <2>1. UNCHANGED <<pc, job, left, lines, state>>
    BY <1>10 DEF HelperProcess, HelperConnects, HelperSaysHello, HelperServes, HelperWrites, HelperExits,
                 HelperOnly, ThreadEnds, HelperDown, ReadUnknown, vars, client, adapter
  <2> QED
    BY <1>u, <2>1
<1>11. ASSUME NEW t \in Enumerators, Discover(t) PROVE PlaceInv'
  <2>1. [cmd |-> "list", id |-> <<>>] \in JobSet
    BY DEF JobSet
  <2> QED
    BY <1>3, <1>11, <2>1 DEF Discover, Callers
<1>12. ASSUME NEW t \in Readers, NEW id \in ReadIds, Read(t, id) PROVE PlaceInv'
  <2>1. HelperIdOf(id) \in Records
    BY <1>12, ReadIdsAssumption DEF Read, HelperIdOf, TypeOK
  <2>2. [cmd |-> "read", id |-> id, record |-> HelperIdOf(id)] \in JobSet
    BY <2>1 DEF JobSet
  <2> QED
    BY <1>3, <1>12, <2>2 DEF Read, Callers
<1> QED
  BY <1>1, <1>2, <1>4, <1>6, <1>7, <1>8, <1>9, <1>10, <1>11, <1>12 DEF Next, Call, Receivers

(* TypeOK: every variable stays in its range.                              *)
THEOREM HelperTypes == Spec => []TypeOK
<1>1. Spec => []HelperInv
  <2>1. HelperInv /\ [Next]_vars => HelperInv'
    BY HelperTypeStep, PlaceStep DEF HelperInv
  <2> QED
    BY <2>1, HelperInitially, PTL DEF Spec
<1>2. HelperInv => TypeOK
  BY DEF HelperInv
<1> QED
  BY <1>1, <1>2, PTL

-----------------------------------------------------------------------------
(* Nothing left behind.                                                    *)

(* The child and the pipe exist only from the step of setup() that made    *)
(* them to the one that takes them back, and shutdown() takes the pipe     *)
(* back after the child.                                                   *)
OrphanInv ==
  /\ pc["setup"] \in {"file", "pipe"} => child = "none" /\ pipe = "none"
  /\ pc["setup"] = "spawn" => child = "none"
  /\ ~Connected => pending = <<>>
  /\ pc["closer"] \in {"close", "done"} => child \in {"none", "exited"}
  /\ NoOrphan

LEMMA OrphanStep == HelperInv /\ OrphanInv /\ [Next]_vars => OrphanInv'
<1> SUFFICES ASSUME HelperInv, OrphanInv, [Next]_vars PROVE OrphanInv'
  OBVIOUS
<1> USE DEF HelperInv
<1>a. /\ Callers \subseteq Actors /\ "setup" \in Actors /\ "closer" \in Actors
      /\ "setup" \notin Callers /\ "closer" \notin Receivers /\ "setup" \in Receivers
      /\ pc \in [Actors -> Labels]
  BY CallersAssumption DEF Actors, Receivers, TypeOK, Labels
<1>i. SetupPlace /\ CloserPlace
  BY DEF PlaceInv
<1>t. child \in {"none", "starting", "connected", "serving", "exited"}
  BY DEF TypeOK
<1>m. ASSUME NEW a, NEW label, Goto(a, label)
      PROVE  /\ a # "setup" => pc'["setup"] = pc["setup"]
             /\ a # "closer" => pc'["closer"] = pc["closer"]
             /\ a \in Actors => pc'[a] = label
  BY <1>a, <1>m DEF Goto
(* The helper's steps, and whatever touches neither it nor the pipe.       *)
<1>k. ASSUME UNCHANGED <<state, child, pipe>>, pc'["closer"] = pc["closer"],
             pc'["setup"] \in {"file", "pipe", "spawn"} => pc'["setup"] = pc["setup"],
             pending' = <<>> \/ Connected
      PROVE  OrphanInv'
  <2>1. pc["closer"] = "done" \/ state = "failed_to_start" => child \in {"none", "exited"}
    BY DEF OrphanInv, NoOrphan
  <2> QED
    BY <1>k, <2>1 DEF OrphanInv, NoOrphan, Connected
<1>1. ASSUME Setup PROVE OrphanInv'
  <2>1. pc'["closer"] = pc["closer"]
    BY <1>1, <1>m DEF Setup, NothingStarted, FindExecutable, CreatePipe, SpawnFails, Spawn, DeliverToken,
                AwaitConnection, PeerVerified, HandshakeDone, StartTakenBack, Step, SetupFails
  <2>2. pc["setup"] # "over"
    BY <1>1 DEF Setup, NothingStarted, FindExecutable, CreatePipe, SpawnFails, Spawn, DeliverToken,
                AwaitConnection, PeerVerified, HandshakeDone, StartTakenBack, Step
  <2>3. state = "not_running" /\ pc["closer"] = "idle"
    BY <1>i, <2>2 DEF SetupPlace, CloserPlace
  <2>4. ASSUME NothingStarted PROVE OrphanInv'
    <3>1. pc'["setup"] = "over" /\ child = "none" /\ pipe = "none" /\ pending = <<>>
      BY <2>4, <1>a, <1>m DEF NothingStarted, SetupFails, OrphanInv, Connected
    <3> QED
      BY <2>1, <2>3, <2>4, <3>1 DEF NothingStarted, OrphanInv, NoOrphan, Connected, process, pipeVars
  <2>5. ASSUME FindExecutable \/ CreatePipe PROVE OrphanInv'
    <3>1. (pc'["setup"] = "pipe" /\ pipe' = pipe) \/ pc'["setup"] = "spawn"
      BY <2>5, <1>a, <1>m DEF FindExecutable, CreatePipe, Step, pipeVars
    <3>2. child = "none" /\ pc["setup"] = "file" => pipe = "none"
      BY <2>5 DEF FindExecutable, CreatePipe, Step, OrphanInv
    <3>3. UNCHANGED <<child, pending, state>> /\ pending = <<>>
      BY <2>5 DEF FindExecutable, CreatePipe, Step, OrphanInv, Connected, process, pipeVars
    <3> QED
      BY <2>1, <2>3, <2>5, <3>1, <3>2, <3>3, <1>a, <1>m
         DEF FindExecutable, CreatePipe, Step, OrphanInv, NoOrphan, Connected
  <2>6. ASSUME SpawnFails PROVE OrphanInv'
    <3>1. pc'["setup"] = "over" /\ child = "none" /\ pending = <<>>
      BY <2>6, <1>a, <1>m DEF SpawnFails, SetupFails, OrphanInv, Connected
    <3> QED
      BY <2>1, <2>3, <2>6, <3>1 DEF SpawnFails, OrphanInv, NoOrphan, Connected, process
  <2>7. ASSUME Spawn PROVE OrphanInv'
    <3>1. pc'["setup"] = "token" /\ pending = <<>>
      BY <2>7, <1>a, <1>m DEF Spawn, Step, OrphanInv, Connected
    <3> QED
      BY <2>1, <2>3, <2>7, <3>1 DEF Spawn, OrphanInv, NoOrphan, Connected, pipeVars
  <2>8. ASSUME DeliverToken \/ AwaitConnection \/ PeerVerified \/ HandshakeDone PROVE OrphanInv'
    <3>1. pc'["setup"] \in {"connect", "connect_missed", "connect_wait", "scan", "over"}
      BY <2>8, <1>a, <1>m DEF DeliverToken, AwaitConnection, PeerVerified, HandshakeDone, Step
    <3>2. UNCHANGED <<child, pipe, pending>> /\ state' \in {"not_running", "running"}
      BY <2>3, <2>8 DEF DeliverToken, AwaitConnection, PeerVerified, HandshakeDone, process, pipeVars
    <3> QED
      BY <2>1, <2>3, <3>1, <3>2 DEF OrphanInv, NoOrphan, Connected
  <2>9. ASSUME StartTakenBack PROVE OrphanInv'
    <3>1. pc'["setup"] = "over" /\ child' = "exited" /\ pipe' = "none" /\ pending' = <<>>
      BY <2>9, <1>a, <1>m DEF StartTakenBack, SetupFails, ChildGone
    <3> QED
      BY <2>1, <2>3, <3>1 DEF OrphanInv, NoOrphan, Connected
  <2> QED
    BY <1>1, <2>4, <2>5, <2>6, <2>7, <2>8, <2>9 DEF Setup
<1>2. ASSUME NEW a \in Receivers, Receive(a) PROVE OrphanInv'
  <2>1. UNCHANGED <<state, child, pipe>>
    BY <1>2 DEF Receive, FeedRest, FeedChunk, TakeLine, ReadFile, ReadBroken, ReadTimesOut,
                process, pipeVars
  <2>2. \E label \in {"take", "read", "scan", "wait", "failed", "got"} : Goto(a, label)
    BY <1>2 DEF Receive, FeedRest, FeedChunk, TakeLine, ReadFile, ReadBroken, ReadTimesOut, Feed
  <2>3. pc'["closer"] = pc["closer"]
        /\ (pc'["setup"] \in {"file", "pipe", "spawn"} => pc'["setup"] = pc["setup"])
    BY <1>a, <1>m, <2>2
  <2>4. pending' = pending \/ Connected
    <3>1. ReadFile(a) => pending' = pending \/ Connected
      BY DEF ReadFile, IssueRead
    <3>2. ReadTimesOut(a) => Connected
      BY DEF ReadTimesOut, Reading, OrphanInv
    <3> QED
      BY <1>2, <3>1, <3>2 DEF Receive, FeedRest, FeedChunk, TakeLine, ReadBroken, pipeVars
  <2> QED
    BY <1>k, <2>1, <2>3, <2>4 DEF OrphanInv
<1>3. ASSUME NEW t \in Callers,
             \/ Call(t) \/ HelperDown(t) \/ ThreadEnds(t) \/ Discover(t)
             \/ \E id \in ReadIds : Read(t, id) \/ ReadUnknown(t, id)
      PROVE  OrphanInv'
  <2>1. UNCHANGED <<state, child, pipe>>
    BY <1>3 DEF Call, CheckState, WriteFile, WriteFails, CallFails, Undecodable, ReadReturns, DiscoverRefused,
                DiscoverResets, DiscoverFills, HelperDown, ThreadEnds, Discover, Read, ReadUnknown, Ask,
                process, pipeVars, vars, client
  <2>2. UNCHANGED pc \/ \E label : Goto(t, label)
    BY <1>3 DEF Call, CheckState, WriteFile, WriteFails, CallFails, Undecodable, ReadReturns, DiscoverRefused,
                DiscoverResets, DiscoverFills, HelperDown, ThreadEnds, Discover, Read, ReadUnknown, Ask,
                Leave, vars, client
  <2>3. pc'["closer"] = pc["closer"] /\ pc'["setup"] = pc["setup"]
    BY <1>a, <1>m, <2>2 DEF Receivers
  <2>4. UNCHANGED pending \/ Connected
    <3>1. ThreadEnds(t) => Connected
      BY DEF ThreadEnds, OrphanInv
    <3> QED
      BY <1>3, <3>1 DEF Call, CheckState, WriteFile, WriteFails, CallFails, Undecodable, ReadReturns,
                DiscoverRefused, DiscoverResets, DiscoverFills, HelperDown, Discover, Read, ReadUnknown, Ask,
                pipeVars, vars
  <2> QED
    BY <1>k, <2>1, <2>3, <2>4 DEF OrphanInv
<1>4. ASSUME Shutdown PROVE OrphanInv'
  <2>1. pc'["setup"] = pc["setup"] /\ pc["setup"] = "over"
    BY <1>4, <1>m, <1>i DEF Shutdown, ShutdownBegins, ShutdownWrites, ShutdownJoins, ShutdownCloses, Step,
                            CloserPlace
  <2>2. ASSUME ShutdownBegins PROVE OrphanInv'
    <3>1. pc'["closer"] \in {"send", "join"}
      BY <2>2, <1>a, <1>m DEF ShutdownBegins
    <3> QED
      BY <2>1, <2>2, <3>1 DEF ShutdownBegins, OrphanInv, NoOrphan, Connected, process, pipeVars
  <2>3. ASSUME ShutdownWrites PROVE OrphanInv'
    <3>1. pc'["closer"] = "join"
      BY <2>3, <1>a, <1>m DEF ShutdownWrites, Step
    <3> QED
      BY <2>1, <2>3, <3>1 DEF ShutdownWrites, OrphanInv, NoOrphan, Connected, process
  <2>4. ASSUME ShutdownJoins PROVE OrphanInv'
    <3>1. pc'["closer"] = "close" /\ UNCHANGED <<pipe, state>>
      BY <2>4, <1>a, <1>m DEF ShutdownJoins, Step
    <3>2. child' \in {"none", "exited"} /\ pending' = <<>>
      BY <2>4 DEF ShutdownJoins, ChildGone, OrphanInv, Connected, process
    <3> QED
      BY <2>1, <3>1, <3>2 DEF OrphanInv, NoOrphan, Connected
  <2>5. ASSUME ShutdownCloses PROVE OrphanInv'
    <3>1. pc'["closer"] = "done" /\ child \in {"none", "exited"}
      BY <2>5, <1>a, <1>m DEF ShutdownCloses, Step, OrphanInv
    <3> QED
      BY <2>1, <2>5, <3>1 DEF ShutdownCloses, OrphanInv, NoOrphan, Connected, process
  <2> QED
    BY <1>4, <2>2, <2>3, <2>4, <2>5 DEF Shutdown
<1>5. ASSUME HelperProcess PROVE OrphanInv'
  <2>1. UNCHANGED <<state, pc, pipe>>
    BY <1>5 DEF HelperProcess, HelperConnects, HelperSaysHello, HelperServes, HelperWrites, HelperExits,
                HelperOnly, client, pipeVars
  <2>2. ASSUME HelperConnects PROVE OrphanInv'
    BY <2>1, <2>2 DEF HelperConnects, OrphanInv, NoOrphan, Connected
  <2>3. ASSUME HelperSaysHello PROVE OrphanInv'
    BY <2>1, <2>3 DEF HelperSaysHello, OrphanInv, NoOrphan, Connected
  <2>4. ASSUME HelperServes PROVE OrphanInv'
    <3>1. UNCHANGED child /\ Connected
      BY <2>4 DEF HelperServes, Connected
    <3> QED
      BY <1>k, <2>1, <3>1
  <2>5. ASSUME HelperWrites PROVE OrphanInv'
    <3>1. UNCHANGED child /\ (pending' = pending \/ pending # <<>>)
      BY <2>5 DEF HelperWrites, PutPiece
    <3>2. pending' = <<>> \/ Connected
      BY <3>1 DEF OrphanInv
    <3> QED
      BY <1>k, <2>1, <3>1, <3>2
  <2>6. ASSUME HelperExits PROVE OrphanInv'
    BY <2>1, <2>6 DEF HelperExits, ChildGone, OrphanInv, NoOrphan, Connected
  <2> QED
    BY <1>5, <2>2, <2>3, <2>4, <2>5, <2>6 DEF HelperProcess
<1>6. ASSUME UNCHANGED vars PROVE OrphanInv'
  BY <1>6 DEF vars, pipeVars, client, process, OrphanInv, NoOrphan, Connected
<1> QED
  BY <1>1, <1>2, <1>3, <1>4, <1>5, <1>6 DEF Next, Receivers, Callers

(* NoOrphan: a setup() that failed and a shutdown() that returned leave no *)
(* helper process, no pipe and no read behind, whatever threads do and     *)
(* however the helper dies.                                                *)
THEOREM NothingLeftBehind == Spec => []NoOrphan
<1>1. Init => OrphanInv
  BY CallersAssumption DEF Init, PipeInit, OrphanInv, NoOrphan, Connected, Actors
<1>2. Spec => [](HelperInv /\ OrphanInv)
  <2>1. HelperInv /\ [Next]_vars => HelperInv'
    BY HelperTypeStep, PlaceStep DEF HelperInv
  <2> QED
    BY <1>1, <2>1, HelperInitially, OrphanStep, PTL DEF Spec
<1>3. OrphanInv => NoOrphan
  BY DEF OrphanInv
<1> QED
  BY <1>2, <1>3, PTL

-----------------------------------------------------------------------------
(* Sequences: a piece that moves on from the helper's writer to the pipe,  *)
(* to a chunk, to the buffer stays where it is in the flow of all of them. *)

LEMMA HeadAndTail ==
  ASSUME NEW S, NEW w \in Seq(S), w # <<>>
  PROVE  Head(w) \in S /\ Tail(w) \in Seq(S) /\ <<Head(w)>> \o Tail(w) = w
<1>1. /\ Head(w) \in S /\ Tail(w) \in Seq(S) /\ Len(Tail(w)) = Len(w) - 1
      /\ \A i \in 1..Len(Tail(w)) : Tail(w)[i] = w[i + 1]
  BY HeadTailProperties
<1>2. Len(w) \in Nat /\ Len(w) > 0 /\ Head(w) = w[1]
  BY EmptySeq, LenProperties
<1> PICK h, r : h = Head(w) /\ r = Tail(w)
  OBVIOUS
<1>3. <<h>> \in Seq(S) /\ Len(<<h>>) = 1 /\ <<h>>[1] = h
  BY <1>1
<1>4. /\ <<h>> \o r \in Seq(S) /\ Len(<<h>> \o r) = 1 + Len(r)
      /\ \A i \in 1..(1 + Len(r)) : (<<h>> \o r)[i] = IF i <= 1 THEN <<h>>[i] ELSE r[i - 1]
  BY <1>1, <1>3, ConcatProperties
<1>5. Len(<<h>> \o r) = Len(w)
  BY <1>1, <1>2, <1>4
<1>6. ASSUME NEW i \in 1..Len(w) PROVE (<<h>> \o r)[i] = w[i]
  <2>1. i \in 1..(1 + Len(r)) /\ i \in Nat
    BY <1>1, <1>2
  <2>2. CASE i = 1
    BY <1>2, <1>3, <1>4, <2>1, <2>2
  <2>3. CASE i # 1
    <3>1. i - 1 \in 1..Len(r) /\ ~(i <= 1) /\ (i - 1) + 1 = i
      BY <1>1, <1>2, <2>1, <2>3
    <3> QED
      BY <1>1, <1>4, <2>1, <3>1
  <2> QED
    BY <2>2, <2>3
<1>7. <<h>> \o r = w
  BY <1>4, <1>5, <1>6, SeqEqual
<1> QED
  BY <1>1, <1>7

Associates(b, c, r) == (b \o c) \o r = b \o (c \o r)

LEMMA FeedFlow ==
  ASSUME NEW b \in Seq(PieceSet), NEW c \in Seq(PieceSet), NEW r \in Seq(PieceSet)
  PROVE  Associates(b, c, r)
BY ConcatAssociative DEF Associates

LEMMA ReadFlow ==
  ASSUME NEW S, NEW b \in Seq(S), NEW t \in Seq(S), NEW w \in Seq(S)
  PROVE  b \o (t \o (<<>> \o w)) = b \o (<<>> \o (t \o w))
<1>1. t \o w \in Seq(S)
  BY ConcatProperties
<1> QED
  BY <1>1, ConcatEmptySeq

LEMMA WriteFlow ==
  ASSUME NEW S, NEW t \in Seq(S), NEW w \in Seq(S), w # <<>>
  PROVE  Append(t, Head(w)) \o Tail(w) = t \o w
<1>1. Head(w) \in S /\ Tail(w) \in Seq(S) /\ <<Head(w)>> \o Tail(w) = w
  BY HeadAndTail
<1>2. Append(t, Head(w)) = t \o <<Head(w)>> /\ <<Head(w)>> \in Seq(S)
  BY <1>1, AppendIsConcat
<1> QED
  BY <1>1, <1>2, ConcatAssociative

LEMMA PendingFlow ==
  ASSUME NEW S, NEW w \in Seq(S), w # <<>>
  PROVE  <<Head(w)>> \o (<<>> \o Tail(w)) = <<>> \o (<<>> \o w)
<1>1. Head(w) \in S /\ Tail(w) \in Seq(S) /\ <<Head(w)>> \o Tail(w) = w
  BY HeadAndTail
<1> QED
  BY <1>1, ConcatEmptySeq

(* What is put behind an empty end is put behind the whole. *)
Regroups(b, c, t) ==
  \A w \in Seq(PieceSet) : b \o (c \o (t \o w)) = (b \o (c \o (t \o <<>>))) \o w

LEMMA ServeFlow ==
  ASSUME NEW b \in Seq(PieceSet), NEW c \in Seq(PieceSet), NEW t \in Seq(PieceSet)
  PROVE  Regroups(b, c, t)
<1> SUFFICES ASSUME NEW w \in Seq(PieceSet)
             PROVE  b \o (c \o (t \o w)) = (b \o (c \o (t \o <<>>))) \o w
  BY DEF Regroups
<1>1. t \o <<>> = t
  BY ConcatEmptySeq
<1>2. c \o t \in Seq(PieceSet)
  BY ConcatProperties
<1>3. Associates(c, t, w) /\ Associates(b, c \o t, w)
  BY <1>2, FeedFlow
<1>4. (c \o t) \o w = c \o (t \o w) /\ (b \o (c \o t)) \o w = b \o ((c \o t) \o w)
  BY <1>3 DEF Associates
<1> QED
  BY <1>1, <1>4

IsBeginning(e, f) == Len(e) <= Len(f) /\ \A i \in 1..Len(e) : e[i] = f[i]

LEMMA BeginningIs ==
  ASSUME NEW S, NEW e \in Seq(S), NEW w \in Seq(S)
  PROVE  IsBeginning(e, e \o w)
<1>1. /\ Len(e) \in Nat /\ Len(w) \in Nat /\ Len(e \o w) = Len(e) + Len(w)
      /\ \A i \in 1..(Len(e) + Len(w)) : (e \o w)[i] = IF i <= Len(e) THEN e[i] ELSE w[i - Len(e)]
  BY ConcatProperties, LenProperties
<1>2. ASSUME NEW i \in 1..Len(e) PROVE e[i] = (e \o w)[i]
  <2>1. i \in 1..(Len(e) + Len(w)) /\ i <= Len(e)
    BY <1>1
  <2> QED
    BY <1>1, <2>1
<1>3. Len(e) <= Len(e \o w)
  BY <1>1
<1> QED
  BY <1>2, <1>3 DEF IsBeginning

(* What cutting b at i leaves in front, and what behind with r behind that. *)
CutsAt(b, r, i) ==
  /\ UpTo(b, i) \in Seq(PieceSet) /\ Len(UpTo(b, i)) = i
  /\ \A j \in 1..i : UpTo(b, i)[j] = (b \o r)[j]
  /\ After(b, i) \in Seq(PieceSet)
  /\ After(b, i) \o r \in Seq(PieceSet) /\ Len(After(b, i) \o r) = Len(b \o r) - i

LEMMA CutFlow ==
  ASSUME NEW b \in Seq(PieceSet), NEW r \in Seq(PieceSet), NEW i \in 1..Len(b)
  PROVE  CutsAt(b, r, i)
<1>1. /\ Len(b) \in Nat /\ Len(r) \in Nat /\ Len(b \o r) = Len(b) + Len(r)
      /\ \A j \in 1..Len(b) : b[j] \in PieceSet /\ b[j] = (b \o r)[j]
  <2>1. /\ Len(b) \in Nat /\ Len(r) \in Nat /\ Len(b \o r) = Len(b) + Len(r)
        /\ IsBeginning(b, b \o r)
    BY ConcatProperties, LenProperties, BeginningIs
  <2>2. \A j \in 1..Len(b) : b[j] \in PieceSet
    BY ElementOfSeq
  <2> QED
    BY <2>1, <2>2 DEF IsBeginning
<1>2. i \in Int /\ 1 <= i /\ i <= Len(b) /\ i + 1 \in Int /\ Len(b) \in Int
  BY <1>1
<1>3. UpTo(b, i) = SubSeq(b, 1, i) /\ After(b, i) = SubSeq(b, i + 1, Len(b))
  BY <1>2 DEF UpTo, After
<1>4. \A j \in 1..i : j \in 1..Len(b)
  BY <1>2
<1>5. /\ SubSeq(b, 1, i) \in Seq(PieceSet)
      /\ Len(SubSeq(b, 1, i)) = IF 1 <= i THEN i - 1 + 1 ELSE 0
      /\ \A j \in 1..(i - 1 + 1) : SubSeq(b, 1, i)[j] = b[1 + j - 1]
  BY <1>1, <1>2, <1>4, SubSeqProperties
<1>6. \A j \in (i + 1)..Len(b) : j \in 1..Len(b)
  BY <1>2
<1>7. /\ SubSeq(b, i + 1, Len(b)) \in Seq(PieceSet)
      /\ Len(SubSeq(b, i + 1, Len(b))) = IF i + 1 <= Len(b) THEN Len(b) - (i + 1) + 1 ELSE 0
  BY <1>1, <1>2, <1>6, SubSeqProperties
<1>8. Len(SubSeq(b, 1, i)) = i /\ Len(SubSeq(b, i + 1, Len(b))) = Len(b) - i
  BY <1>1, <1>2, <1>5, <1>7
<1>9. ASSUME NEW j \in 1..i PROVE SubSeq(b, 1, i)[j] = (b \o r)[j]
  <2>1. j \in 1..(i - 1 + 1) /\ 1 + j - 1 = j
    BY <1>2
  <2> QED
    BY <1>1, <1>4, <1>5, <2>1
<1>10. /\ After(b, i) \o r \in Seq(PieceSet)
       /\ Len(After(b, i) \o r) = Len(After(b, i)) + Len(r)
  BY <1>3, <1>7, ConcatProperties
<1>11. Len(After(b, i) \o r) = Len(b \o r) - i
  <2> PICK m, n, k : m = Len(b) /\ n = Len(r) /\ k = Len(After(b, i))
    OBVIOUS
  <2>1. m \in Int /\ n \in Int /\ k = m - i
    BY <1>1, <1>3, <1>8
  <2>2. k + n = (m + n) - i
    BY <1>2, <2>1
  <2> QED
    BY <1>1, <1>10, <2>2
<1> QED
  BY <1>3, <1>5, <1>7, <1>8, <1>9, <1>10, <1>11 DEF CutsAt

-----------------------------------------------------------------------------
(* Every request takes its own answer.                                     *)

(* All that is on its way to the framer of a, in its order.                *)
Flow(a) == buffer \o (chunk[a] \o (toClient \o writing))

(* Whose line is the next one: setup()'s until it is over, then the        *)
(* request's that was written last.                                        *)
Engaged(a) == IF a = "setup" THEN pc["setup"] # "over" ELSE pc[a] \in Receiving

Request(t) == [n |-> mine[t], job |-> job[t]]
(* What can come; a list that came is the latest that the helper made.     *)
Told(t, answer) == job[t].cmd = "list" /\ answer[1].listed => Found(answer) = reported
AnswersFor(a) ==
  IF a = "setup" THEN {<<Hello>>} ELSE {answer \in Answers(Request(a)) : Told(a, answer)}
Begins(f, answer) == \A i \in 1..Len(answer) : i <= Len(f) => f[i] = answer[i]

(* Behind the request that is waited for comes at most shutdown's.         *)
OnlyShutdown(from) == \A i \in from..Len(toHelper) : toHelper[i].n = Unasked

(* Nothing but the awaited line can come before shutdown() begins. *)
Alone(a) == a = "setup" \/ state = "running"

Unserved(a) ==
  /\ Flow(a) = <<>>
  /\ IF a = "setup"
       THEN child # "serving"
       ELSE toHelper # <<>> /\ toHelper[1] = Request(a) /\ OnlyShutdown(2)
Served(a, answer) ==
  /\ Begins(Flow(a), answer)
  /\ child = "serving" => Len(Flow(a)) >= Len(answer)
  /\ Alone(a) => Len(Flow(a)) <= Len(answer)
  /\ OnlyShutdown(1)
Taken(a) ==
  /\ \E answer \in AnswersFor(a) : lines[a] = <<answer>>
  /\ Alone(a) => Flow(a) = <<>>
  /\ OnlyShutdown(1)
AnswerOf(a) ==
  /\ lines[a] = <<>> => (Unserved(a) \/ \E answer \in AnswersFor(a) : Served(a, answer))
  /\ lines[a] # <<>> => Taken(a)
AnswerInv == \A a \in Receivers : Engaged(a) => AnswerOf(a)

(* One request at a time, and what its failure tells.                      *)
TurnOf(t) ==
  /\ pc[t] \notin Receiving \cup {"failed"} => mine[t] = 0
  /\ pc[t] \in Receiving => mine[t] # 0
  /\ mine[t] # 0 => child \in {"serving", "exited"}
  /\ pc[t] = "failed" /\ mine[t] # 0 => child = "exited" \/ pipe = "none"
TurnInv ==
  /\ \A t, u \in Callers : pc[t] \in Receiving /\ pc[u] \in Receiving => t = u
  /\ \A t \in Callers : TurnOf(t)
  /\ ~outOfTurn

(* The framer between two steps of its reader. *)
Awaited(a) ==
  pc[a] = "wait" /\ chunk[a] = <<>> /\ pending = <<[by |-> a, live |-> TRUE]>>
ReadOf(a) ==
  /\ pc[a] # "wait" => chunk[a] = <<>>
  /\ lines[a] # <<>> => pc[a] \in {"take", "got", "over"}
  /\ pc[a] \in {"read", "wait"} => FirstEnd(buffer) = 0
  /\ pc[a] = "take" => at[a] = FirstEnd(buffer) /\ at[a] # 0
  /\ pc[a] = "wait" /\ chunk[a] = <<>> /\ Connected => Awaited(a)
ReadInv ==
  /\ \A a \in Receivers : ReadOf(a)
  /\ pending # <<>> => toClient = <<>> /\ \E a \in Receivers : Awaited(a)

(* When the helper has said, and been asked, nothing.                      *)
QuietInv ==
  /\ (child # "serving" \/ pc["setup"] # "over") => toHelper = <<>> /\ writing = <<>>
  /\ child \in {"none", "starting", "connected"} =>
       /\ toClient = <<>> /\ buffer = <<>> /\ lines["setup"] = <<>>
       /\ \A a \in Receivers : chunk[a] = <<>>
  /\ pc["setup"] = "over" => child \notin {"starting", "connected"}
  /\ pc["setup"] \in Receiving => child \notin {"none", "starting"}
  /\ pc["setup"] \notin {"file", "pipe", "failed", "over"} => pipe = "open"
  /\ state = "running" => pipe = "open" /\ child \in {"serving", "exited"}
  /\ state = "running" => \A i \in DOMAIN toHelper : toHelper[i].n # Unasked
  /\ state = "running" /\ child = "serving" /\ (\A t \in Callers : pc[t] \notin Receiving) =>
       toHelper = <<>> /\ buffer = <<>> /\ toClient = <<>> /\ writing = <<>>

(* What holds as long as requests are made in step, and what of it is kept *)
(* when they no longer are.                                                *)
StepInv == ~outOfTurn /\ (inStep => AnswerInv /\ TurnInv /\ ReadInv /\ QuietInv)
StepParts == HelperInv /\ OrphanInv /\ AnswerInv /\ TurnInv /\ ReadInv /\ QuietInv

LEMMA FlowType ==
  ASSUME TypeOK, NEW a \in Receivers
  PROVE  /\ buffer \in Seq(PieceSet) /\ chunk[a] \in Seq(PieceSet)
         /\ toClient \in Seq(PieceSet) /\ writing \in Seq(PieceSet)
         /\ Flow(a) \in Seq(PieceSet) /\ Len(Flow(a)) \in Nat
         /\ Flow(a) = <<>> <=>
              buffer = <<>> /\ chunk[a] = <<>> /\ toClient = <<>> /\ writing = <<>>
<1>1. /\ buffer \in Seq(PieceSet) /\ chunk[a] \in Seq(PieceSet)
      /\ toClient \in Seq(PieceSet) /\ writing \in Seq(PieceSet)
  BY DEF TypeOK, Receivers
<1>2. toClient \o writing \in Seq(PieceSet)
      /\ (toClient \o writing = <<>> <=> toClient = <<>> /\ writing = <<>>)
  BY <1>1, ConcatProperties, ConcatEqualIffEmpty
<1>3. chunk[a] \o (toClient \o writing) \in Seq(PieceSet)
      /\ (chunk[a] \o (toClient \o writing) = <<>> <=> chunk[a] = <<>> /\ toClient \o writing = <<>>)
  BY <1>1, <1>2, ConcatProperties, ConcatEqualIffEmpty
<1>4. Flow(a) \in Seq(PieceSet)
      /\ (Flow(a) = <<>> <=> buffer = <<>> /\ chunk[a] \o (toClient \o writing) = <<>>)
  BY <1>1, <1>3, ConcatProperties, ConcatEqualIffEmpty DEF Flow
<1>5. Len(Flow(a)) \in Nat
  BY <1>4, LenProperties
<1> QED
  BY <1>1, <1>2, <1>3, <1>4, <1>5

(* The lines that can be awaited decode, and carry their request's number. *)
LEMMA AnswersAre ==
  ASSUME HelperInv, TurnInv, NEW a \in Receivers, Engaged(a)
  PROVE  /\ AnswersFor(a) # {}
         /\ \A answer \in AnswersFor(a) :
              /\ answer \in Seq(PieceSet) /\ Len(answer) \in {1, 2}
              /\ \A i \in 1..Len(answer) :
                   /\ answer[i].n = (IF a = "setup" THEN 0 ELSE mine[a])
                   /\ answer[i].part = i /\ answer[i].all = Len(answer)
<1>1. CASE a = "setup"
  <2> PICK one : one = <<Hello>>
    OBVIOUS
  <2>1. AnswersFor(a) = {one} /\ Hello \in PieceSet /\ Hello.n = 0 /\ Hello.part = 1 /\ Hello.all = 1
    BY <1>1, HelloIs DEF AnswersFor, Hello, Piece
  <2>2. Len(one) = 1 /\ one[1] = Hello /\ one \in Seq(PieceSet)
    BY <2>1
  <2>3. /\ one \in Seq(PieceSet) /\ Len(one) \in {1, 2}
        /\ \A i \in 1..Len(one) : one[i].n = 0 /\ one[i].part = i /\ one[i].all = Len(one)
    <3>1. \A i \in 1..1 : i = 1
      OBVIOUS
    <3> QED
      BY <2>1, <2>2, <3>1
  <2> QED
    BY <1>1, <2>1, <2>3
<1>2. CASE a # "setup"
  <2>1. a \in Callers /\ pc[a] \in Receiving
    BY <1>2 DEF Receivers, Engaged
  <2>2. mine[a] \in 1..MaxRequests /\ job[a] \in JobSet
    <3>1. mine[a] \in 0..MaxRequests /\ mine[a] # 0 /\ job[a] \in JobSet \cup {NoJob} /\ job[a] # NoJob
      BY <2>1 DEF HelperInv, TypeOK, PlaceInv, CallerPlace, TurnInv, TurnOf
    <3> QED
      BY <3>1, RequestsAssumption
  <2> PICK r : r = Request(a)
    OBVIOUS
  <2>3. r \in RequestSet /\ r.n = mine[a]
    BY <2>2 DEF Request, RequestSet
  <2>4. AnswersFor(a) = {answer \in Answers(r) : Told(a, answer)}
    BY <1>2 DEF AnswersFor
  <2>5. AnswersFor(a) # {}
    <3>1. NoList(r.n) \in Answers(r) /\ NoList(r.n)[1].listed = FALSE
      BY <2>3, AnswerIs
    <3>2. Told(a, NoList(r.n))
      BY <3>1 DEF Told
    <3> QED
      BY <2>4, <3>1, <3>2
  <2>6. ASSUME NEW answer \in AnswersFor(a)
        PROVE  /\ answer \in Seq(PieceSet) /\ Len(answer) \in {1, 2}
               /\ \A i \in 1..Len(answer) :
                    answer[i].n = mine[a] /\ answer[i].part = i /\ answer[i].all = Len(answer)
    <3>1. answer \in Answers(r)
      BY <2>4, <2>6
    <3>2. /\ answer \in Seq(PieceSet) /\ Len(answer) \in 1..2
          /\ \A i \in 1..Len(answer) :
               answer[i].n = r.n /\ answer[i].part = i /\ answer[i].all = Len(answer)
      <4>1. r \in RequestSet
        BY <2>3
      <4>2. \A x \in Answers(r) :
              /\ x \in Seq(PieceSet)
              /\ Len(x) \in 1..2
              /\ \A i \in 1..Len(x) :
                   /\ x[i].n = r.n
                   /\ x[i].part = i
                   /\ x[i].all = Len(x)
        BY <4>1, AnswerIs, Zenon
      <4> QED
        BY <3>1, <4>2
    <3> QED
      BY <2>3, <3>2
  <2> QED
    BY <1>2, <2>5, <2>6
<1> QED
  BY <1>1, <1>2

LEMMA GotOwn ==
  ASSUME HelperInv, TurnInv, AnswerInv, NEW t \in Callers, pc[t] = "got"
  PROVE  LineOf(t) \in AnswersFor(t) /\ Decodes(LineOf(t)) /\ LineOf(t)[1].n = mine[t]
<1>1. t \in Receivers /\ t # "setup" /\ Engaged(t)
  BY CallersAssumption DEF Receivers, Engaged, Receiving
<1>2. lines[t] # <<>> /\ mine[t] # 0 /\ mine[t] \in Nat
  BY <1>1 DEF HelperInv, TypeOK, PlaceInv, GotLine, TurnInv, TurnOf, Engaged
<1>3. PICK answer \in AnswersFor(t) : lines[t] = <<answer>>
  BY <1>1, <1>2 DEF AnswerInv, AnswerOf, Taken
<1>4. LineOf(t) = answer
  BY <1>3 DEF LineOf
<1>5. /\ answer \in Seq(PieceSet) /\ Len(answer) \in {1, 2}
      /\ \A i \in 1..Len(answer) :
           answer[i].n = mine[t] /\ answer[i].part = i /\ answer[i].all = Len(answer)
  BY <1>1, <1>3, AnswersAre
<1>6. answer # <<>> /\ DOMAIN answer = 1..Len(answer) /\ 1 \in 1..Len(answer)
  <2>0. Len(answer) \in {1, 2}
    BY <1>5
  <2>1. 1 \in 1..Len(answer) /\ Len(answer) # 0
    BY <2>0
  <2>2. DOMAIN answer = 1..Len(answer)
    BY <1>5, LenProperties
  <2>3. Len(<<>>) = 0
    OBVIOUS
  <2> QED
    BY <2>1, <2>2, <2>3
<1>7. Decodes(answer)
  BY <1>2, <1>5, <1>6 DEF Decodes
<1> QED
  BY <1>3, <1>4, <1>5, <1>6, <1>7

-----------------------------------------------------------------------------
(* One request at a time. *)

LEMMA TurnStep == StepParts /\ inStep /\ inStep' /\ [Next]_vars => TurnInv'
<1> SUFFICES ASSUME StepParts, inStep, inStep', [Next]_vars PROVE TurnInv'
  OBVIOUS
<1> USE DEF StepParts
<1>p. pc \in [Actors -> Labels] /\ mine \in [Callers -> 0..MaxRequests]
  BY DEF HelperInv, TypeOK, Labels
<1>a. /\ Callers \subseteq Actors /\ "setup" \in Actors /\ "closer" \in Actors
      /\ "setup" \notin Callers /\ "closer" \notin Callers
  BY CallersAssumption DEF Actors
<1>i. /\ \A t, u \in Callers : pc[t] \in Receiving /\ pc[u] \in Receiving => t = u
      /\ \A t \in Callers : TurnOf(t)
      /\ ~outOfTurn
  BY DEF TurnInv
(* A step of a caller. *)
<1>c. ASSUME NEW t \in Callers, NEW label, Goto(t, label), TurnOf(t)',
             label \in Receiving => \A u \in Callers : u # t => pc[u] \notin Receiving,
             \A u \in Callers : u # t => mine'[u] = mine[u],
             UNCHANGED <<child, pipe>>, ~outOfTurn'
      PROVE  TurnInv'
  <2>1. pc'[t] = label /\ \A u \in Callers : u # t => pc'[u] = pc[u]
    BY <1>c, <1>p, <1>a DEF Goto
  <2>2. ASSUME NEW u \in Callers PROVE TurnOf(u)'
    BY <1>c, <1>i, <2>1 DEF TurnOf
  <2>3. \A r, u \in Callers : pc'[r] \in Receiving /\ pc'[u] \in Receiving => r = u
    BY <1>c, <1>i, <2>1
  <2> QED
    BY <1>c, <2>2, <2>3 DEF TurnInv
(* A step of another thread or of the helper. *)
<1>k. ASSUME \A t \in Callers : pc'[t] = pc[t], UNCHANGED <<mine, outOfTurn>>,
             child \in {"serving", "exited"} => child' \in {"serving", "exited"},
             child = "exited" => child' = "exited", pipe = "none" => pipe' = "none"
      PROVE  TurnInv'
  <2>1. ASSUME NEW u \in Callers PROVE TurnOf(u)'
    BY <1>k, <1>i, <2>1 DEF TurnOf
  <2> QED
    BY <1>k, <1>i, <2>1 DEF TurnInv
(* A step of setup(). *)
<1>s. ASSUME NEW label, Goto("setup", label), pc["setup"] # "over", UNCHANGED <<mine, outOfTurn>>
      PROVE  TurnInv'
  <2>1. \A u \in Callers : pc[u] = "idle" /\ pc'[u] = "idle" /\ mine'[u] = 0
    BY <1>s, <1>a, <1>p, <1>i DEF Goto, HelperInv, PlaceInv, CallerPlace, TurnOf, Receiving
  <2> QED
    BY <1>s, <1>i, <2>1 DEF TurnInv, TurnOf, Receiving
<1>1. ASSUME Setup PROVE TurnInv'
  <2>1. UNCHANGED <<mine, outOfTurn>>
    BY <1>1 DEF Setup, NothingStarted, FindExecutable, CreatePipe, SpawnFails, Spawn, DeliverToken,
                AwaitConnection, PeerVerified, HandshakeDone, StartTakenBack, locals, history
  <2>2. pc["setup"] # "over" /\ \E label : Goto("setup", label)
    BY <1>1 DEF Setup, NothingStarted, FindExecutable, CreatePipe, SpawnFails, Spawn, DeliverToken,
                AwaitConnection, PeerVerified, HandshakeDone, StartTakenBack, Step, SetupFails
  <2> QED
    BY <1>s, <2>1, <2>2
<1>2. ASSUME NEW a \in Receivers, Receive(a) PROVE TurnInv'
  <2>1. UNCHANGED <<mine, outOfTurn, child, pipe>>
    BY <1>2 DEF Receive, FeedRest, FeedChunk, TakeLine, ReadFile, ReadBroken, ReadTimesOut,
                locals, history, process, pipeVars
  <2>2. pc[a] \in {"scan", "wait", "take", "read"}
    BY <1>2 DEF Receive, FeedRest, FeedChunk, TakeLine, ReadFile, ReadBroken, ReadTimesOut
  <2>3. PICK label \in {"take", "read", "scan", "wait", "failed", "got"} : Goto(a, label)
    BY <1>2 DEF Receive, FeedRest, FeedChunk, TakeLine, ReadFile, ReadBroken, ReadTimesOut, Feed
  <2>4. CASE a = "setup"
    BY <1>s, <2>1, <2>2, <2>3, <2>4
  <2>5. ASSUME a \in Callers PROVE TurnInv'
    <3>1. pc'[a] = label
      BY <1>p, <1>a, <2>3, <2>5 DEF Goto
    <3>2. mine[a] # 0 /\ child \in {"serving", "exited"}
      BY <1>i, <2>2, <2>5 DEF TurnOf, Receiving
    <3>3. label = "failed" => child = "exited" \/ pipe = "none"
      <4>1. ASSUME label = "failed" PROVE ReadFile(a) \/ ReadBroken(a)
        BY <1>2, <3>1, <4>1, <2>5, <1>p, <1>a
           DEF Receive, FeedRest, FeedChunk, TakeLine, Feed, Goto, ReadTimesOut
      <4>2. ReadFile(a) /\ label = "failed" => child = "exited" \/ pipe = "none"
        <5>1. pipe \in {"none", "open"}
          BY DEF HelperInv, TypeOK
        <5>2. ReadFile(a) /\ label = "failed" => ~(pipe = "open" /\ (Connected \/ toClient # <<>>))
          BY <3>1, <2>5, <1>p, <1>a DEF ReadFile, Goto
        <5> QED
          BY <3>2, <5>1, <5>2 DEF Connected
      <4>3. ReadBroken(a) => child = "exited"
        <5>1. ASSUME ReadBroken(a), Connected PROVE FALSE
          <6>1. Awaited(a)
            BY <1>2, <5>1 DEF ReadBroken, ReadInv, ReadOf
          <6>2. Reading(a)
            <7> PICK r : r = [by |-> a, live |-> TRUE]
              OBVIOUS
            <7>1. 1 \in DOMAIN <<r>> /\ <<r>>[1] = r
              OBVIOUS
            <7> QED
              BY <6>1, <7>1 DEF Awaited, Reading
          <6> QED
            BY <5>1, <6>2 DEF ReadBroken
        <5> QED
          BY <3>2, <5>1 DEF Connected
      <4> QED
        BY <4>1, <4>2, <4>3
    <3>4. TurnOf(a)'
      BY <2>1, <2>3, <2>5, <3>1, <3>2, <3>3 DEF TurnOf, Receiving
    <3>5. \A u \in Callers : u # a => pc[u] \notin Receiving
      BY <1>i, <2>2, <2>5 DEF Receiving
    <3> QED
      BY <1>c, <1>i, <2>1, <2>3, <2>5, <3>4, <3>5
  <2> QED
    BY <2>4, <2>5 DEF Receivers
<1>3. ASSUME NEW t \in Callers, CheckState(t) \/ WriteFails(t) \/ DiscoverFills(t) \/ \E j : Ask(t, j) /\ Ready(t)
      PROVE  TurnInv'
  <2>1. UNCHANGED <<mine, outOfTurn, child, pipe>>
    BY <1>3 DEF CheckState, WriteFails, DiscoverFills, Ask, locals, history, process, pipeVars
  <2>2. pc[t] \in {"check", "write", "fill", "idle"}
    BY <1>3 DEF CheckState, WriteFails, DiscoverFills, Ask, Ready
  <2>3. PICK label \in {"write", "failed", "idle", "fill", "check"} : Goto(t, label)
    BY <1>3 DEF CheckState, WriteFails, DiscoverFills, Ask
  <2>4. mine[t] = 0
    BY <1>i, <2>2 DEF TurnOf, Receiving
  <2>5. TurnOf(t)'
    BY <1>p, <1>a, <2>1, <2>3, <2>4 DEF TurnOf, Goto, Receiving
  <2> QED
    BY <1>c, <1>i, <2>1, <2>3, <2>5 DEF Receiving
<1>4. ASSUME NEW t \in Callers, WriteFile(t) PROVE TurnInv'
  <2>1. /\ \A u \in Callers : pc[u] \notin Receiving
        /\ Goto(t, "scan") /\ state = "running" /\ Connected
        /\ mine' = [mine EXCEPT ![t] = sent'] /\ sent' = sent + 1
        /\ UNCHANGED <<child, pipe, outOfTurn>>
    BY <1>4 DEF WriteFile, UnderWay, Receiving, process
  <2>2. mine'[t] # 0 /\ \A u \in Callers : u # t => mine'[u] = mine[u]
    <3>1. sent \in Nat
      BY RequestsAssumption DEF HelperInv, TypeOK
    <3>2. sent' # 0
      BY <2>1, <3>1
    <3> QED
      BY <1>p, <2>1, <3>2
  <2>3. child = "serving"
    BY <2>1 DEF QuietInv, Connected
  <2>4. TurnOf(t)'
    BY <1>p, <1>a, <2>1, <2>2, <2>3 DEF TurnOf, Goto, Receiving
  <2> QED
    BY <1>c, <1>i, <2>1, <2>2, <2>4
<1>5. ASSUME NEW t \in Callers, NEW label \in {"idle", "fill"}, Leave(t, label), Deserved(t, TRUE),
             UNCHANGED <<child, pipe>>
      PROVE  TurnInv'
  <2>1. mine'[t] = 0 /\ \A u \in Callers : u # t => mine'[u] = mine[u]
    BY <1>p, <1>5 DEF Leave
  <2>2. Goto(t, label) /\ ~outOfTurn'
    BY <1>i, <1>5 DEF Leave, Deserved
  <2>3. TurnOf(t)'
    BY <1>p, <1>a, <1>5, <2>1, <2>2 DEF TurnOf, Goto, Receiving
  <2> QED
    BY <1>c, <1>5, <2>1, <2>2, <2>3 DEF Receiving
<1>6. ASSUME NEW t \in Callers, CallFails(t) PROVE TurnInv'
  <2>1. mine[t] = 0 \/ child = "exited" \/ pipe = "none"
    BY <1>6, <1>i DEF CallFails, TurnOf
  <2> QED
    BY <1>5, <1>6, <2>1 DEF CallFails, Deserved, pipeVars, process
<1>7. ASSUME NEW t \in Callers,
             Undecodable(t) \/ ReadReturns(t) \/ DiscoverRefused(t) \/ DiscoverResets(t)
      PROVE  TurnInv'
  <2>1. pc[t] = "got"
    BY <1>7 DEF Undecodable, ReadReturns, DiscoverRefused, DiscoverResets, Decoded
  <2>2. Decodes(LineOf(t)) /\ LineOf(t)[1].n = mine[t]
    BY <2>1, GotOwn
  <2>3. /\ Deserved(t, TRUE) /\ UNCHANGED <<child, pipe>>
        /\ \E label \in {"idle", "fill"} : Leave(t, label)
    BY <1>7, <2>2 DEF Undecodable, ReadReturns, DiscoverRefused, DiscoverResets, Deserved, pipeVars, process
  <2> QED
    BY <1>5, <2>3
<1>8. ASSUME Shutdown PROVE TurnInv'
  <2>1. UNCHANGED <<mine, outOfTurn>> /\ \E label : Goto("closer", label)
    BY <1>8 DEF Shutdown, ShutdownBegins, ShutdownWrites, ShutdownJoins, ShutdownCloses, Step, locals, history
  <2>2. \A t \in Callers : pc'[t] = pc[t]
    BY <1>a, <1>p, <2>1 DEF Goto
  <2>3. UNCHANGED child \/ child' = "exited"
    BY <1>8 DEF Shutdown, ShutdownBegins, ShutdownWrites, ShutdownJoins, ShutdownCloses, ChildGone, process
  <2>4. UNCHANGED pipe \/ pipe' = "none"
    BY <1>8 DEF Shutdown, ShutdownBegins, ShutdownWrites, ShutdownJoins, ShutdownCloses, pipeVars
  <2> QED
    BY <1>k, <2>1, <2>2, <2>3, <2>4
<1>9. ASSUME HelperProcess PROVE TurnInv'
  <2>1. UNCHANGED <<mine, outOfTurn, pc, pipe>>
    BY <1>9 DEF HelperProcess, HelperConnects, HelperSaysHello, HelperServes, HelperWrites, HelperExits,
                HelperOnly, client, history, pipeVars
  <2>2. \/ UNCHANGED child \/ child' = "exited"
        \/ child \in {"starting", "connected"}
    BY <1>9 DEF HelperProcess, HelperConnects, HelperSaysHello, HelperServes, HelperWrites, HelperExits,
                ChildGone
  <2> QED
    BY <1>k, <2>1, <2>2
<1>10. ASSUME UNCHANGED vars \/ \E t \in Callers : ThreadEnds(t) PROVE TurnInv'
  <2>1. UNCHANGED <<mine, outOfTurn, pc, pipe, child>>
    BY <1>10 DEF vars, pipeVars, client, process, history, ThreadEnds
  <2> QED
    BY <1>k, <2>1
<1> QED
  BY <1>1, <1>2, <1>3, <1>4, <1>6, <1>7, <1>8, <1>9, <1>10
     DEF Next, Receivers, Callers, Call, HelperDown, Discover, Read, ReadUnknown

-----------------------------------------------------------------------------
(* Silence. *)

LEMMA NoEnd == FirstEnd(<<>>) = 0
BY DEF FirstEnd

LEMMA QuietStep == StepParts /\ TurnInv' /\ inStep' /\ [Next]_vars => QuietInv'
<1> SUFFICES ASSUME StepParts, TurnInv', inStep', [Next]_vars PROVE QuietInv'
  OBVIOUS
<1> USE DEF StepParts
<1>p. /\ pc \in [Actors -> Labels] /\ chunk \in [Receivers -> Seq(PieceSet)]
      /\ lines \in [Receivers -> Seq(Seq(PieceSet))]
      /\ child \in {"none", "starting", "connected", "serving", "exited"}
  BY DEF HelperInv, TypeOK, Labels, Receivers
<1>a. /\ Callers \subseteq Actors /\ "setup" \in Actors /\ "closer" \in Actors
      /\ "setup" \notin Callers /\ "closer" \notin Callers /\ "setup" \in Receivers
      /\ Callers \subseteq Receivers
  BY CallersAssumption DEF Actors, Receivers
<1>i. SetupPlace /\ CloserPlace /\ \A t \in Callers : CallerPlace(t)
  BY DEF HelperInv, PlaceInv
<1>e. \A t \in Callers : pc[t] \in Receiving => pc["setup"] = "over" /\ child \in {"serving", "exited"}
  BY <1>i DEF CallerPlace, Receiving, TurnInv, TurnOf
<1>k. ASSUME UNCHANGED <<state, child, toHelper, toClient, writing, buffer, chunk, lines, pipe>>,
             pc'["setup"] = pc["setup"],
             \A t \in Callers : pc[t] \in Receiving => pc'[t] \in Receiving
      PROVE  QuietInv'
  BY <1>k DEF QuietInv
<1>1. ASSUME Setup PROVE QuietInv'
  <2>1. pc["setup"] # "over"
    BY <1>1 DEF Setup, NothingStarted, FindExecutable, CreatePipe, SpawnFails, Spawn, DeliverToken,
                AwaitConnection, PeerVerified, HandshakeDone, StartTakenBack, Step
  <2>2. /\ state = "not_running" /\ toHelper = <<>> /\ writing = <<>>
        /\ \A t \in Callers : pc[t] \notin Receiving
    BY <1>i, <1>e, <2>1 DEF SetupPlace, QuietInv
  <2>m. ASSUME NEW label, Goto("setup", label) PROVE pc'["setup"] = label
    BY <1>a, <1>p, <2>m DEF Goto
  <2>3. ASSUME NothingStarted \/ SpawnFails PROVE QuietInv'
    <3>1. child = "none" /\ pc'["setup"] = "over" /\ state' = "failed_to_start"
      BY <2>3, <2>m DEF NothingStarted, SpawnFails, SetupFails, OrphanInv
    <3>2. UNCHANGED <<child, toHelper, toClient, writing, buffer, chunk, lines>>
      BY <2>3 DEF NothingStarted, SpawnFails, pipeVars, process, locals
    <3> QED
      BY <2>2, <3>1, <3>2 DEF QuietInv, Receiving
  <2>4. ASSUME FindExecutable \/ CreatePipe \/ Spawn PROVE QuietInv'
    <3>1. UNCHANGED <<state, toHelper, toClient, writing, buffer, chunk, lines>>
      BY <2>4 DEF FindExecutable, CreatePipe, Spawn, pipeVars, process, locals
    <3>2. child = "none" /\ child' \in {"none", "starting"}
      BY <2>4 DEF FindExecutable, CreatePipe, Spawn, Step, process, OrphanInv
    <3>3. \/ pc'["setup"] = "pipe"
          \/ pc'["setup"] \in {"spawn", "token"} /\ pipe' = "open"
      BY <2>4, <2>m DEF FindExecutable, CreatePipe, Spawn, Step, pipeVars, QuietInv
    <3> QED
      BY <2>2, <3>1, <3>2, <3>3 DEF QuietInv, Receiving
  <2>5. ASSUME DeliverToken \/ AwaitConnection \/ PeerVerified PROVE QuietInv'
    <3>1. UNCHANGED <<state, child, toHelper, toClient, writing, buffer, chunk, lines, pipe>>
      BY <2>5 DEF DeliverToken, AwaitConnection, PeerVerified, pipeVars, process, locals
    <3>2. /\ pc["setup"] \in {"token", "connect", "connect_wait"}
          /\ pc'["setup"] \in {"connect", "connect_missed", "connect_wait", "scan"}
          /\ pc'["setup"] = "scan" => Connected
      BY <2>5, <2>m DEF DeliverToken, AwaitConnection, PeerVerified, Step
    <3> QED
      BY <2>2, <3>1, <3>2 DEF QuietInv, Receiving, Connected
  <2>6. ASSUME HandshakeDone PROVE QuietInv'
    <3>1. /\ UNCHANGED <<child, toHelper, toClient, writing, buffer, chunk, lines, pipe>>
          /\ pc["setup"] = "got" /\ pc'["setup"] = "over"
      BY <2>6, <2>m DEF HandshakeDone, pipeVars, process, locals
    <3>2. lines["setup"] # <<>>
      BY <2>6 DEF HandshakeDone
    <3>3. pipe = "open" /\ child \in {"serving", "exited"}
      BY <1>p, <3>1, <3>2 DEF QuietInv
    <3>4. Flow("setup") = <<>>
      BY <1>a, <3>1, <3>2 DEF AnswerInv, AnswerOf, Engaged, Taken, Alone
    <3>5. buffer = <<>> /\ toClient = <<>> /\ writing = <<>>
      BY <1>a, <3>4, FlowType DEF HelperInv
    <3> QED
      BY <2>2, <3>1, <3>3, <3>5 DEF QuietInv, Receiving
  <2>7. ASSUME StartTakenBack PROVE QuietInv'
    <3>1. /\ pc'["setup"] = "over" /\ child' = "exited" /\ toHelper' = <<>> /\ writing' = <<>>
          /\ state' = "failed_to_start"
      BY <2>7, <2>m DEF StartTakenBack, SetupFails, ChildGone
    <3> QED
      BY <3>1 DEF QuietInv, Receiving
  <2> QED
    BY <1>1, <2>3, <2>4, <2>5, <2>6, <2>7 DEF Setup
<1>2. ASSUME NEW a \in Receivers, Receive(a) PROVE QuietInv'
  <2>1. UNCHANGED <<state, child, toHelper, writing, pipe, mine>>
    BY <1>2 DEF Receive, FeedRest, FeedChunk, TakeLine, ReadFile, ReadBroken, ReadTimesOut,
                locals, process, pipeVars
  <2>2. pc[a] \in {"scan", "wait", "take", "read"} /\ pc[a] \in Receiving
    BY <1>2 DEF Receive, FeedRest, FeedChunk, TakeLine, ReadFile, ReadBroken, ReadTimesOut, Receiving
  <2>3. PICK label \in {"take", "read", "scan", "wait", "failed", "got"} : Goto(a, label)
    BY <1>2 DEF Receive, FeedRest, FeedChunk, TakeLine, ReadFile, ReadBroken, ReadTimesOut, Feed
  <2>4. pc'[a] = label /\ \A b \in Actors : b # a => pc'[b] = pc[b]
    BY <1>p, <1>a, <2>3 DEF Goto, Receivers
  (* The helper has said nothing, and that is what was read. *)
  <2>5. ASSUME child \in {"none", "starting", "connected"}
        PROVE  /\ toClient' = <<>> /\ buffer' = <<>> /\ lines'["setup"] = <<>>
               /\ \A b \in Receivers : chunk'[b] = <<>>
    <3>1. /\ toClient = <<>> /\ buffer = <<>> /\ lines["setup"] = <<>>
          /\ \A b \in Receivers : chunk[b] = <<>>
      BY <2>5 DEF QuietInv
    <3>2. ~TakeLine(a) /\ ~FeedChunk(a)
      BY <1>2, <2>2, <3>1, NoEnd DEF TakeLine, FeedChunk, ReadInv, ReadOf
    <3>3. FeedRest(a) => /\ UNCHANGED <<toClient, chunk>> /\ buffer' = <<>>
                         /\ lines' = [lines EXCEPT ![a] = <<>>]
      BY <3>1 DEF FeedRest, Feed
    <3>4. ReadFile(a) => UNCHANGED <<toClient, chunk, buffer, lines>>
      BY <3>1 DEF ReadFile, IssueRead, locals
    <3>5. ReadBroken(a) \/ ReadTimesOut(a) => UNCHANGED <<toClient, chunk, buffer, lines>>
      BY DEF ReadBroken, ReadTimesOut, locals, pipeVars
    <3> QED
      BY <1>2, <1>a, <1>p, <3>1, <3>2, <3>3, <3>4, <3>5 DEF Receive
  <2>6. ASSUME state = "running", child = "serving" PROVE \E t \in Callers : pc'[t] \in Receiving
    <3>1. a \in Callers /\ pipe = "open"
      BY <1>i, <2>2, <2>6 DEF SetupPlace, QuietInv, Receivers
    <3>2. mine'[a] # 0
      BY <2>1, <2>2, <3>1 DEF TurnInv, TurnOf, Receiving
    <3>3. label # "failed"
      BY <2>1, <2>4, <2>6, <3>1, <3>2 DEF TurnInv, TurnOf
    <3> QED
      BY <2>3, <2>4, <3>1, <3>3 DEF Receiving
  <2>7. CASE a = "setup"
    <3>1. pc["setup"] # "over" /\ pc["setup"] \in Receiving /\ pc'["setup"] = label /\ label # "over"
      BY <2>2, <2>3, <2>4, <2>7
    <3>2. state' # "running"
      BY <1>i, <2>1, <3>1 DEF SetupPlace
    <3> QED
      BY <2>1, <2>3, <2>5, <3>1, <3>2 DEF QuietInv, Receiving
  <2>8. CASE a # "setup"
    <3>1. pc'["setup"] = pc["setup"]
      BY <1>a, <2>4, <2>8
    <3> QED
      BY <2>1, <2>5, <2>6, <3>1 DEF QuietInv
  <2> QED
    BY <2>7, <2>8
<1>3. ASSUME NEW t \in Callers,
             \/ CheckState(t) \/ WriteFails(t) \/ DiscoverFills(t) \/ CallFails(t)
             \/ \E j : Ask(t, j) /\ Ready(t)
      PROVE  QuietInv'
  <2>1. UNCHANGED <<state, child, toHelper, toClient, writing, buffer, chunk, pipe>>
    BY <1>3 DEF CheckState, WriteFails, DiscoverFills, CallFails, Ask, pipeVars, process
  <2>2. pc[t] \notin Receiving /\ \E label : Goto(t, label)
    BY <1>3 DEF CheckState, WriteFails, DiscoverFills, CallFails, Ask, Ready, Leave, Receiving
  <2>3. pc'["setup"] = pc["setup"]
        /\ \A u \in Callers : pc[u] \in Receiving => pc'[u] \in Receiving
    BY <1>a, <1>p, <2>2 DEF Goto
  <2>4. lines'["setup"] = lines["setup"]
    BY <1>3, <1>a, <1>p DEF CheckState, WriteFails, DiscoverFills, CallFails, Ask, Leave, locals
  <2> QED
    BY <2>1, <2>3, <2>4 DEF QuietInv
<1>4. ASSUME NEW t \in Callers, WriteFile(t) PROVE QuietInv'
  <2>1. /\ Goto(t, "scan") /\ state = "running" /\ Connected /\ sent < MaxRequests
        /\ sent' = sent + 1 /\ toHelper' = Append(toHelper, [n |-> sent', job |-> job[t]])
        /\ UNCHANGED <<state, child, toClient, writing, buffer, chunk, lines, pipe>>
    BY <1>4 DEF WriteFile, process
  <2>2. child = "serving" /\ pc["setup"] = "over" /\ pipe = "open"
    BY <1>i, <2>1 DEF QuietInv, SetupPlace, Connected
  <2>3. pc'["setup"] = "over" /\ pc'[t] \in Receiving
    BY <1>a, <1>p, <2>1, <2>2 DEF Goto, Receiving
  <2>4. \A i \in DOMAIN toHelper' : toHelper'[i].n # Unasked
    <3>1. sent' # Unasked
      BY <2>1, RequestsAssumption DEF HelperInv, TypeOK, Unasked
    <3>2. toHelper \in Seq(RequestSet) /\ \A i \in DOMAIN toHelper : toHelper[i].n # Unasked
      BY <2>1 DEF HelperInv, TypeOK, QuietInv
    <3> PICK new : new = [n |-> sent', job |-> job[t]]
      OBVIOUS
    <3>3. new.n # Unasked /\ toHelper' = Append(toHelper, new)
      BY <2>1, <3>1
    <3> QED
      BY <3>2, <3>3
  <2> QED
    BY <2>1, <2>2, <2>3, <2>4 DEF QuietInv, Receiving
(* A line was taken: while the client is running nothing is left of it.    *)
<1>5. ASSUME NEW t \in Callers, NEW label \in {"idle", "fill"}, Leave(t, label), pc[t] = "got",
             UNCHANGED <<pipeVars, state, process>>
      PROVE  QuietInv'
  <2>1. UNCHANGED <<state, child, toHelper, toClient, writing, buffer, chunk, pipe>>
    BY <1>5 DEF pipeVars, process
  <2>2. pc'["setup"] = pc["setup"] /\ lines'["setup"] = lines["setup"]
    BY <1>a, <1>p, <1>5 DEF Leave, Goto
  <2>3. ASSUME state = "running", child = "serving"
        PROVE  toHelper = <<>> /\ buffer = <<>> /\ toClient = <<>> /\ writing = <<>>
    <3>1. t # "setup" /\ Engaged(t) /\ lines[t] # <<>>
      BY <1>a, <1>5 DEF Engaged, Receiving, HelperInv, PlaceInv, GotLine
    <3>2. Flow(t) = <<>> /\ OnlyShutdown(1)
      BY <1>a, <2>3, <3>1 DEF AnswerInv, AnswerOf, Taken, Alone
    <3>3. buffer = <<>> /\ toClient = <<>> /\ writing = <<>>
      BY <1>a, <3>2, FlowType DEF HelperInv
    <3>4. toHelper \in Seq(RequestSet) /\ \A i \in DOMAIN toHelper : toHelper[i].n # Unasked
      BY <2>3 DEF HelperInv, TypeOK, QuietInv
    <3>5. Len(toHelper) = 0
      BY <3>2, <3>4 DEF OnlyShutdown
    <3> QED
      BY <3>3, <3>4, <3>5
  <2> QED
    BY <2>1, <2>2, <2>3 DEF QuietInv
<1>6. ASSUME NEW t \in Callers,
             Undecodable(t) \/ ReadReturns(t) \/ DiscoverRefused(t) \/ DiscoverResets(t)
      PROVE  QuietInv'
  <2>1. /\ pc[t] = "got" /\ UNCHANGED <<pipeVars, state, process>>
        /\ \E label \in {"idle", "fill"} : Leave(t, label)
    BY <1>6 DEF Undecodable, ReadReturns, DiscoverRefused, DiscoverResets, Decoded
  <2> QED
    BY <1>5, <2>1
<1>7. ASSUME Shutdown PROVE QuietInv'
  <2>1. /\ UNCHANGED <<buffer, chunk, lines>> /\ \E label : Goto("closer", label)
        /\ UNCHANGED <<toClient, pipe>> \/ (toClient' = <<>> /\ pipe' = "none")
    BY <1>7 DEF Shutdown, ShutdownBegins, ShutdownWrites, ShutdownJoins, ShutdownCloses, Step, locals, pipeVars
  <2>2. pc'["setup"] = pc["setup"]
    BY <1>a, <1>p, <2>1 DEF Goto
  <2>3. pc["setup"] = "over" /\ state' # "running"
    BY <1>7, <1>i DEF Shutdown, ShutdownBegins, ShutdownWrites, ShutdownJoins, ShutdownCloses, Step, CloserPlace
  <2>4. child \notin {"starting", "connected"}
    BY <2>3 DEF QuietInv
  <2>5. \/ UNCHANGED <<child, writing>> /\ (toHelper' = toHelper \/ Connected)
        \/ child' = "exited" /\ writing' = <<>> /\ toHelper' = <<>>
    BY <1>7 DEF Shutdown, ShutdownBegins, ShutdownWrites, ShutdownJoins, ShutdownCloses, ChildGone,
                process, pipeVars
  <2>6. CASE child' = "exited" /\ writing' = <<>> /\ toHelper' = <<>>
    BY <2>2, <2>3, <2>6 DEF QuietInv, Receiving
  <2>7. CASE UNCHANGED <<child, writing>> /\ (toHelper' = toHelper \/ Connected)
    <3>1. child # "serving" => toHelper' = <<>> /\ writing' = <<>>
      BY <2>4, <2>7 DEF QuietInv, Connected
    <3>2. child = "none" => toClient' = <<>>
      BY <2>1 DEF QuietInv
    <3> QED
      BY <1>p, <2>1, <2>2, <2>3, <2>4, <2>7, <3>1, <3>2 DEF QuietInv, Receiving
  <2> QED
    BY <2>5, <2>6, <2>7
<1>8. ASSUME HelperProcess PROVE QuietInv'
  <2>1. UNCHANGED <<pc, state, lines, buffer, pipe>>
    BY <1>8 DEF HelperProcess, HelperConnects, HelperSaysHello, HelperServes, HelperWrites, HelperExits,
                HelperOnly, client, pipeVars
  <2>2. ASSUME HelperConnects PROVE QuietInv'
    <3>1. child = "starting" /\ child' = "connected" /\ UNCHANGED <<toHelper, toClient, chunk, writing>>
      BY <2>2 DEF HelperConnects, pipeVars
    <3> QED
      BY <2>1, <3>1 DEF QuietInv
  <2>3. ASSUME HelperSaysHello PROVE QuietInv'
    <3>1. child = "connected" /\ child' = "serving" /\ UNCHANGED <<toHelper, writing>>
      BY <2>3 DEF HelperSaysHello
    <3> QED
      BY <2>1, <3>1 DEF QuietInv
  <2>4. ASSUME HelperServes PROVE QuietInv'
    <3>1. child = "serving" /\ child' = child /\ toHelper # <<>> /\ toHelper' = Tail(toHelper)
      BY <2>4 DEF HelperServes
    <3>2. pc["setup"] = "over"
      BY <3>1 DEF QuietInv
    <3>3. ASSUME state = "running" PROVE \A i \in DOMAIN toHelper' : toHelper'[i].n # Unasked
      <4>1. toHelper \in Seq(RequestSet) /\ \A i \in DOMAIN toHelper : toHelper[i].n # Unasked
        BY <3>3 DEF HelperInv, TypeOK, QuietInv
      <4> QED
        BY <3>1, <4>1
    <3> QED
      BY <2>1, <3>1, <3>2, <3>3 DEF QuietInv, Receiving
  <2>5. ASSUME HelperWrites PROVE QuietInv'
    <3>1. writing # <<>> /\ UNCHANGED <<child, toHelper>>
      BY <2>5 DEF HelperWrites
    <3>2. child = "serving" /\ pc["setup"] = "over"
      BY <3>1 DEF QuietInv
    <3> QED
      BY <2>1, <3>1, <3>2 DEF QuietInv, Receiving
  <2>6. ASSUME HelperExits PROVE QuietInv'
    <3>1. child' = "exited" /\ toHelper' = <<>> /\ writing' = <<>>
      BY <2>6 DEF HelperExits, ChildGone
    <3> QED
      BY <2>1, <3>1 DEF QuietInv
  <2> QED
    BY <1>8, <2>2, <2>3, <2>4, <2>5, <2>6 DEF HelperProcess
<1>9. ASSUME UNCHANGED vars \/ \E t \in Callers : ThreadEnds(t) PROVE QuietInv'
  BY <1>9, <1>k DEF vars, pipeVars, client, process, ThreadEnds
<1> QED
  BY <1>1, <1>2, <1>3, <1>4, <1>6, <1>7, <1>8, <1>9
     DEF Next, Receivers, Callers, Call, HelperDown, Discover, Read, ReadUnknown

-----------------------------------------------------------------------------
(* The framer and its reads. *)

(* One thread is between the request and its line. *)
LEMMA OneReceiver ==
  ASSUME HelperInv, TurnInv
  PROVE  \A a, b \in Receivers : pc[a] \in Receiving /\ pc[b] \in Receiving => a = b
<1>1. \A t \in Callers : pc[t] \in Receiving => pc["setup"] = "over"
  BY DEF HelperInv, PlaceInv, CallerPlace, Receiving
<1>2. \A t, u \in Callers : pc[t] \in Receiving /\ pc[u] \in Receiving => t = u
  BY DEF TurnInv
<1> QED
  BY <1>1, <1>2 DEF Receivers, Receiving

LEMMA AwaitedIs ==
  ASSUME NEW a, Awaited(a)
  PROVE  /\ Head(pending).by = a /\ Head(pending).live = TRUE /\ Tail(pending) = <<>>
         /\ pending # <<>> /\ DOMAIN pending = {1}
         /\ pending[1] = [by |-> a, live |-> TRUE] /\ pending[1].by = a
<1> PICK r : r = [by |-> a, live |-> TRUE]
  OBVIOUS
<1>1. Head(<<r>>) = r /\ Tail(<<r>>) = <<>> /\ <<r>> # <<>> /\ DOMAIN <<r>> = {1} /\ <<r>>[1] = r
  OBVIOUS
<1>2. pending = <<r>> /\ r.by = a /\ r.live = TRUE
  BY DEF Awaited
<1>3. Head(pending) = r /\ Tail(pending) = <<>> /\ pending # <<>> /\ DOMAIN pending = {1} /\ pending[1] = r
  BY <1>1, <1>2
<1> QED
  BY <1>2, <1>3

LEMMA ReadStep == StepParts /\ inStep' /\ [Next]_vars => ReadInv'
<1> SUFFICES ASSUME StepParts, inStep', [Next]_vars PROVE ReadInv'
  OBVIOUS
<1> USE DEF StepParts
<1>p. /\ pc \in [Actors -> Labels] /\ chunk \in [Receivers -> Seq(PieceSet)]
      /\ lines \in [Receivers -> Seq(Seq(PieceSet))] /\ at \in [Receivers -> Nat]
      /\ child \in {"none", "starting", "connected", "serving", "exited"}
  BY DEF HelperInv, TypeOK, Labels, Receivers
<1>a. /\ Callers \subseteq Actors /\ "setup" \in Actors /\ "closer" \in Actors
      /\ "setup" \notin Callers /\ "closer" \notin Receivers /\ "setup" \in Receivers
      /\ Callers \subseteq Receivers /\ Receivers \subseteq Actors
  BY CallersAssumption DEF Actors, Receivers
<1>i. \A a \in Receivers : ReadOf(a)
  BY DEF ReadInv
<1>w. pending # <<>> => toClient = <<>> /\ \E a \in Receivers : Awaited(a)
  BY DEF ReadInv
<1>o. \A a, b \in Receivers : pc[a] \in Receiving /\ pc[b] \in Receiving => a = b
  BY OneReceiver
(* No thread begins or ends a read. *)
<1>k. ASSUME UNCHANGED <<buffer, chunk>>,
             \/ pending' = <<>> /\ ~Connected'
             \/ /\ UNCHANGED <<pending, toClient>>
                /\ Connected' => Connected \/ \A a \in Receivers : pc[a] # "wait",
             \A a \in Receivers :
               \/ pc'[a] = pc[a] /\ lines'[a] = lines[a] /\ at'[a] = at[a]
               \/ /\ pc[a] # "wait" /\ pc'[a] \notin {"read", "wait", "take"}
                  /\ lines'[a] = <<>> \/ pc'[a] \in {"got", "over"}
      PROVE  ReadInv'
  <2>1. ASSUME NEW a \in Receivers PROVE ReadOf(a)'
    <3>1. ReadOf(a)
      BY <1>i
    <3>2. \/ pc'[a] = pc[a] /\ lines'[a] = lines[a] /\ at'[a] = at[a]
          \/ /\ pc[a] # "wait" /\ pc'[a] \notin {"read", "wait", "take"}
             /\ lines'[a] = <<>> \/ pc'[a] \in {"got", "over"}
      BY <1>k
    <3>3. pc'[a] # "wait" => chunk'[a] = <<>>
      BY <1>k, <3>1, <3>2 DEF ReadOf
    <3>4. lines'[a] # <<>> => pc'[a] \in {"take", "got", "over"}
      BY <3>1, <3>2 DEF ReadOf
    <3>5. /\ pc'[a] \in {"read", "wait"} => FirstEnd(buffer') = 0
          /\ pc'[a] = "take" => at'[a] = FirstEnd(buffer') /\ at'[a] # 0
      BY <1>k, <3>1, <3>2 DEF ReadOf
    <3>6. pc'[a] = "wait" /\ chunk'[a] = <<>> /\ Connected' => Awaited(a)'
      BY <1>k, <3>1, <3>2 DEF ReadOf, Awaited
    <3> QED
      BY <3>3, <3>4, <3>5, <3>6 DEF ReadOf
  <2>2. pending' # <<>> => toClient' = <<>> /\ \E a \in Receivers : Awaited(a)'
    <3>1. ASSUME pending' # <<>> PROVE toClient' = <<>> /\ \E a \in Receivers : Awaited(a)'
      <4>1. UNCHANGED <<pending, toClient>>
        BY <1>k, <3>1
      <4>2. PICK a \in Receivers : Awaited(a)
        BY <1>w, <3>1, <4>1
      <4>3. pc'[a] = pc[a]
        BY <1>k, <4>2 DEF Awaited
      <4> QED
        BY <1>k, <1>w, <3>1, <4>1, <4>2, <4>3 DEF Awaited
    <3> QED
      BY <3>1
  <2> QED
    BY <2>1, <2>2 DEF ReadInv
<1>n. \A a \in Receivers : pc[a] \notin {"take", "got", "over"} => lines[a] = <<>>
  BY <1>i DEF ReadOf
<1>1. ASSUME Setup PROVE ReadInv'
  <2>1. UNCHANGED <<buffer, chunk, lines, at>>
    BY <1>1 DEF Setup, NothingStarted, FindExecutable, CreatePipe, SpawnFails, Spawn, DeliverToken,
                AwaitConnection, PeerVerified, HandshakeDone, StartTakenBack, locals, pipeVars
  <2>2. /\ pc["setup"] \notin {"over", "take", "wait"}
        /\ pc["setup"] = "got" => Goto("setup", "over")
        /\ \E label : Goto("setup", label) /\ label \notin {"read", "wait", "take"}
    BY <1>1 DEF Setup, NothingStarted, FindExecutable, CreatePipe, SpawnFails, Spawn, DeliverToken,
                AwaitConnection, PeerVerified, HandshakeDone, StartTakenBack, Step, SetupFails
  <2>3. \/ pending' = <<>> /\ ~Connected'
        \/ UNCHANGED <<pending, toClient>> /\ (Connected' => Connected)
    BY <1>1 DEF Setup, NothingStarted, FindExecutable, CreatePipe, SpawnFails, Spawn, DeliverToken,
                AwaitConnection, PeerVerified, HandshakeDone, StartTakenBack, ChildGone, Connected,
                pipeVars, process
  <2>4. \A a \in Receivers : a # "setup" => pc'[a] = pc[a]
    BY <1>a, <1>p, <2>2 DEF Goto
  <2>5. /\ pc'["setup"] \notin {"read", "wait", "take"}
        /\ lines["setup"] = <<>> \/ pc'["setup"] = "over"
    BY <1>a, <1>p, <1>n, <2>2 DEF Goto
  <2> QED
    BY <1>k, <2>1, <2>2, <2>3, <2>4, <2>5
<1>3. ASSUME NEW t \in Callers,
             \/ CheckState(t) \/ WriteFails(t) \/ DiscoverFills(t) \/ WriteFile(t)
             \/ \E j : Ask(t, j) /\ Ready(t)
      PROVE  ReadInv'
  <2>1. UNCHANGED <<buffer, chunk, lines, at, pending, toClient, child>>
    BY <1>3 DEF CheckState, WriteFails, DiscoverFills, WriteFile, Ask, pipeVars, process, locals
  <2>l. PICK label \in {"write", "failed", "idle", "fill", "check", "scan"} : Goto(t, label)
    BY <1>3 DEF CheckState, WriteFails, DiscoverFills, WriteFile, Ask
  <2>2. /\ pc[t] \in {"check", "write", "fill", "idle"}
        /\ \E target : Goto(t, target) /\ target \notin {"read", "wait", "take"}
    <3>1. pc[t] \in {"check", "write", "fill", "idle"}
      BY <1>3 DEF CheckState, WriteFails, DiscoverFills, WriteFile, Ask, Ready
    <3> QED
      BY <2>l, <3>1
  <2>3. \A a \in Receivers : a # t => pc'[a] = pc[a]
    BY <1>a, <1>p, <2>2 DEF Goto
  <2>4. pc'[t] \notin {"read", "wait", "take"} /\ lines[t] = <<>>
    BY <1>a, <1>p, <1>n, <2>2 DEF Goto
  <2> QED
    BY <1>k, <2>1, <2>2, <2>3, <2>4 DEF Connected
<1>4. ASSUME NEW t \in Callers,
             CallFails(t) \/ Undecodable(t) \/ ReadReturns(t) \/ DiscoverRefused(t) \/ DiscoverResets(t)
      PROVE  ReadInv'
  <2>1. UNCHANGED <<buffer, chunk, pending, toClient, child>> /\ pc[t] # "wait"
    BY <1>4 DEF CallFails, Undecodable, ReadReturns, DiscoverRefused, DiscoverResets, Decoded, pipeVars, process
  <2>2. PICK label \in {"idle", "fill"} : Leave(t, label)
    BY <1>4 DEF CallFails, Undecodable, ReadReturns, DiscoverRefused, DiscoverResets
  <2>3. /\ pc'[t] = label /\ lines'[t] = <<>>
        /\ \A a \in Receivers : a # t => pc'[a] = pc[a] /\ lines'[a] = lines[a] /\ at'[a] = at[a]
    BY <1>a, <1>p, <2>2 DEF Leave, Goto
  <2> QED
    BY <1>k, <2>1, <2>3 DEF Connected
<1>5. ASSUME Shutdown PROVE ReadInv'
  <2>1. UNCHANGED <<buffer, chunk, lines, at>> /\ \E label : Goto("closer", label)
    BY <1>5 DEF Shutdown, ShutdownBegins, ShutdownWrites, ShutdownJoins, ShutdownCloses, Step, locals, pipeVars
  <2>2. \A a \in Receivers : pc'[a] = pc[a]
    BY <1>a, <1>p, <2>1 DEF Goto
  <2>3. ShutdownCloses => ~Connected
    BY DEF ShutdownCloses, Step, OrphanInv, Connected
  <2>4. \/ pending' = <<>> /\ ~Connected'
        \/ UNCHANGED <<pending, toClient, child>>
    BY <1>5, <2>3 DEF Shutdown, ShutdownBegins, ShutdownWrites, ShutdownJoins, ShutdownCloses, ChildGone,
                      process, pipeVars, Connected
  <2> QED
    BY <1>k, <2>1, <2>2, <2>4 DEF Connected
<1>6. ASSUME HelperConnects \/ HelperExits PROVE ReadInv'
  <2>1. UNCHANGED <<pc, lines, at, buffer, chunk, toClient>>
    BY <1>6 DEF HelperConnects, HelperExits, HelperOnly, client, pipeVars
  <2>2. HelperExits => pending' = <<>> /\ ~Connected'
    BY DEF HelperExits, ChildGone, Connected
  <2>3. HelperConnects => UNCHANGED pending /\ \A a \in Receivers : pc[a] # "wait"
    BY DEF HelperConnects, pipeVars, QuietInv, TurnInv, TurnOf, Receivers, Receiving
  <2> QED
    BY <1>k, <1>6, <2>1, <2>2, <2>3
(* The read loop of one thread. *)
<1>2. ASSUME NEW a \in Receivers, Receive(a) PROVE ReadInv'
  <2>1. UNCHANGED <<child, pipe>> /\ pc[a] \in {"scan", "wait", "take", "read"} /\ pc[a] \in Receiving
    BY <1>2 DEF Receive, FeedRest, FeedChunk, TakeLine, ReadFile, ReadBroken, ReadTimesOut,
                process, pipeVars, Receiving
  <2>2. ASSUME NEW label, Goto(a, label)
        PROVE  pc'[a] = label /\ \A b \in Receivers : b # a => pc'[b] = pc[b]
    BY <1>a, <1>p, <2>2 DEF Goto
  <2>3. \A b \in Receivers : b # a => pc[b] \notin {"scan", "read", "wait", "take", "got"}
    BY <1>o, <2>1 DEF Receiving
  <2>4. pending # <<>> => Awaited(a)
    BY <1>w, <2>3 DEF Awaited
  (* The others neither read nor wait. *)
  <2>k. ASSUME NEW b \in Receivers, b # a, pc'[b] = pc[b], chunk'[b] = chunk[b], lines'[b] = lines[b]
        PROVE  ReadOf(b)'
    <3>1. chunk[b] = <<>> /\ pc[b] \notin {"read", "wait", "take"}
      BY <1>i, <2>3, <2>k DEF ReadOf
    <3>2. lines[b] # <<>> => pc[b] \in {"take", "got", "over"}
      BY <1>i, <2>k DEF ReadOf
    <3> QED
      BY <2>k, <3>1, <3>2 DEF ReadOf
  (* A feed. *)
  <2>f. ASSUME NEW data \in Seq(PieceSet), Feed(a, data), UNCHANGED <<toClient, pending>>,
               pending = <<>>, data = <<>> => pc[a] = "scan",
               chunk'[a] = <<>>, \A b \in Receivers : b # a => chunk'[b] = chunk[b]
        PROVE  ReadInv'
    <3> PICK b, end : b = buffer \o data /\ end = FirstEnd(b)
      OBVIOUS
    <3>1. /\ buffer' = b /\ at' = [at EXCEPT ![a] = end] /\ lines' = [lines EXCEPT ![a] = <<>>]
          /\ Goto(a, IF end > 0 THEN "take" ELSE IF data = <<>> THEN "read" ELSE "scan")
      BY <2>f DEF Feed
    <3>2. end \in Nat
      <4>1. b \in Seq(PieceSet)
        BY <2>f DEF HelperInv, TypeOK
      <4>2. Len(b) \in Nat
        BY <4>1
      <4>3. end \in 0..Len(b)
        <5>1. FirstEnd(b) \in 0..Len(b)
          BY <4>1, FirstEndIs
        <5> QED
          BY <5>1
      <4> QED
        BY <4>2, <4>3
    <3>3. /\ pc'[a] \in {"take", "read", "scan"}
          /\ pc'[a] = "take" => end # 0
          /\ pc'[a] = "read" => end = 0
      BY <2>2, <3>1, <3>2
    <3>4. lines'[a] = <<>> /\ at'[a] = end /\ \A c \in Receivers : c # a => lines'[c] = lines[c]
      BY <1>p, <3>1
    <3>5. ReadOf(a)'
      BY <2>f, <3>1, <3>3, <3>4 DEF ReadOf
    <3>6. \A c \in Receivers : c # a => ReadOf(c)'
      BY <2>2, <2>k, <2>f, <3>1, <3>4
    <3> QED
      BY <2>f, <3>5, <3>6 DEF ReadInv
  <2>5. ASSUME FeedRest(a) PROVE ReadInv'
    <3>1. chunk[a] = <<>> /\ pending = <<>>
      BY <1>i, <2>4, <2>5 DEF FeedRest, ReadOf, Awaited
    <3>2. <<>> \in Seq(PieceSet)
      OBVIOUS
    <3> QED
      BY <2>5, <2>f, <3>1, <3>2 DEF FeedRest
  <2>6. ASSUME FeedChunk(a) PROVE ReadInv'
    <3>1. chunk[a] # <<>> /\ pending = <<>> /\ chunk[a] \in Seq(PieceSet)
      BY <1>p, <2>4, <2>6 DEF FeedChunk, Awaited
    <3>2. chunk'[a] = <<>> /\ \A b \in Receivers : b # a => chunk'[b] = chunk[b]
      BY <1>p, <2>6 DEF FeedChunk
    <3> QED
      BY <2>6, <2>f, <3>1, <3>2 DEF FeedChunk
  <2>7. ASSUME TakeLine(a) PROVE ReadInv'
    <3> PICK rest, end, cut : rest = After(buffer, at[a]) /\ end = FirstEnd(rest) /\ cut = UpTo(buffer, at[a])
      OBVIOUS
    <3>1. /\ pc[a] = "take" /\ buffer' = rest /\ at' = [at EXCEPT ![a] = end]
          /\ lines' = [lines EXCEPT ![a] = IF @ = <<>> THEN <<cut>> ELSE @]
          /\ Goto(a, IF end > 0 THEN "take" ELSE "got")
          /\ UNCHANGED <<toClient, pending, chunk>>
      BY <2>7 DEF TakeLine
    <3>2. end \in Nat
      <4>1. at[a] \in Nat /\ buffer \in Seq(PieceSet)
        BY <1>p DEF HelperInv, TypeOK
      <4>2. rest \in Seq(PieceSet)
        BY <4>1, CutIs
      <4>3. Len(rest) \in Nat /\ end \in 0..Len(rest)
        BY <4>2, FirstEndIs
      <4> QED
        BY <4>3
    <3>3. pc'[a] \in {"take", "got"} /\ (pc'[a] = "take" => end # 0)
      BY <2>2, <3>1, <3>2
    <3>4. chunk[a] = <<>> /\ pending = <<>>
      BY <1>i, <2>4, <3>1 DEF ReadOf, Awaited
    <3>5. ReadOf(a)'
      BY <1>p, <3>1, <3>3, <3>4 DEF ReadOf
    <3>6. \A c \in Receivers : c # a => lines'[c] = lines[c] /\ pc'[c] = pc[c]
      BY <1>p, <2>2, <3>1
    <3>7. \A c \in Receivers : c # a => ReadOf(c)'
      BY <2>k, <3>1, <3>6
    <3> QED
      BY <3>1, <3>4, <3>5, <3>7 DEF ReadInv
  <2>8. ASSUME ReadFile(a) PROVE ReadInv'
    <3>1. /\ pc[a] = "read" /\ chunk[a] = <<>> /\ pending = <<>> /\ FirstEnd(buffer) = 0 /\ lines[a] = <<>>
      BY <1>i, <2>4, <2>8 DEF ReadFile, ReadOf, Awaited
    <3>2. UNCHANGED <<buffer, lines, at>>
      BY <2>8 DEF ReadFile, locals
    <3>3. CASE pipe = "open" /\ (Connected \/ toClient # <<>>)
      <4>1. Goto(a, "wait") /\ IssueRead(a)
        BY <2>8, <3>3 DEF ReadFile
      <4>2. pc'[a] = "wait" /\ \A b \in Receivers : b # a => pc'[b] = pc[b]
        BY <2>2, <4>1
      <4>3. CASE toClient # <<>>
        <5>1. chunk' = [chunk EXCEPT ![a] = toClient] /\ pending' = <<>>
          BY <3>1, <4>1, <4>3 DEF IssueRead
        <5>2. chunk'[a] # <<>> /\ \A b \in Receivers : b # a => chunk'[b] = chunk[b]
          BY <1>p, <4>3, <5>1
        <5>3. ReadOf(a)'
          BY <3>1, <3>2, <4>2, <5>2 DEF ReadOf
        <5>4. \A c \in Receivers : c # a => ReadOf(c)'
          BY <2>k, <3>2, <4>2, <5>2
        <5> QED
          BY <5>1, <5>3, <5>4 DEF ReadInv
      <4>4. CASE toClient = <<>>
        <5> PICK r : r = [by |-> a, live |-> TRUE]
          OBVIOUS
        <5>1. pending' = Append(pending, r) /\ UNCHANGED <<chunk, toClient>>
          BY <4>1, <4>4 DEF IssueRead
        <5>2. pending' = <<r>>
          BY <3>1, <5>1
        <5>3. Awaited(a)'
          BY <3>1, <4>2, <5>1, <5>2 DEF Awaited
        <5>4. ReadOf(a)'
          BY <3>1, <3>2, <4>2, <5>1, <5>3 DEF ReadOf
        <5>5. \A c \in Receivers : c # a => ReadOf(c)'
          BY <2>k, <3>2, <4>2, <5>1
        <5> QED
          BY <4>4, <5>1, <5>3, <5>4, <5>5 DEF ReadInv
      <4> QED
        BY <4>3, <4>4
    <3>4. CASE ~(pipe = "open" /\ (Connected \/ toClient # <<>>))
      <4>1. Goto(a, "failed") /\ UNCHANGED <<toClient, pending, chunk>>
        BY <2>8, <3>4 DEF ReadFile
      <4>2. pc'[a] = "failed" /\ \A b \in Receivers : b # a => pc'[b] = pc[b]
        BY <2>2, <4>1
      <4>3. ReadOf(a)'
        BY <3>1, <3>2, <4>1, <4>2 DEF ReadOf
      <4>4. \A c \in Receivers : c # a => ReadOf(c)'
        BY <2>k, <3>2, <4>1, <4>2
      <4> QED
        BY <3>1, <4>1, <4>3, <4>4 DEF ReadInv
    <3> QED
      BY <3>3, <3>4
  <2>9. ASSUME ReadBroken(a) PROVE ReadInv'
    <3>1. /\ pc[a] = "wait" /\ chunk[a] = <<>> /\ ~Reading(a) /\ Goto(a, "failed")
          /\ UNCHANGED <<buffer, lines, at, chunk, pending, toClient>>
      BY <2>9 DEF ReadBroken, locals, pipeVars
    <3>2. lines[a] = <<>>
      BY <1>n, <3>1
    <3>3. pending = <<>>
      <4>1. ASSUME pending # <<>> PROVE FALSE
        <5>1. DOMAIN pending = {1} /\ pending[1] = [by |-> a, live |-> TRUE]
          BY <2>4, <4>1, AwaitedIs
        <5> QED
          BY <3>1, <5>1 DEF Reading
      <4> QED
        BY <4>1
    <3>4. pc'[a] = "failed" /\ \A b \in Receivers : b # a => pc'[b] = pc[b]
      BY <2>2, <3>1
    <3>5. ReadOf(a)'
      BY <3>1, <3>2, <3>4 DEF ReadOf
    <3>6. \A c \in Receivers : c # a => ReadOf(c)'
      BY <2>k, <3>1, <3>4
    <3> QED
      BY <3>1, <3>3, <3>5, <3>6 DEF ReadInv
  <2>10. ~ReadTimesOut(a)
    BY DEF ReadTimesOut
  <2> QED
    BY <1>2, <2>5, <2>6, <2>7, <2>8, <2>9, <2>10 DEF Receive
(* The helper writes a piece. *)
<1>7. ASSUME NEW piece, PutPiece(piece), UNCHANGED <<pc, lines, at, buffer>>, Connected' => Connected
      PROVE  ReadInv'
  <2>1. CASE pending = <<>>
    <3>1. UNCHANGED <<pending, chunk>>
      BY <1>7, <2>1 DEF PutPiece
    <3>2. ASSUME NEW a \in Receivers PROVE ReadOf(a)'
      BY <1>i, <1>7, <3>1 DEF ReadOf, Awaited
    <3> QED
      BY <2>1, <3>1, <3>2 DEF ReadInv
  <2>2. CASE pending # <<>>
    <3>1. PICK b \in Receivers : Awaited(b)
      BY <1>w, <2>2
    <3> PICK one : one = <<piece>>
      OBVIOUS
    <3>h. /\ Head(pending).live = TRUE /\ Head(pending).by = b /\ Tail(pending) = <<>>
      BY <3>1, AwaitedIs
    <3>c. chunk' = [chunk EXCEPT ![b] = one] /\ pending' = Tail(pending) /\ UNCHANGED toClient
      BY <1>7, <2>2, <3>h DEF PutPiece
    <3>2. pending' = <<>> /\ chunk' = [chunk EXCEPT ![b] = one] /\ one # <<>>
      BY <3>h, <3>c
    <3>3. \A a \in Receivers : Awaited(a) => a = b
      BY <1>o, <3>1 DEF Awaited, Receiving
    <3>4. ASSUME NEW a \in Receivers PROVE ReadOf(a)'
      <4>1. CASE a = b
        BY <1>i, <1>p, <1>7, <3>1, <3>2, <4>1 DEF ReadOf, Awaited
      <4>2. CASE a # b
        <5>1. chunk'[a] = chunk[a] /\ ~Awaited(a)
          BY <1>p, <3>2, <3>3, <4>2
        <5> QED
          BY <1>i, <1>7, <5>1 DEF ReadOf
      <4> QED
        BY <4>1, <4>2
    <3> QED
      BY <3>2, <3>4 DEF ReadInv
  <2> QED
    BY <2>1, <2>2
<1>8. ASSUME HelperSaysHello \/ HelperServes \/ HelperWrites PROVE ReadInv'
  <2>1. UNCHANGED <<pc, lines, at, buffer>> /\ (Connected' => Connected) /\ \E piece : PutPiece(piece)
    BY <1>8 DEF HelperSaysHello, HelperServes, HelperWrites, HelperOnly, client, Connected
  <2> QED
    BY <1>7, <2>1
<1>9. ASSUME NEW t \in Callers, ThreadEnds(t) PROVE FALSE
  <2>1. PICK i \in DOMAIN pending : pending[i].by = t
    BY <1>9 DEF ThreadEnds
  <2>2. pending # <<>>
    BY <2>1
  <2>3. PICK b \in Receivers : Awaited(b)
    BY <1>w, <2>2
  <2>4. t = b
    <3>1. DOMAIN pending = {1} /\ pending[1].by = b
      BY <2>3, AwaitedIs
    <3> QED
      BY <2>1, <3>1
  <2> QED
    BY <1>9, <2>3, <2>4 DEF Awaited, ThreadEnds
<1>10. ASSUME UNCHANGED vars PROVE ReadInv'
  BY <1>k, <1>10 DEF vars, pipeVars, client, process, Connected
<1> QED
  BY <1>1, <1>2, <1>3, <1>4, <1>5, <1>6, <1>8, <1>9, <1>10
     DEF Next, HelperProcess, Receivers, Callers, Call, HelperDown, Discover, Read, ReadUnknown

-----------------------------------------------------------------------------
(* The line on its way to the thread that awaits it. *)

LEMMA OneEngaged ==
  ASSUME HelperInv, TurnInv
  PROVE  /\ \A a, b \in Receivers : Engaged(a) /\ Engaged(b) => a = b
         /\ \A a \in Receivers : pc[a] \in Receiving => Engaged(a)
<1>1. \A t \in Callers : pc[t] \in Receiving => pc["setup"] = "over"
  BY DEF HelperInv, PlaceInv, CallerPlace, Receiving
<1>2. \A t, u \in Callers : pc[t] \in Receiving /\ pc[u] \in Receiving => t = u
  BY DEF TurnInv
<1>3. ASSUME NEW a \in Receivers, pc[a] \in Receiving PROVE Engaged(a)
  BY <1>3 DEF Engaged, Receiving
<1>4. ASSUME NEW a \in Receivers, NEW b \in Receivers, Engaged(a), Engaged(b) PROVE a = b
  <2>1. a = "setup" \/ (a \in Callers /\ a # "setup" /\ pc[a] \in Receiving)
    BY <1>4 DEF Engaged, Receivers
  <2>2. b = "setup" \/ (b \in Callers /\ b # "setup" /\ pc[b] \in Receiving)
    BY <1>4 DEF Engaged, Receivers
  <2>3. a = "setup" \/ b = "setup" => pc["setup"] # "over"
    BY <1>4 DEF Engaged
  <2> QED
    BY <1>1, <1>2, <2>1, <2>2, <2>3
<1> QED
  BY <1>3, <1>4

(* More requests come from shutdown() only. *)
MoreAtMostShutdown ==
  \/ toHelper' = toHelper
  \/ \E q \in RequestSet : q.n = Unasked /\ toHelper' = Append(toHelper, q)

LEMMA StillOnlyShutdown ==
  ASSUME HelperInv, MoreAtMostShutdown
  PROVE  /\ OnlyShutdown(1) => OnlyShutdown(1)'
         /\ OnlyShutdown(2) => OnlyShutdown(2)'
         /\ toHelper # <<>> => toHelper' # <<>> /\ toHelper'[1] = toHelper[1]
<1>1. toHelper \in Seq(RequestSet) /\ Len(toHelper) \in Nat
  BY DEF HelperInv, TypeOK
<1>2. CASE toHelper' = toHelper
  BY <1>2 DEF OnlyShutdown
<1>3. ASSUME NEW q \in RequestSet, q.n = Unasked, toHelper' = Append(toHelper, q)
      PROVE  /\ OnlyShutdown(1) => OnlyShutdown(1)'
             /\ OnlyShutdown(2) => OnlyShutdown(2)'
             /\ toHelper # <<>> => toHelper' # <<>> /\ toHelper'[1] = toHelper[1]
  <2>1. /\ Append(toHelper, q) # <<>> /\ Len(Append(toHelper, q)) = Len(toHelper) + 1
        /\ \A i \in 1..Len(toHelper) : Append(toHelper, q)[i] = toHelper[i]
        /\ Append(toHelper, q)[Len(toHelper) + 1] = q
    BY <1>1, AppendProperties
  <2>2. ASSUME NEW from \in {1, 2}, OnlyShutdown(from) PROVE OnlyShutdown(from)'
    <3>1. \A i \in from..(Len(toHelper) + 1) : i \in from..Len(toHelper) \/ i = Len(toHelper) + 1
      BY <1>1
    <3>2. \A i \in from..Len(toHelper) : i \in 1..Len(toHelper)
      BY <1>1
    <3>3. \A i \in from..Len(toHelper) : toHelper'[i].n = Unasked
      BY <1>3, <2>1, <2>2, <3>2 DEF OnlyShutdown
    <3>4. toHelper'[Len(toHelper) + 1].n = Unasked
      BY <1>3, <2>1
    <3>5. Len(toHelper') = Len(toHelper) + 1
      BY <1>3, <2>1
    <3>6. \A i \in from..Len(toHelper') : toHelper'[i].n = Unasked
      BY <3>1, <3>3, <3>4, <3>5
    <3> QED
      BY <3>6 DEF OnlyShutdown
  <2>3. toHelper # <<>> => 1 \in 1..Len(toHelper)
    BY <1>1
  <2> QED
    BY <1>3, <2>1, <2>2, <2>3
<1> QED
  BY <1>2, <1>3 DEF MoreAtMostShutdown

(* A step that leaves the line, what was asked and who serves it. *)
LEMMA AnswerKeeps ==
  ASSUME HelperInv, NEW a \in Receivers, AnswerOf(a),
         lines'[a] = lines[a], Flow(a)' = Flow(a),
         a # "setup" => mine'[a] = mine[a] /\ job'[a] = job[a],
         child' = "serving" <=> child = "serving",
         state' = "running" => state = "running",
         MoreAtMostShutdown, reported' = reported
  PROVE  AnswerOf(a)'
<1>1. AnswersFor(a)' = AnswersFor(a) /\ (a # "setup" => Request(a)' = Request(a))
  BY DEF AnswersFor, Told, Request
<1>2. Alone(a)' => Alone(a)
  BY DEF Alone
<1>3. /\ OnlyShutdown(1) => OnlyShutdown(1)'
      /\ OnlyShutdown(2) => OnlyShutdown(2)'
      /\ toHelper # <<>> => toHelper' # <<>> /\ toHelper'[1] = toHelper[1]
  BY StillOnlyShutdown
<1>4. Unserved(a) => Unserved(a)'
  BY <1>1, <1>3 DEF Unserved
<1>5. ASSUME NEW answer \in AnswersFor(a), Served(a, answer) PROVE Served(a, answer)'
  BY <1>2, <1>3, <1>5 DEF Served, Begins
<1>6. Taken(a) => Taken(a)'
  BY <1>1, <1>2, <1>3 DEF Taken
<1> QED
  BY <1>1, <1>4, <1>5, <1>6 DEF AnswerOf

(* A step with which the helper is gone, and with it what it had to say. *)
LEMMA AnswerEnds ==
  ASSUME HelperInv, TurnInv, NEW a \in Receivers, Engaged(a), AnswerOf(a), HelperInv',
         lines'[a] = lines[a], IsBeginning(Flow(a)', Flow(a)),
         a # "setup" => mine'[a] = mine[a] /\ job'[a] = job[a],
         child' # "serving", state' = "running" => state = "running",
         toHelper' = <<>>, reported' = reported
  PROVE  AnswerOf(a)'
<1>1. AnswersFor(a)' = AnswersFor(a) /\ AnswersFor(a) # {}
  <2>1. AnswersFor(a)' = AnswersFor(a)
    BY DEF AnswersFor, Told, Request
  <2>2. AnswersFor(a) # {}
    BY AnswersAre
  <2> QED
    BY <2>1, <2>2
<1>2. Alone(a)' => Alone(a)
  BY DEF Alone
<1>3. OnlyShutdown(1)'
  BY DEF OnlyShutdown
<1>4. Len(Flow(a)) \in Nat /\ (Flow(a) = <<>> => Len(Flow(a)) = 0)
  BY FlowType DEF HelperInv
<1>5. Flow(a)' \in Seq(PieceSet)
  <2>1. /\ buffer' \in Seq(PieceSet) /\ chunk'[a] \in Seq(PieceSet)
        /\ toClient' \in Seq(PieceSet) /\ writing' \in Seq(PieceSet)
    BY DEF HelperInv, TypeOK, Receivers
  <2>2. toClient' \o writing' \in Seq(PieceSet)
    BY <2>1, ConcatProperties
  <2>3. chunk'[a] \o (toClient' \o writing') \in Seq(PieceSet)
    BY <2>1, <2>2, ConcatProperties
  <2> QED
    BY <2>1, <2>3, ConcatProperties DEF Flow
<1> PICK f, g : f = Flow(a) /\ g = Flow(a)'
  OBVIOUS
<1>6. Len(g) \in Nat /\ Len(f) \in Nat /\ Len(g) <= Len(f) /\ (\A i \in 1..Len(g) : g[i] = f[i])
      /\ (Len(g) = 0 => g = <<>>)
  <2>1. g \in Seq(PieceSet) /\ IsBeginning(g, f) /\ Len(f) \in Nat
    BY <1>4, <1>5
  <2>2. Len(g) \in Nat /\ (Len(g) = 0 => g = <<>>)
    BY <2>1
  <2> QED
    BY <2>1, <2>2 DEF IsBeginning
<1>7. ASSUME NEW answer \in AnswersFor(a), Begins(f, answer), Alone(a)' => Len(f) <= Len(answer)
      PROVE  Served(a, answer)'
  <2>1. Len(answer) \in Nat
    BY <1>7, AnswersAre
  <2>2. \A i \in 1..Len(answer) : i <= Len(g) => i \in 1..Len(g) /\ i <= Len(f)
    BY <1>6, <2>1
  <2>3. Begins(g, answer)
    BY <1>6, <1>7, <2>2 DEF Begins
  <2>4. Alone(a)' => Len(g) <= Len(answer)
    BY <1>6, <1>7, <2>1
  <2>5. Begins(Flow(a)', answer) /\ (Alone(a)' => Len(Flow(a)') <= Len(answer))
    BY <2>3, <2>4
  <2> QED
    BY <1>3, <2>5 DEF Served, Begins
<1>8. CASE lines[a] = <<>>
  <2>1. CASE Unserved(a)
    <3>1. PICK answer : answer \in AnswersFor(a)
      BY <1>1
    <3>2. Len(f) = 0 /\ Len(answer) \in Nat
      BY <1>4, <2>1, <3>1, AnswersAre DEF Unserved
    <3>3. Begins(f, answer) /\ Len(f) <= Len(answer)
      BY <3>2 DEF Begins
    <3> QED
      BY <1>1, <1>7, <1>8, <3>1, <3>3 DEF AnswerOf
  <2>2. ASSUME NEW answer \in AnswersFor(a), Served(a, answer) PROVE AnswerOf(a)'
    <3>1. Begins(f, answer) /\ (Alone(a)' => Len(f) <= Len(answer))
      BY <1>2, <2>2 DEF Served
    <3> QED
      BY <1>1, <1>7, <1>8, <2>2, <3>1 DEF AnswerOf
  <2> QED
    BY <1>8, <2>1, <2>2 DEF AnswerOf
<1>9. CASE lines[a] # <<>>
  <2>1. Taken(a)
    BY <1>9 DEF AnswerOf
  <2>2. Alone(a)' => Flow(a)' = <<>>
    <3>1. Alone(a)' => Len(f) = 0
      BY <1>2, <1>4, <2>1 DEF Taken
    <3> QED
      BY <1>6, <3>1
  <2> QED
    BY <1>1, <1>3, <1>9, <2>1, <2>2 DEF AnswerOf, Taken
<1> QED
  BY <1>8, <1>9

(* Wherever a piece goes, to the pipe or to the read that waits, it takes  *)
(* its turn in the flow.                                                   *)
LEMMA PutFlow ==
  ASSUME HelperInv, TurnInv, ReadInv, NEW a \in Receivers, Engaged(a),
         NEW w \in Seq(PieceSet), w # <<>>,
         PutPiece(Head(w)), writing' = Tail(w), buffer' = buffer
  PROVE  Flow(a)' = buffer \o (chunk[a] \o (toClient \o w))
<1>1. /\ buffer \in Seq(PieceSet) /\ chunk[a] \in Seq(PieceSet) /\ toClient \in Seq(PieceSet)
  BY FlowType DEF HelperInv
<1>2. CASE pending = <<>>
  <2>1. toClient' = Append(toClient, Head(w)) /\ chunk' = chunk
    BY <1>2 DEF PutPiece
  <2>2. toClient' \o writing' = toClient \o w
    BY <1>1, <2>1, WriteFlow
  <2> QED
    BY <2>1, <2>2 DEF Flow
<1>3. CASE pending # <<>>
  <2>1. PICK b \in Receivers : Awaited(b)
    BY <1>3 DEF ReadInv
  <2>2. b = a
    <3>1. Engaged(b)
      BY <2>1, OneEngaged DEF Awaited, Receiving
    <3> QED
      BY <3>1, OneEngaged
  <2>3. Head(pending).by = a /\ Head(pending).live = TRUE
    BY <2>1, <2>2, AwaitedIs
  <2> PICK one : one = <<Head(w)>>
    OBVIOUS
  <2>4. chunk' = [chunk EXCEPT ![a] = one] /\ toClient' = toClient
    BY <1>3, <2>3 DEF PutPiece
  <2>5. chunk'[a] = one
    BY <2>4 DEF HelperInv, TypeOK, Receivers
  <2>6. chunk[a] = <<>> /\ toClient = <<>>
    BY <1>3, <2>1, <2>2 DEF Awaited, ReadInv
  <2>7. chunk'[a] \o (toClient' \o writing') = chunk[a] \o (toClient \o w)
    BY <2>4, <2>5, <2>6, PendingFlow
  <2> QED
    BY <2>7 DEF Flow
<1> QED
  BY <1>2, <1>3

(* HELLO reaches setup(), and nothing comes with it. *)
LEMMA HelloSaid ==
  ASSUME HelperInv, TurnInv, ReadInv, QuietInv, NEW a \in Receivers, Engaged(a), Engaged(a)',
         HelperSaysHello
  PROVE  AnswerOf(a)'
<1>1. /\ child = "connected" /\ child' = "serving" /\ PutPiece(Hello)
      /\ UNCHANGED <<toHelper, buffer, writing, lines>>
  BY DEF HelperSaysHello, HelperOnly, client
<1>2. a = "setup"
  <2>1. ASSUME a # "setup" PROVE FALSE
    <3>1. a \in Callers /\ pc[a] \in Receiving
      BY <2>1 DEF Engaged, Receivers
    <3> QED
      BY <1>1, <3>1 DEF TurnInv, TurnOf
  <2> QED
    BY <2>1
<1>3. /\ toHelper = <<>> /\ writing = <<>> /\ toClient = <<>> /\ buffer = <<>>
      /\ lines[a] = <<>> /\ chunk[a] = <<>>
  BY <1>1, <1>2 DEF QuietInv
<1> PICK w : w = <<Hello>>
  OBVIOUS
<1>4. /\ w \in Seq(PieceSet) /\ w # <<>> /\ Head(w) = Hello /\ Tail(w) = <<>> /\ Len(w) = 1
  BY HelloIs
<1>5. Flow(a)' = <<>> \o (<<>> \o (<<>> \o w))
  BY <1>1, <1>3, <1>4, PutFlow
<1>6. Flow(a)' = w
  BY <1>4, <1>5, ConcatEmptySeq
<1>7. w \in AnswersFor(a)'
  BY <1>2 DEF AnswersFor
<1>8. Served(a, w)'
  <2>1. OnlyShutdown(1)'
    BY <1>1, <1>3 DEF OnlyShutdown
  <2> QED
    BY <1>4, <1>6, <2>1 DEF Served, Begins
<1>9. lines'[a] = <<>>
  BY <1>1, <1>3
<1> QED
  BY <1>7, <1>8, <1>9 DEF AnswerOf

(* RunLoop takes the request that is awaited, or shutdown's.               *)
LEMMA AnswerServed ==
  ASSUME HelperInv, TurnInv, ReadInv, QuietInv, NEW a \in Receivers, Engaged(a), AnswerOf(a),
         HelperServes
  PROVE  AnswerOf(a)'
<1> PICK req : req = Head(toHelper)
  OBVIOUS
<1>w. PICK w \in Answers(req) :
        /\ PutPiece(Head(w)) /\ writing' = Tail(w)
        /\ reported' = IF req.job.cmd = "list" /\ w[1].listed THEN Found(w) ELSE reported
  BY DEF HelperServes
<1>1. /\ child = "serving" /\ child' = "serving" /\ writing = <<>> /\ toHelper # <<>>
      /\ PutPiece(Head(w)) /\ writing' = Tail(w) /\ toHelper' = Tail(toHelper)
      /\ UNCHANGED <<buffer, lines, mine, job, state>>
  BY <1>w DEF HelperServes, client
<1>2. toHelper \in Seq(RequestSet) /\ req \in RequestSet /\ req = toHelper[1]
  BY <1>1 DEF HelperInv, TypeOK
<1>3. /\ w \in Seq(PieceSet) /\ Len(w) \in {1, 2} /\ w # <<>>
  <2>1. w \in Seq(PieceSet) /\ Len(w) \in 1..2
    BY <1>2, <1>w, AnswerIs
  <2>2. Len(<<>>) = 0
    OBVIOUS
  <2> QED
    BY <2>1, <2>2
<1>4. a # "setup"
  BY <1>1 DEF QuietInv, Engaged
<1> PICK f, g : f = Flow(a) /\ g = Flow(a)'
  OBVIOUS
<1>5. g = f \o w
  <2>1. /\ buffer \in Seq(PieceSet) /\ chunk[a] \in Seq(PieceSet) /\ toClient \in Seq(PieceSet)
    BY FlowType DEF HelperInv
  <2>2. g = buffer \o (chunk[a] \o (toClient \o w))
    BY <1>1, <1>3, PutFlow
  <2>3. f = buffer \o (chunk[a] \o (toClient \o <<>>))
    BY <1>1 DEF Flow
  <2> PICK b, c, t : b = buffer /\ c = chunk[a] /\ t = toClient
    OBVIOUS
  <2>4. b \in Seq(PieceSet) /\ c \in Seq(PieceSet) /\ t \in Seq(PieceSet) /\ w \in Seq(PieceSet)
    BY <1>3, <2>1
  <2>5. b \o (c \o (t \o w)) = (b \o (c \o (t \o <<>>))) \o w
    <3>1. Regroups(b, c, t)
      BY <2>4, ServeFlow
    <3> QED
      BY <2>4, <3>1 DEF Regroups
  <2>6. f = b \o (c \o (t \o <<>>)) /\ g = b \o (c \o (t \o w))
    BY <2>2, <2>3
  <2> QED
    BY <2>5, <2>6
<1>6. f \in Seq(PieceSet) /\ Len(f) \in Nat
  BY FlowType DEF HelperInv
<1>7. Len(g) = Len(f) + Len(w) /\ \A i \in 1..Len(f) : g[i] = f[i]
  <2>1. Len(g) = Len(f) + Len(w)
    BY <1>3, <1>5, <1>6, ConcatProperties
  <2>2. IsBeginning(f, g)
    BY <1>3, <1>5, <1>6, BeginningIs
  <2> QED
    BY <2>1, <2>2 DEF IsBeginning
(* The answer to shutdown carries no list. *)
<1>8. req.n = Unasked => AnswersFor(a)' = AnswersFor(a)
  <2>1. req.n = Unasked => req.job.cmd = "shutdown"
    BY <1>2, RequestsAssumption DEF RequestSet, Unasked
  <2>2. req.n = Unasked => reported' = reported
    BY <1>w, <2>1
  <2> QED
    BY <1>1, <1>4, <2>2 DEF AnswersFor, Told, Request
(* Only shutdown's request comes after it. *)
<1>9. OnlyShutdown(2) => OnlyShutdown(1)'
  <2>1. Len(toHelper') = Len(toHelper) - 1 /\ \A i \in 1..(Len(toHelper) - 1) : toHelper'[i] = toHelper[i + 1]
    BY <1>1, <1>2
  <2>2. Len(toHelper) \in Nat
    BY <1>2
  <2>3. \A i \in 1..(Len(toHelper) - 1) : i + 1 \in 2..Len(toHelper)
    BY <2>2
  <2>4. OnlyShutdown(2) => \A i \in 1..Len(toHelper') : toHelper'[i].n = Unasked
    BY <2>1, <2>3 DEF OnlyShutdown
  <2> QED
    BY <2>4 DEF OnlyShutdown
<1>10. OnlyShutdown(1) => OnlyShutdown(2) /\ state # "running" /\ req.n = Unasked
  <2>1. Len(toHelper) \in Nat /\ 1 \in DOMAIN toHelper /\ DOMAIN toHelper = 1..Len(toHelper)
        /\ \A i \in 2..Len(toHelper) : i \in 1..Len(toHelper)
    BY <1>1, <1>2
  <2> QED
    BY <1>2, <2>1 DEF OnlyShutdown, QuietInv
<1>11. CASE lines[a] = <<>>
  <2>1. CASE Unserved(a)
    <3>1. req = Request(a) /\ OnlyShutdown(2) /\ f = <<>>
      BY <1>2, <1>4, <2>1 DEF Unserved
    <3>2. w \in AnswersFor(a)' /\ g = w
      <4>1. w \in AnswersFor(a)'
        <5>1. Told(a, w)'
          BY <1>1, <1>4, <1>w, <3>1 DEF Told, Request, Receivers
        <5>2. w \in Answers(Request(a))'
          BY <1>1, <1>4, <1>w, <3>1 DEF Request
        <5> QED
          BY <1>4, <5>1, <5>2 DEF AnswersFor
      <4> QED
        BY <1>3, <1>5, <3>1, <4>1, ConcatEmptySeq
    <3>3. Begins(g, w)
      BY <3>2 DEF Begins
    <3>4. Len(g) >= Len(w) /\ Len(g) <= Len(w)
      BY <1>3, <3>2
    <3>5. Served(a, w)'
      BY <1>9, <3>1, <3>3, <3>4 DEF Served, Begins
    <3> QED
      BY <1>1, <1>11, <3>2, <3>5 DEF AnswerOf
  <2>2. ASSUME NEW answer \in AnswersFor(a), Served(a, answer) PROVE AnswerOf(a)'
    <3>1. Begins(f, answer) /\ Len(f) >= Len(answer) /\ OnlyShutdown(1) /\ Len(answer) \in Nat
      BY <1>1, <2>2, AnswersAre DEF Served
    <3>2. \A i \in 1..Len(answer) : i \in 1..Len(f) /\ i <= Len(f)
      BY <1>6, <3>1
    <3>3. Begins(g, answer)
      BY <1>7, <3>1, <3>2 DEF Begins
    <3>4. Len(g) >= Len(answer)
      BY <1>3, <1>6, <1>7, <3>1
    <3>5. ~Alone(a)'
      BY <1>1, <1>4, <1>10, <3>1 DEF Alone
    <3>6. Begins(Flow(a)', answer) /\ Len(Flow(a)') >= Len(answer)
      BY <3>3, <3>4
    <3>7. Served(a, answer)'
      BY <1>9, <1>10, <3>1, <3>5, <3>6 DEF Served, Begins
    <3> QED
      BY <1>1, <1>8, <1>10, <1>11, <2>2, <3>1, <3>7 DEF AnswerOf
  <2> QED
    BY <1>11, <2>1, <2>2 DEF AnswerOf
<1>12. CASE lines[a] # <<>>
  <2>1. Taken(a) /\ OnlyShutdown(1)
    BY <1>12 DEF AnswerOf, Taken
  <2>2. ~Alone(a)' /\ OnlyShutdown(1)'
    BY <1>1, <1>4, <1>9, <1>10, <2>1 DEF Alone
  <2> QED
    BY <1>1, <1>8, <1>10, <1>12, <2>1, <2>2 DEF AnswerOf, Taken
<1> QED
  BY <1>11, <1>12

(* The first line that the framer finds is the answer, all of it and       *)
(* nothing more.                                                           *)
LEMMA LineTaken ==
  ASSUME HelperInv, TurnInv, ReadInv, NEW a \in Receivers, Engaged(a), AnswerOf(a), TakeLine(a)
  PROVE  AnswerOf(a)'
<1> PICK k : k = at[a]
  OBVIOUS
<1> PICK rest, cut : rest = After(buffer, k) /\ cut = UpTo(buffer, k)
  OBVIOUS
<1> PICK tail : tail = chunk[a] \o (toClient \o writing)
  OBVIOUS
<1> PICK f, g : f = Flow(a) /\ g = Flow(a)'
  OBVIOUS
<1>1. /\ pc[a] = "take" /\ buffer' = rest
      /\ lines' = [lines EXCEPT ![a] = IF @ = <<>> THEN <<cut>> ELSE @]
      /\ UNCHANGED <<toHelper, toClient, chunk, writing, state, mine, job>>
  BY DEF TakeLine, process
<1>2. k = FirstEnd(buffer) /\ k # 0
  BY <1>1 DEF ReadInv, ReadOf
<1>3. /\ buffer \in Seq(PieceSet) /\ chunk[a] \in Seq(PieceSet)
      /\ toClient \in Seq(PieceSet) /\ writing \in Seq(PieceSet)
  BY FlowType DEF HelperInv
<1>4. tail \in Seq(PieceSet)
  <2>1. toClient \o writing \in Seq(PieceSet)
    BY <1>3, ConcatProperties
  <2> QED
    BY <1>3, <2>1, ConcatProperties
<1>5. f = buffer \o tail /\ g = rest \o tail
  BY <1>1 DEF Flow
<1>6. /\ k \in 1..Len(buffer) /\ Len(buffer) \in Nat
      /\ EndsLine(buffer[k]) /\ \A j \in 1..(k - 1) : ~EndsLine(buffer[j])
  <2>1. /\ FirstEnd(buffer) \in 0..Len(buffer)
        /\ FirstEnd(buffer) > 0 => EndsLine(buffer[FirstEnd(buffer)])
        /\ \A j \in 1..(FirstEnd(buffer) - 1) : ~EndsLine(buffer[j])
    BY <1>3, FirstEndIs
  <2>2. Len(buffer) \in Nat
    BY <1>3
  <2>3. k \in 0..Len(buffer) /\ k > 0
    BY <1>2, <2>1, <2>2
  <2>4. k \in 1..Len(buffer)
    BY <2>2, <2>3
  <2> QED
    BY <1>2, <2>1, <2>2, <2>3, <2>4
<1>7. /\ cut \in Seq(PieceSet) /\ Len(cut) = k /\ \A j \in 1..k : cut[j] = f[j]
      /\ g \in Seq(PieceSet) /\ Len(g) = Len(f) - k
  <2>1. CutsAt(buffer, tail, k)
    BY <1>3, <1>4, <1>6, CutFlow
  <2> QED
    BY <1>5, <2>1 DEF CutsAt
<1>8. /\ Len(f) \in Nat /\ Len(f) >= Len(buffer) /\ \A j \in 1..Len(buffer) : f[j] = buffer[j]
  <2>1. IsBeginning(buffer, f)
    BY <1>3, <1>4, <1>5, BeginningIs
  <2>2. Len(f) \in Nat
    BY FlowType DEF HelperInv
  <2> QED
    BY <1>6, <2>1, <2>2 DEF IsBeginning
<1>9. f # <<>> /\ Len(f) >= k /\ Len(f) > 0
  <2>1. Len(f) >= k /\ Len(f) > 0
    BY <1>6, <1>8
  <2>2. Len(<<>>) = 0
    OBVIOUS
  <2> QED
    BY <2>1, <2>2
<1>10. AnswersFor(a)' = AnswersFor(a)
  <2>1. reported' = reported
    BY DEF TakeLine, history
  <2> QED
    BY <1>1, <2>1 DEF AnswersFor, Told, Request
<1>11. (Alone(a)' <=> Alone(a)) /\ (OnlyShutdown(1)' <=> OnlyShutdown(1))
  BY <1>1 DEF Alone, OnlyShutdown
<1>12. lines \in [Receivers -> Seq(Seq(PieceSet))]
  BY DEF HelperInv, TypeOK, Receivers
<1>13. CASE lines[a] = <<>>
  <2>1. PICK answer \in AnswersFor(a) : Served(a, answer)
    BY <1>9, <1>13 DEF AnswerOf, Unserved
  <2>2. /\ answer \in Seq(PieceSet) /\ Len(answer) \in {1, 2}
        /\ \A i \in 1..Len(answer) : answer[i].part = i /\ answer[i].all = Len(answer)
    BY <2>1, AnswersAre
  <2> PICK n : n = Len(answer)
    OBVIOUS
  <2>3. /\ n \in {1, 2} /\ \A i \in 1..n : EndsLine(answer[i]) <=> i = n
    BY <2>2 DEF EndsLine
  <2>4. \A i \in 1..n : i <= Len(f) => f[i] = answer[i]
    BY <2>1 DEF Served, Begins
  <2>5. k \in Nat /\ n \in Nat /\ n \in 1..n
    BY <1>6, <2>3
  <2>6. ~(k < n)
    <3>1. ASSUME k < n PROVE FALSE
      <4>1. k \in 1..n /\ k <= Len(f)
        BY <1>6, <1>9, <2>5, <3>1
      <4>2. buffer[k] = answer[k]
        BY <1>6, <1>8, <2>4, <4>1
      <4>3. k = n
        BY <1>6, <2>3, <4>1, <4>2
      <4> QED
        BY <2>5, <3>1, <4>3
    <3> QED
      BY <3>1
  <2>7. ~(n < k)
    <3>1. ASSUME n < k PROVE FALSE
      <4>1. n \in 1..(k - 1) /\ n \in 1..Len(buffer) /\ n <= Len(f)
        BY <1>6, <1>8, <2>3, <2>5, <3>1
      <4>2. buffer[n] = answer[n]
        BY <1>8, <2>4, <2>5, <4>1
      <4>3. EndsLine(buffer[n])
        BY <2>3, <2>5, <4>2
      <4> QED
        BY <1>6, <4>1, <4>3
    <3> QED
      BY <3>1
  <2>8. k = n
    BY <2>5, <2>6, <2>7
  <2>9. cut = answer
    <3>1. Len(cut) = Len(answer) /\ Len(cut) = k
      BY <1>7, <2>8
    <3>2. ASSUME NEW i \in 1..Len(cut) PROVE cut[i] = answer[i]
      <4>1. i \in 1..k /\ i \in 1..n
        BY <2>8, <3>1
      <4>2. i <= Len(f)
        BY <1>8, <1>9, <2>5, <4>1
      <4> QED
        BY <1>7, <2>4, <4>1, <4>2
    <3> QED
      BY <1>7, <2>2, <3>1, <3>2, SeqEqual
  <2>10. Alone(a) => g = <<>>
    <3>1. Alone(a) => Len(f) <= n
      BY <2>1 DEF Served
    <3>2. Alone(a) => Len(g) = 0
      BY <1>7, <1>8, <1>9, <2>5, <2>8, <3>1
    <3>3. Len(g) = 0 => g = <<>>
      BY <1>7
    <3> QED
      BY <3>2, <3>3
  <2>11. lines'[a] = <<answer>>
    BY <1>1, <1>12, <1>13, <2>9
  <2>12. OnlyShutdown(1)
    BY <2>1 DEF Served
  <2>13. lines'[a] # <<>>
    BY <2>11
  <2>14. Alone(a)' => Flow(a)' = <<>>
    BY <1>11, <2>10
  <2>15. Taken(a)'
    BY <1>10, <1>11, <2>1, <2>11, <2>12, <2>14 DEF Taken
  <2> QED
    BY <2>13, <2>15 DEF AnswerOf
<1>14. CASE lines[a] # <<>>
  <2>1. lines'[a] = lines[a]
    BY <1>1, <1>12, <1>14
  <2>2. Taken(a) /\ ~Alone(a)
    BY <1>9, <1>14 DEF AnswerOf, Taken
  <2> QED
    BY <1>10, <1>11, <1>14, <2>1, <2>2 DEF AnswerOf, Taken
<1> QED
  BY <1>13, <1>14

(* What the reader moves from the pipe to the framer stays in its order.   *)
LEMMA ReadKeepsFlow ==
  ASSUME HelperInv, ReadInv, NEW a \in Receivers, Receive(a), ~TakeLine(a)
  PROVE  Flow(a)' = Flow(a)
<1> PICK b, c, t, w : b = buffer /\ c = chunk[a] /\ t = toClient /\ w = writing
  OBVIOUS
<1>1. b \in Seq(PieceSet) /\ c \in Seq(PieceSet) /\ t \in Seq(PieceSet) /\ w \in Seq(PieceSet)
  BY FlowType DEF HelperInv
<1>2. chunk \in [Receivers -> Seq(PieceSet)]
  BY DEF HelperInv, TypeOK, Receivers
<1>3. Flow(a) = b \o (c \o (t \o w))
  BY DEF Flow
<1>4. writing' = w
  BY DEF Receive, FeedRest, FeedChunk, TakeLine, ReadFile, ReadBroken, ReadTimesOut, process
<1>5. ASSUME FeedRest(a) PROVE Flow(a)' = Flow(a)
  <2>1. buffer' = b \o <<>> /\ UNCHANGED <<chunk, toClient>>
    BY <1>5 DEF FeedRest, Feed
  <2>2. buffer' = b
    BY <1>1, <2>1, ConcatEmptySeq
  <2> QED
    BY <1>4, <2>1, <2>2 DEF Flow
<1>6. ASSUME FeedChunk(a) PROVE Flow(a)' = Flow(a)
  <2>1. buffer' = b \o c /\ chunk' = [chunk EXCEPT ![a] = <<>>] /\ toClient' = t
    BY <1>6 DEF FeedChunk, Feed
  <2>2. chunk'[a] = <<>>
    BY <1>2, <2>1
  <2> PICK r : r = t \o w
    OBVIOUS
  <2>3. r \in Seq(PieceSet)
    BY <1>1, ConcatProperties
  <2>4. (b \o c) \o r = b \o (c \o r)
    <3>1. Associates(b, c, r)
      BY <1>1, <2>3, FeedFlow
    <3> QED
      BY <3>1 DEF Associates
  <2>5. Flow(a)' = (b \o c) \o (<<>> \o r)
    BY <1>4, <2>1, <2>2 DEF Flow
  <2>6. <<>> \o r = r
    BY <2>3, ConcatEmptySeq
  <2> QED
    BY <1>3, <2>4, <2>5, <2>6
<1>7. ASSUME ReadFile(a) PROVE Flow(a)' = Flow(a)
  <2>1. c = <<>> /\ buffer' = b
    BY <1>7 DEF ReadFile, ReadInv, ReadOf
  <2>2. CASE chunk' = chunk /\ toClient' = toClient
    BY <1>4, <2>1, <2>2 DEF Flow
  <2>3. CASE chunk' = [chunk EXCEPT ![a] = toClient] /\ toClient' = <<>>
    <3>1. chunk'[a] = t
      BY <1>2, <2>3
    <3>2. b \o (t \o (<<>> \o w)) = b \o (<<>> \o (t \o w))
      BY <1>1, ReadFlow
    <3>3. Flow(a)' = b \o (t \o (<<>> \o w))
      BY <1>4, <2>1, <2>3, <3>1 DEF Flow
    <3> QED
      BY <1>3, <2>1, <3>2, <3>3
  <2> QED
    BY <1>7, <2>2, <2>3 DEF ReadFile, IssueRead
<1>8. ASSUME ReadBroken(a) \/ ReadTimesOut(a) PROVE Flow(a)' = Flow(a)
  BY <1>8 DEF ReadBroken, ReadTimesOut, Flow, pipeVars, process
<1> QED
  BY <1>5, <1>6, <1>7, <1>8 DEF Receive

(* When the helper or the pipe goes, the end of the flow goes with it.     *)
LEMMA FlowEnds ==
  ASSUME HelperInv, NEW a \in Receivers, UNCHANGED <<buffer, chunk>>, writing' = <<>>,
         toClient' = toClient \/ toClient' = <<>>
  PROVE  IsBeginning(Flow(a)', Flow(a))
<1> PICK b, c, t, w : b = buffer /\ c = chunk[a] /\ t = toClient /\ w = writing
  OBVIOUS
<1>1. b \in Seq(PieceSet) /\ c \in Seq(PieceSet) /\ t \in Seq(PieceSet) /\ w \in Seq(PieceSet)
  BY FlowType DEF HelperInv
<1> PICK f, g : f = Flow(a) /\ g = Flow(a)'
  OBVIOUS
<1>2. f = b \o (c \o (t \o w))
  BY DEF Flow
<1>3. CASE toClient' = toClient
  <2>1. g = b \o (c \o (t \o <<>>))
    BY <1>3 DEF Flow
  <2>2. f = g \o w
    <3>1. Regroups(b, c, t)
      BY <1>1, ServeFlow
    <3> QED
      BY <1>1, <1>2, <2>1, <3>1 DEF Regroups
  <2>3. g \in Seq(PieceSet)
    <3>1. t \o <<>> \in Seq(PieceSet)
      BY <1>1, ConcatProperties
    <3>2. c \o (t \o <<>>) \in Seq(PieceSet)
      BY <1>1, <3>1, ConcatProperties
    <3> QED
      BY <1>1, <2>1, <3>2, ConcatProperties
  <2> QED
    BY <1>1, <2>2, <2>3, BeginningIs
<1>4. CASE toClient' = <<>>
  <2>1. g = b \o (c \o (<<>> \o <<>>))
    BY <1>4 DEF Flow
  <2>2. g = b \o c
    BY <1>1, <2>1, ConcatEmptySeq
  <2> PICK r : r = t \o w
    OBVIOUS
  <2>3. r \in Seq(PieceSet) /\ g \in Seq(PieceSet)
    BY <1>1, <2>2, ConcatProperties
  <2>4. f = g \o r
    <3>1. Associates(b, c, r)
      BY <1>1, <2>3, FeedFlow
    <3> QED
      BY <1>2, <2>2, <3>1 DEF Associates
  <2> QED
    BY <2>3, <2>4, BeginningIs
<1> QED
  BY <1>3, <1>4

LEMMA ReportedKept == [Next]_vars => HelperServes \/ reported' = reported
<1> SUFFICES ASSUME [Next]_vars, ~HelperServes PROVE reported' = reported
  OBVIOUS
<1>1. Setup => reported' = reported
  BY DEF Setup, NothingStarted, FindExecutable, CreatePipe, SpawnFails, Spawn, DeliverToken,
         AwaitConnection, PeerVerified, HandshakeDone, StartTakenBack, history
<1>2. \A a \in Receivers : Receive(a) => reported' = reported
  BY DEF Receive, FeedRest, FeedChunk, TakeLine, ReadFile, ReadBroken, ReadTimesOut, history
<1>3. \A t \in Callers : Call(t) => reported' = reported
  BY DEF Call, CheckState, WriteFile, WriteFails, CallFails, Undecodable, ReadReturns, DiscoverRefused,
         DiscoverResets, DiscoverFills, history
<1>4. \A t \in Callers : ThreadEnds(t) \/ (\E j : Ask(t, j)) => reported' = reported
  BY DEF Ask, ThreadEnds, history
<1>5. Shutdown => reported' = reported
  BY DEF Shutdown, ShutdownBegins, ShutdownWrites, ShutdownJoins, ShutdownCloses, history
<1>6. HelperProcess => reported' = reported
  BY DEF HelperProcess, HelperConnects, HelperSaysHello, HelperWrites, HelperExits, HelperOnly, history
<1>7. UNCHANGED vars => reported' = reported
  BY DEF vars, history
<1> QED
  BY <1>1, <1>2, <1>3, <1>4, <1>5, <1>6, <1>7
     DEF Next, Receivers, Callers, HelperDown, Discover, Read, ReadUnknown

LEMMA AnswerStep == StepParts /\ HelperInv' /\ inStep /\ inStep' /\ [Next]_vars => AnswerInv'
<1> SUFFICES ASSUME StepParts, HelperInv', inStep, inStep', [Next]_vars,
                    NEW a \in Receivers, Engaged(a)'
             PROVE  AnswerOf(a)'
  BY DEF AnswerInv
<1> USE DEF StepParts
<1>p. /\ pc \in [Actors -> Labels] /\ chunk \in [Receivers -> Seq(PieceSet)]
      /\ lines \in [Receivers -> Seq(Seq(PieceSet))] /\ mine \in [Callers -> 0..MaxRequests]
      /\ job \in [Callers -> JobSet \cup {NoJob}]
  BY DEF HelperInv, TypeOK, Labels, Receivers
<1>a. /\ Callers \subseteq Actors /\ "setup" \in Actors /\ "closer" \in Actors
      /\ "setup" \notin Callers /\ "closer" \notin Receivers /\ "setup" \in Receivers
      /\ Callers \subseteq Receivers /\ Receivers \subseteq Actors
  BY CallersAssumption DEF Actors, Receivers
<1>i. Engaged(a) => AnswerOf(a)
  BY DEF AnswerInv
<1>e. pc'[a] = pc[a] => Engaged(a)
  BY DEF Engaged
<1>t. HelperServes => AnswerOf(a)'
  <2>1. HelperServes => UNCHANGED pc
    BY DEF HelperServes, client
  <2> QED
    BY <1>i, <1>e, <2>1, AnswerServed
(* Only a list that is served changes what was reported.                   *)
<1> SUFFICES ASSUME reported' = reported PROVE AnswerOf(a)'
  BY <1>t, ReportedKept
(* A step that does not concern a. *)
<1>k. ASSUME pc'[a] = pc[a], lines'[a] = lines[a], a # "setup" => mine'[a] = mine[a] /\ job'[a] = job[a],
             UNCHANGED <<buffer, chunk, toClient, writing>>, MoreAtMostShutdown,
             child' = "serving" <=> child = "serving", state' = "running" => state = "running"
      PROVE  AnswerOf(a)'
  <2>1. Flow(a)' = Flow(a)
    BY <1>k DEF Flow
  <2> QED
    BY <1>i, <1>e, <1>k, <2>1, AnswerKeeps
(* A step with which the helper is gone. *)
<1>d. ASSUME pc'[a] = pc[a], UNCHANGED <<lines, mine, job, buffer, chunk>>, writing' = <<>>, toHelper' = <<>>,
             toClient' = toClient \/ toClient' = <<>>,
             child' # "serving", state' = "running" => state = "running"
      PROVE  AnswerOf(a)'
  <2>1. IsBeginning(Flow(a)', Flow(a))
    BY <1>d, FlowEnds
  <2> QED
    BY <1>i, <1>e, <1>d, <2>1, AnswerEnds
<1>1. ASSUME Setup PROVE AnswerOf(a)'
  <2>1. /\ pc["setup"] # "over" /\ \E label : Goto("setup", label)
        /\ UNCHANGED <<lines, mine, job>>
    BY <1>1 DEF Setup, NothingStarted, FindExecutable, CreatePipe, SpawnFails, Spawn, DeliverToken,
                AwaitConnection, PeerVerified, HandshakeDone, StartTakenBack, Step, SetupFails, locals
  <2>2. a = "setup"
    <3>1. ASSUME a \in Callers PROVE FALSE
      <4>1. pc[a] = "idle" /\ pc'[a] = pc[a]
        BY <1>a, <1>p, <2>1, <3>1 DEF Goto, HelperInv, PlaceInv, CallerPlace
      <4> QED
        BY <1>a, <3>1, <4>1 DEF Engaged, Receiving
    <3> QED
      BY <3>1 DEF Receivers
  <2>3. pc'["setup"] # "over" /\ Engaged(a)
    BY <2>1, <2>2 DEF Engaged
  <2>4. ~NothingStarted /\ ~SpawnFails /\ ~HandshakeDone /\ ~StartTakenBack
    BY <1>a, <1>p, <2>3 DEF NothingStarted, SpawnFails, HandshakeDone, StartTakenBack, SetupFails, Goto
  <2>5. /\ UNCHANGED <<buffer, chunk, toClient, writing, toHelper, state>>
        /\ UNCHANGED child \/ (child' = "starting" /\ child = "none")
    <3>1. Spawn => child = "none"
      BY DEF Spawn, Step, OrphanInv
    <3> QED
      BY <1>1, <2>4, <3>1 DEF Setup, FindExecutable, CreatePipe, Spawn, DeliverToken, AwaitConnection, PeerVerified,
                        pipeVars, process
  <2>6. Flow(a)' = Flow(a)
    BY <2>5 DEF Flow
  <2> QED
    BY <1>i, <2>1, <2>2, <2>3, <2>5, <2>6, AnswerKeeps DEF MoreAtMostShutdown
<1>2. ASSUME NEW b \in Receivers, Receive(b) PROVE AnswerOf(a)'
  <2>1. pc[b] \in {"scan", "wait", "take", "read"} /\ \E label : Goto(b, label)
    BY <1>2 DEF Receive, FeedRest, FeedChunk, TakeLine, ReadFile, ReadBroken, ReadTimesOut, Feed
  <2>2. Engaged(b)
    BY <2>1, OneEngaged DEF Receiving
  <2>3. a = b
    <3>1. a # b => pc'[a] = pc[a]
      BY <1>a, <1>p, <2>1 DEF Goto
    <3> QED
      BY <1>e, <2>2, <3>1, OneEngaged
  <2>4. CASE TakeLine(b)
    BY <1>i, <2>2, <2>3, <2>4, LineTaken
  <2>5. CASE ~TakeLine(b)
    <3>1. Flow(a)' = Flow(a)
      BY <1>2, <2>3, <2>5, ReadKeepsFlow
    <3>2. UNCHANGED <<toHelper, child, state, mine, job>>
      BY <1>2 DEF Receive, FeedRest, FeedChunk, TakeLine, ReadFile, ReadBroken, ReadTimesOut,
                  pipeVars, process, locals
    <3>3. lines'[a] = lines[a]
      <4>1. pc[b] # "take" => lines[b] = <<>>
        BY <2>1 DEF ReadInv, ReadOf
      <4>2. FeedRest(b) \/ FeedChunk(b) => lines' = [lines EXCEPT ![b] = <<>>] /\ pc[b] # "take"
        BY DEF FeedRest, FeedChunk, Feed
      <4>3. ReadFile(b) \/ ReadBroken(b) \/ ReadTimesOut(b) => UNCHANGED lines
        BY DEF ReadFile, ReadBroken, ReadTimesOut, locals
      <4> QED
        BY <1>2, <1>p, <2>3, <2>5, <4>1, <4>2, <4>3 DEF Receive
    <3> QED
      BY <1>i, <2>2, <2>3, <3>1, <3>2, <3>3, AnswerKeeps DEF MoreAtMostShutdown
  <2> QED
    BY <2>4, <2>5
(* A step of a caller that has no request under way afterwards.            *)
<1>c. ASSUME NEW t \in Callers, NEW label, label \notin Receiving, Goto(t, label),
             \A b \in Receivers : b # t => lines'[b] = lines[b],
             \A b \in Callers : b # t => mine'[b] = mine[b] /\ job'[b] = job[b],
             UNCHANGED <<buffer, chunk, toClient, writing, toHelper, child, state>>
      PROVE  AnswerOf(a)'
  <2>1. a # t
    <3>1. pc'[t] = label /\ t # "setup"
      BY <1>a, <1>p, <1>c DEF Goto
    <3> QED
      BY <1>c, <3>1 DEF Engaged
  <2>2. pc'[a] = pc[a]
    BY <1>a, <1>p, <1>c, <2>1 DEF Goto
  <2> QED
    BY <1>k, <1>c, <2>1, <2>2 DEF MoreAtMostShutdown, Receivers
<1>3. ASSUME NEW t \in Callers,
             CheckState(t) \/ WriteFails(t) \/ DiscoverFills(t) \/ \E j : Ask(t, j)
      PROVE  AnswerOf(a)'
  <2>1. UNCHANGED <<buffer, chunk, toClient, writing, toHelper, child, state, lines, mine>>
    BY <1>3 DEF CheckState, WriteFails, DiscoverFills, Ask, pipeVars, process, locals
  <2>2. PICK label \in {"write", "failed", "idle", "fill", "check"} : Goto(t, label)
    BY <1>3 DEF CheckState, WriteFails, DiscoverFills, Ask
  <2>3. \A b \in Callers : b # t => job'[b] = job[b]
    BY <1>3, <1>p DEF CheckState, WriteFails, DiscoverFills, Ask, locals
  <2> QED
    BY <1>c, <2>1, <2>2, <2>3 DEF Receiving
<1>4. ASSUME NEW t \in Callers,
             CallFails(t) \/ Undecodable(t) \/ ReadReturns(t) \/ DiscoverRefused(t) \/ DiscoverResets(t)
      PROVE  AnswerOf(a)'
  <2>1. UNCHANGED <<buffer, chunk, toClient, writing, toHelper, child, state>>
    BY <1>4 DEF CallFails, Undecodable, ReadReturns, DiscoverRefused, DiscoverResets, pipeVars, process
  <2>2. PICK label \in {"idle", "fill"} : Leave(t, label)
    BY <1>4 DEF CallFails, Undecodable, ReadReturns, DiscoverRefused, DiscoverResets
  <2>3. /\ Goto(t, label) /\ label \notin Receiving
        /\ \A b \in Receivers : b # t => lines'[b] = lines[b]
        /\ \A b \in Callers : b # t => mine'[b] = mine[b] /\ job'[b] = job[b]
    BY <1>a, <1>p, <2>2 DEF Leave, Receiving
  <2> QED
    BY <1>c, <2>1, <2>3
(* The request is written to a helper that has said and been asked nothing *)
(* that is not over.                                                       *)
<1>5. ASSUME NEW t \in Callers, WriteFile(t) PROVE AnswerOf(a)'
  <2> PICK new : new = [n |-> sent', job |-> job[t]]
    OBVIOUS
  <2>1. /\ \A u \in Callers : pc[u] \notin Receiving
        /\ pc[t] = "write" /\ Goto(t, "scan") /\ state = "running" /\ Connected
        /\ mine' = [mine EXCEPT ![t] = sent'] /\ toHelper' = Append(toHelper, new)
        /\ UNCHANGED <<toClient, chunk, buffer, state, job, lines, child, writing>>
    BY <1>5 DEF WriteFile, UnderWay, Receiving, process
  <2>2. pc["setup"] = "over" /\ child = "serving"
    BY <2>1 DEF HelperInv, PlaceInv, SetupPlace, QuietInv, Connected
  <2>3. a = t
    <3>1. a # t => pc'[a] = pc[a]
      BY <1>a, <1>p, <2>1 DEF Goto
    <3>2. a # t => a = "setup"
      BY <1>e, <2>1, <3>1 DEF Engaged, Receivers
    <3> QED
      BY <1>e, <2>2, <3>1, <3>2 DEF Engaged
  <2>4. toHelper = <<>> /\ buffer = <<>> /\ toClient = <<>> /\ writing = <<>>
    BY <2>1, <2>2 DEF QuietInv
  <2>5. chunk[a] = <<>> /\ lines[a] = <<>>
    BY <2>1, <2>3 DEF ReadInv, ReadOf
  <2>6. Flow(a)' = <<>> \o (<<>> \o (<<>> \o <<>>))
    BY <2>1, <2>4, <2>5 DEF Flow
  <2>7. Flow(a)' = <<>>
    BY <2>6, ConcatEmptySeq
  <2>8. toHelper' = <<new>>
    BY <2>1, <2>4
  <2>9. Request(a)' = new
    BY <1>p, <2>1, <2>3 DEF Request
  <2>10. toHelper' # <<>> /\ toHelper'[1] = Request(a)' /\ Len(toHelper') = 1
    BY <2>8, <2>9
  <2>11. OnlyShutdown(2)'
    BY <2>10 DEF OnlyShutdown
  <2>12. a # "setup"
    BY <1>a, <2>3
  <2>13. Unserved(a)'
    BY <2>7, <2>10, <2>11, <2>12 DEF Unserved
  <2> QED
    BY <2>1, <2>5, <2>13 DEF AnswerOf
<1>6. ASSUME Shutdown PROVE AnswerOf(a)'
  <2>1. /\ UNCHANGED <<buffer, chunk, lines, mine, job>> /\ \E label : Goto("closer", label)
        /\ state' = "running" => state = "running"
    BY <1>6 DEF Shutdown, ShutdownBegins, ShutdownWrites, ShutdownJoins, ShutdownCloses, Step, locals, pipeVars
  <2>2. pc'[a] = pc[a]
    BY <1>a, <1>p, <2>1 DEF Goto
  <2>3. ASSUME ShutdownBegins PROVE AnswerOf(a)'
    BY <1>k, <2>1, <2>2, <2>3 DEF ShutdownBegins, pipeVars, process, MoreAtMostShutdown
  <2>4. ASSUME ShutdownWrites PROVE AnswerOf(a)'
    <3> PICK q : q = [n |-> Unasked, job |-> [cmd |-> "shutdown", id |-> <<>>]]
      OBVIOUS
    <3>1. q \in RequestSet /\ q.n = Unasked
      BY DEF RequestSet
    <3>2. toHelper' = toHelper \/ toHelper' = Append(toHelper, q)
      BY <2>4 DEF ShutdownWrites
    <3>3. MoreAtMostShutdown
      BY <3>1, <3>2 DEF MoreAtMostShutdown
    <3> QED
      BY <1>k, <2>1, <2>2, <2>4, <3>3 DEF ShutdownWrites, process
  <2>5. ASSUME ShutdownJoins PROVE AnswerOf(a)'
    <3>1. UNCHANGED toClient
      BY <2>5 DEF ShutdownJoins
    <3>2. CASE child = "none"
      BY <1>k, <2>1, <2>2, <2>5, <3>1, <3>2 DEF ShutdownJoins, process, MoreAtMostShutdown
    <3>3. CASE child # "none"
      BY <1>d, <2>1, <2>2, <2>5, <3>1, <3>3 DEF ShutdownJoins, ChildGone
    <3> QED
      BY <3>2, <3>3
  <2>6. ASSUME ShutdownCloses PROVE AnswerOf(a)'
    <3>1. child # "serving" /\ UNCHANGED <<child, writing, toHelper>> /\ toClient' = <<>>
      BY <2>6 DEF ShutdownCloses, Step, OrphanInv, process
    <3>2. toHelper = <<>> /\ writing = <<>>
      BY <3>1 DEF QuietInv
    <3> QED
      BY <1>d, <2>1, <2>2, <3>1, <3>2
  <2> QED
    BY <1>6, <2>3, <2>4, <2>5, <2>6 DEF Shutdown
<1>7. ASSUME HelperProcess PROVE AnswerOf(a)'
  <2>1. UNCHANGED <<pc, state, lines, buffer, mine, job>>
    BY <1>7 DEF HelperProcess, HelperConnects, HelperSaysHello, HelperServes, HelperWrites, HelperExits,
                HelperOnly, client, pipeVars
  <2>2. Engaged(a) /\ AnswerOf(a)
    BY <1>i, <1>e, <2>1
  <2>3. ASSUME HelperConnects PROVE AnswerOf(a)'
    BY <1>k, <2>1, <2>3 DEF HelperConnects, pipeVars, MoreAtMostShutdown
  <2>4. ASSUME HelperSaysHello PROVE AnswerOf(a)'
    BY <2>2, <2>4, HelloSaid
  <2>5. ASSUME HelperServes PROVE AnswerOf(a)'
    BY <1>t, <2>5
  <2>6. ASSUME HelperWrites PROVE AnswerOf(a)'
    <3>1. writing # <<>> /\ PutPiece(Head(writing)) /\ writing' = Tail(writing)
          /\ UNCHANGED <<child, toHelper>>
      BY <2>6 DEF HelperWrites
    <3>2. writing \in Seq(PieceSet)
      BY DEF HelperInv, TypeOK
    <3>3. Flow(a)' = buffer \o (chunk[a] \o (toClient \o writing))
      BY <2>1, <2>2, <3>1, <3>2, PutFlow
    <3>4. Flow(a)' = Flow(a)
      BY <3>3 DEF Flow
    <3> QED
      BY <2>1, <2>2, <3>1, <3>4, AnswerKeeps DEF MoreAtMostShutdown
  <2>7. ASSUME HelperExits PROVE AnswerOf(a)'
    BY <1>d, <2>1, <2>7 DEF HelperExits, ChildGone
  <2> QED
    BY <1>7, <2>3, <2>4, <2>5, <2>6, <2>7 DEF HelperProcess
<1>8. ASSUME UNCHANGED vars \/ \E t \in Callers : ThreadEnds(t) PROVE AnswerOf(a)'
  BY <1>k, <1>8 DEF vars, pipeVars, client, process, ThreadEnds, MoreAtMostShutdown
<1> QED
  BY <1>1, <1>2, <1>3, <1>4, <1>5, <1>6, <1>7, <1>8
     DEF Next, Receivers, Callers, Call, HelperDown, Discover, Read, ReadUnknown

-----------------------------------------------------------------------------
(* Out of step is out of step for good, and no answer is missed then. *)
LEMMA OutOfStep ==
  ASSUME [Next]_vars, ~outOfTurn
  PROVE  (inStep' => inStep) /\ (~inStep' => ~outOfTurn')
<1>1. ASSUME NEW t \in Callers, WriteFile(t) PROVE (inStep' => inStep) /\ ~outOfTurn'
  BY <1>1 DEF WriteFile
<1>2. ASSUME NEW a \in Receivers, ReadTimesOut(a) PROVE ~inStep' /\ ~outOfTurn'
  BY <1>2 DEF ReadTimesOut
<1>3. ASSUME NEW t \in Callers, NEW own, Deserved(t, own), UNCHANGED inStep
      PROVE  (inStep' => inStep) /\ (~inStep' => ~outOfTurn')
  BY <1>3 DEF Deserved
<1>4. ASSUME NEW t \in Callers,
             CallFails(t) \/ Undecodable(t) \/ ReadReturns(t) \/ DiscoverRefused(t) \/ DiscoverResets(t)
      PROVE  (inStep' => inStep) /\ (~inStep' => ~outOfTurn')
  <2>1. UNCHANGED inStep /\ \E own : Deserved(t, own)
    BY <1>4 DEF CallFails, Undecodable, ReadReturns, DiscoverRefused, DiscoverResets
  <2> QED
    BY <1>3, <2>1
<1>5. ASSUME NEW t \in Callers, CheckState(t) \/ WriteFails(t) \/ DiscoverFills(t) \/ ThreadEnds(t) \/ \E j : Ask(t, j)
      PROVE  UNCHANGED <<inStep, outOfTurn>>
  BY <1>5 DEF CheckState, WriteFails, DiscoverFills, ThreadEnds, Ask, history
<1>6. ASSUME NEW a \in Receivers, Receive(a), ~ReadTimesOut(a) PROVE UNCHANGED <<inStep, outOfTurn>>
  BY <1>6 DEF Receive, FeedRest, FeedChunk, TakeLine, ReadFile, ReadBroken, history
<1>7. ASSUME Setup PROVE UNCHANGED <<inStep, outOfTurn>>
  BY <1>7 DEF Setup, NothingStarted, FindExecutable, CreatePipe, SpawnFails, Spawn, DeliverToken,
              AwaitConnection, PeerVerified, HandshakeDone, StartTakenBack, history
<1>8. ASSUME Shutdown PROVE UNCHANGED <<inStep, outOfTurn>>
  BY <1>8 DEF Shutdown, ShutdownBegins, ShutdownWrites, ShutdownJoins, ShutdownCloses, history
<1>9. ASSUME HelperProcess PROVE UNCHANGED <<inStep, outOfTurn>>
  BY <1>9 DEF HelperProcess, HelperConnects, HelperSaysHello, HelperServes, HelperWrites, HelperExits,
              HelperOnly, history
<1>10. ASSUME UNCHANGED vars PROVE UNCHANGED <<inStep, outOfTurn>>
  BY <1>10 DEF vars, history
<1> DEFINE Goal == (inStep' => inStep) /\ (~inStep' => ~outOfTurn')
<1>11. ASSUME UNCHANGED <<inStep, outOfTurn>> PROVE Goal
  BY <1>11
<1>12. ASSUME NEW a \in Receivers, Receive(a) PROVE Goal
  BY <1>2, <1>6, <1>11, <1>12
<1>13. ASSUME NEW t \in Callers, Call(t) \/ ThreadEnds(t) \/ \E j : Ask(t, j) PROVE Goal
  BY <1>1, <1>4, <1>5, <1>11, <1>13 DEF Call
<1>14. ASSUME Setup \/ Shutdown \/ HelperProcess \/ UNCHANGED vars PROVE Goal
  BY <1>7, <1>8, <1>9, <1>10, <1>11, <1>14
<1> HIDE DEF Goal
<1>15. Goal
  BY <1>12, <1>13, <1>14 DEF Next, Receivers, Callers, HelperDown, Discover, Read, ReadUnknown
<1> QED
  BY <1>15 DEF Goal

LEMMA StepInitially == Init => OrphanInv /\ StepInv
<1> SUFFICES ASSUME Init PROVE OrphanInv /\ StepInv
  OBVIOUS
<1>a. /\ Callers \subseteq Actors /\ "setup" \in Actors /\ "closer" \in Actors
      /\ "setup" \notin Callers /\ "closer" \notin Callers
  BY CallersAssumption DEF Actors
<1>1. /\ pc["setup"] = "file" /\ pc["closer"] = "idle" /\ \A t \in Callers : pc[t] = "idle"
      /\ pipe = "none" /\ toHelper = <<>> /\ toClient = <<>> /\ pending = <<>> /\ buffer = <<>>
      /\ \A a \in Receivers : chunk[a] = <<>> /\ lines[a] = <<>>
      /\ state = "not_running" /\ child = "none" /\ writing = <<>>
      /\ \A t \in Callers : mine[t] = 0
      /\ ~outOfTurn
  BY <1>a DEF Init, PipeInit, Receivers
<1>2. OrphanInv
  BY <1>1 DEF OrphanInv, NoOrphan, Connected
<1>3. TurnInv /\ QuietInv
  BY <1>1 DEF TurnInv, TurnOf, QuietInv, Receiving, Receivers
<1>4. ReadInv
  BY <1>1 DEF ReadInv, ReadOf, Receivers
<1>5. AnswerInv
  <2> SUFFICES ASSUME NEW a \in Receivers, Engaged(a) PROVE AnswerOf(a)
    BY DEF AnswerInv
  <2>1. a = "setup"
    BY <1>1 DEF Engaged, Receivers, Receiving
  <2>2. Flow(a) = <<>> \o (<<>> \o (<<>> \o <<>>))
    BY <1>1 DEF Flow
  <2>3. Flow(a) = <<>>
    BY <2>2, ConcatEmptySeq
  <2> QED
    BY <1>1, <2>1, <2>3 DEF AnswerOf, Unserved
<1> QED
  BY <1>1, <1>2, <1>3, <1>4, <1>5 DEF StepInv

LEMMA StepStep == HelperInv /\ OrphanInv /\ StepInv /\ HelperInv' /\ [Next]_vars => StepInv'
<1> SUFFICES ASSUME HelperInv, OrphanInv, StepInv, HelperInv', [Next]_vars PROVE StepInv'
  OBVIOUS
<1>1. (inStep' => inStep) /\ (~inStep' => ~outOfTurn')
  BY OutOfStep DEF StepInv
<1>2. ASSUME inStep' PROVE StepInv'
  <2>1. StepParts /\ inStep
    BY <1>1, <1>2 DEF StepInv, StepParts
  <2>2. TurnInv' /\ ReadInv' /\ AnswerInv'
    BY <1>2, <2>1, TurnStep, ReadStep, AnswerStep
  <2>3. QuietInv'
    BY <1>2, <2>1, <2>2, QuietStep
  <2> QED
    BY <2>2, <2>3 DEF StepInv, TurnInv
<1>3. ASSUME ~inStep' PROVE StepInv'
  BY <1>1, <1>3 DEF StepInv
<1> QED
  BY <1>2, <1>3

LEMMA InStep == Spec => [](HelperInv /\ OrphanInv /\ StepInv)
<1>1. HelperInv /\ [Next]_vars => HelperInv'
  BY HelperTypeStep, PlaceStep DEF HelperInv
<1> QED
  BY <1>1, HelperInitially, StepInitially, OrphanStep, StepStep, PTL DEF Spec

(* OwnAnswer: while requests are made one after the other, each takes its  *)
(* own answer, whichever threads make them, in however many pieces and     *)
(* reads the answer comes; one fails only when helper or pipe are gone.    *)
THEOREM EachItsAnswer == Spec => []OwnAnswer
<1>1. StepInv => OwnAnswer
  BY DEF StepInv, OwnAnswer
<1> QED
  BY <1>1, InStep, PTL

-----------------------------------------------------------------------------
(* The map follows the list.                                               *)

Entered(r) == map[Minted[r]] # NoRecord /\ Minted[map[Minted[r]]] = Minted[r]
Filling(t) == pc[t] = "fill"
Members(w) == {w[i] : i \in 1..Len(w)}
Due(t) == Members(left[t])

(* Of the list that was taken last, each record is in the map, or a        *)
(* discover() that emptied the map has still to enter it.                  *)
ListedOf(r) == Entered(r) \/ \E t \in Callers : Filling(t) /\ r \in Due(t)
(* Nothing else is in the map or to come into it, unless one discover()    *)
(* emptied it while another was filling it.                                *)
Alien ==
  \/ \E t, u \in Callers : Filling(t) /\ Filling(u) /\ t # u
  \/ \E t \in Callers : Filling(t) /\ ~(Due(t) \subseteq taken)
  \/ \E id \in MintedIds : map[id] # NoRecord /\ ~(map[id] \in taken /\ Minted[map[id]] = id)
MapInv ==
  inStep =>
    /\ \A r \in taken : Minted[r] # Unmapped => ListedOf(r)
    /\ crossed \/ ~Alien

(* The list that discover() got is the latest that the helper made.        *)
LEMMA ListIsLatest ==
  ASSUME HelperInv, TurnInv, AnswerInv, NEW t \in Callers, Decoded(t, "list"), LineOf(t)[1].listed
  PROVE  Sensors(t) \in Seq(Records) /\ Members(Sensors(t)) = reported
<1>1. pc[t] = "got" /\ job[t].cmd = "list"
  BY DEF Decoded
<1>2. LineOf(t) \in AnswersFor(t) /\ t # "setup"
  BY <1>1, GotOwn, CallersAssumption
<1>3. Found(LineOf(t)) = reported
  BY <1>1, <1>2 DEF AnswersFor, Told
<1>4. Sensors(t) \in Seq(Records)
  BY <1>1, SensorsType DEF HelperInv, PlaceInv, GotLine, Receivers, Decoded
<1>5. DOMAIN Sensors(t) = 1..Len(Sensors(t))
  BY <1>4
<1> QED
  BY <1>3, <1>4, <1>5 DEF Found, Members, Sensors

LEMMA HeadIsDue ==
  ASSUME NEW S, NEW w \in Seq(S), w # <<>>
  PROVE  /\ Head(w) \in S /\ Tail(w) \in Seq(S)
         /\ Members(w) = {Head(w)} \cup Members(Tail(w))
<1> PICK h, rest : h = Head(w) /\ rest = Tail(w)
  OBVIOUS
<1>1. /\ h \in S /\ h = w[1] /\ rest \in Seq(S) /\ Len(w) \in Nat /\ Len(rest) = Len(w) - 1 /\ Len(w) > 0
      /\ \A i \in 1..(Len(w) - 1) : rest[i] = w[i + 1]
  OBVIOUS
<1>2. ASSUME NEW i \in 1..Len(w) PROVE w[i] = h \/ \E j \in 1..Len(rest) : w[i] = rest[j]
  <2>1. i = 1 \/ (i - 1 \in 1..(Len(w) - 1) /\ (i - 1) + 1 = i)
    BY <1>1
  <2> QED
    BY <1>1, <2>1
<1>3. ASSUME NEW j \in 1..Len(rest) PROVE \E i \in 1..Len(w) : w[i] = rest[j]
  <2>1. j + 1 \in 1..Len(w) /\ j \in 1..(Len(w) - 1)
    BY <1>1
  <2> QED
    BY <1>1, <2>1
<1>4. 1 \in 1..Len(w)
  BY <1>1
<1>5. Members(w) = {h} \cup Members(rest)
  BY <1>1, <1>2, <1>3, <1>4 DEF Members
<1> QED
  BY <1>1, <1>5

LEMMA MapStep == HelperInv /\ OrphanInv /\ StepInv /\ MapInv /\ [Next]_vars => MapInv'
<1> SUFFICES ASSUME HelperInv, OrphanInv, StepInv, MapInv, [Next]_vars, inStep'
             PROVE  /\ \A r \in taken' : Minted[r] # Unmapped => ListedOf(r)'
                    /\ crossed' \/ ~Alien'
  BY DEF MapInv
<1> DEFINE Goal == /\ \A r \in taken' : Minted[r] # Unmapped => ListedOf(r)'
                   /\ crossed' \/ ~Alien'
<1>i. /\ inStep /\ TurnInv /\ AnswerInv
      /\ \A r \in taken : Minted[r] # Unmapped => ListedOf(r)
      /\ crossed \/ ~Alien
  BY OutOfStep DEF StepInv, MapInv
<1>p. /\ pc \in [Actors -> Labels] /\ left \in [Callers -> Seq(Records)]
      /\ map \in [MintedIds -> Records \cup {NoRecord}] /\ Callers \subseteq Actors
      /\ taken \subseteq Records /\ reported \subseteq Records
  BY DEF HelperInv, TypeOK, Labels, Actors
<1>n. NoRecord \notin Records
  BY RecordsAssumption
<1>k. ASSUME UNCHANGED <<left, map, taken, crossed>>, \A t \in Callers : Filling(t) <=> Filling(t)'
      PROVE  Goal
  <2>1. \A t \in Callers : Due(t)' = Due(t)
    BY <1>k DEF Due
  <2>2. \A r \in taken : ListedOf(r) => ListedOf(r)'
    BY <1>k, <2>1 DEF ListedOf, Entered
  <2>3. Alien' => Alien
    BY <1>k, <2>1 DEF Alien
  <2> QED
    BY <1>i, <1>k, <2>2, <2>3
<1>g. ASSUME NEW a \in Actors, NEW label, Goto(a, label), label # "fill", pc[a] # "fill",
             UNCHANGED <<left, map, taken, crossed>>
      PROVE  Goal
  <2>1. \A t \in Callers : Filling(t) <=> Filling(t)'
    BY <1>g, <1>p DEF Goto, Filling
  <2> QED
    BY <1>g, <1>k, <2>1
<1> HIDE DEF Goal
<1>1. ASSUME Setup PROVE Goal
  <2>1. UNCHANGED <<left, map, taken, crossed>>
    BY <1>1 DEF Setup, NothingStarted, FindExecutable, CreatePipe, SpawnFails, Spawn, DeliverToken,
                AwaitConnection, PeerVerified, HandshakeDone, StartTakenBack, adapter, history
  <2>2. pc["setup"] # "fill" /\ \E label : Goto("setup", label) /\ label # "fill"
    BY <1>1 DEF Setup, NothingStarted, FindExecutable, CreatePipe, SpawnFails, Spawn, DeliverToken,
                AwaitConnection, PeerVerified, HandshakeDone, StartTakenBack, Step, SetupFails
  <2> QED
    BY <1>g, <2>1, <2>2 DEF Actors
<1>2. ASSUME NEW a \in Receivers, Receive(a) PROVE Goal
  <2>1. UNCHANGED <<left, map, taken, crossed>>
    BY <1>2 DEF Receive, FeedRest, FeedChunk, TakeLine, ReadFile, ReadBroken, ReadTimesOut, adapter, history
  <2>2. pc[a] # "fill"
    BY <1>2 DEF Receive, FeedRest, FeedChunk, TakeLine, ReadFile, ReadBroken, ReadTimesOut
  <2>3. PICK label \in {"take", "read", "scan", "wait", "failed", "got"} : Goto(a, label)
    BY <1>2 DEF Receive, FeedRest, FeedChunk, TakeLine, ReadFile, ReadBroken, ReadTimesOut, Feed
  <2> QED
    BY <1>g, <2>1, <2>2, <2>3 DEF Actors, Receivers
<1>3. ASSUME NEW t \in Callers,
             \/ CheckState(t) \/ WriteFails(t) \/ WriteFile(t)
             \/ \E j : Ask(t, j) /\ Ready(t)
      PROVE  Goal
  <2>1. UNCHANGED <<left, map, taken, crossed>>
    BY <1>3 DEF CheckState, WriteFails, WriteFile, Ask, adapter, history
  <2>2. pc[t] # "fill"
    BY <1>3 DEF CheckState, WriteFails, WriteFile, Ask, Ready
  <2>3. PICK label \in {"write", "failed", "check", "scan"} : Goto(t, label)
    BY <1>3 DEF CheckState, WriteFails, WriteFile, Ask
  <2> QED
    BY <1>g, <1>p, <2>1, <2>2, <2>3
<1>4. ASSUME NEW t \in Callers,
             CallFails(t) \/ Undecodable(t) \/ ReadReturns(t) \/ DiscoverRefused(t)
      PROVE  Goal
  <2>1. UNCHANGED <<left, map, taken, crossed>>
    BY <1>4 DEF CallFails, Undecodable, ReadReturns, DiscoverRefused, adapter
  <2>2. pc[t] # "fill" /\ Goto(t, "idle")
    BY <1>4 DEF CallFails, Undecodable, ReadReturns, DiscoverRefused, Decoded, Leave
  <2> QED
    BY <1>g, <1>p, <2>1, <2>2
(* The map is emptied: all that is listed is due, and nothing else unless   *)
(* another thread is filling the map.                                      *)
<1>5. ASSUME NEW t \in Callers, DiscoverResets(t) PROVE Goal
  <2> PICK sensors : sensors = Sensors(t)
    OBVIOUS
  <2> PICK label : label = IF sensors = <<>> THEN "idle" ELSE "fill"
    OBVIOUS
  <2>1. /\ left' = [left EXCEPT ![t] = sensors] /\ Goto(t, label)
        /\ map' = [id \in MintedIds |-> NoRecord]
        /\ taken' = reported /\ crossed' = (\E u \in Callers \ {t} : pc[u] = "fill")
        /\ Decoded(t, "list") /\ LineOf(t)[1].listed
    BY <1>5 DEF DiscoverResets, Leave
  <2>2. sensors \in Seq(Records) /\ Members(sensors) = reported
    BY <1>i, <2>1, ListIsLatest
  <2>3. /\ left'[t] = sensors /\ pc'[t] = label
        /\ \A u \in Callers : u # t => pc'[u] = pc[u] /\ left'[u] = left[u]
    BY <1>p, <2>1 DEF Goto
  <2>4. Due(t)' = taken'
    BY <2>1, <2>2, <2>3 DEF Due
  <2>5. taken' # {} => Filling(t)'
    <3>1. sensors = <<>> => reported = {}
      <4>1. sensors = <<>> => Len(sensors) = 0
        OBVIOUS
      <4> QED
        BY <2>2, <4>1 DEF Members
    <3> QED
      BY <2>1, <2>3, <3>1 DEF Filling
  <2>6. \A r \in taken' : ListedOf(r)'
    BY <2>4, <2>5 DEF ListedOf
  <2>7. crossed' \/ \A u \in Callers : Filling(u)' => u = t
    BY <2>1, <2>3 DEF Filling
  <2>8. \A id \in MintedIds : map'[id] = NoRecord
    BY <2>1
  <2>9. crossed' \/ ~Alien'
    BY <2>4, <2>7, <2>8 DEF Alien
  <2> QED
    BY <2>6, <2>9 DEF Goal
<1>6. ASSUME NEW t \in Callers, DiscoverFills(t) PROVE Goal
  <2> PICK q, rest : q = Head(left[t]) /\ rest = Tail(left[t])
    OBVIOUS
  <2>1. left[t] \in Seq(Records) /\ left[t] # <<>> /\ pc[t] = "fill"
    BY <1>p, <1>6 DEF DiscoverFills, HelperInv, PlaceInv, CallerPlace
  <2>2. q \in Records /\ rest \in Seq(Records)
        /\ Due(t) = {q} \cup Members(rest)
    <3> PICK w : w = left[t]
      OBVIOUS
    <3>1. w \in Seq(Records) /\ w # <<>> /\ q = Head(w) /\ rest = Tail(w)
      BY <2>1
    <3>2. /\ Head(w) \in Records /\ Tail(w) \in Seq(Records)
          /\ Members(w) = {Head(w)} \cup Members(Tail(w))
      BY <3>1, HeadIsDue
    <3>3. Due(t) = Members(w)
      BY DEF Due
    <3> QED
      BY <3>1, <3>2, <3>3
  <2>3. left'[t] = rest /\ \A u \in Callers : u # t => left'[u] = left[u]
    BY <1>p, <1>6 DEF DiscoverFills
  <2>4. /\ pc'[t] = IF rest = <<>> THEN "idle" ELSE "fill"
        /\ \A u \in Callers : u # t => pc'[u] = pc[u]
    BY <1>p, <1>6, <2>3 DEF DiscoverFills, Goto
  <2>5. map' = IF Minted[q] = Unmapped THEN map ELSE [map EXCEPT ![Minted[q]] = q]
    BY <1>6 DEF DiscoverFills
  <2>6. UNCHANGED <<taken, crossed>>
    BY <1>6 DEF DiscoverFills, history
  <2>7. Due(t)' = Members(rest) /\ \A u \in Callers : u # t => Due(u)' = Due(u)
    BY <2>3 DEF Due
  <2>8. Due(t)' # {} => Filling(t)'
    <3>1. rest = <<>> => Len(rest) = 0
      OBVIOUS
    <3>2. rest = <<>> => Due(t)' = {}
      BY <2>7, <3>1 DEF Members
    <3> QED
      BY <2>4, <3>2 DEF Filling
  <2>9. Filling(t) /\ \A u \in Callers : (Filling(u)' => Filling(u)) /\ (u # t => (Filling(u)' <=> Filling(u)))
    BY <2>1, <2>4 DEF Filling
  <2>10. \A id \in MintedIds : map'[id] = map[id] \/ (map'[id] = q /\ Minted[q] = id)
    BY <1>p, <2>5
  <2>11. ASSUME NEW r \in taken, Minted[r] # Unmapped PROVE ListedOf(r)'
    <3>1. Minted[r] \in MintedIds
      BY <1>p, <2>11 DEF MintedIds
    <3>2. CASE Entered(r)
      BY <1>n, <2>2, <2>10, <3>1, <3>2 DEF ListedOf, Entered
    <3>3. CASE r = q
      <4>1. map'[Minted[r]] = q
        BY <1>p, <2>5, <2>11, <3>1, <3>3
      <4> QED
        BY <1>n, <2>2, <3>3, <4>1 DEF ListedOf, Entered
    <3>4. ASSUME NEW u \in Callers, Filling(u), r \in Due(u), r # q PROVE ListedOf(r)'
      <4>1. r \in Due(u)'
        BY <2>2, <2>7, <3>4
      <4>2. Filling(u)'
        BY <2>8, <2>9, <3>4, <4>1
      <4> QED
        BY <4>1, <4>2 DEF ListedOf
    <3> QED
      BY <1>i, <2>11, <3>2, <3>3, <3>4 DEF ListedOf
  <2>12. ASSUME ~Alien PROVE ~Alien'
    <3>1. Due(t) \subseteq taken /\ q \in taken
      BY <2>2, <2>9, <2>12 DEF Alien
    <3>2. \A id \in MintedIds : map'[id] # NoRecord => map'[id] \in taken /\ Minted[map'[id]] = id
      BY <2>10, <2>12, <3>1 DEF Alien
    <3>3. \A u \in Callers : Filling(u)' => Due(u)' \subseteq taken
      BY <2>2, <2>7, <2>9, <2>12, <3>1 DEF Alien
    <3>4. \A u, v \in Callers : Filling(u)' /\ Filling(v)' => u = v
      BY <2>9, <2>12 DEF Alien
    <3> QED
      BY <2>6, <3>2, <3>3, <3>4 DEF Alien
  <2> QED
    BY <1>i, <2>6, <2>11, <2>12 DEF Goal
<1>7. ASSUME Shutdown PROVE Goal
  <2>1. UNCHANGED <<left, map, taken, crossed>> /\ pc["closer"] # "fill"
    BY <1>7 DEF Shutdown, ShutdownBegins, ShutdownWrites, ShutdownJoins, ShutdownCloses, Step, adapter, history
  <2>2. PICK label \in {"send", "join", "close", "done"} : Goto("closer", label)
    BY <1>7 DEF Shutdown, ShutdownBegins, ShutdownWrites, ShutdownJoins, ShutdownCloses, Step
  <2> QED
    BY <1>g, <2>1, <2>2 DEF Actors
<1>8. ASSUME HelperProcess PROVE Goal
  <2>1. UNCHANGED <<left, map, taken, crossed, pc>>
    BY <1>8 DEF HelperProcess, HelperConnects, HelperSaysHello, HelperServes, HelperWrites, HelperExits,
                HelperOnly, client, adapter, history
  <2> QED
    BY <1>k, <2>1 DEF Filling
<1>9. ASSUME UNCHANGED vars \/ \E t \in Callers : ThreadEnds(t) PROVE Goal
  <2>1. UNCHANGED <<left, map, taken, crossed, pc>>
    BY <1>9 DEF vars, ThreadEnds, client, adapter, history
  <2> QED
    BY <1>k, <2>1 DEF Filling
<1> QED
  <2>1. Goal
    BY <1>1, <1>2, <1>3, <1>4, <1>5, <1>6, <1>7, <1>8, <1>9
       DEF Next, Receivers, Callers, Call, HelperDown, Discover, Read, ReadUnknown
  <2> QED
    BY <2>1 DEF Goal

(* MapAsListed: while requests are made one after the other and nobody is  *)
(* filling the map, what read() finds in the map is the list that a        *)
(* discover() took last: all of it, whatever the later calls came to, and  *)
(* nothing else unless two of them were filling the map at once.           *)
THEOREM MapFollowsList == Spec => []MapAsListed
<1>1. Init => MapInv
  BY CallersAssumption DEF Init, MapInv, Alien, Filling, Actors
<1>2. MapInv => MapAsListed
  BY DEF MapInv, ListedOf, Alien, MapAsListed, Entered, Filling
<1> QED
  BY <1>1, <1>2, InStep, MapStep, PTL DEF Spec
=============================================================================
