----------------------------- MODULE HelperPipe -----------------------------
(***************************************************************************)
(* The named pipe between the HelperClient (helper/client.py) and the      *)
(* helper process, with the LineFramer (helper/protocol.py) on the         *)
(* client's side of it.                                                    *)
(*                                                                         *)
(* The pipe is read by bytes, so what a read returns need not be a line.   *)
(* A line is one or more pieces, a piece being what one write of the       *)
(* helper's StreamWriter puts into the pipe: the answer to list is longer  *)
(* than the writer's buffer and takes two.                                 *)
(*                                                                         *)
(* ReadFile is overlapped.  _read_pipe_chunk gives up after its timeout    *)
(* without cancelling the read, which stays with the pipe and takes the    *)
(* data of the next write; Windows cancels it when the thread that issued  *)
(* it ends.                                                                *)
(***************************************************************************)
EXTENDS Naturals, Sequences

VARIABLES
  pipe,      (* HelperClient._pipe_handle: "none" or "open" *)
  toHelper,  (* requests in the pipe *)
  toClient,  (* pieces in the pipe that no read has taken *)
  pending,   (* overlapped reads that have not completed, oldest first *)
  chunk,     (* what the completed read of each thread returned *)
  buffer     (* LineFramer._buffer *)

pipeVars == <<pipe, toHelper, toClient, pending, chunk, buffer>>

PipeInit(actors) ==
  /\ pipe = "none"
  /\ toHelper = <<>>
  /\ toClient = <<>>
  /\ pending = <<>>
  /\ chunk = [a \in actors |-> <<>>]
  /\ buffer = <<>>

(* The piece number part, of all, of the answer to request n.  The answer  *)
(* carries a list of sensors, if only an empty one, or none at all.        *)
Piece(n, part, all, listed, sensors) ==
  [n |-> n, part |-> part, all |-> all, listed |-> listed, sensors |-> sensors]
Hello == Piece(0, 1, 1, FALSE, <<>>)
EndsLine(p) == p.part = p.all

(* A write of the helper goes to the oldest pending read.  If nobody waits *)
(* for that read any more the piece is gone.                               *)
PutPiece(p) ==
  IF pending = <<>>
    THEN /\ toClient' = Append(toClient, p)
         /\ UNCHANGED <<pending, chunk>>
    ELSE /\ pending' = Tail(pending)
         /\ chunk' = IF Head(pending).live
                       THEN [chunk EXCEPT ![Head(pending).by] = <<p>>]
                       ELSE chunk
         /\ UNCHANGED toClient

(* ReadFile returns everything that is there, or stays pending. *)
IssueRead(a) ==
  IF toClient # <<>>
    THEN /\ chunk' = [chunk EXCEPT ![a] = toClient]
         /\ toClient' = <<>>
         /\ UNCHANGED pending
    ELSE /\ pending' = Append(pending, [by |-> a, live |-> TRUE])
         /\ UNCHANGED <<chunk, toClient>>

Reading(a) == \E i \in DOMAIN pending : pending[i] = [by |-> a, live |-> TRUE]

(* The wait for the read is over, the read is not. *)
AbandonRead(a) ==
  pending' = [i \in DOMAIN pending |->
               IF pending[i].by = a THEN [by |-> a, live |-> FALSE] ELSE pending[i]]

(* The end of thread a takes the reads it left behind with it. *)
CancelReads(a) == pending' = SelectSeq(pending, LAMBDA e : e.by # a)

(* LineFramer: where the first newline of b is, 0 if there is none. *)
FirstEnd(b) ==
  IF \E i \in DOMAIN b : EndsLine(b[i])
    THEN CHOOSE i \in DOMAIN b :
           EndsLine(b[i]) /\ \A j \in 1..(i - 1) : ~EndsLine(b[j])
    ELSE 0

(* What slicing at a position does although the buffer may have become     *)
(* shorter since the position was found.                                   *)
UpTo(b, i) == SubSeq(b, 1, IF i <= Len(b) THEN i ELSE Len(b))
After(b, i) == SubSeq(b, i + 1, Len(b))

(* decode_response: the pieces of one answer, all of them and in order.    *)
(* Anything else, and the HELLO line (number 0), is not a JSON object.     *)
Decodes(line) ==
  /\ line # <<>>
  /\ line[1].n > 0
  /\ Len(line) = line[1].all
  /\ \A i \in DOMAIN line : line[i].n = line[1].n /\ line[i].part = i
=============================================================================
