----------------------------- MODULE Microphone -----------------------------
(***************************************************************************)
(* A stream of the microphone (adapters/windows/winrt_audio.py) and the    *)
(* thread of Stream that takes its blocks.  The audio graph is native; it  *)
(* is opened by open_stream() and by nothing else.                         *)
(*                                                                         *)
(* Stream (registry/streaming.py) has a module of its own; here it is the  *)
(* producer thread's state and a ring that holds blocks or none.           *)
(***************************************************************************)
EXTENDS Naturals

VARIABLES
  graph,     (* "none", "created", "running", "closed" *)
  denied,    (* the sensor is in _permission_denied_ids *)
  closed,    (* _closed of the stream source *)
  producer,  (* "none", "idle", "polling", "over" *)
  ring,      (* "empty", "blocks", "ended" *)
  stopping   (* the stream's stop event *)

micVars == <<graph, denied, closed, producer, ring, stopping>>

MicInit ==
  /\ graph = "none"
  /\ denied = FALSE
  /\ closed = FALSE
  /\ producer = "none"
  /\ ring = "empty"
  /\ stopping = FALSE

-----------------------------------------------------------------------------
(* _open, step by step; every way to fail raises DeviceOpenError, except   *)
(* that what is called on the finished node may raise anything.            *)

DeviceMissing ==
  /\ graph = "none"
  /\ UNCHANGED micVars

GraphCreated ==
  /\ graph = "none"
  /\ graph' = "created"
  /\ UNCHANGED <<denied, closed, producer, ring, stopping>>

GraphRefused ==
  /\ graph = "none"
  /\ UNCHANGED micVars

NodeRefused(access) ==
  /\ graph = "created"
  /\ graph' = "closed"
  /\ denied' = (denied \/ access = "denied")
  /\ UNCHANGED <<closed, producer, ring, stopping>>

(* Nothing closes the graph here. *)
NodeBreaks ==
  /\ graph = "created"
  /\ UNCHANGED micVars

(* The graph is started, and the constructor of Stream starts the thread. *)
StreamStarts ==
  /\ graph = "created"
  /\ graph' = "running"
  /\ producer' = "idle"
  /\ UNCHANGED <<denied, closed, ring, stopping>>

-----------------------------------------------------------------------------
(* The producer thread: next_block and the push into the ring.             *)

NextBlock ==
  /\ producer = "idle"
  /\ producer' = IF stopping \/ closed THEN "over" ELSE "polling"
  /\ ring' = IF (stopping \/ closed) /\ ring = "empty" THEN "ended" ELSE ring
  /\ UNCHANGED <<graph, denied, closed, stopping>>

(* Polling ends with a full block, or after 5 s with what has come.        *)
BlockReady ==
  /\ producer = "polling"
  /\ ~closed
  /\ producer' = "idle"
  /\ ring' = "blocks"
  /\ UNCHANGED <<graph, denied, closed, stopping>>

(* get_frame() raises, on a closed graph too, or _closed is seen. *)
BlockRaises ==
  /\ producer = "polling"
  /\ producer' = "over"
  /\ ring' = IF ring = "empty" THEN "ended" ELSE ring
  /\ UNCHANGED <<graph, denied, closed, stopping>>

ProducerStep == NextBlock \/ BlockReady \/ BlockRaises

-----------------------------------------------------------------------------
(* The consumer.                                                           *)

TakeBlock ==
  /\ ring = "blocks"
  /\ ring' \in IF producer = "over" THEN {"blocks", "ended"} ELSE {"blocks", "empty"}
  /\ UNCHANGED <<graph, denied, closed, producer, stopping>>

StopProducer ==
  /\ stopping' = TRUE
  /\ UNCHANGED <<graph, denied, closed, producer, ring>>

(* close() after the producer has ended or one second has passed. *)
CloseSource ==
  /\ closed' = TRUE
  /\ graph' = IF closed THEN graph ELSE "closed"
  /\ UNCHANGED <<denied, producer, ring, stopping>>
=============================================================================
