------------------------------ MODULE Loading ------------------------------
(***************************************************************************)
(* Loading of the adapters (registry/loading.py): the entry points in      *)
(* their order, the gates each one has to pass, and the bounded thread     *)
(* that makes the adapter and runs its setup().                            *)
(*                                                                         *)
(* What an adapter's class is and how it behaves is a record with the      *)
(* fields                                                                  *)
(*   imports    the module can be imported and has a meta                  *)
(*   platform   its platforms include this one                             *)
(*   version    its interface version: "same", "other", "malformed"        *)
(*   optin      it needs elevation                                         *)
(*   setup      what setup() does: "returns", "raises", "times_out" (it    *)
(*              raises a TimeoutError of its own)                          *)
(*   declared   read_only_declared                                         *)
(*   longText   the text of its exceptions is longer than a status record  *)
(*              accepts                                                    *)
(* and those of module Conformance.  setup() may also hang.                *)
(***************************************************************************)
EXTENDS Naturals, FiniteSets, Conformance

CONSTANTS
  Adapters,   (* number of entry points *)
  Behaviours  (* what an adapter may be like *)

(* What the adapters are like, as far as loading and the commands see it. *)
Behaviour ==
  [imports : BOOLEAN, platform : BOOLEAN, version : {"same", "other", "malformed"}, optin : BOOLEAN,
   setup : {"returns", "raises", "times_out"}, declared : BOOLEAN, longText : BOOLEAN,
   discovers : {"returns", "raises", "changes"}, valid : BOOLEAN, buffer : BOOLEAN,
   streams : BOOLEAN, reads : {"valid", "invalid", "unavailable", "slow", "broken"},
   rejects : BOOLEAN]

ASSUME AdaptersAssumption   == Adapters \in Nat
ASSUME BehavioursAssumption == Behaviours \subseteq Behaviour

VARIABLES
  adapter,  (* what each entry point's adapter is like *)
  next,     (* the entry point whose turn it is, in load order *)
  worker,   (* the thread that sets it up *)
  overdue,  (* the 5000 ms are over; `with` waits for the thread *)
  outcome   (* what became of each entry point *)

loadVars == <<adapter, next, worker, overdue, outcome>>

EntryPoints == 1..Adapters
Pending == "pending"

LoadInit ==
  /\ adapter \in [EntryPoints -> Behaviours]
  /\ next = 1
  /\ worker = "none"
  /\ overdue = FALSE
  /\ outcome = [i \in EntryPoints |-> Pending]

Loading == next <= Adapters
Loaded == {i \in EntryPoints : outcome[i] = "loaded"}

(* The gates before the adapter is made, in their order. *)
Gate(a, elevated) ==
  IF ~a.imports THEN "load_error"
  ELSE IF ~a.platform \/ a.version # "same" THEN "unsupported_platform"
  ELSE IF a.optin /\ ~elevated THEN "not_opted_in"
  ELSE "open"

(* What is recorded once the thread is over: the timeout if the call did   *)
(* not come back in time, and the read-only declaration only after the     *)
(* setup.                                                                  *)
Verdict(a) ==
  IF overdue \/ a.setup = "times_out" THEN "load_timeout"
  ELSE IF a.setup = "raises" THEN "load_error"
  ELSE IF ~a.declared THEN "read_only_not_declared"
  ELSE "loaded"

(* Mutant: the first adapter that fails ends the loading. *)
SettleAborts(i, result) ==
  /\ outcome' = [outcome EXCEPT ![i] = result]
  /\ next' = IF result \in {"load_error", "load_timeout"} THEN Adapters + 1 ELSE i + 1

Settle(i, result) ==
  /\ outcome' = [outcome EXCEPT ![i] = result]
  /\ next' = i + 1

Refuse(elevated) ==
  /\ Loading /\ worker = "none"
  /\ Gate(adapter[next], elevated) # "open"
  /\ Settle(next, Gate(adapter[next], elevated))
  /\ UNCHANGED <<adapter, worker, overdue>>

StartSetup(elevated) ==
  /\ Loading /\ worker = "none"
  /\ Gate(adapter[next], elevated) = "open"
  /\ worker' = "running"
  /\ UNCHANGED <<adapter, next, overdue, outcome>>

SetupEnds ==
  /\ worker = "running"
  /\ worker' = "over"
  /\ UNCHANGED <<adapter, next, overdue, outcome>>

(* future.result() gives up; nothing ends the thread. *)
Overrun ==
  /\ worker = "running"
  /\ ~overdue
  /\ overdue' = TRUE
  /\ UNCHANGED <<adapter, next, worker, outcome>>

(* `with ThreadPoolExecutor` has joined the thread. *)
Record ==
  /\ worker = "over"
  /\ Settle(next, Verdict(adapter[next]))
  /\ worker' = "none"
  /\ overdue' = FALSE
  /\ UNCHANGED adapter

(* Nothing of this is asked of SetupEnds, which is the adapter's. *)
LoadStep(elevated) == Refuse(elevated) \/ StartSetup(elevated) \/ Overrun \/ Record

(* BackendStatus refuses a text of more than 500 characters: then the      *)
(* constructor of Registry raises when it records a failure.               *)
RecordRefused ==
  \E i \in EntryPoints :
    /\ outcome[i] = "load_error"
    /\ adapter[i].longText
=============================================================================
