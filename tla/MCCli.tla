------------------------------- MODULE MCCli -------------------------------
(* Small instances of Cli for TLC: two entry points, each of which is the  *)
(* microphone, or a good adapter, or differs from it in one way.           *)
EXTENDS Cli

Good == [imports |-> TRUE, platform |-> TRUE, version |-> "same", optin |-> FALSE,
         setup |-> "returns", declared |-> TRUE, longText |-> FALSE,
         discovers |-> "returns", valid |-> TRUE, buffer |-> FALSE, streams |-> FALSE,
         reads |-> "valid", rejects |-> TRUE]
Mic  == [Good EXCEPT !.buffer = TRUE, !.streams = TRUE]

MCBehaviours ==
  { Good, Mic,
    [Good EXCEPT !.imports = FALSE],
    [Good EXCEPT !.imports = FALSE, !.longText = TRUE],
    [Good EXCEPT !.version = "malformed"],
    [Good EXCEPT !.optin = TRUE],
    [Good EXCEPT !.setup = "raises"],
    [Good EXCEPT !.declared = FALSE],
    [Good EXCEPT !.discovers = "raises"],
    [Good EXCEPT !.discovers = "raises", !.longText = TRUE],
    [Mic  EXCEPT !.streams = FALSE],
    [Good EXCEPT !.reads = "slow"] }

MCCommandLines ==
  LET line(c, t, k, d) == [command |-> c, target |-> t, consent |-> k, duration |-> d,
                           elevated |-> FALSE, timeout |-> "valid"]
  IN  { line("list", Unknown, "none", "none"),
        [line("list", Unknown, "none", "none") EXCEPT !.elevated = TRUE],
        [line("list", Unknown, "none", "none") EXCEPT !.timeout = "invalid"],
        line("inspect", 2, "none", "none"),
        line("inspect", Unknown, "none", "none"),
        line("read", 2, "none", "none"),
        line("read", 2, "given", "none"),
        line("read", 2, "invalid", "none"),
        line("read", Malformed, "none", "none"),
        line("stream", 2, "given", "valid"),
        line("stream", 2, "given", "none"),
        line("stream", 2, "none", "valid"),
        line("stream", 2, "given", "invalid"),
        line("doctor", Unknown, "none", "none") }
=============================================================================
