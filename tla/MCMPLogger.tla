----------------------------- MODULE MCMPLogger -----------------------------
(***************************************************************************)
(* Small instances of MPLogger for TLC: a browser manager was forked       *)
(* from the main process, the extension has a connection of its own.       *)
(***************************************************************************)
EXTENDS MPLogger
MCConn == [main |-> "inherited", manager |-> "inherited", extension |-> "own"]
MCRecords == [main |-> 1, manager |-> 1, extension |-> 2]
MCExtensions == {"extension"}
MCFaulty == {"manager"}
=============================================================================
