---------------------------- MODULE MCExtension ----------------------------
(* Four configurations of one session: what an instrument waits for is     *)
(* independent of the instruments beside it, except for the ordinals,      *)
(* which the http and cookie instruments share.                            *)
EXTENDS Extension

Config(instruments, content, visits) ==
    [instruments |-> instruments, save_content |-> content, visits |-> visits]

MCConfigs ==
    {Config({"http"}, TRUE, 1), Config({"http", "cookie"}, FALSE, 1),
     Config({"navigation"}, FALSE, 1), Config({"dns", "callstack", "js"}, FALSE, 2)}
=============================================================================
