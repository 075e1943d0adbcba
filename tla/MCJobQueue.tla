---------------------------- MODULE MCJobQueue ----------------------------
(***************************************************************************)
(* Small instances of JobQueue for TLC.                                    *)
(***************************************************************************)
EXTENDS JobQueue
MCJobs == {"j1", "j2"}
MCOneJob == {"j1"}
MCWorkers == {"w1", "w2"}
MCMortal == {"w2"}
=============================================================================
