--------------------------- MODULE MCTaskManager ---------------------------
(***************************************************************************)
(* Small instances of TaskManager for TLC.                                 *)
(***************************************************************************)
EXTENDS TaskManager
MCOne == {"s1"}
MCTwo == {"s1", "s2"}
MCThree == {"s1", "s2", "s3"}
MCNone == {}
=============================================================================
