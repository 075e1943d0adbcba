------------------------ MODULE MCStorageController ------------------------
(***************************************************************************)
(* A small instance of StorageController for TLC.  The messages of a visit *)
(* are those execute_command_sequence and the extension send for it: the   *)
(* manager's site_visits rows and its finalize of an interrupted visit,    *)
(* the extension's records and its finalize.                               *)
(***************************************************************************)
EXTENDS StorageController

Msg(i, c, k, v, t, s) ==
    [id |-> i, conn |-> c, kind |-> k, visit |-> v, table |-> t, success |-> s]

MCTables == {"site_visits", "http_requests", IncompleteVisits}
MCConns == {"manager", "extension"}
MCVisits == {"v1", "v2"}

(* One visit, finalized by both sides; a second one finalized by one.  A   *)
(* record that pyarrow refuses, one of a table that is not in PQ_SCHEMAS,  *)
(* a create_table message and a message without effect.                    *)
RefusedRecord == Msg(2, "extension", "record", "v1", "http_requests", TRUE)
FaultyRecord == Msg(6, "manager", "record", "v1", "unknown_table", TRUE)
MCMessages ==
    {Msg(1, "manager", "finalize", "v1", "meta", FALSE), RefusedRecord,
     Msg(3, "extension", "finalize", "v1", "meta", TRUE),
     Msg(4, "manager", "record", "v2", "site_visits", TRUE),
     Msg(5, "extension", "finalize", "v2", "meta", TRUE), FaultyRecord,
     Msg(7, "extension", "fatal", "v2", "create_table", TRUE),
     Msg(8, "manager", "ignored", "v2", "meta", TRUE)}
MCInvalid == {RefusedRecord}
=============================================================================
