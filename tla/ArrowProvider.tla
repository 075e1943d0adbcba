--------------------------- MODULE ArrowProvider ---------------------------
(***************************************************************************)
(* The structured storage provider that batches records in memory and      *)
(* writes them out per table (openwpm/storage/arrow_storage.py; its        *)
(* concrete subclasses only add write_table).  A record is stored under    *)
(* its visit, a finalisation turns what its visit holds into one batch per *)
(* table, and a flush writes every batch and sets the event of every       *)
(* finalisation since the last flush.                                      *)
(*                                                                         *)
(* Each operator is one coroutine of the class.  storing_lock is not a     *)
(* variable: no write_table of the repository suspends, so what it guards  *)
(* runs to its end without another coroutine in between.                   *)
(***************************************************************************)
EXTENDS Naturals, Sequences, FiniteSets

CONSTANTS Visits,    \* visit ids, INVALID_VISIT_ID among them
          Conns,     \* client connections of the StorageController
          Tables,    \* the tables of PQ_SCHEMAS
          Messages,  \* the messages the clients may send
          Invalid,   \* records pyarrow refuses to convert (ArrowInvalid)
          CacheSize  \* CACHE_SIZE: batches of one table that may stay cached

(* The kinds of message the handler tells apart: a record of a table, a    *)
(* meta finalize, a message that changes nothing but the time of the last  *)
(* record (meta initialize, page content), and one that raises in the      *)
(* handler (create_table, an unknown meta action).                         *)
Kinds == {"record", "finalize", "ignored", "fatal"}

(* Only the provider itself writes to this table.                          *)
IncompleteVisits == "incomplete_visits"

ASSUME MessagesAssumption ==
    /\ \A m \in Messages : /\ m.conn \in Conns
                           /\ m.kind \in Kinds
                           /\ m.visit \in Visits
                           /\ m.success \in BOOLEAN
                           /\ m.table # IncompleteVisits
    /\ IncompleteVisits \in Tables
    /\ Invalid \subseteq Messages
    /\ CacheSize \in Nat

(* The row that marks visit v in the incomplete_visits table.              *)
Marker(v) == [id |-> 0, conn |-> "storage", kind |-> "marker", visit |-> v,
              table |-> IncompleteVisits, success |-> FALSE]

Rows == Messages \cup {Marker(v) : v \in Visits}

VARIABLES buffer,      \* _records: rows of each visit not yet in a batch
          batches,     \* _batches: batches waiting for a flush
          flushEvents, \* flush_events: tokens whose event is not set yet
          saved,       \* rows on persistent storage
          rejected,    \* rows of batches that could not be created
          finalized    \* history: the n-th finalize_visit_id returned token n

arrowVars == <<buffer, batches, flushEvents, saved, rejected, finalized>>

Batch == [token : Nat, table : Tables, rows : SUBSET Rows]
Finalization == [visit : Visits, success : BOOLEAN, records : SUBSET Messages]

ArrowTypeOK ==
    /\ buffer \in [Visits -> SUBSET Rows]
    /\ batches \subseteq Batch
    /\ flushEvents \subseteq 1 .. Len(finalized)
    /\ saved \subseteq Rows
    /\ rejected \subseteq Rows
    /\ finalized \in Seq(Finalization)

ArrowInit ==
    /\ buffer = [v \in Visits |-> {}]
    /\ batches = {}
    /\ flushEvents = {}
    /\ saved = {}
    /\ rejected = {}
    /\ finalized = <<>>

RowsOf(B) == UNION {b.rows : b \in B}

(* Everything the provider still holds or has written or refused.          *)
Batched == RowsOf(batches)
Settled == saved \cup rejected

-----------------------------------------------------------------------------
(* store_record *)
StoreRecord(m) ==
    /\ buffer' = [buffer EXCEPT ![m.visit] = @ \cup {m}]
    /\ UNCHANGED <<batches, flushEvents, saved, rejected, finalized>>

(* _create_batch: one batch per table of the rows a visit holds.           *)
CreateBatches(rows, token) ==
    {[token |-> token, table |-> t, rows |-> {r \in rows : r.table = t}] :
        t \in {r.table : r \in rows} \cap Tables}

(* A batch with a row pyarrow refuses is logged and dropped as a whole.    *)
Convertible(B) == {b \in B : b.rows \cap Invalid = {}}

(* _is_cache_full *)
IsCacheFull(B) ==
    \E t \in Tables : Cardinality({b \in B : b.table = t}) > CacheSize

(* finalize_visit_id: an interrupted visit is marked, the visit's rows     *)
(* become batches, a new event is registered and a full cache is flushed   *)
(* before the token is returned.  `records` is what the caller vouches for.*)
FinalizeVisit(v, success, records) ==
    LET rows  == buffer[v] \cup (IF success THEN {} ELSE {Marker(v)})
        token == Len(finalized) + 1
        new   == CreateBatches(rows, token)
        kept  == batches \cup Convertible(new)
        full  == IsCacheFull(kept)
    IN  /\ buffer' = [buffer EXCEPT ![v] = {}]
        /\ finalized' = Append(finalized, [visit |-> v, success |-> success,
                                           records |-> records])
        /\ rejected' = rejected \cup RowsOf(new \ Convertible(new))
        /\ batches' = IF full THEN {} ELSE kept
        /\ saved' = IF full THEN saved \cup RowsOf(kept) ELSE saved
        /\ flushEvents' = IF full THEN {} ELSE flushEvents \cup {token}

(* Seeded bug: the events are not set.                                     *)
FlushCacheKeepsEvents ==
    /\ saved' = saved \cup Batched
    /\ batches' = {}
    /\ UNCHANGED <<buffer, rejected, finalized, flushEvents>>

(* flush_cache *)
FlushCache ==
    /\ saved' = saved \cup Batched
    /\ batches' = {}
    /\ flushEvents' = {}
    /\ UNCHANGED <<buffer, rejected, finalized>>

(* Seeded bug: a token is taken for done as soon as there is one.          *)
TokenDoneOnceCreated(n) == n \in 1 .. Len(finalized)

(* Has the task returned by the n-th finalize_visit_id completed?          *)
TokenDone(n) == n \notin flushEvents
=============================================================================
