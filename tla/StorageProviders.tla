-------------------------- MODULE StorageProviders --------------------------
(***************************************************************************)
(* The storage providers that do not batch rows in Arrow tables (those are *)
(* in ArrowProvider), as the storage controller calls them: SQLite and the *)
(* in-memory provider for records; LevelDB, gzip files, cloud buckets and  *)
(* memory for contents.  None of their coroutines suspends, so a call is a *)
(* step; but the process may be killed, in the middle of a file as well,   *)
(* and a later crawl may use the same paths.                               *)
(***************************************************************************)
EXTENDS Integers, Sequences, Bags, FiniteSets

CONSTANTS
    Providers,      \* pairs of a structured and an unstructured provider
    Visits,
    CrawlOf,        \* which crawl on the same paths a visit belongs to: 1, 2, ...
    Records,        \* rows, with the visit they belong to
    Unsupported,    \* those that SQLite refuses
    Contents,       \* contents of pages: visit, filename (a hash) and blob
    Partial,        \* what is in a file whose writing was cut short
    LDB_BATCH_SIZE  \* 100

(* Rows of incomplete_visits are none of the crawl's own.                  *)
Incomplete(visit) == [visit |-> visit, n |-> 0]
ASSUME RowsAssumption == \A v \in Visits : Incomplete(v) \notin Records
ASSUME CrawlsAssumption == \A r \in Records \cup Contents : CrawlOf[r.visit] \in Nat
None == <<>>
ASSUME ContentsAssumption == None \notin Contents
ASSUME BatchAssumption == LDB_BATCH_SIZE \in Nat \ {0}

VARIABLES
    structured,     \* the provider of records
    unstructured,   \* the provider of contents
    process,        \* of the controller: up, closing, closed or killed
    crawl,          \* how many crawls there have been
    submitted,      \* rows that were given to store_record
    cache1,         \* rows of the open transaction, or of visits not finalized
    cache2,         \* rows of finalized visits that are not flushed (in memory)
    tables,         \* rows on storage, a bag
    finalized,      \* the finalisations
    given,          \* contents that were given to store_blob
    content_batch,  \* filename -> blob, to be written to LevelDB
    ldb_counter,
    files,          \* contents on storage: filename -> blob
    file,           \* the content a gzip file is open for
    lost,           \* contents that were in the batch of a process that was killed
    cut             \* names whose file a killed process left incomplete
rowVars == <<submitted, cache1, cache2, tables, finalized>>
killVars == <<lost, cut>>
blobVars == <<given, content_batch, ldb_counter, files, file, killVars>>
vars == <<structured, unstructured, process, crawl, rowVars, blobVars>>

Ready == process = "up" /\ file = None
Persistent == structured = "SQLite" /\ unstructured # "Memory"
Supported == IF structured = "SQLite" THEN Records \ Unsupported ELSE Records

Init ==
    /\ \E p \in Providers : structured = p[1] /\ unstructured = p[2]
    /\ process = "up" /\ crawl = 1
    /\ submitted = {} /\ cache1 = {} /\ cache2 = {} /\ tables = EmptyBag /\ finalized = {}
    /\ given = {} /\ content_batch = <<>> /\ ldb_counter = 0 /\ files = <<>> /\ file = None
    /\ lost = {} /\ cut = {}

-----------------------------------------------------------------------------
(* store_record: SQLite executes it in its transaction, and logs what it   *)
(* refuses.                                                                *)
StoreRecord ==
    /\ Ready
    /\ \E r \in Records \ submitted :
         /\ CrawlOf[r.visit] = crawl
         /\ submitted' = submitted \cup {r}
         /\ cache1' = cache1 \cup ({r} \cap Supported)
    /\ UNCHANGED <<structured, unstructured, process, crawl, cache2, tables, finalized, blobVars>>

Submitted(visit) == {r \in submitted : r.visit = visit}
Finalisation(visit, interrupted, saved) ==
    [visit |-> visit, interrupted |-> interrupted, saved |-> saved, records |-> Submitted(visit)]
Finished(r) == \E f \in finalized : r \in f.records

(* Only SQLite has incomplete_visits.                                      *)
Interrupted(visit, interrupted) == IF interrupted THEN {Incomplete(visit)} ELSE {}

(* finalize_visit_id of SQLite: whatever is in the transaction is          *)
(* committed, rows of other visits as well; there is no token.             *)
(* Seeded bug: only interrupted visits are committed.                      *)
FinalizeCommitted(visit, interrupted) ==
    /\ finalized' = finalized \cup {Finalisation(visit, interrupted, TRUE)}
    /\ tables' = IF interrupted THEN tables (+) SetToBag(cache1 \cup {Incomplete(visit)}) ELSE tables
    /\ cache1' = IF interrupted THEN {} ELSE cache1
    /\ UNCHANGED cache2
CommitFinalized(visit, interrupted) ==
    /\ finalized' = finalized \cup {Finalisation(visit, interrupted, TRUE)}
    /\ tables' = tables (+) SetToBag(cache1 \cup Interrupted(visit, interrupted)) /\ cache1' = {}
    /\ UNCHANGED cache2

(* finalize_visit_id in memory: the rows of the visit wait for a flush,    *)
(* and the token for its event.                                            *)
CacheFinalized(visit, interrupted) ==
    LET rows == {r \in cache1 : r.visit = visit} IN
    /\ finalized' = finalized \cup {Finalisation(visit, interrupted, FALSE)}
    /\ cache2' = cache2 \cup rows /\ cache1' = cache1 \ rows
    /\ UNCHANGED tables

(* The controller finalizes a visit that has records since the last time.  *)
Finalize ==
    /\ Ready
    /\ \E visit \in Visits, interrupted \in BOOLEAN :
         /\ CrawlOf[visit] = crawl /\ \E r \in Submitted(visit) : ~Finished(r)
         /\ IF structured = "SQLite" THEN CommitFinalized(visit, interrupted)
            ELSE CacheFinalized(visit, interrupted)
    /\ UNCHANGED <<structured, unstructured, process, crawl, submitted, blobVars>>

(* flush_cache of the two.                                                 *)
FlushRows ==
    /\ tables' = tables (+) SetToBag(IF structured = "SQLite" THEN cache1 ELSE cache2)
    /\ cache1' = IF structured = "SQLite" THEN {} ELSE cache1
    /\ cache2' = {}
    /\ finalized' = {[f EXCEPT !.saved = TRUE] : f \in finalized}

-----------------------------------------------------------------------------
(* store_blob, which the controller never asks to overwrite.  A name on    *)
(* storage is not stored again; LevelDB does not see its own batch.  The   *)
(* extension sends no content of a visit after it has finalized it.        *)
Content(name, blob) == [n \in {name} |-> blob]
Over(batch, kept) == [n \in DOMAIN batch \cup DOMAIN kept |-> IF n \in DOMAIN batch THEN batch[n] ELSE kept[n]]
Write(batch) == Over(batch, files)
Known(name) == name \in DOMAIN files

Put(c) ==
    LET batch == Over(Content(c.filename, c.blob), content_batch) IN
    IF Known(c.filename) THEN UNCHANGED <<files, content_batch, ldb_counter>>
    ELSE IF ldb_counter + 1 >= LDB_BATCH_SIZE
    THEN files' = Write(batch) /\ content_batch' = <<>> /\ ldb_counter' = 0
    ELSE content_batch' = batch /\ ldb_counter' = ldb_counter + 1 /\ UNCHANGED files

(* The file is open, and empty, before it is written.                      *)
OpenFile(c) ==
    /\ IF Known(c.filename) THEN UNCHANGED <<files, file>>
       ELSE file' = c /\ files' = Over(files, Content(c.filename, Partial))
    /\ UNCHANGED <<content_batch, ldb_counter>>

(* An object in a bucket is there when it has been written and closed, or  *)
(* when its transaction ends.  In memory a content is there at once.       *)
Stored(c) == IF Known(c.filename) THEN files ELSE Over(files, Content(c.filename, c.blob))
PutObjectGcs(c) == files' = Stored(c) /\ UNCHANGED <<content_batch, ldb_counter, file>>
PutObjectS3(c) == files' = Stored(c) /\ UNCHANGED <<content_batch, ldb_counter, file>>
KeepInMemory(c) == files' = Stored(c) /\ UNCHANGED <<content_batch, ldb_counter, file>>

StoreBlob ==
    /\ Ready
    /\ \E c \in Contents \ given :
         /\ CrawlOf[c.visit] = crawl /\ \A f \in finalized : f.visit = c.visit => f.interrupted
         /\ given' = given \cup {c}
         /\ \/ unstructured = "LevelDb" /\ Put(c) /\ UNCHANGED file
            \/ unstructured = "LocalGzip" /\ OpenFile(c)
            \/ unstructured = "Gcs" /\ PutObjectGcs(c)
            \/ unstructured = "S3" /\ PutObjectS3(c)
            \/ unstructured = "Memory" /\ KeepInMemory(c)
    /\ UNCHANGED <<structured, unstructured, process, crawl, rowVars, killVars>>

(* The file that store_blob has opened is written and closed.              *)
WriteFile ==
    /\ file # None /\ process = "up"
    /\ files' = [files EXCEPT ![file.filename] = file.blob] /\ file' = None
    /\ UNCHANGED <<structured, unstructured, process, crawl, rowVars,
                   given, content_batch, ldb_counter, killVars>>

(* flush_cache; the counter is left as it is.                              *)
FlushBlobs == files' = Write(content_batch) /\ content_batch' = <<>> /\ UNCHANGED ldb_counter

(* The batch timeout of the controller.                                    *)
Flush ==
    /\ Ready /\ FlushRows /\ FlushBlobs
    /\ UNCHANGED <<structured, unstructured, process, crawl, submitted, given, file, killVars>>

-----------------------------------------------------------------------------
(* shutdown of the controller: it has finalized every visit with records,  *)
(* flushes and closes the one provider, then the other.                    *)
CloseStructured ==
    /\ Ready
    /\ \A r \in submitted : CrawlOf[r.visit] = crawl => Finished(r)
    /\ process' = "closing" /\ FlushRows
    /\ UNCHANGED <<structured, unstructured, crawl, submitted, blobVars>>
(* Seeded bug: the provider of contents is only closed.                    *)
CloseWithoutFlush ==
    /\ process = "closing" /\ process' = "closed"
    /\ content_batch' = <<>> /\ ldb_counter' = 0
    /\ UNCHANGED <<structured, unstructured, crawl, rowVars, given, files, file, killVars>>
CloseUnstructured ==
    /\ process = "closing" /\ process' = "closed"
    /\ files' = Write(content_batch) /\ content_batch' = <<>> /\ ldb_counter' = 0
    /\ UNCHANGED <<structured, unstructured, crawl, rowVars, given, file, killVars>>

(* The process dies: an open transaction is rolled back, a batch is gone,  *)
(* a file stays as far as it was written.                                  *)
Killed ==
    /\ Persistent /\ process \in {"up", "closing"}
    /\ process' = "killed"
    /\ cache1' = {} /\ content_batch' = <<>> /\ ldb_counter' = 0 /\ file' = None
    /\ lost' = lost \cup {c \in given : c.filename \in DOMAIN content_batch}
    /\ cut' = IF file = None THEN cut ELSE cut \cup {file.filename}
    /\ UNCHANGED <<structured, unstructured, crawl, submitted, cache2, tables, finalized, given, files>>

(* init, in a later crawl on the same paths.                               *)
NextCrawl ==
    /\ Persistent /\ process \in {"closed", "killed"}
    /\ \E v \in Visits : CrawlOf[v] = crawl + 1
    /\ process' = "up" /\ crawl' = crawl + 1
    /\ UNCHANGED <<structured, unstructured, rowVars, blobVars>>

Next ==
    \/ StoreRecord \/ Finalize \/ StoreBlob \/ WriteFile \/ Flush
    \/ CloseStructured \/ CloseUnstructured \/ Killed \/ NextCrawl
Spec == Init /\ [][Next]_vars

-----------------------------------------------------------------------------
(* Every variable keeps its type; a row is in one cache.                   *)
TypeOK ==
    /\ <<structured, unstructured>> \in Providers /\ crawl \in Nat
    /\ process \in {"up", "closing", "closed", "killed"}
    /\ submitted \subseteq Records /\ cache1 \subseteq Records /\ cache2 \subseteq Records
    /\ BagToSet(tables) \subseteq Records \cup {Incomplete(v) : v \in Visits}
    /\ \A f \in finalized : f.records \subseteq submitted
    /\ cache1 \cap cache2 = {}
    /\ given \subseteq Contents /\ file \in Contents \cup {None} /\ lost \subseteq given
    /\ \A names \in {DOMAIN content_batch, DOMAIN files} : names \subseteq {c.filename : c \in Contents}

Copies(r) == IF r \in BagToSet(tables) THEN tables[r] ELSE 0

(* What a finalisation without a token, or with one that is done, had to   *)
(* save is on storage, once, whatever else was flushed, finalized again,   *)
(* or killed (finalize_visit_id, flush_cache of the two providers).        *)
FinalizedIsSaved ==
    \A f \in finalized :
      f.saved => \A r \in f.records \cap Supported : Copies(r) = 1

(* The in-memory provider, on which the tests of the controller run, saves *)
(* nothing that the interface does not oblige it to save: no row whose     *)
(* visit was not finalized (MemoryStructuredProvider).                     *)
NothingIsSavedEarly ==
    structured = "Memory" => \A r \in BagToSet(tables) : Finished(r)

(* The bytes of every content that was accepted, in this crawl or an       *)
(* earlier one, are complete under its name on storage, or in the batch,   *)
(* or being written to the open file; once the process has closed they are *)
(* on storage.  All that is ever missing is what a kill costs: the         *)
(* contents of the batch of that moment, and the one name whose file was   *)
(* open, which no later crawl writes again (store_blob, flush_cache,       *)
(* shutdown; GivenBytesAreStored says what is wrong with the latter).      *)
Holds(map, name) == \E c \in given : c.filename = name /\ name \in DOMAIN map /\ map[name] = c.blob
ContentIsKept ==
    \A c \in given :
      \/ Holds(files, c.filename)
      \/ process # "closed" /\ Holds(content_batch, c.filename)
      \/ file # None /\ process = "up" /\ file.filename = c.filename
      \/ c \in lost \/ c.filename \in cut

(* What is stored under a name is never replaced by another content of the *)
(* same name, in this crawl or a later one (store_blob).                   *)
FirstContentStays ==
    [][\A n \in DOMAIN files : files[n] # Partial => n \in DOMAIN files' /\ files'[n] = files[n]]_vars

(* A crash costs less than LDB_BATCH_SIZE contents, although flush_cache   *)
(* leaves the counter alone (LevelDbProvider.store_blob).                  *)
BatchIsBounded ==
    /\ Cardinality(DOMAIN content_batch) <= ldb_counter
    /\ Cardinality(DOMAIN content_batch) < LDB_BATCH_SIZE

-----------------------------------------------------------------------------
(* What the documentation says of the program, and it does not do.         *)

(* command_sequence.py 61-63: True is passed to a callback if all data is  *)
(* saved.  The controller reports a visit whose finalisation is done       *)
(* (storage_controller.py 331-335), whatever is in the content batch.      *)
ReportedContentIsSaved ==
    \A f \in finalized : f.saved /\ ~f.interrupted =>
      \A c \in given : c.visit = f.visit => c.filename \in DOMAIN files

(* storage_providers.py 102: store_blob stores the given bytes under the   *)
(* filename.  A file that an earlier crawl could not finish is not         *)
(* written again.                                                          *)
GivenBytesAreStored ==
    Ready =>
      \A c \in given : CrawlOf[c.visit] = crawl /\ c.filename \in DOMAIN files => files[c.filename] # Partial
=============================================================================
