----------------------- MODULE StorageProvidersProofs -----------------------
(***************************************************************************)
(* The storage providers of StorageProviders, for any visits, crawls, rows *)
(* and contents, and for any size of a batch; and the analyses of Analysis *)
(* of what they have stored, for any crawl and any list of analyses.       *)
(***************************************************************************)
EXTENDS StorageProviders, Analysis, FiniteSetTheorems, TLAPS

Cached(r) == r \in cache1 \cup cache2
Unsaved(f, r) == ~f.saved /\ r \in cache2

Finalisations(rows) == [visit : Visits, interrupted : BOOLEAN, saved : BOOLEAN, records : SUBSET rows]

(* What is on its way is of a crawl that has begun.                        *)
Typed ==
    /\ tables \in [DOMAIN tables -> Nat \ {0}]
    /\ submitted \subseteq Records /\ cache1 \subseteq submitted /\ cache2 \subseteq submitted
    /\ cache1 \cap cache2 = {}
    /\ finalized \subseteq Finalisations(submitted)
    /\ given \subseteq Contents /\ crawl \in Nat
    /\ \A d \in submitted \cup given : CrawlOf[d.visit] <= crawl

(* A row is on storage at most once, and not in a cache any more.  Memory  *)
(* keeps rows of finalized visits until a flush, SQLite none.              *)
OneCopy ==
    /\ \A r \in Records : Copies(r) = 0 \/ (Copies(r) = 1 /\ r \in submitted /\ ~Cached(r))
    /\ structured = "SQLite" => cache2 = {} /\ \A f \in finalized : f.saved
    /\ structured = "Memory" => \A r \in BagToSet(tables) \cup cache2 : Finished(r)

(* As long as the process lives, no row of this crawl is lost.             *)
RowsKept ==
    process # "killed" =>
      \A r \in submitted \cap Supported : CrawlOf[r.visit] = crawl => Cached(r) \/ Copies(r) = 1
FinalizedKept ==
    \A f \in finalized : \A r \in f.records \cap Supported : Unsaved(f, r) \/ Copies(r) = 1

RowsInv == Typed /\ OneCopy /\ RowsKept /\ FinalizedKept

(* The batch of LevelDB has nothing that is on storage, and a file that is *)
(* being written is there and incomplete.                                  *)
BatchOK ==
    /\ DOMAIN content_batch \cap DOMAIN files = {}
    /\ IsFiniteSet(DOMAIN content_batch) /\ ldb_counter \in 0 .. LDB_BATCH_SIZE - 1
    /\ Cardinality(DOMAIN content_batch) <= ldb_counter
    /\ process = "closed" => content_batch = <<>>
    /\ unstructured # "LevelDb" => content_batch = <<>>
FileOK ==
    file # None =>
      /\ unstructured = "LocalGzip" /\ process = "up" /\ file \in given
      /\ file.filename \in DOMAIN files /\ files[file.filename] = Partial

(* A name on storage has the bytes of its content, but for a file that is  *)
(* open or was cut short, and so has a name in the batch; every content    *)
(* that was accepted has a name there, or went with a batch.               *)
Written(n) == Holds(files, n) \/ n \in cut \/ (file # None /\ file.filename = n)
FilesHold == \A n \in DOMAIN files : Written(n)
BatchHolds == \A n \in DOMAIN content_batch : Holds(content_batch, n)
Named == \A c \in given : c.filename \in DOMAIN files \cup DOMAIN content_batch \/ c \in lost
ContentOK == FilesHold /\ BatchHolds /\ Named

-----------------------------------------------------------------------------
(* What the operators on bags of rows return.                              *)
LEMMA RowsAdded ==
  ASSUME NEW S, tables \in [DOMAIN tables -> Nat \ {0}], tables' = tables (+) SetToBag(S)
  PROVE  /\ tables' \in [DOMAIN tables' -> Nat \ {0}]
         /\ \A r : r \in S => Copies(r)' = Copies(r) + 1
         /\ \A r : r \notin S => Copies(r)' = Copies(r)
         /\ \A r : Copies(r) \in Nat
         /\ BagToSet(tables)' = BagToSet(tables) \cup S
<1>1. SetToBag(S) = [e \in S |-> 1]
  BY DEF SetToBag
<1>2. tables' = [e \in DOMAIN tables \cup S |->
                   (IF e \in DOMAIN tables THEN tables[e] ELSE 0) + (IF e \in S THEN 1 ELSE 0)]
  BY <1>1 DEF (+)
<1>3. \A r : Copies(r) = IF r \in DOMAIN tables THEN tables[r] ELSE 0
  BY DEF Copies, BagToSet
<1>4. \A r : Copies(r)' = IF r \in DOMAIN tables' THEN tables'[r] ELSE 0
  BY DEF Copies, BagToSet
<1>5. \A e \in DOMAIN tables : tables[e] \in Nat \ {0}
  OBVIOUS
<1>6. DOMAIN tables' = DOMAIN tables \cup S
  BY <1>2
<1>7. \A e \in DOMAIN tables' :
        tables'[e] = (IF e \in DOMAIN tables THEN tables[e] ELSE 0) + (IF e \in S THEN 1 ELSE 0)
  BY <1>2, <1>6
<1>8. tables' \in [DOMAIN tables' -> Nat \ {0}]
  <2>1. \A e \in DOMAIN tables' : tables'[e] \in Nat \ {0}
    BY <1>5, <1>6, <1>7
  <2> QED
    BY <1>2, <1>6, <2>1
<1> QED
  BY <1>3, <1>4, <1>5, <1>6, <1>7, <1>8 DEF BagToSet

LEMMA NoRowsYet ==
  ASSUME tables = EmptyBag
  PROVE  tables \in [DOMAIN tables -> Nat \ {0}] /\ BagToSet(tables) = {} /\ \A r : Copies(r) = 0
BY DEF EmptyBag, SetToBag, Copies, BagToSet

-----------------------------------------------------------------------------
(* The rows.                                                               *)
LEMMA InitRows == Init => RowsInv
<1> SUFFICES ASSUME Init PROVE RowsInv
  OBVIOUS
<1>1. tables \in [DOMAIN tables -> Nat \ {0}] /\ BagToSet(tables) = {} /\ \A r : Copies(r) = 0
  BY NoRowsYet DEF Init
<1> QED
  BY <1>1 DEF Init, RowsInv, Typed, OneCopy, RowsKept, FinalizedKept, Cached, Finished, Submitted

LEMMA StoreRecordRows == ASSUME RowsInv, StoreRecord PROVE RowsInv'
<1> PICK r \in Records \ submitted :
      /\ CrawlOf[r.visit] = crawl
      /\ submitted' = submitted \cup {r}
      /\ cache1' = cache1 \cup ({r} \cap Supported)
  BY DEF StoreRecord
<1>1. Typed'
  BY CrawlsAssumption DEF RowsInv, Typed, Finalisations, StoreRecord, blobVars
<1>2. \A x \in Records : Copies(x)' = Copies(x)
  BY DEF StoreRecord, Copies
<1>3. BagToSet(tables)' = BagToSet(tables) /\ Supported' = Supported /\ \A x : Finished(x)' = Finished(x)
  BY DEF StoreRecord, Supported, Finished, BagToSet
<1>4. OneCopy'
  BY <1>2, <1>3 DEF RowsInv, Typed, OneCopy, StoreRecord, Cached
<1>5. RowsKept' /\ FinalizedKept'
  BY <1>2, <1>3 DEF RowsInv, Typed, Finalisations, RowsKept, FinalizedKept, StoreRecord, Cached, Unsaved
<1> QED
  BY <1>1, <1>4, <1>5 DEF RowsInv

LEMMA CommitRows ==
  ASSUME RowsInv, Finalize, structured = "SQLite" PROVE RowsInv'
<1> PICK visit \in Visits, interrupted \in BOOLEAN :
      CrawlOf[visit] = crawl /\ process = "up" /\ CommitFinalized(visit, interrupted)
  BY DEF Finalize, Ready
<1> DEFINE rows == cache1 \cup Interrupted(visit, interrupted)
           fin == Finalisation(visit, interrupted, TRUE)
<1>1. \A r \in Records : (r \in rows <=> r \in cache1)
  BY RowsAssumption DEF Interrupted
<1>2. /\ tables' \in [DOMAIN tables' -> Nat \ {0}]
      /\ \A r \in Records : Copies(r)' = Copies(r) + IF r \in cache1 THEN 1 ELSE 0
      /\ \A r \in Records : Copies(r) \in Nat
      /\ BagToSet(tables)' = BagToSet(tables) \cup rows
  <2>1. tables' = tables (+) SetToBag(rows) /\ tables \in [DOMAIN tables -> Nat \ {0}]
    BY DEF CommitFinalized, RowsInv, Typed
  <2> HIDE DEF rows
  <2> QED
    BY <1>1, <2>1, RowsAdded
<1> HIDE DEF rows
<1>3. /\ cache1' = {} /\ cache2' = {} /\ cache2 = {}
      /\ submitted' = submitted /\ finalized' = finalized \cup {fin}
      /\ fin.saved = TRUE /\ fin.records = Submitted(visit) /\ fin \in Finalisations(submitted)
      /\ UNCHANGED <<structured, process, crawl, given>> /\ Supported' = Supported
  BY DEF CommitFinalized, Finalisation, RowsInv, OneCopy, Finalize, blobVars, Supported,
     Finalisations, Submitted
<1> HIDE DEF fin
<1>4. Submitted(visit) \subseteq submitted /\ \A r \in Submitted(visit) : r.visit = visit
  BY DEF Submitted
<1>5. Typed'
  BY <1>2, <1>3, <1>4 DEF RowsInv, Typed
<1>6. OneCopy'
  BY <1>2, <1>3 DEF RowsInv, Typed, OneCopy, Cached
<1>7. \A r \in Records : Copies(r) = 1 => Copies(r)' = 1
  BY <1>2 DEF RowsInv, OneCopy, Cached
<1>8. \A r \in cache1 : Copies(r)' = 1
  BY <1>2 DEF RowsInv, Typed, OneCopy, Cached
<1>9. RowsKept'
  BY <1>3, <1>7, <1>8 DEF RowsInv, Typed, RowsKept, Cached
<1>10. FinalizedKept'
  <2> SUFFICES ASSUME NEW f \in finalized', NEW r \in f.records \cap Supported PROVE Copies(r)' = 1
    BY <1>3 DEF FinalizedKept
  <2>1. CASE f \in finalized
    BY <2>1, <1>3, <1>7 DEF RowsInv, Typed, Finalisations, FinalizedKept, Unsaved
  <2>2. CASE f = fin
    <3>1. r \in submitted \cap Supported /\ CrawlOf[r.visit] = crawl
      BY <1>3, <1>4, <2>2
    <3>2. r \in cache1 \/ Copies(r) = 1
      BY <1>3, <3>1 DEF RowsInv, RowsKept, Cached
    <3> QED
      BY <1>7, <1>8, <3>1, <3>2 DEF RowsInv, Typed
  <2> QED
    BY <1>3, <2>1, <2>2
<1> QED
  BY <1>5, <1>6, <1>9, <1>10 DEF RowsInv

LEMMA CacheRows ==
  ASSUME RowsInv, Finalize, structured # "SQLite" PROVE RowsInv'
<1> PICK visit \in Visits, interrupted \in BOOLEAN :
      CrawlOf[visit] = crawl /\ process = "up" /\ CacheFinalized(visit, interrupted)
  BY DEF Finalize, Ready
<1> DEFINE rows == {r \in cache1 : r.visit = visit}
           fin == Finalisation(visit, interrupted, FALSE)
<1>1. /\ cache1' = cache1 \ rows /\ cache2' = cache2 \cup rows /\ submitted' = submitted
      /\ finalized' = finalized \cup {fin}
      /\ fin.saved = FALSE /\ fin.records = Submitted(visit) /\ fin \in Finalisations(submitted)
      /\ UNCHANGED <<structured, process, crawl, given, tables>> /\ Supported' = Supported
  BY DEF CacheFinalized, Finalisation, Finalize, blobVars, Supported, Finalisations, Submitted
<1>2. rows \subseteq cache1 /\ rows \subseteq fin.records /\ \A r \in cache1 \ rows : r.visit # visit
  BY <1>1 DEF RowsInv, Typed, Submitted
<1>3. \A r \in Submitted(visit) : r.visit = visit /\ r \in submitted
  BY DEF Submitted
<1> HIDE DEF rows, fin
<1>4. BagToSet(tables)' = BagToSet(tables) /\ \A r \in Records : Copies(r)' = Copies(r)
  BY <1>1 DEF Copies, BagToSet
<1>5. \A r : (Finished(r) => Finished(r)') /\ (r \in rows => Finished(r)') /\ Cached(r)' = Cached(r)
  BY <1>1, <1>2 DEF Finished, Cached
<1>6. Typed'
  BY <1>1, <1>2, <1>3 DEF RowsInv, Typed
<1>7. OneCopy'
  BY <1>1, <1>2, <1>4, <1>5 DEF RowsInv, Typed, OneCopy
<1>8. RowsKept'
  BY <1>1, <1>4, <1>5 DEF RowsInv, Typed, RowsKept
<1>9. FinalizedKept'
  <2> SUFFICES ASSUME NEW f \in finalized', NEW r \in f.records \cap Supported
               PROVE  Unsaved(f, r)' \/ Copies(r)' = 1
    BY <1>1 DEF FinalizedKept
  <2>1. CASE f \in finalized
    BY <2>1, <1>1, <1>4 DEF RowsInv, Typed, Finalisations, FinalizedKept, Unsaved
  <2>2. CASE f = fin
    <3>1. r \in submitted \cap Supported /\ r \in Records /\ r.visit = visit /\ CrawlOf[r.visit] = crawl
      BY <1>1, <1>3, <2>2 DEF RowsInv, Typed
    <3>2. r \in cache1 \cup cache2 \/ Copies(r) = 1
      BY <3>1 DEF RowsInv, RowsKept, Cached
    <3> QED
      BY <1>1, <1>2, <1>4, <2>2, <3>1, <3>2 DEF Unsaved
  <2> QED
    BY <1>1, <2>1, <2>2
<1> QED
  BY <1>6, <1>7, <1>8, <1>9 DEF RowsInv

(* A flush saves what was finalized, and SQLite whatever it has executed.  *)
LEMMA FlushedRows ==
  ASSUME RowsInv, FlushRows, UNCHANGED <<structured, crawl, submitted, given>>,
         process = "up", process' # "killed"
  PROVE  RowsInv'
<1> DEFINE rows == IF structured = "SQLite" THEN cache1 ELSE cache2
<1>1. rows \subseteq submitted /\ rows \subseteq Records /\ \A r \in rows : Cached(r)
  BY DEF RowsInv, Typed, Cached
<1>2. /\ cache1' = IF structured = "SQLite" THEN {} ELSE cache1
      /\ cache2' = {} /\ finalized' = {[f EXCEPT !.saved = TRUE] : f \in finalized}
      /\ Supported' = Supported
  BY DEF FlushRows, Supported
<1>3. /\ tables' \in [DOMAIN tables' -> Nat \ {0}]
      /\ \A r \in Records : Copies(r)' = Copies(r) + IF r \in rows THEN 1 ELSE 0
      /\ \A r \in Records : Copies(r) \in Nat
      /\ BagToSet(tables)' = BagToSet(tables) \cup rows
  <2>1. tables' = tables (+) SetToBag(rows) /\ tables \in [DOMAIN tables -> Nat \ {0}]
    BY DEF FlushRows, RowsInv, Typed
  <2> HIDE DEF rows
  <2> QED
    BY <2>1, RowsAdded
<1>4. \A r \in Records : (Copies(r) = 1 => Copies(r)' = 1) /\ (r \in rows => Copies(r)' = 1 /\ ~Cached(r)')
  BY <1>1, <1>2, <1>3 DEF RowsInv, Typed, OneCopy, Cached
<1>5. \A g \in finalized' :
        /\ g \in Finalisations(submitted)
        /\ g.saved /\ \E f \in finalized : g.records = f.records
  <2> SUFFICES ASSUME NEW f \in finalized, NEW g, g = [f EXCEPT !.saved = TRUE]
               PROVE  /\ g \in Finalisations(submitted)
                      /\ g.saved /\ g.records = f.records
    BY <1>2
  <2>1. f \in Finalisations(submitted)
    BY DEF RowsInv, Typed
  <2> QED
    BY <2>1 DEF Finalisations
<1>6. \A f \in finalized : \E g \in finalized' : g.records = f.records
  <2> SUFFICES ASSUME NEW f \in finalized PROVE \E g \in finalized' : g.records = f.records
    OBVIOUS
  <2>1. [f EXCEPT !.saved = TRUE] \in finalized'
    BY <1>2
  <2>2. [f EXCEPT !.saved = TRUE].records = f.records
    BY DEF RowsInv, Typed, Finalisations
  <2> QED
    BY <2>1, <2>2
<1> HIDE DEF rows
<1>7. Typed'
  BY <1>1, <1>2, <1>3, <1>5 DEF RowsInv, Typed
<1>8. \A r : Finished(r) => Finished(r)'
  BY <1>6 DEF Finished
<1>9. OneCopy'
  <2>1. \A r \in Records : Copies(r)' = 0 \/ (Copies(r)' = 1 /\ r \in submitted' /\ ~Cached(r)')
    BY <1>1, <1>2, <1>3, <1>4 DEF RowsInv, Typed, OneCopy, Cached
  <2>2. structured' = "SQLite" => cache2' = {} /\ \A f \in finalized' : f.saved
    BY <1>2, <1>5
  <2>3. structured' = "Memory" => \A r \in BagToSet(tables)' \cup cache2' : Finished(r)'
    BY <1>2, <1>3, <1>8 DEF rows, RowsInv, OneCopy
  <2> QED
    BY <2>1, <2>2, <2>3 DEF OneCopy
<1>10. RowsKept'
  <2> SUFFICES ASSUME NEW r \in submitted \cap Supported, CrawlOf[r.visit] = crawl
               PROVE  Cached(r)' \/ Copies(r)' = 1
    BY <1>2 DEF RowsKept
  <2>1. r \in Records /\ (Cached(r) \/ Copies(r) = 1)
    BY DEF RowsInv, Typed, RowsKept
  <2> QED
    BY <1>2, <1>4, <2>1 DEF rows, RowsInv, OneCopy, Cached
<1>11. FinalizedKept'
  <2> SUFFICES ASSUME NEW g \in finalized', NEW r \in g.records \cap Supported PROVE Copies(r)' = 1
    BY <1>2 DEF FinalizedKept
  <2>1. PICK f \in finalized : g.records = f.records
    BY <1>5
  <2>2. r \in Records /\ (Unsaved(f, r) \/ Copies(r) = 1)
    BY <2>1 DEF RowsInv, Typed, Finalisations, FinalizedKept
  <2> QED
    BY <1>4, <2>2 DEF rows, RowsInv, OneCopy, Unsaved
<1> QED
  BY <1>7, <1>9, <1>10, <1>11 DEF RowsInv

(* The rest leaves rows where they are, but that a kill drops what is in   *)
(* the open transaction, and with the process what it had to keep.         *)
LEMMA OtherRows ==
  ASSUME RowsInv, UNCHANGED <<structured, rowVars, crawl>>,
         given \subseteq Contents => given' \subseteq Contents,
         \A c \in given' \ given : CrawlOf[c.visit] = crawl, process' = "killed" \/ process # "killed"
  PROVE  RowsInv'
<1>1. Typed'
  BY CrawlsAssumption DEF RowsInv, Typed, rowVars
<1>2. \A r \in Records : Copies(r)' = Copies(r) /\ Cached(r)' = Cached(r)
  BY DEF rowVars, Copies, Cached
<1>3. OneCopy'
  BY <1>2 DEF RowsInv, Typed, OneCopy, rowVars, Finished, BagToSet
<1>4. RowsKept' /\ FinalizedKept'
  BY <1>2 DEF RowsInv, Typed, Finalisations, RowsKept, FinalizedKept, Unsaved, Supported, rowVars
<1> QED
  BY <1>1, <1>3, <1>4 DEF RowsInv

LEMMA KilledRows == ASSUME RowsInv, Killed PROVE RowsInv'
<1>1. cache2 = {} /\ cache1' = {} /\ cache2' = cache2 /\ process' = "killed"
      /\ UNCHANGED <<structured, crawl, submitted, tables, finalized, given>>
  BY DEF Killed, Persistent, RowsInv, OneCopy
<1>2. Typed'
  BY <1>1 DEF RowsInv, Typed
<1>3. \A r \in Records : Copies(r)' = Copies(r) /\ ~Cached(r)'
  BY <1>1 DEF Copies, Cached
<1>4. OneCopy'
  BY <1>1, <1>3 DEF RowsInv, Typed, OneCopy, Finished, BagToSet
<1>5. RowsKept' /\ FinalizedKept'
  BY <1>1, <1>3 DEF RowsInv, Typed, Finalisations, RowsKept, FinalizedKept, Unsaved, Supported
<1> QED
  BY <1>2, <1>4, <1>5 DEF RowsInv

(* A new crawl has no rows yet.                                            *)
LEMMA NextCrawlRows == ASSUME RowsInv, NextCrawl PROVE RowsInv'
<1>1. crawl' = crawl + 1 /\ UNCHANGED <<structured, rowVars, given>>
  BY DEF NextCrawl, blobVars
<1>2. Typed' /\ \A r \in submitted : CrawlOf[r.visit] # crawl'
  BY <1>1, CrawlsAssumption DEF RowsInv, Typed, rowVars
<1>3. \A r \in Records : Copies(r)' = Copies(r) /\ Cached(r)' = Cached(r)
  BY <1>1 DEF rowVars, Copies, Cached
<1>4. OneCopy'
  BY <1>1, <1>3 DEF RowsInv, Typed, OneCopy, rowVars, Finished, BagToSet
<1>5. RowsKept' /\ FinalizedKept'
  BY <1>1, <1>2, <1>3 DEF RowsInv, Typed, Finalisations, RowsKept, FinalizedKept, Unsaved, Supported, rowVars
<1> QED
  BY <1>2, <1>4, <1>5 DEF RowsInv

LEMMA NextRows == ASSUME RowsInv, [Next]_vars PROVE RowsInv'
<1>1. CASE StoreRecord
  BY <1>1, StoreRecordRows
<1>2. CASE Finalize
  BY <1>2, CommitRows, CacheRows
<1>3. CASE StoreBlob
  BY <1>3, OtherRows DEF StoreBlob, Ready
<1>4. CASE WriteFile \/ CloseUnstructured
  BY <1>4, OtherRows DEF WriteFile, CloseUnstructured
<1>5. CASE Flush
  BY <1>5, FlushedRows DEF Flush, Ready
<1>6. CASE CloseStructured
  BY <1>6, FlushedRows DEF CloseStructured, Ready, blobVars
<1>7. CASE Killed
  BY <1>7, KilledRows
<1>8. CASE NextCrawl
  BY <1>8, NextCrawlRows
<1>9. CASE UNCHANGED vars
  BY <1>9, OtherRows DEF vars, blobVars
<1> QED
  BY <1>1, <1>2, <1>3, <1>4, <1>5, <1>6, <1>7, <1>8, <1>9 DEF Next

(* The invariant about rows, of which the next two are consequences.       *)
THEOREM RowsAreKept == Spec => []RowsInv
BY InitRows, NextRows, PTL DEF Spec

(* What a finalisation without a token, or with one that is done, had to   *)
(* save is on storage, once, whatever was flushed, finalized again or      *)
(* killed (finalize_visit_id, flush_cache of SQLite and of memory).        *)
THEOREM FinalizedRowsAreSaved == Spec => []FinalizedIsSaved
<1>1. RowsInv => FinalizedIsSaved
  BY DEF RowsInv, FinalizedKept, FinalizedIsSaved, Unsaved
<1> QED
  BY <1>1, RowsAreKept, PTL

(* The in-memory provider saves no row whose visit was not finalized       *)
(* (MemoryStructuredProvider.finalize_visit_id, flush_cache).              *)
THEOREM NothingIsEarly == Spec => []NothingIsSavedEarly
<1>1. RowsInv => NothingIsSavedEarly
  BY DEF RowsInv, OneCopy, NothingIsSavedEarly
<1> QED
  BY <1>1, RowsAreKept, PTL

-----------------------------------------------------------------------------
(* The contents.                                                           *)
LEMMA NoContents == DOMAIN <<>> = {} /\ IsFiniteSet({}) /\ Cardinality({}) = 0
BY FS_EmptySet

Stays == \A n \in DOMAIN files : files[n] # Partial => n \in DOMAIN files' /\ files'[n] = files[n]
Grows == DOMAIN files \subseteq DOMAIN files'

LEMMA InitContents == Init => BatchOK /\ FileOK /\ ContentOK
BY NoContents, BatchAssumption DEF Init, BatchOK, FileOK, ContentOK, FilesHold, BatchHolds, Named

(* LevelDB: a new name goes to the batch, or with the batch to storage.    *)
LEMMA PutContent ==
  ASSUME BatchOK, FileOK, ContentOK, NEW c, Put(c), file = None, given' = given \cup {c},
         unstructured = "LevelDb", process = "up",
         UNCHANGED <<unstructured, process, file, killVars>>
  PROVE  BatchOK' /\ FileOK' /\ ContentOK' /\ Stays
<1> DEFINE batch == Over(Content(c.filename, c.blob), content_batch)
<1>1. /\ DOMAIN batch = DOMAIN content_batch \cup {c.filename} /\ batch[c.filename] = c.blob
      /\ \A n \in DOMAIN content_batch : n # c.filename => batch[n] = content_batch[n]
  BY DEF batch, Over, Content
<1>2. \A n \in DOMAIN batch : \E d \in given' : d.filename = n /\ batch[n] = d.blob
  BY <1>1 DEF ContentOK, BatchHolds, Holds
<1>3. \A n \in DOMAIN files : n \in cut \/ Holds(files, n)
  BY DEF ContentOK, FilesHold, Written
<1>4. FileOK'
  BY DEF FileOK
<1> HIDE DEF batch
<1>5. CASE Known(c.filename)
  <2>1. UNCHANGED <<files, content_batch, ldb_counter>>
    BY <1>5 DEF Put
  <2>2. BatchOK' /\ Stays
    BY <2>1 DEF BatchOK, Stays
  <2>3. FilesHold' /\ BatchHolds' /\ Named'
    BY <1>5, <2>1 DEF ContentOK, FilesHold, Written, BatchHolds, Holds, Named, Known, killVars
  <2> QED
    BY <1>4, <2>2, <2>3 DEF ContentOK
<1>6. CASE ~Known(c.filename) /\ ldb_counter + 1 >= LDB_BATCH_SIZE
  <2>1. files' = Over(batch, files) /\ content_batch' = <<>> /\ ldb_counter' = 0
    BY <1>6 DEF Put, Write, batch
  <2>2. /\ DOMAIN files' = DOMAIN batch \cup DOMAIN files
        /\ \A n \in DOMAIN files \ DOMAIN batch : files'[n] = files[n]
        /\ \A n \in DOMAIN batch : files'[n] = batch[n]
    BY <2>1 DEF Over
  <2>3. DOMAIN batch \cap DOMAIN files = {}
    BY <1>1, <1>6 DEF BatchOK, Known
  <2>4. BatchOK'
    BY <2>1, NoContents, BatchAssumption DEF BatchOK
  <2>5. FilesHold'
    BY <1>2, <1>3, <2>2, <2>3 DEF FilesHold, Written, Holds, killVars
  <2>6. BatchHolds' /\ Named'
    BY <1>1, <2>1, <2>2, NoContents DEF ContentOK, BatchHolds, Named, killVars
  <2>7. Stays
    BY <2>2, <2>3 DEF Stays
  <2> QED
    BY <1>4, <2>4, <2>5, <2>6, <2>7 DEF ContentOK
<1>7. CASE ~Known(c.filename) /\ ~(ldb_counter + 1 >= LDB_BATCH_SIZE)
  <2>1. files' = files /\ content_batch' = batch /\ ldb_counter' = ldb_counter + 1
    BY <1>7 DEF Put, batch
  <2>2. DOMAIN content_batch' \cap DOMAIN files' = {}
    BY <1>1, <1>7, <2>1 DEF BatchOK, Known
  <2>3. /\ IsFiniteSet(DOMAIN content_batch')
        /\ Cardinality(DOMAIN content_batch') <= Cardinality(DOMAIN content_batch) + 1
    <3>1. IsFiniteSet(DOMAIN content_batch) /\ Cardinality(DOMAIN content_batch) \in Nat
      BY FS_CardinalityType DEF BatchOK
    <3>2. IsFiniteSet(DOMAIN batch) /\ Cardinality(DOMAIN batch) <= Cardinality(DOMAIN content_batch) + 1
      BY <1>1, <3>1, FS_AddElement
    <3> QED
      BY <2>1, <3>2
  <2>4. ldb_counter' \in 0 .. LDB_BATCH_SIZE - 1 /\ Cardinality(DOMAIN content_batch') <= ldb_counter'
    <3>1. Cardinality(DOMAIN content_batch) \in Nat /\ Cardinality(DOMAIN content_batch') \in Nat
      BY <2>3, FS_CardinalityType DEF BatchOK
    <3> QED
      BY <1>7, <2>1, <2>3, <3>1, BatchAssumption DEF BatchOK
  <2>5. BatchOK' /\ Stays
    BY <2>1, <2>2, <2>3, <2>4 DEF BatchOK, Stays
  <2>6. BatchHolds'
    BY <1>2, <2>1 DEF BatchHolds, Holds
  <2>7. FilesHold' /\ Named'
    BY <1>1, <1>3, <2>1 DEF ContentOK, FilesHold, Written, Holds, Named, killVars
  <2> QED
    BY <1>4, <2>5, <2>6, <2>7 DEF ContentOK
<1> QED
  BY <1>5, <1>6, <1>7

(* The others: the name is there, with these bytes, and what was there     *)
(* stays.                                                                  *)
LEMMA StoredContent ==
  ASSUME NEW c, files' = Stored(c), FilesHold, file = None, given' = given \cup {c},
         UNCHANGED <<file, killVars>>
  PROVE  Stays /\ Grows /\ c.filename \in DOMAIN files' /\ FilesHold'
<1>1. CASE Known(c.filename)
  BY <1>1 DEF Stored, Stays, Grows, Known, FilesHold, Written, Holds, killVars
<1>2. CASE ~Known(c.filename)
  <2>1. files' = Over(files, Content(c.filename, c.blob))
    BY <1>2 DEF Stored
  <2>2. /\ DOMAIN files' = DOMAIN files \cup {c.filename} /\ files'[c.filename] = c.blob
        /\ \A n \in DOMAIN files : files'[n] = files[n]
    BY <1>2, <2>1 DEF Over, Content, Known
  <2> QED
    BY <2>2 DEF Stays, Grows, FilesHold, Written, Holds, killVars
<1> QED
  BY <1>1, <1>2

LEMMA OpenContent ==
  ASSUME NEW c, c # None, OpenFile(c), file = None, unstructured = "LocalGzip", process = "up", FilesHold,
         given' = given \cup {c}, UNCHANGED <<unstructured, process, killVars>>
  PROVE  Stays /\ Grows /\ c.filename \in DOMAIN files' /\ FileOK' /\ FilesHold'
<1>1. CASE Known(c.filename)
  BY <1>1 DEF OpenFile, Stays, Grows, Known, FileOK, FilesHold, Written, Holds, killVars
<1>2. CASE ~Known(c.filename)
  <2>1. files' = Over(files, Content(c.filename, Partial)) /\ file' = c
    BY <1>2 DEF OpenFile
  <2>2. /\ DOMAIN files' = DOMAIN files \cup {c.filename} /\ files'[c.filename] = Partial
        /\ \A n \in DOMAIN files : files'[n] = files[n]
    BY <1>2, <2>1 DEF Over, Content, Known
  <2>3. Stays /\ Grows
    BY <2>2 DEF Stays, Grows
  <2>4. FileOK'
    BY <2>1, <2>2 DEF FileOK
  <2>5. \A n \in DOMAIN files : Holds(files, n) \/ n \in cut
    BY DEF FilesHold, Written
  <2>6. \A n \in DOMAIN files' : Written(n)'
    BY <2>1, <2>2, <2>5 DEF Written, Holds, killVars
  <2> QED
    BY <2>2, <2>3, <2>4, <2>6 DEF FilesHold
<1> QED
  BY <1>1, <1>2

LEMMA StoreBlobContents ==
  ASSUME Typed, BatchOK, FileOK, ContentOK, StoreBlob
  PROVE  BatchOK' /\ FileOK' /\ ContentOK' /\ Stays
<1> PICK c \in Contents \ given :
      /\ given' = given \cup {c}
      /\ \/ unstructured = "LevelDb" /\ Put(c) /\ UNCHANGED file
         \/ unstructured = "LocalGzip" /\ OpenFile(c)
         \/ unstructured = "Gcs" /\ PutObjectGcs(c)
         \/ unstructured = "S3" /\ PutObjectS3(c)
         \/ unstructured = "Memory" /\ KeepInMemory(c)
  BY DEF StoreBlob
<1>1. process = "up" /\ file = None /\ UNCHANGED <<unstructured, process, crawl, killVars>>
  BY DEF StoreBlob, Ready
<1>2. CASE unstructured = "LevelDb" /\ Put(c) /\ UNCHANGED file
  BY <1>1, <1>2, PutContent
<1>3. CASE unstructured # "LevelDb" /\ UNCHANGED <<content_batch, ldb_counter>> /\ Stays /\ Grows
           /\ c.filename \in DOMAIN files' /\ FileOK' /\ FilesHold'
  <2>1. BatchOK' /\ content_batch = <<>>
    BY <1>1, <1>3, NoContents DEF BatchOK
  <2>2. BatchHolds'
    BY <1>3, <2>1, NoContents DEF BatchHolds
  <2>3. Named'
    BY <1>1, <1>3 DEF ContentOK, Named, Grows, killVars
  <2> QED
    BY <1>3, <2>1, <2>2, <2>3 DEF ContentOK
<1>4. CASE unstructured = "LocalGzip" /\ OpenFile(c)
  <2>1. Stays /\ Grows /\ c.filename \in DOMAIN files' /\ FileOK' /\ FilesHold'
    BY <1>1, <1>4, OpenContent, ContentsAssumption DEF ContentOK
  <2> QED
    BY <1>3, <1>4, <2>1 DEF OpenFile
<1>5. CASE /\ unstructured \in {"Gcs", "S3", "Memory"}
           /\ files' = Stored(c) /\ UNCHANGED <<content_batch, ldb_counter, file>>
  <2>1. FileOK'
    BY <1>1, <1>5 DEF FileOK
  <2>2. Stays /\ Grows /\ c.filename \in DOMAIN files' /\ FilesHold'
    BY <1>1, <1>5, StoredContent DEF ContentOK
  <2> QED
    BY <1>3, <1>5, <2>1, <2>2
<1> QED
  BY <1>2, <1>4, <1>5 DEF PutObjectGcs, PutObjectS3, KeepInMemory

LEMMA WriteFileContents ==
  ASSUME BatchOK, FileOK, ContentOK, WriteFile
  PROVE  BatchOK' /\ FileOK' /\ ContentOK' /\ Stays
<1>1. files' = [files EXCEPT ![file.filename] = file.blob] /\ file' = None /\ file # None
      /\ UNCHANGED <<unstructured, process, crawl, given, content_batch, ldb_counter, killVars>>
  BY DEF WriteFile
<1>2. /\ DOMAIN files' = DOMAIN files /\ files'[file.filename] = file.blob
      /\ \A n \in DOMAIN files : n # file.filename => files'[n] = files[n]
  BY <1>1 DEF FileOK
<1>3. Stays
  BY <1>1 DEF FileOK, Stays
<1>4. BatchOK' /\ FileOK'
  BY <1>1, <1>2 DEF BatchOK, FileOK
<1>5. file \in given
  BY <1>1 DEF FileOK
<1>6. FilesHold'
  BY <1>1, <1>2, <1>5 DEF ContentOK, FilesHold, Written, Holds, killVars
<1>7. BatchHolds' /\ Named'
  BY <1>1, <1>2 DEF ContentOK, BatchHolds, Named, Holds, killVars
<1> QED
  BY <1>3, <1>4, <1>6, <1>7 DEF ContentOK

(* The batch is written, by a flush or at the end.                         *)
LEMMA WrittenContents ==
  ASSUME BatchOK, FileOK, ContentOK, files' = Write(content_batch), content_batch' = <<>>,
         ldb_counter' \in {0, ldb_counter}, file = None \/ process' = process,
         UNCHANGED <<unstructured, crawl, given, file, killVars>>
  PROVE  BatchOK' /\ FileOK' /\ ContentOK' /\ Stays
<1>1. /\ DOMAIN files' = DOMAIN content_batch \cup DOMAIN files
      /\ \A n \in DOMAIN files : files'[n] = files[n]
      /\ \A n \in DOMAIN content_batch : files'[n] = content_batch[n]
  BY DEF Write, Over, BatchOK
<1>2. Stays
  BY <1>1 DEF Stays
<1>3. BatchOK'
  BY NoContents, BatchAssumption DEF BatchOK
<1>4. FileOK'
  BY <1>1 DEF FileOK
<1>5. FilesHold'
  BY <1>1 DEF ContentOK, FilesHold, BatchHolds, Written, Holds, killVars
<1>6. BatchHolds' /\ Named'
  BY <1>1, NoContents DEF ContentOK, BatchHolds, Named, killVars
<1> QED
  BY <1>2, <1>3, <1>4, <1>5, <1>6 DEF ContentOK

(* What a kill costs is in lost and in cut.                                *)
LEMMA KilledContents ==
  ASSUME BatchOK, ContentOK, Killed
  PROVE  BatchOK' /\ FileOK' /\ ContentOK' /\ Stays
<1>1. /\ content_batch' = <<>> /\ file' = None /\ UNCHANGED <<given, files>>
      /\ lost' = lost \cup {c \in given : c.filename \in DOMAIN content_batch}
      /\ cut' = IF file = None THEN cut ELSE cut \cup {file.filename}
  BY DEF Killed
<1>2. BatchOK' /\ FileOK' /\ Stays
  BY NoContents, BatchAssumption DEF Killed, BatchOK, FileOK, Stays
<1>3. FilesHold'
  BY <1>1 DEF ContentOK, FilesHold, Written, Holds
<1>4. BatchHolds' /\ Named'
  BY <1>1, NoContents DEF ContentOK, BatchHolds, Named
<1> QED
  BY <1>2, <1>3, <1>4 DEF ContentOK

LEMMA OtherContents ==
  ASSUME BatchOK, FileOK, ContentOK, UNCHANGED <<unstructured, blobVars>>,
         process' # "closed" \/ process' = process, file = None \/ process' = process
  PROVE  BatchOK' /\ FileOK' /\ ContentOK' /\ Stays
<1>1. BatchOK' /\ FileOK' /\ Stays
  BY DEF blobVars, BatchOK, FileOK, Stays
<1>2. ContentOK'
  BY DEF blobVars, killVars, ContentOK, FilesHold, Written, BatchHolds, Named, Holds
<1> QED
  BY <1>1, <1>2

LEMMA NextContents ==
  ASSUME Typed, BatchOK, FileOK, ContentOK, [Next]_vars
  PROVE  BatchOK' /\ FileOK' /\ ContentOK' /\ Stays
<1>1. CASE StoreRecord \/ Finalize \/ CloseStructured
  BY <1>1, OtherContents DEF StoreRecord, Finalize, CloseStructured, Ready
<1>2. CASE StoreBlob
  BY <1>2, StoreBlobContents
<1>3. CASE WriteFile
  BY <1>3, WriteFileContents
<1>4. CASE Flush
  BY <1>4, WrittenContents DEF Flush, FlushBlobs, Ready
<1>5. CASE CloseUnstructured
  BY <1>5, WrittenContents DEF CloseUnstructured, FileOK
<1>6. CASE Killed
  BY <1>6, KilledContents
<1>7. CASE NextCrawl
  BY <1>7, OtherContents DEF NextCrawl, FileOK
<1>8. CASE UNCHANGED vars
  BY <1>8, OtherContents DEF vars
<1> QED
  BY <1>1, <1>2, <1>3, <1>4, <1>5, <1>6, <1>7, <1>8 DEF Next

(* The invariant about contents, which gives the three theorems below.     *)
ContentsInv == RowsInv /\ BatchOK /\ FileOK /\ ContentOK
THEOREM ContentsAreKept == Spec => []ContentsInv
<1>1. Init => ContentsInv
  BY InitRows, InitContents DEF ContentsInv
<1>2. ContentsInv /\ [Next]_vars => ContentsInv'
  BY NextRows, NextContents DEF ContentsInv, RowsInv
<1> QED
  BY <1>1, <1>2, PTL DEF Spec

(* The bytes of every content that was accepted, in this crawl or an       *)
(* earlier one, are complete on storage, or in the batch or the open file  *)
(* of the living process, but for what a kill costs: the contents of the   *)
(* batch and the name of the open file (store_blob, flush_cache,           *)
(* shutdown).                                                              *)
THEOREM AcceptedContentIsKept == Spec => []ContentIsKept
<1>1. ContentsInv => ContentIsKept
  <2> SUFFICES ASSUME BatchOK, FileOK, ContentOK, NEW c \in given
               PROVE  \/ Holds(files, c.filename)
                      \/ process # "closed" /\ Holds(content_batch, c.filename)
                      \/ file # None /\ process = "up" /\ file.filename = c.filename
                      \/ c \in lost \/ c.filename \in cut
    BY DEF ContentsInv, ContentIsKept
  <2>1. CASE c.filename \in DOMAIN files
    BY <2>1 DEF ContentOK, FilesHold, Written, FileOK
  <2>2. CASE c.filename \in DOMAIN content_batch
    BY <2>2, NoContents DEF ContentOK, BatchHolds, BatchOK
  <2> QED
    BY <2>1, <2>2 DEF ContentOK, Named
<1> QED
  BY <1>1, ContentsAreKept, PTL

(* A content on storage is never replaced by another of the same name      *)
(* (store_blob).                                                           *)
THEOREM StoredContentStays == Spec => FirstContentStays
<1>1. ContentsInv /\ [Next]_vars => [Stays]_vars
  BY NextContents DEF ContentsInv, RowsInv
<1> QED
  BY <1>1, ContentsAreKept, PTL DEF Spec, FirstContentStays, Stays

(* A crash costs less than LDB_BATCH_SIZE contents, for any such size      *)
(* (LevelDbProvider.store_blob, flush_cache).                              *)
THEOREM CrashCostsABatch == Spec => []BatchIsBounded
<1>1. ContentsInv => BatchIsBounded
  <2> SUFFICES ASSUME BatchOK PROVE BatchIsBounded
    BY DEF ContentsInv
  <2>1. Cardinality(DOMAIN content_batch) \in Nat
    BY FS_CardinalityType DEF BatchOK
  <2> QED
    BY <2>1, BatchAssumption DEF BatchOK, BatchIsBounded
<1> QED
  BY <1>1, ContentsAreKept, PTL

-----------------------------------------------------------------------------
(* The analyses.  The rows of a query stand in order, so that those of one *)
(* id stand together; while an analyzer reads, its facts are those of the  *)
(* stretch that it is in, and its results those of the stretches before.   *)

(* One request of each page that matches, in the order of some run.        *)
FirstOfPages(name, first) ==
    /\ first \subseteq Matching(name)
    /\ \A id \in Matching(name) : \E f \in first : f[3] = id[3]
    /\ \A f, g \in first : f[3] = g[3] => f = g

(* The rows up to n, and of these the stretch with the id of the last.     *)
UpTo(s, n) == {s[k] : k \in 1 .. n}
Stretch(s, n) == Own(UpTo(s, n), s[n].id)

AnalysisTyped ==
    /\ db \in Databases /\ objects \in Seq(Range(objects)) /\ DOMAIN results = DOMAIN objects
    /\ current \in 1 .. Len(objects) + 1
    /\ main = "start" => current = 1

(* What has run found what its rows amount to.                             *)
RunsOK ==
    \A i \in 1 .. current - 1 :
        /\ objects[i] \in ScriptNames => results[i] = Found(objects[i], db.javascript, Ids(db.javascript))
        /\ objects[i] \in RequestNames =>
             \E first : FirstOfPages(objects[i], first) /\ results[i] = {<<id, 1>> : id \in first}

(* While one runs, its facts are those of the stretch it is in, and it has *)
(* found what the stretches before amount to.                              *)
StretchOK ==
    main = "rows" =>
      /\ current <= Len(objects) /\ Name \notin RequestNames
      /\ \E q \in Queries(Name) : fetched = Ordered(q)
      /\ pos \in 0 .. Len(fetched) /\ facts = FactsOf(Name, Stretch(fetched, pos))
      /\ results[current] = Found(Name, Range(fetched), Ids(UpTo(fetched, pos)) \ {fetched[pos].id})

AnalysisInv ==
    /\ AnalysisTyped /\ RunsOK /\ StretchOK
    /\ ResultsAreOfTheirRows /\ TableSaysWhatWasFound /\ TrackersAreFound

-----------------------------------------------------------------------------
(* The order of a query.                                                   *)
LEMMA BeforeIs ==
  ASSUME NEW a \in Triples, NEW b \in Triples
  PROVE  /\ {a[1], a[2], a[3]} \subseteq Nat /\ a = <<a[1], a[2], a[3]>>
         /\ Before(a, b) <=> \/ a[1] < b[1]
                             \/ (a[1] = b[1] /\ a[2] < b[2])
                             \/ (a[1] = b[1] /\ a[2] = b[2] /\ a[3] < b[3])
<1>1. {a[1], a[2], a[3]} \subseteq Nat /\ a = <<a[1], a[2], a[3]>>
  BY DEF Triples
<1>2. 1 .. 3 = {1, 2, 3} /\ 1 .. 1 - 1 = {} /\ 1 .. 2 - 1 = {1} /\ 1 .. 3 - 1 = {1, 2}
  OBVIOUS
<1>3. /\ (a[1] < b[1] /\ \A i \in 1 .. 1 - 1 : a[i] = b[i]) <=> a[1] < b[1]
      /\ (a[2] < b[2] /\ \A i \in 1 .. 2 - 1 : a[i] = b[i]) <=> (a[1] = b[1] /\ a[2] < b[2])
      /\ (a[3] < b[3] /\ \A i \in 1 .. 3 - 1 : a[i] = b[i]) <=> (a[1] = b[1] /\ a[2] = b[2] /\ a[3] < b[3])
  BY <1>2
<1>. QED BY <1>1, <1>2, <1>3 DEF Before

(* The rows of a query: ids and ordinals tell them apart.                  *)
IsQuery(set) ==
    /\ IsFiniteSet(set)
    /\ \A r \in set : r.id \in Triples /\ r.ordinal \in Nat
    /\ \A r, s \in set : r.id = s.id /\ r.ordinal = s.ordinal => r = s

LEMMA BeforeIsOrder ==
  ASSUME NEW a \in Triples, NEW b \in Triples, NEW c \in Triples
  PROVE  /\ ~(Before(a, b) /\ Before(b, a)) /\ ~Before(a, a)
         /\ Before(a, b) /\ Before(b, c) => Before(a, c)
         /\ a = b \/ Before(a, b) \/ Before(b, a)
<1>1. /\ {a[1], a[2], a[3], b[1], b[2], b[3], c[1], c[2], c[3]} \subseteq Nat
      /\ a = <<a[1], a[2], a[3]>> /\ b = <<b[1], b[2], b[3]>>
  BY BeforeIs
<1>2. a[1] = b[1] /\ a[2] = b[2] /\ a[3] = b[3] => a = b
  BY <1>1
<1>3. \A x, y \in {a, b, c} : Before(x, y) <=> \/ x[1] < y[1]
                                              \/ (x[1] = y[1] /\ x[2] < y[2])
                                              \/ (x[1] = y[1] /\ x[2] = y[2] /\ x[3] < y[3])
  BY BeforeIs
<1>. QED BY <1>1, <1>2, <1>3

LEMMA InOrderIsOrder ==
  ASSUME NEW set, IsQuery(set), NEW r \in set, NEW s \in set, NEW t \in set
  PROVE  /\ ~(InOrder(r, s) /\ InOrder(s, r)) /\ ~InOrder(r, r)
         /\ InOrder(r, s) /\ InOrder(s, t) => InOrder(r, t)
         /\ r = s \/ InOrder(r, s) \/ InOrder(s, r)
<1>1. /\ {r.id, s.id, t.id} \subseteq Triples /\ {r.ordinal, s.ordinal, t.ordinal} \subseteq Nat
      /\ r.id = s.id /\ r.ordinal = s.ordinal => r = s
  BY DEF IsQuery
<1>2. /\ ~(Before(r.id, s.id) /\ Before(s.id, r.id)) /\ ~Before(r.id, r.id) /\ ~Before(s.id, s.id)
      /\ Before(r.id, s.id) /\ Before(s.id, t.id) => Before(r.id, t.id)
      /\ r.id = s.id \/ Before(r.id, s.id) \/ Before(s.id, r.id)
  BY <1>1, BeforeIsOrder
<1>. QED BY <1>1, <1>2 DEF InOrder

(* A row has as many before it as its place says, so that each place has   *)
(* one.                                                                    *)
LEMMA OrderedIs ==
  ASSUME NEW set, IsQuery(set)
  PROVE  /\ Ordered(set) \in Seq(set) /\ Range(Ordered(set)) = set
         /\ \A i, j \in DOMAIN Ordered(set) : i < j => InOrder(Ordered(set)[i], Ordered(set)[j])
<1>. DEFINE n == Cardinality(set)
            below(r) == {s \in set : InOrder(s, r)}
            rank == [r \in set |-> Cardinality(below(r))]
            places == 0 .. n - 1
<1>1. IsFiniteSet(set) /\ n \in Nat
  BY FS_CardinalityType DEF IsQuery
<1>2. ASSUME NEW r \in set
      PROVE  IsFiniteSet(below(r)) /\ rank[r] \in Nat /\ rank[r] = Cardinality(below(r))
  BY <1>1, FS_Subset, FS_CardinalityType
<1>3. ASSUME NEW r \in set, NEW s \in set, InOrder(r, s)
      PROVE  rank[r] < rank[s]
  <2>1. below(r) \cup {r} \subseteq below(s) /\ r \notin below(r)
    BY <1>3, InOrderIsOrder
  <2>2. Cardinality(below(r) \cup {r}) = Cardinality(below(r)) + 1
    BY <1>2, <2>1, FS_AddElement
  <2>3. Cardinality(below(r) \cup {r}) <= Cardinality(below(s))
    BY <1>2, <2>1, FS_Subset
  <2>. HIDE DEF below
  <2>. QED BY <1>2, <2>2, <2>3
<1>4. ASSUME NEW r \in set
      PROVE  rank[r] \in places
  <2>1. below(r) \cup {r} \subseteq set /\ r \notin below(r)
    BY InOrderIsOrder
  <2>2. Cardinality(below(r) \cup {r}) = Cardinality(below(r)) + 1
    BY <1>2, <2>1, FS_AddElement
  <2>3. Cardinality(below(r) \cup {r}) <= n
    BY <1>1, <2>1, FS_Subset
  <2>. HIDE DEF below, n
  <2>. QED BY <1>1, <1>2, <2>2, <2>3
<1>5. \A r, s \in set : rank[r] = rank[s] => r = s
  <2>1. SUFFICES ASSUME NEW r \in set, NEW s \in set, rank[r] = rank[s] PROVE r = s
    OBVIOUS
  <2>2. rank[r] \in Nat
    BY <1>2
  <2>. HIDE DEF rank
  <2>. QED BY <1>3, <2>1, <2>2, InOrderIsOrder
<1>6. rank \in Injection(set, places)
  BY <1>4, <1>5 DEF Injection, IsInjective
<1>7. IsFiniteSet(places) /\ Cardinality(places) = n
  BY <1>1, FS_Interval
<1>8. rank \in Surjection(set, places)
  <2>. HIDE DEF rank, places
  <2>. QED BY <1>6, <1>7, FS_Injection
<1>9. \A k \in 1 .. n : \E r \in set : rank[r] = k - 1
  <2>1. \A t \in places : \E r \in set : rank[r] = t
    <3>. HIDE DEF rank, places
    <3>. QED BY <1>8 DEF Surjection
  <2>2. \A k \in 1 .. n : k - 1 \in places
    BY <1>1
  <2>. HIDE DEF rank, places, n
  <2>. QED BY <2>1, <2>2
<1>. DEFINE o == Ordered(set)
<1>10. DOMAIN o = 1 .. n /\ o = [k \in 1 .. n |-> o[k]] /\ \A k \in 1 .. n : o[k] \in set /\ rank[o[k]] = k - 1
  <2>1. o = [k \in 1 .. n |-> CHOOSE r \in set : Cardinality(below(r)) = k - 1]
    BY DEF Ordered
  <2>2. ASSUME NEW k \in 1 .. n
        PROVE  o[k] \in set /\ Cardinality(below(o[k])) = k - 1
    <3>1. \E r \in set : Cardinality(below(r)) = k - 1
      BY <1>9
    <3>. HIDE DEF below
    <3>. QED BY <2>1, <3>1
  <2>3. DOMAIN o = 1 .. n /\ o = [k \in 1 .. n |-> o[k]]
    <3>. HIDE DEF below, n
    <3>. QED BY <2>1
  <2>. QED BY <2>2, <2>3
<1>. HIDE DEF o, rank, places, n
<1>11. o \in Seq(set)
  <2>1. o \in [1 .. n -> set]
    BY <1>10
  <2>. QED BY <1>1, <2>1
<1>12. Range(o) = set
  <2>1. \A r \in set : \E k \in 1 .. n : o[k] = r
    <3>1. SUFFICES ASSUME NEW r \in set PROVE \E k \in 1 .. n : o[k] = r
      OBVIOUS
    <3>2. rank[r] + 1 \in 1 .. n
      BY <1>1, <1>4 DEF places
    <3>3. PICK k \in 1 .. n : k = rank[r] + 1
      BY <3>2
    <3>4. o[k] \in set /\ rank[o[k]] = k - 1
      BY <1>10
    <3>5. rank[r] \in Nat
      BY <1>2
    <3>6. rank[o[k]] = rank[r]
      <4>. HIDE DEF rank
      <4>. QED BY <3>3, <3>4, <3>5
    <3>. QED BY <1>5, <3>4, <3>6
  <2>. QED BY <1>10, <2>1 DEF Range
<1>13. ASSUME NEW i \in 1 .. n, NEW j \in 1 .. n, i < j
       PROVE  InOrder(o[i], o[j])
  <2>1. o[i] \in set /\ o[j] \in set /\ rank[o[i]] = i - 1 /\ rank[o[j]] = j - 1
    BY <1>10
  <2>2. ~InOrder(o[j], o[i]) /\ o[i] # o[j]
    BY <1>3, <1>13, <2>1
  <2>. QED BY <2>1, <2>2, InOrderIsOrder
<1>. QED BY <1>10, <1>11, <1>12, <1>13 DEF o

(* The rows with one id stand together.                                    *)
LEMMA IdsStandTogether ==
  ASSUME NEW set, IsQuery(set), NEW i \in DOMAIN Ordered(set), NEW j \in DOMAIN Ordered(set),
         NEW k \in DOMAIN Ordered(set), i <= j, j <= k, Ordered(set)[i].id = Ordered(set)[k].id
  PROVE  Ordered(set)[j].id = Ordered(set)[i].id
<1>. DEFINE o == Ordered(set)
<1>1. {i, j, k} \subseteq Nat /\ {o[i], o[j], o[k]} \subseteq set
  BY OrderedIs
<1>2. SUFFICES ASSUME i < j, j < k, o[j].id # o[i].id PROVE FALSE
  BY <1>1
<1>3. InOrder(o[i], o[j]) /\ InOrder(o[j], o[k])
  BY <1>2, OrderedIs
<1>4. {o[i].id, o[j].id, o[k].id} \subseteq Triples
  BY <1>1 DEF IsQuery
<1>. HIDE DEF o
<1>5. Before(o[i].id, o[j].id) /\ Before(o[j].id, o[i].id)
  BY <1>2, <1>3 DEF InOrder, o
<1>. QED BY <1>4, <1>5, BeforeIsOrder

(* No row stands at two places.                                            *)
LEMMA RowsDiffer ==
  ASSUME NEW set, IsQuery(set), NEW i \in DOMAIN Ordered(set), NEW j \in DOMAIN Ordered(set), i # j
  PROVE  Ordered(set)[i] # Ordered(set)[j]
<1>1. {i, j} \subseteq Nat /\ Ordered(set)[i] \in set
  BY OrderedIs
<1>2. i < j \/ j < i
  BY <1>1
<1>. QED BY <1>1, <1>2, OrderedIs, InOrderIsOrder

-----------------------------------------------------------------------------
(* What an analyzer keeps of some rows.                                    *)
LEMMA FactsOfNone ==
  ASSUME NEW name
  PROVE  FactsOf(name, {}) = EmptyBag
<1>1. UNION {Reads(name, r) : r \in {}} = {}
  OBVIOUS
<1>. QED BY <1>1 DEF FactsOf, EmptyBag, SetToBag

LEMMA FactsOfMore ==
  ASSUME NEW name, NEW set, IsFiniteSet(set), NEW row, row \notin set
  PROVE  FactsOf(name, set) (+) SetToBag(Reads(name, row)) = FactsOf(name, set \cup {row})
<1>. DEFINE all == set \cup {row}
            old == UNION {Reads(name, r) : r \in set}
            new == UNION {Reads(name, r) : r \in all}
            with(f, s) == {r \in s : f \in Reads(name, r)}
            more == FactsOf(name, set) (+) SetToBag(Reads(name, row))
<1>1. new = old \cup Reads(name, row)
  OBVIOUS
<1>2. FactsOf(name, set) = [f \in old |-> Cardinality(with(f, set))]
  BY DEF FactsOf
<1>3. FactsOf(name, all) = [f \in new |-> Cardinality(with(f, all))]
  BY DEF FactsOf
<1>4. SetToBag(Reads(name, row)) = [f \in Reads(name, row) |-> 1]
  BY DEF SetToBag
<1>5. more = [f \in new |-> (IF f \in old THEN Cardinality(with(f, set)) ELSE 0)
                             + (IF f \in Reads(name, row) THEN 1 ELSE 0)]
  <2>. HIDE DEF with
  <2>. DEFINE A == FactsOf(name, set)
              B == SetToBag(Reads(name, row))
  <2>1. A (+) B = [e \in DOMAIN A \cup DOMAIN B |-> (IF e \in DOMAIN A THEN A[e] ELSE 0)
                                                   + (IF e \in DOMAIN B THEN B[e] ELSE 0)]
    BY DEF (+)
  <2>2. DOMAIN A = old /\ \A f \in old : A[f] = Cardinality(with(f, set))
    <3>. HIDE DEF old
    <3>. QED BY <1>2
  <2>3. DOMAIN B = Reads(name, row) /\ \A f \in Reads(name, row) : B[f] = 1
    BY <1>4
  <2>4. new = DOMAIN A \cup DOMAIN B
    BY <1>1, <2>2, <2>3
  <2>. HIDE DEF A, B, old, new
  <2>. QED BY <2>1, <2>2, <2>3, <2>4 DEF A, B
<1>6. ASSUME NEW f \in new
      PROVE  (IF f \in old THEN Cardinality(with(f, set)) ELSE 0)
               + (IF f \in Reads(name, row) THEN 1 ELSE 0) = Cardinality(with(f, all))
  <2>1. IsFiniteSet(with(f, set)) /\ Cardinality(with(f, set)) \in Nat
    BY FS_Subset, FS_CardinalityType
  <2>2. f \notin old => with(f, set) = {} /\ Cardinality(with(f, set)) = 0
    BY FS_EmptySet
  <2>3. CASE f \in Reads(name, row)
    <3>1. with(f, all) = with(f, set) \cup {row} /\ row \notin with(f, set)
      BY <2>3
    <3>2. Cardinality(with(f, all)) = Cardinality(with(f, set)) + 1
      BY <2>1, <3>1, FS_AddElement
    <3>. HIDE DEF with, old
    <3>. QED BY <2>1, <2>2, <2>3, <3>2
  <2>4. CASE f \notin Reads(name, row)
    <3>1. with(f, all) = with(f, set)
      BY <2>4
    <3>. HIDE DEF with, old
    <3>. QED BY <2>1, <2>2, <2>4, <3>1
  <2>. QED BY <2>3, <2>4
<1>. HIDE DEF old, new, with
<1>. QED BY <1>3, <1>5, <1>6

-----------------------------------------------------------------------------
(* The rows of every query are told apart by their ids and ordinals.       *)
LEMMA JoinedIs ==
  ASSUME db \in Databases, NEW c \in db.cookies, NEW j \in db.javascript
  PROVE  /\ Joined(c, j).id \in Triples /\ Joined(c, j).ordinal \in Nat
         /\ \A d \in db.cookies, k \in db.javascript :
              Joined(c, j).id = Joined(d, k).id /\ Joined(c, j).ordinal = Joined(d, k).ordinal
                => Joined(c, j) = Joined(d, k)
<1>1. {c.visit, c.host, c.ordinal} \subseteq Nat /\ j.id \in Triples
  BY DatabasesAssumption
<1>2. j.id[3] \in Nat
  BY <1>1, BeforeIs
<1>3. <<c.visit, c.host, j.id[3]>> \in Triples
  BY <1>1, <1>2 DEF Triples
<1>4. ASSUME NEW d \in db.cookies, NEW k \in db.javascript,
             Joined(c, j).id = Joined(d, k).id, Joined(c, j).ordinal = Joined(d, k).ordinal
      PROVE  Joined(c, j) = Joined(d, k)
  <2>1. <<c.visit, c.host, j.id[3]>> = <<d.visit, d.host, k.id[3]>> /\ c.ordinal = d.ordinal
    BY <1>4 DEF Joined
  <2>2. c.visit = d.visit /\ j.id[3] = k.id[3]
    BY <2>1
  <2>3. c = d
    BY <2>1, <2>2, DatabasesAssumption
  <2>. QED BY <2>2, <2>3 DEF Joined
<1>. QED BY <1>1, <1>3, <1>4 DEF Joined

LEMMA QueriesAre ==
  ASSUME db \in Databases, NEW name, NEW q \in Queries(name)
  PROVE  IsQuery(q)
<1>. DEFINE pairs == db.cookies \X db.javascript
            joins == [p \in pairs |-> Joined(p[1], p[2])]
            image == {joins[p] : p \in pairs}
<1>1. IsFiniteSet(db.javascript) /\ IsFiniteSet(db.cookies)
  BY DatabasesAssumption
<1>2. CASE q = db.javascript
  BY <1>2, DatabasesAssumption DEF IsQuery
<1>3. CASE q \subseteq UNION {Joins(g) : g \in CookieGroups}
  <2>1. IsFiniteSet(image)
    <3>1. IsFiniteSet(pairs)
      BY <1>1, FS_Product
    <3>2. joins \in Surjection(pairs, image)
      <4>. HIDE DEF pairs
      <4>. QED BY DEF Surjection
    <3>. HIDE DEF joins, image, pairs
    <3>. QED BY <3>1, <3>2, FS_Surjection
  <2>2. \A r \in q : \E c \in db.cookies, j \in db.javascript : r = Joined(c, j)
    BY <1>3 DEF Joins
  <2>3. q \subseteq image
    <3>1. SUFFICES ASSUME NEW r \in q PROVE r \in image
      OBVIOUS
    <3>2. PICK c \in db.cookies, j \in db.javascript : r = Joined(c, j)
      BY <2>2
    <3>3. <<c, j>> \in pairs /\ joins[<<c, j>>] = r
      BY <3>2
    <3>. HIDE DEF joins, pairs
    <3>. QED BY <3>3
  <2>4. IsFiniteSet(q)
    <3>. HIDE DEF image
    <3>. QED BY <2>1, <2>3, FS_Subset
  <2>5. ASSUME NEW r \in q
        PROVE  r.id \in Triples /\ r.ordinal \in Nat
    BY <2>2, JoinedIs
  <2>6. ASSUME NEW r \in q, NEW s \in q, r.id = s.id, r.ordinal = s.ordinal
        PROVE  r = s
    <3>1. PICK c \in db.cookies, j \in db.javascript : r = Joined(c, j)
      BY <2>2
    <3>2. PICK d \in db.cookies, k \in db.javascript : s = Joined(d, k)
      BY <2>2
    <3>. QED BY <2>6, <3>1, <3>2, JoinedIs
  <2>. QED BY <2>4, <2>5, <2>6 DEF IsQuery
<1>4. CASE q \in CookieRows
  <2>1. Range([g \in CookieGroups |-> Joins(g)]) = {Joins(g) : g \in CookieGroups}
    BY DEF Range
  <2>2. q \subseteq UNION {Joins(g) : g \in CookieGroups}
    BY <1>4, <2>1 DEF CookieRows
  <2>. QED BY <1>3, <2>2
<1>. QED BY <1>2, <1>4 DEF Queries

-----------------------------------------------------------------------------
(* From stretch to stretch.                                                *)
LEMMA StretchEnds ==
  ASSUME NEW set, IsQuery(set), NEW s, s = Ordered(set), NEW n \in 1 .. Len(s),
         n = Len(s) \/ s[n].id # s[n + 1].id
  PROVE  /\ Stretch(s, n) = Own(Range(s), s[n].id) /\ s[n].id \in Ids(UpTo(s, n))
         /\ \A k \in 1 .. n : n < Len(s) => s[k].id # s[n + 1].id
<1>1. PICK N : N = Len(s)
  OBVIOUS
<1>2. N \in Nat /\ DOMAIN s = 1 .. N /\ n \in 1 .. N
  BY <1>1, OrderedIs
<1>3. n \in 1 .. n /\ 1 .. n \subseteq DOMAIN s
  BY <1>2
<1>4. ASSUME NEW k \in 1 .. n, n < N, s[k].id = s[n + 1].id
      PROVE  FALSE
  <2>1. k \in 1 .. N /\ n + 1 \in 1 .. N /\ k <= n /\ n <= n + 1 /\ n # N
    BY <1>2, <1>4
  <2>2. s[n].id = s[k].id
    BY <1>2, <1>4, <2>1, IdsStandTogether
  <2>. QED BY <1>1, <1>4, <2>1, <2>2
<1>5. ASSUME NEW k \in DOMAIN s, s[k].id = s[n].id
      PROVE  k \in 1 .. n
  <2>1. ASSUME n < k PROVE FALSE
    <3>1. n + 1 \in 1 .. N /\ n <= n + 1 /\ n + 1 <= k /\ n # N
      BY <1>2, <2>1
    <3>2. s[n + 1].id = s[n].id
      BY <1>2, <1>5, <3>1, IdsStandTogether
    <3>. QED BY <1>1, <3>1, <3>2
  <2>2. k \in 1 .. N
    BY <1>2
  <2>. QED BY <1>2, <2>1, <2>2
<1>. QED BY <1>1, <1>3, <1>4, <1>5 DEF Stretch, Own, UpTo, Range, Ids

OneFurther(s, n) ==
    IF n > 0 /\ s[n].id # s[n + 1].id
    THEN /\ Stretch(s, n + 1) = {s[n + 1]}
         /\ Ids(UpTo(s, n + 1)) \ {s[n + 1].id} = (Ids(UpTo(s, n)) \ {s[n].id}) \cup {s[n].id}
    ELSE /\ Stretch(s, n + 1) = Stretch(s, n) \cup {s[n + 1]}
         /\ Ids(UpTo(s, n + 1)) \ {s[n + 1].id} = Ids(UpTo(s, n)) \ {s[n].id}
LEMMA StretchGoesOn ==
  ASSUME NEW set, IsQuery(set), NEW s, s = Ordered(set), NEW n \in 0 .. Len(s) - 1
  PROVE  /\ IsFiniteSet(Stretch(s, n)) /\ s[n + 1] \notin Stretch(s, n)
         /\ OneFurther(s, n)
<1>1. /\ Len(s) \in Nat /\ DOMAIN s = 1 .. Len(s) /\ n \in Nat /\ n + 1 \in DOMAIN s
      /\ 1 .. n \subseteq DOMAIN s /\ n < Len(s)
      /\ \A k \in 1 .. n : k # n + 1
  BY OrderedIs
<1>2. \A k \in 1 .. n : s[k] \in set /\ s[k] # s[n + 1]
  BY <1>1, OrderedIs, RowsDiffer
<1>3. IsFiniteSet(Stretch(s, n)) /\ s[n + 1] \notin Stretch(s, n)
  <2>1. Stretch(s, n) \subseteq set
    BY <1>2 DEF Stretch, Own, UpTo
  <2>. QED BY <1>2, <2>1, FS_Subset DEF Stretch, Own, UpTo, IsQuery
<1>4. 1 .. n + 1 = (1 .. n) \cup {n + 1}
  BY <1>1
<1>5. UpTo(s, n + 1) = UpTo(s, n) \cup {s[n + 1]}
  BY <1>4 DEF UpTo
<1>6. Ids(UpTo(s, n + 1)) = Ids(UpTo(s, n)) \cup {s[n + 1].id}
  BY <1>5 DEF Ids
<1>7. Stretch(s, n + 1) = Own(UpTo(s, n), s[n + 1].id) \cup {s[n + 1]}
  BY <1>5 DEF Stretch, Own
<1>8. CASE n > 0 /\ s[n].id # s[n + 1].id
  <2>1. n \in 1 .. Len(s)
    BY <1>1, <1>8
  <2>2. s[n].id \in Ids(UpTo(s, n)) /\ \A k \in 1 .. n : s[k].id # s[n + 1].id
    BY <1>1, <1>8, <2>1, StretchEnds
  <2>3. Own(UpTo(s, n), s[n + 1].id) = {} /\ s[n + 1].id \notin Ids(UpTo(s, n))
    BY <2>2 DEF Own, UpTo, Ids
  <2>. QED BY <1>3, <1>6, <1>7, <1>8, <2>2, <2>3 DEF OneFurther
<1>9. CASE n = 0
  <2>1. UpTo(s, n) = {} /\ Ids(UpTo(s, n)) = {}
    BY <1>9 DEF UpTo, Ids
  <2>2. Stretch(s, n) = {} /\ Own(UpTo(s, n), s[n + 1].id) = {}
    BY <2>1 DEF Stretch, Own
  <2>. QED BY <1>3, <1>6, <1>7, <1>9, <2>1, <2>2 DEF OneFurther
<1>10. CASE n > 0 /\ s[n].id = s[n + 1].id
  <2>1. Stretch(s, n) = Own(UpTo(s, n), s[n + 1].id)
    BY <1>10 DEF Stretch
  <2>. QED BY <1>3, <1>6, <1>7, <1>10, <2>1 DEF OneFurther
<1>11. OneFurther(s, n)
  BY <1>1, <1>8, <1>9, <1>10 DEF OneFurther
<1>. QED BY <1>3, <1>11

LEMMA NothingYet ==
  ASSUME NEW s, NEW name, NEW set
  PROVE  /\ FactsOf(name, Stretch(s, 0)) = EmptyBag
         /\ Found(name, set, Ids(UpTo(s, 0)) \ {s[0].id}) = {}
<1>1. UpTo(s, 0) = {}
  BY DEF UpTo
<1>2. Stretch(s, 0) = {} /\ Ids(UpTo(s, 0)) \ {s[0].id} = {}
  BY <1>1 DEF Stretch, Own, Ids
<1>. QED BY <1>2, FactsOfNone DEF Found

-----------------------------------------------------------------------------
(* The lists of analyzers.                                                 *)
LEMMA IsSeqOfRange ==
  ASSUME NEW S, NEW w \in Seq(S)
  PROVE  w \in Seq(Range(w))
<1>1. w \in Seq(Range(w))
  <2>1. DOMAIN w = 1 .. Len(w) /\ \A i \in 1 .. Len(w) : w[i] \in Range(w)
    BY DEF Range
  <2>2. w \in [1 .. Len(w) -> Range(w)]
    BY <2>1
  <2>3. Len(w) \in Nat
    OBVIOUS
  <2>. QED BY <2>2, <2>3
<1>. QED BY <1>1

LEMMA ListsAre ==
  /\ Static_Analyzers \in Seq(Range(Static_Analyzers)) /\ Dynamic_Analyzers \in Seq(Range(Dynamic_Analyzers))
  /\ Custom_Analyzers \in Seq(Range(Custom_Analyzers)) /\ Analyzers \in Seq(Range(Analyzers))
<1>1. Static_Analyzers \in Seq(Range(Static_Analyzers))
  <2>1. DOMAIN Static_Analyzers = 1 .. 8 /\ Static_Analyzers = [i \in 1 .. 8 |-> Static_Analyzers[i]]
    BY DEF Static_Analyzers
  <2>. QED BY <2>1 DEF Range
<1>2. Dynamic_Analyzers \in Seq(Range(Dynamic_Analyzers))
  <2>1. DOMAIN Dynamic_Analyzers = 1 .. 8 /\ Dynamic_Analyzers = [i \in 1 .. 8 |-> Dynamic_Analyzers[i]]
    BY DEF Dynamic_Analyzers
  <2>. QED BY <2>1 DEF Range
<1>3. Custom_Analyzers \in Seq(Range(Custom_Analyzers))
  <2>1. DOMAIN Custom_Analyzers = 1 .. 21 /\ Custom_Analyzers = [i \in 1 .. 21 |-> Custom_Analyzers[i]]
    BY DEF Custom_Analyzers
  <2>. QED BY <2>1 DEF Range
<1>. DEFINE S == Range(Static_Analyzers) \cup Range(Dynamic_Analyzers) \cup Range(Custom_Analyzers)
<1>4. Static_Analyzers \in Seq(S) /\ Dynamic_Analyzers \in Seq(S) /\ Custom_Analyzers \in Seq(S)
  BY <1>1, <1>2, <1>3
<1>. HIDE DEF S
<1>5. Analyzers \in Seq(S)
  BY <1>4 DEF Analyzers
<1>. QED BY <1>1, <1>2, <1>3, <1>5, IsSeqOfRange

LEMMA ChosenIs ==
  ASSUME NEW selection \in Selections
  PROVE  Chosen(selection) \in Seq(Range(Chosen(selection)))
<1>1. CASE selection \in {<<g>> : g \in DOMAIN Groups}
  <2>1. \A g \in DOMAIN Groups : Groups[g] \in Seq(Range(Groups[g]))
    BY ListsAre DEF Groups
  <2>2. PICK g \in DOMAIN Groups : selection = <<g>>
    BY <1>1
  <2>3. Chosen(selection) = Groups[g]
    BY <1>1, <2>2 DEF Chosen
  <2>. QED BY <2>1, <2>3
<1>2. CASE selection \notin {<<g>> : g \in DOMAIN Groups}
  BY <1>2, SelectionsAssumption DEF Chosen
<1>. QED BY <1>1, <1>2

(* They make a number of what they have kept.                              *)
LEMMA AmountIsNumber ==
  ASSUME NEW name \in ScriptNames, NEW set, IsFiniteSet(set), NEW id
  PROVE  Amount(name, set, id) \in Nat
<1>. DEFINE own == Own(set, id)
            kept == FactsOf(name, own)
<1>1. \A f \in DOMAIN kept : kept[f] \in Nat
  <2>1. IsFiniteSet(own)
    BY FS_Subset DEF Own
  <2>2. ASSUME NEW f
        PROVE  Cardinality({r \in own : f \in Reads(name, r)}) \in Nat
    <3>. HIDE DEF own
    <3>. QED BY <2>1, FS_Subset, FS_CardinalityType
  <2>. HIDE DEF own
  <2>. QED BY <2>2 DEF FactsOf
<1>. HIDE DEF kept
<1>2. \A f : Times(f, kept) \in Nat
  BY <1>1 DEF Times
<1>3. name \notin CookieNames
  BY DEF ScriptNames
<1>4. Classify(name, kept) \in Nat
  BY <1>2, <1>3 DEF Classify, Flag
<1>. QED BY <1>4 DEF Amount, kept
-----------------------------------------------------------------------------
(* The places of a list of objects.                                        *)
LEMMA PlacesAre ==
  ASSUME AnalysisTyped
  PROVE  /\ Len(objects) \in Nat /\ DOMAIN objects = 1 .. Len(objects) /\ current \in Nat \ {0}
         /\ \A i \in 1 .. current - 1 : i \in DOMAIN results /\ i # current
         /\ \A i \in 1 .. current : i \in 1 .. current - 1 \/ i = current
         /\ (current + 1) - 1 = current
         /\ current <= Len(objects) => current \in DOMAIN results /\ current + 1 \in 1 .. Len(objects) + 1
         /\ current > Len(objects) => DOMAIN objects \subseteq 1 .. current - 1
<1>1. objects \in Seq(Range(objects)) /\ DOMAIN results = DOMAIN objects /\ current \in 1 .. Len(objects) + 1
  BY DEF AnalysisTyped
<1>2. PICK N : N = Len(objects)
  OBVIOUS
<1>3. N \in Nat /\ DOMAIN objects = 1 .. N /\ current \in 1 .. N + 1
  BY <1>1, <1>2
<1>. QED BY <1>1, <1>2, <1>3

(* The query that runs.                                                    *)
LEMMA FetchedIs ==
  ASSUME AnalysisTyped, StretchOK, main = "rows"
  PROVE  \E q \in Queries(Name) : IsQuery(q) /\ fetched = Ordered(q) /\ Range(fetched) = q /\ Len(fetched) \in Nat
<1>1. PICK q \in Queries(Name) : fetched = Ordered(q)
  BY DEF StretchOK
<1>2. IsQuery(q)
  BY QueriesAre DEF AnalysisTyped
<1>3. Range(fetched) = q /\ Len(fetched) \in Nat
  BY <1>1, <1>2, OrderedIs
<1>. QED BY <1>1, <1>2, <1>3

(* At the end of a stretch, what its rows amount to is found.              *)
LEMMA ClassifiedIs ==
  ASSUME AnalysisTyped, StretchOK, main = "rows", pos \in 1 .. Len(fetched),
         pos = Len(fetched) \/ fetched[pos].id # fetched[pos + 1].id
  PROVE  Classified = Found(Name, Range(fetched), (Ids(UpTo(fetched, pos)) \ {fetched[pos].id}) \cup {fetched[pos].id})
<1>1. PICK q \in Queries(Name) : IsQuery(q) /\ fetched = Ordered(q)
  BY FetchedIs
<1>2. Stretch(fetched, pos) = Own(Range(fetched), fetched[pos].id)
  BY <1>1, StretchEnds
<1>. DEFINE found == Found(Name, Range(fetched), Ids(UpTo(fetched, pos)) \ {fetched[pos].id})
            amount == Amount(Name, Range(fetched), fetched[pos].id)
<1>3. facts = FactsOf(Name, Stretch(fetched, pos)) /\ results[current] = found
  BY DEF StretchOK
<1>4. Classify(Name, facts) = amount
  BY <1>2, <1>3 DEF Amount
<1>5. Classified = IF amount > 0 THEN found \cup {<<fetched[pos].id, amount>>} ELSE found
  <2>1. Classified = IF Classify(Name, facts) > 0
                     THEN results[current] \cup {<<fetched[pos].id, Classify(Name, facts)>>} ELSE results[current]
    BY Zenon DEF Classified
  <2>. HIDE DEF amount, found
  <2>. QED BY <1>3, <1>4, <2>1
<1>. DEFINE rows == Range(fetched)
            before == Ids(UpTo(fetched, pos)) \ {fetched[pos].id}
            id == fetched[pos].id
<1>6. Found(Name, rows, before \cup {id}) =
        IF Amount(Name, rows, id) > 0 THEN Found(Name, rows, before) \cup {<<id, Amount(Name, rows, id)>>}
        ELSE Found(Name, rows, before)
  <2>. HIDE DEF rows, before, id
  <2>. QED BY DEF Found
<1>. QED BY <1>5, <1>6, Zenon

-----------------------------------------------------------------------------
(* Each action keeps the invariant.                                        *)
LEMMA SelectKeeps ==
  ASSUME AnalysisInv, Select
  PROVE  AnalysisInv'
<1>1. main = "start" /\ db \in Databases /\ db' = db /\ current' = current /\ current = 1
  BY DEF AnalysisInv, AnalysisTyped, Select
<1>2. main' \in {"analyze", "raised"} /\ objects' \in Seq(Range(objects')) /\ DOMAIN results' = DOMAIN objects'
  <2>1. PICK selection \in Selections :
          IF db.visits > 0 /\ Range(Chosen(selection)) \cap Broken = {}
          THEN /\ main' = "analyze" /\ objects' = Chosen(selection)
               /\ results' = [i \in DOMAIN Chosen(selection) |-> NotRun]
          ELSE main' = "raised" /\ UNCHANGED <<objects, results>>
    BY DEF Select
  <2>2. Chosen(selection) \in Seq(Range(Chosen(selection)))
    BY ChosenIs
  <2>3. objects \in Seq(Range(objects)) /\ DOMAIN results = DOMAIN objects
    BY DEF AnalysisInv, AnalysisTyped
  <2>4. CASE objects' = Chosen(selection) /\ results' = [i \in DOMAIN Chosen(selection) |-> NotRun] /\ main' = "analyze"
    BY <2>2, <2>4
  <2>5. CASE main' = "raised" /\ objects' = objects /\ results' = results
    BY <2>3, <2>5
  <2>. QED BY <2>1, <2>4, <2>5
<1>3. Len(objects') \in Nat
  BY <1>2
<1>4. AnalysisTyped'
  <2>1. current' \in 1 .. Len(objects') + 1
    <3>. PICK N : N = Len(objects')
      OBVIOUS
    <3>. QED BY <1>1, <1>3
  <2>. QED BY <1>1, <1>2, <2>1 DEF AnalysisTyped
<1>5. RunsOK'
  BY <1>1 DEF RunsOK
<1>6. StretchOK' /\ ResultsAreOfTheirRows' /\ TableSaysWhatWasFound' /\ TrackersAreFound'
  BY <1>1, <1>2 DEF StretchOK, ResultsAreOfTheirRows, TableSaysWhatWasFound, TrackersAreFound, Saved
<1>. QED BY <1>4, <1>5, <1>6 DEF AnalysisInv

LEMMA AnalyzeKeeps ==
  ASSUME AnalysisInv, Analyze
  PROVE  AnalysisInv'
<1>1. AnalysisTyped /\ RunsOK
  BY DEF AnalysisInv
<1>2. /\ main = "analyze" /\ current <= Len(objects) /\ Name \notin RequestNames
      /\ main' = "rows" /\ pos' = 0 /\ facts' = EmptyBag
      /\ results' = [results EXCEPT ![current] = {}]
      /\ db' = db /\ objects' = objects /\ current' = current
  BY DEF Analyze
<1>3. PICK q \in Queries(Name) : fetched' = Ordered(q)
  BY DEF Analyze
<1>4. /\ DOMAIN results' = DOMAIN results /\ results'[current] = {}
      /\ \A i \in 1 .. current - 1 : results'[i] = results[i]
  BY <1>1, <1>2, PlacesAre
<1>5. AnalysisTyped'
  BY <1>1, <1>2, <1>4 DEF AnalysisTyped
<1>6. RunsOK'
  <2>1. \A name, first : FirstOfPages(name, first)' <=> FirstOfPages(name, first)
    BY <1>2 DEF FirstOfPages, Matching
  <2>. QED BY <1>1, <1>2, <1>4, <2>1 DEF RunsOK
<1>7. StretchOK'
  <2>1. Len(fetched') \in Nat
    <3>1. IsQuery(q)
      BY <1>1, QueriesAre DEF AnalysisTyped
    <3>. QED BY <1>3, <3>1, OrderedIs
  <2>2. pos' \in 0 .. Len(fetched')
    BY <1>2, <2>1
  <2>3. Name' = Name /\ Queries(Name)' = Queries(Name)
    BY <1>2 DEF Name, Queries, CookieRows, CookieGroups, Joins
  <2>4. facts' = FactsOf(Name', Stretch(fetched', pos'))
    BY <1>2, NothingYet
  <2>5. results'[current'] = Found(Name', Range(fetched'), Ids(UpTo(fetched', pos')) \ {fetched'[pos'].id})
    BY <1>2, <1>4, NothingYet
  <2>. QED BY <1>2, <1>3, <2>2, <2>3, <2>4, <2>5 DEF StretchOK
<1>8. ResultsAreOfTheirRows' /\ TableSaysWhatWasFound' /\ TrackersAreFound'
  BY <1>2 DEF ResultsAreOfTheirRows, TableSaysWhatWasFound, TrackersAreFound, Saved
<1>. QED BY <1>5, <1>6, <1>7, <1>8 DEF AnalysisInv
LEMMA ReadRowKeeps ==
  ASSUME AnalysisInv, ReadRow
  PROVE  AnalysisInv'
<1>1. AnalysisTyped /\ RunsOK /\ StretchOK
  BY DEF AnalysisInv
<1>2. /\ main = "rows" /\ pos < Len(fetched) /\ pos' = pos + 1 /\ main' = "rows"
      /\ db' = db /\ objects' = objects /\ current' = current /\ fetched' = fetched
      /\ DOMAIN results' = DOMAIN results
      /\ \A i \in 1 .. current - 1 : results'[i] = results[i]
  <2>1. /\ main = "rows" /\ pos < Len(fetched) /\ pos' = pos + 1 /\ main' = main
        /\ db' = db /\ objects' = objects /\ current' = current /\ fetched' = fetched
        /\ results' = [results EXCEPT ![current] = Classified] \/ results' = results
    BY DEF ReadRow
  <2>2. \A i \in 1 .. current - 1 : i \in DOMAIN results /\ i # current
    BY <1>1, PlacesAre
  <2>. QED BY <2>1, <2>2
<1>3. PICK q \in Queries(Name) : IsQuery(q) /\ fetched = Ordered(q)
  BY <1>1, <1>2, FetchedIs
<1>4. /\ current <= Len(objects) /\ Name \notin RequestNames
      /\ pos \in 0 .. Len(fetched) /\ Len(fetched) \in Nat
      /\ current \in DOMAIN results
      /\ facts = FactsOf(Name, Stretch(fetched, pos))
      /\ results[current] = Found(Name, Range(fetched), Ids(UpTo(fetched, pos)) \ {fetched[pos].id})
  BY <1>1, <1>2, FetchedIs, PlacesAre DEF StretchOK
<1>5. pos \in 0 .. Len(fetched) - 1 /\ pos + 1 \in 0 .. Len(fetched) /\ (pos > 0 => pos \in 1 .. Len(fetched))
  <2>1. PICK N : N = Len(fetched)
    OBVIOUS
  <2>. QED BY <1>2, <1>4, <2>1
<1>6. /\ IsFiniteSet(Stretch(fetched, pos)) /\ fetched[pos + 1] \notin Stretch(fetched, pos)
      /\ OneFurther(fetched, pos)
  BY <1>3, <1>5, StretchGoesOn
<1>7. AnalysisTyped'
  BY <1>1, <1>2 DEF AnalysisTyped
<1>8. RunsOK'
  <2>1. \A name, first : FirstOfPages(name, first)' <=> FirstOfPages(name, first)
    BY <1>2 DEF FirstOfPages, Matching
  <2>. QED BY <1>1, <1>2, <2>1 DEF RunsOK
<1>. DEFINE row == fetched[pos + 1]
            before == Ids(UpTo(fetched, pos)) \ {fetched[pos].id}
            upTo == Ids(UpTo(fetched, pos + 1)) \ {fetched[pos + 1].id}
<1>9. /\ facts' = FactsOf(Name, Stretch(fetched, pos + 1))
      /\ results'[current] = Found(Name, Range(fetched), upTo)
  <2>1. CASE pos > 0 /\ fetched[pos].id # fetched[pos + 1].id
    <3>1. results' = [results EXCEPT ![current] = Classified] /\ facts' = Read(row, EmptyBag)
      BY <2>1 DEF ReadRow
    <3>2. Stretch(fetched, pos + 1) = {row} /\ upTo = before \cup {fetched[pos].id}
      BY <1>6, <2>1 DEF OneFurther
    <3>3. Classified = Found(Name, Range(fetched), before \cup {fetched[pos].id})
      BY <1>1, <1>2, <1>5, <2>1, ClassifiedIs
    <3>4. Read(row, EmptyBag) = FactsOf(Name, {} \cup {row})
      <4>1. IsFiniteSet({}) /\ row \notin {}
        BY FS_EmptySet
      <4>. HIDE DEF row
      <4>. QED BY <4>1, FactsOfNone, FactsOfMore DEF Read
    <3>5. {} \cup {row} = {row}
      OBVIOUS
    <3>. HIDE DEF row, upTo, before
    <3>. QED BY <1>4, <3>1, <3>2, <3>3, <3>4, <3>5
  <2>2. CASE ~(pos > 0 /\ fetched[pos].id # fetched[pos + 1].id)
    <3>1. results' = results /\ facts' = Read(row, facts)
      BY <2>2 DEF ReadRow
    <3>2. Stretch(fetched, pos + 1) = Stretch(fetched, pos) \cup {row} /\ upTo = before
      BY <1>6, <2>2 DEF OneFurther
    <3>3. Read(row, facts) = FactsOf(Name, Stretch(fetched, pos) \cup {row})
      BY <1>4, <1>6, FactsOfMore DEF Read
    <3>. HIDE DEF row, upTo, before
    <3>. QED BY <1>4, <3>1, <3>2, <3>3 DEF before
  <2>. QED BY <2>1, <2>2
<1>10. StretchOK'
  <2>1. Name' = Name /\ Queries(Name)' = Queries(Name)
    BY <1>2 DEF Name, Queries, CookieRows, CookieGroups, Joins
  <2>2. pos' \in 0 .. Len(fetched')
    BY <1>2, <1>5
  <2>. QED BY <1>2, <1>3, <1>4, <1>9, <2>1, <2>2 DEF StretchOK
<1>11. ResultsAreOfTheirRows' /\ TableSaysWhatWasFound' /\ TrackersAreFound'
  BY <1>2 DEF ResultsAreOfTheirRows, TableSaysWhatWasFound, TrackersAreFound, Saved
<1>. QED BY <1>7, <1>8, <1>10, <1>11 DEF AnalysisInv

LEMMA FinishKeeps ==
  ASSUME AnalysisInv, Finish
  PROVE  AnalysisInv'
<1>1. AnalysisTyped /\ RunsOK /\ StretchOK
  BY DEF AnalysisInv
<1>2. /\ main = "rows" /\ pos = Len(fetched) /\ main' = "analyze" /\ current' = current + 1
      /\ db' = db /\ objects' = objects /\ fetched' = fetched
      /\ results' = IF fetched = <<>> THEN results ELSE [results EXCEPT ![current] = Classified]
  BY DEF Finish
<1>3. PICK q \in Queries(Name) : IsQuery(q) /\ fetched = Ordered(q) /\ Range(fetched) = q /\ Len(fetched) \in Nat
  BY <1>1, <1>2, FetchedIs
<1>4. /\ current <= Len(objects) /\ Name \notin RequestNames
      /\ results[current] = Found(Name, Range(fetched), Ids(UpTo(fetched, pos)) \ {fetched[pos].id})
  BY <1>1, <1>2 DEF StretchOK
<1>5. /\ current \in DOMAIN results /\ (current + 1) - 1 = current /\ current + 1 \in 1 .. Len(objects) + 1
      /\ \A i \in 1 .. current - 1 : i \in DOMAIN results /\ i # current
      /\ \A i \in 1 .. current : i \in 1 .. current - 1 \/ i = current
  BY <1>1, <1>4, PlacesAre
<1>6. DOMAIN results' = DOMAIN results /\ \A i \in 1 .. current - 1 : results'[i] = results[i]
  BY <1>2, <1>5
<1>. DEFINE found == Found(Name, Range(fetched), Ids(Range(fetched)))
<1>7. results'[current] = found
  <2>1. UpTo(fetched, pos) = Range(fetched)
    <3>1. DOMAIN fetched = 1 .. pos
      BY <1>2, <1>3, OrderedIs
    <3>. QED BY <3>1 DEF UpTo, Range
  <2>2. CASE fetched = <<>>
    <3>1. UpTo(fetched, pos) = {}
      BY <2>1, <2>2 DEF Range
    <3>2. Ids(UpTo(fetched, pos)) \ {fetched[pos].id} = Ids(Range(fetched))
      BY <2>1, <3>1 DEF Ids
    <3>. QED BY <1>2, <1>4, <2>2, <3>2
  <2>3. CASE fetched # <<>>
    <3>1. pos \in 1 .. Len(fetched)
      <4>1. PICK N : N = Len(fetched)
        OBVIOUS
      <4>2. fetched \in Seq(q)
        BY <1>3, OrderedIs
      <4>3. N # 0
        BY <2>3, <4>1, <4>2
      <4>. QED BY <1>2, <1>3, <4>1, <4>3
    <3>2. Classified = Found(Name, Range(fetched), (Ids(UpTo(fetched, pos)) \ {fetched[pos].id}) \cup {fetched[pos].id})
      BY <1>1, <1>2, <3>1, ClassifiedIs
    <3>3. fetched[pos].id \in Ids(UpTo(fetched, pos))
      BY <1>2, <1>3, <3>1, StretchEnds
    <3>4. (Ids(UpTo(fetched, pos)) \ {fetched[pos].id}) \cup {fetched[pos].id} = Ids(Range(fetched))
      BY <2>1, <3>3
    <3>. QED BY <1>2, <1>5, <2>3, <3>2, <3>4
  <2>. QED BY <2>2, <2>3
<1>8. AnalysisTyped'
  BY <1>1, <1>2, <1>5, <1>6 DEF AnalysisTyped
<1>9. RunsOK'
  <2>1. \A name, first : FirstOfPages(name, first)' <=> FirstOfPages(name, first)
    BY <1>2 DEF FirstOfPages, Matching
  <2>2. Name \in ScriptNames => found = Found(Name, db.javascript, Ids(db.javascript))
    <3>1. Name \in ScriptNames => q = db.javascript
      BY DEF Queries, ScriptNames
    <3>. QED BY <1>3, <3>1
  <2>3. Name = objects[current]
    BY DEF Name
  <2>4. current' - 1 = current
    BY <1>2, <1>5
  <2>. HIDE DEF found
  <2>. QED BY <1>1, <1>2, <1>4, <1>5, <1>6, <1>7, <2>1, <2>2, <2>3, <2>4 DEF RunsOK
<1>10. ResultsAreOfTheirRows'
  <2>1. objects'[current' - 1] = Name /\ results'[current' - 1] = found
    BY <1>2, <1>5, <1>7 DEF Name
  <2>. QED BY <1>2, <2>1 DEF ResultsAreOfTheirRows
<1>11. StretchOK' /\ TableSaysWhatWasFound' /\ TrackersAreFound'
  BY <1>2 DEF StretchOK, TableSaysWhatWasFound, TrackersAreFound, Saved
<1>. QED BY <1>8, <1>9, <1>10, <1>11 DEF AnalysisInv

LEMMA AnalyzeRequestsKeeps ==
  ASSUME AnalysisInv, AnalyzeRequests
  PROVE  AnalysisInv'
<1>1. AnalysisTyped /\ RunsOK
  BY DEF AnalysisInv
<1>2. /\ main = "analyze" /\ current <= Len(objects) /\ Name \in RequestNames
      /\ main' = "analyze" /\ current' = current + 1 /\ db' = db /\ objects' = objects
  BY DEF AnalyzeRequests
<1>3. PICK first \in SUBSET Matching(Name) :
        /\ \A id \in Matching(Name) : \E f \in first : f[3] = id[3]
        /\ \A f, g \in first : f[3] = g[3] => f = g
        /\ results' = [results EXCEPT ![current] = {<<id, 1>> : id \in first}]
  BY DEF AnalyzeRequests
<1>4. /\ current \in DOMAIN results /\ (current + 1) - 1 = current /\ current + 1 \in 1 .. Len(objects) + 1
      /\ \A i \in 1 .. current - 1 : i \in DOMAIN results /\ i # current
      /\ \A i \in 1 .. current : i \in 1 .. current - 1 \/ i = current
  BY <1>1, <1>2, PlacesAre
<1>5. /\ DOMAIN results' = DOMAIN results /\ \A i \in 1 .. current - 1 : results'[i] = results[i]
      /\ results'[current] = {<<id, 1>> : id \in first}
  BY <1>3, <1>4
<1>6. FirstOfPages(Name, first) /\ Name \notin ScriptNames /\ Name = objects[current]
  BY <1>2, <1>3 DEF FirstOfPages, ScriptNames, Name
<1>7. AnalysisTyped'
  BY <1>1, <1>2, <1>4, <1>5 DEF AnalysisTyped
<1>8. RunsOK'
  <2>1. \A name, set : FirstOfPages(name, set)' <=> FirstOfPages(name, set)
    BY <1>2 DEF FirstOfPages, Matching
  <2>2. current' - 1 = current
    BY <1>2, <1>4
  <2>. QED BY <1>1, <1>2, <1>4, <1>5, <1>6, <2>1, <2>2 DEF RunsOK
<1>9. ResultsAreOfTheirRows'
  <2>1. objects'[current' - 1] \in RequestNames
    BY <1>2, <1>4 DEF Name
  <2>. QED BY <2>1 DEF ResultsAreOfTheirRows
<1>10. StretchOK' /\ TableSaysWhatWasFound' /\ TrackersAreFound'
  BY <1>2 DEF StretchOK, TableSaysWhatWasFound, TrackersAreFound, Saved
<1>. QED BY <1>7, <1>8, <1>9, <1>10 DEF AnalysisInv
(* What is found of a script: each id with what its rows amount to.        *)
LEMMA FoundIs ==
  ASSUME NEW name, NEW set, NEW ids, NEW id
  PROVE  /\ \A r \in Found(name, set, ids) : r[1] = id => r[2] = Amount(name, set, id) /\ id \in ids
         /\ (\E r \in Found(name, set, ids) : r[1] = id) <=> (id \in ids /\ Amount(name, set, id) > 0)
         /\ \A r \in Found(name, set, ids) : r[1] \in ids
<1>. DEFINE positive == {i \in ids : Amount(name, set, i) > 0}
<1>1. Found(name, set, ids) = {<<i, Amount(name, set, i)>> : i \in positive}
  BY DEF Found
<1>2. \A i \in positive : i \in ids /\ Amount(name, set, i) > 0
  OBVIOUS
<1>3. \A r \in Found(name, set, ids) : \E i \in positive : r[1] = i /\ r[2] = Amount(name, set, i)
  <2>. HIDE DEF positive
  <2>. QED BY <1>1
<1>4. \A i \in positive : \E r \in Found(name, set, ids) : r[1] = i
  <2>1. \A i \in positive : <<i, Amount(name, set, i)>> \in Found(name, set, ids)
    <3>. HIDE DEF positive
    <3>. QED BY <1>1
  <2>2. \A i : <<i, Amount(name, set, i)>>[1] = i
    OBVIOUS
  <2>. HIDE DEF positive
  <2>. QED BY <2>1, <2>2
<1>. QED BY <1>2, <1>3, <1>4

(* A cell of the table.                                                    *)
LEMMA CellIs ==
  ASSUME NEW i, NEW domain, NEW id
  PROVE  IF \E r \in results[i] : r[1] = id
         THEN \E r \in results[i] : r[1] = id /\ Cell(i, domain, id) = r[2]
         ELSE Cell(i, domain, id) = IF id \in domain[i] THEN 0 ELSE NaN
BY DEF Cell

(* The table that is saved has a row for all that is found, and in each    *)
(* column the cells of the object that it is named after.                  *)
LEMMA SavedTableIs ==
  ASSUME AnalysisTyped, Save
  PROVE  \E domain \in DomainChoices :
           /\ \A i \in DOMAIN objects : \A r \in results[i] : r[1] \in DOMAIN table'
           /\ \A name \in Range(objects) : \E i \in DOMAIN objects :
                /\ objects[i] = name /\ domain[i] \in Domains(name)
                /\ \A id \in DOMAIN table' : table'[id][name] = Cell(i, domain, id)
<1>. DEFINE found == UNION {results[i] : i \in DOMAIN objects}
            listed == {r[1] : r \in found}
            ids(d) == (UNION {d[i] : i \in DOMAIN objects}) \cup listed
            at(name) == CHOOSE i \in DOMAIN objects : objects[i] = name
<1>1. PICK domain \in DomainChoices :
        table' = [id \in ids(domain) |-> [name \in Range(objects) |-> Cell(at(name), domain, id)]]
  BY Zenon DEF Save
<1>2. DOMAIN table' = ids(domain)
  BY <1>1
<1>3. ASSUME NEW i \in DOMAIN objects, NEW r \in results[i]
      PROVE  r[1] \in DOMAIN table'
  <2>1. r \in found
    OBVIOUS
  <2>2. r[1] \in listed
    <3>. HIDE DEF found
    <3>. QED BY <2>1
  <2>. HIDE DEF listed
  <2>3. listed \subseteq ids(domain)
    OBVIOUS
  <2>. HIDE DEF ids
  <2>. QED BY <1>2, <2>2, <2>3
<1>4. ASSUME NEW name \in Range(objects)
      PROVE  /\ at(name) \in DOMAIN objects /\ objects[at(name)] = name /\ domain[at(name)] \in Domains(name)
             /\ \A id \in DOMAIN table' : table'[id][name] = Cell(at(name), domain, id)
  <2>1. \E i \in DOMAIN objects : objects[i] = name
    BY DEF Range
  <2>2. at(name) \in DOMAIN objects /\ objects[at(name)] = name
    BY <2>1
  <2>3. \A i \in DOMAIN objects : domain[i] \in Domains(objects[i])
    BY DEF DomainChoices
  <2>. HIDE DEF ids, at
  <2>. QED BY <1>1, <1>2, <2>2, <2>3
<1>. HIDE DEF at
<1>. QED BY <1>3, <1>4

LEMMA SaveKeeps ==
  ASSUME AnalysisInv, Save
  PROVE  AnalysisInv'
<1>1. AnalysisTyped /\ RunsOK
  BY DEF AnalysisInv
<1>2. /\ main = "analyze" /\ current > Len(objects) /\ main' = "saved"
      /\ db' = db /\ objects' = objects /\ current' = current /\ results' = results /\ db \in Databases
  BY <1>1 DEF Save, AnalysisTyped
<1>3. DOMAIN objects \subseteq 1 .. current - 1
  BY <1>1, <1>2, PlacesAre
<1>4. PICK domain \in DomainChoices :
        /\ \A i \in DOMAIN objects : \A r \in results[i] : r[1] \in DOMAIN table'
        /\ \A name \in Range(objects) : \E i \in DOMAIN objects :
             /\ objects[i] = name /\ domain[i] \in Domains(name)
             /\ \A id \in DOMAIN table' : table'[id][name] = Cell(i, domain, id)
  BY <1>1, SavedTableIs
<1>5. AnalysisTyped'
  BY <1>1, <1>2 DEF AnalysisTyped
<1>6. RunsOK'
  <2>1. \A name, first : FirstOfPages(name, first)' <=> FirstOfPages(name, first)
    BY <1>2 DEF FirstOfPages, Matching
  <2>. QED BY <1>1, <1>2, <2>1 DEF RunsOK
<1>7. TableSaysWhatWasFound'
  <2>1. ASSUME NEW id \in DOMAIN table', NEW name \in Range(objects) \cap ScriptNames
        PROVE  table'[id][name] =
                 IF Own(db.javascript, id) = {} THEN NaN ELSE Amount(name, db.javascript, id)
    <3>1. PICK i \in DOMAIN objects : /\ objects[i] = name /\ domain[i] \in Domains(name)
                                      /\ table'[id][name] = Cell(i, domain, id)
      BY <1>4
    <3>2. results[i] = Found(name, db.javascript, Ids(db.javascript))
      BY <1>1, <1>3, <3>1 DEF RunsOK
    <3>3. domain[i] = Ids(db.javascript)
      BY <3>1 DEF Domains, ScriptNames
    <3>4. Amount(name, db.javascript, id) \in Nat
      BY <1>2, AmountIsNumber, DatabasesAssumption
    <3>5. id \in Ids(db.javascript) <=> Own(db.javascript, id) # {}
      BY DEF Ids, Own
    <3>6. CASE \E r \in results[i] : r[1] = id
      BY <3>1, <3>2, <3>5, <3>6, FoundIs, CellIs
    <3>7. CASE ~\E r \in results[i] : r[1] = id
      <4>1. id \in Ids(db.javascript) => ~(Amount(name, db.javascript, id) > 0)
        BY <3>2, <3>7, FoundIs
      <4>2. Cell(i, domain, id) = IF id \in Ids(db.javascript) THEN 0 ELSE NaN
        BY <3>3, <3>7, CellIs
      <4>. QED BY <3>1, <3>4, <3>5, <4>1, <4>2
    <3>. QED BY <3>6, <3>7
  <2>. QED BY <1>2, <2>1 DEF TableSaysWhatWasFound
<1>8. TrackersAreFound'
  <2>1. ASSUME NEW name \in Range(objects) \cap RequestNames, NEW page
        PROVE  Cardinality(Marked(name, page)') =
                 IF \E id \in Matching(name) : id[3] = page THEN 1 ELSE 0
    <3>1. PICK i \in DOMAIN objects : /\ objects[i] = name
                                      /\ \A id \in DOMAIN table' : table'[id][name] = Cell(i, domain, id)
      BY <1>4
    <3>2. PICK first : FirstOfPages(name, first) /\ results[i] = {<<id, 1>> : id \in first}
      BY <1>1, <1>3, <3>1 DEF RunsOK
    <3>3. \A id : <<id, 1>>[1] = id /\ <<id, 1>>[2] = 1
      OBVIOUS
    <3>4. \A id \in first : id \in DOMAIN table'
      <4>1. \A id \in first : <<id, 1>> \in results[i]
        BY <3>2
      <4>. QED BY <1>4, <3>3, <4>1
    <3>5. ASSUME NEW id \in DOMAIN table'
          PROVE  table'[id][name] = 1 <=> id \in first
      <4>1. id \in first <=> \E r \in results[i] : r[1] = id
        BY <3>2, <3>3
      <4>2. \A r \in results[i] : r[2] = 1
        BY <3>2, <3>3
      <4>. QED BY <3>1, <4>1, <4>2, CellIs DEF NaN
    <3>. DEFINE marked == Marked(name, page)'
    <3>6. marked = {id \in first : id[3] = page}
      BY <3>4, <3>5 DEF Marked
    <3>7. CASE \E id \in Matching(name) : id[3] = page
      <4>1. PICK f \in first : f[3] = page
        BY <3>2, <3>7 DEF FirstOfPages
      <4>2. marked = {f}
        BY <3>2, <3>6, <4>1 DEF FirstOfPages
      <4>. HIDE DEF marked
      <4>3. Cardinality(marked) = 1
        BY <4>2, FS_Singleton
      <4>. QED BY <3>7, <4>3 DEF marked
    <3>8. CASE ~\E id \in Matching(name) : id[3] = page
      <4>1. marked = {}
        BY <3>2, <3>6, <3>8 DEF FirstOfPages
      <4>. HIDE DEF marked
      <4>2. Cardinality(marked) = 0
        BY <4>1, FS_EmptySet
      <4>. QED BY <3>8, <4>2 DEF marked
    <3>. QED BY <3>7, <3>8
  <2>2. \A name : Matching(name)' = Matching(name)
    BY <1>2 DEF Matching
  <2>. QED BY <1>2, <2>1, <2>2 DEF TrackersAreFound
<1>9. StretchOK' /\ ResultsAreOfTheirRows'
  BY <1>2 DEF StretchOK, ResultsAreOfTheirRows
<1>. QED BY <1>5, <1>6, <1>7, <1>8, <1>9 DEF AnalysisInv

LEMMA RaiseOnRowKeeps ==
  ASSUME AnalysisInv, RaiseOnRow
  PROVE  AnalysisInv'
<1>1. /\ main = "rows" /\ main' = "raised" /\ db' = db /\ objects' = objects /\ current' = current
      /\ results' = results
  BY DEF RaiseOnRow
<1>2. AnalysisTyped' /\ StretchOK' /\ ResultsAreOfTheirRows' /\ TableSaysWhatWasFound' /\ TrackersAreFound'
  BY <1>1 DEF AnalysisInv, AnalysisTyped, StretchOK, ResultsAreOfTheirRows,
              TableSaysWhatWasFound, TrackersAreFound, Saved
<1>3. \A name, first : FirstOfPages(name, first)' <=> FirstOfPages(name, first)
  BY <1>1 DEF FirstOfPages, Matching
<1>4. RunsOK'
  BY <1>1, <1>3 DEF AnalysisInv, RunsOK
<1>. QED BY <1>2, <1>4 DEF AnalysisInv

LEMMA ViewKeeps ==
  ASSUME AnalysisInv, View
  PROVE  AnalysisInv'
<1>1. /\ main = "saved" /\ main' = "viewed" /\ db' = db /\ objects' = objects /\ current' = current
      /\ fetched' = fetched /\ pos' = pos /\ facts' = facts /\ results' = results /\ table' = table
  BY DEF View
<1>2. AnalysisTyped' /\ StretchOK' /\ ResultsAreOfTheirRows'
  BY <1>1 DEF AnalysisInv, AnalysisTyped, StretchOK, ResultsAreOfTheirRows
<1>3. RunsOK' /\ TableSaysWhatWasFound' /\ TrackersAreFound'
  <2>1. \A name, first : FirstOfPages(name, first)' <=> FirstOfPages(name, first)
    BY <1>1 DEF FirstOfPages, Matching
  <2>2. \A name, page : Matching(name)' = Matching(name) /\ Marked(name, page)' = Marked(name, page)
    BY <1>1 DEF Matching, Marked
  <2>3. RunsOK /\ TableSaysWhatWasFound /\ TrackersAreFound
    BY DEF AnalysisInv
  <2>4. RunsOK'
    BY <1>1, <2>1, <2>3 DEF RunsOK
  <2>5. TableSaysWhatWasFound'
    BY <1>1, <2>3 DEF TableSaysWhatWasFound, Saved
  <2>6. TrackersAreFound'
    BY <1>1, <2>2, <2>3 DEF TrackersAreFound, Saved
  <2>. QED BY <2>4, <2>5, <2>6
<1>. QED BY <1>2, <1>3 DEF AnalysisInv

-----------------------------------------------------------------------------
(* The analyses keep their invariant.                                      *)
LEMMA AnalysisStarts ==
  ASSUME InitAnalysis
  PROVE  AnalysisInv
<1>1. /\ db \in Databases /\ main = "start" /\ objects = <<>> /\ current = 1 /\ results = <<>>
  BY DEF InitAnalysis
<1>2. Len(objects) = 0 /\ objects \in Seq(Range(objects)) /\ DOMAIN results = DOMAIN objects
  BY <1>1
<1>3. AnalysisTyped
  BY <1>1, <1>2 DEF AnalysisTyped
<1>4. RunsOK
  BY <1>1 DEF RunsOK
<1>5. StretchOK /\ ResultsAreOfTheirRows /\ TableSaysWhatWasFound /\ TrackersAreFound
  BY <1>1 DEF StretchOK, ResultsAreOfTheirRows, TableSaysWhatWasFound, TrackersAreFound, Saved
<1>. QED BY <1>3, <1>4, <1>5 DEF AnalysisInv

LEMMA AnalysisGoesOn ==
  ASSUME AnalysisInv, [NextAnalysis]_analysisVars
  PROVE  AnalysisInv'
<1>1. CASE Select
  BY <1>1, SelectKeeps
<1>2. CASE Analyze
  BY <1>2, AnalyzeKeeps
<1>3. CASE ReadRow
  BY <1>3, ReadRowKeeps
<1>4. CASE Finish
  BY <1>4, FinishKeeps
<1>5. CASE AnalyzeRequests
  BY <1>5, AnalyzeRequestsKeeps
<1>6. CASE Save
  BY <1>6, SaveKeeps
<1>7. CASE View
  BY <1>7, ViewKeeps
<1>9. CASE RaiseOnRow
  BY <1>9, RaiseOnRowKeeps
<1>8. CASE UNCHANGED analysisVars
  <2>1. /\ main' = main /\ db' = db /\ objects' = objects /\ current' = current
        /\ fetched' = fetched /\ pos' = pos /\ facts' = facts /\ results' = results /\ table' = table
    BY <1>8 DEF analysisVars
  <2>2. \A name, page : /\ Matching(name)' = Matching(name) /\ Queries(name)' = Queries(name)
                        /\ Marked(name, page)' = Marked(name, page)
    BY <2>1 DEF Matching, Marked, Queries, CookieRows, CookieGroups, Joins
  <2>3. \A name, first : FirstOfPages(name, first)' <=> FirstOfPages(name, first)
    BY <2>2 DEF FirstOfPages
  <2>4. AnalysisTyped /\ RunsOK /\ StretchOK /\ ResultsAreOfTheirRows /\ TableSaysWhatWasFound /\ TrackersAreFound
    BY DEF AnalysisInv
  <2>5. AnalysisTyped' /\ ResultsAreOfTheirRows'
    BY <2>1, <2>4 DEF AnalysisTyped, ResultsAreOfTheirRows
  <2>6. RunsOK'
    BY <2>1, <2>3, <2>4 DEF RunsOK
  <2>7. StretchOK'
    BY <2>1, <2>2, <2>4 DEF StretchOK, Name
  <2>8. TableSaysWhatWasFound' /\ TrackersAreFound'
    BY <2>1, <2>2, <2>4 DEF TableSaysWhatWasFound, TrackersAreFound, Saved
  <2>. QED BY <2>5, <2>6, <2>7, <2>8 DEF AnalysisInv
<1>. QED BY <1>1, <1>2, <1>3, <1>4, <1>5, <1>6, <1>7, <1>8, <1>9 DEF NextAnalysis

LEMMA AnalysisHolds == AnalysisSpec => []AnalysisInv
BY AnalysisStarts, AnalysisGoesOn, PTL DEF AnalysisSpec

(* An analysis yields just the ids whose own rows it classifies as         *)
(* positive, with what it made of all of them (_analyze of                 *)
(* dynamic_analyzer and cookie_dynamic_analyzer).                          *)
THEOREM ResultsAreRight == AnalysisSpec => []ResultsAreOfTheirRows
<1>1. AnalysisInv => ResultsAreOfTheirRows
  BY DEF AnalysisInv
<1>. QED BY <1>1, AnalysisHolds, PTL

(* In the table, a script without calls is unknown to the script analyses, *)
(* one with calls has what its own calls amount to, whatever other         *)
(* analyses ran with it (analyzerObjects_to_dataframe).                    *)
THEOREM TableIsRight == AnalysisSpec => []TableSaysWhatWasFound
<1>1. AnalysisInv => TableSaysWhatWasFound
  BY DEF AnalysisInv
<1>. QED BY <1>1, AnalysisHolds, PTL

(* A page is marked by a request analysis, once, exactly if one of its     *)
(* requests matches, in whatever order the database yields them            *)
(* (static_request_analyzer, _analyze).                                    *)
THEOREM TrackersAreRight == AnalysisSpec => []TrackersAreFound
<1>1. AnalysisInv => TrackersAreFound
  BY DEF AnalysisInv
<1>. QED BY <1>1, AnalysisHolds, PTL
=============================================================================
