---------------------- MODULE StorageControllerProofs ----------------------
(***************************************************************************)
(* Theorems about StorageController for every value of its constants: any  *)
(* set of visits, connections and messages, any cache size.                *)
(*                                                                         *)
(* The inductive invariant is built in layers: WellFormed (types, and which*)
(* visit a row or a task belongs to), Durable (where the records of a task *)
(* list or of a finalisation are), Exclusive (no two of those overlap) and *)
(* Owned (who will finalize a record that is not in a batch yet).          *)
(***************************************************************************)
EXTENDS StorageController, TLAPS

-----------------------------------------------------------------------------
(* What the operations of the provider preserve.                           *)

(* A row waits under its own visit and has a table the provider knows.     *)
BufferOK == \A v \in Visits : \A r \in buffer[v] : r.visit = v /\ r.table \in Tables

(* Rows are never forgotten: RowsOf distributes over union.                *)
LEMMA RowsOfUnion ==
    ASSUME NEW A, NEW B
    PROVE  RowsOf(A \cup B) = RowsOf(A) \cup RowsOf(B)
BY DEF RowsOf

LEMMA RowsOfDifference ==
    ASSUME NEW A, NEW B, B \subseteq A
    PROVE  RowsOf(A) = RowsOf(B) \cup RowsOf(A \ B)
BY DEF RowsOf

(* _create_batch puts every row of a known table into some batch.          *)
LEMMA CreateBatchesRows ==
    ASSUME NEW rows, NEW token, \A r \in rows : r.table \in Tables
    PROVE  RowsOf(CreateBatches(rows, token)) = rows
<1>1. ASSUME NEW r \in RowsOf(CreateBatches(rows, token)) PROVE r \in rows
  BY <1>1 DEF RowsOf, CreateBatches
<1>2. ASSUME NEW r \in rows PROVE r \in RowsOf(CreateBatches(rows, token))
  <2> DEFINE b == [token |-> token, table |-> r.table,
                   rows |-> {q \in rows : q.table = r.table}]
  <2>1. b \in CreateBatches(rows, token)
    BY <1>2 DEF CreateBatches
  <2>2. r \in b.rows
    BY <1>2
  <2> QED BY <2>1, <2>2 DEF RowsOf
<1> QED BY <1>1, <1>2

LEMMA CreateBatchesType ==
    ASSUME NEW rows \in SUBSET Rows, NEW token \in Nat
    PROVE  CreateBatches(rows, token) \subseteq Batch
BY DEF CreateBatches, Batch

LEMMA MarkerRow ==
    ASSUME NEW v \in Visits
    PROVE  /\ Marker(v) \in Rows
           /\ Marker(v).visit = v
           /\ Marker(v).table \in Tables
BY MessagesAssumption DEF Marker, Rows

(* finalize_visit_id: types are kept, no row gets lost, and either the     *)
(* event of the new token is pending or the cache was flushed.             *)
LEMMA FinalizeVisitStep ==
    ASSUME ArrowTypeOK, BufferOK,
           NEW v \in Visits, NEW success \in BOOLEAN, NEW R \in SUBSET Messages,
           FinalizeVisit(v, success, R)
    PROVE  /\ ArrowTypeOK'
           /\ BufferOK'
           /\ saved \subseteq saved'
           /\ rejected \subseteq rejected'
           /\ buffer' = [buffer EXCEPT ![v] = {}]
           /\ finalized' = Append(finalized, [visit |-> v, success |-> success,
                                              records |-> R])
           /\ buffer[v] \subseteq Batched' \cup Settled'
           /\ Batched \subseteq Batched' \cup saved'
           /\ ~ success => Marker(v) \in Batched' \cup saved'
           /\ \/ flushEvents' = {} /\ batches' = {}
              \/ flushEvents' = flushEvents \cup {Len(finalized) + 1}
<1> DEFINE rows  == buffer[v] \cup (IF success THEN {} ELSE {Marker(v)})
           token == Len(finalized) + 1
           new   == CreateBatches(rows, token)
           kept  == batches \cup Convertible(new)
           full  == IsCacheFull(kept)
<1>1. /\ buffer' = [buffer EXCEPT ![v] = {}]
      /\ finalized' = Append(finalized, [visit |-> v, success |-> success,
                                         records |-> R])
      /\ rejected' = rejected \cup RowsOf(new \ Convertible(new))
      /\ batches' = IF full THEN {} ELSE kept
      /\ saved' = IF full THEN saved \cup RowsOf(kept) ELSE saved
      /\ flushEvents' = IF full THEN {} ELSE flushEvents \cup {token}
  BY DEF FinalizeVisit
<1>2. rows \in SUBSET Rows /\ \A r \in rows : r.table \in Tables
  BY MarkerRow DEF ArrowTypeOK, BufferOK
<1>3. token \in Nat /\ Len(finalized) \in Nat
  BY DEF ArrowTypeOK
<1>4. new \subseteq Batch /\ kept \subseteq Batch
  BY <1>2, <1>3, CreateBatchesType DEF ArrowTypeOK, Convertible
<1>5. RowsOf(new) = rows /\ RowsOf(new) = RowsOf(Convertible(new)) \cup RowsOf(new \ Convertible(new))
  <2>1. Convertible(new) \subseteq new
    BY DEF Convertible
  <2> QED BY <1>2, <2>1, CreateBatchesRows, RowsOfDifference
<1>6. RowsOf(kept) = Batched \cup RowsOf(Convertible(new))
  BY RowsOfUnion DEF Batched
<1>7. RowsOf(kept) \subseteq Rows /\ RowsOf(new) \subseteq Rows
  BY <1>4 DEF RowsOf, Batch
<1>8. RowsOf({}) = {}
  BY DEF RowsOf
<1>9. ArrowTypeOK'
  <2>1. buffer' \in [Visits -> SUBSET Rows]
    BY <1>1 DEF ArrowTypeOK
  <2>2. batches' \subseteq Batch
    BY <1>1, <1>4
  <2>3. finalized' \in Seq(Finalization) /\ Len(finalized') = Len(finalized) + 1
    <3>1. [visit |-> v, success |-> success, records |-> R] \in Finalization
      BY DEF Finalization
    <3> QED BY <1>1, <3>1 DEF ArrowTypeOK
  <2>4. flushEvents' \subseteq 1 .. Len(finalized')
    <3>1. flushEvents' \subseteq flushEvents \cup {token}
      BY <1>1
    <3>2. flushEvents \subseteq 1 .. Len(finalized)
      BY DEF ArrowTypeOK
    <3> HIDE DEF token
    <3>3. ASSUME NEW n \in flushEvents' PROVE n \in 1 .. Len(finalized')
      BY <1>3, <2>3, <3>1, <3>2, <3>3 DEF token
    <3> QED BY <3>3
  <2>5. saved' \subseteq Rows /\ rejected' \subseteq Rows
    BY <1>1, <1>5, <1>7 DEF ArrowTypeOK
  <2> QED BY <2>1, <2>2, <2>3, <2>4, <2>5 DEF ArrowTypeOK
<1>10. BufferOK'
  BY <1>1 DEF BufferOK, ArrowTypeOK
<1>11. rows \subseteq Batched' \cup Settled' /\ Batched \subseteq Batched' \cup saved'
  <2>1. CASE full
    BY <2>1, <1>1, <1>5, <1>6 DEF Settled
  <2>2. CASE ~ full
    <3>1. Batched' = RowsOf(kept)
      BY <2>2, <1>1 DEF Batched
    <3> QED BY <3>1, <1>1, <1>5, <1>6 DEF Settled
  <2> QED BY <2>1, <2>2
(* No client writes to incomplete_visits, so its batch is convertible.     *)
<1>12. ~ success => Marker(v) \in RowsOf(Convertible(new))
  <2> SUFFICES ASSUME ~ success PROVE Marker(v) \in RowsOf(Convertible(new))
    OBVIOUS
  <2> DEFINE b == [token |-> token, table |-> IncompleteVisits,
                   rows |-> {r \in rows : r.table = IncompleteVisits}]
  <2>1. Marker(v) \in rows /\ Marker(v).table = IncompleteVisits
    BY DEF Marker
  <2>2. b \in new
    BY <2>1, MessagesAssumption DEF CreateBatches
  <2>3. b.rows \cap Invalid = {}
    BY MessagesAssumption
  <2>4. Marker(v) \in b.rows
    BY <2>1
  <2> QED BY <2>2, <2>3, <2>4 DEF Convertible, RowsOf
<1>13. RowsOf(kept) \subseteq Batched' \cup saved'
  BY <1>1 DEF Batched
<1>14. ~ success => Marker(v) \in Batched' \cup saved'
  BY <1>6, <1>12, <1>13
<1> QED BY <1>1, <1>9, <1>10, <1>11, <1>14

(* flush_cache writes every batch and sets every event.                    *)
LEMMA FlushCacheStep ==
    ASSUME ArrowTypeOK, BufferOK, FlushCache
    PROVE  /\ ArrowTypeOK'
           /\ BufferOK'
           /\ saved \subseteq saved'
           /\ Batched \subseteq saved'
           /\ batches' = {} /\ flushEvents' = {}
           /\ UNCHANGED <<buffer, rejected, finalized>>
<1>1. Batched \subseteq Rows
  BY DEF ArrowTypeOK, Batched, RowsOf, Batch
<1> QED BY <1>1 DEF FlushCache, ArrowTypeOK, BufferOK

(* store_record adds one row and touches nothing else.                     *)
LEMMA StoreRecordStep ==
    ASSUME ArrowTypeOK, BufferOK, NEW m \in Messages, m.table \in Tables,
           StoreRecord(m)
    PROVE  ArrowTypeOK' /\ BufferOK'
<1>1. m \in Rows /\ m.visit \in Visits
  BY MessagesAssumption DEF Rows
<1> QED BY <1>1 DEF StoreRecord, ArrowTypeOK, BufferOK

-----------------------------------------------------------------------------
(* The controller.                                                         *)

(* The tasks of a visit are records of that visit; a handler waits only    *)
(* while it works on a finalize message of the visit it popped.            *)
TasksOK ==
    /\ \A v \in Visits : \A m \in tasks[v] : m.visit = v
    /\ \A c \in Conns :
         \/ /\ handler[c] = "awaiting"
            /\ finalizing[c] \in Messages
            /\ \A m \in awaiting[c] : m.visit = finalizing[c].visit
         \/ handler[c] # "awaiting" /\ awaiting[c] = {}

WellFormed == TypeOK /\ BufferOK /\ TasksOK

LEMMA MessageTypes ==
    ASSUME NEW m \in Messages
    PROVE  m.conn \in Conns /\ m.kind \in Kinds /\ m.visit \in Visits /\ m.success \in BOOLEAN
BY MessagesAssumption

LEMMA InitWellFormed == Init => WellFormed
<1> SUFFICES ASSUME Init PROVE WellFormed
  OBVIOUS
<1>1. TypeOK
  <2>1. ArrowTypeOK
    BY DEF Init, ArrowInit, ArrowTypeOK
  <2>2. <<>> \in Seq(SUBSET Entry)
    OBVIOUS
  <2> QED BY <2>1, <2>2 DEF Init, TypeOK, MainStates
<1>2. BufferOK /\ TasksOK
  BY DEF Init, ArrowInit, BufferOK, TasksOK
<1> QED BY <1>1, <1>2 DEF WellFormed

LEMMA EntryType ==
    ASSUME TypeOK, NEW v \in Visits, NEW s \in BOOLEAN, NEW t \in Nat,
           AppendEntry(v, s, t)
    PROVE  /\ finalizeTasks' \subseteq Entry
           /\ nEntries' \in Nat
           /\ UNCHANGED <<completion, feeder>>
BY DEF TypeOK, AppendEntry, Entry

LEMMA PutType ==
    ASSUME TypeOK, NEW E \in SUBSET Entry, Put(E)
    PROVE  completion' \in Seq(SUBSET Entry)
BY DEF TypeOK, Put

LEMMA StepWellFormed == WellFormed /\ [Next]_vars => WellFormed'
<1> SUFFICES ASSUME WellFormed, [Next]_vars PROVE WellFormed'
  OBVIOUS
<1> USE DEF WellFormed
<1>len. Len(finalized) + 1 \in Nat /\ None \in Nat
  BY DEF TypeOK, ArrowTypeOK, None
<1>arrow. UNCHANGED arrowVars => ArrowTypeOK' /\ BufferOK'
  BY DEF TypeOK, ArrowTypeOK, arrowVars, BufferOK
<1>1. ASSUME NEW c \in Conns, Connect(c) PROVE WellFormed'
  BY <1>1, <1>arrow DEF Connect, TypeOK, TasksOK, taskVars, queueVars, shutdownVars, MainStates
<1>2. ASSUME NEW c \in Conns, Disconnect(c) PROVE WellFormed'
  BY <1>2, <1>arrow DEF Disconnect, TypeOK, TasksOK, taskVars, queueVars, shutdownVars, MainStates
<1>3. ASSUME NEW m \in Messages, HandleRecord(m) PROVE WellFormed'
  BY <1>3, <1>arrow, MessageTypes DEF HandleRecord, AddTask, Receive, TypeOK, TasksOK, queueVars, shutdownVars
<1>4. ASSUME NEW m \in Messages, HandleIgnored(m) PROVE WellFormed'
  BY <1>4, <1>arrow DEF HandleIgnored, Receive, TypeOK, TasksOK, taskVars, queueVars, shutdownVars
<1>5. ASSUME NEW m \in Messages, HandleFatal(m) PROVE WellFormed'
  BY <1>5, <1>arrow, MessageTypes DEF HandleFatal, Receive, TypeOK, TasksOK, taskVars, queueVars, shutdownVars
<1>6. ASSUME NEW m \in Messages, FinalizeNothing(m) PROVE WellFormed'
  <2>1. m.visit \in Visits /\ m.success \in BOOLEAN
    BY MessageTypes
  <2>2. AppendEntry(m.visit, m.success, None)
    BY <1>6 DEF FinalizeNothing
  <2>3. finalizeTasks' \subseteq Entry /\ nEntries' \in Nat /\ UNCHANGED <<completion, feeder>>
    BY <2>1, <2>2, <1>len, EntryType
  <2> QED BY <1>6, <2>3, <1>arrow DEF FinalizeNothing, Receive, TypeOK, TasksOK, taskVars, shutdownVars
<1>7. ASSUME NEW m \in Messages, FinalizeAtOnce(m) PROVE WellFormed'
  <2>1. m.visit \in Visits /\ m.success \in BOOLEAN /\ tasks[m.visit] \in SUBSET Messages
    BY MessageTypes DEF TypeOK
  <2>2. AppendEntry(m.visit, m.success, Len(finalized) + 1) /\ FinalizeVisit(m.visit, m.success, tasks[m.visit])
    BY <1>7 DEF FinalizeAtOnce, PopTasks
  <2>3. finalizeTasks' \subseteq Entry /\ nEntries' \in Nat /\ UNCHANGED <<completion, feeder>>
    BY <2>1, <2>2, <1>len, EntryType
  <2>4. ArrowTypeOK' /\ BufferOK'
    <3>1. ArrowTypeOK /\ BufferOK
      BY DEF TypeOK
    <3> HIDE DEF WellFormed
    <3> QED BY <2>1, <2>2, <3>1, FinalizeVisitStep
  <2> QED BY <1>7, <2>1, <2>3, <2>4 DEF FinalizeAtOnce, PopTasks, Receive, TypeOK, TasksOK, shutdownVars
<1>8. ASSUME NEW m \in Messages, FinalizePop(m) PROVE WellFormed'
  BY <1>8, <1>arrow, MessageTypes DEF FinalizePop, PopTasks, Receive, TypeOK, TasksOK, queueVars, shutdownVars
<1>9. ASSUME NEW c \in Conns, FinalizeResume(c) PROVE WellFormed'
  <2> DEFINE m == finalizing[c]
  <2>1. m \in Messages /\ awaiting[c] \in SUBSET Messages
    BY <1>9 DEF FinalizeResume, TypeOK, TasksOK
  <2>2. m.visit \in Visits /\ m.success \in BOOLEAN
    BY <2>1, MessageTypes
  <2>3. AppendEntry(m.visit, m.success, Len(finalized) + 1) /\ FinalizeVisit(m.visit, m.success, awaiting[c])
    BY <1>9 DEF FinalizeResume
  <2>4. finalizeTasks' \subseteq Entry /\ nEntries' \in Nat /\ UNCHANGED <<completion, feeder>>
    BY <2>2, <2>3, <1>len, EntryType
  <2>5. ArrowTypeOK' /\ BufferOK'
    BY <2>1, <2>2, <2>3, FinalizeVisitStep DEF TypeOK
  <2> QED BY <1>9, <2>4, <2>5 DEF FinalizeResume, TypeOK, TasksOK, taskVars, shutdownVars
<1>10. ASSUME NEW c \in Conns, FinalizeFails(c) PROVE WellFormed'
  BY <1>10, <1>arrow DEF FinalizeFails, TypeOK, TasksOK, taskVars, queueVars, shutdownVars
<1>11. ASSUME NEW m \in Messages, RunTask(m) PROVE WellFormed'
  <2>1. ArrowTypeOK' /\ BufferOK'
    <3>1. CASE m.table \in Tables
      BY <3>1, <1>11, StoreRecordStep DEF RunTask, TypeOK
    <3>2. CASE m.table \notin Tables
      BY <3>2, <1>11, <1>arrow DEF RunTask
    <3> QED BY <3>1, <3>2
  <2> QED BY <1>11, <2>1 DEF RunTask, TypeOK, TasksOK, handlerVars, queueVars, shutdownVars
<1>12. ASSUME BatchTimeout PROVE WellFormed'
  <2>1. ArrowTypeOK' /\ BufferOK'
    BY <1>12, FlushCacheStep DEF BatchTimeout, TypeOK
  <2> QED BY <1>12, <2>1 DEF BatchTimeout, TypeOK, TasksOK, handlerVars, taskVars, queueVars, shutdownVars
<1>13. ASSUME FeedCompletionQueue PROVE WellFormed'
  <2>1. Finished \in SUBSET Entry
    BY DEF Finished, TypeOK
  <2>2. completion' \in Seq(SUBSET Entry)
    BY <1>13, <2>1, PutType DEF FeedCompletionQueue
  <2> QED BY <1>13, <2>2, <1>arrow DEF FeedCompletionQueue, TypeOK, TasksOK, handlerVars, taskVars, shutdownVars
<1>14. ASSUME FeederReturns PROVE WellFormed'
  BY <1>14, <1>arrow DEF FeederReturns, TypeOK, TasksOK, handlerVars, taskVars, shutdownVars
<1>15. ASSUME RequestShutdown PROVE WellFormed'
  BY <1>15, <1>arrow DEF RequestShutdown, TypeOK, TasksOK, handlerVars, taskVars, queueVars
<1>16. ASSUME TakeSignal PROVE WellFormed'
  BY <1>16, <1>arrow DEF TakeSignal, TypeOK, TasksOK, handlerVars, taskVars, queueVars, MainStates
<1>17. ASSUME WaitClosed PROVE WellFormed'
  BY <1>17, <1>arrow DEF WaitClosed, AllClosed, TypeOK, TasksOK, handlerVars, taskVars, queueVars, MainStates
<1>18. ASSUME NEW v \in Visits, ShutdownFinalize(v) PROVE WellFormed'
  <2>1. ArrowTypeOK' /\ BufferOK'
    <3>1. tasks[v] \in SUBSET Messages /\ FALSE \in BOOLEAN
      BY DEF TypeOK
    <3>2. FinalizeVisit(v, FALSE, tasks[v])
      BY <1>18 DEF ShutdownFinalize, PopTasks
    <3> QED BY <3>1, <3>2, FinalizeVisitStep DEF TypeOK
  <2>2. shutdownTokens' \subseteq Entry /\ nEntries' \in Nat
    <3>1. shutdownTokens \subseteq Entry /\ nEntries \in Nat
      BY DEF TypeOK
    <3>2. nEntries + 1 \in Nat /\ FALSE \in BOOLEAN
      BY <3>1
    <3> DEFINE e == [seq |-> nEntries + 1, visit |-> v, success |-> FALSE,
                     token |-> Len(finalized) + 1]
    <3>3. e \in Entry
      BY <3>2, <1>len DEF Entry
    <3>4. shutdownTokens' = shutdownTokens \cup {e} /\ nEntries' = nEntries + 1
      BY <1>18 DEF ShutdownFinalize, PopTasks
    <3> QED BY <3>1, <3>2, <3>3, <3>4
  <2> QED BY <1>18, <2>1, <2>2 DEF ShutdownFinalize, PopTasks, TypeOK, TasksOK, handlerVars
<1>19. ASSUME NEW v \in Visits, ShutdownFails(v) PROVE WellFormed'
  BY <1>19, <1>arrow DEF ShutdownFails, TypeOK, TasksOK, handlerVars, taskVars, queueVars, MainStates
<1>20. ASSUME ShutdownFlush PROVE WellFormed'
  <2>1. ArrowTypeOK' /\ BufferOK'
    BY <1>20, FlushCacheStep DEF ShutdownFlush, TypeOK
  <2> QED BY <1>20, <2>1 DEF ShutdownFlush, TypeOK, TasksOK, handlerVars, taskVars, queueVars, MainStates
<1>21. ASSUME ShutdownReport PROVE WellFormed'
  <2>1. completion' \in Seq(SUBSET Entry)
    BY <1>21, PutType DEF ShutdownReport, TypeOK
  <2> QED BY <1>21, <2>1, <1>arrow DEF ShutdownReport, TypeOK, TasksOK, handlerVars, taskVars, MainStates
<1>22. CASE UNCHANGED vars
  BY <1>22, <1>arrow DEF vars, TypeOK, TasksOK, handlerVars, taskVars, queueVars, shutdownVars
<1> QED BY <1>1, <1>2, <1>3, <1>4, <1>5, <1>6, <1>7, <1>8, <1>9, <1>10, <1>11, <1>12,
           <1>13, <1>14, <1>15, <1>16, <1>17, <1>18, <1>19, <1>20, <1>21, <1>22
        DEF Next, ClientStep, LoopStep, ShutdownStep

LEMMA WellFormedAlways == Spec => []WellFormed
BY InitWellFormed, StepWellFormed, PTL DEF Spec

(* Types, for every value of the constants.                                *)
THEOREM TypeCorrect == Spec => []TypeOK
BY WellFormedAlways, PTL DEF WellFormed

-----------------------------------------------------------------------------
(* Durability *)

(* What a step does to the provider: nothing, or one of its operations.    *)
ArrowEffect ==
    \/ UNCHANGED arrowVars
    \/ \E m \in Messages : m.table \in Tables /\ StoreRecord(m)
    \/ FlushCache
    \/ \E v \in Visits, success \in BOOLEAN, R \in SUBSET Messages :
          FinalizeVisit(v, success, R)

LEMMA StepArrowEffect == WellFormed /\ [Next]_vars => ArrowEffect
<1> SUFFICES ASSUME WellFormed, [Next]_vars PROVE ArrowEffect
  OBVIOUS
<1>1. ASSUME NEW c \in Conns, Connect(c) \/ Disconnect(c) PROVE ArrowEffect
  BY <1>1 DEF Connect, Disconnect, ArrowEffect
<1>2. ASSUME NEW m \in Messages,
             HandleRecord(m) \/ HandleIgnored(m) \/ HandleFatal(m)
               \/ FinalizeNothing(m) \/ FinalizePop(m)
      PROVE  ArrowEffect
  BY <1>2 DEF HandleRecord, AddTask, HandleIgnored, HandleFatal, FinalizeNothing, FinalizePop, PopTasks,
              ArrowEffect
<1>3. ASSUME NEW m \in Messages, FinalizeAtOnce(m) PROVE ArrowEffect
  <2>1. m.visit \in Visits /\ m.success \in BOOLEAN /\ tasks[m.visit] \in SUBSET Messages
    BY MessageTypes DEF WellFormed, TypeOK
  <2>2. FinalizeVisit(m.visit, m.success, tasks[m.visit])
    BY <1>3 DEF FinalizeAtOnce, PopTasks
  <2> QED BY <2>1, <2>2 DEF ArrowEffect
<1>4. ASSUME NEW c \in Conns, FinalizeResume(c) PROVE ArrowEffect
  <2> DEFINE m == finalizing[c]
  <2>1. m \in Messages /\ awaiting[c] \in SUBSET Messages
    BY <1>4 DEF FinalizeResume, WellFormed, TypeOK, TasksOK
  <2>2. m.visit \in Visits /\ m.success \in BOOLEAN
    BY <2>1, MessageTypes
  <2>3. FinalizeVisit(m.visit, m.success, awaiting[c])
    BY <1>4 DEF FinalizeResume
  <2> QED BY <2>1, <2>2, <2>3 DEF ArrowEffect
<1>5. ASSUME NEW c \in Conns, FinalizeFails(c) PROVE ArrowEffect
  BY <1>5 DEF FinalizeFails, ArrowEffect
<1>6. ASSUME NEW m \in Messages, RunTask(m) PROVE ArrowEffect
  BY <1>6 DEF RunTask, ArrowEffect
<1>7. ASSUME BatchTimeout \/ ShutdownFlush PROVE ArrowEffect
  BY <1>7 DEF BatchTimeout, ShutdownFlush, ArrowEffect
<1>8. ASSUME FeedCompletionQueue \/ FeederReturns \/ RequestShutdown \/ TakeSignal
               \/ WaitClosed \/ ShutdownReport
      PROVE  ArrowEffect
  BY <1>8 DEF FeedCompletionQueue, FeederReturns, RequestShutdown, TakeSignal, WaitClosed, AllClosed,
              ShutdownReport, ArrowEffect
<1>9. ASSUME NEW v \in Visits, ShutdownFinalize(v) PROVE ArrowEffect
  <2>1. tasks[v] \in SUBSET Messages /\ FALSE \in BOOLEAN
    BY DEF WellFormed, TypeOK
  <2>2. FinalizeVisit(v, FALSE, tasks[v])
    BY <1>9 DEF ShutdownFinalize, PopTasks
  <2> QED BY <2>1, <2>2 DEF ArrowEffect
<1>10. ASSUME NEW v \in Visits, ShutdownFails(v) PROVE ArrowEffect
  BY <1>10 DEF ShutdownFails, ArrowEffect
<1>11. CASE UNCHANGED vars
  BY <1>11 DEF vars, ArrowEffect
<1> QED BY <1>1, <1>2, <1>3, <1>4, <1>5, <1>6, <1>7, <1>8, <1>9, <1>10, <1>11
        DEF Next, ClientStep, LoopStep, ShutdownStep

(* Rows only move forward, from the buffer of their visit to a batch and   *)
(* from there to disk; an event is set only by writing every batch.        *)
StorageMovesOn ==
    /\ \A v \in Visits : buffer[v] \subseteq buffer'[v] \cup Batched' \cup Settled'
    /\ Batched \subseteq Batched' \cup saved'
    /\ saved \subseteq saved'
    /\ Settled \subseteq Settled'
    /\ flushEvents \subseteq flushEvents' \/ Batched' = {}
    /\ Len(finalized') >= Len(finalized)
    /\ \A n \in 1 .. Len(finalized) : finalized'[n] = finalized[n]

LEMMA StepMovesOn == WellFormed /\ [Next]_vars => StorageMovesOn
<1> SUFFICES ASSUME WellFormed, ArrowEffect PROVE StorageMovesOn
  BY StepArrowEffect
<1>0. ArrowTypeOK /\ BufferOK /\ RowsOf({}) = {} /\ Len(finalized) \in Nat
      /\ finalized \in Seq(Finalization)
  BY DEF WellFormed, TypeOK, ArrowTypeOK, RowsOf
<1>1. CASE UNCHANGED arrowVars
  BY <1>0, <1>1 DEF arrowVars, StorageMovesOn, Batched, Settled
<1>2. ASSUME NEW m \in Messages, StoreRecord(m) PROVE StorageMovesOn
  BY <1>0, <1>2, MessageTypes DEF StoreRecord, StorageMovesOn, Batched, Settled, ArrowTypeOK
<1>3. CASE FlushCache
  <2>1. Batched' = {}
    BY <1>0, <1>3, FlushCacheStep DEF Batched
  <2> QED BY <1>0, <1>3, <2>1, FlushCacheStep DEF StorageMovesOn, Settled
<1>4. ASSUME NEW v \in Visits, NEW success \in BOOLEAN, NEW R \in SUBSET Messages,
             FinalizeVisit(v, success, R)
      PROVE  StorageMovesOn
  <2> DEFINE f == [visit |-> v, success |-> success, records |-> R]
  <2>1. /\ saved \subseteq saved'
        /\ rejected \subseteq rejected'
        /\ buffer' = [buffer EXCEPT ![v] = {}]
        /\ finalized' = Append(finalized, f)
        /\ buffer[v] \subseteq Batched' \cup Settled'
        /\ Batched \subseteq Batched' \cup saved'
        /\ \/ flushEvents' = {} /\ batches' = {}
           \/ flushEvents' = flushEvents \cup {Len(finalized) + 1}
    BY <1>0, <1>4, FinalizeVisitStep
  <2>2. flushEvents \subseteq flushEvents' \/ Batched' = {}
    BY <1>0, <2>1 DEF Batched
  <2>3. f \in Finalization
    BY DEF Finalization
  <2>4. Len(finalized') >= Len(finalized)
        /\ \A n \in 1 .. Len(finalized) : finalized'[n] = finalized[n]
    BY <1>0, <2>1, <2>3
  <2>5. \A w \in Visits : buffer[w] \subseteq buffer'[w] \cup Batched' \cup Settled'
    BY <1>0, <2>1 DEF ArrowTypeOK
  <2> QED BY <2>1, <2>2, <2>4, <2>5 DEF StorageMovesOn, Settled
<1> QED BY <1>1, <1>2, <1>3, <1>4 DEF ArrowEffect

(* Where a record is that a handler has turned into a task.                *)
Reached(m) == m \in pending \cup failed \cup buffer[m.visit] \cup Batched \cup Settled

FinalizedOK ==
    \A n \in 1 .. Len(finalized) :
        /\ finalized[n].records \subseteq Batched \cup Settled
        /\ TokenDone(n) => finalized[n].records \subseteq Settled

HandledOK ==
    /\ \A m \in RecordsOf(Handled) : Reached(m)
    /\ \A v \in Visits : tasks[v] \subseteq RecordsOf(Handled)
    /\ \A c \in Conns : awaiting[c] \subseteq RecordsOf(Handled)

Durable == FinalizedOK /\ HandledOK

(* Who touches the task sets, and who touches the unread messages.         *)
LEMMA StepTasks ==
    WellFormed /\ [Next]_vars =>
        \/ UNCHANGED <<pending, failed>>
        \/ \E m \in Messages : HandleRecord(m) \/ RunTask(m)
BY DEF Next, ClientStep, LoopStep, ShutdownStep, vars, Connect, Disconnect, HandleIgnored,
       HandleFatal, FinalizeNothing, FinalizeAtOnce, PopTasks, FinalizePop, FinalizeResume,
       FinalizeFails, BatchTimeout, FeedCompletionQueue, FeederReturns, RequestShutdown,
       TakeSignal, WaitClosed, AllClosed, ShutdownFinalize, ShutdownFails, ShutdownFlush,
       ShutdownReport, taskVars

LEMMA StepReached ==
    ASSUME WellFormed, [Next]_vars, NEW m \in Messages, Reached(m)
    PROVE  Reached(m)'
<1>1. m.visit \in Visits /\ StorageMovesOn
  BY MessageTypes, StepMovesOn
<1>2. CASE m \in buffer[m.visit] \cup Batched \cup Settled
  BY <1>1, <1>2 DEF StorageMovesOn, Reached, Settled
<1>3. CASE m \in pending \cup failed
  <2>1. CASE UNCHANGED <<pending, failed>>
    BY <1>3, <2>1 DEF Reached
  <2>2. ASSUME NEW k \in Messages, HandleRecord(k) PROVE Reached(m)'
    BY <1>3, <2>2 DEF Reached, HandleRecord, AddTask
  <2>3. ASSUME NEW k \in Messages, RunTask(k) PROVE Reached(m)'
    <3>1. CASE m \in failed \/ m # k
      BY <1>3, <2>3, <3>1 DEF Reached, RunTask
    <3>2. CASE m = k
      <4>1. CASE m.table \in Tables
        BY <1>1, <2>3, <3>2, <4>1 DEF Reached, RunTask, StoreRecord, WellFormed, TypeOK, ArrowTypeOK
      <4>2. CASE m.table \notin Tables
        BY <2>3, <3>2, <4>2 DEF Reached, RunTask
      <4> QED BY <4>1, <4>2
    <3> QED BY <3>1, <3>2
  <2> QED BY <2>1, <2>2, <2>3, StepTasks
<1> QED BY <1>2, <1>3 DEF Reached

(* The records of a new finalisation are in a batch or settled, and all of *)
(* them are settled if its event is already set.                           *)
LEMMA NewFinalization ==
    ASSUME WellFormed, FinalizedOK, StorageMovesOn,
           NEW v \in Visits, NEW success \in BOOLEAN, NEW R \in SUBSET Messages,
           FinalizeVisit(v, success, R),
           R \cap (pending \cup failed) = {},
           \A m \in R : m.visit = v /\ Reached(m)
    PROVE  FinalizedOK'
<1> DEFINE f == [visit |-> v, success |-> success, records |-> R]
<1>0. ArrowTypeOK /\ BufferOK /\ RowsOf({}) = {} /\ Len(finalized) \in Nat
      /\ finalized \in Seq(Finalization)
  BY DEF WellFormed, TypeOK, ArrowTypeOK, RowsOf
<1>1. /\ buffer[v] \subseteq Batched' \cup Settled'
      /\ finalized' = Append(finalized, f)
      /\ \/ flushEvents' = {} /\ batches' = {}
         \/ flushEvents' = flushEvents \cup {Len(finalized) + 1}
  BY <1>0, FinalizeVisitStep
<1>2. f \in Finalization
  BY DEF Finalization
<1>3. /\ Len(finalized') = Len(finalized) + 1
      /\ finalized'[Len(finalized) + 1] = f
  BY <1>0, <1>1, <1>2
<1>4. R \subseteq Batched' \cup Settled'
  BY <1>1 DEF Reached, StorageMovesOn, Settled
<1>5. Batched' = {} \/ flushEvents' = flushEvents \cup {Len(finalized) + 1}
  BY <1>0, <1>1 DEF Batched
<1> SUFFICES ASSUME NEW n \in 1 .. Len(finalized')
             PROVE  /\ finalized'[n].records \subseteq Batched' \cup Settled'
                    /\ n \notin flushEvents' => finalized'[n].records \subseteq Settled'
  BY DEF FinalizedOK, TokenDone
<1>6. CASE n = Len(finalized) + 1
  BY <1>3, <1>4, <1>5, <1>6
<1>7. CASE n \in 1 .. Len(finalized)
  BY <1>5, <1>7 DEF FinalizedOK, TokenDone, StorageMovesOn, Settled
<1> QED BY <1>0, <1>3, <1>6, <1>7

LEMMA SameFinalization ==
    ASSUME WellFormed, FinalizedOK, StorageMovesOn, UNCHANGED finalized
    PROVE  FinalizedOK'
BY DEF FinalizedOK, TokenDone, StorageMovesOn, Settled

LEMMA StepFinalizedOK == WellFormed /\ Durable /\ [Next]_vars => FinalizedOK'
<1> SUFFICES ASSUME WellFormed, Durable, [Next]_vars PROVE FinalizedOK'
  OBVIOUS
<1>0. StorageMovesOn /\ FinalizedOK /\ HandledOK
  BY StepMovesOn DEF Durable
<1>1. ASSUME NEW m \in Messages, FinalizeAtOnce(m) PROVE FinalizedOK'
  <2> DEFINE v == m.visit
             R == tasks[v]
  <2>1. v \in Visits /\ m.success \in BOOLEAN
    BY MessageTypes
  <2>2. R \in SUBSET Messages /\ \A k \in R : k.visit = v /\ Reached(k)
    BY <1>0, <2>1 DEF WellFormed, TypeOK, TasksOK, HandledOK
  <2>3. FinalizeVisit(v, m.success, R) /\ R \cap (pending \cup failed) = {}
    BY <1>1 DEF FinalizeAtOnce, PopTasks
  <2> HIDE DEF v, R
  <2> QED BY <1>0, <2>1, <2>2, <2>3, NewFinalization
<1>2. ASSUME NEW c \in Conns, FinalizeResume(c) PROVE FinalizedOK'
  <2> DEFINE m == finalizing[c]
             R == awaiting[c]
  <2>1. m \in Messages /\ handler[c] = "awaiting"
    BY <1>2 DEF FinalizeResume, WellFormed, TasksOK
  <2>2. m.visit \in Visits /\ m.success \in BOOLEAN
    BY <2>1, MessageTypes
  <2>3. R \in SUBSET Messages /\ \A k \in R : k.visit = m.visit /\ Reached(k)
    BY <1>0, <2>1 DEF WellFormed, TypeOK, TasksOK, HandledOK
  <2>4. FinalizeVisit(m.visit, m.success, R) /\ R \cap (pending \cup failed) = {}
    BY <1>2 DEF FinalizeResume
  <2> HIDE DEF m, R
  <2> QED BY <1>0, <2>2, <2>3, <2>4, NewFinalization
<1>3. ASSUME NEW v \in Visits, ShutdownFinalize(v) PROVE FinalizedOK'
  <2>1. tasks[v] \in SUBSET Messages /\ \A k \in tasks[v] : k.visit = v /\ Reached(k)
    BY <1>0 DEF WellFormed, TypeOK, TasksOK, HandledOK
  <2>2. FinalizeVisit(v, FALSE, tasks[v]) /\ tasks[v] \cap (pending \cup failed) = {}
    BY <1>3 DEF ShutdownFinalize, PopTasks
  <2> QED BY <1>0, <2>1, <2>2, NewFinalization
<1>4. CASE UNCHANGED finalized
  BY <1>0, <1>4, SameFinalization
<1>5. \/ UNCHANGED finalized
      \/ \E m \in Messages : FinalizeAtOnce(m)
      \/ \E c \in Conns : FinalizeResume(c)
      \/ \E v \in Visits : ShutdownFinalize(v)
  BY DEF Next, ClientStep, LoopStep, ShutdownStep, vars, Connect, Disconnect, HandleRecord, AddTask,
       HandleIgnored, HandleFatal, FinalizeNothing, FinalizePop, PopTasks, FinalizeFails, RunTask,
       StoreRecord, BatchTimeout, FlushCache, FeedCompletionQueue, FeederReturns,
       RequestShutdown, TakeSignal, WaitClosed, AllClosed, ShutdownFails, ShutdownFlush,
       ShutdownReport, arrowVars
<1> QED BY <1>1, <1>2, <1>3, <1>4, <1>5

LEMMA StepUnread ==
    [Next]_vars =>
        \/ UNCHANGED unread
        \/ \E m \in Messages :
             \/ HandleRecord(m)
             \/ m.kind # "record" /\ unread' = unread \ {m}
<1> SUFFICES ASSUME [Next]_vars, ~ UNCHANGED unread
             PROVE  \E m \in Messages :
                      \/ HandleRecord(m)
                      \/ m.kind # "record" /\ unread' = unread \ {m}
  OBVIOUS
<1>1. PICK m \in Messages : \/ HandleRecord(m) \/ HandleIgnored(m) \/ HandleFatal(m)
                            \/ FinalizeNothing(m) \/ FinalizeAtOnce(m) \/ FinalizePop(m)
  BY DEF Next, ClientStep, LoopStep, ShutdownStep, vars, Connect, Disconnect,
       FinalizeResume, FinalizeFails, RunTask, BatchTimeout, FeedCompletionQueue,
       FeederReturns, RequestShutdown, TakeSignal, WaitClosed, AllClosed, ShutdownFinalize, PopTasks,
       ShutdownFails, ShutdownFlush, ShutdownReport, handlerVars
<1> QED BY <1>1 DEF HandleIgnored, HandleFatal, FinalizeNothing, FinalizeAtOnce, PopTasks,
                    FinalizePop, Receive

(* What a step does to the lists of tasks that are still to be finalized.  *)
LEMMA StepTaskLists ==
    ASSUME WellFormed, [Next]_vars,
           NEW S, \A v \in Visits : tasks[v] \subseteq S,
                  \A c \in Conns : awaiting[c] \subseteq S,
                  \A m \in Messages : HandleRecord(m) => m \in S
    PROVE  /\ \A v \in Visits : tasks'[v] \subseteq S
           /\ \A c \in Conns : awaiting'[c] \subseteq S
<1> USE DEF WellFormed, TypeOK
<1>1. ASSUME NEW m \in Messages, HandleRecord(m)
      PROVE  /\ \A v \in Visits : tasks'[v] \subseteq S
             /\ \A c \in Conns : awaiting'[c] \subseteq S
  BY <1>1 DEF HandleRecord, AddTask
<1>2. ASSUME NEW m \in Messages, FinalizeAtOnce(m) \/ FinalizePop(m)
      PROVE  /\ \A v \in Visits : tasks'[v] \subseteq S
             /\ \A c \in Conns : awaiting'[c] \subseteq S
  BY <1>2, MessageTypes DEF FinalizeAtOnce, PopTasks, FinalizePop
<1>3. ASSUME NEW c \in Conns, FinalizeResume(c) \/ FinalizeFails(c)
      PROVE  /\ \A v \in Visits : tasks'[v] \subseteq S
             /\ \A d \in Conns : awaiting'[d] \subseteq S
  BY <1>3 DEF FinalizeResume, FinalizeFails, taskVars
<1>4. ASSUME NEW v \in Visits, ShutdownFinalize(v)
      PROVE  /\ \A w \in Visits : tasks'[w] \subseteq S
             /\ \A c \in Conns : awaiting'[c] \subseteq S
  BY <1>4 DEF ShutdownFinalize, PopTasks, handlerVars
<1>5. CASE UNCHANGED <<tasks, awaiting>>
  BY <1>5
<1>6. \/ UNCHANGED <<tasks, awaiting>>
      \/ \E m \in Messages : HandleRecord(m) \/ FinalizeAtOnce(m) \/ FinalizePop(m)
      \/ \E c \in Conns : FinalizeResume(c) \/ FinalizeFails(c)
      \/ \E v \in Visits : ShutdownFinalize(v)
  BY DEF Next, ClientStep, LoopStep, ShutdownStep, vars, Connect, Disconnect,
       HandleIgnored, HandleFatal, FinalizeNothing, RunTask, BatchTimeout,
       FeedCompletionQueue, FeederReturns, RequestShutdown, TakeSignal, WaitClosed, AllClosed,
       ShutdownFails, ShutdownFlush, ShutdownReport, handlerVars, taskVars
<1> QED BY <1>1, <1>2, <1>3, <1>4, <1>5, <1>6

LEMMA StepHandledOK == WellFormed /\ HandledOK /\ [Next]_vars => HandledOK'
<1> SUFFICES ASSUME WellFormed, HandledOK, [Next]_vars PROVE HandledOK'
  OBVIOUS
<1>1. /\ RecordsOf(Handled) \subseteq RecordsOf(Handled)'
      /\ \A m \in RecordsOf(Handled)' : m \in RecordsOf(Handled) \/ HandleRecord(m)
      /\ \A m \in Messages : HandleRecord(m) => m \in RecordsOf(Handled)'
  <2>1. CASE UNCHANGED unread
    BY <2>1 DEF RecordsOf, Handled, HandleRecord, AddTask, Receive
  <2>2. ASSUME NEW m \in Messages, HandleRecord(m)
        PROVE  /\ RecordsOf(Handled) \subseteq RecordsOf(Handled)'
               /\ \A k \in RecordsOf(Handled)' : k \in RecordsOf(Handled) \/ HandleRecord(k)
               /\ \A k \in Messages : HandleRecord(k) => k \in RecordsOf(Handled)'
    BY <2>2 DEF RecordsOf, Handled, HandleRecord, AddTask, Receive
  <2>3. ASSUME NEW m \in Messages, m.kind # "record", unread' = unread \ {m}
        PROVE  /\ RecordsOf(Handled) \subseteq RecordsOf(Handled)'
               /\ \A k \in RecordsOf(Handled)' : k \in RecordsOf(Handled) \/ HandleRecord(k)
               /\ \A k \in Messages : HandleRecord(k) => k \in RecordsOf(Handled)'
    BY <2>3 DEF RecordsOf, Handled, HandleRecord, AddTask, Receive
  <2> QED BY <2>1, <2>2, <2>3, StepUnread
<1>2. ASSUME NEW m \in RecordsOf(Handled)' PROVE Reached(m)'
  <2>1. m \in Messages
    BY DEF RecordsOf, Handled
  <2>2. CASE m \in RecordsOf(Handled)
    BY <2>1, <2>2, StepReached DEF HandledOK
  <2>3. CASE HandleRecord(m)
    BY <2>1, <2>3 DEF HandleRecord, AddTask, Reached
  <2> QED BY <1>1, <2>2, <2>3
<1>3. /\ \A v \in Visits : tasks'[v] \subseteq RecordsOf(Handled)'
      /\ \A c \in Conns : awaiting'[c] \subseteq RecordsOf(Handled)'
  <2> DEFINE S == RecordsOf(Handled)'
  <2>1. /\ \A v \in Visits : tasks[v] \subseteq S
        /\ \A c \in Conns : awaiting[c] \subseteq S
        /\ \A m \in Messages : HandleRecord(m) => m \in S
    BY <1>1 DEF HandledOK
  <2> HIDE DEF S
  <2>2. /\ \A v \in Visits : tasks'[v] \subseteq S
        /\ \A c \in Conns : awaiting'[c] \subseteq S
    BY <2>1, StepTaskLists
  <2> QED BY <2>2 DEF S
<1> QED BY <1>2, <1>3 DEF HandledOK

LEMMA InitDurable == Init => Durable
BY DEF Init, ArrowInit, Durable, FinalizedOK, HandledOK, RecordsOf, Handled

LEMMA DurableAlways == Spec => [](WellFormed /\ Durable)
<1>1. Init => WellFormed /\ Durable
  BY InitWellFormed, InitDurable
<1>2. WellFormed /\ Durable /\ [Next]_vars => (WellFormed /\ Durable)'
  <2>1. WellFormed /\ Durable /\ [Next]_vars => WellFormed'
    BY StepWellFormed
  <2>2. WellFormed /\ Durable /\ [Next]_vars => FinalizedOK'
    BY StepFinalizedOK
  <2>3. WellFormed /\ Durable /\ [Next]_vars => HandledOK'
    BY StepHandledOK DEF Durable
  <2> QED BY <2>1, <2>2, <2>3 DEF Durable
<1> QED BY <1>1, <1>2, PTL DEF Spec

(* The event of a finalisation is set only when every record it waited for *)
(* is on disk or was refused.                                              *)
THEOREM TokensAreHonest == Spec => []TokenImpliesSaved
<1>1. Durable => TokenImpliesSaved
  BY DEF Durable, FinalizedOK, TokenImpliesSaved
<1> QED BY <1>1, DurableAlways, PTL

-----------------------------------------------------------------------------
(* A record is finalized at most once *)

(* A record is in one place of: unread, the tasks of a visit, the tasks a  *)
(* handler popped, the records of one finalisation.                        *)
Exclusive ==
    /\ \A n \in 1 .. Len(finalized) : finalized[n].records \cap unread = {}
    /\ \A v \in Visits, n \in 1 .. Len(finalized) :
          tasks[v] \cap finalized[n].records = {}
    /\ \A c \in Conns, n \in 1 .. Len(finalized) :
          awaiting[c] \cap finalized[n].records = {}
    /\ \A v \in Visits, c \in Conns : tasks[v] \cap awaiting[c] = {}
    /\ \A c, d \in Conns : c # d => awaiting[c] \cap awaiting[d] = {}
    /\ NoDoubleFinalization

(* finalize_visit_id of the provider appends one finalisation.             *)
LEMMA FinalizedAppend ==
    ASSUME WellFormed, NEW v \in Visits, NEW success \in BOOLEAN,
           NEW R \in SUBSET Messages, FinalizeVisit(v, success, R)
    PROVE  /\ Len(finalized) \in Nat
           /\ Len(finalized') = Len(finalized) + 1
           /\ finalized'[Len(finalized) + 1].records = R
           /\ \A n \in 1 .. Len(finalized) : finalized'[n] = finalized[n]
<1> DEFINE f == [visit |-> v, success |-> success, records |-> R]
<1>1. f \in Finalization /\ finalized \in Seq(Finalization)
  BY DEF Finalization, WellFormed, TypeOK, ArrowTypeOK
<1>2. finalized' = Append(finalized, f)
  BY DEF FinalizeVisit
<1> HIDE DEF f
<1>3. /\ Len(finalized) \in Nat
      /\ Len(finalized') = Len(finalized) + 1
      /\ finalized'[Len(finalized) + 1] = f
      /\ \A n \in 1 .. Len(finalized) : finalized'[n] = finalized[n]
  BY <1>1, <1>2
<1> QED BY <1>3 DEF f

(* A set of tasks that no one else holds becomes a finalisation.           *)
LEMMA ExclusiveFinalization ==
    ASSUME WellFormed, HandledOK, Exclusive,
           NEW R \in SUBSET Messages,
           Len(finalized) \in Nat,
           Len(finalized') = Len(finalized) + 1,
           finalized'[Len(finalized) + 1].records = R,
           \A n \in 1 .. Len(finalized) : finalized'[n] = finalized[n],
           R \cap unread = {}, unread' \subseteq unread,
           \A n \in 1 .. Len(finalized) : R \cap finalized[n].records = {},
           \A v \in Visits : tasks'[v] \subseteq tasks[v] /\ tasks'[v] \cap R = {},
           \A c \in Conns : awaiting'[c] \subseteq awaiting[c] /\ awaiting'[c] \cap R = {}
    PROVE  Exclusive'
<1>1. \A n \in 1 .. Len(finalized') :
          \/ n = Len(finalized) + 1 /\ finalized'[n].records = R
          \/ n \in 1 .. Len(finalized) /\ finalized'[n] = finalized[n]
  OBVIOUS
<1>2. \A n \in 1 .. Len(finalized') : finalized'[n].records \cap unread' = {}
  BY <1>1 DEF Exclusive
<1>3. \A v \in Visits, n \in 1 .. Len(finalized') :
          tasks'[v] \cap finalized'[n].records = {}
  BY <1>1 DEF Exclusive
<1>4. \A c \in Conns, n \in 1 .. Len(finalized') :
          awaiting'[c] \cap finalized'[n].records = {}
  BY <1>1 DEF Exclusive
<1>5. NoDoubleFinalization'
  BY <1>1 DEF Exclusive, NoDoubleFinalization
<1>6. /\ \A v \in Visits, c \in Conns : tasks'[v] \cap awaiting'[c] = {}
      /\ \A c, d \in Conns : c # d => awaiting'[c] \cap awaiting'[d] = {}
  BY DEF Exclusive
<1> QED BY <1>2, <1>3, <1>4, <1>5, <1>6 DEF Exclusive

LEMMA StepExclusive == WellFormed /\ HandledOK /\ Exclusive /\ [Next]_vars => Exclusive'
<1> SUFFICES ASSUME WellFormed, HandledOK, Exclusive, [Next]_vars PROVE Exclusive'
  OBVIOUS
<1>0. /\ tasks \in [Visits -> SUBSET Messages]
      /\ awaiting \in [Conns -> SUBSET Messages]
      /\ \A v \in Visits : tasks[v] \cap unread = {}
      /\ \A c \in Conns : awaiting[c] \cap unread = {}
      /\ \A v, w \in Visits : v # w => tasks[v] \cap tasks[w] = {}
      /\ \A c \in Conns : handler[c] # "awaiting" => awaiting[c] = {}
  BY DEF WellFormed, TypeOK, TasksOK, HandledOK, RecordsOf, Handled
<1>1. ASSUME NEW m \in Messages, HandleRecord(m) PROVE Exclusive'
  <2>1. /\ UNCHANGED <<finalized, awaiting>>
        /\ unread' = unread \ {m} /\ m \in unread
        /\ tasks' = [tasks EXCEPT ![m.visit] = @ \cup {m}]
    BY <1>1 DEF HandleRecord, AddTask, Receive, arrowVars
  <2>2. \A v \in Visits : tasks'[v] \subseteq tasks[v] \cup {m}
    BY <1>0, <2>1
  <2>3. /\ \A n \in 1 .. Len(finalized) : m \notin finalized[n].records
        /\ \A c \in Conns : m \notin awaiting[c]
    BY <1>0, <2>1 DEF Exclusive
  <2> QED BY <2>1, <2>2, <2>3 DEF Exclusive, NoDoubleFinalization
<1>2. ASSUME NEW m \in Messages, FinalizeAtOnce(m) PROVE Exclusive'
  <2> DEFINE v == m.visit
             R == tasks[v]
  <2>1. v \in Visits /\ m.success \in BOOLEAN
    BY MessageTypes
  <2>2. R \in SUBSET Messages
    BY <1>0, <2>1
  <2>3. /\ FinalizeVisit(v, m.success, R)
        /\ unread' = unread \ {m} /\ UNCHANGED awaiting
        /\ tasks' = [tasks EXCEPT ![v] = {}]
    BY <1>2 DEF FinalizeAtOnce, PopTasks, Receive
  <2>4. /\ R \cap unread = {}
        /\ \A n \in 1 .. Len(finalized) : R \cap finalized[n].records = {}
        /\ \A w \in Visits : tasks'[w] \subseteq tasks[w] /\ tasks'[w] \cap R = {}
        /\ \A c \in Conns : awaiting'[c] \subseteq awaiting[c] /\ awaiting'[c] \cap R = {}
    BY <1>0, <2>1, <2>3 DEF Exclusive
  <2> HIDE DEF v, R
  <2> QED BY <2>1, <2>2, <2>3, <2>4, FinalizedAppend, ExclusiveFinalization
<1>3. ASSUME NEW m \in Messages, FinalizePop(m) PROVE Exclusive'
  <2> DEFINE c == m.conn
  <2>1. m.visit \in Visits /\ c \in Conns
    BY MessageTypes
  <2>2. /\ UNCHANGED finalized /\ unread' \subseteq unread
        /\ handler[c] = "reading"
        /\ awaiting' = [awaiting EXCEPT ![c] = tasks[m.visit]]
        /\ tasks' = [tasks EXCEPT ![m.visit] = {}]
    BY <1>3 DEF FinalizePop, PopTasks, Receive, arrowVars
  <2>3. /\ \A d \in Conns : awaiting'[d] = IF d = c THEN tasks[m.visit] ELSE awaiting[d]
        /\ \A v \in Visits : tasks'[v] = IF v = m.visit THEN {} ELSE tasks[v]
    BY <1>0, <2>1, <2>2
  <2> HIDE DEF c
  <2> QED BY <1>0, <2>1, <2>2, <2>3 DEF Exclusive, NoDoubleFinalization
<1>4. ASSUME NEW c \in Conns, FinalizeResume(c) PROVE Exclusive'
  <2> DEFINE m == finalizing[c]
             R == awaiting[c]
  <2>1. m \in Messages
    BY <1>4 DEF FinalizeResume, WellFormed, TasksOK
  <2>2. m.visit \in Visits /\ m.success \in BOOLEAN /\ R \in SUBSET Messages
    BY <1>0, <2>1, MessageTypes
  <2>3. /\ FinalizeVisit(m.visit, m.success, R)
        /\ UNCHANGED <<unread, tasks>>
        /\ awaiting' = [awaiting EXCEPT ![c] = {}]
    BY <1>4 DEF FinalizeResume, taskVars
  <2>4. /\ R \cap unread = {}
        /\ \A n \in 1 .. Len(finalized) : R \cap finalized[n].records = {}
        /\ \A w \in Visits : tasks'[w] \subseteq tasks[w] /\ tasks'[w] \cap R = {}
        /\ \A d \in Conns : awaiting'[d] \subseteq awaiting[d] /\ awaiting'[d] \cap R = {}
    BY <1>0, <2>3 DEF Exclusive
  <2> HIDE DEF m, R
  <2> QED BY <2>2, <2>3, <2>4, FinalizedAppend, ExclusiveFinalization
<1>5. ASSUME NEW v \in Visits, ShutdownFinalize(v) PROVE Exclusive'
  <2> DEFINE R == tasks[v]
  <2>1. R \in SUBSET Messages /\ FALSE \in BOOLEAN
    BY <1>0
  <2>2. /\ FinalizeVisit(v, FALSE, R)
        /\ UNCHANGED <<unread, awaiting>>
        /\ tasks' = [tasks EXCEPT ![v] = {}]
    BY <1>5 DEF ShutdownFinalize, PopTasks, handlerVars
  <2>3. /\ R \cap unread = {}
        /\ \A n \in 1 .. Len(finalized) : R \cap finalized[n].records = {}
        /\ \A w \in Visits : tasks'[w] \subseteq tasks[w] /\ tasks'[w] \cap R = {}
        /\ \A d \in Conns : awaiting'[d] \subseteq awaiting[d] /\ awaiting'[d] \cap R = {}
    BY <1>0, <2>2 DEF Exclusive
  <2> HIDE DEF R
  <2> QED BY <2>1, <2>2, <2>3, FinalizedAppend, ExclusiveFinalization
<1>6. ASSUME NEW c \in Conns, FinalizeFails(c) PROVE Exclusive'
  <2>1. UNCHANGED <<finalized, unread, tasks>> /\ awaiting' = [awaiting EXCEPT ![c] = {}]
    BY <1>6 DEF FinalizeFails, arrowVars, taskVars
  <2> QED BY <1>0, <2>1 DEF Exclusive, NoDoubleFinalization
<1>7. CASE UNCHANGED <<finalized, tasks, awaiting>> /\ unread' \subseteq unread
  BY <1>7 DEF Exclusive, NoDoubleFinalization
<1>8. \/ UNCHANGED <<finalized, tasks, awaiting>> /\ unread' \subseteq unread
      \/ \E m \in Messages : HandleRecord(m) \/ FinalizeAtOnce(m) \/ FinalizePop(m)
      \/ \E c \in Conns : FinalizeResume(c) \/ FinalizeFails(c)
      \/ \E v \in Visits : ShutdownFinalize(v)
  BY DEF Next, ClientStep, LoopStep, ShutdownStep, vars, Connect, Disconnect,
       HandleIgnored, HandleFatal, FinalizeNothing, RunTask, BatchTimeout, FlushCache,
       StoreRecord, Receive, FeedCompletionQueue, FeederReturns, RequestShutdown,
       TakeSignal, WaitClosed, AllClosed, ShutdownFails, ShutdownFlush, ShutdownReport,
       handlerVars, taskVars, arrowVars
<1> QED BY <1>1, <1>2, <1>3, <1>4, <1>5, <1>6, <1>7, <1>8

LEMMA InitExclusive == Init => Exclusive
BY DEF Init, ArrowInit, Exclusive, NoDoubleFinalization

(* Handlers and shutdown never finalize the same task twice (issue 1068).  *)
THEOREM TasksFinalizedOnce == Spec => []NoDoubleFinalization
<1>1. Init => Exclusive
  BY InitExclusive
<1>2. WellFormed /\ Durable /\ Exclusive /\ [Next]_vars => Exclusive'
  BY StepExclusive DEF Durable
<1>3. Exclusive => NoDoubleFinalization
  BY DEF Exclusive
<1> QED BY <1>1, <1>2, <1>3, DurableAlways, PTL DEF Spec

-----------------------------------------------------------------------------
(* No record is orphaned *)

(* Someone will still finalize the visit of m, or one of its tasks raised. *)
Owned(m) ==
    \/ m \in tasks[m.visit]
    \/ \E c \in Conns : m \in awaiting[c]
    \/ HasFailedTask(m.visit)

LEMMA FailedGrows == [Next]_vars => failed \subseteq failed'
BY DEF Next, ClientStep, LoopStep, ShutdownStep, vars, Connect, Disconnect, HandleRecord, AddTask,
       HandleIgnored, HandleFatal, FinalizeNothing, FinalizeAtOnce, PopTasks, FinalizePop,
       FinalizeResume, FinalizeFails, RunTask, BatchTimeout, FeedCompletionQueue,
       FeederReturns, RequestShutdown, TakeSignal, WaitClosed, AllClosed, ShutdownFinalize,
       ShutdownFails, ShutdownFlush, ShutdownReport, taskVars

(* A new candidate for being orphaned is a record that has just become a   *)
(* task; the others were waiting in the buffer or as a task before.        *)
LEMMA StepWaiting ==
    ASSUME WellFormed, [Next]_vars, NEW m \in Messages,
           (m \in pending \cup buffer[m.visit])'
    PROVE  m \in pending \cup buffer[m.visit] \/ HandleRecord(m)
<1>0. m.visit \in Visits
  BY MessageTypes
<1>1. CASE m \in pending'
  BY <1>1, StepTasks DEF HandleRecord, AddTask, RunTask
<1>2. CASE m \in buffer'[m.visit] /\ m \notin pending
  <2>0. buffer \in [Visits -> SUBSET Rows]
    BY DEF WellFormed, TypeOK, ArrowTypeOK
  <2>1. CASE UNCHANGED buffer
    BY <1>2, <2>1
  <2>2. ASSUME NEW k \in Messages, RunTask(k) PROVE m \in buffer[m.visit]
    BY <1>0, <1>2, <2>0, <2>2, MessageTypes DEF RunTask, StoreRecord, arrowVars
  <2>3. ASSUME NEW v \in Visits, buffer' = [buffer EXCEPT ![v] = {}]
        PROVE  m \in buffer[m.visit]
    BY <1>0, <1>2, <2>0, <2>3
  <2>4. \/ UNCHANGED buffer
        \/ \E k \in Messages : RunTask(k)
        \/ \E v \in Visits : buffer' = [buffer EXCEPT ![v] = {}]
    <3>1. ASSUME NEW k \in Messages, FinalizeAtOnce(k)
          PROVE  buffer' = [buffer EXCEPT ![k.visit] = {}]
      BY <3>1 DEF FinalizeAtOnce, PopTasks, FinalizeVisit
    <3>2. ASSUME NEW c \in Conns, FinalizeResume(c)
          PROVE  /\ finalizing[c].visit \in Visits
                 /\ buffer' = [buffer EXCEPT ![finalizing[c].visit] = {}]
      <4>1. finalizing[c] \in Messages
        BY <3>2 DEF FinalizeResume, WellFormed, TasksOK
      <4>2. buffer' = [buffer EXCEPT ![finalizing[c].visit] = {}]
        BY <3>2 DEF FinalizeResume, FinalizeVisit
      <4> QED BY <4>1, <4>2, MessageTypes
    <3>3. ASSUME NEW v \in Visits, ShutdownFinalize(v)
          PROVE  buffer' = [buffer EXCEPT ![v] = {}]
      BY <3>3 DEF ShutdownFinalize, PopTasks, FinalizeVisit
    <3>4. \/ UNCHANGED buffer
          \/ \E k \in Messages : RunTask(k) \/ FinalizeAtOnce(k)
          \/ \E c \in Conns : FinalizeResume(c)
          \/ \E v \in Visits : ShutdownFinalize(v)
      BY DEF Next, ClientStep, LoopStep, ShutdownStep, vars, Connect, Disconnect,
           HandleRecord, AddTask, HandleIgnored, HandleFatal, FinalizeNothing, FinalizePop, PopTasks,
           FinalizeFails, BatchTimeout, FlushCache, FeedCompletionQueue, FeederReturns,
           RequestShutdown, TakeSignal, WaitClosed, AllClosed, ShutdownFails, ShutdownFlush,
           ShutdownReport, arrowVars
    <3> QED BY <3>1, <3>2, <3>3, <3>4, MessageTypes
  <2> QED BY <2>1, <2>2, <2>3, <2>4
<1> QED BY <1>1, <1>2

LEMMA StepOrphans == WellFormed /\ NoOrphanedRecord /\ [Next]_vars => NoOrphanedRecord'
<1> SUFFICES ASSUME WellFormed, NoOrphanedRecord, [Next]_vars, NEW m \in Messages,
                    (m \in pending \cup buffer[m.visit])'
             PROVE  Owned(m)'
  BY DEF NoOrphanedRecord, Owned
<1>0. /\ m.visit \in Visits
      /\ tasks \in [Visits -> SUBSET Messages]
      /\ awaiting \in [Conns -> SUBSET Messages]
      /\ buffer \in [Visits -> SUBSET Rows]
  BY MessageTypes DEF WellFormed, TypeOK, ArrowTypeOK
<1>1. CASE HandleRecord(m)
  BY <1>0, <1>1 DEF HandleRecord, AddTask, Owned
<1>2. CASE m \in pending \cup buffer[m.visit]
  <2>1. Owned(m)
    BY <1>2 DEF NoOrphanedRecord, Owned
  <2>2. CASE HasFailedTask(m.visit)
    BY <2>2, FailedGrows DEF HasFailedTask, Owned
  <2>3. ASSUME NEW k \in Messages, HandleRecord(k) \/ FinalizePop(k) PROVE Owned(m)'
    <3>1. CASE HandleRecord(k)
      BY <1>0, <2>1, <3>1, MessageTypes DEF HandleRecord, AddTask, Owned, HasFailedTask
    <3>2. CASE FinalizePop(k)
      <4>1. /\ k.visit \in Visits /\ k.conn \in Conns
            /\ awaiting[k.conn] = {}
            /\ awaiting' = [awaiting EXCEPT ![k.conn] = tasks[k.visit]]
            /\ tasks' = [tasks EXCEPT ![k.visit] = {}]
            /\ UNCHANGED failed
        BY <3>2, MessageTypes DEF FinalizePop, PopTasks, Receive, WellFormed, TasksOK
      <4>2. CASE m \in tasks[m.visit] /\ m.visit = k.visit
        BY <1>0, <4>1, <4>2 DEF Owned
      <4>3. CASE m \in tasks[m.visit] /\ m.visit # k.visit
        BY <1>0, <4>1, <4>3 DEF Owned
      <4>4. CASE \E c \in Conns : m \in awaiting[c]
        BY <1>0, <4>1, <4>4 DEF Owned
      <4> QED BY <2>1, <2>2, <4>2, <4>3, <4>4 DEF Owned
    <3> QED BY <2>3, <3>1, <3>2
  (* The visit whose tasks R are finalized: m is in none of them, or its   *)
  (* visit's buffer is empty now and it is not pending.                    *)
  <2>4. ASSUME NEW k \in Messages, FinalizeAtOnce(k) PROVE Owned(m)'
    <3>1. /\ k.visit \in Visits
          /\ buffer' = [buffer EXCEPT ![k.visit] = {}]
          /\ tasks' = [tasks EXCEPT ![k.visit] = {}]
          /\ tasks[k.visit] \cap pending = {}
          /\ UNCHANGED <<pending, failed, awaiting>>
      BY <2>4, MessageTypes DEF FinalizeAtOnce, PopTasks, FinalizeVisit
    <3> QED BY <1>0, <2>1, <3>1 DEF Owned, HasFailedTask
  <2>5. ASSUME NEW c \in Conns, FinalizeResume(c) PROVE Owned(m)'
    <3> DEFINE v == finalizing[c].visit
    <3>1. /\ v \in Visits
          /\ \A k \in awaiting[c] : k.visit = v
      <4>1. finalizing[c] \in Messages /\ handler[c] = "awaiting"
        BY <2>5 DEF FinalizeResume, WellFormed, TasksOK
      <4> QED BY <4>1, MessageTypes DEF WellFormed, TasksOK
    <3>2. /\ buffer' = [buffer EXCEPT ![v] = {}]
          /\ awaiting' = [awaiting EXCEPT ![c] = {}]
          /\ awaiting[c] \cap pending = {}
          /\ UNCHANGED <<pending, failed, tasks>>
      BY <2>5 DEF FinalizeResume, FinalizeVisit, taskVars
    <3> HIDE DEF v
    <3>3. m \notin awaiting[c]
      BY <1>0, <3>1, <3>2
    <3> QED BY <1>0, <2>1, <3>2, <3>3 DEF Owned, HasFailedTask
  <2>6. ASSUME NEW v \in Visits, ShutdownFinalize(v) PROVE Owned(m)'
    <3>1. /\ buffer' = [buffer EXCEPT ![v] = {}]
          /\ tasks' = [tasks EXCEPT ![v] = {}]
          /\ tasks[v] \cap pending = {}
          /\ UNCHANGED <<pending, failed, awaiting>>
      BY <2>6 DEF ShutdownFinalize, PopTasks, FinalizeVisit, handlerVars
    <3> QED BY <1>0, <2>1, <3>1 DEF Owned, HasFailedTask
  <2>7. ASSUME NEW c \in Conns, FinalizeFails(c) PROVE Owned(m)'
    <3>1. /\ awaiting' = [awaiting EXCEPT ![c] = {}]
          /\ UNCHANGED <<failed, tasks>>
          /\ \E u \in failed : u \in awaiting[c]
      BY <2>7 DEF FinalizeFails, taskVars
    <3>2. \A k \in awaiting[c] : k.visit = finalizing[c].visit
      BY <2>7 DEF FinalizeFails, WellFormed, TasksOK
    <3>3. CASE m \in awaiting[c]
      BY <3>1, <3>2, <3>3 DEF Owned, HasFailedTask
    <3>4. CASE m \notin awaiting[c]
      BY <1>0, <2>1, <3>1, <3>4 DEF Owned, HasFailedTask
    <3> QED BY <3>3, <3>4
  <2>8. CASE UNCHANGED <<tasks, awaiting>>
    BY <2>1, <2>2, <2>8 DEF Owned
  <2>9. \/ UNCHANGED <<tasks, awaiting>>
        \/ \E k \in Messages : HandleRecord(k) \/ FinalizeAtOnce(k) \/ FinalizePop(k)
        \/ \E c \in Conns : FinalizeResume(c) \/ FinalizeFails(c)
        \/ \E v \in Visits : ShutdownFinalize(v)
    BY DEF Next, ClientStep, LoopStep, ShutdownStep, vars, Connect, Disconnect,
         HandleIgnored, HandleFatal, FinalizeNothing, RunTask, BatchTimeout,
         FeedCompletionQueue, FeederReturns, RequestShutdown, TakeSignal, WaitClosed, AllClosed,
         ShutdownFails, ShutdownFlush, ShutdownReport, handlerVars, taskVars
  <2> QED BY <2>3, <2>4, <2>5, <2>6, <2>7, <2>8, <2>9
<1> QED BY <1>1, <1>2, StepWaiting

LEMMA InitOrphans == Init => NoOrphanedRecord
BY MessageTypes DEF Init, ArrowInit, NoOrphanedRecord

(* A record that is not in a batch yet always has someone to finalize it.  *)
THEOREM RecordsKeepAnOwner == Spec => []NoOrphanedRecord
BY InitOrphans, StepOrphans, WellFormedAlways, PTL DEF Spec

-----------------------------------------------------------------------------
(* An orderly shutdown *)

(* After wait_closed no handler is left; shutdown has every remaining visit*)
(* on its list, and after its flush there is neither a task nor a batch.   *)
ShutdownOK ==
    /\ main \in {"finalizing", "waiting", "done"} =>
          \A c \in Conns : handler[c] \in {"none", "closed"}
    /\ main = "finalizing" => \A v \in Visits \ todo : tasks[v] = {}
    /\ main \in {"waiting", "done"} =>
          batches = {} /\ \A v \in Visits : tasks[v] = {}

LEMMA InitShutdownOK == Init => ShutdownOK
BY DEF Init, ShutdownOK

LEMMA StepShutdownOK == WellFormed /\ ShutdownOK /\ [Next]_vars => ShutdownOK'
<1> SUFFICES ASSUME WellFormed, ShutdownOK, [Next]_vars PROVE ShutdownOK'
  OBVIOUS
<1> USE DEF ShutdownOK
<1>0. /\ tasks \in [Visits -> SUBSET Messages]
      /\ handler \in [Conns -> {"none", "reading", "awaiting", "closed"}]
  BY DEF WellFormed, TypeOK
<1>1. ASSUME NEW c \in Conns, Connect(c) PROVE ShutdownOK'
  BY <1>1 DEF Connect, shutdownVars
<1>2. ASSUME NEW c \in Conns, handler[c] \in {"reading", "awaiting"},
             UNCHANGED main
      PROVE  ShutdownOK'
  BY <1>2
<1>3. ASSUME NEW c \in Conns, Disconnect(c) \/ FinalizeResume(c) \/ FinalizeFails(c)
      PROVE  ShutdownOK'
  <2>1. handler[c] \in {"reading", "awaiting"} /\ UNCHANGED main
    BY <1>3 DEF Disconnect, FinalizeResume, FinalizeFails, shutdownVars
  <2> QED BY <1>2, <2>1
<1>4. ASSUME NEW m \in Messages,
             HandleRecord(m) \/ HandleIgnored(m) \/ HandleFatal(m)
               \/ FinalizeNothing(m) \/ FinalizeAtOnce(m) \/ FinalizePop(m)
      PROVE  ShutdownOK'
  <2>1. /\ m.conn \in Conns
        /\ handler[m.conn] \in {"reading", "awaiting"}
        /\ UNCHANGED main
    BY <1>4, MessageTypes
    DEF HandleRecord, AddTask, HandleIgnored, HandleFatal, FinalizeNothing, FinalizeAtOnce, PopTasks,
        FinalizePop, Receive, shutdownVars
  <2> QED BY <1>2, <2>1
<1>5. ASSUME NEW m \in Messages, RunTask(m) PROVE ShutdownOK'
  BY <1>5 DEF RunTask, StoreRecord, arrowVars, handlerVars, shutdownVars
<1>6. ASSUME BatchTimeout PROVE ShutdownOK'
  BY <1>6 DEF BatchTimeout, shutdownVars
<1>7. ASSUME FeedCompletionQueue \/ FeederReturns \/ RequestShutdown PROVE ShutdownOK'
  BY <1>7 DEF FeedCompletionQueue, FeederReturns, RequestShutdown, arrowVars, handlerVars,
              taskVars, shutdownVars
<1>8. ASSUME TakeSignal PROVE ShutdownOK'
  BY <1>8 DEF TakeSignal
<1>9. ASSUME WaitClosed PROVE ShutdownOK'
  BY <1>9 DEF WaitClosed, AllClosed, handlerVars, taskVars
<1>10. ASSUME NEW v \in Visits, ShutdownFinalize(v) PROVE ShutdownOK'
  BY <1>0, <1>10 DEF ShutdownFinalize, PopTasks, handlerVars
<1>11. ASSUME NEW v \in Visits, ShutdownFails(v) PROVE ShutdownOK'
  BY <1>11 DEF ShutdownFails
<1>12. ASSUME ShutdownFlush PROVE ShutdownOK'
  BY <1>12 DEF ShutdownFlush, FlushCache, handlerVars, taskVars
<1>13. ASSUME ShutdownReport PROVE ShutdownOK'
  BY <1>13 DEF ShutdownReport, arrowVars, handlerVars, taskVars
<1>14. CASE UNCHANGED vars
  BY <1>14 DEF vars, arrowVars, handlerVars, taskVars, shutdownVars
<1> QED BY <1>1, <1>3, <1>4, <1>5, <1>6, <1>7, <1>8, <1>9, <1>10, <1>11, <1>12, <1>13, <1>14
        DEF Next, ClientStep, LoopStep, ShutdownStep

LEMMA ShutdownOKAlways == Spec => []ShutdownOK
BY InitShutdownOK, StepShutdownOK, WellFormedAlways, PTL DEF Spec

(* An orderly shutdown leaves no record behind: every record a handler read*)
(* is on disk or was refused, except for visits with a task that raised.   *)
THEOREM ShutdownSavesAll == Spec => []CleanShutdownSavesAll
<1>1. WellFormed /\ Durable /\ NoOrphanedRecord /\ ShutdownOK => CleanShutdownSavesAll
  <2> SUFFICES ASSUME WellFormed, Durable, NoOrphanedRecord, ShutdownOK, main = "done",
                      NEW m \in RecordsOf(Handled)
               PROVE  m \in Settled \/ HasFailedTask(m.visit)
    BY DEF CleanShutdownSavesAll
  <2>1. m \in Messages /\ m.visit \in Visits /\ Reached(m)
    BY MessageTypes DEF RecordsOf, Handled, Durable, HandledOK
  <2>2. Batched = {} /\ tasks[m.visit] = {}
    BY <2>1 DEF ShutdownOK, Batched, RowsOf
  <2>3. \A c \in Conns : awaiting[c] = {}
    BY DEF ShutdownOK, WellFormed, TasksOK
  <2>4. CASE m \in pending \cup buffer[m.visit]
    BY <2>1, <2>2, <2>3, <2>4 DEF NoOrphanedRecord
  <2>5. CASE m \in failed
    BY <2>5 DEF HasFailedTask
  <2>6. CASE m \in Settled
    BY <2>6
  <2> QED BY <2>1, <2>2, <2>4, <2>5, <2>6 DEF Reached
<1> QED BY <1>1, DurableAlways, RecordsKeepAnOwner, ShutdownOKAlways, PTL

-----------------------------------------------------------------------------
(* What is reported is on disk *)

(* An interrupted finalisation has its visit marked as incomplete.         *)
MarkersOK ==
    \A n \in 1 .. Len(finalized) : ~ finalized[n].success =>
        /\ Marker(finalized[n].visit) \in Batched \cup saved
        /\ TokenDone(n) => Marker(finalized[n].visit) \in saved

(* The token of an entry is that of a finalisation of the entry's visit.   *)
GoodEntry(e) ==
    e.token # None =>
        /\ e.token \in 1 .. Len(finalized)
        /\ finalized[e.token].visit = e.visit
        /\ finalized[e.token].success = e.success

EntriesOK ==
    /\ \A e \in finalizeTasks \cup shutdownTokens \cup Reported : GoodEntry(e)
    /\ \A e \in Reported : e.token # None => TokenDone(e.token)

LEMMA SameMarkers ==
    ASSUME MarkersOK, StorageMovesOn, UNCHANGED finalized
    PROVE  MarkersOK'
BY DEF MarkersOK, TokenDone, StorageMovesOn, Marker

LEMMA NewMarkers ==
    ASSUME WellFormed, MarkersOK, StorageMovesOn,
           NEW v \in Visits, NEW success \in BOOLEAN, NEW R \in SUBSET Messages,
           FinalizeVisit(v, success, R)
    PROVE  MarkersOK'
<1> DEFINE f == [visit |-> v, success |-> success, records |-> R]
<1>0. ArrowTypeOK /\ BufferOK /\ RowsOf({}) = {} /\ Len(finalized) \in Nat
      /\ finalized \in Seq(Finalization) /\ f \in Finalization
  BY DEF WellFormed, TypeOK, ArrowTypeOK, RowsOf, Finalization
<1>1. /\ finalized' = Append(finalized, f)
      /\ ~ success => Marker(v) \in Batched' \cup saved'
      /\ \/ flushEvents' = {} /\ batches' = {}
         \/ flushEvents' = flushEvents \cup {Len(finalized) + 1}
  BY <1>0, FinalizeVisitStep
<1>2. Len(finalized') = Len(finalized) + 1 /\ finalized'[Len(finalized) + 1] = f
  BY <1>0, <1>1
<1>3. Batched' = {} \/ flushEvents' = flushEvents \cup {Len(finalized) + 1}
  BY <1>0, <1>1 DEF Batched
<1> SUFFICES ASSUME NEW n \in 1 .. Len(finalized'), ~ finalized'[n].success
             PROVE  /\ Marker(finalized'[n].visit) \in Batched' \cup saved'
                    /\ n \notin flushEvents' => Marker(finalized'[n].visit) \in saved'
  BY DEF MarkersOK, TokenDone, Marker
<1>4. CASE n = Len(finalized) + 1
  BY <1>1, <1>2, <1>3, <1>4
<1>5. CASE n \in 1 .. Len(finalized)
  BY <1>3, <1>5 DEF MarkersOK, TokenDone, StorageMovesOn
<1> QED BY <1>0, <1>2, <1>4, <1>5

(* Putting entries reports these and no others.                            *)
LEMMA PutReports ==
    ASSUME TypeOK, NEW E \in SUBSET Entry, Put(E)
    PROVE  Reported' = Reported \cup E
<1>1. completion \in Seq(SUBSET Entry) /\ Len(completion) \in Nat
  BY DEF TypeOK
<1>2. CASE E = {}
  BY <1>2 DEF Put, Reported
<1>3. CASE E # {}
  <2>1. completion' = Append(completion, E)
    BY <1>3 DEF Put
  <2>2. /\ Len(completion') = Len(completion) + 1
        /\ completion'[Len(completion) + 1] = E
        /\ \A i \in 1 .. Len(completion) : completion'[i] = completion[i]
    BY <1>1, <2>1
  <2>3. ASSUME NEW e \in Reported' PROVE e \in Reported \cup E
    <3>1. PICK i \in 1 .. Len(completion') : e \in completion'[i]
      BY DEF Reported
    <3>2. CASE i = Len(completion) + 1
      BY <2>2, <3>1, <3>2
    <3>3. CASE i \in 1 .. Len(completion)
      BY <2>2, <3>1, <3>3 DEF Reported
    <3> QED BY <1>1, <2>2, <3>2, <3>3
  <2>4. E \subseteq Reported'
    <3>1. Len(completion) + 1 \in 1 .. Len(completion')
      BY <1>1, <2>2
    <3> QED BY <2>2, <3>1 DEF Reported
  <2>5. ASSUME NEW e \in Reported PROVE e \in Reported'
    <3>1. PICK i \in 1 .. Len(completion) : e \in completion[i]
      BY DEF Reported
    <3>2. i \in 1 .. Len(completion')
      BY <1>1, <2>2
    <3> QED BY <2>2, <3>1, <3>2 DEF Reported
  <2> QED BY <2>3, <2>4, <2>5
<1> QED BY <1>2, <1>3

(* Entries keep referring to the same finalisation, and a token that is    *)
(* done stays done.                                                        *)
LEMMA EntriesStayGood ==
    ASSUME WellFormed, [Next]_vars, NEW e \in Entry, GoodEntry(e)
    PROVE  /\ GoodEntry(e)'
           /\ e.token # None /\ TokenDone(e.token) => TokenDone(e.token)'
<1>1. StorageMovesOn /\ finalized \in Seq(Finalization) /\ Len(finalized) \in Nat
  BY StepMovesOn DEF WellFormed, TypeOK, ArrowTypeOK
<1>2. Len(finalized') \in Nat
  BY StepWellFormed DEF WellFormed, TypeOK, ArrowTypeOK
<1>3. GoodEntry(e)'
  BY <1>1, <1>2 DEF GoodEntry, StorageMovesOn, Entry
<1>4. flushEvents' \subseteq flushEvents \cup {Len(finalized) + 1}
  <2>1. CASE UNCHANGED flushEvents
    BY <2>1
  <2>2. CASE flushEvents' = {}
    BY <2>2
  <2>3. ASSUME NEW v \in Visits, NEW success \in BOOLEAN, NEW R \in SUBSET Messages,
               FinalizeVisit(v, success, R)
        PROVE  flushEvents' \subseteq flushEvents \cup {Len(finalized) + 1}
    BY <2>3, FinalizeVisitStep DEF WellFormed, TypeOK
  <2>4. ArrowEffect
    BY StepArrowEffect
  <2> QED BY <2>1, <2>2, <2>3, <2>4 DEF ArrowEffect, arrowVars, StoreRecord, FlushCache
<1>5. e.token # None /\ TokenDone(e.token) => TokenDone(e.token)'
  BY <1>1, <1>4 DEF GoodEntry, TokenDone
<1> QED BY <1>3, <1>5

LEMMA StepMarkers == WellFormed /\ MarkersOK /\ [Next]_vars => MarkersOK'
<1> SUFFICES ASSUME WellFormed, MarkersOK, ArrowEffect, StorageMovesOn PROVE MarkersOK'
  BY StepArrowEffect, StepMovesOn
<1>1. CASE UNCHANGED finalized
  BY <1>1, SameMarkers
<1>2. ASSUME NEW v \in Visits, NEW success \in BOOLEAN, NEW R \in SUBSET Messages,
             FinalizeVisit(v, success, R)
      PROVE  MarkersOK'
  BY <1>2, NewMarkers
<1> QED BY <1>1, <1>2 DEF ArrowEffect, arrowVars, StoreRecord, FlushCache

(* The entry made in the same step as finalisation Len(finalized) + 1.     *)
LEMMA NewEntryGood ==
    ASSUME WellFormed, NEW v \in Visits, NEW success \in BOOLEAN,
           NEW R \in SUBSET Messages, FinalizeVisit(v, success, R),
           NEW e, e.token = Len(finalized) + 1, e.visit = v, e.success = success
    PROVE  GoodEntry(e)'
<1> DEFINE f == [visit |-> v, success |-> success, records |-> R]
<1>1. finalized \in Seq(Finalization) /\ Len(finalized) \in Nat /\ f \in Finalization
  BY DEF WellFormed, TypeOK, ArrowTypeOK, Finalization
<1>2. finalized' = Append(finalized, f)
  BY DEF FinalizeVisit
<1>3. Len(finalized') = Len(finalized) + 1 /\ finalized'[Len(finalized) + 1] = f
  BY <1>1, <1>2
<1> QED BY <1>1, <1>3 DEF GoodEntry

LEMMA StepEntries == WellFormed /\ EntriesOK /\ [Next]_vars => EntriesOK'
<1> SUFFICES ASSUME WellFormed, EntriesOK, [Next]_vars PROVE EntriesOK'
  OBVIOUS
<1>0. /\ TypeOK
      /\ finalizeTasks \subseteq Entry /\ shutdownTokens \subseteq Entry
      /\ Reported \subseteq Entry
      /\ None = 0
  <2>1. TypeOK /\ completion \in Seq(SUBSET Entry)
    BY DEF WellFormed, TypeOK
  <2>2. Reported \subseteq Entry
    BY <2>1 DEF Reported
  <2> QED BY <2>1, <2>2 DEF TypeOK, None
<1>1. /\ \A e \in finalizeTasks \cup shutdownTokens \cup Reported : GoodEntry(e)'
      /\ \A e \in finalizeTasks \cup shutdownTokens \cup Reported :
            e.token # None /\ TokenDone(e.token) => TokenDone(e.token)'
  BY <1>0, EntriesStayGood DEF EntriesOK
(* It is enough to look at the entries that are new in one of the sets.    *)
<1>2. SUFFICES /\ \A e \in finalizeTasks' \cup shutdownTokens' :
                     e \in finalizeTasks \cup shutdownTokens \/ GoodEntry(e)'
               /\ \A e \in Reported' :
                     \/ e \in Reported
                     \/ /\ e \in finalizeTasks \cup shutdownTokens
                        /\ e.token = None \/ TokenDone(e.token)
  BY <1>1 DEF EntriesOK
<1>3. ASSUME NEW m \in Messages, FinalizeNothing(m) PROVE <1>2!1
  <2>1. UNCHANGED <<shutdownTokens, Reported>>
    BY <1>3 DEF FinalizeNothing, AppendEntry, shutdownVars, Reported
  <2> PICK e : e = [seq |-> nEntries + 1, visit |-> m.visit, success |-> m.success,
                    token |-> None]
    OBVIOUS
  <2>2. finalizeTasks' = finalizeTasks \cup {e}
    BY <1>3 DEF FinalizeNothing, AppendEntry
  <2>3. GoodEntry(e)'
    BY DEF GoodEntry
  <2> QED BY <2>1, <2>2, <2>3
<1>4. ASSUME NEW m \in Messages, FinalizeAtOnce(m) PROVE <1>2!1
  <2>1. UNCHANGED <<shutdownTokens, Reported>>
    BY <1>4 DEF FinalizeAtOnce, PopTasks, AppendEntry, shutdownVars, Reported
  <2> PICK e : e = [seq |-> nEntries + 1, visit |-> m.visit, success |-> m.success,
                    token |-> Len(finalized) + 1]
    OBVIOUS
  <2>2. finalizeTasks' = finalizeTasks \cup {e}
    BY <1>4 DEF FinalizeAtOnce, PopTasks, AppendEntry
  <2>3. GoodEntry(e)'
    <3>1. /\ m.visit \in Visits /\ m.success \in BOOLEAN
          /\ tasks[m.visit] \in SUBSET Messages
      BY <1>0, MessageTypes DEF TypeOK
    <3>2. FinalizeVisit(m.visit, m.success, tasks[m.visit])
      BY <1>4 DEF FinalizeAtOnce, PopTasks
    <3>3. e.token = Len(finalized) + 1 /\ e.visit = m.visit /\ e.success = m.success
      OBVIOUS
    <3> QED BY <3>1, <3>2, <3>3, NewEntryGood
  <2> QED BY <2>1, <2>2, <2>3
<1>5. ASSUME NEW c \in Conns, FinalizeResume(c) PROVE <1>2!1
  <2> PICK m : m = finalizing[c]
    OBVIOUS
  <2> PICK e : e = [seq |-> nEntries + 1, visit |-> m.visit, success |-> m.success,
                    token |-> Len(finalized) + 1]
    OBVIOUS
  <2>1. UNCHANGED <<shutdownTokens, Reported>>
    BY <1>5 DEF FinalizeResume, AppendEntry, shutdownVars, Reported
  <2>2. finalizeTasks' = finalizeTasks \cup {e}
    BY <1>5 DEF FinalizeResume, AppendEntry
  <2>3. GoodEntry(e)'
    <3>1. m \in Messages /\ awaiting[c] \in SUBSET Messages
      BY <1>0, <1>5 DEF FinalizeResume, WellFormed, TypeOK, TasksOK
    <3>2. m.visit \in Visits /\ m.success \in BOOLEAN
      BY <3>1, MessageTypes
    <3>3. FinalizeVisit(m.visit, m.success, awaiting[c])
      BY <1>5 DEF FinalizeResume
    <3>4. e.token = Len(finalized) + 1 /\ e.visit = m.visit /\ e.success = m.success
      OBVIOUS
    <3> QED BY <3>1, <3>2, <3>3, <3>4, NewEntryGood
  <2> QED BY <2>1, <2>2, <2>3
<1>6. ASSUME NEW v \in Visits, ShutdownFinalize(v) PROVE <1>2!1
  <2> PICK e : e = [seq |-> nEntries + 1, visit |-> v, success |-> FALSE,
                    token |-> Len(finalized) + 1]
    OBVIOUS
  <2>1. UNCHANGED <<finalizeTasks, Reported>> /\ shutdownTokens' = shutdownTokens \cup {e}
    BY <1>6 DEF ShutdownFinalize, PopTasks, Reported
  <2>2. GoodEntry(e)'
    <3>1. tasks[v] \in SUBSET Messages /\ FALSE \in BOOLEAN
      BY <1>0 DEF TypeOK
    <3>2. FinalizeVisit(v, FALSE, tasks[v])
      BY <1>6 DEF ShutdownFinalize, PopTasks
    <3>3. e.token = Len(finalized) + 1 /\ e.visit = v /\ e.success = FALSE
      OBVIOUS
    <3> QED BY <3>1, <3>2, <3>3, NewEntryGood
  <2> QED BY <2>1, <2>2
<1>7. ASSUME FeedCompletionQueue PROVE <1>2!1
  <2>1. Finished \in SUBSET Entry
    BY <1>0 DEF Finished
  <2>2. Reported' = Reported \cup Finished
    BY <1>0, <1>7, <2>1, PutReports DEF FeedCompletionQueue
  <2> QED BY <1>7, <2>2 DEF FeedCompletionQueue, Finished, shutdownVars
<1>8. ASSUME ShutdownReport PROVE <1>2!1
  <2>1. Reported' = Reported \cup shutdownTokens
    BY <1>0, <1>8, PutReports DEF ShutdownReport
  <2> QED BY <1>8, <2>1 DEF ShutdownReport
<1>9. CASE UNCHANGED <<finalizeTasks, shutdownTokens, completion>>
  BY <1>9 DEF Reported
<1>10. \/ UNCHANGED <<finalizeTasks, shutdownTokens, completion>>
       \/ \E m \in Messages : FinalizeNothing(m) \/ FinalizeAtOnce(m)
       \/ \E c \in Conns : FinalizeResume(c)
       \/ \E v \in Visits : ShutdownFinalize(v)
       \/ FeedCompletionQueue
       \/ ShutdownReport
  BY DEF Next, ClientStep, LoopStep, ShutdownStep, vars, Connect, Disconnect,
       HandleRecord, AddTask, HandleIgnored, HandleFatal, FinalizePop, PopTasks, FinalizeFails, RunTask,
       BatchTimeout, FeederReturns, RequestShutdown, TakeSignal, WaitClosed, AllClosed,
       ShutdownFails, ShutdownFlush, queueVars, shutdownVars
<1> QED BY <1>3, <1>4, <1>5, <1>6, <1>7, <1>8, <1>9, <1>10

LEMMA InitReports == Init => MarkersOK /\ EntriesOK
BY DEF Init, ArrowInit, MarkersOK, EntriesOK, Reported

(* A visit reported with a token has the records of that finalisation on   *)
(* disk and, if reported as unsuccessful, is marked as incomplete.         *)
THEOREM ReportsAreHonest == Spec => []ReportImpliesSaved
<1>1. WellFormed /\ Durable /\ MarkersOK /\ EntriesOK => ReportImpliesSaved
  BY DEF Durable, FinalizedOK, MarkersOK, EntriesOK, GoodEntry, ReportImpliesSaved
<1>2. Init => MarkersOK /\ EntriesOK
  BY InitReports
<1>3. WellFormed /\ MarkersOK /\ EntriesOK /\ [Next]_vars => MarkersOK' /\ EntriesOK'
  BY StepMarkers, StepEntries
<1> QED BY <1>1, <1>2, <1>3, DurableAlways, PTL DEF Spec

-----------------------------------------------------------------------------
(* Refinement *)

(* A finalisation stands for records a handler has read.                   *)
PromisesOK ==
    \A n \in 1 .. Len(finalized) : finalized[n].records \subseteq RecordsOf(Handled)

LEMMA HandledGrows == [Next]_vars => RecordsOf(Handled) \subseteq RecordsOf(Handled)'
BY StepUnread DEF RecordsOf, Handled, HandleRecord, AddTask, Receive

(* The steps that finalize: which visit, and which tasks.                  *)
LEMMA StepFinalizes ==
    ASSUME WellFormed, [Next]_vars
    PROVE  \/ UNCHANGED finalized
           \/ /\ UNCHANGED <<RecordsOf(Handled), completion>>
              /\ \E v \in Visits, success \in BOOLEAN, R \in SUBSET Messages :
                    /\ FinalizeVisit(v, success, R)
                    /\ \/ R = tasks[v]
                       \/ \E c \in Conns : R = awaiting[c]
<1>1. ASSUME NEW m \in Messages, FinalizeAtOnce(m)
      PROVE  /\ UNCHANGED <<RecordsOf(Handled), completion>>
             /\ m.visit \in Visits /\ m.success \in BOOLEAN
             /\ tasks[m.visit] \in SUBSET Messages
             /\ FinalizeVisit(m.visit, m.success, tasks[m.visit])
  <2>1. m.visit \in Visits /\ m.success \in BOOLEAN /\ tasks[m.visit] \in SUBSET Messages
    BY MessageTypes DEF WellFormed, TypeOK
  <2>2. UNCHANGED <<RecordsOf(Handled), completion>>
    BY <1>1 DEF FinalizeAtOnce, PopTasks, Receive, AppendEntry, RecordsOf, Handled
  <2> QED BY <1>1, <2>1, <2>2 DEF FinalizeAtOnce, PopTasks
<1>2. ASSUME NEW c \in Conns, FinalizeResume(c)
      PROVE  /\ UNCHANGED <<RecordsOf(Handled), completion>>
             /\ \E v \in Visits, success \in BOOLEAN :
                   FinalizeVisit(v, success, awaiting[c])
             /\ awaiting[c] \in SUBSET Messages
  <2>1. finalizing[c] \in Messages /\ awaiting[c] \in SUBSET Messages
    BY <1>2 DEF FinalizeResume, WellFormed, TypeOK, TasksOK
  <2>2. finalizing[c].visit \in Visits /\ finalizing[c].success \in BOOLEAN
    BY <2>1, MessageTypes
  <2>3. FinalizeVisit(finalizing[c].visit, finalizing[c].success, awaiting[c])
    BY <1>2 DEF FinalizeResume
  <2>4. UNCHANGED <<RecordsOf(Handled), completion>>
    BY <1>2 DEF FinalizeResume, AppendEntry, RecordsOf, Handled
  <2> QED BY <2>1, <2>2, <2>3, <2>4
<1>3. ASSUME NEW v \in Visits, ShutdownFinalize(v)
      PROVE  /\ UNCHANGED <<RecordsOf(Handled), completion>>
             /\ FALSE \in BOOLEAN /\ tasks[v] \in SUBSET Messages
             /\ FinalizeVisit(v, FALSE, tasks[v])
  <2>1. tasks[v] \in SUBSET Messages
    BY DEF WellFormed, TypeOK
  <2> QED BY <1>3, <2>1 DEF ShutdownFinalize, PopTasks, handlerVars, RecordsOf, Handled
<1>4. \/ UNCHANGED finalized
      \/ \E m \in Messages : FinalizeAtOnce(m)
      \/ \E c \in Conns : FinalizeResume(c)
      \/ \E v \in Visits : ShutdownFinalize(v)
  BY DEF Next, ClientStep, LoopStep, ShutdownStep, vars, Connect, Disconnect, HandleRecord, AddTask,
       HandleIgnored, HandleFatal, FinalizeNothing, FinalizePop, PopTasks, FinalizeFails, RunTask,
       StoreRecord, BatchTimeout, FlushCache, FeedCompletionQueue, FeederReturns,
       RequestShutdown, TakeSignal, WaitClosed, AllClosed, ShutdownFails, ShutdownFlush,
       ShutdownReport, arrowVars
<1> QED BY <1>1, <1>2, <1>3, <1>4

LEMMA StepPromises == WellFormed /\ Durable /\ PromisesOK /\ [Next]_vars => PromisesOK'
<1> SUFFICES ASSUME WellFormed, Durable, PromisesOK, [Next]_vars PROVE PromisesOK'
  OBVIOUS
<1>1. RecordsOf(Handled) \subseteq RecordsOf(Handled)'
  BY HandledGrows
<1>2. CASE UNCHANGED finalized
  BY <1>1, <1>2 DEF PromisesOK
<1>3. ASSUME NEW v \in Visits, NEW success \in BOOLEAN, NEW R \in SUBSET Messages,
             FinalizeVisit(v, success, R),
             R = tasks[v] \/ \E c \in Conns : R = awaiting[c]
      PROVE  PromisesOK'
  <2>1. R \subseteq RecordsOf(Handled)
    BY <1>3 DEF Durable, HandledOK
  <2>2. /\ Len(finalized) \in Nat
        /\ Len(finalized') = Len(finalized) + 1
        /\ finalized'[Len(finalized) + 1].records = R
        /\ \A n \in 1 .. Len(finalized) : finalized'[n] = finalized[n]
    BY <1>3, FinalizedAppend
  <2>3. \A n \in 1 .. Len(finalized') : n = Len(finalized) + 1 \/ n \in 1 .. Len(finalized)
    BY <2>2
  <2> QED BY <1>1, <2>1, <2>2, <2>3 DEF PromisesOK
<1> QED BY <1>2, <1>3, StepFinalizes

(* The steps that put entries, and the entries they put.                   *)
LEMMA StepReports ==
    ASSUME WellFormed, [Next]_vars
    PROVE  \/ UNCHANGED Reported
           \/ /\ UNCHANGED <<arrowVars, handlerVars>>
              /\ Reported \subseteq Reported'
<1>1. ASSUME NEW E \in SUBSET Entry, Put(E) PROVE Reported \subseteq Reported'
  BY <1>1, PutReports DEF WellFormed
<1>2. CASE FeedCompletionQueue
  <2>1. Finished \in SUBSET Entry
    BY DEF Finished, WellFormed, TypeOK
  <2> QED BY <1>1, <1>2, <2>1 DEF FeedCompletionQueue
<1>3. CASE ShutdownReport
  BY <1>1, <1>3 DEF ShutdownReport, WellFormed, TypeOK
<1>4. CASE UNCHANGED completion
  BY <1>4 DEF Reported
<1>5. UNCHANGED completion \/ FeedCompletionQueue \/ ShutdownReport
  BY DEF Next, ClientStep, LoopStep, ShutdownStep, vars, Connect, Disconnect, HandleRecord, AddTask,
       HandleIgnored, HandleFatal, FinalizeNothing, FinalizeAtOnce, PopTasks, FinalizePop,
       FinalizeResume, FinalizeFails, AppendEntry, RunTask, BatchTimeout, FeederReturns,
       RequestShutdown, TakeSignal, WaitClosed, AllClosed, ShutdownFinalize, ShutdownFails,
       ShutdownFlush, queueVars
<1> QED BY <1>2, <1>3, <1>4, <1>5

(* Every step of the controller is a step of the abstract specification.   *)
LEMMA StepRefines ==
    ASSUME WellFormed, Durable, Exclusive, PromisesOK, EntriesOK, [Next]_vars
    PROVE  [Completion!Next]_(Completion!vars)
<1>0. /\ StorageMovesOn /\ WellFormed' /\ FinalizedOK' /\ EntriesOK'
      /\ RecordsOf(Handled) \subseteq RecordsOf(Handled)'
  BY StepMovesOn, StepWellFormed, StepFinalizedOK, StepEntries, HandledGrows
<1>1. Completion!Settle
  BY <1>0 DEF Completion!Settle, StorageMovesOn
<1>2. CASE ~ UNCHANGED finalized
  <2>1. UNCHANGED <<RecordsOf(Handled), completion>>
    BY <1>2, StepFinalizes
  <2>2. PICK v \in Visits, success \in BOOLEAN, R \in SUBSET Messages :
            /\ FinalizeVisit(v, success, R)
            /\ R = tasks[v] \/ \E c \in Conns : R = awaiting[c]
    BY <1>2, StepFinalizes
  <2>3. R \subseteq RecordsOf(Handled)
    BY <2>2 DEF Durable, HandledOK
  <2>4. \A n \in 1 .. Len(finalized) : finalized[n].records \cap R = {}
    BY <2>2 DEF Exclusive
  <2>5. finalized' = Append(finalized, [visit |-> v, success |-> success, records |-> R])
    BY <2>2 DEF FinalizeVisit
  <2>6. Completion!Promise(v, R)
    BY <1>1, <2>1, <2>3, <2>4, <2>5 DEF Completion!Promise, Reported
  <2> QED BY <2>6 DEF Completion!Next
<1>3. CASE UNCHANGED finalized /\ ~ UNCHANGED Reported
  <2>1. UNCHANGED <<arrowVars, handlerVars>> /\ Reported \subseteq Reported'
    BY <1>3, StepReports
  <2>2. UNCHANGED <<RecordsOf(Handled), saved, rejected, finalized>>
    BY <2>1 DEF arrowVars, handlerVars, RecordsOf, Handled
  <2> DEFINE R1 == {e.token : e \in Reported} \ {None}
             R2 == {e.token : e \in Reported'} \ {None}
  <2>3. R1 \subseteq R2
    BY <2>1
  <2>4. ASSUME NEW n \in R2
        PROVE  /\ n \in 1 .. Len(finalized)
               /\ finalized[n].records \subseteq RecordsOf(Handled) \cap Settled
    <3>1. PICK e \in Reported' : e.token = n /\ e.token # None
      OBVIOUS
    <3>2. n \in 1 .. Len(finalized') /\ n \notin flushEvents'
      BY <1>0, <3>1 DEF EntriesOK, GoodEntry, TokenDone, None
    <3>3. finalized'[n].records \subseteq Settled'
      BY <1>0, <3>2 DEF FinalizedOK, TokenDone
    <3> QED BY <2>2, <3>2, <3>3 DEF PromisesOK, Settled
  <2>5. Completion!Report
    BY <2>2, <2>3, <2>4 DEF Completion!Report, Settled
  <2> QED BY <2>5 DEF Completion!Next
<1>4. CASE UNCHANGED <<finalized, Reported>> /\ ~ UNCHANGED RecordsOf(Handled)
  <2>1. PICK m \in Messages : HandleRecord(m)
    BY <1>4, StepUnread DEF RecordsOf, Handled
  <2>2. m \in RecordsOf(Messages) /\ m \notin RecordsOf(Handled)
        /\ RecordsOf(Handled)' = RecordsOf(Handled) \cup {m}
    BY <2>1 DEF HandleRecord, AddTask, Receive, RecordsOf, Handled
  <2>3. Completion!Accept(m)
    BY <1>1, <1>4, <2>2 DEF Completion!Accept
  <2> QED BY <2>3 DEF Completion!Next
<1>5. CASE UNCHANGED <<finalized, Reported, RecordsOf(Handled)>>
  BY <1>1, <1>5 DEF Completion!Next
<1> QED BY <1>2, <1>3, <1>4, <1>5

(* The controller and its provider implement VisitCompletion: no record is *)
(* promised twice and nothing is reported before its records are settled.  *)
THEOREM Refinement == Spec => ImplementsVisitCompletion
<1>1. Init => Completion!Init
  BY DEF Init, ArrowInit, Completion!Init, RecordsOf, Handled, Reported, Settled
<1>2. Init => PromisesOK
  BY DEF Init, ArrowInit, PromisesOK
<1>3. Init => WellFormed /\ Durable /\ Exclusive /\ EntriesOK
  BY InitWellFormed, InitDurable, InitExclusive, InitReports
<1> DEFINE IInv == WellFormed /\ Durable /\ Exclusive /\ PromisesOK /\ EntriesOK
<1>4. IInv /\ [Next]_vars => IInv'
  <2> SUFFICES ASSUME IInv, [Next]_vars PROVE IInv'
    OBVIOUS
  <2>1. WellFormed' /\ FinalizedOK' /\ HandledOK' /\ PromisesOK' /\ EntriesOK' /\ Exclusive'
    BY StepWellFormed, StepFinalizedOK, StepHandledOK, StepPromises, StepEntries,
       StepExclusive DEF Durable
  <2> QED BY <2>1 DEF Durable
<1>5. IInv /\ [Next]_vars => [Completion!Next]_(Completion!vars)
  BY StepRefines
<1> HIDE DEF IInv
<1>6. Init => IInv
  BY <1>2, <1>3 DEF IInv
<1> QED BY <1>1, <1>4, <1>5, <1>6, PTL DEF Spec, ImplementsVisitCompletion, Completion!Spec

=============================================================================
