------------------------- MODULE StorageController -------------------------
(***************************************************************************)
(* The StorageController process (openwpm/storage/storage_controller.py)   *)
(* on top of the ArrowProvider.  One action is one coroutine segment: what *)
(* the asyncio loop runs between two suspensions.                          *)
(*                                                                         *)
(* A message leaves `unread` when the handler of its connection reads it;  *)
(* what is in a socket or not yet sent is not told apart, because a        *)
(* connection is FIFO and its client decides the order.                    *)
(***************************************************************************)
EXTENDS ArrowProvider

VARIABLES unread,          \* messages no handler has read yet
          handler,         \* state of the handler coroutine of a connection
          finalizing,      \* the finalize message a handler is working on
          awaiting,        \* the store_record tasks it popped and waits for
          tasks,           \* store_record_tasks: visit |-> its tasks
          pending,         \* store_record tasks that have not run yet
          failed,          \* store_record tasks that ended in an exception
          finalizeTasks,   \* finalize_tasks
          nEntries,        \* number of entries ever made for finalize_tasks
          completion,      \* history of completion_queue, one set per put loop
          feeder,          \* update_completion_queue: "running" or "returned"
          lastReceived,    \* _last_record_received is not None
          requested,       \* shutdown_queue holds a signal
          main,            \* where _run is
          todo,            \* visits shutdown() has still to finalize
          shutdownTokens   \* completion_tokens of shutdown()

handlerVars  == <<unread, handler, finalizing, awaiting>>
taskVars     == <<tasks, pending, failed>>
queueVars    == <<finalizeTasks, nEntries, completion, feeder>>
shutdownVars == <<requested, main, todo, shutdownTokens>>
vars == <<arrowVars, handlerVars, taskVars, queueVars, lastReceived, shutdownVars>>

None == 0   \* the completion token of a visit with nothing to save

NoMessage == [id |-> 0, conn |-> "none", kind |-> "none", visit |-> "none",
              table |-> "none", success |-> FALSE]

(* An entry of finalize_tasks or of completion_queue; seq is its place in  *)
(* the order of appending, token is dropped when the entry is put.         *)
Entry == [seq : Nat, visit : Visits, success : BOOLEAN, token : Nat]

MainStates == {"serving", "draining", "finalizing", "waiting", "done", "crashed"}

TypeOK ==
    /\ ArrowTypeOK
    /\ unread \subseteq Messages
    /\ handler \in [Conns -> {"none", "reading", "awaiting", "closed"}]
    /\ finalizing \in [Conns -> Messages \cup {NoMessage}]
    /\ awaiting \in [Conns -> SUBSET Messages]
    /\ tasks \in [Visits -> SUBSET Messages]
    /\ pending \subseteq Messages
    /\ failed \subseteq Messages
    /\ finalizeTasks \subseteq Entry
    /\ nEntries \in Nat
    /\ completion \in Seq(SUBSET Entry)
    /\ feeder \in {"running", "returned"}
    /\ lastReceived \in BOOLEAN
    /\ requested \in BOOLEAN
    /\ main \in MainStates
    /\ todo \subseteq Visits
    /\ shutdownTokens \subseteq Entry

Init ==
    /\ ArrowInit
    /\ unread = Messages
    /\ handler = [c \in Conns |-> "none"]
    /\ finalizing = [c \in Conns |-> NoMessage]
    /\ awaiting = [c \in Conns |-> {}]
    /\ tasks = [v \in Visits |-> {}]
    /\ pending = {}
    /\ failed = {}
    /\ finalizeTasks = {}
    /\ nEntries = 0
    /\ completion = <<>>
    /\ feeder = "running"
    /\ lastReceived = FALSE
    /\ requested = FALSE
    /\ main = "serving"
    /\ todo = {}
    /\ shutdownTokens = {}

Alive == main \notin {"done", "crashed"}
ShutdownFlag == main # "serving"

-----------------------------------------------------------------------------
(* Connections *)

(* The server accepts a connection; close() in _run stops it.              *)
Connect(c) ==
    /\ main = "serving"
    /\ handler[c] = "none"
    /\ handler' = [handler EXCEPT ![c] = "reading"]
    /\ UNCHANGED <<arrowVars, unread, finalizing, awaiting, taskVars, queueVars,
                   lastReceived, shutdownVars>>

(* The client has closed its end: IncompleteReadError ends the handler.    *)
Disconnect(c) ==
    /\ Alive
    /\ handler[c] = "reading"
    /\ handler' = [handler EXCEPT ![c] = "closed"]
    /\ UNCHANGED <<arrowVars, unread, finalizing, awaiting, taskVars, queueVars,
                   lastReceived, shutdownVars>>

(* A client finalizes a visit once and sends no record of it afterwards:   *)
(* the extension forgets the visit id, execute_command_sequence leaves its *)
(* loop.  Nothing orders the messages of different connections.            *)
MayFollow(m) ==
    \A f \in Messages \ unread :
        ~ (f.kind = "finalize" /\ f.conn = m.conn /\ f.visit = m.visit)

Receive(m) ==
    /\ Alive
    /\ handler[m.conn] = "reading"
    /\ m \in unread
    /\ MayFollow(m)
    /\ unread' = unread \ {m}
    /\ lastReceived' = TRUE

(* Seeded bug: the task list of the visit is assigned, not appended to.    *)
AddTaskReplacing(m) ==
    /\ tasks' = [tasks EXCEPT ![m.visit] = {m}]
    /\ pending' = pending \cup {m}

(* store_record: the record becomes a task of its visit.                   *)
AddTask(m) ==
    /\ tasks' = [tasks EXCEPT ![m.visit] = @ \cup {m}]
    /\ pending' = pending \cup {m}

HandleRecord(m) ==
    /\ m.kind = "record"
    /\ Receive(m)
    /\ AddTask(m)
    /\ UNCHANGED <<arrowVars, handler, finalizing, awaiting, failed, queueVars,
                   shutdownVars>>

HandleIgnored(m) ==
    /\ m.kind = "ignored"
    /\ Receive(m)
    /\ UNCHANGED <<arrowVars, handler, finalizing, awaiting, taskVars, queueVars,
                   shutdownVars>>

(* An exception in handler ends it; _handler closes the connection.        *)
HandleFatal(m) ==
    /\ m.kind = "fatal"
    /\ Receive(m)
    /\ handler' = [handler EXCEPT ![m.conn] = "closed"]
    /\ UNCHANGED <<arrowVars, finalizing, awaiting, taskVars, queueVars,
                   shutdownVars>>

-----------------------------------------------------------------------------
(* Finalisation by a handler: _handle_meta and finalize_visit_id *)

(* finalize_tasks.append((visit_id, token, success)) *)
AppendEntry(v, success, token) ==
    /\ finalizeTasks' = finalizeTasks \cup
           {[seq |-> nEntries + 1, visit |-> v, success |-> success, token |-> token]}
    /\ nEntries' = nEntries + 1
    /\ UNCHANGED <<completion, feeder>>

(* Seeded bug: issue 1068, the tasks stay listed while they are awaited.   *)
PopTasksNever(v) == UNCHANGED tasks

PopTasks(v) == tasks' = [tasks EXCEPT ![v] = {}]

(* No task for the visit: the token is None.                               *)
FinalizeNothing(m) ==
    /\ m.kind = "finalize"
    /\ tasks[m.visit] = {}
    /\ Receive(m)
    /\ AppendEntry(m.visit, m.success, None)
    /\ UNCHANGED <<arrowVars, handler, finalizing, awaiting, taskVars, shutdownVars>>

(* The tasks are popped; when all are done awaiting them does not suspend  *)
(* and the provider is called in the same segment.                         *)
FinalizeAtOnce(m) ==
    /\ m.kind = "finalize"
    /\ tasks[m.visit] # {}
    /\ tasks[m.visit] \cap (pending \cup failed) = {}
    /\ Receive(m)
    /\ PopTasks(m.visit)
    /\ FinalizeVisit(m.visit, m.success, tasks[m.visit])
    /\ AppendEntry(m.visit, m.success, Len(finalized) + 1)
    /\ UNCHANGED <<handler, finalizing, awaiting, pending, failed, shutdownVars>>

(* The tasks are popped and awaited.                                       *)
FinalizePop(m) ==
    /\ m.kind = "finalize"
    /\ tasks[m.visit] \cap (pending \cup failed) # {}
    /\ Receive(m)
    /\ handler' = [handler EXCEPT ![m.conn] = "awaiting"]
    /\ finalizing' = [finalizing EXCEPT ![m.conn] = m]
    /\ awaiting' = [awaiting EXCEPT ![m.conn] = tasks[m.visit]]
    /\ PopTasks(m.visit)
    /\ UNCHANGED <<arrowVars, pending, failed, queueVars, shutdownVars>>

FinalizeResume(c) ==
    LET m == finalizing[c]
    IN  /\ Alive
        /\ handler[c] = "awaiting"
        /\ awaiting[c] \cap (pending \cup failed) = {}
        /\ handler' = [handler EXCEPT ![c] = "reading"]
        /\ finalizing' = [finalizing EXCEPT ![c] = NoMessage]
        /\ awaiting' = [awaiting EXCEPT ![c] = {}]
        /\ FinalizeVisit(m.visit, m.success, awaiting[c])
        /\ AppendEntry(m.visit, m.success, Len(finalized) + 1)
        /\ UNCHANGED <<unread, taskVars, lastReceived, shutdownVars>>

(* Awaiting a task that failed raises its exception in the handler.        *)
FinalizeFails(c) ==
    /\ Alive
    /\ handler[c] = "awaiting"
    /\ awaiting[c] \cap failed # {}
    /\ handler' = [handler EXCEPT ![c] = "closed"]
    /\ finalizing' = [finalizing EXCEPT ![c] = NoMessage]
    /\ awaiting' = [awaiting EXCEPT ![c] = {}]
    /\ UNCHANGED <<arrowVars, unread, taskVars, queueVars, lastReceived, shutdownVars>>

-----------------------------------------------------------------------------
(* Tasks of the event loop *)

(* A store_record task runs; an unknown table is a KeyError of PQ_SCHEMAS. *)
RunTask(m) ==
    /\ Alive
    /\ m \in pending
    /\ pending' = pending \ {m}
    /\ \/ /\ m.table \in Tables
          /\ StoreRecord(m)
          /\ UNCHANGED failed
       \/ /\ m.table \notin Tables
          /\ failed' = failed \cup {m}
          /\ UNCHANGED arrowVars
    /\ UNCHANGED <<handlerVars, tasks, queueVars, lastReceived, shutdownVars>>

(* save_batch_if_past_timeout: no message for BATCH_COMMIT_TIMEOUT.  A     *)
(* task that is ready to run does not stay so for that long.               *)
BatchTimeout ==
    /\ main = "serving"
    /\ lastReceived
    /\ pending = {}
    /\ \A c \in Conns : handler[c] # "awaiting"
    /\ FlushCache
    /\ lastReceived' = FALSE
    /\ UNCHANGED <<handlerVars, taskVars, queueVars, shutdownVars>>

Put(entries) ==
    completion' = IF entries = {} THEN completion ELSE Append(completion, entries)

(* Seeded bug: an entry counts as finished whether or not its token is.    *)
FinishedAnyway == finalizeTasks

(* Seeded bug: `token and token.done()`.                                   *)
FinishedWithToken == {e \in finalizeTasks : e.token # None /\ TokenDone(e.token)}

(* One round of update_completion_queue: the finished entries are put, the *)
(* others are kept.                                                        *)
Finished == {e \in finalizeTasks : e.token = None \/ TokenDone(e.token)}

FeedCompletionQueue ==
    /\ Alive
    /\ feeder = "running"
    /\ ~ (ShutdownFlag /\ finalizeTasks = {})
    /\ Put(Finished)
    /\ finalizeTasks' = finalizeTasks \ Finished
    /\ UNCHANGED <<arrowVars, handlerVars, taskVars, nEntries, feeder,
                   lastReceived, shutdownVars>>

FeederReturns ==
    /\ Alive
    /\ feeder = "running"
    /\ ShutdownFlag /\ finalizeTasks = {}
    /\ feeder' = "returned"
    /\ UNCHANGED <<arrowVars, handlerVars, taskVars, finalizeTasks, nEntries,
                   completion, lastReceived, shutdownVars>>

-----------------------------------------------------------------------------
(* Shutdown: the rest of _run and shutdown *)

(* StorageControllerHandle.shutdown puts the signal.                       *)
RequestShutdown ==
    /\ ~ requested
    /\ requested' = TRUE
    /\ UNCHANGED <<arrowVars, handlerVars, taskVars, queueVars, lastReceived,
                   main, todo, shutdownTokens>>

(* should_shutdown returns; the server is closed and the periodic tasks    *)
(* but the completion queue feeder are cancelled.                          *)
TakeSignal ==
    /\ main = "serving"
    /\ requested
    /\ main' = "draining"
    /\ UNCHANGED <<arrowVars, handlerVars, taskVars, queueVars, lastReceived,
                   requested, todo, shutdownTokens>>

(* Seeded bug: wait_closed of a Python before 3.12 does not wait.          *)
AllClosedAtOnce == TRUE

AllClosed == \A c \in Conns : handler[c] \in {"none", "closed"}

(* server.wait_closed() returns once every connection is gone (Python 3.12)*)
(* and shutdown takes the list of visits that still have tasks.            *)
WaitClosed ==
    /\ main = "draining"
    /\ AllClosed
    /\ main' = "finalizing"
    /\ todo' = {v \in Visits : tasks[v] # {}}
    /\ UNCHANGED <<arrowVars, handlerVars, taskVars, queueVars, lastReceived,
                   requested, shutdownTokens>>

(* shutdown finalizes a remaining visit as interrupted.                    *)
ShutdownFinalize(v) ==
    /\ main = "finalizing"
    /\ v \in todo
    /\ tasks[v] \cap (pending \cup failed) = {}
    /\ todo' = todo \ {v}
    /\ PopTasks(v)
    /\ FinalizeVisit(v, FALSE, tasks[v])
    /\ shutdownTokens' = shutdownTokens \cup
           {[seq |-> nEntries + 1, visit |-> v, success |-> FALSE,
             token |-> Len(finalized) + 1]}
    /\ nEntries' = nEntries + 1
    /\ UNCHANGED <<handlerVars, pending, failed, finalizeTasks, completion, feeder,
                   lastReceived, requested, main>>

(* Awaiting a failed task raises out of _run and ends the process.         *)
ShutdownFails(v) ==
    /\ main = "finalizing"
    /\ v \in todo
    /\ tasks[v] \cap failed # {}
    /\ main' = "crashed"
    /\ UNCHANGED <<arrowVars, handlerVars, taskVars, queueVars, lastReceived,
                   requested, todo, shutdownTokens>>

ShutdownFlush ==
    /\ main = "finalizing"
    /\ todo = {}
    /\ FlushCache
    /\ main' = "waiting"
    /\ UNCHANGED <<handlerVars, taskVars, queueVars, lastReceived, requested, todo,
                   shutdownTokens>>

(* The feeder has returned; the visits finalized by shutdown are put.      *)
ShutdownReport ==
    /\ main = "waiting"
    /\ feeder = "returned"
    /\ \A e \in shutdownTokens : TokenDone(e.token)
    /\ Put(shutdownTokens)
    /\ main' = "done"
    /\ UNCHANGED <<arrowVars, handlerVars, taskVars, finalizeTasks, nEntries, feeder,
                   lastReceived, requested, todo, shutdownTokens>>

-----------------------------------------------------------------------------
ClientStep ==
    \/ \E c \in Conns : Connect(c) \/ Disconnect(c)
    \/ \E m \in Messages : \/ HandleRecord(m)
                           \/ HandleIgnored(m)
                           \/ HandleFatal(m)
                           \/ FinalizeNothing(m)
                           \/ FinalizeAtOnce(m)
                           \/ FinalizePop(m)

LoopStep ==
    \/ \E c \in Conns : FinalizeResume(c) \/ FinalizeFails(c)
    \/ \E m \in Messages : RunTask(m)
    \/ BatchTimeout
    \/ FeedCompletionQueue
    \/ FeederReturns

ShutdownStep ==
    \/ RequestShutdown
    \/ TakeSignal
    \/ WaitClosed
    \/ \E v \in Visits : ShutdownFinalize(v) \/ ShutdownFails(v)
    \/ ShutdownFlush
    \/ ShutdownReport

Next == ClientStep \/ LoopStep \/ ShutdownStep

Spec == Init /\ [][Next]_vars

(* The event loop runs what is ready, the timers fire, and once the        *)
(* manager asks for a shutdown the browsers are killed, which closes their *)
(* sockets.  Nothing obliges a client to send, nor the manager to stop.    *)
Fairness ==
    /\ \A c \in Conns : /\ WF_vars(FinalizeResume(c) \/ FinalizeFails(c))
                        /\ WF_vars(requested /\ Disconnect(c))
    /\ \A m \in {m \in Messages : m.kind = "record"} : WF_vars(RunTask(m))
    /\ WF_vars(BatchTimeout)
    /\ WF_vars(FeedCompletionQueue \/ FeederReturns)
    /\ WF_vars(TakeSignal \/ WaitClosed \/ ShutdownFlush \/ ShutdownReport)
    /\ WF_vars(\E v \in Visits : ShutdownFinalize(v) \/ ShutdownFails(v))

FairSpec == Spec /\ Fairness

-----------------------------------------------------------------------------
(* Safety *)

Handled == Messages \ unread
RecordsOf(S) == {m \in S : m.kind = "record"}
Reported == UNION {completion[i] : i \in 1 .. Len(completion)}

(* A task of the visit raised: what else the visit stored may be orphaned. *)
HasFailedTask(v) == \E u \in failed : u.visit = v

(* The promise of ArrowProvider.finalize_visit_id (arrow_storage.py        *)
(* 118-121): the token resolves only once every record the controller had  *)
(* waited for is on persistent storage, or was refused by pyarrow.         *)
TokenImpliesSaved ==
    \A n \in 1 .. Len(finalized) :
        TokenDone(n) => finalized[n].records \subseteq Settled

(* What TaskManager learns from completion_queue: a visit reported with a  *)
(* token has the records of that finalisation on disk, and if it is        *)
(* reported as unsuccessful it is also listed in incomplete_visits.        *)
ReportImpliesSaved ==
    \A e \in Reported : e.token # None =>
        /\ finalized[e.token].visit = e.visit
        /\ finalized[e.token].records \subseteq Settled
        /\ ~ e.success => Marker(e.visit) \in saved

(* The race of issue 1068 quoted at finalize_visit_id: handlers and        *)
(* shutdown never finalize the same store_record task twice.               *)
NoDoubleFinalization ==
    \A i, j \in 1 .. Len(finalized) :
        i # j => finalized[i].records \cap finalized[j].records = {}

(* A record that has not reached a batch is still known to someone who     *)
(* will finalize its visit: store_record_tasks, or a handler that popped   *)
(* it.  The exception is a visit with a task that raised.                  *)
NoOrphanedRecord ==
    \A m \in Messages :
        m \in pending \cup buffer[m.visit] =>
            \/ m \in tasks[m.visit]
            \/ \E c \in Conns : m \in awaiting[c]
            \/ HasFailedTask(m.visit)

(* When the process ends in an orderly way, every record a handler read is *)
(* on disk or was refused, except for visits with a task that raised.      *)
CleanShutdownSavesAll ==
    main = "done" =>
        \A m \in RecordsOf(Handled) : m \in Settled \/ HasFailedTask(m.visit)

-----------------------------------------------------------------------------
(* Refinement *)

Completion == INSTANCE VisitCompletion WITH
    Records  <- Messages,
    accepted <- RecordsOf(Handled),
    settled  <- RecordsOf(Handled) \cap Settled,
    promises <- finalized,
    reported <- {e.token : e \in Reported} \ {None}

(* The controller and the provider together keep the abstract promise: a   *)
(* completion is put only when the records it stands for are settled.      *)
ImplementsVisitCompletion == Completion!Spec

-----------------------------------------------------------------------------
(* Liveness *)

(* While the controller serves, every finalize a handler reads gets its    *)
(* visit reported, unless a task of the visit raises: the batch timeout    *)
(* flushes what no full cache flushes.                                     *)
FinalizationIsReported ==
    \A m \in {m \in Messages : m.kind = "finalize"} :
        m \in Handled ~>
            \/ \E e \in Reported : e.visit = m.visit /\ e.success = m.success
            \/ HasFailedTask(m.visit)
            \/ requested

(* A shutdown terminates: no token it or the feeder waits for stays unset. *)
ShutdownTerminates == requested ~> ~ Alive

-----------------------------------------------------------------------------
(* What comments of the source say and the code does not ensure *)

(* storage_controller.py 326: all completed finalize_visit_id tasks get    *)
(* put into the completion queue by update_completion_queue.               *)
AllFinalizeTasksReported == main = "done" => finalizeTasks = {}

(* storage_controller.py 333-334: either way, token or none, all data for  *)
(* the visit was saved out when the visit is put.                          *)
ReportMeansDataSaved ==
    \A e \in Reported : \A n \in 1 .. Len(finalized) :
        finalized[n].visit = e.visit => finalized[n].records \subseteq Settled

(* command_sequence.py 61-63: a visit is reported as successful only if all*)
(* of its data is saved.                                                   *)
SuccessMeansDataSaved ==
    \A e \in Reported :
        e.success /\ e.token # None => finalized[e.token].records \subseteq saved

(* storage_providers.py 75-76: after finalize_visit_id no more records for *)
(* the visit are submitted to the provider.                                *)
NoRecordAfterFinalize ==
    [][\A n \in 1 .. Len(finalized) :
         buffer'[finalized[n].visit] \subseteq buffer[finalized[n].visit]]_vars
=============================================================================
