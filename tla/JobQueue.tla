----------------------------- MODULE JobQueue -----------------------------
(***************************************************************************)
(* The crawl workers of crawler.py and the job queue they share, RedisWQ:  *)
(* jobs wait in a main queue, move to a processing queue when a worker     *)
(* takes them, and are protected there by a lease that expires.  One redis *)
(* command is one step; a worker has a main thread and the thread on which *)
(* TaskManager invokes the callbacks of its visits.                        *)
(* Only the number of copies of a job in a queue matters here, not its     *)
(* place: a worker may pop any job.                                        *)
(***************************************************************************)
EXTENDS Naturals, FiniteSets

CONSTANTS
    Jobs,
    Workers,
    Mortal,         \* workers that may crash or be signalled
    MaxRetries,     \* MAX_JOB_RETRIES
    MaxUnsaved      \* bound: callbacks a worker is owed for one job

ASSUME JobQueueAssumption ==
    /\ MaxRetries \in Nat /\ MaxUnsaved \in Nat
    /\ Mortal \subseteq Workers /\ Workers # {}
    /\ "nobody" \notin Workers /\ "none" \notin Jobs

VARIABLES
    main, processing,   \* copies of a job in each queue
    retries,            \* the retry count hash map, 0 where there is no entry
    lease,              \* the session in the lease key of a job, if it exists
    worker,             \* main thread: [pc, todo, job, retry, clean]
    unsaved,            \* unsaved_jobs of a worker, how often each job is in it
    lock,               \* unsaved_jobs_lock: who holds it
    callback,           \* the callback under way: [pc, job]
    lost,               \* how many of the callbacks owed for a job will never come
    pops, succeeded     \* history: times a job was taken, until it was completed

queues == <<main, processing, retries, lease>>
vars == <<queues, worker, unsaved, lock, callback, lost, pops, succeeded>>

Nobody == "nobody"
NoJob == "none"
At(w, pc) == worker[w].pc = pc
GoTo(w, pc) == worker' = [worker EXCEPT ![w].pc = pc]
Alive(w) == worker[w].pc \notin {"dead", "done"}
Waiting == {j \in Jobs : main[j] > 0}
Processing == {j \in Jobs : processing[j] > 0}

Unsaved(w) == {j \in Jobs : unsaved[w][j] > 0}

Idle(pc) == [pc |-> pc, todo |-> {}, job |-> NoJob, retry |-> 0, clean |-> FALSE]

Init ==
    /\ main = [j \in Jobs |-> 1] /\ processing = [j \in Jobs |-> 0]
    /\ retries = [j \in Jobs |-> 0] /\ lease = [j \in Jobs |-> Nobody]
    /\ worker = [w \in Workers |-> Idle("empty")]
    /\ unsaved = [w \in Workers |-> [j \in Jobs |-> 0]]
    /\ lock = [w \in Workers |-> "free"]
    /\ callback = [w \in Workers |-> [pc |-> "idle", job |-> NoJob]]
    /\ lost = [w \in Workers |-> [j \in Jobs |-> 0]]
    /\ pops = [j \in Jobs |-> 0] /\ succeeded = {}

-----------------------------------------------------------------------------
(* Seeded bug: only the main queue is looked at.                           *)
MainIsEmpty(w) ==
    /\ At(w, "empty")
    /\ GoTo(w, IF Waiting = {} THEN "close" ELSE "scan")
    /\ UNCHANGED <<queues, unsaved, lock, callback, lost, pops, succeeded>>

(* empty reads the length of the main queue, and if it is 0 that of the    *)
(* processing queue.                                                       *)
MainSize(w) ==
    /\ At(w, "empty")
    /\ GoTo(w, IF Waiting = {} THEN "empty2" ELSE "scan")
    /\ UNCHANGED <<queues, unsaved, lock, callback, lost, pops, succeeded>>

ProcessingSize(w) ==
    /\ At(w, "empty2")
    /\ GoTo(w, IF Processing = {} THEN "close" ELSE "scan")
    /\ UNCHANGED <<queues, unsaved, lock, callback, lost, pops, succeeded>>

(* check_expired_leases, over a copy of the processing queue.              *)
ScanProcessing(w) ==
    /\ At(w, "scan")
    /\ worker' = [worker EXCEPT ![w].pc = "check", ![w].todo = Processing]
    /\ UNCHANGED <<queues, unsaved, lock, callback, lost, pops, succeeded>>

LeaseExists(w) ==
    /\ At(w, "check")
    /\ \E j \in worker[w].todo :
         worker' = [worker EXCEPT ![w].todo = @ \ {j},
                      ![w].job = IF lease[j] = Nobody THEN j ELSE NoJob,
                      ![w].pc = IF lease[j] = Nobody THEN "watch" ELSE "check"]
    /\ UNCHANGED <<queues, unsaved, lock, callback, lost, pops, succeeded>>

LeasesChecked(w) ==
    /\ At(w, "check") /\ worker[w].todo = {}
    /\ GoTo(w, "renew")
    /\ UNCHANGED <<queues, unsaved, lock, callback, lost, pops, succeeded>>

(* _maybe_renew_job watches the processing queue and the retry counts, and *)
(* reads both; what changes after the watch fails the transaction.         *)
Watch(w) ==
    /\ At(w, "watch")
    /\ LET j == worker[w].job IN
       worker' = IF j \in Processing
                 THEN [worker EXCEPT ![w].pc = "exec", ![w].retry = retries[j],
                                     ![w].clean = TRUE]
                 ELSE [worker EXCEPT ![w].pc = "check", ![w].job = NoJob]
    /\ UNCHANGED <<queues, unsaved, lock, callback, lost, pops, succeeded>>

(* Seeded bug: changes are not watched.                                    *)
Unwatched(next) == worker' = next

(* A change of the processing queue or the retry counts is noticed by      *)
(* every transaction that watches them.                                    *)
Touched(next) ==
    worker' = [w \in Workers |->
                 IF next[w].pc = "exec" /\ (processing' # processing \/ retries' # retries)
                 THEN [next[w] EXCEPT !.clean = FALSE] ELSE next[w]]

RetriesExceeded(retry) == retry + 1 > MaxRetries

(* The transaction moves the job back to the main queue, or drops it.      *)
Exec(w) ==
    LET j == worker[w].job IN
    /\ At(w, "exec")
    /\ IF worker[w].clean
       THEN /\ processing' = [processing EXCEPT ![j] = 0]
            /\ IF RetriesExceeded(worker[w].retry)
               THEN retries' = [retries EXCEPT ![j] = 0] /\ UNCHANGED main
               ELSE /\ retries' = [retries EXCEPT ![j] = @ + 1]
                    /\ main' = [main EXCEPT ![j] = @ + 1]
       ELSE UNCHANGED <<main, processing, retries>>
    /\ Touched([worker EXCEPT ![w] = [@ EXCEPT !.pc = "check", !.job = NoJob, !.retry = 0,
                                               !.clean = FALSE]])
    /\ UNCHANGED <<lease, unsaved, lock, callback, lost, pops, succeeded>>

(* The leases of all unsaved jobs that still have one are extended, with   *)
(* unsaved_jobs_lock held.                                                 *)
TakeLock(w) ==
    /\ At(w, "renew")
    /\ lock[w] = "free"
    /\ lock' = [lock EXCEPT ![w] = "main"]
    /\ worker' = [worker EXCEPT ![w].pc = "get", ![w].todo = Unsaved(w)]
    /\ UNCHANGED <<queues, unsaved, callback, lost, pops, succeeded>>

RenewGet(w) ==
    /\ At(w, "get")
    /\ \E j \in worker[w].todo :
         worker' = [worker EXCEPT ![w].todo = @ \ {j},
                      ![w].job = IF lease[j] = Nobody THEN NoJob ELSE j,
                      ![w].pc = IF lease[j] = Nobody THEN "get" ELSE "set"]
    /\ UNCHANGED <<queues, unsaved, lock, callback, lost, pops, succeeded>>

RenewSet(w) ==
    /\ At(w, "set")
    /\ lease' = [lease EXCEPT ![worker[w].job] = w]
    /\ worker' = [worker EXCEPT ![w].pc = "get", ![w].job = NoJob]
    /\ UNCHANGED <<main, processing, retries, unsaved, lock, callback, lost, pops, succeeded>>

(* Seeded bug: the lock is kept.                                           *)
LockKept(w) ==
    /\ At(w, "get") /\ worker[w].todo = {}
    /\ GoTo(w, "lease")
    /\ UNCHANGED <<queues, unsaved, lock, callback, lost, pops, succeeded>>

LeasesRenewed(w) ==
    /\ At(w, "get") /\ worker[w].todo = {}
    /\ lock' = [lock EXCEPT ![w] = "free"]
    /\ GoTo(w, "lease")
    /\ UNCHANGED <<queues, unsaved, callback, lost, pops, succeeded>>

(* lease: a job is moved to the processing queue and only then leased.     *)
Pop(w) ==
    /\ At(w, "lease")
    /\ \E j \in Waiting :
         /\ unsaved[w][j] < MaxUnsaved
         /\ main' = [main EXCEPT ![j] = @ - 1]
         /\ processing' = [processing EXCEPT ![j] = @ + 1]
         /\ pops' = IF j \in succeeded THEN pops ELSE [pops EXCEPT ![j] = @ + 1]
         /\ Touched([worker EXCEPT ![w].pc = "setex", ![w].job = j])
    /\ UNCHANGED <<retries, lease, unsaved, lock, callback, lost, succeeded>>

PopTimesOut(w) ==
    /\ At(w, "lease")
    /\ Waiting = {}
    /\ GoTo(w, "empty")
    /\ UNCHANGED <<queues, unsaved, lock, callback, lost, pops, succeeded>>

(* The lease is recorded and the blocking visit starts.                    *)
SetLease(w) ==
    LET j == worker[w].job IN
    /\ At(w, "setex")
    /\ lease' = [lease EXCEPT ![j] = w]
    /\ unsaved' = [unsaved EXCEPT ![w][j] = @ + 1]
    /\ worker' = [worker EXCEPT ![w].pc = "visit", ![w].job = NoJob]
    /\ UNCHANGED <<main, processing, retries, lock, callback, lost, pops, succeeded>>

VisitOver(w) ==
    /\ At(w, "visit")
    /\ GoTo(w, "empty")
    /\ UNCHANGED <<queues, unsaved, lock, callback, lost, pops, succeeded>>

(* manager.close waits for the callbacks that are owed, for ever if one    *)
(* does not come.                                                          *)
Finish(w) ==
    /\ At(w, "close")
    /\ Unsaved(w) = {}
    /\ GoTo(w, "done")
    /\ UNCHANGED <<queues, unsaved, lock, callback, lost, pops, succeeded>>

-----------------------------------------------------------------------------
(* The callback of a visit: complete, in three commands, and the removal   *)
(* from unsaved_jobs.  Every visit is reported to its worker as long as    *)
(* the storage controller runs; one that shuts down (StorageController,    *)
(* TaskManager) may leave visits out.                                      *)
CallbackRunnable(w) == ~At(w, "dead")
Coming(w) == {j \in Jobs : unsaved[w][j] > lost[w][j]}
Closing(w) == At(w, "close") \/ At(w, "forced")

LoseReport(w) ==
    /\ Closing(w) /\ callback[w].pc = "idle"
    /\ \E j \in Coming(w) : lost' = [lost EXCEPT ![w][j] = @ + 1]
    /\ UNCHANGED <<queues, worker, unsaved, lock, callback, pops, succeeded>>

BeginCallback(w) ==
    /\ CallbackRunnable(w)
    /\ lock[w] = "free" /\ callback[w].pc = "idle"
    /\ \E j \in Coming(w), success \in BOOLEAN :
         callback' = [callback EXCEPT ![w] =
                        [pc |-> IF success THEN "lrem" ELSE "remove", job |-> j]]
    /\ lock' = [lock EXCEPT ![w] = "callback"]
    /\ UNCHANGED <<queues, worker, unsaved, lost, pops, succeeded>>

CompleteRemove(w) ==
    LET j == callback[w].job IN
    /\ CallbackRunnable(w) /\ callback[w].pc = "lrem"
    /\ processing' = [processing EXCEPT ![j] = 0]
    /\ succeeded' = succeeded \cup {j}
    /\ callback' = [callback EXCEPT ![w].pc = "hdel"]
    /\ UNCHANGED <<main, retries, lease, unsaved, lock, lost, pops>>
    /\ Touched(worker)

CompleteForget(w) ==
    LET j == callback[w].job IN
    /\ CallbackRunnable(w) /\ callback[w].pc = "hdel"
    /\ retries' = [retries EXCEPT ![j] = 0]
    /\ callback' = [callback EXCEPT ![w].pc = "del"]
    /\ UNCHANGED <<main, processing, lease, unsaved, lock, lost, pops, succeeded>>
    /\ Touched(worker)

CompleteRelease(w) ==
    /\ CallbackRunnable(w) /\ callback[w].pc = "del"
    /\ lease' = [lease EXCEPT ![callback[w].job] = Nobody]
    /\ callback' = [callback EXCEPT ![w].pc = "remove"]
    /\ UNCHANGED <<main, processing, retries, worker, unsaved, lock, lost, pops, succeeded>>

EndCallback(w) ==
    /\ CallbackRunnable(w) /\ callback[w].pc = "remove"
    /\ unsaved' = [unsaved EXCEPT ![w][callback[w].job] = @ - 1]
    /\ callback' = [callback EXCEPT ![w] = [pc |-> "idle", job |-> NoJob]]
    /\ lock' = [lock EXCEPT ![w] = "free"]
    /\ UNCHANGED <<queues, worker, lost, pops, succeeded>>

-----------------------------------------------------------------------------
(* Leases expire; a worker crashes; a signal interrupts its main thread,   *)
(* and the handler needs the lock that thread may be holding; then it      *)
(* closes the manager by force, unless it was being closed, and exits.     *)
Expire(j) ==
    /\ lease[j] # Nobody
    /\ lease' = [lease EXCEPT ![j] = Nobody]
    /\ UNCHANGED <<main, processing, retries, worker, unsaved, lock, callback, lost, pops,
                   succeeded>>

Crash(w) ==
    /\ w \in Mortal /\ Alive(w)
    /\ worker' = [worker EXCEPT ![w] = Idle("dead")]
    /\ UNCHANGED <<queues, unsaved, lock, callback, lost, pops, succeeded>>

Signal(w) ==
    /\ w \in Mortal /\ Alive(w) /\ ~At(w, "handler") /\ ~At(w, "leave")
    /\ worker' = [worker EXCEPT ![w] = Idle(IF Closing(w) THEN "leave" ELSE "handler")]
    /\ UNCHANGED <<queues, unsaved, lock, callback, lost, pops, succeeded>>

HandlerCloses(w) ==
    /\ At(w, "handler")
    /\ lock[w] = "free"
    /\ GoTo(w, "forced")
    /\ UNCHANGED <<queues, unsaved, lock, callback, lost, pops, succeeded>>

ForcedCloseEnds(w) ==
    /\ At(w, "forced")
    /\ Unsaved(w) = {}
    /\ GoTo(w, "dead")
    /\ UNCHANGED <<queues, unsaved, lock, callback, lost, pops, succeeded>>

HandlerExits(w) ==
    /\ At(w, "leave")
    /\ lock[w] = "free"
    /\ GoTo(w, "dead")
    /\ UNCHANGED <<queues, unsaved, lock, callback, lost, pops, succeeded>>

-----------------------------------------------------------------------------
MainNext(w) ==
    \/ MainSize(w) \/ ProcessingSize(w) \/ ScanProcessing(w) \/ LeaseExists(w)
    \/ LeasesChecked(w) \/ Watch(w) \/ Exec(w) \/ TakeLock(w) \/ RenewGet(w) \/ RenewSet(w)
    \/ LeasesRenewed(w) \/ Pop(w) \/ PopTimesOut(w) \/ SetLease(w) \/ VisitOver(w) \/ Finish(w)
    \/ HandlerCloses(w) \/ ForcedCloseEnds(w) \/ HandlerExits(w)
CallbackNext(w) ==
    \/ BeginCallback(w) \/ CompleteRemove(w) \/ CompleteForget(w) \/ CompleteRelease(w)
    \/ EndCallback(w)
Next ==
    \/ \E w \in Workers : MainNext(w) \/ CallbackNext(w) \/ LoseReport(w) \/ Crash(w) \/ Signal(w)
    \/ \E j \in Jobs : Expire(j)

(* Workers run, the callbacks that come are called, and a lease that no    *)
(* loop renews expires.                                                    *)
InLoop(w) == worker[w].pc \notin {"close", "done", "handler", "forced", "leave", "dead"}
Attended(j) ==
    \E w \in Workers : /\ InLoop(w)
                       /\ j \in Unsaved(w) \/ (At(w, "setex") /\ worker[w].job = j)
ExpireUnattended(j) == ~Attended(j) /\ Expire(j)
Spec == Init /\ [][Next]_vars
FairSpec ==
    /\ Spec
    /\ \A w \in Workers : WF_vars(MainNext(w)) /\ SF_vars(TakeLock(w)) /\ WF_vars(CallbackNext(w))
                            /\ SF_vars(BeginCallback(w))
    /\ \A j \in Jobs : WF_vars(ExpireUnattended(j))

-----------------------------------------------------------------------------
(* Properties.                                                             *)

(* A job is never in two queues, nor twice in one, whichever workers renew *)
(* it at the same time (_maybe_renew_job, rediswq.py 94-99).               *)
JobInOnePlace == \A j \in Jobs : main[j] + processing[j] <= 1

(* A job nobody completed is given up only after it was taken 1 + retries  *)
(* times, and is not taken more often (rediswq.py 39-41).                  *)
RetryLimit ==
    \A j \in Jobs \ succeeded :
      /\ pops[j] <= MaxRetries + 1
      /\ main[j] + processing[j] = 0 => pops[j] = MaxRetries + 1

(* When all workers have ended because they found the queue empty, it is:  *)
(* the last of them was not misled by a job that moved between its reads.  *)
EndedMeansEmpty ==
    (\A w \in Workers : At(w, "done")) => Waiting = {} /\ Processing = {}

(* A worker that found the queue empty leaves no job behind (the promise   *)
(* of rediswq.py 12-14).  empty() reads two lengths, and a job that moves  *)
(* back to the main queue between them is in neither: violated.            *)
NoJobIsLeftBehind ==
    [][\A w \in Workers : ~At(w, "close") /\ At(w, "close")' =>
         Waiting = {} /\ Processing = {}]_vars

(* The crawl ends: whatever crashes, expires or is interrupted, jobs are   *)
(* completed or given up after their retries until every worker stops.     *)
(* Two hangs of the code are all that keeps one: a signal handler waits    *)
(* for the lock that its own interrupted main thread holds (crawler.py 168 *)
(* and 204), and a close, which found no more jobs or was forced by a      *)
(* signal, waits for callbacks that the storage controller has not         *)
(* reported when it ended (task_manager.py 332, storage_controller.py 194  *)
(* and 327).  It may also fail if jobs are taken for lost again and again  *)
(* while a worker is at them: complete forgets the retries of a job that   *)
(* waits to be taken.                                                      *)
OwnLock(w) == At(w, "handler") /\ lock[w] = "main"
NeverReported(w) == Closing(w) /\ Unsaved(w) # {} /\ Coming(w) = {} /\ callback[w].pc = "idle"
Punctual == <>[][\A w \in Workers : Exec(w) /\ worker[w].clean => ~Attended(worker[w].job)]_vars
CrawlEnds == Punctual => <>(\A w \in Workers : ~Alive(w) \/ OwnLock(w) \/ NeverReported(w))
=============================================================================
