--------------------------- MODULE JobQueueProofs ---------------------------
(***************************************************************************)
(* The queue discipline of JobQueue, for any jobs, workers and number of   *)
(* retries: a job is in one place, and it is retried as often as promised. *)
(* Both rest on what the WATCH of redis gives a transaction: as long as    *)
(* nothing it watches was touched, the job is in the processing queue and  *)
(* has the retry count that was read.                                      *)
(***************************************************************************)
EXTENDS JobQueue, TLAPS

Pcs == {"empty", "empty2", "scan", "check", "watch", "exec", "renew", "get", "set", "lease",
        "setex", "visit", "close", "done", "handler", "forced", "leave", "dead"}
Threads == [pc : Pcs, todo : SUBSET Jobs, job : Jobs \cup {NoJob}, retry : Nat, clean : BOOLEAN]
HasJob(t) == t.pc \in {"watch", "exec", "set", "setex"} => t.job \in Jobs
Calls == [pc : {"idle", "lrem", "hdel", "del", "remove"}, job : Jobs \cup {NoJob}]
ForJob(c) == c.pc # "idle" => c.job \in Jobs

CountsOK ==
    /\ main \in [Jobs -> Nat] /\ processing \in [Jobs -> Nat] /\ retries \in [Jobs -> Nat]
    /\ pops \in [Jobs -> Nat] /\ succeeded \subseteq Jobs
ThreadsOK == worker \in [Workers -> Threads] /\ \A w \in Workers : HasJob(worker[w])
CallsOK == callback \in [Workers -> Calls] /\ \A w \in Workers : ForJob(callback[w])
TypeOK == CountsOK /\ ThreadsOK /\ CallsOK

(* A transaction that nobody disturbed.                                    *)
WatchHolds ==
    \A w \in Workers : worker[w].pc = "exec" /\ worker[w].clean =>
      /\ processing[worker[w].job] > 0
      /\ worker[w].retry = retries[worker[w].job]

(* Where a job that nobody completed is, tells how often it was taken.     *)
Taken ==
    \A j \in Jobs \ succeeded :
      /\ main[j] > 0 => pops[j] = retries[j] /\ retries[j] <= MaxRetries
      /\ processing[j] > 0 => pops[j] = retries[j] + 1 /\ retries[j] <= MaxRetries
      /\ main[j] + processing[j] = 0 => pops[j] = MaxRetries + 1

(* complete forgets the retries of a job only after it was removed.        *)
Forgotten == \A w \in Workers : callback[w].pc = "hdel" => callback[w].job \in succeeded

IInv == TypeOK /\ JobInOnePlace /\ WatchHolds /\ Taken /\ Forgotten

-----------------------------------------------------------------------------
(* Types.                                                                  *)

(* A thread that moves on moves on well.                                   *)
LEMMA ThreadUpdate ==
    ASSUME ThreadsOK, NEW w \in Workers, NEW t \in Threads, HasJob(t),
           worker' = [worker EXCEPT ![w] = t]
    PROVE  ThreadsOK'
  BY DEF ThreadsOK, HasJob

LEMMA ThreadGoesTo ==
    ASSUME ThreadsOK, NEW w \in Workers, NEW pc \in Pcs \ {"watch", "exec", "set", "setex"},
           GoTo(w, pc)
    PROVE  ThreadsOK'
<1>1. worker[w] \in Threads
  BY DEF ThreadsOK
<1>2. worker' = [worker EXCEPT ![w] = [worker[w] EXCEPT !.pc = pc]]
  BY DEF GoTo, ThreadsOK
<1>3. [worker[w] EXCEPT !.pc = pc] \in Threads /\ HasJob([worker[w] EXCEPT !.pc = pc])
  BY <1>1 DEF Threads, HasJob
<1>4. QED  BY <1>2, <1>3, ThreadUpdate

(* What a touched queue does to the transactions keeps the types.          *)
LEMMA TouchedThreads ==
    ASSUME NEW next \in [Workers -> Threads], \A v \in Workers : HasJob(next[v]), Touched(next)
    PROVE  ThreadsOK'
<1>1. \A v \in Workers : worker'[v] = next[v] \/ worker'[v] = [next[v] EXCEPT !.clean = FALSE]
  BY DEF Touched
<1>2. ASSUME NEW v \in Workers PROVE worker'[v] \in Threads /\ HasJob(worker'[v])
  <2>1. next[v] \in Threads /\ HasJob(next[v])
    OBVIOUS
  <2>2. [next[v] EXCEPT !.clean = FALSE] \in Threads
    BY <2>1 DEF Threads
  <2>3. HasJob([next[v] EXCEPT !.clean = FALSE])
    BY <2>1 DEF Threads, HasJob
  <2>4. CASE worker'[v] = next[v]
    BY <2>1, <2>4
  <2>5. CASE worker'[v] = [next[v] EXCEPT !.clean = FALSE]
    BY <2>2, <2>3, <2>5
  <2>6. QED  BY <1>1, <2>4, <2>5
<1>3. worker' = [v \in Workers |-> worker'[v]]
  BY DEF Touched
<1>4. QED  BY <1>2, <1>3 DEF ThreadsOK

LEMMA IdleThread ==
    ASSUME NEW pc \in Pcs \ {"watch", "exec", "set", "setex"}
    PROVE  Idle(pc) \in Threads /\ HasJob(Idle(pc))
<1>1. 0 \in Nat /\ {} \in SUBSET Jobs /\ FALSE \in BOOLEAN /\ NoJob \in Jobs \cup {NoJob}
  OBVIOUS
<1>2. Idle(pc) \in Threads
  BY <1>1, Zenon DEF Idle, Threads
<1>3. HasJob(Idle(pc))
  BY DEF Idle, HasJob
<1>4. QED  BY <1>2, <1>3

LEMMA ThreadsStep == ASSUME TypeOK, Next PROVE ThreadsOK'
<1> USE DEF TypeOK
<1>1. ASSUME NEW w \in Workers, NEW pc \in Pcs \ {"watch", "exec", "set", "setex"}, GoTo(w, pc)
      PROVE  ThreadsOK'
  BY <1>1, ThreadGoesTo
<1>2. ASSUME NEW w \in Workers, MainNext(w) PROVE ThreadsOK'
  <2> USE DEF Pcs
  <2>0. worker[w] \in Threads /\ HasJob(worker[w])
    BY DEF ThreadsOK
  <2>1. CASE MainSize(w)
    BY <2>1, <1>1 DEF MainSize
  <2>2. CASE ProcessingSize(w)
    BY <2>2, <1>1 DEF ProcessingSize
  <2>3. CASE ScanProcessing(w)
    <3>1. worker' = [worker EXCEPT ![w] = [worker[w] EXCEPT !.pc = "check", !.todo = Processing]]
      BY <2>3 DEF ScanProcessing, ThreadsOK
    <3>2. [worker[w] EXCEPT !.pc = "check", !.todo = Processing] \in Threads
      BY <2>0 DEF Threads, Processing
    <3>3. QED  BY <2>0, <3>1, <3>2, ThreadUpdate DEF HasJob, Threads
  <2>4. CASE LeaseExists(w)
    <3>1. PICK j \in worker[w].todo :
            worker' = [worker EXCEPT ![w].todo = @ \ {j},
                         ![w].job = IF lease[j] = Nobody THEN j ELSE NoJob,
                         ![w].pc = IF lease[j] = Nobody THEN "watch" ELSE "check"]
      BY <2>4 DEF LeaseExists
    <3>2. j \in Jobs
      BY <2>0 DEF Threads
    <3>3. CASE lease[j] = Nobody
      <4> DEFINE t == [worker[w] EXCEPT !.todo = @ \ {j}, !.job = j, !.pc = "watch"]
      <4>1. worker' = [worker EXCEPT ![w] = t]
        BY <3>1, <3>3 DEF ThreadsOK
      <4>2. t \in Threads /\ HasJob(t)
        BY <2>0, <3>2 DEF Threads, HasJob
      <4>3. QED  BY <4>1, <4>2, ThreadUpdate
    <3>4. CASE lease[j] # Nobody
      <4> DEFINE t == [worker[w] EXCEPT !.todo = @ \ {j}, !.job = NoJob, !.pc = "check"]
      <4>1. worker' = [worker EXCEPT ![w] = t]
        BY <3>1, <3>4 DEF ThreadsOK
      <4>2. t \in Threads /\ HasJob(t)
        BY <2>0, <3>2 DEF Threads, HasJob
      <4>3. QED  BY <4>1, <4>2, ThreadUpdate
    <3>5. QED  BY <3>3, <3>4
  <2>5. CASE LeasesChecked(w)
    BY <2>5, <1>1 DEF LeasesChecked
  <2>6. CASE Watch(w)
    <3> DEFINE j == worker[w].job
    <3>1. j \in Jobs
      BY <2>0, <2>6 DEF Watch, At, HasJob
    <3>2. CASE j \in Processing
      <4> DEFINE t == [worker[w] EXCEPT !.pc = "exec", !.retry = retries[j], !.clean = TRUE]
      <4>1. worker' = [worker EXCEPT ![w] = t]
        BY <2>6, <3>2 DEF Watch, ThreadsOK
      <4>2. t \in Threads /\ HasJob(t)
        BY <2>0, <3>1 DEF Threads, HasJob, CountsOK
      <4>3. QED  BY <4>1, <4>2, ThreadUpdate
    <3>3. CASE j \notin Processing
      <4> DEFINE t == [worker[w] EXCEPT !.pc = "check", !.job = NoJob]
      <4>1. worker' = [worker EXCEPT ![w] = t]
        BY <2>6, <3>3 DEF Watch, ThreadsOK
      <4>2. t \in Threads /\ HasJob(t)
        BY <2>0 DEF Threads, HasJob
      <4>3. QED  BY <4>1, <4>2, ThreadUpdate
    <3>4. QED  BY <3>2, <3>3
  <2>7. CASE Exec(w)
    <3> DEFINE t == [worker[w] EXCEPT !.pc = "check", !.job = NoJob, !.retry = 0, !.clean = FALSE]
               next == [worker EXCEPT ![w] = t]
    <3>1. t \in Threads /\ HasJob(t)
      BY <2>0 DEF Threads, HasJob
    <3>2. next \in [Workers -> Threads] /\ \A v \in Workers : HasJob(next[v])
      BY <3>1 DEF ThreadsOK
    <3>3. Touched(next)
      BY <2>7 DEF Exec
    <3>4. QED  BY <3>2, <3>3, TouchedThreads
  <2>8. CASE TakeLock(w)
    <3> DEFINE t == [worker[w] EXCEPT !.pc = "get", !.todo = Unsaved(w)]
    <3>1. worker' = [worker EXCEPT ![w] = t]
      BY <2>8 DEF TakeLock, ThreadsOK
    <3>2. t \in Threads /\ HasJob(t)
      BY <2>0 DEF Threads, HasJob, Unsaved
    <3>3. QED  BY <3>1, <3>2, ThreadUpdate
  <2>9. CASE RenewGet(w)
    <3>1. PICK j \in worker[w].todo :
            worker' = [worker EXCEPT ![w].todo = @ \ {j},
                         ![w].job = IF lease[j] = Nobody THEN NoJob ELSE j,
                         ![w].pc = IF lease[j] = Nobody THEN "get" ELSE "set"]
      BY <2>9 DEF RenewGet
    <3>2. j \in Jobs
      BY <2>0 DEF Threads
    <3>3. CASE lease[j] # Nobody
      <4> DEFINE t == [worker[w] EXCEPT !.todo = @ \ {j}, !.job = j, !.pc = "set"]
      <4>1. worker' = [worker EXCEPT ![w] = t]
        BY <3>1, <3>3 DEF ThreadsOK
      <4>2. t \in Threads /\ HasJob(t)
        BY <2>0, <3>2 DEF Threads, HasJob
      <4>3. QED  BY <4>1, <4>2, ThreadUpdate
    <3>4. CASE lease[j] = Nobody
      <4> DEFINE t == [worker[w] EXCEPT !.todo = @ \ {j}, !.job = NoJob, !.pc = "get"]
      <4>1. worker' = [worker EXCEPT ![w] = t]
        BY <3>1, <3>4 DEF ThreadsOK
      <4>2. t \in Threads /\ HasJob(t)
        BY <2>0, <3>2 DEF Threads, HasJob
      <4>3. QED  BY <4>1, <4>2, ThreadUpdate
    <3>5. QED  BY <3>3, <3>4
  <2>10. CASE RenewSet(w)
    <3> DEFINE t == [worker[w] EXCEPT !.pc = "get", !.job = NoJob]
    <3>1. worker' = [worker EXCEPT ![w] = t]
      BY <2>10 DEF RenewSet, ThreadsOK
    <3>2. t \in Threads /\ HasJob(t)
      BY <2>0 DEF Threads, HasJob
    <3>3. QED  BY <3>1, <3>2, ThreadUpdate
  <2>11. CASE LeasesRenewed(w)
    BY <2>11, <1>1 DEF LeasesRenewed
  <2>12. CASE Pop(w)
    <3>1. PICK j \in Waiting : Touched([worker EXCEPT ![w].pc = "setex", ![w].job = j])
      BY <2>12 DEF Pop
    <3> DEFINE t == [worker[w] EXCEPT !.pc = "setex", !.job = j]
               next == [worker EXCEPT ![w].pc = "setex", ![w].job = j]
    <3>2. t \in Threads /\ HasJob(t)
      BY <2>0 DEF Threads, HasJob, Waiting
    <3>3. next = [worker EXCEPT ![w] = t]
      BY DEF ThreadsOK
    <3>4. next \in [Workers -> Threads] /\ \A v \in Workers : HasJob(next[v])
      BY <3>2, <3>3 DEF ThreadsOK
    <3>5. QED  BY <3>1, <3>4, TouchedThreads
  <2>13. CASE PopTimesOut(w)
    BY <2>13, <1>1 DEF PopTimesOut
  <2>14. CASE SetLease(w)
    <3> DEFINE t == [worker[w] EXCEPT !.pc = "visit", !.job = NoJob]
    <3>1. worker' = [worker EXCEPT ![w] = t]
      BY <2>14 DEF SetLease, ThreadsOK
    <3>2. t \in Threads /\ HasJob(t)
      BY <2>0 DEF Threads, HasJob
    <3>3. QED  BY <3>1, <3>2, ThreadUpdate
  <2>15. CASE VisitOver(w)
    BY <2>15, <1>1 DEF VisitOver
  <2>16. CASE Finish(w)
    BY <2>16, <1>1 DEF Finish
  <2>17. CASE HandlerCloses(w) \/ ForcedCloseEnds(w) \/ HandlerExits(w)
    BY <2>17, <1>1 DEF HandlerCloses, ForcedCloseEnds, HandlerExits
  <2>18. QED  BY <1>2, <2>1, <2>2, <2>3, <2>4, <2>5, <2>6, <2>7, <2>8, <2>9, <2>10, <2>11, <2>12,
                 <2>13, <2>14, <2>15, <2>16, <2>17 DEF MainNext
<1>3. ASSUME NEW w \in Workers, CallbackNext(w) PROVE ThreadsOK'
  <2>1. worker' = worker \/ Touched(worker)
    BY <1>3 DEF CallbackNext, BeginCallback, CompleteRemove, CompleteForget, CompleteRelease,
                EndCallback
  <2>2. QED  BY <2>1, TouchedThreads DEF ThreadsOK
<1>4. ASSUME NEW w \in Workers, Crash(w) \/ Signal(w) PROVE ThreadsOK'
  BY <1>4, IdleThread, ThreadUpdate DEF Crash, Signal, Pcs
<1>l. ASSUME NEW w \in Workers, LoseReport(w) PROVE ThreadsOK'
  BY <1>l DEF LoseReport, ThreadsOK
<1>5. ASSUME NEW j \in Jobs, Expire(j) PROVE ThreadsOK'
  BY <1>5 DEF Expire, ThreadsOK
<1>6. QED  BY <1>2, <1>3, <1>4, <1>l, <1>5 DEF Next

LEMMA CallsStep == ASSUME TypeOK, Next PROVE CallsOK'
<1> USE DEF TypeOK, CallsOK
<1>1. ASSUME NEW w \in Workers, CallbackNext(w) PROVE CallsOK'
  <2>1. CASE BeginCallback(w)
    <3>1. PICK j \in Coming(w), success \in BOOLEAN :
            callback' = [callback EXCEPT ![w] =
                           [pc |-> IF success THEN "lrem" ELSE "remove", job |-> j]]
      BY <2>1 DEF BeginCallback
    <3>2. [pc |-> IF success THEN "lrem" ELSE "remove", job |-> j] \in Calls /\ j \in Jobs
      BY DEF Calls, Coming
    <3>3. QED  BY <3>1, <3>2 DEF ForJob
  <2>2. CASE CompleteRemove(w)
    BY <2>2 DEF CompleteRemove, Calls, ForJob
  <2>3. CASE CompleteForget(w)
    BY <2>3 DEF CompleteForget, Calls, ForJob
  <2>4. CASE CompleteRelease(w)
    BY <2>4 DEF CompleteRelease, Calls, ForJob
  <2>5. CASE EndCallback(w)
    BY <2>5 DEF EndCallback, Calls, ForJob
  <2>6. QED  BY <1>1, <2>1, <2>2, <2>3, <2>4, <2>5 DEF CallbackNext
<1>2. ASSUME NEW w \in Workers, MainNext(w) \/ Crash(w) \/ Signal(w) \/ LoseReport(w)
      PROVE  UNCHANGED callback
  BY <1>2 DEF MainNext, MainSize, ProcessingSize, ScanProcessing, LeaseExists, LeasesChecked,
              Watch, Exec, TakeLock, RenewGet, RenewSet, LeasesRenewed, Pop, PopTimesOut,
              SetLease, VisitOver, Finish, HandlerCloses, ForcedCloseEnds, HandlerExits,
              Crash, Signal, LoseReport
<1>3. ASSUME NEW j \in Jobs, Expire(j) PROVE UNCHANGED callback
  BY <1>3 DEF Expire
<1>4. QED  BY <1>1, <1>2, <1>3 DEF Next

-----------------------------------------------------------------------------
(* The steps that move jobs or count their retries; all others only move   *)
(* threads, leases and locks.                                              *)
Counts == <<main, processing, retries, pops, succeeded>>

LEMMA FewStepsCount ==
    ASSUME Next
    PROVE  \/ \E w \in Workers : Exec(w) \/ Pop(w) \/ CompleteRemove(w) \/ CompleteForget(w)
           \/ UNCHANGED Counts
<1> USE DEF Counts, queues
<1>1. ASSUME NEW w \in Workers, MainNext(w)
      PROVE  Exec(w) \/ Pop(w) \/ UNCHANGED Counts
  BY <1>1 DEF MainNext, MainSize, ProcessingSize, ScanProcessing, LeaseExists, LeasesChecked,
              Watch, TakeLock, RenewGet, RenewSet, LeasesRenewed, PopTimesOut, SetLease,
              VisitOver, Finish, HandlerCloses, ForcedCloseEnds, HandlerExits
<1>2. ASSUME NEW w \in Workers, CallbackNext(w)
      PROVE  CompleteRemove(w) \/ CompleteForget(w) \/ UNCHANGED Counts
  BY <1>2 DEF CallbackNext, BeginCallback, CompleteRelease, EndCallback
<1>3. ASSUME NEW w \in Workers, Crash(w) \/ Signal(w) \/ LoseReport(w) PROVE UNCHANGED Counts
  BY <1>3 DEF Crash, Signal, LoseReport
<1>4. ASSUME NEW j \in Jobs, Expire(j) PROVE UNCHANGED Counts
  BY <1>4 DEF Expire
<1>5. QED  BY <1>1, <1>2, <1>3, <1>4 DEF Next

LEMMA CountsStep ==
    ASSUME JobQueueAssumption, IInv, Next
    PROVE  CountsOK' /\ JobInOnePlace' /\ Taken'
<1> USE DEF JobQueueAssumption, IInv, TypeOK, CountsOK, JobInOnePlace, Taken
<1>1. ASSUME NEW w \in Workers, Exec(w) PROVE CountsOK' /\ JobInOnePlace' /\ Taken'
  <2> DEFINE j == worker[w].job
  <2>1. j \in Jobs /\ worker[w].retry \in Nat
    BY <1>1 DEF Exec, At, ThreadsOK, Threads, HasJob
  <2>2. CASE ~worker[w].clean
    BY <1>1, <2>2 DEF Exec
  <2>3. CASE worker[w].clean
    <3>1. processing[j] > 0 /\ worker[w].retry = retries[j] /\ main[j] = 0
      BY <1>1, <2>1, <2>3 DEF WatchHolds, Exec, At
    <3>2. CASE RetriesExceeded(worker[w].retry)
      BY <1>1, <2>1, <2>3, <3>1, <3>2 DEF Exec, RetriesExceeded
    <3>3. CASE ~RetriesExceeded(worker[w].retry)
      <4>1. /\ processing' = [processing EXCEPT ![j] = 0]
            /\ retries' = [retries EXCEPT ![j] = @ + 1] /\ retries[j] + 1 <= MaxRetries
            /\ main' = [main EXCEPT ![j] = @ + 1]
            /\ UNCHANGED <<pops, succeeded>>
        BY <1>1, <2>1, <2>3, <3>1, <3>3 DEF Exec, RetriesExceeded
      <4>2. CountsOK' /\ JobInOnePlace'
        BY <2>1, <3>1, <4>1
      <4>3. Taken'
        BY <2>1, <3>1, <4>1
      <4>. QED  BY <4>2, <4>3
    <3>4. QED  BY <3>2, <3>3
  <2>4. QED  BY <2>2, <2>3
<1>2. ASSUME NEW w \in Workers, Pop(w) PROVE CountsOK' /\ JobInOnePlace' /\ Taken'
  BY <1>2 DEF Pop, Waiting
<1>3. ASSUME NEW w \in Workers, CompleteRemove(w) PROVE CountsOK' /\ JobInOnePlace' /\ Taken'
  <2>1. callback[w].job \in Jobs
    BY <1>3 DEF CompleteRemove, CallsOK, ForJob
  <2>2. QED  BY <1>3, <2>1 DEF CompleteRemove
<1>4. ASSUME NEW w \in Workers, CompleteForget(w) PROVE CountsOK' /\ JobInOnePlace' /\ Taken'
  <2>1. callback[w].job \in succeeded
    BY <1>4 DEF CompleteForget, Forgotten
  <2>2. QED  BY <1>4, <2>1 DEF CompleteForget
<1>5. CASE UNCHANGED Counts
  BY <1>5 DEF Counts
<1>6. QED  BY <1>1, <1>2, <1>3, <1>4, <1>5, FewStepsCount

-----------------------------------------------------------------------------
(* What is watched changes, or it does not.                                *)
LEMMA WatchStep == ASSUME JobQueueAssumption, IInv, Next, TypeOK' PROVE WatchHolds'
<1> USE DEF IInv, TypeOK, WatchHolds
<1>1. ASSUME NEW next, Touched(next),
             \A v \in Workers : next[v].pc = "exec" =>
                worker[v].pc = "exec" /\ next[v] = worker[v]
      PROVE  WatchHolds'
  BY <1>1 DEF Touched
<1>2. ASSUME UNCHANGED <<processing, retries>>,
             \A v \in Workers : worker'[v].pc = "exec" =>
                worker[v].pc = "exec" /\ worker'[v] = worker[v]
      PROVE  WatchHolds'
  BY <1>2
<1>3. ASSUME NEW w \in Workers, Exec(w) \/ Pop(w) \/ CompleteRemove(w) \/ CompleteForget(w)
      PROVE  WatchHolds'
  <2>1. CASE Exec(w)
    <3> DEFINE next == [worker EXCEPT ![w] = [@ EXCEPT !.pc = "check", !.job = NoJob, !.retry = 0,
                                                       !.clean = FALSE]]
    <3>1. Touched(next)
      BY <2>1 DEF Exec
    <3>2. \A v \in Workers : next[v].pc = "exec" => worker[v].pc = "exec" /\ next[v] = worker[v]
      BY DEF ThreadsOK, Threads
    <3>3. QED  BY <3>1, <3>2, <1>1
  <2>2. CASE Pop(w)
    <3>1. PICK j \in Waiting : Touched([worker EXCEPT ![w].pc = "setex", ![w].job = j])
      BY <2>2 DEF Pop
    <3> DEFINE next == [worker EXCEPT ![w].pc = "setex", ![w].job = j]
    <3>2. \A v \in Workers : next[v].pc = "exec" => worker[v].pc = "exec" /\ next[v] = worker[v]
      BY DEF ThreadsOK, Threads
    <3>3. QED  BY <3>1, <3>2, <1>1
  <2>3. CASE CompleteRemove(w) \/ CompleteForget(w)
    BY <2>3, <1>1 DEF CompleteRemove, CompleteForget
  <2>4. QED  BY <1>3, <2>1, <2>2, <2>3
<1>4. ASSUME NEW w \in Workers, Watch(w) PROVE WatchHolds'
  <2>1. worker[w].job \in Jobs
    BY <1>4 DEF Watch, At, ThreadsOK, HasJob
  <2>2. CASE worker[w].job \in Processing
    <3>1. worker' = [worker EXCEPT ![w].pc = "exec", ![w].retry = retries[worker[w].job],
                                   ![w].clean = TRUE]
      BY <1>4, <2>2 DEF Watch
    <3>2. worker'[w].job = worker[w].job /\ worker'[w].retry = retries[worker[w].job]
      BY <3>1 DEF ThreadsOK, Threads
    <3>3. \A v \in Workers \ {w} : worker'[v] = worker[v]
      BY <3>1 DEF ThreadsOK
    <3>4. QED  BY <1>4, <2>2, <3>2, <3>3 DEF Watch, queues, Processing
  <2>3. CASE worker[w].job \notin Processing
    <3>1. worker' = [worker EXCEPT ![w].pc = "check", ![w].job = NoJob]
      BY <1>4, <2>3 DEF Watch
    <3>2. QED  BY <1>2, <1>4, <3>1 DEF Watch, queues, ThreadsOK, Threads
  <2>4. QED  BY <2>2, <2>3
<1>5. ASSUME NEW w \in Workers, MainNext(w), ~Exec(w), ~Pop(w), ~Watch(w) PROVE WatchHolds'
  <2>1. UNCHANGED <<processing, retries>>
    BY <1>5 DEF MainNext, MainSize, ProcessingSize, ScanProcessing, LeaseExists, LeasesChecked,
                TakeLock, RenewGet, RenewSet, LeasesRenewed, PopTimesOut, SetLease, VisitOver,
                Finish, HandlerCloses, ForcedCloseEnds, HandlerExits, queues
  <2>2. \A v \in Workers \ {w} : worker'[v] = worker[v]
    BY <1>5 DEF MainNext, MainSize, ProcessingSize, ScanProcessing, LeaseExists, LeasesChecked,
                TakeLock, RenewGet, RenewSet, LeasesRenewed, PopTimesOut, SetLease, VisitOver,
                Finish, HandlerCloses, ForcedCloseEnds, HandlerExits, GoTo, ThreadsOK
  <2>3. worker'[w].pc # "exec"
    <3>0. worker[w] \in Threads
      BY DEF ThreadsOK
    <3>1. ASSUME NEW pc \in Pcs, GoTo(w, pc) PROVE worker'[w].pc = pc
      BY <3>0, <3>1 DEF GoTo, ThreadsOK, Threads
    <3>2. CASE \/ MainSize(w) \/ ProcessingSize(w) \/ LeasesChecked(w) \/ LeasesRenewed(w)
               \/ PopTimesOut(w) \/ VisitOver(w) \/ Finish(w)
               \/ HandlerCloses(w) \/ ForcedCloseEnds(w) \/ HandlerExits(w)
      BY <3>1, <3>2 DEF MainSize, ProcessingSize, LeasesChecked, LeasesRenewed, PopTimesOut,
                        VisitOver, Finish, HandlerCloses, ForcedCloseEnds, HandlerExits, Pcs
    <3>3. CASE ScanProcessing(w)
      BY <3>0, <3>3 DEF ScanProcessing, ThreadsOK, Threads
    <3>4. CASE LeaseExists(w)
      BY <3>0, <3>4 DEF LeaseExists, ThreadsOK, Threads
    <3>5. CASE TakeLock(w)
      BY <3>0, <3>5 DEF TakeLock, ThreadsOK, Threads
    <3>6. CASE RenewGet(w)
      BY <3>0, <3>6 DEF RenewGet, ThreadsOK, Threads
    <3>7. CASE RenewSet(w)
      BY <3>0, <3>7 DEF RenewSet, ThreadsOK, Threads
    <3>8. CASE SetLease(w)
      BY <3>0, <3>8 DEF SetLease, ThreadsOK, Threads
    <3>9. QED  BY <1>5, <3>2, <3>3, <3>4, <3>5, <3>6, <3>7, <3>8 DEF MainNext
  <2>4. QED  BY <2>1, <2>2, <2>3, <1>2
<1>6. ASSUME NEW w \in Workers, BeginCallback(w) \/ CompleteRelease(w) \/ EndCallback(w)
      PROVE  WatchHolds'
  BY <1>6, <1>2 DEF BeginCallback, CompleteRelease, EndCallback, queues
<1>7. ASSUME NEW w \in Workers, Crash(w) \/ Signal(w) \/ LoseReport(w) PROVE WatchHolds'
  BY <1>7, <1>2 DEF Crash, Signal, LoseReport, queues, Idle, ThreadsOK
<1>8. ASSUME NEW j \in Jobs, Expire(j) PROVE WatchHolds'
  BY <1>8, <1>2 DEF Expire
<1>9. QED  BY <1>3, <1>4, <1>5, <1>6, <1>7, <1>8 DEF Next, CallbackNext

LEMMA ForgottenStep == ASSUME IInv, Next, TypeOK' PROVE Forgotten'
<1> USE DEF IInv, Forgotten
<1>1. ASSUME NEW w \in Workers, CallbackNext(w) PROVE Forgotten'
  BY <1>1 DEF CallbackNext, BeginCallback, CompleteRemove, CompleteForget, CompleteRelease,
              EndCallback, TypeOK, CallsOK, Calls
<1>2. ASSUME NEW w \in Workers, MainNext(w) \/ Crash(w) \/ Signal(w) \/ LoseReport(w)
      PROVE  UNCHANGED <<callback, succeeded>>
  BY <1>2 DEF MainNext, MainSize, ProcessingSize, ScanProcessing, LeaseExists, LeasesChecked,
              Watch, Exec, TakeLock, RenewGet, RenewSet, LeasesRenewed, Pop, PopTimesOut,
              SetLease, VisitOver, Finish, HandlerCloses, ForcedCloseEnds, HandlerExits,
              Crash, Signal, LoseReport
<1>3. ASSUME NEW j \in Jobs, Expire(j) PROVE UNCHANGED <<callback, succeeded>>
  BY <1>3 DEF Expire
<1>4. QED  BY <1>1, <1>2, <1>3 DEF Next

-----------------------------------------------------------------------------
LEMMA Initial == ASSUME JobQueueAssumption, Init PROVE IInv
<1> USE DEF JobQueueAssumption, Init
<1>1. CountsOK /\ JobInOnePlace /\ Taken
  BY DEF CountsOK, JobInOnePlace, Taken
<1>2. ThreadsOK
  <2>1. \A w \in Workers : worker[w] = Idle("empty")
    OBVIOUS
  <2>2. Idle("empty") \in Threads /\ HasJob(Idle("empty"))
    BY IdleThread DEF Pcs
  <2>3. QED  BY <2>1, <2>2 DEF ThreadsOK
<1>3. CallsOK /\ Forgotten
  BY DEF CallsOK, Forgotten, Calls, ForJob
<1>4. WatchHolds
  BY DEF WatchHolds, Idle
<1>5. QED  BY <1>1, <1>2, <1>3, <1>4 DEF IInv, TypeOK

LEMMA Inductive == ASSUME JobQueueAssumption, IInv, [Next]_vars PROVE IInv'
<1>1. CASE Next
  <2>1. TypeOK'
    BY <1>1, ThreadsStep, CallsStep, CountsStep DEF IInv, TypeOK
  <2>2. QED  BY <1>1, <2>1, CountsStep, WatchStep, ForgottenStep DEF IInv
<1>2. CASE UNCHANGED vars
  BY <1>2 DEF vars, queues, IInv, TypeOK, CountsOK, ThreadsOK, CallsOK, JobInOnePlace, WatchHolds,
              Taken, Forgotten
<1>3. QED  BY <1>1, <1>2

LEMMA Invariant == Spec => []IInv
<1>1. Init => IInv
  BY Initial, JobQueueAssumption
<1>2. IInv /\ [Next]_vars => IInv'
  BY Inductive, JobQueueAssumption
<1>3. QED  BY <1>1, <1>2, PTL DEF Spec

(* The state is well formed: jobs are counted, threads that have to do     *)
(* with a job have one.                                                    *)
THEOREM TypeCorrect == Spec => []TypeOK
<1>1. IInv => TypeOK
  BY DEF IInv
<1>2. QED  BY <1>1, Invariant, PTL

(* No job is ever in two queues, or twice in one, however many workers     *)
(* find its lease expired at the same time (rediswq.py 84-158).            *)
THEOREM JobsStayInOnePlace == Spec => []JobInOnePlace
<1>1. IInv => JobInOnePlace
  BY DEF IInv
<1>2. QED  BY <1>1, Invariant, PTL

(* A job is taken at most once more than it may be retried, and is only    *)
(* given up when it was, unless it was completed (rediswq.py 39-41).       *)
THEOREM RetriesAreCounted == Spec => []RetryLimit
<1>1. IInv => RetryLimit
  BY JobQueueAssumption DEF JobQueueAssumption, IInv, TypeOK, CountsOK, JobInOnePlace, Taken, RetryLimit
<1>2. QED  BY <1>1, Invariant, PTL

-----------------------------------------------------------------------------
(* Nobody is misled by the two reads of empty() for good: as long as a job *)
(* waits, a worker is there that has yet to look at the main queue, and as *)
(* long as one is processed, a worker that has yet to look at both.        *)
Looking(w) == worker[w].pc \notin {"empty2", "close", "done"}
Staying(w) == worker[w].pc \notin {"close", "done"}
Attention ==
    /\ Waiting # {} => \E w \in Workers : Looking(w)
    /\ Processing # {} => \E w \in Workers : Staying(w)

LEMMA AttentionStep ==
    ASSUME TypeOK, Attention, Next
    PROVE  Attention'
<1> USE DEF At, GoTo, Waiting, Processing
<1>0. /\ worker \in [Workers -> Threads]
      /\ main \in [Jobs -> Nat] /\ processing \in [Jobs -> Nat]
  BY DEF TypeOK, ThreadsOK, CountsOK
<1>1. (\E w \in Workers : Looking(w)') => Attention'
  BY DEF Attention, Looking, Staying
(* Whoever does something about a job looks at the queues again.           *)
<1>2. ASSUME NEW w \in Workers, NEW pc \in Pcs \ {"empty2", "close", "done"}, worker'[w].pc = pc
      PROVE  Attention'
  BY <1>1, <1>2 DEF Looking
<1>3. ASSUME UNCHANGED worker, Waiting' \subseteq Waiting, Processing' \subseteq Processing
      PROVE  Attention'
  BY <1>3 DEF Attention, Looking, Staying
<1>4. ASSUME NEW w \in Workers, MainNext(w) PROVE Attention'
  <2>1. CASE MainSize(w)
    BY <1>0, <1>1, <2>1 DEF MainSize, Threads, Attention, Looking, Staying, queues
  <2>2. CASE ProcessingSize(w)
    BY <1>0, <1>1, <2>2 DEF ProcessingSize, Threads, Attention, Looking, Staying, queues
  <2>3. CASE Finish(w)
    BY <1>0, <2>3 DEF Finish, Threads, Attention, Looking, Staying, queues
  <2>4. CASE Exec(w)
    <3> DEFINE next == [worker EXCEPT ![w] = [@ EXCEPT !.pc = "check", !.job = NoJob, !.retry = 0,
                                                       !.clean = FALSE]]
    <3>1. Touched(next) /\ next[w].pc = "check"
      BY <1>0, <2>4 DEF Exec, Threads
    <3> HIDE DEF next
    <3>2. worker'[w].pc = "check"
      BY <3>1 DEF Touched
    <3>. QED  BY <1>2, <3>2 DEF Pcs
  <2>5. CASE Pop(w)
    <3>1. PICK j \in Jobs : Touched([worker EXCEPT ![w].pc = "setex", ![w].job = j])
      BY <2>5 DEF Pop
    <3> DEFINE next == [worker EXCEPT ![w].pc = "setex", ![w].job = j]
    <3>2. Touched(next) /\ next[w].pc = "setex"
      BY <1>0, <3>1 DEF Threads
    <3> HIDE DEF next
    <3>3. worker'[w].pc = "setex"
      BY <3>2 DEF Touched
    <3>. QED  BY <1>2, <3>3 DEF Pcs
  <2>6. CASE ScanProcessing(w) \/ SetLease(w) \/ RenewSet(w) \/ TakeLock(w)
    <3>1. worker'[w].pc \in Pcs \ {"empty2", "close", "done"}
      BY <1>0, <2>6 DEF ScanProcessing, SetLease, RenewSet, TakeLock, Threads, Pcs
    <3>. QED  BY <1>2, <3>1
  <2>7. CASE LeaseExists(w)
    <3>1. PICK j \in worker[w].todo :
            worker' = [worker EXCEPT ![w].todo = @ \ {j},
                         ![w].job = IF lease[j] = Nobody THEN j ELSE NoJob,
                         ![w].pc = IF lease[j] = Nobody THEN "watch" ELSE "check"]
      BY <2>7 DEF LeaseExists
    <3>2. worker'[w].pc \in {"watch", "check"}
      BY <1>0, <3>1 DEF Threads
    <3>. QED  BY <1>2, <3>2 DEF Pcs
  <2>r. CASE RenewGet(w)
    <3>1. PICK j \in worker[w].todo :
            worker' = [worker EXCEPT ![w].todo = @ \ {j},
                         ![w].job = IF lease[j] = Nobody THEN NoJob ELSE j,
                         ![w].pc = IF lease[j] = Nobody THEN "get" ELSE "set"]
      BY <2>r DEF RenewGet
    <3>2. worker'[w].pc \in {"get", "set"}
      BY <1>0, <3>1 DEF Threads
    <3>. QED  BY <1>2, <3>2 DEF Pcs
  <2>8. CASE Watch(w)
    <3>1. worker'[w].pc \in Pcs \ {"empty2", "close", "done"}
      BY <1>0, <2>8 DEF Watch, Threads, Pcs
    <3>. QED  BY <1>2, <3>1
  <2>9. CASE \/ LeasesChecked(w) \/ LeasesRenewed(w) \/ PopTimesOut(w) \/ VisitOver(w)
             \/ HandlerCloses(w) \/ ForcedCloseEnds(w) \/ HandlerExits(w)
    <3>1. worker'[w].pc \in Pcs \ {"empty2", "close", "done"}
      BY <1>0, <2>9
      DEF LeasesChecked, LeasesRenewed, PopTimesOut, VisitOver, HandlerCloses, ForcedCloseEnds,
          HandlerExits, Threads, Pcs
    <3>. QED  BY <1>2, <3>1
  <2>. QED  BY <1>4, <2>1, <2>2, <2>3, <2>4, <2>5, <2>6, <2>7, <2>r, <2>8, <2>9 DEF MainNext
<1>5. ASSUME NEW w \in Workers, CallbackNext(w) PROVE Attention'
  <2>1. CASE CompleteRemove(w)
    <3>1. \A v \in Workers : worker'[v].pc = worker[v].pc
      BY <1>0, <2>1 DEF CompleteRemove, Touched, Threads
    <3>2. Waiting' = Waiting /\ Processing' \subseteq Processing
      BY <1>0, <2>1 DEF CompleteRemove
    <3>. QED  BY <3>1, <3>2 DEF Attention, Looking, Staying
  <2>2. CASE CompleteForget(w)
    <3>1. \A v \in Workers : worker'[v].pc = worker[v].pc
      BY <1>0, <2>2 DEF CompleteForget, Touched, Threads
    <3>. QED  BY <2>2, <3>1 DEF CompleteForget, Attention, Looking, Staying
  <2>3. CASE BeginCallback(w) \/ CompleteRelease(w) \/ EndCallback(w)
    BY <1>3, <2>3 DEF BeginCallback, CompleteRelease, EndCallback, queues
  <2>. QED  BY <1>5, <2>1, <2>2, <2>3 DEF CallbackNext
<1>6. ASSUME NEW w \in Workers, Crash(w) \/ Signal(w) PROVE Attention'
  <2>1. worker'[w].pc \in {"dead", "handler", "leave"}
    BY <1>0, <1>6 DEF Crash, Signal, Idle
  <2>. QED  BY <1>2, <2>1 DEF Pcs
<1>l. ASSUME NEW w \in Workers, LoseReport(w) PROVE Attention'
  BY <1>3, <1>l DEF LoseReport, queues
<1>7. ASSUME NEW j \in Jobs, Expire(j) PROVE Attention'
  BY <1>3, <1>7 DEF Expire
<1>. QED  BY <1>4, <1>5, <1>6, <1>l, <1>7 DEF Next

(* If all workers ended because they found the queue empty, it is empty:   *)
(* a worker that was misled by a job that moved between the two reads of   *)
(* empty() (rediswq.py 71-75) is never the last.                           *)
THEOREM AllEndedMeansEmpty == Spec => []EndedMeansEmpty
<1>1. ASSUME JobQueueAssumption, Init PROVE Attention
  BY <1>1 DEF JobQueueAssumption, Init, Idle, Attention, Looking, Staying
<1>2. ASSUME TypeOK, Attention, [Next]_vars PROVE Attention'
  <2>1. CASE UNCHANGED vars
    BY <1>2, <2>1 DEF vars, queues, Attention, Looking, Staying, Waiting, Processing
  <2>. QED  BY <1>2, <2>1, AttentionStep
<1>3. Attention => EndedMeansEmpty
  BY DEF Attention, Looking, Staying, EndedMeansEmpty, At
<1>. QED  BY <1>1, <1>2, <1>3, JobQueueAssumption, TypeCorrect, PTL DEF Spec
=============================================================================
