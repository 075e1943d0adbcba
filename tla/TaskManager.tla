---------------------------- MODULE TaskManager ----------------------------
(***************************************************************************)
(* The manager process of a crawl: the user's thread, which hands command  *)
(* sequences to browsers and shuts everything down; one command thread per *)
(* browser, which sends the commands of a sequence one by one and awaits   *)
(* each answer; the watchdog; the thread that invokes callbacks; and, at   *)
(* the other end of the queues, the browser process and its extension.     *)
(* The storage controller is seen through the finalisations it is told of  *)
(* or makes (finals) and what it puts on the completion queue.  How a      *)
(* browser is spawned and closed in detail is the subject of               *)
(* BrowserLaunch, what the controller does that of StorageController.      *)
(***************************************************************************)
EXTENDS Naturals, Sequences, FiniteSets, SequencesExt

CONSTANTS
    NumBrowsers,
    CommandSequences,   \* the sequences of the script; each is one visit
    UserCommands,       \* commands between Initialize and Finalize
    Resets, Blocking, Callbacks,  \* sequences with these attributes
    FailureLimit,       \* manager_params.failure_limit
    ProfileLimited,     \* is browser_params.maximum_profile_size set
    ProfileArchived,    \* is browser_params.profile_archive_dir set
    MemoryWatchdog,     \* manager_params.memory_watchdog
    DumpsFail,          \* may dump_profile raise
    ForcedClose         \* may the script call close(relaxed=False)

ASSUME ConstantsAssumption ==
    /\ NumBrowsers \in Nat \ {0}
    /\ UserCommands \in Nat
    /\ FailureLimit \in Nat
    /\ "none" \notin CommandSequences
    /\ Resets \subseteq CommandSequences
    /\ Blocking \subseteq CommandSequences
    /\ Callbacks \subseteq CommandSequences
    /\ {ProfileLimited, ProfileArchived, MemoryWatchdog, DumpsFail, ForcedClose} \subseteq BOOLEAN

VARIABLES
    main,             \* the user's thread: [pc, cs, browser, relaxed, init]
    closing, failureStatus, failureCount, unsaved,
    thread,           \* command thread of a browser: [pc, cs, i, answer, reset]
    restartRequired, profilePath,
    proc,             \* browser process: [state, gen, command]
    commandQueue, statusQueue,
    inbox,            \* messages the extension has not handled
    finals,           \* finalize messages sent, and the controller's own finalisations
    reported,         \* indices of finals put on the completion queue
    completions,      \* the completion queue
    storage,          \* "up", "stopping", "unfed" (nothing more is put) or "down"
    callbackThread,   \* "poll" or "off"
    issued, touched, ranOn, succeeded, called   \* history

manager == <<main, closing, failureStatus, failureCount, unsaved>>
handles == <<thread, restartRequired, profilePath>>
processes == <<proc, commandQueue, statusQueue, inbox>>
controller == <<finals, reported, completions, storage>>
history == <<issued, touched, ranOn, succeeded, called>>
vars == <<manager, handles, processes, controller, callbackThread, history>>

Browsers == 1 .. NumBrowsers
FinalizeIndex == UserCommands + 1     \* get_commands_with_timeout: Initialize is 0
NoSequence == "none"
NoCommand == [cs |-> NoSequence, i |-> 0]
Final(v, success) == [visit |-> v, success |-> success]
NoThread == [pc |-> "off", cs |-> NoSequence, i |-> 0, answer |-> "none", reset |-> FALSE]
SockClosed == storage # "up"
FinalizedVisits == {finals[n].visit : n \in DOMAIN finals}

(* A handle before its browser is launched.                                *)
InitialHandles ==
    /\ thread = [b \in Browsers |-> NoThread]
    /\ restartRequired = [b \in Browsers |-> FALSE]
    /\ profilePath = [b \in Browsers |-> "none"]
    /\ proc = [b \in Browsers |-> [state |-> "dead", gen |-> 0, command |-> NoCommand]]
    /\ commandQueue = [b \in Browsers |-> <<>>]
    /\ statusQueue = [b \in Browsers |-> <<>>]
    /\ inbox = [b \in Browsers |-> <<>>]

StorageLaunched ==
    finals = <<>> /\ reported = {} /\ completions = <<>> /\ storage = "up"

(* The TaskManager is under construction: the storage controller runs, the *)
(* browsers are to be launched, the callback thread is not there yet.      *)
Init ==
    /\ main = [pc |-> "construct", cs |-> NoSequence, browser |-> 1, relaxed |-> TRUE,
               init |-> "running"]
    /\ closing = FALSE /\ failureStatus = "none" /\ failureCount = 0 /\ unsaved = {}
    /\ InitialHandles
    /\ StorageLaunched
    /\ callbackThread = "off"
    /\ issued = <<>> /\ touched = {}
    /\ ranOn = [v \in CommandSequences |-> {}]
    /\ succeeded = [v \in CommandSequences |-> {}]
    /\ called = [v \in CommandSequences |-> <<>>]

-----------------------------------------------------------------------------
(* The construction of the TaskManager.                                    *)

Launching(b) == main.pc = "construct" /\ main.browser = b

(* After the last browser the configuration is saved, under a visit nobody *)
(* waits for, and the callback thread is started.                          *)
Construct(b) ==
    /\ Launching(b)
    /\ proc' = [proc EXCEPT ![b].state = "idle", ![b].gen = 1]
    /\ profilePath' = [profilePath EXCEPT ![b] = "dir"]
    /\ IF b = NumBrowsers
       THEN main' = [main EXCEPT !.pc = "user", !.init = "done"] /\ callbackThread' = "poll"
       ELSE main' = [main EXCEPT !.browser = b + 1] /\ UNCHANGED callbackThread
    /\ UNCHANGED <<closing, failureStatus, failureCount, unsaved, thread, restartRequired,
                   commandQueue, statusQueue, inbox, controller, history>>

(* A launch that gives up closes the manager, one that raises shuts it     *)
(* down without archiving profiles; either way the constructor raises.     *)
ConstructionFails(b) ==
    /\ Launching(b)
    /\ closing' = TRUE
    /\ main' \in {[main EXCEPT !.pc = "shutdown", !.browser = 1, !.init = how] :
                     how \in {"gaveUp", "raised"}}
    /\ UNCHANGED <<failureStatus, failureCount, unsaved, handles, processes, controller,
                   callbackThread, history>>

-----------------------------------------------------------------------------
(* The user's thread.                                                      *)

ExecuteCommandSequence(cs) ==
    /\ main.pc = "user"
    /\ cs \notin Range(issued)
    /\ issued' = Append(issued, cs)
    /\ main' = [main EXCEPT !.pc = "pick", !.cs = cs]
    /\ UNCHANGED <<closing, failureStatus, failureCount, unsaved, handles, processes,
                   controller, callbackThread, touched, ranOn, succeeded, called>>

Ready(b) == thread[b].pc = "off"

(* _shutdown_manager up to its first browser; a second call returns.       *)
BeginShutdown(relaxed) ==
    /\ closing' = TRUE
    /\ main' = [main EXCEPT !.pc = "shutdown", !.browser = 1, !.relaxed = relaxed]

(* A sequence goes to the browser it names, or to one that is free.        *)
Available(b) == main.pc = "pick" /\ Ready(b)

(* _start_thread refuses a closed manager, ends the crawl when a failure   *)
(* was noted, and otherwise starts the visit.                              *)
StartThread(b) ==
    /\ Available(b)
    /\ \/ /\ closing
          /\ main' = [main EXCEPT !.pc = "user"]
          /\ UNCHANGED <<closing, unsaved, thread>>
       \/ /\ ~closing /\ failureStatus # "none"
          /\ BeginShutdown(TRUE)
          /\ UNCHANGED <<unsaved, thread>>
       \/ /\ ~closing /\ failureStatus = "none"
          /\ unsaved' = unsaved \cup ({main.cs} \cap Callbacks)
          /\ thread' = [thread EXCEPT ![b] = [NoThread EXCEPT !.pc = "start", !.cs = main.cs]]
          /\ main' = [main EXCEPT !.pc = IF main.cs \in Blocking THEN "join" ELSE "user",
                                  !.browser = b]
          /\ UNCHANGED closing
    /\ UNCHANGED <<failureStatus, failureCount, restartRequired, profilePath, processes,
                   controller, callbackThread, history>>

JoinBlocking ==
    /\ main.pc = "join"
    /\ thread[main.browser].pc = "off"
    /\ IF failureStatus # "none"
       THEN BeginShutdown(TRUE)
       ELSE main' = [main EXCEPT !.pc = "user"] /\ UNCHANGED closing
    /\ UNCHANGED <<failureStatus, failureCount, unsaved, handles, processes, controller,
                   callbackThread, history>>

Close(relaxed) ==
    /\ main.pc = "user"
    /\ ~closing
    /\ BeginShutdown(relaxed)
    /\ UNCHANGED <<failureStatus, failureCount, unsaved, handles, processes, controller,
                   callbackThread, history>>

(* What is left of a browser that was closed or killed.                    *)
CloseBrowserManager(b) ==
    /\ proc' = [proc EXCEPT ![b].state = "dead", ![b].command = NoCommand]
    /\ inbox' = [inbox EXCEPT ![b] = <<>>]

(* Seeded bug: a shutdown that does not wait for command threads.          *)
ThreadNotJoined(b) == TRUE

ThreadJoined(b) == main.relaxed => thread[b].pc = "off"

(* The profile is archived, unless a launch raised: an exception where     *)
(* there is none or where its dump fails.                                  *)
ArchiveOutcomes(b) ==
    IF main.init = "raised" \/ ~ProfileArchived THEN {"done"}
    ELSE IF profilePath[b] = "none" THEN {"raises"}
    ELSE IF DumpsFail THEN {"done", "raises"} ELSE {"done"}

(* A relaxed shutdown waits for the command sequence; then the browser is  *)
(* closed.  An exception leaves the other browsers and the controller.     *)
ShutdownBrowser ==
    LET b == main.browser IN
    /\ main.pc = "shutdown"
    /\ b \in Browsers
    /\ ThreadJoined(b)
    /\ CloseBrowserManager(b)
    /\ \E outcome \in ArchiveOutcomes(b) :
         main' = IF outcome = "raises" THEN [main EXCEPT !.pc = "aborted"]
                                       ELSE [main EXCEPT !.browser = b + 1]
    /\ UNCHANGED <<closing, failureStatus, failureCount, unsaved, handles, commandQueue,
                   statusQueue, controller, callbackThread, history>>

ShutdownStorage ==
    /\ main.pc = "shutdown"
    /\ main.browser \notin Browsers
    /\ main' = [main EXCEPT !.pc = "joinStorage"]
    /\ storage' = "stopping"
    /\ UNCHANGED <<closing, failureStatus, failureCount, unsaved, handles, processes,
                   finals, reported, completions, callbackThread, history>>

(* A manager under construction has no callback thread to join; if it was  *)
(* closed it goes on to save its configuration, for which there is no      *)
(* storage controller any more.                                            *)
JoinStorage ==
    /\ main.pc = "joinStorage"
    /\ storage = "down"
    /\ main' = [main EXCEPT !.pc = IF main.init = "done" THEN "joinCallbacks" ELSE "raised"]
    /\ UNCHANGED <<closing, failureStatus, failureCount, unsaved, handles, processes,
                   controller, callbackThread, history>>

JoinCallbackThread ==
    /\ main.pc = "joinCallbacks"
    /\ callbackThread = "off"
    /\ main' = [main EXCEPT !.pc = "user"]
    /\ UNCHANGED <<closing, failureStatus, failureCount, unsaved, handles, processes,
                   controller, callbackThread, history>>

-----------------------------------------------------------------------------
(* The command thread of browser b: execute_command_sequence.              *)

AtThread(b, pc) == thread[b].pc = pc
GoTo(b, pc) == thread' = [thread EXCEPT ![b].pc = pc]

(* A record or a finalize message cannot be sent on a closed socket: the   *)
(* exception ends the thread.                                              *)
SocketError(b, pc) ==
    /\ AtThread(b, pc)
    /\ SockClosed
    /\ GoTo(b, "off")
    /\ UNCHANGED <<manager, restartRequired, profilePath, processes, controller,
                   callbackThread, history>>

StartSequence(b) ==
    \/ SocketError(b, "start")
    \/ /\ AtThread(b, "start")
       /\ ~SockClosed
       /\ touched' = touched \cup {thread[b].cs}
       /\ GoTo(b, "send")
       /\ UNCHANGED <<manager, restartRequired, profilePath, processes, controller,
                      callbackThread, issued, ranOn, succeeded, called>>

SendCommand(b) ==
    /\ AtThread(b, "send")
    /\ commandQueue' = [commandQueue EXCEPT ![b] =
                          Append(@, [cs |-> thread[b].cs, i |-> thread[b].i])]
    /\ GoTo(b, "wait")
    /\ UNCHANGED <<manager, restartRequired, profilePath, proc, statusQueue, inbox,
                   controller, callbackThread, history>>

ReceiveStatus(b) ==
    /\ AtThread(b, "wait")
    /\ statusQueue[b] # <<>>
    /\ LET answer == Head(statusQueue[b]) IN
         /\ thread' = [thread EXCEPT ![b].pc = "record", ![b].answer = answer.kind]
         /\ failureStatus' = IF answer.kind = "CRITICAL" THEN "CriticalChildException"
                                                         ELSE failureStatus
         /\ succeeded' = IF answer.kind = "OK"
                         THEN [succeeded EXCEPT ![thread[b].cs] = @ \cup {thread[b].i}]
                         ELSE succeeded
    /\ statusQueue' = [statusQueue EXCEPT ![b] = Tail(@)]
    /\ UNCHANGED <<main, closing, failureCount, unsaved, restartRequired, profilePath, proc,
                   commandQueue, inbox, controller, callbackThread, issued, touched, ranOn,
                   called>>

CommandTimeout(b) ==
    /\ AtThread(b, "wait")
    /\ statusQueue[b] = <<>>
    /\ thread' = [thread EXCEPT ![b].pc = "record", ![b].answer = "timeout"]
    /\ UNCHANGED <<manager, restartRequired, profilePath, processes, controller,
                   callbackThread, history>>

SendFinalize(v, success) == finals' = Append(finals, Final(v, success))

(* The crawl_history row is written; a critical answer ends the sequence,  *)
(* any other failure is counted, a successful Finalize resets the count.   *)
RecordOutcome(b) ==
    \/ SocketError(b, "record")
    \/ /\ AtThread(b, "record")
       /\ ~SockClosed
       /\ \/ /\ thread[b].answer = "CRITICAL"
             /\ SendFinalize(thread[b].cs, FALSE)
             /\ GoTo(b, "off")
             /\ UNCHANGED failureCount
          \/ /\ thread[b].answer \in {"FAILED", "timeout"}
             /\ failureCount' = failureCount + 1
             /\ GoTo(b, "compare")
             /\ UNCHANGED finals
          \/ /\ thread[b].answer = "OK"
             /\ failureCount' = IF thread[b].i = FinalizeIndex THEN 0 ELSE failureCount
             /\ GoTo(b, "decide")
             /\ UNCHANGED finals
       /\ UNCHANGED <<main, closing, failureStatus, unsaved, restartRequired, profilePath,
                      processes, reported, completions, storage, callbackThread, history>>

(* Seeded bug: a command that answers FAILED does not interrupt the        *)
(* sequence, only one that does not answer does.                           *)
CompareFailuresLeniently(b) ==
    /\ AtThread(b, "compare")
    /\ restartRequired' = [restartRequired EXCEPT ![b] = thread[b].answer = "timeout" \/ @]
    /\ GoTo(b, "decide")
    /\ UNCHANGED <<manager, profilePath, processes, controller, callbackThread, history>>

(* The count is read again after the lock was released.                    *)
CompareFailures(b) ==
    /\ AtThread(b, "compare")
    /\ IF failureCount > FailureLimit
       THEN /\ failureStatus' = "ExceedCommandFailureLimit"
            /\ GoTo(b, "off")
            /\ UNCHANGED restartRequired
       ELSE /\ restartRequired' = [restartRequired EXCEPT ![b] = TRUE]
            /\ GoTo(b, "decide")
            /\ UNCHANGED failureStatus
    /\ UNCHANGED <<main, closing, failureCount, unsaved, profilePath, processes, controller,
                   callbackThread, history>>

(* A failed command, or the watchdog, interrupts the sequence.             *)
NextCommand(b) ==
    \/ restartRequired[b] /\ SocketError(b, "decide")
    \/ /\ AtThread(b, "decide")
       /\ \/ /\ restartRequired[b] /\ ~SockClosed
             /\ SendFinalize(thread[b].cs, FALSE)
             /\ GoTo(b, "sleep")
          \/ /\ ~restartRequired[b] /\ thread[b].i < FinalizeIndex
             /\ thread' = [thread EXCEPT ![b].pc = "send", ![b].i = @ + 1]
             /\ UNCHANGED finals
          \/ /\ ~restartRequired[b] /\ thread[b].i = FinalizeIndex
             /\ GoTo(b, "sleep")
             /\ UNCHANGED finals
       /\ UNCHANGED <<manager, restartRequired, profilePath, processes, reported, completions,
                      storage, callbackThread, history>>

(* Seeded bug: only a browser that failed is reset.                        *)
ResetOnlyAfterFailure(b) == {restartRequired[b] /\ thread[b].cs \in Resets}

(* The storage watchdog, where configured, decides instead of the          *)
(* sequence whether the browser is reset; it asserts that there is a       *)
(* profile to measure.                                                     *)
ResetWanted(b) ==
    IF ProfileLimited THEN BOOLEAN ELSE {thread[b].cs \in Resets}

AfterSequence(b) ==
    /\ AtThread(b, "sleep")
    /\ \/ closing /\ GoTo(b, "off")
       \/ ~closing /\ ProfileLimited /\ profilePath[b] = "none" /\ GoTo(b, "off")
       \/ /\ ~closing
          /\ ProfileLimited => profilePath[b] # "none"
          /\ \E reset \in ResetWanted(b) :
               thread' = [thread EXCEPT
                            ![b].pc = IF restartRequired[b] \/ reset THEN "close" ELSE "off",
                            ![b].reset = reset]
    /\ UNCHANGED <<manager, restartRequired, profilePath, processes, controller,
                   callbackThread, history>>

(* The shutdown signal is answered unless the process is gone or locked;   *)
(* one status is read, which may be the late answer of a command, and      *)
(* whatever else was put stays in the queue.                               *)
QueueAfterClose(b) ==
    LET left == statusQueue[b]
        answered == Append(left, [kind |-> "OK", command |-> NoCommand])
    IN  {IF left = <<>> THEN <<>> ELSE Tail(left)}
          \cup (IF proc[b].state = "dead" THEN {} ELSE {Tail(answered)})

RestartClose(b) ==
    /\ AtThread(b, "close")
    /\ CloseBrowserManager(b)
    /\ \E queue \in QueueAfterClose(b) : statusQueue' = [statusQueue EXCEPT ![b] = queue]
    /\ profilePath' = IF thread[b].reset THEN [profilePath EXCEPT ![b] = "none"] ELSE profilePath
    /\ GoTo(b, "launch")
    /\ UNCHANGED <<manager, restartRequired, commandQueue, controller, callbackThread, history>>

(* A launch dumps the profile of the last browser, if it was kept, before  *)
(* it replaces the queues; an exception there ends the command thread.     *)
DumpRaises(b) ==
    /\ DumpsFail
    /\ AtThread(b, "launch")
    /\ profilePath[b] # "none"
    /\ GoTo(b, "off")
    /\ UNCHANGED <<manager, restartRequired, profilePath, processes, controller,
                   callbackThread, history>>

(* Seeded bug: only the command queue is renewed.                          *)
SameStatusQueue(b) ==
    /\ commandQueue' = [commandQueue EXCEPT ![b] = <<>>]
    /\ UNCHANGED statusQueue

(* Seeded bug: only the status queue is renewed.                           *)
SameCommandQueue(b) ==
    /\ statusQueue' = [statusQueue EXCEPT ![b] = <<>>]
    /\ UNCHANGED commandQueue

FreshQueues(b) ==
    /\ commandQueue' = [commandQueue EXCEPT ![b] = <<>>]
    /\ statusQueue' = [statusQueue EXCEPT ![b] = <<>>]

LaunchSucceeds(b) ==
    /\ AtThread(b, "launch")
    /\ FreshQueues(b)
    /\ proc' = [proc EXCEPT ![b].state = "idle", ![b].gen = @ + 1]
    /\ profilePath' = [profilePath EXCEPT ![b] = "dir"]
    /\ GoTo(b, "launched")
    /\ UNCHANGED <<manager, restartRequired, inbox, controller, callbackThread, history>>

(* After four attempts the launch gives up; an error the browser process   *)
(* calls critical is raised here, with no failure noted.                   *)
LaunchFails(b) ==
    /\ AtThread(b, "launch")
    /\ FreshQueues(b)
    /\ failureStatus' \in {"ExceedLaunchFailureLimit", failureStatus}
    /\ GoTo(b, "off")
    /\ UNCHANGED <<main, closing, failureCount, unsaved, restartRequired, profilePath, proc,
                   inbox, controller, callbackThread, history>>

RestartDone(b) ==
    /\ AtThread(b, "launched")
    /\ restartRequired' = [restartRequired EXCEPT ![b] = FALSE]
    /\ GoTo(b, "off")
    /\ UNCHANGED <<manager, profilePath, processes, controller, callbackThread, history>>

-----------------------------------------------------------------------------
(* The browser process, its extension, and the watchdog.                   *)

TakeCommand(b) ==
    /\ proc[b].state = "idle"
    /\ commandQueue[b] # <<>>
    /\ LET command == Head(commandQueue[b]) IN
         /\ proc' = [proc EXCEPT ![b].state = "busy", ![b].command = command]
         /\ ranOn' = [ranOn EXCEPT ![command.cs] = @ \cup {<<b, proc[b].gen>>}]
    /\ commandQueue' = [commandQueue EXCEPT ![b] = Tail(@)]
    /\ UNCHANGED <<manager, handles, statusQueue, inbox, controller, callbackThread, issued,
                   touched, succeeded, called>>

Outcomes == {"ok", "failed", "crashed", "critical"}
StatusOf(outcome) ==
    CASE outcome = "ok" -> "OK" [] outcome = "critical" -> "CRITICAL" [] OTHER -> "FAILED"

(* Initialize and Finalize send their message to the extension; a          *)
(* WebDriverException leaves the loop running, any other exception ends it.*)
FinishCommand(b, outcome) ==
    LET command == proc[b].command IN
    /\ proc[b].state = "busy"
    /\ statusQueue' = [statusQueue EXCEPT ![b] =
                         Append(@, [kind |-> StatusOf(outcome), command |-> command])]
    /\ proc' = [proc EXCEPT
                  ![b].state = IF outcome \in {"ok", "failed"} THEN "idle" ELSE "dead",
                  ![b].command = NoCommand]
    /\ inbox' = IF outcome = "ok" /\ command.i = FinalizeIndex
                THEN [inbox EXCEPT ![b] = Append(@, command.cs)]
                ELSE inbox
    /\ UNCHANGED <<manager, handles, commandQueue, controller, callbackThread, history>>

(* The extension tells the storage controller that its visit is complete.  *)
ExtensionFinalizes(b) ==
    /\ inbox[b] # <<>>
    /\ SendFinalize(Head(inbox[b]), TRUE)
    /\ inbox' = [inbox EXCEPT ![b] = Tail(@)]
    /\ UNCHANGED <<manager, handles, proc, commandQueue, statusQueue, reported, completions,
                   storage, callbackThread, history>>

(* The watchdog looks at closing before it sleeps, so it may still flag a  *)
(* browser while the manager shuts down.                                   *)
WatchdogFlags(b) ==
    /\ MemoryWatchdog
    /\ main.init = "done"
    /\ proc[b].state # "dead"
    /\ restartRequired' = [restartRequired EXCEPT ![b] = TRUE]
    /\ UNCHANGED <<manager, thread, profilePath, processes, controller, callbackThread, history>>

-----------------------------------------------------------------------------
(* The storage controller, from the manager's side: finalize messages are  *)
(* answered, in any order, by update_completion_queue.                     *)

StorageReports(n) ==
    /\ storage \in {"up", "stopping"}
    /\ n \in DOMAIN finals \ reported
    /\ reported' = reported \cup {n}
    /\ completions' = Append(completions, finals[n])
    /\ UNCHANGED <<manager, handles, processes, finals, storage, callbackThread, history>>

(* It returns as soon as it has nothing to put after the shutdown signal,  *)
(* whatever the handlers still have to read: that is never put.            *)
FeederReturns ==
    /\ storage = "stopping"
    /\ storage' = "unfed"
    /\ UNCHANGED <<manager, handles, processes, finals, reported, completions, callbackThread,
                   history>>

(* Seeded bug: visits that are still open are forgotten.                   *)
NoInterruptedVisits == {}

(* The visits nobody has finalized.                                        *)
InterruptedVisits == touched \ FinalizedVisits

(* shutdown finalizes and puts every visit that has records: those, and    *)
(* visits of which a record came after they were finalized.                *)
StorageStops ==
    /\ storage = "unfed"
    /\ storage' = "down"
    /\ \E left \in SUBSET touched :
         LET own == SetToSeq({Final(v, FALSE) : v \in left}) IN
         /\ InterruptedVisits \subseteq left
         /\ finals' = finals \o own
         /\ completions' = completions \o own
         /\ reported' = reported \cup (DOMAIN finals' \ DOMAIN finals)
    /\ UNCHANGED <<manager, handles, processes, callbackThread, history>>

(* The thread that invokes callbacks: _mark_command_sequences_complete.    *)
CallbacksDone == closing /\ unsaved = {}

CallbackThreadEnds ==
    /\ callbackThread = "poll"
    /\ CallbacksDone
    /\ callbackThread' = "off"
    /\ UNCHANGED <<manager, handles, processes, controller, history>>

(* Seeded bug: the sequence is looked up but not removed.                  *)
MarkDoneKeeping(batch) ==
    LET done == {batch[n].visit : n \in DOMAIN batch} \cap unsaved
    IN  /\ unsaved' = unsaved
        /\ called' = [v \in CommandSequences |->
                        IF v \in done
                        THEN called[v] \o [n \in 1 .. 1 |-> \E m \in DOMAIN batch :
                                             batch[m] = Final(v, TRUE)]
                        ELSE called[v]]

(* All completions are taken off the queue and their callbacks invoked; a  *)
(* visit whose callback was invoked before is not in unsaved any more.     *)
MarkDone(batch) ==
    LET first(v) == batch[CHOOSE n \in DOMAIN batch :
                            /\ batch[n].visit = v
                            /\ \A m \in 1 .. n - 1 : batch[m].visit # v].success
        done == {batch[n].visit : n \in DOMAIN batch} \cap unsaved
    IN  /\ unsaved' = unsaved \ done
        /\ called' = [v \in CommandSequences |->
                         IF v \in done THEN Append(called[v], first(v)) ELSE called[v]]

InvokeCallbacks ==
    /\ callbackThread = "poll"
    /\ ~CallbacksDone
    /\ completions # <<>>
    /\ MarkDone(completions)
    /\ completions' = <<>>
    /\ UNCHANGED <<main, closing, failureStatus, failureCount, handles, processes, finals,
                   reported, storage, callbackThread, issued, touched, ranOn, succeeded>>

-----------------------------------------------------------------------------
UserNext ==
    \/ \E cs \in CommandSequences : ExecuteCommandSequence(cs)
    \/ \E relaxed \in {TRUE} \cup {~ForcedClose} : Close(relaxed)
MainNext ==
    \/ \E b \in Browsers :
         Construct(b) \/ ConstructionFails(b) \/ StartThread(b)
    \/ JoinBlocking \/ ShutdownBrowser \/ ShutdownStorage \/ JoinStorage \/ JoinCallbackThread
ThreadNext(b) ==
    \/ StartSequence(b) \/ SendCommand(b) \/ ReceiveStatus(b) \/ CommandTimeout(b)
    \/ RecordOutcome(b) \/ CompareFailures(b) \/ NextCommand(b) \/ AfterSequence(b)
    \/ RestartClose(b) \/ LaunchSucceeds(b) \/ LaunchFails(b) \/ DumpRaises(b)
    \/ RestartDone(b)
ProcessNext(b) == TakeCommand(b) \/ \E outcome \in Outcomes : FinishCommand(b, outcome)
StorageNext == (\E n \in DOMAIN finals : StorageReports(n)) \/ FeederReturns \/ StorageStops
CallbackNext == CallbackThreadEnds \/ InvokeCallbacks

Next ==
    \/ UserNext \/ MainNext \/ StorageNext \/ CallbackNext
    \/ \E b \in Browsers : ThreadNext(b) \/ ProcessNext(b) \/ ExtensionFinalizes(b) \/ WatchdogFlags(b)

(* Threads run and queue reads time out, so every thread takes its steps;  *)
(* a browser may hang in a command, its extension may starve, the user     *)
(* need not submit or close.                                               *)
Spec == Init /\ [][Next]_vars
FairSpec ==
    /\ Spec
    /\ WF_vars(MainNext)
    /\ WF_vars(StorageNext)
    /\ WF_vars(CallbackNext)
    /\ \A b \in Browsers : WF_vars(ThreadNext(b))

-----------------------------------------------------------------------------
(* Properties.                                                             *)

Closed == closing /\ main.pc \in {"user", "pick", "raised"}

(* A command thread that waits can only be given the answer to the command *)
(* it sent, never the late answer of a command that timed out before       *)
(* (browser_manager.py 390-402).                                           *)
AnswersBelongToCommands ==
    \A b \in Browsers : AtThread(b, "wait") =>
      \A n \in DOMAIN statusQueue[b] :
        statusQueue[b][n].command = [cs |-> thread[b].cs, i |-> thread[b].i]

(* All commands of a visit are executed by one browser process, restarts   *)
(* and late commands notwithstanding (command_sequence.py 28-29).          *)
OneProcessPerVisit == \A v \in CommandSequences : Cardinality(ranOn[v]) <= 1

(* A callback is told of success only if every command before Finalize was *)
(* answered OK, whoever finalized the visit and in whatever order the      *)
(* completions came.                                                       *)
SuccessMeansAllCommands ==
    \A v \in CommandSequences : \A n \in DOMAIN called[v] :
      called[v][n] => 0 .. UserCommands \subseteq succeeded[v]

(* A relaxed close, and a construction that failed, leave nothing behind:  *)
(* no command thread, no browser process (one could be launched by a       *)
(* restart that the close overlooked), no storage controller, no callback  *)
(* (_shutdown_manager, task_manager.py 298-332).                           *)
CloseLeavesNothing ==
    Closed /\ main.relaxed =>
      /\ \A b \in Browsers : AtThread(b, "off") /\ proc[b].state = "dead"
      /\ storage = "down" /\ unsaved = {} /\ callbackThread = "off"

(* Nothing runs after a sequence that asked for a reset in the same        *)
(* browser process (CommandSequence.reset, command_sequence.py 51-52).     *)
ResetIsolatesVisits ==
    \A m, n \in DOMAIN issued :
      m < n /\ issued[m] \in Resets => ranOn[issued[m]] \cap ranOn[issued[n]] = {}

(* A browser that is handed a visit can take a command (ready,             *)
(* browser_manager.py 98-100).                                             *)
ReadyBrowserIsAlive ==
    \A b \in Browsers : AtThread(b, "start") /\ ~closing => proc[b].state # "dead"

(* Whoever sees the failure count above the limit ends the crawl: the      *)
(* count never returns below the limit with no failure noted.              *)
ExceededLimitIsNoticed ==
    [][failureCount > FailureLimit /\ failureCount' <= FailureLimit
         => failureStatus' # "none"]_vars

(* The shutdown procedure is never abandoned before the storage controller *)
(* was told to shut down (_shutdown_manager, task_manager.py 296-297).     *)
ShutdownIsNotAbandoned == main.pc # "aborted"

(* The completion queue never said of a visit whose callback is owed that  *)
(* it was finalized, although the controller was told so in time.          *)
ReportLost ==
    storage = "down" /\ \E n \in DOMAIN finals \ reported : finals[n].visit \in unsaved

(* A close ends, and with it every callback that is owed has been invoked: *)
(* no thread waits for another, and no visit is left out, whether its      *)
(* sequence gave up or its extension was killed.  The one way for it to    *)
(* wait for ever is a completion the controller did not put because its    *)
(* feeder had returned (storage_controller.py 327, task_manager.py 395).   *)
ShutdownEnds == closing ~> Closed \/ ReportLost

(* Visits, promises and callbacks seen from the crawl script.              *)
Lifecycle == INSTANCE VisitLifecycle WITH
    Visits <- CommandSequences,
    started <- touched,
    ended <- {<<finals[n].visit, finals[n].success>> : n \in DOMAIN finals},
    called <- UNION {{<<v, called[v][n]>> : n \in DOMAIN called[v]} : v \in CommandSequences}
ImplementsVisitLifecycle == Lifecycle!Spec
=============================================================================
